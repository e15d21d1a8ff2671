----------------------------- MODULE EvBuffers -----------------------------
(***************************************************************************)
(* What is in EvBuffers, and the memory they refer to (src/EvBuffer.cc).   *)
(*                                                                         *)
(* Bytes come in blocks. A block is copied into the buffer or the buffer   *)
(* refers to it: to a string of the caller (add_reference(const string&)), *)
(* to a string that was moved to the heap (add_reference(string&&)), or to *)
(* memory that a cleanup function releases, which add_reference copies to  *)
(* the heap. A chain is what libevent keeps of a referenced block in a     *)
(* buffer; it counts those of each block, and calls back for the last two  *)
(* kinds when the count reaches zero. Calls take bytes from the front of a *)
(* chain: where one splits it, libevent copies the part that it moves, and *)
(* where one shares it, the block has one chain more.                      *)
(*                                                                         *)
(* Not modelled, because they change nothing here: copyout; and calls but  *)
(* add_reference that libevent refuses (no memory, a frozen buffer), after *)
(* which the methods throw.                                                *)
(* What throws insufficient_data because there are fewer bytes than it was *)
(* asked for is the action of the call: remove and remove_buffer take the  *)
(* bytes first and throw then.                                             *)
(***************************************************************************)
EXTENDS Naturals, Sequences, FiniteSets

CONSTANTS
  Buf,      \* EvBuffers
  Mem,      \* blocks, each added at most once (bounds the additions)
  Size,     \* bytes in a block
  MaxBytes  \* bound on the bytes in all buffers

ASSUME BuffersAssumption == Size \in Nat \ {0} /\ MaxBytes \in Nat

VARIABLES
  content,  \* the bytes in each buffer
  how,      \* how each block was added
  refs,     \* libevent's count of the chains that refer to each block
  valid,    \* referenced blocks whose memory (and closure) exists
  handed,   \* bytes that callers have read, or drained
  fault,    \* an exception left a cleanup function
  did       \* history, see below

vars == <<content, how, refs, valid, handed, fault, did>>

(* dropped:    a caller destroyed a string that a buffer refers to         *)
(* short:      remove threw insufficient_data                              *)
(* duplicated: add_buffer_reference made a second copy of bytes            *)
Deeds == {"dropped", "short", "duplicated"}

Cleaned == {"moved", "closure"}

Byte == [mem : Mem, at : 1..Size, ref : BOOLEAN]

TypeOK ==
  /\ content \in [Buf -> Seq(Byte)]
  /\ how \in [Mem -> {"unused", "copied", "string"} \cup Cleaned]
  /\ refs \in [Mem -> Nat]
  /\ valid \subseteq {m \in Mem : how[m] \in {"string"} \cup Cleaned}
  /\ handed \subseteq Mem \X (1..Size)
  /\ fault \in BOOLEAN
  /\ did \subseteq Deeds

-----------------------------------------------------------------------------
Block(m, ref) == [i \in 1..Size |-> [mem |-> m, at |-> i, ref |-> ref]]

Ids(s) == {<<s[i].mem, s[i].at>> : i \in DOMAIN s}

(* Where there is a byte.                                                  *)
Spots == UNION {{b} \X DOMAIN content[b] : b \in Buf}

(* Bound: calls that would make more than MaxBytes are left out.           *)
HasRoom(n) == Cardinality(Spots) + n <= MaxBytes

(* Bound: add_buffer_reference is called once.                             *)
FirstDuplication == "duplicated" \notin did

Smaller(n, k) == IF n < k THEN n ELSE k

(* Bytes i and j of s lie in one chain that refers to a block.             *)
SameChain(s, i, j) ==
  /\ s[i].ref
  /\ \A k \in (i + 1)..j : s[k] = [s[k - 1] EXCEPT !.at = @ + 1]

(* The first k bytes of s as they arrive elsewhere: those of a chain that  *)
(* reaches beyond k are copied.                                            *)
Prefix(s, k) ==
  [i \in 1..k |->
     IF k < Len(s) /\ SameChain(s, i, k + 1)
     THEN [s[i] EXCEPT !.ref = FALSE] ELSE s[i]]

Rest(s, k) == SubSeq(s, k + 1, Len(s))

Referenced(c) ==
  {m \in Mem : \E b \in Buf : \E i \in DOMAIN c[b] :
                 c[b][i].mem = m /\ c[b][i].ref}

(* A chain is cut at its front only, so it still has its last byte.        *)
Lasts(s, m) ==
  {i \in DOMAIN s : s[i] = [mem |-> m, at |-> Size, ref |-> TRUE]}

Chains(s, m) == Cardinality(Lasts(s, m))

(* Mutant: dispatch_cxx_cleanup_fn and dispatch_delete_string delete       *)
(* nothing.                                                                *)
Released_Nothing(counts) == {}

(* What the callbacks delete when libevent's counts become these.          *)
Released(counts) ==
  {m \in Mem : how[m] \in Cleaned /\ refs[m] > 0 /\ counts[m] = 0}

(* A call that leaves the buffers as c, after libevent made the chains of  *)
(* made and let go of those of gone. A cleanup function may throw, through *)
(* libevent, and is not deleted then.                                      *)
Install(c, made, gone) ==
  LET counts ==
        [m \in Mem |-> (refs[m] + Chains(made, m)) - Chains(gone, m)]
  IN /\ ~fault
     /\ content' = c
     /\ refs' = counts
     /\ \/ /\ valid' = valid \ Released(counts)
           /\ fault' = FALSE
        \/ /\ \E m \in Released(counts) : how[m] = "closure"
           /\ fault' = TRUE
           /\ UNCHANGED valid

Init ==
  /\ content = [b \in Buf |-> <<>>]
  /\ how = [m \in Mem |-> "unused"]
  /\ refs = [m \in Mem |-> 0]
  /\ valid = {}
  /\ handed = {}
  /\ fault = FALSE
  /\ did = {}

-----------------------------------------------------------------------------
Add(b, m) ==
  /\ how[m] = "unused" /\ HasRoom(Size)
  /\ how' = [how EXCEPT ![m] = "copied"]
  /\ Install([content EXCEPT ![b] = @ \o Block(m, FALSE)], <<>>, <<>>)
  /\ UNCHANGED <<handed, did>>

Prepend(b, m) ==
  /\ how[m] = "unused" /\ HasRoom(Size)
  /\ how' = [how EXCEPT ![m] = "copied"]
  /\ Install([content EXCEPT ![b] = Block(m, FALSE) \o @], <<>>, <<>>)
  /\ UNCHANGED <<handed, did>>

(* Mutant: what was allocated is deleted when the call returns.            *)
AddReference_Deletes(b, m, kind) ==
  /\ ~fault
  /\ how[m] = "unused" /\ HasRoom(Size)
  /\ how' = [how EXCEPT ![m] = kind]
  /\ content' = [content EXCEPT ![b] = @ \o Block(m, TRUE)]
  /\ refs' = [refs EXCEPT ![m] = @ + 1]
  /\ UNCHANGED <<valid, handed, fault, did>>

(* The three forms of add_reference.                                       *)
AddReference(b, m, kind) ==
  /\ ~fault
  /\ how[m] = "unused" /\ HasRoom(Size)
  /\ how' = [how EXCEPT ![m] = kind]
  /\ content' = [content EXCEPT ![b] = @ \o Block(m, TRUE)]
  /\ refs' = [refs EXCEPT ![m] = @ + 1]
  /\ valid' = valid \cup {m}
  /\ UNCHANGED <<handed, fault, did>>

(* libevent refuses: what was allocated is deleted, and a string that was  *)
(* moved from is the caller's again.                                       *)
ReferenceRefused(b, m, kind) ==
  /\ ~fault
  /\ how[m] = "unused"
  /\ UNCHANGED vars

(* The caller's string goes away.                                          *)
DropString(m) ==
  /\ ~fault
  /\ how[m] = "string"
  /\ m \in valid
  /\ valid' = valid \ {m}
  /\ did' = did \cup {d \in {"dropped"} : m \in Referenced(content)}
  /\ UNCHANGED <<content, how, refs, handed, fault>>

AddBuffer(b, src) ==
  /\ b # src
  /\ Install([content EXCEPT ![b] = @ \o content[src], ![src] = <<>>],
             <<>>, <<>>)
  /\ UNCHANGED <<how, handed, did>>

PrependBuffer(b, src) ==
  /\ b # src
  /\ Install([content EXCEPT ![b] = content[src] \o @, ![src] = <<>>],
             <<>>, <<>>)
  /\ UNCHANGED <<how, handed, did>>

(* Mutant: bytes of a transfer that falls short are dropped.               *)
RemoveBuffer_Drops(b, src, n) ==
  LET k == IF b = src THEN 0 ELSE Smaller(n, Len(content[src]))
      arrives == IF k < n THEN <<>> ELSE Prefix(content[src], k)
      c == [content EXCEPT ![src] = Rest(@, k)]
  IN /\ Install([c EXCEPT ![b] = @ \o arrives], <<>>, <<>>)
     /\ UNCHANGED <<how, handed, did>>

(* remove_buffer and remove_buffer_atmost; libevent moves nothing between  *)
(* a buffer and itself.                                                    *)
RemoveBuffer(b, src, n) ==
  LET k == IF b = src THEN 0 ELSE Smaller(n, Len(content[src]))
      c == [content EXCEPT ![src] = Rest(@, k)]
  IN /\ Install([c EXCEPT ![b] = @ \o Prefix(content[src], k)], <<>>, <<>>)
     /\ UNCHANGED <<how, handed, did>>

AddBufferReference(b, src) ==
  /\ b # src
  /\ content[src] # <<>>
  /\ HasRoom(Len(content[src])) /\ FirstDuplication
  /\ Install([content EXCEPT ![b] = @ \o content[src]], content[src], <<>>)
  /\ did' = did \cup {"duplicated"}
  /\ UNCHANGED <<how, handed>>

(* drain, and remove_atmost.                                               *)
Drain(b, n) ==
  LET k == Smaller(n, Len(content[b]))
  IN /\ Install([content EXCEPT ![b] = Rest(@, k)],
                <<>>, SubSeq(content[b], 1, k))
     /\ handed' = handed \cup Ids(SubSeq(content[b], 1, k))
     /\ UNCHANGED <<how, did>>

(* remove and readers built on it: when there is less than n, what there   *)
(* is is in the caller's memory (into), or in an object that the exception *)
(* destroys.                                                               *)
Remove(b, n, into) ==
  LET k == Smaller(n, Len(content[b]))
  IN /\ Install([content EXCEPT ![b] = Rest(@, k)],
                <<>>, SubSeq(content[b], 1, k))
     /\ handed' = IF k = n \/ into
                  THEN handed \cup Ids(SubSeq(content[b], 1, k)) ELSE handed
     /\ did' = did \cup {d \in {"short"} : k < n /\ ~into}
     /\ UNCHANGED how

(* pullup makes the first n bytes contiguous: it copies them unless they   *)
(* are.                                                                    *)
Pullup(b, n) ==
  /\ n \in 1..Len(content[b])
  /\ ~SameChain(content[b], 1, n)
  /\ Install([content EXCEPT ![b] =
                [i \in DOMAIN @ |->
                   IF i <= n THEN [@[i] EXCEPT !.ref = FALSE] ELSE @[i]]],
             <<>>, SubSeq(content[b], 1, n))
  /\ UNCHANGED <<how, handed, did>>

(* The destructor of the owner, and a new EvBuffer in its place.           *)
Free(b) ==
  /\ Install([content EXCEPT ![b] = <<>>], <<>>, content[b])
  /\ handed' = handed \cup Ids(content[b])
  /\ UNCHANGED <<how, did>>

Next ==
  \/ \E b \in Buf, m \in Mem :
       \/ Add(b, m) \/ Prepend(b, m)
       \/ \E kind \in {"string"} \cup Cleaned :
            AddReference(b, m, kind) \/ ReferenceRefused(b, m, kind)
  \/ \E m \in Mem : DropString(m)
  \/ \E b, src \in Buf :
       \/ AddBuffer(b, src) \/ PrependBuffer(b, src)
       \/ AddBufferReference(b, src)
       \/ \E n \in 1..(Len(content[src]) + 1) : RemoveBuffer(b, src, n)
  \/ \E b \in Buf : Free(b)
  \/ \E b \in Buf : \E n \in 1..(Len(content[b]) + 1) :
       \/ Drain(b, n) \/ Pullup(b, n)
       \/ \E into \in BOOLEAN : Remove(b, n, into)

Spec == Init /\ [][Next]_vars

-----------------------------------------------------------------------------
(* Bytes in a buffer that refer to memory refer to memory that exists,     *)
(* however they were split, moved and duplicated, unless the caller of     *)
(* add_reference(const string&) destroyed the string too early. Values     *)
(* have their types: there are closures for the blocks that need one only. *)
DataLives ==
  TypeOK /\ (Referenced(content) \subseteq valid \/ "dropped" \in did)

(* A string or closure on the heap is deleted as soon as no buffer has a   *)
(* byte of it: cut, moved, copied and shared chains add up to libevent's   *)
(* count, also after a call that throws or that libevent refuses, unless a *)
(* cleanup function threw.                                                 *)
NothingLeaks ==
  \A m \in valid : how[m] \in Cleaned => m \in Referenced(content) \/ fault

Places(x) ==
  {p \in Spots : LET y == content[p[1]][p[2]] IN <<y.mem, y.at>> = x}

(* Each byte that was added is in one buffer at one place, or else was     *)
(* handed to a caller: nothing is lost but by a remove() that fell short,  *)
(* and nothing duplicated but by add_buffer_reference.                     *)
BytesConserved ==
  \A m \in Mem, k \in 1..Size :
    LET x == <<m, k>>
    IN how[m] # "unused" =>
         /\ Places(x) # {} \/ x \in handed \/ "short" \in did
         /\ "duplicated" \in did
              \/ Cardinality(Places(x)) + (IF x \in handed THEN 1 ELSE 0) <= 1
=============================================================================
