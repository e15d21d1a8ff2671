--------------------------- MODULE BoundedReader ---------------------------
(***************************************************************************)
(* EvBuffer::BoundedReader (src/EvBuffer.cc and .hh): reads from a buffer  *)
(* and counts down how much it may still read. Only lengths are modelled.  *)
(* The buffer goes on receiving bytes, and others may read from it too.    *)
(***************************************************************************)
EXTENDS Integers

CONSTANTS
  Bound,     \* the size given to the constructor
  MaxLen,    \* bound on the length of the buffer
  MaxTaken,  \* bound on the bytes that the reader takes
  SizeT      \* size_t is an integer modulo this (2^64 in the program)

ASSUME BoundedReaderAssumption ==
  /\ SizeT \in Nat /\ SizeT > 2     \* 1 and 2 are sizes (see Get)
  /\ Bound \in 0..(SizeT - 1)
  /\ MaxLen \in 0..(SizeT - 1)
  /\ MaxTaken \in Nat

VARIABLES
  length,  \* evbuffer_get_length
  left,    \* bytes_remaining
  taken,   \* bytes that the reader removed from the buffer
  call,    \* the reader's last call: what it was asked for, what was left
           \* and there before, and whether it threw insufficient_data
  did      \* "short": a call found too few bytes; "get": get was called

vars == <<length, left, taken, call, did>>

Sizes == 0..(SizeT - 1)

TypeOK ==
  /\ length \in 0..MaxLen
  /\ left \in Sizes
  /\ taken \in 0..MaxTaken
  /\ call \in [asked : Sizes, left : Sizes, length : 0..MaxLen,
               threw : BOOLEAN]
  /\ did \subseteq {"short", "get"}

-----------------------------------------------------------------------------
Smaller(n, k) == IF n < k THEN n ELSE k

Init ==
  /\ length \in 0..MaxLen
  /\ left = Bound
  /\ taken = 0
  /\ call = [asked |-> 0, left |-> Bound, length |-> length, threw |-> FALSE]
  /\ did = {}

Arrive(n) ==
  /\ length + n <= MaxLen
  /\ length' = length + n
  /\ UNCHANGED <<left, taken, call, did>>

OthersRead(n) ==
  /\ n <= length
  /\ length' = length - n
  /\ UNCHANGED <<left, taken, call, did>>

Called(n, threw) ==
  call' = [asked |-> n, left |-> left, length |-> length, threw |-> threw]

(* The call removes n bytes from the buffer, or what there is.             *)
Takes(n) ==
  /\ length' = length - Smaller(n, length)
  /\ taken' = taken + Smaller(n, length)
  /\ taken' <= MaxTaken

(* consume(n) throws.                                                      *)
Refuse(n) ==
  /\ n < left
  /\ Called(n, TRUE)
  /\ UNCHANGED <<length, left, taken, did>>

(* Mutant: the other comparison, which throws when n is more than is left. *)
Consume_Bounded(n) == left >= n /\ left' = left - n

(* Mutant: bytes_remaining is not counted down.                            *)
Consume_Forgets(n) == n >= left /\ left' = left

(* consume(n) does not throw.                                              *)
Consume(n) == n >= left /\ left' = (left - n) % SizeT

(* skip(n): drain does not mind that there are too few bytes.              *)
Skip(n) ==
  /\ Consume(n)
  /\ Takes(n)
  /\ Called(n, FALSE)
  /\ did' = did \cup {d \in {"short"} : length < n}

Read(n) ==
  /\ Consume(n)
  /\ Takes(n)
  /\ Called(n, length < n)
  /\ did' = did \cup {d \in {"short"} : length < n}

(* get<T>() with sizeof(T) = n: skip(n), and then n bytes are removed.     *)
Get(n) ==
  /\ Consume(n)
  /\ Takes(2 * n)
  /\ Called(n, length < 2 * n)
  /\ did' = did \cup {"get"} \cup {d \in {"short"} : length < 2 * n}

Next ==
  \/ \E n \in 1..MaxLen : Arrive(n) \/ OthersRead(n)
  \/ \E n \in Sizes : Refuse(n) \/ Skip(n) \/ Read(n)
  \/ \E n \in {1, 2} : Get(n)

Spec == Init /\ [][Next]_vars

-----------------------------------------------------------------------------
(* What the reader took and what it says remains add up to the bound,      *)
(* modulo the size of a size_t, unless get was used or bytes were missing: *)
(* after a call for more than remains, "remaining" has wrapped. Values     *)
(* have their types: remaining is unsigned, too.                           *)
Accounts == TypeOK /\ (did = {} => (taken + left) % SizeT = Bound % SizeT)

(* Contrary to what the class is for, a reader cannot read its bound in    *)
(* pieces: whatever it took, it took all of the bound (or more) at once.   *)
NothingInPieces == taken = 0 \/ taken >= Bound \/ "short" \in did

(* Unlike its name says (insufficient_data, "insufficient data",           *)
(* EvBuffer.hh:13): the exception means that there was less to read than   *)
(* the call asked for.                                                     *)
InsufficientMeansTooFew ==
  call.threw /\ call.asked > 0 =>
    call.asked > call.left \/ call.asked > call.length
=============================================================================
