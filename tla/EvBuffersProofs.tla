-------------------------- MODULE EvBuffersProofs --------------------------
(***************************************************************************)
(* Theorems about EvBuffers, for any number of buffers and blocks of any   *)
(* length.                                                                 *)
(*                                                                         *)
(* Most calls rearrange: each byte that is in a buffer afterwards was in a *)
(* buffer before. who and where tell for every place in the new content    *)
(* which place the byte comes from (Rearranges). A byte is lost if nothing *)
(* comes from its place, and duplicated if two places have it from there;  *)
(* so the invariant is kept if the two functions are injective and leave   *)
(* out only places whose bytes are handed to a caller.                     *)
(*                                                                         *)
(* libevent's counts are right if they are as many as there are last bytes *)
(* of chains, and if each byte of a chain is followed by the last one      *)
(* (Sound): then a block has a count just when a buffer refers to it.      *)
(***************************************************************************)
EXTENDS EvBuffers, SequenceTheorems, FunctionTheorems,
        FiniteSetTheorems, TLAPS

Id(y) == <<y.mem, y.at>>

(* There are no bytes of a block that was not added yet.                   *)
Known ==
  /\ \A b \in Buf : \A i \in 1..Len(content[b]) :
       how[content[b][i].mem] # "unused"
  /\ \A x \in handed : how[x[1]] # "unused"

(* Bytes that were added are in a buffer, or were handed over.             *)
Present ==
  \A m \in Mem, k \in 1..Size :
    how[m] # "unused" =>
      \/ \E b \in Buf : \E i \in 1..Len(content[b]) : content[b][i].mem = m
                                                   /\ content[b][i].at = k
      \/ <<m, k>> \in handed
      \/ "short" \in did

(* A byte is in one place only, and not in a buffer when it was handed     *)
(* over.                                                                   *)
InOnePlace ==
  "duplicated" \notin did =>
    \A b \in Buf : \A i \in 1..Len(content[b]) :
      /\ Id(content[b][i]) \notin handed
      /\ \A d \in Buf : \A j \in 1..Len(content[d]) :
           Id(content[d][j]) = Id(content[b][i]) => d = b /\ j = i

Lives == Referenced(content) \subseteq valid \/ "dropped" \in did

-----------------------------------------------------------------------------
(* The sequences that calls leave.                                         *)
LEMMA BlockIs ==
  ASSUME NEW m \in Mem, NEW ref \in BOOLEAN
  PROVE  /\ Block(m, ref) \in Seq(Byte)
         /\ Len(Block(m, ref)) = Size
         /\ \A i \in 1..Size : /\ Block(m, ref)[i].mem = m
                               /\ Block(m, ref)[i].at = i
                               /\ Block(m, ref)[i].ref = ref
BY BuffersAssumption DEF Block, Byte

LEMMA PrefixIs ==
  ASSUME NEW s \in Seq(Byte), NEW k \in 0..Len(s)
  PROVE  /\ Prefix(s, k) \in Seq(Byte)
         /\ Len(Prefix(s, k)) = k
         /\ \A i \in 1..k : /\ Prefix(s, k)[i].mem = s[i].mem
                            /\ Prefix(s, k)[i].at = s[i].at
                            /\ Prefix(s, k)[i].ref => s[i].ref
<1>1. k \in Nat /\ Len(s) \in Nat /\ 1..k \subseteq 1..Len(s)
  OBVIOUS
<1>2. ASSUME NEW i \in 1..k
      PROVE  /\ s[i] \in Byte
             /\ [s[i] EXCEPT !.ref = FALSE] \in Byte
             /\ [s[i] EXCEPT !.ref = FALSE].mem = s[i].mem
             /\ [s[i] EXCEPT !.ref = FALSE].at = s[i].at
             /\ ~[s[i] EXCEPT !.ref = FALSE].ref
  <2>1. s[i] \in Byte
    BY <1>1
  <2> QED
    BY <2>1 DEF Byte
<1>3. Prefix(s, k) \in [1..k -> Byte]
  BY <1>2 DEF Prefix
<1>4. Prefix(s, k) \in Seq(Byte) /\ Len(Prefix(s, k)) = k
  BY <1>1, <1>3
<1>5. ASSUME NEW i \in 1..k
      PROVE  Prefix(s, k)[i] \in {s[i], [s[i] EXCEPT !.ref = FALSE]}
  BY DEF Prefix
<1> QED
  BY <1>2, <1>4, <1>5

LEMMA RestIs ==
  ASSUME NEW s \in Seq(Byte), NEW k \in 0..Len(s)
  PROVE  /\ Rest(s, k) \in Seq(Byte)
         /\ Len(Rest(s, k)) = Len(s) - k
         /\ \A i \in 1..(Len(s) - k) : Rest(s, k)[i] = s[k + i]
<1>1. /\ k \in Nat /\ Len(s) \in Nat /\ k + 1 \in Int
      /\ \A i \in (k + 1)..Len(s) : s[i] \in Byte
  OBVIOUS
<1>2. /\ Rest(s, k) \in Seq(Byte)
      /\ Len(Rest(s, k)) = IF k + 1 <= Len(s) THEN Len(s) - (k + 1) + 1 ELSE 0
      /\ \A i \in 1..(Len(s) - (k + 1) + 1) : Rest(s, k)[i] = s[k + 1 + i - 1]
  BY <1>1, SubSeqProperties DEF Rest
<1> QED
  BY <1>1, <1>2

(* What a caller gets is the first k bytes.                                *)
LEMMA IdsIs ==
  ASSUME NEW s \in Seq(Byte), NEW k \in 0..Len(s)
  PROVE  Ids(SubSeq(s, 1, k)) = {Id(s[i]) : i \in 1..k}
<1>1. /\ k \in Nat /\ Len(s) \in Nat
      /\ \A i \in 1..k : s[i] \in Byte
  OBVIOUS
<1>2. /\ SubSeq(s, 1, k) \in Seq(Byte)
      /\ Len(SubSeq(s, 1, k)) = IF 1 <= k THEN k - 1 + 1 ELSE 0
      /\ \A i \in 1..(k - 1 + 1) : SubSeq(s, 1, k)[i] = s[1 + i - 1]
  BY <1>1, SubSeqProperties
<1>3. DOMAIN SubSeq(s, 1, k) = 1..k
  BY <1>1, <1>2
<1>4. \A i \in 1..k : SubSeq(s, 1, k)[i] = s[i]
  BY <1>1, <1>2
<1> QED
  BY <1>3, <1>4 DEF Ids, Id

LEMMA ConcatAt ==
  ASSUME NEW u \in Seq(Byte), NEW v \in Seq(Byte)
  PROVE  /\ u \o v \in Seq(Byte) /\ Len(u \o v) = Len(u) + Len(v)
         /\ \A i \in 1..(Len(u) + Len(v)) :
              (u \o v)[i] = IF i <= Len(u) THEN u[i] ELSE v[i - Len(u)]
BY ConcatProperties

(* Which block a buffer refers to.                                         *)
LEMMA ReferencedIs ==
  ASSUME NEW c \in [Buf -> Seq(Byte)]
  PROVE  Referenced(c) =
           {m \in Mem : \E b \in Buf : \E i \in 1..Len(c[b]) :
                          c[b][i].mem = m /\ c[b][i].ref}
<1>1. \A b \in Buf : DOMAIN c[b] = 1..Len(c[b])
  OBVIOUS
<1> QED
  BY <1>1 DEF Referenced

Refers(c, x) ==
  \E b \in Buf : \E i \in 1..Len(c[b]) : c[b][i].mem = x /\ c[b][i].ref

LEMMA InReferenced ==
  ASSUME NEW c \in [Buf -> Seq(Byte)], NEW x
  PROVE  x \in Referenced(c) <=> x \in Mem /\ Refers(c, x)
BY ReferencedIs DEF Refers

-----------------------------------------------------------------------------
(* Chains. Every part of a chain is followed by its last byte, ...         *)
Chained(s) ==
  \A i \in 1..Len(s) :
    s[i].ref => \E j \in i..Len(s) : /\ SameChain(s, i, j)
                                     /\ j \in Lasts(s, s[i].mem)

(* ... so that the chains of c that refer to m can be counted there.       *)
AllLasts(c, m) == {p \in Buf \X Nat : p[2] \in Lasts(c[p[1]], m)}

LEMMA LastsAre ==
  ASSUME NEW s \in Seq(Byte), NEW m \in Mem
  PROVE  /\ Lasts(s, m) = {i \in 1..Len(s) : s[i].mem = m /\ s[i].at = Size
                                               /\ s[i].ref = TRUE}
         /\ Lasts(s, m) \subseteq 1..Len(s)
         /\ IsFiniteSet(Lasts(s, m))
         /\ Chains(s, m) \in Nat
<1>1. DOMAIN s = 1..Len(s) /\ Len(s) \in Nat /\ \A i \in 1..Len(s) : s[i] \in Byte
  OBVIOUS
<1>2. \A y \in Byte : y = [mem |-> m, at |-> Size, ref |-> TRUE]
                        <=> y.mem = m /\ y.at = Size /\ y.ref = TRUE
  BY DEF Byte
<1>3. Lasts(s, m) = {i \in 1..Len(s) : s[i].mem = m /\ s[i].at = Size
                                         /\ s[i].ref = TRUE}
  BY <1>1, <1>2 DEF Lasts
<1>4. IsFiniteSet(1..Len(s))
  BY <1>1, FS_Interval
<1>5. IsFiniteSet(Lasts(s, m))
  BY <1>3, <1>4, FS_Subset
<1>6. Chains(s, m) \in Nat
  BY <1>5, FS_CardinalityType DEF Chains
<1> QED
  BY <1>3, <1>5, <1>6

LEMMA InLasts ==
  ASSUME NEW s \in Seq(Byte), NEW m \in Mem, NEW i \in 1..Len(s)
  PROVE  i \in Lasts(s, m)
           <=> s[i].mem = m /\ s[i].at = Size /\ s[i].ref = TRUE
BY LastsAre, ZenonT(30)

LEMMA SameLast ==
  ASSUME NEW s \in Seq(Byte), NEW t \in Seq(Byte), NEW m \in Mem,
         NEW i \in 1..Len(s), NEW j \in 1..Len(t), t[j] = s[i]
  PROVE  j \in Lasts(t, m) <=> i \in Lasts(s, m)
<1>1. i \in Lasts(s, m) <=> s[i].mem = m /\ s[i].at = Size /\ s[i].ref = TRUE
  BY InLasts
<1>2. j \in Lasts(t, m) <=> t[j].mem = m /\ t[j].at = Size /\ t[j].ref = TRUE
  BY InLasts
<1> QED
  BY <1>1, <1>2

LEMMA NoChains ==
  ASSUME NEW m \in Mem
  PROVE  Chains(<<>>, m) = 0 /\ Chained(<<>>)
<1>1. Lasts(<<>>, m) = {}
  BY DEF Lasts
<1>2. Chains(<<>>, m) = 0
  BY <1>1, FS_EmptySet DEF Chains
<1> QED
  BY <1>2 DEF Chained

(* As many places, k further on.                                           *)
LEMMA ShiftedCounts ==
  ASSUME NEW S \in SUBSET Nat, IsFiniteSet(S), NEW k \in Nat
  PROVE  LET T == {i + k : i \in S}
         IN IsFiniteSet(T) /\ Cardinality(T) = Cardinality(S)
<1> DEFINE T == {i + k : i \in S}
           f == [i \in S |-> i + k]
<1>1. f \in Bijection(S, T)
  <2>1. f \in [S -> T]
    OBVIOUS
  <2>2. \A x, y \in S : f[x] = f[y] => x = y
    OBVIOUS
  <2>3. \A t \in T : \E x \in S : f[x] = t
    OBVIOUS
  <2> QED
    BY <2>1, <2>2, <2>3, Fun_IsBij
<1>2. ExistsBijection(S, T)
  BY <1>1 DEF ExistsBijection
<1> QED
  BY <1>2, FS_Bijection

LEMMA ChainsOfBoth ==
  ASSUME NEW u \in Seq(Byte), NEW v \in Seq(Byte), NEW m \in Mem
  PROVE  Chains(u \o v, m) = Chains(u, m) + Chains(v, m)
<1> DEFINE U == Lasts(u, m)
           V == Lasts(v, m)
           W == {i + Len(u) : i \in V}
           cat == u \o v
<1>1. /\ cat \in Seq(Byte) /\ Len(cat) = Len(u) + Len(v)
      /\ Len(u) \in Nat /\ Len(v) \in Nat
      /\ \A i \in 1..(Len(u) + Len(v)) :
           cat[i] = IF i <= Len(u) THEN u[i] ELSE v[i - Len(u)]
  BY ConcatProperties
<1>2. /\ U = {i \in 1..Len(u) : u[i].mem = m /\ u[i].at = Size
                                  /\ u[i].ref = TRUE}
      /\ V = {i \in 1..Len(v) : v[i].mem = m /\ v[i].at = Size
                                  /\ v[i].ref = TRUE}
      /\ IsFiniteSet(U) /\ IsFiniteSet(V) /\ V \subseteq 1..Len(v)
  BY LastsAre
<1>3. Lasts(cat, m) = {i \in 1..Len(cat) : cat[i].mem = m /\ cat[i].at = Size
                                             /\ cat[i].ref = TRUE}
  BY <1>1, LastsAre
<1> HIDE DEF U, V, cat
<1>4. Lasts(cat, m) = U \cup W
  <2>1. ASSUME NEW i \in 1..Len(cat) PROVE i \in Lasts(cat, m) <=> i \in U \cup W
    <3>1. CASE i <= Len(u)
      <4>1. i \in 1..Len(u) /\ cat[i] = u[i]
        BY <1>1, <3>1
      <4>2. i \notin W
        BY <1>1, <1>2, <3>1
      <4> QED
        BY <1>2, <1>3, <4>1, <4>2
    <3>2. CASE ~(i <= Len(u))
      <4>1. /\ i - Len(u) \in 1..Len(v) /\ cat[i] = v[i - Len(u)]
            /\ i \notin 1..Len(u) /\ i = (i - Len(u)) + Len(u)
        BY <1>1, <3>2
      <4>2. i \in W <=> i - Len(u) \in V
        BY <1>1, <1>2, <4>1
      <4> QED
        BY <1>2, <1>3, <4>1, <4>2
    <3> QED
      BY <3>1, <3>2
  <2>2. U \subseteq 1..Len(cat) /\ W \subseteq 1..Len(cat)
    BY <1>1, <1>2
  <2>3. Lasts(cat, m) \subseteq 1..Len(cat)
    BY <1>3
  <2> QED
    BY <2>1, <2>2, <2>3
<1>5. U \cap W = {}
  BY <1>1, <1>2
<1>6. IsFiniteSet(W) /\ Cardinality(W) = Cardinality(V)
  <2>1. V \in SUBSET Nat
    BY <1>1, <1>2
  <2> QED
    BY <1>1, <1>2, <2>1, ShiftedCounts
<1>7. Cardinality({}) = 0 /\ Cardinality(U) \in Nat /\ Cardinality(W) \in Nat
  BY <1>2, <1>6, FS_EmptySet, FS_CardinalityType
<1>8. Cardinality(U \cup W) = Cardinality(U) + Cardinality(W) - Cardinality(U \cap W)
  BY <1>2, <1>6, FS_Union, ZenonT(30)
<1>9. Cardinality(Lasts(cat, m)) = Cardinality(U) + Cardinality(V)
  <2> HIDE DEF W
  <2>1. Cardinality(U \cup W) = Cardinality(U) + Cardinality(W) - 0
    BY <1>5, <1>7, <1>8
  <2> QED
    BY <1>4, <1>6, <1>7, <2>1
<1> QED
  BY <1>9 DEF Chains, U, V, cat

(* What is cut off, and what stays.                                        *)
LEMMA ChainsCut ==
  ASSUME NEW s \in Seq(Byte), NEW k \in 0..Len(s), NEW m \in Mem
  PROVE  /\ SubSeq(s, 1, k) \in Seq(Byte) /\ Len(SubSeq(s, 1, k)) = k
         /\ \A i \in 1..k : SubSeq(s, 1, k)[i] = s[i]
         /\ Chains(s, m) = Chains(SubSeq(s, 1, k), m) + Chains(Rest(s, k), m)
<1> DEFINE u == SubSeq(s, 1, k)
           v == Rest(s, k)
<1>1. /\ k \in Nat /\ Len(s) \in Nat
      /\ \A i \in 1..k : s[i] \in Byte
  OBVIOUS
<1>2. /\ u \in Seq(Byte) /\ Len(u) = k
      /\ \A i \in 1..k : u[i] = s[i]
  <2>1. /\ SubSeq(s, 1, k) \in Seq(Byte)
        /\ Len(SubSeq(s, 1, k)) = IF 1 <= k THEN k - 1 + 1 ELSE 0
        /\ \A i \in 1..(k - 1 + 1) : SubSeq(s, 1, k)[i] = s[1 + i - 1]
    BY <1>1, SubSeqProperties
  <2> QED
    BY <1>1, <2>1
<1>3. /\ v \in Seq(Byte) /\ Len(v) = Len(s) - k
      /\ \A i \in 1..(Len(s) - k) : v[i] = s[k + i]
  BY RestIs
<1> HIDE DEF u, v
<1>4. /\ u \o v \in Seq(Byte) /\ Len(u \o v) = Len(u) + Len(v)
      /\ \A i \in 1..(Len(u) + Len(v)) :
           (u \o v)[i] = IF i <= Len(u) THEN u[i] ELSE v[i - Len(u)]
  BY <1>2, <1>3, ConcatAt
<1>5. u \o v = s
  <2>1. Len(u \o v) = Len(s)
    BY <1>1, <1>2, <1>3, <1>4
  <2>2. ASSUME NEW i \in 1..Len(s) PROVE (u \o v)[i] = s[i]
    <3>1. (u \o v)[i] = IF i <= k THEN u[i] ELSE v[i - k]
      BY <1>1, <1>2, <1>3, <1>4
    <3>2. CASE i <= k
      <4>1. i \in 1..k
        BY <1>1, <3>2
      <4> QED
        BY <1>2, <3>1, <3>2, <4>1
    <3>3. CASE ~(i <= k)
      <4>1. i - k \in 1..(Len(s) - k) /\ k + (i - k) = i
        BY <1>1, <3>3
      <4> QED
        BY <1>3, <3>1, <3>3, <4>1
    <3> QED
      BY <3>2, <3>3
  <2> QED
    BY <1>4, <2>1, <2>2, SeqEqual
<1>6. Chains(u \o v, m) = Chains(u, m) + Chains(v, m)
  BY <1>2, <1>3, ChainsOfBoth
<1> QED
  BY <1>2, <1>5, <1>6 DEF u, v

LEMMA ChainsOfBlock ==
  ASSUME NEW x \in Mem, NEW ref \in BOOLEAN, NEW m \in Mem
  PROVE  Chains(Block(x, ref), m) = IF x = m /\ ref THEN 1 ELSE 0
<1> DEFINE s == Block(x, ref)
<1>1. /\ s \in Seq(Byte) /\ Len(s) = Size /\ Size \in 1..Size
      /\ \A i \in 1..Size : s[i].mem = x /\ s[i].at = i /\ s[i].ref = ref
  BY BlockIs, BuffersAssumption
<1> HIDE DEF s
<1>2. \A i \in 1..Size : i \in Lasts(s, m) <=> x = m /\ i = Size /\ ref = TRUE
  <2> SUFFICES ASSUME NEW i \in 1..Size
               PROVE  i \in Lasts(s, m) <=> x = m /\ i = Size /\ ref = TRUE
    OBVIOUS
  <2>1. i \in 1..Len(s)
    BY <1>1
  <2>2. i \in Lasts(s, m) <=> s[i].mem = m /\ s[i].at = Size /\ s[i].ref = TRUE
    BY <1>1, <2>1, InLasts
  <2> QED
    BY <1>1, <2>2
<1>3. Lasts(s, m) = IF x = m /\ ref THEN {Size} ELSE {}
  <2>1. Lasts(s, m) \subseteq 1..Size
    BY <1>1, LastsAre
  <2> QED
    BY <1>1, <1>2, <2>1
<1> QED
  BY <1>3, FS_EmptySet, FS_Singleton DEF Chains, s

(* A chain of s is in t as well, n places further on.                      *)
LEMMA ChainStays ==
  ASSUME NEW s \in Seq(Byte), NEW t \in Seq(Byte), NEW n \in Int, Chained(s),
         \A l \in 1..Len(s) :
           l + n >= 1 => l + n \in 1..Len(t) /\ t[l + n] = s[l],
         NEW i \in 1..Len(s), i + n >= 1, t[i + n].ref
  PROVE  \E j \in (i + n)..Len(t) : /\ SameChain(t, i + n, j)
                                    /\ j \in Lasts(t, t[i + n].mem)
<1>1. /\ Len(s) \in Nat /\ Len(t) \in Nat /\ i \in Nat
      /\ t[i + n] = s[i] /\ s[i] \in Byte
  OBVIOUS
<1>2. PICK j \in i..Len(s) : SameChain(s, i, j) /\ j \in Lasts(s, s[i].mem)
  BY <1>1 DEF Chained
<1>3. /\ j \in 1..Len(s) /\ j + n >= 1 /\ j + n \in (i + n)..Len(t)
      /\ t[j + n] = s[j]
  BY <1>1
<1>4. SameChain(t, i + n, j + n)
  <2> SUFFICES ASSUME NEW l \in (i + n + 1)..(j + n)
               PROVE  t[l] = [t[l - 1] EXCEPT !.at = @ + 1]
    BY DEF SameChain
  <2>1. /\ l - n \in (i + 1)..j /\ l - n \in 1..Len(s)
        /\ (l - n) - 1 \in 1..Len(s) /\ (l - n) + n = l
        /\ ((l - n) - 1) + n = l - 1 /\ l - 1 >= 1 /\ l >= 1
    BY <1>1, <1>3
  <2>2. t[l] = s[l - n] /\ t[l - 1] = s[(l - n) - 1]
    BY <2>1
  <2>3. s[l - n] = [s[(l - n) - 1] EXCEPT !.at = @ + 1]
    BY <1>2, <2>1 DEF SameChain
  <2> QED
    BY <2>2, <2>3
<1>5. j + n \in Lasts(t, t[i + n].mem)
  <2>1. s[i].mem \in Mem
    BY <1>1 DEF Byte
  <2>2. j + n \in 1..Len(t) /\ t[i + n].mem = s[i].mem
    BY <1>1, <1>3
  <2>3. j + n \in Lasts(t, s[i].mem) <=> j \in Lasts(s, s[i].mem)
    BY <1>3, <2>1, <2>2, SameLast
  <2> QED
    BY <1>2, <2>2, <2>3
<1> QED
  BY <1>3, <1>4, <1>5

LEMMA BothChained ==
  ASSUME NEW u \in Seq(Byte), NEW v \in Seq(Byte), Chained(u), Chained(v)
  PROVE  Chained(u \o v)
<1> DEFINE cat == u \o v
<1>1. /\ cat \in Seq(Byte) /\ Len(cat) = Len(u) + Len(v)
      /\ Len(u) \in Nat /\ Len(v) \in Nat
      /\ \A i \in 1..(Len(u) + Len(v)) :
           cat[i] = IF i <= Len(u) THEN u[i] ELSE v[i - Len(u)]
  BY ConcatProperties
<1> HIDE DEF cat
<1>2. /\ \A l \in 1..Len(u) : l + 0 \in 1..Len(cat) /\ cat[l + 0] = u[l]
      /\ \A l \in 1..Len(v) :
           l + Len(u) \in 1..Len(cat) /\ cat[l + Len(u)] = v[l]
  <2>1. ASSUME NEW l \in 1..Len(v)
        PROVE  l + Len(u) \in 1..Len(cat) /\ cat[l + Len(u)] = v[l]
    <3>1. l + Len(u) \in 1..Len(cat) /\ ~(l + Len(u) <= Len(u))
          /\ (l + Len(u)) - Len(u) = l
      BY <1>1
    <3> QED
      BY <1>1, <3>1
  <2> QED
    BY <1>1, <2>1
<1>3. ASSUME NEW i \in 1..Len(cat), cat[i].ref
      PROVE  \E j \in i..Len(cat) : /\ SameChain(cat, i, j)
                                    /\ j \in Lasts(cat, cat[i].mem)
  <2>1. CASE i <= Len(u)
    <3>1. i \in 1..Len(u) /\ i + 0 = i /\ i + 0 >= 1 /\ 0 \in Int
      BY <1>1, <2>1
    <3>2. \E j \in (i + 0)..Len(cat) : /\ SameChain(cat, i + 0, j)
                                       /\ j \in Lasts(cat, cat[i + 0].mem)
      BY <1>1, <1>2, <1>3, <3>1, ChainStays
    <3> QED
      BY <3>1, <3>2
  <2>2. CASE ~(i <= Len(u))
    <3> DEFINE o == i - Len(u)
    <3>1. /\ o \in 1..Len(v) /\ o + Len(u) = i /\ o + Len(u) >= 1
          /\ Len(u) \in Int
      BY <1>1, <2>2
    <3> HIDE DEF o
    <3>2. \E j \in (o + Len(u))..Len(cat) :
             /\ SameChain(cat, o + Len(u), j)
             /\ j \in Lasts(cat, cat[o + Len(u)].mem)
      BY <1>1, <1>2, <1>3, <3>1, ChainStays
    <3> QED
      BY <3>1, <3>2
  <2> QED
    BY <2>1, <2>2
<1> QED
  BY <1>3 DEF Chained, cat

LEMMA RestChained ==
  ASSUME NEW s \in Seq(Byte), NEW k \in 0..Len(s), Chained(s)
  PROVE  Chained(Rest(s, k))
<1> DEFINE t == Rest(s, k)
<1>0. k \in Nat /\ Len(s) \in Nat /\ -k \in Int
  OBVIOUS
<1>1. /\ t \in Seq(Byte) /\ Len(t) = Len(s) - k
      /\ \A i \in 1..(Len(s) - k) : t[i] = s[k + i]
      /\ k \in Nat /\ Len(s) \in Nat /\ -k \in Int
  BY <1>0, RestIs
<1> HIDE DEF t
<1>2. \A l \in 1..Len(s) :
        l + (-k) >= 1 => l + (-k) \in 1..Len(t) /\ t[l + (-k)] = s[l]
  <2> SUFFICES ASSUME NEW l \in 1..Len(s), l + (-k) >= 1
               PROVE  l + (-k) \in 1..Len(t) /\ t[l + (-k)] = s[l]
    OBVIOUS
  <2>1. l + (-k) \in 1..(Len(s) - k) /\ k + (l + (-k)) = l
    BY <1>1
  <2> QED
    BY <1>1, <2>1
<1>3. ASSUME NEW i \in 1..Len(t), t[i].ref
      PROVE  \E j \in i..Len(t) : SameChain(t, i, j) /\ j \in Lasts(t, t[i].mem)
  <2> DEFINE o == k + i
  <2>1. o \in 1..Len(s) /\ o + (-k) = i /\ o + (-k) >= 1
    BY <1>1
  <2> HIDE DEF o
  <2>2. \E j \in (o + (-k))..Len(t) : /\ SameChain(t, o + (-k), j)
                                     /\ j \in Lasts(t, t[o + (-k)].mem)
    BY <1>1, <1>2, <1>3, <2>1, ChainStays
  <2> QED
    BY <2>1, <2>2
<1> QED
  BY <1>3 DEF Chained, t

LEMMA BlockChained ==
  ASSUME NEW x \in Mem, NEW ref \in BOOLEAN
  PROVE  Chained(Block(x, ref))
<1> DEFINE s == Block(x, ref)
<1>1. /\ s \in Seq(Byte) /\ Len(s) = Size /\ Size \in 1..Size
      /\ \A i \in 1..Size : s[i] = [mem |-> x, at |-> i, ref |-> ref]
  BY BlockIs, BuffersAssumption DEF Block
<1> HIDE DEF s
<1> SUFFICES ASSUME NEW i \in 1..Len(s), s[i].ref
             PROVE  \E j \in i..Len(s) : SameChain(s, i, j)
                                         /\ j \in Lasts(s, s[i].mem)
  BY DEF Chained, s
<1>2. Size \in i..Len(s) /\ Size \in Nat /\ i \in 1..Size
  BY <1>1
<1>3. SameChain(s, i, Size)
  <2> SUFFICES ASSUME NEW l \in (i + 1)..Size
               PROVE  s[l] = [s[l - 1] EXCEPT !.at = @ + 1]
    BY DEF SameChain
  <2>1. l \in 1..Size /\ l - 1 \in 1..Size /\ (l - 1) + 1 = l
    BY <1>2
  <2>2. /\ s[l] = [mem |-> x, at |-> (l - 1) + 1, ref |-> ref]
        /\ s[l - 1] = [mem |-> x, at |-> l - 1, ref |-> ref]
    BY <1>1, <2>1
  <2> QED
    BY <2>2
<1>4. Size \in Lasts(s, s[i].mem)
  <2>1. s[Size] = [mem |-> x, at |-> Size, ref |-> ref] /\ s[i].mem = x /\ ref
    BY <1>1, <1>2
  <2>2. Size \in Lasts(s, x)
    <3>1. /\ Size \in 1..Len(s) /\ s[Size].mem = x /\ s[Size].at = Size
          /\ s[Size].ref = TRUE
      BY <1>1, <2>1
    <3> QED
      BY ONLY <1>1, <3>1, x \in Mem, InLasts
  <2> QED
    BY <2>1, <2>2
<1> QED
  BY <1>2, <1>3, <1>4

(* A chain that ends before k + 1 arrives as a chain, others are copied.   *)
LEMMA PrefixChains ==
  ASSUME NEW s \in Seq(Byte), NEW k \in 0..Len(s), Chained(s)
  PROVE  /\ Chained(Prefix(s, k))
         /\ \A m \in Mem : Chains(Prefix(s, k), m) = Chains(SubSeq(s, 1, k), m)
<1> DEFINE t == Prefix(s, k)
           reaches(i) == k < Len(s) /\ SameChain(s, i, k + 1)
<1>1. /\ k \in Nat /\ Len(s) \in Nat /\ t \in Seq(Byte) /\ Len(t) = k
  BY PrefixIs
<1>2. ASSUME NEW i \in 1..k
      PROVE  /\ s[i] \in Byte
             /\ reaches(i) => ~t[i].ref
             /\ ~reaches(i) => t[i] = s[i]
  <2>1. s[i] \in Byte
    BY <1>1
  <2>2. t[i] = IF reaches(i) THEN [s[i] EXCEPT !.ref = FALSE] ELSE s[i]
    BY DEF Prefix
  <2>3. [s[i] EXCEPT !.ref = FALSE].ref = FALSE
    BY <2>1 DEF Byte
  <2> QED
    BY <2>1, <2>2, <2>3
<1> HIDE DEF t
(* Nothing follows the last byte in its chain.                             *)
<1>3. ASSUME NEW i \in 1..k, NEW m \in Mem, i \in Lasts(s, m)
      PROVE  ~reaches(i)
  <2> SUFFICES ASSUME k < Len(s), SameChain(s, i, k + 1)
               PROVE  FALSE
    OBVIOUS
  <2>1. i + 1 \in (i + 1)..(k + 1) /\ i + 1 \in 1..Len(s) /\ (i + 1) - 1 = i
    BY <1>1
  <2>2. s[i + 1] = [s[i] EXCEPT !.at = @ + 1]
    BY <2>1 DEF SameChain
  <2>3. s[i].at = Size /\ s[i] \in Byte /\ s[i + 1] \in Byte
    <3>1. s[i].at = Size
      BY <1>3, LastsAre
    <3> QED
      BY <1>2, <2>1, <3>1
  <2>4. s[i + 1].at = Size + 1
    BY <2>2, <2>3 DEF Byte
  <2> QED
    BY <2>3, <2>4, BuffersAssumption DEF Byte
<1>4. ASSUME NEW i \in 1..k, t[i].ref
      PROVE  \E j \in i..k : SameChain(t, i, j) /\ j \in Lasts(t, t[i].mem)
  <2>1. ~reaches(i) /\ t[i] = s[i] /\ s[i].mem \in Mem /\ i \in 1..Len(s)
    BY <1>1, <1>2, <1>4 DEF Byte
  <2>2. PICK j \in i..Len(s) : SameChain(s, i, j) /\ j \in Lasts(s, s[i].mem)
    BY <1>4, <2>1 DEF Chained
  <2>3. j \in i..k
    <3> SUFFICES ASSUME j > k PROVE FALSE
      BY <1>1, <2>2
    <3>1. k < Len(s) /\ \A l \in (i + 1)..(k + 1) : l \in (i + 1)..j
      BY <1>1
    <3>2. SameChain(s, i, k + 1)
      BY <2>2, <3>1 DEF SameChain
    <3> QED
      BY <2>1, <3>1, <3>2
(* No byte between i and j is copied, or i would be.                       *)
  <2>4. ASSUME NEW l \in i..j PROVE ~reaches(l) /\ t[l] = s[l]
    <3>1. l \in 1..k
      BY <1>1, <2>3
    <3>2. ASSUME reaches(l) PROVE reaches(i)
      <4>1. ASSUME NEW z \in (i + 1)..(k + 1)
            PROVE  s[z] = [s[z - 1] EXCEPT !.at = @ + 1]
        <5>1. z \in (i + 1)..j \/ z \in (l + 1)..(k + 1)
          BY <1>1, <2>3, <3>1
        <5> QED
          BY <2>2, <3>2, <5>1 DEF SameChain
      <4> QED
        BY <2>2, <3>2, <4>1 DEF SameChain
    <3> QED
      BY <1>2, <2>1, <3>1, <3>2
  <2>5. SameChain(t, i, j)
    <3>1. ASSUME NEW l \in (i + 1)..j
          PROVE  t[l] = [t[l - 1] EXCEPT !.at = @ + 1]
      <4>1. l \in i..j /\ l - 1 \in i..j
        BY <1>1, <2>3
      <4>2. t[l] = s[l] /\ t[l - 1] = s[l - 1]
        BY <2>4, <4>1
      <4> QED
        BY <2>2, <4>2 DEF SameChain
    <3> QED
      BY <1>4, <3>1 DEF SameChain
  <2>6. j \in Lasts(t, t[i].mem)
    <3>1. /\ t[j] = s[j] /\ j \in 1..Len(t) /\ j \in 1..Len(s)
          /\ t[i].mem = s[i].mem
      BY <1>1, <2>1, <2>3, <2>4
    <3>2. j \in Lasts(t, s[i].mem) <=> j \in Lasts(s, s[i].mem)
      BY <1>1, <2>1, <3>1, SameLast
    <3> QED
      BY <2>2, <3>1, <3>2
  <2> QED
    BY <2>3, <2>5, <2>6
<1>5. Chained(t)
  BY <1>1, <1>4 DEF Chained
<1>6. ASSUME NEW m \in Mem
      PROVE  Chains(t, m) = Chains(SubSeq(s, 1, k), m)
  <2> DEFINE u == SubSeq(s, 1, k)
  <2>1. u \in Seq(Byte) /\ Len(u) = k /\ \A i \in 1..k : u[i] = s[i]
    BY <1>1, ChainsCut
  <2> HIDE DEF u
  <2>2. ASSUME NEW i \in 1..k PROVE i \in Lasts(t, m) <=> i \in Lasts(u, m)
    <3>0. /\ i \in 1..Len(s) /\ i \in 1..Len(t) /\ i \in 1..Len(u)
          /\ u[i] = s[i]
      BY <1>1, <2>1
    <3>1. CASE reaches(i)
      <4>1. i \notin Lasts(s, m)
        BY <1>3, <3>1
      <4>2. i \notin Lasts(u, m)
        BY <2>1, <3>0, <4>1, SameLast
      <4>3. ~t[i].ref
        BY <1>2, <3>1
      <4>4. i \notin Lasts(t, m)
        BY <1>1, <4>3, InLasts
      <4> QED
        BY <4>2, <4>4
    <3>2. CASE ~reaches(i)
      <4>1. t[i] = u[i]
        BY <1>2, <3>0, <3>2
      <4> QED
        BY <1>1, <2>1, <3>0, <4>1, SameLast
    <3> QED
      BY <3>1, <3>2
  <2>3. Lasts(t, m) \subseteq 1..k /\ Lasts(u, m) \subseteq 1..k
    BY <1>1, <2>1, LastsAre
  <2>4. Lasts(t, m) = Lasts(u, m)
    BY <2>2, <2>3
  <2> QED
    BY <2>4 DEF Chains, u
<1> QED
  BY <1>5, <1>6 DEF t

(* Copying the first n bytes.                                              *)
LEMMA CopiedChains ==
  ASSUME NEW s \in Seq(Byte), NEW t \in Seq(Byte), NEW n \in 0..Len(s),
         Chained(s), Len(t) = Len(s), \A i \in 1..n : ~t[i].ref,
         \A i \in (n + 1)..Len(s) : t[i] = s[i]
  PROVE  /\ Chained(t)
         /\ \A m \in Mem :
              Chains(t, m) = Chains(s, m) - Chains(SubSeq(s, 1, n), m)
<1>1. n \in Nat /\ Len(s) \in Nat
  OBVIOUS
<1>2. Chained(t)
  <2> SUFFICES ASSUME NEW i \in 1..Len(t), t[i].ref
               PROVE  \E j \in i..Len(t) : /\ SameChain(t, i, j)
                                           /\ j \in Lasts(t, t[i].mem)
    BY DEF Chained
  <2>1. /\ i \in (n + 1)..Len(s) /\ t[i] = s[i] /\ i \in 1..Len(s)
        /\ s[i] \in Byte
    BY <1>1
  <2>2. PICK j \in i..Len(s) : SameChain(s, i, j) /\ j \in Lasts(s, s[i].mem)
    BY <2>1 DEF Chained
  <2>3. \A l \in i..j : t[l] = s[l]
    BY <1>1, <2>1
  <2>4. SameChain(t, i, j)
    <3>1. ASSUME NEW l \in (i + 1)..j
          PROVE  t[l] = [t[l - 1] EXCEPT !.at = @ + 1]
      <4>1. l \in i..j /\ l - 1 \in i..j
        BY <1>1, <2>1
      <4>2. t[l] = s[l] /\ t[l - 1] = s[l - 1]
        BY <2>3, <4>1
      <4> QED
        BY <2>2, <4>2 DEF SameChain
    <3> QED
      BY <3>1 DEF SameChain
  <2>5. j \in Lasts(t, t[i].mem)
    <3>1. t[j] = s[j] /\ j \in 1..Len(t) /\ s[i].mem \in Mem
      BY <1>1, <2>1, <2>3, SMTT(30) DEF Byte
    <3>2. j \in 1..Len(s)
      BY <1>1, <2>1
    <3>3. j \in Lasts(t, s[i].mem) <=> j \in Lasts(s, s[i].mem)
      BY <3>1, <3>2, SameLast
    <3> QED
      BY <2>1, <2>2, <3>3
  <2> QED
    BY <2>2, <2>4, <2>5
<1>3. ASSUME NEW m \in Mem
      PROVE  Chains(t, m) = Chains(s, m) - Chains(SubSeq(s, 1, n), m)
  <2> DEFINE u == SubSeq(s, 1, n)
  <2>1. u \in Seq(Byte) /\ Len(u) = n /\ \A i \in 1..n : u[i] = s[i]
    BY <1>1, ChainsCut
  <2> HIDE DEF u
  <2>2. /\ IsFiniteSet(Lasts(s, m)) /\ IsFiniteSet(Lasts(u, m))
        /\ IsFiniteSet(Lasts(t, m))
        /\ Lasts(s, m) = Lasts(u, m) \cup Lasts(t, m)
        /\ Lasts(u, m) \cap Lasts(t, m) = {}
    <3>1. ASSUME NEW i \in 1..Len(s)
          PROVE  /\ i \in Lasts(s, m) <=> i \in Lasts(u, m) \cup Lasts(t, m)
                 /\ ~(i \in Lasts(u, m) /\ i \in Lasts(t, m))
      <4>1. CASE i <= n
        <5>1. i \in 1..n /\ u[i] = s[i] /\ ~t[i].ref /\ i \in 1..Len(t)
              /\ i \in 1..Len(u)
          BY <1>1, <2>1, <4>1
        <5>2. i \in Lasts(u, m) <=> i \in Lasts(s, m)
          BY <2>1, <5>1, SameLast
        <5>3. i \notin Lasts(t, m)
          BY <5>1, InLasts
        <5> QED
          BY <5>2, <5>3
      <4>2. CASE ~(i <= n)
        <5>1. i \in (n + 1)..Len(s) /\ t[i] = s[i] /\ i \notin 1..Len(u)
              /\ i \in 1..Len(t)
          BY <1>1, <2>1, <4>2
        <5>2. i \in Lasts(t, m) <=> i \in Lasts(s, m)
          BY <5>1, SameLast
        <5>3. i \notin Lasts(u, m)
          BY <2>1, <5>1, LastsAre
        <5> QED
          BY <5>2, <5>3
      <4> QED
        BY <4>1, <4>2
    <3>2. /\ Lasts(s, m) \subseteq 1..Len(s) /\ Lasts(t, m) \subseteq 1..Len(s)
          /\ Lasts(u, m) \subseteq 1..Len(s)
          /\ IsFiniteSet(Lasts(s, m)) /\ IsFiniteSet(Lasts(u, m))
          /\ IsFiniteSet(Lasts(t, m))
      <4>1. 1..n \subseteq 1..Len(s)
        BY <1>1
      <4> QED
        BY <2>1, <4>1, LastsAre
    <3> QED
      BY <3>1, <3>2
  <2>3. /\ Cardinality(Lasts(s, m)) = Cardinality(Lasts(u, m))
             + Cardinality(Lasts(t, m)) - Cardinality(Lasts(u, m) \cap Lasts(t, m))
        /\ Cardinality({}) = 0
    BY <2>2, FS_Union, FS_EmptySet
  <2>4. /\ Chains(s, m) = Chains(u, m) + Chains(t, m) - 0
        /\ Chains(u, m) \in Nat /\ Chains(t, m) \in Nat
    <3>1. /\ Chains(s, m) = Cardinality(Lasts(s, m))
          /\ Chains(u, m) = Cardinality(Lasts(u, m))
          /\ Chains(t, m) = Cardinality(Lasts(t, m))
      BY DEF Chains
    <3>2. Chains(u, m) \in Nat /\ Chains(t, m) \in Nat
      BY <2>1, LastsAre
    <3>3. Cardinality(Lasts(u, m) \cap Lasts(t, m)) = 0
      BY <2>2, <2>3
    <3> HIDE DEF Chains
    <3> QED
      BY <2>3, <3>1, <3>2, <3>3
  <2> QED
    BY <2>4 DEF u
<1> QED
  BY <1>2, <1>3

-----------------------------------------------------------------------------
(* libevent's counts are right, and chains have their last bytes.          *)
Sound(c, counts) ==
  /\ counts \in [Mem -> Nat]
  /\ \A m \in Mem : /\ IsFiniteSet(AllLasts(c, m))
                    /\ counts[m] = Cardinality(AllLasts(c, m))
  /\ \A b \in Buf : Chained(c[b])

LEMMA AllLastsAre ==
  ASSUME NEW c \in [Buf -> Seq(Byte)], NEW m \in Mem, NEW x \in Buf, NEW i
  PROVE  <<x, i>> \in AllLasts(c, m) <=> i \in Lasts(c[x], m)
<1>1. Lasts(c[x], m) \subseteq Nat
  <2>1. Lasts(c[x], m) \subseteq 1..Len(c[x])
    BY LastsAre
  <2> QED
    BY <2>1
<1> QED
  BY <1>1 DEF AllLasts

(* One buffer changes.                                                     *)
LEMMA OneChanges ==
  ASSUME NEW c \in [Buf -> Seq(Byte)], NEW d \in [Buf -> Seq(Byte)],
         NEW b \in Buf, \A x \in Buf \ {b} : d[x] = c[x],
         NEW m \in Mem, IsFiniteSet(AllLasts(c, m))
  PROVE  /\ IsFiniteSet(AllLasts(d, m))
         /\ Cardinality(AllLasts(d, m)) =
              Cardinality(AllLasts(c, m)) - Chains(c[b], m) + Chains(d[b], m)
<1> DEFINE A == AllLasts(c, m)
           D == AllLasts(d, m)
           P == {b} \X Lasts(c[b], m)
           Q == {b} \X Lasts(d[b], m)
<1>1. /\ IsFiniteSet(P) /\ Cardinality(P) = Chains(c[b], m)
      /\ IsFiniteSet(Q) /\ Cardinality(Q) = Chains(d[b], m)
      /\ Chains(c[b], m) \in Nat /\ Chains(d[b], m) \in Nat
  <2>1. ASSUME NEW s \in Seq(Byte)
        PROVE  /\ IsFiniteSet({b} \X Lasts(s, m)) /\ Chains(s, m) \in Nat
               /\ Cardinality({b} \X Lasts(s, m)) = Chains(s, m)
    <3>1. IsFiniteSet(Lasts(s, m)) /\ Chains(s, m) \in Nat
      BY LastsAre
    <3>2. IsFiniteSet({b}) /\ Cardinality({b}) = 1
      BY FS_Singleton
    <3>3. /\ IsFiniteSet({b} \X Lasts(s, m))
          /\ Cardinality({b} \X Lasts(s, m)) = 1 * Chains(s, m)
      BY <3>1, <3>2, FS_Product, ZenonT(30) DEF Chains
    <3> QED
      BY <3>1, <3>3
  <2>2. c[b] \in Seq(Byte) /\ d[b] \in Seq(Byte)
    OBVIOUS
  <2> QED
    BY <2>1, <2>2
<1>2. \A p \in A \cup D : \E x \in Buf, i \in Nat : p = <<x, i>>
  BY DEF AllLasts
<1>3. \A x \in Buf, i \in Nat :
        /\ <<x, i>> \in A <=> i \in Lasts(c[x], m)
        /\ <<x, i>> \in D <=> i \in Lasts(d[x], m)
  BY AllLastsAre
<1>4. \A p \in P \cup Q : \E i \in Nat : p = <<b, i>>
  <2>1. Lasts(c[b], m) \subseteq 1..Len(c[b]) /\ Lasts(d[b], m) \subseteq 1..Len(d[b])
    BY LastsAre
  <2> QED
    BY <2>1
<1>5. \A i \in Nat :
        /\ <<b, i>> \in P <=> i \in Lasts(c[b], m)
        /\ <<b, i>> \in Q <=> i \in Lasts(d[b], m)
  OBVIOUS
<1>6. \A x \in Buf, i \in Nat : <<x, i>> \in P \cup Q => x = b
  OBVIOUS
<1> HIDE DEF A, D, P, Q
<1>7. P \subseteq A /\ (A \ P) \cap Q = {} /\ D = (A \ P) \cup Q
  <2>1. ASSUME NEW p \in P PROVE p \in A
    <3>1. PICK i \in Nat : p = <<b, i>>
      BY <1>4
    <3>2. <<b, i>> \in P
      BY <3>1
    <3> QED
      BY <1>3, <1>5, <3>1, <3>2, Zenon
  <2>2. ASSUME NEW p \in Q, p \in A PROVE p \in P
    <3>1. PICK i \in Nat : p = <<b, i>>
      BY <1>4
    <3>2. <<b, i>> \in A
      BY <2>2, <3>1
    <3> QED
      BY <1>3, <1>5, <3>1, <3>2, Zenon
  <2>3. ASSUME NEW x \in Buf, NEW i \in Nat
        PROVE  <<x, i>> \in D <=> <<x, i>> \in (A \ P) \cup Q
    <3>0. /\ <<x, i>> \in A <=> i \in Lasts(c[x], m)
          /\ <<x, i>> \in D <=> i \in Lasts(d[x], m)
      BY <1>3, Zenon
    <3>1. CASE x = b
      <4>1. /\ <<x, i>> \in P <=> i \in Lasts(c[x], m)
            /\ <<x, i>> \in Q <=> i \in Lasts(d[x], m)
        BY <1>5, <3>1, Zenon
      <4> QED
        BY <3>0, <4>1
    <3>2. CASE x # b
      <4>1. <<x, i>> \notin P \cup Q
        BY <1>6, <3>2, Zenon
      <4>2. d[x] = c[x]
        BY <3>2
      <4> QED
        BY <3>0, <4>1, <4>2
    <3> QED
      BY <3>1, <3>2
  <2>4. ASSUME NEW p \in Q PROVE p \in D
    <3>1. PICK i \in Nat : p = <<b, i>>
      BY <1>4
    <3>2. <<b, i>> \in Q
      BY <3>1
    <3> QED
      BY <1>3, <1>5, <3>1, <3>2, Zenon
  <2>5. ASSUME NEW p PROVE p \in D <=> p \in (A \ P) \cup Q
    <3>1. ASSUME p \in A \cup D PROVE p \in D <=> p \in (A \ P) \cup Q
      <4>1. \E x \in Buf, i \in Nat : p = <<x, i>>
        BY <1>2, <3>1
      <4>2. PICK x \in Buf, i \in Nat : p = <<x, i>>
        BY <4>1
      <4> QED
        BY <2>3, <4>2, Zenon
    <3> QED
      BY <2>4, <3>1
  <2> QED
    BY <2>1, <2>2, <2>5
<1>8. /\ IsFiniteSet(A \ P)
      /\ Cardinality(A \ P) = Cardinality(A) - Cardinality(A \cap P)
      /\ Cardinality(A) \in Nat
  BY FS_Difference, FS_CardinalityType DEF A
<1>9. A \cap P = P
  BY <1>7
<1>10. /\ IsFiniteSet((A \ P) \cup Q)
       /\ Cardinality((A \ P) \cup Q) =
            Cardinality(A \ P) + Cardinality(Q) - Cardinality((A \ P) \cap Q)
  BY <1>1, <1>8, FS_Union
<1>11. Cardinality((A \ P) \cap Q) = 0
  BY <1>7, FS_EmptySet
<1>12. IsFiniteSet(D) /\ Cardinality(D) = Cardinality((A \ P) \cup Q)
  BY <1>7, <1>10
<1>13. Cardinality(D) = Cardinality(A) - Chains(c[b], m) + Chains(d[b], m)
  <2> DEFINE n == Cardinality(A)
             o == Cardinality(A \ P)
             e == Cardinality(D)
  <2>1. /\ n \in Nat /\ o = n - Chains(c[b], m)
        /\ e = o + Chains(d[b], m) - 0
    BY <1>1, <1>8, <1>9, <1>10, <1>11, <1>12
  <2> HIDE DEF n, o, e
  <2>2. e = n - Chains(c[b], m) + Chains(d[b], m)
    BY <1>1, <2>1
  <2> QED
    BY <2>2 DEF n, e
<1> QED
  BY <1>12, <1>13 DEF A, D

Counted == Sound(content, refs)

(* A block that is counted is one that a buffer refers to.                 *)
LEMMA CountedIsReferenced ==
  ASSUME NEW c \in [Buf -> Seq(Byte)], NEW counts, Sound(c, counts), NEW m \in Mem
  PROVE  /\ counts[m] \in Nat
         /\ counts[m] > 0 <=> m \in Referenced(c)
<1>1. /\ counts[m] \in Nat /\ IsFiniteSet(AllLasts(c, m))
      /\ counts[m] = Cardinality(AllLasts(c, m))
  BY DEF Sound
<1>2. counts[m] = 0 <=> AllLasts(c, m) = {}
  BY <1>1, FS_EmptySet
<1>3. ASSUME AllLasts(c, m) # {}
      PROVE  m \in Referenced(c)
  <2>1. PICK p \in AllLasts(c, m) : TRUE
    BY <1>3
  <2>2. PICK x \in Buf, i \in Nat : i \in Lasts(c[x], m)
    BY <2>1 DEF AllLasts
  <2>3. i \in 1..Len(c[x]) /\ c[x][i].mem = m /\ c[x][i].ref = TRUE
    <3> DEFINE s == c[x]
    <3>1. s \in Seq(Byte) /\ i \in Lasts(s, m)
      BY <2>2
    <3> HIDE DEF s
    <3>2. i \in 1..Len(s)
      BY <3>1, LastsAre
    <3>3. i \in Lasts(s, m)
            <=> s[i].mem = m /\ s[i].at = Size /\ s[i].ref = TRUE
      BY ONLY <3>1, <3>2, m \in Mem, InLasts
    <3> QED
      BY <3>1, <3>2, <3>3 DEF s
  <2> QED
    BY <2>3, InReferenced DEF Refers
<1>4. ASSUME m \in Referenced(c)
      PROVE  AllLasts(c, m) # {}
  <2>1. PICK x \in Buf : \E i \in 1..Len(c[x]) : c[x][i].mem = m /\ c[x][i].ref
    BY <1>4, InReferenced DEF Refers
  <2>2. PICK i \in 1..Len(c[x]) : c[x][i].mem = m /\ c[x][i].ref
    BY <2>1
  <2>3. Chained(c[x])
    BY DEF Sound
  <2>4. PICK j \in i..Len(c[x]) : j \in Lasts(c[x], m)
    BY <2>2, <2>3 DEF Chained
  <2>5. <<x, j>> \in AllLasts(c, m)
    BY <2>4, AllLastsAre
  <2> QED
    BY <2>5
<1> QED
  BY <1>1, <1>2, <1>3, <1>4

-----------------------------------------------------------------------------
(* The invariant.                                                          *)
IInv ==
  /\ TypeOK
  /\ Lives
  /\ NothingLeaks
  /\ Counted
  /\ Known
  /\ Present
  /\ InOnePlace

-----------------------------------------------------------------------------
(* The counts that calls leave. One buffer changes, ...                    *)
LEMMA OneSound ==
  ASSUME IInv, NEW b \in Buf, NEW s \in Seq(Byte), Chained(s), NEW counts,
         counts \in [Mem -> Int],
         \A m \in Mem :
           counts[m] = (refs[m] - Chains(content[b], m)) + Chains(s, m)
  PROVE  Sound([content EXCEPT ![b] = s], counts)
<1> DEFINE c == [content EXCEPT ![b] = s]
<1>1. /\ content \in [Buf -> Seq(Byte)] /\ refs \in [Mem -> Nat]
      /\ Sound(content, refs)
  BY DEF IInv, TypeOK, Counted
<1>2. /\ c \in [Buf -> Seq(Byte)] /\ c[b] = s
      /\ \A x \in Buf \ {b} : c[x] = content[x]
  BY <1>1
<1> HIDE DEF c
<1>3. ASSUME NEW m \in Mem
      PROVE  /\ IsFiniteSet(AllLasts(c, m))
             /\ counts[m] = Cardinality(AllLasts(c, m)) /\ counts[m] \in Nat
  <2>1. /\ IsFiniteSet(AllLasts(content, m))
        /\ refs[m] = Cardinality(AllLasts(content, m))
    BY <1>1 DEF Sound
  <2>2. /\ IsFiniteSet(AllLasts(c, m))
        /\ Cardinality(AllLasts(c, m)) =
             Cardinality(AllLasts(content, m)) - Chains(content[b], m)
               + Chains(c[b], m)
    BY <1>1, <1>2, <2>1, OneChanges
  <2>3. Cardinality(AllLasts(c, m)) \in Nat
    BY <2>2, FS_CardinalityType
  <2>4. /\ Chains(content[b], m) \in Nat /\ Chains(s, m) \in Nat
        /\ refs[m] \in Nat
    BY <1>1, LastsAre
  <2>5. counts[m] = (refs[m] - Chains(content[b], m)) + Chains(s, m)
    OBVIOUS
  <2>6. counts[m] = Cardinality(AllLasts(c, m))
    BY <1>2, <2>1, <2>2, <2>4, <2>5
  <2> QED
    BY <2>2, <2>3, <2>6
<1>4. \A x \in Buf : Chained(c[x])
  BY <1>1, <1>2 DEF Sound
<1>5. counts \in [Mem -> Nat]
  BY <1>3
<1> QED
  BY <1>3, <1>4, <1>5 DEF Sound, c

LEMMA InstallCounts ==
  ASSUME IInv, NEW c, NEW made \in Seq(Byte), NEW gone \in Seq(Byte),
         Install(c, made, gone)
  PROVE  /\ refs' \in [Mem -> Int] /\ refs \in [Mem -> Nat]
         /\ \A m \in Mem :
              /\ Chains(made, m) \in Nat /\ Chains(gone, m) \in Nat
              /\ refs'[m] = (refs[m] + Chains(made, m)) - Chains(gone, m)
<1>1. refs' = [m \in Mem |-> (refs[m] + Chains(made, m)) - Chains(gone, m)]
  BY DEF Install
<1>2. refs \in [Mem -> Nat]
  BY DEF IInv, TypeOK
<1>3. \A m \in Mem : Chains(made, m) \in Nat /\ Chains(gone, m) \in Nat
  BY LastsAre
<1>4. \A m \in Mem : (refs[m] + Chains(made, m)) - Chains(gone, m) \in Int
  BY <1>2, <1>3
<1> QED
  BY <1>1, <1>2, <1>3, <1>4

LEMMA OneInstalled ==
  ASSUME IInv, NEW b \in Buf, NEW s \in Seq(Byte), Chained(s),
         NEW made \in Seq(Byte), NEW gone \in Seq(Byte),
         \A m \in Mem : Chains(s, m) =
           (Chains(content[b], m) + Chains(made, m)) - Chains(gone, m),
         Install([content EXCEPT ![b] = s], made, gone)
  PROVE  Sound([content EXCEPT ![b] = s], refs')
<1>1. /\ refs' \in [Mem -> Int] /\ refs \in [Mem -> Nat]
      /\ \A m \in Mem :
           /\ Chains(made, m) \in Nat /\ Chains(gone, m) \in Nat
           /\ refs'[m] = (refs[m] + Chains(made, m)) - Chains(gone, m)
  BY InstallCounts
<1>2. content[b] \in Seq(Byte)
  BY DEF IInv, TypeOK
<1>3. ASSUME NEW m \in Mem
      PROVE  refs'[m] = (refs[m] - Chains(content[b], m)) + Chains(s, m)
  <2>1. Chains(content[b], m) \in Nat
    BY <1>2, LastsAre
  <2>2. /\ Chains(made, m) \in Nat /\ Chains(gone, m) \in Nat
        /\ refs'[m] = (refs[m] + Chains(made, m)) - Chains(gone, m)
        /\ refs[m] \in Nat
    BY <1>1
  <2>3. Chains(s, m) = (Chains(content[b], m) + Chains(made, m)) - Chains(gone, m)
    OBVIOUS
  <2> QED
    BY <2>1, <2>2, <2>3
<1> QED
  BY <1>1, <1>3, OneSound

(* ... or two do, that pass chains on.                                     *)
LEMMA TwoInstalled ==
  ASSUME IInv, NEW b \in Buf, NEW src \in Buf, b # src,
         NEW c \in [Buf -> Seq(Byte)],
         \A x \in Buf \ {b, src} : c[x] = content[x],
         Chained(c[b]), Chained(c[src]),
         \A m \in Mem : Chains(c[b], m) + Chains(c[src], m) =
                          Chains(content[b], m) + Chains(content[src], m),
         Install(c, <<>>, <<>>)
  PROVE  Sound(c, refs')
<1> DEFINE d == [content EXCEPT ![b] = c[b]]
<1>1. /\ content \in [Buf -> Seq(Byte)] /\ refs \in [Mem -> Nat]
      /\ Sound(content, refs)
  BY DEF IInv, TypeOK, Counted
<1>2. /\ d \in [Buf -> Seq(Byte)] /\ d[b] = c[b] /\ d[src] = content[src]
      /\ \A x \in Buf \ {b} : d[x] = content[x]
      /\ \A x \in Buf \ {src} : c[x] = d[x]
  BY <1>1
<1> HIDE DEF d
<1>3. /\ refs' \in [Mem -> Int]
      /\ \A m \in Mem : refs'[m] = refs[m]
  <2>1. <<>> \in Seq(Byte)
    OBVIOUS
  <2>2. /\ refs' \in [Mem -> Int]
        /\ \A m \in Mem :
             refs'[m] = (refs[m] + Chains(<<>>, m)) - Chains(<<>>, m)
    BY <2>1, InstallCounts
  <2>3. \A m \in Mem : Chains(<<>>, m) = 0
    BY NoChains
  <2> QED
    BY <1>1, <2>2, <2>3
<1>4. ASSUME NEW m \in Mem
      PROVE  /\ IsFiniteSet(AllLasts(c, m))
             /\ refs[m] = Cardinality(AllLasts(c, m))
  <2>1. /\ IsFiniteSet(AllLasts(content, m))
        /\ refs[m] = Cardinality(AllLasts(content, m))
    BY <1>1 DEF Sound
  <2>2. /\ IsFiniteSet(AllLasts(d, m))
        /\ Cardinality(AllLasts(d, m)) =
             Cardinality(AllLasts(content, m)) - Chains(content[b], m)
               + Chains(d[b], m)
    BY <1>1, <1>2, <2>1, OneChanges
  <2>3. /\ IsFiniteSet(AllLasts(c, m))
        /\ Cardinality(AllLasts(c, m)) =
             Cardinality(AllLasts(d, m)) - Chains(d[src], m) + Chains(c[src], m)
    BY <1>2, <2>2, OneChanges
  <2>4. /\ Chains(content[b], m) \in Nat /\ Chains(content[src], m) \in Nat
        /\ Chains(c[b], m) \in Nat /\ Chains(c[src], m) \in Nat
    BY <1>1, LastsAre
  <2>5. /\ Cardinality(AllLasts(content, m)) \in Nat
        /\ Chains(d[b], m) = Chains(c[b], m)
        /\ Chains(d[src], m) = Chains(content[src], m)
    BY <1>2, <2>1, FS_CardinalityType
  <2>6. Chains(c[b], m) + Chains(c[src], m) =
          Chains(content[b], m) + Chains(content[src], m)
    OBVIOUS
  <2>7. Cardinality(AllLasts(c, m)) = Cardinality(AllLasts(content, m))
    BY <2>2, <2>3, <2>4, <2>5, <2>6
  <2> QED
    BY <2>1, <2>3, <2>7
<1>5. \A x \in Buf : Chained(c[x])
  <2>1. \A x \in Buf : Chained(content[x])
    BY <1>1 DEF Sound
  <2> QED
    BY <2>1
<1>6. refs' \in [Mem -> Nat]
  BY <1>1, <1>3
<1> QED
  BY <1>3, <1>4, <1>5, <1>6 DEF Sound

-----------------------------------------------------------------------------
(* The byte at place i of b in c comes from place where[b][i] of the       *)
(* buffer who[b][i]; on the way it may have been copied to memory that is  *)
(* not referenced.                                                         *)
Rearranges(c, who, where) ==
  /\ c \in [Buf -> Seq(Byte)]
  /\ who \in [Buf -> [Nat -> Buf]]
  /\ where \in [Buf -> [Nat -> Nat]]
  /\ \A b \in Buf : \A i \in 1..Len(c[b]) :
       LET old == content[who[b][i]]
           j == where[b][i]
       IN /\ j \in 1..Len(old)
          /\ c[b][i].mem = old[j].mem
          /\ c[b][i].at = old[j].at
          /\ c[b][i].ref => old[j].ref

(* Something in c comes from place j of d.                                 *)
Arrives(c, who, where, d, j) ==
  \E b \in Buf : \E i \in 1..Len(c[b]) : who[b][i] = d /\ where[b][i] = j

(* No two bytes come from the same place.                                  *)
Injective(c, who, where) ==
  \A a, b \in Buf : \A i \in 1..Len(c[a]) : \A j \in 1..Len(c[b]) :
    who[a][i] = who[b][j] /\ where[a][i] = where[b][j] => a = b /\ i = j

(* What does not arrive is handed over, or lost by a remove; ...           *)
NothingLost(c, who, where) ==
  /\ handed \subseteq handed'
  /\ \A d \in Buf : \A j \in 1..Len(content[d]) :
       Arrives(c, who, where, d, j) \/ Id(content[d][j]) \in handed'
                                    \/ "short" \in did'

(* ... and only what does not arrive is.                                   *)
HandsOver(c, who, where) ==
  \A x \in handed' \ handed :
    \E d \in Buf : \E j \in 1..Len(content[d]) :
      x = Id(content[d][j]) /\ ~Arrives(c, who, where, d, j)

(* What every call does to the memory that blocks lie in.                  *)
LEMMA MemoryKept ==
  ASSUME IInv, NEW c \in [Buf -> Seq(Byte)], NEW made, NEW gone,
         Install(c, made, gone), Sound(c, refs'),
         Referenced(c) \subseteq Referenced(content),
         \A m \in Mem : how'[m] = how[m] \/ how[m] = "unused",
         how' \in [Mem -> {"unused", "copied", "string"} \cup Cleaned],
         \A m \in Mem : how'[m] \in Cleaned => how[m] = how'[m],
         did \subseteq did'
  PROVE  /\ valid' \subseteq {m \in Mem : how'[m] \in {"string"} \cup Cleaned}
         /\ fault' \in BOOLEAN
         /\ Lives'
         /\ NothingLeaks'
<1>1. /\ content' = c /\ valid' \subseteq valid /\ fault' \in BOOLEAN /\ ~fault
      /\ \A m \in valid : m \in Released(refs') \/ m \in valid'
      /\ \A m \in valid' : m \notin Released(refs') \/ fault'
  BY DEF Install
<1>2. \A m \in Mem :
        /\ refs[m] > 0 <=> m \in Referenced(content)
        /\ refs'[m] > 0 <=> m \in Referenced(c)
        /\ refs[m] \in Nat /\ refs'[m] \in Nat
  BY CountedIsReferenced DEF IInv, TypeOK, Counted
<1>3. valid \subseteq Mem
  BY DEF IInv, TypeOK
<1>4. valid' \subseteq {m \in Mem : how'[m] \in {"string"} \cup Cleaned}
  BY <1>1 DEF IInv, TypeOK, Cleaned
<1>5. Referenced(content)' = Referenced(c)
  BY <1>1 DEF Referenced
<1>6. Lives'
  <2>1. \A m \in valid : m \in Referenced(c) => m \in valid'
    BY <1>1, <1>2, <1>3 DEF Released
  <2> QED
    BY <1>5, <2>1 DEF IInv, Lives
<1>7. NothingLeaks'
  <2> SUFFICES ASSUME NEW m \in valid', how'[m] \in Cleaned, ~fault'
               PROVE  m \in Referenced(c)
    BY <1>5 DEF NothingLeaks
  <2>1. m \in valid /\ m \in Mem /\ how[m] \in Cleaned
    BY <1>1, <1>3
  <2>2. refs[m] > 0
    BY <1>1, <1>2, <2>1 DEF IInv, NothingLeaks
  <2>3. refs'[m] # 0
    BY <1>1, <2>1, <2>2 DEF Released
  <2> QED
    BY <1>2, <2>1, <2>3
<1> QED
  BY <1>1, <1>4, <1>6, <1>7

(* What is counted next.                                                   *)
LEMMA CountedNext ==
  ASSUME NEW c, content' = c, Sound(c, refs')
  PROVE  Counted'
<1>1. Sound(content', refs')
  OBVIOUS
<1> QED
  BY <1>1 DEF Counted

(* A call that rearranges and hands over what it leaves out keeps all of   *)
(* the invariant.                                                          *)
LEMMA RearrangedKeeps ==
  ASSUME IInv, NEW c, NEW who, NEW where, NEW made, NEW gone,
         Install(c, made, gone), Sound(c, refs'),
         Rearranges(c, who, where),
         "duplicated" \in did' \/ Injective(c, who, where),
         NothingLost(c, who, where),
         HandsOver(c, who, where),
         how' = how, did \subseteq did', did' \subseteq Deeds
  PROVE  IInv'
<1>1. /\ c \in [Buf -> Seq(Byte)] /\ content \in [Buf -> Seq(Byte)]
      /\ content' = c
  BY DEF Rearranges, IInv, TypeOK, Install
<1>2. ASSUME NEW b \in Buf, NEW i \in 1..Len(c[b])
      PROVE  \E d \in Buf : \E j \in 1..Len(content[d]) :
               /\ who[b][i] = d /\ where[b][i] = j
               /\ c[b][i].mem = content[d][j].mem
               /\ c[b][i].at = content[d][j].at
               /\ Id(c[b][i]) = Id(content[d][j])
               /\ c[b][i].ref => content[d][j].ref
  <2>1. i \in Nat
    BY <1>1
  <2>2. who[b][i] \in Buf
    BY <2>1 DEF Rearranges
  <2>3. LET old == content[who[b][i]]
            j == where[b][i]
        IN /\ j \in 1..Len(old)
           /\ c[b][i].mem = old[j].mem
           /\ c[b][i].at = old[j].at
           /\ c[b][i].ref => old[j].ref
    BY DEF Rearranges
  <2> QED
    BY <2>2, <2>3 DEF Id
<1>3. ASSUME NEW d \in Buf, NEW j \in 1..Len(content[d])
      PROVE  /\ content[d][j] \in Byte
             /\ Id(content[d][j]) \in Mem \X (1..Size)
             /\ Id(content[d][j])[1] = content[d][j].mem
  <2>1. content[d][j] \in Byte
    BY <1>1
  <2> QED
    BY <2>1 DEF Byte, Id
<1>4. Referenced(c) \subseteq Referenced(content)
  <2> SUFFICES ASSUME NEW m \in Referenced(c)
               PROVE  m \in Referenced(content)
    OBVIOUS
  <2>1. m \in Mem /\ Refers(c, m)
    BY <1>1, InReferenced
  <2>2. PICK b \in Buf : \E i \in 1..Len(c[b]) : c[b][i].mem = m /\ c[b][i].ref
    BY <2>1 DEF Refers
  <2>3. \E d \in Buf : \E j \in 1..Len(content[d]) :
          content[d][j].mem = m /\ content[d][j].ref
    BY <1>2, <2>2
  <2>4. Refers(content, m)
    BY <2>3 DEF Refers
  <2> QED
    BY <1>1, <2>1, <2>4, InReferenced
<1>5. /\ valid' \subseteq {m \in Mem : how'[m] \in {"string"} \cup Cleaned}
      /\ fault' \in BOOLEAN /\ Lives' /\ NothingLeaks'
  <2>1. how \in [Mem -> {"unused", "copied", "string"} \cup Cleaned]
    BY DEF IInv, TypeOK
  <2> QED
    BY <1>1, <1>4, <2>1, MemoryKept
<1>6. \A x \in handed' :
        x \in handed \/ \E d \in Buf : \E j \in 1..Len(content[d]) :
                          x = Id(content[d][j]) /\ ~Arrives(c, who, where, d, j)
  BY DEF HandsOver
<1>7. TypeOK'
  <2>1. handed' \subseteq Mem \X (1..Size)
    <3> SUFFICES ASSUME NEW x \in handed'
                 PROVE  x \in Mem \X (1..Size)
      OBVIOUS
    <3>1. CASE x \in handed
      BY <3>1 DEF IInv, TypeOK
    <3>2. CASE \E d \in Buf : \E j \in 1..Len(content[d]) :
                 x = Id(content[d][j])
      BY <1>3, <3>2
    <3> QED
      BY <1>6, <3>1, <3>2
  <2>2. refs' \in [Mem -> Nat]
    BY DEF Sound
  <2> QED
    BY <1>1, <1>5, <2>1, <2>2 DEF IInv, TypeOK
<1>8. Known'
  <2>1. ASSUME NEW b \in Buf, NEW i \in 1..Len(c[b])
        PROVE  how[c[b][i].mem] # "unused"
    <3>1. PICK d \in Buf : \E j \in 1..Len(content[d]) :
                             c[b][i].mem = content[d][j].mem
      BY <1>2
    <3> QED
      BY <3>1 DEF IInv, Known
  <2>2. ASSUME NEW x \in handed'
        PROVE  how[x[1]] # "unused"
    BY <1>3, <1>6 DEF IInv, Known
  <2> QED
    BY <1>1, <2>1, <2>2 DEF Known
<1>9. Present'
  <2> SUFFICES ASSUME NEW m \in Mem, NEW k \in 1..Size, how'[m] # "unused",
                      <<m, k>> \notin handed', "short" \notin did'
               PROVE  \E b \in Buf : \E i \in 1..Len(content'[b]) :
                        content'[b][i].mem = m /\ content'[b][i].at = k
    BY DEF Present
  <2>1. PICK d \in Buf : \E j \in 1..Len(content[d]) :
                           content[d][j].mem = m /\ content[d][j].at = k
    <3>1. <<m, k>> \notin handed /\ "short" \notin did
      BY DEF NothingLost
    <3>2. Present
      BY DEF IInv
    <3> QED
      BY <3>1, <3>2 DEF Present
  <2>2. PICK j \in 1..Len(content[d]) :
          content[d][j].mem = m /\ content[d][j].at = k
    BY <2>1
  <2>3. Id(content[d][j]) = <<m, k>>
    BY <2>2 DEF Id
  <2>4. PICK b \in Buf : \E i \in 1..Len(c[b]) :
                           who[b][i] = d /\ where[b][i] = j
    <3>1. Arrives(c, who, where, d, j)
      BY <2>3 DEF NothingLost
    <3> QED
      BY <3>1 DEF Arrives
  <2>5. PICK i \in 1..Len(c[b]) : who[b][i] = d /\ where[b][i] = j
    BY <2>4
  <2>6. c[b][i].mem = content[d][j].mem /\ c[b][i].at = content[d][j].at
    BY <1>2, <2>5, SMTT(30)
  <2>7. c[b][i].mem = m /\ c[b][i].at = k
    BY <2>2, <2>6
  <2> QED
    BY <1>1, <2>7
<1>10. InOnePlace'
  <2> SUFFICES ASSUME "duplicated" \notin did',
                      NEW b \in Buf, NEW i \in 1..Len(c[b])
               PROVE  /\ Id(c[b][i]) \notin handed'
                      /\ \A d \in Buf : \A j \in 1..Len(c[d]) :
                           Id(c[d][j]) = Id(c[b][i]) => d = b /\ j = i
    BY <1>1 DEF InOnePlace
  <2>1. InOnePlace /\ "duplicated" \notin did
    BY DEF IInv
  <2>2. Id(c[b][i]) \notin handed
    BY <1>2, <2>1 DEF InOnePlace
  <2>3. ASSUME NEW d \in Buf, NEW j \in 1..Len(content[d]),
               Id(c[b][i]) = Id(content[d][j])
        PROVE  Arrives(c, who, where, d, j)
    <3>1. PICK e \in Buf : \E k \in 1..Len(content[e]) :
            /\ who[b][i] = e /\ where[b][i] = k
            /\ Id(c[b][i]) = Id(content[e][k])
      BY <1>2
    <3>2. PICK k \in 1..Len(content[e]) :
            /\ who[b][i] = e /\ where[b][i] = k
            /\ Id(c[b][i]) = Id(content[e][k])
      BY <3>1
    <3>3. Id(content[e][k]) = Id(content[d][j])
      BY <2>3, <3>2
    <3>4. e = d /\ k = j
      BY <2>1, <3>3 DEF InOnePlace
    <3> QED
      BY <3>2, <3>4 DEF Arrives
  <2>4. ASSUME NEW d \in Buf, NEW j \in 1..Len(c[d]), Id(c[d][j]) = Id(c[b][i])
        PROVE  d = b /\ j = i
    <3>1. PICK e \in Buf : \E k \in 1..Len(content[e]) :
            /\ who[b][i] = e /\ where[b][i] = k
            /\ Id(c[b][i]) = Id(content[e][k])
      BY <1>2
    <3>2. PICK f \in Buf : \E k \in 1..Len(content[f]) :
            /\ who[d][j] = f /\ where[d][j] = k
            /\ Id(c[d][j]) = Id(content[f][k])
      BY <1>2
    <3>3. who[d][j] = who[b][i] /\ where[d][j] = where[b][i]
      BY <2>1, <2>4, <3>1, <3>2 DEF InOnePlace
    <3> QED
      BY <3>3 DEF Injective
  <2> QED
    BY <1>6, <2>2, <2>3, <2>4
<1>11. Counted'
  BY <1>1, CountedNext
<1> QED
  BY <1>5, <1>7, <1>8, <1>9, <1>10, <1>11 DEF IInv

-----------------------------------------------------------------------------
(* Bytes of a fresh block differ from all others.                          *)
LEMMA NewBlockKeeps ==
  ASSUME IInv, NEW b \in Buf, NEW m \in Mem, NEW ref \in BOOLEAN,
         NEW kind \in {"copied", "string"} \cup Cleaned, NEW s,
         \/ s = content[b] \o Block(m, ref)
         \/ s = Block(m, ref) \o content[b],
         how[m] = "unused", how' = [how EXCEPT ![m] = kind],
         content' = [content EXCEPT ![b] = s],
         UNCHANGED <<handed, did>>,
         valid' \subseteq {x \in Mem : how'[x] \in {"string"} \cup Cleaned},
         fault' \in BOOLEAN, Lives', NothingLeaks', Sound(content', refs')
  PROVE  IInv'
<1> DEFINE old == content[b]
           new == Block(m, ref)
           c == [content EXCEPT ![b] = s]
<1>1. /\ content \in [Buf -> Seq(Byte)] /\ old \in Seq(Byte)
      /\ new \in Seq(Byte) /\ Len(new) = Size /\ Size \in Nat
      /\ \A i \in 1..Size : new[i].mem = m /\ new[i].at = i
  <2>1. content \in [Buf -> Seq(Byte)]
    BY DEF IInv, TypeOK
  <2>2. old \in Seq(Byte) /\ Size \in Nat
    BY <2>1, BuffersAssumption
  <2>3. /\ new \in Seq(Byte) /\ Len(new) = Size
        /\ \A i \in 1..Size : new[i].mem = m /\ new[i].at = i
    BY BlockIs
  <2> QED
    BY <2>1, <2>2, <2>3
<1>2. old \o new \in Seq(Byte) /\ Len(old \o new) = Len(old) + Size
      /\ \A i \in 1..(Len(old) + Size) :
           (old \o new)[i] = IF i <= Len(old) THEN old[i] ELSE new[i - Len(old)]
  <2>1. old \in Seq(Byte) /\ new \in Seq(Byte) /\ Len(new) = Size
    BY <1>1
  <2> HIDE DEF old, new
  <2> QED
    BY <2>1, ConcatAt, Zenon
<1>3. new \o old \in Seq(Byte) /\ Len(new \o old) = Size + Len(old)
      /\ \A i \in 1..(Size + Len(old)) :
           (new \o old)[i] = IF i <= Size THEN new[i] ELSE old[i - Size]
  <2>1. old \in Seq(Byte) /\ new \in Seq(Byte) /\ Len(new) = Size
    BY <1>1
  <2> HIDE DEF old, new
  <2> QED
    BY <2>1, ConcatAt, Zenon
<1>4. /\ c \in [Buf -> Seq(Byte)] /\ content' = c /\ s \in Seq(Byte)
      /\ Len(s) = Len(old) + Size
      /\ \A d \in Buf \ {b} : c[d] = content[d]
      /\ c[b] = s
  <2>1. s \in Seq(Byte) /\ Len(s) = Len(old) + Size
    <3>1. s = old \o new \/ s = new \o old
      OBVIOUS
    <3>2. Len(old) \in Nat /\ Size \in Nat
      BY <1>1
    <3> HIDE DEF old, new
    <3>3. CASE s = old \o new
      BY <1>2, <3>3
    <3>4. CASE s = new \o old
      <4>1. Len(s) = Size + Len(old) /\ s \in Seq(Byte)
        BY <1>3, <3>4
      <4> QED
        BY <3>2, <4>1
    <3> QED
      BY <3>1, <3>3, <3>4
  <2> QED
    BY <1>1, <2>1
(* Where bytes of s come from: the block, or old; and where they go.       *)
<1>5. \/ /\ \A i \in 1..Len(old) : s[i] = old[i]
         /\ \A i \in (Len(old) + 1)..(Len(old) + Size) :
              s[i].mem = m /\ s[i].at = i - Len(old)
      \/ /\ \A i \in (Size + 1)..(Size + Len(old)) : s[i] = old[i - Size]
         /\ \A i \in 1..Size : s[i].mem = m /\ s[i].at = i
  <2>1. Len(old) \in Nat /\ Len(new) \in Nat
    BY <1>1
  <2> HIDE DEF old, new
  <2>2. CASE s = old \o new
    BY <1>1, <1>2, <2>1, <2>2
  <2>3. CASE s = new \o old
    <3>1. ASSUME NEW i \in (Size + 1)..(Size + Len(old))
          PROVE  s[i] = old[i - Size]
      <4>1. i \in 1..(Size + Len(old)) /\ ~(i <= Size)
        BY <1>1, <2>1
      <4> QED
        BY <1>3, <2>3, <4>1
    <3>2. ASSUME NEW i \in 1..Size PROVE s[i] = new[i]
      <4>1. i \in 1..(Size + Len(old)) /\ i <= Size
        BY <1>1, <2>1
      <4> QED
        BY <1>3, <2>3, <4>1
    <3>3. \A i \in 1..Size : s[i].mem = m /\ s[i].at = i
      BY <1>1, <3>2
    <3> QED
      BY <3>1, <3>3
  <2>4. s = old \o new \/ s = new \o old
    BY DEF old, new
  <2> QED
    BY <2>2, <2>3, <2>4
<1>6. \A d \in Buf : \A j \in 1..Len(content[d]) :
        content[d][j] \in Byte /\ content[d][j].mem # m
  BY <1>1 DEF IInv, Known
<1> HIDE DEF old, new, c
<1>7. Len(old) \in Nat /\ Size \in Nat /\ Len(old) = Len(content[b])
      /\ \A j \in 1..Len(old) : old[j] = content[b][j]
  BY <1>1 DEF old
<1>8. ASSUME NEW i \in 1..Len(s)
      PROVE  \/ s[i].mem = m /\ s[i].at \in 1..Size
             \/ \E j \in 1..Len(content[b]) : s[i] = content[b][j]
  <2>1. CASE /\ \A x \in 1..Len(old) : s[x] = old[x]
             /\ \A x \in (Len(old) + 1)..(Len(old) + Size) :
                  s[x].mem = m /\ s[x].at = x - Len(old)
    <3>1. i \in 1..Len(old) \/ /\ i \in (Len(old) + 1)..(Len(old) + Size)
                               /\ i - Len(old) \in 1..Size
      BY <1>4, <1>7
    <3> QED
      BY <1>7, <2>1, <3>1
  <2>2. CASE /\ \A x \in (Size + 1)..(Size + Len(old)) : s[x] = old[x - Size]
             /\ \A x \in 1..Size : s[x].mem = m /\ s[x].at = x
    <3>1. i \in 1..Size \/ /\ i \in (Size + 1)..(Size + Len(old))
                           /\ i - Size \in 1..Len(old)
      BY <1>4, <1>7
    <3> QED
      BY <1>7, <2>2, <3>1
  <2> QED
    BY <1>5, <2>1, <2>2
<1>9. ASSUME NEW j \in 1..Len(content[b])
      PROVE  \E i \in 1..Len(s) : s[i] = content[b][j]
  <2>1. /\ j \in 1..Len(s) /\ j \in 1..Len(old)
        /\ Size + j \in 1..Len(s) /\ Size + j \in (Size + 1)..(Size + Len(old))
        /\ (Size + j) - Size = j
    BY <1>4, <1>7
  <2> QED
    BY <1>5, <1>7, <2>1
<1>10. ASSUME NEW k \in 1..Size
       PROVE  \E i \in 1..Len(s) : s[i].mem = m /\ s[i].at = k
  <2>1. /\ k \in 1..Len(s) /\ Len(old) + k \in 1..Len(s)
        /\ Len(old) + k \in (Len(old) + 1)..(Len(old) + Size)
        /\ (Len(old) + k) - Len(old) = k
    BY <1>4, <1>7
  <2> QED
    BY <1>5, <1>7, <2>1
<1>11. ASSUME NEW i \in 1..Len(s), NEW j \in 1..Len(s), Id(s[i]) = Id(s[j]),
              "duplicated" \notin did
       PROVE  i = j
  <2>1. s[i].mem = s[j].mem /\ s[i].at = s[j].at
    BY <1>11 DEF Id
  <2>2. \A x, y \in 1..Len(old) : Id(old[x]) = Id(old[y]) => x = y
    <3>1. \A x, y \in 1..Len(content[b]) :
            Id(content[b][x]) = Id(content[b][y]) => x = y
      BY <1>11 DEF IInv, InOnePlace
    <3> QED
      BY <1>7, <3>1
  <2>3. \A x \in 1..Len(old) : old[x].mem # m
    BY <1>6, <1>7
  <2>4. CASE /\ \A x \in 1..Len(old) : s[x] = old[x]
             /\ \A x \in (Len(old) + 1)..(Len(old) + Size) :
                  s[x].mem = m /\ s[x].at = x - Len(old)
    <3>1. \A x \in 1..Len(s) : x \in 1..Len(old)
                               \/ x \in (Len(old) + 1)..(Len(old) + Size)
      BY <1>4, <1>7
    <3>2. CASE i \in 1..Len(old) /\ j \in 1..Len(old)
      BY <1>11, <2>2, <2>4, <3>2
    <3>3. CASE ~(i \in 1..Len(old)) /\ ~(j \in 1..Len(old))
      BY <1>7, <2>1, <2>4, <3>1, <3>3
    <3> QED
      BY <2>1, <2>3, <2>4, <3>1, <3>2, <3>3
  <2>5. CASE /\ \A x \in (Size + 1)..(Size + Len(old)) : s[x] = old[x - Size]
             /\ \A x \in 1..Size : s[x].mem = m /\ s[x].at = x
    <3>1. \A x \in 1..Len(s) : \/ x \in 1..Size
                               \/ /\ x \in (Size + 1)..(Size + Len(old))
                                  /\ x - Size \in 1..Len(old)
      BY <1>4, <1>7
    <3>2. CASE i \in 1..Size /\ j \in 1..Size
      BY <2>1, <2>5, <3>2
    <3>3. CASE ~(i \in 1..Size) /\ ~(j \in 1..Size)
      <4>1. i - Size = j - Size
        BY <1>11, <2>2, <2>5, <3>1, <3>3
      <4> QED
        BY <1>4, <1>7, <4>1
    <3> QED
      BY <2>1, <2>3, <2>5, <3>1, <3>2, <3>3
  <2> QED
    BY <1>5, <2>4, <2>5
<1>12. TypeOK'
  <2>1. /\ how' \in [Mem -> {"unused", "copied", "string"} \cup Cleaned]
        /\ refs' \in [Mem -> Nat]
    BY DEF IInv, TypeOK, Sound
  <2> QED
    BY <1>4, <2>1 DEF IInv, TypeOK
<1>13. \A x \in Mem : how'[x] # "unused" <=> how[x] # "unused" \/ x = m
  BY DEF IInv, TypeOK, Cleaned
<1>14. Known'
  <2>1. ASSUME NEW d \in Buf, NEW i \in 1..Len(c[d])
        PROVE  how'[c[d][i].mem] # "unused"
    <3>1. CASE d # b
      <4>1. content[d][i] \in Byte /\ how[content[d][i].mem] # "unused"
        BY <1>4, <1>6, <3>1 DEF IInv, Known
      <4> QED
        BY <1>4, <1>13, <3>1, <4>1 DEF Byte
    <3>2. CASE d = b
      <4>1. c[d][i].mem = m \/ \E j \in 1..Len(content[b]) :
                                 c[d][i] = content[b][j]
        BY <1>4, <1>8, <3>2
      <4>2. c[d][i].mem \in Mem
        BY <1>6, <4>1 DEF Byte
      <4> QED
        BY <1>13, <4>1, <4>2 DEF IInv, Known
    <3> QED
      BY <3>1, <3>2
  <2>2. ASSUME NEW x \in handed
        PROVE  how'[x[1]] # "unused"
    <3>1. x[1] \in Mem /\ how[x[1]] # "unused"
      BY DEF IInv, TypeOK, Known
    <3> QED
      BY <1>13, <3>1
  <2>3. content' = c /\ handed' = handed
    BY <1>4
  <2> QED
    BY ONLY <2>1, <2>2, <2>3 DEF Known
<1>15. Present'
  <2> SUFFICES ASSUME NEW x \in Mem, NEW k \in 1..Size, how'[x] # "unused",
                      <<x, k>> \notin handed, "short" \notin did
               PROVE  \E d \in Buf : \E i \in 1..Len(c[d]) :
                        c[d][i].mem = x /\ c[d][i].at = k
    BY <1>4, SMTT(30) DEF Present
  <2>1. CASE x = m
    <3>1. PICK i \in 1..Len(s) : s[i].mem = m /\ s[i].at = k
      BY <1>10
    <3>2. c[b] = s
      BY <1>4
    <3> QED
      BY <2>1, <3>1, <3>2
  <2>2. CASE x # m
    <3>1. PICK d \in Buf : \E j \in 1..Len(content[d]) :
                             content[d][j].mem = x /\ content[d][j].at = k
      <4>1. how[x] # "unused"
        BY <1>13, <2>2
      <4>2. Present
        BY DEF IInv
      <4> QED
        BY <4>1, <4>2 DEF Present
    <3>2. CASE d = b
      <4>1. PICK j \in 1..Len(content[b]) :
              content[b][j].mem = x /\ content[b][j].at = k
        BY <3>1, <3>2
      <4>2. \E i \in 1..Len(s) : s[i] = content[b][j]
        BY <1>9
      <4>3. c[b] = s
        BY <1>4
      <4> QED
        BY <4>1, <4>2, <4>3
    <3>3. CASE d # b
      BY <1>4, <3>1, <3>3
    <3> QED
      BY <3>2, <3>3
  <2> QED
    BY <2>1, <2>2
<1>16. InOnePlace'
  <2>1. handed' = handed /\ did' = did /\ content' = c
    BY <1>4
  <2> SUFFICES ASSUME "duplicated" \notin did'
               PROVE  \A d \in Buf : \A i \in 1..Len(c[d]) :
                        /\ Id(c[d][i]) \notin handed'
                        /\ \A e \in Buf : \A j \in 1..Len(c[e]) :
                             Id(c[e][j]) = Id(c[d][i]) => e = d /\ j = i
    BY <2>1 DEF InOnePlace
  <2>2. InOnePlace /\ "duplicated" \notin did
    BY <2>1 DEF IInv
  <2>3. ASSUME NEW d \in Buf, NEW i \in 1..Len(c[d])
        PROVE  \/ d = b /\ c[d][i].mem = m
               \/ \E j \in 1..Len(content[d]) :
                    c[d][i] = content[d][j] /\ (d # b => i = j)
    BY <1>4, <1>8
  <2>4. ASSUME NEW d \in Buf, NEW i \in 1..Len(c[d])
        PROVE  Id(c[d][i]) \notin handed
    <3>1. CASE c[d][i].mem = m
      BY <3>1 DEF IInv, Known, Id
    <3>2. CASE \E j \in 1..Len(content[d]) : c[d][i] = content[d][j]
      BY <2>2, <3>2 DEF InOnePlace
    <3> QED
      BY <2>3, <3>1, <3>2
  <2>5. ASSUME NEW d \in Buf, NEW i \in 1..Len(c[d]),
               NEW e \in Buf, NEW j \in 1..Len(c[e]), Id(c[e][j]) = Id(c[d][i])
        PROVE  e = d /\ j = i
    <3>1. c[e][j].mem = c[d][i].mem
      BY <2>5 DEF Id
    <3>2. CASE d = b /\ e = b
      BY <1>4, <1>11, <2>2, <2>5, <3>2
    <3>3. CASE c[d][i].mem = m
      <4>1. ASSUME NEW x \in Buf, NEW k \in 1..Len(c[x]), c[x][k].mem = m
            PROVE  x = b
        <5>1. ~\E l \in 1..Len(content[x]) : c[x][k] = content[x][l]
          BY <1>6, <4>1
        <5> QED
          BY <2>3, <5>1
      <4>2. e = b /\ d = b
        BY <3>1, <3>3, <4>1
      <4> QED
        BY <3>2, <4>2
    <3>4. CASE c[d][i].mem # m /\ ~(d = b /\ e = b)
      <4>1. PICK x \in 1..Len(content[d]) :
              c[d][i] = content[d][x] /\ (d # b => i = x)
        BY <2>3, <3>4
      <4>2. PICK y \in 1..Len(content[e]) :
              c[e][j] = content[e][y] /\ (e # b => j = y)
        BY <2>3, <3>1, <3>4
      <4>3. Id(content[e][y]) = Id(content[d][x])
        BY <2>5, <4>1, <4>2
      <4>4. e = d /\ y = x
        BY <2>2, <4>3 DEF InOnePlace
      <4> QED
        BY <3>4, <4>1, <4>2, <4>4
    <3> QED
      BY <3>2, <3>3, <3>4
  <2> QED
    BY <2>1, <2>4, <2>5
<1>17. Counted'
  BY CountedNext
<1> QED
  BY <1>12, <1>14, <1>15, <1>16, <1>17 DEF IInv

-----------------------------------------------------------------------------
(* The first k bytes of b go away, to a caller or for good.                *)
LEMMA TakenKeeps ==
  ASSUME IInv, NEW b \in Buf, NEW k \in 0..Len(content[b]), NEW c,
         c = [content EXCEPT ![b] = Rest(content[b], k)],
         Install(c, <<>>, SubSeq(content[b], 1, k)),
         \/ handed' = handed \cup Ids(SubSeq(content[b], 1, k))
         \/ handed' = handed /\ (k = 0 \/ "short" \in did'),
         how' = how, did \subseteq did', did' \subseteq Deeds
  PROVE  IInv'
<1> DEFINE who == [x \in Buf |-> [i \in Nat |-> x]]
           where == [x \in Buf |-> [i \in Nat |-> IF x = b THEN k + i ELSE i]]
<1>1. /\ content \in [Buf -> Seq(Byte)] /\ content[b] \in Seq(Byte)
      /\ k \in Nat /\ Len(content[b]) \in Nat
  BY DEF IInv, TypeOK
<1>2. /\ c \in [Buf -> Seq(Byte)]
      /\ \A x \in Buf \ {b} : c[x] = content[x]
      /\ Len(c[b]) = Len(content[b]) - k
      /\ \A i \in 1..Len(c[b]) : c[b][i] = content[b][k + i]
  BY <1>1, RestIs
<1>3. /\ who \in [Buf -> [Nat -> Buf]] /\ where \in [Buf -> [Nat -> Nat]]
      /\ \A x \in Buf, i \in Nat : /\ who[x][i] = x
                                   /\ where[x][i] = IF x = b THEN k + i ELSE i
  BY <1>1
<1>4. \A x \in Buf : Len(c[x]) \in Nat /\ Len(content[x]) \in Nat
  BY <1>1, <1>2
<1> HIDE DEF who, where
<1>5. ASSUME NEW x \in Buf, NEW i \in 1..Len(c[x])
      PROVE  /\ i \in Nat /\ i >= 1 /\ i <= Len(c[x])
             /\ who[x][i] = x
             /\ x = b => where[x][i] = k + i
             /\ x # b => where[x][i] = i
             /\ where[x][i] \in 1..Len(content[x])
             /\ c[x][i] = content[x][where[x][i]]
  <2>1. i \in Nat /\ i >= 1 /\ i <= Len(c[x])
    BY <1>4
  <2>2. who[x][i] = x
    BY <1>3, <2>1
  <2>3. CASE x = b
    <3>1. where[x][i] = k + i
      BY <1>3, <2>1, <2>3
    <3>2. k + i \in 1..Len(content[b])
      BY <1>1, <1>2, <2>1, <2>3
    <3> QED
      BY <1>1, <1>2, <2>1, <2>2, <2>3, <3>1, <3>2
  <2>4. CASE x # b
    <3>1. where[x][i] = i
      BY <1>3, <2>1, <2>4
    <3>2. c[x] = content[x]
      BY <1>2, <2>4
    <3> QED
      BY <2>1, <2>2, <2>4, <3>1, <3>2
  <2> QED
    BY <2>3, <2>4
<1>6. Rearranges(c, who, where)
  <2> SUFFICES ASSUME NEW x \in Buf, NEW i \in 1..Len(c[x])
               PROVE  LET old == content[who[x][i]]
                          j == where[x][i]
                      IN /\ j \in 1..Len(old)
                         /\ c[x][i].mem = old[j].mem
                         /\ c[x][i].at = old[j].at
                         /\ c[x][i].ref => old[j].ref
    BY <1>2, <1>3 DEF Rearranges
  <2>1. who[x][i] = x /\ where[x][i] \in 1..Len(content[x])
        /\ c[x][i] = content[x][where[x][i]]
    BY <1>5
  <2> QED
    BY <2>1
<1>7. Injective(c, who, where)
  <2> SUFFICES ASSUME NEW x \in Buf, NEW y \in Buf,
                      NEW i \in 1..Len(c[x]), NEW j \in 1..Len(c[y]),
                      who[x][i] = who[y][j], where[x][i] = where[y][j]
               PROVE  x = y /\ i = j
    BY DEF Injective
  <2>1. x = y
    BY <1>5
  <2>2. i \in Nat /\ j \in Nat
    BY <1>5
  <2>3. CASE x = b
    <3>1. where[x][i] = k + i /\ where[y][j] = k + j
      BY <1>5, <2>1, <2>3
    <3> QED
      BY <1>1, <2>1, <2>2, <3>1
  <2>4. CASE x # b
    BY <1>5, <2>1, <2>4
  <2> QED
    BY <2>3, <2>4
<1>8. ASSUME NEW x \in Buf, NEW j \in 1..Len(content[x])
      PROVE  Arrives(c, who, where, x, j) <=> ~(x = b /\ j \in 1..k)
  <2>1. j \in Nat /\ j >= 1 /\ j <= Len(content[x])
    BY <1>4
  <2>2. CASE x # b
    <3>1. j \in 1..Len(c[x])
      BY <1>2, <2>2
    <3>2. who[x][j] = x /\ where[x][j] = j
      BY <1>5, <2>2, <3>1
    <3> QED
      BY <2>2, <3>1, <3>2 DEF Arrives
  <2>3. CASE x = b /\ j > k
    <3>1. j - k \in 1..Len(c[b]) /\ k + (j - k) = j
      BY <1>1, <1>2, <2>1, <2>3
    <3>2. who[b][j - k] = b /\ where[b][j - k] = j
      BY <1>5, <3>1
    <3>3. Arrives(c, who, where, x, j)
      BY <2>3, <3>1, <3>2 DEF Arrives
    <3> QED
      BY <1>1, <2>1, <2>3, <3>3
  <2>4. CASE x = b /\ ~(j > k)
    <3>1. ASSUME NEW y \in Buf, NEW i \in 1..Len(c[y]), who[y][i] = b
          PROVE  where[y][i] # j
      <4>1. y = b
        BY <1>5, <3>1
      <4>2. where[y][i] = k + i /\ i \in Nat /\ i >= 1
        BY <1>5, <4>1
      <4> QED
        BY <1>1, <2>1, <2>4, <4>2
    <3> QED
      BY <1>1, <2>1, <2>4, <3>1 DEF Arrives
  <2> QED
    BY <1>1, <2>1, <2>2, <2>3, <2>4
<1>9. Ids(SubSeq(content[b], 1, k)) = {Id(content[b][i]) : i \in 1..k}
  BY <1>1, IdsIs
<1>10. NothingLost(c, who, where)
  <2>1. handed \subseteq handed'
    OBVIOUS
  <2>2. ASSUME NEW x \in Buf, NEW j \in 1..Len(content[x]),
               ~Arrives(c, who, where, x, j)
        PROVE  Id(content[x][j]) \in handed' \/ "short" \in did'
    <3>1. x = b /\ j \in 1..k
      BY <1>8, <2>2
    <3>2. k # 0
      BY <3>1
    <3> QED
      BY <1>9, <3>1, <3>2
  <2> QED
    BY <2>1, <2>2 DEF NothingLost
<1>11. HandsOver(c, who, where)
  <2> SUFFICES ASSUME NEW y \in handed' \ handed
               PROVE  \E d \in Buf : \E j \in 1..Len(content[d]) :
                        y = Id(content[d][j]) /\ ~Arrives(c, who, where, d, j)
    BY DEF HandsOver
  <2>1. PICK j \in 1..k : y = Id(content[b][j])
    BY <1>9
  <2>2. j \in 1..Len(content[b])
    BY <1>1
  <2> QED
    BY <1>8, <2>1, <2>2
<1>12. Sound(c, refs')
  <2> DEFINE s == Rest(content[b], k)
             u == SubSeq(content[b], 1, k)
  <2>1. s \in Seq(Byte) /\ Chained(s)
    BY <1>1, RestIs, RestChained DEF IInv, Counted, Sound
  <2>2. /\ u \in Seq(Byte) /\ <<>> \in Seq(Byte)
        /\ \A m \in Mem :
             /\ Chains(content[b], m) = Chains(u, m) + Chains(s, m)
             /\ Chains(u, m) \in Nat /\ Chains(s, m) \in Nat
             /\ Chains(<<>>, m) = 0
    <3>1. u \in Seq(Byte) /\ <<>> \in Seq(Byte)
      BY <1>1, ChainsCut
    <3>2. ASSUME NEW m \in Mem
          PROVE  Chains(content[b], m) = Chains(u, m) + Chains(s, m)
      BY <1>1, ChainsCut
    <3> HIDE DEF s, u
    <3>3. ASSUME NEW m \in Mem
          PROVE  /\ Chains(u, m) \in Nat /\ Chains(s, m) \in Nat
                 /\ Chains(<<>>, m) = 0
      BY <2>1, <3>1, LastsAre, NoChains
    <3> QED
      BY <3>1, <3>2, <3>3
  <2> HIDE DEF s, u
  <2>3. \A m \in Mem : Chains(s, m) =
          (Chains(content[b], m) + Chains(<<>>, m)) - Chains(u, m)
    BY <2>2
  <2>4. c = [content EXCEPT ![b] = s] /\ Install(c, <<>>, u)
    BY DEF s, u
  <2>5. Install([content EXCEPT ![b] = s], <<>>, u)
    BY <2>4
  <2>6. Sound([content EXCEPT ![b] = s], refs')
    BY <2>1, <2>2, <2>3, <2>5, OneInstalled
  <2> QED
    BY <2>4, <2>6
<1> QED
  BY <1>6, <1>7, <1>10, <1>11, <1>12, RearrangedKeeps

(* c: the first k bytes of src arrive in b behind the first lo bytes; src  *)
(* keeps the rest.                                                         *)
Transfers(c, b, src, k, lo) ==
  /\ c \in [Buf -> Seq(Byte)]
  /\ \A x \in Buf \ {b, src} : c[x] = content[x]
  /\ Len(c[src]) = Len(content[src]) - k
  /\ \A i \in 1..Len(c[src]) : c[src][i] = content[src][k + i]
  /\ Len(c[b]) = Len(content[b]) + k
  /\ \A i \in 1..lo : c[b][i] = content[b][i]
  /\ \A i \in 1..k : /\ c[b][lo + i].mem = content[src][i].mem
                     /\ c[b][lo + i].at = content[src][i].at
                     /\ c[b][lo + i].ref => content[src][i].ref
  /\ \A i \in (lo + 1)..Len(content[b]) : c[b][k + i] = content[b][i]

LEMMA TransferKeeps ==
  ASSUME IInv, NEW b \in Buf, NEW src \in Buf, b # src,
         NEW k \in 0..Len(content[src]), NEW lo \in 0..Len(content[b]),
         NEW c, Transfers(c, b, src, k, lo),
         Install(c, <<>>, <<>>), Sound(c, refs'), UNCHANGED <<how, handed, did>>
  PROVE  IInv'
<1> DEFINE in(i) == i > lo /\ i <= lo + k
           inB(i) == IF in(i) THEN i - lo ELSE IF i <= lo THEN i ELSE i - k
           from(x, i) ==
             IF x = b THEN inB(i) ELSE IF x = src THEN k + i ELSE i
           who == [x \in Buf |->
                    [i \in Nat |-> IF x = b /\ in(i) THEN src ELSE x]]
           where == [x \in Buf |-> [i \in Nat |-> from(x, i)]]
<1>1. /\ content \in [Buf -> Seq(Byte)] /\ c \in [Buf -> Seq(Byte)]
      /\ k \in Nat /\ lo \in Nat
      /\ k <= Len(content[src]) /\ lo <= Len(content[b])
      /\ \A x \in Buf : Len(c[x]) \in Nat /\ Len(content[x]) \in Nat
      /\ Len(c[src]) = Len(content[src]) - k
      /\ Len(c[b]) = Len(content[b]) + k
  BY DEF IInv, TypeOK, Transfers
<1>2. \A x \in Buf, i \in Nat : from(x, i) \in Nat
  BY <1>1
<1>3. /\ who \in [Buf -> [Nat -> Buf]] /\ where \in [Buf -> [Nat -> Nat]]
      /\ \A x \in Buf, i \in Nat :
           /\ who[x][i] = IF x = b /\ in(i) THEN src ELSE x
           /\ where[x][i] = from(x, i)
  <2> HIDE DEF from, in
  <2> QED
    BY <1>2
<1> HIDE DEF who, where
(* Where the bytes of b come from, ...                                     *)
<1>4. ASSUME NEW i \in Nat
      PROVE  /\ in(i) => who[b][i] = src /\ where[b][i] = i - lo
             /\ i <= lo => who[b][i] = b /\ where[b][i] = i
             /\ i > lo + k => who[b][i] = b /\ where[b][i] = i - k
             /\ in(i) \/ i <= lo \/ i > lo + k
  <2>1. who[b][i] = (IF in(i) THEN src ELSE b) /\ where[b][i] = inB(i)
    BY <1>3
  <2> QED
    BY <1>1, <2>1
(* ... and those of other buffers.                                         *)
<1>5. ASSUME NEW i \in Nat, NEW x \in Buf \ {b}
      PROVE  /\ who[x][i] = x
             /\ x = src => where[x][i] = k + i
             /\ x # src => where[x][i] = i
  <2>1. who[x][i] = x /\ where[x][i] = IF x = src THEN k + i ELSE i
    BY <1>3
  <2> QED
    BY <2>1
<1>6. ASSUME NEW x \in Buf, NEW i \in 1..Len(c[x])
      PROVE  LET old == content[who[x][i]]
                 j == where[x][i]
             IN /\ j \in 1..Len(old)
                /\ c[x][i].mem = old[j].mem
                /\ c[x][i].at = old[j].at
                /\ c[x][i].ref => old[j].ref
  <2>1. i \in Nat /\ i >= 1 /\ i <= Len(c[x])
    BY <1>1
  <2>2. CASE x = b /\ in(i)
    <3>1. i - lo \in 1..k /\ lo + (i - lo) = i /\ i - lo \in 1..Len(content[src])
      BY <1>1, <2>1, <2>2
    <3>2. who[x][i] = src /\ where[x][i] = i - lo
      BY <1>4, <2>1, <2>2
    <3>3. /\ c[b][lo + (i - lo)].mem = content[src][i - lo].mem
          /\ c[b][lo + (i - lo)].at = content[src][i - lo].at
          /\ c[b][lo + (i - lo)].ref => content[src][i - lo].ref
      BY <3>1 DEF Transfers
    <3> QED
      BY <2>2, <3>1, <3>2, <3>3
  <2>3. CASE x = b /\ i <= lo
    <3>1. who[x][i] = b /\ where[x][i] = i
      BY <1>4, <2>1, <2>3
    <3>2. i \in 1..Len(content[b]) /\ i \in 1..lo
      BY <1>1, <2>1, <2>3
    <3> QED
      BY <2>3, <3>1, <3>2 DEF Transfers
  <2>4. CASE x = b /\ i > lo + k
    <3>1. i - k \in (lo + 1)..Len(content[b]) /\ k + (i - k) = i
          /\ i - k \in 1..Len(content[b])
      BY <1>1, <2>1, <2>4
    <3>2. who[x][i] = b /\ where[x][i] = i - k
      <4>1. ~(i > lo /\ i <= lo + k) /\ ~(i <= lo)
        BY <1>1, <2>1, <2>4
      <4> QED
        BY <1>4, <2>1, <2>4, <4>1
    <3>3. c[b][k + (i - k)] = content[b][i - k]
      BY <3>1 DEF Transfers
    <3> QED
      BY <2>4, <3>1, <3>2, <3>3
  <2>5. CASE x = src
    <3>1. who[x][i] = src /\ where[x][i] = k + i
      BY <1>5, <2>1, <2>5
    <3>2. k + i \in 1..Len(content[src])
      BY <1>1, <2>1, <2>5
    <3> QED
      BY <2>5, <3>1, <3>2 DEF Transfers
  <2>6. CASE x \notin {b, src}
    <3>1. x \in Buf \ {b} /\ x # src /\ c[x] = content[x]
      BY <2>6 DEF Transfers
    <3>2. who[x][i] = x /\ where[x][i] = i
      BY <1>5, <2>1, <3>1
    <3> QED
      BY <3>1, <3>2
  <2>7. in(i) \/ i <= lo \/ i > lo + k
    BY <1>4, <2>1
  <2> QED
    BY <2>2, <2>3, <2>4, <2>5, <2>6, <2>7
<1>7. Rearranges(c, who, where)
  BY <1>1, <1>3, <1>6 DEF Rearranges
<1>8. Injective(c, who, where)
  <2> SUFFICES ASSUME NEW x \in Buf, NEW y \in Buf,
                      NEW i \in 1..Len(c[x]), NEW j \in 1..Len(c[y]),
                      who[x][i] = who[y][j], where[x][i] = where[y][j]
               PROVE  x = y /\ i = j
    BY DEF Injective
  <2>1. i \in Nat /\ i >= 1 /\ j \in Nat /\ j >= 1
    BY <1>1
  <2>2. CASE x = b /\ y = b
    <3>1. in(i) <=> in(j)
      BY <1>4, <2>1, <2>2
    <3>2. CASE in(i)
      <4>1. i - lo = j - lo
        BY <1>4, <2>1, <2>2, <3>1, <3>2
      <4> QED
        BY <1>1, <2>1, <2>2, <4>1
    <3>3. CASE ~in(i)
      <4>1. /\ i <= lo => where[b][i] = i
            /\ i > lo + k => where[b][i] = i - k
            /\ i <= lo \/ i > lo + k
        BY <1>4, <2>1, <3>3
      <4>2. /\ j <= lo => where[b][j] = j
            /\ j > lo + k => where[b][j] = j - k
            /\ j <= lo \/ j > lo + k
        BY <1>4, <2>1, <3>1, <3>3
      <4> QED
        BY <1>1, <2>1, <2>2, <4>1, <4>2, SMTT(30)
    <3> QED
      BY <3>2, <3>3
  <2>3. CASE x # b /\ y # b
    <3>1. x \in Buf \ {b} /\ y \in Buf \ {b}
      BY <2>3
    <3>2. ASSUME NEW z \in Buf \ {b}, NEW l \in Nat
          PROVE  who[z][l] = z
                 /\ where[z][l] = IF z = src THEN k + l ELSE l
      BY <1>5
    <3>3. x = y
      <4>1. who[x][i] = x /\ who[y][j] = y
        BY <2>1, <3>1, <3>2
      <4> QED
        BY <4>1
    <3>4. /\ where[x][i] = IF x = src THEN k + i ELSE i
          /\ where[x][j] = IF x = src THEN k + j ELSE j
      BY <2>1, <3>1, <3>2
    <3>5. where[x][i] = where[x][j]
      BY <3>3
    <3> QED
      BY ONLY <1>1, <2>1, <3>3, <3>4, <3>5, SMTT(30)
  <2>4. ASSUME NEW z \in Buf \ {b}, NEW l \in Nat, NEW n \in Nat, l >= 1,
               who[z][l] = who[b][n], where[z][l] = where[b][n]
        PROVE  FALSE
    <3>1. who[z][l] = z /\ (z = src => where[z][l] = k + l)
      BY <1>5, <2>4
    <3>2. z = src /\ in(n) /\ where[b][n] = n - lo
      BY <1>4, <2>4, <3>1
    <3> QED
      BY <1>1, <2>4, <3>1, <3>2
  <2>5. CASE x = b /\ y # b
    BY <2>1, <2>4, <2>5
  <2>6. CASE x # b /\ y = b
    BY <2>1, <2>4, <2>6
  <2> QED
    BY <2>2, <2>3, <2>5, <2>6
<1>9. ASSUME NEW x \in Buf, NEW j \in 1..Len(content[x])
      PROVE  Arrives(c, who, where, x, j)
  <2> SUFFICES \E y \in Buf : \E i \in 1..Len(c[y]) :
                 who[y][i] = x /\ where[y][i] = j
    BY DEF Arrives
  <2>1. j \in Nat /\ j >= 1 /\ j <= Len(content[x])
    BY <1>1
  <2>2. CASE x = src /\ j <= k
    <3>1. lo + j \in 1..Len(c[b]) /\ lo + j \in Nat /\ in(lo + j)
          /\ (lo + j) - lo = j
      BY <1>1, <2>1, <2>2
    <3>2. who[b][lo + j] = src /\ where[b][lo + j] = j
      BY <1>4, <3>1
    <3> QED
      BY <2>2, <3>1, <3>2
  <2>3. CASE x = src /\ j > k
    <3>1. j - k \in 1..Len(c[src]) /\ j - k \in Nat /\ k + (j - k) = j
      BY <1>1, <2>1, <2>3
    <3>2. who[src][j - k] = src /\ where[src][j - k] = j
      BY <1>5, <3>1
    <3> QED
      BY <2>3, <3>1, <3>2
  <2>4. CASE x = b /\ j <= lo
    <3>1. j \in 1..Len(c[b])
      BY <1>1, <2>1, <2>4
    <3>2. who[b][j] = b /\ where[b][j] = j
      BY <1>4, <2>1, <2>4
    <3> QED
      BY <2>4, <3>1, <3>2
  <2>5. CASE x = b /\ j > lo
    <3>1. k + j \in 1..Len(c[b]) /\ k + j \in Nat /\ k + j > lo + k
          /\ (k + j) - k = j
      BY <1>1, <2>1, <2>5
    <3>2. who[b][k + j] = b /\ where[b][k + j] = j
      BY <1>4, <3>1
    <3> QED
      BY <2>5, <3>1, <3>2
  <2>6. CASE x \notin {b, src}
    <3>1. x \in Buf \ {b} /\ x # src /\ c[x] = content[x]
      BY <2>6 DEF Transfers
    <3>2. who[x][j] = x /\ where[x][j] = j
      BY <1>5, <2>1, <3>1
    <3> QED
      BY <3>1, <3>2
  <2> QED
    BY <1>1, <2>1, <2>2, <2>3, <2>4, <2>5, <2>6
<1>10. NothingLost(c, who, where) /\ HandsOver(c, who, where)
  BY <1>9 DEF NothingLost, HandsOver
<1>11. how' = how /\ did \subseteq did' /\ did' \subseteq Deeds
  BY DEF IInv, TypeOK
<1> QED
  BY <1>7, <1>8, <1>10, <1>11, RearrangedKeeps

(* Bytes stay in their places, but may be copied.                          *)
LEMMA InPlaceKeeps ==
  ASSUME IInv, NEW c \in [Buf -> Seq(Byte)],
         \A x \in Buf : Len(c[x]) = Len(content[x]),
         \A x \in Buf : \A i \in 1..Len(c[x]) :
           /\ c[x][i].mem = content[x][i].mem
           /\ c[x][i].at = content[x][i].at
           /\ c[x][i].ref => content[x][i].ref,
         NEW made, NEW gone, Install(c, made, gone), Sound(c, refs'),
         UNCHANGED <<how, handed, did>>
  PROVE  IInv'
<1> DEFINE who == [x \in Buf |-> [i \in Nat |-> x]]
           where == [x \in Buf |-> [i \in Nat |-> i]]
<1>1. content \in [Buf -> Seq(Byte)]
      /\ \A x \in Buf : Len(content[x]) \in Nat
  BY DEF IInv, TypeOK
<1>2. /\ who \in [Buf -> [Nat -> Buf]] /\ where \in [Buf -> [Nat -> Nat]]
      /\ \A x \in Buf, i \in Nat : who[x][i] = x /\ where[x][i] = i
  OBVIOUS
<1> HIDE DEF who, where
<1>3. ASSUME NEW x \in Buf, NEW i \in 1..Len(c[x])
      PROVE  i \in 1..Len(content[x]) /\ who[x][i] = x /\ where[x][i] = i
  <2>1. i \in Nat /\ i \in 1..Len(content[x])
    <3>1. Len(c[x]) = Len(content[x]) /\ Len(content[x]) \in Nat
      BY <1>1
    <3> QED
      BY <3>1
  <2> QED
    BY <1>2, <2>1
<1>4. Rearranges(c, who, where)
  <2> SUFFICES ASSUME NEW x \in Buf, NEW i \in 1..Len(c[x])
               PROVE  LET old == content[who[x][i]]
                          j == where[x][i]
                      IN /\ j \in 1..Len(old)
                         /\ c[x][i].mem = old[j].mem
                         /\ c[x][i].at = old[j].at
                         /\ c[x][i].ref => old[j].ref
    BY <1>2 DEF Rearranges
  <2>1. i \in 1..Len(content[x]) /\ who[x][i] = x /\ where[x][i] = i
    BY <1>3
  <2> QED
    BY <2>1
<1>5. Injective(c, who, where)
  <2> SUFFICES ASSUME NEW x \in Buf, NEW y \in Buf,
                      NEW i \in 1..Len(c[x]), NEW j \in 1..Len(c[y]),
                      who[x][i] = who[y][j], where[x][i] = where[y][j]
               PROVE  x = y /\ i = j
    BY DEF Injective
  <2>1. who[x][i] = x /\ where[x][i] = i /\ who[y][j] = y /\ where[y][j] = j
    BY <1>3
  <2> QED
    BY <2>1
<1>6. ASSUME NEW x \in Buf, NEW j \in 1..Len(content[x])
      PROVE  Arrives(c, who, where, x, j)
  <2>1. j \in 1..Len(c[x])
    OBVIOUS
  <2>2. who[x][j] = x /\ where[x][j] = j
    BY <1>3, <2>1
  <2> QED
    BY <2>1, <2>2 DEF Arrives
<1>7. NothingLost(c, who, where) /\ HandsOver(c, who, where)
  BY <1>6 DEF NothingLost, HandsOver
<1>8. how' = how /\ did \subseteq did' /\ did' \subseteq Deeds
  BY DEF IInv, TypeOK
<1> QED
  BY <1>4, <1>5, <1>7, <1>8, RearrangedKeeps

-----------------------------------------------------------------------------
(* A buffer refers to what it did before and to the block, if that is      *)
(* added by reference.                                                     *)
LEMMA BlockReferenced ==
  ASSUME IInv, NEW b \in Buf, NEW m \in Mem, NEW ref \in BOOLEAN,
         NEW c \in [Buf -> Seq(Byte)],
         \/ c[b] = content[b] \o Block(m, ref)
         \/ c[b] = Block(m, ref) \o content[b],
         \A x \in Buf \ {b} : c[x] = content[x]
  PROVE  /\ ref = TRUE => Referenced(c) = Referenced(content) \cup {m}
         /\ ref = FALSE => Referenced(c) = Referenced(content)
<1> DEFINE new == Block(m, ref)
           old == content[b]
           s == c[b]
<1>1. /\ content \in [Buf -> Seq(Byte)] /\ old \in Seq(Byte)
      /\ new \in Seq(Byte) /\ Len(new) = Size /\ Size \in Nat /\ Size >= 1
      /\ Len(old) \in Nat
      /\ \A i \in 1..Size : new[i].mem = m /\ (new[i].ref <=> ref)
  BY BlockIs, BuffersAssumption DEF IInv, TypeOK
<1> HIDE DEF new, old, s
<1>2. /\ s \in Seq(Byte)
      /\ \A i \in 1..Len(s) : \/ \E j \in 1..Len(old) : s[i] = old[j]
                              \/ \E j \in 1..Len(new) : s[i] = new[j]
      /\ \A j \in 1..Len(old) : \E i \in 1..Len(s) : s[i] = old[j]
      /\ \A j \in 1..Len(new) : \E i \in 1..Len(s) : s[i] = new[j]
  <2>1. ASSUME NEW u \in Seq(Byte), NEW v \in Seq(Byte), s = u \o v
        PROVE  /\ s \in Seq(Byte)
               /\ \A i \in 1..Len(s) : \/ \E j \in 1..Len(u) : s[i] = u[j]
                                       \/ \E j \in 1..Len(v) : s[i] = v[j]
               /\ \A j \in 1..Len(u) : \E i \in 1..Len(s) : s[i] = u[j]
               /\ \A j \in 1..Len(v) : \E i \in 1..Len(s) : s[i] = v[j]
    <3>1. /\ s \in Seq(Byte) /\ Len(s) = Len(u) + Len(v)
          /\ Len(u) \in Nat /\ Len(v) \in Nat
          /\ \A i \in 1..(Len(u) + Len(v)) :
               s[i] = IF i <= Len(u) THEN u[i] ELSE v[i - Len(u)]
      BY <2>1, ConcatProperties
    <3>2. ASSUME NEW i \in 1..Len(s)
          PROVE  \/ \E j \in 1..Len(u) : s[i] = u[j]
                 \/ \E j \in 1..Len(v) : s[i] = v[j]
      <4>1. i \in 1..Len(u) \/ (~(i <= Len(u)) /\ i - Len(u) \in 1..Len(v))
        BY <3>1
      <4> QED
        BY <3>1, <4>1
    <3>3. ASSUME NEW j \in 1..Len(u) PROVE \E i \in 1..Len(s) : s[i] = u[j]
      <4>1. j \in 1..Len(s) /\ j <= Len(u)
        BY <3>1
      <4> QED
        BY <3>1, <4>1
    <3>4. ASSUME NEW j \in 1..Len(v) PROVE \E i \in 1..Len(s) : s[i] = v[j]
      <4>1. Len(u) + j \in 1..Len(s) /\ ~(Len(u) + j <= Len(u))
            /\ (Len(u) + j) - Len(u) = j
        BY <3>1
      <4>2. s[Len(u) + j] = v[j]
        BY <3>1, <4>1
      <4> QED
        BY <4>1, <4>2
    <3> QED
      BY <3>1, <3>2, <3>3, <3>4
  <2>2. s = old \o new \/ s = new \o old
    BY DEF old, new, s
  <2>0. old \in Seq(Byte) /\ new \in Seq(Byte)
    BY <1>1
  <2>3. CASE s = old \o new
    BY <2>0, <2>1, <2>3
  <2>4. CASE s = new \o old
    BY ONLY <2>0, <2>1, <2>4
  <2> QED
    BY <2>2, <2>3, <2>4
<1>3. /\ c \in [Buf -> Seq(Byte)] /\ c[b] = s /\ old = content[b]
      /\ \A x \in Buf \ {b} : c[x] = content[x]
  BY DEF old, s
<1>4. content \in [Buf -> Seq(Byte)]
  BY <1>1
<1>5. ASSUME NEW x, x \in Referenced(c)
      PROVE  x \in Referenced(content) \/ (ref /\ x = m)
  <2>0. x \in Mem /\ Refers(c, x)
    BY <1>5, InReferenced
  <2>1. PICK d \in Buf : \E i \in 1..Len(c[d]) : c[d][i].mem = x /\ c[d][i].ref
    BY <2>0 DEF Refers
  <2>2. PICK i \in 1..Len(c[d]) : c[d][i].mem = x /\ c[d][i].ref
    BY <2>1
  <2>3. CASE \E j \in 1..Len(content[d]) : c[d][i] = content[d][j]
    <3>1. \E j \in 1..Len(content[d]) :
            content[d][j].mem = x /\ content[d][j].ref
      BY <2>2, <2>3
    <3>2. x \in Referenced(content)
      BY <1>4, <2>0, <3>1, InReferenced DEF Refers
    <3> QED
      BY <3>2
  <2>4. CASE \E j \in 1..Len(new) : c[d][i] = new[j]
    BY <1>1, <2>2, <2>4
  <2>5. CASE d = b
    BY <1>2, <1>3, <2>3, <2>4, <2>5
  <2>6. CASE d # b
    BY <1>3, <2>3, <2>6
  <2> QED
    BY <2>5, <2>6
<1>6. ASSUME NEW x \in Referenced(content)
      PROVE  x \in Referenced(c)
  <2>0. x \in Mem /\ Refers(content, x)
    BY <1>4, InReferenced
  <2>1. PICK d \in Buf : \E i \in 1..Len(content[d]) :
                           content[d][i].mem = x /\ content[d][i].ref
    BY <2>0 DEF Refers
  <2>2. \E i \in 1..Len(c[d]) : c[d][i].mem = x /\ c[d][i].ref
    <3>0. PICK j \in 1..Len(content[d]) :
            content[d][j].mem = x /\ content[d][j].ref
      BY <2>1
    <3>1. CASE d = b
      <4>1. j \in 1..Len(old) /\ content[d][j] = old[j] /\ c[d] = s
        BY <1>3, <3>1
      <4>2. \E i \in 1..Len(s) : s[i] = old[j]
        BY <1>2, <4>1
      <4> QED
        BY <3>0, <4>1, <4>2
    <3>2. CASE d # b
      BY <1>3, <2>1, <3>2
    <3> QED
      BY <3>1, <3>2
  <2> QED
    BY <2>0, <2>2, InReferenced DEF Refers
<1>7. ASSUME ref PROVE m \in Referenced(c)
  <2>1. 1 \in 1..Len(new) /\ new[1].mem = m /\ new[1].ref
    BY <1>1, <1>7
  <2>2. \E i \in 1..Len(c[b]) : c[b][i].mem = m /\ c[b][i].ref
    BY <1>2, <1>3, <2>1
  <2> QED
    BY <2>2, InReferenced DEF Refers
<1> QED
  BY <1>3, <1>5, <1>6, <1>7

(* One buffer is changed.                                                  *)
LEMMA ChangedIs ==
  ASSUME IInv, NEW b \in Buf, NEW s \in Seq(Byte)
  PROVE  /\ [content EXCEPT ![b] = s] \in [Buf -> Seq(Byte)]
         /\ [content EXCEPT ![b] = s][b] = s
         /\ \A x \in Buf \ {b} : [content EXCEPT ![b] = s][x] = content[x]
<1>1. content \in [Buf -> Seq(Byte)]
  BY DEF IInv, TypeOK
<1> QED
  BY <1>1

LEMMA BlockFits ==
  ASSUME IInv, NEW b \in Buf, NEW m \in Mem, NEW ref \in BOOLEAN
  PROVE  /\ content[b] \o Block(m, ref) \in Seq(Byte)
         /\ Block(m, ref) \o content[b] \in Seq(Byte)
<1>1. content[b] \in Seq(Byte) /\ Block(m, ref) \in Seq(Byte)
  BY BlockIs DEF IInv, TypeOK
<1> QED
  BY <1>1, ConcatProperties

(* What is copied into a buffer is new, and refers to nothing.             *)
LEMMA CopiedKeeps ==
  ASSUME IInv, NEW b \in Buf, NEW m \in Mem, NEW s,
         \/ s = content[b] \o Block(m, FALSE)
         \/ s = Block(m, FALSE) \o content[b],
         how[m] = "unused", how' = [how EXCEPT ![m] = "copied"],
         Install([content EXCEPT ![b] = s], <<>>, <<>>),
         UNCHANGED <<handed, did>>
  PROVE  IInv'
<1> DEFINE c == [content EXCEPT ![b] = s]
<1>1. s \in Seq(Byte)
  BY BlockFits
<1>2. /\ c \in [Buf -> Seq(Byte)] /\ c[b] = s
      /\ \A x \in Buf \ {b} : c[x] = content[x]
  BY <1>1, ChangedIs
<1>3. Install(c, <<>>, <<>>) /\ content' = [content EXCEPT ![b] = s]
  BY DEF Install
<1>4. how \in [Mem -> {"unused", "copied", "string"} \cup Cleaned]
  BY DEF IInv, TypeOK
<1>5. /\ \A x \in Mem : how'[x] = how[x] \/ how[x] = "unused"
      /\ how' \in [Mem -> {"unused", "copied", "string"} \cup Cleaned]
      /\ \A x \in Mem : how'[x] \in Cleaned => how[x] = how'[x]
  BY <1>4 DEF Cleaned
<1> HIDE DEF c
<1>6. Referenced(c) \subseteq Referenced(content)
  <2>1. \/ c[b] = content[b] \o Block(m, FALSE)
        \/ c[b] = Block(m, FALSE) \o content[b]
    BY <1>2
  <2>2. FALSE \in BOOLEAN
    OBVIOUS
  <2>3. Referenced(c) = Referenced(content)
    BY <1>2, <2>1, <2>2, BlockReferenced
  <2> QED
    BY <2>3
<1>7. did \subseteq did'
  OBVIOUS
<1>10. Sound(c, refs')
  <2> DEFINE new == Block(m, FALSE)
  <2>1. /\ content[b] \in Seq(Byte) /\ Chained(content[b])
        /\ new \in Seq(Byte) /\ Chained(new) /\ <<>> \in Seq(Byte)
    <3>1. FALSE \in BOOLEAN
      OBVIOUS
    <3>2. new \in Seq(Byte) /\ Chained(new)
      BY <3>1, BlockIs, BlockChained
    <3> HIDE DEF new
    <3>3. content[b] \in Seq(Byte) /\ Chained(content[b])
      BY DEF IInv, TypeOK, Counted, Sound
    <3> QED
      BY <3>2, <3>3
  <2>2. \A x \in Mem : Chains(new, x) = 0 /\ Chains(<<>>, x) = 0
    BY ChainsOfBlock, NoChains
  <2>3. s = content[b] \o new \/ s = new \o content[b]
    OBVIOUS
  <2> HIDE DEF new
  <2>4. Chained(s)
    BY <2>1, <2>3, BothChained
  <2>5. ASSUME NEW x \in Mem
        PROVE  Chains(s, x) =
                 (Chains(content[b], x) + Chains(<<>>, x)) - Chains(<<>>, x)
    <3>1. /\ Chains(content[b], x) \in Nat /\ Chains(new, x) = 0
          /\ Chains(<<>>, x) = 0
      BY <2>1, <2>2, LastsAre
    <3>2. \/ Chains(s, x) = Chains(content[b], x) + Chains(new, x)
          \/ Chains(s, x) = Chains(new, x) + Chains(content[b], x)
      <4>1. /\ Chains(content[b] \o new, x) = Chains(content[b], x) + Chains(new, x)
            /\ Chains(new \o content[b], x) = Chains(new, x) + Chains(content[b], x)
        BY <2>1, ChainsOfBoth
      <4> QED
        BY <2>3, <4>1
    <3> QED
      BY <3>1, <3>2
  <2>6. Install([content EXCEPT ![b] = s], <<>>, <<>>)
    OBVIOUS
  <2>7. Sound([content EXCEPT ![b] = s], refs')
    BY <1>1, <2>1, <2>4, <2>5, <2>6, OneInstalled
  <2> QED
    BY <2>7 DEF c
<1>8. /\ valid' \subseteq {x \in Mem : how'[x] \in {"string"} \cup Cleaned}
      /\ fault' \in BOOLEAN /\ Lives' /\ NothingLeaks'
  BY <1>2, <1>3, <1>5, <1>6, <1>7, <1>10, MemoryKept
<1>11. Sound(content', refs')
  BY <1>3, <1>10 DEF c
<1>9. FALSE \in BOOLEAN /\ "copied" \in {"copied", "string"} \cup Cleaned
  OBVIOUS
<1> QED
  BY <1>3, <1>8, <1>9, <1>11, NewBlockKeeps

LEMMA AddKeeps ==
  ASSUME IInv, NEW b \in Buf, NEW m \in Mem, Add(b, m) \/ Prepend(b, m)
  PROVE  IInv'
<1>1. CASE Add(b, m)
  BY <1>1, CopiedKeeps DEF Add
<1>2. CASE Prepend(b, m)
  BY <1>2, CopiedKeeps DEF Prepend
<1> QED
  BY <1>1, <1>2

LEMMA AddReferenceKeeps ==
  ASSUME IInv, NEW b \in Buf, NEW m \in Mem,
         NEW kind \in {"string"} \cup Cleaned, AddReference(b, m, kind)
  PROVE  IInv'
<1> DEFINE s == content[b] \o Block(m, TRUE)
           c == [content EXCEPT ![b] = s]
<1>1. s \in Seq(Byte)
  BY BlockFits
<1>2. /\ c \in [Buf -> Seq(Byte)] /\ c[b] = s
      /\ \A x \in Buf \ {b} : c[x] = content[x]
  BY <1>1, ChangedIs
<1>3. /\ content' = c /\ how[m] = "unused" /\ how' = [how EXCEPT ![m] = kind]
      /\ valid' = valid \cup {m} /\ refs' = [refs EXCEPT ![m] = @ + 1]
      /\ UNCHANGED <<handed, fault, did>>
  BY DEF AddReference
<1>4. /\ how \in [Mem -> {"unused", "copied", "string"} \cup Cleaned]
      /\ valid \subseteq {x \in Mem : how[x] \in {"string"} \cup Cleaned}
      /\ fault \in BOOLEAN
  BY DEF IInv, TypeOK
<1>5. Referenced(content)' = Referenced(content) \cup {m}
  <2>1. Referenced(c) = Referenced(content) \cup {m}
    <3>1. TRUE \in BOOLEAN /\ c[b] = content[b] \o Block(m, TRUE)
      BY <1>2
    <3> HIDE DEF c, s
    <3> QED
      BY <1>2, <3>1, BlockReferenced
  <2>2. Referenced(content)' = Referenced(c)
    BY <1>3 DEF Referenced
  <2> QED
    BY <2>1, <2>2
<1>6. valid' \subseteq {x \in Mem : how'[x] \in {"string"} \cup Cleaned}
  BY <1>3, <1>4
<1>7. Lives'
  BY <1>3, <1>5 DEF IInv, Lives
<1>8. NothingLeaks'
  <2> SUFFICES ASSUME NEW x \in valid', how'[x] \in Cleaned
               PROVE  x \in Referenced(content)' \/ fault'
    BY DEF NothingLeaks
  <2>1. CASE x = m
    BY <1>5, <2>1
  <2>2. CASE x # m
    <3>1. x \in valid /\ how'[x] = how[x]
      BY <1>3, <1>4, <2>2
    <3> QED
      BY <1>3, <1>5, <3>1 DEF IInv, NothingLeaks
  <2> QED
    BY <2>1, <2>2
<1>10. Sound(content', refs')
  <2> DEFINE new == Block(m, TRUE)
  <2>1. /\ content[b] \in Seq(Byte) /\ Chained(content[b])
        /\ new \in Seq(Byte) /\ Chained(new) /\ refs \in [Mem -> Nat]
    BY BlockIs, BlockChained, ZenonT(30) DEF IInv, TypeOK, Counted, Sound
  <2>2. Chained(s)
    BY <2>1, BothChained
  <2>3. ASSUME NEW x \in Mem
        PROVE  refs'[x] = (refs[x] - Chains(content[b], x)) + Chains(s, x)
    <3>1. Chains(new, x) = IF m = x THEN 1 ELSE 0
      BY ChainsOfBlock
    <3>2. Chains(s, x) = Chains(content[b], x) + Chains(new, x)
      BY <2>1, ChainsOfBoth
    <3>3. Chains(content[b], x) \in Nat /\ refs[x] \in Nat
      BY <2>1, LastsAre
    <3>4. refs'[x] = refs[x] + (IF m = x THEN 1 ELSE 0)
      BY <1>3, <2>1
    <3> HIDE DEF s, new
    <3> QED
      BY <3>1, <3>2, <3>3, <3>4
  <2>4. refs' \in [Mem -> Int]
    BY <1>3, <2>1
  <2> HIDE DEF s
  <2>5. Sound([content EXCEPT ![b] = s], refs')
    BY <1>1, <2>2, <2>3, <2>4, OneSound
  <2> QED
    BY <1>3, <2>5 DEF c
<1>9. TRUE \in BOOLEAN /\ kind \in {"copied", "string"} \cup Cleaned
  OBVIOUS
<1> QED
  BY <1>3, <1>4, <1>6, <1>7, <1>8, <1>9, <1>10, NewBlockKeeps

LEMMA DropStringKeeps ==
  ASSUME IInv, NEW m \in Mem, DropString(m)
  PROVE  IInv'
<1>1. /\ valid' = valid \ {m}
      /\ did' = did \cup {d \in {"dropped"} : m \in Referenced(content)}
      /\ UNCHANGED <<content, how, refs, handed, fault>>
  BY DEF DropString
<1>2. /\ did \subseteq did' /\ did' \subseteq did \cup {"dropped"}
      /\ m \in Referenced(content) => "dropped" \in did'
  BY <1>1
<1>3. TypeOK'
  BY <1>1, <1>2 DEF IInv, TypeOK, Deeds
<1>4. Referenced(content)' = Referenced(content)
  BY <1>1 DEF Referenced
<1>5. Lives'
  BY <1>1, <1>2, <1>4 DEF IInv, Lives
<1>6. NothingLeaks'
  BY <1>1, <1>4 DEF IInv, NothingLeaks
<1>7. Known' /\ Present' /\ InOnePlace'
  BY <1>1, <1>2 DEF IInv, Known, Present, InOnePlace
<1>8. Counted'
  BY <1>1, CountedNext DEF IInv, Counted
<1> QED
  BY <1>3, <1>5, <1>6, <1>7, <1>8 DEF IInv

-----------------------------------------------------------------------------
(* What calls with two buffers leave.                                      *)
LEMMA ConcatIs ==
  ASSUME NEW u \in Seq(Byte), NEW v \in Seq(Byte)
  PROVE  /\ u \o v \in Seq(Byte)
         /\ Len(u \o v) = Len(u) + Len(v)
         /\ \A i \in 1..Len(u) : (u \o v)[i] = u[i]
         /\ \A i \in 1..Len(v) : (u \o v)[Len(u) + i] = v[i]
<1>1. /\ u \o v \in Seq(Byte)
      /\ Len(u \o v) = Len(u) + Len(v) /\ Len(u) \in Nat /\ Len(v) \in Nat
      /\ \A i \in 1..(Len(u) + Len(v)) :
           (u \o v)[i] = IF i <= Len(u) THEN u[i] ELSE v[i - Len(u)]
  BY ConcatProperties
<1>2. ASSUME NEW i \in 1..Len(u) PROVE (u \o v)[i] = u[i]
  <2>1. i \in 1..(Len(u) + Len(v)) /\ i <= Len(u)
    BY <1>1
  <2> QED
    BY <1>1, <2>1
<1>3. ASSUME NEW i \in 1..Len(v) PROVE (u \o v)[Len(u) + i] = v[i]
  <2>1. /\ Len(u) + i \in 1..(Len(u) + Len(v)) /\ ~(Len(u) + i <= Len(u))
        /\ (Len(u) + i) - Len(u) = i
    BY <1>1
  <2> QED
    BY <1>1, <2>1
<1> QED
  BY <1>1, <1>2, <1>3

(* The first k bytes of src, or copies of them, go behind the content of b *)
(* ...                                                                     *)
Appends(c, b, src, k, moved) ==
  /\ c \in [Buf -> Seq(Byte)]
  /\ \A x \in Buf \ {b, src} : c[x] = content[x]
  /\ Len(c[src]) = Len(content[src]) - k
  /\ \A i \in 1..Len(c[src]) : c[src][i] = content[src][k + i]
  /\ moved \in Seq(Byte)
  /\ Len(moved) = k
  /\ \A i \in 1..k : /\ moved[i].mem = content[src][i].mem
                     /\ moved[i].at = content[src][i].at
                     /\ moved[i].ref => content[src][i].ref
  /\ c[b] = content[b] \o moved

LEMMA AppendKeeps ==
  ASSUME IInv, NEW b \in Buf, NEW src \in Buf, b # src,
         NEW k \in 0..Len(content[src]), NEW c, NEW moved,
         Appends(c, b, src, k, moved),
         Install(c, <<>>, <<>>), Sound(c, refs'), UNCHANGED <<how, handed, did>>
  PROVE  IInv'
<1> DEFINE lo == Len(content[b])
           cat == content[b] \o moved
<1>1. /\ content[b] \in Seq(Byte) /\ moved \in Seq(Byte)
      /\ lo \in Nat /\ k \in Nat /\ Len(moved) = k
  BY DEF IInv, TypeOK, Appends
<1>2. /\ Len(cat) = lo + k
      /\ \A i \in 1..lo : cat[i] = content[b][i]
      /\ \A i \in 1..k : cat[lo + i] = moved[i]
  BY <1>1, ConcatIs
<1>3. c[b] = cat
  BY DEF Appends
<1> HIDE DEF cat
<1>4. /\ Len(c[b]) = lo + k
      /\ \A i \in 1..lo : c[b][i] = content[b][i]
      /\ \A i \in 1..k : c[b][lo + i] = moved[i]
  BY <1>2, <1>3
<1>5. \A i \in 1..k : /\ moved[i].mem = content[src][i].mem
                      /\ moved[i].at = content[src][i].at
                      /\ moved[i].ref => content[src][i].ref
  BY DEF Appends
<1>6. \A i \in 1..k : /\ c[b][lo + i].mem = content[src][i].mem
                      /\ c[b][lo + i].at = content[src][i].at
                      /\ c[b][lo + i].ref => content[src][i].ref
  BY <1>4, <1>5
<1>7. \A i \in (lo + 1)..lo : c[b][k + i] = content[b][i]
  BY <1>1
<1>8. /\ c \in [Buf -> Seq(Byte)]
      /\ \A x \in Buf \ {b, src} : c[x] = content[x]
      /\ Len(c[src]) = Len(content[src]) - k
      /\ \A i \in 1..Len(c[src]) : c[src][i] = content[src][k + i]
  BY DEF Appends
<1>9. Transfers(c, b, src, k, lo)
  BY <1>4, <1>6, <1>7, <1>8 DEF Transfers
<1>10. lo \in 0..Len(content[b])
  BY <1>1
<1> HIDE DEF lo
<1> QED
  BY <1>9, <1>10, TransferKeeps

LEMMA AddBufferKeeps ==
  ASSUME IInv, NEW b \in Buf, NEW src \in Buf, AddBuffer(b, src)
  PROVE  IInv'
<1> DEFINE c == [content EXCEPT ![b] = @ \o content[src], ![src] = <<>>]
           k == Len(content[src])
<1>1. content \in [Buf -> Seq(Byte)]
  BY DEF IInv, TypeOK
<1>2. /\ content[src] \in Seq(Byte) /\ content[b] \in Seq(Byte)
      /\ <<>> \in Seq(Byte)
      /\ k \in Nat /\ k \in 0..Len(content[src]) /\ Len(<<>>) = 0
  BY <1>1
<1>3. content[b] \o content[src] \in Seq(Byte)
  BY <1>2, ConcatIs
<1>4. b # src /\ Install(c, <<>>, <<>>) /\ UNCHANGED <<how, handed, did>>
  BY DEF AddBuffer
<1>5. /\ c \in [Buf -> Seq(Byte)] /\ c[src] = <<>>
      /\ c[b] = content[b] \o content[src]
      /\ \A x \in Buf \ {b, src} : c[x] = content[x]
  BY <1>1, <1>2, <1>3, <1>4
<1>6. Len(c[src]) = 0
  BY <1>2, <1>5
<1>7. k \in Nat /\ k = Len(content[src]) /\ k \in 0..Len(content[src])
  BY <1>2
<1> HIDE DEF c, k
<1>8. /\ Len(c[src]) = Len(content[src]) - k
      /\ \A i \in 1..Len(c[src]) : c[src][i] = content[src][k + i]
  BY <1>6, <1>7
<1>9. Appends(c, b, src, k, content[src])
  BY <1>2, <1>5, <1>7, <1>8 DEF Appends
<1>10. Sound(c, refs')
  <2>1. /\ content[b] \in Seq(Byte) /\ Chained(content[b])
        /\ content[src] \in Seq(Byte) /\ Chained(content[src])
        /\ <<>> \in Seq(Byte)
    BY DEF IInv, TypeOK, Counted, Sound
  <2>2. Chained(c[b]) /\ Chained(c[src])
    <3>1. Chained(content[b] \o content[src])
      BY <2>1, BothChained
    <3>2. Chained(<<>>)
      BY DEF Chained
    <3> QED
      BY <1>5, <3>1, <3>2
  <2>3. ASSUME NEW m \in Mem
        PROVE  Chains(c[b], m) + Chains(c[src], m) =
                 Chains(content[b], m) + Chains(content[src], m)
    <3>1. /\ Chains(content[b], m) \in Nat /\ Chains(content[src], m) \in Nat
          /\ Chains(<<>>, m) = 0
      BY <2>1, LastsAre, NoChains
    <3>2. Chains(content[b] \o content[src], m) = Chains(content[b], m) + Chains(content[src], m)
      BY <2>1, ChainsOfBoth
    <3>3. c[src] = <<>> /\ c[b] = content[b] \o content[src]
      BY <1>5
    <3> QED
      BY <3>1, <3>2, <3>3
  <2> QED
    BY <1>4, <1>5, <2>2, <2>3, TwoInstalled
<1> QED
  BY <1>4, <1>7, <1>9, <1>10, AppendKeeps

(* ... or in front of it.                                                  *)
LEMMA PrependBufferKeeps ==
  ASSUME IInv, NEW b \in Buf, NEW src \in Buf, PrependBuffer(b, src)
  PROVE  IInv'
<1> DEFINE c == [content EXCEPT ![b] = content[src] \o @, ![src] = <<>>]
           k == Len(content[src])
           cat == content[src] \o content[b]
<1>1. content \in [Buf -> Seq(Byte)]
  BY DEF IInv, TypeOK
<1>2. /\ content[src] \in Seq(Byte) /\ content[b] \in Seq(Byte)
      /\ <<>> \in Seq(Byte) /\ Len(content[b]) \in Nat
      /\ k \in Nat /\ k \in 0..Len(content[src]) /\ Len(<<>>) = 0
  BY <1>1
<1>3. /\ cat \in Seq(Byte)
      /\ Len(cat) = k + Len(content[b])
      /\ \A i \in 1..k : cat[i] = content[src][i]
      /\ \A i \in 1..Len(content[b]) : cat[k + i] = content[b][i]
  BY <1>2, ConcatIs
<1>4. b # src /\ Install(c, <<>>, <<>>) /\ UNCHANGED <<how, handed, did>>
  BY DEF PrependBuffer
<1>5. /\ c \in [Buf -> Seq(Byte)] /\ c[src] = <<>>
      /\ c[b] = cat
      /\ \A x \in Buf \ {b, src} : c[x] = content[x]
  BY <1>1, <1>2, <1>3, <1>4
<1>6. c[b] = cat /\ Len(c[src]) = 0
  BY <1>2, <1>5
<1>7. /\ k \in Nat /\ Len(content[b]) \in Nat /\ k = Len(content[src])
      /\ k \in 0..Len(content[src]) /\ 0 \in 0..Len(content[b])
  BY <1>2
<1>8. /\ c \in [Buf -> Seq(Byte)]
      /\ \A x \in Buf \ {b, src} : c[x] = content[x]
  BY <1>5
<1> HIDE DEF c, cat, k
<1>9. /\ Len(c[src]) = Len(content[src]) - k
      /\ \A i \in 1..Len(c[src]) : c[src][i] = content[src][k + i]
      /\ \A i \in 1..0 : c[b][i] = content[b][i]
  BY <1>6, <1>7
<1>10. Len(c[b]) = Len(content[b]) + k
  <2>1. Len(c[b]) = k + Len(content[b])
    BY <1>3, <1>6
  <2>2. \A i, j \in Nat : i + j = j + i
    OBVIOUS
  <2> QED
    BY <1>7, <2>1, <2>2, Zenon
<1>11. \A i \in 1..k : c[b][0 + i] = content[src][i]
  <2> SUFFICES ASSUME NEW i \in 1..k PROVE c[b][0 + i] = content[src][i]
    OBVIOUS
  <2>1. 0 + i = i
    BY <1>7
  <2> QED
    BY <1>3, <1>6, <2>1
<1>12. \A i \in (0 + 1)..Len(content[b]) : c[b][k + i] = content[b][i]
  <2> SUFFICES ASSUME NEW i \in 1..Len(content[b])
               PROVE  c[b][k + i] = content[b][i]
    OBVIOUS
  <2> QED
    BY <1>3, <1>6
<1>13. Transfers(c, b, src, k, 0)
  BY <1>8, <1>9, <1>10, <1>11, <1>12 DEF Transfers
<1>14. Sound(c, refs')
  <2>1. /\ content[b] \in Seq(Byte) /\ Chained(content[b])
        /\ content[src] \in Seq(Byte) /\ Chained(content[src])
        /\ <<>> \in Seq(Byte)
    BY DEF IInv, TypeOK, Counted, Sound
  <2>2. Chained(c[b]) /\ Chained(c[src])
    <3>1. Chained(content[src] \o content[b])
      BY <2>1, BothChained
    <3>2. Chained(<<>>)
      BY DEF Chained
    <3> QED
      BY <1>5, <3>1, <3>2 DEF cat
  <2>3. ASSUME NEW m \in Mem
        PROVE  Chains(c[b], m) + Chains(c[src], m) =
                 Chains(content[b], m) + Chains(content[src], m)
    <3>1. /\ Chains(content[b], m) \in Nat /\ Chains(content[src], m) \in Nat
          /\ Chains(<<>>, m) = 0
      BY <2>1, LastsAre, NoChains
    <3>2. Chains(content[src] \o content[b], m) = Chains(content[src], m) + Chains(content[b], m)
      BY <2>1, ChainsOfBoth
    <3>3. c[src] = <<>> /\ c[b] = content[src] \o content[b]
      BY <1>5 DEF cat
    <3> QED
      BY <3>1, <3>2, <3>3
  <2> QED
    BY <1>4, <1>5, <2>2, <2>3, TwoInstalled
<1> QED
  BY <1>4, <1>7, <1>13, <1>14, TransferKeeps

LEMMA SmallerIs ==
  ASSUME NEW n \in Nat, NEW k \in Nat
  PROVE  Smaller(n, k) \in 0..k /\ Smaller(n, k) <= n
BY DEF Smaller

LEMMA RemoveBufferKeeps ==
  ASSUME IInv, NEW b \in Buf, NEW src \in Buf, NEW n \in Nat,
         RemoveBuffer(b, src, n)
  PROVE  IInv'
<1>1. content \in [Buf -> Seq(Byte)]
  BY DEF IInv, TypeOK
<1>2. \A x \in Buf : content[x] \in Seq(Byte) /\ Len(content[x]) \in Nat
  BY <1>1
<1>3. CASE b = src
  <2> DEFINE c == [content EXCEPT ![src] = Rest(@, 0)]
             d == [c EXCEPT ![b] = @ \o Prefix(content[src], 0)]
  <2>1. Install(d, <<>>, <<>>) /\ UNCHANGED <<how, handed, did>>
    BY <1>3 DEF RemoveBuffer
  <2>2. 0 \in 0..Len(content[b])
    BY <1>2
  <2>3. Rest(content[b], 0) = content[b]
    <3>1. /\ Rest(content[b], 0) \in Seq(Byte)
          /\ Len(Rest(content[b], 0)) = Len(content[b])
          /\ \A i \in 1..Len(content[b]) :
               Rest(content[b], 0)[i] = content[b][0 + i]
      BY <1>2, <2>2, RestIs
    <3>2. \A i \in 1..Len(content[b]) : Rest(content[b], 0)[i] = content[b][i]
      BY <1>2, <3>1
    <3> QED
      BY <1>2, <3>1, <3>2, SeqEqual
  <2>4. content[b] \o Prefix(content[b], 0) = content[b]
    <3>1. Prefix(content[b], 0) \in Seq(Byte) /\ Len(Prefix(content[b], 0)) = 0
      BY <1>2, <2>2, PrefixIs
    <3>2. Prefix(content[b], 0) = <<>>
      BY <3>1, EmptySeq
    <3> QED
      BY <1>2, <3>2, ConcatEmptySeq
  <2>5. d = content
    BY <1>1, <1>3, <2>3, <2>4
  <2> HIDE DEF d
  <2>6. Install(content, <<>>, <<>>)
    BY <2>1, <2>5
  <2>7. Sound(content, refs')
    <3>1. content[b] \in Seq(Byte) /\ <<>> \in Seq(Byte) /\ Chained(content[b])
      BY <1>2 DEF IInv, Counted, Sound
    <3>2. \A m \in Mem : Chains(content[b], m) =
            (Chains(content[b], m) + Chains(<<>>, m)) - Chains(<<>>, m)
      <4>1. \A m \in Mem : Chains(content[b], m) \in Nat /\ Chains(<<>>, m) = 0
        BY <3>1, LastsAre, NoChains
      <4> QED
        BY <4>1
    <3>3. content = [content EXCEPT ![b] = content[b]]
      BY <1>1
    <3>4. Install([content EXCEPT ![b] = content[b]], <<>>, <<>>)
      BY <2>6, <3>3
    <3>5. Sound([content EXCEPT ![b] = content[b]], refs')
      BY <3>1, <3>2, <3>4, OneInstalled
    <3> QED
      BY <3>3, <3>5
  <2> QED
    BY <1>1, <2>1, <2>6, <2>7, InPlaceKeeps
<1>4. CASE b # src
  <2> DEFINE k == Smaller(n, Len(content[src]))
             moved == Prefix(content[src], k)
             c == [content EXCEPT ![src] = Rest(@, k)]
             d == [c EXCEPT ![b] = @ \o moved]
  <2>1. Install(d, <<>>, <<>>) /\ UNCHANGED <<how, handed, did>>
    BY <1>4 DEF RemoveBuffer
  <2>2. k \in 0..Len(content[src]) /\ k \in Nat
    <3>1. Len(content[src]) \in Nat
      BY <1>2
    <3>2. k \in 0..Len(content[src])
      BY <3>1, SmallerIs
    <3> HIDE DEF k
    <3> QED
      BY <3>1, <3>2
  <2> HIDE DEF k
  <2>3. /\ Rest(content[src], k) \in Seq(Byte)
        /\ Len(Rest(content[src], k)) = Len(content[src]) - k
        /\ \A i \in 1..(Len(content[src]) - k) :
             Rest(content[src], k)[i] = content[src][k + i]
    BY <1>2, <2>2, RestIs
  <2>4. /\ moved \in Seq(Byte) /\ Len(moved) = k
        /\ \A i \in 1..k : /\ moved[i].mem = content[src][i].mem
                           /\ moved[i].at = content[src][i].at
                           /\ moved[i].ref => content[src][i].ref
    BY <1>2, <2>2, PrefixIs
  <2> HIDE DEF moved
  <2>5. content[b] \o moved \in Seq(Byte)
    BY <1>2, <2>4, ConcatIs
  <2>6. /\ d \in [Buf -> Seq(Byte)] /\ d[src] = Rest(content[src], k)
        /\ d[b] = content[b] \o moved
        /\ \A x \in Buf \ {b, src} : d[x] = content[x]
    BY <1>1, <1>4, <2>3, <2>5
  <2> HIDE DEF d
  <2>7. /\ Len(d[src]) = Len(content[src]) - k
        /\ \A i \in 1..Len(d[src]) : d[src][i] = content[src][k + i]
    BY <2>3, <2>6
  <2>8. Appends(d, b, src, k, moved)
    BY <2>4, <2>6, <2>7 DEF Appends
  <2>9. Sound(d, refs')
    <3>1. /\ content[b] \in Seq(Byte) /\ Chained(content[b])
          /\ content[src] \in Seq(Byte) /\ Chained(content[src])
      BY <1>2 DEF IInv, Counted, Sound
    <3>2. Chained(moved) /\ Chained(Rest(content[src], k))
      BY <2>2, <3>1, PrefixChains, RestChained DEF moved
    <3>3. Chained(d[b]) /\ Chained(d[src])
      BY <2>4, <2>6, <3>1, <3>2, BothChained
    <3>4. ASSUME NEW m \in Mem
          PROVE  Chains(d[b], m) + Chains(d[src], m) =
                   Chains(content[b], m) + Chains(content[src], m)
      <4> DEFINE u == SubSeq(content[src], 1, k)
                 v == Rest(content[src], k)
      <4>1. /\ u \in Seq(Byte)
            /\ Chains(content[src], m) = Chains(u, m) + Chains(v, m)
        BY <2>2, <3>1, ChainsCut
      <4>2. Chains(moved, m) = Chains(u, m)
        BY <2>2, <3>1, PrefixChains DEF moved
      <4>3. Chains(d[b], m) = Chains(content[b], m) + Chains(moved, m)
        BY <2>4, <2>6, <3>1, ChainsOfBoth
      <4>4. d[src] = v
        BY <2>6
      <4>5. /\ Chains(content[b], m) \in Nat /\ Chains(u, m) \in Nat
            /\ Chains(v, m) \in Nat
        BY <2>3, <3>1, <4>1, LastsAre
      <4> HIDE DEF u, v
      <4> QED
        BY <4>1, <4>2, <4>3, <4>4, <4>5
    <3> QED
      BY <1>4, <2>1, <2>6, <3>3, <3>4, TwoInstalled
  <2> QED
    BY <1>4, <2>1, <2>2, <2>8, <2>9, AppendKeeps
<1> QED
  BY <1>3, <1>4

(* What add_buffer_reference leaves: the bytes of src are in b as well.    *)
LEMMA AddBufferReferenceKeeps ==
  ASSUME IInv, NEW b \in Buf, NEW src \in Buf, AddBufferReference(b, src)
  PROVE  IInv'
<1> DEFINE c == [content EXCEPT ![b] = @ \o content[src]]
           lo == Len(content[b])
           cat == content[b] \o content[src]
           who == [x \in Buf |->
                    [i \in Nat |-> IF x = b /\ i > lo THEN src ELSE x]]
           where == [x \in Buf |->
                      [i \in Nat |-> IF x = b /\ i > lo THEN i - lo ELSE i]]
<1>1. content \in [Buf -> Seq(Byte)] /\ lo \in Nat
  BY DEF IInv, TypeOK
<1>2. \A x \in Buf : content[x] \in Seq(Byte) /\ Len(content[x]) \in Nat
  BY <1>1
<1>3. /\ cat \in Seq(Byte) /\ Len(cat) = lo + Len(content[src])
      /\ \A i \in 1..lo : cat[i] = content[b][i]
      /\ \A i \in 1..Len(content[src]) : cat[lo + i] = content[src][i]
  BY <1>2, ConcatIs
<1>4. Install(c, content[src], <<>>) /\ did' = did \cup {"duplicated"} /\ UNCHANGED <<how, handed>>
  BY DEF AddBufferReference
<1>5. c \in [Buf -> Seq(Byte)] /\ c[b] = cat
  BY <1>1, <1>3
<1>6. \A x \in Buf : x # b => c[x] = content[x]
  BY <1>1
<1>7. /\ who \in [Buf -> [Nat -> Buf]] /\ where \in [Buf -> [Nat -> Nat]]
      /\ \A x \in Buf, i \in Nat :
           /\ who[x][i] = IF x = b /\ i > lo THEN src ELSE x
           /\ where[x][i] = IF x = b /\ i > lo THEN i - lo ELSE i
  BY <1>1
<1>8. lo = Len(content[b])
  OBVIOUS
<1> HIDE DEF c, lo, cat, who, where
<1>9. ASSUME NEW x \in Buf, NEW i \in 1..Len(c[x])
      PROVE  LET old == content[who[x][i]]
                 j == where[x][i]
             IN /\ j \in 1..Len(old)
                /\ c[x][i] = old[j]
  <2>1. i \in Nat /\ i >= 1 /\ Len(c[x]) \in Nat /\ i <= Len(c[x])
    BY <1>5
  <2>2. CASE x # b
    <3>1. who[x][i] = x /\ where[x][i] = i
      BY <1>7, <2>1, <2>2
    <3> QED
      BY <1>6, <2>2, <3>1
  <2>3. CASE x = b /\ i > lo
    <3>1. who[x][i] = src /\ where[x][i] = i - lo
      BY <1>7, <2>1, <2>3
    <3>2. c[x] = cat
      BY <1>5, <2>3
    <3>3. i - lo \in 1..Len(content[src]) /\ i = lo + (i - lo)
      BY <1>1, <1>2, <1>3, <2>1, <2>3, <3>2
    <3>4. cat[lo + (i - lo)] = content[src][i - lo]
      BY <1>3, <3>3
    <3> QED
      BY <3>1, <3>2, <3>3, <3>4
  <2>4. CASE x = b /\ ~(i > lo)
    <3>1. who[x][i] = x /\ where[x][i] = i
      BY <1>7, <2>1, <2>4
    <3>2. i \in 1..lo
      BY <1>1, <2>1, <2>4
    <3>3. c[x][i] = content[b][i]
      BY <1>3, <1>5, <2>4, <3>2
    <3> QED
      BY <1>8, <2>4, <3>1, <3>2, <3>3
  <2> QED
    BY <2>2, <2>3, <2>4
<1>10. Rearranges(c, who, where)
  <2> SUFFICES ASSUME NEW x \in Buf, NEW i \in 1..Len(c[x])
               PROVE  LET old == content[who[x][i]]
                          j == where[x][i]
                      IN /\ j \in 1..Len(old)
                         /\ c[x][i].mem = old[j].mem
                         /\ c[x][i].at = old[j].at
                         /\ c[x][i].ref => old[j].ref
    BY <1>5, <1>7 DEF Rearranges
  <2> QED
    BY <1>9
<1>11. ASSUME NEW x \in Buf, NEW j \in 1..Len(content[x])
       PROVE  Arrives(c, who, where, x, j)
  <2>1. j \in Nat /\ Len(content[x]) \in Nat /\ j >= 1 /\ j <= Len(content[x])
    BY <1>2
  <2>2. who[x][j] = x /\ where[x][j] = j
    <3>1. ~(x = b /\ j > lo)
      BY <1>8, <2>1
    <3> QED
      BY <1>7, <2>1, <3>1
  <2>3. j \in 1..Len(c[x])
    <3>1. CASE x = b
      BY <1>1, <1>2, <1>3, <1>5, <1>8, <2>1, <3>1
    <3>2. CASE x # b
      BY <1>6, <3>2
    <3> QED
      BY <3>1, <3>2
  <2> QED
    BY <2>2, <2>3 DEF Arrives
<1>12. NothingLost(c, who, where) /\ HandsOver(c, who, where)
  BY <1>4, <1>11 DEF NothingLost, HandsOver
<1>13. /\ how' = how /\ did \subseteq did' /\ did' \subseteq Deeds
       /\ "duplicated" \in did'
  BY <1>4 DEF IInv, TypeOK, Deeds
<1>14. Sound(c, refs')
  <2>1. /\ content[b] \in Seq(Byte) /\ Chained(content[b])
        /\ content[src] \in Seq(Byte) /\ Chained(content[src])
        /\ <<>> \in Seq(Byte)
    BY <1>2 DEF IInv, Counted, Sound
  <2>2. cat \in Seq(Byte) /\ Chained(cat)
    BY <1>3, <2>1, BothChained DEF cat
  <2>3. ASSUME NEW m \in Mem
        PROVE  Chains(cat, m) =
                 (Chains(content[b], m) + Chains(content[src], m))
                   - Chains(<<>>, m)
    <3>1. Chains(cat, m) = Chains(content[b], m) + Chains(content[src], m)
      BY <2>1, ChainsOfBoth DEF cat
    <3>2. /\ Chains(content[b], m) \in Nat /\ Chains(content[src], m) \in Nat
          /\ Chains(<<>>, m) = 0
      BY <2>1, LastsAre, NoChains
    <3> QED
      BY <3>1, <3>2
  <2>4. c = [content EXCEPT ![b] = cat]
    BY DEF c, cat
  <2>5. Install([content EXCEPT ![b] = cat], content[src], <<>>)
    BY <1>4, <2>4
  <2> QED
    BY <2>1, <2>2, <2>3, <2>4, <2>5, OneInstalled
<1> QED
  BY <1>4, <1>10, <1>12, <1>13, <1>14, RearrangedKeeps

-----------------------------------------------------------------------------
(* Calls with one buffer.                                                  *)
LEMMA DrainKeeps ==
  ASSUME IInv, NEW b \in Buf, NEW n \in Nat, Drain(b, n)
  PROVE  IInv'
<1> DEFINE k == Smaller(n, Len(content[b]))
<1>1. Len(content[b]) \in Nat
  BY DEF IInv, TypeOK
<1>2. k \in 0..Len(content[b])
  BY <1>1, SmallerIs
<1>3. /\ Install([content EXCEPT ![b] = Rest(content[b], k)],
                 <<>>, SubSeq(content[b], 1, k))
      /\ handed' = handed \cup Ids(SubSeq(content[b], 1, k))
      /\ UNCHANGED <<how, did>>
  BY DEF Drain
<1>4. did' \subseteq Deeds /\ did \subseteq did'
  BY <1>3 DEF IInv, TypeOK
<1> HIDE DEF k
<1> QED
  BY <1>2, <1>3, <1>4, TakenKeeps

LEMMA RemoveKeeps ==
  ASSUME IInv, NEW b \in Buf, NEW n \in Nat, NEW into \in BOOLEAN,
         Remove(b, n, into)
  PROVE  IInv'
<1> DEFINE k == Smaller(n, Len(content[b]))
<1>1. Len(content[b]) \in Nat
  BY DEF IInv, TypeOK
<1>2. k \in 0..Len(content[b]) /\ k <= n
  BY <1>1, SmallerIs
<1>3. /\ Install([content EXCEPT ![b] = Rest(content[b], k)],
                 <<>>, SubSeq(content[b], 1, k))
      /\ handed' = IF k = n \/ into
                   THEN handed \cup Ids(SubSeq(content[b], 1, k)) ELSE handed
      /\ did' = did \cup {d \in {"short"} : k < n /\ ~into}
      /\ UNCHANGED how
  BY DEF Remove
<1>4. did' \subseteq Deeds /\ did \subseteq did'
  BY <1>3 DEF IInv, TypeOK, Deeds
<1> HIDE DEF k
<1>5. CASE k = n \/ into
  <2>1. handed' = handed \cup Ids(SubSeq(content[b], 1, k))
    BY <1>3, <1>5
  <2> QED
    BY <1>2, <1>3, <1>4, <2>1, TakenKeeps
<1>6. CASE ~(k = n \/ into)
  <2>1. k < n /\ ~into
    BY <1>1, <1>2, <1>6
  <2>2. handed' = handed /\ "short" \in did'
    BY <1>3, <1>6, <2>1
  <2> QED
    BY <1>2, <1>3, <1>4, <2>2, TakenKeeps
<1> QED
  BY <1>5, <1>6

LEMMA FreeKeeps ==
  ASSUME IInv, NEW b \in Buf, Free(b)
  PROVE  IInv'
<1> DEFINE k == Len(content[b])
<1>1. content[b] \in Seq(Byte) /\ k \in Nat /\ k \in 0..Len(content[b])
  BY DEF IInv, TypeOK
<1>2. /\ Install([content EXCEPT ![b] = <<>>], <<>>, content[b])
      /\ handed' = handed \cup Ids(content[b])
      /\ UNCHANGED <<how, did>>
  BY DEF Free
<1>3. Rest(content[b], k) = <<>>
  <2>1. /\ Rest(content[b], k) \in Seq(Byte)
        /\ Len(Rest(content[b], k)) = Len(content[b]) - k
    BY <1>1, RestIs
  <2>2. Len(Rest(content[b], k)) = 0
    BY <1>1, <2>1
  <2> QED
    BY <2>1, <2>2, EmptySeq
<1>4. SubSeq(content[b], 1, k) = content[b]
  <2>1. /\ SubSeq(content[b], 1, k) \in Seq(Byte)
        /\ Len(SubSeq(content[b], 1, k)) = k
        /\ \A i \in 1..k : SubSeq(content[b], 1, k)[i] = content[b][i]
    BY <1>1
  <2> QED
    BY <1>1, <2>1, SeqEqual
<1>5. /\ Install([content EXCEPT ![b] = Rest(content[b], k)],
                 <<>>, SubSeq(content[b], 1, k))
      /\ handed' = handed \cup Ids(SubSeq(content[b], 1, k))
  BY <1>2, <1>3, <1>4
<1>6. did' \subseteq Deeds /\ did \subseteq did'
  BY <1>2 DEF IInv, TypeOK
<1> HIDE DEF k
<1> QED
  BY <1>1, <1>2, <1>5, <1>6, TakenKeeps

LEMMA PullupKeeps ==
  ASSUME IInv, NEW b \in Buf, NEW n \in Nat, Pullup(b, n)
  PROVE  IInv'
<1> DEFINE s == content[b]
           copy(i) == [s[i] EXCEPT !.ref = FALSE]
           t == [i \in DOMAIN s |-> IF i <= n THEN copy(i) ELSE s[i]]
           c == [content EXCEPT ![b] = t]
<1>1. /\ content \in [Buf -> Seq(Byte)] /\ s \in Seq(Byte)
      /\ Len(s) \in Nat /\ DOMAIN s = 1..Len(s)
  BY DEF IInv, TypeOK
<1>2. Install(c, <<>>, SubSeq(s, 1, n)) /\ UNCHANGED <<how, handed, did>>
  BY DEF Pullup
<1>3. ASSUME NEW i \in 1..Len(s)
      PROVE  /\ s[i] \in Byte /\ copy(i) \in Byte
             /\ copy(i).mem = s[i].mem /\ copy(i).at = s[i].at /\ ~copy(i).ref
  <2>1. s[i] \in Byte
    BY <1>1
  <2> QED
    BY <2>1 DEF Byte
<1>4. \A i \in 1..Len(s) : t[i] = IF i <= n THEN copy(i) ELSE s[i]
  BY <1>1
<1>5. t \in Seq(Byte) /\ Len(t) = Len(s)
  <2>1. t \in [1..Len(s) -> Byte]
    BY <1>1, <1>3
  <2> QED
    BY <1>1, <2>1
<1>6. \A i \in 1..Len(s) : /\ t[i].mem = s[i].mem /\ t[i].at = s[i].at
                           /\ t[i].ref => s[i].ref
  BY <1>3, <1>4
<1> HIDE DEF t
<1>7. /\ c \in [Buf -> Seq(Byte)] /\ c[b] = t
      /\ \A x \in Buf : x # b => c[x] = content[x]
  BY <1>1, <1>5
<1> HIDE DEF c
<1>8. ASSUME NEW x \in Buf
      PROVE  /\ Len(c[x]) = Len(content[x])
             /\ \A i \in 1..Len(c[x]) : /\ c[x][i].mem = content[x][i].mem
                                        /\ c[x][i].at = content[x][i].at
                                        /\ c[x][i].ref => content[x][i].ref
  <2>1. CASE x = b
    BY <1>5, <1>6, <1>7, <2>1
  <2>2. CASE x # b
    BY <1>7, <2>2
  <2> QED
    BY <2>1, <2>2
<1>9. Sound(c, refs')
  <2> DEFINE u == SubSeq(s, 1, n)
  <2>1. n \in 0..Len(s) /\ Chained(s) /\ <<>> \in Seq(Byte)
    BY <1>1 DEF Pullup, IInv, Counted, Sound
  <2>2. /\ \A i \in 1..n : ~t[i].ref
        /\ \A i \in (n + 1)..Len(s) : t[i] = s[i]
    <3>1. \A i \in 1..n : i \in 1..Len(s) /\ i <= n
      BY <1>1, <2>1
    <3>2. \A i \in (n + 1)..Len(s) : i \in 1..Len(s) /\ ~(i <= n)
      BY <1>1, <2>1
    <3> QED
      BY <1>3, <1>4, <3>1, <3>2
  <2>3. /\ Chained(t)
        /\ \A m \in Mem : Chains(t, m) = Chains(s, m) - Chains(u, m)
    BY <1>1, <1>5, <2>1, <2>2, CopiedChains
  <2>4. u \in Seq(Byte)
    BY <1>1, <2>1, ChainsCut
  <2>5. ASSUME NEW m \in Mem
        PROVE  Chains(t, m) =
                 (Chains(content[b], m) + Chains(<<>>, m)) - Chains(u, m)
    <3>1. /\ Chains(s, m) \in Nat /\ Chains(u, m) \in Nat
          /\ Chains(<<>>, m) = 0
      BY <1>1, <2>4, LastsAre, NoChains
    <3>2. Chains(t, m) = Chains(s, m) - Chains(u, m)
      BY <2>3
    <3> HIDE DEF u
    <3> QED
      BY <3>1, <3>2
  <2>6. Install([content EXCEPT ![b] = t], <<>>, u)
    BY <1>2 DEF c
  <2> HIDE DEF u
  <2>7. Sound([content EXCEPT ![b] = t], refs')
    BY <1>5, <2>1, <2>3, <2>4, <2>5, <2>6, OneInstalled
  <2> QED
    BY <2>7 DEF c
<1> QED
  BY <1>2, <1>7, <1>8, <1>9, InPlaceKeeps

-----------------------------------------------------------------------------
LEMMA InitHolds ==
  ASSUME Init
  PROVE  IInv
<1>1. /\ content = [b \in Buf |-> <<>>] /\ how = [m \in Mem |-> "unused"]
      /\ refs = [m \in Mem |-> 0]
      /\ valid = {} /\ handed = {} /\ fault = FALSE /\ did = {}
  BY DEF Init
<1>2. \A b \in Buf : content[b] = <<>>
  BY <1>1
<1>3. <<>> \in Seq(Byte) /\ Len(<<>>) = 0 /\ DOMAIN <<>> = {} /\ 1..0 = {}
  OBVIOUS
<1>4. TypeOK
  BY <1>1, <1>3 DEF TypeOK, Deeds
<1>5. Referenced(content) = {}
  BY <1>2, <1>3 DEF Referenced
<1>6. Lives /\ NothingLeaks
  BY <1>1, <1>5 DEF Lives, NothingLeaks
<1>7. \A b \in Buf : 1..Len(content[b]) = {}
  BY <1>2, <1>3
<1>8. Known /\ InOnePlace
  BY <1>1, <1>7 DEF Known, InOnePlace
<1>9. Present
  BY <1>1 DEF Present
<1>10. Counted
  <2>1. ASSUME NEW m \in Mem PROVE AllLasts(content, m) = {}
    <3>1. \A b \in Buf : Lasts(content[b], m) = {}
      BY <1>2, <1>3 DEF Lasts
    <3> QED
      BY <3>1 DEF AllLasts
  <2>2. \A m \in Mem : /\ IsFiniteSet(AllLasts(content, m))
                      /\ Cardinality(AllLasts(content, m)) = 0
    BY <2>1, FS_EmptySet
  <2>3. \A b \in Buf : Chained(content[b])
    BY <1>7 DEF Chained
  <2> QED
    BY <1>1, <2>2, <2>3 DEF Counted, Sound
<1> QED
  BY <1>4, <1>6, <1>8, <1>9, <1>10 DEF IInv

LEMMA NextKeeps ==
  ASSUME IInv, [Next]_vars
  PROVE  IInv'
<1>1. \A b \in Buf : Len(content[b]) \in Nat
  BY DEF IInv, TypeOK
<1>2. ASSUME NEW b \in Buf, NEW m \in Mem,
             \/ Add(b, m) \/ Prepend(b, m)
             \/ \E kind \in {"string"} \cup Cleaned : AddReference(b, m, kind)
      PROVE  IInv'
  BY <1>2, AddKeeps, AddReferenceKeeps
<1>3. ASSUME NEW m \in Mem, DropString(m)
      PROVE  IInv'
  BY <1>3, DropStringKeeps
<1>4. ASSUME NEW b \in Buf, NEW src \in Buf,
             \/ AddBuffer(b, src) \/ PrependBuffer(b, src)
             \/ AddBufferReference(b, src)
             \/ \E n \in 1..(Len(content[src]) + 1) : RemoveBuffer(b, src, n)
      PROVE  IInv'
  <2>1. 1..(Len(content[src]) + 1) \subseteq Nat
    BY <1>1
  <2> QED
    BY <1>4, <2>1, AddBufferKeeps, PrependBufferKeeps, AddBufferReferenceKeeps,
       RemoveBufferKeeps
<1>5. ASSUME NEW b \in Buf, Free(b)
      PROVE  IInv'
  BY <1>5, FreeKeeps
<1>6. ASSUME NEW b \in Buf, NEW n \in 1..(Len(content[b]) + 1),
             \/ Drain(b, n) \/ Pullup(b, n)
             \/ \E into \in BOOLEAN : Remove(b, n, into)
      PROVE  IInv'
  <2>1. n \in Nat
    BY <1>1
  <2> QED
    BY <1>6, <2>1, DrainKeeps, PullupKeeps, RemoveKeeps
<1>7. CASE UNCHANGED vars
  <2>1. Counted'
    BY <1>7, CountedNext DEF vars, IInv, Counted
  <2> QED
    BY <1>7, <2>1 DEF vars, IInv, TypeOK, Lives, NothingLeaks, Known, Present,
                      InOnePlace, Referenced
<1>8. ASSUME NEW b \in Buf, NEW m \in Mem, NEW kind \in {"string"} \cup Cleaned,
             ReferenceRefused(b, m, kind)
      PROVE  IInv'
  BY <1>7, <1>8 DEF ReferenceRefused
<1> QED
  BY <1>2, <1>3, <1>4, <1>5, <1>6, <1>7, <1>8 DEF Next

(* The invariant above holds in every state.                               *)
THEOREM Invariance == Spec => []IInv
<1>1. Init => IInv
  BY InitHolds
<1>2. IInv /\ [Next]_vars => IInv'
  BY NextKeeps
<1> QED
  BY <1>1, <1>2, PTL DEF Spec

(* DataLives: no buffer refers to memory that does not exist any more,     *)
(* unless the caller of add_reference(const string&) destroyed the string. *)
THEOREM ReferencedDataLives == Spec => []DataLives
<1>1. IInv => DataLives
  BY DEF IInv, Lives, DataLives
<1> QED
  BY <1>1, Invariance, PTL

(* NothingLeaks: what add_reference allocates is deleted when the last     *)
(* buffer lets go of it, unless a cleanup function throws: the count that  *)
(* the cleanup functions are called from is zero just when no buffer has a *)
(* byte of the block, however its chain was cut and shared.                *)
THEOREM ReferencedDataIsReleased == Spec => []NothingLeaks
<1>1. IInv => NothingLeaks
  BY DEF IInv
<1> QED
  BY <1>1, Invariance, PTL

LEMMA SpotsAre ==
  ASSUME TypeOK, NEW p
  PROVE  p \in Spots <=>
           \E b \in Buf : \E i \in 1..Len(content[b]) : p = <<b, i>>
<1>1. \A b \in Buf : DOMAIN content[b] = 1..Len(content[b])
  BY DEF TypeOK
<1> QED
  BY <1>1 DEF Spots

LEMMA PlacesAre ==
  ASSUME IInv, NEW x
  PROVE  /\ \A p \in Places(x) :
              \E b \in Buf : \E i \in 1..Len(content[b]) :
                p = <<b, i>> /\ Id(content[b][i]) = x
         /\ \A b \in Buf : \A i \in 1..Len(content[b]) :
              Id(content[b][i]) = x => <<b, i>> \in Places(x)
<1>1. TypeOK
  BY DEF IInv
<1>2. ASSUME NEW p \in Places(x)
      PROVE  \E b \in Buf : \E i \in 1..Len(content[b]) :
               p = <<b, i>> /\ Id(content[b][i]) = x
  <2>1. p \in Spots /\ Id(content[p[1]][p[2]]) = x
    BY DEF Places, Id
  <2>2. PICK b \in Buf : \E i \in 1..Len(content[b]) : p = <<b, i>>
    BY <1>1, <2>1, SpotsAre
  <2>3. PICK i \in 1..Len(content[b]) : p = <<b, i>>
    BY <2>2
  <2> QED
    BY <2>1, <2>3
<1>3. ASSUME NEW b \in Buf, NEW i \in 1..Len(content[b]),
             Id(content[b][i]) = x
      PROVE  <<b, i>> \in Places(x)
  <2>1. <<b, i>> \in Spots
    BY <1>1, SpotsAre
  <2> QED
    BY <1>3, <2>1 DEF Places, Id
<1> QED
  BY <1>2, <1>3

(* BytesConserved: calls neither lose bytes nor duplicate them, whatever   *)
(* they split, move, copy and hand over.                                   *)
THEOREM BytesAreConserved == Spec => []BytesConserved
<1>1. ASSUME IInv
      PROVE  BytesConserved
  <2> SUFFICES ASSUME NEW m \in Mem, NEW k \in 1..Size, how[m] # "unused"
               PROVE  /\ \/ Places(<<m, k>>) # {} \/ <<m, k>> \in handed
                         \/ "short" \in did
                      /\ \/ "duplicated" \in did
                         \/ Cardinality(Places(<<m, k>>))
                              + (IF <<m, k>> \in handed THEN 1 ELSE 0) <= 1
    BY DEF BytesConserved
  <2> DEFINE x == <<m, k>>
  <2>1. /\ \A p \in Places(x) :
             \E b \in Buf : \E i \in 1..Len(content[b]) :
               p = <<b, i>> /\ Id(content[b][i]) = x
        /\ \A b \in Buf : \A i \in 1..Len(content[b]) :
             Id(content[b][i]) = x => <<b, i>> \in Places(x)
    BY <1>1, PlacesAre
  <2>2. Places(x) # {} \/ x \in handed \/ "short" \in did
    <3>1. \/ \E b \in Buf : \E i \in 1..Len(content[b]) :
               content[b][i].mem = m /\ content[b][i].at = k
          \/ x \in handed \/ "short" \in did
      BY <1>1 DEF IInv, Present
    <3> QED
      BY <2>1, <3>1 DEF Id
  <2>3. ASSUME "duplicated" \notin did
        PROVE  Cardinality(Places(x)) + (IF x \in handed THEN 1 ELSE 0) <= 1
    <3>1. \A b \in Buf : \A i \in 1..Len(content[b]) :
            /\ Id(content[b][i]) \notin handed
            /\ \A d \in Buf : \A j \in 1..Len(content[d]) :
                 Id(content[d][j]) = Id(content[b][i]) => d = b /\ j = i
      BY <1>1, <2>3 DEF IInv, InOnePlace
    <3>2. CASE Places(x) = {}
      <4>1. Cardinality(Places(x)) = 0
        BY <3>2, FS_EmptySet
      <4> QED
        BY <4>1
    <3>3. CASE Places(x) # {}
      <4>1. PICK p \in Places(x) : TRUE
        BY <3>3
      <4>2. x \notin handed
        BY <2>1, <3>1, <4>1
      <4>3. \A q \in Places(x) : q = p
        <5> SUFFICES ASSUME NEW q \in Places(x) PROVE q = p
          OBVIOUS
        <5>1. PICK b \in Buf : \E i \in 1..Len(content[b]) :
                p = <<b, i>> /\ Id(content[b][i]) = x
          BY <2>1, <4>1
        <5>2. PICK i \in 1..Len(content[b]) :
                p = <<b, i>> /\ Id(content[b][i]) = x
          BY <5>1
        <5>3. PICK d \in Buf : \E j \in 1..Len(content[d]) :
                q = <<d, j>> /\ Id(content[d][j]) = x
          BY <2>1
        <5>4. PICK j \in 1..Len(content[d]) :
                q = <<d, j>> /\ Id(content[d][j]) = x
          BY <5>3
        <5>5. d = b /\ j = i
          BY <3>1, <5>2, <5>4
        <5> QED
          BY <5>2, <5>4, <5>5
      <4>4. Places(x) = {p}
        BY <4>1, <4>3
      <4>5. Cardinality(Places(x)) = 1
        BY <4>4, FS_Singleton
      <4> QED
        BY <4>2, <4>5
    <3> QED
      BY <3>2, <3>3
  <2> QED
    BY <2>2, <2>3
<1> QED
  BY <1>1, Invariance, PTL
=============================================================================
