------------------------ MODULE BoundedReaderProofs ------------------------
(* Theorems about BoundedReader, for every bound and width of size_t.      *)
EXTENDS BoundedReader, TLAPS

(* Before it has taken something, all of the bound remains. What remains   *)
(* after that (it may have wrapped) does not matter.                       *)
AllRemains == taken = 0 /\ left = Bound

IInv ==
  /\ length \in Nat /\ taken \in Nat
  /\ AllRemains \/ taken >= Bound \/ "short" \in did

(* consume lets a call pass that asks for all that remains, or more; what  *)
(* such a call takes is all of the bound unless the buffer has too little. *)
LEMMA TakesAll ==
  ASSUME IInv, NEW n \in Nat, NEW k \in Nat, k >= n, Consume(n), Takes(k),
         length < k => "short" \in did', did \subseteq did'
  PROVE  IInv'
<1>1. Smaller(k, length) \in Nat /\ length - Smaller(k, length) \in Nat
  BY DEF IInv, Smaller
<1>2. length' \in Nat /\ taken' \in Nat
  BY <1>1 DEF IInv, Takes
<1>3. taken' >= taken
  BY <1>1 DEF IInv, Takes
<1>4. CASE length >= k /\ AllRemains
  BY <1>2, <1>4, BoundedReaderAssumption
     DEF IInv, AllRemains, Takes, Smaller, Consume
<1>5. CASE length < k
  BY <1>2, <1>5 DEF IInv
<1>6. CASE taken >= Bound \/ "short" \in did
  BY <1>2, <1>3, <1>6, BoundedReaderAssumption DEF IInv
<1> QED
  BY <1>4, <1>5, <1>6 DEF IInv

(* Every step keeps the invariant.                                        *)
LEMMA NextKeeps ==
  ASSUME IInv, [Next]_vars
  PROVE  IInv'
<1>1. CASE UNCHANGED vars
  BY <1>1 DEF IInv, AllRemains, vars
<1>2. ASSUME NEW n \in 1..MaxLen, Arrive(n) \/ OthersRead(n)
      PROVE  IInv'
  BY <1>2, BoundedReaderAssumption DEF IInv, AllRemains, Arrive, OthersRead
<1>3. ASSUME NEW n \in Sizes, Refuse(n)
      PROVE  IInv'
  BY <1>3 DEF IInv, AllRemains, Refuse
<1>4. ASSUME NEW n \in Sizes, Skip(n) \/ Read(n)
      PROVE  IInv'
  <2>1. n \in Nat /\ n >= n
    BY BoundedReaderAssumption DEF Sizes
  <2>2. (length < n => "short" \in did') /\ did \subseteq did'
    BY <1>4 DEF Skip, Read
  <2>3. Consume(n) /\ Takes(n)
    BY <1>4 DEF Skip, Read
  <2> QED
    BY <2>1, <2>2, <2>3, TakesAll
<1>5. ASSUME NEW n \in {1, 2}, Get(n)
      PROVE  IInv'
  <2>1. 2 * n \in Nat /\ 2 * n >= n
    OBVIOUS
  <2>2. (length < 2 * n => "short" \in did') /\ did \subseteq did'
    BY <1>5 DEF Get
  <2>3. Consume(n) /\ Takes(2 * n)
    BY <1>5 DEF Get
  <2> QED
    BY <2>1, <2>2, <2>3, TakesAll
<1> QED
  BY <1>1, <1>2, <1>3, <1>4, <1>5 DEF Next

(* A reader that found what it asked for took nothing, or all of its bound *)
(* (or more) at once: it cannot be read in pieces.                         *)
THEOREM BoundIsTakenAtOnce == Spec => []NothingInPieces
<1>1. Init => IInv
  BY BoundedReaderAssumption DEF Init, IInv, AllRemains
<1>2. IInv /\ [Next]_vars => IInv'
  BY NextKeeps
<1>3. IInv => NothingInPieces
  BY DEF IInv, AllRemains, NothingInPieces
<1> QED
  BY <1>1, <1>2, <1>3, PTL DEF Spec

-----------------------------------------------------------------------------
(* Arithmetic of a size_t. A quotient and a remainder are unique, ...      *)
LEMMA RemainderUnique ==
  ASSUME NEW m \in Nat, m > 0, NEW q \in Int, NEW r \in Int,
         NEW s \in 0..(m - 1), NEW t \in 0..(m - 1),
         (m * q) + s = (m * r) + t
  PROVE  s = t
<1>1. m * (q - r) = t - s
  OBVIOUS
<1>2. -m < m * (q - r) /\ m * (q - r) < m
  BY <1>1
<1>3. q - r = 0
  BY <1>2
<1> QED
  BY <1>3

(* ... so that adding the modulus changes nothing.                         *)
LEMMA Wraps ==
  ASSUME NEW m \in Nat, m > 0, NEW x \in Int
  PROVE  (x + m) % m = x % m
<1> DEFINE q == x \div m
           r == (x + m) \div m
           s == x % m
           t == (x + m) % m
<1>1. s \in 0..(m - 1) /\ t \in 0..(m - 1)
  OBVIOUS
<1>2. q \in Int /\ r \in Int /\ x = (m * q) + s /\ x + m = (m * r) + t
  OBVIOUS
<1>3. (m * (q + 1)) + s = (m * r) + t /\ q + 1 \in Int
  BY <1>1, <1>2
<1> HIDE DEF q, r, s, t
<1>4. s = t
  BY <1>1, <1>2, <1>3, RemainderUnique
<1> QED
  BY <1>4 DEF s, t

(* A call for all that remains leaves nothing; one for more leaves what it *)
(* lacks to the whole range of a size_t.                                   *)
LEMMA ConsumeLeaves ==
  ASSUME TypeOK, NEW n \in Sizes, Consume(n)
  PROVE  left' \in Sizes /\ (left' = left - n \/ left' = (left - n) + SizeT)
<1>1. left \in 0..(SizeT - 1) /\ n \in 0..(SizeT - 1) /\ n >= left
      /\ SizeT \in Nat /\ SizeT > 2 /\ left' = (left - n) % SizeT
  BY BoundedReaderAssumption DEF TypeOK, Sizes, Consume
<1>2. CASE n = left
  <2>1. left - n = 0 /\ 0 % SizeT = 0
    BY <1>1, <1>2
  <2> QED
    BY <1>1, <2>1 DEF Sizes
<1>3. CASE n > left
  <2>1. (left - n) % SizeT = (left - n) + SizeT
    BY <1>1, <1>3
  <2> QED
    BY <1>1, <1>3, <2>1 DEF Sizes
<1> QED
  BY <1>1, <1>2, <1>3

(* Values keep their types.                                                *)
LEMMA TypeKept ==
  ASSUME TypeOK, [Next]_vars
  PROVE  TypeOK'
<1> USE BoundedReaderAssumption
<1> DEFINE Calls == [asked : Sizes, left : Sizes, length : 0..MaxLen,
                     threw : BOOLEAN]
<1>1. ASSUME NEW n \in Sizes, NEW k \in Nat, Consume(n), Takes(k),
             call' \in Calls, did' \subseteq {"short", "get"}
      PROVE  TypeOK'
  <2>1. Smaller(k, length) \in 0..length
    BY DEF Smaller, TypeOK
  <2>2. length' \in 0..MaxLen /\ taken' \in 0..MaxTaken
    BY <1>1, <2>1 DEF TypeOK, Takes
  <2>3. left' \in Sizes
    BY <1>1, ConsumeLeaves
  <2> QED
    BY <1>1, <2>2, <2>3 DEF TypeOK
<1>2. ASSUME NEW n \in Sizes, Skip(n) \/ Read(n)
      PROVE  TypeOK'
  <2>1. Consume(n) /\ Takes(n)
        /\ did' = did \cup {d \in {"short"} : length < n}
    BY <1>2 DEF Skip, Read
  <2>2. n \in Nat
    BY DEF Sizes
  <2>3. did' \subseteq {"short", "get"}
    BY <2>1 DEF TypeOK
  <2>4. call' \in Calls
    <3>1. CASE Skip(n)
      BY <3>1 DEF Skip, Called, TypeOK
    <3>2. CASE Read(n)
      BY <3>2 DEF Read, Called, TypeOK
    <3> QED
      BY <1>2, <3>1, <3>2
  <2> QED
    BY <1>1, <2>1, <2>2, <2>3, <2>4
<1>3. ASSUME NEW n \in {1, 2}, Get(n)
      PROVE  TypeOK'
  <2>1. n \in Sizes /\ 2 * n \in Nat
    BY DEF Sizes
  <2>2. Consume(n) /\ Takes(2 * n)
    BY <1>3 DEF Get
  <2>3. call' \in Calls
    BY <1>3, <2>1 DEF Get, Called, TypeOK
  <2>4. did' \subseteq {"short", "get"}
    BY <1>3 DEF Get, TypeOK
  <2> QED
    BY <1>1, <2>1, <2>2, <2>3, <2>4
<1>4. ASSUME NEW n \in Sizes, Refuse(n)
      PROVE  TypeOK'
  BY <1>4 DEF Refuse, Called, TypeOK
<1>5. ASSUME NEW n \in 1..MaxLen, Arrive(n) \/ OthersRead(n)
      PROVE  TypeOK'
  <2>1. length' \in 0..MaxLen
    BY <1>5 DEF Arrive, OthersRead, TypeOK
  <2>2. UNCHANGED <<left, taken, call, did>>
    BY <1>5 DEF Arrive, OthersRead
  <2> QED
    BY <2>1, <2>2 DEF TypeOK
<1>6. CASE UNCHANGED vars
  BY <1>6 DEF vars, TypeOK
<1> QED
  BY <1>2, <1>3, <1>4, <1>5, <1>6 DEF Next

(* As long as nothing was missing and get was not used, a call that counts *)
(* down n also takes n.                                                    *)
LEMMA AccountsKept ==
  ASSUME Accounts, [Next]_vars
  PROVE  Accounts'
<1> USE BoundedReaderAssumption
<1>1. TypeOK'
  BY TypeKept DEF Accounts
<1>2. ASSUME NEW n \in Sizes, Skip(n) \/ Read(n), did' = {}
      PROVE  (taken' + left') % SizeT = Bound % SizeT
  <2>1. did' = did \cup {d \in {"short"} : length < n} /\ Takes(n)
    BY <1>2 DEF Skip, Read
  <2>2. did = {} /\ ~(length < n)
    BY <1>2, <2>1
  <2>3. n \in Nat /\ length \in Nat /\ taken \in Nat /\ left \in Nat
    BY DEF Sizes, Accounts, TypeOK
  <2>4. Smaller(n, length) = n
    BY <2>2, <2>3 DEF Smaller
  <2>5. taken' = taken + n
    BY <2>1, <2>4 DEF Takes
  <2>6. left' = left - n \/ left' = (left - n) + SizeT
    BY <1>2, ConsumeLeaves DEF Skip, Read, Accounts
  <2>7. \/ taken' + left' = taken + left
        \/ taken' + left' = (taken + left) + SizeT
    BY <2>3, <2>5, <2>6
  <2>8. ((taken + left) + SizeT) % SizeT = (taken + left) % SizeT
    <3>1. SizeT \in Nat /\ SizeT > 0 /\ taken + left \in Int
      BY <2>3
    <3> QED
      BY <3>1, Wraps
  <2> QED
    BY <2>2, <2>7, <2>8 DEF Accounts
<1>3. ASSUME NEW n \in {1, 2}, Get(n)
      PROVE  did' # {}
  BY <1>3 DEF Get
<1>4. ASSUME \/ \E n \in Sizes : Refuse(n)
             \/ \E n \in 1..MaxLen : Arrive(n) \/ OthersRead(n)
             \/ UNCHANGED vars
      PROVE  UNCHANGED <<taken, left, did>>
  BY <1>4 DEF Refuse, Arrive, OthersRead, vars
<1> QED
  BY <1>1, <1>2, <1>3, <1>4 DEF Next, Accounts

(* What the reader took and what it says remains add up to its bound       *)
(* modulo 2^64, also after a call for more than remains, unless get was    *)
(* used or bytes were missing.                                             *)
THEOREM BytesAccounted == Spec => []Accounts
<1>1. Init => Accounts
  BY BoundedReaderAssumption DEF Init, Accounts, TypeOK, Sizes
<1>2. Accounts /\ [Next]_vars => Accounts'
  BY AccountsKept
<1> QED
  BY <1>1, <1>2, PTL DEF Spec
=============================================================================
