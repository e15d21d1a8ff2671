-------------------------- MODULE UrlParamsProofs --------------------------
(***************************************************************************)
(* Theorems about UrlParams, for values and forms of any length.           *)
(*                                                                         *)
(* The functions of UrlParams recur over sequences, so there are two       *)
(* things to show of each: that a function exists that its definition      *)
(* describes (Recursion), and what it computes, by induction. Both come    *)
(* down to one fact, stated of sets and functions: a set of numbers that   *)
(* has no least element is empty (NoDescent).                              *)
(***************************************************************************)
EXTENDS UrlParams, SequenceTheorems, WellFoundedInduction, TLAPS

LEMMA NoDescent ==
  ASSUME NEW T, T \subseteq Nat, \A n \in T : \E m \in T : m < n
  PROVE  T = {}
<1> DEFINE R == {pair \in Nat \X Nat : pair[1] < pair[2]}
<1>1. IsWellFoundedOn(R, Nat)
  BY NatLessThanWellFounded DEF OpToRel
<1>2. \A m \in T : \A n \in T : m < n => <<m, n>> \in R
  OBVIOUS
<1> HIDE DEF R
<1>3. ASSUME T # {} PROVE FALSE
  <2>1. \E n \in T : \A m \in T : ~(<<m, n>> \in R)
    BY <1>1, <1>3, WFMin
  <2> QED
    BY <2>1, <1>2
<1> QED
  BY <1>3

-----------------------------------------------------------------------------
(* Recursive definitions. def is what a definition makes of a function; it *)
(* needs the function only for arguments of smaller size.                  *)
Contracts(S, T, size, def) ==
  /\ size \in [S -> Nat]
  /\ def \in [[S -> T] -> [S -> T]]
  /\ \A f, g \in [S -> T] : \A x \in S :
       (\A y \in S : size[y] < size[x] => f[y] = g[y])
       => def[f][x] = def[g][x]

(* f is as defined for arguments smaller than n.                           *)
DefinedBelow(S, T, size, def, n, f) ==
  /\ f \in [S -> T]
  /\ \A x \in S : size[x] < n => f[x] = def[f][x]

LEMMA Agree ==
  ASSUME NEW S, NEW T, NEW size, NEW def, Contracts(S, T, size, def),
         NEW m \in Nat, NEW n \in Nat, NEW f, NEW g,
         DefinedBelow(S, T, size, def, m, f),
         DefinedBelow(S, T, size, def, n, g),
         NEW x \in S, size[x] < m, size[x] < n
  PROVE  f[x] = g[x]
<1> DEFINE Differ == {k \in Nat : k < m /\ k < n
                        /\ \E y \in S : size[y] = k /\ f[y] # g[y]}
<1>1. ASSUME NEW k \in Differ PROVE \E l \in Differ : l < k
  <2>1. PICK y \in S : size[y] = k /\ f[y] # g[y]
    OBVIOUS
  <2>2. f[y] = def[f][y] /\ g[y] = def[g][y]
    BY <2>1 DEF DefinedBelow
  <2>3. f \in [S -> T] /\ g \in [S -> T] /\ size \in [S -> Nat]
    BY DEF DefinedBelow, Contracts
  <2>4. PICK z \in S : size[z] < size[y] /\ f[z] # g[z]
    BY <2>1, <2>2, <2>3 DEF Contracts
  <2>5. size[z] \in Nat /\ size[y] \in Nat
    BY <2>3
  <2>6. size[z] \in Differ
    BY <2>1, <2>4, <2>5
  <2> QED
    BY <2>1, <2>4, <2>6
<1>2. Differ \subseteq Nat
  OBVIOUS
<1>3. size[x] \in Nat
  BY DEF Contracts
<1> HIDE DEF Differ
<1>4. Differ = {}
  BY <1>1, <1>2, NoDescent
<1> QED
  BY <1>3, <1>4 DEF Differ

LEMMA Approximate ==
  ASSUME NEW S, NEW T, NEW t \in T, NEW size, NEW def,
         Contracts(S, T, size, def), NEW n \in Nat
  PROVE  \E f : DefinedBelow(S, T, size, def, n, f)
<1> DEFINE Without ==
             {k \in Nat : ~\E f : DefinedBelow(S, T, size, def, k, f)}
<1>1. ASSUME NEW k \in Without PROVE \E l \in Without : l < k
  <2>1. ASSUME k = 0 PROVE FALSE
    <3>1. DefinedBelow(S, T, size, def, 0, [x \in S |-> t])
      BY DEF DefinedBelow, Contracts
    <3> QED
      BY <2>1, <3>1
  <2>2. k - 1 \in Nat /\ k - 1 < k
    BY <2>1
  <2>3. ASSUME NEW f, DefinedBelow(S, T, size, def, k - 1, f) PROVE FALSE
    <3> DEFINE g == def[f]
    <3>1. f \in [S -> T] /\ g \in [S -> T] /\ size \in [S -> Nat]
      BY <2>3 DEF DefinedBelow, Contracts
    <3>2. ASSUME NEW x \in S, size[x] < k PROVE g[x] = def[g][x]
      <4>1. ASSUME NEW y \in S, size[y] < size[x] PROVE f[y] = g[y]
        <5>1. size[y] < k - 1
          BY <3>1, <3>2, <4>1
        <5> QED
          BY <5>1, <2>3 DEF DefinedBelow
      <4> HIDE DEF g
      <4>2. def[f][x] = def[g][x]
        BY <4>1, <3>1 DEF Contracts
      <4> QED
        BY <4>2 DEF g
    <3> HIDE DEF g
    <3>3. DefinedBelow(S, T, size, def, k, g)
      BY <3>1, <3>2 DEF DefinedBelow
    <3> QED
      BY <3>3
  <2> QED
    BY <2>2, <2>3
<1>2. Without \subseteq Nat
  OBVIOUS
<1> HIDE DEF Without
<1>3. Without = {}
  BY <1>1, <1>2, NoDescent
<1> QED
  BY <1>3 DEF Without

LEMMA Recursion ==
  ASSUME NEW S, NEW T, T # {}, NEW size, NEW def,
         Contracts(S, T, size, def)
  PROVE  \E f \in [S -> T] : f = def[f]
<1>1. PICK t \in T : TRUE
  OBVIOUS
<1> DEFINE Below(n) == CHOOSE f : DefinedBelow(S, T, size, def, n, f)
           f == [x \in S |-> Below(size[x] + 1)[x]]
<1>2. ASSUME NEW n \in Nat
      PROVE  DefinedBelow(S, T, size, def, n, Below(n))
  BY Approximate
<1>3. size \in [S -> Nat]
  BY DEF Contracts
<1>4. ASSUME NEW n \in Nat, NEW x \in S, size[x] < n
      PROVE  f[x] = Below(n)[x]
  <2>1. f[x] = Below(size[x] + 1)[x]
    OBVIOUS
  <2>2. size[x] \in Nat /\ size[x] + 1 \in Nat /\ size[x] < size[x] + 1
    BY <1>3
  <2>3. /\ DefinedBelow(S, T, size, def, size[x] + 1, Below(size[x] + 1))
        /\ DefinedBelow(S, T, size, def, n, Below(n))
    BY <1>2, <2>2
  <2> HIDE DEF Below, f
  <2> QED
    BY <1>4, <2>1, <2>2, <2>3, Agree
<1>5. f \in [S -> T]
  <2>1. ASSUME NEW x \in S PROVE f[x] \in T
    <3>1. size[x] + 1 \in Nat /\ size[x] < size[x] + 1
      BY <1>3
    <3>2. f[x] = Below(size[x] + 1)[x]
      OBVIOUS
    <3>3. Below(size[x] + 1) \in [S -> T]
      BY <1>2, <3>1 DEF DefinedBelow
    <3> QED
      BY <3>2, <3>3
  <2> HIDE DEF Below
  <2> QED
    BY <2>1
<1>6. ASSUME NEW x \in S PROVE f[x] = def[f][x]
  <2> DEFINE n == size[x] + 1
             g == Below(n)
  <2>1. n \in Nat /\ size[x] < n /\ size[x] \in Nat
    BY <1>3
  <2>2. DefinedBelow(S, T, size, def, n, g)
    BY <1>2, <2>1
  <2>3. ASSUME NEW y \in S, size[y] < size[x] PROVE g[y] = f[y]
    <3>1. size[y] < n
      BY <1>3, <2>1, <2>3
    <3> HIDE DEF n, f, Below
    <3> QED
      BY <3>1, <2>1, <1>4
  <2>4. f[x] = g[x]
    BY <1>4, <2>1
  <2> HIDE DEF n, g, f
  <2>5. g[x] = def[g][x] /\ g \in [S -> T]
    BY <2>1, <2>2 DEF DefinedBelow
  <2>6. def[g][x] = def[f][x]
    BY <1>5, <2>3, <2>5 DEF Contracts
  <2> QED
    BY <2>4, <2>5, <2>6
<1> HIDE DEF f
<1>7. def[f] \in [S -> T]
  BY <1>5 DEF Contracts
<1>8. f = def[f]
  BY <1>5, <1>6, <1>7
<1> QED
  BY <1>5, <1>8
-----------------------------------------------------------------------------
(* Induction over the size of what a set has: good are those of which      *)
(* something holds.                                                        *)
LEMMA Induction ==
  ASSUME NEW S, NEW size \in [S -> Nat], NEW good,
         \A x \in S : (\A y \in S : size[y] < size[x] => y \in good)
                      => x \in good
  PROVE  S \subseteq good
<1> DEFINE Bad == {n \in Nat : \E x \in S : size[x] = n /\ x \notin good}
<1>1. ASSUME NEW n \in Bad PROVE \E m \in Bad : m < n
  <2>1. PICK x \in S : size[x] = n /\ x \notin good
    OBVIOUS
  <2>2. PICK y \in S : size[y] < size[x] /\ y \notin good
    BY <2>1
  <2>3. size[y] \in Bad
    BY <2>2
  <2> QED
    BY <2>1, <2>2, <2>3
<1>2. Bad \subseteq Nat
  OBVIOUS
<1> HIDE DEF Bad
<1>3. Bad = {}
  BY <1>1, <1>2, NoDescent
<1> QED
  BY <1>3 DEF Bad

(* Strings are smaller without their first characters.                     *)
LEMMA Shorter ==
  ASSUME NEW A, NEW s \in Seq(A), s # <<>>
  PROVE  /\ Tail(s) \in Seq(A) /\ Len(Tail(s)) = Len(s) - 1
         /\ s[1] \in A /\ Len(s) \in Nat /\ Len(s) > 0
         /\ \A i \in 1..Len(s) : s[i] \in A
         /\ \A i \in 1..Len(Tail(s)) : Tail(s)[i] = s[i + 1]
<1>1. Len(s) \in Nat /\ Len(s) # 0
  BY EmptySeq
<1>2. \A i \in 1..Len(s) : s[i] \in A
  BY ElementOfSeq
<1>3. /\ Tail(s) \in Seq(A) /\ Len(Tail(s)) = Len(s) - 1
      /\ \A i \in 1..Len(Tail(s)) : Tail(s)[i] = s[i + 1]
  BY <1>1, HeadTailProperties
<1> QED
  BY <1>1, <1>2, <1>3

LEMMA WrittenIs ==
  ASSUME NEW c \in Char
  PROVE  Written(c) \in Seq(Char) \ {<<>>}
<1>1. \A x, y, z \in Char : <<x>> \in Seq(Char) /\ <<x, y, z>> \in Seq(Char)
                            /\ <<x>> # <<>> /\ <<x, y, z>> # <<>>
  OBVIOUS
<1>2. {"+", "%", "2", "B", "3", "D", "6", "5"} \subseteq Char
  BY DEF Char, Hex
<1> HIDE DEF Char
<1> QED
  BY <1>1, <1>2 DEF Written

LEMMA EncodedIs ==
  /\ Encoded \in [Seq(Char) -> Seq(Char)]
  /\ \A s \in Seq(Char) :
       Encoded[s] = IF s = <<>> THEN <<>>
                    ELSE Written(s[1]) \o Encoded[Tail(s)]
<1> DEFINE S == Seq(Char)
           size == [s \in S |-> Len(s)]
           Step(f, s) ==
             IF s = <<>> THEN <<>> ELSE Written(s[1]) \o f[Tail(s)]
           def == [f \in [S -> S] |-> [s \in S |-> Step(f, s)]]
<1>1. size \in [S -> Nat]
  OBVIOUS
<1>2. \A s \in S : s # <<>> =>
        /\ Tail(s) \in S /\ size[Tail(s)] < size[s]
        /\ Written(s[1]) \in S
  <2> SUFFICES ASSUME NEW s \in S, s # <<>>
               PROVE  /\ Tail(s) \in S /\ size[Tail(s)] < size[s]
                      /\ Written(s[1]) \in S
    OBVIOUS
  <2> QED
    BY Shorter, WrittenIs
<1>3. <<>> \in S /\ \A s, t \in S : s \o t \in S
  BY ConcatProperties
<1> HIDE DEF S, size
<1>4. \A f : \A s \in S : (s # <<>> => f[Tail(s)] \in S) => Step(f, s) \in S
  BY <1>2, <1>3
<1>5. def \in [[S -> S] -> [S -> S]]
  BY <1>2, <1>4
<1>6. Contracts(S, S, size, def)
  <2>1. ASSUME NEW f \in [S -> S], NEW g \in [S -> S], NEW s \in S,
               \A t \in S : size[t] < size[s] => f[t] = g[t]
        PROVE  Step(f, s) = Step(g, s)
    BY <1>2, <2>1
  <2>2. \A f \in [S -> S] : \A s \in S : def[f][s] = Step(f, s)
    OBVIOUS
  <2> HIDE DEF Step, def
  <2> QED
    BY <1>1, <1>5, <2>1, <2>2 DEF Contracts
<1>7. \E f : f = [s \in S |-> Step(f, s)]
  <2>1. S # {}
    BY <1>3
  <2>2. PICK f \in [S -> S] : f = def[f]
    <3> HIDE DEF def
    <3> QED
      BY <2>1, <1>6, Recursion
  <2> QED
    BY <2>2
<1>8. Encoded = [s \in S |-> Step(Encoded, s)]
  BY <1>7 DEF Encoded, S
<1>9. \A s \in S : Encoded[s] = Step(Encoded, s)
  BY <1>8
<1>10. ASSUME NEW s \in S,
              \A t \in S : size[t] < size[s] => Encoded[t] \in S
       PROVE  Encoded[s] \in S
  BY <1>2, <1>4, <1>9, <1>10
<1>11. S \subseteq {s \in S : Encoded[s] \in S}
  <2> DEFINE good == {s \in S : Encoded[s] \in S}
  <2>1. \A s \in S : (\A t \in S : size[t] < size[s] => t \in good)
                     => s \in good
    BY <1>10
  <2> HIDE DEF good
  <2>2. S \subseteq good
    BY <1>1, <2>1, Induction
  <2> QED
    BY <2>2 DEF good
<1>12. Encoded \in [S -> S]
  <2> HIDE DEF Step
  <2> QED
    BY <1>8, <1>11
<1> QED
  BY <1>9, <1>12 DEF S

(* What is left of a string from its character m on.                       *)
LEMMA Rest ==
  ASSUME NEW A, NEW s \in Seq(A), NEW m \in 1..(Len(s) + 1)
  PROVE  /\ SubSeq(s, m, Len(s)) \in Seq(A)
         /\ Len(SubSeq(s, m, Len(s))) = Len(s) - m + 1
         /\ \A i \in 1..(Len(s) - m + 1) :
              SubSeq(s, m, Len(s))[i] = s[m + i - 1]
<1>1. Len(s) \in Nat /\ m \in Nat
  OBVIOUS
<1>2. CASE m = Len(s) + 1
  <2>1. SubSeq(s, m, Len(s)) = <<>>
    BY <1>1, <1>2, SubSeqEmpty
  <2> QED
    BY <1>1, <1>2, <2>1
<1>3. CASE m # Len(s) + 1
  <2>1. Len(s) \in m..Len(s) /\ Len(s) \in (m - 1)..Len(s)
    BY <1>1, <1>3
  <2> QED
    BY <1>1, <1>3, <2>1, SubSeqProperties
<1> QED
  BY <1>2, <1>3

LEMMA CharIs ==
  /\ \A x, y : CharOf(x, y) \in Char
  /\ " " \in Char
<1>1. {" ", "+", "=", "&", "%", "other"} \subseteq Char
  BY DEF Char
<1> HIDE DEF Char
<1> QED
  BY <1>1 DEF CharOf

(* An escape has two more characters.                                      *)
LEMMA EscapeIs ==
  ASSUME NEW value \in Seq(Char), NEW i \in Nat, IsEscape(value, i)
  PROVE  /\ i + 3 <= Len(value)
         /\ value[i + 1] = "%" /\ value[i + 2] \in Hex /\ value[i + 3] \in Hex
<1>1. i + 2 < Len(value) /\ Len(value) \in Nat
  BY DEF IsEscape
<1>2. (i + 1) + 1 = i + 2 /\ (i + 2) + 1 = i + 3
  OBVIOUS
<1>3. /\ value[i + 1] = "%"
      /\ value[i + 2] \in Hex /\ value[i + 3] \in Hex
  BY <1>2 DEF IsEscape, At
<1> QED
  BY <1>1, <1>3

LEMMA MeaningIs ==
  /\ Meaning \in [Seq(Char) -> Seq(Char)]
  /\ \A v \in Seq(Char) :
       Meaning[v] =
         IF v = <<>> THEN <<>>
         ELSE IF IsEscape(v, 0)
         THEN <<CharOf(v[2], v[3])>> \o Meaning[SubSeq(v, 4, Len(v))]
         ELSE <<IF v[1] = "+" THEN " " ELSE v[1]>> \o Meaning[Tail(v)]
<1> DEFINE S == Seq(Char)
           size == [v \in S |-> Len(v)]
           Step(f, v) ==
             IF v = <<>> THEN <<>>
             ELSE IF IsEscape(v, 0)
             THEN <<CharOf(v[2], v[3])>> \o f[SubSeq(v, 4, Len(v))]
             ELSE <<IF v[1] = "+" THEN " " ELSE v[1]>> \o f[Tail(v)]
           def == [f \in [S -> S] |-> [v \in S |-> Step(f, v)]]
<1>1. size \in [S -> Nat]
  OBVIOUS
<1>2. \A v \in S : v # <<>> =>
        /\ Tail(v) \in S /\ size[Tail(v)] < size[v]
        /\ <<IF v[1] = "+" THEN " " ELSE v[1]>> \in S
        /\ IsEscape(v, 0) => /\ SubSeq(v, 4, Len(v)) \in S
                             /\ size[SubSeq(v, 4, Len(v))] < size[v]
                             /\ <<CharOf(v[2], v[3])>> \in S
  <2> SUFFICES ASSUME NEW v \in Seq(Char), v # <<>>
               PROVE  /\ Tail(v) \in S /\ size[Tail(v)] < size[v]
                      /\ <<IF v[1] = "+" THEN " " ELSE v[1]>> \in S
                      /\ IsEscape(v, 0) =>
                           /\ SubSeq(v, 4, Len(v)) \in S
                           /\ size[SubSeq(v, 4, Len(v))] < size[v]
                           /\ <<CharOf(v[2], v[3])>> \in S
    OBVIOUS
  <2>1. Tail(v) \in Seq(Char) /\ Len(Tail(v)) < Len(v) /\ v[1] \in Char
    BY Shorter
  <2>2. (IF v[1] = "+" THEN " " ELSE v[1]) \in Char
    BY <2>1, CharIs
  <2>3. ASSUME IsEscape(v, 0)
        PROVE  /\ SubSeq(v, 4, Len(v)) \in Seq(Char)
               /\ Len(SubSeq(v, 4, Len(v))) < Len(v)
               /\ CharOf(v[2], v[3]) \in Char
    <3>1. 3 <= Len(v) /\ Len(v) \in Nat
      BY <2>3, EscapeIs
    <3>2. 4 \in 1..(Len(v) + 1)
      BY <3>1
    <3> HIDE DEF S, size
    <3>3. /\ SubSeq(v, 4, Len(v)) \in Seq(Char)
          /\ Len(SubSeq(v, 4, Len(v))) = Len(v) - 4 + 1
      BY ONLY <3>2, v \in Seq(Char), Rest
    <3>4. CharOf(v[2], v[3]) \in Char
      BY CharIs
    <3> QED
      BY <3>1, <3>3, <3>4
  <2>4. \A c \in Char : <<c>> \in Seq(Char)
    OBVIOUS
  <2> QED
    BY <2>1, <2>2, <2>3, <2>4
<1>3. <<>> \in S /\ \A s, t \in S : s \o t \in S
  BY ConcatProperties
<1> HIDE DEF S, size
<1>4. \A f : \A v \in S :
        (\A u \in S : size[u] < size[v] => f[u] \in S) => Step(f, v) \in S
  <2> SUFFICES ASSUME NEW f, NEW v \in S,
                      \A u \in S : size[u] < size[v] => f[u] \in S
               PROVE  Step(f, v) \in S
    OBVIOUS
  <2>1. CASE v = <<>>
    BY <2>1, <1>3
  <2>2. CASE v # <<>> /\ IsEscape(v, 0)
    <3>1. /\ <<CharOf(v[2], v[3])>> \in S
          /\ f[SubSeq(v, 4, Len(v))] \in S
      BY <1>2, <2>2
    <3> QED
      BY <3>1, <2>2, <1>3
  <2>3. CASE v # <<>> /\ ~IsEscape(v, 0)
    <3>1. /\ <<IF v[1] = "+" THEN " " ELSE v[1]>> \in S
          /\ f[Tail(v)] \in S
      BY <1>2, <2>3
    <3> QED
      BY <3>1, <2>3, <1>3
  <2> QED
    BY <2>1, <2>2, <2>3
<1>5. def \in [[S -> S] -> [S -> S]]
  <2>1. ASSUME NEW f \in [S -> S], NEW v \in S PROVE Step(f, v) \in S
    BY <1>4
  <2> HIDE DEF Step
  <2> QED
    BY <2>1
<1>6. Contracts(S, S, size, def)
  <2>1. ASSUME NEW f \in [S -> S], NEW g \in [S -> S], NEW v \in S,
               \A u \in S : size[u] < size[v] => f[u] = g[u]
        PROVE  Step(f, v) = Step(g, v)
    BY <1>2, <2>1
  <2>2. \A f \in [S -> S] : \A v \in S : def[f][v] = Step(f, v)
    OBVIOUS
  <2> HIDE DEF Step, def
  <2> QED
    BY <1>1, <1>5, <2>1, <2>2 DEF Contracts
<1>7. \E f : f = [v \in S |-> Step(f, v)]
  <2>1. S # {}
    BY <1>3
  <2>2. PICK f \in [S -> S] : f = def[f]
    <3> HIDE DEF def
    <3> QED
      BY <2>1, <1>6, Recursion
  <2> QED
    BY <2>2
<1>8. Meaning = [v \in S |-> Step(Meaning, v)]
  BY <1>7 DEF Meaning, S
<1>9. \A v \in S : Meaning[v] = Step(Meaning, v)
  BY <1>8
<1>10. S \subseteq {v \in S : Meaning[v] \in S}
  <2> DEFINE good == {v \in S : Meaning[v] \in S}
  <2>1. \A v \in S : (\A u \in S : size[u] < size[v] => u \in good)
                     => v \in good
    <3> HIDE DEF Step
    <3> QED
      BY <1>4, <1>9
  <2> HIDE DEF good
  <2>2. S \subseteq good
    BY <1>1, <2>1, Induction
  <2> QED
    BY <2>2 DEF good
<1>11. Meaning \in [S -> S]
  <2> HIDE DEF Step
  <2> QED
    BY <1>8, <1>10
<1> QED
  BY <1>9, <1>11 DEF S

LEMMA FirstAtIs ==
  ASSUME NEW A, NEW s \in Seq(A), NEW c, c \in Range(s)
  PROVE  /\ FirstAt(s, c) \in 1..Len(s)
         /\ s[FirstAt(s, c)] = c
         /\ \A j \in 1..(FirstAt(s, c) - 1) : s[j] # c
<1> DEFINE At1 == {i \in 1..Len(s) : s[i] = c}
<1>1. DOMAIN s = 1..Len(s) /\ Len(s) \in Nat
  OBVIOUS
<1>2. At1 # {}
  BY <1>1 DEF Range
<1>3. At1 \subseteq Nat
  BY <1>1
<1>4. PICK i \in At1 : \A j \in At1 : ~(j < i)
  <2> HIDE DEF At1
  <2> QED
    BY <1>2, <1>3, NoDescent
<1>5. i \in DOMAIN s /\ s[i] = c /\ \A j \in 1..(i - 1) : s[j] # c
  <2>1. ASSUME NEW j \in 1..(i - 1), s[j] = c PROVE FALSE
    <3>1. j \in At1 /\ j < i
      BY <1>1, <1>4, <2>1
    <3> QED
      BY <3>1, <1>4
  <2> QED
    BY <1>1, <1>4, <2>1
<1>6. \E k \in DOMAIN s : s[k] = c /\ \A j \in 1..(k - 1) : s[j] # c
  BY <1>5
<1>7. FirstAt(s, c) \in DOMAIN s /\ s[FirstAt(s, c)] = c
        /\ \A j \in 1..(FirstAt(s, c) - 1) : s[j] # c
  BY <1>6 DEF FirstAt
<1> QED
  BY <1>1, <1>7

(* The two sides of the first c.                                           *)
LEMMA Halves ==
  ASSUME NEW A, NEW s \in Seq(A), NEW c, c \in Range(s)
  PROVE  /\ SubSeq(s, 1, FirstAt(s, c) - 1) \in Seq(A)
         /\ SubSeq(s, FirstAt(s, c) + 1, Len(s)) \in Seq(A)
         /\ Len(SubSeq(s, FirstAt(s, c) + 1, Len(s))) < Len(s)
<1> DEFINE i == FirstAt(s, c)
<1>1. i \in 1..Len(s) /\ Len(s) \in Nat
  BY FirstAtIs
<1> HIDE DEF i
<1>2. i + 1 \in 1..(Len(s) + 1) /\ i - 1 \in Int
  BY <1>1
<1>3. /\ SubSeq(s, i + 1, Len(s)) \in Seq(A)
      /\ Len(SubSeq(s, i + 1, Len(s))) = Len(s) - (i + 1) + 1
  BY ONLY <1>2, s \in Seq(A), Rest
<1>4. \A j \in 1..(i - 1) : s[j] \in A
  BY <1>1, ElementOfSeq
<1>5. SubSeq(s, 1, i - 1) \in Seq(A)
  BY <1>2, <1>4, SubSeqProperties
<1> QED
  BY <1>1, <1>3, <1>5 DEF i

LEMMA FieldsIs ==
  /\ Fields \in [Seq(Char) -> Seq(Seq(Char))]
  /\ \A q \in Seq(Char) :
       Fields[q] =
         IF "&" \notin Range(q) THEN <<q>>
         ELSE <<SubSeq(q, 1, FirstAt(q, "&") - 1)>>
                \o Fields[SubSeq(q, FirstAt(q, "&") + 1, Len(q))]
<1> DEFINE S == Seq(Char)
           T == Seq(S)
           size == [q \in S |-> Len(q)]
           Before1(q) == SubSeq(q, 1, FirstAt(q, "&") - 1)
           After(q) == SubSeq(q, FirstAt(q, "&") + 1, Len(q))
           Step(f, q) ==
             IF "&" \notin Range(q) THEN <<q>>
             ELSE <<Before1(q)>> \o f[After(q)]
           def == [f \in [S -> T] |-> [q \in S |-> Step(f, q)]]
<1>1. size \in [S -> Nat]
  OBVIOUS
<1>2. \A q \in S : "&" \in Range(q) =>
        Before1(q) \in S /\ After(q) \in S /\ size[After(q)] < size[q]
  BY Halves
<1>3. \A s \in S : <<s>> \in T
  OBVIOUS
<1>4. \A s, t \in T : s \o t \in T
  BY ConcatProperties
<1>5. Fields = CHOOSE f : f = [q \in S |-> Step(f, q)]
  BY DEF Fields
<1>6. S # {} /\ T # {}
  <2>1. <<>> \in S /\ <<>> \in T
    OBVIOUS
  <2> QED
    BY <2>1
<1> HIDE DEF S, T, size, Before1, After
<1>7. \A f : \A q \in S :
        (\A r \in S : size[r] < size[q] => f[r] \in T) => Step(f, q) \in T
  BY <1>2, <1>3, <1>4
<1>8. def \in [[S -> T] -> [S -> T]]
  <2>1. ASSUME NEW f \in [S -> T], NEW q \in S PROVE Step(f, q) \in T
    BY <1>7
  <2> HIDE DEF Step
  <2> QED
    BY <2>1
<1>9. Contracts(S, T, size, def)
  <2>1. ASSUME NEW f \in [S -> T], NEW g \in [S -> T], NEW q \in S,
               \A r \in S : size[r] < size[q] => f[r] = g[r]
        PROVE  Step(f, q) = Step(g, q)
    BY <1>2, <2>1
  <2>2. \A f \in [S -> T] : \A q \in S : def[f][q] = Step(f, q)
    OBVIOUS
  <2> HIDE DEF Step, def
  <2> QED
    BY <1>1, <1>8, <2>1, <2>2 DEF Contracts
<1>10. \E f : f = [q \in S |-> Step(f, q)]
  <2>1. PICK f \in [S -> T] : f = def[f]
    <3> HIDE DEF def
    <3> QED
      BY <1>6, <1>9, Recursion
  <2> QED
    BY <2>1
<1>11. Fields = [q \in S |-> Step(Fields, q)]
  BY <1>5, <1>10
<1>12. \A q \in S : Fields[q] = Step(Fields, q)
  BY <1>11
<1>13. S \subseteq {q \in S : Fields[q] \in T}
  <2> DEFINE good == {q \in S : Fields[q] \in T}
  <2>1. \A q \in S : (\A r \in S : size[r] < size[q] => r \in good)
                     => q \in good
    <3> HIDE DEF Step
    <3> QED
      BY <1>7, <1>12
  <2> HIDE DEF good
  <2>2. S \subseteq good
    BY <1>1, <2>1, Induction
  <2> QED
    BY <2>2 DEF good
<1>14. Fields \in [S -> T]
  <2> HIDE DEF Step
  <2> QED
    BY <1>11, <1>13
<1> QED
  BY <1>12, <1>14 DEF S, T, Before1, After

Params == Seq(Char) \X Seq(Char)

LEMMA FieldIs ==
  ASSUME NEW p \in Params
  PROVE  Field(p) \in Seq(Char)
<1>1. <<"=">> \in Seq(Char)
  BY DEF Char
<1>2. Encoded[p[1]] \in Seq(Char) /\ Encoded[p[2]] \in Seq(Char)
  BY EncodedIs DEF Params
<1> QED
  BY <1>1, <1>2, ConcatProperties DEF Field

LEMMA QueryIs ==
  /\ Query \in [Seq(Params) -> Seq(Char)]
  /\ \A form \in Seq(Params) :
       Query[form] =
         IF form = <<>> THEN <<>>
         ELSE Field(form[1])
                \o (IF Tail(form) = <<>> THEN <<>>
                    ELSE <<"&">> \o Query[Tail(form)])
<1> DEFINE S == Seq(Params)
           T == Seq(Char)
           size == [form \in S |-> Len(form)]
           Step(f, form) ==
             IF form = <<>> THEN <<>>
             ELSE Field(form[1])
                    \o (IF Tail(form) = <<>> THEN <<>>
                        ELSE <<"&">> \o f[Tail(form)])
           def == [f \in [S -> T] |-> [form \in S |-> Step(f, form)]]
<1>1. size \in [S -> Nat]
  OBVIOUS
<1>2. \A form \in S : form # <<>> =>
        /\ Tail(form) \in S /\ size[Tail(form)] < size[form]
        /\ Field(form[1]) \in T
  <2> SUFFICES ASSUME NEW form \in S, form # <<>>
               PROVE  /\ Tail(form) \in S /\ size[Tail(form)] < size[form]
                      /\ Field(form[1]) \in T
    OBVIOUS
  <2>1. /\ Tail(form) \in S /\ Len(Tail(form)) < Len(form)
        /\ form[1] \in Params
    BY Shorter
  <2> QED
    BY <2>1, FieldIs
<1>3. <<>> \in T /\ <<"&">> \in T /\ <<>> \in S
  BY DEF Char
<1>4. \A s, t \in T : s \o t \in T
  BY ConcatProperties
<1>5. Query = CHOOSE f : f = [form \in S |-> Step(f, form)]
  BY DEF Query, Params
<1> HIDE DEF S, T, size
<1>6. \A f : \A form \in S :
        (\A r \in S : size[r] < size[form] => f[r] \in T)
        => Step(f, form) \in T
  BY <1>2, <1>3, <1>4
<1>7. def \in [[S -> T] -> [S -> T]]
  <2>1. ASSUME NEW f \in [S -> T], NEW form \in S PROVE Step(f, form) \in T
    BY <1>6
  <2> HIDE DEF Step
  <2> QED
    BY <2>1
<1>8. Contracts(S, T, size, def)
  <2>1. ASSUME NEW f \in [S -> T], NEW g \in [S -> T], NEW form \in S,
               \A r \in S : size[r] < size[form] => f[r] = g[r]
        PROVE  Step(f, form) = Step(g, form)
    BY <1>2, <2>1
  <2>2. \A f \in [S -> T] : \A form \in S : def[f][form] = Step(f, form)
    OBVIOUS
  <2> HIDE DEF Step, def
  <2> QED
    BY <1>1, <1>7, <2>1, <2>2 DEF Contracts
<1>9. \E f : f = [form \in S |-> Step(f, form)]
  <2>1. PICK f \in [S -> T] : f = def[f]
    <3> HIDE DEF def
    <3> QED
      BY <1>3, <1>8, Recursion
  <2> QED
    BY <2>1
<1>10. Query = [form \in S |-> Step(Query, form)]
  BY <1>5, <1>9
<1>11. \A form \in S : Query[form] = Step(Query, form)
  BY <1>10
<1>12. S \subseteq {form \in S : Query[form] \in T}
  <2> DEFINE good == {form \in S : Query[form] \in T}
  <2>1. \A form \in S : (\A r \in S : size[r] < size[form] => r \in good)
                        => form \in good
    <3> HIDE DEF Step
    <3> QED
      BY <1>6, <1>11
  <2> HIDE DEF good
  <2>2. S \subseteq good
    BY <1>1, <2>1, Induction
  <2> QED
    BY <2>2 DEF good
<1>13. Query \in [S -> T]
  <2> HIDE DEF Step
  <2> QED
    BY <1>10, <1>12
<1> QED
  BY <1>11, <1>13 DEF S, T

LEMMA PutIs ==
  ASSUME NEW s \in Loop, NEW c \in Char, NEW n \in Nat
  PROVE  /\ Put(s, c, n) \in Loop
         /\ Len(Put(s, c, n).value) = Len(s.value)
         /\ Put(s, c, n).write = s.write + 1
         /\ Put(s, c, n).read = s.read + n
         /\ \A i \in 1..Len(s.value) :
              Put(s, c, n).value[i] = IF i = s.write + 1 THEN c ELSE s.value[i]
<1> DEFINE v == s.value
           w == s.write + 1
           u == [v EXCEPT ![w] = c]
<1>1. v \in Seq(Char) /\ w \in Nat /\ s.read + n \in Nat
  BY DEF Loop
<1>2. Put(s, c, n) = [value |-> u, write |-> w, read |-> s.read + n]
  BY DEF Put
<1>3. /\ u \in Seq(Char) /\ Len(u) = Len(v)
      /\ \A i \in 1..Len(v) : u[i] = IF i = w THEN c ELSE v[i]
  <2> HIDE DEF v, w
  <2>1. \A i \in 1..Len(v) : v[i] \in Char
    BY <1>1, ElementOfSeq
  <2>2. v = [i \in 1..Len(v) |-> v[i]] /\ Len(v) \in Nat
    BY <1>1
  <2>3. u = [i \in 1..Len(v) |-> IF i = w THEN c ELSE v[i]]
    BY <2>2
  <2>4. \A i \in 1..Len(v) : (IF i = w THEN c ELSE v[i]) \in Char
    BY <2>1
  <2> DEFINE new(i) == IF i = w THEN c ELSE v[i]
  <2>5. /\ \A i \in 1..Len(v) : new(i) \in Char
        /\ u = [i \in 1..Len(v) |-> new(i)]
    BY <2>3, <2>4
  <2> HIDE DEF new, u
  <2>6. u \in Seq(Char) /\ Len(u) = Len(v)
    BY ONLY <2>2, <2>5, IsASeq
  <2>7. \A i \in 1..Len(v) : u[i] = new(i)
    BY <2>5
  <2> QED
    BY <2>6, <2>7 DEF new
<1> HIDE DEF u, w
<1>4. Put(s, c, n) \in Loop
  BY <1>1, <1>2, <1>3 DEF Loop
<1> QED
  BY <1>2, <1>3, <1>4 DEF w

(* The characters that the loop puts, and how many it takes.               *)
LEMMA PutsChars ==
  ASSUME NEW s \in Loop, s.read < Len(s.value)
  PROVE  At(s.value, s.read) \in Char /\ s.read + 1 \in 1..Len(s.value)
<1>1. s.read + 1 \in 1..Len(s.value) /\ s.value \in Seq(Char)
  BY DEF Loop
<1> QED
  BY <1>1, ElementOfSeq DEF At

LEMMA DecodedIs ==
  \A s \in Loop :
    Decoded[s] =
      IF s.read >= Len(s.value) THEN SubSeq(s.value, 1, s.write)
      ELSE IF StartsEscape(s) THEN
        IF IsEscape(s.value, s.read)
        THEN Decoded[Put(s, CharOf(At(s.value, s.read + 1),
                                   At(s.value, s.read + 2)), 3)]
        ELSE Throws
      ELSE IF At(s.value, s.write) = "+" THEN Decoded[Put(s, " ", 1)]
      ELSE Decoded[Put(s, At(s.value, s.read), 1)]
<1> DEFINE S == Loop
           T == {Throws, " "} \cup {SubSeq(s.value, 1, s.write) : s \in Loop}
           size == [s \in S |-> IF s.read < Len(s.value)
                                THEN Len(s.value) - s.read ELSE 0]
           Char1(s) == CharOf(At(s.value, s.read + 1), At(s.value, s.read + 2))
           Step(f, s) ==
             IF s.read >= Len(s.value) THEN SubSeq(s.value, 1, s.write)
             ELSE IF StartsEscape(s) THEN
               IF IsEscape(s.value, s.read)
               THEN f[Put(s, Char1(s), 3)]
               ELSE Throws
             ELSE IF At(s.value, s.write) = "+" THEN f[Put(s, " ", 1)]
             ELSE f[Put(s, At(s.value, s.read), 1)]
           def == [f \in [S -> T] |-> [s \in S |-> Step(f, s)]]
<1>1. size \in [S -> Nat]
  <2>1. \A s \in S : s.read \in Nat /\ Len(s.value) \in Nat
    BY DEF Loop
  <2> QED
    BY <2>1
<1>2. ASSUME NEW s \in S, s.read < Len(s.value),
             NEW c \in Char, NEW n \in {1, 3}
      PROVE  Put(s, c, n) \in S /\ size[Put(s, c, n)] < size[s]
  <2>1. s.read \in Nat /\ Len(s.value) \in Nat /\ n \in Nat /\ n > 0
    BY <1>2 DEF Loop
  <2>2. /\ Put(s, c, n) \in Loop
        /\ Len(Put(s, c, n).value) = Len(s.value)
        /\ Put(s, c, n).read = s.read + n
    BY <2>1, PutIs
  <2> QED
    BY <1>2, <2>1, <2>2
<1>3. ASSUME NEW s \in S, s.read < Len(s.value)
      PROVE  /\ Char1(s) \in Char /\ At(s.value, s.read) \in Char
             /\ " " \in Char
  BY <1>3, CharIs, PutsChars
<1>4. \A s \in S : s.read >= Len(s.value) \/ s.read < Len(s.value)
  <2>1. \A s \in S : s.read \in Nat /\ Len(s.value) \in Nat
    BY DEF Loop
  <2> QED
    BY <2>1
<1>5. Throws \in T /\ \A s \in S : SubSeq(s.value, 1, s.write) \in T
  OBVIOUS
<1>6. Decoded = CHOOSE f : f = [s \in S |-> Step(f, s)]
  BY DEF Decoded
<1> HIDE DEF S, T, size, Char1
<1>7. ASSUME NEW f \in [S -> T], NEW s \in S PROVE Step(f, s) \in T
  <2>1. CASE s.read >= Len(s.value)
    BY <1>5, <2>1
  <2>2. CASE s.read < Len(s.value)
    <3>1. /\ Put(s, Char1(s), 3) \in S /\ Put(s, " ", 1) \in S
          /\ Put(s, At(s.value, s.read), 1) \in S
      BY <1>2, <1>3, <2>2
    <3>2. /\ f[Put(s, Char1(s), 3)] \in T /\ f[Put(s, " ", 1)] \in T
          /\ f[Put(s, At(s.value, s.read), 1)] \in T
      BY <3>1
    <3> QED
      BY <1>5, <3>2
  <2> QED
    BY <1>4, <2>1, <2>2
<1>8. def \in [[S -> T] -> [S -> T]]
  <2> HIDE DEF Step
  <2> QED
    BY <1>7
<1>9. Contracts(S, T, size, def)
  <2>1. ASSUME NEW f \in [S -> T], NEW g \in [S -> T], NEW s \in S,
               \A t \in S : size[t] < size[s] => f[t] = g[t]
        PROVE  Step(f, s) = Step(g, s)
    <3>1. CASE s.read >= Len(s.value)
      BY <3>1
    <3>2. CASE s.read < Len(s.value)
      <4>1. /\ f[Put(s, Char1(s), 3)] = g[Put(s, Char1(s), 3)]
            /\ f[Put(s, " ", 1)] = g[Put(s, " ", 1)]
            /\ f[Put(s, At(s.value, s.read), 1)]
                 = g[Put(s, At(s.value, s.read), 1)]
        BY <1>2, <1>3, <2>1, <3>2
      <4> QED
        BY <4>1
    <3> QED
      BY <1>4, <3>1, <3>2
  <2>2. \A f \in [S -> T] : \A s \in S : def[f][s] = Step(f, s)
    OBVIOUS
  <2> HIDE DEF Step, def
  <2> QED
    BY <1>1, <1>8, <2>1, <2>2 DEF Contracts
<1>10. \E f : f = [s \in S |-> Step(f, s)]
  <2>1. PICK f \in [S -> T] : f = def[f]
    <3>1. T # {}
      BY <1>5
    <3> HIDE DEF def
    <3> QED
      BY <3>1, <1>9, Recursion
  <2> QED
    BY <2>1
<1>11. Decoded = [s \in S |-> Step(Decoded, s)]
  BY <1>6, <1>10
<1>12. \A s \in S : Decoded[s] = Step(Decoded, s)
  BY <1>11
<1> QED
  BY <1>12 DEF S, Char1

-----------------------------------------------------------------------------
(* What is still to be read.                                               *)
Suffix(value, r) == SubSeq(value, r + 1, Len(value))

LEMMA SuffixIs ==
  ASSUME NEW value \in Seq(Char), NEW r \in 0..Len(value)
  PROVE  /\ Suffix(value, r) \in Seq(Char)
         /\ Len(Suffix(value, r)) = Len(value) - r
         /\ \A i \in 1..(Len(value) - r) : Suffix(value, r)[i] = value[r + i]
<1>1. r + 1 \in 1..(Len(value) + 1) /\ Len(value) \in Nat
  OBVIOUS
<1>2. /\ Suffix(value, r) \in Seq(Char)
      /\ Len(Suffix(value, r)) = Len(value) - (r + 1) + 1
      /\ \A i \in 1..(Len(value) - (r + 1) + 1) :
           Suffix(value, r)[i] = value[(r + 1) + i - 1]
  BY <1>1, Rest DEF Suffix
<1>3. Len(value) - (r + 1) + 1 = Len(value) - r
  BY <1>1
<1>4. ASSUME NEW i \in 1..(Len(value) - r)
      PROVE  Suffix(value, r)[i] = value[r + i]
  <2>1. (r + 1) + i - 1 = r + i
    BY <1>1
  <2>2. Suffix(value, r)[i] = value[(r + 1) + i - 1]
    BY ONLY <1>2, <1>3, i \in 1..(Len(value) - r)
  <2> QED
    BY ONLY <2>1, <2>2
<1> QED
  BY <1>2, <1>3, <1>4

LEMMA SuffixOfSuffix ==
  ASSUME NEW value \in Seq(Char), NEW r \in 0..Len(value),
         NEW k \in 0..(Len(value) - r)
  PROVE  Suffix(Suffix(value, r), k) = Suffix(value, r + k)
<1> DEFINE s == Suffix(value, r)
           t == Suffix(s, k)
           u == Suffix(value, r + k)
<1>1. /\ Len(value) \in Nat /\ r + k \in 0..Len(value)
      /\ s \in Seq(Char) /\ Len(s) = Len(value) - r
      /\ \A i \in 1..(Len(value) - r) : s[i] = value[r + i]
  BY SuffixIs
<1>2. /\ u \in Seq(Char) /\ Len(u) = Len(value) - (r + k)
      /\ \A i \in 1..(Len(value) - (r + k)) : u[i] = value[(r + k) + i]
  BY <1>1, SuffixIs
<1> HIDE DEF s, u
<1>3. k \in 0..Len(s)
  BY <1>1
<1>4. /\ t \in Seq(Char) /\ Len(t) = Len(s) - k
      /\ \A i \in 1..(Len(s) - k) : t[i] = s[k + i]
  BY ONLY <1>1, <1>3, SuffixIs
<1> HIDE DEF t
<1>5. Len(t) = Len(u)
  BY <1>1, <1>2, <1>4
<1>6. ASSUME NEW i \in 1..Len(t) PROVE t[i] = u[i]
  <2>1. /\ t[i] = s[k + i] /\ s[k + i] = value[r + (k + i)]
        /\ u[i] = value[(r + k) + i]
    BY <1>1, <1>2, <1>4
  <2>2. r + (k + i) = (r + k) + i
    BY <1>1
  <2> QED
    BY <2>1, <2>2
<1>7. t = u
  BY ONLY <1>2, <1>4, <1>5, <1>6, SeqEqual
<1> QED
  BY <1>7 DEF s, t, u

(* The escape at r is the one that what is left begins with.               *)
LEMMA EscapeOfSuffix ==
  ASSUME NEW value \in Seq(Char), NEW r \in 0..Len(value)
  PROVE  IsEscape(Suffix(value, r), 0) <=> IsEscape(value, r)
<1> DEFINE s == Suffix(value, r)
<1>1. /\ Len(value) \in Nat /\ r \in Nat /\ r <= Len(value)
      /\ Len(s) = Len(value) - r
      /\ \A i \in 1..(Len(value) - r) : s[i] = value[r + i]
  BY SuffixIs
<1> HIDE DEF s
<1>2. ASSUME r + 2 < Len(value)
      PROVE  /\ At(s, 0) = At(value, r) /\ At(s, 1) = At(value, r + 1)
             /\ At(s, 2) = At(value, r + 2)
  <2>a. {1, 2, 3} \subseteq 1..(Len(value) - r)
    BY ONLY <1>1, <1>2
  <2>1. s[1] = value[r + 1] /\ s[2] = value[r + 2] /\ s[3] = value[r + 3]
    BY ONLY <1>1, <2>a
  <2>2. /\ 0 + 1 = 1 /\ 1 + 1 = 2 /\ 2 + 1 = 3
        /\ (r + 1) + 1 = r + 2 /\ (r + 2) + 1 = r + 3
    BY <1>1
  <2> QED
    BY <2>1, <2>2 DEF At
<1>3. (0 + 2 < Len(s)) <=> (r + 2 < Len(value))
  BY <1>1
<1>4. IsEscape(s, 0) <=> IsEscape(value, r)
  BY <1>2, <1>3 DEF IsEscape
<1> QED
  BY <1>4 DEF s

LEMMA MeaningOfSuffix ==
  ASSUME NEW value \in Seq(Char), NEW r \in 0..Len(value)
  PROVE  Meaning[Suffix(value, r)] =
           IF r = Len(value) THEN <<>>
           ELSE IF IsEscape(value, r)
           THEN <<CharOf(value[r + 2], value[r + 3])>>
                  \o Meaning[Suffix(value, r + 3)]
           ELSE <<IF value[r + 1] = "+" THEN " " ELSE value[r + 1]>>
                  \o Meaning[Suffix(value, r + 1)]
<1> DEFINE s == Suffix(value, r)
<1>1. /\ Len(value) \in Nat /\ r \in Nat /\ r <= Len(value)
      /\ s \in Seq(Char) /\ Len(s) = Len(value) - r
      /\ \A i \in 1..(Len(value) - r) : s[i] = value[r + i]
  BY SuffixIs
<1>2. IsEscape(s, 0) <=> IsEscape(value, r)
  BY EscapeOfSuffix
<1>3. ASSUME IsEscape(value, r)
      PROVE  /\ r + 3 <= Len(value)
             /\ s[2] = value[r + 2] /\ s[3] = value[r + 3]
             /\ SubSeq(s, 4, Len(s)) = Suffix(value, r + 3)
  <2>1. r + 3 <= Len(value)
    BY <1>1, <1>3, EscapeIs
  <2>2. 3 \in 0..(Len(value) - r)
    BY <1>1, <2>1
  <2>3. Suffix(s, 3) = Suffix(value, r + 3)
    BY <2>2, SuffixOfSuffix
  <2>4. SubSeq(s, 4, Len(s)) = Suffix(s, 3)
    BY DEF Suffix
  <2> QED
    BY <1>1, <2>1, <2>3, <2>4
<1>4. ASSUME r < Len(value)
      PROVE  s # <<>> /\ s[1] = value[r + 1] /\ Tail(s) = Suffix(value, r + 1)
  <2>1. s # <<>> /\ s[1] = value[r + 1] /\ 1 \in 0..(Len(value) - r)
    BY <1>1, <1>4
  <2>2. Suffix(s, 1) = Suffix(value, r + 1)
    BY <2>1, SuffixOfSuffix
  <2> HIDE DEF s
  <2>3. Tail(s) = SubSeq(s, 2, Len(s))
    BY <1>1, <2>1, TailIsSubSeq
  <2>4. SubSeq(s, 2, Len(s)) = Suffix(s, 1)
    BY DEF Suffix
  <2> QED
    BY <2>1, <2>2, <2>3, <2>4
<1>5. r = Len(value) => s = <<>>
  BY <1>1, EmptySeq
<1> HIDE DEF s
<1>6. Meaning[s] =
        IF s = <<>> THEN <<>>
        ELSE IF IsEscape(s, 0)
        THEN <<CharOf(s[2], s[3])>> \o Meaning[SubSeq(s, 4, Len(s))]
        ELSE <<IF s[1] = "+" THEN " " ELSE s[1]>> \o Meaning[Tail(s)]
  BY <1>1, MeaningIs
<1>7. CASE r = Len(value)
  BY <1>5, <1>6, <1>7 DEF s
<1>8. CASE r # Len(value)
  <2>1. r < Len(value)
    BY <1>1, <1>8
  <2>2. s # <<>> /\ s[1] = value[r + 1] /\ Tail(s) = Suffix(value, r + 1)
    BY <1>4, <2>1
  <2>3. CASE IsEscape(value, r)
    <3>1. Meaning[s] = <<CharOf(s[2], s[3])>> \o Meaning[SubSeq(s, 4, Len(s))]
      BY <1>2, <1>6, <2>2, <2>3
    <3> QED
      BY <1>3, <1>8, <2>3, <3>1 DEF s
  <2>4. CASE ~IsEscape(value, r)
    <3>1. Meaning[s] =
            <<IF s[1] = "+" THEN " " ELSE s[1]>> \o Meaning[Tail(s)]
      BY <1>2, <1>6, <2>2, <2>4
    <3> QED
      BY <1>8, <2>2, <2>4, <3>1 DEF s
  <2> QED
    BY <2>3, <2>4
<1> QED
  BY <1>7, <1>8

(* A plus after a percent sign is what the decoder does not see.           *)
Confused(value) == Before(value, {"%"}, {"+"})

MalformedAt(value, i) ==
  /\ At(value, i) = "%" /\ ~IsEscape(value, i)
  /\ i + 2 < Len(value) \/ Len(value) = 1

MalformedFrom(value, r) ==
  \E i \in r..(Len(value) - 1) : MalformedAt(value, i)

(* States of the loop for a value: behind write_offset the string is as it *)
(* was, and the offsets differ only after a percent sign.                  *)
During(value) ==
  {s \in Loop :
     /\ Len(s.value) = Len(value)
     /\ s.write <= s.read /\ s.read <= Len(value)
     /\ \A i \in (s.write + 1)..Len(value) : s.value[i] = value[i]
     /\ \/ s.write = s.read
        \/ \E p \in 1..s.write : value[p] = "%"}

DecodesRest(value, s) ==
  IF MalformedFrom(value, s.read) THEN Decoded[s] = Throws
  ELSE ~Confused(value) =>
         Decoded[s] = SubSeq(s.value, 1, s.write)
                        \o Meaning[Suffix(value, s.read)]

LEMMA DuringIs ==
  ASSUME NEW value \in Seq(Char), NEW s \in During(value)
  PROVE  /\ s \in Loop /\ s.value \in Seq(Char)
         /\ Len(s.value) = Len(value) /\ Len(value) \in Nat
         /\ s.write \in Nat /\ s.read \in Nat
         /\ s.write <= s.read /\ s.read <= Len(value)
         /\ \A i \in (s.write + 1)..Len(value) : s.value[i] = value[i]
         /\ \/ s.write = s.read
            \/ \E p \in 1..s.write : value[p] = "%"
BY DEF During, Loop

(* The condition of the code, with its wrapping difference.                *)
LEMMA StartsIs ==
  ASSUME NEW value \in Seq(Char), Len(value) < SizeT,
         NEW s \in During(value), s.read < Len(value)
  PROVE  /\ At(s.value, s.read) = At(value, s.read)
         /\ IsEscape(s.value, s.read) <=> IsEscape(value, s.read)
         /\ StartsEscape(s) <=> /\ At(value, s.read) = "%"
                                /\ s.read + 2 < Len(value) \/ Len(value) = 1
<1> DEFINE n == Len(value)
           r == s.read
<1>1. /\ n \in Nat /\ r \in Nat /\ r < n /\ Len(s.value) = n
      /\ \A i \in (r + 1)..n : s.value[i] = value[i]
  BY DuringIs
<1>2. SizeT \in Nat /\ SizeT > 1 /\ n < SizeT
  BY ParamsAssumption
<1> HIDE DEF n, r
<1>3. At(s.value, r) = At(value, r)
  <2>1. s.value[r + 1] = value[r + 1]
    BY <1>1
  <2> QED
    BY <2>1 DEF At
<1>4. IsEscape(s.value, r) <=> IsEscape(value, r)
  <2>1. ASSUME r + 2 < n
        PROVE  /\ At(s.value, r + 1) = At(value, r + 1)
               /\ At(s.value, r + 2) = At(value, r + 2)
    <3>a. r + 2 \in (r + 1)..n /\ r + 3 \in (r + 1)..n
      BY ONLY <1>1, <2>1
    <3>1. s.value[r + 2] = value[r + 2] /\ s.value[r + 3] = value[r + 3]
      BY ONLY <1>1, <3>a
    <3>2. (r + 1) + 1 = r + 2 /\ (r + 2) + 1 = r + 3
      BY <1>1
    <3> QED
      BY <3>1, <3>2 DEF At
  <2> QED
    BY <1>1, <1>3, <2>1 DEF IsEscape, n
<1>5. r < (n - 2) % SizeT <=> r + 2 < n \/ n = 1
  <2>1. CASE n = 1
    <3>1. (n - 2) % SizeT = (n - 2) + SizeT
      BY <1>1, <1>2, <2>1
    <3> QED
      BY <1>1, <1>2, <2>1, <3>1
  <2>2. CASE n >= 2
    <3>1. (n - 2) % SizeT = n - 2
      BY <1>1, <1>2, <2>2
    <3> QED
      BY <1>1, <2>2, <3>1
  <2> QED
    BY <1>1, <2>1, <2>2
<1>6. StartsEscape(s) <=> /\ At(value, r) = "%"
                          /\ r + 2 < n \/ n = 1
  <2>1. StartsEscape(s) <=> /\ At(s.value, r) = "%"
                            /\ r < (n - 2) % SizeT
    BY <1>1 DEF StartsEscape, r
  <2> QED
    BY <1>3, <1>5, <2>1
<1> QED
  BY <1>3, <1>4, <1>6 DEF n, r

(* A step of the loop that takes k characters and writes c.                *)
LEMMA PutGrows ==
  ASSUME NEW value \in Seq(Char), NEW s \in During(value),
         NEW c \in Char, NEW k \in {1, 3}, s.read + k <= Len(value),
         k = 3 => value[s.read + 1] = "%"
  PROVE  /\ Put(s, c, k) \in During(value)
         /\ Put(s, c, k).read = s.read + k
         /\ SubSeq(Put(s, c, k).value, 1, Put(s, c, k).write)
              = SubSeq(s.value, 1, s.write) \o <<c>>
         /\ SubSeq(s.value, 1, s.write) \in Seq(Char)
<1> DEFINE n == Len(value)
           t == Put(s, c, k)
           w == s.write
           r == s.read
<1>1. /\ s \in Loop /\ s.value \in Seq(Char) /\ Len(s.value) = n /\ n \in Nat
      /\ w \in Nat /\ r \in Nat /\ w <= r /\ r + k <= n
      /\ \A i \in (w + 1)..n : s.value[i] = value[i]
      /\ w = r \/ \E p \in 1..w : value[p] = "%"
      /\ k \in Nat
  BY DuringIs
<1>2. /\ t \in Loop /\ Len(t.value) = n /\ t.write = w + 1 /\ t.read = r + k
      /\ \A i \in 1..n : t.value[i] = IF i = w + 1 THEN c ELSE s.value[i]
  BY <1>1, PutIs
<1>3. t.value \in Seq(Char)
  BY <1>2 DEF Loop
<1> HIDE DEF t, n, w, r
<1>4. \A i \in ((w + 1) + 1)..n : t.value[i] = value[i]
  BY <1>1, <1>2
<1>5. w + 1 = r + k \/ \E p \in 1..(w + 1) : value[p] = "%"
  <2>1. CASE \E p \in 1..w : value[p] = "%"
    BY <1>1, <2>1
  <2>2. CASE w = r /\ k = 1
    BY <2>2
  <2>3. CASE w = r /\ k = 3
    <3>1. value[w + 1] = "%" /\ w + 1 \in 1..(w + 1)
      BY <1>1, <2>3 DEF r
    <3> QED
      BY <3>1
  <2> QED
    BY <1>1, <2>1, <2>2, <2>3
<1>6. t \in During(value)
  <2>1. t.write <= t.read /\ t.read <= Len(value)
    BY <1>1, <1>2 DEF n
  <2>2. \A i \in (t.write + 1)..Len(value) : t.value[i] = value[i]
    BY <1>2, <1>4 DEF n
  <2>3. t.write = t.read \/ \E p \in 1..t.write : value[p] = "%"
    BY <1>2, <1>5
  <2> QED
    BY <1>2, <2>1, <2>2, <2>3 DEF During, n
<1>7. \A i \in 1..w : s.value[i] \in Char
  BY <1>1, ElementOfSeq
<1> DEFINE a == SubSeq(s.value, 1, w)
           b == SubSeq(t.value, 1, w + 1)
<1>8. /\ a \in Seq(Char) /\ Len(a) = w
      /\ \A i \in 1..w : a[i] = s.value[i]
  <2>1. /\ a \in Seq(Char) /\ Len(a) = IF 1 <= w THEN w - 1 + 1 ELSE 0
        /\ \A i \in 1..(w - 1 + 1) : a[i] = s.value[1 + i - 1]
    BY <1>1, <1>7, SubSeqProperties
  <2>2. w - 1 + 1 = w /\ \A i \in Int : 1 + i - 1 = i
    BY <1>1
  <2> QED
    BY <1>1, <2>1, <2>2
<1>9. /\ b \in Seq(Char) /\ Len(b) = w + 1
      /\ \A i \in 1..(w + 1) : b[i] = t.value[i]
  <2>1. \A i \in 1..(w + 1) : t.value[i] \in Char
    BY <1>1, <1>2, <1>7
  <2>2. /\ b \in Seq(Char)
        /\ Len(b) = IF 1 <= w + 1 THEN (w + 1) - 1 + 1 ELSE 0
        /\ \A i \in 1..((w + 1) - 1 + 1) : b[i] = t.value[1 + i - 1]
    BY <1>1, <2>1, SubSeqProperties
  <2>3. (w + 1) - 1 + 1 = w + 1 /\ \A i \in Int : 1 + i - 1 = i
    BY <1>1
  <2> QED
    BY <1>1, <2>2, <2>3
<1> HIDE DEF a, b
<1>10. /\ <<c>> \in Seq(Char) /\ a \o <<c>> \in Seq(Char)
       /\ Len(a \o <<c>>) = w + 1
       /\ \A i \in 1..(w + 1) :
            (a \o <<c>>)[i] = IF i <= w THEN a[i] ELSE c
  <2>1. <<c>> \in Seq(Char) /\ Len(<<c>>) = 1 /\ <<c>>[1] = c
    OBVIOUS
  <2>2. /\ a \o <<c>> \in Seq(Char) /\ Len(a \o <<c>>) = w + 1
        /\ \A i \in 1..(w + 1) :
             (a \o <<c>>)[i] = IF i <= w THEN a[i] ELSE <<c>>[i - w]
    BY <1>8, <2>1, ConcatProperties
  <2>3. \A i \in 1..(w + 1) : i <= w \/ i - w = 1
    BY <1>1
  <2> QED
    BY <2>1, <2>2, <2>3
<1>11. ASSUME NEW i \in 1..(w + 1) PROVE b[i] = (a \o <<c>>)[i]
  <2>1. CASE i = w + 1
    <3>1. ~(i <= w) /\ i \in 1..n
      BY <1>1, <2>1
    <3> QED
      BY <1>2, <1>9, <1>10, <2>1, <3>1
  <2>2. CASE i # w + 1
    <3>1. i <= w /\ i \in 1..w /\ i \in 1..n
      BY <1>1, <2>2
    <3> QED
      BY <1>2, <1>8, <1>9, <1>10, <2>2, <3>1
  <2> QED
    BY <2>1, <2>2
<1>12. b = a \o <<c>>
  BY ONLY <1>9, <1>10, <1>11, SeqEqual
<1> QED
  BY <1>2, <1>6, <1>8, <1>12 DEF a, b, t, w, r

LEMMA NoPlus ==
  ASSUME NEW value \in Seq(Char), ~Confused(value),
         NEW p \in 1..Len(value), value[p] = "%",
         NEW i \in (p + 1)..Len(value)
  PROVE  value[i] # "+"
<1>1. p \in DOMAIN value /\ i \in DOMAIN value /\ p < i
  OBVIOUS
<1> QED
  BY <1>1 DEF Confused, Before

LEMMA Continues ==
  ASSUME NEW value \in Seq(Char), NEW s \in During(value),
         NEW c \in Char, NEW k \in {1, 3}, s.read + k <= Len(value),
         k = 3 => value[s.read + 1] = "%",
         Decoded[s] = Decoded[Put(s, c, k)],
         MalformedFrom(value, s.read) <=> MalformedFrom(value, s.read + k),
         ~Confused(value) =>
           Meaning[Suffix(value, s.read)]
             = <<c>> \o Meaning[Suffix(value, s.read + k)],
         DecodesRest(value, Put(s, c, k))
  PROVE  DecodesRest(value, s)
<1> DEFINE t == Put(s, c, k)
           a == SubSeq(s.value, 1, s.write)
           m == Meaning[Suffix(value, s.read + k)]
<1>1. /\ t.read = s.read + k
      /\ SubSeq(t.value, 1, t.write) = a \o <<c>>
      /\ a \in Seq(Char)
  BY PutGrows
<1>2. m \in Seq(Char) /\ <<c>> \in Seq(Char)
  <2>1. s.read + k \in 0..Len(value)
    BY DuringIs
  <2>2. Suffix(value, s.read + k) \in Seq(Char)
    BY <2>1, SuffixIs
  <2>3. \A v \in Seq(Char) : Meaning[v] \in Seq(Char)
    BY MeaningIs
  <2>4. <<c>> \in Seq(Char)
    OBVIOUS
  <2> QED
    BY <2>2, <2>3, <2>4
<1>3. DecodesRest(value, t) /\ Decoded[s] = Decoded[t]
  OBVIOUS
<1> HIDE DEF t, a, m
<1>4. (a \o <<c>>) \o m = a \o (<<c>> \o m)
  BY <1>1, <1>2, ConcatAssociative
<1>5. CASE MalformedFrom(value, s.read)
  BY <1>1, <1>3, <1>5 DEF DecodesRest
<1>6. CASE ~MalformedFrom(value, s.read)
  <2>1. ASSUME ~Confused(value)
        PROVE  Decoded[s] = a \o Meaning[Suffix(value, s.read)]
    <3>1. Decoded[t] = (a \o <<c>>) \o m
      BY <1>1, <1>3, <1>6, <2>1 DEF DecodesRest, m
    <3>2. Meaning[Suffix(value, s.read)] = <<c>> \o m
      BY <2>1 DEF m
    <3> QED
      BY <1>3, <1>4, <3>1, <3>2
  <2> QED
    BY <1>6, <2>1 DEF DecodesRest, a
<1> QED
  BY <1>5, <1>6

LEMMA DecodesStep ==
  ASSUME NEW value \in Seq(Char), Len(value) < SizeT,
         NEW s \in During(value),
         \A t \in During(value) : t.read > s.read => DecodesRest(value, t)
  PROVE  DecodesRest(value, s)
<1> DEFINE n == Len(value)
           r == s.read
           w == s.write
<1>1. /\ s \in Loop /\ s.value \in Seq(Char) /\ Len(s.value) = n /\ n \in Nat
      /\ w \in Nat /\ r \in Nat /\ w <= r /\ r <= n
      /\ \A i \in (w + 1)..n : s.value[i] = value[i]
      /\ w = r \/ \E p \in 1..w : value[p] = "%"
  BY DuringIs
<1>2. Meaning[Suffix(value, r)] =
        IF r = n THEN <<>>
        ELSE IF IsEscape(value, r)
        THEN <<CharOf(value[r + 2], value[r + 3])>>
               \o Meaning[Suffix(value, r + 3)]
        ELSE <<IF value[r + 1] = "+" THEN " " ELSE value[r + 1]>>
               \o Meaning[Suffix(value, r + 1)]
  <2>1. r \in 0..n
    BY <1>1
  <2> QED
    BY <2>1, MeaningOfSuffix
<1>3. ASSUME NEW c \in Char, NEW k \in {1, 3}, r + k <= n,
             k = 3 => value[r + 1] = "%"
      PROVE  DecodesRest(value, Put(s, c, k))
  <2>1. Put(s, c, k) \in During(value) /\ Put(s, c, k).read = r + k
    BY <1>3, PutGrows
  <2>2. r + k > r
    BY <1>1
  <2> QED
    BY <2>1, <2>2
<1>4. CASE r = n
  <2>1. r >= Len(s.value)
    BY <1>1, <1>4
  <2>2. Decoded[s] = SubSeq(s.value, 1, w)
    BY <1>1, <2>1, DecodedIs
  <2>3. ~MalformedFrom(value, r)
    BY <1>1, <1>4 DEF MalformedFrom
  <2>4. \A i \in 1..w : s.value[i] \in Char
    BY <1>1, ElementOfSeq
  <2>5. SubSeq(s.value, 1, w) \in Seq(Char)
    BY <1>1, <2>4, SubSeqProperties
  <2>6. SubSeq(s.value, 1, w) \o <<>> = SubSeq(s.value, 1, w)
    BY <2>5, ConcatEmptySeq
  <2> QED
    BY <1>2, <1>4, <2>2, <2>3, <2>6 DEF DecodesRest
<1>5. CASE r < n
  <2>1. /\ At(s.value, r) = At(value, r)
        /\ IsEscape(s.value, r) <=> IsEscape(value, r)
        /\ StartsEscape(s) <=> At(value, r) = "%" /\ (r + 2 < n \/ n = 1)
    BY <1>5, StartsIs
  <2>2. At(value, r) = value[r + 1]
    BY DEF At
  <2>3. ~(r >= Len(s.value))
    BY <1>1, <1>5
  <2>4. Decoded[s] =
          IF StartsEscape(s) THEN
            IF IsEscape(s.value, r)
            THEN Decoded[Put(s, CharOf(At(s.value, r + 1),
                                       At(s.value, r + 2)), 3)]
            ELSE Throws
          ELSE IF At(s.value, w) = "+" THEN Decoded[Put(s, " ", 1)]
          ELSE Decoded[Put(s, At(s.value, r), 1)]
    BY <1>1, <2>3, DecodedIs
  <2>5. CASE MalformedAt(value, r)
    <3>1. StartsEscape(s) /\ ~IsEscape(s.value, r)
      BY <2>1, <2>5 DEF MalformedAt
    <3>2. Decoded[s] = Throws
      BY <2>4, <3>1
    <3>3. r \in r..(n - 1)
      BY <1>1, <1>5
    <3>4. MalformedFrom(value, r)
      BY <2>5, <3>3 DEF MalformedFrom
    <3> QED
      BY <3>2, <3>4 DEF DecodesRest
  <2>6. CASE IsEscape(value, r)
    <3> DEFINE c == CharOf(value[r + 2], value[r + 3])
    <3>1. /\ r + 3 <= n /\ value[r + 1] = "%"
          /\ value[r + 2] \in Hex /\ value[r + 3] \in Hex /\ r + 2 < n
      BY <1>1, <2>6, EscapeIs
    <3>2. StartsEscape(s)
      BY <2>1, <2>2, <3>1
    <3>3. CharOf(At(s.value, r + 1), At(s.value, r + 2)) = c
      <4>1. s.value[r + 2] = value[r + 2] /\ s.value[r + 3] = value[r + 3]
        <5>1. r + 2 \in (w + 1)..n /\ r + 3 \in (w + 1)..n
          BY <1>1, <3>1
        <5> QED
          BY ONLY <1>1, <5>1
      <4>2. (r + 1) + 1 = r + 2 /\ (r + 2) + 1 = r + 3
        BY <1>1
      <4> QED
        BY <4>1, <4>2 DEF At
    <3>4. Decoded[s] = Decoded[Put(s, c, 3)]
      BY <2>1, <2>4, <2>6, <3>2, <3>3
    <3>5. c \in Char
      BY CharIs
    <3>6. MalformedFrom(value, r) <=> MalformedFrom(value, r + 3)
      <4>1. ~MalformedAt(value, r)
        BY <2>6 DEF MalformedAt
      <4>2. ~MalformedAt(value, r + 1) /\ ~MalformedAt(value, r + 2)
        <5>1. (r + 1) + 1 = r + 2 /\ (r + 2) + 1 = r + 3 /\ "%" \notin Hex
          BY <1>1 DEF Hex
        <5> QED
          BY <3>1, <5>1 DEF MalformedAt, At
      <4>3. \A i \in r..(n - 1) :
              i = r \/ i = r + 1 \/ i = r + 2 \/ i \in (r + 3)..(n - 1)
        BY <1>1
      <4>4. \A i \in (r + 3)..(n - 1) : i \in r..(n - 1)
        BY <1>1
      <4> QED
        BY <4>1, <4>2, <4>3, <4>4 DEF MalformedFrom
    <3>7. Meaning[Suffix(value, r)] = <<c>> \o Meaning[Suffix(value, r + 3)]
      BY <1>2, <1>5, <2>6
    <3> HIDE DEF c
    <3>8. DecodesRest(value, Put(s, c, 3))
      BY <1>3, <3>1, <3>5
    <3> QED
      BY <3>1, <3>4, <3>5, <3>6, <3>7, <3>8, Continues
  <2>7. CASE ~IsEscape(value, r) /\ ~MalformedAt(value, r)
    <3> DEFINE c == IF At(s.value, w) = "+" THEN " " ELSE value[r + 1]
    <3>1. ~StartsEscape(s)
      BY <2>1, <2>7 DEF MalformedAt
    <3>2. Decoded[s] = Decoded[Put(s, c, 1)]
      BY <2>1, <2>2, <2>4, <3>1
    <3>3. c \in Char /\ r + 1 <= n
      <4>1. At(s.value, r) \in Char /\ r + 1 <= n
        BY <1>1, <1>5, PutsChars
      <4> QED
        BY <2>1, <2>2, <4>1, CharIs
    <3>4. MalformedFrom(value, r) <=> MalformedFrom(value, r + 1)
      <4>1. \A i \in r..(n - 1) : i = r \/ i \in (r + 1)..(n - 1)
        BY <1>1
      <4>2. \A i \in (r + 1)..(n - 1) : i \in r..(n - 1)
        BY <1>1
      <4> QED
        BY <2>7, <4>1, <4>2 DEF MalformedFrom
    <3>5. ASSUME ~Confused(value)
          PROVE  c = IF value[r + 1] = "+" THEN " " ELSE value[r + 1]
      <4>1. At(s.value, w) = value[w + 1]
        <5>1. w + 1 \in (w + 1)..n
          BY <1>1, <1>5
        <5> QED
          BY <1>1, <5>1 DEF At
      <4>2. CASE w = r
        BY <4>1, <4>2
      <4>3. CASE \E p \in 1..w : value[p] = "%"
        <5>1. PICK p \in 1..w : value[p] = "%"
          BY <4>3
        <5>2. /\ p \in 1..n
              /\ w + 1 \in (p + 1)..n /\ r + 1 \in (p + 1)..n
          BY <1>1, <1>5
        <5>3. value[w + 1] # "+" /\ value[r + 1] # "+"
          BY <3>5, <5>1, <5>2, NoPlus
        <5> QED
          BY <4>1, <5>3
      <4> QED
        BY <1>1, <4>2, <4>3
    <3>6. ~Confused(value) => Meaning[Suffix(value, r)] =
                                <<c>> \o Meaning[Suffix(value, r + 1)]
      <4>1. Meaning[Suffix(value, r)] =
              <<IF value[r + 1] = "+" THEN " " ELSE value[r + 1]>>
                \o Meaning[Suffix(value, r + 1)]
        <5>1. r # n
          BY <1>1, <1>5
        <5>2. ~IsEscape(value, r)
          BY <2>7
        <5> HIDE DEF n, r
        <5> QED
          BY ONLY <1>2, <5>1, <5>2, Zenon
      <4> HIDE DEF c
      <4> QED
        BY <3>5, <4>1
    <3> HIDE DEF c
    <3>7. DecodesRest(value, Put(s, c, 1))
      BY <1>3, <3>3
    <3> QED
      BY <3>2, <3>3, <3>4, <3>6, <3>7, Continues
  <2> QED
    BY <2>5, <2>6, <2>7
<1> QED
  BY <1>1, <1>4, <1>5

(* For every string: decoding throws if it is malformed, and else gives    *)
(* what the standard says, unless a plus comes after a percent sign        *)
(* (src/EvHTTPRequest.cc:56-71).                                           *)
THEOREM DecodesValues ==
  ASSUME NEW value \in Seq(Char), Len(value) < SizeT
  PROVE  DecodedAsMeant(value)
<1> DEFINE S == During(value)
           size == [s \in S |-> Len(value) - s.read]
           good == {s \in S : DecodesRest(value, s)}
           start == [value |-> value, write |-> 0, read |-> 0]
<1>1. \A s \in S : s.read \in Nat /\ Len(value) \in Nat /\ s.read <= Len(value)
  BY DuringIs
<1>2. size \in [S -> Nat]
  <2>1. \A s \in S : Len(value) - s.read \in Nat
    BY <1>1
  <2> HIDE DEF S
  <2> QED
    BY <2>1
<1>3. \A s \in S : (\A t \in S : size[t] < size[s] => t \in good) => s \in good
  <2> SUFFICES ASSUME NEW s \in S,
                      \A t \in S : size[t] < size[s] => t \in good
               PROVE  DecodesRest(value, s)
    OBVIOUS
  <2>1. \A t \in S : t.read > s.read => size[t] < size[s]
    <3> HIDE DEF S
    <3> QED
      BY <1>1
  <2>2. \A t \in S : t.read > s.read => DecodesRest(value, t)
    BY <2>1
  <2> QED
    BY <2>2, DecodesStep
<1>4. S \subseteq good
  <2> HIDE DEF S, size, good
  <2> QED
    BY <1>2, <1>3, Induction
<1>5. start \in During(value)
  BY DEF During, Loop
<1>6. DecodesRest(value, start)
  BY <1>4, <1>5
<1>7. Decode(value) = Decoded[start]
  BY DEF Decode
<1>8. MalformedFrom(value, 0) <=> Malformed(value)
  BY DEF MalformedFrom, Malformed, MalformedAt
<1>9. SubSeq(value, 1, 0) = <<>> /\ Suffix(value, 0) = value
  BY SubSeqEmpty, SubSeqFull DEF Suffix
<1>10. <<>> \o Meaning[value] = Meaning[value]
  BY MeaningIs, ConcatEmptySeq
<1>11. start.read = 0 /\ start.write = 0 /\ start.value = value
  OBVIOUS
<1> HIDE DEF start
<1>12. CASE Malformed(value)
  BY <1>6, <1>7, <1>8, <1>11, <1>12 DEF DecodesRest, DecodedAsMeant
<1>13. CASE ~Malformed(value)
  <2>1. ~Confused(value) =>
          Decoded[start] = SubSeq(value, 1, 0) \o Meaning[Suffix(value, 0)]
    BY <1>6, <1>8, <1>11, <1>13 DEF DecodesRest
  <2>2. ~Confused(value) => Decode(value) = Meaning[value]
    BY <1>7, <1>9, <1>10, <2>1
  <2> QED
    BY <1>13, <2>2 DEF DecodedAsMeant, Confused
<1> QED
  BY <1>12, <1>13

-----------------------------------------------------------------------------
(* Forms. Where two strings meet: a, and b behind it.                      *)
LEMMA Joined ==
  ASSUME NEW A, NEW a \in Seq(A), NEW b \in Seq(A)
  PROVE  /\ a \o b \in Seq(A) /\ Len(a \o b) = Len(a) + Len(b)
         /\ Len(a) \in Nat /\ Len(b) \in Nat
         /\ \A i \in 1..Len(a) : (a \o b)[i] = a[i]
         /\ \A i \in 1..Len(b) : (a \o b)[Len(a) + i] = b[i]
         /\ SubSeq(a \o b, 1, Len(a)) = a
         /\ SubSeq(a \o b, Len(a) + 1, Len(a \o b)) = b
<1> DEFINE s == a \o b
           m == Len(a)
           n == Len(b)
<1>1. /\ s \in Seq(A) /\ Len(s) = m + n /\ m \in Nat /\ n \in Nat
      /\ \A i \in 1..(m + n) : s[i] = IF i <= m THEN a[i] ELSE b[i - m]
  BY ConcatProperties
<1> HIDE DEF s, m, n
<1>2. \A i \in 1..m : s[i] = a[i]
  BY <1>1
<1>3. ASSUME NEW i \in 1..n PROVE s[m + i] = b[i]
  <2>1. m + i \in 1..(m + n) /\ ~(m + i <= m) /\ (m + i) - m = i
    BY <1>1
  <2> QED
    BY <1>1, <2>1
<1>4. SubSeq(s, 1, m) = a
  <2> DEFINE t == SubSeq(s, 1, m)
  <2>1. \A i \in 1..m : s[i] \in A
    BY <1>1, ElementOfSeq
  <2>2. /\ t \in Seq(A) /\ Len(t) = IF 1 <= m THEN m - 1 + 1 ELSE 0
        /\ \A i \in 1..(m - 1 + 1) : t[i] = s[1 + i - 1]
    BY <1>1, <2>1, SubSeqProperties
  <2>3. m - 1 + 1 = m /\ \A i \in Int : 1 + i - 1 = i
    BY <1>1
  <2> HIDE DEF t
  <2>4. Len(t) = m /\ \A i \in 1..m : t[i] = a[i]
    BY <1>1, <1>2, <2>2, <2>3
  <2>5. t = a
    <3>1. Len(t) = Len(a) /\ \A i \in 1..Len(t) : t[i] = a[i]
      BY <2>4 DEF m
    <3> QED
      BY <2>2, <3>1, SeqEqual
  <2> QED
    BY <2>5 DEF t
<1>5. SubSeq(s, m + 1, Len(s)) = b
  <2> DEFINE t == SubSeq(s, m + 1, Len(s))
  <2>1. m + 1 \in 1..(Len(s) + 1)
    BY <1>1
  <2>2. /\ t \in Seq(A) /\ Len(t) = Len(s) - (m + 1) + 1
        /\ \A i \in 1..(Len(s) - (m + 1) + 1) : t[i] = s[(m + 1) + i - 1]
    BY <1>1, <2>1, Rest
  <2>3. Len(s) - (m + 1) + 1 = n
    BY <1>1
  <2> HIDE DEF t
  <2>4. Len(t) = n
    BY <2>2, <2>3
  <2>a. ASSUME NEW i \in 1..n PROVE t[i] = b[i]
    <3>1. t[i] = s[(m + 1) + i - 1]
      BY ONLY <2>2, <2>3, i \in 1..n
    <3>2. (m + 1) + i - 1 = m + i
      BY ONLY <1>1, i \in 1..n
    <3>3. s[m + i] = b[i]
      BY ONLY <1>3, i \in 1..n
    <3> QED
      BY ONLY <3>1, <3>2, <3>3
  <2>5. t = b
    <3>1. Len(t) = Len(b) /\ \A i \in 1..Len(t) : t[i] = b[i]
      BY <2>4, <2>a DEF n
    <3> QED
      BY <2>2, <3>1, SeqEqual
  <2> QED
    BY <2>5 DEF t
<1> QED
  BY <1>1, <1>2, <1>3, <1>4, <1>5 DEF s, m, n

Free(s, c) == \A i \in 1..Len(s) : s[i] # c

LEMMA FreeJoined ==
  ASSUME NEW a \in Seq(Char), NEW b \in Seq(Char), NEW c,
         Free(a, c), Free(b, c)
  PROVE  Free(a \o b, c)
<1>1. /\ Len(a \o b) = Len(a) + Len(b) /\ Len(a) \in Nat /\ Len(b) \in Nat
      /\ \A i \in 1..Len(a) : (a \o b)[i] = a[i]
      /\ \A i \in 1..Len(b) : (a \o b)[Len(a) + i] = b[i]
  BY Joined
<1>2. ASSUME NEW i \in 1..Len(a \o b) PROVE (a \o b)[i] # c
  <2>1. CASE i \in 1..Len(a)
    BY <1>1, <2>1 DEF Free
  <2>2. CASE i \notin 1..Len(a)
    <3>1. i - Len(a) \in 1..Len(b) /\ Len(a) + (i - Len(a)) = i
      BY <1>1, <2>2
    <3> QED
      BY <1>1, <3>1 DEF Free
  <2> QED
    BY <2>1, <2>2
<1> QED
  BY <1>2 DEF Free

(* The first c is the one behind a.                                        *)
Split(a, c, b) == a \o (<<c>> \o b)

LEMMA FirstIsThere ==
  ASSUME NEW a \in Seq(Char), NEW b \in Seq(Char), NEW c \in Char,
         Free(a, c)
  PROVE  LET s == Split(a, c, b)
         IN  /\ s \in Seq(Char) /\ c \in Range(s)
             /\ SubSeq(s, 1, FirstAt(s, c) - 1) = a
             /\ SubSeq(s, FirstAt(s, c) + 1, Len(s)) = b
<1> DEFINE s == Split(a, c, b)
           d == <<c>>
           t == d \o b
           i == FirstAt(s, c)
<1>1. d \in Seq(Char) /\ Len(d) = 1 /\ d[1] = c
  OBVIOUS
<1> HIDE DEF d
<1>2. /\ t \in Seq(Char) /\ Len(t) = 1 + Len(b) /\ Len(b) \in Nat
      /\ t[1] = c
  <2>1. /\ t \in Seq(Char) /\ Len(t) = Len(d) + Len(b) /\ Len(b) \in Nat
        /\ \A j \in 1..Len(d) : t[j] = d[j]
    <3>1. d \in Seq(Char)
      BY <1>1
    <3> HIDE DEF t
    <3>2. /\ d \o b \in Seq(Char) /\ Len(d \o b) = Len(d) + Len(b)
          /\ Len(b) \in Nat /\ \A j \in 1..Len(d) : (d \o b)[j] = d[j]
      BY ONLY b \in Seq(Char), <3>1, Joined
    <3> QED
      BY ONLY <3>2 DEF t
  <2> QED
    BY <1>1, <2>1
<1>3. s = a \o t
  BY DEF d, Split
<1> HIDE DEF t, s
<1>4. /\ s \in Seq(Char) /\ Len(s) = Len(a) + Len(t) /\ Len(a) \in Nat
      /\ \A j \in 1..Len(a) : s[j] = a[j]
      /\ \A j \in 1..Len(t) : s[Len(a) + j] = t[j]
      /\ SubSeq(s, 1, Len(a)) = a
      /\ SubSeq(s, Len(a) + 1, Len(s)) = t
  <2>1. t \in Seq(Char)
    BY <1>2
  <2>2. \A u, v \in Seq(Char) :
          /\ u \o v \in Seq(Char) /\ Len(u \o v) = Len(u) + Len(v)
          /\ Len(u) \in Nat
          /\ \A j \in 1..Len(u) : (u \o v)[j] = u[j]
          /\ \A j \in 1..Len(v) : (u \o v)[Len(u) + j] = v[j]
          /\ SubSeq(u \o v, 1, Len(u)) = u
          /\ SubSeq(u \o v, Len(u) + 1, Len(u \o v)) = v
    BY Joined
  <2> QED
    BY ONLY a \in Seq(Char), <1>3, <2>1, <2>2
<1>5. s[Len(a) + 1] = c /\ Len(a) + 1 \in 1..Len(s)
  BY <1>2, <1>4
<1>6. c \in Range(s)
  <2>1. DOMAIN s = 1..Len(s)
    BY <1>4
  <2> QED
    BY <1>5, <2>1 DEF Range
<1>7. i \in 1..Len(s) /\ s[i] = c /\ \A j \in 1..(i - 1) : s[j] # c
  BY ONLY <1>4, <1>6, FirstAtIs
<1> HIDE DEF i
<1>8. i = Len(a) + 1
  <2>1. \A j \in 1..Len(a) : s[j] # c
    BY <1>4 DEF Free
  <2>2. ~(i < Len(a) + 1)
    BY <1>4, <1>7, <2>1
  <2>3. ~(i > Len(a) + 1)
    <3>1. ASSUME i > Len(a) + 1 PROVE FALSE
      <4>1. Len(a) + 1 \in 1..(i - 1)
        BY <1>4, <1>7, <3>1
      <4> QED
        BY <1>5, <1>7, <4>1
    <3> QED
      BY <3>1
  <2> QED
    BY <1>4, <1>7, <2>2, <2>3
<1>9. i - 1 = Len(a) /\ i + 1 = Len(a) + 2
  BY <1>4, <1>8
<1>10. SubSeq(s, Len(a) + 2, Len(s)) = b
  <2> DEFINE ad == a \o d
  <2>1. /\ ad \in Seq(Char) /\ Len(ad) = Len(a) + 1
    <3>1. d \in Seq(Char)
      BY <1>1
    <3>2. Len(d) = 1
      BY <1>1
    <3>3. \A u, v \in Seq(Char) :
            u \o v \in Seq(Char) /\ Len(u \o v) = Len(u) + Len(v)
      BY ConcatProperties
    <3>4. ad \in Seq(Char) /\ Len(ad) = Len(a) + Len(d)
      BY ONLY a \in Seq(Char), <3>1, <3>3
    <3> QED
      BY <3>2, <3>4
  <2>2. s = ad \o b
    <3>1. ad \o b = a \o (d \o b)
      BY ONLY a \in Seq(Char), b \in Seq(Char), <1>1, ConcatAssociative
    <3> QED
      BY <1>3, <3>1 DEF t
  <2> HIDE DEF ad
  <2>3. SubSeq(s, Len(ad) + 1, Len(s)) = b
    BY ONLY b \in Seq(Char), <2>1, <2>2, Joined
  <2>4. Len(ad) + 1 = Len(a) + 2
    BY <1>4, <2>1
  <2> QED
    BY <2>3, <2>4
<1> QED
  BY <1>4, <1>6, <1>9, <1>10 DEF i, s

(* What a browser writes for a character: an escape, or one character that *)
(* the decoder takes for it.                                               *)
LEMMA WrittenForms ==
  ASSUME NEW c \in Char
  PROVE  \/ \E x \in Char : /\ Written(c) = <<x>>
                            /\ x \notin {"%", "&", "="}
                            /\ (x = "+") <=> (c = " ")
                            /\ c # " " => x = c
                            /\ c \notin Escaped
         \/ \E y, z \in Hex : /\ Written(c) = <<"%", y, z>>
                              /\ CharOf(y, z) = c
                              /\ c \in Escaped
<1>1. CASE c = " "
  <2>1. Written(c) = <<"+">> /\ "+" \in Char
    BY <1>1 DEF Written, Char
  <2> QED
    BY <1>1, <2>1 DEF Escaped
<1>2. CASE c = "+"
  <2>1. Written(c) = <<"%", "2", "B">> /\ {"2", "B"} \subseteq Hex
    BY <1>2 DEF Written, Hex
  <2>2. CharOf("2", "B") = "+"
    BY DEF CharOf
  <2> QED
    BY <1>2, <2>1, <2>2 DEF Escaped
<1>3. CASE c = "="
  <2>1. Written(c) = <<"%", "3", "D">> /\ {"3", "D"} \subseteq Hex
    BY <1>3 DEF Written, Hex
  <2>2. CharOf("3", "D") = "="
    BY DEF CharOf
  <2> QED
    BY <1>3, <2>1, <2>2 DEF Escaped
<1>4. CASE c = "&"
  <2>1. Written(c) = <<"%", "2", "6">> /\ {"2", "6"} \subseteq Hex
    BY <1>4 DEF Written, Hex
  <2>2. CharOf("2", "6") = "&"
    BY DEF CharOf
  <2> QED
    BY <1>4, <2>1, <2>2 DEF Escaped
<1>5. CASE c = "%"
  <2>1. Written(c) = <<"%", "2", "5">> /\ {"2", "5"} \subseteq Hex
    BY <1>5 DEF Written, Hex
  <2>2. CharOf("2", "5") = "%"
    BY DEF CharOf
  <2> QED
    BY <1>5, <2>1, <2>2 DEF Escaped
<1>6. CASE c \notin {" ", "+", "=", "&", "%"}
  <2>1. Written(c) = <<c>>
    BY <1>6 DEF Written
  <2> QED
    BY <1>6, <2>1 DEF Escaped
<1> QED
  BY <1>1, <1>2, <1>3, <1>4, <1>5, <1>6
LEMMA HeadThenTail ==
  ASSUME NEW A, NEW v \in Seq(A), v # <<>>
  PROVE  <<v[1]>> \o Tail(v) = v
<1> DEFINE h == <<v[1]>>
           t == Tail(v)
           u == h \o t
<1>1. /\ t \in Seq(A) /\ Len(t) = Len(v) - 1 /\ v[1] \in A
      /\ Len(v) \in Nat /\ Len(v) > 0
      /\ \A i \in 1..Len(t) : t[i] = v[i + 1]
  BY Shorter
<1>2. h \in Seq(A) /\ Len(h) = 1 /\ h[1] = v[1]
  BY <1>1
<1> HIDE DEF h, t
<1>3. /\ u \in Seq(A) /\ Len(u) = 1 + Len(t)
      /\ \A i \in 1..(1 + Len(t)) : u[i] = IF i <= 1 THEN h[i] ELSE t[i - 1]
  <2>1. \A x, y \in Seq(A) :
          /\ x \o y \in Seq(A) /\ Len(x \o y) = Len(x) + Len(y)
          /\ \A i \in 1..(Len(x) + Len(y)) :
               (x \o y)[i] = IF i <= Len(x) THEN x[i] ELSE y[i - Len(x)]
    BY ConcatProperties
  <2>2. h \in Seq(A) /\ t \in Seq(A)
    BY <1>1, <1>2
  <2>3. /\ u \in Seq(A) /\ Len(u) = Len(h) + Len(t)
        /\ \A i \in 1..(Len(h) + Len(t)) :
             u[i] = IF i <= Len(h) THEN h[i] ELSE t[i - Len(h)]
    BY ONLY <2>1, <2>2
  <2>4. Len(h) = 1
    BY <1>2
  <2> QED
    BY ONLY <2>3, <2>4
<1> HIDE DEF u
<1>4. Len(u) = Len(v)
  BY <1>1, <1>3
<1>5. ASSUME NEW i \in 1..Len(u) PROVE u[i] = v[i]
  <2>1. CASE i = 1
    BY <1>1, <1>2, <1>3, <2>1
  <2>2. CASE i # 1
    <3>1. i - 1 \in 1..Len(t) /\ (i - 1) + 1 = i /\ ~(i <= 1)
      BY <1>1, <1>4, <2>2
    <3> QED
      BY <1>1, <1>3, <3>1
  <2> QED
    BY <2>1, <2>2
<1>6. u = v
  BY ONLY v \in Seq(A), <1>3, <1>4, <1>5, SeqEqual
<1> QED
  BY <1>6 DEF u, h, t

(* What a browser writes, e, begins with the n characters that it writes   *)
(* for the first character, c: with one (Short) or an escape (Long).       *)
Short(e, n, c) ==
  /\ n = 1 /\ e[1] \notin {"%", "&", "="}
  /\ (e[1] = "+") <=> (c = " ")
  /\ c # " " => e[1] = c
  /\ c \notin Escaped

Long(e, n, c) ==
  /\ n = 3 /\ e[1] = "%" /\ e[2] \in Hex /\ e[3] \in Hex
  /\ CharOf(e[2], e[3]) = c /\ c \in Escaped

Begins(e, n, rest, c) ==
  /\ n \in {1, 3} /\ Len(e) = n + Len(rest)
  /\ \A i \in 1..Len(rest) : e[n + i] = rest[i]
  /\ SubSeq(e, n + 1, Len(e)) = rest
  /\ Short(e, n, c) \/ Long(e, n, c)

LEMMA WrittenThere ==
  ASSUME NEW v \in Seq(Char), v # <<>>
  PROVE  \E n \in {1, 3} : Begins(Encoded[v], n, Encoded[Tail(v)], v[1])
<1> DEFINE e == Encoded[v]
           rest == Encoded[Tail(v)]
           w == Written(v[1])
<1>1. v[1] \in Char /\ Tail(v) \in Seq(Char)
  BY Shorter
<1>2. e = w \o rest /\ rest \in Seq(Char)
  BY <1>1, EncodedIs
<1>3. w \in Seq(Char)
  BY <1>1, WrittenIs
<1>4. \/ \E x \in Char : /\ w = <<x>>
                         /\ x \notin {"%", "&", "="}
                         /\ (x = "+") <=> (v[1] = " ")
                         /\ v[1] # " " => x = v[1]
                         /\ v[1] \notin Escaped
      \/ \E y, z \in Hex : /\ w = <<"%", y, z>>
                           /\ CharOf(y, z) = v[1]
                           /\ v[1] \in Escaped
  BY ONLY <1>1, WrittenForms
<1> HIDE DEF e, rest, w
<1>5. /\ e \in Seq(Char) /\ Len(e) = Len(w) + Len(rest)
      /\ \A i \in 1..Len(w) : e[i] = w[i]
      /\ \A i \in 1..Len(rest) : e[Len(w) + i] = rest[i]
      /\ SubSeq(e, Len(w) + 1, Len(e)) = rest
  BY ONLY <1>2, <1>3, Joined
<1>5a. \A x, y, z : Len(<<x>>) = 1 /\ Len(<<x, y, z>>) = 3
                   /\ <<x>>[1] = x /\ <<x, y, z>>[1] = x
                   /\ <<x, y, z>>[2] = y /\ <<x, y, z>>[3] = z
  OBVIOUS
<1>5b. 1 \in 1..1 /\ {1, 2, 3} \subseteq 1..3 /\ 1 # 3
  OBVIOUS
<1>6. CASE Len(w) = 1
  <2>1. PICK x \in Char : /\ w = <<x>>
                          /\ x \notin {"%", "&", "="}
                          /\ (x = "+") <=> (v[1] = " ")
                          /\ v[1] # " " => x = v[1]
                          /\ v[1] \notin Escaped
    BY ONLY <1>4, <1>5a, <1>5b, <1>6
  <2>2. e[1] = x
    BY ONLY <1>5, <1>5a, <1>5b, <1>6, <2>1
  <2>3. 1 \in {1, 3}
    OBVIOUS
  <2> QED
    BY <1>5, <1>6, <2>1, <2>2, <2>3 DEF e, rest, Begins, Short
<1>7. CASE Len(w) # 1
  <2>1. PICK y, z \in Hex : /\ w = <<"%", y, z>>
                            /\ CharOf(y, z) = v[1]
                            /\ v[1] \in Escaped
    BY ONLY <1>4, <1>5a, <1>5b, <1>7
  <2>2. Len(w) = 3 /\ w[1] = "%" /\ w[2] = y /\ w[3] = z
    BY <2>1
  <2>3. e[1] = "%" /\ e[2] = y /\ e[3] = z
    BY <1>5, <2>2
  <2>4. 3 \in {1, 3}
    OBVIOUS
  <2> QED
    BY <1>5, <2>1, <2>2, <2>3, <2>4 DEF e, rest, Begins, Long
<1> QED
  BY <1>6, <1>7

(* An escape at position i, counted from 1.                                *)
EscapeAt(e, i) ==
  i + 2 <= Len(e) /\ e[i] = "%" /\ e[i + 1] \in Hex /\ e[i + 2] \in Hex

(* What holds of what a browser writes for v: no delimiter in it, a plus   *)
(* for a space only, escapes that are complete, a plus behind an escape    *)
(* only for a space behind an escaped character; and it means v.           *)
Delimited(e) == \A i \in 1..Len(e) : e[i] \notin {"&", "="}
Complete(e) == \A i \in 1..Len(e) : e[i] = "%" => EscapeAt(e, i)
Spaces(e, v) ==
  \A i \in 1..Len(e) : e[i] = "+" => \E j \in 1..Len(v) : v[j] = " "
Ordered(e, v) ==
  \A i, j \in 1..Len(e) :
    i < j /\ e[i] = "%" /\ e[j] = "+"
    => \E k, m \in 1..Len(v) : k < m /\ v[k] \in Escaped /\ v[m] = " "
Encodes(e, v) ==
  Delimited(e) /\ Complete(e) /\ Spaces(e, v) /\ Ordered(e, v)
    /\ Meaning[e] = v

LEMMA EscapeAtIs ==
  ASSUME NEW e \in Seq(Char), NEW i \in 1..Len(e)
  PROVE  EscapeAt(e, i) <=> IsEscape(e, i - 1)
<1>1. /\ i \in Nat /\ Len(e) \in Nat
      /\ (i - 1) + 1 = i /\ ((i - 1) + 1) + 1 = i + 1
      /\ ((i - 1) + 2) + 1 = i + 2
      /\ (i - 1) + 2 < Len(e) <=> i + 2 <= Len(e)
  OBVIOUS
<1>2. /\ At(e, i - 1) = e[i] /\ At(e, (i - 1) + 1) = e[i + 1]
      /\ At(e, (i - 1) + 2) = e[i + 2]
  BY <1>1 DEF At
<1> QED
  BY <1>1, <1>2 DEF EscapeAt, IsEscape

(* One more character in front.                                            *)
LEMMA EncodesStep ==
  ASSUME NEW v \in Seq(Char), v # <<>>, NEW n \in {1, 3},
         Begins(Encoded[v], n, Encoded[Tail(v)], v[1]),
         Encodes(Encoded[Tail(v)], Tail(v))
  PROVE  Encodes(Encoded[v], v)
<1> DEFINE e == Encoded[v]
           t == Tail(v)
           r == Encoded[t]
<1>0. Begins(e, n, r, v[1]) /\ Encodes(r, t)
  OBVIOUS
<1>a. e \in Seq(Char) /\ t \in Seq(Char) /\ r \in Seq(Char)
  BY Shorter, EncodedIs
<1>b. /\ Len(v) = Len(t) + 1 /\ v[1] \in Char
      /\ \A i \in 1..Len(t) : v[i + 1] = t[i]
  BY Shorter
<1>c. <<v[1]>> \o t = v
  BY HeadThenTail
<1> HIDE DEF e, t, r
<1>d. /\ n \in {1, 3} /\ Len(e) = n + Len(r)
      /\ \A i \in 1..Len(r) : e[n + i] = r[i]
      /\ SubSeq(e, n + 1, Len(e)) = r
  BY <1>0 DEF Begins
<1>e. \/ Short(e, n, v[1]) \/ Long(e, n, v[1])
  BY <1>0 DEF Begins
<1>1. /\ Len(t) \in Nat /\ Len(r) \in Nat /\ Len(e) \in Nat
      /\ Len(v) = Len(t) + 1 /\ n \in Nat /\ Len(e) = n + Len(r)
      /\ n \in {1, 3} /\ n > 0
      /\ \A i \in 1..Len(t) : v[i + 1] = t[i]
  BY ONLY <1>a, <1>b, <1>d
<1>2. "%" \notin Hex /\ "+" \notin Hex /\ "&" \notin Hex /\ "=" \notin Hex
  BY DEF Hex
<1>3. ASSUME NEW i \in 1..Len(e), i > n
      PROVE  i - n \in 1..Len(r) /\ e[i] = r[i - n]
  <2>1. i - n \in 1..Len(r) /\ n + (i - n) = i
    BY ONLY <1>1, <1>3, i \in 1..Len(e)
  <2> QED
    BY ONLY <1>d, <2>1
<1>4. ASSUME NEW i \in 1..Len(e), ~(i > n)
      PROVE  \/ i = 1
             \/ n = 3 /\ i \in {2, 3} /\ e[i] \in Hex
  <2>1. i = 1 \/ (n = 3 /\ i \in {2, 3})
    BY ONLY <1>1, <1>4, i \in 1..Len(e)
  <2>2. n = 3 => e[2] \in Hex /\ e[3] \in Hex
    BY ONLY <1>e DEF Short, Long
  <2> QED
    BY ONLY <2>1, <2>2
<1>f. n = 3 => e[1] = "%" /\ v[1] \in Escaped /\ CharOf(e[2], e[3]) = v[1]
  BY ONLY <1>e DEF Short, Long
<1>g. n = 1 => /\ e[1] \notin {"%", "&", "="}
               /\ (e[1] = "+") <=> (v[1] = " ")
               /\ v[1] # " " => e[1] = v[1]
  <2>1. n = 1 => Short(e, n, v[1])
    BY ONLY <1>e DEF Long
  <2> QED
    BY ONLY <2>1 DEF Short
<1>h. ASSUME NEW j \in 1..Len(t) PROVE j + 1 \in 1..Len(v) /\ v[j + 1] = t[j]
  <2>1. j + 1 \in 1..Len(v)
    <3>1. Len(t) \in Nat /\ Len(v) = Len(t) + 1
      BY <1>1
    <3> QED
      BY ONLY <3>1, j \in 1..Len(t)
  <2> QED
    BY <1>1, <2>1
<1>i. 1 \in 1..Len(v)
  <2>1. Len(t) \in Nat /\ Len(v) = Len(t) + 1
    BY <1>1
  <2> QED
    BY ONLY <2>1
<1>5. Delimited(e)
  <2> SUFFICES ASSUME NEW i \in 1..Len(e) PROVE e[i] \notin {"&", "="}
    BY DEF Delimited
  <2>1. CASE i > n
    BY <1>0, <1>3, <2>1 DEF Encodes, Delimited
  <2>2. CASE ~(i > n)
    BY <1>1, <1>2, <1>4, <1>f, <1>g, <2>2
  <2> QED
    BY <2>1, <2>2
<1>6. Complete(e)
  <2> SUFFICES ASSUME NEW i \in 1..Len(e), e[i] = "%" PROVE EscapeAt(e, i)
    BY DEF Complete
  <2>1. CASE i > n
    <3>1. i - n \in 1..Len(r) /\ r[i - n] = "%"
      BY <1>3, <2>1
    <3>2. EscapeAt(r, i - n)
      BY <1>0, <3>1 DEF Encodes, Complete
    <3>3. (i - n) + 2 <= Len(r) /\ r[(i - n) + 1] \in Hex
                                /\ r[(i - n) + 2] \in Hex
      BY <3>2 DEF EscapeAt
    <3>4. /\ (i - n) + 1 \in 1..Len(r) /\ n + ((i - n) + 1) = i + 1
          /\ (i - n) + 2 \in 1..Len(r) /\ n + ((i - n) + 2) = i + 2
          /\ i + 2 <= Len(e)
      <4>1. i \in Int /\ n \in Int /\ Len(r) \in Int
        BY <1>1
      <4> QED
        BY ONLY <1>1, <3>1, <3>3, <4>1
    <3>5. e[i + 1] \in Hex /\ e[i + 2] \in Hex
      BY ONLY <1>d, <3>3, <3>4
    <3> QED
      BY <3>4, <3>5 DEF EscapeAt
  <2>2. CASE ~(i > n)
    <3>1. i = 1 /\ n = 3
      BY <1>1, <1>2, <1>4, <1>g, <2>2
    <3>2. 1 + 2 = 3 /\ 1 + 1 = 2 /\ 3 <= Len(e)
      BY ONLY <1>1, <3>1
    <3>3. e[2] \in Hex /\ e[3] \in Hex
      BY ONLY <1>e, <3>1 DEF Short, Long
    <3> QED
      BY <1>f, <3>1, <3>2, <3>3 DEF EscapeAt
  <2> QED
    BY <2>1, <2>2
<1>7. Spaces(e, v)
  <2> SUFFICES ASSUME NEW i \in 1..Len(e), e[i] = "+"
               PROVE  \E j \in 1..Len(v) : v[j] = " "
    BY DEF Spaces
  <2>1. CASE i > n
    <3>1. i - n \in 1..Len(r) /\ r[i - n] = "+"
      BY <1>3, <2>1
    <3>2. PICK j \in 1..Len(t) : t[j] = " "
      BY <1>0, <3>1 DEF Encodes, Spaces
    <3>3. j + 1 \in 1..Len(v) /\ v[j + 1] = " "
      BY ONLY <1>h, <3>2, j \in 1..Len(t)
    <3> QED
      BY <3>3
  <2>2. CASE ~(i > n)
    <3>1. v[1] = " " /\ 1 \in 1..Len(v)
      <4>1. v[1] = " "
        <5>1. i = 1 \/ e[i] \in Hex
          BY ONLY <1>4, <2>2, i \in 1..Len(e)
        <5>2. i = 1 /\ e[1] = "+"
          BY ONLY <1>2, <5>1, e[i] = "+"
        <5>3. n = 1
          BY ONLY <1>1, <1>f, <5>2
        <5> QED
          BY ONLY <1>g, <5>2, <5>3
      <4> QED
        BY ONLY <1>i, <4>1
    <3> QED
      BY <3>1
  <2> QED
    BY <2>1, <2>2
<1>8. Ordered(e, v)
  <2> SUFFICES ASSUME NEW i \in 1..Len(e), NEW j \in 1..Len(e),
                      i < j, e[i] = "%", e[j] = "+"
               PROVE  \E k, m \in 1..Len(v) :
                        k < m /\ v[k] \in Escaped /\ v[m] = " "
    BY DEF Ordered
  <2>1. CASE i > n
    <3>1. j > n /\ i - n < j - n
      BY ONLY <1>1, <2>1, i < j, i \in 1..Len(e), j \in 1..Len(e)
    <3>2. /\ i - n \in 1..Len(r) /\ r[i - n] = "%"
          /\ j - n \in 1..Len(r) /\ r[j - n] = "+"
      BY <1>3, <2>1, <3>1
    <3>3. PICK k \in 1..Len(t), m \in 1..Len(t) :
                 k < m /\ t[k] \in Escaped /\ t[m] = " "
      BY <1>0, <3>1, <3>2 DEF Encodes, Ordered
    <3>4. /\ k + 1 \in 1..Len(v) /\ m + 1 \in 1..Len(v) /\ k + 1 < m + 1
          /\ v[k + 1] \in Escaped /\ v[m + 1] = " "
      <4>1. k + 1 < m + 1
        <5>1. Len(t) \in Nat
          BY <1>1
        <5>2. k \in Int /\ m \in Int
          BY ONLY <5>1, k \in 1..Len(t), m \in 1..Len(t)
        <5>3. k < m
          BY <3>3
        <5> QED
          BY ONLY <5>2, <5>3
      <4> QED
        BY ONLY <1>h, <3>3, <4>1, k \in 1..Len(t), m \in 1..Len(t)
    <3> QED
      BY <3>4
  <2>2. CASE ~(i > n)
    <3>1. i = 1 /\ n = 3 /\ v[1] \in Escaped
      BY <1>1, <1>2, <1>4, <1>f, <1>g, <2>2
    <3>2. j > n
      <4>1. j # 1
        BY <3>1
      <4> QED
        BY <1>2, <1>4, <4>1
    <3>3. j - n \in 1..Len(r) /\ r[j - n] = "+"
      BY <1>3, <3>2
    <3>4. PICK m \in 1..Len(t) : t[m] = " "
      BY <1>0, <3>3 DEF Encodes, Spaces
    <3>5. /\ 1 \in 1..Len(v) /\ m + 1 \in 1..Len(v) /\ 1 < m + 1
          /\ v[m + 1] = " "
      <4>1. 1 < m + 1
        OBVIOUS
      <4> QED
        BY ONLY <1>h, <1>i, <3>4, <4>1, m \in 1..Len(t)
    <3> QED
      BY <3>1, <3>5
  <2> QED
    BY <2>1, <2>2
<1>9. Meaning[e] = v
  <2>1. Meaning[r] = t /\ <<v[1]>> \o t = v
    BY <1>0, <1>c DEF Encodes
  <2>2. 1 \in 1..Len(e) /\ 1 - 1 = 0 /\ 1 + 2 = 3 /\ 1 + 1 = 2 /\ 3 + 1 = 4
    BY ONLY <1>1
  <2>a. e # <<>>
    <3>1. Len(<<>>) = 0
      OBVIOUS
    <3> QED
      BY ONLY <1>1, <3>1
  <2>3. IsEscape(e, 0) <=> EscapeAt(e, 1)
    <3>1. EscapeAt(e, 1) <=> IsEscape(e, 1 - 1)
      BY ONLY <1>a, <2>2, EscapeAtIs
    <3> QED
      BY <2>2, <3>1
  <2>4. Meaning[e] =
          IF e = <<>> THEN <<>>
          ELSE IF IsEscape(e, 0)
          THEN <<CharOf(e[2], e[3])>> \o Meaning[SubSeq(e, 4, Len(e))]
          ELSE <<IF e[1] = "+" THEN " " ELSE e[1]>> \o Meaning[Tail(e)]
    BY <1>a, MeaningIs
  <2>5. CASE n = 3
    <3>1. EscapeAt(e, 1)
      <4>1. e[1] = "%"
        BY <1>f, <2>5
      <4> QED
        BY <1>6, <2>2, <4>1 DEF Complete
    <3>2. SubSeq(e, 4, Len(e)) = r
      BY ONLY <1>d, <2>2, <2>5
    <3>3. Meaning[e] = <<CharOf(e[2], e[3])>> \o Meaning[SubSeq(e, 4, Len(e))]
      BY <2>a, <2>3, <2>4, <3>1
    <3> QED
      BY <1>f, <2>1, <2>5, <3>2, <3>3
  <2>6. CASE n = 1
    <3>1. ~IsEscape(e, 0)
      BY <1>g, <2>3, <2>6 DEF EscapeAt
    <3>2. (IF e[1] = "+" THEN " " ELSE e[1]) = v[1]
      BY ONLY <1>g, <2>6
    <3>3. Tail(e) = r
      <4>1. Tail(e) = SubSeq(e, 2, Len(e))
        BY ONLY <1>a, <2>a, TailIsSubSeq
      <4> QED
        BY ONLY <1>d, <2>2, <2>6, <4>1
    <3>4. Meaning[e] = <<IF e[1] = "+" THEN " " ELSE e[1]>> \o Meaning[Tail(e)]
      BY <2>a, <2>4, <3>1
    <3> QED
      BY <2>1, <3>2, <3>3, <3>4
  <2> QED
    BY <2>5, <2>6
<1> QED
  BY <1>5, <1>6, <1>7, <1>8, <1>9 DEF Encodes, e

LEMMA EncodedEncodes ==
  ASSUME NEW v \in Seq(Char)
  PROVE  Encodes(Encoded[v], v)
<1> DEFINE S == Seq(Char)
           size == [s \in S |-> Len(s)]
           good == {s \in S : Encodes(Encoded[s], s)}
<1>1. size \in [S -> Nat]
  OBVIOUS
<1>2. ASSUME NEW s \in S, \A u \in S : size[u] < size[s] => u \in good
      PROVE  s \in good
  <2>1. CASE s = <<>>
    <3>1. Encoded[s] = <<>> /\ Meaning[<<>>] = <<>> /\ <<>> \in Seq(Char)
      <4>1. <<>> \in Seq(Char)
        OBVIOUS
      <4> QED
        BY <2>1, <4>1, EncodedIs, MeaningIs
    <3>2. Len(<<>>) = 0
      OBVIOUS
    <3>3. Encodes(<<>>, <<>>)
      BY <3>1, <3>2 DEF Encodes, Delimited, Complete, Spaces, Ordered
    <3> QED
      BY <2>1, <3>1, <3>3
  <2>2. CASE s # <<>>
    <3>1. Tail(s) \in Seq(Char) /\ Len(Tail(s)) < Len(s)
      BY <2>2, Shorter
    <3>2. Encodes(Encoded[Tail(s)], Tail(s))
      BY <1>2, <3>1
    <3> HIDE DEF good
    <3>a. s \in Seq(Char)
      OBVIOUS
    <3>b. PICK n \in {1, 3} : Begins(Encoded[s], n, Encoded[Tail(s)], s[1])
      BY ONLY <2>2, <3>a, WrittenThere
    <3>3. Encodes(Encoded[s], s)
      BY ONLY <2>2, <3>2, <3>a, <3>b, n \in {1, 3}, EncodesStep
    <3> QED
      BY <3>3 DEF good
  <2> QED
    BY <2>1, <2>2
<1> HIDE DEF S, size, good
<1>3. S \subseteq good
  BY <1>1, <1>2, Induction
<1> QED
  BY <1>3 DEF S, good

Plain(s) == \A i \in 1..Len(s) : s[i] \notin Escaped \cup {" "}

(* A key without characters that are written otherwise is written as it    *)
(* is.                                                                     *)
LEMMA EncodedAsIs ==
  ASSUME NEW v \in Seq(Char), Plain(v)
  PROVE  Encoded[v] = v
<1> DEFINE S == Seq(Char)
           size == [s \in S |-> Len(s)]
           good == {s \in S : Plain(s) => Encoded[s] = s}
<1>1. size \in [S -> Nat]
  OBVIOUS
<1>2. ASSUME NEW s \in S, \A u \in S : size[u] < size[s] => u \in good
      PROVE  s \in good
  <2>1. CASE s = <<>>
    BY <2>1, EncodedIs
  <2>2. CASE s # <<>>
    <3>1. /\ Tail(s) \in Seq(Char) /\ Len(Tail(s)) = Len(s) - 1
          /\ Len(s) \in Nat /\ Len(s) > 0 /\ s[1] \in Char
          /\ \A i \in 1..Len(Tail(s)) : Tail(s)[i] = s[i + 1]
      BY <2>2, Shorter
    <3>2. Plain(Tail(s)) => Encoded[Tail(s)] = Tail(s)
      <4>1. size[Tail(s)] < size[s]
        BY <3>1
      <4> QED
        BY <1>2, <3>1, <4>1
    <3>3. ASSUME Plain(s) PROVE Encoded[s] = s
      <4>1. Plain(Tail(s))
        <5>1. ASSUME NEW i \in 1..Len(Tail(s))
              PROVE  Tail(s)[i] \notin Escaped \cup {" "}
          <6>1. i + 1 \in 1..Len(s)
            BY ONLY <3>1, i \in 1..Len(Tail(s))
          <6> QED
            BY <3>1, <3>3, <6>1 DEF Plain
        <5> QED
          BY <5>1 DEF Plain
      <4>2. s[1] \notin Escaped \cup {" "}
        <5>1. 1 \in 1..Len(s)
          BY ONLY <3>1
        <5> QED
          BY ONLY <3>3, <5>1 DEF Plain
      <4>3. Written(s[1]) = <<s[1]>>
        BY <4>2 DEF Written, Escaped
      <4>4. Encoded[s] = <<s[1]>> \o Tail(s)
        BY <2>2, <3>2, <4>1, <4>3, EncodedIs
      <4> QED
        BY <2>2, <4>4, HeadThenTail
    <3> QED
      BY <3>3
  <2> QED
    BY <2>1, <2>2
<1> HIDE DEF S, size, good
<1>3. S \subseteq good
  BY <1>1, <1>2, Induction
<1> QED
  BY <1>3 DEF S, good

-----------------------------------------------------------------------------
(* A field of a query: its key, an equals sign, its value.                 *)
LEMMA FieldForms ==
  ASSUME NEW p \in Params
  PROVE  /\ p[1] \in Seq(Char) /\ p[2] \in Seq(Char)
         /\ Encoded[p[1]] \in Seq(Char) /\ Encoded[p[2]] \in Seq(Char)
         /\ Field(p) = Encoded[p[1]] \o (<<"=">> \o Encoded[p[2]])
         /\ Len(Field(p)) = Len(Encoded[p[1]]) + 1 + Len(Encoded[p[2]])
         /\ Free(Field(p), "&")
<1> DEFINE a == Encoded[p[1]]
           b == Encoded[p[2]]
           d == <<"=">>
<1>1. p[1] \in Seq(Char) /\ p[2] \in Seq(Char)
  BY DEF Params
<1>2. a \in Seq(Char) /\ b \in Seq(Char)
  BY <1>1, EncodedIs
<1>3. Free(a, "&") /\ Free(b, "&")
  BY <1>1, EncodedEncodes DEF Encodes, Delimited, Free
<1>4. d \in Seq(Char) /\ Len(d) = 1 /\ Free(d, "&")
  BY DEF Char, Free
<1> HIDE DEF a, b, d
<1>5. /\ (a \o d) \o b = a \o (d \o b)
      /\ a \o d \in Seq(Char) /\ d \o b \in Seq(Char)
  BY ONLY <1>2, <1>4, ConcatAssociative, ConcatProperties
<1>6. Free(a \o d, "&")
  BY ONLY <1>2, <1>3, <1>4, FreeJoined
<1>7. Free((a \o d) \o b, "&")
  BY ONLY <1>2, <1>3, <1>5, <1>6, FreeJoined
<1>8. Len((a \o d) \o b) = Len(a) + 1 + Len(b)
  <2>1. \A x, y \in Seq(Char) : Len(x \o y) = Len(x) + Len(y)
    BY ConcatProperties
  <2>2. Len(a \o d) = Len(a) + Len(d)
    BY ONLY <1>2, <1>4, <2>1
  <2>3. Len((a \o d) \o b) = Len(a \o d) + Len(b)
    BY ONLY <1>2, <1>5, <2>1
  <2> QED
    BY ONLY <1>4, <2>2, <2>3
<1>9. Field(p) = (a \o d) \o b
  BY DEF Field, a, b, d
<1> QED
  BY <1>1, <1>2, <1>5, <1>7, <1>8, <1>9 DEF a, b, d

(* The fields of the query that a browser writes.                          *)
FieldsOf(form) ==
  /\ Fields[Query[form]] \in Seq(Seq(Char))
  /\ Len(Fields[Query[form]]) = Len(form)
  /\ Len(Query[form]) > 0
  /\ \A k \in 1..Len(form) :
       /\ Fields[Query[form]][k] = Field(form[k])
       /\ Len(Field(form[k])) <= Len(Query[form])

LEMMA FieldsOfOne ==
  ASSUME NEW form \in Seq(Params), form # <<>>, Tail(form) = <<>>
  PROVE  FieldsOf(form)
<1> DEFINE f == Field(form[1])
<1>1. form[1] \in Params /\ Len(form) \in Nat /\ Len(<<>>) = Len(form) - 1
  BY Shorter
<1>2. Len(<<>>) = 0
  OBVIOUS
<1>3. Len(form) = 1
  BY ONLY <1>1, <1>2
<1>4. f \in Seq(Char) /\ Free(f, "&") /\ Len(f) > 0
  <2>1. /\ f \in Seq(Char) /\ Free(f, "&")
        /\ Encoded[form[1][1]] \in Seq(Char)
        /\ Encoded[form[1][2]] \in Seq(Char)
        /\ Len(f) = Len(Encoded[form[1][1]]) + 1 + Len(Encoded[form[1][2]])
    BY ONLY <1>1, FieldIs, FieldForms
  <2> HIDE DEF f
  <2>2. \A x \in Seq(Char) : Len(x) \in Nat
    OBVIOUS
  <2>3. /\ Len(Encoded[form[1][1]]) \in Nat
        /\ Len(Encoded[form[1][2]]) \in Nat
    BY ONLY <2>1, <2>2
  <2> DEFINE x == Len(Encoded[form[1][1]])
             y == Len(Encoded[form[1][2]])
  <2>5. x \in Nat /\ y \in Nat /\ Len(f) = x + 1 + y
    BY ONLY <2>1, <2>3
  <2> HIDE DEF x, y
  <2>4. Len(f) > 0
    BY ONLY <2>5
  <2> QED
    BY ONLY <2>1, <2>4
<1> HIDE DEF f
<1>5. Query[form] = f
  <2>1. Query[form] = f \o <<>>
    BY QueryIs DEF f
  <2> QED
    BY ONLY <1>4, <2>1, ConcatEmptySeq
<1>6. "&" \notin Range(f)
  <2>1. DOMAIN f = 1..Len(f)
    BY <1>4
  <2> QED
    BY <1>4, <2>1 DEF Free, Range
<1>7. Fields[f] = <<f>>
  BY ONLY <1>4, <1>6, FieldsIs
<1>8. <<f>> \in Seq(Seq(Char)) /\ Len(<<f>>) = 1 /\ <<f>>[1] = f
  BY <1>4
<1>9. ASSUME NEW k \in 1..Len(form)
      PROVE  Fields[Query[form]][k] = Field(form[k])
             /\ Len(Field(form[k])) <= Len(Query[form])
  <2>1. k = 1
    BY ONLY <1>3, k \in 1..Len(form)
  <2>2. Len(f) <= Len(f)
    <3>1. Len(f) \in Nat
      BY <1>4
    <3> QED
      BY ONLY <3>1
  <2> QED
    BY <1>5, <1>7, <1>8, <2>1, <2>2 DEF f
<1> QED
  BY <1>3, <1>4, <1>5, <1>7, <1>8, <1>9 DEF FieldsOf

LEMMA FieldsOfMore ==
  ASSUME NEW form \in Seq(Params), form # <<>>, Tail(form) # <<>>,
         FieldsOf(Tail(form))
  PROVE  FieldsOf(form)
<1> DEFINE f == Field(form[1])
           t == Tail(form)
           q == Query[t]
           s == Query[form]
           d == <<"&">>
           g == <<f>>
           r == Fields[q]
<1>1. /\ form[1] \in Params /\ Len(form) \in Nat /\ Len(t) = Len(form) - 1
      /\ t \in Seq(Params)
      /\ \A i \in 1..Len(t) : t[i] = form[i + 1]
  BY Shorter
<1>2. f \in Seq(Char) /\ Free(f, "&") /\ Len(f) \in Nat
  <2>1. f \in Seq(Char) /\ Free(f, "&")
    BY ONLY <1>1, FieldIs, FieldForms
  <2> HIDE DEF f
  <2> QED
    BY <2>1
<1>3. q \in Seq(Char)
  BY ONLY <1>1, QueryIs
<1>4. s = f \o (d \o q)
  BY QueryIs
<1>5. /\ r \in Seq(Seq(Char)) /\ Len(r) = Len(t) /\ Len(q) > 0
      /\ \A k \in 1..Len(t) : r[k] = Field(t[k]) /\ Len(Field(t[k])) <= Len(q)
  BY DEF FieldsOf
<1>6. "&" \in Char /\ d \in Seq(Char) /\ Len(d) = 1
  BY DEF Char
<1>7. g \in Seq(Seq(Char)) /\ Len(g) = 1 /\ g[1] = f
  BY <1>2
<1> HIDE DEF f, t, q, s, d, g, r
<1>8. /\ s \in Seq(Char) /\ "&" \in Range(s)
      /\ SubSeq(s, 1, FirstAt(s, "&") - 1) = f
      /\ SubSeq(s, FirstAt(s, "&") + 1, Len(s)) = q
  <2>1. s = Split(f, "&", q)
    BY <1>4 DEF d, Split
  <2>2. f \in Seq(Char) /\ Free(f, "&")
    BY <1>2
  <2>3. "&" \in Char
    BY <1>6
  <2>4. LET z == Split(f, "&", q)
        IN  /\ z \in Seq(Char) /\ "&" \in Range(z)
            /\ SubSeq(z, 1, FirstAt(z, "&") - 1) = f
            /\ SubSeq(z, FirstAt(z, "&") + 1, Len(z)) = q
    BY ONLY <1>3, <2>2, <2>3, FirstIsThere
  <2> QED
    BY ONLY <2>1, <2>4
<1>9. Fields[s] = g \o r
  <2>1. Fields[s] = <<SubSeq(s, 1, FirstAt(s, "&") - 1)>>
                      \o Fields[SubSeq(s, FirstAt(s, "&") + 1, Len(s))]
    BY ONLY <1>8, FieldsIs
  <2> QED
    BY <1>8, <2>1 DEF g, r
<1>10. /\ g \o r \in Seq(Seq(Char)) /\ Len(g \o r) = Len(g) + Len(r)
       /\ \A i \in 1..Len(g) : (g \o r)[i] = g[i]
       /\ \A i \in 1..Len(r) : (g \o r)[Len(g) + i] = r[i]
  <2>1. g \in Seq(Seq(Char)) /\ r \in Seq(Seq(Char))
    BY <1>5, <1>7
  <2> QED
    BY ONLY <2>1, Joined
<1>11. Len(s) = Len(f) + 1 + Len(q) /\ Len(q) \in Nat
  <2>1. \A x, y \in Seq(Char) : /\ x \o y \in Seq(Char)
                               /\ Len(x \o y) = Len(x) + Len(y)
    BY ConcatProperties
  <2>2. d \o q \in Seq(Char) /\ Len(d \o q) = Len(d) + Len(q)
    BY ONLY <1>3, <1>6, <2>1
  <2>3. Len(s) = Len(f) + Len(d \o q)
    BY ONLY <1>2, <1>4, <2>1, <2>2
  <2>4. Len(q) \in Nat /\ Len(f) \in Nat /\ Len(d) = 1
    BY <1>2, <1>3, <1>6
  <2> QED
    BY ONLY <2>2, <2>3, <2>4
<1>12. ASSUME NEW k \in 1..Len(form)
       PROVE  Fields[s][k] = Field(form[k]) /\ Len(Field(form[k])) <= Len(s)
  <2>1. CASE k = 1
    <3>1. (g \o r)[1] = f
      <4>1. 1 \in 1..Len(g)
        BY <1>7
      <4> QED
        BY ONLY <1>7, <1>10, <4>1
    <3>2. Len(f) <= Len(s)
      BY ONLY <1>2, <1>11
    <3> QED
      BY <1>9, <2>1, <3>1, <3>2 DEF f
  <2>2. CASE k # 1
    <3>1. PICK j \in 1..Len(t) : k = j + 1
      <4>1. k - 1 \in 1..Len(t) /\ k = (k - 1) + 1
        BY ONLY <1>1, <2>2, k \in 1..Len(form)
      <4> QED
        BY <4>1
    <3>2. t[j] = form[k] /\ r[j] = Field(t[j]) /\ Len(Field(t[j])) <= Len(q)
      BY <1>1, <1>5, <3>1
    <3>3. (g \o r)[k] = r[j]
      <4>1. 1 + j = k
        BY <3>1
      <4>2. j \in 1..Len(r)
        BY <1>5
      <4> QED
        BY ONLY <1>7, <1>10, <4>1, <4>2
    <3>4. Len(Field(t[j])) <= Len(s)
      <4>1. t[j] \in Params
        BY <1>1, ElementOfSeq
      <4>2. Field(t[j]) \in Seq(Char)
        BY <4>1, FieldIs
      <4>3. Len(Field(t[j])) \in Nat
        BY <4>2
      <4> QED
        BY ONLY <1>2, <1>11, <3>2, <4>3
    <3> QED
      BY <1>9, <3>2, <3>3, <3>4
  <2> QED
    BY <2>1, <2>2
<1>13. Len(Fields[s]) = Len(form) /\ Fields[s] \in Seq(Seq(Char))
  <2>1. Len(g \o r) = Len(form)
    BY ONLY <1>1, <1>5, <1>7, <1>10
  <2> QED
    BY ONLY <1>9, <1>10, <2>1
<1>14. Len(s) > 0
  BY ONLY <1>2, <1>11
<1> QED
  BY <1>12, <1>13, <1>14 DEF FieldsOf, s

LEMMA FieldsOfForm ==
  ASSUME NEW form \in Seq(Params), form # <<>>
  PROVE  FieldsOf(form)
<1> DEFINE S == Seq(Params)
           size == [s \in S |-> Len(s)]
           good == {s \in S : s # <<>> => FieldsOf(s)}
<1>1. size \in [S -> Nat]
  OBVIOUS
<1>2. ASSUME NEW s \in S, \A u \in S : size[u] < size[s] => u \in good
      PROVE  s \in good
  <2>1. CASE s = <<>>
    BY <2>1
  <2>2. CASE s # <<>> /\ Tail(s) = <<>>
    BY <2>2, FieldsOfOne
  <2>3. CASE s # <<>> /\ Tail(s) # <<>>
    <3>1. Tail(s) \in S /\ size[Tail(s)] < size[s]
      BY <2>3, Shorter
    <3>2. FieldsOf(Tail(s))
      BY <1>2, <2>3, <3>1
    <3>3. FieldsOf(s)
      BY <2>3, <3>2, FieldsOfMore
    <3> QED
      BY <3>3
  <2> QED
    BY <2>1, <2>2, <2>3
<1> HIDE DEF S, size, good
<1>3. S \subseteq good
  BY <1>1, <1>2, Induction
<1> QED
  BY <1>3 DEF S, good

(* A field is read back.                                                   *)
Readable(p) ==
  /\ Range(p[1]) \cap (Escaped \cup {" "}) = {}
  /\ ~Before(p[2], Escaped, {" "})

LEMMA ValueReadBack ==
  ASSUME NEW v \in Seq(Char), Len(Encoded[v]) < SizeT,
         ~Before(v, Escaped, {" "})
  PROVE  Decode(Encoded[v]) = v
<1> DEFINE e == Encoded[v]
<1>1. e \in Seq(Char) /\ Encodes(e, v)
  BY EncodedIs, EncodedEncodes
<1>2. Len(e) < SizeT
  OBVIOUS
<1> HIDE DEF e
<1>3. /\ DOMAIN e = 1..Len(e) /\ Len(e) \in Nat
      /\ DOMAIN v = 1..Len(v) /\ Len(v) \in Nat
  <2>1. e \in Seq(Char) /\ v \in Seq(Char)
    BY <1>1
  <2> QED
    BY ONLY <2>1
<1>4. DecodedAsMeant(e)
  BY ONLY <1>1, <1>2, DecodesValues
<1>5. ~Malformed(e)
  <2> SUFFICES ASSUME NEW i \in 0..(Len(e) - 1),
                      At(e, i) = "%", ~IsEscape(e, i)
               PROVE  FALSE
    BY DEF Malformed
  <2>1. i + 1 \in 1..Len(e) /\ (i + 1) - 1 = i
    BY ONLY <1>3, i \in 0..(Len(e) - 1)
  <2>2. e[i + 1] = "%"
    BY DEF At
  <2>3. EscapeAt(e, i + 1)
    BY <1>1, <2>1, <2>2 DEF Encodes, Complete
  <2>4. IsEscape(e, (i + 1) - 1)
    BY ONLY <1>1, <2>1, <2>3, EscapeAtIs
  <2> QED
    BY <2>1, <2>4
<1>6. ~Before(e, {"%"}, {"+"})
  <2> SUFFICES ASSUME NEW i \in 1..Len(e), NEW j \in 1..Len(e),
                      i < j, e[i] = "%", e[j] = "+"
               PROVE  FALSE
    BY <1>3 DEF Before
  <2>1. PICK k \in 1..Len(v), m \in 1..Len(v) :
               k < m /\ v[k] \in Escaped /\ v[m] = " "
    BY <1>1 DEF Encodes, Ordered
  <2> QED
    BY <1>3, <2>1 DEF Before
<1>7. Decode(e) = Meaning[e]
  BY <1>4, <1>5, <1>6 DEF DecodedAsMeant
<1> QED
  BY <1>1, <1>7 DEF Encodes, e

LEMMA FieldReadBack ==
  ASSUME NEW p \in Params, Len(Field(p)) <= SizeT, Readable(p)
  PROVE  Param(Field(p)) = p
<1> DEFINE s == Field(p)
           a == Encoded[p[1]]
           b == Encoded[p[2]]
<1>1. /\ p[1] \in Seq(Char) /\ p[2] \in Seq(Char)
      /\ a \in Seq(Char) /\ b \in Seq(Char)
      /\ s = a \o (<<"=">> \o b)
      /\ Len(s) = Len(a) + 1 + Len(b)
  BY FieldForms
<1>2. Free(a, "=")
  BY <1>1, EncodedEncodes DEF Encodes, Delimited, Free
<1>3. a = p[1]
  <2>1. DOMAIN p[1] = 1..Len(p[1])
    BY <1>1
  <2>2. Plain(p[1])
    BY <2>1 DEF Readable, Plain, Range
  <2> QED
    BY <1>1, <2>2, EncodedAsIs
<1>4. "=" \in Char
  BY DEF Char
<1>5. Len(s) <= SizeT
  OBVIOUS
<1>6. Len(b) < SizeT => Decode(b) = p[2]
  BY <1>1, ValueReadBack DEF Readable
<1>7. p = <<p[1], p[2]>>
  BY DEF Params
<1> HIDE DEF s, a, b
<1>8. Len(b) < SizeT
  <2>1. Len(a) \in Nat /\ Len(b) \in Nat
    BY <1>1
  <2> QED
    BY ONLY <1>1, <1>5, <2>1, ParamsAssumption
<1>9. /\ s \in Seq(Char) /\ "=" \in Range(s)
      /\ SubSeq(s, 1, FirstAt(s, "=") - 1) = a
      /\ SubSeq(s, FirstAt(s, "=") + 1, Len(s)) = b
  <2>1. a \in Seq(Char) /\ b \in Seq(Char)
    BY <1>1
  <2>2. s = Split(a, "=", b)
    BY <1>1 DEF Split
  <2>3. LET z == Split(a, "=", b)
        IN  /\ z \in Seq(Char) /\ "=" \in Range(z)
            /\ SubSeq(z, 1, FirstAt(z, "=") - 1) = a
            /\ SubSeq(z, FirstAt(z, "=") + 1, Len(z)) = b
    BY ONLY <1>2, <1>4, <2>1, FirstIsThere
  <2> QED
    BY ONLY <2>2, <2>3
<1>10. Param(s) = <<a, Decode(b)>>
  BY <1>9 DEF Param
<1> QED
  BY <1>3, <1>6, <1>7, <1>8, <1>10 DEF s

(* Every form that a browser sends is read back, if its keys hold no       *)
(* character that is written otherwise and no value has a space behind a   *)
(* character that is escaped (src/EvHTTPRequest.cc:41-76).                 *)
THEOREM ReadsForms ==
  ASSUME NEW form \in Seq(Params), Len(Query[form]) < SizeT
  PROVE  ReadBack(form)
<1> DEFINE q == Query[form]
           fields == Fields[q]
<1>1. form \in Seq(Seq(Char) \X Seq(Char))
  BY DEF Params
<1>2. DOMAIN form = 1..Len(form) /\ Len(form) \in Nat
  OBVIOUS
<1>3. SUFFICES ASSUME \A k \in 1..Len(form) : Readable(form[k])
               PROVE  ParseUrlParams(q) = form
  BY <1>2 DEF ReadBack, Readable
<1>4. CASE form = <<>>
  BY <1>4, QueryIs DEF ParseUrlParams
<1>5. CASE form # <<>>
  <2>1. /\ fields \in Seq(Seq(Char)) /\ Len(fields) = Len(form)
        /\ Len(q) > 0
        /\ \A k \in 1..Len(form) :
             fields[k] = Field(form[k]) /\ Len(Field(form[k])) <= Len(q)
    BY <1>5, FieldsOfForm DEF FieldsOf
  <2>2. q # <<>>
    <3>1. Len(<<>>) = 0
      OBVIOUS
    <3> QED
      BY <2>1, <3>1
  <2>3. DOMAIN fields = 1..Len(form)
    BY <2>1
  <2>4. q \in Seq(Char) /\ Len(q) < SizeT
    BY QueryIs
  <2> HIDE DEF q, fields
  <2>5. ASSUME NEW k \in 1..Len(form) PROVE Param(fields[k]) = form[k]
    <3>1. form[k] \in Params
      BY ElementOfSeq
    <3>2. fields[k] = Field(form[k]) /\ Len(Field(form[k])) <= Len(q)
      BY <2>1
    <3>3. Len(Field(form[k])) \in Nat /\ Len(q) \in Nat
      <4>1. Field(form[k]) \in Seq(Char)
        BY <3>1, FieldIs
      <4> QED
        BY <2>4, <4>1
    <3>4. Len(Field(form[k])) <= SizeT
      BY ONLY <2>4, <3>2, <3>3, ParamsAssumption
    <3>5. Readable(form[k])
      BY <1>3
    <3> QED
      BY ONLY <3>1, <3>2, <3>4, <3>5, FieldReadBack
  <2>6. ParseUrlParams(q) = [k \in DOMAIN fields |-> Param(fields[k])]
    BY <2>2 DEF ParseUrlParams, fields
  <2>7. ParseUrlParams(q) = [k \in 1..Len(form) |-> form[k]]
    BY <2>3, <2>5, <2>6
  <2>8. form = [k \in 1..Len(form) |-> form[k]]
    BY <1>2
  <2> QED
    BY <2>7, <2>8
<1> QED
  BY <1>4, <1>5

(* What the constants hold: every value is decoded as the standard means   *)
(* it, every form is read back.                                            *)
THEOREM ParamsDecoded == AllParamsDecoded
<1>1. ASSUME NEW value \in Values PROVE DecodedAsMeant(value)
  <2>1. value \in Seq(Char) /\ Len(value) < SizeT
    BY ParamsAssumption
  <2> QED
    BY ONLY <2>1, DecodesValues
<1>2. ASSUME NEW form \in Forms PROVE ReadBack(form)
  <2>1. form \in Seq(Params) /\ Len(Query[form]) < SizeT
    BY ParamsAssumption DEF Params
  <2> QED
    BY ONLY <2>1, ReadsForms
<1> QED
  BY <1>1, <1>2 DEF AllParamsDecoded

=============================================================================
