--------------------- MODULE WebSocketConnectionProofs ---------------------
(***************************************************************************)
(* Theorems about WebSocketConnection, for any frames in any number,       *)
(* arriving in any pieces, and hooks nested to any depth.                  *)
(***************************************************************************)
EXTENDS WebSocketConnection, SequenceTheorems, TLAPS

Hook == {"own", "message", "disconnect"}

(* What holds of the functions of the subclass that run, s: all but the    *)
(* outermost were called by disconnect_websocket_client.                   *)
Nested(s) == \A i \in 1..(Len(s) - 1) : s[i] = "disconnect"

Disconnects(s) == \E i \in 1..Len(s) : s[i] = "disconnect"

DisconnectsTwice(s) ==
  \E i \in 1..Len(s) : \E j \in 1..Len(s) :
    i # j /\ s[i] = "disconnect" /\ s[j] = "disconnect"

(* on_websocket_read runs while its client is in the map, up to the hook   *)
(* that it calls last; no client is told anything before it is one.        *)
Stacked ==
  /\ Nested(stack)
  /\ stack # <<>> /\ Last(stack) = "own" => ~reading
  /\ stack # <<>> /\ Last(stack) = "message" => reading
  /\ reading => pos > 0 /\ conn # "http"
  /\ reading /\ stack = <<>> => conn = "ws"
  /\ conn = "http" => told = 0 /\ ~called

(* What the history says of the disconnects that are going on.             *)
Hooked ==
  /\ DisconnectsTwice(stack) => "reenter" \in cause
  /\ conn # "ws" /\ Disconnects(stack) => "reenter" \in cause
  /\ conn = "ws" /\ told > 0 => "throw" \in cause \/ Disconnects(stack)

(* A complete frame in the buffer came with the end of the one before, or  *)
(* with the request that was upgraded.                                     *)
Buffered ==
  /\ fault = "none" /\ InSync /\ pos < Len(stream)
  /\ avail >= Length(stream[pos + 1])
  => "coalesced" \in cause \/ ~called

CInv ==
  /\ TypeOK
  /\ Stacked
  /\ Hooked
  /\ Buffered
  /\ DisconnectHookOnce
  /\ NoBadIterator
  /\ EscapesExplained

-----------------------------------------------------------------------------
(* Sequences.                                                              *)
LEMMA SeqOfIs ==
  ASSUME NEW S, NEW n \in Nat, NEW s
  PROVE  s \in SeqOf(S, n) <=> s \in Seq(S) /\ Len(s) <= n
<1>1. ASSUME s \in SeqOf(S, n) PROVE s \in Seq(S) /\ Len(s) <= n
  <2>1. PICK m \in 0..n : s \in [1..m -> S]
    BY <1>1 DEF SeqOf
  <2> QED
    BY <2>1
<1>2. ASSUME s \in Seq(S), Len(s) <= n PROVE s \in SeqOf(S, n)
  <2>1. Len(s) \in 0..n /\ s \in [1..Len(s) -> S]
    BY <1>2
  <2> QED
    BY <2>1 DEF SeqOf
<1> QED
  BY <1>1, <1>2

LEMMA EmptyIn ==
  ASSUME NEW S, NEW n \in Nat
  PROVE  <<>> \in SeqOf(S, n)
<1>1. <<>> \in Seq(S) /\ Len(<<>>) = 0 /\ 0 <= n
  OBVIOUS
<1> DEFINE s == <<>>
<1>2. s \in Seq(S) /\ Len(s) <= n
  BY <1>1
<1> HIDE DEF s
<1>3. s \in SeqOf(S, n)
  BY <1>2, SeqOfIs
<1> QED
  BY <1>3 DEF s

LEMMA SeqGrows ==
  ASSUME NEW A, NEW B, A \subseteq B
  PROVE  Seq(A) \subseteq Seq(B)
<1> SUFFICES ASSUME NEW s \in Seq(A) PROVE s \in Seq(B)
  OBVIOUS
<1>1. s \in [1..Len(s) -> A] /\ Len(s) \in Nat
  OBVIOUS
<1>2. s \in [1..Len(s) -> B]
  BY <1>1
<1> QED
  BY <1>1, <1>2

LEMMA PushHook ==
  ASSUME NEW s \in Seq(Hook), NEW x \in Hook
  PROVE  /\ <<x>> \o s \in Seq(Hook)
         /\ Len(<<x>> \o s) = Len(s) + 1
         /\ (<<x>> \o s)[1] = x
         /\ \A i \in 1..Len(s) : (<<x>> \o s)[i + 1] = s[i]
         /\ <<x>> \o s # <<>>
         /\ Last(<<x>> \o s) = IF s = <<>> THEN x ELSE Last(s)
<1> DEFINE t == <<x>> \o s
<1>1. <<x>> \in Seq(Hook) /\ Len(<<x>>) = 1 /\ <<x>>[1] = x /\ Len(s) \in Nat
  OBVIOUS
<1>2. /\ t \in Seq(Hook) /\ Len(t) = 1 + Len(s)
      /\ \A i \in 1..(1 + Len(s)) :
           t[i] = IF i <= 1 THEN <<x>>[i] ELSE s[i - 1]
  BY <1>1, ConcatProperties
<1> HIDE DEF t
<1>3. t[1] = x
  BY <1>1, <1>2
<1>4. ASSUME NEW i \in 1..Len(s) PROVE t[i + 1] = s[i]
  <2>1. i + 1 \in 1..(1 + Len(s)) /\ ~(i + 1 <= 1) /\ (i + 1) - 1 = i
    BY <1>1
  <2> QED
    BY <1>2, <2>1
<1>5. Len(t) = Len(s) + 1 /\ t # <<>>
  <2>1. Len(t) = Len(s) + 1 /\ Len(t) # 0
    BY <1>1, <1>2
  <2>2. Len(<<>>) = 0
    OBVIOUS
  <2> QED
    BY <2>1, <2>2
<1>6. t[Len(t)] = IF s = <<>> THEN x ELSE s[Len(s)]
  <2>1. CASE s = <<>>
    <3>1. Len(t) = 1
      BY <1>5, <2>1
    <3> QED
      BY <1>3, <2>1, <3>1
  <2>2. CASE s # <<>>
    <3>1. Len(s) \in 1..Len(s)
      BY <2>2, EmptySeq
    <3> QED
      BY <1>4, <1>5, <2>2, <3>1
  <2> QED
    BY <2>1, <2>2
<1> QED
  BY <1>2, <1>3, <1>4, <1>5, <1>6 DEF t, Last

LEMMA PopHook ==
  ASSUME NEW s \in Seq(Hook), s # <<>>
  PROVE  /\ Head(s) = s[1] /\ Head(s) \in Hook
         /\ Len(s) \in Nat /\ Len(s) >= 1
         /\ Tail(s) \in Seq(Hook)
         /\ Len(Tail(s)) = Len(s) - 1
         /\ \A i \in 1..(Len(s) - 1) : Tail(s)[i] = s[i + 1]
         /\ Tail(s) = <<>> <=> Len(s) = 1
         /\ Tail(s) # <<>> => Last(Tail(s)) = Last(s)
<1>1. /\ Head(s) = s[1] /\ Head(s) \in Hook
      /\ Len(s) \in Nat /\ Len(s) >= 1
      /\ Tail(s) \in Seq(Hook) /\ Len(Tail(s)) = Len(s) - 1
      /\ \A i \in 1..Len(Tail(s)) : Tail(s)[i] = s[i + 1]
  BY HeadTailProperties, EmptySeq
<1>2. Tail(s) = <<>> <=> Len(s) = 1
  BY <1>1, EmptySeq
<1>3. ASSUME Tail(s) # <<>> PROVE Last(Tail(s)) = Last(s)
  <2>1. Len(s) - 1 \in 1..Len(Tail(s)) /\ (Len(s) - 1) + 1 = Len(s)
    BY <1>1, <1>2, <1>3
  <2>2. Tail(s)[Len(s) - 1] = s[(Len(s) - 1) + 1]
    BY <1>1, <2>1
  <2> QED
    BY <1>1, <2>1, <2>2 DEF Last
<1> QED
  BY <1>1, <1>2, <1>3

(* A hook that is not called by a disconnect is the outermost.             *)
LEMMA OuterHook ==
  ASSUME NEW s \in Seq(Hook), s # <<>>, Nested(s), Head(s) # "disconnect"
  PROVE  Tail(s) = <<>> /\ Last(s) = Head(s) /\ ~Disconnects(s)
<1>1. Len(s) = 1
  BY PopHook DEF Nested
<1>2. ~Disconnects(s)
  BY <1>1, PopHook DEF Disconnects
<1> QED
  BY <1>1, <1>2, PopHook DEF Last

LEMMA PushDisconnect ==
  ASSUME NEW s \in Seq(Hook), Nested(s)
  PROVE  /\ Nested(<<"disconnect">> \o s)
         /\ Disconnects(<<"disconnect">> \o s)
         /\ DisconnectsTwice(<<"disconnect">> \o s) => Disconnects(s)
<1> DEFINE t == <<"disconnect">> \o s
<1>1. /\ t \in Seq(Hook) /\ Len(t) = Len(s) + 1 /\ t[1] = "disconnect"
      /\ Len(s) \in Nat
      /\ \A i \in 1..Len(s) : t[i + 1] = s[i]
  BY PushHook DEF Hook
<1> HIDE DEF t
<1>2. ASSUME NEW i \in 1..Len(t)
      PROVE  i = 1 \/ (i - 1 \in 1..Len(s) /\ t[i] = s[i - 1])
  <2>1. i \in Nat /\ i >= 1 /\ i <= Len(s) + 1
    BY <1>1
  <2>2. CASE i # 1
    <3>1. i - 1 \in 1..Len(s) /\ (i - 1) + 1 = i
      BY <1>1, <2>1, <2>2
    <3>2. t[(i - 1) + 1] = s[i - 1]
      BY <1>1, <3>1
    <3> QED
      BY <3>1, <3>2
  <2> QED
    BY <2>2
<1>3. Nested(t)
  <2> SUFFICES ASSUME NEW i \in 1..(Len(t) - 1) PROVE t[i] = "disconnect"
    BY DEF Nested
  <2>1. i \in 1..Len(t)
    BY <1>1
  <2>2. CASE i = 1
    BY <1>1, <2>2
  <2>3. CASE i # 1
    <3>1. i - 1 \in 1..(Len(s) - 1)
      BY <1>1, <2>3
    <3> QED
      BY <1>2, <2>1, <2>3, <3>1 DEF Nested
  <2> QED
    BY <2>2, <2>3
<1>4. Disconnects(t)
  BY <1>1 DEF Disconnects
<1>5. ASSUME DisconnectsTwice(t) PROVE Disconnects(s)
  <2>1. PICK i \in 1..Len(t) : i # 1 /\ t[i] = "disconnect"
    BY <1>5 DEF DisconnectsTwice
  <2> QED
    BY <1>2, <2>1 DEF Disconnects
<1> QED
  BY <1>3, <1>4, <1>5 DEF t

LEMMA PopDisconnect ==
  ASSUME NEW s \in Seq(Hook), s # <<>>, Nested(s)
  PROVE  /\ Nested(Tail(s))
         /\ Disconnects(Tail(s)) => Disconnects(s)
         /\ Disconnects(Tail(s)) /\ Head(s) = "disconnect" => DisconnectsTwice(s)
         /\ DisconnectsTwice(Tail(s)) => DisconnectsTwice(s)
<1> DEFINE t == Tail(s)
<1>1. /\ Len(s) \in Nat /\ Len(s) >= 1 /\ Len(t) = Len(s) - 1
      /\ \A i \in 1..(Len(s) - 1) : t[i] = s[i + 1]
      /\ Head(s) = s[1]
  BY PopHook
<1> HIDE DEF t
<1>2. ASSUME NEW i \in 1..Len(t)
      PROVE  i \in Nat /\ i + 1 \in 1..Len(s) /\ t[i] = s[i + 1] /\ i + 1 # 1
  BY <1>1
<1>3. Nested(t)
  <2> SUFFICES ASSUME NEW i \in 1..(Len(t) - 1) PROVE t[i] = "disconnect"
    BY DEF Nested
  <2>1. i \in 1..Len(t) /\ i + 1 \in 1..(Len(s) - 1)
    BY <1>1
  <2> QED
    BY <1>2, <2>1 DEF Nested
<1>4. ASSUME Disconnects(t)
      PROVE  \E i \in 1..Len(s) : i # 1 /\ s[i] = "disconnect"
  BY <1>2, <1>4 DEF Disconnects
<1>5. Disconnects(t) => Disconnects(s)
  BY <1>4 DEF Disconnects
<1>6. ASSUME Disconnects(t), Head(s) = "disconnect" PROVE DisconnectsTwice(s)
  <2>1. 1 \in 1..Len(s) /\ s[1] = "disconnect"
    BY <1>1, <1>6
  <2> QED
    BY <1>4, <1>6, <2>1 DEF DisconnectsTwice
<1>7. ASSUME DisconnectsTwice(t) PROVE DisconnectsTwice(s)
  <2>1. PICK i \in 1..Len(t) : \E j \in 1..Len(t) :
          i # j /\ t[i] = "disconnect" /\ t[j] = "disconnect"
    BY <1>7 DEF DisconnectsTwice
  <2>2. PICK j \in 1..Len(t) :
          i # j /\ t[i] = "disconnect" /\ t[j] = "disconnect"
    BY <2>1
  <2>3. i + 1 # j + 1
    BY <1>2, <2>2
  <2> QED
    BY <1>2, <2>2, <2>3 DEF DisconnectsTwice
<1> QED
  BY <1>3, <1>5, <1>6, <1>7 DEF t

LEMMA InRange ==
  ASSUME NEW s \in Seq(Hook)
  PROVE  "disconnect" \in Range(s) <=> Disconnects(s)
<1>1. DOMAIN s = 1..Len(s)
  OBVIOUS
<1> QED
  BY <1>1 DEF Range, Disconnects

(* No function runs.                                                       *)
LEMMA NoHook == Nested(<<>>) /\ ~Disconnects(<<>>) /\ ~DisconnectsTwice(<<>>)
<1>1. Len(<<>>) = 0 /\ 1..0 = {} /\ 1..(0 - 1) = {}
  OBVIOUS
<1> QED
  BY <1>1 DEF Nested, Disconnects, DisconnectsTwice

LEMMA OneHook ==
  ASSUME NEW x \in Hook
  PROVE  /\ <<x>> \in Seq(Hook) /\ Len(<<x>>) = 1 /\ <<x>> # <<>>
         /\ Last(<<x>>) = x /\ Nested(<<x>>) /\ ~DisconnectsTwice(<<x>>)
         /\ Disconnects(<<x>>) <=> x = "disconnect"
<1>1. /\ <<x>> \in Seq(Hook) /\ Len(<<x>>) = 1 /\ <<x>>[1] = x /\ <<x>> # <<>>
      /\ 1..1 = {1} /\ 1..(1 - 1) = {}
  OBVIOUS
<1> QED
  BY <1>1 DEF Last, Nested, DisconnectsTwice, Disconnects

-----------------------------------------------------------------------------
(* Frames and their lengths.                                               *)
LEMMA FrameIs ==
  ASSUME NEW f \in FrameType
  PROVE  /\ f.op \in Data \cup Control /\ f.fin \in BOOLEAN
         /\ f.ext \in Nat /\ f.size \in Nat /\ f.masked \in BOOLEAN
         /\ Header(f) \in Nat /\ Header(f) >= 2 + f.ext
         /\ Length(f) \in Nat /\ Length(f) >= 2 + f.ext
         /\ Removed(f) \in Nat
         /\ ~f.masked => Removed(f) = Length(f)
<1>1. /\ f.op \in Data \cup Control /\ f.fin \in BOOLEAN
      /\ f.ext \in Nat /\ f.size \in Nat /\ f.masked \in BOOLEAN
  BY ConstantsAssumption DEF FrameType
<1>2. Header(f) \in Nat /\ Header(f) >= 2 + f.ext
  BY <1>1 DEF Header
<1>3. /\ Length(f) \in Nat /\ Length(f) >= 2 + f.ext
      /\ Removed(f) \in Nat
      /\ ~f.masked => Removed(f) = Length(f)
  BY <1>1, <1>2 DEF Length, Removed
<1> QED
  BY <1>1, <1>2, <1>3

LEMMA RemainderIs ==
  ASSUME NEW m \in Nat, m > 0, NEW x \in Nat
  PROVE  /\ x % m \in Nat /\ x % m <= x
         /\ x < m => x % m = x
<1> DEFINE q == x \div m
           r == x % m
<1>1. q \in Nat /\ r \in 0..(m - 1) /\ x = (m * q) + r
  OBVIOUS
<1> HIDE DEF q, r
<1>2. m * q >= 0
  BY <1>1
<1>3. ASSUME x < m PROVE q = 0
  <2>1. ASSUME q >= 1 PROVE FALSE
    <3>1. m * q >= m
      BY <1>1, <2>1
    <3> QED
      BY <1>1, <1>3, <3>1
  <2> QED
    BY <1>1, <2>1
<1>4. x < m => r = x
  BY <1>1, <1>3
<1> QED
  BY <1>1, <1>2, <1>4 DEF r

LEMMA CompleteIs ==
  ASSUME NEW f \in FrameType, NEW a \in Nat
  PROVE  /\ ~Complete(f, a) => a < Length(f)
         /\ Complete(f, a) /\ ~Huge(f) => a >= Length(f)
<1>1. f.ext \in Nat /\ Length(f) \in Nat /\ Length(f) >= 2 + f.ext
  BY FrameIs
<1>2. SizeT \in Nat /\ SizeT > 0
  BY ConstantsAssumption
<1> DEFINE r == Length(f) % SizeT
<1>3. r \in Nat /\ r <= Length(f) /\ (~Huge(f) => r = Length(f))
  BY <1>1, <1>2, RemainderIs DEF Huge
<1>4. Complete(f, a) <=> a >= 2 /\ (f.ext > 0 => a >= 2 + f.ext) /\ a >= r
  BY DEF Complete
<1> HIDE DEF r
<1> QED
  BY <1>1, <1>3, <1>4

-----------------------------------------------------------------------------
LEMMA TypeFacts ==
  ASSUME TypeOK
  PROVE  /\ stream \in Seq(Frames) /\ Len(stream) \in Nat
         /\ \A i \in 1..Len(stream) : stream[i] \in FrameType
         /\ pos \in Nat /\ pos <= Len(stream)
         /\ stack \in Seq(Hook) /\ Len(stack) \in Nat /\ Len(stack) <= MaxDepth
         /\ rehashed \in 0..Len(stack)
         /\ MaxDepth \in Nat /\ MaxDepth >= 1
<1>1. MaxDepth \in Nat /\ MaxDepth >= 1 /\ MaxFrames \in Nat
  BY ConstantsAssumption
<1>2. stream \in SeqOf(Frames, MaxFrames) /\ stack \in SeqOf(Hook, MaxDepth)
  BY DEF TypeOK, Hook
<1>3. stream \in Seq(Frames) /\ stack \in Seq(Hook) /\ Len(stack) <= MaxDepth
  BY <1>1, <1>2, SeqOfIs
<1>4. Len(stream) \in Nat /\ Len(stack) \in Nat
      /\ \A i \in 1..Len(stream) : stream[i] \in Frames
  BY <1>3
<1>5. pos \in 0..Len(stream) /\ rehashed \in 0..Len(stack)
  BY DEF TypeOK
<1> QED
  BY <1>1, <1>3, <1>4, <1>5, ConstantsAssumption

(* Calls that change no message, no reply and no stream.                   *)
LEMMA TypeKept ==
  ASSUME TypeOK, conn' \in {"http", "ws", "off", "freed"}, held' \in BOOLEAN,
         stream' = stream, pos' = pos, avail' \in Nat, called' \in BOOLEAN,
         broken' \in BOOLEAN, reading' \in BOOLEAN, stack' \in Seq(Hook),
         Len(stack') <= MaxDepth, rehashed' \in 0..Len(stack'),
         UNCHANGED messageVars, unsent' \in Seq({"close", "pong"}),
         fault' \in {"none", "escaped", "bad_iterator"},
         told' \in 0..2, cause' \subseteq Causes
  PROVE  TypeOK'
<1>1. stack' \in SeqOf(Hook, MaxDepth)
  BY ConstantsAssumption, SeqOfIs
<1> QED
  BY <1>1 DEF TypeOK, messageVars, Hook

(* Where the functions that run, and the client, do not change.            *)
LEMMA ControlKept ==
  ASSUME CInv, UNCHANGED <<conn, stack, rehashed, reading, told, pos>>,
         conn = "http" => ~called', cause \subseteq cause'
  PROVE  Stacked' /\ Hooked' /\ DisconnectHookOnce'
<1>1. Stacked'
  BY DEF CInv, Stacked, Nested, Last
<1>2. Hooked'
  BY DEF CInv, Hooked, DisconnectsTwice, Disconnects
<1>3. DisconnectHookOnce'
  BY DEF CInv, DisconnectHookOnce
<1> QED
  BY <1>1, <1>2, <1>3

LEMMA InputKept ==
  ASSUME CInv, UNCHANGED <<stream, pos, avail, called>>,
         fault' = "none" => fault = "none", cause \subseteq cause'
  PROVE  Buffered'
BY DEF CInv, Buffered, InSync, Length, Header

(* Where no fault comes up.                                                *)
LEMMA FaultKept ==
  ASSUME CInv, UNCHANGED <<fault, stream, pos>>, cause \subseteq cause',
         fault = "none" \/ rehashed' = rehashed
  PROVE  NoBadIterator' /\ EscapesExplained'
BY DEF CInv, NoBadIterator, EscapesExplained, Huge, Length, Header

(* An exception or a wrong iterator.                                       *)
LEMMA FaultKeeps ==
  ASSUME CInv, NEW what \in {"escaped", "bad_iterator"}, fault' = what,
         UNCHANGED <<conn, held, stream, pos, avail, called, reading, stack,
                     rehashed, messageVars, unsent, told>>,
         broken' \in BOOLEAN, cause \subseteq cause', cause' \subseteq Causes,
         what = "escaped" => cause' \cap {"keep", "throw"} # {},
         what = "bad_iterator" =>
           rehashed > 0 \/ cause' \cap {"keep", "twice", "reenter"} # {}
  PROVE  CInv'
<1>1. TypeOK'
  <2>1. /\ stack' \in Seq(Hook) /\ Len(stack') <= MaxDepth
        /\ rehashed' \in 0..Len(stack')
    BY TypeFacts DEF CInv
  <2> QED
    BY <2>1, TypeKept DEF CInv, TypeOK
<1>2. Stacked' /\ Hooked' /\ DisconnectHookOnce'
  BY ControlKept DEF CInv, Stacked
<1>3. Buffered'
  BY InputKept
<1>4. NoBadIterator' /\ EscapesExplained'
  BY DEF NoBadIterator, EscapesExplained
<1> QED
  BY <1>1, <1>2, <1>3, <1>4 DEF CInv

(* The history of a call that finds the client in the map.                 *)
LEMMA ToldIs ==
  ASSUME CInv, conn = "ws", told' = IF told < 2 THEN told + 1 ELSE 2,
         cause \subseteq cause', Disconnects(stack) => "reenter" \in cause'
  PROVE  told' \in 0..2 /\ DisconnectHookOnce'
<1>1. told \in 0..2
  BY DEF CInv, TypeOK
<1>2. told' \in 0..2 /\ (told' > 1 => told > 0)
  BY <1>1
<1>3. told > 0 => "throw" \in cause \/ Disconnects(stack)
  BY DEF CInv, Hooked
<1> QED
  BY <1>2, <1>3 DEF DisconnectHookOnce

(* disconnect_websocket_client finds the client: its hook is called.       *)
LEMMA DisconnectPushes ==
  ASSUME CInv, conn = "ws", fault = "none", fault' = "none",
         stack' = <<"disconnect">> \o stack, Len(stack) < MaxDepth,
         told' = IF told < 2 THEN told + 1 ELSE 2,
         UNCHANGED <<conn, held, stream, pos, avail, called, reading,
                     rehashed, messageVars>>,
         broken' \in BOOLEAN, unsent' \in Seq({"close", "pong"}),
         cause \subseteq cause', cause' \subseteq Causes,
         Disconnects(stack) => "reenter" \in cause'
  PROVE  CInv'
<1>1. TypeOK /\ Stacked /\ Hooked
  BY DEF CInv
<1>2. stack \in Seq(Hook) /\ "disconnect" \in Hook /\ Nested(stack)
  BY <1>1, TypeFacts DEF Hook, Stacked
<1>3. /\ stack' \in Seq(Hook) /\ Len(stack') = Len(stack) + 1
      /\ stack' # <<>>
      /\ Last(stack') = IF stack = <<>> THEN "disconnect" ELSE Last(stack)
  BY <1>2, PushHook
<1>4. /\ Nested(stack') /\ Disconnects(stack')
      /\ DisconnectsTwice(stack') => Disconnects(stack)
  BY <1>2, PushDisconnect
<1>5. told' \in 0..2 /\ DisconnectHookOnce'
  BY ToldIs
<1>6. TypeOK'
  <2>1. Len(stack') <= MaxDepth /\ rehashed' \in 0..Len(stack')
    BY <1>1, <1>3, TypeFacts
  <2> QED
    BY <1>1, <1>3, <1>5, <2>1, TypeKept DEF TypeOK
<1>7. Stacked'
  <2>1. /\ stack' # <<>> /\ Last(stack') = "own" => ~reading'
        /\ stack' # <<>> /\ Last(stack') = "message" => reading'
    BY <1>1, <1>3 DEF Stacked
  <2>2. /\ reading' => pos' > 0 /\ conn' # "http"
        /\ conn' = "http" => told' = 0 /\ ~called'
    BY <1>1 DEF Stacked
  <2> QED
    BY <1>3, <1>4, <2>1, <2>2 DEF Stacked
<1>8. Hooked'
  BY <1>1, <1>4 DEF Hooked
<1>9. Buffered'
  BY InputKept
<1>10. NoBadIterator' /\ EscapesExplained'
  BY FaultKept
<1> QED
  BY <1>5, <1>6, <1>7, <1>8, <1>9, <1>10 DEF CInv

(* A callback of libevent calls disconnect_websocket_client for the client *)
(* that it has just looked up.                                             *)
LEMMA RefuseKeeps ==
  ASSUME CInv, NEW ops, Handling(ops), Disconnect, UNCHANGED cause,
         unsent' \in Seq({"close", "pong"})
  PROVE  CInv' /\ conn = "ws" /\ stack' = <<"disconnect">> /\ fault' = fault
<1>1. TypeOK /\ Stacked /\ fault = "none" /\ reading /\ stack = <<>>
  BY DEF CInv, Handling
<1>2. conn = "ws"
  BY <1>1 DEF Stacked
<1>3. /\ stack' = <<"disconnect">> \o stack
      /\ told' = IF told < 2 THEN told + 1 ELSE 2
      /\ UNCHANGED <<conn, held, inputVars, reading, rehashed, messageVars,
                     fault>>
  BY <1>2 DEF Disconnect
<1>4. ~Disconnects(stack)
  BY <1>1, NoHook
<1>5. Len(stack) < MaxDepth
  BY <1>1, TypeFacts
<1>6. cause \subseteq cause' /\ cause' \subseteq Causes
  BY <1>1 DEF TypeOK
<1>7. CInv'
  <2>1. /\ UNCHANGED <<stream, pos, avail, called>> /\ broken' \in BOOLEAN
    BY <1>1, <1>3 DEF inputVars, TypeOK
  <2> QED
    BY <1>1, <1>2, <1>3, <1>4, <1>5, <1>6, <2>1, DisconnectPushes
<1>8. stack' = <<"disconnect">>
  BY <1>1, <1>3
<1> QED
  BY <1>2, <1>3, <1>7, <1>8

LEMMA AppendReply ==
  ASSUME TypeOK, NEW r \in {"close", "pong"}
  PROVE  Append(unsent, r) \in Seq({"close", "pong"})
<1>1. unsent \in Seq({"close", "pong"})
  BY DEF TypeOK
<1> QED
  BY <1>1

(* The callback is over, without a hook.                                   *)
LEMMA ReadReturnsKeeps ==
  ASSUME CInv, ReadReturns, stack = <<>>, fault = "none"
  PROVE  /\ Stacked' /\ Hooked' /\ Buffered' /\ DisconnectHookOnce'
         /\ NoBadIterator' /\ EscapesExplained'
<1>1. /\ reading' = FALSE
      /\ UNCHANGED <<conn, held, inputVars, stack, rehashed, fault, told,
                     cause>>
  BY DEF ReadReturns, hookVars
<1>2. stream' = stream /\ pos' = pos /\ called' = called
  BY <1>1 DEF inputVars
<1>3. Stacked'
  BY <1>1, <1>2 DEF CInv, Stacked, Nested
<1>4. Hooked' /\ DisconnectHookOnce'
  BY <1>1 DEF CInv, Hooked, DisconnectsTwice, Disconnects, DisconnectHookOnce
<1>5. Buffered' /\ NoBadIterator' /\ EscapesExplained'
  BY <1>1, <1>2, InputKept, FaultKept DEF inputVars
<1> QED
  BY <1>3, <1>4, <1>5

(* The frame that is being handled.                                        *)
LEMMA HandledFrame ==
  ASSUME CInv, NEW ops, Handling(ops)
  PROVE  /\ pos \in 1..Len(stream) /\ stream[pos] \in FrameType
         /\ stream[pos].op \in ops
         /\ stack = <<>> /\ conn = "ws" /\ fault = "none" /\ reading
<1>1. TypeOK /\ Stacked /\ fault = "none" /\ reading /\ stack = <<>>
      /\ stream[pos].op \in ops
  BY DEF CInv, Handling
<1>2. pos > 0 /\ conn = "ws"
  BY <1>1 DEF Stacked
<1> QED
  BY <1>1, <1>2, TypeFacts

(* The data of a frame are saved.                                          *)
LEMMA SaveDataTypes ==
  ASSUME CInv, Handling(Data), SaveData
  PROVE  /\ pendingOp' \in ({"none"} \cup Data) \ {"cont"}
         /\ pending' \in Seq(1..pos)
         /\ Continues => pendingOp' \in Data \ {"cont"}
<1>1. TypeOK /\ pos \in 1..Len(stream) /\ stream[pos].op \in Data
  BY HandledFrame DEF CInv
<1>2. /\ pendingOp \in ({"none"} \cup Data) \ {"cont"}
      /\ pending \in Seq(1..pos) /\ pos \in 1..pos
  BY <1>1, TypeFacts DEF TypeOK
<1>3. /\ pendingOp' = IF stream[pos].op = "cont" THEN pendingOp
                                                 ELSE stream[pos].op
      /\ pending' = Append(pending, pos)
  BY DEF SaveData
<1>4. pending' \in Seq(1..pos)
  BY <1>2, <1>3
<1>5. pendingOp' \in ({"none"} \cup Data) \ {"cont"}
  BY <1>1, <1>2, <1>3
<1>6. Continues => pendingOp' # "none"
  BY <1>1, <1>2, <1>3 DEF Continues, Data
<1> QED
  BY <1>4, <1>5, <1>6

-----------------------------------------------------------------------------
(* Input.                                                                  *)
LEMMA EnableKeeps ==
  ASSUME CInv, NEW n \in Nat, EnableWebsockets(n)
  PROVE  CInv'
<1>1. /\ conn = "http" /\ conn' = "ws" /\ held' \in BOOLEAN /\ avail' = n
      /\ fault = "none" /\ ~reading /\ stack = <<>>
      /\ UNCHANGED <<stream, pos, called, broken, reading, stack, rehashed,
                     messageVars, unsent, fault, told, cause>>
  BY DEF EnableWebsockets, Idle, hookVars
<1>2. TypeOK'
  BY <1>1, TypeKept, TypeFacts DEF CInv, TypeOK
<1>3. told = 0 /\ ~called
  BY <1>1 DEF CInv, Stacked
<1>4. Stacked'
  BY <1>1 DEF CInv, Stacked, Nested
<1>5. Hooked'
  BY <1>1, <1>3, NoHook DEF CInv, Hooked
<1>6. DisconnectHookOnce'
  BY <1>1 DEF CInv, DisconnectHookOnce
<1>7. Buffered'
  BY <1>1, <1>3 DEF Buffered
<1>8. NoBadIterator' /\ EscapesExplained'
  BY <1>1, FaultKept
<1> QED
  BY <1>2, <1>4, <1>5, <1>6, <1>7, <1>8 DEF CInv

LEMMA ReadPartKeeps ==
  ASSUME CInv, NEW n \in Nat, ReadPart(n)
  PROVE  CInv'
<1>1. /\ fault = "none" /\ pos < Len(stream)
      /\ ~Complete(stream[pos + 1], avail + n)
      /\ avail' = avail + n /\ called' = TRUE /\ conn # "http"
      /\ UNCHANGED <<conn, held, stream, pos, broken, reading, stack,
                     rehashed, messageVars, unsent, fault, told, cause>>
  BY DEF ReadPart, Idle, hookVars
<1>2. avail \in Nat /\ avail + n \in Nat
  BY DEF CInv, TypeOK
<1>3. TypeOK'
  BY <1>1, <1>2, TypeKept, TypeFacts DEF CInv, TypeOK
<1>4. Stacked' /\ Hooked' /\ DisconnectHookOnce'
  BY <1>1, ControlKept
<1>5. NoBadIterator' /\ EscapesExplained'
  BY <1>1, FaultKept
<1>6. Buffered'
  <2>1. stream[pos + 1] \in FrameType
    BY <1>1, TypeFacts DEF CInv
  <2>2. avail + n < Length(stream[pos + 1]) /\ Length(stream[pos + 1]) \in Nat
    BY <1>1, <1>2, <2>1, CompleteIs, FrameIs
  <2>3. ~(avail' >= Length(stream'[pos' + 1]))
    BY <1>1, <1>2, <2>2
  <2>4. ~(avail' >= Length(stream[pos + 1])')
    BY <2>3 DEF Length, Header
  <2> QED
    BY <2>4 DEF Buffered
<1> QED
  BY <1>3, <1>4, <1>5, <1>6 DEF CInv

LEMMA ReadFrameIs ==
  ASSUME NEW n \in Nat, ReadFrame(n)
  PROVE  /\ fault = "none" /\ ~reading /\ stack = <<>> /\ InSync
         /\ pos < Len(stream) /\ conn \in {"ws", "off"}
         /\ Complete(stream[pos + 1], avail + n) /\ pos' = pos + 1
         /\ avail' = IF Taken(stream[pos + 1], avail + n)
                     THEN avail + n - Removed(stream[pos + 1]) ELSE 0
         /\ reading' = Taken(stream[pos + 1], avail + n)
         /\ fault' = IF Taken(stream[pos + 1], avail + n)
                     THEN "none" ELSE "escaped"
         /\ called' = TRUE
         /\ UNCHANGED <<conn, held, stream, broken, stack, rehashed,
                        messageVars, unsent, told>>
<1>1. /\ Idle /\ InSync /\ pos < Len(stream) /\ conn \in {"ws", "off"}
      /\ Complete(stream[pos + 1], avail + n) /\ pos' = pos + 1
      /\ avail' = IF Taken(stream[pos + 1], avail + n)
                  THEN avail + n - Removed(stream[pos + 1]) ELSE 0
      /\ reading' = Taken(stream[pos + 1], avail + n)
      /\ fault' = IF Taken(stream[pos + 1], avail + n)
                  THEN "none" ELSE "escaped"
      /\ called' = TRUE
      /\ UNCHANGED <<conn, held, stream, broken, stack, rehashed, messageVars,
                     unsent, told>>
  BY DEF ReadFrame, hookVars
<1> QED
  BY Zenon, <1>1 DEF Idle

LEMMA ReadFrameCauses ==
  ASSUME NEW n \in Nat, ReadFrame(n)
  PROVE  cause' = cause \cup {x \in {"keep"} : conn = "off"}
                        \cup {x \in {"coalesced"} :
                                /\ pos + 2 <= Len(stream)
                                /\ avail + n - Length(stream[pos + 1])
                                     >= Length(stream[pos + 2])}
BY DEF ReadFrame

(* A frame is taken out, or an exception leaves the callback.              *)
LEMMA ReadFrameKeeps ==
  ASSUME CInv, NEW n \in Nat, ReadFrame(n)
  PROVE  CInv'
<1> DEFINE f == stream[pos + 1]
           a == avail + n
           g == stream[pos + 2]
           coalesced == /\ pos + 2 <= Len(stream)
                        /\ avail + n - Length(stream[pos + 1])
                             >= Length(stream[pos + 2])
<1>1. /\ fault = "none" /\ ~reading /\ stack = <<>> /\ InSync
      /\ pos < Len(stream) /\ conn \in {"ws", "off"}
      /\ Complete(f, a) /\ pos' = pos + 1
      /\ avail' = IF Taken(f, a) THEN avail + n - Removed(f) ELSE 0
      /\ reading' = Taken(f, a)
      /\ fault' = IF Taken(f, a) THEN "none" ELSE "escaped"
      /\ called' = TRUE
      /\ UNCHANGED <<conn, held, stream, broken, stack, rehashed, messageVars,
                     unsent, told>>
  BY ReadFrameIs
<1>2. cause' = cause \cup {x \in {"keep"} : conn = "off"}
                    \cup {x \in {"coalesced"} : coalesced}
  BY ReadFrameCauses
<1>3. /\ f \in FrameType /\ a \in Nat /\ pos \in Nat /\ pos + 1 <= Len(stream)
      /\ Len(stream) \in Nat /\ stack \in Seq(Hook) /\ Len(stack) <= MaxDepth
  BY <1>1, TypeFacts DEF CInv, TypeOK
<1>3a. /\ avail \in Nat
       /\ \A m \in Nat : avail + n - m = a - m
  BY DEF CInv, TypeOK
<1>4. /\ cause \subseteq cause' /\ cause' \subseteq Causes
      /\ conn = "off" => "keep" \in cause'
      /\ coalesced => "coalesced" \in cause'
  <2>1. cause \subseteq Causes
    BY DEF CInv, TypeOK
  <2> HIDE DEF coalesced
  <2> QED
    BY <1>2, <2>1 DEF Causes
<1>5. /\ Length(f) \in Nat /\ Removed(f) \in Nat
      /\ ~f.masked => Removed(f) = Length(f)
      /\ ~Huge(f) => a >= Length(f)
  BY <1>1, <1>3, FrameIs, CompleteIs
<1>6. /\ Taken(f, a) <=> conn = "ws" /\ ~Huge(f) /\ a >= Removed(f)
      /\ Taken(f, a) \in BOOLEAN
  BY DEF Taken
<1>7. avail' \in Nat
  <2>1. avail + n - Removed(f) = a - Removed(f)
    BY <1>5, <1>3a
  <2> HIDE DEF f, a
  <2> QED
    BY <1>1, <1>3, <1>5, <1>6, <2>1
<1>8. TypeOK'
  <2>1. /\ pending \in Seq(1..pos)
        /\ delivered \in Seq([op : Data \ {"cont"}, parts : Seq(1..pos)])
    BY DEF CInv, TypeOK
  <2>2. Seq(1..pos) \subseteq Seq(1..(pos + 1))
    BY <1>3, SeqGrows
  <2>3. [op : Data \ {"cont"}, parts : Seq(1..pos)]
          \subseteq [op : Data \ {"cont"}, parts : Seq(1..(pos + 1))]
    BY <2>2
  <2>4. Seq([op : Data \ {"cont"}, parts : Seq(1..pos)])
          \subseteq Seq([op : Data \ {"cont"}, parts : Seq(1..(pos + 1))])
    BY <2>3, SeqGrows
  <2>5. /\ pending' \in Seq(1..pos')
        /\ delivered' \in Seq([op : Data \ {"cont"}, parts : Seq(1..pos')])
    BY <1>1, <2>1, <2>2, <2>4 DEF messageVars
  <2>6. pos' \in 0..Len(stream')
    BY <1>1, <1>3
  <2> HIDE DEF f, a
  <2> QED
    BY <1>1, <1>4, <1>6, <1>7, <2>5, <2>6 DEF CInv, TypeOK, messageVars
<1> HIDE DEF a, coalesced
<1>9. Stacked'
  <2>1. reading' => conn = "ws"
    BY <1>1, <1>6
  <2> QED
    BY <1>1, <1>3, <2>1, NoHook DEF CInv, Stacked
<1>10. Hooked'
  BY <1>1, <1>4, NoHook DEF CInv, Hooked
<1>11. DisconnectHookOnce'
  BY <1>1, <1>4 DEF CInv, DisconnectHookOnce
<1>12. NoBadIterator'
  BY <1>1 DEF NoBadIterator
<1>13. stream'[pos'] = f /\ stream[pos]' = f
  BY <1>1
<1>14. EscapesExplained'
  <2> SUFFICES ASSUME ~Taken(f, a), conn # "off"
               PROVE  f.masked \/ Huge(f)
    <3>1. fault' = "escaped" => ~Taken(f, a)
      BY <1>1
    <3>2. Huge(stream[pos])' = Huge(f)
      BY <1>13 DEF Huge, Length, Header
    <3> QED
      BY <1>4, <1>13, <3>1, <3>2 DEF EscapesExplained
  <2>1. CASE ~Huge(f) /\ ~f.masked
    <3>1. a >= Removed(f)
      BY <1>5, <2>1
    <3> QED
      BY <1>1, <1>6, <2>1, <3>1
  <2> QED
    BY <2>1
<1>15. Buffered'
  <2> SUFFICES ASSUME fault' = "none", InSync', pos' < Len(stream'),
                      avail' >= Length(stream[pos + 1])'
               PROVE  "coalesced" \in cause'
    BY DEF Buffered
  <2>1. Taken(f, a) /\ avail' = a - Removed(f)
    BY <1>1, <1>5, <1>3a
  <2>2. ~f.masked
    <3>1. \A i \in 1..pos' : ~stream'[i].masked
      BY DEF InSync
    <3>2. pos' \in 1..pos'
      BY <1>1, <1>3
    <3> QED
      BY <1>13, <3>1, <3>2
  <2>3. stream[pos + 1]' = g
    BY <1>1, <1>3
  <2>4. Length(stream[pos + 1])' = Length(g)
    BY <2>3 DEF Length, Header
  <2>5. pos + 2 <= Len(stream)
    BY <1>1, <1>3
  <2>6. a - Length(f) >= Length(g)
    BY <1>5, <2>1, <2>2, <2>4
  <2>7. g \in FrameType /\ Length(g) \in Nat
    BY <1>1, <1>3, <2>5, TypeFacts, FrameIs DEF CInv
  <2>8. avail + n - Length(f) >= Length(g)
    BY <1>5, <1>3a, <2>6
  <2> QED
    BY <1>4, <2>5, <2>8 DEF coalesced
<1> QED
  BY <1>8, <1>9, <1>10, <1>11, <1>12, <1>14, <1>15 DEF CInv

-----------------------------------------------------------------------------
(* The handling of a frame.                                                *)
LEMMA RestReturns ==
  ASSUME CInv, stack = <<>>, fault = "none", ReadReturns, TypeOK'
  PROVE  CInv'
BY ReadReturnsKeeps DEF CInv

LEMMA IgnorePongKeeps ==
  ASSUME CInv, IgnorePong
  PROVE  CInv'
<1>1. /\ stack = <<>> /\ fault = "none" /\ ReadReturns
      /\ UNCHANGED <<messageVars, unsent>>
  BY DEF IgnorePong, Handling
<1>2. /\ reading' = FALSE
      /\ UNCHANGED <<conn, held, stream, pos, avail, called, broken, stack,
                     rehashed, fault, told, cause>>
  BY <1>1 DEF ReadReturns, inputVars, hookVars
<1>3. TypeOK'
  BY <1>1, <1>2, TypeKept, TypeFacts DEF CInv, TypeOK
<1> QED
  BY <1>1, <1>3, RestReturns

LEMMA AnswerPingKeeps ==
  ASSUME CInv, AnswerPing
  PROVE  CInv'
<1>1. /\ stack = <<>> /\ fault = "none" /\ ReadReturns
      /\ UNCHANGED messageVars /\ unsent' = Append(unsent, "pong")
  BY DEF AnswerPing, Handling
<1>2. /\ reading' = FALSE
      /\ UNCHANGED <<conn, held, stream, pos, avail, called, broken, stack,
                     rehashed, fault, told, cause>>
  BY <1>1 DEF ReadReturns, inputVars, hookVars
<1>3. unsent' \in Seq({"close", "pong"})
  BY <1>1, AppendReply DEF CInv
<1>4. TypeOK'
  BY <1>1, <1>2, <1>3, TypeKept, TypeFacts DEF CInv, TypeOK
<1> QED
  BY <1>1, <1>4, RestReturns

LEMMA AnswerCloseKeeps ==
  ASSUME CInv, AnswerClose
  PROVE  CInv'
<1>1. /\ Handling({"close"}) /\ Disconnect /\ UNCHANGED cause
      /\ unsent' = Append(unsent, "close")
  BY DEF AnswerClose
<1>2. unsent' \in Seq({"close", "pong"})
  BY <1>1, AppendReply DEF CInv
<1> QED
  BY <1>1, <1>2, RefuseKeeps

LEMMA RefuseControlKeeps ==
  ASSUME CInv, RefuseControl
  PROVE  CInv'
BY RefuseKeeps DEF RefuseControl, CInv, TypeOK

LEMMA RefuseDataKeeps ==
  ASSUME CInv, RefuseData
  PROVE  CInv'
BY RefuseKeeps DEF RefuseData, CInv, TypeOK

LEMMA AppendDataKeeps ==
  ASSUME CInv, AppendData
  PROVE  CInv'
<1>1. /\ Handling(Data) /\ stack = <<>> /\ fault = "none"
      /\ SaveData /\ ReadReturns /\ UNCHANGED <<delivered, unsent>>
  BY DEF AppendData, Handling
<1>2. /\ reading' = FALSE
      /\ UNCHANGED <<conn, held, stream, pos, avail, called, broken, stack,
                     rehashed, fault, told, cause>>
  BY <1>1 DEF ReadReturns, inputVars, hookVars
<1>3. /\ pendingOp' \in ({"none"} \cup Data) \ {"cont"}
      /\ pending' \in Seq(1..pos)
  BY <1>1, SaveDataTypes
<1>4. TypeOK'
  BY <1>1, <1>2, <1>3 DEF CInv, TypeOK
<1> QED
  BY <1>1, <1>4, RestReturns

LEMMA DeliverMessageKeeps ==
  ASSUME CInv, DeliverMessage
  PROVE  CInv'
<1>1. /\ Handling(Data) /\ Continues /\ SaveData
      /\ delivered' = Append(delivered,
                             [op |-> pendingOp', parts |-> pending'])
      /\ stack' = <<"message">>
      /\ UNCHANGED <<conn, held, inputVars, reading, rehashed, unsent, fault,
                     told, cause>>
  BY DEF DeliverMessage
<1>2. UNCHANGED <<stream, pos, avail, called, broken>>
  BY <1>1 DEF inputVars
<1>3. /\ stack = <<>> /\ conn = "ws" /\ fault = "none" /\ reading
      /\ pos \in 1..Len(stream)
  BY <1>1, HandledFrame
<1>4. /\ pendingOp' \in ({"none"} \cup Data) \ {"cont"}
      /\ pending' \in Seq(1..pos)
      /\ pendingOp' \in Data \ {"cont"}
  BY <1>1, SaveDataTypes
<1>5. delivered' \in Seq([op : Data \ {"cont"}, parts : Seq(1..pos)])
  <2>1. delivered \in Seq([op : Data \ {"cont"}, parts : Seq(1..pos)])
    BY DEF CInv, TypeOK
  <2>2. [op |-> pendingOp', parts |-> pending']
          \in [op : Data \ {"cont"}, parts : Seq(1..pos)]
    BY <1>4
  <2> QED
    BY <1>1, <2>1, <2>2
<1>6. /\ "message" \in Hook /\ stack' \in Seq(Hook) /\ Len(stack') = 1
      /\ stack' # <<>> /\ Last(stack') = "message" /\ Nested(stack')
      /\ ~DisconnectsTwice(stack') /\ ~Disconnects(stack')
  BY <1>1, OneHook DEF Hook
<1>7. TypeOK'
  <2>1. stack' \in SeqOf(Hook, MaxDepth)
    BY <1>6, SeqOfIs, TypeFacts DEF CInv
  <2>2. UNCHANGED <<conn, held, reading, unsent, fault, told, cause>>
    BY <1>1
  <2>3. rehashed' \in 0..Len(stack')
    BY <1>1, <1>3, <1>6, TypeFacts DEF CInv
  <2> QED
    BY <1>2, <1>4, <1>5, <2>1, <2>2, <2>3 DEF CInv, TypeOK, Hook
<1>8. Stacked'
  BY <1>1, <1>2, <1>3, <1>6 DEF Stacked, CInv
<1>9. Hooked'
  BY <1>1, <1>3, <1>6, NoHook DEF Hooked, CInv
<1>10. DisconnectHookOnce'
  BY <1>1 DEF DisconnectHookOnce, CInv
<1>11. Buffered'
  BY <1>1, <1>2, InputKept
<1>12. NoBadIterator' /\ EscapesExplained'
  BY <1>1, <1>2, FaultKept
<1> QED
  BY <1>7, <1>8, <1>9, <1>10, <1>11, <1>12 DEF CInv

-----------------------------------------------------------------------------
(* Hooks.                                                                  *)
LEMMA RemainsIs ==
  ASSUME NEW c, NEW h, NEW s
  PROVE  /\ Remains(c, h, s) \in {c, "freed"}
         /\ c # "off" => Remains(c, h, s) = c
BY DEF Remains

LEMMA ConnFacts ==
  ASSUME CInv
  PROVE  /\ conn \in {"http", "ws", "off", "freed"}
         /\ stack \in Seq(Hook) /\ Nested(stack) /\ Len(stack) \in Nat
         /\ Len(stack) <= MaxDepth
         /\ cause \subseteq Causes /\ "throw" \in Causes
BY TypeFacts DEF CInv, Stacked, TypeOK, Causes

LEMMA PopIs ==
  ASSUME CInv, Pop, stack # <<>>
  PROVE  /\ stack' = Tail(stack)
         /\ rehashed' \in 0..Len(stack')
         /\ rehashed' > 0 => rehashed > 0
<1>1. /\ Len(stack) \in Nat /\ Len(stack) >= 1
      /\ Len(Tail(stack)) = Len(stack) - 1
  BY ConnFacts, PopHook
<1>2. rehashed \in 0..Len(stack)
  BY TypeFacts DEF CInv
<1>3. /\ stack' = Tail(stack)
      /\ rehashed' = IF rehashed = Len(stack) THEN rehashed - 1 ELSE rehashed
  BY DEF Pop
<1>4. rehashed' \in 0..(Len(stack) - 1) /\ (rehashed' > 0 => rehashed > 0)
  <2> DEFINE n == Len(stack)
             r == rehashed
             t == rehashed'
  <2>1. n \in Nat /\ n >= 1 /\ r \in 0..n /\ t = IF r = n THEN r - 1 ELSE r
    BY <1>1, <1>2, <1>3
  <2> HIDE DEF n, r, t
  <2>2. t \in 0..(n - 1) /\ (t > 0 => r > 0)
    BY <2>1
  <2> QED
    BY <2>2 DEF n, r, t
<1>5. Len(stack') = Len(stack) - 1
  BY <1>1, <1>3
<1> QED
  BY <1>3, <1>4, <1>5

LEMMA ErrorEventKeeps ==
  ASSUME CInv, ErrorEvent
  PROVE  CInv'
<1>1. /\ fault = "none" /\ ~reading /\ stack = <<>> /\ broken' \in BOOLEAN
      /\ cause' = cause \cup {x \in {"keep"} : conn = "off"}
      /\ UNCHANGED <<conn, held, stream, pos, avail, called, reading,
                     rehashed, messageVars, unsent>>
  BY DEF ErrorEvent, Idle
<1>2. cause \subseteq cause' /\ cause' \subseteq Causes
  BY <1>1, ConnFacts DEF Causes
<1>3. CASE conn = "ws"
  <2>1. /\ stack' = <<"disconnect">>
        /\ told' = IF told < 2 THEN told + 1 ELSE 2
        /\ UNCHANGED fault
    BY <1>3 DEF ErrorEvent
  <2>2. stack' = <<"disconnect">> \o stack /\ ~Disconnects(stack)
    BY <1>1, <2>1, NoHook
  <2>3. Len(stack) < MaxDepth
    BY <1>1, TypeFacts DEF CInv
  <2>4. unsent' \in Seq({"close", "pong"})
    BY <1>1 DEF CInv, TypeOK
  <2> QED
    BY <1>1, <1>2, <1>3, <2>1, <2>2, <2>3, <2>4, DisconnectPushes
<1>4. CASE conn = "off"
  <2>1. fault' = "bad_iterator" /\ UNCHANGED <<stack, told>>
    BY <1>4 DEF ErrorEvent
  <2>2. "keep" \in cause'
    BY <1>1, <1>4
  <2> QED
    BY <1>1, <1>2, <2>1, <2>2, FaultKeeps
<1> QED
  BY <1>3, <1>4 DEF ErrorEvent

LEMMA FlushKeeps ==
  ASSUME CInv, Flush
  PROVE  CInv'
<1>1. /\ unsent' = <<>>
      /\ UNCHANGED <<conn, held, inputVars, reading, stack, rehashed,
                     messageVars, fault, told, cause>>
  BY DEF Flush, hookVars
<1>2. UNCHANGED <<stream, pos, avail, called, broken>>
  BY <1>1 DEF inputVars
<1>3. TypeOK'
  <2>1. unsent' \in Seq({"close", "pong"})
    BY <1>1
  <2> QED
    BY <1>1, <1>2, <2>1, TypeKept, TypeFacts DEF CInv, TypeOK
<1> QED
  BY <1>1, <1>2, <1>3, ControlKept, InputKept, FaultKept DEF CInv, Stacked

LEMMA MessageReturnsKeeps ==
  ASSUME CInv, MessageReturns
  PROVE  CInv'
<1>1. /\ fault = "none" /\ stack # <<>> /\ Head(stack) = "message"
      /\ conn' = Remains(conn, held, <<>>)
      /\ reading' = FALSE /\ pendingOp' = "none" /\ pending' = <<>>
      /\ UNCHANGED <<held, inputVars, delivered, unsent, fault, told, cause>>
  BY DEF MessageReturns, InHook
<1>1a. /\ stack' = Tail(stack) /\ rehashed' \in 0..Len(stack')
       /\ rehashed' > 0 => rehashed > 0
  BY <1>1, PopIs DEF MessageReturns
<1>2. UNCHANGED <<stream, pos, avail, called, broken>>
  BY <1>1 DEF inputVars
<1>3. stack' = <<>> /\ ~Disconnects(stack)
  BY <1>1, <1>1a, ConnFacts, OuterHook
<1>4. conn' \in {conn, "freed"} /\ (conn' # "ws" <=> conn # "ws")
  BY <1>1, RemainsIs
<1>5. TypeOK'
  <2>1. stack' \in SeqOf(Hook, MaxDepth)
    <3>1. MaxDepth \in Nat
      BY TypeFacts DEF CInv
    <3> QED
      BY <1>3, <3>1, EmptyIn
  <2>2. pending' \in Seq(1..pos')
    BY <1>1
  <2>3. conn' \in {"http", "ws", "off", "freed"}
    BY <1>4, ConnFacts
  <2> QED
    BY <1>1, <1>1a, <1>2, <2>1, <2>2, <2>3 DEF CInv, TypeOK, Hook
<1>6. Stacked'
  BY <1>1, <1>2, <1>3, <1>4, NoHook DEF CInv, Stacked
<1>7. Hooked'
  BY <1>1, <1>1a, <1>3, <1>4, NoHook DEF CInv, Hooked
<1>8. DisconnectHookOnce'
  BY <1>1 DEF CInv, DisconnectHookOnce
<1> QED
  BY <1>1, <1>2, <1>5, <1>6, <1>7, <1>8, InputKept, FaultKept DEF CInv

LEMMA MessageThrowsKeeps ==
  ASSUME CInv, MessageThrows
  PROVE  CInv'
<1>1. Fault("escaped") /\ cause' = cause \cup {"throw"}
  BY DEF MessageThrows
<1>2. cause \subseteq cause' /\ cause' \subseteq Causes /\ "throw" \in cause'
  BY <1>1, ConnFacts
<1> QED
  BY <1>1, <1>2, FaultKeeps
     DEF Fault, inputVars, hookVars, CInv, TypeOK

LEMMA DisconnectReturnsKeeps ==
  ASSUME CInv, DisconnectReturns
  PROVE  CInv'
<1>1. /\ fault = "none" /\ stack # <<>> /\ Head(stack) = "disconnect"
      /\ UNCHANGED cause
  BY DEF DisconnectReturns, InHook
<1>2. CASE IteratorIsValid
  <2>1. /\ Pop /\ conn = "ws" /\ conn' = Remains("off", held, Tail(stack))
        /\ reading' = (reading /\ Tail(stack) # <<>>)
        /\ UNCHANGED <<held, inputVars, messageVars, unsent, fault, told>>
    BY <1>2 DEF DisconnectReturns, IteratorIsValid
  <2>1a. /\ stack' = Tail(stack) /\ rehashed' \in 0..Len(stack')
         /\ rehashed' > 0 => rehashed > 0
    BY <1>1, <2>1, PopIs
  <2>2. UNCHANGED <<stream, pos, avail, called, broken>>
    BY <2>1 DEF inputVars
  <2>3. conn' \in {"off", "freed"}
    BY <2>1, RemainsIs
  <2>4. /\ stack' \in Seq(Hook) /\ Len(stack') <= MaxDepth
        /\ stack' # <<>> => Last(stack') = Last(stack)
    BY <1>1, <2>1a, ConnFacts, PopHook, TypeFacts DEF CInv
  <2>5. /\ Nested(stack')
        /\ Disconnects(stack') => DisconnectsTwice(stack)
        /\ DisconnectsTwice(stack') => DisconnectsTwice(stack)
    BY <1>1, <2>1a, ConnFacts, PopDisconnect
  <2>6. TypeOK'
    BY <1>1, <2>1, <2>1a, <2>2, <2>3, <2>4, TypeKept DEF CInv, TypeOK
  <2>7. Stacked'
    BY <1>1, <2>1, <2>1a, <2>2, <2>3, <2>4, <2>5 DEF CInv, Stacked
  <2>8. Hooked'
    BY <1>1, <2>1a, <2>3, <2>5 DEF CInv, Hooked
  <2>9. DisconnectHookOnce'
    BY <1>1, <2>1 DEF CInv, DisconnectHookOnce
  <2> QED
    BY <1>1, <2>1, <2>2, <2>6, <2>7, <2>8, <2>9, InputKept, FaultKept DEF CInv
<1>3. CASE ~IteratorIsValid
  <2>1. Fault("bad_iterator")
    BY <1>3 DEF DisconnectReturns
  <2>2. rehashed > 0 \/ "reenter" \in cause'
    <3>1. Disconnects(stack) /\ Len(stack) >= 1 /\ Len(stack) \in Nat
      BY <1>1, ConnFacts, PopHook DEF Disconnects
    <3>2. rehashed \in 0..Len(stack)
      BY TypeFacts DEF CInv
    <3>3. conn # "ws" \/ rehashed > 0
      BY <1>3, <3>1, <3>2 DEF IteratorIsValid
    <3> QED
      BY <1>1, <3>1, <3>3 DEF CInv, Hooked
  <2> QED
    BY <1>1, <2>1, <2>2, FaultKeeps
       DEF Fault, inputVars, hookVars, CInv, TypeOK
<1> QED
  BY <1>2, <1>3

LEMMA DisconnectThrowsKeeps ==
  ASSUME CInv, DisconnectThrows
  PROVE  CInv'
<1>1. /\ fault = "none" /\ stack # <<>> /\ Head(stack) = "disconnect"
      /\ cause' = cause \cup {"throw"}
  BY DEF DisconnectThrows, InHook
<1>2. cause \subseteq cause' /\ cause' \subseteq Causes /\ "throw" \in cause'
  BY <1>1, ConnFacts
<1>3. CASE Tail(stack) # <<>>
  <2>1. /\ Pop
        /\ UNCHANGED <<conn, held, inputVars, reading, messageVars, unsent,
                       fault, told>>
    BY <1>3 DEF DisconnectThrows
  <2>1a. /\ stack' = Tail(stack) /\ rehashed' \in 0..Len(stack')
         /\ rehashed' > 0 => rehashed > 0
    BY <1>1, <2>1, PopIs
  <2>2. UNCHANGED <<stream, pos, avail, called, broken>>
    BY <2>1 DEF inputVars
  <2>3. /\ stack' \in Seq(Hook) /\ Len(stack') <= MaxDepth
        /\ stack' # <<>> /\ Last(stack') = Last(stack)
    BY <1>1, <1>3, <2>1a, ConnFacts, PopHook, TypeFacts DEF CInv
  <2>4. /\ Nested(stack')
        /\ Disconnects(stack') => Disconnects(stack)
        /\ DisconnectsTwice(stack') => DisconnectsTwice(stack)
    BY <1>1, <2>1a, ConnFacts, PopDisconnect
  <2>5. TypeOK'
    BY <1>2, <2>1, <2>1a, <2>2, <2>3, TypeKept DEF CInv, TypeOK
  <2>6. Stacked'
    BY <1>1, <2>1, <2>2, <2>3, <2>4 DEF CInv, Stacked
  <2>7. Hooked'
    BY <1>2, <2>1, <2>1a, <2>4 DEF CInv, Hooked
  <2>8. DisconnectHookOnce'
    BY <1>2 DEF DisconnectHookOnce
  <2> QED
    BY <1>1, <1>2, <2>1, <2>2, <2>5, <2>6, <2>7, <2>8, InputKept, FaultKept DEF CInv
<1>4. CASE Tail(stack) = <<>>
  <2>1. Fault("escaped")
    BY <1>4 DEF DisconnectThrows
  <2> QED
    BY <1>2, <2>1, FaultKeeps
     DEF Fault, inputVars, hookVars, CInv, TypeOK
<1> QED
  BY <1>3, <1>4

LEMMA AppEventKeeps ==
  ASSUME CInv, AppEvent
  PROVE  CInv'
<1>1. /\ fault = "none" /\ ~reading /\ stack = <<>> /\ stack' = <<"own">>
      /\ UNCHANGED <<conn, held, inputVars, reading, rehashed, messageVars,
                     unsent, fault, told, cause>>
  BY DEF AppEvent, Idle
<1>2. UNCHANGED <<stream, pos, avail, called, broken>>
  BY <1>1 DEF inputVars
<1>3. /\ "own" \in Hook /\ stack' \in Seq(Hook) /\ Len(stack') = 1
      /\ stack' # <<>> /\ Last(stack') = "own" /\ Nested(stack')
      /\ ~DisconnectsTwice(stack') /\ ~Disconnects(stack')
  BY <1>1, OneHook DEF Hook
<1>4. TypeOK'
  <2>1. rehashed' \in 0..Len(stack')
    BY <1>1, <1>3, TypeFacts DEF CInv
  <2> QED
    BY <1>1, <1>2, <1>3, <2>1, TypeKept, TypeFacts DEF CInv, TypeOK
<1>5. Stacked'
  BY <1>1, <1>2, <1>3 DEF CInv, Stacked
<1>6. Hooked'
  BY <1>1, <1>3, NoHook DEF CInv, Hooked
<1>7. DisconnectHookOnce'
  BY <1>1 DEF CInv, DisconnectHookOnce
<1> QED
  BY <1>1, <1>2, <1>4, <1>5, <1>6, <1>7, InputKept, FaultKept DEF CInv

LEMMA AppReturnsKeeps ==
  ASSUME CInv, AppReturns
  PROVE  CInv'
<1>1. /\ fault = "none" /\ stack # <<>> /\ Head(stack) = "own"
      /\ conn' = Remains(conn, held, Tail(stack))
      /\ UNCHANGED <<held, inputVars, reading, messageVars, unsent, fault,
                     told, cause>>
  BY DEF AppReturns, InHook
<1>1a. /\ stack' = Tail(stack) /\ rehashed' \in 0..Len(stack')
       /\ rehashed' > 0 => rehashed > 0
  BY <1>1, PopIs DEF AppReturns
<1>2. UNCHANGED <<stream, pos, avail, called, broken>>
  BY <1>1 DEF inputVars
<1>3. stack' = <<>> /\ ~Disconnects(stack) /\ Last(stack) = "own"
  BY <1>1, <1>1a, ConnFacts, OuterHook
<1>4. conn' \in {conn, "freed"} /\ (conn' # "ws" <=> conn # "ws")
  BY <1>1, RemainsIs
<1>5. ~reading
  BY <1>1, <1>3 DEF CInv, Stacked
<1>6. TypeOK'
  <2>1. stack' \in Seq(Hook) /\ Len(stack') <= MaxDepth
    <3>1. <<>> \in Seq(Hook) /\ Len(<<>>) = 0
      OBVIOUS
    <3> QED
      BY <1>3, <3>1, TypeFacts DEF CInv
  <2>2. conn' \in {"http", "ws", "off", "freed"}
    BY <1>4, ConnFacts
  <2> QED
    BY <1>1, <1>1a, <1>2, <2>1, <2>2, TypeKept DEF CInv, TypeOK
<1>7. Stacked'
  BY <1>1, <1>2, <1>3, <1>4, <1>5, NoHook DEF CInv, Stacked
<1>8. Hooked'
  BY <1>1, <1>1a, <1>3, <1>4, NoHook DEF CInv, Hooked
<1>9. DisconnectHookOnce'
  BY <1>1 DEF CInv, DisconnectHookOnce
<1> QED
  BY <1>1, <1>2, <1>6, <1>7, <1>8, <1>9, InputKept, FaultKept DEF CInv

LEMMA AppHoldsKeeps ==
  ASSUME CInv, AppHolds
  PROVE  CInv'
<1>1. /\ held' = TRUE
      /\ UNCHANGED <<conn, inputVars, reading, stack, rehashed, messageVars,
                     unsent, fault, told, cause>>
  BY DEF AppHolds, hookVars
<1>2. UNCHANGED <<stream, pos, avail, called, broken>>
  BY <1>1 DEF inputVars
<1>3. TypeOK'
  BY <1>1, <1>2, TypeKept, TypeFacts DEF CInv, TypeOK
<1> QED
  BY <1>1, <1>2, <1>3, ControlKept, InputKept, FaultKept DEF CInv, Stacked

LEMMA AppDropsKeeps ==
  ASSUME CInv, AppDrops
  PROVE  CInv'
<1>1. /\ stack # <<>> /\ held' = FALSE /\ conn' = Remains(conn, FALSE, stack)
      /\ UNCHANGED <<inputVars, reading, stack, rehashed, messageVars, unsent,
                     fault, told, cause>>
  BY DEF AppDrops, hookVars
<1>2. UNCHANGED <<stream, pos, avail, called, broken>>
  BY <1>1 DEF inputVars
<1>3. conn' \in {conn, "freed"} /\ (conn' # "ws" <=> conn # "ws")
  BY <1>1 DEF Remains
<1>4. TypeOK'
  <2>1. conn' \in {"http", "ws", "off", "freed"} /\ held' \in BOOLEAN
    BY <1>1, <1>3, ConnFacts
  <2> QED
    BY <1>1, <1>2, <2>1, TypeKept, TypeFacts DEF CInv, TypeOK
<1>5. Stacked'
  BY <1>1, <1>2, <1>3 DEF CInv, Stacked, Nested, Last
<1>6. Hooked'
  BY <1>1, <1>3 DEF CInv, Hooked, DisconnectsTwice, Disconnects
<1>7. DisconnectHookOnce'
  BY <1>1 DEF CInv, DisconnectHookOnce
<1> QED
  BY <1>1, <1>2, <1>4, <1>5, <1>6, <1>7, InputKept, FaultKept DEF CInv

LEMMA AppDisconnectsKeeps ==
  ASSUME CInv, AppDisconnects
  PROVE  CInv'
<1>1. /\ fault = "none" /\ Len(stack) < MaxDepth
      /\ Disconnect /\ UNCHANGED unsent
      /\ cause' = cause
           \cup {x \in {"twice"} : conn # "ws"}
           \cup {x \in {"reenter"} :
                   conn = "ws" /\ "disconnect" \in Range(stack)}
  BY DEF AppDisconnects
<1>2. /\ cause \subseteq cause' /\ cause' \subseteq Causes
      /\ conn # "ws" => "twice" \in cause'
      /\ conn = "ws" /\ Disconnects(stack) => "reenter" \in cause'
  <2>1. "disconnect" \in Range(stack) <=> Disconnects(stack)
    BY ConnFacts, InRange
  <2> QED
    BY <1>1, <2>1, ConnFacts DEF Causes
<1>3. broken \in BOOLEAN /\ unsent' \in Seq({"close", "pong"})
  BY <1>1 DEF CInv, TypeOK
<1>4. CASE conn = "ws"
  <2>1. /\ stack' = <<"disconnect">> \o stack
        /\ told' = IF told < 2 THEN told + 1 ELSE 2
        /\ UNCHANGED <<conn, held, inputVars, reading, rehashed, messageVars,
                       fault>>
    BY <1>1, <1>4 DEF Disconnect
  <2> QED
    BY <1>1, <1>2, <1>3, <1>4, <2>1, DisconnectPushes DEF inputVars
<1>5. CASE conn # "ws"
  <2>1. /\ fault' = "bad_iterator"
        /\ UNCHANGED <<conn, held, inputVars, reading, stack, rehashed,
                       messageVars, told>>
    BY <1>1, <1>5 DEF Disconnect, hookVars
  <2> QED
    BY <1>1, <1>2, <1>3, <1>5, <2>1, FaultKeeps DEF inputVars
<1> QED
  BY <1>4, <1>5

LEMMA AppUpgradesAnotherKeeps ==
  ASSUME CInv, AppUpgradesAnother
  PROVE  CInv'
<1>1. /\ rehashed' = Len(stack) /\ cause' = cause /\ fault = "none"
      /\ UNCHANGED <<conn, held, inputVars, reading, stack, messageVars,
                     unsent, fault, told>>
  BY DEF AppUpgradesAnother, InHook
<1>2. UNCHANGED <<stream, pos, avail, called, broken>>
  BY <1>1 DEF inputVars
<1>3. cause \subseteq cause' /\ cause' \subseteq Causes
  BY <1>1, ConnFacts
<1>4. TypeOK'
  <2>1. rehashed' \in 0..Len(stack')
    BY <1>1, ConnFacts
  <2> QED
    BY <1>1, <1>2, <1>3, <2>1, TypeKept, TypeFacts DEF CInv, TypeOK
<1>5. Stacked'
  BY <1>1, <1>2 DEF CInv, Stacked, Nested, Last
<1>6. Hooked'
  BY <1>1, <1>3 DEF CInv, Hooked, DisconnectsTwice, Disconnects
<1>7. DisconnectHookOnce'
  BY <1>1, <1>3 DEF CInv, DisconnectHookOnce
<1> QED
  BY <1>1, <1>2, <1>3, <1>4, <1>5, <1>6, <1>7, InputKept, FaultKept DEF CInv

-----------------------------------------------------------------------------
LEMMA InitControl == Init => CInv
<1> SUFFICES ASSUME Init PROVE CInv
  OBVIOUS
<1>1. /\ conn = "http" /\ held = FALSE /\ stream \in SeqOf(Frames, MaxFrames)
      /\ pos = 0 /\ avail = 0 /\ called = FALSE /\ broken = FALSE
      /\ reading = FALSE /\ stack = <<>> /\ rehashed = 0 /\ pendingOp = "none" /\ pending = <<>>
      /\ unsent = <<>> /\ fault = "none" /\ delivered = <<>> /\ told = 0
      /\ cause = {}
  BY DEF Init
<1>2. MaxFrames \in Nat /\ MaxDepth \in Nat
  BY ConstantsAssumption
<1>3. Len(stream) \in Nat /\ \A i \in 1..Len(stream) : stream[i] \in FrameType
  <2>1. stream \in Seq(Frames)
    BY <1>1, <1>2, SeqOfIs
  <2> QED
    BY <2>1, ConstantsAssumption
<1>4. TypeOK
  <2>1. stack \in SeqOf(Hook, MaxDepth)
    BY <1>1, <1>2, EmptyIn
  <2>2. /\ pending \in Seq(1..pos)
        /\ delivered \in Seq([op : Data \ {"cont"}, parts : Seq(1..pos)])
        /\ unsent \in Seq({"close", "pong"})
    BY <1>1
  <2>3. /\ pos \in 0..Len(stream) /\ avail \in Nat /\ told \in 0..2
        /\ rehashed \in 0..Len(stack)
    BY <1>1, <1>3
  <2> QED
    BY <1>1, <2>1, <2>2, <2>3 DEF TypeOK, Hook
<1>5. Stacked /\ Hooked /\ DisconnectHookOnce
  BY <1>1, NoHook DEF Stacked, Hooked, DisconnectHookOnce
<1>6. Buffered
  BY <1>1 DEF Buffered
<1>7. NoBadIterator /\ EscapesExplained
  BY <1>1 DEF NoBadIterator, EscapesExplained
<1> QED
  BY <1>4, <1>5, <1>6, <1>7 DEF CInv

LEMMA NextControl == CInv /\ [Next]_vars => CInv'
<1> SUFFICES ASSUME CInv, [Next]_vars PROVE CInv'
  OBVIOUS
<1>1. CASE \E n \in 0..Flight : EnableWebsockets(n)
  BY <1>1, EnableKeeps
<1>2. CASE \E n \in 1..Flight : ReadPart(n)
  BY <1>2, ReadPartKeeps
<1>3. CASE \E n \in 1..Flight : ReadFrame(n)
  BY <1>3, ReadFrameKeeps
<1>4. CASE IgnorePong \/ AnswerClose \/ AnswerPing \/ RefuseControl
  BY <1>4, IgnorePongKeeps, AnswerCloseKeeps, AnswerPingKeeps,
     RefuseControlKeeps
<1>5. CASE RefuseData \/ AppendData \/ DeliverMessage
  BY <1>5, RefuseDataKeeps, AppendDataKeeps, DeliverMessageKeeps
<1>6. CASE ErrorEvent \/ Flush
  BY <1>6, ErrorEventKeeps, FlushKeeps
<1>7. CASE MessageReturns \/ MessageThrows
  BY <1>7, MessageReturnsKeeps, MessageThrowsKeeps
<1>8. CASE DisconnectReturns \/ DisconnectThrows
  BY <1>8, DisconnectReturnsKeeps, DisconnectThrowsKeeps
<1>9. CASE \/ AppEvent \/ AppReturns \/ AppHolds \/ AppDrops
           \/ AppDisconnects \/ AppUpgradesAnother
  BY <1>9, AppEventKeeps, AppReturnsKeeps, AppHoldsKeeps, AppDropsKeeps,
     AppDisconnectsKeeps, AppUpgradesAnotherKeeps
<1>10. CASE UNCHANGED vars
  <2>1. UNCHANGED <<conn, held, stream, pos, avail, called, broken, reading,
                    stack, rehashed, messageVars, unsent, fault, told, cause>>
    BY <1>10 DEF vars, inputVars, hookVars
  <2>2. TypeOK'
    BY <2>1, TypeKept, TypeFacts DEF CInv, TypeOK
  <2> QED
    BY <2>1, <2>2, ControlKept, InputKept, FaultKept DEF CInv, Stacked
<1> QED
  BY <1>1, <1>2, <1>3, <1>4, <1>5, <1>6, <1>7, <1>8, <1>9, <1>10 DEF Next

(* The type invariant of the connection, with what the hooks that run say  *)
(* about it, holds in every state.                                         *)
THEOREM ControlInvariance == Spec => []CInv
<1>1. Init => CInv
  BY InitControl
<1>2. CInv /\ [Next]_vars => CInv'
  BY NextControl
<1> QED
  BY <1>1, <1>2, PTL DEF Spec

(* The client is told once that it was disconnected, unless its hook       *)
(* re-enters disconnect_websocket_client or throws.                        *)
THEOREM HookRunsOnce == Spec => []DisconnectHookOnce
<1>1. CInv => DisconnectHookOnce
  BY DEF CInv
<1> QED
  BY <1>1, ControlInvariance, PTL

(* disconnect_websocket_client looks up and erases an entry that exists,   *)
(* unless the subclass disconnects a client twice, goes on holding a       *)
(* disconnected one, or upgrades another request in the hook that tells it *)
(* of a disconnect.                                                        *)
THEOREM IteratorsAreValid == Spec => []NoBadIterator
<1>1. CInv => NoBadIterator
  BY DEF CInv
<1> QED
  BY <1>1, ControlInvariance, PTL

(* An exception leaves a libevent callback only for the reasons named.     *)
THEOREM ExceptionsAreExplained == Spec => []EscapesExplained
<1>1. CInv => EscapesExplained
  BY DEF CInv
<1> QED
  BY <1>1, ControlInvariance, PTL

(* A complete frame is left in the input buffer, with no callback to come, *)
(* only after one read brought the end of two frames, or if it came with   *)
(* the request that was upgraded.                                          *)
THEOREM FramesAreRead == Spec => []NoStall
<1>1. CInv => NoStall
  BY DEF CInv, Buffered, NoStall, Idle
<1> QED
  BY <1>1, ControlInvariance, PTL

(* Nothing is delivered to, or answered for, a client that was erased.     *)
THEOREM ErasedClientsAreSilent == Spec => SilentAfterDisconnect
<1> DEFINE Silent == told > 0 /\ conn # "ws" =>
                       delivered' = delivered /\ Len(unsent') <= Len(unsent)
<1>1. CInv /\ [Next]_vars => [Silent]_vars
  <2> SUFFICES ASSUME CInv, Next, told > 0, conn # "ws"
               PROVE  delivered' = delivered /\ Len(unsent') <= Len(unsent)
    BY DEF Silent
  <2>1. Len(unsent) \in Nat
    BY DEF CInv, TypeOK
  <2>2. ASSUME NEW ops, Handling(ops) PROVE FALSE
    BY <2>2, HandledFrame
  <2>3. CASE Flush
    BY <2>1, <2>3 DEF Flush, messageVars
  <2>4. CASE \/ ErrorEvent
             \/ \E n \in 0..Flight : EnableWebsockets(n)
             \/ \E n \in 1..Flight : ReadPart(n)
    BY <2>1, <2>4 DEF EnableWebsockets, ErrorEvent, ReadPart, messageVars
  <2>5. CASE \E n \in 1..Flight : ReadFrame(n)
    <3>1. UNCHANGED messageVars /\ UNCHANGED unsent
      <4>1. PICK n \in Nat : ReadFrame(n)
        BY <2>5
      <4> QED
        BY <4>1, ReadFrameIs
    <3> QED
      BY <2>1, <3>1 DEF messageVars
  <2>6. CASE \/ IgnorePong \/ AnswerClose \/ AnswerPing \/ RefuseControl
             \/ RefuseData \/ AppendData \/ DeliverMessage
    BY <2>2, <2>6 DEF IgnorePong, AnswerClose, AnswerPing, RefuseControl,
       RefuseData, AppendData, DeliverMessage
  <2>7. CASE MessageReturns \/ MessageThrows
    BY <2>1, <2>7 DEF MessageReturns, MessageThrows, Fault, messageVars
  <2>8. CASE DisconnectReturns \/ DisconnectThrows
    BY <2>1, <2>8 DEF DisconnectReturns, DisconnectThrows, Fault, messageVars
  <2>9. CASE \/ AppEvent \/ AppReturns \/ AppHolds \/ AppDrops
             \/ AppUpgradesAnother
    <3>1. UNCHANGED <<messageVars, unsent>>
      BY Zenon, <2>9
         DEF AppEvent, AppReturns, AppHolds, AppDrops, AppUpgradesAnother
    <3> QED
      BY <2>1, <3>1 DEF messageVars
  <2>10. CASE AppDisconnects
    BY <2>1, <2>10 DEF AppDisconnects, Disconnect, messageVars
  <2> QED
    BY <2>3, <2>4, <2>5, <2>6, <2>7, <2>8, <2>9, <2>10 DEF Next
<1> QED
  BY <1>1, ControlInvariance, PTL DEF Spec, SilentAfterDisconnect

-----------------------------------------------------------------------------
(* The messages. The definitions of WebSocketConnection, of any frames st. *)
FollowsIn(st, i, j) ==
  /\ i < j
  /\ st[j].op \in Data
  /\ \A k \in (i + 1)..(j - 1) : st[k].op \notin Data

LegalIn(st, i, j) == (st[j].op = "cont") = (i > 0 /\ ~st[i].fin)

FragmentsIn(st, i, s, op, fin) ==
  /\ s # <<>>
  /\ FollowsIn(st, i, s[1])
  /\ \A k \in 1..(Len(s) - 1) : FollowsIn(st, s[k], s[k + 1])
  /\ op = st[s[1]].op /\ op # "cont"
  /\ \A k \in 2..Len(s) : st[s[k]].op = "cont"
  /\ \A k \in 1..Len(s) : st[s[k]].fin <=> fin /\ k = Len(s)

BeforeIn(d, k) == IF k = 1 THEN 0 ELSE Last(d[k - 1].parts)

(* The last frame that is a part of a message, when the messages d have    *)
(* been delivered and p is pending, or (late) is still to be reset.        *)
UsedIn(d, p, late) ==
  IF p = <<>> \/ late THEN BeforeIn(d, Len(d) + 1) ELSE Last(p)

Whole(st, d) ==
  \A k \in 1..Len(d) :
    FragmentsIn(st, BeforeIn(d, k), d[k].parts, d[k].op, TRUE)

Open(st, d, p, op) ==
  IF p = <<>> THEN op = "none"
  ELSE FragmentsIn(st, BeforeIn(d, Len(d) + 1), p, op, FALSE)

(* After frame u come, up to frame n, no data frames, or the client is     *)
(* leaving and the first is one that broke the rule.                       *)
Rest(st, n, u, leaving) ==
  /\ u \in 0..n
  /\ \A j \in 1..n : FollowsIn(st, u, j) => ~LegalIn(st, u, j)
  /\ ~leaving => \A k \in (u + 1)..n : st[k].op \notin Data

Lawful(st, n) ==
  /\ \A i \in 0..n : \A j \in 1..n :
       (i > 0 => st[i].op \in Data) /\ FollowsIn(st, i, j) => LegalIn(st, i, j)
  /\ \A i \in 1..n : st[i].op # "reserved"

(* A callback of libevent has called disconnect_websocket_client, or the   *)
(* client has been erased.                                                 *)
Leaving ==
  \/ conn \in {"off", "freed"}
  \/ stack # <<>> /\ Last(stack) = "disconnect"

InMessage == stack # <<>> /\ Last(stack) = "message"

(* The number of frames that have been handled.                            *)
Done == IF reading /\ stack = <<>> THEN pos - 1 ELSE pos

MInv ==
  fault = "none" =>
    /\ Whole(stream, delivered)
    /\ ~InMessage => Open(stream, delivered, pending, pendingOp)
    /\ Rest(stream, Done, UsedIn(delivered, pending, InMessage), Leaving)
    /\ ~Leaving => Lawful(stream, Done)

LEMMA LastFragment ==
  ASSUME NEW st, NEW N \in Nat, NEW i, NEW s \in Seq(1..N), NEW op,
         NEW fin \in BOOLEAN, FragmentsIn(st, i, s, op, fin)
  PROVE  /\ Last(s) \in 1..N
         /\ st[Last(s)].op \in Data
         /\ st[Last(s)].fin <=> fin
         /\ op \in Data
<1>1. /\ s # <<>> /\ Len(s) \in Nat /\ Len(s) \in 1..Len(s)
      /\ \A k \in 1..Len(s) : s[k] \in 1..N
      /\ Len(s) # 1 => /\ Len(s) - 1 \in 1..(Len(s) - 1)
                       /\ (Len(s) - 1) + 1 = Len(s)
  <2>1. s # <<>>
    BY DEF FragmentsIn
  <2>2. Len(s) \in Nat /\ Len(s) # 0 /\ \A k \in 1..Len(s) : s[k] \in 1..N
    BY <2>1, EmptySeq
  <2> DEFINE l == Len(s)
  <2>3. l \in Nat /\ l # 0
    BY <2>2
  <2> HIDE DEF l
  <2>4. l \in 1..l
    BY <2>3
  <2>5. l # 1 => l - 1 \in 1..(l - 1) /\ (l - 1) + 1 = l
    BY <2>3
  <2> QED
    BY <2>1, <2>2, <2>4, <2>5 DEF l
<1>2. op \in Data
  BY DEF FragmentsIn, FollowsIn
<1>3. st[s[Len(s)]].op \in Data
  <2>1. CASE Len(s) = 1
    BY <2>1 DEF FragmentsIn, FollowsIn
  <2>2. CASE Len(s) # 1
    <3>1. FollowsIn(st, s[Len(s) - 1], s[(Len(s) - 1) + 1])
      BY <1>1, <2>2 DEF FragmentsIn
    <3> QED
      BY <1>1, <2>2, <3>1 DEF FollowsIn
  <2> QED
    BY <2>1, <2>2
<1>4. st[s[Len(s)]].fin <=> fin
  BY <1>1 DEF FragmentsIn
<1> QED
  BY <1>1, <1>2, <1>3, <1>4 DEF Last

LEMMA FirstFragment ==
  ASSUME NEW st, NEW i, NEW q, NEW fin \in BOOLEAN,
         FollowsIn(st, i, q), st[q].op # "cont", st[q].fin <=> fin
  PROVE  FragmentsIn(st, i, Append(<<>>, q), st[q].op, fin)
<1> DEFINE s == Append(<<>>, q)
<1>1. s # <<>> /\ Len(s) = 1 /\ s[1] = q
  OBVIOUS
<1> HIDE DEF s
<1>2. 1..(1 - 1) = {} /\ 2..1 = {} /\ 1..1 = {1}
  OBVIOUS
<1>3. FragmentsIn(st, i, s, st[q].op, fin)
  BY <1>1, <1>2 DEF FragmentsIn
<1> QED
  BY <1>3 DEF s

LEMMA AppendFragment ==
  ASSUME NEW st, NEW N \in Nat, NEW i, NEW s \in Seq(1..N), NEW op,
         NEW q \in 1..N, NEW fin \in BOOLEAN,
         FragmentsIn(st, i, s, op, FALSE), FollowsIn(st, Last(s), q),
         st[q].op = "cont", st[q].fin <=> fin
  PROVE  FragmentsIn(st, i, Append(s, q), op, fin)
<1> DEFINE t == Append(s, q)
           l == Len(s)
<1>1. /\ l \in Nat /\ l >= 1 /\ s # <<>>
      /\ Len(t) = l + 1 /\ t # <<>> /\ t[l + 1] = q
      /\ \A k \in 1..l : t[k] = s[k]
  BY EmptySeq DEF FragmentsIn
<1>2. s[l] = Last(s)
  BY DEF Last
<1> HIDE DEF t, l
<1>3. 1 \in 1..l /\ t[1] = s[1]
  BY <1>1
<1>4. FollowsIn(st, i, t[1]) /\ op = st[t[1]].op /\ op # "cont"
  BY <1>3 DEF FragmentsIn
<1>5. ASSUME NEW k \in 1..(Len(t) - 1) PROVE FollowsIn(st, t[k], t[k + 1])
  <2>1. CASE k = l
    <3>1. l \in 1..l
      BY <1>1
    <3>2. t[k] = Last(s) /\ t[k + 1] = q
      BY <1>1, <1>2, <2>1, <3>1
    <3> QED
      BY <3>2
  <2>2. CASE k # l
    <3>1. k \in 1..(l - 1) /\ k \in 1..l /\ k + 1 \in 1..l
      BY <1>1, <2>2
    <3>2. FollowsIn(st, s[k], s[k + 1])
      BY <3>1 DEF FragmentsIn, l
    <3> QED
      BY <1>1, <3>1, <3>2
  <2> QED
    BY <2>1, <2>2
<1>6. ASSUME NEW k \in 2..Len(t) PROVE st[t[k]].op = "cont"
  <2>1. CASE k = l + 1
    BY <1>1, <2>1
  <2>2. CASE k # l + 1
    <3>1. k \in 2..l /\ k \in 1..l
      BY <1>1, <2>2
    <3>2. st[s[k]].op = "cont"
      BY <3>1 DEF FragmentsIn, l
    <3> QED
      BY <1>1, <3>1, <3>2
  <2> QED
    BY <2>1, <2>2
<1>7. ASSUME NEW k \in 1..Len(t) PROVE st[t[k]].fin <=> fin /\ k = Len(t)
  <2>1. CASE k = l + 1
    BY <1>1, <2>1
  <2>2. CASE k # l + 1
    <3>1. k \in 1..l /\ k # Len(t)
      BY <1>1, <2>2
    <3>2. ~st[s[k]].fin
      BY <3>1 DEF FragmentsIn, l
    <3> QED
      BY <1>1, <3>1, <3>2
  <2> QED
    BY <2>1, <2>2
<1>8. FragmentsIn(st, i, t, op, fin)
  BY <1>1, <1>4, <1>5, <1>6, <1>7 DEF FragmentsIn
<1> QED
  BY <1>8 DEF t

Messages(N) == [op : Data \ {"cont"}, parts : Seq(1..N)]

(* The last message delivered ends with a final frame.                     *)
LEMMA LastMessage ==
  ASSUME NEW st, NEW N \in Nat, NEW d \in Seq(Messages(N)), Whole(st, d)
  PROVE  /\ BeforeIn(d, Len(d) + 1) \in 0..N
         /\ BeforeIn(d, Len(d) + 1) > 0 =>
              /\ st[BeforeIn(d, Len(d) + 1)].op \in Data
              /\ st[BeforeIn(d, Len(d) + 1)].fin
<1> DEFINE l == Len(d)
<1>1. l \in Nat
  OBVIOUS
<1>2. CASE l = 0
  BY <1>2 DEF BeforeIn
<1>3. CASE l # 0
  <2>1. l \in 1..l /\ l + 1 # 1 /\ (l + 1) - 1 = l
    BY <1>1, <1>3
  <2>2. BeforeIn(d, l + 1) = Last(d[l].parts)
    BY <2>1 DEF BeforeIn
  <2>3. /\ d[l] \in Messages(N)
        /\ FragmentsIn(st, BeforeIn(d, l), d[l].parts, d[l].op, TRUE)
    <3>1. d[l] \in Messages(N)
      BY <2>1
    <3>2. FragmentsIn(st, BeforeIn(d, l), d[l].parts, d[l].op, TRUE)
      BY <2>1 DEF Whole
    <3> QED
      BY <3>1, <3>2
  <2>4. d[l].parts \in Seq(1..N)
    BY <2>3 DEF Messages
  <2>5. /\ Last(d[l].parts) \in 1..N /\ st[Last(d[l].parts)].op \in Data
        /\ st[Last(d[l].parts)].fin
    BY <2>3, <2>4, LastFragment
  <2> QED
    BY <2>2, <2>5
<1> QED
  BY <1>2, <1>3

LEMMA WholeGrows ==
  ASSUME NEW st, NEW N \in Nat, NEW d \in Seq(Messages(N)), Whole(st, d),
         NEW op \in Data \ {"cont"}, NEW s \in Seq(1..N),
         FragmentsIn(st, BeforeIn(d, Len(d) + 1), s, op, TRUE)
  PROVE  /\ Whole(st, Append(d, [op |-> op, parts |-> s]))
         /\ BeforeIn(Append(d, [op |-> op, parts |-> s]),
                     Len(Append(d, [op |-> op, parts |-> s])) + 1) = Last(s)
<1> DEFINE m == [op |-> op, parts |-> s]
           e == Append(d, m)
           l == Len(d)
<1>1. m \in Messages(N) /\ m.op = op /\ m.parts = s
  BY DEF Messages
<1> HIDE DEF m
<1>2. /\ l \in Nat /\ Len(e) = l + 1 /\ e[l + 1] = m
      /\ \A k \in 1..l : e[k] = d[k]
  BY <1>1
<1> HIDE DEF e
<1>3. ASSUME NEW k \in 1..(l + 1) PROVE BeforeIn(e, k) = BeforeIn(d, k)
  <2>1. CASE k # 1
    <3>1. k - 1 \in 1..l
      BY <1>2, <2>1
    <3> QED
      BY <1>2, <2>1, <3>1 DEF BeforeIn
  <2> QED
    BY <2>1 DEF BeforeIn
<1>4. Whole(st, e)
  <2> SUFFICES ASSUME NEW k \in 1..Len(e)
               PROVE  FragmentsIn(st, BeforeIn(e, k), e[k].parts, e[k].op, TRUE)
    BY DEF Whole
  <2>1. k \in 1..(l + 1) /\ BeforeIn(e, k) = BeforeIn(d, k)
    BY <1>2, <1>3
  <2>2. CASE k = l + 1
    BY <1>1, <1>2, <2>1, <2>2
  <2>3. CASE k # l + 1
    <3>1. k \in 1..l
      BY <1>2, <2>1, <2>3
    <3>2. FragmentsIn(st, BeforeIn(d, k), d[k].parts, d[k].op, TRUE)
      BY <3>1 DEF Whole
    <3> QED
      BY <1>2, <2>1, <3>1, <3>2
  <2> QED
    BY <2>2, <2>3
<1>5. BeforeIn(e, Len(e) + 1) = Last(s)
  <2>1. Len(e) + 1 # 1 /\ (Len(e) + 1) - 1 = l + 1
    BY <1>2
  <2> QED
    BY <1>1, <1>2, <2>1 DEF BeforeIn
<1> QED
  BY <1>4, <1>5 DEF e, m

(* The opcode kept says whether the last frame that was used ended its     *)
(* message.                                                                *)
LEMMA LastUsed ==
  ASSUME NEW st, NEW N \in Nat, NEW d \in Seq(Messages(N)), Whole(st, d),
         NEW p \in Seq(1..N), NEW op, Open(st, d, p, op)
  PROVE  /\ UsedIn(d, p, FALSE) \in 0..N
         /\ UsedIn(d, p, FALSE) > 0 => st[UsedIn(d, p, FALSE)].op \in Data
         /\ op # "none" <=> /\ UsedIn(d, p, FALSE) > 0
                            /\ ~st[UsedIn(d, p, FALSE)].fin
<1>1. CASE p = <<>>
  <2>1. UsedIn(d, p, FALSE) = BeforeIn(d, Len(d) + 1) /\ op = "none"
    BY <1>1 DEF UsedIn, Open
  <2> QED
    BY <2>1, LastMessage
<1>2. CASE p # <<>>
  <2>1. /\ UsedIn(d, p, FALSE) = Last(p)
        /\ FragmentsIn(st, BeforeIn(d, Len(d) + 1), p, op, FALSE)
    BY <1>2 DEF UsedIn, Open
  <2>2. /\ Last(p) \in 1..N /\ st[Last(p)].op \in Data
        /\ ~st[Last(p)].fin /\ op \in Data
    BY <2>1, LastFragment
  <2>3. Last(p) > 0 /\ Last(p) \in 0..N /\ op # "none"
    BY <2>2 DEF Data
  <2> QED
    BY <2>1, <2>2, <2>3
<1> QED
  BY <1>1, <1>2

(* The next data frame q, which goes on where the last one left off.       *)
Fits(st, N, d, p, op, q) ==
  /\ N \in Nat /\ p \in Seq(1..N) /\ q \in 1..N
  /\ Open(st, d, p, op)
  /\ FollowsIn(st, UsedIn(d, p, FALSE), q)
  /\ op # "none" <=> st[q].op = "cont"
  /\ st[q].fin \in BOOLEAN

OpWith(st, op, q) == IF st[q].op = "cont" THEN op ELSE st[q].op

LEMMA FragmentTaken ==
  ASSUME NEW st, NEW N, NEW d, NEW p, NEW op, NEW q, Fits(st, N, d, p, op, q)
  PROVE  /\ Append(p, q) \in Seq(1..N) /\ Append(p, q) # <<>>
         /\ Last(Append(p, q)) = q
         /\ FragmentsIn(st, BeforeIn(d, Len(d) + 1), Append(p, q),
                        OpWith(st, op, q), st[q].fin)
<1> DEFINE fin == st[q].fin
<1>1. /\ N \in Nat /\ p \in Seq(1..N) /\ q \in 1..N
      /\ Open(st, d, p, op)
      /\ FollowsIn(st, UsedIn(d, p, FALSE), q)
      /\ op # "none" <=> st[q].op = "cont"
      /\ fin \in BOOLEAN /\ (st[q].fin <=> fin)
  BY DEF Fits
<1> HIDE DEF fin
<1>2. Append(p, q) \in Seq(1..N) /\ Append(p, q) # <<>>
  BY <1>1
<1>3. Last(Append(p, q)) = q
  <2>1. Len(Append(p, q)) = Len(p) + 1 /\ Append(p, q)[Len(p) + 1] = q
    BY <1>1
  <2> QED
    BY <2>1 DEF Last
<1>4. CASE p = <<>>
  <2>1. op = "none" /\ UsedIn(d, p, FALSE) = BeforeIn(d, Len(d) + 1)
    BY <1>1, <1>4 DEF Open, UsedIn
  <2>2. FragmentsIn(st, BeforeIn(d, Len(d) + 1), Append(<<>>, q), st[q].op,
                    fin)
    BY <1>1, <2>1, FirstFragment
  <2> QED
    BY <1>1, <1>2, <1>3, <1>4, <2>1, <2>2 DEF fin, OpWith
<1>5. CASE p # <<>>
  <2>1. /\ UsedIn(d, p, FALSE) = Last(p)
        /\ FragmentsIn(st, BeforeIn(d, Len(d) + 1), p, op, FALSE)
    BY <1>1, <1>5 DEF Open, UsedIn
  <2>2. op \in Data
    BY <1>1, <2>1, LastFragment
  <2>3. st[q].op = "cont"
    BY <1>1, <2>2 DEF Data
  <2>4. FragmentsIn(st, BeforeIn(d, Len(d) + 1), Append(p, q), op, fin)
    BY <1>1, <2>1, <2>3, AppendFragment
  <2> QED
    BY <1>2, <1>3, <2>3, <2>4 DEF fin, OpWith
<1> QED
  BY <1>4, <1>5

(* One more frame, m + 1.                                                  *)
LEMMA RestLeaves ==
  ASSUME NEW st, NEW m, NEW u, NEW a \in BOOLEAN, NEW b \in BOOLEAN,
         Rest(st, m, u, a), a => b
  PROVE  Rest(st, m, u, b)
BY DEF Rest

LEMMA RestControl ==
  ASSUME NEW st, NEW m \in Nat, NEW u, NEW leaving \in BOOLEAN,
         Rest(st, m, u, leaving), st[m + 1].op \notin Data
  PROVE  Rest(st, m + 1, u, leaving)
<1>1. \A j \in 1..(m + 1) : j \in 1..m \/ j = m + 1
  OBVIOUS
<1>2. u \in 0..(m + 1)
  BY DEF Rest
<1>3. ASSUME NEW j \in 1..(m + 1), FollowsIn(st, u, j)
      PROVE  ~LegalIn(st, u, j)
  BY <1>1, <1>3 DEF Rest, FollowsIn
<1>4. ASSUME ~leaving, NEW k \in (u + 1)..(m + 1) PROVE st[k].op \notin Data
  <2>1. k \in (u + 1)..m \/ k = m + 1
    BY <1>2
  <2> QED
    BY <1>4, <2>1 DEF Rest
<1> QED
  BY <1>2, <1>3, <1>4 DEF Rest

LEMMA RestFollows ==
  ASSUME NEW st, NEW m \in Nat, NEW u, Rest(st, m, u, FALSE),
         st[m + 1].op \in Data
  PROVE  FollowsIn(st, u, m + 1)
<1>1. u \in 0..m /\ (m + 1) - 1 = m
  BY DEF Rest
<1> QED
  BY <1>1 DEF Rest, FollowsIn

LEMMA RestRefused ==
  ASSUME NEW st, NEW m \in Nat, NEW u, Rest(st, m, u, FALSE),
         ~LegalIn(st, u, m + 1)
  PROVE  Rest(st, m + 1, u, TRUE)
<1>1. \A j \in 1..(m + 1) : j \in 1..m \/ j = m + 1
  OBVIOUS
<1>2. u \in 0..(m + 1)
  BY DEF Rest
<1> QED
  BY <1>1, <1>2 DEF Rest

LEMMA RestTaken ==
  ASSUME NEW st, NEW m \in Nat, NEW leaving \in BOOLEAN
  PROVE  Rest(st, m + 1, m + 1, leaving)
<1>1. m + 1 \in 0..(m + 1)
  OBVIOUS
<1>2. \A j \in 1..(m + 1) : ~(m + 1 < j)
  OBVIOUS
<1>3. ((m + 1) + 1)..(m + 1) = {}
  OBVIOUS
<1> QED
  BY <1>1, <1>2, <1>3 DEF Rest, FollowsIn

LEMMA LawfulControl ==
  ASSUME NEW st, NEW m \in Nat, Lawful(st, m), st[m + 1].op \notin Data,
         st[m + 1].op # "reserved"
  PROVE  Lawful(st, m + 1)
<1>1. \A i \in 1..(m + 1) : i \in 1..m \/ i = m + 1
  OBVIOUS
<1>2. ASSUME NEW i \in 0..(m + 1), NEW j \in 1..(m + 1),
             i > 0 => st[i].op \in Data, FollowsIn(st, i, j)
      PROVE  LegalIn(st, i, j)
  <2>1. j \in 1..m /\ i < j
    BY <1>1, <1>2 DEF FollowsIn
  <2>2. i \in 0..m
    BY <2>1
  <2> QED
    BY <1>2, <2>1, <2>2 DEF Lawful
<1>3. \A i \in 1..(m + 1) : st[i].op # "reserved"
  BY <1>1 DEF Lawful
<1> QED
  BY <1>2, <1>3 DEF Lawful

LEMMA LawfulData ==
  ASSUME NEW st, NEW m \in Nat, NEW u, Lawful(st, m), Rest(st, m, u, FALSE),
         u > 0 => st[u].op \in Data, LegalIn(st, u, m + 1),
         st[m + 1].op \in Data
  PROVE  Lawful(st, m + 1)
<1>1. \A i \in 1..(m + 1) : i \in 1..m \/ i = m + 1
  OBVIOUS
<1>2. u \in 0..m /\ \A k \in (u + 1)..m : st[k].op \notin Data
  BY DEF Rest
<1>3. ASSUME NEW i \in 0..(m + 1), NEW j \in 1..(m + 1),
             i > 0 => st[i].op \in Data, FollowsIn(st, i, j)
      PROVE  LegalIn(st, i, j)
  <2>1. i < j /\ \A k \in (i + 1)..(j - 1) : st[k].op \notin Data
    BY <1>3 DEF FollowsIn
  <2>2. i \in 0..m
    BY <2>1
  <2>3. CASE j = m + 1
    <3>1. ~(u < i)
      <4> SUFFICES ASSUME u < i PROVE FALSE
        OBVIOUS
      <4>1. i \in (u + 1)..m /\ i > 0
        BY <1>2, <2>2
      <4> QED
        BY <1>2, <1>3, <4>1
    <3>2. ~(i < u)
      <4> SUFFICES ASSUME i < u PROVE FALSE
        OBVIOUS
      <4>1. u \in (i + 1)..(j - 1) /\ u > 0
        BY <1>2, <2>2, <2>3
      <4> QED
        BY <2>1, <4>1
    <3>3. i = u
      BY <1>2, <2>2, <3>1, <3>2
    <3> QED
      BY <2>3, <3>3
  <2>4. CASE j # m + 1
    <3>1. j \in 1..m
      BY <1>1, <2>4
    <3> QED
      BY <1>3, <2>2, <3>1 DEF Lawful
  <2> QED
    BY <2>3, <2>4
<1>4. \A i \in 1..(m + 1) : st[i].op # "reserved"
  BY <1>1 DEF Lawful, Data
<1> QED
  BY <1>3, <1>4 DEF Lawful

-----------------------------------------------------------------------------
(* What the read callback starts from when it has taken frame pos.         *)
HandlingFrom(m, u) ==
  /\ m \in Nat /\ pos = m + 1
  /\ Whole(stream, delivered)
  /\ Open(stream, delivered, pending, pendingOp)
  /\ u = UsedIn(delivered, pending, FALSE)
  /\ Rest(stream, m, u, FALSE)
  /\ Lawful(stream, m)

LEMMA HandledState ==
  ASSUME CInv, MInv, NEW ops, Handling(ops)
  PROVE  HandlingFrom(pos - 1, UsedIn(delivered, pending, FALSE))
<1>1. /\ pos \in Nat /\ pos > 0 /\ stack = <<>> /\ conn = "ws"
      /\ fault = "none" /\ reading
  BY HandledFrame, TypeFacts DEF CInv
<1>2. Done = pos - 1 /\ InMessage = FALSE /\ Leaving = FALSE
  BY <1>1 DEF Done, InMessage, Leaving
<1>3. pos - 1 \in Nat /\ pos = (pos - 1) + 1
  BY <1>1
<1> QED
  BY <1>1, <1>2, <1>3 DEF HandlingFrom, MInv

(* The messages do not change, and no frame is handled.                    *)
LEMMA QuietKeeps ==
  ASSUME MInv, UNCHANGED <<stream, delivered, pending, pendingOp>>,
         fault' = "none" => /\ fault = "none" /\ Done' = Done
                            /\ InMessage' = InMessage
                            /\ Leaving => Leaving'
  PROVE  MInv'
<1> SUFFICES ASSUME fault' = "none"
             PROVE  /\ Whole(stream', delivered')
                    /\ ~InMessage' =>
                         Open(stream', delivered', pending', pendingOp')
                    /\ Rest(stream', Done',
                            UsedIn(delivered', pending', InMessage'), Leaving')
                    /\ ~Leaving' => Lawful(stream', Done')
  BY DEF MInv
<1>1. Leaving \in BOOLEAN /\ Leaving' \in BOOLEAN
  BY DEF Leaving
<1>2. Rest(stream, Done, UsedIn(delivered, pending, InMessage), Leaving)
  BY DEF MInv
<1>3. Rest(stream, Done, UsedIn(delivered, pending, InMessage), Leaving')
  BY <1>1, <1>2, RestLeaves
<1> QED
  BY <1>3 DEF MInv

(* One hook less, of a client that stays as it is or is erased.            *)
LEMMA PopKeeps ==
  ASSUME CInv, MInv, UNCHANGED <<stream, delivered, pending, pendingOp, pos>>,
         stack # <<>>, stack' = Tail(stack),
         Last(stack) # "message" \/ Tail(stack) # <<>>,
         conn \in {"off", "freed"} => conn' \in {"off", "freed"},
         stack' = <<>> => ~reading',
         stack' = <<>> /\ Last(stack) = "disconnect"
           => conn' \in {"off", "freed"},
         UNCHANGED fault
  PROVE  MInv'
<1>1. stack \in Seq(Hook) /\ stack' # <<>> => Last(stack') = Last(stack)
  BY ConnFacts, PopHook
<1>2. Done' = Done
  BY DEF Done
<1>3. InMessage' = InMessage
  BY ConnFacts, <1>1 DEF InMessage
<1>4. Leaving => Leaving'
  BY ConnFacts, <1>1 DEF Leaving
<1> QED
  BY <1>2, <1>3, <1>4, QuietKeeps

(* A hook runs inside another, or from a callback that reads nothing.      *)
LEMMA PushKeeps ==
  ASSUME CInv, MInv, UNCHANGED <<stream, delivered, pending, pendingOp, pos>>,
         NEW x \in {"own", "disconnect"}, stack' = <<x>> \o stack,
         stack = <<>> => ~reading,
         UNCHANGED <<conn, reading, fault>>
  PROVE  MInv'
<1>1. /\ stack' # <<>>
      /\ Last(stack') = IF stack = <<>> THEN x ELSE Last(stack)
  <2>1. stack \in Seq(Hook) /\ x \in Hook
    BY ConnFacts DEF Hook
  <2> QED
    BY <2>1, PushHook
<1>2. Done' = Done
  BY <1>1 DEF Done
<1>3. InMessage' = InMessage
  BY <1>1 DEF InMessage
<1>4. Leaving => Leaving'
  BY <1>1 DEF Leaving
<1> QED
  BY <1>2, <1>3, <1>4, QuietKeeps

LEMMA QuietActions ==
  ASSUME CInv, MInv,
         \/ Flush \/ AppHolds \/ AppDrops \/ AppUpgradesAnother
         \/ \E n \in 0..Flight : EnableWebsockets(n)
         \/ \E n \in 1..Flight : ReadPart(n)
         \/ UNCHANGED vars
  PROVE  MInv'
<1>1. UNCHANGED <<stream, pos, messageVars, reading, stack, fault>>
  BY DEF EnableWebsockets, Flush, AppHolds, AppDrops, AppUpgradesAnother,
     ReadPart, vars, inputVars, hookVars
<1>2. conn \in {"off", "freed"} => conn' \in {"off", "freed"}
  BY DEF EnableWebsockets, Flush, AppHolds, AppDrops, AppUpgradesAnother,
     ReadPart, Remains, vars
<1>3. Done' = Done
  BY <1>1 DEF Done
<1>4. InMessage' = InMessage
  BY <1>1 DEF InMessage
<1>5. Leaving => Leaving'
  BY <1>1, <1>2 DEF Leaving
<1> QED
  BY <1>1, <1>3, <1>4, <1>5, QuietKeeps DEF messageVars

LEMMA FaultActions ==
  ASSUME fault' # "none"
  PROVE  MInv'
BY DEF MInv

LEMMA ReadFrameAssembles ==
  ASSUME CInv, MInv, NEW n \in Nat, ReadFrame(n)
  PROVE  MInv'
<1>1. /\ fault = "none" /\ ~reading /\ stack = <<>> /\ pos' = pos + 1
      /\ fault' = IF Taken(stream[pos + 1], avail + n)
                  THEN "none" ELSE "escaped"
      /\ reading' = Taken(stream[pos + 1], avail + n)
      /\ UNCHANGED <<conn, stream, stack, messageVars>>
  BY ReadFrameIs
<1>2. UNCHANGED <<delivered, pending, pendingOp>> /\ pos \in Nat
  BY <1>1, TypeFacts DEF messageVars, CInv
<1>3. fault' = "none" => reading'
  BY <1>1
<1>4. fault' = "none" => Done' = Done
  BY <1>1, <1>2, <1>3 DEF Done
<1>5. InMessage' = InMessage
  BY <1>1 DEF InMessage
<1>6. Leaving => Leaving'
  BY <1>1 DEF Leaving
<1> QED
  BY <1>1, <1>2, <1>4, <1>5, <1>6, QuietKeeps

LEMMA ControlAssembles ==
  ASSUME CInv, MInv, IgnorePong \/ AnswerPing
  PROVE  MInv'
<1>1. /\ Handling({"ping", "pong"}) /\ ReadReturns /\ UNCHANGED messageVars
  BY DEF IgnorePong, AnswerPing, Handling
<1>2. /\ stack = <<>> /\ conn = "ws" /\ fault = "none"
      /\ stream[pos].op \in {"ping", "pong"}
  BY <1>1, HandledFrame
<1>3. /\ reading' = FALSE /\ UNCHANGED <<conn, stream, pos, stack, fault>>
      /\ UNCHANGED <<delivered, pending, pendingOp>>
  BY <1>1 DEF ReadReturns, inputVars, hookVars, messageVars
<1> DEFINE m == pos - 1
           u == UsedIn(delivered, pending, FALSE)
<1>4. HandlingFrom(m, u)
  BY <1>1, HandledState
<1> HIDE DEF m, u
<1>5. Done' = m + 1 /\ InMessage' = FALSE /\ Leaving' = FALSE
  BY <1>2, <1>3, <1>4 DEF Done, InMessage, Leaving, HandlingFrom
<1>6. Rest(stream, m + 1, u, FALSE) /\ Lawful(stream, m + 1)
  <2>1. stream[m + 1].op \notin Data /\ stream[m + 1].op # "reserved"
    BY <1>2, <1>4 DEF HandlingFrom, Data
  <2> QED
    BY <1>4, <2>1, RestControl, LawfulControl DEF HandlingFrom
<1> QED
  BY <1>3, <1>4, <1>5, <1>6 DEF MInv, HandlingFrom

(* A frame for which the client is disconnected.                           *)
LEMMA RefusedAssembles ==
  ASSUME CInv, MInv, NEW ops, Handling(ops), Disconnect, UNCHANGED cause,
         unsent' \in Seq({"close", "pong"}),
         stream[pos].op \in Data => ~Continues
  PROVE  MInv'
<1>1. /\ conn = "ws" /\ stack' = <<"disconnect">> /\ fault' = fault
      /\ stream[pos] \in FrameType /\ fault = "none"
  BY RefuseKeeps, HandledFrame
<1>2. /\ UNCHANGED <<conn, stream, pos>>
      /\ UNCHANGED <<delivered, pending, pendingOp>>
  BY <1>1 DEF Disconnect, inputVars, messageVars
<1> DEFINE m == pos - 1
           u == UsedIn(delivered, pending, FALSE)
<1>3. HandlingFrom(m, u)
  BY HandledState
<1> HIDE DEF m, u
<1>4. "disconnect" \in Hook /\ stack' # <<>> /\ Last(stack') = "disconnect"
  BY <1>1, OneHook DEF Hook
<1>5. Done' = m + 1 /\ InMessage' = FALSE /\ Leaving' = TRUE
  BY <1>2, <1>3, <1>4 DEF Done, InMessage, Leaving, HandlingFrom
<1>6. Rest(stream, m + 1, u, TRUE)
  <2>1. CASE stream[pos].op \notin Data
    <3>1. Rest(stream, m + 1, u, FALSE)
      BY <1>3, <2>1, RestControl DEF HandlingFrom
    <3> QED
      BY <3>1, RestLeaves
  <2>2. CASE stream[pos].op \in Data
    <3>1. (pendingOp # "none") # (stream[pos].op = "cont")
      BY <2>2 DEF Continues
    <3>2. pendingOp # "none" <=> u > 0 /\ ~stream[u].fin
      <4>1. /\ delivered \in Seq(Messages(pos)) /\ pending \in Seq(1..pos)
            /\ pos \in Nat
        BY TypeFacts DEF CInv, TypeOK, Messages
      <4> QED
        BY <1>3, <4>1, LastUsed DEF HandlingFrom
    <3>3. ~LegalIn(stream, u, m + 1)
      BY <1>3, <3>1, <3>2 DEF LegalIn, HandlingFrom
    <3> QED
      BY <1>3, <3>3, RestRefused DEF HandlingFrom
  <2> QED
    BY <2>1, <2>2
<1> QED
  BY <1>2, <1>3, <1>5, <1>6 DEF MInv, HandlingFrom

(* A data frame that is in its place.                                      *)
LEMMA DataTaken ==
  ASSUME CInv, MInv, Handling(Data), Continues, SaveData
  PROVE  /\ pending' \in Seq(1..pos) /\ pending' # <<>>
         /\ Last(pending') = pos
         /\ FragmentsIn(stream, BeforeIn(delivered, Len(delivered) + 1),
                        pending', pendingOp', stream[pos].fin)
         /\ Lawful(stream, pos)
         /\ \A leaving \in BOOLEAN : Rest(stream, pos, pos, leaving)
<1>1. /\ pos \in 1..Len(stream) /\ stream[pos] \in FrameType
      /\ stream[pos].op \in Data
  BY HandledFrame
<1>2. /\ delivered \in Seq(Messages(pos)) /\ pending \in Seq(1..pos)
      /\ pos \in Nat /\ pos \in 1..pos
  BY <1>1, TypeFacts DEF CInv, TypeOK, Messages
<1> DEFINE m == pos - 1
           u == UsedIn(delivered, pending, FALSE)
<1>3. HandlingFrom(m, u)
  BY HandledState
<1> HIDE DEF m, u
<1>4. /\ u > 0 => stream[u].op \in Data
      /\ pendingOp # "none" <=> u > 0 /\ ~stream[u].fin
  BY <1>2, <1>3, LastUsed DEF HandlingFrom
<1>5. FollowsIn(stream, u, pos)
  BY <1>1, <1>3, RestFollows DEF HandlingFrom
<1>6. LegalIn(stream, u, pos)
  BY <1>4 DEF LegalIn, Continues
<1>7. Lawful(stream, pos)
  BY <1>1, <1>3, <1>4, <1>6, LawfulData DEF HandlingFrom
<1>8. \A leaving \in BOOLEAN : Rest(stream, pos, pos, leaving)
  BY <1>3, RestTaken DEF HandlingFrom
<1>9. /\ pending' = Append(pending, pos)
      /\ pendingOp' = IF stream[pos].op = "cont" THEN pendingOp
                                                 ELSE stream[pos].op
  BY DEF SaveData
<1>10. stream[pos].fin \in BOOLEAN
  BY <1>1, FrameIs
<1>11. /\ pending' \in Seq(1..pos) /\ pending' # <<>>
       /\ Last(pending') = pos
       /\ FragmentsIn(stream, BeforeIn(delivered, Len(delivered) + 1),
                      pending', pendingOp', stream[pos].fin)
  <2>1. Fits(stream, pos, delivered, pending, pendingOp, pos)
    BY <1>2, <1>3, <1>5, <1>10 DEF Fits, HandlingFrom, Continues
  <2>2. pendingOp' = OpWith(stream, pendingOp, pos)
    BY <1>9 DEF OpWith
  <2> QED
    BY <1>9, <2>1, <2>2, FragmentTaken
<1> QED
  BY <1>7, <1>8, <1>11

LEMMA AppendDataAssembles ==
  ASSUME CInv, MInv, AppendData
  PROVE  MInv'
<1>1. /\ Handling(Data) /\ Continues /\ SaveData /\ ReadReturns
      /\ ~stream[pos].fin /\ UNCHANGED delivered
  BY DEF AppendData
<1>2. stack = <<>> /\ conn = "ws" /\ fault = "none"
      /\ stream[pos] \in FrameType
  BY <1>1, HandledFrame
<1>3. /\ reading' = FALSE /\ UNCHANGED <<conn, stream, pos, stack, fault>>
  BY <1>1 DEF ReadReturns, inputVars, hookVars
<1>4. Done' = pos /\ InMessage' = FALSE /\ Leaving' = FALSE
  BY <1>2, <1>3 DEF Done, InMessage, Leaving
<1>5. /\ pending' # <<>> /\ Last(pending') = pos
      /\ FragmentsIn(stream, BeforeIn(delivered, Len(delivered) + 1),
                     pending', pendingOp', stream[pos].fin)
      /\ Lawful(stream, pos) /\ Rest(stream, pos, pos, FALSE)
  BY <1>1, DataTaken
<1>6. stream[pos].fin = FALSE
  BY <1>1, <1>2, FrameIs
<1>7. Open(stream', delivered', pending', pendingOp')
  BY <1>1, <1>3, <1>5, <1>6 DEF Open
<1>8. UsedIn(delivered', pending', FALSE) = pos
  BY <1>5 DEF UsedIn
<1>9. Whole(stream', delivered')
  BY <1>1, <1>2, <1>3 DEF MInv
<1> QED
  BY <1>3, <1>4, <1>5, <1>7, <1>8, <1>9 DEF MInv

LEMMA DeliverMessageAssembles ==
  ASSUME CInv, MInv, DeliverMessage
  PROVE  MInv'
<1>1. /\ Handling(Data) /\ Continues /\ SaveData /\ stream[pos].fin
      /\ delivered' = Append(delivered,
                             [op |-> pendingOp', parts |-> pending'])
      /\ stack' = <<"message">>
      /\ UNCHANGED <<conn, inputVars, reading, fault>>
  BY DEF DeliverMessage
<1>2. conn = "ws" /\ fault = "none" /\ stream[pos] \in FrameType
  BY <1>1, HandledFrame
<1>3. UNCHANGED <<stream, pos>>
  BY <1>1 DEF inputVars
<1>4. stack' # <<>> /\ Last(stack') = "message"
  BY <1>1, OneHook DEF Hook
<1>5. Done' = pos /\ InMessage' = TRUE /\ Leaving' = FALSE
  BY <1>1, <1>2, <1>3, <1>4 DEF Done, InMessage, Leaving
<1>6. /\ pending' \in Seq(1..pos) /\ pending' # <<>> /\ Last(pending') = pos
      /\ FragmentsIn(stream, BeforeIn(delivered, Len(delivered) + 1),
                     pending', pendingOp', stream[pos].fin)
      /\ Lawful(stream, pos) /\ Rest(stream, pos, pos, FALSE)
  BY <1>1, DataTaken
<1>7. /\ stream[pos].fin = TRUE /\ pendingOp' \in Data \ {"cont"}
      /\ pos \in Nat /\ delivered \in Seq(Messages(pos))
  BY <1>1, <1>2, FrameIs, SaveDataTypes, TypeFacts DEF CInv, TypeOK, Messages
<1>8. FragmentsIn(stream, BeforeIn(delivered, Len(delivered) + 1),
                  pending', pendingOp', TRUE)
  BY <1>6, <1>7
<1>9. Whole(stream, delivered)
  BY <1>2 DEF MInv
<1>10. /\ Whole(stream, delivered')
       /\ BeforeIn(delivered', Len(delivered') + 1) = pos
  <2> DEFINE e == Append(delivered, [op |-> pendingOp', parts |-> pending'])
  <2>1. Whole(stream, e) /\ BeforeIn(e, Len(e) + 1) = Last(pending')
    BY Zenon, <1>6, <1>7, <1>8, <1>9, WholeGrows
  <2>2. delivered' = e
    BY <1>1
  <2> HIDE DEF e
  <2> QED
    BY <1>6, <2>1, <2>2
<1>11. UsedIn(delivered', pending', TRUE) = pos
  BY <1>10 DEF UsedIn
<1>12. Rest(stream', Done', UsedIn(delivered', pending', InMessage'), Leaving')
  BY <1>3, <1>5, <1>6, <1>11
<1>13. Whole(stream', delivered') /\ Lawful(stream', Done') /\ InMessage'
  BY <1>3, <1>5, <1>6, <1>10
<1> QED
  BY <1>12, <1>13 DEF MInv

(* The pending frame, which has been handed over, is reset.                *)
LEMMA MessageReturnsAssembles ==
  ASSUME CInv, MInv, MessageReturns
  PROVE  MInv'
<1>1. /\ fault = "none" /\ stack # <<>> /\ Head(stack) = "message"
      /\ stack' = Tail(stack) /\ conn' = Remains(conn, held, <<>>)
      /\ reading' = FALSE /\ pendingOp' = "none" /\ pending' = <<>>
      /\ UNCHANGED <<inputVars, delivered, fault>>
  BY DEF MessageReturns, InHook, Pop
<1>2. UNCHANGED <<stream, pos>>
  BY <1>1 DEF inputVars
<1>3. stack' = <<>> /\ Last(stack) = "message"
  BY <1>1, ConnFacts, OuterHook
<1>4. conn' \in {conn, "freed"} /\ (conn' = "freed" => conn \in {"off", "freed"})
  BY <1>1 DEF Remains
<1>5. /\ Done = pos /\ Done' = pos /\ InMessage = TRUE /\ InMessage' = FALSE
      /\ Leaving \in BOOLEAN /\ Leaving' = Leaving
  BY <1>1, <1>2, <1>3, <1>4 DEF Done, InMessage, Leaving
<1>6. /\ Whole(stream, delivered)
      /\ Rest(stream, pos, UsedIn(delivered, pending, TRUE), Leaving)
      /\ ~Leaving => Lawful(stream, pos)
  BY <1>1, <1>5 DEF MInv
<1>7. UsedIn(delivered', pending', FALSE) = UsedIn(delivered, pending, TRUE)
  BY <1>1 DEF UsedIn
<1>8. Open(stream', delivered', pending', pendingOp')
  BY <1>1 DEF Open
<1> QED
  BY <1>1, <1>2, <1>5, <1>6, <1>7, <1>8 DEF MInv

LEMMA HooksAssemble ==
  ASSUME CInv, MInv,
         \/ DisconnectReturns \/ DisconnectThrows
         \/ AppEvent \/ AppReturns \/ AppDisconnects
         \/ ErrorEvent \/ MessageThrows
  PROVE  MInv'
<1>1. CASE DisconnectReturns
  <2>1. /\ stack # <<>> /\ Head(stack) = "disconnect"
    BY <1>1 DEF DisconnectReturns, InHook
  <2>2. CASE IteratorIsValid
    <3>1. /\ stack' = Tail(stack) /\ conn' = Remains("off", held, Tail(stack))
          /\ reading' = (reading /\ Tail(stack) # <<>>)
          /\ UNCHANGED <<inputVars, messageVars, fault>>
      BY <1>1, <2>2 DEF DisconnectReturns, Pop
    <3>2. conn' \in {"off", "freed"}
      BY <3>1, RemainsIs
    <3>3. Last(stack) # "message" \/ Tail(stack) # <<>>
      <4>1. CASE Tail(stack) = <<>>
        <5>1. Len(stack) = 1 /\ Head(stack) = stack[1]
          BY <2>1, <4>1, ConnFacts, PopHook
        <5> QED
          BY <2>1, <5>1 DEF Last
      <4> QED
        BY <4>1
    <3> QED
      BY <2>1, <3>1, <3>2, <3>3, PopKeeps DEF inputVars, messageVars
  <2>3. CASE ~IteratorIsValid
    BY <1>1, <2>3, FaultActions DEF DisconnectReturns, Fault
  <2> QED
    BY <2>2, <2>3
<1>2. CASE DisconnectThrows
  <2>1. CASE Tail(stack) # <<>>
    <3>1. /\ stack # <<>> /\ stack' = Tail(stack)
          /\ UNCHANGED <<conn, inputVars, reading, messageVars, fault>>
      BY <1>2, <2>1 DEF DisconnectThrows, InHook, Pop
    <3> QED
      BY <2>1, <3>1, PopKeeps DEF inputVars, messageVars
  <2>2. CASE Tail(stack) = <<>>
    BY <1>2, <2>2, FaultActions DEF DisconnectThrows, Fault
  <2> QED
    BY <2>1, <2>2
<1>3. CASE AppEvent
  <2>1. /\ ~reading /\ stack = <<>> /\ stack' = <<"own">>
        /\ UNCHANGED <<conn, inputVars, reading, messageVars, fault>>
    BY <1>3 DEF AppEvent, Idle
  <2>2. stack' = <<"own">> \o stack
    BY <2>1
  <2> QED
    BY <2>1, <2>2, PushKeeps DEF inputVars, messageVars
<1>4. CASE AppReturns
  <2>1. /\ stack # <<>> /\ Head(stack) = "own" /\ stack' = Tail(stack)
        /\ conn' = Remains(conn, held, Tail(stack))
        /\ UNCHANGED <<inputVars, reading, messageVars, fault>>
    BY <1>4 DEF AppReturns, InHook, Pop
  <2>2. Last(stack) = "own"
    BY <2>1, ConnFacts, OuterHook
  <2>3. ~reading
    BY <2>1, <2>2 DEF CInv, Stacked
  <2>4. conn' \in {conn, "freed"}
    BY <2>1, RemainsIs
  <2> QED
    BY <2>1, <2>2, <2>3, <2>4, PopKeeps DEF inputVars, messageVars
<1>5. CASE AppDisconnects
  <2>1. stack # <<>> /\ Disconnect
    BY <1>5 DEF AppDisconnects
  <2>2. CASE conn = "ws"
    <3>1. /\ stack' = <<"disconnect">> \o stack
          /\ UNCHANGED <<conn, inputVars, reading, messageVars, fault>>
      BY <2>1, <2>2 DEF Disconnect
    <3> QED
      BY <2>1, <3>1, PushKeeps DEF inputVars, messageVars
  <2>3. CASE conn # "ws"
    BY <2>1, <2>3, FaultActions DEF Disconnect
  <2> QED
    BY <2>2, <2>3
<1>6. CASE ErrorEvent
  <2>1. /\ ~reading /\ stack = <<>>
        /\ UNCHANGED <<conn, stream, pos, reading, messageVars>>
    BY <1>6 DEF ErrorEvent, Idle
  <2>2. CASE conn = "ws"
    <3>1. stack' = <<"disconnect">> /\ UNCHANGED fault
      BY <1>6, <2>2 DEF ErrorEvent
    <3>2. stack' = <<"disconnect">> \o stack
      BY <2>1, <3>1
    <3> QED
      BY <2>1, <3>1, <3>2, PushKeeps DEF messageVars
  <2>3. CASE conn = "off"
    BY <1>6, <2>3, FaultActions DEF ErrorEvent
  <2> QED
    BY <1>6, <2>2, <2>3 DEF ErrorEvent
<1>7. CASE MessageThrows
  BY <1>7, FaultActions DEF MessageThrows, Fault
<1> QED
  BY <1>1, <1>2, <1>3, <1>4, <1>5, <1>6, <1>7

LEMMA InitAssembles == Init => MInv
<1> SUFFICES ASSUME Init PROVE MInv
  OBVIOUS
<1>1. /\ pos = 0 /\ reading = FALSE /\ stack = <<>> /\ pending = <<>>
      /\ delivered = <<>> /\ pendingOp = "none"
  BY DEF Init
<1>2. Done = 0 /\ ~InMessage
  BY <1>1 DEF Done, InMessage
<1>3. Len(delivered) = 0 /\ Len(delivered) + 1 = 1
  BY <1>1
<1>4. UsedIn(delivered, pending, InMessage) = 0
  BY <1>1, <1>3 DEF UsedIn, BeforeIn
<1>5. 1..0 = {} /\ (0 + 1)..0 = {} /\ 0 \in 0..0
  OBVIOUS
<1>6. Rest(stream, 0, 0, Leaving) /\ Lawful(stream, 0)
  BY <1>5 DEF Rest, Lawful
<1>7. Whole(stream, delivered)
  BY <1>3, <1>5 DEF Whole
<1>8. Open(stream, delivered, pending, pendingOp)
  BY <1>1 DEF Open
<1> QED
  BY <1>2, <1>4, <1>6, <1>7, <1>8 DEF MInv

LEMMA NextAssembles == CInv /\ MInv /\ [Next]_vars => MInv'
<1> SUFFICES ASSUME CInv, MInv, [Next]_vars PROVE MInv'
  OBVIOUS
<1>1. CASE \/ Flush \/ AppHolds \/ AppDrops \/ AppUpgradesAnother
           \/ \E n \in 0..Flight : EnableWebsockets(n)
           \/ \E n \in 1..Flight : ReadPart(n)
           \/ UNCHANGED vars
  BY <1>1, QuietActions
<1>2. CASE \E n \in 1..Flight : ReadFrame(n)
  BY <1>2, ReadFrameAssembles
<1>3. CASE IgnorePong \/ AnswerPing
  BY <1>3, ControlAssembles
<1>4. CASE AnswerClose
  <2>1. /\ Handling({"close"}) /\ Disconnect /\ UNCHANGED cause
        /\ unsent' = Append(unsent, "close")
    BY <1>4 DEF AnswerClose
  <2>2. unsent' \in Seq({"close", "pong"})
    BY <2>1, AppendReply DEF CInv
  <2>3. stream[pos].op \notin Data
    BY <2>1 DEF Handling, Data
  <2> QED
    BY <2>1, <2>2, <2>3, RefusedAssembles
<1>5. CASE RefuseControl
  <2>1. /\ Handling({"reserved"}) /\ Disconnect /\ UNCHANGED <<unsent, cause>>
    BY <1>5 DEF RefuseControl
  <2>2. unsent' \in Seq({"close", "pong"})
    BY <2>1 DEF CInv, TypeOK
  <2>3. stream[pos].op \notin Data
    BY <2>1 DEF Handling, Data
  <2> QED
    BY <2>1, <2>2, <2>3, RefusedAssembles
<1>6. CASE RefuseData
  <2>1. /\ Handling(Data) /\ ~Continues /\ Disconnect
        /\ UNCHANGED <<unsent, cause>>
    BY <1>6 DEF RefuseData
  <2>2. unsent' \in Seq({"close", "pong"})
    BY <2>1 DEF CInv, TypeOK
  <2> QED
    BY <2>1, <2>2, RefusedAssembles
<1>7. CASE AppendData \/ DeliverMessage
  BY <1>7, AppendDataAssembles, DeliverMessageAssembles
<1>8. CASE MessageReturns
  BY <1>8, MessageReturnsAssembles
<1>9. CASE \/ DisconnectReturns \/ DisconnectThrows
           \/ AppEvent \/ AppReturns \/ AppDisconnects
           \/ ErrorEvent \/ MessageThrows
  BY <1>9, HooksAssemble
<1> QED
  BY <1>1, <1>2, <1>3, <1>4, <1>5, <1>6, <1>7, <1>8, <1>9 DEF Next

(* What has been handed over and what is pending, with the invariant of    *)
(* the hooks, in every state.                                              *)
THEOREM MessageInvariance == Spec => [](CInv /\ MInv)
<1>1. Init => CInv /\ MInv
  BY InitControl, InitAssembles
<1>2. CInv /\ MInv /\ [Next]_vars => (CInv /\ MInv)'
  BY NextControl, NextAssembles
<1> QED
  BY <1>1, <1>2, PTL DEF Spec

LEMMA IdleIs ==
  ASSUME CInv, MInv, Idle
  PROVE  /\ Whole(stream, delivered)
         /\ Open(stream, delivered, pending, pendingOp)
         /\ Rest(stream, pos, UsedIn(delivered, pending, FALSE), Leaving)
         /\ conn = "ws" => Lawful(stream, pos)
<1>1. fault = "none" /\ ~reading /\ stack = <<>>
  BY DEF Idle
<1>2. Done = pos /\ InMessage = FALSE /\ (conn = "ws" => ~Leaving)
  BY <1>1 DEF Done, InMessage, Leaving
<1> QED
  BY <1>1, <1>2 DEF MInv

(* Between callbacks, the messages delivered and the pending one are all   *)
(* the data frames handled, in order, up to the first out of its place.    *)
THEOREM MessagesAreAssembled == Spec => []MessagesAssembled
<1>1. CInv /\ MInv => MessagesAssembled
  <2> SUFFICES ASSUME CInv, MInv, Idle
               PROVE  /\ \A k \in 1..Len(delivered) :
                           Fragments(Before(k), delivered[k].parts,
                                     delivered[k].op, TRUE)
                      /\ IF pending = <<>> THEN pendingOp = "none"
                         ELSE Fragments(Before(Len(delivered) + 1), pending,
                                        pendingOp, FALSE)
                      /\ \A j \in 1..pos : Follows(Used, j) => ~Legal(Used, j)
    BY DEF MessagesAssembled, CInv
  <2>1. \A i, s, op, fin :
          Fragments(i, s, op, fin) <=> FragmentsIn(stream, i, s, op, fin)
    BY DEF Fragments, FragmentsIn, Follows, FollowsIn
  <2>2. \A k : Before(k) = BeforeIn(delivered, k)
    BY DEF Before, BeforeIn
  <2>3. Used = UsedIn(delivered, pending, FALSE)
    BY <2>2 DEF Used, UsedIn
  <2>4. \A k \in 1..Len(delivered) :
          Fragments(Before(k), delivered[k].parts, delivered[k].op, TRUE)
    BY <2>1, <2>2, IdleIs DEF Whole
  <2>5. IF pending = <<>> THEN pendingOp = "none"
        ELSE Fragments(Before(Len(delivered) + 1), pending, pendingOp, FALSE)
    BY <2>1, <2>2, IdleIs DEF Open
  <2>6. \A j \in 1..pos : Follows(Used, j) => ~Legal(Used, j)
    BY <2>3, IdleIs DEF Rest, Follows, FollowsIn, Legal, LegalIn
  <2> QED
    BY <2>4, <2>5, <2>6
<1> QED
  BY <1>1, MessageInvariance, PTL

(* A peer that breaks the fragmentation rule or uses a reserved opcode is  *)
(* out of the map before the next callback.                                *)
THEOREM ViolatorsAreDisconnected == Spec => []ViolatorsLeave
<1>1. CInv /\ MInv => ViolatorsLeave
  <2> SUFFICES ASSUME CInv, MInv, Idle, conn = "ws" PROVE ViolatorsLeave
    BY DEF ViolatorsLeave
  <2>1. Lawful(stream, pos)
    BY IdleIs
  <2> QED
    BY <2>1 DEF ViolatorsLeave, Lawful, Follows, FollowsIn, Legal, LegalIn
<1> QED
  BY <1>1, MessageInvariance, PTL

-----------------------------------------------------------------------------
(* The length field of the frames that are sent. A size has eight bytes.   *)
LEMMA SeqIs ==
  ASSUME NEW S, NEW n \in Nat, NEW s \in [1..n -> S]
  PROVE  s \in Seq(S) /\ Len(s) = n
OBVIOUS

Octets(size) ==
  size \in Seq(Nat) /\ Len(size) = 8 /\ \A i \in 1..8 : size[i] \in Nat

LEMMA SizeIs ==
  ASSUME NEW B \in SUBSET Nat, NEW size \in Sizes(B)
  PROVE  Octets(size)
<1> DEFINE n == 8
<1>1. size \in [1..n -> Nat] /\ n \in Nat
  BY DEF Sizes
<1>2. n = 8
  OBVIOUS
<1> HIDE DEF n
<1>3. size \in Seq(Nat) /\ Len(size) = n
  BY <1>1, SeqIs
<1>4. \A i \in 1..n : size[i] \in Nat
  BY <1>1
<1> QED
  BY <1>2, <1>3, <1>4 DEF Octets

LEMMA SameSize ==
  ASSUME NEW s \in Seq(Nat), NEW t \in Seq(Nat), Len(s) = 8, Len(t) = 8,
         \A i \in 1..8 : s[i] = t[i]
  PROVE  s = t
BY SeqEqual

LEMMA PrefixIs ==
  ASSUME NEW x \in Nat, NEW s \in Seq(Nat)
  PROVE  /\ <<x>> \o s \in Seq(Nat) /\ Len(<<x>> \o s) = Len(s) + 1
         /\ (<<x>> \o s)[1] = x
         /\ \A i \in 1..Len(s) : (<<x>> \o s)[i + 1] = s[i]
<1> DEFINE t == <<x>> \o s
           n == Len(s)
<1>1. /\ <<x>> \in Seq(Nat) /\ Len(<<x>>) = 1 /\ <<x>>[1] = x
      /\ n \in Nat
  OBVIOUS
<1>2. /\ t \in Seq(Nat) /\ Len(t) = 1 + n
      /\ \A i \in 1..(1 + n) : t[i] = IF i <= 1 THEN <<x>>[i] ELSE s[i - 1]
  BY <1>1, ConcatProperties
<1> HIDE DEF t, n
<1>3. t[1] = x
  BY <1>1, <1>2
<1>4. ASSUME NEW i \in 1..n PROVE t[i + 1] = s[i]
  <2>1. i + 1 \in 1..(1 + n) /\ ~(i + 1 <= 1) /\ (i + 1) - 1 = i
    BY <1>1
  <2> QED
    BY <1>2, <2>1
<1> QED
  BY <1>1, <1>2, <1>3, <1>4 DEF t, n

LEMMA HighBytes ==
  ASSUME NEW size, Octets(size)
  PROVE  Zero(SubSeq(size, 1, 6)) <=> \A i \in 1..6 : size[i] = 0
<1>0. /\ size \in Seq(Nat) /\ Len(size) = 8
      /\ \A i \in 1..8 : size[i] \in Nat
  BY DEF Octets
<1> DEFINE s == SubSeq(size, 1, 6)
<1>1. ASSUME NEW i \in 1..6 PROVE size[i] \in Nat
  <2>1. i \in 1..8
    OBVIOUS
  <2> QED
    BY <1>0, <2>1
<1>2. /\ s \in Seq(Nat) /\ Len(s) = 6
      /\ \A i \in 1..(6 - 1 + 1) : s[i] = size[1 + i - 1]
  BY <1>1, SubSeqProperties
<1> HIDE DEF s
<1>3. DOMAIN s = 1..6 /\ \A i \in 1..6 : s[i] = size[i]
  BY <1>2
<1> QED
  BY <1>3 DEF Zero, s

LEMMA PaddedIs ==
  ASSUME NEW n \in 1..8, NEW digits \in Seq(Nat), Len(digits) = n
  PROVE  /\ Padded(digits) \in Seq(Nat) /\ Len(Padded(digits)) = 8
         /\ \A i \in 1..8 : Padded(digits)[i] =
              IF i <= 8 - n THEN 0 ELSE digits[i - (8 - n)]
<1> DEFINE z == [i \in 1..(8 - Len(digits)) |-> 0]
<1>1. z \in Seq(Nat) /\ Len(z) = 8 - n /\ \A i \in 1..(8 - n) : z[i] = 0
  OBVIOUS
<1> HIDE DEF z
<1> DEFINE p == z \o digits
<1>2. /\ p \in Seq(Nat) /\ Len(p) = Len(z) + Len(digits)
      /\ \A i \in 1..(Len(z) + Len(digits)) :
           p[i] = IF i <= Len(z) THEN z[i] ELSE digits[i - Len(z)]
  BY <1>1, ConcatProperties
<1>3. Padded(digits) = p
  BY DEF Padded, z
<1> HIDE DEF p
<1>4. (8 - n) + n = 8 /\ \A i \in 1..8 : i <= 8 - n => i \in 1..(8 - n)
  OBVIOUS
<1>5. /\ Len(p) = 8
      /\ \A i \in 1..8 : p[i] = IF i <= 8 - n THEN z[i] ELSE digits[i - (8 - n)]
  BY <1>1, <1>2, <1>4
<1> QED
  BY <1>1, <1>2, <1>3, <1>4, <1>5

(* A size of 65536 or more.                                                *)
LEMMA LargeReadsBack ==
  ASSUME NEW size, Octets(size)
  PROVE  /\ Read(<<127>> \o size).size = size
         /\ Read(<<127>> \o size).used = Len(<<127>> \o size)
<1>0. /\ size \in Seq(Nat) /\ Len(size) = 8
      /\ \A i \in 1..8 : size[i] \in Nat
  BY DEF Octets
<1> DEFINE mark == 127
           frame == <<mark>> \o size
           digits == SubSeq(frame, 2, 9)
<1>1. /\ frame \in Seq(Nat) /\ Len(frame) = 9 /\ frame[1] = 127
      /\ \A i \in 1..8 : frame[i + 1] = size[i]
  <2>1. mark \in Nat /\ 8 \in Nat /\ 8 + 1 = 9
    OBVIOUS
  <2>2. mark = 127
    OBVIOUS
  <2> HIDE DEF mark
  <2>3. /\ frame \in Seq(Nat) /\ Len(frame) = Len(size) + 1
        /\ frame[1] = mark
        /\ \A i \in 1..Len(size) : frame[i + 1] = size[i]
    BY Zenon, <1>0, <2>1, PrefixIs
  <2> HIDE DEF frame
  <2> QED
    BY <1>0, <2>1, <2>2, <2>3
<1> HIDE DEF frame, mark
<1>2. /\ digits \in Seq(Nat) /\ Len(digits) = 8
      /\ \A i \in 1..(9 - 2 + 1) : digits[i] = frame[2 + i - 1]
  <2>1. ASSUME NEW i \in 2..9 PROVE frame[i] \in Nat
    <3>1. i - 1 \in 1..8 /\ (i - 1) + 1 = i
      OBVIOUS
    <3>2. frame[(i - 1) + 1] = size[i - 1]
      BY <1>1, <3>1
    <3> QED
      BY <1>0, <3>1, <3>2
  <2> QED
    BY <2>1, SubSeqProperties
<1> HIDE DEF digits
<1>3. ASSUME NEW i \in 1..8 PROVE digits[i] = size[i]
  <2>1. i \in 1..(9 - 2 + 1) /\ 2 + i - 1 = i + 1
    OBVIOUS
  <2> QED
    BY SMTT(30), <1>1, <1>2, <2>1
<1>4. digits = size
  BY <1>0, <1>2, <1>3, SameSize
<1>5. Read(frame) = [size |-> digits, used |-> 9]
  BY <1>1 DEF Read, digits
<1>6. Read(frame).size = size /\ Read(frame).used = Len(frame)
  BY <1>1, <1>4, <1>5
<1> QED
  BY <1>6 DEF frame, mark

(* A size from 126 to 65535.                                               *)
LEMMA MediumIsMisread ==
  ASSUME NEW size, Octets(size), \A i \in 1..6 : size[i] = 0
  PROVE  /\ Zero(Read(<<126>> \o SubSeq(size, 5, 8)).size)
         /\ Read(<<126>> \o SubSeq(size, 5, 8)).used
              = Len(<<126>> \o SubSeq(size, 5, 8)) - 2
<1>0. /\ size \in Seq(Nat) /\ Len(size) = 8
      /\ \A i \in 1..8 : size[i] \in Nat
  BY DEF Octets
<1> DEFINE low == SubSeq(size, 5, 8)
           mark == 126
           frame == <<mark>> \o low
           digits == SubSeq(frame, 2, 3)
<1>2. /\ low \in Seq(Nat) /\ Len(low) = 4
      /\ \A i \in 1..(8 - 5 + 1) : low[i] = size[5 + i - 1]
  <2>1. \A i \in 5..8 : size[i] \in Nat
    BY <1>0
  <2> QED
    BY <2>1, SubSeqProperties
<1> HIDE DEF low
<1>3. low[1] = 0 /\ low[2] = 0
  <2>1. 1 \in 1..(8 - 5 + 1) /\ 2 \in 1..(8 - 5 + 1) /\ 5 + 1 - 1 = 5 /\ 5 + 2 - 1 = 6
    OBVIOUS
  <2>2. low[1] = size[5] /\ low[2] = size[6]
    BY <1>2, <2>1
  <2> QED
    BY <2>2
<1>4. /\ frame \in Seq(Nat) /\ Len(frame) = 4 + 1 /\ frame[1] = 126
      /\ \A i \in 1..4 : frame[i + 1] = low[i]
  <2>1. mark \in Nat /\ 4 \in Nat
    OBVIOUS
  <2>2. mark = 126
    OBVIOUS
  <2> HIDE DEF mark
  <2>3. /\ frame \in Seq(Nat) /\ Len(frame) = Len(low) + 1
        /\ frame[1] = mark
        /\ \A i \in 1..Len(low) : frame[i + 1] = low[i]
    BY Zenon, <1>2, <2>1, PrefixIs
  <2> HIDE DEF frame
  <2> QED
    BY <1>2, <2>2, <2>3
<1> HIDE DEF frame, mark
<1>5. frame[1] = 126 /\ Len(frame) = 5 /\ frame[2] = 0 /\ frame[3] = 0
  <2>1. 1 \in 1..4 /\ 2 \in 1..4 /\ 1 + 1 = 2 /\ 2 + 1 = 3
    OBVIOUS
  <2> QED
    BY <1>3, <1>4, <2>1
<1>6. /\ digits \in Seq(Nat) /\ Len(digits) = 2
      /\ \A i \in 1..(3 - 2 + 1) : digits[i] = frame[2 + i - 1]
  <2>1. \A i \in 2..3 : frame[i] \in Nat
    BY <1>5
  <2> QED
    BY <2>1, SubSeqProperties
<1> HIDE DEF digits
<1>7. digits[1] = 0 /\ digits[2] = 0
  <2>1. 1 \in 1..(3 - 2 + 1) /\ 2 \in 1..(3 - 2 + 1) /\ 2 + 1 - 1 = 2 /\ 2 + 2 - 1 = 3
    OBVIOUS
  <2> QED
    BY <1>5, <1>6, <2>1
<1>8. Zero(Padded(digits))
  <2>1. /\ Padded(digits) \in Seq(Nat) /\ Len(Padded(digits)) = 8
        /\ \A i \in 1..8 : Padded(digits)[i] =
             IF i <= 8 - 2 THEN 0 ELSE digits[i - (8 - 2)]
    BY <1>6, PaddedIs
  <2>2. ASSUME NEW i \in 1..8 PROVE Padded(digits)[i] = 0
    <3>1. i <= 8 - 2 \/ i - (8 - 2) \in {1, 2}
      OBVIOUS
    <3> QED
      BY <1>7, <2>1, <3>1
  <2>3. DOMAIN Padded(digits) = 1..8
    BY <2>1
  <2> QED
    BY <2>2, <2>3 DEF Zero
<1>9. Read(frame) = [size |-> Padded(digits), used |-> 3]
  BY <1>5 DEF Read, digits
<1>10. Zero(Read(frame).size) /\ Read(frame).used = Len(frame) - 2
  BY <1>5, <1>8, <1>9
<1> QED
  BY <1>10 DEF frame, low, mark

(* A size of up to 125.                                                    *)
LEMMA SmallReadsBack ==
  ASSUME NEW size, Octets(size), \A i \in 1..7 : size[i] = 0,
         size[8] <= 125
  PROVE  /\ Read(<<size[8]>>).size = size
         /\ Read(<<size[8]>>).used = Len(<<size[8]>>)
<1>0. /\ size \in Seq(Nat) /\ Len(size) = 8
      /\ \A i \in 1..8 : size[i] \in Nat
  BY DEF Octets
<1> DEFINE frame == <<size[8]>>
<1>2. frame \in Seq(Nat) /\ Len(frame) = 1 /\ frame[1] = size[8]
  BY <1>0
<1> HIDE DEF frame
<1>3. Read(frame) = [size |-> Padded(<<frame[1]>>), used |-> 1]
  BY SMTT(30), <1>2 DEF Read
<1>4. Padded(frame) = size
  <2>1. /\ Padded(frame) \in Seq(Nat) /\ Len(Padded(frame)) = 8
        /\ \A i \in 1..8 : Padded(frame)[i] =
             IF i <= 8 - 1 THEN 0 ELSE frame[i - (8 - 1)]
    BY <1>2, PaddedIs
  <2>2. ASSUME NEW i \in 1..8 PROVE Padded(frame)[i] = size[i]
    <3>1. (i <= 8 - 1 /\ i \in 1..7) \/ (i = 8 /\ ~(i <= 8 - 1) /\ i - (8 - 1) = 1)
      OBVIOUS
    <3> QED
      BY <1>2, <2>1, <3>1
  <2> QED
    BY <1>0, <2>1, <2>2, SameSize
<1>5. <<frame[1]>> = frame
  BY <1>2 DEF frame
<1> QED
  BY <1>2, <1>3, <1>4, <1>5 DEF frame

(* Whatever the bytes of a size are, the reader finds that size, or, when  *)
(* the writer chose the field of four bytes, none.                         *)
LEMMA LengthsReadBack ==
  ASSUME NEW B \in SUBSET Nat
  PROVE  ReadsBack(Sizes(B))
<1> SUFFICES ASSUME NEW size \in Sizes(B)
             PROVE  IF Medium(size)
                    THEN /\ Zero(Read(Written(size)).size)
                         /\ Read(Written(size)).used = Len(Written(size)) - 2
                    ELSE /\ Read(Written(size)).size = size
                         /\ Read(Written(size)).used = Len(Written(size))
  BY DEF ReadsBack
<1>1. Octets(size)
  BY SizeIs
<1>2. CASE ~Zero(SubSeq(size, 1, 6))
  <2>1. ~Medium(size) /\ Written(size) = <<127>> \o size
    BY <1>2 DEF Medium, Written
  <2> QED
    BY Zenon, <1>1, <2>1, LargeReadsBack
<1>3. CASE Zero(SubSeq(size, 1, 6)) /\ (size[7] > 0 \/ size[8] > 125)
  <2>1. Medium(size) /\ Written(size) = <<126>> \o SubSeq(size, 5, 8)
    BY <1>3 DEF Medium, Written
  <2>2. \A i \in 1..6 : size[i] = 0
    BY <1>1, <1>3, HighBytes
  <2> QED
    BY Zenon, <1>1, <2>1, <2>2, MediumIsMisread
<1>4. CASE Zero(SubSeq(size, 1, 6)) /\ ~(size[7] > 0 \/ size[8] > 125)
  <2>1. ~Medium(size) /\ Written(size) = <<size[8]>>
    BY <1>4 DEF Medium, Written
  <2>2. \A i \in 1..6 : size[i] = 0
    BY <1>1, <1>4, HighBytes
  <2>3. size[7] = 0 /\ size[8] <= 125
    <3>1. size[7] \in Nat /\ size[8] \in Nat
      BY <1>1 DEF Octets
    <3> QED
      BY <1>4, <3>1
  <2>4. \A i \in 1..7 : size[i] = 0
    BY <2>2, <2>3
  <2>5. /\ Read(<<size[8]>>).size = size
        /\ Read(<<size[8]>>).used = Len(<<size[8]>>)
    BY Zenon, <1>1, <2>3, <2>4, SmallReadsBack
  <2> QED
    BY Zenon, <2>1, <2>5
<1> QED
  BY <1>2, <1>3, <1>4

(* Every length but those from 126 to 65535 is read back as it was sent,   *)
(* and those are taken for an empty frame.                                 *)
THEOREM SentLengths == Spec => []SentLengthsReadBack
<1>1. SentLengthsReadBack
  <2>1. Bytes \in SUBSET Nat
    BY BytesAssumption
  <2> QED
    BY <2>1, LengthsReadBack DEF SentLengthsReadBack, AllSizesReadBack
<1> QED
  BY <1>1, PTL
=============================================================================
