------------------------- MODULE StreamServerProofs -------------------------
(***************************************************************************)
(* Theorems about StreamServer, for any number of clients and addresses,   *)
(* any nesting of hooks and any subclass.                                  *)
(*                                                                         *)
(* IInv is the inductive invariant they follow from. Its heart is Shape:   *)
(* what relates the map, the pointers and the hook stack to the objects    *)
(* that exist. Almost every action ends in Settle, so SettleKeeps does the *)
(* work once: an action that hands Settle a shape in order keeps IInv.     *)
(*                                                                         *)
(* RInv adds what the history knows of each client: told, asked and        *)
(* joined. Its conjuncts are grouped by the rules of the subclass whose    *)
(* breach voids them, so that each theorem names the rules it needs and no *)
(* other. With all the rules kept, StreamServer refines ClientSessions.    *)
(***************************************************************************)
EXTENDS StreamServer, SequenceTheorems, TLAPS

ConnectAtBottom(s) == \A i \in DOMAIN s : s[i].hook = "connect" => i = Len(s)

(* Every pointer points to an object; every object was constructed; a key  *)
(* is the address of its client; what was freed is neither registered nor  *)
(* about to be; addresses identify the live bufferevents; the address of a *)
(* connection that is being announced is not a key; and on_client_connect  *)
(* only ever runs at the bottom of the stack.                              *)
Shape(objs, b, m, h, s, fr) ==
  /\ Owned(m, h, s) \subseteq objs
  /\ \A x \in objs \cup fr : b[x] # NoAddr
  /\ \A a \in Addr : m[a] # NoClient => b[m[a]] = a
  /\ \A x \in fr : x \notin Registered(m) /\ x \notin Running(s, "connect")
  /\ \A x, y \in objs \ fr : b[x] = b[y] => x = y
  /\ \A x \in Running(s, "connect") : m[b[x]] = NoClient
  /\ ConnectAtBottom(s)

(* A client outlives its registration in the loop only under "keep", and   *)
(* only then do the catch clauses of the dispatch functions free anything. *)
KeepBlamed ==
  /\ freed # {} => "keep" \in broken
  /\ Idle /\ "keep" \notin broken => held \subseteq Registered(map)
  /\ NoDoubleFree
  /\ NoLateEvent

(* A destroyed server has no hook running and no client registered.        *)
Down == ~up => stack = <<>> /\ map = NoClients

IInv ==
  /\ TypeOK
  /\ Shape(objects, bevOf, map, held, stack, freed)
  /\ objects \subseteq Owned(map, held, stack)
  /\ KeepBlamed

-----------------------------------------------------------------------------
(* A hook that starts puts a frame on the stack of running hooks.          *)
LEMMA PushFrames ==
  ASSUME NEW hook \in {"connect", "input", "disconnect"}, NEW c \in Client,
         NEW by \in {"libevent", "app"}, NEW s \in Seq(Frame)
  PROVE  /\ Push(hook, c, by, s) \in Seq(Frame)
         /\ Push(hook, c, by, s) # <<>>
         /\ InFrames(Push(hook, c, by, s)) = InFrames(s) \cup {c}
         /\ Running(Push(hook, c, by, s), "connect")
              = Running(s, "connect") \cup {x \in {c} : hook = "connect"}
         /\ ConnectAtBottom(s) /\ (hook = "connect" => s = <<>>)
              => ConnectAtBottom(Push(hook, c, by, s))
<1> DEFINE f == [hook |-> hook, client |-> c, by |-> by]
           p == Push(hook, c, by, s)
<1>1. f \in Frame
  BY DEF Frame
<1>2. /\ p \in Seq(Frame) /\ p # <<>> /\ 1 \in DOMAIN p
      /\ p[1].client = c /\ p[1].hook = hook
  BY <1>1 DEF Push
<1>3. \A i \in DOMAIN s : i + 1 \in DOMAIN p /\ p[i + 1] = s[i]
  BY <1>1 DEF Push
<1>4. \A j \in DOMAIN p : j = 1 \/ (j - 1 \in DOMAIN s /\ p[j] = s[j - 1])
  BY <1>1 DEF Push
<1>7. Len(p) = Len(s) + 1 /\ (s = <<>> => Len(p) = 1)
  BY <1>1 DEF Push
<1> HIDE DEF p
<1>8. ASSUME ConnectAtBottom(s), hook = "connect" => s = <<>>
      PROVE  ConnectAtBottom(p)
  BY <1>2, <1>4, <1>7, <1>8 DEF ConnectAtBottom
<1>5. ASSUME NEW x PROVE x \in InFrames(p) <=> x \in InFrames(s) \/ x = c
  <2>1. x \in InFrames(p) <=> \E j \in DOMAIN p : x = p[j].client
    BY DEF InFrames
  <2>2. x \in InFrames(s) <=> \E i \in DOMAIN s : x = s[i].client
    BY DEF InFrames
  <2>3. ASSUME x \in InFrames(s) PROVE x \in InFrames(p)
    <3>1. PICK i \in DOMAIN s : x = s[i].client
      BY <2>2, <2>3
    <3> QED BY <1>3, <2>1, <3>1
  <2>4. ASSUME x = c PROVE x \in InFrames(p)
    BY <1>2, <2>1, <2>4
  <2>5. ASSUME x \in InFrames(p), x # c PROVE x \in InFrames(s)
    <3>1. PICK j \in DOMAIN p : x = p[j].client
      BY <2>1, <2>5
    <3> QED BY <1>2, <1>4, <2>2, <2>5, <3>1
  <2> QED BY <2>3, <2>4, <2>5
<1>6. ASSUME NEW x
      PROVE x \in Running(p, "connect")
              <=> x \in Running(s, "connect") \/ (x = c /\ hook = "connect")
  <2>1. x \in Running(p, "connect")
          <=> \E j \in DOMAIN p : p[j].hook = "connect" /\ x = p[j].client
    BY DEF Running
  <2>2. x \in Running(s, "connect")
          <=> \E i \in DOMAIN s : s[i].hook = "connect" /\ x = s[i].client
    BY DEF Running
  <2>3. ASSUME x \in Running(s, "connect") PROVE x \in Running(p, "connect")
    <3>1. PICK i \in DOMAIN s : s[i].hook = "connect" /\ x = s[i].client
      BY <2>2, <2>3
    <3> QED BY <1>3, <2>1, <3>1
  <2>4. ASSUME x = c, hook = "connect" PROVE x \in Running(p, "connect")
    BY <1>2, <2>1, <2>4
  <2>5. ASSUME x \in Running(p, "connect"), ~(x = c /\ hook = "connect")
        PROVE  x \in Running(s, "connect")
    <3>1. PICK j \in DOMAIN p : p[j].hook = "connect" /\ x = p[j].client
      BY <2>1, <2>5
    <3> QED BY <1>2, <1>4, <2>2, <2>5, <3>1
  <2> QED BY <2>3, <2>4, <2>5
<1> QED BY <1>2, <1>5, <1>6, <1>8 DEF p

(* When the hook on top ends, the frames below it are left.                *)
LEMMA TailFrames ==
  ASSUME NEW s \in Seq(Frame), s # <<>>
  PROVE  /\ Head(s) \in Frame
         /\ Tail(s) \in Seq(Frame)
         /\ InFrames(s) = InFrames(Tail(s)) \cup {Head(s).client}
         /\ Running(Tail(s), "connect") \subseteq Running(s, "connect")
         /\ ConnectAtBottom(s) =>
              /\ ConnectAtBottom(Tail(s))
              /\ Head(s).hook = "connect" =>
                   /\ Tail(s) = <<>>
                   /\ Head(s).client \in Running(s, "connect")
<1>1. Head(s) = s[1] /\ 1 \in DOMAIN s /\ Tail(s) \in Seq(Frame) /\ s[1] \in Frame
  OBVIOUS
<1>2. \A i \in DOMAIN Tail(s) : i + 1 \in DOMAIN s /\ s[i + 1] = Tail(s)[i]
  OBVIOUS
<1>3. \A j \in DOMAIN s : j = 1 \/ (j - 1 \in DOMAIN Tail(s) /\ s[j] = Tail(s)[j - 1])
  OBVIOUS
<1>4. ASSUME NEW x
      PROVE  x \in InFrames(s) <=> x \in InFrames(Tail(s)) \/ x = Head(s).client
  <2> DEFINE t == Tail(s)
  <2>1. x \in InFrames(s) <=> \E j \in DOMAIN s : x = s[j].client
    BY DEF InFrames
  <2>2. x \in InFrames(t) <=> \E i \in DOMAIN t : x = t[i].client
    BY DEF InFrames
  <2>3. /\ \A i \in DOMAIN t : i + 1 \in DOMAIN s /\ s[i + 1] = t[i]
        /\ \A j \in DOMAIN s : j = 1 \/ (j - 1 \in DOMAIN t /\ s[j] = t[j - 1])
    BY <1>2, <1>3
  <2> HIDE DEF t
  <2>4. ASSUME x \in InFrames(t) PROVE x \in InFrames(s)
    <3>1. PICK i \in DOMAIN t : x = t[i].client
      BY <2>2, <2>4
    <3> QED BY <2>1, <2>3, <3>1
  <2>5. ASSUME x \in InFrames(s), x # Head(s).client PROVE x \in InFrames(t)
    <3>1. PICK j \in DOMAIN s : x = s[j].client
      BY <2>1, <2>5
    <3> QED BY <1>1, <2>2, <2>3, <2>5, <3>1
  <2>6. ASSUME x = Head(s).client PROVE x \in InFrames(s)
    BY <1>1, <2>1, <2>6
  <2> QED BY <2>4, <2>5, <2>6 DEF t
<1>5. Running(Tail(s), "connect") \subseteq Running(s, "connect")
  BY <1>1, <1>2 DEF Running
<1>6. ASSUME ConnectAtBottom(s) PROVE ConnectAtBottom(Tail(s))
  <2>1. Len(Tail(s)) = Len(s) - 1
    OBVIOUS
  <2> QED BY <1>2, <1>6, <2>1 DEF ConnectAtBottom
<1>7. ASSUME ConnectAtBottom(s), Head(s).hook = "connect"
      PROVE  Tail(s) = <<>> /\ Head(s).client \in Running(s, "connect")
  <2>1. Len(s) = 1
    BY <1>1, <1>7 DEF ConnectAtBottom
  <2>2. Tail(s) = <<>>
    <3>1. Tail(s) \in Seq(Frame) /\ Len(Tail(s)) = 0
      BY <1>1, <2>1
    <3> QED BY <3>1, EmptySeq
  <2>3. Head(s).client \in Running(s, "connect")
    BY <1>1, <1>7 DEF Running
  <2> QED BY <2>2, <2>3
<1> QED BY <1>1, <1>4, <1>5, <1>6, <1>7

-----------------------------------------------------------------------------
(* What every action that ends in Settle must establish to keep IInv.      *)
LEMMA SettleKeeps ==
  ASSUME IInv,
         NEW objs \in SUBSET Client,
         NEW m \in [Addr -> Client \cup {NoClient}],
         NEW h \in SUBSET Client,
         NEW s \in Seq(Frame),
         NEW r \in SUBSET Rules,
         Settle(objs, m, h, s, r),
         Shape(objs, bevOf', m, h, s, freed),
         freed' = freed, up' \in BOOLEAN,
         bevOf' \in [Client -> Addr \cup {NoAddr}],
         net' \in [Client -> {"open", "closing", "closed"}],
         joined' \subseteq Client,
         told' \in [Client -> 0..2],
         asked' \subseteq Client
  PROVE  IInv'
<1>1. /\ objects' = objs \cap Owned(m, h, s)
      /\ map' = m /\ held' = h /\ stack' = s
      /\ broken \subseteq broken' /\ broken' \subseteq Rules
      /\ fault' = IF (objs \ objects') \cap freed = {} THEN "none" ELSE "double_free"
  BY DEF Settle, IInv, TypeOK, Rules
<1>2. "keep" \notin broken' /\ s = <<>> => h \subseteq Registered(m)
  BY DEF Settle
<1>3. TypeOK'
  BY <1>1 DEF IInv, TypeOK, Faults
<1>4. objects' = Owned(m, h, s)
  BY <1>1 DEF Shape
<1>5. Shape(objects', bevOf', m, h, s, freed)
  BY <1>1, <1>4 DEF Shape
<1>6. Shape(objects, bevOf, map, held, stack, freed)'
  BY <1>1, <1>5
<1>7. (objects \subseteq Owned(map, held, stack))'
  BY <1>1, <1>4
<1>8. KeepBlamed'
  <2>1. freed' # {} => "keep" \in broken'
    BY <1>1 DEF IInv, KeepBlamed
  <2>2. (Idle /\ "keep" \notin broken => held \subseteq Registered(map))'
    BY <1>1, <1>2 DEF Idle
  <2>3. NoDoubleFree' /\ NoLateEvent'
    BY <1>1, <2>1 DEF NoDoubleFree, NoLateEvent
  <2> QED BY <2>1, <2>2, <2>3 DEF KeepBlamed
<1> QED BY <1>3, <1>6, <1>7, <1>8 DEF IInv

(* The shape survives when only the owners change: fewer or other pointers *)
(* to objects that exist, and no further connection being announced.       *)
LEMMA ShapeOwners ==
  ASSUME NEW objs, NEW b, NEW m, NEW h, NEW s, NEW fr, NEW h2, NEW s2,
         Shape(objs, b, m, h, s, fr),
         Owned(m, h2, s2) \subseteq objs,
         Running(s2, "connect") \subseteq Running(s, "connect"),
         ConnectAtBottom(s2)
  PROVE  Shape(objs, b, m, h2, s2, fr)
BY DEF Shape

(* An existing object was constructed, so its address is a possible key;   *)
(* whoever is registered under a key exists.                               *)
LEMMA ObjectAddress ==
  ASSUME IInv, NEW c \in objects
  PROVE  /\ c \in Client /\ bevOf[c] \in Addr
         /\ map[bevOf[c]] # NoClient =>
              map[bevOf[c]] \in Registered(map) /\ map[bevOf[c]] \in objects
BY DEF IInv, TypeOK, Shape, Registered, Owned

(* The same for the hooks that run: their clients exist.                   *)
LEMMA TopClient ==
  ASSUME IInv, InHook
  PROVE  /\ Head(stack).client \in objects
         /\ Tail(stack) \in Seq(Frame)
         /\ Head(stack) \in Frame
         /\ Owned(map, held, Tail(stack)) \subseteq objects
         /\ Running(Tail(stack), "connect") \subseteq Running(stack, "connect")
         /\ ConnectAtBottom(Tail(stack))
BY TailFrames DEF IInv, TypeOK, InHook, Shape, Owned

(* disconnect_client keeps IInv, wherever it is called from.               *)
LEMMA DisconnectKeeps ==
  ASSUME IInv,
         NEW c \in objects,
         NEW by \in {"libevent", "app"},
         NEW s \in Seq(Frame),
         NEW r \in SUBSET Rules,
         Owned(map, held, s) \subseteq objects,
         Running(s, "connect") \subseteq Running(stack, "connect"),
         ConnectAtBottom(s),
         Disconnect(c, by, s, r),
         net' \in [Client -> {"open", "closing", "closed"}]
  PROVE  IInv'
<1>1. c \in Client
  BY DEF IInv, TypeOK
<1>2. /\ bevOf' = bevOf /\ freed' = freed /\ joined' \subseteq Client
      /\ told' \in [Client -> 0..2] /\ asked' \subseteq Client
      /\ up' \in BOOLEAN
  BY <1>1 DEF Disconnect, IInv, TypeOK
<1>3. CASE map[bevOf[c]] # NoClient
  <2> DEFINE p == Push("disconnect", c, by, s)
  <2>1. Settle(objects, map, held, p, r)
    BY <1>3 DEF Disconnect
  <2>2. /\ p \in Seq(Frame) /\ InFrames(p) = InFrames(s) \cup {c}
        /\ Running(p, "connect") = Running(s, "connect") \cup {x \in {c} : FALSE}
        /\ ConnectAtBottom(p)
    BY <1>1, PushFrames
  <2> HIDE DEF p
  <2>3. Owned(map, held, p) \subseteq objects
    BY <2>2 DEF Owned
  <2>4. Shape(objects, bevOf', map, held, p, freed)
    <3>1. Running(p, "connect") \subseteq Running(stack, "connect")
      BY <2>2
    <3> QED BY <1>2, <2>2, <2>3, <3>1, ShapeOwners DEF IInv
  <2> QED BY <1>2, <2>1, <2>2, <2>4, SettleKeeps DEF IInv, TypeOK
<1>4. CASE map[bevOf[c]] = NoClient
  <2>1. Settle(objects, map, held, s, r)
    BY <1>4 DEF Disconnect
  <2>2. Shape(objects, bevOf', map, held, s, freed)
    BY <1>2, ShapeOwners DEF IInv
  <2> QED BY <1>2, <2>1, <2>2, SettleKeeps DEF IInv, TypeOK
<1> QED BY <1>3, <1>4

LEMMA NoFrames ==
  InFrames(<<>>) = {} /\ Running(<<>>, "connect") = {} /\ ConnectAtBottom(<<>>)
BY DEF InFrames, Running, ConnectAtBottom

(* The catch clauses of the dispatch functions only ever free a client     *)
(* that the subclass kept.                                                 *)
LEMMA FreeUnregisteredKeeps ==
  ASSUME IInv, Idle,
         NEW c \in objects \ freed,
         FreeUnregistered(c),
         net' \in [Client -> {"open", "closing", "closed"}]
  PROVE  IInv'
<1>1. /\ freed' = freed \cup {c} /\ map[bevOf[c]] = NoClient
      /\ UNCHANGED <<up, bevOf, objects, map, held, stack, fault>>
      /\ UNCHANGED <<joined, told, asked, broken>>
  BY DEF FreeUnregistered, historyVars
<1>2. c \in Client /\ c # NoClient /\ bevOf[c] # NoAddr
  BY ConstantsAssumption DEF IInv, TypeOK, Shape
<1>3. c \notin Registered(map)
  BY <1>1, <1>2 DEF Registered, IInv, Shape
<1>4. stack = <<>> /\ InFrames(stack) = {} /\ Running(stack, "connect") = {}
  BY NoFrames DEF Idle
<1>5. c \in held
  BY <1>3, <1>4 DEF IInv, Owned
<1>6. "keep" \in broken
  BY <1>3, <1>5 DEF IInv, KeepBlamed
<1>7. TypeOK'
  BY <1>1, <1>2 DEF IInv, TypeOK
<1>8. Shape(objects, bevOf, map, held, stack, freed \cup {c})
  BY <1>2, <1>3, <1>4 DEF IInv, Shape
<1>9. Shape(objects, bevOf, map, held, stack, freed)'
  BY <1>1, <1>8
<1>10. (objects \subseteq Owned(map, held, stack))'
  BY <1>1 DEF IInv
<1>11. KeepBlamed'
  BY <1>1, <1>6 DEF KeepBlamed, NoDoubleFree, NoLateEvent
<1> QED BY <1>7, <1>9, <1>10, <1>11 DEF IInv

(* Steps that touch neither the map nor any pointer.                       *)
LEMMA QuietKeeps ==
  ASSUME IInv, TypeOK',
         UNCHANGED <<bevOf, objects, freed, map, held, stack>>,
         broken \subseteq broken',
         fault' \in {fault, "accept_threw", "stale_iterator", "escaped"}
  PROVE  IInv'
<1>1. Shape(objects, bevOf, map, held, stack, freed)'
  BY DEF IInv
<1>2. (objects \subseteq Owned(map, held, stack))'
  BY DEF IInv
<1>3. KeepBlamed'
  BY DEF IInv, KeepBlamed, NoDoubleFree, NoLateEvent, Idle
<1> QED BY <1>1, <1>2, <1>3 DEF IInv

-----------------------------------------------------------------------------
LEMMA AcceptKeeps ==
  ASSUME IInv, NEW c \in Client, NEW a \in Addr, Accept(c, a)
  PROVE  IInv'
<1> DEFINE p == Push("connect", c, "libevent", <<>>)
           objs == objects \cup {c}
<1>1. /\ stack = <<>> /\ bevOf[c] = NoAddr /\ a \notin Live
      /\ bevOf' = [bevOf EXCEPT ![c] = a]
      /\ Settle(objs, map, held, p, {})
      /\ UNCHANGED <<up, freed, net, joined, told, asked>>
  BY DEF Accept, Idle
<1>2. /\ p \in Seq(Frame) /\ InFrames(p) = {c} /\ Running(p, "connect") = {c}
      /\ ConnectAtBottom(p)
  <2>1. <<>> \in Seq(Frame)
    BY EmptySeq
  <2>2. /\ InFrames(p) = InFrames(<<>>) \cup {c}
        /\ Running(p, "connect")
             = Running(<<>>, "connect") \cup {x \in {c} : "connect" = "connect"}
        /\ p \in Seq(Frame) /\ ConnectAtBottom(p)
    BY <2>1, PushFrames, NoFrames
  <2> QED BY <2>2, NoFrames
<1> HIDE DEF p
<1>3. c \notin objects \cup freed /\ a # NoAddr /\ c # NoClient
  BY <1>1, ConstantsAssumption DEF IInv, Shape
<1>4. bevOf'[c] = a /\ \A x \in Client : x # c => bevOf'[x] = bevOf[x]
  BY <1>1 DEF IInv, TypeOK
<1>5. objects \subseteq Client /\ freed \subseteq Client
  BY DEF IInv, TypeOK
<1>6. Registered(map) \subseteq objects /\ held \subseteq objects
  BY DEF IInv, Shape, Owned
<1>7. \A x \in objects \ freed : bevOf[x] # a
  BY <1>1 DEF Live
<1>8. Shape(objs, bevOf', map, held, p, freed)
  <2>1. Owned(map, held, p) \subseteq objs
    BY <1>2, <1>6 DEF Owned
  <2>2. \A x \in objs \cup freed : bevOf'[x] # NoAddr
    BY <1>3, <1>4, <1>5 DEF IInv, Shape
  <2>3. \A k \in Addr : map[k] # NoClient => bevOf'[map[k]] = k
    BY <1>3, <1>4, <1>5, <1>6 DEF IInv, Shape, Registered
  <2>4. \A x \in freed : x \notin Registered(map) /\ x \notin Running(p, "connect")
    BY <1>2, <1>3 DEF IInv, Shape
  <2>5. \A x, y \in objs \ freed : bevOf'[x] = bevOf'[y] => x = y
    BY <1>3, <1>4, <1>5, <1>7 DEF IInv, Shape
  <2>6. \A x \in Running(p, "connect") : map[bevOf'[x]] = NoClient
    <3>1. SUFFICES ASSUME map[a] # NoClient PROVE FALSE
      BY <1>2, <1>4
    <3>2. map[a] \in Registered(map) /\ bevOf[map[a]] = a
      BY <3>1 DEF IInv, Shape, Registered
    <3>3. map[a] \in objects \ freed
      BY <1>6, <3>2 DEF IInv, Shape
    <3> QED BY <1>7, <3>2, <3>3
  <2> QED BY <1>2, <2>1, <2>2, <2>3, <2>4, <2>5, <2>6 DEF Shape
<1>9. bevOf' \in [Client -> Addr \cup {NoAddr}]
  BY <1>1 DEF IInv, TypeOK
<1>10. objs \in SUBSET Client
  BY <1>5
<1>11. /\ map \in [Addr -> Client \cup {NoClient}] /\ held \in SUBSET Client
       /\ {} \in SUBSET Rules /\ freed' = freed
       /\ net' \in [Client -> {"open", "closing", "closed"}]
       /\ joined' \subseteq Client /\ told' \in [Client -> 0..2]
       /\ asked' \subseteq Client /\ up' \in BOOLEAN
  BY <1>1 DEF IInv, TypeOK
<1> HIDE DEF objs
<1> QED BY <1>1, <1>2, <1>8, <1>9, <1>10, <1>11, SettleKeeps

(* Settle with the map as it is, after pointers were copied or dropped.    *)
LEMMA OwnersKeep ==
  ASSUME IInv,
         NEW h \in SUBSET Client, NEW s \in Seq(Frame), NEW r \in SUBSET Rules,
         Settle(objects, map, h, s, r),
         Owned(map, h, s) \subseteq objects,
         Running(s, "connect") \subseteq Running(stack, "connect"),
         ConnectAtBottom(s),
         UNCHANGED <<up, bevOf, freed, net, joined, told, asked>>
  PROVE  IInv'
<1>1. Shape(objects, bevOf', map, h, s, freed)
  BY ShapeOwners DEF IInv
<1>2. /\ objects \in SUBSET Client /\ map \in [Addr -> Client \cup {NoClient}]
      /\ freed' = freed /\ bevOf' \in [Client -> Addr \cup {NoAddr}]
      /\ net' \in [Client -> {"open", "closing", "closed"}]
      /\ joined' \subseteq Client /\ told' \in [Client -> 0..2]
      /\ asked' \subseteq Client /\ up' \in BOOLEAN
  BY DEF IInv, TypeOK
<1> QED BY <1>1, <1>2, SettleKeeps

LEMMA ConnectReturnsKeeps ==
  ASSUME IInv, ConnectReturns
  PROVE  IInv'
<1> DEFINE c == Head(stack).client
           m == IF map[bevOf[c]] = NoClient
                  THEN [map EXCEPT ![bevOf[c]] = c] ELSE map
<1>1. /\ InHook /\ Head(stack).hook = "connect"
      /\ joined' = joined \cup {c}
      /\ Settle(objects, m, held, Tail(stack), {})
      /\ UNCHANGED <<up, bevOf, freed, net, told, asked>>
  BY DEF ConnectReturns
<1>2. Tail(stack) = <<>> /\ c \in Running(stack, "connect")
  BY <1>1, TailFrames DEF InHook, IInv, TypeOK, Shape
<1>3. /\ c \in objects /\ c \in Client /\ c # NoClient /\ c \notin freed
      /\ bevOf[c] \in Addr
  BY <1>1, <1>2, TopClient, ObjectAddress, ConstantsAssumption DEF IInv, TypeOK, Shape
<1>4. m = [map EXCEPT ![bevOf[c]] = c]
  BY <1>2 DEF IInv, Shape
<1>5. m \in [Addr -> Client \cup {NoClient}]
  BY <1>3, <1>4 DEF IInv, TypeOK
<1>6. \A a \in Addr : m[a] = IF a = bevOf[c] THEN c ELSE map[a]
  BY <1>3, <1>4 DEF IInv, TypeOK
<1> HIDE DEF m
<1>7. Registered(m) \subseteq Registered(map) \cup {c}
  BY <1>6 DEF Registered
<1>8. Shape(objects, bevOf, m, held, <<>>, freed)
  <2>1. Owned(m, held, <<>>) \subseteq objects
    BY <1>3, <1>7, NoFrames DEF Owned, IInv, Shape
  <2>2. \A a \in Addr : m[a] # NoClient => bevOf[m[a]] = a
    BY <1>6 DEF IInv, Shape
  <2>3. \A x \in freed : x \notin Registered(m)
    BY <1>3, <1>7 DEF IInv, Shape
  <2> QED BY <2>1, <2>2, <2>3, NoFrames DEF IInv, Shape
<1>9. /\ objects \in SUBSET Client /\ held \in SUBSET Client
      /\ {} \in SUBSET Rules /\ <<>> \in Seq(Frame)
      /\ freed' = freed /\ bevOf' = bevOf
      /\ bevOf' \in [Client -> Addr \cup {NoAddr}]
      /\ net' \in [Client -> {"open", "closing", "closed"}]
      /\ joined' \subseteq Client /\ told' \in [Client -> 0..2]
      /\ asked' \subseteq Client /\ up' \in BOOLEAN
  BY <1>1, <1>3, EmptySeq DEF IInv, TypeOK
<1> QED BY <1>1, <1>2, <1>5, <1>8, <1>9, SettleKeeps

LEMMA DisconnectReturnsKeeps ==
  ASSUME IInv, DisconnectReturns
  PROVE  IInv'
<1> DEFINE c == Head(stack).client
           m == [map EXCEPT ![bevOf[c]] = NoClient]
<1>1. InHook /\ UNCHANGED <<up, bevOf, freed, net, joined, told>>
  BY DEF DisconnectReturns
<1>2. c \in objects /\ c \in Client
  BY <1>1, TopClient, ObjectAddress
<1>3. CASE map[bevOf[c]] # NoClient
  <2>1. asked' = asked \cup {c} /\ Settle(objects, m, held, Tail(stack), {})
    BY <1>3 DEF DisconnectReturns
  <2>2. m \in [Addr -> Client \cup {NoClient}]
    BY DEF IInv, TypeOK
  <2>3. \A a \in Addr : m[a] \in {map[a], NoClient}
    BY DEF IInv, TypeOK
  <2>4. \A a \in Addr \cup {NoAddr} : map[a] = NoClient => m[a] = NoClient
    BY DEF IInv, TypeOK
  <2> HIDE DEF m
  <2>5. Registered(m) \subseteq Registered(map)
    BY <2>3 DEF Registered
  <2>6. Shape(objects, bevOf, m, held, Tail(stack), freed)
    <3>1. Owned(m, held, Tail(stack)) \subseteq objects
      BY <1>1, <2>5, TopClient DEF Owned
    <3>2. \A a \in Addr : m[a] # NoClient => bevOf[m[a]] = a
      BY <2>3 DEF IInv, Shape
    <3>3. \A x \in freed : /\ x \notin Registered(m)
                           /\ x \notin Running(Tail(stack), "connect")
      BY <1>1, <2>5, TopClient DEF IInv, Shape
    <3>4. \A x \in Running(Tail(stack), "connect") : m[bevOf[x]] = NoClient
      <4>1. Running(stack, "connect") \subseteq objects
        BY DEF IInv, Shape, Owned, Running, InFrames
      <4> QED BY <1>1, <2>4, <4>1, TopClient DEF IInv, Shape, TypeOK
    <3> QED BY <1>1, <3>1, <3>2, <3>3, <3>4, TopClient DEF IInv, Shape
  <2>7. /\ objects \in SUBSET Client /\ held \in SUBSET Client
        /\ {} \in SUBSET Rules /\ Tail(stack) \in Seq(Frame)
        /\ freed' = freed /\ bevOf' = bevOf
        /\ bevOf' \in [Client -> Addr \cup {NoAddr}]
        /\ net' \in [Client -> {"open", "closing", "closed"}]
        /\ joined' \subseteq Client /\ told' \in [Client -> 0..2]
        /\ asked' \subseteq Client /\ up' \in BOOLEAN
    BY <1>1, <1>2, <2>1, TopClient DEF IInv, TypeOK
  <2> QED BY <2>1, <2>2, <2>6, <2>7, SettleKeeps
<1>4. CASE map[bevOf[c]] = NoClient
  <2>1. /\ fault' = "stale_iterator"
        /\ UNCHANGED <<objects, map, held, stack, asked, broken>>
    BY <1>4 DEF DisconnectReturns
  <2>2. TypeOK'
    BY <1>1, <2>1 DEF IInv, TypeOK, Faults
  <2> QED BY <1>1, <2>1, <2>2, QuietKeeps
<1> QED BY <1>3, <1>4

LEMMA NoneRegistered ==
  NoClients \in [Addr -> Client \cup {NoClient}] /\ Registered(NoClients) = {}
BY DEF NoClients, Registered

(* The destructor drops the pointers of the map; who is left is held.      *)
LEMMA DestroyKeeps ==
  ASSUME IInv, DestroyServer
  PROVE  IInv'
<1>1. /\ Settle(objects, NoClients, held, <<>>, {})
      /\ UNCHANGED <<bevOf, freed, net, joined, told, asked>>
      /\ up' = FALSE
  BY DEF DestroyServer
<1>2. NoClients \in [Addr -> Client \cup {NoClient}]
  BY NoneRegistered
<1>3. \A a \in Addr : NoClients[a] = NoClient
  BY DEF NoClients
<1>4. Shape(objects, bevOf', NoClients, held, <<>>, freed)
  <2>1. Owned(NoClients, held, <<>>) \subseteq objects
    BY NoneRegistered, NoFrames DEF Owned, IInv, Shape
  <2> QED BY <1>1, <1>3, <2>1, NoneRegistered, NoFrames DEF IInv, Shape
<1>5. /\ objects \in SUBSET Client /\ held \in SUBSET Client
      /\ {} \in SUBSET Rules /\ <<>> \in Seq(Frame)
      /\ freed' = freed /\ bevOf' \in [Client -> Addr \cup {NoAddr}]
      /\ net' \in [Client -> {"open", "closing", "closed"}]
      /\ joined' \subseteq Client /\ told' \in [Client -> 0..2]
      /\ asked' \subseteq Client /\ up' \in BOOLEAN
  BY <1>1, EmptySeq DEF IInv, TypeOK
<1> QED BY <1>1, <1>2, <1>4, <1>5, SettleKeeps

(* Who is there after the server is a Client that the subclass kept.       *)
LEMMA LateEventKeeps ==
  ASSUME IInv, Down, NEW c \in Client, LateEvent(c)
  PROVE  IInv'
<1>1. /\ Idle /\ ~up /\ c \in objects /\ fault' = "server_gone"
      /\ UNCHANGED <<up, bevOf, objects, freed, map, held, stack, net>>
      /\ UNCHANGED <<joined, told, asked, broken>>
  BY DEF LateEvent, serverVars, historyVars
<1>2. Registered(map) = {} /\ InFrames(stack) = {}
  BY <1>1, NoneRegistered, NoFrames DEF Down
<1>3. "keep" \in broken
  BY <1>1, <1>2 DEF IInv, KeepBlamed, Owned
<1>4. TypeOK'
  BY <1>1 DEF IInv, TypeOK, Faults
<1>5. Shape(objects, bevOf, map, held, stack, freed)'
  BY <1>1 DEF IInv
<1>6. (objects \subseteq Owned(map, held, stack))'
  BY <1>1 DEF IInv
<1>7. KeepBlamed'
  BY <1>1, <1>3 DEF KeepBlamed, NoDoubleFree, NoLateEvent, Idle
<1> QED BY <1>4, <1>5, <1>6, <1>7 DEF IInv

-----------------------------------------------------------------------------
(* Without a server no hook starts: those that run keep the program out of *)
(* the loop, where the server is destroyed.                                *)
LEMMA InitDown == Init => Down
BY DEF Init, Down

LEMMA NextDown ==
  ASSUME Down, [Next]_vars
  PROVE  Down'
<1>1. CASE DestroyServer
  BY <1>1 DEF DestroyServer, Settle, Down
<1>2. ASSUME ~DestroyServer, ~up' PROVE ~up /\ UNCHANGED <<map, stack>>
  <2>1. up' = up
    BY <1>2
       DEF Next, HookEnds, Accept, AcceptThrows, ClientInput, ClientError,
           ClientOtherEvent, PeerCloses, AppRetains, AppReleases,
           AppDisconnects, ConnectReturns, ConnectThrows, InputReturns,
           InputThrows, DisconnectReturns, DisconnectThrows, LateEvent,
           FreeUnregistered, Disconnect, vars, serverVars
  <2>2. ~up /\ stack = <<>>
    BY <1>2, <2>1 DEF Down
  <2>3. ~HookEnds
    BY <2>2
       DEF HookEnds, InHook, ConnectReturns, ConnectThrows, InputReturns,
           InputThrows, DisconnectReturns, DisconnectThrows
  <2> QED
    BY <1>2, <2>2, <2>3
       DEF Next, Accept, AcceptThrows, ClientInput, ClientError,
           ClientOtherEvent, PeerCloses, AppRetains, AppReleases,
           AppDisconnects, LateEvent, Settle, vars, serverVars
<1> QED BY <1>1, <1>2 DEF Down

LEMMA DownHolds == Spec => []Down
BY InitDown, NextDown, PTL DEF Spec

-----------------------------------------------------------------------------
LEMMA InitHolds == Init => IInv
<1> SUFFICES ASSUME Init PROVE IInv
  OBVIOUS
<1>1. TypeOK
  BY EmptySeq DEF Init, TypeOK, Faults
<1>2. Registered(map) = {} /\ Owned(map, held, stack) = {}
  BY NoFrames DEF Init, Registered, Owned
<1>3. Shape(objects, bevOf, map, held, stack, freed)
  BY <1>2, NoFrames DEF Init, Shape
<1>4. KeepBlamed
  BY DEF Init, KeepBlamed, NoDoubleFree, NoLateEvent
<1> QED BY <1>1, <1>3, <1>4 DEF Init, IInv

LEMMA NextKeeps ==
  ASSUME IInv, Down, [Next]_vars
  PROVE  IInv'
<1> USE EmptySeq
<1>1. ASSUME NEW c \in Client, NEW a \in Addr, Accept(c, a) PROVE IInv'
  BY <1>1, AcceptKeeps
<1>2. CASE AcceptThrows
  <2>1. TypeOK'
    BY <1>2 DEF AcceptThrows, IInv, TypeOK, Faults, serverVars, historyVars
  <2> QED BY <1>2, <2>1, QuietKeeps DEF AcceptThrows, serverVars, historyVars
<1>3. ASSUME NEW c \in Client, ClientInput(c) PROVE IInv'
  <2>1. /\ Idle /\ c \in objects \ freed
        /\ net' \in [Client -> {"open", "closing", "closed"}]
    BY <1>3 DEF ClientInput, IInv, TypeOK
  <2>2. CASE FreeUnregistered(c)
    BY <2>1, <2>2, FreeUnregisteredKeeps
  <2>3. CASE ~FreeUnregistered(c)
    <3> DEFINE d == map[bevOf[c]]
               p == Push("input", d, "libevent", <<>>)
    <3>1. /\ d # NoClient /\ Settle(objects, map, held, p, {})
          /\ UNCHANGED <<up, bevOf, freed, net, joined, told, asked>>
      BY <1>3, <2>3 DEF ClientInput
    <3>2. d \in Registered(map) /\ d \in objects
      BY <2>1, <3>1, ObjectAddress
    <3>3. d \in Client
      BY <3>2 DEF IInv, TypeOK
    <3> HIDE DEF d
    <3>4. /\ p \in Seq(Frame) /\ InFrames(p) = InFrames(<<>>) \cup {d}
          /\ Running(p, "connect")
               = Running(<<>>, "connect") \cup {x \in {d} : "input" = "connect"}
          /\ ConnectAtBottom(p)
      BY <3>3, PushFrames, NoFrames
    <3> HIDE DEF p
    <3>5. Running(p, "connect") \subseteq Running(stack, "connect")
      BY <3>4, NoFrames
    <3>6. Owned(map, held, p) \subseteq objects
      BY <3>2, <3>4, NoFrames DEF Owned, IInv, Shape
    <3>7. held \in SUBSET Client /\ {} \in SUBSET Rules
      BY DEF IInv, TypeOK
    <3> QED BY <3>1, <3>4, <3>5, <3>6, <3>7, OwnersKeep
  <2> QED BY <2>2, <2>3
<1>4. ASSUME NEW c \in Client, ClientError(c) PROVE IInv'
  <2>1. /\ Idle /\ c \in objects \ freed
        /\ net' \in [Client -> {"open", "closing", "closed"}]
    BY <1>4 DEF ClientError, IInv, TypeOK
  <2>2. CASE FreeUnregistered(c)
    BY <2>1, <2>2, FreeUnregisteredKeeps
  <2>3. CASE ~FreeUnregistered(c)
    <3> DEFINE d == map[bevOf[c]]
    <3>1. d # NoClient /\ Disconnect(d, "libevent", <<>>, {})
      BY <1>4, <2>3 DEF ClientError
    <3>2. d \in objects
      BY <2>1, <3>1, ObjectAddress
    <3>3. /\ Owned(map, held, <<>>) \subseteq objects /\ {} \in SUBSET Rules
          /\ Running(<<>>, "connect") \subseteq Running(stack, "connect")
          /\ ConnectAtBottom(<<>>)
      BY NoFrames DEF Owned, IInv, Shape
    <3> HIDE DEF d
    <3> QED BY <2>1, <3>1, <3>2, <3>3, DisconnectKeeps
  <2> QED BY <2>2, <2>3
<1>5. ASSUME NEW c \in Client, ClientOtherEvent(c) PROVE IInv'
  <2>1. net' \in [Client -> {"open", "closing", "closed"}]
    BY <1>5 DEF ClientOtherEvent, IInv, TypeOK
  <2> QED BY <1>5, <2>1, FreeUnregisteredKeeps DEF ClientOtherEvent
<1>6. ASSUME NEW c \in Client, PeerCloses(c) PROVE IInv'
  <2>1. TypeOK'
    BY <1>6 DEF PeerCloses, IInv, TypeOK, serverVars, historyVars
  <2> QED BY <1>6, <2>1, QuietKeeps DEF PeerCloses, serverVars, historyVars
<1>7. ASSUME NEW c \in Client, AppRetains(c) PROVE IInv'
  <2>1. /\ Nameable \subseteq Owned(map, held, stack)
        /\ Owned(map, held \cup {c}, stack) = Owned(map, held, stack) \cup {c}
    BY DEF Nameable, Owned
  <2>2. Owned(map, held \cup {c}, stack) \subseteq objects
    BY <1>7, <2>1 DEF AppRetains, IInv, Shape
  <2>3. /\ held \cup {c} \in SUBSET Client /\ stack \in Seq(Frame)
        /\ {} \in SUBSET Rules /\ ConnectAtBottom(stack)
    BY DEF IInv, TypeOK, Shape
  <2> QED BY <1>7, <2>2, <2>3, OwnersKeep DEF AppRetains
<1>8. ASSUME NEW c \in Client, AppReleases(c) PROVE IInv'
  <2>1. Owned(map, held \ {c}, stack) \subseteq objects
    BY DEF Owned, IInv, Shape
  <2>2. /\ held \ {c} \in SUBSET Client /\ stack \in Seq(Frame)
        /\ {} \in SUBSET Rules /\ ConnectAtBottom(stack)
    BY DEF IInv, TypeOK, Shape
  <2> QED BY <1>8, <2>1, <2>2, OwnersKeep DEF AppReleases
<1>9. ASSUME NEW c \in Client, AppDisconnects(c) PROVE IInv'
  <2> DEFINE r == {x \in {"early"} : c \in Running(stack, "connect")}
                    \cup {x \in {"reenter"} : c \in Running(stack, "disconnect")}
  <2>1. Disconnect(c, "app", stack, r) /\ c \in Nameable /\ net' = net
    BY <1>9 DEF AppDisconnects
  <2>2. c \in objects
    BY <2>1 DEF Nameable, Owned, IInv, Shape
  <2>3. r \in SUBSET Rules
    BY DEF Rules
  <2>4. /\ stack \in Seq(Frame) /\ ConnectAtBottom(stack)
        /\ Owned(map, held, stack) \subseteq objects
        /\ net' \in [Client -> {"open", "closing", "closed"}]
    BY <2>1 DEF IInv, TypeOK, Shape
  <2> HIDE DEF r
  <2> QED BY <2>1, <2>2, <2>3, <2>4, DisconnectKeeps
<1>10. CASE ConnectReturns
  BY <1>10, ConnectReturnsKeeps
<1>11. ASSUME InHook, NEW r \in SUBSET Rules,
              Settle(objects, map, held, Tail(stack), r),
              UNCHANGED <<up, bevOf, freed, net, joined, told, asked>>
       PROVE  IInv'
  <2>1. held \in SUBSET Client
    BY DEF IInv, TypeOK
  <2> QED BY <1>11, <2>1, TopClient, OwnersKeep
<1>12. CASE ConnectThrows
  BY <1>11, <1>12 DEF ConnectThrows
<1>13. CASE InputReturns
  BY <1>11, <1>13 DEF InputReturns
<1>14. CASE InputThrows
  <2>1. /\ InHook /\ Disconnect(Head(stack).client, "libevent", Tail(stack), {})
        /\ net' \in [Client -> {"open", "closing", "closed"}]
    BY <1>14 DEF InputThrows, IInv, TypeOK
  <2>2. {} \in SUBSET Rules
    OBVIOUS
  <2> QED BY <2>1, <2>2, TopClient, DisconnectKeeps
<1>15. CASE DisconnectReturns
  BY <1>15, DisconnectReturnsKeeps
<1>16. CASE DisconnectThrows
  <2>1. CASE Head(stack).by = "app"
    BY <1>11, <1>16, <2>1 DEF DisconnectThrows, Rules
  <2>2. CASE Head(stack).by = "libevent"
    <3>1. /\ broken' = broken \cup {"throw"} /\ fault' = "escaped"
          /\ UNCHANGED <<objects, map, held, stack, bevOf, freed, net, joined,
                         told, asked, up>>
      BY <1>16, <2>2 DEF DisconnectThrows
    <3>2. TypeOK'
      BY <3>1 DEF IInv, TypeOK, Faults, Rules
    <3> QED BY <3>1, <3>2, QuietKeeps
  <2> QED BY <1>16, <2>1, <2>2 DEF DisconnectThrows
<1>17. CASE UNCHANGED vars
  <2>1. /\ UNCHANGED <<up, objects, map, held, stack, bevOf, freed>>
        /\ UNCHANGED <<net, joined, told, asked, broken, fault>>
    BY <1>17 DEF vars, serverVars, historyVars
  <2>2. TypeOK'
    BY <2>1 DEF IInv, TypeOK
  <2> QED BY <2>1, <2>2, QuietKeeps
<1>18. CASE DestroyServer
  BY <1>18, DestroyKeeps
<1>19. ASSUME NEW c \in Client, LateEvent(c) PROVE IInv'
  BY <1>19, LateEventKeeps
<1> QED
  BY <1>1, <1>2, <1>3, <1>4, <1>5, <1>6, <1>7, <1>8, <1>9, <1>10, <1>12, <1>13,
     <1>14, <1>15, <1>16, <1>17, <1>18, <1>19 DEF Next, HookEnds

LEMMA Invariance == Spec => []IInv
BY InitHolds, NextKeeps, DownHolds, PTL DEF Spec

-----------------------------------------------------------------------------
(* Every variable keeps its type. Not obvious by itself: a dispatch        *)
(* function looks bev_to_client up by the address of the bufferevent, so   *)
(* the hook it calls gets a Client only because objects have addresses.    *)
THEOREM TypeCorrect == Spec => []TypeOK
<1>1. IInv => TypeOK
  BY DEF IInv
<1> QED BY <1>1, Invariance, PTL

(* No bufferevent is freed twice unless the subclass kept a Client beyond  *)
(* its registration.                                                       *)
THEOREM SingleFree == Spec => []NoDoubleFree
<1>1. IInv => NoDoubleFree
  BY DEF IInv, KeepBlamed
<1> QED BY <1>1, Invariance, PTL

(* libevent never calls back into a server that was destroyed, unless the  *)
(* subclass kept a Client.                                                 *)
THEOREM ServerOutlivesEvents == Spec => []NoLateEvent
<1>1. IInv => NoLateEvent
  BY DEF IInv, KeepBlamed
<1> QED BY <1>1, Invariance, PTL

(* bev_to_client maps the address of a live bufferevent to its own Client, *)
(* whatever the subclass does.                                             *)
THEOREM MapIsSound == Spec => []MapKeysLive
<1>1. ASSUME IInv PROVE MapKeysLive
  <2>1. \A a \in Addr : map[a] # NoClient => map[a] \in Registered(map)
    BY DEF Registered
  <2> QED BY <1>1, <2>1 DEF MapKeysLive, IInv, Shape, Owned
<1> QED BY <1>1, Invariance, PTL

(* The emplace of dispatch_on_listen_accept always inserts.                *)
THEOREM NewKeyIsFresh == Spec => []EmplaceInserts
<1>1. IInv => EmplaceInserts
  BY DEF IInv, Shape, EmplaceInserts
<1> QED BY <1>1, Invariance, PTL

(* Back in the loop, nothing exists that is not in the map, unless the     *)
(* subclass kept a Client.                                                 *)
THEOREM NothingLeaks == Spec => []NoLeak
<1>1. ASSUME IInv, Idle, "keep" \notin broken
      PROVE  objects = Registered(map) /\ Live = {a \in Addr : map[a] # NoClient}
  <2>1. freed = {} /\ held \subseteq Registered(map) /\ InFrames(stack) = {}
    BY <1>1, NoFrames DEF IInv, KeepBlamed, Idle
  <2>2. objects = Registered(map)
    BY <1>1, <2>1 DEF IInv, Shape, Owned
  <2>3. \A x \in Registered(map) : \E a \in Addr : map[a] = x /\ map[a] # NoClient
    BY DEF Registered
  <2>4. \A a \in Addr : map[a] # NoClient => map[a] \in Registered(map) /\ bevOf[map[a]] = a
    BY <1>1 DEF Registered, IInv, Shape
  <2>5. Live = {a \in Addr : map[a] # NoClient}
    <3>1. \A a : a \in Live <=> \E x \in Registered(map) : a = bevOf[x]
      BY <2>1, <2>2 DEF Live
    <3>2. ASSUME NEW a \in Live PROVE a \in Addr /\ map[a] # NoClient
      <4>1. PICK x \in Registered(map) : a = bevOf[x]
        BY <3>1
      <4>2. PICK k \in Addr : map[k] = x /\ map[k] # NoClient
        BY <2>3
      <4> QED BY <2>4, <4>1, <4>2
    <3>3. ASSUME NEW a \in Addr, map[a] # NoClient PROVE a \in Live
      BY <2>4, <3>1, <3>3
    <3> QED BY <3>2, <3>3
  <2> QED BY <2>2, <2>5
<1>2. IInv => NoLeak
  BY <1>1 DEF NoLeak
<1> QED BY <1>2, Invariance, PTL

-----------------------------------------------------------------------------
InputAtBottom(s) == \A i \in DOMAIN s : s[i].hook = "input" => i = Len(s)

(* No client has two on_client_disconnect hooks running.                   *)
OnePerClient(s) ==
  \A i, j \in DOMAIN s :
    s[i].hook = "disconnect" /\ s[j].hook = "disconnect"
      /\ s[i].client = s[j].client => i = j

(* What holds of any subclass.                                             *)
AnySubclass ==
  /\ InputAtBottom(stack)
  /\ \A c \in Client : bevOf[c] = NoAddr => c \notin asked /\ told[c] = 0
  /\ Registered(map) \subseteq joined
  /\ \A c \in asked :
       c \in Registered(map) \cup Running(stack, "connect") => "early" \in broken

(* Who is told of a disconnect was registered, and is not being announced. *)
NothingKept ==
  "keep" \notin broken =>
    \A c \in Client : told[c] > 0 =>
      c \in joined /\ c \notin Running(stack, "connect")

(* The entry of every disconnect under way is still in the map.            *)
NotReentered ==
  broken \cap {"reenter", "keep"} = {} =>
    /\ fault # "stale_iterator"
    /\ OnePerClient(stack)
    /\ \A c \in Running(stack, "disconnect") : map[bevOf[c]] # NoClient

(* A client that was told and is still registered is being told now.       *)
NotThrown ==
  broken \cap {"keep", "reenter", "throw"} = {} =>
    \A c \in Client :
      /\ told[c] < 2
      /\ told[c] > 0 /\ c \in Registered(map) => c \in Running(stack, "disconnect")

RInv == AnySubclass /\ NothingKept /\ NotReentered /\ NotThrown

-----------------------------------------------------------------------------
(* What Running holds of a hook, said without the set of indices.          *)
LEMMA RunningMeans ==
  ASSUME NEW s, NEW hook, NEW x
  PROVE  x \in Running(s, hook)
           <=> \E i \in DOMAIN s : s[i].hook = hook /\ s[i].client = x
BY DEF Running

(* A hook that starts: on_client_input only ever at the bottom, and        *)
(* on_client_disconnect of a client whose own is not under way.            *)
LEMMA PushHook ==
  ASSUME NEW hook \in {"connect", "input", "disconnect"}, NEW c \in Client,
         NEW by \in {"libevent", "app"}, NEW s \in Seq(Frame)
  PROVE  /\ \A h, x : x \in Running(Push(hook, c, by, s), h)
              <=> x \in Running(s, h) \/ (x = c /\ h = hook)
         /\ InputAtBottom(s) /\ (hook = "input" => s = <<>>)
              => InputAtBottom(Push(hook, c, by, s))
         /\ OnePerClient(s) /\ (hook = "disconnect" => c \notin Running(s, hook))
              => OnePerClient(Push(hook, c, by, s))
<1> DEFINE p == Push(hook, c, by, s)
<1>1. [hook |-> hook, client |-> c, by |-> by] \in Frame
  BY DEF Frame
<1>2. /\ 1 \in DOMAIN p /\ p[1].client = c /\ p[1].hook = hook
      /\ \A i \in DOMAIN s : i + 1 \in DOMAIN p /\ p[i + 1] = s[i]
      /\ \A j \in DOMAIN p : j = 1 \/ (j - 1 \in DOMAIN s /\ p[j] = s[j - 1])
      /\ Len(p) = Len(s) + 1 /\ (s = <<>> => Len(p) = 1)
      /\ DOMAIN p \subseteq Nat
  BY <1>1 DEF Push
<1> HIDE DEF p
<1>3. ASSUME NEW h, NEW x
      PROVE  x \in Running(p, h) <=> x \in Running(s, h) \/ (x = c /\ h = hook)
  <2>1. ASSUME x \in Running(p, h), ~(x = c /\ h = hook)
        PROVE  x \in Running(s, h)
    <3>1. PICK j \in DOMAIN p : p[j].hook = h /\ p[j].client = x
      BY <2>1, RunningMeans
    <3>2. j - 1 \in DOMAIN s /\ p[j] = s[j - 1]
      BY <1>2, <2>1, <3>1
    <3> QED BY <3>1, <3>2, RunningMeans
  <2>2. ASSUME x \in Running(s, h) PROVE x \in Running(p, h)
    <3>1. PICK i \in DOMAIN s : s[i].hook = h /\ s[i].client = x
      BY <2>2, RunningMeans
    <3>2. i + 1 \in DOMAIN p /\ p[i + 1] = s[i]
      BY <1>2
    <3> QED BY <3>1, <3>2, RunningMeans
  <2>3. ASSUME x = c, h = hook PROVE x \in Running(p, h)
    BY <1>2, <2>3, RunningMeans
  <2> QED BY <2>1, <2>2, <2>3
<1>4. ASSUME InputAtBottom(s), hook = "input" => s = <<>>
      PROVE  InputAtBottom(p)
  BY <1>2, <1>4 DEF InputAtBottom
<1>5. ASSUME OnePerClient(s), hook = "disconnect" => c \notin Running(s, hook)
      PROVE  OnePerClient(p)
  <2> SUFFICES ASSUME NEW i \in DOMAIN p, NEW j \in DOMAIN p,
                      p[i].hook = "disconnect", p[j].hook = "disconnect",
                      p[i].client = p[j].client
               PROVE  i = j
    BY DEF OnePerClient
  <2>1. \A k \in DOMAIN s : ~(hook = "disconnect" /\ s[k].hook = "disconnect"
                                /\ s[k].client = c)
    BY <1>5, RunningMeans
  <2>2. (i = 1) = (j = 1)
    BY <1>2, <2>1
  <2>3. CASE i # 1 /\ j # 1
    <3>1. /\ i - 1 \in DOMAIN s /\ p[i] = s[i - 1]
          /\ j - 1 \in DOMAIN s /\ p[j] = s[j - 1]
      BY <1>2, <2>3
    <3>2. i - 1 = j - 1
      BY <1>5, <3>1 DEF OnePerClient
    <3>3. i \in Nat /\ j \in Nat
      BY <1>2
    <3> QED BY <3>2, <3>3
  <2> QED BY <2>2, <2>3
<1> QED BY <1>3, <1>4, <1>5 DEF p

(* A hook that ends uncovers the ones below it; below on_client_input      *)
(* there is none, and below on_client_disconnect none of the same client.  *)
LEMMA PopHook ==
  ASSUME NEW s \in Seq(Frame), s # <<>>
  PROVE  /\ \A h, x : x \in Running(s, h)
              <=> \/ x \in Running(Tail(s), h)
                  \/ x = Head(s).client /\ h = Head(s).hook
         /\ InputAtBottom(s) =>
              /\ InputAtBottom(Tail(s))
              /\ Head(s).hook = "input" => Tail(s) = <<>>
         /\ OnePerClient(s) =>
              /\ OnePerClient(Tail(s))
              /\ Head(s).hook = "disconnect" =>
                   Head(s).client \notin Running(Tail(s), "disconnect")
<1> DEFINE t == Tail(s)
<1>1. /\ Head(s) = s[1] /\ 1 \in DOMAIN s /\ t \in Seq(Frame) /\ Len(t) = Len(s) - 1
      /\ \A i \in DOMAIN t : i + 1 \in DOMAIN s /\ s[i + 1] = t[i]
      /\ \A j \in DOMAIN s : j = 1 \/ (j - 1 \in DOMAIN t /\ s[j] = t[j - 1])
      /\ DOMAIN t \subseteq Nat \ {0} /\ Len(s) \in Nat
  OBVIOUS
<1> HIDE DEF t
<1>2. ASSUME NEW h, NEW x
      PROVE  x \in Running(s, h)
               <=> x \in Running(t, h) \/ (x = Head(s).client /\ h = Head(s).hook)
  <2>1. ASSUME x \in Running(s, h), ~(x = Head(s).client /\ h = Head(s).hook)
        PROVE  x \in Running(t, h)
    <3>1. PICK j \in DOMAIN s : s[j].hook = h /\ s[j].client = x
      BY <2>1, RunningMeans
    <3>2. j - 1 \in DOMAIN t /\ s[j] = t[j - 1]
      BY <1>1, <2>1, <3>1
    <3> QED BY <3>1, <3>2, RunningMeans
  <2>2. ASSUME x \in Running(t, h) PROVE x \in Running(s, h)
    <3>1. PICK i \in DOMAIN t : t[i].hook = h /\ t[i].client = x
      BY <2>2, RunningMeans
    <3>2. i + 1 \in DOMAIN s /\ s[i + 1] = t[i]
      BY <1>1
    <3> QED BY <3>1, <3>2, RunningMeans
  <2>3. ASSUME x = Head(s).client, h = Head(s).hook PROVE x \in Running(s, h)
    BY <1>1, <2>3, RunningMeans
  <2> QED BY <2>1, <2>2, <2>3
<1>3. ASSUME InputAtBottom(s)
      PROVE  InputAtBottom(t) /\ (Head(s).hook = "input" => t = <<>>)
  <2>1. InputAtBottom(t)
    BY <1>1, <1>3 DEF InputAtBottom
  <2>2. ASSUME Head(s).hook = "input" PROVE t = <<>>
    <3>1. Len(t) = 0
      BY <1>1, <1>3, <2>2 DEF InputAtBottom
    <3> QED BY <1>1, <3>1, EmptySeq
  <2> QED BY <2>1, <2>2
<1>4. ASSUME OnePerClient(s)
      PROVE  /\ OnePerClient(t)
             /\ Head(s).hook = "disconnect" =>
                  Head(s).client \notin Running(t, "disconnect")
  <2>1. OnePerClient(t)
    <3> SUFFICES ASSUME NEW i \in DOMAIN t, NEW j \in DOMAIN t,
                        t[i].hook = "disconnect", t[j].hook = "disconnect",
                        t[i].client = t[j].client
                 PROVE  i = j
      BY DEF OnePerClient
    <3>1. i + 1 = j + 1
      BY <1>1, <1>4 DEF OnePerClient
    <3>2. i \in Nat /\ j \in Nat
      BY <1>1
    <3> QED BY <3>1, <3>2
  <2>2. ASSUME Head(s).hook = "disconnect",
               Head(s).client \in Running(t, "disconnect")
        PROVE  FALSE
    <3>1. PICK i \in DOMAIN t :
            t[i].hook = "disconnect" /\ t[i].client = Head(s).client
      BY <2>2, RunningMeans
    <3>2. i + 1 \in DOMAIN s /\ s[i + 1] = t[i] /\ i \in Nat \ {0}
      BY <1>1
    <3>3. i + 1 = 1
      BY <1>1, <1>4, <2>2, <3>1, <3>2 DEF OnePerClient
    <3> QED BY <3>2, <3>3
  <2> QED BY <2>1, <2>2
<1> QED BY <1>2, <1>3, <1>4 DEF t

(* A hook that libevent starts is the only one on the stack.               *)
LEMMA FirstHook ==
  ASSUME NEW hook \in {"connect", "input"}, NEW c \in Client
  PROVE  LET p == Push(hook, c, "libevent", <<>>)
         IN /\ \A h, x : x \in Running(p, h) <=> x = c /\ h = hook
            /\ InputAtBottom(p) /\ OnePerClient(p)
<1> DEFINE p == Push(hook, c, "libevent", <<>>)
<1>1. p = <<[hook |-> hook, client |-> c, by |-> "libevent"]>>
  BY DEF Push
<1>2. DOMAIN p = {1} /\ p[1].hook = hook /\ p[1].client = c /\ Len(p) = 1
  BY <1>1
<1> HIDE DEF p
<1>3. \A h, x : x \in Running(p, h) <=> x = c /\ h = hook
  BY <1>2, RunningMeans
<1>4. InputAtBottom(p) /\ OnePerClient(p)
  BY <1>2 DEF InputAtBottom, OnePerClient
<1> QED BY <1>3, <1>4 DEF p

-----------------------------------------------------------------------------
(* What a step that ends in Settle does to the state RInv speaks of.       *)
LEMMA SettleEffect ==
  ASSUME NEW objs, NEW m, NEW h, NEW s, NEW r, Settle(objs, m, h, s, r)
  PROVE  /\ map' = m /\ stack' = s
         /\ broken \subseteq broken' /\ r \subseteq broken'
         /\ fault' # "stale_iterator"
BY DEF Settle

(* Registered clients are found under their own address.                   *)
LEMMA RegisteredKey ==
  ASSUME IInv, NEW c \in Registered(map)
  PROVE  /\ c \in objects /\ c \in Client /\ c # NoClient
         /\ bevOf[c] \in Addr /\ map[bevOf[c]] = c
BY DEF IInv, TypeOK, Shape, Registered, Owned

(* While nothing was kept, an address in use belongs to one client only.   *)
LEMMA OwnKey ==
  ASSUME IInv, "keep" \notin broken, NEW c \in objects, map[bevOf[c]] # NoClient
  PROVE  map[bevOf[c]] = c /\ c \in Registered(map)
<1>1. map[bevOf[c]] \in Registered(map) /\ map[bevOf[c]] \in objects
  BY ObjectAddress
<1>2. bevOf[map[bevOf[c]]] = bevOf[c]
  BY ObjectAddress DEF IInv, Shape
<1>3. freed = {}
  BY DEF IInv, KeepBlamed
<1> QED BY <1>1, <1>2, <1>3 DEF IInv, Shape

LEMMA RunningExist ==
  ASSUME IInv, NEW hook, NEW c \in Running(stack, hook)
  PROVE  c \in objects /\ c \in Client
BY DEF IInv, TypeOK, Shape, Owned, Running, InFrames

-----------------------------------------------------------------------------
LEMMA QuietKeepsRules ==
  ASSUME RInv,
         UNCHANGED <<bevOf, map, stack, joined, told, asked>>,
         broken \subseteq broken',
         fault' \in {fault, "none", "double_free", "accept_threw", "escaped",
                     "server_gone"}
  PROVE  RInv'
<1>1. AnySubclass'
  BY DEF RInv, AnySubclass
<1>2. NothingKept'
  BY DEF RInv, NothingKept
<1>3. NotReentered'
  BY DEF RInv, NotReentered
<1>4. NotThrown'
  BY DEF RInv, NotThrown
<1> QED BY <1>1, <1>2, <1>3, <1>4 DEF RInv

(* A hook ends and the map stays as it is; if that was on_client_disconnect*)
(* then it threw.                                                          *)
LEMMA PopKeepsRules ==
  ASSUME IInv, RInv, InHook,
         map' = map, stack' = Tail(stack),
         UNCHANGED <<bevOf, joined, told, asked>>,
         broken \subseteq broken',
         fault' # "stale_iterator",
         Head(stack).hook = "disconnect" => "throw" \in broken'
  PROVE  RInv'
<1>1. stack \in Seq(Frame) /\ stack # <<>>
  BY DEF IInv, TypeOK, InHook
<1>2. /\ \A h : Running(stack', h) \subseteq Running(stack, h)
      /\ Head(stack).hook # "disconnect" =>
           Running(stack', "disconnect") = Running(stack, "disconnect")
      /\ InputAtBottom(stack) => InputAtBottom(stack')
      /\ OnePerClient(stack) => OnePerClient(stack')
  BY <1>1, PopHook
<1>3. AnySubclass'
  BY <1>2 DEF RInv, AnySubclass
<1>4. NothingKept'
  BY <1>2 DEF RInv, NothingKept
<1>5. NotReentered'
  BY <1>2 DEF RInv, NotReentered
<1>6. NotThrown'
  BY <1>2 DEF RInv, NotThrown
<1> QED BY <1>3, <1>4, <1>5, <1>6 DEF RInv

(* No hook runs when the server is destroyed, and nothing is registered    *)
(* after it.                                                               *)
LEMMA DestroyKeepsRules ==
  ASSUME RInv, DestroyServer
  PROVE  RInv'
<1>1. /\ stack = <<>> /\ stack' = stack /\ map' = NoClients
      /\ broken \subseteq broken' /\ fault' # "stale_iterator"
      /\ UNCHANGED <<bevOf, joined, told, asked>>
  BY SettleEffect DEF DestroyServer, Idle
<1>2. /\ Registered(map') = {}
      /\ \A h : Running(stack', h) = {}
      /\ InputAtBottom(stack') /\ OnePerClient(stack')
  BY <1>1, NoneRegistered DEF Running, InputAtBottom, OnePerClient
<1>3. AnySubclass'
  BY <1>1, <1>2 DEF RInv, AnySubclass
<1>4. NothingKept'
  BY <1>1, <1>2 DEF RInv, NothingKept
<1>5. NotReentered'
  BY <1>1, <1>2 DEF NotReentered
<1>6. NotThrown'
  BY <1>1, <1>2 DEF RInv, NotThrown
<1> QED BY <1>3, <1>4, <1>5, <1>6 DEF RInv

LEMMA AcceptKeepsRules ==
  ASSUME IInv, RInv, NEW c \in Client, NEW a \in Addr, Accept(c, a)
  PROVE  RInv'
<1> DEFINE p == Push("connect", c, "libevent", <<>>)
<1>1. /\ stack = <<>> /\ bevOf[c] = NoAddr /\ bevOf' = [bevOf EXCEPT ![c] = a]
      /\ map' = map /\ stack' = p /\ broken \subseteq broken'
      /\ fault' # "stale_iterator"
      /\ UNCHANGED <<joined, told, asked>>
  BY SettleEffect DEF Accept, Idle
<1>2. /\ \A h, x : x \in Running(p, h) <=> x = c /\ h = "connect"
      /\ InputAtBottom(p) /\ OnePerClient(p)
  BY FirstHook
<1> HIDE DEF p
<1>3. \A h, x : x \notin Running(stack, h)
  BY <1>1, RunningMeans
<1>4. c \notin asked /\ told[c] = 0
  BY <1>1 DEF RInv, AnySubclass
<1>5. \A x \in Client : bevOf'[x] = NoAddr => bevOf[x] = NoAddr
  BY <1>1, ConstantsAssumption DEF IInv, TypeOK
<1>6. AnySubclass'
  BY <1>1, <1>2, <1>4, <1>5 DEF RInv, AnySubclass
<1>7. NothingKept'
  BY <1>1, <1>2, <1>4 DEF RInv, NothingKept
<1>8. NotReentered'
  BY <1>1, <1>2 DEF RInv, NotReentered
<1>9. NotThrown'
  BY <1>1, <1>2, <1>3 DEF RInv, NotThrown
<1> QED BY <1>6, <1>7, <1>8, <1>9 DEF RInv

LEMMA InputKeepsRules ==
  ASSUME IInv, RInv, Idle, NEW d \in Client,
         map' = map, stack' = Push("input", d, "libevent", <<>>),
         UNCHANGED <<bevOf, joined, told, asked>>,
         broken \subseteq broken', fault' # "stale_iterator"
  PROVE  RInv'
<1>2. \A h, x : x \notin Running(stack, h)
  BY RunningMeans DEF Idle
<1>3. /\ \A h, x : x \in Running(stack', h) <=> x = d /\ h = "input"
      /\ InputAtBottom(stack') /\ OnePerClient(stack')
  BY FirstHook
<1>4. AnySubclass'
  BY <1>3 DEF RInv, AnySubclass
<1>5. NothingKept'
  BY <1>3 DEF RInv, NothingKept
<1>6. NotReentered'
  BY <1>3 DEF RInv, NotReentered
<1>7. NotThrown'
  BY <1>2 DEF RInv, NotThrown
<1> QED BY <1>4, <1>5, <1>6, <1>7 DEF RInv

-----------------------------------------------------------------------------
(* disconnect_client, wherever it is called from: the caller breaks a rule *)
(* when a hook of that client is still running.                            *)
LEMMA DisconnectKeepsRules ==
  ASSUME IInv, RInv,
         NEW c \in objects,
         NEW by \in {"libevent", "app"},
         NEW s \in Seq(Frame),
         NEW r \in SUBSET Rules,
         \A h : Running(s, h) \subseteq Running(stack, h),
         Running(s, "disconnect") = Running(stack, "disconnect"),
         InputAtBottom(s),
         OnePerClient(stack) => OnePerClient(s),
         c \in Running(s, "connect") => "early" \in r,
         c \in Running(s, "disconnect") => "reenter" \in r,
         Disconnect(c, by, s, r)
  PROVE  RInv'
<1>1. /\ c \in Client /\ bevOf[c] # NoAddr
      /\ bevOf' = bevOf /\ joined' = joined /\ map' = map
      /\ broken \subseteq broken' /\ r \subseteq broken'
      /\ fault' # "stale_iterator"
  BY SettleEffect DEF Disconnect, IInv, TypeOK, Shape
<1>2. CASE map[bevOf[c]] # NoClient
  <2> DEFINE p == Push("disconnect", c, by, s)
  <2>1. /\ stack' = p /\ asked' = asked
        /\ told' = [told EXCEPT ![c] = IF @ < 2 THEN @ + 1 ELSE 2]
    BY <1>2, SettleEffect DEF Disconnect
  <2>2. /\ \A h, x : x \in Running(p, h)
             <=> x \in Running(s, h) \/ (x = c /\ h = "disconnect")
        /\ InputAtBottom(p)
        /\ OnePerClient(s) /\ c \notin Running(s, "disconnect") => OnePerClient(p)
    <3>1. "disconnect" \in {"connect", "input", "disconnect"}
      OBVIOUS
    <3> HIDE DEF p
    <3>2. /\ \A h, x : x \in Running(p, h)
               <=> x \in Running(s, h) \/ (x = c /\ h = "disconnect")
          /\ InputAtBottom(s) /\ ("disconnect" = "input" => s = <<>>)
               => InputAtBottom(p)
          /\ OnePerClient(s)
               /\ ("disconnect" = "disconnect" => c \notin Running(s, "disconnect"))
               => OnePerClient(p)
      BY <1>1, <3>1, PushHook DEF p
    <3> QED BY <3>2
  <2> HIDE DEF p
  <2>3. told[c] \in 0..2 /\ \A x \in Client : x # c => told'[x] = told[x]
    BY <1>1, <2>1 DEF IInv, TypeOK
  <2>4. told'[c] = IF told[c] < 2 THEN told[c] + 1 ELSE 2
    BY <1>1, <2>1 DEF IInv, TypeOK
  <2>5. "keep" \notin broken' => c \in Registered(map)
    BY <1>1, <1>2, OwnKey
  <2>6. AnySubclass'
    BY <1>1, <2>1, <2>2, <2>3 DEF RInv, AnySubclass
  <2>7. NothingKept'
    <3>1. c \notin Running(stack, "connect")
      BY <1>2 DEF IInv, Shape
    <3> QED BY <1>1, <2>1, <2>2, <2>3, <2>5, <3>1
            DEF RInv, AnySubclass, NothingKept
  <2>8. NotReentered'
    BY <1>1, <1>2, <2>1, <2>2 DEF RInv, NotReentered
  <2>9. NotThrown'
    <3> SUFFICES ASSUME broken' \cap {"keep", "reenter", "throw"} = {},
                        NEW x \in Client
                 PROVE  /\ told'[x] < 2
                        /\ told'[x] > 0 /\ x \in Registered(map)
                             => x \in Running(p, "disconnect")
      BY <1>1, <2>1 DEF NotThrown
    <3>1. \A y \in Client : /\ told[y] < 2
                            /\ told[y] > 0 /\ y \in Registered(map)
                                 => y \in Running(s, "disconnect")
      BY <1>1 DEF RInv, NotThrown
    <3>2. told[c] = 0
      BY <1>1, <2>3, <2>5, <3>1
    <3> QED BY <2>2, <2>3, <2>4, <3>1, <3>2
  <2> QED BY <2>6, <2>7, <2>8, <2>9 DEF RInv
<1>3. CASE map[bevOf[c]] = NoClient
  <2>1. stack' = s /\ asked' = asked \cup {c} /\ told' = told
    BY <1>3, SettleEffect DEF Disconnect
  <2>2. c \notin Registered(map)
    BY <1>3, RegisteredKey
  <2>3. AnySubclass'
    BY <1>1, <2>1, <2>2 DEF RInv, AnySubclass
  <2>4. NothingKept'
    BY <1>1, <2>1 DEF RInv, NothingKept
  <2>5. NotReentered'
    BY <1>1, <2>1 DEF RInv, NotReentered
  <2>6. NotThrown'
    BY <1>1, <2>1 DEF RInv, NotThrown
  <2> QED BY <2>3, <2>4, <2>5, <2>6 DEF RInv
<1> QED BY <1>2, <1>3

(* A client enters the map. It is the only hook there was, so nobody is    *)
(* being told of a disconnect.                                             *)
LEMMA ConnectReturnsKeepsRules ==
  ASSUME IInv, RInv, ConnectReturns
  PROVE  RInv'
<1> DEFINE c == Head(stack).client
           m == IF map[bevOf[c]] = NoClient
                  THEN [map EXCEPT ![bevOf[c]] = c] ELSE map
<1>1. /\ InHook /\ Head(stack).hook = "connect" /\ joined' = joined \cup {c}
      /\ map' = m /\ stack' = Tail(stack)
      /\ broken \subseteq broken' /\ fault' # "stale_iterator"
      /\ UNCHANGED <<bevOf, told, asked>>
  <2>1. /\ InHook /\ Head(stack).hook = "connect" /\ joined' = joined \cup {c}
        /\ Settle(objects, m, held, Tail(stack), {})
        /\ UNCHANGED <<bevOf, told, asked>>
    BY DEF ConnectReturns
  <2> HIDE DEF c, m
  <2> QED BY <2>1, SettleEffect
<1>2. stack \in Seq(Frame) /\ stack # <<>> /\ ConnectAtBottom(stack)
  BY <1>1 DEF IInv, TypeOK, InHook, Shape
<1>3. Tail(stack) = <<>> /\ c \in Running(stack, "connect")
  BY <1>1, <1>2, TailFrames
<1>4. \A h, x : x \notin Running(<<>>, h)
  BY RunningMeans
<1>5. \A x : x \notin Running(stack, "disconnect")
  BY <1>1, <1>2, <1>3, <1>4, PopHook
<1>6. Registered(m) \subseteq Registered(map) \cup {c}
  <2>1. c \in objects
    BY <1>3, RunningExist
  <2>2. bevOf[c] \in Addr
    BY <2>1, ObjectAddress
  <2>3. \A a \in Addr : m[a] \in {map[a], c}
    BY <2>2 DEF IInv, TypeOK
  <2> HIDE DEF m
  <2> QED BY <2>3 DEF Registered
<1> HIDE DEF c, m
<1>7. AnySubclass'
  <2>1. InputAtBottom(stack')
    BY <1>1, <1>3 DEF InputAtBottom
  <2> QED BY <1>1, <1>3, <1>4, <1>6, <2>1 DEF RInv, AnySubclass
<1>8. NothingKept'
  BY <1>1, <1>3, <1>4 DEF RInv, NothingKept
<1>9. NotReentered'
  <2>1. OnePerClient(stack')
    BY <1>1, <1>3 DEF OnePerClient
  <2> QED BY <1>1, <1>3, <1>4, <2>1 DEF NotReentered
<1>10. NotThrown'
  <2>1. "keep" \notin broken => ~(told[c] > 0)
    BY <1>3, RunningExist DEF RInv, NothingKept
  <2> QED BY <1>1, <1>3, <1>5, <1>6, <2>1 DEF RInv, NotThrown
<1> QED BY <1>7, <1>8, <1>9, <1>10 DEF RInv

(* The entry that disconnect_client found leaves the map, and no other.    *)
LEMMA DisconnectReturnsKeepsRules ==
  ASSUME IInv, RInv, DisconnectReturns
  PROVE  RInv'
<1> DEFINE c == Head(stack).client
           m == [map EXCEPT ![bevOf[c]] = NoClient]
<1>1. /\ InHook /\ Head(stack).hook = "disconnect"
      /\ UNCHANGED <<bevOf, joined, told>>
  BY DEF DisconnectReturns
<1>2. stack \in Seq(Frame) /\ stack # <<>>
  BY <1>1 DEF IInv, TypeOK, InHook
<1>3. /\ \A h, x : x \in Running(stack, h)
           <=> x \in Running(Tail(stack), h) \/ (x = c /\ h = "disconnect")
      /\ InputAtBottom(stack) => InputAtBottom(Tail(stack))
      /\ OnePerClient(stack) =>
           OnePerClient(Tail(stack)) /\ c \notin Running(Tail(stack), "disconnect")
  BY <1>1, <1>2, PopHook
<1>4. c \in Running(stack, "disconnect") /\ c \in objects /\ c \in Client
  BY <1>3, RunningExist
<1>5. bevOf[c] \in Addr
  BY <1>4, ObjectAddress
<1>6. CASE map[bevOf[c]] # NoClient
  <2>1. /\ asked' = asked \cup {c} /\ map' = m /\ stack' = Tail(stack)
        /\ broken \subseteq broken' /\ fault' # "stale_iterator"
    BY <1>6, SettleEffect DEF DisconnectReturns
  <2>2. \A a \in Addr : m[a] = IF a = bevOf[c] THEN NoClient ELSE map[a]
    BY <1>5 DEF IInv, TypeOK
  <2> HIDE DEF c, m
  <2>3. Registered(m) \subseteq Registered(map)
    BY <2>2 DEF Registered
  <2>4. c \notin Registered(m)
    <3> SUFFICES ASSUME NEW a \in Addr, m[a] = c, c # NoClient PROVE FALSE
      BY DEF Registered
    <3>1. map[a] = c /\ a # bevOf[c]
      BY <2>2
    <3> QED BY <3>1 DEF IInv, Shape
  <2>5. c \notin Running(stack, "connect")
    BY <1>6 DEF IInv, Shape
  <2>6. AnySubclass'
    <3>1. bevOf[c] # NoAddr
      BY <1>4 DEF IInv, Shape
    <3> QED BY <1>1, <1>3, <2>1, <2>3, <2>4, <2>5, <3>1 DEF RInv, AnySubclass
  <2>7. NothingKept'
    BY <1>1, <1>3, <2>1 DEF RInv, NothingKept
  <2>8. NotReentered'
    <3> SUFFICES ASSUME broken' \cap {"reenter", "keep"} = {}
                 PROVE  /\ OnePerClient(stack')
                        /\ \A x \in Running(stack', "disconnect") :
                             m[bevOf[x]] # NoClient
      BY <1>1, <2>1 DEF NotReentered
    <3>1. /\ OnePerClient(stack)
          /\ \A x \in Running(stack, "disconnect") : map[bevOf[x]] # NoClient
      BY <2>1 DEF RInv, NotReentered
    <3>2. OnePerClient(stack') /\ c \notin Running(stack', "disconnect")
      BY <1>3, <2>1, <3>1
    <3>3. ASSUME NEW x \in Running(stack', "disconnect")
          PROVE  m[bevOf[x]] # NoClient
      <4>1. x \in Running(stack, "disconnect") /\ x # c
        BY <1>3, <2>1, <3>2
      <4>2. x \in objects /\ bevOf[x] \in Addr
        BY <4>1, RunningExist, ObjectAddress
      <4>3. bevOf[x] # bevOf[c]
        BY <1>4, <2>1, <4>1, <4>2 DEF IInv, KeepBlamed, Shape
      <4> QED BY <2>2, <3>1, <4>1, <4>2, <4>3
    <3> QED BY <3>2, <3>3
  <2>9. NotThrown'
    BY <1>1, <1>3, <2>1, <2>3, <2>4 DEF RInv, NotThrown
  <2> QED BY <2>6, <2>7, <2>8, <2>9 DEF RInv
<1>7. CASE map[bevOf[c]] = NoClient
  <2>1. UNCHANGED <<map, stack, asked, broken>>
    BY <1>7 DEF DisconnectReturns
  <2>2. broken \cap {"reenter", "keep"} # {}
    BY <1>4, <1>7 DEF RInv, NotReentered
  <2>3. AnySubclass'
    BY <1>1, <2>1 DEF RInv, AnySubclass
  <2>4. NothingKept'
    BY <1>1, <2>1 DEF RInv, NothingKept
  <2>5. NotReentered'
    BY <2>1, <2>2 DEF NotReentered
  <2>6. NotThrown'
    BY <1>1, <2>1 DEF RInv, NotThrown
  <2> QED BY <2>3, <2>4, <2>5, <2>6 DEF RInv
<1> QED BY <1>6, <1>7

-----------------------------------------------------------------------------
LEMMA InitHoldsRules == Init => RInv
<1> SUFFICES ASSUME Init PROVE RInv
  OBVIOUS
<1>1. /\ InputAtBottom(stack) /\ OnePerClient(stack)
      /\ \A h, x : x \notin Running(stack, h)
  BY RunningMeans DEF Init, InputAtBottom, OnePerClient
<1>2. Registered(map) = {}
  BY DEF Init, Registered
<1> QED
  BY <1>1, <1>2
     DEF Init, RInv, AnySubclass, NothingKept, NotReentered, NotThrown

LEMMA NextKeepsRules ==
  ASSUME IInv, RInv, [Next]_vars
  PROVE  RInv'
<1>1. ASSUME NEW c \in Client, NEW a \in Addr, Accept(c, a) PROVE RInv'
  BY <1>1, AcceptKeepsRules
<1>2. CASE AcceptThrows
  BY <1>2, QuietKeepsRules DEF AcceptThrows, serverVars, historyVars
<1>3. ASSUME NEW c \in Client, FreeUnregistered(c) PROVE RInv'
  BY <1>3, QuietKeepsRules DEF FreeUnregistered, historyVars
<1>4. ASSUME NEW c \in Client, ClientInput(c) PROVE RInv'
  <2>1. CASE FreeUnregistered(c)
    BY <1>3, <2>1
  <2>2. CASE ~FreeUnregistered(c)
    <3> DEFINE d == map[bevOf[c]]
    <3>1. /\ Idle /\ d # NoClient /\ c \in objects
          /\ Settle(objects, map, held, Push("input", d, "libevent", <<>>), {})
          /\ UNCHANGED <<bevOf, joined, told, asked>>
      BY <1>4, <2>2 DEF ClientInput
    <3>2. d \in Client
      BY <3>1, ObjectAddress DEF IInv, TypeOK
    <3> HIDE DEF d
    <3> QED BY <3>1, <3>2, SettleEffect, InputKeepsRules
  <2> QED BY <2>1, <2>2
<1>5. /\ \A h : Running(<<>>, h) = {}
      /\ InputAtBottom(<<>>) /\ OnePerClient(<<>>) /\ <<>> \in Seq(Frame)
      /\ {} \in SUBSET Rules
  BY EmptySeq DEF Running, InputAtBottom, OnePerClient
<1>6. ASSUME NEW c \in Client, ClientError(c) PROVE RInv'
  <2>1. CASE FreeUnregistered(c)
    BY <1>3, <2>1
  <2>2. CASE ~FreeUnregistered(c)
    <3> DEFINE d == map[bevOf[c]]
    <3>1. /\ stack = <<>> /\ d # NoClient /\ c \in objects
          /\ Disconnect(d, "libevent", <<>>, {})
      BY <1>6, <2>2 DEF ClientError, Idle
    <3>2. d \in objects
      BY <3>1, ObjectAddress
    <3> HIDE DEF d
    <3> QED BY <1>5, <3>1, <3>2, DisconnectKeepsRules
  <2> QED BY <2>1, <2>2
<1>7. ASSUME NEW c \in Client, ClientOtherEvent(c) PROVE RInv'
  BY <1>3, <1>7 DEF ClientOtherEvent
<1>8. ASSUME NEW c \in Client, PeerCloses(c) PROVE RInv'
  BY <1>8, QuietKeepsRules DEF PeerCloses, serverVars, historyVars
<1>9. ASSUME NEW h, Settle(objects, map, h, stack, {}),
             UNCHANGED <<bevOf, joined, told, asked>>
      PROVE  RInv'
  <2>1. fault' \in {"none", "double_free"}
    BY <1>9 DEF Settle
  <2> QED BY <1>9, <2>1, SettleEffect, QuietKeepsRules
<1>10. ASSUME NEW c \in Client, AppRetains(c) \/ AppReleases(c) PROVE RInv'
  BY <1>9, <1>10 DEF AppRetains, AppReleases
<1>11. ASSUME NEW c \in Client, AppDisconnects(c) PROVE RInv'
  <2> DEFINE r == {x \in {"early"} : c \in Running(stack, "connect")}
                    \cup {x \in {"reenter"} : c \in Running(stack, "disconnect")}
  <2>1. Disconnect(c, "app", stack, r) /\ c \in Nameable
    BY <1>11 DEF AppDisconnects
  <2>2. c \in objects
    BY <2>1 DEF Nameable, Owned, IInv, Shape
  <2>3. /\ r \in SUBSET Rules
        /\ c \in Running(stack, "connect") => "early" \in r
        /\ c \in Running(stack, "disconnect") => "reenter" \in r
    BY DEF Rules
  <2> HIDE DEF r
  <2>4. stack \in Seq(Frame) /\ InputAtBottom(stack)
    BY DEF IInv, TypeOK, RInv, AnySubclass
  <2> QED BY <2>1, <2>2, <2>3, <2>4, DisconnectKeepsRules
<1>12. CASE ConnectReturns
  BY <1>12, ConnectReturnsKeepsRules
<1>13. ASSUME InHook, NEW r, Settle(objects, map, held, Tail(stack), r),
              UNCHANGED <<bevOf, joined, told, asked>>,
              Head(stack).hook = "disconnect" => "throw" \in r
       PROVE  RInv'
  BY <1>13, SettleEffect, PopKeepsRules
<1>14. CASE ConnectThrows
  BY <1>13, <1>14 DEF ConnectThrows
<1>15. CASE InputReturns
  BY <1>13, <1>15 DEF InputReturns
<1>16. CASE InputThrows
  <2> DEFINE c == Head(stack).client
  <2>1. /\ InHook /\ Head(stack).hook = "input"
        /\ Disconnect(c, "libevent", Tail(stack), {})
        /\ stack \in Seq(Frame) /\ stack # <<>>
    BY <1>16 DEF InputThrows, InHook, IInv, TypeOK
  <2>2. c \in objects
    BY <2>1, TopClient
  <2>3. Tail(stack) = <<>>
    BY <2>1, PopHook DEF RInv, AnySubclass
  <2>4. \A x : x \notin Running(stack, "disconnect")
    BY <1>5, <2>1, <2>3, PopHook
  <2> HIDE DEF c
  <2> QED BY <1>5, <2>1, <2>2, <2>3, <2>4, DisconnectKeepsRules
<1>17. CASE DisconnectReturns
  BY <1>17, DisconnectReturnsKeepsRules
<1>18. CASE DisconnectThrows
  <2>1. CASE Head(stack).by = "app"
    BY <1>13, <1>18, <2>1 DEF DisconnectThrows
  <2>2. CASE Head(stack).by = "libevent"
    <3>1. /\ broken' = broken \cup {"throw"} /\ fault' = "escaped"
          /\ UNCHANGED <<map, stack, bevOf, joined, told, asked>>
      BY <1>18, <2>2 DEF DisconnectThrows
    <3> QED BY <3>1, QuietKeepsRules
  <2> QED BY <1>18, <2>1, <2>2 DEF DisconnectThrows
<1>19. CASE UNCHANGED vars
  BY <1>19, QuietKeepsRules DEF vars, serverVars, historyVars
<1>20. CASE DestroyServer
  BY <1>20, DestroyKeepsRules
<1>21. ASSUME NEW c \in Client, LateEvent(c) PROVE RInv'
  BY <1>21, QuietKeepsRules DEF LateEvent, serverVars, historyVars
<1> QED
  BY <1>1, <1>2, <1>4, <1>6, <1>7, <1>8, <1>10, <1>11, <1>12, <1>14, <1>15,
     <1>16, <1>17, <1>18, <1>19, <1>20, <1>21 DEF Next, HookEnds

LEMMA RulesInvariance == Spec => [](IInv /\ RInv)
<1>1. IInv /\ RInv /\ [Next]_vars => RInv'
  BY NextKeepsRules
<1> QED BY <1>1, InitHoldsRules, Invariance, PTL DEF Spec

-----------------------------------------------------------------------------
(* The iterator that disconnect_client keeps across on_client_disconnect   *)
(* is valid when it is used, unless the hook disconnects its own client or *)
(* the subclass kept a Client: throwing, and disconnecting a client that   *)
(* is being announced, are harmless.                                       *)
THEOREM EraseIsValid == Spec => []NoStaleErase
<1>1. IInv /\ RInv => NoStaleErase
  BY DEF RInv, NotReentered, NoStaleErase
<1> QED BY <1>1, RulesInvariance, PTL

(* on_client_disconnect runs at most once for a client of a subclass that  *)
(* keeps, reenters and throws nothing.                                     *)
THEOREM ToldOnce == Spec => []DisconnectHookOnce
<1>1. IInv /\ RInv => DisconnectHookOnce
  BY DEF RInv, NotThrown, DisconnectHookOnce
<1> QED BY <1>1, RulesInvariance, PTL

(* A client refused by on_client_connect is never reported as disconnected,*)
(* however the hooks are nested, unless the subclass kept a Client.        *)
THEOREM ToldOnlyIfConnected == Spec => []DisconnectHookAfterConnect
<1>1. IInv /\ RInv => DisconnectHookAfterConnect
  BY DEF RInv, NothingKept, DisconnectHookAfterConnect
<1> QED BY <1>1, RulesInvariance, PTL

(* What disconnect_client has left unregistered stays so, but for a client *)
(* disconnected while it is announced; this one needs no other rule, since *)
(* an object enters the map under its own address only.                    *)
THEOREM DisconnectLasts == Spec => []DisconnectIsFinal
<1>1. IInv /\ RInv => DisconnectIsFinal
  BY DEF RInv, AnySubclass, DisconnectIsFinal
<1> QED BY <1>1, RulesInvariance, PTL

(* Only the disconnect_client call of a client removes its entry, as long  *)
(* as there is a server. Of the steps that change the map, emplace adds    *)
(* under a fresh key, and erase removes the entry of the hook that returns.*)
THEOREM EntriesLeaveByTheirOwnCall == Spec => ErasedByItsOwnDisconnect
<1> DEFINE Own(a) == map[a] # NoClient /\ map'[a] # map[a] =>
                       \/ up /\ ~up'
                       \/ /\ Head(stack).hook = "disconnect"
                          /\ Head(stack).client = map[a]
                       \/ "keep" \in broken
<1>1. ASSUME IInv, [Next]_vars, NEW a \in Addr PROVE Own(a)
  <2>1. CASE map' = map
    BY <2>1
  <2>2. CASE ConnectReturns
    <3> DEFINE c == Head(stack).client
    <3>1. InHook /\ c \in objects
      BY <2>2, <1>1, TopClient DEF ConnectReturns
    <3>2. map' = IF map[bevOf[c]] = NoClient
                   THEN [map EXCEPT ![bevOf[c]] = c] ELSE map
      BY <2>2 DEF ConnectReturns, Settle
    <3> QED BY <1>1, <3>2 DEF IInv, TypeOK
  <2>3. CASE DisconnectReturns
    <3> DEFINE c == Head(stack).client
    <3>1. InHook /\ Head(stack).hook = "disconnect" /\ c \in objects
      BY <2>3, <1>1, TopClient DEF DisconnectReturns
    <3>2. CASE map[bevOf[c]] # NoClient
      <4>1. map' = [map EXCEPT ![bevOf[c]] = NoClient]
        BY <2>3, <3>2 DEF DisconnectReturns, Settle
      <4>2. "keep" \notin broken => map[bevOf[c]] = c
        BY <1>1, <3>1, <3>2, OwnKey
      <4>3. a # bevOf[c] => map'[a] = map[a]
        BY <1>1, <4>1 DEF IInv, TypeOK
      <4> QED BY <3>1, <4>2, <4>3
    <3>3. CASE map[bevOf[c]] = NoClient
      BY <2>3, <3>3 DEF DisconnectReturns
    <3> QED BY <3>2, <3>3
  <2>4. CASE DestroyServer
    BY <2>4 DEF DestroyServer
  <2>5. ASSUME ~ConnectReturns, ~DisconnectReturns, ~DestroyServer
        PROVE  map' = map
    BY <1>1, <2>5
       DEF Next, HookEnds, Accept, AcceptThrows, ClientInput, ClientError,
           ClientOtherEvent, PeerCloses, AppRetains, AppReleases,
           AppDisconnects, ConnectThrows, InputReturns, InputThrows,
           DisconnectThrows, FreeUnregistered, Disconnect, Settle, LateEvent,
           vars, serverVars
  <2> QED BY <2>1, <2>2, <2>3, <2>4, <2>5
<1>2. IInv /\ [Next]_vars => [\A a \in Addr : Own(a)]_vars
  BY <1>1
<1>3. IInv /\ [Next]_vars =>
        [\A a \in Addr :
           map[a] # NoClient /\ map'[a] # map[a] =>
             \/ up /\ ~up'
             \/ /\ Head(stack).hook = "disconnect"
                /\ Head(stack).client = map[a]
             \/ "keep" \in broken]_vars
  BY <1>2
<1> QED BY <1>3, Invariance, PTL DEF Spec, ErasedByItsOwnDisconnect

-----------------------------------------------------------------------------
(* The refinement: a subclass that keeps every rule sees the sessions of   *)
(* ClientSessions. Each step of StreamServer, seen through Session, is a   *)
(* step of the abstract protocol or a stutter. (The liveness of            *)
(* ClientSessions is checked by TLC only.)                                 *)

(* Nothing was broken, and whoever is in on_client_disconnect was told.    *)
Disciplined ==
  /\ broken = {}
  /\ \A c \in Running(stack, "disconnect") : told[c] > 0

SInv == IInv /\ RInv /\ Disciplined

-----------------------------------------------------------------------------
(* No step that ends in Settle breaks a rule; and in the loop the subclass *)
(* holds registered clients only, so that an object outlives its hooks     *)
(* just when it is registered.                                             *)
LEMMA SettleIsDisciplined ==
  ASSUME Obeys = Rules, broken = {},
         NEW objs, NEW m, NEW h, NEW s, NEW r \in SUBSET Rules,
         Settle(objs, m, h, s, r)
  PROVE  /\ broken' = {} /\ r = {}
         /\ map' = m /\ held' = h /\ stack' = s
         /\ objects' = objs \cap Owned(m, h, s)
         /\ s = <<>> => h \subseteq Registered(m)
<1>1. {x \in {"keep"} : s = <<>> /\ ~(h \subseteq Registered(m))} \subseteq Rules
  BY DEF Rules
<1> QED BY <1>1 DEF Settle

(* What holds of every state of a disciplined subclass.                    *)
LEMMA Calm ==
  ASSUME SInv
  PROVE  /\ freed = {} /\ objects \subseteq Client
         /\ objects = Owned(map, held, stack)
         /\ \A c \in objects : bevOf[c] # NoAddr
         /\ \A c \in objects : map[bevOf[c]] # NoClient => c \in Registered(map)
         /\ \A c \in Registered(map) :
              /\ c \in objects /\ map[bevOf[c]] = c
              /\ c \notin Running(stack, "connect")
              /\ told[c] > 0 => c \in Running(stack, "disconnect")
         /\ \A c \in Running(stack, "connect") :
              c \in objects /\ c \notin Registered(map) /\ told[c] = 0
         /\ \A c \in Running(stack, "disconnect") :
              map[bevOf[c]] # NoClient /\ told[c] > 0
         /\ Idle => objects = Registered(map)
<1>1. /\ freed = {} /\ objects \subseteq Client
      /\ objects = Owned(map, held, stack)
      /\ \A c \in objects : bevOf[c] # NoAddr
  BY DEF SInv, Disciplined, IInv, TypeOK, Shape, KeepBlamed
<1>2. \A c \in objects : map[bevOf[c]] # NoClient => c \in Registered(map)
  BY OwnKey DEF SInv, Disciplined
<1>3. ASSUME NEW c \in Registered(map)
      PROVE  /\ c \in objects /\ map[bevOf[c]] = c
             /\ c \notin Running(stack, "connect")
             /\ told[c] > 0 => c \in Running(stack, "disconnect")
  <2>1. /\ c \in objects /\ c \in Client /\ c # NoClient /\ map[bevOf[c]] = c
    BY RegisteredKey DEF SInv
  <2> QED BY <2>1 DEF SInv, Disciplined, RInv, NotThrown, IInv, Shape
<1>4. ASSUME NEW c \in Running(stack, "connect")
      PROVE  c \in objects /\ c \notin Registered(map) /\ told[c] = 0
  <2>1. c \in objects /\ c \in Client
    BY RunningExist DEF SInv
  <2>2. told[c] \in 0..2 /\ ~(told[c] > 0)
    BY <2>1 DEF SInv, Disciplined, RInv, NothingKept, IInv, TypeOK
  <2> QED BY <1>3, <2>1, <2>2
<1>5. \A c \in Running(stack, "disconnect") :
        map[bevOf[c]] # NoClient /\ told[c] > 0
  BY DEF SInv, Disciplined, RInv, NotReentered
<1>6. Idle => objects = Registered(map)
  BY <1>1, NoFrames DEF SInv, Disciplined, IInv, KeepBlamed, Idle, Owned
<1> QED BY <1>1, <1>2, <1>3, <1>4, <1>5, <1>6

-----------------------------------------------------------------------------
(* A client whose connection, registration and history stay as they are    *)
(* stays in its session.                                                   *)
LEMMA SessionStays ==
  ASSUME NEW x \in Client,
         bevOf'[x] = bevOf[x], told'[x] = told[x],
         x \in Running(stack', "connect") <=> x \in Running(stack, "connect"),
         x \in Registered(map') <=> x \in Registered(map)
  PROVE  Session(x)' = Session(x)
BY DEF Session

LEMMA Becoming ==
  ASSUME NEW c \in Client, NEW from, NEW to,
         Session(c) = from, Session(c)' = to,
         \A x \in Client \ {c} : Session(x)' = Session(x)
  PROVE  Sessions!Becomes(c, from, to)
BY DEF Sessions!Becomes

LEMMA Stutters ==
  ASSUME \A x \in Client : Session(x)' = Session(x),
         Running(stack', "input") = Running(stack, "input"),
         objects' \ freed' = objects \ freed
  PROVE  UNCHANGED Sessions!vars
BY DEF Sessions!vars

-----------------------------------------------------------------------------
LEMMA PushDisconnect ==
  ASSUME NEW c \in Client, NEW by \in {"libevent", "app"}, NEW s \in Seq(Frame)
  PROVE  LET p == Push("disconnect", c, by, s)
         IN /\ Running(p, "connect") = Running(s, "connect")
            /\ Running(p, "input") = Running(s, "input")
            /\ Running(p, "disconnect") = Running(s, "disconnect") \cup {c}
            /\ InFrames(p) = InFrames(s) \cup {c}
<1> DEFINE d == "disconnect"
<1>1. /\ d \in {"connect", "input", "disconnect"}
      /\ d # "connect" /\ d # "input" /\ d = "disconnect"
  OBVIOUS
<1> HIDE DEF d
<1> DEFINE p == Push(d, c, by, s)
<1>2. \A h, x : x \in Running(p, h) <=> x \in Running(s, h) \/ (x = c /\ h = d)
  BY <1>1, PushHook
<1>3. InFrames(p) = InFrames(s) \cup {c}
  BY <1>1, PushFrames
<1> HIDE DEF p
<1>4. /\ Running(p, "connect") = Running(s, "connect")
      /\ Running(p, "input") = Running(s, "input")
      /\ Running(p, d) = Running(s, d) \cup {c}
  <2>1. \A x : x \in Running(p, "connect") <=> x \in Running(s, "connect")
    BY <1>1, <1>2
  <2>2. \A x : x \in Running(p, "input") <=> x \in Running(s, "input")
    BY <1>1, <1>2
  <2>3. \A x : x \in Running(p, d) <=> x \in Running(s, d) \/ x = c
    BY <1>2
  <2> QED BY <2>1, <2>2, <2>3
<1> QED BY <1>3, <1>4 DEF p, d

(* disconnect_client, called by a hook or from the loop (s is the stack),  *)
(* or because on_client_input(c) threw (its frame is gone from s).         *)
LEMMA DisconnectRefines ==
  ASSUME SInv, Obeys = Rules,
         NEW c \in objects,
         NEW by \in {"libevent", "app"},
         NEW s \in Seq(Frame),
         NEW r \in SUBSET Rules,
         \/ s = stack
         \/ /\ s = <<>>
            /\ InFrames(stack) = {c} /\ Running(stack, "input") = {c}
            /\ Running(stack, "connect") = {}
            /\ Running(stack, "disconnect") = {},
         c \in Running(s, "connect") => "early" \in r,
         c \in Running(s, "disconnect") => "reenter" \in r,
         Disconnect(c, by, s, r)
  PROVE  Disciplined' /\ [Sessions!Next]_(Sessions!vars)
<1>1. /\ c \in Client /\ bevOf[c] # NoAddr /\ freed = {}
      /\ bevOf' = bevOf /\ freed' = freed
  BY Calm DEF Disconnect
<1>2. /\ Running(s, "connect") = Running(stack, "connect")
      /\ Running(s, "disconnect") = Running(stack, "disconnect")
      /\ Running(s, "input") \in {Running(stack, "input"),
                                 Running(stack, "input") \ {c}}
      /\ InFrames(stack) \subseteq InFrames(s) \cup {c}
  <2>1. \A h : Running(<<>>, h) = {}
    BY DEF Running
  <2> QED BY <2>1
<1>3. CASE map[bevOf[c]] # NoClient
  <2> DEFINE p == Push("disconnect", c, by, s)
  <2>1. /\ Settle(objects, map, held, p, r)
        /\ told' = [told EXCEPT ![c] = IF @ < 2 THEN @ + 1 ELSE 2]
    BY <1>3 DEF Disconnect
  <2>2. /\ Running(p, "connect") = Running(s, "connect")
        /\ Running(p, "input") = Running(s, "input")
        /\ Running(p, "disconnect") = Running(s, "disconnect") \cup {c}
        /\ InFrames(p) = InFrames(s) \cup {c}
    BY <1>1, PushDisconnect
  <2> HIDE DEF p
  <2>3. /\ broken' = {} /\ r = {} /\ map' = map /\ stack' = p
        /\ objects' = objects \cap Owned(map, held, p)
    BY <2>1, SettleIsDisciplined DEF SInv, Disciplined
  <2>4. objects' = objects
    BY <1>2, <2>2, <2>3, Calm DEF Owned
  <2>5. /\ c \in Registered(map) /\ c \notin Running(stack, "connect")
        /\ told[c] = 0
    <3>1. c \in Registered(map) /\ c \notin Running(stack, "connect")
      BY <1>3, Calm
    <3>2. ~(told[c] > 0)
      BY <1>2, <2>3, <3>1, Calm
    <3> QED BY <1>1, <3>1, <3>2 DEF SInv, IInv, TypeOK
  <2>6. /\ told'[c] = 1
        /\ \A x \in Client \ {c} : told'[x] = told[x]
    BY <1>1, <2>1, <2>5 DEF SInv, IInv, TypeOK
  <2>7. Disciplined'
    <3>1. \A x \in Running(stack, "disconnect") : x \in Client
      BY RunningExist DEF SInv
    <3> QED BY <1>2, <2>2, <2>3, <2>6, <3>1 DEF SInv, Disciplined
  <2>8. Session(c) = "open" /\ Session(c)' = "leaving"
    BY <1>1, <1>2, <2>2, <2>3, <2>5, <2>6 DEF Session
  <2>9. \A x \in Client \ {c} : Session(x)' = Session(x)
    BY <1>1, <1>2, <2>2, <2>3, <2>6, SessionStays
  <2>10. Sessions!Leave(c)
    BY <1>1, <1>2, <2>2, <2>3, <2>4, <2>8, <2>9, Becoming DEF Sessions!Leave
  <2> QED BY <1>1, <2>7, <2>10 DEF Sessions!Next
<1>4. CASE map[bevOf[c]] = NoClient
  <2>1. Settle(objects, map, held, s, r) /\ told' = told
    BY <1>4 DEF Disconnect
  <2>2. /\ broken' = {} /\ r = {} /\ map' = map /\ stack' = s
        /\ objects' = objects \cap Owned(map, held, s)
    BY <2>1, SettleIsDisciplined DEF SInv, Disciplined
  <2>3. Disciplined'
    BY <1>2, <2>1, <2>2 DEF SInv, Disciplined
  <2>4. \A x \in Client : Session(x)' = Session(x)
    BY <1>1, <1>2, <2>1, <2>2, SessionStays
  <2>5. CASE s = stack
    <3>1. objects' = objects
      BY <2>2, <2>5, Calm
    <3> QED BY <1>1, <2>2, <2>3, <2>4, <2>5, <3>1, Stutters
  <2>6. CASE s # stack
    <3>1. Running(stack, "input") = {c} /\ Running(stack', "input") = {}
      BY <2>2, <2>6 DEF Running
    <3>2. objects' \in {objects, objects \ {c}}
      BY <1>2, <2>2, Calm DEF Owned
    <3>3. Session(c) = "gone"
      <4>1. c \notin Registered(map) /\ c \notin Running(stack, "connect")
        BY <1>2, <1>4, <2>2, RegisteredKey DEF SInv
      <4> QED BY <1>1, <4>1 DEF Session
    <3>4. Sessions!EndInput(c)
      BY <1>1, <2>4, <3>1, <3>2, <3>3 DEF Sessions!EndInput
    <3> QED BY <1>1, <2>3, <3>4 DEF Sessions!Next
  <2> QED BY <2>5, <2>6
<1> QED BY <1>3, <1>4

-----------------------------------------------------------------------------
LEMMA AcceptRefines ==
  ASSUME SInv, Obeys = Rules, NEW c \in Client, NEW a \in Addr, Accept(c, a)
  PROVE  Disciplined' /\ Sessions!Connect(c)
<1> DEFINE p == Push("connect", c, "libevent", <<>>)
<1>1. /\ stack = <<>> /\ bevOf[c] = NoAddr /\ bevOf' = [bevOf EXCEPT ![c] = a]
      /\ Settle(objects \cup {c}, map, held, p, {})
      /\ freed' = freed /\ told' = told /\ freed = {}
  BY Calm DEF Accept, Idle
<1>2. /\ Running(p, "connect") = {c} /\ Running(p, "input") = {}
      /\ Running(p, "disconnect") = {}
  <2>1. \A h, x : x \in Running(p, h) <=> x = c /\ h = "connect"
    BY FirstHook
  <2> HIDE DEF p
  <2>2. \A x : /\ x \in Running(p, "connect") <=> x = c
               /\ x \notin Running(p, "input")
               /\ x \notin Running(p, "disconnect")
    BY <2>1
  <2> QED BY <2>2
<1>3. InFrames(p) = InFrames(stack) \cup {c}
  <2>1. <<>> \in Seq(Frame)
    BY EmptySeq
  <2> QED BY <1>1, <2>1, PushFrames
<1> HIDE DEF p
<1>4. /\ broken' = {} /\ map' = map /\ stack' = p
      /\ objects' = (objects \cup {c}) \cap Owned(map, held, p)
  <2>1. {} \in SUBSET Rules
    OBVIOUS
  <2> QED BY <1>1, <2>1, SettleIsDisciplined DEF SInv, Disciplined
<1>5. objects' = objects \cup {c}
  BY <1>3, <1>4, Calm DEF Owned
<1>6. \A h : Running(stack, h) = {}
  BY <1>1 DEF Running
<1>7. Session(c) = "none" /\ Session(c)' = "connecting"
  <2>1. bevOf'[c] = a /\ a # NoAddr
    BY <1>1, ConstantsAssumption DEF SInv, IInv, TypeOK
  <2>2. bevOf'[c] # NoAddr /\ c \in Running(stack', "connect")
    BY <1>2, <1>4, <2>1, ConstantsAssumption
  <2>3. c \notin Registered(map) /\ c \notin Running(stack, "connect")
    BY <1>1, Calm
  <2>4. Session(c) = "none"
    BY <1>1, <2>3 DEF Session
  <2>5. Session(c)' = "connecting"
    BY <1>4, <2>2, <2>3 DEF Session
  <2> QED BY <2>4, <2>5
<1>8. ASSUME NEW x \in Client \ {c} PROVE Session(x)' = Session(x)
  <2>1. bevOf'[x] = bevOf[x]
    BY <1>1 DEF SInv, IInv, TypeOK
  <2> QED BY <1>1, <1>2, <1>4, <1>6, <2>1, SessionStays
<1>9. Sessions!Connect(c)
  BY <1>1, <1>2, <1>4, <1>5, <1>6, <1>7, <1>8, Becoming DEF Sessions!Connect
<1> QED BY <1>2, <1>4, <1>9 DEF Disciplined

(* In the loop, who has a bufferevent is registered, and not being told.   *)
LEMMA InputRefines ==
  ASSUME SInv, Obeys = Rules, NEW c \in Client, ClientInput(c)
  PROVE  Disciplined' /\ Sessions!BeginInput(c)
<1> DEFINE p == Push("input", c, "libevent", <<>>)
<1>1. stack = <<>> /\ c \in objects /\ freed = {} /\ c \in Registered(map)
  BY Calm DEF ClientInput, Idle
<1>2. map[bevOf[c]] = c /\ c # NoClient
  BY <1>1, RegisteredKey DEF SInv
<1>3. /\ Settle(objects, map, held, p, {})
      /\ UNCHANGED <<bevOf, freed, told>>
  BY <1>2 DEF ClientInput, FreeUnregistered
<1>4. /\ Running(p, "connect") = {} /\ Running(p, "input") = {c}
      /\ Running(p, "disconnect") = {}
  <2>1. \A h, x : x \in Running(p, h) <=> x = c /\ h = "input"
    BY FirstHook
  <2> HIDE DEF p
  <2>2. \A x : /\ x \in Running(p, "input") <=> x = c
               /\ x \notin Running(p, "connect")
               /\ x \notin Running(p, "disconnect")
    BY <2>1
  <2> QED BY <2>2
<1>5. \A h : Running(stack, h) = {}
  BY <1>1 DEF Running
<1>6. InFrames(p) = InFrames(stack) \cup {c}
  <2>1. <<>> \in Seq(Frame)
    BY EmptySeq
  <2> QED BY <1>1, <2>1, PushFrames
<1> HIDE DEF p
<1>7. /\ broken' = {} /\ map' = map /\ stack' = p
      /\ objects' = objects \cap Owned(map, held, p)
  <2>1. {} \in SUBSET Rules
    OBVIOUS
  <2> QED BY <1>3, <2>1, SettleIsDisciplined DEF SInv, Disciplined
<1>8. objects' = objects
  BY <1>6, <1>7, Calm DEF Owned
<1>9. \A x \in Client : Session(x)' = Session(x)
  BY <1>3, <1>4, <1>5, <1>7, SessionStays
<1>10. Session(c) = "open"
  <2>1. ~(told[c] > 0) /\ c \in objects /\ bevOf[c] # NoAddr
    BY <1>1, <1>5, Calm
  <2>2. told[c] = 0
    BY <2>1 DEF SInv, IInv, TypeOK
  <2> QED BY <1>1, <1>5, <2>1, <2>2 DEF Session
<1>11. Sessions!BeginInput(c)
  BY <1>3, <1>4, <1>5, <1>7, <1>8, <1>9, <1>10 DEF Sessions!BeginInput
<1> QED BY <1>4, <1>7, <1>11 DEF Disciplined

LEMMA ErrorRefines ==
  ASSUME SInv, Obeys = Rules, NEW c \in Client, ClientError(c)
  PROVE  Disciplined' /\ [Sessions!Next]_(Sessions!vars)
<1>1. stack = <<>> /\ c \in objects /\ c \in Registered(map)
  BY Calm DEF ClientError, Idle
<1>2. map[bevOf[c]] = c /\ c # NoClient
  BY <1>1, RegisteredKey DEF SInv
<1>3. Disconnect(c, "libevent", <<>>, {})
  BY <1>2 DEF ClientError, FreeUnregistered
<1>4. <<>> \in Seq(Frame) /\ {} \in SUBSET Rules /\ \A h : Running(<<>>, h) = {}
  BY EmptySeq DEF Running
<1> QED BY <1>1, <1>3, <1>4, DisconnectRefines

(* Copying and dropping pointers: an object goes only when it is neither   *)
(* registered nor in a hook, and then its session is over.                 *)
LEMMA PointersRefine ==
  ASSUME SInv, Obeys = Rules, NEW c \in Client, AppRetains(c) \/ AppReleases(c)
  PROVE  Disciplined' /\ [Sessions!Next]_(Sessions!vars)
<1>1. PICK h \in {held \cup {c}, held \ {c}} : Settle(objects, map, h, stack, {})
  BY DEF AppRetains, AppReleases
<1>2. UNCHANGED <<bevOf, freed, told>> /\ freed = {}
  BY Calm DEF AppRetains, AppReleases
<1>3. /\ broken' = {} /\ map' = map /\ stack' = stack
      /\ objects' = objects \cap Owned(map, h, stack)
  <2>1. {} \in SUBSET Rules
    OBVIOUS
  <2> QED BY <1>1, <2>1, SettleIsDisciplined DEF SInv, Disciplined
<1>4. Disciplined'
  BY <1>2, <1>3 DEF SInv, Disciplined
<1>5. \A x \in Client : Session(x)' = Session(x)
  BY <1>2, <1>3, SessionStays
<1>6. CASE objects' = objects
  BY <1>2, <1>3, <1>4, <1>5, <1>6, Stutters
<1>7. CASE objects' # objects
  <2>1. objects' = objects \ {c} /\ c \in objects
    BY <1>3, <1>7, Calm DEF Owned
  <2>2. c \notin Registered(map) /\ c \notin InFrames(stack)
    BY <1>3, <2>1 DEF Owned
  <2>3. c \notin Running(stack, "connect")
    BY <2>2 DEF Running, InFrames
  <2>4. Session(c) = "gone"
    BY <2>1, <2>2, <2>3, Calm DEF Session
  <2>5. Sessions!Release(c)
    BY <1>2, <1>3, <1>5, <2>1, <2>4 DEF Sessions!Release
  <2> QED BY <1>4, <2>5 DEF Sessions!Next
<1> QED BY <1>6, <1>7

-----------------------------------------------------------------------------
(* on_client_connect and on_client_input run with no hook below them.      *)
LEMMA LastHook ==
  ASSUME SInv, InHook, Head(stack).hook \in {"connect", "input"}
  PROVE  LET c == Head(stack).client
         IN /\ c \in objects /\ c \in Client /\ bevOf[c] # NoAddr
            /\ Tail(stack) = <<>> /\ InFrames(stack) = {c}
            /\ Running(stack, "disconnect") = {}
            /\ Head(stack).hook = "connect" =>
                 Running(stack, "connect") = {c} /\ Running(stack, "input") = {}
            /\ Head(stack).hook = "input" =>
                 Running(stack, "input") = {c} /\ Running(stack, "connect") = {}
<1> DEFINE c == Head(stack).client
<1>1. /\ stack \in Seq(Frame) /\ stack # <<>>
      /\ InputAtBottom(stack) /\ ConnectAtBottom(stack)
  BY DEF SInv, IInv, RInv, AnySubclass, TypeOK, Shape, InHook
<1>2. c \in objects /\ c \in Client /\ bevOf[c] # NoAddr
  BY TopClient, Calm DEF SInv
<1>3. Tail(stack) = <<>>
  BY <1>1, TailFrames, PopHook
<1>4. InFrames(stack) = {c}
  BY <1>1, <1>3, TailFrames, NoFrames
<1>5. \A h, x : x \in Running(stack, h) <=> x = c /\ h = Head(stack).hook
  <2>1. \A h, x : x \notin Running(<<>>, h)
    BY RunningMeans
  <2> QED BY <1>1, <1>3, <2>1, PopHook
<1> HIDE DEF c
<1>6. Running(stack, "disconnect") = {}
  BY <1>5
<1>7. ASSUME Head(stack).hook = "connect"
      PROVE  Running(stack, "connect") = {c} /\ Running(stack, "input") = {}
  BY <1>5, <1>7
<1>8. ASSUME Head(stack).hook = "input"
      PROVE  Running(stack, "input") = {c} /\ Running(stack, "connect") = {}
  BY <1>5, <1>8
<1> QED BY <1>2, <1>3, <1>4, <1>6, <1>7, <1>8 DEF c

LEMMA ConnectReturnsRefines ==
  ASSUME SInv, Obeys = Rules, NEW c, c = Head(stack).client, ConnectReturns
  PROVE  Disciplined' /\ [Sessions!Next]_(Sessions!vars)
<1> DEFINE m == IF map[bevOf[c]] = NoClient
                  THEN [map EXCEPT ![bevOf[c]] = c] ELSE map
<1>1. /\ InHook /\ Head(stack).hook = "connect"
      /\ Settle(objects, m, held, Tail(stack), {})
      /\ UNCHANGED <<bevOf, freed, told>>
  BY DEF ConnectReturns
<1>2. /\ c \in objects /\ c \in Client /\ bevOf[c] # NoAddr
      /\ Tail(stack) = <<>> /\ InFrames(stack) = {c}
      /\ Running(stack, "connect") = {c} /\ Running(stack, "input") = {}
  BY <1>1, LastHook
<1>3. /\ told[c] = 0 /\ c \notin Registered(map) /\ freed = {}
      /\ map[bevOf[c]] = NoClient
  BY <1>2, Calm DEF SInv, IInv, Shape
<1>4. Registered(m) = Registered(map) \cup {c}
  <2>1. m = [map EXCEPT ![bevOf[c]] = c]
    BY <1>3
  <2>2. bevOf[c] \in Addr /\ c # NoClient
    BY <1>2, ObjectAddress, ConstantsAssumption DEF SInv
  <2>3. \A a \in Addr : m[a] = IF a = bevOf[c] THEN c ELSE map[a]
    BY <2>1, <2>2 DEF SInv, IInv, TypeOK
  <2> HIDE DEF m
  <2>4. \A x : x \in Registered(m) <=> x # NoClient /\ \E a \in Addr : m[a] = x
    BY DEF Registered
  <2>5. \A x : x \in Registered(map) <=> x # NoClient /\ \E a \in Addr : map[a] = x
    BY DEF Registered
  <2>6. c \in Registered(m)
    BY <2>2, <2>3, <2>4
  <2>7. ASSUME NEW x \in Registered(map) PROVE x \in Registered(m)
    <3>1. PICK a \in Addr : map[a] = x /\ x # NoClient
      BY <2>5
    <3>2. a # bevOf[c]
      BY <1>3, <3>1
    <3> QED BY <2>3, <2>4, <3>1, <3>2
  <2>8. ASSUME NEW x \in Registered(m), x # c PROVE x \in Registered(map)
    BY <2>3, <2>4, <2>5, <2>8
  <2> QED BY <2>6, <2>7, <2>8
<1> HIDE DEF m
<1>5. /\ broken' = {} /\ map' = m /\ stack' = <<>>
      /\ objects' = objects \cap Owned(m, held, <<>>)
  <2>1. {} \in SUBSET Rules
    OBVIOUS
  <2>2. Settle(objects, m, held, <<>>, {})
    BY <1>1, <1>2
  <2> QED BY <2>1, <2>2, SettleIsDisciplined DEF SInv, Disciplined
<1>6. \A h : Running(stack', h) = {}
  BY <1>5 DEF Running
<1>7. objects' = objects
  BY <1>2, <1>4, <1>5, Calm DEF Owned
<1>8. Session(c) = "connecting" /\ Session(c)' = "open"
  <2>1. Session(c) = "connecting"
    BY <1>2, <1>3 DEF Session
  <2>2. c \in Registered(map') /\ bevOf'[c] # NoAddr /\ told'[c] = 0
    BY <1>1, <1>2, <1>3, <1>4, <1>5
  <2>3. c \notin Running(stack', "connect")
    BY <1>6
  <2>4. Session(c)' = "open"
    BY <2>2, <2>3 DEF Session
  <2> QED BY <2>1, <2>4
<1>9. \A x \in Client \ {c} : Session(x)' = Session(x)
  BY <1>1, <1>2, <1>4, <1>5, <1>6, SessionStays
<1>10. Sessions!Open(c)
  BY <1>1, <1>2, <1>6, <1>7, <1>8, <1>9, Becoming DEF Sessions!Open
<1> QED BY <1>2, <1>5, <1>6, <1>10 DEF Disciplined, Sessions!Next

(* on_client_connect throws, or on_client_input returns.                   *)
LEMMA LastHookRefines ==
  ASSUME SInv, Obeys = Rules, NEW c, c = Head(stack).client,
         ConnectThrows \/ InputReturns
  PROVE  Disciplined' /\ [Sessions!Next]_(Sessions!vars)
<1>1. /\ InHook /\ Head(stack).hook \in {"connect", "input"}
      /\ Settle(objects, map, held, Tail(stack), {})
      /\ UNCHANGED <<bevOf, freed, told>>
  BY DEF ConnectThrows, InputReturns
<1>2. /\ c \in objects /\ c \in Client /\ bevOf[c] # NoAddr
      /\ Tail(stack) = <<>> /\ InFrames(stack) = {c}
      /\ Head(stack).hook = "connect" =>
           Running(stack, "connect") = {c} /\ Running(stack, "input") = {}
      /\ Head(stack).hook = "input" =>
           Running(stack, "input") = {c} /\ Running(stack, "connect") = {}
  BY <1>1, LastHook
<1>3. /\ broken' = {} /\ map' = map /\ stack' = <<>> /\ freed = {}
      /\ objects' = objects \cap Owned(map, held, <<>>)
      /\ held \subseteq Registered(map)
  <2>1. {} \in SUBSET Rules
    OBVIOUS
  <2>2. Settle(objects, map, held, <<>>, {}) /\ broken = {}
    BY <1>1, <1>2 DEF SInv, Disciplined
  <2>3. freed = {}
    BY Calm
  <2> QED BY <2>1, <2>2, <2>3, SettleIsDisciplined
<1>4. \A h : Running(stack', h) = {}
  BY <1>3 DEF Running
<1>5. Disciplined'
  BY <1>3, <1>4 DEF Disciplined
<1>6. objects' = objects \cap Registered(map) /\ objects \ {c} \subseteq objects'
  BY <1>2, <1>3, NoFrames, Calm DEF Owned
<1>7. ASSUME NEW x \in Client, x # c \/ Head(stack).hook = "input"
      PROVE  Session(x)' = Session(x)
  BY <1>1, <1>2, <1>3, <1>4, <1>7, SessionStays
<1>8. CASE Head(stack).hook = "connect"
  <2>1. c \notin Registered(map) /\ c \in Running(stack, "connect")
    BY <1>2, <1>8, Calm
  <2>2. Session(c) = "connecting" /\ Session(c)' = "gone"
    BY <1>1, <1>2, <1>3, <1>4, <2>1 DEF Session
  <2>3. objects' = objects \ {c}
    BY <1>6, <2>1
  <2>4. Sessions!Refuse(c)
    BY <1>1, <1>2, <1>3, <1>4, <1>7, <1>8, <2>2, <2>3, Becoming
       DEF Sessions!Refuse
  <2> QED BY <1>2, <1>5, <2>4 DEF Sessions!Next
<1>9. CASE Head(stack).hook = "input"
  <2>1. c \notin objects' => Session(c) = "gone"
    BY <1>2, <1>6, <1>9 DEF Session
  <2>2. objects' \in {objects, objects \ {c}}
    BY <1>2, <1>6
  <2>3. Sessions!EndInput(c)
    BY <1>1, <1>2, <1>3, <1>4, <1>7, <1>9, <2>1, <2>2 DEF Sessions!EndInput
  <2> QED BY <1>2, <1>5, <2>3 DEF Sessions!Next
<1> QED BY <1>1, <1>8, <1>9

LEMMA DisconnectReturnsRefines ==
  ASSUME SInv, Obeys = Rules, NEW c, c = Head(stack).client, DisconnectReturns
  PROVE  Disciplined' /\ [Sessions!Next]_(Sessions!vars)
<1> DEFINE m == [map EXCEPT ![bevOf[c]] = NoClient]
           t == Tail(stack)
<1>1. /\ InHook /\ Head(stack).hook = "disconnect"
      /\ UNCHANGED <<bevOf, freed, told>>
      /\ stack \in Seq(Frame) /\ stack # <<>>
  BY DEF DisconnectReturns, InHook, SInv, IInv, TypeOK
<1>2. \A h, x : x \in Running(stack, h)
                 <=> x \in Running(t, h) \/ (x = c /\ h = "disconnect")
  BY <1>1, PopHook
<1>3. InFrames(stack) = InFrames(t) \cup {c}
  BY <1>1, TailFrames
<1>4. c \in Running(stack, "disconnect") /\ c \in objects /\ c \in Client
  BY <1>2, RunningExist DEF SInv
<1>5. /\ map[bevOf[c]] # NoClient /\ told[c] > 0 /\ freed = {}
      /\ c \in Registered(map) /\ map[bevOf[c]] = c /\ bevOf[c] # NoAddr
      /\ c \notin Running(stack, "connect")
  BY <1>4, Calm
<1>6. Settle(objects, m, held, t, {})
  BY <1>5 DEF DisconnectReturns
<1>7. Registered(m) = Registered(map) \ {c}
  <2>1. bevOf[c] \in Addr
    BY <1>4, ObjectAddress DEF SInv
  <2>2. \A a \in Addr : m[a] = IF a = bevOf[c] THEN NoClient ELSE map[a]
    BY <2>1 DEF SInv, IInv, TypeOK
  <2> HIDE DEF m
  <2>3. \A x : x \in Registered(m) <=> x # NoClient /\ \E a \in Addr : m[a] = x
    BY DEF Registered
  <2>4. \A x : x \in Registered(map) <=> x # NoClient /\ \E a \in Addr : map[a] = x
    BY DEF Registered
  <2>5. ASSUME NEW x \in Registered(m) PROVE x \in Registered(map) \ {c}
    <3>1. PICK a \in Addr : m[a] = x /\ x # NoClient
      BY <2>3
    <3>2. a # bevOf[c] /\ map[a] = x
      BY <2>2, <3>1
    <3>3. bevOf[x] = a
      BY <3>1, <3>2 DEF SInv, IInv, Shape
    <3> QED BY <2>4, <3>1, <3>2, <3>3
  <2>6. ASSUME NEW x \in Registered(map), x # c PROVE x \in Registered(m)
    <3>1. PICK a \in Addr : map[a] = x /\ x # NoClient
      BY <2>4
    <3>2. a # bevOf[c]
      BY <1>5, <2>6, <3>1
    <3> QED BY <2>2, <2>3, <3>1, <3>2
  <2> QED BY <2>5, <2>6
<1> HIDE DEF m, t
<1>8. /\ broken' = {} /\ map' = m /\ stack' = t
      /\ objects' = objects \cap Owned(m, held, t)
  <2>1. {} \in SUBSET Rules
    OBVIOUS
  <2> QED BY <1>6, <2>1, SettleIsDisciplined DEF SInv, Disciplined
<1>9. /\ Running(stack', "input") = Running(stack, "input")
      /\ Running(stack', "connect") = Running(stack, "connect")
      /\ Running(stack', "disconnect") \subseteq Running(stack, "disconnect")
  <2>1. \A x : x \in Running(t, "input") <=> x \in Running(stack, "input")
    BY <1>2
  <2>2. \A x : x \in Running(t, "connect") <=> x \in Running(stack, "connect")
    BY <1>2
  <2> QED BY <1>2, <1>8, <2>1, <2>2
<1>10. objects' \in {objects, objects \ {c}}
  BY <1>3, <1>7, <1>8, Calm DEF Owned
<1>11. Session(c) = "leaving" /\ Session(c)' = "gone"
  <2>1. told[c] # 0
    BY <1>5
  <2>2. Session(c) = "leaving"
    BY <1>5, <2>1 DEF Session
  <2>3. /\ bevOf'[c] # NoAddr /\ c \notin Registered(map')
        /\ c \notin Running(stack', "connect")
    BY <1>1, <1>5, <1>7, <1>8, <1>9
  <2>4. Session(c)' = "gone"
    BY <2>3 DEF Session
  <2> QED BY <2>2, <2>4
<1>12. \A x \in Client \ {c} : Session(x)' = Session(x)
  BY <1>1, <1>7, <1>8, <1>9, SessionStays
<1>13. Sessions!Left(c)
  BY <1>1, <1>4, <1>5, <1>9, <1>10, <1>11, <1>12, Becoming DEF Sessions!Left
<1>14. Disciplined'
  BY <1>1, <1>8, <1>9 DEF SInv, Disciplined
<1> QED BY <1>4, <1>13, <1>14 DEF Sessions!Next

-----------------------------------------------------------------------------
(* Every client goes with the server, for none is held beyond the map.     *)
LEMMA DestroyRefines ==
  ASSUME SInv, Obeys = Rules, DestroyServer
  PROVE  Disciplined' /\ Sessions!Shutdown
<1>1. /\ Idle /\ stack = <<>> /\ UNCHANGED <<bevOf, freed, told>>
      /\ Settle(objects, NoClients, held, <<>>, {})
  BY DEF DestroyServer, Idle
<1>2. /\ broken' = {} /\ map' = NoClients /\ stack' = <<>>
      /\ objects' = objects \cap Owned(NoClients, held, <<>>)
      /\ held \subseteq Registered(NoClients)
  <2>1. {} \in SUBSET Rules
    OBVIOUS
  <2> QED BY <1>1, <2>1, SettleIsDisciplined DEF SInv, Disciplined
<1>3. objects' = {} /\ Registered(map') = {}
  BY <1>2, NoneRegistered, NoFrames DEF Owned
<1>4. \A h : Running(stack, h) = {} /\ Running(stack', h) = {}
  BY <1>1, <1>2 DEF Running
<1>5. \A x \in Client : Session(x) = "none" <=> bevOf[x] = NoAddr
  <2>1. \A x \in Registered(map) : bevOf[x] # NoAddr
    BY Calm
  <2> QED BY <1>4, <2>1 DEF Session
<1>6. \A x \in Client :
        Session(x)' = IF Session(x) = "none" THEN "none" ELSE "gone"
  BY <1>1, <1>3, <1>4, <1>5 DEF Session
<1>7. Sessions!Shutdown
  BY <1>3, <1>4, <1>6 DEF Sessions!Shutdown
<1>8. Disciplined'
  BY <1>2, <1>4 DEF Disciplined
<1> QED BY <1>7, <1>8

(* So libevent has nothing to report after it.                             *)
LEMMA NoLateEvents ==
  ASSUME SInv, Down, NEW c \in Client
  PROVE  ~LateEvent(c)
<1> SUFFICES ASSUME LateEvent(c) PROVE FALSE
  OBVIOUS
<1>1. Idle /\ ~up /\ c \in objects
  BY DEF LateEvent
<1>2. objects = Registered(NoClients)
  BY <1>1, Calm DEF Down
<1> QED BY <1>1, <1>2, NoneRegistered

LEMMA InitRefines == Init => Disciplined /\ Sessions!Init
<1> SUFFICES ASSUME Init PROVE Disciplined /\ Sessions!Init
  OBVIOUS
<1>1. /\ \A h : Running(stack, h) = {}
      /\ Registered(map) = {}
  BY DEF Init, Running, Registered
<1>2. \A x \in Client : Session(x) = "none"
  BY <1>1 DEF Init, Session
<1> QED BY <1>1, <1>2 DEF Init, Disciplined, Sessions!Init

LEMMA NextRefines ==
  ASSUME SInv, Down, Obeys = Rules, [Next]_vars
  PROVE  Disciplined' /\ [Sessions!Next]_(Sessions!vars)
<1> DEFINE Goal == Disciplined' /\ [Sessions!Next]_(Sessions!vars)
<1>1. ASSUME UNCHANGED <<bevOf, objects, freed, map, stack, told, broken>>
      PROVE  Goal
  <2>1. \A x \in Client : Session(x)' = Session(x)
    BY <1>1, SessionStays
  <2>2. UNCHANGED Sessions!vars
    BY <1>1, <2>1, Stutters
  <2> QED BY <1>1, <2>2 DEF SInv, Disciplined
<1>2. ASSUME NEW c \in Client, NEW a \in Addr, Accept(c, a) PROVE Goal
  BY <1>2, AcceptRefines DEF Sessions!Next
<1>3. CASE AcceptThrows
  BY <1>1, <1>3 DEF AcceptThrows, serverVars, historyVars
<1>4. ASSUME NEW c \in Client, ClientInput(c) PROVE Goal
  BY <1>4, InputRefines DEF Sessions!Next
<1>5. ASSUME NEW c \in Client, ClientError(c) PROVE Goal
  BY <1>5, ErrorRefines
<1>6. ASSUME NEW c \in Client, ClientOtherEvent(c) PROVE Goal
  <2>1. Idle /\ c \in objects /\ map[bevOf[c]] = NoClient
    BY <1>6 DEF ClientOtherEvent, FreeUnregistered
  <2>2. c \in Registered(map)
    BY <2>1, Calm
  <2> QED BY <2>1, <2>2, RegisteredKey DEF SInv
<1>7. ASSUME NEW c \in Client, PeerCloses(c) PROVE Goal
  BY <1>1, <1>7 DEF PeerCloses, serverVars, historyVars
<1>8. ASSUME NEW c \in Client, AppRetains(c) \/ AppReleases(c) PROVE Goal
  BY <1>8, PointersRefine
<1>9. ASSUME NEW c \in Client, AppDisconnects(c) PROVE Goal
  <2> DEFINE r == {x \in {"early"} : c \in Running(stack, "connect")}
                    \cup {x \in {"reenter"} : c \in Running(stack, "disconnect")}
  <2>1. Disconnect(c, "app", stack, r) /\ c \in Nameable
    BY <1>9 DEF AppDisconnects
  <2>2. c \in objects /\ stack \in Seq(Frame)
    BY <2>1 DEF Nameable, Owned, SInv, IInv, TypeOK, Shape
  <2>3. /\ r \in SUBSET Rules
        /\ c \in Running(stack, "connect") => "early" \in r
        /\ c \in Running(stack, "disconnect") => "reenter" \in r
    BY DEF Rules
  <2> HIDE DEF r
  <2> QED BY <2>1, <2>2, <2>3, DisconnectRefines
<1>10. PICK c : c = Head(stack).client
  OBVIOUS
<1>11. CASE ConnectReturns
  BY <1>10, <1>11, ConnectReturnsRefines
<1>12. CASE ConnectThrows \/ InputReturns
  BY <1>10, <1>12, LastHookRefines
<1>13. CASE InputThrows
  <2>1. /\ InHook /\ Head(stack).hook = "input"
        /\ Disconnect(c, "libevent", Tail(stack), {})
    BY <1>10, <1>13 DEF InputThrows
  <2>2. /\ c \in objects /\ Tail(stack) = <<>> /\ InFrames(stack) = {c}
        /\ Running(stack, "input") = {c} /\ Running(stack, "connect") = {}
        /\ Running(stack, "disconnect") = {}
    BY <1>10, <2>1, LastHook
  <2>3. /\ <<>> \in Seq(Frame) /\ {} \in SUBSET Rules
        /\ \A h : Running(<<>>, h) = {}
    BY EmptySeq DEF Running
  <2> QED BY <2>1, <2>2, <2>3, DisconnectRefines
<1>14. CASE DisconnectReturns
  BY <1>10, <1>14, DisconnectReturnsRefines
<1>15. CASE DisconnectThrows
  <2>1. Settle(objects, map, held, Tail(stack), {"throw"}) \/ "throw" \notin Obeys
    BY <1>15 DEF DisconnectThrows
  <2>2. {"throw"} \in SUBSET Rules /\ "throw" \in Obeys
    BY DEF Rules
  <2> QED BY <2>1, <2>2, SettleIsDisciplined DEF SInv, Disciplined
<1>16. CASE UNCHANGED vars
  BY <1>1, <1>16 DEF vars, serverVars, historyVars
<1>17. CASE DestroyServer
  BY <1>17, DestroyRefines DEF Sessions!Next
<1>18. ASSUME NEW d \in Client, LateEvent(d) PROVE Goal
  BY <1>18, NoLateEvents
<1> QED
  BY <1>2, <1>3, <1>4, <1>5, <1>6, <1>7, <1>8, <1>9, <1>11, <1>12, <1>13,
     <1>14, <1>15, <1>16, <1>17, <1>18 DEF Next, HookEnds

(* To a subclass that keeps every rule the server is the abstract protocol:*)
(* connect, input while open and one call at a time, disconnect once, and  *)
(* no resources released before that; and all are gone with the server.    *)
THEOREM RefinesSessions ==
  ASSUME Obeys = Rules
  PROVE  Spec => Sessions!Safety
<1>1. Init => Disciplined /\ Sessions!Init
  BY InitRefines
<1>2. IInv /\ RInv /\ Disciplined /\ Down /\ [Next]_vars
        => Disciplined' /\ [Sessions!Next]_(Sessions!vars)
  BY NextRefines DEF SInv
<1> QED BY <1>1, <1>2, RulesInvariance, DownHolds, PTL DEF Spec, Sessions!Safety
=============================================================================
