------------------------ MODULE CallbackEventsProofs ------------------------
(***************************************************************************)
(* Theorems about CallbackEvents, for any number of objects, events and    *)
(* calls of once.                                                          *)
(*                                                                         *)
(* Why an event calls its own function: until an owner is moved, libevent's*)
(* idea of who created the event is also who owns it, and the function of  *)
(* that object is still the one it was constructed with (Tied). Assignment *)
(* and destruction, which replace the function, free the event first; moves*)
(* from an object that owns nothing take a function no event calls.        *)
(***************************************************************************)
EXTENDS CallbackEvents, TLAPS

(* Objects point to what was allocated, or to null.                        *)
Known == \A o \in exists : res[o] \in born \cup {Null}

(* The object that e calls back owns it and has its function.              *)
Tied(e) ==
  /\ ctx[e] \in exists
  /\ own[ctx[e]]
  /\ res[ctx[e]] = e
  /\ fn[ctx[e]] = e

AllTied == "move" \notin misuse => \A e \in alive : Tied(e)

CallsReach == crash \in {"dangling_call", "empty_call"} => "move" \in misuse

(* What runs was taken from the queue.                                     *)
RunsOnce ==
  crash = "none" =>
    \A k \in Once : runs = [once |-> k] => k \notin queued

IInv ==
  /\ TypeOK
  /\ Known
  /\ AllTied
  /\ CallsOwnFunction
  /\ CallsReach
  /\ OnceDeleted
  /\ RunsOnce

-----------------------------------------------------------------------------
(* How the class Event differs from others.                                *)
LEMMA EventHas ==
  ASSUME class = "Event"
  PROVE  /\ Handle!Has("null_safe") /\ Handle!Has("frees_on_assign")
         /\ Handle!Has("frees_on_destroy") /\ Handle!Has("called_back")
         /\ ~Handle!Has("unchecked")
BY DEF Handle!Has, Handle!Features, Handle!EventFeatures

LEMMA IsEvent ==
  ASSUME IInv
  PROVE  class = "Event"
BY DEF IInv, TypeOK, Handle!TypeOK

(* A function in an object is a record of what runs, or it is not.         *)
LEMMA RunKinds ==
  ASSUME NEW k \in Once
  PROVE  [once |-> k] \notin EventRun /\ [once |-> k] # NoFn
BY CallbackAssumption DEF EventRun

(* What has to be shown of a step that changes objects: the state of the   *)
(* objects and events; the rest is the same for all of these.              *)
ObjectsFine ==
  /\ Handle!TypeOK'
  /\ fn' \in [Obj -> Event \cup {NoFn}]
  /\ persistent' \subseteq born'
  /\ later' \subseteq born'
  /\ Known'
  /\ AllTied'
  /\ misuse \subseteq misuse'

LEMMA ObjectsKeep ==
  ASSUME IInv, NEW newFn, NEW s, Objects(newFn, s), ObjectsFine
  PROVE  IInv'
<1>1. /\ crash = "none"
      /\ crash' \in {"none", "displaced", "base_gone"}
      /\ armed' \subseteq alive'
      /\ UNCHANGED <<heap, queued, base, runs>>
  BY DEF Objects, Displaces, onceVars
<1>2. TypeOK'
  BY <1>1 DEF IInv, TypeOK, ObjectsFine
<1>3. CallsOwnFunction' /\ CallsReach'
  BY <1>1 DEF IInv, ObjectsFine, CallsOwnFunction, CallsReach
<1>4. OnceDeleted' /\ RunsOnce'
  BY <1>1 DEF IInv, OnceDeleted, RunsOnce
<1> QED
  BY <1>2, <1>3, <1>4 DEF IInv, ObjectsFine

-----------------------------------------------------------------------------
(* A new event calls back its new object.                                  *)
LEMMA ConstructKeeps ==
  ASSUME IInv, NEW o \in Obj, NEW e \in Event, NEW persist \in BOOLEAN,
         Construct(o, e, persist), later' \subseteq later \cup {e}
  PROVE  IInv'
<1>1. /\ o \notin exists /\ e \notin born
      /\ exists' = exists \cup {o}
      /\ res' = [res EXCEPT ![o] = e]
      /\ own' = [own EXCEPT ![o] = TRUE]
      /\ born' = born \cup {e} /\ alive' = alive \cup {e}
      /\ ctx' = [ctx EXCEPT ![e] = o]
      /\ fault' \in BOOLEAN /\ misuse' = misuse /\ class' = class
  BY IsEvent, EventHas
     DEF IInv, TypeOK, Handle!TypeOK, Construct, Handle!Construct,
         Handle!Step, Handle!Put
<1>2. fn' = [fn EXCEPT ![o] = e] /\ persistent' \subseteq persistent \cup {e}
  BY DEF Construct, Objects
<1>3. Handle!TypeOK'
  BY <1>1 DEF IInv, TypeOK, Handle!TypeOK
<1>4. /\ fn' \in [Obj -> Event \cup {NoFn}]
      /\ persistent' \subseteq born' /\ later' \subseteq born'
  BY <1>1, <1>2 DEF IInv, TypeOK
<1>5. Known'
  BY <1>1 DEF IInv, Known, TypeOK, Handle!TypeOK
<1>6. AllTied'
  BY <1>1, <1>2, CallbackAssumption
     DEF IInv, AllTied, Tied, TypeOK, Handle!TypeOK
<1> QED
  BY <1>1, <1>3, <1>4, <1>5, <1>6, ObjectsKeep DEF ObjectsFine, Construct

(* Objects without ownership are not called back by a live event.          *)
LEMMA BorrowersKeep ==
  ASSUME IInv, NEW o \in Obj, NEW p \in Obj, ConstructEmpty(o) \/ Copy(o, p)
  PROVE  IInv'
<1> DEFINE r == IF ConstructEmpty(o) THEN Null ELSE res[p]
           f == IF ConstructEmpty(o) THEN NoFn ELSE fn[p]
<1>1. r \in born \cup {Null} /\ f \in Event \cup {NoFn} /\ o \notin exists
  BY DEF IInv, Known, TypeOK, ConstructEmpty, Copy, Handle!ConstructEmpty,
         Handle!Copy
<1>2. /\ Handle!Step(o, exists \cup {o}, Handle!Put(res, o, r),
                     Handle!Put(own, o, FALSE), {}, {})
      /\ ctx' = ctx
      /\ Objects([fn EXCEPT ![o] = f], {})
      /\ UNCHANGED <<persistent, later>>
  BY DEF ConstructEmpty, Copy, Handle!ConstructEmpty, Handle!Copy
<1> HIDE DEF r, f
<1>3. /\ exists' = exists \cup {o}
      /\ res' = [res EXCEPT ![o] = r] /\ own' = [own EXCEPT ![o] = FALSE]
      /\ born' = born /\ alive' = alive
      /\ fault' \in BOOLEAN /\ misuse' = misuse /\ class' = class
  BY <1>1, <1>2, CallbackAssumption
     DEF IInv, TypeOK, Handle!TypeOK, Handle!Step, Handle!Put
<1>4. fn' = [fn EXCEPT ![o] = f]
  BY <1>2 DEF Objects
<1>5. Handle!TypeOK'
  BY <1>1, <1>2, <1>3 DEF IInv, TypeOK, Handle!TypeOK
<1>6. /\ fn' \in [Obj -> Event \cup {NoFn}]
      /\ persistent' \subseteq born' /\ later' \subseteq born'
  BY <1>1, <1>2, <1>3, <1>4 DEF IInv, TypeOK
<1>7. Known'
  BY <1>1, <1>3 DEF IInv, Known, TypeOK, Handle!TypeOK
<1>8. AllTied'
  BY <1>1, <1>2, <1>3, <1>4
     DEF IInv, AllTied, Tied, TypeOK, Handle!TypeOK
<1> QED
  BY <1>2, <1>3, <1>5, <1>6, <1>7, <1>8, ObjectsKeep DEF ObjectsFine

(* Moving to a new object: the source may own, which is a "move".          *)
LEMMA MoveKeeps ==
  ASSUME IInv, NEW o \in Obj, NEW p \in Obj, Move(o, p)
  PROVE  IInv'
<1>1. p \in exists /\ res[p] \in born \cup {Null}
  BY DEF Move, Handle!Move, IInv, Known
<1>2. /\ o \notin exists
      /\ exists' = exists \cup {o}
      /\ res' = [res EXCEPT ![o] = res[p]]
      /\ own' = [[own EXCEPT ![o] = own[p]] EXCEPT ![p] = FALSE]
      /\ born' = born /\ alive' = alive /\ ctx' = ctx
      /\ fault' \in BOOLEAN /\ class' = class
      /\ misuse' = misuse \cup {m \in {"move"} : own[p]}
  BY <1>1, CallbackAssumption
     DEF IInv, TypeOK, Handle!TypeOK, Move, Handle!Move, Handle!Step,
         Handle!Put
<1>3. /\ fn' = [fn EXCEPT ![o] = fn[p], ![p] = NoFn]
      /\ UNCHANGED <<persistent, later>>
  BY DEF Move, Objects
<1>4. Handle!TypeOK'
  BY <1>2 DEF IInv, TypeOK, Handle!TypeOK, Handle!Misuses
<1>5. /\ fn' \in [Obj -> Event \cup {NoFn}]
      /\ persistent' \subseteq born' /\ later' \subseteq born'
  BY <1>2, <1>3 DEF IInv, TypeOK
<1>6. Known'
  BY <1>1, <1>2 DEF IInv, Known, TypeOK, Handle!TypeOK
<1>7. AllTied'
  <2> SUFFICES ASSUME "move" \notin misuse', NEW e \in alive
               PROVE  Tied(e)'
    BY <1>2 DEF AllTied
  <2>1. ~own[p] /\ Tied(e)
    BY <1>2 DEF IInv, AllTied
  <2>2. ctx[e] \notin {o, p} /\ ctx[e] \in Obj
    BY <1>2, <2>1 DEF Tied, IInv, TypeOK, Handle!TypeOK
  <2> QED
    BY <1>2, <1>3, <2>1, <2>2 DEF Tied, IInv, TypeOK, Handle!TypeOK
<1> QED
  BY <1>2, <1>4, <1>5, <1>6, <1>7, ObjectsKeep DEF ObjectsFine, Move

(* What an owner is tied to is freed when it is assigned to or destroyed.  *)
Released(o) == {r \in {res[o]} : own[o] /\ r # Null}

LEMMA ReleasedIs ==
  ASSUME IInv, NEW o \in Obj
  PROVE  /\ Handle!Overwritten(o) = Released(o)
         /\ {r \in Handle!Freed(o) : Handle!Has("frees_on_destroy")}
              = Released(o)
BY IsEvent, EventHas DEF Handle!Overwritten, Handle!Freed, Released

(* An event that is left alive is tied to an object that lost nothing.     *)
LEMMA OthersTied ==
  ASSUME IInv, NEW o \in Obj, NEW p \in Obj, ~own[p] \/ p = o,
         "move" \notin misuse, NEW e \in alive, e \notin Released(o)
  PROVE  Tied(e) /\ ctx[e] \notin {o, p} /\ ctx[e] \in Obj
<1>1. Tied(e)
  BY DEF IInv, AllTied
<1>2. e # Null
  BY CallbackAssumption DEF IInv, TypeOK, Handle!TypeOK
<1> QED
  BY <1>1, <1>2 DEF Tied, Released, IInv, TypeOK, Handle!TypeOK

(* Assignment by copy: the target frees its event and gets a function.     *)
LEMMA CopyAssignKeeps ==
  ASSUME IInv, NEW o \in Obj, NEW p \in Obj, CopyAssign(o, p)
  PROVE  IInv'
<1>1. p \in exists /\ o \in exists /\ res[p] \in born \cup {Null}
  BY DEF CopyAssign, Handle!CopyAssign, IInv, Known
<1>2. /\ exists' = exists
      /\ res' = [res EXCEPT ![o] = res[p]]
      /\ own' = [own EXCEPT ![o] = FALSE]
      /\ born' = born /\ alive' = alive \ Released(o) /\ ctx' = ctx
      /\ fault' \in BOOLEAN /\ class' = class
      /\ misuse' = misuse \cup Handle!AssignMisuse(o, p)
  BY <1>1, ReleasedIs, CallbackAssumption
     DEF IInv, TypeOK, Handle!TypeOK, CopyAssign, Handle!CopyAssign,
         Handle!Step, Handle!Put
<1>3. fn' = [fn EXCEPT ![o] = fn[p]] /\ UNCHANGED <<persistent, later>>
  BY DEF CopyAssign, Objects
<1>4. Handle!TypeOK'
  BY <1>2 DEF IInv, TypeOK, Handle!TypeOK, Handle!Misuses,
              Handle!AssignMisuse
<1>5. /\ fn' \in [Obj -> Event \cup {NoFn}]
      /\ persistent' \subseteq born' /\ later' \subseteq born'
  BY <1>2, <1>3 DEF IInv, TypeOK
<1>6. Known'
  BY <1>1, <1>2 DEF IInv, Known, TypeOK, Handle!TypeOK
<1>7. AllTied'
  <2> SUFFICES ASSUME "move" \notin misuse', NEW e \in alive'
               PROVE  Tied(e)'
    BY DEF AllTied
  <2>1. Tied(e) /\ ctx[e] # o /\ ctx[e] \in Obj
    BY <1>2, OthersTied
  <2> QED
    BY <1>2, <1>3, <2>1 DEF Tied, IInv, TypeOK, Handle!TypeOK
<1> QED
  BY <1>2, <1>4, <1>5, <1>6, <1>7, ObjectsKeep DEF ObjectsFine, CopyAssign

(* Assignment by move: the source loses its function, too.                 *)
LEMMA MoveAssignKeeps ==
  ASSUME IInv, NEW o \in Obj, NEW p \in Obj, MoveAssign(o, p)
  PROVE  IInv'
<1>1. p \in exists /\ o \in exists /\ res[p] \in born \cup {Null}
  BY DEF MoveAssign, Handle!MoveAssign, IInv, Known
<1>2. /\ exists' = exists
      /\ res' = [res EXCEPT ![o] = res[p]]
      /\ own' = [[own EXCEPT ![o] = own[p]] EXCEPT ![p] = FALSE]
      /\ born' = born /\ alive' = alive \ Released(o) /\ ctx' = ctx
      /\ fault' \in BOOLEAN /\ class' = class
      /\ misuse' = misuse \cup (Handle!AssignMisuse(o, p)
                                  \cup {m \in {"move"} : own[p]})
  BY <1>1, ReleasedIs, CallbackAssumption
     DEF IInv, TypeOK, Handle!TypeOK, MoveAssign, Handle!MoveAssign,
         Handle!Step, Handle!Put
<1>3. /\ \/ fn' = [fn EXCEPT ![o] = fn[p], ![p] = NoFn]
         \/ fn' = fn
      /\ UNCHANGED <<persistent, later>>
  BY DEF MoveAssign, Objects
<1>4. Handle!TypeOK'
  BY <1>2 DEF IInv, TypeOK, Handle!TypeOK, Handle!Misuses,
              Handle!AssignMisuse
<1>5. /\ fn' \in [Obj -> Event \cup {NoFn}]
      /\ persistent' \subseteq born' /\ later' \subseteq born'
  BY <1>2, <1>3 DEF IInv, TypeOK
<1>6. Known'
  BY <1>1, <1>2 DEF IInv, Known, TypeOK, Handle!TypeOK
<1>7. AllTied'
  <2> SUFFICES ASSUME "move" \notin misuse', NEW e \in alive'
               PROVE  Tied(e)'
    BY DEF AllTied
  <2>1. ~own[p]
    BY <1>2
  <2>2. Tied(e) /\ ctx[e] \notin {o, p} /\ ctx[e] \in Obj
    BY <1>2, <2>1, OthersTied
  <2> QED
    BY <1>2, <1>3, <2>2 DEF Tied, IInv, TypeOK, Handle!TypeOK
<1>8. (\E f, s : Objects(f, s)) /\ misuse \subseteq misuse'
  BY <1>2 DEF MoveAssign
<1> QED
  BY <1>2, <1>4, <1>5, <1>6, <1>7, <1>8, ObjectsKeep DEF ObjectsFine

(* The destructor frees the event.                                         *)
LEMMA DestroyKeeps ==
  ASSUME IInv, NEW o \in Obj, Destroy(o)
  PROVE  IInv'
<1>1. /\ exists' = exists \ {o}
      /\ res' = [res EXCEPT ![o] = Null]
      /\ own' = [own EXCEPT ![o] = FALSE]
      /\ born' = born /\ alive' = alive \ Released(o) /\ ctx' = ctx
      /\ fault' \in BOOLEAN /\ class' = class /\ misuse' = misuse
  BY ReleasedIs, IsEvent, EventHas, CallbackAssumption
     DEF IInv, TypeOK, Handle!TypeOK, Destroy, Handle!Destroy, Handle!Step,
         Handle!Put
<1>2. fn' = [fn EXCEPT ![o] = NoFn] /\ UNCHANGED <<persistent, later>>
  BY DEF Destroy, Objects
<1>3. Handle!TypeOK'
  BY <1>1 DEF IInv, TypeOK, Handle!TypeOK
<1>4. /\ fn' \in [Obj -> Event \cup {NoFn}]
      /\ persistent' \subseteq born' /\ later' \subseteq born'
  BY <1>1, <1>2 DEF IInv, TypeOK
<1>5. Known'
  BY <1>1 DEF IInv, Known, TypeOK, Handle!TypeOK
<1>6. AllTied'
  <2> SUFFICES ASSUME "move" \notin misuse', NEW e \in alive'
               PROVE  Tied(e)'
    BY DEF AllTied
  <2>1. Tied(e) /\ ctx[e] # o /\ ctx[e] \in Obj
    BY <1>1, OthersTied
  <2> QED
    BY <1>1, <1>2, <2>1 DEF Tied, IInv, TypeOK, Handle!TypeOK
<1> QED
  BY <1>1, <1>3, <1>4, <1>5, <1>6, ObjectsKeep DEF ObjectsFine, Destroy

-----------------------------------------------------------------------------
(* What the loop does changes none of the objects.                         *)
LEMMA LoopKeeps ==
  ASSUME IInv, UNCHANGED <<handleVars, fn, persistent>>,
         later' \subseteq later,
         /\ armed' \subseteq alive
         /\ queued' \subseteq heap' /\ heap' \subseteq Once
         /\ base' \in {"up", "gone"}
         /\ runs' \in EventRun \cup [once : Once] \cup {NoFn}
         /\ crash' \in {"none", "dangling_call", "empty_call", "displaced",
                        "null_event", "dangling_event", "base_gone",
                        "escaped"},
         CallsOwnFunction', CallsReach', OnceDeleted', RunsOnce'
  PROVE  IInv'
<1>1. Handle!TypeOK' /\ Known' /\ AllTied'
  BY DEF IInv, TypeOK, Handle!TypeOK, Known, AllTied, Tied, handleVars
<1>2. TypeOK'
  BY <1>1 DEF IInv, TypeOK, handleVars
<1> QED
  BY <1>1, <1>2 DEF IInv

(* event_add and event_del.                                                *)
LEMMA UseKeeps ==
  ASSUME IInv, NEW o \in Obj, CallAfter(o) \/ Del(o)
  PROVE  IInv'
<1>1. PICK a : Use(o, a) /\ (res[o] \in alive => a \subseteq alive)
  BY DEF CallAfter, Del, IInv, TypeOK
<1>2. /\ armed' \subseteq alive
      /\ crash = "none"
      /\ crash' \in {"none", "null_event", "base_gone", "dangling_event"}
      /\ UNCHANGED <<handleVars, fn, persistent, later, heap, queued, base,
                     runs>>
  BY <1>1 DEF Use, IInv, TypeOK, onceVars
<1>3. CallsOwnFunction' /\ CallsReach' /\ OnceDeleted' /\ RunsOnce'
  BY <1>2 DEF IInv, CallsOwnFunction, CallsReach, OnceDeleted, RunsOnce,
              handleVars
<1> QED
  BY <1>2, <1>3, LoopKeeps DEF IInv, TypeOK

(* A pending event is alive, so it is tied to its object.                  *)
LEMMA FireKeeps ==
  ASSUME IInv, NEW e \in Event, Fire(e)
  PROVE  IInv'
<1>1. /\ crash = "none" /\ base = "up" /\ runs = NoFn
      /\ e \in alive /\ armed' \subseteq alive
      /\ UNCHANGED <<handleVars, fn, persistent, heap, queued, base>>
      /\ later' \subseteq later
  BY DEF Fire, InLoop, IInv, TypeOK, onceVars
<1>2. CASE crash' \in {"dangling_call", "empty_call"} /\ UNCHANGED runs
           /\ (ctx[e] \notin exists \/ fn[ctx[e]] = NoFn)
  <2>1. ~Tied(e)
    BY <1>2, CallbackAssumption DEF Tied
  <2>2. CallsReach'
    BY <1>1, <2>1 DEF CallsReach, IInv, AllTied, handleVars
  <2>3. CallsOwnFunction' /\ OnceDeleted' /\ RunsOnce'
    BY <1>1, <1>2 DEF IInv, CallsOwnFunction, OnceDeleted, RunsOnce,
                      handleVars
  <2> QED
    BY <1>1, <1>2, <2>2, <2>3, LoopKeeps DEF IInv, TypeOK
<1>3. CASE /\ ctx[e] \in exists /\ fn[ctx[e]] # NoFn /\ UNCHANGED crash
           /\ runs' = [event |-> e, obj |-> ctx[e], fn |-> fn[ctx[e]]]
  <2>1. runs' \in EventRun
    BY <1>3 DEF EventRun, IInv, TypeOK, Handle!TypeOK
  <2>2. CallsOwnFunction'
    BY <1>1, <1>3 DEF CallsOwnFunction, IInv, AllTied, Tied, handleVars
  <2>3. \A k \in Once : runs # [once |-> k] /\ runs' # [once |-> k]
    BY <1>1, <2>1, RunKinds
  <2>4. OnceDeleted' /\ RunsOnce' /\ CallsReach'
    BY <1>1, <1>3, <2>3 DEF IInv, OnceDeleted, RunsOnce, CallsReach
  <2> QED
    BY <1>1, <1>3, <2>1, <2>2, <2>4, LoopKeeps DEF IInv, TypeOK
<1> QED
  BY <1>2, <1>3 DEF Fire

(* once, and libevent calling what it was given.                           *)
LEMMA OnceKeeps ==
  ASSUME IInv, NEW k \in Once, CallOnce(k) \/ FireOnce(k)
  PROVE  IInv'
<1>1. UNCHANGED <<handleVars, fn, persistent, armed, later, base, crash>>
      /\ crash = "none" /\ base = "up"
  BY DEF CallOnce, FireOnce, InLoop
<1>2. CASE CallOnce(k)
  <2>1. k \notin heap /\ heap' = heap \cup {k} /\ queued' = queued \cup {k}
        /\ runs' = runs
    BY <1>2 DEF CallOnce
  <2>2. OnceDeleted'
    BY <1>1, <2>1 DEF IInv, OnceDeleted
  <2>3. RunsOnce'
    BY <1>1, <2>1 DEF IInv, OnceDeleted, RunsOnce
  <2>4. CallsOwnFunction' /\ CallsReach'
    BY <1>1, <2>1 DEF IInv, CallsOwnFunction, CallsReach, handleVars
  <2> QED
    BY <1>1, <2>1, <2>2, <2>3, <2>4, LoopKeeps DEF IInv, TypeOK
<1>3. CASE FireOnce(k)
  <2>1. k \in queued /\ heap' = heap /\ queued' = queued \ {k}
        /\ runs' = [once |-> k] /\ runs = NoFn
    BY <1>3 DEF FireOnce, InLoop
  <2>2. \A j \in Once : runs # [once |-> j]
    BY <2>1, RunKinds
  <2>3. \A j \in Once : runs' = [once |-> j] <=> j = k
    BY <2>1
  <2>4. OnceDeleted' /\ RunsOnce'
    BY <1>1, <2>1, <2>2, <2>3 DEF IInv, TypeOK, OnceDeleted, RunsOnce
  <2>5. runs' \notin EventRun
    BY <2>1, RunKinds
  <2>6. CallsOwnFunction' /\ CallsReach'
    BY <1>1, <2>5 DEF IInv, CallsOwnFunction, CallsReach, handleVars
  <2> QED
    BY <1>1, <2>1, <2>4, <2>6, LoopKeeps DEF IInv, TypeOK
<1> QED
  BY <1>2, <1>3

(* What ran is over; the base goes.                                        *)
LEMMA EndsKeep ==
  ASSUME IInv, Return \/ Throw \/ FreeBase
  PROVE  IInv'
<1>1. UNCHANGED <<handleVars, fn, persistent, later>> /\ runs' = NoFn
      /\ crash = "none"
  BY DEF Return, Throw, FreeBase, InLoop
<1>2. NoFn \notin EventRun /\ \A j \in Once : NoFn # [once |-> j]
  BY CallbackAssumption DEF EventRun
<1>3. CallsOwnFunction' /\ RunsOnce'
  BY <1>1, <1>2 DEF CallsOwnFunction, RunsOnce
<1>4. CASE Return
  <2>1. heap' = {j \in heap : runs # [once |-> j]}
        /\ UNCHANGED <<armed, queued, base, crash>>
    BY <1>4 DEF Return
  <2>2. OnceDeleted'
    BY <1>1, <1>2, <2>1 DEF IInv, TypeOK, OnceDeleted, RunsOnce
  <2>3. queued' \subseteq heap'
    BY <1>1, <2>1 DEF IInv, TypeOK, OnceDeleted, RunsOnce
  <2>4. CallsReach'
    BY <1>1, <2>1 DEF IInv, CallsReach, handleVars
  <2> QED
    BY <1>1, <1>3, <2>1, <2>2, <2>3, <2>4, LoopKeeps DEF IInv, TypeOK
<1>5. CASE Throw
  <2>1. crash' = "escaped" /\ UNCHANGED <<armed, queued, heap, base>>
    BY <1>5 DEF Throw, onceVars
  <2>2. OnceDeleted' /\ CallsReach'
    BY <2>1 DEF OnceDeleted, CallsReach
  <2> QED
    BY <1>1, <1>3, <2>1, <2>2, LoopKeeps DEF IInv, TypeOK
<1>6. CASE FreeBase
  <2>1. armed' = {} /\ queued' = {} /\ heap' = heap /\ base' = "gone"
        /\ crash' = crash
    BY <1>6 DEF FreeBase
  <2>2. OnceDeleted' /\ CallsReach'
    BY <1>1, <2>1 DEF OnceDeleted, CallsReach
  <2> QED
    BY <1>1, <1>3, <2>1, <2>2, LoopKeeps DEF IInv, TypeOK
<1> QED
  BY <1>4, <1>5, <1>6

-----------------------------------------------------------------------------
LEMMA InitHolds == Init => IInv
<1> SUFFICES ASSUME Init PROVE IInv
  OBVIOUS
<1>1. TypeOK
  BY DEF Init, TypeOK, Handle!Init, Handle!TypeOK, Handle!Misuses
<1>2. NoFn \notin EventRun /\ \A j \in Once : NoFn # [once |-> j]
  BY CallbackAssumption DEF EventRun
<1>3. Known /\ AllTied /\ CallsReach
  BY DEF Init, Handle!Init, Known, AllTied, CallsReach
<1>4. CallsOwnFunction /\ OnceDeleted /\ RunsOnce
  BY <1>2 DEF Init, CallsOwnFunction, OnceDeleted, RunsOnce
<1> QED
  BY <1>1, <1>3, <1>4 DEF IInv

(* Every step keeps the invariant.                                         *)
LEMMA NextKeeps ==
  ASSUME IInv, [Next]_vars
  PROVE  IInv'
<1>1. ASSUME NEW o \in Obj, NEW e \in Event, NEW persist \in BOOLEAN,
             ConstructEvent(o, e, persist)
      PROVE  IInv'
  BY <1>1, ConstructKeeps DEF ConstructEvent
<1>2. ASSUME NEW o \in Obj, NEW e \in Event, NEW usecs \in 0..1,
             CallLater(o, e, usecs)
      PROVE  IInv'
  <2>1. (usecs > 0) \in BOOLEAN /\ Construct(o, e, usecs > 0)
        /\ later' \subseteq later \cup {e}
    BY <1>2 DEF CallLater
  <2> QED
    BY <2>1, ConstructKeeps
<1>3. ASSUME NEW o \in Obj, ConstructEmpty(o)
      PROVE  IInv'
  BY <1>3, BorrowersKeep
<1>4. ASSUME NEW o \in Obj, Destroy(o)
      PROVE  IInv'
  BY <1>4, DestroyKeeps
<1>5. ASSUME NEW o \in Obj, CallAfter(o) \/ Del(o)
      PROVE  IInv'
  BY <1>5, UseKeeps
<1>6. ASSUME NEW o \in Obj, NEW p \in Obj,
             Copy(o, p) \/ Move(o, p) \/ CopyAssign(o, p) \/ MoveAssign(o, p)
      PROVE  IInv'
  BY <1>6, BorrowersKeep, MoveKeeps, CopyAssignKeeps, MoveAssignKeeps
<1>7. ASSUME NEW e \in Event, Fire(e)
      PROVE  IInv'
  BY <1>7, FireKeeps
<1>8. ASSUME NEW k \in Once, CallOnce(k) \/ FireOnce(k)
      PROVE  IInv'
  BY <1>8, OnceKeeps
<1>9. CASE Return \/ Throw \/ FreeBase
  BY <1>9, EndsKeep
<1>10. CASE UNCHANGED vars
  <2>1. CallsOwnFunction' /\ CallsReach' /\ OnceDeleted' /\ RunsOnce'
    BY <1>10 DEF IInv, CallsOwnFunction, CallsReach, OnceDeleted, RunsOnce,
                 vars, handleVars, onceVars
  <2> QED
    BY <1>10, <2>1, LoopKeeps DEF IInv, TypeOK, vars, onceVars
<1> QED
  BY <1>1, <1>2, <1>3, <1>4, <1>5, <1>6, <1>7, <1>8, <1>9, <1>10 DEF Next

THEOREM Invariance == Spec => []IInv
<1>1. IInv /\ [Next]_vars => IInv'
  BY NextKeeps
<1> QED
  BY InitHolds, <1>1, PTL DEF Spec

(* Whatever is done with the objects, also by the functions that run: an   *)
(* event calls the function it was created with, unless an owner was moved.*)
THEOREM EventsCallTheirFunction == Spec => []CallsOwnFunction
<1>1. IInv => CallsOwnFunction
  BY DEF IInv
<1> QED
  BY Invariance, <1>1, PTL

(* With the same exception, the object that is called and its function are *)
(* there, and pending events have not been freed.                          *)
THEOREM CallsAreSafe == Spec => []FireIsSafe
<1>1. IInv => FireIsSafe
  BY DEF IInv, CallsReach, FireIsSafe
<1> QED
  BY Invariance, <1>1, PTL

(* once frees each function when it has run, and none before.              *)
THEOREM OnceIsDeleted == Spec => []OnceDeleted
<1>1. IInv => OnceDeleted
  BY DEF IInv
<1> QED
  BY Invariance, <1>1, PTL

-----------------------------------------------------------------------------
(* A CallbackEvent is used like any other Event: the functions and the     *)
(* loop add no step of the objects and their events that Handles does not  *)
(* have, so what HandlesProofs shows of the class Event holds of them.     *)
THEOREM EventsAreHandles == Spec => Handle!Spec
<1>1. Init => Handle!Init
  BY DEF Init
<1>2. ASSUME [Next]_vars
      PROVE  [Handle!Next]_(Handle!vars)
  <2>1. CASE UNCHANGED handleVars
    BY <2>1 DEF handleVars, Handle!vars
  <2>2. ASSUME NEW o \in Obj, NEW e \in Event, NEW persist \in BOOLEAN,
               Construct(o, e, persist)
        PROVE  Handle!Next
    BY <2>2 DEF Construct, Handle!Next
  <2>3. ASSUME NEW o \in Obj, NEW p \in Obj,
               \/ ConstructEmpty(o) \/ Destroy(o) \/ Copy(o, p) \/ Move(o, p)
               \/ CopyAssign(o, p) \/ MoveAssign(o, p)
        PROVE  Handle!Next
    BY <2>3 DEF ConstructEmpty, Destroy, Copy, Move, CopyAssign, MoveAssign,
                Handle!Next
  <2>4. ASSUME NEW o \in Obj, NEW e \in Event, NEW usecs \in 0..1,
               CallLater(o, e, usecs)
        PROVE  Handle!Next
    <3>1. (usecs > 0) \in BOOLEAN /\ Construct(o, e, usecs > 0)
      BY <2>4 DEF CallLater
    <3> QED
      BY <2>2, <3>1
  <2>5. ASSUME NEW o \in Obj, CallAfter(o) \/ Del(o)
        PROVE  UNCHANGED handleVars
    BY <2>5 DEF CallAfter, Del, Use
  <2>6. ASSUME NEW e \in Event, Fire(e)
        PROVE  UNCHANGED handleVars
    BY <2>6 DEF Fire
  <2>7. ASSUME NEW k \in Once, CallOnce(k) \/ FireOnce(k)
        PROVE  UNCHANGED handleVars
    BY <2>7 DEF CallOnce, FireOnce
  <2>8. ASSUME Return \/ Throw \/ FreeBase \/ UNCHANGED vars
        PROVE  UNCHANGED handleVars
    BY <2>8 DEF Return, Throw, FreeBase, vars
  <2>9. CASE Next
    <3>1. UNCHANGED handleVars \/ Handle!Next
      BY <2>2, <2>3, <2>4, <2>5, <2>6, <2>7, <2>8, <2>9
         DEF Next, ConstructEvent
    <3> QED
      BY <2>1, <3>1
  <2> QED
    BY <1>2, <2>1, <2>8, <2>9
<1> QED
  BY <1>1, <1>2, PTL DEF Spec, Handle!Spec
=============================================================================
