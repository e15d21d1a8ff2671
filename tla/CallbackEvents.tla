--------------------------- MODULE CallbackEvents ---------------------------
(***************************************************************************)
(* Functions that the event loop calls later: CallbackEvent (src/Event.cc) *)
(* and EventBase::call_later and once (src/EventBase.cc).                  *)
(*                                                                         *)
(* A CallbackEvent is an Event and a std::function. As an Event it behaves *)
(* as in Handles, whose actions this module takes as they are and extends  *)
(* with what happens to the function. libevent calls dispatch_on_trigger   *)
(* with the address of the object that created the event; on_trigger calls *)
(* whatever function is there.                                             *)
(*                                                                         *)
(* The function an event was created with is named like the event. once    *)
(* puts a function on the heap, to be deleted by the callback. While a     *)
(* function runs, it may do to the objects all that other code may do.     *)
(***************************************************************************)
EXTENDS FiniteSets, Naturals

CONSTANTS
  Obj,      \* places for CallbackEvent objects
  Event,    \* libevent events
  Once,     \* functions passed to EventBase::once (bounds the calls)
  Null,     \* the null event
  NoObj,    \* "nobody is called back"
  NoFn      \* the empty function; "nothing runs"

ASSUME CallbackAssumption ==
  /\ Null \notin Event /\ NoObj \notin Obj
  /\ NoFn \notin Event
  /\ NoFn \notin [event : Event, obj : Obj, fn : Event] \cup [once : Once]

VARIABLES
  class, exists, res, own, born, alive, ctx, fault, misuse,   \* see Handles
  fn,         \* the function in each object
  persistent, \* events made with EV_PERSIST
  armed,      \* events that are pending
  later,      \* events made by call_later or call_next that did not run yet
  heap,       \* functions of once on the heap
  queued,     \* calls of once that did not fire yet
  base,       \* up, or gone (event_base_free)
  runs,       \* what runs: [event, obj, fn] or [once], or NoFn
  crash       \* the first undefined behaviour or escaped exception

handleVars == <<class, exists, res, own, born, alive, ctx, fault, misuse>>
onceVars   == <<heap, queued>>
vars == <<handleVars, fn, persistent, armed, later, onceVars, base, runs,
          crash>>

Handle == INSTANCE Handles WITH
  Class <- {"Event"}, Res <- Event, Ext <- {}

EventRun == [event : Event, obj : Obj, fn : Event]

TypeOK ==
  /\ Handle!TypeOK
  /\ fn \in [Obj -> Event \cup {NoFn}]
  /\ persistent \subseteq born
  /\ armed \subseteq alive
  /\ later \subseteq born
  /\ queued \subseteq heap /\ heap \subseteq Once
  /\ base \in {"up", "gone"}
  /\ runs \in EventRun \cup [once : Once] \cup {NoFn}
  /\ crash \in {"none", "dangling_call", "empty_call", "displaced",
                "null_event", "dangling_event", "base_gone", "escaped"}

-----------------------------------------------------------------------------
(* Functions in the places of s are destroyed or moved away. If one of     *)
(* them is running, what it captured is gone, and using it is undefined.   *)
Displaces(s) ==
  IF runs \in EventRun /\ runs.obj \in s
  THEN crash' \in {"none", "displaced"}
  ELSE UNCHANGED crash

(* Mutant: a freed event goes on being pending.                            *)
Objects_KeepsArmed(newFn, displaced) ==
  /\ crash = "none"
  /\ fn' = newFn
  /\ IF base = "gone" /\ alive' # alive
     THEN crash' = "base_gone" ELSE Displaces(displaced)
  /\ UNCHANGED <<armed, onceVars, base, runs>>

(* The rest of a step that changes objects: an event that was freed is not *)
(* pending any more; freeing one uses its base.                            *)
Objects(newFn, displaced) ==
  /\ crash = "none"
  /\ fn' = newFn
  /\ armed' = armed \cap alive'
  /\ IF base = "gone" /\ alive' # alive
     THEN crash' = "base_gone" ELSE Displaces(displaced)
  /\ UNCHANGED <<onceVars, base, runs>>

Init ==
  /\ Handle!Init
  /\ fn = [o \in Obj |-> NoFn]
  /\ persistent = {}
  /\ armed = {}
  /\ later = {}
  /\ heap = {}
  /\ queued = {}
  /\ base = "up"
  /\ runs = NoFn
  /\ crash = "none"

(* CallbackEvent(base, fn, persist); the event is not added yet.           *)
Construct(o, e, persist) ==
  /\ base = "up"
  /\ Handle!Construct(o, e)
  /\ Objects([fn EXCEPT ![o] = e], {})
  /\ persistent' = persistent \cup {x \in {e} : persist}

ConstructEvent(o, e, persist) ==
  Construct(o, e, persist) /\ UNCHANGED later

(* call_later (usecs > 0) and call_next (usecs = 0): usecs becomes the     *)
(* "persist" argument of the constructor.                                  *)
CallLater(o, e, usecs) ==
  /\ Construct(o, e, usecs > 0)
  /\ later' = later \cup {e}

ConstructEmpty(o) ==
  /\ Handle!ConstructEmpty(o)
  /\ Objects([fn EXCEPT ![o] = NoFn], {})
  /\ UNCHANGED <<persistent, later>>

Copy(o, p) ==
  /\ Handle!Copy(o, p)
  /\ Objects([fn EXCEPT ![o] = fn[p]], {})
  /\ UNCHANGED <<persistent, later>>

Move(o, p) ==
  /\ Handle!Move(o, p)
  /\ Objects([fn EXCEPT ![o] = fn[p], ![p] = NoFn], {p})
  /\ UNCHANGED <<persistent, later>>

(* Mutant: the base class's operator= is not called.                       *)
CopyAssign_FunctionOnly(o, p) ==
  /\ o \in exists /\ p \in exists
  /\ UNCHANGED handleVars
  /\ Objects([fn EXCEPT ![o] = fn[p]], {o})
  /\ UNCHANGED <<persistent, later>>

CopyAssign(o, p) ==
  /\ Handle!CopyAssign(o, p)
  /\ Objects([fn EXCEPT ![o] = fn[p]], {o})
  /\ UNCHANGED <<persistent, later>>

(* A function that is moved onto itself may or may not be empty then.      *)
MoveAssign(o, p) ==
  /\ Handle!MoveAssign(o, p)
  /\ \/ Objects([fn EXCEPT ![o] = fn[p], ![p] = NoFn], {o, p})
     \/ o = p /\ Objects(fn, {o})
  /\ UNCHANGED <<persistent, later>>

Destroy(o) ==
  /\ Handle!Destroy(o)
  /\ Objects([fn EXCEPT ![o] = NoFn], {o})
  /\ UNCHANGED <<persistent, later>>

(* event_add or event_del on the event of o: newArmed if it is there.      *)
Use(o, newArmed) ==
  /\ crash = "none"
  /\ o \in exists
  /\ \/ /\ res[o] \in alive /\ base = "up"
        /\ armed' = newArmed
        /\ UNCHANGED crash
     \/ /\ res[o] \notin alive \/ base = "gone"
        /\ crash' = IF res[o] = Null THEN "null_event"
                    ELSE IF res[o] \in alive THEN "base_gone"
                    ELSE "dangling_event"
        /\ UNCHANGED armed
  /\ UNCHANGED <<handleVars, fn, persistent, later, onceVars, base, runs>>

(* call_after_usecs, call_next.                                            *)
CallAfter(o) == Use(o, armed \cup {res[o]})

Del(o) == Use(o, armed \ {res[o]})

-----------------------------------------------------------------------------
InLoop == crash = "none" /\ base = "up" /\ runs = NoFn

(* The time of e has come: libevent calls dispatch_on_trigger.             *)
Fire(e) ==
  /\ InLoop
  /\ e \in armed
  /\ armed' = IF e \in persistent THEN armed ELSE armed \ {e}
  /\ \/ /\ ctx[e] \notin exists
        /\ crash' = "dangling_call"
        /\ UNCHANGED <<runs, later>>
     \/ /\ ctx[e] \in exists
        /\ fn[ctx[e]] = NoFn
        /\ crash' = "empty_call"
        /\ UNCHANGED <<runs, later>>
     \/ /\ ctx[e] \in exists
        /\ fn[ctx[e]] # NoFn
        /\ runs' = [event |-> e, obj |-> ctx[e], fn |-> fn[ctx[e]]]
        /\ later' = later \ {e}
        /\ UNCHANGED crash
  /\ UNCHANGED <<handleVars, fn, persistent, onceVars, base>>

CallOnce(k) ==
  /\ crash = "none" /\ base = "up"
  /\ k \notin heap
  /\ heap' = heap \cup {k}
  /\ queued' = queued \cup {k}
  /\ UNCHANGED <<handleVars, fn, persistent, armed, later, base, runs, crash>>

FireOnce(k) ==
  /\ InLoop
  /\ k \in queued
  /\ queued' = queued \ {k}
  /\ runs' = [once |-> k]
  /\ UNCHANGED <<handleVars, fn, persistent, armed, later, heap, base, crash>>

(* Mutant: dispatch_once_cb does not delete the function.                  *)
Return_Keeps ==
  /\ crash = "none"
  /\ runs # NoFn
  /\ runs' = NoFn
  /\ UNCHANGED <<handleVars, fn, persistent, armed, later, onceVars, base,
                 crash>>

(* The function that runs returns. A function of once is deleted then.     *)
Return ==
  /\ crash = "none"
  /\ runs # NoFn
  /\ runs' = NoFn
  /\ heap' = {k \in heap : runs # [once |-> k]}
  /\ UNCHANGED <<handleVars, fn, persistent, armed, later, queued, base, crash>>

(* It throws: nothing catches that, and a function of once is not deleted. *)
Throw ==
  /\ crash = "none"
  /\ runs # NoFn
  /\ runs' = NoFn
  /\ crash' = "escaped"
  /\ UNCHANGED <<handleVars, fn, persistent, armed, later, onceVars, base>>

(* ~EventBase: libevent forgets its events, and frees its own records of   *)
(* once but not the functions they point to.                               *)
FreeBase ==
  /\ InLoop
  /\ base' = "gone"
  /\ armed' = {}
  /\ queued' = {}
  /\ UNCHANGED <<handleVars, fn, persistent, later, heap, runs, crash>>

Next ==
  \/ \E o \in Obj, e \in Event, persist \in BOOLEAN :
       ConstructEvent(o, e, persist)
  \/ \E o \in Obj, e \in Event, usecs \in 0..1 : CallLater(o, e, usecs)
  \/ \E o \in Obj :
       ConstructEmpty(o) \/ Destroy(o) \/ CallAfter(o) \/ Del(o)
  \/ \E o, p \in Obj :
       Copy(o, p) \/ Move(o, p) \/ CopyAssign(o, p) \/ MoveAssign(o, p)
  \/ \E e \in Event : Fire(e)
  \/ \E k \in Once : CallOnce(k) \/ FireOnce(k)
  \/ Return \/ Throw \/ FreeBase

Spec == Init /\ [][Next]_vars

(* The loop runs what is due, and the functions it calls return.           *)
FairSpec ==
  /\ Spec
  /\ WF_vars(Return)
  /\ \A e \in Event : SF_vars(Fire(e))
  /\ \A k \in Once : SF_vars(FireOnce(k))

-----------------------------------------------------------------------------
(* However objects are copied, assigned and destroyed, also by the         *)
(* function that runs: an event calls the function it was created with,    *)
(* unless an owner was moved, ...                                          *)
CallsOwnFunction ==
  runs \in EventRun => runs.fn = runs.event \/ "move" \in misuse

(* ... and the object and the function are still there when its time       *)
(* comes, with the same exception: the temporary that call_later returns   *)
(* may be assigned to a variable only if it is never to be called. Pending *)
(* events have not been freed (TypeOK).                                    *)
FireIsSafe ==
  TypeOK /\ (crash \in {"dangling_call", "empty_call"} => "move" \in misuse)

(* The functions of once on the heap are those that are still to be called *)
(* or run now, unless one threw or the base was freed before their time.   *)
OnceDeleted ==
  crash = "none" /\ base = "up" =>
    heap = queued \cup {k \in Once : runs = [once |-> k]}

(* Unlike what call_later's name and parameter say: its function is called *)
(* unless its event is freed or the run ends.                              *)
CallLaterCalls ==
  \A e \in Event :
    e \in later ~> \/ e \notin later \cap alive
                  \/ base = "gone" \/ crash # "none"
=============================================================================
