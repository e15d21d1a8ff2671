--------------------------- MODULE HandlesProofs ---------------------------
(***************************************************************************)
(* Theorems about Handles: the guarantees of ownership that hold for any   *)
(* number of objects and resources of any of the classes.                  *)
(*                                                                         *)
(* The inductive invariant IInv says two things of every history (Known),  *)
(* and the others of those in which nobody called set_owned(true) (Sound). *)
(***************************************************************************)
EXTENDS Handles, TLAPS

(* Objects point to what was allocated or to null.                         *)
Known == \A o \in exists : res[o] \in born \cup {Null}

(* Owners differ, and own what is alive and is not libevent's own; an      *)
(* owner of null was constructed without memory; nothing was freed that    *)
(* was not there, except null by an EvBuffer.                              *)
Sound ==
  /\ \A o, p \in exists : own[o] /\ own[p] /\ res[o] = res[p] /\ res[o] # Null
                            => o = p
  /\ \A o \in exists : own[o] => res[o] \in (alive \ Ext) \cup {Null}
  /\ \A o \in exists :
       own[o] /\ res[o] = Null => Has("unchecked") /\ "null" \in misuse
  /\ Ext \subseteq alive
  /\ fault => class = "EvBuffer" /\ "null" \in misuse

IInv ==
  /\ TypeOK
  /\ Known
  /\ "adopt" \notin misuse => Sound
  /\ NoLeak
  /\ CallbackReachesOwner

-----------------------------------------------------------------------------
(* Of all classes only EvBuffer frees without a check for null.            *)
LEMMA NullFreed ==
  ASSUME class \in Classes, ~Has("null_safe")
  PROVE  class = "EvBuffer"
<1>1. class \in {"Event", "EventBase", "EvBuffer", "LockGuard", "Listener",
                "BufferEvent", "EvDNSBase", "EvHTTPRequest"}
  BY DEF Classes, Features
<1> QED
  BY <1>1 DEF Has, Features, EventFeatures, EventBaseFeatures,
              LockGuardFeatures, ListenerFeatures, BufferEventFeatures,
              EvDNSBaseFeatures, EvHTTPRequestFeatures

(* At first there are no objects.                                          *)
LEMMA InitIInv ==
  Init => IInv
BY ConstantsAssumption
   DEF Init, IInv, TypeOK, Known, Sound, NoLeak, Owns, Leaks, Classes,
   CallbackReachesOwner

(* A new resource is fresh, so its owner is its only owner.                *)
LEMMA ConstructKeeps ==
  ASSUME IInv, NEW o \in Obj, NEW r \in Res, Construct(o, r)
  PROVE  IInv'
<1>1. TypeOK'
  <2>1. ctx' \in [Res -> Obj \cup {NoObj}]
    BY DEF IInv, TypeOK, Construct
  <2>2. CASE /\ r \notin born
             /\ Step(o, exists \cup {o}, Put(res, o, r), Put(own, o, TRUE),
                     {}, {})
    BY <2>1, <2>2, ConstantsAssumption DEF IInv, TypeOK, Step, Put, Misuses
  <2>3. CASE Step(o, exists \cup {o}, Put(res, o, Null), Put(own, o, TRUE),
                  {}, {"null"})
    BY <2>1, <2>3, ConstantsAssumption DEF IInv, TypeOK, Step, Put, Misuses
  <2> QED
    BY <2>2, <2>3 DEF Construct
<1>2. Known'
  BY ConstantsAssumption DEF IInv, TypeOK, Known, Construct, Step, Put
<1>3. "adopt" \notin misuse' => Sound'
  BY ConstantsAssumption
     DEF IInv, TypeOK, Known, Sound, Construct, Step, Put, Has, Features
<1>4. NoLeak'
  BY ConstantsAssumption
     DEF IInv, TypeOK, Known, NoLeak, Owns, Leaks, Has, Construct, Step, Put
<1>5. CallbackReachesOwner'
  BY ConstantsAssumption
     DEF IInv, TypeOK, Known, CallbackReachesOwner, Owns, Leaks, Has,
         Construct, Step, Put
<1> QED
  BY <1>1, <1>2, <1>3, <1>4, <1>5 DEF IInv

(* An empty Event owns nothing.                                            *)
LEMMA ConstructEmptyKeeps ==
  ASSUME IInv, NEW o \in Obj, ConstructEmpty(o)
  PROVE  IInv'
<1>1. TypeOK'
  BY ConstantsAssumption DEF IInv, TypeOK, ConstructEmpty, Step, Put, Misuses
<1>2. Known'
  BY ConstantsAssumption DEF IInv, TypeOK, Known, ConstructEmpty, Step, Put
<1>3. "adopt" \notin misuse' => Sound'
  BY ConstantsAssumption
     DEF IInv, TypeOK, Known, Sound, ConstructEmpty, Step, Put, Has, Features
<1>4. NoLeak'
  BY ConstantsAssumption
     DEF IInv, TypeOK, Known, NoLeak, Owns, Leaks, Has, ConstructEmpty, Step,
         Put
<1>5. CallbackReachesOwner'
  BY ConstantsAssumption
     DEF IInv, TypeOK, Known, CallbackReachesOwner, Owns, Leaks, Has,
         ConstructEmpty, Step, Put
<1> QED
  BY <1>1, <1>2, <1>3, <1>4, <1>5 DEF IInv

(* An object made from a raw pointer does not own.                         *)
LEMMA WrapKeeps ==
  ASSUME IInv, NEW o \in Obj, NEW r \in Res, Wrap(o, r)
  PROVE  IInv'
<1>1. TypeOK'
  BY ConstantsAssumption DEF IInv, TypeOK, Wrap, Step, Put, Misuses
<1>2. Known'
  BY ConstantsAssumption DEF IInv, TypeOK, Known, Wrap, Step, Put
<1>3. "adopt" \notin misuse' => Sound'
  BY ConstantsAssumption
     DEF IInv, TypeOK, Known, Sound, Wrap, Step, Put, Has, Features
<1>4. NoLeak'
  BY ConstantsAssumption
     DEF IInv, TypeOK, Known, NoLeak, Owns, Leaks, Has, Wrap, Step, Put
<1>5. CallbackReachesOwner'
  BY ConstantsAssumption
     DEF IInv, TypeOK, Known, CallbackReachesOwner, Owns, Leaks, Has, Wrap,
         Step, Put
<1> QED
  BY <1>1, <1>2, <1>3, <1>4, <1>5 DEF IInv

(* Nor does a copy.                                                        *)
LEMMA CopyKeeps ==
  ASSUME IInv, NEW o \in Obj, NEW p \in Obj, Copy(o, p)
  PROVE  IInv'
<1>1. TypeOK'
  BY ConstantsAssumption DEF IInv, TypeOK, Copy, Step, Put, Misuses
<1>2. Known'
  BY ConstantsAssumption DEF IInv, TypeOK, Known, Copy, Step, Put
<1>3. "adopt" \notin misuse' => Sound'
  BY ConstantsAssumption
     DEF IInv, TypeOK, Known, Sound, Copy, Step, Put, Has, Features
<1>4. NoLeak'
  BY ConstantsAssumption
     DEF IInv, TypeOK, Known, NoLeak, Owns, Leaks, Has, Copy, Step, Put
<1>5. CallbackReachesOwner'
  BY ConstantsAssumption
     DEF IInv, TypeOK, Known, CallbackReachesOwner, Owns, Leaks, Has, Copy,
         Step, Put
<1> QED
  BY <1>1, <1>2, <1>3, <1>4, <1>5 DEF IInv

(* A move leaves one owner where there was one.                            *)
LEMMA MoveKeeps ==
  ASSUME IInv, NEW o \in Obj, NEW p \in Obj, Move(o, p)
  PROVE  IInv'
<1>1. TypeOK'
  BY ConstantsAssumption DEF IInv, TypeOK, Move, Step, Put, Misuses
<1>2. Known'
  BY ConstantsAssumption DEF IInv, TypeOK, Known, Move, Step, Put
<1>3. "adopt" \notin misuse' => Sound'
  BY ConstantsAssumption
     DEF IInv, TypeOK, Known, Sound, Move, Step, Put, Has, Features
<1>4. NoLeak'
  BY ConstantsAssumption
     DEF IInv, TypeOK, Known, NoLeak, Owns, Leaks, Has, Move, Step, Put
<1>5. CallbackReachesOwner'
  BY ConstantsAssumption
     DEF IInv, TypeOK, Known, CallbackReachesOwner, Owns, Leaks, Has, Move,
         Step, Put
<1> QED
  BY <1>1, <1>2, <1>3, <1>4, <1>5 DEF IInv

(* Assignment by copy ends the ownership of the target; what it owned is   *)
(* freed or blamed on the caller.                                          *)
LEMMA CopyAssignKeeps ==
  ASSUME IInv, NEW o \in Obj, NEW p \in Obj, CopyAssign(o, p)
  PROVE  IInv'
<1>1. TypeOK'
  BY ConstantsAssumption
     DEF IInv, TypeOK, CopyAssign, Step, Put, Misuses, Overwritten, Freed,
         AssignMisuse
<1>2. Known'
  BY ConstantsAssumption
     DEF IInv, TypeOK, Known, CopyAssign, Step, Put, Overwritten, Freed,
         AssignMisuse
<1>3. "adopt" \notin misuse' => Sound'
  <2> SUFFICES ASSUME "adopt" \notin misuse'
               PROVE  Sound'
    OBVIOUS
  <2>0. Sound /\ ~fault
    BY DEF IInv, CopyAssign, Step
  <2>1. \A x, y \in exists' :
          own'[x] /\ own'[y] /\ res'[x] = res'[y] /\ res'[x] # Null => x = y
    BY <2>0, ConstantsAssumption
       DEF IInv, TypeOK, Known, Sound, CopyAssign, Step, Put, Has,
           Overwritten, Freed
  <2>2. \A x \in exists' : own'[x] => res'[x] \in (alive' \ Ext) \cup {Null}
    BY <2>0, ConstantsAssumption
       DEF IInv, TypeOK, Known, Sound, CopyAssign, Step, Put, Has,
           Overwritten, Freed
  <2>3. \A x \in exists' :
          own'[x] /\ res'[x] = Null
            => Has("unchecked")' /\ "null" \in misuse'
    BY <2>0, ConstantsAssumption
       DEF IInv, TypeOK, Known, Sound, CopyAssign, Step, Put, Has,
           Overwritten, Freed
  <2>4. Ext \subseteq alive'
    BY <2>0, ConstantsAssumption
       DEF IInv, TypeOK, Known, Sound, CopyAssign, Step, Put, Has,
           Overwritten, Freed
  <2>5. fault' => class' = "EvBuffer" /\ "null" \in misuse'
    <3>1. Has("null_safe") \/ class = "EvBuffer"
      BY NullFreed, ConstantsAssumption DEF IInv, TypeOK
    <3> QED
      BY <2>0, <3>1, ConstantsAssumption
         DEF IInv, TypeOK, Known, Sound, CopyAssign, Step, Overwritten, Freed
  <2> QED
    BY <2>1, <2>2, <2>3, <2>4, <2>5 DEF Sound
<1>4. NoLeak'
  BY ConstantsAssumption
     DEF IInv, TypeOK, Known, NoLeak, Owns, Leaks, Has, CopyAssign, Step, Put,
         Overwritten, Freed, AssignMisuse
<1>5. CallbackReachesOwner'
  BY ConstantsAssumption
     DEF IInv, TypeOK, Known, CallbackReachesOwner, Owns, Leaks, Has,
         CopyAssign, Step, Put, Overwritten, Freed, AssignMisuse
<1> QED
  BY <1>1, <1>2, <1>3, <1>4, <1>5 DEF IInv

(* Assignment by move does too, and passes that of the source; the source  *)
(* may be the target.                                                      *)
LEMMA MoveAssignKeeps ==
  ASSUME IInv, NEW o \in Obj, NEW p \in Obj, MoveAssign(o, p)
  PROVE  IInv'
<1>1. TypeOK'
  BY ConstantsAssumption
     DEF IInv, TypeOK, MoveAssign, Step, Put, Misuses, Overwritten, Freed,
         AssignMisuse
<1>2. Known'
  BY ConstantsAssumption
     DEF IInv, TypeOK, Known, MoveAssign, Step, Put, Overwritten, Freed,
         AssignMisuse
<1>3. "adopt" \notin misuse' => Sound'
  <2> SUFFICES ASSUME "adopt" \notin misuse'
               PROVE  Sound'
    OBVIOUS
  <2>0. Sound /\ ~fault
    BY DEF IInv, MoveAssign, Step
  <2>1. \A x, y \in exists' :
          own'[x] /\ own'[y] /\ res'[x] = res'[y] /\ res'[x] # Null => x = y
    BY <2>0, ConstantsAssumption
       DEF IInv, TypeOK, Known, Sound, MoveAssign, Step, Put, Has,
           Overwritten, Freed
  <2>2. \A x \in exists' : own'[x] => res'[x] \in (alive' \ Ext) \cup {Null}
    BY <2>0, ConstantsAssumption
       DEF IInv, TypeOK, Known, Sound, MoveAssign, Step, Put, Has,
           Overwritten, Freed
  <2>3. \A x \in exists' :
          own'[x] /\ res'[x] = Null
            => Has("unchecked")' /\ "null" \in misuse'
    BY <2>0, ConstantsAssumption
       DEF IInv, TypeOK, Known, Sound, MoveAssign, Step, Put, Has,
           Overwritten, Freed
  <2>4. Ext \subseteq alive'
    BY <2>0, ConstantsAssumption
       DEF IInv, TypeOK, Known, Sound, MoveAssign, Step, Put, Has,
           Overwritten, Freed
  <2>5. fault' => class' = "EvBuffer" /\ "null" \in misuse'
    <3>1. Has("null_safe") \/ class = "EvBuffer"
      BY NullFreed, ConstantsAssumption DEF IInv, TypeOK
    <3> QED
      BY <2>0, <3>1, ConstantsAssumption
         DEF IInv, TypeOK, Known, Sound, MoveAssign, Step, Overwritten, Freed
  <2> QED
    BY <2>1, <2>2, <2>3, <2>4, <2>5 DEF Sound
<1>4. NoLeak'
  BY ConstantsAssumption
     DEF IInv, TypeOK, Known, NoLeak, Owns, Leaks, Has, MoveAssign, Step, Put,
         Overwritten, Freed, AssignMisuse
<1>5. CallbackReachesOwner'
  BY ConstantsAssumption
     DEF IInv, TypeOK, Known, CallbackReachesOwner, Owns, Leaks, Has,
         MoveAssign, Step, Put, Overwritten, Freed, AssignMisuse
<1> QED
  BY <1>1, <1>2, <1>3, <1>4, <1>5 DEF IInv

(* A destructor frees what nobody else owns.                               *)
LEMMA DestroyKeeps ==
  ASSUME IInv, NEW o \in Obj, Destroy(o)
  PROVE  IInv'
<1>1. TypeOK'
  BY ConstantsAssumption DEF IInv, TypeOK, Destroy, Step, Put, Misuses, Freed
<1>2. Known'
  BY ConstantsAssumption DEF IInv, TypeOK, Known, Destroy, Step, Put, Freed
<1>3. "adopt" \notin misuse' => Sound'
  <2> SUFFICES ASSUME "adopt" \notin misuse'
               PROVE  Sound'
    OBVIOUS
  <2>0. Sound /\ ~fault
    BY DEF IInv, Destroy, Step
  <2>1. \A x, y \in exists' :
          own'[x] /\ own'[y] /\ res'[x] = res'[y] /\ res'[x] # Null => x = y
    BY <2>0, ConstantsAssumption
       DEF IInv, TypeOK, Known, Sound, Destroy, Step, Put, Has, Freed
  <2>2. \A x \in exists' : own'[x] => res'[x] \in (alive' \ Ext) \cup {Null}
    BY <2>0, ConstantsAssumption
       DEF IInv, TypeOK, Known, Sound, Destroy, Step, Put, Has, Freed
  <2>3. \A x \in exists' :
          own'[x] /\ res'[x] = Null
            => Has("unchecked")' /\ "null" \in misuse'
    BY <2>0, ConstantsAssumption
       DEF IInv, TypeOK, Known, Sound, Destroy, Step, Put, Has, Freed
  <2>4. Ext \subseteq alive'
    BY <2>0, ConstantsAssumption
       DEF IInv, TypeOK, Known, Sound, Destroy, Step, Put, Has, Freed
  <2>5. fault' => class' = "EvBuffer" /\ "null" \in misuse'
    <3>1. Has("null_safe") \/ class = "EvBuffer"
      BY NullFreed, ConstantsAssumption DEF IInv, TypeOK
    <3> QED
      BY <2>0, <3>1, ConstantsAssumption
         DEF IInv, TypeOK, Known, Sound, Destroy, Step, Freed
  <2> QED
    BY <2>1, <2>2, <2>3, <2>4, <2>5 DEF Sound
<1>4. NoLeak'
  BY ConstantsAssumption
     DEF IInv, TypeOK, Known, NoLeak, Owns, Leaks, Has, Destroy, Step, Put,
         Freed
<1>5. CallbackReachesOwner'
  BY ConstantsAssumption
     DEF IInv, TypeOK, Known, CallbackReachesOwner, Owns, Leaks, Has, Destroy,
         Step, Put, Freed
<1> QED
  BY <1>1, <1>2, <1>3, <1>4, <1>5 DEF IInv

(* set_owned changes ownership freely; what may follow is excused.         *)
LEMMA SetOwnedKeeps ==
  ASSUME IInv, NEW o \in Obj, NEW owned \in BOOLEAN, SetOwned(o, owned)
  PROVE  IInv'
<1>1. TypeOK'
  BY ConstantsAssumption DEF IInv, TypeOK, SetOwned, Step, Put, Misuses
<1>2. Known'
  BY ConstantsAssumption DEF IInv, TypeOK, Known, SetOwned, Step, Put
<1>3. "adopt" \notin misuse' => Sound'
  BY ConstantsAssumption
     DEF IInv, TypeOK, Known, Sound, SetOwned, Step, Put, Has, Features
<1>4. NoLeak'
  BY ConstantsAssumption
     DEF IInv, TypeOK, Known, NoLeak, Owns, Leaks, Has, SetOwned, Step, Put
<1>5. CallbackReachesOwner'
  BY ConstantsAssumption
     DEF IInv, TypeOK, Known, CallbackReachesOwner, Owns, Leaks, Has,
         SetOwned, Step, Put
<1> QED
  BY <1>1, <1>2, <1>3, <1>4, <1>5 DEF IInv

(* IInv is inductive.                                                      *)
LEMMA StepKeeps ==
  IInv /\ [Next]_vars => IInv'
<1> SUFFICES ASSUME IInv, [Next]_vars
             PROVE  IInv'
  OBVIOUS
<1>1. CASE UNCHANGED vars
  BY <1>1 DEF IInv, TypeOK, Known, Sound, NoLeak, CallbackReachesOwner, Owns,
              Leaks, Has, vars
<1>2. CASE Next
  BY <1>2, ConstructKeeps, ConstructEmptyKeeps, WrapKeeps, CopyKeeps,
     MoveKeeps, CopyAssignKeeps, MoveAssignKeeps, DestroyKeeps, SetOwnedKeeps
     DEF Next
<1> QED
  BY <1>1, <1>2

(* IInv holds in every reachable state.                                    *)
LEMMA Invariance == Spec => []IInv
BY InitIInv, StepKeeps, PTL DEF Spec

-----------------------------------------------------------------------------
(* The variables of Handles keep their types.                              *)
THEOREM TypeCorrect == Spec => []TypeOK
<1>1. IInv => TypeOK
  BY DEF IInv
<1> QED
  BY Invariance, <1>1, PTL

(* Copying, moving, assigning and destroying never makes two owners of a   *)
(* resource: that takes set_owned(true).                                   *)
THEOREM OwnersAreUnique == Spec => []OneOwner
<1>1. IInv => OneOwner
  BY ConstantsAssumption DEF IInv, TypeOK, Sound, OneOwner, Owns
<1> QED
  BY Invariance, <1>1, PTL

(* ... nor an owner of something that has been freed.                      *)
THEOREM OwnedIsLive == Spec => []OwnersLive
<1>1. IInv => OwnersLive
  BY ConstantsAssumption DEF IInv, TypeOK, Sound, OwnersLive, Owns
<1> QED
  BY Invariance, <1>1, PTL

(* No destructor and no operator= frees what is not there, in whatever     *)
(* order objects come and go; the exception is an EvBuffer that was made   *)
(* when memory was short.                                                  *)
THEOREM FreesAreSound == Spec => []NoBadFree
<1>1. IInv => NoBadFree
  BY DEF IInv, Sound, NoBadFree
<1> QED
  BY Invariance, <1>1, PTL

(* Nothing that belongs to libevent is freed through a wrapper of it.      *)
THEOREM BorrowedIsKept == Spec => []ExternalsLive
<1>1. IInv => ExternalsLive
  BY DEF IInv, Sound, ExternalsLive
<1> QED
  BY Invariance, <1>1, PTL

(* Leaks have one of the causes listed in Leaks: none in an Event, only    *)
(* set_owned(false) in an EvBuffer, assignment in most other classes.      *)
THEOREM LeaksAreExplained == Spec => []NoLeak
<1>1. IInv => NoLeak
  BY DEF IInv
<1> QED
  BY Invariance, <1>1, PTL

(* libevent calls back the owner of a resource until ownership is moved or *)
(* lost.                                                                   *)
THEOREM CallbacksReachOwners == Spec => []CallbackReachesOwner
<1>1. IInv => CallbackReachesOwner
  BY DEF IInv
<1> QED
  BY Invariance, <1>1, PTL

-----------------------------------------------------------------------------
(* Handles implements UniqueOwner. Until a caller does one of the Waivers, *)
(* a resource that is alive has exactly one owner, so that Owner(r) tells  *)
(* all of Owns, born and alive.                                            *)
Viewed ==
  Waivers = {} =>
    \A r \in Res \ Ext :
      /\ r \notin born => Owner(r) = "unborn"
      /\ r \in born \ alive => Owner(r) = "gone"
      /\ r \in alive => r \in born /\ Owner(r) \in Obj
      /\ \A o \in Obj : Owns(o, r) <=> Owner(r) = o

LEMMA View == IInv => Viewed
<1> SUFFICES ASSUME IInv, Waivers = {}, NEW r \in Res \ Ext
             PROVE  /\ r \notin born => Owner(r) = "unborn"
                    /\ r \in born \ alive => Owner(r) = "gone"
                    /\ r \in alive => r \in born /\ Owner(r) \in Obj
                    /\ \A o \in Obj : Owns(o, r) <=> Owner(r) = o
  BY DEF Viewed
<1>1. alive \subseteq born /\ Sound
  BY DEF IInv, TypeOK, Waivers
<1>2. ASSUME NEW o \in Obj, NEW p \in Obj, Owns(o, r), Owns(p, r)
      PROVE  o = p
  BY <1>1, <1>2, ConstantsAssumption DEF Sound, Owns
<1>3. ASSUME NEW o \in Obj, Owns(o, r) PROVE r \in alive
  BY <1>1, <1>3, ConstantsAssumption DEF Sound, Owns
<1>4. CASE r \notin born
  BY <1>1, <1>3, <1>4, ConstantsAssumption DEF Owner
<1>5. CASE r \in born \ alive
  BY <1>1, <1>3, <1>5, ConstantsAssumption DEF Owner
<1>6. CASE r \in alive
  <2>1. PICK o \in Obj : Owns(o, r)
    BY <1>6 DEF IInv, NoLeak, Waivers
  <2>2. Owner(r) = CHOOSE p \in Obj : Owns(p, r)
    BY <1>1, <1>6 DEF Owner
  <2>3. Owner(r) \in Obj /\ Owns(Owner(r), r)
    BY <2>1, <2>2
  <2> QED
    BY <1>1, <1>2, <1>6, <2>3
<1> QED
  BY <1>4, <1>5, <1>6

(* What callers did is never forgotten.                                    *)
LEMMA WaiversStay ==
  ASSUME [Next]_vars, Waivers' = {}
  PROVE  Waivers = {}
<1>1. class' = class /\ misuse \subseteq misuse'
  BY DEF Next, vars, Construct, ConstructEmpty, Wrap, Copy, Move, CopyAssign,
         MoveAssign, Destroy, SetOwned, Step
<1> QED
  BY <1>1 DEF Waivers, Leaks, Has

(* What has to be shown of a step that waives nothing.                     *)
Plain == IInv /\ Waivers = {} /\ Waivers' = {} /\ Viewed /\ Viewed'

(* A step after which everybody owns what he owned is not noticed.         *)
Quiet ==
  \A r \in Res \ Ext :
    /\ r \in born' <=> r \in born
    /\ r \in alive' <=> r \in alive
    /\ \A q \in Obj : Owns(q, r)' <=> Owns(q, r)

LEMMA NothingPasses ==
  ASSUME Plain, Quiet
  PROVE  UNCHANGED [r \in Res \ Ext |->
                     IF Waivers = {} THEN Owner(r) ELSE "waived"]
<1>1. \A r \in Res \ Ext : Owner(r)' = Owner(r)
  BY DEF Plain, Viewed, Quiet
<1> QED
  BY <1>1 DEF Plain

(* o lets go of what it owns, and it is freed.                             *)
Releases(o) ==
  /\ \E r \in Res \ Ext : Owns(o, r)
  /\ \A r \in Res \ Ext :
       /\ r \in born' <=> r \in born
       /\ r \in alive' <=> r \in alive /\ ~Owns(o, r)
       /\ \A q \in Obj : Owns(q, r)' <=> Owns(q, r) /\ q # o

LEMMA OwnerReleases ==
  ASSUME Plain, NEW o \in Obj, Releases(o)
  PROVE  Ownership!Release(o)
<1>1. \A r \in Res \ Ext :
        Owner(r)' = IF Owner(r) = o THEN "gone" ELSE Owner(r)
  BY DEF Plain, Viewed, Releases
<1>2. \E r \in Res \ Ext : Owner(r) = o
  BY DEF Plain, Viewed, Releases
<1> QED
  BY <1>1, <1>2 DEF Plain, Ownership!Release, Ownership!Idle

(* o gets what p owns, and what o owned is freed.                          *)
Passes(p, o) ==
  /\ \E r \in Res \ Ext : Owns(p, r)
  /\ \A r \in Res \ Ext :
       /\ r \in born' <=> r \in born
       /\ r \in alive' <=> r \in alive /\ ~Owns(o, r)
       /\ \A q \in Obj :
            Owns(q, r)' <=> IF q = o THEN Owns(p, r) ELSE Owns(q, r) /\ q # p

LEMMA OwnerPasses ==
  ASSUME Plain, NEW p \in Obj, NEW o \in Obj, o # p, Passes(p, o)
  PROVE  Ownership!Pass(p, o)
<1>1. ASSUME NEW r \in Res \ Ext
      PROVE  Owner(r)' = CASE Owner(r) = o -> "gone"
                           [] Owner(r) = p -> o
                           [] OTHER -> Owner(r)
  <2>1. CASE Owner(r) = o
    BY <2>1 DEF Plain, Viewed, Passes
  <2>2. CASE Owner(r) = p
    BY <2>2 DEF Plain, Viewed, Passes
  <2>3. CASE Owner(r) \notin {o, p}
    BY <2>3 DEF Plain, Viewed, Passes
  <2> QED
    BY <2>1, <2>2, <2>3
<1>2. \E r \in Res \ Ext : Owner(r) = p
  BY DEF Plain, Viewed, Passes
<1> QED
  BY <1>1, <1>2 DEF Plain, Ownership!Pass, Ownership!Idle

(* The constructor that allocates finds an object that owns nothing.       *)
LEMMA ConstructRefines ==
  ASSUME Plain, NEW o \in Obj, NEW r \in Res, Construct(o, r)
  PROVE  Quiet \/ (r \in Res \ Ext /\ Ownership!Acquire(o, r))
<1> USE DEF Plain, IInv
<1>1. CASE res' = Put(res, o, Null)
  <2>1. Quiet
    BY <1>1, ConstantsAssumption
       DEF TypeOK, Construct, Step, Put, Quiet, Owns, Known, Sound, Waivers
  <2> QED
    BY <2>1
<1>2. CASE r \notin born /\ res' = Put(res, o, r) /\ own' = Put(own, o, TRUE)
           /\ exists' = exists \cup {o} /\ o \notin exists
           /\ born' = born \cup {r} /\ alive' = alive \cup {r}
  <2>1. r \in Res \ Ext /\ Owner(r) = "unborn"
    BY <1>2 DEF Sound, TypeOK, Waivers, Viewed
  <2>2. \A x \in Res \ Ext : ~Owns(o, x)
    BY <1>2 DEF Owns
  <2>3. ASSUME NEW x \in Res \ Ext
        PROVE  Owner(x)' = IF x = r THEN o ELSE Owner(x)
    <3>1. \A q \in Obj : Owns(q, x)' <=> IF q = o THEN x = r ELSE Owns(q, x)
      BY <1>2 DEF TypeOK, Owns, Put
    <3> QED
      BY <1>2, <2>2, <3>1 DEF Viewed
  <2>4. \A x \in Res \ Ext : Owner(x) # o
    BY <2>2 DEF Viewed
  <2> QED
    BY <2>1, <2>3, <2>4 DEF Ownership!Acquire, Ownership!Idle
<1> QED
  BY <1>1, <1>2 DEF TypeOK, Construct, Step, Put

(* Objects that do not own, made or copied, change nothing.                *)
LEMMA BorrowersRefine ==
  ASSUME Plain, NEW o \in Obj, NEW p, NEW r,
         ConstructEmpty(o) \/ Wrap(o, r) \/ Copy(o, p)
  PROVE  Quiet
BY ConstantsAssumption
   DEF Plain, IInv, TypeOK, Known, Sound, ConstructEmpty, Wrap, Copy, Step,
       Put, Quiet, Owns, Waivers

(* What o lets go of is freed, unless a caller waived that.                *)
LEMMA NobodyElseOwns ==
  ASSUME Plain, NEW o \in Obj, o \in exists, own[o], res[o] # Null
  PROVE  /\ res[o] \in Res \ Ext /\ res[o] \in alive /\ Owns(o, res[o])
         /\ Freed(o) = {res[o]}
         /\ \A q \in exists : own[q] /\ res[q] = res[o] => q = o
BY DEF Plain, IInv, TypeOK, Sound, Waivers, Owns, Freed

(* A new object takes over what the old one owned.                         *)
LEMMA MoveRefines ==
  ASSUME Plain, NEW o \in Obj, NEW p \in Obj, Move(o, p)
  PROVE  Quiet \/ (o # p /\ Passes(p, o))
<1> USE DEF Plain, IInv
<1>1. /\ born' = born /\ alive' = alive /\ exists' = exists \cup {o}
      /\ res' = Put(res, o, res[p])
      /\ own' = Put(Put(own, o, own[p]), p, FALSE)
      /\ o \notin exists /\ p \in exists
  <2>1. Put(res, o, res[p])[o] \in born \cup {Null}
    BY DEF TypeOK, Known, Put, Move
  <2> QED
    BY <2>1, ConstantsAssumption DEF Move, Step
<1>2. CASE own[p] /\ res[p] # Null
  BY <1>1, <1>2, NobodyElseOwns DEF Passes, Owns, Put, TypeOK
<1>3. CASE ~(own[p] /\ res[p] # Null)
  BY <1>1, <1>3, ConstantsAssumption DEF Quiet, Owns, Put, TypeOK
<1> QED
  BY <1>2, <1>3

(* A destroyed owner frees what it owns; any other destructor does nothing.*)
LEMMA DestroyRefines ==
  ASSUME Plain, NEW o \in Obj, Destroy(o)
  PROVE  Quiet \/ Releases(o)
<1> USE DEF Plain, IInv
<1>1. /\ born' = born /\ exists' = exists \ {o}
      /\ alive' = alive \ {r \in Freed(o) : Has("frees_on_destroy")}
      /\ res' = Put(res, o, Null) /\ own' = Put(own, o, FALSE)
      /\ own[o] /\ ~Has("frees_on_destroy") => "abandon" \in misuse'
      /\ class' = class /\ o \in exists
  <2>1. Put(res, o, Null)[o] \in born \cup {Null}
    BY DEF TypeOK, Put
  <2> QED
    BY <2>1, ConstantsAssumption DEF Destroy, Step
<1>2. own[o] => Has("frees_on_destroy")
  BY <1>1 DEF Waivers, Leaks, Has
<1>3. CASE own[o] /\ res[o] # Null
  BY <1>1, <1>2, <1>3, NobodyElseOwns DEF Releases, Owns, Put, TypeOK
<1>4. CASE ~(own[o] /\ res[o] # Null)
  BY <1>1, <1>4, ConstantsAssumption DEF Quiet, Owns, Put, TypeOK, Freed
<1> QED
  BY <1>3, <1>4

(* Who is assigned to and owned something frees it: in the other classes   *)
(* the assignment waived the promise.                                      *)
LEMMA TargetFrees ==
  ASSUME Plain, NEW o \in Obj, NEW p \in Obj, own[o], class' = class,
         AssignMisuse(o, p) \subseteq misuse'
  PROVE  Overwritten(o) = Freed(o)
BY DEF Plain, AssignMisuse, Overwritten, Waivers, Leaks, Has

LEMMA CopyAssignRefines ==
  ASSUME Plain, NEW o \in Obj, NEW p \in Obj, CopyAssign(o, p)
  PROVE  Quiet \/ Releases(o)
<1> USE DEF Plain, IInv
<1>1. /\ born' = born /\ exists' = exists /\ alive' = alive \ Overwritten(o)
      /\ res' = Put(res, o, res[p]) /\ own' = Put(own, o, FALSE)
      /\ AssignMisuse(o, p) \subseteq misuse'
      /\ class' = class /\ {o, p} \subseteq exists
  <2>1. Put(res, o, res[p])[o] \in born \cup {Null}
    BY DEF TypeOK, Known, Put, CopyAssign
  <2> QED
    BY <2>1, ConstantsAssumption DEF CopyAssign, Step
<1>2. CASE own[o] /\ res[o] # Null
  <2>1. alive' = alive \ {res[o]}
    BY <1>1, <1>2, NobodyElseOwns, TargetFrees
  <2> QED
    BY <1>1, <1>2, <2>1, NobodyElseOwns DEF Releases, Owns, Put, TypeOK
<1>3. CASE ~(own[o] /\ res[o] # Null)
  <2>1. Overwritten(o) \subseteq {Null}
    BY <1>3 DEF Overwritten, Freed
  <2> QED
    BY <1>1, <1>3, <2>1, ConstantsAssumption DEF Quiet, Owns, Put, TypeOK
<1> QED
  BY <1>2, <1>3

LEMMA MoveAssignRefines ==
  ASSUME Plain, NEW o \in Obj, NEW p \in Obj, MoveAssign(o, p)
  PROVE  Quiet \/ Releases(o) \/ (o # p /\ Passes(p, o))
<1> USE DEF Plain, IInv
<1>1. /\ born' = born /\ exists' = exists /\ alive' = alive \ Overwritten(o)
      /\ res' = Put(res, o, res[p])
      /\ own' = Put(Put(own, o, own[p]), p, FALSE)
      /\ AssignMisuse(o, p) \subseteq misuse'
      /\ class' = class /\ {o, p} \subseteq exists
  <2>1. Put(res, o, res[p])[o] \in born \cup {Null}
    BY DEF TypeOK, Known, Put, MoveAssign
  <2> QED
    BY <2>1, ConstantsAssumption DEF MoveAssign, Step
<1>2. CASE own[o] /\ res[o] # Null
  <2>1. alive' = alive \ {res[o]}
    BY <1>1, <1>2, NobodyElseOwns, TargetFrees
  <2>2. CASE o # p /\ own[p] /\ res[p] # Null
    BY <1>1, <1>2, <2>1, <2>2, NobodyElseOwns
       DEF Passes, Owns, Put, TypeOK
  <2>3. CASE ~(o # p /\ own[p] /\ res[p] # Null)
    <3>1. own'[o] /\ exists' = exists => res'[o] = Null
      BY <1>1, <2>3 DEF Put, TypeOK
    <3>2. \A q \in Obj \ {o} : q \in exists /\ own'[q] /\ res'[q] # Null <=>
            q \in exists /\ own[q] /\ res[q] # Null
      BY <1>1, <2>3 DEF Put, TypeOK
    <3>3. \A q \in Obj \ {o} : res'[q] = res[q]
      BY <1>1 DEF Put, TypeOK
    <3> QED
      BY <1>1, <1>2, <2>1, <3>1, <3>2, <3>3, NobodyElseOwns,
         ConstantsAssumption DEF Releases, Owns
  <2> QED
    BY <2>2, <2>3
<1>3. CASE ~(own[o] /\ res[o] # Null)
  <2>1. Overwritten(o) \subseteq {Null}
    BY <1>3 DEF Overwritten, Freed
  <2>2. CASE o # p /\ own[p] /\ res[p] # Null
    BY <1>1, <1>3, <2>1, <2>2, NobodyElseOwns, ConstantsAssumption
       DEF Passes, Owns, Put, TypeOK
  <2>3. CASE ~(o # p /\ own[p] /\ res[p] # Null)
    BY <1>1, <1>3, <2>1, <2>3, ConstantsAssumption
       DEF Quiet, Owns, Put, TypeOK
  <2> QED
    BY <2>2, <2>3
<1> QED
  BY <1>2, <1>3

(* set_owned that changes the flag waives the promise.                     *)
LEMMA SetOwnedRefines ==
  ASSUME Plain, NEW o \in Obj, NEW owned \in BOOLEAN, SetOwned(o, owned)
  PROVE  Quiet
<1> USE DEF Plain, IInv
<1>1. /\ born' = born /\ exists' = exists /\ alive' = alive /\ res' = res
      /\ own' = Put(own, o, owned) /\ class' = class
      /\ misuse' = misuse \cup ({m \in {"adopt"} : owned /\ ~own[o]}
                                  \cup {m \in {"disown"} : ~owned /\ own[o]})
  <2>1. res[o] \in born \cup {Null}
    BY DEF TypeOK, Known, SetOwned
  <2> QED
    BY <2>1, ConstantsAssumption DEF SetOwned, Step
<1>2. owned = own[o]
  <2>1. owned => own[o]
    BY <1>1 DEF Waivers
  <2>2. own[o] => owned
    BY <1>1 DEF Waivers, Leaks
  <2> QED
    BY <2>1, <2>2 DEF TypeOK
<1> QED
  BY <1>1, <1>2 DEF Quiet, Owns, Put, TypeOK

(* Every step is one of UniqueOwner, or is not noticed.                    *)
LEMMA NextRefines ==
  ASSUME IInv, IInv', Viewed, Viewed', [Next]_vars
  PROVE  [Ownership!Next]_([r \in Res \ Ext |->
                              IF Waivers = {} THEN Owner(r) ELSE "waived"])
<1>1. CASE Waivers' # {}
  BY <1>1 DEF Ownership!Next, Ownership!Waive
<1>2. CASE Waivers' = {}
  <2>1. Plain
    BY <1>2, WaiversStay DEF Plain
  <2>2. CASE UNCHANGED vars
    <3>1. Quiet
      BY <2>2 DEF vars, Quiet, Owns
    <3> QED
      BY <2>1, <3>1, NothingPasses
  <2>3. ASSUME NEW o \in Obj, NEW r \in Res, Construct(o, r)
        PROVE  Quiet \/ Ownership!Next
    BY <2>1, <2>3, ConstructRefines DEF Ownership!Next
  <2>4. ASSUME NEW o \in Obj, ConstructEmpty(o)
        PROVE  Quiet
    BY <2>1, <2>4, BorrowersRefine
  <2>5. ASSUME NEW o \in Obj, NEW r \in Res, Wrap(o, r)
        PROVE  Quiet
    BY <2>1, <2>5, BorrowersRefine
  <2>6. ASSUME NEW o \in Obj, NEW p \in Obj, Copy(o, p)
        PROVE  Quiet
    BY <2>1, <2>6, BorrowersRefine
  <2>7. ASSUME NEW o \in Obj, NEW p \in Obj,
               Move(o, p) \/ CopyAssign(o, p) \/ MoveAssign(o, p)
        PROVE  Quiet \/ Ownership!Next
    <3>1. Quiet \/ Releases(o) \/ (o # p /\ Passes(p, o))
      BY <2>1, <2>7, MoveRefines, CopyAssignRefines, MoveAssignRefines
    <3> QED
      BY <2>1, <3>1, OwnerReleases, OwnerPasses DEF Ownership!Next
  <2>8. ASSUME NEW o \in Obj, Destroy(o)
        PROVE  Quiet \/ Ownership!Next
    BY <2>1, <2>8, DestroyRefines, OwnerReleases DEF Ownership!Next
  <2>9. ASSUME NEW o \in Obj, NEW owned \in BOOLEAN, SetOwned(o, owned)
        PROVE  Quiet
    BY <2>1, <2>9, SetOwnedRefines
  <2>10. CASE Next
    <3>1. Quiet \/ Ownership!Next
      BY <2>3, <2>4, <2>5, <2>6, <2>7, <2>8, <2>9, <2>10 DEF Next
    <3> QED
      BY <2>1, <3>1, NothingPasses
  <2> QED
    BY <2>2, <2>10
<1> QED
  BY <1>1, <1>2

(* Nothing is born at first.                                               *)
LEMMA InitRefines == Init => Ownership!Init
BY DEF Init, Ownership!Init, Waivers, Owner

(* In each of the classes a resource has one owner from its allocation to  *)
(* its one release, until a caller does one of the Waivers of the class.   *)
THEOREM RefinesUniqueOwner == Spec => ImplementsUniqueOwner
<1>1. IInv /\ IInv' /\ Viewed /\ Viewed' /\ [Next]_vars
        => [Ownership!Next]_([r \in Res \ Ext |->
                                IF Waivers = {} THEN Owner(r) ELSE "waived"])
  BY NextRefines
<1> QED
  BY Invariance, View, InitRefines, <1>1, PTL
     DEF Spec, ImplementsUniqueOwner, Ownership!Spec
=============================================================================
