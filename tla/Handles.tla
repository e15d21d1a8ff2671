------------------------------ MODULE Handles ------------------------------
(***************************************************************************)
(* The classes of phosg-event that wrap a libevent resource: a pointer and *)
(* an "owned" flag, constructors, assignments, a destructor. All of them   *)
(* are written by hand after one pattern but differ in details (who frees  *)
(* on assignment, who checks for null, ...), so one module models the      *)
(* pattern and class says which class a behaviour is about. EvBuffer's     *)
(* LockGuard fits the pattern too: its resource is one acquisition of the  *)
(* lock, freeing it is unlocking, and it owns whatever it points to.       *)
(*                                                                         *)
(* An object is a place in memory: it may be destroyed and another object  *)
(* constructed there. libevent calls back with the address of the object   *)
(* that created the resource, wherever the resource has moved since.       *)
(*                                                                         *)
(* misuse records what callers have done so far; each property says on     *)
(* which of these it depends, and so which uses of a class are safe.       *)
(***************************************************************************)
CONSTANTS
  Class,    \* classes considered, from Classes
  Obj,      \* places for wrapper objects
  Res,      \* libevent resources (bounds the number of allocations)
  Ext,      \* those that libevent itself owns (such as a bufferevent's input)
  Null,     \* the null pointer
  NoObj     \* "nobody is called back"

(* What distinguishes the classes:                                         *)
(* copy              it can be copied                                      *)
(* wrap              it can be made from a raw pointer, not owning it      *)
(* empty             its default constructor makes it point nowhere        *)
(* unchecked         its constructor accepts that the allocation failed    *)
(* frees_on_assign   operator= frees what it owns before overwriting it    *)
(* frees_on_destroy  the destructor frees what it owns                     *)
(* null_safe         what is freed is checked for null first               *)
(* set_owned         ownership can be given or taken from outside          *)
(* called_back       its resource calls back the object that created it    *)
EventFeatures ==
  {"copy", "wrap", "empty", "frees_on_assign", "frees_on_destroy",
   "null_safe", "called_back"}
EventBaseFeatures == {"copy", "wrap", "frees_on_destroy", "null_safe"}
EvBufferFeatures ==
  {"copy", "wrap", "unchecked", "frees_on_assign", "frees_on_destroy",
   "set_owned"}
LockGuardFeatures == {"frees_on_destroy", "null_safe"}
ListenerFeatures ==
  {"copy", "wrap", "frees_on_destroy", "null_safe", "set_owned",
   "called_back"}
BufferEventFeatures ==
  {"copy", "wrap", "frees_on_destroy", "null_safe", "called_back"}
EvDNSBaseFeatures ==
  {"copy", "wrap", "unchecked", "frees_on_destroy", "null_safe"}
EvHTTPRequestFeatures ==
  {"copy", "wrap", "unchecked", "null_safe", "called_back"}

Features == [
  Event |-> EventFeatures, EventBase |-> EventBaseFeatures,
  EvBuffer |-> EvBufferFeatures, LockGuard |-> LockGuardFeatures,
  Listener |-> ListenerFeatures, BufferEvent |-> BufferEventFeatures,
  EvDNSBase |-> EvDNSBaseFeatures, EvHTTPRequest |-> EvHTTPRequestFeatures]

Classes == DOMAIN Features

(* adopt, disown: set_owned on an object that does not own, or owns        *)
(* self_assign:   x = x or x = move(x) with x an owner                     *)
(* overwrite:     another object is assigned to an owner                   *)
(* move:          ownership moved to another object                        *)
(* abandon:       an owner of a class that never frees is destroyed        *)
(* null:          an object was constructed although there was no memory   *)
Misuses ==
  {"adopt", "disown", "self_assign", "overwrite", "move", "abandon", "null"}

ASSUME ConstantsAssumption ==
  /\ Class \subseteq Classes
  /\ Ext \subseteq Res
  /\ Null \notin Res
  /\ NoObj \notin Obj
  /\ Obj \cap {"unborn", "gone", "waived"} = {}   \* not objects to Owner

VARIABLES
  class,   \* the class this behaviour is about; never changes
  exists,  \* places that hold an object
  res,     \* the pointer of each object
  own,     \* its "owned" flag (for LockGuard: its pointer is not null)
  born,    \* resources allocated so far
  alive,   \* resources allocated and not freed
  ctx,     \* whom the resource calls back
  fault,   \* something was freed that was not there to be freed
  misuse   \* history of what callers did

vars == <<class, exists, res, own, born, alive, ctx, fault, misuse>>

TypeOK ==
  /\ class \in Class
  /\ exists \subseteq Obj
  /\ res \in [Obj -> Res \cup {Null}]
  /\ own \in [Obj -> BOOLEAN]
  /\ born \subseteq Res
  /\ alive \subseteq born
  /\ ctx \in [Res -> Obj \cup {NoObj}]
  /\ fault \in BOOLEAN
  /\ misuse \subseteq Misuses

-----------------------------------------------------------------------------
Has(f) == f \in Features[class]

(* How a resource of the class can be left without an owner.               *)
Leaks ==
  {"disown"}
    \cup {m \in {"overwrite", "self_assign"} : ~Has("frees_on_assign")}
    \cup {m \in {"abandon"} : ~Has("frees_on_destroy")}

(* What o frees when it lets go of its resource.                           *)
Freed(o) ==
  {r \in {res[o]} : own[o] /\ (r # Null \/ ~Has("null_safe"))}

(* A step of object o that installs new objects and frees what is in rs;   *)
(* m is the misuse it consists of.                                         *)
Step(o, newExists, newRes, newOwn, rs, m) ==
  LET fresh == {r \in {newRes[o]} \cap Res : o \in newExists /\ r \notin born}
  IN /\ ~fault
     /\ exists' = newExists
     /\ res' = newRes
     /\ own' = newOwn
     /\ born' = born \cup fresh
     /\ alive' = (alive \ rs) \cup fresh
     /\ fault' = ~(rs \subseteq alive)
     /\ misuse' = misuse \cup m
     /\ UNCHANGED class

Put(f, o, v) == [f EXCEPT ![o] = v]

-----------------------------------------------------------------------------
Init ==
  /\ class \in Class
  /\ exists = {}
  /\ res = [o \in Obj |-> Null]
  /\ own = [o \in Obj |-> FALSE]
  /\ born = Ext
  /\ alive = Ext
  /\ ctx = [r \in Res |-> NoObj]
  /\ fault = FALSE
  /\ misuse = {}

(* The constructor that allocates r. When the allocation fails it throws   *)
(* (no object, nothing changes), or leaves an owner of null.               *)
Construct(o, r) ==
  /\ o \notin exists
  /\ \/ /\ r \notin born
        /\ Step(o, exists \cup {o}, Put(res, o, r), Put(own, o, TRUE), {}, {})
        /\ ctx' = [ctx EXCEPT ![r] = IF Has("called_back") THEN o ELSE NoObj]
     \/ /\ Has("unchecked")
        /\ r \notin born
        /\ Step(o, exists \cup {o}, Put(res, o, Null), Put(own, o, TRUE), {},
                {"null"})
        /\ UNCHANGED ctx

(* The default constructor of Event.                                       *)
ConstructEmpty(o) ==
  /\ o \notin exists
  /\ Has("empty")
  /\ Step(o, exists \cup {o}, Put(res, o, Null), Put(own, o, FALSE), {}, {})
  /\ UNCHANGED ctx

(* The constructor from a raw pointer to a live resource.                  *)
Wrap(o, r) ==
  /\ o \notin exists
  /\ Has("wrap")
  /\ r \in alive
  /\ Step(o, exists \cup {o}, Put(res, o, r), Put(own, o, FALSE), {}, {})
  /\ UNCHANGED ctx

(* Mutant: a copy of an owner is an owner.                                 *)
Copy_Shares(o, p) ==
  /\ o \notin exists
  /\ p \in exists
  /\ Has("copy")
  /\ Step(o, exists \cup {o}, Put(res, o, res[p]), Put(own, o, own[p]), {}, {})
  /\ UNCHANGED ctx

Copy(o, p) ==
  /\ o \notin exists
  /\ p \in exists
  /\ Has("copy")
  /\ Step(o, exists \cup {o}, Put(res, o, res[p]), Put(own, o, FALSE), {}, {})
  /\ UNCHANGED ctx

(* Mutant: the source of a move goes on owning.                            *)
Move_Shares(o, p) ==
  /\ o \notin exists
  /\ p \in exists
  /\ Step(o, exists \cup {o}, Put(res, o, res[p]), Put(own, o, own[p]), {},
          {m \in {"move"} : own[p]})
  /\ UNCHANGED ctx

Move(o, p) ==
  /\ o \notin exists
  /\ p \in exists
  /\ Step(o, exists \cup {o}, Put(res, o, res[p]),
          Put(Put(own, o, own[p]), p, FALSE), {},
          {m \in {"move"} : own[p]})
  /\ UNCHANGED ctx

(* Mutant: no operator= frees anything.                                    *)
Overwritten_Nothing(o) == {}

(* What operator= frees, and what assigning p to o amounts to.             *)
Overwritten(o) == {r \in Freed(o) : Has("frees_on_assign")}

AssignMisuse(o, p) ==
  {m \in {"self_assign"} : own[o] /\ o = p}
    \cup {m \in {"overwrite"} : own[o] /\ o # p}

(* Mutant: operator= leaves the flag as it was.                            *)
CopyAssign_KeepsFlag(o, p) ==
  /\ {o, p} \subseteq exists
  /\ Has("copy")
  /\ Step(o, exists, Put(res, o, res[p]), own, Overwritten(o),
          AssignMisuse(o, p))
  /\ UNCHANGED ctx

CopyAssign(o, p) ==
  /\ {o, p} \subseteq exists
  /\ Has("copy")
  /\ Step(o, exists, Put(res, o, res[p]), Put(own, o, FALSE), Overwritten(o),
          AssignMisuse(o, p))
  /\ UNCHANGED ctx

(* Ownership is read before the flag of the source is cleared, so x =      *)
(* move(x) clears it.                                                      *)
MoveAssign(o, p) ==
  /\ {o, p} \subseteq exists
  /\ Step(o, exists, Put(res, o, res[p]), Put(Put(own, o, own[p]), p, FALSE),
          Overwritten(o), AssignMisuse(o, p) \cup {m \in {"move"} : own[p]})
  /\ UNCHANGED ctx

(* Mutant: no destructor frees anything.                                   *)
Destroy_Abandons(o) ==
  /\ o \in exists
  /\ Step(o, exists \ {o}, Put(res, o, Null), Put(own, o, FALSE), {}, {})
  /\ UNCHANGED ctx

Destroy(o) ==
  /\ o \in exists
  /\ Step(o, exists \ {o}, Put(res, o, Null), Put(own, o, FALSE),
          {r \in Freed(o) : Has("frees_on_destroy")},
          {m \in {"abandon"} : own[o] /\ ~Has("frees_on_destroy")})
  /\ UNCHANGED ctx

SetOwned(o, owned) ==
  /\ o \in exists
  /\ Has("set_owned")
  /\ Step(o, exists, res, Put(own, o, owned), {},
          {m \in {"adopt"} : owned /\ ~own[o]}
            \cup {m \in {"disown"} : ~owned /\ own[o]})
  /\ UNCHANGED ctx

Next ==
  \/ \E o \in Obj, r \in Res : Construct(o, r) \/ Wrap(o, r)
  \/ \E o \in Obj : ConstructEmpty(o) \/ Destroy(o)
  \/ \E o, p \in Obj :
       Copy(o, p) \/ Move(o, p) \/ CopyAssign(o, p) \/ MoveAssign(o, p)
  \/ \E o \in Obj, owned \in BOOLEAN : SetOwned(o, owned)

Spec == Init /\ [][Next]_vars

-----------------------------------------------------------------------------
Owns(o, r) == o \in exists /\ own[o] /\ res[o] = r

(* Whatever mixture of copies, moves, assignments (of an object to itself  *)
(* included) and destructions: two objects own the same resource only      *)
(* after set_owned(true).                                                  *)
OneOwner ==
  \A r \in Res, o, p \in Obj :
    Owns(o, r) /\ Owns(p, r) /\ o # p => "adopt" \in misuse

(* The resource of an owner has not been freed.                            *)
OwnersLive ==
  \A o \in Obj, r \in Res : Owns(o, r) => r \in alive \/ "adopt" \in misuse

(* Nothing is freed twice, nor null freed, unless set_owned(true) was      *)
(* called or an EvBuffer was constructed when there was no memory.         *)
NoBadFree ==
  fault => \/ "adopt" \in misuse
           \/ class = "EvBuffer" /\ "null" \in misuse

(* libevent's own resources are never freed through a wrapper.             *)
ExternalsLive == Ext \subseteq alive \/ "adopt" \in misuse

(* A resource that no object owns any more has leaked: through             *)
(* set_owned(false); through assignment to an owner or to itself, in the   *)
(* classes whose operator= frees nothing; or because it is an              *)
(* EvHTTPRequest, which frees nothing at all.                              *)
NoLeak ==
  \A r \in alive \ Ext : (\E o \in Obj : Owns(o, r)) \/ misuse \cap Leaks # {}

(* libevent calls back the owner of the resource unless ownership moved    *)
(* (then it calls the object that had it first, or what is in its place)   *)
(* or was lost.                                                            *)
CallbackReachesOwner ==
  \A r \in alive :
    ctx[r] # NoObj => Owns(ctx[r], r) \/ misuse \cap (Leaks \cup {"move"}) # {}

(* What callers did to give up unique ownership, if anything.              *)
Waivers == misuse \cap (Leaks \cup {"adopt"})

(* The abstract view: who owns each resource that was made by a wrapper.   *)
Owner(r) ==
  IF r \notin born THEN "unborn"
  ELSE IF r \notin alive THEN "gone"
  ELSE CHOOSE o \in Obj : Owns(o, r)

Ownership == INSTANCE UniqueOwner WITH
  Res <- Res \ Ext,
  owner <- [r \in Res \ Ext |-> IF Waivers = {} THEN Owner(r) ELSE "waived"]

(* Each class implements unique ownership: from its allocation to its one  *)
(* release a resource has exactly one owner, until a caller does one of    *)
(* the Waivers, which depend on the class.                                 *)
ImplementsUniqueOwner == Ownership!Spec
=============================================================================
