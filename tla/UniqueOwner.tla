---------------------------- MODULE UniqueOwner ----------------------------
(* Unique ownership, what a class that wraps a resource is for: every      *)
(* resource has one owner from its allocation until that owner releases it *)
(* or passes it on, and an owner has one resource; until a user waives it. *)
CONSTANTS Obj, Res

VARIABLE owner   \* an object, or "unborn", or "gone"; at last "waived"

Init == owner = [r \in Res |-> "unborn"]

Idle(o) == \A r \in Res : owner[r] # o

Acquire(o, r) ==
  /\ Idle(o)
  /\ owner[r] = "unborn"
  /\ owner' = [owner EXCEPT ![r] = o]

Release(o) ==
  /\ ~Idle(o)
  /\ owner' = [r \in Res |-> IF owner[r] = o THEN "gone" ELSE owner[r]]

(* p passes what it owns, if anything, to o, which releases what it had.   *)
Pass(p, o) ==
  /\ o # p
  /\ ~Idle(p)
  /\ owner' = [r \in Res |-> CASE owner[r] = o -> "gone"
                               [] owner[r] = p -> o
                               [] OTHER -> owner[r]]

(* Somebody breaks the rules: nothing is promised from here on.            *)
Waive == owner' = [r \in Res |-> "waived"]

Next ==
  \/ Waive
  \/ \E o \in Obj, r \in Res : Acquire(o, r)
  \/ \E o \in Obj : Release(o)
  \/ \E o, p \in Obj : Pass(p, o)

Spec == Init /\ [][Next]_owner
=============================================================================
