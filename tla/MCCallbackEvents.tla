-------------------------- MODULE MCCallbackEvents --------------------------
(* Instances of CallbackEvents for TLC.                                    *)
EXTENDS CallbackEvents, TLC

Symmetry == Permutations(Obj) \cup Permutations(Event)
=============================================================================
