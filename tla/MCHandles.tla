----------------------------- MODULE MCHandles -----------------------------
(* Instances of Handles for TLC.                                           *)
EXTENDS Handles, TLC

AllClasses == Classes

Symmetry == Permutations(Obj) \cup Permutations(Res \ Ext)
=============================================================================
