---------------------------- MODULE MCEvBuffers ----------------------------
(* Instances of EvBuffers for TLC.                                         *)
EXTENDS EvBuffers, TLC

Symmetry == Permutations(Buf) \cup Permutations(Mem)
=============================================================================
