-------------------------- MODULE MCBoundedReader --------------------------
(* Instances of BoundedReader for TLC.                                     *)
EXTENDS BoundedReader
=============================================================================
