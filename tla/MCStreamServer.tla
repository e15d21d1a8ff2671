--------------------------- MODULE MCStreamServer ---------------------------
(* Instances of StreamServer for TLC.                                      *)
EXTENDS StreamServer, TLC

Symmetry == Permutations(Client) \cup Permutations(Addr)

AllRules == Rules
=============================================================================
