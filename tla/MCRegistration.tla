--------------------------- MODULE MCRegistration ---------------------------
(* Instances of Registration for TLC.                                      *)
EXTENDS GroupRefinement, TLC

SocketSymmetry == Permutations(Sockets)
FullSymmetry == Permutations(Sockets) \cup Permutations(Procs)
=============================================================================
