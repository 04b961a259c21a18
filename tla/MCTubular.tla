----------------------------- MODULE MCTubular ------------------------------
(* Instances of Tubular for TLC.                                           *)
EXTENDS Tubular

CONSTANTS s1, s2, s3, s4, ga, gb

\* Two applications of one group, with a row each, and a second group.
TwoGroups == [x \in Sockets |-> IF x = s4 THEN gb ELSE ga]
TwoApps == [x \in Sockets |-> IF x = s3 THEN 1 ELSE 0]
TwoGens == [x \in Sockets |-> IF x = s3 THEN 1 ELSE 0]
=============================================================================
