---------------------------- MODULE MCActivation ----------------------------
(* Activation for TLC.                                                     *)
EXTENDS Activation

CONSTANTS s1, s2, s3

MCMine == <<s1, s2>>
\* A plain group that is advanced, the second application of one with two, and
\* the first one with a registration that is left to the service.
MCOptions ==
  {[dissector |-> Unset, app |-> Unset, register |-> TRUE, advance |-> TRUE],
   [dissector |-> 2, app |-> 1, register |-> TRUE, advance |-> FALSE],
   [dissector |-> 2, app |-> 0, register |-> FALSE, advance |-> FALSE]}
=============================================================================
