--------------------------- MODULE GroupRefinement --------------------------
(***************************************************************************)
(* Registration implements SocketGroup: the slots below max_idx, which are *)
(* those that udpgrm_reuseport_prog uses for new flows, with the sockets   *)
(* that can still be selected through sockhash.                            *)
(***************************************************************************)
EXTENDS Registration

SelectableRows ==
  [g \in GenIds |->
     [i \in 1 .. max_idx[g] |->
        IF cookies[g][i - 1] \in sockhash THEN cookies[g][i - 1] ELSE NoCookie]]

Group == INSTANCE SocketGroup WITH
           Closed <- NoCookie, Rows <- GenIds, MaxLen <- MAX_SOCKETS_IN_GEN,
           rows <- SelectableRows, closed <- bound \ LiveSockets

\* Without `udpgrm delete`, whatever the interleaving of applications and of
\* the daemon's map operations, each step is one of the abstract group or none:
\* a socket joins when its cookie or the longer max_idx is stored, whichever
\* makes the slot visible, and leaves when its last descriptor is closed.
ImplementsGroup == Group!Spec
=============================================================================
