---------------------------- MODULE MCLifecycle -----------------------------
(***************************************************************************)
(* Lifecycle for TLC.                                                      *)
(***************************************************************************)
EXTENDS Lifecycle

MCHookSeq == <<"udp4_sendmsg", "inet4_bind">>
MCSendmsgHooks == {"udp4_sendmsg"}

\* README.md, "Upgrading udpgrm daemon": hooks are installed by `udpgrm --install`
\* and not by the daemon.
RecommendedSpec ==
  /\ LifeInit /\ LifeFairness
  /\ [][LifeNext /\ ~me'["daemon"].install]_lifeVars
============================================================================
