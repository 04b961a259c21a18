----------------------------- MODULE Activation -----------------------------
(***************************************************************************)
(* The socket activation helper, tools/udpgrm_activate.py, composed with   *)
(* the registration of sockets: it binds the sockets of the next service,  *)
(* sets up their group, leaves them in systemd's file descriptor store,    *)
(* has them registered one generation ahead of the working one, waits for  *)
(* the daemon, and may then direct new flows to them.                      *)
(*                                                                         *)
(* The helper's setsockopt() calls are retried on EAGAIN a few times, and  *)
(* so are its looks at the index of a socket.  Meanwhile the old service   *)
(* works on the same group, and the daemon takes its time, or dies.        *)
(***************************************************************************)
EXTENDS Registration

CONSTANTS
  Helper, Service, Systemd,   \* the processes
  Mine,                \* the helper's sockets, in the order it creates them
  MaxTries,            \* 8 in the code, for calls and for looks
  Options              \* options of the helper that are tried

Count == Len(Mine)
Others == Sockets \ {Mine[n] : n \in 1 .. Count}

\* The helper has one thread and creates every socket anew.
ASSUME ProcessAssumption ==
  /\ Procs = {Helper, Service, Systemd} /\ "leader" \in Callers
  /\ Helper # Service /\ Helper # Systemd /\ Service # Systemd
ASSUME HelperAssumption ==
  /\ Mine \in Seq(Sockets) /\ Count > 0 /\ MaxTries \in Nat /\ MaxTries > 1
  /\ \A m, n \in 1 .. Count : Mine[m] = Mine[n] => m = n
  /\ Options \subseteq [dissector : DissectorApps \cup {Unset}, app : Apps \cup {Unset},
                        register : BOOLEAN, advance : BOOLEAN]

VARIABLES opts, act    \* the helper: its options and its locals

helperVars == <<opts, act>>
allVars == <<vars, helperVars>>

Labels == {"bind", "dissector", "app", "remove", "store", "read", "gen", "poll",
           "advance", "done", "failed", "exited"}
Locals == [at : Labels, n : 1 .. Count, tries : 0 .. MaxTries - 1,
           working_gen : WorkingGens \cup {0, Unset}, success : BOOLEAN]

HelperInit ==
  /\ Init
  /\ opts \in Options
  /\ act = [at |-> "bind", n |-> 1, tries |-> 0, working_gen |-> Unset,
            success |-> FALSE]

fd == Mine[act.n]
next_gen == act.working_gen + 1

\* To another step, for the same socket; or for the next socket, if there is
\* one, and otherwise on, with the first socket or the last one at hand.
Goto(label) == act' = [act EXCEPT !.at = label, !.tries = 0]
NextSocket(label, on, n) ==
  act' = IF act.n < Count
           THEN [act EXCEPT !.at = label, !.tries = 0, !.n = @ + 1]
           ELSE [act EXCEPT !.at = on, !.tries = 0, !.n = n]
Fail == Goto("failed")

\* retrying_setsockopt: EAGAIN is tried again; after the last try the function
\* returns as if it had succeeded.
Again(proceed) ==
  IF act.tries + 1 < MaxTries THEN act' = [act EXCEPT !.tries = @ + 1] ELSE proceed

\* All that a call that fails has changed is that there is a group.
GroupOnly == CreateGroup(fd, Helper) \/ (exists /\ UNCHANGED vars)

\* A full ring.  Other groups, which are not modelled here, post on the same
\* ring, so that a call may meet this at any time.
Eagain == GroupOnly

(***************************************************************************)
(* Sockets and their group.                                                *)
(***************************************************************************)
\* The dissector is set with the first socket, the application with each.
AfterDissector ==
  IF opts.app # Unset THEN Goto("app") ELSE NextSocket("bind", "remove", 1)

BindSocket ==
  /\ act.at = "bind"
  /\ Bind(fd, Helper)
  /\ IF act.n = 1 /\ opts.dissector # Unset THEN Goto("dissector") ELSE AfterDissector

\* UDP_GRM_DISSECTOR: of a group that exists it only compares, EPERM.  The
\* dissector is told by its number of applications.
DissectorRefused_Never == FALSE
DissectorRefused == exists /\ max_apps # opts.dissector

RequestDissector ==
  /\ act.at = "dissector"
  /\ \/ SetDissector(fd, Helper, opts.dissector) /\ AfterDissector
     \/ exists /\ ~DissectorRefused /\ UNCHANGED vars /\ AfterDissector
     \/ DissectorRefused /\ UNCHANGED vars /\ Fail
     \/ ~exists /\ Eagain /\ Again(AfterDissector)

\* UDP_GRM_SOCKET_APP: an application beyond those of the group is refused,
\* unless the socket has it already.
RequestApp ==
  /\ act.at = "app"
  /\ \/ SetSocketApp(fd, Helper, opts.app) /\ NextSocket("bind", "remove", 1)
     \/ /\ opts.app = sk[fd].sock_app
        /\ GroupOnly
        /\ NextSocket("bind", "remove", 1)
     \/ /\ opts.app # sk[fd].sock_app /\ opts.app >= max_apps
        /\ GroupOnly
        /\ Fail

(***************************************************************************)
(* The file descriptor store: what was there goes, all sockets come in.    *)
(***************************************************************************)
FdStoreRemove ==
  /\ act.at = "remove"
  /\ holders' = [x \in Sockets |-> holders[x] \ {Systemd}]
  /\ Release(holders', f)
  /\ Goto("store")
  /\ UNCHANGED <<groupVars, metricVars, bound, exited, sk, ring, pc, localVars,
                 state_ptr>>

FdStore ==
  /\ act.at = "store"
  /\ holders' = [x \in Sockets |-> holders[x] \cup
                                     (IF x \in Others THEN {} ELSE {Systemd})]
  /\ Goto(IF opts.register THEN "read" ELSE "done")
  /\ UNCHANGED <<groupVars, metricVars, bound, exited, sk, sockhash, attached,
                 ring, pc, localVars, state_ptr>>

(***************************************************************************)
(* Registration ahead of the working generation.                           *)
(***************************************************************************)
\* getsockopt(UDP_GRM_WORKING_GEN): -1 if there is no group yet.
ReadWorkingGen ==
  /\ act.at = "read"
  /\ act' = [act EXCEPT !.at = "gen", !.tries = 0,
                        !.working_gen = IF exists THEN working_gen[sk[fd].sock_app]
                                                  ELSE Unset]
  /\ UNCHANGED vars

NextRequest_Repeat == Again(NextSocket("gen", "poll", 1))
NextRequest == NextSocket("gen", "poll", 1)
RequestGen ==
  /\ act.at = "gen"
  /\ \/ SetSocketGen(fd, Helper, "leader", next_gen) /\ NextRequest
     \/ Eagain /\ Again(NextRequest)

\* getsockopt(UDP_GRM_SOCKET_GEN) until the index is valid, MaxTries times.
Registered_Set == sk[fd].sock_gen # Unset
Registered == sk[fd].sock_idx # Unset
NotYet_Forever == UNCHANGED act
NotYet ==
  IF act.tries + 1 < MaxTries THEN act' = [act EXCEPT !.tries = @ + 1] ELSE Fail

Succeed == act' = [act EXCEPT !.at = "done", !.tries = 0, !.success = TRUE]
AfterPoll ==
  IF act.n < Count \/ opts.advance THEN NextSocket("poll", "advance", Count)
                                   ELSE Succeed
Poll ==
  /\ act.at = "poll"
  /\ IF Registered THEN AfterPoll ELSE NotYet
  /\ UNCHANGED vars

AdvanceWorkingGen ==
  /\ act.at = "advance"
  /\ \/ SetWorkingGen(fd, Helper, next_gen) /\ Succeed
     \/ Eagain /\ Again(Succeed)

\* The end of the program, also by sys.exit(1), closes its sockets.
HelperExit ==
  /\ act.at \in {"done", "failed"}
  /\ Exit(Helper)
  /\ Goto("exited")

HelperStep ==
  /\ \/ BindSocket \/ RequestDissector \/ RequestApp \/ FdStoreRemove \/ FdStore
     \/ ReadWorkingGen \/ RequestGen \/ Poll \/ AdvanceWorkingGen \/ HelperExit
  /\ UNCHANGED opts

\* The start-up timeout of systemd may end the helper at any point.
HelperKilled == Exit(Helper) /\ Goto("exited") /\ UNCHANGED opts

\* The old service works with its own sockets, of which systemd has copies.
ServiceStep ==
  /\ \E x \in Others :
       \/ Bind(x, Service) \/ Close(x, Service) \/ Pass(x, Service, Systemd)
       \/ \E g \in WorkingGens \cup {0} :
            sk[x].sock_gen \in {g, Unset} /\ SetSocketGen(x, Service, "leader", g)
       \/ \E g \in WorkingGens : SetWorkingGen(x, Service, g)
       \/ \E n \in DissectorApps : SetDissector(x, Service, n)
  /\ UNCHANGED helperVars

DaemonStep == Daemon /\ UNCHANGED helperVars

\* The daemon may die at any moment.
DaemonDies == pc # "dead" /\ DaemonExit /\ UNCHANGED helperVars

ActivationNext == HelperStep \/ HelperKilled \/ ServiceStep \/ DaemonStep \/ DaemonDies

\* The helper goes on; nothing is assumed of the daemon and of the service.
ActivationSpec ==
  HelperInit /\ [][ActivationNext]_allVars /\ WF_allVars(HelperStep)

(***************************************************************************)
(* Properties.                                                             *)
(***************************************************************************)
MineSet == Sockets \ Others
RowOf(x) == Row(max_apps, sk[x].sock_app, next_gen)

\* When the helper advances the working generation, or ends with success after
\* having waited, every one of its sockets is in the row that it asked for,
\* below max_idx and in sockhash: no new flow that is sent there is lost,
\* although calls were retried, given up, or made while the daemon was behind.
SuccessMeansRegistered ==
  act.at = "advance" \/ act.success =>
    \A x \in MineSet \cap LiveSockets :
      \E i \in 0 .. max_idx[RowOf(x)] - 1 : cookies[RowOf(x)][i] = x /\ x \in sockhash

\* A retry is never made of a request that is in the ring already: none of the
\* helper's sockets gets two slots.
HelperRegistersOnce ==
  \A x \in MineSet \cap LiveSockets, g, h \in GenIds, i, j \in Idx :
    cookies[g][i] = x /\ cookies[h][j] = x => g = h /\ i = j

\* A helper that goes on after UDP_GRM_DISSECTOR has the dissector it asked for,
\* although EAGAIN leaves a group with the default one and the retry loop takes
\* running out of tries for success.
DissectorAsAsked ==
  act.at \in {"app", "remove", "store", "read", "gen", "poll", "advance", "done"}
    /\ opts.dissector # Unset => max_apps = opts.dissector

\* The helper ends, whatever the daemon does: every wait is bounded.
HelperEnds == <>(act.at = "exited")
=============================================================================
