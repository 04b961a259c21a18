-------------------------- MODULE ActivationProofs --------------------------
(***************************************************************************)
(* Proofs about Activation, for every number of sockets of the helper and  *)
(* of the service, every set of options, and any number of tries above 1.  *)
(* Generations are all natural numbers, since the helper counts up from    *)
(* whatever the service has set.                                           *)
(***************************************************************************)
EXTENDS Activation, RegistrationProofs

(***************************************************************************)
(* The invariant.                                                          *)
(***************************************************************************)
\* The index that a living socket was told is below max_idx, also while the
\* daemon is between two stores for another socket, and after its death.
IndexedCovered(x) ==
  sk[x].sock_idx # Unset =>
    sk[x].sock_idx < max_idx[Row(max_apps, sk[x].sock_app, sk[x].sock_gen)]
CoveredInv == \A x \in LiveSockets : IndexedCovered(x)

\* Registration, whose daemon may die here at any moment.
GroupSide == FullInv /\ TableInv /\ DesignInv /\ CoveredInv

\* The helper's locals, and what it was asked for at the steps that use it.
HelperType ==
  /\ opts \in Options /\ act \in Locals
  /\ act.at = "dissector" => opts.dissector # Unset
  /\ act.at = "app" => opts.app # Unset

\* Where the sockets are made; where none of them has a generation yet.
Making == {"bind", "dissector", "app"}
Early == Making \cup {"remove", "store", "read"}
Created(n) ==
  \/ act.at = "bind" /\ n < act.n
  \/ act.at \in {"dissector", "app"} /\ n <= act.n
  \/ act.at \notin Making \cup {"failed", "exited"}
NotAsked(n) == act.at \in Early \/ (act.at = "gen" /\ n >= act.n)

\* The helper keeps its sockets until it ends.
HeldInv == \A n \in 1 .. Count : Created(n) => Helper \in holders[Mine[n]]

\* A message for socket x at place k of the ring.
WaitsAt(k, x) == ring[k] \in RegisterMsg /\ ring[k].cookie = x

\* A socket whose generation was not asked for is neither in the ring nor in
\* the table; one that was asked for has the generation after the one read.
FreshSocket(x) ==
  /\ sk[x].sock_gen = Unset
  /\ \A k \in 1 .. Len(ring) : ~WaitsAt(k, x)
  /\ \A g \in GenIds, i \in Idx : cookies[g][i] # x
AskInv ==
  \A n \in 1 .. Count :
    /\ NotAsked(n) => FreshSocket(Mine[n])
    /\ sk[Mine[n]].sock_gen \in {Unset, next_gen}

\* Sockets that the helper has seen with an index.
PollInv ==
  \A n \in 1 .. Count :
    (act.at = "poll" /\ n < act.n) \/ act.at = "advance" \/ act.success
      => sk[Mine[n]].sock_idx # Unset

\* A socket of the helper is in the ring once, or in the table once, or in both
\* while the daemon is finishing, or died with, this very message.
Finishing == {"max_idx", "sock_idx", "attach", "done", "dead"}
OnceAt(x) ==
  /\ \A j, k \in 1 .. Len(ring) : WaitsAt(j, x) /\ WaitsAt(k, x) => j = k
  /\ \A g, h \in GenIds, i, j \in Idx :
       cookies[g][i] = x /\ cookies[h][j] = x => g = h /\ i = j
  /\ \A k \in 1 .. Len(ring), g \in GenIds, i \in Idx :
       WaitsAt(k, x) /\ cookies[g][i] = x => k = 1 /\ pc \in Finishing
OnceInv == \A n \in 1 .. Count : OnceAt(Mine[n])

\* Once the helper is past UDP_GRM_DISSECTOR, the group has what it asked for;
\* a try that got EAGAIN left a group, so that the next one is decided.
PastDissector ==
  \/ act.at = "bind" /\ act.n > 1
  \/ act.at \notin {"bind", "dissector", "failed", "exited"}
AskedInv ==
  opts.dissector # Unset =>
    /\ PastDissector => exists /\ max_apps = opts.dissector
    /\ act.at = "dissector" /\ act.tries > 0 => exists

HelperSide == HelperType /\ HeldInv /\ AskInv /\ PollInv /\ OnceInv /\ AskedInv
ActInv == GroupSide /\ HelperSide

(***************************************************************************)
(* The side of the group: Registration's invariants under the helper's     *)
(* steps, those of the file descriptor store and the death of the daemon.  *)
(***************************************************************************)
\* Steps that leave the storage, the lengths and the dissector alone, and that
\* bring no socket to life, keep indices covered.
LEMMA CoveredFrame ==
  ASSUME CoveredInv, UNCHANGED <<sk, max_idx, max_apps>>,
         LiveSockets' \subseteq LiveSockets
  PROVE  CoveredInv'
  BY DEF CoveredInv, IndexedCovered

\* Calls of applications keep indices covered: a socket that has an index
\* keeps its generation and its application, and its group its dissector.
LEMMA CoveredAppStep ==
  GroupSide /\ Application => CoveredInv'
<1> SUFFICES ASSUME GroupSide, Application PROVE CoveredInv'
  OBVIOUS
<1>1. TypeOK /\ SocketInv /\ IndexInv /\ CoveredInv /\ AppFrame
  BY AppFrameHolds DEF GroupSide, FullInv, DesignInv, AppAction
<1>2. LiveSockets \subseteq Sockets
  BY <1>1 DEF LiveSockets, Alive, TypeOK, SocketType
<1> USE <1>1, <1>2 DEF groupVars, metricVars, procVars, localVars
<1>3. ASSUME NEW x \in Sockets, NEW p \in Procs, Bind(x, p)
      PROVE  CoveredInv'
  <2>1. /\ sk'[x].sock_idx = Unset
        /\ \A y \in Sockets : y # x => sk'[y] = sk[y]
        /\ UNCHANGED <<max_idx, max_apps>>
        /\ LiveSockets' \subseteq LiveSockets \cup {x}
    BY <1>3 DEF Bind, LiveSockets, Alive, TypeOK, SocketType, Storage
  <2> QED
    BY <2>1 DEF CoveredInv, IndexedCovered
<1>4. ASSUME NEW x \in Sockets, NEW p \in Procs,
             Close(x, p) \/ CreateGroup(x, p) \/ \E q \in Procs : Pass(x, p, q)
      PROVE  CoveredInv'
  BY <1>4, CoveredFrame
  DEF Close, CreateGroup, Pass, LiveSockets, Alive, SocketInv, TypeOK, SocketType
<1>5. ASSUME NEW p \in Procs, Exit(p)
      PROVE  CoveredInv'
  BY <1>5, CoveredFrame DEF Exit, LiveSockets, Alive, TypeOK, SocketType
<1>6. ASSUME NEW x \in Sockets, NEW p \in Procs, NEW t \in Callers,
             NEW g \in Gens, sk[x].sock_gen \in {g, Unset},
             SetSocketGen(x, p, t, g)
      PROVE  CoveredInv'
  <2>1. /\ UNCHANGED <<max_idx, max_apps>> /\ LiveSockets' = LiveSockets
        /\ sk' = [sk EXCEPT ![x].sock_gen = g]
    BY <1>6 DEF SetSocketGen, LiveSockets, Alive
  <2>2. \A y \in Sockets :
          /\ sk'[y].sock_idx = sk[y].sock_idx /\ sk'[y].sock_app = sk[y].sock_app
          /\ sk[y].sock_gen # Unset => sk'[y].sock_gen = sk[y].sock_gen
    BY <1>6, <2>1 DEF TypeOK, SocketType, Storage
  <2> QED
    BY <2>1, <2>2 DEF CoveredInv, IndexedCovered, IndexInv
<1>7. ASSUME NEW x \in Sockets, NEW p \in Procs, NEW g \in WorkingGens,
             SetWorkingGen(x, p, g)
      PROVE  CoveredInv'
  BY <1>7, CoveredFrame DEF SetWorkingGen, LiveSockets, Alive
<1>8. ASSUME NEW x \in Sockets, NEW p \in Procs, NEW n \in DissectorApps,
             SetDissector(x, p, n)
      PROVE  CoveredInv'
  BY <1>8 DEF SetDissector, LiveSockets, Alive, CoveredInv, IndexedCovered, IndexInv
<1>9. ASSUME NEW x \in Sockets, NEW p \in Procs, NEW a \in Apps,
             SetSocketApp(x, p, a)
      PROVE  CoveredInv'
  <2>1. /\ sk'[x].sock_idx = Unset
        /\ \A y \in Sockets : y # x => sk'[y] = sk[y]
        /\ UNCHANGED <<max_idx, max_apps>> /\ LiveSockets' = LiveSockets
    BY <1>9 DEF SetSocketApp, LiveSockets, Alive, TypeOK, SocketType, Storage
  <2> QED
    BY <2>1 DEF CoveredInv, IndexedCovered
<1> QED
  BY <1>3, <1>4, <1>5, <1>6, <1>7, <1>8, <1>9 DEF Application

\* The row that the index of a socket refers to.
LEMMA IndexRow ==
  ASSUME TypeOK, IndexInv, NEW x \in Sockets, sk[x].sock_idx # Unset
  PROVE  /\ Row(max_apps, sk[x].sock_app, sk[x].sock_gen) \in GenIds
         /\ sk[x].sock_idx \in Idx
<1>1. sk[x].sock_app \in Apps /\ sk[x].sock_gen \in Nat /\ sk[x].sock_idx \in Idx
  BY InputAssumption DEF TypeOK, SocketType, Storage, IndexInv
<1> QED
  BY <1>1, RowType DEF TypeOK, GroupType

\* So do the steps of handle_msg: SetMaxIdx does not cut off a live socket, and
\* the index is stored only after the length that covers it.
LEMMA CoveredDaemonStep ==
  GroupSide /\ Daemon => CoveredInv'
<1> SUFFICES ASSUME GroupSide, Daemon PROVE CoveredInv'
  OBVIOUS
<1>1. TypeOK /\ DaemonInv /\ SocketInv /\ DesignInv /\ CoveredInv
  BY DEF GroupSide, FullInv
<1>2. LiveSockets \subseteq Sockets
  BY <1>1 DEF LiveSockets, Alive, TypeOK, SocketType
<1> USE <1>1, <1>2 DEF groupVars, metricVars, procVars, localVars
<1>3. CASE DaemonExit
  BY <1>3, CoveredFrame, SocketAssumption
  DEF DaemonExit, LiveSockets, Alive, TypeOK, SocketType
<1>4. CASE FindSocket
  <2>1. LiveSockets' \subseteq LiveSockets
    BY <1>4 DEF FindSocket, LiveSockets, Alive, Findable, DaemonInv, Holding
  <2> QED
    BY <1>4, <2>1, CoveredFrame DEF FindSocket
<1>5. CASE SetMaxIdx
  <2>1. /\ pc = "max_idx" /\ UNCHANGED <<sk, max_apps>>
        /\ LiveSockets' = LiveSockets
        /\ max_idx' = max_idx \/ max_idx' = [max_idx EXCEPT ![EGen] = gen_len]
    BY <1>5 DEF SetMaxIdx, LiveSockets, Alive
  <2> SUFFICES ASSUME NEW x \in LiveSockets, sk[x].sock_idx # Unset
               PROVE  IndexedCovered(x)'
    BY <2>1 DEF CoveredInv, IndexedCovered
  <2> DEFINE g == Row(max_apps, sk[x].sock_app, sk[x].sock_gen)
             i == sk[x].sock_idx
  <2>2. g \in GenIds /\ i \in Idx
    BY IndexRow DEF DesignInv
  <2>3. i < max_idx[g] /\ cookies[g][i] = x /\ x \in sockhash
    BY <2>2 DEF CoveredInv, IndexedCovered, DesignInv, CookieDesignatesSocket,
       Designates, GroupSide, FullInv, PublishedIsSelectable
  <2>4. g = EGen => i < gen_len
    BY <2>1, <2>2, <2>3 DEF GroupSide, TableInv, ScanInv, Idx, TypeOK, DaemonType
  <2>5. i < max_idx'[g]
    BY <2>1, <2>2, <2>3, <2>4 DEF TypeOK, GroupType
  <2> QED
    BY <2>1, <2>5 DEF IndexedCovered
<1>6. CASE WriteIdx
  <2>1. /\ pc = "sock_idx" /\ UNCHANGED <<max_idx, max_apps>>
        /\ LiveSockets' = LiveSockets
        /\ sk' = [sk EXCEPT ![f] = [s EXCEPT !.sock_idx = free_pos]]
    BY <1>6 DEF WriteIdx, LiveSockets, Alive
  <2>2. /\ e = Head(ring) /\ EGen \in GenIds /\ f \in Sockets /\ f \in sockhash
        /\ free_pos \in Idx
    BY <2>1, MessageType
    DEF Registering, DaemonInv, Holding, Placed, e, TypeOK, SocketType
  <2>3. /\ s.sock_gen = e.gen /\ s.sock_app = e.app
        /\ cookies[EGen][free_pos] = f
        /\ EGen = Row(max_apps, e.app, e.gen)
    BY <2>1, <2>2 DEF DesignInv, CopyInv, Registering, EGen
  <2>4. free_pos < max_idx[EGen]
    BY <2>1, <2>2, <2>3 DEF GroupSide, TableInv, CoverInv
  <2>5. /\ sk'[f].sock_gen = e.gen /\ sk'[f].sock_app = e.app
        /\ sk'[f].sock_idx = free_pos
        /\ \A y \in Sockets : y # f => sk'[y] = sk[y]
    BY <2>1, <2>2, <2>3 DEF TypeOK, SocketType, DaemonType, Storage
  <2> QED
    BY <2>1, <2>3, <2>4, <2>5 DEF CoveredInv, IndexedCovered
<1>7. CASE Attach
  BY <1>7, CoveredFrame, SocketAssumption
  DEF Attach, LiveSockets, Alive, TypeOK, SocketType
<1>8. CASE LookupState \/ FindEmpty \/ SetCookies \/ AddCritical \/ CountCritical
             \/ WorkingGenSet \/ Return
  BY <1>3, <1>8, CoveredFrame
  DEF LookupState, FindEmpty, SetCookies, AddCritical, CountCritical,
      WorkingGenSet, Return, LiveSockets, Alive
<1> QED
  BY <1>3, <1>4, <1>5, <1>6, <1>7, <1>8 DEF Daemon, CallFails

\* GroupSide is kept by the calls of applications and by the daemon.
LEMMA GroupNextStep == GroupSide /\ [Next]_vars => GroupSide'
<1> SUFFICES ASSUME GroupSide, [Next]_vars PROVE GroupSide'
  OBVIOUS
<1>1. [RebindNext]_vars /\ [FullNext]_vars
  BY DEF FullNext, RebindNext, RegenNext
<1>2. FullInv' /\ TableInv'
  BY <1>1, TypeStep, DaemonInvStep, SocketInvStep, TableStep
  DEF GroupSide, FullInv
<1>3. CASE UNCHANGED vars
  <2>1. DesignInv'
    BY <1>3 DEF vars, groupVars, procVars, localVars, GroupSide, DesignInv,
       RequestInv, CopyInv, IndexInv, CookieDesignatesSocket, Designates,
       LiveSockets, Alive, EGen, e
  <2>2. CoveredInv'
    BY <1>3, CoveredFrame DEF vars, groupVars, procVars, localVars, GroupSide,
       LiveSockets, Alive
  <2> QED
    BY <1>2, <2>1, <2>2 DEF GroupSide
<1>4. CASE Application
  BY <1>2, <1>4, DesignAppStep, CoveredAppStep DEF GroupSide
<1>5. CASE Daemon
  BY <1>2, <1>5, DesignDaemonStep, CoveredDaemonStep DEF GroupSide
<1> QED
  BY <1>3, <1>4, <1>5 DEF Next

\* A daemon that dies closes the descriptor it got and leaves the maps alone.
LEMMA GroupDeathStep == GroupSide /\ DaemonExit => GroupSide'
<1> SUFFICES ASSUME GroupSide, DaemonExit PROVE GroupSide'
  OBVIOUS
<1>1. TypeOK /\ SocketInv /\ PublishedIsSelectable /\ CoveredInv /\ DesignInv
        /\ TableInv
  BY DEF GroupSide, FullInv
<1>2. FullInv'
  BY <1>1, ExitTypes, ExitDaemonInv, ExitSocketInv DEF FullInv
<1>3. /\ pc' = "dead" /\ UNCHANGED <<exists, max_apps, max_idx, cookies, sk,
                                     bound, ring, state_ptr>>
      /\ LiveSockets' \subseteq LiveSockets
  BY <1>1, SocketAssumption
  DEF DaemonExit, groupVars, procVars, LiveSockets, Alive, TypeOK, SocketType
<1>4. TableInv'
  BY <1>1, <1>3 DEF TableInv, GroupInv, RowInv, CoverInv, ScanInv
<1>5. DesignInv'
  <2>1. CopyInv'
    BY <1>3 DEF CopyInv, Registering
  <2> QED
    BY <1>1, <1>3, <2>1, DesignFrame, RequestFrame DEF DesignInv
<1>6. CoveredInv'
  BY <1>1, <1>3, CoveredFrame
<1> QED
  BY <1>2, <1>4, <1>5, <1>6 DEF GroupSide

\* Descriptors that come and go without giving life to a socket.
LEMMA GroupHoldStep ==
  ASSUME GroupSide, AppFrame, TypeOK', UNCHANGED <<sk, ring, max_apps, bound>>
  PROVE  GroupSide'
<1>1. TypeOK /\ DaemonInv /\ SocketInv /\ PublishedIsSelectable /\ CoveredInv
        /\ DesignInv /\ TableInv
  BY DEF GroupSide, FullInv
<1>2. FullInv' /\ TableInv'
  BY <1>1, FrameKeepsDaemon, FrameKeepsSockets, FrameKeepsTable DEF FullInv
<1>3. LiveSockets' \subseteq LiveSockets
  BY DEF AppFrame, LiveSockets, Alive
<1>4. DesignInv'
  BY <1>1, <1>3, DesignFrame, RequestFrame, CopyFrame DEF DesignInv, AppFrame
<1>5. CoveredInv'
  BY <1>1, <1>3, CoveredFrame DEF AppFrame
<1> QED
  BY <1>2, <1>4, <1>5 DEF GroupSide

\* The file descriptor store, whose sockets the helper still holds itself.
LEMMA GroupStoreStep ==
  GroupSide /\ HeldInv /\ (FdStoreRemove \/ FdStore) => GroupSide'
<1> SUFFICES ASSUME GroupSide, HeldInv, FdStoreRemove \/ FdStore
             PROVE  GroupSide'
  OBVIOUS
<1>1. TypeOK /\ SocketInv
  BY DEF GroupSide, FullInv
<1> USE <1>1 DEF groupVars, metricVars, procVars, localVars
<1>2. CASE FdStoreRemove
  <2>1. TypeOK'
    BY <1>2 DEF FdStoreRemove, Release, TypeOK, GroupType, SocketType, DaemonType
  <2>2. AppFrame
    BY <1>2 DEF FdStoreRemove, Release, AppFrame, TypeOK, SocketType, SocketInv,
       LiveSockets, Alive
  <2> QED
    BY <1>2, <2>1, <2>2, GroupHoldStep DEF FdStoreRemove
<1>3. CASE FdStore
  <2>1. TypeOK'
    BY <1>3, ProcessAssumption
    DEF FdStore, TypeOK, GroupType, SocketType, DaemonType
  <2>2. \A x \in Sockets : holders'[x] # {} => holders[x] # {}
    <3> SUFFICES ASSUME NEW x \in Sockets, holders'[x] # {}
                 PROVE  holders[x] # {}
      OBVIOUS
    <3>1. CASE x \in Others
      BY <1>3, <3>1 DEF FdStore, TypeOK, SocketType
    <3>2. CASE x \notin Others
      <4>1. PICK n \in 1 .. Count : x = Mine[n]
        BY <3>2 DEF Others
      <4>2. Created(n)
        BY <1>3 DEF FdStore, Created, Making
      <4> QED
        BY <4>1, <4>2 DEF HeldInv
    <3> QED
      BY <3>1, <3>2
  <2>3. \A x \in Sockets : holders[x] \subseteq holders'[x]
    BY <1>3 DEF FdStore, TypeOK, SocketType
  <2>4. LiveSockets' = LiveSockets
    BY <1>3, <2>2, <2>3 DEF FdStore, LiveSockets, Alive, TypeOK, SocketType
  <2>5. AppFrame
    BY <1>3, <2>2, <2>4 DEF FdStore, AppFrame, TypeOK, SocketType, SocketInv
  <2> QED
    BY <1>3, <2>1, <2>5, GroupHoldStep DEF FdStore
<1> QED
  BY <1>2, <1>3

(***************************************************************************)
(* Every step of the composition is a step of the group.                   *)
(***************************************************************************)
\* The processes, the sockets and the numbers of the helper.
LEMMA HelperFacts ==
  /\ Count \in Nat \ {0} /\ \A n \in 1 .. Count : Mine[n] \in Sockets
  /\ Helper \in Procs /\ Service \in Procs /\ Systemd \in Procs
  /\ Helper # Service /\ Helper # Systemd
  /\ Others \subseteq Sockets /\ \A n \in 1 .. Count : Mine[n] \notin Others
  BY HelperAssumption, ProcessAssumption DEF Count, Others

\* The socket in hand, and the generation that the helper asks for.
LEMMA HelperValues ==
  ASSUME Gens = Nat, WorkingGens = Nat, HelperType
  PROVE  /\ act.n \in 1 .. Count /\ fd = Mine[act.n] /\ fd \in Sockets
         /\ next_gen \in Nat
         /\ opts.dissector \in DissectorApps \cup {Unset}
         /\ opts.app \in Apps \cup {Unset}
<1>1. act.n \in 1 .. Count /\ act.working_gen \in Nat \cup {Unset}
  BY DEF HelperType, Locals
<1>2. opts \in [dissector : DissectorApps \cup {Unset}, app : Apps \cup {Unset},
                register : BOOLEAN, advance : BOOLEAN]
  BY HelperAssumption DEF HelperType
<1> QED
  BY <1>1, <1>2, HelperFacts DEF fd, next_gen, Unset

\* The helper's calls are calls of an application that keeps the generation of
\* its sockets, or they use the file descriptor store.
LEMMA HelperGroupStep ==
  ASSUME Gens = Nat, WorkingGens = Nat, HelperType, AskInv,
         HelperStep \/ HelperKilled
  PROVE  [Next]_vars \/ FdStoreRemove \/ FdStore
<1>1. fd \in Sockets /\ next_gen \in Gens /\ next_gen \in WorkingGens
      /\ Helper \in Procs /\ "leader" \in Callers
  BY HelperValues, HelperFacts, ProcessAssumption
<1>2. GroupOnly => [Next]_vars
  BY <1>1 DEF GroupOnly, Next, Application
<1>3. CASE BindSocket
  BY <1>1, <1>3 DEF BindSocket, Next, Application
<1>4. CASE RequestDissector
  <2>1. opts.dissector \in DissectorApps
    BY <1>4, HelperValues DEF RequestDissector, HelperType
  <2> QED
    BY <1>1, <1>2, <1>4, <2>1 DEF RequestDissector, Eagain, Next, Application
<1>5. CASE RequestApp
  <2>1. opts.app \in Apps
    BY <1>5, HelperValues DEF RequestApp, HelperType
  <2> QED
    BY <1>1, <1>2, <1>5, <2>1 DEF RequestApp, Next, Application
<1>6. CASE RequestGen
  <2>1. sk[fd].sock_gen \in {next_gen, Unset}
    BY HelperValues DEF AskInv
  <2> QED
    BY <1>1, <1>2, <1>6, <2>1 DEF RequestGen, Eagain, Next, Application
<1>7. CASE AdvanceWorkingGen
  BY <1>1, <1>2, <1>7 DEF AdvanceWorkingGen, Eagain, Next, Application
<1>8. CASE ReadWorkingGen \/ Poll
  BY <1>8 DEF ReadWorkingGen, Poll
<1>9. CASE HelperExit \/ HelperKilled
  BY <1>1, <1>9 DEF HelperExit, HelperKilled, Next, Application
<1> QED
  BY <1>3, <1>4, <1>5, <1>6, <1>7, <1>8, <1>9 DEF HelperStep

\* So are those of the service.
LEMMA ServiceGroupStep ==
  ASSUME Gens = Nat, WorkingGens = Nat, ServiceStep
  PROVE  Application
<1>1. PICK x \in Others :
       \/ Bind(x, Service) \/ Close(x, Service) \/ Pass(x, Service, Systemd)
       \/ \E g \in WorkingGens \cup {0} :
            sk[x].sock_gen \in {g, Unset} /\ SetSocketGen(x, Service, "leader", g)
       \/ \E g \in WorkingGens : SetWorkingGen(x, Service, g)
       \/ \E n \in DissectorApps : SetDissector(x, Service, n)
  BY DEF ServiceStep
<1>2. x \in Sockets /\ Service \in Procs /\ Systemd \in Procs
      /\ WorkingGens \cup {0} = Gens /\ "leader" \in Callers
  BY HelperFacts, ProcessAssumption
<1> QED
  BY <1>1, <1>2 DEF Application

\* GroupSide is kept by every step.
LEMMA GroupSideStep ==
  ASSUME Gens = Nat, WorkingGens = Nat, ActInv, [ActivationNext]_allVars
  PROVE  GroupSide'
<1>1. GroupSide /\ HelperType /\ HeldInv /\ AskInv
  BY DEF ActInv, HelperSide
<1>2. CASE HelperStep \/ HelperKilled
  BY <1>1, <1>2, HelperGroupStep, GroupNextStep, GroupStoreStep
<1>3. CASE ServiceStep
  BY <1>1, <1>3, ServiceGroupStep, GroupNextStep DEF Next
<1>4. CASE DaemonStep
  BY <1>1, <1>4, GroupNextStep DEF DaemonStep, Next
<1>5. CASE DaemonDies
  BY <1>1, <1>5, GroupDeathStep DEF DaemonDies
<1>6. CASE UNCHANGED allVars
  BY <1>1, <1>6, GroupNextStep DEF allVars
<1> QED
  BY <1>2, <1>3, <1>4, <1>5, <1>6 DEF ActivationNext

(***************************************************************************)
(* The side of the helper: what others may do to its sockets.              *)
(***************************************************************************)
\* A step keeps socket x: its generation, its index, and where it is named.
SocketKept(x) ==
  /\ sk'[x].sock_gen = sk[x].sock_gen
  /\ sk[x].sock_idx # Unset => sk'[x].sock_idx # Unset
  /\ FreshSocket(x) => FreshSocket(x)'
  /\ OnceAt(x)'
HoldKept(x) == Helper \in holders[x] => Helper \in holders'[x]
GroupKept == exists => exists' /\ max_apps' = max_apps

\* Steps that write no slot and post nothing about x add no mention of it.
LEMMA MentionFrame ==
  ASSUME TypeOK, NEW x \in Sockets, OnceAt(x), UNCHANGED cookies,
         pc \in Finishing => pc' \in Finishing,
         sk'[x].sock_gen = sk[x].sock_gen,
         \/ ring' = ring
         \/ \E m \in Msgs : /\ ring' = Append(ring, m)
                            /\ ~(m \in RegisterMsg /\ m.cookie = x)
  PROVE  (FreshSocket(x) => FreshSocket(x)') /\ OnceAt(x)'
<1>1. \A k \in 1 .. Len(ring') :
        WaitsAt(k, x)' => k \in 1 .. Len(ring) /\ WaitsAt(k, x)
  <2>1. CASE ring' = ring
    BY <2>1 DEF WaitsAt
  <2>2. ASSUME NEW m \in Msgs, ring' = Append(ring, m),
               ~(m \in RegisterMsg /\ m.cookie = x)
        PROVE  \A k \in 1 .. Len(ring') :
                 WaitsAt(k, x)' => k \in 1 .. Len(ring) /\ WaitsAt(k, x)
    <3>1. /\ Len(ring') = Len(ring) + 1 /\ Len(ring) \in Nat
          /\ ring'[Len(ring) + 1] = m
          /\ \A n \in 1 .. Len(ring) : ring'[n] = ring[n]
      BY <2>2 DEF TypeOK, DaemonType
    <3> QED
      BY <2>2, <3>1 DEF WaitsAt
  <2> QED
    BY <2>1, <2>2
<1>2. FreshSocket(x) => FreshSocket(x)'
  BY <1>1 DEF FreshSocket
<1>3. OnceAt(x)'
  BY <1>1 DEF OnceAt
<1> QED
  BY <1>2, <1>3

\* The daemon's first store: the socket of the message gets its only slot.
LEMMA MentionSetCookies ==
  ASSUME TypeOK, DaemonInv, NEW x \in Sockets, OnceAt(x), SetCookies, exists
  PROVE  (FreshSocket(x) => FreshSocket(x)') /\ OnceAt(x)'
<1>1. /\ pc = "cookies" /\ pc' = "max_idx" /\ UNCHANGED <<ring, sk>>
      /\ cookies' = [cookies EXCEPT ![EGen][free_pos] = e.cookie]
  BY DEF SetCookies, DaemonExit
<1>2. /\ EGen \in GenIds /\ free_pos \in Idx /\ e \in RegisterMsg
      /\ e = ring[1] /\ 1 \in 1 .. Len(ring)
  BY <1>1, MessageType DEF Registering, DaemonInv, Placed, e, TypeOK, DaemonType
<1>3. \A g \in GenIds, i \in Idx :
        cookies'[g][i] = IF g = EGen /\ i = free_pos THEN e.cookie
                                                     ELSE cookies[g][i]
  BY <1>1, <1>2 DEF TypeOK, GroupType, Tables
<1>4. WaitsAt(1, e.cookie)
  BY <1>2 DEF WaitsAt
<1>5. \A k \in 1 .. Len(ring), g \in GenIds, i \in Idx :
        WaitsAt(k, x) => cookies[g][i] # x
  BY <1>1 DEF OnceAt, Finishing
<1>6. \A k : WaitsAt(k, x)' = WaitsAt(k, x)
  BY <1>1 DEF WaitsAt
<1>7. FreshSocket(x) => FreshSocket(x)'
  BY <1>1, <1>2, <1>3, <1>4, <1>6 DEF FreshSocket
<1>8. CASE e.cookie = x
  <2>1. \A g \in GenIds, i \in Idx :
          cookies'[g][i] = x => g = EGen /\ i = free_pos
    BY <1>2, <1>3, <1>4, <1>5, <1>8
  <2>2. \A k \in 1 .. Len(ring) : WaitsAt(k, x) => k = 1
    BY <1>2, <1>4, <1>8 DEF OnceAt
  <2> QED
    BY <1>1, <1>6, <1>7, <2>1, <2>2 DEF OnceAt, Finishing
<1>9. CASE e.cookie # x
  <2>1. \A g \in GenIds, i \in Idx : cookies'[g][i] = x => cookies[g][i] = x
    BY <1>3, <1>9
  <2> QED
    BY <1>1, <1>5, <1>6, <1>7, <2>1 DEF OnceAt
<1> QED
  BY <1>8, <1>9

\* The end of handle_msg: the message that may have its socket in the table
\* leaves the ring.
LEMMA MentionReturn ==
  ASSUME TypeOK, DaemonInv, NEW x \in Sockets, OnceAt(x), Return
  PROVE  (FreshSocket(x) => FreshSocket(x)') /\ OnceAt(x)'
<1>1. /\ ring' = Tail(ring) /\ ring # <<>> /\ ring \in Seq(Msgs)
      /\ UNCHANGED <<sk, cookies>>
  BY DEF Return, Consumed, DaemonInv, TypeOK, DaemonType, groupVars
<1>2. \A n \in 1 .. Len(ring') :
        ring'[n] = ring[n + 1] /\ n + 1 \in 2 .. Len(ring)
  BY <1>1
<1>3. \A n \in 1 .. Len(ring') : WaitsAt(n, x)' => WaitsAt(n + 1, x)
  BY <1>2 DEF WaitsAt
<1>4. Len(ring') \in Nat /\ Len(ring) \in Nat
  BY <1>1
<1>5. FreshSocket(x) => FreshSocket(x)'
  BY <1>1, <1>2, <1>3, <1>4 DEF FreshSocket
<1>6. OnceAt(x)'
  <2>1. \A j, k \in 1 .. Len(ring') : WaitsAt(j, x)' /\ WaitsAt(k, x)' => j = k
    BY <1>2, <1>3, <1>4 DEF OnceAt
  <2>2. \A k \in 1 .. Len(ring'), g \in GenIds, i \in Idx :
          WaitsAt(k, x)' => cookies'[g][i] # x
    BY <1>1, <1>2, <1>3, <1>4 DEF OnceAt
  <2> QED
    BY <1>1, <2>1, <2>2 DEF OnceAt
<1> QED
  BY <1>5, <1>6

\* The daemon keeps the helper's sockets.  The storage that it writes back has
\* the generation that the socket still has.
LEMMA DaemonKeeps ==
  ASSUME GroupSide, NEW x \in Sockets, OnceAt(x), Daemon \/ DaemonExit
  PROVE  SocketKept(x) /\ HoldKept(x) /\ GroupKept
<1>1. TypeOK /\ DaemonInv /\ TableInv /\ DesignInv
  BY DEF GroupSide, FullInv
<1>2. holders' = holders /\ exists' = exists /\ max_apps' = max_apps
  BY DEF Daemon, LookupState, FindSocket, FindEmpty, SetCookies, SetMaxIdx,
     WriteIdx, Attach, AddCritical, CountCritical, WorkingGenSet, Return, CallFails,
     DaemonExit, groupVars, procVars
<1>3. HoldKept(x) /\ GroupKept
  BY <1>2 DEF HoldKept, GroupKept
<1> SUFFICES SocketKept(x)
  BY <1>3
<1>4. ASSUME UNCHANGED <<sk, cookies, ring>>, pc \in Finishing => pc' \in Finishing
      PROVE  SocketKept(x)
  BY <1>1, <1>4, MentionFrame DEF SocketKept
<1> USE DEF groupVars, metricVars, procVars, localVars
<1>5. CASE DaemonExit
  BY <1>4, <1>5 DEF DaemonExit, Finishing
<1>6. CASE LookupState \/ FindSocket \/ FindEmpty \/ SetMaxIdx \/ Attach
             \/ AddCritical \/ CountCritical \/ WorkingGenSet
  BY <1>4, <1>5, <1>6
  DEF LookupState, FindSocket, FindEmpty, SetMaxIdx, Attach, AddCritical,
      CountCritical, WorkingGenSet, Finishing
<1>7. CASE SetCookies
  <2>1. exists
    BY <1>1, <1>7 DEF SetCookies, DaemonInv, TableInv, GroupInv
  <2> QED
    BY <1>1, <1>7, <2>1, MentionSetCookies DEF SocketKept, SetCookies
<1>8. CASE WriteIdx
  <2>1. /\ pc = "sock_idx" /\ pc' = "attach" /\ UNCHANGED <<cookies, ring>>
        /\ sk' = [sk EXCEPT ![f] = [s EXCEPT !.sock_idx = free_pos]]
    BY <1>8 DEF WriteIdx
  <2>2. /\ e = Head(ring) /\ e = ring[1] /\ 1 \in 1 .. Len(ring)
        /\ e \in RegisterMsg /\ f = e.cookie /\ free_pos \in Idx
    BY <1>1, <2>1, MessageType
    DEF Registering, DaemonInv, Holding, Placed, e, TypeOK, DaemonType
  <2>3. sk[f].sock_gen = e.gen /\ s.sock_gen = e.gen
    BY <1>1, <2>1, <2>2 DEF DesignInv, RequestInv, CopyInv, Registering
  <2>4. free_pos # Unset
    BY <2>2 DEF Idx, Unset
  <2>5. /\ sk'[x].sock_gen = sk[x].sock_gen
        /\ sk[x].sock_idx # Unset => sk'[x].sock_idx # Unset
    BY <1>1, <2>1, <2>3, <2>4 DEF TypeOK, SocketType, DaemonType, Storage
  <2>6. pc' \in Finishing
    BY <2>1 DEF Finishing
  <2> QED
    BY <1>1, <2>1, <2>5, <2>6, MentionFrame DEF SocketKept
<1>9. CASE Return
  BY <1>1, <1>9, MentionReturn DEF SocketKept, Return
<1> QED
  BY <1>5, <1>6, <1>7, <1>8, <1>9 DEF Daemon, CallFails

\* So does the service, whose calls are about other sockets.
LEMMA ServiceKeeps ==
  ASSUME Gens = Nat, WorkingGens = Nat, TypeOK, NEW x \in Sockets \ Others,
         OnceAt(x), ServiceStep
  PROVE  SocketKept(x) /\ HoldKept(x) /\ GroupKept
<1>1. PICK y \in Others :
       \/ Bind(y, Service) \/ Close(y, Service) \/ Pass(y, Service, Systemd)
       \/ \E g \in WorkingGens \cup {0} :
            sk[y].sock_gen \in {g, Unset} /\ SetSocketGen(y, Service, "leader", g)
       \/ \E g \in WorkingGens : SetWorkingGen(y, Service, g)
       \/ \E n \in DissectorApps : SetDissector(y, Service, n)
  BY DEF ServiceStep
<1>2. x # y /\ y \in Sockets /\ Helper # Service
  BY HelperFacts
<1>3. sk'[x] = sk[x] /\ pc' = pc /\ UNCHANGED cookies
  BY <1>1, <1>2 DEF Bind, Close, Pass, SetSocketGen, SetWorkingGen, SetDissector,
     groupVars, procVars, localVars, TypeOK, SocketType
<1>4. HoldKept(x)
  BY <1>1, <1>2 DEF HoldKept, Bind, Close, Pass, SetSocketGen, SetWorkingGen,
     SetDissector, procVars, TypeOK, SocketType
<1>5. GroupKept
  BY <1>1 DEF GroupKept, Bind, Close, Pass, SetSocketGen, SetWorkingGen,
     SetDissector, groupVars, get_state
<1>6. \/ ring' = ring
      \/ \E m \in Msgs : /\ ring' = Append(ring, m)
                         /\ ~(m \in RegisterMsg /\ m.cookie = x)
  <2>1. ASSUME NEW g \in Nat, SetSocketGen(y, Service, "leader", g)
        PROVE  \E m \in Msgs : ring' = Append(ring, m) /\ m.cookie # x
    <3> DEFINE m == [type |-> "REGISTER_SOCKET", pid |-> Service,
                     task |-> "leader", cookie |-> y, gen |-> g,
                     app |-> sk[y].sock_app]
    <3>1. m \in Msgs
      BY <1>2, HelperFacts, ProcessAssumption
      DEF Msgs, RegisterMsg, TypeOK, SocketType, Storage
    <3>2. ring' = Append(ring, m)
      BY <2>1 DEF SetSocketGen, Post
    <3>3. m.cookie # x
      BY <1>2
    <3> QED
      BY <3>1, <3>2, <3>3
  <2>2. ASSUME NEW g \in WorkingGens, SetWorkingGen(y, Service, g)
        PROVE  \E m \in Msgs : ring' = Append(ring, m) /\ m \notin RegisterMsg
    <3> DEFINE m == [type |-> "SET_WORKING_GEN",
                     app |-> sk[y].sock_app % MAX_APPS, gen |-> g]
    <3>1. m \in Msgs \ RegisterMsg
      BY <1>2, SizeAssumption
      DEF TypeOK, SocketType, Storage, Apps, Msgs, WorkingGenMsg, RegisterMsg
    <3>2. ring' = Append(ring, m)
      BY <2>2 DEF SetWorkingGen, Post
    <3> QED
      BY <3>1, <3>2
  <2>3. ASSUME NEW n \in DissectorApps, SetDissector(y, Service, n)
        PROVE  \E m \in Msgs : ring' = Append(ring, m) /\ m \notin RegisterMsg
    <3>1. [type |-> "SET_DISSECTOR"] \in Msgs \ RegisterMsg
      BY DEF Msgs, DissectorMsg, RegisterMsg
    <3> QED
      BY <2>3, <3>1 DEF SetDissector, Post
  <2> QED
    BY <1>1, <2>1, <2>2, <2>3 DEF Bind, Close, Pass
<1> QED
  BY <1>3, <1>4, <1>5, <1>6, MentionFrame DEF SocketKept

\* The helper's side is kept while the helper itself does nothing.
LEMMA HelperIdle ==
  ASSUME HelperSide, UNCHANGED helperVars, GroupKept,
         \A n \in 1 .. Count : SocketKept(Mine[n]) /\ HoldKept(Mine[n])
  PROVE  HelperSide'
<1>1. act' = act /\ opts' = opts /\ next_gen' = next_gen
  BY DEF helperVars, next_gen
<1>2. \A n \in 1 .. Count : /\ Created(n)' = Created(n)
                            /\ NotAsked(n)' = NotAsked(n)
  BY <1>1 DEF Created, NotAsked
<1>3. HelperType'
  BY <1>1 DEF HelperSide, HelperType
<1>4. HeldInv'
  BY <1>2 DEF HelperSide, HeldInv, HoldKept
<1>5. AskInv'
  BY <1>1, <1>2 DEF HelperSide, AskInv, SocketKept
<1>6. PollInv'
  BY <1>1 DEF HelperSide, PollInv, SocketKept
<1>7. OnceInv'
  BY DEF OnceInv, SocketKept
<1>8. AskedInv'
  BY <1>1 DEF HelperSide, AskedInv, PastDissector, GroupKept
<1> QED
  BY <1>3, <1>4, <1>5, <1>6, <1>7, <1>8 DEF HelperSide

\* So it is by the service and by the daemon.
LEMMA OthersStep ==
  ASSUME Gens = Nat, WorkingGens = Nat, ActInv,
         ServiceStep \/ DaemonStep \/ DaemonDies
  PROVE  HelperSide'
<1>1. GroupSide /\ HelperSide /\ TypeOK
  BY DEF ActInv, GroupSide, FullInv
<1>2. \A n \in 1 .. Count : Mine[n] \in Sockets \ Others /\ OnceAt(Mine[n])
  BY <1>1, HelperFacts DEF HelperSide, OnceInv
<1>3. UNCHANGED helperVars
  BY DEF ServiceStep, DaemonStep, DaemonDies
<1>4. \A n \in 1 .. Count : SocketKept(Mine[n]) /\ HoldKept(Mine[n]) /\ GroupKept
  <2>1. CASE ServiceStep
    BY <1>1, <1>2, <2>1, ServiceKeeps
  <2>2. CASE DaemonStep \/ DaemonDies
    BY <1>1, <1>2, <2>2, DaemonKeeps DEF DaemonStep, DaemonDies
  <2> QED
    BY <2>1, <2>2
<1>5. GroupKept
  BY <1>4, HelperFacts
<1> QED
  BY <1>1, <1>3, <1>4, <1>5, HelperIdle

(***************************************************************************)
(* The steps of the helper.                                                *)
(***************************************************************************)
\* Where Goto and NextSocket lead.
LEMMA GotoFields ==
  ASSUME act \in Locals, NEW label \in Labels, Goto(label)
  PROVE  /\ act' \in Locals /\ act'.at = label /\ act'.n = act.n /\ act'.tries = 0
         /\ act'.working_gen = act.working_gen /\ act'.success = act.success
<1>1. 0 \in 0 .. MaxTries - 1
  BY HelperAssumption
<1> QED
  BY <1>1 DEF Goto, Locals

\* The next socket, or the next part of the program.
LEMMA NextSocketFields ==
  ASSUME act \in Locals, NEW label \in Labels, NEW on \in Labels,
         NEW n \in 1 .. Count, NextSocket(label, on, n)
  PROVE  /\ act' \in Locals /\ act'.tries = 0
         /\ act'.working_gen = act.working_gen /\ act'.success = act.success
         /\ \/ act.n < Count /\ act'.at = label /\ act'.n = act.n + 1
            \/ act.n = Count /\ act'.at = on /\ act'.n = n
<1>1. act.n \in 1 .. Count /\ Count \in Nat \ {0} /\ 0 \in 0 .. MaxTries - 1
  BY HelperFacts, HelperAssumption DEF Locals
<1>2. CASE act.n < Count
  <2>1. act' = [act EXCEPT !.at = label, !.tries = 0, !.n = act.n + 1]
    BY <1>2 DEF NextSocket
  <2>2. act.n + 1 \in 1 .. Count
    BY <1>1, <1>2
  <2> QED
    BY <1>1, <1>2, <2>1, <2>2 DEF Locals
<1>3. CASE ~(act.n < Count)
  <2>1. act' = [act EXCEPT !.at = on, !.tries = 0, !.n = n]
    BY <1>3 DEF NextSocket
  <2>2. act.n = Count
    BY <1>1, <1>3
  <2> QED
    BY <1>1, <2>1, <2>2 DEF Locals
<1> QED
  BY <1>2, <1>3

\* Another try.
LEMMA TryFields ==
  ASSUME act \in Locals, act.tries + 1 < MaxTries,
         act' = [act EXCEPT !.tries = @ + 1]
  PROVE  /\ act' \in Locals /\ act'.at = act.at /\ act'.n = act.n
         /\ act'.working_gen = act.working_gen /\ act'.success = act.success
         /\ act'.tries = act.tries + 1
  BY HelperAssumption DEF Locals

\* After UDP_GRM_DISSECTOR, or a bind() that needs none.
LEMMA AfterDissectorFields ==
  ASSUME HelperType, AfterDissector
  PROVE  /\ act' \in Locals /\ act'.tries = 0
         /\ act'.working_gen = act.working_gen /\ act'.success = act.success
         /\ \/ opts.app # Unset /\ act'.at = "app" /\ act'.n = act.n
            \/ act.n < Count /\ act'.at = "bind" /\ act'.n = act.n + 1
            \/ act.n = Count /\ act'.at = "remove" /\ act'.n = 1
<1>1. act \in Locals /\ {"app", "bind", "remove"} \subseteq Labels /\ 1 \in 1 .. Count
  BY HelperFacts DEF HelperType, Labels
<1>2. CASE opts.app # Unset
  BY <1>1, <1>2, GotoFields DEF AfterDissector
<1>3. CASE opts.app = Unset
  BY <1>1, <1>3, NextSocketFields DEF AfterDissector
<1> QED
  BY <1>2, <1>3

\* While sockets are kept, the requests already made stay so.
LEMMA AskKept ==
  ASSUME HelperSide,
         \A n \in 1 .. Count : /\ SocketKept(Mine[n])
                               /\ NotAsked(n)' => NotAsked(n)
                               /\ next_gen' = next_gen \/ NotAsked(n)
  PROVE  AskInv' /\ OnceInv'
<1>1. \A n \in 1 .. Count :
        NotAsked(n) => FreshSocket(Mine[n]) /\ sk[Mine[n]].sock_gen = Unset
  BY DEF HelperSide, AskInv, FreshSocket
<1>2. AskInv'
  BY <1>1 DEF HelperSide, AskInv, SocketKept
<1> QED
  BY <1>2 DEF OnceInv, SocketKept

\* Before a generation is asked for nothing has succeeded.
LEMMA NoEarlySuccess ==
  ASSUME ActInv, act.at \in Early
  PROVE  act.success = FALSE
<1>1. NotAsked(1) /\ 1 \in 1 .. Count /\ Mine[1] \in Sockets
  BY HelperFacts DEF NotAsked
<1>2. sk[Mine[1]].sock_gen = Unset
  BY <1>1 DEF ActInv, HelperSide, AskInv, FreshSocket
<1>3. sk[Mine[1]].sock_idx = Unset
  BY <1>1, <1>2 DEF ActInv, GroupSide, DesignInv, IndexInv
<1>4. ~act.success
  BY <1>1, <1>3 DEF ActInv, HelperSide, PollInv
<1>5. act.success \in BOOLEAN
  BY DEF ActInv, HelperSide, HelperType, Locals
<1> QED
  BY <1>4, <1>5

\* What a call that fails changes, and a look at the group does not.
LEMMA GroupOnlyKeeps ==
  ASSUME TypeOK, GroupOnly \/ UNCHANGED vars, NEW x \in Sockets, OnceAt(x)
  PROVE  /\ SocketKept(x) /\ HoldKept(x) /\ GroupKept
         /\ GroupOnly => exists'
<1>1. UNCHANGED <<sk, holders, ring, pc, cookies, max_apps>> /\ (exists => exists')
  BY DEF GroupOnly, CreateGroup, get_state, vars, groupVars, procVars
<1>2. SocketKept(x)
  BY <1>1, MentionFrame DEF SocketKept
<1>3. HoldKept(x) /\ GroupKept
  BY <1>1 DEF HoldKept, GroupKept
<1>4. GroupOnly => exists'
  BY DEF GroupOnly, CreateGroup, get_state, vars, groupVars
<1> QED
  BY <1>2, <1>3, <1>4

\* bind() of a socket that was never requested.
LEMMA BindSocketStep ==
  ASSUME ActInv, BindSocket, UNCHANGED opts
  PROVE  HelperSide'
<1>1. /\ GroupSide /\ HelperSide /\ TypeOK /\ HelperType
      /\ act.n \in 1 .. Count /\ act.at = "bind" /\ Bind(fd, Helper)
      /\ fd = Mine[act.n] /\ fd \in Sockets
  BY HelperFacts
  DEF ActInv, GroupSide, FullInv, HelperSide, HelperType, Locals, BindSocket, fd
<1>2. /\ act' \in Locals /\ act'.tries = 0
      /\ act'.working_gen = act.working_gen /\ act'.success = act.success
      /\ \/ /\ act.n = 1 /\ opts.dissector # Unset
            /\ act'.at = "dissector" /\ act'.n = act.n
         \/ /\ ~(act.n = 1 /\ opts.dissector # Unset)
            /\ \/ opts.app # Unset /\ act'.at = "app" /\ act'.n = act.n
               \/ act.n < Count /\ act'.at = "bind" /\ act'.n = act.n + 1
               \/ act.n = Count /\ act'.at = "remove" /\ act'.n = 1
  <2>1. CASE act.n = 1 /\ opts.dissector # Unset
    <3>1. Goto("dissector") /\ act \in Locals /\ "dissector" \in Labels
      BY <1>1, <2>1 DEF BindSocket, HelperType, Labels
    <3> QED
      BY <2>1, <3>1, GotoFields
  <2>2. CASE ~(act.n = 1 /\ opts.dissector # Unset)
    BY <1>1, <2>2, AfterDissectorFields DEF BindSocket
  <2> QED
    BY <2>1, <2>2
<1>3. \A n \in 1 .. Count : NotAsked(n) /\ FreshSocket(Mine[n]) /\ OnceAt(Mine[n])
  BY <1>1 DEF NotAsked, Early, Making, HelperSide, AskInv, OnceInv
<1>4. /\ UNCHANGED <<exists, max_apps, cookies, ring, pc>>
      /\ Helper \in holders'[fd] /\ \A y \in Sockets : HoldKept(y)
      /\ sk'[fd].sock_gen = Unset /\ \A y \in Sockets : y # fd => sk'[y] = sk[y]
  BY <1>1 DEF Bind, HoldKept, groupVars, TypeOK, SocketType, Storage
<1>5. \A n \in 1 .. Count :
        FreshSocket(Mine[n])' /\ OnceAt(Mine[n])' /\ sk'[Mine[n]].sock_gen = Unset
  <2> SUFFICES ASSUME NEW n \in 1 .. Count
               PROVE  FreshSocket(Mine[n])' /\ OnceAt(Mine[n])'
                        /\ sk'[Mine[n]].sock_gen = Unset
    OBVIOUS
  <2>1. sk[Mine[n]].sock_gen = Unset /\ sk'[Mine[n]].sock_gen = Unset
    BY <1>3, <1>4, HelperFacts DEF FreshSocket
  <2> QED
    BY <1>1, <1>3, <1>4, <2>1, MentionFrame, HelperFacts
<1>6. HelperType'
  BY <1>1, <1>2 DEF HelperType
<1>7. HeldInv'
  <2> SUFFICES ASSUME NEW n \in 1 .. Count, Created(n)'
               PROVE  Helper \in holders'[Mine[n]]
    BY DEF HeldInv
  <2>1. n < act.n \/ n = act.n
    BY <1>1, <1>2, HelperFacts DEF Created, Making
  <2>2. CASE n < act.n
    BY <1>1, <1>4, <2>2, HelperFacts DEF Created, HelperSide, HeldInv, HoldKept
  <2> QED
    BY <1>1, <1>4, <2>1, <2>2
<1>8. AskInv' /\ OnceInv'
  BY <1>5 DEF AskInv, OnceInv
<1>9. PollInv'
  <2>1. act.success = FALSE
    BY <1>1, NoEarlySuccess DEF Early, Making
  <2> QED
    BY <1>2, <2>1 DEF PollInv
<1>10. AskedInv'
  <2>1. act'.n \in 1 .. Count
    BY <1>2 DEF Locals
  <2> QED
    BY <1>1, <1>2, <1>4, <2>1 DEF HelperSide, AskedInv, PastDissector
<1> QED
  BY <1>6, <1>7, <1>8, <1>9, <1>10 DEF HelperSide

\* Steps before any request, which leave the helper's sockets as they are.
LEMMA EarlyStep ==
  ASSUME ActInv, act.at \in Early,
         act'.at \in Early \cup {"gen", "done", "failed"},
         act'.success = act.success,
         \A n \in 1 .. Count : /\ SocketKept(Mine[n]) /\ HoldKept(Mine[n])
                               /\ Created(n)' => Created(n)
  PROVE  HeldInv' /\ AskInv' /\ PollInv' /\ OnceInv'
<1>1. HelperSide
  BY DEF ActInv
<1>2. HeldInv'
  BY <1>1 DEF HelperSide, HeldInv, HoldKept
<1>3. \A n \in 1 .. Count : NotAsked(n)
  BY DEF NotAsked
<1>4. AskInv' /\ OnceInv'
  BY <1>1, <1>3, AskKept
<1>5. PollInv'
  BY NoEarlySuccess DEF PollInv, Early, Making
<1> QED
  BY <1>2, <1>4, <1>5

\* UDP_GRM_DISSECTOR.  A try that got EAGAIN has left a group, so that the next
\* try is either confirmed or refused.
LEMMA RequestDissectorStep ==
  ASSUME Gens = Nat, WorkingGens = Nat, ActInv, RequestDissector, UNCHANGED opts
  PROVE  HelperSide'
<1>1. /\ GroupSide /\ HelperSide /\ TypeOK /\ HelperType /\ act \in Locals
      /\ act.n \in 1 .. Count /\ act.at = "dissector" /\ opts.dissector # Unset
      /\ fd = Mine[act.n] /\ fd \in Sockets
  BY HelperFacts
  DEF ActInv, GroupSide, FullInv, HelperSide, HelperType, Locals,
      RequestDissector, fd
<1>2. \A n \in 1 .. Count : Mine[n] \in Sockets /\ OnceAt(Mine[n])
  BY <1>1, HelperFacts DEF HelperSide, OnceInv
<1>3. \A n \in 1 .. Count : SocketKept(Mine[n]) /\ HoldKept(Mine[n])
  <2>1. CASE SetDissector(fd, Helper, opts.dissector)
    <3>1. /\ UNCHANGED <<sk, holders, pc, cookies>>
          /\ ring' = Append(ring, [type |-> "SET_DISSECTOR"])
      BY <2>1 DEF SetDissector, Post, procVars
    <3>2. [type |-> "SET_DISSECTOR"] \in Msgs \ RegisterMsg
      BY DEF Msgs, DissectorMsg, RegisterMsg
    <3> QED
      BY <1>1, <1>2, <3>1, <3>2, MentionFrame DEF SocketKept, HoldKept
  <2>2. CASE GroupOnly \/ UNCHANGED vars
    BY <1>1, <1>2, <2>2, GroupOnlyKeeps
  <2> QED
    BY <2>1, <2>2 DEF RequestDissector, Eagain
<1>4. /\ act' \in Locals /\ act'.success = act.success
      /\ \/ /\ exists' /\ max_apps' = opts.dissector
            /\ \/ opts.app # Unset /\ act'.at = "app" /\ act'.n = act.n
               \/ act.n < Count /\ act'.at = "bind" /\ act'.n = act.n + 1
               \/ act.n = Count /\ act'.at = "remove" /\ act'.n = 1
         \/ act'.at = "failed"
         \/ exists' /\ act'.at = "dissector" /\ act'.n = act.n
  <2>1. CASE SetDissector(fd, Helper, opts.dissector) /\ AfterDissector
    BY <1>1, <2>1, AfterDissectorFields DEF SetDissector, get_state
  <2>2. CASE exists /\ ~DissectorRefused /\ UNCHANGED vars /\ AfterDissector
    BY <1>1, <2>2, AfterDissectorFields DEF DissectorRefused, vars, groupVars
  <2>3. CASE DissectorRefused /\ UNCHANGED vars /\ Fail
    BY <1>1, <2>3, GotoFields DEF Fail, Labels
  <2>4. CASE ~exists /\ Eagain /\ Again(AfterDissector)
    <3>1. act.tries = 0
      <4>1. ~(act.tries > 0) /\ act.tries \in Nat
        BY <1>1, <2>4 DEF HelperSide, AskedInv, Locals
      <4> QED
        BY <4>1
    <3>2. act.tries + 1 < MaxTries
      BY <3>1, HelperAssumption
    <3>3. act' = [act EXCEPT !.tries = @ + 1]
      BY <2>4, <3>2 DEF Again
    <3>4. exists'
      BY <1>1, <1>2, <2>4, GroupOnlyKeeps DEF Eagain
    <3> QED
      BY <1>1, <3>2, <3>3, <3>4, TryFields
  <2> QED
    BY <2>1, <2>2, <2>3, <2>4 DEF RequestDissector
<1>5. HelperType'
  BY <1>1, <1>4 DEF HelperType
<1>6. \A n \in 1 .. Count : Created(n)' => Created(n)
  BY <1>1, <1>4, HelperFacts DEF Created, Making
<1>7. HeldInv' /\ AskInv' /\ PollInv' /\ OnceInv'
  BY <1>1, <1>3, <1>4, <1>6, EarlyStep DEF Early, Making
<1>8. AskedInv'
  BY <1>1, <1>4 DEF AskedInv, PastDissector
<1> QED
  BY <1>5, <1>7, <1>8 DEF HelperSide

\* UDP_GRM_SOCKET_APP.
LEMMA RequestAppStep ==
  ASSUME Gens = Nat, WorkingGens = Nat, ActInv, RequestApp, UNCHANGED opts
  PROVE  HelperSide'
<1>1. /\ GroupSide /\ HelperSide /\ TypeOK /\ HelperType /\ act \in Locals
      /\ act.n \in 1 .. Count /\ act.at = "app"
      /\ fd = Mine[act.n] /\ fd \in Sockets
  BY HelperFacts
  DEF ActInv, GroupSide, FullInv, HelperSide, HelperType, Locals, RequestApp, fd
<1>2. \A n \in 1 .. Count : Mine[n] \in Sockets /\ OnceAt(Mine[n])
  BY <1>1, HelperFacts DEF HelperSide, OnceInv
<1>3. \A n \in 1 .. Count : SocketKept(Mine[n]) /\ HoldKept(Mine[n]) /\ GroupKept
  <2>1. CASE SetSocketApp(fd, Helper, opts.app)
    <3>1. /\ UNCHANGED <<exists, max_apps, holders, pc, cookies, ring>>
          /\ \A y \in Sockets : sk'[y].sock_gen = sk[y].sock_gen
                                  /\ sk'[y].sock_idx = sk[y].sock_idx
      BY <1>1, <2>1 DEF SetSocketApp, groupVars, procVars, TypeOK, SocketType,
                        Storage
    <3> QED
      BY <1>1, <1>2, <3>1, MentionFrame DEF SocketKept, HoldKept, GroupKept
  <2>2. CASE GroupOnly
    BY <1>1, <1>2, <2>2, GroupOnlyKeeps
  <2> QED
    BY <2>1, <2>2 DEF RequestApp
<1>4. /\ act' \in Locals /\ act'.success = act.success
      /\ \/ act.n < Count /\ act'.at = "bind" /\ act'.n = act.n + 1
         \/ act.n = Count /\ act'.at = "remove" /\ act'.n = 1
         \/ act'.at = "failed"
  <2>1. CASE NextSocket("bind", "remove", 1)
    BY <1>1, <2>1, NextSocketFields, HelperFacts DEF Labels
  <2>2. CASE Fail
    BY <1>1, <2>2, GotoFields DEF Fail, Labels
  <2> QED
    BY <2>1, <2>2 DEF RequestApp
<1>5. HelperType'
  BY <1>1, <1>4 DEF HelperType
<1>6. \A n \in 1 .. Count : Created(n)' => Created(n)
  BY <1>1, <1>4, HelperFacts DEF Created, Making
<1>7. HeldInv' /\ AskInv' /\ PollInv' /\ OnceInv'
  BY <1>1, <1>3, <1>4, <1>6, EarlyStep DEF Early, Making
<1>8. AskedInv'
  <2>1. GroupKept
    BY <1>3, HelperFacts
  <2> QED
    BY <1>1, <1>4, <2>1 DEF HelperSide, AskedInv, PastDissector, GroupKept
<1> QED
  BY <1>5, <1>7, <1>8 DEF HelperSide

\* The file descriptor store, and the look at the working generation.
LEMMA StoreReadStep ==
  ASSUME Gens = Nat, WorkingGens = Nat, ActInv, UNCHANGED opts,
         FdStoreRemove \/ FdStore \/ ReadWorkingGen
  PROVE  HelperSide'
<1>1. /\ GroupSide /\ HelperSide /\ TypeOK /\ HelperType /\ act \in Locals
      /\ act.at \in {"remove", "store", "read"} /\ fd \in Sockets
  BY HelperFacts
  DEF ActInv, GroupSide, FullInv, HelperSide, HelperType, Locals, FdStoreRemove,
      FdStore, ReadWorkingGen, fd
<1>2. \A n \in 1 .. Count : Mine[n] \in Sockets /\ OnceAt(Mine[n])
  BY <1>1, HelperFacts DEF HelperSide, OnceInv
<1>3. UNCHANGED <<sk, pc, cookies, ring, exists, max_apps>>
  BY DEF FdStoreRemove, FdStore, ReadWorkingGen, vars, groupVars
<1>4. \A n \in 1 .. Count : SocketKept(Mine[n]) /\ HoldKept(Mine[n])
  <2>1. \A n \in 1 .. Count : HoldKept(Mine[n])
    BY <1>1, <1>2, HelperFacts
    DEF HoldKept, FdStoreRemove, FdStore, ReadWorkingGen, vars, procVars, TypeOK,
        SocketType
  <2> QED
    BY <1>1, <1>2, <1>3, <2>1, MentionFrame DEF SocketKept
<1>5. /\ act' \in Locals /\ act'.success = act.success
      /\ act'.at \in {"store", "read", "done", "gen"}
  <2>1. CASE FdStoreRemove
    BY <1>1, <2>1, GotoFields DEF FdStoreRemove, Labels
  <2>2. CASE FdStore
    BY <1>1, <2>2, GotoFields DEF FdStore, Labels
  <2>3. CASE ReadWorkingGen
    <3>1. sk[fd].sock_app \in Apps
      BY <1>1 DEF TypeOK, SocketType, Storage
    <3>2. (IF exists THEN working_gen[sk[fd].sock_app] ELSE Unset)
             \in WorkingGens \cup {0, Unset}
      BY <1>1, <3>1 DEF TypeOK, GroupType
    <3>3. 0 \in 0 .. MaxTries - 1
      BY HelperAssumption
    <3> QED
      BY <1>1, <2>3, <3>2, <3>3 DEF ReadWorkingGen, Locals, Labels
  <2> QED
    BY <2>1, <2>2, <2>3
<1>6. HelperType'
  BY <1>1, <1>5 DEF HelperType
<1>7. \A n \in 1 .. Count : Created(n)' => Created(n)
  BY <1>1 DEF Created, Making
<1>8. HeldInv' /\ AskInv' /\ PollInv' /\ OnceInv'
  BY <1>1, <1>4, <1>5, <1>7, EarlyStep DEF Early, Making
<1>9. AskedInv'
  BY <1>1, <1>3, <1>5 DEF HelperSide, AskedInv, PastDissector
<1> QED
  BY <1>6, <1>8, <1>9 DEF HelperSide

\* Whether a request for socket x was posted: then x waits once, and nowhere
\* else is it named.
LEMMA MentionPosted ==
  ASSUME TypeOK, NEW x \in Sockets, FreshSocket(x), UNCHANGED cookies,
         NEW m \in Msgs, ring' = Append(ring, m)
  PROVE  OnceAt(x)'
<1>1. /\ Len(ring') = Len(ring) + 1 /\ Len(ring) \in Nat
      /\ \A n \in 1 .. Len(ring) : ring'[n] = ring[n]
  BY DEF TypeOK, DaemonType
<1>2. \A k \in 1 .. Len(ring') : WaitsAt(k, x)' => k = Len(ring) + 1
  BY <1>1 DEF FreshSocket, WaitsAt
<1> QED
  BY <1>2 DEF OnceAt, FreshSocket

\* UDP_GRM_SOCKET_GEN, which posts at most once for every socket: a call that
\* got EAGAIN has posted nothing.
LEMMA RequestGenStep ==
  ASSUME Gens = Nat, WorkingGens = Nat, ActInv, RequestGen, UNCHANGED opts
  PROVE  HelperSide'
<1>1. /\ GroupSide /\ HelperSide /\ TypeOK /\ HelperType /\ act \in Locals
      /\ act.at = "gen" /\ fd = Mine[act.n] /\ fd \in Sockets
      /\ next_gen \in Nat /\ act.n \in 1 .. Count
  BY HelperValues
  DEF ActInv, GroupSide, FullInv, HelperSide, HelperType, RequestGen
<1>2. \A n \in 1 .. Count :
        Mine[n] \in Sockets /\ OnceAt(Mine[n]) /\ (Mine[n] = fd => n = act.n)
  BY <1>1, HelperFacts, HelperAssumption DEF HelperSide, OnceInv
<1>3. FreshSocket(fd) /\ sk[fd].sock_gen = Unset
  BY <1>1 DEF HelperSide, AskInv, NotAsked, FreshSocket
<1>4. /\ act' \in Locals /\ act'.success = act.success
      /\ act'.working_gen = act.working_gen
      /\ \/ act.n < Count /\ act'.at = "gen" /\ act'.n = act.n + 1
         \/ act.n = Count /\ act'.at = "poll" /\ act'.n = 1
         \/ Eagain /\ act'.at = "gen" /\ act'.n = act.n
  <2>1. CASE NextRequest
    BY <1>1, <2>1, NextSocketFields, HelperFacts DEF NextRequest, Labels
  <2>2. CASE Eagain /\ Again(NextRequest)
    BY <1>1, <2>1, <2>2, TryFields DEF Again
  <2> QED
    BY <2>1, <2>2 DEF RequestGen
<1>5. next_gen' = next_gen
  BY <1>4 DEF next_gen
<1>6. \A n \in 1 .. Count : NotAsked(n)' => NotAsked(n)
  BY <1>1, <1>4 DEF NotAsked, Early, Making
<1>7. HelperType'
  BY <1>1, <1>4 DEF HelperType
<1>8. \A n \in 1 .. Count : Created(n)
  BY <1>1 DEF Created, Making
<1>9. CASE Eagain
  <2>1. \A n \in 1 .. Count :
          SocketKept(Mine[n]) /\ HoldKept(Mine[n]) /\ GroupKept
    BY <1>1, <1>2, <1>9, GroupOnlyKeeps DEF Eagain
  <2>2. AskInv' /\ OnceInv'
    BY <1>1, <1>5, <1>6, <2>1, AskKept
  <2>3. HeldInv'
    BY <1>1, <1>8, <2>1 DEF HelperSide, HeldInv, HoldKept
  <2>4. PollInv'
    BY <1>1, <1>4, <2>1 DEF HelperSide, PollInv, SocketKept
  <2>5. AskedInv'
    BY <1>1, <1>4, <2>1, HelperFacts DEF HelperSide, AskedInv, PastDissector, GroupKept
  <2> QED
    BY <1>7, <2>2, <2>3, <2>4, <2>5 DEF HelperSide
<1>10. CASE SetSocketGen(fd, Helper, "leader", next_gen) /\ ~Eagain
  <2> DEFINE m == [type |-> "REGISTER_SOCKET", pid |-> Helper, task |-> "leader",
                   cookie |-> fd, gen |-> next_gen, app |-> sk[fd].sock_app]
  <2>1. /\ ring' = Append(ring, m) /\ exists'
        /\ UNCHANGED <<cookies, max_apps, holders, pc>>
        /\ sk' = [sk EXCEPT ![fd].sock_gen = next_gen]
    BY <1>10 DEF SetSocketGen, Post, get_state, procVars
  <2>2. m \in Msgs /\ m.cookie = fd
    BY <1>1, HelperFacts, ProcessAssumption
    DEF Msgs, RegisterMsg, TypeOK, SocketType, Storage
  <2>3. /\ sk'[fd].sock_gen = next_gen
        /\ \A y \in Sockets : /\ sk'[y].sock_idx = sk[y].sock_idx
                              /\ y # fd => sk'[y] = sk[y]
    BY <1>1, <2>1 DEF TypeOK, SocketType, Storage
  <2>4. \A n \in 1 .. Count : n # act.n => SocketKept(Mine[n])
    BY <1>1, <1>2, <2>1, <2>2, <2>3, MentionFrame DEF SocketKept
  <2>5. \A n \in 1 .. Count : n = act.n => OnceAt(Mine[n])'
    <3> SUFFICES ASSUME NEW n \in 1 .. Count, n = act.n
                 PROVE  OnceAt(Mine[n])'
      OBVIOUS
    <3>1. FreshSocket(Mine[n]) /\ Mine[n] \in Sockets
      BY <1>1, <1>2, <1>3
    <3> QED
      BY <1>1, <2>1, <2>2, <3>1, MentionPosted
  <2>6. OnceInv'
    BY <2>4, <2>5 DEF OnceInv, SocketKept
  <2>7. AskInv'
    <3> SUFFICES ASSUME NEW n \in 1 .. Count
                 PROVE  /\ NotAsked(n)' => FreshSocket(Mine[n])'
                        /\ sk'[Mine[n]].sock_gen \in {Unset, next_gen'}
      BY DEF AskInv
    <3>1. CASE n = act.n
      <4>1. ~NotAsked(n)'
        BY <1>1, <1>4, <1>10, <3>1 DEF NotAsked, Early, Making
      <4> QED
        BY <1>1, <1>5, <2>3, <3>1, <4>1
    <3>2. CASE n # act.n
      BY <1>1, <1>5, <1>6, <2>4, <3>2 DEF HelperSide, AskInv, SocketKept
    <3> QED
      BY <3>1, <3>2
  <2>8. HeldInv'
    BY <1>1, <1>8, <2>1 DEF HelperSide, HeldInv
  <2>9. PollInv'
    BY <1>1, <1>2, <1>4, <2>3 DEF HelperSide, PollInv
  <2>10. AskedInv'
    BY <1>1, <1>4, <2>1 DEF HelperSide, AskedInv, PastDissector
  <2> QED
    BY <1>7, <2>6, <2>7, <2>8, <2>9, <2>10 DEF HelperSide
<1> QED
  BY <1>9, <1>10 DEF RequestGen

\* getsockopt(UDP_GRM_SOCKET_GEN): the helper goes on with a socket that has
\* an index.
LEMMA PollStep ==
  ASSUME Gens = Nat, WorkingGens = Nat, ActInv, Poll, UNCHANGED opts
  PROVE  HelperSide'
<1>1. /\ GroupSide /\ HelperSide /\ TypeOK /\ HelperType /\ act \in Locals
      /\ act.at = "poll" /\ fd = Mine[act.n] /\ act.n \in 1 .. Count
  BY HelperValues
  DEF ActInv, GroupSide, FullInv, HelperSide, HelperType, Poll
<1>2. \A n \in 1 .. Count : Mine[n] \in Sockets /\ OnceAt(Mine[n])
  BY <1>1, HelperFacts DEF HelperSide, OnceInv
<1>3. \A n \in 1 .. Count : SocketKept(Mine[n]) /\ HoldKept(Mine[n]) /\ GroupKept
  BY <1>1, <1>2, GroupOnlyKeeps DEF Poll
<1>4. /\ act' \in Locals /\ act'.working_gen = act.working_gen
      /\ \/ /\ sk[fd].sock_idx # Unset /\ act'.success = act.success
            /\ act.n < Count /\ act'.at = "poll" /\ act'.n = act.n + 1
         \/ /\ sk[fd].sock_idx # Unset /\ act.n = Count
            /\ act'.at \in {"advance", "done"}
         \/ /\ act'.success = act.success /\ act'.at = "poll" /\ act'.n = act.n
         \/ /\ act'.success = act.success /\ act'.at = "failed"
  <2>1. CASE Registered /\ NextSocket("poll", "advance", Count)
    <3>1. Count \in 1 .. Count /\ {"poll", "advance"} \subseteq Labels
      BY HelperFacts DEF Labels
    <3> QED
      BY <1>1, <2>1, <3>1, NextSocketFields DEF Registered
  <2>2. CASE Registered /\ ~(act.n < Count) /\ Succeed
    <3>1. act.n = Count /\ 0 \in 0 .. MaxTries - 1
      BY <1>1, <2>2, HelperFacts, HelperAssumption
    <3>2. /\ act' \in Locals /\ act'.working_gen = act.working_gen
          /\ act'.at = "done"
      BY <1>1, <2>2, <3>1 DEF Succeed, Locals, Labels
    <3> QED
      BY <2>2, <3>1, <3>2 DEF Registered
  <2>3. CASE NotYet
    <3>1. CASE act.tries + 1 < MaxTries
      BY <1>1, <2>3, <3>1, TryFields DEF NotYet
    <3>2. CASE ~(act.tries + 1 < MaxTries)
      BY <1>1, <2>3, <3>2, GotoFields DEF NotYet, Fail, Labels
    <3> QED
      BY <3>1, <3>2
  <2> QED
    BY <2>1, <2>2, <2>3 DEF Poll, AfterPoll
<1>5. next_gen' = next_gen
  BY <1>4 DEF next_gen
<1>6. HelperType'
  BY <1>1, <1>4 DEF HelperType
<1>7. HeldInv'
  <2>1. \A n \in 1 .. Count : Created(n)
    BY <1>1 DEF Created, Making
  <2> QED
    BY <1>1, <1>3, <2>1 DEF HelperSide, HeldInv, HoldKept
<1>8. AskInv' /\ OnceInv'
  <2>1. \A n \in 1 .. Count : ~NotAsked(n)'
    BY <1>4 DEF NotAsked, Early, Making
  <2> QED
    BY <1>1, <1>3, <1>5, <2>1, AskKept
<1>9. PollInv'
  <2> SUFFICES ASSUME NEW n \in 1 .. Count,
                      (act'.at = "poll" /\ n < act'.n) \/ act'.at = "advance"
                        \/ act'.success
               PROVE  sk'[Mine[n]].sock_idx # Unset
    BY DEF PollInv
  <2>1. \/ act.success \/ n < act.n
        \/ n = act.n /\ sk[fd].sock_idx # Unset
    BY <1>1, <1>4, HelperFacts
  <2>2. sk[Mine[n]].sock_idx # Unset
    BY <1>1, <2>1 DEF HelperSide, PollInv
  <2> QED
    BY <1>3, <2>2 DEF SocketKept
<1>10. AskedInv'
  <2>1. GroupKept
    BY <1>3, HelperFacts
  <2> QED
    BY <1>1, <1>4, <2>1 DEF HelperSide, AskedInv, PastDissector, GroupKept
<1> QED
  BY <1>6, <1>7, <1>8, <1>9, <1>10 DEF HelperSide

\* UDP_GRM_WORKING_GEN.
LEMMA AdvanceStep ==
  ASSUME Gens = Nat, WorkingGens = Nat, ActInv, AdvanceWorkingGen, UNCHANGED opts
  PROVE  HelperSide'
<1>1. /\ GroupSide /\ HelperSide /\ TypeOK /\ HelperType /\ act \in Locals
      /\ act.at = "advance" /\ fd \in Sockets /\ next_gen \in Nat
  BY HelperValues
  DEF ActInv, GroupSide, FullInv, HelperSide, HelperType, AdvanceWorkingGen
<1>2. \A n \in 1 .. Count : Mine[n] \in Sockets /\ OnceAt(Mine[n])
  BY <1>1, HelperFacts DEF HelperSide, OnceInv
<1>3. \A n \in 1 .. Count : SocketKept(Mine[n]) /\ HoldKept(Mine[n]) /\ GroupKept
  <2>1. CASE SetWorkingGen(fd, Helper, next_gen)
    <3> DEFINE m == [type |-> "SET_WORKING_GEN",
                     app |-> sk[fd].sock_app % MAX_APPS, gen |-> next_gen]
    <3>1. m \in Msgs \ RegisterMsg
      BY <1>1, SizeAssumption
      DEF TypeOK, SocketType, Storage, Apps, Msgs, WorkingGenMsg, RegisterMsg
    <3>2. /\ ring' = Append(ring, m) /\ exists'
          /\ UNCHANGED <<sk, holders, pc, cookies, max_apps>>
      BY <2>1 DEF SetWorkingGen, Post, get_state, procVars
    <3> QED
      BY <1>1, <1>2, <3>1, <3>2, MentionFrame DEF SocketKept, HoldKept, GroupKept
  <2>2. CASE Eagain
    BY <1>1, <1>2, <2>2, GroupOnlyKeeps DEF Eagain
  <2> QED
    BY <2>1, <2>2 DEF AdvanceWorkingGen
<1>4. /\ act' \in Locals /\ act'.working_gen = act.working_gen
      /\ act'.at \in {"advance", "done"}
  <2>1. CASE Succeed
    <3>1. 0 \in 0 .. MaxTries - 1
      BY HelperAssumption
    <3> QED
      BY <1>1, <2>1, <3>1 DEF Succeed, Locals, Labels
  <2>2. CASE act.tries + 1 < MaxTries /\ act' = [act EXCEPT !.tries = @ + 1]
    BY <1>1, <2>2, TryFields
  <2> QED
    BY <2>1, <2>2 DEF AdvanceWorkingGen, Again
<1>5. next_gen' = next_gen
  BY <1>4 DEF next_gen
<1>6. HelperType'
  BY <1>1, <1>4 DEF HelperType
<1>7. HeldInv'
  <2>1. \A n \in 1 .. Count : Created(n)
    BY <1>1 DEF Created, Making
  <2> QED
    BY <1>1, <1>3, <2>1 DEF HelperSide, HeldInv, HoldKept
<1>8. AskInv' /\ OnceInv'
  <2>1. \A n \in 1 .. Count : ~NotAsked(n)'
    BY <1>4 DEF NotAsked, Early, Making
  <2> QED
    BY <1>1, <1>3, <1>5, <2>1, AskKept
<1>9. PollInv'
  BY <1>1, <1>3 DEF HelperSide, PollInv, SocketKept
<1>10. AskedInv'
  <2>1. GroupKept
    BY <1>3, HelperFacts
  <2> QED
    BY <1>1, <1>4, <2>1 DEF HelperSide, AskedInv, PastDissector, GroupKept
<1> QED
  BY <1>6, <1>7, <1>8, <1>9, <1>10 DEF HelperSide

\* The end of the helper, by itself or by systemd.
LEMMA EndStep ==
  ASSUME ActInv, HelperExit \/ HelperKilled, UNCHANGED opts
  PROVE  HelperSide'
<1>1. /\ HelperSide /\ TypeOK /\ HelperType /\ act \in Locals
      /\ Exit(Helper) /\ Goto("exited")
  BY DEF ActInv, GroupSide, FullInv, HelperSide, HelperType, HelperExit,
         HelperKilled
<1>2. \A n \in 1 .. Count : Mine[n] \in Sockets /\ OnceAt(Mine[n])
  BY <1>1, HelperFacts DEF HelperSide, OnceInv
<1>3. UNCHANGED <<sk, pc, cookies, ring>>
  BY <1>1 DEF Exit, groupVars
<1>4. \A n \in 1 .. Count : SocketKept(Mine[n])
  BY <1>1, <1>2, <1>3, MentionFrame DEF SocketKept
<1>5. /\ act' \in Locals /\ act'.at = "exited" /\ act'.success = act.success
      /\ act'.working_gen = act.working_gen
  BY <1>1, GotoFields DEF Labels
<1>6. AskInv' /\ OnceInv'
  <2>1. \A n \in 1 .. Count : ~NotAsked(n)'
    BY <1>5 DEF NotAsked, Early, Making
  <2>2. next_gen' = next_gen
    BY <1>5 DEF next_gen
  <2> QED
    BY <1>1, <1>4, <2>1, <2>2, AskKept
<1>7. HelperType' /\ HeldInv' /\ AskedInv'
  BY <1>1, <1>5 DEF HelperType, HeldInv, Created, AskedInv, PastDissector
<1>8. PollInv'
  BY <1>1, <1>4, <1>5 DEF HelperSide, PollInv, SocketKept
<1> QED
  BY <1>6, <1>7, <1>8 DEF HelperSide

(***************************************************************************)
(* The theorems.  Gens and WorkingGens are all natural numbers: whatever   *)
(* the service has set, the helper asks for the next one.                  *)
(***************************************************************************)
\* ActInv holds of the helper, the service and the daemon together.
THEOREM ActInvariance ==
  ASSUME Gens = Nat, WorkingGens = Nat
  PROVE  ActivationSpec => []ActInv
<1>1. HelperInit => ActInv
  <2> SUFFICES ASSUME HelperInit PROVE ActInv
    OBVIOUS
  <2>1. Init /\ act \in Locals /\ act.at = "bind" /\ act.n = 1 /\ opts \in Options
        /\ act.success = FALSE /\ act.tries = 0
    <3>1. 0 \in 0 .. MaxTries - 1 /\ 1 \in 1 .. Count
      BY HelperAssumption, HelperFacts
    <3> QED
      BY <3>1 DEF HelperInit, Locals, Labels
  <2>2. FullInv
    <3>1. DaemonInv
      BY <2>1 DEF Init, DaemonInv, Registering, Holding, Placed
    <3>2. SocketInv /\ PublishedIsSelectable
      BY <2>1, SocketAssumption
      DEF Init, SocketInv, PublishedIsSelectable, LiveSockets, Alive,
          EmptyTable, EmptyRow
    <3> QED
      BY <2>1, <3>1, <3>2, TypeInit DEF FullInv
  <2>3. DesignInv /\ CoveredInv
    BY <2>1
    DEF Init, DesignInv, RequestInv, CopyInv, IndexInv, NewStorage, CoveredInv,
        CookieDesignatesSocket, LiveSockets, Alive, Registering
  <2>4. GroupSide
    BY <2>1, <2>2, <2>3, TableInit DEF GroupSide
  <2>5. \A n \in 1 .. Count : FreshSocket(Mine[n]) /\ OnceAt(Mine[n])
    BY <2>1, HelperFacts, SocketAssumption
    DEF Init, FreshSocket, OnceAt, NewStorage, EmptyTable, EmptyRow
  <2>6. HelperType /\ HeldInv /\ PollInv
    BY <2>1 DEF HelperType, HeldInv, Created, Making, PollInv
  <2>7. AskInv /\ OnceInv
    BY <2>5 DEF AskInv, OnceInv, FreshSocket
  <2>8. AskedInv
    BY <2>1 DEF AskedInv, PastDissector
  <2> QED
    BY <2>4, <2>6, <2>7, <2>8 DEF ActInv, HelperSide
<1>2. ActInv /\ [ActivationNext]_allVars => ActInv'
  <2> SUFFICES ASSUME ActInv, [ActivationNext]_allVars PROVE ActInv'
    OBVIOUS
  <2>1. GroupSide'
    BY GroupSideStep
  <2>2. HelperSide'
    <3>1. CASE HelperStep
      BY <3>1, BindSocketStep, RequestDissectorStep, RequestAppStep, StoreReadStep,
         RequestGenStep, PollStep, AdvanceStep, EndStep
      DEF HelperStep
    <3>2. CASE HelperKilled
      BY <3>2, EndStep DEF HelperKilled
    <3>3. CASE ServiceStep \/ DaemonStep \/ DaemonDies
      BY <3>3, OthersStep
    <3>4. CASE UNCHANGED allVars
      <4>1. GroupSide /\ HelperSide /\ TypeOK /\ UNCHANGED vars
              /\ UNCHANGED helperVars
        BY <3>4 DEF allVars, ActInv, GroupSide, FullInv
      <4>2. \A n \in 1 .. Count : Mine[n] \in Sockets /\ OnceAt(Mine[n])
        BY <4>1, HelperFacts DEF HelperSide, OnceInv
      <4>3. \A n \in 1 .. Count :
              SocketKept(Mine[n]) /\ HoldKept(Mine[n]) /\ GroupKept
        BY <4>1, <4>2, GroupOnlyKeeps
      <4>4. GroupKept
        BY <4>3, HelperFacts
      <4> QED
        BY <4>1, <4>3, <4>4, HelperIdle
    <3> QED
      BY <3>1, <3>2, <3>3, <3>4 DEF ActivationNext
  <2> QED
    BY <2>1, <2>2 DEF ActInv
<1> QED
  BY <1>1, <1>2, PTL DEF ActivationSpec

\* A helper that ends with success, or advances the working generation, has
\* every one of its living sockets in the row it asked for, below max_idx and in
\* sockhash, whatever calls were retried or given up and whenever the daemon
\* died (udpgrm_activate.py, register and wait).
THEOREM SuccessIsRegistration ==
  ASSUME Gens = Nat, WorkingGens = Nat
  PROVE  ActivationSpec => []SuccessMeansRegistered
<1>1. ActInv => SuccessMeansRegistered
  <2> SUFFICES ASSUME ActInv, act.at = "advance" \/ act.success,
                      NEW x \in MineSet \cap LiveSockets
               PROVE  \E i \in 0 .. max_idx[RowOf(x)] - 1 :
                        cookies[RowOf(x)][i] = x /\ x \in sockhash
    BY DEF SuccessMeansRegistered
  <2>1. /\ TypeOK /\ DesignInv /\ CoveredInv /\ PublishedIsSelectable
        /\ HelperSide /\ x \in Sockets
    BY DEF ActInv, GroupSide, FullInv, MineSet
  <2>2. PICK n \in 1 .. Count : x = Mine[n]
    BY DEF MineSet, Others
  <2>3. sk[x].sock_idx # Unset
    BY <2>1, <2>2 DEF HelperSide, PollInv
  <2>4. sk[x].sock_gen = next_gen
    BY <2>1, <2>2, <2>3 DEF HelperSide, AskInv, DesignInv, IndexInv
  <2>5. RowOf(x) \in GenIds /\ sk[x].sock_idx \in Idx
    BY <2>1, <2>3, <2>4, IndexRow DEF RowOf, DesignInv
  <2>6. cookies[RowOf(x)][sk[x].sock_idx] = x
    BY <2>1, <2>3, <2>4
    DEF RowOf, DesignInv, CookieDesignatesSocket, Designates
  <2>7. sk[x].sock_idx < max_idx[RowOf(x)]
    BY <2>1, <2>3, <2>4 DEF RowOf, CoveredInv, IndexedCovered
  <2>8. max_idx[RowOf(x)] \in Nat
    BY <2>1, <2>5 DEF TypeOK, GroupType
  <2>9. sk[x].sock_idx \in 0 .. max_idx[RowOf(x)] - 1
    BY <2>5, <2>7, <2>8 DEF Idx
  <2>10. x \in sockhash
    BY <2>1, <2>5, <2>6 DEF PublishedIsSelectable
  <2> QED
    BY <2>6, <2>9, <2>10
<1> QED
  BY <1>1, ActInvariance, PTL

\* No socket of the helper is in two slots, although its calls are retried: a
\* call that answers EAGAIN has posted nothing (ebpf.c, UDP_GRM_SOCKET_GEN).
THEOREM RegisteredOnce ==
  ASSUME Gens = Nat, WorkingGens = Nat
  PROVE  ActivationSpec => []HelperRegistersOnce
<1>1. ActInv => HelperRegistersOnce
  <2> SUFFICES ASSUME ActInv, NEW x \in MineSet \cap LiveSockets,
                      NEW g \in GenIds, NEW h \in GenIds,
                      NEW i \in Idx, NEW j \in Idx,
                      cookies[g][i] = x, cookies[h][j] = x
               PROVE  g = h /\ i = j
    BY DEF HelperRegistersOnce
  <2>1. PICK n \in 1 .. Count : x = Mine[n]
    BY DEF MineSet, Others
  <2> QED
    BY <2>1 DEF ActInv, HelperSide, OnceInv, OnceAt
<1> QED
  BY <1>1, ActInvariance, PTL

\* A helper that goes on after UDP_GRM_DISSECTOR has the dissector it asked for:
\* a first try that got EAGAIN leaves a group behind, and the second is refused
\* by it, or confirmed (udpgrm_activate.py, retrying_setsockopt).
THEOREM DissectorObtained ==
  ASSUME Gens = Nat, WorkingGens = Nat
  PROVE  ActivationSpec => []DissectorAsAsked
<1>1. ActInv => DissectorAsAsked
  BY DEF ActInv, HelperSide, AskedInv, PastDissector, DissectorAsAsked
<1> QED
  BY <1>1, ActInvariance, PTL
=============================================================================
