-------------------------- MODULE RegistrationProofs --------------------------
(***************************************************************************)
(* Proofs about Registration, for every number of sockets, processes,      *)
(* generations and slots.                                                  *)
(***************************************************************************)
EXTENDS Registration, TLAPS

(***************************************************************************)
(* FullInv: inductive under every usage, `udpgrm delete` included.         *)
(***************************************************************************)
Registering == {"find", "find_empty", "cookies", "max_idx", "sock_idx"}
Holding == {"find_empty", "cookies", "max_idx", "sock_idx", "attach"}
Placed == {"cookies", "max_idx", "sock_idx"}

\* What the daemon holds at each step of handle_msg.
DaemonInv ==
  /\ pc \notin {"idle", "dead"} => ring # <<>>
  /\ pc \in Registering => Head(ring) \in RegisterMsg
  /\ pc \in Holding => f \in bound
  /\ pc \in Holding \ {"attach"} => f = Head(ring).cookie
  /\ pc \notin Holding => f = NoCookie
  /\ pc \in Placed => free_pos \in Idx /\ gen_len \in Nat \ {0}
  /\ pc \in Placed => f \in sockhash

\* Only bound sockets are held and published; sockhash has no dead socket.
SocketInv ==
  /\ \A x \in Sockets : holders[x] # {} => x \in bound
  /\ sockhash \subseteq LiveSockets
  /\ \A g \in GenIds, i \in Idx : cookies[g][i] \in bound \cup {NoCookie}

FullInv == TypeOK /\ DaemonInv /\ SocketInv /\ PublishedIsSelectable

\* The row of TO_WRK_GEN is a generation of the table.
LEMMA RowType ==
  ASSUME NEW apps \in 0 .. MAX_APPS, NEW app \in Apps, NEW gen \in Nat
  PROVE  Row(apps, app, gen) \in GenIds
<1> DEFINE n == IF apps = 0 THEN 1 ELSE apps
           size == MAX_GENS \div n
<1>1. n \in 1 .. MAX_GENS
  BY SizeAssumption
<1>2. size \in Nat \ {0}
  BY <1>1, SizeAssumption
<1>3. app * size \in Nat
  BY <1>2, SizeAssumption DEF Apps
<1>4. gen % size \in Nat
  BY <1>2
<1>5. TO_WRK_GEN(apps, app, gen) \in Nat
  BY <1>3, <1>4 DEF TO_WRK_GEN
<1> QED
  BY <1>5, SizeAssumption DEF Row, GenIds

\* The constant values that variables are reset to.
LEMMA ResetTypes ==
  /\ NewStorage \in Storage
  /\ EmptyTable \in Tables
  /\ NoSnapshot \in Snapshots
<1>1. NewStorage \in Storage
  BY SizeAssumption DEF NewStorage, Storage, Apps
<1>2. EmptyTable \in Tables
  BY DEF EmptyTable, EmptyRow, Tables
<1>3. NoSnapshot \in Snapshots
  BY <1>2, SizeAssumption DEF NoSnapshot, Snapshots
<1> QED
  BY <1>1, <1>2, <1>3

\* The initial state has the right types.
LEMMA TypeInit == Init => TypeOK
<1> SUFFICES ASSUME Init PROVE TypeOK
  OBVIOUS
<1>1. GroupType
  <2>1. exists \in BOOLEAN
    BY Zenon DEF Init
  <2> QED
    BY <2>1, ResetTypes, SizeAssumption DEF Init, GroupType, GenIds
<1>2. SocketType
  <2>1. attached \in BOOLEAN
    BY Zenon DEF Init
  <2> QED
    BY <2>1, ResetTypes DEF Init, SocketType
<1>3. DaemonType
  BY ResetTypes, SizeAssumption DEF Init, DaemonType, DaemonPcs, Unset
<1> QED
  BY <1>1, <1>2, <1>3 DEF TypeOK

\* The message in hand, while a socket is being registered.
LEMMA MessageType ==
  ASSUME TypeOK, DaemonInv, pc \in Registering
  PROVE  e \in RegisterMsg /\ EGen \in GenIds
<1>1. e \in RegisterMsg
  BY DEF DaemonInv, e
<1>2. /\ state.max_apps \in 0 .. MAX_APPS
      /\ e.app \in Apps /\ e.gen \in Nat
  BY <1>1, InputAssumption DEF TypeOK, DaemonType, Snapshots, RegisterMsg
<1> QED
  BY <1>1, <1>2, RowType DEF EGen

\* The exit of the daemon keeps the types.
LEMMA ExitTypes == TypeOK /\ DaemonExit => TypeOK'
<1> SUFFICES ASSUME TypeOK, DaemonExit PROVE TypeOK'
  OBVIOUS
<1> USE DEF TypeOK, DaemonExit, groupVars, metricVars, procVars
<1>1. GroupType'
  BY DEF GroupType
<1>2. SocketType'
  BY DEF SocketType, Release
<1>3. DaemonType'
  BY DEF DaemonType, DaemonPcs
<1> QED
  BY <1>1, <1>2, <1>3

\* Every action keeps the types; the daemon's need what it holds (DaemonInv).
LEMMA TypeStep == TypeOK /\ DaemonInv /\ [FullNext]_vars => TypeOK'
<1> SUFFICES ASSUME TypeOK, DaemonInv, [FullNext]_vars PROVE TypeOK'
  OBVIOUS
<1> USE DEF TypeOK, GroupType, SocketType, DaemonType,
            groupVars, metricVars, procVars, localVars
<1>0. CASE UNCHANGED vars
  BY <1>0 DEF vars
<1>1. ASSUME NEW x \in Sockets, NEW p \in Procs, Bind(x, p)
      PROVE  TypeOK'
  BY <1>1 DEF Bind, Storage, Unset
<1>2. ASSUME NEW x \in Sockets, NEW p \in Procs, Rebind(x, p)
      PROVE  TypeOK'
  BY <1>2 DEF Rebind, Storage, Unset
<1>3. ASSUME NEW x \in Sockets, NEW p \in Procs, NEW q \in Procs, Pass(x, p, q)
      PROVE  TypeOK'
  BY <1>3 DEF Pass
<1>4. ASSUME NEW x \in Sockets, NEW p \in Procs, Close(x, p)
      PROVE  TypeOK'
  BY <1>4 DEF Close, Release
<1>5. ASSUME NEW p \in Procs, Exit(p)
      PROVE  TypeOK'
  BY <1>5 DEF Exit, Release
<1>6. ASSUME NEW x \in Sockets, NEW p \in Procs, CreateGroup(x, p)
      PROVE  TypeOK'
  BY <1>6 DEF CreateGroup, get_state
<1>7. ASSUME NEW x \in Sockets, NEW p \in Procs, NEW t \in Callers,
             NEW g \in Gens, SetSocketGen(x, p, t, g)
      PROVE  TypeOK'
  <2>1. sk[x] \in Storage
    OBVIOUS
  <2>2. [type |-> "REGISTER_SOCKET", pid |-> p, task |-> t, cookie |-> x,
         gen |-> g, app |-> sk[x].sock_app] \in Msgs
    BY <2>1 DEF Storage, Msgs, RegisterMsg
  <2>3. ring' \in Seq(Msgs)
    BY <1>7, <2>2 DEF SetSocketGen, Post
  <2>4. sk' \in [Sockets -> Storage]
    BY <1>7, <2>1 DEF SetSocketGen, Storage
  <2> QED
    BY <1>7, <2>3, <2>4 DEF SetSocketGen, get_state
<1>8. ASSUME NEW x \in Sockets, NEW p \in Procs, NEW g \in WorkingGens, SetWorkingGen(x, p, g)
      PROVE  TypeOK'
  BY <1>8, SizeAssumption DEF SetWorkingGen, get_state, Post, Storage, Apps, Msgs, WorkingGenMsg
<1>9. ASSUME NEW x \in Sockets, NEW p \in Procs, NEW n \in DissectorApps, SetDissector(x, p, n)
      PROVE  TypeOK'
  BY <1>9, InputAssumption DEF SetDissector, get_state, Post, Msgs, DissectorMsg
<1>10. ASSUME NEW x \in Sockets, NEW p \in Procs, NEW a \in Apps, SetSocketApp(x, p, a)
      PROVE  TypeOK'
  BY <1>10 DEF SetSocketApp, Storage
<1>11. CASE RemoveGroup
  <2>1. exists' \in BOOLEAN
    BY <1>11, Zenon DEF RemoveGroup
  <2> QED
    BY <1>11, <2>1, ResetTypes, SizeAssumption, RingAssumption DEF RemoveGroup, GenIds
<1>12. CASE LookupState
  <2>1. CASE DaemonExit
    BY <2>1, ExitTypes
  <2>2. CASE ~DaemonExit
    <3>1. /\ state' = [max_apps |-> max_apps, cookies |-> cookies]
          /\ pc' = FirstStep(e) /\ ring # <<>>
          /\ UNCHANGED <<groupVars, metricVars, procVars, sk, sockhash,
                         attached, ring, s, f, free_pos, gen_len, state_ptr>>
      BY <1>12, <2>2 DEF LookupState
    <3>2. state' \in Snapshots
      BY <3>1 DEF Snapshots
    <3>3. e \in Msgs
      BY <3>1 DEF e
    <3>4. pc' \in DaemonPcs
      BY <3>1, <3>3 DEF FirstStep, DaemonPcs, Msgs, RegisterMsg, WorkingGenMsg,
                        DissectorMsg
    <3> QED
      BY <3>1, <3>2, <3>4
  <2> QED
    BY <2>1, <2>2
<1>13. CASE FindSocket
  <2>1. e.cookie \in Sockets
    BY <1>13, MessageType DEF FindSocket, Registering, RegisterMsg
  <2> QED
    BY <1>13, <2>1 DEF FindSocket, DaemonPcs
<1>14. CASE FindEmpty
  <2>1. f \in Sockets
    BY <1>14 DEF FindEmpty, DaemonInv, Holding
  <2>2. sockhash' \subseteq Sockets
    BY <1>14, <2>1 DEF FindEmpty, InsertSockhash
  <2>3. /\ free_pos' \in Idx \cup {Unset}
        /\ gen_len' \in 0 .. MAX_SOCKETS_IN_GEN
    BY <1>14, SizeAssumption DEF FindEmpty
  <2>4. pc' \in DaemonPcs
    BY <1>14 DEF FindEmpty, DaemonPcs
  <2> QED
    BY <1>14, <2>2, <2>3, <2>4 DEF FindEmpty
<1>15. CASE SetCookies
  <2>1. CASE DaemonExit
    BY <2>1, ExitTypes
  <2>2. CASE ~DaemonExit
    <3>1. EGen \in GenIds /\ e.cookie \in Sockets
      BY <1>15, MessageType DEF SetCookies, Registering, RegisterMsg
    <3>2. cookies' \in Tables
      <4> DEFINE row == [cookies[EGen] EXCEPT ![free_pos] = e.cookie]
      <4>1. row \in [Idx -> Sockets \cup {NoCookie}]
        BY <3>1 DEF Tables
      <4>2. cookies' = [cookies EXCEPT ![EGen] = row]
        BY <1>15, <2>2 DEF SetCookies
      <4> QED
        BY <4>1, <4>2, <3>1 DEF Tables
    <3> QED
      BY <1>15, <2>2, <3>2 DEF SetCookies, DaemonPcs
  <2> QED
    BY <2>1, <2>2
<1>16. CASE SetMaxIdx
  BY <1>16 DEF SetMaxIdx, DaemonPcs
<1>17. CASE WriteIdx
  BY <1>17 DEF WriteIdx, Storage, DaemonPcs, DaemonInv, Holding, Placed
<1>18. CASE Attach
  BY <1>18 DEF Attach, DaemonPcs
<1>19. CASE AddCritical
  BY <1>19, RingAssumption DEF AddCritical, fetch_and_add, DaemonExit, Release, DaemonPcs
<1>20. CASE CountCritical
  BY <1>20, RingAssumption DEF CountCritical, fetch_and_add, DaemonExit, Release, DaemonPcs
<1>21. CASE WorkingGenSet
  <2>1. CASE DaemonExit
    BY <2>1, ExitTypes
  <2>2. CASE ~DaemonExit
    BY <1>21, <2>2, RingAssumption DEF WorkingGenSet, fetch_and_add, DaemonPcs
  <2> QED
    BY <2>1, <2>2
<1>22. CASE Return
  BY <1>22, ResetTypes, SizeAssumption
  DEF Return, Consumed, DaemonPcs, DaemonInv
<1>23. CASE CallFails
  BY <1>23, ExitTypes DEF CallFails
<1> QED
  BY <1>0, <1>1, <1>2, <1>3, <1>4, <1>5, <1>6, <1>7, <1>8, <1>9, <1>10, <1>11,
     <1>12, <1>13, <1>14, <1>15, <1>16, <1>17, <1>18, <1>19, <1>20, <1>21,
     <1>22, <1>23
  DEF FullNext, Delete, RefuseDissector, RebindNext, RegenNext, ChangeGen, Next,
      Application, Daemon

(***************************************************************************)
(* DaemonInv and SocketInv.                                                *)
(***************************************************************************)
\* The exit of the daemon ends every obligation of DaemonInv.
LEMMA ExitDaemonInv == DaemonExit => DaemonInv'
  BY DEF DaemonExit, DaemonInv, Registering, Holding, Placed

\* What applications can change, with any usage of setsockopt() and bind().
AppAction ==
  \/ Application \/ ChangeGen
  \/ \E x \in Sockets, p \in Procs : Rebind(x, p)

AppFrame ==
  /\ UNCHANGED <<pc, state, s, f, free_pos, gen_len, state_ptr, cookies,
                 max_idx>>
  /\ ring' = ring \/ (\E m \in Msgs : ring' = Append(ring, m) /\ exists')
  /\ exists => exists'
  /\ bound \subseteq bound'
  /\ sockhash' \subseteq sockhash
  /\ sockhash \cap LiveSockets' \subseteq sockhash'
  /\ sockhash' \subseteq LiveSockets'
  /\ \A x \in bound : holders'[x] # {} => holders[x] # {}
  /\ \A x \in Sockets : holders'[x] # {} => x \in bound'

\* Every call of an application stays within that frame.
LEMMA AppFrameHolds == TypeOK /\ SocketInv /\ AppAction => AppFrame
<1> SUFFICES ASSUME TypeOK, SocketInv, AppAction PROVE AppFrame
  OBVIOUS
<1> USE DEF TypeOK, SocketType, DaemonType, SocketInv, LiveSockets, Alive,
            AppFrame, groupVars, metricVars, procVars, localVars
<1>1. ASSUME NEW x \in Sockets, NEW p \in Procs, Bind(x, p)
      PROVE  AppFrame
  BY <1>1 DEF Bind
<1>2. ASSUME NEW x \in Sockets, NEW p \in Procs, Rebind(x, p)
      PROVE  AppFrame
  BY <1>2 DEF Rebind
<1>3. ASSUME NEW x \in Sockets, NEW p \in Procs, NEW q \in Procs, Pass(x, p, q)
      PROVE  AppFrame
  BY <1>3 DEF Pass
<1>4. ASSUME NEW x \in Sockets, NEW p \in Procs, Close(x, p)
      PROVE  AppFrame
  BY <1>4 DEF Close, Release
<1>5. ASSUME NEW p \in Procs, Exit(p)
      PROVE  AppFrame
  BY <1>5 DEF Exit, Release
<1>6. ASSUME NEW x \in Sockets, NEW p \in Procs, CreateGroup(x, p)
      PROVE  AppFrame
  BY <1>6 DEF CreateGroup, get_state
<1>7. ASSUME NEW x \in Sockets, NEW p \in Procs, NEW t \in Callers,
             NEW g \in Gens, SetSocketGen(x, p, t, g)
      PROVE  AppFrame
  <2>1. [type |-> "REGISTER_SOCKET", pid |-> p, task |-> t, cookie |-> x,
         gen |-> g, app |-> sk[x].sock_app] \in Msgs
    BY DEF Storage, Msgs, RegisterMsg
  <2> QED
    BY <1>7, <2>1 DEF SetSocketGen, get_state, Post
<1>8. ASSUME NEW x \in Sockets, NEW p \in Procs, NEW g \in WorkingGens,
             SetWorkingGen(x, p, g)
      PROVE  AppFrame
  <2>1. [type |-> "SET_WORKING_GEN", app |-> sk[x].sock_app % MAX_APPS,
         gen |-> g] \in Msgs
    BY SizeAssumption DEF Storage, Apps, Msgs, WorkingGenMsg
  <2> QED
    BY <1>8, <2>1 DEF SetWorkingGen, get_state, Post
<1>9. ASSUME NEW x \in Sockets, NEW p \in Procs, NEW n \in DissectorApps,
             SetDissector(x, p, n)
      PROVE  AppFrame
  <2>1. [type |-> "SET_DISSECTOR"] \in Msgs
    BY DEF Msgs, DissectorMsg
  <2> QED
    BY <1>9, <2>1 DEF SetDissector, get_state, Post
<1>10. ASSUME NEW x \in Sockets, NEW p \in Procs, NEW a \in Apps,
              SetSocketApp(x, p, a)
       PROVE  AppFrame
  BY <1>10 DEF SetSocketApp
<1> QED
  BY <1>1, <1>2, <1>3, <1>4, <1>5, <1>6, <1>7, <1>8, <1>9, <1>10
  DEF AppAction, Application, ChangeGen

\* Applications leave the head of a ring that is not empty in place.
LEMMA AppKeepsHead ==
  ASSUME TypeOK, AppFrame, ring # <<>>
  PROVE  ring' # <<>> /\ Head(ring') = Head(ring)
  BY DEF AppFrame, TypeOK, DaemonType

\* So they keep what the daemon holds.
LEMMA FrameKeepsDaemon == TypeOK /\ DaemonInv /\ AppFrame => DaemonInv'
<1> SUFFICES ASSUME TypeOK, DaemonInv, AppFrame PROVE DaemonInv'
  OBVIOUS
<1>1. pc \in Placed => f \in sockhash'
  BY DEF AppFrame, LiveSockets, Alive, TypeOK, SocketType, DaemonInv, Placed,
         Holding
<1>2. ring # <<>> => ring' # <<>> /\ Head(ring') = Head(ring)
  BY AppKeepsHead
<1> QED
  BY <1>1, <1>2 DEF AppFrame, DaemonInv, Registering, Holding, Placed

\* DaemonInv is kept by every action.
LEMMA DaemonInvStep == FullInv /\ [FullNext]_vars => DaemonInv'
<1> SUFFICES ASSUME FullInv, [FullNext]_vars PROVE DaemonInv'
  OBVIOUS
<1> USE DEF FullInv, TypeOK, DaemonType, DaemonInv, Registering, Holding,
            Placed, groupVars, metricVars, procVars, localVars
<1>1. CASE UNCHANGED vars
  BY <1>1 DEF vars
<1>2. CASE AppAction
  BY <1>2, AppFrameHolds, FrameKeepsDaemon
<1>3. CASE RemoveGroup
  BY <1>3 DEF RemoveGroup
<1>4. CASE LookupState
  <2>1. CASE DaemonExit
    BY <2>1, ExitDaemonInv
  <2>2. CASE ~DaemonExit
    <3>1. /\ ring # <<>> /\ pc = "idle" /\ pc' = FirstStep(e)
          /\ UNCHANGED <<ring, bound, f, free_pos, gen_len, sockhash>>
      BY <1>4, <2>2 DEF LookupState
    <3>2. e \in Msgs
      BY <3>1 DEF e
    <3>3. pc' \in {"find", "working_gen", "done"}
      BY <3>1, <3>2 DEF FirstStep, Msgs, RegisterMsg, WorkingGenMsg,
                        DissectorMsg
    <3>4. pc' = "find" => Head(ring) \in RegisterMsg
      BY <3>1, <3>2 DEF FirstStep, Msgs, RegisterMsg, WorkingGenMsg,
                        DissectorMsg, e
    <3> QED
      BY <3>1, <3>3, <3>4
  <2> QED
    BY <2>1, <2>2
<1>5. CASE FindSocket
  <2>1. e \in RegisterMsg /\ e.cookie \in Sockets
    BY <1>5, MessageType DEF FindSocket, RegisterMsg
  <2>2. Findable(e) => e.cookie \in bound
    BY <2>1 DEF Findable, SocketInv
  <2> QED
    BY <1>5, <2>1, <2>2 DEF FindSocket, e
<1>6. CASE FindEmpty
  BY <1>6, SizeAssumption DEF FindEmpty, InsertSockhash
<1>7. CASE SetCookies
  BY <1>7, ExitDaemonInv DEF SetCookies
<1>8. CASE SetMaxIdx
  BY <1>8 DEF SetMaxIdx
<1>9. CASE WriteIdx
  BY <1>9 DEF WriteIdx
<1>10. CASE Attach
  BY <1>10 DEF Attach
<1>11. CASE AddCritical
  BY <1>11, ExitDaemonInv DEF AddCritical
<1>12. CASE CountCritical
  BY <1>12, ExitDaemonInv DEF CountCritical
<1>13. CASE WorkingGenSet
  BY <1>13, ExitDaemonInv DEF WorkingGenSet
<1>14. CASE Return
  BY <1>14 DEF Return
<1>15. CASE CallFails
  BY <1>15, ExitDaemonInv DEF CallFails
<1> QED
  BY <1>1, <1>2, <1>3, <1>4, <1>5, <1>6, <1>7, <1>8, <1>9, <1>10, <1>11, <1>12,
     <1>13, <1>14, <1>15
  DEF FullNext, Delete, RefuseDissector, RebindNext, RegenNext, Next, Daemon,
      AppAction

\* Applications bring no socket back to life, so that what is published stays
\* selectable.
LEMMA FrameKeepsSockets ==
  SocketInv /\ PublishedIsSelectable /\ AppFrame /\ TypeOK'
    => SocketInv' /\ PublishedIsSelectable'
<1> SUFFICES ASSUME SocketInv, PublishedIsSelectable, AppFrame, TypeOK'
             PROVE  SocketInv' /\ PublishedIsSelectable'
  OBVIOUS
<1> USE DEF SocketInv, PublishedIsSelectable, LiveSockets, Alive, AppFrame
<1>1. SocketInv'
  OBVIOUS
<1>2. ASSUME NEW g \in GenIds, NEW i \in Idx, cookies'[g][i] \in LiveSockets'
      PROVE  cookies'[g][i] \in sockhash'
  <2>1. cookies'[g][i] = cookies[g][i] /\ f' = f /\ NoCookie \notin bound'
    BY SocketAssumption DEF TypeOK, SocketType
  <2>2. cookies[g][i] \in bound
    BY <1>2, <2>1
  <2>3. cookies[g][i] \in LiveSockets
    BY <1>2, <2>1, <2>2
  <2> QED
    BY <1>2, <2>1, <2>3
<1> QED
  BY <1>1, <1>2

\* The exit of the daemon closes its descriptor: sockhash follows.
LEMMA ExitSocketInv ==
  TypeOK /\ SocketInv /\ PublishedIsSelectable /\ DaemonExit
    => SocketInv' /\ PublishedIsSelectable'
  BY SocketAssumption
  DEF DaemonExit, SocketInv, PublishedIsSelectable, TypeOK, SocketType,
      GroupType, Tables, LiveSockets, Alive, Release, groupVars, procVars

\* SocketInv and PublishedIsSelectable are kept by every action: a cookie
\* enters the table only after its socket entered sockhash (DaemonInv), and a
\* socket that died never lives again.
LEMMA SocketInvStep ==
  FullInv /\ [FullNext]_vars => SocketInv' /\ PublishedIsSelectable'
<1> SUFFICES ASSUME FullInv, [FullNext]_vars
             PROVE  SocketInv' /\ PublishedIsSelectable'
  OBVIOUS
<1> USE DEF FullInv, SocketInv, PublishedIsSelectable, LiveSockets, Alive,
            groupVars, metricVars, procVars, localVars
<1>1. CASE UNCHANGED vars
  BY <1>1 DEF vars
<1>2. CASE AppAction
  BY <1>2, AppFrameHolds, TypeStep, FrameKeepsSockets
<1>3. CASE RemoveGroup
  BY <1>3, SocketAssumption
  DEF RemoveGroup, EmptyTable, EmptyRow, TypeOK, SocketType
<1>4. CASE LookupState
  BY <1>4, ExitSocketInv DEF LookupState, DaemonInv, Holding
<1>5. CASE FindSocket
  <2>1. e.cookie \in Sockets
    BY <1>5, MessageType DEF FindSocket, Registering, RegisterMsg
  <2> QED
    BY <1>5, <2>1, SocketAssumption
    DEF FindSocket, Findable, DaemonInv, Holding, TypeOK, SocketType
<1>6. CASE FindEmpty
  BY <1>6 DEF FindEmpty, InsertSockhash, DaemonInv, Holding
<1>7. CASE SetCookies
  <2>1. CASE DaemonExit
    BY <2>1, ExitSocketInv
  <2>2. CASE ~DaemonExit
    <3>1. EGen \in GenIds /\ free_pos \in Idx /\ e.cookie = f
          /\ f \in bound /\ f \in sockhash
      BY <1>7, MessageType
      DEF SetCookies, DaemonInv, Registering, Holding, Placed, e
    <3>2. \A g \in GenIds, i \in Idx :
            cookies'[g][i] = cookies[g][i] \/ cookies'[g][i] = f
      BY <1>7, <2>2, <3>1 DEF SetCookies, TypeOK, GroupType, Tables
    <3> QED
      BY <1>7, <2>2, <3>1, <3>2 DEF SetCookies
  <2> QED
    BY <2>1, <2>2
<1>8. CASE SetMaxIdx
  BY <1>8 DEF SetMaxIdx
<1>9. CASE WriteIdx
  BY <1>9 DEF WriteIdx
<1>10. CASE Attach
  BY <1>10, SocketAssumption DEF Attach, TypeOK, SocketType
<1>11. CASE AddCritical
  BY <1>11, ExitSocketInv DEF AddCritical
<1>12. CASE CountCritical
  BY <1>12, ExitSocketInv DEF CountCritical
<1>13. CASE WorkingGenSet
  BY <1>13, ExitSocketInv DEF WorkingGenSet
<1>14. CASE Return
  BY <1>14 DEF Return
<1>15. CASE CallFails
  BY <1>15, ExitSocketInv DEF CallFails
<1> QED
  BY <1>1, <1>2, <1>3, <1>4, <1>5, <1>6, <1>7, <1>8, <1>9, <1>10, <1>11, <1>12,
     <1>13, <1>14, <1>15
  DEF FullNext, Delete, RefuseDissector, RebindNext, RegenNext, Next, Daemon,
      AppAction

\* FullInv holds in every state that any usage reaches.
THEOREM FullInvariance == FullSpec => []FullInv
<1>1. Init => FullInv
  <2>1. Init => DaemonInv
    BY DEF Init, DaemonInv, Registering, Holding, Placed
  <2>2. Init => SocketInv /\ PublishedIsSelectable
    BY SocketAssumption
    DEF Init, SocketInv, PublishedIsSelectable, LiveSockets, Alive, EmptyTable,
        EmptyRow
  <2> QED
    BY <2>1, <2>2, TypeInit DEF FullInv
<1>2. FullInv /\ [FullNext]_vars => FullInv'
  BY TypeStep, DaemonInvStep, SocketInvStep DEF FullInv
<1> QED
  BY <1>1, <1>2, PTL DEF FullSpec

\* Type correctness of the group map, the sockets, the ring and handle_msg
\* under every usage.
THEOREM TypeCorrect == FullSpec => []TypeOK
<1>1. FullInv => TypeOK
  BY DEF FullInv
<1> QED
  BY <1>1, FullInvariance, PTL

\* The daemon inserts a socket into sockhash before it publishes its cookie
\* (udpgrm.c:179, :211): no living socket in the table is unselectable.
THEOREM PublishedSelectable == FullSpec => []PublishedIsSelectable
<1>1. FullInv => PublishedIsSelectable
  BY DEF FullInv
<1> QED
  BY <1>1, FullInvariance, PTL

(***************************************************************************)
(* RegisteredIsAttached, under every usage.  The kernel drops the program  *)
(* with the last socket of the group, and the daemon may be anywhere in    *)
(* handle_msg, or dead, when that happens.                                 *)
(***************************************************************************)
\* With FullInv the property is inductive: an index is only written on the
\* way to the attachment, only a group without a living socket loses the
\* program, and the request in hand stays at the head of the ring.
LEMMA AttachStep ==
  FullInv /\ RegisteredIsAttached /\ [FullNext]_vars => RegisteredIsAttached'
<1> SUFFICES ASSUME FullInv, RegisteredIsAttached, [FullNext]_vars,
                    NEW x \in LiveSockets', sk'[x].sock_idx # Unset,
                    ~InHand(x)'
             PROVE  attached'
  BY DEF RegisteredIsAttached
<1>1. TypeOK /\ TypeOK' /\ DaemonInv /\ SocketInv /\ x \in Sockets
  BY TypeStep DEF FullInv, TypeOK, SocketType, LiveSockets, Alive
<1>0. AppAction \/ RemoveGroup \/ DaemonExit => ~InHand(x)
  <2>1. AppAction \/ RemoveGroup \/ DaemonExit =>
          /\ pc' \in {pc, "dead"}
          /\ ring # <<>> => ring' # <<>> /\ Head(ring') = Head(ring)
    BY <1>1, AppFrameHolds, AppKeepsHead DEF AppFrame, RemoveGroup, DaemonExit
  <2> QED
    BY <2>1 DEF InHand, e
<1> USE <1>1 DEF RegisteredIsAttached, TypeOK, SocketType, DaemonType,
            SocketInv, LiveSockets, Alive, groupVars, metricVars, procVars,
            localVars
<1>2. CASE UNCHANGED vars
  BY <1>2 DEF vars, InHand, e
<1>3. CASE DaemonExit
  BY <1>3, <1>0, SocketAssumption DEF DaemonExit, Release
<1>4. ASSUME NEW y \in Sockets, NEW p \in Procs, Bind(y, p), ~InHand(x)
      PROVE  attached'
  BY <1>4 DEF Bind, Storage
<1>5. ASSUME NEW y \in Sockets, NEW p \in Procs, Rebind(y, p), ~InHand(x)
      PROVE  attached'
  BY <1>5 DEF Rebind, Storage
<1>6. ASSUME NEW y \in Sockets, NEW p \in Procs, NEW q \in Procs,
             Pass(y, p, q), ~InHand(x)
      PROVE  attached'
  BY <1>6 DEF Pass
<1>7. ASSUME NEW y \in Sockets, NEW p \in Procs, Close(y, p), ~InHand(x)
      PROVE  attached'
  BY <1>7 DEF Close, Release
<1>8. ASSUME NEW p \in Procs, Exit(p), ~InHand(x)
      PROVE  attached'
  BY <1>8 DEF Exit, Release
<1>9. ASSUME NEW y \in Sockets, NEW p \in Procs, NEW t \in Callers,
             NEW g \in Gens, SetSocketGen(y, p, t, g), ~InHand(x)
      PROVE  attached'
  BY <1>9 DEF SetSocketGen, Storage
<1>10. ASSUME NEW y \in Sockets, NEW p \in Procs, NEW a \in Apps,
              SetSocketApp(y, p, a), ~InHand(x)
       PROVE  attached'
  BY <1>10 DEF SetSocketApp, Storage
<1>11. ASSUME NEW y \in Sockets, NEW p \in Procs,
              \/ CreateGroup(y, p)
              \/ \E g \in WorkingGens : SetWorkingGen(y, p, g)
              \/ \E n \in DissectorApps : SetDissector(y, p, n), ~InHand(x)
       PROVE  attached'
  <2>1. UNCHANGED <<sk, attached, bound, holders, f>>
    BY <1>11 DEF CreateGroup, SetWorkingGen, SetDissector
  <2> QED
    BY <1>11, <2>1
<1>12. CASE RemoveGroup
  BY <1>12, <1>0 DEF RemoveGroup
<1>13. CASE FindSocket
  <2>1. e.cookie \in Sockets
    BY <1>13, MessageType DEF FindSocket, Registering, RegisterMsg
  <2> QED
    BY <1>13, <2>1 DEF FindSocket, Findable, DaemonInv, Holding, InHand
<1>14. CASE Attach
  BY <1>14 DEF Attach
<1>15. CASE WriteIdx
  <2>1. Head(ring) \in RegisterMsg /\ f = Head(ring).cookie /\ ring # <<>>
    BY <1>15 DEF WriteIdx, DaemonInv, Registering, Holding
  <2>2. x # f
    BY <1>15, <2>1 DEF WriteIdx, InHand, e, RegisterMsg
  <2> QED
    BY <1>15, <2>2 DEF WriteIdx, InHand
<1>16. CASE \/ LookupState \/ FindEmpty \/ SetCookies \/ SetMaxIdx
            \/ AddCritical \/ CountCritical \/ WorkingGenSet \/ Return
  BY <1>3, <1>16 DEF LookupState, FindEmpty, SetCookies, SetMaxIdx,
     AddCritical, CountCritical, WorkingGenSet, Return, InHand
<1> QED
  BY <1>2, <1>3, <1>4, <1>5, <1>6, <1>7, <1>8, <1>9, <1>10, <1>11, <1>12,
     <1>13, <1>14, <1>15, <1>16, <1>0
  DEF FullNext, Delete, RefuseDissector, RebindNext, RegenNext, ChangeGen, Next,
      Application, Daemon, CallFails, AppAction

\* A socket that was told an index is reached by the program (udpgrm.c:236
\* attaches in the message that wrote the index), whatever applications and
\* operators do and even if the daemon died since; only the socket of the request
\* it died of may be left without.
THEOREM RegisteredAttached == FullSpec => []RegisteredIsAttached
<1>1. Init => RegisteredIsAttached
  BY DEF Init, RegisteredIsAttached, LiveSockets, Alive
<1> QED
  BY <1>1, AttachStep, FullInvariance, PTL DEF FullSpec

(***************************************************************************)
(* TableInv: the shape of the cookie table while nobody deletes the group. *)
(***************************************************************************)
\* The group outlives its messages, and the copy taken by handle_msg stays
\* up to date: nobody but the daemon writes the table.
GroupInv ==
  /\ ring # <<>> => exists
  /\ state_ptr # "freed"
  /\ pc \in {"find", "find_empty", "cookies"} => state.cookies = cookies

\* The written slots of a row are its first ones, and max_idx ends at one.
RowInv ==
  /\ \A g \in GenIds : \A i, j \in Idx :
       j < i /\ cookies[g][i] # NoCookie => cookies[g][j] # NoCookie
  /\ \A g \in GenIds :
       max_idx[g] > 0 => cookies[g][max_idx[g] - 1] # NoCookie

\* Live sockets are below max_idx, but for the row between the two stores, which
\* a daemon that is killed there leaves as it is.
CoverInv ==
  \A g \in GenIds, i \in Idx :
    cookies[g][i] \in sockhash =>
      i < max_idx[g] \/ pc = "dead" \/ (pc = "max_idx" /\ g = EGen)

\* What cookies_find_empty found is still so when it is used.
ScanInv ==
  /\ pc = "cookies" =>
       /\ \A j \in Idx : j < free_pos => cookies[EGen][j] # NoCookie
       /\ cookies[EGen][free_pos] \notin sockhash
  /\ pc = "max_idx" => cookies[EGen][free_pos] # NoCookie
  /\ pc \in {"cookies", "max_idx"} =>
       /\ free_pos < gen_len
       /\ gen_len - 1 # free_pos => cookies[EGen][gen_len - 1] # NoCookie
       /\ \A j \in Idx :
            j >= gen_len => j # free_pos /\ cookies[EGen][j] \notin sockhash

TableInv == GroupInv /\ RowInv /\ CoverInv /\ ScanInv

\* A written prefix that max_idx does not exceed has no hole.
LEMMA RowInvNoHole == TypeOK /\ RowInv => NoHole
<1> SUFFICES ASSUME TypeOK, RowInv, NEW g \in GenIds,
                    NEW i \in 0 .. max_idx[g] - 1
             PROVE  cookies[g][i] # NoCookie
  BY DEF NoHole
<1>1. max_idx[g] \in 0 .. MAX_SOCKETS_IN_GEN
  BY DEF TypeOK, GroupType
<1>2. max_idx[g] - 1 \in Idx /\ i \in Idx /\ max_idx[g] > 0
  BY <1>1, SizeAssumption DEF Idx
<1> QED
  BY <1>1, <1>2 DEF RowInv

\* TableInv holds at the start.
LEMMA TableInit == Init => TableInv
  BY SocketAssumption
  DEF Init, TableInv, GroupInv, RowInv, CoverInv, ScanInv, EmptyTable, EmptyRow

\* Steps away from the scan that leave the table alone keep its shape.
LEMMA TableFrame ==
  ASSUME TableInv, UNCHANGED <<cookies, max_idx>>, sockhash' \subseteq sockhash,
         pc \notin {"max_idx", "dead"}, pc' \notin {"cookies", "max_idx"}
  PROVE  RowInv' /\ CoverInv' /\ ScanInv'
  BY DEF TableInv, RowInv, CoverInv, ScanInv

\* The row in hand depends on the copy and on the head of the ring only.
LEMMA EGenFrame ==
  ASSUME state' = state, Head(ring') = Head(ring)
  PROVE  EGen' = EGen
  BY DEF EGen, e

\* Applications leave the table and what the daemon knows of it alone.
LEMMA FrameKeepsTable == TypeOK /\ DaemonInv /\ TableInv /\ AppFrame => TableInv'
<1> SUFFICES ASSUME TypeOK, DaemonInv, TableInv, AppFrame PROVE TableInv'
  OBVIOUS
<1> USE DEF TableInv, AppFrame
<1>1. ring # <<>> => Head(ring') = Head(ring)
  BY AppKeepsHead
<1>2. pc \in {"cookies", "max_idx"} => EGen' = EGen
  BY <1>1, EGenFrame DEF DaemonInv
<1>3. GroupInv'
  BY DEF GroupInv
<1>4. RowInv'
  BY DEF RowInv
<1>5. CoverInv'
  BY <1>2 DEF CoverInv
<1>6. ScanInv'
  BY <1>2 DEF ScanInv
<1> QED
  BY <1>3, <1>4, <1>5, <1>6

\* The exit of the daemon, at any error but between the two stores.
LEMMA ExitKeepsTable ==
  ASSUME TableInv, DaemonExit, pc # "max_idx"
  PROVE  TableInv'
<1>1. GroupInv'
  BY DEF DaemonExit, TableInv, GroupInv, groupVars
<1>2. RowInv' /\ CoverInv' /\ ScanInv'
  BY DEF DaemonExit, TableInv, RowInv, CoverInv, ScanInv, groupVars
<1> QED
  BY <1>1, <1>2 DEF TableInv

\* TableInv is kept by every action but the removal of the group.
LEMMA TableStep == FullInv /\ TableInv /\ [RebindNext]_vars => TableInv'
<1> SUFFICES ASSUME FullInv, TableInv, [RebindNext]_vars PROVE TableInv'
  OBVIOUS
<1> USE DEF FullInv, TableInv, groupVars, metricVars, procVars, localVars
<1>1. CASE UNCHANGED vars
  BY <1>1 DEF vars, GroupInv, RowInv, CoverInv, ScanInv, EGen, e
<1>2. CASE AppAction
  BY <1>2, AppFrameHolds, FrameKeepsTable
<1>3. CASE LookupState
  <2>1. exists
    BY <1>3 DEF LookupState, GroupInv
  <2>2. pc' = FirstStep(e) /\ e \in Msgs
    BY <1>3, <2>1 DEF LookupState, e, TypeOK, DaemonType
  <2>3. pc' \in {"find", "working_gen", "done"}
    BY <2>2 DEF FirstStep, Msgs, RegisterMsg, WorkingGenMsg, DissectorMsg
  <2>4. GroupInv'
    BY <1>3, <2>1, <2>3 DEF LookupState, GroupInv
  <2> QED
    BY <1>3, <2>1, <2>3, <2>4, TableFrame DEF LookupState
<1>4. CASE FindSocket
  <2>1. GroupInv'
    BY <1>4 DEF FindSocket, GroupInv
  <2> QED
    BY <1>4, <2>1, TableFrame DEF FindSocket
<1>5. CASE FindEmpty
  <2>1. GroupInv'
    BY <1>5 DEF FindEmpty, GroupInv
  <2>2. CASE pc' = "attach"
    BY <1>5, <2>1, <2>2, TableFrame DEF FindEmpty
  <2>3. CASE pc' # "attach"
    <3> DEFINE row == cookies[EGen]
    <3>1. PICK pos \in Idx, len \in 1 .. MAX_SOCKETS_IN_GEN :
            /\ IsFreePos(row, pos) /\ IsGenLen(row, pos, len)
            /\ free_pos' = pos /\ gen_len' = len
            /\ sockhash' = sockhash \cup {f}
            /\ pc' = "cookies"
      BY <1>5, <2>3 DEF FindEmpty, GroupInv, InsertSockhash
    <3>2. EGen' = EGen /\ EGen \in GenIds
      BY <1>5, EGenFrame, MessageType DEF FindEmpty, Registering
    <3>3. UNCHANGED <<cookies, max_idx>>
      BY <1>5 DEF FindEmpty
    <3>4. f \in LiveSockets
      BY <1>5 DEF FindEmpty, DaemonInv, Holding, LiveSockets, Alive
    <3>5. \A g \in GenIds, i \in Idx :
            cookies[g][i] \in sockhash' => cookies[g][i] \in sockhash
      BY <3>1, <3>4 DEF PublishedIsSelectable
    <3>6. NoCookie \notin sockhash
      BY SocketAssumption DEF TypeOK, SocketType
    <3>7. RowInv'
      BY <3>3 DEF RowInv
    <3>8. CoverInv'
      BY <1>5, <3>3, <3>5 DEF FindEmpty, CoverInv
    <3>9. /\ \A j \in Idx : j < pos => row[j] # NoCookie
          /\ row[pos] \notin sockhash
      BY <3>1, <3>6 DEF IsFreePos, Idx
    <3>10. /\ pos < len
           /\ len - 1 # pos => row[len - 1] # NoCookie
           /\ \A j \in Idx : j >= len => j # pos /\ row[j] \notin sockhash
      BY <3>1, <3>6, SizeAssumption DEF IsGenLen, Idx
    <3>11. ScanInv'
      BY <3>1, <3>2, <3>3, <3>5, <3>9, <3>10 DEF ScanInv, Idx
    <3> QED
      BY <2>1, <3>7, <3>8, <3>11
  <2> QED
    BY <2>2, <2>3
<1>6. CASE SetCookies
  <2>1. exists
    BY <1>6 DEF SetCookies, GroupInv, DaemonInv
  <2>2. /\ pc = "cookies" /\ pc' = "max_idx" /\ state_ptr' = "valid"
        /\ cookies' = [cookies EXCEPT ![EGen][free_pos] = e.cookie]
        /\ UNCHANGED <<exists, max_idx, ring, state, free_pos, gen_len,
                       sockhash>>
    BY <1>6, <2>1 DEF SetCookies
  <2>3. /\ EGen \in GenIds /\ EGen' = EGen /\ free_pos \in Idx
        /\ e.cookie \in Sockets
    BY <2>2, EGenFrame, MessageType DEF Registering, RegisterMsg, DaemonInv,
       Placed
  <2>4. e.cookie # NoCookie
    BY <2>3, SocketAssumption
  <2>5. /\ cookies'[EGen][free_pos] = e.cookie
        /\ \A g \in GenIds, i \in Idx :
             g # EGen \/ i # free_pos => cookies'[g][i] = cookies[g][i]
    BY <2>2, <2>3 DEF TypeOK, GroupType, Tables
  <2>6. GroupInv'
    BY <2>2 DEF GroupInv
  <2>7. RowInv'
    <3>1. ASSUME NEW g \in GenIds, NEW i \in Idx, NEW j \in Idx,
                 j < i, cookies'[g][i] # NoCookie
          PROVE  cookies'[g][j] # NoCookie
      BY <2>2, <2>3, <2>4, <2>5, <3>1 DEF RowInv, ScanInv, Idx
    <3>2. ASSUME NEW g \in GenIds, max_idx[g] > 0
          PROVE  cookies'[g][max_idx[g] - 1] # NoCookie
      <4>1. max_idx[g] - 1 \in Idx
        BY <3>2, SizeAssumption DEF TypeOK, GroupType, Idx
      <4> QED
        BY <2>4, <2>5, <3>2, <4>1 DEF RowInv
    <3> QED
      BY <2>2, <3>1, <3>2 DEF RowInv
  <2>8. CoverInv'
    BY <2>2, <2>3, <2>5 DEF CoverInv
  <2>9. ScanInv'
    <3>1. gen_len - 1 \in Idx
      BY <2>2, SizeAssumption
      DEF DaemonInv, Placed, TypeOK, DaemonType, Idx
    <3> QED
      BY <2>2, <2>3, <2>4, <2>5, <3>1 DEF ScanInv
  <2> QED
    BY <2>6, <2>7, <2>8, <2>9
<1>7. CASE SetMaxIdx
  <2>1. /\ pc = "max_idx" /\ pc' = "sock_idx" /\ state_ptr' = "none"
        /\ max_idx' = [max_idx EXCEPT ![EGen] = gen_len]
        /\ UNCHANGED <<exists, cookies, ring, state, sockhash>>
    BY <1>7 DEF SetMaxIdx, GroupInv
  <2>2. EGen \in GenIds /\ free_pos \in Idx /\ gen_len \in Nat \ {0}
    BY <2>1, MessageType DEF Registering, DaemonInv, Placed
  <2>3. /\ max_idx'[EGen] = gen_len
        /\ \A g \in GenIds : g # EGen => max_idx'[g] = max_idx[g]
    BY <2>1, <2>2 DEF TypeOK, GroupType
  <2>4. GroupInv'
    BY <2>1 DEF GroupInv
  <2>5. cookies[EGen][gen_len - 1] # NoCookie
    BY <2>1 DEF ScanInv
  <2>6. RowInv'
    BY <2>1, <2>2, <2>3, <2>5 DEF RowInv
  <2>7. CoverInv'
    BY <2>1, <2>2, <2>3 DEF CoverInv, ScanInv, Idx
  <2>8. ScanInv'
    BY <2>1 DEF ScanInv
  <2> QED
    BY <2>4, <2>6, <2>7, <2>8
<1>8. CASE WriteIdx
  <2>1. GroupInv'
    BY <1>8 DEF WriteIdx, GroupInv
  <2> QED
    BY <1>8, <2>1, TableFrame DEF WriteIdx
<1>9. CASE Attach
  <2>1. GroupInv'
    BY <1>9 DEF Attach, GroupInv
  <2> QED
    BY <1>9, <2>1, TableFrame DEF Attach
<1>10. CASE AddCritical \/ CountCritical \/ WorkingGenSet
  <2>1. exists
    BY <1>10 DEF AddCritical, CountCritical, WorkingGenSet, DaemonInv, GroupInv
  <2>2. /\ pc \in {"critical", "critical_count", "working_gen"}
        /\ pc' \in {"critical_count", "done"}
        /\ UNCHANGED <<exists, cookies, max_idx, ring, state, sockhash,
                       state_ptr>>
    BY <1>10, <2>1 DEF AddCritical, CountCritical, WorkingGenSet
  <2>3. GroupInv'
    BY <2>2 DEF GroupInv
  <2> QED
    BY <2>2, <2>3, TableFrame
<1>11. CASE Return
  <2>1. GroupInv'
    BY <1>11 DEF Return, GroupInv, DaemonInv
  <2> QED
    BY <1>11, <2>1, TableFrame DEF Return
<1>12. CASE CallFails
  BY <1>12, ExitKeepsTable DEF CallFails
<1> QED
  BY <1>1, <1>2, <1>3, <1>4, <1>5, <1>6, <1>7, <1>8, <1>9, <1>10, <1>11, <1>12
  DEF RebindNext, RegenNext, Next, Daemon, AppAction

\* While nobody deletes the group, the table keeps its shape.
THEOREM TableInvariance == RebindSpec => [](FullInv /\ TableInv)
<1>1. RebindSpec => FullSpec
  <2>1. [RebindNext]_vars => [FullNext]_vars
    BY DEF FullNext
  <2> QED
    BY <2>1, PTL DEF RebindSpec, FullSpec
<1>2. RebindSpec => []FullInv
  BY <1>1, FullInvariance, PTL
<1> QED
  BY <1>2, TableInit, TableStep, PTL DEF RebindSpec

\* cookies_find_empty never leaves an unwritten slot below max_idx.
THEOREM TableHasNoHole == RebindSpec => []NoHole
<1>1. FullInv /\ TableInv => NoHole
  BY RowInvNoHole DEF FullInv, TableInv
<1> QED
  BY <1>1, TableInvariance, PTL

(***************************************************************************)
(* DeleteInv: what is left of TableInv when the operator may delete the    *)
(* group at any moment, and an application may create another one before   *)
(* the daemon stores what it found in its copy of the old one.             *)
(***************************************************************************)
\* A slot is as in the copy, or was emptied since; the pointer of the two stores
\* dangles only into an empty table.
StaleInv ==
  /\ pc \in {"find", "find_empty", "cookies"} =>
       \A g \in GenIds, i \in Idx :
         cookies[g][i] \in {state.cookies[g][i], NoCookie}
  /\ state_ptr # "none" => pc = "max_idx"
  /\ state_ptr = "freed" => cookies = EmptyTable

\* The slot that was found is dead, and nothing lives from gen_len on.
FoundInv ==
  /\ pc = "cookies" => cookies[EGen][free_pos] \notin sockhash
  /\ pc \in {"cookies", "max_idx"} =>
       /\ free_pos < gen_len
       /\ \A j \in Idx : j >= gen_len => cookies[EGen][j] \notin sockhash

\* Live sockets are below max_idx, but for the row between the two stores.
LiveRowInv ==
  \A g \in GenIds, i \in Idx :
    cookies[g][i] \in sockhash =>
      i < max_idx[g] \/ (pc = "max_idx" /\ g = EGen)

DeleteInv == StaleInv /\ FoundInv /\ LiveRowInv

\* Steps away from the scan and the stores that leave the table alone keep it.
LEMMA DeleteFrame ==
  ASSUME DeleteInv, UNCHANGED <<cookies, max_idx, state, state_ptr>>,
         sockhash' \subseteq sockhash, pc # "max_idx",
         pc' \notin {"cookies", "max_idx"},
         pc' \in {"find", "find_empty"} => pc \in {"find", "find_empty"}
  PROVE  DeleteInv'
  BY DEF DeleteInv, StaleInv, FoundInv, LiveRowInv

\* The exit of the daemon, at an error before or between its messages.
LEMMA ExitKeepsDelete ==
  ASSUME DeleteInv, DaemonExit, pc # "max_idx"
  PROVE  DeleteInv'
  BY DeleteFrame DEF DaemonExit, Release, groupVars

\* An empty table holds no living socket, whatever the daemon is at.
LEMMA EmptyKeepsDelete ==
  ASSUME FullInv, DeleteInv, RemoveGroup
  PROVE  DeleteInv'
<1>1. /\ cookies' = EmptyTable
      /\ UNCHANGED <<pc, state, ring, sockhash, free_pos, gen_len>>
      /\ state_ptr' # "none" => state_ptr # "none"
  BY DEF RemoveGroup, localVars
<1>2. \A g \in GenIds, i \in Idx : cookies'[g][i] = NoCookie
  BY <1>1 DEF EmptyTable, EmptyRow
<1>3. NoCookie \notin sockhash'
  BY <1>1, SocketAssumption DEF FullInv, TypeOK, SocketType
<1>4. StaleInv'
  BY <1>1, <1>2 DEF DeleteInv, StaleInv
<1>5. LiveRowInv'
  BY <1>2, <1>3 DEF LiveRowInv
<1>6. pc \in {"cookies", "max_idx"} =>
        EGen \in GenIds /\ EGen' = EGen /\ free_pos \in Idx
  BY <1>1, EGenFrame, MessageType
  DEF FullInv, DaemonInv, Registering, Placed
<1>7. FoundInv'
  BY <1>1, <1>2, <1>3, <1>6 DEF DeleteInv, FoundInv
<1> QED
  BY <1>4, <1>5, <1>7 DEF DeleteInv

\* The scan of the copy finds what holds of the table too: a slot that differs
\* has been emptied.
LEMMA ScanKeepsDelete ==
  ASSUME FullInv, DeleteInv, FindEmpty
  PROVE  DeleteInv'
<1> USE DEF FullInv, groupVars
<1>1. CASE pc' = "attach"
  BY <1>1, DeleteFrame DEF FindEmpty
<1>2. CASE pc' # "attach"
  <2> DEFINE row == state.cookies[EGen]
  <2>1. PICK pos \in Idx, len \in 1 .. MAX_SOCKETS_IN_GEN :
          /\ IsFreePos(row, pos) /\ IsGenLen(row, pos, len)
          /\ free_pos' = pos /\ gen_len' = len
          /\ sockhash' = sockhash \cup {f}
          /\ pc' = "cookies"
    BY <1>2 DEF FindEmpty, InsertSockhash
  <2>2. EGen' = EGen /\ EGen \in GenIds
    BY EGenFrame, MessageType DEF FindEmpty, Registering
  <2>3. pc = "find_empty" /\ UNCHANGED <<cookies, max_idx, state, state_ptr>>
    BY DEF FindEmpty
  <2>4. f \in LiveSockets
    BY DEF FindEmpty, DaemonInv, Holding, LiveSockets, Alive
  <2>5. \A g \in GenIds, i \in Idx :
          cookies[g][i] \in sockhash' => cookies[g][i] \in sockhash
    BY <2>1, <2>4 DEF PublishedIsSelectable
  <2>6. NoCookie \notin sockhash
    BY SocketAssumption DEF TypeOK, SocketType
  <2>7. \A i \in Idx : row[i] \notin sockhash => cookies[EGen][i] \notin sockhash'
    BY <2>2, <2>3, <2>5, <2>6 DEF DeleteInv, StaleInv
  <2>8. row[pos] \notin sockhash /\ pos < len
        /\ \A j \in Idx : j >= len => row[j] \notin sockhash
    BY <2>1, SizeAssumption DEF IsFreePos, IsGenLen, Idx
  <2>9. StaleInv'
    BY <2>1, <2>3 DEF DeleteInv, StaleInv
  <2>10. FoundInv'
    BY <2>1, <2>2, <2>3, <2>7, <2>8 DEF FoundInv
  <2>11. LiveRowInv'
    BY <2>1, <2>3, <2>5 DEF DeleteInv, LiveRowInv
  <2> QED
    BY <2>9, <2>10, <2>11 DEF DeleteInv
<1> QED
  BY <1>1, <1>2

\* The first store fills a dead slot, or the daemon ends.
LEMMA StoreKeepsDelete ==
  ASSUME FullInv, DeleteInv, SetCookies
  PROVE  DeleteInv'
<1> USE DEF FullInv
<1>1. CASE DaemonExit
  BY <1>1, ExitKeepsDelete DEF SetCookies
<1>2. CASE ~DaemonExit
  <2>1. /\ pc = "cookies" /\ pc' = "max_idx" /\ state_ptr' = "valid"
        /\ cookies' = [cookies EXCEPT ![EGen][free_pos] = e.cookie]
        /\ UNCHANGED <<max_idx, ring, state, free_pos, gen_len, sockhash>>
    BY <1>2 DEF SetCookies, localVars
  <2>2. EGen \in GenIds /\ EGen' = EGen /\ free_pos \in Idx
    BY <2>1, EGenFrame, MessageType DEF Registering, DaemonInv, Placed
  <2>3. \A g \in GenIds, i \in Idx :
          g # EGen \/ i # free_pos => cookies'[g][i] = cookies[g][i]
    BY <2>1, <2>2 DEF TypeOK, GroupType, Tables
  <2>4. StaleInv'
    BY <2>1 DEF StaleInv
  <2>5. free_pos \in Nat /\ gen_len \in Nat /\ \A j \in Idx : j \in Nat
    BY <2>1, <2>2, SizeAssumption DEF DaemonInv, Placed, Idx
  <2>6. FoundInv'
    BY <2>1, <2>2, <2>3, <2>5 DEF DeleteInv, FoundInv
  <2>7. LiveRowInv'
    BY <2>1, <2>2, <2>3 DEF DeleteInv, LiveRowInv
  <2> QED
    BY <2>4, <2>6, <2>7 DEF DeleteInv
<1> QED
  BY <1>1, <1>2

\* The second store covers the row; where it is lost, the table is empty.
LEMMA LengthKeepsDelete ==
  ASSUME FullInv, DeleteInv, SetMaxIdx
  PROVE  DeleteInv'
<1> USE DEF FullInv
<1>1. /\ pc = "max_idx" /\ pc' = "sock_idx" /\ state_ptr' = "none"
      /\ UNCHANGED <<cookies, ring, state, sockhash>>
  BY DEF SetMaxIdx, localVars
<1>2. StaleInv' /\ FoundInv'
  BY <1>1 DEF StaleInv, FoundInv
<1>3. EGen \in GenIds /\ gen_len \in Nat /\ \A j \in Idx : j \in Nat
  BY <1>1, MessageType, SizeAssumption DEF Registering, DaemonInv, Placed, Idx
<1>4. CASE max_idx' = [max_idx EXCEPT ![EGen] = gen_len]
  <2>1. /\ max_idx'[EGen] = gen_len
        /\ \A g \in GenIds : g # EGen => max_idx'[g] = max_idx[g]
    BY <1>3, <1>4 DEF TypeOK, GroupType
  <2>2. LiveRowInv'
    BY <1>1, <1>3, <2>1 DEF DeleteInv, LiveRowInv, FoundInv
  <2> QED
    BY <1>2, <2>2 DEF DeleteInv
<1>5. CASE state_ptr = "freed"
  <2>1. NoCookie \notin sockhash
    BY SocketAssumption DEF TypeOK, SocketType
  <2>2. \A g \in GenIds, i \in Idx : cookies[g][i] = NoCookie
    BY <1>5 DEF DeleteInv, StaleInv, EmptyTable, EmptyRow
  <2>3. LiveRowInv'
    BY <1>1, <2>1, <2>2 DEF LiveRowInv
  <2> QED
    BY <1>2, <2>3 DEF DeleteInv
<1> QED
  BY <1>4, <1>5 DEF SetMaxIdx

\* Applications leave the table and the daemon's locals alone.
LEMMA FrameKeepsDelete ==
  ASSUME FullInv, DeleteInv, AppFrame
  PROVE  DeleteInv'
<1>1. pc \in {"cookies", "max_idx"} => EGen' = EGen
  BY AppKeepsHead, EGenFrame DEF FullInv, DaemonInv, AppFrame
<1>2. StaleInv'
  BY DEF AppFrame, DeleteInv, StaleInv
<1>3. FoundInv'
  BY <1>1 DEF AppFrame, DeleteInv, FoundInv
<1>4. LiveRowInv'
  BY <1>1 DEF AppFrame, DeleteInv, LiveRowInv
<1> QED
  BY <1>2, <1>3, <1>4 DEF DeleteInv

\* DeleteInv is kept by every action.
LEMMA DeleteStep == FullInv /\ DeleteInv /\ [FullNext]_vars => DeleteInv'
<1> SUFFICES ASSUME FullInv, DeleteInv, [FullNext]_vars PROVE DeleteInv'
  OBVIOUS
<1> USE DEF groupVars, localVars
<1>1. CASE UNCHANGED vars
  BY <1>1 DEF vars, DeleteInv, StaleInv, FoundInv, LiveRowInv, EGen, e
<1>2. CASE AppAction
  BY <1>2, AppFrameHolds, FrameKeepsDelete DEF FullInv
<1>3. CASE LookupState
  <2>1. CASE DaemonExit
    BY <1>3, <2>1, ExitKeepsDelete DEF LookupState
  <2>2. CASE ~DaemonExit
    <3>1. /\ state' = [max_apps |-> max_apps, cookies |-> cookies]
          /\ pc = "idle" /\ pc' = FirstStep(e) /\ ring # <<>>
          /\ UNCHANGED <<cookies, max_idx, sockhash, state_ptr>>
      BY <1>3, <2>2 DEF LookupState
    <3>2. e \in Msgs
      BY <3>1 DEF e, FullInv, TypeOK, DaemonType
    <3>3. pc' \in {"find", "working_gen", "done"}
      BY <3>1, <3>2 DEF FirstStep, Msgs, RegisterMsg, WorkingGenMsg, DissectorMsg
    <3> QED
      BY <3>1, <3>3 DEF DeleteInv, StaleInv, FoundInv, LiveRowInv
  <2> QED
    BY <2>1, <2>2
<1>4. CASE FindSocket
  BY <1>4, DeleteFrame DEF FindSocket
<1>5. CASE WriteIdx
  BY <1>5, DeleteFrame DEF WriteIdx
<1>6. CASE Attach
  BY <1>6, DeleteFrame DEF Attach
<1>7. CASE AddCritical \/ CountCritical \/ WorkingGenSet
  BY <1>7, DeleteFrame, ExitKeepsDelete DEF AddCritical, CountCritical, WorkingGenSet
<1>8. CASE Return
  BY <1>8 DEF Return, DeleteInv, StaleInv, FoundInv, LiveRowInv
<1>9. CASE CallFails
  BY <1>9, ExitKeepsDelete DEF CallFails
<1> QED
  BY <1>1, <1>2, <1>3, <1>4, <1>5, <1>6, <1>7, <1>8, <1>9, EmptyKeepsDelete,
     ScanKeepsDelete, StoreKeepsDelete, LengthKeepsDelete
  DEF FullNext, Delete, RefuseDissector, RebindNext, RegenNext, Next, Daemon,
      AppAction

\* Under every usage the daemon's copy may be old, but not wrong.
THEOREM DeleteInvariance == FullSpec => [](FullInv /\ DeleteInv)
<1>1. Init => DeleteInv
  BY DEF Init, DeleteInv, StaleInv, FoundInv, LiveRowInv
<1> QED
  BY <1>1, DeleteStep, FullInvariance, PTL DEF FullSpec

\* Recomputing max_idx (uspace.c:33-48) never cuts off a living socket, although
\* the group may be deleted and created again between copy and store.
THEOREM LiveSocketsCovered == FullSpec => []LiveCovered
<1>1. DeleteInv => LiveCovered
  BY DEF DeleteInv, LiveRowInv, LiveCovered
<1> QED
  BY <1>1, DeleteInvariance, PTL

\* No step of the daemon or of an application takes a slot from a living socket:
\* only the removal of the whole group does.
THEOREM SlotsStable == FullSpec => SlotsAreStable
<1> DEFINE Stable == RemoveGroup \/ \A g \in GenIds, i \in Idx :
             cookies[g][i] \in LiveSockets => cookies'[g][i] = cookies[g][i]
<1>1. FullInv /\ DeleteInv /\ [FullNext]_vars => [Stable]_vars
  <2> SUFFICES ASSUME FullInv, DeleteInv, [FullNext]_vars PROVE [Stable]_vars
    OBVIOUS
  <2>1. DaemonExit => UNCHANGED cookies
    BY DEF DaemonExit, groupVars
  <2>2. CASE SetCookies /\ ~DaemonExit
    <3>1. EGen \in GenIds /\ free_pos \in Idx
      BY <2>2, MessageType
      DEF SetCookies, Registering, FullInv, DaemonInv, Placed
    <3>2. cookies[EGen][free_pos] \notin LiveSockets
      BY <2>2, <3>1
      DEF SetCookies, DeleteInv, FoundInv, FullInv, PublishedIsSelectable
    <3> QED
      BY <2>2, <3>1, <3>2
      DEF SetCookies, FullInv, TypeOK, GroupType, Tables
  <2>3. CASE RemoveGroup
    BY <2>3
  <2>4. CASE ~SetCookies /\ ~RemoveGroup
    <3>1. AppAction => UNCHANGED cookies
      BY AppFrameHolds DEF FullInv, AppFrame
    <3> QED
      BY <2>1, <2>4, <3>1
      DEF FullNext, Delete, RefuseDissector, RebindNext, RegenNext, Next,
          Daemon, AppAction, LookupState, FindSocket, FindEmpty, SetMaxIdx, WriteIdx, Attach, AddCritical,
          CountCritical, WorkingGenSet, Return, CallFails, groupVars, vars
  <2> QED
    BY <2>1, <2>2, <2>3, <2>4
<1> QED
  BY <1>1, DeleteInvariance, PTL DEF FullSpec, SlotsAreStable

(***************************************************************************)
(* DesignInv: sockets that keep their generation, nobody deletes.          *)
(***************************************************************************)
\* A request in the ring repeats what the storage of its socket says, since
\* neither the generation nor the application of the socket may change later.
RequestInv ==
  \A n \in 1 .. Len(ring) :
    ring[n] \in RegisterMsg =>
      /\ ring[n].cookie \in bound
      /\ sk[ring[n].cookie].sock_gen = ring[n].gen
      /\ sk[ring[n].cookie].sock_app = ring[n].app

\* The copies in the locals of handle_msg are not stale where they matter,
\* and the slot found is the one that was written.
CopyInv ==
  /\ pc \in Registering => state.max_apps = max_apps
  /\ pc \in Registering \ {"find"} =>
       s.sock_gen = Head(ring).gen /\ s.sock_app = Head(ring).app
  /\ pc \in {"max_idx", "sock_idx"} => cookies[EGen][free_pos] = f

\* An index implies a generation, and a group whose dissector is settled.
IndexInv ==
  \A x \in Sockets :
    sk[x].sock_idx # Unset => exists /\ sk[x].sock_gen # Unset

DesignInv == RequestInv /\ CopyInv /\ IndexInv /\ CookieDesignatesSocket

\* Steps that leave storage, table and dissector alone, and that bring no
\* socket to life, keep what an index means.
LEMMA DesignFrame ==
  ASSUME IndexInv, CookieDesignatesSocket, UNCHANGED <<sk, cookies, max_apps>>,
         exists => exists', LiveSockets' \subseteq LiveSockets
  PROVE  IndexInv' /\ CookieDesignatesSocket'
  BY DEF IndexInv, CookieDesignatesSocket, Designates

\* The same for the requests, when the ring keeps its messages but may get one
\* that registers nothing.
LEMMA RequestFrame ==
  ASSUME TypeOK, RequestInv, UNCHANGED sk, bound \subseteq bound',
         \/ ring' = ring
         \/ \E m \in Msgs \ RegisterMsg : ring' = Append(ring, m)
  PROVE  RequestInv'
<1>1. CASE ring' = ring
  BY <1>1 DEF RequestInv
<1>2. ASSUME NEW m \in Msgs, m \notin RegisterMsg, ring' = Append(ring, m)
      PROVE  RequestInv'
  <2>1. /\ Len(ring') = Len(ring) + 1 /\ Len(ring) \in Nat
        /\ ring'[Len(ring) + 1] = m
        /\ \A n \in 1 .. Len(ring) : ring'[n] = ring[n]
    BY <1>2 DEF TypeOK, DaemonType
  <2> QED
    BY <1>2, <2>1 DEF RequestInv
<1> QED
  BY <1>1, <1>2

\* And for the copies, while the daemon stays where it is.
LEMMA CopyFrame ==
  ASSUME TypeOK, DaemonInv, CopyInv, AppFrame,
         max_apps' = max_apps \/ ring = <<>>
  PROVE  CopyInv'
<1>1. ring # <<>> => Head(ring') = Head(ring)
  BY AppKeepsHead
<1>2. pc \in Registering => EGen' = EGen /\ ring # <<>> /\ max_apps' = max_apps
  BY <1>1, EGenFrame DEF AppFrame, DaemonInv, Registering
<1> QED
  BY <1>1, <1>2 DEF CopyInv, AppFrame, Registering

\* DesignInv is kept by the calls of applications.
LEMMA DesignAppStep ==
  FullInv /\ TableInv /\ DesignInv /\ Application => DesignInv'
<1> SUFFICES ASSUME FullInv, TableInv, DesignInv, Application PROVE DesignInv'
  OBVIOUS
<1>1. TypeOK /\ DaemonInv /\ SocketInv /\ GroupInv /\ AppFrame
  BY AppFrameHolds DEF FullInv, TableInv, AppAction
<1>2. Unset \notin Gens
  BY InputAssumption DEF Unset
<1> USE <1>1, <1>2 DEF DesignInv, groupVars, metricVars, procVars, localVars
<1>3. ASSUME UNCHANGED <<sk, ring, max_apps>>,
             LiveSockets' \subseteq LiveSockets
      PROVE  DesignInv'
  BY <1>3, DesignFrame, RequestFrame, CopyFrame DEF AppFrame
<1>4. ASSUME NEW x \in Sockets, NEW p \in Procs, Bind(x, p)
      PROVE  DesignInv'
  <2>1. /\ sk'[x].sock_idx = Unset
        /\ \A y \in Sockets : y # x => sk'[y] = sk[y]
        /\ UNCHANGED <<ring, cookies, max_apps, exists>>
        /\ x \notin bound
        /\ LiveSockets' \subseteq LiveSockets \cup {x}
        /\ LiveSockets' \subseteq Sockets
    BY <1>4 DEF Bind, LiveSockets, Alive, TypeOK, SocketType, Storage
  <2>2. RequestInv'
    BY <2>1 DEF RequestInv, AppFrame, RegisterMsg
  <2>3. CopyInv'
    BY <2>1, CopyFrame
  <2>4. IndexInv' /\ CookieDesignatesSocket'
    BY <2>1 DEF IndexInv, CookieDesignatesSocket, Designates
  <2> QED
    BY <2>2, <2>3, <2>4
<1>5. ASSUME NEW x \in Sockets, NEW p \in Procs,
             Close(x, p) \/ CreateGroup(x, p) \/ \E q \in Procs : Pass(x, p, q)
      PROVE  DesignInv'
  BY <1>3, <1>5 DEF Close, CreateGroup, Pass, LiveSockets, Alive, SocketInv,
                    TypeOK, SocketType
<1>6. ASSUME NEW p \in Procs, Exit(p)
      PROVE  DesignInv'
  BY <1>3, <1>6 DEF Exit, LiveSockets, Alive, TypeOK, SocketType
<1>7. ASSUME NEW x \in Sockets, NEW p \in Procs, NEW t \in Callers,
             NEW g \in Gens, sk[x].sock_gen \in {g, Unset},
             SetSocketGen(x, p, t, g)
      PROVE  DesignInv'
  <2> DEFINE m == [type |-> "REGISTER_SOCKET", pid |-> p, task |-> t,
                   cookie |-> x, gen |-> g, app |-> sk[x].sock_app]
  <2>1. /\ ring' = Append(ring, m) /\ exists'
        /\ sk' = [sk EXCEPT ![x].sock_gen = g]
        /\ UNCHANGED <<cookies, max_apps>> /\ x \in bound
        /\ LiveSockets' = LiveSockets
    BY <1>7 DEF SetSocketGen, Post, get_state, SocketInv, LiveSockets, Alive
  <2>2. /\ sk'[x].sock_gen = g /\ sk'[x].sock_app = sk[x].sock_app
        /\ sk'[x].sock_idx = sk[x].sock_idx
        /\ \A y \in Sockets : y # x => sk'[y] = sk[y]
    BY <2>1 DEF TypeOK, SocketType, Storage
  <2>3. /\ Len(ring') = Len(ring) + 1 /\ Len(ring) \in Nat
        /\ ring'[Len(ring) + 1] = m
        /\ \A n \in 1 .. Len(ring) : ring'[n] = ring[n]
    <3>1. m \in Msgs
      BY DEF TypeOK, SocketType, Storage, Msgs, RegisterMsg
    <3> QED
      BY <2>1, <3>1 DEF TypeOK, DaemonType
  <2>4. RequestInv'
    <3> SUFFICES ASSUME NEW n \in 1 .. Len(ring'), ring'[n] \in RegisterMsg
                 PROVE  /\ ring'[n].cookie \in bound'
                        /\ sk'[ring'[n].cookie].sock_gen = ring'[n].gen
                        /\ sk'[ring'[n].cookie].sock_app = ring'[n].app
      BY DEF RequestInv
    <3>1. CASE n = Len(ring) + 1
      BY <2>1, <2>2, <2>3, <3>1 DEF AppFrame
    <3>2. CASE n # Len(ring) + 1
      <4>1. n \in 1 .. Len(ring) /\ ring'[n] = ring[n]
        BY <2>3, <3>2
      <4>2. /\ ring[n].cookie \in bound /\ ring[n].gen \in Gens
            /\ ring[n].cookie \in Sockets
            /\ sk[ring[n].cookie].sock_gen = ring[n].gen
            /\ sk[ring[n].cookie].sock_app = ring[n].app
        BY <4>1 DEF RequestInv, RegisterMsg
      <4>3. CASE ring[n].cookie = x
        BY <1>7, <2>2, <4>1, <4>2, <4>3 DEF AppFrame
      <4>4. CASE ring[n].cookie # x
        BY <2>2, <4>1, <4>2, <4>4 DEF AppFrame
      <4> QED
        BY <4>3, <4>4
    <3> QED
      BY <3>1, <3>2
  <2>5. CopyInv'
    BY <2>1, CopyFrame
  <2>6. IndexInv'
    BY <2>1, <2>2 DEF IndexInv
  <2>7. CookieDesignatesSocket'
    <3> SUFFICES ASSUME NEW y \in LiveSockets, sk'[y].sock_idx # Unset
                 PROVE  Designates(y)'
      BY <2>1 DEF CookieDesignatesSocket, Designates
    <3>1. y \in Sockets
      BY DEF LiveSockets, Alive, TypeOK, SocketType
    <3>2. sk[y].sock_gen # Unset
      BY <2>2, <3>1 DEF IndexInv
    <3>3. sk'[y].sock_gen = sk[y].sock_gen /\ sk'[y].sock_app = sk[y].sock_app
          /\ sk'[y].sock_idx = sk[y].sock_idx
      BY <1>7, <2>2, <3>1, <3>2
    <3> QED
      BY <2>1, <3>3 DEF CookieDesignatesSocket, Designates
  <2> QED
    BY <2>4, <2>5, <2>6, <2>7
<1>8. ASSUME NEW x \in Sockets, NEW p \in Procs, NEW g \in WorkingGens,
             SetWorkingGen(x, p, g)
      PROVE  DesignInv'
  <2> DEFINE m == [type |-> "SET_WORKING_GEN",
                   app |-> sk[x].sock_app % MAX_APPS, gen |-> g]
  <2>1. m \in Msgs \ RegisterMsg
    BY SizeAssumption
    DEF TypeOK, SocketType, Storage, Apps, Msgs, WorkingGenMsg, RegisterMsg
  <2>2. ring' = Append(ring, m) /\ exists'
        /\ UNCHANGED <<sk, cookies, max_apps>> /\ LiveSockets' = LiveSockets
    BY <1>8 DEF SetWorkingGen, Post, get_state, LiveSockets, Alive
  <2> QED
    BY <2>1, <2>2, DesignFrame, RequestFrame, CopyFrame DEF AppFrame
<1>9. ASSUME NEW x \in Sockets, NEW p \in Procs, NEW n \in DissectorApps,
             SetDissector(x, p, n)
      PROVE  DesignInv'
  <2>1. [type |-> "SET_DISSECTOR"] \in Msgs \ RegisterMsg
    BY DEF Msgs, DissectorMsg, RegisterMsg
  <2>2. ~exists /\ ring = <<>> /\ UNCHANGED sk
        /\ ring' = Append(ring, [type |-> "SET_DISSECTOR"])
    BY <1>9 DEF SetDissector, Post, GroupInv
  <2>3. IndexInv' /\ CookieDesignatesSocket'
    BY <2>2, TypeStep DEF IndexInv, CookieDesignatesSocket, Designates,
       LiveSockets, Alive, FullNext, RebindNext, RegenNext, Next, TypeOK,
       SocketType
  <2> QED
    BY <2>1, <2>2, <2>3, RequestFrame, CopyFrame DEF AppFrame
<1>10. ASSUME NEW x \in Sockets, NEW p \in Procs, NEW a \in Apps,
              SetSocketApp(x, p, a)
       PROVE  DesignInv'
  <2>1. /\ sk[x].sock_gen = Unset /\ sk'[x].sock_idx = Unset
        /\ \A y \in Sockets : y # x => sk'[y] = sk[y]
        /\ UNCHANGED <<ring, cookies, max_apps, exists>>
        /\ LiveSockets' = LiveSockets /\ LiveSockets \subseteq Sockets
    BY <1>10 DEF SetSocketApp, LiveSockets, Alive, TypeOK, SocketType, Storage
  <2>2. RequestInv'
    BY <2>1 DEF RequestInv, AppFrame, RegisterMsg
  <2>3. CopyInv'
    BY <2>1, CopyFrame
  <2>4. IndexInv' /\ CookieDesignatesSocket'
    BY <2>1 DEF IndexInv, CookieDesignatesSocket, Designates
  <2> QED
    BY <2>2, <2>3, <2>4
<1> QED
  BY <1>4, <1>5, <1>6, <1>7, <1>8, <1>9, <1>10 DEF Application

\* DesignInv is kept by the steps of handle_msg.
LEMMA DesignDaemonStep ==
  FullInv /\ TableInv /\ DesignInv /\ Daemon => DesignInv'
<1> SUFFICES ASSUME FullInv, TableInv, DesignInv, Daemon PROVE DesignInv'
  OBVIOUS
<1>1. TypeOK /\ DaemonInv /\ SocketInv /\ GroupInv /\ GroupInv'
  BY TableStep DEF FullInv, TableInv, RebindNext, RegenNext, Next
<1> USE <1>1 DEF DesignInv, groupVars, metricVars, procVars, localVars
<1>3. ASSUME UNCHANGED <<sk, ring, cookies, max_apps, exists, bound>>,
             LiveSockets' \subseteq LiveSockets, CopyInv'
      PROVE  DesignInv'
  BY <1>3, DesignFrame, RequestFrame
<1>2. CASE DaemonExit
  <2>1. CopyInv' /\ LiveSockets' \subseteq LiveSockets
    BY <1>2, SocketAssumption DEF DaemonExit, CopyInv, Registering,
       LiveSockets, Alive, TypeOK, SocketType
  <2> QED
    BY <1>2, <1>3, <2>1 DEF DaemonExit
<1>4. CASE LookupState /\ ~DaemonExit
  <2>1. CopyInv'
    <3>1. pc' = FirstStep(e) /\ e \in Msgs /\ state'.max_apps = max_apps'
      BY <1>4 DEF LookupState, e, TypeOK, DaemonType
    <3>2. pc' \in {"find", "working_gen", "done"}
      BY <3>1 DEF FirstStep, Msgs, RegisterMsg, WorkingGenMsg, DissectorMsg
    <3> QED
      BY <3>1, <3>2 DEF CopyInv, Registering
  <2> QED
    BY <1>3, <1>4, <2>1 DEF LookupState, LiveSockets, Alive
<1>5. CASE FindSocket
  <2>1. /\ e \in RegisterMsg /\ e = ring[1] /\ 1 \in 1 .. Len(ring)
        /\ e = Head(ring)
    BY <1>5, MessageType DEF FindSocket, Registering, DaemonInv, e, TypeOK,
                             DaemonType
  <2>2. e.cookie \in bound /\ sk[e.cookie].sock_gen = e.gen
        /\ sk[e.cookie].sock_app = e.app
    BY <2>1 DEF RequestInv
  <2>3. CopyInv'
    BY <1>5, <2>1, <2>2 DEF FindSocket, CopyInv, Registering
  <2>4. LiveSockets' \subseteq LiveSockets
    BY <1>5, <2>2 DEF FindSocket, LiveSockets, Alive, Findable
  <2> QED
    BY <1>3, <1>5, <2>3, <2>4 DEF FindSocket
<1>6. CASE FindEmpty
  <2>1. CopyInv'
    BY <1>6 DEF FindEmpty, CopyInv, Registering
  <2> QED
    BY <1>3, <1>6, <2>1 DEF FindEmpty, LiveSockets, Alive
<1>7. CASE SetCookies /\ ~DaemonExit
  <2>1. /\ pc = "cookies" /\ pc' = "max_idx"
        /\ cookies' = [cookies EXCEPT ![EGen][free_pos] = e.cookie]
        /\ UNCHANGED <<exists, max_apps, sk, ring, bound, state, s, f,
                       free_pos>>
        /\ LiveSockets' = LiveSockets
    BY <1>7 DEF SetCookies, LiveSockets, Alive
  <2>2. /\ EGen \in GenIds /\ EGen' = EGen /\ free_pos \in Idx
        /\ e.cookie = f
    BY <2>1, EGenFrame, MessageType DEF Registering, DaemonInv, Placed,
       Holding, e
  <2>3. /\ cookies'[EGen][free_pos] = f
        /\ \A g \in GenIds, i \in Idx :
             g # EGen \/ i # free_pos => cookies'[g][i] = cookies[g][i]
    BY <2>1, <2>2 DEF TypeOK, GroupType, Tables
  <2>4. cookies[EGen][free_pos] \notin LiveSockets
    BY <2>1, <2>2 DEF TableInv, ScanInv, FullInv, PublishedIsSelectable
  <2>5. CopyInv'
    BY <2>1, <2>2, <2>3 DEF CopyInv, Registering
  <2>6. CookieDesignatesSocket'
    <3> SUFFICES ASSUME NEW x \in LiveSockets, sk[x].sock_idx # Unset
                 PROVE  Designates(x)'
      BY <2>1 DEF CookieDesignatesSocket, Designates
    <3> DEFINE g == Row(max_apps, sk[x].sock_app, sk[x].sock_gen)
    <3>1. x \in Sockets /\ sk[x] \in Storage
      BY DEF LiveSockets, Alive, TypeOK, SocketType
    <3>2. sk[x].sock_idx \in Idx /\ sk[x].sock_app \in Apps
          /\ sk[x].sock_gen \in Nat
      BY <3>1, InputAssumption DEF Storage, IndexInv
    <3>3. g \in GenIds
      BY <3>2, RowType DEF TypeOK, GroupType
    <3>4. cookies[g][sk[x].sock_idx] = x
      BY DEF CookieDesignatesSocket, Designates
    <3>5. cookies'[g][sk[x].sock_idx] = x
      BY <2>3, <2>4, <3>2, <3>3, <3>4
    <3> QED
      BY <2>1, <3>5 DEF Designates
  <2> QED
    BY <2>1, <2>5, <2>6, RequestFrame DEF IndexInv
<1>8. CASE SetMaxIdx
  <2>1. EGen' = EGen
    BY <1>8, EGenFrame DEF SetMaxIdx
  <2>2. CopyInv'
    BY <1>8, <2>1 DEF SetMaxIdx, CopyInv, Registering
  <2> QED
    BY <1>3, <1>8, <2>2 DEF SetMaxIdx, LiveSockets, Alive
<1>9. CASE WriteIdx
  <2>1. /\ pc = "sock_idx" /\ pc' = "attach"
        /\ sk' = [sk EXCEPT ![f] = [s EXCEPT !.sock_idx = free_pos]]
        /\ UNCHANGED <<exists, max_apps, cookies, ring, bound>>
        /\ LiveSockets' = LiveSockets
    BY <1>9 DEF WriteIdx, LiveSockets, Alive
  <2>2. /\ e = Head(ring) /\ e = ring[1] /\ 1 \in 1 .. Len(ring)
        /\ e \in RegisterMsg /\ e.gen # Unset
        /\ f = e.cookie /\ f \in Sockets
    BY <2>1, MessageType, InputAssumption
    DEF Registering, DaemonInv, Holding, RegisterMsg, e, TypeOK, DaemonType,
        Unset
  <2>3. /\ sk[f].sock_gen = e.gen /\ sk[f].sock_app = e.app
        /\ s.sock_gen = e.gen /\ s.sock_app = e.app
        /\ cookies[EGen][free_pos] = f
        /\ EGen = Row(max_apps, e.app, e.gen)
    BY <2>1, <2>2 DEF RequestInv, CopyInv, Registering, EGen
  <2>4. /\ sk'[f].sock_gen = e.gen /\ sk'[f].sock_app = e.app
        /\ sk'[f].sock_idx = free_pos
        /\ \A y \in Sockets : y # f => sk'[y] = sk[y]
    BY <2>1, <2>2, <2>3 DEF TypeOK, SocketType, DaemonType, Storage
  <2>5. exists
    BY <2>1 DEF DaemonInv, GroupInv
  <2>6. RequestInv'
    BY <2>1, <2>2, <2>3, <2>4 DEF RequestInv, RegisterMsg
  <2>7. CopyInv'
    BY <2>1 DEF CopyInv, Registering
  <2>8. IndexInv'
    BY <2>1, <2>2, <2>4, <2>5 DEF IndexInv
  <2>9. CookieDesignatesSocket'
    BY <2>1, <2>2, <2>3, <2>4
    DEF CookieDesignatesSocket, Designates, LiveSockets, Alive, TypeOK,
        SocketType
  <2> QED
    BY <2>6, <2>7, <2>8, <2>9
<1>10. CASE Attach
  <2>1. CopyInv'
    BY <1>10 DEF Attach, CopyInv, Registering
  <2> QED
    BY <1>3, <1>10, <2>1, SocketAssumption
    DEF Attach, LiveSockets, Alive, TypeOK, SocketType
<1>11. CASE (AddCritical \/ CountCritical \/ WorkingGenSet) /\ ~DaemonExit
  <2>1. CopyInv'
    BY <1>11 DEF AddCritical, CountCritical, WorkingGenSet, CopyInv,
                 Registering
  <2> QED
    BY <1>3, <1>11, <2>1
    DEF AddCritical, CountCritical, WorkingGenSet, LiveSockets, Alive
<1>12. CASE Return
  <2>1. /\ ring' = Tail(ring) /\ ring # <<>> /\ ring \in Seq(Msgs)
        /\ UNCHANGED <<sk, bound, cookies, max_apps, exists>>
        /\ LiveSockets' = LiveSockets
        /\ pc' = "idle"
    BY <1>12 DEF Return, Consumed, DaemonInv, LiveSockets, Alive, TypeOK,
                 DaemonType
  <2>2. \A n \in 1 .. Len(ring') :
          ring'[n] = ring[n + 1] /\ n + 1 \in 1 .. Len(ring)
    BY <2>1
  <2>3. RequestInv'
    BY <2>1, <2>2 DEF RequestInv
  <2>4. CopyInv'
    BY <2>1 DEF CopyInv, Registering
  <2> QED
    BY <2>1, <2>3, <2>4, DesignFrame
<1> QED
  BY <1>2, <1>4, <1>5, <1>6, <1>7, <1>8, <1>9, <1>10, <1>11, <1>12
  DEF Daemon, CallFails

\* While sockets keep their generation and nobody deletes the group, the row
\* and the index that getsockopt() reports (ebpf.c, UDP_GRM_SOCKET_GEN) lead
\* back to the socket: the daemon works with copies of the group and of the
\* storage, and neither is stale when it is written back.
THEOREM CookiesDesignate == Spec => []CookieDesignatesSocket
<1>1. Spec => RebindSpec
  <2>1. [Next]_vars => [RebindNext]_vars
    BY DEF RebindNext, RegenNext
  <2> QED
    BY <2>1, PTL DEF Spec, RebindSpec
<1>2. Spec => [](FullInv /\ TableInv)
  BY <1>1, TableInvariance, PTL
<1>3. Init => DesignInv
  BY DEF Init, DesignInv, RequestInv, CopyInv, IndexInv, NewStorage,
         CookieDesignatesSocket, LiveSockets, Alive, Registering
<1>4. FullInv /\ TableInv /\ DesignInv /\ [Next]_vars => DesignInv'
  <2> SUFFICES ASSUME FullInv, TableInv, DesignInv, [Next]_vars
               PROVE  DesignInv'
    OBVIOUS
  <2>1. CASE UNCHANGED vars
    BY <2>1 DEF vars, groupVars, procVars, localVars, DesignInv, RequestInv,
       CopyInv, IndexInv, CookieDesignatesSocket, Designates, LiveSockets,
       Alive, EGen, e
  <2> QED
    BY <2>1, DesignAppStep, DesignDaemonStep DEF Next
<1>5. DesignInv => CookieDesignatesSocket
  BY DEF DesignInv
<1> QED
  BY <1>2, <1>3, <1>4, <1>5, PTL DEF Spec
=============================================================================
