---------------------------- MODULE Registration ----------------------------
(***************************************************************************)
(* Socket registration in udpgrm: how a bound SO_REUSEPORT socket gets its *)
(* place in the cookie table of its reuseport group.                       *)
(*                                                                         *)
(* Applications call setsockopt(); the cgroup hook (ebpf/ebpf.c) edits the *)
(* socket storage and the group and posts a message on the ring buffer.    *)
(* The daemon (src/udpgrm.c, handle_msg) takes the messages one by one and *)
(* does several separate map operations for each.  The hook runs as one    *)
(* atomic action here; the daemon takes one action per map operation, so   *)
(* that applications may close sockets, call setsockopt() again or exit in *)
(* between, and an operator may run `udpgrm delete`.                       *)
(*                                                                         *)
(* A definition whose name has a suffix, such as IsFreePos_Any, is a wrong *)
(* variant of the definition without it: the runs show that the properties *)
(* tell the two apart.                                                     *)
(***************************************************************************)
EXTENDS GroupTable, Sequences

CONSTANTS
  Sockets,             \* sockets that get bound; a socket is its SO_COOKIE
  NoCookie,            \* cookie 0, the content of a slot never written
  Procs,               \* processes that hold sockets and call setsockopt()
  Callers,             \* which tasks call: "leader" and/or "thread" of a process
  Hidden,              \* sockets behind a gap of 8 closed fd numbers
  Gens,                \* generation numbers passed in UDP_GRM_SOCKET_GEN
  WorkingGens,         \* and in UDP_GRM_WORKING_GEN
  DissectorApps,       \* max_apps values passed in UDP_GRM_DISSECTOR
  RingCap,             \* messages that fit into msg_rb
  CounterMod           \* the metrics are counters modulo this number

Unset == -1            \* 0xffffffff in sock_gen and sock_idx
EmptyRow == [i \in Idx |-> NoCookie]

ASSUME SocketAssumption == NoCookie \notin Sockets /\ Hidden \subseteq Sockets
ASSUME CallerAssumption == Callers \subseteq {"leader", "thread"}
ASSUME RingAssumption == RingCap \in Nat \ {0} /\ CounterMod \in Nat \ {0}
ASSUME InputAssumption ==
  /\ Gens \subseteq Nat /\ WorkingGens \subseteq Nat
  /\ DissectorApps \subseteq 0 .. MAX_APPS

VARIABLES
  \* struct reuseport_storage of the group, all zero while it does not exist
  exists, max_apps, working_gen, max_idx, cookies,
  socket_critical_gauge, socket_critical,
  \* sockets: struct socket_storage, who holds a file descriptor, sockhash map
  bound, sk, holders, exited, sockhash,
  attached,            \* the kernel group runs udpgrm_reuseport_prog
  ring,                \* msg_rb; the head stays until handle_msg returns
  \* the daemon: program counter and the locals of handle_msg
  pc, state, s, f, free_pos, gen_len,
  state_ptr            \* pointer of udpgrm_cb_update_map into the group map

groupVars == <<exists, max_apps, working_gen, max_idx, cookies>>
metricVars == <<socket_critical_gauge, socket_critical>>
procVars == <<bound, holders, exited>>
localVars == <<state, s, f, free_pos, gen_len>>
vars == <<groupVars, metricVars, procVars, sk, sockhash, attached, ring,
          pc, localVars, state_ptr>>

(***************************************************************************)
(* Types.                                                                  *)
(***************************************************************************)
Storage == [sock_gen : Gens \cup {Unset}, sock_idx : Idx \cup {Unset},
            sock_app : Apps]
NewStorage == [sock_gen |-> Unset, sock_idx |-> Unset, sock_app |-> 0]

Tables == [GenIds -> [Idx -> Sockets \cup {NoCookie}]]
EmptyTable == [g \in GenIds |-> EmptyRow]

RegisterMsg == [type : {"REGISTER_SOCKET"}, pid : Procs, task : Callers,
                cookie : Sockets, gen : Gens, app : Apps]
WorkingGenMsg == [type : {"SET_WORKING_GEN"}, app : Apps, gen : WorkingGens]
DissectorMsg == [type : {"SET_DISSECTOR"}]
Msgs == RegisterMsg \cup WorkingGenMsg \cup DissectorMsg

Snapshots == [max_apps : 0 .. MAX_APPS, cookies : Tables]
NoSnapshot == [max_apps |-> 0, cookies |-> EmptyTable]

DaemonPcs == {"idle", "find", "find_empty", "cookies", "max_idx", "sock_idx",
              "attach", "critical", "critical_count", "working_gen", "done",
              "dead"}

(***************************************************************************)
(* Sockets and processes.  A socket lives while a process, or the daemon,  *)
(* has a descriptor of it; the kernel drops it from sockhash when it dies, *)
(* and drops the attached program with the last socket of the group.       *)
(***************************************************************************)
Alive(hold, fd) == {x \in bound : hold[x] # {} \/ fd = x}

Release(hold, fd) ==
  /\ sockhash' = sockhash \cap Alive(hold, fd)
  /\ attached' = (attached /\ Alive(hold, fd) # {})

Init ==
  /\ exists = FALSE /\ max_apps = 0
  /\ working_gen = [a \in Apps |-> 0]
  /\ max_idx = [g \in GenIds |-> 0]
  /\ cookies = EmptyTable
  /\ socket_critical_gauge = 0 /\ socket_critical = 0
  /\ bound = {} /\ sk = [x \in Sockets |-> NewStorage]
  /\ holders = [x \in Sockets |-> {}] /\ exited = {}
  /\ sockhash = {} /\ attached = FALSE
  /\ ring = <<>>
  /\ pc = "idle" /\ state = NoSnapshot /\ s = NewStorage /\ f = NoCookie
  /\ free_pos = Unset /\ gen_len = 0 /\ state_ptr = "none"

\* bind() of a fresh socket; _bpf_bind creates the socket storage.
Bind(x, p) ==
  /\ x \notin bound /\ p \notin exited
  /\ bound' = bound \cup {x}
  /\ holders' = [holders EXCEPT ![x] = {p}]
  /\ sk' = [sk EXCEPT ![x].sock_gen = Unset, ![x].sock_idx = Unset]
  /\ UNCHANGED <<groupVars, metricVars, exited, sockhash, attached, ring, pc,
                 localVars, state_ptr>>

\* bind() on a socket that is bound already: the hook runs before the kernel
\* refuses the call, and resets the storage again (not sock_app).
Rebind(x, p) ==
  /\ p \in holders[x]
  /\ sk' = [sk EXCEPT ![x].sock_gen = Unset, ![x].sock_idx = Unset]
  /\ UNCHANGED <<groupVars, metricVars, procVars, sockhash, attached, ring, pc,
                 localVars, state_ptr>>

\* The descriptor travels to another process (fork, SCM_RIGHTS, fd store).
Pass(x, p, q) ==
  /\ p \in holders[x] /\ q \notin exited \cup holders[x]
  /\ holders' = [holders EXCEPT ![x] = @ \cup {q}]
  /\ UNCHANGED <<groupVars, metricVars, bound, exited, sk, sockhash, attached,
                 ring, pc, localVars, state_ptr>>

Close(x, p) ==
  /\ p \in holders[x]
  /\ holders' = [holders EXCEPT ![x] = @ \ {p}]
  /\ Release(holders', f)
  /\ UNCHANGED <<groupVars, metricVars, bound, exited, sk, ring, pc, localVars,
                 state_ptr>>

Exit(p) ==
  /\ p \notin exited
  /\ exited' = exited \cup {p}
  /\ holders' = [x \in Sockets |-> holders[x] \ {p}]
  /\ Release(holders', f)
  /\ UNCHANGED <<groupVars, metricVars, bound, sk, ring, pc, localVars,
                 state_ptr>>

(***************************************************************************)
(* setsockopt().  The hook creates the group when there is none, whatever  *)
(* the option and even if the call fails afterwards (get_state).  Failures *)
(* that change nothing else are CreateGroup, or a stuttering step when the *)
(* group exists.                                                           *)
(***************************************************************************)
get_state == exists' = TRUE

CreateGroup(x, p) ==
  /\ p \in holders[x] /\ ~exists
  /\ get_state
  /\ UNCHANGED <<max_apps, working_gen, max_idx, cookies, metricVars, procVars,
                 sk, sockhash, attached, ring, pc, localVars, state_ptr>>

\* bpf_ringbuf_reserve and bpf_ringbuf_submit; a full ring is EAGAIN.
Post(m) == Len(ring) < RingCap /\ ring' = Append(ring, m)

\* UDP_GRM_SOCKET_GEN: only a new number, or a socket without index, posts.
SetSocketGen(x, p, t, g) ==
  /\ p \in holders[x]
  /\ sk[x].sock_gen # g \/ sk[x].sock_idx = Unset
  /\ Post([type |-> "REGISTER_SOCKET", pid |-> p, task |-> t, cookie |-> x,
           gen |-> g, app |-> sk[x].sock_app])
  /\ sk' = [sk EXCEPT ![x].sock_gen = g]
  /\ get_state
  /\ UNCHANGED <<max_apps, working_gen, max_idx, cookies, metricVars, procVars,
                 sockhash, attached, pc, localVars, state_ptr>>

\* UDP_GRM_WORKING_GEN.
SetWorkingGen(x, p, g) ==
  LET app == sk[x].sock_app % MAX_APPS
  IN  /\ p \in holders[x]
      /\ Post([type |-> "SET_WORKING_GEN", app |-> app, gen |-> g])
      /\ working_gen' = [working_gen EXCEPT ![app] = g]
      /\ get_state
      /\ UNCHANGED <<max_apps, max_idx, cookies, metricVars, procVars, sk,
                     sockhash, attached, pc, localVars, state_ptr>>

\* UDP_GRM_DISSECTOR with valid arguments: it takes effect only on the call
\* that creates the group.  Refused arguments are RefuseDissector.
SetDissector(x, p, n) ==
  /\ p \in holders[x] /\ ~exists
  /\ Post([type |-> "SET_DISSECTOR"])
  /\ get_state /\ max_apps' = n
  /\ UNCHANGED <<working_gen, max_idx, cookies, metricVars, procVars, sk,
                 sockhash, attached, pc, localVars, state_ptr>>

\* UDP_GRM_SOCKET_APP: refused once a generation or an index is set.
SetSocketApp(x, p, a) ==
  /\ p \in holders[x] /\ exists
  /\ sk[x].sock_gen = Unset /\ sk[x].sock_idx = Unset
  /\ a < max_apps
  /\ sk' = [sk EXCEPT ![x].sock_app = a]
  /\ UNCHANGED <<groupVars, metricVars, procVars, sockhash, attached, ring, pc,
                 localVars, state_ptr>>

\* The element of the group is deleted from the map.
RemoveGroup ==
  /\ exists' = FALSE /\ max_apps' = 0
  /\ working_gen' = [a \in Apps |-> 0]
  /\ max_idx' = [g \in GenIds |-> 0]
  /\ cookies' = EmptyTable
  /\ socket_critical_gauge' = 0 /\ socket_critical' = 0
  /\ state_ptr' = IF state_ptr = "valid" THEN "freed" ELSE state_ptr
  /\ UNCHANGED <<procVars, sk, sockhash, attached, ring, pc, localVars>>

\* `udpgrm delete`: the operator removes the group.
Delete == exists /\ RemoveGroup

\* UDP_GRM_DISSECTOR with arguments that are refused: the call that created the
\* group (CreateGroup) deletes it again.  The element is visible in between, so
\* that by now others may have used it, or created another one.
RefuseDissector(x, p) == p \in holders[x] /\ exists /\ RemoveGroup

(***************************************************************************)
(* The daemon: handle_msg, one action per map operation.                   *)
(***************************************************************************)
e == Head(ring)
EGen_NoApp == e.gen % MAX_GENS
EGen == Row(state.max_apps, e.app, e.gen)

\* error(-1, ...) ends the process; its descriptors are closed.
DaemonExit ==
  /\ pc' = "dead"
  /\ f' = NoCookie
  /\ Release(holders, NoCookie)
  /\ UNCHANGED <<groupVars, metricVars, procVars, sk, ring, state, s, free_pos,
                 gen_len, state_ptr>>

FirstStep(m) ==
  CASE m.type = "REGISTER_SOCKET" -> "find"
    [] m.type = "SET_WORKING_GEN" -> "working_gen"
    [] m.type = "SET_DISSECTOR" -> "done"

\* A copy of the group is taken at the start and used until the end.
LookupState ==
  /\ pc = "idle" /\ ring # <<>>
  /\ \/ /\ exists
        /\ state' = [max_apps |-> max_apps, cookies |-> cookies]
        /\ pc' = FirstStep(e)
        /\ UNCHANGED <<groupVars, metricVars, procVars, sk, sockhash, attached,
                       ring, s, f, free_pos, gen_len, state_ptr>>
     \/ ~exists /\ DaemonExit

\* pidfd_open takes the number of a running process, not of one of its threads.
PidfdOpens(m) == m.pid \notin exited /\ m.task = "leader"

\* pidfd_find_socket looks through the descriptors of that process.
Findable(m) == m.pid \in holders[m.cookie] /\ m.cookie \notin Hidden

\* The socket is found and its storage is read; if that fails: CallFails.
FindSocket ==
  /\ pc = "find"
  /\ \/ /\ ~PidfdOpens(e)
        /\ pc' = "done" /\ UNCHANGED <<f, s>>
     \/ /\ PidfdOpens(e) /\ ~Findable(e)
        /\ pc' = "critical" /\ UNCHANGED <<f, s>>
     \/ /\ PidfdOpens(e) /\ Findable(e)
        /\ pc' = "find_empty"
        /\ f' = e.cookie /\ s' = sk[e.cookie]
  /\ UNCHANGED <<groupVars, metricVars, procVars, sk, sockhash, attached, ring,
                 state, free_pos, gen_len, state_ptr>>

\* Result of cookies_find_empty: the first slot without a live socket, and a
\* length that covers it and every live socket of the row.
IsFreePos_Any(row, pos) == row[pos] \notin sockhash
IsFreePos_Unchecked(row, pos) == \A i \in 0 .. pos - 1 : row[i] \in sockhash
IsFreePos(row, pos) ==
  row[pos] \notin sockhash /\ \A i \in 0 .. pos - 1 : row[i] \in sockhash
IsGenLen_Last(row, pos, len) == len = pos + 1
IsGenLen_Whole(row, pos, len) == len = MAX_SOCKETS_IN_GEN
IsGenLen(row, pos, len) ==
  /\ len - 1 = pos \/ row[len - 1] \in sockhash
  /\ pos < len
  /\ \A i \in len .. MAX_SOCKETS_IN_GEN - 1 : row[i] \notin sockhash

\* The socket enters sockhash; EEXIST of an earlier registration is accepted.
InsertSockhash_Skipped == sockhash' = sockhash
InsertSockhash == sockhash' = sockhash \cup {f}

\* The copy of the row is scanned; a failing insertion is CallFails.
FindEmpty ==
  LET row == state.cookies[EGen]
  IN  /\ pc = "find_empty"
      /\ \/ /\ \A i \in Idx : row[i] \in sockhash
            /\ pc' = "attach"
            /\ UNCHANGED <<sockhash, free_pos, gen_len>>
         \/ \E pos \in Idx, len \in 1 .. MAX_SOCKETS_IN_GEN :
              /\ IsFreePos(row, pos) /\ IsGenLen(row, pos, len)
              /\ free_pos' = pos /\ gen_len' = len
              /\ InsertSockhash
              /\ pc' = "cookies"
      /\ UNCHANGED <<groupVars, metricVars, procVars, sk, attached, ring, state,
                     s, f, state_ptr>>

\* GSM_SET_COOKIES, first store.  Without a group the program returns 1.
SetCookies ==
  /\ pc = "cookies"
  /\ \/ /\ exists
        /\ cookies' = [cookies EXCEPT ![EGen][free_pos] = e.cookie]
        /\ state_ptr' = "valid"
        /\ pc' = "max_idx"
        /\ UNCHANGED <<exists, max_apps, working_gen, max_idx, metricVars,
                       procVars, sk, sockhash, attached, ring, localVars>>
     \/ ~exists /\ DaemonExit

\* GSM_SET_COOKIES, second store.  After a delete the element is free memory:
\* the store is lost, or reaches the group that was created meanwhile.
SetMaxIdx ==
  /\ pc = "max_idx"
  /\ \/ exists /\ max_idx' = [max_idx EXCEPT ![EGen] = gen_len]
     \/ state_ptr = "freed" /\ UNCHANGED max_idx
  /\ state_ptr' = "none"
  /\ pc' = "sock_idx"
  /\ UNCHANGED <<exists, max_apps, working_gen, cookies, metricVars, procVars,
                 sk, sockhash, attached, ring, localVars>>

\* The whole storage read in FindSocket is written back, with the index, or
\* that fails: CallFails.
WriteIdx_NoAttach ==
  /\ pc = "sock_idx"
  /\ sk' = [sk EXCEPT ![f] = [s EXCEPT !.sock_idx = free_pos]]
  /\ pc' = "done"
  /\ UNCHANGED <<groupVars, metricVars, procVars, sockhash, attached, ring,
                 localVars, state_ptr>>
WriteIdx ==
  /\ pc = "sock_idx"
  /\ sk' = [sk EXCEPT ![f] = [s EXCEPT !.sock_idx = free_pos]]
  /\ pc' = "attach"
  /\ UNCHANGED <<groupVars, metricVars, procVars, sockhash, attached, ring,
                 localVars, state_ptr>>

\* SO_ATTACH_REUSEPORT_EBPF and close(f), or CallFails; the group has no Tubular
\* label.
Attach ==
  /\ pc = "attach"
  /\ f' = NoCookie
  /\ sockhash' = sockhash \cap Alive(holders, NoCookie)
  /\ attached' = (Alive(holders, NoCookie) # {})
  /\ pc' = "done"
  /\ UNCHANGED <<groupVars, metricVars, procVars, sk, ring, state, s, free_pos,
                 gen_len, state_ptr>>

\* The other error exits: reading the socket storage, inserting into sockhash
\* (but for EEXIST), writing the storage back and attaching the program may fail
\* for reasons that are not in this model, and each failure ends the daemon.
CallFails ==
  /\ \/ pc = "find" /\ PidfdOpens(e) /\ Findable(e)
     \/ pc = "find_empty" /\ \E i \in Idx : state.cookies[EGen][i] \notin sockhash
     \/ pc \in {"sock_idx", "attach"}
  /\ DaemonExit

\* __sync_fetch_and_add on a metric.
fetch_and_add(c, v) == (c + v) % CounterMod

\* metric_incr_critical(skey, 1, 1), its two callbacks.
AddCritical ==
  /\ pc = "critical"
  /\ \/ /\ exists
        /\ socket_critical_gauge' = fetch_and_add(socket_critical_gauge, 1)
        /\ pc' = "critical_count"
        /\ UNCHANGED <<groupVars, socket_critical, procVars, sk, sockhash,
                       attached, ring, localVars, state_ptr>>
     \/ ~exists /\ DaemonExit

CountCritical ==
  /\ pc = "critical_count"
  /\ \/ /\ exists
        /\ socket_critical' = fetch_and_add(socket_critical, 1)
        /\ pc' = "done"
        /\ UNCHANGED <<groupVars, socket_critical_gauge, procVars, sk, sockhash,
                       attached, ring, localVars, state_ptr>>
     \/ ~exists /\ DaemonExit

\* MSG_SET_WORKING_GEN of a group without label: tubular_maybe_register has
\* nothing to do, and metric_incr_critical(skey, 0, 0) adds 0 to the gauge.
WorkingGenSet ==
  /\ pc = "working_gen"
  /\ \/ /\ exists
        /\ socket_critical_gauge' = fetch_and_add(socket_critical_gauge, 0)
        /\ pc' = "done"
        /\ UNCHANGED <<groupVars, socket_critical, procVars, sk, sockhash,
                       attached, ring, localVars, state_ptr>>
     \/ ~exists /\ DaemonExit

\* handle_msg returns and libbpf advances the consumer position.
Consumed_Batch == <<>>
Consumed_Stuck == ring
Consumed == Tail(ring)

Return ==
  /\ pc = "done"
  /\ ring' = Consumed
  /\ pc' = "idle"
  /\ state' = NoSnapshot /\ s' = NewStorage
  /\ free_pos' = Unset /\ gen_len' = 0
  /\ UNCHANGED <<groupVars, metricVars, procVars, sk, sockhash, attached, f,
                 state_ptr>>

Daemon ==
  \/ LookupState \/ FindSocket \/ FindEmpty \/ SetCookies \/ SetMaxIdx
  \/ WriteIdx \/ Attach \/ CallFails \/ AddCritical \/ CountCritical
  \/ WorkingGenSet \/ Return

(***************************************************************************)
(* Usages, each one including the one before.                              *)
(***************************************************************************)
\* A socket is bound once and keeps its generation; calls may be repeated.
Application ==
  \/ \E x \in Sockets, p \in Procs :
       \/ Bind(x, p) \/ Close(x, p) \/ CreateGroup(x, p)
       \/ \E q \in Procs : Pass(x, p, q)
       \/ \E t \in Callers, g \in Gens :
            sk[x].sock_gen \in {g, Unset} /\ SetSocketGen(x, p, t, g)
       \/ \E g \in WorkingGens : SetWorkingGen(x, p, g)
       \/ \E n \in DissectorApps : SetDissector(x, p, n)
       \/ \E a \in Apps : SetSocketApp(x, p, a)
  \/ \E p \in Procs : Exit(p)

Next == Application \/ Daemon

\* Sockets may also move to another generation.
ChangeGen ==
  \E x \in Sockets, p \in Procs, t \in Callers, g \in Gens :
    SetSocketGen(x, p, t, g)
RegenNext == Next \/ ChangeGen

\* bind() may also be called again on a bound socket.
RebindNext == RegenNext \/ \E x \in Sockets, p \in Procs : Rebind(x, p)

\* The group may also be removed, by the operator or with a refused dissector.
FullNext ==
  \/ RebindNext \/ Delete
  \/ \E x \in Sockets, p \in Procs : RefuseDissector(x, p)

Spec == Init /\ [][Next]_vars
RegenSpec == Init /\ [][RegenNext]_vars
RebindSpec == Init /\ [][RebindNext]_vars
FullSpec == Init /\ [][FullNext]_vars

\* The daemon polls the ring in a loop, so that a step it can take happens.
LiveSpec == RebindSpec /\ WF_vars(Daemon)

(***************************************************************************)
(* Properties.                                                             *)
(***************************************************************************)
GroupType ==
  /\ exists \in BOOLEAN /\ max_apps \in 0 .. MAX_APPS
  /\ working_gen \in [Apps -> WorkingGens \cup {0}]
  /\ max_idx \in [GenIds -> 0 .. MAX_SOCKETS_IN_GEN]
  /\ cookies \in Tables
  /\ socket_critical_gauge \in 0 .. CounterMod - 1
  /\ socket_critical \in 0 .. CounterMod - 1
SocketType ==
  /\ bound \subseteq Sockets /\ sk \in [Sockets -> Storage]
  /\ holders \in [Sockets -> SUBSET Procs] /\ exited \subseteq Procs
  /\ sockhash \subseteq Sockets /\ attached \in BOOLEAN
DaemonType ==
  /\ ring \in Seq(Msgs)
  /\ pc \in DaemonPcs /\ state \in Snapshots /\ s \in Storage
  /\ f \in Sockets \cup {NoCookie}
  /\ free_pos \in Idx \cup {Unset} /\ gen_len \in 0 .. MAX_SOCKETS_IN_GEN
  /\ state_ptr \in {"none", "valid", "freed"}

\* Types of the group map, the sockets, the ring and the locals of handle_msg.
TypeOK == GroupType /\ SocketType /\ DaemonType

LiveSockets == Alive(holders, f)

\* The daemon puts a socket into sockhash before its cookie enters the table
\* (udpgrm.c:179 before :211): whatever applications and operators do, no
\* packet that is dispatched through the table misses a living socket.
PublishedIsSelectable ==
  \A g \in GenIds, i \in Idx :
    cookies[g][i] \in LiveSockets => cookies[g][i] \in sockhash

\* New flows are spread over cookies[gen][0 .. max_idx - 1]: that part of a
\* row has no slot that was never written, so that no new flow meets cookie 0.
\* cookies_find_empty reuses the first dead slot and may shorten the row.
NoHole ==
  \A g \in GenIds : \A i \in 0 .. max_idx[g] - 1 : cookies[g][i] # NoCookie

\* A living socket is never cut off: whenever the daemon is not between the
\* two stores of GSM_SET_COOKIES, every slot with a living socket is below
\* max_idx, although max_idx is recomputed from an old copy of the table, and
\* may shrink, at each message, and the group may be deleted at any moment.
LiveCovered ==
  pc # "max_idx" =>
    \A g \in GenIds, i \in Idx : cookies[g][i] \in sockhash => i < max_idx[g]

\* What getsockopt(UDP_GRM_SOCKET_GEN) returns once sock_idx is valid, the
\* udpgrm cookie that goes into packets, designates this very socket.
Designates(x) ==
  sk[x].sock_idx # Unset =>
    cookies[Row(max_apps, sk[x].sock_app, sk[x].sock_gen)][sk[x].sock_idx] = x
CookieDesignatesSocket == \A x \in LiveSockets : Designates(x)

\* A socket that was told an index is reached by the program: the daemon
\* attaches it, in the same message, to the kernel's group, which keeps it
\* until its last socket is gone.  The index is written first (udpgrm.c:222,
\* :236), so that one socket may miss the program: the one that is just being
\* registered, for good if the daemon died of that very request.
InHand(x) ==
  /\ pc \in {"attach", "dead"} /\ ring # <<>>
  /\ e.type = "REGISTER_SOCKET" /\ x = e.cookie
RegisteredIsAttached ==
  \A x \in LiveSockets : sk[x].sock_idx # Unset => attached \/ InHand(x)

\* A slot that holds a living socket keeps it, unless the group is removed:
\* cookies in the packets of established flows stay valid until the
\* socket is closed.  The daemon picks the slot from a copy of the table,
\* several map operations earlier, and the group may be another one by then.
SlotsAreStable ==
  [][RemoveGroup \/ \A g \in GenIds, i \in Idx :
       cookies[g][i] \in LiveSockets => cookies'[g][i] = cookies[g][i]]_vars

\* A request that waits in the ring is served: the socket gets its index unless
\* the process closed it, it cannot be found, its generation was full, or an
\* error ended the daemon.
RowFull(app, gen) ==
  \A i \in Idx : cookies[Row(max_apps, app, gen)][i] \in sockhash
Requested(x, p, a, g) ==
  \E n \in 1 .. Len(ring) :
    /\ n > 1 \/ pc \in {"idle", "find", "find_empty"}
    /\ ring[n] = [type |-> "REGISTER_SOCKET", pid |-> p, task |-> "leader",
                  cookie |-> x, app |-> a, gen |-> g]
RequestServed ==
  \A x \in Sockets \ Hidden, p \in Procs, a \in Apps, g \in Gens :
    Requested(x, p, a, g) ~>
      (\/ sk[x].sock_idx # Unset \/ p \notin holders[x] \/ RowFull(a, g)
       \/ pc = "dead")

\* EAGAIN is transient: a full ring gets room again, unless an error ended the
\* daemon.
RingDrains == Len(ring) = RingCap ~> (Len(ring) < RingCap \/ pc = "dead")
=============================================================================
