------------------------------ MODULE Dispatch ------------------------------
(***************************************************************************)
(* udpgrm_reuseport_prog: which socket of a reuseport group gets a packet. *)
(* The program has three stages - dissect the packet, find the socket of   *)
(* an existing flow, pick a socket of the working generation - and reads   *)
(* the flow table and the cookie table while senders, the daemon and       *)
(* setsockopt() change them.  Every load of shared state is an action.     *)
(*                                                                         *)
(* The group is registered and has a program attached; sockets of other    *)
(* groups appear only as Foreign entries of the flow table and sockhash.   *)
(***************************************************************************)
EXTENDS GroupTable, FlowTable

CONSTANTS
  NewFlow, BadCookie,  \* the values -1 and -2 of sock_cookie
  Foreign,             \* sockets of another reuseport group
  AppOf, GenOf,        \* application and generation of the other sockets
  max_apps,            \* of the group's dissector
  Dissectors,          \* which dissectors the group may have
  WorkingGens,         \* values set with UDP_GRM_WORKING_GEN, by dissector
  Packets, NoPacket,   \* what a packet shows to the dissectors
  RxTasks,             \* contexts that run the program
  Overlap,             \* FALSE: one call of a program at a time
  MaxPackets           \* bound, by dissector: packets received

VARIABLES
  dissector,           \* state->dis.dissector_type
  working_gen, max_idx, cookies,
  sockhash,
  store,               \* the registration in progress in the daemon
  rx,                  \* the locals of every run of the program
  rx_metric            \* the rx_ counters of struct reuseport_storage

tableVars == <<working_gen, max_idx, cookies, sockhash, store>>
rxVars == <<rx, rx_metric>>
vars == <<flowVars, dissector, tableVars, rxVars>>

Ours == Sockets \ Foreign
Special == {NoSocket, NewFlow, BadCookie}
NoStore == [pc |-> 0, row |-> 0, idx |-> 0, len |-> 0, cookie |-> NoSocket]
Verdicts == {"ok", "load_error", "prog_error", "new", "app", "bad_cookie",
             "cookie"}
\* What a dissector tells apart: a flow hash, nothing, the value of a filter.
Sees == [FLOW |-> {"ok", "load_error"}, NOOP |-> {"ok"},
         CBPF |-> Verdicts \ {"ok"}]
PacketType == [verdict : Verdicts, hash : Hashes, mdhash : Nat, app : Nat,
               gen : GenIds, idx : Idx]

ASSUME DispatchAssumption ==
  /\ NewFlow \notin Sockets /\ BadCookie \notin Sockets
  /\ NewFlow # BadCookie /\ NoSocket \notin {NewFlow, BadCookie}
  /\ Foreign \subseteq Sockets
  /\ max_apps \in 0 .. MAX_APPS
  /\ AppOf \in [Ours -> 0 .. (IF max_apps = 0 THEN 0 ELSE max_apps - 1)]
  /\ GenOf \in [Ours -> Nat] /\ WorkingGens \in [Dissectors -> SUBSET Nat]
  /\ Dissectors \subseteq {"FLOW", "CBPF", "NOOP"}
  /\ Packets \subseteq PacketType /\ NoPacket \notin PacketType
  /\ IsFiniteSet(RxTasks) /\ Overlap \in BOOLEAN
  /\ MaxPackets \in [Dissectors -> Nat]

RxMetrics ==
  {"processed", "cbpf_error", "too_short", "dissected_ok", "flow_ok",
   "rg_conflict", "other_error", "new_unseen", "had_expired", "bad_cookie",
   "new_flow", "new_ok", "new_error"}

IdleRx == [pc |-> "idle", value |-> NoElem, now |-> 0, cookie |-> NoSocket,
           app |-> 0, row |-> 0, len |-> 0, pkt |-> NoPacket,
           owner |-> NoSocket]
SlotOf(x) == Row(max_apps, AppOf[x], GenOf[x])

Init ==
  /\ FlowInit
  /\ dissector \in Dissectors
  /\ working_gen = [a \in Apps |-> 0]
  /\ max_idx = [g \in GenIds |-> 0]
  /\ cookies = [g \in GenIds |-> [i \in Idx |-> NoSocket]]
  /\ sockhash = Foreign /\ store = NoStore
  /\ rx = [t \in RxTasks |-> IdleRx]
  /\ rx_metric = [m \in RxMetrics |-> 0]

Count(ms) ==
  rx_metric' = [m \in RxMetrics |->
                  IF m \in ms THEN rx_metric[m] + 1 ELSE rx_metric[m]]

\* bpf_sk_select_reuseport finds the socket, in this reuseport group.
Selectable(cookie) == cookie \in sockhash \ Foreign

(***************************************************************************)
(* The rest of the system.                                                 *)
(***************************************************************************)
Close(x) ==
  /\ CloseSocket(x)
  /\ store.cookie # x
  /\ sockhash' = sockhash \ {x}
  /\ UNCHANGED <<dissector, working_gen, max_idx, cookies, store, rxVars>>

SetWorkingGen(a, g) ==
  /\ working_gen' = [working_gen EXCEPT ![a] = g]
  /\ UNCHANGED <<flowVars, dissector, max_idx, cookies, sockhash, store, rxVars>>

\* The daemon takes the first slot without a living socket (Registration shows
\* how): the socket enters sockhash, then cb_update_map does two stores.
StartRegistration(x) ==
  LET row == cookies[SlotOf(x)]
  IN  /\ store = NoStore /\ x \in open \ sockhash
      /\ \E pos \in Idx, len \in 1 .. MAX_SOCKETS_IN_GEN :
           /\ row[pos] \notin sockhash
           /\ \A i \in 0 .. pos - 1 : row[i] \in sockhash
           /\ len - 1 = pos \/ row[len - 1] \in sockhash
           /\ pos < len
           /\ \A i \in len .. MAX_SOCKETS_IN_GEN - 1 : row[i] \notin sockhash
           /\ store' = [pc |-> 1, row |-> SlotOf(x), idx |-> pos,
                        len |-> len, cookie |-> x]
      /\ sockhash' = sockhash \cup {x}
      /\ UNCHANGED <<flowVars, dissector, working_gen, max_idx, cookies, rxVars>>

StoreOrder_Swapped == <<"max_idx", "cookies">>
StoreOrder == <<"cookies", "max_idx">>

cb_update_map ==
  /\ store.pc \in 1 .. 2
  /\ \/ /\ StoreOrder[store.pc] = "cookies"
        /\ cookies' = [cookies EXCEPT ![store.row][store.idx] = store.cookie]
        /\ UNCHANGED max_idx
     \/ /\ StoreOrder[store.pc] = "max_idx"
        /\ max_idx' = [max_idx EXCEPT ![store.row] = store.len]
        /\ UNCHANGED cookies
  /\ store' = IF store.pc = 2 THEN NoStore ELSE [store EXCEPT !.pc = 2]
  /\ UNCHANGED <<flowVars, dissector, working_gen, sockhash, rxVars>>

(***************************************************************************)
(* The program, first stage.                                               *)
(***************************************************************************)
\* The socket to which the packet is owed: the flow entry that is fresh, or
\* the socket its udpgrm cookie designates.
Owner(p) ==
  IF dissector = "FLOW" /\ Lookup(p.hash) # NoElem
  THEN LET entry == elem[Lookup(p.hash)]
       IN  IF time - entry.last_tx_ns <= Timeout /\ Selectable(entry.cookie)
           THEN entry.cookie ELSE NoSocket
  ELSE IF /\ dissector = "CBPF" /\ p.verdict = "cookie"
          /\ Selectable(cookies[p.gen][p.idx])
       THEN cookies[p.gen][p.idx] ELSE NoSocket

\* get_state finds the group and the packet is counted; owner is a history
\* variable, for the properties.
Receive(t, p) ==
  /\ rx[t].pc = "idle" /\ rx_metric["processed"] < MaxPackets[dissector]
  /\ p.verdict \in Sees[dissector]
  /\ rx' = [rx EXCEPT ![t].pc = "dissect", ![t].pkt = p,
                      ![t].owner = Owner(p)]
  /\ Count({"processed"})
  /\ UNCHANGED <<flowVars, dissector, tableVars>>

\* dissector_flow: the hash, and with it the entry of the flow table.
DissectFlow(t) ==
  LET p == rx[t].pkt
  IN  /\ rx[t].pc = "dissect" /\ dissector = "FLOW"
      /\ \/ /\ p.verdict = "load_error"
            /\ Count({"too_short"})
            /\ rx' = [rx EXCEPT ![t] = IdleRx]
         \/ /\ p.verdict # "load_error"
            /\ Count({"dissected_ok"})
            /\ rx' = [rx EXCEPT ![t].pc = "clock", ![t].value = Lookup(p.hash)]
      /\ UNCHANGED <<flowVars, dissector, tableVars>>

\* dissector_cbpf, for DISSECTOR_CBPF and DISSECTOR_BESPOKE: what the return
\* value of the filter, or of the built-in one, stands for.  An
\* application number that is too large is an ordinary new flow.
cbpf_cookie_Swapped(p) ==
  CASE p.verdict = "cookie" ->
         cookies[p.idx % MAX_GENS][p.gen % MAX_SOCKETS_IN_GEN]
    [] p.verdict = "bad_cookie" -> BadCookie
    [] OTHER -> NewFlow
cbpf_cookie(p) ==
  CASE p.verdict = "cookie" -> cookies[p.gen][p.idx]
    [] p.verdict = "bad_cookie" -> BadCookie
    [] OTHER -> NewFlow
cbpf_app(p) == IF p.verdict = "app" /\ p.app < max_apps THEN p.app ELSE 0

DissectCbpf(t) ==
  LET p == rx[t].pkt
  IN  /\ rx[t].pc = "dissect" /\ dissector = "CBPF"
      /\ \/ /\ p.verdict \in {"load_error", "prog_error"}
            /\ Count({IF p.verdict = "load_error" THEN "too_short"
                                                  ELSE "cbpf_error"})
            /\ rx' = [rx EXCEPT ![t] = IdleRx]
         \/ /\ p.verdict \notin {"load_error", "prog_error"}
            /\ Count({"dissected_ok"})
            /\ rx' = [rx EXCEPT ![t].pc = "select",
                                ![t].cookie = cbpf_cookie(p),
                                ![t].app = cbpf_app(p)]
      /\ UNCHANGED <<flowVars, dissector, tableVars>>

DissectNoop(t) ==
  /\ rx[t].pc = "dissect" /\ dissector = "NOOP"
  /\ Count({"dissected_ok", "new_unseen"})
  /\ rx' = [rx EXCEPT ![t].pc = "new_flow"]
  /\ UNCHANGED <<flowVars, dissector, tableVars>>

(***************************************************************************)
(* Second stage: existing flows.                                           *)
(***************************************************************************)
RxClock(t) ==
  /\ rx[t].pc = "clock"
  /\ rx' = [rx EXCEPT ![t].now = time, ![t].pc = "age"]
  /\ UNCHANGED <<flowVars, dissector, tableVars, rx_metric>>

RxAge(t) ==
  LET fresh == /\ rx[t].value # NoElem
               /\ ~Expired(rx[t].now, elem[rx[t].value].last_tx_ns)
  IN  /\ rx[t].pc = "age"
      /\ \/ /\ fresh
            /\ rx' = [rx EXCEPT ![t].pc = "select_flow"]
            /\ UNCHANGED rx_metric
         \/ /\ ~fresh
            /\ Count({"new_unseen"} \cup
                     (IF rx[t].value # NoElem THEN {"had_expired"} ELSE {}))
            /\ rx' = [rx EXCEPT ![t].pc = "new_flow"]
      /\ UNCHANGED <<flowVars, dissector, tableVars>>

\* Which error number a socket of another group gives is the kernel's choice.
FailedSelect(cookie) ==
  IF cookie \in Foreign /\ cookie \in sockhash
  THEN {{"rg_conflict"}, {"other_error"}} ELSE {{"other_error"}}

SelectFlow(t) ==
  LET cookie == elem[rx[t].value].cookie
  IN  /\ rx[t].pc = "select_flow"
      /\ \/ /\ Selectable(cookie)
            /\ Count({"flow_ok"})
            /\ rx' = [rx EXCEPT ![t] = IdleRx]
         \/ /\ ~Selectable(cookie)
            /\ \E ms \in FailedSelect(cookie) : Count(ms)
            /\ rx' = [rx EXCEPT ![t].pc = "new_flow"]
      /\ UNCHANGED <<flowVars, dissector, tableVars>>

\* The three values that cannot be a socket count as an unseen flow.
SpecialSelect_Twice(cookie) ==
  {"new_unseen", "other_error"}
  \cup (IF cookie = BadCookie THEN {"bad_cookie"} ELSE {})
SpecialSelect(cookie) ==
  {"new_unseen"} \cup (IF cookie = BadCookie THEN {"bad_cookie"} ELSE {})

SelectCookie(t) ==
  LET cookie == rx[t].cookie
  IN  /\ rx[t].pc = "select"
      /\ \/ /\ Selectable(cookie)
            /\ Count({"flow_ok"})
            /\ rx' = [rx EXCEPT ![t] = IdleRx]
         \/ /\ ~Selectable(cookie)
            /\ IF cookie \in Special THEN Count(SpecialSelect(cookie))
               ELSE \E ms \in FailedSelect(cookie) : Count(ms)
            /\ rx' = [rx EXCEPT ![t].pc = "new_flow"]
      /\ UNCHANGED <<flowVars, dissector, tableVars>>

(***************************************************************************)
(* Third stage: the working generation.                                    *)
(***************************************************************************)
ReadWorkingGen(t) ==
  LET app == rx[t].app
  IN  /\ rx[t].pc = "new_flow"
      /\ Count({"new_flow"})
      /\ rx' = [rx EXCEPT ![t].pc = "len",
                  ![t].row = Row(max_apps, app, working_gen[app % MAX_APPS])]
      /\ UNCHANGED <<flowVars, dissector, tableVars>>

ReadMaxIdx(t) ==
  /\ rx[t].pc = "len"
  /\ rx' = [rx EXCEPT ![t].pc = "slot", ![t].len = max_idx[rx[t].row]]
  /\ UNCHANGED <<flowVars, dissector, tableVars, rx_metric>>

\* In eBPF the remainder of a division by zero is the dividend.
Remainder(a, n) == IF n = 0 THEN a ELSE a % n

ReadSlot(t) ==
  LET i == Remainder(rx[t].pkt.mdhash, rx[t].len) % MAX_SOCKETS_IN_GEN
  IN  /\ rx[t].pc = "slot"
      /\ rx' = [rx EXCEPT ![t].pc = "select_new",
                          ![t].cookie = cookies[rx[t].row][i]]
      /\ UNCHANGED <<flowVars, dissector, tableVars, rx_metric>>

\* On an error the kernel picks a socket of the group by its own hash.
SelectNew(t) ==
  /\ rx[t].pc = "select_new"
  /\ Count({IF Selectable(rx[t].cookie) THEN "new_ok" ELSE "new_error"})
  /\ rx' = [rx EXCEPT ![t] = IdleRx]
  /\ UNCHANGED <<flowVars, dissector, tableVars>>

RxStep(t) ==
  \/ DissectFlow(t) \/ DissectCbpf(t) \/ DissectNoop(t)
  \/ RxClock(t) \/ RxAge(t) \/ SelectFlow(t) \/ SelectCookie(t)
  \/ ReadWorkingGen(t) \/ ReadMaxIdx(t) \/ ReadSlot(t) \/ SelectNew(t)

Busy == \/ \E t \in RxTasks : rx[t].pc # "idle"
        \/ \E t \in TxTasks : tx[t].pc # "idle"

\* sendmsg() and UDP_GRM_FLOW_ASSURE leave the table alone unless the group's
\* dissector is DISSECTOR_FLOW.
Sender ==
  /\ \E t \in TxTasks :
       \/ AssureStep(t)
       \/ /\ dissector = "FLOW" /\ (Busy => Overlap)
          /\ \E x \in Sockets, h \in Hashes : Assure(t, x, h)
  /\ UNCHANGED <<dissector, tableVars, rxVars>>

Receiver ==
  \E t \in RxTasks :
    RxStep(t) \/ ((Busy => Overlap) /\ \E p \in Packets : Receive(t, p))

\* Only the flow table reads the clock.
Next ==
  \/ Sender \/ Receiver \/ cb_update_map
  \/ dissector = "FLOW" /\ Tick /\ UNCHANGED <<dissector, tableVars, rxVars>>
  \/ \E x \in Sockets : Close(x)
  \/ \E x \in Ours : StartRegistration(x)
  \/ \E a \in Apps, g \in WorkingGens[dissector] : SetWorkingGen(a, g)

Spec == Init /\ [][Next]_vars

(***************************************************************************)
(* Properties.                                                             *)
(***************************************************************************)
RxPcs == {"idle", "dissect", "clock", "age", "select_flow", "select",
          "new_flow", "len", "slot", "select_new"}

\* Types of the group, of the locals and of the counters of the program.
TypeOK ==
  /\ FlowTypeOK
  /\ dissector \in Dissectors
  /\ working_gen \in [Apps -> WorkingGens[dissector] \cup {0}]
  /\ max_idx \in [GenIds -> 0 .. MAX_SOCKETS_IN_GEN]
  /\ cookies \in [GenIds -> [Idx -> Ours \cup {NoSocket}]]
  /\ sockhash \subseteq open
  /\ rx_metric \in [RxMetrics -> 0 .. MaxPackets[dissector]]
  /\ \A t \in RxTasks :
       /\ rx[t].pc \in RxPcs /\ rx[t].value \in Elems \cup {NoElem}
       /\ rx[t].cookie \in Ours \cup Special
       /\ rx[t].app \in Apps /\ rx[t].row \in GenIds
       /\ rx[t].len \in 0 .. MAX_SOCKETS_IN_GEN

\* README.md:561, "within a stage it is accounted for exactly once": what
\* enters a stage is what it counts as one of its outcomes plus the packets
\* that are in it now, and what falls through enters the next stage.
In(pcs) == Cardinality({t \in RxTasks : rx[t].pc \in pcs})
AccountedOncePerStage ==
  /\ rx_metric["processed"] =
       rx_metric["too_short"] + rx_metric["cbpf_error"]
       + rx_metric["dissected_ok"] + In({"dissect"})
  /\ rx_metric["dissected_ok"] =
       rx_metric["flow_ok"] + rx_metric["rg_conflict"]
       + rx_metric["other_error"] + rx_metric["new_unseen"]
       + In({"clock", "age", "select_flow", "select"})
  /\ rx_metric["rg_conflict"] + rx_metric["other_error"]
       + rx_metric["new_unseen"] = rx_metric["new_flow"] + In({"new_flow"})
  /\ rx_metric["new_flow"] =
       rx_metric["new_ok"] + rx_metric["new_error"]
       + In({"len", "slot", "select_new"})

\* README.md:41, "preserve flow affinity": a packet that was owed to a socket
\* when it arrived, and still is, is not treated as a new flow.
StillOwed(t) ==
  /\ rx[t].owner # NoSocket /\ Owner(rx[t].pkt) = rx[t].owner
AffinityKept ==
  \A t \in RxTasks :
    rx[t].pc \in {"new_flow", "len", "slot", "select_new"} => ~StillOwed(t)

\* With the flow table, affinity is a matter of time stamps: the entry is found
\* and compared with the clock in separate steps (ebpf.c:260-269).
FlowAffinity == dissector = "FLOW" => AffinityKept

\* With udpgrm cookies it is a matter of slots: the daemon reuses the slots of
\* dead sockets while packets that name them are on their way (ebpf.c:218-220).
CookieAffinity == dissector = "CBPF" => AffinityKept

\* A new flow meets a socket: if the working generation was ever populated, the
\* slot that the program picks was written, although max_idx and the slot are
\* read and stored separately (ebpf.c:367-370 against :1011-1013).
NewFlowMeetsSocket ==
  \A t \in RxTasks :
    rx[t].pc = "select_new" /\ rx[t].len > 0 => rx[t].cookie # NoSocket

\* README.md:416, "we split the generations pool across applications": a new
\* flow of an application is never given to a socket of another one by the
\* program.  When the chosen slot is dead or empty the program passes the packet
\* on and the kernel picks any socket of the group (ebpf.c:381-388).
AppsAreIsolated ==
  \A t \in RxTasks :
    rx[t].pc = "select_new" /\ Selectable(rx[t].cookie)
      => AppOf[rx[t].cookie] = rx[t].app
=============================================================================
