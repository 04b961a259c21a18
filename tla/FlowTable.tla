----------------------------- MODULE FlowTable ------------------------------
(***************************************************************************)
(* The flow table of DISSECTOR_FLOW: lru_map, written by flow_assure for   *)
(* every sendmsg() and setsockopt(UDP_GRM_FLOW_ASSURE).  The programs run  *)
(* on several CPUs at once and work on map elements through pointers, so   *)
(* that every load and store of an element is an action of its own.        *)
(*                                                                         *)
(* An element is a slot of the preallocated LRU map; a program keeps its   *)
(* pointer even when the element is evicted and reused for another key.    *)
(*                                                                         *)
(* A definition with a suffixed name is a wrong variant of the definition  *)
(* without the suffix, as in Registration.                                 *)
(***************************************************************************)
EXTENDS Integers, FiniteSets

CONSTANTS
  Sockets, NoSocket,   \* a socket is its SO_COOKIE; NoSocket is cookie 0
  Hashes, NoHash,      \* flow hashes: remote address, port and group id
  Elems, NoElem,       \* elements of lru_map; NoElem is the NULL pointer
  TxTasks,             \* contexts that run flow_assure
  flow_entry_timeout_sec, FLOW_DEFAULT_TIMEOUT_SEC,
  TimeMod,             \* 2^64: bpf_ktime_get_ns() values are unsigned
  Evicts,              \* TRUE when the table is at its limit
  MaxTime, MaxCalls    \* bounds: the clock, the calls of flow_assure

ASSUME NullAssumption ==
  NoSocket \notin Sockets /\ NoHash \notin Hashes /\ NoElem \notin Elems
ASSUME FlowTimeAssumption ==
  /\ flow_entry_timeout_sec \in Nat /\ FLOW_DEFAULT_TIMEOUT_SEC \in Nat \ {0}
  /\ MaxTime \in Nat /\ MaxCalls \in Nat /\ TimeMod \in Nat
  /\ TimeMod > MaxTime + flow_entry_timeout_sec
  /\ TimeMod > MaxTime + FLOW_DEFAULT_TIMEOUT_SEC
ASSUME TaskAssumption == IsFiniteSet(TxTasks) /\ Evicts \in BOOLEAN

VARIABLES
  time,                \* the clock
  open,                \* sockets with an open descriptor
  elem,                \* lru_map
  tx,                  \* the locals of every flow_assure call
  tx_metric,           \* the tx_ counters of struct reuseport_storage
  sent                 \* history: who transmitted on which flow

flowVars == <<time, open, elem, tx, tx_metric, sent>>

Times == 0 .. MaxTime
TxMetrics == {"tx_total", "create_ok", "from_expired", "create_error",
              "update_ok", "update_conflict"}
NoEntry == [key |-> NoHash, last_tx_ns |-> 0, cookie |-> NoSocket]
Entries == [key : Hashes, last_tx_ns : Times, cookie : Sockets] \cup {NoEntry}
IdleCall == [pc |-> "idle", hash |-> NoHash, so_cookie |-> NoSocket,
             value |-> NoElem, now |-> 0]
Counted == {"clock", "insert", "age", "owner", "takeover"}
Calls == [pc : Counted \cup {"refresh", "steal"}, hash : Hashes,
          so_cookie : Sockets, value : Elems \cup {NoElem}, now : Times]
         \cup {IdleCall}

Timeout ==
  IF flow_entry_timeout_sec = 0 THEN FLOW_DEFAULT_TIMEOUT_SEC
                                ELSE flow_entry_timeout_sec

\* now - last_tx_ns, in unsigned arithmetic, against the timeout.
Expired(now, last) == (now - last) % TimeMod > Timeout

\* bpf_map_lookup_elem on lru_map.
Lookup_Any(h) ==
  IF \E i \in Elems : elem[i].key # NoHash
  THEN CHOOSE i \in Elems : elem[i].key # NoHash
  ELSE NoElem
Lookup(h) ==
  IF \E i \in Elems : elem[i].key = h
  THEN CHOOSE i \in Elems : elem[i].key = h
  ELSE NoElem

\* BPF_NOEXIST: the map has no element for the key.
NoExist(h) == \A i \in Elems : elem[i].key # h

\* The elements an insertion may take; at the limit it evicts one, and the
\* per-CPU lists make any of them a possible victim.
Victims ==
  IF Evicts THEN Elems ELSE {i \in Elems : elem[i].key = NoHash}

FlowInit ==
  /\ time = 0 /\ open = Sockets /\ sent = {}
  /\ elem = [i \in Elems |-> NoEntry]
  /\ tx = [t \in TxTasks |-> IdleCall]
  /\ tx_metric = [m \in TxMetrics |-> 0]

METRIC_INC(m) == tx_metric' = [tx_metric EXCEPT ![m] = @ + 1]

(***************************************************************************)
(* The environment.                                                        *)
(***************************************************************************)
Tick ==
  /\ time < MaxTime
  /\ time' = time + 1
  /\ UNCHANGED <<open, elem, tx, tx_metric, sent>>

\* A socket with a call in progress is kept by that call.
CloseSocket(x) ==
  /\ x \in open
  /\ \A t \in TxTasks : tx[t].so_cookie # x
  /\ open' = open \ {x}
  /\ UNCHANGED <<time, elem, tx, tx_metric, sent>>

(***************************************************************************)
(* flow_assure(state, s, hash).                                            *)
(***************************************************************************)
\* sendmsg() or UDP_GRM_FLOW_ASSURE: the hash is counted, the entry looked up.
Assure(t, x, h) ==
  /\ tx[t].pc = "idle" /\ x \in open
  /\ tx_metric["tx_total"] < MaxCalls
  /\ METRIC_INC("tx_total")
  /\ tx' = [tx EXCEPT ![t] = [pc |-> "clock", hash |-> h, so_cookie |-> x,
                              value |-> Lookup(h), now |-> 0]]
  /\ sent' = sent \cup {<<x, h>>}
  /\ UNCHANGED <<time, open, elem>>

\* bpf_ktime_get_ns(), on either branch.
ReadClock(t) ==
  /\ tx[t].pc = "clock"
  /\ tx' = [tx EXCEPT ![t].now = time,
                      ![t].pc = IF tx[t].value = NoElem THEN "insert" ELSE "age"]
  /\ UNCHANGED <<time, open, elem, tx_metric, sent>>

\* bpf_map_update_elem(..., BPF_NOEXIST).
Insert(t) ==
  /\ tx[t].pc = "insert"
  /\ \/ /\ NoExist(tx[t].hash)
        /\ \E i \in Victims :
             elem' = [elem EXCEPT ![i] = [key |-> tx[t].hash,
                                          last_tx_ns |-> tx[t].now,
                                          cookie |-> tx[t].so_cookie]]
        /\ METRIC_INC("create_ok")
     \/ /\ ~NoExist(tx[t].hash) \/ Victims = {}
        /\ METRIC_INC("create_error")
        /\ UNCHANGED elem
  /\ tx' = [tx EXCEPT ![t] = IdleCall]
  /\ UNCHANGED <<time, open, sent>>

\* The age of the entry decides.
CheckAge(t) ==
  /\ tx[t].pc = "age"
  /\ tx' = [tx EXCEPT ![t].pc =
              IF Expired(tx[t].now, elem[tx[t].value].last_tx_ns)
              THEN "takeover" ELSE "owner"]
  /\ UNCHANGED <<time, open, elem, tx_metric, sent>>

\* Not expired: only the socket of the entry may refresh it.
CheckOwner_Uncounted(t) ==
  /\ tx[t].pc = "owner"
  /\ \/ /\ elem[tx[t].value].cookie = tx[t].so_cookie
        /\ METRIC_INC("update_ok")
        /\ tx' = [tx EXCEPT ![t].pc = "refresh"]
     \/ /\ elem[tx[t].value].cookie # tx[t].so_cookie
        /\ tx' = [tx EXCEPT ![t] = IdleCall]
        /\ UNCHANGED tx_metric
  /\ UNCHANGED <<time, open, elem, sent>>
CheckOwner(t) ==
  /\ tx[t].pc = "owner"
  /\ \/ /\ elem[tx[t].value].cookie = tx[t].so_cookie
        /\ METRIC_INC("update_ok")
        /\ tx' = [tx EXCEPT ![t].pc = "refresh"]
     \/ /\ elem[tx[t].value].cookie # tx[t].so_cookie
        /\ METRIC_INC("update_conflict")
        /\ tx' = [tx EXCEPT ![t] = IdleCall]
  /\ UNCHANGED <<time, open, elem, sent>>

Refresh(t) ==
  /\ tx[t].pc = "refresh"
  /\ elem' = [elem EXCEPT ![tx[t].value].last_tx_ns = tx[t].now]
  /\ tx' = [tx EXCEPT ![t] = IdleCall]
  /\ UNCHANGED <<time, open, tx_metric, sent>>

\* Expired: first the time stamp, then the cookie.
TakeOver(t) ==
  /\ tx[t].pc = "takeover"
  /\ tx_metric' = [tx_metric EXCEPT !["create_ok"] = @ + 1,
                                    !["from_expired"] = @ + 1]
  /\ elem' = [elem EXCEPT ![tx[t].value].last_tx_ns = time]
  /\ tx' = [tx EXCEPT ![t].pc = "steal"]
  /\ UNCHANGED <<time, open, sent>>

Steal(t) ==
  /\ tx[t].pc = "steal"
  /\ elem' = [elem EXCEPT ![tx[t].value].cookie = tx[t].so_cookie]
  /\ tx' = [tx EXCEPT ![t] = IdleCall]
  /\ UNCHANGED <<time, open, tx_metric, sent>>

AssureStep(t) ==
  \/ ReadClock(t) \/ Insert(t) \/ CheckAge(t) \/ CheckOwner(t) \/ Refresh(t)
  \/ TakeOver(t) \/ Steal(t)

(***************************************************************************)
(* Properties.                                                             *)
(***************************************************************************)
\* Types; lru_map is a map, it has no two elements for a key.
FlowTypeOK ==
  /\ time \in Times /\ open \subseteq Sockets
  /\ elem \in [Elems -> Entries]
  /\ tx \in [TxTasks -> Calls]
  /\ tx_metric \in [TxMetrics -> 0 .. 2 * MaxCalls]
  /\ sent \subseteq Sockets \X Hashes
  /\ \A i, j \in Elems :
       elem[i].key = elem[j].key /\ elem[i].key # NoHash => i = j

\* README.md:603, "we do not move the flow. The flow entry will keep on pointing
\* to old socket until the flow expires": no call is about to take over an entry
\* that is fresh, that is another socket's and that no other call is half way
\* through taking over.  The age is judged and the entry taken over in separate
\* steps (ebpf.c:918-919 against :933-937).
Settled(i) == \A s \in TxTasks : tx[s].pc = "steal" => tx[s].value # i
FlowIsNotMoved ==
  \A t \in TxTasks :
    LET entry == elem[tx[t].value]
    IN  tx[t].pc = "takeover" /\ Settled(tx[t].value)
          /\ entry.cookie # tx[t].so_cookie
        => time - entry.last_tx_ns > Timeout

\* A flow entry names a socket that transmitted on that very flow, although
\* overlapping calls create, refresh and take over entries through pointers
\* that they looked up before others changed them: a packet is never pinned to
\* a socket by the traffic of another flow (ebpf.c:892-937).  The table is below
\* its limit (~Evicts): at the limit an element may be reused under a pointer.
EntryFromSender ==
  \A i \in Elems :
    elem[i].key # NoHash => <<elem[i].cookie, elem[i].key>> \in sent

\* Every call of flow_assure ends in exactly one of the four outcomes that the
\* README lists under tx_total, the calls in progress set aside.
TxAccounted ==
  /\ tx_metric["tx_total"] =
       tx_metric["create_ok"] + tx_metric["create_error"]
       + tx_metric["update_ok"] + tx_metric["update_conflict"]
       + Cardinality({t \in TxTasks : tx[t].pc \in Counted})
  /\ tx_metric["from_expired"] <= tx_metric["create_ok"]
=============================================================================
