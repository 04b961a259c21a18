--------------------------- MODULE DispatchProofs ---------------------------
(***************************************************************************)
(* Proofs about FlowTable and Dispatch, for every number of sockets, flows,*)
(* elements, contexts and packets.                                         *)
(***************************************************************************)
EXTENDS Dispatch, FiniteSetTheorems, TLAPS

(***************************************************************************)
(* The inductive invariant.                                                *)
(***************************************************************************)
AppLimit == IF max_apps = 0 THEN 1 ELSE max_apps

\* Senders: the types, and a pointer to an element is to one that was taken.
Pointing == {"age", "owner", "takeover", "refresh", "steal"}
TxType ==
  /\ time \in Times /\ open \subseteq Sockets
  /\ sent \subseteq Sockets \X Hashes
  /\ elem \in [Elems -> Entries]
  /\ tx \in [TxTasks -> Calls]
  /\ tx_metric \in [TxMetrics -> Nat]
TxPointer ==
  \A t \in TxTasks :
    /\ tx[t].pc \in Pointing => tx[t].value \in Elems
    /\ tx[t].value \in Elems => elem[tx[t].value].key \in Hashes

\* The table of the group and the registration in progress.
Stores == [pc : 1 .. 2, row : GenIds, idx : Idx, len : 1 .. MAX_SOCKETS_IN_GEN,
           cookie : Ours]
TableType ==
  /\ dissector \in Dissectors
  /\ working_gen \in [Apps -> Nat]
  /\ max_idx \in [GenIds -> 0 .. MAX_SOCKETS_IN_GEN]
  /\ cookies \in [GenIds -> [Idx -> Ours \cup {NoSocket}]]
  /\ sockhash \subseteq open
  /\ store \in Stores \cup {NoStore}

\* Receivers: the locals of a run of the program.
Runs == [pc : RxPcs, value : Elems \cup {NoElem}, now : Times,
         cookie : Ours \cup Special, app : 0 .. AppLimit - 1, row : GenIds,
         len : 0 .. MAX_SOCKETS_IN_GEN, pkt : Packets \cup {NoPacket},
         owner : Ours \cup {NoSocket}]
RxType ==
  /\ rx \in [RxTasks -> Runs]
  /\ rx_metric \in [RxMetrics -> Nat]
  /\ \A t \in RxTasks : rx[t].pc # "idle" => rx[t].pkt \in Packets

\* The slots of a row are filled from the first one, and no slot is emptied:
\* below max_idx, and below the length about to be stored, all are written.
Written(g, i) == cookies[g][i] # NoSocket
FilledInv ==
  /\ \A g \in GenIds, i, j \in Idx : i < j /\ Written(g, j) => Written(g, i)
  /\ \A g \in GenIds, i \in Idx : i < max_idx[g] => Written(g, i)
  /\ \A i \in Idx :
       /\ store.pc = 1 /\ i < store.len /\ i # store.idx => Written(store.row, i)
       /\ store.pc = 2 /\ i < store.len => Written(store.row, i)
  /\ store # NoStore => store.idx < store.len
  /\ \A t \in RxTasks, i \in Idx :
       rx[t].pc = "slot" /\ i < rx[t].len => Written(rx[t].row, i)
  /\ NewFlowMeetsSocket

\* Every socket is in the row of its application and generation, and a packet
\* is in a row of its application.
ThirdStage == {"len", "slot", "select_new"}
SliceInv ==
  /\ \A g \in GenIds, i \in Idx :
       cookies[g][i] \in Ours => g = SlotOf(cookies[g][i])
  /\ store # NoStore => store.row = SlotOf(store.cookie)
  /\ \A t \in RxTasks :
       /\ rx[t].pc \in ThirdStage =>
            \E g \in Nat : rx[t].row = Row(max_apps, rx[t].app, g)
       /\ rx[t].pc = "select_new" /\ rx[t].cookie \in Ours
            => AppOf[rx[t].cookie] = rx[t].app

\* A registered socket stays registered until it is closed, for good: what a
\* slot loses by being reused was closed before.
Lasting(x) == x \in sockhash \/ x \notin open
NewFlowPcs == {"new_flow"} \cup ThirdStage
OwnerInv ==
  /\ \A g \in GenIds, i \in Idx : cookies[g][i] \in Ours => Lasting(cookies[g][i])
  /\ store # NoStore => store.cookie \in sockhash
  /\ store.pc = 1 => cookies[store.row][store.idx] \notin sockhash
  /\ \A t \in RxTasks :
       /\ rx[t].owner # NoSocket => Lasting(rx[t].owner)
       /\ rx[t].pc \in {"clock", "age", "select_flow"} => dissector = "FLOW"
       /\ rx[t].pc = "select" => dissector = "CBPF"
  /\ dissector = "CBPF" =>
       \A t \in RxTasks :
         LET r == rx[t]
         IN  r.owner # NoSocket /\ r.owner \in open =>
               /\ r.pc = "dissect" => r.pkt.verdict = "cookie"
                                      /\ cookies[r.pkt.gen][r.pkt.idx] = r.owner
               /\ r.pc = "select" => r.cookie = r.owner
               /\ r.pc \notin NewFlowPcs

TypeInv == TxType /\ TxPointer /\ TableType /\ RxType
DispatchInv ==
  /\ TypeInv /\ TxAccounted /\ AccountedOncePerStage
  /\ FilledInv /\ SliceInv /\ OwnerInv

(***************************************************************************)
(* The strengthening for one call at a time.                               *)
(***************************************************************************)
\* No two calls of the programs overlap.
AloneInv ==
  /\ \A s, t \in TxTasks : tx[s].pc # "idle" /\ tx[t].pc # "idle" => s = t
  /\ \A s, t \in RxTasks : rx[s].pc # "idle" /\ rx[t].pc # "idle" => s = t
  /\ \A s \in TxTasks, t \in RxTasks : tx[s].pc = "idle" \/ rx[t].pc = "idle"

\* No time stamp is of the future.
ClockInv ==
  /\ \A i \in Elems : elem[i].last_tx_ns <= time
  /\ \A t \in TxTasks : tx[t].pc # "idle" => tx[t].now <= time

\* What a packet is owed by the flow table is unchanged but for the clock.
FlowOwnerInv ==
  /\ \A t \in RxTasks : rx[t].now <= time
  /\ dissector = "FLOW" =>
       \A t \in RxTasks :
         LET r == rx[t]
             found == Lookup(r.pkt.hash)
         IN  r.pc # "idle" /\ r.owner # NoSocket =>
               /\ found \in Elems /\ elem[found].cookie = r.owner
               /\ r.pc \in {"clock", "age", "select_flow"} => r.value = found
               /\ r.pc = "age" => elem[found].last_tx_ns <= r.now
               /\ r.pc \in NewFlowPcs =>
                    r.owner \notin open \/ time - elem[found].last_tx_ns > Timeout

SerialInv == AloneInv /\ ClockInv /\ FlowOwnerInv

(***************************************************************************)
(* The strengthening for a table below its limit, with overlapping calls.  *)
(***************************************************************************)
\* A call works on the entry of its own flow: the element it points to keeps
\* its key, whatever other calls do to it.
OwnFlow(c) ==
  c.pc # "idle" =>
    /\ <<c.so_cookie, c.hash>> \in sent
    /\ c.value \in Elems => elem[c.value].key = c.hash
EntryInv == EntryFromSender /\ \A t \in TxTasks : OwnFlow(tx[t])

(***************************************************************************)
(* Lemmas about the operators.                                             *)
(***************************************************************************)
\* What an element adds to the number of elements of a set.
Has(S, e) == IF e \in S THEN 1 ELSE 0

\* One task of a finite set of tasks changes its place: what a count of those at
\* some places gains or loses.
LEMMA CountChange ==
  ASSUME NEW T, IsFiniteSet(T), NEW A, A \subseteq T, NEW B, B \subseteq T,
         NEW t \in T, A \ {t} = B \ {t}
  PROVE  /\ Cardinality(A) \in Nat /\ Cardinality(B) \in Nat
         /\ Cardinality(B) + Has(A, t) = Cardinality(A) + Has(B, t)
<1> DEFINE C == A \ {t}
<1>1. IsFiniteSet(A) /\ IsFiniteSet(B) /\ IsFiniteSet(C)
  BY FS_Subset
<1>2. /\ Cardinality(A) \in Nat /\ Cardinality(B) \in Nat /\ Cardinality(C) \in Nat
  BY <1>1, FS_CardinalityType
<1>3. Cardinality(C \cup {t}) = Cardinality(C) + 1
  BY <1>1, FS_AddElement
<1>4. A = C \/ A = C \cup {t}
  OBVIOUS
<1>5. B = C \/ B = C \cup {t}
  OBVIOUS
<1>6. CASE t \in A /\ t \in B
  <2>1. A = C \cup {t} /\ B = C \cup {t}
    BY <1>4, <1>5, <1>6
  <2> QED
    BY <1>2, <1>6, <2>1 DEF Has
<1>7. CASE t \in A /\ t \notin B
  <2>1. A = C \cup {t} /\ B = C
    BY <1>4, <1>5, <1>7
  <2> QED
    BY <1>2, <1>3, <1>7, <2>1 DEF Has
<1>8. CASE t \notin A /\ t \in B
  <2>1. B = C \cup {t} /\ A = C
    BY <1>4, <1>5, <1>8
  <2> QED
    BY <1>2, <1>3, <1>8, <2>1 DEF Has
<1>9. CASE t \notin A /\ t \notin B
  <2>1. A = C /\ B = C
    BY <1>4, <1>5, <1>9
  <2> QED
    BY <1>2, <1>9, <2>1 DEF Has
<1> QED
  BY <1>2, <1>6, <1>7, <1>8, <1>9

\* The row of TO_WRK_GEN is a generation of the table.
LEMMA RowType ==
  ASSUME NEW apps \in 0 .. MAX_APPS, NEW app \in Apps, NEW gen \in Nat
  PROVE  Row(apps, app, gen) \in GenIds
<1> DEFINE n == IF apps = 0 THEN 1 ELSE apps
           size == MAX_GENS \div n
<1>1. n \in 1 .. MAX_GENS
  BY SizeAssumption
<1>2. size \in Nat \ {0}
  BY <1>1, SizeAssumption
<1>3. app * size \in Nat
  BY <1>2, SizeAssumption DEF Apps
<1>4. gen % size \in Nat
  BY <1>2
<1>5. TO_WRK_GEN(apps, app, gen) \in Nat
  BY <1>3, <1>4 DEF TO_WRK_GEN
<1> QED
  BY <1>5, SizeAssumption DEF Row, GenIds

\* Two slices of a table with at least one row each have no row in common.
LEMMA Slices ==
  ASSUME NEW size \in Nat \ {0}, NEW a \in Nat, NEW b \in Nat,
         NEW r \in 0 .. size - 1, NEW q \in 0 .. size - 1,
         a * size + r = b * size + q
  PROVE  a = b
<1>1. ASSUME NEW x \in Nat, NEW y \in Nat, x < y,
             NEW u \in 0 .. size - 1, NEW v \in 0 .. size - 1
      PROVE  x * size + u # y * size + v
  <2>1. y = x + 1 + (y - x - 1) /\ y - x - 1 \in Nat
    BY <1>1
  <2>2. y * size = x * size + size + (y - x - 1) * size
    BY <2>1
  <2>3. (y - x - 1) * size \in Nat /\ x * size \in Nat
    BY <2>1
  <2> QED
    BY <2>2, <2>3
<1> QED
  BY <1>1

\* TO_WRK_GEN tells the applications of a group apart.
LEMMA RowsApart ==
  ASSUME NEW a \in 0 .. AppLimit - 1, NEW b \in 0 .. AppLimit - 1,
         NEW g \in Nat, NEW h \in Nat, Row(max_apps, a, g) = Row(max_apps, b, h)
  PROVE  a = b
<1> DEFINE n == IF max_apps = 0 THEN 1 ELSE max_apps
           size == MAX_GENS \div n
<1>1. n \in 1 .. MAX_GENS /\ n = AppLimit
  BY SizeAssumption, DispatchAssumption DEF AppLimit
<1>2. size \in Nat \ {0} /\ n * size <= MAX_GENS
  <2>1. \A k \in Nat \ {0}, m \in Nat : k * (m \div k) <= m /\ m \div k \in Nat
    OBVIOUS
  <2>2. \A k \in Nat \ {0}, m \in Nat : k <= m => m \div k >= 1
    OBVIOUS
  <2>3. n \in Nat \ {0} /\ MAX_GENS \in Nat /\ n <= MAX_GENS
    BY <1>1, SizeAssumption
  <2> HIDE DEF n
  <2> QED
    BY <2>1, <2>2, <2>3
<1>3. ASSUME NEW x \in 0 .. n - 1, NEW y \in Nat
      PROVE  /\ y % size \in 0 .. size - 1
             /\ Row(max_apps, x, y) = x * size + (y % size)
  <2>1. y % size \in 0 .. size - 1
    BY <1>2
  <2>2. x * size + size <= n * size /\ x * size \in Nat
    <3>1. n = x + 1 + (n - x - 1) /\ n - x - 1 \in Nat
      BY <1>1, <1>3
    <3>2. n * size = x * size + size + (n - x - 1) * size
      BY <1>2, <3>1
    <3>3. (n - x - 1) * size \in Nat /\ x * size \in Nat
      BY <1>2, <3>1
    <3> QED
      BY <1>2, <3>2, <3>3
  <2>3. x * size + (y % size) \in 0 .. MAX_GENS - 1
    <3> DEFINE lo == x * size
               hi == n * size
               r == y % size
    <3>1. lo \in Nat /\ lo + size <= hi /\ hi <= MAX_GENS /\ r \in 0 .. size - 1
      BY <1>2, <2>1, <2>2
    <3> HIDE DEF size, n
    <3>2. size \in Nat /\ MAX_GENS \in Nat /\ n \in Nat
      BY <1>1, <1>2, SizeAssumption
    <3>4. hi \in Nat
      BY <3>2
    <3> HIDE DEF lo, hi, r
    <3>3. lo + r \in 0 .. MAX_GENS - 1
      BY <3>1, <3>2, <3>4
    <3> QED
      BY <3>3 DEF lo, r
  <2>4. TO_WRK_GEN(max_apps, x, y) = x * size + (y % size)
    BY DEF TO_WRK_GEN
  <2>5. \A k \in 0 .. MAX_GENS - 1 : k % MAX_GENS = k
    BY SizeAssumption
  <2> HIDE DEF size, n
  <2> QED
    BY <2>1, <2>3, <2>4, <2>5 DEF Row
<1>4. g % size \in 0 .. size - 1 /\ h % size \in 0 .. size - 1
  BY <1>1, <1>3
<1>5. a * size + (g % size) = b * size + (h % size)
  BY <1>1, <1>3
<1>6. a \in Nat /\ b \in Nat
  BY <1>1
<1> HIDE DEF size, n
<1> QED
  BY <1>2, <1>4, <1>5, <1>6, Slices

(***************************************************************************)
(* Types.                                                                  *)
(***************************************************************************)
\* flow_assure finds an element that holds the hash, or none.
LEMMA LookupFinds ==
  ASSUME NEW h \in Hashes
  PROVE  /\ Lookup(h) \in Elems \cup {NoElem}
         /\ Lookup(h) \in Elems => elem[Lookup(h)].key = h
<1>1. CASE \E i \in Elems : elem[i].key = h
  BY <1>1 DEF Lookup
<1>2. CASE ~\E i \in Elems : elem[i].key = h
  BY <1>2, NullAssumption DEF Lookup
<1> QED
  BY <1>1, <1>2

\* The row of a socket's application and generation.
LEMMA SlotType ==
  ASSUME NEW x \in Ours
  PROVE  SlotOf(x) \in GenIds
<1>1. AppOf[x] \in Apps /\ GenOf[x] \in Nat /\ max_apps \in 0 .. MAX_APPS
  BY DispatchAssumption, SizeAssumption DEF Apps
<1> QED
  BY <1>1, RowType DEF SlotOf

\* The senders keep their types, and point at taken elements.
LEMMA SenderTypes ==
  ASSUME TypeInv, Sender
  PROVE  (TxType /\ TxPointer)'
<1> USE DEF TypeInv, TxType, TxPointer
<1>0. PICK t \in TxTasks :
        \/ AssureStep(t)
        \/ \E x \in Sockets, h \in Hashes : Assure(t, x, h)
  BY DEF Sender
<1>a. /\ tx[t] \in Calls
      /\ \A i \in Elems : elem[i] \in Entries
      /\ IdleCall \in Calls /\ IdleCall.value \notin Elems
      /\ IdleCall.pc \notin Pointing
      /\ \A i \in Elems : elem[i].key \in Hashes =>
           elem[i] \in [key : Hashes, last_tx_ns : Times, cookie : Sockets]
  BY NullAssumption DEF Calls, IdleCall, Pointing, Entries, NoEntry
<1>b. tx[t].pc # "idle" =>
        /\ tx[t].hash \in Hashes /\ tx[t].so_cookie \in Sockets
        /\ tx[t].now \in Times /\ tx[t].value \in Elems \cup {NoElem}
        /\ tx[t] \in [pc : Counted \cup {"refresh", "steal"}, hash : Hashes,
             so_cookie : Sockets, value : Elems \cup {NoElem}, now : Times]
  BY <1>a DEF Calls, IdleCall
<1>1. ASSUME NEW x \in Sockets, NEW h \in Hashes, Assure(t, x, h)
      PROVE  (TxType /\ TxPointer)'
  <2> DEFINE c == [pc |-> "clock", hash |-> h, so_cookie |-> x,
                   value |-> Lookup(h), now |-> 0]
  <2>1. /\ time' = time /\ open' = open /\ elem' = elem
        /\ sent' = sent \cup {<<x, h>>}
        /\ tx' = [tx EXCEPT ![t] = c]
        /\ tx_metric' = [tx_metric EXCEPT !["tx_total"] = @ + 1]
    BY <1>1 DEF Assure, METRIC_INC
  <2>2. c \in Calls
    BY LookupFinds, FlowTimeAssumption DEF Calls, Counted, Times
  <2>3. c.value \in Elems => elem[c.value].key \in Hashes
    BY LookupFinds
  <2>4. c.pc \notin Pointing
    BY DEF Pointing
  <2> HIDE DEF c
  <2>5. tx' \in [TxTasks -> Calls] /\ tx_metric' \in [TxMetrics -> Nat]
    BY <2>1, <2>2 DEF TxMetrics
  <2>6. sent' \subseteq Sockets \X Hashes
    BY <2>1
  <2>7. TxPointer'
    BY <2>1, <2>3, <2>4
  <2> QED
    BY <2>1, <2>5, <2>6, <2>7
<1>2. CASE ReadClock(t)
  <2>1. tx[t].value # NoElem => tx[t].value \in Elems
    BY <1>2, <1>b DEF ReadClock
  <2>2. /\ time' = time /\ open' = open /\ elem' = elem /\ sent' = sent
        /\ tx_metric' = tx_metric
    BY <1>2 DEF ReadClock
  <2> DEFINE c == [tx[t] EXCEPT !.now = time,
                     !.pc = IF tx[t].value = NoElem THEN "insert" ELSE "age"]
  <2>3. tx' = [tx EXCEPT ![t] = c]
    BY <1>2 DEF ReadClock
  <2>4. c \in Calls /\ c.value = tx[t].value
    BY <1>2, <1>b DEF ReadClock, Calls, Counted
  <2>5. c.pc \in Pointing => c.value \in Elems
    BY <1>2, <1>b, <2>1 DEF ReadClock, Pointing
  <2> HIDE DEF c
  <2> QED
    BY <2>2, <2>3, <2>4, <2>5
<1>3. CASE Insert(t)
  <2>1. /\ time' = time /\ open' = open /\ sent' = sent
        /\ tx' = [tx EXCEPT ![t] = IdleCall]
        /\ tx_metric' \in [TxMetrics -> Nat]
    BY <1>3 DEF Insert, METRIC_INC, TxMetrics
  <2>2. \/ elem' = elem
        \/ \E i \in Elems :
             elem' = [elem EXCEPT ![i] = [key |-> tx[t].hash,
                        last_tx_ns |-> tx[t].now, cookie |-> tx[t].so_cookie]]
    BY <1>3 DEF Insert, Victims
  <2>3. tx[t].pc # "idle"
    BY <1>3 DEF Insert
  <2>4. /\ elem' \in [Elems -> Entries]
        /\ \A i \in Elems : elem[i].key \in Hashes => elem'[i].key \in Hashes
    BY <1>b, <2>2, <2>3 DEF Entries
  <2> QED
    BY <1>a, <2>1, <2>4
<1>4. CASE CheckAge(t)
  <2> DEFINE c == [tx[t] EXCEPT !.pc =
                     IF Expired(tx[t].now, elem[tx[t].value].last_tx_ns)
                     THEN "takeover" ELSE "owner"]
  <2>1. /\ time' = time /\ open' = open /\ elem' = elem /\ sent' = sent
        /\ tx_metric' = tx_metric /\ tx' = [tx EXCEPT ![t] = c]
        /\ tx[t].pc = "age"
    BY <1>4 DEF CheckAge
  <2>2. c \in Calls /\ c.value = tx[t].value /\ c.value \in Elems
    BY <1>b, <2>1 DEF Calls, Counted, Pointing
  <2> HIDE DEF c
  <2> QED
    BY <2>1, <2>2
<1>5. CASE CheckOwner(t)
  <2> DEFINE c == [tx[t] EXCEPT !.pc = "refresh"]
  <2>1. /\ time' = time /\ open' = open /\ elem' = elem /\ sent' = sent
        /\ tx_metric' \in [TxMetrics -> Nat]
        /\ tx[t].pc = "owner"
        /\ tx' = [tx EXCEPT ![t] = c] \/ tx' = [tx EXCEPT ![t] = IdleCall]
    BY <1>5 DEF CheckOwner, METRIC_INC, TxMetrics
  <2>2. c \in Calls /\ c.value = tx[t].value /\ c.value \in Elems
    BY <1>b, <2>1 DEF Calls, Counted, Pointing
  <2> HIDE DEF c
  <2> QED
    BY <1>a, <2>1, <2>2
<1>6. CASE Refresh(t)
  <2>1. /\ time' = time /\ open' = open /\ sent' = sent
        /\ tx_metric' = tx_metric /\ tx[t].pc = "refresh"
        /\ tx' = [tx EXCEPT ![t] = IdleCall]
        /\ elem' = [elem EXCEPT ![tx[t].value].last_tx_ns = tx[t].now]
    BY <1>6 DEF Refresh
  <2>2. tx[t].value \in Elems /\ elem[tx[t].value].key \in Hashes
    BY <2>1 DEF Pointing
  <2>3. /\ elem' \in [Elems -> Entries]
        /\ \A i \in Elems : elem'[i].key = elem[i].key
    BY <1>a, <1>b, <2>1, <2>2 DEF Entries
  <2> QED
    BY <1>a, <2>1, <2>3
<1>7. CASE TakeOver(t)
  <2> DEFINE c == [tx[t] EXCEPT !.pc = "steal"]
  <2>1. /\ time' = time /\ open' = open /\ sent' = sent
        /\ tx_metric' \in [TxMetrics -> Nat] /\ tx[t].pc = "takeover"
        /\ tx' = [tx EXCEPT ![t] = c]
        /\ elem' = [elem EXCEPT ![tx[t].value].last_tx_ns = time]
    BY <1>7 DEF TakeOver, TxMetrics
  <2>2. tx[t].value \in Elems /\ elem[tx[t].value].key \in Hashes
    BY <2>1 DEF Pointing
  <2>3. /\ elem' \in [Elems -> Entries]
        /\ \A i \in Elems : elem'[i].key = elem[i].key
    BY <1>a, <1>b, <2>1, <2>2 DEF Entries
  <2>4. c \in Calls /\ c.value = tx[t].value
    BY <1>b, <2>1 DEF Calls, Counted
  <2> HIDE DEF c
  <2> QED
    BY <1>a, <2>1, <2>2, <2>3, <2>4
<1>8. CASE Steal(t)
  <2>1. /\ time' = time /\ open' = open /\ sent' = sent
        /\ tx_metric' = tx_metric /\ tx[t].pc = "steal"
        /\ tx' = [tx EXCEPT ![t] = IdleCall]
        /\ elem' = [elem EXCEPT ![tx[t].value].cookie = tx[t].so_cookie]
    BY <1>8 DEF Steal
  <2>2. tx[t].value \in Elems /\ elem[tx[t].value].key \in Hashes
    BY <2>1 DEF Pointing
  <2>3. /\ elem' \in [Elems -> Entries]
        /\ \A i \in Elems : elem'[i].key = elem[i].key
    BY <1>a, <1>b, <2>1, <2>2 DEF Entries
  <2> QED
    BY <1>a, <2>1, <2>3
<1> QED
  BY <1>0, <1>1, <1>2, <1>3, <1>4, <1>5, <1>6, <1>7, <1>8 DEF AssureStep

\* What a packet is owed to is a socket of the group, or nothing.
LEMMA OwnerType ==
  ASSUME TableType, TxType, NEW p \in Packets
  PROVE  /\ Owner(p) \in Ours \cup {NoSocket}
         /\ Owner(p) # NoSocket => Owner(p) \in sockhash
  BY DEF Owner, Selectable, Ours, TableType, TxType

\* A run of the program starts, and goes on, with locals of their types.
LEMMA ReceiverTypes ==
  ASSUME TypeInv, Receiver
  PROVE  RxType'
<1> USE DEF TypeInv, RxType
<1>0. PICK t \in RxTasks : RxStep(t) \/ \E p \in Packets : Receive(t, p)
  BY DEF Receiver
<1>a. /\ rx[t] \in Runs /\ IdleRx \in Runs /\ IdleRx.pc = "idle"
      /\ NoSocket \in Ours \cup Special /\ NewFlow \in Special
      /\ BadCookie \in Special
  BY FlowTimeAssumption, SizeAssumption, DispatchAssumption
     DEF Runs, IdleRx, Special, Times, GenIds, AppLimit, RxPcs
<1>b. \A ms : Count(ms) => rx_metric' \in [RxMetrics -> Nat]
  BY DEF Count
<1>c. ASSUME NEW r \in Runs, rx' = [rx EXCEPT ![t] = r],
             r.pc # "idle" => r.pkt \in Packets,
             rx_metric' = rx_metric \/ \E ms : Count(ms)
      PROVE  RxType'
  BY <1>b, <1>c
<1>1. ASSUME NEW p \in Packets, Receive(t, p)
      PROVE  RxType'
  <2> DEFINE r == [rx[t] EXCEPT !.pc = "dissect", !.pkt = p, !.owner = Owner(p)]
  <2>1. rx' = [rx EXCEPT ![t] = r] /\ Count({"processed"})
    BY <1>1 DEF Receive
  <2>2. r \in Runs /\ r.pkt \in Packets
    BY <1>a, OwnerType DEF Runs, RxPcs
  <2> HIDE DEF r
  <2> QED
    BY <1>c, <2>1, <2>2
<1>2. CASE DissectFlow(t)
  <2> DEFINE r == [rx[t] EXCEPT !.pc = "clock", !.value = Lookup(rx[t].pkt.hash)]
  <2>1. /\ rx' = [rx EXCEPT ![t] = r] \/ rx' = [rx EXCEPT ![t] = IdleRx]
        /\ \E ms : Count(ms)
        /\ rx[t].pkt \in Packets
    BY <1>2 DEF DissectFlow
  <2>2. rx[t].pkt.hash \in Hashes
    BY <2>1, DispatchAssumption DEF PacketType
  <2>3. r \in Runs /\ r.pkt \in Packets
    BY <1>a, <2>1, <2>2, LookupFinds DEF Runs, RxPcs
  <2> HIDE DEF r
  <2> QED
    BY <1>a, <1>c, <2>1, <2>3
<1>3. CASE DissectCbpf(t)
  <2> DEFINE p == rx[t].pkt
             r == [rx[t] EXCEPT !.pc = "select", !.cookie = cbpf_cookie(p),
                                !.app = cbpf_app(p)]
  <2>1. /\ rx' = [rx EXCEPT ![t] = r] \/ rx' = [rx EXCEPT ![t] = IdleRx]
        /\ \E ms : Count(ms)
        /\ p \in Packets
    BY <1>3 DEF DissectCbpf
  <2>2. p.gen \in GenIds /\ p.idx \in Idx /\ p.app \in Nat
    BY <2>1, DispatchAssumption DEF PacketType
  <2>3. cookies[p.gen][p.idx] \in Ours \cup Special
    BY <2>2 DEF TableType, Special
  <2>4. cbpf_cookie(p) \in Ours \cup Special
    <3>1. CASE p.verdict = "cookie"
      BY <2>3, <3>1 DEF cbpf_cookie
    <3>2. CASE p.verdict = "bad_cookie"
      BY <1>a, <3>2 DEF cbpf_cookie
    <3>3. CASE p.verdict # "cookie" /\ p.verdict # "bad_cookie"
      BY <1>a, <3>3 DEF cbpf_cookie
    <3> QED
      BY <3>1, <3>2, <3>3
  <2>5. cbpf_app(p) \in 0 .. AppLimit - 1
    BY <2>2, DispatchAssumption, SizeAssumption DEF cbpf_app, AppLimit
  <2>6. r \in Runs /\ r.pkt \in Packets
    BY <1>a, <2>1, <2>4, <2>5 DEF Runs, RxPcs
  <2> HIDE DEF r
  <2> QED
    BY <1>a, <1>c, <2>1, <2>6
<1>4. CASE DissectNoop(t)
  <2> DEFINE r == [rx[t] EXCEPT !.pc = "new_flow"]
  <2>1. rx' = [rx EXCEPT ![t] = r] /\ (\E ms : Count(ms)) /\ rx[t].pkt \in Packets
    BY <1>4 DEF DissectNoop
  <2>2. r \in Runs /\ r.pkt \in Packets
    BY <1>a, <2>1 DEF Runs, RxPcs
  <2> HIDE DEF r
  <2> QED
    BY <1>c, <2>1, <2>2
<1>5. CASE RxClock(t)
  <2> DEFINE r == [rx[t] EXCEPT !.now = time, !.pc = "age"]
  <2>1. rx' = [rx EXCEPT ![t] = r] /\ rx_metric' = rx_metric /\ rx[t].pkt \in Packets
    BY <1>5 DEF RxClock
  <2>2. r \in Runs /\ r.pkt \in Packets
    BY <1>a, <2>1 DEF Runs, RxPcs, TxType
  <2> HIDE DEF r
  <2> QED
    BY <1>c, <2>1, <2>2
<1>6. CASE RxAge(t)
  <2> DEFINE r == [rx[t] EXCEPT !.pc = "select_flow"]
             q == [rx[t] EXCEPT !.pc = "new_flow"]
  <2>1. /\ rx' = [rx EXCEPT ![t] = r] \/ rx' = [rx EXCEPT ![t] = q]
        /\ rx_metric' = rx_metric \/ \E ms : Count(ms)
        /\ rx[t].pkt \in Packets
    BY <1>6 DEF RxAge
  <2>2. r \in Runs /\ r.pkt \in Packets /\ q \in Runs /\ q.pkt \in Packets
    BY <1>a, <2>1 DEF Runs, RxPcs
  <2> HIDE DEF r, q
  <2> QED
    BY <1>c, <2>1, <2>2
<1>7. CASE SelectFlow(t) \/ SelectCookie(t)
  <2> DEFINE r == [rx[t] EXCEPT !.pc = "new_flow"]
  <2>1. /\ rx' = [rx EXCEPT ![t] = r] \/ rx' = [rx EXCEPT ![t] = IdleRx]
        /\ \E ms : Count(ms)
        /\ rx[t].pkt \in Packets
    BY <1>7 DEF SelectFlow, SelectCookie
  <2>2. r \in Runs /\ r.pkt \in Packets
    BY <1>a, <2>1 DEF Runs, RxPcs
  <2> HIDE DEF r
  <2> QED
    BY <1>a, <1>c, <2>1, <2>2
<1>8. CASE ReadWorkingGen(t)
  <2> DEFINE app == rx[t].app
             row == Row(max_apps, app, working_gen[app % MAX_APPS])
             r == [rx[t] EXCEPT !.pc = "len", !.row = row]
  <2>1. rx' = [rx EXCEPT ![t] = r] /\ (\E ms : Count(ms)) /\ rx[t].pkt \in Packets
    BY <1>8 DEF ReadWorkingGen
  <2>2. app \in Apps /\ app % MAX_APPS \in Apps
    BY <1>a, SizeAssumption, DispatchAssumption DEF Runs, AppLimit, Apps
  <2>3. row \in GenIds
    BY <2>2, DispatchAssumption, RowType DEF TableType
  <2> HIDE DEF row
  <2>4. r \in Runs /\ r.pkt \in Packets
    BY <1>a, <2>1, <2>3 DEF Runs, RxPcs
  <2> HIDE DEF r
  <2> QED
    BY <1>c, <2>1, <2>4
<1>9. CASE ReadMaxIdx(t)
  <2> DEFINE r == [rx[t] EXCEPT !.pc = "slot", !.len = max_idx[rx[t].row]]
  <2>1. rx' = [rx EXCEPT ![t] = r] /\ rx_metric' = rx_metric /\ rx[t].pkt \in Packets
    BY <1>9 DEF ReadMaxIdx
  <2>2. r \in Runs /\ r.pkt \in Packets
    BY <1>a, <2>1 DEF Runs, RxPcs, TableType
  <2> HIDE DEF r
  <2> QED
    BY <1>c, <2>1, <2>2
<1>10. CASE ReadSlot(t)
  <2> DEFINE i == Remainder(rx[t].pkt.mdhash, rx[t].len) % MAX_SOCKETS_IN_GEN
             r == [rx[t] EXCEPT !.pc = "select_new",
                                !.cookie = cookies[rx[t].row][i]]
  <2>1. rx' = [rx EXCEPT ![t] = r] /\ rx_metric' = rx_metric /\ rx[t].pkt \in Packets
    BY <1>10 DEF ReadSlot
  <2>2. rx[t].pkt.mdhash \in Nat /\ rx[t].len \in Nat
    BY <1>a, <2>1, DispatchAssumption DEF PacketType, Runs
  <2>3. Remainder(rx[t].pkt.mdhash, rx[t].len) \in Nat
    BY <2>2 DEF Remainder
  <2>4. i \in Idx
    BY <2>3, SizeAssumption DEF Idx
  <2> HIDE DEF i
  <2>6. rx[t].row \in GenIds
    BY <1>a DEF Runs
  <2>7. cookies[rx[t].row][i] \in Ours \cup Special
    BY <2>4, <2>6 DEF TableType, Special
  <2>5. r \in Runs /\ r.pkt \in Packets
    BY <1>a, <2>1, <2>7 DEF Runs, RxPcs
  <2> HIDE DEF r
  <2> QED
    BY <1>c, <2>1, <2>5
<1>11. CASE SelectNew(t)
  BY <1>11, <1>a, <1>c DEF SelectNew
<1> QED
  BY <1>0, <1>1, <1>2, <1>3, <1>4, <1>5, <1>6, <1>7, <1>8, <1>9, <1>10, <1>11
     DEF RxStep

\* The rest of the system keeps the types of the table.
LEMMA TableTypes ==
  ASSUME TypeInv,
         \/ cb_update_map
         \/ \E x \in Sockets : Close(x)
         \/ \E x \in Ours : StartRegistration(x)
         \/ \E a \in Apps, g \in WorkingGens[dissector] : SetWorkingGen(a, g)
  PROVE  TypeInv'
<1> USE DEF TypeInv, TableType
<1>1. CASE cb_update_map
  <2>0. /\ UNCHANGED <<flowVars, dissector, working_gen, sockhash, rxVars>>
        /\ store.pc \in 1 .. 2 /\ store # NoStore
    BY <1>1 DEF cb_update_map, NoStore
  <2>1. store \in Stores
    BY <2>0
  <2>2. CASE store.pc = 1
    <3>1. /\ cookies' = [cookies EXCEPT ![store.row][store.idx] = store.cookie]
          /\ max_idx' = max_idx /\ store' = [store EXCEPT !.pc = 2]
      BY <1>1, <2>2 DEF cb_update_map, StoreOrder
    <3>2. store' \in Stores /\ cookies' \in [GenIds -> [Idx -> Ours \cup {NoSocket}]]
      BY <2>1, <3>1 DEF Stores
    <3> QED
      BY <2>0, <3>1, <3>2 DEF TxType, TxPointer, RxType, flowVars, rxVars
  <2>3. CASE store.pc = 2
    <3>1. /\ max_idx' = [max_idx EXCEPT ![store.row] = store.len]
          /\ cookies' = cookies /\ store' = NoStore
      BY <1>1, <2>3 DEF cb_update_map, StoreOrder
    <3>2. max_idx' \in [GenIds -> 0 .. MAX_SOCKETS_IN_GEN]
      BY <2>1, <3>1 DEF Stores
    <3> QED
      BY <2>0, <3>1, <3>2 DEF TxType, TxPointer, RxType, flowVars, rxVars
  <2> QED
    BY <2>1, <2>2, <2>3 DEF Stores
<1>2. ASSUME NEW x \in Sockets, Close(x) PROVE TypeInv'
  <2>1. /\ time' = time /\ elem' = elem /\ tx' = tx /\ tx_metric' = tx_metric
        /\ sent' = sent /\ open' = open \ {x} /\ sockhash' = sockhash \ {x}
        /\ UNCHANGED <<dissector, working_gen, max_idx, cookies, store>>
        /\ rx' = rx /\ rx_metric' = rx_metric
    BY <1>2 DEF Close, CloseSocket, rxVars
  <2> QED
    BY <2>1 DEF TxType, TxPointer, RxType
<1>3. ASSUME NEW x \in Ours, StartRegistration(x) PROVE TypeInv'
  <2>1. PICK pos \in Idx, len \in 1 .. MAX_SOCKETS_IN_GEN :
          store' = [pc |-> 1, row |-> SlotOf(x), idx |-> pos, len |-> len,
                    cookie |-> x]
    BY <1>3 DEF StartRegistration
  <2>2. store' \in Stores
    BY <2>1, SlotType DEF Stores
  <2>3. /\ sockhash' \subseteq open
        /\ UNCHANGED <<flowVars, dissector, working_gen, max_idx, cookies, rxVars>>
    BY <1>3 DEF StartRegistration
  <2> QED
    BY <2>2, <2>3 DEF TxType, TxPointer, RxType, flowVars, rxVars
<1>4. ASSUME NEW a \in Apps, NEW g \in WorkingGens[dissector], SetWorkingGen(a, g)
      PROVE  TypeInv'
  <2>1. /\ working_gen' = [working_gen EXCEPT ![a] = g]
        /\ UNCHANGED <<flowVars, dissector, max_idx, cookies, sockhash, store, rxVars>>
    BY <1>4 DEF SetWorkingGen
  <2>2. working_gen' \in [Apps -> Nat]
    BY <2>1, DispatchAssumption
  <2> QED
    BY <2>1, <2>2 DEF TxType, TxPointer, RxType, flowVars, rxVars
<1> QED
  BY <1>1, <1>2, <1>3, <1>4

\* Every step keeps the types.
LEMMA TypeStep ==
  ASSUME TypeInv, [Next]_vars
  PROVE  TypeInv'
<1>1. CASE Sender
  <2>1. UNCHANGED <<dissector, tableVars, rxVars>> /\ open' = open
    BY <1>1 DEF Sender, AssureStep, Assure, ReadClock, Insert, CheckAge,
                CheckOwner, Refresh, TakeOver, Steal
  <2> QED
    BY <1>1, <2>1, SenderTypes DEF TypeInv, TableType, RxType, tableVars, rxVars
<1>2. CASE Receiver
  <2>1. UNCHANGED <<flowVars, dissector, tableVars>>
    BY <1>2 DEF Receiver, Receive, RxStep, DissectFlow, DissectCbpf, DissectNoop,
                RxClock, RxAge, SelectFlow, SelectCookie, ReadWorkingGen,
                ReadMaxIdx, ReadSlot, SelectNew
  <2> QED
    BY <1>2, <2>1, ReceiverTypes
       DEF TypeInv, TableType, TxType, TxPointer, tableVars, flowVars
<1>3. CASE dissector = "FLOW" /\ Tick /\ UNCHANGED <<dissector, tableVars, rxVars>>
  <2>1. time' \in Times
    BY <1>3, FlowTimeAssumption DEF Tick, Times, TypeInv, TxType
  <2> QED
    BY <1>3, <2>1 DEF Tick, TypeInv, TxType, TxPointer, TableType, RxType,
                      tableVars, rxVars
<1>4. CASE UNCHANGED vars
  BY <1>4 DEF TypeInv, TxType, TxPointer, TableType, RxType, vars, flowVars,
              tableVars, rxVars
<1> QED
  BY <1>1, <1>2, <1>3, <1>4, TableTypes DEF Next

(***************************************************************************)
(* Every call and every packet is counted once.                            *)
(***************************************************************************)
\* What a call of flow_assure in progress contributes to the sum.
InTx == Cardinality({t \in TxTasks : tx[t].pc \in Counted})

\* A call moves on: the number of calls that are not counted yet.
LEMMA TxCount ==
  ASSUME TxType, NEW t \in TxTasks, NEW c, tx' = [tx EXCEPT ![t] = c]
  PROVE  /\ InTx \in Nat /\ InTx' \in Nat
         /\ InTx' + Has(Counted, tx[t].pc) = InTx + Has(Counted, c.pc)
<1> DEFINE A == {s \in TxTasks : tx[s].pc \in Counted}
           B == {s \in TxTasks : tx'[s].pc \in Counted}
<1>1. A \ {t} = B \ {t} /\ A \subseteq TxTasks /\ B \subseteq TxTasks
  BY DEF TxType
<1>2. (t \in A <=> tx[t].pc \in Counted) /\ (t \in B <=> c.pc \in Counted)
  BY DEF TxType
<1> HIDE DEF A, B
<1>3. /\ Cardinality(A) \in Nat /\ Cardinality(B) \in Nat
      /\ Cardinality(B) + Has(A, t) = Cardinality(A) + Has(B, t)
  BY <1>1, CountChange, TaskAssumption
<1>4. InTx = Cardinality(A) /\ InTx' = Cardinality(B)
  BY DEF A, B, InTx
<1> QED
  BY <1>2, <1>3, <1>4 DEF Has

\* Every step of a sender adds to one outcome what it takes from the calls in
\* progress.
LEMMA SenderAccounts ==
  ASSUME TypeInv, TxAccounted, Sender
  PROVE  TxAccounted'
<1>0. PICK t \in TxTasks :
        \/ AssureStep(t)
        \/ \E x \in Sockets, h \in Hashes : Assure(t, x, h)
  BY DEF Sender
<1> USE DEF TypeInv
<1>a. TxAccounted <=>
        /\ tx_metric["tx_total"] =
             tx_metric["create_ok"] + tx_metric["create_error"]
             + tx_metric["update_ok"] + tx_metric["update_conflict"] + InTx
        /\ tx_metric["from_expired"] <= tx_metric["create_ok"]
  BY DEF TxAccounted, InTx
<1>b. TxAccounted' <=>
        /\ tx_metric'["tx_total"] =
             tx_metric'["create_ok"] + tx_metric'["create_error"]
             + tx_metric'["update_ok"] + tx_metric'["update_conflict"] + InTx'
        /\ tx_metric'["from_expired"] <= tx_metric'["create_ok"]
  BY DEF TxAccounted, InTx
<1>c. /\ tx_metric \in [TxMetrics -> Nat]
      /\ tx_metric["tx_total"] \in Nat /\ tx_metric["create_ok"] \in Nat
      /\ tx_metric["create_error"] \in Nat /\ tx_metric["update_ok"] \in Nat
      /\ tx_metric["update_conflict"] \in Nat /\ tx_metric["from_expired"] \in Nat
  BY DEF TxType, TxMetrics
<1>d. IdleCall.pc \notin Counted
  BY DEF IdleCall, Counted
<1>e. ASSUME NEW c, tx' = [tx EXCEPT ![t] = c]
      PROVE  /\ InTx \in Nat /\ InTx' \in Nat
             /\ tx[t].pc \notin Counted /\ c.pc \in Counted => InTx' = InTx + 1
             /\ tx[t].pc \in Counted /\ c.pc \in Counted => InTx' = InTx
             /\ tx[t].pc \notin Counted /\ c.pc \notin Counted => InTx' = InTx
             /\ tx[t].pc \in Counted /\ c.pc \notin Counted => InTx' = InTx - 1
  <2>1. /\ InTx \in Nat /\ InTx' \in Nat
        /\ InTx' + Has(Counted, tx[t].pc) = InTx + Has(Counted, c.pc)
    BY <1>e, TxCount
  <2>2. PICK m \in Nat, n \in Nat : m = InTx /\ n = InTx'
    BY <2>1
  <2>3. n + Has(Counted, tx[t].pc) = m + Has(Counted, c.pc)
    BY <2>1, <2>2
  <2>4. /\ tx[t].pc \notin Counted /\ c.pc \in Counted => n = m + 1
        /\ tx[t].pc \in Counted /\ c.pc \in Counted => n = m
        /\ tx[t].pc \notin Counted /\ c.pc \notin Counted => n = m
        /\ tx[t].pc \in Counted /\ c.pc \notin Counted => n = m - 1
    BY <2>3 DEF Has
  <2> QED
    BY <2>2, <2>4
<1>1. ASSUME NEW x \in Sockets, NEW h \in Hashes, Assure(t, x, h)
      PROVE  TxAccounted'
  <2> DEFINE c == [pc |-> "clock", hash |-> h, so_cookie |-> x,
                   value |-> Lookup(h), now |-> 0]
  <2>1. tx' = [tx EXCEPT ![t] = c] /\ c.pc \in Counted
    BY <1>1 DEF Assure, Counted
  <2> HIDE DEF c
  <2>2. tx[t].pc \notin Counted /\ tx_metric' = [tx_metric EXCEPT !["tx_total"] = @ + 1]
    BY <1>1 DEF Assure, METRIC_INC, Counted
  <2>3. InTx \in Nat /\ InTx' = InTx + 1
    BY <2>1, <2>2, <1>e
  <2> QED
    BY <1>a, <1>b, <1>c, <2>2, <2>3 DEF TxMetrics
<1>2. CASE ReadClock(t) \/ CheckAge(t)
  <2>1. PICK c : tx' = [tx EXCEPT ![t] = c] /\ c.pc \in Counted
    <3>1. CASE ReadClock(t)
      <4> DEFINE c == [tx[t] EXCEPT !.now = time,
                        !.pc = IF tx[t].value = NoElem THEN "insert" ELSE "age"]
      <4>1. tx' = [tx EXCEPT ![t] = c]
        BY <3>1 DEF ReadClock
      <4>2. c.pc \in Counted
        BY <3>1 DEF ReadClock, TxType, Calls, IdleCall, Counted
      <4> QED
        BY <4>1, <4>2
    <3>2. CASE CheckAge(t)
      <4> DEFINE c == [tx[t] EXCEPT !.pc =
                         IF Expired(tx[t].now, elem[tx[t].value].last_tx_ns)
                         THEN "takeover" ELSE "owner"]
      <4>1. tx' = [tx EXCEPT ![t] = c]
        BY <3>2 DEF CheckAge
      <4>2. c.pc \in Counted
        BY <3>2 DEF CheckAge, TxType, Calls, IdleCall, Counted
      <4> QED
        BY <4>1, <4>2
    <3> QED
      BY <1>2, <3>1, <3>2
  <2>2. tx[t].pc \in Counted /\ tx_metric' = tx_metric
    BY <1>2 DEF ReadClock, CheckAge, Counted
  <2>3. InTx \in Nat /\ InTx' = InTx
    BY <2>1, <2>2, <1>e
  <2> QED
    BY <1>a, <1>b, <2>2, <2>3
<1>3. CASE Insert(t)
  <2>1. /\ tx' = [tx EXCEPT ![t] = IdleCall] /\ tx[t].pc \in Counted
        /\ \/ tx_metric' = [tx_metric EXCEPT !["create_ok"] = @ + 1]
           \/ tx_metric' = [tx_metric EXCEPT !["create_error"] = @ + 1]
    BY <1>3 DEF Insert, METRIC_INC, Counted
  <2>2. InTx \in Nat /\ InTx' \in Nat /\ InTx' = InTx - 1
    BY <1>d, <2>1, <1>e
  <2>3. CASE tx_metric' = [tx_metric EXCEPT !["create_ok"] = @ + 1]
    BY <1>a, <1>b, <1>c, <2>2, <2>3 DEF TxMetrics
  <2>4. CASE tx_metric' = [tx_metric EXCEPT !["create_error"] = @ + 1]
    BY <1>a, <1>b, <1>c, <2>2, <2>4 DEF TxMetrics
  <2> QED
    BY <2>1, <2>3, <2>4
<1>4. CASE CheckOwner(t)
  <2>1. PICK c : tx' = [tx EXCEPT ![t] = c] /\ c.pc \notin Counted
    BY <1>4, <1>d DEF CheckOwner, Counted, TxType, Calls, IdleCall
  <2>2. /\ tx[t].pc \in Counted
        /\ \/ tx_metric' = [tx_metric EXCEPT !["update_ok"] = @ + 1]
           \/ tx_metric' = [tx_metric EXCEPT !["update_conflict"] = @ + 1]
    BY <1>4 DEF CheckOwner, METRIC_INC, Counted
  <2>3. InTx \in Nat /\ InTx' \in Nat /\ InTx' = InTx - 1
    BY <2>1, <2>2, <1>e
  <2>4. CASE tx_metric' = [tx_metric EXCEPT !["update_ok"] = @ + 1]
    BY <1>a, <1>b, <1>c, <2>3, <2>4 DEF TxMetrics
  <2>5. CASE tx_metric' = [tx_metric EXCEPT !["update_conflict"] = @ + 1]
    BY <1>a, <1>b, <1>c, <2>3, <2>5 DEF TxMetrics
  <2> QED
    BY <2>2, <2>4, <2>5
<1>5. CASE TakeOver(t)
  <2> DEFINE c == [tx[t] EXCEPT !.pc = "steal"]
  <2>1. tx' = [tx EXCEPT ![t] = c] /\ c.pc \notin Counted
    BY <1>5 DEF TakeOver, Counted, TxType, Calls, IdleCall
  <2> HIDE DEF c
  <2>2. /\ tx[t].pc \in Counted
        /\ tx_metric' = [tx_metric EXCEPT !["create_ok"] = @ + 1,
                                          !["from_expired"] = @ + 1]
    BY <1>5 DEF TakeOver, Counted
  <2>3. InTx \in Nat /\ InTx' \in Nat /\ InTx' = InTx - 1
    BY <2>1, <2>2, <1>e
  <2>4. /\ tx_metric'["tx_total"] = tx_metric["tx_total"]
        /\ tx_metric'["create_ok"] = tx_metric["create_ok"] + 1
        /\ tx_metric'["create_error"] = tx_metric["create_error"]
        /\ tx_metric'["update_ok"] = tx_metric["update_ok"]
        /\ tx_metric'["update_conflict"] = tx_metric["update_conflict"]
        /\ tx_metric'["from_expired"] = tx_metric["from_expired"] + 1
    BY <1>c, <2>2 DEF TxMetrics
  <2> QED
    BY <1>a, <1>b, <1>c, <2>3, <2>4
<1>6. CASE Refresh(t) \/ Steal(t)
  <2>1. /\ tx' = [tx EXCEPT ![t] = IdleCall] /\ tx[t].pc \notin Counted
        /\ tx_metric' = tx_metric
    BY <1>6 DEF Refresh, Steal, Counted
  <2>2. InTx \in Nat /\ InTx' = InTx
    BY <1>d, <2>1, <1>e
  <2> QED
    BY <1>a, <1>b, <2>1, <2>2
<1> QED
  BY <1>0, <1>1, <1>2, <1>3, <1>4, <1>5, <1>6 DEF AssureStep

\* A packet moves on: the number of packets in a stage.
LEMMA RxCount ==
  ASSUME RxType, NEW t \in RxTasks, NEW r, rx' = [rx EXCEPT ![t] = r], NEW pcs
  PROVE  /\ In(pcs) \in Nat /\ In(pcs)' \in Nat
         /\ In(pcs)' + Has(pcs, rx[t].pc) = In(pcs) + Has(pcs, r.pc)
<1> DEFINE A == {s \in RxTasks : rx[s].pc \in pcs}
           B == {s \in RxTasks : rx'[s].pc \in pcs}
<1>1. A \ {t} = B \ {t} /\ A \subseteq RxTasks /\ B \subseteq RxTasks
  BY DEF RxType
<1>2. (t \in A <=> rx[t].pc \in pcs) /\ (t \in B <=> r.pc \in pcs)
  BY DEF RxType
<1> HIDE DEF A, B
<1>3. /\ Cardinality(A) \in Nat /\ Cardinality(B) \in Nat
      /\ Cardinality(B) + Has(A, t) = Cardinality(A) + Has(B, t)
  BY <1>1, CountChange, DispatchAssumption
<1>4. In(pcs) = Cardinality(A) /\ In(pcs)' = Cardinality(B)
  BY DEF A, B, In
<1> QED
  BY <1>2, <1>3, <1>4 DEF Has

\* What a step that takes a packet from one place to another must count.
Second == {"clock", "age", "select_flow", "select"}
Balanced(from, to, ms) ==
  /\ Has(ms, "processed") + Has({"dissect"}, from) =
       Has(ms, "too_short") + Has(ms, "cbpf_error")
       + Has(ms, "dissected_ok") + Has({"dissect"}, to)
  /\ Has(ms, "dissected_ok") + Has(Second, from) =
       Has(ms, "flow_ok") + Has(ms, "rg_conflict")
       + Has(ms, "other_error") + Has(ms, "new_unseen") + Has(Second, to)
  /\ Has(ms, "rg_conflict") + Has(ms, "other_error")
       + Has(ms, "new_unseen") + Has({"new_flow"}, from) =
       Has(ms, "new_flow") + Has({"new_flow"}, to)
  /\ Has(ms, "new_flow") + Has(ThirdStage, from) =
       Has(ms, "new_ok") + Has(ms, "new_error") + Has(ThirdStage, to)

\* Balanced steps keep the sums.
LEMMA StageMove ==
  ASSUME TypeInv, AccountedOncePerStage, NEW t \in RxTasks, NEW r,
         rx' = [rx EXCEPT ![t] = r], NEW ms, Count(ms),
         Balanced(rx[t].pc, r.pc, ms)
  PROVE  AccountedOncePerStage'
<1>1. ASSUME NEW m \in RxMetrics
      PROVE  /\ rx_metric'[m] = rx_metric[m] + Has(ms, m)
             /\ rx_metric[m] \in Nat /\ Has(ms, m) \in Nat
  BY DEF Count, TypeInv, RxType, Has
<1>2. ASSUME NEW pcs
      PROVE  /\ In(pcs) \in Nat /\ In(pcs)' \in Nat
             /\ In(pcs)' + Has(pcs, rx[t].pc) = In(pcs) + Has(pcs, r.pc)
             /\ Has(pcs, rx[t].pc) \in Nat /\ Has(pcs, r.pc) \in Nat
  <2>1. Has(pcs, rx[t].pc) \in Nat /\ Has(pcs, r.pc) \in Nat
    BY DEF Has
  <2> QED
    BY <2>1, RxCount DEF TypeInv
<1>3. rx_metric'["processed"] =
        rx_metric'["too_short"] + rx_metric'["cbpf_error"]
        + rx_metric'["dissected_ok"] + In({"dissect"})'
  <2>1. /\ rx_metric'["processed"] = rx_metric["processed"] + Has(ms, "processed")
        /\ rx_metric["processed"] \in Nat /\ Has(ms, "processed") \in Nat
        /\ rx_metric'["too_short"] = rx_metric["too_short"] + Has(ms, "too_short")
        /\ rx_metric["too_short"] \in Nat /\ Has(ms, "too_short") \in Nat
        /\ rx_metric'["cbpf_error"] = rx_metric["cbpf_error"] + Has(ms, "cbpf_error")
        /\ rx_metric["cbpf_error"] \in Nat /\ Has(ms, "cbpf_error") \in Nat
        /\ rx_metric'["dissected_ok"] = rx_metric["dissected_ok"] + Has(ms, "dissected_ok")
        /\ rx_metric["dissected_ok"] \in Nat /\ Has(ms, "dissected_ok") \in Nat
    BY <1>1 DEF RxMetrics
  <2>2. /\ In({"dissect"}) \in Nat /\ In({"dissect"})' \in Nat
        /\ In({"dissect"})' + Has({"dissect"}, rx[t].pc) = In({"dissect"}) + Has({"dissect"}, r.pc)
        /\ Has({"dissect"}, rx[t].pc) \in Nat /\ Has({"dissect"}, r.pc) \in Nat
    BY <1>2
  <2>3. PICK k \in Nat : k = In({"dissect"})'
    BY <2>2
  <2>4. k + Has({"dissect"}, rx[t].pc) = In({"dissect"}) + Has({"dissect"}, r.pc)
    BY <2>2, <2>3
  <2>5. rx_metric["processed"] =
          rx_metric["too_short"] + rx_metric["cbpf_error"]
          + rx_metric["dissected_ok"] + In({"dissect"})
    BY DEF AccountedOncePerStage
  <2>6. Has(ms, "processed") + Has({"dissect"}, rx[t].pc) =
          Has(ms, "too_short") + Has(ms, "cbpf_error")
          + Has(ms, "dissected_ok") + Has({"dissect"}, r.pc)
    BY DEF Balanced
  <2>7. rx_metric'["processed"] = rx_metric'["too_short"] + rx_metric'["cbpf_error"]
          + rx_metric'["dissected_ok"] + k
    <3>1. /\ In({"dissect"}) \in Nat /\ k \in Nat
          /\ Has({"dissect"}, rx[t].pc) \in Nat /\ Has({"dissect"}, r.pc) \in Nat
      BY <2>2, <2>3
    <3> QED
      BY <2>1, <2>4, <2>5, <2>6, <3>1
  <2> QED
    BY <2>3, <2>7
<1>4. rx_metric'["dissected_ok"] =
        rx_metric'["flow_ok"] + rx_metric'["rg_conflict"]
        + rx_metric'["other_error"] + rx_metric'["new_unseen"] + In(Second)'
  BY <1>1, <1>2 DEF AccountedOncePerStage, Balanced, Second, RxMetrics
<1>5. rx_metric'["rg_conflict"] + rx_metric'["other_error"]
        + rx_metric'["new_unseen"] = rx_metric'["new_flow"] + In({"new_flow"})'
  <2>1. /\ rx_metric'["rg_conflict"] = rx_metric["rg_conflict"] + Has(ms, "rg_conflict")
        /\ rx_metric["rg_conflict"] \in Nat /\ Has(ms, "rg_conflict") \in Nat
        /\ rx_metric'["other_error"] = rx_metric["other_error"] + Has(ms, "other_error")
        /\ rx_metric["other_error"] \in Nat /\ Has(ms, "other_error") \in Nat
        /\ rx_metric'["new_unseen"] = rx_metric["new_unseen"] + Has(ms, "new_unseen")
        /\ rx_metric["new_unseen"] \in Nat /\ Has(ms, "new_unseen") \in Nat
        /\ rx_metric'["new_flow"] = rx_metric["new_flow"] + Has(ms, "new_flow")
        /\ rx_metric["new_flow"] \in Nat /\ Has(ms, "new_flow") \in Nat
    BY <1>1 DEF RxMetrics
  <2>2. /\ In({"new_flow"}) \in Nat /\ In({"new_flow"})' \in Nat
        /\ In({"new_flow"})' + Has({"new_flow"}, rx[t].pc) = In({"new_flow"}) + Has({"new_flow"}, r.pc)
        /\ Has({"new_flow"}, rx[t].pc) \in Nat /\ Has({"new_flow"}, r.pc) \in Nat
    BY <1>2
  <2>3. PICK k \in Nat : k = In({"new_flow"})'
    BY <2>2
  <2>4. k + Has({"new_flow"}, rx[t].pc) = In({"new_flow"}) + Has({"new_flow"}, r.pc)
    BY <2>2, <2>3
  <2> QED
    BY <2>1, <2>2, <2>3, <2>4 DEF AccountedOncePerStage, Balanced
<1>6. rx_metric'["new_flow"] =
        rx_metric'["new_ok"] + rx_metric'["new_error"] + In(ThirdStage)'
  <2>1. /\ rx_metric'["new_flow"] = rx_metric["new_flow"] + Has(ms, "new_flow")
        /\ rx_metric["new_flow"] \in Nat /\ Has(ms, "new_flow") \in Nat
        /\ rx_metric'["new_ok"] = rx_metric["new_ok"] + Has(ms, "new_ok")
        /\ rx_metric["new_ok"] \in Nat /\ Has(ms, "new_ok") \in Nat
        /\ rx_metric'["new_error"] = rx_metric["new_error"] + Has(ms, "new_error")
        /\ rx_metric["new_error"] \in Nat /\ Has(ms, "new_error") \in Nat
    BY <1>1 DEF RxMetrics
  <2>2. /\ In(ThirdStage) \in Nat /\ In(ThirdStage)' \in Nat
        /\ In(ThirdStage)' + Has(ThirdStage, rx[t].pc) = In(ThirdStage) + Has(ThirdStage, r.pc)
        /\ Has(ThirdStage, rx[t].pc) \in Nat /\ Has(ThirdStage, r.pc) \in Nat
    BY <1>2
  <2>3. PICK k \in Nat : k = In(ThirdStage)'
    BY <2>2
  <2>4. k + Has(ThirdStage, rx[t].pc) = In(ThirdStage) + Has(ThirdStage, r.pc)
    BY <2>2, <2>3
  <2> QED
    BY <2>1, <2>2, <2>3, <2>4 DEF AccountedOncePerStage, Balanced, ThirdStage
<1> QED
  BY <1>3, <1>4, <1>5, <1>6 DEF AccountedOncePerStage, Second, ThirdStage

\* Every step of the program counts what Balanced asks for.
LEMMA ReceiverAccounts ==
  ASSUME TypeInv, AccountedOncePerStage, Receiver
  PROVE  AccountedOncePerStage'
<1>0. PICK t \in RxTasks : RxStep(t) \/ \E p \in Packets : Receive(t, p)
  BY DEF Receiver
<1>a. rx[t] \in Runs /\ rx \in [RxTasks -> Runs]
  BY DEF TypeInv, RxType
<1>b. rx_metric' = rx_metric => Count({})
  BY DEF Count, TypeInv, RxType
<1>c. ASSUME NEW pc \in RxPcs
      PROVE  [rx[t] EXCEPT !.pc = pc].pc = pc
  BY <1>a DEF Runs
<1>d. IdleRx.pc = "idle"
  BY DEF IdleRx
<1> DEFINE Goes(to, ms) ==
      \E r : rx' = [rx EXCEPT ![t] = r] /\ r.pc = to /\ Count(ms)
<1>e. ASSUME NEW to, NEW ms, Goes(to, ms), Balanced(rx[t].pc, to, ms)
      PROVE  AccountedOncePerStage'
  <2>1. PICK r : rx' = [rx EXCEPT ![t] = r] /\ r.pc = to /\ Count(ms)
    BY <1>e
  <2> QED
    BY <1>e, <2>1, StageMove
<1> HIDE DEF Goes
<1>1. ASSUME NEW p \in Packets, Receive(t, p)
      PROVE  AccountedOncePerStage'
  <2> DEFINE r == [rx[t] EXCEPT !.pc = "dissect", !.pkt = p, !.owner = Owner(p)]
  <2>1. rx[t].pc = "idle" /\ rx' = [rx EXCEPT ![t] = r] /\ Count({"processed"})
    BY <1>1 DEF Receive
  <2>2. r.pc = "dissect"
    BY <1>a DEF Runs
  <2>3. Goes("dissect", {"processed"})
    BY <2>1, <2>2 DEF Goes
  <2>4. Balanced("idle", "dissect", {"processed"})
    BY DEF Balanced, Has, Second, ThirdStage
  <2> QED
    BY <1>e, <2>1, <2>3, <2>4
<1>2. CASE DissectFlow(t)
  <2>1. \/ Goes("idle", {"too_short"}) \/ Goes("clock", {"dissected_ok"})
    <3> DEFINE r == [rx[t] EXCEPT !.pc = "clock", !.value = Lookup(rx[t].pkt.hash)]
    <3>1. \/ rx' = [rx EXCEPT ![t] = IdleRx] /\ Count({"too_short"})
          \/ rx' = [rx EXCEPT ![t] = r] /\ Count({"dissected_ok"})
      BY <1>2 DEF DissectFlow
    <3>2. r.pc = "clock"
      BY <1>a DEF Runs
    <3> QED
      BY <1>d, <3>1, <3>2 DEF Goes
  <2>2. /\ Balanced("dissect", "idle", {"too_short"})
        /\ Balanced("dissect", "clock", {"dissected_ok"})
    BY DEF Balanced, Has, Second, ThirdStage
  <2>3. rx[t].pc = "dissect"
    BY <1>2 DEF DissectFlow
  <2> QED
    BY <1>e, <2>1, <2>2, <2>3
<1>3. CASE DissectCbpf(t)
  <2>1. \/ Goes("idle", {"too_short"}) \/ Goes("idle", {"cbpf_error"})
        \/ Goes("select", {"dissected_ok"})
    <3> DEFINE r == [rx[t] EXCEPT !.pc = "select",
                                  !.cookie = cbpf_cookie(rx[t].pkt),
                                  !.app = cbpf_app(rx[t].pkt)]
    <3>1. \/ rx' = [rx EXCEPT ![t] = IdleRx] /\ Count({"too_short"})
          \/ rx' = [rx EXCEPT ![t] = IdleRx] /\ Count({"cbpf_error"})
          \/ rx' = [rx EXCEPT ![t] = r] /\ Count({"dissected_ok"})
      BY <1>3 DEF DissectCbpf
    <3>2. r.pc = "select"
      BY <1>a DEF Runs
    <3> QED
      BY <1>d, <3>1, <3>2 DEF Goes
  <2>2. /\ Balanced("dissect", "idle", {"too_short"})
        /\ Balanced("dissect", "idle", {"cbpf_error"})
        /\ Balanced("dissect", "select", {"dissected_ok"})
    BY DEF Balanced, Has, Second, ThirdStage
  <2>3. rx[t].pc = "dissect"
    BY <1>3 DEF DissectCbpf
  <2> QED
    BY <1>e, <2>1, <2>2, <2>3
<1>4. CASE DissectNoop(t)
  <2>1. Goes("new_flow", {"dissected_ok", "new_unseen"})
    BY <1>4, <1>c DEF DissectNoop, Goes, RxPcs
  <2>2. Balanced("dissect", "new_flow", {"dissected_ok", "new_unseen"})
    BY DEF Balanced, Has, Second, ThirdStage
  <2>3. rx[t].pc = "dissect"
    BY <1>4 DEF DissectNoop
  <2> QED
    BY <1>e, <2>1, <2>2, <2>3
<1>5. CASE RxClock(t)
  <2>1. Goes("age", {})
    <3> DEFINE r == [rx[t] EXCEPT !.now = time, !.pc = "age"]
    <3>1. rx' = [rx EXCEPT ![t] = r] /\ Count({})
      BY <1>5, <1>b DEF RxClock
    <3>2. r.pc = "age"
      BY <1>a DEF Runs
    <3> QED
      BY <3>1, <3>2 DEF Goes
  <2>2. Balanced("clock", "age", {})
    BY DEF Balanced, Has, Second, ThirdStage
  <2>3. rx[t].pc = "clock"
    BY <1>5 DEF RxClock
  <2> QED
    BY <1>e, <2>1, <2>2, <2>3
<1>6. CASE RxAge(t)
  <2>1. \/ Goes("select_flow", {})
        \/ Goes("new_flow", {"new_unseen"} \cup {"had_expired"})
        \/ Goes("new_flow", {"new_unseen"} \cup {})
    BY <1>6, <1>b, <1>c DEF RxAge, Goes, RxPcs
  <2>2. /\ Balanced("age", "select_flow", {})
        /\ Balanced("age", "new_flow", {"new_unseen"} \cup {"had_expired"})
        /\ Balanced("age", "new_flow", {"new_unseen"} \cup {})
    BY DEF Balanced, Has, Second, ThirdStage
  <2>3. rx[t].pc = "age"
    BY <1>6 DEF RxAge
  <2> QED
    BY <1>e, <2>1, <2>2, <2>3
<1>7. CASE SelectFlow(t) \/ SelectCookie(t)
  <2>1. \/ Goes("idle", {"flow_ok"})
        \/ Goes("new_flow", {"rg_conflict"})
        \/ Goes("new_flow", {"other_error"})
        \/ Goes("new_flow", {"new_unseen"} \cup {"bad_cookie"})
        \/ Goes("new_flow", {"new_unseen"} \cup {})
    <3>1. \/ rx' = [rx EXCEPT ![t] = IdleRx] /\ Count({"flow_ok"})
          \/ /\ rx' = [rx EXCEPT ![t].pc = "new_flow"]
             /\ \/ Count({"rg_conflict"}) \/ Count({"other_error"})
                \/ Count({"new_unseen"} \cup {"bad_cookie"})
                \/ Count({"new_unseen"} \cup {})
      BY <1>7 DEF SelectFlow, SelectCookie, FailedSelect, SpecialSelect
    <3> QED
      BY <1>c, <1>d, <3>1 DEF Goes, RxPcs
  <2>2. \A from \in {"select_flow", "select"} :
          /\ Balanced(from, "idle", {"flow_ok"})
          /\ Balanced(from, "new_flow", {"rg_conflict"})
          /\ Balanced(from, "new_flow", {"other_error"})
          /\ Balanced(from, "new_flow", {"new_unseen"} \cup {"bad_cookie"})
          /\ Balanced(from, "new_flow", {"new_unseen"} \cup {})
    BY DEF Balanced, Has, Second, ThirdStage
  <2>3. rx[t].pc \in {"select_flow", "select"}
    BY <1>7 DEF SelectFlow, SelectCookie
  <2> QED
    BY <1>e, <2>1, <2>2, <2>3
<1>8. CASE ReadWorkingGen(t)
  <2>1. Goes("len", {"new_flow"})
    <3> DEFINE row == Row(max_apps, rx[t].app, working_gen[rx[t].app % MAX_APPS])
               r == [rx[t] EXCEPT !.pc = "len", !.row = row]
    <3>1. rx' = [rx EXCEPT ![t] = r] /\ Count({"new_flow"})
      BY <1>8 DEF ReadWorkingGen
    <3> HIDE DEF row
    <3>2. r.pc = "len"
      BY <1>a DEF Runs
    <3> QED
      BY <3>1, <3>2 DEF Goes
  <2>2. Balanced("new_flow", "len", {"new_flow"})
    BY DEF Balanced, Has, Second, ThirdStage
  <2>3. rx[t].pc = "new_flow"
    BY <1>8 DEF ReadWorkingGen
  <2> QED
    BY <1>e, <2>1, <2>2, <2>3
<1>9. CASE ReadMaxIdx(t)
  <2>1. Goes("slot", {})
    <3> DEFINE r == [rx[t] EXCEPT !.pc = "slot", !.len = max_idx[rx[t].row]]
    <3>1. rx' = [rx EXCEPT ![t] = r] /\ Count({})
      BY <1>9, <1>b DEF ReadMaxIdx
    <3>2. r.pc = "slot"
      BY <1>a DEF Runs
    <3> QED
      BY <3>1, <3>2 DEF Goes
  <2>2. Balanced("len", "slot", {})
    BY DEF Balanced, Has, Second, ThirdStage
  <2>3. rx[t].pc = "len"
    BY <1>9 DEF ReadMaxIdx
  <2> QED
    BY <1>e, <2>1, <2>2, <2>3
<1>10. CASE ReadSlot(t)
  <2>1. Goes("select_new", {})
    <3> DEFINE i == Remainder(rx[t].pkt.mdhash, rx[t].len) % MAX_SOCKETS_IN_GEN
               r == [rx[t] EXCEPT !.pc = "select_new",
                                  !.cookie = cookies[rx[t].row][i]]
    <3>1. rx' = [rx EXCEPT ![t] = r] /\ Count({})
      BY <1>10, <1>b DEF ReadSlot
    <3> HIDE DEF i
    <3>2. r.pc = "select_new"
      BY <1>a DEF Runs
    <3> QED
      BY <3>1, <3>2 DEF Goes
  <2>2. Balanced("slot", "select_new", {})
    BY DEF Balanced, Has, Second, ThirdStage
  <2>3. rx[t].pc = "slot"
    BY <1>10 DEF ReadSlot
  <2> QED
    BY <1>e, <2>1, <2>2, <2>3
<1>11. CASE SelectNew(t)
  <2>1. Goes("idle", {"new_ok"}) \/ Goes("idle", {"new_error"})
    BY <1>11, <1>d DEF SelectNew, Goes
  <2>2. Balanced("select_new", "idle", {"new_ok"})
        /\ Balanced("select_new", "idle", {"new_error"})
    BY DEF Balanced, Has, Second, ThirdStage
  <2>3. rx[t].pc = "select_new"
    BY <1>11 DEF SelectNew
  <2> QED
    BY <1>e, <2>1, <2>2, <2>3
<1> QED
  BY <1>0, <1>1, <1>2, <1>3, <1>4, <1>5, <1>6, <1>7, <1>8, <1>9, <1>10, <1>11
     DEF RxStep

\* Every step keeps the two sums.
LEMMA AccountStep ==
  ASSUME TypeInv, TxAccounted, AccountedOncePerStage, [Next]_vars
  PROVE  TxAccounted' /\ AccountedOncePerStage'
<1>a. UNCHANGED <<tx, tx_metric>> => TxAccounted'
  BY DEF TxAccounted
<1>b. UNCHANGED rxVars => AccountedOncePerStage'
  BY DEF AccountedOncePerStage, In, rxVars
<1>1. CASE Sender
  <2>1. UNCHANGED rxVars
    BY <1>1 DEF Sender
  <2> QED
    BY <1>1, <1>b, <2>1, SenderAccounts
<1>2. CASE Receiver
  <2>1. UNCHANGED <<tx, tx_metric>>
    BY <1>2 DEF Receiver, Receive, RxStep, DissectFlow, DissectCbpf, DissectNoop,
                RxClock, RxAge, SelectFlow, SelectCookie, ReadWorkingGen,
                ReadMaxIdx, ReadSlot, SelectNew, flowVars
  <2> QED
    BY <1>2, <1>a, <2>1, ReceiverAccounts
<1>3. CASE ~Sender /\ ~Receiver
  <2>1. UNCHANGED <<tx, tx_metric, rxVars>>
    BY <1>3 DEF Next, vars, flowVars, tableVars, cb_update_map, Tick, Close,
                CloseSocket, StartRegistration, SetWorkingGen
  <2> QED
    BY <1>a, <1>b, <2>1
<1> QED
  BY <1>1, <1>2, <1>3

(***************************************************************************)
(* What a step of the program does to the locals of its run.               *)
(***************************************************************************)
\* The packet, what it is owed and its application.
Same(r, q) == r.pkt = q.pkt /\ r.owner = q.owner
Picked(q) == Remainder(q.pkt.mdhash, q.len) % MAX_SOCKETS_IN_GEN
Fresh(q) == q.value # NoElem /\ ~Expired(q.now, elem[q.value].last_tx_ns)

\* The first stage, from q to r.
Dissected(q, r) ==
  \/ /\ q.pc = "idle" /\ r.pc = "dissect" /\ r.pkt \in Packets
     /\ r.owner = Owner(r.pkt) /\ r.now = q.now /\ (Busy => Overlap)
  \/ /\ q.pc = "dissect" /\ r.pc = "clock" /\ dissector = "FLOW" /\ Same(r, q)
     /\ r.value = Lookup(q.pkt.hash) /\ r.now = q.now
  \/ /\ q.pc = "dissect" /\ r.pc = "select" /\ dissector = "CBPF" /\ Same(r, q)
     /\ r.cookie = cbpf_cookie(q.pkt) /\ r.now = q.now
  \/ /\ q.pc = "dissect" /\ r.pc = "new_flow" /\ dissector = "NOOP" /\ Same(r, q)
     /\ r.now = q.now

\* The second stage.
Matched(q, r) ==
  /\ Same(r, q) /\ r.value = q.value
  /\ \/ q.pc = "clock" /\ r.pc = "age" /\ r.now = time
     \/ q.pc = "age" /\ r.pc = "select_flow" /\ Fresh(q) /\ r.now = q.now
     \/ q.pc = "age" /\ r.pc = "new_flow" /\ ~Fresh(q) /\ r.now = q.now
     \/ /\ q.pc = "select_flow" /\ r.pc = "new_flow" /\ r.now = q.now
        /\ ~Selectable(elem[q.value].cookie)
     \/ /\ q.pc = "select" /\ r.pc = "new_flow" /\ r.now = q.now
        /\ ~Selectable(q.cookie)

\* The third stage.
Chosen(q, r) ==
  /\ Same(r, q) /\ r.app = q.app /\ r.now = q.now
  /\ \/ /\ q.pc = "new_flow" /\ r.pc = "len"
        /\ r.row = Row(max_apps, q.app, working_gen[q.app % MAX_APPS])
     \/ q.pc = "len" /\ r.pc = "slot" /\ r.row = q.row /\ r.len = max_idx[q.row]
     \/ /\ q.pc = "slot" /\ r.pc = "select_new" /\ r.row = q.row /\ r.len = q.len
        /\ r.cookie = cookies[q.row][Picked(q)]

\* A step of the receiver is one of these, or the end of a run.
LEMMA RunStep ==
  ASSUME TypeInv, Receiver
  PROVE  \E t \in RxTasks, r \in Runs :
           /\ rx' = [rx EXCEPT ![t] = r]
           /\ \/ r = IdleRx
              \/ Dissected(rx[t], r) \/ Matched(rx[t], r) \/ Chosen(rx[t], r)
<1>0. PICK t \in RxTasks :
        RxStep(t) \/ ((Busy => Overlap) /\ \E p \in Packets : Receive(t, p))
  BY DEF Receiver
<1>a. rx[t] \in Runs /\ rx \in [RxTasks -> Runs] /\ rx' \in [RxTasks -> Runs]
  BY ReceiverTypes DEF TypeInv, RxType
<1>b. ASSUME NEW r, rx' = [rx EXCEPT ![t] = r],
             \/ r = IdleRx
             \/ Dissected(rx[t], r) \/ Matched(rx[t], r) \/ Chosen(rx[t], r)
      PROVE  \E s \in RxTasks, q \in Runs :
               /\ rx' = [rx EXCEPT ![s] = q]
               /\ \/ q = IdleRx
                  \/ Dissected(rx[s], q) \/ Matched(rx[s], q) \/ Chosen(rx[s], q)
  <2>1. r = rx'[t] /\ r \in Runs
    BY <1>a, <1>b
  <2> QED
    BY <1>b, <2>1
<1> USE DEF Same
<1>1. ASSUME NEW p \in Packets, Receive(t, p), Busy => Overlap
      PROVE  \E r : /\ rx' = [rx EXCEPT ![t] = r]
                    /\ Dissected(rx[t], r)
  <2> DEFINE r == [rx[t] EXCEPT !.pc = "dissect", !.pkt = p, !.owner = Owner(p)]
  <2>1. rx[t].pc = "idle" /\ rx' = [rx EXCEPT ![t] = r]
    BY <1>1 DEF Receive
  <2>2. r.pc = "dissect" /\ r.pkt = p /\ r.owner = Owner(p) /\ r.now = rx[t].now
    BY <1>a DEF Runs
  <2> HIDE DEF r
  <2> QED
    BY <1>1, <2>1, <2>2 DEF Dissected
<1>2. CASE DissectFlow(t)
  <2> DEFINE r == [rx[t] EXCEPT !.pc = "clock", !.value = Lookup(rx[t].pkt.hash)]
  <2>1. /\ rx' = [rx EXCEPT ![t] = r] \/ rx' = [rx EXCEPT ![t] = IdleRx]
        /\ rx[t].pc = "dissect" /\ dissector = "FLOW"
    BY <1>2 DEF DissectFlow
  <2>2. /\ r.pc = "clock" /\ Same(r, rx[t]) /\ r.value = Lookup(rx[t].pkt.hash)
        /\ r.now = rx[t].now
    BY <1>a DEF Runs
  <2> HIDE DEF r
  <2>3. Dissected(rx[t], r)
    BY <2>1, <2>2 DEF Dissected
  <2> QED
    BY <1>b, <2>1, <2>3
<1>3. CASE DissectCbpf(t)
  <2> DEFINE r == [rx[t] EXCEPT !.pc = "select", !.cookie = cbpf_cookie(rx[t].pkt),
                                !.app = cbpf_app(rx[t].pkt)]
  <2>1. /\ rx' = [rx EXCEPT ![t] = r] \/ rx' = [rx EXCEPT ![t] = IdleRx]
        /\ rx[t].pc = "dissect" /\ dissector = "CBPF"
    BY <1>3 DEF DissectCbpf
  <2>2. /\ r.pc = "select" /\ Same(r, rx[t]) /\ r.cookie = cbpf_cookie(rx[t].pkt)
        /\ r.now = rx[t].now
    BY <1>a DEF Runs
  <2> HIDE DEF r
  <2>3. Dissected(rx[t], r)
    BY <2>1, <2>2 DEF Dissected
  <2> QED
    BY <1>b, <2>1, <2>3
<1>4. CASE DissectNoop(t)
  <2> DEFINE r == [rx[t] EXCEPT !.pc = "new_flow"]
  <2>1. rx' = [rx EXCEPT ![t] = r] /\ rx[t].pc = "dissect" /\ dissector = "NOOP"
    BY <1>4 DEF DissectNoop
  <2>2. r.pc = "new_flow" /\ Same(r, rx[t]) /\ r.now = rx[t].now
    BY <1>a DEF Runs
  <2> HIDE DEF r
  <2>3. Dissected(rx[t], r)
    BY <2>1, <2>2 DEF Dissected
  <2> QED
    BY <1>b, <2>1, <2>3
<1>5. CASE RxClock(t)
  <2> DEFINE r == [rx[t] EXCEPT !.now = time, !.pc = "age"]
  <2>1. rx' = [rx EXCEPT ![t] = r] /\ rx[t].pc = "clock"
    BY <1>5 DEF RxClock
  <2>2. r.pc = "age" /\ Same(r, rx[t]) /\ r.value = rx[t].value /\ r.now = time
    BY <1>a DEF Runs
  <2> HIDE DEF r
  <2>3. Matched(rx[t], r)
    BY <2>1, <2>2 DEF Matched
  <2> QED
    BY <1>b, <2>1, <2>3
<1>6. CASE RxAge(t)
  <2> DEFINE r(pc) == [rx[t] EXCEPT !.pc = pc]
  <2>1. /\ rx[t].pc = "age"
        /\ \/ rx' = [rx EXCEPT ![t] = r("select_flow")] /\ Fresh(rx[t])
           \/ rx' = [rx EXCEPT ![t] = r("new_flow")] /\ ~Fresh(rx[t])
    BY <1>6 DEF RxAge, Fresh
  <2>2. \A pc \in {"select_flow", "new_flow"} :
          /\ r(pc).pc = pc /\ Same(r(pc), rx[t])
          /\ r(pc).value = rx[t].value /\ r(pc).now = rx[t].now
    BY <1>a DEF Runs
  <2> HIDE DEF r
  <2>3. CASE rx' = [rx EXCEPT ![t] = r("select_flow")] /\ Fresh(rx[t])
    <3>1. Matched(rx[t], r("select_flow"))
      BY <2>1, <2>2, <2>3 DEF Matched
    <3> QED
      BY <1>b, <2>3, <3>1
  <2>4. CASE rx' = [rx EXCEPT ![t] = r("new_flow")] /\ ~Fresh(rx[t])
    <3>1. Matched(rx[t], r("new_flow"))
      BY <2>1, <2>2, <2>4 DEF Matched
    <3> QED
      BY <1>b, <2>4, <3>1
  <2> QED
    BY <2>1, <2>3, <2>4
<1>7. CASE SelectFlow(t) \/ SelectCookie(t)
  <2> DEFINE r == [rx[t] EXCEPT !.pc = "new_flow"]
  <2>1. \/ rx' = [rx EXCEPT ![t] = IdleRx]
        \/ /\ rx' = [rx EXCEPT ![t] = r]
           /\ \/ rx[t].pc = "select_flow" /\ ~Selectable(elem[rx[t].value].cookie)
              \/ rx[t].pc = "select" /\ ~Selectable(rx[t].cookie)
    BY <1>7 DEF SelectFlow, SelectCookie
  <2>2. /\ r.pc = "new_flow" /\ Same(r, rx[t]) /\ r.value = rx[t].value
        /\ r.now = rx[t].now
    BY <1>a DEF Runs
  <2> HIDE DEF r
  <2>3. rx' = [rx EXCEPT ![t] = IdleRx] \/ Matched(rx[t], r)
    BY <2>1, <2>2 DEF Matched
  <2> QED
    BY <1>b, <2>1, <2>3
<1>8. CASE ReadWorkingGen(t)
  <2> DEFINE row == Row(max_apps, rx[t].app, working_gen[rx[t].app % MAX_APPS])
             r == [rx[t] EXCEPT !.pc = "len", !.row = row]
  <2>1. rx' = [rx EXCEPT ![t] = r] /\ rx[t].pc = "new_flow"
    BY <1>8 DEF ReadWorkingGen
  <2> HIDE DEF row
  <2>2. /\ r.pc = "len" /\ Same(r, rx[t]) /\ r.app = rx[t].app
        /\ r.now = rx[t].now /\ r.row = row
    BY <1>a DEF Runs
  <2> HIDE DEF r
  <2>3. Chosen(rx[t], r)
    BY <2>1, <2>2 DEF Chosen, row
  <2> QED
    BY <1>b, <2>1, <2>3
<1>9. CASE ReadMaxIdx(t)
  <2> DEFINE r == [rx[t] EXCEPT !.pc = "slot", !.len = max_idx[rx[t].row]]
  <2>1. rx' = [rx EXCEPT ![t] = r] /\ rx[t].pc = "len"
    BY <1>9 DEF ReadMaxIdx
  <2>2. /\ r.pc = "slot" /\ Same(r, rx[t]) /\ r.app = rx[t].app
        /\ r.now = rx[t].now /\ r.row = rx[t].row /\ r.len = max_idx[rx[t].row]
    BY <1>a DEF Runs
  <2> HIDE DEF r
  <2>3. Chosen(rx[t], r)
    BY <2>1, <2>2 DEF Chosen
  <2> QED
    BY <1>b, <2>1, <2>3
<1>10. CASE ReadSlot(t)
  <2> DEFINE i == Picked(rx[t])
             r == [rx[t] EXCEPT !.pc = "select_new",
                                !.cookie = cookies[rx[t].row][i]]
  <2>1. rx' = [rx EXCEPT ![t] = r] /\ rx[t].pc = "slot"
    BY <1>10 DEF ReadSlot, Picked
  <2> HIDE DEF i
  <2>2. /\ r.pc = "select_new" /\ Same(r, rx[t]) /\ r.app = rx[t].app
        /\ r.now = rx[t].now /\ r.row = rx[t].row /\ r.len = rx[t].len
        /\ r.cookie = cookies[rx[t].row][i]
    BY <1>a DEF Runs
  <2> HIDE DEF r
  <2>3. Chosen(rx[t], r)
    BY <2>1, <2>2 DEF Chosen, i
  <2> QED
    BY <1>b, <2>1, <2>3
<1>11. CASE SelectNew(t)
  BY <1>11, <1>b DEF SelectNew
<1> QED
  BY <1>0, <1>1, <1>2, <1>3, <1>4, <1>5, <1>6, <1>7, <1>8, <1>9, <1>10, <1>11, <1>b
     DEF RxStep

\* The program changes nothing but its locals and counters.
LEMMA ReceiverReads ==
  ASSUME Receiver
  PROVE  UNCHANGED <<flowVars, dissector, tableVars>>
  BY DEF Receiver, Receive, RxStep, DissectFlow, DissectCbpf, DissectNoop,
         RxClock, RxAge, SelectFlow, SelectCookie, ReadWorkingGen,
         ReadMaxIdx, ReadSlot, SelectNew

(***************************************************************************)
(* Slots.                                                                  *)
(***************************************************************************)
\* The two stores of udpgrm_cb_update_map: the slot, then the length.
LEMMA StoreStep ==
  ASSUME TypeInv, cb_update_map
  PROVE  /\ UNCHANGED <<flowVars, dissector, working_gen, sockhash, rxVars>>
         /\ store \in Stores /\ store # NoStore
         /\ \/ /\ store.pc = 1
               /\ cookies' = [cookies EXCEPT ![store.row][store.idx] = store.cookie]
               /\ max_idx' = max_idx /\ store' = [store EXCEPT !.pc = 2]
            \/ /\ store.pc = 2
               /\ max_idx' = [max_idx EXCEPT ![store.row] = store.len]
               /\ cookies' = cookies /\ store' = NoStore
<1>1. /\ UNCHANGED <<flowVars, dissector, working_gen, sockhash, rxVars>>
      /\ store.pc \in 1 .. 2 /\ store # NoStore
  BY DEF cb_update_map, NoStore
<1>2. store \in Stores
  BY <1>1 DEF TypeInv, TableType
<1>3. store.pc = 1 \/ store.pc = 2
  BY <1>2 DEF Stores
<1> QED
  BY <1>1, <1>2, <1>3 DEF cb_update_map, StoreOrder

\* The daemon's choice of a slot and of a length.
LEMMA RegistrationStep ==
  ASSUME TypeInv, NEW x \in Ours, StartRegistration(x)
  PROVE  /\ UNCHANGED <<flowVars, dissector, working_gen, max_idx, cookies, rxVars>>
         /\ sockhash' = sockhash \cup {x} /\ x \in open \ sockhash
         /\ store = NoStore
         /\ \E pos \in Idx, len \in 1 .. MAX_SOCKETS_IN_GEN :
              /\ cookies[SlotOf(x)][pos] \notin sockhash
              /\ \A i \in 0 .. pos - 1 : cookies[SlotOf(x)][i] \in sockhash
              /\ len - 1 = pos \/ cookies[SlotOf(x)][len - 1] \in sockhash
              /\ pos < len
              /\ store' = [pc |-> 1, row |-> SlotOf(x), idx |-> pos,
                           len |-> len, cookie |-> x]
  BY DEF StartRegistration

\* Nothing else touches the slots.
LEMMA QuietStep ==
  ASSUME [Next]_vars, ~Receiver, ~cb_update_map,
         ~\E x \in Ours : StartRegistration(x)
  PROVE  /\ UNCHANGED <<dissector, max_idx, cookies, store, rxVars>>
         /\ \/ open' = open /\ sockhash' = sockhash
            \/ \E x \in Sockets : /\ open' = open \ {x} /\ sockhash' = sockhash \ {x}
                                  /\ x # store.cookie
<1>1. CASE Sender
  <2>1. open' = open
    BY <1>1 DEF Sender, AssureStep, Assure, ReadClock, Insert, CheckAge,
                CheckOwner, Refresh, TakeOver, Steal
  <2> QED
    BY <1>1, <2>1 DEF Sender, tableVars
<1>2. CASE dissector = "FLOW" /\ Tick /\ UNCHANGED <<dissector, tableVars, rxVars>>
  BY <1>2 DEF Tick, tableVars
<1>3. ASSUME NEW x \in Sockets, Close(x)
      PROVE  /\ UNCHANGED <<dissector, max_idx, cookies, store, rxVars>>
             /\ open' = open \ {x} /\ sockhash' = sockhash \ {x} /\ x # store.cookie
  BY <1>3 DEF Close, CloseSocket
<1>4. ASSUME NEW a \in Apps, NEW g \in WorkingGens[dissector], SetWorkingGen(a, g)
      PROVE  /\ UNCHANGED <<dissector, max_idx, cookies, store, rxVars>>
             /\ open' = open /\ sockhash' = sockhash
  BY <1>4 DEF SetWorkingGen, flowVars
<1>5. CASE UNCHANGED vars
  BY <1>5 DEF vars, flowVars, tableVars
<1> QED
  BY <1>1, <1>2, <1>3, <1>4, <1>5 DEF Next

\* The slot that a run picks is below the length it has read.
LEMMA PickedBelow ==
  ASSUME NEW q \in Runs, q.pkt \in Packets
  PROVE  Picked(q) \in Idx /\ (q.len > 0 => Picked(q) < q.len)
<1>1. /\ q.pkt.mdhash \in Nat /\ q.len \in Nat /\ q.len <= MAX_SOCKETS_IN_GEN
      /\ MAX_SOCKETS_IN_GEN \in Nat \ {0}
  BY DispatchAssumption, SizeAssumption DEF PacketType, Runs
<1> DEFINE m == Remainder(q.pkt.mdhash, q.len)
<1>2. m \in Nat
  BY <1>1 DEF Remainder
<1>3. q.len > 0 => m < q.len
  BY <1>1 DEF Remainder
<1> HIDE DEF m
<1>4. m % MAX_SOCKETS_IN_GEN \in 0 .. MAX_SOCKETS_IN_GEN - 1
  BY <1>1, <1>2
<1>5. m < MAX_SOCKETS_IN_GEN => m % MAX_SOCKETS_IN_GEN = m
  BY <1>1, <1>2
<1>6. Picked(q) = m % MAX_SOCKETS_IN_GEN
  BY DEF Picked, m
<1> QED
  BY <1>1, <1>2, <1>3, <1>4, <1>5, <1>6 DEF Idx

\* The program reads the length before the slot, the daemon stores them in the
\* other order: what is read below the length is written.
LEMMA FilledStep ==
  ASSUME TypeInv, FilledInv, [Next]_vars
  PROVE  FilledInv'
<1> USE DEF FilledInv, Written, NewFlowMeetsSocket
<1>a. /\ cookies \in [GenIds -> [Idx -> Ours \cup {NoSocket}]]
      /\ max_idx \in [GenIds -> 0 .. MAX_SOCKETS_IN_GEN]
      /\ store \in Stores \cup {NoStore} /\ rx \in [RxTasks -> Runs]
      /\ NoSocket \notin Ours /\ sockhash \subseteq Sockets
      /\ NoSocket \notin sockhash
  BY NullAssumption DEF TypeInv, TableType, RxType, TxType, Ours
<1>1. CASE Receiver
  <2>1. UNCHANGED <<max_idx, cookies, store>>
    BY <1>1, ReceiverReads DEF tableVars
  <2>2. PICK t \in RxTasks, r \in Runs :
          /\ rx' = [rx EXCEPT ![t] = r]
          /\ \/ r = IdleRx
             \/ Dissected(rx[t], r) \/ Matched(rx[t], r) \/ Chosen(rx[t], r)
    BY <1>1, RunStep
  <2>3. r.pc = "slot" => rx[t].row \in GenIds /\ r.row = rx[t].row
                         /\ r.len = max_idx[rx[t].row]
    BY <1>a, <2>2 DEF IdleRx, Dissected, Matched, Chosen, Runs
  <2>4. r.pc = "select_new" =>
          /\ rx[t].pc = "slot" /\ r.len = rx[t].len
          /\ r.cookie = cookies[rx[t].row][Picked(rx[t])]
    BY <1>a, <2>2 DEF IdleRx, Dissected, Matched, Chosen
  <2>5. r.pc = "slot" => \A i \in Idx : i < r.len => Written(r.row, i)
    BY <2>3
  <2>6. r.pc = "select_new" /\ r.len > 0 => r.cookie # NoSocket
    <3> SUFFICES ASSUME r.pc = "select_new", r.len > 0
                 PROVE  r.cookie # NoSocket
      OBVIOUS
    <3>1. rx[t] \in Runs /\ rx[t].pkt \in Packets
      BY <2>4 DEF TypeInv, RxType
    <3>2. Picked(rx[t]) \in Idx /\ Picked(rx[t]) < rx[t].len
      BY <2>4, <3>1, PickedBelow
    <3> QED
      BY <2>4, <3>2
  <2>7. \A s \in RxTasks : rx'[s] = IF s = t THEN r ELSE rx[s]
    BY <1>a, <2>2
  <2> QED
    BY <2>1, <2>5, <2>6, <2>7
<1>2. CASE cb_update_map
  <2>0. /\ store \in Stores /\ store # NoStore /\ rx' = rx
        /\ store.row \in GenIds /\ store.idx \in Idx /\ store.cookie \in Ours
    BY <1>2, StoreStep DEF Stores, rxVars
  <2>1. CASE store.pc = 1
    <3>1. /\ cookies' = [cookies EXCEPT ![store.row][store.idx] = store.cookie]
          /\ max_idx' = max_idx /\ store' = [store EXCEPT !.pc = 2]
      BY <1>2, <2>1, StoreStep
    <3>2. \A g \in GenIds, i \in Idx :
            Written(g, i)' <=> Written(g, i) \/ (g = store.row /\ i = store.idx)
      BY <1>a, <2>0, <3>1
    <3>3. /\ store'.pc = 2 /\ store'.row = store.row /\ store'.idx = store.idx
          /\ store'.len = store.len
      BY <2>0, <3>1 DEF Stores
    <3>4. \A i \in Idx : i < store.len /\ i # store.idx => Written(store.row, i)
      BY <2>1
    <3>5. store.idx < store.len /\ store.idx \in Int /\ store.len \in Int
      BY <2>0 DEF Stores, Idx
    <3>6. \A g \in GenIds, i, j \in Idx : i < j /\ Written(g, j)' => Written(g, i)'
      <4> SUFFICES ASSUME NEW g \in GenIds, NEW i \in Idx, NEW j \in Idx,
                          i < j, Written(g, j)'
                   PROVE  Written(g, i)'
        OBVIOUS
      <4>1. CASE Written(g, j)
        <5>1. Written(g, i)
          BY <4>1
        <5> QED
          BY <3>2, <5>1
      <4>2. CASE g = store.row /\ j = store.idx
        <5>1. i < store.len /\ i # store.idx
          BY <3>5, <4>2 DEF Idx
        <5>2. Written(g, i)
          BY <3>4, <4>2, <5>1
        <5> QED
          BY <3>2, <5>2
      <4> QED
        BY <3>2, <4>1, <4>2
    <3>7. \A i \in Idx : i < store.len => Written(store.row, i)'
      <4> SUFFICES ASSUME NEW i \in Idx, i < store.len
                   PROVE  Written(store.row, i)'
        OBVIOUS
      <4>1. Written(store.row, i) \/ i = store.idx
        BY <3>4
      <4> QED
        BY <2>0, <3>2, <3>3, <4>1
    <3>8. \A g \in GenIds, i \in Idx : i < max_idx'[g] => Written(g, i)'
      BY <3>1, <3>2
    <3>9. \A t \in RxTasks, i \in Idx :
            rx'[t].pc = "slot" /\ i < rx'[t].len => cookies'[rx'[t].row][i] # NoSocket
      <4>1. \A t \in RxTasks : rx[t].row \in GenIds
        BY <1>a DEF Runs
      <4> QED
        BY <2>0, <3>2, <3>3, <4>1
    <3>10. NewFlowMeetsSocket'
      BY <2>0
    <3> QED
      BY <3>3, <3>5, <3>6, <3>7, <3>8, <3>9, <3>10
  <2>2. CASE store.pc = 2
    <3>1. /\ max_idx' = [max_idx EXCEPT ![store.row] = store.len]
          /\ cookies' = cookies /\ store' = NoStore
      BY <1>2, <2>2, StoreStep
    <3>2. store'.pc # 1 /\ store'.pc # 2
      BY <3>1 DEF NoStore
    <3>3. \A g \in GenIds, i \in Idx : i < max_idx'[g] => Written(g, i)
      BY <1>a, <2>0, <2>2, <3>1
    <3> QED
      BY <2>0, <3>1, <3>2, <3>3
  <2> QED
    BY <2>0, <2>1, <2>2 DEF Stores
<1>3. ASSUME NEW x \in Ours, StartRegistration(x)
      PROVE  FilledInv'
  <2>1. UNCHANGED <<max_idx, cookies, rx>>
    BY <1>3, RegistrationStep DEF rxVars
  <2>2. PICK pos \in Idx, len \in 1 .. MAX_SOCKETS_IN_GEN :
          /\ \A i \in 0 .. pos - 1 : cookies[SlotOf(x)][i] \in sockhash
          /\ len - 1 = pos \/ cookies[SlotOf(x)][len - 1] \in sockhash
          /\ pos < len
          /\ store' = [pc |-> 1, row |-> SlotOf(x), idx |-> pos,
                       len |-> len, cookie |-> x]
    BY <1>3, RegistrationStep
  <2>3. /\ store'.pc = 1 /\ store'.row = SlotOf(x) /\ store'.idx = pos
        /\ store'.len = len
    BY <2>2
  <2>4. SlotOf(x) \in GenIds /\ len - 1 \in Idx
    BY SlotType, SizeAssumption DEF Idx
  <2>5. \A i \in Idx : i < len /\ i # pos => Written(SlotOf(x), i)
    <3> SUFFICES ASSUME NEW i \in Idx, i < len, i # pos
                 PROVE  Written(SlotOf(x), i)
      OBVIOUS
    <3>1. CASE i < pos
      <4>1. i \in 0 .. pos - 1
        BY <3>1 DEF Idx
      <4> QED
        BY <1>a, <2>2, <4>1
    <3>2. CASE ~(i < pos)
      <4>1. pos < i /\ (i = len - 1 \/ i < len - 1) /\ len - 1 # pos
        BY <3>2 DEF Idx
      <4>2. Written(SlotOf(x), len - 1)
        BY <1>a, <2>2, <4>1
      <4> QED
        BY <2>4, <4>1, <4>2
    <3> QED
      BY <3>1, <3>2
  <2> QED
    BY <2>1, <2>2, <2>3, <2>5
<1>4. CASE ~Receiver /\ ~cb_update_map /\ ~\E x \in Ours : StartRegistration(x)
  BY <1>4, QuietStep DEF rxVars
<1> QED
  BY <1>1, <1>2, <1>3, <1>4

\* Sockets are put into rows of their application, and packets look in rows of
\* theirs.
LEMMA SliceStep ==
  ASSUME TypeInv, FilledInv, SliceInv, [Next]_vars
  PROVE  SliceInv'
<1> USE DEF SliceInv
<1>a. /\ cookies \in [GenIds -> [Idx -> Ours \cup {NoSocket}]]
      /\ working_gen \in [Apps -> Nat]
      /\ store \in Stores \cup {NoStore} /\ rx \in [RxTasks -> Runs]
  BY DEF TypeInv, TableType, RxType
<1>1. CASE Receiver
  <2>1. UNCHANGED <<max_idx, cookies, store>>
    BY <1>1, ReceiverReads DEF tableVars
  <2>2. PICK t \in RxTasks, r \in Runs :
          /\ rx' = [rx EXCEPT ![t] = r]
          /\ \/ r = IdleRx
             \/ Dissected(rx[t], r) \/ Matched(rx[t], r) \/ Chosen(rx[t], r)
    BY <1>1, RunStep
  <2>3. r.pc \in ThirdStage => Chosen(rx[t], r)
    BY <2>2 DEF IdleRx, Dissected, Matched, ThirdStage
  <2>4. r.pc \in ThirdStage => \E g \in Nat : r.row = Row(max_apps, r.app, g)
    <3> SUFFICES ASSUME r.pc \in ThirdStage
                 PROVE  \E g \in Nat : r.row = Row(max_apps, r.app, g)
      OBVIOUS
    <3>1. CASE rx[t].pc = "new_flow"
      <4>1. rx[t].app \in Nat
        BY <1>a, DispatchAssumption DEF Runs, AppLimit
      <4>2. rx[t].app % MAX_APPS \in Apps
        BY <4>1, SizeAssumption DEF Apps
      <4>3. working_gen[rx[t].app % MAX_APPS] \in Nat
        BY <1>a, <4>2
      <4> QED
        BY <2>3, <3>1, <4>3 DEF Chosen
    <3>2. CASE rx[t].pc # "new_flow"
      <4>1. rx[t].pc \in ThirdStage /\ r.row = rx[t].row /\ r.app = rx[t].app
        BY <2>3, <3>2 DEF Chosen, ThirdStage
      <4> QED
        BY <4>1
    <3> QED
      BY <3>1, <3>2
  <2>5. r.pc = "select_new" /\ r.cookie \in Ours => AppOf[r.cookie] = r.app
    <3> SUFFICES ASSUME r.pc = "select_new", r.cookie \in Ours
                 PROVE  AppOf[r.cookie] = r.app
      OBVIOUS
    <3>1. /\ rx[t].pc = "slot" /\ r.row = rx[t].row
          /\ r.cookie = cookies[rx[t].row][Picked(rx[t])]
      BY <2>3 DEF Chosen, ThirdStage
    <3>2. Picked(rx[t]) \in Idx /\ rx[t].row \in GenIds
      BY <1>a, <3>1, PickedBelow DEF TypeInv, RxType, Runs
    <3>3. r.row = SlotOf(r.cookie)
      BY <3>1, <3>2
    <3>4. PICK g \in Nat : r.row = Row(max_apps, r.app, g)
      BY <2>4 DEF ThirdStage
    <3>5. /\ AppOf[r.cookie] \in 0 .. AppLimit - 1 /\ GenOf[r.cookie] \in Nat
          /\ r.app \in 0 .. AppLimit - 1
      BY DispatchAssumption DEF AppLimit, Runs
    <3>6. Row(max_apps, AppOf[r.cookie], GenOf[r.cookie]) = Row(max_apps, r.app, g)
      BY <3>3, <3>4 DEF SlotOf
    <3> QED
      BY <3>5, <3>6, RowsApart
  <2>7. \A s \in RxTasks : rx'[s] = IF s = t THEN r ELSE rx[s]
    BY <1>a, <2>2
  <2> QED
    BY <2>1, <2>4, <2>5, <2>7
<1>2. CASE cb_update_map
  <2>0. /\ store \in Stores /\ store # NoStore /\ rx' = rx
        /\ store.row \in GenIds /\ store.idx \in Idx /\ store.cookie \in Ours
    BY <1>2, StoreStep DEF Stores, rxVars
  <2>1. CASE store.pc = 1
    <3>1. /\ cookies' = [cookies EXCEPT ![store.row][store.idx] = store.cookie]
          /\ store' = [store EXCEPT !.pc = 2]
      BY <1>2, <2>1, StoreStep
    <3>2. \A g \in GenIds, i \in Idx :
            cookies'[g][i] = IF g = store.row /\ i = store.idx
                             THEN store.cookie ELSE cookies[g][i]
      BY <1>a, <2>0, <3>1
    <3>3. store'.row = store.row /\ store'.cookie = store.cookie
      BY <2>0, <3>1 DEF Stores
    <3> QED
      BY <2>0, <3>2, <3>3
  <2>2. CASE store.pc = 2
    <3>1. cookies' = cookies /\ store' = NoStore
      BY <1>2, <2>2, StoreStep
    <3> QED
      BY <2>0, <3>1
  <2> QED
    BY <2>0, <2>1, <2>2 DEF Stores
<1>3. ASSUME NEW x \in Ours, StartRegistration(x)
      PROVE  SliceInv'
  <2>1. UNCHANGED <<max_idx, cookies, rx>>
    BY <1>3, RegistrationStep DEF rxVars
  <2>2. store'.row = SlotOf(x) /\ store'.cookie = x
    BY <1>3, RegistrationStep
  <2> QED
    BY <2>1, <2>2
<1>4. CASE ~Receiver /\ ~cb_update_map /\ ~\E x \in Ours : StartRegistration(x)
  BY <1>4, QuietStep DEF rxVars
<1> QED
  BY <1>1, <1>2, <1>3, <1>4

\* A packet that is owed to a socket by its cookie meets that socket, unless
\* the socket was closed on the way: the slot was not reused before.
LEMMA OwnerStep ==
  ASSUME TypeInv, OwnerInv, [Next]_vars
  PROVE  OwnerInv'
<1> USE DEF OwnerInv, Lasting
<1>a. /\ cookies \in [GenIds -> [Idx -> Ours \cup {NoSocket}]]
      /\ store \in Stores \cup {NoStore} /\ rx \in [RxTasks -> Runs]
      /\ NoSocket \notin Ours /\ sockhash \subseteq open /\ open \subseteq Sockets
      /\ NoSocket \notin Sockets
  BY NullAssumption DEF TypeInv, TableType, RxType, TxType, Ours
<1>1. CASE Receiver
  <2>1. UNCHANGED <<cookies, store, sockhash, open, dissector>>
    BY <1>1, ReceiverReads DEF tableVars, flowVars
  <2>2. PICK t \in RxTasks, r \in Runs :
          /\ rx' = [rx EXCEPT ![t] = r]
          /\ \/ r = IdleRx
             \/ Dissected(rx[t], r) \/ Matched(rx[t], r) \/ Chosen(rx[t], r)
    BY <1>1, RunStep
  <2>3. \A s \in RxTasks : rx'[s] = IF s = t THEN r ELSE rx[s]
    BY <1>a, <2>2
  <2> DEFINE q == rx[t]
             Owed(a) == a.owner # NoSocket /\ a.owner \in open =>
               /\ a.pc = "dissect" => a.pkt.verdict = "cookie"
                                      /\ cookies[a.pkt.gen][a.pkt.idx] = a.owner
               /\ a.pc = "select" => a.cookie = a.owner
               /\ a.pc \notin NewFlowPcs
             Good(a) ==
               /\ a.owner # NoSocket => a.owner \in sockhash \/ a.owner \notin open
               /\ a.pc \in {"clock", "age", "select_flow"} => dissector = "FLOW"
               /\ a.pc = "select" => dissector = "CBPF"
               /\ dissector = "CBPF" => Owed(a)
  <2>4. Good(q)
    OBVIOUS
  <2>5. Good(r)
    <3>1. CASE r = IdleRx
      BY <3>1 DEF IdleRx
    <3>2. CASE q.pc = "idle" /\ r.pc = "dissect" /\ r.pkt \in Packets
               /\ r.owner = Owner(r.pkt)
      <4>1. r.owner # NoSocket => r.owner \in sockhash
        BY <3>2, OwnerType DEF TypeInv
      <4>2. dissector = "CBPF" /\ r.owner # NoSocket =>
              r.pkt.verdict = "cookie" /\ cookies[r.pkt.gen][r.pkt.idx] = r.owner
        BY <3>2 DEF Owner
      <4> QED
        BY <3>2, <4>1, <4>2 DEF NewFlowPcs, ThirdStage
    <3>3. CASE Same(r, q) /\ q.pc = "dissect" /\ r.pc = "clock" /\ dissector = "FLOW"
      BY <2>4, <3>3 DEF Same
    <3>4. CASE Same(r, q) /\ q.pc = "dissect" /\ r.pc = "select"
               /\ dissector = "CBPF" /\ r.cookie = cbpf_cookie(q.pkt)
      <4>1. r.owner = q.owner
        BY <3>4 DEF Same
      <4>2. Owed(r)
        <5> SUFFICES ASSUME q.owner # NoSocket, q.owner \in open
                     PROVE  r.cookie = r.owner
          BY <3>4, <4>1 DEF NewFlowPcs, ThirdStage
        <5>1. q.pkt.verdict = "cookie" /\ cookies[q.pkt.gen][q.pkt.idx] = q.owner
          BY <2>4, <3>4
        <5>2. cbpf_cookie(q.pkt) = cookies[q.pkt.gen][q.pkt.idx]
          BY <5>1 DEF cbpf_cookie
        <5> QED
          BY <3>4, <4>1, <5>1, <5>2
      <4> QED
        BY <2>4, <3>4, <4>1, <4>2
    <3>5. CASE Same(r, q) /\ q.pc = "dissect" /\ r.pc = "new_flow" /\ dissector = "NOOP"
      BY <2>4, <3>5 DEF Same
    <3>6. CASE Same(r, q) /\ q.pc \in {"clock", "age", "select_flow"}
               /\ r.pc \in {"age", "select_flow", "new_flow"}
      BY <2>4, <3>6 DEF Same
    <3>7. CASE Same(r, q) /\ q.pc = "select" /\ r.pc = "new_flow" /\ ~Selectable(q.cookie)
      <4>1. q.owner \in Ours \cup {NoSocket}
        BY <1>a DEF Runs
      <4>2. q.owner # NoSocket => q.owner \notin open
        BY <2>4, <3>7, <4>1 DEF Selectable, Ours
      <4> QED
        BY <2>4, <3>7, <4>2 DEF Same
    <3>8. CASE Chosen(q, r)
      <4>1. /\ q.pc \in NewFlowPcs /\ r.pc \in ThirdStage
            /\ r.owner = q.owner
        BY <3>8 DEF Chosen, Same, NewFlowPcs, ThirdStage
      <4> QED
        BY <2>4, <4>1 DEF ThirdStage
    <3> HIDE DEF Good, q
    <3>9. CASE Dissected(q, r)
      BY <3>9, <3>2, <3>3, <3>4, <3>5 DEF Dissected
    <3>10. CASE Matched(q, r)
      BY <3>10, <3>6, <3>7 DEF Matched
    <3> QED
      BY <2>2, <3>1, <3>8, <3>9, <3>10 DEF q
  <2> HIDE DEF Good
  <2>6. \A s \in RxTasks : Good(rx'[s])
    <3>1. \A s \in RxTasks : Good(rx[s])
      BY DEF Good
    <3> QED
      BY <2>3, <2>5, <3>1
  <2> QED
    BY <2>1, <2>6 DEF Good
<1>2. CASE cb_update_map
  <2>0. /\ store \in Stores /\ store # NoStore /\ rx' = rx
        /\ UNCHANGED <<sockhash, open, dissector>>
        /\ store.row \in GenIds /\ store.idx \in Idx /\ store.cookie \in Ours
    BY <1>2, StoreStep DEF Stores, rxVars, flowVars
  <2>1. CASE store.pc = 1
    <3>1. /\ cookies' = [cookies EXCEPT ![store.row][store.idx] = store.cookie]
          /\ store' = [store EXCEPT !.pc = 2]
      BY <1>2, <2>1, StoreStep
    <3>2. \A g \in GenIds, i \in Idx :
            cookies'[g][i] = IF g = store.row /\ i = store.idx
                             THEN store.cookie ELSE cookies[g][i]
      BY <1>a, <2>0, <3>1
    <3>3. store'.pc = 2 /\ store'.cookie = store.cookie
      BY <2>0, <3>1 DEF Stores
    <3>4. \A g \in GenIds, i \in Idx :
            cookies'[g][i] \in Ours => Lasting(cookies'[g][i])
      BY <2>0, <3>2
    <3>5. ASSUME dissector = "CBPF", NEW t \in RxTasks, rx[t].owner # NoSocket,
                 rx[t].owner \in open, rx[t].pc = "dissect"
          PROVE  cookies'[rx[t].pkt.gen][rx[t].pkt.idx] = rx[t].owner
      <4>1. rx[t].pkt.gen \in GenIds /\ rx[t].pkt.idx \in Idx
        BY <3>5, DispatchAssumption DEF TypeInv, RxType, PacketType
      <4>2. /\ cookies[rx[t].pkt.gen][rx[t].pkt.idx] = rx[t].owner
            /\ rx[t].owner \in sockhash
        BY <3>5
      <4>3. cookies[store.row][store.idx] \notin sockhash
        BY <2>1
      <4> QED
        BY <3>2, <4>1, <4>2, <4>3
    <3> QED
      BY <2>0, <3>3, <3>4, <3>5
  <2>2. CASE store.pc = 2
    <3>1. cookies' = cookies /\ store' = NoStore
      BY <1>2, <2>2, StoreStep
    <3>2. store'.pc # 1
      BY <3>1 DEF NoStore
    <3> QED
      BY <2>0, <3>1, <3>2
  <2> QED
    BY <2>0, <2>1, <2>2 DEF Stores
<1>3. ASSUME NEW x \in Ours, StartRegistration(x)
      PROVE  OwnerInv'
  <2>1. /\ UNCHANGED <<open, cookies, dissector, rx>>
        /\ sockhash' = sockhash \cup {x} /\ x \in open \ sockhash
    BY <1>3, RegistrationStep DEF rxVars, flowVars
  <2>2. /\ store'.row = SlotOf(x) /\ store'.cookie = x /\ store'.idx \in Idx
        /\ cookies[SlotOf(x)][store'.idx] \notin sockhash
    BY <1>3, RegistrationStep
  <2>3. cookies[SlotOf(x)][store'.idx] # x
    BY <2>1, <2>2, SlotType
  <2> QED
    BY <2>1, <2>2, <2>3
<1>4. CASE ~Receiver /\ ~cb_update_map /\ ~\E x \in Ours : StartRegistration(x)
  <2>1. UNCHANGED <<dissector, cookies, store, rx>>
    BY <1>4, QuietStep DEF rxVars
  <2>2. CASE open' = open /\ sockhash' = sockhash
    BY <2>1, <2>2
  <2>3. ASSUME NEW x \in Sockets, open' = open \ {x}, sockhash' = sockhash \ {x},
               x # store.cookie
        PROVE  OwnerInv'
    BY <2>1, <2>3
  <2> QED
    BY <1>4, <2>2, <2>3, QuietStep
<1> QED
  BY <1>1, <1>2, <1>3, <1>4

(***************************************************************************)
(* The invariant, and what it implies.                                     *)
(***************************************************************************)
\* An empty set of tasks counts nothing.
LEMMA NoneCounted ==
  ASSUME NEW T, NEW f, NEW S, \A t \in T : f[t].pc \notin S
  PROVE  Cardinality({t \in T : f[t].pc \in S}) = 0
<1>1. {t \in T : f[t].pc \in S} = {}
  OBVIOUS
<1> QED
  BY <1>1, FS_EmptySet

\* The initial states.
LEMMA DispatchInit ==
  ASSUME Init
  PROVE  DispatchInv
<1> USE DEF Init, FlowInit
<1>1. TxType /\ TxPointer
  BY NullAssumption, FlowTimeAssumption
     DEF TxType, TxPointer, Times, Entries, NoEntry, Calls, IdleCall, Pointing,
         TxMetrics
<1>2. TableType
  BY DispatchAssumption, SizeAssumption DEF TableType, GenIds, Apps, Idx
<1>3. RxType
  BY FlowTimeAssumption, SizeAssumption, DispatchAssumption
     DEF RxType, Runs, IdleRx, Special, Times, GenIds, AppLimit, RxPcs, RxMetrics
<1>4. TxAccounted
  <2>1. \A t \in TxTasks : tx[t].pc \notin Counted
    BY DEF IdleCall, Counted
  <2>2. Cardinality({t \in TxTasks : tx[t].pc \in Counted}) = 0
    BY <2>1, NoneCounted
  <2> QED
    BY <2>2 DEF TxAccounted, TxMetrics
<1>5. AccountedOncePerStage
  <2>1. \A t \in RxTasks : rx[t].pc = "idle"
    BY DEF IdleRx
  <2>2. ASSUME NEW pcs, "idle" \notin pcs
        PROVE  In(pcs) = 0
    <3>1. \A t \in RxTasks : rx[t].pc \notin pcs
      BY <2>1, <2>2
    <3> QED
      BY <3>1, NoneCounted DEF In
  <2>3. /\ In({"dissect"}) = 0 /\ In({"new_flow"}) = 0
        /\ In({"clock", "age", "select_flow", "select"}) = 0
        /\ In({"len", "slot", "select_new"}) = 0
    BY <2>2
  <2> QED
    BY <2>3 DEF AccountedOncePerStage, RxMetrics
<1>6. FilledInv /\ SliceInv /\ OwnerInv
  BY NullAssumption, SizeAssumption
     DEF FilledInv, Written, NewFlowMeetsSocket, SliceInv, OwnerInv, Lasting,
         NoStore, IdleRx, ThirdStage, NewFlowPcs, Ours, Idx, GenIds
<1> QED
  BY <1>1, <1>2, <1>3, <1>4, <1>5, <1>6 DEF DispatchInv, TypeInv

\* The inductive invariant of Dispatch, whatever overlaps: registrations with
\* runs of the program, transmissions with each other and with everything else
\* (ebpf.c:178-388, :887-943, :992-1018).
THEOREM DispatchInvariance == Spec => []DispatchInv
<1>1. Init => DispatchInv
  BY DispatchInit
<1>2. DispatchInv /\ [Next]_vars => DispatchInv'
  BY TypeStep, AccountStep, FilledStep, SliceStep, OwnerStep DEF DispatchInv
<1> QED
  BY <1>1, <1>2, PTL DEF Spec

\* Every call of flow_assure is counted in exactly one outcome
\* (ebpf.c:887-943), for any number of calls that overlap.
THEOREM SendersCounted == Spec => []TxAccounted
  BY DispatchInvariance, PTL DEF DispatchInv

\* Every packet is counted exactly once in each stage that it enters
\* (ebpf.c:178-388).
THEOREM PacketsCounted == Spec => []AccountedOncePerStage
  BY DispatchInvariance, PTL DEF DispatchInv

\* A new flow in a generation that has sockets is sent to a slot that was
\* written (ebpf.c:367-370 against :1011-1013).
THEOREM NewFlowsMeetSockets == Spec => []NewFlowMeetsSocket
<1>1. DispatchInv => NewFlowMeetsSocket
  BY DEF DispatchInv, FilledInv
<1> QED
  BY <1>1, DispatchInvariance, PTL

\* No packet of an application is given to a socket of another one, for any
\* number of applications and any generation numbers (ebpf.c:362-370).
THEOREM AppsIsolated == Spec => []AppsAreIsolated
<1>1. DispatchInv => AppsAreIsolated
  BY DEF DispatchInv, SliceInv, AppsAreIsolated, Selectable, Ours, TypeInv,
         TableType, TxType
<1> QED
  BY <1>1, DispatchInvariance, PTL

\* A packet with a udpgrm cookie meets the socket that its cookie designated
\* when it arrived, unless that socket is gone (ebpf.c:218-220, :305-345).
THEOREM CookiesKeepAffinity == Spec => []CookieAffinity
<1>1. DispatchInv => CookieAffinity
  <2> SUFFICES ASSUME DispatchInv, dissector = "CBPF", NEW t \in RxTasks,
                      rx[t].pc \in NewFlowPcs, StillOwed(t)
               PROVE  FALSE
    BY DEF CookieAffinity, AffinityKept, NewFlowPcs, ThirdStage
  <2>1. rx[t].owner \notin open
    BY DEF DispatchInv, OwnerInv, StillOwed
  <2>2. rx[t].pkt \in Packets
    BY DEF DispatchInv, TypeInv, RxType, NewFlowPcs, ThirdStage
  <2>3. Owner(rx[t].pkt) \in sockhash
    BY <2>2, OwnerType DEF DispatchInv, TypeInv, StillOwed
  <2> QED
    BY <2>1, <2>3 DEF StillOwed, DispatchInv, TypeInv, TableType
<1> QED
  BY <1>1, DispatchInvariance, PTL

(***************************************************************************)
(* One call at a time.                                                     *)
(***************************************************************************)
\* Below the wrap-around of the clock, expiry is a comparison of the age.
LEMMA Elapsed ==
  ASSUME NEW now \in Times, NEW last \in Times, last <= now
  PROVE  /\ Expired(now, last) <=> now - last > Timeout
         /\ Timeout \in Nat
<1>1. Timeout \in Nat /\ MaxTime \in Nat /\ TimeMod \in Nat \ {0} /\ MaxTime < TimeMod
  BY FlowTimeAssumption DEF Timeout
<1>2. now - last \in 0 .. TimeMod - 1
  BY <1>1 DEF Times
<1>3. \A k \in 0 .. TimeMod - 1 : k % TimeMod = k
  BY <1>1
<1>4. (now - last) % TimeMod = now - last
  BY <1>2, <1>3
<1> QED
  BY <1>1, <1>4 DEF Expired

\* A step of a sender is a step of one call.
LEMMA SenderCall ==
  ASSUME TypeInv, Sender
  PROVE  \E t \in TxTasks, c \in Calls :
           /\ tx' = [tx EXCEPT ![t] = c]
           /\ \/ AssureStep(t)
              \/ (Busy => Overlap) /\ \E x \in Sockets, h \in Hashes : Assure(t, x, h)
           /\ UNCHANGED <<dissector, tableVars, rxVars, open, time>>
<1>1. PICK t \in TxTasks :
        \/ AssureStep(t)
        \/ (Busy => Overlap) /\ \E x \in Sockets, h \in Hashes : Assure(t, x, h)
  BY DEF Sender
<1>2. UNCHANGED <<dissector, tableVars, rxVars>>
  BY DEF Sender
<1>3. UNCHANGED <<open, time>>
  BY <1>1 DEF AssureStep, Assure, ReadClock, Insert, CheckAge,
              CheckOwner, Refresh, TakeOver, Steal
<1>4. \E c : tx' = [tx EXCEPT ![t] = c]
  BY <1>1 DEF AssureStep, Assure, ReadClock, Insert, CheckAge,
              CheckOwner, Refresh, TakeOver, Steal
<1>5. \A c : tx' = [tx EXCEPT ![t] = c] => c \in Calls
  <2>1. tx \in [TxTasks -> Calls] /\ tx' \in [TxTasks -> Calls]
    BY SenderTypes DEF TypeInv, TxType
  <2> QED
    BY <2>1
<1> QED
  BY <1>1, <1>2, <1>3, <1>4, <1>5

\* Without overlap the call was in progress, or starts when no other call is.
LEMMA CallStep ==
  ASSUME ~Overlap, TypeInv, AloneInv, Sender
  PROVE  \E t \in TxTasks, c \in Calls :
           /\ tx' = [tx EXCEPT ![t] = c]
           /\ \/ AssureStep(t)
              \/ \E x \in Sockets, h \in Hashes : Assure(t, x, h)
           /\ \A s \in TxTasks : s # t => tx[s].pc = "idle"
           /\ \A s \in RxTasks : rx[s].pc = "idle"
           /\ UNCHANGED <<dissector, tableVars, rxVars, open, time>>
<1>1. PICK t \in TxTasks, c \in Calls :
        /\ tx' = [tx EXCEPT ![t] = c]
        /\ \/ AssureStep(t)
           \/ ~Busy /\ \E x \in Sockets, h \in Hashes : Assure(t, x, h)
        /\ UNCHANGED <<dissector, tableVars, rxVars, open, time>>
  BY SenderCall
<1>2. /\ \A s \in TxTasks : s # t => tx[s].pc = "idle"
      /\ \A s \in RxTasks : rx[s].pc = "idle"
  <2>1. CASE AssureStep(t)
    <3>1. tx[t].pc # "idle"
      BY <2>1 DEF AssureStep, ReadClock, Insert, CheckAge, CheckOwner, Refresh,
                  TakeOver, Steal
    <3> QED
      BY <3>1 DEF AloneInv
  <2>2. CASE ~Busy
    BY <2>2 DEF Busy
  <2> QED
    BY <1>1, <2>1, <2>2
<1> QED
  BY <1>1, <1>2

\* Steps that are neither a sender's nor a receiver's.
LEMMA OtherStep ==
  ASSUME [Next]_vars, ~Sender, ~Receiver
  PROVE  /\ UNCHANGED <<elem, tx, sent, rx, dissector>>
         /\ open' \subseteq open /\ (time' = time \/ time' = time + 1)
<1>1. CASE cb_update_map
  BY <1>1 DEF cb_update_map, flowVars, rxVars
<1>2. CASE dissector = "FLOW" /\ Tick /\ UNCHANGED <<dissector, tableVars, rxVars>>
  BY <1>2 DEF Tick, rxVars
<1>3. ASSUME NEW x \in Sockets, Close(x)
      PROVE  /\ UNCHANGED <<elem, tx, sent, rx, dissector, time>>
             /\ open' \subseteq open
  BY <1>3 DEF Close, CloseSocket, rxVars
<1>4. ASSUME NEW x \in Ours, StartRegistration(x)
      PROVE  UNCHANGED <<elem, tx, sent, rx, dissector, time, open>>
  BY <1>4 DEF StartRegistration, flowVars, rxVars
<1>5. ASSUME NEW a \in Apps, NEW g \in WorkingGens[dissector], SetWorkingGen(a, g)
      PROVE  UNCHANGED <<elem, tx, sent, rx, dissector, time, open>>
  BY <1>5 DEF SetWorkingGen, flowVars, rxVars
<1>6. CASE UNCHANGED vars
  BY <1>6 DEF vars, flowVars, tableVars, rxVars
<1> QED
  BY <1>1, <1>2, <1>3, <1>4, <1>5, <1>6 DEF Next

\* Calls do not overlap.
LEMMA AloneStep ==
  ASSUME ~Overlap, TypeInv, AloneInv, [Next]_vars
  PROVE  AloneInv'
<1>1. CASE Sender
  <2>1. PICK t \in TxTasks, c \in Calls :
          /\ tx' = [tx EXCEPT ![t] = c]
          /\ \A s \in TxTasks : s # t => tx[s].pc = "idle"
          /\ \A s \in RxTasks : rx[s].pc = "idle"
          /\ rx' = rx
    BY <1>1, CallStep DEF rxVars
  <2>2. \A s \in TxTasks : s # t => tx'[s].pc = "idle"
    BY <2>1 DEF TypeInv, TxType
  <2> QED
    BY <2>1, <2>2 DEF AloneInv
<1>2. CASE Receiver
  <2>1. PICK t \in RxTasks, r \in Runs :
          /\ rx' = [rx EXCEPT ![t] = r]
          /\ \/ r = IdleRx
             \/ Dissected(rx[t], r) \/ Matched(rx[t], r) \/ Chosen(rx[t], r)
    BY <1>2, RunStep
  <2>2. tx' = tx
    BY <1>2, ReceiverReads DEF flowVars
  <2>3. r.pc = "idle" \/ rx[t].pc # "idle" \/ ~Busy
    BY <2>1 DEF IdleRx, Dissected, Matched, Chosen
  <2>4. \A s \in RxTasks : rx'[s] = IF s = t THEN r ELSE rx[s]
    BY <2>1 DEF TypeInv, RxType
  <2> QED
    BY <2>2, <2>3, <2>4 DEF AloneInv, Busy
<1>3. CASE ~Sender /\ ~Receiver
  BY <1>3, OtherStep DEF AloneInv
<1> QED
  BY <1>1, <1>2, <1>3

\* What a step of flow_assure does to the call's locals and to the entries:
\* it keeps the flow and the socket of the call, every time stamp it stores was
\* read from the clock, and a key is stored by an insertion only.
LEMMA CallEffect ==
  ASSUME TypeInv, NEW t \in TxTasks, NEW c \in Calls,
         tx' = [tx EXCEPT ![t] = c], AssureStep(t)
  PROVE  /\ sent' = sent /\ tx[t].pc # "idle"
         /\ \/ c.pc = "idle"
            \/ /\ c.hash = tx[t].hash /\ c.so_cookie = tx[t].so_cookie
               /\ c.value = tx[t].value /\ c.now \in {tx[t].now, time}
         /\ \/ \E i \in Victims :
                 elem' = [elem EXCEPT ![i] = [key |-> tx[t].hash,
                            last_tx_ns |-> tx[t].now, cookie |-> tx[t].so_cookie]]
            \/ /\ tx[t].value \in Elems
               /\ \E w \in {tx[t].now, time} :
                    elem' = [elem EXCEPT ![tx[t].value].last_tx_ns = w]
            \/ /\ tx[t].value \in Elems
               /\ elem' = [elem EXCEPT ![tx[t].value].cookie = tx[t].so_cookie]
            \/ elem' = elem
<1> DEFINE q == tx[t]
<1>1. q \in Calls /\ tx'[t] = c /\ IdleCall.pc = "idle"
  BY DEF TypeInv, TxType, IdleCall
<1>2. q.pc \in Pointing => q.value \in Elems
  BY DEF TypeInv, TxPointer
<1>3. CASE ReadClock(t)
  BY <1>1, <1>3 DEF ReadClock, Calls, IdleCall
<1>4. CASE Insert(t)
  <2>1. c = IdleCall
    BY <1>1, <1>4 DEF Insert, TypeInv, TxType
  <2> QED
    BY <1>1, <1>4, <2>1 DEF Insert
<1>5. CASE CheckAge(t)
  BY <1>1, <1>5 DEF CheckAge, Calls, IdleCall
<1>6. CASE CheckOwner(t)
  BY <1>1, <1>6 DEF CheckOwner, Calls, IdleCall
<1>7. CASE Refresh(t)
  BY <1>1, <1>2, <1>7 DEF Refresh, Pointing, TypeInv, TxType
<1>8. CASE TakeOver(t)
  BY <1>1, <1>2, <1>8 DEF TakeOver, Pointing, Calls, IdleCall
<1>9. CASE Steal(t)
  BY <1>1, <1>2, <1>9 DEF Steal, Pointing, TypeInv, TxType
<1> QED
  BY <1>3, <1>4, <1>5, <1>6, <1>7, <1>8, <1>9 DEF AssureStep

\* Time stamps are read from the clock.
LEMMA ClockStep ==
  ASSUME TypeInv, ClockInv, [Next]_vars
  PROVE  ClockInv'
<1>a. /\ time \in Nat /\ elem \in [Elems -> Entries]
      /\ tx \in [TxTasks -> Calls]
      /\ \A i \in Elems : elem[i].last_tx_ns \in Nat
      /\ \A t \in TxTasks : tx[t].now \in Nat
  BY FlowTimeAssumption DEF TypeInv, TxType, Entries, NoEntry, Times, Calls, IdleCall
<1>1. CASE Sender
  <2>1. PICK t \in TxTasks, c \in Calls :
          /\ tx' = [tx EXCEPT ![t] = c]
          /\ \/ AssureStep(t)
             \/ \E x \in Sockets, h \in Hashes : Assure(t, x, h)
          /\ time' = time
    BY <1>1, SenderCall
  <2>2. \A s \in TxTasks : tx'[s] = IF s = t THEN c ELSE tx[s]
    BY <1>a, <2>1
  <2>3. CASE AssureStep(t)
    <3>1. /\ tx[t].pc # "idle"
          /\ c.pc = "idle" \/ c.now \in {tx[t].now, time}
          /\ \/ \E i \in Victims :
                  elem' = [elem EXCEPT ![i] = [key |-> tx[t].hash,
                             last_tx_ns |-> tx[t].now, cookie |-> tx[t].so_cookie]]
             \/ /\ tx[t].value \in Elems
                /\ \E w \in {tx[t].now, time} :
                     elem' = [elem EXCEPT ![tx[t].value].last_tx_ns = w]
             \/ /\ tx[t].value \in Elems
                /\ elem' = [elem EXCEPT ![tx[t].value].cookie = tx[t].so_cookie]
             \/ elem' = elem
      BY <2>1, <2>3, CallEffect
    <3>2. tx[t].now <= time /\ c.pc # "idle" => c.now <= time
      BY <1>a, <3>1
    <3>3. tx[t].now <= time
      BY <3>1 DEF ClockInv
    <3>4. \A i \in Elems : elem'[i].last_tx_ns \in {elem[i].last_tx_ns, tx[t].now, time}
      BY <1>a, <3>1 DEF Entries, NoEntry
    <3>5. \A i \in Elems : elem'[i].last_tx_ns <= time
      BY <1>a, <3>3, <3>4 DEF ClockInv
    <3> QED
      BY <2>1, <2>2, <3>2, <3>3, <3>5 DEF ClockInv
  <2>4. ASSUME NEW x \in Sockets, NEW h \in Hashes, Assure(t, x, h)
        PROVE  ClockInv'
    <3>1. elem' = elem /\ c.now = 0
      BY <1>a, <2>2, <2>4 DEF Assure
    <3> QED
      BY <1>a, <2>1, <2>2, <3>1 DEF ClockInv
  <2> QED
    BY <2>1, <2>3, <2>4
<1>2. CASE Receiver
  <2>1. UNCHANGED <<time, elem, tx>>
    BY <1>2, ReceiverReads DEF flowVars
  <2> QED
    BY <2>1 DEF ClockInv
<1>3. CASE ~Sender /\ ~Receiver
  <2>1. UNCHANGED <<elem, tx>> /\ (time' = time \/ time' = time + 1)
    BY <1>3, OtherStep
  <2>2. \A n \in Nat : n <= time => n <= time'
    BY <1>a, <2>1
  <2> QED
    BY <1>a, <2>1, <2>2 DEF ClockInv
<1> QED
  BY <1>1, <1>2, <1>3

\* Below the limit an insertion takes an element that no call points to, and
\* no other store changes a key.
LEMMA EntryStep ==
  ASSUME ~Evicts, TypeInv, EntryInv, [Next]_vars
  PROVE  EntryInv'
<1>a. /\ elem \in [Elems -> Entries] /\ tx \in [TxTasks -> Calls]
      /\ NoHash \notin Hashes
  BY NullAssumption DEF TypeInv, TxType
<1>1. CASE Sender
  <2>1. PICK t \in TxTasks, c \in Calls :
          /\ tx' = [tx EXCEPT ![t] = c]
          /\ \/ AssureStep(t)
             \/ \E x \in Sockets, h \in Hashes : Assure(t, x, h)
    BY <1>1, SenderCall
  <2>2. \A s \in TxTasks : tx'[s] = IF s = t THEN c ELSE tx[s]
    BY <1>a, <2>1
  <2>3. ASSUME NEW x \in Sockets, NEW h \in Hashes, Assure(t, x, h)
        PROVE  EntryInv'
    <3>1. /\ sent' = sent \cup {<<x, h>>} /\ elem' = elem
          /\ c = [pc |-> "clock", hash |-> h, so_cookie |-> x,
                  value |-> Lookup(h), now |-> 0]
      BY <1>a, <2>2, <2>3 DEF Assure
    <3>2. c.value \in Elems => elem[c.value].key = h
      BY <3>1, LookupFinds
    <3>3. \A s \in TxTasks : OwnFlow(tx[s])'
      BY <2>2, <3>1, <3>2 DEF EntryInv, OwnFlow
    <3> QED
      BY <3>1, <3>3 DEF EntryInv, EntryFromSender
  <2>4. CASE AssureStep(t)
    <3> DEFINE q == tx[t]
    <3>1. /\ sent' = sent /\ q.pc # "idle"
          /\ \/ c.pc = "idle"
             \/ c.hash = q.hash /\ c.so_cookie = q.so_cookie /\ c.value = q.value
          /\ \/ \E i \in Victims :
                  elem' = [elem EXCEPT ![i] = [key |-> q.hash,
                             last_tx_ns |-> q.now, cookie |-> q.so_cookie]]
             \/ q.value \in Elems
                /\ \E w : elem' = [elem EXCEPT ![q.value].last_tx_ns = w]
             \/ /\ q.value \in Elems
                /\ elem' = [elem EXCEPT ![q.value].cookie = q.so_cookie]
             \/ elem' = elem
      BY <2>1, <2>4, CallEffect
    <3>2. /\ <<q.so_cookie, q.hash>> \in sent
          /\ q.value \in Elems => elem[q.value].key = q.hash
      BY <3>1 DEF EntryInv, OwnFlow
    <3> HIDE DEF q
    <3> DEFINE Kept ==
          /\ \A i \in Elems :
               \/ elem'[i].key = elem[i].key /\ elem'[i].cookie = elem[i].cookie
               \/ elem'[i].key = q.hash /\ elem'[i].cookie = q.so_cookie
          /\ \A i \in Elems : elem[i].key \in Hashes => elem'[i].key = elem[i].key
    <3>0. \A i \in Elems :
            elem[i] = [key |-> elem[i].key, last_tx_ns |-> elem[i].last_tx_ns,
                       cookie |-> elem[i].cookie]
      BY <1>a DEF Entries, NoEntry
    <3>c. Kept
      <4>1. ASSUME NEW v \in Victims,
                   elem' = [elem EXCEPT ![v] = [key |-> q.hash,
                              last_tx_ns |-> q.now, cookie |-> q.so_cookie]]
            PROVE  Kept
        <5>1. v \in Elems /\ elem[v].key \notin Hashes
          BY <1>a DEF Victims
        <5>2. \A i \in Elems :
                elem'[i] = IF i = v THEN [key |-> q.hash, last_tx_ns |-> q.now,
                                          cookie |-> q.so_cookie]
                           ELSE elem[i]
          BY <1>a, <4>1, <5>1
        <5> QED
          BY <5>1, <5>2
      <4>2. ASSUME q.value \in Elems, NEW w,
                   elem' = [elem EXCEPT ![q.value].last_tx_ns = w]
            PROVE  Kept
        <5>1. \A i \in Elems :
                /\ elem'[i].key = elem[i].key /\ elem'[i].cookie = elem[i].cookie
          BY <1>a, <3>0, <4>2
        <5> QED
          BY <5>1
      <4>3. ASSUME q.value \in Elems,
                   elem' = [elem EXCEPT ![q.value].cookie = q.so_cookie]
            PROVE  Kept
        <5>1. \A i \in Elems :
                /\ elem'[i].key = elem[i].key
                /\ elem'[i].cookie = IF i = q.value THEN q.so_cookie ELSE elem[i].cookie
          BY <1>a, <3>0, <4>3
        <5> QED
          BY <3>2, <4>3, <5>1
      <4>4. CASE elem' = elem
        BY <4>4
      <4> QED
        BY <3>1, <4>1, <4>2, <4>3, <4>4
    <3>3. \A i \in Elems :
            \/ elem'[i].key = elem[i].key /\ elem'[i].cookie = elem[i].cookie
            \/ elem'[i].key = q.hash /\ elem'[i].cookie = q.so_cookie
      BY <3>c
    <3>4. \A i \in Elems : elem[i].key \in Hashes => elem'[i].key = elem[i].key
      BY <3>c
    <3>5. EntryFromSender'
      BY <3>1, <3>2, <3>3 DEF EntryInv, EntryFromSender
    <3>6. \A s \in TxTasks : tx[s].value \in Elems =>
            elem'[tx[s].value].key = elem[tx[s].value].key
      BY <3>4 DEF TypeInv, TxPointer
    <3>7. OwnFlow(c)'
      BY <3>1, <3>2, <3>6 DEF OwnFlow, q
    <3>8. \A s \in TxTasks : OwnFlow(tx[s])'
      <4> TAKE s \in TxTasks
      <4>1. CASE s = t
        BY <2>2, <3>7, <4>1 DEF OwnFlow
      <4>2. CASE s # t
        BY <2>2, <3>1, <3>6, <4>2 DEF EntryInv, OwnFlow
      <4> QED
        BY <4>1, <4>2
    <3> QED
      BY <3>5, <3>8 DEF EntryInv
  <2> QED
    BY <2>1, <2>3, <2>4
<1>2. CASE Receiver
  <2>1. UNCHANGED <<elem, tx, sent>>
    BY <1>2, ReceiverReads DEF flowVars
  <2> QED
    BY <2>1 DEF EntryInv, EntryFromSender, OwnFlow
<1>3. CASE ~Sender /\ ~Receiver
  <2>1. UNCHANGED <<elem, tx, sent>>
    BY <1>3, OtherStep
  <2> QED
    BY <2>1 DEF EntryInv, EntryFromSender, OwnFlow
<1> QED
  BY <1>1, <1>2, <1>3

\* What the flow table owes a packet changes with the clock only, while the
\* program runs alone.
LEMMA FlowOwnerStep ==
  ASSUME ~Overlap, TypeInv, OwnerInv, AloneInv, ClockInv, FlowOwnerInv,
         [Next]_vars
  PROVE  FlowOwnerInv'
<1> DEFINE Early == {"clock", "age", "select_flow"}
           Owed(r) ==
             LET found == Lookup(r.pkt.hash)
             IN  r.pc # "idle" /\ r.owner # NoSocket =>
                   /\ found \in Elems /\ elem[found].cookie = r.owner
                   /\ r.pc \in Early => r.value = found
                   /\ r.pc = "age" => elem[found].last_tx_ns <= r.now
                   /\ r.pc \in NewFlowPcs =>
                        \/ r.owner \notin open
                        \/ time - elem[found].last_tx_ns > Timeout
           Find(e, h) == IF \E i \in Elems : e[i].key = h
                         THEN CHOOSE i \in Elems : e[i].key = h ELSE NoElem
           OwedIn(r, e, tm, op) ==
             LET found == Find(e, r.pkt.hash)
             IN  r.pc # "idle" /\ r.owner # NoSocket =>
                   /\ found \in Elems /\ e[found].cookie = r.owner
                   /\ r.pc \in Early => r.value = found
                   /\ r.pc = "age" => e[found].last_tx_ns <= r.now
                   /\ r.pc \in NewFlowPcs =>
                        r.owner \notin op \/ tm - e[found].last_tx_ns > Timeout
<1>d. \A r : Owed(r) <=> OwedIn(r, elem, time, open)
  BY DEF Lookup
<1>e. \A s \in RxTasks : Owed(rx[s])' <=> OwedIn(rx'[s], elem', time', open')
  BY DEF Lookup
<1> HIDE DEF Find, OwedIn
<1>a. /\ \A t \in RxTasks : rx[t].now <= time
      /\ dissector = "FLOW" => \A t \in RxTasks : Owed(rx[t])
  BY DEF FlowOwnerInv
<1>b. ASSUME /\ \A t \in RxTasks : rx'[t].now <= time'
             /\ dissector' = "FLOW" => \A t \in RxTasks : Owed(rx[t])'
      PROVE  FlowOwnerInv'
  BY <1>b DEF FlowOwnerInv
<1>c. /\ time \in Nat /\ rx \in [RxTasks -> Runs]
      /\ \A i \in Elems : elem[i].last_tx_ns \in Times
      /\ \A i \in Elems : elem[i].last_tx_ns <= time
      /\ Times \subseteq Nat
  BY FlowTimeAssumption
     DEF TypeInv, TxType, RxType, Entries, NoEntry, Times, ClockInv
<1>1. CASE Sender
  <2>1. /\ \A s \in RxTasks : rx[s].pc = "idle"
        /\ UNCHANGED <<rx, time>>
    BY <1>1, CallStep DEF rxVars
  <2> QED
    BY <1>a, <1>b, <2>1
<1>2. CASE Receiver
  <2>1. UNCHANGED <<time, elem, open, dissector>>
    BY <1>2, ReceiverReads DEF flowVars
  <2>2. PICK t \in RxTasks, r \in Runs :
          /\ rx' = [rx EXCEPT ![t] = r]
          /\ \/ r = IdleRx
             \/ Dissected(rx[t], r) \/ Matched(rx[t], r) \/ Chosen(rx[t], r)
    BY <1>2, RunStep
  <2>3. \A s \in RxTasks : rx'[s] = IF s = t THEN r ELSE rx[s]
    BY <1>c, <2>2
  <2> DEFINE q == rx[t]
  <2>4. r.now <= time
    BY <1>a, <1>c, <2>2 DEF IdleRx, Dissected, Matched, Chosen
  <2>5. ASSUME dissector = "FLOW" PROVE Owed(r)
    <3> SUFFICES ASSUME r.pc # "idle", r.owner # NoSocket
                 PROVE  LET found == Lookup(r.pkt.hash)
                        IN  /\ found \in Elems /\ elem[found].cookie = r.owner
                            /\ r.pc \in Early => r.value = found
                            /\ r.pc = "age" => elem[found].last_tx_ns <= r.now
                            /\ r.pc \in NewFlowPcs =>
                                 \/ r.owner \notin open
                                 \/ time - elem[found].last_tx_ns > Timeout
      OBVIOUS
    <3> DEFINE found == Lookup(r.pkt.hash)
    <3>1. CASE q.pc = "idle" /\ r.pc = "dissect" /\ r.pkt \in Packets
               /\ r.owner = Owner(r.pkt)
      <4>1. r.pkt.hash \in Hashes
        BY <3>1, DispatchAssumption DEF PacketType
      <4>2. found \in Elems \cup {NoElem}
        BY <4>1, LookupFinds
      <4>3. found # NoElem /\ r.owner = elem[found].cookie
        BY <2>5, <3>1 DEF Owner
      <4> QED
        BY <3>1, <4>2, <4>3 DEF NewFlowPcs, ThirdStage
    <3>2. CASE q.pc # "idle" /\ Same(r, q)
      <4>1. /\ found = Lookup(q.pkt.hash) /\ r.owner = q.owner
            /\ found \in Elems /\ elem[found].cookie = r.owner
            /\ q.pc \in Early => q.value = found
            /\ q.pc = "age" => elem[found].last_tx_ns <= q.now
            /\ q.pc \in NewFlowPcs =>
                 r.owner \notin open \/ time - elem[found].last_tx_ns > Timeout
        BY <1>a, <2>5, <3>2 DEF Same
      <4> HIDE DEF found, q
      <4>2. CASE q.pc = "dissect" /\ r.pc = "clock" /\ r.value = Lookup(q.pkt.hash)
        BY <4>1, <4>2 DEF NewFlowPcs, ThirdStage, found
      <4>3. CASE q.pc = "clock" /\ r.pc = "age" /\ r.now = time /\ r.value = q.value
        BY <1>c, <4>1, <4>3 DEF NewFlowPcs, ThirdStage, found
      <4>4. CASE q.pc = "age" /\ r.pc = "select_flow" /\ r.value = q.value
        BY <4>1, <4>4 DEF NewFlowPcs, ThirdStage, found
      <4>5. CASE q.pc = "age" /\ r.pc = "new_flow" /\ ~Fresh(q)
        <5> DEFINE last == elem[found].last_tx_ns
                   now == q.now
        <5>1. /\ now \in Times /\ last \in Times /\ last <= now /\ now <= time
              /\ now \in Nat /\ last \in Nat
          BY <1>a, <1>c, <4>1, <4>5 DEF Runs, q
        <5>2. q.value = found /\ found # NoElem
          BY <4>1, <4>5, NullAssumption
        <5>3. Expired(now, last)
          BY <4>5, <5>2 DEF Fresh
        <5> HIDE DEF last, now
        <5>4. now - last > Timeout /\ Timeout \in Nat
          BY <5>1, <5>3, Elapsed
        <5>5. time - last > Timeout
          BY <1>c, <5>1, <5>4
        <5> QED
          BY <4>1, <4>5, <5>5 DEF last, found
      <4>6. CASE q.pc = "select_flow" /\ r.pc = "new_flow"
                 /\ ~Selectable(elem[q.value].cookie)
        <5>1. r.owner \notin sockhash \ Foreign
          BY <4>1, <4>6 DEF Selectable
        <5>2. r.owner \in Ours
          BY DEF Runs
        <5>3. r.owner \in sockhash \/ r.owner \notin open
          BY <4>1 DEF OwnerInv, Lasting, q
        <5> QED
          BY <4>1, <4>6, <5>1, <5>2, <5>3 DEF Ours, found
      <4>7. CASE q.pc = "select" \/ dissector = "NOOP"
        BY <2>5, <4>7 DEF OwnerInv, q
      <4>8. CASE Chosen(q, r)
        <5>1. q.pc \in NewFlowPcs /\ r.pc \in ThirdStage
          BY <4>8 DEF Chosen, NewFlowPcs, ThirdStage
        <5> QED
          BY <4>1, <5>1 DEF ThirdStage, found
      <4>9. CASE Dissected(q, r)
        BY <2>5, <3>2, <4>2, <4>7, <4>9 DEF Dissected
      <4>10. CASE Matched(q, r)
        BY <4>3, <4>4, <4>5, <4>6, <4>7, <4>10 DEF Matched
      <4> QED
        BY <2>2, <4>8, <4>9, <4>10 DEF IdleRx, q
    <3>3. r # IdleRx
      BY DEF IdleRx
    <3>4. CASE Dissected(q, r)
      <4>1. \/ q.pc = "idle" /\ r.pc = "dissect" /\ r.pkt \in Packets
               /\ r.owner = Owner(r.pkt)
            \/ q.pc # "idle" /\ Same(r, q)
        BY <3>4 DEF Dissected
      <4> QED
        BY <3>1, <3>2, <4>1
    <3>5. CASE Matched(q, r) \/ Chosen(q, r)
      <4>1. q.pc # "idle" /\ Same(r, q)
        BY <3>5 DEF Matched, Chosen
      <4> QED
        BY <3>2, <4>1
    <3> QED
      BY <2>2, <3>3, <3>4, <3>5
  <2>6. \A s \in RxTasks : rx'[s].now <= time'
    BY <1>a, <2>1, <2>3, <2>4
  <2>7. ASSUME dissector' = "FLOW", NEW s \in RxTasks PROVE Owed(rx[s])'
    <3> HIDE DEF Owed
    <3>1. Owed(rx'[s])
      BY <1>a, <2>1, <2>3, <2>5, <2>7
    <3> QED
      BY <1>d, <1>e, <2>1, <3>1
  <2> QED
    BY <1>b, <2>6, <2>7
<1>3. CASE ~Sender /\ ~Receiver
  <2>1. /\ UNCHANGED <<elem, rx, dissector>> /\ time' \in Nat /\ time <= time'
        /\ open' \subseteq open
    BY <1>3, <1>c, OtherStep
  <2>2. \A s \in RxTasks : rx'[s].now <= time'
    <3> SUFFICES ASSUME NEW s \in RxTasks
                 PROVE  rx[s].now <= time'
      BY <2>1
    <3>1. PICK last \in Nat, now \in Nat : last = rx[s].now /\ now = time'
      BY <1>c, <2>1 DEF Runs
    <3>2. last <= time /\ time <= now /\ time \in Nat
      BY <1>a, <1>c, <2>1, <3>1
    <3>3. last <= now
      BY <3>2
    <3> QED
      BY <3>1, <3>3
  <2>3. ASSUME dissector = "FLOW", NEW s \in RxTasks
        PROVE  OwedIn(rx[s], elem, time', open')
    <3> DEFINE found == Find(elem, rx[s].pkt.hash)
    <3>1. OwedIn(rx[s], elem, time, open)
      BY <1>a, <1>d, <2>3
    <3>2. ASSUME found \in Elems, time - elem[found].last_tx_ns > Timeout
          PROVE  time' - elem[found].last_tx_ns > Timeout
      <4>1. PICK last \in Nat, now \in Nat :
              last = elem[found].last_tx_ns /\ now = time'
        BY <1>c, <2>1, <3>2
      <4>2. time - last > Timeout /\ time <= now /\ time \in Nat /\ Timeout \in Nat
        BY <1>c, <2>1, <3>2, <4>1, FlowTimeAssumption DEF Timeout
      <4>3. now - last > Timeout
        BY <4>2
      <4> QED
        BY <4>1, <4>3
    <3> QED
      BY <2>1, <3>1, <3>2 DEF OwedIn
  <2>4. ASSUME dissector' = "FLOW", NEW s \in RxTasks PROVE Owed(rx[s])'
    <3>1. OwedIn(rx'[s], elem', time', open')
      BY <2>1, <2>3, <2>4
    <3> QED
      BY <1>e, <3>1
  <2> QED
    BY <1>b, <2>2, <2>4
<1> QED
  BY <1>1, <1>2, <1>3

\* Nothing is in progress at the start.
LEMMA SerialInit ==
  ASSUME Init
  PROVE  SerialInv
<1> USE DEF Init, FlowInit
<1>1. AloneInv
  BY DEF AloneInv, IdleCall, IdleRx
<1>2. ClockInv
  BY FlowTimeAssumption DEF ClockInv, IdleCall, NoEntry
<1>3. FlowOwnerInv
  BY DEF FlowOwnerInv, IdleRx
<1> QED
  BY <1>1, <1>2, <1>3 DEF SerialInv

\* With one call of a program at a time the strengthening is invariant.
THEOREM SerialInvariance == ASSUME ~Overlap PROVE Spec => [](DispatchInv /\ SerialInv)
<1>1. Init => DispatchInv /\ SerialInv
  BY DispatchInit, SerialInit
<1>2. DispatchInv /\ SerialInv /\ [Next]_vars => DispatchInv' /\ SerialInv'
  BY TypeStep, AccountStep, FilledStep, SliceStep, OwnerStep, AloneStep,
     ClockStep, FlowOwnerStep DEF DispatchInv, SerialInv
<1> QED
  BY <1>1, <1>2, PTL DEF Spec

\* README.md:41, "preserve flow affinity": without overlapping calls a packet
\* whose flow entry is fresh and names a living socket goes to that socket
\* (ebpf.c:178-388).
THEOREM FlowsKeepAffinity == ASSUME ~Overlap PROVE Spec => []FlowAffinity
<1>1. DispatchInv /\ SerialInv => FlowAffinity
  <2> SUFFICES ASSUME DispatchInv, SerialInv, dissector = "FLOW", NEW t \in RxTasks,
                      rx[t].pc \in NewFlowPcs, StillOwed(t)
               PROVE  FALSE
    BY DEF FlowAffinity, AffinityKept, NewFlowPcs, ThirdStage
  <2> DEFINE found == Lookup(rx[t].pkt.hash)
  <2>1. /\ found # NoElem /\ time - elem[found].last_tx_ns <= Timeout
        /\ elem[found].cookie \in sockhash
        /\ rx[t].owner = elem[found].cookie /\ rx[t].owner # NoSocket
    BY DEF StillOwed, Owner, Selectable
  <2>2. /\ found \in Elems
        /\ rx[t].owner \notin open \/ time - elem[found].last_tx_ns > Timeout
    BY <2>1 DEF SerialInv, FlowOwnerInv, NewFlowPcs, ThirdStage
  <2>3. elem[found].last_tx_ns \in Nat /\ time \in Nat /\ Timeout \in Nat
    BY <2>2, FlowTimeAssumption
       DEF DispatchInv, TypeInv, TxType, Entries, NoEntry, Times, Timeout
  <2>4. sockhash \subseteq open
    BY DEF DispatchInv, TypeInv, TableType
  <2> HIDE DEF found
  <2> QED
    BY <2>1, <2>2, <2>3, <2>4
<1> QED
  BY <1>1, SerialInvariance, PTL

(***************************************************************************)
(* Overlapping calls on a table below its limit.                           *)
(***************************************************************************)
\* However calls overlap, create, refresh and take over entries, an entry names
\* a socket that transmitted on its flow, as long as no element is evicted
\* (ebpf.c:892-937).
THEOREM EntriesFromSenders == ASSUME ~Evicts PROVE Spec => []EntryFromSender
<1>1. Init => TypeInv /\ EntryInv
  BY DispatchInit DEF DispatchInv, Init, FlowInit, EntryInv, EntryFromSender,
                      OwnFlow, IdleCall, NoEntry
<1>2. TypeInv /\ EntryInv /\ [Next]_vars => TypeInv' /\ EntryInv'
  BY TypeStep, EntryStep
<1>3. EntryInv => EntryFromSender
  BY DEF EntryInv
<1> QED
  BY <1>1, <1>2, <1>3, PTL DEF Spec
=============================================================================
