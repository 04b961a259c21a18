--------------------------- MODULE TubularProofs ----------------------------
(***************************************************************************)
(* Proofs about Tubular, for every number of sockets, groups, applications *)
(* and generations, and for every size of the tables.                      *)
(***************************************************************************)
EXTENDS Tubular, TLAPS

\* A descriptor that the daemon keeps is of the group it is kept for, and the
\* kernel does not drop its socket from sockhash: that is what makes
\* cookies_find_empty cover it with the next length.
KeptInv ==
  \A r \in Groups, g \in GenIds, i \in Idx :
    sockets[r][g][i] \in Sockets =>
      /\ GroupOf[sockets[r][g][i]] = r
      /\ sockets[r][g][i] \in sockhash

TubularInv ==
  /\ TypeOK /\ KeptInv
  /\ NoLeak /\ PreservedWhereRegistered /\ HandedOwnSockets

\* The row of TO_WRK_GEN is a generation of the table.
LEMMA RowType ==
  ASSUME NEW apps \in 0 .. MAX_APPS, NEW app \in Apps, NEW gen \in Nat
  PROVE  Row(apps, app, gen) \in GenIds
<1> DEFINE n == IF apps = 0 THEN 1 ELSE apps
           size == MAX_GENS \div n
<1>1. n \in 1 .. MAX_GENS
  BY SizeAssumption
<1>2. size \in Nat \ {0}
  BY <1>1, SizeAssumption
<1>3. app * size \in Nat
  BY <1>2, SizeAssumption DEF Apps
<1>4. gen % size \in Nat
  BY <1>2
<1>5. TO_WRK_GEN(apps, app, gen) \in Nat
  BY <1>3, <1>4 DEF TO_WRK_GEN
<1> QED
  BY <1>5, SizeAssumption DEF Row, GenIds

\* calloc and close() leave no socket in a slot.
LEMMA NewSlotsEmpty ==
  /\ NewSlots \in [GenIds -> Slots]
  /\ \A g \in GenIds, i \in Idx : NewSlots[g][i] \notin Sockets
BY TubularAssumption DEF NewSlots, Slots

\* The initial state: the tables are new.
LEMMA TubularInit == Init => TubularInv
<1> SUFFICES ASSUME Init PROVE TubularInv
  OBVIOUS
<1>1. \A r \in Groups : sockets[r] = NewSlots
  BY DEF Init
<1>2. \A r \in Groups, g \in GenIds, i \in Idx : sockets[r][g][i] \notin Sockets
  BY <1>1, NewSlotsEmpty
<1>3. KeptInv /\ NoLeak /\ PreservedWhereRegistered
  BY <1>2 DEF KeptInv, NoLeak, PreservedWhereRegistered
<1>4. sockets \in [Groups -> [GenIds -> Slots]]
  BY NewSlotsEmpty DEF Init
<1>5. cookies \in [Groups -> [GenIds -> [Idx -> Sockets \cup {NoCookie}]]]
  BY DEF Init
<1>6. max_idx \in [Groups -> [GenIds -> 0 .. MAX_SOCKETS_IN_GEN]]
  BY SizeAssumption DEF Init
<1>7. TypeOK
  BY <1>4, <1>5, <1>6 DEF TypeOK, Init
<1>8. handed.fds = <<>>
  BY DEF Init, NoMessage
<1>9. HandedOwnSockets
  BY <1>8 DEF HandedOwnSockets
<1> QED
  BY <1>3, <1>7, <1>9 DEF TubularInv

\* MSG_REGISTER_SOCKET: the renewed length covers the descriptors that the row
\* had, because their sockets are alive, and the new one.
LEMMA RegisterStep ==
  ASSUME TubularInv, NEW x \in Sockets, RegisterSocket(x)
  PROVE  TubularInv'
<1> DEFINE r == GroupOf[x]
           g == RowOf(x)
           row == cookies[r][g]
<1>1. r \in Groups /\ g \in GenIds
  BY TubularAssumption, RowType DEF RowOf
<1>2. PICK pos \in Idx, len \in 1 .. MAX_SOCKETS_IN_GEN :
        /\ pos < len
        /\ \A i \in len .. MAX_SOCKETS_IN_GEN - 1 : row[i] \notin sockhash
        /\ cookies' = [cookies EXCEPT ![r][g][pos] = x]
        /\ PreserveFd(r, g, len, pos, x)
  BY DEF RegisterSocket
<1>3. lookup(r) \subseteq {r} /\ lookup(r) \subseteq list
  BY DEF lookup
<1>4. PICK q \in IF lookup(r) # {} THEN lookup(r) ELSE {r} :
        /\ max_idx' = [max_idx EXCEPT ![q][g] = len]
        /\ sockets' = [sockets EXCEPT ![q][g][pos] = x]
        /\ list' = list \cup {q} /\ stale' = stale \ {q}
  BY <1>2 DEF PreserveFd
<1>5. q = r
  BY <1>3, <1>4
<1>6. /\ sockhash' = sockhash \cup {x}
      /\ UNCHANGED <<tubular_path, unbound, open, handed>>
  BY DEF RegisterSocket
<1>7. TypeOK
  BY DEF TubularInv
<1>8. TypeOK'
  <2>1. cookies' \in [Groups -> [GenIds -> [Idx -> Sockets \cup {NoCookie}]]]
    BY <1>1, <1>2, <1>7 DEF TypeOK
  <2>2. max_idx' \in [Groups -> [GenIds -> 0 .. MAX_SOCKETS_IN_GEN]]
    BY <1>1, <1>4, <1>5, <1>7, SizeAssumption DEF TypeOK
  <2>3. sockets' \in [Groups -> [GenIds -> Slots]]
    BY <1>1, <1>4, <1>5, <1>7 DEF TypeOK, Slots
  <2> QED
    BY <1>1, <1>4, <1>5, <1>6, <1>7, <2>1, <2>2, <2>3 DEF TypeOK
<1>9. ASSUME NEW s \in Groups, NEW h \in GenIds, NEW i \in Idx,
             sockets'[s][h][i] \in Sockets
      PROVE  /\ GroupOf[sockets'[s][h][i]] = s
             /\ sockets'[s][h][i] \in sockhash'
             /\ s \in list' /\ i < max_idx'[s][h]
             /\ cookies'[s][h][i] = sockets'[s][h][i]
  <2>1. CASE s = r /\ h = g /\ i = pos
    <3>1. /\ sockets'[r][g][pos] = x /\ cookies'[r][g][pos] = x
          /\ max_idx'[r][g] = len
      BY <1>1, <1>2, <1>4, <1>5, <1>7 DEF TypeOK, Slots
    <3> QED
      BY <2>1, <3>1, <1>2, <1>4, <1>5, <1>6
  <2>2. CASE ~(s = r /\ h = g /\ i = pos)
    <3>1. /\ sockets'[s][h][i] = sockets[s][h][i]
          /\ cookies'[s][h][i] = cookies[s][h][i]
      BY <2>2, <1>1, <1>2, <1>4, <1>5, <1>7 DEF TypeOK, Slots
    <3>2. /\ GroupOf[sockets[s][h][i]] = s /\ sockets[s][h][i] \in sockhash
          /\ s \in list /\ i < max_idx[s][h]
          /\ cookies[s][h][i] = sockets[s][h][i]
      BY <1>9, <3>1
      DEF TubularInv, KeptInv, NoLeak, PreservedWhereRegistered
    <3>3. i < max_idx'[s][h]
      <4>1. CASE s = r /\ h = g
        <5>1. max_idx'[s][h] = len
          BY <4>1, <1>1, <1>4, <1>5, <1>7 DEF TypeOK
        <5>2. row[i] \in sockhash
          BY <4>1, <3>2
        <5> QED
          BY <1>2, <5>1, <5>2, SizeAssumption DEF Idx
      <4>2. CASE ~(s = r /\ h = g)
        <5>1. max_idx'[s][h] = max_idx[s][h]
          BY <4>2, <1>1, <1>4, <1>5, <1>7 DEF TypeOK
        <5> QED
          BY <3>2, <5>1
      <4> QED
        BY <4>1, <4>2
    <3> QED
      BY <3>1, <3>2, <3>3, <1>4, <1>6
  <2> QED
    BY <2>1, <2>2
<1>10. KeptInv' /\ NoLeak' /\ PreservedWhereRegistered'
  BY <1>9 DEF KeptInv, NoLeak, PreservedWhereRegistered
<1>11. HandedOwnSockets'
  BY <1>6 DEF TubularInv, HandedOwnSockets
<1> QED
  BY <1>8, <1>10, <1>11 DEF TubularInv

\* tubular_close_wg and the removal of empty groups lose no descriptor: what is
\* beyond max_idx is none, and a group that goes has no other row.
LEMMA CloseStep ==
  ASSUME TubularInv, NEW rs \in SUBSET list, NEW gs \in SUBSET GenIds,
         CloseRows(rs, gs), UNCHANGED <<tubular_path, unbound, open, cookies>>
  PROVE  TypeOK' /\ KeptInv' /\ NoLeak' /\ PreservedWhereRegistered'
<1> DEFINE closed(r, g) == r \in rs /\ g \in gs
           fd(r, g, i) == IF closed(r, g) /\ i < max_idx[r][g] THEN Closed
                          ELSE sockets[r][g][i]
           emptied == {r \in rs : \A g \in GenIds \ gs : max_idx[r][g] = 0}
           kept == {x \in Sockets :
                      \E r \in list, g \in GenIds, i \in Idx : fd(r, g, i) = x}
<1>1. /\ max_idx' = [r \in Groups |-> [g \in GenIds |->
                       IF closed(r, g) THEN 0 ELSE max_idx[r][g]]]
      /\ sockets' = [r \in Groups |->
                       IF r \in emptied THEN NewSlots
                       ELSE [g \in GenIds |-> [i \in Idx |-> fd(r, g, i)]]]
      /\ list' = list \ emptied /\ stale' = stale \ emptied
      /\ sockhash' = sockhash \cap (open \cup kept)
  BY DEF CloseRows
<1>2. TypeOK
  BY DEF TubularInv
<1>3. \A r \in Groups, g \in GenIds, i \in Idx :
        fd(r, g, i) \in Sockets \cup {Calloc, Closed}
  BY <1>2 DEF TypeOK, Slots
<1>4. TypeOK'
  <2>1. max_idx' \in [Groups -> [GenIds -> 0 .. MAX_SOCKETS_IN_GEN]]
    BY <1>1, <1>2, SizeAssumption DEF TypeOK
  <2>2. \A r \in Groups :
          [g \in GenIds |-> [i \in Idx |-> fd(r, g, i)]] \in [GenIds -> Slots]
    BY <1>3 DEF Slots
  <2> HIDE DEF fd
  <2>3. sockets' \in [Groups -> [GenIds -> Slots]]
    BY <1>1, <2>2, NewSlotsEmpty
  <2>4. stale' \subseteq list' /\ list' \subseteq Groups /\ sockhash' \subseteq Sockets
    BY <1>1, <1>2 DEF TypeOK
  <2>5. open' \cap unbound' = {} /\ cookies' = cookies
    BY <1>2 DEF TypeOK
  <2> QED
    BY <1>2, <2>1, <2>3, <2>4, <2>5 DEF TypeOK
<1>5. ASSUME NEW r \in Groups, NEW g \in GenIds, NEW i \in Idx,
             sockets'[r][g][i] \in Sockets
      PROVE  /\ GroupOf[sockets'[r][g][i]] = r
             /\ sockets'[r][g][i] \in sockhash'
             /\ r \in list' /\ i < max_idx'[r][g]
             /\ cookies'[r][g][i] = sockets'[r][g][i]
  <2>1. r \notin emptied
    BY <1>1, <1>5, NewSlotsEmpty
  <2>2. sockets'[r][g][i] = fd(r, g, i)
    BY <1>1, <2>1
  <2>3. ~(closed(r, g) /\ i < max_idx[r][g]) /\ sockets'[r][g][i] = sockets[r][g][i]
    BY <1>5, <2>2, TubularAssumption
  <2>4. /\ GroupOf[sockets[r][g][i]] = r /\ sockets[r][g][i] \in sockhash
        /\ r \in list /\ i < max_idx[r][g]
        /\ cookies[r][g][i] = sockets[r][g][i]
    BY <1>5, <2>3 DEF TubularInv, KeptInv, NoLeak, PreservedWhereRegistered
  <2>5. sockets'[r][g][i] \in kept
    BY <1>5, <2>2, <2>4
  <2>6. max_idx'[r][g] = max_idx[r][g]
    BY <1>1, <2>3, <2>4
  <2> QED
    BY <1>1, <2>1, <2>3, <2>4, <2>5, <2>6
<1>6. KeptInv' /\ NoLeak' /\ PreservedWhereRegistered'
  BY <1>5 DEF KeptInv, NoLeak, PreservedWhereRegistered
<1> QED
  BY <1>4, <1>6

\* A step that keeps the private table keeps the invariant, if no preserved
\* socket leaves sockhash.
LEMMA TableFrame ==
  ASSUME TubularInv, UNCHANGED <<cookies, list, max_idx, sockets, handed>>,
         open' \cap unbound' = {}, stale' \subseteq list,
         sockhash' \subseteq sockhash,
         \A x \in sockhash : Preserved(x) => x \in sockhash'
  PROVE  TubularInv'
<1>1. TypeOK'
  BY DEF TubularInv, TypeOK
<1>2. NoLeak' /\ PreservedWhereRegistered' /\ HandedOwnSockets'
  BY DEF TubularInv, NoLeak, PreservedWhereRegistered, HandedOwnSockets
<1>3. KeptInv'
  <2> SUFFICES ASSUME NEW r \in Groups, NEW g \in GenIds, NEW i \in Idx,
                      sockets[r][g][i] \in Sockets
               PROVE  /\ GroupOf[sockets[r][g][i]] = r
                      /\ sockets[r][g][i] \in sockhash'
    BY DEF KeptInv
  <2>1. /\ GroupOf[sockets[r][g][i]] = r /\ sockets[r][g][i] \in sockhash
        /\ r \in list
    BY DEF TubularInv, KeptInv, NoLeak
  <2>2. Preserved(sockets[r][g][i])
    BY <2>1 DEF Preserved
  <2> QED
    BY <2>1, <2>2
<1> QED
  BY <1>1, <1>2, <1>3 DEF TubularInv

\* MSG_SET_WORKING_GEN: Tubular gets a row of the group that was looked up.
LEMMA WorkingGenStep ==
  ASSUME TubularInv, NEW r \in Groups, NEW app \in Apps, NEW gen \in WorkingGens,
         SetWorkingGen(r, app, gen)
  PROVE  TubularInv'
<1> DEFINE wg == WorkingRow(app, gen)
           fds(q) == [i \in 1 .. max_idx[q][wg] |-> sockets[q][wg][i - 1]]
<1>1. wg \in GenIds
  BY SizeAssumption, TubularAssumption DEF WorkingRow, GenIds
<1>2. lookup(r) \subseteq list /\ lookup(r) \subseteq {r}
  BY DEF lookup
<1>3. UNCHANGED <<tubular_path, unbound, open, cookies>>
  BY DEF SetWorkingGen
<1>4. CASE CloseRows(lookup(r), {wg}) /\ UNCHANGED handed
  BY <1>1, <1>2, <1>3, <1>4, CloseStep DEF TubularInv, HandedOwnSockets
<1>5. CASE \E q \in lookup(r) :
             /\ handed' = [group |-> r, app |-> app, gen |-> gen, fds |-> fds(q)]
             /\ CloseRows({q}, {wg})
  <2>1. PICK q \in lookup(r) :
          /\ handed' = [group |-> r, app |-> app, gen |-> gen, fds |-> fds(q)]
          /\ CloseRows({q}, {wg})
    BY <1>5
  <2>2. q = r /\ r \in list
    BY <1>2, <2>1
  <2>3. TypeOK' /\ KeptInv' /\ NoLeak' /\ PreservedWhereRegistered'
    BY <1>1, <1>3, <2>1, <2>2, CloseStep
  <2>4. handed'.fds = fds(r) /\ handed'.group = r
    BY <2>1, <2>2
  <2>5. max_idx[r][wg] \in 0 .. MAX_SOCKETS_IN_GEN
    BY <1>1 DEF TubularInv, TypeOK
  <2>6. ASSUME NEW i \in 1 .. max_idx[r][wg], fds(r)[i] \in Sockets
        PROVE  GroupOf[fds(r)[i]] = r
    <3>1. i - 1 \in Idx /\ fds(r)[i] = sockets[r][wg][i - 1]
      BY <2>5, SizeAssumption DEF Idx
    <3> QED
      BY <1>1, <2>6, <3>1 DEF TubularInv, KeptInv
  <2>7. DOMAIN fds(r) = 1 .. max_idx[r][wg]
    OBVIOUS
  <2> HIDE DEF fds
  <2>8. HandedOwnSockets'
    BY <2>4, <2>6, <2>7 DEF HandedOwnSockets
  <2> QED
    BY <2>3, <2>8 DEF TubularInv
<1> QED
  BY <1>4, <1>5 DEF SetWorkingGen

\* Every step keeps the invariant.
LEMMA TubularStep == TubularInv /\ [Next]_vars => TubularInv'
<1> SUFFICES ASSUME TubularInv, [Next]_vars PROVE TubularInv'
  OBVIOUS
<1>0. TypeOK
  BY DEF TubularInv
<1>1. ASSUME NEW x \in Sockets, Open(x) PROVE TubularInv'
  BY <1>0, <1>1, TableFrame DEF Open, TypeOK
<1>2. ASSUME NEW x \in Sockets, Close(x) PROVE TubularInv'
  BY <1>0, <1>2, TableFrame DEF Close, TypeOK
<1>3. ASSUME NEW x \in Sockets, RegisterSocket(x) PROVE TubularInv'
  BY <1>3, RegisterStep
<1>4. ASSUME NEW r \in Groups, Elapse(r) PROVE TubularInv'
  BY <1>0, <1>4, TableFrame DEF Elapse, TypeOK
<1>5. ASSUME NEW r \in Groups, NEW app \in Apps, NEW gen \in WorkingGens,
             SetWorkingGen(r, app, gen)
      PROVE  TubularInv'
  BY <1>5, WorkingGenStep
<1>6. CASE Cleanup
  <2>1. TypeOK' /\ KeptInv' /\ NoLeak' /\ PreservedWhereRegistered'
    BY <1>0, <1>6, CloseStep DEF Cleanup, CleanupRows, TypeOK
  <2> QED
    BY <1>6, <2>1 DEF Cleanup, TubularInv, HandedOwnSockets
<1>7. CASE UNCHANGED vars
  BY <1>0, <1>7, TableFrame DEF vars, TypeOK
<1> QED
  BY <1>1, <1>2, <1>3, <1>4, <1>5, <1>6, <1>7 DEF Next

\* The invariant holds in every reachable state.
THEOREM TubularInvariance == Spec => []TubularInv
<1>1. Init => TubularInv
  BY TubularInit
<1>2. TubularInv /\ [Next]_vars => TubularInv'
  BY TubularStep
<1> QED
  BY <1>1, <1>2, PTL DEF Spec

\* The private table of the daemon keeps its types (tubular.c:117-123).
THEOREM TubularTypes == Spec => []TypeOK
<1>1. TubularInv => TypeOK
  BY DEF TubularInv
<1> QED
  BY <1>1, TubularInvariance, PTL

\* tubular_close_wg closes up to max_idx (tubular.c:201): no descriptor is ever
\* beyond it or in a group that left the list, for every order of registrations,
\* hand-overs and time-outs.
THEOREM NothingLeaks == Spec => []NoLeak
<1>1. TubularInv => NoLeak
  BY DEF TubularInv
<1> QED
  BY <1>1, TubularInvariance, PTL

\* What Tubular receives was registered in the group of the message.
THEOREM OwnSocketsHanded == Spec => []HandedOwnSockets
<1>1. TubularInv => HandedOwnSockets
  BY DEF TubularInv
<1> QED
  BY <1>1, TubularInvariance, PTL

\* The private table and the cookie table agree slot by slot.
THEOREM PreservedInPlace == Spec => []PreservedWhereRegistered
<1>1. TubularInv => PreservedWhereRegistered
  BY DEF TubularInv
<1> QED
  BY <1>1, TubularInvariance, PTL
=============================================================================
