------------------------ MODULE GroupRefinementProofs ------------------------
(***************************************************************************)
(* Proof that Registration implements SocketGroup, for every number of     *)
(* sockets, processes, generations and slots and every length of the ring. *)
(***************************************************************************)
EXTENDS RegistrationProofs, GroupRefinement, SequenceTheorems

\* A row of SelectableRows: n slots, the sockets that can be selected.
RowOf(n, row, selectable) ==
  [i \in 1 .. n |->
     IF row[i - 1] \in selectable THEN row[i - 1] ELSE NoCookie]

\* SelectableRows is made of them.
LEMMA RowsAreRowOf ==
  /\ SelectableRows =
       [g \in GenIds |-> RowOf(max_idx[g], cookies[g], sockhash)]
  /\ SelectableRows' =
       [g \in GenIds |-> RowOf(max_idx'[g], cookies'[g], sockhash')]
  BY DEF SelectableRows, RowOf

\* Such a row is a sequence of n slots.
LEMMA RowIsSeq ==
  ASSUME NEW n \in 0 .. MAX_SOCKETS_IN_GEN,
         NEW row \in [Idx -> Sockets \cup {NoCookie}], NEW H
  PROVE  /\ RowOf(n, row, H) \in Seq(Sockets \cup {NoCookie})
         /\ Len(RowOf(n, row, H)) = n
         /\ DOMAIN RowOf(n, row, H) = 1 .. n
         /\ \A i \in 1 .. n :
              RowOf(n, row, H)[i] =
                IF row[i - 1] \in H THEN row[i - 1] ELSE NoCookie
<1>1. \A i \in 1 .. n : i - 1 \in Idx
  BY SizeAssumption DEF Idx
<1>2. RowOf(n, row, H) \in [1 .. n -> Sockets \cup {NoCookie}]
  BY <1>1 DEF RowOf
<1>3. n \in Nat
  BY SizeAssumption
<1>4. RowOf(n, row, H) \in Seq(Sockets \cup {NoCookie})
  BY <1>2, <1>3, SeqDef
<1>5. Len(RowOf(n, row, H)) = n
  BY <1>2, <1>3, <1>4, LenProperties
<1> QED
  BY <1>2, <1>4, <1>5 DEF RowOf

\* A longer max_idx that shows one more socket appends it.
LEMMA RowGrows ==
  ASSUME NEW n \in 0 .. MAX_SOCKETS_IN_GEN - 1,
         NEW row \in [Idx -> Sockets \cup {NoCookie}], NEW H, row[n] \in H
  PROVE  RowOf(n + 1, row, H) = Append(RowOf(n, row, H), row[n])
<1> DEFINE S == Sockets \cup {NoCookie}
           r == RowOf(n, row, H)
           q == RowOf(n + 1, row, H)
<1>1. n \in 0 .. MAX_SOCKETS_IN_GEN /\ n + 1 \in 0 .. MAX_SOCKETS_IN_GEN
      /\ n \in Idx /\ n \in Nat
  BY SizeAssumption DEF Idx
<1>2. r \in Seq(S) /\ Len(r) = n
      /\ \A i \in 1 .. n : r[i] = IF row[i - 1] \in H THEN row[i - 1]
                                                      ELSE NoCookie
  BY <1>1, RowIsSeq
<1>3. q \in Seq(S) /\ Len(q) = n + 1
      /\ \A i \in 1 .. n + 1 : q[i] = IF row[i - 1] \in H THEN row[i - 1]
                                                          ELSE NoCookie
  BY <1>1, RowIsSeq
<1>4. row[n] \in S
  BY <1>1
<1>5. /\ Append(r, row[n]) \in Seq(S) /\ Len(Append(r, row[n])) = n + 1
      /\ \A i \in 1 .. n : Append(r, row[n])[i] = r[i]
      /\ Append(r, row[n])[n + 1] = row[n]
  BY <1>2, <1>4, AppendProperties
<1> HIDE DEF r, q, S
<1>6. ASSUME NEW i \in 1 .. n + 1 PROVE q[i] = Append(r, row[n])[i]
  <2>1. CASE i = n + 1
    BY <1>1, <1>3, <1>5, <2>1
  <2>2. CASE i \in 1 .. n
    BY <1>2, <1>3, <1>5, <2>2
  <2>3. n \in Nat /\ i \in 1 .. n + 1 => i = n + 1 \/ i \in 1 .. n
    OBVIOUS
  <2> QED
    BY <1>1, <2>1, <2>2, <2>3, Zenon
<1>7. q = Append(r, row[n])
  BY <1>3, <1>5, <1>6, SeqEqual
<1> QED
  BY <1>7 DEF r, q

\* A shorter max_idx cuts the row.
LEMMA RowShrinks ==
  ASSUME NEW n \in 0 .. MAX_SOCKETS_IN_GEN, NEW m \in 0 .. n,
         NEW row \in [Idx -> Sockets \cup {NoCookie}], NEW H
  PROVE  RowOf(m, row, H) = SubSeq(RowOf(n, row, H), 1, m)
<1> DEFINE S == Sockets \cup {NoCookie}
           r == RowOf(n, row, H)
           q == RowOf(m, row, H)
<1>1. m \in 0 .. MAX_SOCKETS_IN_GEN /\ m \in Int
  BY SizeAssumption
<1>2. r \in Seq(S) /\ Len(r) = n
      /\ \A i \in 1 .. n : r[i] = IF row[i - 1] \in H THEN row[i - 1]
                                                      ELSE NoCookie
  BY RowIsSeq
<1>3. q \in Seq(S) /\ Len(q) = m
      /\ \A i \in 1 .. m : q[i] = IF row[i - 1] \in H THEN row[i - 1]
                                                      ELSE NoCookie
  BY <1>1, RowIsSeq
<1>4. \A i \in 1 .. m : r[i] \in S
  BY <1>1, <1>2, ElementOfSeq
<1> HIDE DEF r, q, S
<1>5. /\ SubSeq(r, 1, m) \in Seq(S)
      /\ Len(SubSeq(r, 1, m)) = IF 1 <= m THEN m - 1 + 1 ELSE 0
      /\ \A i \in 1 .. m - 1 + 1 : SubSeq(r, 1, m)[i] = r[1 + i - 1]
  BY <1>1, <1>4, SubSeqProperties
<1>6. Len(SubSeq(r, 1, m)) = m
      /\ \A i \in 1 .. m : SubSeq(r, 1, m)[i] = r[i]
  BY <1>1, <1>5
<1>7. ASSUME NEW i \in 1 .. m PROVE q[i] = SubSeq(r, 1, m)[i]
  <2>1. i \in 1 .. n
    BY <1>1
  <2>2. q[i] = r[i]
    BY <1>2, <1>3, <2>1
  <2> QED
    BY <1>6, <2>2
<1>8. q = SubSeq(r, 1, m)
  BY <1>3, <1>5, <1>6, <1>7, SeqEqual
<1> QED
  BY <1>8 DEF r, q

(***************************************************************************)
(* LengthInv: what the second store of GSM_SET_COOKIES makes of the row.   *)
(***************************************************************************)
\* Until the daemon has stored max_idx, the length it computed extends the row
\* by the slot it chose, or by nothing.
LengthInv ==
  /\ pc = "max_idx" => cookies[EGen][free_pos] = f
  /\ pc \in {"cookies", "max_idx"} =>
       \/ gen_len <= max_idx[EGen]
       \/ free_pos = max_idx[EGen] /\ gen_len = max_idx[EGen] + 1

\* LengthInv is kept by every action but Delete.
LEMMA LengthStep ==
  FullInv /\ TableInv /\ LengthInv /\ [RebindNext]_vars => LengthInv'
<1> SUFFICES ASSUME FullInv, TableInv, LengthInv, [RebindNext]_vars,
                    pc' \in {"cookies", "max_idx"}
             PROVE  LengthInv'
  BY DEF LengthInv
<1>1. TypeOK /\ DaemonInv /\ GroupInv
  BY DEF FullInv, TableInv
<1> USE <1>1 DEF groupVars, metricVars, procVars, localVars
<1>2. CASE UNCHANGED vars
  BY <1>2 DEF vars, LengthInv, EGen, e
<1>3. CASE AppAction
  <2>1. AppFrame
    BY <1>3, AppFrameHolds DEF FullInv
  <2>2. EGen' = EGen
    BY <2>1, AppKeepsHead, EGenFrame DEF AppFrame, DaemonInv
  <2> QED
    BY <2>1, <2>2 DEF AppFrame, LengthInv
<1>4. CASE FindEmpty
  <2> DEFINE row == cookies[EGen]
  <2>1. PICK pos \in Idx, len \in 1 .. MAX_SOCKETS_IN_GEN :
          /\ IsFreePos(row, pos) /\ IsGenLen(row, pos, len)
          /\ free_pos' = pos /\ gen_len' = len
          /\ pc = "find_empty" /\ pc' = "cookies"
          /\ UNCHANGED <<cookies, max_idx, ring, state>>
    BY <1>4 DEF FindEmpty, GroupInv
  <2>2. EGen' = EGen /\ EGen \in GenIds
    BY <2>1, EGenFrame, MessageType DEF Registering
  <2>3. \A i \in Idx : row[i] \in sockhash => i < max_idx[EGen]
    BY <2>1, <2>2 DEF TableInv, CoverInv
  <2>4. max_idx[EGen] \in Nat /\ pos \in Nat /\ len \in Nat
    BY <2>2, SizeAssumption DEF TypeOK, GroupType, Idx
  <2>5. pos <= max_idx[EGen]
    <3>1. CASE pos = 0
      BY <2>4, <3>1
    <3>2. CASE pos > 0
      <4>1. row[pos - 1] \in sockhash /\ pos - 1 \in Idx
        BY <2>1, <2>4, <3>2, SizeAssumption DEF IsFreePos, Idx
      <4> QED
        BY <2>3, <2>4, <4>1
    <3> QED
      BY <2>4, <3>1, <3>2
  <2>6. len <= max_idx[EGen] \/ (pos = max_idx[EGen] /\ len = pos + 1)
    <3>1. CASE len - 1 = pos
      BY <2>4, <2>5, <3>1
    <3>2. CASE row[len - 1] \in sockhash
      <4>1. len - 1 \in Idx
        BY SizeAssumption DEF Idx
      <4> QED
        BY <2>3, <2>4, <3>2, <4>1
    <3> QED
      BY <2>1, <3>1, <3>2 DEF IsGenLen
  <2> QED
    BY <2>1, <2>2, <2>6 DEF LengthInv
<1>5. CASE SetCookies
  <2>1. exists
    BY <1>5 DEF SetCookies, DaemonInv, GroupInv
  <2>2. EGen \in GenIds /\ EGen' = EGen /\ free_pos \in Idx /\ e.cookie = f
    BY <1>5, <2>1, EGenFrame, MessageType
    DEF SetCookies, Registering, DaemonInv, Placed, Holding, e
  <2>3. cookies'[EGen][free_pos] = f
    BY <1>5, <2>1, <2>2 DEF SetCookies, TypeOK, GroupType, Tables
  <2> QED
    BY <1>5, <2>1, <2>2, <2>3 DEF SetCookies, LengthInv
<1>6. CASE LookupState
  BY <1>6 DEF LookupState, FirstStep, DaemonExit, e, TypeOK, DaemonType, Msgs,
              RegisterMsg, WorkingGenMsg, DissectorMsg
<1>7. CASE \/ FindSocket \/ SetMaxIdx \/ WriteIdx \/ Attach \/ CallFails
           \/ AddCritical \/ CountCritical \/ WorkingGenSet \/ Return
  BY <1>7 DEF FindSocket, SetMaxIdx, WriteIdx, Attach, CallFails, AddCritical,
     CountCritical, WorkingGenSet, Return, DaemonExit
<1> QED
  BY <1>2, <1>3, <1>4, <1>5, <1>6, <1>7
  DEF RebindNext, RegenNext, Next, Daemon, AppAction

(***************************************************************************)
(* Each step is one of the abstract group, or none.                        *)
(***************************************************************************)
RefinementInv == FullInv /\ TableInv /\ LengthInv

\* A step that leaves the visible slots and the closed sockets alone.
LEMMA Stutter ==
  ASSUME UNCHANGED <<cookies, max_idx, bound>>, LiveSockets' = LiveSockets,
         \A g \in GenIds, i \in Idx :
           cookies[g][i] \in sockhash' <=> cookies[g][i] \in sockhash,
         TypeOK
  PROVE  UNCHANGED Group!groupVars
<1>1. \A g \in GenIds : \A i \in 1 .. max_idx[g] : i - 1 \in Idx
  BY SizeAssumption DEF TypeOK, GroupType, Idx
<1>2. SelectableRows' = SelectableRows
  BY <1>1 DEF SelectableRows
<1> QED
  BY <1>2 DEF Group!groupVars

\* A step that closes descriptors: the sockets that had no other one leave.
LEMMA Leaves ==
  ASSUME TypeOK, SocketInv, UNCHANGED <<cookies, max_idx, bound>>,
         LiveSockets' \subseteq LiveSockets,
         sockhash' = sockhash \cap LiveSockets'
  PROVE  Group!Next
<1> DEFINE S == LiveSockets \ LiveSockets'
<1>1. S \in SUBSET Sockets /\ LiveSockets \subseteq bound /\ NoCookie \notin S
  BY SocketAssumption DEF LiveSockets, Alive, TypeOK, SocketType
<1>2. bound' \ LiveSockets' = (bound \ LiveSockets) \cup S
  BY <1>1
<1>3. \A g \in GenIds : /\ DOMAIN SelectableRows[g] = 1 .. max_idx[g]
                        /\ \A i \in 1 .. max_idx[g] : i - 1 \in Idx
  BY SizeAssumption DEF SelectableRows, TypeOK, GroupType, Idx
<1>4. ASSUME NEW g \in GenIds, NEW i \in 1 .. max_idx[g]
      PROVE  (IF cookies[g][i - 1] \in sockhash'
              THEN cookies[g][i - 1] ELSE NoCookie)
             = (IF SelectableRows[g][i] \in S
                THEN NoCookie ELSE SelectableRows[g][i])
  BY <1>1, <1>3 DEF SelectableRows, SocketInv
<1>5. SelectableRows' =
        [g \in GenIds |-> [i \in DOMAIN SelectableRows[g] |->
           IF SelectableRows[g][i] \in S
           THEN NoCookie ELSE SelectableRows[g][i]]]
  <2> SUFFICES ASSUME NEW g \in GenIds
               PROVE  SelectableRows'[g] =
                        [i \in DOMAIN SelectableRows[g] |->
                           IF SelectableRows[g][i] \in S
                           THEN NoCookie ELSE SelectableRows[g][i]]
    BY DEF SelectableRows
  <2>1. SelectableRows'[g] = [i \in 1 .. max_idx[g] |->
          IF cookies[g][i - 1] \in sockhash'
          THEN cookies[g][i - 1] ELSE NoCookie]
    BY DEF SelectableRows
  <2> QED
    BY <1>3, <1>4, <2>1
<1>6. Group!Leave(S)
  BY <1>2, <1>5 DEF Group!Leave
<1> QED
  BY <1>1, <1>6 DEF Group!Next


\* Storing a cookie in a visible slot of a closed socket is a Join; storing it
\* behind the row is not visible yet.
LEMMA CookieJoins ==
  ASSUME RefinementInv, SetCookies
  PROVE  Group!Next \/ UNCHANGED Group!groupVars
<1>1. TypeOK /\ DaemonInv /\ GroupInv
  BY DEF RefinementInv, FullInv, TableInv
<1>2. exists
  BY <1>1 DEF SetCookies, DaemonInv, GroupInv
<1>3. /\ pc = "cookies"
      /\ cookies' = [cookies EXCEPT ![EGen][free_pos] = e.cookie]
      /\ UNCHANGED <<max_idx, bound, holders, f, sockhash>>
  BY <1>2 DEF SetCookies, procVars, localVars
<1>4. /\ EGen \in GenIds /\ free_pos \in Idx /\ e.cookie = f
      /\ f \in Sockets /\ f \in LiveSockets /\ f \in sockhash
  BY <1>1, <1>3, MessageType
  DEF Registering, DaemonInv, Placed, Holding, e, LiveSockets, Alive, TypeOK,
      SocketType
<1>5. /\ cookies'[EGen][free_pos] = f
      /\ \A g \in GenIds, i \in Idx :
           g # EGen \/ i # free_pos => cookies'[g][i] = cookies[g][i]
  BY <1>1, <1>3, <1>4 DEF TypeOK, GroupType, Tables
<1>6. cookies[EGen][free_pos] \notin sockhash
  BY <1>3 DEF RefinementInv, TableInv, ScanInv
<1>7. LiveSockets' = LiveSockets
  BY <1>3 DEF LiveSockets, Alive
<1>8. \A g \in GenIds : /\ DOMAIN SelectableRows[g] = 1 .. max_idx[g]
                        /\ \A i \in 1 .. max_idx[g] : i - 1 \in Idx
                        /\ max_idx[g] \in Nat
  BY <1>1, SizeAssumption DEF SelectableRows, TypeOK, GroupType, Idx
<1>9. CASE free_pos < max_idx[EGen]
  <2> DEFINE n == free_pos + 1
  <2>1. n \in 1 .. max_idx[EGen] /\ n - 1 = free_pos /\ free_pos \in Nat
    BY <1>4, <1>8, <1>9 DEF Idx
  <2>2. SelectableRows[EGen][n] = NoCookie
    BY <1>4, <1>6, <2>1 DEF SelectableRows
  <2>3. SelectableRows' = [SelectableRows EXCEPT ![EGen][n] = f]
    <3> DEFINE R == [SelectableRows EXCEPT ![EGen][n] = f]
    <3>1. ASSUME NEW g \in GenIds
          PROVE  SelectableRows'[g] = R[g]
      <4>1. SelectableRows'[g] = [i \in 1 .. max_idx[g] |->
              IF cookies'[g][i - 1] \in sockhash
              THEN cookies'[g][i - 1] ELSE NoCookie]
        BY <1>3 DEF SelectableRows
      <4>2. SelectableRows[g] = [i \in 1 .. max_idx[g] |->
              IF cookies[g][i - 1] \in sockhash
              THEN cookies[g][i - 1] ELSE NoCookie]
        BY DEF SelectableRows
      <4>3. CASE g # EGen
        <5>1. R[g] = SelectableRows[g]
          BY <4>3 DEF SelectableRows
        <5> QED
          BY <1>5, <1>8, <4>1, <4>2, <4>3, <5>1
      <4>4. CASE g = EGen
        <5>1. R[g] = [SelectableRows[g] EXCEPT ![n] = f]
          BY <4>4 DEF SelectableRows
        <5>2. ASSUME NEW i \in 1 .. max_idx[g]
              PROVE  SelectableRows'[g][i] = R[g][i]
          <6>1. CASE i = n
            BY <1>4, <1>5, <1>8, <2>1, <4>1, <4>2, <4>4, <5>1, <6>1
          <6>2. CASE i # n
            <7>1. i - 1 # free_pos /\ i - 1 \in Idx
              BY <1>8, <2>1, <6>2
            <7>2. R[g][i] = SelectableRows[g][i]
              BY <4>2, <5>1, <6>2
            <7>3. cookies'[g][i - 1] = cookies[g][i - 1]
              BY <1>5, <7>1
            <7> QED
              BY <4>1, <4>2, <7>2, <7>3
          <6> QED
            BY <6>1, <6>2
        <5> QED
          BY <4>1, <4>2, <5>1, <5>2
      <4> QED
        BY <4>3, <4>4
    <3> QED
      BY <3>1 DEF SelectableRows
  <2>4. Group!Join(EGen, f)
    BY <1>3, <1>4, <1>7, <1>8, <2>1, <2>2, <2>3 DEF Group!Join
  <2> QED
    BY <1>4, <2>4 DEF Group!Next
<1>10. CASE ~(free_pos < max_idx[EGen])
  <2>1. \A g \in GenIds : \A i \in 1 .. max_idx[g] :
          cookies'[g][i - 1] = cookies[g][i - 1]
    BY <1>4, <1>5, <1>8, <1>10 DEF Idx
  <2>2. SelectableRows' = SelectableRows
    BY <1>3, <2>1 DEF SelectableRows
  <2> QED
    BY <1>3, <1>7, <2>2 DEF Group!groupVars
<1> QED
  BY <1>9, <1>10

\* Storing max_idx shows the new socket, or cuts off closed ones.
LEMMA LengthJoins ==
  ASSUME RefinementInv, SetMaxIdx
  PROVE  Group!Next
<1>1. TypeOK /\ DaemonInv /\ GroupInv
  BY DEF RefinementInv, FullInv, TableInv
<1>2. /\ pc = "max_idx" /\ max_idx' = [max_idx EXCEPT ![EGen] = gen_len]
      /\ UNCHANGED <<cookies, bound, holders, f, sockhash>>
  BY <1>1 DEF SetMaxIdx, GroupInv, procVars, localVars
<1>3. /\ EGen \in GenIds /\ free_pos \in Idx
      /\ f \in Sockets /\ f \in LiveSockets /\ f \in sockhash
      /\ gen_len \in 1 .. MAX_SOCKETS_IN_GEN
      /\ max_idx[EGen] \in 0 .. MAX_SOCKETS_IN_GEN
      /\ cookies[EGen] \in [Idx -> Sockets \cup {NoCookie}]
  BY <1>1, <1>2, MessageType
  DEF Registering, DaemonInv, Placed, Holding, LiveSockets, Alive, TypeOK,
      SocketType, DaemonType, GroupType, Tables
<1> DEFINE row == cookies[EGen]
           old == max_idx[EGen]
<1>4. LiveSockets' = LiveSockets
  BY <1>2 DEF LiveSockets, Alive
<1>5. SelectableRows[EGen] = RowOf(old, row, sockhash)
  BY <1>3, RowsAreRowOf
<1>6. SelectableRows' =
        [SelectableRows EXCEPT ![EGen] = RowOf(gen_len, row, sockhash)]
  <2> DEFINE R == [SelectableRows EXCEPT ![EGen] =
                     RowOf(gen_len, row, sockhash)]
  <2>1. ASSUME NEW g \in GenIds PROVE SelectableRows'[g] = R[g]
    <3>1. SelectableRows'[g] = RowOf(max_idx'[g], cookies[g], sockhash)
          /\ SelectableRows[g] = RowOf(max_idx[g], cookies[g], sockhash)
      BY <1>2, RowsAreRowOf
    <3>2. max_idx'[g] = IF g = EGen THEN gen_len ELSE max_idx[g]
      BY <1>1, <1>2, <1>3 DEF TypeOK, GroupType
    <3>3. R[g] = IF g = EGen THEN RowOf(gen_len, row, sockhash)
                             ELSE SelectableRows[g]
      BY DEF SelectableRows
    <3> QED
      BY <3>1, <3>2, <3>3
  <2>2. DOMAIN SelectableRows' = GenIds /\ DOMAIN R = GenIds
    BY DEF SelectableRows
  <2> QED
    BY <2>1, <2>2, RowsAreRowOf
<1>7. Len(SelectableRows[EGen]) = old
      /\ \A i \in 1 .. old : SelectableRows[EGen][i] =
           IF row[i - 1] \in sockhash THEN row[i - 1] ELSE NoCookie
  BY <1>3, <1>5, RowIsSeq
<1>8. old \in Nat /\ gen_len \in Nat /\ MAX_SOCKETS_IN_GEN \in Nat
  BY <1>3, SizeAssumption
<1>9. CASE gen_len <= old
  <2>1. gen_len \in 0 .. old
    BY <1>8, <1>9
  <2>2. RowOf(gen_len, row, sockhash) = SubSeq(SelectableRows[EGen], 1, gen_len)
    BY <1>3, <1>5, <2>1, RowShrinks
  <2>3. ASSUME NEW i \in gen_len + 1 .. old
        PROVE  SelectableRows[EGen][i] = NoCookie
    <3>1. i \in 1 .. old /\ i - 1 \in Idx /\ i - 1 >= gen_len
      BY <1>3, <1>8 DEF Idx
    <3>2. row[i - 1] \notin sockhash
      BY <1>2, <3>1 DEF RefinementInv, TableInv, ScanInv
    <3> QED
      BY <1>7, <3>1, <3>2
  <2>4. Group!Shrink(EGen)
    BY <1>2, <1>4, <1>6, <1>7, <2>1, <2>2, <2>3 DEF Group!Shrink
  <2> QED
    BY <1>3, <2>4 DEF Group!Next
<1>10. CASE ~(gen_len <= old)
  <2>1. gen_len = old + 1 /\ row[old] = f
    BY <1>2, <1>10 DEF RefinementInv, LengthInv
  <2>2. old \in 0 .. MAX_SOCKETS_IN_GEN - 1 /\ old < MAX_SOCKETS_IN_GEN
    BY <1>3, <1>8, <2>1
  <2>3. RowOf(gen_len, row, sockhash) = Append(SelectableRows[EGen], f)
    BY <1>3, <1>5, <2>1, <2>2, RowGrows
  <2>4. Group!Join(EGen, f)
    BY <1>2, <1>3, <1>4, <1>6, <1>7, <2>2, <2>3 DEF Group!Join
  <2> QED
    BY <1>3, <2>4 DEF Group!Next
<1> QED
  BY <1>9, <1>10

\* Every step of Registration without Delete.
LEMMA RefinementStep ==
  RefinementInv /\ [RebindNext]_vars => [Group!Next]_(Group!groupVars)
<1> SUFFICES ASSUME RefinementInv, [RebindNext]_vars
             PROVE  Group!Next \/ UNCHANGED Group!groupVars
  OBVIOUS
<1>1. TypeOK /\ DaemonInv /\ SocketInv /\ PublishedIsSelectable /\ GroupInv
  BY DEF RefinementInv, FullInv, TableInv
<1> USE <1>1 DEF groupVars, metricVars, procVars, localVars
<1>3. ASSUME UNCHANGED <<cookies, max_idx, bound, sockhash>>,
             LiveSockets' = LiveSockets
      PROVE  UNCHANGED Group!groupVars
  BY <1>3, Stutter
<1>4. CASE UNCHANGED vars
  BY <1>3, <1>4 DEF vars, LiveSockets, Alive
<1>5. ASSUME NEW x \in Sockets, NEW p \in Procs, Bind(x, p)
      PROVE  UNCHANGED Group!groupVars
  <2>1. UNCHANGED <<cookies, max_idx, sockhash>>
    BY <1>5 DEF Bind
  <2>2. bound' \ LiveSockets' = bound \ LiveSockets
    BY <1>5 DEF Bind, LiveSockets, Alive, TypeOK, SocketType
  <2>3. SelectableRows' = SelectableRows
    BY <2>1 DEF SelectableRows
  <2> QED
    BY <2>2, <2>3 DEF Group!groupVars
<1>6. ASSUME NEW x \in Sockets, NEW p \in Procs, NEW q \in Procs, Pass(x, p, q)
      PROVE  UNCHANGED Group!groupVars
  BY <1>3, <1>6 DEF Pass, LiveSockets, Alive, TypeOK, SocketType
<1>7. ASSUME NEW x \in Sockets, NEW p \in Procs, Close(x, p)
      PROVE  Group!Next
  BY <1>7, Leaves DEF Close, Release, LiveSockets, Alive, TypeOK, SocketType
<1>8. ASSUME NEW p \in Procs, Exit(p)
      PROVE  Group!Next
  BY <1>8, Leaves DEF Exit, Release, LiveSockets, Alive, TypeOK, SocketType
<1>9. ASSUME NEW x \in Sockets, NEW p \in Procs,
             \/ Rebind(x, p) \/ CreateGroup(x, p)
             \/ \E t \in Callers, g \in Gens : SetSocketGen(x, p, t, g)
             \/ \E g \in WorkingGens : SetWorkingGen(x, p, g)
             \/ \E n \in DissectorApps : SetDissector(x, p, n)
             \/ \E a \in Apps : SetSocketApp(x, p, a)
      PROVE  UNCHANGED Group!groupVars
  BY <1>3, <1>9 DEF Rebind, CreateGroup, SetSocketGen, SetWorkingGen,
     SetDissector, SetSocketApp, LiveSockets, Alive
<1>10. CASE FindSocket
  <2>1. e.cookie \in Sockets
    BY <1>10, MessageType DEF FindSocket, Registering, RegisterMsg
  <2>2. LiveSockets' = LiveSockets
    BY <1>10, <2>1, SocketAssumption
    DEF FindSocket, Findable, LiveSockets, Alive, DaemonInv, Holding, TypeOK,
        SocketType, SocketInv
  <2> QED
    BY <1>3, <1>10, <2>2 DEF FindSocket
<1>11. CASE FindEmpty
  <2>1. f \in LiveSockets
    BY <1>11 DEF FindEmpty, DaemonInv, Holding, LiveSockets, Alive
  <2>2. /\ UNCHANGED <<cookies, max_idx, bound>>
        /\ sockhash' = sockhash \/ sockhash' = sockhash \cup {f}
        /\ LiveSockets' = LiveSockets
    BY <1>11 DEF FindEmpty, InsertSockhash, LiveSockets, Alive
  <2>3. \A g \in GenIds, i \in Idx :
          cookies[g][i] \in sockhash' <=> cookies[g][i] \in sockhash
    BY <2>1, <2>2 DEF PublishedIsSelectable
  <2> QED
    BY <2>2, <2>3, Stutter
<1>12. CASE SetCookies
  BY <1>12, CookieJoins
<1>13. CASE SetMaxIdx
  BY <1>13, LengthJoins
<1>14. CASE Attach
  <2>1. LiveSockets' = Alive(holders, NoCookie)
        /\ UNCHANGED <<cookies, max_idx, bound>>
    BY <1>14 DEF Attach, LiveSockets, Alive
  <2>2. LiveSockets' \subseteq LiveSockets
    BY <1>14, SocketAssumption
    DEF Attach, LiveSockets, Alive, TypeOK, SocketType
  <2> QED
    BY <1>14, <2>1, <2>2, Leaves DEF Attach
<1>2. CASE DaemonExit
  <2>1. /\ LiveSockets' = Alive(holders, NoCookie)
        /\ UNCHANGED <<cookies, max_idx, bound>>
        /\ sockhash' = sockhash \cap Alive(holders, NoCookie)
    BY <1>2 DEF DaemonExit, Release, LiveSockets, Alive
  <2>2. LiveSockets' \subseteq LiveSockets
    BY <2>1, SocketAssumption DEF LiveSockets, Alive, TypeOK, SocketType
  <2> QED
    BY <2>1, <2>2, Leaves
<1>15. CASE \/ LookupState \/ WriteIdx \/ AddCritical \/ CountCritical
            \/ WorkingGenSet \/ Return
  BY <1>2, <1>3, <1>15 DEF LookupState, WriteIdx, AddCritical, CountCritical,
     WorkingGenSet, Return, LiveSockets, Alive
<1> QED
  BY <1>2, <1>4, <1>5, <1>6, <1>7, <1>8, <1>9, <1>10, <1>11, <1>12, <1>13,
     <1>14, <1>15
  DEF RebindNext, RegenNext, ChangeGen, Next, Application, Daemon, CallFails

\* Whatever the interleaving of the map operations of handle_msg
\* (udpgrm.c:124-260) with calls, closes and exits of applications, as long as
\* nobody deletes the group the table behaves as the abstract socket group.
THEOREM GroupImplemented == RebindSpec => ImplementsGroup
<1>1. Init => LengthInv
  BY DEF Init, LengthInv
<1>2. Init => Group!Init
  <2> SUFFICES ASSUME Init PROVE Group!Init
    OBVIOUS
  <2>1. SelectableRows = [g \in GenIds |-> <<>>]
    BY DEF Init, SelectableRows
  <2>2. bound \ LiveSockets = {}
    BY DEF Init
  <2> QED
    BY <2>1, <2>2 DEF Group!Init
<1> QED
  BY <1>1, <1>2, LengthStep, RefinementStep, TableInvariance, PTL
  DEF RefinementInv, RebindSpec, ImplementsGroup, Group!Spec

=============================================================================
