--------------------------- MODULE GroupSetupProofs ---------------------------
(***************************************************************************)
(* Proofs about GroupSetup, for every number of tasks, sockets, options and *)
(* deletes.                                                                *)
(***************************************************************************)
EXTENDS GroupSetup, TLAPS

Fields == {"word", "timeout", "max_apps", "digest", "filter"}

(***************************************************************************)
(* BaseInv: inductive even if several calls create the group at once.      *)
(***************************************************************************)
\* The hook works with exactly what the caller passed; a pointer that dangles
\* leads to a group that was within the limits when it was deleted.
LocalInv ==
  \A t \in Tasks : DuringCall(t) =>
    /\ call[t].data = call[t].opt.val
    /\ call[t].old.dis.max_apps <= MAX_APPS
    /\ pc[t] \in {"init", "undo"} => call[t].created

\* The group's dissector is within the limits and without its flags.
DissectorInv ==
  /\ group.dis.max_apps <= MAX_APPS
  /\ Typed(group.dis) = group.dis

HistoryType == placed \subseteq Sockets /\ deletes \in Nat

\* Working generations are only set through sockets of their application.
AnnouncedInv ==
  exists => \A a \in Apps :
    group.working_gen[a] = 0 \/ <<a, group.working_gen[a]>> \in announced

BaseInv == TypeOK /\ LocalInv /\ DissectorInv /\ HistoryType /\ AnnouncedInv

\* The sizes that the hook knows cover each option: nothing of the caller's
\* struct is cut off, and nothing of the page's old content shows.
LEMMA CopyWhole ==
  ASSUME NEW o \in Options, NEW left
  PROVE  CopyOptval(left, o) = o.val
<1>1. o.len \in OptLens /\ o.val \in Data
  BY OptionAssumption DEF OptionType
<1>2. Copied(o.len) = o.len
  BY <1>1 DEF OptLens, Copied, Rungs
<1>3. \A field \in DOMAIN o.val :
        o.val[field] = 0 \/ End(field, o.val) <= o.len
  BY OptionAssumption
<1>4. DOMAIN o.val = Fields
  BY <1>1 DEF Data, Fields
<1>5. \A field \in DOMAIN o.val : Zero[field] = 0
  BY <1>4 DEF Zero, Fields
<1>6. CopyOptval(left, o) = [field \in DOMAIN o.val |-> o.val[field]]
  BY <1>2, <1>3, <1>5 DEF CopyOptval
<1> QED
  BY <1>1, <1>6 DEF Data

\* Taking the flags off a dissector is idempotent and leaves the rest.
LEMMA TypedData ==
  ASSUME NEW d \in Data, d.word \in Nat
  PROVE  /\ Typed(d) \in Data /\ Typed(d).max_apps = d.max_apps
         /\ Typed(Typed(d)) = Typed(d)
<1>1. /\ DISSECTOR_TYPE(d.word) \in Nat
      /\ DISSECTOR_TYPE(DISSECTOR_TYPE(d.word)) = DISSECTOR_TYPE(d.word)
  BY DEF DISSECTOR_TYPE, IsVerbose, DISSECTOR_FLAG_VERBOSE
<1>2. /\ Typed(d) \in Data /\ Typed(d).word = DISSECTOR_TYPE(d.word)
      /\ Typed(d).max_apps = d.max_apps
  BY <1>1 DEF Typed, Data
<1>3. Typed(Typed(d)) = [Typed(d) EXCEPT !.word = Typed(d).word]
  BY <1>1, <1>2 DEF Typed
<1>4. Typed(Typed(d)) = Typed(d)
  BY <1>2, <1>3 DEF Data
<1> QED
  BY <1>2, <1>4

\* The values that a group and a storage start with.
LEMMA EmptyGroup ==
  /\ Zero \in Data /\ Typed(Zero) = Zero
  /\ empty_state \in Groups /\ NewStorage \in Storage
  /\ empty_state.dis = Zero /\ Zero.max_apps = 0
<1>1. Zero \in Data /\ Typed(Zero) = Zero /\ Zero.max_apps = 0
  BY DEF Zero, Data, Typed, DISSECTOR_TYPE, IsVerbose, DISSECTOR_FLAG_VERBOSE
<1>2. empty_state \in Groups
  BY <1>1 DEF empty_state, Groups, NoNetns
<1>3. NewStorage \in Storage
  BY LimitAssumption DEF NewStorage, Storage, Apps
<1> QED
  BY <1>1, <1>2, <1>3 DEF empty_state

\* The arguments of a call that is under way.
LEMMA CallData ==
  ASSUME BaseInv, NEW t \in Tasks, DuringCall(t)
  PROVE  /\ call[t] \in Calls /\ call[t].sock \in Sockets
         /\ data(t) = call[t].opt.val /\ call[t].opt \in Options
         /\ data(t) \in Data /\ data(t).word \in Nat
         /\ call[t].opt.name = "DISSECTOR" => data(t).max_apps <= MAX_APPS
         /\ call[t].opt.name \in {"WORKING_GEN", "SOCKET_GEN"} =>
              data(t).word \in Gens
<1>1. call[t] \in Calls /\ data(t) = call[t].opt.val
  BY DEF BaseInv, TypeOK, LocalInv, data
<1>2. call[t].opt \in Options /\ call[t].sock \in Sockets
  BY <1>1 DEF Calls
<1> QED
  BY <1>1, <1>2, OptionAssumption DEF OptionType

\* What a call reads through its pointer, dangling or not.
LEMMA DerefData ==
  ASSUME BaseInv, NEW t \in Tasks, DuringCall(t), NEW g \in Deref(t)
  PROVE  g.dis \in Data /\ g.dis.max_apps <= MAX_APPS
<1>1. group.dis \in Data /\ group.dis.max_apps <= MAX_APPS
  BY DEF BaseInv, TypeOK, Groups, DissectorInv
<1>2. call[t].old.dis \in Data /\ call[t].old.dis.max_apps <= MAX_APPS
  BY CallData DEF BaseInv, Calls, LocalInv
<1>3. Readable(group).dis = group.dis
  BY DEF Readable
<1> QED
  BY <1>1, <1>2, <1>3 DEF Deref

\* The end of a call.
LEMMA ReturnFrame ==
  ASSUME BaseInv, NEW t \in Tasks, Return(t)
  PROVE  /\ pc' \in [Tasks -> {"idle", "insert", "init", "option", "undo"}]
         /\ call' \in [Tasks -> Calls \cup {NoCall}]
         /\ \A u \in Tasks :
              call'[u] \in IF DuringCall(u)' THEN Calls ELSE {NoCall}
         /\ LocalInv'
         /\ pc'[t] = "idle"
         /\ \A u \in Tasks : u # t => pc'[u] = pc[u] /\ call'[u] = call[u]
<1>1. /\ pc' = [pc EXCEPT ![t] = "idle"] /\ call' = [call EXCEPT ![t] = NoCall]
      /\ pc \in [Tasks -> {"idle", "insert", "init", "option", "undo"}]
      /\ call \in [Tasks -> Calls \cup {NoCall}]
  BY DEF Return, BaseInv, TypeOK
<1>2. pc'[t] = "idle" /\ call'[t] = NoCall
      /\ \A u \in Tasks : u # t => pc'[u] = pc[u] /\ call'[u] = call[u]
  BY <1>1
<1>3. LocalInv'
  BY <1>2 DEF BaseInv, LocalInv, DuringCall
<1>4. \A u \in Tasks : call'[u] \in IF DuringCall(u)' THEN Calls ELSE {NoCall}
  BY <1>2 DEF BaseInv, TypeOK, DuringCall
<1> QED
  BY <1>1, <1>2, <1>3, <1>4

Pcs == {"idle", "insert", "init", "option", "undo"}

\* A delete leaves the calls that are under way, with pointers that dangle.
LEMMA DanglingCalls ==
  ASSUME BaseInv, NEW c \in [Tasks -> Calls \cup {NoCall}],
         call' = Dangling(c), pc' \in [Tasks -> Pcs],
         \A u \in Tasks : pc'[u] # "idle" => c[u] = call[u] /\ pc'[u] = pc[u],
         \A u \in Tasks : pc'[u] = "idle" => c[u] = NoCall
  PROVE  /\ call' \in [Tasks -> Calls \cup {NoCall}]
         /\ \A u \in Tasks :
              call'[u] \in IF DuringCall(u)' THEN Calls ELSE {NoCall}
         /\ LocalInv'
         /\ \A u \in Tasks : DuringCall(u)' =>
              /\ call'[u].state # "valid"
              /\ call'[u].created = call[u].created
              /\ call[u].state # "valid" => call'[u] = call[u]
<1>1. ASSUME NEW u \in Tasks, pc'[u] = "idle"
      PROVE  call'[u] = NoCall
  BY <1>1 DEF Dangling
<1>2. ASSUME NEW u \in Tasks, pc'[u] # "idle"
      PROVE  /\ call'[u] \in Calls
             /\ call'[u].state # "valid"
             /\ call'[u].created = call[u].created
             /\ call[u].state # "valid" => call'[u] = call[u]
             /\ call'[u].data = call[u].data /\ call'[u].opt = call[u].opt
             /\ call'[u].old.dis.max_apps <= MAX_APPS
  <2>1. /\ call[u] \in Calls /\ c[u] = call[u] /\ pc'[u] = pc[u]
        /\ call[u].old.dis.max_apps <= MAX_APPS
    BY <1>2 DEF BaseInv, TypeOK, LocalInv, DuringCall
  <2>2. Readable(group) \in [netns_cookie : Nat, dis : Data]
        /\ Readable(group).dis.max_apps <= MAX_APPS
    BY DEF BaseInv, TypeOK, Groups, Readable, DissectorInv
  <2>3. CASE call[u].state = "valid"
    <3>1. call'[u] = [call[u] EXCEPT !.state = "freed", !.old = Readable(group)]
      BY <1>2, <2>1, <2>3 DEF Dangling
    <3> QED
      BY <2>1, <2>2, <2>3, <3>1 DEF Calls
  <2>4. CASE call[u].state # "valid"
    <3>1. call'[u] = call[u]
      BY <1>2, <2>1, <2>4 DEF Dangling
    <3> QED
      BY <2>1, <2>4, <3>1
  <2> QED
    BY <2>3, <2>4
<1>3. DOMAIN call' = Tasks /\ call' = [u \in Tasks |-> call'[u]]
  BY DEF Dangling
<1>4. call' \in [Tasks -> Calls \cup {NoCall}]
  BY <1>1, <1>2, <1>3
<1>5. LocalInv'
  BY <1>2 DEF BaseInv, LocalInv, DuringCall
<1> QED
  BY <1>1, <1>2, <1>4, <1>5 DEF DuringCall

\* Removing the group.
LEMMA RemoveFrame ==
  Remove => exists' = FALSE /\ group' \in Groups /\ DissectorInv' /\ AnnouncedInv'
            /\ placed' = {}
  BY EmptyGroup, LimitAssumption DEF Remove, DissectorInv, AnnouncedInv

\* BaseInv is kept by every action.
LEMMA BaseStep == BaseInv /\ [Next]_vars => BaseInv'
<1> SUFFICES ASSUME BaseInv, [Next]_vars PROVE BaseInv'
  OBVIOUS
<1>0. TypeOK /\ LocalInv /\ DissectorInv /\ HistoryType /\ AnnouncedInv
  BY DEF BaseInv
<1>1. CASE UNCHANGED vars
  BY <1>0, <1>1 DEF vars, history, BaseInv, TypeOK, LocalInv, DissectorInv,
     HistoryType, AnnouncedInv, DuringCall
<1>2. ASSUME NEW x \in Sockets, Bind(x)
      PROVE  BaseInv'
  <2>1. TypeOK'
    BY <1>0, <1>2, EmptyGroup DEF Bind, TypeOK, DuringCall
  <2> QED
    BY <1>0, <1>2, <2>1 DEF Bind, history, BaseInv, LocalInv, DissectorInv,
       HistoryType, AnnouncedInv, DuringCall
<1>3. ASSUME UNCHANGED <<exists, group, bound, sk, daemon, history>>,
             ring' = ring \/ \E m \in Msgs : Post(m),
             /\ pc' \in [Tasks -> Pcs] /\ call' \in [Tasks -> Calls \cup {NoCall}]
             /\ \A u \in Tasks :
                  call'[u] \in IF DuringCall(u)' THEN Calls ELSE {NoCall}
             /\ LocalInv'
      PROVE  BaseInv'
  <2>1. ring' \in Seq(Msgs) /\ Len(ring') <= RingCap
    BY <1>0, <1>3, LimitAssumption DEF TypeOK, Post
  <2>2. TypeOK'
    BY <1>0, <1>3, <2>1 DEF TypeOK, Pcs
  <2> QED
    BY <1>0, <1>3, <2>2 DEF history, BaseInv, DissectorInv, HistoryType,
       AnnouncedInv
<1>4. ASSUME NEW t \in Tasks, NEW x \in Sockets, NEW o \in Options,
             SetSockopt(t, x, o)
      PROVE  BaseInv'
  <2>1. CASE Fail(t, "EBADF")
    BY <1>3, <1>4, <2>1, ReturnFrame DEF SetSockopt, Fail, Pcs
  <2>2. CASE ~Fail(t, "EBADF")
    <3>1. PICK left \in Leftovers :
            call' = [call EXCEPT ![t] =
                       [sock |-> x, opt |-> o, data |-> CopyOptval(left, o),
                        created |-> FALSE,
                        state |-> IF exists THEN "valid" ELSE "none",
                        old |-> Readable(empty_state)]]
      BY <1>4, <2>2 DEF SetSockopt
    <3> DEFINE c == [sock |-> x, opt |-> o, data |-> o.val, created |-> FALSE,
                     state |-> IF exists THEN "valid" ELSE "none",
                     old |-> Readable(empty_state)]
    <3>2. call' = [call EXCEPT ![t] = c]
      BY <3>1, CopyWhole
    <3>3. c \in Calls /\ c.old.dis.max_apps <= MAX_APPS
      <4>1. o.val \in Data
        BY OptionAssumption DEF OptionType
      <4>2. Readable(empty_state) \in [netns_cookie : Nat, dis : Data]
            /\ Readable(empty_state).dis.max_apps = 0
        BY EmptyGroup DEF Readable, Groups
      <4> QED
        BY <4>1, <4>2, LimitAssumption DEF Calls
    <3>4. pc' = [pc EXCEPT ![t] = IF exists THEN "option" ELSE "insert"]
      BY <1>4, <2>2 DEF SetSockopt
    <3>5. /\ call'[t] = c /\ pc'[t] \in {"option", "insert"}
          /\ \A u \in Tasks : u # t => call'[u] = call[u] /\ pc'[u] = pc[u]
      BY <1>0, <3>2, <3>4 DEF TypeOK
    <3>6. LocalInv'
      BY <1>0, <3>3, <3>5 DEF LocalInv, DuringCall
    <3>7. /\ pc' \in [Tasks -> Pcs]
          /\ call' \in [Tasks -> Calls \cup {NoCall}]
          /\ \A u \in Tasks :
                  call'[u] \in IF DuringCall(u)' THEN Calls ELSE {NoCall}
      BY <1>0, <3>2, <3>3, <3>4, <3>5 DEF TypeOK, DuringCall, Pcs
    <3> QED
      BY <1>3, <1>4, <3>6, <3>7 DEF SetSockopt
  <2> QED
    BY <2>1, <2>2
<1>5. ASSUME NEW t \in Tasks, Insert(t)
      PROVE  BaseInv'
  <2>1. /\ call' = [call EXCEPT ![t].created = TRUE]
        /\ pc' = [pc EXCEPT ![t] = "init"] /\ DuringCall(t)
        /\ UNCHANGED <<bound, sk, ring, daemon, confirmed, placed, announced,
                       deletes>>
    BY <1>5 DEF Insert, DuringCall
  <2>2. call[t] \in Calls
    BY <2>1, CallData
  <2>3. /\ call'[t] = [call[t] EXCEPT !.created = TRUE] /\ call'[t] \in Calls
        /\ pc'[t] = "init"
        /\ \A u \in Tasks : u # t => call'[u] = call[u] /\ pc'[u] = pc[u]
    BY <1>0, <2>1, <2>2 DEF TypeOK, Calls
  <2>4. LocalInv'
    BY <1>0, <2>1, <2>2, <2>3 DEF LocalInv, DuringCall, Calls
  <2>5. exists' \in BOOLEAN
    BY <1>0, <1>5, Zenon DEF Insert, TypeOK
  <2>6. group' \in Groups /\ DissectorInv' /\ AnnouncedInv'
    <3>1. CASE UNCHANGED <<exists, group>>
      BY <1>0, <2>1, <3>1 DEF TypeOK, DissectorInv, AnnouncedInv
    <3>2. CASE group' = empty_state
      BY <3>2, EmptyGroup, LimitAssumption
      DEF DissectorInv, AnnouncedInv, empty_state
    <3> QED
      BY <1>5, <3>1, <3>2 DEF Insert
  <2>7. TypeOK'
    <3>1. /\ pc' \in [Tasks -> Pcs]
          /\ call' \in [Tasks -> Calls \cup {NoCall}]
          /\ \A u \in Tasks :
                  call'[u] \in IF DuringCall(u)' THEN Calls ELSE {NoCall}
      BY <1>0, <2>1, <2>3 DEF TypeOK, DuringCall, Pcs
    <3> QED
      BY <1>0, <2>1, <2>5, <2>6, <3>1 DEF TypeOK, Pcs
  <2> QED
    BY <1>0, <2>1, <2>4, <2>6, <2>7 DEF BaseInv, HistoryType
<1>6. ASSUME NEW t \in Tasks, InitGroup(t)
      PROVE  BaseInv'
  <2>1. CASE ~exists
    BY <1>3, <1>6, <2>1, ReturnFrame DEF InitGroup, Fail, Pcs
  <2>2. CASE exists
    <3>1. /\ group' = NewGroup(group, call[t].sock)
          /\ call' = [call EXCEPT ![t].state = "valid"]
          /\ pc' = [pc EXCEPT ![t] = "option"] /\ DuringCall(t)
          /\ UNCHANGED <<exists, bound, sk, ring, daemon, history>>
      BY <1>6, <2>2 DEF InitGroup, DuringCall
    <3>2. call[t] \in Calls /\ call[t].sock \in Sockets
      BY <3>1, CallData
    <3>3. /\ call'[t] = [call[t] EXCEPT !.state = "valid"]
          /\ call'[t] \in Calls /\ pc'[t] = "option"
          /\ \A u \in Tasks : u # t => call'[u] = call[u] /\ pc'[u] = pc[u]
      BY <1>0, <3>1, <3>2 DEF TypeOK, Calls
    <3>4. LocalInv'
      BY <1>0, <3>1, <3>2, <3>3 DEF LocalInv, DuringCall, Calls
    <3> DEFINE d == [group.dis EXCEPT !.word = DISSECTOR_FLOW]
    <3>5. /\ group' \in Groups /\ group'.working_gen = group.working_gen
          /\ group'.dis = d /\ d \in Data
      <4>1. group \in Groups /\ group.dis \in Data
        BY <1>0 DEF TypeOK, Groups
      <4>2. d \in Data
        BY <4>1 DEF Data, DISSECTOR_FLOW
      <4>3. Netns[call[t].sock] \in Nat
        BY <3>2, NetnsAssumption
      <4>4. group' = [group EXCEPT !.netns_cookie = Netns[call[t].sock],
                                   !.verbose = FALSE, !.dis = d]
        BY <3>1, <4>1 DEF NewGroup
      <4> QED
        BY <4>1, <4>2, <4>3, <4>4 DEF Groups
    <3>6. DissectorInv'
      <4>1. group.dis \in Data
        BY <1>0 DEF TypeOK, Groups
      <4>2. d.max_apps = group.dis.max_apps /\ d.word = DISSECTOR_FLOW
        BY <4>1 DEF Data
      <4>3. DISSECTOR_TYPE(DISSECTOR_FLOW) = DISSECTOR_FLOW
        BY DEF DISSECTOR_TYPE, IsVerbose, DISSECTOR_FLOW, DISSECTOR_FLAG_VERBOSE
      <4>4. Typed(d) = [d EXCEPT !.word = d.word]
        BY <4>2, <4>3 DEF Typed
      <4>5. Typed(d) = d
        BY <3>5, <4>4 DEF Data
      <4> QED
        BY <1>0, <3>5, <4>2, <4>5 DEF DissectorInv
    <3>7. AnnouncedInv'
      BY <1>0, <3>1, <3>5 DEF AnnouncedInv, history
    <3>8. /\ pc' \in [Tasks -> Pcs]
          /\ call' \in [Tasks -> Calls \cup {NoCall}]
          /\ \A u \in Tasks :
                  call'[u] \in IF DuringCall(u)' THEN Calls ELSE {NoCall}
      BY <1>0, <3>1, <3>3 DEF TypeOK, DuringCall, Pcs
    <3>9. TypeOK'
      BY <1>0, <3>1, <3>5, <3>8 DEF TypeOK, Pcs
    <3> QED
      BY <1>0, <3>1, <3>4, <3>6, <3>7, <3>9 DEF BaseInv, HistoryType, history
  <2> QED
    BY <2>1, <2>2
<1>7. ASSUME NEW t \in Tasks, SetWorkingGen(t)
      PROVE  BaseInv'
  <2> DEFINE app == storage(t).sock_app % MAX_APPS
             gen == data(t).word
  <2>1. /\ DuringCall(t) /\ call[t].opt.name = "WORKING_GEN" /\ Return(t)
        /\ Post([type |-> "SET_WORKING_GEN", sock |-> call[t].sock])
        /\ UNCHANGED <<exists, bound, sk, daemon, confirmed, placed, deletes>>
    BY <1>7 DEF SetWorkingGen, At, DuringCall
  <2>2. call[t].sock \in Sockets /\ gen \in Gens
    BY <2>1, CallData
  <2>3. app \in Apps
    BY <1>0, <2>2, LimitAssumption DEF storage, TypeOK, Storage, Apps
  <2>4. [type |-> "SET_WORKING_GEN", sock |-> call[t].sock] \in Msgs
    BY <2>2 DEF Msgs
  <2>5. ring' \in Seq(Msgs) /\ Len(ring') <= RingCap
    BY <1>0, <2>1, <2>4, LimitAssumption DEF TypeOK, Post
  <2>6. \/ UNCHANGED <<group, announced>>
        \/ /\ group' = [group EXCEPT !.working_gen[app] = gen]
           /\ announced' = announced \cup {<<app, gen>>}
    BY <1>7 DEF SetWorkingGen
  <2>7. group' \in Groups /\ DissectorInv' /\ AnnouncedInv'
    <3>1. CASE UNCHANGED <<group, announced>>
      BY <1>0, <2>1, <3>1 DEF TypeOK, DissectorInv, AnnouncedInv
    <3>2. CASE /\ group' = [group EXCEPT !.working_gen[app] = gen]
               /\ announced' = announced \cup {<<app, gen>>}
      <4> DEFINE wg == [group.working_gen EXCEPT ![app] = gen]
      <4>1. group \in Groups /\ group.working_gen \in [Apps -> Gens \cup {0}]
        BY <1>0 DEF TypeOK, Groups
      <4>2. wg \in [Apps -> Gens \cup {0}]
        BY <2>2, <4>1
      <4>3. group' = [group EXCEPT !.working_gen = wg]
        BY <3>2
      <4>4. group' \in Groups /\ group'.dis = group.dis
            /\ group'.working_gen = wg
        BY <4>1, <4>2, <4>3 DEF Groups
      <4>5. DissectorInv'
        BY <1>0, <4>4 DEF DissectorInv
      <4>6. \A a \in Apps : wg[a] = IF a = app THEN gen ELSE group.working_gen[a]
        BY <4>1
      <4>7. AnnouncedInv'
        BY <1>0, <2>1, <3>2, <4>4, <4>6 DEF AnnouncedInv
      <4> QED
        BY <4>4, <4>5, <4>7
    <3> QED
      BY <2>6, <3>1, <3>2
  <2>8. TypeOK' /\ LocalInv'
    BY <1>0, <2>1, <2>5, <2>7, ReturnFrame DEF TypeOK
  <2> QED
    BY <1>0, <2>1, <2>7, <2>8 DEF BaseInv, HistoryType
<1>8. ASSUME NEW t \in Tasks, SetSocketGen(t)
      PROVE  BaseInv'
  <2>1. /\ DuringCall(t) /\ call[t].opt.name = "SOCKET_GEN" /\ Return(t)
        /\ UNCHANGED <<exists, group, bound, daemon, history>>
    BY <1>8 DEF SetSocketGen, At, DuringCall
  <2>2. call[t].sock \in Sockets /\ data(t).word \in Gens
    BY <2>1, CallData
  <2>3. [type |-> "REGISTER_SOCKET", sock |-> call[t].sock] \in Msgs
    BY <2>2 DEF Msgs
  <2>4. ring' \in Seq(Msgs) /\ Len(ring') <= RingCap
    <3>1. ring \in Seq(Msgs) /\ Len(ring) <= RingCap
      BY <1>0 DEF TypeOK
    <3>2. ring' = ring
          \/ Post([type |-> "REGISTER_SOCKET", sock |-> call[t].sock])
      BY <1>8 DEF SetSocketGen
    <3> QED
      BY <2>3, <3>1, <3>2, LimitAssumption DEF Post
  <2>5. sk' \in [Sockets -> Storage]
    <3>1. \/ UNCHANGED sk
          \/ sk' = [sk EXCEPT ![call[t].sock].sock_gen = data(t).word]
      BY <1>8 DEF SetSocketGen
    <3>2. sk \in [Sockets -> Storage]
      BY <1>0 DEF TypeOK
    <3> QED
      BY <2>2, <3>1, <3>2 DEF Storage
  <2>6. TypeOK' /\ LocalInv'
    BY <1>0, <2>1, <2>4, <2>5, ReturnFrame DEF TypeOK
  <2> QED
    BY <1>0, <2>1, <2>6 DEF BaseInv, HistoryType, history, DissectorInv,
       AnnouncedInv
<1>9. ASSUME NEW t \in Tasks, Eagain(t) \/ FlowAssure(t)
      PROVE  BaseInv'
  <2>1. Return(t) /\ UNCHANGED <<exists, group, bound, sk, ring, daemon, history>>
    BY <1>9 DEF Eagain, FlowAssure, Fail
  <2> QED
    BY <1>3, <2>1, ReturnFrame DEF Pcs
<1>10. ASSUME NEW t \in Tasks, RepeatDissector(t)
       PROVE  BaseInv'
  <2>1. /\ DuringCall(t) /\ Return(t)
        /\ UNCHANGED <<exists, bound, sk, ring, daemon, placed, announced,
                       deletes>>
        /\ \/ UNCHANGED group
           \/ group' = [group EXCEPT !.verbose = Verbose(data(t))]
    BY <1>10 DEF RepeatDissector, At, DuringCall, RefuseChange, Fail, Store
  <2>2. Verbose(data(t)) \in BOOLEAN
    BY DEF Verbose, IsVerbose
  <2>3. group' \in Groups /\ group'.dis = group.dis
        /\ group'.working_gen = group.working_gen
    BY <1>0, <2>1, <2>2 DEF TypeOK, Groups
  <2>4. TypeOK' /\ LocalInv'
    BY <1>0, <2>1, <2>3, ReturnFrame DEF TypeOK
  <2> QED
    BY <1>0, <2>1, <2>3, <2>4 DEF BaseInv, HistoryType, DissectorInv,
       AnnouncedInv
<1>11. ASSUME NEW t \in Tasks, SetDissector(t)
       PROVE  BaseInv'
  <2>1. /\ DuringCall(t) /\ call[t].created /\ call[t].opt.name = "DISSECTOR"
        /\ UNCHANGED <<exists, bound, sk, daemon, placed, announced, deletes>>
    BY <1>11 DEF SetDissector, At, DuringCall
  <2>2. CASE pc' = [pc EXCEPT ![t] = "undo"] /\ UNCHANGED <<group, call, ring>>
    <3>1. /\ pc' \in [Tasks -> Pcs]
          /\ \A u \in Tasks : u # t => pc'[u] = pc[u]
      BY <1>0, <2>2 DEF TypeOK, Pcs
    <3>2. \A u \in Tasks : DuringCall(u)' = DuringCall(u)
      BY <1>0, <2>1, <2>2 DEF TypeOK, DuringCall
    <3>3. LocalInv'
      BY <1>0, <2>1, <2>2, <3>1, <3>2 DEF LocalInv
    <3>4. TypeOK'
      BY <1>0, <2>1, <2>2, <3>1, <3>2 DEF TypeOK, Pcs
    <3> QED
      BY <1>0, <2>1, <2>2, <3>3, <3>4 DEF BaseInv, HistoryType, DissectorInv,
         AnnouncedInv
  <2>3. CASE Return(t) /\ UNCHANGED <<group, ring>>
    <3>1. TypeOK' /\ LocalInv'
      BY <1>0, <2>1, <2>3, ReturnFrame DEF TypeOK
    <3> QED
      BY <1>0, <2>1, <2>3, <3>1 DEF BaseInv, HistoryType, DissectorInv,
         AnnouncedInv
  <2>4. CASE /\ Post([type |-> "SET_DISSECTOR", sock |-> call[t].sock])
             /\ Store(t, [group EXCEPT !.dis = Typed(data(t)),
                                       !.verbose = Verbose(data(t))])
             /\ Return(t)
    <3>1. /\ data(t) \in Data /\ data(t).word \in Nat
          /\ data(t).max_apps <= MAX_APPS /\ call[t].sock \in Sockets
      BY <2>1, CallData
    <3>2. /\ Typed(data(t)) \in Data
          /\ Typed(data(t)).max_apps <= MAX_APPS
          /\ Typed(Typed(data(t))) = Typed(data(t))
          /\ Verbose(data(t)) \in BOOLEAN
      BY <3>1, TypedData DEF Verbose, IsVerbose
    <3>3. group' \in Groups /\ group'.working_gen = group.working_gen
          /\ (group'.dis = group.dis \/ group'.dis = Typed(data(t)))
      <4> DEFINE d == Typed(data(t))
                 v == Verbose(data(t))
      <4>1. group' = group \/ group' = [group EXCEPT !.dis = d, !.verbose = v]
        BY <2>4 DEF Store
      <4>2. d \in Data /\ v \in BOOLEAN /\ group \in Groups
        BY <1>0, <3>2 DEF TypeOK
      <4> HIDE DEF d, v
      <4>3. group' \in Groups /\ group'.working_gen = group.working_gen
            /\ (group'.dis = group.dis \/ group'.dis = d)
        BY <4>1, <4>2 DEF Groups
      <4> QED
        BY <4>3 DEF d
    <3>4. [type |-> "SET_DISSECTOR", sock |-> call[t].sock] \in Msgs
      BY <3>1 DEF Msgs
    <3>5. ring' \in Seq(Msgs) /\ Len(ring') <= RingCap
      BY <1>0, <2>4, <3>4, LimitAssumption DEF TypeOK, Post
    <3>6. TypeOK' /\ LocalInv'
      BY <1>0, <2>1, <2>4, <3>3, <3>5, ReturnFrame DEF TypeOK
    <3> QED
      BY <1>0, <2>1, <3>2, <3>3, <3>6 DEF BaseInv, HistoryType, DissectorInv,
         AnnouncedInv
  <2> QED
    BY <1>11, <2>2, <2>3, <2>4 DEF SetDissector, Fail
<1>12. ASSUME NEW t \in Tasks, UndoGroup(t)
       PROVE  BaseInv'
  <2>1. /\ pc' = [pc EXCEPT ![t] = "idle"] /\ pc' \in [Tasks -> Pcs]
        /\ UNCHANGED <<bound, sk, ring, daemon, deletes>>
    BY <1>0, <1>12 DEF UndoGroup, TypeOK, Pcs
  <2> DEFINE c == [call EXCEPT ![t] = NoCall]
  <2>2. /\ c \in [Tasks -> Calls \cup {NoCall}]
        /\ \A u \in Tasks : pc'[u] # "idle" => c[u] = call[u] /\ pc'[u] = pc[u]
        /\ \A u \in Tasks : pc'[u] = "idle" => c[u] = NoCall
    BY <1>0, <2>1 DEF TypeOK, DuringCall
  <2>3. CASE exists
    <3>1. call' = Dangling(c) /\ Remove
      BY <1>12, <2>3 DEF UndoGroup
    <3>2. /\ call' \in [Tasks -> Calls \cup {NoCall}]
          /\ \A u \in Tasks :
               call'[u] \in IF DuringCall(u)' THEN Calls ELSE {NoCall}
          /\ LocalInv'
      BY <2>1, <2>2, <3>1, DanglingCalls
    <3>3. TypeOK'
      BY <1>0, <2>1, <3>1, <3>2, RemoveFrame DEF TypeOK, Pcs
    <3> QED
      BY <1>0, <2>1, <3>1, <3>2, <3>3, RemoveFrame DEF BaseInv, HistoryType
  <2>4. CASE ~exists
    <3>1. Return(t) /\ UNCHANGED <<exists, group, bound, sk, ring, daemon, history>>
      BY <1>12, <2>4 DEF UndoGroup, Return, history
    <3> QED
      BY <1>3, <3>1, ReturnFrame DEF Pcs
  <2> QED
    BY <2>3, <2>4
<1>13. ASSUME NEW t \in Tasks, SetSocketApp(t)
       PROVE  BaseInv'
  <2> DEFINE x == call[t].sock
             app == data(t).word
  <2>1. /\ DuringCall(t) /\ Return(t)
        /\ UNCHANGED <<exists, group, bound, ring, daemon, confirmed, announced,
                       deletes>>
    BY <1>13 DEF SetSocketApp, At, DuringCall, Fail
  <2>2. x \in Sockets /\ app \in Nat
    BY <2>1, CallData
  <2>3. sk' \in [Sockets -> Storage] /\ placed' \subseteq Sockets
    <3>1. CASE UNCHANGED <<sk, placed>>
      BY <1>0, <3>1 DEF TypeOK, HistoryType
    <3>2. CASE ~UNCHANGED <<sk, placed>>
      <4>1. PICK g \in Deref(t) : AppAllowed(g, app)
              /\ sk' = [sk EXCEPT ![x].sock_app = app]
              /\ placed' \in {placed \cup {x}, placed \ {x}}
        BY <1>13, <3>2 DEF SetSocketApp
      <4>2. g.dis \in Data /\ g.dis.max_apps <= MAX_APPS
        BY <2>1, DerefData
      <4>3. app \in Apps
        BY <2>2, <4>1, <4>2, LimitAssumption DEF AppAllowed, Apps, Data
      <4> QED
        BY <1>0, <2>2, <4>1, <4>3 DEF TypeOK, HistoryType, Storage
    <3> QED
      BY <3>1, <3>2
  <2>4. TypeOK' /\ LocalInv'
    BY <1>0, <2>1, <2>3, ReturnFrame DEF TypeOK
  <2> QED
    BY <1>0, <2>1, <2>3, <2>4 DEF BaseInv, HistoryType, DissectorInv,
       AnnouncedInv
<1>14. CASE Delete
  <2>1. /\ UNCHANGED <<bound, sk, ring, daemon, pc>> /\ Remove
        /\ call' = Dangling(call) /\ deletes' = deletes + 1
    BY <1>14 DEF Delete
  <2>2. /\ call' \in [Tasks -> Calls \cup {NoCall}]
        /\ \A u \in Tasks :
             call'[u] \in IF DuringCall(u)' THEN Calls ELSE {NoCall}
        /\ LocalInv'
    BY <1>0, <2>1, DanglingCalls DEF TypeOK, Pcs, DuringCall
  <2>3. TypeOK'
    BY <1>0, <2>1, <2>2, RemoveFrame DEF TypeOK
  <2> QED
    BY <1>0, <2>1, <2>2, <2>3, RemoveFrame DEF BaseInv, HistoryType
<1>15. CASE HandleMsg
  <2>1. /\ ring # <<>> /\ daemon' \in {"up", "dead"}
        /\ UNCHANGED <<exists, group, bound, pc, call, history>>
    BY <1>0, <1>15 DEF HandleMsg, TypeOK
  <2>0. ring \in Seq(Msgs) /\ Len(ring) <= RingCap
    BY <1>0 DEF TypeOK
  <2>2. Head(ring) \in Msgs /\ Head(ring).sock \in Sockets
    <3>1. Head(ring) \in Msgs
      BY <2>0, <2>1
    <3> QED
      BY <3>1 DEF Msgs
  <2>3. ring' \in Seq(Msgs) /\ Len(ring') <= RingCap
    <3>1. ring' = ring \/ ring' = Tail(ring)
      BY <1>15 DEF HandleMsg
    <3> QED
      BY <2>0, <2>1, <3>1, LimitAssumption
  <2>4. sk' \in [Sockets -> Storage]
    <3>1. sk \in [Sockets -> Storage]
      BY <1>0 DEF TypeOK
    <3>2. sk' = sk \/ sk' = [sk EXCEPT ![Head(ring).sock].sock_idx = 0]
      BY <1>15 DEF HandleMsg
    <3> QED
      BY <2>2, <3>1, <3>2 DEF Storage
  <2>5. TypeOK'
    BY <1>0, <2>1, <2>3, <2>4 DEF TypeOK, DuringCall
  <2> QED
    BY <1>0, <2>1, <2>5 DEF BaseInv, HistoryType, DissectorInv, AnnouncedInv,
       LocalInv, DuringCall, history
<1> QED
  BY <1>1, <1>2, <1>4, <1>5, <1>6, <1>7, <1>8, <1>9, <1>10, <1>11, <1>12,
     <1>13, <1>14, <1>15 DEF Next, Step

\* BaseInv holds in every state, creations that overlap included.
THEOREM BaseInvariance == Spec => []BaseInv
<1>1. Init => BaseInv
  <2> SUFFICES ASSUME Init PROVE BaseInv
    OBVIOUS
  <2>1. exists \in BOOLEAN
    BY Zenon DEF Init
  <2>2. TypeOK
    BY <2>1, EmptyGroup, LimitAssumption DEF Init, TypeOK, DuringCall
  <2>3. LocalInv
    BY DEF Init, LocalInv, DuringCall
  <2>4. DissectorInv /\ HistoryType /\ AnnouncedInv
    BY EmptyGroup, LimitAssumption
    DEF Init, DissectorInv, HistoryType, AnnouncedInv
  <2> QED
    BY <2>2, <2>3, <2>4 DEF BaseInv
<1> QED
  BY <1>1, BaseStep, PTL DEF Spec

\* Type correctness of the hooks' data under every interleaving of calls, of
\* the daemon and of `udpgrm delete`.
THEOREM SetupTypes == Spec => []TypeOK
<1>1. BaseInv => TypeOK
  BY DEF BaseInv
<1> QED
  BY <1>1, BaseInvariance, PTL

\* getsockopt(UDP_GRM_WORKING_GEN) (ebpf.c, udpgrm_getsockopt) returns a number
\* that was set for the caller's own application, however calls overlap.
THEOREM OwnGenRead == Spec => []AppReadsOwnGen
<1>1. BaseInv => AppReadsOwnGen
  <2> SUFFICES ASSUME BaseInv, NEW x \in Sockets
               PROVE  LET gen == Answer(x, "WORKING_GEN").word
                      IN  gen \in {Unset, 0} \/ <<AppOf(x), gen>> \in announced
    BY DEF AppReadsOwnGen
  <2>1. AppOf(x) \in Apps
    BY LimitAssumption DEF BaseInv, TypeOK, AppOf, Storage, Apps
  <2>2. Answer(x, "WORKING_GEN").word =
          IF exists THEN group.working_gen[AppOf(x)] ELSE Unset
    BY DEF Answer, Zero
  <2> QED
    BY <2>1, <2>2 DEF BaseInv, AnnouncedInv
<1> QED
  BY <1>1, BaseInvariance, PTL

(***************************************************************************)
(* SerialInv: no other call runs while a call creates the group.           *)
(***************************************************************************)
\* A call that creates the group is alone with it: the other calls that are
\* under way have pointers to a group that is gone.
CreationInv ==
  /\ \A t, u \in Tasks : Creating(t) /\ Creating(u) => t = u
  /\ \A t, u \in Tasks :
       Creating(t) /\ u # t /\ DuringCall(u) => call[u].state # "valid"
  /\ \A t \in Tasks : Creating(t) => confirmed = {} /\ placed = {}
  /\ \A t \in Tasks : DuringCall(t) /\ call[t].state = "valid" => exists
  /\ ~exists => confirmed = {} /\ placed = {}

SerialInv ==
  CreationInv /\ ConfirmedDissectorHolds /\ AppWithinGroup

\* The end of a call: a call that still holds its group excludes a creator.
LEMMA ReturnSerial ==
  ASSUME BaseInv, CreationInv, NEW t \in Tasks, Return(t), UNCHANGED exists,
         \/ confirmed' = confirmed /\ placed' \subseteq placed
         \/ DuringCall(t) /\ call[t].state = "valid"
  PROVE  CreationInv'
<1>1. /\ pc'[t] = "idle"
      /\ \A u \in Tasks : u # t => pc'[u] = pc[u] /\ call'[u] = call[u]
  BY ReturnFrame
<1>2. \A u \in Tasks : Creating(u)' => u # t /\ Creating(u)
  BY <1>1 DEF Creating
<1>3. \A u \in Tasks : DuringCall(u)' => u # t /\ DuringCall(u)
  BY <1>1 DEF DuringCall
<1>4. DuringCall(t) /\ call[t].state = "valid" =>
        exists /\ \A u \in Tasks : ~Creating(u)'
  BY <1>2 DEF CreationInv
<1>5. \A x, y \in Tasks : Creating(x)' /\ Creating(y)' => x = y
  BY <1>2 DEF CreationInv
<1>6. \A x, y \in Tasks :
        Creating(x)' /\ y # x /\ DuringCall(y)' => call'[y].state # "valid"
  BY <1>1, <1>2, <1>3 DEF CreationInv
<1>7. \A x \in Tasks : Creating(x)' => confirmed' = {} /\ placed' = {}
  BY <1>2, <1>4 DEF CreationInv
<1>8. \A x \in Tasks : DuringCall(x)' /\ call'[x].state = "valid" => exists'
  BY <1>1, <1>3 DEF CreationInv
<1>9. ~exists' => confirmed' = {} /\ placed' = {}
  BY <1>4 DEF CreationInv
<1> QED
  BY <1>5, <1>6, <1>7, <1>8, <1>9 DEF CreationInv

\* Steps that touch neither the calls nor the group.
LEMMA SerialFrame ==
  ASSUME CreationInv, UNCHANGED <<exists, pc, call, history>>
  PROVE  CreationInv'
<1>1. \A u \in Tasks : (Creating(u)' <=> Creating(u))
                       /\ (DuringCall(u)' <=> DuringCall(u))
  BY DEF Creating, DuringCall
<1> QED
  BY <1>1 DEF CreationInv, history

\* SerialInv is kept by every action.
LEMMA SerialStep ==
  ASSUME ~CreationOverlaps, BaseInv, SerialInv, [Next]_vars
  PROVE  SerialInv'
<1>0. /\ TypeOK /\ LocalInv /\ DissectorInv /\ HistoryType
      /\ CreationInv /\ ConfirmedDissectorHolds
      /\ AppWithinGroup /\ BaseInv'
  BY BaseStep DEF BaseInv, SerialInv
<1>1. CASE UNCHANGED vars
  <2>1. ConfirmedDissectorHolds' /\ AppWithinGroup'
    BY <1>0, <1>1 DEF vars, history, ConfirmedDissectorHolds, AppWithinGroup
  <2> QED
    BY <1>0, <1>1, <2>1, SerialFrame DEF vars, history, SerialInv
<1>2. ASSUME NEW x \in Sockets, Bind(x)
      PROVE  SerialInv'
  <2>1. ConfirmedDissectorHolds'
    BY <1>0, <1>2 DEF Bind, history, ConfirmedDissectorHolds
  <2>2. AppWithinGroup'
    <3>1. sk' = [sk EXCEPT ![x] = NewStorage] /\ UNCHANGED <<group, placed>>
      BY <1>2 DEF Bind, history
    <3>2. sk'[x].sock_app = 0 /\ \A y \in Sockets : y # x => sk'[y] = sk[y]
      BY <1>0, <3>1 DEF TypeOK, NewStorage
    <3> QED
      BY <1>0, <3>1, <3>2 DEF AppWithinGroup, HistoryType
  <2> QED
    BY <1>0, <1>2, <2>1, <2>2, SerialFrame DEF Bind, SerialInv
<1>3. ASSUME NEW t \in Tasks, Return(t),
             UNCHANGED <<exists, group, sk, history>>
      PROVE  SerialInv'
  <2>1. ConfirmedDissectorHolds' /\ AppWithinGroup'
    BY <1>0, <1>3 DEF history, ConfirmedDissectorHolds, AppWithinGroup
  <2> QED
    BY <1>0, <1>3, <2>1, ReturnSerial DEF history, SerialInv
<1>4. ASSUME NEW t \in Tasks, NEW x \in Sockets, NEW o \in Options,
             SetSockopt(t, x, o)
      PROVE  SerialInv'
  <2>1. CASE Fail(t, "EBADF")
    BY <1>3, <1>4, <2>1 DEF SetSockopt, Fail
  <2>2. CASE ~Fail(t, "EBADF")
    <3>1. /\ pc[t] = "idle" /\ \A u \in Tasks : ~Creating(u)
          /\ pc' = [pc EXCEPT ![t] = IF exists THEN "option" ELSE "insert"]
          /\ UNCHANGED <<exists, group, bound, sk, ring, daemon, history>>
      BY <1>4, <2>2 DEF SetSockopt, MayCall
    <3>2. PICK left \in Leftovers :
            call' = [call EXCEPT ![t] =
                       [sock |-> x, opt |-> o, data |-> CopyOptval(left, o),
                        created |-> FALSE,
                        state |-> IF exists THEN "valid" ELSE "none",
                        old |-> Readable(empty_state)]]
      BY <1>4, <2>2 DEF SetSockopt
    <3>3. /\ call'[t].state = IF exists THEN "valid" ELSE "none"
          /\ call'[t].created = FALSE
          /\ pc'[t] = IF exists THEN "option" ELSE "insert"
          /\ \A u \in Tasks : u # t => call'[u] = call[u] /\ pc'[u] = pc[u]
      BY <1>0, <3>1, <3>2 DEF TypeOK
    <3>4. \A u \in Tasks : Creating(u)' => u = t /\ ~exists
      BY <3>1, <3>3 DEF Creating
    <3>5. CreationInv'
      <4>1. \A u \in Tasks : u # t /\ DuringCall(u)' /\ call'[u].state = "valid"
                               => exists
        BY <1>0, <3>3 DEF CreationInv, DuringCall
      <4> QED
        BY <1>0, <3>1, <3>3, <3>4, <4>1 DEF CreationInv, history
    <3>7. ConfirmedDissectorHolds' /\ AppWithinGroup'
      BY <1>0, <3>1 DEF history, ConfirmedDissectorHolds, AppWithinGroup
    <3> QED
      BY <3>5, <3>7 DEF SerialInv
  <2> QED
    BY <2>1, <2>2
<1>5. ASSUME NEW t \in Tasks, Insert(t)
      PROVE  SerialInv'
  <2>1. /\ call' = [call EXCEPT ![t].created = TRUE]
        /\ pc[t] = "insert" /\ pc' = [pc EXCEPT ![t] = "init"]
        /\ DuringCall(t) /\ Creating(t) /\ (exists => exists')
        /\ UNCHANGED <<bound, sk, ring, daemon, confirmed, placed, announced,
                       deletes>>
    BY <1>5 DEF Insert, DuringCall, Creating
  <2>2. call[t] \in Calls
    BY <2>1, CallData
  <2>3. /\ call'[t].created = TRUE /\ call'[t].state = call[t].state
        /\ pc'[t] = "init"
        /\ \A u \in Tasks : u # t => call'[u] = call[u] /\ pc'[u] = pc[u]
    BY <1>0, <2>1, <2>2 DEF TypeOK, Calls
  <2>4. \A u \in Tasks : /\ Creating(u)' <=> Creating(u)
                         /\ DuringCall(u)' <=> DuringCall(u)
    BY <2>1, <2>3 DEF Creating, DuringCall
  <2>5. confirmed = {} /\ placed = {}
    BY <1>0, <2>1 DEF CreationInv
  <2>6. CreationInv'
    BY <1>0, <1>5, <2>1, <2>3, <2>4, <2>5 DEF CreationInv, Insert
  <2>8. ConfirmedDissectorHolds' /\ AppWithinGroup'
    BY <2>1, <2>5 DEF ConfirmedDissectorHolds, AppWithinGroup
  <2> QED
    BY <2>6, <2>8 DEF SerialInv
<1>6. ASSUME NEW t \in Tasks, InitGroup(t)
      PROVE  SerialInv'
  <2>1. CASE ~exists
    BY <1>3, <1>6, <2>1 DEF InitGroup, Fail
  <2>2. CASE exists
    <3>1. /\ call' = [call EXCEPT ![t].state = "valid"]
          /\ pc[t] = "init" /\ pc' = [pc EXCEPT ![t] = "option"]
          /\ DuringCall(t)
          /\ UNCHANGED <<exists, bound, sk, ring, daemon, history>>
      BY <1>6, <2>2 DEF InitGroup, DuringCall
    <3>2. call[t] \in Calls
      BY <3>1, CallData
    <3>3. /\ call'[t].state = "valid" /\ call'[t].created = call[t].created
          /\ pc'[t] = "option"
          /\ \A u \in Tasks : u # t => call'[u] = call[u] /\ pc'[u] = pc[u]
      BY <1>0, <3>1, <3>2 DEF TypeOK, Calls
    <3>4. Creating(t)
      BY <1>0, <3>1 DEF LocalInv, Creating, DuringCall
    <3>5. \A u \in Tasks : /\ Creating(u)' <=> Creating(u)
                           /\ DuringCall(u)' <=> DuringCall(u)
      BY <1>0, <3>1, <3>3, <3>4 DEF LocalInv, Creating, DuringCall
    <3>6. confirmed = {} /\ placed = {}
      BY <1>0, <3>4 DEF CreationInv
    <3>7. CreationInv'
      BY <1>0, <2>2, <3>1, <3>3, <3>4, <3>5 DEF CreationInv, history
    <3>9. ConfirmedDissectorHolds' /\ AppWithinGroup'
      BY <3>1, <3>6 DEF ConfirmedDissectorHolds, AppWithinGroup, history
    <3> QED
      BY <3>7, <3>9 DEF SerialInv
  <2> QED
    BY <2>1, <2>2
<1>7. ASSUME NEW t \in Tasks, SetWorkingGen(t)
      PROVE  SerialInv'
  <2>1. /\ pc[t] = "option" /\ Return(t)
        /\ UNCHANGED <<exists, bound, sk, daemon, confirmed, placed, deletes>>
        /\ group' = group
           \/ group' = [group EXCEPT !.working_gen[storage(t).sock_app % MAX_APPS]
                                       = data(t).word]
    BY <1>7 DEF SetWorkingGen, At
  <2>2. group'.dis = group.dis
    BY <1>0, <2>1 DEF TypeOK, Groups
  <2>3. ConfirmedDissectorHolds' /\ AppWithinGroup'
    BY <1>0, <2>1, <2>2 DEF ConfirmedDissectorHolds, AppWithinGroup
  <2> QED
    BY <1>0, <2>1, <2>3, ReturnSerial DEF SerialInv
<1>8. ASSUME NEW t \in Tasks, SetSocketGen(t)
      PROVE  SerialInv'
  <2>1. /\ pc[t] = "option" /\ Return(t) /\ DuringCall(t)
        /\ UNCHANGED <<exists, group, bound, daemon, history>>
        /\ sk' = sk \/ sk' = [sk EXCEPT ![call[t].sock].sock_gen = data(t).word]
    BY <1>8 DEF SetSocketGen, At, DuringCall
  <2>2. \A x \in Sockets : sk'[x].sock_app = sk[x].sock_app
    BY <1>0, <2>1 DEF TypeOK, Storage
  <2>3. ConfirmedDissectorHolds' /\ AppWithinGroup'
    BY <1>0, <2>1, <2>2 DEF ConfirmedDissectorHolds, AppWithinGroup, history,
       HistoryType
  <2> QED
    BY <1>0, <2>1, <2>3, ReturnSerial DEF SerialInv, history
<1>9. ASSUME NEW t \in Tasks, Eagain(t) \/ FlowAssure(t)
      PROVE  SerialInv'
  BY <1>3, <1>9 DEF Eagain, FlowAssure, Fail
<1>10. ASSUME NEW t \in Tasks, RepeatDissector(t)
       PROVE  SerialInv'
  <2>1. /\ pc[t] = "option" /\ DuringCall(t) /\ Return(t)
        /\ UNCHANGED <<exists, bound, sk, ring, daemon, placed, announced,
                       deletes>>
        /\ \/ UNCHANGED group
           \/ group' = [group EXCEPT !.verbose = Verbose(data(t))]
        /\ \/ UNCHANGED confirmed
           \/ /\ call[t].state = "valid" /\ MayRepeat(group.dis, data(t))
              /\ confirmed' = confirmed \cup {Typed(call[t].opt.val)}
    BY <1>10 DEF RepeatDissector, At, DuringCall, RefuseChange, Fail, Store,
       Deref, Readable
  <2>2. group'.dis = group.dis
    BY <1>0, <2>1 DEF TypeOK, Groups
  <2>3. confirmed' # confirmed =>
          exists /\ Typed(call[t].opt.val) = group.dis
    BY <1>0, <2>1, CallData DEF CreationInv, MayRepeat, DissectorInv
  <2>4. ConfirmedDissectorHolds' /\ AppWithinGroup'
    BY <1>0, <2>1, <2>2, <2>3 DEF ConfirmedDissectorHolds, AppWithinGroup
  <2> QED
    BY <1>0, <2>1, <2>4, ReturnSerial DEF SerialInv
<1>11. ASSUME NEW t \in Tasks, SetDissector(t)
       PROVE  SerialInv'
  <2>1. /\ pc[t] = "option" /\ DuringCall(t) /\ Creating(t)
        /\ UNCHANGED <<exists, bound, sk, daemon, placed, announced, deletes>>
    BY <1>11 DEF SetDissector, At, DuringCall, Creating
  <2>2. confirmed = {} /\ placed = {}
    BY <1>0, <2>1 DEF CreationInv
  <2>3. CASE pc' = [pc EXCEPT ![t] = "undo"]
             /\ UNCHANGED <<group, call, ring, confirmed>>
    <3>1. pc'[t] = "undo" /\ \A u \in Tasks : u # t => pc'[u] = pc[u]
      BY <1>0, <2>3 DEF TypeOK
    <3>2. \A u \in Tasks : /\ Creating(u)' <=> Creating(u)
                           /\ DuringCall(u)' <=> DuringCall(u)
      BY <2>1, <2>3, <3>1 DEF Creating, DuringCall
    <3>3. CreationInv'
      BY <1>0, <2>1, <2>3, <3>2 DEF CreationInv
    <3>5. ConfirmedDissectorHolds' /\ AppWithinGroup'
      BY <2>1, <2>2, <2>3 DEF ConfirmedDissectorHolds, AppWithinGroup
    <3> QED
      BY <3>3, <3>5 DEF SerialInv
  <2>4. CASE Return(t) /\ UNCHANGED <<group, ring, confirmed>>
    <3>1. ConfirmedDissectorHolds' /\ AppWithinGroup'
      BY <2>1, <2>2, <2>4 DEF ConfirmedDissectorHolds, AppWithinGroup
    <3> QED
      BY <1>0, <2>1, <2>4, <3>1, ReturnSerial DEF SerialInv
  <2>5. CASE /\ Return(t)
             /\ Store(t, [group EXCEPT !.dis = Typed(data(t)),
                                       !.verbose = Verbose(data(t))])
             /\ confirmed' = IF call[t].state = "valid"
                               THEN confirmed \cup {Typed(call[t].opt.val)}
                               ELSE confirmed
    <3>1. CreationInv'
      BY <1>0, <2>1, <2>5, ReturnSerial
    <3>2. CASE call[t].state = "valid"
      <4>1. group' = [group EXCEPT !.dis = Typed(data(t)),
                                   !.verbose = Verbose(data(t))]
        BY <2>5, <3>2 DEF Store, Reaches
      <4>2. group'.dis = Typed(call[t].opt.val)
        BY <1>0, <2>1, <4>1, CallData DEF TypeOK, Groups
      <4>3. exists
        BY <1>0, <2>1, <3>2 DEF CreationInv
      <4>4. ConfirmedDissectorHolds' /\ AppWithinGroup'
        BY <2>1, <2>2, <2>5, <3>2, <4>2, <4>3
        DEF ConfirmedDissectorHolds, AppWithinGroup
      <4> QED
        BY <3>1, <4>4 DEF SerialInv
    <3>3. CASE call[t].state # "valid"
      BY <2>1, <2>2, <2>5, <3>1, <3>3
      DEF SerialInv, ConfirmedDissectorHolds, AppWithinGroup
    <3> QED
      BY <3>2, <3>3
  <2> QED
    BY <1>11, <2>3, <2>4, <2>5 DEF SetDissector, Fail
<1>12. ASSUME NEW t \in Tasks, UndoGroup(t)
       PROVE  SerialInv'
  <2>1. /\ pc[t] = "undo" /\ pc' = [pc EXCEPT ![t] = "idle"]
        /\ pc' \in [Tasks -> Pcs]
        /\ UNCHANGED <<bound, sk, ring, daemon, deletes>>
    BY <1>0, <1>12 DEF UndoGroup, TypeOK, Pcs
  <2>2. CASE ~exists
    <3>1. Return(t) /\ UNCHANGED <<exists, group, sk, ring, daemon, history>>
      BY <1>12, <2>1, <2>2 DEF UndoGroup, Return, history
    <3> QED
      BY <1>3, <3>1
  <2>3. CASE exists
    <3> DEFINE c == [call EXCEPT ![t] = NoCall]
    <3>1. call' = Dangling(c) /\ Remove
      BY <1>12, <2>3 DEF UndoGroup
    <3>2. /\ c \in [Tasks -> Calls \cup {NoCall}]
          /\ \A u \in Tasks : pc'[u] # "idle" => c[u] = call[u] /\ pc'[u] = pc[u]
          /\ \A u \in Tasks : pc'[u] = "idle" => c[u] = NoCall
          /\ \A u \in Tasks : pc'[u] # "idle" => u # t
      BY <1>0, <2>1 DEF TypeOK, DuringCall
    <3>3. \A u \in Tasks : DuringCall(u)' => call'[u].state # "valid"
      BY <2>1, <3>1, <3>2, DanglingCalls
    <3>4. Creating(t) /\ DuringCall(t)
      BY <1>0, <2>1 DEF LocalInv, Creating, DuringCall
    <3>5. \A u \in Tasks : Creating(u)' => u # t /\ Creating(u)
      BY <2>1, <3>1, <3>2, DanglingCalls DEF Creating, DuringCall
    <3>6. \A u \in Tasks : ~Creating(u)'
      BY <1>0, <3>4, <3>5 DEF CreationInv
    <3>7. confirmed' = {} /\ placed' = {} /\ exists' = FALSE
      BY <3>1 DEF Remove
    <3>8. CreationInv'
      BY <3>3, <3>6, <3>7 DEF CreationInv
    <3> QED
      BY <3>7, <3>8
      DEF SerialInv, ConfirmedDissectorHolds, AppWithinGroup
  <2> QED
    BY <2>2, <2>3
<1>13. ASSUME NEW t \in Tasks, SetSocketApp(t)
       PROVE  SerialInv'
  <2> DEFINE x == call[t].sock
             app == data(t).word
  <2>1. /\ pc[t] = "option" /\ DuringCall(t) /\ Return(t)
        /\ UNCHANGED <<exists, group, bound, ring, daemon, confirmed, announced,
                       deletes>>
    BY <1>13 DEF SetSocketApp, At, DuringCall, Fail
  <2>2. x \in Sockets
    BY <2>1, CallData
  <2>3. ConfirmedDissectorHolds'
    BY <1>0, <2>1 DEF ConfirmedDissectorHolds
  <2>4. CASE UNCHANGED <<sk, placed>>
    <3>1. AppWithinGroup'
      BY <1>0, <2>1, <2>4 DEF AppWithinGroup
    <3> QED
      BY <1>0, <2>1, <2>3, <2>4, <3>1, ReturnSerial DEF SerialInv
  <2>5. CASE ~UNCHANGED <<sk, placed>>
    <3>1. PICK g \in Deref(t) : AppAllowed(g, app)
            /\ sk' = [sk EXCEPT ![x].sock_app = app]
            /\ placed' = IF call[t].state = "valid" THEN placed \cup {x}
                                                    ELSE placed \ {x}
      BY <1>13, <2>5 DEF SetSocketApp
    <3>2. sk'[x].sock_app = app /\ \A y \in Sockets : y # x => sk'[y] = sk[y]
      BY <1>0, <2>2, <3>1 DEF TypeOK, Storage
    <3>3. call[t].state = "valid" => app < group.dis.max_apps
      BY <3>1 DEF Deref, Readable, AppAllowed
    <3>4. AppWithinGroup'
      BY <1>0, <2>1, <2>2, <3>1, <3>2, <3>3 DEF AppWithinGroup, HistoryType
    <3> QED
      BY <1>0, <2>1, <2>3, <3>1, <3>4, ReturnSerial DEF SerialInv
  <2> QED
    BY <2>4, <2>5
<1>14. CASE Delete
  <2>1. /\ UNCHANGED <<bound, sk, ring, daemon, pc>> /\ Remove
        /\ call' = Dangling(call) /\ deletes' = deletes + 1
    BY <1>14 DEF Delete
  <2>2. \A u \in Tasks : DuringCall(u)' =>
          call'[u].state # "valid" /\ call'[u].created = call[u].created
    BY <1>0, <2>1, DanglingCalls DEF TypeOK, Pcs, DuringCall
  <2>3. \A u \in Tasks : Creating(u)' => Creating(u)
    BY <2>1, <2>2 DEF Creating, DuringCall
  <2>4. confirmed' = {} /\ placed' = {} /\ exists' = FALSE
    BY <2>1 DEF Remove
  <2>5. CreationInv'
    BY <1>0, <2>2, <2>3, <2>4 DEF CreationInv
  <2> QED
    BY <2>4, <2>5
    DEF SerialInv, ConfirmedDissectorHolds, AppWithinGroup
<1>15. CASE HandleMsg
  <2>1. /\ UNCHANGED <<exists, group, bound, pc, call, history>>
        /\ ring # <<>>
        /\ daemon' = daemon \/ (daemon' = "dead" /\ ~exists)
        /\ ring' = ring \/ ring' = Tail(ring)
        /\ sk' = sk \/ sk' = [sk EXCEPT ![Head(ring).sock].sock_idx = 0]
    BY <1>15 DEF HandleMsg
  <2>3. \A x \in Sockets : sk'[x].sock_app = sk[x].sock_app
    BY <1>0, <2>1 DEF TypeOK, Storage
  <2>4. ConfirmedDissectorHolds' /\ AppWithinGroup'
    BY <1>0, <2>1, <2>3 DEF ConfirmedDissectorHolds, AppWithinGroup, history,
       HistoryType
  <2> QED
    BY <1>0, <2>1, <2>4, SerialFrame DEF SerialInv
<1> QED
  BY <1>1, <1>2, <1>4, <1>5, <1>6, <1>7, <1>8, <1>9, <1>10, <1>11, <1>12,
     <1>13, <1>14, <1>15 DEF Next, Step

\* While no other call runs during the creation of the group (the run GroupRace
\* shows what happens otherwise), SerialInv holds in every state.
THEOREM SerialInvariance ==
  ASSUME ~CreationOverlaps PROVE Spec => []SerialInv
<1>1. Init => SerialInv
  BY DEF Init, SerialInv, CreationInv, ConfirmedDissectorHolds,
         AppWithinGroup, Creating, DuringCall
<1>2. BaseInv /\ SerialInv /\ [Next]_vars => SerialInv'
  BY SerialStep
<1> QED
  BY <1>1, <1>2, BaseInvariance, PTL DEF Spec

\* README.md, "You can set UDP_GRM_DISSECTOR only once": a dissector that
\* setsockopt() confirmed is that of the group, with all its numbers.
THEOREM DissectorOnce ==
  ASSUME ~CreationOverlaps PROVE Spec => []ConfirmedDissectorHolds
<1>1. SerialInv => ConfirmedDissectorHolds
  BY DEF SerialInv
<1> QED
  BY <1>1, SerialInvariance, PTL

\* A socket that a group let into an application stays within its max_apps
\* (ebpf.c, UDP_GRM_SOCKET_APP), so that TO_WRK_GEN stays within the table.
THEOREM AppsWithinGroup ==
  ASSUME ~CreationOverlaps PROVE Spec => []AppWithinGroup
<1>1. SerialInv => AppWithinGroup
  BY DEF SerialInv
<1> QED
  BY <1>1, SerialInvariance, PTL
=============================================================================
