----------------------------- MODULE GroupSetup -----------------------------
(***************************************************************************)
(* How a reuseport group comes into being and gets its parameters: the     *)
(* hooks udpgrm_setsockopt and udpgrm_getsockopt of ebpf/ebpf.c, run by    *)
(* several tasks at the same time.                                         *)
(*                                                                         *)
(* A call of setsockopt() takes one action per access of the group map     *)
(* that another CPU can observe: the lookup, the insertion, the stores     *)
(* into the new group, the option itself, and the removal of a group whose *)
(* first dissector was refused.  Between them other tasks run their calls, *)
(* the daemon takes messages and an operator may run `udpgrm delete`.      *)
(*                                                                         *)
(* What a call may observe of a group that was deleted under it is in      *)
(* Deref.  The daemon's work on a message is one step here; Registration   *)
(* has its steps.                                                          *)
(***************************************************************************)
EXTENDS Integers, Sequences

CONSTANTS
  Tasks,               \* tasks that call, each on a CPU of its own
  Sockets, Netns,      \* sockets, and the network namespace of each
  Options,             \* setsockopt() arguments, see OptionType
  Gens,                \* generation numbers among them
  MAX_APPS, MAX_INSTR, \* limits of a dissector
  RingCap,             \* messages that fit into msg_rb
  MapMayFill,          \* do other groups fill reuseport_storage_map at times?
  MaxDeletes,          \* bound on the operator's deletes
  CreationOverlaps     \* may other calls run while a call creates the group?

DISSECTOR_FLOW == 0
DISSECTOR_CBPF == 1
DISSECTOR_BESPOKE == 3
DISSECTOR_NOOP == 4
DISSECTOR_FLAG_VERBOSE == 32768
IsVerbose(word) == (word \div DISSECTOR_FLAG_VERBOSE) % 2 = 1
DISSECTOR_TYPE(word) ==
  IF IsVerbose(word) THEN word - DISSECTOR_FLAG_VERBOSE ELSE word
Unset == -1            \* 0xffffffff in sock_gen, sock_idx and working_gen
NoNetns == 0           \* the netns cookie of an empty group; no real one is 0

Apps == 0 .. MAX_APPS - 1
OptionNames ==
  {"WORKING_GEN", "SOCKET_GEN", "DISSECTOR", "SOCKET_APP", "FLOW_ASSURE"}

\* union setsockopt_opts.  The first word is the dissector type with its flags,
\* or the single number of the other options.
Data == [word : Int, timeout : Int, max_apps : Nat, digest : Nat, filter : Nat]
Zero == [word |-> 0, timeout |-> 0, max_apps |-> 0, digest |-> 0, filter |-> 0]
OptionType == [name : OptionNames, val : Data, len : Nat]

\* Where a member of struct udp_grm_dissector ends; a filter of n instructions
\* is a length and n times 8 bytes.
End(field, val) ==
  CASE field = "word" -> 4 [] field = "timeout" -> 8 [] field = "max_apps" -> 12
    [] field = "digest" -> 16 [] field = "filter" -> 120 + 8 * val.filter

ASSUME NetnsAssumption == Netns \in [Sockets -> Nat \ {NoNetns}]
ASSUME LimitAssumption ==
  /\ MAX_APPS \in Nat \ {0} /\ MAX_INSTR \in Nat /\ RingCap \in Nat \ {0}
  /\ MaxDeletes \in Nat /\ {MapMayFill, CreationOverlaps} \subseteq BOOLEAN
\* Callers pass a struct of the documented sizes, or a prefix of it up to the
\* members they use: the type, the timeout, the numbers, the label, a filter
\* of up to 32 instructions or of up to 64.  A BESPOKE dissector is not
\* validated: the inputs keep max_apps in range.
OptLens == {4, 8, 12, 16, 116, 376, 632}

ASSUME OptionAssumption ==
  /\ Gens \subseteq Nat /\ Options \subseteq OptionType
  /\ \A o \in Options :
       /\ o.val.word \in Nat /\ o.len \in OptLens
       /\ \A field \in DOMAIN o.val :
            o.val[field] = 0 \/ End(field, o.val) <= o.len
       /\ o.name = "DISSECTOR" => o.val.max_apps <= MAX_APPS
       /\ o.name \in {"WORKING_GEN", "SOCKET_GEN"} => o.val.word \in Gens

VARIABLES
  exists, group,       \* struct reuseport_storage of the group
  bound, sk,           \* sockets with a storage, and struct socket_storage
  pc, call,            \* the tasks: program counter and locals of the hook
  ring, daemon,        \* msg_rb; "up" or "dead"
  \* history: what the calls promised for this group, see the properties
  confirmed, placed, announced, deletes

history == <<confirmed, placed, announced, deletes>>
vars == <<exists, group, bound, sk, pc, call, ring, daemon,
          history>>

(***************************************************************************)
(* Types.                                                                  *)
(***************************************************************************)
Groups == [netns_cookie : Nat, verbose : BOOLEAN, dis : Data,
           working_gen : [Apps -> Gens \cup {0}]]
empty_state == [netns_cookie |-> NoNetns, verbose |-> FALSE, dis |-> Zero,
                working_gen |-> [a \in Apps |-> 0]]

Storage == [sock_gen : Gens \cup {Unset}, sock_idx : {0, Unset}, sock_app : Apps]
NewStorage == [sock_gen |-> Unset, sock_idx |-> Unset, sock_app |-> 0]

\* The members that a hook reads through its pointer.
Readable(g) == [netns_cookie |-> g.netns_cookie, dis |-> g.dis]

\* Locals of a call.  `state` is the pointer to the group and `old` what the
\* element held when it was deleted.
Calls == [sock : Sockets, opt : Options, data : Data, created : BOOLEAN,
          state : {"none", "valid", "freed"},
          old : [netns_cookie : Nat, dis : Data]]
NoCall == <<>>
Msgs == [type : {"REGISTER_SOCKET", "SET_WORKING_GEN", "SET_DISSECTOR"},
         sock : Sockets]

Init ==
  /\ exists = FALSE /\ group = empty_state
  /\ bound = {} /\ sk = [x \in Sockets |-> NewStorage]
  /\ pc = [t \in Tasks |-> "idle"]
  /\ call = [t \in Tasks |-> NoCall]
  /\ ring = <<>> /\ daemon = "up"
  /\ confirmed = {} /\ placed = {} /\ announced = {}
  /\ deletes = 0

(***************************************************************************)
(* Copying the option.  memcpy needs a constant size: the hook copies the  *)
(* largest of a few sizes that the caller's buffer covers, into a page     *)
(* that it cleared before.                                                 *)
(***************************************************************************)
Rungs == {632, 376, 116, 28, 16, 12, 8, 4}
Copied(len) ==
  CHOOSE r \in Rungs : r <= len /\ \A q \in Rungs : q <= len => q <= r

CopyOptval_Residue(old, o) ==
  [field \in DOMAIN o.val |->
     IF End(field, o.val) <= Copied(o.len) THEN o.val[field] ELSE old[field]]
CopyOptval(old, o) ==
  [field \in DOMAIN o.val |->
     IF End(field, o.val) <= Copied(o.len) THEN o.val[field] ELSE Zero[field]]

\* The page belongs to the CPU, which runs one hook at a time (the kernel does
\* not preempt it): it holds what an earlier call left there.
Leftovers == {o.val : o \in Options}

Creating(t) == pc[t] # "idle" /\ (pc[t] = "insert" \/ call[t].created)

data(t) == call[t].data
storage(t) == sk[call[t].sock]

(***************************************************************************)
(* Access through the pointer that get_state returned.  After a delete the *)
(* element is free memory: a load returns the old content or that of the   *)
(* group that took its place, a store is lost or reaches that group.       *)
(***************************************************************************)
Deref(t) ==
  IF call[t].state = "valid" THEN {Readable(group)}
  ELSE {call[t].old} \cup {Readable(g) : g \in IF exists THEN {group} ELSE {}}

Reaches(t) ==
  IF call[t].state = "valid" THEN {TRUE} ELSE {FALSE} \cup {exists}

Store(t, g) ==
  \E hit \in Reaches(t) : group' = IF hit THEN g ELSE group

\* The end of a call; the error numbers are for the reader.
Errnos == {"EBADF", "EPERM", "EAGAIN", "EEXIST", "EOVERFLOW"}

Return(t) ==
  /\ pc' = [pc EXCEPT ![t] = "idle"]
  /\ call' = [call EXCEPT ![t] = NoCall]
Fail(t, errno) == errno \in Errnos /\ Return(t)

Post(m) == Len(ring) < RingCap /\ ring' = Append(ring, m)
RingFull == Len(ring) = RingCap

----------------------------------------------------------------------------
\* bind() of a fresh socket: _bpf_bind creates the storage.  Registration also
\* has the second bind() of a socket, which resets it.
Bind(x) ==
  /\ x \notin bound
  /\ bound' = bound \cup {x}
  /\ sk' = [sk EXCEPT ![x] = NewStorage]
  /\ UNCHANGED <<exists, group, pc, call, ring, daemon,
                 history>>

(***************************************************************************)
(* setsockopt(): the common part.                                          *)
(***************************************************************************)
\* The option is copied, a socket that was not bound refused, and the group
\* looked up; a socket of another network namespace may not use it.  Nothing in
\* the code keeps other calls away while one creates the group: that only one
\* socket is set up at first (CreationOverlaps = FALSE) is how the README uses
\* the options, and a hypothesis of the properties about dissectors.
MayCall == CreationOverlaps \/ \A u \in Tasks : ~Creating(u)
Foreign(x) == group.netns_cookie # Netns[x]

SetSockopt(t, x, o) ==
  /\ pc[t] = "idle" /\ MayCall
  /\ \/ /\ x \notin bound \/ (exists /\ Foreign(x))
        /\ Fail(t, "EBADF")
     \/ /\ x \in bound /\ (exists => ~Foreign(x))
        /\ \E left \in Leftovers :
             call' = [call EXCEPT ![t] =
                        [sock |-> x, opt |-> o, data |-> CopyOptval(left, o),
                         created |-> FALSE,
                         state |-> IF exists THEN "valid" ELSE "none",
                         old |-> Readable(empty_state)]]
        /\ pc' = [pc EXCEPT ![t] = IF exists THEN "option" ELSE "insert"]
  /\ UNCHANGED <<exists, group, bound, sk, ring, daemon, history>>

\* get_state: insertion of an empty group with BPF_NOEXIST.  `created` is set
\* even if another task was faster or other groups fill the map.
Insert(t) ==
  /\ pc[t] = "insert"
  /\ \/ /\ ~exists
        /\ exists' = TRUE /\ group' = empty_state
     \/ /\ exists \/ MapMayFill
        /\ UNCHANGED <<exists, group>>
  /\ call' = [call EXCEPT ![t].created = TRUE]
  /\ pc' = [pc EXCEPT ![t] = "init"]
  /\ UNCHANGED <<bound, sk, ring, daemon, confirmed,
                 placed, announced, deletes>>

\* The second lookup, and the first values of a group.  The namespace is that
\* of the caller now.
NewGroup(g, x) == [g EXCEPT !.netns_cookie = Netns[x], !.verbose = FALSE,
                            !.dis.word = DISSECTOR_FLOW]

InitGroup(t) ==
  /\ pc[t] = "init"
  /\ \/ /\ exists
        /\ group' = NewGroup(group, call[t].sock)
        /\ call' = [call EXCEPT ![t].state = "valid"]
        /\ pc' = [pc EXCEPT ![t] = "option"]
     \/ /\ ~exists
        /\ UNCHANGED group
        /\ Fail(t, "EBADF")
  /\ UNCHANGED <<exists, bound, sk, ring, daemon,
                 history>>

At(t, name) == pc[t] = "option" /\ call[t].opt.name = name

(***************************************************************************)
(* setsockopt(): the options.                                              *)
(***************************************************************************)
\* All options that post a message fail with EAGAIN when the ring is full; for
\* a dissector the group that was created stays, with the default dissector.
SetWorkingGen(t) ==
  LET app == storage(t).sock_app % MAX_APPS
  IN  /\ At(t, "WORKING_GEN")
      /\ Post([type |-> "SET_WORKING_GEN", sock |-> call[t].sock])
      /\ \E hit \in Reaches(t) :
           IF hit THEN /\ group' = [group EXCEPT !.working_gen[app] = data(t).word]
                       /\ announced' = announced \cup {<<app, data(t).word>>}
                  ELSE UNCHANGED <<group, announced>>
      /\ Return(t)
      /\ UNCHANGED <<exists, bound, sk, daemon,
                     confirmed, placed, deletes>>

SetSocketGen(t) ==
  /\ At(t, "SOCKET_GEN")
  /\ \/ /\ storage(t).sock_gen # data(t).word \/ storage(t).sock_idx = Unset
        /\ Post([type |-> "REGISTER_SOCKET", sock |-> call[t].sock])
        /\ sk' = [sk EXCEPT ![call[t].sock].sock_gen = data(t).word]
     \/ /\ storage(t).sock_gen = data(t).word /\ storage(t).sock_idx # Unset
        /\ UNCHANGED <<ring, sk>>
  /\ Return(t)
  /\ UNCHANGED <<exists, group, bound, daemon, history>>

Eagain(t) ==
  /\ \/ At(t, "WORKING_GEN")
     \/ /\ At(t, "SOCKET_GEN")
        /\ storage(t).sock_gen # data(t).word \/ storage(t).sock_idx = Unset
  /\ RingFull
  /\ Fail(t, "EAGAIN")
  /\ UNCHANGED <<exists, group, bound, sk, ring, daemon,
                 history>>

\* What a dissector may be when it is set first.
ValidDissector(d) ==
  LET type == DISSECTOR_TYPE(d.word)
  IN  \/ /\ type \in {DISSECTOR_FLOW, DISSECTOR_NOOP}
         /\ d.filter = 0 /\ d.max_apps = 0 /\ d.digest = 0
      \/ /\ type = DISSECTOR_CBPF
         /\ d.filter \in 1 .. MAX_INSTR /\ d.max_apps <= MAX_APPS /\ d.digest = 0
      \/ type = DISSECTOR_BESPOKE

Typed(d) == [d EXCEPT !.word = DISSECTOR_TYPE(@)]
Verbose(d) == IsVerbose(d.word)

\* A call that did not create the group may repeat the dissector, which only
\* sets the verbose flag; everything else is EPERM (dissector_cmp).
MayRepeat(d, e) == Typed(d) = Typed(e)
RefuseChange(t) == Fail(t, "EPERM")

RepeatDissector(t) ==
  /\ At(t, "DISSECTOR") /\ ~call[t].created
  /\ \E g \in Deref(t) :
       \/ /\ MayRepeat(g.dis, data(t))
          /\ Store(t, [group EXCEPT !.verbose = Verbose(data(t))])
          /\ confirmed' = IF call[t].state = "valid"
                            THEN confirmed \cup {Typed(call[t].opt.val)}
                            ELSE confirmed
          /\ Return(t)
       \/ /\ ~MayRepeat(g.dis, data(t))
          /\ RefuseChange(t)
          /\ UNCHANGED <<group, confirmed>>
  /\ UNCHANGED <<exists, bound, sk, ring, daemon,
                 placed, announced, deletes>>

\* The call that created the group sets its dissector.
SetDissector(t) ==
  /\ At(t, "DISSECTOR") /\ call[t].created
  /\ \/ /\ ~ValidDissector(data(t))
        /\ pc' = [pc EXCEPT ![t] = "undo"]
        /\ UNCHANGED <<group, call, ring, confirmed>>
     \/ /\ ValidDissector(data(t)) /\ RingFull
        /\ Fail(t, "EAGAIN")
        /\ UNCHANGED <<group, ring, confirmed>>
     \/ /\ ValidDissector(data(t))
        /\ Post([type |-> "SET_DISSECTOR", sock |-> call[t].sock])
        /\ Store(t, [group EXCEPT !.dis = Typed(data(t)),
                                  !.verbose = Verbose(data(t))])
        /\ confirmed' = IF call[t].state = "valid"
                          THEN confirmed \cup {Typed(call[t].opt.val)}
                          ELSE confirmed
        /\ Return(t)
  /\ UNCHANGED <<exists, bound, sk, daemon, placed,
                 announced, deletes>>

\* bpf_map_delete_elem: calls that hold a pointer keep it.
Remove ==
  /\ exists' = FALSE /\ group' = empty_state
  /\ confirmed' = {} /\ placed' = {} /\ announced' = {}

Dangling(c) ==
  [u \in Tasks |-> IF pc'[u] # "idle" /\ c[u].state = "valid"
                     THEN [c[u] EXCEPT !.state = "freed", !.old = Readable(group)]
                     ELSE c[u]]

\* A first dissector that is refused takes its group with it.
UndoGroup(t) ==
  /\ pc[t] = "undo"
  /\ pc' = [pc EXCEPT ![t] = "idle"]
  /\ call' = LET c == [call EXCEPT ![t] = NoCall]
             IN  IF exists THEN Dangling(c) ELSE c
  /\ \/ exists /\ Remove
     \/ ~exists /\ UNCHANGED <<exists, group, confirmed, placed,
                             announced>>
  /\ UNCHANGED <<bound, sk, ring, daemon, deletes>>

\* A socket joins an application before it has a generation.
AppAllowed_OffByOne(g, app) == app <= g.dis.max_apps
AppAllowed(g, app) == app < g.dis.max_apps

SetSocketApp(t) ==
  LET x == call[t].sock
      app == data(t).word
  IN  /\ At(t, "SOCKET_APP")
      /\ \E g \in Deref(t) :
           \/ /\ sk[x].sock_app = app
              /\ Return(t) /\ UNCHANGED <<sk, placed>>
           \/ /\ sk[x].sock_app # app
              /\ sk[x].sock_gen # Unset \/ sk[x].sock_idx # Unset
              /\ Fail(t, "EEXIST") /\ UNCHANGED <<sk, placed>>
           \/ /\ sk[x].sock_app # app
              /\ sk[x].sock_gen = Unset /\ sk[x].sock_idx = Unset
              /\ ~AppAllowed(g, app)
              /\ Fail(t, "EOVERFLOW") /\ UNCHANGED <<sk, placed>>
           \/ /\ sk[x].sock_app # app
              /\ sk[x].sock_gen = Unset /\ sk[x].sock_idx = Unset
              /\ AppAllowed(g, app)
              /\ sk' = [sk EXCEPT ![x].sock_app = app]
              /\ placed' = IF call[t].state = "valid" THEN placed \cup {x}
                                                      ELSE placed \ {x}
              /\ Return(t)
      /\ UNCHANGED <<exists, group, bound, ring, daemon,
                     confirmed, announced, deletes>>

Families == {2, 10}    \* AF_INET, AF_INET6

\* UDP_GRM_FLOW_ASSURE is for the flow dissector.  FlowTable has what
\* flow_assure does with the entry and whether it succeeds.
FlowAssure(t) ==
  /\ At(t, "FLOW_ASSURE")
  /\ \E g \in Deref(t) :
       \/ /\ g.dis.word # DISSECTOR_FLOW \/ data(t).word \notin Families
          /\ Fail(t, "EPERM")
       \/ /\ g.dis.word = DISSECTOR_FLOW /\ data(t).word \in Families
          /\ (Return(t) \/ Fail(t, "EEXIST"))
  /\ UNCHANGED <<exists, group, bound, sk, ring, daemon,
                 history>>

(***************************************************************************)
(* getsockopt() only reads: what it returns for a socket.                  *)
(***************************************************************************)
AppOf(x) == IF x \in bound THEN sk[x].sock_app % MAX_APPS ELSE 0

Answer_AnyApp(x, name) ==
  [Zero EXCEPT !.word = IF exists THEN group.working_gen[0] ELSE Unset]
Answer(x, name) ==
  CASE name = "WORKING_GEN" ->
         [Zero EXCEPT !.word = IF exists THEN group.working_gen[AppOf(x)]
                                         ELSE Unset]
    [] name = "SOCKET_GEN" /\ x \in bound ->
         [Zero EXCEPT !.word = sk[x].sock_gen, !.timeout = sk[x].sock_idx]
    [] name = "SOCKET_APP" /\ x \in bound ->
         [Zero EXCEPT !.word = sk[x].sock_app]
    [] name = "DISSECTOR" /\ exists -> group.dis
    [] OTHER -> Zero        \* EBADFD, or EPERM for UDP_GRM_FLOW_ASSURE

(***************************************************************************)
(* The operator and the daemon.                                            *)
(***************************************************************************)
\* `udpgrm delete`, MaxDeletes times.
Delete ==
  /\ exists /\ deletes < MaxDeletes
  /\ Remove
  /\ deletes' = deletes + 1
  /\ UNCHANGED pc
  /\ call' = Dangling(call)
  /\ UNCHANGED <<bound, sk, ring, daemon>>

\* handle_msg: a message whose group is gone is an error exit.
HandleMsg ==
  /\ daemon = "up" /\ ring # <<>>
  /\ \/ /\ ~exists
        /\ daemon' = "dead" /\ UNCHANGED <<ring, sk>>
     \/ /\ exists
        /\ ring' = Tail(ring)
        /\ sk' = IF Head(ring).type = "REGISTER_SOCKET"
                   THEN [sk EXCEPT ![Head(ring).sock].sock_idx = 0] ELSE sk
        /\ UNCHANGED daemon
  /\ UNCHANGED <<exists, group, bound, pc, call, history>>

Step(t) ==
  \/ Insert(t) \/ InitGroup(t)
  \/ SetWorkingGen(t) \/ SetSocketGen(t) \/ Eagain(t)
  \/ RepeatDissector(t) \/ SetDissector(t) \/ UndoGroup(t)
  \/ SetSocketApp(t) \/ FlowAssure(t)

Next ==
  \/ \E t \in Tasks : Step(t)
  \/ \E t \in Tasks, x \in Sockets, o \in Options : SetSockopt(t, x, o)
  \/ \E x \in Sockets : Bind(x)
  \/ Delete \/ HandleMsg

Spec == Init /\ [][Next]_vars

(***************************************************************************)
(* Properties.                                                             *)
(***************************************************************************)
DuringCall(t) == pc[t] # "idle"

\* Type invariant: the group, the storages, the locals of the calls and the
\* ring hold values of their types.
TypeOK ==
  /\ exists \in BOOLEAN /\ group \in Groups
  /\ bound \subseteq Sockets /\ sk \in [Sockets -> Storage]
  /\ pc \in [Tasks -> {"idle", "insert", "init", "option", "undo"}]
  /\ call \in [Tasks -> Calls \cup {NoCall}]
  /\ \A t \in Tasks : call[t] \in IF DuringCall(t) THEN Calls ELSE {NoCall}
  /\ ring \in Seq(Msgs) /\ Len(ring) <= RingCap /\ daemon \in {"up", "dead"}

\* README.md: "You can set UDP_GRM_DISSECTOR only once".  As long as the group
\* exists it has every dissector that setsockopt() confirmed for it, with all
\* the numbers the caller passed, whatever was in the page of the CPU before.
ConfirmedDissectorHolds == \A d \in confirmed : exists /\ group.dis = d

\* A socket that this group let into an application has one of the group's
\* applications, as long as no call that still holds a deleted group moves it:
\* its generations stay within the table (TO_WRK_GEN).
AppWithinGroup ==
  \A x \in placed : sk[x].sock_app = 0 \/ sk[x].sock_app < group.dis.max_apps

\* The working generation that getsockopt() returns is the default or one that
\* was set through a socket of the same application.
AppReadsOwnGen ==
  \A x \in Sockets :
    LET gen == Answer(x, "WORKING_GEN").word
    IN  gen \in {Unset, 0} \/ <<AppOf(x), gen>> \in announced

============================================================================
