------------------------------ MODULE Tubular -------------------------------
(***************************************************************************)
(* The descriptors the daemon keeps for Tubular (src/tubular.c).  When a   *)
(* group has a label, the daemon does not close the descriptor of a socket *)
(* it registers: it keeps it in a private table and hands the row of the   *)
(* working generation to Tubular on MSG_SET_WORKING_GEN, or closes all of  *)
(* them when nothing happened for ten seconds.                             *)
(*                                                                         *)
(* The daemon has one thread: a message is one action.  Registration       *)
(* refines what this module abstracts, the map operations of a message.    *)
(* Every group here has a label, and a socket is registered once.          *)
(*                                                                         *)
(* A definition with a suffixed name is a wrong variant of the definition  *)
(* without the suffix, as in Registration.                                 *)
(***************************************************************************)
EXTENDS GroupTable, Sequences

CONSTANTS
  Sockets,             \* a socket is its SO_COOKIE
  NoCookie,            \* cookie 0
  Groups,              \* reuseport groups, by their random_id
  GroupOf, AppOf,      \* group and application of a socket
  GenOf,               \* its generation
  WorkingGens,         \* generations passed in UDP_GRM_WORKING_GEN
  max_apps,            \* of the groups' dissectors
  TubularPaths         \* whether --tubular may be given: a set of booleans

\* Descriptor numbers of a slot that are not a socket: 0 after calloc, -1.
Calloc == 0
Closed == -1

ASSUME TubularAssumption ==
  /\ {NoCookie, Calloc, Closed} \cap Sockets = {}
  /\ GroupOf \in [Sockets -> Groups] /\ AppOf \in [Sockets -> Apps]
  /\ GenOf \in [Sockets -> Nat] /\ WorkingGens \subseteq Nat
  /\ max_apps \in 0 .. MAX_APPS /\ TubularPaths \subseteq BOOLEAN

VARIABLES
  tubular_path,        \* --tubular was given
  unbound, open,       \* sockets not created yet, held by an application
  cookies, sockhash,   \* the cookie tables of the groups, the sockhash map
  list,                \* groups in list_of_tubular_sockets
  max_idx, sockets,    \* of struct reuseport_group
  stale,               \* groups not modified for ten seconds
  handed               \* the last message that Tubular received

vars == <<tubular_path, unbound, open, cookies, sockhash, list, max_idx,
          sockets, stale, handed>>

Slots == [Idx -> Sockets \cup {Calloc, Closed}]
NewSlots == [g \in GenIds |-> [i \in Idx |-> Calloc]]
NoMessage == [group |-> NoCookie, app |-> 0, gen |-> 0, fds |-> <<>>]

RowOf(x) == Row(max_apps, AppOf[x], GenOf[x])
Preserved(x) ==
  \E r \in list, g \in GenIds, i \in Idx : sockets[r][g][i] = x
Living == open \cup {x \in Sockets : Preserved(x)}

Init ==
  /\ tubular_path \in TubularPaths
  /\ unbound = Sockets /\ open = {} /\ sockhash = {}
  /\ cookies = [r \in Groups |-> [g \in GenIds |-> [i \in Idx |-> NoCookie]]]
  /\ list = {} /\ stale = {} /\ handed = NoMessage
  /\ max_idx = [r \in Groups |-> [g \in GenIds |-> 0]]
  /\ sockets = [r \in Groups |-> NewSlots]

Open(x) ==
  /\ x \in unbound
  /\ unbound' = unbound \ {x} /\ open' = open \cup {x}
  /\ UNCHANGED <<tubular_path, cookies, sockhash, list, max_idx, sockets, stale,
                 handed>>

\* The application closes the socket; a preserved descriptor keeps it alive.
Close(x) ==
  /\ x \in open
  /\ open' = open \ {x}
  /\ sockhash' = IF Preserved(x) THEN sockhash ELSE sockhash \ {x}
  /\ UNCHANGED <<tubular_path, unbound, cookies, list, max_idx, sockets, stale,
                 handed>>

\* reuseport_group_lookup: by random_id.
lookup_First(r) == list
lookup(r) == {r} \cap list

\* tubular_maybe_preserve_fd, in the group of the list or in a new one: the
\* length of the row is renewed, an older descriptor of the slot is closed.
PreserveFd_NoLen(r, g, len, pos, x) ==
  /\ sockets' = [sockets EXCEPT ![r][g][pos] = x]
  /\ list' = list \cup {r} /\ stale' = stale \ {r}
  /\ UNCHANGED max_idx
PreserveFd(r, g, len, pos, x) ==
  \E q \in IF lookup(r) # {} THEN lookup(r) ELSE {r} :
    /\ max_idx' = [max_idx EXCEPT ![q][g] = len]
    /\ sockets' = [sockets EXCEPT ![q][g][pos] = x]
    /\ list' = list \cup {q} /\ stale' = stale \ {q}

\* MSG_REGISTER_SOCKET: cookies_find_empty gives the first slot without a living
\* socket and a length that covers it and every living socket.
RegisterSocket(x) ==
  LET r == GroupOf[x]
      g == RowOf(x)
      row == cookies[r][g]
  IN  /\ x \in open \ sockhash
      /\ \E pos \in Idx, len \in 1 .. MAX_SOCKETS_IN_GEN :
           /\ row[pos] \notin sockhash
           /\ \A i \in 0 .. pos - 1 : row[i] \in sockhash
           /\ len - 1 = pos \/ row[len - 1] \in sockhash
           /\ pos < len
           /\ \A i \in len .. MAX_SOCKETS_IN_GEN - 1 : row[i] \notin sockhash
           /\ cookies' = [cookies EXCEPT ![r][g][pos] = x]
           /\ PreserveFd(r, g, len, pos, x)
      /\ sockhash' = sockhash \cup {x}
      /\ UNCHANGED <<tubular_path, unbound, open, handed>>

\* tubular_close_wg of the rows gs of the groups rs, and the removal of the
\* groups that have no row left (reuseport_group_maybe_delete, free).
CloseRows(rs, gs) ==
  LET closed(r, g) == r \in rs /\ g \in gs
      fd(r, g, i) == IF closed(r, g) /\ i < max_idx[r][g] THEN Closed
                     ELSE sockets[r][g][i]
      emptied == {r \in rs : \A g \in GenIds \ gs : max_idx[r][g] = 0}
      kept == {x \in Sockets :
                 \E r \in list, g \in GenIds, i \in Idx : fd(r, g, i) = x}
  IN  /\ max_idx' = [r \in Groups |-> [g \in GenIds |->
                       IF closed(r, g) THEN 0 ELSE max_idx[r][g]]]
      /\ sockets' = [r \in Groups |->
                       IF r \in emptied THEN NewSlots
                       ELSE [g \in GenIds |-> [i \in Idx |-> fd(r, g, i)]]]
      /\ list' = list \ emptied /\ stale' = stale \ emptied
      /\ sockhash' = sockhash \cap (open \cup kept)

\* The row that tubular_maybe_register is asked for.
WorkingRow(app, gen) == gen % MAX_GENS

\* tubular_maybe_register.  Tubular gets the descriptors of the row if they are
\* descriptors at all; then, whatever happened, the row is closed.
SetWorkingGen(r, app, gen) ==
  LET wg == WorkingRow(app, gen)
      group == lookup(r)
      fds(q) == [i \in 1 .. max_idx[q][wg] |-> sockets[q][wg][i - 1]]
  IN  /\ \/ /\ tubular_path /\ group # {}
            /\ \E q \in group :
                 /\ Closed \notin {fds(q)[i] : i \in DOMAIN fds(q)}
                 /\ handed' = [group |-> r, app |-> app, gen |-> gen,
                               fds |-> fds(q)]
                 /\ CloseRows({q}, {wg})
         \/ \* ENOENT, EBADF, or an error of connect, sendmsg or read
            /\ CloseRows(group, {wg})
            /\ UNCHANGED handed
      /\ UNCHANGED <<tubular_path, unbound, open, cookies>>

\* Ten seconds without tubular_maybe_preserve_fd.
Elapse(r) ==
  /\ r \in list \ stale
  /\ stale' = stale \cup {r}
  /\ UNCHANGED <<tubular_path, unbound, open, cookies, sockhash, list, max_idx,
                 sockets, handed>>

\* reuseport_groups_maybe_cleanup_stale, from the main loop.
CleanupRows_First == {0}
CleanupRows == GenIds

Cleanup ==
  /\ stale # {}
  /\ CloseRows(stale, CleanupRows)
  /\ UNCHANGED <<tubular_path, unbound, open, cookies, handed>>

Next ==
  \/ \E x \in Sockets : Open(x) \/ Close(x) \/ RegisterSocket(x)
  \/ \E r \in Groups :
       \/ Elapse(r)
       \/ \E app \in Apps, gen \in WorkingGens : SetWorkingGen(r, app, gen)
  \/ Cleanup

Spec == Init /\ [][Next]_vars

\* Time passes, and select() returns at least every two seconds while the list
\* is not empty.
LiveSpec == Spec /\ WF_vars(Cleanup) /\ \A r \in Groups : WF_vars(Elapse(r))

(***************************************************************************)
(* Properties.                                                             *)
(***************************************************************************)
\* Types of the private table of the daemon.
TypeOK ==
  /\ open \cap unbound = {} /\ sockhash \subseteq Sockets
  /\ cookies \in [Groups -> [GenIds -> [Idx -> Sockets \cup {NoCookie}]]]
  /\ list \subseteq Groups /\ stale \subseteq list
  /\ max_idx \in [Groups -> [GenIds -> 0 .. MAX_SOCKETS_IN_GEN]]
  /\ sockets \in [Groups -> [GenIds -> Slots]]

\* No descriptor is lost: rows are closed up to max_idx (tubular.c:201), which is
\* recomputed at every registration, and it always covers every descriptor kept.
NoLeak ==
  \A r \in Groups, g \in GenIds, i \in Idx :
    sockets[r][g][i] \in Sockets => r \in list /\ i < max_idx[r][g]

\* A socket that Tubular gets is one that was registered in that very group
\* (tests/test_tubular.py:104, "we used to register wrong sockets when two groups
\* were set concurrently").
HandedOwnSockets ==
  \A i \in DOMAIN handed.fds :
    handed.fds[i] \in Sockets => GroupOf[handed.fds[i]] = handed.group

\* The slot of the private table and the slot of the group name the same socket.
PreservedWhereRegistered ==
  \A r \in Groups, g \in GenIds, i \in Idx :
    sockets[r][g][i] \in Sockets => cookies[r][g][i] = sockets[r][g][i]

\* The daemon does not keep a socket for ever: without Tubular, or without a
\* working generation, its descriptor is closed in the end.
EventuallyReleased == \A x \in Sockets : Preserved(x) ~> ~Preserved(x)
=============================================================================
