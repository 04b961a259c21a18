# A TLA+ verification of udpgrm

udpgrm steers UDP packets to the sockets of a `SO_REUSEPORT` group so that a
server can be restarted without disturbing the flows of the old instance. This
directory models the program, checks small instances with TLC and proves with TLAPS,
for all sizes, every safety property that a passing run checks: of registration, group setup, flow
table, dispatch, dissectors, Tubular, life cycle and activation, and both refinements.
Liveness is only model-checked. Source paths below are relative to the repository.

## 1. The system

| Component | State | Operations | Talks to |
|---|---|---|---|
| Hooks on bind/setsockopt/getsockopt (`ebpf/ebpf.c`) | `socket_storage` of each socket, `reuseport_storage` of each group | `_bpf_bind`, `udpgrm_setsockopt`, `udpgrm_getsockopt` | posts messages on the ring `msg_rb` |
| Daemon (`src/udpgrm.c`, `src/uspace.c`, `src/pidfd.c`) | locals of `handle_msg`; writes sockhash, cookie table, socket storage | `handle_msg`, `cookies_find_empty`, `run_cb_update_map`, `metric_incr_critical` | takes messages, steals descriptors, attaches the program |
| Operator | - | `udpgrm delete` | removes a group from the map at any time |
| Flow table (`ebpf/ebpf.c`) | `lru_map`: flow hash to socket and time stamp | `flow_assure`, from `_udp_sendmsg` and `UDP_GRM_FLOW_ASSURE` | read by the dispatch program |
| Dispatch program (`ebpf/ebpf.c`) | locals and `rx_` metrics | `udpgrm_reuseport_prog`: dissect, existing flow, new flow | reads flow table, cookie table, sockhash |
| cBPF interpreter (`ebpf/ebpf_inter.c`) | registers, `next_index` | `_do_interpret_loop`, called by `bpf_loop()` | gives the dispatch program a value |
| QUIC dissector (`ebpf/ebpf_bespoke.c`, `ebpf/ebpf_quic.c`) | a scratch page per CPU | `run_0xDEAD` | the same |
| Cookie (`include/udpgrm_internal.h`) | - | `grm_cookie_pack`, `grm_cookie_unpack` | goes through packets |
| Tubular hand-over (`src/tubular.c`) | the daemon's table of descriptors per group | preserve, register (hand over), cleanup | Tubular's unix socket |
| Life cycle (`main()` of `src/udpgrm.c`, `src/cgroup.c`) | pin directory, hooks attached to cgroups | `--daemon`, `--install`, exit | other processes of `udpgrm`, through the directory |
| Activation helper (`tools/udpgrm_activate.py`) | its sockets, the generation it read | bind, set options with retries, store, register, wait, advance | hooks, systemd's descriptor store |

What is hard in it:

* the daemon serves one message with several map operations, working on copies
  taken at the start, while applications go on calling and closing and an operator
  may delete the group;
* `flow_assure` and the dispatch program run on all CPUs and share entries without
  locks: time stamp, owner, `max_idx` and slot are separate loads and stores;
* numbers wrap: generations modulo rows, unsigned differences of time stamps,
  32-bit registers of filters;
* resources are bounded (ring, slots, flow entries, descriptors) and are reused;
* pins and hooks outlive the processes that made them, and nothing locks them: a kill
  between two system calls leaves any part of them to the next start;
* calls fail and are retried, against a daemon that may be behind or dead;
* something must eventually happen: a request is served, a ring drains, a kept
  descriptor is closed, a forced start serves, the helper ends.

`PROJECT.json` lists these hazards line by line with the properties aimed at them.
The properties that make each part correct: a socket gets a slot that stays its
own, reachable by new flows and named by its cookie (registration); a flow stays
with its socket until it expires (flow table); every packet is counted once per
stage and reaches an established flow's socket or a socket of its own application
(dispatch); a filter computes what a cBPF machine computes, and packets do not
influence each other (dissectors); no descriptor is lost or handed to the wrong
group (Tubular); a group has the parameters that were confirmed for it (group setup);
hooks are complete, of the running instance, and gone after it (life cycle); success
of the helper means that its sockets serve (activation).

## 2. Modules

| Module | Models |
|---|---|
| `GroupTable` | rows and slots of the cookie table, `TO_WRK_GEN` |
| `Registration` | hooks, ring, daemon, operator, for one group |
| `RegistrationProofs` | theorems about `Registration` |
| `GroupRefinementProofs` | the refinement of `SocketGroup` |
| `FlowTable` | `flow_assure` on the LRU table |
| `Dispatch` | `udpgrm_reuseport_prog`; extends `FlowTable` and `GroupTable`, and composes them with registrations and `UDP_GRM_WORKING_GEN` |
| `DispatchProofs` | theorems about `FlowTable` and `Dispatch` |
| `GrmCookie` | the 16-bit cookie and its checksum |
| `Cbpf` | one instruction of the interpreter |
| `CbpfMachine` | abstract specification: a machine with a program counter, for any set of instructions |
| `Quic` | lengths of the QUIC header, walk through the ClientHello |
| `Dissector` | `interpret_cbpf` and `run_0xDEAD`; shown to implement `CbpfMachine` |
| `DissectorProofs` | theorems about cookies, interpreter and QUIC dissector |
| `Tubular`, `TubularProofs` | the descriptors kept for Tubular, theorems about them |
| `SocketGroup` | abstract specification: what a group promises to sockets and cookies |
| `GroupRefinement` | `Registration` implements `SocketGroup` |
| `GroupSetup` | `setsockopt()` on several CPUs: creation of a group and its options; `getsockopt()` |
| `GroupSetupProofs` | theorems about `GroupSetup` |
| `Lifecycle`, `LifecycleProofs` | `main()` as daemon and as installer, pins and hooks; theorems about them |
| `Activation`, `ActivationProofs` | the activation helper, extends `Registration`; theorems about it, which extend `RegistrationProofs` |
| `MC*` | constants for TLC |

A definition with a suffix (`IsFreePos_Any`, `NextIndex_OffByOne`) is a wrong
variant of the definition without it. No specification uses it; substituting it
makes TLC violate the property it belongs to, which shows that the property can
fail.

### Registration

A socket is its `SO_COOKIE`. The setsockopt hook is one action: it runs without
sleeping on one socket, and its only effects that others see are the group, the
storage of its own socket and the message. `handle_msg` is one action per map
operation, with the program counter `pc`:
`LookupState` (copy of the group) - `FindSocket` (`pidfd_open`,
`pidfd_find_socket`, copy of the socket storage) - `FindEmpty`
(`cookies_find_empty` on the copy, insertion into sockhash) - `SetCookies`,
`SetMaxIdx` (the two stores of `GSM_SET_COOKIES`) - `WriteIdx` (the whole copy is
written back) - `Attach` - `Return`. Errors that are counted lead to
`AddCritical`/`CountCritical`; the others end the daemon (`DaemonExit`): a group that is
gone, and `CallFails`, the exits of `udpgrm.c:161`, `:188`, `:226`, `:233` and `:239`
for calls that the kernel refuses. Of the registration in hand they leave whatever was
done by then. `state_ptr` is the pointer that `udpgrm_cb_update_map` holds
into the group map: after a delete its second store lands in a freed element.

Usages form a ladder: `Spec` (sockets keep their generation), `RegenSpec` (they
may change it), `RebindSpec` (bind() may be repeated), `FullSpec` (the group may be
removed: by `Delete`, the operator, or by `RefuseDissector`, the call that created the
group with a dissector that is refused, `ebpf.c:629-634`, at any time after the
creation). `LiveSpec` is `RebindSpec` with weak fairness of the daemon, whose main loop
selects on the ring and consumes everything in it (`udpgrm.c:688-713`).

Abstractions: one group in one network namespace; generations are small naturals
and 0xffffffff is -1; log records exist only as a ring that may be full; the scan
of `cookies_find_empty` is atomic (only the daemon writes the table; a socket that
dies during the scan gives a result of a scan just before or after); sockhash
has room for every slot; no Tubular (its own module).

### SocketGroup

A group is a sequence of slots per row, each with a living socket or closed. A socket
joins at the end or in a closed slot, leaves when it is closed and never comes back,
and a row shrinks by closed slots only. `GroupRefinement` maps the slots below
`max_idx` whose socket is in sockhash, which is what the dispatch program can select,
to these sequences. A registration is then one step of the abstract group, although
the daemon makes it with an insertion into sockhash and two stores: the step is the
store that makes the slot visible. The removal of the group is outside of the promise.

### GroupSetup

A call takes one action per access of the group map that another CPU can observe:
`SetSockopt` (copy of the option, lookup) - `Insert` (`BPF_NOEXIST`) - `InitGroup`
(second lookup, first values) - the option - `UndoGroup` (a refused first dissector
deletes the group). After a deletion, the call's pointer leads to free memory: `Deref`
lets a load return the old contents or those of a group that took the place, and a
store is lost or reaches it. The copy takes the largest size of the ladder
(`ebpf.c:453-469`) that the caller's length covers, over a page with anything in it
that an earlier call left (`Leftovers`); the kernel does not preempt a hook, so that
the page is not shared. `Registration` has the same options as single actions, for
the sake of what the daemon does with them.

Abstractions: the label and the instructions of a filter are not told apart; the
random id is left out; `handle_msg` is one action. The daemon's answer to `SOCKET_GEN` is
index 0. The flag in the word of the dissector is bit 15: the type is the word without
that bit, whatever is above it.

`CreationOverlaps` says whether other calls may run while a call creates the group. The
code serialises nothing there: the element is visible from `ebpf.c:80` on. With `FALSE`
the properties of `group_setup` hold, which says that this overlap is all that breaks
them; `group_race` sets it to `TRUE` and shows what it breaks. `SetupTypes` and `OwnGenRead` are
proved without that hypothesis.

### Lifecycle

Two processes run `main()`: a daemon, with or without `--install`, `--force`,
`--without-sendmsg`, and an installer. The pin directory has programs (hook to
instance) and links (cgroup and hook to instance); `attached` are the hooks that the
kernel has. A link that is not pinned goes with its process (`OwnLink`). Every start
of the daemon is a new instance of the programs and maps. `Kill` may strike between
any two actions. `readdir` is a snapshot of the entries. Detaching a link and unlinking
its pin are two actions (`Detach`, `Unlink`); in between the pin is `Severed`, attached
to nothing. A link whose last pin is unlinked is released at once; the kernel does it a
little later. `mkdir`, pinning, opening a cgroup and creating a link may be refused by the
kernel for reasons outside the model; the process then ends as `refused`, by the exit that
the code takes there.

Nothing locks the directory. When an install and a start or stop of the daemon
overlap, the model lets them, and marks both as disturbed; properties speak of
undisturbed processes, which start from whatever disturbed and killed ones left.
There is one daemon at a time: the case of a second daemon with `--force` beside the
first is described below.

### Activation

The helper's calls are actions, which use the actions of `Registration` for the hook.
`retrying_setsockopt` is `Again`: after the last `EAGAIN` it goes on as after a
success, as the Python function does. The ring is shared with groups that the model does
not show, so that `EAGAIN` may meet any call that posts. A copy of each socket goes to
`Systemd`. The
old service works on the same group at any time, and the daemon may be slow or die.
The helper may be killed at any point; with a command, it executes it, which holds the
same sockets as systemd does and is not told apart from an exit.

### FlowTable and Dispatch

`flow_assure` has an action per load or store of a shared entry. Elements of the
LRU map are numbered; with `Evicts` an insertion may evict another key and reuse
its element, and a call that holds a pointer keeps using it. Time is a bounded
counter; differences are taken modulo `TimeMod`, as unsigned 64-bit differences
are. The dispatch program reads clock, time stamp, owner, `working_gen`, `max_idx`
and slot in separate actions. The kernel's answer for a socket of another group is
`EBADF` or another error. `% max_idx` with zero is the dividend, as eBPF defines.
`Overlap = FALSE` lets one call run at a time. What a filter says of a packet is an
input here; `Dissector!Verdict` defines it.

### Dissector

`bpf_loop()` calls the callback for every index; it skips those below
`next_index`. The refinement maps the larger of both to the machine's program
counter. `&`, `|` and `^` are defined bit by bit (`BitByBit`), since the prover cannot
load the library's bitwise operators. Undefined shifts (distance at or above the width) are a choice between
the two results a build can give. The QUIC page is a sequence of cells (frame,
hello, extensions); cells behind the packet hold what was there before, or
anything. Cryptography is left out: the plaintext is an input. The server name is a
variable of its own between packets; in the code it shares a union with the state of
SHA-256 and AES (`ebpf_quic.c:41-64`), so that what is left over may be those bytes. It is
cleared before it is used, which is what `DispatchedByOwnName` is about. A digest that no
built-in dissector has gives an error (`RunOther`). `eth_protocol` is IPv4 or IPv6.

### Tubular

One message is one action (the daemon has one thread). Slots hold a socket, the 0
of `calloc`, or -1. Every group has a label, and a socket is registered once.
Fairness: time passes (`Elapse`), and `select()` has a timeout of two seconds while
the list is not empty (`udpgrm.c:696-722`), so that `Cleanup` is run. A socket that is
registered again, with another generation, renews `last_modified` of its group's table
(`tubular.c:200`): a service that does so for ever postpones the cleanup for ever, so that
`EventuallyReleased` is about groups whose registrations come to an end.

## 3. Runs

| Run | Shows | Bounds |
|---|---|---|
| `reg_serve` | no hole below `max_idx`, implements `SocketGroup`, a request is served, the ring drains | 2 sockets, 2 generations that may change, repeated bind(), rows of 2 slots, ring of 2, a daemon that may die of any failing call |
| `reg_delete` | published sockets selectable, registered sockets attached, living sockets below `max_idx`, only the removal of the group takes a slot away, under deletes and refused dissectors | 2 sockets, 2 processes, rows of 2, ring of 1, the same daemon |
| `dispatch_overlap` | accounting of calls and packets, entries name a sender, cookie affinity, new flows meet a socket of their own application | 3 sockets (one of another group), 2 applications, 2 flows on a table of 2 entries, 2 senders, a receiver, up to 2 packets, time 0..2, timeout 1, all dissectors, all interleavings |
| `dissector` | interpreter implements the machine, cookies come back, damaged ones are seen, ordinary Initials parse, own server name | filters of up to 6 instructions, 20-bit words, all 32 generations with 4 indices and every flipped bit, 2 QUIC packets in a row |
| `tubular` | no lost descriptor, own group only, slots agree with the group's, everything released | 2 groups, 4 sockets, 2 applications, rows of 2 |
| `group_setup` | a confirmed dissector holds with all its numbers, applications of the group only, own working generation | 2 tasks, 2 sockets of 2 namespaces, every option, 4 dissectors (one of them refused, one repeated with the verbose flag), ring of 1, a full map, 1 delete; creation undisturbed |
| `lifecycle` | complete installs, no hooks of an older instance, nothing left after a stop, leftovers in nobody's way, forced start serves | 3 instances, 2 installs, 1 kill, 1 cgroup, 2 hooks (one of them sendmsg), calls that are refused |
| `activate` | success means registered, no socket twice, dissector as asked, the cookie designates its socket (keeping generations), helper ends | 2 sockets of the helper, 1 of the service, 2 applications, 3 sets of options, 2 tries, ring of 2, a daemon that dies |

Two sockets suffice for a slot to be taken, freed and reused by another; a ring of
two for a message to wait behind the one in hand. Two entries are enough for two flows,
so that nothing is evicted in `dispatch_overlap`; an expired entry is taken over within
its three instants. What evictions do to the accounting, to cookies and to new flows is
covered by the theorems, which hold with `Evicts` too. Words of 20 bits are the widest
whose products TLC can compute; 17 bits are needed to tell a cookie from a larger value.
`reg_serve` changes no working generation and uses one application; `reg_delete` changes
it, and its sockets join application 0 only; two applications are in `activate`, with
`CookieDesignatesSocket`. Calls from threads that do not lead their process, and hidden
sockets, are dropped on the path on which those of exited processes and of closed
descriptors are; the runs leave them out and the theorems cover them.
Concurrent runs of the program only meet in atomic counters, so
that one receiving context is enough. Three instances are one that leaves something,
one that clears it, and one after that; two installs, one that leaves something and one
that finds it; a kill may hit any of them. Two tries
suffice for a retry that succeeds and for one that runs out; the code has eight.
Deadlock is checked in `group_setup` only: elsewhere applications may stop, sockets
and counters of the instances are finite.

Fairness: `reg_serve` and `tubular` as said above. In `lifecycle` a process that
runs goes on (`DaemonStep`, `InstallerStep`); nobody has to start, stop or kill one.
In `activate` only the helper goes on: nothing is assumed of the daemon, so that
`HelperEnds` rests on the bounds of its loops alone.

Four runs show a disagreement of the code with what the repository says of it
(details and quotations under `findings` in `PROJECT.json`):

| Run | Disagreement |
|---|---|
| `dispatch_affinity` | a packet that overlaps a transmission of its own flow is dispatched as a new flow |
| `flow_moved` | two overlapping transmissions on a flow move it to another socket while it is fresh |
| `group_race` | the slower of two creators of a group overwrites a confirmed dissector |
| `hooks_stay` | a stop of the daemon detaches the hooks that are said to remain active over a restart |

`lifecycle` checks `NoStaleHooks` and `ExitLeavesNothing`, which state the other side of the
last one: they are what the code does and what `tests/test_basic.py:36` wants ("on exiting
the cgroup hooks and bpffs is cleared"). README.md:482 and this test cannot both hold.

Seen while modelling, with no run of their own:

* a request repeated before it was handled puts a socket into two slots
  (`udpgrm.c:170`); `tests/test_basic.py:233` says "in addition the socket will not be
  registered twice";
* a generation set while the daemon registers the socket is overwritten by a stale copy
  (`udpgrm.c:158`, `:221`), and the cookie stays wrong; `tests/test_basic.py:216` says of
  such a call "reset to another value is weird but totally ok". `CookieDesignatesSocket`
  is therefore about sockets that keep their generation. In any case the cookie of a
  socket that changes generation mixes the new generation and the old index until the
  daemon has answered;
* a generation that is extended after its hand-over to Tubular is handed over again with
  descriptor 0 in place of the older sockets (`tubular.c:147`); README.md:493 says "on
  setsockopt(UDP_GRM_WORKING_GEN) the sockets are passed to the Tubular unix domain
  socket";
* a refused first dissector removes a group that others have found meanwhile
  (`ebpf.c:80`, `:633`): a message posted by one of them ends the daemon at
  `udpgrm.c:121`. No text of the repository denies it. It is the action `RefuseDissector`,
  which `reg_delete` runs;
* every failing call of `handle_msg` ends the daemon (`udpgrm.c:161`, `:188`, `:226`,
  `:233`, `:239`), and with it all later registrations; a socket that was just told its
  index may then be without the program for good (`InHand`);
* an install whose cgroup cannot be opened jumps to the daemon's cleanup and removes the
  pins and hooks of a running daemon (`udpgrm.c:589`). A second daemon with `--force`
  takes over the directory of the first, whose exit then removes the pins of the second.
  A signal before `signal_desc` (`udpgrm.c:683`) leaves the pins. `READY=1` is sent before
  `--install` is done (`:578`). Installs that overlap a start or a stop may fail, leave
  hooks of the old instance, or stop a forced start. If the daemon was started
  `--without-sendmsg` and the install was not, the install fails half-way (`:639`) and its
  first hooks stay;
* `retrying_setsockopt` returns as after a success when every try got `EAGAIN`
  (`udpgrm_activate.py:117-126`): the helper may end with success without having advanced
  the working generation. The working generation it advances to is one more than it read
  at its start (`:225`), which may be less than what the service has set meanwhile;
* a `WORKING_GEN` is stored and posted by two concurrent calls in orders that may differ
  (`ebpf.c:525`, `:535`), so that the daemon's last message need not be the last value;
* an option whose length is between two sizes of the ladder is cut off silently
  (`ebpf.c:449-474`); a group that took the place of a deleted one may receive a store
  that was meant for the old one (`ebpf.c:488`);
* after `udpgrm delete` a socket keeps its index, so that the same generation set again
  posts nothing (`ebpf.c:544`); and a group created again while the daemon has a message
  of the old one in hand may get its slot, or only its `max_idx`, with unwritten slots
  below (`ebpf.c:1010-1013`), so that `NoHole` holds without a delete only;
* a request from a thread that is not the leader is dropped, with the message "have
  died since" (`ebpf.c:563`, `udpgrm.c:138-143`); the same happens, counted as
  critical, to a socket behind 8 closed descriptor numbers (`pidfd.c:38`);
* `socket_critical_gauge` is added to and never cleared (`ebpf.c:1015`), README.md:557
  calls it a boolean for the last call;
* `metric_incr_critical` ends the daemon if the group is gone (`uspace.c:61`), its
  comment says "Errors aren't critical.";
* `UDP_GRM_DISSECTOR` may answer EAGAIN after having created the group; the retry gets
  EPERM (`ebpf.c:641`, `:584`). The validation of `DISSECTOR_BESPOKE` rejects nothing
  (`ebpf.c:612-617`), so that `max_apps` may exceed the number of rows;
  `group_setup` keeps it in range;
* two overlapping first transmissions count `tx_flow_create_error` (`ebpf.c:900`),
  README.md:601 says "Shouldn't happen"; with eviction, a store through an old pointer
  may land in another flow's entry (`ebpf.c:937`);
* `LDX|LEN` loads A instead of X (`ebpf_inter.c:195`), which the model keeps; a `JA`
  near 2^32 wraps around (`:214`), which `FilterAssumption` excludes;
* a ClientHello that does not fit its packet is parsed into old contents of the page
  (`ebpf_quic.c:343`); a random client connection id that starts with 1 is read as a
  cookie (`ebpf_bespoke.c:199`);
* Tubular's row ignores the application (`udpgrm.c:261`).

## 4. Theorems

All theorems hold for every value of the constants that satisfies the named ASSUMEs of
the modules: any number of sockets, processes, tasks, generations, rows, slots, hooks,
kills. The assumptions on constants are sizes (`SizeAssumption`: at least one
application and slot, no more applications than rows), markers that differ from real
values (`SocketAssumption`, `NullAssumption`, `DispatchAssumption`,
`TubularAssumption`), types of the inputs, a clock that does not wrap within a timeout
(`FlowTimeAssumption`), hooks that are a sequence without repetition
(`HookAssumption`), options of the documented lengths (`OptionAssumption`), and a helper
that creates each socket once and tries at least twice (`HelperAssumption`; the code
tries eight times, and after a single try it could go on with the wrong dissector). For the
dissectors they say that a filter is a sequence of instructions without a `JA` near 2^32
(`FilterAssumption`), that the fields of a QUIC packet are bytes or natural numbers
(`PacketAssumption`), that the cookie filter is `ldh [0]; ret a` and its packets carry a
cookie with at most one flipped bit (`CookieAssumption`), and that `max_apps` is at most
2^31 (`DissectorAssumption`; `ebpf.c:607` allows `MAX_APPS`). `WordModAssumption` follows from
`WordAssumption`; it is stated because the prover knows nothing of powers. TLC
evaluates them in every run. Every inductive invariant below was checked by TLC on the
instances of the runs before it was proved.

| Module | Specification | Theorem (property) |
|---|---|---|
| `RegistrationProofs` | `FullSpec` | `TypeCorrect` (types), `PublishedSelectable`, `RegisteredAttached`, `LiveSocketsCovered`, `SlotsStable` (action property) |
| | `RebindSpec` | `TableHasNoHole` |
| | `Spec` | `CookiesDesignate` |
| `GroupRefinementProofs` | `RebindSpec` | `GroupImplemented` (refinement of `SocketGroup`) |
| `GroupSetupProofs` | `Spec` | `SetupTypes`, `OwnGenRead`; with `~CreationOverlaps`: `DissectorOnce`, `AppsWithinGroup` |
| `DispatchProofs` | `Spec` | `SendersCounted`, `PacketsCounted`, `NewFlowsMeetSockets`, `AppsIsolated`, `CookiesKeepAffinity`; with `~Evicts`: `EntriesFromSenders`; with `~Overlap`: `FlowsKeepAffinity` |
| `TubularProofs` | `Spec` | `TubularTypes`, `NothingLeaks`, `OwnSocketsHanded`, `PreservedInPlace` |
| `LifecycleProofs` | `LifeSpec` | `LifeTypes`, `InstallsComplete`, `HooksAreOwn`, `ExitIsClean`, `InstallFailsForPrograms` (action property) |
| `ActivationProofs` | `ActivationSpec` | `SuccessIsRegistration`, `RegisteredOnce`, `DissectorObtained` |
| `DissectorProofs` | `Spec` | `InterpreterImplementsMachine` (refinement of `CbpfMachine`), `OrdinaryInitialsParsed`, `EachByItsOwnName`, `CookiesRecovered` |
| | - | `CookieRoundTrip`, `FlippedBitIsSeen` |

Three constants are hypotheses of theorems, not assumptions of the modules, since the
properties are false without them: `~CreationOverlaps` (the run `group_race` shows it),
`~Overlap` (`dispatch_affinity`), and `~Evicts`, a flow table below its limit (at the limit
a call may store through a pointer to a reused element, section 3). `FlowsKeepAffinity`
says that overlap is the only way to lose affinity. Everything
else is proved for every interleaving. The theorems about `ActivationSpec` take `Gens` and
`WorkingGens` to be all natural numbers, since the helper asks for one more than whatever
it read; the run bounds them.

### Registration

The invariants are not inductive alone. `FullInv` adds `DaemonInv` - what the daemon
holds at each `pc`: the head of the ring is the message in hand, `f` is its socket
and bound, and from the insertion on the socket is in sockhash - and `SocketInv` -
only bound sockets are held or published, sockhash holds only living ones. With
the daemon's own descriptor keeping `f` alive, the store of the cookie publishes a
selectable socket; a socket that dies leaves sockhash and the living together.
`RegisteredIsAttached` is inductive with it: an index is written on the way to the
attachment only, and the kernel drops the program with the last living socket.

`TableInv` adds what holds while nobody deletes the group: the copy of the table is
the table until the daemon writes it (only the daemon does), the chosen slot is the
first one not in sockhash at the time of the scan and can only stay dead since
nothing else inserts, the written slots of a row are its first ones and `max_idx` ends
at one of them, `gen_len` covers the slot and every living socket. Hence no hole. The ten
application actions share one lemma (`AppFrameHolds`): they leave the table, the daemon's
locals and the head of the ring alone and only remove from sockhash. `TableInv` does not
assume that the daemon lives: one that is killed, or ended by an error, keeps it.

With deletes the copy may be of a group that is gone. `DeleteInv` says what is left: a
slot is as in the copy or was emptied since (`StaleInv`), so that the slot that the scan
found dead is dead in the table too and nothing lives from `gen_len` on (`FoundInv`); the
pointer between the two stores dangles only into an empty table, where a lost store of
`max_idx` cuts off nobody (`LiveRowInv`). Hence, under every usage, no living socket is
cut off, and none loses its slot but by the delete itself.

`DesignInv`, for sockets that keep their generation: a request in the ring repeats what
the storage of its socket says (`RequestInv`), so that the copy which the daemon writes
back is not stale (`CopyInv`), and an index implies a generation and a group
(`IndexInv`).

The refinement needs one more fact, `LengthInv`: at the second store, `gen_len` is at
most `max_idx`, or one more and the slot is the new one. So each step of the daemon adds
at most one visible slot, or closes the row from its end: the store of the cookie is a
join if the slot is visible already, the store of `max_idx` otherwise. Sequences of
slots are compared through `RowOf`.

### GroupSetup

`BaseInv` is inductive under all interleavings: the hook's copy is exactly what the
caller passed (`CopyWhole`: the ladder of sizes covers each option, nothing of the page
shows), a dissector is within the limits even in a group that was deleted under the
call's pointer, and working generations were announced by sockets of their application.
`CreationInv` says what an undisturbed creation means: one creator at a time, no other
call with a valid pointer, nothing confirmed and nobody placed before it is over.
`UndeletedInv` says that no pointer dangles and every message has its group as long as
no operator deleted one.

The proof attempt of `AppWithinGroup` found a case that the bounded run had missed: a
call that holds the pointer of a deleted group may move a socket, which the group that
exists now has placed, to an application that only the old group had (`ebpf.c:488`,
`:704`). The property therefore speaks of sockets that were last moved by a call with a
valid pointer (`placed`).

### FlowTable and Dispatch

`DispatchInv` consists of types, of the two accounting invariants, which are inductive
as they stand (a step moves one task from one set of labels to another, `CountChange`),
and of: `FilledInv` - the written slots of a row are its first ones, and `max_idx`, the
length about to be stored and the length a packet has read never exceed them; since
slots are not emptied, what a packet read stays true; `SliceInv` - sockets are in rows of
their own application's slice, and slices are disjoint (`Slices`, `RowsApart`);
`OwnerInv` - a socket that leaves its slot has been closed, so that a packet's owner is
still found or owed nothing. `EntryInv`, on a table without evictions: a call's pointer
leads to the element of its own flow however calls overlap, so that every store there is
that of a sender of this flow. With calls one at a time, `SerialInv` adds that no time stamp
is of the future (so that unsigned differences do not wrap, `Elapsed`), and that the entry
a packet found is not changed under it.

### Tubular

`TubularInv` adds `KeptInv`: a kept descriptor is of the table's group and its socket is
in sockhash, so that `cookies_find_empty` covers it with every new length. `max_idx`
shrinks only to a length that still covers all descriptors.

### Lifecycle

`LifeInv` says what may be left at any moment, kills included: without a directory there
are no pins; program pins are of one instance; a link is pinned, or a process is about to
pin it, and no more than two are unpinned on one hook (`LinkInv`); processes that overlap
are disturbed (`OverlapInv`). For undisturbed processes it adds that the daemon's list of
entries covers the directory while it clears it and that everything is of its instance
from then on (`FreshInv`), and how far an install has come: hooks before `k` are pinned,
none after (`ProgressInv`).

### Activation

`ActInv` has two sides. `GroupSide` is all of `RegistrationProofs`, `DesignInv` included,
kept also by the descriptor store, whose sockets the helper still holds itself, and by
the death of the daemon between any two map operations. `CoveredInv` is added because
`LiveCovered` says nothing while a row is between its two stores, nor after a death there:
a socket that was told an index is below `max_idx` at all times. `HelperSide` follows the
helper: it holds what it created (`HeldInv`); a socket not yet asked for is nowhere in the
ring or the table, and the others have the generation after the one read (`AskInv`); a
socket is in the ring once or in the table once, or in both while the daemon finishes that
very message (`OnceInv`); a socket that was polled has an index (`PollInv`); a try at the
dissector that got `EAGAIN` left a group, so that the next try is decided (`AskedInv`).
Success then means an index for each socket, hence the generation asked for, hence its
row and slot. What service and daemon may do to the helper's sockets is stated once
(`SocketKept`); each action of the helper has a lemma.

### Dissector

`CookieRoundTrip`: for every generation and index, unpacking what packing made succeeds
and gives back both, modulo 32 and 256, and the cookie has 16 bits. The lemmas are
arithmetic: the fields do not overlap, the checksum fits three bits.

`FlippedBitIsSeen`: of a cookie whose checksum is right, no copy with one flipped bit, of
the generation, the index or the checksum itself, has a right checksum. Every cookie is two
bytes of eight bits (`WordHasBits`), its fields are those bits (`FieldsOfWord`), and the
three bits of the checksum are sums modulo 2 of the others (`ChecksumOkInBits`) in which
every bit of the cookie occurs once.

`CookiesRecovered` puts both into the running program: `CookieInv` follows the two
instructions of the filter, which load what was sent and return it; what was sent is a
word of two bytes (`SentIsSeen`), and flipping a bit of the word flips it in one of the
bytes (`FlipOfWord`); a value of 16 bits is never taken for an application
(`VerdictOfCookie`), since `max_apps` counts from 2^31.

`InterpreterImplementsMachine`: the machine's program counter is the larger of `index` and
`next_index`. A call that skips, and the last one, move neither it nor a register, and one
that executes moves it exactly as the machine does (`ExecOutcome`). `LoopInv` says that
the index stays within the filter and that nothing is decided before the loop is left. A
jump within the filter goes forward (`JumpIsForward`): here the wrap of `next_index` would
break the refinement.

`EachByItsOwnName` and `OrdinaryInitialsParsed`: what a packet gives is a function of the
packet alone, whatever the page and the name of the CPU hold (`BespokeStep`). The walk
through the page meets no cell behind a whole ClientHello before it meets the first
server name (`OwnName`); that this first one exists is `LeastOfSet`, from the well-founded
order of the natural numbers. An ordinary header ends before the bytes that are copied do.

### Only model-checked

* Liveness: `RequestServed`, `RingDrains`, `EventuallyReleased`, `ForcedStartServes`,
  `HelperEnds`. The prover has no rules for fairness and ENABLED.
* The violations: a theorem says where the property does hold, if it does (`~Overlap`,
  `~CreationOverlaps`); `FlowIsNotMoved` and `HooksRemainActive` have none.
* That `And`, `Or` and `Xor` are the operators of C is their definition; no theorem needs
  more of them than that an instruction gives the same in the loop and in the machine.

What recursive definitions compute for every input is outside the prover's reach; no
module of the project has a RECURSIVE operator of its own.

## 5. Not modelled

`list`, `flows` and `metrics`, which walk the maps and print them and change nothing;
the contents of log records; AES, SHA-256 and SipHash, which are functions on blocks of
bytes; list macros, address parsing and formatting; the Rust crate, the examples, the
mock of Tubular and `mmdecoy`. In the parts that are modelled: loading of the programs,
names of the pins, command lines, several groups that share a map (but for its being
full), several daemons. Reasons are given with each component in `PROJECT.json`. Kernel
behaviour (sockhash, ring buffer, hash and LRU maps, descriptor passing, reuseport
selection, links and pins) is modelled from how the code uses it and marked external in
the map.

## 6. Plan

Done: all parts of section 1 are modelled, and every safety invariant, action property and
refinement that a passing run checks is proved.

1. Several groups on one ring: messages of other groups delay, and do not change, what is
   proved of one.
