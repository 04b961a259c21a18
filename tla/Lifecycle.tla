----------------------------- MODULE Lifecycle ------------------------------
(***************************************************************************)
(* The life of the udpgrm daemon and the installation of its cgroup hooks: *)
(* main() of src/udpgrm.c, with cleanup_bpf_pin_dir of src/cgroup.c.       *)
(*                                                                         *)
(* Two processes run main(): the daemon, possibly with --install, and an   *)
(* `udpgrm --install`.  They share the pin directory and the hooks that    *)
(* are attached to cgroups.  Each file operation and each bpf() call that  *)
(* the other process or a later start can observe is an action, and each   *)
(* process may be killed between any two of them, error exits included; it *)
(* then leaves its pins behind.  Each start of the daemon loads a fresh    *)
(* instance of the programs and maps.                                      *)
(*                                                                         *)
(* Nothing locks the directory: main() relies on its operator not to run   *)
(* an install during a start or a stop of the daemon.  The model lets them *)
(* overlap and marks the two processes as disturbed; the properties are    *)
(* about the others, which may find whatever disturbed ones have left.     *)
(***************************************************************************)
EXTENDS Naturals, Sequences

CONSTANTS
  HookSeq,             \* the hooks, in the order in which main() handles them
  SendmsgHooks,        \* those that --without-sendmsg leaves out
  Cgs,                 \* cgroups
  MaxInstances,        \* bound on the starts of the daemon
  MaxInstalls,         \* and of installers
  MaxKills             \* and on processes that are killed

Hooks == {HookSeq[n] : n \in 1 .. Len(HookSeq)}
None == 0              \* no pin; instances are numbered from 1
Instances == 1 .. MaxInstances
Severed == MaxInstances + 1     \* the pin of a link that has been detached
Procs == {"daemon", "installer"}

ASSUME HookAssumption ==
  /\ HookSeq \in Seq(STRING) /\ HookSeq # <<>> /\ SendmsgHooks \subseteq Hooks
  /\ \A m, n \in 1 .. Len(HookSeq) : HookSeq[m] = HookSeq[n] => m = n
ASSUME BoundAssumption ==
  /\ {MaxInstances, MaxInstalls, MaxKills} \subseteq Nat
  /\ "prog" \notin Cgs /\ Cgs # {}

VARIABLES
  dir,                 \* does the pin directory exist?
  progs,               \* its program pins: hook -> instance
  pins,                \* its link pins: cgroup, hook -> instance, or Severed
  attached,            \* links attached to cgroups: <<cgroup, hook, instance>>
  inst,                \* the instance loaded last, which is the daemon's
  pc, me,              \* the processes: program counter and locals of main()
  todo,                \* steps that cleanup_bpf_pin_dir has yet to do: <<step, entry>>
  installed,           \* history: hooks of the last successful install of a cgroup
  disturbed,           \* history: did the other process get in the way of this one?
  installs, kills      \* starts of installers and kills so far

fsVars == <<dir, progs, pins, attached>>
boundVars == <<installs, kills>>
historyVars == <<installed, disturbed>>
lifeVars == <<fsVars, inst, pc, me, todo, historyVars, boundVars>>

\* "failed" is an error exit because of what the process has found, "refused" one
\* because the kernel denies it a call (memory, permission, hooks of a cgroup).
Ended == {"off", "exited", "killed", "failed", "refused"}
Resting == Ended \cup {"serve"}     \* neither starts, installs nor stops
Running(p) == pc[p] \notin Ended

\* Options of an invocation: --force, --install and its cgroup,
\* --without-sendmsg; and the hook at which it is.
Invocations == [force : BOOLEAN, install : BOOLEAN, cg : Cgs,
                sendmsg : BOOLEAN, k : {1}]
NoOptions == [force |-> FALSE, install |-> FALSE, sendmsg |-> FALSE,
              cg |-> CHOOSE c \in Cgs : TRUE, k |-> 1]
NotInstalled == {}     \* the hooks that an install has put in place

LifeInit ==
  /\ dir = FALSE
  /\ progs = [h \in Hooks |-> None]
  /\ pins = [e \in Cgs \X Hooks |-> None]
  /\ attached = {} /\ inst = None
  /\ pc = [p \in Procs |-> "off"]
  /\ me = [p \in Procs |-> NoOptions]
  /\ todo = [p \in Procs |-> {}]
  /\ installed = [c \in Cgs |-> NotInstalled]
  /\ disturbed = [p \in Procs |-> FALSE]
  /\ installs = 0 /\ kills = 0

\* A step of p to a label; the options are not used after the last step.
Move(p, label, k) ==
  /\ pc' = [pc EXCEPT ![p] = label]
  /\ me' = [me EXCEPT ![p] = IF label \in Resting
                               THEN NoOptions ELSE [@ EXCEPT !.k = k]]
Goto(p, label) == Move(p, label, me[p].k)
hook(p) == HookSeq[me[p].k]
LastHook(p) == me[p].k = Len(HookSeq)
WantedHooks(p) == {h \in Hooks : me[p].sendmsg \/ h \notin SendmsgHooks}

\* To the next hook, or from the first hook on to what comes after the last.
Advance(p, label, next) ==
  IF LastHook(p) THEN Move(p, next, 1) ELSE Move(p, label, me[p].k + 1)


(***************************************************************************)
(* cleanup_bpf_pin_dir: every entry is detached, if it is a link, and      *)
(* unlinked; then the directory is removed if it is empty.                 *)
(***************************************************************************)
Entries_Progs == {<<"prog", h>> : h \in {g \in Hooks : progs[g] # None}}
Entries == {<<"prog", h>> : h \in {g \in Hooks : progs[g] # None}}
             \cup {e \in Cgs \X Hooks : pins[e] # None}

\* What becomes of the link of an entry and of its pin.
RemoveLink_Kept(c, h, pin) ==
  /\ attached' = attached
  /\ pins' = [pins EXCEPT ![<<c, h>>] = pin]
  /\ installed' = [installed EXCEPT ![c] = NotInstalled]
RemoveLink(c, h, pin) ==
  /\ attached' = attached \ {<<c, h, pins[<<c, h>>]>>}
  /\ pins' = [pins EXCEPT ![<<c, h>>] = pin]
  /\ installed' = [installed EXCEPT ![c] = NotInstalled]

\* bpf_obj_get and bpf_link_detach; then unlinkat, which also ends a link that
\* another process has pinned there meanwhile.
Detach(c, h) ==
  RemoveLink(c, h, IF pins[<<c, h>>] = None THEN None ELSE Severed)
Unlink(c, h) == RemoveLink(c, h, None)

\* readdir gives the entries in any order; each is finished before the next.
\* A program pin is no link: detaching it does nothing.
RemoveEntry(p) ==
  \E t \in todo[p] :
    LET e == t[2]
    IN  /\ t[1] = "unlink" \/ \A u \in todo[p] : u[1] = "detach"
        /\ \/ /\ e[1] = "prog"
              /\ progs' = [progs EXCEPT ![e[2]] = None]
              /\ todo' = [todo EXCEPT ![p] = @ \ {t}]
              /\ UNCHANGED <<pins, attached, installed>>
           \/ /\ e[1] # "prog" /\ t[1] = "detach"
              /\ Detach(e[1], e[2])
              /\ todo' = [todo EXCEPT ![p] = (@ \ {t}) \cup {<<"unlink", e>>}]
              /\ UNCHANGED progs
           \/ /\ e[1] # "prog" /\ t[1] = "unlink"
              /\ Unlink(e[1], e[2])
              /\ todo' = [todo EXCEPT ![p] = @ \ {t}]
              /\ UNCHANGED progs
        /\ UNCHANGED <<dir, inst, pc, me, disturbed, boundVars>>

\* rmdir fails if the directory has an entry.  After --force the start goes on
\* only if the directory is gone.
Empty == /\ \A h \in Hooks : progs[h] = None
         /\ \A e \in Cgs \X Hooks : pins[e] = None
Rmdir(p) ==
  /\ todo[p] = {}
  /\ dir' = (dir /\ ~Empty)
  /\ Goto(p, IF pc[p] = "exit" THEN "exited" ELSE IF dir' THEN "failed" ELSE "mkdir")
  /\ UNCHANGED <<progs, pins, attached, inst, todo, historyVars, boundVars>>

CleanPinDir(p) == pc[p] \in {"clean", "exit"} /\ (RemoveEntry(p) \/ Rmdir(p))

BeginClean(p, label) ==
  Goto(p, label) /\ todo' = [todo EXCEPT ![p] = {"detach"} \X Entries]

(***************************************************************************)
(* --daemon.                                                               *)
(***************************************************************************)
\* The programs are loaded before anything else.  There is one daemon.
StartDaemon(opts) ==
  /\ ~Running("daemon") /\ inst < MaxInstances
  /\ inst' = inst + 1
  /\ me' = [me EXCEPT !["daemon"] = opts]
  /\ pc' = [pc EXCEPT !["daemon"] = "stat"]
  /\ disturbed' = [p \in Procs |-> Running("installer")]
  /\ UNCHANGED <<fsVars, todo, installed, boundVars>>

StatDir ==
  /\ pc["daemon"] = "stat"
  /\ \/ ~dir /\ Goto("daemon", "mkdir") /\ UNCHANGED todo
     \/ dir /\ ~me["daemon"].force /\ Goto("daemon", "failed") /\ UNCHANGED todo
     \/ dir /\ me["daemon"].force /\ BeginClean("daemon", "clean")
  /\ UNCHANGED <<fsVars, inst, historyVars, boundVars>>

Mkdir ==
  /\ pc["daemon"] = "mkdir"
  /\ \/ dir' = TRUE /\ Goto("daemon", IF dir THEN "failed" ELSE "pin")
     \/ ~dir /\ UNCHANGED dir /\ Goto("daemon", "refused")
  /\ UNCHANGED <<progs, pins, attached, inst, todo, historyVars, boundVars>>

\* PIN replaces a pin that exists; READY=1 is sent after the last one.
AfterPins == IF me["daemon"].install THEN "open" ELSE "serve"
PinProgram ==
  /\ pc["daemon"] = "pin"
  /\ \/ /\ hook("daemon") \notin WantedHooks("daemon")
        /\ Advance("daemon", "pin", AfterPins)
        /\ UNCHANGED progs
     \/ /\ hook("daemon") \in WantedHooks("daemon") /\ dir
        /\ progs' = [progs EXCEPT ![hook("daemon")] = inst]
        /\ Advance("daemon", "pin", AfterPins)
     \/ /\ hook("daemon") \in WantedHooks("daemon")
        /\ Goto("daemon", IF dir THEN "refused" ELSE "failed") /\ UNCHANGED progs
  /\ UNCHANGED <<dir, pins, attached, inst, todo, historyVars, boundVars>>

\* SIGINT or SIGTERM in the main loop.
Sigterm ==
  /\ pc["daemon"] = "serve"
  /\ BeginClean("daemon", "exit")
  /\ disturbed' = [p \in Procs |-> disturbed[p] \/ Running("installer")]
  /\ UNCHANGED <<fsVars, inst, installed, boundVars>>

(***************************************************************************)
(* --install, in either process.                                           *)
(***************************************************************************)
StartInstaller(opts) ==
  /\ ~Running("installer") /\ installs < MaxInstalls
  /\ installs' = installs + 1
  /\ me' = [me EXCEPT !["installer"] = opts]
  /\ pc' = [pc EXCEPT !["installer"] = "open"]
  /\ LET overlap == pc["daemon"] \notin Resting
     IN  disturbed' = [disturbed EXCEPT !["daemon"] = @ \/ overlap,
                                        !["installer"] = overlap]
  /\ UNCHANGED <<fsVars, inst, todo, installed, kills>>

\* If the cgroup cannot be opened the process goes to the cleanup of the
\* daemon, whether it is one or not; if the programs of the cgroup cannot be
\* queried it exits.  That udpgrm is among them is reported only.
OpenCgroup(p) ==
  /\ pc[p] = "open"
  /\ \/ Goto(p, "unload") /\ UNCHANGED todo
     \/ Goto(p, "refused") /\ UNCHANGED todo
     \/ BeginClean(p, "exit")
  /\ UNCHANGED <<fsVars, inst, historyVars, boundVars>>

\* UNLOAD of all hooks of the cgroup, whatever the options: each is detached,
\* then its pin is unlinked.
UnloadHook_Pinned(p) ==
  IF pc[p] = "unload" THEN Detach(me[p].cg, hook(p))
                      ELSE UNCHANGED <<attached, pins, installed>>
UnloadHook_Wanted(p) ==
  IF hook(p) \notin WantedHooks(p) THEN UNCHANGED <<attached, pins, installed>>
  ELSE IF pc[p] = "unload" THEN Detach(me[p].cg, hook(p))
                           ELSE Unlink(me[p].cg, hook(p))
UnloadHook(p) ==
  IF pc[p] = "unload" THEN Detach(me[p].cg, hook(p))
                      ELSE Unlink(me[p].cg, hook(p))

Unload(p) ==
  /\ \/ pc[p] = "unload" /\ Goto(p, "unlink")
     \/ pc[p] = "unlink" /\ Advance(p, "unload", "link")
  /\ UnloadHook(p)
  /\ UNCHANGED <<dir, progs, inst, todo, disturbed, boundVars>>

\* LOAD_AND_PIN: the program is taken from its pin and attached ...
Finished(p) == IF p = "daemon" THEN "serve" ELSE "exited"
MarkInstalled(p) ==
  installed' = IF LastHook(p) /\ ~disturbed[p]
                 THEN [installed EXCEPT ![me[p].cg] = WantedHooks(p)]
                 ELSE installed

CreateLink(p) ==
  /\ pc[p] = "link"
  /\ \/ /\ hook(p) \notin WantedHooks(p)
        /\ Advance(p, "link", Finished(p))
        /\ MarkInstalled(p) /\ UNCHANGED attached
     \/ /\ hook(p) \in WantedHooks(p) /\ progs[hook(p)] # None
        /\ attached' = attached \cup {<<me[p].cg, hook(p), progs[hook(p)]>>}
        /\ Goto(p, "pinlink") /\ UNCHANGED installed
     \/ /\ hook(p) \in WantedHooks(p)
        /\ Goto(p, IF progs[hook(p)] = None THEN "failed" ELSE "refused")
        /\ UNCHANGED <<installed, attached>>
  /\ UNCHANGED <<dir, progs, pins, inst, todo, disturbed, boundVars>>

\* A link that is not pinned goes with the process that holds it.
OwnLink(p) == IF pc[p] = "pinlink"
                THEN {l \in attached : l[1] = me[p].cg /\ l[2] = hook(p)
                                         /\ pins[<<l[1], l[2]>>] # l[3]}
                ELSE {}

\* ... and the link is pinned, which fails if there is such a pin.
PinLink(p) ==
  LET entry == <<me[p].cg, hook(p)>>
  IN  /\ pc[p] = "pinlink"
      /\ \/ /\ dir /\ pins[entry] = None
            /\ \E l \in OwnLink(p) : pins' = [pins EXCEPT ![entry] = l[3]]
            /\ Advance(p, "link", Finished(p))
            /\ MarkInstalled(p) /\ UNCHANGED attached
         \/ /\ attached' = attached \ OwnLink(p)
            /\ Goto(p, IF dir /\ pins[entry] = None THEN "refused" ELSE "failed")
            /\ UNCHANGED <<installed, pins>>
      /\ UNCHANGED <<dir, progs, inst, todo, disturbed, boundVars>>

\* SIGKILL, a crash, an error exit of handle_msg, or a signal before the
\* signal descriptor exists.
Kill(p) ==
  /\ Running(p) /\ kills < MaxKills
  /\ kills' = kills + 1
  /\ attached' = attached \ OwnLink(p)
  /\ Goto(p, "killed")
  /\ todo' = [todo EXCEPT ![p] = {}]
  /\ UNCHANGED <<dir, progs, pins, inst, historyVars, installs>>

Install(p) == OpenCgroup(p) \/ Unload(p) \/ CreateLink(p) \/ PinLink(p)
DaemonStep ==
  \/ StatDir \/ CleanPinDir("daemon") \/ Mkdir \/ PinProgram \/ Install("daemon")
InstallerStep == Install("installer") \/ CleanPinDir("installer")

LifeNext ==
  \/ \E opts \in Invocations : StartDaemon(opts)
  \/ \E opts \in Invocations :
       opts.install /\ ~opts.force /\ StartInstaller(opts)
  \/ DaemonStep \/ Sigterm \/ InstallerStep
  \/ \E p \in Procs : Kill(p)

\* A running process goes on; nothing starts, stops or kills one by itself.
LifeFairness == WF_lifeVars(DaemonStep) /\ WF_lifeVars(InstallerStep)

LifeSpec == LifeInit /\ [][LifeNext]_lifeVars /\ LifeFairness

(***************************************************************************)
(* Properties.                                                             *)
(***************************************************************************)
HooksOf(c) == {l \in attached : l[1] = c}
Undisturbed(p) == ~disturbed[p]

\* A cgroup for which an undisturbed install reported success has each of the
\* hooks that were asked for exactly once, all of one instance, and no other
\* hook, until they are taken away: whatever earlier installs, killed or
\* disturbed ones included, left.
CompleteInstall ==
  \A c \in Cgs : installed[c] # NotInstalled =>
    \E i \in Instances : HooksOf(c) = {<<c, h, i>> : h \in installed[c]}

\* While the daemon serves, every attached hook belongs to its own instance:
\* no request goes to the ring of an instance that nobody reads.  README.md
\* ("Upgrading udpgrm daemon") keeps the hooks of a stopped daemon instead, whose
\* ring nobody reads any more; see HooksRemainActive.
NoStaleHooks ==
  pc["daemon"] = "serve" /\ Undisturbed("daemon") =>
    \A l \in attached : l[3] = inst

\* tests/test_basic.py: "on exiting the cgroup hooks and bpffs is cleared",
\* hooks that `udpgrm --install` has put in place and partly installed ones
\* included.  README.md says otherwise of these: see HooksRemainActive.
ExitLeavesNothing ==
  pc["daemon"] = "exited" /\ Undisturbed("daemon") => ~dir /\ attached = {}

\* README.md, of a restart of the daemon after a successful `udpgrm --install`:
\* "The old ebpf programs, loaded in REUSEPORT_EBPF and cgroup hooks, remain
\* active."  While no install runs, the cleanup of main() takes none of them away.
HooksRemainActive ==
  [][\A c \in Cgs :
       installed[c] # NotInstalled /\ pc["daemon"] \in {"clean", "exit"}
         /\ ~Running("installer") => HooksOf(c) \subseteq HooksOf(c)']_lifeVars

\* An install fails only for want of a program pin or because the kernel refuses
\* it a call: what a killed or an earlier install left in the directory, the pin
\* of a detached link included, does not stand in its way.
InstallRecovers ==
  [][pc["installer"] # "failed" /\ pc'["installer"] = "failed"
       /\ Undisturbed("installer")
       => \E h \in WantedHooks("installer") : progs[h] = None]_lifeVars

\* A start with --force serves in the end whatever earlier processes left,
\* unless it is killed, the kernel refuses it a call or its own --install names
\* a cgroup it cannot open.
ForcedStartServes ==
  pc["daemon"] = "stat" /\ me["daemon"].force
    ~> \/ pc["daemon"] \in {"serve", "killed", "refused", "exited"}
       \/ disturbed["daemon"]

============================================================================
