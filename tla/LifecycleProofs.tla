-------------------------- MODULE LifecycleProofs ---------------------------
(***************************************************************************)
(* Proofs about Lifecycle, for every number of hooks, cgroups, starts,     *)
(* installs and kills.                                                     *)
(***************************************************************************)
EXTENDS Lifecycle, TLAPS

(***************************************************************************)
(* The invariant.                                                          *)
(***************************************************************************)
InstallLabels == {"open", "unload", "unlink", "link", "pinlink"}
DaemonLabels == {"stat", "clean", "mkdir", "pin", "serve"}
Labels == Ended \cup InstallLabels \cup DaemonLabels \cup {"exit"}
Locals == [force : BOOLEAN, install : BOOLEAN, cg : Cgs, sendmsg : BOOLEAN,
           k : 1 .. Len(HookSeq)]
EntryNames == ({"prog"} \X Hooks) \cup (Cgs \X Hooks)
EntrySteps == {"detach", "unlink"} \X EntryNames
PinValues == Instances \cup {None, Severed}

\* The types of the variables; the labels of an installer are those of --install
\* and of the cleanup it falls into.
FileType ==
  /\ dir \in BOOLEAN
  /\ progs \in [Hooks -> Instances \cup {None}]
  /\ pins \in [Cgs \X Hooks -> PinValues]
  /\ attached \in SUBSET (Cgs \X Hooks \X Instances)
  /\ inst \in Instances \cup {None}
ProcType ==
  /\ pc \in [Procs -> Labels] /\ pc["installer"] \notin DaemonLabels
  /\ me \in [Procs -> Locals]
  /\ todo \in [Procs -> SUBSET EntrySteps]
HistoryType ==
  /\ installed \in [Cgs -> SUBSET Hooks]
  /\ disturbed \in [Procs -> BOOLEAN]
TypeInv == FileType /\ ProcType /\ HistoryType

\* Nothing is pinned where there is no directory, and all program pins are of
\* one instance, which is that of the daemon while it pins.
PinInv ==
  /\ ~dir => Empty
  /\ \A g, h \in Hooks : progs[g] # None /\ progs[h] # None => progs[g] = progs[h]
  /\ pc["daemon"] = "pin" => \A h \in Hooks : progs[h] \in {None, inst}

\* A pin is severed or that of an attached link.  A link is pinned, or a process
\* is about to pin it; a process alone there has one such link.
Loose(c, h, i) == <<c, h, i>> \in attached /\ pins[<<c, h>>] # i
Owns(p, c, h) == pc[p] = "pinlink" /\ me[p].cg = c /\ hook(p) = h
LinkAt(c, h) ==
  /\ pins[<<c, h>>] \in Instances => <<c, h, pins[<<c, h>>]>> \in attached
  /\ \A i \in Instances : Loose(c, h, i) => \E p \in Procs : Owns(p, c, h)
  /\ \A i, j \in Instances : Loose(c, h, i) /\ Loose(c, h, j) =>
       i = j \/ \A p \in Procs : Owns(p, c, h)
  /\ \A i, j, k \in Instances :
       Loose(c, h, i) /\ Loose(c, h, j) /\ Loose(c, h, k) =>
         i = j \/ i = k \/ j = k
LinkInv == \A c \in Cgs, h \in Hooks : LinkAt(c, h)

\* Two processes that run, the daemon not in its main loop, are both disturbed.
OverlapInv ==
  pc["daemon"] \notin Resting /\ Running("installer") =>
    \A p \in Procs : disturbed[p]

\* An undisturbed daemon cleans all there is, starts with nothing, and from then
\* on everything is of its instance.
Started == InstallLabels \cup {"pin", "serve", "exit"}
Remaining(p) == {e \in EntryNames : \E t \in todo[p] : t[2] = e}
FreshInv ==
  ~disturbed["daemon"] =>
    /\ pc["daemon"] \in {"clean", "exit"} => Entries \subseteq Remaining("daemon")
    /\ pc["daemon"] \in {"mkdir", "exited"} => ~dir /\ attached = {}
    /\ pc["daemon"] \in Started =>
         /\ \A h \in Hooks : progs[h] \in {None, inst}
         /\ \A e \in Cgs \X Hooks : pins[e] \in {None, Severed, inst}
         /\ \A l \in attached : l[3] = inst

\* An install has taken away what the cgroup had before it links anything.
LinkingInv ==
  \A p \in Procs : pc[p] \in {"link", "pinlink"} =>
    installed[me[p].cg] = NotInstalled

\* An install starts with the first hook; what an undisturbed one has pinned
\* when it is at hook k.
Unpinned(p, m) == pins[<<me[p].cg, HookSeq[m]>>] = None
PinnedAt(p, m) ==
  /\ progs[HookSeq[m]] # None
  /\ pins[<<me[p].cg, HookSeq[m]>>] = progs[HookSeq[m]]
Linked(p) ==
  \A m \in 1 .. Len(HookSeq) :
    IF m < me[p].k /\ HookSeq[m] \in WantedHooks(p) THEN PinnedAt(p, m)
                                                    ELSE Unpinned(p, m)
Progress(p) ==
  /\ pc[p] \in {"unload", "unlink"} => \A m \in 1 .. me[p].k - 1 : Unpinned(p, m)
  /\ pc[p] \in {"link", "pinlink"} => Linked(p)
  /\ pc[p] = "pinlink" =>
       /\ hook(p) \in WantedHooks(p) /\ progs[hook(p)] # None
       /\ <<me[p].cg, hook(p), progs[hook(p)]>> \in attached
ProgressInv ==
  \A p \in Procs : /\ pc[p] = "open" => me[p].k = 1
                   /\ ~disturbed[p] => Progress(p)

LifeInv ==
  /\ TypeInv /\ PinInv /\ LinkInv /\ OverlapInv
  /\ FreshInv /\ LinkingInv /\ ProgressInv /\ CompleteInstall

(***************************************************************************)
(* Steps of main(): labels and locals.                                     *)
(***************************************************************************)
\* The hooks of main() are those of HookSeq, at least one.
LEMMA HookFacts ==
  /\ Len(HookSeq) \in Nat \ {0}
  /\ \A m \in 1 .. Len(HookSeq) : HookSeq[m] \in Hooks
  /\ \A h \in Hooks : \E m \in 1 .. Len(HookSeq) : HookSeq[m] = h
<1>1. HookSeq \in Seq(STRING) /\ HookSeq # <<>>
  BY HookAssumption
<1>2. Len(HookSeq) \in Nat \ {0}
  BY <1>1
<1> QED
  BY <1>2 DEF Hooks

\* The constant values that a process starts with.
LEMMA OptionTypes == NoOptions \in Locals /\ Invocations \subseteq Locals
<1>1. 1 \in 1 .. Len(HookSeq)
  BY HookFacts
<1>2. (CHOOSE c \in Cgs : TRUE) \in Cgs
  BY BoundAssumption
<1> QED
  BY <1>1, <1>2 DEF NoOptions, Invocations, Locals

\* What the step of a process to a label changes.
StepsTo(p, label) ==
  /\ pc' \in [Procs -> Labels] /\ me' \in [Procs -> Locals]
  /\ pc'[p] = label
  /\ \A q \in Procs : q # p => pc'[q] = pc[q] /\ me'[q] = me[q]
SameOptions(p) ==
  /\ me'[p].cg = me[p].cg /\ me'[p].sendmsg = me[p].sendmsg
  /\ me'[p].force = me[p].force /\ me'[p].install = me[p].install

\* A move keeps the types and the other process, and does not change options.
LEMMA MoveFacts ==
  ASSUME ProcType, NEW p \in Procs, NEW label \in Labels,
         NEW k \in 1 .. Len(HookSeq), Move(p, label, k)
  PROVE  /\ StepsTo(p, label)
         /\ label \notin Resting => SameOptions(p) /\ me'[p].k = k
<1> DEFINE moved == [me[p] EXCEPT !.k = k]
           new == IF label \in Resting THEN NoOptions ELSE moved
<1>1. me[p] \in Locals
  BY DEF ProcType
<1>2. /\ moved \in Locals /\ moved.k = k /\ moved.cg = me[p].cg
      /\ moved.sendmsg = me[p].sendmsg /\ moved.force = me[p].force
      /\ moved.install = me[p].install
  BY <1>1 DEF Locals
<1>3. me' = [me EXCEPT ![p] = new] /\ pc' = [pc EXCEPT ![p] = label]
  BY DEF Move
<1> HIDE DEF moved
<1>4. new \in Locals
  BY <1>2, OptionTypes
<1> HIDE DEF new
<1>5. StepsTo(p, label) /\ me'[p] = new
  BY <1>3, <1>4 DEF ProcType, StepsTo
<1> QED
  BY <1>2, <1>5 DEF SameOptions, new

\* A step at the same hook.
LEMMA GotoFacts ==
  ASSUME ProcType, NEW p \in Procs, NEW label \in Labels, Goto(p, label)
  PROVE  /\ StepsTo(p, label)
         /\ label \notin Resting => me'[p] = me[p]
<1>1. me[p] \in Locals /\ me[p].k \in 1 .. Len(HookSeq)
  BY DEF ProcType, Locals
<1>2. StepsTo(p, label)
  BY <1>1, MoveFacts DEF Goto
<1>3. [me[p] EXCEPT !.k = me[p].k] = me[p]
  BY <1>1 DEF Locals
<1>4. label \notin Resting => me'[p] = [me[p] EXCEPT !.k = me[p].k]
  BY DEF Goto, Move, ProcType
<1> QED
  BY <1>2, <1>3, <1>4

\* A step to the next hook, or on from the last one.
LEMMA AdvanceFacts ==
  ASSUME ProcType, NEW p \in Procs, NEW label \in Labels \ Resting,
         NEW next \in Labels, Advance(p, label, next)
  PROVE  \/ /\ LastHook(p) /\ StepsTo(p, next)
            /\ next \notin Resting => SameOptions(p) /\ me'[p].k = 1
         \/ /\ ~LastHook(p) /\ StepsTo(p, label) /\ SameOptions(p)
            /\ me[p].k + 1 \in 1 .. Len(HookSeq) /\ me'[p].k = me[p].k + 1
<1>1. me[p].k \in 1 .. Len(HookSeq) /\ 1 \in 1 .. Len(HookSeq)
  BY HookFacts DEF ProcType, Locals
<1>2. CASE LastHook(p)
  BY <1>1, <1>2, MoveFacts DEF Advance
<1>3. CASE ~LastHook(p)
  <2>1. me[p].k + 1 \in 1 .. Len(HookSeq)
    BY <1>1, <1>3, HookFacts DEF LastHook
  <2> QED
    BY <1>3, <2>1, MoveFacts DEF Advance
<1> QED
  BY <1>2, <1>3

\* The hook of a process and the hooks it wants are hooks.
LEMMA LocalFacts ==
  ASSUME ProcType, NEW p \in Procs
  PROVE  /\ me[p] \in Locals /\ me[p].cg \in Cgs
         /\ me[p].k \in 1 .. Len(HookSeq)
         /\ hook(p) \in Hooks /\ WantedHooks(p) \subseteq Hooks
<1>1. me[p] \in Locals
  BY DEF ProcType
<1>2. me[p].cg \in Cgs /\ me[p].k \in 1 .. Len(HookSeq)
  BY <1>1 DEF Locals
<1> QED
  BY <1>1, <1>2, HookFacts DEF hook, WantedHooks

(***************************************************************************)
(* Types.                                                                  *)
(***************************************************************************)
\* A severed pin is no pin of an instance.
LEMMA PinFacts ==
  Severed \notin Instances /\ None \notin Instances /\ Severed # None
BY BoundAssumption DEF Severed, Instances, None

\* The entries of the pin directory have names.
LEMMA EntryTypes ==
  Entries \subseteq EntryNames /\ {"detach"} \X Entries \subseteq EntrySteps
BY DEF Entries, EntryNames, EntrySteps

\* Removing a link or its pin keeps the types.
LEMMA RemoveLinkTypes ==
  ASSUME TypeInv, NEW c \in Cgs, NEW h \in Hooks, NEW pin \in PinValues,
         RemoveLink(c, h, pin)
  PROVE  /\ pins' \in [Cgs \X Hooks -> PinValues]
         /\ attached' \in SUBSET (Cgs \X Hooks \X Instances)
         /\ installed' \in [Cgs -> SUBSET Hooks]
BY DEF TypeInv, FileType, HistoryType, RemoveLink, NotInstalled

\* Both steps remove a link; a pin stays only if there is one.
Removes(c, h) ==
  \E pin \in {None, Severed} :
    /\ RemoveLink(c, h, pin) /\ (pins[<<c, h>>] = None => pin = None)
LEMMA RemovalCases ==
  ASSUME NEW c, NEW h
  PROVE  /\ Detach(c, h) => Removes(c, h)
         /\ Unlink(c, h) => Removes(c, h) /\ RemoveLink(c, h, None)
BY DEF Detach, Unlink, Removes

\* A step of the cleanup is about a program pin or a link pin; an entry goes
\* from its list once it is unlinked.
LEMMA EntryCases ==
  ASSUME TypeInv, NEW p \in Procs, RemoveEntry(p)
  PROVE  \E t \in todo[p] :
           \/ \E h \in Hooks : /\ t[2] = <<"prog", h>>
                               /\ todo' = [todo EXCEPT ![p] = @ \ {t}]
                               /\ progs' = [progs EXCEPT ![h] = None]
                               /\ UNCHANGED <<pins, attached, installed>>
           \/ \E c \in Cgs, h \in Hooks :
                /\ t[2] = <<c, h>> /\ Removes(c, h) /\ UNCHANGED progs
                /\ \/ todo' = [todo EXCEPT ![p] =
                                  (@ \ {t}) \cup {<<"unlink", t[2]>>}]
                   \/ /\ RemoveLink(c, h, None)
                      /\ todo' = [todo EXCEPT ![p] = @ \ {t}]
<1>1. PICK t \in todo[p] :
        \/ /\ t[2][1] = "prog"
           /\ progs' = [progs EXCEPT ![t[2][2]] = None]
           /\ todo' = [todo EXCEPT ![p] = @ \ {t}]
           /\ UNCHANGED <<pins, attached, installed>>
        \/ /\ t[2][1] # "prog"
           /\ Detach(t[2][1], t[2][2])
           /\ todo' = [todo EXCEPT ![p] = (@ \ {t}) \cup {<<"unlink", t[2]>>}]
           /\ UNCHANGED progs
        \/ /\ t[2][1] # "prog"
           /\ Unlink(t[2][1], t[2][2])
           /\ todo' = [todo EXCEPT ![p] = @ \ {t}]
           /\ UNCHANGED progs
  BY DEF RemoveEntry
<1>2. t[2] \in EntryNames
  BY <1>1 DEF TypeInv, ProcType, EntrySteps
<1>3. CASE t[2] \in {"prog"} \X Hooks
  <2>1. PICK h \in Hooks : t[2] = <<"prog", h>>
    BY <1>3
  <2>2. t[2][1] = "prog" /\ t[2][2] = h
    BY <2>1
  <2>3. /\ progs' = [progs EXCEPT ![h] = None] /\ UNCHANGED <<pins, attached, installed>>
        /\ todo' = [todo EXCEPT ![p] = @ \ {t}]
    BY <1>1, <2>2
  <2> QED
    BY <1>1, <2>1, <2>3
<1>4. CASE t[2] \in Cgs \X Hooks
  <2>1. PICK c \in Cgs, h \in Hooks : t[2] = <<c, h>>
    BY <1>4
  <2>2. t[2][1] = c /\ t[2][2] = h /\ c # "prog"
    BY <2>1, BoundAssumption
  <2>3. /\ UNCHANGED progs
        /\ \/ /\ Detach(c, h)
              /\ todo' = [todo EXCEPT ![p] = (@ \ {t}) \cup {<<"unlink", t[2]>>}]
           \/ Unlink(c, h) /\ todo' = [todo EXCEPT ![p] = @ \ {t}]
    BY <1>1, <2>2
  <2>4. Removes(c, h) /\ (Unlink(c, h) => RemoveLink(c, h, None))
    BY <2>3, RemovalCases
  <2> QED
    BY <1>1, <2>1, <2>3, <2>4
<1> QED
  BY <1>2, <1>3, <1>4 DEF EntryNames

\* The files and the list after a step of the cleanup.
LEMMA EntryEffect ==
  ASSUME TypeInv, NEW p \in Procs, RemoveEntry(p)
  PROVE  /\ todo' \in [Procs -> SUBSET EntrySteps]
         /\ \/ \E h \in Hooks : /\ progs' = [progs EXCEPT ![h] = None]
                                 /\ UNCHANGED <<pins, attached, installed>>
            \/ \E c \in Cgs, h \in Hooks : Removes(c, h) /\ UNCHANGED progs
<1>1. \A t \in todo[p] : <<"unlink", t[2]>> \in EntrySteps
  BY DEF TypeInv, ProcType, EntrySteps
<1>2. todo \in [Procs -> SUBSET EntrySteps]
  BY DEF TypeInv, ProcType
<1> QED
  BY <1>1, <1>2, EntryCases

\* UNLOAD of a hook is a removal of its link in two steps.
LEMMA UnloadFacts ==
  ASSUME NEW p \in Procs, Unload(p)
  PROVE  /\ Removes(me[p].cg, hook(p))
         /\ pc[p] = "unlink" => RemoveLink(me[p].cg, hook(p), None)
BY RemovalCases DEF Unload, UnloadHook

\* The start of a process.
LEMMA StartFacts ==
  ASSUME ProcType, NEW opts \in Invocations
  PROVE  /\ StartDaemon(opts) =>
              StepsTo("daemon", "stat") /\ me'["daemon"] = opts
         /\ StartInstaller(opts) =>
              StepsTo("installer", "open") /\ me'["installer"] = opts
<1>1. opts \in Locals
  BY OptionTypes
<1>2. {"daemon", "installer"} \subseteq Procs /\ {"stat", "open"} \subseteq Labels
  BY DEF Procs, Labels, InstallLabels, DaemonLabels
<1> QED
  BY <1>1, <1>2 DEF StartDaemon, StartInstaller, StepsTo, ProcType

\* A step of a process keeps the types of its locals.
LEMMA ProcFrame ==
  ASSUME ProcType, NEW p \in Procs, NEW label \in Labels, StepsTo(p, label),
         p = "installer" => label \notin DaemonLabels,
         todo' \in [Procs -> SUBSET EntrySteps]
  PROVE  ProcType'
BY DEF ProcType, StepsTo, Procs

\* Every step keeps the types.
LEMMA TypeStep ==
  ASSUME TypeInv, [LifeNext]_lifeVars
  PROVE  TypeInv'
<1>0. /\ FileType /\ ProcType /\ HistoryType
      /\ "daemon" \in Procs /\ "installer" \in Procs
  BY DEF TypeInv, Procs
<1> USE DEF TypeInv
<1>1. ASSUME NEW opts \in Invocations, StartDaemon(opts) PROVE TypeInv'
  <2>1. inst' \in Instances
    BY <1>0, <1>1, BoundAssumption DEF StartDaemon, FileType, Instances, None
  <2>2. FileType'
    BY <1>0, <1>1, <2>1 DEF StartDaemon, FileType, fsVars
  <2>3. ProcType'
    BY <1>0, <1>1, StartFacts, ProcFrame
    DEF StartDaemon, ProcType, Labels, DaemonLabels
  <2>4. HistoryType'
    BY <1>0, <1>1 DEF StartDaemon, HistoryType, Running
  <2> QED
    BY <2>2, <2>3, <2>4
<1>2. ASSUME NEW opts \in Invocations, StartInstaller(opts) PROVE TypeInv'
  <2>1. FileType'
    BY <1>0, <1>2 DEF StartInstaller, FileType, fsVars
  <2>2. ProcType'
    BY <1>0, <1>2, StartFacts, ProcFrame
    DEF StartInstaller, ProcType, Labels, DaemonLabels, InstallLabels
  <2>3. HistoryType'
    <3> DEFINE overlap == pc["daemon"] \notin Resting
    <3>1. /\ disturbed' = [disturbed EXCEPT !["daemon"] = @ \/ overlap,
                                            !["installer"] = overlap]
          /\ installed' = installed
      BY <1>2 DEF StartInstaller
    <3>2. overlap \in BOOLEAN
      OBVIOUS
    <3> HIDE DEF overlap
    <3> QED
      BY <1>0, <3>1, <3>2 DEF HistoryType
  <2> QED
    BY <2>1, <2>2, <2>3
<1>3. CASE StatDir
  <2>1. PICK label \in {"mkdir", "failed", "clean"} :
          /\ Goto("daemon", label)
          /\ UNCHANGED todo \/ todo' = [todo EXCEPT !["daemon"] = {"detach"} \X Entries]
    BY <1>3 DEF StatDir, BeginClean
  <2>2. label \in Labels
    BY DEF Labels, DaemonLabels, Ended
  <2>3. ProcType'
    BY <1>0, <2>1, <2>2, GotoFacts, ProcFrame, EntryTypes DEF ProcType
  <2> QED
    BY <1>0, <1>3, <2>3 DEF StatDir, FileType, HistoryType, fsVars, historyVars
<1>4. CASE Mkdir
  <2>1. PICK label \in {"failed", "refused", "pin"} : Goto("daemon", label)
    BY <1>4 DEF Mkdir
  <2>2. label \in Labels
    BY DEF Labels, DaemonLabels, Ended
  <2>3. ProcType'
    BY <1>0, <1>4, <2>1, <2>2, GotoFacts, ProcFrame DEF ProcType, Mkdir
  <2>4. dir' \in BOOLEAN
    BY <1>0, <1>4 DEF Mkdir, FileType
  <2> QED
    BY <1>0, <1>4, <2>3, <2>4 DEF Mkdir, FileType, HistoryType, historyVars
<1>5. CASE PinProgram
  <2>1. PICK label \in {"failed", "refused", "pin", "open", "serve"} :
          StepsTo("daemon", label)
    <3>1. /\ AfterPins \in {"open", "serve"} /\ "pin" \in Labels \ Resting
          /\ {"failed", "refused", "pin", "open", "serve"} \subseteq Labels
      BY DEF AfterPins, Labels, Resting, Ended, InstallLabels, DaemonLabels
    <3>2. CASE Goto("daemon", "failed") \/ Goto("daemon", "refused")
      BY <1>0, <3>1, <3>2, GotoFacts
    <3>3. CASE Advance("daemon", "pin", AfterPins)
      BY <1>0, <3>1, <3>3, AdvanceFacts
    <3> QED
      BY <1>5, <3>2, <3>3 DEF PinProgram
  <2>2. label \in Labels
    BY DEF Labels, DaemonLabels, Ended, InstallLabels
  <2>3. ProcType'
    BY <1>0, <1>5, <2>1, <2>2, ProcFrame DEF ProcType, PinProgram
  <2>4. progs' \in [Hooks -> Instances \cup {None}]
    BY <1>0, <1>5, LocalFacts DEF PinProgram, FileType
  <2> QED
    BY <1>0, <1>5, <2>3, <2>4 DEF PinProgram, FileType, HistoryType, historyVars
<1>6. CASE Sigterm
  <2>1. "exit" \in Labels
    BY DEF Labels
  <2>2. ProcType'
    BY <1>0, <1>6, <2>1, GotoFacts, ProcFrame, EntryTypes
    DEF ProcType, Sigterm, BeginClean
  <2>3. HistoryType'
    BY <1>0, <1>6 DEF Sigterm, HistoryType
  <2> QED
    BY <1>0, <1>6, <2>2, <2>3 DEF Sigterm, FileType, fsVars
<1>7. ASSUME NEW p \in Procs, RemoveEntry(p) PROVE TypeInv'
  <2>1. todo' \in [Procs -> SUBSET EntrySteps]
    BY <1>0, <1>7, EntryEffect
  <2>2. ProcType' /\ UNCHANGED <<dir, inst, disturbed>>
    BY <1>0, <1>7, <2>1 DEF RemoveEntry, ProcType
  <2>3. /\ progs' \in [Hooks -> Instances \cup {None}]
        /\ pins' \in [Cgs \X Hooks -> PinValues]
        /\ attached' \in SUBSET (Cgs \X Hooks \X Instances)
        /\ installed' \in [Cgs -> SUBSET Hooks]
    <3>1. CASE \E c \in Cgs, h \in Hooks : Removes(c, h) /\ UNCHANGED progs
      <4>1. PICK c \in Cgs, h \in Hooks, pin \in {None, Severed} :
              RemoveLink(c, h, pin) /\ UNCHANGED progs
        BY <3>1 DEF Removes
      <4>2. pin \in PinValues
        BY DEF PinValues
      <4> QED
        BY <1>0, <4>1, <4>2, RemoveLinkTypes DEF FileType
    <3>2. CASE \E h \in Hooks : /\ progs' = [progs EXCEPT ![h] = None]
                                /\ UNCHANGED <<pins, attached, installed>>
      BY <1>0, <3>2 DEF FileType, HistoryType
    <3> QED
      BY <1>7, <3>1, <3>2, EntryEffect
  <2> QED
    BY <1>0, <2>2, <2>3 DEF FileType, HistoryType
<1>8. ASSUME NEW p \in Procs, CleanPinDir(p), Rmdir(p) PROVE TypeInv'
  <2>1. PICK label \in {"exited", "failed", "mkdir"} :
          Goto(p, label) /\ (pc[p] # "exit" \/ label = "exited")
    BY <1>8 DEF Rmdir
  <2>2. label \in Labels
    BY DEF Labels, DaemonLabels, Ended
  <2>3. p = "installer" => label \notin DaemonLabels
    BY <1>0, <1>8, <2>1 DEF CleanPinDir, ProcType, DaemonLabels
  <2>4. ProcType'
    BY <1>0, <1>8, <2>1, <2>2, <2>3, GotoFacts, ProcFrame DEF ProcType, Rmdir
  <2> QED
    BY <1>0, <1>8, <2>4 DEF Rmdir, FileType, HistoryType, historyVars
<1>9. ASSUME NEW p \in Procs, OpenCgroup(p) PROVE TypeInv'
  <2>1. PICK label \in {"unload", "refused", "exit"} :
          /\ Goto(p, label)
          /\ UNCHANGED todo \/ todo' = [todo EXCEPT ![p] = {"detach"} \X Entries]
    BY <1>9 DEF OpenCgroup, BeginClean
  <2>2. label \in Labels /\ label \notin DaemonLabels
    BY DEF Labels, DaemonLabels, InstallLabels, Ended
  <2>3. ProcType'
    BY <1>0, <2>1, <2>2, GotoFacts, ProcFrame, EntryTypes DEF ProcType
  <2> QED
    BY <1>0, <1>9, <2>3 DEF OpenCgroup, FileType, HistoryType, fsVars, historyVars
<1>10. ASSUME NEW p \in Procs, Unload(p) PROVE TypeInv'
  <2>1. PICK label \in {"unload", "unlink", "link"} : StepsTo(p, label)
    <3>1. /\ "unload" \in Labels \ Resting
          /\ "link" \in Labels /\ "unlink" \in Labels
      BY DEF Labels, Resting, Ended, InstallLabels
    <3> QED
      BY <1>0, <1>10, <3>1, AdvanceFacts, GotoFacts DEF Unload
  <2>2. label \in Labels /\ label \notin DaemonLabels
    BY DEF Labels, DaemonLabels, InstallLabels
  <2>3. ProcType'
    BY <1>0, <1>10, <2>1, <2>2, ProcFrame DEF ProcType, Unload
  <2>4. /\ pins' \in [Cgs \X Hooks -> PinValues]
        /\ attached' \in SUBSET (Cgs \X Hooks \X Instances)
        /\ installed' \in [Cgs -> SUBSET Hooks]
    <3>1. PICK pin \in {None, Severed} : RemoveLink(me[p].cg, hook(p), pin)
      BY <1>10, UnloadFacts DEF Removes
    <3>2. pin \in PinValues
      BY DEF PinValues
    <3> QED
      BY <1>0, <3>1, <3>2, LocalFacts, RemoveLinkTypes
  <2> QED
    BY <1>0, <1>10, <2>3, <2>4 DEF Unload, FileType, HistoryType
<1>11. ASSUME NEW p \in Procs, CreateLink(p) \/ PinLink(p) PROVE TypeInv'
  <2>1. PICK label \in {"link", "serve", "exited", "pinlink", "failed", "refused"} :
          StepsTo(p, label) /\ (p = "daemon" \/ label # "serve")
    <3>1. /\ {"serve", "exited", "failed", "refused", "pinlink"} \subseteq Labels
          /\ "link" \in Labels \ Resting
      BY DEF Labels, Resting, Ended, InstallLabels, DaemonLabels
    <3>2. /\ Finished(p) \in {"serve", "exited"}
          /\ p = "daemon" \/ Finished(p) # "serve"
      BY DEF Finished
    <3>3. CASE Advance(p, "link", Finished(p))
      BY <1>0, <3>1, <3>2, <3>3, AdvanceFacts
    <3>4. CASE Goto(p, "pinlink") \/ Goto(p, "failed") \/ Goto(p, "refused")
      BY <1>0, <3>1, <3>4, GotoFacts
    <3> QED
      BY <1>11, <3>3, <3>4 DEF CreateLink, PinLink
  <2>2. label \in Labels /\ (p = "installer" => label \notin DaemonLabels)
    BY <2>1 DEF Labels, DaemonLabels, InstallLabels, Ended
  <2>3. /\ ProcType'
        /\ UNCHANGED <<dir, progs, inst, disturbed>>
    BY <1>0, <1>11, <2>1, <2>2, ProcFrame DEF ProcType, CreateLink, PinLink
  <2>4. pins' \in [Cgs \X Hooks -> PinValues]
    <3>1. \A l \in OwnLink(p) : l[3] \in Instances
      BY <1>0 DEF OwnLink, FileType
    <3> QED
      BY <1>0, <1>11, <3>1, LocalFacts DEF CreateLink, PinLink, FileType, PinValues
  <2>5. attached' \in SUBSET (Cgs \X Hooks \X Instances)
    <3>1. progs[hook(p)] # None => progs[hook(p)] \in Instances
      BY <1>0, LocalFacts DEF FileType
    <3> QED
      BY <1>0, <1>11, <3>1, LocalFacts DEF CreateLink, PinLink, FileType
  <2>6. installed' \in [Cgs -> SUBSET Hooks]
    BY <1>0, <1>11, LocalFacts DEF CreateLink, PinLink, HistoryType, MarkInstalled
  <2> QED
    BY <1>0, <2>3, <2>4, <2>5, <2>6 DEF FileType, HistoryType
<1>12. ASSUME NEW p \in Procs, Kill(p) PROVE TypeInv'
  <2>1. "killed" \in Labels /\ "killed" \notin DaemonLabels
    BY DEF Labels, Ended, DaemonLabels
  <2>2. ProcType'
    BY <1>0, <1>12, <2>1, GotoFacts, ProcFrame DEF ProcType, Kill
  <2> QED
    BY <1>0, <1>12, <2>2 DEF Kill, FileType, HistoryType, historyVars
<1>13. CASE UNCHANGED lifeVars
  BY <1>0, <1>13
  DEF lifeVars, fsVars, historyVars, FileType, ProcType, HistoryType
<1> QED
  BY <1>0, <1>1, <1>2, <1>3, <1>4, <1>5, <1>6, <1>7, <1>8, <1>9, <1>10, <1>11,
     <1>12, <1>13
  DEF LifeNext, DaemonStep, InstallerStep, Install, CleanPinDir

(***************************************************************************)
(* What a step of main() may do to the other process and to the files.     *)
(***************************************************************************)
Acts(p) ==
  \/ p = "daemon" /\ (StatDir \/ Mkdir \/ PinProgram)
  \/ CleanPinDir(p) \/ Install(p)

\* The steps of the system: of a process in main(), a start, a signal, a kill.
LEMMA StepCases ==
  ASSUME [LifeNext]_lifeVars
  PROVE  \/ \E p \in Procs : Acts(p)
         \/ \E opts \in Invocations : StartDaemon(opts) \/ StartInstaller(opts)
         \/ Sigterm
         \/ \E p \in Procs : Kill(p)
         \/ UNCHANGED lifeVars
<1>1. "daemon" \in Procs /\ "installer" \in Procs
  BY DEF Procs
<1> QED
  BY <1>1 DEF LifeNext, DaemonStep, InstallerStep, Acts

\* A process that steps is not resting, and leaves the other one alone.
LEMMA ActFacts ==
  ASSUME TypeInv, NEW p \in Procs, Acts(p)
  PROVE  /\ pc[p] \notin Resting
         /\ UNCHANGED <<inst, disturbed>>
         /\ \A q \in Procs : q # p => /\ pc'[q] = pc[q] /\ me'[q] = me[q]
                                      /\ todo'[q] = todo[q]
<1>0. ProcType /\ Procs = {"daemon", "installer"}
  BY DEF TypeInv, Procs
<1>1. CASE p = "daemon" /\ (StatDir \/ Mkdir \/ PinProgram)
  <2>1. CASE StatDir
    BY <1>0, <1>1, <2>1 DEF StatDir, Goto, Move, BeginClean, Resting, Ended,
       historyVars, ProcType
  <2>2. CASE Mkdir
    BY <1>0, <1>1, <2>2 DEF Mkdir, Goto, Move, Resting, Ended, historyVars, ProcType
  <2>3. CASE PinProgram
    BY <1>0, <1>1, <2>3 DEF PinProgram, Goto, Move, Advance, Resting, Ended,
       historyVars, ProcType
  <2> QED
    BY <1>1, <2>1, <2>2, <2>3
<1>2. CASE CleanPinDir(p)
  <2>1. pc[p] \notin Resting
    BY <1>2 DEF CleanPinDir, Resting, Ended
  <2>2. CASE RemoveEntry(p)
    <3>1. UNCHANGED <<inst, disturbed, pc, me>>
      BY <2>2 DEF RemoveEntry
    <3>2. \A q \in Procs : q # p => todo'[q] = todo[q]
      BY <1>0, <2>2, EntryCases DEF ProcType
    <3> QED
      BY <2>1, <3>1, <3>2
  <2>3. CASE Rmdir(p)
    BY <1>0, <2>1, <2>3 DEF Rmdir, Goto, Move, ProcType, historyVars
  <2> QED
    BY <1>2, <2>2, <2>3 DEF CleanPinDir
<1>3. CASE OpenCgroup(p)
  BY <1>0, <1>3 DEF OpenCgroup, BeginClean, Goto, Move, Resting, Ended,
     historyVars, ProcType
<1>4. CASE Unload(p)
  BY <1>0, <1>4 DEF Unload, Advance, Goto, Move, Resting, Ended, ProcType
<1>5. CASE CreateLink(p)
  BY <1>0, <1>5 DEF CreateLink, Advance, Goto, Move, Resting, Ended, ProcType
<1>6. CASE PinLink(p)
  BY <1>0, <1>6 DEF PinLink, Advance, Goto, Move, Resting, Ended, ProcType
<1> QED
  BY <1>1, <1>2, <1>3, <1>4, <1>5, <1>6 DEF Acts, Install

\* An undisturbed process that is not resting is alone.
LEMMA Alone ==
  ASSUME OverlapInv, NEW p \in Procs, ~disturbed[p], pc[p] \notin Resting
  PROVE  \A q \in Procs : q # p => pc[q] \in Resting
BY DEF OverlapInv, Procs, Running, Resting

\* Apart from mkdir and the program pins, values only move from a program pin to
\* a link, from a link to its pin, or away, where a pin may stay severed.
LEMMA FileEffect ==
  ASSUME TypeInv, NEW p \in Procs, Acts(p), ~Mkdir, ~PinProgram
  PROVE  /\ dir' => dir
         /\ \A h \in Hooks : progs'[h] \in {None, progs[h]}
         /\ \A e \in Cgs \X Hooks :
              \/ pins'[e] \in {None, pins[e]}
              \/ pins'[e] = Severed /\ pins[e] # None
              \/ dir /\ \E l \in attached : pins'[e] = l[3]
         /\ \A l \in attached' :
              \/ l \in attached
              \/ progs[hook(p)] # None /\ l = <<me[p].cg, hook(p), progs[hook(p)]>>
<1>0. ProcType /\ FileType
  BY DEF TypeInv
<1>1. CASE StatDir \/ OpenCgroup(p)
  BY <1>0, <1>1 DEF StatDir, OpenCgroup, fsVars
<1>2. ASSUME NEW c \in Cgs, NEW h \in Hooks, Removes(c, h), UNCHANGED <<dir, progs>>
      PROVE  /\ dir' => dir
             /\ \A g \in Hooks : progs'[g] \in {None, progs[g]}
             /\ \A e \in Cgs \X Hooks :
                  \/ pins'[e] \in {None, pins[e]}
                  \/ pins'[e] = Severed /\ pins[e] # None
             /\ \A l \in attached' : l \in attached
  BY <1>0, <1>2 DEF Removes, RemoveLink, FileType
<1>3. CASE CleanPinDir(p)
  <2>1. CASE Rmdir(p)
    BY <1>0, <2>1 DEF Rmdir
  <2>2. CASE RemoveEntry(p)
    <3>1. UNCHANGED dir
      BY <2>2 DEF RemoveEntry
    <3>2. CASE \E h \in Hooks : /\ progs' = [progs EXCEPT ![h] = None]
                                /\ UNCHANGED <<pins, attached, installed>>
      BY <1>0, <3>1, <3>2 DEF FileType
    <3>3. CASE \E c \in Cgs, h \in Hooks : Removes(c, h) /\ UNCHANGED progs
      BY <1>2, <3>1, <3>3
    <3> QED
      BY <2>2, <3>2, <3>3, EntryEffect
  <2> QED
    BY <1>3, <2>1, <2>2 DEF CleanPinDir
<1>4. CASE Unload(p)
  BY <1>0, <1>2, <1>4, LocalFacts, UnloadFacts DEF Unload
<1>5. CASE CreateLink(p)
  <2>1. UNCHANGED <<dir, progs, pins>>
    BY <1>5 DEF CreateLink
  <2>2. \/ attached' = attached
        \/ /\ progs[hook(p)] # None
           /\ attached' = attached \cup {<<me[p].cg, hook(p), progs[hook(p)]>>}
    BY <1>5 DEF CreateLink
  <2> QED
    BY <2>1, <2>2
<1>6. CASE PinLink(p)
  <2>1. UNCHANGED <<dir, progs>> /\ attached' \subseteq attached
    BY <1>6 DEF PinLink
  <2>2. \/ pins' = pins
        \/ dir /\ \E l \in attached : pins' = [pins EXCEPT ![<<me[p].cg, hook(p)>>] = l[3]]
    BY <1>6 DEF PinLink, OwnLink
  <2> QED
    BY <1>0, <2>1, <2>2 DEF FileType
<1> QED
  BY <1>1, <1>3, <1>4, <1>5, <1>6 DEF Acts, Install

(***************************************************************************)
(* Overlaps and pins.                                                      *)
(***************************************************************************)
\* Whoever makes the processes overlap marks both.
LEMMA OverlapStep ==
  ASSUME TypeInv, OverlapInv, [LifeNext]_lifeVars
  PROVE  OverlapInv'
<1>0. Procs = {"daemon", "installer"} /\ disturbed \in [Procs -> BOOLEAN] /\ ProcType
  BY DEF Procs, TypeInv, HistoryType
<1>1. ASSUME NEW p \in Procs, Acts(p) PROVE OverlapInv'
  BY <1>0, <1>1, ActFacts DEF OverlapInv, Running, Resting
<1>2. ASSUME NEW opts \in Invocations, StartDaemon(opts) PROVE OverlapInv'
  <2>1. pc'["installer"] = pc["installer"]
    BY <1>0, <1>2, StartFacts DEF StepsTo
  <2> QED
    BY <1>2, <2>1 DEF StartDaemon, OverlapInv, Running
<1>3. ASSUME NEW opts \in Invocations, StartInstaller(opts) PROVE OverlapInv'
  <2>1. pc'["daemon"] = pc["daemon"]
    BY <1>0, <1>3, StartFacts DEF StepsTo
  <2>2. pc["daemon"] \notin Resting => disturbed'["daemon"] /\ disturbed'["installer"]
    BY <1>0, <1>3 DEF StartInstaller
  <2> QED
    BY <1>0, <2>1, <2>2 DEF OverlapInv
<1>4. CASE Sigterm
  <2>1. pc'["installer"] = pc["installer"]
    BY <1>0, <1>4 DEF Sigterm, BeginClean, Goto, Move, ProcType
  <2> QED
    BY <1>4, <2>1 DEF Sigterm, OverlapInv, Running
<1>5. ASSUME NEW p \in Procs, Kill(p) PROVE OverlapInv'
  <2>1. /\ pc'[p] = "killed" /\ \A q \in Procs : q # p => pc'[q] = pc[q]
        /\ disturbed' = disturbed
    BY <1>0, <1>5 DEF Kill, Goto, Move, ProcType, historyVars
  <2> QED
    BY <1>0, <2>1 DEF OverlapInv, Running, Resting, Ended
<1>6. CASE UNCHANGED lifeVars
  BY <1>6 DEF lifeVars, historyVars, OverlapInv, Running
<1> QED
  BY <1>1, <1>2, <1>3, <1>4, <1>5, <1>6, StepCases

\* Only mkdir makes the directory and only the daemon pins programs, after it.
LEMMA PinStep ==
  ASSUME TypeInv, PinInv, [LifeNext]_lifeVars
  PROVE  PinInv'
<1>0. /\ Procs = {"daemon", "installer"} /\ FileType /\ ProcType
      /\ "daemon" \in Procs /\ "installer" \in Procs
  BY DEF Procs, TypeInv
<1>1. ASSUME UNCHANGED <<dir, progs, pins>>,
             pc'["daemon"] = "pin" => pc["daemon"] = "pin" /\ inst' = inst
      PROVE  PinInv'
  BY <1>1 DEF PinInv, Empty
<1>2. ASSUME NEW p \in Procs, Acts(p), ~Mkdir, ~PinProgram PROVE PinInv'
  <2>1. /\ dir' => dir
        /\ \A h \in Hooks : progs'[h] \in {None, progs[h]}
        /\ ~dir => \A e \in Cgs \X Hooks : pins[e] = None => pins'[e] = None
    BY <1>2, FileEffect
  <2>2. pc'["daemon"] = "pin" => pc["daemon"] = "pin" /\ inst' = inst
    <3>1. CASE p = "installer"
      BY <1>0, <1>2, <3>1, ActFacts
    <3>2. CASE p = "daemon"
      <4>1. pc'["daemon"] # "pin"
        BY <1>0, <1>2, <3>2
        DEF Acts, StatDir, CleanPinDir, RemoveEntry, Rmdir, Install, OpenCgroup,
            Unload, CreateLink, PinLink, BeginClean, Goto, Move, Advance,
            Finished, ProcType
      <4> QED
        BY <4>1
    <3> QED
      BY <1>0, <3>1, <3>2
  <2>3. ~dir' => Empty'
    <3>1. CASE ~dir
      BY <2>1, <3>1 DEF PinInv, Empty
    <3>2. CASE dir /\ ~dir'
      <4>1. Rmdir(p)
        BY <1>2, <3>2
        DEF Acts, StatDir, CleanPinDir, RemoveEntry, Install, OpenCgroup, Unload,
            CreateLink, PinLink, fsVars
      <4> QED
        BY <3>2, <4>1 DEF Rmdir, Empty
    <3> QED
      BY <3>1, <3>2
  <2> QED
    BY <2>1, <2>2, <2>3 DEF PinInv
<1>3. CASE Mkdir
  <2>1. /\ UNCHANGED <<progs, pins>> /\ (dir' = TRUE \/ UNCHANGED dir)
        /\ pc'["daemon"] = "pin" => ~dir
    BY <1>0, <1>3 DEF Mkdir, Goto, Move, ProcType
  <2>2. ~dir => \A h \in Hooks : progs[h] = None
    BY DEF PinInv, Empty
  <2> QED
    BY <2>1, <2>2 DEF PinInv, Empty
<1>4. CASE PinProgram
  <2>1. /\ UNCHANGED <<dir, pins, inst>>
        /\ \A h \in Hooks : progs[h] \in {None, inst}
    BY <1>4 DEF PinProgram, PinInv
  <2>2. \/ progs' = progs
        \/ dir /\ progs' = [progs EXCEPT ![hook("daemon")] = inst]
    BY <1>4 DEF PinProgram
  <2>3. \A h \in Hooks : progs'[h] \in {None, inst}
    BY <1>0, <2>1, <2>2 DEF FileType
  <2>4. ~dir' => Empty'
    BY <2>1, <2>2 DEF PinInv, Empty
  <2> QED
    BY <2>1, <2>3, <2>4 DEF PinInv
<1>5. ASSUME NEW opts \in Invocations, StartDaemon(opts) PROVE PinInv'
  <2>1. pc'["daemon"] = "stat"
    BY <1>0, <1>5, StartFacts DEF StepsTo
  <2> QED
    BY <1>1, <1>5, <2>1 DEF StartDaemon, fsVars
<1>6. ASSUME NEW opts \in Invocations, StartInstaller(opts) PROVE PinInv'
  <2>1. pc'["daemon"] = pc["daemon"]
    BY <1>0, <1>6, StartFacts DEF StepsTo
  <2> QED
    BY <1>1, <1>6, <2>1 DEF StartInstaller, fsVars
<1>7. CASE Sigterm
  <2>1. pc'["daemon"] = "exit"
    BY <1>0, <1>7 DEF Sigterm, BeginClean, Goto, Move, ProcType
  <2> QED
    BY <1>1, <1>7, <2>1 DEF Sigterm, fsVars
<1>8. ASSUME NEW p \in Procs, Kill(p) PROVE PinInv'
  <2>1. pc'["daemon"] \in {"killed", pc["daemon"]}
    BY <1>0, <1>8 DEF Kill, Goto, Move, ProcType
  <2> QED
    BY <1>1, <1>8, <2>1 DEF Kill
<1>9. CASE UNCHANGED lifeVars
  BY <1>1, <1>9 DEF lifeVars, fsVars
<1> QED
  BY <1>2, <1>3, <1>4, <1>5, <1>6, <1>7, <1>8, <1>9, StepCases

(***************************************************************************)
(* Links.                                                                  *)
(***************************************************************************)
\* No new link that is not pinned, and no process less that is to pin one.
LEMMA LinkFrame ==
  ASSUME NEW c \in Cgs, NEW h \in Hooks, LinkAt(c, h),
         pins'[<<c, h>>] \in Instances => <<c, h, pins'[<<c, h>>]>> \in attached',
         \A i \in Instances : Loose(c, h, i)' => Loose(c, h, i),
         \A p \in Procs : Owns(p, c, h) => Owns(p, c, h)'
  PROVE  LinkAt(c, h)'
BY DEF LinkAt

\* The links of a process are those of its hook that are not pinned.
LEMMA OwnFacts ==
  ASSUME TypeInv, NEW p \in Procs, pc[p] = "pinlink",
         NEW c \in Cgs, NEW h \in Hooks, NEW i \in Instances
  PROVE  <<c, h, i>> \in OwnLink(p) <=> Owns(p, c, h) /\ Loose(c, h, i)
BY DEF OwnLink, Owns, Loose

\* Detaching a pinned link or removing its pin.
LEMMA RemoveLinkStep ==
  ASSUME TypeInv, LinkInv, NEW c \in Cgs, NEW h \in Hooks, Removes(c, h),
         \A p \in Procs : pc[p] = "pinlink" => pc'[p] = pc[p] /\ me'[p] = me[p]
  PROVE  LinkInv'
<1> SUFFICES ASSUME NEW d \in Cgs, NEW g \in Hooks PROVE LinkAt(d, g)'
  BY DEF LinkInv
<1>0. FileType
  BY DEF TypeInv
<1>1. \A p \in Procs : Owns(p, d, g) => Owns(p, d, g)'
  BY DEF Owns, hook
<1>2. LinkAt(d, g)
  BY DEF LinkInv
<1>3. PICK pin \in {None, Severed} :
        /\ pins' = [pins EXCEPT ![<<c, h>>] = pin]
        /\ attached' = attached \ {<<c, h, pins[<<c, h>>]>>}
  BY DEF Removes, RemoveLink
<1>4. CASE d = c /\ g = h
  <2>1. pins'[<<d, g>>] \notin Instances
    BY <1>0, <1>3, <1>4, PinFacts DEF FileType
  <2>2. \A i \in Instances : Loose(d, g, i)' => Loose(d, g, i)
    BY <1>3, <1>4 DEF Loose
  <2> QED
    BY <1>1, <1>2, <2>1, <2>2, LinkFrame
<1>5. CASE ~(d = c /\ g = h)
  <2>1. pins'[<<d, g>>] = pins[<<d, g>>]
    BY <1>0, <1>3, <1>5 DEF FileType
  <2>2. \A i \in PinValues : <<d, g, i>> \in attached' <=> <<d, g, i>> \in attached
    BY <1>3, <1>5
  <2>3. pins[<<d, g>>] \in PinValues
    BY <1>0 DEF FileType
  <2>4. \A i \in Instances : Loose(d, g, i)' => Loose(d, g, i)
    BY <2>1, <2>2 DEF Loose, PinValues
  <2>5. pins'[<<d, g>>] \in Instances => <<d, g, pins'[<<d, g>>]>> \in attached'
    BY <1>2, <2>1, <2>2, <2>3 DEF LinkAt
  <2> QED
    BY <1>1, <1>2, <2>4, <2>5, LinkFrame
<1> QED
  BY <1>4, <1>5

\* A process that gives up takes its links away.
LEMMA DropStep ==
  ASSUME TypeInv, LinkInv, NEW p \in Procs, UNCHANGED pins,
         attached' = attached \ OwnLink(p),
         \A q \in Procs : q # p => pc'[q] = pc[q] /\ me'[q] = me[q]
  PROVE  LinkInv'
<1> SUFFICES ASSUME NEW c \in Cgs, NEW h \in Hooks PROVE LinkAt(c, h)'
  BY DEF LinkInv
<1>1. LinkAt(c, h) /\ pins[<<c, h>>] \in PinValues
  BY DEF LinkInv, TypeInv, FileType
<1>2. \A q \in Procs : q # p /\ Owns(q, c, h) => Owns(q, c, h)'
  BY DEF Owns, hook
<1>3. <<c, h, pins[<<c, h>>]>> \notin OwnLink(p)
  BY DEF OwnLink
<1>4. pins'[<<c, h>>] \in Instances => <<c, h, pins'[<<c, h>>]>> \in attached'
  BY <1>1, <1>3 DEF LinkAt
<1>5. \A i \in Instances : Loose(c, h, i)' => Loose(c, h, i)
  BY DEF Loose
<1>6. CASE Owns(p, c, h)
  <2>1. \A i \in Instances : ~Loose(c, h, i)'
    BY <1>6, OwnFacts DEF Loose, Owns
  <2> QED
    BY <1>4, <2>1 DEF LinkAt
<1>7. CASE ~Owns(p, c, h)
  BY <1>1, <1>2, <1>4, <1>5, <1>7, LinkFrame
<1> QED
  BY <1>6, <1>7

\* bpf_link_create: the process is about to pin the link.
LEMMA AttachStep ==
  ASSUME TypeInv, LinkInv, NEW p \in Procs, pc[p] = "link",
         progs[hook(p)] # None, UNCHANGED pins,
         attached' = attached \cup {<<me[p].cg, hook(p), progs[hook(p)]>>},
         pc'[p] = "pinlink", me'[p] = me[p],
         \A q \in Procs : q # p => pc'[q] = pc[q] /\ me'[q] = me[q]
  PROVE  LinkInv'
<1> SUFFICES ASSUME NEW c \in Cgs, NEW h \in Hooks PROVE LinkAt(c, h)'
  BY DEF LinkInv
<1> DEFINE new == progs[hook(p)]
<1>0. Procs = {"daemon", "installer"} /\ ProcType
  BY DEF Procs, TypeInv
<1>1. new \in Instances
  BY LocalFacts DEF TypeInv, FileType
<1>2. LinkAt(c, h) /\ pins[<<c, h>>] \in PinValues
  BY DEF LinkInv, TypeInv, FileType
<1>3. pins'[<<c, h>>] \in Instances => <<c, h, pins'[<<c, h>>]>> \in attached'
  BY <1>2 DEF LinkAt
<1>4. ~Owns(p, c, h) /\ \A q \in Procs : Owns(q, c, h) => Owns(q, c, h)'
  BY DEF Owns, hook
<1>5. CASE c = me[p].cg /\ h = hook(p)
  <2>1. \A i \in Instances : Loose(c, h, i)' => Loose(c, h, i) \/ i = new
    BY DEF Loose
  <2>2. Owns(p, c, h)'
    BY <1>5 DEF Owns, hook
  <2>3. \A i, j \in Instances : Loose(c, h, i) /\ Loose(c, h, j) => i = j
    BY <1>2, <1>4 DEF LinkAt
  <2>4. ASSUME NEW i \in Instances, Loose(c, h, i)
        PROVE  \A q \in Procs : Owns(q, c, h)'
    BY <1>0, <1>2, <1>4, <2>2, <2>4 DEF LinkAt
  <2> HIDE DEF new
  <2>5. \A i, j \in Instances : Loose(c, h, i)' /\ Loose(c, h, j)' =>
          i = j \/ \A q \in Procs : Owns(q, c, h)'
    BY <2>1, <2>4
  <2>6. \A i, j, k \in Instances :
          Loose(c, h, i)' /\ Loose(c, h, j)' /\ Loose(c, h, k)' =>
            i = j \/ i = k \/ j = k
    BY <2>1, <2>3
  <2> QED
    BY <1>3, <2>2, <2>5, <2>6 DEF LinkAt
<1>6. CASE ~(c = me[p].cg /\ h = hook(p))
  <2>1. \A i \in Instances : Loose(c, h, i)' => Loose(c, h, i)
    BY <1>6 DEF Loose
  <2> QED
    BY <1>2, <1>3, <1>4, <2>1, LinkFrame
<1> QED
  BY <1>5, <1>6

\* bpf_obj_pin: one link of the process is pinned; a second one can only be the
\* link of the other process.
LEMMA PinLinkStep ==
  ASSUME TypeInv, LinkInv, NEW p \in Procs, pc[p] = "pinlink",
         pins[<<me[p].cg, hook(p)>>] = None, UNCHANGED attached,
         NEW l \in OwnLink(p),
         pins' = [pins EXCEPT ![<<me[p].cg, hook(p)>>] = l[3]],
         \A q \in Procs : q # p => pc'[q] = pc[q] /\ me'[q] = me[q]
  PROVE  LinkInv'
<1> SUFFICES ASSUME NEW c \in Cgs, NEW h \in Hooks PROVE LinkAt(c, h)'
  BY DEF LinkInv
<1> DEFINE i0 == l[3]
<1>0. Procs = {"daemon", "installer"} /\ ProcType /\ FileType
  BY DEF Procs, TypeInv
<1>1. /\ l = <<me[p].cg, hook(p), i0>> /\ l \in attached /\ i0 \in Instances
      /\ me[p].cg \in Cgs /\ hook(p) \in Hooks
  BY <1>0, LocalFacts DEF OwnLink, FileType
<1>2. LinkAt(c, h) /\ pins[<<c, h>>] \in PinValues
  BY DEF LinkInv, TypeInv, FileType
<1>3. \A q \in Procs : q # p /\ Owns(q, c, h) => Owns(q, c, h)'
  BY DEF Owns, hook
<1> HIDE DEF i0
<1>4. CASE c = me[p].cg /\ h = hook(p)
  <2>1. pins'[<<c, h>>] = i0 /\ <<c, h, i0>> \in attached /\ pins[<<c, h>>] = None
    BY <1>0, <1>1, <1>4 DEF FileType, i0
  <2>2. Loose(c, h, i0)
    BY <1>1, <2>1 DEF Loose, Instances, None
  <2>3. \A i \in Instances : Loose(c, h, i)' => Loose(c, h, i) /\ i # i0
    BY <2>1 DEF Loose, Instances, None
  <2>4. ASSUME NEW i \in Instances, Loose(c, h, i)'
        PROVE  \E q \in Procs : Owns(q, c, h)'
    <3>1. \A q \in Procs : Owns(q, c, h)
      BY <1>1, <1>2, <2>2, <2>3, <2>4 DEF LinkAt
    <3> QED
      BY <1>0, <1>3, <3>1
  <2>5. \A i, j \in Instances : Loose(c, h, i)' /\ Loose(c, h, j)' => i = j
    BY <1>1, <1>2, <2>2, <2>3 DEF LinkAt
  <2> QED
    BY <2>1, <2>4, <2>5 DEF LinkAt
<1>5. CASE ~(c = me[p].cg /\ h = hook(p))
  <2>1. pins'[<<c, h>>] = pins[<<c, h>>]
    BY <1>0, <1>5 DEF FileType
  <2>2. ~Owns(p, c, h)
    BY <1>5 DEF Owns
  <2>3. \A i \in Instances : Loose(c, h, i)' => Loose(c, h, i)
    BY <2>1 DEF Loose
  <2>4. pins'[<<c, h>>] \in Instances => <<c, h, pins'[<<c, h>>]>> \in attached'
    BY <1>2, <2>1 DEF LinkAt
  <2> QED
    BY <1>2, <1>3, <2>2, <2>3, <2>4, LinkFrame
<1> QED
  BY <1>4, <1>5

\* Nothing changes about links and their owners.
LEMMA LinkStutter ==
  ASSUME LinkInv, UNCHANGED <<pins, attached>>,
         \A p \in Procs : pc[p] = "pinlink" => pc'[p] = pc[p] /\ me'[p] = me[p]
  PROVE  LinkInv'
<1> SUFFICES ASSUME NEW c \in Cgs, NEW h \in Hooks PROVE LinkAt(c, h)'
  BY DEF LinkInv
<1>1. \A p \in Procs : Owns(p, c, h) => Owns(p, c, h)'
  BY DEF Owns, hook
<1>2. \A i \in Instances : Loose(c, h, i)' => Loose(c, h, i)
  BY DEF Loose
<1>3. LinkAt(c, h) /\ (pins'[<<c, h>>] \in Instances => <<c, h, pins'[<<c, h>>]>> \in attached')
  BY DEF LinkInv, LinkAt
<1> QED
  BY <1>1, <1>2, <1>3, LinkFrame

\* Every step keeps the links in order.
LEMMA LinkStep ==
  ASSUME TypeInv, LinkInv, [LifeNext]_lifeVars
  PROVE  LinkInv'
<1>0. /\ Procs = {"daemon", "installer"} /\ ProcType
      /\ "daemon" \in Procs /\ "installer" \in Procs
  BY DEF Procs, TypeInv
<1>1. ASSUME NEW p \in Procs, Acts(p) PROVE LinkInv'
  <2>1. \A q \in Procs : q # p => pc'[q] = pc[q] /\ me'[q] = me[q]
    BY <1>1, ActFacts
  <2>2. ASSUME pc[p] # "pinlink", UNCHANGED <<pins, attached>> PROVE LinkInv'
    BY <2>1, <2>2, LinkStutter
  <2>3. CASE p = "daemon" /\ (StatDir \/ Mkdir \/ PinProgram)
    BY <2>2, <2>3 DEF StatDir, Mkdir, PinProgram, fsVars
  <2>4. CASE CleanPinDir(p)
    <3>1. pc[p] # "pinlink"
      BY <2>4 DEF CleanPinDir
    <3>2. CASE Rmdir(p)
      BY <2>2, <3>1, <3>2 DEF Rmdir
    <3>3. CASE RemoveEntry(p)
      <4>1. CASE UNCHANGED <<pins, attached>>
        BY <2>2, <3>1, <4>1
      <4>2. CASE \E c \in Cgs, h \in Hooks : Removes(c, h)
        BY <2>1, <3>1, <4>2, RemoveLinkStep
      <4> QED
        BY <3>3, <4>1, <4>2, EntryEffect
    <3> QED
      BY <2>4, <3>2, <3>3 DEF CleanPinDir
  <2>5. CASE OpenCgroup(p)
    BY <2>2, <2>5 DEF OpenCgroup, fsVars
  <2>6. CASE Unload(p)
    <3>1. Removes(me[p].cg, hook(p)) /\ pc[p] # "pinlink"
      BY <2>6, UnloadFacts DEF Unload
    <3> QED
      BY <1>0, <2>1, <3>1, LocalFacts, RemoveLinkStep
  <2>7. CASE CreateLink(p)
    <3>1. CASE UNCHANGED attached
      BY <2>2, <2>7, <3>1 DEF CreateLink
    <3>2. CASE /\ progs[hook(p)] # None
               /\ attached' = attached \cup {<<me[p].cg, hook(p), progs[hook(p)]>>}
               /\ Goto(p, "pinlink")
      <4>1. "pinlink" \in Labels /\ "pinlink" \notin Resting
        BY DEF Labels, InstallLabels, Resting, Ended
      <4>2. pc'[p] = "pinlink" /\ me'[p] = me[p]
        BY <1>0, <3>2, <4>1, GotoFacts DEF StepsTo
      <4> QED
        BY <2>1, <2>7, <3>2, <4>2, AttachStep DEF CreateLink
    <3> QED
      BY <2>7, <3>1, <3>2 DEF CreateLink
  <2>8. CASE PinLink(p)
    <3>1. CASE UNCHANGED pins /\ attached' = attached \ OwnLink(p)
      BY <2>1, <3>1, DropStep
    <3>2. CASE /\ pins[<<me[p].cg, hook(p)>>] = None
               /\ \E l \in OwnLink(p) :
                    pins' = [pins EXCEPT ![<<me[p].cg, hook(p)>>] = l[3]]
               /\ UNCHANGED attached
      BY <2>1, <2>8, <3>2, PinLinkStep DEF PinLink
    <3> QED
      BY <2>8, <3>1, <3>2 DEF PinLink
  <2> QED
    BY <1>1, <2>3, <2>4, <2>5, <2>6, <2>7, <2>8 DEF Acts, Install
<1>2. ASSUME NEW opts \in Invocations, StartDaemon(opts) PROVE LinkInv'
  <2>1. /\ \A q \in Procs : q # "daemon" => pc'[q] = pc[q] /\ me'[q] = me[q]
        /\ pc["daemon"] # "pinlink"
    BY <1>0, <1>2, StartFacts DEF StepsTo, StartDaemon, Running, Ended
  <2> QED
    BY <1>2, <2>1, LinkStutter DEF StartDaemon, fsVars
<1>3. ASSUME NEW opts \in Invocations, StartInstaller(opts) PROVE LinkInv'
  <2>1. /\ \A q \in Procs : q # "installer" => pc'[q] = pc[q] /\ me'[q] = me[q]
        /\ pc["installer"] # "pinlink"
    BY <1>0, <1>3, StartFacts DEF StepsTo, StartInstaller, Running, Ended
  <2> QED
    BY <1>3, <2>1, LinkStutter DEF StartInstaller, fsVars
<1>4. CASE Sigterm
  <2>1. /\ \A q \in Procs : q # "daemon" => pc'[q] = pc[q] /\ me'[q] = me[q]
        /\ pc["daemon"] # "pinlink"
    BY <1>0, <1>4 DEF Sigterm, BeginClean, Goto, Move, ProcType
  <2> QED
    BY <1>4, <2>1, LinkStutter DEF Sigterm, fsVars
<1>5. ASSUME NEW p \in Procs, Kill(p) PROVE LinkInv'
  <2>1. \A q \in Procs : q # p => pc'[q] = pc[q] /\ me'[q] = me[q]
    BY <1>0, <1>5 DEF Kill, Goto, Move, ProcType
  <2> QED
    BY <1>5, <2>1, DropStep DEF Kill
<1>6. CASE UNCHANGED lifeVars
  BY <1>6, LinkStutter DEF lifeVars, fsVars
<1> QED
  BY <1>1, <1>2, <1>3, <1>4, <1>5, <1>6, StepCases

(***************************************************************************)
(* The daemon's own instance.                                              *)
(***************************************************************************)
\* Without pins and without a process that is about to pin there is no link.
LEMMA NoLinks ==
  ASSUME TypeInv, LinkInv, Empty, \A p \in Procs : pc[p] # "pinlink"
  PROVE  attached = {}
<1> SUFFICES ASSUME NEW l \in attached PROVE FALSE
  OBVIOUS
<1>1. PICK c \in Cgs, h \in Hooks, i \in Instances : l = <<c, h, i>>
  BY DEF TypeInv, FileType
<1>2. pins[<<c, h>>] = None
  BY DEF Empty
<1>3. Loose(c, h, i)
  BY <1>1, <1>2 DEF Loose, Instances, None
<1> QED
  BY <1>3 DEF LinkInv, LinkAt, Owns

\* The directory is empty when cleanup_bpf_pin_dir has nothing left to do.
LEMMA NoEntries == Entries = {} => Empty
<1> SUFFICES ASSUME Entries = {} PROVE Empty
  OBVIOUS
<1>1. ASSUME NEW h \in Hooks, progs[h] # None PROVE FALSE
  <2>1. <<"prog", h>> \in Entries
    BY <1>1 DEF Entries
  <2> QED
    BY <2>1
<1>2. ASSUME NEW e \in Cgs \X Hooks, pins[e] # None PROVE FALSE
  <2>1. e \in Entries
    BY <1>2 DEF Entries
  <2> QED
    BY <2>1
<1> QED
  BY <1>1, <1>2 DEF Empty

\* The cleanup begins with a list of all entries.
LEMMA AllRemain ==
  ASSUME NEW p \in Procs, UNCHANGED fsVars, todo'[p] = {"detach"} \X Entries
  PROVE  Entries' \subseteq Remaining(p)'
<1>1. Entries' = Entries
  BY DEF Entries, fsVars
<1>2. \A e \in Entries : <<"detach", e>> \in todo'[p] /\ <<"detach", e>>[2] = e
  OBVIOUS
<1> QED
  BY <1>1, <1>2, EntryTypes DEF Remaining

\* An entry that is unlinked is no entry any more, and none comes.
LEMMA EntryGone ==
  ASSUME TypeInv, NEW p \in Procs, RemoveEntry(p), Entries \subseteq Remaining(p)
  PROVE  Entries' \subseteq Remaining(p)'
<1>0. FileType /\ ProcType
  BY DEF TypeInv
<1>1. PICK t \in todo[p] :
        \/ \E h \in Hooks : /\ t[2] = <<"prog", h>>
                            /\ todo' = [todo EXCEPT ![p] = @ \ {t}]
                            /\ progs' = [progs EXCEPT ![h] = None]
                            /\ UNCHANGED <<pins, attached, installed>>
        \/ \E c \in Cgs, h \in Hooks :
             /\ t[2] = <<c, h>> /\ Removes(c, h) /\ UNCHANGED progs
             /\ \/ todo' = [todo EXCEPT ![p] =
                               (@ \ {t}) \cup {<<"unlink", t[2]>>}]
                \/ /\ RemoveLink(c, h, None)
                   /\ todo' = [todo EXCEPT ![p] = @ \ {t}]
  BY EntryCases
<1> DEFINE e == t[2]
<1>2. ASSUME todo' = [todo EXCEPT ![p] = @ \ {t}]
      PROVE  Remaining(p) \ {e} \subseteq Remaining(p)'
  <2>1. todo'[p] = todo[p] \ {t}
    BY <1>0, <1>2 DEF ProcType
  <2> QED
    BY <2>1 DEF Remaining
<1>3. ASSUME NEW h \in Hooks, e = <<"prog", h>>,
             progs' = [progs EXCEPT ![h] = None], UNCHANGED pins
      PROVE  Entries' \subseteq Entries \ {e}
  <2>1. \A g \in Hooks : progs'[g] # None => g # h /\ progs[g] # None
    BY <1>0, <1>3 DEF FileType
  <2>2. \A d \in Cgs \X Hooks : d # e
    BY <1>3, BoundAssumption
  <2> QED
    BY <1>3, <2>1, <2>2 DEF Entries
<1>4. ASSUME NEW c \in Cgs, NEW h \in Hooks, e = <<c, h>>,
             RemoveLink(c, h, None), UNCHANGED progs
      PROVE  Entries' \subseteq Entries \ {e}
  <2>1. \A d \in Cgs \X Hooks : pins'[d] # None => d # e /\ pins[d] # None
    BY <1>0, <1>4 DEF RemoveLink, FileType
  <2>2. \A g \in Hooks : <<"prog", g>> # e
    BY <1>4, BoundAssumption
  <2> QED
    BY <1>4, <2>1, <2>2 DEF Entries
<1>5. ASSUME NEW c \in Cgs, NEW h \in Hooks, Removes(c, h), UNCHANGED progs,
             todo' = [todo EXCEPT ![p] = (@ \ {t}) \cup {<<"unlink", t[2]>>}]
      PROVE  Entries' \subseteq Remaining(p)'
  <2>1. \A d \in Cgs \X Hooks : pins'[d] # None => pins[d] # None
    BY <1>0, <1>5 DEF Removes, RemoveLink, FileType
  <2>2. Entries' \subseteq Entries
    BY <1>5, <2>1 DEF Entries
  <2>3. todo'[p] = (todo[p] \ {t}) \cup {<<"unlink", t[2]>>}
    BY <1>0, <1>5 DEF ProcType
  <2>4. ASSUME NEW d \in EntryNames, NEW u \in todo[p], u[2] = d
        PROVE  \E v \in todo'[p] : v[2] = d
    <3>1. CASE u = t
      <4>1. <<"unlink", t[2]>> \in todo'[p] /\ <<"unlink", t[2]>>[2] = d
        BY <2>3, <2>4, <3>1
      <4> QED
        BY <4>1
    <3>2. CASE u # t
      BY <2>3, <2>4, <3>2
    <3> QED
      BY <3>1, <3>2
  <2>5. Remaining(p) \subseteq Remaining(p)'
    BY <2>4 DEF Remaining
  <2> QED
    BY <2>2, <2>5
<1> HIDE DEF e
<1> QED
  BY <1>1, <1>2, <1>3, <1>4, <1>5 DEF e

\* Everything that is pinned or attached is of the daemon's instance.
OwnInstance ==
  /\ \A h \in Hooks : progs[h] \in {None, inst}
  /\ \A e \in Cgs \X Hooks : pins[e] \in {None, Severed, inst}
  /\ \A l \in attached : l[3] = inst

\* Links and their pins take the instance of the program pins.
LEMMA InstanceKept ==
  ASSUME TypeInv, NEW p \in Procs, Acts(p), ~Mkdir, ~PinProgram, OwnInstance
  PROVE  OwnInstance'
<1>0. inst' = inst
  BY ActFacts
<1>1. hook(p) \in Hooks
  BY LocalFacts DEF TypeInv
<1>2. \A h \in Hooks : progs'[h] \in {None, inst}
  BY FileEffect DEF OwnInstance
<1>3. \A e \in Cgs \X Hooks : pins'[e] \in {None, Severed, inst}
  BY FileEffect DEF OwnInstance
<1>4. \A l \in attached' : l[3] = inst
  BY <1>1, FileEffect DEF OwnInstance
<1> QED
  BY <1>0, <1>2, <1>3, <1>4 DEF OwnInstance

\* Every step of the daemon keeps FreshInv.
LEMMA FreshDaemon ==
  ASSUME TypeInv, PinInv, LinkInv, OverlapInv, FreshInv, ~disturbed["daemon"],
         Acts("daemon")
  PROVE  FreshInv'
<1> DEFINE d == "daemon"
<1>0. /\ d \in Procs /\ FileType /\ ProcType /\ Procs = {"daemon", "installer"}
      /\ disturbed' = disturbed /\ inst' = inst /\ pc[d] \notin Resting
  BY ActFacts DEF TypeInv, Procs
<1>1. pc["installer"] # "pinlink"
  BY <1>0, Alone DEF Resting, Ended
<1>2. ASSUME Empty, pc[d] # "pinlink" PROVE attached = {}
  BY <1>0, <1>1, <1>2, NoLinks
<1>3. pc[d] \in Started => OwnInstance
  BY DEF FreshInv, OwnInstance
<1>4. CASE StatDir
  <2>1. CASE ~dir /\ Goto(d, "mkdir")
    <3>1. pc'[d] = "mkdir" /\ UNCHANGED fsVars
      BY <1>0, <1>4, <2>1 DEF StatDir, Goto, Move, ProcType
    <3>2. ~dir' /\ attached' = {}
      BY <1>2, <1>4, <2>1, <3>1 DEF StatDir, PinInv, fsVars
    <3> QED
      BY <3>1, <3>2 DEF FreshInv, Started, InstallLabels
  <2>2. CASE Goto(d, "failed")
    <3>1. pc'[d] = "failed"
      BY <1>0, <2>2 DEF Goto, Move, ProcType
    <3> QED
      BY <3>1 DEF FreshInv, Started, InstallLabels
  <2>3. CASE BeginClean(d, "clean")
    <3>1. /\ pc'[d] = "clean" /\ todo'[d] = {"detach"} \X Entries
          /\ UNCHANGED fsVars
      BY <1>0, <1>4, <2>3 DEF StatDir, BeginClean, Goto, Move, ProcType
    <3>2. Entries' \subseteq Remaining(d)'
      BY <1>0, <3>1, AllRemain
    <3> QED
      BY <3>1, <3>2 DEF FreshInv, Started, InstallLabels
  <2> QED
    BY <1>4, <2>1, <2>2, <2>3 DEF StatDir
<1>5. CASE CleanPinDir(d) /\ RemoveEntry(d)
  <2>1. pc' = pc /\ pc[d] \in {"clean", "exit"}
    BY <1>5 DEF RemoveEntry, CleanPinDir
  <2>2. Entries' \subseteq Remaining(d)'
    BY <1>0, <1>5, <2>1, EntryGone DEF FreshInv
  <2>3. pc[d] = "exit" => OwnInstance'
    BY <1>0, <1>3, <1>5, <2>1, InstanceKept DEF Started, Mkdir, PinProgram
  <2> QED
    BY <2>1, <2>2, <2>3 DEF FreshInv, Started, InstallLabels, OwnInstance
<1>6. CASE CleanPinDir(d) /\ Rmdir(d)
  <2>1. pc[d] \in {"clean", "exit"} /\ todo[d] = {} /\ dir' = (dir /\ ~Empty)
    BY <1>6 DEF CleanPinDir, Rmdir
  <2>2. Entries = {}
    BY <2>1 DEF FreshInv, Remaining
  <2>3. Empty /\ ~dir'
    BY <2>1, <2>2, NoEntries
  <2>4. attached' = {}
    BY <1>2, <1>6, <2>1, <2>3 DEF Rmdir
  <2>5. pc'[d] \in {"exited", "mkdir"}
    BY <1>0, <1>6, <2>3 DEF Rmdir, Goto, Move, ProcType
  <2> QED
    BY <2>3, <2>4, <2>5 DEF FreshInv, Started, InstallLabels
<1>7. CASE Mkdir
  <2>1. ~dir /\ attached = {} /\ UNCHANGED <<progs, pins, attached>>
    BY <1>7 DEF Mkdir, FreshInv
  <2>2. OwnInstance'
    BY <2>1 DEF PinInv, Empty, OwnInstance
  <2>3. pc'[d] \in {"pin", "refused"}
    BY <1>0, <1>7, <2>1 DEF Mkdir, Goto, Move, ProcType
  <2> QED
    BY <2>2, <2>3 DEF FreshInv, OwnInstance, Started, InstallLabels
<1>8. CASE PinProgram
  <2>1. OwnInstance /\ UNCHANGED <<pins, attached>>
    BY <1>3, <1>8 DEF PinProgram, Started
  <2>2. progs' \in {progs, [progs EXCEPT ![hook(d)] = inst]}
    BY <1>8 DEF PinProgram
  <2>3. \A h \in Hooks : progs'[h] \in {None, inst}
    BY <1>0, <2>1, <2>2 DEF OwnInstance, FileType
  <2>4. OwnInstance'
    BY <1>0, <2>1, <2>3 DEF OwnInstance
  <2>5. pc'[d] \in {"failed", "refused", "pin", "open", "serve"}
    BY <1>0, <1>8 DEF PinProgram, Advance, AfterPins, Goto, Move, ProcType
  <2> QED
    BY <2>4, <2>5 DEF FreshInv, Started, InstallLabels, OwnInstance
<1>9. CASE Install(d)
  <2>1. pc[d] \in InstallLabels
    BY <1>9 DEF Install, OpenCgroup, Unload, CreateLink, PinLink, InstallLabels
  <2>2. OwnInstance'
    BY <1>0, <1>3, <2>1, InstanceKept
    DEF Started, Mkdir, PinProgram, InstallLabels
  <2>3. CASE OpenCgroup(d)
    <3>1. /\ UNCHANGED fsVars
          /\ \/ pc'[d] \in {"unload", "refused"}
             \/ pc'[d] = "exit" /\ todo'[d] = {"detach"} \X Entries
      BY <1>0, <2>3 DEF OpenCgroup, BeginClean, Goto, Move, ProcType
    <3>2. pc'[d] = "exit" => Entries' \subseteq Remaining(d)'
      BY <1>0, <3>1, AllRemain
    <3> QED
      BY <2>2, <3>1, <3>2 DEF FreshInv, OwnInstance
  <2>4. CASE Unload(d) \/ CreateLink(d) \/ PinLink(d)
    <3>1. pc'[d] \in {"unload", "unlink", "link", "pinlink", "serve", "failed",
                     "refused"}
      BY <1>0, <2>4 DEF Unload, CreateLink, PinLink, Finished, Advance, Goto, Move,
         ProcType
    <3> QED
      BY <2>2, <3>1 DEF FreshInv, OwnInstance
  <2> QED
    BY <1>9, <2>3, <2>4 DEF Install
<1> QED
  BY <1>4, <1>5, <1>6, <1>7, <1>8, <1>9 DEF Acts, CleanPinDir

\* A step that leaves the daemon where it is, or in no state of interest.
LEMMA FreshFrame ==
  ASSUME FreshInv, ~disturbed'["daemon"] => ~disturbed["daemon"],
         UNCHANGED <<dir, progs, pins, inst>>, attached' \subseteq attached,
         \/ pc'["daemon"] = pc["daemon"] /\ todo'["daemon"] = todo["daemon"]
         \/ pc'["daemon"] \in {"stat", "killed"}
  PROVE  FreshInv'
<1>1. Entries' = Entries
  BY DEF Entries
<1>2. CASE pc'["daemon"] = pc["daemon"] /\ todo'["daemon"] = todo["daemon"]
  <2>1. Remaining("daemon")' = Remaining("daemon")
    BY <1>2 DEF Remaining
  <2> QED
    BY <1>1, <1>2, <2>1 DEF FreshInv
<1>3. CASE pc'["daemon"] \in {"stat", "killed"}
  BY <1>3 DEF FreshInv, Started, InstallLabels
<1> QED
  BY <1>2, <1>3

\* Every step keeps FreshInv.
LEMMA FreshStep ==
  ASSUME TypeInv, PinInv, LinkInv, OverlapInv, FreshInv, [LifeNext]_lifeVars
  PROVE  FreshInv'
<1>0. /\ Procs = {"daemon", "installer"} /\ FileType /\ ProcType /\ HistoryType
      /\ "daemon" \in Procs /\ "installer" \in Procs
  BY DEF Procs, TypeInv
<1>1. CASE Acts("daemon")
  <2>1. CASE disturbed["daemon"]
    BY <1>0, <1>1, <2>1, ActFacts DEF FreshInv
  <2> QED
    BY <1>1, <2>1, FreshDaemon
<1>2. CASE Acts("installer")
  <2> SUFFICES ASSUME ~disturbed'["daemon"] PROVE FreshInv'
    BY DEF FreshInv
  <2>1. /\ pc["installer"] \notin Resting
        /\ pc'["daemon"] = pc["daemon"] /\ UNCHANGED <<inst, disturbed>>
    BY <1>0, <1>2, ActFacts
  <2>2. pc["daemon"] \in Resting
    BY <1>0, <2>1 DEF OverlapInv, Running, Resting
  <2>3. ~Mkdir /\ ~PinProgram
    BY <2>2 DEF Mkdir, PinProgram, Resting, Ended
  <2>4. pc["daemon"] \in Started => OwnInstance'
    BY <1>0, <1>2, <2>1, <2>3, InstanceKept DEF FreshInv, OwnInstance
  <2>5. ASSUME pc["daemon"] = "exited" PROVE ~dir' /\ attached' = {}
    <3>1. ~dir /\ attached = {} /\ progs[hook("installer")] = None
      BY <1>0, <2>1, <2>5, LocalFacts DEF FreshInv, PinInv, Empty
    <3> QED
      BY <1>0, <1>2, <2>3, <3>1, FileEffect
  <2> QED
    BY <2>1, <2>2, <2>4, <2>5 DEF FreshInv, OwnInstance, Resting, Ended
<1>3. ASSUME NEW opts \in Invocations, StartDaemon(opts) PROVE FreshInv'
  <2>1. pc'["daemon"] = "stat"
    BY <1>0, <1>3, StartFacts DEF StepsTo
  <2> QED
    BY <2>1 DEF FreshInv, Started, InstallLabels
<1>4. ASSUME NEW opts \in Invocations, StartInstaller(opts) PROVE FreshInv'
  <2>1. pc'["daemon"] = pc["daemon"]
    BY <1>0, <1>4, StartFacts DEF StepsTo
  <2>2. disturbed["daemon"] => disturbed'["daemon"]
    BY <1>0, <1>4 DEF StartInstaller, HistoryType
  <2> QED
    BY <1>4, <2>1, <2>2, FreshFrame DEF StartInstaller, fsVars
<1>5. CASE Sigterm
  <2>1. /\ pc'["daemon"] = "exit" /\ todo'["daemon"] = {"detach"} \X Entries
        /\ UNCHANGED <<fsVars, inst>>
        /\ disturbed["daemon"] => disturbed'["daemon"]
    BY <1>0, <1>5 DEF Sigterm, BeginClean, Goto, Move, ProcType, HistoryType
  <2>2. Entries' \subseteq Remaining("daemon")'
    BY <1>0, <2>1, AllRemain
  <2>3. pc["daemon"] = "serve"
    BY <1>5 DEF Sigterm
  <2> QED
    BY <2>1, <2>2, <2>3 DEF FreshInv, Started, fsVars
<1>6. ASSUME NEW p \in Procs, Kill(p) PROVE FreshInv'
  <2>1. \/ pc'["daemon"] = pc["daemon"] /\ todo'["daemon"] = todo["daemon"]
        \/ pc'["daemon"] = "killed"
    BY <1>0, <1>6 DEF Kill, Goto, Move, ProcType
  <2> QED
    BY <1>6, <2>1, FreshFrame DEF Kill, historyVars
<1>7. CASE UNCHANGED lifeVars
  BY <1>7, FreshFrame DEF lifeVars, fsVars, historyVars
<1> QED
  BY <1>0, <1>1, <1>2, <1>3, <1>4, <1>5, <1>6, <1>7, StepCases

(***************************************************************************)
(* Installs.                                                               *)
(***************************************************************************)
\* The last hook of an undisturbed install.
Completes(p) == LastHook(p) /\ ~disturbed[p] /\ pc'[p] = Finished(p)

\* A step takes a cgroup from `installed`, or an undisturbed install adds its
\* own with its last hook.
LEMMA InstalledEffect ==
  ASSUME TypeInv, NEW p \in Procs, Acts(p), NEW c \in Cgs
  PROVE  \/ installed'[c] \in {NotInstalled, installed[c]}
         \/ /\ Completes(p) /\ c = me[p].cg /\ installed'[c] = WantedHooks(p)
            /\ UNCHANGED attached
<1>0. ProcType /\ HistoryType
  BY DEF TypeInv
<1>1. CASE StatDir \/ Mkdir \/ PinProgram \/ OpenCgroup(p) \/ Rmdir(p)
  BY <1>1 DEF StatDir, Mkdir, PinProgram, OpenCgroup, Rmdir, historyVars
<1>2. ASSUME NEW b \in Cgs, NEW h \in Hooks, Removes(b, h)
      PROVE  installed'[c] \in {NotInstalled, installed[c]}
  BY <1>0, <1>2 DEF Removes, RemoveLink, HistoryType
<1>3. CASE RemoveEntry(p)
  BY <1>2, <1>3, EntryEffect
<1>4. CASE Unload(p)
  BY <1>0, <1>2, <1>4, LocalFacts, UnloadFacts
<1>5. CASE CreateLink(p) \/ PinLink(p)
  <2>1. CASE UNCHANGED installed
    BY <2>1
  <2>2. CASE Advance(p, "link", Finished(p)) /\ MarkInstalled(p) /\ UNCHANGED attached
    <3>1. LastHook(p) => pc'[p] = Finished(p)
      BY <1>0, <2>2 DEF Advance, Move, ProcType
    <3> QED
      BY <1>0, <2>2, <3>1, LocalFacts DEF MarkInstalled, Completes, HistoryType
  <2> QED
    BY <1>5, <2>1, <2>2 DEF CreateLink, PinLink
<1> QED
  BY <1>1, <1>3, <1>4, <1>5 DEF Acts, CleanPinDir, Install

\* UNLOAD comes first: while a process links, its cgroup counts as not installed.
LEMMA LinkingStep ==
  ASSUME TypeInv, OverlapInv, LinkingInv, [LifeNext]_lifeVars
  PROVE  LinkingInv'
<1>0. /\ Procs = {"daemon", "installer"} /\ ProcType /\ HistoryType
      /\ "daemon" \in Procs /\ "installer" \in Procs
  BY DEF Procs, TypeInv
<1>1. ASSUME NEW q \in Procs, Acts(q) PROVE LinkingInv'
  <2> SUFFICES ASSUME NEW p \in Procs, pc'[p] \in {"link", "pinlink"}
               PROVE  installed'[me'[p].cg] = NotInstalled
    BY DEF LinkingInv
  <2>1. CASE p # q
    <3>1. pc[p] = pc'[p] /\ me'[p] = me[p] /\ pc[q] \notin Resting
      BY <1>1, <2>1, ActFacts
    <3>2. pc[p] \notin Resting
      BY <3>1 DEF Resting, Ended
    <3>3. disturbed[q]
      BY <2>1, <3>1, <3>2, Alone
    <3>4. me[p].cg \in Cgs
      BY <1>0, LocalFacts
    <3>5. installed'[me[p].cg] \in {NotInstalled, installed[me[p].cg]}
      BY <1>1, <3>3, <3>4, InstalledEffect DEF Completes
    <3> QED
      BY <3>1, <3>5 DEF LinkingInv
  <2>2. CASE p = q
    <3>0. "unload" \in Labels \ Resting /\ "link" \in Labels \ Resting
          /\ "unlink" \in Labels \ Resting
          /\ "pinlink" \in Labels \ Resting /\ {"failed", "refused"} \subseteq Labels
          /\ Finished(p) \in Labels /\ Finished(p) \notin {"link", "pinlink"}
      BY DEF Labels, Resting, Ended, InstallLabels, DaemonLabels, Finished
    <3>1. CASE Unload(p)
      <4>1. me'[p].cg = me[p].cg
        BY <1>0, <3>0, <3>1, AdvanceFacts, GotoFacts DEF Unload, SameOptions
      <4>2. me[p].cg \in Cgs
        BY <1>0, LocalFacts
      <4>3. installed' = [installed EXCEPT ![me[p].cg] = NotInstalled]
        BY <3>1, UnloadFacts DEF Removes, RemoveLink
      <4> QED
        BY <1>0, <4>1, <4>2, <4>3 DEF HistoryType
    <3>2. CASE CreateLink(p) \/ PinLink(p)
      <4>1. installed[me[p].cg] = NotInstalled
        BY <3>2 DEF CreateLink, PinLink, LinkingInv
      <4>2. CASE Goto(p, "pinlink") /\ UNCHANGED installed
        <5>1. me'[p] = me[p]
          BY <1>0, <3>0, <4>2, GotoFacts
        <5> QED
          BY <4>1, <4>2, <5>1
      <4>3. CASE Goto(p, "failed") \/ Goto(p, "refused")
        <5>1. pc'[p] \in {"failed", "refused"}
          BY <1>0, <3>0, <4>3, GotoFacts DEF StepsTo
        <5> QED
          BY <5>1
      <4>4. CASE Advance(p, "link", Finished(p)) /\ MarkInstalled(p)
        <5>1. ~LastHook(p) /\ me'[p].cg = me[p].cg
          BY <1>0, <3>0, <4>4, AdvanceFacts DEF SameOptions, StepsTo
        <5> QED
          BY <4>1, <4>4, <5>1 DEF MarkInstalled
      <4> QED
        BY <3>2, <4>2, <4>3, <4>4 DEF CreateLink, PinLink
    <3>3. CASE ~Unload(p) /\ ~CreateLink(p) /\ ~PinLink(p)
      <4>1. pc'[p] \notin {"link", "pinlink"}
        BY <1>0, <1>1, <2>2, <3>3
        DEF Acts, StatDir, Mkdir, PinProgram, AfterPins, CleanPinDir, RemoveEntry,
            Rmdir, Install, OpenCgroup, BeginClean, Goto, Move, Advance, ProcType
      <4> QED
        BY <4>1
    <3> QED
      BY <3>1, <3>2, <3>3
  <2> QED
    BY <2>1, <2>2
<1>2. ASSUME UNCHANGED installed,
             \A p \in Procs : pc'[p] \in {"link", "pinlink"} =>
                                pc'[p] = pc[p] /\ me'[p] = me[p]
      PROVE  LinkingInv'
  BY <1>2 DEF LinkingInv
<1>3. ASSUME NEW opts \in Invocations, StartDaemon(opts) \/ StartInstaller(opts)
      PROVE  LinkingInv'
  BY <1>0, <1>2, <1>3, StartFacts DEF StepsTo, StartDaemon, StartInstaller
<1>4. CASE Sigterm
  BY <1>0, <1>2, <1>4 DEF Sigterm, BeginClean, Goto, Move, ProcType
<1>5. ASSUME NEW p \in Procs, Kill(p) PROVE LinkingInv'
  BY <1>0, <1>2, <1>5 DEF Kill, Goto, Move, ProcType, historyVars
<1>6. CASE UNCHANGED lifeVars
  BY <1>2, <1>6 DEF lifeVars, historyVars
<1> QED
  BY <1>1, <1>3, <1>4, <1>5, <1>6, StepCases

\* The link that an undisturbed install is about to pin is the only one there.
LEMMA OneLink ==
  ASSUME TypeInv, LinkInv, OverlapInv, ProgressInv, NEW p \in Procs,
         ~disturbed[p], pc[p] = "pinlink"
  PROVE  /\ pins[<<me[p].cg, hook(p)>>] = None
         /\ \A l \in OwnLink(p) : l[3] = progs[hook(p)]
<1> DEFINE c == me[p].cg
           h == hook(p)
<1>0. /\ c \in Cgs /\ h \in Hooks /\ FileType /\ ProcType
      /\ me[p].k \in 1 .. Len(HookSeq)
  BY LocalFacts DEF TypeInv
<1>1. /\ Progress(p) /\ progs[h] # None /\ <<c, h, progs[h]>> \in attached
      /\ Linked(p)
  BY DEF ProgressInv, Progress
<1>2. pins[<<c, h>>] = None
  <2>1. ~(me[p].k < me[p].k)
    BY <1>0
  <2>2. Unpinned(p, me[p].k)
    BY <1>0, <1>1, <2>1 DEF Linked
  <2> QED
    BY <2>2 DEF Unpinned, hook
<1>3. progs[h] \in Instances
  BY <1>0, <1>1 DEF FileType
<1>4. Loose(c, h, progs[h])
  BY <1>1, <1>2 DEF Loose
<1>5. \E q \in Procs : ~Owns(q, c, h)
  <2>1. PICK q \in Procs : q # p
    BY DEF Procs
  <2>2. pc[q] \in Resting
    BY <2>1, Alone DEF Resting, Ended
  <2> QED
    BY <2>2 DEF Owns, Resting, Ended
<1>6. ASSUME NEW l \in OwnLink(p) PROVE l[3] = progs[h]
  <2>1. /\ l = <<c, h, l[3]>> /\ l \in attached /\ l[3] \in Instances
        /\ pins[<<l[1], l[2]>>] # l[3]
    BY <1>0, <1>6 DEF OwnLink, FileType
  <2>2. Loose(c, h, l[3])
    BY <2>1 DEF Loose
  <2>3. LinkAt(c, h)
    BY <1>0 DEF LinkInv
  <2> QED
    BY <1>3, <1>4, <1>5, <2>1, <2>2, <2>3 DEF LinkAt
<1> QED
  BY <1>2, <1>6

\* The hooks that a process wants follow from its options.
LEMMA SameWanted ==
  ASSUME NEW p \in Procs, SameOptions(p)
  PROVE  WantedHooks(p)' = WantedHooks(p)
BY DEF SameOptions, WantedHooks

\* A step of an undisturbed install.
LEMMA ProgressOwn ==
  ASSUME TypeInv, LinkInv, OverlapInv, ProgressInv, NEW p \in Procs, Acts(p),
         ~disturbed[p]
  PROVE  Progress(p)'
<1>0. /\ ProcType /\ FileType /\ me[p].cg \in Cgs /\ hook(p) \in Hooks
      /\ me[p].k \in 1 .. Len(HookSeq) /\ Len(HookSeq) \in Nat
      /\ \A m \in 1 .. Len(HookSeq) : HookSeq[m] \in Hooks
  BY LocalFacts, HookFacts DEF TypeInv
<1>1. /\ "unload" \in Labels \ Resting /\ "link" \in Labels \ Resting
      /\ "unlink" \in Labels \ Resting
      /\ "pinlink" \in Labels \ Resting /\ {"failed", "refused"} \subseteq Labels
      /\ Finished(p) \in Labels
      /\ Finished(p) \notin {"unload", "unlink", "link", "pinlink"}
  BY DEF Labels, Resting, Ended, InstallLabels, DaemonLabels, Finished
<1>2. ASSUME pc'[p] \notin {"unload", "unlink", "link", "pinlink"}
      PROVE  Progress(p)'
  BY <1>2 DEF Progress
<1>3. CASE OpenCgroup(p)
  <2>1. CASE pc'[p] = "unload"
    <3>1. me'[p] = me[p]
      BY <1>0, <1>1, <1>3, <2>1, GotoFacts
      DEF OpenCgroup, BeginClean, Goto, Move, ProcType, StepsTo
    <3>2. me'[p].k = 1
      BY <1>3, <3>1 DEF OpenCgroup, ProgressInv
    <3> QED
      BY <2>1, <3>2 DEF Progress
  <2>2. CASE pc'[p] # "unload"
    <3>1. pc'[p] \in {"exit", "refused"}
      BY <1>0, <1>3, <2>2 DEF OpenCgroup, BeginClean, Goto, Move, ProcType
    <3> QED
      BY <1>2, <3>1
  <2> QED
    BY <2>1, <2>2
<1>4a. CASE Unload(p) /\ pc[p] = "unload"
  <2>1. pc'[p] = "unlink" /\ me'[p] = me[p]
    BY <1>0, <1>1, <1>4a, GotoFacts DEF Unload, StepsTo
  <2>2. \A e \in Cgs \X Hooks : pins[e] = None => pins'[e] = None
    BY <1>0, <1>4a, UnloadFacts DEF Removes, RemoveLink, FileType
  <2>3. \A m \in 1 .. me[p].k - 1 : pins[<<me[p].cg, HookSeq[m]>>] = None
    BY <1>4a DEF ProgressInv, Progress, Unpinned
  <2>4. \A m \in 1 .. me[p].k - 1 : pins'[<<me[p].cg, HookSeq[m]>>] = None
    BY <1>0, <2>2, <2>3
  <2> QED
    BY <2>1, <2>4 DEF Progress, Unpinned
<1>4. CASE Unload(p) /\ pc[p] = "unlink"
  <2>1. pins' = [pins EXCEPT ![<<me[p].cg, hook(p)>>] = None]
    BY <1>4, UnloadFacts DEF RemoveLink
  <2>2. \A m \in 1 .. me[p].k : pins'[<<me[p].cg, HookSeq[m]>>] = None
    <3>1. \A m \in 1 .. me[p].k - 1 : pins[<<me[p].cg, HookSeq[m]>>] = None
      BY <1>4 DEF Unload, ProgressInv, Progress, Unpinned
    <3> QED
      BY <1>0, <2>1, <3>1 DEF FileType, hook
  <2>3. \/ /\ LastHook(p) /\ pc'[p] = "link"
           /\ me'[p].cg = me[p].cg /\ me'[p].k = 1
        \/ /\ pc'[p] = "unload" /\ me'[p].cg = me[p].cg
           /\ me'[p].k = me[p].k + 1
    BY <1>0, <1>1, <1>4, AdvanceFacts DEF Unload, StepsTo, SameOptions
  <2>4. CASE /\ LastHook(p) /\ pc'[p] = "link"
             /\ me'[p].cg = me[p].cg /\ me'[p].k = 1
    <3>1. Linked(p)'
      BY <1>0, <2>2, <2>4 DEF Linked, Unpinned, LastHook
    <3> QED
      BY <2>4, <3>1 DEF Progress
  <2>5. CASE /\ pc'[p] = "unload" /\ me'[p].cg = me[p].cg
             /\ me'[p].k = me[p].k + 1
    BY <1>0, <2>2, <2>5 DEF Progress, Unpinned
  <2> QED
    BY <2>3, <2>4, <2>5
<1>5. CASE CreateLink(p)
  <2>0. Linked(p) /\ UNCHANGED <<progs, pins>> /\ pc[p] = "link"
    BY <1>5 DEF CreateLink, ProgressInv, Progress
  <2>1. CASE hook(p) \notin WantedHooks(p) /\ Advance(p, "link", Finished(p))
    <3>1. CASE pc'[p] = Finished(p)
      BY <1>1, <1>2, <3>1
    <3>2. CASE pc'[p] # Finished(p)
      <4>1. pc'[p] = "link" /\ SameOptions(p) /\ me'[p].k = me[p].k + 1
        BY <1>0, <1>1, <2>1, <3>2, AdvanceFacts DEF StepsTo
      <4>2. WantedHooks(p)' = WantedHooks(p) /\ me'[p].cg = me[p].cg
        BY <4>1, SameWanted DEF SameOptions
      <4>3. ASSUME NEW m \in 1 .. Len(HookSeq)
            PROVE  m < me'[p].k /\ HookSeq[m] \in WantedHooks(p)
                     <=> m < me[p].k /\ HookSeq[m] \in WantedHooks(p)
        BY <1>0, <2>1, <4>1, <4>3 DEF hook
      <4>4. Linked(p)'
        BY <2>0, <4>2, <4>3 DEF Linked, PinnedAt, Unpinned
      <4> QED
        BY <4>1, <4>4 DEF Progress
    <3> QED
      BY <3>1, <3>2
  <2>2. CASE /\ hook(p) \in WantedHooks(p) /\ progs[hook(p)] # None
             /\ attached' = attached \cup {<<me[p].cg, hook(p), progs[hook(p)]>>}
             /\ Goto(p, "pinlink")
    <3>1. pc'[p] = "pinlink" /\ me'[p] = me[p]
      BY <1>0, <1>1, <2>2, GotoFacts DEF StepsTo
    <3>2. WantedHooks(p)' = WantedHooks(p) /\ hook(p)' = hook(p)
      BY <3>1 DEF WantedHooks, hook
    <3>3. Linked(p)'
      BY <2>0, <3>1, <3>2 DEF Linked, PinnedAt, Unpinned
    <3> QED
      BY <2>0, <2>2, <3>1, <3>2, <3>3 DEF Progress
  <2>3. CASE Goto(p, "failed") \/ Goto(p, "refused")
    BY <1>0, <1>1, <1>2, <2>3, GotoFacts DEF StepsTo
  <2> QED
    BY <1>5, <2>1, <2>2, <2>3 DEF CreateLink
<1>6. CASE PinLink(p)
  <2>0. Linked(p) /\ UNCHANGED progs /\ pc[p] = "pinlink"
    BY <1>6 DEF PinLink, ProgressInv, Progress
  <2>1. CASE Goto(p, "failed") \/ Goto(p, "refused")
    BY <1>0, <1>1, <1>2, <2>1, GotoFacts DEF StepsTo
  <2>2. CASE /\ Advance(p, "link", Finished(p))
             /\ \E l \in OwnLink(p) :
                  pins' = [pins EXCEPT ![<<me[p].cg, hook(p)>>] = l[3]]
    <3>1. CASE pc'[p] = Finished(p)
      BY <1>1, <1>2, <3>1
    <3>2. CASE pc'[p] # Finished(p)
      <4>1. pc'[p] = "link" /\ SameOptions(p) /\ me'[p].k = me[p].k + 1
        BY <1>0, <1>1, <2>2, <3>2, AdvanceFacts DEF StepsTo
      <4>2. WantedHooks(p)' = WantedHooks(p) /\ me'[p].cg = me[p].cg
        BY <4>1, SameWanted DEF SameOptions
      <4>3. pins' = [pins EXCEPT ![<<me[p].cg, hook(p)>>] = progs[hook(p)]]
        BY <2>0, <2>2, OneLink
      <4>4. hook(p) \in WantedHooks(p) /\ progs[hook(p)] # None
        BY <2>0 DEF ProgressInv, Progress
      <4>5. ASSUME NEW m \in 1 .. Len(HookSeq)
            PROVE  IF m < me'[p].k /\ HookSeq[m] \in WantedHooks(p)
                     THEN PinnedAt(p, m)' ELSE Unpinned(p, m)'
        <5>1. CASE m = me[p].k
          <6>1. HookSeq[m] = hook(p)
            BY <5>1 DEF hook
          <6>2. PinnedAt(p, m)'
            BY <1>0, <2>0, <4>2, <4>3, <4>4, <6>1 DEF PinnedAt, FileType
          <6> QED
            BY <1>0, <4>1, <4>4, <5>1, <6>1, <6>2
        <5>2. CASE m # me[p].k
          <6>1. HookSeq[m] # hook(p) /\ HookSeq[m] \in Hooks
            BY <1>0, <5>2, HookAssumption DEF hook
          <6>2. pins'[<<me[p].cg, HookSeq[m]>>] = pins[<<me[p].cg, HookSeq[m]>>]
            BY <1>0, <4>3, <6>1 DEF FileType
          <6>3. m < me'[p].k <=> m < me[p].k
            BY <1>0, <4>1, <5>2
          <6>4. /\ PinnedAt(p, m)' <=> PinnedAt(p, m)
                /\ Unpinned(p, m)' <=> Unpinned(p, m)
            BY <2>0, <4>2, <6>2 DEF PinnedAt, Unpinned
          <6> QED
            BY <2>0, <6>3, <6>4 DEF Linked
        <5> QED
          BY <5>1, <5>2
      <4>6. Linked(p)'
        BY <4>2, <4>5 DEF Linked
      <4> QED
        BY <4>1, <4>6 DEF Progress
    <3> QED
      BY <3>1, <3>2
  <2> QED
    BY <1>6, <2>1, <2>2 DEF PinLink
<1>7. CASE ~Install(p)
  <2>1. pc'[p] \notin {"unload", "unlink", "link", "pinlink"}
    BY <1>0, <1>7
    DEF Acts, StatDir, Mkdir, PinProgram, AfterPins, CleanPinDir, RemoveEntry,
        Rmdir, BeginClean, Goto, Move, Advance, ProcType
  <2> QED
    BY <1>2, <2>1
<1> QED
  BY <1>3, <1>4a, <1>4, <1>5, <1>6, <1>7 DEF Install, Unload

\* Every step keeps the progress of undisturbed installs.
LEMMA ProgressStep ==
  ASSUME TypeInv, LinkInv, OverlapInv, ProgressInv, [LifeNext]_lifeVars
  PROVE  ProgressInv'
<1>0. /\ Procs = {"daemon", "installer"} /\ ProcType /\ HistoryType /\ FileType
      /\ "daemon" \in Procs /\ "installer" \in Procs
  BY DEF Procs, TypeInv
<1>1. ASSUME NEW p \in Procs, pc'[p] = pc[p], me'[p] = me[p],
             UNCHANGED <<progs, pins>>,
             pc[p] = "pinlink" /\ ~disturbed'[p] => UNCHANGED attached,
             ~disturbed'[p] => ~disturbed[p]
      PROVE  /\ pc'[p] = "open" => me'[p].k = 1
             /\ ~disturbed'[p] => Progress(p)'
  <2>1. WantedHooks(p)' = WantedHooks(p) /\ hook(p)' = hook(p)
    BY <1>1 DEF WantedHooks, hook
  <2>2. Linked(p)' <=> Linked(p)
    BY <1>1, <2>1 DEF Linked, PinnedAt, Unpinned
  <2>3. \A m \in 1 .. me[p].k - 1 : Unpinned(p, m)' <=> Unpinned(p, m)
    BY <1>1 DEF Unpinned
  <2> QED
    BY <1>1, <2>1, <2>2, <2>3 DEF ProgressInv, Progress
<1>2. ASSUME NEW p \in Procs, pc'[p] \notin InstallLabels
      PROVE  /\ pc'[p] = "open" => me'[p].k = 1
             /\ ~disturbed'[p] => Progress(p)'
  BY <1>2 DEF Progress, InstallLabels
<1>3. ASSUME NEW q \in Procs, Acts(q) PROVE ProgressInv'
  <2> SUFFICES ASSUME NEW p \in Procs
               PROVE  /\ pc'[p] = "open" => me'[p].k = 1
                      /\ ~disturbed'[p] => Progress(p)'
    BY DEF ProgressInv
  <2>1. CASE p = q
    <3>1. disturbed' = disturbed
      BY <1>3, ActFacts
    <3>2. ~disturbed'[p] => Progress(p)'
      BY <1>3, <2>1, <3>1, ProgressOwn
    <3>3. ASSUME pc'[p] = "open" PROVE me'[p].k = 1
      <4>1. CASE p = "daemon" /\ PinProgram
        <5>1. p = "daemon"
          BY <4>1
        <5>2. /\ AfterPins \in Labels /\ "pin" \in Labels \ Resting
              /\ {"failed", "refused"} \subseteq Labels /\ AfterPins \in {"open", "serve"}
          BY DEF AfterPins, Labels, Resting, Ended, InstallLabels, DaemonLabels
        <5>3. ~Goto("daemon", "failed") /\ ~Goto("daemon", "refused")
          BY <1>0, <3>3, <5>1, <5>2, GotoFacts DEF StepsTo
        <5>4. Advance("daemon", "pin", AfterPins)
          BY <4>1, <5>3 DEF PinProgram
        <5>5. LastHook(p) /\ AfterPins = "open"
          BY <1>0, <3>3, <5>1, <5>2, <5>4, AdvanceFacts DEF StepsTo
        <5> QED
          BY <1>0, <5>1, <5>2, <5>4, <5>5, AdvanceFacts DEF Resting, Ended
      <4>2. CASE ~(p = "daemon" /\ PinProgram)
        BY <1>0, <1>3, <2>1, <3>3, <4>2
        DEF Acts, StatDir, Mkdir, CleanPinDir, RemoveEntry, Rmdir, Install,
            OpenCgroup, Unload, CreateLink, PinLink, Finished, BeginClean, Goto,
            Move, Advance, ProcType, ProgressInv
      <4> QED
        BY <4>1, <4>2
    <3> QED
      BY <3>2, <3>3
  <2>2. CASE p # q
    <3>1. /\ pc'[p] = pc[p] /\ me'[p] = me[p] /\ disturbed' = disturbed
          /\ pc[q] \notin Resting
      BY <1>3, <2>2, ActFacts
    <3>2. CASE pc[p] \in Resting
      BY <1>2, <3>1, <3>2 DEF Resting, Ended, InstallLabels
    <3>3. CASE pc[p] \notin Resting
      <4>1. disturbed[p]
        BY <2>2, <3>1, <3>3, Alone
      <4> QED
        BY <3>1, <4>1 DEF ProgressInv
    <3> QED
      BY <3>2, <3>3
  <2> QED
    BY <2>1, <2>2
<1>4. ASSUME NEW opts \in Invocations, StartDaemon(opts) PROVE ProgressInv'
  <2>1. /\ pc'["daemon"] = "stat" /\ pc'["installer"] = pc["installer"]
        /\ me'["installer"] = me["installer"]
        /\ UNCHANGED fsVars /\ disturbed' = [p \in Procs |-> Running("installer")]
    BY <1>0, <1>4, StartFacts DEF StepsTo, StartDaemon
  <2>2. CASE ~Running("installer")
    BY <1>0, <1>2, <2>1, <2>2 DEF ProgressInv, Running, Ended, InstallLabels
  <2>3. CASE Running("installer")
    BY <1>0, <2>1, <2>3 DEF ProgressInv
  <2> QED
    BY <2>2, <2>3
<1>5. ASSUME NEW opts \in Invocations, StartInstaller(opts) PROVE ProgressInv'
  <2>1. /\ pc'["installer"] = "open" /\ pc'["daemon"] = pc["daemon"]
        /\ me'["daemon"] = me["daemon"] /\ me'["installer"] = opts
        /\ UNCHANGED fsVars
        /\ disturbed["daemon"] => disturbed'["daemon"]
    BY <1>0, <1>5, StartFacts DEF StepsTo, StartInstaller, HistoryType
  <2>2. opts.k = 1
    BY DEF Invocations
  <2>3. Progress("installer")'
    BY <2>1 DEF Progress
  <2> QED
    BY <1>0, <1>1, <2>1, <2>2, <2>3 DEF ProgressInv, fsVars
<1>6. CASE Sigterm
  <2>1. /\ pc'["daemon"] = "exit" /\ pc'["installer"] = pc["installer"]
        /\ me'["installer"] = me["installer"] /\ UNCHANGED fsVars
        /\ disturbed' = [p \in Procs |-> disturbed[p] \/ Running("installer")]
    BY <1>0, <1>6 DEF Sigterm, BeginClean, Goto, Move, ProcType
  <2>2. CASE ~Running("installer")
    BY <1>0, <1>2, <2>1, <2>2 DEF ProgressInv, Running, Ended, InstallLabels
  <2>3. CASE Running("installer")
    BY <1>0, <2>1, <2>3 DEF ProgressInv
  <2> QED
    BY <2>2, <2>3
<1>7. ASSUME NEW q \in Procs, Kill(q) PROVE ProgressInv'
  <2> SUFFICES ASSUME NEW p \in Procs
               PROVE  /\ pc'[p] = "open" => me'[p].k = 1
                      /\ ~disturbed'[p] => Progress(p)'
    BY DEF ProgressInv
  <2>1. /\ pc'[q] = "killed" /\ UNCHANGED <<progs, pins, disturbed>>
        /\ p # q => pc'[p] = pc[p] /\ me'[p] = me[p]
    BY <1>0, <1>7 DEF Kill, Goto, Move, ProcType, historyVars
  <2>2. CASE p = q
    BY <1>2, <2>1, <2>2 DEF InstallLabels
  <2>3. CASE p # q
    <3>1. ASSUME pc[p] = "pinlink", ~disturbed[p] PROVE attached' = attached
      <4>1. pc[q] \in Resting
        BY <2>3, <3>1, Alone DEF Resting, Ended
      <4>2. OwnLink(q) = {}
        BY <4>1 DEF OwnLink, Resting, Ended
      <4> QED
        BY <1>7, <4>2 DEF Kill
    <3> QED
      BY <1>1, <2>1, <2>3, <3>1
  <2> QED
    BY <2>2, <2>3
<1>8. CASE UNCHANGED lifeVars
  BY <1>1, <1>8 DEF lifeVars, fsVars, historyVars, ProgressInv
<1> QED
  BY <1>3, <1>4, <1>5, <1>6, <1>7, <1>8, StepCases

\* An undisturbed install that is through with its last hook has put in place
\* what was asked for, and nothing else.
LEMMA InstallComplete ==
  ASSUME TypeInv, PinInv, LinkInv, OverlapInv, ProgressInv, NEW p \in Procs,
         ~disturbed[p], LastHook(p),
         \/ pc[p] = "link" /\ hook(p) \notin WantedHooks(p)
         \/ pc[p] = "pinlink",
         WantedHooks(p) # {}
  PROVE  \E i \in Instances :
           HooksOf(me[p].cg) = {<<me[p].cg, h, i>> : h \in WantedHooks(p)}
<1> DEFINE c == me[p].cg
<1>0. /\ c \in Cgs /\ hook(p) \in Hooks /\ FileType /\ ProcType
      /\ WantedHooks(p) \subseteq Hooks /\ Linked(p)
      /\ me[p].k = Len(HookSeq) /\ Len(HookSeq) \in Nat \ {0}
  BY LocalFacts, HookFacts DEF TypeInv, ProgressInv, Progress, LastHook
<1>1. ASSUME NEW q \in Procs, q # p PROVE pc[q] # "pinlink"
  BY <1>1, Alone DEF Resting, Ended
<1>2. \A g \in Hooks : \A q \in Procs :
        Owns(q, c, g) => q = p /\ pc[p] = "pinlink" /\ g = hook(p)
  BY <1>1 DEF Owns
<1>3. pc[p] = "pinlink" => /\ hook(p) \in WantedHooks(p) /\ progs[hook(p)] # None
                           /\ <<c, hook(p), progs[hook(p)]>> \in attached
  BY DEF ProgressInv, Progress
<1>4. \E q \in Procs : q # p
  BY DEF Procs
<1>5. ASSUME NEW g \in Hooks, NEW j \in Instances
      PROVE  <<c, g, j>> \in attached
               <=> g \in WantedHooks(p) /\ j = progs[g]
  <2>0. LinkAt(c, g)
    BY <1>0 DEF LinkInv
  <2>1. PICK m \in 1 .. Len(HookSeq) : HookSeq[m] = g
    BY HookFacts
  <2>2. CASE m < me[p].k /\ g \in WantedHooks(p)
    <3>1. pins[<<c, g>>] = progs[g] /\ progs[g] # None
      BY <1>0, <2>1, <2>2 DEF Linked, PinnedAt
    <3>2. g # hook(p)
      BY <1>0, <2>1, <2>2, HookAssumption DEF hook
    <3>3. ~Loose(c, g, j)
      BY <1>2, <2>0, <3>2 DEF LinkAt
    <3>4. progs[g] \in Instances
      BY <1>0, <3>1 DEF FileType
    <3> QED
      BY <2>0, <2>2, <3>1, <3>3, <3>4 DEF LinkAt, Loose
  <2>3. CASE ~(m < me[p].k /\ g \in WantedHooks(p))
    <3>1. pins[<<c, g>>] = None
      BY <1>0, <2>1, <2>3 DEF Linked, Unpinned
    <3>2. <<c, g, j>> \in attached <=> Loose(c, g, j)
      BY <3>1 DEF Loose, Instances, None
    <3>3. CASE g \notin WantedHooks(p)
      <4>1. ~Loose(c, g, j)
        BY <1>2, <1>3, <2>0, <3>3 DEF LinkAt
      <4> QED
        BY <3>2, <3>3, <4>1
    <3>4. CASE g \in WantedHooks(p)
      <4>1. m = me[p].k
        BY <1>0, <2>3, <3>4
      <4>2. g = hook(p) /\ pc[p] = "pinlink"
        BY <2>1, <3>4, <4>1 DEF hook
      <4>3. progs[g] \in Instances /\ <<c, g, progs[g]>> \in attached
        BY <1>0, <1>3, <4>2 DEF FileType
      <4>4. Loose(c, g, progs[g])
        BY <3>1, <4>3 DEF Loose, Instances, None
      <4>5. Loose(c, g, j) => j = progs[g]
        BY <1>2, <1>4, <2>0, <4>3, <4>4 DEF LinkAt
      <4> QED
        BY <3>2, <3>4, <4>4, <4>5
    <3> QED
      BY <3>3, <3>4
  <2> QED
    BY <2>2, <2>3
<1>6. ASSUME NEW g \in WantedHooks(p) PROVE progs[g] \in Instances
  <2>1. PICK m \in 1 .. Len(HookSeq) : HookSeq[m] = g
    BY <1>0, HookFacts
  <2>2. CASE m < me[p].k
    BY <1>0, <2>1, <2>2 DEF Linked, PinnedAt, FileType
  <2>3. CASE ~(m < me[p].k)
    <3>1. m = me[p].k /\ g = hook(p)
      BY <1>0, <2>1, <2>3 DEF hook
    <3> QED
      BY <1>0, <1>3, <3>1 DEF FileType
  <2> QED
    BY <2>2, <2>3
<1>7. PICK g0 \in WantedHooks(p) : TRUE
  OBVIOUS
<1>8. \A g \in WantedHooks(p) : progs[g] = progs[g0]
  BY <1>0, <1>6 DEF PinInv, Instances, None
<1>9. ASSUME NEW l \in attached
      PROVE  l[1] = c <=> \E g \in WantedHooks(p) : l = <<c, g, progs[g0]>>
  <2>1. PICK b \in Cgs, g \in Hooks, j \in Instances : l = <<b, g, j>>
    BY <1>0 DEF FileType
  <2> QED
    BY <1>5, <1>8, <1>9, <2>1
<1>10. \A g \in WantedHooks(p) : <<c, g, progs[g0]>> \in attached
  BY <1>0, <1>5, <1>6, <1>8
<1>11. HooksOf(c) = {<<c, g, progs[g0]>> : g \in WantedHooks(p)}
  BY <1>9, <1>10 DEF HooksOf
<1> QED
  BY <1>6, <1>7, <1>11

\* The hooks of an installed cgroup change only with an unload of it.
LEMMA HooksKept ==
  ASSUME TypeInv, LinkingInv, NEW p \in Procs, Acts(p), NEW c \in Cgs,
         installed'[c] # NotInstalled, installed'[c] = installed[c]
  PROVE  HooksOf(c)' = HooksOf(c)
<1>0. ProcType /\ HistoryType /\ FileType
  BY DEF TypeInv
<1>1. CASE UNCHANGED attached
  BY <1>1 DEF HooksOf
<1>2. ASSUME NEW b \in Cgs, NEW h \in Hooks, Removes(b, h)
      PROVE  HooksOf(c)' = HooksOf(c)
  <2>1. b # c
    BY <1>0, <1>2 DEF Removes, RemoveLink, HistoryType
  <2> QED
    BY <1>2, <2>1 DEF Removes, RemoveLink, HooksOf
<1>3. CASE RemoveEntry(p)
  BY <1>1, <1>2, <1>3, EntryEffect
<1>4. CASE Unload(p)
  BY <1>0, <1>2, <1>4, LocalFacts, UnloadFacts
<1>5. CASE CreateLink(p) \/ PinLink(p)
  <2>1. me[p].cg # c
    BY <1>5 DEF CreateLink, PinLink, LinkingInv
  <2>2. \/ attached' = attached
        \/ attached' = attached \cup {<<me[p].cg, hook(p), progs[hook(p)]>>}
        \/ attached' = attached \ OwnLink(p)
    BY <1>5 DEF CreateLink, PinLink
  <2>3. \A l \in OwnLink(p) : l[1] = me[p].cg
    BY DEF OwnLink
  <2> QED
    BY <2>1, <2>2, <2>3 DEF HooksOf
<1>6. CASE StatDir \/ Mkdir \/ PinProgram \/ OpenCgroup(p) \/ Rmdir(p)
  BY <1>1, <1>6 DEF StatDir, Mkdir, PinProgram, OpenCgroup, Rmdir, fsVars
<1> QED
  BY <1>3, <1>4, <1>5, <1>6 DEF Acts, CleanPinDir, Install

\* Every step keeps complete installs complete.
LEMMA CompleteStep ==
  ASSUME LifeInv, [LifeNext]_lifeVars
  PROVE  CompleteInstall'
<1>0. /\ TypeInv /\ PinInv /\ LinkInv /\ OverlapInv /\ LinkingInv
      /\ ProgressInv /\ CompleteInstall /\ ProcType
  BY DEF LifeInv, TypeInv
<1>1. ASSUME NEW p \in Procs, Acts(p) PROVE CompleteInstall'
  <2> SUFFICES ASSUME NEW c \in Cgs, installed'[c] # NotInstalled
               PROVE  \E i \in Instances :
                        HooksOf(c)' = {<<c, h, i>> : h \in installed'[c]}
    BY DEF CompleteInstall
  <2>1. CASE installed'[c] = installed[c]
    BY <1>0, <1>1, <2>1, HooksKept DEF CompleteInstall
  <2>2. CASE /\ Completes(p) /\ c = me[p].cg /\ installed'[c] = WantedHooks(p)
             /\ UNCHANGED attached
    <3>1. ~disturbed[p] /\ LastHook(p) /\ WantedHooks(p) # {}
      BY <2>2 DEF Completes, NotInstalled
    <3>2. CASE \/ pc[p] = "link" /\ hook(p) \notin WantedHooks(p)
               \/ pc[p] = "pinlink"
      BY <1>0, <2>2, <3>1, <3>2, InstallComplete DEF HooksOf
    <3>3. CASE ~(\/ pc[p] = "link" /\ hook(p) \notin WantedHooks(p)
                 \/ pc[p] = "pinlink")
      <4>1. installed'[c] \in {NotInstalled, installed[c]}
        <5>0. ASSUME NEW b \in Cgs, NEW h \in Hooks, Removes(b, h)
              PROVE  installed'[c] \in {NotInstalled, installed[c]}
          BY <1>0, <5>0 DEF Removes, RemoveLink, TypeInv, HistoryType
        <5>1. CASE RemoveEntry(p) \/ Unload(p)
          BY <1>0, <5>0, <5>1, EntryEffect, LocalFacts, UnloadFacts
        <5>2. CASE ~RemoveEntry(p) /\ ~Unload(p)
          BY <1>1, <3>3, <5>2
          DEF Acts, StatDir, Mkdir, PinProgram, CleanPinDir, Rmdir, Install,
              OpenCgroup, CreateLink, PinLink, historyVars
        <5> QED
          BY <5>1, <5>2
      <4> QED
        BY <2>1, <4>1
    <3> QED
      BY <3>2, <3>3
  <2> QED
    BY <1>0, <1>1, <2>1, <2>2, InstalledEffect
<1>2. ASSUME UNCHANGED <<attached, installed>> PROVE CompleteInstall'
  BY <1>0, <1>2 DEF CompleteInstall, HooksOf
<1>3. ASSUME NEW opts \in Invocations, StartDaemon(opts) \/ StartInstaller(opts)
      PROVE  CompleteInstall'
  BY <1>2, <1>3 DEF StartDaemon, StartInstaller, fsVars
<1>4. CASE Sigterm
  BY <1>2, <1>4 DEF Sigterm, fsVars
<1>5. ASSUME NEW p \in Procs, Kill(p) PROVE CompleteInstall'
  <2> SUFFICES ASSUME NEW c \in Cgs, installed[c] # NotInstalled
               PROVE  HooksOf(c)' = HooksOf(c)
    BY <1>0, <1>5 DEF CompleteInstall, Kill, historyVars
  <2>1. pc[p] = "pinlink" => me[p].cg # c
    BY <1>0 DEF LinkingInv
  <2>2. \A l \in OwnLink(p) : l[1] # c
    BY <2>1 DEF OwnLink
  <2> QED
    BY <1>5, <2>2 DEF Kill, HooksOf
<1>6. CASE UNCHANGED lifeVars
  BY <1>2, <1>6 DEF lifeVars, fsVars, historyVars
<1> QED
  BY <1>1, <1>3, <1>4, <1>5, <1>6, StepCases

(***************************************************************************)
(* Theorems.                                                               *)
(***************************************************************************)
\* The initial state: nothing is pinned, nothing runs.
LEMMA LifeStart == LifeInit => LifeInv
<1> SUFFICES ASSUME LifeInit PROVE LifeInv
  OBVIOUS
<1>0. Procs = {"daemon", "installer"} /\ \A p \in Procs : pc[p] = "off"
  BY DEF LifeInit, Procs
<1>1. TypeInv
  <2>1. FileType
    BY DEF LifeInit, FileType, PinValues
  <2>2. ProcType
    BY OptionTypes DEF LifeInit, ProcType, Procs, Labels, Ended, DaemonLabels
  <2>3. HistoryType
    BY DEF LifeInit, HistoryType, NotInstalled
  <2> QED
    BY <2>1, <2>2, <2>3 DEF TypeInv
<1>2. PinInv
  BY <1>0 DEF LifeInit, PinInv, Empty
<1>3. LinkInv
  <2> SUFFICES ASSUME NEW c \in Cgs, NEW h \in Hooks PROVE LinkAt(c, h)
    BY DEF LinkInv
  <2>1. pins[<<c, h>>] = None /\ attached = {}
    BY DEF LifeInit
  <2> QED
    BY <2>1, PinFacts DEF LinkAt, Loose
<1>4. OverlapInv
  BY <1>0 DEF OverlapInv, Resting, Ended
<1>5. FreshInv
  BY <1>0 DEF FreshInv, Started, InstallLabels
<1>6. LinkingInv /\ ProgressInv
  BY <1>0 DEF LinkingInv, ProgressInv, Progress
<1>7. CompleteInstall
  BY DEF LifeInit, CompleteInstall
<1> QED
  BY <1>1, <1>2, <1>3, <1>4, <1>5, <1>6, <1>7 DEF LifeInv

\* Every step of main() in either process, every kill included, keeps LifeInv.
LEMMA LifeStep == LifeInv /\ [LifeNext]_lifeVars => LifeInv'
<1> SUFFICES ASSUME LifeInv, [LifeNext]_lifeVars PROVE LifeInv'
  OBVIOUS
<1>0. /\ TypeInv /\ PinInv /\ LinkInv /\ OverlapInv /\ FreshInv
      /\ LinkingInv /\ ProgressInv
  BY DEF LifeInv
<1>1. TypeInv' /\ PinInv' /\ LinkInv' /\ OverlapInv'
  BY <1>0, TypeStep, PinStep, LinkStep, OverlapStep
<1>2. FreshInv' /\ LinkingInv' /\ ProgressInv' /\ CompleteInstall'
  BY <1>0, FreshStep, LinkingStep, ProgressStep, CompleteStep
<1> QED
  BY <1>1, <1>2 DEF LifeInv

\* The invariant holds in every reachable state.
THEOREM LifeInvariance == LifeSpec => []LifeInv
<1>1. LifeInit => LifeInv
  BY LifeStart
<1>2. LifeInv /\ [LifeNext]_lifeVars => LifeInv'
  BY LifeStep
<1> QED
  BY <1>1, <1>2, PTL DEF LifeSpec

\* The variables of main(), the pin directory and the attached links keep their
\* types.
THEOREM LifeTypes == LifeSpec => []TypeInv
<1>1. LifeInv => TypeInv
  BY DEF LifeInv
<1> QED
  BY <1>1, LifeInvariance, PTL

\* LOAD_AND_PIN over all hooks (udpgrm.c, --install): a reported success means
\* all the hooks asked for and no other, whatever kills and overlaps came before.
THEOREM InstallsComplete == LifeSpec => []CompleteInstall
<1>1. LifeInv => CompleteInstall
  BY DEF LifeInv
<1> QED
  BY <1>1, LifeInvariance, PTL

\* A serving daemon reads the ring of every hook that is attached: what a killed
\* predecessor left was detached by --force before mkdir.
THEOREM HooksAreOwn == LifeSpec => []NoStaleHooks
<1>1. LifeInv => NoStaleHooks
  BY DEF LifeInv, FreshInv, Started, NoStaleHooks, Undisturbed
<1> QED
  BY <1>1, LifeInvariance, PTL

\* cleanup_bpf_pin_dir at the end of main() leaves neither the directory nor a
\* hook, although hooks were installed by other processes.
THEOREM ExitIsClean == LifeSpec => []ExitLeavesNothing
<1>1. LifeInv => ExitLeavesNothing
  BY DEF LifeInv, FreshInv, ExitLeavesNothing, Undisturbed
<1> QED
  BY <1>1, LifeInvariance, PTL

\* The step at which an undisturbed install fails: the pin of a link never does.
LEMMA FailureStep ==
  ASSUME LifeInv, LifeNext, pc["installer"] # "failed",
         pc'["installer"] = "failed", ~disturbed["installer"]
  PROVE  \E h \in WantedHooks("installer") : progs[h] = None
<1> DEFINE p == "installer"
<1>0. /\ TypeInv /\ ProcType /\ p \in Procs /\ "daemon" \in Procs
      /\ LinkInv /\ OverlapInv /\ ProgressInv /\ PinInv
      /\ hook(p) \in Hooks /\ me[p].cg \in Cgs
  BY LocalFacts DEF LifeInv, TypeInv, Procs
<1>1. CASE Acts(p)
  <2>1. CreateLink(p) \/ PinLink(p)
    BY <1>0, <1>1
    DEF Acts, CleanPinDir, RemoveEntry, Rmdir, Install, OpenCgroup, Unload,
        BeginClean, Goto, Move, Advance, ProcType, DaemonLabels
  <2>2. CASE CreateLink(p)
    <3>1. hook(p) \in WantedHooks(p) /\ progs[hook(p)] = None
      BY <1>0, <2>2
      DEF CreateLink, Advance, Finished, Goto, Move, ProcType
    <3> QED
      BY <3>1
  <2>3. CASE PinLink(p)
    <3>1. pc[p] = "pinlink" /\ (~dir \/ pins[<<me[p].cg, hook(p)>>] # None)
      BY <1>0, <2>3 DEF PinLink, Advance, Finished, Goto, Move, ProcType
    <3>2. progs[hook(p)] # None
      BY <1>0, <3>1 DEF ProgressInv, Progress
    <3>3. dir /\ pins[<<me[p].cg, hook(p)>>] = None
      BY <1>0, <3>1, <3>2, OneLink DEF PinInv, Empty
    <3> QED
      BY <3>1, <3>3
  <2> QED
    BY <2>1, <2>2, <2>3
<1>2. CASE Acts("daemon")
  BY <1>0, <1>2, ActFacts
<1>3. ASSUME NEW opts \in Invocations, StartDaemon(opts) \/ StartInstaller(opts)
      PROVE  FALSE
  BY <1>0, <1>3, StartFacts DEF StepsTo
<1>4. CASE Sigterm
  BY <1>0, <1>4 DEF Sigterm, BeginClean, Goto, Move, ProcType
<1>5. ASSUME NEW q \in Procs, Kill(q) PROVE FALSE
  BY <1>0, <1>5 DEF Kill, Goto, Move, ProcType
<1>6. CASE UNCHANGED lifeVars
  BY <1>6 DEF lifeVars
<1> QED
  BY <1>1, <1>2, <1>3, <1>4, <1>5, <1>6, StepCases DEF Procs

\* An undisturbed install fails only where a program pin is missing: what earlier
\* installs left, UNLOAD has taken away before bpf_obj_pin can meet it.
THEOREM InstallFailsForPrograms == LifeSpec => InstallRecovers
<1>1. LifeInv /\ [LifeNext]_lifeVars =>
        [pc["installer"] # "failed" /\ pc'["installer"] = "failed"
           /\ Undisturbed("installer")
           => \E h \in WantedHooks("installer") : progs[h] = None]_lifeVars
  BY FailureStep DEF Undisturbed
<1> QED
  BY <1>1, LifeInvariance, PTL DEF LifeSpec, InstallRecovers
=============================================================================
