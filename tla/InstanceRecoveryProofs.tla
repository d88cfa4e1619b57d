----------------------- MODULE InstanceRecoveryProofs -----------------------
(***************************************************************************)
(* That the pins give cleanup authority over every program in a hook, and  *)
(* that --start and --stop have done what they report.  These promises are *)
(* about the one process that works on the hooks; the lock, the processes  *)
(* and the hooks themselves are the subject of InstanceProofs.             *)
(***************************************************************************)
EXTENDS InstanceProofs

Attached(l, g) == <<l, g>> \in hook[HookOf[l]].progs

\* No program of ours for leaf l is in a hook.
Gone(l) == \A g \in Gens : ~Attached(l, g)

Pinned == \A l \in Leaves : \A g \in Gens : Attached(l, g) => pin[l] = g

\* The steps from the end of the attaching on.
UpSteps == {"capPin", "capAttach", "capDetach", "capUnpin", "peerPin", "peerAttach", "stopEvent"}
               \cup ServeSteps

\* How far the one process that works on the hooks has come.
ProgressOf(p) ==
    /\ proc[p].pc = "pin" => \A l \in OrdinaryLeaves \ Range(proc[p].todo) : pin[l] = proc[p].pid
    /\ proc[p].pc = "attach" => \A l \in OrdinaryLeaves : pin[l] = proc[p].pid
    /\ proc[p].pc \in {"capAttach", "capDetach"} => pin[Cap] = proc[p].pid
    /\ proc[p].pc = "capAttach" => Gone(Cap)
    /\ proc[p].pc = "capUnpin" => Gone(Cap)
    /\ proc[p].pc = "peerAttach" => pin[Peer] = proc[p].pid
    /\ proc[p].pc = "detachPins" => \A l \in Leaves \ Range(proc[p].todo) : Gone(l)
    /\ proc[p].pc = "unlinkPins" =>
          /\ \A l \in Leaves : Gone(l)
          /\ \A l \in Leaves \ Range(proc[p].todo) : pin[l] = None
    /\ proc[p].pc = "clean" \/ proc[p].then = "exit" =>
          \A l \in Leaves : Gone(l) /\ pin[l] = None
    /\ edits = 0 /\ proc[p].pc = "attach" =>
          \A l \in OrdinaryLeaves \ Range(proc[p].todo) : Attached(l, proc[p].pid)
    /\ edits = 0 /\ proc[p].pc \in UpSteps => \A l \in OrdinaryLeaves : Attached(l, proc[p].pid)

\* The rest of the promises holds while no two processes have worked at once.
Undisturbed == ~overlap => Pinned /\ \A p \in Procs : ProgressOf(p)

\* The inductive invariant.
IInv == ControlInv /\ Undisturbed
-----------------------------------------------------------------------------
(* The programs and their pins. *)

SameAttached == \A m \in Leaves, x \in Gens : Attached(m, x)' <=> Attached(m, x)
AddsOne(l, g) == \A m \in Leaves, x \in Gens : Attached(m, x)' <=> Attached(m, x) \/ (m = l /\ x = g)
TakesOne(l, g) == \A m \in Leaves, x \in Gens : Attached(m, x)' <=> Attached(m, x) /\ ~(m = l /\ x = g)

\* What a change of one hook means for the programs of all leaves.
LEMMA HookChange ==
  ASSUME Typed, NEW l \in Leaves, NEW g \in Gens, NEW at \in HookStates,
         hook' = [hook EXCEPT ![HookOf[l]] = at]
  PROVE  /\ OwnIn(at) = OwnIn(hook[HookOf[l]]) => SameAttached
         /\ OwnIn(at) = OwnIn(hook[HookOf[l]]) \cup {<<l, g>>} => AddsOne(l, g)
         /\ OwnIn(at) = OwnIn(hook[HookOf[l]]) \ {<<l, g>>} => TakesOne(l, g)
  <1>0. \A m \in Leaves : HookOf[m] \in Hooks
    BY DEF Hooks
  <1>1. ASSUME NEW m \in Leaves, NEW x \in Gens
        PROVE  /\ <<m, x>> \in Own
               /\ HookOf[m] = HookOf[l] => (Attached(m, x)' <=> <<m, x>> \in OwnIn(at))
               /\ HookOf[m] = HookOf[l] => (Attached(m, x) <=> <<m, x>> \in OwnIn(hook[HookOf[l]]))
               /\ HookOf[m] # HookOf[l] => (Attached(m, x)' <=> Attached(m, x)) /\ m # l
    BY <1>0, <1>1 DEF Typed, Attached, OwnIn, Own
  <1>2. OwnIn(at) = OwnIn(hook[HookOf[l]]) => SameAttached
    BY <1>1, Zenon DEF SameAttached
  <1>3. OwnIn(at) = OwnIn(hook[HookOf[l]]) \cup {<<l, g>>} => AddsOne(l, g)
    BY <1>1, Zenon DEF AddsOne
  <1>4. OwnIn(at) = OwnIn(hook[HookOf[l]]) \ {<<l, g>>} => TakesOne(l, g)
    BY <1>1, Zenon DEF TakesOne
  <1> QED BY <1>2, <1>3, <1>4

\* Attaching a program adds it to its hook, or changes nothing of ours there.
LEMMA AttachChange ==
  ASSUME Typed, HooksShaped, NEW p \in Procs, proc[p].pid \in Gens, NEW l \in Leaves,
         NEW o \in AttachOutcomes(p, l), Change(p, l, o)
  PROVE  /\ o.ok \in BOOLEAN
         /\ o.ok => AddsOne(l, proc[p].pid)
         /\ ~o.ok => SameAttached
         /\ UNCHANGED <<pin, edits>>
  <1>0. HookOf[l] \in Hooks /\ hook[HookOf[l]] \in HookStates /\ Shaped(hook[HookOf[l]])
    BY SMTT(30) DEF Hooks, Typed, HooksShaped
  <1>1. /\ o.ok \in BOOLEAN /\ o.at \in HookStates
        /\ ~o.ok => o.at = hook[HookOf[l]]
        /\ o.ok => OwnIn(o.at) = OwnIn(hook[HookOf[l]]) \cup {<<l, proc[p].pid>>}
    BY SMTT(30), <1>0, AttachEffect DEF AttachOutcomes
  <1> QED BY <1>1, HookChange, Zenon DEF Change, noteVars

\* Detaching a program takes it out of its hook, or changes nothing of ours there.
LEMMA DetachChange ==
  ASSUME Typed, HooksShaped, NEW p \in Procs, proc[p].pid \in Gens, NEW l \in Leaves,
         NEW o \in DetachOutcomes(p, l), Change(p, l, o)
  PROVE  /\ o.ok \in BOOLEAN
         /\ o.ok => TakesOne(l, proc[p].pid)
         /\ SameAttached \/ TakesOne(l, proc[p].pid)
         /\ UNCHANGED <<pin, edits>>
  <1>0. HookOf[l] \in Hooks /\ hook[HookOf[l]] \in HookStates /\ Shaped(hook[HookOf[l]])
    BY DEF Hooks, Typed, HooksShaped
  <1>1. /\ o.ok \in BOOLEAN /\ o.at \in HookStates
        /\ OwnIn(o.at) \in {OwnIn(hook[HookOf[l]]), OwnIn(hook[HookOf[l]]) \ {<<l, proc[p].pid>>}}
        /\ o.ok => OwnIn(o.at) = OwnIn(hook[HookOf[l]]) \ {<<l, proc[p].pid>>}
    BY SMTT(30), <1>0, DetachEffect DEF DetachOutcomes
  <1> QED BY <1>1, HookChange, Zenon DEF Change, noteVars

PinOutcomes(l) ==
    IF pin[l] = None THEN {Outcome(TRUE, hook[HookOf[l]], {})}
    ELSE DetachPinned(<<l, pin[l]>>, hook[HookOf[l]])

\* Once asterisk_cgroup_detach_pins has dealt with a leaf, none of its programs is left.
LEMMA PinnedChange ==
  ASSUME Typed, HooksShaped, Pinned, NEW p \in Procs, NEW l \in Leaves,
         NEW o \in PinOutcomes(l), Change(p, l, o)
  PROVE  /\ o.ok \in BOOLEAN
         /\ \A m \in Leaves, x \in Gens : Attached(m, x)' => Attached(m, x)
         /\ o.ok => Gone(l)'
         /\ UNCHANGED <<pin, edits>>
  <1>0. HookOf[l] \in Hooks /\ hook[HookOf[l]] \in HookStates /\ Shaped(hook[HookOf[l]])
    BY Zenon DEF Hooks, Typed, HooksShaped
  <1>1. CASE pin[l] = None
    <2>1. o.ok = TRUE /\ o.at = hook[HookOf[l]]
      BY <1>1 DEF Outcome, PinOutcomes
    <2>2. UNCHANGED hook
      BY <2>1 DEF Change, Typed
    <2>3. Gone(l)
      BY <1>1, CatalogAssumption DEF Pinned, Gone
    <2> QED BY <2>1, <2>2, <2>3, Zenon DEF Change, noteVars, Attached, Gone
  <1>2. CASE pin[l] # None
    <2>1. pin[l] \in Gens /\ <<l, pin[l]>> \in Own
      BY <1>2 DEF Typed, Maybe, Own
    <2>2. o \in DetachPinned(<<l, pin[l]>>, hook[HookOf[l]])
      BY <1>2, Zenon DEF PinOutcomes
    <2>3. /\ o.ok \in BOOLEAN /\ o.at \in HookStates
          /\ OwnIn(o.at) \in {OwnIn(hook[HookOf[l]]), OwnIn(hook[HookOf[l]]) \ {<<l, pin[l]>>}}
          /\ o.ok => OwnIn(o.at) = OwnIn(hook[HookOf[l]]) \ {<<l, pin[l]>>}
      BY <1>0, <2>1, <2>2, DetachPinnedEffect, Zenon
    <2>4. (SameAttached \/ TakesOne(l, pin[l])) /\ (o.ok => TakesOne(l, pin[l]))
      BY <2>1, <2>3, HookChange, Zenon DEF Change
    <2>5. TakesOne(l, pin[l]) => Gone(l)'
      BY DEF TakesOne, Pinned, Gone
    <2> QED BY <2>3, <2>4, <2>5, Zenon DEF SameAttached, TakesOne, Change, noteVars
  <1> QED BY <1>1, <1>2


\* The steps ProgressOf says something about.
ProgressSteps == {"pin", "attach", "clean"} \cup ReconcileSteps \cup UpSteps

\* A process at another step has no progress to keep.
LEMMA NoProgress ==
  ASSUME NEW p \in Procs, Consistent(proc'[p]),
         proc'[p].pc \notin ProgressSteps \/ ~Working(p)'
  PROVE  ProgressOf(p)'
  <1> USE DEF ProgressSteps, ReconcileSteps, UpSteps, ServeSteps, StartSteps
  <1>1. proc'[p].pc \notin ProgressSteps
    BY DEF Working
  <1>2. proc'[p].then # "exit"
    BY <1>1 DEF Consistent
  <1> QED BY <1>1, <1>2, Zenon DEF ProgressOf

\* A process that has just called asterisk_cgroup_reconcile
LEMMA ReconcileProgress ==
  ASSUME Typed, NEW p \in Procs, NEW then, Reconcile(p, then),
         then = "exit" => \A l \in Leaves : Gone(l)' /\ pin'[l] = None
  PROVE  ProgressOf(p)'
  <1>1. proc'[p].pc = "detachPins" /\ proc'[p].todo = Catalog /\ proc'[p].then = then
    BY DEF Typed, Reconcile, ProcRecords
  <1> QED BY <1>1, Zenon DEF ProgressOf, Leaves, UpSteps, ServeSteps

\* and one that comes back from it
LEMMA ReturnProgress ==
  ASSUME Typed, Control, NEW p \in Procs, Moved(p), proc[p].pc \in ReconcileSteps, NEW ok \in BOOLEAN,
         Return(p, ok),
         proc[p].then = "clean" /\ ok => \A l \in Leaves : Gone(l)' /\ pin'[l] = None
  PROVE  ProgressOf(p)'
  <1>0. proc[p] \in ProcRecords /\ Consistent(proc[p]) /\ proc \in [Procs -> ProcRecords]
    BY DEF Typed, Control
  <1>1. CASE proc'[p].pc \notin ProgressSteps
    BY <1>1, NoProgress DEF Moved
  <1>2. CASE proc[p].then = "load" /\ ~ok
    <2>1. proc'[p].pc = "detach"
      BY <1>0, <1>2 DEF Return, Fail, ProcRecords
    <2> QED BY <1>1, <2>1 DEF ProgressSteps, ReconcileSteps, UpSteps, ServeSteps
  <1>3. CASE proc[p].then = "exit" \/ (proc[p].then = "clean" /\ ~ok)
    <2>1. proc'[p] = Idle
      BY SMTT(30), <1>0, <1>3 DEF Return
    <2> QED BY <1>1, <2>1 DEF ProgressSteps, ReconcileSteps, UpSteps, ServeSteps, Idle
  <1>4. CASE /\ ~(proc[p].then = "load" /\ ~ok)
             /\ ~(proc[p].then = "exit" \/ (proc[p].then = "clean" /\ ~ok))
    <2>1. proc' = [proc EXCEPT ![p].pc = proc[p].then, ![p].todo = <<>>, ![p].then = "idle"]
      BY <1>4, Zenon DEF Return
    <2>2. proc'[p].pc = proc[p].then /\ proc'[p].then = "idle"
      BY <1>0, <2>1 DEF ProcRecords
    <2>3. CASE proc[p].then = "clean"
      BY SMTT(30), <1>4, <2>2, <2>3 DEF ProgressOf, UpSteps, ServeSteps
    <2>4. CASE proc[p].then \in {"load", "unlock"}
      BY <1>1, <2>2, <2>4 DEF ProgressSteps, ReconcileSteps, UpSteps, ServeSteps
    <2> QED BY <1>0, <1>4, <2>3, <2>4 DEF Consistent, ReconcileSteps
  <1> QED BY <1>2, <1>3, <1>4

\* goto fail
LEMMA FailProgress ==
  ASSUME Typed, NEW p \in Procs, Moved(p), Fail(p, <<>>)
  PROVE  ProgressOf(p)'
  <1>1. proc'[p].pc = "detach"
    BY DEF Typed, Fail, ProcRecords
  <1> QED BY <1>1, NoProgress DEF Moved, ProgressSteps, ReconcileSteps, UpSteps, ServeSteps


\* The steps that leave hooks and pins alone.
LEMMA IdleProgress ==
  ASSUME Typed, Control, Pinned, NEW p \in Procs, ProgressOf(p), Moved(p), Step(p),
         UNCHANGED <<hook, pin, edits>>,
         ~PinPrograms(p), ~AttachPrograms(p), ~PinCap(p), ~AttachCap(p), ~DetachCap(p), ~UnpinCap(p),
         ~PinPeer(p), ~AttachPeer(p), ~DetachPrograms(p), ~RestoreOne(p), ~DetachPins(p), ~UnlinkPins(p)
  PROVE  ProgressOf(p)'
  <1>0. proc[p] \in ProcRecords /\ Consistent(proc[p]) /\ proc \in [Procs -> ProcRecords]
    BY DEF Typed, Control
  <1>1. \A m \in Leaves, x \in Gens : Attached(m, x)' <=> Attached(m, x)
    BY DEF Attached
  <1>2. CASE \E pc \in UpSteps : proc[p].pc \in UpSteps /\ Go(p, pc) /\ pc \in {"bridge", "writePid", "serve"}
    <2>1. /\ proc'[p].pc \in {"bridge", "writePid", "serve"} /\ proc'[p].pid = proc[p].pid
          /\ proc'[p].then = proc[p].then
      BY <1>0, <1>2 DEF Go, ProcRecords
    <2>2. proc[p].then # "exit"
      BY <1>0, <1>2, Zenon DEF Consistent, UpSteps, ServeSteps, ReconcileSteps
    <2>3. edits = 0 => \A l \in OrdinaryLeaves : Attached(l, proc[p].pid)
      BY <1>2, Zenon DEF ProgressOf
    <2>4. (edits = 0 => \A l \in OrdinaryLeaves : Attached(l, proc[p].pid))'
      BY <2>1, <2>3, Zenon DEF Attached
    <2> QED BY <2>1, <2>2, <2>4, Zenon DEF ProgressOf
  <1>3. CASE Fail(p, <<>>)
    BY <1>3, FailProgress
  <1>4. CASE proc'[p].pc \notin ProgressSteps
    BY <1>4, NoProgress DEF Moved
  <1>5. CASE \E then \in {"load", "unlock", "clean"} : Reconcile(p, then)
    BY <1>5, ReconcileProgress
  <1>6. CASE Clean(p)
    <2>1. \A l \in Leaves : Gone(l)' /\ pin'[l] = None
      BY <1>6, Zenon DEF Clean, ProgressOf, Gone, Attached
    <2> QED BY <1>6, <2>1, ReconcileProgress, Zenon DEF Clean
  <1>7. CASE Start(p) \/ Lock(p) \/ Prepare(p) \/ Unlock(p) \/ UnlinkLock(p) \/ TryLock(p) \/ Kill(p) \/ Crash(p)
    <2> USE DEF ProgressSteps, ReconcileSteps, UpSteps, ServeSteps
    <2>1. CASE Start(p)
      BY <1>0, <1>4, <2>1 DEF Start, ProcRecords
    <2>2. CASE Lock(p)
      BY <1>0, <1>4, <2>2 DEF Lock, Go, Idle, ProcRecords
    <2>3. CASE Prepare(p)
      BY <1>0, <1>4, <2>3 DEF Prepare, Go, ProcRecords
    <2>4. CASE Unlock(p)
      BY Zenon, <1>0, <1>4, <2>4 DEF Unlock, ProcRecords
    <2>5. CASE UnlinkLock(p) \/ Crash(p)
      BY SMTT(30), <1>0, <1>4, <2>5 DEF UnlinkLock, Crash, Idle
    <2>6. CASE TryLock(p)
      BY <1>0, <1>4, <2>6 DEF TryLock, Go, ProcRecords
    <2>7. CASE Kill(p)
      BY <1>0, <1>4, <2>7 DEF Kill, Go, ProcRecords
    <2> QED BY <1>7, <2>1, <2>2, <2>3, <2>4, <2>5, <2>6, <2>7
  <1>8. CASE CreateMaps(p) \/ LoadPrograms(p)
    <2>1. CASE Go(p, "loadTc")
      BY <1>0, <1>4, <2>1 DEF Go, ProcRecords, ProgressSteps, ReconcileSteps, UpSteps, ServeSteps
    <2>2. CASE LoadPrograms(p) /\ proc' = [proc EXCEPT ![p].pc = "pin", ![p].todo = Ordinary]
      <3>1. proc'[p].pc = "pin" /\ proc'[p].todo = Ordinary /\ proc'[p].then = proc[p].then
        BY <1>0, <2>2 DEF ProcRecords
      <3>2. proc[p].then = "idle"
        BY <1>0, <2>2 DEF Consistent, LoadPrograms, ReconcileSteps
      <3> QED BY <3>1, <3>2, Zenon DEF ProgressOf, OrdinaryLeaves, UpSteps, ServeSteps
    <2> QED BY <1>3, <1>8, <2>1, <2>2 DEF CreateMaps, LoadPrograms
  <1>9. CASE InstallHandlers(p) \/ OpenPidFile(p) \/ WritePidFile(p) \/ EndBridge(p)
    BY <1>2, <1>3, <1>9, Zenon DEF InstallHandlers, OpenPidFile, WritePidFile, EndBridge, UpSteps, ServeSteps
  <1>10. CASE LoadTcPrograms(p) \/ CleanupFixedPins(p)
    BY <1>3, <1>5, <1>10, Zenon DEF LoadTcPrograms, CleanupFixedPins
  <1>11. CASE StopCommand(p)
    <2>1. CASE lockPath # None
      <3>1. proc'[p].pc = "tryLock"
        BY <1>0, <1>11, <2>1 DEF StopCommand, ProcRecords
      <3> QED BY <1>4, <3>1, Zenon DEF ProgressSteps, ReconcileSteps, UpSteps, ServeSteps
    <2> QED BY <1>5, <1>11, <2>1 DEF StopCommand
  <1>12. CASE CloseLock(p)
    <2>1. proc'[p].pc = "detachPins" /\ proc'[p].todo = Catalog /\ proc'[p].then = "clean"
      BY <1>0, <1>12 DEF CloseLock, ProcRecords
    <2> QED BY <2>1, Zenon DEF ProgressOf, Leaves, UpSteps, ServeSteps
  <1> QED
    BY <1>6, <1>7, <1>8, <1>9, <1>10, <1>11, <1>12 DEF Step, StartStep, StopStep


\* The helper's programs stay in their hooks while it probes for getpeername.
LEMMA UpProgress ==
  ASSUME Typed, Control, NEW p \in Procs, ProgressOf(p), proc[p].pc \in UpSteps,
         proc'[p].pid = proc[p].pid, Consistent(proc'[p]), proc'[p].pc \in UpSteps, UNCHANGED edits,
         \A m \in OrdinaryLeaves : Attached(m, proc[p].pid) => (Attached(m, proc[p].pid))',
         proc'[p].pc \in {"capAttach", "capDetach"} => pin'[Cap] = proc[p].pid,
         proc'[p].pc \in {"capAttach", "capUnpin"} => Gone(Cap)',
         proc'[p].pc = "peerAttach" => pin'[Peer] = proc[p].pid
  PROVE  ProgressOf(p)'
  <1>1. proc'[p].then # "exit"
    BY Zenon DEF Consistent, UpSteps, ServeSteps, ReconcileSteps
  <1>2. (edits = 0 => \A l \in OrdinaryLeaves : Attached(l, proc[p].pid))'
    BY Zenon DEF ProgressOf
  <1>3. /\ proc'[p].pc \notin {"pin", "attach", "detachPins", "unlinkPins", "clean"}
    BY Zenon DEF UpSteps, ServeSteps
  <1> QED BY <1>1, <1>2, <1>3, Zenon DEF ProgressOf

\* The steps of --start on hooks and pins.
LEMMA StartProgress ==
  ASSUME Typed, Control, HooksShaped, Pinned, NEW p \in Procs, ProgressOf(p), Moved(p),
         \/ PinPrograms(p) \/ AttachPrograms(p) \/ PinCap(p) \/ AttachCap(p) \/ DetachCap(p)
         \/ UnpinCap(p) \/ PinPeer(p) \/ AttachPeer(p) \/ DetachPrograms(p) \/ RestoreOne(p)
  PROVE  Pinned' /\ ProgressOf(p)'
  <1>0. proc[p] \in ProcRecords /\ Consistent(proc[p]) /\ proc \in [Procs -> ProcRecords]
    BY DEF Typed, Control
  <1>1. proc[p].pid \in Gens /\ proc[p].pid # None
    BY <1>0, Zenon DEF ProcRecords, Consistent, OwnerSteps, StartSteps, StopSteps, PinPrograms, AttachPrograms,
                PinCap, AttachCap, DetachCap, UnpinCap, PinPeer, AttachPeer, DetachPrograms, RestoreOne
  <1>2. Cap \in Leaves /\ Peer \in Leaves /\ Cap \notin OrdinaryLeaves /\ Peer \notin OrdinaryLeaves /\ Cap # Peer
    BY CatalogFacts, CatalogAssumption, Zenon DEF OrdinaryLeaves
  <1>3. pin \in [Leaves -> Maybe(Gens)] /\ OrdinaryLeaves \subseteq Leaves
    BY CatalogFacts DEF Typed
  <1>4. ASSUME NEW l \in Leaves, SameAttached \/ TakesOne(l, proc[p].pid), UNCHANGED pin PROVE Pinned'
    BY <1>4, Zenon DEF SameAttached, TakesOne, Pinned
  <1>5. ASSUME NEW l \in Leaves, AddsOne(l, proc[p].pid), UNCHANGED pin, pin[l] = proc[p].pid PROVE Pinned'
    BY <1>5, Zenon DEF AddsOne, Pinned
  <1>6. ASSUME NEW l \in Leaves, NEW v \in Maybe(Gens), Gone(l), UNCHANGED hook, pin' = [pin EXCEPT ![l] = v]
        PROVE  Pinned'
    BY <1>3, <1>6, Zenon DEF Pinned, Gone, Attached
  <1>7. ASSUME NEW l \in Leaves, CanPin(l) PROVE Gone(l)
    BY Zenon, <1>7, CatalogAssumption DEF CanPin, Pinned, Gone
  <1>8. CASE PinPrograms(p)
    <2> DEFINE l == Head(proc[p].todo)
               rest == Tail(proc[p].todo)
    <2>0. proc[p].pc = "pin" /\ UNCHANGED <<hook, edits>>
      BY <1>8 DEF PinPrograms, noteVars
    <2>1. proc[p].todo \in Seq(OrdinaryLeaves) /\ proc[p].todo # <<>>
      BY <1>0, <2>0, Zenon DEF Consistent
    <2>2. l \in OrdinaryLeaves /\ l \in Leaves /\ rest \in Seq(OrdinaryLeaves)
      BY <1>3, <2>1, LoopFacts, Zenon
    <2>3. CASE Fail(p, <<>>) /\ UNCHANGED pin
      BY <2>0, <2>3, FailProgress, Zenon DEF Pinned, Attached
    <2>4. CASE CanPin(l) /\ pin' = [pin EXCEPT ![l] = proc[p].pid]
                 /\ proc' = IF rest # <<>> THEN [proc EXCEPT ![p].todo = rest]
                            ELSE [proc EXCEPT ![p].pc = "attach", ![p].todo = Ordinary]
      <3>1. Pinned'
        BY <1>1, <1>6, <1>7, <2>0, <2>2, <2>4, Zenon DEF Maybe
      <3>2. \A m \in OrdinaryLeaves : m = l \/ m \notin Range(proc[p].todo) => pin'[m] = proc[p].pid
        BY <1>3, <2>0, <2>2, <2>4 DEF ProgressOf
      <3>3. proc[p].then = "idle"
        BY <1>0, <2>0, Zenon DEF Consistent, ReconcileSteps
      <3>4. CASE rest # <<>>
        <4>1. proc'[p].pc = "pin" /\ proc'[p].todo = rest /\ proc'[p].pid = proc[p].pid /\ proc'[p].then = "idle"
          BY <1>0, <2>0, <2>4, <3>3, <3>4 DEF ProcRecords
        <4>2. \A m \in OrdinaryLeaves \ Range(rest) : m = l \/ m \notin Range(proc[p].todo)
          BY <2>1, LoopFacts, Zenon
        <4> QED BY <3>1, <3>2, <4>1, <4>2, Zenon DEF ProgressOf, UpSteps, ServeSteps
      <3>5. CASE rest = <<>>
        <4>1. /\ proc'[p].pc = "attach" /\ proc'[p].todo = Ordinary /\ proc'[p].pid = proc[p].pid
              /\ proc'[p].then = "idle"
          BY SMTT(30), <1>0, <2>0, <2>4, <3>3, <3>5 DEF ProcRecords
        <4>2. \A m \in OrdinaryLeaves : m = l \/ m \notin Range(proc[p].todo)
          BY SMTT(30), <2>1, <3>5, LoopFacts
        <4> QED BY <3>1, <3>2, <4>1, <4>2, Zenon DEF ProgressOf, UpSteps, ServeSteps, OrdinaryLeaves
      <3> QED BY <3>4, <3>5
    <2> QED BY Zenon, <1>8, <2>3, <2>4 DEF PinPrograms

  <1>9. CASE AttachPrograms(p)
    <2> DEFINE l == Head(proc[p].todo)
               rest == Tail(proc[p].todo)
               done == SubSeq(Ordinary, 1, Len(Ordinary) - Len(proc[p].todo))
    <2>0. proc[p].pc = "attach"
      BY <1>9, Zenon DEF AttachPrograms
    <2>1. proc[p].todo \in Seq(OrdinaryLeaves) /\ proc[p].todo # <<>> /\ proc[p].then = "idle"
      BY <1>0, <2>0, Zenon DEF Consistent, ReconcileSteps
    <2>2. l \in OrdinaryLeaves /\ l \in Leaves /\ rest \in Seq(OrdinaryLeaves)
      BY <1>3, <2>1, LoopFacts, Zenon
    <2>3. \A m \in OrdinaryLeaves : pin[m] = proc[p].pid
      BY <2>0, Zenon DEF ProgressOf
    <2>4. PICK o \in AttachOutcomes(p, l) :
             /\ Change(p, l, o)
             /\ proc' = IF ~o.ok
                        THEN [proc EXCEPT ![p].pc = "detach", ![p].todo = Reverse(done) \o StopOrder]
                        ELSE [proc EXCEPT ![p].pc = IF rest = <<>> THEN "capPin" ELSE @,
                                          ![p].todo = rest, ![p].kept = o.kept]
      BY <1>9, Zenon DEF AttachPrograms
    <2> HIDE DEF l, rest, done
    <2>5. /\ o.ok => AddsOne(l, proc[p].pid)
          /\ ~o.ok => SameAttached
          /\ UNCHANGED <<pin, edits>>
      BY <1>1, <2>2, <2>4, AttachChange
    <2>6. Pinned'
      BY <1>4, <1>5, <2>2, <2>3, <2>5, Zenon
    <2>7. CASE ~o.ok
      <3>1. proc'[p].pc = "detach"
        BY <1>0, <2>4, <2>7 DEF ProcRecords
      <3> QED BY <2>6, <3>1, NoProgress, Zenon DEF Moved, ProgressSteps, ReconcileSteps, UpSteps, ServeSteps
    <2>8. CASE o.ok
      <3>1. edits = 0 => \A m \in OrdinaryLeaves :
               m = l \/ m \notin Range(proc[p].todo) => (Attached(m, proc[p].pid))'
        <4>1. ASSUME edits = 0, NEW m \in OrdinaryLeaves, m = l \/ m \notin Range(proc[p].todo)
              PROVE  Attached(m, proc[p].pid) \/ m = l
          BY <2>0, <4>1, Zenon DEF ProgressOf
        <4>2. proc'[p].pid = proc[p].pid
          BY <1>0, <2>4, <2>8 DEF ProcRecords
        <4> QED BY <1>1, <1>3, <2>5, <2>8, <4>1, <4>2, Zenon DEF AddsOne
      <3>2. CASE rest # <<>>
        <4>1. proc'[p].pc = "attach" /\ proc'[p].todo = rest /\ proc'[p].pid = proc[p].pid /\ proc'[p].then = "idle"
          BY <1>0, <2>0, <2>1, <2>4, <2>8, <3>2 DEF ProcRecords
        <4>2. \A m \in OrdinaryLeaves \ Range(rest) : m = l \/ m \notin Range(proc[p].todo)
          BY <2>1, LoopFacts, Zenon DEF l, rest
        <4> QED BY <2>3, <2>5, <2>6, <3>1, <4>1, <4>2, Zenon DEF ProgressOf, UpSteps, ServeSteps
      <3>3. CASE rest = <<>>
        <4>1. proc'[p].pc = "capPin" /\ proc'[p].pid = proc[p].pid /\ proc'[p].then = "idle"
          BY Zenon, <1>0, <2>1, <2>4, <2>8, <3>3 DEF ProcRecords
        <4>2. \A m \in OrdinaryLeaves : m = l \/ m \notin Range(proc[p].todo)
          BY SMTT(30), <2>1, <3>3, LoopFacts DEF l, rest
        <4> QED BY <2>5, <2>6, <3>1, <4>1, <4>2, Zenon DEF ProgressOf
      <3> QED BY <3>2, <3>3
    <2> QED BY <2>7, <2>8
  <1>10. ASSUME NEW pc, Go(p, pc)
         PROVE  proc'[p].pc = pc /\ proc'[p].pid = proc[p].pid
    BY <1>0, <1>10 DEF Go, ProcRecords
  <1>11. Consistent(proc'[p])
    BY DEF Moved
  <1>12. CASE PinCap(p) \/ PinPeer(p)
    <2>0. /\ proc[p].pc \in {"capPin", "peerPin"} /\ UNCHANGED <<hook, edits>>
          /\ proc[p].pc \in UpSteps
      BY <1>12, Zenon DEF PinCap, PinPeer, noteVars, UpSteps
    <2>1. \A m \in Leaves, x \in Gens : Attached(m, x)' <=> Attached(m, x)
      BY <2>0 DEF Attached
    <2>2. CASE Fail(p, <<>>) /\ UNCHANGED pin
      BY <2>1, <2>2, FailProgress DEF Pinned
    <2>3. CASE Go(p, "stopEvent") /\ UNCHANGED pin
      <3>1. Pinned'
        BY <2>1, <2>3 DEF Pinned
      <3>2. proc'[p].pc = "stopEvent" /\ proc'[p].pid = proc[p].pid
        BY <1>10, <2>3, Zenon
      <3>3. \A m \in OrdinaryLeaves : Attached(m, proc[p].pid) => (Attached(m, proc[p].pid))'
        BY <1>1, <1>3, <2>0, <3>2, Zenon DEF Attached
      <3> QED BY <1>11, <2>0, <3>1, <3>2, <3>3, UpProgress, Zenon DEF UpSteps
    <2>4. CASE CanPin(Cap) /\ pin' = [pin EXCEPT ![Cap] = proc[p].pid] /\ Go(p, "capAttach")
      <3>1. Gone(Cap) /\ Pinned'
        BY <1>1, <1>2, <1>6, <1>7, <2>0, <2>4, Zenon DEF Maybe
      <3>2. proc'[p].pc = "capAttach" /\ proc'[p].pid = proc[p].pid
        BY <1>10, <2>4, Zenon
      <3>3. \A m \in OrdinaryLeaves : Attached(m, proc[p].pid) => (Attached(m, proc[p].pid))'
        BY <1>1, <1>3, <2>0, <3>2, Zenon DEF Attached
      <3>4. pin'[Cap] = proc[p].pid /\ Gone(Cap)'
        BY <1>2, <1>3, <2>0, <2>4, <3>1, Zenon DEF Gone, Attached
      <3> QED BY <1>11, <2>0, <3>1, <3>2, <3>3, <3>4, UpProgress, Zenon DEF UpSteps
    <2>5. CASE CanPin(Peer) /\ pin' = [pin EXCEPT ![Peer] = proc[p].pid] /\ Go(p, "peerAttach")
      <3>1. Pinned'
        BY <1>1, <1>2, <1>6, <1>7, <2>0, <2>5, Zenon DEF Maybe
      <3>2. proc'[p].pc = "peerAttach" /\ proc'[p].pid = proc[p].pid
        BY <1>10, <2>5, Zenon
      <3>3. \A m \in OrdinaryLeaves : Attached(m, proc[p].pid) => (Attached(m, proc[p].pid))'
        BY <1>1, <1>3, <2>0, <3>2, Zenon DEF Attached
      <3>4. pin'[Peer] = proc[p].pid
        BY <1>2, <1>3, <2>5
      <3> QED BY <1>11, <2>0, <3>1, <3>2, <3>3, <3>4, UpProgress, Zenon DEF UpSteps
    <2> QED BY <1>12, <2>2, <2>3, <2>4, <2>5, Zenon DEF PinCap, PinPeer

  <1>13. CASE AttachCap(p)
    <2>0. proc[p].pc = "capAttach" /\ proc[p].pc \in UpSteps
      BY <1>13 DEF AttachCap, UpSteps
    <2>1. pin[Cap] = proc[p].pid /\ Gone(Cap)
      BY <2>0, Zenon DEF ProgressOf
    <2>2. PICK o \in AttachOutcomes(p, Cap) :
             /\ Change(p, Cap, o)
             /\ \/ o.ok /\ Go(p, "capDetach")
                \/ /\ ~o.ok
                   /\ \E then \in {"stopEvent", "detach"} :
                         proc' = [proc EXCEPT ![p].pc = "capUnpin", ![p].then = then]
      BY <1>13 DEF AttachCap
    <2>3. /\ o.ok => AddsOne(Cap, proc[p].pid)
          /\ ~o.ok => SameAttached
          /\ UNCHANGED <<pin, edits>>
      BY <1>1, <1>2, <2>2, AttachChange
    <2>4. Pinned'
      BY <1>2, <1>4, <1>5, <2>1, <2>3, Zenon
    <2>5. CASE o.ok
      <3>1. proc'[p].pc = "capDetach" /\ proc'[p].pid = proc[p].pid
        BY <1>10, <2>2, <2>5
      <3>2. \A m \in OrdinaryLeaves : Attached(m, proc[p].pid) => (Attached(m, proc[p].pid))'
        BY <1>1, <1>3, <2>3, <2>5, <3>1, Zenon DEF AddsOne
      <3> QED BY <1>11, <2>0, <2>1, <2>3, <2>4, <3>1, <3>2, UpProgress, Zenon DEF UpSteps
    <2>6. CASE ~o.ok
      <3>1. proc'[p].pc = "capUnpin" /\ proc'[p].pid = proc[p].pid
        BY <1>0, <2>2, <2>6 DEF ProcRecords
      <3>2. \A m \in OrdinaryLeaves : Attached(m, proc[p].pid) => (Attached(m, proc[p].pid))'
        BY <1>1, <1>3, <2>3, <2>6, <3>1, Zenon DEF SameAttached
      <3>3. Gone(Cap)'
        BY <1>2, <2>1, <2>3, <2>6, Zenon DEF SameAttached, Gone
      <3> QED BY <1>11, <2>0, <2>3, <2>4, <3>1, <3>2, <3>3, UpProgress, Zenon DEF UpSteps
    <2> QED BY <2>5, <2>6
  <1>14. CASE DetachCap(p)
    <2>0. proc[p].pc = "capDetach" /\ proc[p].pc \in UpSteps
      BY <1>14 DEF DetachCap, UpSteps
    <2>1. pin[Cap] = proc[p].pid
      BY <2>0, Zenon DEF ProgressOf
    <2>2. PICK o \in DetachOutcomes(p, Cap) :
             /\ Change(p, Cap, o)
             /\ IF o.ok THEN proc' = [proc EXCEPT ![p].pc = "capUnpin", ![p].then = "peerPin"]
                        ELSE Fail(p, <<>>)
      BY <1>14 DEF DetachCap
    <2>3. /\ o.ok => TakesOne(Cap, proc[p].pid)
          /\ SameAttached \/ TakesOne(Cap, proc[p].pid)
          /\ UNCHANGED <<pin, edits>>
      BY <1>1, <1>2, <2>2, DetachChange
    <2>4. Pinned'
      BY <1>2, <1>4, <2>3
    <2>5. CASE o.ok
      <3>1. proc'[p].pc = "capUnpin" /\ proc'[p].pid = proc[p].pid
        BY <1>0, <2>2, <2>5 DEF ProcRecords
      <3>2. \A m \in OrdinaryLeaves : Attached(m, proc[p].pid) => (Attached(m, proc[p].pid))'
        BY <1>1, <1>2, <1>3, <2>3, <2>5, <3>1, Zenon DEF TakesOne
      <3>3. Gone(Cap)'
        BY <1>2, <2>1, <2>3, <2>5, Zenon DEF TakesOne, Gone, Pinned
      <3> QED BY <1>11, <2>0, <2>3, <2>4, <3>1, <3>2, <3>3, UpProgress, Zenon DEF UpSteps
    <2>6. CASE ~o.ok
      BY <2>2, <2>4, <2>6, FailProgress
    <2> QED BY <2>5, <2>6
  <1>15. CASE UnpinCap(p)
    <2>0. proc[p].pc = "capUnpin" /\ proc[p].pc \in UpSteps /\ UNCHANGED <<hook, edits>>
      BY <1>15 DEF UnpinCap, UpSteps, noteVars
    <2>1. Gone(Cap)
      BY <2>0, Zenon DEF ProgressOf
    <2>2. Pinned'
      <3>1. CASE UNCHANGED pin
        BY <2>0, <3>1, Zenon DEF Pinned, Attached
      <3>2. CASE pin' = [pin EXCEPT ![Cap] = None]
        BY <1>2, <1>6, <2>0, <2>1, <3>2, Zenon DEF Maybe
      <3> QED BY <1>15, <3>1, <3>2 DEF UnpinCap
    <2>3. CASE Fail(p, <<>>)
      BY <2>2, <2>3, FailProgress
    <2>4. CASE proc[p].then # "detach" /\ proc' = [proc EXCEPT ![p].pc = proc[p].then, ![p].then = "idle"]
      <3>1. proc'[p].pc \in {"stopEvent", "peerPin"} /\ proc'[p].pid = proc[p].pid
        BY <1>0, <2>0, <2>4 DEF ProcRecords, Consistent
      <3>2. \A m \in OrdinaryLeaves : Attached(m, proc[p].pid) => (Attached(m, proc[p].pid))'
        BY <1>1, <1>3, <2>0, <3>1, Zenon DEF Attached
      <3> QED BY <1>11, <2>0, <2>2, <3>1, <3>2, UpProgress, Zenon DEF UpSteps
    <2> QED BY <1>15, <2>3, <2>4 DEF UnpinCap
  <1>16. CASE AttachPeer(p)
    <2>0. proc[p].pc = "peerAttach" /\ proc[p].pc \in UpSteps
      BY <1>16, Zenon DEF AttachPeer, UpSteps
    <2>1. pin[Peer] = proc[p].pid
      BY <2>0, Zenon DEF ProgressOf
    <2>2. PICK o \in AttachOutcomes(p, Peer) :
             Change(p, Peer, o) /\ IF o.ok THEN Go(p, "stopEvent") ELSE Fail(p, <<>>)
      BY <1>16, Zenon DEF AttachPeer
    <2>3. /\ o.ok => AddsOne(Peer, proc[p].pid)
          /\ ~o.ok => SameAttached
          /\ UNCHANGED <<pin, edits>>
      BY <1>1, <1>2, <2>2, AttachChange
    <2>4. Pinned'
      BY <1>2, <1>4, <1>5, <2>1, <2>3, Zenon
    <2>5. CASE o.ok
      <3>1. proc'[p].pc = "stopEvent" /\ proc'[p].pid = proc[p].pid
        BY <1>10, <2>2, <2>5, Zenon
      <3>2. \A m \in OrdinaryLeaves : Attached(m, proc[p].pid) => (Attached(m, proc[p].pid))'
        BY <1>1, <1>3, <2>3, <2>5, <3>1, Zenon DEF AddsOne
      <3> QED BY <1>11, <2>0, <2>3, <2>4, <3>1, <3>2, UpProgress, Zenon DEF UpSteps
    <2>6. CASE ~o.ok
      BY <2>2, <2>4, <2>6, FailProgress
    <2> QED BY <2>5, <2>6
  <1>17. CASE DetachPrograms(p)
    <2>0. proc[p].pc = "detach"
      BY <1>17, Zenon DEF DetachPrograms
    <2>1. Head(proc[p].todo) \in Leaves
      BY <1>0, <2>0, LoopFacts, Zenon DEF ProcRecords, Consistent
    <2>2. PICK o \in DetachOutcomes(p, Head(proc[p].todo)) :
             /\ Change(p, Head(proc[p].todo), o)
             /\ proc' = [proc EXCEPT ![p].pc = IF Tail(proc[p].todo) = <<>> THEN "restore" ELSE @,
                                     ![p].todo = Tail(proc[p].todo), ![p].kept = o.kept]
      BY <1>17, Zenon DEF DetachPrograms
    <2>3. Pinned'
      <3>1. (SameAttached \/ TakesOne(Head(proc[p].todo), proc[p].pid)) /\ UNCHANGED pin
        BY <1>1, <2>1, <2>2, DetachChange, Zenon
      <3> QED BY <1>4, <2>1, <3>1
    <2>4. proc'[p].pc \in {"restore", "detach"}
      <3>1. CASE Tail(proc[p].todo) = <<>>
        BY <1>0, <2>2, <3>1 DEF ProcRecords
      <3>2. CASE Tail(proc[p].todo) # <<>>
        BY <1>0, <2>0, <2>2, <3>2 DEF ProcRecords
      <3> QED BY <3>1, <3>2, Zenon
    <2> QED BY <1>11, <2>3, <2>4, NoProgress, Zenon DEF ProgressSteps, ReconcileSteps, UpSteps, ServeSteps
  <1>18. CASE RestoreOne(p)
    <2>1. PICK l \in proc[p].kept : \E o \in DetachOutcomes(p, l) :
             /\ Change(p, l, o)
             /\ proc' = [proc EXCEPT ![p].kept = @ \ {l}]
      BY <1>18, Zenon DEF RestoreOne
    <2>2. l \in Leaves
      BY <1>0, <1>3, Zenon DEF ProcRecords
    <2>3. Pinned'
      BY <1>1, <1>4, <2>1, <2>2, DetachChange
    <2>4. proc'[p].pc = "restore"
      BY <1>0, <1>18, <2>1 DEF ProcRecords, RestoreOne
    <2> QED BY <1>11, <2>3, <2>4, NoProgress, Zenon DEF ProgressSteps, ReconcileSteps, UpSteps, ServeSteps
  <1> QED
    BY <1>8, <1>9, <1>12, <1>13, <1>14, <1>15, <1>16, <1>17, <1>18


\* The loops of asterisk_cgroup_reconcile.
LEMMA ReconcileLoopProgress ==
  ASSUME Typed, Control, HooksShaped, Pinned, NEW p \in Procs, ProgressOf(p), Moved(p),
         DetachPins(p) \/ UnlinkPins(p)
  PROVE  Pinned' /\ ProgressOf(p)'
  <1> DEFINE rest == Tail(proc[p].todo)
  <1>0. proc[p] \in ProcRecords /\ Consistent(proc[p]) /\ proc \in [Procs -> ProcRecords]
    BY DEF Typed, Control
  <1>1. proc[p].pc \in ReconcileSteps /\ proc[p].todo \in Seq(Leaves) /\ proc[p].todo # <<>>
    BY <1>0, Zenon DEF DetachPins, UnlinkPins, ReconcileSteps, ProcRecords, Consistent
  <1>l. PICK l \in Leaves : l = Head(proc[p].todo)
    BY <1>1, LoopFacts
  <1>2. /\ \A m \in Leaves \ Range(rest) : m = l \/ m \notin Range(proc[p].todo)
        /\ rest = <<>> => \A m \in Leaves : m = l \/ m \notin Range(proc[p].todo)
    BY <1>1, <1>l, LoopFacts
  <1> HIDE DEF rest
  <1>3. CASE DetachPins(p)
    <2>0. proc[p].pc = "detachPins"
      BY <1>3, Zenon DEF DetachPins
    <2>1. PICK o \in PinOutcomes(l) :
             /\ Change(p, l, o)
             /\ IF o.ok
                THEN proc' = IF rest # <<>> THEN [proc EXCEPT ![p].todo = rest]
                             ELSE [proc EXCEPT ![p].pc = "unlinkPins", ![p].todo = Catalog]
                ELSE Return(p, FALSE)
      BY <1>3, <1>l, Zenon DEF DetachPins, PinOutcomes, rest
    <2>2. /\ \A m \in Leaves, x \in Gens : Attached(m, x)' => Attached(m, x)
          /\ o.ok => Gone(l)'
          /\ UNCHANGED <<pin, edits>>
      BY <2>1, PinnedChange
    <2>3. Pinned'
      BY <2>2 DEF Pinned
    <2>4. CASE ~o.ok
      BY <1>1, <2>1, <2>3, <2>4, ReturnProgress, Zenon
    <2>5. CASE o.ok
      <3>0. \A m \in Leaves : Gone(m) => Gone(m)'
        BY <2>2 DEF Gone
      <3>1. \A m \in Leaves : m = l \/ m \notin Range(proc[p].todo) => Gone(m)'
        BY <2>0, <2>2, <2>5, <3>0, Zenon DEF ProgressOf
      <3>2. proc[p].then = "exit" => \A m \in Leaves : Gone(m)' /\ pin'[m] = None
        BY <2>2, <3>0, Zenon DEF ProgressOf
      <3>3. CASE rest # <<>>
        <4>1. proc'[p].pc = "detachPins" /\ proc'[p].todo = rest /\ proc'[p].then = proc[p].then
          BY <1>0, <2>0, <2>1, <2>5, <3>3 DEF ProcRecords
        <4> QED BY <1>2, <2>3, <3>1, <3>2, <4>1, Zenon DEF ProgressOf, UpSteps, ServeSteps
      <3>4. CASE rest = <<>>
        <4>1. proc'[p].pc = "unlinkPins" /\ proc'[p].todo = Catalog /\ proc'[p].then = proc[p].then
          BY <1>0, <2>1, <2>5, <3>4 DEF ProcRecords
        <4>2. \A m \in Leaves : Gone(m)'
          BY <1>2, <3>1, <3>4, Zenon
        <4> QED BY <2>3, <3>2, <4>1, <4>2, Zenon DEF ProgressOf, UpSteps, ServeSteps, Leaves
      <3> QED BY <3>3, <3>4
    <2> QED BY <2>4, <2>5
  <1>4. CASE UnlinkPins(p)
    <2>0. proc[p].pc = "unlinkPins" /\ UNCHANGED <<hook, edits>>
      BY <1>4 DEF UnlinkPins, noteVars
    <2>1. /\ \A m \in Leaves : Gone(m)
          /\ \A m \in Leaves \ Range(proc[p].todo) : pin[m] = None
      BY <2>0, Zenon DEF ProgressOf
    <2>2. (\A m \in Leaves : Gone(m)') /\ Pinned'
      BY <2>0, <2>1 DEF Gone, Pinned, Attached
    <2>3. CASE Return(p, FALSE) /\ UNCHANGED pin
      BY <1>1, <2>2, <2>3, ReturnProgress, Zenon
    <2>4. CASE /\ pin' = [pin EXCEPT ![l] = None]
               /\ IF rest # <<>> THEN proc' = [proc EXCEPT ![p].todo = rest] ELSE Return(p, TRUE)
      <3>1. \A m \in Leaves : m = l \/ m \notin Range(proc[p].todo) => pin'[m] = None
        BY <1>2, <2>1, <2>4 DEF Typed
      <3>2. proc[p].then = "exit" => \A m \in Leaves : pin'[m] = None
        BY SMTT(30), <1>2, <2>4 DEF ProgressOf, Typed
      <3>3. CASE rest # <<>>
        <4>1. proc'[p].pc = "unlinkPins" /\ proc'[p].todo = rest /\ proc'[p].then = proc[p].then
          BY <1>0, <2>0, <2>4, <3>3 DEF ProcRecords
        <4> QED BY <1>2, <2>2, <3>1, <3>2, <4>1, Zenon DEF ProgressOf, UpSteps, ServeSteps
      <3>4. CASE rest = <<>>
        <4>1. \A m \in Leaves : pin'[m] = None
          BY <1>2, <3>1, <3>4, Zenon
        <4> QED BY <1>1, <2>2, <2>4, <3>4, <4>1, ReturnProgress, ZenonT(30)
      <3> QED BY <3>3, <3>4
    <2>5. proc' = [proc EXCEPT ![p].todo = Tail(@)] => proc' = [proc EXCEPT ![p].todo = rest]
      BY <1>0 DEF rest
    <2> QED BY <1>4, <1>l, <2>3, <2>4, <2>5, Zenon DEF UnlinkPins, rest
  <1> QED BY <1>3, <1>4


\* A step of one process keeps every program pinned and every process's progress, if no
\* two of them work at once.
LEMMA StepKeepsProgress ==
  ASSUME IInv, NEW p \in Procs, Step(p), Moved(p), KernelStep, ~overlap
  PROVE  Pinned' /\ \A q \in Procs : ProgressOf(q)'
  <1>0. /\ Typed /\ Control /\ HooksShaped /\ Pinned /\ (\A q \in Procs : ProgressOf(q))
        /\ \A q \in Procs : Working(p) /\ Working(q) => p = q
    BY DEF IInv, ControlInv, Undisturbed, OneAtWork
  <1> DEFINE A == \/ PinPrograms(p) \/ AttachPrograms(p) \/ PinCap(p) \/ AttachCap(p) \/ DetachCap(p)
                  \/ UnpinCap(p) \/ PinPeer(p) \/ AttachPeer(p) \/ DetachPrograms(p) \/ RestoreOne(p)
             B == DetachPins(p) \/ UnlinkPins(p)
  <1>1. A \/ B => Working(p)
    BY Zenon DEF Working, PinPrograms, AttachPrograms, PinCap, AttachCap, DetachCap, UnpinCap, PinPeer, AttachPeer,
           DetachPrograms, RestoreOne, DetachPins, UnlinkPins, StartSteps, ReconcileSteps
  <1>2. ~(A \/ B) => UNCHANGED <<hook, pin, edits>>
    BY Zenon DEF Step, StartStep, StopStep, Start, Lock, Prepare, CreateMaps, LoadTcPrograms, LoadPrograms,
           InstallHandlers, OpenPidFile, WritePidFile, EndBridge, CleanupFixedPins, Unlock, UnlinkLock,
           StopCommand, TryLock, Kill, CloseLock, Clean, Crash, kernelVars, noteVars
  <1>3. CASE A \/ B
    <2>1. Pinned' /\ ProgressOf(p)'
      BY SMTT(30), <1>0, <1>3, StartProgress, ReconcileLoopProgress
    <2>2. ASSUME NEW q \in Procs, q # p PROVE ProgressOf(q)'
      <3>1. ~Working(q) /\ proc'[q] = proc[q] /\ Consistent(proc[q])
        BY <1>0, <1>1, <1>3, <2>2 DEF Moved, Control
      <3>2. ~Working(q)'
        BY <3>1 DEF Working
      <3> QED BY <3>1, <3>2, NoProgress, Zenon
    <2> QED BY <2>1, <2>2
  <1>4. CASE ~(A \/ B)
    <2>1. UNCHANGED <<hook, pin, edits>>
      BY <1>2, <1>4
    <2>2. Pinned'
      BY <1>0, <2>1 DEF Pinned, Attached
    <2>3. ProgressOf(p)'
      BY SMTT(30), <1>0, <1>4, <2>1, IdleProgress
    <2>4. ASSUME NEW q \in Procs, q # p PROVE ProgressOf(q)'
      <3>1. proc'[q] = proc[q]
        BY <2>4 DEF Moved
      <3>2. ProgressOf(q)
        BY <1>0
      <3> QED BY <2>1, <3>1, <3>2, ZenonT(30) DEF ProgressOf, Gone, Attached
    <2> QED BY <2>2, <2>3, <2>4
  <1> QED BY <1>3, <1>4

\* The rest of the system takes programs of ours away, and counts as having meddled.
LEMMA SystemKeepsProgress ==
  ASSUME IInv, SystemStep, ~overlap
  PROVE  Pinned' /\ \A q \in Procs : ProgressOf(q)'
  <1>0. Typed /\ HooksShaped /\ Pinned /\ \A q \in Procs : ProgressOf(q)
    BY DEF IInv, ControlInv, Undisturbed
  <1>1. \A h \in Hooks : OwnIn(hook'[h]) \subseteq OwnIn(hook[h])
    BY <1>0, SystemKeepsShape
  <1>2. ASSUME NEW m \in Leaves, NEW x \in Gens, Attached(m, x)' PROVE Attached(m, x)
    <2>1. <<m, x>> \in Own /\ HookOf[m] \in Hooks
      BY DEF Own, Hooks
    <2> QED BY <1>1, <1>2, <2>1 DEF Attached, OwnIn
  <1>3. UNCHANGED <<pin, proc>> /\ edits' # 0
    BY <1>0 DEF SystemStep, Typed
  <1>4. Pinned'
    BY <1>0, <1>2, <1>3 DEF Pinned
  <1>5. \A m \in Leaves : Gone(m) => Gone(m)'
    BY <1>2 DEF Gone
  <1>6. Cap \in Leaves
    BY CatalogFacts
  <1>7. ASSUME NEW q \in Procs PROVE ProgressOf(q)'
    <2>1. ProgressOf(q)
      BY <1>0
    <2> QED BY <1>3, <1>5, <1>6, <2>1, Zenon DEF ProgressOf
  <1> QED BY <1>4, <1>7

-----------------------------------------------------------------------------
(* The theorems. *)

\* The machine before any process has run has nothing of ours in a hook.
LEMMA InvInit == Init => IInv
  <1> SUFFICES ASSUME Init PROVE IInv
    OBVIOUS
  <1> USE DEF Init
  <1>1. \A h \in Hooks : hook[h] \in {Empty, Placeholder, Alone(Foreign), Joined(Empty, Foreign)}
    BY InitialAssumption
  <1>2. \A h \in Hooks : OwnIn(hook[h]) = {}
    <2> SUFFICES ASSUME NEW at \in {Empty, Placeholder, Alone(Foreign), Joined(Empty, Foreign)}
                 PROVE  OwnIn(at) = {}
      BY <1>1
    <2> QED BY SystemPrograms DEF Empty, Placeholder, Alone, Joined, OwnIn
  <1>3. \A l \in Leaves, g \in Gens : ~Attached(l, g)
    BY <1>2 DEF Attached, OwnIn, Own, Hooks
  <1>4. Undisturbed
    BY <1>3, Zenon DEF Undisturbed, Pinned, ProgressOf, Idle, UpSteps, ServeSteps
  <1> QED BY <1>4, ControlInit DEF IInv

\* Every step of a process or of the system keeps the invariant.
LEMMA InvNext == IInv /\ [Next]_vars => IInv'
  <1> SUFFICES ASSUME IInv, [Next]_vars PROVE Undisturbed'
    BY ControlNext DEF IInv
  <1>0. Typed /\ Control /\ Undisturbed
    BY DEF IInv, ControlInv
  <1>1. CASE UNCHANGED vars
    <2>1. UNCHANGED <<hook, pin, proc, edits, overlap>>
      BY <1>1 DEF vars, kernelVars, noteVars
    <2>2. Pinned => Pinned'
      BY <2>1 DEF Pinned, Attached
    <2>3. ASSUME NEW q \in Procs, ProgressOf(q) PROVE ProgressOf(q)'
      BY <2>1, <2>3, ZenonT(30) DEF ProgressOf, Gone, Attached
    <2> QED BY <1>0, <2>1, <2>2, <2>3 DEF Undisturbed
  <1>2. CASE Next
    <2>1. ~overlap' => ~overlap
      BY <1>2, Zenon DEF Next
    <2>2. CASE SystemStep
      BY <2>1, <2>2, SystemKeepsProgress DEF Undisturbed
    <2>3. ASSUME NEW p \in Procs, Step(p) PROVE Undisturbed'
      <3>1. Moved(p) /\ KernelStep
        BY <1>0, <2>3, StepMoves, StepOnKernel DEF IInv, ControlInv
      <3> QED BY <2>1, <2>3, <3>1, StepKeepsProgress DEF Undisturbed
    <2> QED BY <1>2, <2>2, <2>3 DEF Next, Step
  <1> QED BY <1>1, <1>2

\* The inductive invariant behind the theorems below.
THEOREM InvHolds == Spec => []IInv
  BY InvInit, InvNext, PTL DEF Spec

\* As long as helpers have not overlapped, an attached program has its pin.
LEMMA InvRecoverable == IInv => Recoverable
  <1> SUFFICES ASSUME IInv PROVE Recoverable
    OBVIOUS
  <1>0. Typed /\ Control /\ Locked /\ OneAtWork /\ HooksShaped /\ Undisturbed
    BY SMTT(30) DEF IInv, ControlInv
  <1>1. ASSUME NEW p \in Procs
        PROVE  /\ proc[p].pc \in Steps
               /\ proc[p].kept \subseteq Range(Ordinary)
               /\ Starting(p) /\ Working(p) => lockOwner[proc[p].ino] = p
    <2>1. proc[p] \in ProcRecords
      BY <1>0 DEF Typed
    <2>2. Working(p) => proc[p].pc \notin {"lock", "unlinkLock"}
      BY SMTT(30) DEF Working, StartSteps, ServeSteps, ReconcileSteps
    <2> QED BY <1>0, <2>1, <2>2, Zenon DEF ProcRecords, OrdinaryLeaves, Locked
  <1>2. TypeOK
    BY <1>0, <1>1, Zenon DEF TypeOK, Typed, HooksShaped, Shaped, OneAtWork, Locked
  <1>3. ASSUME ~overlap, NEW h \in Hooks, NEW x \in hook[h].progs \cap Own PROVE pin[x[1]] = x[2]
    <2>1. PICK l \in Leaves, g \in Gens : x = <<l, g>>
      BY DEF Own
    <2>2. HookOf[l] = h
      BY <1>0, <2>1 DEF HooksShaped, OwnIn
    <2> QED BY SMTT(30), <1>0, <1>3, <2>1, <2>2 DEF Undisturbed, Pinned, Attached
  <1> QED BY <1>2, <1>3 DEF Recoverable

\* Cleanup authority survives any crash (asterisk_cgroup_pin before
\* bpf2socks_bpf_prog_attach, pins kept on error): every program of a helper in a hook
\* has its pin, however many helpers and commands run, fail and die.
THEOREM AlwaysRecoverable == Spec => []Recoverable
  BY InvHolds, InvRecoverable, PTL

\* The commands do what they report: a helper that serves has its programs in the
\* hooks (bpf2socks_bpf_runtime_start), a --stop that has reconciled has left nothing
\* (stop_with_config).
THEOREM CommandsKeepTheirWord == Spec => []CommandsHonest
  <1>1. IInv => CommandsHonest
    <2> SUFFICES ASSUME IInv PROVE Intercepting /\ CleanAfterStop
      BY DEF CommandsHonest
    <2>0. Typed /\ HooksShaped /\ Undisturbed
      BY SMTT(30) DEF IInv, ControlInv
    <2>1. Intercepting
      <3> SUFFICES ASSUME NEW p \in Procs, proc[p].pc = "serve", ~overlap, edits = 0,
                          NEW l \in Range(Ordinary)
                   PROVE  <<l, proc[p].pid>> \in hook[HookOf[l]].progs
        BY DEF Intercepting
      <3> QED BY <2>0, Zenon DEF Undisturbed, ProgressOf, UpSteps, ServeSteps, OrdinaryLeaves, Attached
    <2>2. CleanAfterStop
      <3> SUFFICES ASSUME NEW p \in Procs, proc[p].then = "exit", ~overlap
                   PROVE  /\ \A h \in Hooks : hook[h].progs \cap Own = {}
                          /\ \A l \in Leaves : pin[l] = None
        BY SMTT(30) DEF CleanAfterStop
      <3>1. \A l \in Leaves : Gone(l) /\ pin[l] = None
        BY <2>0, Zenon DEF Undisturbed, ProgressOf
      <3>2. ASSUME NEW h \in Hooks, NEW x \in hook[h].progs \cap Own PROVE FALSE
        <4>1. PICK l \in Leaves, g \in Gens : x = <<l, g>>
          BY SMTT(30), <3>2 DEF Own
        <4>2. HookOf[l] = h
          BY <2>0, <4>1 DEF HooksShaped, OwnIn
        <4> QED BY SMTT(30), <3>1, <4>1, <4>2 DEF Gone, Attached
      <3> QED BY <3>1, <3>2
    <2> QED BY <2>1, <2>2
  <1> QED BY <1>1, InvHolds, PTL
=============================================================================
