--------------------------- MODULE InstanceProofs ---------------------------
(***************************************************************************)
(* The promises of --start and --stop for any number of processes, any     *)
(* catalogue of programs and any number of crashes and changes of the      *)
(* system.                                                                 *)
(***************************************************************************)
EXTENDS Instance, TLAPS

Thens == {"idle", "load", "unlock", "clean", "exit", "stopEvent", "detach", "peerPin"}

OrdinaryLeaves == Range(Ordinary)

ProcRecords ==
    [pc : Steps, then : Thens, todo : Seq(Leaves), kept : SUBSET OrdinaryLeaves,
     pid : Gens \cup {None}, ino : Inodes \cup {None}]

\* The types, without what TypeOK says about hooks and locks.
Typed ==
    /\ hook \in [Hooks -> HookStates]
    /\ pin \in [Leaves -> Maybe(Gens)]
    /\ lockPath \in Maybe(Inodes)
    /\ lockOwner \in [Inodes -> Maybe(Procs)]
    /\ pidFile \in Maybe(Gens)
    /\ proc \in [Procs -> ProcRecords]
    /\ edits \in 0..MaxEdits /\ crashes \in 0..MaxCrashes
    /\ raced \in BOOLEAN

\* The steps that only a process started with --start takes, and only one with --stop.
OwnerSteps == StartSteps \cup ServeSteps \cup StopSteps

\* What the step of a process says about the rest of its record.
Consistent(r) ==
    /\ r.pc = "idle" => r = Idle
    /\ r.pc \in OwnerSteps => r.pid # None
    /\ r.pc \in CommandSteps => r.pid = None
    /\ r.pc \in ReconcileSteps => r.then \in IF r.pid # None THEN {"load", "unlock"} ELSE {"clean", "exit"}
    /\ r.pc = "capUnpin" => r.then \in {"stopEvent", "detach", "peerPin"}
    /\ r.pc \notin ReconcileSteps \cup {"capUnpin"} => r.then = "idle"
    /\ r.pc \in {"pin", "attach"} => r.todo \in Seq(OrdinaryLeaves)
    /\ r.pc \in {"pin", "attach", "detach"} \cup ReconcileSteps => r.todo # <<>>
    /\ (r.ino # None) <=> IF r.pid # None THEN r.pc # "unlinkLock"
                          ELSE r.pc \in {"tryLock", "kill", "wait", "close"}

Control == \A p \in Procs : Consistent(proc[p])

\* The lock of a file belongs to a process that has the file open.
Locked ==
    /\ \A i \in Inodes : lockOwner[i] # None =>
          /\ proc[lockOwner[i]].ino = i
          /\ proc[lockOwner[i]].pc \notin {"lock", "tryLock", "kill", "wait"}
    /\ \A p \in Procs : Starting(p) /\ proc[p].pc \notin {"lock", "unlinkLock"} =>
          lockOwner[proc[p].ino] = p

\* All helpers start on one file, until the file is unlinked under one of them.
OnePath ==
    ~raced => \A p \in Procs : Starting(p) /\ proc[p].ino # None => proc[p].ino = lockPath

\* What "overlap" records.
OneAtWork ==
    /\ overlap \in BOOLEAN
    /\ ~overlap => \A p, q \in Procs : Working(p) /\ Working(q) => p = q

\* A hook that is not shared holds one program at most; ours are where they belong.
Shaped(at) == at.multi \/ \A x, y \in at.progs : x = y

OwnIn(at) == at.progs \cap Own

HooksShaped ==
    \A h \in Hooks : Shaped(hook[h]) /\ \A x \in OwnIn(hook[h]) : HookOf[x[1]] = h

\* What holds of the processes, the lock file and the hooks, whatever fails.
ControlInv == Typed /\ Control /\ Locked /\ OnePath /\ OneAtWork /\ HooksShaped

\* A process before its call and after its exit: no helper, with no file open.
LEMMA IdleRecord ==
  /\ Idle \in ProcRecords /\ Consistent(Idle)
  /\ Idle.pc = "idle" /\ Idle.pid = None /\ Idle.ino = None
  <1>1. Idle.pc = "idle" /\ Idle.then = "idle" /\ Idle.pid = None /\ Idle.ino = None
    BY DEF Idle
  <1>2. Idle \in ProcRecords
    BY DEF Idle, ProcRecords, Steps, Thens, StartSteps, ServeSteps, StopSteps, ReconcileSteps
  <1>3. Consistent(Idle)
    BY <1>1 DEF Consistent, OwnerSteps, StartSteps, ServeSteps, StopSteps, CommandSteps, ReconcileSteps
  <1> QED BY <1>1, <1>2, <1>3
-----------------------------------------------------------------------------
(* The catalogue and the loops over it. *)

\* What a loop over a sequence sees.
LEMMA LoopFacts ==
  ASSUME NEW S, NEW s \in Seq(S), s # <<>>
  PROVE  /\ Head(s) \in S
         /\ Tail(s) \in Seq(S)
         /\ Head(s) \in Range(s)
         /\ \A e \in Range(s) : e = Head(s) \/ e \in Range(Tail(s))
         /\ Tail(s) = <<>> => Range(s) = {Head(s)}
  <1>1. /\ Len(s) \in Nat \ {0} /\ DOMAIN s = 1..Len(s)
        /\ Head(s) = s[1]
        /\ DOMAIN Tail(s) = 1..(Len(s) - 1)
        /\ \A i \in 1..(Len(s) - 1) : Tail(s)[i] = s[i + 1]
    OBVIOUS
  <1>2. Head(s) \in Range(s)
    BY <1>1 DEF Range
  <1>3. ASSUME NEW e \in Range(s) PROVE e = Head(s) \/ e \in Range(Tail(s))
    <2>1. PICK i \in 1..Len(s) : e = s[i]
      BY <1>1 DEF Range
    <2>2. CASE i = 1
      BY <2>1, <2>2, <1>1
    <2>3. CASE i # 1
      <3>1. i - 1 \in 1..(Len(s) - 1) /\ Tail(s)[i - 1] = s[i]
        BY <1>1, <2>3
      <3> QED BY <3>1, <2>1, <1>1, Zenon DEF Range
    <2> QED BY <2>2, <2>3
  <1>4. Tail(s) = <<>> => Range(s) = {Head(s)}
    <2>1. Range(<<>>) = {}
      BY DEF Range
    <2> QED BY <2>1, <1>2, <1>3, Zenon
  <1> QED BY <1>1, <1>2, <1>3, <1>4

\* The sequences the loops run over.
LEMMA CatalogFacts ==
  /\ Ordinary \in Seq(OrdinaryLeaves) /\ Ordinary # <<>>
  /\ Catalog \in Seq(Leaves) /\ Catalog # <<>>
  /\ Leaves = OrdinaryLeaves \cup {Cap, Peer}
  /\ StopOrder \in Seq(Leaves) /\ StopOrder # <<>>
  /\ \A s \in Seq(OrdinaryLeaves) : s \in Seq(Leaves)
  /\ \A s \in Seq(Leaves) :
        Reverse(SubSeq(Ordinary, 1, Len(Ordinary) - Len(s))) \o StopOrder \in Seq(Leaves) \ {<<>>}
  /\ <<>> \o StopOrder = StopOrder
  <1> DEFINE S == OrdinaryLeaves \cup {Cap, Peer}
  <1>1. Ordinary \in Seq(OrdinaryLeaves) /\ Ordinary # <<>>
    BY CatalogAssumption DEF OrdinaryLeaves
  <1>2. \A s \in Seq(OrdinaryLeaves) : s \in Seq(S)
    OBVIOUS
  <1>3. <<Cap, Peer>> \in Seq(S) /\ <<Peer>> \in Seq(S) /\ Len(<<Cap, Peer>>) = 2 /\ Len(<<Peer>>) = 1
    OBVIOUS
  <1>4. Catalog \in Seq(S) /\ Len(Catalog) = Len(Ordinary) + 2
    BY <1>1, <1>2, <1>3 DEF Catalog
  <1>5. Leaves = S
    <2>1. \A i \in 1..(Len(Ordinary) + 2) :
             Catalog[i] = IF i <= Len(Ordinary) THEN Ordinary[i] ELSE <<Cap, Peer>>[i - Len(Ordinary)]
      BY <1>1, <1>2, <1>3 DEF Catalog
    <2>2. Len(Ordinary) \in Nat /\ DOMAIN Ordinary = 1..Len(Ordinary) /\ DOMAIN Catalog = 1..(Len(Ordinary) + 2)
      BY <1>1, <1>4
    <2>3. Catalog[Len(Ordinary) + 1] = Cap /\ Catalog[Len(Ordinary) + 2] = Peer
      BY <2>1, <2>2
    <2>4. \A i \in 1..Len(Ordinary) : Catalog[i] = Ordinary[i]
      BY <2>1, <2>2
    <2>5. S \subseteq Leaves
      BY <2>2, <2>3, <2>4 DEF Leaves, Range, OrdinaryLeaves
    <2>6. Leaves \subseteq S
      BY <1>4, <2>2 DEF Leaves, Range
    <2> QED BY <2>5, <2>6
  <1>6. ASSUME NEW t \in Seq(OrdinaryLeaves) PROVE Reverse(t) \in Seq(S)
    <2>1. \A i \in 1..Len(t) : t[Len(t) + 1 - i] \in S
      OBVIOUS
    <2>2. Reverse(t) \in [1..Len(t) -> S]
      BY <2>1 DEF Reverse
    <2> QED BY <2>2
  <1>7. StopOrder \in Seq(S) /\ StopOrder # <<>>
    BY <1>1, <1>3, <1>6 DEF StopOrder
  <1>8. ASSUME NEW s \in Seq(S)
        PROVE  Reverse(SubSeq(Ordinary, 1, Len(Ordinary) - Len(s))) \o StopOrder \in Seq(S) \ {<<>>}
    <2>1. SubSeq(Ordinary, 1, Len(Ordinary) - Len(s)) \in Seq(OrdinaryLeaves)
      BY <1>1
    <2>2. Reverse(SubSeq(Ordinary, 1, Len(Ordinary) - Len(s))) \in Seq(S)
      BY <1>6, <2>1, Zenon
    <2> QED BY <1>7, <2>2
  <1>9. <<>> \o StopOrder = StopOrder
    BY <1>7
  <1>10. Catalog # <<>>
    BY <1>1, <1>4
  <1> QED BY <1>1, <1>2, <1>4, <1>5, <1>7, <1>8, <1>9, <1>10, Zenon

-----------------------------------------------------------------------------
(* The operations on one hook. *)

\* SystemView of a hook that is in state "at"
ViewOf(at) ==
    [exclusive |-> ~at.multi /\ at.progs # {},
     progs |-> IF at.multi \/ OwnIn(at) = {} THEN at.progs \ Own ELSE {Allow}]

\* A program of the system is none of ours.
LEMMA SystemPrograms ==
  /\ Allow \notin Own /\ Foreign \notin Own
  /\ Allow \in Programs /\ Foreign \in Programs
  BY CatalogAssumption DEF Allow, Foreign, Own, Programs

\* bpf2socks_bpf_prog_attach adds its program or changes nothing, and takes a hook
\* that is not shared only from a placeholder.
LEMMA AttachEffect ==
  ASSUME NEW l \in Leaves, NEW g \in Gens, NEW at \in HookStates, Shaped(at), NEW kept,
         NEW o \in Attach(l, <<l, g>>, at, kept)
  PROVE  /\ o.ok \in BOOLEAN /\ o.at \in HookStates /\ Shaped(o.at)
         /\ o.kept \subseteq kept \cup {l}
         /\ ~o.ok => o.at = at
         /\ o.ok => OwnIn(o.at) = OwnIn(at) \cup {<<l, g>>}
         /\ ViewOf(o.at) = ViewOf(at)
         /\ o.ok /\ ViewOf(at).exclusive =>
               HookOf[l] \in Exclusive /\ ViewOf(at).progs = {Allow} /\ OwnIn(at) = {}
  <1>x. <<l, g>> \in Own /\ <<l, g>> \in Programs
    BY DEF Own, Programs
  <1>1. CASE o = Outcome(FALSE, at, kept)
    BY <1>1 DEF Outcome
  <1>2. CASE CanJoin(at) /\ o = Outcome(TRUE, Joined(at, <<l, g>>), kept)
    BY <1>2, <1>x, Zenon DEF Outcome, Joined, CanJoin, HookStates, Shaped, OwnIn, ViewOf
  <1>3. CASE /\ HookOf[l] \in Exclusive /\ at = Placeholder
             /\ o = Outcome(TRUE, Alone(<<l, g>>), kept \cup {l})
    BY <1>3, <1>x, SystemPrograms, Zenon DEF Outcome, Placeholder, Alone, HookStates, Shaped, OwnIn, ViewOf
  <1> QED
    BY <1>1, <1>2, <1>3, Zenon DEF Attach

\* bpf2socks_bpf_prog_detach takes its program away or changes nothing.
LEMMA DetachEffect ==
  ASSUME NEW l \in Leaves, NEW g \in Gens, NEW at \in HookStates, Shaped(at), NEW kept,
         NEW o \in Detach(l, <<l, g>>, at, kept)
  PROVE  /\ o.ok \in BOOLEAN /\ o.at \in HookStates /\ Shaped(o.at)
         /\ o.kept \subseteq kept
         /\ OwnIn(o.at) \in {OwnIn(at), OwnIn(at) \ {<<l, g>>}}
         /\ o.ok => OwnIn(o.at) = OwnIn(at) \ {<<l, g>>}
         /\ ViewOf(o.at) = ViewOf(at)
  <1>x. <<l, g>> \in Own /\ <<l, g>> \in Programs
    BY DEF Own, Programs
  <1>1. CASE \E k \in {kept, kept \ {l}} : o = Outcome(FALSE, at, k)
    BY <1>1 DEF Outcome
  <1>2. CASE at = Alone(<<l, g>>) /\ o = Outcome(TRUE, Placeholder, kept \ {l})
    BY <1>2, <1>x, SystemPrograms, Zenon DEF Outcome, Placeholder, Alone, HookStates, Shaped, OwnIn, ViewOf
  <1>3. CASE <<l, g>> \notin at.progs /\ o = Outcome(TRUE, at, kept)
    BY <1>3 DEF Outcome, OwnIn
  <1>4. CASE at.multi /\ o = Outcome(TRUE, Left(at, <<l, g>>), kept)
    BY <1>4, <1>x, Zenon DEF Outcome, Left, Empty, HookStates, Shaped, OwnIn, ViewOf
  <1> QED
    BY <1>1, <1>2, <1>3, <1>4, Zenon DEF Detach

\* So does asterisk_cgroup_detach_pins with the program it finds in a pin.
LEMMA DetachPinnedEffect ==
  ASSUME NEW x \in Own, NEW at \in HookStates, Shaped(at), NEW o \in DetachPinned(x, at)
  PROVE  /\ o.ok \in BOOLEAN /\ o.at \in HookStates /\ Shaped(o.at)
         /\ OwnIn(o.at) \in {OwnIn(at), OwnIn(at) \ {x}}
         /\ o.ok => OwnIn(o.at) = OwnIn(at) \ {x}
         /\ ViewOf(o.at) = ViewOf(at)
  <1>0. /\ o.ok \in BOOLEAN
        /\ \/ ~o.ok /\ o.at = at
           \/ x \notin at.progs /\ o.at = at
           \/ x \in at.progs /\ at.multi /\ o.at = Left(at, x)
           \/ x \in at.progs /\ ~at.multi /\ o.at = Placeholder
    <2> DEFINE after == CASE x \notin at.progs -> at
                          [] x \in at.progs /\ at.multi -> Left(at, x)
                          [] OTHER -> Placeholder
    <2>1. o \in {Outcome(FALSE, at, {}), Outcome(FALSE, after, {}), Outcome(TRUE, after, {})}
      BY Zenon DEF DetachPinned
    <2>2. \/ x \notin at.progs /\ after = at
          \/ x \in at.progs /\ at.multi /\ after = Left(at, x)
          \/ x \in at.progs /\ ~at.multi /\ after = Placeholder
      BY DEF HookStates
    <2> HIDE DEF after
    <2>3. o.ok \in BOOLEAN /\ (o.at = after \/ (o.ok = FALSE /\ o.at = at))
      <3>1. CASE o = Outcome(FALSE, at, {})
        BY <3>1 DEF Outcome
      <3>2. CASE o = Outcome(FALSE, after, {})
        BY <3>2 DEF Outcome
      <3>3. CASE o = Outcome(TRUE, after, {})
        BY <3>3 DEF Outcome
      <3> QED BY <2>1, <3>1, <3>2, <3>3, Zenon
    <2> QED BY <2>2, <2>3
  <1>1. CASE ~o.ok /\ o.at = at
    BY <1>0, <1>1
  <1>2. CASE x \notin at.progs /\ o.at = at
    BY <1>0, <1>2 DEF OwnIn
  <1>3. CASE x \in at.progs /\ at.multi /\ o.at = Left(at, x)
    BY <1>0, <1>3 DEF Left, Empty, HookStates, Shaped, OwnIn, ViewOf
  <1>4. CASE x \in at.progs /\ ~at.multi /\ o.at = Placeholder
    <2>1. at.progs = {x}
      BY <1>4 DEF Shaped
    <2> QED
      BY <1>0, <1>4, <2>1, SystemPrograms DEF Placeholder, Alone, HookStates, Shaped, OwnIn, ViewOf
  <1> QED
    BY <1>0, <1>1, <1>2, <1>3, <1>4

\* The rest of the system takes none or all of ours away.
LEMMA SystemEffect ==
  ASSUME NEW at \in HookStates, Shaped(at), NEW to \in SystemChanges(at)
  PROVE  /\ to \in HookStates /\ Shaped(to)
         /\ OwnIn(to) \in {OwnIn(at), {}}
  <1>1. CASE \E x \in {Allow, Foreign} : to = Alone(x)
    BY <1>1, SystemPrograms DEF Alone, HookStates, Shaped, OwnIn
  <1>2. CASE to = Joined(at, Foreign)
    BY <1>2, SystemPrograms DEF Joined, HookStates, Shaped, OwnIn
  <1>3. CASE \E x \in {Allow, Foreign} : x \in at.progs /\ to = Left(at, x)
    BY <1>3, SystemPrograms DEF Left, Empty, HookStates, Shaped, OwnIn
  <1> QED
    BY <1>1, <1>2, <1>3 DEF SystemChanges

-----------------------------------------------------------------------------
(* One process at a time. *)

Step(p) == StartStep(p) \/ StopStep(p) \/ DetachPins(p) \/ UnlinkPins(p) \/ Crash(p)

\* The record of a process after its step, and that it touches no other's.
Moved(p) ==
    /\ proc' \in [Procs -> ProcRecords]
    /\ \A q \in Procs : q # p => proc'[q] = proc[q]
    /\ Consistent(proc'[p])

\* A step that gives a process a consistent record moves that process and no other.
LEMMA Moves ==
  ASSUME Typed, NEW p \in Procs, NEW r \in ProcRecords, Consistent(r), proc' = [proc EXCEPT ![p] = r]
  PROVE  Moved(p) /\ proc'[p] = r
  BY DEF Moved, Typed

\* goto fail
LEMMA FailMoves ==
  ASSUME Typed, Control, NEW p \in Procs, Fail(p, <<>>), Starting(p), proc[p].ino # None
  PROVE  Moved(p)
  <1> DEFINE r == [proc[p] EXCEPT !.pc = "detach", !.todo = StopOrder, !.then = "idle"]
  <1>0. proc[p] \in ProcRecords
    BY DEF Typed
  <1>1. r \in ProcRecords
    BY <1>0, CatalogFacts, Zenon DEF ProcRecords, Thens, Steps, StopSteps
  <1>2. Consistent(r)
    BY <1>0, CatalogFacts DEF Starting, ProcRecords, Consistent, StartSteps, ServeSteps, StopSteps,
                CommandSteps, ReconcileSteps, OwnerSteps
  <1>3. proc' = [proc EXCEPT ![p] = r]
    BY CatalogFacts, Zenon DEF Fail
  <1> QED BY <1>1, <1>2, <1>3, Moves, Zenon

\* The call of asterisk_cgroup_reconcile
LEMMA ReconcileMoves ==
  ASSUME Typed, Control, NEW p \in Procs, NEW then, Reconcile(p, then),
         \/ proc[p].pid # None /\ then \in {"load", "unlock"} /\ proc[p].ino # None
         \/ proc[p].pid = None /\ then \in {"clean", "exit"} /\ proc[p].ino = None
  PROVE  Moved(p)
  <1> DEFINE r == [proc[p] EXCEPT !.pc = "detachPins", !.todo = Catalog, !.then = then]
  <1>0. proc[p] \in ProcRecords
    BY DEF Typed
  <1>1. r \in ProcRecords
    BY <1>0, CatalogFacts, Zenon DEF ProcRecords, Thens, Steps, ReconcileSteps
  <1>2. Consistent(r)
    BY <1>0, CatalogFacts DEF ProcRecords, Consistent, StartSteps, ServeSteps, StopSteps,
                CommandSteps, ReconcileSteps, OwnerSteps
  <1>3. proc' = [proc EXCEPT ![p] = r]
    BY Zenon DEF Reconcile
  <1> QED BY <1>1, <1>2, <1>3, Moves, Zenon

\* A process that ends
LEMMA IdleMoves ==
  ASSUME Typed, NEW p \in Procs, proc' = [proc EXCEPT ![p] = Idle]
  PROVE  Moved(p)
  BY IdleRecord, Moves, Zenon

\* The steps of --start change its record as its next step expects it.
LEMMA StartMoves ==
  ASSUME Typed, Control, HooksShaped, NEW p \in Procs, StartStep(p)
  PROVE  Moved(p)
  <1> USE DEF StartSteps, ServeSteps, StopSteps, CommandSteps, ReconcileSteps, OwnerSteps
  <1>0. proc[p] \in ProcRecords /\ Consistent(proc[p])
    BY DEF Typed, Control
  <1>1. CASE Start(p)
    <2>1. PICK g \in FreePids, i \in IF lockPath = None THEN FreeInodes ELSE {lockPath} :
             proc' = [proc EXCEPT ![p].pc = "lock", ![p].pid = g, ![p].ino = i]
      BY <1>1, Zenon DEF Start
    <2>2. proc[p] = Idle /\ g \in Gens \ {None} /\ i \in Inodes \ {None}
      BY <1>0, <1>1, CatalogAssumption, ProcessAssumption
         DEF Start, Consistent, FreePids, FreeInodes, Typed, Maybe
    <2> DEFINE r == [proc[p] EXCEPT !.pc = "lock", !.pid = g, !.ino = i]
    <2>3. proc' = [proc EXCEPT ![p] = r]
      BY <2>1, Zenon
    <2>4. r \in ProcRecords
      BY <1>0, <2>2, Zenon DEF ProcRecords, Steps
    <2>5. Consistent(r)
      BY <1>0, <2>2 DEF Idle, ProcRecords, Consistent
    <2> QED BY <2>3, <2>4, <2>5, Moves, Zenon
  <1>2. CASE Go(p, "prepare") /\ Lock(p)
    BY <1>0, <1>2, Moves, Zenon DEF Lock, Go, ProcRecords, Thens, Steps, Consistent
  <1>3. CASE proc' = [proc EXCEPT ![p] = Idle]
    BY <1>3, IdleMoves, Zenon
  <1>4. CASE Prepare(p)
    BY <1>0, <1>4, Moves DEF Prepare, Go, ProcRecords, Thens, Steps, Consistent
  <1>5. CASE Fail(p, <<>>) /\ proc[p].pc \in OwnerSteps \ {"unlinkLock"}
    BY <1>0, <1>5, FailMoves DEF Consistent, Starting
  <1>6. CASE CreateMaps(p)
    BY <1>0, <1>5, <1>6, Moves DEF CreateMaps, Go, ProcRecords, Thens, Steps, Consistent
  <1>7. CASE LoadTcPrograms(p)
    BY <1>0, <1>5, <1>7, ReconcileMoves DEF LoadTcPrograms, Consistent
  <1>8. CASE LoadPrograms(p)
    <2>1. CASE proc' = [proc EXCEPT ![p].pc = "pin", ![p].todo = Ordinary]
      <3> DEFINE r == [proc[p] EXCEPT !.pc = "pin", !.todo = Ordinary]
      <3>1. proc' = [proc EXCEPT ![p] = r]
        BY <2>1, Zenon
      <3>2. r \in ProcRecords
        BY <1>0, CatalogFacts, Zenon DEF ProcRecords, Steps
      <3>3. Consistent(r)
        BY <1>0, <1>8, CatalogFacts DEF LoadPrograms, ProcRecords, Consistent
      <3> QED BY <3>1, <3>2, <3>3, Moves, Zenon
    <2> QED BY <1>0, <1>5, <1>8, <2>1 DEF LoadPrograms
  <1>9. CASE PinPrograms(p)
    <2>1. CASE Tail(proc[p].todo) # <<>> /\ proc' = [proc EXCEPT ![p].todo = Tail(proc[p].todo)]
      BY <1>0, <1>9, <2>1, Moves, LoopFacts, CatalogFacts, Zenon DEF PinPrograms, ProcRecords, Consistent
    <2>2. CASE proc' = [proc EXCEPT ![p].pc = "attach", ![p].todo = Ordinary]
      <3> DEFINE r == [proc[p] EXCEPT !.pc = "attach", !.todo = Ordinary]
      <3>1. proc' = [proc EXCEPT ![p] = r]
        BY <2>2, Zenon
      <3>2. r \in ProcRecords
        BY <1>0, CatalogFacts, Zenon DEF ProcRecords, Steps
      <3>3. Consistent(r)
        BY <1>0, <1>9, CatalogFacts DEF PinPrograms, ProcRecords, Consistent
      <3> QED BY <3>1, <3>2, <3>3, Moves, Zenon
    <2> QED BY <1>0, <1>5, <1>9, <2>1, <2>2 DEF PinPrograms
  <1>10. CASE PinCap(p)
    BY <1>0, <1>5, <1>10, Moves DEF PinCap, Go, ProcRecords, Thens, Steps, Consistent
  <1>11. CASE UnpinCap(p)
    BY <1>0, <1>5, <1>11, Moves DEF UnpinCap, ProcRecords, Thens, Steps, Consistent
  <1>12. CASE PinPeer(p)
    BY <1>0, <1>5, <1>12, Moves, ZenonT(30) DEF PinPeer, Go, ProcRecords, Thens, Steps, Consistent
  <1>13. CASE AttachPeer(p)
    BY <1>0, <1>5, <1>13, Moves DEF AttachPeer, Go, ProcRecords, Thens, Steps, Consistent
  <1>14. CASE AttachCap(p)
    BY SMTT(30), <1>0, <1>5, <1>14, Moves DEF AttachCap, Go, ProcRecords, Thens, Steps, Consistent
  <1>15. CASE DetachCap(p)
    BY <1>0, <1>5, <1>15, Moves DEF DetachCap, ProcRecords, Thens, Steps, Consistent
  <1>16. CASE InstallHandlers(p)
    BY <1>0, <1>5, <1>16, Moves DEF InstallHandlers, Go, ProcRecords, Thens, Steps, Consistent
  <1>17. CASE OpenPidFile(p)
    BY <1>0, <1>5, <1>17, Moves DEF OpenPidFile, Go, ProcRecords, Thens, Steps, Consistent
  <1>18. CASE WritePidFile(p)
    BY <1>0, <1>5, <1>18, Moves DEF WritePidFile, Go, ProcRecords, Thens, Steps, Consistent
  <1>19. CASE EndBridge(p)
    BY <1>0, <1>5, <1>19 DEF EndBridge
  <1>20. CASE CleanupFixedPins(p)
    BY <1>0, <1>20, ReconcileMoves DEF CleanupFixedPins, Consistent
  <1>21. CASE Unlock(p)
    <2> DEFINE r == [proc[p] EXCEPT !.pc = "unlinkLock", !.ino = None]
    <2>1. proc' = [proc EXCEPT ![p] = r]
      BY <1>21, Zenon DEF Unlock
    <2>2. r \in ProcRecords
      BY <1>0, Zenon DEF ProcRecords, Steps
    <2>3. Consistent(r)
      BY <1>0, <1>21 DEF Unlock, ProcRecords, Consistent
    <2> QED BY <2>1, <2>2, <2>3, Moves, Zenon
  <1>a. /\ \A l \in Leaves : HookOf[l] \in Hooks /\ hook[HookOf[l]] \in HookStates /\ Shaped(hook[HookOf[l]])
        /\ proc[p].pid # None => proc[p].pid \in Gens
    BY <1>0 DEF Hooks, Typed, HooksShaped, ProcRecords
  <1>22. CASE AttachPrograms(p)
    <2> DEFINE l == Head(proc[p].todo)
    <2>1. proc[p].pc = "attach" /\ proc[p].todo \in Seq(OrdinaryLeaves) /\ proc[p].todo # <<>>
          /\ proc[p].pid \in Gens
      BY <1>0, <1>22, <1>a, Zenon DEF AttachPrograms, Consistent
    <2>2. l \in OrdinaryLeaves /\ l \in Leaves /\ Tail(proc[p].todo) \in Seq(OrdinaryLeaves)
          /\ Tail(proc[p].todo) \in Seq(Leaves)
      BY <2>1, LoopFacts, CatalogFacts
    <2>3. PICK o \in AttachOutcomes(p, l) :
             proc' = IF ~o.ok
                     THEN [proc EXCEPT ![p].pc = "detach",
                              ![p].todo = Reverse(SubSeq(Ordinary, 1, Len(Ordinary) - Len(proc[p].todo))) \o StopOrder]
                     ELSE [proc EXCEPT ![p].pc = IF Tail(proc[p].todo) = <<>> THEN "capPin" ELSE @,
                              ![p].todo = Tail(proc[p].todo), ![p].kept = o.kept]
      BY <1>22, Zenon DEF AttachPrograms
    <2>4. o.ok \in BOOLEAN /\ o.kept \in SUBSET OrdinaryLeaves
      BY <1>0, <1>a, <2>1, <2>2, AttachEffect DEF AttachOutcomes, ProcRecords
    <2>5. CASE o.ok
      <3> DEFINE r == [proc[p] EXCEPT !.pc = IF Tail(proc[p].todo) = <<>> THEN "capPin" ELSE @,
                                      !.todo = Tail(proc[p].todo), !.kept = o.kept]
      <3>1. proc' = [proc EXCEPT ![p] = r]
        BY <2>3, <2>5, Zenon
      <3>2. r \in ProcRecords
        BY <1>0, <2>2, <2>4, ZenonT(30) DEF ProcRecords, Steps
      <3>3. Consistent(r)
        BY <1>0, <2>1, <2>2 DEF ProcRecords, Consistent
      <3> QED BY <3>1, <3>2, <3>3, Moves, Zenon
    <2>6. CASE ~o.ok
      <3> DEFINE s == Reverse(SubSeq(Ordinary, 1, Len(Ordinary) - Len(proc[p].todo))) \o StopOrder
                 r == [proc[p] EXCEPT !.pc = "detach", !.todo = s]
      <3>1. proc' = [proc EXCEPT ![p] = r]
        BY <2>3, <2>6, Zenon
      <3>2. s \in Seq(Leaves) /\ s # <<>>
        BY <1>0, CatalogFacts, Zenon DEF ProcRecords
      <3> HIDE DEF s
      <3>3. r \in ProcRecords
        BY <1>0, <3>2, Zenon DEF ProcRecords, Steps
      <3>4. Consistent(r)
        BY <1>0, <2>1, <3>2 DEF ProcRecords, Consistent
      <3> QED BY <3>1, <3>3, <3>4, Moves, Zenon
    <2> QED BY <2>4, <2>5, <2>6
  <1>23. CASE DetachPrograms(p)
    <2> DEFINE l == Head(proc[p].todo)
    <2>1. proc[p].pc = "detach" /\ proc[p].todo \in Seq(Leaves) /\ proc[p].todo # <<>> /\ proc[p].pid \in Gens
      BY <1>0, <1>23, <1>a, Zenon DEF DetachPrograms, Consistent, ProcRecords
    <2>2. l \in Leaves /\ Tail(proc[p].todo) \in Seq(Leaves)
      BY <2>1, LoopFacts
    <2>3. PICK o \in DetachOutcomes(p, l) :
             proc' = [proc EXCEPT ![p].pc = IF Tail(proc[p].todo) = <<>> THEN "restore" ELSE @,
                                  ![p].todo = Tail(proc[p].todo), ![p].kept = o.kept]
      BY <1>23, Zenon DEF DetachPrograms
    <2>4. o.kept \in SUBSET OrdinaryLeaves
      BY <1>0, <1>a, <2>1, <2>2, DetachEffect DEF DetachOutcomes, ProcRecords
    <2> DEFINE r == [proc[p] EXCEPT !.pc = IF Tail(proc[p].todo) = <<>> THEN "restore" ELSE @,
                                    !.todo = Tail(proc[p].todo), !.kept = o.kept]
    <2>5. proc' = [proc EXCEPT ![p] = r]
      BY <2>3, Zenon
    <2>6. r \in ProcRecords
      BY <1>0, <2>2, <2>4, ZenonT(30) DEF ProcRecords, Steps
    <2>7. Consistent(r)
      BY <1>0, <2>1, <2>2 DEF ProcRecords, Consistent
    <2> QED BY <2>5, <2>6, <2>7, Moves, Zenon
  <1>24. CASE RestoreOne(p)
    <2>1. PICK l \in proc[p].kept : proc' = [proc EXCEPT ![p].kept = @ \ {l}]
      BY <1>24, Zenon DEF RestoreOne
    <2> DEFINE r == [proc[p] EXCEPT !.kept = @ \ {l}]
    <2>2. proc' = [proc EXCEPT ![p] = r]
      BY <2>1
    <2>3. r \in ProcRecords
      BY <1>0 DEF ProcRecords
    <2>4. Consistent(r)
      BY <1>0, <1>24 DEF RestoreOne, ProcRecords, Consistent
    <2> QED BY <2>2, <2>3, <2>4, Moves, Zenon
  <1> QED
    BY <1>1, <1>2, <1>3, <1>4, <1>6, <1>7, <1>8, <1>9, <1>10, <1>11, <1>12, <1>13, <1>14, <1>15, <1>16,
       <1>17, <1>18, <1>19, <1>20, <1>21, <1>22, <1>23, <1>24 DEF StartStep, Lock, UnlinkLock

\* So do the end of asterisk_cgroup_reconcile,
LEMMA ReturnMoves ==
  ASSUME Typed, Control, NEW p \in Procs, proc[p].pc \in ReconcileSteps, NEW ok \in BOOLEAN, Return(p, ok)
  PROVE  Moved(p)
  <1> USE DEF StartSteps, ServeSteps, StopSteps, CommandSteps, ReconcileSteps, OwnerSteps
  <1>0. proc[p] \in ProcRecords /\ Consistent(proc[p])
    BY DEF Typed, Control
  <1>1. CASE proc[p].then = "load" /\ ~ok
    BY <1>0, <1>1, FailMoves DEF Return, Consistent, Starting
  <1>2. CASE proc[p].then = "exit" \/ (proc[p].then = "clean" /\ ~ok)
    <2>1. proc' = [proc EXCEPT ![p] = Idle]
      BY <1>2 DEF Return
    <2> QED BY <2>1, IdleMoves, Zenon
  <1>3. CASE /\ ~(proc[p].then = "load" /\ ~ok)
             /\ ~(proc[p].then = "exit" \/ (proc[p].then = "clean" /\ ~ok))
    <2> DEFINE t == proc[p].then
               e == <<>>
               r == [proc[p] EXCEPT !.pc = t, !.todo = e, !.then = "idle"]
    <2>1. proc' = [proc EXCEPT ![p].pc = proc[p].then, ![p].todo = <<>>, ![p].then = "idle"]
      BY <1>3, Zenon DEF Return
    <2>0. proc' = [proc EXCEPT ![p] = r]
      BY <2>1, Zenon
    <2>2. proc[p].then \in {"load", "unlock", "clean"}
      BY <1>0, <1>3 DEF Consistent
    <2>3. t \in {"load", "unlock", "clean"} /\ t \in Steps /\ e \in Seq(Leaves)
      BY <2>2 DEF Steps
    <2>4. (t = "clean") <=> (proc[p].pid = None)
      BY <1>0, <2>2 DEF Consistent
    <2> HIDE DEF t, e
    <2>5. r \in ProcRecords
      BY <1>0, <2>3, Zenon DEF ProcRecords, Thens
    <2>6. Consistent(r)
      BY <1>0, <2>3, <2>4 DEF ProcRecords, Consistent
    <2> QED BY <2>0, <2>5, <2>6, Moves, Zenon
  <1> QED BY <1>1, <1>2, <1>3

\* its loops,
LEMMA ReconcileLoopMoves ==
  ASSUME Typed, Control, HooksShaped, NEW p \in Procs, DetachPins(p) \/ UnlinkPins(p)
  PROVE  Moved(p)
  <1> USE DEF StartSteps, ServeSteps, StopSteps, CommandSteps, ReconcileSteps, OwnerSteps
  <1>0. proc[p] \in ProcRecords /\ Consistent(proc[p])
    BY DEF Typed, Control
  <1>1. /\ proc[p].pc \in ReconcileSteps
        /\ proc[p].todo \in Seq(Leaves) /\ proc[p].todo # <<>>
        /\ Tail(proc[p].todo) \in Seq(Leaves)
    BY <1>0, LoopFacts, Zenon DEF DetachPins, UnlinkPins, ProcRecords, Consistent
  <1>2. CASE Tail(proc[p].todo) # <<>> /\ proc' = [proc EXCEPT ![p].todo = Tail(proc[p].todo)]
    <2> DEFINE r == [proc[p] EXCEPT !.todo = Tail(proc[p].todo)]
    <2>1. proc' = [proc EXCEPT ![p] = r]
      BY <1>2
    <2>2. r \in ProcRecords
      BY <1>0, <1>1, Zenon DEF ProcRecords
    <2>3. Consistent(r)
      BY <1>0, <1>1, <1>2 DEF ProcRecords, Consistent
    <2> QED BY <2>1, <2>2, <2>3, Moves, Zenon
  <1>3. CASE proc' = [proc EXCEPT ![p].pc = "unlinkPins", ![p].todo = Catalog]
    <2> DEFINE r == [proc[p] EXCEPT !.pc = "unlinkPins", !.todo = Catalog]
    <2>1. proc' = [proc EXCEPT ![p] = r]
      BY <1>3, Zenon
    <2>2. r \in ProcRecords
      BY <1>0, CatalogFacts, ZenonT(30) DEF ProcRecords, Steps
    <2>3. Consistent(r)
      BY <1>0, <1>1, CatalogFacts DEF ProcRecords, Consistent
    <2> QED BY <2>1, <2>2, <2>3, Moves, Zenon
  <1>4. CASE Return(p, TRUE) \/ Return(p, FALSE)
    BY <1>1, <1>4, ReturnMoves, Zenon
  <1>5. CASE DetachPins(p)
    <2>1. PICK o : \/ ~o.ok /\ Return(p, FALSE)
                   \/ Tail(proc[p].todo) # <<>> /\ proc' = [proc EXCEPT ![p].todo = Tail(proc[p].todo)]
                   \/ proc' = [proc EXCEPT ![p].pc = "unlinkPins", ![p].todo = Catalog]
      BY <1>5, Zenon DEF DetachPins
    <2> QED BY <2>1, <1>2, <1>3, <1>4, Zenon
  <1>6. CASE UnlinkPins(p)
    BY <1>6, <1>2, <1>4, Zenon DEF UnlinkPins
  <1> QED BY <1>5, <1>6

\* and the steps of --stop.
LEMMA StopMoves ==
  ASSUME Typed, Control, NEW p \in Procs, StopStep(p)
  PROVE  Moved(p)
  <1> USE DEF StartSteps, ServeSteps, StopSteps, CommandSteps, ReconcileSteps, OwnerSteps
  <1>0. proc[p] \in ProcRecords /\ Consistent(proc[p])
    BY DEF Typed, Control
  <1>1. CASE StopCommand(p)
    <2>0. proc[p] = Idle
      BY <1>0, <1>1 DEF StopCommand, Consistent
    <2>1. CASE lockPath = None
      BY <1>1, <2>0, <2>1, ReconcileMoves DEF StopCommand, Idle
    <2>2. CASE lockPath # None
      <3> DEFINE r == [proc[p] EXCEPT !.pc = "tryLock", !.ino = lockPath]
      <3>1. proc' = [proc EXCEPT ![p] = r]
        BY <1>1, <2>2, Zenon DEF StopCommand
      <3>2. r \in ProcRecords
        BY <1>0, Zenon DEF Typed, Maybe, ProcRecords, Steps
      <3>3. Consistent(r)
        BY <1>0, <2>0, <2>2 DEF Idle, ProcRecords, Consistent
      <3> QED BY <3>1, <3>2, <3>3, Moves, Zenon
    <2> QED BY <2>1, <2>2
  <1>2. CASE TryLock(p)
    BY <1>0, <1>2, Moves DEF TryLock, Go, ProcRecords, Thens, Steps, Consistent
  <1>3. CASE Kill(p)
    BY <1>0, <1>3, Moves, Zenon DEF Kill, Go, ProcRecords, Thens, Steps, Consistent
  <1>4. CASE CloseLock(p)
    <2> DEFINE r == [proc[p] EXCEPT !.pc = "detachPins", !.todo = Catalog, !.then = "clean", !.ino = None]
    <2>1. proc' = [proc EXCEPT ![p] = r]
      BY <1>4, Zenon DEF CloseLock
    <2>2. r \in ProcRecords
      BY <1>0, CatalogFacts, ZenonT(30) DEF ProcRecords, Thens, Steps
    <2>3. Consistent(r)
      BY <1>0, <1>4, CatalogFacts DEF CloseLock, ProcRecords, Consistent
    <2> QED BY <2>1, <2>2, <2>3, Moves, Zenon
  <1>5. CASE Clean(p)
    BY <1>0, <1>5, ReconcileMoves DEF Clean, Consistent
  <1> QED BY <1>1, <1>2, <1>3, <1>4, <1>5 DEF StopStep

\* A step changes one process's record.
LEMMA StepMoves ==
  ASSUME Typed, Control, HooksShaped, NEW p \in Procs, Step(p)
  PROVE  Moved(p) /\ Control'
  <1>1. Moved(p)
    BY StartMoves, StopMoves, ReconcileLoopMoves, IdleMoves DEF Step, Crash
  <1> QED BY <1>1 DEF Moved, Control

-----------------------------------------------------------------------------
(* The hooks and the pins. *)

\* A step on the hook of one leaf: what the system sees stays, and one program of ours
\* for the leaf comes or goes.
HookStep(l, at) ==
    LET old == hook[HookOf[l]]
    IN  /\ hook' = [hook EXCEPT ![HookOf[l]] = at]
        /\ Shaped(at) /\ ViewOf(at) = ViewOf(old)
        /\ \/ OwnIn(at) = OwnIn(old)
           \/ \E g \in Gens : OwnIn(at) = OwnIn(old) \ {<<l, g>>}
           \/ \E g \in Gens :
                 /\ OwnIn(at) = OwnIn(old) \cup {<<l, g>>}
                 /\ ViewOf(old).exclusive =>
                       HookOf[l] \in Exclusive /\ ViewOf(old).progs = {Allow} /\ OwnIn(old) = {}

KernelStep ==
    /\ UNCHANGED hook \/ \E l \in Leaves, at \in HookStates : HookStep(l, at)
    /\ pin' \in [Leaves -> Maybe(Gens)]
    /\ UNCHANGED edits

\* A step of a process changes one hook at most, and that as HookStep says.
LEMMA StepOnKernel ==
  ASSUME Typed, Control, HooksShaped, NEW p \in Procs, Step(p)
  PROVE  KernelStep
  <1>0. /\ proc[p] \in ProcRecords /\ Consistent(proc[p])
        /\ proc[p].pid # None => proc[p].pid \in Gens
        /\ \A l \in Leaves : hook[HookOf[l]] \in HookStates /\ Shaped(hook[HookOf[l]])
        /\ pin \in [Leaves -> Maybe(Gens)]
        /\ Cap \in Leaves /\ Peer \in Leaves
    BY CatalogFacts, Zenon DEF Typed, Control, ProcRecords, Hooks, HooksShaped
  <1>1. /\ proc[p].pc \in OwnerSteps => proc[p].pid \in Gens
        /\ proc[p].pc \in {"pin", "attach", "detach", "detachPins", "unlinkPins"} =>
              Head(proc[p].todo) \in Leaves
    <2>1. proc[p].todo \in Seq(Leaves)
      BY <1>0 DEF ProcRecords
    <2>2. proc[p].pc \in {"pin", "attach", "detach", "detachPins", "unlinkPins"} => proc[p].todo # <<>>
      BY <1>0 DEF Consistent, ReconcileSteps
    <2>3. proc[p].pc \in OwnerSteps => proc[p].pid \in Gens
      BY <1>0 DEF Consistent
    <2> QED BY <2>1, <2>2, <2>3, LoopFacts
  <1>2. ASSUME NEW l \in Leaves, NEW o \in AttachOutcomes(p, l), proc[p].pid \in Gens, Change(p, l, o)
        PROVE  KernelStep
    <2>1. o.at \in HookStates /\ HookStep(l, o.at)
      BY <1>0, <1>2, AttachEffect DEF AttachOutcomes, Change, HookStep
    <2> QED BY Zenon, <1>0, <1>2, <2>1 DEF Change, KernelStep, noteVars
  <1>3. ASSUME NEW l \in Leaves, NEW o \in DetachOutcomes(p, l), proc[p].pid \in Gens, Change(p, l, o)
        PROVE  KernelStep
    <2>1. o.at \in HookStates /\ HookStep(l, o.at)
      BY <1>0, <1>3, DetachEffect DEF DetachOutcomes, Change, HookStep
    <2> QED BY <1>0, <1>3, <2>1 DEF Change, KernelStep, noteVars
  <1>4. CASE AttachPrograms(p) \/ AttachCap(p) \/ AttachPeer(p)
    BY <1>0, <1>1, <1>2, <1>4, Zenon DEF AttachPrograms, AttachCap, AttachPeer, OwnerSteps, StartSteps
  <1>5. CASE DetachPrograms(p) \/ RestoreOne(p) \/ DetachCap(p)
    <2>1. proc[p].pid \in Gens
      BY <1>1, <1>5, Zenon DEF DetachPrograms, RestoreOne, DetachCap, OwnerSteps, StartSteps, StopSteps
    <2>2. \A l \in proc[p].kept : l \in Leaves
      BY <1>0, CatalogFacts DEF ProcRecords
    <2> QED BY <1>0, <1>1, <1>3, <1>5, <2>1, <2>2, Zenon DEF DetachPrograms, RestoreOne, DetachCap
  <1>6. CASE DetachPins(p)
    <2> DEFINE l == Head(proc[p].todo)
    <2>1. PICK o \in IF pin[l] = None THEN {Outcome(TRUE, hook[HookOf[l]], {})}
                     ELSE DetachPinned(<<l, pin[l]>>, hook[HookOf[l]]) : Change(p, l, o)
      BY <1>6, Zenon DEF DetachPins
    <2>2. l \in Leaves
      BY Zenon, <1>1, <1>6 DEF DetachPins
    <2> HIDE DEF l
    <2>3. CASE pin[l] = None
      <3>1. o.at = hook[HookOf[l]]
        BY <2>1, <2>3 DEF Outcome
      <3>2. UNCHANGED hook
        BY <2>1, <3>1 DEF Change, Typed
      <3> QED BY <1>0, <2>1, <3>2 DEF Change, KernelStep, noteVars
    <2>4. CASE pin[l] # None
      <3>1. <<l, pin[l]>> \in Own /\ pin[l] \in Gens
        BY Zenon, <1>0, <2>2, <2>4 DEF Own, Maybe
      <3>2. o.at \in HookStates /\ HookStep(l, o.at)
        BY <1>0, <2>1, <2>2, <2>4, <3>1, DetachPinnedEffect DEF Change, HookStep
      <3> QED BY <1>0, <2>1, <2>2, <3>2 DEF Change, KernelStep, noteVars
    <2> QED BY <2>3, <2>4
  <1>7. CASE PinPrograms(p) \/ PinCap(p) \/ PinPeer(p) \/ UnpinCap(p) \/ UnlinkPins(p)
    <2>1. proc[p].pc # "unlinkPins" => proc[p].pid \in Gens
      BY <1>1, <1>7, Zenon DEF PinPrograms, PinCap, PinPeer, UnpinCap, UnlinkPins, OwnerSteps, StartSteps
    <2>2. UNCHANGED <<hook, edits>>
      BY <1>7, Zenon DEF PinPrograms, PinCap, PinPeer, UnpinCap, UnlinkPins, noteVars
    <2>3. pin' \in [Leaves -> Maybe(Gens)]
      BY <1>0, <1>1, <1>7, <2>1, Zenon DEF PinPrograms, PinCap, PinPeer, UnpinCap, UnlinkPins, Maybe
    <2> QED BY <2>2, <2>3 DEF KernelStep
  <1>8. CASE UNCHANGED <<hook, pin, edits>>
    BY <1>0, <1>8 DEF KernelStep
  <1> QED
    BY <1>4, <1>5, <1>6, <1>7, <1>8, Zenon
       DEF Step, StartStep, StopStep, Start, Lock, Prepare, CreateMaps, LoadTcPrograms, LoadPrograms,
           InstallHandlers, OpenPidFile, WritePidFile, EndBridge, CleanupFixedPins, Unlock, UnlinkLock,
           StopCommand, TryLock, Kill, CloseLock, Clean, Crash, kernelVars, noteVars

\* The hooks keep their shape.
LEMMA KernelShape ==
  ASSUME Typed, HooksShaped, KernelStep
  PROVE  hook' \in [Hooks -> HookStates] /\ HooksShaped'
  <1>1. CASE UNCHANGED hook
    BY <1>1 DEF Typed, HooksShaped
  <1>2. ASSUME NEW l \in Leaves, NEW at \in HookStates, HookStep(l, at)
        PROVE  hook' \in [Hooks -> HookStates] /\ HooksShaped'
    <2>1. HookOf[l] \in Hooks
      BY Zenon DEF Hooks
    <2>2. hook' = [hook EXCEPT ![HookOf[l]] = at] /\ Shaped(at)
      BY <1>2 DEF HookStep
    <2>3. \A x \in OwnIn(at) : x \in OwnIn(hook[HookOf[l]]) \/ \E g \in Gens : x = <<l, g>>
      BY <1>2 DEF HookStep
    <2>4. \A x \in OwnIn(at) : HookOf[x[1]] = HookOf[l]
      BY <2>1, <2>3 DEF HooksShaped
    <2> QED BY <2>1, <2>2, <2>4 DEF Typed, HooksShaped
  <1> QED BY <1>1, <1>2 DEF KernelStep

-----------------------------------------------------------------------------
(* The refinement of HookOwner. *)

View == [h \in Hooks |-> SystemView(h)]
Ours == [h \in Hooks |-> hook[h].progs \cap Own]

\* A step of ours on a hook is one of HookOwner's guests, or none.
LEMMA GuestStep ==
  ASSUME Typed, NEW l \in Leaves, NEW at \in HookStates, HookStep(l, at), UNCHANGED edits
  PROVE  Owner!Guests \/ UNCHANGED <<View, Ours, edits>>
  <1> DEFINE h0 == HookOf[l]
  <1>0. h0 \in Hooks /\ hook \in [Hooks -> HookStates] /\ hook' = [hook EXCEPT ![h0] = at]
    BY DEF Hooks, Typed, HookStep
  <1>1. View' = View
    <2>1. ViewOf(at) = ViewOf(hook[h0])
      BY DEF HookStep
    <2>2. \A h \in Hooks : SystemView(h) = ViewOf(hook[h]) /\ SystemView(h)' = ViewOf(hook'[h])
      BY DEF SystemView, ViewOf, OwnIn
    <2>3. \A h \in Hooks : ViewOf(hook'[h]) = ViewOf(hook[h])
      BY <1>0, <2>1
    <2> QED BY <2>2, <2>3 DEF View
  <1>2. Ours' = [Ours EXCEPT ![h0] = OwnIn(at)]
    BY <1>0, Zenon DEF Ours, OwnIn
  <1>3. Ours[h0] = OwnIn(hook[h0]) /\ View[h0] = ViewOf(hook[h0])
    BY <1>0, Zenon DEF Ours, View, OwnIn, SystemView, ViewOf
  <1>4. CASE OwnIn(at) = Ours[h0]
    BY <1>1, <1>2, <1>4 DEF Ours
  <1>5. CASE OwnIn(at) # Ours[h0]
    <2>0. Ours' # Ours
      BY <1>0, <1>2, <1>5 DEF Ours
    <2>1. ASSUME NEW g \in Gens, OwnIn(at) = OwnIn(hook[h0]) \ {<<l, g>>} PROVE Owner!Give(h0)
      <3>1. <<l, g>> \in Ours[h0] /\ Ours' = [Ours EXCEPT ![h0] = @ \ {<<l, g>>}]
        BY <1>2, <1>3, <1>5, <2>1
      <3> QED BY <1>1, <3>1, Zenon DEF Owner!Give, View, Ours
    <2>2. ASSUME NEW g \in Gens, OwnIn(at) = OwnIn(hook[h0]) \cup {<<l, g>>},
                 ViewOf(hook[h0]).exclusive =>
                     h0 \in Exclusive /\ ViewOf(hook[h0]).progs = {Allow} /\ OwnIn(hook[h0]) = {}
          PROVE  Owner!Take(h0)
      <3>1. <<l, g>> \in Own \ Ours[h0] /\ Ours' = [Ours EXCEPT ![h0] = @ \cup {<<l, g>>}]
        BY <1>2, <1>3, <1>5, <2>2 DEF Own
      <3>2. View[h0].exclusive => h0 \in Exclusive /\ View[h0].progs = {Allow} /\ Ours[h0] = {}
        BY Zenon, <1>3, <2>2
      <3> QED BY <1>1, <3>1, <3>2, Zenon DEF Owner!Take, View, Ours
    <2>3. Owner!Take(h0) \/ Owner!Give(h0)
      BY <1>3, <1>5, <2>1, <2>2 DEF HookStep
    <2> QED BY Zenon, <1>0, <2>0, <2>3 DEF Owner!Guests, Ours
  <1> QED BY Zenon, <1>4, <1>5

\* A change the rest of the system makes is a step of HookOwner's system.
LEMMA SystemStepRefines ==
  ASSUME Typed, HooksShaped, SystemStep
  PROVE  \E h \in Hooks : Owner!System(h)
  <1>0. PICK h0 \in Hooks : \E at \in SystemChanges(hook[h0]) : hook' = [hook EXCEPT ![h0] = at]
    BY Zenon DEF SystemStep
  <1>1. PICK at \in SystemChanges(hook[h0]) : hook' = [hook EXCEPT ![h0] = at]
    BY <1>0, Zenon
  <1>2. at \in HookStates /\ OwnIn(at) \in {OwnIn(hook[h0]), {}}
    BY SystemEffect DEF Typed, HooksShaped
  <1>3. hook \in [Hooks -> HookStates]
    BY DEF Typed
  <1>4. View' = [View EXCEPT ![h0] = View'[h0]]
    BY <1>1, <1>3, Zenon DEF View, SystemView
  <1>5. Ours' = [Ours EXCEPT ![h0] = OwnIn(at)] /\ Ours[h0] = OwnIn(hook[h0])
    BY <1>1, <1>3, Zenon DEF Ours, OwnIn
  <1>6. edits' = edits + 1
    BY DEF SystemStep
  <1> QED BY <1>2, <1>4, <1>5, <1>6, Zenon DEF Owner!System, View, Ours

-----------------------------------------------------------------------------
(* The lock file and the PID file. *)

Files == <<lockPath, lockOwner, raced>>

\* A step of a process that keeps what it has open, and whether it was started with --start.
KeepsFile(p) ==
    /\ proc'[p].pid = proc[p].pid
    /\ proc'[p].ino = proc[p].ino
    /\ proc'[p].pc \notin {"lock", "tryLock", "kill", "wait"}

\* Going on, failing, reconciling and returning leave the lock file open as it was.
LEMMA CallsKeepFile ==
  ASSUME Typed, Control, NEW p \in Procs
  PROVE  /\ \A pc : Go(p, pc) /\ pc \notin {"lock", "tryLock", "kill", "wait"} => KeepsFile(p)
         /\ Fail(p, <<>>) => KeepsFile(p)
         /\ \A then : Reconcile(p, then) => KeepsFile(p)
         /\ \A ok \in BOOLEAN : proc[p].pc \in ReconcileSteps /\ Return(p, ok) => KeepsFile(p)
  <1>0. proc[p] \in ProcRecords /\ Consistent(proc[p]) /\ proc \in [Procs -> ProcRecords]
    BY DEF Typed, Control
  <1>1. \A pc : Go(p, pc) /\ pc \notin {"lock", "tryLock", "kill", "wait"} => KeepsFile(p)
    BY <1>0 DEF Go, KeepsFile, ProcRecords
  <1>2. Fail(p, <<>>) => KeepsFile(p)
    BY <1>0 DEF Fail, KeepsFile, ProcRecords
  <1>3. \A then : Reconcile(p, then) => KeepsFile(p)
    BY <1>0 DEF Reconcile, KeepsFile, ProcRecords
  <1>4. ASSUME NEW ok \in BOOLEAN, proc[p].pc \in ReconcileSteps, Return(p, ok) PROVE KeepsFile(p)
    <2>1. CASE proc[p].then = "load" /\ ~ok
      BY <1>2, <1>4, <2>1 DEF Return
    <2>2. CASE proc[p].then = "exit" \/ (proc[p].then = "clean" /\ ~ok)
      <3>1. proc' = [proc EXCEPT ![p] = Idle]
        BY <1>4, <2>2 DEF Return
      <3>2. proc[p].pid = None /\ proc[p].ino = None
        BY <1>0, <1>4, <2>2 DEF Consistent, ReconcileSteps
      <3> QED BY <1>0, <3>1, <3>2 DEF Idle, KeepsFile
    <2>3. CASE /\ ~(proc[p].then = "load" /\ ~ok)
               /\ ~(proc[p].then = "exit" \/ (proc[p].then = "clean" /\ ~ok))
      <3>1. proc' = [proc EXCEPT ![p].pc = proc[p].then, ![p].todo = <<>>, ![p].then = "idle"]
        BY <1>4, <2>3, Zenon DEF Return
      <3>2. proc[p].then \in {"load", "unlock", "clean"}
        BY <1>0, <1>4, <2>3 DEF Consistent, ReconcileSteps
      <3> QED BY <1>0, <3>1, <3>2 DEF KeepsFile, ProcRecords
    <2> QED BY <2>1, <2>2, <2>3
  <1> QED BY <1>1, <1>2, <1>3, <1>4

\* The steps that are not about the lock file.
QuietStep(p) ==
    \/ Prepare(p) \/ CreateMaps(p) \/ LoadTcPrograms(p) \/ LoadPrograms(p) \/ PinPrograms(p)
    \/ AttachPrograms(p) \/ PinCap(p) \/ AttachCap(p) \/ DetachCap(p) \/ UnpinCap(p)
    \/ PinPeer(p) \/ AttachPeer(p) \/ InstallHandlers(p) \/ OpenPidFile(p) \/ WritePidFile(p)
    \/ EndBridge(p) \/ DetachPrograms(p) \/ RestoreOne(p) \/ CleanupFixedPins(p)
    \/ DetachPins(p) \/ UnlinkPins(p) \/ Clean(p)

\* The steps that do not concern the lock file leave it and its lock alone.
LEMMA QuietStepKeeps ==
  ASSUME Typed, Control, NEW p \in Procs, QuietStep(p)
  PROVE  KeepsFile(p) /\ UNCHANGED Files /\ proc[p].pc \notin {"lock", "unlinkLock"}
  <1>0. proc[p] \in ProcRecords /\ Consistent(proc[p]) /\ proc \in [Procs -> ProcRecords]
    BY DEF Typed, Control
  <1>1. UNCHANGED Files /\ proc[p].pc \notin {"lock", "unlinkLock"}
    BY Zenon DEF QuietStep, Prepare, CreateMaps, LoadTcPrograms, LoadPrograms, PinPrograms, AttachPrograms,
           PinCap, AttachCap, DetachCap, UnpinCap, PinPeer, AttachPeer, InstallHandlers, OpenPidFile,
           WritePidFile, EndBridge, DetachPrograms, RestoreOne, CleanupFixedPins, DetachPins,
           UnlinkPins, Clean, Change, Files, fileVars, noteVars
  <1>pc. proc[p].pc \notin {"lock", "tryLock", "kill", "wait"}
    BY Zenon DEF QuietStep, Prepare, CreateMaps, LoadTcPrograms, LoadPrograms, PinPrograms, AttachPrograms,
           PinCap, AttachCap, DetachCap, UnpinCap, PinPeer, AttachPeer, InstallHandlers, OpenPidFile,
           WritePidFile, EndBridge, DetachPrograms, RestoreOne, CleanupFixedPins, DetachPins,
           UnlinkPins, Clean
  <1> SUFFICES KeepsFile(p) BY <1>1
  <1>2. CASE \/ Prepare(p) \/ CreateMaps(p) \/ LoadTcPrograms(p) \/ PinCap(p) \/ PinPeer(p)
             \/ AttachPeer(p) \/ InstallHandlers(p) \/ OpenPidFile(p) \/ WritePidFile(p)
             \/ EndBridge(p) \/ CleanupFixedPins(p) \/ Clean(p)
    BY <1>2, CallsKeepFile, Zenon
       DEF Prepare, CreateMaps, LoadTcPrograms, PinCap, PinPeer, AttachPeer, InstallHandlers,
           OpenPidFile, WritePidFile, EndBridge, CleanupFixedPins, Clean
  <1>3. CASE LoadPrograms(p)
    <2>1. CASE Fail(p, <<>>)
      BY <2>1, CallsKeepFile
    <2>2. CASE proc' = [proc EXCEPT ![p].pc = "pin", ![p].todo = Ordinary]
      BY <1>0, <2>2 DEF KeepsFile, ProcRecords
    <2> QED BY <1>3, <2>1, <2>2 DEF LoadPrograms
  <1>4. CASE PinPrograms(p)
    <2>1. CASE Fail(p, <<>>)
      BY <2>1, CallsKeepFile
    <2>2. CASE \/ proc' = [proc EXCEPT ![p].todo = Tail(proc[p].todo)]
               \/ proc' = [proc EXCEPT ![p].pc = "attach", ![p].todo = Ordinary]
      BY <1>0, <1>pc, <2>2 DEF KeepsFile, ProcRecords
    <2> QED BY <1>4, <2>1, <2>2 DEF PinPrograms
  <1>5. CASE AttachPrograms(p)
    <2>1. PICK o \in AttachOutcomes(p, Head(proc[p].todo)) :
             proc' = IF ~o.ok
                     THEN [proc EXCEPT ![p].pc = "detach",
                                       ![p].todo = Reverse(SubSeq(Ordinary, 1, Len(Ordinary) - Len(proc[p].todo)))
                                                      \o StopOrder]
                     ELSE [proc EXCEPT ![p].pc = IF Tail(proc[p].todo) = <<>> THEN "capPin" ELSE @,
                                       ![p].todo = Tail(proc[p].todo), ![p].kept = o.kept]
      BY <1>5, Zenon DEF AttachPrograms
    <2>2. CASE ~o.ok
      BY <1>0, <2>1, <2>2 DEF KeepsFile, ProcRecords
    <2>3. CASE o.ok
      BY <1>0, <1>pc, <2>1, <2>3, Zenon DEF KeepsFile, ProcRecords
    <2> QED BY <2>2, <2>3
  <1>6. CASE AttachCap(p)
    <2>1. \/ Go(p, "capDetach")
          \/ \E then : proc' = [proc EXCEPT ![p].pc = "capUnpin", ![p].then = then]
      BY <1>6 DEF AttachCap
    <2>2. ASSUME NEW then, proc' = [proc EXCEPT ![p].pc = "capUnpin", ![p].then = then]
          PROVE  KeepsFile(p)
      BY <1>0, <2>2 DEF KeepsFile, ProcRecords
    <2> QED BY <2>1, <2>2, CallsKeepFile
  <1>7. CASE DetachCap(p)
    <2>1. Fail(p, <<>>) \/ proc' = [proc EXCEPT ![p].pc = "capUnpin", ![p].then = "peerPin"]
      BY <1>7 DEF DetachCap
    <2>2. CASE proc' = [proc EXCEPT ![p].pc = "capUnpin", ![p].then = "peerPin"]
      BY <1>0, <2>2 DEF KeepsFile, ProcRecords
    <2> QED BY <2>1, <2>2, CallsKeepFile
  <1>8. CASE UnpinCap(p)
    <2>1. \/ Fail(p, <<>>)
          \/ proc' = [proc EXCEPT ![p].pc = proc[p].then, ![p].then = "idle"]
      BY <1>8 DEF UnpinCap
    <2>2. proc[p].then \in {"stopEvent", "detach", "peerPin"}
      BY <1>0, <1>8 DEF UnpinCap, Consistent
    <2>3. CASE proc' = [proc EXCEPT ![p].pc = proc[p].then, ![p].then = "idle"]
      BY <1>0, <2>2, <2>3 DEF KeepsFile, ProcRecords
    <2> QED BY <2>1, <2>3, CallsKeepFile
  <1>9. CASE DetachPrograms(p)
    <2>1. PICK o \in DetachOutcomes(p, Head(proc[p].todo)) :
             proc' = [proc EXCEPT ![p].pc = IF Tail(proc[p].todo) = <<>> THEN "restore" ELSE @,
                                  ![p].todo = Tail(proc[p].todo), ![p].kept = o.kept]
      BY <1>9, Zenon DEF DetachPrograms
    <2>2. CASE Tail(proc[p].todo) = <<>>
      BY <1>0, <2>1, <2>2 DEF KeepsFile, ProcRecords
    <2>3. CASE Tail(proc[p].todo) # <<>>
      BY <1>0, <1>pc, <2>1, <2>3 DEF KeepsFile, ProcRecords
    <2> QED BY <2>2, <2>3
  <1>10. CASE RestoreOne(p)
    <2>1. PICK l \in proc[p].kept : proc' = [proc EXCEPT ![p].kept = proc[p].kept \ {l}]
      BY <1>0, <1>10, Zenon DEF RestoreOne
    <2> QED BY <1>0, <1>pc, <2>1 DEF KeepsFile, ProcRecords
  <1>11. CASE DetachPins(p)
    <2>1. \/ Return(p, FALSE)
          \/ proc' = [proc EXCEPT ![p].todo = Tail(proc[p].todo)]
          \/ proc' = [proc EXCEPT ![p].pc = "unlinkPins", ![p].todo = Catalog]
      BY <1>11, Zenon DEF DetachPins
    <2>2. CASE Return(p, FALSE)
      BY <1>11, <2>2, CallsKeepFile, Zenon DEF DetachPins, ReconcileSteps
    <2>3. CASE proc' = [proc EXCEPT ![p].todo = Tail(proc[p].todo)]
      BY <1>0, <1>pc, <2>3 DEF KeepsFile, ProcRecords
    <2>4. CASE proc' = [proc EXCEPT ![p].pc = "unlinkPins", ![p].todo = Catalog]
      BY <1>0, <2>4 DEF KeepsFile, ProcRecords
    <2> QED BY <2>1, <2>2, <2>3, <2>4, Zenon
  <1>12. CASE UnlinkPins(p)
    <2>1. CASE \E ok \in BOOLEAN : Return(p, ok)
      BY <1>12, <2>1, CallsKeepFile DEF UnlinkPins, ReconcileSteps
    <2>2. CASE proc' = [proc EXCEPT ![p].todo = Tail(proc[p].todo)]
      BY <1>0, <1>pc, <2>2 DEF KeepsFile, ProcRecords
    <2>3. proc' = [proc EXCEPT ![p].todo = Tail(@)] => proc' = [proc EXCEPT ![p].todo = Tail(proc[p].todo)]
      BY <1>0
    <2> QED BY <1>12, <2>1, <2>2, <2>3, Zenon DEF UnlinkPins
  <1> QED
    BY <1>1, <1>2, <1>3, <1>4, <1>5, <1>6, <1>7, <1>8, <1>9, <1>10, <1>11, <1>12, Zenon DEF QuietStep

FilesTyped == lockPath \in Maybe(Inodes) /\ lockOwner \in [Inodes -> Maybe(Procs)] /\ raced \in BOOLEAN

\* The locks of a process that keeps its files, and of one that closes them.
LEMMA LocksKept ==
  ASSUME Typed, Control, Locked, OnePath, NEW p \in Procs, Moved(p), UNCHANGED Files, KeepsFile(p),
         proc[p].pc \notin {"lock", "unlinkLock"}
  PROVE  FilesTyped' /\ Locked' /\ OnePath'
  <1>1. \A q \in Procs : proc'[q].pid = proc[q].pid /\ proc'[q].ino = proc[q].ino
    BY DEF Moved, KeepsFile
  <1>2. FilesTyped'
    BY DEF FilesTyped, Typed, Files
  <1>3. OnePath'
    BY <1>1 DEF OnePath, Files, Starting
  <1>4. Locked'
    <2>1. ASSUME NEW i \in Inodes, lockOwner'[i] # None
          PROVE  /\ proc'[lockOwner'[i]].ino = i
                 /\ proc'[lockOwner'[i]].pc \notin {"lock", "tryLock", "kill", "wait"}
      <3>1. lockOwner[i] \in Procs /\ lockOwner[i] # None /\ lockOwner'[i] = lockOwner[i]
        BY <2>1 DEF Typed, Maybe, Files
      <3> QED BY <1>1, <3>1 DEF Locked, Moved, KeepsFile
    <2>2. ASSUME NEW q \in Procs, Starting(q)', proc'[q].pc \notin {"lock", "unlinkLock"}
          PROVE  lockOwner'[proc'[q].ino] = q
      <3>1. Starting(q) /\ proc[q].pc \notin {"lock", "unlinkLock"}
        BY <1>1, <2>2 DEF Starting, Moved
      <3> QED BY <1>1, <3>1 DEF Locked, Files
    <2> QED BY <2>1, <2>2 DEF Locked
  <1> QED BY <1>2, <1>3, <1>4

\* A process that ends closes its lock file, which gives up the lock.
LEMMA LocksClosed ==
  ASSUME Typed, Control, Locked, OnePath, NEW p \in Procs, Moved(p), UNCHANGED <<lockPath, raced>>,
         lockOwner' = Unlocked(p), proc'[p].ino = None, proc'[p].pid = None
  PROVE  FilesTyped' /\ Locked' /\ OnePath'
  <1>1. FilesTyped'
    BY DEF FilesTyped, Typed, Unlocked, Maybe
  <1>2. OnePath'
    BY DEF OnePath, Starting, Moved
  <1>3. Locked'
    <2>1. ASSUME NEW i \in Inodes, lockOwner'[i] # None
          PROVE  /\ proc'[lockOwner'[i]].ino = i
                 /\ proc'[lockOwner'[i]].pc \notin {"lock", "tryLock", "kill", "wait"}
      <3>1. lockOwner[i] \in Procs /\ lockOwner[i] # None /\ lockOwner'[i] = lockOwner[i] /\ lockOwner[i] # p
        BY <2>1 DEF Typed, Maybe, Unlocked
      <3> QED BY <3>1 DEF Locked, Moved
    <2>2. ASSUME NEW q \in Procs, Starting(q)', proc'[q].pc \notin {"lock", "unlinkLock"}
          PROVE  lockOwner'[proc'[q].ino] = q
      <3>1. q # p /\ proc'[q] = proc[q] /\ Starting(q) /\ proc[q].pc \notin {"lock", "unlinkLock"}
        BY <2>2 DEF Starting, Moved
      <3>2. lockOwner[proc[q].ino] = q
        BY <3>1 DEF Locked
      <3>3. proc[q].ino \in Inodes
        BY <3>1, Zenon DEF Typed, Control, Consistent, ProcRecords, Starting
      <3> QED BY <3>1, <3>2, <3>3 DEF Unlocked
    <2> QED BY Zenon, <2>1, <2>2 DEF Locked
  <1> QED BY <1>1, <1>2, <1>3

\* A process that locks the file it has open, if no other has.
LEMMA LockTaken ==
  ASSUME Typed, Control, Locked, OnePath, NEW p \in Procs, Moved(p), UNCHANGED <<lockPath, raced>>,
         proc[p].ino # None, lockOwner[proc[p].ino] = None,
         lockOwner' = [lockOwner EXCEPT ![proc[p].ino] = p],
         proc'[p].ino = proc[p].ino, proc'[p].pid = proc[p].pid, proc'[p].pc \in {"prepare", "close"}
  PROVE  FilesTyped' /\ Locked' /\ OnePath'
  <1>0. proc[p].ino \in Inodes
    BY DEF Typed, ProcRecords
  <1>1. FilesTyped'
    BY <1>0 DEF FilesTyped, Typed, Maybe
  <1>2. OnePath'
    BY Zenon DEF OnePath, Starting, Moved
  <1>3. Locked'
    <2>1. ASSUME NEW i \in Inodes, lockOwner'[i] # None
          PROVE  /\ proc'[lockOwner'[i]].ino = i
                 /\ proc'[lockOwner'[i]].pc \notin {"lock", "tryLock", "kill", "wait"}
      <3>1. CASE i = proc[p].ino
        BY Zenon, <3>1, <1>0 DEF Typed
      <3>2. CASE i # proc[p].ino
        <4>1. lockOwner[i] \in Procs /\ lockOwner[i] # None /\ lockOwner'[i] = lockOwner[i]
          BY <2>1, <3>2 DEF Typed, Maybe
        <4>2. lockOwner[i] # p
          BY <3>2, <4>1 DEF Locked
        <4> QED BY Zenon, <4>1, <4>2 DEF Locked, Moved
      <3> QED BY Zenon, <3>1, <3>2
    <2>2. ASSUME NEW q \in Procs, Starting(q)', proc'[q].pc \notin {"lock", "unlinkLock"}
          PROVE  lockOwner'[proc'[q].ino] = q
      <3>1. CASE q = p
        BY Zenon, <3>1, <1>0 DEF Typed
      <3>2. CASE q # p
        <4>1. proc'[q] = proc[q] /\ Starting(q) /\ proc[q].pc \notin {"lock", "unlinkLock"}
          BY Zenon, <2>2, <3>2 DEF Starting, Moved
        <4>2. lockOwner[proc[q].ino] = q
          BY <4>1 DEF Locked
        <4>3. proc[q].ino # proc[p].ino
          BY Zenon, <4>2, ProcessAssumption
        <4> QED BY <4>1, <4>2, <4>3 DEF Typed
      <3> QED BY Zenon, <3>1, <3>2
    <2> QED BY Zenon, <2>1, <2>2 DEF Locked
  <1> QED BY Zenon, <1>1, <1>2, <1>3


\* A process that gives up its descriptors without having had a lock.
LEMMA NothingToClose ==
  ASSUME Typed, Control, Locked, OnePath, NEW p \in Procs, Moved(p), UNCHANGED Files,
         proc[p].pc \in {"lock", "unlinkLock"}, proc'[p] = Idle
  PROVE  FilesTyped' /\ Locked' /\ OnePath'
  <1>0. \A i \in Inodes : lockOwner[i] # p
    BY ProcessAssumption DEF Locked, Control, Consistent, OwnerSteps, StartSteps, StopSteps
  <1>1. lockOwner' = Unlocked(p)
    BY Zenon, <1>0 DEF Unlocked, Files, Typed
  <1>2. proc'[p].pid = None /\ proc'[p].ino = None
    BY IdleRecord, Zenon
  <1>3. UNCHANGED <<lockPath, raced>>
    BY Zenon DEF Files
  <1> QED BY <1>1, <1>2, <1>3, LocksClosed, Zenon

\* --stop, while it finds the lock taken.
LEMMA WaitingKeepsLocks ==
  ASSUME Typed, Control, Locked, OnePath, NEW p \in Procs, Moved(p), UNCHANGED Files,
         proc[p].pc \in {"tryLock", "wait", "kill"}, proc'[p].pid = None
  PROVE  FilesTyped' /\ Locked' /\ OnePath'
  <1>1. FilesTyped'
    BY DEF FilesTyped, Typed, Files
  <1>2. OnePath'
    BY DEF OnePath, Moved, Starting, Files
  <1>3. \A j \in Inodes : lockOwner[j] # p
    BY ProcessAssumption DEF Locked
  <1>4. ASSUME NEW i \in Inodes, lockOwner'[i] # None
        PROVE  /\ proc'[lockOwner'[i]].ino = i
               /\ proc'[lockOwner'[i]].pc \notin {"lock", "tryLock", "kill", "wait"}
    <2>1. lockOwner'[i] = lockOwner[i] /\ lockOwner[i] # None /\ lockOwner[i] \in Procs /\ lockOwner[i] # p
      BY Zenon, <1>3, <1>4 DEF Typed, Maybe, Files
    <2> QED BY <2>1 DEF Locked, Moved
  <1>5. ASSUME NEW q \in Procs, Starting(q)', proc'[q].pc \notin {"lock", "unlinkLock"}
        PROVE  lockOwner'[proc'[q].ino] = q
    BY Zenon, <1>5 DEF Locked, Moved, Starting, Files
  <1> QED BY <1>1, <1>2, <1>4, <1>5 DEF Locked

\* Every step keeps what is known of the lock files.
LEMMA StepOnFiles ==
  ASSUME Typed, Control, Locked, OnePath, NEW p \in Procs, Step(p), Moved(p)
  PROVE  FilesTyped' /\ Locked' /\ OnePath'
  <1>0. proc[p] \in ProcRecords /\ Consistent(proc[p]) /\ proc \in [Procs -> ProcRecords]
    BY DEF Typed, Control
  <1>1. CASE QuietStep(p)
    BY <1>1, QuietStepKeeps, LocksKept
  <1>2. CASE Start(p)
    <2>1. PICK g \in FreePids, i \in IF lockPath = None THEN FreeInodes ELSE {lockPath} :
             /\ lockPath' = i
             /\ proc' = [proc EXCEPT ![p].pc = "lock", ![p].pid = g, ![p].ino = i]
      BY <1>2, Zenon DEF Start
    <2>2. UNCHANGED <<lockOwner, raced>> /\ proc[p].pc = "idle"
      BY <1>2 DEF Start, noteVars
    <2>3. proc'[p].pc = "lock" /\ proc'[p].ino = i
      BY <1>0, <2>1 DEF ProcRecords
    <2>4. i \in Inodes
      BY <2>1 DEF FreeInodes, Typed, Maybe
    <2>5. FilesTyped'
      BY Zenon, <2>1, <2>2, <2>4 DEF FilesTyped, Typed, Maybe
    <2>6. proc[p] = Idle
      BY Zenon, <1>0, <2>2 DEF Consistent
    <2>7. \A j \in Inodes : lockOwner[j] # p
      BY <2>6, ProcessAssumption DEF Locked, Idle
    <2>8. ASSUME NEW q \in Procs, q # p, Starting(q), proc[q].ino # None, ~raced
          PROVE  proc[q].ino = i
      <3>1. proc[q].ino = lockPath /\ lockPath # None
        BY <2>8 DEF OnePath
      <3> QED BY <2>1, <3>1
    <2>9. OnePath'
      BY <2>1, <2>2, <2>3, <2>8 DEF OnePath, Starting, Moved
    <2>10. Locked'
      <3>1. ASSUME NEW j \in Inodes, lockOwner'[j] # None
            PROVE  /\ proc'[lockOwner'[j]].ino = j
                   /\ proc'[lockOwner'[j]].pc \notin {"lock", "tryLock", "kill", "wait"}
        <4>1. lockOwner[j] \in Procs /\ lockOwner[j] # None /\ lockOwner'[j] = lockOwner[j] /\ lockOwner[j] # p
          BY <2>2, <2>7, <3>1 DEF Typed, Maybe
        <4> QED BY <4>1, ZenonT(30) DEF Locked, Moved
      <3>2. ASSUME NEW q \in Procs, Starting(q)', proc'[q].pc \notin {"lock", "unlinkLock"}
            PROVE  lockOwner'[proc'[q].ino] = q
        BY <2>2, <2>3, <3>2 DEF Locked, Starting, Moved
      <3> QED BY <3>1, <3>2, Zenon DEF Locked
    <2> QED BY <2>5, <2>9, <2>10
  <1>3. CASE Lock(p)
    <2>0. proc[p].pc = "lock" /\ UNCHANGED <<lockPath, raced>>
      BY <1>3 DEF Lock, noteVars
    <2>1. CASE lockOwner[proc[p].ino] = None
      <3>1. lockOwner' = [lockOwner EXCEPT ![proc[p].ino] = p] /\ Go(p, "prepare")
        BY <1>3, <2>1 DEF Lock
      <3>2. proc'[p].ino = proc[p].ino /\ proc'[p].pid = proc[p].pid /\ proc'[p].pc = "prepare"
        BY Zenon, <1>0, <3>1 DEF Go, ProcRecords
      <3>3. proc[p].ino # None
        BY <1>0, <2>0 DEF Consistent, OwnerSteps, StartSteps
      <3> QED BY <2>0, <2>1, <3>1, <3>2, <3>3, LockTaken, Zenon
    <2>2. CASE lockOwner[proc[p].ino] # None
      <3>1. proc' = [proc EXCEPT ![p] = Idle] /\ UNCHANGED lockOwner
        BY Zenon, <1>3, <2>2 DEF Lock
      <3> QED BY Zenon, <1>0, <2>0, <3>1, NothingToClose DEF Files
    <2> QED BY <2>1, <2>2
  <1>4. CASE Unlock(p)
    <2>0. /\ proc[p].pc = "unlock" /\ UNCHANGED <<lockPath, raced>>
          /\ lockOwner' = [lockOwner EXCEPT ![proc[p].ino] = None]
          /\ proc' = [proc EXCEPT ![p].pc = "unlinkLock", ![p].ino = None]
      BY <1>4 DEF Unlock, noteVars
    <2>1. proc'[p].pc = "unlinkLock" /\ proc'[p].ino = None
      BY <1>0, <2>0 DEF ProcRecords
    <2>2. proc[p].pid # None /\ proc[p].ino # None /\ proc[p].ino \in Inodes
      BY <1>0, <2>0 DEF Consistent, OwnerSteps, StopSteps, ProcRecords
    <2>3. lockOwner[proc[p].ino] = p
      BY <2>0, <2>2 DEF Locked, Starting
    <2>4. FilesTyped'
      BY <2>0, <2>2 DEF FilesTyped, Typed, Maybe
    <2>5. OnePath'
      BY Zenon, <2>0, <2>1 DEF OnePath, Starting, Moved
    <2>6. ASSUME NEW i \in Inodes, lockOwner'[i] # None
          PROVE  /\ proc'[lockOwner'[i]].ino = i
                 /\ proc'[lockOwner'[i]].pc \notin {"lock", "tryLock", "kill", "wait"}
      <3>1. i # proc[p].ino /\ lockOwner'[i] = lockOwner[i] /\ lockOwner[i] # None /\ lockOwner[i] \in Procs
        BY Zenon, <2>0, <2>2, <2>6 DEF Typed, Maybe
      <3>2. lockOwner[i] # p
        BY <3>1 DEF Locked
      <3> QED BY <3>1, <3>2 DEF Locked, Moved
    <2>7. ASSUME NEW q \in Procs, Starting(q)', proc'[q].pc \notin {"lock", "unlinkLock"}
          PROVE  lockOwner'[proc'[q].ino] = q
      <3>1. q # p /\ proc'[q] = proc[q] /\ Starting(q)
        BY Zenon, <2>1, <2>7 DEF Moved, Starting
      <3>2. lockOwner[proc[q].ino] = q
        BY <2>7, <3>1 DEF Locked
      <3>3. proc[q].ino # proc[p].ino
        BY Zenon, <2>3, <3>1, <3>2
      <3> QED BY <2>0, <3>1, <3>2, <3>3 DEF Typed
    <2> QED BY <2>4, <2>5, <2>6, <2>7 DEF Locked

  <1>5. CASE UnlinkLock(p)
    <2>0. /\ proc[p].pc = "unlinkLock" /\ lockPath' = None /\ UNCHANGED lockOwner
          /\ proc' = [proc EXCEPT ![p] = Idle]
          /\ raced' = (raced \/ (lockPath # None /\ \E q \in Procs : Starting(q) /\ proc[q].ino = lockPath))
      BY <1>5 DEF UnlinkLock
    <2>1. proc'[p] = Idle
      BY Zenon, <1>0, <2>0
    <2>2. proc[p].ino = None /\ proc[p].pid # None
      BY Zenon, <1>0, <2>0 DEF Consistent, OwnerSteps, StopSteps
    <2>3. \A j \in Inodes : lockOwner[j] # p
      BY Zenon, <2>2, ProcessAssumption DEF Locked
    <2>4. FilesTyped'
      BY <2>0 DEF FilesTyped, Typed, Maybe
    <2>5. OnePath'
      <3> SUFFICES ASSUME ~raced', NEW q \in Procs, Starting(q)', proc'[q].ino # None
                   PROVE  FALSE
        BY Zenon DEF OnePath
      <3>1. q # p /\ Starting(q) /\ proc[q].ino # None
        BY <2>1 DEF Idle, Moved, Starting
      <3>2. ~raced
        BY <2>0, Zenon
      <3>3. proc[q].ino = lockPath /\ lockPath # None
        BY Zenon, <3>1, <3>2 DEF OnePath
      <3> QED BY <2>0, <3>1, <3>3, Zenon
    <2>6. ASSUME NEW i \in Inodes, lockOwner'[i] # None
          PROVE  /\ proc'[lockOwner'[i]].ino = i
                 /\ proc'[lockOwner'[i]].pc \notin {"lock", "tryLock", "kill", "wait"}
      <3>1. lockOwner'[i] = lockOwner[i] /\ lockOwner[i] # None /\ lockOwner[i] \in Procs /\ lockOwner[i] # p
        BY <2>0, <2>3, <2>6 DEF Typed, Maybe
      <3> QED BY <3>1 DEF Locked, Moved
    <2>7. ASSUME NEW q \in Procs, Starting(q)', proc'[q].pc \notin {"lock", "unlinkLock"}
          PROVE  lockOwner'[proc'[q].ino] = q
      <3>1. q # p /\ proc'[q] = proc[q] /\ Starting(q)
        <4>1. proc'[q].pid # None
          BY <2>7, Zenon DEF Starting
        <4>2. q # p
          BY <2>1, <4>1, IdleRecord, Zenon
        <4>3. proc'[q] = proc[q]
          BY <4>2, Zenon DEF Moved
        <4> QED BY <4>1, <4>2, <4>3, Zenon DEF Starting
      <3> QED BY <2>0, <2>7, <3>1, Zenon DEF Locked
    <2> QED BY <2>4, <2>5, <2>6, <2>7 DEF Locked
  <1>6. CASE StopCommand(p)
    <2>0. proc[p] = Idle /\ UNCHANGED Files
      BY Zenon, <1>0, <1>6 DEF StopCommand, fileVars, noteVars, Files, Consistent
    <2>1. CASE lockPath = None
      <3>1. Reconcile(p, "clean")
        BY <1>6, <2>1 DEF StopCommand
      <3>2. KeepsFile(p)
        BY <3>1, CallsKeepFile, Zenon
      <3>3. proc[p].pc \notin {"lock", "unlinkLock"}
        BY <2>0, IdleRecord
      <3> QED BY <2>0, <3>2, <3>3, LocksKept, Zenon
    <2>2. CASE lockPath # None
      <3>1. proc' = [proc EXCEPT ![p].pc = "tryLock", ![p].ino = lockPath]
        BY <1>6, <2>2 DEF StopCommand
      <3>2. proc'[p].pid = None
        BY <1>0, <2>0, <3>1 DEF ProcRecords, Idle
      <3>3. FilesTyped'
        BY <2>0 DEF FilesTyped, Typed, Files
      <3>4. OnePath'
        BY Zenon, <2>0, <3>2 DEF OnePath, Moved, Starting, Files
      <3>5. \A j \in Inodes : lockOwner[j] # p
        BY <2>0, ProcessAssumption DEF Locked, Idle
      <3>6. ASSUME NEW i \in Inodes, lockOwner'[i] # None
            PROVE  /\ proc'[lockOwner'[i]].ino = i
                   /\ proc'[lockOwner'[i]].pc \notin {"lock", "tryLock", "kill", "wait"}
        <4>1. lockOwner'[i] = lockOwner[i] /\ lockOwner[i] # None /\ lockOwner[i] \in Procs /\ lockOwner[i] # p
          BY Zenon, <2>0, <3>5, <3>6 DEF Typed, Maybe, Files
        <4> QED BY <4>1 DEF Locked, Moved
      <3>7. ASSUME NEW q \in Procs, Starting(q)', proc'[q].pc \notin {"lock", "unlinkLock"}
            PROVE  lockOwner'[proc'[q].ino] = q
        BY <2>0, <3>2, <3>7 DEF Locked, Moved, Starting, Files
      <3> QED BY <3>3, <3>4, <3>6, <3>7 DEF Locked
    <2> QED BY <2>1, <2>2
  <1>7. CASE TryLock(p)
    <2>0. proc[p].pc \in {"tryLock", "wait"} /\ UNCHANGED <<lockPath, raced>>
      BY <1>7, Zenon DEF TryLock, noteVars
    <2>1. proc[p].pid = None /\ proc[p].ino # None
      BY <1>0, <2>0 DEF Consistent, CommandSteps
    <2>2. CASE lockOwner[proc[p].ino] = None
      <3>1. lockOwner' = [lockOwner EXCEPT ![proc[p].ino] = p] /\ Go(p, "close")
        BY <1>7, <2>2 DEF TryLock
      <3>2. proc'[p].ino = proc[p].ino /\ proc'[p].pid = proc[p].pid /\ proc'[p].pc = "close"
        BY <1>0, <3>1 DEF Go, ProcRecords
      <3> QED BY <2>0, <2>1, <2>2, <3>1, <3>2, LockTaken, Zenon
    <2>3. CASE lockOwner[proc[p].ino] # None
      <3>1. UNCHANGED lockOwner /\ \E pc : Go(p, pc)
        BY <1>7, <2>3 DEF TryLock
      <3>2. proc'[p].pid = None
        BY <1>0, <2>1, <3>1 DEF Go, ProcRecords
      <3> QED BY Zenon, <2>0, <3>1, <3>2, WaitingKeepsLocks DEF Files
    <2> QED BY <2>2, <2>3
  <1>8. CASE Kill(p)
    <2>0. proc[p].pc = "kill" /\ UNCHANGED Files /\ Go(p, "wait")
      BY <1>8 DEF Kill, fileVars, noteVars, Files
    <2>1. proc'[p].pid = None
      BY <1>0, <2>0 DEF Go, ProcRecords, Consistent, CommandSteps
    <2> QED BY <2>0, <2>1, WaitingKeepsLocks
  <1>9. CASE CloseLock(p)
    <2>0. /\ proc[p].pc = "close" /\ UNCHANGED <<lockPath, raced>> /\ lockOwner' = Unlocked(p)
          /\ proc' = [proc EXCEPT ![p].pc = "detachPins", ![p].todo = Catalog, ![p].then = "clean",
                                  ![p].ino = None]
      BY <1>9 DEF CloseLock, noteVars
    <2>1. proc'[p].pid = None /\ proc'[p].ino = None
      BY <1>0, <2>0 DEF ProcRecords, Consistent, CommandSteps
    <2> QED BY <2>0, <2>1, LocksClosed, Zenon
  <1>10. CASE Crash(p)
    <2>0. UNCHANGED <<lockPath, raced>> /\ lockOwner' = Unlocked(p) /\ proc' = [proc EXCEPT ![p] = Idle]
      BY <1>10 DEF Crash
    <2>1. proc'[p].pid = None /\ proc'[p].ino = None
      BY <1>0, <2>0 DEF Idle
    <2> QED BY <2>0, <2>1, LocksClosed
  <1> QED
    BY <1>1, <1>2, <1>3, <1>4, <1>5, <1>6, <1>7, <1>8, <1>9, <1>10
       DEF Step, StartStep, StopStep, QuietStep
-----------------------------------------------------------------------------
(* The theorems. *)

\* The PID file names a process or none, and crashes stay within their bound.
LEMMA StepKeepsCounts ==
  ASSUME Typed, NEW p \in Procs, Step(p)
  PROVE  pidFile' \in Maybe(Gens) /\ crashes' \in 0..MaxCrashes
  <1>0. proc[p].pid \in Maybe(Gens) /\ pidFile \in Maybe(Gens) /\ crashes \in 0..MaxCrashes /\ MaxCrashes \in Nat
    BY ProcessAssumption DEF Typed, ProcRecords, Maybe
  <1>1. pidFile' \in {pidFile, None, proc[p].pid}
    BY Zenon DEF Step, StartStep, StopStep, Start, Lock, Prepare, CreateMaps, LoadTcPrograms, LoadPrograms,
           PinPrograms, AttachPrograms, PinCap, AttachCap, DetachCap, UnpinCap, PinPeer, AttachPeer,
           InstallHandlers, OpenPidFile, WritePidFile, EndBridge, DetachPrograms, RestoreOne,
           CleanupFixedPins, Unlock, UnlinkLock, StopCommand, TryLock, Kill, CloseLock, Clean, DetachPins,
           UnlinkPins, Crash, Change, fileVars
  <1>2. crashes' = crashes \/ (crashes < MaxCrashes /\ crashes' = crashes + 1)
    BY Zenon DEF Step, StartStep, StopStep, Start, Lock, Prepare, CreateMaps, LoadTcPrograms, LoadPrograms,
           PinPrograms, AttachPrograms, PinCap, AttachCap, DetachCap, UnpinCap, PinPeer, AttachPeer,
           InstallHandlers, OpenPidFile, WritePidFile, EndBridge, DetachPrograms, RestoreOne,
           CleanupFixedPins, Unlock, UnlinkLock, StopCommand, TryLock, Kill, CloseLock, Clean, DetachPins,
           UnlinkPins, Crash, Change, noteVars
  <1> QED BY <1>0, <1>1, <1>2 DEF Maybe

\* The machine before any process has run.
LEMMA ControlInit == Init => ControlInv
  <1> SUFFICES ASSUME Init PROVE ControlInv
    OBVIOUS
  <1> USE DEF Init
  <1>1. \A h \in Hooks : hook[h] \in {Empty, Placeholder, Alone(Foreign), Joined(Empty, Foreign)}
    BY InitialAssumption
  <1>2. \A h \in Hooks : hook[h] \in HookStates /\ Shaped(hook[h]) /\ OwnIn(hook[h]) = {}
    <2> SUFFICES ASSUME NEW at \in {Empty, Placeholder, Alone(Foreign), Joined(Empty, Foreign)}
                 PROVE  at \in HookStates /\ Shaped(at) /\ OwnIn(at) = {}
      BY <1>1
    <2>1. CASE at = Empty
      BY <2>1 DEF Empty, HookStates, Shaped, OwnIn
    <2>2. CASE at = Placeholder
      BY <2>2, SystemPrograms DEF Placeholder, Alone, HookStates, Shaped, OwnIn
    <2>3. CASE at = Alone(Foreign)
      BY <2>3, SystemPrograms DEF Alone, HookStates, Shaped, OwnIn
    <2>4. CASE at = Joined(Empty, Foreign)
      BY Zenon, <2>4, SystemPrograms DEF Joined, Empty, HookStates, Shaped, OwnIn
    <2> QED BY <2>1, <2>2, <2>3, <2>4
  <1>3. Idle \in ProcRecords /\ Consistent(Idle)
    BY IdleRecord, Zenon
  <1>4. Typed
    <2>1. hook \in [Hooks -> HookStates]
      BY <1>2, InitialAssumption
    <2>2. /\ pin \in [Leaves -> Maybe(Gens)] /\ lockPath \in Maybe(Inodes)
          /\ lockOwner \in [Inodes -> Maybe(Procs)] /\ pidFile \in Maybe(Gens) /\ raced \in BOOLEAN
      BY Zenon DEF Maybe
    <2>3. edits \in 0..MaxEdits /\ crashes \in 0..MaxCrashes
      <3>1. MaxEdits \in Nat /\ MaxCrashes \in Nat
        BY SMTT(30), ProcessAssumption
      <3> QED BY <3>1
    <2> QED BY <1>3, <2>1, <2>2, <2>3 DEF Typed
  <1>5. Control /\ Locked /\ OnePath
    BY <1>3, Zenon DEF Control, Locked, OnePath, Starting, Idle
  <1>6. OneAtWork
    BY Zenon DEF OneAtWork, Working, Idle, StartSteps, ServeSteps, ReconcileSteps
  <1>7. HooksShaped
    BY <1>2 DEF HooksShaped
  <1> QED BY <1>4, <1>5, <1>6, <1>7 DEF ControlInv

\* The rest of the system keeps a hook's shape, and adds no program of ours.
LEMMA SystemKeepsShape ==
  ASSUME Typed, HooksShaped, SystemStep
  PROVE  /\ hook' \in [Hooks -> HookStates] /\ HooksShaped'
         /\ \A h \in Hooks : OwnIn(hook'[h]) \subseteq OwnIn(hook[h])
  <1>0. hook \in [Hooks -> HookStates]
    BY Zenon DEF Typed
  <1>1. PICK h0 \in Hooks : \E at \in SystemChanges(hook[h0]) : hook' = [hook EXCEPT ![h0] = at]
    BY Zenon DEF SystemStep
  <1>2. PICK at \in SystemChanges(hook[h0]) : hook' = [hook EXCEPT ![h0] = at]
    BY <1>1, Zenon
  <1>3. at \in HookStates /\ Shaped(at) /\ OwnIn(at) \subseteq OwnIn(hook[h0])
    BY Zenon, <1>0, SystemEffect DEF HooksShaped
  <1>4. hook' \in [Hooks -> HookStates] /\ HooksShaped'
    BY <1>0, <1>2, <1>3 DEF HooksShaped
  <1>5. \A h \in Hooks : OwnIn(hook'[h]) \subseteq OwnIn(hook[h])
    BY <1>0, <1>2, <1>3
  <1> QED BY <1>4, <1>5

\* Every step of a process or of the system keeps the control invariant.
LEMMA ControlNext == ControlInv /\ [Next]_vars => ControlInv'
  <1> SUFFICES ASSUME ControlInv, [Next]_vars PROVE ControlInv'
    OBVIOUS
  <1>0. Typed /\ Control /\ Locked /\ OnePath /\ OneAtWork /\ HooksShaped
    BY DEF ControlInv
  <1>1. CASE UNCHANGED vars
    <2> USE <1>0, <1>1 DEF vars, kernelVars, fileVars, noteVars
    <2>1. Typed' /\ Control' /\ HooksShaped'
      BY Zenon DEF Typed, Control, HooksShaped
    <2>2. Locked' /\ OnePath' /\ OneAtWork'
      BY Zenon DEF Locked, OnePath, OneAtWork, Starting, Working
    <2> QED BY <2>1, <2>2 DEF ControlInv
  <1>2. CASE Next
    <2>0. overlap' = (overlap \/ \E p, q \in Procs : p # q /\ Working(p)' /\ Working(q)')
      BY <1>2 DEF Next
    <2>1. OneAtWork'
      BY <1>0, <2>0, Zenon DEF OneAtWork
    <2>2. CASE SystemStep
      <3>1. hook' \in [Hooks -> HookStates] /\ HooksShaped'
        BY <1>0, <2>2, SystemKeepsShape
      <3>2. UNCHANGED <<pin, lockPath, lockOwner, pidFile, proc, crashes, raced>> /\ edits' = edits + 1
              /\ edits < MaxEdits
        BY <2>2 DEF SystemStep, fileVars
      <3>3. edits' \in 0..MaxEdits
        BY <1>0, <3>2, ProcessAssumption DEF Typed
      <3>4. Typed'
        BY SMTT(30), <1>0, <3>1, <3>2, <3>3 DEF Typed
      <3>5. Control' /\ Locked' /\ OnePath'
        BY <1>0, <3>2, Zenon DEF Control, Locked, OnePath, Starting
      <3> QED BY <2>1, <3>1, <3>4, <3>5 DEF ControlInv
    <2>3. ASSUME NEW p \in Procs, Step(p) PROVE ControlInv'
      <3>1. Moved(p) /\ Control'
        BY <1>0, <2>3, StepMoves
      <3>2. KernelStep
        BY <1>0, <2>3, StepOnKernel
      <3>3. hook' \in [Hooks -> HookStates] /\ HooksShaped'
        BY <1>0, <3>2, KernelShape
      <3>4. FilesTyped' /\ Locked' /\ OnePath'
        BY <1>0, <2>3, <3>1, StepOnFiles
      <3>5. pidFile' \in Maybe(Gens) /\ crashes' \in 0..MaxCrashes
        BY Zenon, <1>0, <2>3, StepKeepsCounts
      <3>6. Typed'
        BY <1>0, <3>1, <3>2, <3>3, <3>4, <3>5 DEF Typed, FilesTyped, Moved, KernelStep
      <3> QED BY <2>1, <3>1, <3>3, <3>4, <3>6 DEF ControlInv
    <2> QED BY <1>2, <2>2, <2>3 DEF Next, Step
  <1> QED BY <1>1, <1>2

\* The inductive invariant behind the theorems below.
THEOREM ControlHolds == Spec => []ControlInv
  BY ControlInit, ControlNext, PTL DEF Spec

\* The lock keeps helpers apart (start_with_config), except over a lock file that is
\* unlinked while another helper starts on it.
THEOREM AtMostOneInstance == Spec => []OneInstance
  <1>1. ControlInv => OneInstance
    <2> SUFFICES ASSUME ControlInv, ~raced, NEW p \in Procs, NEW q \in Procs,
                        Starting(p), Starting(q), Working(p), Working(q)
                 PROVE  p = q
      BY DEF OneInstance
    <2>0. Control /\ Locked /\ OnePath
      BY Zenon DEF ControlInv
    <2>1. proc[p].pc \notin {"lock", "unlinkLock"} /\ proc[q].pc \notin {"lock", "unlinkLock"}
      BY SMTT(30) DEF Working, StartSteps, ServeSteps, ReconcileSteps
    <2>2. lockOwner[proc[p].ino] = p /\ lockOwner[proc[q].ino] = q
      BY <2>0, <2>1, Zenon DEF Locked
    <2>3. proc[p].ino # None /\ proc[q].ino # None
      BY <2>0, <2>1 DEF Control, Consistent, Starting
    <2>4. proc[p].ino = lockPath /\ proc[q].ino = lockPath
      BY <2>0, <2>3 DEF OnePath
    <2> QED BY <2>2, <2>4
  <1> QED BY <1>1, ControlHolds, PTL

\* Instance implements HookOwner: whatever fails, crashes or overlaps, no step of ours
\* changes what the system has in a hook (bpf2socks_bpf_prog_attach,
\* bpf2socks_bpf_prog_detach, asterisk_cgroup_detach_pins).
THEOREM SystemNeverDisturbed == Spec => SystemUndisturbed
  <1>1. Init => Owner!Init
    <2> SUFFICES ASSUME Init PROVE Owner!Init
      OBVIOUS
    <2>0. Typed /\ HooksShaped
      BY Zenon, ControlInit DEF ControlInv
    <2>1. \A h \in Hooks : hook[h] \in {Empty, Placeholder, Alone(Foreign), Joined(Empty, Foreign)}
      BY InitialAssumption DEF Init
    <2>2. ASSUME NEW h \in Hooks PROVE hook[h].progs \cap Own = {}
      BY SMTT(30), <2>1, SystemPrograms DEF Empty, Placeholder, Alone, Joined
    <2>3. \A h \in Hooks : SystemView(h).exclusive => SystemView(h).progs # {}
      BY <2>2, Zenon DEF SystemView
    <2> QED BY <2>2, <2>3 DEF Owner!Init, Init
  <1>2. ControlInv /\ [Next]_vars => [Owner!Next]_(Owner!vars)
    <2> SUFFICES ASSUME ControlInv, [Next]_vars PROVE Owner!Next \/ UNCHANGED <<View, Ours, edits>>
      BY DEF Owner!vars, View, Ours
    <2>0. Typed /\ Control /\ HooksShaped
      BY DEF ControlInv
    <2>1. CASE SystemStep
      BY <2>0, <2>1, SystemStepRefines DEF Owner!Next
    <2>2. ASSUME NEW p \in Procs, Step(p) PROVE Owner!Next \/ UNCHANGED <<View, Ours, edits>>
      <3>1. KernelStep
        BY SMTT(30), <2>0, <2>2, StepOnKernel
      <3>2. CASE UNCHANGED hook
        BY <3>1, <3>2, Zenon DEF KernelStep, View, Ours, SystemView
      <3>3. ASSUME NEW l \in Leaves, NEW at \in HookStates, HookStep(l, at)
            PROVE  Owner!Next \/ UNCHANGED <<View, Ours, edits>>
        BY SMTT(30), <2>0, <3>1, <3>3, GuestStep DEF KernelStep, Owner!Next
      <3> QED BY <3>1, <3>2, <3>3 DEF KernelStep
    <2>3. CASE UNCHANGED vars
      BY <2>3, Zenon DEF vars, kernelVars, noteVars, View, Ours, SystemView
    <2> QED BY Zenon, <2>1, <2>2, <2>3 DEF Next, Step
  <1> QED BY <1>1, <1>2, ControlHolds, PTL DEF Spec, SystemUndisturbed, Owner!Spec
=============================================================================
