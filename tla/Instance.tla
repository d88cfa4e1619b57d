------------------------------ MODULE Instance ------------------------------
(***************************************************************************)
(* The commands --start and --stop (main.c), run by any number of          *)
(* processes at once: the lock file and the PID file between them, the     *)
(* start and the stop of the BPF runtime (bpf/runtime.c) on the hooks of   *)
(* CgroupHooks, and what is left for the next process when one of them     *)
(* fails or dies.                                                          *)
(*                                                                         *)
(* A process is killed by a crash, or by SIGTERM before it has installed   *)
(* its handlers.  Its descriptors and its lock go with it; attachments,    *)
(* pins and files stay.  The rest of the system changes hooks too.  The    *)
(* bridge is one step that ends when told to, or by itself.                *)
(***************************************************************************)
EXTENDS CgroupHooks

CONSTANTS
    Procs,
    InitialHooks,   \* what the system has in the hooks at first
    Inodes,         \* of lock files
    MaxEdits,       \* bound on the changes the rest of the system makes
    MaxCrashes      \* bound on the processes that die before their time

ASSUME InitialAssumption ==
    InitialHooks \subseteq [Hooks -> {Empty, Placeholder, Alone(Foreign), Joined(Empty, Foreign)}]

ASSUME ProcessAssumption ==
    /\ None \notin Procs \cup Inodes
    /\ {MaxEdits, MaxCrashes} \subseteq Nat

VARIABLES
    hook,       \* hook -> its programs
    pin,        \* leaf -> the process whose program is pinned
    lockPath,   \* the inode the lock file's path leads to
    lockOwner,  \* inode -> process that has it locked
    pidFile,    \* the PID in the PID file; None when it is missing or empty
    proc,
    edits,      \* how often the rest of the system has changed a hook
    crashes,    \* how many processes have died
    overlap,    \* two processes have worked on the hooks at the same time
    raced       \* a lock file was unlinked while another process was starting on it

kernelVars == <<hook, pin>>
fileVars == <<lockPath, lockOwner, pidFile>>
noteVars == <<edits, crashes, raced>>
vars == <<kernelVars, fileVars, proc, noteVars, overlap>>

\* The step each process is at.  "detachPins" and "unlinkPins" are
\* asterisk_cgroup_reconcile, which continues at "then".
StartSteps ==
    {"lock", "prepare", "maps", "loadTc", "load", "pin", "attach", "capPin", "capAttach", "capDetach",
     "capUnpin", "peerPin", "peerAttach", "stopEvent"}
ServeSteps == {"bridge", "writePid", "serve"}
StopSteps == {"detach", "restore", "unlock", "unlinkLock"}
CommandSteps == {"tryLock", "kill", "wait", "close", "clean"}
ReconcileSteps == {"detachPins", "unlinkPins"}
Steps == {"idle"} \cup StartSteps \cup ServeSteps \cup StopSteps \cup CommandSteps \cup ReconcileSteps

\* todo: leaves a loop has yet to visit; kept: leaves whose original program the
\* process holds; pid: None unless it was started with --start; ino: the lock file
\* it has open.
Idle == [pc |-> "idle", then |-> "idle", todo |-> <<>>, kept |-> {}, pid |-> None,
         ino |-> None]

Go(p, pc) == proc' = [proc EXCEPT ![p].pc = pc]

Reconcile(p, then) ==
    proc' = [proc EXCEPT ![p].pc = "detachPins", ![p].todo = Catalog, ![p].then = then]

\* The processes between which there should be mutual exclusion: those that start,
\* serve, stop or clean up.
Working(p) ==
    proc[p].pc \in (StartSteps \ {"lock", "prepare"}) \cup ServeSteps \cup ReconcileSteps
                      \cup {"detach", "restore", "clean"}

Starting(p) == proc[p].pid # None

Init ==
    /\ hook \in InitialHooks
    /\ pin = [l \in Leaves |-> None]
    /\ lockPath = None
    /\ lockOwner = [i \in Inodes |-> None]
    /\ pidFile = None
    /\ proc = [p \in Procs |-> Idle]
    /\ edits = 0 /\ crashes = 0 /\ overlap = FALSE /\ raced = FALSE

-----------------------------------------------------------------------------
(* --start: the lock and the preparation. *)

FreePids ==
    {g \in Gens : /\ \A p \in Procs : proc[p].pid # g
                  /\ \A h \in Hooks : \A l \in Leaves : <<l, g>> \notin hook[h].progs
                  /\ \A l \in Leaves : pin[l] # g
                  /\ g # pidFile}

FreeInodes == {i \in Inodes \ {lockPath} : \A p \in Procs : proc[p].ino # i}

\* Mutant of Start: the lock file is always created anew.
StartOnNewFile(p) ==
    /\ proc[p].pc = "idle" /\ ~overlap
    /\ \E g \in FreePids, i \in FreeInodes :
          /\ lockPath' = i
          /\ proc' = [proc EXCEPT ![p].pc = "lock", ![p].pid = g, ![p].ino = i]
    /\ UNCHANGED <<kernelVars, lockOwner, pidFile, noteVars>>

Start(p) ==
    /\ proc[p].pc = "idle" /\ ~overlap
    /\ \E g \in FreePids, i \in IF lockPath = None THEN FreeInodes ELSE {lockPath} :
          /\ lockPath' = i
          /\ proc' = [proc EXCEPT ![p].pc = "lock", ![p].pid = g, ![p].ino = i]
    /\ UNCHANGED <<kernelVars, lockOwner, pidFile, noteVars>>

Lock(p) ==
    /\ proc[p].pc = "lock"
    /\ IF lockOwner[proc[p].ino] = None
       THEN lockOwner' = [lockOwner EXCEPT ![proc[p].ino] = p] /\ Go(p, "prepare")
       ELSE proc' = [proc EXCEPT ![p] = Idle] /\ UNCHANGED lockOwner
    /\ UNCHANGED <<kernelVars, lockPath, pidFile, noteVars>>

\* The configuration, the limits and the probes.
Prepare(p) ==
    /\ proc[p].pc = "prepare"
    /\ Go(p, "maps") \/ Go(p, "unlock")
    /\ UNCHANGED <<kernelVars, fileVars, noteVars>>

-----------------------------------------------------------------------------
(* bpf2socks_bpf_runtime_start. *)

Reverse(s) == [i \in 1..Len(s) |-> s[Len(s) + 1 - i]]

\* What bpf2socks_bpf_runtime_stop detaches, last attached first.
StopOrder == <<Peer>> \o Reverse(Ordinary)

\* goto fail, after the detaches in "rollback"
Fail(p, rollback) ==
    proc' = [proc EXCEPT ![p].pc = "detach", ![p].todo = rollback \o StopOrder, ![p].then = "idle"]

\* The maps and their pins, which replace older ones.
CreateMaps(p) ==
    /\ proc[p].pc = "maps"
    /\ Go(p, "loadTc") \/ Fail(p, <<>>)
    /\ UNCHANGED <<kernelVars, fileVars, noteVars>>

\* The TC programs and their pins, which replace older ones; then what an earlier
\* instance left on the cgroup is taken away.
LoadTcPrograms(p) ==
    /\ proc[p].pc = "loadTc"
    /\ Reconcile(p, "load") \/ Fail(p, <<>>)
    /\ UNCHANGED <<kernelVars, fileVars, noteVars>>

\* The cgroup programs, the loopback filters and the watcher threads.
LoadPrograms(p) ==
    /\ proc[p].pc = "load"
    /\ \/ proc' = [proc EXCEPT ![p].pc = "pin", ![p].todo = Ordinary]
       \/ Fail(p, <<>>)
    /\ UNCHANGED <<kernelVars, fileVars, noteVars>>

\* asterisk_cgroup_pin, which never replaces a pin
CanPin(l) == pin[l] = None

PinPrograms(p) ==
    /\ proc[p].pc = "pin"
    /\ LET l == Head(proc[p].todo)
           rest == Tail(proc[p].todo)
       IN  \/ /\ CanPin(l)
              /\ pin' = [pin EXCEPT ![l] = proc[p].pid]
              /\ proc' = IF rest # <<>> THEN [proc EXCEPT ![p].todo = rest]
                         ELSE [proc EXCEPT ![p].pc = "attach", ![p].todo = Ordinary]
           \/ Fail(p, <<>>) /\ UNCHANGED pin
    /\ UNCHANGED <<hook, fileVars, noteVars>>

\* One leaf's step of an attaching or detaching loop.
Change(p, l, outcome) ==
    /\ hook' = [hook EXCEPT ![HookOf[l]] = outcome.at]
    /\ UNCHANGED <<pin, fileVars, noteVars>>

AttachOutcomes(p, l) == Attach(l, <<l, proc[p].pid>>, hook[HookOf[l]], proc[p].kept)

\* A failure undoes the attachments of its family first.
AttachPrograms(p) ==
    /\ proc[p].pc = "attach"
    /\ LET l == Head(proc[p].todo)
           rest == Tail(proc[p].todo)
           done == SubSeq(Ordinary, 1, Len(Ordinary) - Len(proc[p].todo))
       IN  \E o \in AttachOutcomes(p, l) :
              /\ Change(p, l, o)
              /\ proc' = IF ~o.ok
                         THEN [proc EXCEPT ![p].pc = "detach", ![p].todo = Reverse(done) \o StopOrder]
                         ELSE [proc EXCEPT ![p].pc = IF rest = <<>> THEN "capPin" ELSE @,
                                           ![p].todo = rest, ![p].kept = o.kept]

\* attach_getpeername_prog: the no-op program is pinned, attached, detached and
\* unpinned; if the kernel does not know the hook, the real one is done without.
PinCap(p) ==
    /\ proc[p].pc = "capPin"
    /\ \/ CanPin(Cap) /\ pin' = [pin EXCEPT ![Cap] = proc[p].pid] /\ Go(p, "capAttach")
       \/ Go(p, "stopEvent") /\ UNCHANGED pin
       \/ Fail(p, <<>>) /\ UNCHANGED pin
    /\ UNCHANGED <<hook, fileVars, noteVars>>

\* "then" remembers the result over the unlinking of the pin.
AttachCap(p) ==
    /\ proc[p].pc = "capAttach"
    /\ \E o \in AttachOutcomes(p, Cap) :
          /\ Change(p, Cap, o)
          /\ \/ o.ok /\ Go(p, "capDetach")
             \/ /\ ~o.ok
                /\ \E then \in {"stopEvent", "detach"} :
                      proc' = [proc EXCEPT ![p].pc = "capUnpin", ![p].then = then]

DetachOutcomes(p, l) == Detach(l, <<l, proc[p].pid>>, hook[HookOf[l]], proc[p].kept)

DetachCap(p) ==
    /\ proc[p].pc = "capDetach"
    /\ \E o \in DetachOutcomes(p, Cap) :
          /\ Change(p, Cap, o)
          /\ IF o.ok THEN proc' = [proc EXCEPT ![p].pc = "capUnpin", ![p].then = "peerPin"]
                     ELSE Fail(p, <<>>)

UnpinCap(p) ==
    /\ proc[p].pc = "capUnpin"
    /\ \/ /\ pin' = [pin EXCEPT ![Cap] = None]
          /\ IF proc[p].then = "detach" THEN Fail(p, <<>>) ELSE proc' = [proc EXCEPT ![p].pc = proc[p].then, ![p].then = "idle"]
       \/ Fail(p, <<>>) /\ UNCHANGED pin
    /\ UNCHANGED <<hook, fileVars, noteVars>>

PinPeer(p) ==
    /\ proc[p].pc = "peerPin"
    /\ \/ CanPin(Peer) /\ pin' = [pin EXCEPT ![Peer] = proc[p].pid] /\ Go(p, "peerAttach")
       \/ Fail(p, <<>>) /\ UNCHANGED pin
    /\ UNCHANGED <<hook, fileVars, noteVars>>

AttachPeer(p) ==
    /\ proc[p].pc = "peerAttach"
    /\ \E o \in AttachOutcomes(p, Peer) :
          /\ Change(p, Peer, o)
          /\ IF o.ok THEN Go(p, "stopEvent") ELSE Fail(p, <<>>)

-----------------------------------------------------------------------------
(* The bridge, as far as other processes see it. *)

\* From here on SIGTERM only asks the bridge to stop.
InstallHandlers(p) ==
    /\ proc[p].pc = "stopEvent"
    /\ Go(p, "bridge") \/ Fail(p, <<>>)
    /\ UNCHANGED <<kernelVars, fileVars, noteVars>>

\* write_pid_file empties the file before it writes.
OpenPidFile(p) ==
    /\ proc[p].pc = "bridge"
    /\ \/ pidFile' = None /\ Go(p, "writePid")
       \/ Fail(p, <<>>) /\ UNCHANGED pidFile
    /\ UNCHANGED <<kernelVars, lockPath, lockOwner, noteVars>>

WritePidFile(p) ==
    /\ proc[p].pc = "writePid"
    /\ \/ pidFile' = proc[p].pid /\ Go(p, "serve")
       \/ pidFile' = None /\ Fail(p, <<>>)
    /\ UNCHANGED <<kernelVars, lockPath, lockOwner, noteVars>>

\* The workers have ended, because of a signal or of a failure.
EndBridge(p) ==
    /\ proc[p].pc = "serve"
    /\ pidFile' = None
    /\ Fail(p, <<>>)
    /\ UNCHANGED <<kernelVars, lockPath, lockOwner, noteVars>>

-----------------------------------------------------------------------------
(* bpf2socks_bpf_runtime_stop and the end of --start. *)

\* The result of each detach is ignored.
DetachPrograms(p) ==
    /\ proc[p].pc = "detach"
    /\ LET l == Head(proc[p].todo)
           rest == Tail(proc[p].todo)
       IN  \E o \in DetachOutcomes(p, l) :
              /\ Change(p, l, o)
              /\ proc' = [proc EXCEPT ![p].pc = IF rest = <<>> THEN "restore" ELSE @,
                                      ![p].todo = rest, ![p].kept = o.kept]

\* bpf2socks_bpf_cgroup_restore, then cleanup_fixed_bpf_pins
RestoreOne(p) ==
    /\ proc[p].pc = "restore"
    /\ \E l \in proc[p].kept : \E o \in DetachOutcomes(p, l) :
          /\ Change(p, l, o)
          /\ proc' = [proc EXCEPT ![p].kept = @ \ {l}]

CleanupFixedPins(p) ==
    /\ proc[p].pc = "restore" /\ proc[p].kept = {}
    /\ Reconcile(p, "unlock")
    /\ UNCHANGED <<kernelVars, fileVars, noteVars>>

\* Mutant of Return: --stop goes on after a failed reconciliation.
ReturnAnyway(p, ok) ==
    CASE proc[p].then = "load" /\ ~ok -> Fail(p, <<>>)
      [] proc[p].then = "exit" -> proc' = [proc EXCEPT ![p] = Idle]
      [] OTHER -> proc' = [proc EXCEPT ![p].pc = proc[p].then, ![p].todo = <<>>, ![p].then = "idle"]

\* Where asterisk_cgroup_reconcile returns to.  On success the callers at the end of
\* --start and of --stop also remove the pins of the TC programs and of the maps.
Return(p, ok) ==
    CASE proc[p].then = "load" /\ ~ok -> Fail(p, <<>>)
      [] proc[p].then = "exit" \/ (proc[p].then = "clean" /\ ~ok) -> proc' = [proc EXCEPT ![p] = Idle]
      [] OTHER -> proc' = [proc EXCEPT ![p].pc = proc[p].then, ![p].todo = <<>>, ![p].then = "idle"]

\* Mutant of DetachPins: a failed leaf is skipped, and all pins are removed.
DetachPinsBestEffort(p) ==
    /\ proc[p].pc = "detachPins"
    /\ LET l == Head(proc[p].todo)
           rest == Tail(proc[p].todo)
       IN  \E o \in IF pin[l] = None THEN {Outcome(TRUE, hook[HookOf[l]], {})}
                    ELSE DetachPinned(<<l, pin[l]>>, hook[HookOf[l]]) :
              /\ Change(p, l, o)
              /\ proc' = IF rest # <<>> THEN [proc EXCEPT ![p].todo = rest]
                         ELSE [proc EXCEPT ![p].pc = "unlinkPins", ![p].todo = Catalog]

\* asterisk_cgroup_detach_pins
DetachPins(p) ==
    /\ proc[p].pc = "detachPins"
    /\ LET l == Head(proc[p].todo)
           rest == Tail(proc[p].todo)
       IN  \E o \in IF pin[l] = None THEN {Outcome(TRUE, hook[HookOf[l]], {})}
                    ELSE DetachPinned(<<l, pin[l]>>, hook[HookOf[l]]) :
              /\ Change(p, l, o)
              /\ IF o.ok
                 THEN proc' = IF rest # <<>> THEN [proc EXCEPT ![p].todo = rest]
                              ELSE [proc EXCEPT ![p].pc = "unlinkPins", ![p].todo = Catalog]
                 ELSE Return(p, FALSE)

\* asterisk_cgroup_reconcile
UnlinkPins(p) ==
    /\ proc[p].pc = "unlinkPins"
    /\ \/ /\ pin' = [pin EXCEPT ![Head(proc[p].todo)] = None]
          /\ IF Tail(proc[p].todo) # <<>> THEN proc' = [proc EXCEPT ![p].todo = Tail(@)]
             ELSE Return(p, TRUE)
       \/ Return(p, FALSE) /\ UNCHANGED pin
    /\ UNCHANGED <<hook, fileVars, noteVars>>

Unlock(p) ==
    /\ proc[p].pc = "unlock"
    /\ lockOwner' = [lockOwner EXCEPT ![proc[p].ino] = None]
    /\ proc' = [proc EXCEPT ![p].pc = "unlinkLock", ![p].ino = None]
    /\ UNCHANGED <<kernelVars, lockPath, pidFile, noteVars>>

\* The path, whatever file it leads to by now.
UnlinkLock(p) ==
    /\ proc[p].pc = "unlinkLock"
    /\ lockPath' = None
    /\ proc' = [proc EXCEPT ![p] = Idle]
    /\ raced' = (raced \/ (lockPath # None /\ \E q \in Procs : Starting(q) /\ proc[q].ino = lockPath))
    /\ UNCHANGED <<kernelVars, lockOwner, pidFile, edits, crashes>>

-----------------------------------------------------------------------------
(* --stop. *)

StopCommand(p) ==
    /\ proc[p].pc = "idle" /\ ~overlap
    /\ IF lockPath = None THEN Reconcile(p, "clean")
       ELSE proc' = [proc EXCEPT ![p].pc = "tryLock", ![p].ino = lockPath]
    /\ UNCHANGED <<kernelVars, fileVars, noteVars>>

\* The first attempt and the last: the lock is taken, and then closed.
TryLock(p) ==
    /\ proc[p].pc \in {"tryLock", "wait"}
    /\ \/ /\ lockOwner[proc[p].ino] = None
          /\ lockOwner' = [lockOwner EXCEPT ![proc[p].ino] = p]
          /\ Go(p, "close")
       \/ /\ lockOwner[proc[p].ino] # None
          /\ Go(p, IF proc[p].pc = "tryLock" THEN "kill" ELSE "close")
          /\ UNCHANGED lockOwner
    /\ UNCHANGED <<kernelVars, lockPath, pidFile, noteVars>>

\* SIGTERM to whatever has the PID in the file.  A helper that has written it has
\* its handlers installed, and only ends its bridge.
Kill(p) ==
    /\ proc[p].pc = "kill"
    /\ Go(p, "wait")
    /\ UNCHANGED <<kernelVars, fileVars, noteVars>>

\* The locks of a process that closes its descriptors.
Unlocked(p) == [i \in Inodes |-> IF lockOwner[i] = p THEN None ELSE lockOwner[i]]

CloseLock(p) ==
    /\ proc[p].pc = "close"
    /\ lockOwner' = Unlocked(p)
    /\ proc' = [proc EXCEPT ![p].pc = "detachPins", ![p].todo = Catalog, ![p].then = "clean",
                            ![p].ino = None]
    /\ UNCHANGED <<kernelVars, lockPath, pidFile, noteVars>>

\* The second half of stop_with_config: cleanup_fixed_bpf_pins reconciles again.
Clean(p) ==
    /\ proc[p].pc = "clean"
    /\ Reconcile(p, "exit")
    /\ UNCHANGED <<kernelVars, fileVars, noteVars>>

-----------------------------------------------------------------------------
Crash(p) ==
    /\ proc[p].pc # "idle" /\ ~overlap
    /\ proc' = [proc EXCEPT ![p] = Idle]
    /\ lockOwner' = Unlocked(p)
    /\ crashes < MaxCrashes /\ crashes' = crashes + 1
    /\ UNCHANGED <<kernelVars, lockPath, pidFile, edits, raced>>

SystemStep ==
    /\ edits < MaxEdits /\ ~overlap
    /\ \E h \in Hooks : \E at \in SystemChanges(hook[h]) \ {hook[h]} :
          hook' = [hook EXCEPT ![h] = at]
    /\ edits' = edits + 1
    /\ UNCHANGED <<pin, fileVars, proc, crashes, raced>>

StartStep(p) ==
    \/ Start(p) \/ Lock(p) \/ Prepare(p) \/ CreateMaps(p) \/ LoadTcPrograms(p)
    \/ LoadPrograms(p) \/ PinPrograms(p)
    \/ AttachPrograms(p) \/ PinCap(p) \/ AttachCap(p) \/ DetachCap(p) \/ UnpinCap(p)
    \/ PinPeer(p) \/ AttachPeer(p) \/ InstallHandlers(p) \/ OpenPidFile(p) \/ WritePidFile(p)
    \/ EndBridge(p) \/ DetachPrograms(p) \/ RestoreOne(p) \/ CleanupFixedPins(p)
    \/ Unlock(p) \/ UnlinkLock(p)

StopStep(p) == StopCommand(p) \/ TryLock(p) \/ Kill(p) \/ CloseLock(p) \/ Clean(p)

\* "overlap" only records what happened.
Next ==
    /\ SystemStep \/ \E p \in Procs : StartStep(p) \/ StopStep(p) \/ DetachPins(p) \/ UnlinkPins(p) \/ Crash(p)
    /\ overlap' = (overlap \/ \E p, q \in Procs : p # q /\ Working(p)' /\ Working(q)')

Spec == Init /\ [][Next]_vars

-----------------------------------------------------------------------------
Maybe(S) == S \cup {None}

\* A hook that is not shared holds one program at most; a lock is held by a process
\* that has its file open; a process that works on the hooks for --start holds the
\* lock (main.c).
TypeOK ==
    /\ hook \in [Hooks -> HookStates]
    /\ \A h \in Hooks : hook[h].multi \/ \A x, y \in hook[h].progs : x = y
    /\ pin \in [Leaves -> Maybe(Gens)]
    /\ lockPath \in Maybe(Inodes)
    /\ lockOwner \in [Inodes -> Maybe(Procs)]
    /\ \A i \in Inodes : lockOwner[i] # None => proc[lockOwner[i]].ino = i
    /\ pidFile \in Maybe(Gens)
    /\ \A p \in Procs :
          /\ proc[p].pc \in Steps
          /\ proc[p].kept \subseteq Range(Ordinary)
          /\ Starting(p) /\ Working(p) => lockOwner[proc[p].ino] = p
    /\ edits \in 0..MaxEdits /\ crashes \in 0..MaxCrashes
    /\ {overlap, raced} \subseteq BOOLEAN

\* Cleanup authority survives any crash: as long as no two processes work on the
\* hooks at once, each attached program of a helper, dead or alive, has its pin
\* ("pin before attach", bpf_cgroup_owned.h:68; every pin is kept on error).
Recoverable ==
    /\ TypeOK
    /\ ~overlap => \A h \in Hooks : \A x \in hook[h].progs \cap Own : pin[x[1]] = x[2]

\* A helper that serves has every ordinary program of its own in its hook, unless
\* another process of ours, or the system, has meddled (bpf2socks_bpf_runtime_start).
Intercepting ==
    \A p \in Procs :
        proc[p].pc = "serve" /\ ~overlap /\ edits = 0 =>
            \A l \in Range(Ordinary) : <<l, proc[p].pid>> \in hook[HookOf[l]].progs

\* The lock keeps helpers apart, except when the file one of them starts on is the
\* one another is about to unlink after unlocking it (start_with_config).
OneInstance ==
    ~raced => \A p, q \in Procs : Starting(p) /\ Starting(q) /\ Working(p) /\ Working(q) => p = q

\* A --stop that has reconciled, and from then on returns success, has left none of our
\* programs in a hook and no pin of one, if nobody else was at work (stop_with_config).
CleanAfterStop ==
    \A p \in Procs :
        proc[p].then = "exit" /\ ~overlap =>
            /\ \A h \in Hooks : hook[h].progs \cap Own = {}
            /\ \A l \in Leaves : pin[l] = None

\* The commands do what they report: a helper that serves has all its programs in
\* the hooks, a --stop that succeeded has left none.
CommandsHonest == Intercepting /\ CleanAfterStop

-----------------------------------------------------------------------------
(* What the system may rely on: see HookOwner. *)

\* What a hook holds for the system.  A program of ours that has it alone stands for
\* the placeholder it has replaced.
SystemView(h) ==
    [exclusive |-> ~hook[h].multi /\ hook[h].progs # {},
     progs |-> IF hook[h].multi \/ hook[h].progs \cap Own = {} THEN hook[h].progs \ Own ELSE {Allow}]

Owner == INSTANCE HookOwner WITH
            view <- [h \in Hooks |-> SystemView(h)],
            ours <- [h \in Hooks |-> hook[h].progs \cap Own]

\* Whatever fails, crashes or overlaps, our programs come and go without disturbing
\* what the system has put into a hook, and enter a hook the system has for itself only
\* in place of a program that allows everything (bpf2socks_bpf_prog_attach,
\* bpf2socks_bpf_prog_detach, asterisk_cgroup_detach_pins).
SystemUndisturbed == Owner!Spec
=============================================================================
