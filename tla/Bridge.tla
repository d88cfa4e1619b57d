------------------------------- MODULE Bridge -------------------------------
(***************************************************************************)
(* The life of one bridge (bridge/bridge.c): listeners for each worker, a  *)
(* TCP and a UDP thread for each, perhaps a thread for the statistics, the *)
(* stop event all of them wait on (core/stop_event.c), and the joins at    *)
(* the end.  Anything may fail at any point of the start, and any worker   *)
(* at any time.                                                            *)
(*                                                                         *)
(* A handler of a worker is one step: what it does is in the modules of    *)
(* the sessions.                                                           *)
(***************************************************************************)
EXTENDS Limits

CONSTANTS
    Requests,   \* configurations as read from the file
    Nofiles,    \* soft limits on the number of descriptors
    Opens,      \* numbers of descriptors open at the start
    None

VARIABLES
    request,    \* what the process is started with; None once it is worked out
    workers,    \* worker_count
    pc,         \* of the main thread
    at,         \* the worker its loop is at
    listeners,  \* workers with listeners
    thread,     \* (worker, kind) -> where the thread is
    good,       \* threads that have ended with result 0
    stats,      \* the statistics thread
    stop,       \* stop_requested
    event,      \* the stop event is readable
    failed      \* result of bpf2socks_bridge_run

vars == <<request, workers, pc, at, listeners, thread, good, stats, stop, event, failed>>

WorkerIds == 0..(MaxWorkers - 1)
Kinds == {"tcp", "udp"}
Threads == WorkerIds \X Kinds

Init ==
    /\ request \in [config : Requests, nofile : Nofiles, open : Opens, auto : AutoWorkers]
    /\ workers = 0
    /\ pc = "prepare" /\ at = 0
    /\ listeners = {}
    /\ thread = [t \in Threads |-> "none"] /\ good = {}
    /\ stats = "none"
    /\ stop = FALSE /\ event = FALSE
    /\ failed = TRUE

-----------------------------------------------------------------------------
(* The main thread. *)

Allowed(r) == Capacity(Normalize(r.config, r.auto), r.nofile, r.open)

\* apply_nofile_session_capacity and the allocations of bpf2socks_bridge_run
Prepare ==
    /\ pc = "prepare"
    /\ request' = None
    /\ \/ \E c \in Allowed(request) : workers' = c.workers /\ pc' = "listen"
       \/ workers' = 0 /\ pc' = "done"
    /\ UNCHANGED <<at, listeners, thread, good, stats, stop, event, failed>>

\* bpf2socks_stop_request
RequestStop == stop' = TRUE /\ event' = TRUE

\* goto done
GiveUp == pc' = "joinTcp" /\ at' = 0 /\ RequestStop

\* bind_udp4_listener, bind_udp6_listener, bind_tcp4_listener and bind_tcp6_listener:
\* what they leave when one of them, or the registration for reuseport, fails.
BoundSome(w) == {listeners, listeners \cup {w}}

\* The listeners of one worker and their registration for reuseport.
Listen ==
    /\ pc = "listen"
    /\ \/ /\ listeners' = listeners \cup {at}
          /\ IF at + 1 < workers THEN at' = at + 1 /\ UNCHANGED pc ELSE at' = 0 /\ pc' = "stats"
          /\ UNCHANGED <<stop, event>>
       \/ GiveUp /\ listeners' \in BoundSome(at)
    /\ UNCHANGED <<request, workers, thread, good, stats, failed>>

\* Statistics are optional, and so is their thread.
StartStats ==
    /\ pc = "stats"
    /\ stats' \in {"none", "check"}
    /\ pc' = "spawnTcp"
    /\ UNCHANGED <<request, workers, at, listeners, thread, good, stop, event, failed>>

\* start_worker_thread
Spawn(kind, next) ==
    \/ /\ thread' = [thread EXCEPT ![<<at, kind>>] = "init"]
       /\ next
       /\ UNCHANGED <<stop, event>>
    \/ GiveUp /\ UNCHANGED thread

SpawnTcp ==
    /\ pc = "spawnTcp"
    /\ Spawn("tcp", pc' = "spawnUdp" /\ UNCHANGED at)
    /\ UNCHANGED <<request, workers, listeners, good, stats, failed>>

SpawnUdp ==
    /\ pc = "spawnUdp"
    /\ Spawn("udp", IF at + 1 < workers THEN at' = at + 1 /\ pc' = "spawnTcp" ELSE at' = 0 /\ pc' = "pidFile")
    /\ UNCHANGED <<request, workers, listeners, good, stats, failed>>

WritePidFile ==
    /\ pc = "pidFile"
    /\ \/ failed' = FALSE /\ pc' = "joinTcp" /\ UNCHANGED <<at, stop, event>>
       \/ GiveUp /\ UNCHANGED failed
    /\ UNCHANGED <<request, workers, listeners, thread, good, stats>>

\* One thread of a kind is joined, if it was started.
Join(kind, next) ==
    /\ thread[<<at, kind>>] \in {"none", "ended"}
    /\ failed' = (failed \/ (thread[<<at, kind>>] = "ended" /\ <<at, kind>> \notin good))
    /\ IF at + 1 < workers THEN at' = at + 1 /\ UNCHANGED pc ELSE at' = 0 /\ pc' = next
    /\ UNCHANGED <<request, workers, listeners, thread, good, stats, stop, event>>

JoinTcp == pc = "joinTcp" /\ Join("tcp", "stop")

\* The TCP workers have ended, so the UDP workers shall.
StopAll ==
    /\ pc = "stop"
    /\ RequestStop
    /\ pc' = "joinUdp"
    /\ UNCHANGED <<request, workers, at, listeners, thread, good, stats, failed>>

JoinUdp == pc = "joinUdp" /\ Join("udp", "joinStats")

\* Mutant of Close: the statistics thread is left to itself.
CloseAtOnce ==
    /\ pc = "joinStats"
    /\ listeners' = {}
    /\ pc' = "done"
    /\ UNCHANGED <<request, workers, at, thread, good, stats, stop, event, failed>>

\* The statistics thread reads the workers' counters, so it ends before they are freed.
Close ==
    /\ pc = "joinStats"
    /\ stats \in {"none", "ended"}
    /\ listeners' = {}
    /\ pc' = "done"
    /\ UNCHANGED <<request, workers, at, thread, good, stats, stop, event, failed>>

-----------------------------------------------------------------------------
(* The workers. *)

\* A step of a thread's start: it goes on to place, or the thread fails.
Starting(t, from, place) ==
    /\ thread[t] = from
    /\ \E next \in {place, "request"} : thread' = [thread EXCEPT ![t] = next]
    /\ UNCHANGED <<request, workers, pc, at, listeners, good, stats, stop, event, failed>>

\* bpf2socks_bridge_tcp_run up to its loop
InitTcp(w) == Starting(<<w, "tcp">>, "init", "check")

\* init_state, and bpf2socks_bridge_udp_run up to its loop
InitState(w) == Starting(<<w, "udp">>, "init", "open")
InitUdp(w) == Starting(<<w, "udp">>, "open", "check")

\* while (!bpf2socks_stop_requested())
CheckStop(t) ==
    /\ thread[t] = "check"
    /\ IF stop THEN thread' = [thread EXCEPT ![t] = "ended"] /\ good' = good \cup {t}
       ELSE thread' = [thread EXCEPT ![t] = "wait"] /\ UNCHANGED good
    /\ UNCHANGED <<request, workers, pc, at, listeners, stats, stop, event, failed>>

\* Mutant of Wake: the worker that wakes takes the event.
WakeTakesEvent(t) ==
    /\ thread[t] = "wait"
    /\ event
    /\ event' = FALSE
    /\ thread' = [thread EXCEPT ![t] = "check"]
    /\ UNCHANGED <<request, workers, pc, at, listeners, good, stats, stop, failed>>

\* epoll_wait returns: the stop event is never read, so it wakes everyone.
Wake(t) ==
    /\ thread[t] = "wait"
    /\ event
    /\ thread' = [thread EXCEPT ![t] = "check"]
    /\ UNCHANGED <<request, workers, pc, at, listeners, good, stats, stop, event, failed>>

\* It returns for another reason, or fails.
WakeOtherwise(t) ==
    /\ thread[t] = "wait"
    /\ thread' = [thread EXCEPT ![t] = "check"] \/ thread' = [thread EXCEPT ![t] = "request"]
    /\ UNCHANGED <<request, workers, pc, at, listeners, good, stats, stop, event, failed>>

\* bridge_worker_thread: a worker that fails ends the bridge.
ThreadFails(t) ==
    /\ thread[t] = "request"
    /\ RequestStop
    /\ thread' = [thread EXCEPT ![t] = "ended"]
    /\ UNCHANGED <<request, workers, pc, at, listeners, good, stats, failed>>

\* bridge_stats_thread: it looks every second, and once more at the end.
StatsStep ==
    /\ stats = "check"
    /\ stop
    /\ stats' = "ended"
    /\ UNCHANGED <<request, workers, pc, at, listeners, thread, good, stop, event, failed>>

\* on_signal
Signal ==
    /\ pc \notin {"prepare", "done"} /\ ~stop
    /\ RequestStop
    /\ UNCHANGED <<request, workers, pc, at, listeners, thread, good, stats, failed>>

Main ==
    Listen \/ StartStats \/ SpawnTcp \/ SpawnUdp \/ WritePidFile \/ JoinTcp \/ StopAll
    \/ JoinUdp \/ Close

Next ==
    \/ Prepare \/ Main \/ StatsStep \/ Signal
    \/ \E w \in WorkerIds : InitTcp(w) \/ InitState(w) \/ InitUdp(w)
    \/ \E t \in Threads : CheckStop(t) \/ Wake(t) \/ WakeOtherwise(t) \/ ThreadFails(t)
    \/ pc = "done" /\ UNCHANGED vars

\* Threads are scheduled, system calls return, and epoll_wait returns once the stop
\* event is readable.  Nothing else needs to happen.
Fairness ==
    /\ WF_vars(Main) /\ WF_vars(StatsStep)
    /\ \A w \in WorkerIds : WF_vars(InitTcp(w)) /\ WF_vars(InitState(w) \/ InitUdp(w))
    /\ \A t \in Threads : WF_vars(CheckStop(t) \/ Wake(t) \/ ThreadFails(t))

Spec == Init /\ [][Next]_vars /\ Fairness

-----------------------------------------------------------------------------
\* Threads belong to workers that are there (bpf2socks_bridge_run).
TypeOK ==
    /\ workers \in 0..MaxWorkers /\ at \in WorkerIds
    /\ listeners \subseteq WorkerIds
    /\ \A t \in Threads : thread[t] # "none" => t[1] < workers
    /\ good \subseteq {t \in Threads : thread[t] = "ended"}
    /\ {stop, event, failed} \subseteq BOOLEAN

\* Every thread that runs, the one of the statistics included, finds the memory of the
\* workers and their listeners: they go only after all threads have been joined, however
\* far the start had come (bpf2socks_bridge_run).
ThreadsHaveWorkers ==
    /\ \A t \in Threads : thread[t] \notin {"none", "ended"} => t[1] \in listeners /\ pc # "done"
    /\ stats = "check" => pc # "done" /\ listeners # {}

\* A bridge that reports success has run every thread of every worker, and all of them
\* have ended well.
HonestResult ==
    pc = "done" /\ ~failed => \A w \in 0..(workers - 1), k \in Kinds : <<w, k>> \in good

\* However the bridge comes to its end, no thread outlives what it works on, and none
\* that failed or was never started is reported as a success (bpf2socks_bridge_run).
OrderlyEnd == TypeOK /\ ThreadsHaveWorkers /\ HonestResult

\* However the limits cut the configuration down, every worker has a share of sessions and
\* of bindings, which init_state insists on, and the process keeps within its descriptors.
EveryWorkerHasRoom ==
    pc = "prepare" =>
        \A c \in Allowed(request) :
            /\ \A w \in 0..(c.workers - 1) :
                  Quota(c.udp, w, c.workers) > 0 /\ Quota(c.bindings, w, c.workers) > 0
            /\ \/ request.nofile = Unlimited
               \/ Demand(c) + Reserve(request.open, c.workers) <= request.nofile

\* A stop request at any time, and any worker that ends, end the whole bridge: no thread
\* misses the event, and none is waited for that was not told.
StopEnds == (stop \/ \E t \in Threads : thread[t] = "ended") ~> pc = "done"
=============================================================================
