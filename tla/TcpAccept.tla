------------------------------ MODULE TcpAccept ------------------------------
(***************************************************************************)
(* Accepting TCP clients (bridge/tcp.c): the session budget shared by the  *)
(* workers, the descriptors each connection takes from the process-wide    *)
(* table, and the listeners a worker stops polling when that table is      *)
(* full.  What happens inside a connection is TcpRelay; here it is a       *)
(* number of descriptors.                                                  *)
(*                                                                         *)
(* A worker's step makes at most one access to the budget or to the        *)
(* descriptor table, except where code that cannot block does several in   *)
(* a row on descriptors only it knows.                                     *)
(***************************************************************************)
EXTENDS Integers, FiniteSetsExt

CONSTANTS
    Workers,        \* TCP threads
    Cap,            \* budget->cap
    FdLimit,        \* descriptors the process may still open
    PoolCap,        \* BPF2SOCKS_TCP_PIPE_POOL_CAP
    Others          \* descriptors the UDP threads open and close meanwhile

Listeners == {"listener4", "listener6"}

ASSUME AcceptAssumption ==
    /\ {Cap, FdLimit, PoolCap, Others} \subseteq Nat
    /\ IsFiniteSet(Workers) /\ Cardinality(Workers) <= FdLimit

VARIABLES
    used,       \* budget->used
    free,       \* free entries of the descriptor table
    others,     \* descriptors of other threads
    pc,         \* where each worker's thread is
    seen,       \* `used' as last loaded by reserve_tcp_session
    armed,      \* listeners registered with epoll
    paused,     \* listeners_paused
    due,        \* listeners_resume_ms has passed
    spare,      \* whether spare_fd is open
    shaking,    \* active connections without pipes
    relaying,   \* active connections with their two pipes
    pool,       \* pipes in the worker's pool
    dead,       \* whether there are closed connections that are not freed yet
    deadPipes   \* how many of those have pipes

vars == <<used, free, others, pc, seen, armed, paused, due, spare, shaking, relaying,
          pool, dead, deadPipes>>

Labels == {"wait", "dispatch", "accept", "reserve", "cas", "connect", "add", "unreserve",
           "spare_accept", "spare_open", "resume", "expire", "free", "resume_top"}

\* The counters stay within the budget, the descriptor table and the pool.
TypeOK ==
    /\ used \in 0..Cap
    /\ free \in 0..FdLimit
    /\ others \in 0..Others
    /\ pc \in [Workers -> Labels]
    /\ seen \in [Workers -> 0..Cap]
    /\ armed \in [Workers -> SUBSET Listeners]
    /\ paused \in [Workers -> BOOLEAN]
    /\ due \in [Workers -> BOOLEAN]
    /\ spare \in [Workers -> BOOLEAN]
    /\ shaking \in [Workers -> Nat]
    /\ relaying \in [Workers -> Nat]
    /\ pool \in [Workers -> 0..PoolCap]
    /\ dead \in [Workers -> BOOLEAN]
    /\ deadPipes \in [Workers -> Nat]

Zero == [w \in Workers |-> 0]

\* Every worker has opened its spare descriptor.
Init ==
    /\ used = 0
    /\ free = FdLimit - Cardinality(Workers)
    /\ others = 0
    /\ pc = [w \in Workers |-> "wait"]
    /\ seen = Zero
    /\ armed = [w \in Workers |-> Listeners]
    /\ paused = [w \in Workers |-> FALSE]
    /\ due = [w \in Workers |-> FALSE]
    /\ spare = [w \in Workers |-> TRUE]
    /\ shaking = Zero
    /\ relaying = Zero
    /\ pool = Zero
    /\ dead = [w \in Workers |-> FALSE]
    /\ deadPipes = Zero

Goto(w, label) == pc' = [pc EXCEPT ![w] = label]

\* The groups of variables a step may leave alone.
budget == <<used, seen>>
listening == <<armed, paused, due, spare>>
connections == <<shaking, relaying, pool, dead, deadPipes>>

\* Mutant: pausing forgets the second listener.
PauseListenersOne(w) ==
    /\ armed' = [armed EXCEPT ![w] = @ \ {"listener4"}]
    /\ paused' = paused
    /\ due' = [due EXCEPT ![w] = FALSE]

\* pause_tcp_listeners
PauseListeners(w) ==
    /\ armed' = [armed EXCEPT ![w] = {}]
    /\ paused' = [paused EXCEPT ![w] = TRUE]
    /\ due' = [due EXCEPT ![w] = FALSE]

-----------------------------------------------------------------------------
(* The event loop. *)

EpollWait(w) ==
    /\ pc[w] = "wait"
    /\ Goto(w, "dispatch")
    /\ UNCHANGED <<budget, free, others, listening, connections>>

ListenerEvent(w) ==
    /\ pc[w] = "dispatch"
    /\ ~paused[w] /\ armed[w] # {}
    /\ Goto(w, "accept")
    /\ UNCHANGED <<budget, free, others, listening, connections>>

BatchDone(w) ==
    /\ pc[w] = "dispatch"
    /\ Goto(w, "resume")
    /\ UNCHANGED <<budget, free, others, listening, connections>>

\* close_connection: the sockets go back at once, the pipes with the structure.
CloseConnection(w) ==
    /\ used' = used - 1
    /\ \/ /\ shaking[w] > 0
          /\ shaking' = [shaking EXCEPT ![w] = @ - 1]
          /\ UNCHANGED <<relaying, deadPipes>>
       \/ /\ relaying[w] > 0
          /\ relaying' = [relaying EXCEPT ![w] = @ - 1]
          /\ deadPipes' = [deadPipes EXCEPT ![w] = @ + 1]
          /\ UNCHANGED shaking
    /\ dead' = [dead EXCEPT ![w] = TRUE]
    /\ free' = free + 2
    /\ UNCHANGED <<seen, others, listening, pool>>

\* An event ends a connection, or expire_tcp_connections does.
ConnectionEnds(w) ==
    /\ pc[w] \in {"dispatch", "expire"}
    /\ CloseConnection(w)
    /\ UNCHANGED pc

\* open_splice_pipe, twice: descriptors needed beyond the pool.
PipeFds(w) == 2 * (2 - (IF pool[w] < 2 THEN pool[w] ELSE 2))

\* init_connection_splice_pipes when the replies are complete.
RelayStarts(w) ==
    /\ pc[w] = "dispatch"
    /\ shaking[w] > 0
    /\ free >= PipeFds(w)
    /\ free' = free - PipeFds(w)
    /\ pool' = [pool EXCEPT ![w] = IF @ < 2 THEN 0 ELSE @ - 2]
    /\ shaking' = [shaking EXCEPT ![w] = @ - 1]
    /\ relaying' = [relaying EXCEPT ![w] = @ + 1]
    /\ UNCHANGED <<budget, others, listening, pc, dead, deadPipes>>

\* pipe2 fails: the pipe opened first is closed, and the connection reset.
RelayFails(w) ==
    /\ pc[w] = "dispatch"
    /\ shaking[w] > 0
    /\ free < PipeFds(w)
    /\ used' = used - 1
    /\ shaking' = [shaking EXCEPT ![w] = @ - 1]
    /\ dead' = [dead EXCEPT ![w] = TRUE]
    /\ pool' = [pool EXCEPT ![w] = 0]
    /\ free' = free + 2 + 2 * pool[w]
    /\ UNCHANGED <<seen, others, listening, pc, relaying, deadPipes>>

ExpireDone(w) ==
    /\ pc[w] = "expire"
    /\ Goto(w, "free")
    /\ UNCHANGED <<budget, free, others, listening, connections>>

\* free_closed_connections: of the pipes, `kept' are empty and go to the pool.
\* A worker whose listeners are paused tries them again right away.
FreeClosed(w, kept) ==
    /\ pc[w] = "free"
    /\ kept \in 0..2 * deadPipes[w] /\ pool[w] + kept <= PoolCap
    /\ pool' = [pool EXCEPT ![w] = @ + kept]
    /\ free' = free + 2 * (2 * deadPipes[w] - kept)
    /\ dead' = [dead EXCEPT ![w] = FALSE]
    /\ deadPipes' = [deadPipes EXCEPT ![w] = 0]
    /\ due' = [due EXCEPT ![w] = @ \/ (paused[w] /\ dead[w])]
    /\ Goto(w, "resume_top")
    /\ UNCHANGED <<budget, others, armed, paused, spare, shaking, relaying>>

\* listeners_resume_ms passes; epoll_wait waits no longer than that.
ResumeDue(w) ==
    /\ paused[w] /\ ~due[w]
    /\ due' = [due EXCEPT ![w] = TRUE]
    /\ UNCHANGED <<budget, free, others, pc, armed, paused, spare, connections>>

\* resume_tcp_listeners_if_due, after the batch and before epoll_wait; `added'
\* are the listeners epoll_ctl accepts.
ResumeListeners(w, added) ==
    LET try == paused[w] /\ due[w]
        opens == try /\ ~spare[w] /\ free > 0
        ok == try /\ (spare[w] \/ opens)
    IN  /\ pc[w] \in {"resume", "resume_top"}
        /\ free' = IF opens THEN free - 1 ELSE free
        /\ spare' = [spare EXCEPT ![w] = @ \/ opens]
        /\ armed' = [armed EXCEPT ![w] = IF ok THEN @ \cup added ELSE @]
        /\ paused' = [paused EXCEPT ![w] = @ /\ ~(ok /\ armed'[w] = Listeners)]
        /\ due' = [due EXCEPT ![w] = @ /\ ~try]
        /\ Goto(w, IF pc[w] = "resume" THEN "expire" ELSE "wait")
        /\ UNCHANGED <<budget, others, connections>>

-----------------------------------------------------------------------------
(* accept_ready_clients. *)

\* accept4 says EAGAIN, or fails otherwise.
NoMoreClients(w) ==
    /\ pc[w] = "accept"
    /\ Goto(w, "dispatch")
    /\ UNCHANGED <<budget, free, others, listening, connections>>

AcceptClient(w) ==
    /\ pc[w] = "accept"
    /\ free > 0
    /\ free' = free - 1
    /\ Goto(w, "reserve")
    /\ UNCHANGED <<budget, others, listening, connections>>

\* EMFILE: handle_accept_fd_exhaustion gives the spare descriptor away, ...
AcceptExhausted(w) ==
    /\ pc[w] = "accept"
    /\ free = 0
    /\ free' = IF spare[w] THEN 1 ELSE 0
    /\ spare' = [spare EXCEPT ![w] = FALSE]
    /\ Goto(w, "spare_accept")
    /\ UNCHANGED <<budget, others, armed, paused, due, connections>>

\* ... accepts one client with it and closes that at once (another thread may
\* have taken the descriptor, and there may be no client any more), ...
SpareAccept(w) ==
    /\ pc[w] = "spare_accept"
    /\ Goto(w, "spare_open")
    /\ UNCHANGED <<budget, free, others, listening, connections>>

\* ... opens the spare again if it can, and pauses the listeners.
SpareOpen(w) ==
    /\ pc[w] = "spare_open"
    /\ free' = IF free > 0 THEN free - 1 ELSE free
    /\ spare' = [spare EXCEPT ![w] = free > 0]
    /\ PauseListeners(w)
    /\ Goto(w, "dispatch")
    /\ UNCHANGED <<budget, others, connections>>

\* The original destination is unknown: the client is reset.
RejectClient(w) ==
    /\ pc[w] = "reserve"
    /\ free' = free + 1
    /\ Goto(w, "accept")
    /\ UNCHANGED <<budget, others, listening, connections>>

\* The loop condition of reserve_tcp_session.
HasSession(inUse) == inUse < Cap

\* reserve_tcp_session: a load, then a compare-and-swap loop.
ReserveSession(w) ==
    /\ pc[w] = "reserve"
    /\ HasSession(used)
    /\ seen' = [seen EXCEPT ![w] = used]
    /\ Goto(w, "cas")
    /\ UNCHANGED <<used, free, others, listening, connections>>

\* No session left: the client is reset.
OverCapacity(w) ==
    /\ pc[w] = "reserve"
    /\ ~HasSession(used)
    /\ free' = free + 1
    /\ Goto(w, "accept")
    /\ UNCHANGED <<budget, others, listening, connections>>

ReserveSessionCas(w) ==
    /\ pc[w] = "cas"
    /\ seen' = [seen EXCEPT ![w] = 0]
    /\ IF used = seen[w] THEN used' = used + 1 /\ Goto(w, "connect")
                         ELSE used' = used /\ Goto(w, "reserve")
    /\ UNCHANGED <<free, others, listening, connections>>

\* create_connection
CreateConnection(w) ==
    /\ pc[w] = "connect"
    /\ free > 0
    /\ free' = free - 1
    /\ shaking' = [shaking EXCEPT ![w] = @ + 1]
    /\ Goto(w, "add")
    /\ UNCHANGED <<budget, others, listening, relaying, pool, dead, deadPipes>>

\* calloc, connect or the first send fails: the client is reset.
ConnectFails(w) ==
    /\ pc[w] = "connect"
    /\ free' = free + 1
    /\ Goto(w, "unreserve")
    /\ UNCHANGED <<budget, others, listening, connections>>

\* Mutant: the reservation of a connection that was not created is kept.
UnreserveForgotten(w) ==
    /\ pc[w] = "unreserve"
    /\ Goto(w, "accept")
    /\ UNCHANGED <<budget, free, others, listening, connections>>

\* Its reservation goes back.
Unreserve(w) ==
    /\ pc[w] = "unreserve"
    /\ used' = used - 1
    /\ Goto(w, "accept")
    /\ UNCHANGED <<seen, free, others, listening, connections>>

\* socket() says EMFILE: so does its reservation, and the listeners are paused.
ConnectExhausted(w) ==
    /\ pc[w] = "connect"
    /\ free = 0
    /\ free' = free + 1
    /\ used' = used - 1
    /\ PauseListeners(w)
    /\ Goto(w, "dispatch")
    /\ UNCHANGED <<seen, others, spare, connections>>

\* add_fd of both sockets
AddConnection(w) ==
    /\ pc[w] = "add"
    /\ Goto(w, "accept")
    /\ UNCHANGED <<budget, free, others, listening, connections>>

\* epoll_ctl refuses: the connection is closed.
AddFails(w) ==
    /\ pc[w] = "add"
    /\ used' = used - 1
    /\ shaking' = [shaking EXCEPT ![w] = @ - 1]
    /\ dead' = [dead EXCEPT ![w] = TRUE]
    /\ free' = free + 2
    /\ Goto(w, "accept")
    /\ UNCHANGED <<seen, others, listening, relaying, pool, deadPipes>>

-----------------------------------------------------------------------------
OtherOpens ==
    /\ free > 0 /\ others < Others
    /\ free' = free - 1
    /\ others' = others + 1
    /\ UNCHANGED <<budget, pc, listening, connections>>

OtherCloses ==
    /\ others > 0
    /\ free' = free + 1
    /\ others' = others - 1
    /\ UNCHANGED <<budget, pc, listening, connections>>

Accepting(w) ==
    \/ NoMoreClients(w) \/ AcceptClient(w) \/ AcceptExhausted(w) \/ SpareAccept(w)
    \/ SpareOpen(w) \/ RejectClient(w) \/ ReserveSession(w) \/ OverCapacity(w)
    \/ ReserveSessionCas(w) \/ CreateConnection(w) \/ ConnectFails(w) \/ Unreserve(w)
    \/ ConnectExhausted(w) \/ AddConnection(w) \/ AddFails(w)

Looping(w) ==
    \/ EpollWait(w) \/ BatchDone(w) \/ ExpireDone(w)
    \/ \E kept \in 0..PoolCap : FreeClosed(w, kept)
    \/ \E added \in SUBSET Listeners : ResumeListeners(w, added)

Relaying(w) == ConnectionEnds(w) \/ RelayStarts(w) \/ RelayFails(w)

Next ==
    \/ OtherOpens \/ OtherCloses
    \/ \E w \in Workers :
        Looping(w) \/ ListenerEvent(w) \/ Accepting(w) \/ Relaying(w) \/ ResumeDue(w)

Spec == Init /\ [][Next]_vars

-----------------------------------------------------------------------------
(* Properties. *)

\* Sessions a worker holds: its active connections and the one being created.
Sessions(w) == shaking[w] + relaying[w] + (IF pc[w] \in {"connect", "unreserve"} THEN 1 ELSE 0)

\* The session budget counts exactly the connections there are, so that it
\* neither drifts up until no client is accepted nor wraps below zero: every path
\* out of accept_ready_clients and close_connection releases once.
SessionsCounted == used = SumFunction([w \in Workers |-> Sessions(w)])

\* Descriptors a worker holds.
Fds(w) ==
    (IF spare[w] THEN 1 ELSE 0)
        + (IF pc[w] \in {"reserve", "cas", "connect"} THEN 1 ELSE 0)
        + 2 * shaking[w] + 6 * relaying[w] + 2 * pool[w] + 4 * deadPipes[w]

\* No path leaks a descriptor or closes one twice: accept_ready_clients,
\* create_connection, the pipe pool and the spare descriptor account for them all.
NoFdLeak == free + others + SumFunction([w \in Workers |-> Fds(w)]) = FdLimit

\* Neither a session nor a descriptor is leaked or given back twice, whichever of
\* the calls of accept_ready_clients and create_connection fails.
NothingLeaked == TypeOK /\ SessionsCounted /\ NoFdLeak

\* A worker is never deaf: unless it knows its listeners are paused, both are
\* polled and it has a spare descriptor to answer the next exhaustion with.
NeverDeaf ==
    \A w \in Workers :
        \/ paused[w]
        \/ armed[w] = Listeners /\ (spare[w] \/ pc[w] \in {"spare_accept", "spare_open"})
=============================================================================
