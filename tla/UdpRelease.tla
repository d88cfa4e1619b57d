----------------------------- MODULE UdpRelease -----------------------------
(***************************************************************************)
(* Sessions of local clients end with the clients' sockets                 *)
(* (bridge/udp_release.c).  The kernel tells of every UDP socket it        *)
(* destroys (bridge/udp_destroy_events.c), later than the close, in any    *)
(* order with the datagrams sent before it, and not at all when the queue  *)
(* overflows.  The worker flags the ports it was told of, asks the kernel  *)
(* whether a socket holds them now, and drops the sessions of those that   *)
(* none does.  Clients open and close sockets between any two steps.       *)
(* Remote clients are left out: every handler skips their sessions.        *)
(*                                                                         *)
(* Times are kept as ages and as time left.                                *)
(***************************************************************************)
EXTENDS Integers, FiniteSetsExt

CONSTANTS
    Ports,
    Clients,    \* loopback addresses of clients
    PortOf,
    Retry,      \* BPF2SOCKS_UDP_RELEASE_RETRY_MILLISECONDS
    Recent,     \* BPF2SOCKS_UDP_RELEASE_RECENT_MILLISECONDS
    MaxDelay,   \* how long a datagram may wait in the listener's queue
    None

ASSUME ReleaseAssumption ==
    /\ PortOf \in [Clients -> Ports]
    /\ Retry \in Nat \ {0} /\ Recent \in Nat /\ MaxDelay \in 0..(Recent - 1)

VARIABLES
    open,       \* ports a local socket holds
    flying,     \* ports of destroyed sockets the kernel has yet to tell of
    queue,      \* ports in the queue of notifications
    lost,       \* the queue has overflowed
    mail,       \* datagrams in the listener's queue, one of a client at most
    watch,      \* whether epoll reports notifications: "on", "off", or "failed"
                \* when the worker believes so and epoll_ctl has refused
    session,    \* of each client
    flagged,    \* released_ports
    destroyed,  \* age of port_destroyed_ms
    checkNew,   \* time left until check_new_sessions_until_ms
    due,        \* time left until release_retry_due_ms
    pc,         \* "wait" in epoll_wait, "events", "walk", "sleep"
    walk,       \* flagged sessions release_flagged_sessions has yet to visit
    memo,       \* release_port_results
    after       \* where it returns to

kernelVars == <<open, flying, queue, lost, mail>>
walkVars == <<walk, memo, after>>
vars == <<kernelVars, watch, session, flagged, destroyed, checkNew, due, pc, walkVars>>

\* live: a socket that sent through the session is still open; unknown: the last
\* query for its port failed.  Both are only for the properties.
Sessions == [live : BOOLEAN, draining : BOOLEAN, retry : 0..Retry \cup {None}, unknown : BOOLEAN]

\* live: the socket that sent it is still open.
Datagrams == [live : BOOLEAN, age : 0..MaxDelay]

ASSUME NoneAssumption == None \notin Nat /\ None \notin Sessions /\ None \notin Datagrams

Present == {c \in Clients : session[c] # None}

\* bpf2socks_deadline_note, for times left
Note(d, t) == IF d = None \/ t < d THEN t ELSE d

Init ==
    /\ open = {} /\ flying = {} /\ queue = {} /\ lost = FALSE
    /\ mail = [c \in Clients |-> None]
    /\ watch = "on"
    /\ session = [c \in Clients |-> None]
    /\ flagged = {}
    /\ destroyed = [p \in Ports |-> None]
    /\ checkNew = 0
    /\ due = None
    /\ pc = "wait"
    /\ walk = {} /\ memo = [p \in Ports |-> "?"] /\ after = "events"

-----------------------------------------------------------------------------
(* The clients and the kernel; at any moment. *)

OpenSocket(p) ==
    /\ p \notin open
    /\ open' = open \cup {p}
    /\ UNCHANGED <<flying, queue, lost, mail, watch, session, flagged, destroyed, checkNew, due, pc, walkVars>>

CloseSocket(p) ==
    LET theirs(c) == PortOf[c] = p
    IN  /\ p \in open
        /\ open' = open \ {p}
        /\ flying' = flying \cup {p}
        /\ mail' = [c \in Clients |-> IF theirs(c) /\ mail[c] # None
                                      THEN [mail[c] EXCEPT !.live = FALSE] ELSE mail[c]]
        /\ session' = [c \in Clients |-> IF theirs(c) /\ session[c] # None
                                         THEN [session[c] EXCEPT !.live = FALSE] ELSE session[c]]
        /\ UNCHANGED <<queue, lost, watch, flagged, destroyed, checkNew, due, pc, walkVars>>

SendDatagram(c) ==
    /\ mail[c] = None
    /\ PortOf[c] \in open
    /\ mail' = [mail EXCEPT ![c] = [live |-> TRUE, age |-> 0]]
    /\ UNCHANGED <<open, flying, queue, lost, watch, session, flagged, destroyed, checkNew, due, pc, walkVars>>

\* A notification arrives, or finds the queue full, of other ports' for example.
Notify(p) ==
    /\ p \in flying
    /\ flying' = flying \ {p}
    /\ \/ queue' = queue \cup {p} /\ UNCHANGED lost
       \/ lost' = TRUE /\ UNCHANGED queue
    /\ UNCHANGED <<open, mail, watch, session, flagged, destroyed, checkNew, due, pc, walkVars>>

Older(age) == IF age = None \/ age = Recent THEN age ELSE age + 1

Less(left) == IF left \in {None, 0} THEN left ELSE left - 1

\* Time passes while the worker sleeps, and not beyond its timeout.
Tick ==
    /\ pc = "wait" /\ due # 0
    /\ \A c \in Clients : mail[c] # None => mail[c].age < MaxDelay
    /\ mail' = [c \in Clients |-> IF mail[c] = None THEN None ELSE [mail[c] EXCEPT !.age = @ + 1]]
    /\ session' = [c \in Clients |-> IF session[c] = None THEN None
                                     ELSE [session[c] EXCEPT !.retry = Less(@)]]
    /\ destroyed' = [p \in Ports |-> Older(destroyed[p])]
    /\ checkNew' = Less(checkNew)
    /\ due' = Less(due)
    /\ UNCHANGED <<open, flying, queue, lost, watch, flagged, pc, walkVars>>

-----------------------------------------------------------------------------
(* Notifications. *)

\* bpf2socks_udp_destroy_events_drain, stamp_destroyed_ports, and what
\* bpf2socks_udp_release_handle_events does when some were lost.
Drain ==
    /\ queue' = {} /\ lost' = FALSE
    /\ destroyed' = [p \in Ports |-> IF p \in queue THEN 0 ELSE destroyed[p]]
    /\ checkNew' = IF lost THEN Recent ELSE checkNew

\* Mutant: an overflow is taken for the end of the queue.
DrainedPortsOnly == queue

\* The ports it flags; flag_all_local_sessions when some were lost.
DrainedPorts == queue \cup IF lost THEN {PortOf[c] : c \in Present} ELSE {}

\* release_flagged_sessions skips the sessions that are not flagged.
StartWalk(ports, sessions, return) ==
    /\ flagged' = ports
    /\ walk' = {c \in Clients : sessions[c] # None /\ PortOf[c] \in ports}
    /\ after' = return
    /\ pc' = "walk"
    /\ UNCHANGED memo

\* Events of the notification socket.  epoll reports an overflow, which is an
\* error, even to a worker that does not watch.
HandleEvents ==
    /\ pc = "events"
    /\ lost \/ (watch = "on" /\ queue # {})
    /\ Drain
    /\ StartWalk(DrainedPorts, session, "events")
    /\ UNCHANGED <<open, flying, mail, watch, session, due>>

\* A session with replies to deliver is looked at again later.
Postpone(c) ==
    /\ pc = "walk" /\ c \in walk
    /\ session[c].draining
    /\ session' = [session EXCEPT ![c].retry = Retry]
    /\ due' = Note(due, Retry)
    /\ walk' = walk \ {c}
    /\ UNCHANGED <<kernelVars, watch, flagged, destroyed, checkNew, pc, memo, after>>

\* bpf2socks_udp_destroy_events_port_open: what the kernel says, and any query
\* may fail.
Query(p) == {IF p \in open THEN "open" ELSE "closed", "error"}

\* release_port_has_socket
PortStates(p) == IF memo[p] = "?" THEN Query(p) ELSE {memo[p]}

\* The session is dropped, with its tokens, if no socket holds its port.
Decide(c) ==
    LET p == PortOf[c]
    IN  /\ pc = "walk" /\ c \in walk
        /\ ~session[c].draining
        /\ memo' \in {[memo EXCEPT ![p] = s] : s \in PortStates(p)}
        /\ session' = [session EXCEPT ![c] = IF memo'[p] = "closed" THEN None
                                             ELSE [@ EXCEPT !.unknown = memo'[p] = "error"]]
        /\ walk' = walk \ {c}
        /\ UNCHANGED <<kernelVars, watch, flagged, destroyed, checkNew, due, pc, after>>

\* Mutant: the results of the queries outlive the pass.
EndWalkKeepsMemo ==
    /\ pc = "walk" /\ walk = {}
    /\ flagged' = {}
    /\ pc' = after
    /\ after' = "events"
    /\ UNCHANGED <<kernelVars, watch, session, destroyed, checkNew, due, walk, memo>>

\* The pass is over, and with it the flags and the results of its queries.
EndWalk ==
    /\ pc = "walk" /\ walk = {}
    /\ flagged' = {}
    /\ memo' = [p \in Ports |-> "?"]
    /\ pc' = after
    /\ after' = "events"
    /\ UNCHANGED <<kernelVars, watch, session, destroyed, checkNew, due, walk>>

-----------------------------------------------------------------------------
(* Datagrams and replies. *)

Wake ==
    /\ pc = "wait"
    /\ pc' = "events"
    /\ UNCHANGED <<kernelVars, watch, session, flagged, destroyed, checkNew, due, walkVars>>

\* A datagram of a session there is already.
ReceiveKnown(c) ==
    /\ pc = "events" /\ mail[c] # None /\ session[c] # None
    /\ session' = [session EXCEPT ![c].live = @ \/ mail[c].live]
    /\ mail' = [mail EXCEPT ![c] = None]
    /\ UNCHANGED <<open, flying, queue, lost, watch, flagged, destroyed, checkNew, due, pc, walkVars>>

\* bpf2socks_udp_release_arm.  There is no session it could find closed,
\* so its pass over them is over at once.
Arm ==
    /\ watch' \in {"on", "failed"}
    /\ Drain

\* Whether a port was destroyed within the last Recent milliseconds.  The stamps
\* have 32 bits, so an old one may look like a recent one again.
LooksRecent(age) == IF age = None THEN {FALSE} ELSE IF age < Recent THEN {TRUE} ELSE BOOLEAN

\* bpf2socks_udp_session_get for a new client, which ends with
\* bpf2socks_udp_release_note_new_session; or the session cannot be opened.
ReceiveNew(c) ==
    /\ pc = "events" /\ mail[c] # None /\ session[c] = None
    /\ IF watch = "off" THEN Arm ELSE UNCHANGED <<watch, queue, lost, destroyed, checkNew>>
    /\ \/ UNCHANGED <<session, due>>
       \/ \E recent \in LooksRecent(destroyed'[PortOf[c]]) :
            LET check == recent \/ checkNew' > 0
            IN  /\ session' = [session EXCEPT ![c] =
                                  [live |-> mail[c].live, draining |-> FALSE, unknown |-> FALSE,
                                   retry |-> IF check THEN Retry ELSE None]]
                /\ due' = IF check THEN Note(due, Retry) ELSE due
    /\ mail' = [mail EXCEPT ![c] = None]
    /\ UNCHANGED <<open, flying, flagged, pc, walkVars>>

\* Replies of the session are queued, or all of them are delivered (UdpSession).
Reply(c) ==
    /\ pc = "events" /\ session[c] # None
    /\ session' = [session EXCEPT ![c].draining = ~@]
    /\ UNCHANGED <<kernelVars, watch, flagged, destroyed, checkNew, due, pc, walkVars>>

\* The session ends for another reason (UdpSession).
End(c) ==
    /\ pc = "events" /\ session[c] # None
    /\ session' = [session EXCEPT ![c] = None]
    /\ UNCHANGED <<kernelVars, watch, flagged, destroyed, checkNew, due, pc, walkVars>>

-----------------------------------------------------------------------------
(* udp_run_maintenance *)

RetryTimes(sessions) == {sessions[c].retry : c \in {d \in Clients : sessions[d] # None}} \ {None}

\* release_retry_due_ms once those that are due are taken out.
NextDue(sessions) == IF RetryTimes(sessions) = {} THEN None ELSE Min(RetryTimes(sessions))

\* bpf2socks_udp_release_retry
ReleaseRetry ==
    LET now == {c \in Clients : session[c] # None /\ session[c].retry = 0}
        rest == [c \in Clients |-> IF c \in now THEN [session[c] EXCEPT !.retry = None] ELSE session[c]]
    IN  /\ pc = "events"
        /\ IF due = 0
           THEN /\ session' = rest
                /\ due' = NextDue(rest)
                /\ StartWalk({PortOf[c] : c \in now}, rest, "sleep")
           ELSE /\ pc' = "sleep"
                /\ UNCHANGED <<session, due, flagged, walkVars>>
        /\ UNCHANGED <<kernelVars, watch, destroyed, checkNew>>

\* bpf2socks_udp_release_disarm_if_idle; epoll_ctl may refuse.
Disarm ==
    /\ pc = "sleep"
    /\ \/ watch' = IF Present = {} THEN "off" ELSE watch
       \/ UNCHANGED watch
    /\ pc' = "wait"
    /\ UNCHANGED <<kernelVars, session, flagged, destroyed, checkNew, due, walkVars>>

Next ==
    \/ \E p \in Ports : OpenSocket(p) \/ CloseSocket(p) \/ Notify(p)
    \/ \E c \in Clients : SendDatagram(c) \/ ReceiveKnown(c) \/ ReceiveNew(c) \/ Reply(c) \/ End(c)
    \/ Tick \/ Wake
    \/ HandleEvents \/ \E c \in Clients : Postpone(c) \/ Decide(c)
    \/ EndWalk
    \/ ReleaseRetry \/ Disarm

Spec == Init /\ [][Next]_vars

\* The sessions, the walk over them and the notifications keep their shape.
TypeOK ==
    /\ open \subseteq Ports /\ flying \subseteq Ports /\ queue \subseteq Ports /\ lost \in BOOLEAN
    /\ mail \in [Clients -> Datagrams \cup {None}]
    /\ watch \in {"on", "off", "failed"}
    /\ session \in [Clients -> Sessions \cup {None}]
    /\ flagged \subseteq Ports
    /\ destroyed \in [Ports -> 0..Recent \cup {None}]
    /\ checkNew \in 0..Recent
    /\ due \in 0..Retry \cup {None}
    /\ pc \in {"wait", "events", "walk", "sleep"}
    /\ walk \subseteq Present /\ (pc # "walk" => walk = {} /\ flagged = {})
    /\ memo \in [Ports -> {"?", "open", "closed", "error"}]
    /\ after \in {"events", "sleep"}

-----------------------------------------------------------------------------
(* Properties. *)

\* A session is released only when the sockets that sent through it are closed:
\* not because a port was destroyed before and is open again, nor because a
\* query failed or was asked too early.
UsersKept ==
    [][\A c \in Clients :
            pc = "walk" /\ session[c] # None /\ session'[c] = None => ~session[c].live]_vars

\* While the worker sleeps, no session whose port nobody holds is forgotten:
\* a notification is on its way and will be seen, or the session is looked at
\* again by a deadline the worker wakes for.  This holds whatever was lost, late,
\* overtaken by a datagram or queued while unwatched; it is given up only where a
\* query or epoll_ctl fails.
NoneForgotten ==
    /\ TypeOK
    /\ pc = "wait" =>
        \A c \in Present :
            \/ PortOf[c] \in open \cup flying
            \/ watch # "off" /\ (watch = "failed" \/ PortOf[c] \in queue \/ lost)
            \/ session[c].retry # None /\ due # None /\ due <= session[c].retry
            \/ session[c].unknown
=============================================================================
