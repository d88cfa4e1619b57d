----------------------------- MODULE UdpSession -----------------------------
(***************************************************************************)
(* The client sessions of one UDP worker (bridge/udp_session.c) under its  *)
(* event loop (bridge/udp.c) and the SOCKS5 handshake                      *)
(* (bridge/udp_associate.c): a fixed pool of slots, a list by last use, a  *)
(* list of handshakes by age, eviction, the two expiries, and the time the *)
(* worker sleeps.                                                          *)
(*                                                                         *)
(* The loop takes a batch of events and handles them one after the other;  *)
(* a batch of client datagrams is received first and sent last.  Both      *)
(* batches refer to slots, which may have a new owner by the time they are *)
(* used: "own" tells whether an entry still means the session it was made  *)
(* for.  It is there for the properties; no step depends on it but that of *)
(* a reply channel, whose reference does die with its session.             *)
(***************************************************************************)
EXTENDS Integers, SequencesExt

CONSTANTS
    Slots,          \* 1..session_cap
    Clients,        \* client addresses
    IdleTimeout,    \* idle_timeout_ms
    ConnectTimeout, \* connect_timeout_milliseconds
    Batch,          \* datagrams received at a time
    MaxEvents,      \* event_cap
    MaxQueued,      \* first datagrams a session may queue (the pending budget)
    Forever,        \* BPF2SOCKS_NO_DEADLINE
    None

ASSUME SessionAssumption ==
    /\ {IdleTimeout, ConnectTimeout, Batch, MaxEvents} \subseteq Nat \ {0}
    /\ MaxQueued \in Nat
    /\ Slots = 1..Cardinality(Slots)
    /\ None \notin Clients \cup Slots
    /\ Forever \notin Nat

VARIABLES
    pool,       \* the sessions and the lists they are on
    pc,         \* "wait" in epoll_wait, "events", "datagrams", "send"
    events,     \* what epoll_wait returned and is not handled yet
    todo,       \* datagrams received and not looked at yet, by client
    outgoing,   \* outgoing_sessions
    sleep,      \* time until the worker wakes by itself
    stray       \* a handshake was ended by something meant for another session

vars == <<pool, pc, events, todo, outgoing, sleep, stray>>

Handshaking == {"connecting", "reading"}

Pools ==
    [stage : [Slots -> Handshaking \cup {"free", "ready"}],
     client : [Slots -> Clients \cup {None}],
     idle : [Slots -> 0..(IdleTimeout + 1)],         \* now - last_seen_ms
     waited : [Slots -> 0..(ConnectTimeout + 1)],    \* now - handshake_started_ms
     queued : [Slots -> 0..MaxQueued],               \* pending_count
     reply : [Slots -> {"none", "pending", "waiting"}],  \* downlink_pending_count > 0,
                                                         \* downlink_waiting_budget
     free : Seq(Slots), lru : Seq(Slots), handshakes : Seq(Slots)]

Used(p, s) == p.stage[s] # "free"

\* Mutant: the session keeps its place on the list.
TouchInPlace(p, s) == [p EXCEPT !.idle[s] = 0]

\* bpf2socks_udp_lru_touch, with last_seen_ms.
Touch(p, s) == [p EXCEPT !.idle[s] = 0, !.lru = Append(Remove(@, s), s)]

\* bpf2socks_udp_handshake_add_tail, after _remove.
StartHandshake(p, s) ==
    [p EXCEPT !.stage[s] = "connecting", !.waited[s] = 0, !.handshakes = Append(Remove(@, s), s)]

\* bpf2socks_udp_session_drop
Drop(p, s) ==
    IF ~Used(p, s) THEN p
    ELSE [p EXCEPT !.stage[s] = "free", !.client[s] = None, !.idle[s] = 0, !.waited[s] = 0,
                   !.queued[s] = 0, !.reply[s] = "none",
                   !.lru = Remove(@, s), !.handshakes = Remove(@, s), !.free = <<s>> \o @]

DropAll(p, slots) == FoldLeft(Drop, p, slots)

\* The order in which alloc_session would evict: first the established
\* sessions, then any, and never one that has replies to deliver.
Candidates(p) ==
    SelectSeq(p.lru, LAMBDA s : p.reply[s] = "none" /\ p.stage[s] = "ready")
        \o SelectSeq(p.lru, LAMBDA s : p.reply[s] = "none" /\ p.stage[s] # "ready")

\* alloc_session: who has to go for a new session.
Evicted(p) == IF p.free = <<>> THEN {Head(Candidates(p))} ELSE {}

\* The entries for slots whose sessions are gone are not theirs any more.
Disown(entries, gone) ==
    [i \in DOMAIN entries |-> [entries[i] EXCEPT !.own = @ /\ entries[i].slot \notin gone]]

Init ==
    /\ pool = [stage |-> [s \in Slots |-> "free"], client |-> [s \in Slots |-> None],
               idle |-> [s \in Slots |-> 0], waited |-> [s \in Slots |-> 0],
               queued |-> [s \in Slots |-> 0], reply |-> [s \in Slots |-> "none"],
               free |-> [i \in 1..Cardinality(Slots) |-> i], lru |-> <<>>, handshakes |-> <<>>]
    /\ pc = "wait"
    /\ events = <<>> /\ todo = <<>> /\ outgoing = <<>>
    /\ sleep = Forever
    /\ stray = FALSE

-----------------------------------------------------------------------------
(* epoll_wait *)

Event(kind, s, flags) == [kind |-> kind, slot |-> s, flags |-> flags, own |-> TRUE]

\* Mutant: an established session's control connection keeps EPOLLOUT.
ControlFlagsKeepOut(s) ==
    CASE pool.stage[s] \in {"connecting", "ready"} -> {{"out"}, {"in", "out"}, {"hup"}}
      [] pool.stage[s] = "reading" -> {{"in"}, {"hup"}}
      [] OTHER -> {}

\* What each descriptor may report, given what it is registered for.
ControlFlags(s) ==
    CASE pool.stage[s] = "connecting" -> {{"out"}, {"in", "out"}, {"hup"}}
      [] pool.stage[s] \in {"reading", "ready"} -> {{"in"}, {"hup"}}
      [] OTHER -> {}

RelayFlags(s) ==
    CASE pool.stage[s] # "ready" -> {}
      [] pool.stage[s] = "ready" /\ pool.reply[s] = "none" -> {{"in"}, {"hup"}}
      [] OTHER -> {{"hup"}}

Reportable ==
    {Event("listener", None, {"in"})}
        \cup UNION {{Event("control", s, f) : f \in ControlFlags(s)} : s \in Slots}
        \cup UNION {{Event("relay", s, f) : f \in RelayFlags(s)} : s \in Slots}
        \cup {Event("reply", s, {"out"}) : s \in {t \in Slots : pool.reply[t] = "pending"}}

\* One event for a descriptor at most, in any order.
EpollWait ==
    /\ pc = "wait"
    /\ \E n \in 0..MaxEvents : \E batch \in [1..n -> Reportable] :
        /\ \A i, j \in 1..n : i # j => <<batch[i].kind, batch[i].slot>> # <<batch[j].kind, batch[j].slot>>
        /\ events' = batch
    /\ pc' = "events"
    /\ UNCHANGED <<pool, todo, outgoing, sleep, stray>>

Older(age, limit) == IF age > limit THEN age ELSE age + 1

\* Time passes while the worker sleeps, and not beyond its timeout.
Tick ==
    /\ pc = "wait" /\ sleep # 0 /\ \E s \in Slots : Used(pool, s)
    /\ pool' = [pool EXCEPT
         !.idle = [s \in Slots |-> IF Used(pool, s) THEN Older(@[s], IdleTimeout) ELSE 0],
         !.waited = [s \in Slots |-> IF pool.stage[s] \in Handshaking
                                     THEN Older(@[s], ConnectTimeout) ELSE 0]]
    /\ sleep' = IF sleep = Forever THEN Forever ELSE sleep - 1
    /\ UNCHANGED <<pc, events, todo, outgoing, stray>>

-----------------------------------------------------------------------------
(* Events *)

e == Head(events)

Handling(kind) == pc = "events" /\ events # <<>> /\ e.kind = kind

\* The session of the event is dropped, and what refers to it with it.
EventDrops ==
    /\ pool' = Drop(pool, e.slot)
    /\ events' = Disown(Tail(events), {e.slot})
    /\ stray' = (stray \/ (~e.own /\ "hup" \in e.flags /\ pool.stage[e.slot] \in Handshaking))

EventLeaves(p) == pool' = p /\ events' = Tail(events) /\ UNCHANGED stray

\* complete_udp_associate: READY, and the queued datagrams go out.
Complete(s) ==
    LET p == [pool EXCEPT !.stage[s] = "ready", !.waited[s] = 0, !.handshakes = Remove(@, s)]
    IN  EventLeaves(IF p.queued[s] = 0 THEN p ELSE Touch([p EXCEPT !.queued[s] = 0], s))

\* bpf2socks_udp_associate_advance.  In each stage the bytes may not be there
\* yet, and everything may fail; the whole handshake may happen in one event.
Advance(s) ==
    \/ "hup" \in e.flags /\ EventDrops
    \/ /\ "hup" \notin e.flags
       /\ \/ EventLeaves(pool)
          \/ /\ pool.stage[s] = "connecting" /\ "out" \in e.flags
             /\ EventDrops \/ EventLeaves([pool EXCEPT !.stage[s] = "reading"])
          \/ /\ "in" \in e.flags
             /\ pool.stage[s] = "reading" \/ "out" \in e.flags
             /\ EventDrops \/ Complete(s) \/ EventLeaves(StartHandshake(pool, s))

\* Events of a control connection; the reference of a free slot is empty.
Control ==
    /\ Handling("control")
    /\ IF pool.stage[e.slot] \in Handshaking THEN Advance(e.slot)
       ELSE \/ EventLeaves(pool) /\ ("hup" \in e.flags => ~Used(pool, e.slot))
            \/ EventDrops /\ Used(pool, e.slot)
    /\ UNCHANGED <<pc, todo, outgoing, sleep>>

\* Events of a relay socket and, for EPOLLIN, handle_udp_upstream_packets: no
\* budget, nothing there, delivered, queued for the client, or a failure.
Relay ==
    /\ Handling("relay")
    /\ \/ pool.stage[e.slot] # "ready" /\ EventLeaves(pool)
       \/ pool.stage[e.slot] = "ready" /\ EventDrops
       \/ /\ pool.stage[e.slot] = "ready" /\ "hup" \notin e.flags
          /\ \/ EventLeaves(pool)
             \/ EventLeaves(Touch(pool, e.slot))
             \/ EventLeaves([pool EXCEPT !.reply[e.slot] = "waiting"])
             \/ EventLeaves(Touch([pool EXCEPT !.reply[e.slot] = "pending"], e.slot))
    /\ UNCHANGED <<pc, todo, outgoing, sleep>>

\* Events of a reply channel: bpf2socks_udp_downlink_flush_channel sends nothing,
\* some or all of what is queued, or fails.
Reply ==
    /\ Handling("reply")
    /\ \/ EventLeaves(pool)
       \/ /\ e.own
          /\ \/ EventDrops
             \/ EventLeaves(Touch(pool, e.slot))
             \/ EventLeaves(Touch([pool EXCEPT !.reply[e.slot] = "none"], e.slot))
    /\ UNCHANGED <<pc, todo, outgoing, sleep>>

\* handle_udp_client_packets: recvmmsg.
Receive ==
    /\ Handling("listener")
    /\ \E n \in 1..Batch : todo' \in [1..n -> Clients]
    /\ events' = Tail(events)
    /\ pc' = "datagrams"
    /\ UNCHANGED <<pool, outgoing, sleep, stray>>

-----------------------------------------------------------------------------
(* A batch of client datagrams *)

SessionsOf(p, c) == {s \in Slots : Used(p, s) /\ p.client[s] = c}

\* alloc_pending_packet has the budget for another datagram of the session.
HasRoom(p, s) == p.queued[s] < MaxQueued

\* The end of a datagram's turn: it is queued with its session's handshake if
\* there is room, or joins the datagrams to send; or its binding fails.
Enqueue(p, s, gone) ==
    /\ \/ pool' = p /\ outgoing' = Disown(outgoing, gone)
       \/ /\ p.stage[s] # "ready" /\ HasRoom(p, s)
          /\ pool' = Touch([p EXCEPT !.queued[s] = @ + 1], s)
          /\ outgoing' = Disown(outgoing, gone)
       \/ /\ p.stage[s] = "ready"
          /\ pool' = p
          /\ outgoing' = Append(Disown(outgoing, gone), [slot |-> s, own |-> TRUE])
    /\ events' = Disown(events, gone)

\* bpf2socks_udp_session_get finds the client's session, ...
Known ==
    /\ pc = "datagrams" /\ todo # <<>>
    /\ \E s \in SessionsOf(pool, Head(todo)) : Enqueue(Touch(pool, s), s, {})
    /\ todo' = Tail(todo)
    /\ UNCHANGED <<pc, sleep, stray>>

\* ... or opens one in a free slot, or in that of the session it evicts.
\* Opening may fail after the eviction.
New ==
    LET gone == Evicted(pool)
        p == DropAll(pool, SetToSeq(gone))
        s == Head(p.free)
        opened == StartHandshake([p EXCEPT !.client[s] = Head(todo), !.free = Tail(@),
                                           !.lru = Append(@, s)], s)
    IN  /\ pc = "datagrams" /\ todo # <<>>
        /\ SessionsOf(pool, Head(todo)) = {}
        /\ pool.free # <<>> \/ Candidates(pool) # <<>>
        /\ \/ Enqueue(opened, s, gone)
           \/ pool' = p /\ outgoing' = Disown(outgoing, gone) /\ events' = Disown(events, gone)
        /\ todo' = Tail(todo)
        /\ UNCHANGED <<pc, sleep, stray>>

\* Every session has replies to deliver: the datagram is dropped.
Refused ==
    /\ pc = "datagrams" /\ todo # <<>>
    /\ SessionsOf(pool, Head(todo)) = {}
    /\ pool.free = <<>> /\ Candidates(pool) = <<>>
    /\ todo' = Tail(todo)
    /\ UNCHANGED <<pool, pc, events, outgoing, sleep, stray>>

LastDatagram ==
    /\ pc = "datagrams" /\ todo = <<>>
    /\ pc' = "send"
    /\ UNCHANGED <<pool, events, todo, outgoing, sleep, stray>>

\* The datagrams for the session of the first one are sent together.  Without a
\* relay socket (udp_fd = -1), or where the socket fails, the session is dropped.
Send ==
    LET s == Head(outgoing).slot
        rest == SelectSeq(outgoing, LAMBDA o : o.slot # s)
    IN  /\ pc = "send" /\ outgoing # <<>>
        /\ outgoing' = rest
        /\ \/ /\ pool.stage[s] = "ready"
              /\ UNCHANGED <<pool, events, stray>>
           \/ /\ pool' = Drop(pool, s)
              /\ events' = Disown(events, {s})
              /\ stray' = (stray \/ (~Head(outgoing).own /\ pool.stage[s] \in Handshaking))
        /\ UNCHANGED <<pc, todo, sleep>>

Sent ==
    /\ pc = "send" /\ outgoing = <<>>
    /\ pc' = "events"
    /\ UNCHANGED <<pool, events, todo, outgoing, sleep, stray>>

-----------------------------------------------------------------------------
(* udp_run_maintenance *)

\* bpf2socks_udp_downlink_resume_budget_waiters, for those there is room for.
Resume(p, resumed) ==
    [p EXCEPT !.reply = [s \in Slots |-> IF s \in resumed /\ @[s] = "waiting" THEN "none" ELSE @[s]]]

\* bpf2socks_udp_session_expire_handshakes
ExpireHandshakes(p) ==
    LET young == {i \in DOMAIN p.handshakes : p.waited[p.handshakes[i]] < ConnectTimeout}
        n == IF young = {} THEN Len(p.handshakes) ELSE Min(young) - 1
    IN  DropAll(p, SubSeq(p.handshakes, 1, n))

\* bpf2socks_udp_session_expire_idle
ExpireIdle(p) ==
    LET young == {i \in DOMAIN p.lru : p.idle[p.lru[i]] < IdleTimeout}
        n == IF young = {} THEN Len(p.lru) ELSE Min(young) - 1
    IN  DropAll(p, SelectSeq(SubSeq(p.lru, 1, n), LAMBDA s : p.reply[s] = "none"))

Remaining(age, limit) == IF age >= limit THEN 0 ELSE limit - age

\* Mutant: the deadline is that of the oldest session, whatever it waits for.
SleepOnHead(p) ==
    LET times == {Remaining(p.idle[p.lru[i]], IdleTimeout) :
                        i \in {j \in DOMAIN p.lru : j = 1 /\ p.reply[p.lru[j]] = "none"}}
                 \cup {Remaining(p.waited[p.handshakes[i]], ConnectTimeout) :
                        i \in DOMAIN p.handshakes \cap {1}}
    IN  IF times = {} THEN Forever ELSE Min(times)

\* udp_next_deadline, as the time left until then.
Sleep(p) ==
    LET timed == SelectInSeq(p.lru, LAMBDA s : p.idle[s] < IdleTimeout \/ p.reply[s] = "none")
        times == {Remaining(p.idle[p.lru[i]], IdleTimeout) : i \in {timed} \ {0}}
                 \cup {Remaining(p.waited[p.handshakes[i]], ConnectTimeout) :
                        i \in DOMAIN p.handshakes \cap {1}}
    IN  IF times = {} THEN Forever ELSE Min(times)

Maintenance ==
    /\ pc = "events" /\ events = <<>>
    /\ \E before, after \in SUBSET Slots :
        pool' = Resume(ExpireIdle(ExpireHandshakes(Resume(pool, before))), after)
    /\ sleep' = Sleep(pool')
    /\ pc' = "wait"
    /\ UNCHANGED <<events, todo, outgoing, stray>>

Next ==
    \/ EpollWait \/ Tick
    \/ Control \/ Relay \/ Reply \/ Receive
    \/ Known \/ New \/ Refused \/ LastDatagram \/ Send \/ Sent
    \/ Maintenance

Spec == Init /\ [][Next]_vars

\* The pool, its lists and the batches keep their shape and their limits.
TypeOK ==
    /\ pool \in Pools
    /\ pc \in {"wait", "events", "datagrams", "send"}
    /\ Len(events) <= MaxEvents
    /\ todo \in Seq(Clients) /\ Len(todo) <= Batch
    /\ outgoing \in Seq([slot : Slots, own : BOOLEAN]) /\ Len(outgoing) <= Batch
    /\ sleep \in 0..(IdleTimeout + ConnectTimeout) \cup {Forever}
    /\ stray \in BOOLEAN

-----------------------------------------------------------------------------
(* Properties. *)

\* Every slot is free or a session's; a session is on the list of sessions and,
\* until it is established, on that of handshakes, and a client has one session.
\* The code keeps this through drops from inside every handler.
SlotsExact ==
    LET used == {s \in Slots : Used(pool, s)}
    IN  /\ IsInjective(pool.free) /\ IsInjective(pool.lru) /\ IsInjective(pool.handshakes)
        /\ ToSet(pool.free) = Slots \ used
        /\ ToSet(pool.lru) = used
        /\ ToSet(pool.handshakes) = {s \in Slots : pool.stage[s] \in Handshaking}
        /\ \A s, t \in used : pool.client[s] = pool.client[t] => s = t

\* Both lists have the oldest entry first ("Expiry walks the LRU oldest first, so
\* it must follow last_seen_ms", udp_downlink.c:808).
OldestFirst ==
    /\ \A i, j \in DOMAIN pool.lru : i < j => pool.idle[pool.lru[i]] >= pool.idle[pool.lru[j]]
    /\ \A i, j \in DOMAIN pool.handshakes :
            i < j => pool.waited[pool.handshakes[i]] >= pool.waited[pool.handshakes[j]]

\* The pool and its lists agree and are in order, through drops from inside every
\* handler (bpf2socks_udp_session_drop).
PoolExact == TypeOK /\ SlotsExact /\ OldestFirst

\* While the worker sleeps nothing is due: every handshake and every session
\* without replies to deliver has time left, whatever was resumed or delivered
\* since it was last looked at.
NothingDueAsleep ==
    pc = "wait" /\ sleep # 0 =>
        \A s \in Slots :
            /\ Used(pool, s) /\ pool.reply[s] = "none" => pool.idle[s] < IdleTimeout
            /\ pool.stage[s] \in Handshaking => pool.waited[s] < ConnectTimeout

\* A datagram is never sent through, and a datagram from a relay never read for,
\* a session that took the slot of the one they were meant for: within a batch the
\* new session cannot become READY, whatever old events it is given.
SlotsNotConfused ==
    /\ \A i \in DOMAIN outgoing : pool.stage[outgoing[i].slot] = "ready" => outgoing[i].own
    /\ \A i \in DOMAIN events :
            events[i].kind = "relay" /\ pool.stage[events[i].slot] = "ready" => events[i].own

\* "Evict an established session first and a handshaking one only when nothing
\* else can go" (udp_session.c:547), so that the first datagram is not lost: a
\* session in its handshake ends by what happens to it, never by an event or a
\* datagram of the session that had its slot before.
HandshakeKept == ~stray
=============================================================================
