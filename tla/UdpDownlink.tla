----------------------------- MODULE UdpDownlink -----------------------------
(***************************************************************************)
(* Replies on their way to the clients (bridge/udp_downlink.c,             *)
(* bridge/udp_downlink_queue.c, handle_udp_upstream_packets of             *)
(* bridge/udp.c) in one UDP worker.                                        *)
(*                                                                         *)
(* A read first reserves room for the datagrams it may receive; without    *)
(* room the session's relay is paused until the budget, which all workers  *)
(* share, has some.  Replies that can go out together are sent as a batch. *)
(* Those the kernel does not take are queued on a channel, which holds a   *)
(* duplicate of the socket and waits for it to become writable; until the  *)
(* session's channels are empty its relay is paused.                       *)
(*                                                                         *)
(* The datagrams of one read are handled one at a time, in steps of the    *)
(* one thread; only the other workers' share of the budget changes         *)
(* concurrently, and nothing in a read looks at it after the reservation.  *)
(* One unit of the budget is one datagram.  A session is created ready:    *)
(* its handshake is in UdpSession.                                         *)
(*                                                                         *)
(* w.faults is there for the properties; it says what went wrong:          *)
(*   "recycled"  a binding was destroyed while the batch referred to it    *)
(*   "loose"     ... although another one could have been taken            *)
(*   "source"    a client was sent a reply with the wrong source           *)
(*   "order"     a reply overtook an earlier one of the same source        *)
(* What follows the first of them is explored no further than the read.    *)
(***************************************************************************)
EXTENDS ReplyBindings

CONSTANTS
    Channels,       \* the channels there may be at a time
    Listener,       \* the UDP listener's descriptor
    Batch,          \* batch_size
    BudgetCap,      \* cap_bytes of the budget, in datagrams
    OthersHold,     \* what the other workers may hold of it at a time
    MaxEvents,      \* event_cap
    MaxGeneration   \* bound on how often a client changes a binding's reply socket

ASSUME DownlinkAssumption ==
    /\ {Batch, BudgetCap, MaxEvents, MaxGeneration} \subseteq Nat \ {0}
    /\ OthersHold \subseteq Nat
    /\ Listener \notin Fds \cup {None}
    /\ None \notin Channels

VARIABLES
    w,          \* the worker's state
    others,     \* what the other workers hold of the budget
    pc,         \* "wait" in epoll_wait, "events", "read"
    events,     \* what epoll_wait returned and is not handled yet
    read        \* the read in progress

vars == <<w, others, pc, events, read>>

Packets == [slot : Slots, from : Remotes]

NoSession == [used |-> FALSE, paused |-> FALSE, waiting |-> FALSE, pending |-> 0]

NoChannel ==
    [stage |-> "free", session |-> None, binding |-> None, generation |-> 0,
     source |-> None, raw |-> FALSE, bound |-> None, queue |-> <<>>]

NoRead ==
    [session |-> None, todo |-> <<>>, slot |-> None, batch |-> <<>>, fd |-> None, touched |-> {}]

Init ==
    /\ w = [pool |-> EmptyPool, session |-> [s \in Sessions |-> NoSession],
            channel |-> [c \in Channels |-> NoChannel],
            used |-> 0, reserved |-> 0, waiters |-> 0, faults |-> {}]
    /\ others = 0
    /\ pc = "wait"
    /\ events = {}
    /\ read = NoRead

Live(v, s) == {c \in Channels : v.channel[c].stage = "live" /\ v.channel[c].session = s}

Faulty(v, fault, condition) == IF condition THEN [v EXCEPT !.faults = @ \cup {fault}] ELSE v

-----------------------------------------------------------------------------
(* Waiting for room in the budget *)

\* waiter_tracker_mark_waiting, set_paused
PauseForRoom(v, s) ==
    [v EXCEPT !.waiters = IF v.session[s].waiting THEN @ ELSE @ + 1,
              !.session[s].waiting = TRUE, !.session[s].paused = TRUE]

\* waiter_tracker_mark_ready
MarkReady(v, s) ==
    [v EXCEPT !.waiters = IF v.session[s].waiting THEN @ - 1 ELSE @,
              !.session[s].waiting = FALSE]

\* The sizes bpf2socks_udp_downlink_reserve_slots tries.
Candidates == {(Batch + 2^k - 1) \div 2^k : k \in 0..Batch}

\* What it reserves; 0 when not even one datagram has room.
Reservable(v) == Max({n \in Candidates : n <= BudgetCap - v.used} \cup {0})

\* bpf2socks_udp_downlink_release_reservation
ReleaseReservation(v) == [v EXCEPT !.used = @ - v.reserved, !.reserved = 0]

Resumable(v) ==
    IF v.waiters = 0 \/ v.used > BudgetCap - 1 THEN {}
    ELSE {s \in Sessions : /\ v.session[s].used /\ v.session[s].waiting
                           /\ v.session[s].pending = 0}

\* Mutant: the relay stays paused.
ResumeWaitersPaused(v) == FoldLeft(MarkReady, v, SetToSeq(Resumable(v)))

\* bpf2socks_udp_downlink_resume_budget_waiters
ResumeWaiters(v) ==
    FoldLeft(LAMBDA u, s : [MarkReady(u, s) EXCEPT !.session[s].paused = FALSE],
             v, SetToSeq(Resumable(v)))

-----------------------------------------------------------------------------
(* Channels *)

\* Mutant: replies of every binding share a channel.
FindChannelAny(v, s, b, fd, raw) == {c \in Live(v, s) : v.channel[c].raw = raw}

\* The channel for replies of binding b through fd, if there is one
\* (bpf2socks_udp_downlink_find_channel).
FindChannel(v, s, b, fd, raw) ==
    LET own == v.pool.binding[b].fd = fd
    IN  {c \in Live(v, s) : /\ v.channel[c].source = fd /\ v.channel[c].raw = raw
                            /\ v.channel[c].binding = IF own THEN b ELSE None
                            /\ own => v.channel[c].generation = v.pool.binding[b].generation}

\* create_downlink_channel: a duplicate of fd is bound as fd is.
CreateChannel(v, c, s, b, fd, raw) ==
    LET own == v.pool.binding[b].fd = fd
        holders == {x \in Slots : v.pool.binding[x].fd = fd}
    IN  [v EXCEPT !.channel[c] =
            [stage |-> "live", session |-> s, binding |-> IF own THEN b ELSE None,
             generation |-> IF own THEN v.pool.binding[b].generation ELSE 0,
             source |-> fd, raw |-> raw, queue |-> <<>>,
             bound |-> IF fd = Listener THEN None
                       ELSE v.pool.binding[CHOOSE x \in holders : TRUE].dst]]

\* Whether queue_packet can succeed: the descriptor to duplicate is open, and
\* there is a channel or one can be made.
CanQueue(v, s, b, fd, raw) ==
    /\ fd = Listener \/ \E x \in Slots : v.pool.binding[x].fd = fd
    /\ \/ FindChannel(v, s, b, fd, raw) # {}
       \/ \E c \in Channels : v.channel[c].stage = "free"

\* bpf2socks_udp_downlink_queue_packet.  The memory comes out of the read's
\* reservation (alloc_downlink_packet).
QueuePacket(v, s, packet, fd, raw) ==
    LET b == packet.slot
        found == FindChannel(v, s, b, fd, raw)
        c == CHOOSE x \in Channels :
                IF found = {} THEN v.channel[x].stage = "free" ELSE x \in found
        u == IF found = {} THEN CreateChannel(v, c, s, b, fd, raw) ELSE v
    IN  [MarkReady(u, s) EXCEPT
            !.channel[c].queue = Append(@, packet),
            !.reserved = @ - 1,
            !.session[s].pending = @ + 1, !.session[s].paused = TRUE,
            !.pool = [Touch(@, b) EXCEPT !.binding[b].idle = 0, !.binding[b].pending = @ + 1]]

\* release_downlink_packet
ReleasePacket(v, s, packet) ==
    [v EXCEPT !.session[s].pending = Max({@ - 1, 0}), !.used = @ - 1,
              !.pool.binding[packet.slot].pending = Max({@ - 1, 0})]

\* Mutant: the channel is freed at once.
RetireFreed(v, c) ==
    LET s == v.channel[c].session
        u == FoldLeft(LAMBDA x, packet : ReleasePacket(x, s, packet), v, v.channel[c].queue)
    IN  [u EXCEPT !.channel[c] = NoChannel]

\* retire_downlink_channel, but for resuming: events may still refer to it.
Retire(v, c) ==
    LET s == v.channel[c].session
        u == FoldLeft(LAMBDA x, packet : ReleasePacket(x, s, packet), v, v.channel[c].queue)
    IN  [u EXCEPT !.channel[c] = [NoChannel EXCEPT !.stage = "retired"]]

\* bpf2socks_udp_downlink_free_retired
FreeRetired(v) ==
    [v EXCEPT !.channel = [c \in Channels |->
        IF v.channel[c].stage = "retired" THEN NoChannel ELSE v.channel[c]]]

\* retire_downlink_channel of a channel that is drained.
RetireAndResume(v, c) ==
    LET s == v.channel[c].session
        u == Retire(v, c)
    IN  IF u.session[s].pending = 0 /\ ~u.session[s].waiting
        THEN [u EXCEPT !.session[s].paused = FALSE]
        ELSE u

\* Mutant: a session that waits for room is not taken off the count.
DropSessionCounted(v, s) ==
    LET u == FoldLeft(Retire, v, SetToSeq(Live(v, s)))
    IN  [u EXCEPT !.session[s] = NoSession,
                  !.pool = DestroyAll(@, {b \in Slots : @.binding[b].owner = s})]

\* bpf2socks_udp_session_close: bpf2socks_udp_downlink_release_session, then
\* the bindings.
DropSession(v, s) ==
    LET u == MarkReady(FoldLeft(Retire, v, SetToSeq(Live(v, s))), s)
    IN  [u EXCEPT !.session[s] = NoSession,
                  !.pool = DestroyAll(@, {b \in Slots : @.binding[b].owner = s})]

-----------------------------------------------------------------------------
(* What the client sees of a reply *)

\* The source the kernel gives a reply sent through fd for binding b: raw
\* replies and replies with a token say which, others have that of the socket.
SourceOf(v, b, fd, raw, bound) ==
    IF raw \/ fd = Listener THEN v.pool.binding[b].dst ELSE bound

QueuedFrom(v, s, d) ==
    {c \in Live(v, s) : \E i \in DOMAIN v.channel[c].queue : v.channel[c].queue[i].from = d}

\* A reply is sent at once; the socket is the one with number fd now.
SendNow(v, s, packet, fd, raw) ==
    LET b == packet.slot
        bound == IF \E x \in Slots : v.pool.binding[x].fd = fd
                 THEN v.pool.binding[CHOOSE x \in Slots : v.pool.binding[x].fd = fd].dst
                 ELSE None
        u == Faulty(Faulty(v, "source", SourceOf(v, b, fd, raw, bound) # packet.from),
                    "order", QueuedFrom(v, s, packet.from) # {})
    IN  [u EXCEPT !.pool.binding[b].idle = 0]

\* The head of a channel's queue is sent (bpf2socks_udp_downlink_flush_channel).
SendHead(v, c) ==
    LET ch == v.channel[c]
        packet == Head(ch.queue)
        u == Faulty(Faulty(v, "source",
                           SourceOf(v, packet.slot, ch.source, ch.raw, ch.bound) # packet.from),
                    "order", QueuedFrom(v, ch.session, packet.from) # {c})
    IN  [ReleasePacket(u, ch.session, packet) EXCEPT
            !.channel[c].queue = Tail(@), !.pool.binding[packet.slot].idle = 0]

-----------------------------------------------------------------------------
(* The event loop *)

Reportable ==
    {<<"relay", s>> : s \in {t \in Sessions : w.session[t].used /\ ~w.session[t].paused}}
        \cup {<<"out", c>> : c \in {d \in Channels : w.channel[d].stage = "live"}}

EpollWait ==
    /\ pc = "wait"
    /\ events' \in {e \in SUBSET Reportable : Cardinality(e) <= MaxEvents}
    /\ pc' = "events"
    /\ UNCHANGED <<w, others, read>>

Handling == pc = "events" /\ w.faults = {}

Take(event) == Handling /\ event \in events /\ events' = events \ {event}

\* An event of a session or channel that is gone.
StaleEvent(s, c) ==
    /\ \/ Take(<<"relay", s>>) /\ ~w.session[s].used
       \/ Take(<<"out", c>>) /\ w.channel[c].session = None
    /\ UNCHANGED <<w, others, pc, read>>

\* A client's datagram to d, which comes with a session, and with a binding if
\* one can be had.  "own" says whether replies need a socket of their own.
ClientDatagram(s, d, own) ==
    /\ Handling
    /\ LET v == [w EXCEPT !.session[s].used = TRUE]
           known == [v EXCEPT !.pool.binding = [b \in Slots |->
                        IF b \in Find(w.pool, s, d) THEN [@[b] EXCEPT !.token = TRUE] ELSE @[b]]]
           room == WithCapacity(v.pool)
       IN  \/ \E b \in Find(w.pool, s, d) :
                LET old == known.pool.binding[b]
                    used(p) == [Touch(p, b) EXCEPT !.binding[b].idle = 0]
                IN  \/ /\ own <=> old.fd # None
                       /\ w' = [known EXCEPT !.pool = used(@)]
                    \/ /\ ~own /\ old.fd # None /\ old.generation < MaxGeneration
                       /\ w' = [known EXCEPT !.pool = used(CloseReply(@, b))]
                    \/ /\ own /\ old.fd = None /\ old.generation < MaxGeneration
                       /\ \/ w' = known
                          \/ \E reply \in ReplySockets(w.pool) :
                                w' = [known EXCEPT !.pool = used(SetReply(@, b, reply))]
           \/ /\ Find(w.pool, s, d) = {} /\ ~HasCapacity(w.pool)
              /\ w' = v
           \/ /\ Find(w.pool, s, d) = {} /\ HasCapacity(w.pool)
              /\ \/ ~own /\ w' = [v EXCEPT !.pool = Create(room, s, d, TRUE, None)]
                 \/ own /\ w' = [v EXCEPT !.pool = room]
                 \/ own /\ \E reply \in ReplySockets(room) :
                        w' = [v EXCEPT !.pool = Create(room, s, d, TRUE, reply)]
    /\ UNCHANGED <<others, pc, events, read>>

\* The session's connection or a socket of it fails, its client is gone, or
\* another one needs the slot.
SessionEnds(s) ==
    /\ Handling /\ w.session[s].used
    /\ w' = DropSession(w, s)
    /\ UNCHANGED <<others, pc, events, read>>

-----------------------------------------------------------------------------
(* Reading replies: handle_udp_upstream_packets *)

NoRoom(s) ==
    /\ Take(<<"relay", s>>) /\ w.session[s].used
    /\ Reservable(w) = 0
    /\ w' = PauseForRoom(w, s)
    /\ UNCHANGED <<others, pc, read>>

\* Nothing to read or a datagram that is too large; or the relay is broken.
NoReply(s) ==
    /\ Take(<<"relay", s>>) /\ w.session[s].used
    /\ Reservable(w) > 0
    /\ w' \in {w, DropSession(w, s)}
    /\ UNCHANGED <<others, pc, read>>

\* Replies from addresses, or from a domain of which only the port is known.
Receive(s) ==
    /\ Take(<<"relay", s>>) /\ w.session[s].used
    /\ LET n == Reservable(w)
       IN  /\ n > 0
           /\ \E k \in 1..n : \E todo \in [1..k -> Remotes \cup Ports] :
                read' = [NoRead EXCEPT !.session = s, !.todo = todo]
           /\ w' = [w EXCEPT !.used = @ + n, !.reserved = n]
    /\ pc' = "read"
    /\ UNCHANGED others

Reading == pc = "read" /\ UNCHANGED <<others, events>>

\* The next datagram is dropped, with w' what was done for it.
Skip == pc' = pc /\ read' = [read EXCEPT !.todo = Tail(@), !.slot = None]

\* The addresses the next datagram may be from.
Origins ==
    IF Head(read.todo) \in Ports
    THEN {w.pool.binding[b].dst : b \in FindByPort(w.pool, read.session, Head(read.todo))}
    ELSE {Head(read.todo)}

Use(b, d) ==
    /\ read' = [read EXCEPT !.todo = <<d>> \o Tail(@), !.slot = b, !.touched = @ \cup {b}]
    /\ pc' = pc

Resolving == Reading /\ read.todo # <<>> /\ read.slot = None

UnknownDomain ==
    /\ Resolving
    /\ Origins = {}
    /\ w' = w /\ Skip

KnownRemote ==
    /\ Resolving
    /\ \E d \in Origins : \E b \in Find(w.pool, read.session, d) :
        /\ w' = [w EXCEPT !.pool = Touch(@, b)]
        /\ Use(b, d)

\* The worker with room for a binding; the batch does not count as pending.
Evicting ==
    LET gone == Victims(w.pool)
        batched == {read.batch[i].slot : i \in DOMAIN read.batch}
        spare == {b \in InUse(w.pool) : w.pool.binding[b].pending = 0} \ read.touched
        v == [w EXCEPT !.pool = WithCapacity(@)]
    IN  Faulty(Faulty(v, "recycled", gone \cap batched # {}),
               "loose", gone \cap batched # {} /\ spare # {})

\* bpf2socks_udp_binding_create_fullcone
NewRemote ==
    /\ Resolving
    /\ \E d \in Origins :
        /\ Find(w.pool, read.session, d) = {}
        /\ \/ ~HasCapacity(w.pool) /\ w' = w /\ Skip
           \/ HasCapacity(w.pool) /\ w' = Evicting /\ Skip
           \/ /\ HasCapacity(w.pool)
              /\ \E reply \in ReplySockets(Evicting.pool) :
                    w' = [Evicting EXCEPT !.pool = Create(@, read.session, d, FALSE, reply)]
              /\ Use(Fresh(Evicting.pool), d)

ReplyFd(b) == IF w.pool.binding[b].fd = None THEN Listener ELSE w.pool.binding[b].fd
IsRaw(b) == w.pool.binding[b].raw
HasChannel(b) == FindChannel(w, read.session, b, ReplyFd(b), IsRaw(b)) # {}

\* Whether the batch goes before the next datagram, or at the end.
MustFlush ==
    /\ read.batch # <<>>
    /\ IF read.slot = None THEN read.todo = <<>>
       ELSE IsRaw(read.slot) \/ HasChannel(read.slot) \/ ReplyFd(read.slot) # read.fd

\* The read ends with the session: bpf2socks_udp_session_drop after the
\* reservation was given back.
Abort ==
    /\ w' = DropSession(ReleaseReservation(w), read.session)
    /\ read' = NoRead /\ pc' = "events"

\* v with the packet queued, None if it could not be.
Enqueue(v, packet, fd, raw) ==
    IF v = None THEN None
    ELSE IF CanQueue(v, read.session, packet.slot, fd, raw)
    THEN QueuePacket(v, read.session, packet, fd, raw)
    ELSE None

IsOpen(fd) == fd = Listener \/ \E b \in Slots : w.pool.binding[b].fd = fd

\* bpf2socks_udp_downlink_batch_flush: the kernel takes the first k.
Flushed(k) ==
    LET sent == FoldLeft(LAMBDA v, p : SendNow(v, read.session, p, read.fd, FALSE),
                         w, SubSeq(read.batch, 1, k))
    IN  FoldLeft(LAMBDA v, p : Enqueue(v, p, read.fd, FALSE),
                 sent, SubSeq(read.batch, k + 1, Len(read.batch)))

FlushBatch ==
    /\ Reading /\ MustFlush
    /\ IsOpen(read.fd)
    /\ \E k \in 0..Len(read.batch) :
        /\ Flushed(k) # None
        /\ w' = Flushed(k)
    /\ read' = [read EXCEPT !.batch = <<>>, !.fd = None]
    /\ pc' = pc

FlushFails == Reading /\ MustFlush /\ Abort

Placing == Reading /\ read.slot # None /\ ~MustFlush

Packet == [slot |-> read.slot, from |-> Head(read.todo)]

\* A reply joins the queue: others wait there already, or the kernel does not
\* take it now (raw).
QueueReply ==
    /\ Placing
    /\ HasChannel(read.slot) \/ IsRaw(read.slot)
    /\ \/ LET v == Enqueue(w, Packet, ReplyFd(read.slot), IsRaw(read.slot))
          IN  v # None /\ w' = v /\ Skip
       \/ Abort

\* A raw reply is sent, or is too large for the route.
SendRaw ==
    /\ Placing
    /\ IsRaw(read.slot) /\ ~HasChannel(read.slot)
    /\ w' \in {w, SendNow(w, read.session, Packet, ReplyFd(read.slot), TRUE)}
    /\ Skip

\* bpf2socks_udp_downlink_batch_queue
AddToBatch ==
    /\ Placing
    /\ ~IsRaw(read.slot) /\ ~HasChannel(read.slot)
    /\ read' = [read EXCEPT !.todo = Tail(@), !.slot = None, !.fd = ReplyFd(read.slot),
                            !.batch = Append(@, Packet)]
    /\ UNCHANGED <<w, pc>>

EndRead ==
    /\ Reading
    /\ read.todo = <<>> /\ read.batch = <<>>
    /\ w' = ReleaseReservation(w)
    /\ read' = NoRead /\ pc' = "events"

-----------------------------------------------------------------------------
(* Channels that can be written, and maintenance *)

Sent(c, k) == FoldLeft(LAMBDA v, i : SendHead(v, c), w, [i \in 1..k |-> i])

\* bpf2socks_udp_downlink_flush_channel sends all there is ...
Drain(c) ==
    /\ Take(<<"out", c>>) /\ w.channel[c].session # None
    /\ w' = RetireAndResume(Sent(c, Len(w.channel[c].queue)), c)
    /\ UNCHANGED <<others, pc, read>>

\* ... or a part of it, after which the socket is full or fails.
DrainSome(c) ==
    /\ Take(<<"out", c>>) /\ w.channel[c].session # None
    /\ \E k \in 0..(Len(w.channel[c].queue) - 1) :
        w' \in {Sent(c, k), DropSession(Sent(c, k), w.channel[c].session)}
    /\ UNCHANGED <<others, pc, read>>

Expired(v) == [v EXCEPT !.pool = DestroyAll(@, Due(@))]

\* The sessions that may be idle for long enough to go.
MayExpire(v) ==
    {s \in Sessions : v.session[s].used /\ v.session[s].pending = 0 /\ ~v.session[s].waiting}

\* udp_run_maintenance
Maintenance ==
    /\ Handling /\ events = {}
    /\ LET v == Expired(ResumeWaiters(FreeRetired(w)))
       IN  \E gone \in SUBSET MayExpire(v) :
            w' = ResumeWaiters(FreeRetired(FoldLeft(DropSession, v, SetToSeq(gone))))
    /\ pc' = "wait"
    /\ UNCHANGED <<others, events, read>>

-----------------------------------------------------------------------------

\* Handlers take no time.
Tick ==
    /\ pc = "wait"
    /\ w' = [w EXCEPT !.pool = Aged(@)]
    /\ UNCHANGED <<others, pc, events, read>>

OtherWorkers ==
    /\ pc # "read"
    /\ others' \in {n \in OthersHold : n <= BudgetCap - (w.used - others)}
    /\ w' = [w EXCEPT !.used = @ - others + others']
    /\ UNCHANGED <<pc, events, read>>

ReadStep ==
    \/ UnknownDomain \/ KnownRemote \/ NewRemote \/ FlushBatch \/ FlushFails
    \/ QueueReply \/ SendRaw \/ AddToBatch \/ EndRead

HandleEvent ==
    \/ \E s \in Sessions : NoRoom(s) \/ NoReply(s) \/ Receive(s)
    \/ \E c \in Channels : Drain(c) \/ DrainSome(c)
    \/ \E s \in Sessions, c \in Channels : StaleEvent(s, c)

Next ==
    \/ EpollWait \/ HandleEvent \/ ReadStep \/ Maintenance
    \/ \E s \in Sessions : SessionEnds(s)
    \/ \E s \in Sessions, d \in Remotes, own \in BOOLEAN : ClientDatagram(s, d, own)
    \/ Tick \/ OtherWorkers

Spec == Init /\ [][Next]_vars

-----------------------------------------------------------------------------
(* Properties *)

\* Counters within their limits; a channel belongs to a session exactly while it is live.
TypeOK ==
    /\ w.pool \in [binding : [Slots -> Bindings], lru : Seq(Slots)]
    /\ w.session \in [Sessions -> [used : BOOLEAN, paused : BOOLEAN, waiting : BOOLEAN,
                                   pending : 0..BudgetCap]]
    /\ \A c \in Channels : /\ w.channel[c].stage \in {"free", "live", "retired"}
                            /\ w.channel[c].queue \in Seq(Packets)
                            /\ w.channel[c].stage = "live" <=> w.channel[c].session # None
    /\ {w.used, others} \subseteq 0..BudgetCap
    /\ w.waiters \in 0..Cardinality(Sessions)
    /\ w.reserved \in 0..Batch
    /\ pc \in {"wait", "events", "read"}
    /\ pc = "read" <=> read.session # None

Orderly == w.faults = {}

Queued(P(_)) ==
    FoldLeft(LAMBDA n, c : n + Len(SelectSeq(w.channel[c].queue, P)), 0, SetToSeq(Channels))

\* The counters that decide who may be evicted, expired, paused and resumed
\* (downlink_pending_count of sessions and bindings, the count of waiters) say
\* what the queues hold; and the budget is charged for exactly the replies
\* queued and the reservation of the read, so that no way to lose a channel, a
\* session or a read leaves memory booked (release_downlink_packet,
\* retire_downlink_channel, bpf2socks_udp_downlink_release_reservation).
CountersExact ==
    /\ TypeOK
    /\ Orderly =>
        /\ \A s \in Sessions :
            w.session[s].pending =
                FoldLeft(LAMBDA n, c : n + Len(w.channel[c].queue), 0, SetToSeq(Live(w, s)))
        /\ \A b \in Slots : w.pool.binding[b].pending = Queued(LAMBDA p : p.slot = b)
        /\ w.waiters = Cardinality({s \in Sessions : w.session[s].waiting})
        /\ w.used = others + w.reserved + Queued(LAMBDA p : TRUE)

\* A relay is paused exactly as long as something will resume it: a queued
\* reply, whose channel resumes it when drained, or the wait for room
\* (bpf2socks_udp_downlink_set_paused and its callers).  A relay paused without
\* either would stay silent until its session expires.
PausedForReason ==
    \A s \in Sessions :
        w.session[s].used => (w.session[s].paused <=> w.session[s].waiting \/ w.session[s].pending > 0)

\* A client never gets a reply with another source than the one it came from,
\* however slots, descriptors and channels are used again in between; but for
\* a binding that is destroyed while the batch of the same read refers to it
\* (bpf2socks_udp_downlink_batch_queue does not count it as pending).
RightSource == "source" \in w.faults => "recycled" \in w.faults

\* The binding of a reply that waits in the batch is destroyed only if every
\* binding of the worker has replies queued or was used by this very read: a
\* binding that is hit goes to the end of the list evict_binding walks
\* (src/bridge/udp.c:311).
BatchEvictedLast == "loose" \notin w.faults

\* Replies of one source reach the client in the order they were received: one
\* that could be sent at once waits for those queued before it, in the batch
\* and on the channel (bpf2socks_udp_downlink_batch_queue, udp.c:320).
InOrder == "order" \in w.faults => "recycled" \in w.faults

\* What a client receives is what a relay would have sent it directly: the sources
\* are right and the order is kept, unless a batch lost its binding, and that only
\* when no other binding could go.
RepliesFaithful == RightSource /\ BatchEvictedLast /\ InOrder

\* A channel is not freed while an event of the current batch refers to it
\* (retired_downlink_channels).
NoEventOfFreed ==
    \A c \in Channels : <<"out", c>> \in events => w.channel[c].stage # "free"

=============================================================================
