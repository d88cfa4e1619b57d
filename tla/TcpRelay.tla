------------------------------- MODULE TcpRelay -------------------------------
(***************************************************************************)
(* One proxied TCP connection (bridge/tcp.c): the SOCKS5 handshake with    *)
(* the upstream, the two splice pipes, half-closes and resets, and the     *)
(* epoll interest that decides when the worker looks at it again.          *)
(*                                                                         *)
(* The client, the upstream server and the kernel's sockets are the        *)
(* environment.  The stream of a side is counted in units: a unit fills    *)
(* one buffer of a pipe.  The upstream's stream starts with Reply units    *)
(* that answer the handshake.  pipe[s] is the pipe that carries the data   *)
(* of side s to the other side: pipe["client"] is client_to_upstream.      *)
(***************************************************************************)
EXTENDS Integers

CONSTANTS
    Request,        \* handshake_length: the hello and the CONNECT request
    Reply,          \* response_expected: both replies
    ResponseCap,    \* BPF2SOCKS_TCP_RESPONSE_CAP
    Capacity,       \* capacity of a pipe
    RecvBuf,        \* units a socket's receive queue holds
    SendBuf,        \* units a socket's send queue holds
    MaxSent         \* bound: units each side sends

Sides == {"client", "upstream"}
Other(s) == IF s = "client" THEN "upstream" ELSE "client"

\* RESPONSE_CAP holds the largest replies; early payload fits an empty pipe.
ASSUME RelayAssumption ==
    /\ {Request, Reply, ResponseCap, Capacity, RecvBuf, SendBuf} \subseteq Nat \ {0}
    /\ Reply <= ResponseCap
    /\ ResponseCap - Reply <= Capacity
    /\ MaxSent \in [Sides -> Nat]

VARIABLES
    stage,      \* the connection's stage; "closed" once close_connection ran
    offset,     \* handshake_offset
    response,   \* response_length
    pipe,       \* the two splice pipes
    events,     \* the epoll mask of each fd; {} when it is not registered
    ready,      \* events epoll_wait returned and not handled yet, by side
    unread,     \* receive queue of each side's socket
    sendq,      \* send queue of each side's socket
    sent,       \* units the side has sent so far
    fin,        \* sides that ended their stream
    err,        \* sides that reset the connection, or refused it
    accepted,   \* payload units written to the side's socket
    ending,     \* how the bridge ended its stream to the side
    why         \* why the connection was closed: the side that failed, or else

bridge == <<stage, offset, response, pipe, events, accepted, ending, why>>
vars == <<bridge, ready, unread, sendq, sent, fin, err>>

Handshake == {"connecting", "request_write", "reply_read"}
Mask == {"in", "rdhup", "out", "err", "hup"}

\* The connection, its pipes and its peers keep their shape; no pipe holds more than its room.
TypeOK ==
    /\ stage \in Handshake \cup {"relay", "closed"}
    /\ offset \in 0..Request
    /\ response \in 0..ResponseCap
    /\ pipe \in [Sides -> [queued : 0..Capacity, eof : BOOLEAN, paused : BOOLEAN,
                           shut : BOOLEAN]]
    /\ events \in [Sides -> SUBSET Mask]
    /\ ready \in [Sides -> SUBSET Mask]
    /\ unread \in [Sides -> 0..RecvBuf]
    /\ sendq \in [Sides -> 0..SendBuf]
    /\ sent \in [Sides -> Nat]
    /\ fin \subseteq Sides
    /\ err \subseteq Sides
    /\ accepted \in [Sides -> Nat]
    /\ ending \in [Sides -> {"open", "fin", "rst"}]
    /\ why \in Sides \cup {"", "complete", "gone", "idle", "stop"}

Least(m, n) == IF m <= n THEN m ELSE n

-----------------------------------------------------------------------------
(* The epoll interest. *)

\* Mutant: output is not waited for while input is.
RelaySideEventsExclusive(wantInput, outputPending) ==
    IF wantInput THEN {"in", "rdhup", "err", "hup"}
    ELSE IF outputPending THEN {"out", "err", "hup"} ELSE {}

\* relay_side_events
RelaySideEvents(wantInput, outputPending) ==
    (IF wantInput THEN {"in", "rdhup"} ELSE {})
        \cup (IF outputPending THEN {"out"} ELSE {})
        \cup (IF wantInput \/ outputPending THEN {"err", "hup"} ELSE {})

\* splice_pipe_wants_input
WantsInput(p) == ~p.eof /\ ~p.paused

\* client_events and upstream_events, for the given stage and pipes.
Interest(st, pipes, s) ==
    CASE st = "relay" -> RelaySideEvents(WantsInput(pipes[s]), pipes[Other(s)].queued > 0)
      [] st # "relay" /\ s = "client" -> {"err", "hup"}
      [] st = "reply_read" /\ s = "upstream" -> {"err", "hup", "rdhup", "in"}
      [] OTHER -> {"err", "hup", "rdhup", "out"}

\* update_connection_events
UpdateEvents == events' = [s \in Sides |-> Interest(stage', pipe', s)]

-----------------------------------------------------------------------------
(* create_connection: connect() is in progress, or it succeeded at once and *)
(* the handshake is written as far as the send queue takes it.              *)

\* init_splice_pipe
EmptyPipe == [queued |-> 0, eof |-> FALSE, paused |-> FALSE, shut |-> FALSE]

Init ==
    /\ \/ stage = "connecting" /\ offset = 0
       \/ /\ offset = Least(Request, SendBuf)
          /\ stage = IF offset = Request THEN "reply_read" ELSE "request_write"
    /\ response = 0
    /\ pipe = [s \in Sides |-> EmptyPipe]
    /\ events = [s \in Sides |-> Interest(stage, pipe, s)]
    /\ ready = [s \in Sides |-> {}]
    /\ unread = [s \in Sides |-> 0]
    /\ sendq = [s \in Sides |-> IF s = "upstream" THEN offset ELSE 0]
    /\ sent = [s \in Sides |-> 0]
    /\ fin = {}
    /\ err = {}
    /\ accepted = [s \in Sides |-> 0]
    /\ ending = [s \in Sides |-> "open"]
    /\ why = ""

-----------------------------------------------------------------------------
(* The peers. *)

Alive(s) == s \notin fin \cup err

\* A connecting upstream sends nothing.
PeerSend(s) ==
    /\ Alive(s) /\ stage # "closed"
    /\ s = "upstream" => stage # "connecting"
    /\ sent[s] < MaxSent[s]
    /\ unread[s] < RecvBuf
    /\ sent' = [sent EXCEPT ![s] = @ + 1]
    /\ unread' = [unread EXCEPT ![s] = @ + 1]
    /\ UNCHANGED <<bridge, ready, sendq, fin, err>>

PeerFin(s) ==
    /\ Alive(s) /\ stage # "closed"
    /\ s = "upstream" => stage # "connecting"
    /\ fin' = fin \cup {s}
    /\ UNCHANGED <<bridge, ready, unread, sendq, sent, err>>

PeerRead(s) ==
    /\ s \notin err
    /\ stage # "connecting"
    /\ sendq[s] > 0
    /\ sendq' = [sendq EXCEPT ![s] = @ - 1]
    /\ UNCHANGED <<bridge, ready, unread, sent, fin, err>>

\* A reset; of a connecting upstream, a refused connect.
PeerReset(s) ==
    /\ s \notin err /\ stage # "closed"
    /\ err' = err \cup {s}
    /\ UNCHANGED <<bridge, ready, unread, sendq, sent, fin>>

-----------------------------------------------------------------------------
(* epoll, level-triggered. *)

\* Whether the condition of an event holds of a side's socket now.  A
\* connecting socket becomes writable at any time.
Holds(s, event) ==
    CASE event = "in" -> unread[s] > 0 \/ s \in fin \cup err
      [] event = "rdhup" -> s \in fin \cup err
      [] event = "out" -> sendq[s] < SendBuf \/ s \in err
      [] event = "err" -> s \in err
      [] event = "hup" -> s \in err \/ (s \in fin /\ ending[s] = "fin")

Reported(s) == {event \in events[s] : Holds(s, event)}

EpollWait ==
    /\ stage # "closed"
    /\ \A s \in Sides : ready[s] = {}
    /\ \E s \in Sides : Reported(s) # {}
    /\ ready' = [s \in Sides |-> Reported(s)]
    /\ UNCHANGED <<bridge, unread, sendq, sent, fin, err>>

-----------------------------------------------------------------------------
(* Closing. *)

\* close() ends a stream with a FIN, or with an RST when input was left unread.
Closed(s, unreadNow) ==
    IF ending[s] # "open" THEN ending[s]
    ELSE IF unreadNow[s] > 0 THEN "rst" ELSE "fin"

Close(reason) ==
    /\ stage' = "closed"
    /\ why' = reason
    /\ events' = [s \in Sides |-> {}]

\* close_connection
CloseConnection(reason) ==
    /\ Close(reason)
    /\ ending' = [s \in Sides |-> Closed(s, unread')]

\* Mutant: the surviving side is closed like the failed one.
ResetConnectionPlain(failed) == CloseConnection(failed)

\* reset_connection: the side that did not fail is reset.
ResetConnection(failed) ==
    /\ Close(failed)
    /\ ending' = [s \in Sides |-> IF s = failed THEN Closed(s, unread') ELSE "rst"]

Keep == UNCHANGED <<offset, response, pipe, accepted>>

-----------------------------------------------------------------------------
(* The handlers.  Each one handles and forgets the events of one side. *)

Handle(s) ==
    /\ ready[s] # {}
    /\ ready' = [ready EXCEPT ![s] = {}]
    /\ UNCHANGED <<sent, fin, err>>

\* The refs of a closed connection are cleared: its events are ignored.
Ignore(s) ==
    /\ Handle(s)
    /\ stage = "closed"
    /\ UNCHANGED <<bridge, unread, sendq>>

\* handle_client_event
HandleClientEvent ==
    /\ Handle("client")
    /\ stage \in Handshake
    /\ UNCHANGED <<unread, sendq>>
    /\ IF "err" \in ready["client"] THEN ResetConnection("client")
                                    ELSE CloseConnection("gone")
    /\ Keep

Flushing == stage \in {"connecting", "request_write"} /\ "out" \in ready["upstream"]

\* flush_handshake: what it writes to the upstream's send queue.
Flushed == IF Flushing THEN Least(Request - offset, SendBuf - sendq["upstream"]) ELSE 0

\* read_pipelined_replies: what it reads, in one recv.
Received == Least(unread["upstream"], ResponseCap - response)

StageAfterFlush ==
    IF stage = "connecting" /\ "out" \notin ready["upstream"] THEN "connecting"
    ELSE IF offset + Flushed = Request THEN "reply_read" ELSE "request_write"

Hangup == ready["upstream"] \cap {"hup", "rdhup"} # {}

\* Whether this event is one to read the replies on.
Readable == StageAfterFlush = "reply_read" /\ ("in" \in ready["upstream"] \/ Hangup)

\* What resets the connection: an error event, a failed send, an end of stream
\* or a refusal in the replies, and a hangup before the replies are complete.
\* `refused' also stands for pipe2 failing when they are.
HandshakeFails(refused) ==
    \/ "err" \in ready["upstream"]
    \/ "upstream" \in err /\ Flushing
    \/ /\ Readable
       /\ \/ unread["upstream"] = 0 /\ "upstream" \in fin \cup err
          \/ refused /\ response + Received > 0
    \/ Hangup /\ ~(Readable /\ response + Received >= Reply)

\* handle_upstream_handshake that ends in reset_connection
UpstreamHandshakeFails(refused) ==
    /\ Handle("upstream")
    /\ stage \in Handshake
    /\ HandshakeFails(refused)
    /\ unread' = IF Readable /\ "err" \notin ready["upstream"]
                 THEN [unread EXCEPT !["upstream"] = @ - Received] ELSE unread
    /\ ResetConnection("upstream")
    /\ UNCHANGED sendq
    /\ Keep

\* Mutant: the bytes past the replies are dropped.
EarlyPayloadDropped(length) == 0

\* finish_pipelined_replies: bytes past the replies are early payload.
EarlyPayload(length) == length - Reply

\* handle_upstream_handshake otherwise
UpstreamHandshake ==
    /\ Handle("upstream")
    /\ stage \in Handshake
    /\ ~HandshakeFails(FALSE)
    /\ offset' = offset + Flushed
    /\ sendq' = [sendq EXCEPT !["upstream"] = @ + Flushed]
    /\ LET length == IF Readable THEN response + Received ELSE response
           done == Readable /\ length >= Reply
       IN  /\ response' = IF done THEN 0 ELSE length
           /\ unread' = [unread EXCEPT !["upstream"] = @ - (IF Readable THEN Received ELSE 0)]
           /\ stage' = IF done THEN "relay" ELSE StageAfterFlush
           /\ pipe' = IF done
                      THEN [pipe EXCEPT !["upstream"].queued = EarlyPayload(length)]
                      ELSE pipe
    /\ UpdateEvents
    /\ UNCHANGED <<accepted, ending, why>>

-----------------------------------------------------------------------------
(* handle_splice_relay *)

RoomIn(p) == Capacity - p.queued

\* splice_socket_to_pipe fails on a reset socket with nothing left to read.
ReadFails(s) ==
    /\ "in" \in ready[s]
    /\ s \in err \ fin
    /\ unread[s] = 0
    /\ ~pipe[s].eof /\ RoomIn(pipe[s]) > 0

\* The amounts one splice may move into the pipe.
Amounts(s) ==
    IF "in" \in ready[s] /\ ~pipe[s].eof /\ unread[s] > 0 /\ RoomIn(pipe[s]) > 0
    THEN 1..Least(unread[s], RoomIn(pipe[s]))
    ELSE {0}

\* Mutant: a splice of zero bytes is taken for one that would block.
PipeAfterReadNoEof(s, moved) ==
    LET p == pipe[s]
    IN  IF "in" \notin ready[s] \/ p.eof THEN p
        ELSE IF moved > 0
        THEN [p EXCEPT !.queued = @ + moved,
                       !.paused = @ \/ (moved = Capacity /\ unread[s] > moved)]
        ELSE IF RoomIn(p) = 0 THEN [p EXCEPT !.paused = @ \/ unread[s] > 0]
        ELSE p

\* splice_socket_to_pipe: a full pipe answers EAGAIN, and pauses input when the
\* socket has unread bytes; an ended stream with room in the pipe is its end.
PipeAfterRead(s, moved) ==
    LET p == pipe[s]
    IN  IF "in" \notin ready[s] \/ p.eof THEN p
        ELSE IF moved > 0
        THEN [p EXCEPT !.queued = @ + moved,
                       !.paused = @ \/ (moved = Capacity /\ unread[s] > moved)]
        ELSE IF RoomIn(p) = 0 THEN [p EXCEPT !.paused = @ \/ unread[s] > 0]
        ELSE [p EXCEPT !.eof = @ \/ (unread[s] = 0 /\ s \in fin)]

\* What splice_pipe_to_socket writes of a pipe whose data goes to side s.
Writable(p, s) == Least(p.queued, SendBuf - sendq[s])

\* splice_pipe_to_socket, then shutdown_splice_target
PipeAfterWrite(p, n) ==
    [p EXCEPT !.queued = @ - n, !.paused = @ /\ n = 0,
              !.shut = @ \/ (p.eof /\ p.queued = n)]

\* splice_pipe_complete, of both pipes
RelayComplete(pipes) ==
    \A s \in Sides : pipes[s].eof /\ pipes[s].queued = 0 /\ pipes[s].shut

\* The handler up to flush_relay_pipes, then close_connection when both streams
\* have ended.  A socket that was reset cannot be written.
SpliceRelay(s, moved) ==
    LET read == [pipe EXCEPT ![s] = PipeAfterRead(s, moved)]
        n == [d \in Sides |-> Writable(read[d], Other(d))]
        done == [d \in Sides |-> PipeAfterWrite(read[d], n[d])]
        unwritable == {d \in Sides : read[d].queued > 0 /\ Other(d) \in err}
    IN  /\ Handle(s)
        /\ stage = "relay"
        /\ "err" \notin ready[s] /\ ~ReadFails(s)
        /\ moved \in Amounts(s)
        /\ unread' = [unread EXCEPT ![s] = @ - moved]
        /\ UNCHANGED <<offset, response>>
        /\ IF unwritable # {}
           THEN /\ ResetConnection(Other(IF "client" \in unwritable THEN "client" ELSE "upstream"))
                /\ UNCHANGED <<pipe, sendq, accepted>>
           ELSE /\ pipe' = done
                /\ sendq' = [d \in Sides |-> sendq[d] + n[Other(d)]]
                /\ accepted' = [d \in Sides |-> accepted[d] + n[Other(d)]]
                /\ IF RelayComplete(done)
                   THEN CloseConnection("complete")
                   ELSE /\ UNCHANGED <<stage, why>>
                        /\ ending' = [d \in Sides |-> IF done[Other(d)].shut THEN "fin"
                                                      ELSE ending[d]]
                        /\ UpdateEvents

\* An error event, or a failed read, resets the other side.
SpliceRelayFails(s) ==
    /\ Handle(s)
    /\ stage = "relay"
    /\ "err" \in ready[s] \/ ReadFails(s)
    /\ UNCHANGED <<unread, sendq>>
    /\ ResetConnection(s)
    /\ Keep

-----------------------------------------------------------------------------
\* expire_tcp_connections and close_all_active run between two batches.
Between == stage # "closed" /\ \A s \in Sides : ready[s] = {}

ConnectTimeout ==
    /\ Between /\ stage \in Handshake
    /\ UNCHANGED <<ready, unread, sendq, sent, fin, err>>
    /\ ResetConnection("upstream")
    /\ Keep

IdleTimeout ==
    /\ Between /\ stage = "relay"
    /\ UNCHANGED <<ready, unread, sendq, sent, fin, err>>
    /\ CloseConnection("idle")
    /\ Keep

Stop ==
    /\ Between
    /\ UNCHANGED <<ready, unread, sendq, sent, fin, err>>
    /\ CloseConnection("stop")
    /\ Keep

Relaying(s) == SpliceRelayFails(s) \/ \E moved \in 0..Capacity : SpliceRelay(s, moved)

Shaking == HandleClientEvent \/ UpstreamHandshake
               \/ \E refused \in BOOLEAN : UpstreamHandshakeFails(refused)

Worker == EpollWait \/ Shaking \/ \E s \in Sides : Ignore(s) \/ Relaying(s)

Peer(s) == PeerSend(s) \/ PeerFin(s) \/ PeerRead(s) \/ PeerReset(s)

Next == Worker \/ ConnectTimeout \/ IdleTimeout \/ Stop \/ \E s \in Sides : Peer(s)

Spec == Init /\ [][Next]_vars
-----------------------------------------------------------------------------
(* Properties. *)

\* What the side has sent for the other side, the upstream's replies aside.
Payload(s) == IF s = "upstream" THEN sent[s] - Reply ELSE sent[s]

\* Everything a side sent is in exactly one place until the connection is
\* closed: unread, in the response buffer, in the pipe, or written to the other
\* side's socket, none of which holds more than it can (TypeOK).  Early payload
\* behind the CONNECT reply is part of it.
NothingLost ==
    /\ TypeOK
    /\ stage # "closed" =>
        \A s \in Sides :
            sent[s] = unread[s] + pipe[s].queued + accepted[Other(s)]
                        + (IF s = "client" THEN 0 ELSE IF stage = "relay" THEN Reply
                           ELSE response)

\* A side that reads an orderly end of stream got the other side's whole stream:
\* a failure is passed on as a reset, never as a FIN that looks like the end.
\* (Idle timeouts and the bridge's shutdown do end streams with a FIN, and a
\* side that failed or hung up itself is only closed.)
NoSilentTruncation ==
    \A s \in Sides :
        ending[s] = "fin" =>
            \/ why \in {s, "gone", "idle", "stop"}
            \/ Other(s) \in fin /\ accepted[s] = Payload(Other(s))

\* A relaying connection is never forgotten by epoll: each direction that is not
\* finished waits for its source to be readable or its target to be writable.
NeverForgotten ==
    stage = "relay" =>
        \A s \in Sides :
            pipe[s].shut \/ "in" \in events[s] \/ "out" \in events[Other(s)]

\* A side's end of stream reaches the other side although that side may go on
\* sending for ever, provided the other side keeps reading.
HalfCloseForwarded ==
    \A s \in Sides :
        stage = "relay" /\ s \in fin ~> pipe[s].shut \/ stage = "closed"

\* The worker's loop runs, and the peers read what they are sent.
FairSpec ==
    /\ Spec
    /\ WF_vars(Worker)
    /\ \A s \in Sides : WF_vars(PeerRead(s))
=============================================================================
