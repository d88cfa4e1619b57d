---------------------------- MODULE TcpRelayProofs ----------------------------
(***************************************************************************)
(* That a proxied TCP connection loses nothing, never passes a failure off *)
(* as an end of stream and is never forgotten by epoll, for every size of  *)
(* the replies, of the pipes and of the sockets' queues.                   *)
(***************************************************************************)
EXTENDS TcpRelay, TLAPS

\* What a side sent and where it is: unread, in its pipe, written, or a reply.
Conserved ==
    stage # "closed" =>
        \A s \in Sides :
            sent[s] = unread[s] + pipe[s].queued + accepted[Other(s)]
                        + (IF s = "client" THEN 0 ELSE IF stage = "relay" THEN Reply
                           ELSE response)

\* Nothing is spliced before the replies are complete.
PipesUnused == stage \in Handshake => \A s \in Sides : pipe[s] = EmptyPipe

\* A pipe between two handlers: its end is the end of all its side sent, it is
\* shut down as soon as it ended and is empty, and it pauses only with data.
SoundPipe(s) ==
    /\ pipe[s].eof => s \in fin /\ unread[s] = 0
    /\ pipe[s].shut <=> pipe[s].eof /\ pipe[s].queued = 0
    /\ pipe[s].paused => pipe[s].queued > 0

PipesSound == stage = "relay" => \A s \in Sides : SoundPipe(s)

\* While the connection lives, only a pipe that was shut down has ended a stream.
EndingsSound ==
    stage # "closed" =>
        \A s \in Sides : ending[s] = "fin" => stage = "relay" /\ pipe[Other(s)].shut

\* The masks are the ones client_events and upstream_events compute.
MasksCurrent ==
    stage # "closed" => events = [s \in Sides |-> Interest(stage, pipe, s)]

\* The inductive invariant.
IInv ==
    /\ TypeOK
    /\ Conserved
    /\ PipesUnused
    /\ PipesSound
    /\ EndingsSound
    /\ MasksCurrent
    /\ NoSilentTruncation

-----------------------------------------------------------------------------
(* The pieces. *)

\* The two sides.
LEMMA SidesFacts ==
    /\ \A s \in Sides : Other(s) \in Sides /\ Other(Other(s)) = s /\ Other(s) # s
    /\ "client" \in Sides /\ "upstream" \in Sides
    /\ Other("client") = "upstream" /\ Other("upstream") = "client"
    /\ \A s \in Sides : s = "client" \/ s = "upstream"
BY DEF Sides, Other

\* What is assumed of the constants.
LEMMA Sizes ==
    /\ Request \in Nat \ {0} /\ Reply \in Nat \ {0} /\ ResponseCap \in Nat \ {0}
    /\ Capacity \in Nat \ {0} /\ RecvBuf \in Nat \ {0} /\ SendBuf \in Nat \ {0}
    /\ Reply <= ResponseCap /\ ResponseCap - Reply <= Capacity
BY RelayAssumption

Pipes == [queued : 0..Capacity, eof : BOOLEAN, paused : BOOLEAN, shut : BOOLEAN]

\* What the type invariant says of the numbers of one side.
LEMMA Amount ==
    ASSUME TypeOK, NEW s \in Sides
    PROVE  /\ pipe[s] \in Pipes /\ pipe[s].queued \in Nat /\ pipe[s].queued <= Capacity
           /\ unread[s] \in Nat /\ unread[s] <= RecvBuf
           /\ sendq[s] \in Nat /\ sendq[s] <= SendBuf
           /\ sent[s] \in Nat /\ accepted[s] \in Nat
           /\ response \in Nat /\ response <= ResponseCap
           /\ offset \in Nat /\ offset <= Request
<1>1. pipe[s] \in Pipes
  BY Zenon DEF TypeOK, Pipes
<1>2. pipe[s].queued \in 0..Capacity
  BY <1>1 DEF Pipes
<1>3. /\ unread[s] \in 0..RecvBuf /\ sendq[s] \in 0..SendBuf
      /\ sent[s] \in Nat /\ accepted[s] \in Nat
      /\ response \in 0..ResponseCap /\ offset \in 0..Request
  BY Zenon DEF TypeOK
<1>4. QED
  BY <1>1, <1>2, <1>3, Sizes

\* An epoll mask is a set of events.
LEMMA InterestTyped ==
    ASSUME NEW st, NEW pipes, NEW s \in Sides
    PROVE  Interest(st, pipes, s) \subseteq Mask
<1>1. RelaySideEvents(WantsInput(pipes[s]), pipes[Other(s)].queued > 0) \subseteq Mask
  BY Zenon DEF RelaySideEvents, Mask
<1>2. /\ {"err", "hup"} \subseteq Mask
      /\ {"err", "hup", "rdhup", "in"} \subseteq Mask
      /\ {"err", "hup", "rdhup", "out"} \subseteq Mask
  BY Zenon DEF Mask
<1>3. QED
  BY <1>1, <1>2 DEF Interest

\* A connection that was closed keeps the invariant when it keeps its types and
\* its streams were not cut short.
LEMMA ClosedInv ==
    ASSUME stage' = "closed", TypeOK', NoSilentTruncation'
    PROVE  IInv'
BY DEF IInv, Conserved, PipesUnused, PipesSound, EndingsSound, MasksCurrent, Handshake

\* reset_connection resets the side that did not fail.
LEMMA ResetIsSafe ==
    ASSUME TypeOK, NEW f \in Sides, ResetConnection(f), Keep,
           unread' \in [Sides -> 0..RecvBuf], ready' \in [Sides -> SUBSET Mask],
           UNCHANGED <<sendq, sent, fin, err>>
    PROVE  IInv'
<1>1. ending' \in [Sides -> {"open", "fin", "rst"}]
  <2>1. \A s \in Sides : Closed(s, unread') \in {"open", "fin", "rst"}
    BY Zenon DEF TypeOK, Closed
  <2>2. QED
    BY <2>1 DEF ResetConnection
<1>2. events' \in [Sides -> SUBSET Mask]
  BY DEF ResetConnection, Close
<1>3. TypeOK'
  BY <1>1, <1>2, Zenon DEF TypeOK, ResetConnection, Close, Keep
<1>4. NoSilentTruncation'
  BY DEF NoSilentTruncation, ResetConnection, Close
<1>5. QED
  BY <1>3, <1>4, ClosedInv DEF ResetConnection, Close

\* close_connection is honest when the reason says that streams may be cut.
LEMMA CloseIsSafe ==
    ASSUME TypeOK, NEW reason \in {"gone", "idle", "stop"}, CloseConnection(reason), Keep,
           unread' \in [Sides -> 0..RecvBuf], ready' \in [Sides -> SUBSET Mask],
           UNCHANGED <<sendq, sent, fin, err>>
    PROVE  IInv'
<1>1. ending' \in [Sides -> {"open", "fin", "rst"}]
  <2>1. \A s \in Sides : Closed(s, unread') \in {"open", "fin", "rst"}
    BY Zenon DEF TypeOK, Closed
  <2>2. QED
    BY <2>1 DEF CloseConnection
<1>2. events' \in [Sides -> SUBSET Mask]
  BY DEF CloseConnection, Close
<1>3. TypeOK'
  BY <1>1, <1>2, Zenon DEF TypeOK, CloseConnection, Close, Keep
<1>4. NoSilentTruncation'
  BY DEF NoSilentTruncation, CloseConnection, Close
<1>5. QED
  BY <1>3, <1>4, ClosedInv DEF CloseConnection, Close

-----------------------------------------------------------------------------
(* The initial state. *)

\* The connection before any byte.
LEMMA InvInit == Init => IInv
<1> SUFFICES ASSUME Init PROVE IInv
  OBVIOUS
<1>1. /\ \/ stage = "connecting" /\ offset = 0
         \/ /\ offset = Least(Request, SendBuf)
            /\ stage = IF offset = Request THEN "reply_read" ELSE "request_write"
      /\ response = 0
      /\ pipe = [s \in Sides |-> EmptyPipe]
      /\ sendq = [s \in Sides |-> IF s = "upstream" THEN offset ELSE 0]
      /\ unread = [s \in Sides |-> 0] /\ sent = [s \in Sides |-> 0]
      /\ accepted = [s \in Sides |-> 0]
  BY Zenon DEF Init
<1>2. stage \in Handshake /\ offset \in 0..Request /\ offset \in 0..SendBuf
  BY <1>1, Sizes DEF Handshake, Least
<1>3. events \in [Sides -> SUBSET Mask]
  BY InterestTyped, Zenon DEF Init
<1>4. EmptyPipe \in [queued : 0..Capacity, eof : BOOLEAN, paused : BOOLEAN, shut : BOOLEAN]
  BY Sizes DEF EmptyPipe
<1>5. /\ sendq \in [Sides -> 0..SendBuf] /\ unread \in [Sides -> 0..RecvBuf]
      /\ response \in 0..ResponseCap
  BY <1>1, <1>2, Sizes
<1>6. /\ ready \in [Sides -> SUBSET Mask]
      /\ sent \in [Sides -> Nat] /\ accepted \in [Sides -> Nat]
      /\ ending \in [Sides -> {"open", "fin", "rst"}]
      /\ fin \subseteq Sides /\ err \subseteq Sides /\ why = ""
  BY Zenon DEF Init
<1>7. TypeOK
  BY <1>1, <1>2, <1>3, <1>4, <1>5, <1>6, Zenon DEF TypeOK
<1>8. Conserved
  BY <1>1, <1>2, SidesFacts DEF Conserved, EmptyPipe, Handshake
<1>9. QED
  BY <1>1, <1>2, <1>7, <1>8, SidesFacts, Zenon DEF IInv, Init, PipesUnused, PipesSound, EndingsSound,
     MasksCurrent, NoSilentTruncation, Handshake


-----------------------------------------------------------------------------
(* The peers and epoll. *)

\* A peer sends: its bytes are unread at our end.
LEMMA PeerSendInv == ASSUME IInv, NEW s \in Sides, PeerSend(s) PROVE IInv'
<1> USE DEF IInv, bridge
<1>1. TypeOK'
  <2>1. unread[s] + 1 \in 0..RecvBuf /\ sent[s] + 1 \in Nat
    BY Amount, Sizes DEF PeerSend
  <2>2. QED
    BY <2>1, Zenon DEF TypeOK, PeerSend
<1>2. sent' = [sent EXCEPT ![s] = @ + 1] /\ unread' = [unread EXCEPT ![s] = @ + 1]
  BY DEF PeerSend
<1>3. Conserved'
  <2> SUFFICES ASSUME NEW d \in Sides
               PROVE  sent'[d] = unread'[d] + pipe[d].queued + accepted[Other(d)]
                        + (IF d = "client" THEN 0 ELSE IF stage = "relay" THEN Reply
                           ELSE response)
    BY DEF Conserved, PeerSend
  <2>1. sent[d] = unread[d] + pipe[d].queued + accepted[Other(d)]
                    + (IF d = "client" THEN 0 ELSE IF stage = "relay" THEN Reply
                       ELSE response)
    BY DEF Conserved, PeerSend
  <2>2. /\ unread[d] \in Nat /\ sent[d] \in Nat /\ pipe[d].queued \in Nat
        /\ accepted[Other(d)] \in Nat /\ response \in Nat /\ Reply \in Nat
    BY Amount, SidesFacts, Sizes
  <2>3. CASE d = s
    <3>1. sent'[d] = sent[d] + 1 /\ unread'[d] = unread[d] + 1
      BY <1>2, <2>3, Zenon DEF TypeOK
    <3>2. QED
      BY <2>1, <2>2, <3>1
  <2>4. CASE d # s
    BY <1>2, <2>1, <2>4, Zenon DEF TypeOK
  <2>5. QED
    BY <2>3, <2>4
<1>4. PipesSound'
  BY <1>2, ZenonT(30) DEF PipesSound, SoundPipe, PeerSend, Alive, TypeOK
<1>5. NoSilentTruncation'
  <2> SUFFICES ASSUME NEW d \in Sides, ending[d] = "fin", why \notin {d, "gone", "idle", "stop"}
               PROVE  Other(d) \in fin /\ accepted[d] = Payload(Other(d))'
    BY DEF NoSilentTruncation, PeerSend
  <2>1. Other(d) \in fin /\ accepted[d] = Payload(Other(d))
    BY DEF NoSilentTruncation
  <2>2. Other(d) # s
    BY <2>1 DEF PeerSend, Alive
  <2>3. sent'[Other(d)] = sent[Other(d)]
    BY <1>2, <2>2, SidesFacts, Zenon DEF TypeOK
  <2>4. QED
    BY <2>1, <2>3 DEF Payload
<1>6. QED
  BY <1>1, <1>3, <1>4, <1>5 DEF PipesUnused, EndingsSound, MasksCurrent, PeerSend

\* A peer ends its stream.
LEMMA PeerFinInv == ASSUME IInv, NEW s \in Sides, PeerFin(s) PROVE IInv'
<1> USE DEF IInv, bridge
<1>1. TypeOK'
  BY Zenon DEF TypeOK, PeerFin
<1>2. PipesSound'
  BY DEF PipesSound, SoundPipe, PeerFin
<1>3. NoSilentTruncation'
  BY DEF NoSilentTruncation, Payload, PeerFin
<1>4. QED
  BY <1>1, <1>2, <1>3 DEF Conserved, PipesUnused, EndingsSound, MasksCurrent, PeerFin

\* A peer's reads, resets and the wait for events leave the streams alone.
LEMMA QuietInv ==
    ASSUME IInv, UNCHANGED <<bridge, unread, sent, fin>>,
           ready' \in [Sides -> SUBSET Mask], sendq' \in [Sides -> 0..SendBuf],
           err' \subseteq Sides
    PROVE  IInv'
<1> USE DEF IInv, bridge
<1>1. TypeOK'
  BY Zenon DEF TypeOK
<1>2. PipesSound'
  BY DEF PipesSound, SoundPipe
<1>3. NoSilentTruncation'
  BY DEF NoSilentTruncation, Payload
<1>4. QED
  BY <1>1, <1>2, <1>3 DEF Conserved, PipesUnused, EndingsSound, MasksCurrent

\* The steps of the peers.
LEMMA PeerInv == ASSUME IInv, NEW s \in Sides, Peer(s) PROVE IInv'
<1>1. CASE PeerSend(s)
  BY <1>1, PeerSendInv
<1>2. CASE PeerFin(s)
  BY <1>2, PeerFinInv
<1>3. CASE PeerRead(s)
  <2>1. sendq' \in [Sides -> 0..SendBuf]
    <3>1. sendq[s] - 1 \in 0..SendBuf
      BY <1>3, Amount, Sizes DEF PeerRead, IInv
    <3>2. QED
      BY <1>3, <3>1, Zenon DEF PeerRead, IInv, TypeOK
  <2>2. QED
    BY <1>3, <2>1, QuietInv, Zenon DEF PeerRead, IInv, TypeOK
<1>4. CASE PeerReset(s)
  BY <1>4, QuietInv, Zenon DEF PeerReset, IInv, TypeOK
<1>5. QED
  BY <1>1, <1>2, <1>3, <1>4 DEF Peer

\* epoll_wait reports what is registered and ready.
LEMMA EpollWaitInv == ASSUME IInv, EpollWait PROVE IInv'
<1>1. \A s \in Sides : Reported(s) \subseteq Mask
  BY Zenon DEF Reported, IInv, TypeOK
<1>2. ready' \in [Sides -> SUBSET Mask]
  BY <1>1 DEF EpollWait
<1>3. QED
  BY <1>2, QuietInv, Zenon DEF EpollWait, IInv, TypeOK

\* Taking an event off the batch changes nothing else.
LEMMA HandleTyped ==
    ASSUME TypeOK, NEW s \in Sides, Handle(s)
    PROVE  ready' \in [Sides -> SUBSET Mask] /\ UNCHANGED <<sent, fin, err>>
BY Zenon DEF TypeOK, Handle


-----------------------------------------------------------------------------
(* The handshake. *)

\* Events of the client during the handshake.
LEMMA HandleClientEventInv == ASSUME IInv, HandleClientEvent PROVE IInv'
<1>1. /\ ready' \in [Sides -> SUBSET Mask] /\ UNCHANGED <<sendq, sent, fin, err>>
      /\ unread' \in [Sides -> 0..RecvBuf]
  BY HandleTyped, SidesFacts, Zenon DEF HandleClientEvent, IInv, TypeOK
<1>2. CASE ResetConnection("client")
  BY <1>1, <1>2, ResetIsSafe, SidesFacts DEF HandleClientEvent, IInv
<1>3. CASE CloseConnection("gone")
  BY <1>1, <1>3, CloseIsSafe DEF HandleClientEvent, IInv
<1>4. QED
  BY <1>2, <1>3 DEF HandleClientEvent

\* What one recv takes is there, and fits the response buffer.
LEMMA ReceivedBounds ==
    ASSUME TypeOK
    PROVE  /\ Received \in Nat
           /\ Received <= unread["upstream"]
           /\ response + Received <= ResponseCap
BY Amount, SidesFacts, Sizes DEF Received, Least

\* What is flushed is still to be written, and fits the send queue.
LEMMA FlushedBounds ==
    ASSUME TypeOK
    PROVE  /\ Flushed \in Nat
           /\ offset + Flushed <= Request
           /\ sendq["upstream"] + Flushed <= SendBuf
BY Amount, SidesFacts, Sizes DEF Flushed, Least

\* A handshake that fails closes the connection.
LEMMA UpstreamHandshakeFailsInv ==
    ASSUME IInv, NEW refused, UpstreamHandshakeFails(refused) PROVE IInv'
<1>1. ready' \in [Sides -> SUBSET Mask] /\ UNCHANGED <<sendq, sent, fin, err>>
  BY HandleTyped, SidesFacts DEF UpstreamHandshakeFails, IInv
<1>2. unread' \in [Sides -> 0..RecvBuf]
  <2>1. unread["upstream"] - Received \in 0..RecvBuf
    BY Amount, ReceivedBounds, SidesFacts, Sizes DEF IInv
  <2>2. QED
    BY <2>1, Zenon DEF UpstreamHandshakeFails, IInv, TypeOK
<1>3. QED
  BY <1>1, <1>2, ResetIsSafe, SidesFacts DEF UpstreamHandshakeFails, IInv

\* The replies arrive: what came with them is the first payload of the pipe.
LEMMA UpstreamHandshakeInv == ASSUME IInv, UpstreamHandshake PROVE IInv'
<1> DEFINE got == IF Readable THEN Received ELSE 0
           length == IF Readable THEN response + Received ELSE response
           done == Readable /\ length >= Reply
<1>1. /\ offset' = offset + Flushed
      /\ sendq' = [sendq EXCEPT !["upstream"] = @ + Flushed]
      /\ response' = IF done THEN 0 ELSE length
      /\ unread' = [unread EXCEPT !["upstream"] = @ - got]
      /\ stage' = IF done THEN "relay" ELSE StageAfterFlush
      /\ pipe' = IF done THEN [pipe EXCEPT !["upstream"].queued = length - Reply] ELSE pipe
      /\ stage \in Handshake
      /\ UNCHANGED <<accepted, ending, why, sent, fin, err>>
  BY Zenon DEF UpstreamHandshake, EarlyPayload, Handle
<1>2. /\ length = response + got
      /\ got \in Nat /\ got <= unread["upstream"] /\ length <= ResponseCap
      /\ length \in Nat /\ response \in Nat /\ Reply \in Nat \ {0}
      /\ unread["upstream"] \in 0..RecvBuf /\ unread["client"] \in 0..RecvBuf
  BY Amount, ReceivedBounds, SidesFacts, Sizes DEF IInv
<1> HIDE DEF got, length, done
<1>3. \A s \in Sides : pipe[s] = EmptyPipe
  BY <1>1 DEF IInv, PipesUnused
<1>4. pipe'["client"] = EmptyPipe
  BY <1>1, <1>3, SidesFacts, Zenon DEF IInv, TypeOK
<1>5. pipe'["upstream"] = IF done THEN [EmptyPipe EXCEPT !.queued = length - Reply]
                                  ELSE EmptyPipe
  BY <1>1, <1>3, SidesFacts, Zenon DEF IInv, TypeOK
<1>6. stage' \in Handshake \cup {"relay"} /\ (stage' = "relay" <=> done)
  BY <1>1 DEF StageAfterFlush, Handshake
<1>7. /\ pipe' \in [Sides -> [queued : 0..Capacity, eof : BOOLEAN, paused : BOOLEAN,
                             shut : BOOLEAN]]
  <2>1. CASE done
    <3>1. length - Reply \in 0..Capacity
      BY <1>2, <2>1, Sizes DEF done
    <3>2. QED
      BY <1>1, <2>1, <3>1, ZenonT(30) DEF IInv, TypeOK
  <2>2. CASE ~done
    BY <1>1, <2>2, Zenon DEF IInv, TypeOK
  <2>3. QED
    BY <2>1, <2>2
<1>8. events' = [s \in Sides |-> Interest(stage', pipe', s)]
  BY DEF UpstreamHandshake, UpdateEvents
<1>9. TypeOK'
  <2>1. events' \in [Sides -> SUBSET Mask]
    BY <1>8, InterestTyped
  <2>2. ready' \in [Sides -> SUBSET Mask]
    BY HandleTyped, SidesFacts DEF UpstreamHandshake, IInv
  <2>3. offset' \in 0..Request /\ sendq' \in [Sides -> 0..SendBuf]
    <3>1. offset + Flushed \in 0..Request /\ sendq["upstream"] + Flushed \in 0..SendBuf
      BY Amount, FlushedBounds, SidesFacts, Sizes DEF IInv
    <3>2. QED
      BY <1>1, <3>1, Zenon DEF IInv, TypeOK
  <2>4. unread' \in [Sides -> 0..RecvBuf] /\ response' \in 0..ResponseCap
    <3>1. unread["upstream"] - got \in 0..RecvBuf /\ length \in 0..ResponseCap
      BY <1>2, Sizes
    <3>2. unread' \in [Sides -> 0..RecvBuf]
      BY <1>1, <3>1, Zenon DEF IInv, TypeOK
    <3>3. response' \in 0..ResponseCap
      BY <1>1, <3>1, Sizes
    <3>4. QED
      BY <3>2, <3>3
  <2>5. QED
    BY <1>1, <1>6, <1>7, <2>1, <2>2, <2>3, <2>4, Zenon DEF IInv, TypeOK
<1>10. Conserved'
  <2>1. /\ sent["client"] = unread["client"] + accepted["upstream"]
        /\ sent["upstream"] = unread["upstream"] + accepted["client"] + response
    <3>1. \A s \in Sides : pipe[s].queued = 0
      BY <1>3 DEF EmptyPipe
    <3>2. stage # "closed" /\ stage # "relay"
      BY <1>1 DEF Handshake
    <3>3. accepted["client"] \in Nat /\ accepted["upstream"] \in Nat
      BY SidesFacts, Zenon DEF IInv, TypeOK
    <3>4. QED
      BY <1>2, <3>1, <3>2, <3>3, SidesFacts DEF IInv, Conserved
  <2>2. unread'["upstream"] = unread["upstream"] - got /\ unread'["client"] = unread["client"]
    BY <1>1, SidesFacts, Zenon DEF IInv, TypeOK
  <2>3. accepted["client"] \in Nat /\ accepted["upstream"] \in Nat
    BY SidesFacts, Zenon DEF IInv, TypeOK
  <2>4. sent'["client"] = unread'["client"] + pipe'["client"].queued + accepted'["upstream"]
    BY <1>1, <1>2, <1>4, <2>1, <2>2, <2>3 DEF EmptyPipe
  <2>5. sent'["upstream"] = unread'["upstream"] + pipe'["upstream"].queued
            + accepted'["client"] + (IF stage' = "relay" THEN Reply ELSE response')
    <3>1. CASE done
      <4>1. pipe'["upstream"].queued = length - Reply
        BY <1>5, <3>1 DEF EmptyPipe
      <4>2. QED
        BY <1>1, <1>2, <1>6, <2>1, <2>2, <2>3, <3>1, <4>1
    <3>2. CASE ~done
      <4>1. pipe'["upstream"].queued = 0 /\ response' = length
        BY <1>1, <1>5, <3>2 DEF EmptyPipe
      <4>2. QED
        BY <1>1, <1>2, <1>6, <2>1, <2>2, <2>3, <3>2, <4>1
    <3>3. QED
      BY <3>1, <3>2
  <2>6. pipe'["client"].queued = 0 /\ accepted' = accepted
    BY <1>1, <1>4 DEF EmptyPipe
  <2>7. QED
    BY <1>2, <2>2, <2>3, <2>4, <2>5, <2>6, SidesFacts DEF Conserved
<1>11. PipesUnused'
  BY <1>1, <1>3, <1>6 DEF PipesUnused, Handshake
<1>12. PipesSound'
  BY <1>4, <1>5, SidesFacts DEF PipesSound, SoundPipe, EmptyPipe
<1>13. EndingsSound' /\ NoSilentTruncation'
  <2>1. \A s \in Sides : ending[s] # "fin"
    BY <1>1 DEF IInv, EndingsSound, Handshake
  <2>2. QED
    BY <1>1, <2>1 DEF EndingsSound, NoSilentTruncation
<1>14. MasksCurrent'
  BY <1>8 DEF MasksCurrent
<1>15. QED
  BY <1>9, <1>10, <1>11, <1>12, <1>13, <1>14 DEF IInv


-----------------------------------------------------------------------------
(* The relay: what one read and one write make of a pipe. *)

\* A splice moves no more than is unread and fits into the pipe.
LEMMA AmountsBounds ==
    ASSUME TypeOK, NEW s \in Sides, NEW moved \in Amounts(s)
    PROVE  /\ moved \in Nat
           /\ moved <= unread[s]
           /\ pipe[s].queued + moved <= Capacity
           /\ moved > 0 => "in" \in ready[s] /\ ~pipe[s].eof
<1>1. /\ unread[s] \in Nat /\ pipe[s].queued \in Nat /\ Capacity \in Nat
      /\ pipe[s].queued <= Capacity
  BY Amount, Sizes
<1>2. CASE moved = 0
  BY <1>1, <1>2
<1>3. CASE moved # 0
  <2>1. /\ "in" \in ready[s] /\ ~pipe[s].eof
        /\ moved \in 1..Least(unread[s], RoomIn(pipe[s]))
    BY <1>3 DEF Amounts
  <2>2. QED
    BY <1>1, <2>1 DEF Least, RoomIn
<1>4. QED
  BY <1>2, <1>3

\* What reading from the source does to a pipe.
LEMMA ReadSound ==
    ASSUME TypeOK, NEW s \in Sides, SoundPipe(s), NEW moved \in Amounts(s),
           NEW p, p = PipeAfterRead(s, moved)
    PROVE  /\ p \in Pipes
           /\ p.queued = pipe[s].queued + moved
           /\ p.eof => s \in fin /\ unread[s] = 0 /\ moved = 0
           /\ p.paused => p.queued > 0
           /\ p.shut => p.eof /\ p.queued = 0
           /\ p.shut = pipe[s].shut
<1>1. /\ moved \in Nat /\ moved <= unread[s] /\ pipe[s].queued + moved <= Capacity
      /\ moved > 0 => "in" \in ready[s] /\ ~pipe[s].eof
  BY AmountsBounds
<1>2. /\ pipe[s] \in Pipes /\ unread[s] \in Nat /\ Capacity \in Nat \ {0}
      /\ pipe[s].queued \in Nat /\ pipe[s].queued <= Capacity
  BY Amount, Sizes
<1>3. CASE "in" \notin ready[s] \/ pipe[s].eof
  <2>1. p = pipe[s]
    BY <1>3 DEF PipeAfterRead
  <2>2. moved = 0
    BY <1>1, <1>3
  <2>3. QED
    BY <1>2, <2>1, <2>2 DEF SoundPipe
<1>4. CASE ~("in" \notin ready[s] \/ pipe[s].eof) /\ moved > 0
  <2>1. p = [pipe[s] EXCEPT !.queued = @ + moved,
                            !.paused = @ \/ (moved = Capacity /\ unread[s] > moved)]
    BY <1>4 DEF PipeAfterRead
  <2>2. /\ p.queued = pipe[s].queued + moved /\ p.eof = pipe[s].eof
        /\ p.shut = pipe[s].shut /\ p \in Pipes
    <3>1. pipe[s].queued + moved \in 0..Capacity
      BY <1>1, <1>2
    <3>2. QED
      BY <1>2, <2>1, <3>1, Zenon DEF Pipes
  <2>3. QED
    BY <1>1, <1>2, <1>4, <2>2 DEF SoundPipe
<1>5. CASE ~("in" \notin ready[s] \/ pipe[s].eof) /\ ~(moved > 0) /\ RoomIn(pipe[s]) = 0
  <2>1. moved = 0 /\ pipe[s].queued = Capacity
    BY <1>1, <1>2, <1>5 DEF RoomIn
  <2>2. p = [pipe[s] EXCEPT !.paused = @ \/ unread[s] > 0]
    BY <1>5, <2>1 DEF PipeAfterRead
  <2>3. /\ p.queued = pipe[s].queued /\ p.eof = pipe[s].eof
        /\ p.shut = pipe[s].shut /\ p \in Pipes
    BY <1>2, <2>2, Zenon DEF Pipes
  <2>4. QED
    BY <1>2, <1>5, <2>1, <2>3 DEF SoundPipe
<1>6. CASE ~("in" \notin ready[s] \/ pipe[s].eof) /\ ~(moved > 0) /\ RoomIn(pipe[s]) # 0
  <2>1. moved = 0
    BY <1>1, <1>6
  <2>2. p = [pipe[s] EXCEPT !.eof = @ \/ (unread[s] = 0 /\ s \in fin)]
    BY <1>6, <2>1 DEF PipeAfterRead
  <2>3. /\ p.queued = pipe[s].queued /\ p.paused = pipe[s].paused
        /\ p.shut = pipe[s].shut /\ p \in Pipes
        /\ p.eof <=> pipe[s].eof \/ (unread[s] = 0 /\ s \in fin)
    BY <1>2, <2>2, Zenon DEF Pipes
  <2>4. QED
    BY <1>2, <2>1, <2>3 DEF SoundPipe
<1>7. QED
  BY <1>3, <1>4, <1>5, <1>6

\* What writing to the target does to a pipe.
LEMMA WriteSound ==
    ASSUME NEW p \in Pipes, NEW n \in Nat, n <= p.queued, NEW q, q = PipeAfterWrite(p, n),
           p.paused => p.queued > 0, p.shut => p.eof /\ p.queued = 0
    PROVE  /\ q \in Pipes
           /\ q.queued = p.queued - n
           /\ q.eof = p.eof
           /\ q.shut <=> q.eof /\ q.queued = 0
           /\ p.shut => q.shut
           /\ q.paused => q.queued > 0
<1>1. p.queued \in Nat /\ p.queued <= Capacity /\ Capacity \in Nat
  BY Sizes DEF Pipes
<1>2. /\ q.queued = p.queued - n /\ q.eof = p.eof
      /\ q.shut <=> p.shut \/ (p.eof /\ p.queued = n)
      /\ q.paused <=> p.paused /\ n = 0
      /\ q \in Pipes
  <2>1. p.queued - n \in 0..Capacity
    BY <1>1
  <2>2. QED
    BY <2>1, Zenon DEF PipeAfterWrite, Pipes
<1>3. QED
  BY <1>1, <1>2


\* flush_relay_pipes writes no more than a pipe holds and a send queue takes.
LEMMA WritableBounds ==
    ASSUME TypeOK, NEW p \in Pipes, NEW s \in Sides
    PROVE  /\ Writable(p, s) \in Nat
           /\ Writable(p, s) <= p.queued
           /\ sendq[s] + Writable(p, s) <= SendBuf
<1>1. p.queued \in Nat /\ sendq[s] \in Nat /\ SendBuf \in Nat /\ sendq[s] <= SendBuf
  BY Amount, Sizes DEF Pipes
<1>2. QED
  BY <1>1 DEF Writable, Least

\* A failed splice closes the connection.
LEMMA SpliceRelayFailsInv == ASSUME IInv, NEW s \in Sides, SpliceRelayFails(s) PROVE IInv'
<1>1. /\ ready' \in [Sides -> SUBSET Mask] /\ UNCHANGED <<sendq, sent, fin, err>>
      /\ unread' \in [Sides -> 0..RecvBuf]
  BY HandleTyped, Zenon DEF SpliceRelayFails, IInv, TypeOK
<1>2. QED
  BY <1>1, ResetIsSafe DEF SpliceRelayFails, IInv

\* splice_relay: the source is read, the target written, the masks are computed again.
LEMMA SpliceRelayInv ==
    ASSUME IInv, NEW s \in Sides, NEW moved, SpliceRelay(s, moved) PROVE IInv'
<1> DEFINE in(d) == IF d = s THEN moved ELSE 0
           read == [pipe EXCEPT ![s] = PipeAfterRead(s, moved)]
           n == [d \in Sides |-> Writable(read[d], Other(d))]
           done == [d \in Sides |-> PipeAfterWrite(read[d], n[d])]
           unwritable == {d \in Sides : read[d].queued > 0 /\ Other(d) \in err}
<1>1. /\ stage = "relay" /\ moved \in Amounts(s)
      /\ unread' = [unread EXCEPT ![s] = @ - moved]
      /\ UNCHANGED <<offset, response>>
      /\ ready' \in [Sides -> SUBSET Mask] /\ UNCHANGED <<sent, fin, err>>
  BY HandleTyped DEF SpliceRelay, IInv
<1>2. /\ moved \in Nat /\ moved <= unread[s]
      /\ \A d \in Sides : unread[d] \in Nat /\ unread'[d] = unread[d] - in(d)
      /\ unread' \in [Sides -> 0..RecvBuf]
  <2>1. moved \in Nat /\ moved <= unread[s] /\ unread[s] - moved \in 0..RecvBuf
    BY <1>1, Amount, AmountsBounds, Sizes DEF IInv
  <2>2. \A d \in Sides : unread[d] \in Nat
    BY Amount DEF IInv
  <2>3. unread'[s] = unread[s] - moved /\ \A d \in Sides : d # s => unread'[d] = unread[d]
    BY <1>1, Zenon DEF IInv, TypeOK
  <2>4. unread' \in [Sides -> 0..RecvBuf]
    BY <1>1, <2>1, Zenon DEF IInv, TypeOK
  <2>5. QED
    BY <2>1, <2>2, <2>3, <2>4
<1>3. \A d \in Sides : SoundPipe(d)
  BY <1>1 DEF IInv, PipesSound
<1>4. \A d \in Sides :
        /\ read[d] \in Pipes
        /\ read[d].queued = pipe[d].queued + in(d)
        /\ read[d].eof => d \in fin /\ unread'[d] = 0
        /\ read[d].paused => read[d].queued > 0
        /\ read[d].shut => read[d].eof /\ read[d].queued = 0
        /\ read[d].shut = pipe[d].shut
  <2> SUFFICES ASSUME NEW d \in Sides
               PROVE  /\ read[d] \in Pipes
                      /\ read[d].queued = pipe[d].queued + in(d)
                      /\ read[d].eof => d \in fin /\ unread'[d] = 0
                      /\ read[d].paused => read[d].queued > 0
                      /\ read[d].shut => read[d].eof /\ read[d].queued = 0
                      /\ read[d].shut = pipe[d].shut
    OBVIOUS
  <2>1. CASE d = s
    <3>1. read[d] = PipeAfterRead(s, moved)
      BY <2>1, Zenon DEF IInv, TypeOK
    <3>2. /\ read[d] \in Pipes /\ read[d].queued = pipe[s].queued + moved
          /\ read[d].eof => s \in fin /\ unread[s] = 0 /\ moved = 0
          /\ read[d].paused => read[d].queued > 0
          /\ read[d].shut => read[d].eof /\ read[d].queued = 0
          /\ read[d].shut = pipe[s].shut
      BY <1>1, <1>3, <3>1, ReadSound DEF IInv
    <3>3. QED
      BY <1>2, <2>1, <3>2
  <2>2. CASE d # s
    <3>1. /\ read[d] = pipe[d] /\ in(d) = 0
      BY <2>2, Zenon DEF IInv, TypeOK
    <3>4. unread'[d] = unread[d]
      BY <1>2, <3>1
    <3>2. pipe[d] \in Pipes /\ pipe[d].queued \in Nat
      BY Amount DEF IInv
    <3>3. QED
      BY <1>3, <3>1, <3>2, <3>4 DEF SoundPipe
  <2>3. QED
    BY <2>1, <2>2
<1> HIDE DEF read
<1>5. \A d \in Sides :
        /\ n[d] \in Nat /\ n[d] <= read[d].queued
        /\ sendq[Other(d)] + n[d] <= SendBuf
  BY Zenon, <1>4, WritableBounds, SidesFacts DEF IInv
<1> HIDE DEF n
<1>6. \A d \in Sides :
        /\ done[d] \in Pipes
        /\ done[d].queued = read[d].queued - n[d]
        /\ done[d].eof => d \in fin /\ unread'[d] = 0
        /\ done[d].shut <=> done[d].eof /\ done[d].queued = 0
        /\ done[d].paused => done[d].queued > 0
        /\ pipe[d].shut => done[d].shut
  <2> SUFFICES ASSUME NEW d \in Sides
               PROVE  /\ done[d] \in Pipes
                      /\ done[d].queued = read[d].queued - n[d]
                      /\ done[d].eof => d \in fin /\ unread'[d] = 0
                      /\ done[d].shut <=> done[d].eof /\ done[d].queued = 0
                      /\ done[d].paused => done[d].queued > 0
                      /\ pipe[d].shut => done[d].shut
    OBVIOUS
  <2>1. done[d] = PipeAfterWrite(read[d], n[d])
    OBVIOUS
  <2>2. /\ done[d] \in Pipes /\ done[d].queued = read[d].queued - n[d]
        /\ done[d].eof = read[d].eof
        /\ done[d].shut <=> done[d].eof /\ done[d].queued = 0
        /\ done[d].paused => done[d].queued > 0
        /\ read[d].shut => done[d].shut
    BY <1>4, <1>5, <2>1, WriteSound
  <2>3. QED
    BY Zenon, <1>4, <2>2
<1>7. done \in [Sides -> Pipes]
  BY <1>6
<1> HIDE DEF done

<1>8. /\ unwritable # {} =>
           /\ ResetConnection(Other(IF "client" \in unwritable THEN "client" ELSE "upstream"))
           /\ UNCHANGED <<pipe, sendq, accepted>>
      /\ unwritable = {} =>
           /\ pipe' = done
           /\ sendq' = [d \in Sides |-> sendq[d] + n[Other(d)]]
           /\ accepted' = [d \in Sides |-> accepted[d] + n[Other(d)]]
           /\ IF RelayComplete(done)
              THEN CloseConnection("complete")
              ELSE /\ UNCHANGED <<stage, why>>
                   /\ ending' = [d \in Sides |-> IF done[Other(d)].shut THEN "fin"
                                                 ELSE ending[d]]
                   /\ UpdateEvents
  BY Zenon DEF SpliceRelay, read, n, done
<1>9. CASE unwritable # {}
  <2>1. PICK f \in Sides : ResetConnection(f)
    BY <1>8, <1>9, SidesFacts
  <2>2. Keep /\ sendq' = sendq
    BY <1>1, <1>8, <1>9 DEF Keep
  <2>3. QED
    BY <1>1, <1>2, <2>1, <2>2, ResetIsSafe DEF IInv
<1>10. CASE unwritable = {}
  <2>1. /\ pipe' = done
        /\ sendq' = [d \in Sides |-> sendq[d] + n[Other(d)]]
        /\ accepted' = [d \in Sides |-> accepted[d] + n[Other(d)]]
    BY <1>8, <1>10
  <2>2. /\ sendq' \in [Sides -> 0..SendBuf] /\ accepted' \in [Sides -> Nat]
    <3>1. \A d \in Sides : /\ n[Other(d)] \in Nat /\ sendq[d] + n[Other(d)] <= SendBuf
                           /\ sendq[d] \in Nat /\ accepted[d] \in Nat /\ SendBuf \in Nat
      BY <1>5, Amount, SidesFacts, Sizes DEF IInv
    <3>2. QED
      BY <2>1, <3>1
  <2>3. pipe' \in [Sides -> [queued : 0..Capacity, eof : BOOLEAN, paused : BOOLEAN,
                             shut : BOOLEAN]]
    BY <1>7, <2>1 DEF Pipes
  \* The bytes are where they were, one place further.
  <2>4. \A d \in Sides :
            sent'[d] = unread'[d] + pipe'[d].queued + accepted'[Other(d)]
                        + (IF d = "client" THEN 0 ELSE Reply)
    <3> SUFFICES ASSUME NEW d \in Sides
                 PROVE  sent'[d] = unread'[d] + pipe'[d].queued + accepted'[Other(d)]
                                     + (IF d = "client" THEN 0 ELSE Reply)
      OBVIOUS
    <3>1. sent[d] = unread[d] + pipe[d].queued + accepted[Other(d)]
                      + (IF d = "client" THEN 0 ELSE Reply)
      BY <1>1 DEF IInv, Conserved
    <3>2. accepted'[Other(d)] = accepted[Other(d)] + n[d]
      BY <2>1, SidesFacts
    <3>3. pipe'[d].queued = pipe[d].queued + in(d) - n[d]
      <4>1. pipe'[d].queued = read[d].queued - n[d]
        BY <1>6, <2>1
      <4>2. read[d].queued = pipe[d].queued + in(d)
        BY <1>4
      <4>3. n[d] \in Nat /\ in(d) \in Nat /\ pipe[d].queued \in Nat
        BY Zenon, <1>2, <1>5, Amount DEF IInv
      <4> HIDE DEF in
      <4>4. QED
        BY <4>1, <4>2, <4>3
    <3>4. /\ unread'[d] = unread[d] - in(d) /\ sent' = sent
          /\ unread[d] \in Nat /\ in(d) \in Nat /\ n[d] \in Nat
      BY <1>1, <1>2, <1>5
    <3>5. /\ pipe[d].queued \in Nat /\ accepted[Other(d)] \in Nat /\ Reply \in Nat
      BY Amount, SidesFacts, Sizes DEF IInv
    <3> HIDE DEF in
    <3>6. QED
      BY <3>1, <3>2, <3>3, <3>4, <3>5
  \* A pipe that was shut down is empty, and its side has ended its stream.
  <2>5. \A d \in Sides : pipe'[Other(d)].shut =>
            Other(d) \in fin' /\ accepted'[d] = Payload(Other(d))'
    <3> SUFFICES ASSUME NEW d \in Sides, NEW o \in Sides, o = Other(d), pipe'[o].shut
                 PROVE  o \in fin' /\ accepted'[d] = Payload(o)'
      BY SidesFacts
    <3>1. Other(o) = d
      BY SidesFacts
    <3>2. pipe'[o].eof /\ pipe'[o].queued = 0
      BY Zenon, <1>6, <2>1
    <3>3. o \in fin /\ unread'[o] = 0 /\ fin' = fin
      BY <1>1, <1>6, <2>1, <3>2
    <3>4. accepted'[d] \in Nat /\ Reply \in Nat
      BY <2>2, Sizes
    <3>5. sent'[o] = accepted'[d] + (IF o = "client" THEN 0 ELSE Reply)
      BY <2>4, <3>1, <3>2, <3>3, <3>4
    <3>6. QED
      BY <3>3, <3>4, <3>5, SidesFacts DEF Payload
  <2>6. CASE RelayComplete(done)
    <3>1. CloseConnection("complete")
      BY <1>8, <1>10, <2>6
    <3>2. TypeOK'
      <4>1. \A d \in Sides : Closed(d, unread') \in {"open", "fin", "rst"}
        BY Zenon DEF IInv, TypeOK, Closed
      <4>2. ending' \in [Sides -> {"open", "fin", "rst"}]
        BY <3>1, <4>1 DEF CloseConnection
      <4>3. events' \in [Sides -> SUBSET Mask] /\ stage' = "closed" /\ why' = "complete"
        BY <3>1 DEF CloseConnection, Close
      <4>4. QED
        BY <1>1, <1>2, <2>2, <2>3, <4>2, <4>3, Zenon DEF IInv, TypeOK
    <3>3. NoSilentTruncation'
      BY <2>1, <2>5, <2>6, SidesFacts DEF NoSilentTruncation, RelayComplete
    <3>4. QED
      BY <3>1, <3>2, <3>3, ClosedInv DEF CloseConnection, Close
  <2>7. CASE ~RelayComplete(done)
    <3>1. /\ stage' = "relay" /\ why' = why
          /\ ending' = [d \in Sides |-> IF done[Other(d)].shut THEN "fin" ELSE ending[d]]
          /\ events' = [d \in Sides |-> Interest(stage', pipe', d)]
      BY <1>1, <1>8, <1>10, <2>7 DEF UpdateEvents
    <3>2. TypeOK'
      <4>1. ending' \in [Sides -> {"open", "fin", "rst"}]
        BY <3>1, Zenon DEF IInv, TypeOK
      <4>2. events' \in [Sides -> SUBSET Mask]
        BY <3>1, InterestTyped
      <4>3. QED
        BY <1>1, <1>2, <2>2, <2>3, <3>1, <4>1, <4>2, Zenon DEF IInv, TypeOK
    <3>3. Conserved'
      BY <2>4, <3>1 DEF Conserved
    <3>4. PipesUnused' /\ MasksCurrent'
      BY Zenon, <3>1 DEF PipesUnused, MasksCurrent, Handshake
    <3>5. PipesSound'
      BY Zenon, <1>1, <1>6, <2>1 DEF PipesSound, SoundPipe
    <3>6. \A d \in Sides : ending'[d] = "fin" => pipe'[Other(d)].shut
      <4>1. \A d \in Sides : ending[d] = "fin" => pipe[Other(d)].shut
        BY Zenon, <1>1 DEF IInv, EndingsSound
      <4>2. QED
        BY <1>6, <2>1, <3>1, <4>1, SidesFacts
    <3>7. EndingsSound' /\ NoSilentTruncation'
      BY <2>5, <3>1, <3>6 DEF EndingsSound, NoSilentTruncation
    <3>8. QED
      BY Zenon, <3>2, <3>3, <3>4, <3>5, <3>7 DEF IInv
  <2>8. QED
    BY <2>6, <2>7
<1>11. QED
  BY Zenon, <1>9, <1>10


-----------------------------------------------------------------------------
(* The whole connection. *)

\* Every step of the worker or of a peer keeps the invariant.
LEMMA InvNext == IInv /\ [Next]_vars => IInv'
<1> SUFFICES ASSUME IInv, [Next]_vars PROVE IInv'
  OBVIOUS
<1>1. CASE EpollWait
  BY <1>1, EpollWaitInv
<1>2. CASE Shaking
  BY <1>2, HandleClientEventInv, UpstreamHandshakeInv, UpstreamHandshakeFailsInv DEF Shaking
<1>3. ASSUME NEW s \in Sides, Ignore(s) PROVE IInv'
  BY <1>3, QuietInv, HandleTyped, Zenon DEF Ignore, IInv, TypeOK
<1>4. ASSUME NEW s \in Sides, Relaying(s) PROVE IInv'
  BY <1>4, SpliceRelayInv, SpliceRelayFailsInv DEF Relaying
<1>5. ASSUME NEW s \in Sides, Peer(s) PROVE IInv'
  BY <1>5, PeerInv
<1>6. CASE ConnectTimeout
  BY <1>6, ResetIsSafe, SidesFacts, Zenon DEF ConnectTimeout, IInv, TypeOK
<1>7. CASE IdleTimeout
  BY <1>7, CloseIsSafe, Zenon DEF IdleTimeout, IInv, TypeOK
<1>8. CASE Stop
  BY <1>8, CloseIsSafe, Zenon DEF Stop, IInv, TypeOK
<1>9. CASE UNCHANGED vars
  BY <1>9, QuietInv, Zenon DEF vars, IInv, TypeOK
<1>10. QED
  BY <1>1, <1>2, <1>3, <1>4, <1>5, <1>6, <1>7, <1>8, <1>9 DEF Next, Worker

\* The invariant behind the theorems: where every byte is, what the pipes of a
\* relaying connection are between two handlers, and what epoll waits for.
THEOREM InvHolds == Spec => []IInv
BY InvInit, InvNext, PTL DEF Spec

\* handle_upstream_handshake, splice_socket_to_pipe and splice_pipe_to_socket lose no
\* byte of either stream and put none in twice, whatever the sizes of the buffers.
THEOREM NothingIsLost == Spec => []NothingLost
<1>1. IInv => NothingLost
  BY DEF IInv, NothingLost, Conserved
<1>2. QED
  BY <1>1, InvHolds, PTL

\* shutdown_splice_target and close_connection end a stream with a FIN only when
\* it was delivered whole; every failure goes through reset_connection.
THEOREM NeverTruncatesSilently == Spec => []NoSilentTruncation
<1>1. IInv => NoSilentTruncation
  BY DEF IInv
<1>2. QED
  BY <1>1, InvHolds, PTL

\* relay_side_events never leaves an unfinished direction without the event
\* that would move it on.
LEMMA InvNeverForgotten == IInv => NeverForgotten
<1> SUFFICES ASSUME IInv, stage = "relay", NEW s \in Sides, ~pipe[s].shut
             PROVE  "in" \in events[s] \/ "out" \in events[Other(s)]
  BY DEF NeverForgotten
<1>1. SoundPipe(s)
  BY DEF IInv, PipesSound
<1>2. \A d \in Sides :
        events[d] = RelaySideEvents(WantsInput(pipe[d]), pipe[Other(d)].queued > 0)
  BY DEF IInv, MasksCurrent, Interest
<1>3. CASE WantsInput(pipe[s])
  <2>1. "in" \in RelaySideEvents(WantsInput(pipe[s]), pipe[Other(s)].queued > 0)
    BY <1>3 DEF RelaySideEvents
  <2>2. QED
    BY <1>2, <2>1
<1>4. CASE ~WantsInput(pipe[s])
  <2>1. pipe[s].queued > 0
    <3>1. pipe[s].queued \in Nat
      BY Amount DEF IInv
    <3>2. QED
      BY <1>1, <1>4, <3>1 DEF WantsInput, SoundPipe
  <2>2. PICK d \in Sides : d = Other(s) /\ Other(d) = s
    BY SidesFacts
  <2>3. "out" \in RelaySideEvents(WantsInput(pipe[d]), pipe[s].queued > 0)
    BY <2>1 DEF RelaySideEvents
  <2>4. QED
    BY <1>2, <2>2, <2>3
<1>5. QED
  BY <1>3, <1>4

\* handle_splice_relay always leaves a live connection registered for what it
\* waits for (update_connection_events).
THEOREM IsNeverForgotten == Spec => []NeverForgotten
BY InvNeverForgotten, InvHolds, PTL
=============================================================================
