--------------------------- MODULE UdpReleaseProofs ---------------------------
(***************************************************************************)
(* That the release of local sessions drops none that is in use, and       *)
(* forgets none that is not, for any number of clients and ports and for   *)
(* every choice of the retry interval, of the window of recent closes and  *)
(* of the listener's delay below it.                                       *)
(***************************************************************************)
EXTENDS UdpRelease, WellFoundedInduction, TLAPS

\* A port is open, or its close has yet to be told or to be read.
Told(p) == p \in open \cup flying \cup queue \/ lost

\* The worker wakes for the session.
Timed(c) == session[c].retry # None /\ due # None /\ due <= session[c].retry

\* Why a session is not forgotten, at every moment.
Covered(c) ==
    \/ Told(PortOf[c])
    \/ watch = "failed"
    \/ Timed(c)
    \/ session[c].unknown
    \/ c \in walk

\* Why the session a datagram may create will not be forgotten: the close of its
\* port, or a loss, was read after the datagram was sent, and is remembered.
MailCovered(c) ==
    \/ Told(PortOf[c])
    \/ destroyed[PortOf[c]] # None /\ destroyed[PortOf[c]] <= mail[c].age
    \/ Recent - mail[c].age <= checkNew

SessionsCovered == \A c \in Clients : session[c] # None => Covered(c)
DatagramsCovered == \A c \in Clients : mail[c] # None => MailCovered(c)

\* A worker with sessions watches, as far as it knows.
Watching == \A c \in Clients : session[c] # None => watch # "off"

\* Live sessions and datagrams are of open ports.
LiveOpen ==
    \A c \in Clients :
        /\ session[c] # None /\ session[c].live => PortOf[c] \in open
        /\ mail[c] # None /\ mail[c].live => PortOf[c] \in open

\* The answers of a pass: a port found closed has no live session, however late
\* the answer is used, and the close of one found open is still to be read.
MemoSound ==
    /\ pc # "walk" => memo = [p \in Ports |-> "?"]
    /\ \A c \in Clients : memo[PortOf[c]] = "closed" /\ session[c] # None => ~session[c].live
    /\ \A p \in Ports : memo[p] = "open" => Told(p)

\* The inductive invariant.
IInv ==
    /\ TypeOK
    /\ SessionsCovered
    /\ DatagramsCovered
    /\ Watching
    /\ LiveOpen
    /\ MemoSound
-----------------------------------------------------------------------------
(* The pieces. *)

\* What is assumed of the constants.
LEMMA Durations ==
    /\ Retry \in Nat \ {0} /\ Recent \in Nat /\ MaxDelay \in Nat /\ MaxDelay < Recent
    /\ \A c \in Clients : PortOf[c] \in Ports
BY ReleaseAssumption

\* The earliest of some times is one of them.
LEMMA EarliestTime ==
    ASSUME NEW T, T \subseteq Nat, T # {}
    PROVE  Min(T) \in T /\ \A t \in T : Min(T) <= t
<1>1. PICK x \in T : \A y \in T : ~(<<y, x>> \in OpToRel(<, Nat))
  BY WFMin, NatLessThanWellFounded, Zenon
<1>2. \A y \in T : ~(y < x)
  BY <1>1, Zenon DEF OpToRel
<1>3. \A y \in T : x <= y
  BY <1>2
<1>4. QED
  BY <1>3, Zenon DEF Min

\* What the type invariant says of one session and of one datagram.
LEMMA SessionTyped ==
    ASSUME TypeOK, NEW c \in Clients
    PROVE  /\ session[c] \in Sessions \cup {None}
           /\ session[c] # None => /\ session[c] \in Sessions
                                   /\ session[c].retry \in 0..Retry \cup {None}
           /\ mail[c] # None => /\ mail[c] \in Datagrams
                                /\ mail[c].age \in Nat /\ mail[c].age <= MaxDelay
<1>1. session[c] \in Sessions \cup {None} /\ mail[c] \in Datagrams \cup {None}
  BY DEF TypeOK
<1>2. session[c] # None => session[c].retry \in 0..Retry \cup {None}
  BY <1>1 DEF Sessions
<1>3. mail[c] # None => mail[c].age \in 0..MaxDelay
  BY <1>1 DEF Datagrams
<1>4. QED
  BY <1>1, <1>2, <1>3, Durations

\* No socket, no session.
LEMMA InvInit == Init => IInv
<1> SUFFICES ASSUME Init PROVE IInv
  OBVIOUS
<1>1. TypeOK
  <2>1. 0 \in 0..Recent
    BY Durations
  <2>2. QED
    BY <2>1, Zenon DEF Init, TypeOK, Present
<1>2. SessionsCovered /\ DatagramsCovered /\ Watching /\ LiveOpen
  BY DEF Init, SessionsCovered, DatagramsCovered, Watching, LiveOpen
<1>3. MemoSound
  BY Durations DEF Init, MemoSound
<1>4. QED
  BY <1>1, <1>2, <1>3 DEF IInv


-----------------------------------------------------------------------------
(* The clients and the kernel. *)

\* Closes are told of in the end: what the kernel does loses none of them.
LEMMA KernelKeepsCover ==
    ASSUME IInv, \A p \in Ports : Told(p) => Told(p)',
           UNCHANGED <<watch, due, pc, walk, memo>>,
           NEW c \in Clients, session'[c] # None, session[c] # None,
           session'[c].retry = session[c].retry, session'[c].unknown = session[c].unknown
    PROVE  Covered(c)'
<1>1. Covered(c)
  BY DEF IInv, SessionsCovered
<1>2. PortOf[c] \in Ports
  BY Durations
<1>3. QED
  BY <1>1, <1>2 DEF Covered, Timed

\* A waiting datagram stays covered while the kernel forgets no close.
LEMMA KernelKeepsMail ==
    ASSUME IInv, \A p \in Ports : Told(p) => Told(p)', UNCHANGED <<destroyed, checkNew>>,
           NEW c \in Clients, mail'[c] # None, mail[c] # None, mail'[c].age = mail[c].age
    PROVE  MailCovered(c)'
<1>1. MailCovered(c)
  BY DEF IInv, DatagramsCovered
<1>2. PortOf[c] \in Ports
  BY Durations
<1>3. QED
  BY <1>1, <1>2 DEF MailCovered

\* A client opens its port.
LEMMA OpenSocketInv == ASSUME IInv, NEW p \in Ports, OpenSocket(p) PROVE IInv'
<1> USE DEF OpenSocket, walkVars
<1>1. \A q \in Ports : Told(q) => Told(q)'
  BY DEF Told
<1>2. TypeOK'
  BY Zenon DEF IInv, TypeOK, Present
<1>3. SessionsCovered'
  BY <1>1, KernelKeepsCover DEF SessionsCovered
<1>4. DatagramsCovered'
  BY <1>1, KernelKeepsMail DEF DatagramsCovered
<1>5. Watching' /\ LiveOpen'
  BY Zenon DEF IInv, Watching, LiveOpen
<1>6. MemoSound'
  BY <1>1 DEF IInv, MemoSound
<1>7. QED
  BY <1>2, <1>3, <1>4, <1>5, <1>6 DEF IInv

\* A client closes its port: the kernel has yet to tell.
LEMMA CloseSocketInv == ASSUME IInv, NEW p \in Ports, CloseSocket(p) PROVE IInv'
<1>1. /\ UNCHANGED <<queue, lost, watch, flagged, destroyed, checkNew, due, pc, walk, memo, after>>
      /\ open' = open \ {p} /\ flying' = flying \cup {p} /\ p \in open
  BY DEF CloseSocket, walkVars
<1>2. \A q \in Ports : Told(q) => Told(q)'
  BY <1>1 DEF Told
<1>3. ASSUME NEW c \in Clients
      PROVE  /\ session'[c] = IF PortOf[c] = p /\ session[c] # None
                              THEN [session[c] EXCEPT !.live = FALSE] ELSE session[c]
             /\ mail'[c] = IF PortOf[c] = p /\ mail[c] # None
                           THEN [mail[c] EXCEPT !.live = FALSE] ELSE mail[c]
  BY DEF CloseSocket
<1>4. ASSUME NEW c \in Clients
      PROVE  /\ session'[c] \in Sessions \cup {None}
             /\ session'[c] = None <=> session[c] = None
             /\ session[c] # None =>
                    /\ session'[c].retry = session[c].retry
                    /\ session'[c].unknown = session[c].unknown
                    /\ session'[c].live => session[c].live /\ PortOf[c] # p
  <2>1. CASE session[c] = None
    BY <1>3, <2>1, Zenon
  <2>2. CASE session[c] # None
    <3>1. session[c] \in Sessions
      BY <2>2, SessionTyped DEF IInv
    <3>2. [session[c] EXCEPT !.live = FALSE] \in Sessions
      BY <3>1, Zenon DEF Sessions
    <3>3. session'[c] \in Sessions /\ session'[c] # None
      BY <1>3, <3>1, <3>2, NoneAssumption, Zenon
    <3>4. QED
      BY <1>3, <2>2, <3>1, <3>3, Zenon DEF Sessions
  <2>3. QED
    BY <2>1, <2>2
<1>5. ASSUME NEW c \in Clients
      PROVE  /\ mail'[c] \in Datagrams \cup {None}
             /\ mail'[c] = None <=> mail[c] = None
             /\ mail[c] # None =>
                    /\ mail'[c].age = mail[c].age
                    /\ mail'[c].live => mail[c].live /\ PortOf[c] # p
  <2>1. CASE mail[c] = None
    BY <1>3, <2>1, Zenon
  <2>2. CASE mail[c] # None
    <3>1. mail[c] \in Datagrams
      BY <2>2, SessionTyped DEF IInv
    <3>2. [mail[c] EXCEPT !.live = FALSE] \in Datagrams
      BY <3>1, Zenon DEF Datagrams
    <3>3. mail'[c] \in Datagrams /\ mail'[c] # None
      BY <1>3, <3>1, <3>2, NoneAssumption, Zenon
    <3>4. QED
      BY <1>3, <2>2, <3>1, <3>3, Zenon DEF Datagrams
  <2>3. QED
    BY <2>1, <2>2
<1>6. TypeOK'
  <2>1. session' \in [Clients -> Sessions \cup {None}] /\ mail' \in [Clients -> Datagrams \cup {None}]
    BY <1>4, <1>5 DEF CloseSocket
  <2>2. Present' = Present
    BY <1>4 DEF Present
  <2>3. QED
    BY <1>1, <2>1, <2>2, Zenon DEF IInv, TypeOK
<1>7. SessionsCovered'
  BY <1>1, <1>2, <1>4, KernelKeepsCover DEF SessionsCovered
<1>8. DatagramsCovered'
  BY <1>1, <1>2, <1>5, KernelKeepsMail DEF DatagramsCovered
<1>9. Watching'
  BY <1>1, <1>4 DEF IInv, Watching
<1>10. LiveOpen'
  BY <1>1, <1>4, <1>5, Zenon DEF IInv, LiveOpen
<1>11. MemoSound'
  <2>1. \A c \in Clients : memo'[PortOf[c]] = "closed" /\ session'[c] # None => ~session'[c].live
    BY <1>1, <1>4 DEF IInv, MemoSound
  <2>2. QED
    BY <1>1, <1>2, <2>1 DEF IInv, MemoSound
<1>12. QED
  BY <1>6, <1>7, <1>8, <1>9, <1>10, <1>11 DEF IInv

\* The kernel's message reaches the socket of the worker, or is dropped.
LEMMA NotifyInv == ASSUME IInv, NEW p \in Ports, Notify(p) PROVE IInv'
<1> USE DEF Notify, walkVars
<1>1. \A q \in Ports : Told(q) => Told(q)'
  BY DEF Told
<1>2. TypeOK'
  BY Zenon DEF IInv, TypeOK, Present
<1>3. SessionsCovered'
  BY <1>1, KernelKeepsCover DEF SessionsCovered
<1>4. DatagramsCovered'
  BY <1>1, KernelKeepsMail DEF DatagramsCovered
<1>5. Watching' /\ LiveOpen'
  BY Zenon DEF IInv, Watching, LiveOpen
<1>6. MemoSound'
  BY <1>1 DEF IInv, MemoSound
<1>7. QED
  BY <1>2, <1>3, <1>4, <1>5, <1>6 DEF IInv


\* A datagram waits at the listener.
LEMMA SendDatagramInv == ASSUME IInv, NEW c \in Clients, SendDatagram(c) PROVE IInv'
<1> DEFINE new == [live |-> TRUE, age |-> 0]
<1>1. /\ mail' = [mail EXCEPT ![c] = new] /\ PortOf[c] \in open
      /\ UNCHANGED <<open, flying, queue, lost, watch, session, flagged, destroyed, checkNew, due,
                     pc, walk, memo, after>>
  BY DEF SendDatagram, walkVars
<1>2. new \in Datagrams
  BY Durations DEF Datagrams
<1>3. /\ mail' \in [Clients -> Datagrams \cup {None}]
      /\ mail'[c] = new /\ \A d \in Clients : d # c => mail'[d] = mail[d]
  BY <1>1, <1>2, Zenon DEF IInv, TypeOK
<1>4. \A q \in Ports : Told(q) => Told(q)'
  BY <1>1 DEF Told
<1>5. TypeOK'
  BY <1>1, <1>3, Zenon DEF IInv, TypeOK, Present
<1>6. SessionsCovered'
  BY <1>1, <1>4, KernelKeepsCover DEF SessionsCovered
<1>7. DatagramsCovered'
  <2>1. MailCovered(c)'
    BY <1>1 DEF MailCovered, Told
  <2>2. \A d \in Clients : d # c /\ mail'[d] # None => MailCovered(d)'
    BY <1>1, <1>3, <1>4, KernelKeepsMail
  <2>3. QED
    BY <2>1, <2>2 DEF DatagramsCovered
<1>8. Watching'
  BY <1>1 DEF IInv, Watching
<1>9. LiveOpen'
  BY <1>1, <1>3, Zenon DEF IInv, LiveOpen
<1>10. MemoSound'
  BY <1>1, <1>4 DEF IInv, MemoSound
<1>11. QED
  BY <1>5, <1>6, <1>7, <1>8, <1>9, <1>10 DEF IInv

\* Time: a remembered close grows no older than the datagrams that it covers,
\* and the worker's deadline stays ahead of the sessions'.
LEMMA TickInv == ASSUME IInv, Tick PROVE IInv'
<1>1. /\ UNCHANGED <<open, flying, queue, lost, watch, flagged, pc, walk, memo, after>>
      /\ pc = "wait" /\ due # 0
      /\ checkNew' = Less(checkNew) /\ due' = Less(due)
      /\ \A c \in Clients : mail[c] # None => mail[c].age < MaxDelay
  BY Zenon DEF Tick, walkVars
<1>2. /\ \A c \in Clients : /\ session[c] = None => session'[c] = None
                            /\ session[c] # None =>
                                 session'[c] = [session[c] EXCEPT !.retry = Less(@)]
                            /\ mail[c] = None => mail'[c] = None
                            /\ mail[c] # None => mail'[c] = [mail[c] EXCEPT !.age = @ + 1]
      /\ \A p \in Ports : destroyed'[p] = Older(destroyed[p])
      /\ session' = [c \in Clients |-> session'[c]] /\ mail' = [c \in Clients |-> mail'[c]]
      /\ destroyed' = [p \in Ports |-> destroyed'[p]]
  BY Zenon DEF Tick
<1>3. \A left \in 0..Retry \cup {None} : Less(left) \in 0..Retry \cup {None}
  BY Durations, NoneAssumption DEF Less
<1>4. ASSUME NEW c \in Clients, session[c] # None
      PROVE  /\ session'[c] \in Sessions /\ session'[c] # None
             /\ session'[c].retry = Less(session[c].retry)
             /\ session'[c].unknown = session[c].unknown
             /\ session'[c].live = session[c].live
  <2>1. session[c] \in Sessions /\ Less(session[c].retry) \in 0..Retry \cup {None}
    BY <1>3, <1>4, SessionTyped, Zenon DEF IInv
  <2>2. session'[c] = [session[c] EXCEPT !.retry = Less(session[c].retry)]
    BY <1>2, <1>4
  <2>3. session'[c] \in Sessions
    BY <2>1, <2>2 DEF Sessions
  <2>4. QED
    BY <2>1, <2>2, <2>3, NoneAssumption DEF Sessions
<1>5. ASSUME NEW c \in Clients, mail[c] # None
      PROVE  /\ mail'[c] \in Datagrams /\ mail'[c] # None
             /\ mail'[c].age = mail[c].age + 1
             /\ mail'[c].live = mail[c].live
  <2>1. mail[c] \in Datagrams /\ mail[c].age + 1 \in 0..MaxDelay
    BY <1>1, <1>5, SessionTyped, Durations DEF IInv
  <2>2. mail'[c] = [mail[c] EXCEPT !.age = mail[c].age + 1]
    BY <1>2, <1>5
  <2>3. mail'[c] \in Datagrams
    BY <2>1, <2>2 DEF Datagrams
  <2>4. QED
    BY <2>1, <2>2, <2>3, NoneAssumption DEF Datagrams
<1>6. TypeOK'
  <2>1. session' \in [Clients -> Sessions \cup {None}] /\ mail' \in [Clients -> Datagrams \cup {None}]
    BY <1>2, <1>4, <1>5, Zenon
  <2>2. destroyed' \in [Ports -> 0..Recent \cup {None}]
    <3>1. \A age \in 0..Recent \cup {None} : Older(age) \in 0..Recent \cup {None}
      BY Durations, NoneAssumption DEF Older
    <3>2. \A p \in Ports : destroyed[p] \in 0..Recent \cup {None}
      BY DEF IInv, TypeOK
    <3>3. QED
      BY <1>2, <3>1, <3>2, ZenonT(30)
  <2>3. checkNew' \in 0..Recent /\ due' \in 0..Retry \cup {None}
    BY <1>1, <1>3, Durations, NoneAssumption DEF IInv, TypeOK, Less
  <2>4. Present' = Present
    BY <1>2, <1>4, Zenon DEF Present
  <2>5. QED
    BY <1>1, <2>1, <2>2, <2>3, <2>4, Zenon DEF IInv, TypeOK
<1>7. SessionsCovered'
  <2> SUFFICES ASSUME NEW c \in Clients, session[c] # None, Timed(c)
               PROVE  Timed(c)'
    <3>1. \A c \in Clients : session[c] # None => Covered(c)
      BY DEF IInv, SessionsCovered
    <3>2. QED
      BY <1>1, <1>2, <1>4, <3>1, Zenon DEF SessionsCovered, Covered, Told
  <2>1. /\ session[c].retry \in 0..Retry \cup {None} /\ due \in 0..Retry \cup {None}
    BY SessionTyped DEF IInv, TypeOK
  <2>2. session'[c].retry = Less(session[c].retry)
    BY <1>4
  <2>3. QED
    BY <1>1, <2>1, <2>2, Durations, NoneAssumption DEF Timed, Less
<1>8. DatagramsCovered'
  <2> SUFFICES ASSUME NEW c \in Clients, mail[c] # None PROVE MailCovered(c)'
    BY <1>2 DEF DatagramsCovered
  <2>1. MailCovered(c)
    BY DEF IInv, DatagramsCovered
  <2>2. mail[c].age \in Nat /\ mail[c].age < MaxDelay /\ mail'[c].age = mail[c].age + 1
    BY <1>1, <1>5, SessionTyped DEF IInv
  <2>3. CASE Told(PortOf[c])
    BY <1>1, <2>3 DEF MailCovered, Told
  <2>4. CASE destroyed[PortOf[c]] # None /\ destroyed[PortOf[c]] <= mail[c].age
    <3>1. destroyed[PortOf[c]] \in Nat /\ destroyed'[PortOf[c]] = Older(destroyed[PortOf[c]])
      BY <1>2, <2>4, Durations DEF IInv, TypeOK
    <3>2. destroyed'[PortOf[c]] = destroyed[PortOf[c]] + 1
      BY <2>2, <2>4, <3>1, Durations DEF Older
    <3>3. QED
      BY <2>2, <2>4, <3>1, <3>2, NoneAssumption DEF MailCovered
  <2>5. CASE Recent - mail[c].age <= checkNew
    <3>1. checkNew \in Nat /\ checkNew' = Less(checkNew)
      BY <1>1, Durations DEF IInv, TypeOK
    <3>2. checkNew' = checkNew - 1
      BY <2>2, <2>5, <3>1, Durations, NoneAssumption DEF Less
    <3>3. QED
      BY <2>2, <2>5, <3>1, <3>2, Durations DEF MailCovered
  <2>6. QED
    BY <2>1, <2>3, <2>4, <2>5 DEF MailCovered
<1>9. Watching'
  BY <1>1, <1>2 DEF IInv, Watching
<1>10. LiveOpen'
  BY <1>1, <1>2, <1>4, <1>5, Zenon DEF IInv, LiveOpen
<1>11. MemoSound'
  <2>1. \A c \in Clients : memo'[PortOf[c]] = "closed" /\ session'[c] # None => ~session'[c].live
    BY <1>1, <1>2, <1>4, Zenon DEF IInv, MemoSound
  <2>2. QED
    BY <1>1, <2>1, Zenon DEF IInv, MemoSound, Told
<1>12. QED
  BY <1>6, <1>7, <1>8, <1>9, <1>10, <1>11 DEF IInv


-----------------------------------------------------------------------------
(* Notifications, and the pass over the flagged sessions. *)

\* What draining the notifications leaves.
LEMMA DrainTyped ==
    ASSUME TypeOK, Drain
    PROVE  /\ destroyed' \in [Ports -> 0..Recent \cup {None}] /\ checkNew' \in 0..Recent
           /\ queue' = {} /\ lost' = FALSE
<1>1. 0 \in 0..Recent /\ Recent \in 0..Recent
  BY Durations
<1>2. QED
  BY <1>1 DEF Drain, TypeOK

\* What is read from the queue is remembered for the datagrams sent before.
LEMMA DrainRemembers ==
    ASSUME IInv, Drain, NEW c \in Clients, mail[c] # None
    PROVE  \/ PortOf[c] \in open \cup flying
           \/ destroyed'[PortOf[c]] # None /\ destroyed'[PortOf[c]] <= mail[c].age
           \/ Recent - mail[c].age <= checkNew'
<1> DEFINE p == PortOf[c]
<1>1. MailCovered(c) /\ p \in Ports
  BY Durations DEF IInv, DatagramsCovered
<1>2. mail[c].age \in Nat /\ Recent \in Nat /\ None \notin Nat
  BY SessionTyped, Durations, NoneAssumption DEF IInv
<1>3. /\ destroyed'[p] = IF p \in queue THEN 0 ELSE destroyed[p]
      /\ checkNew' = IF lost THEN Recent ELSE checkNew
  BY <1>1 DEF Drain
<1>4. CASE p \in queue
  BY <1>2, <1>3, <1>4
<1>5. CASE lost
  BY <1>2, <1>3, <1>5
<1>6. CASE p \notin queue /\ ~lost
  BY <1>1, <1>3, <1>6 DEF MailCovered, Told
<1>7. QED
  BY <1>4, <1>5, <1>6

\* The notifications are read: sessions of a closed port are flagged.
LEMMA HandleEventsInv == ASSUME IInv, HandleEvents PROVE IInv'
<1>1. /\ pc = "events" /\ Drain /\ UNCHANGED <<open, flying, mail, watch, session, due, memo>>
      /\ flagged' = DrainedPorts
      /\ walk' = {c \in Clients : session[c] # None /\ PortOf[c] \in DrainedPorts}
      /\ after' = "events" /\ pc' = "walk"
  BY Zenon DEF HandleEvents, StartWalk
<1>2. queue' = {} /\ lost' = FALSE
  BY <1>1 DEF Drain
<1>3. memo = [p \in Ports |-> "?"] /\ walk = {}
  BY <1>1 DEF IInv, MemoSound, TypeOK
<1>4. TypeOK'
  <2>1. DrainedPorts \subseteq Ports
    <3>1. queue \subseteq Ports
      BY DEF IInv, TypeOK
    <3>2. QED
      BY <3>1, Durations DEF DrainedPorts, Present
  <2>2. walk' \subseteq Present'
    BY <1>1, Zenon DEF Present
  <2>3. QED
    BY <1>1, <2>1, <2>2, DrainTyped, Zenon DEF IInv, TypeOK
<1>5. SessionsCovered'
  <2> SUFFICES ASSUME NEW c \in Clients, session[c] # None PROVE Covered(c)'
    BY <1>1 DEF SessionsCovered
  <2>1. Covered(c)
    BY DEF IInv, SessionsCovered
  <2>2. CASE PortOf[c] \in queue \/ lost
    <3>1. PortOf[c] \in DrainedPorts
      BY <2>2, Zenon DEF DrainedPorts, Present
    <3>2. QED
      BY <1>1, <3>1 DEF Covered
  <2>3. CASE ~(PortOf[c] \in queue \/ lost)
    BY <1>1, <1>3, <2>1, <2>3 DEF Covered, Told, Timed
  <2>4. QED
    BY <2>2, <2>3
<1>6. DatagramsCovered'
  BY <1>1, DrainRemembers DEF DatagramsCovered, MailCovered, Told
<1>7. Watching' /\ LiveOpen'
  BY <1>1, Zenon DEF IInv, Watching, LiveOpen
<1>8. MemoSound'
  BY <1>1, <1>3, Durations DEF MemoSound
<1>9. QED
  BY <1>4, <1>5, <1>6, <1>7, <1>8 DEF IInv

\* A retry is noted with a deadline that is no later.
LEMMA NoteFacts ==
    ASSUME NEW d \in 0..Retry \cup {None}
    PROVE  /\ Note(d, Retry) \in 0..Retry
           /\ d # None => Note(d, Retry) <= d
BY Durations, NoneAssumption DEF Note

\* A session with replies to deliver gets a retry instead of a query.
LEMMA PostponeInv == ASSUME IInv, NEW c \in Clients, Postpone(c) PROVE IInv'
<1>1. /\ pc = "walk" /\ c \in walk
      /\ session' = [session EXCEPT ![c] = [session[c] EXCEPT !.retry = Retry]]
      /\ due' = Note(due, Retry) /\ walk' = walk \ {c}
      /\ UNCHANGED <<open, flying, queue, lost, mail, watch, flagged, destroyed, checkNew, pc, memo,
                     after>>
  BY DEF Postpone, kernelVars
<1>2. session[c] # None /\ session[c] \in Sessions
  BY <1>1, SessionTyped DEF IInv, TypeOK, Present
<1>3. [session[c] EXCEPT !.retry = Retry] \in Sessions
  <2>1. Retry \in 0..Retry
    BY Durations
  <2>2. QED
    BY <1>2, <2>1 DEF Sessions
<1>4. /\ session'[c] = [session[c] EXCEPT !.retry = Retry]
      /\ \A d \in Clients : d # c => session'[d] = session[d]
      /\ session' \in [Clients -> Sessions \cup {None}]
  BY <1>1, <1>3 DEF IInv, TypeOK
<1>5. /\ session'[c] # None
      /\ session'[c].live = session[c].live /\ session'[c].retry = Retry
  BY <1>2, <1>3, <1>4, NoneAssumption DEF Sessions
<1>6. /\ due' \in 0..Retry /\ due' # None /\ (due # None => due' <= due) /\ due' <= Retry
      /\ due' \in Nat /\ due \in Nat \cup {None}
  BY <1>1, NoteFacts, Durations, NoneAssumption DEF IInv, TypeOK
<1>7. TypeOK'
  <2>1. Present' = Present
    BY <1>2, <1>4, <1>5, Zenon DEF Present
  <2>2. QED
    BY <1>1, <1>4, <1>6, <2>1, Zenon DEF IInv, TypeOK
<1>8. SessionsCovered'
  <2>1. Covered(c)'
    BY <1>5, <1>6, NoneAssumption, Durations DEF Covered, Timed
  <2>2. ASSUME NEW d \in Clients, d # c, session[d] # None PROVE Covered(d)'
    <3>1. Covered(d) /\ session'[d] = session[d]
      BY <1>4, <2>2 DEF IInv, SessionsCovered
    <3>2. session[d].retry \in Nat \cup {None}
      BY <2>2, SessionTyped, Durations DEF IInv
    <3>3. Timed(d) => Timed(d)'
      BY <1>6, <3>1, <3>2, NoneAssumption DEF Timed
    <3>4. QED
      BY <1>1, <2>2, <3>1, <3>3, Zenon DEF Covered, Told
  <2>3. QED
    BY <1>4, <2>1, <2>2, Zenon DEF SessionsCovered
<1>9. DatagramsCovered'
  BY <1>1, Zenon DEF IInv, DatagramsCovered, MailCovered, Told
<1>10. Watching' /\ LiveOpen'
  BY <1>1, <1>2, <1>4, <1>5, Zenon DEF IInv, Watching, LiveOpen
<1>11. MemoSound'
  BY <1>1, <1>2, <1>4, <1>5, Zenon DEF IInv, MemoSound, Told
<1>12. QED
  BY <1>7, <1>8, <1>9, <1>10, <1>11 DEF IInv


\* What a pass takes a port for: found open, its close is still to be read; found
\* closed, no session of it is live.
LEMMA DecideAnswer ==
    ASSUME IInv, NEW c \in Clients, Decide(c)
    PROVE  \E s \in {"open", "closed", "error"} :
             /\ memo' = [memo EXCEPT ![PortOf[c]] = s]
             /\ session' = [session EXCEPT ![c] = IF s = "closed" THEN None
                                                  ELSE [session[c] EXCEPT !.unknown = s = "error"]]
             /\ s = "open" => Told(PortOf[c])
             /\ s = "closed" =>
                    \A d \in Clients : PortOf[d] = PortOf[c] /\ session[d] # None => ~session[d].live
<1> DEFINE p == PortOf[c]
<1>1. PICK s \in PortStates(p) : memo' = [memo EXCEPT ![p] = s]
  BY Zenon DEF Decide
<1>2. p \in Ports /\ memo \in [Ports -> {"?", "open", "closed", "error"}]
  BY Durations DEF IInv, TypeOK
<1>3. memo'[p] = s
  BY <1>1, <1>2
<1>4. session' = [session EXCEPT ![c] = IF memo'[p] = "closed" THEN None
                                        ELSE [session[c] EXCEPT !.unknown = memo'[p] = "error"]]
  BY Zenon DEF Decide
<1>5. CASE memo[p] = "?"
  <2>1. s \in Query(p)
    BY <1>5 DEF PortStates
  <2>2. s \in {"open", "closed", "error"} /\ (s = "open" => p \in open) /\ (s = "closed" => p \notin open)
    BY <2>1 DEF Query
  <2>3. s = "closed" => \A d \in Clients : PortOf[d] = p /\ session[d] # None => ~session[d].live
    BY <2>2 DEF IInv, LiveOpen
  <2>4. s = "open" => Told(p)
    BY <2>2 DEF Told
  <2>5. QED
    BY <1>1, <1>3, <1>4, <2>2, <2>3, <2>4, Zenon
<1>6. CASE memo[p] # "?"
  <2>1. s = memo[p]
    BY <1>6 DEF PortStates
  <2>2. s \in {"open", "closed", "error"}
    BY <1>2, <1>6, <2>1
  <2>3. s = "closed" => \A d \in Clients : PortOf[d] = p /\ session[d] # None => ~session[d].live
    BY <2>1, Zenon DEF IInv, MemoSound
  <2>4. s = "open" => Told(p)
    BY <1>2, <2>1, Zenon DEF IInv, MemoSound
  <2>5. QED
    BY <1>1, <1>3, <1>4, <2>2, <2>3, <2>4, Zenon
<1>7. QED
  BY <1>5, <1>6

\* A session is dropped or kept by the kernel's answer, which may be a reused one.
LEMMA DecideInv == ASSUME IInv, NEW c \in Clients, Decide(c) PROVE IInv'
<1> DEFINE p == PortOf[c]
<1>1. /\ pc = "walk" /\ c \in walk /\ walk' = walk \ {c}
      /\ UNCHANGED <<open, flying, queue, lost, mail, watch, flagged, destroyed, checkNew, due, pc,
                     after>>
  BY DEF Decide, kernelVars
<1>2. PICK s \in {"open", "closed", "error"} :
             /\ memo' = [memo EXCEPT ![p] = s]
             /\ session' = [session EXCEPT ![c] = IF s = "closed" THEN None
                                                  ELSE [session[c] EXCEPT !.unknown = s = "error"]]
             /\ s = "open" => Told(p)
             /\ s = "closed" =>
                    \A d \in Clients : PortOf[d] = p /\ session[d] # None => ~session[d].live
  BY DecideAnswer
<1>3. session[c] # None /\ session[c] \in Sessions
  BY <1>1, SessionTyped DEF IInv, TypeOK, Present
<1>4. /\ session'[c] = IF s = "closed" THEN None ELSE [session[c] EXCEPT !.unknown = s = "error"]
      /\ \A d \in Clients : d # c => session'[d] = session[d]
  BY <1>2 DEF IInv, TypeOK
<1>5. ASSUME s # "closed"
      PROVE  /\ session'[c] \in Sessions /\ session'[c] # None
             /\ session'[c].live = session[c].live
             /\ session'[c].unknown = (s = "error")
  <2>1. session'[c] = [session[c] EXCEPT !.unknown = (s = "error")]
    BY <1>4, <1>5
  <2>2. (s = "error") \in BOOLEAN
    OBVIOUS
  <2>3. session'[c] \in Sessions
    BY <1>3, <2>1, <2>2, Zenon DEF Sessions
  <2>4. session'[c].live = session[c].live /\ session'[c].unknown = (s = "error")
    BY <1>3, <2>1, Zenon DEF Sessions
  <2>5. QED
    BY <2>3, <2>4, NoneAssumption
<1>6. \A q \in Ports : memo'[q] = IF q = p THEN s ELSE memo[q]
  BY <1>2 DEF IInv, TypeOK
<1>7. \A d \in Clients : session'[d] # None => /\ session[d] # None
                                               /\ session'[d].live = session[d].live
  BY <1>3, <1>4, <1>5, Zenon
<1>8. TypeOK'
  <2>1. /\ session' \in [Clients -> Sessions \cup {None}]
        /\ memo' \in [Ports -> {"?", "open", "closed", "error"}]
    BY <1>2, <1>4, <1>5, Zenon DEF IInv, TypeOK
  <2>2. walk' \subseteq Present'
    BY <1>1, <1>4, Zenon DEF IInv, TypeOK, Present
  <2>3. QED
    BY <1>1, <2>1, <2>2, Zenon DEF IInv, TypeOK
<1>9. SessionsCovered'
  <2>1. session'[c] # None => Covered(c)'
    BY <1>1, <1>2, <1>4, <1>5, Zenon DEF Covered, Told
  <2>2. ASSUME NEW d \in Clients, d # c, session[d] # None PROVE Covered(d)'
    <3>1. Covered(d) /\ session'[d] = session[d]
      BY <1>4, <2>2 DEF IInv, SessionsCovered
    <3>2. QED
      BY <1>1, <2>2, <3>1, Zenon DEF Covered, Told, Timed
  <2>3. QED
    BY <1>4, <2>1, <2>2, Zenon DEF SessionsCovered
<1>10. DatagramsCovered'
  BY <1>1, Zenon DEF IInv, DatagramsCovered, MailCovered, Told
<1>11. Watching' /\ LiveOpen'
  BY <1>1, <1>7, Zenon DEF IInv, Watching, LiveOpen
<1>12. MemoSound'
  <2>1. ASSUME NEW d \in Clients, memo'[PortOf[d]] = "closed", session'[d] # None
        PROVE  ~session'[d].live
    <3>1. session[d] # None /\ session'[d].live = session[d].live /\ PortOf[d] \in Ports
      BY <1>7, <2>1, Durations
    <3>2. CASE PortOf[d] = p
      BY <1>2, <1>6, <2>1, <3>1, <3>2
    <3>3. CASE PortOf[d] # p
      BY <1>6, <2>1, <3>1, <3>3 DEF IInv, MemoSound
    <3>4. QED
      BY <3>2, <3>3
  <2>2. \A q \in Ports : memo'[q] = "open" => Told(q)'
    BY <1>1, <1>2, <1>6 DEF IInv, MemoSound, Told
  <2>3. QED
    BY <1>1, <2>1, <2>2 DEF MemoSound
<1>13. QED
  BY <1>8, <1>9, <1>10, <1>11, <1>12 DEF IInv

\* The pass over the sessions ends.
LEMMA EndWalkInv == ASSUME IInv, EndWalk PROVE IInv'
<1>1. /\ pc = "walk" /\ walk = {} /\ walk' = {} /\ flagged' = {} /\ after' = "events"
      /\ memo' = [p \in Ports |-> "?"] /\ pc' = after
      /\ UNCHANGED <<open, flying, queue, lost, mail, watch, session, destroyed, checkNew, due>>
  BY DEF EndWalk, kernelVars
<1>2. TypeOK'
  BY <1>1, Zenon DEF IInv, TypeOK, Present
<1>3. SessionsCovered' /\ DatagramsCovered'
  BY <1>1, Zenon DEF IInv, SessionsCovered, DatagramsCovered, Covered, MailCovered, Told, Timed
<1>4. Watching' /\ LiveOpen'
  BY <1>1, Zenon DEF IInv, Watching, LiveOpen
<1>5. MemoSound'
  BY <1>1, Durations DEF MemoSound
<1>6. QED
  BY <1>2, <1>3, <1>4, <1>5 DEF IInv


-----------------------------------------------------------------------------
(* Datagrams, replies and maintenance. *)

\* What the handlers do to the sessions there are already.
LEMMA SessionEditInv ==
    ASSUME IInv, pc = "events",
           UNCHANGED <<open, flying, queue, lost, watch, flagged, destroyed, checkNew, due, pc, walk,
                       memo, after>>,
           session' \in [Clients -> Sessions \cup {None}],
           mail' \in [Clients -> Datagrams \cup {None}],
           \A d \in Clients : mail'[d] # None => mail'[d] = mail[d],
           \A d \in Clients : session'[d] # None =>
                /\ session[d] # None
                /\ session'[d].retry = session[d].retry /\ session'[d].unknown = session[d].unknown
                /\ session'[d].live => PortOf[d] \in open
    PROVE  IInv'
<1>1. walk = {} /\ memo = [p \in Ports |-> "?"]
  BY DEF IInv, TypeOK, MemoSound
<1>2. TypeOK'
  BY <1>1, Zenon DEF IInv, TypeOK
<1>3. SessionsCovered'
  BY Zenon DEF IInv, SessionsCovered, Covered, Timed, Told
<1>4. DatagramsCovered'
  BY Zenon DEF IInv, DatagramsCovered, MailCovered, Told
<1>5. Watching' /\ LiveOpen'
  BY Zenon DEF IInv, Watching, LiveOpen
<1>6. MemoSound'
  BY <1>1, Durations DEF MemoSound
<1>7. QED
  BY <1>2, <1>3, <1>4, <1>5, <1>6 DEF IInv

\* A datagram of a session there is.
LEMMA ReceiveKnownInv == ASSUME IInv, NEW c \in Clients, ReceiveKnown(c) PROVE IInv'
<1>1. /\ pc = "events" /\ mail[c] # None /\ session[c] # None
      /\ session' = [session EXCEPT ![c] = [session[c] EXCEPT !.live = @ \/ mail[c].live]]
      /\ mail' = [mail EXCEPT ![c] = None]
      /\ UNCHANGED <<open, flying, queue, lost, watch, flagged, destroyed, checkNew, due, pc, walk,
                     memo, after>>
  BY DEF ReceiveKnown, walkVars
<1>2. session[c] \in Sessions /\ mail[c] \in Datagrams
  BY <1>1, SessionTyped DEF IInv
<1>3. (session[c].live \/ mail[c].live) \in BOOLEAN
  OBVIOUS
<1>4. [session[c] EXCEPT !.live = @ \/ mail[c].live] \in Sessions
  BY <1>2, <1>3, Zenon DEF Sessions
<1>5. /\ session' \in [Clients -> Sessions \cup {None}] /\ mail' \in [Clients -> Datagrams \cup {None}]
      /\ session'[c] = [session[c] EXCEPT !.live = @ \/ mail[c].live]
      /\ \A d \in Clients : d # c => session'[d] = session[d]
      /\ \A d \in Clients : mail'[d] # None => mail'[d] = mail[d]
  BY <1>1, <1>4, Zenon DEF IInv, TypeOK
<1>6. /\ session'[c].retry = session[c].retry /\ session'[c].unknown = session[c].unknown
      /\ session'[c].live => session[c].live \/ mail[c].live
  BY <1>2, <1>5, Zenon DEF Sessions
<1>7. \A d \in Clients : session'[d] # None =>
                /\ session[d] # None
                /\ session'[d].retry = session[d].retry /\ session'[d].unknown = session[d].unknown
                /\ session'[d].live => PortOf[d] \in open
  BY <1>1, <1>5, <1>6, Zenon DEF IInv, LiveOpen
<1>8. QED
  BY <1>1, <1>5, <1>7, SessionEditInv

\* A reply of the proxy.
LEMMA ReplyInv == ASSUME IInv, NEW c \in Clients, Reply(c) PROVE IInv'
<1>1. /\ pc = "events" /\ session[c] # None
      /\ session' = [session EXCEPT ![c] = [session[c] EXCEPT !.draining = ~@]]
      /\ UNCHANGED <<open, flying, queue, lost, mail, watch, flagged, destroyed, checkNew, due, pc,
                     walk, memo, after>>
  BY DEF Reply, walkVars, kernelVars
<1>2. session[c] \in Sessions
  BY <1>1, SessionTyped DEF IInv
<1>3. (~session[c].draining) \in BOOLEAN
  OBVIOUS
<1>4. [session[c] EXCEPT !.draining = ~@] \in Sessions
  BY <1>2, <1>3, Zenon DEF Sessions
<1>5. /\ session' \in [Clients -> Sessions \cup {None}] /\ mail' \in [Clients -> Datagrams \cup {None}]
      /\ session'[c] = [session[c] EXCEPT !.draining = ~@]
      /\ \A d \in Clients : d # c => session'[d] = session[d]
  BY <1>1, <1>4, Zenon DEF IInv, TypeOK
<1>6. /\ session'[c].retry = session[c].retry /\ session'[c].unknown = session[c].unknown
      /\ session'[c].live = session[c].live
  BY <1>2, <1>5, Zenon DEF Sessions
<1>7. \A d \in Clients : session'[d] # None =>
                /\ session[d] # None
                /\ session'[d].retry = session[d].retry /\ session'[d].unknown = session[d].unknown
                /\ session'[d].live => PortOf[d] \in open
  BY <1>1, <1>5, <1>6, Zenon DEF IInv, LiveOpen
<1>8. QED
  BY <1>1, <1>5, <1>7, SessionEditInv

\* A session ends for another reason.
LEMMA EndInv == ASSUME IInv, NEW c \in Clients, End(c) PROVE IInv'
<1>1. /\ pc = "events" /\ session' = [session EXCEPT ![c] = None]
      /\ UNCHANGED <<open, flying, queue, lost, mail, watch, flagged, destroyed, checkNew, due, pc,
                     walk, memo, after>>
  BY DEF End, walkVars, kernelVars
<1>2. /\ session' \in [Clients -> Sessions \cup {None}] /\ mail' \in [Clients -> Datagrams \cup {None}]
      /\ \A d \in Clients : session'[d] # None => session'[d] = session[d]
  BY <1>1, Zenon DEF IInv, TypeOK
<1>3. QED
  BY <1>1, <1>2, SessionEditInv, Zenon DEF IInv, LiveOpen

\* The worker wakes.
LEMMA WakeInv == ASSUME IInv, Wake PROVE IInv'
<1>1. /\ pc = "wait" /\ pc' = "events"
      /\ UNCHANGED <<open, flying, queue, lost, mail, watch, session, flagged, destroyed, checkNew,
                     due, walk, memo, after>>
  BY DEF Wake, walkVars, kernelVars
<1>2. TypeOK'
  BY <1>1, Zenon DEF IInv, TypeOK, Present
<1>3. SessionsCovered' /\ DatagramsCovered'
  BY <1>1, Zenon DEF IInv, SessionsCovered, DatagramsCovered, Covered, MailCovered, Told, Timed
<1>4. Watching' /\ LiveOpen' /\ MemoSound'
  BY <1>1, Zenon DEF IInv, Watching, LiveOpen, MemoSound, Told
<1>5. QED
  BY <1>2, <1>3, <1>4 DEF IInv


\* After bpf2socks_udp_release_arm, if it was called, the worker watches, and the
\* close of a new session's port is still to be read or is remembered as recent.
LEMMA ArmFacts ==
    ASSUME IInv, NEW c \in Clients, ReceiveNew(c)
    PROVE  /\ watch' \in {"on", "failed"}
           /\ queue' \subseteq Ports /\ lost' \in BOOLEAN
           /\ destroyed' \in [Ports -> 0..Recent \cup {None}] /\ checkNew' \in 0..Recent
           /\ \A d \in Clients : mail[d] # None =>
                \/ PortOf[d] \in open \cup flying \cup queue' \/ lost'
                \/ destroyed'[PortOf[d]] # None /\ destroyed'[PortOf[d]] <= mail[d].age
                \/ Recent - mail[d].age <= checkNew'
           /\ \A d \in Clients : session[d] # None => UNCHANGED <<watch, queue, lost>>
<1>1. CASE watch = "off"
  <2>1. Arm
    BY <1>1 DEF ReceiveNew
  <2>2. watch' \in {"on", "failed"} /\ Drain
    BY <2>1 DEF Arm
  <2>3. \A d \in Clients : session[d] = None
    BY <1>1 DEF IInv, Watching
  <2>4. QED
    BY <2>2, <2>3, DrainTyped, DrainRemembers, Zenon DEF IInv
<1>2. CASE watch # "off"
  <2>1. UNCHANGED <<watch, queue, lost, destroyed, checkNew>>
    BY <1>2 DEF ReceiveNew
  <2>2. QED
    BY <1>2, <2>1, Zenon DEF IInv, TypeOK, DatagramsCovered, MailCovered, Told
<1>3. QED
  BY <1>1, <1>2

\* A datagram that creates a session: a recent close makes it a suspect.
LEMMA ReceiveNewInv == ASSUME IInv, NEW c \in Clients, ReceiveNew(c) PROVE IInv'
<1>1. /\ pc = "events" /\ mail[c] # None /\ session[c] = None
      /\ mail' = [mail EXCEPT ![c] = None]
      /\ UNCHANGED <<open, flying, flagged, pc, walk, memo, after>>
  BY DEF ReceiveNew, walkVars
<1>2. walk = {} /\ memo = [p \in Ports |-> "?"]
  BY <1>1 DEF IInv, TypeOK, MemoSound
<1>3. /\ mail' \in [Clients -> Datagrams \cup {None}]
      /\ \A d \in Clients : mail'[d] # None => mail'[d] = mail[d]
  BY <1>1, Zenon DEF IInv, TypeOK
<1>4. DatagramsCovered'
  BY <1>1, <1>3, ArmFacts, Zenon DEF DatagramsCovered, MailCovered, Told
<1>5. MemoSound'
  BY <1>1, <1>2, Durations DEF MemoSound
<1>6. /\ due \in Nat \cup {None} /\ due \in 0..Retry \cup {None}
  BY Durations DEF IInv, TypeOK
<1>7. CASE UNCHANGED <<session, due>>
  <2>1. TypeOK'
    BY <1>1, <1>2, <1>3, <1>7, ArmFacts, Zenon DEF IInv, TypeOK, Present
  <2>2. Watching' /\ LiveOpen'
    BY <1>1, <1>3, <1>7, ArmFacts, Zenon DEF IInv, Watching, LiveOpen
  <2>3. SessionsCovered'
    <3>1. ASSUME NEW d \in Clients, session[d] # None PROVE Covered(d)'
      <4>1. Covered(d) /\ UNCHANGED <<watch, queue, lost>>
        BY <3>1, ArmFacts DEF IInv, SessionsCovered
      <4>2. QED
        BY <1>1, <1>7, <4>1, Zenon DEF Covered, Told, Timed
    <3>2. QED
      BY <1>7, <3>1 DEF SessionsCovered
  <2>4. QED
    BY <1>4, <1>5, <2>1, <2>2, <2>3 DEF IInv
<1>8. ASSUME NEW recent \in LooksRecent(destroyed'[PortOf[c]]), NEW check, NEW new,
             check = (recent \/ checkNew' > 0),
             new = [live |-> mail[c].live, draining |-> FALSE, unknown |-> FALSE,
                    retry |-> IF check THEN Retry ELSE None],
             session' = [session EXCEPT ![c] = new],
             due' = IF check THEN Note(due, Retry) ELSE due
      PROVE  IInv'
  <2>1. new \in Sessions /\ new.retry = (IF check THEN Retry ELSE None) /\ new.live = mail[c].live
    <3>1. (IF check THEN Retry ELSE None) \in 0..Retry \cup {None}
      BY Durations
    <3>2. mail[c].live \in BOOLEAN
      BY <1>1, SessionTyped DEF IInv, Datagrams
    <3>3. QED
      BY <1>8, <3>1, <3>2, Zenon DEF Sessions
  <2>2. /\ session' \in [Clients -> Sessions \cup {None}] /\ session'[c] = new /\ new # None
        /\ \A d \in Clients : d # c => session'[d] = session[d]
    BY <1>8, <2>1, NoneAssumption, Zenon DEF IInv, TypeOK
  <2>3. /\ due' \in 0..Retry \cup {None}
        /\ due # None => due' # None /\ due' \in Nat /\ due \in Nat /\ due' <= due
        /\ check => due' # None /\ due' \in Nat /\ due' <= Retry
    BY <1>6, <1>8, NoteFacts, NoneAssumption, Durations
  <2>4. TypeOK'
    BY <1>1, <1>2, <1>3, <2>2, <2>3, ArmFacts, Zenon DEF IInv, TypeOK
  <2>5. Watching'
    BY ArmFacts DEF Watching
  <2>6. LiveOpen'
    BY <1>1, <1>3, <2>1, <2>2, Zenon DEF IInv, LiveOpen
  <2>7. Covered(c)'
    <3>1. CASE PortOf[c] \in open \cup flying \cup queue' \/ lost'
      BY <1>1, <3>1 DEF Covered, Told
    <3>2. CASE check
      BY <2>1, <2>2, <2>3, <3>2, NoneAssumption, Durations DEF Covered, Timed
    <3>3. mail[c].age \in Nat /\ mail[c].age < Recent /\ Recent \in Nat
      BY <1>1, SessionTyped, Durations DEF IInv
    <3>4. CASE destroyed'[PortOf[c]] # None /\ destroyed'[PortOf[c]] <= mail[c].age
      <4>1. destroyed'[PortOf[c]] \in Nat
        BY <3>4, ArmFacts, Durations
      <4>2. destroyed'[PortOf[c]] < Recent
        BY <3>3, <3>4, <4>1
      <4>3. recent = TRUE
        BY <1>8, <3>4, <4>2 DEF LooksRecent
      <4>4. QED
        BY <1>8, <3>2, <4>3, Zenon
    <3>5. CASE Recent - mail[c].age <= checkNew'
      <4>1. checkNew' \in Nat
        BY ArmFacts, Durations
      <4>2. checkNew' > 0
        BY <3>3, <3>5, <4>1
      <4>3. QED
        BY <1>8, <3>2, <4>2, Zenon
    <3>6. QED
      BY Zenon, <1>1, <3>1, <3>4, <3>5, ArmFacts
  <2>8. ASSUME NEW d \in Clients, d # c, session[d] # None PROVE Covered(d)'
    <3>1. Covered(d) /\ session'[d] = session[d] /\ UNCHANGED <<watch, queue, lost>>
      BY <2>2, <2>8, ArmFacts DEF IInv, SessionsCovered
    <3>2. session[d].retry \in Nat \cup {None}
      BY <2>8, SessionTyped, Durations DEF IInv
    <3>3. Timed(d) => Timed(d)'
      BY <2>3, <3>1, <3>2, NoneAssumption DEF Timed
    <3>4. QED
      BY <1>1, <2>8, <3>1, <3>3, Zenon DEF Covered, Told
  <2>9. SessionsCovered'
    BY <2>2, <2>7, <2>8, Zenon DEF SessionsCovered
  <2>10. QED
    BY <1>4, <1>5, <2>4, <2>5, <2>6, <2>9 DEF IInv
<1>9. QED
  BY <1>7, <1>8, Zenon DEF ReceiveNew


\* The retries that are due are in the pass; the deadline is that of the others.
LEMMA ReleaseRetryInv == ASSUME IInv, ReleaseRetry PROVE IInv'
<1> DEFINE now == {c \in Clients : session[c] # None /\ session[c].retry = 0}
           rest == [c \in Clients |-> IF c \in now THEN [session[c] EXCEPT !.retry = None]
                                      ELSE session[c]]
<1>1. /\ pc = "events"
      /\ UNCHANGED <<open, flying, queue, lost, mail, watch, destroyed, checkNew>>
  BY DEF ReleaseRetry, kernelVars
<1>2. walk = {} /\ flagged = {} /\ memo = [p \in Ports |-> "?"]
  BY <1>1 DEF IInv, TypeOK, MemoSound
<1>3. DatagramsCovered'
  BY <1>1, Zenon DEF IInv, DatagramsCovered, MailCovered, Told
<1>4. CASE due # 0
  <2>1. pc' = "sleep" /\ UNCHANGED <<session, due, flagged, walk, memo, after>>
    BY <1>4 DEF ReleaseRetry, walkVars
  <2>2. TypeOK'
    BY <1>1, <1>2, <2>1, Zenon DEF IInv, TypeOK, Present
  <2>3. SessionsCovered'
    BY <1>1, <2>1, Zenon DEF IInv, SessionsCovered, Covered, Told, Timed
  <2>4. Watching' /\ LiveOpen'
    BY <1>1, <2>1, Zenon DEF IInv, Watching, LiveOpen
  <2>5. MemoSound'
    BY <1>2, <2>1, Durations DEF MemoSound
  <2>6. QED
    BY <1>3, <2>2, <2>3, <2>4, <2>5 DEF IInv
<1>5. CASE due = 0
  <2>1. /\ session' = rest /\ due' = NextDue(rest)
        /\ flagged' = {PortOf[c] : c \in now}
        /\ walk' = {c \in Clients : rest[c] # None /\ PortOf[c] \in {PortOf[d] : d \in now}}
        /\ after' = "sleep" /\ pc' = "walk" /\ memo' = memo
    BY <1>5, Zenon DEF ReleaseRetry, StartWalk
  <2>2. ASSUME NEW c \in Clients, session[c] # None
        PROVE  /\ rest[c] \in Sessions /\ rest[c] # None
               /\ rest[c].live = session[c].live /\ rest[c].unknown = session[c].unknown
               /\ c \notin now => rest[c] = session[c]
    <3>1. session[c] \in Sessions
      BY <2>2, SessionTyped DEF IInv
    <3>2. [session[c] EXCEPT !.retry = None] \in Sessions
      BY <3>1 DEF Sessions
    <3>3. QED
      BY <3>1, <3>2, NoneAssumption DEF Sessions
  <2>3. \A c \in Clients : session[c] = None => rest[c] = None
    OBVIOUS
  <2>4. rest \in [Clients -> Sessions \cup {None}]
    BY <2>2, <2>3
  <2> DEFINE times == RetryTimes(rest)
  <2>5. times \subseteq Nat /\ times \subseteq 0..Retry
    <3>1. \A c \in Clients : rest[c] # None => rest[c].retry \in 0..Retry \cup {None}
      BY <2>4, Zenon DEF Sessions
    <3>2. times \subseteq 0..Retry
      BY <3>1, Zenon DEF RetryTimes
    <3>3. QED
      BY <3>2, Durations
  <2>6. /\ NextDue(rest) \in 0..Retry \cup {None}
        /\ \A t \in times : NextDue(rest) # None /\ NextDue(rest) <= t
    <3>1. CASE times = {}
      BY <3>1 DEF NextDue
    <3>2. CASE times # {}
      <4>1. Min(times) \in times /\ \A t \in times : Min(times) <= t
        BY <2>5, <3>2, EarliestTime
      <4>2. NextDue(rest) = Min(times)
        BY <3>2 DEF NextDue
      <4>3. QED
        BY <2>5, <4>1, <4>2, NoneAssumption
    <3>3. QED
      BY <3>1, <3>2
  <2> HIDE DEF rest
  <2>7. TypeOK'
    <3>1. \A c \in Clients : PortOf[c] \in Ports
      BY Durations
    <3>2. walk' \subseteq Present'
      BY <2>1, Zenon DEF Present
    <3>3. flagged' \subseteq Ports
      BY <2>1, <3>1, Zenon
    <3>4. due' \in 0..Retry \cup {None} /\ session' \in [Clients -> Sessions \cup {None}]
      BY <2>1, <2>4, <2>6, Zenon
    <3>5. memo' \in [Ports -> {"?", "open", "closed", "error"}]
      BY <2>1 DEF IInv, TypeOK
    <3>6. pc' = "walk" /\ after' = "sleep"
      BY <2>1
    <3>7. QED
      BY <1>1, <3>2, <3>3, <3>4, <3>5, <3>6, Zenon DEF IInv, TypeOK
  <2>8. SessionsCovered'
    <3> SUFFICES ASSUME NEW c \in Clients, session[c] # None PROVE Covered(c)'
      BY <2>1, <2>3 DEF SessionsCovered
    <3>1. Covered(c)
      BY DEF IInv, SessionsCovered
    <3>2. CASE c \in now
      <4>1. c \in walk'
        BY <2>1, <2>2, <3>2, Zenon
      <4>2. QED
        BY <4>1 DEF Covered
    <3>3. CASE c \notin now
      <4>1. session'[c] = session[c] /\ session[c] = rest[c]
        BY <2>1, <2>2, <3>3
      <4>2. Timed(c) => Timed(c)'
        <5> SUFFICES ASSUME Timed(c) PROVE Timed(c)'
          OBVIOUS
        <5>1. session[c].retry # None
          BY DEF Timed
        <5>2. session[c].retry \in times
          BY <4>1, <5>1, Zenon DEF RetryTimes
        <5>3. QED
          BY <2>1, <2>6, <4>1, <5>1, <5>2 DEF Timed
      <4>3. QED
        BY <1>1, <1>2, <3>1, <4>1, <4>2, Zenon DEF Covered, Told
    <3>4. QED
      BY <3>2, <3>3
  <2>9. Watching' /\ LiveOpen'
    BY <1>1, <2>1, <2>2, <2>3, Zenon DEF IInv, Watching, LiveOpen
  <2>10. MemoSound'
    BY <1>2, <2>1, Durations DEF MemoSound
  <2>11. QED
    BY <1>3, <2>7, <2>8, <2>9, <2>10 DEF IInv
<1>6. QED
  BY <1>4, <1>5

\* A worker without sessions may stop watching before it sleeps.
LEMMA DisarmInv == ASSUME IInv, Disarm PROVE IInv'
<1>1. /\ pc = "sleep" /\ pc' = "wait"
      /\ UNCHANGED <<open, flying, queue, lost, mail, session, flagged, destroyed, checkNew, due,
                     walk, memo, after>>
  BY DEF Disarm, walkVars, kernelVars
<1>2. watch' = watch \/ (watch' = "off" /\ Present = {})
  BY DEF Disarm
<1>3. TypeOK'
  BY <1>1, <1>2, Zenon DEF IInv, TypeOK, Present
<1>4. \A c \in Clients : session[c] # None => watch' = watch
  BY <1>2, Zenon DEF Present
<1>5. SessionsCovered' /\ Watching'
  BY <1>1, <1>4, Zenon DEF IInv, SessionsCovered, Watching, Covered, Told, Timed
<1>6. DatagramsCovered'
  BY <1>1, Zenon DEF IInv, DatagramsCovered, MailCovered, Told
<1>7. LiveOpen' /\ MemoSound'
  BY <1>1, Zenon DEF IInv, LiveOpen, MemoSound, Told
<1>8. QED
  BY <1>3, <1>5, <1>6, <1>7 DEF IInv


-----------------------------------------------------------------------------
(* The whole component. *)

\* Every step of the worker, the clients or the kernel keeps the invariant.
LEMMA InvNext == IInv /\ [Next]_vars => IInv'
<1> SUFFICES ASSUME IInv, [Next]_vars PROVE IInv'
  OBVIOUS
<1>1. ASSUME NEW p \in Ports, OpenSocket(p) \/ CloseSocket(p) \/ Notify(p) PROVE IInv'
  BY <1>1, OpenSocketInv, CloseSocketInv, NotifyInv
<1>2. ASSUME NEW c \in Clients,
             SendDatagram(c) \/ ReceiveKnown(c) \/ ReceiveNew(c) \/ Reply(c) \/ End(c)
      PROVE  IInv'
  BY <1>2, SendDatagramInv, ReceiveKnownInv, ReceiveNewInv, ReplyInv, EndInv
<1>3. CASE Tick \/ Wake \/ HandleEvents \/ EndWalk \/ ReleaseRetry \/ Disarm
  BY <1>3, TickInv, WakeInv, HandleEventsInv, EndWalkInv, ReleaseRetryInv, DisarmInv
<1>4. ASSUME NEW c \in Clients, Postpone(c) \/ Decide(c) PROVE IInv'
  BY <1>4, PostponeInv, DecideInv
<1>5. CASE UNCHANGED vars
  <2>1. UNCHANGED <<open, flying, queue, lost, mail, watch, session, flagged, destroyed, checkNew,
                    due, pc, walk, memo, after>>
    BY <1>5 DEF vars, kernelVars, walkVars
  <2>2. QED
    BY <2>1, Zenon DEF IInv, TypeOK, Present, SessionsCovered, DatagramsCovered, Watching, LiveOpen,
       MemoSound, Covered, MailCovered, Told, Timed
<1>6. QED
  BY <1>1, <1>2, <1>3, <1>4, <1>5 DEF Next

\* The invariant behind the theorems: every session and every queued datagram has a
\* reason why a close of its port will be acted on, and an answer of the kernel that
\* a pass still uses has not become a wrong reason to drop a session.
THEOREM InvHolds == Spec => []IInv
BY InvInit, InvNext, PTL DEF Spec

\* release_flagged_sessions forgets no session: while the worker sleeps, every session
\* whose port is closed has a notification or a deadline to come, for every retry
\* interval and every delay of datagrams shorter than the window of recent closes.
THEOREM NoSessionForgotten == Spec => []NoneForgotten
<1>1. IInv => NoneForgotten
  <2> SUFFICES ASSUME IInv, pc = "wait", NEW c \in Clients, session[c] # None
               PROVE  \/ PortOf[c] \in open \cup flying
                      \/ watch # "off" /\ (watch = "failed" \/ PortOf[c] \in queue \/ lost)
                      \/ session[c].retry # None /\ due # None /\ due <= session[c].retry
                      \/ session[c].unknown
    BY Zenon DEF NoneForgotten, Present, IInv
  <2>1. Covered(c) /\ watch # "off" /\ walk = {}
    BY DEF IInv, SessionsCovered, Watching, TypeOK
  <2>2. QED
    BY <2>1 DEF Covered, Told, Timed
<1>2. QED
  BY <1>1, InvHolds, PTL

\* release_flagged_sessions drops no session in use: the answers of the kernel that it
\* reuses within a pass (release_port_results) are not stale enough to hurt, although
\* clients open and close sockets during the pass.
THEOREM UsersAreKept == Spec => UsersKept
<1> DEFINE kept == \A c \in Clients :
                    pc = "walk" /\ session[c] # None /\ session'[c] = None => ~session[c].live
<1>1. IInv /\ [Next]_vars => [kept]_vars
  <2> SUFFICES ASSUME IInv, Next, NEW c \in Clients, pc = "walk", session[c] # None,
                      session'[c] = None
               PROVE  ~session[c].live
    BY Zenon
  <2>1. ASSUME NEW d \in Clients, Decide(d) PROVE ~session[c].live
    <3>1. PICK s \in {"open", "closed", "error"} :
            /\ session' = [session EXCEPT ![d] = IF s = "closed" THEN None
                                                 ELSE [session[d] EXCEPT !.unknown = s = "error"]]
            /\ s = "closed" =>
                \A e \in Clients : PortOf[e] = PortOf[d] /\ session[e] # None => ~session[e].live
      BY <2>1, DecideAnswer
    <3>2. CASE c # d
      BY <3>1, <3>2 DEF IInv, TypeOK
    <3>3. CASE c = d /\ s = "closed"
      BY <3>1, <3>3
    <3>4. CASE c = d /\ s # "closed"
      <4>1. session'[c] = [session[c] EXCEPT !.unknown = s = "error"]
        BY <3>1, <3>4 DEF IInv, TypeOK
      <4>2. session[c] \in Sessions /\ (s = "error") \in BOOLEAN
        BY SessionTyped DEF IInv
      <4>3. session'[c] \in Sessions
        BY <4>1, <4>2, Zenon DEF Sessions
      <4>4. QED
        BY <4>3, NoneAssumption
    <3>5. QED
      BY <3>2, <3>3, <3>4
  <2>2. ASSUME NEW p \in Ports, CloseSocket(p) PROVE FALSE
    <3>1. session'[c] = IF PortOf[c] = p /\ session[c] # None
                        THEN [session[c] EXCEPT !.live = FALSE] ELSE session[c]
      BY <2>2 DEF CloseSocket
    <3>2. session[c] \in Sessions
      BY SessionTyped DEF IInv
    <3>3. [session[c] EXCEPT !.live = FALSE] \in Sessions
      BY <3>2, Zenon DEF Sessions
    <3>4. QED
      BY <3>1, <3>3, NoneAssumption
  <2>3. ASSUME NEW d \in Clients, Postpone(d) PROVE FALSE
    <3>1. session' = [session EXCEPT ![d] = [session[d] EXCEPT !.retry = Retry]]
      BY <2>3 DEF Postpone
    <3>2. CASE c # d
      BY <3>1, <3>2 DEF IInv, TypeOK
    <3>3. CASE c = d
      <4>1. session'[c] = [session[c] EXCEPT !.retry = Retry]
        BY <3>1, <3>3 DEF IInv, TypeOK
      <4>2. session[c] \in Sessions /\ Retry \in 0..Retry
        BY SessionTyped, Durations DEF IInv
      <4>3. session'[c] \in Sessions
        BY <4>1, <4>2 DEF Sessions
      <4>4. QED
        BY <4>3, NoneAssumption
    <3>4. QED
      BY <3>2, <3>3
  <2>4. ASSUME NEW p \in Ports, OpenSocket(p) \/ Notify(p) PROVE FALSE
    BY <2>4 DEF OpenSocket, Notify
  <2>5. ASSUME NEW d \in Clients, SendDatagram(d) PROVE FALSE
    BY <2>5 DEF SendDatagram
  <2>6. ASSUME EndWalk PROVE FALSE
    BY <2>6 DEF EndWalk
  \* The other handlers do not run during a pass.
  <2>7. /\ ~Tick /\ ~Wake /\ ~HandleEvents /\ ~ReleaseRetry /\ ~Disarm
        /\ \A d \in Clients : ~ReceiveKnown(d) /\ ~ReceiveNew(d) /\ ~Reply(d) /\ ~End(d)
    BY Zenon DEF Tick, Wake, HandleEvents, ReleaseRetry, Disarm, ReceiveKnown, ReceiveNew, Reply, End
  <2>8. QED
    BY <2>1, <2>2, <2>3, <2>4, <2>5, <2>6, <2>7, Zenon DEF Next
<1>2. QED
  BY <1>1, InvHolds, PTL DEF Spec, UsersKept
=============================================================================
