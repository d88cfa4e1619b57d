------------------------------ MODULE UdpBudget ------------------------------
(***************************************************************************)
(* The memory budget shared by the UDP threads of all workers              *)
(* (bridge/udp_budget.c) and the part of each thread's event loop that     *)
(* takes from it, gives back to it, and sleeps while it is exhausted       *)
(* (bridge/udp.c, bridge/udp_downlink.c).                                  *)
(*                                                                         *)
(* One step of a worker makes at most one access to an atomic shared with  *)
(* the other workers; what the thread computes locally around that access  *)
(* belongs to the same step.  Accesses take effect in program order here;  *)
(* UdpBudgetWeak drops that assumption where the code's memory orders do.  *)
(*                                                                         *)
(* Byte counts are abstract: a datagram costs 1..Slot bytes, and Slot is   *)
(* the largest allocation one datagram can need.                           *)
(***************************************************************************)
EXTENDS Integers, FiniteSets

CONSTANTS
    Workers,        \* UDP threads, one per worker
    Sessions,       \* client sessions of a worker whose relay is being read
    DnsChannels,    \* DNS channels of a worker whose relay is being read
    Cap,            \* cap_bytes
    Slot,           \* bpf2socks_udp_downlink_max_allocation()
    Batch,          \* batch_size: datagrams one read may return
    NoRelay         \* the reservation in progress is not for a relay read

Relays == Sessions \cup DnsChannels

\* init_state refuses to start a worker whose budget cannot hold one slot.
ASSUME BudgetAssumption ==
    /\ IsFiniteSet(Workers)
    /\ Cap \in Nat
    /\ Slot \in Nat \ {0}
    /\ Slot <= Cap
    /\ Batch \in Nat \ {0}
    /\ Sessions \cap DnsChannels = {}
    /\ NoRelay \notin Relays

VARIABLES
    used,       \* used_bytes
    waiting,    \* waiting_workers, as a set of workers
    wake,       \* workers whose eventfd counter is not zero
    pc,         \* where each worker's thread is
    call,       \* locals of the reserve or release in progress
    woken,      \* `waiters' taken by wake_pending_budget_waiters, not written yet
    paused,     \* relays not polled because the budget was exhausted
    queued,     \* bytes of the packets queued by each worker
    reserved    \* downlink_read_reservation

vars == <<used, waiting, wake, pc, call, woken, paused, queued, reserved>>

Labels == {"poll", "batch", "reserve", "reserve_cas", "recv", "flush",
           "release", "release_cas", "wake_load", "wake_xchg", "wake_write",
           "resume_dns", "resume_sessions", "expire", "register",
           "recheck_dns", "recheck_sessions"}

\* relay: the relay a read is reserving for, or NoRelay; slots: `candidate' of
\* reserve_slots; want: `bytes'; seen: `used' as last loaded by the
\* compare-and-swap loop; ret: where a release returns to.
Calls == [relay : Relays \cup {NoRelay}, slots : Nat, want : Nat, seen : Nat,
          ret : {"batch", "flush", "expire"}]

Call(r, candidate, bytes, label) ==
    [relay |-> r, slots |-> candidate, want |-> bytes, seen |-> 0, ret |-> label]

NoCall == Call(NoRelay, 0, 0, "batch")

\* The budget, the registrations and the locals of the threads have their types.
TypeOK ==
    /\ used \in Nat
    /\ waiting \subseteq Workers
    /\ wake \subseteq Workers
    /\ pc \in [Workers -> Labels]
    /\ call \in [Workers -> Calls]
    /\ woken \in [Workers -> SUBSET Workers]
    /\ paused \in [Workers -> SUBSET Relays]
    /\ queued \in [Workers -> Nat]
    /\ reserved \in [Workers -> Nat]

Init ==
    /\ used = 0
    /\ waiting = {}
    /\ wake = {}
    /\ pc = [w \in Workers |-> "poll"]
    /\ call = [w \in Workers |-> NoCall]
    /\ woken = [w \in Workers |-> {}]
    /\ paused = [w \in Workers |-> {}]
    /\ queued = [w \in Workers |-> 0]
    /\ reserved = [w \in Workers |-> 0]

Goto(w, label) == pc' = [pc EXCEPT ![w] = label]

\* The reserve or release in progress returns; its locals are gone.
Return(w, label) == Goto(w, label) /\ call' = [call EXCEPT ![w] = NoCall]

\* Mutant: compares what is in use with the cap, not with what would be left.
FitsBefore(inUse, bytes) == bytes <= Cap /\ inUse < Cap

\* The test of bpf2socks_udp_budget_reserve.
Fits(inUse, bytes) == bytes <= Cap /\ inUse <= Cap - bytes

\* Mutant: a load and a store in place of the compare-and-swap.
CasAlways(w) == TRUE

\* The compare-and-swap of both loops: nobody changed `used' since the load.
CasSucceeds(w) == used = call[w].seen

\* The test of bpf2socks_udp_downlink_resume_budget_waiters.
Room == used <= Cap - Slot

-----------------------------------------------------------------------------
(* epoll_wait and the dispatch of the events it returned. *)

Pollable(w) ==
    {"client"}
        \cup (Relays \ paused[w])
        \cup (IF w \in wake THEN {"wake"} ELSE {})
        \cup (IF queued[w] > 0 THEN {"flush"} ELSE {})

\* epoll_wait returns: something is ready, or a deadline passed.
EpollWait(w) ==
    /\ pc[w] = "poll"
    /\ Goto(w, "batch")
    /\ UNCHANGED <<used, waiting, wake, call, woken, paused, queued, reserved>>

\* The loop over the returned events handles one of them.
Take(w, event) ==
    /\ pc[w] = "batch"
    /\ event \in Pollable(w)

\* The worker's own eventfd: its counter is read back to zero.
HandleWake(w) ==
    /\ Take(w, "wake")
    /\ wake' = wake \ {w}
    /\ UNCHANGED <<used, waiting, pc, call, woken, paused, queued, reserved>>

\* A readable relay: handle_udp_upstream_packets or bpf2socks_udp_dns_handle_upstream
\* first reserves room for a full batch.
HandleUpstream(w, r) ==
    /\ Take(w, r)
    /\ call' = [call EXCEPT ![w] = Call(r, Batch, Batch * Slot, "batch")]
    /\ Goto(w, "reserve")
    /\ UNCHANGED <<used, waiting, wake, woken, paused, queued, reserved>>

\* A datagram from a client whose ASSOCIATE is not finished is to be queued.
HandleClient(w, bytes) ==
    /\ Take(w, "client")
    /\ call' = [call EXCEPT ![w] = Call(NoRelay, 0, bytes, "batch")]
    /\ Goto(w, "reserve")
    /\ UNCHANGED <<used, waiting, wake, woken, paused, queued, reserved>>

\* A client socket became writable, or an ASSOCIATE finished.
HandleFlush(w) ==
    /\ Take(w, "flush")
    /\ Goto(w, "flush")
    /\ UNCHANGED <<used, waiting, wake, call, woken, paused, queued, reserved>>

\* The control connection of a session or DNS channel ended: it is closed, and
\* its slot is polled again once it serves another association.
CloseRelay(w, r) ==
    /\ pc[w] = "batch"
    /\ r \in paused[w]
    /\ paused' = [paused EXCEPT ![w] = @ \ {r}]
    /\ UNCHANGED <<used, waiting, wake, pc, call, woken, queued, reserved>>

\* The returned events are handled (there may be none): maintenance runs.
BatchDone(w) ==
    /\ pc[w] = "batch"
    /\ Goto(w, "resume_dns")
    /\ UNCHANGED <<used, waiting, wake, call, woken, paused, queued, reserved>>

-----------------------------------------------------------------------------
(* bpf2socks_udp_budget_reserve: a load, then a compare-and-swap loop. *)

Reserve(w) ==
    /\ pc[w] = "reserve"
    /\ Fits(used, call[w].want)
    /\ call' = [call EXCEPT ![w].seen = used]
    /\ Goto(w, "reserve_cas")
    /\ UNCHANGED <<used, waiting, wake, woken, paused, queued, reserved>>

\* ENOBUFS with slots to spare: reserve_slots asks for half as many.
ReserveFewer(w) ==
    /\ pc[w] = "reserve"
    /\ ~Fits(used, call[w].want)
    /\ call[w].relay # NoRelay
    /\ call[w].slots # 1
    /\ LET candidate == (call[w].slots + 1) \div 2
       IN  call' = [call EXCEPT ![w] = Call(@.relay, candidate, candidate * Slot, "batch")]
    /\ UNCHANGED <<used, waiting, wake, pc, woken, paused, queued, reserved>>

\* ENOBUFS for a single slot: the relay is marked waiting and not polled.
ReservePause(w) ==
    /\ pc[w] = "reserve"
    /\ ~Fits(used, call[w].want)
    /\ call[w].relay # NoRelay
    /\ call[w].slots = 1
    /\ paused' = [paused EXCEPT ![w] = @ \cup {call[w].relay}]
    /\ Return(w, "batch")
    /\ UNCHANGED <<used, waiting, wake, woken, queued, reserved>>

\* ENOBUFS for a datagram from a client: it is dropped.
ReserveDrop(w) ==
    /\ pc[w] = "reserve"
    /\ ~Fits(used, call[w].want)
    /\ call[w].relay = NoRelay
    /\ Return(w, "batch")
    /\ UNCHANGED <<used, waiting, wake, woken, paused, queued, reserved>>

ReserveRetry(w) ==
    /\ pc[w] = "reserve_cas"
    /\ ~CasSucceeds(w)
    /\ Goto(w, "reserve")
    /\ UNCHANGED <<used, waiting, wake, call, woken, paused, queued, reserved>>

\* The swap succeeds.  A relay read keeps the bytes as its reservation; a
\* client datagram is queued, unless malloc fails and the bytes go back.
ReserveCas(w) ==
    /\ pc[w] = "reserve_cas"
    /\ CasSucceeds(w)
    /\ used' = call[w].seen + call[w].want
    /\ \/ /\ call[w].relay # NoRelay
          /\ reserved' = [reserved EXCEPT ![w] = call[w].want]
          /\ Goto(w, "recv")
          /\ UNCHANGED <<queued, call>>
       \/ /\ call[w].relay = NoRelay
          /\ queued' = [queued EXCEPT ![w] = @ + call[w].want]
          /\ Return(w, "batch")
          /\ UNCHANGED reserved
       \/ /\ call[w].relay = NoRelay
          /\ Goto(w, "release")
          /\ UNCHANGED <<queued, call, reserved>>
    /\ UNCHANGED <<waiting, wake, woken, paused>>

-----------------------------------------------------------------------------
(* bpf2socks_udp_budget_release and wake_pending_budget_waiters. *)

\* Starts the release of `bytes', or not when there is nothing to release.
StartRelease(w, bytes, label) ==
    IF bytes = 0
    THEN Return(w, label)
    ELSE /\ Goto(w, "release")
         /\ call' = [call EXCEPT ![w] = Call(NoRelay, 0, bytes, label)]

\* The relay read returned and its datagrams were sent on: a session keeps
\* `kept' bytes of the reservation for the ones its client's socket refused, a
\* DNS channel none.  What is left of the reservation is released.
Recv(w, kept) ==
    /\ pc[w] = "recv"
    /\ kept <= reserved[w]
    /\ call[w].relay \in DnsChannels => kept = 0
    /\ queued' = [queued EXCEPT ![w] = @ + kept]
    /\ reserved' = [reserved EXCEPT ![w] = 0]
    /\ StartRelease(w, reserved[w] - kept, "batch")
    /\ UNCHANGED <<used, waiting, wake, woken, paused>>

\* Queued packets are sent, or dropped with their session, one release each:
\* while handling the event ("flush"), or in maintenance ("expire").
ReleasePacket(w, bytes) ==
    /\ pc[w] \in {"flush", "expire"}
    /\ bytes <= queued[w]
    /\ queued' = [queued EXCEPT ![w] = @ - bytes]
    /\ StartRelease(w, bytes, pc[w])
    /\ UNCHANGED <<used, waiting, wake, woken, paused, reserved>>

ReleasesDone(w) ==
    /\ pc[w] \in {"flush", "expire"}
    /\ Goto(w, IF pc[w] = "flush" THEN "batch" ELSE "register")
    /\ UNCHANGED <<used, waiting, wake, call, woken, paused, queued, reserved>>

\* ERANGE is ignored by the callers: the bytes stay counted.
Release(w) ==
    /\ pc[w] = "release"
    /\ IF call[w].want <= used
       THEN Goto(w, "release_cas") /\ call' = [call EXCEPT ![w].seen = used]
       ELSE Return(w, call[w].ret)
    /\ UNCHANGED <<used, waiting, wake, woken, paused, queued, reserved>>

ReleaseRetry(w) ==
    /\ pc[w] = "release_cas"
    /\ ~CasSucceeds(w)
    /\ Goto(w, "release")
    /\ UNCHANGED <<used, waiting, wake, call, woken, paused, queued, reserved>>

ReleaseCas(w) ==
    /\ pc[w] = "release_cas"
    /\ CasSucceeds(w)
    /\ used' = call[w].seen - call[w].want
    /\ Goto(w, "wake_load")
    /\ UNCHANGED <<waiting, wake, call, woken, paused, queued, reserved>>

WakeLoad(w) ==
    /\ pc[w] = "wake_load"
    /\ IF waiting = {} THEN Return(w, call[w].ret)
                       ELSE Goto(w, "wake_xchg") /\ UNCHANGED call
    /\ UNCHANGED <<used, waiting, wake, woken, paused, queued, reserved>>

WakeExchange(w) ==
    /\ pc[w] = "wake_xchg"
    /\ woken' = [woken EXCEPT ![w] = waiting]
    /\ waiting' = {}
    /\ Goto(w, "wake_write")
    /\ UNCHANGED <<used, wake, call, paused, queued, reserved>>

WakeWrite(w, v) ==
    /\ pc[w] = "wake_write"
    /\ v \in woken[w]
    /\ woken' = [woken EXCEPT ![w] = @ \ {v}]
    /\ wake' = wake \cup {v}
    /\ UNCHANGED <<used, waiting, pc, call, paused, queued, reserved>>

WakeDone(w) ==
    /\ pc[w] = "wake_write"
    /\ woken[w] = {}
    /\ Return(w, call[w].ret)
    /\ UNCHANGED <<used, waiting, wake, woken, paused, queued, reserved>>

-----------------------------------------------------------------------------
(* udp_run_maintenance: resume what fits, expire, and when a relay still    *)
(* waits, register and look at the budget once more before sleeping.        *)

\* One load decides for the DNS channels, a second one for the sessions.
Resume(w, here, relays, next) ==
    /\ pc[w] = here
    /\ paused' = [paused EXCEPT ![w] = IF Room THEN @ \ relays ELSE @]
    /\ Goto(w, next)
    /\ UNCHANGED <<used, waiting, wake, call, woken, queued, reserved>>

ResumeDns(w) == Resume(w, "resume_dns", DnsChannels, "resume_sessions")
ResumeSessions(w) == Resume(w, "resume_sessions", Sessions, "expire")
RecheckDns(w) == Resume(w, "recheck_dns", DnsChannels, "recheck_sessions")

\* Mutant: sleeps after registering without a second look.
RecheckSessionsSkipped(w) ==
    /\ pc[w] = "recheck_sessions"
    /\ Goto(w, "poll")
    /\ UNCHANGED <<used, waiting, wake, call, woken, paused, queued, reserved>>

RecheckSessions(w) == Resume(w, "recheck_sessions", Sessions, "poll")

Register(w) ==
    /\ pc[w] = "register"
    /\ waiting' = IF paused[w] # {} THEN waiting \cup {w} ELSE waiting
    /\ Goto(w, IF paused[w] # {} THEN "recheck_dns" ELSE "poll")
    /\ UNCHANGED <<used, wake, call, woken, paused, queued, reserved>>

-----------------------------------------------------------------------------
Reserving(w) == Reserve(w) \/ ReserveFewer(w) \/ ReservePause(w) \/ ReserveDrop(w)
                    \/ ReserveRetry(w) \/ ReserveCas(w)

Releasing(w) == \/ Release(w) \/ ReleaseRetry(w) \/ ReleaseCas(w)
                \/ WakeLoad(w) \/ WakeExchange(w) \/ WakeDone(w)
                \/ \E v \in Workers : WakeWrite(w, v)

Maintaining(w) == \/ ResumeDns(w) \/ ResumeSessions(w) \/ Register(w)
                  \/ RecheckDns(w) \/ RecheckSessions(w)

Handling(w) == \/ HandleWake(w) \/ HandleFlush(w) \/ BatchDone(w) \/ ReleasesDone(w)
               \/ \E r \in Relays : HandleUpstream(w, r)
               \/ \E bytes \in 1..Slot : HandleClient(w, bytes) \/ ReleasePacket(w, bytes)
               \/ \E kept \in 0..(Batch * Slot) : Recv(w, kept)

\* What the thread does between two calls of epoll_wait.
Run(w) == Handling(w) \/ Reserving(w) \/ Releasing(w) \/ Maintaining(w)

Next ==
    \E w \in Workers :
        \/ Run(w)
        \/ EpollWait(w)
        \/ \E r \in Relays : CloseRelay(w, r)

Spec == Init /\ [][Next]_vars

-----------------------------------------------------------------------------
(* Properties. *)

\* Bytes a worker holds: queued, reserved, or on their way back.
Held(w) ==
    queued[w] + reserved[w]
        + (IF pc[w] \in {"release", "release_cas"} THEN call[w].want ELSE 0)

\* All those bytes, each named by its holder and a number.
HeldBytes == UNION {{w} \X (1..Held(w)) : w \in Workers}

\* The budget is never exceeded, whatever the interleaving of the
\* compare-and-swap loops of bpf2socks_udp_budget_reserve.
WithinCap == used <= Cap

\* used_bytes is exactly what the workers hold: no reservation is lost or
\* counted twice between the read reservation, the queues and the release, so
\* bpf2socks_udp_budget_release never refuses with ERANGE.
AccountingExact == used = Cardinality(HeldBytes)

\* A worker the releases in progress will still wake: its eventfd is signalled,
\* it is among the waiters a releaser has taken, or it is registered and a
\* releaser has yet to look at the registrations.
WakeComing(w) ==
    \/ w \in wake
    \/ \E v \in Workers : pc[v] = "wake_write" /\ w \in woken[v]
    \/ w \in waiting /\ \E v \in Workers : pc[v] \in {"wake_load", "wake_xchg"}

\* A worker that sleeps in epoll_wait with a relay paused for the budget, while
\* the budget has room for it, is about to be woken: a release concurrent with
\* udp_run_maintenance is never missed.
NoLostWakeup ==
    \A w \in Workers :
        pc[w] = "poll" /\ paused[w] # {} /\ Room => WakeComing(w)
=============================================================================
