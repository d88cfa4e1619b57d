--------------------------- MODULE UdpBudgetProofs ---------------------------
(***************************************************************************)
(* What UdpBudget promises, for any number of workers, sessions, DNS       *)
(* channels and any budget that holds one slot.                            *)
(***************************************************************************)
EXTENDS UdpBudget, FiniteSetTheorems, TLAPS

\* The bytes a compare-and-swap loop is about to apply passed their test.
LoopsChecked ==
    \A w \in Workers :
        /\ pc[w] = "reserve_cas" => Fits(call[w].seen, call[w].want)
        /\ pc[w] = "release_cas" => call[w].want <= call[w].seen

\* A worker that registered stays known to somebody until it wakes.
Known(w) ==
    \/ w \in waiting
    \/ w \in wake
    \/ \E v \in Workers : pc[v] = "wake_write" /\ w \in woken[v]

SleepersKnown ==
    \A w \in Workers :
        pc[w] \in {"recheck_dns", "recheck_sessions", "poll"} /\ paused[w] # {} => Known(w)

\* The paused relays whose last look at the budget before sleeping is over.
Settled(w) ==
    CASE pc[w] = "poll" -> paused[w]
      [] pc[w] = "recheck_sessions" -> paused[w] \cap DnsChannels
      [] OTHER -> {}

\* If room appeared after that look, its releaser has yet to look for waiters.
ReleaserComing ==
    \A w \in Workers :
        Settled(w) # {} /\ Room /\ w \in waiting =>
            \E v \in Workers : pc[v] \in {"wake_load", "wake_xchg"}

IInv == TypeOK /\ WithinCap /\ LoopsChecked /\ SleepersKnown /\ ReleaserComing

\* Every step of a worker keeps the types.
LEMMA TypeStep ==
  ASSUME TypeOK, LoopsChecked, NEW w \in Workers,
         \/ Run(w) \/ EpollWait(w) \/ \E r \in Relays : CloseRelay(w, r)
  PROVE  TypeOK'
  <1>a. /\ call[w] \in Calls
        /\ call[w].relay \in Relays \cup {NoRelay}
        /\ call[w].want \in Nat
        /\ call[w].seen \in Nat
        /\ call[w].ret \in {"batch", "flush", "expire"}
        /\ queued[w] \in Nat
        /\ reserved[w] \in Nat
    BY DEF TypeOK, Calls
  <1>b. NoCall \in Calls
    BY DEF NoCall, Call, Calls
  <1>c. \A n \in Nat : [call[w] EXCEPT !.seen = n] \in Calls
    BY <1>a DEF Calls
  <1>d. \A n \in Nat, l \in {"batch", "flush", "expire"} : Call(NoRelay, 0, n, l) \in Calls
    BY DEF Call, Calls
  <1>1. ASSUME HandleWake(w) PROVE TypeOK'
    BY <1>1 DEF HandleWake, Take, Goto, TypeOK, Labels
  <1>2. ASSUME HandleFlush(w) PROVE TypeOK'
    BY <1>2 DEF HandleFlush, Take, Goto, TypeOK, Labels
  <1>3. ASSUME BatchDone(w) PROVE TypeOK'
    BY <1>3 DEF BatchDone, Goto, TypeOK, Labels
  <1>4. ASSUME ReleasesDone(w) PROVE TypeOK'
    BY <1>4 DEF ReleasesDone, Goto, TypeOK, Labels
  <1>5. ASSUME NEW r \in Relays, HandleUpstream(w, r) PROVE TypeOK'
    BY <1>5, <1>a, BudgetAssumption DEF HandleUpstream, Take, Goto, TypeOK, Labels, Calls, Call
  <1>6. ASSUME NEW bytes \in 1..Slot, HandleClient(w, bytes) PROVE TypeOK'
    BY <1>6, <1>d DEF HandleClient, Take, Goto, TypeOK, Labels
  <1>7. ASSUME NEW bytes \in 1..Slot, ReleasePacket(w, bytes) PROVE TypeOK'
    BY <1>7, <1>a, <1>b, <1>d DEF ReleasePacket, StartRelease, Return, Goto, TypeOK, Labels
  <1>8. ASSUME NEW kept \in 0..(Batch * Slot), Recv(w, kept) PROVE TypeOK'
    BY <1>8, <1>a, <1>b, <1>d DEF Recv, StartRelease, Return, Goto, TypeOK, Labels
  <1>9. ASSUME Reserve(w) PROVE TypeOK'
    BY <1>9, <1>a, <1>c DEF Reserve, Goto, TypeOK, Labels
  <1>10. ASSUME ReserveFewer(w) PROVE TypeOK'
    BY <1>10, <1>a, BudgetAssumption DEF ReserveFewer, Goto, TypeOK, Labels, Calls, Call
  <1>11. ASSUME ReservePause(w) PROVE TypeOK'
    BY <1>11, <1>a, <1>b DEF ReservePause, Return, Goto, TypeOK, Labels
  <1>12. ASSUME ReserveDrop(w) PROVE TypeOK'
    BY <1>12, <1>a, <1>b DEF ReserveDrop, Return, Goto, TypeOK, Labels
  <1>13. ASSUME ReserveRetry(w) PROVE TypeOK'
    BY <1>13 DEF ReserveRetry, CasSucceeds, Goto, TypeOK, Labels
  <1>14. ASSUME ReserveCas(w) PROVE TypeOK'
    BY <1>14, <1>a, <1>b DEF ReserveCas, CasSucceeds, Return, Goto, TypeOK, Labels
  <1>15. ASSUME Release(w) PROVE TypeOK'
    BY <1>15, <1>a, <1>b, <1>c DEF Release, Return, Goto, TypeOK, Labels
  <1>16. ASSUME ReleaseRetry(w) PROVE TypeOK'
    BY <1>16 DEF ReleaseRetry, CasSucceeds, Goto, TypeOK, Labels
  <1>17. ASSUME ReleaseCas(w) PROVE TypeOK'
    BY <1>17, <1>a DEF ReleaseCas, CasSucceeds, Goto, TypeOK, Labels, LoopsChecked
  <1>18. ASSUME WakeLoad(w) PROVE TypeOK'
    BY <1>18, <1>a, <1>b DEF WakeLoad, Return, Goto, TypeOK, Labels
  <1>19. ASSUME WakeExchange(w) PROVE TypeOK'
    BY <1>19 DEF WakeExchange, Goto, TypeOK, Labels
  <1>20. ASSUME NEW v \in Workers, WakeWrite(w, v) PROVE TypeOK'
    BY <1>20 DEF WakeWrite, Goto, TypeOK, Labels
  <1>21. ASSUME WakeDone(w) PROVE TypeOK'
    BY <1>21, <1>a, <1>b DEF WakeDone, Return, Goto, TypeOK, Labels
  <1>22. ASSUME ResumeDns(w) PROVE TypeOK'
    BY <1>22 DEF ResumeDns, Resume, Goto, TypeOK, Labels
  <1>23. ASSUME ResumeSessions(w) PROVE TypeOK'
    BY <1>23 DEF ResumeSessions, Resume, Goto, TypeOK, Labels
  <1>24. ASSUME Register(w) PROVE TypeOK'
    BY <1>24 DEF Register, Goto, TypeOK, Labels
  <1>25. ASSUME RecheckDns(w) PROVE TypeOK'
    BY <1>25 DEF RecheckDns, Resume, Goto, TypeOK, Labels
  <1>26. ASSUME RecheckSessions(w) PROVE TypeOK'
    BY <1>26 DEF RecheckSessions, Resume, Goto, TypeOK, Labels
  <1>27. ASSUME EpollWait(w) PROVE TypeOK'
    BY <1>27 DEF EpollWait, Goto, TypeOK, Labels
  <1>28. ASSUME NEW r \in Relays, CloseRelay(w, r) PROVE TypeOK'
    BY <1>28 DEF CloseRelay, Goto, TypeOK, Labels
  <1> QED
    BY <1>1, <1>2, <1>3, <1>4, <1>5, <1>6, <1>7, <1>8, <1>9, <1>10, <1>11, <1>12, <1>13, <1>14, <1>15, <1>16, <1>17, <1>18, <1>19, <1>20, <1>21, <1>22, <1>23, <1>24, <1>25, <1>26, <1>27, <1>28 DEF Run, Handling, Reserving, Releasing, Maintaining

\* The compare-and-swap loops keep their tests valid, and with them the cap.
LEMMA LoopStep ==
  ASSUME TypeOK, WithinCap, LoopsChecked, NEW w \in Workers,
         \/ Run(w) \/ EpollWait(w) \/ \E r \in Relays : CloseRelay(w, r)
  PROVE  WithinCap' /\ LoopsChecked'
  <1> USE BudgetAssumption DEF TypeOK, WithinCap, LoopsChecked, Goto
  <1>a. \A u \in Workers : /\ call[u].want \in Nat
                           /\ call[u].seen \in Nat
                           /\ call[u].ret \in {"batch", "flush", "expire"}
    BY DEF Calls
  <1>1. CASE Reserve(w)
    BY <1>1, <1>a DEF Reserve, Calls, Fits
  <1>2. CASE ReserveCas(w)
    BY <1>2, <1>a DEF ReserveCas, CasSucceeds, Return, Fits
  <1>3. CASE Release(w)
    <2>1. CASE call[w].want <= used
      <3>1. pc' = [pc EXCEPT ![w] = "release_cas"] /\ call' = [call EXCEPT ![w].seen = used]
        BY <1>3, <2>1, Zenon DEF Release
      <3>2. call'[w].want = call[w].want /\ call'[w].seen = used
        BY <3>1 DEF Calls
      <3>3. \A u \in Workers \ {w} : pc'[u] = pc[u] /\ call'[u] = call[u]
        BY <3>1, Zenon
      <3>4. UNCHANGED used /\ pc'[w] = "release_cas"
        BY <1>3, <3>1, Zenon DEF Release
      <3> QED
        BY <1>a, <2>1, <3>2, <3>3, <3>4
    <2>2. CASE ~(call[w].want <= used)
      BY <1>3, <2>2, <1>a DEF Release, Return
    <2> QED
      BY <2>1, <2>2
  <1>4. CASE ReleaseCas(w)
    BY <1>4, <1>a DEF ReleaseCas, CasSucceeds
  <1>5. CASE ReserveFewer(w) \/ ReservePause(w) \/ ReserveDrop(w) \/ ReserveRetry(w)
    BY <1>5, <1>a DEF ReserveFewer, ReservePause, ReserveDrop, ReserveRetry, Return
  <1>6. CASE \/ ReleaseRetry(w) \/ WakeLoad(w) \/ WakeExchange(w) \/ WakeDone(w)
             \/ \E v \in Workers : WakeWrite(w, v)
    BY <1>6, <1>a DEF ReleaseRetry, WakeLoad, WakeExchange, WakeDone, WakeWrite, Return
  <1>7. CASE Maintaining(w)
    BY <1>7, <1>a DEF Maintaining, ResumeDns, ResumeSessions, RecheckDns, RecheckSessions,
                      Resume, Register
  <1>8. CASE Handling(w)
    BY <1>8, <1>a DEF Handling, HandleWake, HandleFlush, HandleUpstream, HandleClient, Take,
                      BatchDone, ReleasesDone, ReleasePacket, Recv, StartRelease, Return
  <1>9. CASE EpollWait(w) \/ \E r \in Relays : CloseRelay(w, r)
    BY <1>9, <1>a DEF EpollWait, CloseRelay
  <1> QED
    BY <1>1, <1>2, <1>3, <1>4, <1>5, <1>6, <1>7, <1>8, <1>9 DEF Run, Reserving, Releasing

\* A step of a worker that is awake before and after it, that does not add
\* room, leave the waking of others or touch their registrations, disturbs
\* no sleeper.
LEMMA QuietStep ==
  ASSUME TypeOK, SleepersKnown, ReleaserComing, NEW w \in Workers,
         pc[w] \notin {"wake_load", "wake_xchg", "wake_write"},
         pc'[w] \notin {"recheck_dns", "recheck_sessions", "poll"},
         \A u \in Workers \ {w} : pc'[u] = pc[u] /\ paused'[u] = paused[u],
         UNCHANGED <<waiting, woken>>,
         wake \ {w} \subseteq wake',
         Room' => Room
  PROVE  SleepersKnown' /\ ReleaserComing'
  <1>1. \A u \in Workers \ {w} : Known(u) => Known(u)'
    BY DEF Known
  <1>2. SleepersKnown'
    BY <1>1 DEF SleepersKnown
  <1>3. \A u \in Workers \ {w} : Settled(u)' = Settled(u)
    BY DEF Settled
  <1>4. Settled(w)' = {}
    BY DEF Settled
  <1>5. ReleaserComing'
    BY <1>3, <1>4 DEF ReleaserComing
  <1> QED
    BY <1>2, <1>5
\* No step makes a sleeper unknown or leaves room unannounced.
LEMMA WakeStep ==
  ASSUME TypeOK, LoopsChecked, SleepersKnown, ReleaserComing, NEW w \in Workers,
         \/ Run(w) \/ EpollWait(w) \/ \E r \in Relays : CloseRelay(w, r)
  PROVE  SleepersKnown' /\ ReleaserComing'
  <1> USE DEF TypeOK, Goto
  <1>a. /\ call[w].want \in Nat
        /\ call[w].seen \in Nat
        /\ call[w].ret \in {"batch", "flush", "expire"}
    BY DEF Calls
  <1>1. CASE \/ HandleWake(w) \/ HandleFlush(w) \/ BatchDone(w) \/ ReleasesDone(w)
             \/ \E r \in Relays : HandleUpstream(w, r) \/ CloseRelay(w, r)
             \/ \E bytes \in 1..Slot : HandleClient(w, bytes)
             \/ EpollWait(w)
    BY <1>1, QuietStep DEF HandleWake, HandleFlush, BatchDone, ReleasesDone, HandleUpstream,
                           HandleClient, CloseRelay, EpollWait, Take, Room
  <1>2. CASE \/ \E bytes \in 1..Slot : ReleasePacket(w, bytes)
             \/ \E kept \in 0..(Batch * Slot) : Recv(w, kept)
    BY <1>2, QuietStep DEF ReleasePacket, Recv, StartRelease, Return, Room
  <1>3. CASE Reserving(w)
    BY <1>3, <1>a, QuietStep, BudgetAssumption
       DEF Reserving, Reserve, ReserveFewer, ReservePause, ReserveDrop, ReserveRetry,
           ReserveCas, CasSucceeds, Return, Room
  <1>4. CASE Release(w) \/ ReleaseRetry(w)
    BY <1>4, <1>a, QuietStep DEF Release, ReleaseRetry, Return, Room
  <1>5. CASE ResumeDns(w) \/ ResumeSessions(w)
    BY <1>5, QuietStep DEF ResumeDns, ResumeSessions, Resume, Room
  <1>6. CASE ReleaseCas(w)
    <2>1. SleepersKnown'
      BY <1>6 DEF ReleaseCas, SleepersKnown, Known
    <2>2. pc'[w] = "wake_load"
      BY <1>6 DEF ReleaseCas
    <2> QED
      BY <2>1, <2>2 DEF ReleaserComing
  <1>7. CASE WakeLoad(w)
    <2>1. SleepersKnown'
      BY <1>7, <1>a DEF WakeLoad, Return, SleepersKnown, Known
    <2>2. CASE waiting = {}
      BY <1>7, <2>1, <2>2 DEF WakeLoad, ReleaserComing
    <2>3. CASE waiting # {}
      BY <1>7, <2>1, <2>3 DEF WakeLoad, ReleaserComing
    <2> QED
      BY <2>2, <2>3
  <1>8. CASE WakeExchange(w)
    <2>1. \A u \in Workers : Known(u) => Known(u)'
      BY <1>8 DEF WakeExchange, Known
    <2>2. SleepersKnown'
      BY <1>8, <2>1 DEF WakeExchange, SleepersKnown
    <2>3. ReleaserComing'
      BY <1>8 DEF WakeExchange, ReleaserComing
    <2> QED
      BY <2>2, <2>3
  <1>9. ASSUME NEW v \in Workers, WakeWrite(w, v)
        PROVE  SleepersKnown' /\ ReleaserComing'
    <2>1. \A u \in Workers : Known(u) => Known(u)'
      BY <1>9 DEF WakeWrite, Known
    <2>2. SleepersKnown'
      BY <1>9, <2>1 DEF WakeWrite, SleepersKnown
    <2>3. ReleaserComing'
      BY <1>9 DEF WakeWrite, ReleaserComing, Settled, Room
    <2> QED
      BY <2>2, <2>3
  <1>10. CASE WakeDone(w)
    <2>1. \A u \in Workers : Known(u) => Known(u)'
      BY <1>10 DEF WakeDone, Return, Known
    <2>2. SleepersKnown'
      BY <1>10, <1>a, <2>1 DEF WakeDone, Return, SleepersKnown
    <2>3. ReleaserComing'
      BY <1>10, <1>a DEF WakeDone, Return, ReleaserComing, Settled, Room
    <2> QED
      BY <2>2, <2>3
  <1>11. CASE Register(w)
    <2>1. \A u \in Workers : Known(u) => Known(u)'
      BY <1>11 DEF Register, Known
    <2>2. paused[w] # {} => Known(w)'
      BY <1>11 DEF Register, Known
    <2>3. SleepersKnown'
      BY <1>11, <2>1, <2>2 DEF Register, SleepersKnown
    <2>4. ReleaserComing'
      BY <1>11 DEF Register, ReleaserComing, Settled, Room
    <2> QED
      BY <2>3, <2>4
  <1>12. CASE RecheckDns(w) \/ RecheckSessions(w)
    <2>1. \A u \in Workers : Known(u) => Known(u)'
      BY <1>12 DEF RecheckDns, RecheckSessions, Resume, Known
    <2>2. SleepersKnown'
      BY <1>12, <2>1 DEF RecheckDns, RecheckSessions, Resume, SleepersKnown
    <2>3. Room => Settled(w)' \subseteq Settled(w)
      BY <1>12 DEF RecheckDns, RecheckSessions, Resume, Settled, Relays
    <2>4. ReleaserComing'
      BY <1>12, <2>3 DEF RecheckDns, RecheckSessions, Resume, ReleaserComing, Settled, Room
    <2> QED
      BY <2>2, <2>4
  <1> QED
    BY <1>1, <1>2, <1>3, <1>4, <1>5, <1>6, <1>7, <1>8, <1>9, <1>10, <1>11, <1>12
       DEF Run, Handling, Releasing, Maintaining

\* The inductive invariant holds initially and is kept by every step.
LEMMA InvInductive == Spec => []IInv
  <1>1. Init => IInv
    BY BudgetAssumption DEF Init, IInv, TypeOK, WithinCap, LoopsChecked, SleepersKnown,
                            ReleaserComing, Settled, Labels, Calls, NoCall, Call, Relays
  <1>2. IInv /\ [Next]_vars => IInv'
    <2> SUFFICES ASSUME IInv, [Next]_vars PROVE IInv'
      OBVIOUS
    <2>1. CASE UNCHANGED vars
      BY <2>1 DEF vars, IInv, TypeOK, WithinCap, LoopsChecked, SleepersKnown,
                  ReleaserComing, Known, Settled, Room, Fits
    <2>2. CASE Next
      BY <2>2, TypeStep, LoopStep, WakeStep DEF Next, IInv
    <2> QED
      BY <2>1, <2>2
  <1> QED
    BY <1>1, <1>2, PTL DEF Spec

\* Every variable of the budget and of the workers' loops keeps its type.
THEOREM TypeCorrect == Spec => []TypeOK
  BY InvInductive, PTL DEF IInv

\* used_bytes never exceeds cap_bytes, however the loops of
\* bpf2socks_udp_budget_reserve and bpf2socks_udp_budget_release interleave.
THEOREM BudgetRespected == Spec => []WithinCap
  BY InvInductive, PTL DEF IInv

\* A worker that sleeps while a paused relay would fit is about to be woken:
\* udp_run_maintenance registers before it looks again.
THEOREM ReleasesNotMissed == Spec => []NoLostWakeup
  <1>1. IInv => NoLostWakeup
    BY DEF IInv, SleepersKnown, ReleaserComing, Known, Settled, NoLostWakeup, WakeComing
  <1> QED
    BY <1>1, InvInductive, PTL

-----------------------------------------------------------------------------
(* The accounting.  The bytes the workers hold are counted as a set of     *)
(* pairs, so that the share of one worker can be taken out of it.          *)

\* What workers that hold h[w] bytes each hold together.
Bytes(h) == UNION {{w} \X (1..h[w]) : w \in Workers}

\* A worker's bytes are as many as it holds.
LEMMA ShareCounted ==
  ASSUME NEW w, NEW n \in Nat
  PROVE  IsFiniteSet({w} \X (1..n)) /\ Cardinality({w} \X (1..n)) = n
  <1>1. IsFiniteSet({w}) /\ Cardinality({w}) = 1
    BY FS_Singleton, Zenon
  <1>2. IsFiniteSet(1..n) /\ Cardinality(1..n) = n
    BY FS_Interval
  <1>3. /\ IsFiniteSet({w} \X (1..n))
        /\ Cardinality({w} \X (1..n)) = Cardinality({w}) * Cardinality(1..n)
    BY <1>1, <1>2, FS_Product, Zenon
  <1>4. Cardinality({w}) * Cardinality(1..n) = n
    BY <1>1, <1>2
  <1> QED
    BY <1>3, <1>4, Zenon

\* Finitely many shares are finite together.
LEMMA SharesFinite ==
  ASSUME NEW h \in [Workers -> Nat], NEW W \in SUBSET Workers
  PROVE  IsFiniteSet(UNION {{w} \X (1..h[w]) : w \in W})
  <1> DEFINE T == {{w} \X (1..h[w]) : w \in W}
             f == [w \in W |-> {w} \X (1..h[w])]
  <1>1. IsFiniteSet(W)
    BY BudgetAssumption, FS_Subset
  <1>2. f \in Surjection(W, T)
    BY Zenon DEF Surjection
  <1>3. IsFiniteSet(T)
    BY <1>1, <1>2, FS_Surjection
  <1>4. \A t \in T : IsFiniteSet(t)
    <2>1. \A w \in W : h[w] \in Nat
      OBVIOUS
    <2>2. \A w \in W : IsFiniteSet({w} \X (1..h[w]))
      BY <2>1, ShareCounted, Zenon
    <2> QED
      BY <2>2, Zenon
  <1> HIDE DEF T
  <1>5. IsFiniteSet(UNION T)
    BY <1>3, <1>4, FS_UNION, Zenon
  <1> QED
    BY <1>5 DEF T

\* The bytes of one worker and those of the others add up.
LEMMA BytesSplit ==
  ASSUME NEW h \in [Workers -> Nat], NEW w \in Workers
  PROVE  LET rest == UNION {{u} \X (1..h[u]) : u \in Workers \ {w}}
         IN  /\ Cardinality(rest) \in Nat
             /\ Cardinality(Bytes(h)) = Cardinality(rest) + h[w]
  <1> DEFINE rest == UNION {{u} \X (1..h[u]) : u \in Workers \ {w}}
             mine == {w} \X (1..h[w])
  <1>1. IsFiniteSet(rest)
    <2>1. Workers \ {w} \in SUBSET Workers
      BY Zenon
    <2> QED
      BY <2>1, SharesFinite, Zenon
  <1>2. IsFiniteSet(mine) /\ Cardinality(mine) = h[w]
    BY ShareCounted, Zenon
  <1>3. Bytes(h) = rest \cup mine
    BY DEF Bytes
  <1>4. rest \cap mine = {}
    <2> SUFFICES ASSUME NEW x \in rest, x \in mine PROVE FALSE
      BY Zenon
    <2>1. PICK u \in Workers \ {w} : x \in {u} \X (1..h[u])
      BY Zenon
    <2>2. x[1] = u /\ x[1] = w
      BY <2>1
    <2> QED
      BY <2>2, Zenon
  <1> HIDE DEF rest, mine
  <1>5. Cardinality(rest) \in Nat /\ h[w] \in Nat
    BY <1>1, FS_CardinalityType
  <1>6. Cardinality(rest \cup mine) = Cardinality(rest) + Cardinality(mine) - Cardinality(rest \cap mine)
    BY <1>1, <1>2, FS_Union, Zenon
  <1>7. Cardinality(rest \cap mine) = 0
    BY <1>4, FS_EmptySet, Zenon
  <1>8. Cardinality(Bytes(h)) = Cardinality(rest) + h[w]
    BY <1>2, <1>3, <1>5, <1>6, <1>7
  <1> QED
    BY <1>5, <1>8 DEF rest

\* A reservation is held only while its relay is read.
ReservedForRead == \A w \in Workers : pc[w] # "recv" => reserved[w] = 0

AccountInv == IInv /\ ReservedForRead /\ AccountingExact

\* What a release gives back is counted in the budget: bpf2socks_udp_budget_release
\* does not refuse it with ERANGE.
NeverErange == \A w \in Workers : pc[w] = "release" => call[w].want <= used

\* What each worker holds is a number.
LEMMA HeldTyped ==
  ASSUME TypeOK
  PROVE  \A w \in Workers : /\ Held(w) \in Nat
                            /\ pc[w] \in {"release", "release_cas"} => call[w].want <= Held(w)
  BY DEF TypeOK, Calls, Held

\* What one worker is about to give back is part of what all of them hold.
LEMMA ReleasesCounted ==
  ASSUME TypeOK, AccountingExact
  PROVE  NeverErange
  <1> SUFFICES ASSUME NEW w \in Workers, pc[w] = "release" PROVE call[w].want <= used
    BY DEF NeverErange
  <1> DEFINE h == [u \in Workers |-> Held(u)]
             rest == UNION {{u} \X (1..h[u]) : u \in Workers \ {w}}
  <1>1. h \in [Workers -> Nat] /\ h[w] = Held(w)
    BY HeldTyped
  <1>2. HeldBytes = Bytes(h)
    BY DEF HeldBytes, Bytes
  <1>3. Cardinality(rest) \in Nat /\ Cardinality(Bytes(h)) = Cardinality(rest) + h[w]
    BY <1>1, BytesSplit, Zenon
  <1> HIDE DEF h, rest
  <1>4. used = Cardinality(rest) + Held(w) /\ Held(w) \in Nat /\ call[w].want <= Held(w)
    BY <1>1, <1>2, <1>3, HeldTyped DEF AccountingExact
  <1>5. call[w].want \in Nat
    BY DEF TypeOK, Calls
  <1> QED
    BY <1>3, <1>4, <1>5

\* A step after which a worker holds as many more bytes as the budget counts.
LEMMA AccountKept ==
  ASSUME TypeOK, TypeOK', AccountingExact, NEW w \in Workers,
         \A u \in Workers \ {w} : Held(u)' = Held(u),
         used' + Held(w) = used + Held(w)'
  PROVE  AccountingExact'
  <1> DEFINE h == [u \in Workers |-> Held(u)]
             k == [u \in Workers |-> Held(u)']
             rest == UNION {{u} \X (1..h[u]) : u \in Workers \ {w}}
             rest2 == UNION {{u} \X (1..k[u]) : u \in Workers \ {w}}
  <1>1. h \in [Workers -> Nat] /\ h[w] = Held(w)
    BY HeldTyped
  <1>2. \A u \in Workers : Held(u)' \in Nat
    BY DEF TypeOK, Calls, Held
  <1>3. k \in [Workers -> Nat] /\ k[w] = Held(w)'
    BY <1>2
  <1>4. HeldBytes = Bytes(h)
    BY DEF HeldBytes, Bytes
  <1>5. HeldBytes' = Bytes(k)
    BY DEF HeldBytes, Bytes
  <1>6. Cardinality(rest) \in Nat /\ Cardinality(Bytes(h)) = Cardinality(rest) + h[w]
    BY <1>1, BytesSplit, Zenon
  <1>7. Cardinality(rest2) \in Nat /\ Cardinality(Bytes(k)) = Cardinality(rest2) + k[w]
    BY <1>3, BytesSplit, Zenon
  <1>8. rest = rest2
    <2>1. \A u \in Workers \ {w} : h[u] = k[u]
      OBVIOUS
    <2> HIDE DEF h, k
    <2> QED
      BY <2>1, Zenon
  <1> HIDE DEF h, k, rest, rest2
  <1>9. used = Cardinality(rest) + Held(w) /\ Held(w) \in Nat
    BY <1>1, <1>4, <1>6, HeldTyped DEF AccountingExact
  <1>10. Cardinality(HeldBytes') = Cardinality(rest) + Held(w)' /\ Held(w)' \in Nat
    BY <1>2, <1>3, <1>5, <1>7, <1>8, Zenon
  <1>11. used \in Nat /\ used' \in Nat
    BY DEF TypeOK
  <1>12. used' = Cardinality(rest) + Held(w)'
    <2> DEFINE whole == used
               whole2 == used'
               part == Held(w)
               part2 == Held(w)'
               others == Cardinality(rest)
    <2>1. /\ {whole, whole2, part, part2, others} \subseteq Nat
          /\ whole = others + part /\ whole2 + part = whole + part2
      BY <1>6, <1>9, <1>10, <1>11, Zenon
    <2> HIDE DEF whole, whole2, part, part2, others
    <2>2. whole2 = others + part2
      BY <2>1
    <2> QED
      BY <2>2, Zenon DEF whole2, part2, others
  <1> QED
    BY <1>10, <1>12, Zenon DEF AccountingExact

\* Every step changes what its worker holds by what it adds to used_bytes.
LEMMA HeldStep ==
  ASSUME TypeOK, LoopsChecked, ReservedForRead, NeverErange, NEW w \in Workers,
         \/ Run(w) \/ EpollWait(w) \/ \E r \in Relays : CloseRelay(w, r)
  PROVE  /\ \A u \in Workers \ {w} : Held(u)' = Held(u)
         /\ used' + Held(w) = used + Held(w)'
         /\ ReservedForRead'
  <1> USE DEF TypeOK, Goto, Held, ReservedForRead
  <1>a. /\ call[w].want \in Nat
        /\ call[w].seen \in Nat
        /\ call[w].ret \in {"batch", "flush", "expire"}
        /\ queued[w] \in Nat /\ reserved[w] \in Nat /\ used \in Nat
    BY DEF Calls
  <1>1. CASE \/ HandleWake(w) \/ HandleFlush(w) \/ BatchDone(w) \/ ReleasesDone(w)
             \/ \E r \in Relays : CloseRelay(w, r)
             \/ EpollWait(w)
    BY <1>1, <1>a DEF HandleWake, HandleFlush, BatchDone, ReleasesDone, CloseRelay, EpollWait, Take
  <1>2. CASE \E r \in Relays : HandleUpstream(w, r)
    BY <1>2, <1>a DEF HandleUpstream, Take
  <1>3. CASE \E bytes \in 1..Slot : HandleClient(w, bytes)
    BY <1>3, <1>a DEF HandleClient, Take
  <1>4. ASSUME NEW bytes \in 1..Slot, ReleasePacket(w, bytes)
        PROVE  /\ \A u \in Workers \ {w} : Held(u)' = Held(u)
               /\ used' + Held(w) = used + Held(w)'
               /\ ReservedForRead'
    BY <1>4, <1>a, BudgetAssumption DEF ReleasePacket, StartRelease, Call
  <1>5. ASSUME NEW kept \in 0..(Batch * Slot), Recv(w, kept)
        PROVE  /\ \A u \in Workers \ {w} : Held(u)' = Held(u)
               /\ used' + Held(w) = used + Held(w)'
               /\ ReservedForRead'
    BY <1>5, <1>a, BudgetAssumption DEF Recv, StartRelease, Return, Call
  <1>6. CASE Reserve(w) \/ ReserveFewer(w) \/ ReservePause(w) \/ ReserveDrop(w) \/ ReserveRetry(w)
    BY <1>6, <1>a DEF Reserve, ReserveFewer, ReservePause, ReserveDrop, ReserveRetry, Return
  <1>7. CASE ReserveCas(w)
    BY <1>7, <1>a DEF ReserveCas, CasSucceeds, Return
  <1>8. CASE Release(w)
    <2>1. pc[w] = "release" /\ call[w].want <= used
      BY <1>8 DEF Release, NeverErange
    <2>2. pc' = [pc EXCEPT ![w] = "release_cas"] /\ call' = [call EXCEPT ![w].seen = used]
      BY <1>8, <2>1 DEF Release
    <2>3. UNCHANGED <<used, queued, reserved>>
      BY <1>8 DEF Release
    <2>4. call'[w].want = call[w].want /\ \A u \in Workers \ {w} : call'[u] = call[u]
      BY <2>2 DEF Calls
    <2>5. pc'[w] = "release_cas" /\ \A u \in Workers \ {w} : pc'[u] = pc[u]
      BY <2>2
    <2> QED
      BY <1>a, <2>1, <2>3, <2>4, <2>5
  <1>9. CASE ReleaseRetry(w)
    BY <1>9, <1>a DEF ReleaseRetry
  <1>10. CASE ReleaseCas(w)
    BY <1>10, <1>a DEF ReleaseCas, CasSucceeds, LoopsChecked
  <1>11. CASE WakeLoad(w) \/ WakeDone(w)
    BY <1>11, <1>a DEF WakeLoad, WakeDone, Return
  <1>12. CASE WakeExchange(w) \/ \E v \in Workers : WakeWrite(w, v)
    BY <1>12, <1>a DEF WakeExchange, WakeWrite
  <1>13. CASE Maintaining(w)
    BY <1>13, <1>a DEF Maintaining, ResumeDns, ResumeSessions, RecheckDns, RecheckSessions,
                       Resume, Register
  <1> HIDE DEF TypeOK, Goto, Held, ReservedForRead
  <1> QED
    BY <1>1, <1>2, <1>3, <1>4, <1>5, <1>6, <1>7, <1>8, <1>9, <1>10, <1>11, <1>12, <1>13, Zenon
       DEF Run, Handling, Reserving, Releasing

\* The accounting holds initially and is kept by every step.
LEMMA AccountInductive == Spec => []AccountInv
  <1>1. Init => ReservedForRead /\ AccountingExact
    <2> SUFFICES ASSUME Init PROVE ReservedForRead /\ AccountingExact
      OBVIOUS
    <2>1. \A w \in Workers : Held(w) = 0
      BY DEF Init, Held
    <2>2. \A w \in Workers : 1..Held(w) = {}
      BY <2>1
    <2>3. HeldBytes = {}
      BY <2>2, Zenon DEF HeldBytes
    <2>4. used = Cardinality(HeldBytes)
      BY <2>3, FS_EmptySet DEF Init
    <2> QED
      BY <2>4 DEF Init, ReservedForRead, AccountingExact
  <1>2. IInv /\ IInv' /\ ReservedForRead /\ AccountingExact /\ [Next]_vars
            => ReservedForRead' /\ AccountingExact'
    <2> SUFFICES ASSUME IInv, IInv', ReservedForRead, AccountingExact, [Next]_vars
                 PROVE  ReservedForRead' /\ AccountingExact'
      OBVIOUS
    <2>1. CASE UNCHANGED vars
      BY <2>1, Zenon DEF vars, ReservedForRead, AccountingExact, HeldBytes, Held
    <2>2. ASSUME NEW w \in Workers, \/ Run(w) \/ EpollWait(w) \/ \E r \in Relays : CloseRelay(w, r)
          PROVE  ReservedForRead' /\ AccountingExact'
      <3>1. TypeOK /\ TypeOK' /\ LoopsChecked
        BY Zenon DEF IInv
      <3>2. NeverErange
        BY <3>1, ReleasesCounted, Zenon
      <3>3. /\ \A u \in Workers \ {w} : Held(u)' = Held(u)
            /\ used' + Held(w) = used + Held(w)'
            /\ ReservedForRead'
        BY <2>2, <3>1, <3>2, HeldStep, Zenon
      <3>4. AccountingExact'
        BY <3>1, <3>3, AccountKept, Zenon
      <3> QED
        BY <3>3, <3>4, Zenon
    <2> QED
      BY <2>1, <2>2, Zenon DEF Next
  <1> QED
    BY <1>1, <1>2, InvInductive, PTL DEF Spec, AccountInv

\* used_bytes is at every moment exactly what the workers hold in reservations, in
\* queues and on the way back, for any number of workers: no interleaving of
\* bpf2socks_udp_budget_reserve, the relay reads and bpf2socks_udp_budget_release
\* loses a byte or counts one twice.
THEOREM BudgetExact == Spec => []AccountingExact
  BY AccountInductive, PTL DEF AccountInv

\* bpf2socks_udp_budget_release never refuses a release with ERANGE, the answer its
\* callers ignore.
THEOREM ReleasesAccepted == Spec => []NeverErange
  <1>1. AccountInv => NeverErange
    BY ReleasesCounted, Zenon DEF AccountInv, IInv
  <1> QED
    BY <1>1, AccountInductive, PTL
=============================================================================
