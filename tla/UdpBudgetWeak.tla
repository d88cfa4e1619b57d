---------------------------- MODULE UdpBudgetWeak ----------------------------
(***************************************************************************)
(* UdpBudget without the assumption that a worker's registration is seen   *)
(* by the others before its next load.                                     *)
(*                                                                         *)
(* bpf2socks_udp_budget_wait registers with an acq_rel read-modify-write,  *)
(* and the second look at the budget is a relaxed load of another atomic   *)
(* (bpf2socks_udp_budget_used).  Neither orders the store before that      *)
(* load: an ARMv8.0 build, whose read-modify-write is a loop of LDAXR and  *)
(* STLXR, may perform the load first.  The registration is then still      *)
(* `buffered' while the worker looks again and goes to sleep.              *)
(***************************************************************************)
EXTENDS UdpBudget

VARIABLE buffered       \* workers whose registration is not visible yet

weakVars == <<vars, buffered>>

WeakInit == Init /\ buffered = {}

RegisterBuffered(w) ==
    /\ pc[w] = "register"
    /\ buffered' = IF paused[w] # {} THEN buffered \cup {w} ELSE buffered
    /\ Goto(w, IF paused[w] # {} THEN "recheck_dns" ELSE "poll")
    /\ UNCHANGED <<used, waiting, wake, call, woken, paused, queued, reserved>>

\* The store reaches memory.
RegistrationVisible(w) ==
    /\ w \in buffered
    /\ buffered' = buffered \ {w}
    /\ waiting' = waiting \cup {w}
    /\ UNCHANGED <<used, wake, pc, call, woken, paused, queued, reserved>>

\* A thread's later read-modify-writes and system calls wait for the store; its
\* two relaxed loads do not.
Ordered(w) == w \in buffered => pc[w] \in {"recheck_dns", "recheck_sessions"}

WeakNext ==
    \E w \in Workers :
        \/ RegisterBuffered(w)
        \/ RegistrationVisible(w)
        \/ /\ pc[w] # "register"
           /\ Ordered(w)
           /\ \/ Run(w)
              \/ EpollWait(w)
              \/ \E r \in Relays : CloseRelay(w, r)
           /\ UNCHANGED buffered

WeakSpec == WeakInit /\ [][WeakNext]_weakVars

\* "Register before re-checking the budget so a concurrent release cannot be
\* missed" (bridge/udp_budget.c, bpf2socks_udp_budget_wait): a worker asleep
\* with a paused relay that fits, whose registration is visible, is about to
\* be woken.
ReleaseNeverMissed ==
    \A w \in Workers :
        pc[w] = "poll" /\ paused[w] # {} /\ Room /\ w \notin buffered => WakeComing(w)
=============================================================================
