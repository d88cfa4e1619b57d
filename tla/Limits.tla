------------------------------- MODULE Limits -------------------------------
(***************************************************************************)
(* How many sessions and workers there will be: the defaults and bounds of *)
(* the configuration (core/config.c), the descriptors the process may      *)
(* have, and what of the configuration they allow (core/resource_limits.c, *)
(* main.c).                                                                *)
(***************************************************************************)
EXTENDS Integers, FiniteSetsExt

CONSTANTS
    MaxWorkers, AutoWorkers,    \* BPF2SOCKS_MAX_WORKER_COUNT; what auto_worker_count may give
    MaxTcp, DefaultTcp, DefaultUdp, DefaultBindings,
    TcpFds, UdpFds, BindingFds, \* descriptors of a TCP session, a UDP session, a binding
    StaticFds, WorkerFds,       \* descriptors in any case, and for each worker
    Unlimited                   \* RLIM_INFINITY

ASSUME LimitsAssumption ==
    /\ MaxWorkers \in Nat \ {0} /\ AutoWorkers \subseteq 1..MaxWorkers
    /\ MaxTcp \in Nat \ {0} /\ DefaultTcp \in 1..MaxTcp
    /\ {DefaultUdp, DefaultBindings, TcpFds, UdpFds, BindingFds} \subseteq Nat \ {0}
    /\ {StaticFds, WorkerFds} \subseteq Nat
    /\ Unlimited \notin Nat

Or(x, default) == IF x = 0 THEN default ELSE x

\* normalize_runtime_tunables, of a request whose worker count is "auto" if 0
Normalize(r, auto) ==
    LET tcp == Min({Or(r.tcp, DefaultTcp), MaxTcp})
        udp == Or(r.udp, DefaultUdp)
        bindings == Max({Or(r.bindings, DefaultBindings), udp})
    IN  [workers |-> Min({Or(r.workers, auto), MaxWorkers, tcp, udp, bindings}),
         tcp |-> tcp, udp |-> udp, bindings |-> bindings]

\* bpf2socks_limits_worker_quota
Quota(total, worker, workers) ==
    total \div workers + IF worker < total % workers THEN 1 ELSE 0

\* session_fd_demand
Demand(c) == c.tcp * TcpFds + c.udp * UdpFds + c.bindings * BindingFds

\* static_fd_reserve, and the descriptors open already
Reserve(open, workers) == open + StaticFds + WorkerFds * workers

\* The configuration scaled to the descriptors available.  What rounding leaves over
\* goes to the bindings.
Scaled(c, available) ==
    LET part(x) == (x * available) \div Demand(c)
        d == [c EXCEPT !.tcp = part(c.tcp), !.udp = part(c.udp), !.bindings = part(c.bindings)]
    IN  [d EXCEPT !.bindings = @ + Min({available - Demand(d), c.bindings - @})]

\* Mutant of Fits: the workers are not compared with the sessions left.
FitsAnyway(c, nofile, reserve) == nofile = Unlimited \/ nofile > reserve

\* bpf2socks_limits_fit_session_capacity: whether it returns 0, and the result.  The
\* bindings are never fewer than the sessions once normalized, nor when both are scaled.
Fits(c, nofile, reserve) ==
    \/ nofile = Unlimited
    \/ /\ nofile > reserve
       /\ \/ Demand(c) <= nofile - reserve
          \/ LET d == Scaled(c, nofile - reserve) IN d.tcp >= c.workers /\ d.udp >= c.workers

Fitted(c, nofile, reserve) ==
    IF nofile = Unlimited \/ Demand(c) <= nofile - reserve THEN c ELSE Scaled(c, nofile - reserve)

\* apply_nofile_session_capacity: the most workers with which the configuration fits.
\* The set of its result, empty if it fails.
Capacity(c, nofile, open) ==
    LET with(n) == [c EXCEPT !.workers = n]
        fitting == {n \in 1..c.workers : Fits(with(n), nofile, Reserve(open, n))}
    IN  IF fitting = {} THEN {}
        ELSE {Fitted(with(Max(fitting)), nofile, Reserve(open, Max(fitting)))}
=============================================================================
