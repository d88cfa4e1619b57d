---------------------------- MODULE RelayRegistry ----------------------------
(***************************************************************************)
(* The relay ports of UDP associations (bridge/udp_relay_registry.c) as    *)
(* the workers claim and release them: sessions in udp_associate.c and     *)
(* udp_session.c, DNS channels in udp_dns.c.                               *)
(*                                                                         *)
(* The registry is the only thing the workers share, so that a worker's    *)
(* step makes at most one access to it.  The SOCKS5 server may answer with *)
(* any port, one that is in use included; that is why the registry exists. *)
(***************************************************************************)
EXTENDS Integers

CONSTANTS
    Workers,        \* UDP threads
    Sessions,       \* client sessions, by the slot they use
    Channels,       \* DNS channels
    WorkerOf,       \* the worker of each of them
    Ports,          \* relay ports of single associations
    Shared,         \* the server's own port, for a relay shared by all
    MaxRetries,     \* BPF2SOCKS_UDP_RELAY_PORT_MAX_RETRIES
    None            \* no relay address yet

Assocs == Sessions \cup Channels

ASSUME RegistryAssumption ==
    /\ Sessions \cap Channels = {}
    /\ WorkerOf \in [Assocs -> Workers]
    /\ Shared \notin Ports
    /\ None \notin Ports \cup {Shared}
    /\ MaxRetries \in Nat

VARIABLES
    live,       \* registry->live, as the set of ports that are true
    stage,      \* of each association; "claim", "release" and "close" are
                \* points inside a handler
    addr,       \* the port of relay_addr
    udp,        \* whether udp_fd is open
    claimed,    \* relay_port_claimed
    retries     \* associate_retries

vars == <<live, stage, addr, udp, claimed, retries>>

Stages == {"closed", "handshake", "claim", "ready", "release", "close"}

\* Every association is at a stage of its life, and its retries are within their limit.
TypeOK ==
    /\ live \subseteq Ports
    /\ stage \in [Assocs -> Stages]
    /\ addr \in [Assocs -> Ports \cup {Shared, None}]
    /\ udp \in [Assocs -> BOOLEAN]
    /\ claimed \in [Assocs -> BOOLEAN]
    /\ retries \in [Assocs -> 0..MaxRetries]

Init ==
    /\ live = {}
    /\ stage = [a \in Assocs |-> "closed"]
    /\ addr = [a \in Assocs |-> None]
    /\ udp = [a \in Assocs |-> FALSE]
    /\ claimed = [a \in Assocs |-> FALSE]
    /\ retries = [a \in Assocs |-> 0]

\* The worker is between two handlers.
Idle(w) == \A a \in Assocs : WorkerOf[a] = w => stage[a] \in {"closed", "handshake", "ready"}

Goto(a, s) == stage' = [stage EXCEPT ![a] = s]

\* bpf2socks_udp_session_get and open_dns_channel, when they connect.
Open(a) ==
    /\ stage[a] = "closed"
    /\ Idle(WorkerOf[a])
    /\ Goto(a, "handshake")
    /\ UNCHANGED <<live, addr, udp, claimed, retries>>

\* bpf2socks_udp_relay_port_needs_claim
NeedsClaim(p) == p # Shared

\* The server's reply is complete.  A session opens its relay socket first, a
\* channel only once it owns the port.
Reply(a, p) ==
    /\ stage[a] = "handshake"
    /\ Idle(WorkerOf[a])
    /\ addr' = [addr EXCEPT ![a] = p]
    /\ udp' = [udp EXCEPT ![a] = a \in Sessions \/ ~NeedsClaim(p)]
    /\ \/ NeedsClaim(p) /\ Goto(a, "claim")
       \/ ~NeedsClaim(p) /\ (Goto(a, "ready") \/ Goto(a, "release"))
    /\ UNCHANGED <<live, claimed, retries>>

\* The reply is refused or malformed, the connection or socket() fails, or
\* expire_handshakes of the sessions or the channels ends it.
HandshakeFails(a) ==
    /\ stage[a] = "handshake"
    /\ Idle(WorkerOf[a])
    /\ Goto(a, "release")
    /\ UNCHANGED <<live, addr, udp, claimed, retries>>

\* The test of the compare-and-swap in bpf2socks_udp_relay_port_claim.
Taken(p) == p \in live

\* bpf2socks_udp_relay_port_claim succeeds; the step ends with the association
\* in use, or with epoll, socket() or the first send failing.
Claim(a) ==
    /\ stage[a] = "claim"
    /\ ~Taken(addr[a])
    /\ live' = live \cup {addr[a]}
    /\ claimed' = [claimed EXCEPT ![a] = TRUE]
    /\ \/ Goto(a, "ready") /\ udp' = [udp EXCEPT ![a] = TRUE]
       \/ Goto(a, "release") /\ udp' \in {udp, [udp EXCEPT ![a] = TRUE]}
    /\ UNCHANGED <<addr, retries>>

\* Mutant: a session does not ask again.
MayRetryNever(a) == FALSE

\* A session asks again; a channel waits for its rebuild delay instead.
MayRetry(a) == a \in Sessions /\ retries[a] < MaxRetries

\* Mutant: the retries are not counted.
RestartUncounted(a) ==
    /\ stage[a] = "claim"
    /\ Taken(addr[a]) /\ MayRetry(a)
    /\ addr' = [addr EXCEPT ![a] = None]
    /\ udp' = [udp EXCEPT ![a] = FALSE]
    /\ \/ Goto(a, "handshake")
       \/ Goto(a, "release")
    /\ UNCHANGED <<live, claimed, retries>>

\* restart_udp_associate: both sockets are closed, and a new handshake starts
\* unless connect fails at once.
Restart(a) ==
    /\ stage[a] = "claim"
    /\ Taken(addr[a]) /\ MayRetry(a)
    /\ addr' = [addr EXCEPT ![a] = None]
    /\ udp' = [udp EXCEPT ![a] = FALSE]
    /\ retries' = [retries EXCEPT ![a] = @ + 1]
    /\ \/ Goto(a, "handshake")
       \/ Goto(a, "release")
    /\ UNCHANGED <<live, claimed>>

\* No retry left: a session uses the port as it is, a channel gives up.
GiveUp(a) ==
    /\ stage[a] = "claim"
    /\ Taken(addr[a]) /\ ~MayRetry(a)
    /\ \/ a \in Sessions /\ Goto(a, "ready")
       \/ Goto(a, "release")
    /\ UNCHANGED <<live, addr, udp, claimed, retries>>

\* An association in use is dropped: idle, evicted, failed, or its client gone.
Drop(a) ==
    /\ stage[a] = "ready"
    /\ Idle(WorkerOf[a])
    /\ Goto(a, "release")
    /\ UNCHANGED <<live, addr, udp, claimed, retries>>

\* Mutant: the port is released by whoever used it.
ReleaseUnowned(a) ==
    /\ stage[a] = "release"
    /\ live' = live \ {addr[a]}
    /\ claimed' = [claimed EXCEPT ![a] = FALSE]
    /\ Goto(a, "close")
    /\ UNCHANGED <<addr, udp, retries>>

\* bpf2socks_udp_session_close and reset_dns_channel_fds begin with the port, ...
Release(a) ==
    /\ stage[a] = "release"
    /\ live' = IF claimed[a] THEN live \ {addr[a]} ELSE live
    /\ claimed' = [claimed EXCEPT ![a] = FALSE]
    /\ Goto(a, "close")
    /\ UNCHANGED <<addr, udp, retries>>

\* ... close the sockets, and clear the structure.
CloseSockets(a) ==
    /\ stage[a] = "close"
    /\ addr' = [addr EXCEPT ![a] = None]
    /\ udp' = [udp EXCEPT ![a] = FALSE]
    /\ retries' = [retries EXCEPT ![a] = 0]
    /\ Goto(a, "closed")
    /\ UNCHANGED <<live, claimed>>

Handler(a) == Claim(a) \/ Restart(a) \/ GiveUp(a) \/ Release(a) \/ CloseSockets(a)

Next ==
    \E a \in Assocs :
        \/ Open(a) \/ HandshakeFails(a) \/ Drop(a) \/ Handler(a)
        \/ \E p \in Ports \cup {Shared} : Reply(a, p)

Spec == Init /\ [][Next]_vars

-----------------------------------------------------------------------------
(* Properties. *)

\* The registry says of a port that it is taken exactly if one association has
\* claimed it: no path of sessions and channels leaks a port, releases one it
\* does not own, or claims one that is owned.
ClaimsExact ==
    /\ live = {addr[a] : a \in {b \in Assocs : claimed[b]}}
    /\ \A a, b \in Assocs : claimed[a] /\ claimed[b] /\ addr[a] = addr[b] => a = b

\* An association relays through a port of its own.
Uses(a, p) == udp[a] /\ addr[a] = p /\ stage[a] \in {"ready", "release", "close"}

\* Two associations in use are on one port only if one of them ran out of retries
\* in complete_udp_associate; a DNS channel never shares the port of another one.
ExclusiveUse ==
    \A a, b \in Assocs : \A p \in Ports :
        a # b /\ stage[a] = "ready" /\ stage[b] = "ready" /\ Uses(a, p) /\ Uses(b, p) =>
            \E s \in {a, b} \cap Sessions : retries[s] = MaxRetries /\ ~claimed[s]

\* Every attempt of a session or channel to associate ends: the restarts after
\* a collision, each with a handshake and a timeout of its own, are bounded.
AttemptsEnd ==
    \A a \in Assocs : stage[a] = "handshake" ~> stage[a] \in {"ready", "closed"}

\* Threads run, and no single handshake outlives its timeout: maintenance, which
\* looks for it, follows every batch of events.
FairSpec ==
    /\ Spec
    /\ \A a \in Assocs : WF_vars(Handler(a)) /\ []<>(stage[a] # "handshake")

\* "Owning a port here means no other association of this bridge uses it", as
\* the header of the registry says: an owner is the only one with a relay socket
\* on its port.
OwnerAlone ==
    \A a, b \in Assocs : a # b /\ claimed[a] => ~Uses(b, addr[a])
=============================================================================
