------------------------------- MODULE Tokens -------------------------------
(***************************************************************************)
(* How a redirected flow finds its way back to the destination its sender  *)
(* addressed.  The cgroup hooks of local sockets (bpf/cgroup_prog.c) and   *)
(* the TC program of tethered clients (kern/tc_redirect.bpf.c) replace a   *)
(* destination by a token address and publish the original under it in one *)
(* shared LRU map; the bridge (core/token.c, bridge/tcp.c and              *)
(* bridge/udp_token.c) looks the token up, and the reverse hooks and the   *)
(* TC egress program translate it back.                                    *)
(*                                                                         *)
(* Every hook runs on its own CPU: the map operations of one hook are      *)
(* separate steps wherever another CPU can come between them.  A behaviour *)
(* is about one protocol, since every key of every map names its protocol. *)
(***************************************************************************)
EXTENDS Integers, Sequences, FiniteSets

CONSTANTS Sockets,    \* local sockets, each one socket cookie
          Hosts,      \* endpoints of tethered clients
          Dsts,       \* destinations the policy proxies
          DnsDsts,    \* those on port 53 while DNS is hijacked
          Tokens,     \* token addresses
          Cpus,       \* CPUs that run the TC program
          Hashes,     \* candidate hash functions: client, destination to tokens
          Casts,      \* bound: clients, destinations and calls of a behaviour
          MaxWire,    \* bound: datagrams or SYNs on their way at once
          None

Clients == Sockets \cup Hosts

\* What the hooks, the TC program and the worker keep.
Modes == {"zero", "full"}
Entries == [dst : Dsts, connected : BOOLEAN]
Inserts == [dst : Dsts, filter : Tokens \cup {None}]
Bindings == [token : Tokens, connected : BOOLEAN]
Sessions == [mode : Modes, bindings : [Dsts -> Bindings \cup {None}]]
Hits == [token : Tokens, entry : Entries, mode : Modes]

\* A socket hashes a destination to one token, TC to one per attempt, where
\* None is an address allocate_token skips.
ASSUME TokensAssumption ==
    /\ Sockets \cap Hosts = {}
    /\ DnsDsts \subseteq Dsts
    /\ None \notin Clients \cup Dsts \cup Tokens
    /\ None \notin Entries \cup Inserts \cup Bindings \cup Sessions \cup Hits
    /\ \A f \in Hashes, c \in Clients, d \in Dsts :
          /\ f[c][d] \in Seq(Tokens \cup {None})
          /\ c \in Sockets => f[c][d] \in Seq(Tokens) /\ Len(f[c][d]) = 1
          /\ c \in Hosts => Len(f[c][d]) = 2
    /\ \A C \in Casts : /\ C.clients \subseteq Clients
                        /\ C.dsts \subseteq Dsts
                        /\ C.calls \in Nat

VARIABLES protocol,  \* the protocol of this behaviour
          hash,      \* the hash functions of both hooks
          cast,      \* the clients and destinations of this behaviour
          token_map, \* token_map: <<token, client or None>> to an entry
          original,  \* tc_original_to_token
          reverse,   \* tc_token_to_original
          sock,      \* each local socket and what udp_peer_map or tcp_peer_map holds of it
          cpu,       \* the TC program on each CPU
          wire,      \* rewritten packets the bridge has not read yet
          session,   \* the worker's session of each UDP client
          cache,     \* the worker's token cache
          conns,     \* accepted connections of tethered clients
          calls,     \* calls, packets and evictions so far
          faults     \* ghost: what went wrong outside the code's control

maps == <<token_map, original, reverse>>
fixed == <<protocol, hash, cast>>
vars == <<fixed, maps, sock, cpu, wire, session, cache, conns, calls, faults>>

-----------------------------------------------------------------------------
Keys == Tokens \X (Hosts \cup {None})

\* A packet: the client and the token it is addressed to; ghosts: the
\* destination its sender meant and, when the sender is connected to that
\* destination, the address its socket accepts replies from.
Packets == [client : Clients, token : Tokens, dst : Dsts, filter : Tokens \cup {None}]

\* A socket, and the insert its sendmsg has still to make.
SocketStates == [open : BOOLEAN, token : Tokens \cup {None}, peer : Dsts \cup {None},
                 remembered : Dsts \cup {None}, insert : Inserts \cup {None}]

\* The point a CPU has reached in the TC program.
CpuStates == [at : {"idle", "republish", "bridge", "reverse", "original"},
              host : Hosts \cup {None}, dst : Dsts \cup {None},
              attempt : 1..2, token : Tokens \cup {None}]

NoSocket == [open |-> TRUE, token |-> None, peer |-> None, remembered |-> None, insert |-> None]
IdleCpu == [at |-> "idle", host |-> None, dst |-> None, attempt |-> 1, token |-> None]

Init ==
    /\ protocol \in {"tcp", "udp"}
    /\ hash \in Hashes
    /\ cast \in Casts
    /\ token_map = [k \in Keys |-> None]
    /\ original = [h \in Hosts |-> [d \in Dsts |-> None]]
    /\ reverse = [h \in Hosts |-> [t \in Tokens |-> None]]
    /\ sock = [s \in Sockets |-> NoSocket]
    /\ cpu = [p \in Cpus |-> IdleCpu]
    /\ wire = {}
    /\ session = [c \in Clients |-> None]
    /\ cache = [c \in Clients |-> None]
    /\ conns = {}
    /\ calls = 0
    /\ faults = {}

Entry(d, connected) == [dst |-> d, connected |-> connected]
Client(t, c) == IF c \in Hosts THEN token_map[<<t, c>>] ELSE None
Clientless(t) == token_map[<<t, None>>]

\* Every candidate of every flow is a token of its own.
Distinct ==
    LET flows == {<<c, d, i>> \in cast.clients \X cast.dsts \X (1..2) : i <= Len(hash[c][d])}
        of(f) == hash[f[1]][f[2]][f[3]]
    IN  \A f, g \in flows : of(f) # None /\ (f # g => of(f) # of(g))

\* Nothing outside the code's control has mixed up two flows: a random token
\* fell on one in use, or two flows had one token when an entry went away.
Trusted == /\ faults \cap {"collided", "rolledback", "shared"} = {}
           /\ faults \cap {"evicted", "outlived"} # {} => "doubled" \notin faults

Room == Cardinality(wire) + Cardinality({p \in Cpus : cpu[p].at # "idle"})
        + Cardinality({s \in Sockets : sock[s].insert # None}) < MaxWire

\* A call, a packet or an eviction, of which a behaviour has so many.
Call == /\ Trusted
        /\ calls < cast.calls
        /\ calls' = calls + 1

Acts(c) == c \in cast.clients /\ Call
Send(c, t, d, filter) ==
    wire' = wire \cup {[client |-> c, token |-> t, dst |-> d, filter |-> filter]}

-----------------------------------------------------------------------------
(* Local sockets *)

\* The flow of a client to a destination refers to the token.
Refers(c, d, t) ==
    \/ \E q \in wire : q.client = c /\ q.dst = d /\ q.token = t
    \/ c \in Hosts /\ original[c][d] = t
    \/ \E p \in Cpus : cpu[p].host = c /\ cpu[p].dst = d /\ cpu[p].token = t
    \/ /\ protocol = "udp"
       /\ \/ c \in Sockets /\ sock[c].peer = d /\ sock[c].token = t
          \/ cache[c] # None /\ cache[c].entry.dst = d /\ cache[c].token = t
          \/ /\ session[c] # None /\ session[c].bindings[d] # None
             /\ session[c].bindings[d].token = t

\* A flow takes a token by which another one could be taken for it, should an
\* entry go away: tethered clients have keys of their own, and fall back to the
\* one without a client.
Doubled(t, c, d) ==
    IF \/ c \in Hosts /\ Clientless(t) # None
       \/ \E b \in Clients, e \in Dsts :
             /\ b # c \/ e # d
             /\ b = c \/ b \in Sockets \/ c \in Sockets
             /\ Refers(b, e, t)
       \/ \E q \in conns : q.client = c /\ q.token = t /\ q.dst # d
    THEN {"doubled"} ELSE {}

\* emit_random_token_v4 and its BPF_ANY update, which replaces what it finds.
PublishRandom(t, s, d, connected) ==
    /\ token_map' = [token_map EXCEPT ![<<t, None>>] = Entry(d, connected)]
    /\ faults' = faults \cup Doubled(t, s, d)
                  \cup IF \/ Clientless(t) # None
                          \/ \E b \in Sockets, e \in Dsts : (b # s \/ e # d) /\ Refers(b, e, t)
                       THEN {"collided"} ELSE {}

\* Another local client refers to the token too, and the release of one takes
\* it from the other.
Shared(s, t) == \E b \in Sockets \ {s}, e \in Dsts : Refers(b, e, t)

FlowToken(s, d) == hash[s][d][1]

\* The receive filter of a socket that sends to its own peer.
Filter(s, d) == IF sock[s].peer = d THEN sock[s].token ELSE None

\* A mutant: any destination under the flow token will do.
PublishFlowUnchecked(s, d, filter) ==
    LET t == FlowToken(s, d)
    IN  \/ /\ Clientless(t) = None
           /\ sock' = [sock EXCEPT ![s].insert = [dst |-> d, filter |-> filter]]
           /\ UNCHANGED <<token_map, wire, faults>>
        \/ /\ Clientless(t) # None
           /\ Send(s, t, d, filter)
           /\ UNCHANGED <<token_map, sock, faults>>

\* emit_publish_token for a flow token: look it up; a miss goes on to the
\* insert, a different destination falls back to a random token.
PublishFlow(s, d, filter) ==
    LET t == FlowToken(s, d)
    IN  \/ /\ Clientless(t) = None
           /\ sock' = [sock EXCEPT ![s].insert = [dst |-> d, filter |-> filter]]
           /\ UNCHANGED <<token_map, wire, faults>>
        \/ /\ Clientless(t) = Entry(d, FALSE)
           /\ Send(s, t, d, filter)
           /\ faults' = faults \cup Doubled(t, s, d) \cup IF Shared(s, t) THEN {"shared"} ELSE {}
           /\ UNCHANGED <<token_map, sock>>
        \/ /\ Clientless(t) \notin {None, Entry(d, FALSE)}
           /\ \E r \in Tokens : PublishRandom(r, s, d, FALSE) /\ Send(s, r, d, filter)
           /\ UNCHANGED sock

\* The BPF_NOEXIST insert; the loser of a race takes a random token.
InsertFlow(s) ==
    /\ Trusted
    /\ sock[s].insert # None
    /\ LET d == sock[s].insert.dst
           t == FlowToken(s, d)
       IN  \/ /\ Clientless(t) = None
              /\ token_map' = [token_map EXCEPT ![<<t, None>>] = Entry(d, FALSE)]
              /\ Send(s, t, d, sock[s].insert.filter)
              /\ faults' = faults \cup Doubled(t, s, d)
           \/ /\ Clientless(t) # None
              /\ \E r \in Tokens :
                    PublishRandom(r, s, d, FALSE) /\ Send(s, r, d, sock[s].insert.filter)
    /\ sock' = [sock EXCEPT ![s].insert = None]
    /\ UNCHANGED <<fixed, calls, original, reverse, cpu, session, cache, conns>>

Ready(s) == /\ Acts(s)
            /\ sock[s].open
            /\ sock[s].insert = None

\* emit_connected_udp_send_reuse: the token the socket is connected to still
\* stands for the destination of this sendmsg.
Reusable(s, d) == /\ sock[s].token # None
                  /\ Clientless(sock[s].token) = Entry(d, TRUE)

\* sendmsg with an address.
SendMsg(s, d) ==
    /\ d \in cast.dsts
    /\ protocol = "udp"
    /\ Ready(s)
    /\ Room
    /\ \/ /\ Reusable(s, d)
          /\ Send(s, sock[s].token, d, Filter(s, d))
          /\ UNCHANGED <<token_map, sock, faults>>
       \/ ~Reusable(s, d) /\ PublishFlow(s, d, Filter(s, d))
    /\ UNCHANGED <<fixed, original, reverse, cpu, session, cache, conns>>

\* sendmsg whose address lacks an IP or a port: emit_udp_peer_cache_restore
\* supplies the peer the socket connected to last.
SendMsgRestored(s) ==
    /\ protocol = "udp"
    /\ Ready(s)
    /\ Room
    /\ sock[s].remembered # None
    /\ PublishFlow(s, sock[s].remembered, None)
    /\ UNCHANGED <<fixed, original, reverse, cpu, session, cache, conns>>

\* send on a connected UDP socket, which no hook sees.
SendConnected(s) ==
    /\ protocol = "udp"
    /\ Ready(s)
    /\ Room
    /\ sock[s].token # None
    /\ Send(s, sock[s].token, sock[s].peer, sock[s].token)
    /\ UNCHANGED <<fixed, maps, sock, cpu, session, cache, conns, faults>>

\* What a connect hook leaves in udp_peer_map or, past a rewrite, in
\* tcp_peer_map.
Remember(s, d) ==
    IF protocol = "udp" /\ d \in DnsDsts THEN sock[s].remembered ELSE d

\* emit_token_update_and_rewrite with a random token: the socket is connected
\* to the token.
Rewrite(s, d, t) ==
    /\ PublishRandom(t, s, d, protocol = "udp")
    /\ sock' = [sock EXCEPT ![s].token = t, ![s].peer = d, ![s].remembered = Remember(s, d)]

\* The connect hook, and for TCP the SYN that carries the token.  A TCP socket
\* connects once.
Connect(s, d) ==
    /\ d \in cast.dsts
    /\ Ready(s)
    /\ \E t \in Tokens :
          /\ Rewrite(s, d, t)
          /\ \/ protocol = "udp" /\ UNCHANGED wire
             \/ protocol = "tcp" /\ sock[s].token = None /\ Room /\ Send(s, t, d, t)
    /\ UNCHANGED <<fixed, original, reverse, cpu, session, cache, conns>>

\* A UDP socket dissolves its connection, which no hook sees, or connects to a
\* destination the policy leaves alone, which udp_peer_map remembers.
Unconnect(s) ==
    /\ protocol = "udp"
    /\ Ready(s)
    /\ sock[s].token # None
    /\ \E kept \in {sock[s].remembered, None} :
          sock' = [sock EXCEPT ![s].token = None, ![s].peer = None, ![s].remembered = kept]
    /\ UNCHANGED <<fixed, maps, cpu, wire, session, cache, conns, faults>>

CloseSocket(s) ==
    /\ Ready(s)
    /\ sock' = [sock EXCEPT ![s] = [NoSocket EXCEPT !.open = FALSE]]
    /\ UNCHANGED <<fixed, maps, cpu, wire, session, cache, conns, faults>>

\* emit_tcp_peer_restore.
TcpPeer(s) == sock[s].remembered

\* What getpeername, and for UDP recvmsg, reports of the socket's peer: None
\* leaves the token visible.
PeerName(s) ==
    IF protocol = "tcp" THEN TcpPeer(s)
    ELSE LET e == Clientless(sock[s].token) IN IF e = None THEN None ELSE e.dst

-----------------------------------------------------------------------------
(* Tethered clients: the TC program, one map operation per step *)

Candidate(p) == hash[cpu[p].host][cpu[p].dst][cpu[p].attempt]
Bridge(p, t) == <<t, cpu[p].host>>

Forward(p, t) == /\ Send(cpu[p].host, t, cpu[p].dst, None)
                 /\ cpu' = [cpu EXCEPT ![p] = IdleCpu]

\* find_reserved_token.
Ingress(p, h, d) ==
    /\ d \in cast.dsts
    /\ Acts(h)
    /\ Room
    /\ cpu[p].at = "idle"
    /\ LET t == original[h][d]
           go(at) == cpu' = [cpu EXCEPT ![p] = [IdleCpu EXCEPT !.at = at, !.host = h,
                                                               !.dst = d, !.token = t]]
       IN  \/ t = None /\ go("bridge") /\ UNCHANGED wire
           \/ t # None /\ protocol = "tcp" /\ go("republish") /\ UNCHANGED wire
           \/ t # None /\ protocol = "udp" /\ Send(h, t, d, None) /\ UNCHANGED cpu
    /\ UNCHANGED <<fixed, maps, sock, session, cache, conns, faults>>

\* A mutant: the reserved token is all a SYN needs.
RepublishNothing(p) ==
    /\ cpu[p].at = "republish"
    /\ Forward(p, cpu[p].token)
    /\ UNCHANGED <<token_map, original, reverse, faults>>

\* The packet passes on to the destination it names, outside the proxy.
Pass(p, why) == /\ cpu' = [cpu EXCEPT ![p] = IdleCpu]
                /\ faults' = faults \cup why \cup {"passed"}

\* republish_bridge_token, on every SYN of a flow that has its token.
Republish(p) ==
    /\ cpu[p].at = "republish"
    /\ \/ /\ token_map' = [token_map EXCEPT
                              ![Bridge(p, cpu[p].token)] = Entry(cpu[p].dst, FALSE)]
          /\ Forward(p, cpu[p].token)
          /\ UNCHANGED faults
       \/ Pass(p, {"refused"}) /\ UNCHANGED <<token_map, wire>>
    /\ UNCHANGED <<original, reverse>>

\* A mutant: the first collision ends the allocation.
NextAttemptNone(p, why) == Pass(p, why)

\* The next attempt of allocate_token, if one is left.
NextAttempt(p, why) ==
    IF cpu[p].attempt < Len(hash[cpu[p].host][cpu[p].dst])
    THEN /\ cpu' = [cpu EXCEPT ![p].attempt = @ + 1, ![p].at = "bridge", ![p].token = None]
         /\ faults' = faults \cup why
    ELSE Pass(p, why)

\* A map update is refused when the key must be new and is not, or when the
\* map has no element left to give.
Refusals(exists) == IF exists THEN {{}} ELSE {{"refused"}}

InsertBridge(p) ==
    LET t == Candidate(p)
        free == t # None /\ token_map[Bridge(p, t)] = None
    IN  /\ cpu[p].at = "bridge"
        /\ \/ /\ free
              /\ token_map' = [token_map EXCEPT ![Bridge(p, t)] = Entry(cpu[p].dst, FALSE)]
              /\ cpu' = [cpu EXCEPT ![p].at = "reverse", ![p].token = t]
              /\ faults' = faults \cup Doubled(t, cpu[p].host, cpu[p].dst)
           \/ \E why \in Refusals(~free) : NextAttempt(p, why) /\ UNCHANGED token_map
        /\ UNCHANGED <<wire, original, reverse>>

\* map_delete of the bridge entry, which a SYN on another CPU may have
\* published again meanwhile.
Withdraw(p) == token_map' = [token_map EXCEPT ![Bridge(p, cpu[p].token)] = None]
Withdrawn(p) ==
    IF \E q \in wire : q.client = cpu[p].host /\ q.token = cpu[p].token
    THEN {"rolledback"} ELSE {}

\* A mutant: the reverse entry is written whatever is there.
InsertReverseAny(p) ==
    /\ cpu[p].at = "reverse"
    /\ reverse' = [reverse EXCEPT ![cpu[p].host][cpu[p].token] = cpu[p].dst]
    /\ cpu' = [cpu EXCEPT ![p].at = "original"]
    /\ UNCHANGED <<token_map, original, wire, faults>>

InsertReverse(p) ==
    LET t == cpu[p].token
        h == cpu[p].host
    IN  /\ cpu[p].at = "reverse"
        /\ \/ /\ reverse[h][t] = None
              /\ reverse' = [reverse EXCEPT ![h][t] = cpu[p].dst]
              /\ cpu' = [cpu EXCEPT ![p].at = "original"]
              /\ UNCHANGED <<token_map, faults>>
           \/ /\ \E why \in Refusals(reverse[h][t] # None) : NextAttempt(p, why \cup Withdrawn(p))
              /\ Withdraw(p)
              /\ UNCHANGED reverse
        /\ UNCHANGED <<original, wire>>

\* The last of the three; when the map refuses it, the first two are undone
\* and the packet passes on.
InsertOriginal(p) ==
    LET t == cpu[p].token
        h == cpu[p].host
    IN  /\ cpu[p].at = "original"
        /\ \/ /\ original' = [original EXCEPT ![h][cpu[p].dst] = t]
              /\ Forward(p, t)
              /\ UNCHANGED <<token_map, reverse, faults>>
           \/ /\ reverse' = [reverse EXCEPT ![h][t] = None]
              /\ Withdraw(p)
              /\ Pass(p, {"refused"} \cup Withdrawn(p))
              /\ UNCHANGED <<original, wire>>

\* The source address a reply leaves with; None drops it.
Egress(h, t) == reverse[h][t]

TcStep(p) ==
    /\ Trusted
    /\ Republish(p) \/ InsertBridge(p) \/ InsertReverse(p) \/ InsertOriginal(p)
    /\ UNCHANGED <<fixed, calls, sock, session, cache, conns>>

-----------------------------------------------------------------------------
(* The bridge *)

\* The two keys of a packet, in the order they are tried: a session prefers
\* the key that answered before, a new local client the client-less one.
ZeroFirst(c) ==
    IF protocol = "udp" /\ session[c] # None THEN session[c].mode = "zero" ELSE c \in Sockets

\* lookup_udp, and lookup_original_with_client_fallback for TCP.
Lookup(c, t) ==
    LET zero == [entry |-> Clientless(t), mode |-> "zero"]
        full == [entry |-> Client(t, c), mode |-> "full"]
        first == IF ZeroFirst(c) THEN zero ELSE full
        second == IF ZeroFirst(c) THEN full ELSE zero
    IN  CASE first.entry # None -> first
          [] first.entry = None /\ second.entry # None -> second
          [] OTHER -> None

\* A hit of the worker's token cache.
Cached(c, t) == cache[c] # None /\ cache[c].token = t

\* recover_connected: the session's own connected bindings of this token.
ConnectedBindings(c, t) ==
    IF session[c] = None THEN {}
    ELSE {d \in Dsts : session[c].bindings[d] = [token |-> t, connected |-> TRUE]}

\* What the bridge takes the token of a packet to stand for.
Resolutions(q) ==
    LET found == Lookup(q.client, q.token)
    IN  CASE protocol = "udp" /\ Cached(q.client, q.token) -> {cache[q.client].entry.dst}
          [] ~(protocol = "udp" /\ Cached(q.client, q.token)) /\ found # None -> {found.entry.dst}
          [] OTHER -> IF protocol = "udp" THEN ConnectedBindings(q.client, q.token) ELSE {}

\* The session and the binding a resolved datagram leaves behind.
Bind(c, t, entry, mode) ==
    session' = [session EXCEPT ![c] =
        [mode |-> mode,
         bindings |-> [(IF session[c] = None THEN [d \in Dsts |-> None]
                        ELSE session[c].bindings)
                       EXCEPT ![entry.dst] = [token |-> t, connected |-> entry.connected]]]]

\* One datagram of the batch a worker reads: cache, map, or the session's own
\* binding, which publishes the token again.
ReceiveUdp(q) ==
    /\ protocol = "udp"
    /\ Trusted
    /\ wire' = wire \ {q}
    /\ LET c == q.client
           t == q.token
           found == Lookup(c, t)
       IN  \/ /\ Cached(c, t)
              /\ Bind(c, t, cache[c].entry, cache[c].mode)
              /\ UNCHANGED <<cache, token_map>>
           \/ /\ ~Cached(c, t) /\ found # None
              /\ cache' = [cache EXCEPT ![c] = [token |-> t, entry |-> found.entry,
                                                  mode |-> found.mode]]
              /\ Bind(c, t, found.entry, found.mode)
              /\ UNCHANGED token_map
           \/ /\ ~Cached(c, t) /\ found = None
              /\ \E d \in ConnectedBindings(c, t) :
                    /\ Bind(c, t, Entry(d, TRUE), session[c].mode)
                    /\ token_map' = [token_map EXCEPT ![<<t, None>>] = Entry(d, TRUE)]
              /\ UNCHANGED cache
           \/ /\ Resolutions(q) = {}
              /\ UNCHANGED <<session, cache, token_map>>
    /\ UNCHANGED <<fixed, calls, original, reverse, sock, cpu, conns, faults>>

\* bpf2socks_token_take: the accepted connection consumes its token.
Accept(q) ==
    /\ protocol = "tcp"
    /\ Trusted
    /\ wire' = wire \ {q}
    /\ LET c == q.client
           found == Lookup(c, q.token)
           key == <<q.token, IF found.mode = "full" THEN c ELSE None>>
       IN  \/ /\ found # None
              /\ token_map' = [token_map EXCEPT ![key] = None]
              /\ conns' = conns \cup IF c \in Hosts THEN {[q EXCEPT !.dst = found.entry.dst]} ELSE {}
           \/ found = None /\ UNCHANGED <<token_map, conns>>
    /\ UNCHANGED <<fixed, calls, original, reverse, sock, cpu, session, cache, faults>>

CloseConnection(q) ==
    /\ Trusted
    /\ conns' = conns \ {q}
    /\ UNCHANGED <<fixed, calls, maps, sock, cpu, wire, session, cache, faults>>

\* The cache entry is older than a second, or its slot went to another key.
ForgetCached(c) ==
    /\ Trusted
    /\ cache[c] # None
    /\ cache' = [cache EXCEPT ![c] = None]
    /\ UNCHANGED <<fixed, calls, maps, sock, cpu, wire, session, conns, faults>>

\* A session ends; that of a closed local socket takes its tokens along
\* (delete_closed_client).
EndSession(c) ==
    /\ Trusted
    /\ session[c] # None
    /\ session' = [session EXCEPT ![c] = None]
    /\ \/ UNCHANGED <<token_map, faults>>
       \/ /\ c \in Sockets /\ ~sock[c].open
          /\ faults' = faults \cup IF \E q \in wire : q.client = c THEN {"outlived"} ELSE {}
          /\ LET bound == {session[c].bindings[d] : d \in Dsts} \ {None}
             IN  token_map' = [k \in Keys |-> IF k[2] = None /\ \E b \in bound : b.token = k[1]
                                              THEN None ELSE token_map[k]]
    /\ UNCHANGED <<fixed, calls, original, reverse, sock, cpu, wire, cache, conns>>

-----------------------------------------------------------------------------
(* The network and the maps' own eviction *)

Lose(q) ==
    /\ Trusted
    /\ wire' = wire \ {q}
    /\ UNCHANGED <<fixed, calls, maps, sock, cpu, session, cache, conns, faults>>

\* An LRU map gives up an entry for a new one.
Evict ==
    /\ Call
    /\ \/ /\ \E k \in Keys : token_map[k] # None /\ token_map' = [token_map EXCEPT ![k] = None]
          /\ UNCHANGED <<original, reverse, sock>>
       \/ /\ \E h \in Hosts, d \in Dsts : original[h][d] # None
                                          /\ original' = [original EXCEPT ![h][d] = None]
          /\ UNCHANGED <<token_map, reverse, sock>>
       \/ /\ \E h \in Hosts, t \in Tokens : reverse[h][t] # None
                                            /\ reverse' = [reverse EXCEPT ![h][t] = None]
          /\ UNCHANGED <<token_map, original, sock>>
       \/ /\ \E s \in Sockets : sock[s].remembered # None
                                /\ sock' = [sock EXCEPT ![s].remembered = None]
          /\ UNCHANGED maps
    /\ faults' = faults \cup {"evicted"}
    /\ UNCHANGED <<fixed, cpu, wire, session, cache, conns>>

Next ==
    \/ \E s \in Sockets, d \in Dsts : SendMsg(s, d) \/ Connect(s, d)
    \/ \E s \in Sockets : \/ SendMsgRestored(s) \/ SendConnected(s) \/ InsertFlow(s)
                          \/ Unconnect(s) \/ CloseSocket(s)
    \/ \E p \in Cpus : TcStep(p) \/ \E h \in Hosts, d \in Dsts : Ingress(p, h, d)
    \/ \E q \in wire : ReceiveUdp(q) \/ Accept(q) \/ Lose(q)
    \/ \E q \in conns : CloseConnection(q)
    \/ \E c \in Clients : ForgetCached(c) \/ EndSession(c)
    \/ Evict

Spec == Init /\ [][Next]_vars

-----------------------------------------------------------------------------
\* The maps hold tokens and destinations, the hooks, the TC program and the
\* worker hold what their code can leave there, and a socket has a token exactly
\* while it is connected through the proxy.
TypeOK ==
    /\ protocol \in {"tcp", "udp"} /\ hash \in Hashes /\ cast \in Casts /\ calls \in Nat
    /\ token_map \in [Keys -> Entries \cup {None}]
    /\ original \in [Hosts -> [Dsts -> Tokens \cup {None}]]
    /\ reverse \in [Hosts -> [Tokens -> Dsts \cup {None}]]
    /\ sock \in [Sockets -> SocketStates]
    /\ \A s \in Sockets : sock[s].token # None <=> sock[s].peer # None
    /\ cpu \in [Cpus -> CpuStates]
    /\ wire \subseteq Packets
    /\ session \in [Clients -> Sessions \cup {None}]
    /\ cache \in [Clients -> Hits \cup {None}]
    /\ conns \subseteq Packets
    /\ faults \subseteq {"collided", "doubled", "rolledback", "shared", "refused", "passed",
                         "evicted", "outlived"}

\* The bridge forwards a packet to the destination its sender addressed, or
\* nowhere: whatever was cached, consumed, republished, evicted or deleted
\* meanwhile, no token is taken for another flow's.
RightDestination ==
    /\ TypeOK
    /\ Trusted => \A q \in wire : Resolutions(q) \subseteq {q.dst}

\* As long as the maps evict nothing and no datagram outlives the sessions of its
\* socket, a packet on its way to the bridge can be resolved when it arrives: no
\* accept, publication, refusal or release of another flow takes its entry away.
Resolvable ==
    Trusted /\ faults \cap {"evicted", "outlived"} = {} =>
        \A q \in wire : Resolutions(q) # {}

\* A datagram a connected socket sends to its own peer carries the token the
\* socket is connected to, so the reply passes the socket's receive filter.
ReplyAccepted ==
    Trusted /\ "evicted" \notin faults =>
        \A q \in wire : q.filter \in {None, q.token}

\* getpeername and recvmsg report the peer the application connected to; only
\* an eviction can leave the token in view.
PeerKnown ==
    Trusted => \A s \in Sockets : sock[s].token # None =>
        /\ PeerName(s) \in {sock[s].peer, None}
        /\ "evicted" \notin faults => PeerName(s) = sock[s].peer

\* What the bridge answers on an accepted connection leaves the TC egress
\* program with the address the client dialled, or not at all.
EgressSource == Trusted => \A q \in conns : Egress(q.client, q.token) \in {q.dst, None}

\* A client sees the addresses it used and no token, on the way back as well: what
\* a local socket is told of its peer and lets in, and what a tethered client is
\* answered from (the reverse hooks, egress4).
Transparent == ReplyAccepted /\ PeerKnown /\ EgressSource

\* A packet the policy admits leaves outside the proxy only when a map refused
\* or evicted an entry, when its flow shares candidates with others, or when
\* more CPUs than the two attempts of allocate_token race for one flow.
NotPassed ==
    "passed" \in faults =>
        ~Distinct \/ Cardinality(Cpus) > 2 \/ faults \cap {"refused", "evicted"} # {}
=============================================================================
