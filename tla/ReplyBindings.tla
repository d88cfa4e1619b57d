---------------------------- MODULE ReplyBindings ----------------------------
(***************************************************************************)
(* The reply bindings of one UDP worker (bridge/udp_session.c,             *)
(* bridge/udp_binding_index.c): for every remote address a client talks    *)
(* to, how replies from there are sent to the client.  A fixed pool of     *)
(* slots for all sessions, one list by last use, eviction when the pool is *)
(* full and expiry by age.                                                 *)
(*                                                                         *)
(* A binding replies through a socket of its own, bound to the remote      *)
(* address or raw, or through the listener with the token the client sent  *)
(* to.  Descriptor numbers are small integers that are used again, and     *)
(* slots are used again too.  Addresses are IP addresses of one family;    *)
(* two of them may have the same port.                                     *)
(***************************************************************************)
EXTENDS Integers, SequencesExt

CONSTANTS
    Sessions,       \* the worker's session slots
    Slots,          \* binding slots, binding_cap of them
    Remotes,        \* remote addresses
    Ports,          \* their ports
    PortOf,         \* the port of each address
    Fds,            \* descriptor numbers for reply sockets
    IdleTimeout,    \* idle_timeout_ms
    None

ASSUME BindingsAssumption ==
    /\ Slots \subseteq Nat /\ Slots # {}
    /\ PortOf \in [Remotes -> Ports]
    /\ Cardinality(Fds) >= Cardinality(Slots)
    /\ IdleTimeout \in Nat \ {0}
    /\ None \notin Sessions \cup Remotes \cup Fds \cup Slots

Bindings ==
    [owner : Sessions \cup {None}, dst : Remotes \cup {None}, token : BOOLEAN,
     fd : Fds \cup {None}, raw : BOOLEAN, generation : Nat,
     idle : 0..IdleTimeout, pending : Nat]

\* A slot after release_binding.
FreeBinding ==
    [owner |-> None, dst |-> None, token |-> FALSE, fd |-> None, raw |-> FALSE,
     generation |-> 0, idle |-> 0, pending |-> 0]

EmptyPool == [binding |-> [b \in Slots |-> FreeBinding], lru |-> <<>>]

InUse(p) == {b \in Slots : p.binding[b].owner # None}

\* bpf2socks_udp_binding_index_find
Find(p, s, d) == {b \in Slots : p.binding[b].owner = s /\ p.binding[b].dst = d}

\* bpf2socks_udp_binding_find_by_domain_port.  Between bindings used at the
\* same time the order of the session's list decides, which is not kept here.
FindByPort(p, s, port) ==
    LET candidates == {b \in Slots : /\ p.binding[b].owner = s
                                     /\ p.binding[b].token
                                     /\ PortOf[p.binding[b].dst] = port}
    IN  {b \in candidates : \A c \in candidates : p.binding[b].idle <= p.binding[c].idle}

\* bpf2socks_udp_binding_lru_touch: on both lists, of which the session's is
\* the part of the worker's with its bindings.
Touch(p, b) == [p EXCEPT !.lru = Append(Remove(@, b), b)]

\* bpf2socks_udp_binding_close_reply
CloseReply(p, b) ==
    [p EXCEPT !.binding[b].fd = None, !.binding[b].raw = FALSE, !.binding[b].generation = @ + 1]

\* bpf2socks_udp_binding_set_reply
SetReply(p, b, reply) ==
    [p EXCEPT !.binding[b].fd = reply.fd, !.binding[b].raw = reply.raw,
              !.binding[b].generation = @ + 1]

\* bpf2socks_udp_reply_socket_create: bound to the address, or raw when that
\* is not possible.
ReplySockets(p) ==
    [fd : Fds \ {p.binding[b].fd : b \in Slots}, raw : BOOLEAN]

\* destroy_binding, release_binding
Destroy(p, b) == [p EXCEPT !.binding[b] = FreeBinding, !.lru = Remove(@, b)]

\* The bindings evict_binding may take, in its order.
Evictable(p) == SelectSeq(p.lru, LAMBDA b : p.binding[b].pending = 0)

\* ensure_binding_capacity: who has to go; none can when all are pending.
Full(p) == InUse(p) = Slots
Victims(p) == IF Full(p) THEN {Head(Evictable(p))} ELSE {}
HasCapacity(p) == Full(p) => Evictable(p) # <<>>
WithCapacity(p) == IF Full(p) THEN Destroy(p, Head(Evictable(p))) ELSE p

\* alloc_binding
Fresh(p) == CHOOSE b \in Slots : p.binding[b].owner = None

\* create_binding, once there is room: reply is None for the listener.
Create(p, s, d, token, reply) ==
    LET b == Fresh(p)
        q == [p EXCEPT !.binding[b] = [FreeBinding EXCEPT !.owner = s, !.dst = d, !.token = token],
                       !.lru = Append(@, b)]
    IN  IF reply = None THEN q ELSE SetReply(q, b, reply)

DestroyAll(p, bs) ==
    [binding |-> [b \in Slots |-> IF b \in bs THEN FreeBinding ELSE p.binding[b]],
     lru |-> SelectSeq(p.lru, LAMBDA b : b \notin bs)]

\* The bindings bpf2socks_udp_binding_expire_idle destroys: it walks the list
\* as far as the first binding that is not due, past those still pending.
Due(p) ==
    LET fresh == {i \in DOMAIN p.lru : p.binding[p.lru[i]].idle < IdleTimeout}
    IN  {b \in Slots : /\ p.binding[b].pending = 0
                       /\ \E i \in DOMAIN p.lru : p.lru[i] = b /\ \A j \in fresh : i < j}

Aged(p) ==
    [p EXCEPT !.binding = [b \in Slots |->
        IF p.binding[b].owner = None \/ p.binding[b].idle = IdleTimeout THEN p.binding[b]
        ELSE [p.binding[b] EXCEPT !.idle = @ + 1]]]

=============================================================================
