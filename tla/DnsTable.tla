------------------------------ MODULE DnsTable ------------------------------
(***************************************************************************)
(* The table of DNS transactions (bridge/dns.c): a pool of slots with a    *)
(* stack of free ones, a list of the used ones from the oldest to the      *)
(* newest, and for every channel an index from rewritten identifiers to    *)
(* slots.  The operations are operators on a table, which DnsRelay calls.  *)
(***************************************************************************)
EXTENDS Integers, SequencesExt

CONSTANTS
    Capacity,       \* BPF2SOCKS_DNS_MAX_TRANSACTIONS_PER_WORKER
    ChannelCount,   \* BPF2SOCKS_DNS_CHANNELS_PER_WORKER
    IdCount,        \* 65536
    Timeout,        \* dns_transaction_timeout_milliseconds
    MaxExpire,      \* BPF2SOCKS_DNS_MAX_EXPIRE_PER_LOOP
    MaxNow,         \* bound on the clock
    Queries,        \* what clients ask: each stands for a client, its
                    \* identifier and its destination
    None

ASSUME TableAssumption ==
    /\ {Capacity, ChannelCount, IdCount, MaxExpire} \subseteq Nat \ {0}
    /\ {Timeout, MaxNow} \subseteq Nat
    /\ None \notin Nat

Slots == 0..(Capacity - 1)
Channels == 0..(ChannelCount - 1)
Ids == 0..(IdCount - 1)

Transactions ==
    [channel : Channels, id : Ids, query : Queries, sent : 0..MaxNow, gen : Nat]

Tables ==
    [tx : [Slots -> Transactions \cup {None}],
     lookup : [Channels -> [Ids -> Slots \cup {None}]],
     next : [Channels -> Ids],
     gen : [Channels -> Nat],
     free : Seq(Slots),
     lru : Seq(Slots)]

\* bpf2socks_dns_table_init; the stack hands out slot 0 first.
EmptyTable ==
    [tx |-> [s \in Slots |-> None],
     lookup |-> [c \in Channels |-> [i \in Ids |-> None]],
     next |-> [c \in Channels |-> 0],
     gen |-> [c \in Channels |-> 0],
     free |-> [i \in 1..Capacity |-> Capacity - i],
     lru |-> <<>>]

Used(t, s) == t.tx[s] # None

\* Mutant: the identifier of a released transaction still finds its slot.
ReleaseIndexKeepsId(t, s, push) ==
    IF ~Used(t, s) THEN t
    ELSE [t EXCEPT !.lru = Remove(@, s),
                   !.tx[s] = None,
                   !.free = IF push /\ Len(@) < Capacity THEN Append(@, s) ELSE @]

\* release_index
ReleaseIndex(t, s, push) ==
    IF ~Used(t, s) THEN t
    ELSE [t EXCEPT !.lookup[t.tx[s].channel][t.tx[s].id] = IF @ = s THEN None ELSE @,
                   !.lru = Remove(@, s),
                   !.tx[s] = None,
                   !.free = IF push /\ Len(@) < Capacity THEN Append(@, s) ELSE @]

\* bpf2socks_dns_table_release
Release(t, s) == ReleaseIndex(t, s, TRUE)

\* How far allocate_id walks from next_ids to each identifier that is free.
FreeIds(t, c) == {d \in Ids : t.lookup[c][(t.next[c] + d) % IdCount] = None}

\* Mutant: the search always starts at the lowest identifier.
AllocateIdLowest(t, c) == Min({i \in Ids : t.lookup[c][i] = None})

\* allocate_id, where it finds one.
AllocateId(t, c) == (t.next[c] + Min(FreeIds(t, c))) % IdCount

\* The slot bpf2socks_dns_table_alloc takes: the top of the stack, or the oldest.
NextSlot(t) == IF t.free # <<>> THEN Last(t.free) ELSE Head(t.lru)

\* The end of bpf2socks_dns_table_alloc, once slot, channel and identifier are known.
Insert(t, s, c, i, query, now) ==
    [t EXCEPT !.tx[s] = [channel |-> c, id |-> i, query |-> query, sent |-> now, gen |-> t.gen[c]],
              !.lookup[c][i] = s,
              !.next[c] = (i + 1) % IdCount,
              !.lru = Append(@, s)]

\* bpf2socks_dns_table_alloc: the table and the slot, or None.
Alloc(t, preferred, query, now) ==
    LET s == NextSlot(t)
        taken == IF t.free # <<>> THEN [t EXCEPT !.free = Front(@)]
                                  ELSE ReleaseIndex(t, s, FALSE)
        tries == {d \in Channels : FreeIds(taken, (preferred + d) % ChannelCount) # {}}
        c == (preferred + Min(tries)) % ChannelCount
    IN  IF t.free = <<>> /\ t.lru = <<>> THEN [table |-> t, slot |-> None]
        ELSE IF tries = {} THEN [table |-> [taken EXCEPT !.free = Append(@, s)], slot |-> None]
        ELSE [table |-> Insert(taken, s, c, AllocateId(taken, c), query, now), slot |-> s]

\* bpf2socks_dns_table_find
Find(t, c, i) == t.lookup[c][i]

\* bpf2socks_dns_table_note_response
NoteResponse(t, c) == [t EXCEPT !.gen[c] = @ + 1]

Expired(t, s, now) == now - t.tx[s].sent >= Timeout

\* How many of the oldest transactions bpf2socks_dns_table_expire releases.
ExpireCount(t, now) ==
    Max({n \in 0..Len(t.lru) : n <= MaxExpire /\ \A k \in 1..n : Expired(t, t.lru[k], now)})

\* The table it leaves, ...
Expire(t, now) == FoldLeft(Release, t, SubSeq(t.lru, 1, ExpireCount(t, now)))

\* ... and the channels it calls stale: no response since one of those was sent.
StaleChannels(t, now) ==
    {t.tx[s].channel : s \in {u \in ToSet(SubSeq(t.lru, 1, ExpireCount(t, now))) :
                                t.tx[u].gen = t.gen[t.tx[u].channel]}}

-----------------------------------------------------------------------------
VARIABLES
    table,
    now         \* the clock, in units the timeouts tell apart

TableInit == table = EmptyTable /\ now = 0

TableTypeOK == table \in Tables /\ now \in 0..MaxNow

-----------------------------------------------------------------------------
(* Properties. *)

\* Every slot is on the free stack or in the list of used ones, once: whatever
\* order dns.c is called in, no slot is lost and none is handed out twice.
SlotsPartitioned ==
    /\ IsInjective(table.free) /\ IsInjective(table.lru)
    /\ ToSet(table.lru) = {s \in Slots : Used(table, s)}
    /\ ToSet(table.free) = {s \in Slots : ~Used(table, s)}

\* The index finds a transaction by its channel and identifier and nothing else,
\* so that two transactions in flight never share an identifier on a channel.
LookupExact ==
    \A c \in Channels, i \in Ids :
        {s \in Slots : Used(table, s) /\ table.tx[s].channel = c /\ table.tx[s].id = i}
            = {Find(table, c, i)} \ {None}

\* The list is ordered by the time of sending, which is what lets expiry stop at
\* the first transaction that has time left, and next deadline look at one.
OldestFirst ==
    \A i, j \in DOMAIN table.lru :
        i < j => table.tx[table.lru[i]].sent <= table.tx[table.lru[j]].sent

\* Expiry, whenever it is run, releases what has expired, as many as it may, and
\* nothing else.
ExpireExact ==
    LET late == {s \in Slots : Used(table, s) /\ Expired(table, s, now)}
        kept == {s \in Slots : Used(Expire(table, now), s)}
    IN  /\ {s \in Slots : Used(table, s)} \ late \subseteq kept
        /\ Cardinality(late \ kept) = Min({Cardinality(late), MaxExpire})
=============================================================================
