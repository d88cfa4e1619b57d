------------------------------ MODULE DnsRelay ------------------------------
(***************************************************************************)
(* The DNS path of a UDP worker (bridge/udp_dns.c): queries of many        *)
(* clients share a few SOCKS5 associations, the channels, under rewritten  *)
(* identifiers.  The worker is one thread, but a channel's server can      *)
(* break it between any two steps, so a batch of client datagrams is       *)
(* taken a step at a time: choose a channel and a transaction, look at the *)
(* channel again, and send the batch channel by channel at the end.        *)
(***************************************************************************)
EXTENDS DnsTable

CONSTANTS
    Batch,          \* datagrams one call of recvmmsg returns at most
    RebuildDelay,   \* BPF2SOCKS_DNS_CHANNEL_REBUILD_DELAY_MILLISECONDS
    QuestionOf      \* the fingerprint of each query's question

\* A batch never evicts a transaction of its own (8192 against 64).
ASSUME BatchAssumption ==
    /\ Queries \subseteq Nat
    /\ Batch \in 1..Capacity
    /\ RebuildDelay \in Nat \ {0}

VARIABLES
    stage,      \* of each channel; "handshake" stands for the five stages
                \* from CONNECTING to ASSOC_READ
    notBefore,  \* next_rebuild_ms of each channel
    broken,     \* the server has ended the channel's control connection
    net,        \* per channel, what the server got on the present socket
    nextChannel,
    pc,         \* where the handler of client datagrams is
    todo,       \* the datagrams of the batch not looked at yet
    held,       \* the transaction prepared for the first of them
    out,        \* dns_transactions, dns_channel_indices and dns_messages
    fate,       \* what the worker believes of each query
    answers,    \* how many answers each query's client got
    wrong,      \* queries whose client got the answer to another one
    wrapped     \* a channel has handed out its last identifier

relayVars == <<stage, notBefore, broken, net, nextChannel>>
batchVars == <<pc, todo, held, out>>
ghostVars == <<fate, answers, wrong, wrapped>>
vars == <<table, now, relayVars, batchVars, ghostVars>>

Healthy(c) == stage[c] = "ready" /\ ~broken[c]

SlotsOf(t, c) ==
    SelectSeq([i \in 1..Capacity |-> i - 1], LAMBDA s : Used(t, s) /\ t.tx[s].channel = c)

\* Mutant: closing a channel leaves its transactions in the table.
ReleaseNothing(t, c) == t

\* release_dns_channel_transactions
ReleaseChannel(t, c) == FoldLeft(Release, t, SlotsOf(t, c))

\* The queries whose transactions differ between two tables are gone.
Gone(before, after) ==
    {before.tx[s].query : s \in {u \in Slots : Used(before, u) /\ after.tx[u] # before.tx[u]}}

Become(queries, f) == [q \in Queries |-> IF q \in queries THEN f ELSE fate[q]]

\* reset_dns_channel_fds, and the end of bpf2socks_udp_dns_close_channel.
Close(closed) ==
    /\ stage' = [c \in Channels |-> IF c \in closed THEN "idle" ELSE stage[c]]
    /\ broken' = [c \in Channels |-> broken[c] /\ c \notin closed]
    /\ notBefore' = [c \in Channels |-> IF c \in closed THEN now + RebuildDelay ELSE notBefore[c]]
    /\ net' = [c \in Channels |-> IF c \in closed THEN {} ELSE net[c]]

\* Mutant: a broken channel is still called available after it was closed.
EnsureFailsKeepsReady(channels, refused) ==
    LET closed == {c \in channels : stage[c] = "ready"}
        opened == {c \in channels : stage[c] = "idle" /\ now >= notBefore[c]}
        put(c) == c \in closed \cup (opened \cap refused)
    IN  /\ stage' = [c \in Channels |-> IF c \in opened \ refused THEN "handshake" ELSE stage[c]]
        /\ notBefore' = [c \in Channels |-> IF put(c) THEN now + RebuildDelay ELSE notBefore[c]]
        /\ net' = [c \in Channels |-> IF c \in closed THEN {} ELSE net[c]]
        /\ UNCHANGED broken

\* ensure_dns_channel where it fails, on each of a set of channels: one that is
\* broken is closed, and one that is idle and past its delay is opened, unless
\* connecting fails at once ("refused").
EnsureFails(channels, refused) ==
    LET closed == {c \in channels : stage[c] = "ready"}
        opened == {c \in channels : stage[c] = "idle" /\ now >= notBefore[c]}
        put(c) == c \in closed \cup (opened \cap refused)
    IN  /\ stage' = [c \in Channels |-> IF c \in closed THEN "idle"
                                        ELSE IF c \in opened \ refused THEN "handshake" ELSE stage[c]]
        /\ broken' = [c \in Channels |-> broken[c] /\ c \notin closed]
        /\ notBefore' = [c \in Channels |-> IF put(c) THEN now + RebuildDelay ELSE notBefore[c]]
        /\ net' = [c \in Channels |-> IF c \in closed THEN {} ELSE net[c]]

Init ==
    /\ TableInit
    /\ stage = [c \in Channels |-> "idle"]
    /\ notBefore = [c \in Channels |-> 0]
    /\ broken = [c \in Channels |-> FALSE]
    /\ net = [c \in Channels |-> {}]
    /\ nextChannel = 0
    /\ pc = "idle" /\ todo = <<>> /\ held = None /\ out = <<>>
    /\ fate = [q \in Queries |-> "new"]
    /\ answers = [q \in Queries |-> 0]
    /\ wrong = {}
    /\ wrapped = FALSE

\* bpf2socks_udp_dns_expire_transactions: the stale channels are closed too.
ExpireTransactions ==
    LET stale == StaleChannels(table, now)
    IN  /\ table' = FoldLeft(ReleaseChannel, Expire(table, now),
                             SelectSeq([i \in 1..ChannelCount |-> i - 1], LAMBDA c : c \in stale))
        /\ Close(stale)
        /\ UNCHANGED <<now, nextChannel>>

\* The part of the worker's maintenance that concerns the table.
Maintenance ==
    /\ pc = "idle"
    /\ ExpireTransactions
    /\ fate' = Become(Gone(table, table'), "lost")
    /\ UNCHANGED <<batchVars, answers, wrong, wrapped>>

\* recvmmsg on a listener returned n queries; which clients ask when does not
\* matter, so they are taken in the order of their names.
ReceiveBatch(n) ==
    /\ pc = "idle"
    /\ \E b \in SUBSET {q \in Queries : fate[q] = "new"} :
        /\ Cardinality(b) = n
        /\ \A q \in b, r \in Queries : r < q => r \in b \/ fate[r] # "new"
        /\ todo' = SetToSortSeq(b, <)
    /\ ExpireTransactions
    /\ fate' = Become(Gone(table, table'), "lost")
    /\ pc' = "prepare"
    /\ UNCHANGED <<held, out, answers, wrong, wrapped>>

\* select_dns_channel looks at the channels in this order.
Order == [i \in 1..ChannelCount |-> (nextChannel + i - 1) % ChannelCount]

\* Where select_dns_channel starts the next time.
ChannelAfter(c) == (c + 1) % ChannelCount

\* The first half of bpf2socks_udp_dns_prepare_query: the first healthy channel
\* and a transaction, preferably on it.  Without one the query goes through a
\* UDP session.
Prepare(refused) ==
    LET first == SelectInSeq(Order, Healthy)
        tried == IF first = 0 THEN Order ELSE SubSeq(Order, 1, first - 1)
        kept  == FoldLeft(ReleaseChannel, table, SelectSeq(tried, LAMBDA c : stage[c] = "ready"))
        a     == Alloc(kept, Order[first], Head(todo), now)
        q     == Head(todo)
    IN  /\ pc = "prepare" /\ todo # <<>>
        /\ EnsureFails(ToSet(tried), refused)
        /\ \/ /\ first # 0
              /\ table' = a.table
              /\ nextChannel' = ChannelAfter(Order[first])
              /\ held' = a.slot
           \/ /\ first = 0
              /\ table' = kept
              /\ held' = None
              /\ UNCHANGED nextChannel
        /\ IF held' = None
           THEN /\ fate' = [Become(Gone(table, table'), "lost") EXCEPT ![q] = "session"]
                /\ todo' = Tail(todo)
                /\ UNCHANGED pc
           ELSE /\ fate' = Become(Gone(table, table'), "lost")
                /\ pc' = "confirm"
                /\ UNCHANGED todo
        /\ wrapped' = (wrapped \/ (held' # None /\ table'.next[table'.tx[held'].channel] = 0))
        /\ UNCHANGED <<now, out, answers, wrong>>

\* The second half: the transaction's channel is looked at (again), and the
\* datagram joins the batch or the transaction is given up.
Confirm(refused) ==
    LET c == table.tx[held].channel
        q == Head(todo)
    IN  /\ pc = "confirm"
        /\ \/ /\ Healthy(c)
              /\ out' = Append(out, [slot |-> held, channel |-> c, id |-> table.tx[held].id, query |-> q])
              /\ fate' = [fate EXCEPT ![q] = "batch"]
              /\ UNCHANGED <<table, stage, broken, notBefore, net>>
           \/ /\ ~Healthy(c)
              /\ EnsureFails({c}, refused)
              /\ table' = Release(IF stage[c] = "ready" THEN ReleaseChannel(table, c) ELSE table, held)
              /\ fate' = [Become(Gone(table, table'), "lost") EXCEPT ![q] = "session"]
              /\ UNCHANGED out
        /\ todo' = Tail(todo)
        /\ pc' = "prepare"
        /\ held' = None
        /\ UNCHANGED <<now, nextChannel, answers, wrong, wrapped>>

\* The entries of the batch for the channel of its first entry.
Group == SelectSeq(out, LAMBDA e : e.channel = Head(out).channel)

\* bpf2socks_udp_dns_flush_outgoing for one channel: n of its datagrams are
\* sent, none where the socket is full; the others give up their transactions.
Flush(n) ==
    LET c == Head(out).channel
        unsent == SubSeq(Group, n + 1, Len(Group))
    IN  /\ pc = "prepare" /\ todo = <<>> /\ out # <<>>
        /\ stage[c] = "ready"
        /\ n <= Len(Group)
        /\ table' = FoldLeft(LAMBDA t, e : Release(t, e.slot), table, unsent)
        /\ net' = [net EXCEPT ![c] = @ \cup {[id |-> Group[i].id, query |-> Group[i].query] : i \in 1..n}]
        /\ fate' = [q \in Queries |-> IF \E e \in ToSet(unsent) : e.query = q THEN "lost"
                                      ELSE IF \E e \in ToSet(Group) : e.query = q THEN "sent" ELSE fate[q]]
        /\ out' = SelectSeq(out, LAMBDA e : e.channel # c)
        /\ UNCHANGED <<now, stage, notBefore, broken, nextChannel, pc, todo, held, answers, wrong, wrapped>>

\* ... or the channel is gone by now, or fails here, and is closed (again).
FlushCloses ==
    LET c == Head(out).channel
    IN  /\ pc = "prepare" /\ todo = <<>> /\ out # <<>>
        /\ table' = ReleaseChannel(table, c)
        /\ Close({c})
        /\ fate' = Become(Gone(table, table') \cup {e.query : e \in ToSet(Group)}, "lost")
        /\ out' = SelectSeq(out, LAMBDA e : e.channel # c)
        /\ UNCHANGED <<now, nextChannel, pc, todo, held, answers, wrong, wrapped>>

EndBatch ==
    /\ pc = "prepare" /\ todo = <<>> /\ out = <<>>
    /\ pc' = "idle"
    /\ UNCHANGED <<table, now, relayVars, todo, held, out, ghostVars>>

\* advance_dns_channel to READY.
HandshakeDone(c) ==
    /\ pc = "idle" /\ stage[c] = "handshake" /\ ~broken[c]
    /\ stage' = [stage EXCEPT ![c] = "ready"]
    /\ notBefore' = [notBefore EXCEPT ![c] = 0]
    /\ UNCHANGED <<table, now, broken, net, nextChannel, batchVars, ghostVars>>

\* A handshake fails or times out, or an event or a receive error closes the
\* channel (bpf2socks_udp_dns_control_event, _expire_handshakes, the loop of
\* bpf2socks_bridge_udp_run).
CloseChannel(c) ==
    /\ pc = "idle" /\ stage[c] # "idle"
    /\ table' = ReleaseChannel(table, c)
    /\ Close({c})
    /\ fate' = Become(Gone(table, table'), "lost")
    /\ UNCHANGED <<now, nextChannel, batchVars, answers, wrong, wrapped>>

\* bpf2socks_udp_dns_handle_upstream on a response to m, which repeats the
\* question ("asked") or not; the answer reaches the client or cannot be sent.
Upstream(c, m, asked, sent) ==
    LET s == Find(table, c, m.id)
        q == table.tx[s].query
    IN  /\ pc = "idle" /\ stage[c] = "ready" /\ m \in net[c]
        /\ s # None
        /\ asked => QuestionOf[m.query] = QuestionOf[q]
        /\ table' = Release(NoteResponse(table, c), s)
        /\ fate' = Become({q}, IF sent THEN "answered" ELSE "lost")
        /\ answers' = [answers EXCEPT ![q] = @ + IF sent THEN 1 ELSE 0]
        /\ wrong' = IF sent /\ m.query # q THEN wrong \cup {q} ELSE wrong
        /\ UNCHANGED <<now, relayVars, batchVars, wrapped>>

\* The server ends a channel's control connection; at any moment.
Break(c) ==
    /\ stage[c] # "idle" /\ ~broken[c]
    /\ broken' = [broken EXCEPT ![c] = TRUE]
    /\ UNCHANGED <<table, now, stage, notBefore, net, nextChannel, batchVars, ghostVars>>

Time ==
    /\ pc = "idle" /\ now < MaxNow
    /\ now' = now + 1
    /\ UNCHANGED <<table, relayVars, batchVars, ghostVars>>

Next ==
    \/ Maintenance
    \/ \E n \in 1..Batch : ReceiveBatch(n)
    \/ \E refused \in SUBSET Channels : Prepare(refused) \/ Confirm(refused)
    \/ \E n \in 0..Batch : Flush(n)
    \/ FlushCloses
    \/ EndBatch
    \/ \E c \in Channels : HandshakeDone(c) \/ CloseChannel(c) \/ Break(c)
    \/ \E c \in Channels, m \in [id : Ids, query : Queries], asked, sent \in BOOLEAN :
            Upstream(c, m, asked, sent)
    \/ Time

Spec == Init /\ [][Next]_vars

\* The table, the channels and the batch keep their shape.
TypeOK ==
    /\ TableTypeOK
    /\ stage \in [Channels -> {"idle", "handshake", "ready"}]
    /\ notBefore \in [Channels -> 0..(MaxNow + RebuildDelay)]
    /\ broken \in [Channels -> BOOLEAN]
    /\ net \in [Channels -> SUBSET [id : Ids, query : Queries]]
    /\ nextChannel \in Channels
    /\ pc \in {"idle", "prepare", "confirm"}
    /\ todo \in Seq(Queries) /\ Len(todo) <= Batch
    /\ held \in Slots \cup {None} /\ (held # None <=> pc = "confirm")
    /\ out \in Seq([slot : Slots, channel : Channels, id : Ids, query : Queries]) /\ Len(out) <= Batch
    /\ fate \in [Queries -> {"new", "batch", "sent", "session", "answered", "lost"}]
    /\ wrong \subseteq Queries
    /\ wrapped \in BOOLEAN

-----------------------------------------------------------------------------
(* Properties. *)

\* A client gets at most one answer to a query, however often the server repeats
\* it and whatever is reused in between.
AnsweredOnce == \A q \in Queries : answers[q] <= 1

\* Until a channel has handed out all its identifiers, an answer goes to the
\* client that asked, even one that comes late and does not repeat the question: a
\* slot, an identifier or a channel used again never makes it somebody else's.
RightClient == ~wrapped => wrong = {}

\* Between two batches the table holds the queries that are on their way and no
\* other: a sent query has its transaction, and a transaction's query was sent on
\* the socket its channel has now.  bpf2socks_udp_dns_close_channel, which is
\* called from everywhere, must leave nothing behind for this.
Tracked ==
    pc = "idle" =>
        /\ \A q \in Queries : fate[q] = "sent" <=> \E s \in Slots : Used(table, s) /\ table.tx[s].query = q
        /\ \A s \in Slots : Used(table, s) =>
                LET tx == table.tx[s]
                IN  stage[tx.channel] = "ready" /\ [id |-> tx.id, query |-> tx.query] \in net[tx.channel]

\* A batch keeps pointers to transactions while later datagrams of it close
\* channels and take the freed slots.  When it is sent, a pointer that has become
\* another query's belongs to a channel that is closed, so that a failed send
\* never releases it.
BatchPointersGood ==
    \A e \in ToSet(out) :
        stage[e.channel] = "ready" =>
            LET tx == table.tx[e.slot]
            IN  tx # None /\ tx.channel = e.channel /\ tx.id = e.id /\ tx.query = e.query

\* The table of dns.c is sound whatever the channels, the batches and the server
\* do: slots, index, order by age and expiry.
TableExact == TypeOK /\ SlotsPartitioned /\ LookupExact /\ OldestFirst /\ ExpireExact

\* A query is answered at most once, and to the client that asked it
\* (bpf2socks_udp_dns_handle_response).
AnswersRight == AnsweredOnce /\ RightClient
=============================================================================
