------------------------------- MODULE Policy -------------------------------
(***************************************************************************)
(* What decides whether a connection is proxied: the checks the cgroup     *)
(* hooks and the TC programs make in order, and the two threads that keep  *)
(* the maps those checks read equal to the kernel's links, routes and      *)
(* rules.  One thread (interface_policy.c) mirrors the links whose name    *)
(* matches an ignored selector and the routes through them.  The other     *)
(* (network_selection.c) mirrors the networks that are a default one.      *)
(* Both listen on a netlink socket, wait for a burst to settle, read the   *)
(* kernel's state again and write the difference into a map key by key,    *)
(* while the hooks keep reading the map.                                   *)
(***************************************************************************)
EXTENDS Integers, Sequences, FiniteSets

CONSTANTS Links,        \* interfaces
          Routes,       \* destination prefixes a route may exist for
          Routes6,      \* those of them that are IPv6
          Nets,         \* networks an app can bind a socket to
          QueueCap,     \* messages the interface netlink socket holds
          MaxChanges,   \* bound: changes of the kernel's state
          MaxFailures,  \* bound: system calls of the threads that fail
          None

ASSUME PolicyAssumption ==
    /\ Routes6 \subseteq Routes
    /\ QueueCap \in Nat \ {0}
    /\ {MaxChanges, MaxFailures} \subseteq Nat
    /\ None \notin Links \cup Routes \cup Nets
    /\ \A nets \in SUBSET Nets : None # nets
    /\ None \notin {"proxy", "bypass", "direct", "proxied"}

VARIABLES
    policy,   \* "interfaces": some interfaces are ignored, "networks": none is
    link,     \* kernel: a link is "absent", has a "plain" or an "ignored" name
    route,    \* kernel: the link a route leaves through, or None
    rules,    \* kernel: the networks the default rules name, None without them
    queue,    \* unread messages of the interface netlink socket
    overrun,  \* that socket dropped a message: the next recv fails (ENOBUFS)
    pending,  \* the rule netlink socket is readable
    ifmap,    \* ignored_ifindex_map
    rtmap,    \* ignored_route_cidr4_map and ignored_route_cidr6_map
    netmap,   \* default_network_map without its ready key
    ready,    \* the ready key is in default_network_map
    it,       \* the interface thread (before it starts: the main thread)
    nt,       \* the network thread
    stop,     \* how far bpf_runtime_stop has come
    changes,  \* changes so far
    failures  \* failures so far

kernel == <<link, route, rules>>
sockets == <<queue, overrun, pending>>
interfaceMaps == <<ifmap, rtmap>>
networkMap == <<netmap, ready>>
vars == <<policy, kernel, sockets, interfaceMaps, networkMap, it, nt, stop,
          changes, failures>>

-----------------------------------------------------------------------------
(* The verdict on a flow.  A flow has the socket's group (self), protocol, *)
(* device, explicit network and mark, the caller's uid, the port, the      *)
(* address maps the destination is in and the route that covers it.        *)

Proxy == "proxy"
Bypass == "bypass"

SelfBypass(f) == f.self

(* Sockets a token rewrite cannot carry. *)
ShapeBypass(f) == f.protocol = "udplite" \/ f.device \in Links

(* A socket bound to a network other than a default one, once the default  *)
(* ones are published.                                                     *)
ExplicitBypass(f, nets, published) ==
    f.network # None /\ published /\ f.network \notin nets

UidBypass(f) == f.uid = "bypass"

UidUnselected(p, f) ==
    \/ p.mode = "whitelist" /\ f.uid # "selected"
    \/ p.mode = "blacklist" /\ f.uid = "selected"

(* A uid that is bypassed keeps its DNS, except for UDP in legacy mode.    *)
ForcedDnsBypass(p, f) ==
    /\ p.hijack
    /\ p.enhancement \/ f.protocol = "tcp"
    /\ UidBypass(f)

IpsecBypass(f) == f.protocol = "udp" /\ f.port = "ipsec"

(* DNS enhancement: the resolver's own marks come first, and the tethering *)
(* daemon's queries are proxied whatever its uid's policy is.              *)
EnhancedDns(f) ==
    IF f.mark = "direct" THEN Bypass
    ELSE IF f.mark = "proxied" \/ f.uid = "tether" THEN Proxy
    ELSE None

DnsVerdict(p, f) ==
    IF ~p.hijack \/ f.port # "dns" THEN None
    ELSE IF p.enhancement THEN EnhancedDns(f) ELSE Proxy

(* The destination, in the order of the IPv4 and IPv6 checks. *)
DestinationVerdict(p, f, ifs, rts) ==
    IF \/ f.special \/ "local" \in f.dst THEN Bypass
    ELSE IF "proxy" \in f.dst THEN Proxy
    ELSE IF \/ "private" \in f.dst
            \/ f.device \in ifs
            \/ f.route \in rts
            \/ p.bypass_direct /\ "direct" \in f.dst THEN Bypass
    ELSE Proxy

(* The connect and sendmsg hooks. *)
HookVerdict(p, f, ifs, rts, nets, published) ==
    IF \/ SelfBypass(f)
       \/ ShapeBypass(f)
       \/ ExplicitBypass(f, nets, published)
       \/ ForcedDnsBypass(p, f)
       \/ IpsecBypass(f) THEN Bypass
    ELSE IF DnsVerdict(p, f) # None THEN DnsVerdict(p, f)
    ELSE IF UidBypass(f) \/ UidUnselected(p, f) THEN Bypass
    ELSE IF p.hijack /\ p.enhancement /\ f.port = "dns" THEN Proxy
    ELSE DestinationVerdict(p, f, ifs, rts)

(* Mutant: private destinations are looked at before the proxied ones. *)
TcPrivateFirst(p, f) ==
    IF f.protocol = "udp" /\ f.port = "ipsec" THEN Bypass
    ELSE IF p.hijack /\ f.port = "dns" THEN Proxy
    ELSE IF "local" \in f.dst \/ "private" \in f.dst THEN Bypass
    ELSE IF "proxy" \in f.dst THEN Proxy
    ELSE IF p.bypass_direct /\ "direct" \in f.dst THEN Bypass
    ELSE Proxy

(* The TC ingress program, for a flow of a tethered client: it knows no    *)
(* socket, uid, device or ignored route.                                   *)
TcVerdict(p, f) ==
    IF f.protocol = "udp" /\ f.port = "ipsec" THEN Bypass
    ELSE IF p.hijack /\ f.port = "dns" THEN Proxy
    ELSE IF "local" \in f.dst THEN Bypass
    ELSE IF "proxy" \in f.dst THEN Proxy
    ELSE IF \/ "private" \in f.dst
            \/ p.bypass_direct /\ "direct" \in f.dst THEN Bypass
    ELSE Proxy

-----------------------------------------------------------------------------
(* The kernel: what the threads mirror, and what it tells them. *)

IgnoredLinks == {i \in Links : link[i] = "ignored"}

RoutesThrough(ls) == {r \in Routes : route[r] \in ls}

DefaultNetworks == IF rules = None THEN {} ELSE rules

Listening == it.pc \notin {"off", "joined"}

(* A message for the interface socket: lost when the socket is full. *)
Post(m) ==
    IF ~Listening THEN UNCHANGED <<queue, overrun>>
    ELSE IF Len(queue) < QueueCap
         THEN queue' = Append(queue, m) /\ UNCHANGED overrun
         ELSE overrun' = TRUE /\ UNCHANGED queue

Change ==
    /\ changes < MaxChanges
    /\ stop = "no"
    /\ changes' = changes + 1
    /\ UNCHANGED <<policy, interfaceMaps, networkMap, it, nt, stop, failures>>

(* A link appears, is renamed or goes.  The message of a deletion has the  *)
(* old name, the one of a rename only the new one.  The routes of a link   *)
(* that goes are flushed without a message of their own.                   *)
LinkChanges ==
    /\ policy = "interfaces" /\ Change
    /\ \E i \in Links, s \in {"absent", "plain", "ignored"} :
          /\ s # link[i]
          /\ link' = [link EXCEPT ![i] = s]
          /\ route' = [r \in Routes |-> IF s = "absent" /\ route[r] = i
                                        THEN None ELSE route[r]]
          /\ Post([kind |-> "link", link |-> i,
                   ignored |-> (IF s = "absent" THEN link[i] ELSE s) = "ignored"])
    /\ UNCHANGED <<rules, pending>>

RouteChanges ==
    /\ policy = "interfaces" /\ Change
    /\ \E r \in Routes, i \in Links :
          /\ link[i] # "absent"
          /\ route[r] \in {None, i}
          /\ route' = [route EXCEPT ![r] = IF route[r] = i THEN None ELSE i]
          /\ Post([kind |-> "route", link |-> i, ignored |-> FALSE])
    /\ UNCHANGED <<link, rules, pending>>

RulesChange ==
    /\ policy = "networks" /\ Change
    /\ \E s \in ((SUBSET Nets) \cup {None}) \ {rules} : rules' = s
    /\ pending' = (pending \/ nt.pc # "off")
    /\ UNCHANGED <<link, route, queue, overrun>>

Fail ==
    /\ failures < MaxFailures
    /\ failures' = failures + 1

-----------------------------------------------------------------------------
(* sync_map_keys: the maps a step of the synchronisation may leave.  The   *)
(* desired keys are written before the stale ones are deleted.             *)

SyncStep(map, want) ==
    IF want \subseteq map THEN {map \ {k} : k \in map \ want}
    ELSE {map \cup {k} : k \in want \ map}

(* Mutant: only links with an ignored name are noted. *)
NotedByName(m) ==
    [links  |-> m.kind = "link" /\ m.ignored,
     routes |-> m.kind = "route" /\ m.link \in it.list]

(* Which changes a message announces. *)
Noted(m) ==
    [links  |-> m.kind = "link" /\ (m.link \in it.list \/ m.ignored),
     routes |-> m.kind = "route" /\ m.link \in it.list]

InterfaceStep ==
    UNCHANGED <<policy, kernel, pending, networkMap, nt, stop, changes>>

(* bpf2socks_interface_policy_start: the netlink socket first, then the    *)
(* first refresh.  Nothing happens when no interface is ignored.           *)
OpenInterfaces ==
    /\ policy = "interfaces" /\ it.pc = "off" /\ stop = "no" /\ nt.pc = "off"
    /\ ~it.gaveUp
    /\ it' = [it EXCEPT !.pc = "readLinks", !.full = TRUE]
    /\ UNCHANGED <<sockets, interfaceMaps, failures>> /\ InterfaceStep

ReadLinks ==
    /\ it.pc = "readLinks"
    /\ it' = [it EXCEPT !.pc = "syncLinks", !.want = IgnoredLinks,
                        !.had = ifmap]
    /\ UNCHANGED <<sockets, interfaceMaps, failures>> /\ InterfaceStep

SyncLinks ==
    /\ it.pc = "syncLinks"
    /\ \/ /\ ifmap' \in SyncStep(ifmap, it.want)
          /\ UNCHANGED it
       \/ /\ ifmap = it.want
          /\ it' = [it EXCEPT !.pc = "readRoutes", !.list = it.want, !.family = 4,
                              !.want = {}, !.had = {}]
          /\ UNCHANGED ifmap
    /\ UNCHANGED <<sockets, rtmap, failures>> /\ InterfaceStep

Family(f) == IF f = 6 THEN Routes6 ELSE Routes \ Routes6

ReadRoutes ==
    /\ it.pc = "readRoutes"
    /\ it' = [it EXCEPT !.pc = "syncRoutes",
                        !.want = RoutesThrough(it.list) \cap Family(it.family),
                        !.had = rtmap \cap Family(it.family)]
    /\ UNCHANGED <<sockets, interfaceMaps, failures>> /\ InterfaceStep

(* IPv4 is synchronised before IPv6 is read. *)
SyncRoutes ==
    /\ it.pc = "syncRoutes"
    /\ LET mine == rtmap \cap Family(it.family)
       IN \/ /\ \E m \in SyncStep(mine, it.want) : rtmap' = (rtmap \ mine) \cup m
             /\ UNCHANGED it
          \/ /\ mine = it.want
             /\ it' = IF it.family = 4
                      THEN [it EXCEPT !.pc = "readRoutes", !.family = 6,
                                      !.want = {}, !.had = {}]
                      ELSE [it EXCEPT !.pc = "wait", !.want = {}, !.had = {},
                                      !.stale = it.stale /\ ~it.full]
             /\ UNCHANGED rtmap
    /\ UNCHANGED <<sockets, ifmap, failures>> /\ InterfaceStep

(* A failed step of the refresh ends it where it is: the thread logs it    *)
(* and waits for the next message, the start of the runtime fails.         *)
RefreshFails ==
    /\ it.pc \in {"readLinks", "syncLinks", "readRoutes", "syncRoutes"}
    /\ Fail
    /\ it' = IF it.up
             THEN [it EXCEPT !.pc = "wait", !.want = {}, !.had = {}, !.stale = TRUE]
             ELSE [it EXCEPT !.pc = "off", !.gaveUp = TRUE]
    /\ UNCHANGED <<sockets, interfaceMaps>> /\ InterfaceStep

CreateThread ==
    /\ it.pc = "wait" /\ ~it.up
    /\ it' = [it EXCEPT !.up = TRUE]
    /\ UNCHANGED <<sockets, interfaceMaps, failures>> /\ InterfaceStep

Readable == queue # <<>> \/ overrun

StopsInterfaces == stop = "interfaces"

(* The wait for the first message of a batch. *)
WaitInput ==
    /\ it.pc = "wait" /\ it.up
    /\ \/ StopsInterfaces /\ it' = [it EXCEPT !.pc = "joined"]
       \/ ~StopsInterfaces /\ Readable /\ it' = [it EXCEPT !.pc = "drain"]
    /\ UNCHANGED <<sockets, interfaceMaps, failures>> /\ InterfaceStep

(* One recv: a dropped message asks for a full refresh.  The socket is     *)
(* read until it is empty.                                                 *)
Drain ==
    /\ it.pc = "drain"
    /\ \/ /\ overrun
          /\ overrun' = FALSE
          /\ it' = [it EXCEPT !.links = TRUE, !.routes = TRUE]
          /\ UNCHANGED queue
       \/ /\ ~overrun /\ queue # <<>>
          /\ queue' = Tail(queue)
          /\ it' = [it EXCEPT !.links = it.links \/ Noted(Head(queue)).links,
                              !.routes = it.routes \/ Noted(Head(queue)).routes]
          /\ UNCHANGED overrun
       \/ /\ ~Readable
          /\ it' = [it EXCEPT !.pc = "settle"]
          /\ UNCHANGED <<queue, overrun>>
    /\ UNCHANGED <<interfaceMaps, failures>> /\ InterfaceStep

(* Mutant: a burst has to end with another message. *)
SettleNoTimeout ==
    /\ it.pc = "settle"
    /\ \/ StopsInterfaces /\ it' = [it EXCEPT !.pc = "joined"]
       \/ ~StopsInterfaces /\ Readable /\ it' = [it EXCEPT !.pc = "drain"]
    /\ UNCHANGED <<sockets, interfaceMaps, failures>> /\ InterfaceStep

(* Within the batch window more messages are waited for: the thread reads  *)
(* them, stops, or goes on after a quiet period or the window's end.       *)
Settle ==
    /\ it.pc = "settle"
    /\ \/ StopsInterfaces /\ it' = [it EXCEPT !.pc = "joined"]
       \/ ~StopsInterfaces /\ Readable /\ it' = [it EXCEPT !.pc = "drain"]
       \/ it' = [it EXCEPT !.pc = "apply"]
    /\ UNCHANGED <<sockets, interfaceMaps, failures>> /\ InterfaceStep

Apply ==
    /\ it.pc = "apply"
    /\ it' = [it EXCEPT !.pc = IF it.links THEN "readLinks"
                               ELSE IF it.routes THEN "readRoutes" ELSE "wait",
                        !.full = it.links, !.family = 4,
                        !.links = FALSE, !.routes = FALSE]
    /\ UNCHANGED <<sockets, interfaceMaps, failures>> /\ InterfaceStep

-----------------------------------------------------------------------------
(* The network thread. *)

NetworkStep ==
    UNCHANGED <<policy, kernel, queue, overrun, interfaceMaps, it, stop, changes>>

InterfacesStarted ==
    \/ policy = "networks"
    \/ it.up

(* bpf2socks_network_selection_start.  Without the sockets the runtime     *)
(* goes on, and the default networks stay unknown.                         *)
OpenNetworks ==
    /\ nt.pc = "off" /\ ~nt.gaveUp /\ stop = "no" /\ InterfacesStarted
    /\ \/ nt' = [nt EXCEPT !.pc = "dump"] /\ UNCHANGED failures
       \/ nt' = [nt EXCEPT !.gaveUp = TRUE] /\ Fail
    /\ UNCHANGED <<pending, networkMap>> /\ NetworkStep

(* Mutant: a rule set that is gone leaves the ready key. *)
DumpRulesKeepReady ==
    /\ nt.pc = "dump"
    /\ \/ /\ rules # None
          /\ nt' = [nt EXCEPT !.pc = "sync", !.want = rules, !.had = netmap]
          /\ UNCHANGED failures
       \/ /\ nt' = [nt EXCEPT !.pc = "wait", !.known = None, !.stale = rules # None]
          /\ IF rules = None THEN UNCHANGED failures ELSE Fail
    /\ UNCHANGED <<pending, networkMap>> /\ NetworkStep

(* Without a usable rule set the ready key is removed. *)
DumpRules ==
    /\ nt.pc = "dump"
    /\ \/ /\ rules # None
          /\ nt' = [nt EXCEPT !.pc = "sync", !.want = rules, !.had = netmap]
          /\ UNCHANGED <<failures, ready>>
       \/ /\ ready' = FALSE
          /\ nt' = [nt EXCEPT !.pc = "wait", !.known = None, !.stale = rules # None]
          /\ IF rules = None THEN UNCHANGED failures ELSE Fail
    /\ UNCHANGED <<pending, netmap>> /\ NetworkStep

SyncNetworks ==
    /\ nt.pc = "sync"
    /\ \/ /\ netmap' \in SyncStep(netmap, nt.want)
          /\ UNCHANGED nt
       \/ /\ netmap = nt.want
          /\ nt' = [nt EXCEPT !.pc = "publish"]
          /\ UNCHANGED netmap
    /\ UNCHANGED <<pending, ready, failures>> /\ NetworkStep

PublishReady ==
    /\ nt.pc = "publish"
    /\ ready' = TRUE
    /\ nt' = [nt EXCEPT !.pc = "wait", !.known = nt.want, !.stale = FALSE,
                        !.want = {}, !.had = {}]
    /\ UNCHANGED <<pending, netmap, failures>> /\ NetworkStep

(* A failed update returns at once and leaves the ready key as it was. *)
UpdateFails ==
    /\ \/ nt.pc = "publish"
       \/ nt.pc = "sync" /\ ~(nt.want \subseteq netmap)
    /\ Fail
    /\ nt' = [nt EXCEPT !.pc = "wait", !.stale = TRUE, !.want = {}, !.had = {}]
    /\ UNCHANGED <<pending, networkMap>> /\ NetworkStep

StopsNetworks == stop = "networks"

(* Messages are drained, the burst settles, and what it brought is drained *)
(* before the rules are read.                                              *)
WaitRules ==
    /\ nt.pc = "wait"
    /\ \/ StopsNetworks /\ nt' = [nt EXCEPT !.pc = "joined"] /\ UNCHANGED pending
       \/ /\ ~StopsNetworks /\ pending
          /\ pending' = FALSE
          /\ nt' = [nt EXCEPT !.pc = "settle"]
    /\ UNCHANGED <<networkMap, failures>> /\ NetworkStep

SettleRules ==
    /\ nt.pc = "settle"
    /\ \/ StopsNetworks /\ nt' = [nt EXCEPT !.pc = "joined"] /\ UNCHANGED pending
       \/ ~StopsNetworks /\ pending' = FALSE /\ nt' = [nt EXCEPT !.pc = "dump"]
    /\ UNCHANGED <<networkMap, failures>> /\ NetworkStep

-----------------------------------------------------------------------------
(* bpf_runtime_stop: the interface thread is stopped and joined, then the  *)
(* network thread.  It also ends a start that failed.                      *)

Started == InterfacesStarted /\ (nt.gaveUp \/ nt.pc = "wait")

StopStep ==
    UNCHANGED <<policy, kernel, sockets, interfaceMaps, networkMap, it, nt,
                changes, failures>>

Stop ==
    /\ stop = "no" /\ (Started \/ it.gaveUp)
    /\ stop' = "interfaces"
    /\ StopStep

JoinInterfaces ==
    /\ stop = "interfaces"
    /\ it.pc \in {"off", "joined"}
    /\ stop' = "networks"
    /\ StopStep

JoinNetworks ==
    /\ stop = "networks"
    /\ nt.pc \in {"off", "joined"}
    /\ stop' = "done"
    /\ StopStep

-----------------------------------------------------------------------------
Init ==
    /\ policy \in {"interfaces", "networks"}
    /\ link \in [Links -> {"absent", "plain", "ignored"}]
    /\ route \in [Routes -> Links \cup {None}]
    /\ \A r \in Routes : route[r] # None => link[route[r]] # "absent"
    /\ rules \in (SUBSET Nets) \cup {None}
    /\ IF policy = "interfaces" THEN rules = None
       ELSE route = [r \in Routes |-> None] /\ link = [i \in Links |-> "absent"]
    /\ queue = <<>> /\ overrun = FALSE /\ pending = FALSE
    /\ ifmap = {} /\ rtmap = {} /\ netmap = {} /\ ready = FALSE
    /\ it = [pc |-> "off", up |-> FALSE, gaveUp |-> FALSE, full |-> FALSE,
             family |-> 4, want |-> {}, had |-> {}, list |-> {}, links |-> FALSE,
             routes |-> FALSE, stale |-> FALSE]
    /\ nt = [pc |-> "off", gaveUp |-> FALSE, want |-> {}, had |-> {}, known |-> None,
             stale |-> FALSE]
    /\ stop = "no" /\ changes = 0 /\ failures = 0

InterfaceThread ==
    \/ OpenInterfaces \/ ReadLinks \/ SyncLinks \/ ReadRoutes \/ SyncRoutes
    \/ CreateThread \/ WaitInput \/ Drain \/ Settle \/ Apply

NetworkThread ==
    \/ OpenNetworks \/ DumpRules \/ SyncNetworks \/ PublishReady
    \/ WaitRules \/ SettleRules

Stopping == JoinInterfaces \/ JoinNetworks

Kernel == LinkChanges \/ RouteChanges \/ RulesChange

Next ==
    \/ Kernel \/ InterfaceThread \/ RefreshFails
    \/ NetworkThread \/ UpdateFails \/ Stop \/ Stopping

(* The scheduler runs every thread that can run; the waits have timeouts.  *)
Spec ==
    /\ Init /\ [][Next]_vars
    /\ WF_vars(InterfaceThread) /\ WF_vars(NetworkThread) /\ WF_vars(Stopping)

-----------------------------------------------------------------------------
(* Types.  The changes a batch noted are forgotten when it is applied, and *)
(* a thread that finished a full refresh has the list its map holds.       *)
TypeOK ==
    /\ policy \in {"interfaces", "networks"}
    /\ link \in [Links -> {"absent", "plain", "ignored"}]
    /\ route \in [Routes -> Links \cup {None}]
    /\ rules \in (SUBSET Nets) \cup {None}
    /\ Len(queue) <= QueueCap
    /\ {overrun, pending, ready} \subseteq BOOLEAN
    /\ ifmap \subseteq Links /\ rtmap \subseteq Routes /\ netmap \subseteq Nets
    /\ stop \in {"no", "interfaces", "networks", "done"}
    /\ it.pc = "wait" => ~it.links /\ ~it.routes
    /\ it.pc \in {"readRoutes", "syncRoutes"} /\ it.full => it.list = ifmap

InterfacesQuiet == it.pc = "wait" /\ it.up /\ ~Readable /\ ~it.stale

NetworksQuiet == nt.pc = "wait" /\ ~pending /\ ~nt.stale

(* A thread that waits, has no message to read and whose last refresh did  *)
(* not fail has the kernel's present links, routes or networks in its map: *)
(* no filtered, coalesced or dropped message loses a change                *)
(* (note_interface_policy_message, ENOBUFS, the settle window).            *)
QuietMeansFresh ==
    /\ TypeOK
    /\ InterfacesQuiet => /\ ifmap = IgnoredLinks
                          /\ rtmap = RoutesThrough(IgnoredLinks)
    /\ NetworksQuiet => /\ ready = (rules # None)
                        /\ ready => netmap = DefaultNetworks

(* A lookup never sees a transiently emptied map: while a map is brought   *)
(* up to date it holds at least all the keys it had or all the keys it is  *)
(* to have, at every step (sync_map_keys, refresh_default_networks).       *)
OldOrNew ==
    /\ it.pc = "syncLinks" => it.had \subseteq ifmap \/ it.want \subseteq ifmap
    /\ it.pc = "syncRoutes" => it.had \subseteq rtmap \/ it.want \subseteq rtmap
    /\ nt.pc = "sync" => nt.had \subseteq netmap \/ nt.want \subseteq netmap

(* The hooks guess nothing: while the ready key is there, a socket bound   *)
(* to a network that the last written rule set, and the one being written  *)
(* now, name as a default one is not bypassed; and without a usable rule   *)
(* set no socket is (emit_explicit_network_bypass).                        *)
ReadyHonest ==
    \A n \in Nets :
        ExplicitBypass([network |-> n], netmap, ready) =>
            /\ nt.known # None
            /\ \/ nt.stale
               \/ n \notin nt.known
               \/ nt.pc \in {"sync", "publish"} /\ n \notin nt.want

(* Whatever a hook looks up while a map is written, it is misled neither   *)
(* by a half-written set nor by one that is not known yet.                 *)
HooksNotMisled == OldOrNew /\ ReadyHonest

PolicyConfigs ==
    [mode : {"global", "whitelist", "blacklist"}, hijack : BOOLEAN,
     enhancement : BOOLEAN, bypass_direct : BOOLEAN]

(* Flows of an app the policy selects, on a socket without a device, an    *)
(* explicit network or a mark.                                             *)
PlainFlows(p) ==
    [self : {FALSE}, special : {FALSE}, device : {None}, network : {None},
     mark : {None}, uid : {IF p.mode = "whitelist" THEN "selected" ELSE "other"},
     protocol : {"tcp", "udp"}, port : {"dns", "ipsec", "other"},
     dst : SUBSET {"local", "proxy", "private", "direct"},
     route : Routes \cup {None}]

(* A destination gets the same verdict from the hooks, for a local app     *)
(* that is selected, as from the TC program, for a tethered client, unless *)
(* it is reached through an interface that is ignored, once the map of     *)
(* those is up to date (emit_ipv4_policy_checks_from_regs and              *)
(* emit_ipv6_policy_checks against policy4_proxy and policy6_proxy).       *)
HookAgreesWithTc ==
    InterfacesQuiet =>
      \A p \in PolicyConfigs : \A f \in PlainFlows(p) :
        (f.route # None => route[f.route] \notin IgnoredLinks) =>
            HookVerdict(p, f, ifmap, rtmap, netmap, ready) = TcVerdict(p, f)

(* Once the kernel's state stops changing the maps catch up with it, or a  *)
(* refresh failed, or the runtime stops.                                   *)
EventuallyFresh ==
    []<>(\/ stop # "no"
         \/ failures > 0
         \/ /\ policy = "interfaces" => InterfacesQuiet
            /\ NetworksQuiet)

(* A stop is never stuck behind a thread that waits for a message          *)
(* (interface_policy_stop, network_selection_stop).                        *)
StopJoins == stop # "no" ~> stop = "done"

(* The two threads are never stuck, in a stop or before one.               *)
ThreadsProgress == EventuallyFresh /\ StopJoins
=============================================================================
