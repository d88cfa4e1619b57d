---------------------------- MODULE PolicyProofs ----------------------------
(***************************************************************************)
(* That the maps the hooks read are the kernel's links, routes and rules   *)
(* whenever the two threads are quiet, that no lookup is misled while they *)
(* are written, and that hooks and TC program then agree, for any links,   *)
(* routes and networks, any queue length, and any changes and failures.    *)
(***************************************************************************)
EXTENDS Policy, TLAPS

-----------------------------------------------------------------------------
(* The interface thread. *)

Messages == [kind : {"link", "route"}, link : Links, ignored : BOOLEAN]

InterfaceThreads ==
    [pc : {"off", "readLinks", "syncLinks", "readRoutes", "syncRoutes", "wait",
           "drain", "settle", "apply", "joined"},
     up : BOOLEAN, gaveUp : BOOLEAN, full : BOOLEAN, family : {4, 6},
     want : SUBSET (Links \cup Routes), had : SUBSET (Links \cup Routes),
     list : SUBSET Links, links : BOOLEAN, routes : BOOLEAN, stale : BOOLEAN]

InterfaceTypes ==
    /\ link \in [Links -> {"absent", "plain", "ignored"}]
    /\ route \in [Routes -> Links \cup {None}]
    /\ queue \in Seq(Messages) /\ Len(queue) <= QueueCap
    /\ overrun \in BOOLEAN
    /\ ifmap \subseteq Links /\ rtmap \subseteq Routes
    /\ it \in InterfaceThreads
    /\ it.pc = "syncLinks" => it.want \subseteq Links
    /\ it.pc = "syncRoutes" => it.want \subseteq Family(it.family)

Unread == {queue[k] : k \in DOMAIN queue}

\* The thread has been told, or will be, that a link no longer is what the list
\* `known' says of it: it noted so, or there is a message it will note, or it will
\* learn that messages were dropped.
LinkTold(i, known) ==
    \/ overrun
    \/ it.links
    \/ \E m \in Unread : m.kind = "link" /\ m.link = i /\ (i \in known \/ m.ignored)

LinksWatched(known) ==
    \A i \in Links : ~(i \in known <=> link[i] = "ignored") => LinkTold(i, known)

\* The same of the routes through the links of its list.
RoutesTold ==
    \/ overrun
    \/ it.links
    \/ it.routes
    \/ \E m \in Unread : m.link \in it.list

RoutesWatched(known, routes) ==
    \A r \in routes : ~(r \in known <=> route[r] \in it.list) => RoutesTold

\* Where the thread may rely on its list: unless a refresh failed, and in a full
\* refresh once the links were read again.
ListTrusted ==
    \/ it.pc \in {"readRoutes", "syncRoutes"} /\ it.full
    \/ it.pc \in {"readRoutes", "syncRoutes", "wait", "drain", "settle", "apply"} /\ ~it.stale

\* What a batch noted is forgotten when it is applied.
NotesTaken ==
    it.links \/ it.routes => it.pc \in {"drain", "settle", "apply", "joined"}

LinksMirrored ==
    /\ ListTrusted => it.list = ifmap /\ LinksWatched(it.list)
    /\ it.pc = "syncLinks" => LinksWatched(it.want)

RoutesMirrored ==
    /\ it.pc \in {"wait", "drain", "settle", "apply"} /\ ~it.stale => RoutesWatched(rtmap, Routes)
    /\ it.pc \in {"readRoutes", "syncRoutes"} /\ it.family = 6 => RoutesWatched(rtmap, Family(4))
    /\ it.pc = "syncRoutes" => RoutesWatched(it.want, Family(it.family))

InterfaceMapsWhole ==
    /\ it.pc = "syncLinks" => it.had \subseteq ifmap \/ it.want \subseteq ifmap
    /\ it.pc = "syncRoutes" => it.had \subseteq rtmap \/ it.want \subseteq rtmap

InterfaceInv ==
    /\ InterfaceTypes
    /\ NotesTaken
    /\ LinksMirrored
    /\ RoutesMirrored
    /\ InterfaceMapsWhole

-----------------------------------------------------------------------------
(* The network thread. *)

NetworkThreads ==
    [pc : {"off", "dump", "sync", "publish", "wait", "settle", "joined"},
     gaveUp : BOOLEAN, want : SUBSET Nets, had : SUBSET Nets,
     known : (SUBSET Nets) \cup {None}, stale : BOOLEAN]

NetworkTypes ==
    /\ rules \in (SUBSET Nets) \cup {None}
    /\ pending \in BOOLEAN
    /\ netmap \subseteq Nets /\ ready \in BOOLEAN
    /\ nt \in NetworkThreads

\* The thread read the rules as they are, or its socket is readable.
RulesWatched ==
    /\ nt.pc \in {"sync", "publish"} => pending \/ nt.want = rules
    /\ nt.pc = "wait" /\ ~nt.stale => pending \/ nt.known = rules

\* The ready key is there if and only if a rule set was written, and then the map
\* holds that one, unless another one is being written or could not be.
ReadyExact ==
    /\ ready <=> nt.known # None
    /\ ready /\ ~nt.stale /\ nt.pc \notin {"sync", "publish"} => netmap = nt.known
    /\ ready /\ ~nt.stale /\ nt.pc = "sync" => nt.had = nt.known
    /\ nt.pc = "sync" => nt.had \subseteq netmap \/ nt.want \subseteq netmap
    /\ nt.pc = "publish" => netmap = nt.want
    /\ nt.pc = "off" => ~ready

NetworkInv == NetworkTypes /\ RulesWatched /\ ReadyExact

\* The inductive invariant.
IInv ==
    /\ policy \in {"interfaces", "networks"}
    /\ stop \in {"no", "interfaces", "networks", "done"}
    /\ InterfaceInv
    /\ NetworkInv

-----------------------------------------------------------------------------
(* Messages that were not dealt with yet. *)

\* What was told of links stays told while it is noted or unread.
LEMMA ToldStays ==
  ASSUME overrun => overrun', Unread \subseteq Unread', it.links => it'.links
  PROVE  \A i, known : LinkTold(i, known) => LinkTold(i, known)'
BY Zenon DEF LinkTold

\* The same of what was told of routes.
LEMMA RoutesToldStays ==
  ASSUME overrun => overrun', Unread \subseteq Unread', it.links => it'.links,
         it.routes => it'.routes, it'.list = it.list
  PROVE  RoutesTold => RoutesTold'
BY Zenon DEF RoutesTold

-----------------------------------------------------------------------------
(* Steps that leave a thread alone. *)

\* What a thread neither reads nor writes cannot break its invariant.
LEMMA InterfaceKept ==
  ASSUME InterfaceInv, UNCHANGED <<link, route, queue, overrun, ifmap, rtmap, it>>
  PROVE  InterfaceInv'
<1>1. InterfaceTypes' /\ NotesTaken' /\ InterfaceMapsWhole'
  BY Zenon DEF InterfaceInv, InterfaceTypes, NotesTaken, InterfaceMapsWhole, Family
<1>2. \A i, known : LinkTold(i, known) => LinkTold(i, known)'
  BY ToldStays, Zenon DEF Unread
<1>3. LinksMirrored'
  BY <1>2, Zenon DEF InterfaceInv, LinksMirrored, ListTrusted, LinksWatched
<1>4. RoutesTold => RoutesTold'
  BY RoutesToldStays, Zenon DEF Unread
<1>5. RoutesMirrored'
  BY <1>4, Zenon DEF InterfaceInv, RoutesMirrored, RoutesWatched, Family
<1>6. QED
  BY <1>1, <1>3, <1>5, Zenon DEF InterfaceInv

\* The same of the network thread.
LEMMA NetworkKept ==
  ASSUME NetworkInv, UNCHANGED <<rules, pending, netmap, ready, nt>>
  PROVE  NetworkInv'
BY Zenon DEF NetworkInv, NetworkTypes, RulesWatched, ReadyExact

-----------------------------------------------------------------------------
(* The kernel. *)

\* A message joins the others, or the thread is going to learn that it was dropped.
LEMMA Posted ==
  ASSUME InterfaceTypes, NEW m \in Messages, Post(m), Listening
  PROVE  /\ queue' \in Seq(Messages) /\ Len(queue') <= QueueCap /\ overrun' \in BOOLEAN
         /\ overrun => overrun'
         /\ Unread \subseteq Unread'
         /\ overrun' \/ m \in Unread'
<1>1. CASE Len(queue) < QueueCap
  <2>1. queue' = Append(queue, m) /\ overrun' = overrun
    BY <1>1, Zenon DEF Post
  <2>2. queue \in Seq(Messages) /\ overrun \in BOOLEAN /\ QueueCap \in Nat
    BY PolicyAssumption DEF InterfaceTypes
  <2>3. /\ queue' \in Seq(Messages) /\ Len(queue') = Len(queue) + 1
        /\ \A k \in 1..Len(queue) : queue'[k] = queue[k]
        /\ queue'[Len(queue) + 1] = m
    BY <2>1, <2>2
  <2>4. /\ \A k \in DOMAIN queue : k \in DOMAIN queue' /\ queue'[k] = queue[k]
        /\ Len(queue) + 1 \in DOMAIN queue'
    BY <2>2, <2>3
  <2>5. Unread \subseteq Unread' /\ m \in Unread'
    BY <2>3, <2>4, Zenon DEF Unread
  <2>6. Len(queue') <= QueueCap
    BY <1>1, <2>2, <2>3
  <2>7. QED
    BY <2>1, <2>2, <2>3, <2>5, <2>6, Zenon
<1>2. CASE ~(Len(queue) < QueueCap)
  BY <1>2, Zenon DEF Post, InterfaceTypes, Unread
<1>3. QED
  BY <1>1, <1>2, Zenon

\* A thread that does not listen relies on nothing.
LEMMA NotListening ==
  ASSUME InterfaceInv, ~Listening, UNCHANGED <<queue, overrun, ifmap, rtmap, it>>,
         link' \in [Links -> {"absent", "plain", "ignored"}], route' \in [Routes -> Links \cup {None}]
  PROVE  InterfaceInv'
<1>1. it.pc \in {"off", "joined"}
  BY Zenon DEF Listening
<1>2. InterfaceTypes'
  BY Zenon DEF InterfaceInv, InterfaceTypes, Family
<1>3. NotesTaken' /\ InterfaceMapsWhole'
  BY Zenon DEF InterfaceInv, NotesTaken, InterfaceMapsWhole
<1>4. LinksMirrored' /\ RoutesMirrored'
  BY <1>1 DEF LinksMirrored, ListTrusted, RoutesMirrored
<1>5. QED
  BY <1>2, <1>3, <1>4, Zenon DEF InterfaceInv

\* A link that appears, is renamed or goes is announced by a message that names it.
LEMMA LinkChangesKeeps ==
  ASSUME InterfaceInv, LinkChanges
  PROVE  InterfaceInv'
<1>1. PICK i \in Links, s \in {"absent", "plain", "ignored"} :
          /\ s # link[i]
          /\ link' = [link EXCEPT ![i] = s]
          /\ route' = [r \in Routes |-> IF s = "absent" /\ route[r] = i THEN None ELSE route[r]]
          /\ Post([kind |-> "link", link |-> i,
                   ignored |-> (IF s = "absent" THEN link[i] ELSE s) = "ignored"])
  BY Zenon DEF LinkChanges
<1> DEFINE m == [kind |-> "link", link |-> i, ignored |-> (IF s = "absent" THEN link[i] ELSE s) = "ignored"]
<1>2. UNCHANGED <<ifmap, rtmap, it>>
  BY Zenon DEF LinkChanges, Change, interfaceMaps
<1>3. InterfaceTypes
  BY Zenon DEF InterfaceInv
<1>4. link' \in [Links -> {"absent", "plain", "ignored"}] /\ route' \in [Routes -> Links \cup {None}]
  <2>1. link \in [Links -> {"absent", "plain", "ignored"}] /\ route \in [Routes -> Links \cup {None}]
    BY <1>3, Zenon DEF InterfaceTypes
  <2>2. link' \in [Links -> {"absent", "plain", "ignored"}]
    BY <1>1, <2>1
  <2>3. \A r \in Routes : (IF s = "absent" /\ route[r] = i THEN None ELSE route[r]) \in Links \cup {None}
    BY <2>1
  <2>4. QED
    BY <1>1, <2>2, <2>3
<1>5. CASE ~Listening
  <2>1. UNCHANGED <<queue, overrun>>
    BY <1>1, <1>5, Zenon DEF Post
  <2>2. QED
    BY <1>2, <1>4, <1>5, <2>1, NotListening, Zenon
<1>6. CASE Listening
  <2>1. m \in Messages
    BY DEF Messages
  <2>2. /\ queue' \in Seq(Messages) /\ Len(queue') <= QueueCap /\ overrun' \in BOOLEAN
        /\ overrun => overrun'
        /\ Unread \subseteq Unread'
        /\ overrun' \/ m \in Unread'
    BY <1>1, <1>3, <1>6, <2>1, Posted, Zenon
  <2>3. InterfaceTypes'
    BY <1>2, <1>3, <1>4, <2>2, Zenon DEF InterfaceTypes, Family
  <2>4. NotesTaken' /\ InterfaceMapsWhole'
    BY <1>2, Zenon DEF InterfaceInv, NotesTaken, InterfaceMapsWhole
  <2>5. /\ \A j, known : LinkTold(j, known) => LinkTold(j, known)'
        /\ RoutesTold => RoutesTold'
    BY <1>2, <2>2, ToldStays, RoutesToldStays, Zenon
  <2>6. \A known : i \in known \/ s = "ignored" => LinkTold(i, known)'
    <3>1. m.kind = "link" /\ m.link = i /\ (s = "ignored" => m.ignored)
      BY Zenon
    <3>2. QED
      BY <2>2, <3>1, Zenon DEF LinkTold
  <2>7. \A j \in Links \ {i} : link'[j] = link[j]
    BY <1>1, <1>3, Zenon DEF InterfaceTypes
  <2>8. link'[i] = s
    BY <1>1, <1>3, Zenon DEF InterfaceTypes
  <2>9. LinksMirrored'
    BY <1>2, <2>5, <2>6, <2>7, <2>8, Zenon DEF InterfaceInv, LinksMirrored, ListTrusted, LinksWatched
  <2>10. i \in it.list => RoutesTold'
    BY <1>2, <2>2 DEF RoutesTold
  <2>11. \A r \in Routes : (route'[r] \in it.list <=> route[r] \in it.list) \/ i \in it.list
    <3>1. it.list \subseteq Links /\ None \notin Links
      BY <1>3, PolicyAssumption DEF InterfaceTypes, InterfaceThreads
    <3>2. QED
      BY <1>1, <3>1
  <2>12. RoutesMirrored'
    <3>1. Family(4) \subseteq Routes /\ Family(6) \subseteq Routes /\ it.family \in {4, 6}
      BY <1>3, PolicyAssumption DEF Family, InterfaceTypes, InterfaceThreads
    <3>2. \A known, routes : routes \subseteq Routes /\ RoutesWatched(known, routes) => RoutesWatched(known, routes)'
      BY <1>2, <2>5, <2>10, <2>11, Zenon DEF RoutesWatched
    <3>3. QED
      BY <1>2, <2>5, <2>10, <2>11, <3>1 DEF InterfaceInv, RoutesMirrored, RoutesWatched, Family
  <2>13. QED
    BY <2>3, <2>4, <2>9, <2>12, Zenon DEF InterfaceInv
<1>7. QED
  BY <1>5, <1>6, Zenon

\* A route of a listed link that appears or goes is announced by a message that
\* names the link.
LEMMA RouteChangesKeeps ==
  ASSUME InterfaceInv, RouteChanges
  PROVE  InterfaceInv'
<1>1. PICK r \in Routes, i \in Links :
          /\ route[r] \in {None, i}
          /\ route' = [route EXCEPT ![r] = IF route[r] = i THEN None ELSE i]
          /\ Post([kind |-> "route", link |-> i, ignored |-> FALSE])
  BY Zenon DEF RouteChanges
<1> DEFINE m == [kind |-> "route", link |-> i, ignored |-> FALSE]
<1>2. UNCHANGED <<link, ifmap, rtmap, it>>
  BY Zenon DEF RouteChanges, Change, interfaceMaps
<1>3. InterfaceTypes
  BY Zenon DEF InterfaceInv
<1>4. route \in [Routes -> Links \cup {None}] /\ link \in [Links -> {"absent", "plain", "ignored"}]
  BY <1>3, Zenon DEF InterfaceTypes
<1>5. /\ route' \in [Routes -> Links \cup {None}]
      /\ link' \in [Links -> {"absent", "plain", "ignored"}]
  BY <1>1, <1>2, <1>4
<1>6. CASE ~Listening
  <2>1. UNCHANGED <<queue, overrun>>
    BY <1>1, <1>6, Zenon DEF Post
  <2>2. QED
    BY <1>2, <1>5, <1>6, <2>1, NotListening, Zenon
<1>7. CASE Listening
  <2>1. m \in Messages /\ m.link = i
    BY DEF Messages
  <2>2. /\ queue' \in Seq(Messages) /\ Len(queue') <= QueueCap /\ overrun' \in BOOLEAN
        /\ overrun => overrun'
        /\ Unread \subseteq Unread'
        /\ overrun' \/ m \in Unread'
    BY <1>1, <1>3, <1>7, <2>1, Posted, Zenon
  <2>3. InterfaceTypes'
    BY <1>2, <1>3, <1>5, <2>2, Zenon DEF InterfaceTypes, Family
  <2>4. NotesTaken' /\ InterfaceMapsWhole'
    BY <1>2, Zenon DEF InterfaceInv, NotesTaken, InterfaceMapsWhole
  <2>5. /\ \A j, known : LinkTold(j, known) => LinkTold(j, known)'
        /\ RoutesTold => RoutesTold'
    BY <1>2, <2>2, ToldStays, RoutesToldStays, Zenon
  <2>6. LinksMirrored'
    BY <1>2, <2>5, Zenon DEF InterfaceInv, LinksMirrored, ListTrusted, LinksWatched
  <2>7. i \in it.list => RoutesTold'
    BY <1>2, <2>1, <2>2, Zenon DEF RoutesTold
  <2>8. \A q \in Routes : (route'[q] \in it.list <=> route[q] \in it.list) \/ i \in it.list
    <3>1. it.list \subseteq Links /\ None \notin Links
      BY <1>3, PolicyAssumption DEF InterfaceTypes, InterfaceThreads
    <3>2. QED
      BY <1>1, <1>4, <3>1
  <2>9. RoutesMirrored'
    <3>1. Family(4) \subseteq Routes /\ Family(6) \subseteq Routes /\ it.family \in {4, 6}
      BY <1>3, PolicyAssumption DEF Family, InterfaceTypes, InterfaceThreads
    <3>2. QED
      BY <1>2, <2>5, <2>7, <2>8, <3>1 DEF InterfaceInv, RoutesMirrored, RoutesWatched, Family
  <2>10. QED
    BY <2>3, <2>4, <2>6, <2>9, Zenon DEF InterfaceInv
<1>8. QED
  BY <1>6, <1>7, Zenon

-----------------------------------------------------------------------------
(* The interface thread.  Every lemma says of one of its steps that it     *)
(* keeps the invariant.                                                    *)

\* The socket is opened before the links are read, so no change is missed.
LEMMA OpenInterfacesKeeps ==
  ASSUME InterfaceInv, OpenInterfaces
  PROVE  InterfaceInv'
<1>1. UNCHANGED <<link, route, queue, overrun, ifmap, rtmap>>
  BY Zenon DEF OpenInterfaces, sockets, interfaceMaps, InterfaceStep, kernel
<1>2. it \in InterfaceThreads /\ it.pc = "off"
  BY Zenon DEF OpenInterfaces, InterfaceInv, InterfaceTypes
<1>3. it' \in InterfaceThreads /\ it'.pc = "readLinks" /\ it'.links = it.links /\ it'.routes = it.routes
  BY <1>2, Zenon DEF OpenInterfaces, InterfaceThreads
<1>4. ~it.links /\ ~it.routes
  BY <1>2, Zenon DEF InterfaceInv, NotesTaken
<1>5. InterfaceTypes'
  BY <1>1, <1>3, Zenon DEF InterfaceInv, InterfaceTypes
<1>6. NotesTaken' /\ LinksMirrored' /\ RoutesMirrored' /\ InterfaceMapsWhole'
  BY <1>3, <1>4, Zenon DEF NotesTaken, LinksMirrored, ListTrusted, RoutesMirrored, InterfaceMapsWhole
<1>7. QED
  BY <1>5, <1>6, Zenon DEF InterfaceInv

\* The links read are the kernel's present ones.
LEMMA ReadLinksKeeps ==
  ASSUME InterfaceInv, ReadLinks
  PROVE  InterfaceInv'
<1>1. UNCHANGED <<link, route, queue, overrun, ifmap, rtmap>>
  BY Zenon DEF ReadLinks, sockets, interfaceMaps, InterfaceStep, kernel
<1>2. it \in InterfaceThreads /\ it.pc = "readLinks" /\ ifmap \subseteq Links
  BY Zenon DEF ReadLinks, InterfaceInv, InterfaceTypes
<1>3. /\ it' \in InterfaceThreads /\ it'.pc = "syncLinks" /\ it'.links = it.links
      /\ it'.routes = it.routes /\ it'.want = IgnoredLinks /\ it'.had = ifmap
  BY <1>2, Zenon DEF ReadLinks, InterfaceThreads, IgnoredLinks
<1>4. ~it.links /\ ~it.routes
  BY <1>2, Zenon DEF InterfaceInv, NotesTaken
<1>5. InterfaceTypes'
  BY <1>1, <1>3 DEF InterfaceInv, InterfaceTypes, IgnoredLinks
<1>6. LinksMirrored'
  BY <1>1, <1>3, Zenon DEF LinksMirrored, ListTrusted, LinksWatched, IgnoredLinks
<1>7. NotesTaken' /\ RoutesMirrored' /\ InterfaceMapsWhole'
  BY <1>1, <1>3, <1>4, Zenon DEF NotesTaken, RoutesMirrored, InterfaceMapsWhole
<1>8. QED
  BY <1>5, <1>6, <1>7, Zenon DEF InterfaceInv

\* A step of the synchronisation keeps what the map had, or what it is to have.
LEMMA SyncStepWhole ==
  ASSUME NEW map, NEW want, NEW had, NEW map2 \in SyncStep(map, want),
         had \subseteq map \/ want \subseteq map
  PROVE  /\ had \subseteq map2 \/ want \subseteq map2
         /\ map2 \subseteq map \cup want
BY DEF SyncStep

\* The list is replaced when the map holds the links read.
LEMMA SyncLinksKeeps ==
  ASSUME InterfaceInv, SyncLinks
  PROVE  InterfaceInv'
<1>1. UNCHANGED <<link, route, queue, overrun, rtmap>>
  BY Zenon DEF SyncLinks, sockets, InterfaceStep, kernel
<1>2. /\ it \in InterfaceThreads /\ it.pc = "syncLinks" /\ ifmap \subseteq Links
      /\ it.want \subseteq Links
  BY Zenon DEF SyncLinks, InterfaceInv, InterfaceTypes
<1>3. it.had \subseteq ifmap \/ it.want \subseteq ifmap
  BY <1>2, Zenon DEF InterfaceInv, InterfaceMapsWhole
<1>4. LinksWatched(it.want) /\ ~it.links /\ ~it.routes
  BY <1>2 DEF InterfaceInv, LinksMirrored, NotesTaken
<1>5. (it.links => it'.links) => \A i, known : LinkTold(i, known) => LinkTold(i, known)'
  BY <1>1, ToldStays, Zenon DEF Unread
<1>6. CASE ifmap' \in SyncStep(ifmap, it.want) /\ UNCHANGED it
  <2>1. (it.had \subseteq ifmap' \/ it.want \subseteq ifmap') /\ ifmap' \subseteq Links
    BY <1>2, <1>3, <1>6, SyncStepWhole
  <2>2. InterfaceTypes'
    BY <1>1, <1>6, <2>1, Zenon DEF InterfaceInv, InterfaceTypes, Family
  <2>3. InterfaceMapsWhole'
    BY <1>2, <1>6, <2>1 DEF InterfaceMapsWhole
  <2>4. LinksMirrored'
    BY <1>1, <1>2, <1>4, <1>5, <1>6, Zenon DEF LinksMirrored, ListTrusted, LinksWatched
  <2>5. NotesTaken' /\ RoutesMirrored'
    BY <1>2, <1>4, <1>6, Zenon DEF NotesTaken, RoutesMirrored
  <2>6. QED
    BY <2>2, <2>3, <2>4, <2>5, Zenon DEF InterfaceInv
<1>7. CASE /\ ifmap = it.want /\ UNCHANGED ifmap
           /\ it' = [it EXCEPT !.pc = "readRoutes", !.list = it.want, !.family = 4,
                               !.want = {}, !.had = {}]
  <2>1. /\ it' \in InterfaceThreads /\ it'.pc = "readRoutes" /\ it'.links = it.links
        /\ it'.routes = it.routes /\ it'.list = it.want /\ it'.family = 4
    BY <1>2, <1>7, Zenon DEF InterfaceThreads
  <2>2. InterfaceTypes'
    BY <1>1, <1>7, <2>1, Zenon DEF InterfaceInv, InterfaceTypes
  <2>3. LinksMirrored'
    BY <1>1, <1>4, <1>5, <1>7, <2>1, Zenon DEF LinksMirrored, ListTrusted, LinksWatched
  <2>4. NotesTaken' /\ InterfaceMapsWhole'
    BY <1>4, <2>1, Zenon DEF NotesTaken, InterfaceMapsWhole
  <2>5. RoutesMirrored'
    BY <2>1 DEF RoutesMirrored
  <2>6. QED
    BY <2>2, <2>3, <2>4, <2>5, Zenon DEF InterfaceInv
<1>8. QED
  BY <1>6, <1>7, Zenon DEF SyncLinks

\* The routes read are those through the links of the list.
LEMMA ReadRoutesKeeps ==
  ASSUME InterfaceInv, ReadRoutes
  PROVE  InterfaceInv'
<1>1. UNCHANGED <<link, route, queue, overrun, ifmap, rtmap>>
  BY Zenon DEF ReadRoutes, sockets, interfaceMaps, InterfaceStep, kernel
<1>2. it \in InterfaceThreads /\ it.pc = "readRoutes" /\ rtmap \subseteq Routes
  BY Zenon DEF ReadRoutes, InterfaceInv, InterfaceTypes
<1>3. /\ it' \in InterfaceThreads /\ it'.pc = "syncRoutes" /\ it'.links = it.links
      /\ it'.routes = it.routes /\ it'.list = it.list /\ it'.family = it.family
      /\ it'.full = it.full /\ it'.stale = it.stale
      /\ it'.want = RoutesThrough(it.list) \cap Family(it.family)
      /\ it'.had = rtmap \cap Family(it.family)
  <2>1. RoutesThrough(it.list) \cap Family(it.family) \subseteq Routes
    BY Zenon DEF RoutesThrough
  <2>2. QED
    BY <1>2, <2>1, Zenon DEF ReadRoutes, InterfaceThreads
<1>4. ~it.links /\ ~it.routes
  BY <1>2, Zenon DEF InterfaceInv, NotesTaken
<1>5. InterfaceTypes'
  <2>1. it'.want \subseteq Family(it'.family)
    BY <1>3, Zenon
  <2>2. Family(it'.family) = Family(it.family)'
    BY Zenon DEF Family
  <2>3. QED
    BY <1>1, <1>3, <2>1, <2>2, Zenon DEF InterfaceInv, InterfaceTypes
<1>6. \A i, known : LinkTold(i, known) => LinkTold(i, known)'
  BY <1>1, <1>3, ToldStays, Zenon DEF Unread
<1>7. LinksMirrored'
  BY <1>1, <1>2, <1>3, <1>6, Zenon DEF InterfaceInv, LinksMirrored, ListTrusted, LinksWatched
<1>8. RoutesTold => RoutesTold'
  BY <1>1, <1>3, RoutesToldStays, Zenon DEF Unread
<1>9. RoutesMirrored'
  <2>1. RoutesWatched(it.want, Family(it.family))'
    <3>1. Family(it.family) \subseteq Routes
      BY <1>2, PolicyAssumption DEF Family, InterfaceThreads
    <3>2. QED
      BY <1>1, <1>3, <3>1, Zenon DEF RoutesWatched, RoutesThrough, Family
  <2>2. it'.family = 6 => RoutesWatched(rtmap, Family(4))'
    BY <1>1, <1>2, <1>3, <1>8, Zenon DEF InterfaceInv, RoutesMirrored, RoutesWatched, Family
  <2>3. QED
    BY <1>3, <2>1, <2>2, Zenon DEF RoutesMirrored
<1>10. NotesTaken' /\ InterfaceMapsWhole'
  BY <1>1, <1>3, <1>4, Zenon DEF NotesTaken, InterfaceMapsWhole
<1>11. QED
  BY <1>5, <1>7, <1>9, <1>10, Zenon DEF InterfaceInv

\* What a step of the synchronisation of the keys `routes' of a map leaves.
Synced(map, map2, routes, want, had) ==
    /\ had \subseteq map2 \/ want \subseteq map2
    /\ map2 \subseteq map \cup want
    /\ \A r : r \notin routes => (r \in map2 <=> r \in map)

\* A step of the synchronisation of one family leaves the other's routes alone.
LEMMA SyncFamily ==
  ASSUME NEW map, NEW routes, NEW want, NEW had, NEW m \in SyncStep(map \cap routes, want),
         want \subseteq routes, had \subseteq map \/ want \subseteq map,
         NEW map2, map2 = (map \ (map \cap routes)) \cup m
  PROVE  Synced(map, map2, routes, want, had)
<1> DEFINE mine == map \cap routes
<1>1. m \in SyncStep(mine, want)
  OBVIOUS
<1>2. map2 = (map \ mine) \cup m
  OBVIOUS
<1>3. mine \subseteq map /\ mine \subseteq routes /\ \A r \in map : r \in routes => r \in mine
  BY Zenon
<1> HIDE DEF mine
<1>4. m \subseteq mine \cup want
  <2>1. want \subseteq mine \/ {} \subseteq mine
    BY Zenon
  <2>2. QED
    BY <1>1, <2>1, SyncStepWhole, Zenon
<1>5. CASE want \subseteq map
  <2>1. want \subseteq mine
    BY <1>3, <1>5, Zenon
  <2>2. want \subseteq m
    BY <1>1, <2>1, SyncStepWhole, Zenon
  <2>3. QED
    BY <1>2, <1>3, <1>4, <2>2, Zenon DEF Synced
<1>6. CASE had \subseteq map
  <2>1. had \cap routes \subseteq mine
    BY <1>3, <1>6, Zenon
  <2>2. (had \cap routes) \subseteq m \/ want \subseteq m
    BY <1>1, <2>1, SyncStepWhole, Zenon
  <2>3. (had \cap routes) \subseteq m => had \subseteq map2
    BY <1>2, <1>3, <1>6, Zenon
  <2>4. want \subseteq m => want \subseteq map2
    BY <1>2, Zenon
  <2>5. map2 \subseteq map \cup want /\ \A r : r \notin routes => (r \in map2 <=> r \in map)
    BY <1>2, <1>3, <1>4, Zenon
  <2>6. QED
    BY <2>2, <2>3, <2>4, <2>5, Zenon DEF Synced
<1>7. QED
  BY <1>5, <1>6, Zenon

\* The refresh is over when the routes of both families are in the map.
LEMMA SyncRoutesKeeps ==
  ASSUME InterfaceInv, SyncRoutes
  PROVE  InterfaceInv'
<1> DEFINE mine == rtmap \cap Family(it.family)
<1>1. UNCHANGED <<link, route, queue, overrun, ifmap>>
  BY Zenon DEF SyncRoutes, sockets, InterfaceStep, kernel
<1>2. /\ it \in InterfaceThreads /\ it.pc = "syncRoutes" /\ rtmap \subseteq Routes
      /\ it.want \subseteq Family(it.family)
  BY Zenon DEF SyncRoutes, InterfaceInv, InterfaceTypes
<1>3. it.had \subseteq rtmap \/ it.want \subseteq rtmap
  BY <1>2, Zenon DEF InterfaceInv, InterfaceMapsWhole
<1>4. ~it.links /\ ~it.routes
  BY <1>2, Zenon DEF InterfaceInv, NotesTaken
<1>5. (it.links => it'.links) => \A i, known : LinkTold(i, known) => LinkTold(i, known)'
  BY <1>1, ToldStays, Zenon DEF Unread
<1>6. (it.links => it'.links) /\ (it.routes => it'.routes) /\ it'.list = it.list => (RoutesTold => RoutesTold')
  BY <1>1, RoutesToldStays, Zenon DEF Unread
<1>7. /\ it.family \in {4, 6}
      /\ Family(4) = Routes \ Routes6 /\ Family(6) = Routes6 /\ Routes6 \subseteq Routes
  BY <1>2, PolicyAssumption DEF Family, InterfaceThreads
<1>8. /\ RoutesWatched(it.want, Family(it.family))
      /\ it.family = 6 => RoutesWatched(rtmap, Family(4))
  BY <1>2, Zenon DEF InterfaceInv, RoutesMirrored
<1>9. CASE /\ \E m \in SyncStep(mine, it.want) : rtmap' = (rtmap \ mine) \cup m
           /\ UNCHANGED it
  <2>1. PICK m \in SyncStep(mine, it.want) : rtmap' = (rtmap \ mine) \cup m
    BY <1>9, Zenon
  <2>2. /\ it.had \subseteq rtmap' \/ it.want \subseteq rtmap'
        /\ rtmap' \subseteq rtmap \cup it.want
        /\ \A r : r \notin Family(it.family) => (r \in rtmap' <=> r \in rtmap)
    <3>1. Synced(rtmap, rtmap', Family(it.family), it.want, it.had)
      BY <1>2, <1>3, <2>1, SyncFamily, Zenon
    <3>2. QED
      BY <3>1, Zenon DEF Synced
  <2>3. rtmap' \subseteq Routes
    BY <1>2, <1>7, <2>2, Zenon
  <2>4. InterfaceTypes'
    BY <1>1, <1>9, <2>3, Zenon DEF InterfaceInv, InterfaceTypes, Family
  <2>5. NotesTaken' /\ InterfaceMapsWhole'
    BY <1>2, <1>4, <1>9, <2>2, Zenon DEF NotesTaken, InterfaceMapsWhole
  <2>6. LinksMirrored'
    BY <1>1, <1>5, <1>9, Zenon DEF InterfaceInv, LinksMirrored, ListTrusted, LinksWatched
  <2>7. RoutesTold => RoutesTold'
    BY <1>6, <1>9, Zenon
  <2>8. RoutesWatched(it.want, Family(it.family))'
    BY <1>1, <1>8, <1>9, <2>7, Zenon DEF RoutesWatched, Family
  <2>9. it.family = 6 => RoutesWatched(rtmap, Family(4))'
    <3>1. \A r \in Family(4) : it.family = 6 => (r \in rtmap' <=> r \in rtmap)
      BY <1>7, <2>2, Zenon
    <3>2. QED
      BY <1>1, <1>8, <1>9, <2>7, <3>1, Zenon DEF RoutesWatched, Family
  <2>10. RoutesMirrored'
    BY <1>2, <1>9, <2>8, <2>9, Zenon DEF RoutesMirrored
  <2>11. QED
    BY <2>4, <2>5, <2>6, <2>10, Zenon DEF InterfaceInv
<1>10. CASE /\ mine = it.want /\ UNCHANGED rtmap /\ it.family = 4
            /\ it' = [it EXCEPT !.pc = "readRoutes", !.family = 6, !.want = {}, !.had = {}]
  <2>1. /\ it' \in InterfaceThreads /\ it'.pc = "readRoutes" /\ it'.links = it.links
        /\ it'.routes = it.routes /\ it'.list = it.list
        /\ it'.full = it.full /\ it'.stale = it.stale
    BY <1>2, <1>10, Zenon DEF InterfaceThreads
  <2>2. InterfaceTypes'
    BY <1>1, <1>10, <2>1, Zenon DEF InterfaceInv, InterfaceTypes
  <2>3. NotesTaken' /\ InterfaceMapsWhole'
    BY <1>4, <2>1, Zenon DEF NotesTaken, InterfaceMapsWhole
  <2>4. LinksMirrored'
    BY <1>1, <1>2, <1>5, <2>1, Zenon DEF InterfaceInv, LinksMirrored, ListTrusted, LinksWatched
  <2>5. RoutesTold => RoutesTold'
    BY <1>6, <2>1, Zenon
  <2>6. \A r \in Family(4) : r \in rtmap <=> r \in it.want
    BY <1>10, Zenon
  <2>7. RoutesWatched(it.want, Family(4))
    BY <1>8, <1>10, Zenon
  <2>8. RoutesWatched(rtmap, Family(4))'
    BY <1>1, <1>10, <2>1, <2>5, <2>6, <2>7, Zenon DEF RoutesWatched, Family
  <2>9. RoutesMirrored'
    BY <2>1, <2>8, Zenon DEF RoutesMirrored
  <2>10. QED
    BY <2>2, <2>3, <2>4, <2>9, Zenon DEF InterfaceInv
<1>11. CASE /\ mine = it.want /\ UNCHANGED rtmap /\ it.family # 4
            /\ it' = [it EXCEPT !.pc = "wait", !.want = {}, !.had = {},
                                !.stale = it.stale /\ ~it.full]
  <2>1. /\ it' \in InterfaceThreads /\ it'.pc = "wait" /\ it'.links = it.links
        /\ it'.routes = it.routes /\ it'.list = it.list
        /\ it'.stale = (it.stale /\ ~it.full)
    BY <1>2, <1>11, Zenon DEF InterfaceThreads
  <2>2. InterfaceTypes'
    BY <1>1, <1>11, <2>1, Zenon DEF InterfaceInv, InterfaceTypes
  <2>3. NotesTaken' /\ InterfaceMapsWhole'
    BY <1>4, <2>1, Zenon DEF NotesTaken, InterfaceMapsWhole
  <2>4. LinksMirrored'
    BY <1>1, <1>2, <1>5, <2>1, Zenon DEF InterfaceInv, LinksMirrored, ListTrusted, LinksWatched
  <2>5. RoutesTold => RoutesTold'
    BY <1>6, <2>1, Zenon
  <2>6. it.family = 6
    BY <1>7, <1>11
  <2>7. \A r \in Family(6) : r \in rtmap <=> r \in it.want
    BY <1>11, <2>6, Zenon
  <2>8. RoutesWatched(it.want, Family(6)) /\ RoutesWatched(rtmap, Family(4))
    BY <1>8, <2>6, Zenon
  <2>9. \A r \in Routes : r \in Family(4) \/ r \in Family(6)
    BY <1>7, Zenon
  <2>10. RoutesWatched(rtmap, Routes)'
    BY <1>1, <1>11, <2>1, <2>5, <2>7, <2>8, <2>9, Zenon DEF RoutesWatched
  <2>11. RoutesMirrored'
    BY <2>1, <2>10, Zenon DEF RoutesMirrored
  <2>12. QED
    BY <2>2, <2>3, <2>4, <2>11, Zenon DEF InterfaceInv
<1>12. QED
  BY <1>9, <1>10, <1>11, Zenon DEF SyncRoutes

\* A step that only moves the thread among its waits, or ends it, relies on no more.
LEMMA WaitsOn ==
  ASSUME InterfaceInv, UNCHANGED <<link, route, queue, overrun, ifmap, rtmap>>,
         it.pc \in {"wait", "drain", "settle", "apply"},
         it' \in InterfaceThreads, it'.pc \in {"wait", "drain", "settle", "apply", "joined"},
         it'.list = it.list, it'.links = it.links, it'.routes = it.routes, it'.stale = it.stale,
         NotesTaken'
  PROVE  InterfaceInv'
<1>1. InterfaceTypes' /\ InterfaceMapsWhole'
  BY Zenon DEF InterfaceInv, InterfaceTypes, InterfaceMapsWhole
<1>2. \A i, known : LinkTold(i, known) => LinkTold(i, known)'
  BY ToldStays, Zenon DEF Unread
<1>3. RoutesTold => RoutesTold'
  BY RoutesToldStays, Zenon DEF Unread
<1>4. LinksMirrored'
  BY <1>2, Zenon DEF InterfaceInv, LinksMirrored, ListTrusted, LinksWatched
<1>5. RoutesMirrored'
  BY <1>3, Zenon DEF InterfaceInv, RoutesMirrored, RoutesWatched
<1>6. QED
  BY <1>1, <1>4, <1>5, Zenon DEF InterfaceInv

\* A refresh that failed leaves a thread that relies on nothing.
LEMMA RefreshFailsKeeps ==
  ASSUME InterfaceInv, RefreshFails
  PROVE  InterfaceInv'
<1>1. UNCHANGED <<link, route, queue, overrun, ifmap, rtmap>>
  BY Zenon DEF RefreshFails, sockets, interfaceMaps, InterfaceStep, kernel
<1>2. it \in InterfaceThreads
  BY Zenon DEF InterfaceInv, InterfaceTypes
<1>3. ~it.links /\ ~it.routes
  BY Zenon DEF RefreshFails, InterfaceInv, NotesTaken
<1>4. /\ it' \in InterfaceThreads /\ it'.links = it.links /\ it'.routes = it.routes
      /\ it'.pc = "off" \/ (it'.pc = "wait" /\ it'.stale)
  <2>1. CASE it' = [it EXCEPT !.pc = "wait", !.want = {}, !.had = {}, !.stale = TRUE]
    BY <1>2, <2>1, Zenon DEF InterfaceThreads
  <2>2. CASE it' = [it EXCEPT !.pc = "off", !.gaveUp = TRUE]
    <3>1. it'.pc = "off" /\ it'.links = it.links /\ it'.routes = it.routes
      BY <1>2, <2>2, Zenon DEF InterfaceThreads
    <3>2. it' \in InterfaceThreads
      BY <1>2, <2>2, Zenon DEF InterfaceThreads
    <3>3. QED
      BY <3>1, <3>2, Zenon
  <2>3. QED
    BY <2>1, <2>2, Zenon DEF RefreshFails
<1>5. InterfaceTypes'
  BY <1>1, <1>4, Zenon DEF InterfaceInv, InterfaceTypes
<1>6. NotesTaken' /\ LinksMirrored' /\ RoutesMirrored' /\ InterfaceMapsWhole'
  BY <1>3, <1>4, Zenon DEF NotesTaken, LinksMirrored, ListTrusted, RoutesMirrored, InterfaceMapsWhole
<1>7. QED
  BY <1>5, <1>6, Zenon DEF InterfaceInv

\* The new thread goes on where the start left it.
LEMMA CreateThreadKeeps ==
  ASSUME InterfaceInv, CreateThread
  PROVE  InterfaceInv'
<1>1. UNCHANGED <<link, route, queue, overrun, ifmap, rtmap>>
  BY Zenon DEF CreateThread, sockets, interfaceMaps, InterfaceStep, kernel
<1>2. it \in InterfaceThreads /\ it.pc = "wait"
  BY Zenon DEF CreateThread, InterfaceInv, InterfaceTypes
<1>3. /\ it' \in InterfaceThreads /\ it'.pc = "wait" /\ it'.list = it.list /\ it'.links = it.links
      /\ it'.routes = it.routes /\ it'.stale = it.stale
  BY <1>2, Zenon DEF CreateThread, InterfaceThreads
<1>4. NotesTaken'
  BY <1>2, <1>3, Zenon DEF InterfaceInv, NotesTaken
<1>5. QED
  BY <1>1, <1>2, <1>3, <1>4, WaitsOn, Zenon

\* A message that arrives, or a stop, ends the wait.
LEMMA WaitInputKeeps ==
  ASSUME InterfaceInv, WaitInput
  PROVE  InterfaceInv'
<1>1. UNCHANGED <<link, route, queue, overrun, ifmap, rtmap>>
  BY Zenon DEF WaitInput, sockets, interfaceMaps, InterfaceStep, kernel
<1>2. it \in InterfaceThreads /\ it.pc = "wait"
  BY Zenon DEF WaitInput, InterfaceInv, InterfaceTypes
<1>3. \E pc \in {"joined", "drain"} : it' = [it EXCEPT !.pc = pc]
  BY Zenon DEF WaitInput
<1>4. /\ it' \in InterfaceThreads /\ it'.pc \in {"joined", "drain"} /\ it'.list = it.list
      /\ it'.links = it.links /\ it'.routes = it.routes /\ it'.stale = it.stale
  BY <1>2, <1>3, Zenon DEF InterfaceThreads
<1>5. NotesTaken'
  BY <1>4, Zenon DEF NotesTaken
<1>6. QED
  BY <1>1, <1>2, <1>4, <1>5, WaitsOn, Zenon

\* The batch is complete, goes on, or is given up.
LEMMA SettleKeeps ==
  ASSUME InterfaceInv, Settle
  PROVE  InterfaceInv'
<1>1. UNCHANGED <<link, route, queue, overrun, ifmap, rtmap>>
  BY Zenon DEF Settle, sockets, interfaceMaps, InterfaceStep, kernel
<1>2. it \in InterfaceThreads /\ it.pc = "settle"
  BY Zenon DEF Settle, InterfaceInv, InterfaceTypes
<1>3. \E pc \in {"joined", "drain", "apply"} : it' = [it EXCEPT !.pc = pc]
  BY Zenon DEF Settle
<1>4. /\ it' \in InterfaceThreads /\ it'.pc \in {"joined", "drain", "apply"} /\ it'.list = it.list
      /\ it'.links = it.links /\ it'.routes = it.routes /\ it'.stale = it.stale
  BY <1>2, <1>3, Zenon DEF InterfaceThreads
<1>5. NotesTaken'
  BY <1>4, Zenon DEF NotesTaken
<1>6. QED
  BY <1>1, <1>2, <1>4, <1>5, WaitsOn, Zenon

\* What a batch noted is read again: the links if one changed, else the routes.
LEMMA ApplyKeeps ==
  ASSUME InterfaceInv, Apply
  PROVE  InterfaceInv'
<1>1. UNCHANGED <<link, route, queue, overrun, ifmap, rtmap>>
  BY Zenon DEF Apply, sockets, interfaceMaps, InterfaceStep, kernel
<1>2. it \in InterfaceThreads /\ it.pc = "apply"
  BY Zenon DEF Apply, InterfaceInv, InterfaceTypes
<1>3. it.links \in BOOLEAN /\ it.routes \in BOOLEAN
  BY <1>2, Zenon DEF InterfaceThreads
<1>4. /\ it' \in InterfaceThreads
      /\ it'.pc = IF it.links THEN "readLinks" ELSE IF it.routes THEN "readRoutes" ELSE "wait"
      /\ it'.full = it.links /\ it'.family = 4
      /\ it'.links = FALSE /\ it'.routes = FALSE /\ it'.list = it.list /\ it'.stale = it.stale
  <2>1. it' = [it EXCEPT !.pc = IF it.links THEN "readLinks" ELSE IF it.routes THEN "readRoutes" ELSE "wait",
                        !.full = it.links, !.family = 4,
                        !.links = FALSE, !.routes = FALSE]
    BY Zenon DEF Apply
  <2>2. (IF it.links THEN "readLinks" ELSE IF it.routes THEN "readRoutes" ELSE "wait")
            \in {"readLinks", "readRoutes", "wait"}
    BY Zenon
  <2>3. QED
    BY <1>2, <1>3, <2>1, <2>2, Zenon DEF InterfaceThreads
<1>5. NotesTaken'
  BY <1>4, Zenon DEF NotesTaken
<1>6. CASE it.links
  <2>1. it'.pc = "readLinks"
    BY <1>4, <1>6, Zenon
  <2>2. InterfaceTypes'
    BY <1>1, <1>4, <2>1, Zenon DEF InterfaceInv, InterfaceTypes
  <2>3. LinksMirrored' /\ RoutesMirrored' /\ InterfaceMapsWhole'
    BY <2>1, Zenon DEF LinksMirrored, ListTrusted, RoutesMirrored, InterfaceMapsWhole
  <2>4. QED
    BY <1>5, <2>2, <2>3, Zenon DEF InterfaceInv
<1>7. CASE ~it.links /\ it.routes
  <2>1. it'.pc = "readRoutes" /\ it'.full = FALSE
    BY <1>3, <1>4, <1>7, Zenon
  <2>2. InterfaceTypes'
    BY <1>1, <1>4, <2>1, Zenon DEF InterfaceInv, InterfaceTypes
  <2>3. \A i, known : LinkTold(i, known) => LinkTold(i, known)'
    BY <1>1, <1>7, ToldStays, Zenon DEF Unread
  <2>4. LinksMirrored'
    BY <1>1, <1>2, <1>4, <2>1, <2>3, Zenon DEF InterfaceInv, LinksMirrored, ListTrusted, LinksWatched
  <2>5. it'.family # 6
    BY <1>4
  <2>6. RoutesMirrored' /\ InterfaceMapsWhole'
    BY <2>1, <2>5, Zenon DEF RoutesMirrored, InterfaceMapsWhole
  <2>7. QED
    BY <1>5, <2>2, <2>4, <2>6, Zenon DEF InterfaceInv
<1>8. CASE ~it.links /\ ~it.routes
  <2>1. it'.pc = "wait" /\ it'.links = it.links /\ it'.routes = it.routes
    BY <1>3, <1>4, <1>8, Zenon
  <2>2. QED
    BY <1>1, <1>2, <1>4, <1>5, <2>1, WaitsOn, Zenon
<1>9. QED
  BY <1>6, <1>7, <1>8, Zenon

\* The message taken from the queue is the only one that is no longer unread.
LEMMA Taken ==
  ASSUME InterfaceTypes, queue # <<>>, queue' = Tail(queue)
  PROVE  /\ queue' \in Seq(Messages) /\ Len(queue') <= QueueCap
         /\ Head(queue) \in Messages
         /\ \A m \in Unread : m = Head(queue) \/ m \in Unread'
<1>1. queue \in Seq(Messages) /\ Len(queue) <= QueueCap /\ QueueCap \in Nat
  BY PolicyAssumption DEF InterfaceTypes
<1>2. /\ queue' \in Seq(Messages) /\ Len(queue') = Len(queue) - 1 /\ Len(queue) \in Nat
      /\ Head(queue) \in Messages /\ Head(queue) = queue[1]
      /\ \A k \in 1..Len(queue') : queue'[k] = queue[k + 1]
  BY <1>1
<1>3. \A k \in DOMAIN queue : k = 1 \/ (k - 1 \in DOMAIN queue' /\ queue[k] = queue'[k - 1])
  BY <1>1, <1>2
<1>4. \A m \in Unread : m = Head(queue) \/ m \in Unread'
  <2> SUFFICES ASSUME NEW k \in DOMAIN queue
               PROVE  queue[k] = Head(queue) \/ queue[k] \in Unread'
    BY Zenon DEF Unread
  <2>1. CASE k = 1
    BY <1>2, <2>1, Zenon
  <2>2. CASE k - 1 \in DOMAIN queue' /\ queue[k] = queue'[k - 1]
    BY <2>2, Zenon DEF Unread
  <2>3. QED
    BY <1>3, <2>1, <2>2, Zenon
<1>5. Len(queue') <= QueueCap
  BY <1>1, <1>2
<1>6. QED
  BY <1>2, <1>4, <1>5, Zenon

\* A message read is noted if it is about the list, and so is a loss of messages.
LEMMA DrainKeeps ==
  ASSUME InterfaceInv, Drain
  PROVE  InterfaceInv'
<1>1. UNCHANGED <<link, route, ifmap, rtmap>>
  BY Zenon DEF Drain, interfaceMaps, InterfaceStep, kernel
<1>2. it \in InterfaceThreads /\ it.pc = "drain" /\ InterfaceTypes
  BY Zenon DEF Drain, InterfaceInv, InterfaceTypes
<1>3. CASE ~Readable /\ it' = [it EXCEPT !.pc = "settle"] /\ UNCHANGED <<queue, overrun>>
  <2>1. /\ it' \in InterfaceThreads /\ it'.pc = "settle" /\ it'.list = it.list
        /\ it'.links = it.links /\ it'.routes = it.routes /\ it'.stale = it.stale
    BY <1>2, <1>3, Zenon DEF InterfaceThreads
  <2>2. NotesTaken'
    BY <2>1, Zenon DEF NotesTaken
  <2>3. QED
    BY <1>1, <1>2, <1>3, <2>1, <2>2, WaitsOn, Zenon
<1>4. ASSUME queue' \in Seq(Messages), Len(queue') <= QueueCap, overrun' \in BOOLEAN,
             it' \in InterfaceThreads, it'.pc = "drain", it'.list = it.list, it'.stale = it.stale,
             \A i : LinkTold(i, it.list) => LinkTold(i, it.list)',
             RoutesTold => RoutesTold'
      PROVE  InterfaceInv'
  <2>1. InterfaceTypes' /\ NotesTaken' /\ InterfaceMapsWhole'
    BY <1>1, <1>2, <1>4, Zenon DEF InterfaceTypes, NotesTaken, InterfaceMapsWhole
  <2>2. LinksMirrored'
    BY <1>1, <1>2, <1>4, Zenon DEF InterfaceInv, LinksMirrored, ListTrusted, LinksWatched
  <2>3. RoutesMirrored'
    BY <1>1, <1>2, <1>4, Zenon DEF InterfaceInv, RoutesMirrored, RoutesWatched
  <2>4. QED
    BY <2>1, <2>2, <2>3, Zenon DEF InterfaceInv
<1>5. CASE /\ overrun /\ overrun' = FALSE /\ UNCHANGED queue
           /\ it' = [it EXCEPT !.links = TRUE, !.routes = TRUE]
  <2>1. /\ it' \in InterfaceThreads /\ it'.pc = "drain" /\ it'.list = it.list /\ it'.links = TRUE
        /\ it'.stale = it.stale
    BY <1>2, <1>5, Zenon DEF InterfaceThreads
  <2>2. queue' \in Seq(Messages) /\ Len(queue') <= QueueCap /\ overrun' \in BOOLEAN
    BY <1>2, <1>5, Zenon DEF InterfaceTypes
  <2>3. (\A i : LinkTold(i, it.list)') /\ RoutesTold'
    BY <2>1, Zenon DEF LinkTold, RoutesTold
  <2>4. QED
    BY <1>4, <2>1, <2>2, <2>3, Zenon
<1>6. CASE /\ ~overrun /\ queue # <<>> /\ queue' = Tail(queue) /\ UNCHANGED overrun
           /\ it' = [it EXCEPT !.links = it.links \/ Noted(Head(queue)).links,
                               !.routes = it.routes \/ Noted(Head(queue)).routes]
  <2> DEFINE h == Head(queue)
  <2>1. /\ queue' \in Seq(Messages) /\ Len(queue') <= QueueCap /\ h \in Messages
        /\ \A m \in Unread : m = h \/ m \in Unread'
    BY <1>2, <1>6, Taken, Zenon
  <2>2. overrun' \in BOOLEAN
    BY <1>2, <1>6, Zenon DEF InterfaceTypes
  <2> HIDE DEF h
  <2>3. /\ Noted(h).links = (h.kind = "link" /\ (h.link \in it.list \/ h.ignored))
        /\ Noted(h).routes = (h.kind = "route" /\ h.link \in it.list)
        /\ Noted(h).links \in BOOLEAN /\ Noted(h).routes \in BOOLEAN
    BY Zenon DEF Noted
  <2>4. /\ it' \in InterfaceThreads /\ it'.pc = "drain" /\ it'.list = it.list /\ it'.stale = it.stale
        /\ it'.links = (it.links \/ Noted(h).links) /\ it'.routes = (it.routes \/ Noted(h).routes)
    <3>1. it' = [it EXCEPT !.links = it.links \/ Noted(h).links, !.routes = it.routes \/ Noted(h).routes]
      BY <1>6 DEF h
    <3>2. (it.links \/ Noted(h).links) \in BOOLEAN /\ (it.routes \/ Noted(h).routes) \in BOOLEAN
      BY Zenon
    <3>3. QED
      BY <1>2, <3>1, <3>2, Zenon DEF InterfaceThreads
  <2>5. h.kind \in {"link", "route"}
    BY <2>1, Zenon DEF Messages
  <2>6. \A i : LinkTold(i, it.list) => LinkTold(i, it.list)'
    BY <1>6, <2>1, <2>3, <2>4, Zenon DEF LinkTold
  <2>7. RoutesTold => RoutesTold'
    BY <1>6, <2>1, <2>3, <2>4, <2>5, Zenon DEF RoutesTold
  <2>8. QED
    BY <1>4, <2>1, <2>2, <2>4, <2>6, <2>7, Zenon
<1>7. QED
  BY <1>3, <1>5, <1>6, Zenon DEF Drain

-----------------------------------------------------------------------------
(* The network thread. *)

\* Every change of the rules makes the socket readable, once it is open.
LEMMA RulesChangeKeeps ==
  ASSUME NetworkInv, RulesChange
  PROVE  NetworkInv'
<1>1. UNCHANGED <<netmap, ready, nt>>
  BY Zenon DEF RulesChange, Change, networkMap
<1>2. rules' \in (SUBSET Nets) \cup {None} /\ pending' \in BOOLEAN
  BY Zenon DEF RulesChange
<1>3. nt.pc # "off" => pending'
  BY Zenon DEF RulesChange
<1>4. QED
  BY <1>1, <1>2, <1>3, Zenon DEF NetworkInv, NetworkTypes, RulesWatched, ReadyExact

\* A refresh starts with the rules that are there, or takes the ready key away.
LEMMA DumpRulesKeeps ==
  ASSUME NetworkInv, DumpRules
  PROVE  NetworkInv'
<1>1. UNCHANGED <<rules, pending, netmap>>
  BY Zenon DEF DumpRules, NetworkStep, kernel
<1>2. nt \in NetworkThreads /\ nt.pc = "dump" /\ NetworkTypes
  BY Zenon DEF DumpRules, NetworkInv, NetworkTypes
<1>3. CASE /\ rules # None /\ UNCHANGED ready
           /\ nt' = [nt EXCEPT !.pc = "sync", !.want = rules, !.had = netmap]
  <2>1. rules \in SUBSET Nets /\ netmap \in SUBSET Nets
    BY <1>2, <1>3, Zenon DEF NetworkTypes
  <2>2. /\ nt' \in NetworkThreads /\ nt'.pc = "sync" /\ nt'.want = rules /\ nt'.had = netmap
        /\ nt'.known = nt.known /\ nt'.stale = nt.stale
    BY <1>2, <1>3, <2>1, Zenon DEF NetworkThreads
  <2>3. QED
    BY <1>1, <1>2, <1>3, <2>2, Zenon DEF NetworkInv, NetworkTypes, RulesWatched, ReadyExact
<1>4. CASE /\ ready' = FALSE
           /\ nt' = [nt EXCEPT !.pc = "wait", !.known = None, !.stale = rules # None]
  <2>1. /\ nt' \in NetworkThreads /\ nt'.pc = "wait" /\ nt'.known = None
        /\ nt'.stale = (rules # None)
    BY <1>2, <1>4, Zenon DEF NetworkThreads
  <2>2. QED
    BY <1>1, <1>2, <1>4, <2>1, Zenon DEF NetworkInv, NetworkTypes, RulesWatched, ReadyExact
<1>5. QED
  BY <1>3, <1>4, Zenon DEF DumpRules

\* A step that writes the networks read leaves the ready key to the next.
LEMMA SyncNetworksKeeps ==
  ASSUME NetworkInv, SyncNetworks
  PROVE  NetworkInv'
<1>1. UNCHANGED <<rules, pending, ready>>
  BY Zenon DEF SyncNetworks, NetworkStep, kernel
<1>2. nt \in NetworkThreads /\ nt.pc = "sync" /\ NetworkTypes
  BY Zenon DEF SyncNetworks, NetworkInv, NetworkTypes
<1>3. /\ nt.want \subseteq Nets /\ netmap \subseteq Nets
      /\ nt.had \subseteq netmap \/ nt.want \subseteq netmap
  BY <1>2, Zenon DEF NetworkInv, NetworkTypes, NetworkThreads, ReadyExact
<1>4. CASE netmap' \in SyncStep(netmap, nt.want) /\ UNCHANGED nt
  <2>1. /\ nt.had \subseteq netmap' \/ nt.want \subseteq netmap'
        /\ netmap' \subseteq netmap \cup nt.want
    BY <1>3, <1>4, SyncStepWhole
  <2>2. netmap' \subseteq Nets
    BY <1>3, <2>1, Zenon
  <2>3. QED
    BY <1>1, <1>2, <1>4, <2>1, <2>2, Zenon DEF NetworkInv, NetworkTypes, RulesWatched, ReadyExact
<1>5. CASE netmap = nt.want /\ nt' = [nt EXCEPT !.pc = "publish"] /\ UNCHANGED netmap
  <2>1. /\ nt' \in NetworkThreads /\ nt'.pc = "publish" /\ nt'.want = nt.want
        /\ nt'.known = nt.known /\ nt'.stale = nt.stale
    BY <1>2, <1>5, Zenon DEF NetworkThreads
  <2>2. QED
    BY <1>1, <1>2, <1>5, <2>1, Zenon DEF NetworkInv, NetworkTypes, RulesWatched, ReadyExact
<1>6. QED
  BY <1>4, <1>5, Zenon DEF SyncNetworks

\* The ready key is written when the map holds the networks read.
LEMMA PublishReadyKeeps ==
  ASSUME NetworkInv, PublishReady
  PROVE  NetworkInv'
<1>1. UNCHANGED <<rules, pending, netmap>> /\ ready' = TRUE
  BY Zenon DEF PublishReady, NetworkStep, kernel
<1>2. nt \in NetworkThreads /\ nt.pc = "publish" /\ NetworkTypes /\ netmap = nt.want
  BY Zenon DEF PublishReady, NetworkInv, NetworkTypes, ReadyExact
<1>3. nt.want \in SUBSET Nets
  BY <1>2, Zenon DEF NetworkThreads
<1>4. /\ nt' \in NetworkThreads /\ nt'.pc = "wait" /\ nt'.known = nt.want
      /\ nt'.stale = FALSE
  BY <1>2, <1>3, Zenon DEF PublishReady, NetworkThreads
<1>5. nt.want # None
  BY <1>3, PolicyAssumption, Zenon
<1>6. QED
  BY <1>1, <1>2, <1>4, <1>5, Zenon DEF NetworkInv, NetworkTypes, RulesWatched, ReadyExact

\* An update that failed makes no promise of the map's content.
LEMMA UpdateFailsKeeps ==
  ASSUME NetworkInv, UpdateFails
  PROVE  NetworkInv'
<1>1. UNCHANGED <<rules, pending, netmap, ready>>
  BY Zenon DEF UpdateFails, NetworkStep, kernel, networkMap
<1>2. nt \in NetworkThreads /\ nt.pc \in {"sync", "publish"} /\ NetworkTypes
  BY Zenon DEF UpdateFails, NetworkInv, NetworkTypes
<1>3. nt' \in NetworkThreads /\ nt'.pc = "wait" /\ nt'.stale = TRUE /\ nt'.known = nt.known
  BY <1>2, Zenon DEF UpdateFails, NetworkThreads
<1>4. QED
  BY <1>1, <1>2, <1>3, Zenon DEF NetworkInv, NetworkTypes, RulesWatched, ReadyExact

\* The steps that only move the network thread leave the map and the ready key.
LEMMA NetworkMovesOn ==
  ASSUME NetworkInv, UNCHANGED <<rules, netmap, ready>>, pending' \in BOOLEAN,
         nt.pc \in {"off", "wait", "settle"}, nt' \in NetworkThreads,
         nt'.pc = nt.pc \/ nt'.pc \in {"dump", "settle", "joined"},
         nt'.known = nt.known, nt'.stale = nt.stale, nt'.pc # "wait"
  PROVE  NetworkInv'
BY Zenon DEF NetworkInv, NetworkTypes, RulesWatched, ReadyExact

\* The socket is opened before the first dump.
LEMMA OpenNetworksKeeps ==
  ASSUME NetworkInv, OpenNetworks
  PROVE  NetworkInv'
<1>1. UNCHANGED <<rules, pending, netmap, ready>> /\ pending \in BOOLEAN
  BY Zenon DEF OpenNetworks, NetworkStep, kernel, networkMap, NetworkInv, NetworkTypes
<1>2. nt \in NetworkThreads /\ nt.pc = "off"
  BY Zenon DEF OpenNetworks, NetworkInv, NetworkTypes
<1>3. CASE nt' = [nt EXCEPT !.pc = "dump"]
  <2>1. nt' \in NetworkThreads /\ nt'.pc = "dump" /\ nt'.known = nt.known /\ nt'.stale = nt.stale
    BY <1>2, <1>3, Zenon DEF NetworkThreads
  <2>2. QED
    BY <1>1, <1>2, <2>1, NetworkMovesOn, Zenon
<1>4. CASE nt' = [nt EXCEPT !.gaveUp = TRUE]
  <2>1. nt' \in NetworkThreads /\ nt'.pc = "off" /\ nt'.known = nt.known /\ nt'.stale = nt.stale
    BY <1>2, <1>4, Zenon DEF NetworkThreads
  <2>2. QED
    BY <1>1, <1>2, <2>1, NetworkMovesOn, Zenon
<1>5. QED
  BY <1>3, <1>4, Zenon DEF OpenNetworks

\* The messages that announce a change are drained before the rules are read.
LEMMA WaitRulesKeeps ==
  ASSUME NetworkInv, WaitRules
  PROVE  NetworkInv'
<1>1. UNCHANGED <<rules, netmap, ready>> /\ pending' \in BOOLEAN
  BY Zenon DEF WaitRules, NetworkStep, kernel, networkMap, NetworkInv, NetworkTypes
<1>2. nt \in NetworkThreads /\ nt.pc = "wait"
  BY Zenon DEF WaitRules, NetworkInv, NetworkTypes
<1>3. \E pc \in {"joined", "settle"} : nt' = [nt EXCEPT !.pc = pc]
  BY Zenon DEF WaitRules
<1>4. /\ nt' \in NetworkThreads /\ nt'.pc \in {"joined", "settle"}
      /\ nt'.known = nt.known /\ nt'.stale = nt.stale
  BY <1>2, <1>3, Zenon DEF NetworkThreads
<1>5. QED
  BY <1>1, <1>2, <1>4, NetworkMovesOn, Zenon

\* What a burst brought is drained as well.
LEMMA SettleRulesKeeps ==
  ASSUME NetworkInv, SettleRules
  PROVE  NetworkInv'
<1>1. UNCHANGED <<rules, netmap, ready>> /\ pending' \in BOOLEAN
  BY Zenon DEF SettleRules, NetworkStep, kernel, networkMap, NetworkInv, NetworkTypes
<1>2. nt \in NetworkThreads /\ nt.pc = "settle"
  BY Zenon DEF SettleRules, NetworkInv, NetworkTypes
<1>3. \E pc \in {"joined", "dump"} : nt' = [nt EXCEPT !.pc = pc]
  BY Zenon DEF SettleRules
<1>4. /\ nt' \in NetworkThreads /\ nt'.pc \in {"joined", "dump"}
      /\ nt'.known = nt.known /\ nt'.stale = nt.stale
  BY <1>2, <1>3, Zenon DEF NetworkThreads
<1>5. QED
  BY <1>1, <1>2, <1>4, NetworkMovesOn, Zenon

-----------------------------------------------------------------------------
(* The inductive invariant. *)

\* The threads start with empty maps and rely on nothing.
LEMMA InvInit == Init => IInv
<1> SUFFICES ASSUME Init PROVE IInv
  OBVIOUS
<1>1. it \in InterfaceThreads /\ it.pc = "off" /\ ~it.links /\ ~it.routes
  BY DEF Init, InterfaceThreads
<1>2. nt \in NetworkThreads /\ nt.pc = "off" /\ nt.known = None
  BY DEF Init, NetworkThreads
<1>3. queue \in Seq(Messages) /\ Len(queue) <= QueueCap
  BY PolicyAssumption DEF Init
<1>4. InterfaceTypes
  BY <1>1, <1>3, Zenon DEF Init, InterfaceTypes
<1>5. NotesTaken /\ LinksMirrored /\ RoutesMirrored /\ InterfaceMapsWhole
  BY <1>1, Zenon DEF NotesTaken, LinksMirrored, ListTrusted, RoutesMirrored, InterfaceMapsWhole
<1>6. NetworkInv
  BY <1>2, Zenon DEF Init, NetworkInv, NetworkTypes, RulesWatched, ReadyExact
<1>7. policy \in {"interfaces", "networks"} /\ stop \in {"no", "interfaces", "networks", "done"}
  BY Zenon DEF Init
<1>8. QED
  BY <1>4, <1>5, <1>6, <1>7, Zenon DEF IInv, InterfaceInv

\* Every step keeps the invariant of the thread it is about and does not touch the
\* other's.
LEMMA InvNext == IInv /\ [Next]_vars => IInv'
<1> SUFFICES ASSUME IInv, [Next]_vars PROVE IInv'
  OBVIOUS
<1>1. InterfaceInv /\ NetworkInv
  BY Zenon DEF IInv
<1>2. policy \in {"interfaces", "networks"} /\ stop \in {"no", "interfaces", "networks", "done"}
  BY Zenon DEF IInv
<1>3. CASE Stop \/ Stopping
  <2>1. UNCHANGED <<policy, link, route, rules, queue, overrun, pending, ifmap, rtmap, netmap, ready, it, nt>>
    BY <1>3, Zenon DEF Stop, Stopping, JoinInterfaces, JoinNetworks, StopStep, kernel, sockets, interfaceMaps, networkMap
  <2>2. stop' \in {"no", "interfaces", "networks", "done"}
    BY <1>3, Zenon DEF Stop, Stopping, JoinInterfaces, JoinNetworks
  <2>3. InterfaceInv' /\ NetworkInv'
    BY <1>1, <2>1, InterfaceKept, NetworkKept, Zenon
  <2>4. QED
    BY <1>2, <2>1, <2>2, <2>3, Zenon DEF IInv
<1>4. CASE UNCHANGED vars
  <2>1. UNCHANGED <<policy, stop, link, route, rules, queue, overrun, pending, ifmap, rtmap, netmap, ready, it, nt>>
    BY <1>4, Zenon DEF vars, kernel, sockets, interfaceMaps, networkMap
  <2>2. InterfaceInv' /\ NetworkInv'
    BY <1>1, <2>1, InterfaceKept, NetworkKept, Zenon
  <2>3. QED
    BY <1>2, <2>1, <2>2, Zenon DEF IInv
<1>5. CASE LinkChanges \/ RouteChanges
  <2>1. UNCHANGED <<policy, stop, rules, pending, netmap, ready, nt>>
    BY <1>5, Zenon DEF LinkChanges, RouteChanges, Change, networkMap
  <2>2. InterfaceInv' /\ NetworkInv'
    BY <1>1, <1>5, <2>1, LinkChangesKeeps, RouteChangesKeeps, NetworkKept, Zenon
  <2>3. QED
    BY <1>2, <2>1, <2>2, Zenon DEF IInv
<1>6. CASE RulesChange
  <2>1. UNCHANGED <<policy, stop, link, route, queue, overrun, ifmap, rtmap, it>>
    BY <1>6, Zenon DEF RulesChange, Change, interfaceMaps
  <2>2. InterfaceInv' /\ NetworkInv'
    BY <1>1, <1>6, <2>1, RulesChangeKeeps, InterfaceKept, Zenon
  <2>3. QED
    BY <1>2, <2>1, <2>2, Zenon DEF IInv
<1>7. CASE InterfaceThread \/ RefreshFails
  <2>1. InterfaceStep
    BY <1>7, Zenon DEF InterfaceThread, RefreshFails, OpenInterfaces, ReadLinks, SyncLinks, ReadRoutes,
       SyncRoutes, CreateThread, WaitInput, Drain, Settle, Apply
  <2>2. UNCHANGED <<policy, stop, rules, pending, netmap, ready, nt>>
    BY <2>1, Zenon DEF InterfaceStep, kernel, networkMap
  <2>3. InterfaceInv'
    BY <1>1, <1>7, OpenInterfacesKeeps, ReadLinksKeeps, SyncLinksKeeps, ReadRoutesKeeps, SyncRoutesKeeps,
       CreateThreadKeeps, WaitInputKeeps, DrainKeeps, SettleKeeps, ApplyKeeps, RefreshFailsKeeps, Zenon
       DEF InterfaceThread
  <2>4. QED
    BY <1>1, <1>2, <2>2, <2>3, NetworkKept, Zenon DEF IInv
<1>8. CASE NetworkThread \/ UpdateFails
  <2>1. NetworkStep
    BY <1>8, Zenon DEF NetworkThread, UpdateFails, OpenNetworks, DumpRules, SyncNetworks, PublishReady,
       WaitRules, SettleRules
  <2>2. UNCHANGED <<policy, stop, link, route, queue, overrun, ifmap, rtmap, it>>
    BY <2>1, Zenon DEF NetworkStep, kernel, interfaceMaps
  <2>3. NetworkInv'
    BY <1>1, <1>8, OpenNetworksKeeps, DumpRulesKeeps, SyncNetworksKeeps, PublishReadyKeeps,
       WaitRulesKeeps, SettleRulesKeeps, UpdateFailsKeeps, Zenon DEF NetworkThread
  <2>4. QED
    BY <1>1, <1>2, <2>2, <2>3, InterfaceKept, Zenon DEF IInv
<1>9. QED
  BY <1>3, <1>4, <1>5, <1>6, <1>7, <1>8, Zenon DEF Next, Kernel

\* The inductive invariant holds in every reachable state.
LEMMA InvHolds == Spec => []IInv
BY InvInit, InvNext, PTL DEF Spec

-----------------------------------------------------------------------------
(* What follows. *)

\* A thread that has nothing to read was told of no change it did not deal with.
LEMMA QuietInterfaces ==
  ASSUME InterfaceInv, InterfacesQuiet
  PROVE  ifmap = IgnoredLinks /\ rtmap = RoutesThrough(IgnoredLinks)
<1>1. it.pc = "wait" /\ queue = <<>> /\ ~overrun /\ ~it.stale
  BY Zenon DEF InterfacesQuiet, Readable
<1>2. ~it.links /\ ~it.routes
  BY <1>1, Zenon DEF InterfaceInv, NotesTaken
<1>3. Unread = {}
  <2>1. DOMAIN queue = {}
    BY <1>1
  <2>2. QED
    BY <2>1, Zenon DEF Unread
<1>4. (\A i : ~LinkTold(i, it.list)) /\ ~RoutesTold
  BY <1>1, <1>2, <1>3, Zenon DEF LinkTold, RoutesTold
<1>5. it.list = ifmap /\ LinksWatched(it.list) /\ RoutesWatched(rtmap, Routes)
  BY <1>1, Zenon DEF InterfaceInv, LinksMirrored, ListTrusted, RoutesMirrored
<1>6. ifmap \subseteq Links /\ rtmap \subseteq Routes
  BY Zenon DEF InterfaceInv, InterfaceTypes
<1>7. \A i \in Links : i \in ifmap <=> link[i] = "ignored"
  BY <1>4, <1>5, Zenon DEF LinksWatched
<1>8. ifmap = IgnoredLinks
  BY <1>6, <1>7, Zenon DEF IgnoredLinks
<1>9. \A r \in Routes : r \in rtmap <=> route[r] \in ifmap
  BY <1>4, <1>5, Zenon DEF RoutesWatched
<1>10. rtmap = RoutesThrough(ifmap)
  BY <1>6, <1>9, Zenon DEF RoutesThrough
<1>11. QED
  BY <1>8, <1>10, Zenon

\* The same of the rules: no change of them is announced and not read.
LEMMA QuietNetworks ==
  ASSUME NetworkInv, NetworksQuiet
  PROVE  ready = (rules # None) /\ (ready => netmap = DefaultNetworks)
<1>1. nt.pc = "wait" /\ ~pending /\ ~nt.stale /\ ready \in BOOLEAN
  BY Zenon DEF NetworksQuiet, NetworkInv, NetworkTypes
<1>2. nt.known = rules
  BY <1>1, Zenon DEF NetworkInv, RulesWatched
<1>3. (ready <=> nt.known # None) /\ (ready => netmap = nt.known)
  BY <1>1, Zenon DEF NetworkInv, ReadyExact
<1>4. QED
  BY <1>1, <1>2, <1>3, Zenon DEF DefaultNetworks

\* Whenever a thread waits, has no message to read and did not fail its last refresh,
\* the maps hold exactly the kernel's present ignored links and the routes through
\* them, or its present default networks: with any number of links and routes, any
\* length of the socket's queue, and any changes made while a burst settles or a
\* refresh is under way (interface_policy.c, network_selection.c).
THEOREM MapsFresh == Spec => []QuietMeansFresh
<1>1. IInv => QuietMeansFresh
  <2> SUFFICES ASSUME IInv PROVE QuietMeansFresh
    OBVIOUS
  <2>1. InterfaceInv /\ NetworkInv
    BY Zenon DEF IInv
  <2>2. it.pc = "wait" => ~it.links /\ ~it.routes
    BY <2>1, Zenon DEF InterfaceInv, NotesTaken
  <2>3. it.pc \in {"readRoutes", "syncRoutes"} /\ it.full => it.list = ifmap
    BY <2>1, Zenon DEF InterfaceInv, LinksMirrored, ListTrusted
  <2>4. TypeOK
    BY <2>1, <2>2, <2>3, Zenon DEF IInv, InterfaceInv, InterfaceTypes, NetworkInv, NetworkTypes, TypeOK
  <2>5. QED
    BY <2>1, <2>4, QuietInterfaces, QuietNetworks, Zenon DEF QuietMeansFresh
<1>2. QED
  BY <1>1, InvHolds, PTL

\* At every step of a synchronisation a map holds all the keys it had or all it is to
\* have, and the hooks bypass a socket bound to a network only when the rule set last
\* written, or the one being written, does not name it as a default one (sync_map_keys,
\* refresh_default_networks, emit_explicit_network_bypass): for any sets of keys.
THEOREM LookupsNotMisled == Spec => []HooksNotMisled
<1>1. IInv => HooksNotMisled
  <2> SUFFICES ASSUME IInv PROVE HooksNotMisled
    OBVIOUS
  <2>1. InterfaceMapsWhole /\ ReadyExact /\ nt.pc \in {"off", "dump", "sync", "publish", "wait", "settle", "joined"}
    BY Zenon DEF IInv, InterfaceInv, NetworkInv, NetworkTypes, NetworkThreads
  <2>2. OldOrNew
    BY <2>1, Zenon DEF OldOrNew, InterfaceMapsWhole, ReadyExact
  <2>3. ASSUME NEW n \in Nets, ready, n \notin netmap
        PROVE  /\ nt.known # None
               /\ \/ nt.stale
                  \/ n \notin nt.known
                  \/ nt.pc \in {"sync", "publish"} /\ n \notin nt.want
    <3>1. CASE nt.stale
      BY <2>1, <2>3, <3>1, Zenon DEF ReadyExact
    <3>2. CASE ~nt.stale /\ nt.pc \notin {"sync", "publish"}
      BY <2>1, <2>3, <3>2, Zenon DEF ReadyExact
    <3>3. CASE ~nt.stale /\ nt.pc = "sync"
      BY <2>1, <2>3, <3>3, Zenon DEF ReadyExact
    <3>4. CASE ~nt.stale /\ nt.pc = "publish"
      BY <2>1, <2>3, <3>4, Zenon DEF ReadyExact
    <3>5. QED
      BY <3>1, <3>2, <3>3, <3>4, Zenon
  <2>4. ReadyHonest
    BY <2>3, Zenon DEF ReadyHonest, ExplicitBypass
  <2>5. QED
    BY <2>2, <2>4, Zenon DEF HooksNotMisled
<1>2. QED
  BY <1>1, InvHolds, PTL

\* Once the thread is quiet, the connect and sendmsg hooks and the TC program give a
\* destination the same verdict, whatever the policy's mode and switches and whatever
\* maps the destination is in, unless it leaves through an ignored interface.
THEOREM VerdictsAgree == Spec => []HookAgreesWithTc
<1>1. IInv => HookAgreesWithTc
  <2> SUFFICES ASSUME IInv, InterfacesQuiet, NEW p \in PolicyConfigs, NEW f \in PlainFlows(p),
                      f.route # None => route[f.route] \notin IgnoredLinks
               PROVE  HookVerdict(p, f, ifmap, rtmap, netmap, ready) = TcVerdict(p, f)
    BY Zenon DEF HookAgreesWithTc
  <2>1. /\ f.self = FALSE /\ f.special = FALSE /\ f.device = None /\ f.network = None
        /\ f.mark = None /\ f.uid = (IF p.mode = "whitelist" THEN "selected" ELSE "other")
        /\ f.protocol \in {"tcp", "udp"}
    BY Zenon DEF PlainFlows
  <2>2. ifmap \subseteq Links /\ rtmap \subseteq Routes /\ rtmap = RoutesThrough(IgnoredLinks)
    BY QuietInterfaces, Zenon DEF IInv, InterfaceInv, InterfaceTypes
  <2>3. f.device \notin ifmap /\ f.device \notin Links /\ f.route \notin rtmap
    BY <2>1, <2>2, PolicyAssumption DEF RoutesThrough
  <2>4. ~SelfBypass(f) /\ ~ShapeBypass(f) /\ ~ExplicitBypass(f, netmap, ready) /\ ~UidBypass(f)
    BY <2>1, <2>3 DEF SelfBypass, ShapeBypass, ExplicitBypass, UidBypass
  <2>5. ~ForcedDnsBypass(p, f) /\ ~UidUnselected(p, f)
    BY <2>1, <2>4 DEF ForcedDnsBypass, UidUnselected
  <2>6. EnhancedDns(f) = None
    BY <2>1, PolicyAssumption DEF EnhancedDns
  <2>7. DestinationVerdict(p, f, ifmap, rtmap) =
            IF "local" \in f.dst THEN Bypass
            ELSE IF "proxy" \in f.dst THEN Proxy
            ELSE IF "private" \in f.dst \/ (p.bypass_direct /\ "direct" \in f.dst) THEN Bypass
            ELSE Proxy
    BY <2>1, <2>3, Zenon DEF DestinationVerdict
  <2>8. None # Proxy
    BY PolicyAssumption DEF Proxy
  <2>9. CASE IpsecBypass(f)
    BY <2>9, Zenon DEF HookVerdict, TcVerdict, IpsecBypass
  <2>10. CASE ~IpsecBypass(f) /\ p.hijack /\ f.port = "dns"
    <3>1. TcVerdict(p, f) = Proxy
      BY <2>10, Zenon DEF TcVerdict, IpsecBypass
    <3>2. DnsVerdict(p, f) = IF p.enhancement THEN None ELSE Proxy
      BY <2>6, <2>10, Zenon DEF DnsVerdict
    <3>3. HookVerdict(p, f, ifmap, rtmap, netmap, ready) = Proxy
      BY <2>4, <2>5, <2>8, <2>10, <3>2, Zenon DEF HookVerdict
    <3>4. QED
      BY <3>1, <3>3, Zenon
  <2>11. CASE ~IpsecBypass(f) /\ ~(p.hijack /\ f.port = "dns")
    <3>1. DnsVerdict(p, f) = None
      BY <2>11, Zenon DEF DnsVerdict
    <3>2. HookVerdict(p, f, ifmap, rtmap, netmap, ready) = DestinationVerdict(p, f, ifmap, rtmap)
      BY <2>4, <2>5, <2>11, <3>1, Zenon DEF HookVerdict
    <3>3. TcVerdict(p, f) =
              IF "local" \in f.dst THEN Bypass
              ELSE IF "proxy" \in f.dst THEN Proxy
              ELSE IF "private" \in f.dst \/ (p.bypass_direct /\ "direct" \in f.dst) THEN Bypass
              ELSE Proxy
      BY <2>11, Zenon DEF TcVerdict, IpsecBypass
    <3>4. QED
      BY <2>7, <3>2, <3>3, Zenon
  <2>12. QED
    BY <2>9, <2>10, <2>11, Zenon
<1>2. QED
  BY <1>1, InvHolds, PTL
=============================================================================
