---------------------------- MODULE RouteProofs ----------------------------
(***************************************************************************)
(* What every operation of Route preserves of a slot, for every value of   *)
(* the constants: the types of its fields, the shape of its list, and the  *)
(* knowledge of the sources its routes refer to; then what it does to      *)
(* feasibility distances, to what is believed and to what is sent.         *)
(***************************************************************************)
EXTENDS Route, TLAPS, SequenceTheorems, FiniteSetTheorems,
        WellFoundedInduction

FibEntry == [via : Paths \cup {NoPath}, prio : Nat]

Slot ==
  [list : Seq(Paths), rt : [Paths -> Route],
   src : [Ids -> Source \cup {NoSource}], fib : SUBSET FibEntry,
   xroute : Metric, self : [id : Ids, seqno : Seqnos], up : SUBSET Ifaces,
   update : SUBSET Ifaces, resend : 0 .. RESEND_MAX, told : SUBSET Ifaces,
   sent : SUBSET [iface : Ifaces, update : Update],
   asked : SUBSET [to : SUBSET Neighs, id : Ids, seqno : Seqnos]]

Oracle == [bad : SUBSET Paths, full : SUBSET Ifaces, unsat : BOOLEAN]

\* No route is listed twice.
NoDuplicate(list) == \A i, j \in DOMAIN list : list[i] = list[j] => i = j

\* The installed route, if any, is the head of the list.
HeadOK(t) ==
  \A p \in Paths : t.rt[p].installed => t.list # << >> /\ t.list[1] = p

\* The sources of the routes are in the source table.
SourcesOK(t) == \A p \in Listed(t) : t.src[t.rt[p].id] # NoSource

\* Nothing is buffered for, or believed on, an interface that is down.
BuffersOK(t) == t.update \subseteq t.up /\ t.told \subseteq t.up

\* We do not install a route over one of our own.
XrouteOK(t) ==
  allow_duplicates < 0 /\ t.xroute < INFINITY =>
    \A p \in Paths : ~t.rt[p].installed

SlotOK(t) ==
  /\ t \in Slot
  /\ NoDuplicate(t.list)
  /\ HeadOK(t)
  /\ SourcesOK(t)
  /\ BuffersOK(t)
  /\ XrouteOK(t)

\* The two slots have the same routes, of the same sources, with the same
\* number of references, and the same things that no operation on a route
\* changes.
SameRefs(t, u) ==
  /\ Listed(u) = Listed(t)
  /\ \A p \in Paths : u.rt[p].id = t.rt[p].id
  /\ \A id \in Ids :
       /\ u.src[id] = NoSource <=> t.src[id] = NoSource
       /\ u.src[id] # NoSource => u.src[id].count = t.src[id].count
  /\ u.xroute = t.xroute /\ u.self = t.self /\ u.up = t.up

-----------------------------------------------------------------------------
(* The list. *)

\* A position of the list and the route at it determine each other.
LEMMA PositionFact ==
  ASSUME NEW list \in Seq(Paths), NEW p \in Paths,
         \E i \in DOMAIN list : list[i] = p
  PROVE  Position(list, p) \in 1 .. Len(list) /\ list[Position(list, p)] = p
  BY DEF Position

\* r->next is a route of the list, or the null pointer.
LEMMA NextInListFact ==
  ASSUME NEW list \in Seq(Paths), NEW p \in Paths,
         \E i \in DOMAIN list : list[i] = p
  PROVE  \/ NextInList(list, p) = NoPath
         \/ \E i \in DOMAIN list : list[i] = NextInList(list, p)
  BY PositionFact DEF NextInList

\* move_installed_route keeps the routes of the list and puts p at the head.
LEMMA MoveFact ==
  ASSUME NEW list \in Seq(Paths), NEW p \in Paths, NoDuplicate(list),
         \E i \in DOMAIN list : list[i] = p
  PROVE  LET m == move_installed_route(list, p)
         IN  /\ m \in Seq(Paths) /\ m # << >> /\ m[1] = p
             /\ NoDuplicate(m)
             /\ {m[i] : i \in DOMAIN m} = {list[i] : i \in DOMAIN list}
  <1> DEFINE n == Len(list)
             x == Position(list, p)
             m == move_installed_route(list, p)
  <1>1. n \in Nat /\ x \in 1 .. n /\ list[x] = p /\ DOMAIN list = 1 .. n
        /\ \A i \in 1 .. n : list[i] \in Paths
    BY PositionFact
  <1>2. m = [j \in 1 .. n |->
               IF j = 1 THEN p ELSE IF j <= x THEN list[j - 1] ELSE list[j]]
    BY DEF move_installed_route
  <1>n. \A i, j \in 1 .. n : list[i] = list[j] => i = j
    BY <1>1 DEF NoDuplicate
  <1> HIDE DEF n, x, m
  <1>3. \A j \in 1 .. n : m[j] \in Paths
    BY <1>1, <1>2
  <1>4. m \in [1 .. n -> Paths]
    BY <1>2, <1>3
  <1>5. m \in Seq(Paths) /\ Len(m) = n /\ DOMAIN m = 1 .. n
    BY <1>1, <1>4
  <1>6. m # << >> /\ m[1] = p
    BY <1>1, <1>2, <1>5, SMTT(40)
  <1>7. NoDuplicate(m)
    <2> DEFINE old(j) == IF j = 1 THEN x ELSE IF j <= x THEN j - 1 ELSE j
    <2>1. \A j \in 1 .. n : old(j) \in 1 .. n /\ m[j] = list[old(j)]
      BY <1>1, <1>2
    <2>2. \A i, j \in 1 .. n : old(i) = old(j) => i = j
      BY <1>1
    <2> HIDE DEF old
    <2> QED
      BY <2>1, <2>2, <1>5, <1>n DEF NoDuplicate
  <1>8. {m[i] : i \in DOMAIN m} \subseteq {list[i] : i \in DOMAIN list}
    BY <1>1, <1>2, <1>5
  <1>9. ASSUME NEW i \in 1 .. n
        PROVE  \E j \in 1 .. n : m[j] = list[i]
    <2>1. CASE i = x
      BY <2>1, <1>1, <1>6
    <2>2. CASE i < x
      <3>1. i + 1 \in 1 .. n /\ i + 1 # 1 /\ i + 1 <= x /\ (i + 1) - 1 = i
        BY <2>2, <1>1
      <3>2. m[i + 1] = list[i]
        BY <3>1, <1>2
      <3> QED
        BY <3>1, <3>2
    <2>3. CASE i > x
      <3>1. i # 1 /\ ~(i <= x)
        BY <2>3, <1>1
      <3> QED
        BY <3>1, <1>2
    <2> QED
      BY <2>1, <2>2, <2>3, <1>1
  <1>10. {list[i] : i \in DOMAIN list} \subseteq {m[i] : i \in DOMAIN m}
    <2> SUFFICES ASSUME NEW i \in 1 .. n PROVE list[i] \in {m[j] : j \in 1 .. n}
      BY <1>1, <1>5
    <2> QED
      BY <1>9
  <1> QED
    BY <1>5, <1>6, <1>7, <1>8, <1>10 DEF m

\* Unlink takes p, and only p, out of the list.
LEMMA UnlinkFact ==
  ASSUME NEW list \in Seq(Paths), NEW p \in Paths, NoDuplicate(list),
         \E i \in DOMAIN list : list[i] = p
  PROVE  LET m == Unlink(list, p)
         IN  /\ m \in Seq(Paths)
             /\ NoDuplicate(m)
             /\ {m[i] : i \in DOMAIN m} = {list[i] : i \in DOMAIN list} \ {p}
  <1> DEFINE n == Len(list)
             x == Position(list, p)
             m == Unlink(list, p)
  <1>1. n \in Nat /\ x \in 1 .. n /\ list[x] = p /\ DOMAIN list = 1 .. n
        /\ \A i \in 1 .. n : list[i] \in Paths
    BY PositionFact
  <1>2. m = [j \in 1 .. n - 1 |-> IF j < x THEN list[j] ELSE list[j + 1]]
    BY DEF Unlink
  <1>n. \A i, j \in 1 .. n : list[i] = list[j] => i = j
    BY <1>1 DEF NoDuplicate
  <1> HIDE DEF n, x, m
  <1>3. n - 1 \in Nat /\ \A j \in 1 .. n - 1 : m[j] \in Paths
    BY <1>1, <1>2
  <1>4. m \in [1 .. n - 1 -> Paths]
    BY <1>2, <1>3
  <1>5. m \in Seq(Paths) /\ Len(m) = n - 1 /\ DOMAIN m = 1 .. n - 1
    BY <1>3, <1>4
  <1>7. NoDuplicate(m)
    BY <1>1, <1>2, <1>5, <1>n DEF NoDuplicate
  <1>8. {m[i] : i \in DOMAIN m} \subseteq {list[i] : i \in DOMAIN list} \ {p}
    <2> SUFFICES ASSUME NEW i \in 1 .. n - 1
                 PROVE  m[i] # p /\ \E j \in 1 .. n : m[i] = list[j]
      BY <1>1, <1>5
    <2>1. CASE i < x
      BY <2>1, <1>1, <1>2, <1>n
    <2>2. CASE i >= x
      <3>1. m[i] = list[i + 1] /\ i + 1 \in 1 .. n /\ i + 1 # x
        BY <2>2, <1>1, <1>2
      <3> QED
        BY <3>1, <1>1, <1>n
    <2> QED
      BY <2>1, <2>2, <1>1
  <1>9. ASSUME NEW i \in 1 .. n, list[i] # p
        PROVE  \E j \in 1 .. n - 1 : m[j] = list[i]
    <2>1. CASE i < x
      BY <2>1, <1>1, <1>2
    <2>2. CASE i > x
      <3>1. i - 1 \in 1 .. n - 1 /\ ~(i - 1 < x) /\ i - 1 + 1 = i
        BY <2>2, <1>1
      <3> QED
        BY <3>1, <1>2
    <2> QED
      BY <2>1, <2>2, <1>1, <1>9
  <1>10. {list[i] : i \in DOMAIN list} \ {p} \subseteq {m[i] : i \in DOMAIN m}
    BY <1>1, <1>5, <1>9
  <1> QED
    BY <1>5, <1>7, <1>8, <1>10 DEF m

-----------------------------------------------------------------------------
(* Arithmetic. *)

\* A sequence number plus one is a sequence number.
LEMMA SeqnoPlusFact ==
  ASSUME NEW s \in Seqnos
  PROVE  seqno_plus(s, 1) \in Seqnos
  BY SeqModAssumption DEF seqno_plus, Seqnos

\* INFINITY, 0 and INFINITY / 2 are metrics, 0 is an age.
LEMMA BoundsFact ==
  /\ INFINITY \in Metric /\ 0 \in Metric
  /\ \A m \in Metric : MAX(m, INFINITY \div 2) \in Metric
  /\ 0 \in 0 .. MaxAge /\ 0 \in 0 .. MaxSourceAge
  BY MetricAssumption, TimeAssumption
     DEF Metric, MaxAge, MaxSourceAge, MAX

\* Sums of metrics are cut off at INFINITY.
LEMMA SumFact ==
  ASSUME NEW a \in Metric, NEW b \in Metric, NEW c \in Metric
  PROVE  MIN(a + b + c, INFINITY) \in Metric /\ MIN(a + b, INFINITY) \in Metric
  BY MetricAssumption DEF Metric, MIN

\* The metrics of a route are metrics.
LEMMA RouteMetricFact ==
  ASSUME NEW r \in Route
  PROVE  route_metric(r) \in Metric /\ Kept(route_smoothed_metric(r)) \in Metric
  <1>1. r.refmetric \in Metric /\ r.cost \in Metric /\ r.add \in Metric
        /\ r.smoothed \in Metric
    BY DEF Route
  <1>2. route_metric(r) \in Metric
    BY <1>1, SumFact DEF route_metric
  <1> QED
    BY <1>1, <1>2, BoundsFact DEF route_smoothed_metric, Kept

-----------------------------------------------------------------------------
(* The source table. *)

\* update_source keeps a source in the table, with its references.
LEMMA UpdateSourceFact ==
  ASSUME NEW s \in Source, NEW seqno \in Seqnos, NEW metric \in Metric
  PROVE  /\ update_source(s, seqno, metric) \in Source
         /\ update_source(s, seqno, metric).count = s.count
  <1> DEFINE u == [s EXCEPT !.seqno = seqno, !.metric = metric, !.age = 0]
             v == [s EXCEPT !.age = 0]
  <1>1. u \in Source /\ v \in Source
    BY BoundsFact, Zenon DEF Source
  <1>2. u.count = s.count /\ v.count = s.count
    BY SMT DEF Source
  <1>3. update_source(s, seqno, metric) \in {s, u, v}
    BY DEF update_source
  <1> HIDE DEF u, v
  <1> QED
    BY <1>1, <1>2, <1>3

-----------------------------------------------------------------------------
(* Sending. *)

\* The fields of a slot.
LEMMA SlotFact ==
  ASSUME NEW t \in Slot
  PROVE  /\ t.list \in Seq(Paths) /\ t.rt \in [Paths -> Route]
         /\ t.src \in [Ids -> Source \cup {NoSource}]
         /\ t.fib \in SUBSET FibEntry /\ t.xroute \in Metric
         /\ t.self \in [id : Ids, seqno : Seqnos] /\ t.up \in SUBSET Ifaces
         /\ t.update \in SUBSET Ifaces /\ t.resend \in 0 .. RESEND_MAX
         /\ t.told \in SUBSET Ifaces
         /\ t.sent \in SUBSET [iface : Ifaces, update : Update]
         /\ t.asked \in SUBSET [to : SUBSET Neighs, id : Ids, seqno : Seqnos]
  BY DEF Slot

\* The installed route is in the list.
LEMMA InstalledFact ==
  ASSUME NEW t \in Slot, find_installed_route(t) # NoPath
  PROVE  /\ find_installed_route(t) \in Paths \cap Listed(t)
         /\ t.rt[find_installed_route(t)] \in Route
         /\ t.rt[find_installed_route(t)].installed
  <1>1. t.list # << >> /\ t.rt[t.list[1]].installed
        /\ find_installed_route(t) = t.list[1]
    BY DEF find_installed_route
  <1>2. 1 \in DOMAIN t.list /\ t.list[1] \in Paths
    BY <1>1, SlotFact
  <1> QED
    BY <1>1, <1>2, SlotFact DEF Listed

\* What is announced is an update; when it is a route's, its source is known.
LEMMA AnnouncementFact ==
  ASSUME NEW t, SlotOK(t)
  PROVE  /\ Announcement(t) \in Update
         /\ AnnouncesRoute(t) => t.src[Announcement(t).id] \in Source
  <1> DEFINE p == find_installed_route(t)
  <1>1. t \in Slot /\ SourcesOK(t)
    BY DEF SlotOK
  <1>2. CASE t.xroute < INFINITY /\ (p = NoPath \/ t.xroute <= kernel_metric)
    <2>1. Announcement(t) =
            [id |-> t.self.id, seqno |-> t.self.seqno, metric |-> t.xroute]
      BY <1>2 DEF Announcement
    <2>2. t.self.id \in Ids /\ t.self.seqno \in Seqnos
      BY <1>1, SlotFact
    <2> QED
      BY <2>1, <2>2, <1>1, <1>2, SlotFact DEF AnnouncesRoute, Update
  <1>3. CASE ~(t.xroute < INFINITY /\ (p = NoPath \/ t.xroute <= kernel_metric))
             /\ p # NoPath
    <2>1. Announcement(t) = [id |-> t.rt[p].id, seqno |-> t.rt[p].seqno,
                             metric |-> route_metric(t.rt[p])]
      BY <1>3 DEF Announcement
    <2>2. p \in Listed(t) /\ p \in Paths /\ t.rt[p] \in Route
      BY <1>1, <1>3, InstalledFact
    <2>3. t.rt[p].id \in Ids /\ t.rt[p].seqno \in Seqnos
      BY <2>2 DEF Route
    <2>4. t.src[t.rt[p].id] \in Source
      BY <2>2, <2>3, <1>1, SlotFact DEF SourcesOK
    <2>5. Announcement(t).id = t.rt[p].id
      BY <2>1
    <2>6. Announcement(t) \in Update
      BY <2>1, <2>2, <2>3, RouteMetricFact DEF Update
    <2> QED
      BY <2>4, <2>5, <2>6
  <1>4. CASE ~(t.xroute < INFINITY /\ (p = NoPath \/ t.xroute <= kernel_metric))
             /\ p = NoPath
    <2>1. Announcement(t) =
            [id |-> t.self.id, seqno |-> t.self.seqno, metric |-> INFINITY]
      BY <1>4 DEF Announcement
    <2>2. t.self.id \in Ids /\ t.self.seqno \in Seqnos
      BY <1>1, SlotFact
    <2> QED
      BY <2>1, <2>2, <1>4, BoundsFact DEF AnnouncesRoute, Update
  <1> QED
    BY <1>2, <1>3, <1>4

\* A slot with the same routes, and sources with the same references.
LEMMA SameRoutesFact ==
  ASSUME NEW t, SlotOK(t), NEW u \in Slot,
         u.list = t.list, u.rt = t.rt, u.xroute = t.xroute, u.self = t.self,
         u.up = t.up, BuffersOK(u),
         \A id \in Ids : /\ u.src[id] = NoSource <=> t.src[id] = NoSource
                         /\ u.src[id] # NoSource => u.src[id].count = t.src[id].count
  PROVE  SlotOK(u) /\ SameRefs(t, u)
  <1>1. t \in Slot /\ NoDuplicate(t.list) /\ HeadOK(t) /\ SourcesOK(t) /\ XrouteOK(t)
    BY DEF SlotOK
  <1>2. Listed(u) = Listed(t)
    BY DEF Listed
  <1>3. SameRefs(t, u)
    BY <1>2 DEF SameRefs
  <1>4. NoDuplicate(u.list) /\ HeadOK(u) /\ XrouteOK(u)
    BY <1>1 DEF HeadOK, XrouteOK
  <1>5. SourcesOK(u)
    <2> SUFFICES ASSUME NEW p \in Listed(u) PROVE u.src[u.rt[p].id] # NoSource
      BY DEF SourcesOK
    <2>1. p \in Paths
      BY SlotFact DEF Listed
    <2>2. u.rt[p].id \in Ids
      BY <2>1, SlotFact DEF Route
    <2> QED
      BY <1>1, <1>2, <2>2 DEF SourcesOK
  <1> QED
    BY <1>3, <1>4, <1>5 DEF SlotOK

\* Announcing a route changes no reference.
LEMMA AdvertisedFact ==
  ASSUME NEW src \in [Ids -> Source \cup {NoSource}], NEW a \in Update,
         src[a.id] \in Source
  PROVE  LET new == Advertised(src, a)
         IN  /\ new \in [Ids -> Source \cup {NoSource}]
             /\ \A id \in Ids :
                  /\ new[id] = NoSource <=> src[id] = NoSource
                  /\ new[id] # NoSource => new[id].count = src[id].count
  <1>1. a.id \in Ids /\ a.seqno \in Seqnos /\ a.metric \in Metric
    BY DEF Update
  <1> DEFINE s == update_source(src[a.id], a.seqno, a.metric)
             new == Advertised(src, a)
  <1>2. s \in Source /\ s.count = src[a.id].count
    BY <1>1, UpdateSourceFact
  <1>3. new = [src EXCEPT ![a.id] = s]
    BY DEF Advertised
  <1>4. s # NoSource /\ src[a.id] # NoSource
    BY <1>2, SourceAssumption
  <1> HIDE DEF s, new
  <1>5. new \in [Ids -> Source \cup {NoSource}]
    BY <1>1, <1>2, <1>3
  <1>6. \A id \in Ids : new[id] = IF id = a.id THEN s ELSE src[id]
    BY <1>1, <1>3
  <1> QED
    BY <1>2, <1>4, <1>5, <1>6 DEF new

\* Sending the buffered updates changes no route and no reference.
LEMMA FlushFact ==
  ASSUME NEW t, SlotOK(t), NEW ifs
  PROVE  SlotOK(flushupdates(t, ifs)) /\ SameRefs(t, flushupdates(t, ifs))
  <1> DEFINE a == Announcement(t)
             out == FlushTargets(t, ifs)
             allowed == {i \in out : OutMetric[i] < INFINITY}
             told == (t.told \ allowed)
                     \cup {i \in allowed :
                             really_send_update(i, a).metric < INFINITY}
             sent == t.sent \cup {[iface |-> i, update |-> really_send_update(i, a)] :
                                    i \in allowed}
             src == IF AnnouncesRoute(t) /\ out # {}
                      THEN Advertised(t.src, a) ELSE t.src
             u == flushupdates(t, ifs)
  <1>1. t \in Slot /\ BuffersOK(t)
    BY DEF SlotOK
  <1>2. a \in Update /\ (AnnouncesRoute(t) => t.src[a.id] \in Source)
    BY AnnouncementFact
  <1>3. out \subseteq t.up /\ out \subseteq Ifaces
    BY <1>1, SlotFact DEF FlushTargets
  <1>4. /\ src \in [Ids -> Source \cup {NoSource}]
        /\ \A id \in Ids : /\ src[id] = NoSource <=> t.src[id] = NoSource
                           /\ src[id] # NoSource => src[id].count = t.src[id].count
    BY <1>1, <1>2, SlotFact, AdvertisedFact
  <1>5. \A i \in allowed : really_send_update(i, a) \in Update
    <2> SUFFICES ASSUME NEW i \in allowed PROVE really_send_update(i, a) \in Update
      OBVIOUS
    <2>1. OutMetric[i] \in Metric /\ a.metric \in Metric
      BY <1>2, <1>3, MetricAssumption DEF Update
    <2>2. MIN(a.metric + OutMetric[i], INFINITY) \in Metric
      BY <2>1, SumFact
    <2> QED
      BY <2>2, <1>2 DEF really_send_update, Update
  <1>6. sent \in SUBSET [iface : Ifaces, update : Update]
    BY <1>1, <1>3, <1>5, SlotFact
  <1>7. told \in SUBSET t.up /\ told \in SUBSET Ifaces
    BY <1>1, <1>3, SlotFact DEF BuffersOK
  <1>8. t.update \ ifs \in SUBSET t.up /\ t.update \ ifs \in SUBSET Ifaces
    BY <1>1, SlotFact DEF BuffersOK
  <1>9. u = [t EXCEPT !.update = t.update \ ifs, !.told = told, !.sent = sent,
                      !.src = src]
    BY DEF flushupdates
  <1> HIDE DEF a, out, allowed, told, sent, src, u
  <1>10. u \in Slot
    BY <1>1, <1>4, <1>6, <1>7, <1>8, <1>9, Zenon DEF Slot
  <1>11. /\ u.list = t.list /\ u.rt = t.rt /\ u.xroute = t.xroute
         /\ u.self = t.self /\ u.up = t.up
         /\ u.update = t.update \ ifs /\ u.told = told /\ u.src = src
    BY <1>1, <1>9, SMT DEF Slot
  <1>12. BuffersOK(u)
    BY <1>7, <1>8, <1>11 DEF BuffersOK
  <1>13. SlotOK(u) /\ SameRefs(t, u)
    BY <1>4, <1>10, <1>11, <1>12, SameRoutesFact
  <1> QED
    BY <1>13 DEF u

\* The same routes and references, twice, and not at all.
LEMMA SameRefsFact ==
  /\ \A t : SameRefs(t, t)
  /\ \A t, u, v : SameRefs(t, u) /\ SameRefs(u, v) => SameRefs(t, v)
  BY DEF SameRefs

\* Buffering an update, recording it and asking change no route.
LEMMA BuffersFact ==
  ASSUME NEW t, SlotOK(t),
         NEW update \in SUBSET t.up, NEW resend \in 0 .. RESEND_MAX,
         NEW asked \in SUBSET [to : SUBSET Neighs, id : Ids, seqno : Seqnos],
         NEW u \in {[t EXCEPT !.update = update], [t EXCEPT !.resend = resend],
                    [t EXCEPT !.asked = asked]}
  PROVE  SlotOK(u) /\ SameRefs(t, u)
  <1>1. t \in Slot /\ BuffersOK(t)
    BY DEF SlotOK
  <1>2. update \in SUBSET Ifaces
    BY <1>1, SlotFact
  <1>3. u \in Slot
    BY <1>1, <1>2, ZenonT(40) DEF Slot
  <1>4. /\ u.list = t.list /\ u.rt = t.rt /\ u.xroute = t.xroute
        /\ u.self = t.self /\ u.up = t.up /\ u.src = t.src
        /\ u.update \in {update, t.update} /\ u.told = t.told
    BY <1>1, SMT DEF Slot
  <1>5. BuffersOK(u)
    BY <1>1, <1>4 DEF BuffersOK
  <1> QED
    BY <1>3, <1>4, <1>5, SameRoutesFact

\* send_update and send_update_resend change no route and no reference.
LEMMA SendUpdateFact ==
  ASSUME NEW t, SlotOK(t), NEW k
  PROVE  /\ SlotOK(send_update(t, k)) /\ SameRefs(t, send_update(t, k))
         /\ SlotOK(send_update_resend(t, k)) /\ SameRefs(t, send_update_resend(t, k))
  <1> DEFINE u == flushupdates(t, k.full)
             v == send_update(t, k)
  <1>1. SlotOK(u) /\ SameRefs(t, u)
    BY FlushFact
  <1>2. u.update \cup t.up \in SUBSET u.up
    BY <1>1 DEF SlotOK, BuffersOK, SameRefs
  <1>3. v = [u EXCEPT !.update = u.update \cup t.up]
    BY DEF send_update
  <1> HIDE DEF u, v
  <1>4. u.resend \in 0 .. RESEND_MAX /\ RESEND_MAX \in 0 .. RESEND_MAX
        /\ u.asked \in SUBSET [to : SUBSET Neighs, id : Ids, seqno : Seqnos]
    BY <1>1, SlotFact, TimeAssumption DEF SlotOK
  <1>5. SlotOK(v) /\ SameRefs(u, v)
    BY <1>1, <1>2, <1>3, <1>4, BuffersFact
  <1>6. v.update \in SUBSET v.up
        /\ v.asked \in SUBSET [to : SUBSET Neighs, id : Ids, seqno : Seqnos]
    BY <1>5, SlotFact DEF SlotOK, BuffersOK
  <1> DEFINE w == [v EXCEPT !.resend = RESEND_MAX]
  <1>7. SlotOK(w) /\ SameRefs(v, w)
    BY <1>4, <1>5, <1>6, BuffersFact
  <1>8. send_update_resend(t, k) = w
    BY DEF send_update_resend, v
  <1> HIDE DEF w
  <1>9. SameRefs(t, v) /\ SameRefs(t, w)
    BY <1>1, <1>5, <1>7, SameRefsFact
  <1> QED
    BY <1>5, <1>7, <1>8, <1>9 DEF v

\* The sequence number that is asked for is one.
LEMMA WantedSeqnoFact ==
  ASSUME NEW s \in Source
  PROVE  WantedSeqno(s) \in Seqnos
  BY SeqnoPlusFact DEF WantedSeqno, Source

\* Asking everyone for a newer sequence number changes no route.
LEMMA RequestFact ==
  ASSUME NEW t, SlotOK(t), NEW id \in Ids, t.src[id] # NoSource
  PROVE  /\ SlotOK(send_request_resend(t, id))
         /\ SameRefs(t, send_request_resend(t, id))
  <1> DEFINE u == flushupdates(t, Ifaces)
             q == [to |-> {n \in Neighs : IfOf[n] \in t.up}, id |-> id,
                   seqno |-> WantedSeqno(t.src[id])]
             v == [u EXCEPT !.asked = u.asked \cup {q}]
  <1>1. SlotOK(u) /\ SameRefs(t, u)
    BY FlushFact
  <1>2. t.src[id] \in Source
    BY SlotFact DEF SlotOK
  <1>3. WantedSeqno(t.src[id]) \in Seqnos
    BY <1>2, WantedSeqnoFact
  <1>4. q \in [to : SUBSET Neighs, id : Ids, seqno : Seqnos]
    BY <1>3
  <1>5. send_request_resend(t, id) = v
    BY DEF send_request_resend
  <1> HIDE DEF u, q
  <1>6. u.update \in SUBSET u.up /\ u.resend \in 0 .. RESEND_MAX
        /\ u.asked \cup {q} \in SUBSET [to : SUBSET Neighs, id : Ids, seqno : Seqnos]
    BY <1>1, <1>4, SlotFact DEF SlotOK, BuffersOK
  <1>7. SlotOK(v) /\ SameRefs(u, v)
    BY <1>1, <1>6, BuffersFact
  <1> HIDE DEF v
  <1> QED
    BY <1>1, <1>5, <1>7, SameRefsFact

\* Asking one neighbour for a newer sequence number changes no route.
LEMMA UnfeasibleRequestFact ==
  ASSUME NEW t, SlotOK(t), NEW n \in Neighs, NEW force, NEW seqno, NEW metric,
         NEW id \in Ids, t.src[id] # NoSource
  PROVE  LET u == send_unfeasible_request(t, n, force, seqno, metric, id)
         IN  SlotOK(u) /\ SameRefs(t, u)
  <1> DEFINE u == flushupdates(t, {IfOf[n]})
             q == [to |-> {n}, id |-> id, seqno |-> WantedSeqno(t.src[id])]
             v == [u EXCEPT !.asked = u.asked \cup {q}]
  <1>1. SlotOK(u) /\ SameRefs(t, u)
    BY FlushFact
  <1>2. t.src[id] \in Source
    BY SlotFact DEF SlotOK
  <1>3. WantedSeqno(t.src[id]) \in Seqnos
    BY <1>2, WantedSeqnoFact
  <1>4. q \in [to : SUBSET Neighs, id : Ids, seqno : Seqnos]
    BY <1>3
  <1>5. send_unfeasible_request(t, n, force, seqno, metric, id) \in {t, v}
    BY DEF send_unfeasible_request
  <1> HIDE DEF u, q
  <1>6. u.update \in SUBSET u.up /\ u.resend \in 0 .. RESEND_MAX
        /\ u.asked \cup {q} \in SUBSET [to : SUBSET Neighs, id : Ids, seqno : Seqnos]
    BY <1>1, <1>4, SlotFact DEF SlotOK, BuffersOK
  <1>7. SlotOK(v) /\ SameRefs(u, v)
    BY <1>1, <1>6, BuffersFact
  <1> HIDE DEF v
  <1> QED
    BY <1>1, <1>5, <1>7, SameRefsFact

\* Triggered updates change no route.
LEMMA TriggeredFact ==
  ASSUME NEW t, SlotOK(t), NEW p, NEW oldsrc, NEW oldmetric, NEW k
  PROVE  LET u == send_triggered_update(t, p, oldsrc, oldmetric, k)
         IN  SlotOK(u) /\ SameRefs(t, u)
  <1>1. send_triggered_update(t, p, oldsrc, oldmetric, k)
          \in {t, send_update(t, k), send_update_resend(t, k)}
    BY DEF send_triggered_update
  <1> QED
    BY <1>1, SendUpdateFact, SameRefsFact

-----------------------------------------------------------------------------
(* Installing and changing routes. *)

\* The kernel's priorities are numbers.
LEMMA MetricToKernelFact ==
  ASSUME NEW m \in Metric
  PROVE  metric_to_kernel(m) \in Nat
  BY MetricAssumption DEF metric_to_kernel, Metric, KERNEL_INFINITY, MIN

\* The kernel's table stays a table.
LEMMA KernelFact ==
  ASSUME NEW fib \in SUBSET FibEntry, NEW p \in Paths, NEW q \in Paths,
         NEW km \in Nat, NEW kn \in Nat
  PROVE  /\ KernelAdd(fib, p, km) \in SUBSET FibEntry
         /\ KernelFlush(fib, p, km) \in SUBSET FibEntry
         /\ KernelFlushForModify(fib, p, km, kn) \in SUBSET FibEntry
         /\ KernelModify(fib, p, km, q, kn) \in SUBSET FibEntry
  <1>1. Entry(p, km) \in FibEntry /\ Entry(q, kn) \in FibEntry
    BY MetricAssumption DEF Entry, FibEntry
  <1>2. KernelFlushForModify(fib, p, km, kn) \in SUBSET FibEntry
    BY DEF KernelFlushForModify, KernelFlush
  <1> QED
    BY <1>1, <1>2 DEF KernelAdd, KernelFlush, KernelModify

\* A slot with the same routes in the list, of the same sources.
LEMMA ListFact ==
  ASSUME NEW t, SlotOK(t), NEW u \in Slot,
         u.src = t.src, u.xroute = t.xroute, u.self = t.self, u.up = t.up,
         u.update = t.update, u.told = t.told,
         Listed(u) = Listed(t), NoDuplicate(u.list), HeadOK(u), XrouteOK(u),
         \A p \in Paths : u.rt[p].id = t.rt[p].id
  PROVE  SlotOK(u) /\ SameRefs(t, u)
  <1>1. t \in Slot /\ SourcesOK(t) /\ BuffersOK(t)
    BY DEF SlotOK
  <1>2. SameRefs(t, u)
    BY DEF SameRefs
  <1>3. BuffersOK(u)
    BY <1>1 DEF BuffersOK
  <1>4. Listed(t) \subseteq Paths
    BY <1>1, SlotFact DEF Listed
  <1>5. SourcesOK(u)
    BY <1>1, <1>4 DEF SourcesOK
  <1> QED
    BY <1>2, <1>3, <1>5 DEF SlotOK

\* The slot with route r stored at p, and the kernel's table fib.
Stored(t, fib, p, r) == [t EXCEPT !.fib = fib, !.rt[p] = r]

\* Storing a route over route p changes nothing else.
LEMMA StoreFact ==
  ASSUME NEW t \in Slot, NEW p \in Paths, NEW r \in Route,
         NEW fib \in SUBSET FibEntry
  PROVE  LET u == Stored(t, fib, p, r)
         IN  /\ u \in Slot /\ u.list = t.list /\ u.fib = fib
             /\ u.rt = [t.rt EXCEPT ![p] = r]
             /\ u.src = t.src /\ u.xroute = t.xroute /\ u.self = t.self
             /\ u.up = t.up /\ u.update = t.update /\ u.told = t.told
  <1> DEFINE rt == [t.rt EXCEPT ![p] = r]
             u == Stored(t, fib, p, r)
  <1>1. rt \in [Paths -> Route]
    BY SlotFact
  <1>2. u = [t EXCEPT !.fib = fib, !.rt = rt]
    BY DEF Stored
  <1> HIDE DEF rt, u
  <1>3. u \in Slot
    BY <1>1, <1>2, Zenon DEF Slot
  <1>4. /\ u.list = t.list /\ u.fib = fib /\ u.rt = rt
        /\ u.src = t.src /\ u.xroute = t.xroute /\ u.self = t.self
        /\ u.up = t.up /\ u.update = t.update /\ u.told = t.told
    BY <1>1, <1>2, SMT DEF Slot
  <1> QED
    BY <1>3, <1>4 DEF rt, u

\* Installing, with route p alone at the head of the list.
LEMMA InstallAtHeadFact ==
  ASSUME NEW t, SlotOK(t), NEW p \in Listed(t),
         ~(allow_duplicates < 0 /\ t.xroute < INFINITY),
         NEW fib \in SUBSET FibEntry, NEW rt \in [Paths -> Route],
         \A q \in Paths : rt[q].id = t.rt[q].id /\ (rt[q].installed => q = p),
         NEW u, u = [t EXCEPT !.fib = fib, !.rt = rt,
                              !.list = move_installed_route(t.list, p)]
  PROVE  SlotOK(u) /\ SameRefs(t, u)
  <1> DEFINE m == move_installed_route(t.list, p)
  <1>1. t \in Slot /\ NoDuplicate(t.list)
    BY DEF SlotOK
  <1>2. p \in Paths /\ \E i \in DOMAIN t.list : t.list[i] = p
    BY <1>1, SlotFact DEF Listed
  <1>3. /\ m \in Seq(Paths) /\ m # << >> /\ m[1] = p /\ NoDuplicate(m)
        /\ {m[i] : i \in DOMAIN m} = {t.list[i] : i \in DOMAIN t.list}
    BY <1>1, <1>2, SlotFact, MoveFact
  <1> HIDE DEF m
  <1>4. u \in Slot
    BY <1>1, <1>3, Zenon DEF Slot, m
  <1>5. /\ u.list = m /\ u.rt = rt
        /\ u.src = t.src /\ u.xroute = t.xroute /\ u.self = t.self
        /\ u.up = t.up /\ u.update = t.update /\ u.told = t.told
    BY <1>1, SMT DEF Slot, m
  <1>6. Listed(u) = Listed(t)
    BY <1>3, <1>5 DEF Listed
  <1>7. NoDuplicate(u.list) /\ HeadOK(u) /\ XrouteOK(u)
    BY <1>3, <1>5 DEF HeadOK, XrouteOK
  <1> QED
    BY <1>4, <1>5, <1>6, <1>7, ListFact

\* Setting the installed flag of a route keeps the routes' types and sources.
LEMMA SetInstalledFact ==
  ASSUME NEW rt \in [Paths -> Route], NEW p \in Paths, NEW b \in BOOLEAN
  PROVE  LET new == [rt EXCEPT ![p].installed = b]
         IN  /\ new \in [Paths -> Route]
             /\ \A q \in Paths : /\ new[q].id = rt[q].id
                                 /\ new[q].installed =
                                      IF q = p THEN b ELSE rt[q].installed
  <1> DEFINE r == [rt[p] EXCEPT !.installed = b]
             new == [rt EXCEPT ![p].installed = b]
  <1>1. r \in Route /\ r.id = rt[p].id /\ r.installed = b
    BY DEF Route
  <1>2. new = [rt EXCEPT ![p] = r]
    OBVIOUS
  <1> HIDE DEF r, new
  <1>3. new \in [Paths -> Route] /\ \A q \in Paths : new[q] = IF q = p THEN r ELSE rt[q]
    BY <1>1, <1>2
  <1> QED
    BY <1>1, <1>3 DEF new

\* install_route, of a route of the list.
LEMMA InstallFact ==
  ASSUME NEW t, SlotOK(t), NEW p \in Listed(t), NEW k,
         ~(allow_duplicates < 0 /\ t.xroute < INFINITY)
  PROVE  SlotOK(install_route(t, p, k)) /\ SameRefs(t, install_route(t, p, k))
  <1> DEFINE fib == KernelAdd(t.fib, p, metric_to_kernel(route_metric(t.rt[p])))
             rt == [t.rt EXCEPT ![p].installed = TRUE]
             u == [t EXCEPT !.fib = fib, !.rt = rt,
                            !.list = move_installed_route(t.list, p)]
  <1>1. t \in Slot /\ HeadOK(t)
    BY DEF SlotOK
  <1>2. p \in Paths
    BY <1>1, SlotFact DEF Listed
  <1>3. t.rt[p] \in Route /\ t.rt \in [Paths -> Route] /\ t.fib \in SUBSET FibEntry
    BY <1>1, <1>2, SlotFact
  <1>4. fib \in SUBSET FibEntry
    BY <1>2, <1>3, RouteMetricFact, MetricToKernelFact, KernelFact
  <1>5. rt \in [Paths -> Route]
        /\ \A q \in Paths : /\ rt[q].id = t.rt[q].id
                            /\ rt[q].installed => q = p \/ t.rt[q].installed
    BY <1>2, <1>3, SetInstalledFact
  <1>6. CASE install_route(t, p, k) = t
    BY <1>6, SameRefsFact
  <1>7. CASE install_route(t, p, k) # t
    <2>1. ~t.rt[p].installed /\ (t.list[1] = p \/ ~t.rt[t.list[1]].installed)
      BY <1>7 DEF install_route
    <2>2. install_route(t, p, k) = u
      BY <1>7 DEF install_route
    <2>3. \A q \in Paths : ~t.rt[q].installed
      BY <2>1, <1>1 DEF HeadOK
    <2> HIDE DEF fib, rt
    <2>4. SlotOK(u) /\ SameRefs(t, u)
      BY <2>3, <1>4, <1>5, InstallAtHeadFact
    <2> QED
      BY <2>2, <2>4
  <1> QED
    BY <1>6, <1>7

\* uninstall_route leaves no route installed.
LEMMA UninstallFact ==
  ASSUME NEW t, SlotOK(t), NEW p \in Paths
  PROVE  LET u == uninstall_route(t, p)
         IN  /\ SlotOK(u) /\ SameRefs(t, u)
             /\ u.list = t.list /\ u.src = t.src
             /\ ~u.rt[p].installed
             /\ t.rt[p].installed => \A q \in Paths : ~u.rt[q].installed
  <1> DEFINE fib == KernelFlush(t.fib, p, metric_to_kernel(route_metric(t.rt[p])))
             rt == [t.rt EXCEPT ![p].installed = FALSE]
             u == uninstall_route(t, p)
  <1>1. t \in Slot /\ HeadOK(t) /\ NoDuplicate(t.list) /\ XrouteOK(t)
    BY DEF SlotOK
  <1>3. t.rt[p] \in Route /\ t.rt \in [Paths -> Route] /\ t.fib \in SUBSET FibEntry
    BY <1>1, SlotFact
  <1>4. fib \in SUBSET FibEntry
    BY <1>3, RouteMetricFact, MetricToKernelFact, KernelFact
  <1>5. rt \in [Paths -> Route]
        /\ \A q \in Paths : /\ rt[q].id = t.rt[q].id
                            /\ rt[q].installed => q # p /\ t.rt[q].installed
    BY <1>3, SetInstalledFact
  <1>6. CASE ~t.rt[p].installed
    BY <1>6, SameRefsFact DEF uninstall_route
  <1>7. CASE t.rt[p].installed
    <2>1. u = [t EXCEPT !.fib = fib, !.rt = rt]
      BY <1>7 DEF uninstall_route
    <2> HIDE DEF fib, rt, u
    <2>2. u \in Slot
      BY <2>1, <1>1, <1>4, <1>5, Zenon DEF Slot
    <2>3. /\ u.list = t.list /\ u.rt = rt
          /\ u.src = t.src /\ u.xroute = t.xroute /\ u.self = t.self
          /\ u.up = t.up /\ u.update = t.update /\ u.told = t.told
      BY <2>1, <1>1, SMT DEF Slot
    <2>4. \A q \in Paths : ~u.rt[q].installed
      BY <2>3, <1>1, <1>5, <1>7 DEF HeadOK
    <2>5. Listed(u) = Listed(t) /\ NoDuplicate(u.list) /\ HeadOK(u) /\ XrouteOK(u)
      BY <2>3, <2>4, <1>1 DEF Listed, HeadOK, XrouteOK
    <2>6. SlotOK(u) /\ SameRefs(t, u)
      BY <2>2, <2>3, <2>5, <1>5, ListFact
    <2> QED
      BY <2>3, <2>4, <2>6 DEF u
  <1> QED
    BY <1>6, <1>7

\* Only the kernel's table changes.
LEMMA FibFact ==
  ASSUME NEW t, SlotOK(t), NEW fib \in SUBSET FibEntry,
         NEW u, u = [t EXCEPT !.fib = fib]
  PROVE  SlotOK(u) /\ SameRefs(t, u) /\ u.rt = t.rt
  <1>1. t \in Slot
    BY DEF SlotOK
  <1>2. u \in Slot
    BY <1>1 DEF Slot
  <1>3. /\ u.list = t.list /\ u.rt = t.rt
        /\ u.src = t.src /\ u.xroute = t.xroute /\ u.self = t.self
        /\ u.up = t.up /\ u.update = t.update /\ u.told = t.told
    BY <1>1, SMT DEF Slot
  <1>4. BuffersOK(u)
    BY <1>3 DEF SlotOK, BuffersOK
  <1> QED
    BY <1>2, <1>3, <1>4, SameRoutesFact

\* switch_routes, from the installed route to a route of the list.
LEMMA SwitchFact ==
  ASSUME NEW t, SlotOK(t), NEW p \in Listed(t), NEW k,
         ~(allow_duplicates < 0 /\ t.xroute < INFINITY),
         NEW old \in {find_installed_route(t)}, ~t.rt[p].installed
  PROVE  SlotOK(switch_routes(t, old, p, k)) /\ SameRefs(t, switch_routes(t, old, p, k))
  <1> DEFINE km == metric_to_kernel(route_metric(t.rt[old]))
             kn == metric_to_kernel(route_metric(t.rt[p]))
             fib1 == KernelFlushForModify(t.fib, old, km, kn)
             fib == KernelModify(t.fib, old, km, p, kn)
             rt1 == [t.rt EXCEPT ![old].installed = FALSE]
             rt == [rt1 EXCEPT ![p].installed = TRUE]
             u == [t EXCEPT !.fib = fib1]
             v == [t EXCEPT !.fib = fib, !.rt = rt,
                            !.list = move_installed_route(t.list, p)]
  <1>1. t \in Slot /\ HeadOK(t)
    BY DEF SlotOK
  <1>2. p \in Paths /\ t.rt[p] \in Route
    BY <1>1, SlotFact DEF Listed
  <1>3. CASE old = NoPath
    BY <1>3, InstallFact DEF switch_routes
  <1>4. CASE old # NoPath
    <2>1. old \in Paths /\ t.rt[old] \in Route /\ t.rt[old].installed
      BY <1>1, <1>4, InstalledFact
    <2>2. km \in Nat /\ kn \in Nat
      BY <1>2, <2>1, RouteMetricFact, MetricToKernelFact
    <2>3. fib1 \in SUBSET FibEntry /\ fib \in SUBSET FibEntry
      <3> HIDE DEF km, kn
      <3> QED
        BY <1>1, <1>2, <2>1, <2>2, SlotFact, KernelFact
    <2>4. rt1 \in [Paths -> Route]
          /\ \A q \in Paths : /\ rt1[q].id = t.rt[q].id
                              /\ rt1[q].installed => q # old /\ t.rt[q].installed
      <3>1. t.rt \in [Paths -> Route]
        BY <1>1, SlotFact
      <3> QED
        BY <2>1, <3>1, SetInstalledFact
    <2>5. rt \in [Paths -> Route]
          /\ \A q \in Paths : /\ rt[q].id = rt1[q].id
                              /\ rt[q].installed => q = p \/ rt1[q].installed
      <3> HIDE DEF rt1
      <3> QED
        BY <1>2, <2>4, SetInstalledFact
    <2>6. \A q \in Paths : t.rt[q].installed => q = old
      BY <1>1, <2>1 DEF HeadOK
    <2>7. \A q \in Paths : rt[q].id = t.rt[q].id /\ (rt[q].installed => q = p)
      BY <2>4, <2>5, <2>6
    <2>8. switch_routes(t, old, p, k) \in {u, v}
      BY <1>4 DEF switch_routes
    <2> HIDE DEF km, kn, fib1, fib, rt1, rt
    <2>9. SlotOK(u) /\ SameRefs(t, u)
      BY <2>3, FibFact
    <2>10. SlotOK(v) /\ SameRefs(t, v)
      BY <2>3, <2>5, <2>7, InstallAtHeadFact
    <2> QED
      BY <2>8, <2>9, <2>10
  <1> QED
    BY <1>3, <1>4

\* Storing over route p one of the same source, installed as it was.
LEMMA StoreSameFact ==
  ASSUME NEW t, SlotOK(t), NEW p \in Paths, NEW r \in Route,
         r.id = t.rt[p].id, r.installed = t.rt[p].installed,
         NEW fib \in SUBSET FibEntry
  PROVE  LET u == Stored(t, fib, p, r)
         IN  SlotOK(u) /\ SameRefs(t, u)
  <1> DEFINE u == Stored(t, fib, p, r)
  <1>1. t \in Slot /\ HeadOK(t) /\ NoDuplicate(t.list) /\ XrouteOK(t)
    BY DEF SlotOK
  <1>2. /\ u \in Slot /\ u.list = t.list /\ u.rt = [t.rt EXCEPT ![p] = r]
        /\ u.src = t.src /\ u.xroute = t.xroute /\ u.self = t.self
        /\ u.up = t.up /\ u.update = t.update /\ u.told = t.told
    BY <1>1, StoreFact
  <1> HIDE DEF u
  <1>3. \A q \in Paths : /\ u.rt[q].id = t.rt[q].id
                         /\ u.rt[q].installed = t.rt[q].installed
    BY <1>1, <1>2, SlotFact
  <1>4. Listed(u) = Listed(t) /\ NoDuplicate(u.list) /\ HeadOK(u) /\ XrouteOK(u)
    BY <1>1, <1>2, <1>3 DEF Listed, HeadOK, XrouteOK
  <1>5. SlotOK(u) /\ SameRefs(t, u)
    BY <1>2, <1>3, <1>4, ListFact
  <1> QED
    BY <1>5 DEF u

\* change_route_metric changes what we know of one route, and nothing else.
LEMMA ChangeMetricFact ==
  ASSUME NEW t, SlotOK(t), NEW p \in Paths, NEW refmetric \in Metric,
         NEW cost \in Metric, NEW add \in Metric, NEW k
  PROVE  LET u == change_route_metric(t, p, refmetric, cost, add, k)
         IN  SlotOK(u) /\ SameRefs(t, u)
  <1> DEFINE r == t.rt[p]
             new == [r EXCEPT !.refmetric = refmetric, !.cost = cost, !.add = add]
             km == metric_to_kernel(route_metric(r))
             kn == metric_to_kernel(route_metric(new))
             sm == Kept(route_smoothed_metric(r))
             fib1 == KernelFlushForModify(t.fib, p, km, kn)
             fib2 == KernelModify(t.fib, p, km, p, kn)
             end == [new EXCEPT !.smoothed = sm]
             u == change_route_metric(t, p, refmetric, cost, add, k)
  <1>1. t \in Slot
    BY DEF SlotOK
  <1>2. r \in Route /\ t.fib \in SUBSET FibEntry
    BY <1>1, SlotFact
  <1>3. new \in Route
    BY <1>2, Zenon DEF Route
  <1>4. new.id = r.id /\ new.installed = r.installed
    BY <1>2, SMT DEF Route
  <1>5. u \in {[t EXCEPT !.fib = fib1],
               Stored(t, fib2, p, end),
               Stored(t, t.fib, p, end)}
    BY DEF change_route_metric, Stored
  <1> HIDE DEF new, u
  <1>6. sm \in Metric /\ km \in Nat /\ kn \in Nat
    BY <1>2, <1>3, RouteMetricFact, MetricToKernelFact
  <1> HIDE DEF km, kn, sm
  <1>7. end \in Route /\ end.id = r.id /\ end.installed = r.installed
    BY <1>3, <1>4, <1>6 DEF Route
  <1>8. fib1 \in SUBSET FibEntry /\ fib2 \in SUBSET FibEntry
    BY <1>2, <1>6, KernelFact
  <1> HIDE DEF fib1, fib2, end
  <1>9. CASE u = [t EXCEPT !.fib = fib1]
    BY <1>8, <1>9, FibFact DEF u
  <1>10. CASE u = Stored(t, fib2, p, end)
    BY <1>7, <1>8, <1>10, StoreSameFact DEF u
  <1>11. CASE u = Stored(t, t.fib, p, end)
    BY <1>2, <1>7, <1>11, StoreSameFact DEF u
  <1> QED
    BY <1>5, <1>9, <1>10, <1>11

-----------------------------------------------------------------------------
(* Selection. *)

\* A set of numbers that is not empty has a smallest one.
LEMMA SmallestFact ==
  ASSUME NEW T \in SUBSET Nat, T # {}
  PROVE  \E x \in T : \A y \in T : x <= y
  <1>1. PICK x \in T : \A y \in T : ~(<<y, x>> \in OpToRel(<, Nat))
    BY NatLessThanWellFounded, WFMin
  <1>2. \A y \in T : ~(y < x)
    BY <1>1 DEF OpToRel
  <1> QED
    BY <1>2

\* The best route is an acceptable route of the list, with the smallest
\* smoothed metric.
LEMMA SmallestBestFact ==
  ASSUME NEW t \in Slot,
         find_best_route(t) # NoPath \/ \E p \in Listed(t) : route_acceptable(t, p)
  PROVE  /\ find_best_route(t) \in Listed(t) /\ route_acceptable(t, find_best_route(t))
         /\ \A p \in Listed(t) : route_acceptable(t, p) =>
              route_smoothed_metric(t.rt[find_best_route(t)])
                <= route_smoothed_metric(t.rt[p])
  <1> DEFINE ok == {i \in DOMAIN t.list : route_acceptable(t, t.list[i])}
             sm(i) == route_smoothed_metric(t.rt[t.list[i]])
             Best(i) == \A j \in ok : sm(i) < sm(j) \/ (sm(i) = sm(j) /\ i <= j)
             b == CHOOSE i \in ok : Best(i)
  <1>1. ok # {} /\ find_best_route(t) = t.list[b]
    BY DEF find_best_route, Listed
  <1>2. ok \subseteq DOMAIN t.list /\ ok \subseteq Nat
    BY SlotFact
  <1>3. \A i \in ok : sm(i) \in Nat
    <2> SUFFICES ASSUME NEW i \in ok PROVE sm(i) \in Nat
      OBVIOUS
    <2>1. t.rt[t.list[i]] \in Route
      BY SlotFact
    <2>2. route_metric(t.rt[t.list[i]]) \in Nat /\ t.rt[t.list[i]].smoothed \in Nat
      BY <2>1, RouteMetricFact, MetricAssumption DEF Metric, Route
    <2> QED
      BY <2>2 DEF route_smoothed_metric
  <1>8. /\ \A i \in ok : t.list[i] \in Listed(t) /\ route_acceptable(t, t.list[i])
        /\ \A p \in Listed(t) : route_acceptable(t, p) => \E i \in ok : p = t.list[i]
    BY DEF ok, Listed
  <1>9. \A i : sm(i) = route_smoothed_metric(t.rt[t.list[i]])
    OBVIOUS
  <1> HIDE DEF ok, sm
  <1> DEFINE sms == {sm(i) : i \in ok}
  <1>4. PICK m \in sms : \A y \in sms : m <= y
    <2>1. sms \in SUBSET Nat /\ sms # {}
      BY <1>1, <1>3
    <2> QED
      BY <2>1, SmallestFact
  <1> DEFINE first == {i \in ok : sm(i) = m}
  <1>5. PICK x \in first : \A y \in first : x <= y
    <2>1. first \in SUBSET Nat /\ first # {}
      BY <1>2, <1>4
    <2> QED
      BY <2>1, SmallestFact
  <1>6. x \in ok /\ Best(x)
    <2> SUFFICES ASSUME NEW j \in ok
                 PROVE  sm(x) < sm(j) \/ (sm(x) = sm(j) /\ x <= j)
      BY <1>5
    <2>1. sm(x) = m /\ m <= sm(j) /\ sm(j) \in Nat /\ m \in Nat
      BY <1>3, <1>4, <1>5
    <2>2. sm(j) = m => x <= j
      BY <1>5
    <2> QED
      BY <2>1, <2>2
  <1>7. b \in ok /\ Best(b)
    <2> HIDE DEF Best
    <2> QED
      BY <1>6
  <1>10. \A j \in ok : sm(b) <= sm(j)
    <2> SUFFICES ASSUME NEW j \in ok PROVE sm(b) <= sm(j)
      OBVIOUS
    <2>1. sm(b) < sm(j) \/ sm(b) = sm(j)
      BY <1>7
    <2>2. sm(b) \in Nat /\ sm(j) \in Nat
      BY <1>3, <1>7
    <2> HIDE DEF b
    <2> QED
      BY <2>1, <2>2
  <1> HIDE DEF Best, b
  <1> QED
    BY <1>1, <1>7, <1>8, <1>9, <1>10

\* The best route, if there is one, is an acceptable route of the list.
LEMMA BestFact ==
  ASSUME NEW t \in Slot, find_best_route(t) # NoPath
  PROVE  find_best_route(t) \in Listed(t) /\ route_acceptable(t, find_best_route(t))
  BY SmallestBestFact

\* consider_route, of a route of the list.
LEMMA ConsiderFact ==
  ASSUME NEW t, SlotOK(t), NEW p \in Listed(t), NEW k
  PROVE  SlotOK(consider_route(t, p, k)) /\ SameRefs(t, consider_route(t, p, k))
  <1> DEFINE old == find_installed_route(t)
             u == switch_routes(t, old, p, k)
  <1>1. CASE consider_route(t, p, k) = t
    BY <1>1, SameRefsFact
  <1>2. CASE consider_route(t, p, k) # t
    <2>1. ~t.rt[p].installed /\ ~(allow_duplicates < 0 /\ t.xroute < INFINITY)
      BY <1>2 DEF consider_route
    <2>2. SlotOK(u) /\ SameRefs(t, u)
      BY <2>1, SwitchFact
    <2> DEFINE v == send_triggered_update(
                      u, p, t.rt[old].id, route_metric(t.rt[old]), k)
    <2>3. consider_route(t, p, k) \in {v, send_update(u, k)}
      BY <1>2 DEF consider_route
    <2> HIDE DEF u
    <2>4. SlotOK(v) /\ SameRefs(u, v)
      BY <2>2, TriggeredFact
    <2>5. SlotOK(send_update(u, k)) /\ SameRefs(u, send_update(u, k))
      BY <2>2, SendUpdateFact
    <2> HIDE DEF v
    <2> QED
      BY <2>2, <2>3, <2>4, <2>5, SameRefsFact
  <1> QED
    BY <1>1, <1>2

\* route_changed, of a route of the list.
LEMMA RouteChangedFact ==
  ASSUME NEW t, SlotOK(t), NEW p \in Listed(t), NEW oldsrc, NEW oldmetric, NEW k
  PROVE  LET u == route_changed(t, p, oldsrc, oldmetric, k)
         IN  SlotOK(u) /\ SameRefs(t, u)
  <1> DEFINE b == find_best_route(t)
             u == IF /\ t.rt[p].installed /\ b # NoPath
                     /\ route_metric(t.rt[b]) < route_metric(t.rt[p])
                    THEN consider_route(t, b, k) ELSE t
             v == send_triggered_update(u, p, oldsrc, oldmetric, k)
             w == consider_route(u, p, k)
  <1>1. SlotOK(u) /\ SameRefs(t, u)
    BY BestFact, ConsiderFact, SameRefsFact DEF SlotOK
  <1>2. p \in Listed(u)
    BY <1>1 DEF SameRefs
  <1>3. route_changed(t, p, oldsrc, oldmetric, k) \in {v, w}
    BY DEF route_changed
  <1> HIDE DEF u
  <1>4. SlotOK(v) /\ SameRefs(u, v)
    BY <1>1, TriggeredFact
  <1>5. SlotOK(w) /\ SameRefs(u, w)
    BY <1>1, <1>2, ConsiderFact
  <1> HIDE DEF v, w
  <1> QED
    BY <1>1, <1>3, <1>4, <1>5, SameRefsFact

\* route_lost, of a route whose source is known.
LEMMA RouteLostFact ==
  ASSUME NEW t, SlotOK(t), NEW id \in Ids, t.src[id] # NoSource, NEW oldmetric,
         NEW k
  PROVE  LET u == route_lost(t, id, oldmetric, k)
         IN  SlotOK(u) /\ SameRefs(t, u)
  <1> DEFINE b == find_best_route(t)
             u == send_update_resend(t, k)
             v == send_request_resend(u, id)
  <1>1. CASE b # NoPath
    BY <1>1, BestFact, ConsiderFact DEF route_lost, SlotOK
  <1>2. CASE b = NoPath
    <2>1. route_lost(t, id, oldmetric, k) \in {t, u, v}
      BY <1>2 DEF route_lost
    <2>2. SlotOK(u) /\ SameRefs(t, u)
      BY SendUpdateFact
    <2> HIDE DEF u
    <2>3. u.src[id] # NoSource
      BY <2>2 DEF SameRefs
    <2>4. SlotOK(v) /\ SameRefs(u, v)
      BY <2>2, <2>3, RequestFact
    <2> HIDE DEF v
    <2> QED
      BY <2>1, <2>2, <2>4, SameRefsFact
  <1> QED
    BY <1>1, <1>2

-----------------------------------------------------------------------------
(* The operations on one route. *)

\* Routes of the list have sources.
LEMMA ListedFact ==
  ASSUME NEW t, SlotOK(t), NEW p \in Listed(t)
  PROVE  /\ t \in Slot /\ p \in Paths /\ t.rt[p] \in Route /\ t.rt[p].id \in Ids
         /\ t.src[t.rt[p].id] \in Source
  <1>1. t \in Slot /\ SourcesOK(t)
    BY DEF SlotOK
  <1>2. p \in Paths /\ t.rt[p] \in Route
    BY <1>1, SlotFact DEF Listed
  <1>3. t.rt[p].id \in Ids
    BY <1>2 DEF Route
  <1> QED
    BY <1>1, <1>2, <1>3, SlotFact DEF SourcesOK

\* retract_route changes no reference.
LEMMA RetractFact ==
  ASSUME NEW t, SlotOK(t), NEW p \in Paths, NEW k
  PROVE  SlotOK(retract_route(t, p, k)) /\ SameRefs(t, retract_route(t, p, k))
  BY BoundsFact, ChangeMetricFact DEF retract_route

\* update_route_metric, of a route of the list.
LEMMA UpdateMetricFact ==
  ASSUME NEW t, SlotOK(t), NEW p \in Listed(t), NEW cost \in Metric, NEW k
  PROVE  LET u == update_route_metric(t, p, cost, k)
         IN  SlotOK(u) /\ SameRefs(t, u)
  <1> DEFINE r == t.rt[p]
             seqno == seqno_plus(t.src[r.id].seqno, 1)
             newer == [r EXCEPT !.seqno = seqno]
             t1 == [t EXCEPT !.rt[p].seqno = seqno]
             dead == retract_route(t1, p, k)
             live == change_route_metric(t, p, r.refmetric, cost, AddMetric[p], k)
             end(v) == route_changed(v, p, r.id, route_metric(r), k)
             u == update_route_metric(t, p, cost, k)
  <1>1. /\ t \in Slot /\ p \in Paths /\ r \in Route /\ r.id \in Ids
        /\ t.src[r.id] \in Source
    BY ListedFact
  <1>2. seqno \in Seqnos
    BY <1>1, SeqnoPlusFact DEF Source
  <1>3. u \in {t, dead, live, end(dead), end(live)}
    BY DEF update_route_metric
  <1> HIDE DEF seqno
  <1>4. newer \in Route /\ newer.id = r.id /\ newer.installed = r.installed
    BY <1>1, <1>2 DEF Route
  <1>5. t1 = Stored(t, t.fib, p, newer)
    BY <1>1 DEF Stored, Slot
  <1>6. SlotOK(t1) /\ SameRefs(t, t1)
    <2> HIDE DEF newer, t1
    <2> QED
      BY <1>1, <1>4, <1>5, SlotFact, StoreSameFact
  <1> HIDE DEF t1
  <1>7. SlotOK(dead) /\ SameRefs(t, dead)
    BY <1>1, <1>6, RetractFact, SameRefsFact
  <1>8. SlotOK(live) /\ SameRefs(t, live)
    <2>1. r.refmetric \in Metric /\ AddMetric[p] \in Metric
      BY <1>1, MetricAssumption DEF Route
    <2> QED
      BY <1>1, <2>1, ChangeMetricFact
  <1> HIDE DEF dead, live
  <1>9. p \in Listed(dead) /\ p \in Listed(live)
    BY <1>7, <1>8 DEF SameRefs
  <1>10. SlotOK(end(dead)) /\ SameRefs(dead, end(dead))
    BY <1>7, <1>9, RouteChangedFact
  <1>11. SlotOK(end(live)) /\ SameRefs(live, end(live))
    BY <1>8, <1>9, RouteChangedFact
  <1> HIDE DEF end, u
  <1>12. SlotOK(u) /\ SameRefs(t, u)
    BY <1>3, <1>7, <1>8, <1>10, <1>11, SameRefsFact
  <1> QED
    BY <1>12 DEF u

-----------------------------------------------------------------------------
(* References. *)

\* The routes that refer to a source.
Refs(t, id) == {p \in Listed(t) : t.rt[p].id = id}

\* Every source counts the routes that refer to it.
RefsOK(t) ==
  \A id \in Ids : t.src[id] # NoSource => t.src[id].count = Cardinality(Refs(t, id))

\* The same routes have the same references.
LEMMA SameRefsOK ==
  ASSUME NEW t, SlotOK(t), RefsOK(t), NEW u, SameRefs(t, u)
  PROVE  RefsOK(u)
  <1>1. Listed(t) \subseteq Paths
    BY SlotFact DEF SlotOK, Listed
  <1>2. \A id \in Ids : Refs(u, id) = Refs(t, id)
    BY <1>1 DEF Refs, SameRefs
  <1> QED
    BY <1>2 DEF RefsOK, SameRefs

\* The slot with a reference to source id given up.
Released(t, id) == [t EXCEPT !.src = release_source(t.src, id)]

\* Releasing a source takes one reference away from it.
LEMMA ReleaseFact ==
  ASSUME NEW t, SlotOK(t), NEW id \in Ids, t.src[id] # NoSource,
         NEW u, u = Released(t, id)
  PROVE  /\ SlotOK(u) /\ u.xroute = t.xroute /\ u.self = t.self /\ u.up = t.up
         /\ u.list = t.list /\ u.rt = t.rt
         /\ \A i \in Ids : /\ u.src[i] = NoSource <=> t.src[i] = NoSource
                           /\ u.src[i] # NoSource =>
                                u.src[i].count =
                                  IF i = id THEN t.src[i].count - 1 ELSE t.src[i].count
  <1>1. t \in Slot /\ t.src \in [Ids -> Source \cup {NoSource}] /\ t.src[id] \in Source
    BY SlotFact DEF SlotOK
  <1> DEFINE s == [t.src[id] EXCEPT !.count = @ - 1]
             src == release_source(t.src, id)
  <1>2. t.src[id].count \in Int
    BY <1>1 DEF Source
  <1>3. t.src[id].count - 1 \in Int
    BY <1>2
  <1>4. s \in Source /\ s.count = t.src[id].count - 1
    BY <1>1, <1>3 DEF Source
  <1>5. src = [t.src EXCEPT ![id] = s]
    BY DEF release_source
  <1>6. s # NoSource
    BY <1>4, SourceAssumption
  <1> HIDE DEF s, src
  <1>7. src \in [Ids -> Source \cup {NoSource}]
        /\ \A i \in Ids : src[i] = IF i = id THEN s ELSE t.src[i]
    BY <1>1, <1>4, <1>5
  <1>8. u \in Slot
    BY <1>1, <1>7, Zenon DEF Slot, src, Released
  <1>9. /\ u.list = t.list /\ u.rt = t.rt /\ u.src = src
        /\ u.xroute = t.xroute /\ u.self = t.self
        /\ u.up = t.up /\ u.update = t.update /\ u.told = t.told
    BY <1>1, SMT DEF Slot, src, Released
  <1>10. \A i \in Ids : /\ u.src[i] = NoSource <=> t.src[i] = NoSource
                        /\ u.src[i] # NoSource =>
                             u.src[i].count =
                               IF i = id THEN t.src[i].count - 1 ELSE t.src[i].count
    BY <1>4, <1>6, <1>7, <1>9
  <1>11. NoDuplicate(u.list) /\ HeadOK(u) /\ XrouteOK(u) /\ BuffersOK(u)
    BY <1>9 DEF SlotOK, HeadOK, XrouteOK, BuffersOK
  <1>12. SourcesOK(u)
    <2>1. Listed(u) = Listed(t)
      BY <1>9 DEF Listed
    <2> QED
      BY <1>9, <1>10, <2>1, ListedFact, SourceAssumption DEF SourcesOK
  <1> QED
    BY <1>8, <1>9, <1>10, <1>11, <1>12 DEF SlotOK

\* Another head than p stays the head.
LEMMA UnlinkHeadFact ==
  ASSUME NEW list \in Seq(Paths), NEW p \in Paths,
         \E i \in DOMAIN list : list[i] = p, list[1] # p
  PROVE  Unlink(list, p) # << >> /\ Unlink(list, p)[1] = list[1]
  <1> DEFINE n == Len(list)
             x == Position(list, p)
             m == Unlink(list, p)
  <1>1. n \in Nat /\ x \in 1 .. n /\ list[x] = p
    BY PositionFact
  <1>2. m = [j \in 1 .. n - 1 |-> IF j < x THEN list[j] ELSE list[j + 1]]
    BY DEF Unlink
  <1>3. x # 1
    BY <1>1
  <1> HIDE DEF n, x, m
  <1>4. 1 \in 1 .. n - 1 /\ 1 < x
    BY <1>1, <1>3
  <1>5. m[1] = list[1] /\ DOMAIN m = 1 .. n - 1
    BY <1>2, <1>4
  <1>6. m # << >>
    <2>1. DOMAIN << >> = {}
      OBVIOUS
    <2> QED
      BY <1>4, <1>5, <2>1
  <1> QED
    BY <1>5, <1>6 DEF m

\* An unused route is a route.
LEMMA NoRouteFact ==
  NoRoute \in Route /\ ~NoRoute.installed
  <1>1. (CHOOSE id \in Ids : TRUE) \in Ids
    BY SourceAssumption
  <1>2. 0 \in Seqnos
    BY SeqModAssumption DEF Seqnos
  <1> QED
    BY <1>1, <1>2, BoundsFact DEF NoRoute, Route

\* Taking a route that is not installed out of the list.
LEMMA UnlinkRouteFact ==
  ASSUME NEW t, SlotOK(t), NEW p \in Listed(t), ~t.rt[p].installed
  PROVE  LET u == [t EXCEPT !.list = Unlink(t.list, p), !.rt[p] = NoRoute]
         IN  /\ SlotOK(u) /\ Listed(u) = Listed(t) \ {p} /\ u.src = t.src
             /\ \A q \in Paths \ {p} : u.rt[q] = t.rt[q]
             /\ u.xroute = t.xroute /\ u.self = t.self /\ u.up = t.up
  <1> DEFINE m == Unlink(t.list, p)
             rt == [t.rt EXCEPT ![p] = NoRoute]
             u == [t EXCEPT !.list = Unlink(t.list, p), !.rt[p] = NoRoute]
  <1>1. /\ t \in Slot /\ NoDuplicate(t.list) /\ HeadOK(t) /\ SourcesOK(t)
        /\ BuffersOK(t) /\ XrouteOK(t)
    BY DEF SlotOK
  <1>2. p \in Paths /\ t.list \in Seq(Paths) /\ \E i \in DOMAIN t.list : t.list[i] = p
    BY <1>1, SlotFact DEF Listed
  <1>3. /\ m \in Seq(Paths) /\ NoDuplicate(m)
        /\ {m[i] : i \in DOMAIN m} = {t.list[i] : i \in DOMAIN t.list} \ {p}
    BY <1>1, <1>2, UnlinkFact
  <1>4. t.list[1] # p => m # << >> /\ m[1] = t.list[1]
    BY <1>2, UnlinkHeadFact
  <1>5. rt \in [Paths -> Route]
        /\ \A q \in Paths : rt[q] = IF q = p THEN NoRoute ELSE t.rt[q]
    BY <1>1, <1>2, SlotFact, NoRouteFact
  <1>6. u = [t EXCEPT !.list = m, !.rt = rt]
    BY <1>1 DEF Slot
  <1> HIDE DEF m, rt, u
  <1>7. u \in Slot
    BY <1>1, <1>3, <1>5, <1>6, Zenon DEF Slot
  <1>8. /\ u.list = m /\ u.rt = rt /\ u.src = t.src
        /\ u.xroute = t.xroute /\ u.self = t.self
        /\ u.up = t.up /\ u.update = t.update /\ u.told = t.told
    BY <1>1, <1>6, SMT DEF Slot
  <1>9. Listed(u) = Listed(t) \ {p}
    BY <1>3, <1>8 DEF Listed
  <1>10. \A q \in Paths : u.rt[q].installed => q # p /\ t.rt[q].installed
    BY <1>5, <1>8, NoRouteFact
  <1>11. HeadOK(u) /\ XrouteOK(u)
    BY <1>1, <1>4, <1>8, <1>10 DEF HeadOK, XrouteOK
  <1>12. SourcesOK(u) /\ BuffersOK(u)
    BY <1>1, <1>5, <1>8, <1>9, ListedFact DEF SourcesOK, BuffersOK
  <1>13. SlotOK(u)
    BY <1>3, <1>7, <1>8, <1>11, <1>12 DEF SlotOK
  <1>14. \A q \in Paths \ {p} : u.rt[q] = t.rt[q]
    BY <1>5, <1>8
  <1> QED
    BY <1>8, <1>9, <1>13, <1>14 DEF u

\* flush_route, of a route of the list.
LEMMA FlushRouteFact ==
  ASSUME NEW t, SlotOK(t), RefsOK(t), NEW p \in Listed(t), NEW k
  PROVE  LET u == flush_route(t, p, k)
         IN  /\ SlotOK(u) /\ RefsOK(u) /\ Listed(u) = Listed(t) \ {p}
             /\ u.xroute = t.xroute /\ u.self = t.self /\ u.up = t.up
  <1> DEFINE r == t.rt[p]
             u == uninstall_route(t, p)
             v == [u EXCEPT !.list = Unlink(u.list, p), !.rt[p] = NoRoute]
             w == IF r.installed THEN route_lost(v, r.id, route_metric(r), k) ELSE v
             z == Released(w, r.id)
  <1>1. p \in Paths /\ r.id \in Ids /\ t.src[r.id] \in Source
    BY ListedFact
  <1>2. /\ SlotOK(u) /\ SameRefs(t, u) /\ u.list = t.list /\ u.src = t.src
        /\ ~u.rt[p].installed
    BY <1>1, UninstallFact
  <1>3. flush_route(t, p, k) = z
    BY DEF flush_route, Released
  <1>4. p \in Listed(u)
    BY <1>2 DEF SameRefs
  <1> HIDE DEF u
  <1>5. /\ SlotOK(v) /\ Listed(v) = Listed(u) \ {p} /\ v.src = u.src
        /\ \A q \in Paths \ {p} : v.rt[q] = u.rt[q]
        /\ v.xroute = u.xroute /\ v.self = u.self /\ v.up = u.up
    BY <1>2, <1>4, UnlinkRouteFact
  <1> HIDE DEF v
  <1>6. v.src[r.id] # NoSource
    BY <1>1, <1>2, <1>5, SourceAssumption
  <1>7. SlotOK(w) /\ SameRefs(v, w)
    BY <1>1, <1>5, <1>6, RouteLostFact, SameRefsFact
  <1> HIDE DEF w
  <1>8. w.src[r.id] # NoSource
    BY <1>1, <1>6, <1>7 DEF SameRefs
  <1>9. /\ SlotOK(z) /\ z.xroute = w.xroute /\ z.self = w.self /\ z.up = w.up
        /\ z.list = w.list /\ z.rt = w.rt
        /\ \A i \in Ids :
             /\ z.src[i] = NoSource <=> w.src[i] = NoSource
             /\ z.src[i] # NoSource =>
                  z.src[i].count =
                    IF i = r.id THEN w.src[i].count - 1 ELSE w.src[i].count
    BY <1>1, <1>7, <1>8, ReleaseFact
  <1> HIDE DEF z
  <1>10. /\ Listed(z) = Listed(t) \ {p}
         /\ z.xroute = t.xroute /\ z.self = t.self /\ z.up = t.up
    BY <1>2, <1>5, <1>7, <1>9, SMTT(40) DEF SameRefs, Listed
  <1>11. \A q \in Listed(z) : z.rt[q].id = t.rt[q].id
    <2>1. \A q \in Listed(z) : q \in Paths \ {p}
      BY <1>10, ListedFact
    <2> QED
      BY <2>1, <1>2, <1>5, <1>7, <1>9 DEF SameRefs
  <1>12. \A id \in Ids : Refs(z, id) = Refs(t, id) \ {p}
    BY <1>10, <1>11 DEF Refs
  <1>13. RefsOK(z)
    <2> SUFFICES ASSUME NEW id \in Ids, z.src[id] # NoSource
                 PROVE  z.src[id].count = Cardinality(Refs(z, id))
      BY DEF RefsOK
    <2>1. t.src[id] # NoSource /\ w.src[id].count = t.src[id].count
      BY <1>2, <1>5, <1>7, <1>9 DEF SameRefs
    <2>2. t.src[id].count = Cardinality(Refs(t, id))
      BY <2>1 DEF RefsOK
    <2>3. Refs(t, id) \subseteq Paths
      BY ListedFact DEF Refs
    <2>4. IsFiniteSet(Refs(t, id))
      BY <2>3, PathAssumption, FS_Subset
    <2>5. p \in Refs(t, id) <=> id = r.id
      BY DEF Refs
    <2>6. Cardinality(Refs(z, id)) =
            IF id = r.id THEN Cardinality(Refs(t, id)) - 1
                         ELSE Cardinality(Refs(t, id))
      BY <1>12, <2>4, <2>5, FS_RemoveElement
    <2> QED
      BY <1>9, <2>1, <2>2, <2>6
  <1> QED
    BY <1>3, <1>9, <1>10, <1>13

\* retain_source counts one more reference.
LEMMA RetainFact ==
  ASSUME NEW src \in [Ids -> Source \cup {NoSource}], NEW id \in Ids,
         src[id] # NoSource
  PROVE  LET new == retain_source(src, id)
         IN  /\ new \in [Ids -> Source \cup {NoSource}]
             /\ \A i \in Ids :
                  /\ new[i] = NoSource <=> src[i] = NoSource
                  /\ new[i] # NoSource =>
                       new[i].count =
                         IF i = id THEN src[i].count + 1 ELSE src[i].count
  <1> DEFINE s == [src[id] EXCEPT !.count = @ + 1]
             new == retain_source(src, id)
  <1>1. src[id] \in Source
    OBVIOUS
  <1>2. src[id].count \in Int
    BY <1>1 DEF Source
  <1>3. src[id].count + 1 \in Int
    BY <1>2
  <1>4. s \in Source /\ s.count = src[id].count + 1
    BY <1>1, <1>3 DEF Source
  <1>5. new = [src EXCEPT ![id] = s]
    BY DEF retain_source
  <1>6. s # NoSource
    BY <1>4, SourceAssumption
  <1> HIDE DEF s, new
  <1>7. new \in [Ids -> Source \cup {NoSource}]
        /\ \A i \in Ids : new[i] = IF i = id THEN s ELSE src[i]
    BY <1>4, <1>5
  <1> QED
    BY <1>4, <1>6, <1>7 DEF new

\* The slot with route p replaced by route r, of source id.
Replaced(t, p, id, r) ==
  [t EXCEPT !.src = retain_source(t.src, id), !.rt[p] = r]

\* Replacing a route by one that is installed as it was.
LEMMA ReplaceFact ==
  ASSUME NEW t, SlotOK(t), NEW p \in Listed(t), NEW r \in Route,
         r.installed = t.rt[p].installed, t.src[r.id] # NoSource,
         NEW u, u = Replaced(t, p, r.id, r)
  PROVE  /\ SlotOK(u) /\ Listed(u) = Listed(t)
         /\ u.rt[p] = r /\ \A q \in Paths \ {p} : u.rt[q] = t.rt[q]
         /\ \A i \in Ids : /\ u.src[i] = NoSource <=> t.src[i] = NoSource
                           /\ u.src[i] # NoSource =>
                                u.src[i].count =
                                  IF i = r.id THEN t.src[i].count + 1 ELSE t.src[i].count
         /\ u.xroute = t.xroute /\ u.self = t.self /\ u.up = t.up
  <1> DEFINE src == retain_source(t.src, r.id)
             rt == [t.rt EXCEPT ![p] = r]
  <1>1. /\ t \in Slot /\ NoDuplicate(t.list) /\ HeadOK(t) /\ SourcesOK(t)
        /\ BuffersOK(t) /\ XrouteOK(t)
    BY DEF SlotOK
  <1>2. p \in Paths /\ r.id \in Ids
    BY ListedFact DEF Route
  <1>3. /\ src \in [Ids -> Source \cup {NoSource}]
        /\ \A i \in Ids : /\ src[i] = NoSource <=> t.src[i] = NoSource
                          /\ src[i] # NoSource =>
                               src[i].count =
                                 IF i = r.id THEN t.src[i].count + 1 ELSE t.src[i].count
    BY <1>1, <1>2, SlotFact, RetainFact
  <1>4. rt \in [Paths -> Route] /\ \A q \in Paths : rt[q] = IF q = p THEN r ELSE t.rt[q]
    BY <1>1, <1>2, SlotFact
  <1>5. u = [t EXCEPT !.src = src, !.rt = rt]
    BY <1>1 DEF Replaced, Slot
  <1> HIDE DEF src, rt
  <1>6. u \in Slot
    BY <1>1, <1>3, <1>4, <1>5, Zenon DEF Slot
  <1>7. /\ u.list = t.list /\ u.rt = rt /\ u.src = src
        /\ u.xroute = t.xroute /\ u.self = t.self
        /\ u.up = t.up /\ u.update = t.update /\ u.told = t.told
    BY <1>1, <1>5, SMT DEF Slot
  <1>8. Listed(u) = Listed(t)
    BY <1>7 DEF Listed
  <1>9. \A q \in Paths : u.rt[q].installed = t.rt[q].installed
    BY <1>4, <1>7
  <1>10. NoDuplicate(u.list) /\ HeadOK(u) /\ XrouteOK(u) /\ BuffersOK(u)
    BY <1>1, <1>7, <1>9 DEF HeadOK, XrouteOK, BuffersOK
  <1>11. SourcesOK(u)
    <2> SUFFICES ASSUME NEW q \in Listed(t) PROVE u.src[u.rt[q].id] # NoSource
      BY <1>8 DEF SourcesOK
    <2>1. q \in Paths /\ t.rt[q].id \in Ids /\ t.src[t.rt[q].id] # NoSource
      BY <1>1, ListedFact DEF SourcesOK
    <2> QED
      BY <2>1, <1>2, <1>3, <1>4, <1>7
  <1>12. u.rt[p] = r /\ \A q \in Paths \ {p} : u.rt[q] = t.rt[q]
    BY <1>2, <1>4, <1>7
  <1> QED
    BY <1>3, <1>6, <1>7, <1>8, <1>10, <1>11, <1>12 DEF SlotOK

\* The slot with the new route r, of source id, at path p.
Added(t, p, id, r) ==
  [t EXCEPT !.src = retain_source(t.src, id), !.rt[p] = r,
            !.list = Append(t.list, p)]

\* Appending a path that is not in a list.
LEMMA AppendFact ==
  ASSUME NEW list \in Seq(Paths), NEW p \in Paths, NoDuplicate(list),
         p \notin {list[i] : i \in DOMAIN list}
  PROVE  LET m == Append(list, p)
         IN  /\ m \in Seq(Paths) /\ m # << >> /\ NoDuplicate(m)
             /\ {m[i] : i \in DOMAIN m} = {list[i] : i \in DOMAIN list} \cup {p}
             /\ list # << >> => m[1] = list[1]
  <1> DEFINE n == Len(list)
             m == Append(list, p)
  <1>1. n \in Nat /\ DOMAIN list = 1 .. n /\ (list # << >> => n # 0)
    BY EmptySeq
  <1>2. m \in Seq(Paths) /\ DOMAIN m = 1 .. n + 1 /\ m[n + 1] = p
        /\ \A i \in 1 .. n : m[i] = list[i]
    BY <1>1
  <1>3. m # << >>
    <2>1. DOMAIN << >> = {}
      OBVIOUS
    <2> QED
      BY <1>1, <1>2, <2>1
  <1>4. \A i \in 1 .. n : list[i] # p
    BY <1>1
  <1> HIDE DEF n, m
  <1>5. NoDuplicate(m)
    BY <1>1, <1>2, <1>4 DEF NoDuplicate
  <1>6. {m[i] : i \in DOMAIN m} = {list[i] : i \in DOMAIN list} \cup {p}
    <2>1. \A i \in 1 .. n + 1 : i \in 1 .. n \/ i = n + 1
      BY <1>1
    <2>2. 1 .. n \subseteq 1 .. n + 1 /\ n + 1 \in 1 .. n + 1
      BY <1>1
    <2> QED
      BY <1>1, <1>2, <2>1, <2>2
  <1>7. list # << >> => m[1] = list[1]
    BY <1>1, <1>2
  <1> QED
    BY <1>2, <1>3, <1>5, <1>6, <1>7 DEF m

\* Adding a route that is not installed.
LEMMA AddFact ==
  ASSUME NEW t, SlotOK(t), NEW p \in Paths, p \notin Listed(t), NEW r \in Route,
         ~r.installed, t.src[r.id] # NoSource,
         NEW u, u = Added(t, p, r.id, r)
  PROVE  /\ SlotOK(u) /\ Listed(u) = Listed(t) \cup {p}
         /\ u.rt[p] = r /\ \A q \in Paths \ {p} : u.rt[q] = t.rt[q]
         /\ \A i \in Ids : /\ u.src[i] = NoSource <=> t.src[i] = NoSource
                           /\ u.src[i] # NoSource =>
                                u.src[i].count =
                                  IF i = r.id THEN t.src[i].count + 1 ELSE t.src[i].count
         /\ u.xroute = t.xroute /\ u.self = t.self /\ u.up = t.up
  <1> DEFINE src == retain_source(t.src, r.id)
             rt == [t.rt EXCEPT ![p] = r]
             m == Append(t.list, p)
  <1>1. /\ t \in Slot /\ NoDuplicate(t.list) /\ HeadOK(t) /\ SourcesOK(t)
        /\ BuffersOK(t) /\ XrouteOK(t)
    BY DEF SlotOK
  <1>2. r.id \in Ids
    BY DEF Route
  <1>3. /\ src \in [Ids -> Source \cup {NoSource}]
        /\ \A i \in Ids : /\ src[i] = NoSource <=> t.src[i] = NoSource
                          /\ src[i] # NoSource =>
                               src[i].count =
                                 IF i = r.id THEN t.src[i].count + 1 ELSE t.src[i].count
    BY <1>1, <1>2, SlotFact, RetainFact
  <1>4. rt \in [Paths -> Route] /\ \A q \in Paths : rt[q] = IF q = p THEN r ELSE t.rt[q]
    BY <1>1, SlotFact
  <1>5. /\ m \in Seq(Paths) /\ m # << >> /\ NoDuplicate(m)
        /\ {m[i] : i \in DOMAIN m} = Listed(t) \cup {p}
        /\ t.list # << >> => m[1] = t.list[1]
    BY <1>1, SlotFact, AppendFact DEF Listed
  <1>6. u = [t EXCEPT !.src = src, !.rt = rt, !.list = m]
    BY <1>1 DEF Added, Slot
  <1> HIDE DEF src, rt, m
  <1>7. u \in Slot
    BY <1>1, <1>3, <1>4, <1>5, <1>6, Zenon DEF Slot
  <1>8. /\ u.list = m /\ u.rt = rt /\ u.src = src
        /\ u.xroute = t.xroute /\ u.self = t.self
        /\ u.up = t.up /\ u.update = t.update /\ u.told = t.told
    BY <1>1, <1>6, SMT DEF Slot
  <1>9. Listed(u) = Listed(t) \cup {p}
    BY <1>5, <1>8 DEF Listed
  <1>10. \A q \in Paths : u.rt[q].installed => t.rt[q].installed
    BY <1>4, <1>8
  <1>11. NoDuplicate(u.list) /\ HeadOK(u) /\ XrouteOK(u) /\ BuffersOK(u)
    BY <1>1, <1>5, <1>8, <1>10 DEF HeadOK, XrouteOK, BuffersOK
  <1>12. SourcesOK(u)
    <2> SUFFICES ASSUME NEW q \in Listed(t) \cup {p} PROVE u.src[u.rt[q].id] # NoSource
      BY <1>9 DEF SourcesOK
    <2>1. q # p => q \in Paths /\ t.rt[q].id \in Ids /\ t.src[t.rt[q].id] # NoSource
      BY <1>1, ListedFact DEF SourcesOK
    <2> QED
      BY <2>1, <1>2, <1>3, <1>4, <1>8
  <1>13. u.rt[p] = r /\ \A q \in Paths \ {p} : u.rt[q] = t.rt[q]
    BY <1>4, <1>8
  <1> QED
    BY <1>3, <1>7, <1>8, <1>9, <1>11, <1>12, <1>13 DEF SlotOK

\* What an operation on the slot keeps besides: our own routes, our identity and
\* the interfaces.
SameEnv(t, u) == u.xroute = t.xroute /\ u.self = t.self /\ u.up = t.up

\* One reference moves from source old to source new, with route p.
LEMMA MovedRefFact ==
  ASSUME NEW t, SlotOK(t), RefsOK(t), NEW p \in Listed(t), NEW new \in Ids, NEW u,
         Listed(u) = Listed(t), u.rt[p].id = new,
         \A q \in Listed(t) \ {p} : u.rt[q].id = t.rt[q].id,
         \A i \in Ids :
           /\ u.src[i] = NoSource <=> t.src[i] = NoSource
           /\ u.src[i] # NoSource =>
                u.src[i].count = t.src[i].count + (IF i = new THEN 1 ELSE 0)
                                 - (IF i = t.rt[p].id THEN 1 ELSE 0)
  PROVE  RefsOK(u)
  <1> SUFFICES ASSUME NEW id \in Ids, u.src[id] # NoSource
               PROVE  u.src[id].count = Cardinality(Refs(u, id))
    BY DEF RefsOK
  <1> DEFINE old == t.rt[p].id
             S == Refs(t, id)
  <1>1. t.src[id].count = Cardinality(S)
    BY DEF RefsOK
  <1>2. S \subseteq Paths
    BY ListedFact DEF Refs
  <1>3. IsFiniteSet(S)
    BY <1>2, PathAssumption, FS_Subset
  <1>4. Cardinality(S) \in Nat
    BY <1>3, FS_CardinalityType
  <1>5. p \in S <=> id = old
    BY DEF Refs
  <1>6. Refs(u, id) = IF id = new THEN S \cup {p} ELSE S \ {p}
    BY DEF Refs
  <1> HIDE DEF S, old
  <1>7. Cardinality(S \cup {p}) = IF id = old THEN Cardinality(S) ELSE Cardinality(S) + 1
    BY <1>3, <1>5, FS_AddElement
  <1>8. Cardinality(S \ {p}) = IF id = old THEN Cardinality(S) - 1 ELSE Cardinality(S)
    BY <1>3, <1>5, FS_RemoveElement
  <1>9. u.src[id].count = t.src[id].count + (IF id = new THEN 1 ELSE 0)
                          - (IF id = old THEN 1 ELSE 0)
    BY DEF old
  <1>10. CASE id = new
    BY <1>1, <1>4, <1>6, <1>7, <1>9, <1>10
  <1>11. CASE id # new
    BY <1>1, <1>4, <1>6, <1>8, <1>9, <1>11
  <1> QED
    BY <1>10, <1>11

\* An update for a route of the list moves its reference to the new source.
LEMMA UpdateKnownFact ==
  ASSUME NEW t, SlotOK(t), RefsOK(t), NEW p \in Listed(t), NEW a \in Update,
         t.src[a.id] # NoSource, NEW cost \in Metric, NEW k
  PROVE  LET u == UpdateKnownRoute(t, p, a, cost, k)
         IN  SlotOK(u) /\ RefsOK(u) /\ Listed(u) = Listed(t) /\ SameEnv(t, u)
  <1> DEFINE r == t.rt[p]
             oldmetric == route_metric(r)
             feasible == update_feasible(t.src[a.id], a.seqno, a.metric)
             lost == ~feasible /\ r.installed /\ a.id # r.id
             refreshed == (feasible \/ keep_unfeasible) /\ a.metric < INFINITY
             t1 == IF lost THEN uninstall_route(t, p) ELSE t
             age == IF refreshed THEN 0 ELSE r.age
             r2 == [t1.rt[p] EXCEPT !.id = a.id, !.seqno = a.seqno, !.age = age]
             t2 == Replaced(t1, p, a.id, r2)
             t3 == change_route_metric(t2, p, a.metric, cost, AddMetric[p], k)
             t4 == route_changed(t3, p, r.id, oldmetric, k)
             t5 == IF lost THEN route_lost(t4, r.id, oldmetric, k) ELSE t4
             ask == send_unfeasible_request(
                      t5, NeighOf[p], t5.rt[p].installed /\ route_old(t5.rt[p]),
                      a.seqno, MIN(a.metric + cost + AddMetric[p], INFINITY), a.id)
             t6 == IF feasible THEN t5 ELSE ask
             u == Released(t6, r.id)
  <1>1. /\ p \in Paths /\ r \in Route /\ r.id \in Ids /\ t.src[r.id] # NoSource
        /\ t \in Slot
    BY ListedFact, SourceAssumption
  <1>2. a.id \in Ids /\ a.seqno \in Seqnos /\ a.metric \in Metric
    BY DEF Update
  <1>3. SlotOK(t1) /\ SameRefs(t, t1)
    BY <1>1, UninstallFact, SameRefsFact
  <1>4. p \in Listed(t1) /\ t1.rt[p] \in Route /\ t1.src[a.id] # NoSource
    BY <1>2, <1>3, ListedFact DEF SameRefs
  <1>5. age \in 0 .. MaxAge
    BY <1>1, BoundsFact DEF Route
  <1>6. r2 \in Route
    <2> HIDE DEF age, t1
    <2> QED
      BY <1>2, <1>4, <1>5, Zenon DEF Route
  <1>7. r2.id = a.id /\ r2.installed = t1.rt[p].installed
    <2> HIDE DEF age, t1
    <2> QED
      BY <1>4, SMT DEF Route
  <1>8. UpdateKnownRoute(t, p, a, cost, k) = u
    BY DEF UpdateKnownRoute, Replaced, Released
  <1> HIDE DEF t1, r2, age
  <1>9. /\ SlotOK(t2) /\ Listed(t2) = Listed(t1)
        /\ t2.rt[p] = r2 /\ \A q \in Paths \ {p} : t2.rt[q] = t1.rt[q]
        /\ \A i \in Ids : /\ t2.src[i] = NoSource <=> t1.src[i] = NoSource
                          /\ t2.src[i] # NoSource =>
                               t2.src[i].count =
                                 IF i = a.id THEN t1.src[i].count + 1 ELSE t1.src[i].count
        /\ t2.xroute = t1.xroute /\ t2.self = t1.self /\ t2.up = t1.up
    BY <1>3, <1>4, <1>6, <1>7, ReplaceFact
  <1> HIDE DEF t2
  <1>10. SlotOK(t3) /\ SameRefs(t2, t3)
    <2>1. AddMetric[p] \in Metric
      BY <1>1, MetricAssumption
    <2> QED
      BY <1>1, <1>2, <1>9, <2>1, ChangeMetricFact
  <1> HIDE DEF t3
  <1>11. p \in Listed(t3)
    BY <1>4, <1>9, <1>10 DEF SameRefs
  <1>12. SlotOK(t4) /\ SameRefs(t2, t4)
    BY <1>10, <1>11, RouteChangedFact, SameRefsFact
  <1> HIDE DEF t4
  <1>13. t4.src[r.id] # NoSource
    BY <1>1, <1>3, <1>9, <1>12 DEF SameRefs
  <1>14. SlotOK(t5) /\ SameRefs(t2, t5)
    BY <1>1, <1>12, <1>13, RouteLostFact, SameRefsFact
  <1> HIDE DEF t5
  <1>15. t5.src[a.id] # NoSource
    BY <1>2, <1>4, <1>9, <1>14 DEF SameRefs
  <1>16. SlotOK(ask) /\ SameRefs(t5, ask)
    <2>1. NeighOf[p] \in Neighs
      BY <1>1, PathAssumption
    <2> QED
      BY <1>2, <1>14, <1>15, <2>1, UnfeasibleRequestFact
  <1>17. SlotOK(t6) /\ SameRefs(t2, t6)
    <2> HIDE DEF ask, feasible
    <2> QED
      BY <1>14, <1>16, SameRefsFact
  <1> HIDE DEF t6
  <1>18. t6.src[r.id] # NoSource
    BY <1>1, <1>3, <1>9, <1>17 DEF SameRefs
  <1>19. /\ SlotOK(u) /\ u.xroute = t6.xroute /\ u.self = t6.self /\ u.up = t6.up
         /\ u.list = t6.list /\ u.rt = t6.rt
         /\ \A i \in Ids :
              /\ u.src[i] = NoSource <=> t6.src[i] = NoSource
              /\ u.src[i] # NoSource =>
                   u.src[i].count =
                     IF i = r.id THEN t6.src[i].count - 1 ELSE t6.src[i].count
    BY <1>1, <1>17, <1>18, ReleaseFact
  <1> HIDE DEF u
  <1>20. Listed(u) = Listed(t) /\ SameEnv(t, u)
    <2>1. Listed(u) = Listed(t6)
      BY <1>19 DEF Listed
    <2>2. Listed(t6) = Listed(t2) /\ Listed(t1) = Listed(t)
      BY <1>3, <1>17 DEF SameRefs
    <2>3. SameEnv(t, t1) /\ SameEnv(t2, t6)
      BY <1>3, <1>17 DEF SameRefs, SameEnv
    <2> QED
      BY <1>9, <1>19, <2>1, <2>2, <2>3 DEF SameEnv
  <1>21. u.rt[p].id = a.id /\ \A q \in Listed(t) \ {p} : u.rt[q].id = t.rt[q].id
    <2>1. \A q \in Listed(t) : q \in Paths
      BY ListedFact
    <2>2. \A q \in Paths : u.rt[q].id = t2.rt[q].id /\ t1.rt[q].id = t.rt[q].id
      BY <1>3, <1>17, <1>19 DEF SameRefs
    <2> QED
      BY <1>1, <1>7, <1>9, <2>1, <2>2
  <1>22. ASSUME NEW i \in Ids
         PROVE  /\ u.src[i] = NoSource <=> t.src[i] = NoSource
                /\ u.src[i] # NoSource =>
                     u.src[i].count = t.src[i].count + (IF i = a.id THEN 1 ELSE 0)
                                      - (IF i = r.id THEN 1 ELSE 0)
    <2>1. u.src[i] = NoSource <=> t.src[i] = NoSource
      BY <1>3, <1>9, <1>17, <1>19 DEF SameRefs
    <2>2. CASE u.src[i] # NoSource
      <3>1. t.src[i] \in Source
        BY <1>1, <2>1, <2>2, SlotFact
      <3>2. t.src[i].count \in Int
        BY <3>1 DEF Source
      <3>3. t1.src[i].count = t.src[i].count /\ t6.src[i].count = t2.src[i].count
        BY <1>3, <1>9, <1>17, <1>19, <2>2 DEF SameRefs
      <3>4. t2.src[i].count = IF i = a.id THEN t.src[i].count + 1 ELSE t.src[i].count
        BY <1>9, <1>17, <1>19, <2>2, <3>3 DEF SameRefs
      <3>5. u.src[i].count = IF i = r.id THEN t2.src[i].count - 1 ELSE t2.src[i].count
        BY <1>19, <2>2, <3>3
      <3> QED
        BY <2>1, <3>2, <3>4, <3>5
    <2> QED
      BY <2>1, <2>2
  <1>23. RefsOK(u)
    BY <1>2, <1>20, <1>21, <1>22, MovedRefFact
  <1> QED
    BY <1>8, <1>19, <1>20, <1>23

\* An update for a route that is not in the list may add it, with a reference.
LEMMA UpdateNewFact ==
  ASSUME NEW t, SlotOK(t), RefsOK(t), NEW p \in Paths, p \notin Listed(t),
         NEW a \in Update, t.src[a.id] # NoSource, NEW cost \in Metric, NEW k
  PROVE  LET u == UpdateNewRoute(t, p, a, cost, k)
         IN  SlotOK(u) /\ RefsOK(u) /\ SameEnv(t, u)
  <1> DEFINE feasible == update_feasible(t.src[a.id], a.seqno, a.metric)
             metric == MIN(a.metric + cost + AddMetric[p], INFINITY)
             ask == send_unfeasible_request(
                      t, NeighOf[p], FALSE, a.seqno, metric, a.id)
             t1 == IF feasible THEN t ELSE ask
             r == [id |-> a.id, seqno |-> a.seqno, refmetric |-> a.metric,
                   cost |-> cost, add |-> AddMetric[p],
                   smoothed |-> Kept(MAX(metric, INFINITY \div 2)),
                   age |-> 0, installed |-> FALSE]
             t2 == Added(t1, p, a.id, r)
             u == consider_route(t2, p, k)
  <1>1. a.id \in Ids /\ a.seqno \in Seqnos /\ a.metric \in Metric
        /\ AddMetric[p] \in Metric /\ NeighOf[p] \in Neighs
    BY MetricAssumption, PathAssumption DEF Update
  <1>2. SlotOK(ask) /\ SameRefs(t, ask)
    BY <1>1, UnfeasibleRequestFact
  <1>3. UpdateNewRoute(t, p, a, cost, k) \in {t, t1, u}
    BY DEF UpdateNewRoute, Added
  <1>4. metric \in Metric
    BY <1>1, SumFact
  <1> HIDE DEF ask, metric
  <1>5. Kept(MAX(metric, INFINITY \div 2)) \in Metric
    BY <1>4, BoundsFact DEF Kept
  <1>6. r \in Route
    BY <1>1, <1>5, BoundsFact DEF Route
  <1>7. r.id = a.id /\ ~r.installed
    OBVIOUS
  <1> HIDE DEF feasible, r
  <1>8. SlotOK(t1) /\ SameRefs(t, t1)
    BY <1>2, SameRefsFact
  <1>9. RefsOK(t1) /\ SameEnv(t, t1)
    BY <1>8, SameRefsOK DEF SameRefs, SameEnv
  <1>10. p \notin Listed(t1) /\ t1.src[a.id] # NoSource
    BY <1>1, <1>8 DEF SameRefs
  <1> HIDE DEF t1
  <1>11. /\ SlotOK(t2) /\ Listed(t2) = Listed(t1) \cup {p}
         /\ t2.rt[p] = r /\ \A q \in Paths \ {p} : t2.rt[q] = t1.rt[q]
         /\ \A i \in Ids : /\ t2.src[i] = NoSource <=> t1.src[i] = NoSource
                           /\ t2.src[i] # NoSource =>
                                t2.src[i].count =
                                  IF i = a.id THEN t1.src[i].count + 1
                                              ELSE t1.src[i].count
         /\ t2.xroute = t1.xroute /\ t2.self = t1.self /\ t2.up = t1.up
    BY <1>6, <1>7, <1>8, <1>10, AddFact
  <1> HIDE DEF t2
  <1>12. RefsOK(t2)
    <2> SUFFICES ASSUME NEW id \in Ids, t2.src[id] # NoSource
                 PROVE  t2.src[id].count = Cardinality(Refs(t2, id))
      BY DEF RefsOK
    <2>1. t1.src[id].count = Cardinality(Refs(t1, id))
      BY <1>9, <1>11 DEF RefsOK
    <2>2. \A q \in Listed(t1) : q \in Paths \ {p}
      BY <1>8, <1>10, ListedFact
    <2>3. IsFiniteSet(Refs(t1, id))
      <3>1. Refs(t1, id) \subseteq Paths
        BY <2>2 DEF Refs
      <3> QED
        BY <3>1, PathAssumption, FS_Subset
    <2>4. p \notin Refs(t1, id)
      BY <1>10 DEF Refs
    <2>5. Refs(t2, id) = IF id = a.id THEN Refs(t1, id) \cup {p} ELSE Refs(t1, id)
      BY <1>7, <1>11, <2>2 DEF Refs
    <2>6. Cardinality(Refs(t1, id) \cup {p}) = Cardinality(Refs(t1, id)) + 1
      BY <2>3, <2>4, FS_AddElement
    <2> QED
      BY <1>11, <2>1, <2>5, <2>6
  <1>13. SlotOK(u) /\ SameRefs(t2, u)
    BY <1>11, ConsiderFact
  <1> HIDE DEF u
  <1>14. RefsOK(u) /\ SameEnv(t, u)
    <2>1. SameEnv(t2, u)
      BY <1>13 DEF SameRefs, SameEnv
    <2> QED
      BY <1>9, <1>11, <1>12, <1>13, <2>1, SameRefsOK DEF SameEnv
  <1>15. SameEnv(t, t)
    BY DEF SameEnv
  <1> QED
    BY <1>3, <1>8, <1>9, <1>13, <1>14, <1>15

\* find_source may add a source that no route refers to.
LEMMA FindSourceFact ==
  ASSUME NEW t, SlotOK(t), RefsOK(t), NEW id \in Ids, NEW seqno \in Seqnos
  PROVE  LET u == [t EXCEPT !.src = find_source(t.src, id, seqno)]
         IN  /\ SlotOK(u) /\ RefsOK(u) /\ SameEnv(t, u) /\ Listed(u) = Listed(t)
             /\ u.src[id] # NoSource
  <1> DEFINE s == [seqno |-> seqno, metric |-> INFINITY, age |-> 0, count |-> 0]
             src == find_source(t.src, id, seqno)
             u == [t EXCEPT !.src = find_source(t.src, id, seqno)]
  <1>1. /\ t \in Slot /\ NoDuplicate(t.list) /\ HeadOK(t) /\ SourcesOK(t)
        /\ BuffersOK(t) /\ XrouteOK(t) /\ t.src \in [Ids -> Source \cup {NoSource}]
    BY SlotFact DEF SlotOK
  <1>2. s \in Source
    BY BoundsFact DEF Source
  <1>3. s # NoSource /\ s.count = 0
    BY <1>2, SourceAssumption
  <1>4. src = IF t.src[id] # NoSource THEN t.src ELSE [t.src EXCEPT ![id] = s]
    BY DEF find_source
  <1>5. u = [t EXCEPT !.src = src]
    OBVIOUS
  <1> HIDE DEF s, src, u
  <1>6. src \in [Ids -> Source \cup {NoSource}] /\ src[id] # NoSource
        /\ \A i \in Ids : src[i] = t.src[i]
                          \/ (i = id /\ t.src[i] = NoSource /\ src[i] = s)
    BY <1>1, <1>2, <1>3, <1>4
  <1>7. u \in Slot
    BY <1>1, <1>5, <1>6, Zenon DEF Slot
  <1>8. /\ u.list = t.list /\ u.rt = t.rt /\ u.src = src
        /\ u.xroute = t.xroute /\ u.self = t.self
        /\ u.up = t.up /\ u.update = t.update /\ u.told = t.told
    BY <1>1, <1>5, SMT DEF Slot
  <1>9. Listed(u) = Listed(t) /\ SameEnv(t, u)
    BY <1>8 DEF Listed, SameEnv
  <1>10. NoDuplicate(u.list) /\ HeadOK(u) /\ XrouteOK(u) /\ BuffersOK(u)
    BY <1>1, <1>8 DEF HeadOK, XrouteOK, BuffersOK
  <1>11. SourcesOK(u)
    <2>1. \A p \in Listed(t) : t.rt[p].id \in Ids /\ t.src[t.rt[p].id] # NoSource
      BY <1>1, ListedFact DEF SourcesOK
    <2> QED
      BY <1>3, <1>6, <1>8, <1>9, <2>1 DEF SourcesOK
  <1>12. RefsOK(u)
    <2> SUFFICES ASSUME NEW i \in Ids, u.src[i] # NoSource
                 PROVE  u.src[i].count = Cardinality(Refs(u, i))
      BY DEF RefsOK
    <2>1. Refs(u, i) = Refs(t, i)
      BY <1>8, <1>9 DEF Refs
    <2>2. CASE src[i] = t.src[i]
      BY <1>8, <2>1, <2>2 DEF RefsOK
    <2>3. CASE t.src[i] = NoSource /\ src[i] = s
      <3>1. Refs(t, i) = {}
        BY <1>1, <2>3 DEF Refs, SourcesOK
      <3> QED
        BY <1>3, <1>8, <2>1, <2>3, <3>1, FS_EmptySet
    <2> QED
      BY <1>6, <2>2, <2>3
  <1>13. SlotOK(u)
    BY <1>7, <1>10, <1>11 DEF SlotOK
  <1> QED
    BY <1>6, <1>8, <1>9, <1>12, <1>13 DEF u

\* update_route.
LEMMA UpdateRouteFact ==
  ASSUME NEW t, SlotOK(t), RefsOK(t), NEW p \in Paths, NEW a \in Update,
         NEW cost \in Metric, NEW k
  PROVE  LET u == update_route(t, p, a, cost, k)
         IN  SlotOK(u) /\ RefsOK(u) /\ SameEnv(t, u)
  <1> DEFINE t1 == [t EXCEPT !.src = find_source(t.src, a.id, a.seqno)]
             known == UpdateKnownRoute(t1, p, a, cost, k)
             new == UpdateNewRoute(t1, p, a, cost, k)
  <1>1. update_route(t, p, a, cost, k) \in
          {t} \cup {u \in {known} : p \in Listed(t)} \cup {u \in {new} : p \notin Listed(t)}
    BY DEF update_route
  <1>2. a.id \in Ids /\ a.seqno \in Seqnos
    BY DEF Update
  <1>3. /\ SlotOK(t1) /\ RefsOK(t1) /\ SameEnv(t, t1) /\ Listed(t1) = Listed(t)
        /\ t1.src[a.id] # NoSource
    BY <1>2, FindSourceFact
  <1> HIDE DEF t1
  <1>4. p \in Listed(t) => SlotOK(known) /\ RefsOK(known) /\ SameEnv(t1, known)
    BY <1>3, UpdateKnownFact
  <1>5. p \notin Listed(t) => SlotOK(new) /\ RefsOK(new) /\ SameEnv(t1, new)
    BY <1>3, UpdateNewFact
  <1> HIDE DEF known, new
  <1> QED
    BY <1>1, <1>3, <1>4, <1>5 DEF SameEnv

-----------------------------------------------------------------------------
(* Exported routes. *)

\* Our own route appears or disappears, over no installed route.
LEMMA XrouteFact ==
  ASSUME NEW t, SlotOK(t), RefsOK(t), NEW m \in Metric,
         allow_duplicates < 0 /\ m < INFINITY => \A p \in Paths : ~t.rt[p].installed
  PROVE  LET u == [t EXCEPT !.xroute = m]
         IN  /\ SlotOK(u) /\ RefsOK(u) /\ u.list = t.list /\ u.rt = t.rt
             /\ u.self = t.self /\ u.up = t.up /\ u.xroute = m
  <1> DEFINE u == [t EXCEPT !.xroute = m]
  <1>1. /\ t \in Slot /\ NoDuplicate(t.list) /\ HeadOK(t) /\ SourcesOK(t)
        /\ BuffersOK(t)
    BY DEF SlotOK
  <1>2. u \in Slot
    BY <1>1 DEF Slot
  <1>3. /\ u.list = t.list /\ u.rt = t.rt /\ u.src = t.src
        /\ u.xroute = m /\ u.self = t.self
        /\ u.up = t.up /\ u.update = t.update /\ u.told = t.told
    BY <1>1, SMT DEF Slot
  <1> HIDE DEF u
  <1>4. Listed(u) = Listed(t)
    BY <1>3 DEF Listed
  <1>5. HeadOK(u) /\ SourcesOK(u) /\ BuffersOK(u) /\ XrouteOK(u)
    BY <1>1, <1>3, <1>4 DEF HeadOK, SourcesOK, BuffersOK, XrouteOK
  <1>6. RefsOK(u)
    BY <1>3, <1>4 DEF RefsOK, Refs
  <1>7. SlotOK(u)
    BY <1>1, <1>2, <1>3, <1>5 DEF SlotOK
  <1> QED
    BY <1>3, <1>6, <1>7 DEF u

\* The exported route goes: the best route takes its place.
LEMMA FlushXrouteFact ==
  ASSUME NEW t, SlotOK(t), RefsOK(t), NEW k
  PROVE  LET u == FlushXroute(t, k)
         IN  SlotOK(u) /\ RefsOK(u) /\ u.self = t.self /\ u.up = t.up
  <1> DEFINE u == [t EXCEPT !.xroute = INFINITY]
             b == find_best_route(u)
             v == IF b = NoPath THEN u ELSE install_route(u, b, k)
             w == send_update_resend(v, k)
  <1>1. FlushXroute(t, k) = w
    BY DEF FlushXroute
  <1>2. SlotOK(u) /\ RefsOK(u) /\ u.self = t.self /\ u.up = t.up /\ u.xroute = INFINITY
    <2>1. INFINITY \in Metric /\ ~(INFINITY < INFINITY)
      BY BoundsFact, MetricAssumption
    <2> QED
      BY <2>1, XrouteFact
  <1> HIDE DEF u
  <1>3. SlotOK(v) /\ SameRefs(u, v)
    <2>1. CASE b = NoPath
      BY <1>2, <2>1, SameRefsFact
    <2>2. CASE b # NoPath
      <3>1. b \in Listed(u)
        BY <1>2, <2>2, BestFact DEF SlotOK
      <3>2. ~(allow_duplicates < 0 /\ u.xroute < INFINITY)
        BY <1>2, MetricAssumption
      <3> QED
        BY <1>2, <2>2, <3>1, <3>2, InstallFact
    <2> QED
      BY <2>1, <2>2
  <1> HIDE DEF v
  <1>4. SlotOK(w) /\ SameRefs(u, w)
    BY <1>3, SendUpdateFact, SameRefsFact
  <1> HIDE DEF w
  <1>5. RefsOK(w)
    BY <1>2, <1>4, SameRefsOK
  <1>6. w.self = t.self /\ w.up = t.up
    BY <1>2, <1>4 DEF SameRefs
  <1> QED
    BY <1>1, <1>4, <1>5, <1>6

\* Uninstalling a route does not look at our own.
LEMMA UninstallCommutes ==
  ASSUME NEW t \in Slot, NEW p \in Paths, NEW m \in Metric
  PROVE  uninstall_route([t EXCEPT !.xroute = m], p) =
           [uninstall_route(t, p) EXCEPT !.xroute = m]
  BY DEF uninstall_route, Slot

\* Our own route appears: no route stays installed over it.
LEMMA AddXrouteFact ==
  ASSUME NEW t, SlotOK(t), RefsOK(t), NEW m \in Metric, NEW prio, NEW k
  PROVE  LET u == AddXroute(t, m, prio, k)
         IN  SlotOK(u) /\ RefsOK(u) /\ u.self = t.self /\ u.up = t.up
  <1> DEFINE u == [t EXCEPT !.xroute = m]
             p == find_installed_route(t)
             out == uninstall_route(t, p)
             v == [out EXCEPT !.xroute = m]
             Good(w) == SlotOK(w) /\ RefsOK(w) /\ w.self = t.self /\ w.up = t.up
  <1>1. t \in Slot /\ HeadOK(t)
    BY DEF SlotOK
  <1>2. u.list = t.list /\ u.rt = t.rt
    BY <1>1, SMT DEF Slot
  <1>3. find_installed_route(u) = p
    <2> HIDE DEF u
    <2> QED
      BY <1>2 DEF find_installed_route
  <1>4. p # NoPath => p \in Paths /\ t.rt[p].installed
    BY <1>1, InstalledFact
  <1>5. p = NoPath => \A q \in Paths : ~t.rt[q].installed
    BY <1>1, PathAssumption DEF HeadOK, find_installed_route
  <1>6. p # NoPath => uninstall_route(u, p) = v
    BY <1>1, <1>4, UninstallCommutes
  <1>7. AddXroute(t, m, prio, k) \in
          {t} \cup {send_update(w, k) : w \in
                      {w \in {v} : p # NoPath} \cup
                      {w \in {u} : p = NoPath \/ ~(allow_duplicates < 0)}}
    <2> HIDE DEF v, p
    <2> QED
      BY <1>3, <1>6 DEF AddXroute
  <1>8. p # NoPath => Good(v)
    <2> SUFFICES ASSUME p # NoPath PROVE Good(v)
      OBVIOUS
    <2>1. SlotOK(out) /\ SameRefs(t, out) /\ \A q \in Paths : ~out.rt[q].installed
      BY <1>4, UninstallFact
    <2> HIDE DEF out
    <2>2. RefsOK(out) /\ out.self = t.self /\ out.up = t.up
      BY <2>1, SameRefsOK DEF SameRefs
    <2> QED
      BY <2>1, <2>2, XrouteFact
  <1>9. p = NoPath \/ ~(allow_duplicates < 0) => Good(u)
    BY <1>5, XrouteFact
  <1> HIDE DEF u, v, p
  <1>10. ASSUME NEW w, Good(w)
         PROVE  Good(send_update(w, k))
    <2>1. SlotOK(send_update(w, k)) /\ SameRefs(w, send_update(w, k))
      BY <1>10, SendUpdateFact
    <2>2. RefsOK(send_update(w, k))
      BY <1>10, <2>1, SameRefsOK
    <2> QED
      BY <1>10, <2>1, <2>2 DEF SameRefs
  <1>11. Good(t)
    OBVIOUS
  <1> HIDE DEF Good
  <1>12. Good(AddXroute(t, m, prio, k))
    BY <1>7, <1>8, <1>9, <1>10, <1>11
  <1> QED
    BY <1>12 DEF Good

\* check_xroutes.
LEMMA CheckXroutesFact ==
  ASSUME NEW t, SlotOK(t), RefsOK(t), NEW m \in Metric, NEW prio, NEW k
  PROVE  LET u == check_xroutes(t, m, prio, k)
         IN  SlotOK(u) /\ RefsOK(u) /\ u.self = t.self /\ u.up = t.up
  <1> DEFINE u == IF t.xroute < INFINITY /\ m # t.xroute THEN FlushXroute(t, k) ELSE t
  <1>1. SlotOK(u) /\ RefsOK(u) /\ u.self = t.self /\ u.up = t.up
    BY FlushXrouteFact
  <1>2. check_xroutes(t, m, prio, k) \in {u, AddXroute(u, m, prio, k)}
    BY DEF check_xroutes
  <1> HIDE DEF u
  <1> QED
    BY <1>1, <1>2, AddXrouteFact

-----------------------------------------------------------------------------
(* What time and the timers do. *)

\* send_update records nothing.
LEMMA SendUpdateResendFact ==
  ASSUME NEW t, SlotOK(t), NEW k
  PROVE  send_update(t, k).resend = t.resend
  <1> DEFINE u == flushupdates(t, k.full)
  <1>1. t \in Slot
    BY DEF SlotOK
  <1>2. u \in Slot
    BY FlushFact DEF SlotOK
  <1>3. u.resend = t.resend
    BY <1>1, SMT DEF flushupdates, Slot
  <1> HIDE DEF u
  <1>4. [u EXCEPT !.update = u.update \cup t.up].resend = u.resend
    BY <1>2, SMT DEF Slot
  <1> QED
    BY <1>3, <1>4 DEF send_update, u

\* expire_sources frees no source that a route refers to.
LEMMA ExpireSourcesFact ==
  ASSUME NEW t, SlotOK(t), RefsOK(t),
         NEW u, u = [t EXCEPT !.src = expire_sources(t.src)]
  PROVE  SlotOK(u) /\ RefsOK(u) /\ SameEnv(t, u)
  <1> DEFINE src == expire_sources(t.src)
  <1>1. /\ t \in Slot /\ NoDuplicate(t.list) /\ HeadOK(t) /\ SourcesOK(t)
        /\ BuffersOK(t) /\ XrouteOK(t) /\ t.src \in [Ids -> Source \cup {NoSource}]
    BY SlotFact DEF SlotOK
  <1>2. /\ src \in [Ids -> Source \cup {NoSource}]
        /\ \A id \in Ids : \/ src[id] = t.src[id]
                           \/ src[id] = NoSource /\ t.src[id] # NoSource
                              /\ t.src[id].count = 0
    BY <1>1 DEF expire_sources
  <1> HIDE DEF src
  <1>3. u \in Slot
    BY <1>1, <1>2, Zenon DEF Slot, src
  <1>4. /\ u.list = t.list /\ u.rt = t.rt /\ u.src = src
        /\ u.xroute = t.xroute /\ u.self = t.self
        /\ u.up = t.up /\ u.update = t.update /\ u.told = t.told
    BY <1>1, SMT DEF Slot, src
  <1>5. Listed(u) = Listed(t)
    BY <1>4 DEF Listed
  <1>6. NoDuplicate(u.list) /\ HeadOK(u) /\ XrouteOK(u) /\ BuffersOK(u)
    BY <1>1, <1>4 DEF HeadOK, XrouteOK, BuffersOK
  <1>7. SourcesOK(u)
    <2> SUFFICES ASSUME NEW p \in Listed(t), src[t.rt[p].id] = NoSource
                 PROVE  FALSE
      BY <1>4, <1>5 DEF SourcesOK
    <2> DEFINE id == t.rt[p].id
    <2>1. id \in Ids /\ t.src[id] # NoSource
      BY ListedFact, SourceAssumption
    <2>2. t.src[id].count = 0
      BY <1>2, <2>1
    <2>3. Cardinality(Refs(t, id)) = 0
      BY <2>1, <2>2 DEF RefsOK
    <2>4. Refs(t, id) \subseteq Paths
      BY ListedFact DEF Refs
    <2>5. IsFiniteSet(Refs(t, id))
      BY <2>4, PathAssumption, FS_Subset
    <2>6. Refs(t, id) = {}
      BY <2>3, <2>5, FS_EmptySet
    <2> QED
      BY <2>6 DEF Refs
  <1>8. RefsOK(u)
    BY <1>2, <1>4, <1>5 DEF RefsOK, Refs
  <1>9. SlotOK(u) /\ SameEnv(t, u)
    BY <1>3, <1>4, <1>6, <1>7 DEF SlotOK, SameEnv
  <1> QED
    BY <1>8, <1>9

\* Routes and sources that keep their identity, their references and their
\* installed flag.
LEMMA AgedFact ==
  ASSUME NEW t, SlotOK(t), RefsOK(t), NEW rt \in [Paths -> Route],
         NEW src \in [Ids -> Source \cup {NoSource}],
         \A p \in Listed(t) : rt[p].id = t.rt[p].id,
         \A p \in Paths : rt[p].installed => t.rt[p].installed,
         \A id \in Ids : /\ src[id] = NoSource <=> t.src[id] = NoSource
                         /\ src[id] # NoSource => src[id].count = t.src[id].count,
         NEW u \in Slot, u.list = t.list, u.rt = rt, u.src = src,
         u.update = t.update, u.told = t.told, SameEnv(t, u)
  PROVE  SlotOK(u) /\ RefsOK(u)
  <1>1. /\ t \in Slot /\ NoDuplicate(t.list) /\ HeadOK(t) /\ SourcesOK(t)
        /\ BuffersOK(t) /\ XrouteOK(t)
    BY DEF SlotOK
  <1>3. /\ u.list = t.list /\ u.rt = rt /\ u.src = src
        /\ u.xroute = t.xroute /\ u.self = t.self
        /\ u.up = t.up /\ u.update = t.update /\ u.told = t.told
    BY DEF SameEnv
  <1>4. Listed(u) = Listed(t)
    BY <1>3 DEF Listed
  <1>5. NoDuplicate(u.list) /\ HeadOK(u) /\ XrouteOK(u) /\ BuffersOK(u)
    BY <1>1, <1>3 DEF HeadOK, XrouteOK, BuffersOK
  <1>6. \A p \in Listed(t) : t.rt[p].id \in Ids /\ t.src[t.rt[p].id] # NoSource
    BY <1>1, ListedFact DEF SourcesOK
  <1>7. SourcesOK(u)
    BY <1>3, <1>4, <1>6 DEF SourcesOK
  <1>8. \A id \in Ids : Refs(u, id) = Refs(t, id)
    BY <1>3, <1>4 DEF Refs
  <1>9. RefsOK(u)
    BY <1>3, <1>8 DEF RefsOK
  <1>10. SlotOK(u)
    BY <1>5, <1>7 DEF SlotOK
  <1> QED
    BY <1>9, <1>10

\* An interface goes up or down.
LEMMA UpFact ==
  ASSUME NEW t, SlotOK(t), RefsOK(t), NEW u \in Slot, BuffersOK(u),
         u.list = t.list, u.rt = t.rt, u.src = t.src, u.xroute = t.xroute
  PROVE  SlotOK(u) /\ RefsOK(u) /\ Listed(u) = Listed(t)
  <1>1. /\ t \in Slot /\ NoDuplicate(t.list) /\ HeadOK(t) /\ SourcesOK(t)
        /\ XrouteOK(t)
    BY DEF SlotOK
  <1>4. Listed(u) = Listed(t)
    BY DEF Listed
  <1>5. HeadOK(u) /\ XrouteOK(u) /\ SourcesOK(u)
    BY <1>1, <1>4 DEF HeadOK, XrouteOK, SourcesOK
  <1>6. RefsOK(u)
    BY <1>4 DEF RefsOK, Refs
  <1> QED
    BY <1>1, <1>4, <1>5, <1>6 DEF SlotOK

-----------------------------------------------------------------------------
(* What the operations do to feasibility distances, to what is believed of *)
(* the neighbours' routes and to what is sent.                             *)
(*                                                                         *)
(* Sequence numbers live on a circle, where "newer" is no order.  It is    *)
(* one on the numbers of each router-id while they lie within half of the  *)
(* circle: the facts below are relative to W, which gives each router-id   *)
(* a set of numbers on which it is one.                                    *)

\* Newer is transitive on S.
Linear(S) ==
  \A a, b, c \in S :
    seqno_compare(a, b) > 0 /\ seqno_compare(b, c) > 0 => seqno_compare(a, c) > 0

Windows == [Ids -> {S \in SUBSET Seqnos : Linear(S)}]

\* The sequence numbers of usable routes and of sources are in the window of
\* their router-id.
Numbered(t, W) ==
  /\ \A p \in Listed(t) :
       t.rt[p].refmetric < INFINITY => t.rt[p].seqno \in W[t.rt[p].id]
  /\ \A id \in Ids : t.src[id] # NoSource => t.src[id].seqno \in W[id]

Good(t, W) == SlotOK(t) /\ Numbered(t, W)

\* Source s has become s2: it was not forgotten, got no older, and its distance
\* got no worse; a new one is not stale.
Improves(s, s2) ==
  IF s = NoSource THEN s2 = NoSource \/ ~SourceStale(s2)
  ELSE /\ s2 # NoSource
       /\ s2.age <= s.age
       /\ ~SourceStale(s) => AsGood(s2.seqno, s2.metric, s.seqno, s.metric)

\* Update a announces route p, no better than the distance of its source.
Relays(a, t, p) ==
  /\ a.id = t.rt[p].id /\ a.seqno = t.rt[p].seqno
  /\ a.metric < INFINITY =>
       /\ t.rt[p].refmetric < INFINITY
       /\ ~SourceStale(t.src[a.id])
       /\ AsGood(t.src[a.id].seqno, t.src[a.id].metric, a.seqno, a.metric)

\* Update a announces our own route.
Own(a, t) ==
  /\ a.id = t.self.id /\ a.seqno = t.self.seqno
  /\ a.metric < INFINITY => t.xroute < INFINITY

Said(a, t) == Own(a, t) \/ \E p \in Listed(t) : Relays(a, t, p)

\* What is believed of route p: identity, sequence number, metric and age.
SameClaim(t, u, p) ==
  /\ u.rt[p].id = t.rt[p].id /\ u.rt[p].seqno = t.rt[p].seqno
  /\ u.rt[p].refmetric = t.rt[p].refmetric /\ u.rt[p].age = t.rt[p].age

SameClaims(t, u) == \A p \in Paths : SameClaim(t, u, p)

\* What a handler that starts from t and comes to u may have done: distances
\* have improved, what was sent is covered by them, and what was installed was
\* feasible by those at the start.
Result(t, u) ==
  /\ \A id \in Ids : Improves(t.src[id], u.src[id])
  /\ \A s \in u.sent \ t.sent : Said(s.update, u)
  /\ \A p \in Paths : u.rt[p].installed /\ ~t.rt[p].installed =>
       update_feasible(t.src[u.rt[p].id], u.rt[p].seqno, u.rt[p].refmetric)

\* From t, by sending and selecting only.
Step(t, u, W) ==
  Good(u, W) /\ SameRefs(t, u) /\ SameClaims(t, u) /\ Result(t, u)

-----------------------------------------------------------------------------
(* The order of distances. *)

\* An older number's partner is newer, and only equal ones compare as equal.
LEMMA CompareFact ==
  ASSUME NEW a \in Seqnos, NEW b \in Seqnos
  PROVE  /\ seqno_compare(a, b) \in {-1, 0, 1}
         /\ seqno_compare(a, b) = 0 <=> a = b
         /\ seqno_compare(a, b) < 0 => seqno_compare(b, a) > 0
  <1> DEFINE M == SeqMod
  <1>1. a \in Int /\ b \in Int /\ M \in Nat /\ M >= 4
        /\ 0 <= a /\ a < M /\ 0 <= b /\ b < M
    BY SeqModAssumption DEF Seqnos
  <1>2. (b - a) % M = IF b >= a THEN b - a ELSE b - a + M
    BY <1>1
  <1>3. (a - b) % M = IF a >= b THEN a - b ELSE a - b + M
    BY <1>1
  <1>4. M \div 2 \in Nat /\ M = 2 * (M \div 2)
    BY SeqModAssumption
  <1> QED
    BY <1>1, <1>2, <1>3, <1>4 DEF seqno_compare

\* As good as or better is transitive in a window.
LEMMA AsGoodFact ==
  ASSUME NEW S \in SUBSET Seqnos, Linear(S),
         NEW s1 \in S, NEW s2 \in S, NEW s3 \in S,
         NEW m1 \in Nat, NEW m2 \in Nat, NEW m3 \in Nat,
         AsGood(s1, m1, s2, m2), AsGood(s2, m2, s3, m3)
  PROVE  AsGood(s1, m1, s3, m3)
  BY DEF AsGood, Linear

\* Improving twice is improving, in a window.
LEMMA ImprovesFact ==
  ASSUME NEW S \in SUBSET Seqnos, Linear(S),
         NEW s1 \in Source \cup {NoSource}, NEW s2 \in Source \cup {NoSource},
         NEW s3 \in Source \cup {NoSource},
         s1 # NoSource => s1.seqno \in S, s2 # NoSource => s2.seqno \in S,
         s3 # NoSource => s3.seqno \in S,
         Improves(s1, s2), Improves(s2, s3)
  PROVE  Improves(s1, s3)
  <1>0. CASE s1 = NoSource
    <2>1. CASE s2 = NoSource
      BY <1>0, <2>1 DEF Improves
    <2>2. CASE s2 # NoSource
      <3>1. ~SourceStale(s2) /\ s3 # NoSource /\ s3.age <= s2.age
        BY <1>0, <2>2 DEF Improves
      <3>2. s2.age \in Int /\ s3.age \in Int
        BY <2>2, <3>1 DEF Source
      <3>3. ~SourceStale(s3)
        BY <3>1, <3>2, TimeAssumption DEF SourceStale
      <3> QED
        BY <1>0, <3>3 DEF Improves
    <2> QED
      BY <2>1, <2>2
  <1> SUFFICES ASSUME s1 # NoSource
               PROVE  /\ s3 # NoSource
                      /\ s3.age <= s1.age
                      /\ ~SourceStale(s1) => AsGood(s3.seqno, s3.metric, s1.seqno, s1.metric)
    BY <1>0 DEF Improves
  <1>1. s2 # NoSource /\ s2.age <= s1.age
        /\ (~SourceStale(s1) => AsGood(s2.seqno, s2.metric, s1.seqno, s1.metric))
    BY DEF Improves
  <1>2. s3 # NoSource /\ s3.age <= s2.age
        /\ (~SourceStale(s2) => AsGood(s3.seqno, s3.metric, s2.seqno, s2.metric))
    BY <1>1 DEF Improves
  <1>3. /\ s1.age \in Int /\ s2.age \in Int /\ s3.age \in Int
        /\ s1.metric \in Nat /\ s2.metric \in Nat /\ s3.metric \in Nat
    BY <1>1, <1>2, MetricAssumption DEF Source, Metric
  <1>4. ~SourceStale(s1) => ~SourceStale(s2)
    BY <1>1, <1>3, TimeAssumption DEF SourceStale
  <1> QED
    BY <1>1, <1>2, <1>3, <1>4, AsGoodFact

\* update_source improves a source, up to what is announced.
LEMMA UpdateSourceImproves ==
  ASSUME NEW s \in Source, NEW seqno \in Seqnos, NEW metric \in Metric
  PROVE  LET s2 == update_source(s, seqno, metric)
         IN  /\ Improves(s, s2)
             /\ s2.seqno # s.seqno => metric < INFINITY /\ s2.seqno = seqno
             /\ metric < INFINITY =>
                  ~SourceStale(s2) /\ AsGood(s2.seqno, s2.metric, seqno, metric)
  <1> DEFINE u == [s EXCEPT !.seqno = seqno, !.metric = metric, !.age = 0]
             v == [s EXCEPT !.age = 0]
             newer == \/ SourceStale(s)
                      \/ seqno_compare(s.seqno, seqno) < 0
                      \/ s.seqno = seqno /\ s.metric > metric
             s2 == update_source(s, seqno, metric)
  <1>1. s.seqno \in Seqnos /\ s.metric \in Nat /\ s.age \in Nat /\ metric \in Nat
    BY MetricAssumption, TimeAssumption DEF Source, Metric, MaxSourceAge
  <1>2. /\ u.seqno = seqno /\ u.metric = metric /\ u.age = 0
        /\ v.seqno = s.seqno /\ v.metric = s.metric /\ v.age = 0
    BY DEF Source
  <1>3. u \in Source /\ v \in Source
    BY BoundsFact, Zenon DEF Source
  <1>4. s # NoSource /\ u # NoSource /\ v # NoSource
    BY <1>3, SourceAssumption
  <1>5. s2 = IF metric >= INFINITY THEN s ELSE IF newer THEN u ELSE v
    BY DEF update_source
  <1> HIDE DEF u, v, s2
  <1>6. CASE metric >= INFINITY
    <2>1. s2 = s /\ ~(metric < INFINITY)
      BY <1>1, <1>5, <1>6, MetricAssumption
    <2> QED
      BY <1>1, <1>4, <2>1 DEF Improves, AsGood, s2
  <1>7. CASE metric < INFINITY /\ newer
    <2>1. s2 = u /\ ~SourceStale(u)
      BY <1>2, <1>5, <1>7, MetricAssumption, TimeAssumption, <1>1 DEF SourceStale
    <2>2. ~SourceStale(s) => AsGood(u.seqno, u.metric, s.seqno, s.metric)
      BY <1>1, <1>2, <1>7, CompareFact DEF AsGood
    <2> QED
      BY <1>1, <1>2, <1>4, <1>7, <2>1, <2>2 DEF Improves, AsGood, s2
  <1>8. CASE metric < INFINITY /\ ~newer
    <2>1. s2 = v /\ ~SourceStale(v)
      BY <1>2, <1>5, <1>8, MetricAssumption, TimeAssumption, <1>1 DEF SourceStale
    <2>2. AsGood(v.seqno, v.metric, seqno, metric)
      BY <1>1, <1>2, <1>8, CompareFact DEF AsGood
    <2>3. Improves(s, v)
      BY <1>1, <1>2, <1>4 DEF Improves, AsGood
    <2> QED
      BY <1>2, <2>1, <2>2, <2>3 DEF s2
  <1> QED
    BY <1>1, <1>6, <1>7, <1>8, MetricAssumption

\* What is feasible by a distance is feasible by the worse one before it.
LEMMA FeasibleFact ==
  ASSUME NEW S \in SUBSET Seqnos, Linear(S),
         NEW s \in Source \cup {NoSource}, NEW s2 \in Source \cup {NoSource},
         s # NoSource => s.seqno \in S, s2 # NoSource => s2.seqno \in S,
         Improves(s, s2), NEW seqno \in Seqnos, NEW metric \in Metric,
         metric < INFINITY => seqno \in S, update_feasible(s2, seqno, metric)
  PROVE  update_feasible(s, seqno, metric)
  <1> SUFFICES ASSUME s # NoSource, ~SourceStale(s), ~(metric >= INFINITY)
               PROVE  \/ seqno_compare(seqno, s.seqno) > 0
                      \/ s.seqno = seqno /\ metric < s.metric
    BY DEF update_feasible
  <1>1. s2 # NoSource /\ s2.age <= s.age /\ AsGood(s2.seqno, s2.metric, s.seqno, s.metric)
    BY DEF Improves
  <1>2. /\ s.age \in Int /\ s2.age \in Int
        /\ s.metric \in Nat /\ s2.metric \in Nat /\ metric \in Nat
    BY <1>1, MetricAssumption DEF Source, Metric
  <1>3. ~SourceStale(s2)
    BY <1>1, <1>2, TimeAssumption DEF SourceStale
  <1>4. \/ seqno_compare(seqno, s2.seqno) > 0
        \/ s2.seqno = seqno /\ metric < s2.metric
    BY <1>1, <1>3 DEF update_feasible
  <1>5. seqno \in S /\ s.seqno \in S /\ s2.seqno \in S
    BY <1>1, <1>2, MetricAssumption
  <1> QED
    BY <1>1, <1>2, <1>4, <1>5 DEF AsGood, Linear

\* A window of a router-id.
LEMMA WindowFact ==
  ASSUME NEW W \in Windows, NEW id \in Ids
  PROVE  W[id] \in SUBSET Seqnos /\ Linear(W[id])
  BY DEF Windows

\* The fields of a listed route and of a source.
LEMMA FieldsFact ==
  ASSUME NEW t \in Slot
  PROVE  /\ \A p \in Paths :
              /\ t.rt[p].id \in Ids /\ t.rt[p].seqno \in Seqnos
              /\ t.rt[p].refmetric \in Metric /\ t.rt[p].age \in Nat
              /\ t.rt[p].installed \in BOOLEAN
         /\ \A id \in Ids : t.src[id] \in Source \cup {NoSource}
         /\ \A id \in Ids : t.src[id] # NoSource =>
              /\ t.src[id].seqno \in Seqnos /\ t.src[id].metric \in Nat
              /\ t.src[id].age \in Nat
         /\ \A s \in t.sent : s.update \in Update
         /\ Listed(t) \subseteq Paths
  <1>1. \A p \in Paths : t.rt[p] \in Route
    BY SlotFact
  <1>2. \A id \in Ids : t.src[id] \in Source \cup {NoSource}
    BY SlotFact
  <1>3. \A s \in Source : s.seqno \in Seqnos /\ s.metric \in Nat /\ s.age \in Nat
    BY MetricAssumption, TimeAssumption DEF Source, Metric, MaxSourceAge
  <1>4. \A r \in Route : /\ r.id \in Ids /\ r.seqno \in Seqnos
                         /\ r.refmetric \in Metric /\ r.age \in Nat
                         /\ r.installed \in BOOLEAN
    BY TimeAssumption DEF Route, MaxAge
  <1>5. Listed(t) \subseteq Paths
    BY SlotFact DEF Listed
  <1>6. \A s \in t.sent : s.update \in Update
    BY SlotFact
  <1> QED
    BY <1>1, <1>2, <1>3, <1>4, <1>5, <1>6

\* What was said of a route stays covered while its distance improves.
LEMMA SaidFact ==
  ASSUME NEW W \in Windows, NEW t, Good(t, W), NEW u, Good(u, W),
         Listed(t) \subseteq Listed(u),
         \A p \in Listed(t) : /\ u.rt[p].id = t.rt[p].id
                              /\ u.rt[p].seqno = t.rt[p].seqno
                              /\ u.rt[p].refmetric = t.rt[p].refmetric,
         u.self = t.self, u.xroute = t.xroute,
         \A id \in Ids : Improves(t.src[id], u.src[id]),
         NEW a \in Update, Said(a, t)
  PROVE  Said(a, u)
  <1>1. CASE Own(a, t)
    BY <1>1 DEF Own, Said
  <1>2. ASSUME NEW p \in Listed(t), Relays(a, t, p)
        PROVE  Relays(a, u, p)
    <2>1. a.id = u.rt[p].id /\ a.seqno = u.rt[p].seqno
      BY <1>2 DEF Relays
    <2> SUFFICES ASSUME a.metric < INFINITY
                 PROVE  /\ u.rt[p].refmetric < INFINITY
                        /\ ~SourceStale(u.src[a.id])
                        /\ AsGood(u.src[a.id].seqno, u.src[a.id].metric, a.seqno, a.metric)
      BY <2>1 DEF Relays
    <2> DEFINE s == t.src[a.id]
               s2 == u.src[a.id]
    <2>2. /\ t.rt[p].refmetric < INFINITY /\ ~SourceStale(s)
          /\ AsGood(s.seqno, s.metric, a.seqno, a.metric)
          /\ a.id = t.rt[p].id /\ a.seqno = t.rt[p].seqno
      BY <1>2 DEF Relays
    <2>3. t \in Slot /\ u \in Slot /\ s \in Source /\ a.id \in Ids /\ a.metric \in Nat
      <3>1. SlotOK(t) /\ u \in Slot
        BY DEF Good, SlotOK
      <3>2. t \in Slot /\ s \in Source
        BY <2>2, <3>1, ListedFact
      <3> QED
        BY <3>1, <3>2, MetricAssumption DEF Update, Metric
    <2>4. s # NoSource
      BY <2>3, SourceAssumption
    <2>5. /\ s2 # NoSource /\ s2.age <= s.age
          /\ AsGood(s2.seqno, s2.metric, s.seqno, s.metric)
      BY <2>2, <2>3, <2>4 DEF Improves
    <2>6. /\ s.metric \in Nat /\ s2.metric \in Nat /\ s.age \in Nat /\ s2.age \in Nat
          /\ s.seqno \in Seqnos /\ s2.seqno \in Seqnos
      BY <2>3, <2>4, <2>5, FieldsFact
    <2>7. s.seqno \in W[a.id] /\ s2.seqno \in W[a.id] /\ a.seqno \in W[a.id]
      BY <2>2, <2>3, <2>4, <2>5 DEF Good, Numbered
    <2> HIDE DEF s, s2
    <2>8. ~SourceStale(s2)
      BY <2>2, <2>5, <2>6, TimeAssumption DEF SourceStale
    <2>9. AsGood(s2.seqno, s2.metric, a.seqno, a.metric)
      BY <2>2, <2>3, <2>5, <2>6, <2>7, WindowFact, AsGoodFact
    <2> QED
      BY <2>2, <2>8, <2>9 DEF s2
  <1> QED
    BY <1>1, <1>2 DEF Said

\* A handler's result, and sending and selecting after that.
LEMMA ResultStepFact ==
  ASSUME NEW W \in Windows, NEW t \in Slot,
         \A id \in Ids : t.src[id] # NoSource => t.src[id].seqno \in W[id],
         NEW u, Good(u, W), Result(t, u), NEW v, Step(u, v, W)
  PROVE  Result(t, v)
  <1>1. /\ Good(v, W) /\ SameRefs(u, v) /\ SameClaims(u, v) /\ Result(u, v)
        /\ u \in Slot /\ v \in Slot /\ HeadOK(v)
    BY DEF Step, Good, SlotOK
  <1>2. ASSUME NEW id \in Ids PROVE Improves(t.src[id], v.src[id])
    <2>1. /\ Improves(t.src[id], u.src[id]) /\ Improves(u.src[id], v.src[id])
      BY <1>1 DEF Result
    <2>2. /\ t.src[id] # NoSource => t.src[id].seqno \in W[id]
          /\ u.src[id] # NoSource => u.src[id].seqno \in W[id]
          /\ v.src[id] # NoSource => v.src[id].seqno \in W[id]
      BY <1>1 DEF Good, Numbered
    <2> QED
      BY <1>1, <2>1, <2>2, FieldsFact, WindowFact, ImprovesFact
  <1>3. ASSUME NEW s \in v.sent \ t.sent PROVE Said(s.update, v)
    <2>1. CASE s \notin u.sent
      BY <1>1, <2>1 DEF Result
    <2>2. CASE s \in u.sent
      <3>1. Said(s.update, u) /\ s.update \in Update
        BY <1>1, <2>2, FieldsFact DEF Result
      <3>2. Listed(v) = Listed(u) /\ v.self = u.self /\ v.xroute = u.xroute
            /\ Listed(u) \subseteq Paths
        BY <1>1, FieldsFact DEF SameRefs
      <3>3. \A p \in Listed(u) : /\ v.rt[p].id = u.rt[p].id
                                 /\ v.rt[p].seqno = u.rt[p].seqno
                                 /\ v.rt[p].refmetric = u.rt[p].refmetric
        BY <1>1, <3>2 DEF SameClaims, SameClaim
      <3>4. \A id \in Ids : Improves(u.src[id], v.src[id])
        BY <1>1 DEF Result
      <3> QED
        BY <1>1, <3>1, <3>2, <3>3, <3>4, SaidFact
    <2> QED
      BY <2>1, <2>2
  <1>4. ASSUME NEW p \in Paths, v.rt[p].installed, ~t.rt[p].installed
        PROVE  update_feasible(t.src[v.rt[p].id], v.rt[p].seqno, v.rt[p].refmetric)
    <2> DEFINE id == v.rt[p].id
    <2>1. /\ u.rt[p].id = id /\ u.rt[p].seqno = v.rt[p].seqno
          /\ u.rt[p].refmetric = v.rt[p].refmetric
      BY <1>1 DEF SameClaims, SameClaim
    <2>2. CASE u.rt[p].installed
      BY <1>4, <2>1, <2>2 DEF Result
    <2>3. CASE ~u.rt[p].installed
      <3>1. update_feasible(u.src[id], v.rt[p].seqno, v.rt[p].refmetric)
        BY <1>1, <1>4, <2>3 DEF Result
      <3>2. id \in Ids /\ v.rt[p].seqno \in Seqnos /\ v.rt[p].refmetric \in Metric
        BY <1>1, FieldsFact
      <3>3. p \in Listed(v)
        <4>1. v.list # << >> /\ v.list[1] = p /\ v.list \in Seq(Paths)
          BY <1>1, <1>4, SlotFact DEF HeadOK
        <4> QED
          BY <4>1 DEF Listed
      <3>4. v.rt[p].refmetric < INFINITY => v.rt[p].seqno \in W[id]
        BY <1>1, <3>3 DEF Good, Numbered
      <3>5. /\ t.src[id] # NoSource => t.src[id].seqno \in W[id]
            /\ u.src[id] # NoSource => u.src[id].seqno \in W[id]
            /\ t.src[id] \in Source \cup {NoSource}
            /\ u.src[id] \in Source \cup {NoSource}
        BY <1>1, <3>2, FieldsFact DEF Good, Numbered
      <3>6. Improves(t.src[id], u.src[id]) /\ W[id] \in SUBSET Seqnos /\ Linear(W[id])
        BY <3>2, WindowFact DEF Result
      <3> HIDE DEF id
      <3>7. update_feasible(t.src[id], v.rt[p].seqno, v.rt[p].refmetric)
        BY <3>1, <3>2, <3>4, <3>5, <3>6, FeasibleFact
      <3> QED
        BY <3>7 DEF id
    <2> QED
      BY <2>2, <2>3
  <1> QED
    BY <1>2, <1>3, <1>4 DEF Result

\* Sending and selecting, not at all and twice.
LEMMA StepFact ==
  ASSUME NEW W \in Windows, NEW t, Good(t, W)
  PROVE  /\ Step(t, t, W)
         /\ \A u, v : Step(t, u, W) /\ Step(u, v, W) => Step(t, v, W)
  <1>1. t \in Slot
    BY DEF Good, SlotOK
  <1>2. Step(t, t, W)
    <2>1. ASSUME NEW id \in Ids PROVE Improves(t.src[id], t.src[id])
      <3>1. t.src[id] # NoSource => t.src[id].metric \in Nat /\ t.src[id].age \in Nat
        BY <1>1, FieldsFact
      <3> QED
        BY <3>1 DEF Improves, AsGood
    <2> QED
      BY <2>1, SameRefsFact DEF Step, SameClaims, SameClaim, Result
  <1>3. ASSUME NEW u, NEW v, Step(t, u, W), Step(u, v, W)
        PROVE  Step(t, v, W)
    <2>1. Good(u, W) /\ Result(t, u) /\ Good(v, W)
      BY <1>3 DEF Step
    <2>2. \A id \in Ids : t.src[id] # NoSource => t.src[id].seqno \in W[id]
      BY DEF Good, Numbered
    <2>3. Result(t, v)
      BY <1>1, <1>3, <2>1, <2>2, ResultStepFact
    <2>4. SameRefs(t, v)
      BY <1>3, SameRefsFact DEF Step
    <2>5. SameClaims(t, v)
      BY <1>3 DEF Step, SameClaims, SameClaim
    <2> QED
      BY <2>1, <2>3, <2>4, <2>5 DEF Step
  <1> QED
    BY <1>2, <1>3

-----------------------------------------------------------------------------
(* Sending. *)

\* The routes are what they were, and nothing is sent or announced.
LEMMA QuietFact ==
  ASSUME NEW W \in Windows, NEW t, Good(t, W), NEW u, SlotOK(u),
         SameRefs(t, u), SameClaims(t, u), u.src = t.src, u.sent = t.sent,
         \A p \in Paths : u.rt[p].installed /\ ~t.rt[p].installed =>
           route_feasible(t, p)
  PROVE  Step(t, u, W)
  <1>1. t \in Slot /\ u \in Slot /\ Listed(u) = Listed(t) /\ Listed(t) \subseteq Paths
    BY FieldsFact DEF Good, SlotOK, SameRefs
  <1>2. Good(u, W)
    BY <1>1 DEF Good, Numbered, SameClaims, SameClaim
  <1>3. Result(t, u)
    <2>1. \A id \in Ids : Improves(t.src[id], u.src[id])
      BY StepFact DEF Step, Result
    <2>2. \A p \in Paths : u.rt[p].installed /\ ~t.rt[p].installed =>
            update_feasible(t.src[u.rt[p].id], u.rt[p].seqno, u.rt[p].refmetric)
      BY DEF route_feasible, SameClaims, SameClaim
    <2> QED
      BY <2>1, <2>2 DEF Result
  <1> QED
    BY <1>2, <1>3 DEF Step

\* A route announced with a finite metric is usable, and no better than what its
\* neighbour announced; the output filter makes no update better.
LEMMA AnnouncedMetricFact ==
  ASSUME NEW t, SlotOK(t)
  PROVE  LET a == Announcement(t)
             p == find_installed_route(t)
         IN  /\ a \in Update
             /\ AnnouncesRoute(t) =>
                  /\ p \in Listed(t) /\ a.id = t.rt[p].id /\ a.seqno = t.rt[p].seqno
                  /\ a.metric < INFINITY => t.rt[p].refmetric < INFINITY
                  /\ t.src[a.id] \in Source
             /\ ~AnnouncesRoute(t) => Own(a, t)
             /\ \A i \in Ifaces :
                  LET b == really_send_update(i, a)
                  IN  /\ b.id = a.id /\ b.seqno = a.seqno /\ b.metric \in Nat
                      /\ b.metric < INFINITY => a.metric <= b.metric
  <1> DEFINE a == Announcement(t)
             p == find_installed_route(t)
             r == t.rt[p]
             own(m) == [id |-> t.self.id, seqno |-> t.self.seqno, metric |-> m]
  <1>1. a \in Update /\ (AnnouncesRoute(t) => t.src[a.id] \in Source) /\ t \in Slot
    BY AnnouncementFact DEF SlotOK
  <1>2. a.metric \in Nat
    BY <1>1, MetricAssumption DEF Update, Metric
  <1>3. ASSUME AnnouncesRoute(t)
        PROVE  /\ p \in Listed(t) /\ a.id = r.id /\ a.seqno = r.seqno
               /\ a.metric < INFINITY => r.refmetric < INFINITY
    <2>1. p # NoPath /\ ~(t.xroute < INFINITY /\ t.xroute <= kernel_metric)
      BY <1>3 DEF AnnouncesRoute
    <2>2. a = [id |-> r.id, seqno |-> r.seqno, metric |-> route_metric(r)]
      BY <2>1 DEF Announcement
    <2>3. p \in Listed(t) /\ r \in Route
      BY <1>1, <2>1, InstalledFact
    <2>4. r.refmetric \in Nat /\ r.cost \in Nat /\ r.add \in Nat
      BY <2>3, MetricAssumption DEF Route, Metric
    <2> HIDE DEF r, p, a
    <2>5. route_metric(r) < INFINITY => r.refmetric < INFINITY
      BY <2>4, MetricAssumption DEF route_metric, MIN
    <2> QED
      BY <2>2, <2>3, <2>5
  <1>4. ASSUME ~AnnouncesRoute(t) PROVE Own(a, t)
    <2>1. (a = own(t.xroute) /\ t.xroute < INFINITY) \/ a = own(INFINITY)
      BY <1>4 DEF Announcement, AnnouncesRoute
    <2>2. ~(INFINITY < INFINITY)
      BY MetricAssumption
    <2> QED
      BY <2>1, <2>2 DEF Own
  <1>5. ASSUME NEW i \in Ifaces
        PROVE  LET b == really_send_update(i, a)
               IN  /\ b.id = a.id /\ b.seqno = a.seqno /\ b.metric \in Nat
                   /\ b.metric < INFINITY => a.metric <= b.metric
    <2> DEFINE b == really_send_update(i, a)
    <2>1. OutMetric[i] \in Nat /\ INFINITY \in Nat
      BY MetricAssumption DEF Metric
    <2>2. b = [a EXCEPT !.metric = MIN(a.metric + OutMetric[i], INFINITY)]
      BY DEF really_send_update
    <2> HIDE DEF a, b
    <2>3. b.id = a.id /\ b.seqno = a.seqno
          /\ b.metric = MIN(a.metric + OutMetric[i], INFINITY)
      BY <1>1, <2>2 DEF Update
    <2>4. b.metric \in Nat /\ (b.metric < INFINITY => a.metric <= b.metric)
      BY <1>2, <2>1, <2>3 DEF MIN
    <2> QED
      BY <2>3, <2>4 DEF b
  <1> QED
    BY <1>1, <1>3, <1>4, <1>5

\* flushupdates moves the distance of the source it announces before anyone
\* hears of it.
LEMMA FlushStepFact ==
  ASSUME NEW W \in Windows, NEW t, Good(t, W), NEW ifs
  PROVE  Step(t, flushupdates(t, ifs), W)
  <1> DEFINE a == Announcement(t)
             p == find_installed_route(t)
             out == FlushTargets(t, ifs)
             allowed == {i \in out : OutMetric[i] < INFINITY}
             told == (t.told \ allowed)
                     \cup {i \in allowed :
                             really_send_update(i, a).metric < INFINITY}
             new == {[iface |-> i, update |-> really_send_update(i, a)] : i \in allowed}
             src == IF AnnouncesRoute(t) /\ out # {}
                      THEN Advertised(t.src, a) ELSE t.src
             u == flushupdates(t, ifs)
  <1>1. SlotOK(t) /\ t \in Slot /\ Numbered(t, W) /\ Listed(t) \subseteq Paths
    BY FieldsFact DEF Good, SlotOK
  <1>2. SlotOK(u) /\ SameRefs(t, u)
    BY <1>1, FlushFact
  <1>3. u = [t EXCEPT !.update = t.update \ ifs, !.told = told,
                      !.sent = t.sent \cup new, !.src = src]
    BY DEF flushupdates
  <1>4. out \subseteq Ifaces
    BY <1>1, SlotFact DEF FlushTargets
  <1>5. /\ a \in Update
        /\ AnnouncesRoute(t) =>
             /\ p \in Listed(t) /\ a.id = t.rt[p].id /\ a.seqno = t.rt[p].seqno
             /\ a.metric < INFINITY => t.rt[p].refmetric < INFINITY
             /\ t.src[a.id] \in Source
        /\ ~AnnouncesRoute(t) => Own(a, t)
        /\ \A i \in Ifaces :
             LET b == really_send_update(i, a)
             IN  /\ b.id = a.id /\ b.seqno = a.seqno /\ b.metric \in Nat
                 /\ b.metric < INFINITY => a.metric <= b.metric
    BY <1>1, AnnouncedMetricFact
  <1> HIDE DEF a, p, out, told, u
  <1>6. u.rt = t.rt /\ u.sent = t.sent \cup new /\ u.src = src
    <2> HIDE DEF new, src
    <2> QED
      BY <1>1, <1>3, SMT DEF Slot
  <1>7. SameClaims(t, u)
    BY <1>6 DEF SameClaims, SameClaim
  <1>8. a.id \in Ids /\ a.seqno \in Seqnos /\ a.metric \in Metric /\ a.metric \in Nat
    BY <1>5, MetricAssumption DEF Update, Metric
  <1> DEFINE s2 == update_source(t.src[a.id], a.seqno, a.metric)
  <1>9. AnnouncesRoute(t) =>
          /\ Improves(t.src[a.id], s2) /\ s2 \in Source
          /\ s2.seqno # t.src[a.id].seqno => a.metric < INFINITY /\ s2.seqno = a.seqno
          /\ a.metric < INFINITY =>
               ~SourceStale(s2) /\ AsGood(s2.seqno, s2.metric, a.seqno, a.metric)
    BY <1>5, <1>8, UpdateSourceImproves, UpdateSourceFact
  <1>10. \A id \in Ids : u.src[id] = IF AnnouncesRoute(t) /\ out # {} /\ id = a.id
                                       THEN s2 ELSE t.src[id]
    <2>1. t.src \in [Ids -> Source \cup {NoSource}]
      BY <1>1, SlotFact
    <2> QED
      BY <1>6, <1>8, <2>1 DEF Advertised
  <1> HIDE DEF s2, src
  <1>11. \A id \in Ids : Improves(t.src[id], t.src[id])
    BY StepFact DEF Step, Result
  <1>12. \A id \in Ids : Improves(t.src[id], u.src[id])
    BY <1>9, <1>10, <1>11
  <1>13. Numbered(u, W)
    <2>1. \A q \in Listed(u) :
            u.rt[q].refmetric < INFINITY => u.rt[q].seqno \in W[u.rt[q].id]
      BY <1>1, <1>2, <1>6 DEF SameRefs, Numbered
    <2>2. ASSUME NEW id \in Ids, u.src[id] # NoSource
          PROVE  u.src[id].seqno \in W[id]
      <3>1. CASE u.src[id] = t.src[id]
        BY <1>1, <2>2, <3>1 DEF Numbered
      <3>2. CASE AnnouncesRoute(t) /\ id = a.id /\ u.src[id] = s2
        <4>1. t.src[id] # NoSource
          BY <1>5, <3>2, SourceAssumption
        <4>2. t.src[id].seqno \in W[id]
          BY <1>1, <4>1 DEF Numbered
        <4>3. a.metric < INFINITY => a.seqno \in W[id]
          BY <1>1, <1>5, <3>2 DEF Numbered
        <4> QED
          BY <1>9, <3>2, <4>2, <4>3
      <3> QED
        BY <1>10, <3>1, <3>2
    <2> QED
      BY <2>1, <2>2 DEF Numbered
  <1>14. ASSUME NEW s \in u.sent \ t.sent PROVE Said(s.update, u)
    <2>1. PICK i \in allowed : s = [iface |-> i, update |-> really_send_update(i, a)]
      BY <1>6, <1>14
    <2> DEFINE b == really_send_update(i, a)
    <2>2. i \in out /\ i \in Ifaces /\ s.update = b
      BY <1>4, <2>1
    <2>3. /\ b.id = a.id /\ b.seqno = a.seqno /\ b.metric \in Nat
          /\ b.metric < INFINITY => a.metric <= b.metric
      BY <1>5, <2>2
    <2> HIDE DEF b
    <2>4. b.metric < INFINITY => a.metric < INFINITY
      BY <1>8, <2>3, MetricAssumption
    <2>5. CASE ~AnnouncesRoute(t)
      <3>1. Own(b, u)
        BY <1>2, <1>5, <2>3, <2>4, <2>5 DEF Own, SameRefs
      <3> QED
        BY <2>2, <3>1 DEF Said
    <2>6. CASE AnnouncesRoute(t)
      <3>1. u.src[a.id] = s2 /\ p \in Listed(u)
        BY <1>2, <1>5, <1>8, <1>10, <2>2, <2>6 DEF SameRefs
      <3>2. ASSUME b.metric < INFINITY
            PROVE  AsGood(s2.seqno, s2.metric, b.seqno, b.metric)
        <4>1. AsGood(s2.seqno, s2.metric, a.seqno, a.metric)
          BY <1>9, <2>4, <2>6, <3>2
        <4>2. s2.metric \in Nat
          BY <1>9, <2>6, MetricAssumption DEF Source, Metric
        <4> QED
          BY <1>8, <2>3, <3>2, <4>1, <4>2 DEF AsGood
      <3>3. Relays(b, u, p)
        BY <1>5, <1>6, <1>9, <2>3, <2>4, <2>6, <3>1, <3>2 DEF Relays
      <3> QED
        BY <2>2, <3>1, <3>3 DEF Said
    <2> QED
      BY <2>5, <2>6
  <1>15. Result(t, u)
    BY <1>6, <1>12, <1>14 DEF Result
  <1>16. Step(t, u, W)
    BY <1>2, <1>7, <1>13, <1>15 DEF Step, Good
  <1> QED
    BY <1>16 DEF u

\* Buffering an update, recording it and asking are quiet.
LEMMA BuffersStepFact ==
  ASSUME NEW W \in Windows, NEW t, Good(t, W),
         NEW update \in SUBSET t.up, NEW resend \in 0 .. RESEND_MAX,
         NEW asked \in SUBSET [to : SUBSET Neighs, id : Ids, seqno : Seqnos],
         NEW u \in {[t EXCEPT !.update = update], [t EXCEPT !.resend = resend],
                    [t EXCEPT !.asked = asked]}
  PROVE  Step(t, u, W)
  <1>1. SlotOK(t) /\ t \in Slot
    BY DEF Good, SlotOK
  <1>2. SlotOK(u) /\ SameRefs(t, u)
    <2>1. CASE u = [t EXCEPT !.update = update]
      BY <1>1, <2>1, BuffersFact
    <2>2. CASE u = [t EXCEPT !.resend = resend]
      BY <1>1, <2>2, BuffersFact
    <2>3. CASE u = [t EXCEPT !.asked = asked]
      BY <1>1, <2>3, BuffersFact
    <2> QED
      BY <2>1, <2>2, <2>3
  <1>3. u.rt = t.rt /\ u.src = t.src /\ u.sent = t.sent
    BY <1>1, SMT DEF Slot
  <1> QED
    BY <1>2, <1>3, QuietFact DEF SameClaims, SameClaim

\* send_update and send_update_resend.
LEMMA SendStepFact ==
  ASSUME NEW W \in Windows, NEW t, Good(t, W), NEW k
  PROVE  Step(t, send_update(t, k), W) /\ Step(t, send_update_resend(t, k), W)
  <1> DEFINE u == flushupdates(t, k.full)
             v == send_update(t, k)
             w == send_update_resend(t, k)
  <1>1. Step(t, u, W)
    BY FlushStepFact
  <1>2. v = [u EXCEPT !.update = u.update \cup t.up]
    BY DEF send_update
  <1>3. w = [v EXCEPT !.resend = RESEND_MAX]
    BY DEF send_update_resend
  <1> HIDE DEF u, v, w
  <1>4. /\ Good(u, W) /\ u.update \cup t.up \in SUBSET u.up /\ u.resend \in 0 .. RESEND_MAX
        /\ u.asked \in SUBSET [to : SUBSET Neighs, id : Ids, seqno : Seqnos]
    BY <1>1, SlotFact DEF Step, Good, SlotOK, BuffersOK, SameRefs
  <1>5. Step(u, v, W)
    BY <1>2, <1>4, BuffersStepFact
  <1>6. /\ Good(v, W) /\ v.update \in SUBSET v.up /\ RESEND_MAX \in 0 .. RESEND_MAX
        /\ v.asked \in SUBSET [to : SUBSET Neighs, id : Ids, seqno : Seqnos]
    BY <1>5, SlotFact, TimeAssumption DEF Step, Good, SlotOK, BuffersOK
  <1>7. Step(v, w, W)
    BY <1>3, <1>6, BuffersStepFact
  <1>8. Step(t, v, W) /\ Step(t, w, W)
    BY <1>1, <1>5, <1>7, StepFact
  <1> QED
    BY <1>8 DEF v, w

\* Requests go out after the buffered updates.
LEMMA RequestStepFact ==
  ASSUME NEW W \in Windows, NEW t, Good(t, W), NEW id \in Ids, t.src[id] # NoSource
  PROVE  /\ Step(t, send_request_resend(t, id), W)
         /\ \A n \in Neighs : \A force, seqno, metric :
              Step(t, send_unfeasible_request(t, n, force, seqno, metric, id), W)
  <1>1. t.src[id] \in Source
    BY SlotFact DEF Good, SlotOK
  <1>2. WantedSeqno(t.src[id]) \in Seqnos
    BY <1>1, WantedSeqnoFact
  <1>3. ASSUME NEW ifs, NEW to \in SUBSET Neighs
        PROVE  LET u == flushupdates(t, ifs)
                   q == [to |-> to, id |-> id, seqno |-> WantedSeqno(t.src[id])]
               IN  Step(t, [u EXCEPT !.asked = u.asked \cup {q}], W)
    <2> DEFINE u == flushupdates(t, ifs)
               q == [to |-> to, id |-> id, seqno |-> WantedSeqno(t.src[id])]
               v == [u EXCEPT !.asked = u.asked \cup {q}]
    <2>1. Step(t, u, W)
      BY FlushStepFact
    <2>2. q \in [to : SUBSET Neighs, id : Ids, seqno : Seqnos]
      BY <1>2
    <2> HIDE DEF u, q
    <2>3. /\ Good(u, W) /\ u.update \in SUBSET u.up /\ u.resend \in 0 .. RESEND_MAX
          /\ u.asked \cup {q} \in SUBSET [to : SUBSET Neighs, id : Ids, seqno : Seqnos]
      BY <2>1, <2>2, SlotFact DEF Step, Good, SlotOK, BuffersOK
    <2>4. Step(u, v, W)
      BY <2>3, BuffersStepFact
    <2>5. Step(t, v, W)
      BY <2>1, <2>4, StepFact
    <2> QED
      BY <2>5 DEF u, q
  <1>4. Step(t, send_request_resend(t, id), W)
    <2> DEFINE to == {n \in Neighs : IfOf[n] \in t.up}
               u == flushupdates(t, Ifaces)
               q == [to |-> to, id |-> id, seqno |-> WantedSeqno(t.src[id])]
    <2>1. send_request_resend(t, id) = [u EXCEPT !.asked = u.asked \cup {q}]
      BY DEF send_request_resend
    <2>2. Step(t, [u EXCEPT !.asked = u.asked \cup {q}], W)
      BY <1>3
    <2> QED
      BY <2>1, <2>2
  <1>5. ASSUME NEW n \in Neighs, NEW force, NEW seqno, NEW metric
        PROVE  Step(t, send_unfeasible_request(t, n, force, seqno, metric, id), W)
    <2> DEFINE u == flushupdates(t, {IfOf[n]})
               q == [to |-> {n}, id |-> id, seqno |-> WantedSeqno(t.src[id])]
               v == [u EXCEPT !.asked = u.asked \cup {q}]
    <2>1. send_unfeasible_request(t, n, force, seqno, metric, id) \in {t, v}
      BY DEF send_unfeasible_request
    <2>2. Step(t, v, W)
      BY <1>3
    <2> QED
      BY <2>1, <2>2, StepFact
  <1> QED
    BY <1>4, <1>5

\* Triggered updates.
LEMMA TriggeredStepFact ==
  ASSUME NEW W \in Windows, NEW t, Good(t, W), NEW p, NEW oldsrc, NEW oldmetric, NEW k
  PROVE  Step(t, send_triggered_update(t, p, oldsrc, oldmetric, k), W)
  <1>1. send_triggered_update(t, p, oldsrc, oldmetric, k)
          \in {t, send_update(t, k), send_update_resend(t, k)}
    BY DEF send_triggered_update
  <1> QED
    BY <1>1, SendStepFact, StepFact

-----------------------------------------------------------------------------
(* Installing and selecting. *)

\* Setting the installed flag of a route changes nothing that is believed of it.
LEMMA FlagFact ==
  ASSUME NEW rt \in [Paths -> Route], NEW p \in Paths, NEW b \in BOOLEAN
  PROVE  LET new == [rt EXCEPT ![p].installed = b]
         IN  /\ new \in [Paths -> Route]
             /\ \A q \in Paths :
                  /\ new[q].id = rt[q].id /\ new[q].seqno = rt[q].seqno
                  /\ new[q].refmetric = rt[q].refmetric /\ new[q].age = rt[q].age
                  /\ new[q].installed = IF q = p THEN b ELSE rt[q].installed
  <1> DEFINE r == [rt[p] EXCEPT !.installed = b]
             new == [rt EXCEPT ![p].installed = b]
  <1>1. /\ r \in Route /\ r.id = rt[p].id /\ r.installed = b /\ r.seqno = rt[p].seqno
        /\ r.refmetric = rt[p].refmetric /\ r.age = rt[p].age
    BY DEF Route
  <1>2. new = [rt EXCEPT ![p] = r]
    OBVIOUS
  <1> HIDE DEF r, new
  <1>3. new \in [Paths -> Route] /\ \A q \in Paths : new[q] = IF q = p THEN r ELSE rt[q]
    BY <1>1, <1>2
  <1> QED
    BY <1>1, <1>3 DEF new

\* install_route, of a feasible route.
LEMMA InstallStepFact ==
  ASSUME NEW W \in Windows, NEW t, Good(t, W), NEW p \in Listed(t), NEW k,
         ~(allow_duplicates < 0 /\ t.xroute < INFINITY), route_feasible(t, p)
  PROVE  Step(t, install_route(t, p, k), W)
  <1> DEFINE fib == KernelAdd(t.fib, p, metric_to_kernel(route_metric(t.rt[p])))
             rt == [t.rt EXCEPT ![p].installed = TRUE]
             u == [t EXCEPT !.fib = fib, !.rt = rt,
                            !.list = move_installed_route(t.list, p)]
             v == install_route(t, p, k)
  <1>1. SlotOK(t) /\ t \in Slot /\ p \in Paths
    BY FieldsFact DEF Good, SlotOK
  <1>2. SlotOK(v) /\ SameRefs(t, v)
    BY <1>1, InstallFact
  <1>3. v = t \/ v = u
    BY DEF install_route
  <1>4. \A q \in Paths :
          /\ rt[q].id = t.rt[q].id /\ rt[q].seqno = t.rt[q].seqno
          /\ rt[q].refmetric = t.rt[q].refmetric /\ rt[q].age = t.rt[q].age
          /\ rt[q].installed => q = p \/ t.rt[q].installed
    BY <1>1, SlotFact, FlagFact
  <1> HIDE DEF rt, fib, v
  <1>5. v.src = t.src /\ v.sent = t.sent /\ (v.rt = t.rt \/ v.rt = rt)
    <2>1. u.src = t.src /\ u.sent = t.sent /\ u.rt = rt
      BY <1>1, SMT DEF Slot
    <2> HIDE DEF u
    <2> QED
      BY <1>3, <2>1
  <1>6. SameClaims(t, v)
    BY <1>4, <1>5 DEF SameClaims, SameClaim
  <1>7. \A q \in Paths : v.rt[q].installed /\ ~t.rt[q].installed => route_feasible(t, q)
    BY <1>4, <1>5
  <1>8. Step(t, v, W)
    BY <1>2, <1>5, <1>6, <1>7, QuietFact
  <1> QED
    BY <1>8 DEF v

\* uninstall_route.
LEMMA UninstallStepFact ==
  ASSUME NEW W \in Windows, NEW t, Good(t, W), NEW p \in Paths
  PROVE  LET v == uninstall_route(t, p)
         IN  /\ Step(t, v, W) /\ v.src = t.src /\ v.sent = t.sent
             /\ \A q \in Paths : v.rt[q].installed => t.rt[q].installed
  <1> DEFINE fib == KernelFlush(t.fib, p, metric_to_kernel(route_metric(t.rt[p])))
             rt == [t.rt EXCEPT ![p].installed = FALSE]
             u == [t EXCEPT !.fib = fib, !.rt = rt]
             v == uninstall_route(t, p)
  <1>1. SlotOK(t) /\ t \in Slot
    BY DEF Good, SlotOK
  <1>2. SlotOK(v) /\ SameRefs(t, v)
    BY <1>1, UninstallFact
  <1>3. v = t \/ v = u
    BY DEF uninstall_route
  <1>4. \A q \in Paths :
          /\ rt[q].id = t.rt[q].id /\ rt[q].seqno = t.rt[q].seqno
          /\ rt[q].refmetric = t.rt[q].refmetric /\ rt[q].age = t.rt[q].age
          /\ rt[q].installed => t.rt[q].installed
    BY <1>1, SlotFact, FlagFact
  <1> HIDE DEF rt, fib, v
  <1>5. v.src = t.src /\ v.sent = t.sent /\ (v.rt = t.rt \/ v.rt = rt)
    <2>1. u.src = t.src /\ u.sent = t.sent /\ u.rt = rt
      BY <1>1, SMT DEF Slot
    <2> HIDE DEF u
    <2> QED
      BY <1>3, <2>1
  <1>6. SameClaims(t, v)
    BY <1>4, <1>5 DEF SameClaims, SameClaim
  <1>7. \A q \in Paths : v.rt[q].installed => t.rt[q].installed
    BY <1>4, <1>5
  <1>8. Step(t, v, W)
    BY <1>2, <1>5, <1>6, <1>7, QuietFact
  <1> QED
    BY <1>5, <1>7, <1>8 DEF v

\* switch_routes, to a feasible route.
LEMMA SwitchStepFact ==
  ASSUME NEW W \in Windows, NEW t, Good(t, W), NEW p \in Listed(t), NEW k,
         ~(allow_duplicates < 0 /\ t.xroute < INFINITY),
         NEW old \in {find_installed_route(t)}, ~t.rt[p].installed,
         route_feasible(t, p)
  PROVE  Step(t, switch_routes(t, old, p, k), W)
  <1> DEFINE km == metric_to_kernel(route_metric(t.rt[old]))
             kn == metric_to_kernel(route_metric(t.rt[p]))
             fib1 == KernelFlushForModify(t.fib, old, km, kn)
             fib == KernelModify(t.fib, old, km, p, kn)
             rt1 == [t.rt EXCEPT ![old].installed = FALSE]
             rt == [rt1 EXCEPT ![p].installed = TRUE]
             u == [t EXCEPT !.fib = fib1]
             v == [t EXCEPT !.fib = fib, !.rt = rt,
                            !.list = move_installed_route(t.list, p)]
             w == switch_routes(t, old, p, k)
  <1>1. SlotOK(t) /\ t \in Slot /\ p \in Paths
    BY FieldsFact DEF Good, SlotOK
  <1>2. SlotOK(w) /\ SameRefs(t, w)
    BY <1>1, SwitchFact
  <1>3. CASE old = NoPath
    BY <1>3, InstallStepFact DEF switch_routes
  <1>4. CASE old # NoPath
    <2>1. old \in Paths
      BY <1>1, <1>4, InstalledFact
    <2>2. w = u \/ w = v
      BY <1>4 DEF switch_routes
    <2>3. rt1 \in [Paths -> Route]
          /\ \A q \in Paths :
               /\ rt1[q].id = t.rt[q].id /\ rt1[q].seqno = t.rt[q].seqno
               /\ rt1[q].refmetric = t.rt[q].refmetric /\ rt1[q].age = t.rt[q].age
               /\ rt1[q].installed => t.rt[q].installed
      <3>1. t.rt \in [Paths -> Route] /\ FALSE \in BOOLEAN
        BY <1>1, SlotFact
      <3>2. rt1 \in [Paths -> Route]
            /\ \A q \in Paths :
                 /\ rt1[q].id = t.rt[q].id /\ rt1[q].seqno = t.rt[q].seqno
                 /\ rt1[q].refmetric = t.rt[q].refmetric /\ rt1[q].age = t.rt[q].age
                 /\ rt1[q].installed = IF q = old THEN FALSE ELSE t.rt[q].installed
        BY <2>1, <3>1, FlagFact, Zenon
      <3> HIDE DEF rt1
      <3> QED
        BY <3>2
    <2> HIDE DEF rt1
    <2>4. \A q \in Paths :
            /\ rt[q].id = t.rt[q].id /\ rt[q].seqno = t.rt[q].seqno
            /\ rt[q].refmetric = t.rt[q].refmetric /\ rt[q].age = t.rt[q].age
            /\ rt[q].installed => q = p \/ t.rt[q].installed
      <3>1. \A q \in Paths :
              /\ rt[q].id = rt1[q].id /\ rt[q].seqno = rt1[q].seqno
              /\ rt[q].refmetric = rt1[q].refmetric /\ rt[q].age = rt1[q].age
              /\ rt[q].installed = IF q = p THEN TRUE ELSE rt1[q].installed
        BY <1>1, <2>3, FlagFact
      <3> QED
        BY <2>3, <3>1
    <2> HIDE DEF rt, fib, fib1, w
    <2>5. w.src = t.src /\ w.sent = t.sent /\ (w.rt = t.rt \/ w.rt = rt)
      <3>1. u.src = t.src /\ u.sent = t.sent /\ u.rt = t.rt
        BY <1>1, SMT DEF Slot
      <3>2. v.src = t.src /\ v.sent = t.sent /\ v.rt = rt
        BY <1>1, SMT DEF Slot
      <3> HIDE DEF u, v
      <3> QED
        BY <2>2, <3>1, <3>2
    <2>6. SameClaims(t, w)
      BY <2>4, <2>5 DEF SameClaims, SameClaim
    <2>7. \A q \in Paths : w.rt[q].installed /\ ~t.rt[q].installed => route_feasible(t, q)
      BY <2>4, <2>5
    <2>8. Step(t, w, W)
      BY <1>2, <2>5, <2>6, <2>7, QuietFact
    <2> QED
      BY <2>8 DEF w
  <1> QED
    BY <1>3, <1>4

\* consider_route.
LEMMA ConsiderStepFact ==
  ASSUME NEW W \in Windows, NEW t, Good(t, W), NEW p \in Listed(t), NEW k
  PROVE  Step(t, consider_route(t, p, k), W)
  <1> DEFINE old == find_installed_route(t)
             u == switch_routes(t, old, p, k)
  <1>1. CASE consider_route(t, p, k) = t
    BY <1>1, StepFact
  <1>2. CASE consider_route(t, p, k) # t
    <2>1. /\ ~t.rt[p].installed /\ ~(allow_duplicates < 0 /\ t.xroute < INFINITY)
          /\ route_feasible(t, p)
      BY <1>2 DEF consider_route
    <2>2. Step(t, u, W)
      BY <2>1, SwitchStepFact
    <2> DEFINE v == send_triggered_update(
                      u, p, t.rt[old].id, route_metric(t.rt[old]), k)
    <2>3. consider_route(t, p, k) \in {v, send_update(u, k)}
      BY <1>2 DEF consider_route
    <2> HIDE DEF u
    <2>4. Good(u, W)
      BY <2>2 DEF Step
    <2>5. Step(u, v, W) /\ Step(u, send_update(u, k), W)
      BY <2>4, TriggeredStepFact, SendStepFact
    <2> HIDE DEF v
    <2> QED
      BY <2>2, <2>3, <2>5, StepFact
  <1> QED
    BY <1>1, <1>2

\* route_changed.
LEMMA ChangedStepFact ==
  ASSUME NEW W \in Windows, NEW t, Good(t, W), NEW p \in Listed(t),
         NEW oldsrc, NEW oldmetric, NEW k
  PROVE  Step(t, route_changed(t, p, oldsrc, oldmetric, k), W)
  <1> DEFINE b == find_best_route(t)
             u == IF /\ t.rt[p].installed /\ b # NoPath
                     /\ route_metric(t.rt[b]) < route_metric(t.rt[p])
                    THEN consider_route(t, b, k) ELSE t
             v == send_triggered_update(u, p, oldsrc, oldmetric, k)
             w == consider_route(u, p, k)
  <1>1. Step(t, u, W)
    BY BestFact, ConsiderStepFact, StepFact DEF Good, SlotOK
  <1>2. route_changed(t, p, oldsrc, oldmetric, k) \in {v, w}
    BY DEF route_changed
  <1> HIDE DEF u
  <1>3. Good(u, W) /\ p \in Listed(u)
    BY <1>1 DEF Step, SameRefs
  <1>4. Step(u, v, W) /\ Step(u, w, W)
    BY <1>3, TriggeredStepFact, ConsiderStepFact
  <1> HIDE DEF v, w
  <1> QED
    BY <1>1, <1>2, <1>4, StepFact

\* route_lost.
LEMMA LostStepFact ==
  ASSUME NEW W \in Windows, NEW t, Good(t, W), NEW id \in Ids, t.src[id] # NoSource,
         NEW oldmetric, NEW k
  PROVE  Step(t, route_lost(t, id, oldmetric, k), W)
  <1> DEFINE b == find_best_route(t)
             u == send_update_resend(t, k)
             v == send_request_resend(u, id)
  <1>1. CASE b # NoPath
    BY <1>1, BestFact, ConsiderStepFact DEF route_lost, Good, SlotOK
  <1>2. CASE b = NoPath
    <2>1. route_lost(t, id, oldmetric, k) \in {t, u, v}
      BY <1>2 DEF route_lost
    <2>2. Step(t, u, W)
      BY SendStepFact
    <2> HIDE DEF u
    <2>3. Good(u, W) /\ u.src[id] # NoSource
      BY <2>2 DEF Step, SameRefs
    <2>4. Step(u, v, W)
      BY <2>3, RequestStepFact
    <2> HIDE DEF v
    <2> QED
      BY <2>1, <2>2, <2>4, StepFact
  <1> QED
    BY <1>1, <1>2

-----------------------------------------------------------------------------
(* The operations on one route. *)

\* change_route_metric, when the kernel obeys: the metric is stored.
LEMMA ChangeFieldsFact ==
  ASSUME NEW t \in Slot, NEW p \in Paths, NEW refmetric \in Metric,
         NEW cost \in Metric, NEW add \in Metric, NEW k, k.bad = {}
  PROVE  LET u == change_route_metric(t, p, refmetric, cost, add, k)
         IN  /\ u.list = t.list /\ u.src = t.src /\ u.sent = t.sent
             /\ \A q \in Paths \ {p} : u.rt[q] = t.rt[q]
             /\ u.rt[p].id = t.rt[p].id /\ u.rt[p].seqno = t.rt[p].seqno
             /\ u.rt[p].refmetric = refmetric /\ u.rt[p].age = t.rt[p].age
             /\ u.rt[p].installed = t.rt[p].installed
  <1> DEFINE r == t.rt[p]
             new == [r EXCEPT !.refmetric = refmetric, !.cost = cost, !.add = add]
             km == metric_to_kernel(route_metric(r))
             kn == metric_to_kernel(route_metric(new))
             sm == Kept(route_smoothed_metric(r))
             fib1 == KernelModify(t.fib, p, km, p, kn)
             end == [new EXCEPT !.smoothed = sm]
             fib == IF r.installed /\ km # kn THEN fib1 ELSE t.fib
             u == change_route_metric(t, p, refmetric, cost, add, k)
             rt == [t.rt EXCEPT ![p] = end]
  <1>1. r \in Route /\ t.rt \in [Paths -> Route]
    BY SlotFact
  <1>2. u = [t EXCEPT !.fib = fib, !.rt = rt]
    BY DEF change_route_metric
  <1>3. /\ end.id = r.id /\ end.seqno = r.seqno /\ end.refmetric = refmetric
        /\ end.age = r.age /\ end.installed = r.installed
    BY <1>1 DEF Route
  <1> HIDE DEF end, fib, u
  <1>4. rt[p] = end /\ \A q \in Paths \ {p} : rt[q] = t.rt[q]
    BY <1>1
  <1> HIDE DEF rt
  <1>5. u.list = t.list /\ u.src = t.src /\ u.sent = t.sent /\ u.rt = rt
    BY <1>2, SMT DEF Slot
  <1> QED
    BY <1>3, <1>4, <1>5 DEF u

\* A handler has changed what is believed of route p only, and sent nothing.
LEMMA ClaimFact ==
  ASSUME NEW W \in Windows, NEW t, Good(t, W), NEW p \in Paths, NEW u, SlotOK(u),
         Listed(u) \ {p} \subseteq Listed(t), u.sent = t.sent,
         \A id \in Ids : /\ t.src[id] # NoSource =>
                              /\ u.src[id] # NoSource /\ u.src[id].age = t.src[id].age
                              /\ u.src[id].metric = t.src[id].metric
                         /\ u.src[id] # NoSource /\ t.src[id] # NoSource =>
                              u.src[id].seqno = t.src[id].seqno
                         /\ u.src[id] # NoSource /\ t.src[id] = NoSource =>
                              u.src[id].seqno \in W[id] /\ ~SourceStale(u.src[id]),
         \A q \in Paths \ {p} : SameClaim(t, u, q),
         p \in Listed(u) /\ u.rt[p].refmetric < INFINITY =>
           u.rt[p].seqno \in W[u.rt[p].id],
         \A q \in Paths : u.rt[q].installed => t.rt[q].installed
  PROVE  Good(u, W) /\ Result(t, u)
  <1>1. t \in Slot /\ u \in Slot /\ Listed(u) \subseteq Paths /\ Numbered(t, W)
    BY FieldsFact DEF Good, SlotOK
  <1>2. \A q \in Listed(u) :
          u.rt[q].refmetric < INFINITY => u.rt[q].seqno \in W[u.rt[q].id]
    BY <1>1 DEF Numbered, SameClaim
  <1>3. \A id \in Ids : u.src[id] # NoSource => u.src[id].seqno \in W[id]
    BY <1>1 DEF Numbered
  <1>4. Good(u, W)
    BY <1>2, <1>3 DEF Good, Numbered
  <1>5. ASSUME NEW id \in Ids PROVE Improves(t.src[id], u.src[id])
    <2>1. t.src[id] # NoSource => t.src[id].metric \in Nat /\ t.src[id].age \in Nat
      BY <1>1, FieldsFact
    <2> QED
      BY <2>1 DEF Improves, AsGood
  <1> QED
    BY <1>4, <1>5 DEF Result

\* change_route_metric, as a handler's change.
LEMMA ChangeResultFact ==
  ASSUME NEW W \in Windows, NEW t, Good(t, W), NEW p \in Listed(t),
         NEW refmetric \in Metric, NEW cost \in Metric, NEW add \in Metric,
         NEW k, k.bad = {},
         refmetric < INFINITY => t.rt[p].seqno \in W[t.rt[p].id]
  PROVE  LET u == change_route_metric(t, p, refmetric, cost, add, k)
         IN  /\ Good(u, W) /\ Result(t, u) /\ SameRefs(t, u)
             /\ \A q \in Paths \ {p} : SameClaim(t, u, q)
             /\ refmetric = t.rt[p].refmetric => SameClaims(t, u)
  <1> DEFINE u == change_route_metric(t, p, refmetric, cost, add, k)
  <1>1. SlotOK(t) /\ t \in Slot /\ p \in Paths
    BY FieldsFact DEF Good, SlotOK
  <1>2. SlotOK(u) /\ SameRefs(t, u)
    BY <1>1, ChangeMetricFact
  <1>3. /\ u.list = t.list /\ u.src = t.src /\ u.sent = t.sent
        /\ \A q \in Paths \ {p} : u.rt[q] = t.rt[q]
        /\ u.rt[p].id = t.rt[p].id /\ u.rt[p].seqno = t.rt[p].seqno
        /\ u.rt[p].refmetric = refmetric /\ u.rt[p].age = t.rt[p].age
        /\ u.rt[p].installed = t.rt[p].installed
    BY <1>1, ChangeFieldsFact
  <1> HIDE DEF u
  <1>4. Listed(u) = Listed(t)
    BY <1>2 DEF SameRefs
  <1>5. \A q \in Paths \ {p} : SameClaim(t, u, q)
    BY <1>3 DEF SameClaim
  <1>6. \A q \in Paths : u.rt[q].installed => t.rt[q].installed
    BY <1>3
  <1>7. Good(u, W) /\ Result(t, u)
    BY <1>1, <1>2, <1>3, <1>4, <1>5, <1>6, ClaimFact
  <1>8. refmetric = t.rt[p].refmetric => SameClaims(t, u)
    BY <1>3, <1>5 DEF SameClaims, SameClaim
  <1> QED
    BY <1>2, <1>5, <1>7, <1>8 DEF u

\* update_route_metric: a route that has not expired is believed as before.
LEMMA UpdateMetricResultFact ==
  ASSUME NEW W \in Windows, NEW t, Good(t, W), NEW p \in Listed(t),
         NEW cost \in Metric, NEW k, k.bad = {}
  PROVE  LET u == update_route_metric(t, p, cost, k)
         IN  /\ Good(u, W) /\ Result(t, u) /\ SameRefs(t, u)
             /\ ~route_expired(t.rt[p]) => SameClaims(t, u)
  <1> DEFINE r == t.rt[p]
             seqno == seqno_plus(t.src[r.id].seqno, 1)
             newer == [r EXCEPT !.seqno = seqno]
             t1 == [t EXCEPT !.rt[p].seqno = seqno]
             dead == retract_route(t1, p, k)
             live == change_route_metric(t, p, r.refmetric, cost, AddMetric[p], k)
             end(v) == route_changed(v, p, r.id, route_metric(r), k)
             u == update_route_metric(t, p, cost, k)
  <1>1. /\ SlotOK(t) /\ t \in Slot /\ p \in Paths /\ r \in Route /\ r.id \in Ids
        /\ t.src[r.id] \in Source
    BY ListedFact DEF Good
  <1>2. seqno \in Seqnos
    BY <1>1, SeqnoPlusFact DEF Source
  <1>3. /\ u \in {t, dead, live, end(dead), end(live)}
        /\ ~route_expired(r) => u \in {live, end(live)}
    BY DEF update_route_metric
  <1> HIDE DEF seqno
  <1>4. /\ newer \in Route /\ newer.id = r.id /\ newer.installed = r.installed
        /\ newer.age = r.age
    BY <1>1, <1>2 DEF Route
  <1>5. t1 = Stored(t, t.fib, p, newer)
    BY <1>1 DEF Stored, Slot
  <1>6. /\ SlotOK(t1) /\ SameRefs(t, t1) /\ t1 \in Slot
        /\ t1.rt[p] = newer /\ \A q \in Paths \ {p} : t1.rt[q] = t.rt[q]
        /\ t1.src = t.src /\ t1.sent = t.sent
    <2>1. t.fib \in SUBSET FibEntry /\ t.rt \in [Paths -> Route]
      BY <1>1, SlotFact
    <2>2. t1.sent = t.sent
      BY <1>1 DEF Slot
    <2> HIDE DEF newer, t1
    <2>3. SlotOK(t1) /\ SameRefs(t, t1)
      BY <1>1, <1>4, <1>5, <2>1, StoreSameFact
    <2>4. t1.rt = [t.rt EXCEPT ![p] = newer] /\ t1.src = t.src
      BY <1>1, <1>4, <1>5, <2>1, StoreFact
    <2> QED
      BY <1>1, <2>1, <2>2, <2>3, <2>4 DEF SlotOK
  <1> HIDE DEF t1, newer
  <1>7. Good(dead, W) /\ Result(t, dead) /\ SameRefs(t, dead)
    <2>1. SlotOK(dead) /\ SameRefs(t1, dead)
      BY <1>1, <1>6, RetractFact
    <2>2. /\ dead.list = t1.list /\ dead.src = t1.src /\ dead.sent = t1.sent
          /\ \A q \in Paths \ {p} : dead.rt[q] = t1.rt[q]
          /\ dead.rt[p].refmetric = INFINITY
          /\ dead.rt[p].installed = t1.rt[p].installed
      BY <1>1, <1>6, BoundsFact, ChangeFieldsFact, SMTT(40) DEF retract_route
    <2> HIDE DEF dead
    <2>3. SameRefs(t, dead)
      BY <1>6, <2>1, SameRefsFact
    <2>4. \A q \in Paths \ {p} : SameClaim(t, dead, q)
      BY <1>6, <2>2 DEF SameClaim
    <2>5. \A q \in Paths : dead.rt[q].installed => t.rt[q].installed
      BY <1>4, <1>6, <2>2
    <2>6. Listed(dead) = Listed(t) /\ ~(dead.rt[p].refmetric < INFINITY)
      BY <2>2, <2>3, MetricAssumption DEF SameRefs
    <2>7. Good(dead, W) /\ Result(t, dead)
      BY <1>1, <1>6, <2>1, <2>2, <2>4, <2>5, <2>6, ClaimFact
    <2> QED
      BY <2>3, <2>7
  <1>8. Good(live, W) /\ Result(t, live) /\ SameRefs(t, live) /\ SameClaims(t, live)
    <2>1. r.refmetric \in Metric /\ AddMetric[p] \in Metric
      BY <1>1, MetricAssumption DEF Route
    <2>2. r.refmetric < INFINITY => r.seqno \in W[r.id]
      BY DEF Good, Numbered
    <2> QED
      BY <2>1, <2>2, ChangeResultFact
  <1> HIDE DEF dead, live
  <1>9. ASSUME NEW v \in {dead, live}
        PROVE  /\ Good(end(v), W) /\ Result(t, end(v)) /\ SameRefs(t, end(v))
               /\ SameClaims(v, end(v))
    <2>1. Good(v, W) /\ Result(t, v) /\ SameRefs(t, v)
      BY <1>7, <1>8
    <2>2. p \in Listed(v)
      BY <2>1 DEF SameRefs
    <2>3. Step(v, end(v), W)
      BY <2>1, <2>2, ChangedStepFact
    <2>4. \A id \in Ids : t.src[id] # NoSource => t.src[id].seqno \in W[id]
      BY DEF Good, Numbered
    <2> HIDE DEF end
    <2>5. Result(t, end(v))
      BY <1>1, <2>1, <2>3, <2>4, ResultStepFact
    <2> QED
      BY <2>1, <2>3, <2>5, SameRefsFact DEF Step
  <1>10. Good(t, W) /\ Result(t, t) /\ SameRefs(t, t)
    BY StepFact DEF Step
  <1> HIDE DEF end, u
  <1>11. ~route_expired(r) => SameClaims(t, u)
    BY <1>3, <1>8, <1>9 DEF SameClaims, SameClaim
  <1>12. Good(u, W) /\ Result(t, u) /\ SameRefs(t, u)
    BY <1>3, <1>7, <1>8, <1>9, <1>10
  <1> QED
    BY <1>11, <1>12 DEF u

-----------------------------------------------------------------------------
(* References, and the operations that move them. *)

\* The same sources, up to the number of references.
SameDistances(src, new) ==
  \A id \in Ids :
    /\ new[id] = NoSource <=> src[id] = NoSource
    /\ src[id] # NoSource => /\ new[id].seqno = src[id].seqno
                             /\ new[id].metric = src[id].metric
                             /\ new[id].age = src[id].age

\* Counting references moves no distance.
LEMMA CountFact ==
  ASSUME NEW src \in [Ids -> Source \cup {NoSource}], NEW id \in Ids,
         src[id] # NoSource
  PROVE  /\ SameDistances(src, retain_source(src, id))
         /\ SameDistances(src, release_source(src, id))
  <1> DEFINE counts == {src[id].count + 1, src[id].count - 1}
  <1>1. src[id] \in Source /\ counts \subseteq Int
    BY DEF Source
  <1>2. ASSUME NEW n \in counts
        PROVE  SameDistances(src, [src EXCEPT ![id] = [src[id] EXCEPT !.count = n]])
    <2> DEFINE s == [src[id] EXCEPT !.count = n]
               new == [src EXCEPT ![id] = s]
    <2>1. /\ s \in Source /\ s.seqno = src[id].seqno /\ s.metric = src[id].metric
          /\ s.age = src[id].age
      BY <1>1 DEF Source
    <2>2. s # NoSource
      BY <2>1, SourceAssumption
    <2> HIDE DEF s
    <2>3. \A i \in Ids : new[i] = IF i = id THEN s ELSE src[i]
      OBVIOUS
    <2> HIDE DEF new
    <2>4. SameDistances(src, new)
      BY <2>1, <2>2, <2>3 DEF SameDistances
    <2> QED
      BY <2>4 DEF s, new
  <1>3. retain_source(src, id) = [src EXCEPT ![id] = [src[id] EXCEPT !.count = src[id].count + 1]]
    BY DEF retain_source
  <1>4. release_source(src, id) = [src EXCEPT ![id] = [src[id] EXCEPT !.count = src[id].count - 1]]
    BY DEF release_source
  <1> QED
    BY <1>2, <1>3, <1>4

\* A handler's result stays one when it goes on without sending, and keeps what
\* is believed of the routes.
LEMMA ResultKeepFact ==
  ASSUME NEW W \in Windows, NEW t \in Slot,
         \A id \in Ids : t.src[id] # NoSource => t.src[id].seqno \in W[id],
         NEW u, Good(u, W), Result(t, u), NEW v, Good(v, W),
         Listed(u) \subseteq Listed(v), \A p \in Listed(u) : SameClaim(u, v, p),
         v.self = u.self, v.xroute = u.xroute, v.sent = u.sent,
         SameDistances(u.src, v.src),
         \A p \in Paths : v.rt[p].installed => u.rt[p].installed
  PROVE  Result(t, v)
  <1>1. u \in Slot /\ v \in Slot /\ HeadOK(u)
    BY DEF Good, SlotOK
  <1>2. \A id \in Ids : Improves(u.src[id], v.src[id])
    <2> SUFFICES ASSUME NEW id \in Ids PROVE Improves(u.src[id], v.src[id])
      OBVIOUS
    <2>1. u.src[id] # NoSource => u.src[id].metric \in Nat /\ u.src[id].age \in Nat
      BY <1>1, FieldsFact
    <2> QED
      BY <2>1 DEF Improves, AsGood, SameDistances
  <1>3. ASSUME NEW id \in Ids PROVE Improves(t.src[id], v.src[id])
    <2>1. Improves(t.src[id], u.src[id]) /\ Improves(u.src[id], v.src[id])
      BY <1>2 DEF Result
    <2>2. /\ t.src[id] # NoSource => t.src[id].seqno \in W[id]
          /\ u.src[id] # NoSource => u.src[id].seqno \in W[id]
          /\ v.src[id] # NoSource => v.src[id].seqno \in W[id]
      BY DEF Good, Numbered
    <2> QED
      BY <1>1, <2>1, <2>2, FieldsFact, WindowFact, ImprovesFact
  <1>4. ASSUME NEW s \in v.sent \ t.sent PROVE Said(s.update, v)
    <2>1. Said(s.update, u) /\ s.update \in Update
      BY <1>1, <1>4, FieldsFact DEF Result
    <2>2. \A p \in Listed(u) : /\ v.rt[p].id = u.rt[p].id
                               /\ v.rt[p].seqno = u.rt[p].seqno
                               /\ v.rt[p].refmetric = u.rt[p].refmetric
      BY DEF SameClaim
    <2> QED
      BY <1>2, <2>1, <2>2, SaidFact
  <1>5. ASSUME NEW p \in Paths, v.rt[p].installed, ~t.rt[p].installed
        PROVE  update_feasible(t.src[v.rt[p].id], v.rt[p].seqno, v.rt[p].refmetric)
    <2>1. u.rt[p].installed
      BY <1>5
    <2>2. p \in Listed(u)
      <3>1. u.list # << >> /\ u.list[1] = p /\ u.list \in Seq(Paths)
        BY <1>1, <2>1, SlotFact DEF HeadOK
      <3> QED
        BY <3>1 DEF Listed
    <2> QED
      BY <1>5, <2>1, <2>2 DEF Result, SameClaim
  <1> QED
    BY <1>3, <1>4, <1>5 DEF Result

\* release_source at the end of a handler.
LEMMA ReleaseResultFact ==
  ASSUME NEW W \in Windows, NEW t \in Slot,
         \A id \in Ids : t.src[id] # NoSource => t.src[id].seqno \in W[id],
         NEW u, Good(u, W), Result(t, u), NEW id \in Ids, u.src[id] # NoSource,
         NEW v, v = Released(u, id)
  PROVE  Good(v, W) /\ Result(t, v) /\ v.rt = u.rt /\ Listed(v) = Listed(u)
  <1>1. SlotOK(u) /\ u \in Slot /\ Numbered(u, W) /\ Listed(u) \subseteq Paths
    BY FieldsFact DEF Good, SlotOK
  <1>2. /\ SlotOK(v) /\ v.xroute = u.xroute /\ v.self = u.self
        /\ v.list = u.list /\ v.rt = u.rt
    BY <1>1, ReleaseFact
  <1>3. v.sent = u.sent /\ v.src = release_source(u.src, id)
    <2> DEFINE src == release_source(u.src, id)
    <2>1. v = [u EXCEPT !.src = src]
      BY DEF Released
    <2> HIDE DEF src
    <2>2. v.sent = u.sent /\ v.src = src
      BY <1>1, <2>1, SMT DEF Slot
    <2> QED
      BY <2>2 DEF src
  <1>4. SameDistances(u.src, v.src)
    BY <1>1, <1>3, SlotFact, CountFact
  <1>5. Listed(v) = Listed(u)
    BY <1>2 DEF Listed
  <1>6. Good(v, W)
    BY <1>1, <1>2, <1>4, <1>5 DEF Good, Numbered, SameDistances
  <1>7. Result(t, v)
    BY <1>2, <1>3, <1>4, <1>5, <1>6, ResultKeepFact DEF SameClaim
  <1> QED
    BY <1>2, <1>5, <1>6, <1>7

\* flush_route: the other routes are believed as before.
LEMMA FlushRouteResultFact ==
  ASSUME NEW W \in Windows, NEW t, Good(t, W), NEW p \in Listed(t), NEW k
  PROVE  LET u == flush_route(t, p, k)
         IN  /\ Good(u, W) /\ Result(t, u) /\ Listed(u) = Listed(t) \ {p}
             /\ \A q \in Paths \ {p} : SameClaim(t, u, q)
             /\ u.rt[p].age = 0
  <1> DEFINE r == t.rt[p]
             u == uninstall_route(t, p)
             v == [u EXCEPT !.list = Unlink(u.list, p), !.rt[p] = NoRoute]
             w == IF r.installed THEN route_lost(v, r.id, route_metric(r), k) ELSE v
             z == Released(w, r.id)
  <1>1. SlotOK(t) /\ p \in Paths /\ r.id \in Ids /\ t.src[r.id] \in Source /\ t \in Slot
    BY ListedFact DEF Good
  <1>2. /\ SlotOK(u) /\ SameRefs(t, u) /\ u.list = t.list /\ u.src = t.src
        /\ ~u.rt[p].installed
    BY <1>1, UninstallFact
  <1>3. /\ SameClaims(t, u) /\ u.sent = t.sent
        /\ \A q \in Paths : u.rt[q].installed => t.rt[q].installed
    BY <1>1, UninstallStepFact DEF Step
  <1>4. flush_route(t, p, k) = z
    BY DEF flush_route, Released
  <1>5. p \in Listed(u) /\ u \in Slot
    BY <1>2 DEF SameRefs, SlotOK
  <1> HIDE DEF u
  <1>6. /\ SlotOK(v) /\ Listed(v) = Listed(u) \ {p} /\ v.src = u.src
        /\ \A q \in Paths \ {p} : v.rt[q] = u.rt[q]
        /\ v.xroute = u.xroute /\ v.self = u.self /\ v.up = u.up
    BY <1>2, <1>5, UnlinkRouteFact
  <1>7. v.sent = u.sent /\ v.rt[p] = NoRoute
    <2> DEFINE m == Unlink(u.list, p)
               rt == [u.rt EXCEPT ![p] = NoRoute]
    <2>1. v = [u EXCEPT !.list = m, !.rt = rt] /\ u.rt \in [Paths -> Route]
      BY <1>5, SlotFact
    <2>2. rt[p] = NoRoute
      BY <1>1, <2>1
    <2> HIDE DEF m, rt, v
    <2> QED
      BY <1>5, <2>1, <2>2, SMT DEF Slot
  <1> HIDE DEF v
  <1>8. Good(v, W) /\ Result(t, v)
    <2>1. Listed(v) \ {p} \subseteq Listed(t) /\ p \notin Listed(v)
      BY <1>2, <1>6 DEF SameRefs
    <2>2. \A q \in Paths \ {p} : SameClaim(t, v, q)
      BY <1>3, <1>6 DEF SameClaims, SameClaim
    <2>3. \A q \in Paths : v.rt[q].installed => t.rt[q].installed
      BY <1>3, <1>6, <1>7 DEF NoRoute
    <2> QED
      BY <1>1, <1>2, <1>3, <1>6, <1>7, <2>1, <2>2, <2>3, ClaimFact
  <1>9. v.src[r.id] # NoSource
    BY <1>1, <1>2, <1>6, SourceAssumption
  <1>10. Step(v, w, W)
    BY <1>1, <1>8, <1>9, LostStepFact, StepFact
  <1> HIDE DEF w
  <1>11. Good(w, W) /\ w.src[r.id] # NoSource /\ Listed(w) = Listed(v) /\ SameClaims(v, w)
    BY <1>1, <1>9, <1>10 DEF Step, SameRefs
  <1>12. \A id \in Ids : t.src[id] # NoSource => t.src[id].seqno \in W[id]
    BY DEF Good, Numbered
  <1>13. Result(t, w)
    BY <1>1, <1>8, <1>10, <1>12, ResultStepFact
  <1>14. Good(z, W) /\ Result(t, z) /\ z.rt = w.rt /\ Listed(z) = Listed(w)
    BY <1>1, <1>11, <1>12, <1>13, ReleaseResultFact
  <1> HIDE DEF z
  <1>15. Listed(z) = Listed(t) \ {p}
    BY <1>2, <1>6, <1>11, <1>14 DEF SameRefs
  <1>16. \A q \in Paths \ {p} : SameClaim(t, z, q)
    BY <1>3, <1>6, <1>11, <1>14 DEF SameClaims, SameClaim
  <1>17. z.rt[p].age = 0
    BY <1>1, <1>7, <1>11, <1>14 DEF SameClaims, SameClaim, NoRoute
  <1> QED
    BY <1>4, <1>14, <1>15, <1>16, <1>17

\* What update a that came through p may make of what is believed.
Believes(t, u, p, a) ==
  /\ \A q \in Paths \ {p} : SameClaim(t, u, q)
  /\ Listed(u) \ {p} \subseteq Listed(t)
  /\ u.rt[p].age \in {0, t.rt[p].age}
  /\ p \in Listed(u) =>
       \/ p \in Listed(t) /\ SameClaim(t, u, p)
       \/ u.rt[p].id = a.id /\ u.rt[p].seqno = a.seqno /\ u.rt[p].refmetric = a.metric

\* An update for a route of the list is believed, all of it.
LEMMA UpdateKnownResultFact ==
  ASSUME NEW W \in Windows, NEW t, Good(t, W), NEW p \in Listed(t), NEW a \in Update,
         a.seqno \in W[a.id], t.src[a.id] # NoSource, NEW cost \in Metric,
         NEW k, k.bad = {}
  PROVE  LET u == UpdateKnownRoute(t, p, a, cost, k)
         IN  Good(u, W) /\ Result(t, u) /\ Believes(t, u, p, a) /\ Listed(u) = Listed(t)
  <1> DEFINE r == t.rt[p]
             oldmetric == route_metric(r)
             feasible == update_feasible(t.src[a.id], a.seqno, a.metric)
             lost == ~feasible /\ r.installed /\ a.id # r.id
             refreshed == (feasible \/ keep_unfeasible) /\ a.metric < INFINITY
             t1 == IF lost THEN uninstall_route(t, p) ELSE t
             age == IF refreshed THEN 0 ELSE r.age
             r2 == [t1.rt[p] EXCEPT !.id = a.id, !.seqno = a.seqno, !.age = age]
             t2 == Replaced(t1, p, a.id, r2)
             t3 == change_route_metric(t2, p, a.metric, cost, AddMetric[p], k)
             t4 == route_changed(t3, p, r.id, oldmetric, k)
             t5 == IF lost THEN route_lost(t4, r.id, oldmetric, k) ELSE t4
             ask == send_unfeasible_request(
                      t5, NeighOf[p], t5.rt[p].installed /\ route_old(t5.rt[p]),
                      a.seqno, MIN(a.metric + cost + AddMetric[p], INFINITY), a.id)
             t6 == IF feasible THEN t5 ELSE ask
             u == Released(t6, r.id)
  <1>1. /\ SlotOK(t) /\ p \in Paths /\ r \in Route /\ r.id \in Ids
        /\ t.src[r.id] # NoSource /\ t \in Slot
    BY ListedFact, SourceAssumption DEF Good
  <1>2. a.id \in Ids /\ a.seqno \in Seqnos /\ a.metric \in Metric
        /\ AddMetric[p] \in Metric /\ NeighOf[p] \in Neighs
    BY <1>1, MetricAssumption, PathAssumption DEF Update
  <1>3. /\ SlotOK(t1) /\ SameRefs(t, t1) /\ SameClaims(t, t1)
        /\ t1.src = t.src /\ t1.sent = t.sent
        /\ \A q \in Paths : t1.rt[q].installed => t.rt[q].installed
    <2>1. Step(t, t1, W) /\ t1.src = t.src /\ t1.sent = t.sent
          /\ \A q \in Paths : t1.rt[q].installed => t.rt[q].installed
      BY <1>1, UninstallStepFact, StepFact
    <2> HIDE DEF t1
    <2> QED
      BY <2>1 DEF Step, Good
  <1>4. p \in Listed(t1) /\ t1.rt[p] \in Route /\ t1.src[a.id] # NoSource
    BY <1>2, <1>3, ListedFact DEF SameRefs
  <1>5. age \in 0 .. MaxAge /\ age \in {0, r.age}
    BY <1>1, BoundsFact DEF Route
  <1>6. r2 \in Route
    <2> HIDE DEF age, t1
    <2> QED
      BY <1>2, <1>4, <1>5, Zenon DEF Route
  <1>7. /\ r2.id = a.id /\ r2.installed = t1.rt[p].installed /\ r2.seqno = a.seqno
        /\ r2.age = age
    <2> HIDE DEF age, t1
    <2> QED
      BY <1>4, SMT DEF Route
  <1>8. UpdateKnownRoute(t, p, a, cost, k) = u
    BY DEF UpdateKnownRoute, Replaced, Released
  <1> HIDE DEF t1, r2, age
  <1>9. /\ SlotOK(t2) /\ Listed(t2) = Listed(t1)
        /\ t2.rt[p] = r2 /\ \A q \in Paths \ {p} : t2.rt[q] = t1.rt[q]
        /\ t2.self = t1.self /\ t2.xroute = t1.xroute
    BY <1>3, <1>4, <1>6, <1>7, ReplaceFact
  <1>10. t2.src = retain_source(t1.src, a.id) /\ t2.sent = t1.sent
    <2> DEFINE src == retain_source(t1.src, a.id)
               rt == [t1.rt EXCEPT ![p] = r2]
    <2>1. t2 = [t1 EXCEPT !.src = src, !.rt = rt] /\ t1 \in Slot
      BY <1>3 DEF Replaced, SlotOK
    <2> HIDE DEF src, rt, t2
    <2>2. t2.src = src /\ t2.sent = t1.sent
      BY <2>1, SMT DEF Slot
    <2> QED
      BY <2>2 DEF src
  <1> HIDE DEF t2
  <1>11. SameDistances(t.src, t2.src)
    BY <1>1, <1>2, <1>3, <1>4, <1>10, SlotFact, CountFact
  <1>12. SlotOK(t3) /\ SameRefs(t2, t3)
    BY <1>1, <1>2, <1>9, ChangeMetricFact
  <1>13. /\ t3.src = t2.src /\ t3.sent = t2.sent
         /\ \A q \in Paths \ {p} : t3.rt[q] = t2.rt[q]
         /\ t3.rt[p].id = t2.rt[p].id /\ t3.rt[p].seqno = t2.rt[p].seqno
         /\ t3.rt[p].refmetric = a.metric /\ t3.rt[p].age = t2.rt[p].age
         /\ t3.rt[p].installed = t2.rt[p].installed
    <2>1. t2 \in Slot /\ p \in Paths
      BY <1>1, <1>9 DEF SlotOK
    <2> DEFINE m == a.metric
               add == AddMetric[p]
    <2>2. m \in Metric /\ add \in Metric
      BY <1>2
    <2>3. t3 = change_route_metric(t2, p, m, cost, add, k)
      OBVIOUS
    <2> HIDE DEF m, add, t3
    <2>4. /\ t3.src = t2.src /\ t3.sent = t2.sent
          /\ \A q \in Paths \ {p} : t3.rt[q] = t2.rt[q]
          /\ t3.rt[p].id = t2.rt[p].id /\ t3.rt[p].seqno = t2.rt[p].seqno
          /\ t3.rt[p].refmetric = m /\ t3.rt[p].age = t2.rt[p].age
          /\ t3.rt[p].installed = t2.rt[p].installed
      BY <2>1, <2>2, <2>3, ChangeFieldsFact, SMTT(40)
    <2> QED
      BY <2>4 DEF m
  <1> HIDE DEF t3
  <1>14. Listed(t3) = Listed(t) /\ p \in Listed(t3)
    BY <1>3, <1>9, <1>12 DEF SameRefs
  <1>15. \A q \in Paths \ {p} : SameClaim(t, t3, q)
    BY <1>3, <1>9, <1>13 DEF SameClaims, SameClaim
  <1>16. Good(t3, W) /\ Result(t, t3)
    <2>1. \A q \in Paths : t3.rt[q].installed => t.rt[q].installed
      BY <1>3, <1>7, <1>9, <1>13
    <2>2. t3.rt[p].seqno \in W[t3.rt[p].id] /\ t3.sent = t.sent
      BY <1>3, <1>7, <1>9, <1>10, <1>13
    <2>3. SameDistances(t.src, t3.src)
      BY <1>11, <1>13
    <2> QED
      BY <1>1, <1>12, <1>14, <1>15, <2>1, <2>2, <2>3, ClaimFact DEF SameDistances
  <1>17. Step(t3, t4, W)
    BY <1>14, <1>16, ChangedStepFact
  <1> HIDE DEF t4
  <1>18. t3.src[r.id] # NoSource /\ t3.src[a.id] # NoSource
    BY <1>1, <1>2, <1>11, <1>13 DEF SameDistances
  <1>19. Good(t4, W) /\ t4.src[r.id] # NoSource
    BY <1>1, <1>17, <1>18 DEF Step, SameRefs
  <1>20. Step(t4, t5, W)
    BY <1>1, <1>19, LostStepFact, StepFact
  <1> HIDE DEF t5
  <1>21. Step(t3, t5, W)
    BY <1>16, <1>17, <1>20, StepFact
  <1>22. Good(t5, W) /\ t5.src[a.id] # NoSource
    BY <1>2, <1>18, <1>21 DEF Step, SameRefs
  <1>23. Step(t5, t6, W)
    BY <1>2, <1>22, RequestStepFact, StepFact
  <1> HIDE DEF t6
  <1>24. Step(t3, t6, W)
    BY <1>16, <1>21, <1>23, StepFact
  <1>25. /\ Good(t6, W) /\ t6.src[r.id] # NoSource /\ Listed(t6) = Listed(t3)
         /\ SameClaims(t3, t6)
    BY <1>1, <1>18, <1>24 DEF Step, SameRefs
  <1>26. \A id \in Ids : t.src[id] # NoSource => t.src[id].seqno \in W[id]
    BY DEF Good, Numbered
  <1>27. Result(t, t6)
    BY <1>1, <1>16, <1>24, <1>26, ResultStepFact
  <1>28. Good(u, W) /\ Result(t, u) /\ u.rt = t6.rt /\ Listed(u) = Listed(t6)
    BY <1>1, <1>25, <1>26, <1>27, ReleaseResultFact
  <1> HIDE DEF u
  <1>29. Believes(t, u, p, a)
    <2>1. \A q \in Paths \ {p} : SameClaim(t, u, q)
      BY <1>15, <1>25, <1>28 DEF SameClaims, SameClaim
    <2>2. u.rt[p].id = a.id /\ u.rt[p].seqno = a.seqno /\ u.rt[p].refmetric = a.metric
          /\ u.rt[p].age \in {0, r.age}
      BY <1>1, <1>5, <1>7, <1>9, <1>13, <1>25, <1>28 DEF SameClaims, SameClaim
    <2> QED
      BY <1>14, <1>25, <1>28, <2>1, <2>2 DEF Believes
  <1> QED
    BY <1>8, <1>14, <1>25, <1>28, <1>29

\* An update for a route that is not in the list may add it.
LEMMA UpdateNewResultFact ==
  ASSUME NEW W \in Windows, NEW t, Good(t, W), NEW p \in Paths, p \notin Listed(t),
         NEW a \in Update, a.seqno \in W[a.id], t.src[a.id] # NoSource,
         NEW cost \in Metric, NEW k
  PROVE  LET u == UpdateNewRoute(t, p, a, cost, k)
         IN  /\ Good(u, W) /\ Result(t, u) /\ Believes(t, u, p, a)
             /\ a.metric >= INFINITY => u = t
  <1> DEFINE feasible == update_feasible(t.src[a.id], a.seqno, a.metric)
             metric == MIN(a.metric + cost + AddMetric[p], INFINITY)
             ask == send_unfeasible_request(
                      t, NeighOf[p], FALSE, a.seqno, metric, a.id)
             t1 == IF feasible THEN t ELSE ask
             r == [id |-> a.id, seqno |-> a.seqno, refmetric |-> a.metric,
                   cost |-> cost, add |-> AddMetric[p],
                   smoothed |-> Kept(MAX(metric, INFINITY \div 2)),
                   age |-> 0, installed |-> FALSE]
             t2 == Added(t1, p, a.id, r)
             u == consider_route(t2, p, k)
             end == UpdateNewRoute(t, p, a, cost, k)
  <1>1. a.id \in Ids /\ a.seqno \in Seqnos /\ a.metric \in Metric
        /\ AddMetric[p] \in Metric /\ NeighOf[p] \in Neighs /\ t \in Slot
    BY MetricAssumption, PathAssumption DEF Update, Good, SlotOK
  <1>2. Step(t, t1, W)
    BY <1>1, RequestStepFact, StepFact
  <1>3. end \in {t, t1, u} /\ (a.metric >= INFINITY => end = t)
    BY DEF UpdateNewRoute, Added
  <1>4. metric \in Metric
    BY <1>1, SumFact
  <1> HIDE DEF t1, metric
  <1>5. Kept(MAX(metric, INFINITY \div 2)) \in Metric
    BY <1>4, BoundsFact DEF Kept
  <1>6. r \in Route
    BY <1>1, <1>5, BoundsFact DEF Route
  <1>7. /\ r.id = a.id /\ ~r.installed /\ r.seqno = a.seqno /\ r.refmetric = a.metric
        /\ r.age = 0
    OBVIOUS
  <1> HIDE DEF feasible, r
  <1>8. /\ Good(t1, W) /\ SlotOK(t1) /\ p \notin Listed(t1) /\ t1.src[a.id] # NoSource
        /\ SameClaims(t, t1) /\ Listed(t1) = Listed(t) /\ Result(t, t1)
        /\ t1 \in Slot /\ Listed(t) \subseteq Paths
    BY <1>1, <1>2, FieldsFact DEF Step, Good, SameRefs, SlotOK
  <1>9. /\ SlotOK(t2) /\ Listed(t2) = Listed(t1) \cup {p}
        /\ t2.rt[p] = r /\ \A q \in Paths \ {p} : t2.rt[q] = t1.rt[q]
        /\ t2.xroute = t1.xroute /\ t2.self = t1.self
    BY <1>6, <1>7, <1>8, AddFact
  <1>10. t2.src = retain_source(t1.src, a.id) /\ t2.sent = t1.sent
    <2> DEFINE src == retain_source(t1.src, a.id)
               rt == [t1.rt EXCEPT ![p] = r]
               m == Append(t1.list, p)
    <2>1. t2 = [t1 EXCEPT !.src = src, !.rt = rt, !.list = m]
      BY DEF Added
    <2> HIDE DEF src, rt, m, t2
    <2>2. t2.src = src /\ t2.sent = t1.sent
      BY <1>8, <2>1, SMT DEF Slot
    <2> QED
      BY <2>2 DEF src
  <1> HIDE DEF t2
  <1>11. SameDistances(t1.src, t2.src)
    BY <1>1, <1>8, <1>10, SlotFact, CountFact
  <1>12. \A q \in Listed(t1) : q # p /\ q \in Paths /\ SameClaim(t1, t2, q)
    BY <1>8, <1>9 DEF SameClaim
  <1>13. Good(t2, W)
    <2>1. \A q \in Listed(t2) :
            t2.rt[q].refmetric < INFINITY => t2.rt[q].seqno \in W[t2.rt[q].id]
      BY <1>7, <1>8, <1>9, <1>12 DEF Good, Numbered, SameClaim
    <2>2. \A id \in Ids : t2.src[id] # NoSource => t2.src[id].seqno \in W[id]
      BY <1>8, <1>11 DEF Good, Numbered, SameDistances
    <2> QED
      BY <1>9, <2>1, <2>2 DEF Good, Numbered
  <1>14. \A id \in Ids : t.src[id] # NoSource => t.src[id].seqno \in W[id]
    BY DEF Good, Numbered
  <1>15. Result(t, t2)
    <2>1. \A q \in Paths : t2.rt[q].installed => t1.rt[q].installed
      BY <1>7, <1>9
    <2>2. Listed(t1) \subseteq Listed(t2)
      BY <1>9
    <2> QED
      BY <1>1, <1>8, <1>9, <1>10, <1>11, <1>12, <1>13, <1>14, <2>1, <2>2, ResultKeepFact
  <1>16. Step(t2, u, W)
    BY <1>9, <1>13, ConsiderStepFact
  <1> HIDE DEF u
  <1>17. Result(t, u)
    BY <1>1, <1>13, <1>14, <1>15, <1>16, ResultStepFact
  <1>18. Good(u, W) /\ Listed(u) = Listed(t2) /\ SameClaims(t2, u)
    BY <1>16 DEF Step, SameRefs
  <1>19. Believes(t, u, p, a)
    <2>1. \A q \in Paths \ {p} : SameClaim(t, u, q)
      BY <1>8, <1>9, <1>18 DEF SameClaims, SameClaim
    <2>2. u.rt[p].id = a.id /\ u.rt[p].seqno = a.seqno /\ u.rt[p].refmetric = a.metric
          /\ u.rt[p].age = 0
      BY <1>7, <1>9, <1>18 DEF SameClaims, SameClaim
    <2> QED
      BY <1>8, <1>9, <1>18, <2>1, <2>2 DEF Believes
  <1>20. Believes(t, t1, p, a) /\ Believes(t, t, p, a)
    BY <1>8 DEF Believes, SameClaims, SameClaim
  <1>21. Result(t, t)
    BY StepFact DEF Step
  <1> HIDE DEF end
  <1>22. /\ Good(end, W) /\ Result(t, end) /\ Believes(t, end, p, a)
         /\ a.metric >= INFINITY => end = t
    BY <1>3, <1>8, <1>17, <1>18, <1>19, <1>20, <1>21
  <1> QED
    BY <1>22 DEF end

\* update_route.  A route that we hear of with our own router-id is ignored, and
\* so is the retraction of a route that is not known.
LEMMA UpdateRouteResultFact ==
  ASSUME NEW W \in Windows, NEW t, Good(t, W), RefsOK(t), NEW p \in Paths,
         NEW a \in Update, a.seqno \in W[a.id], NEW cost \in Metric, NEW k, k.bad = {}
  PROVE  LET u == update_route(t, p, a, cost, k)
         IN  /\ Good(u, W) /\ Result(t, u) /\ Believes(t, u, p, a)
             /\ a.id = t.self.id => u = t
             /\ a.metric >= INFINITY /\ p \notin Listed(t) => Listed(u) = Listed(t)
  <1> DEFINE t1 == [t EXCEPT !.src = find_source(t.src, a.id, a.seqno)]
             known == UpdateKnownRoute(t1, p, a, cost, k)
             new == UpdateNewRoute(t1, p, a, cost, k)
             u == update_route(t, p, a, cost, k)
  <1>1. u \in {t} \cup {v \in {known} : p \in Listed(t)} \cup {v \in {new} : p \notin Listed(t)}
        /\ (a.id = t.self.id => u = t)
    BY DEF update_route
  <1>2. a.id \in Ids /\ a.seqno \in Seqnos /\ SlotOK(t) /\ t \in Slot
        /\ t.src \in [Ids -> Source \cup {NoSource}]
    BY SlotFact DEF Update, Good, SlotOK
  <1>3. /\ SlotOK(t1) /\ SameEnv(t, t1) /\ Listed(t1) = Listed(t)
        /\ t1.src[a.id] # NoSource
    BY <1>2, FindSourceFact
  <1>4. t1.rt = t.rt /\ t1.sent = t.sent /\ t1.src = find_source(t.src, a.id, a.seqno)
    <2> DEFINE src == find_source(t.src, a.id, a.seqno)
    <2>1. t1 = [t EXCEPT !.src = src]
      OBVIOUS
    <2> HIDE DEF src, t1
    <2>2. t1.rt = t.rt /\ t1.sent = t.sent /\ t1.src = src
      BY <1>2, <2>1, SMT DEF Slot
    <2> QED
      BY <2>2 DEF src
  <1> HIDE DEF t1
  <1>5. \A id \in Ids : \/ t1.src[id] = t.src[id]
                        \/ /\ t.src[id] = NoSource /\ id = a.id
                           /\ t1.src[id].seqno = a.seqno /\ ~SourceStale(t1.src[id])
    BY <1>2, <1>4, TimeAssumption DEF find_source, SourceStale
  <1>6. Good(t1, W) /\ Result(t, t1)
    BY <1>2, <1>3, <1>4, <1>5, ClaimFact, SMTT(40) DEF SameClaim, Good, Numbered
  <1>7. \A id \in Ids : t.src[id] # NoSource => t.src[id].seqno \in W[id]
    BY DEF Good, Numbered
  \* Nothing is sent by find_source, and no distance that was known is moved.
  <1>8. ASSUME NEW v, Good(v, W), Result(t1, v), Believes(t1, v, p, a)
        PROVE  Result(t, v) /\ Believes(t, v, p, a)
    <2>1. Believes(t, v, p, a)
      BY <1>3, <1>4, <1>8 DEF Believes, SameClaim
    <2>2. ASSUME NEW id \in Ids PROVE Improves(t.src[id], v.src[id])
      <3>1. CASE t1.src[id] = t.src[id]
        BY <1>8, <3>1 DEF Result
      <3>2. CASE t.src[id] = NoSource
        <4>1. Improves(t.src[id], t1.src[id]) /\ Improves(t1.src[id], v.src[id])
          BY <1>6, <1>8 DEF Result
        <4>2. /\ W[id] \in SUBSET Seqnos /\ Linear(W[id])
              /\ (t1.src[id] # NoSource => t1.src[id].seqno \in W[id])
              /\ (v.src[id] # NoSource => v.src[id].seqno \in W[id])
          BY <1>6, <1>8, WindowFact DEF Good, Numbered
        <4>3. /\ t1.src[id] \in Source \cup {NoSource}
              /\ v.src[id] \in Source \cup {NoSource}
          BY <1>3, <1>8, FieldsFact DEF Good, SlotOK
        <4> QED
          BY <3>2, <4>1, <4>2, <4>3, ImprovesFact
      <3> QED
        BY <1>5, <3>1, <3>2
    <2>3. \A s \in v.sent \ t.sent : Said(s.update, v)
      BY <1>4, <1>8 DEF Result
    <2>4. ASSUME NEW q \in Paths, v.rt[q].installed, ~t.rt[q].installed
          PROVE  update_feasible(t.src[v.rt[q].id], v.rt[q].seqno, v.rt[q].refmetric)
      <3>1. update_feasible(t1.src[v.rt[q].id], v.rt[q].seqno, v.rt[q].refmetric)
        BY <1>4, <1>8, <2>4 DEF Result
      <3>2. v.rt[q].id \in Ids
        BY <1>8, FieldsFact DEF Good, SlotOK
      <3>3. CASE t1.src[v.rt[q].id] = t.src[v.rt[q].id]
        BY <3>1, <3>3
      <3>4. CASE t.src[v.rt[q].id] = NoSource
        BY <3>4 DEF update_feasible
      <3> QED
        BY <1>5, <3>2, <3>3, <3>4
    <2> QED
      BY <2>1, <2>2, <2>3, <2>4 DEF Result
  <1>9. p \in Listed(t) => Good(known, W) /\ Result(t, known) /\ Believes(t, known, p, a)
    BY <1>3, <1>6, <1>8, UpdateKnownResultFact
  <1>10. p \notin Listed(t) =>
           /\ Good(new, W) /\ Result(t, new) /\ Believes(t, new, p, a)
           /\ a.metric >= INFINITY => Listed(new) = Listed(t)
    <2> SUFFICES ASSUME p \notin Listed(t)
                 PROVE  /\ Good(new, W) /\ Result(t, new) /\ Believes(t, new, p, a)
                        /\ a.metric >= INFINITY => Listed(new) = Listed(t)
      OBVIOUS
    <2>1. p \notin Listed(t1)
      BY <1>3
    <2>2. /\ Good(new, W) /\ Result(t1, new) /\ Believes(t1, new, p, a)
          /\ a.metric >= INFINITY => new = t1
      BY <1>3, <1>6, <2>1, UpdateNewResultFact
    <2> HIDE DEF new
    <2> QED
      BY <1>3, <1>8, <2>2
  <1>11. Good(t, W) /\ Result(t, t) /\ Believes(t, t, p, a)
    <2>1. Result(t, t)
      BY StepFact DEF Step
    <2> QED
      BY <2>1 DEF Believes, SameClaim
  <1> HIDE DEF known, new, u
  <1>12. /\ Good(u, W) /\ Result(t, u) /\ Believes(t, u, p, a)
         /\ a.id = t.self.id => u = t
         /\ a.metric >= INFINITY /\ p \notin Listed(t) => Listed(u) = Listed(t)
    BY <1>1, <1>9, <1>10, <1>11
  <1> QED
    BY <1>12 DEF u

-----------------------------------------------------------------------------
(* Our own route comes and goes: what was sent of it is no longer true at   *)
(* the end of the handler, but distances and installed routes are kept.     *)

Judged(t, u) ==
  /\ \A id \in Ids : Improves(t.src[id], u.src[id])
  /\ \A p \in Paths : u.rt[p].installed /\ ~t.rt[p].installed =>
       update_feasible(t.src[u.rt[p].id], u.rt[p].seqno, u.rt[p].refmetric)

Selects(t, u, W) == Good(u, W) /\ SameClaims(t, u) /\ Judged(t, u)

\* Sending and selecting is selecting, and so is doing it twice.
LEMMA SelectsFact ==
  ASSUME NEW W \in Windows, NEW t, Good(t, W)
  PROVE  /\ \A u : Step(t, u, W) => Selects(t, u, W)
         /\ \A u, v : Selects(t, u, W) /\ Selects(u, v, W) => Selects(t, v, W)
  <1>1. \A u : Step(t, u, W) => Selects(t, u, W)
    BY DEF Step, Result, Judged, Selects
  <1>2. ASSUME NEW u, NEW v, Selects(t, u, W), Selects(u, v, W)
        PROVE  Selects(t, v, W)
    <2>1. /\ Good(u, W) /\ Good(v, W) /\ SameClaims(t, u) /\ SameClaims(u, v)
          /\ Judged(t, u) /\ Judged(u, v)
          /\ t \in Slot /\ u \in Slot /\ v \in Slot /\ HeadOK(v)
      BY <1>2 DEF Selects, Good, SlotOK
    <2>2. SameClaims(t, v)
      BY <2>1 DEF SameClaims, SameClaim
    <2>3. ASSUME NEW id \in Ids
          PROVE  /\ Improves(t.src[id], u.src[id]) /\ Improves(u.src[id], v.src[id])
                 /\ t.src[id] \in Source \cup {NoSource}
                 /\ u.src[id] \in Source \cup {NoSource}
                 /\ v.src[id] \in Source \cup {NoSource}
                 /\ t.src[id] # NoSource => t.src[id].seqno \in W[id]
                 /\ u.src[id] # NoSource => u.src[id].seqno \in W[id]
                 /\ v.src[id] # NoSource => v.src[id].seqno \in W[id]
                 /\ W[id] \in SUBSET Seqnos /\ Linear(W[id])
      BY <2>1, FieldsFact, WindowFact DEF Judged, Good, Numbered
    <2>4. \A id \in Ids : Improves(t.src[id], v.src[id])
      BY <2>3, ImprovesFact
    <2>5. ASSUME NEW p \in Paths, v.rt[p].installed, ~t.rt[p].installed
          PROVE  update_feasible(t.src[v.rt[p].id], v.rt[p].seqno, v.rt[p].refmetric)
      <3> DEFINE id == v.rt[p].id
                 seqno == v.rt[p].seqno
                 metric == v.rt[p].refmetric
      <3>1. u.rt[p].id = id /\ u.rt[p].seqno = seqno /\ u.rt[p].refmetric = metric
        BY <2>1 DEF SameClaims, SameClaim
      <3>2. id \in Ids /\ seqno \in Seqnos /\ metric \in Metric
        BY <2>1, FieldsFact
      <3>3. CASE u.rt[p].installed
        BY <2>1, <2>5, <3>1, <3>3 DEF Judged
      <3>4. CASE ~u.rt[p].installed
        <4>1. update_feasible(u.src[id], seqno, metric)
          BY <2>1, <2>5, <3>4 DEF Judged
        <4>2. p \in Listed(v)
          <5>1. v.list # << >> /\ v.list[1] = p /\ v.list \in Seq(Paths)
            BY <2>1, <2>5, SlotFact DEF HeadOK
          <5> QED
            BY <5>1 DEF Listed
        <4>3. metric < INFINITY => seqno \in W[id]
          BY <2>1, <4>2 DEF Good, Numbered
        <4> HIDE DEF id, seqno, metric
        <4>4. update_feasible(t.src[id], seqno, metric)
          BY <2>3, <3>2, <4>1, <4>3, FeasibleFact
        <4> QED
          BY <4>4 DEF id, seqno, metric
      <3> QED
        BY <3>3, <3>4
    <2> QED
      BY <2>1, <2>2, <2>4, <2>5 DEF Selects, Judged
  <1> QED
    BY <1>1, <1>2

\* The metric of our own route is all that changes.
LEMMA XrouteSelectsFact ==
  ASSUME NEW W \in Windows, NEW t, Good(t, W), RefsOK(t), NEW m \in Metric,
         allow_duplicates < 0 /\ m < INFINITY => \A p \in Paths : ~t.rt[p].installed
  PROVE  LET u == [t EXCEPT !.xroute = m]
         IN  Selects(t, u, W) /\ RefsOK(u) /\ u.xroute = m
  <1> DEFINE u == [t EXCEPT !.xroute = m]
  <1>1. SlotOK(t) /\ t \in Slot /\ \A id \in Ids : Improves(t.src[id], t.src[id])
    BY StepFact DEF Step, Result, Good, SlotOK
  <1>2. SlotOK(u) /\ RefsOK(u) /\ u.list = t.list /\ u.rt = t.rt /\ u.xroute = m
    BY <1>1, XrouteFact
  <1>3. u.src = t.src
    BY <1>1, SMT DEF Slot
  <1> HIDE DEF u
  <1>4. Numbered(u, W) /\ SameClaims(t, u)
    BY <1>2, <1>3 DEF Good, Numbered, Listed, SameClaims, SameClaim
  <1>5. Judged(t, u)
    BY <1>1, <1>2, <1>3 DEF Judged
  <1> QED
    BY <1>2, <1>4, <1>5 DEF Selects, Good, u

\* The exported route goes: the best of the feasible routes takes its place.
LEMMA FlushXrouteSelectsFact ==
  ASSUME NEW W \in Windows, NEW t, Good(t, W), RefsOK(t), NEW k
  PROVE  Selects(t, FlushXroute(t, k), W)
  <1> DEFINE u == [t EXCEPT !.xroute = INFINITY]
             b == find_best_route(u)
             v == IF b = NoPath THEN u ELSE install_route(u, b, k)
             w == send_update_resend(v, k)
  <1>1. FlushXroute(t, k) = w
    BY DEF FlushXroute
  <1>2. Selects(t, u, W) /\ u.xroute = INFINITY
    <2>1. INFINITY \in Metric /\ ~(INFINITY < INFINITY)
      BY BoundsFact, MetricAssumption
    <2> QED
      BY <2>1, XrouteSelectsFact
  <1> HIDE DEF u
  <1>3. Good(u, W) /\ u \in Slot
    BY <1>2 DEF Selects, Good, SlotOK
  <1>4. Step(u, v, W)
    <2>1. CASE b = NoPath
      BY <1>3, <2>1, StepFact
    <2>2. CASE b # NoPath
      <3>1. b \in Listed(u) /\ route_feasible(u, b)
        BY <1>3, <2>2, BestFact DEF route_acceptable
      <3>2. ~(allow_duplicates < 0 /\ u.xroute < INFINITY)
        BY <1>2, MetricAssumption
      <3> QED
        BY <1>3, <2>2, <3>1, <3>2, InstallStepFact
    <2> QED
      BY <2>1, <2>2
  <1> HIDE DEF v
  <1>5. Step(v, w, W)
    BY <1>4, SendStepFact DEF Step
  <1> HIDE DEF w
  <1>6. Selects(u, w, W)
    BY <1>3, <1>4, <1>5, StepFact, SelectsFact
  <1> QED
    BY <1>1, <1>2, <1>6, SelectsFact

\* Our own route appears: nothing is installed.
LEMMA AddXrouteSelectsFact ==
  ASSUME NEW W \in Windows, NEW t, Good(t, W), RefsOK(t), NEW m \in Metric,
         NEW prio, NEW k
  PROVE  Selects(t, AddXroute(t, m, prio, k), W)
  <1> DEFINE u == [t EXCEPT !.xroute = m]
             p == find_installed_route(t)
             out == uninstall_route(t, p)
             v == [out EXCEPT !.xroute = m]
  <1>1. t \in Slot /\ HeadOK(t) /\ SlotOK(t)
    BY DEF Good, SlotOK
  <1>2. u.list = t.list /\ u.rt = t.rt
    BY <1>1, SMT DEF Slot
  <1>3. find_installed_route(u) = p
    <2> HIDE DEF u
    <2> QED
      BY <1>2 DEF find_installed_route
  <1>4. p # NoPath => p \in Paths /\ t.rt[p].installed
    BY <1>1, InstalledFact
  <1>5. p = NoPath => \A q \in Paths : ~t.rt[q].installed
    BY <1>1, PathAssumption DEF HeadOK, find_installed_route
  <1>6. p # NoPath => uninstall_route(u, p) = v
    BY <1>1, <1>4, UninstallCommutes
  <1>7. AddXroute(t, m, prio, k) \in
          {t} \cup {send_update(w, k) : w \in
                      {w \in {v} : p # NoPath} \cup
                      {w \in {u} : p = NoPath \/ ~(allow_duplicates < 0)}}
    <2> HIDE DEF v, p
    <2> QED
      BY <1>3, <1>6 DEF AddXroute
  <1>8. p # NoPath => Selects(t, v, W)
    <2> SUFFICES ASSUME p # NoPath PROVE Selects(t, v, W)
      OBVIOUS
    <2>1. /\ Step(t, out, W) /\ SameRefs(t, out)
          /\ \A q \in Paths : ~out.rt[q].installed
      BY <1>1, <1>4, UninstallFact, UninstallStepFact
    <2> HIDE DEF out
    <2>2. RefsOK(out) /\ Good(out, W)
      BY <1>1, <2>1, SameRefsOK DEF Step
    <2>3. Selects(out, v, W)
      BY <2>1, <2>2, XrouteSelectsFact
    <2> HIDE DEF v
    <2> QED
      BY <2>1, <2>3, SelectsFact
  <1>9. p = NoPath \/ ~(allow_duplicates < 0) => Selects(t, u, W)
    BY <1>5, XrouteSelectsFact
  <1> HIDE DEF u, v, p
  <1>10. ASSUME NEW w, Selects(t, w, W)
         PROVE  Selects(t, send_update(w, k), W)
    <2>1. Good(w, W)
      BY <1>10 DEF Selects
    <2>2. Selects(w, send_update(w, k), W)
      BY <2>1, SendStepFact, SelectsFact
    <2> QED
      BY <1>10, <2>2, SelectsFact
  <1>11. Selects(t, t, W)
    BY StepFact, SelectsFact
  <1> QED
    BY <1>7, <1>8, <1>9, <1>10, <1>11

\* check_xroutes.
LEMMA CheckXroutesSelectsFact ==
  ASSUME NEW W \in Windows, NEW t, Good(t, W), RefsOK(t), NEW m \in Metric,
         NEW prio, NEW k
  PROVE  Selects(t, check_xroutes(t, m, prio, k), W)
  <1> DEFINE f == FlushXroute(t, k)
             u == IF t.xroute < INFINITY /\ m # t.xroute THEN f ELSE t
             v == AddXroute(u, m, prio, k)
  <1>1. check_xroutes(t, m, prio, k) \in {u, v}
    BY DEF check_xroutes
  <1>2. SlotOK(t)
    BY DEF Good
  <1>3. Selects(t, f, W) /\ RefsOK(f)
    BY <1>2, FlushXrouteFact, FlushXrouteSelectsFact
  <1> HIDE DEF f
  <1>4. Selects(t, u, W) /\ RefsOK(u) /\ Good(u, W)
    BY <1>3, StepFact, SelectsFact DEF Selects
  <1> HIDE DEF u
  <1>5. Selects(u, v, W)
    BY <1>4, AddXrouteSelectsFact
  <1> HIDE DEF v
  <1>6. Selects(t, v, W)
    BY <1>4, <1>5, SelectsFact
  <1> QED
    BY <1>1, <1>4, <1>6

=============================================================================
