---------------------------- MODULE BabelProofs ----------------------------
(***************************************************************************)
(* Theorems of Babel, for every network, any costs and filters, and any    *)
(* loss and reordering of updates: feasibility distances bound what the    *)
(* neighbours believe, and feasible routes make no loop.                   *)
(*                                                                         *)
(* The origin goes through less than half of the circle of sequence        *)
(* numbers, so that newer is an order on the numbers it used (Window).     *)
(* The bound of a neighbour's belief is kept by each step because          *)
(*   - what is sent is no better than the sender's distance (Said),        *)
(*   - distances only improve (Improves), and                              *)
(*   - what is believed is what some message in flight said (Believes).    *)
(***************************************************************************)
EXTENDS Babel, RouteProofs

\* The sequence numbers of the origin; no other router originates anything.
Window ==
  [id \in Ids |-> IF id = Origin
                    THEN {seqno_plus(FirstSeqno, b) : b \in 0 .. MaxBumps}
                    ELSE {0}]

\* Routes and sources of one router.
RouterOK(t) ==
  /\ Good(t, Window) /\ RefsOK(t)
  /\ \A p \in Paths : t.rt[p].age = 0
  /\ \A id \in Ids : t.src[id] # NoSource => ~SourceStale(t.src[id])
  /\ \A p \in Listed(t) : /\ t.rt[p].seqno \in Window[t.rt[p].id]
                          /\ t.rt[p].refmetric < INFINITY => t.rt[p].id = Origin

MessageOK(m) ==
  /\ m.from \in Nodes /\ m.to \in Nodes /\ m.update \in Update
  /\ m.update.seqno \in Window[m.update.id]
  /\ m.update.metric < INFINITY => m.update.id = Origin

\* Source s is known, and its distance is no worse.
Bounds(s, seqno, metric) ==
  s # NoSource /\ AsGood(s.seqno, s.metric, seqno, metric)

StateOK ==
  /\ list \in [Nodes -> Seq(Paths)]
  /\ rt \in [Nodes -> [Paths -> Route]]
  /\ src \in [Nodes -> [Ids -> Source \cup {NoSource}]]
  /\ update \in [Nodes -> SUBSET Ifaces]
  /\ myseqno \in Window[Origin]

IInv ==
  /\ StateOK
  /\ list[Origin] = << >>
  /\ \A n \in Nodes : RouterOK(Table(n))
  /\ \A m \in net : MessageOK(m)
  /\ DistanceBoundsUpdates

-----------------------------------------------------------------------------
(* The window. *)

\* Numbers of the window differ by less than half of the circle, so that they
\* compare as their distances from the first do.
LEMMA OffsetFact ==
  ASSUME NEW a \in 0 .. MaxBumps, NEW b \in 0 .. MaxBumps
  PROVE  /\ seqno_plus(FirstSeqno, a) \in Seqnos
         /\ seqno_compare(seqno_plus(FirstSeqno, a), seqno_plus(FirstSeqno, b)) > 0
              <=> a > b
         /\ seqno_plus(FirstSeqno, a) = seqno_plus(FirstSeqno, b) <=> a = b
         /\ seqno_minus(seqno_plus(FirstSeqno, a), FirstSeqno) = a
  <1> DEFINE M == SeqMod
             F == FirstSeqno
             x == (F + a) % M
             y == (F + b) % M
  <1>1. /\ F \in Int /\ 0 <= F /\ F < M /\ M \in Nat /\ M >= 4
        /\ a \in Int /\ b \in Int /\ 0 <= a /\ 0 <= b
        /\ 2 * (a + 2) <= M /\ 2 * (b + 2) <= M
    BY BabelAssumption, SeqModAssumption DEF Seqnos
  <1>2. M \div 2 \in Nat /\ M = 2 * (M \div 2)
    BY SeqModAssumption
  <1> HIDE DEF M, F
  <1>3. /\ x = IF F + a < M THEN F + a ELSE F + a - M
        /\ y = IF F + b < M THEN F + b ELSE F + b - M
    BY <1>1
  <1> HIDE DEF x, y
  <1>4. /\ x \in Int /\ y \in Int /\ 0 <= x /\ x < M /\ 0 <= y /\ y < M
    BY <1>1, <1>3
  <1>5. (y - x) % M = IF y >= x THEN y - x ELSE y - x + M
    BY <1>1, <1>4
  <1>6. (x - F) % M = IF x >= F THEN x - F ELSE x - F + M
    BY <1>1, <1>4
  <1>7. x = y <=> a = b
    BY <1>1, <1>3
  <1>8. (y - x) % M >= M \div 2 <=> b < a
    BY <1>1, <1>2, <1>3, <1>5
  <1>9. (x - F) % M = a
    BY <1>1, <1>3, <1>6
  <1> QED
    BY <1>1, <1>2, <1>4, <1>7, <1>8, <1>9
       DEF seqno_plus, seqno_compare, seqno_minus, Seqnos, M, F, x, y

\* Newer is an order on the numbers of each router.
LEMMA WindowsFact == Window \in Windows
  <1>1. \A id \in Ids : Window[id] \in SUBSET Seqnos
    BY OffsetFact, SeqModAssumption DEF Window, Seqnos
  <1>2. ASSUME NEW id \in Ids PROVE Linear(Window[id])
    <2>1. CASE id = Origin
      <3> SUFFICES ASSUME NEW s1 \in Window[id], NEW s2 \in Window[id],
                          NEW s3 \in Window[id],
                          seqno_compare(s1, s2) > 0, seqno_compare(s2, s3) > 0
                   PROVE  seqno_compare(s1, s3) > 0
        BY DEF Linear
      <3>1. PICK a \in 0 .. MaxBumps, b \in 0 .. MaxBumps, c \in 0 .. MaxBumps :
              /\ s1 = seqno_plus(FirstSeqno, a) /\ s2 = seqno_plus(FirstSeqno, b)
              /\ s3 = seqno_plus(FirstSeqno, c)
        BY <2>1 DEF Window
      <3>2. a > b /\ b > c
        BY <3>1, OffsetFact
      <3>3. a > c
        BY <3>2
      <3> QED
        BY <3>1, <3>3, OffsetFact
    <2>2. CASE id # Origin
      BY <2>2 DEF Window, Linear
    <2> QED
      BY <2>1, <2>2
  <1> QED
    BY <1>1, <1>2 DEF Windows, Window

-----------------------------------------------------------------------------
(* From a router's record to the state and back. *)

\* Routers are paths and router-ids.
LEMMA NodesFact ==
  /\ Paths = Nodes /\ Ids = Nodes /\ Neighs = Nodes /\ Origin \in Nodes
  /\ Origin \in Ids /\ Obedient.bad = {} /\ Costs \subseteq Metric
  BY BabelAssumption, MetricAssumption DEF Nodes, Obedient, Metric

\* A list without members is empty.
LEMMA EmptyListFact ==
  ASSUME NEW l \in Seq(Paths), {l[i] : i \in DOMAIN l} = {}
  PROVE  l = << >>
  <1>1. Len(l) \in Nat /\ DOMAIN l = 1 .. Len(l)
    OBVIOUS
  <1>2. 1 \notin DOMAIN l
    OBVIOUS
  <1>3. Len(l) = 0
    BY <1>1, <1>2
  <1> QED
    BY <1>3

\* The fields of a router's record.
LEMMA TableFact ==
  ASSUME NEW n \in Nodes
  PROVE  /\ Table(n).list = list[n] /\ Table(n).rt = rt[n] /\ Table(n).src = src[n]
         /\ Table(n).xroute = (IF n = Origin THEN 0 ELSE INFINITY)
         /\ Table(n).self.id = n
         /\ Table(n).self.seqno = (IF n = Origin THEN myseqno ELSE 0)
         /\ Table(n).up = Ifaces /\ Table(n).update = update[n] /\ Table(n).sent = {}
         /\ Listed(Table(n)) = {list[n][i] : i \in DOMAIN list[n]}
  BY DEF Table, Listed

\* The record of a router with the routes and sources of slot t.
LEMMA RecordFact ==
  ASSUME NEW t, RouterOK(t), NEW self \in [id : Ids, seqno : Seqnos],
         NEW buffered \in SUBSET Ifaces,
         NEW u, u = [list |-> t.list, rt |-> t.rt, src |-> t.src, fib |-> {},
                     xroute |-> t.xroute, self |-> self, up |-> Ifaces,
                     update |-> buffered, resend |-> 0, told |-> {},
                     sent |-> {}, asked |-> {}]
  PROVE  RouterOK(u)
  <1>1. /\ u.list = t.list /\ u.rt = t.rt /\ u.src = t.src /\ u.xroute = t.xroute
        /\ u.up = Ifaces /\ u.update = buffered /\ u.told = {}
    OBVIOUS
  <1>2. SlotOK(t) /\ t \in Slot /\ Numbered(t, Window)
    BY DEF RouterOK, Good, SlotOK
  <1>3. u \in Slot
    BY <1>2, SlotFact, TimeAssumption DEF Slot
  <1>4. Listed(u) = Listed(t)
    BY <1>1 DEF Listed
  <1>5. HeadOK(u) /\ SourcesOK(u) /\ XrouteOK(u) /\ NoDuplicate(u.list)
    BY <1>1, <1>2, <1>4 DEF SlotOK, HeadOK, SourcesOK, XrouteOK
  <1>6. BuffersOK(u)
    BY <1>1, <1>2, SlotFact DEF BuffersOK
  <1>7. RefsOK(u)
    BY <1>1, <1>4, ZenonT(40) DEF RouterOK, RefsOK, Refs
  <1>8. Good(u, Window)
    BY <1>1, <1>2, <1>3, <1>4, <1>5, <1>6 DEF Good, Numbered, SlotOK
  <1> QED
    BY <1>1, <1>4, <1>7, <1>8 DEF RouterOK

\* The parts of the invariant.
LEMMA RouterFact ==
  ASSUME IInv, NEW n \in Nodes
  PROVE  /\ RouterOK(Table(n)) /\ Good(Table(n), Window) /\ SlotOK(Table(n))
         /\ RefsOK(Table(n)) /\ Table(n) \in Slot /\ Listed(Table(n)) \subseteq Nodes
         /\ \A id \in Ids : /\ src[n][id] \in Source \cup {NoSource}
                            /\ src[n][id] # NoSource =>
                                 /\ src[n][id].seqno \in Window[id]
                                 /\ src[n][id].metric \in Nat
                                 /\ ~SourceStale(src[n][id])
  <1>1. RouterOK(Table(n)) /\ Good(Table(n), Window) /\ SlotOK(Table(n))
        /\ RefsOK(Table(n)) /\ Table(n) \in Slot
    BY DEF IInv, RouterOK, Good, SlotOK
  <1>2. Listed(Table(n)) \subseteq Nodes
    BY <1>1, FieldsFact, NodesFact
  <1>3. Table(n).src = src[n]
    BY TableFact
  <1>4. \A id \in Ids : /\ src[n][id] \in Source \cup {NoSource}
                        /\ src[n][id] # NoSource => src[n][id].metric \in Nat
    BY <1>1, <1>3, FieldsFact
  <1>5. \A id \in Ids : src[n][id] # NoSource =>
          src[n][id].seqno \in Window[id] /\ ~SourceStale(src[n][id])
    BY <1>1, <1>3 DEF RouterOK, Good, Numbered
  <1> QED
    BY <1>1, <1>2, <1>4, <1>5

\* What the messages and the routers' beliefs are bounded by.
LEMMA BoundedFact ==
  DistanceBoundsUpdates <=>
    /\ \A m \in net : m.from # Origin /\ m.update.metric < INFINITY =>
         Bounds(src[m.from][Origin], m.update.seqno, m.update.metric)
    /\ \A n \in Nodes : \A p \in Listed(Table(n)) \ {Origin} :
         rt[n][p].refmetric < INFINITY =>
           Bounds(src[p][Origin], rt[n][p].seqno, rt[n][p].refmetric)
  BY DEF DistanceBoundsUpdates, Bounds

\* A distance that improves still bounds what it bounded.
LEMMA BoundsKeptFact ==
  ASSUME NEW s \in Source \cup {NoSource}, NEW s2 \in Source \cup {NoSource},
         s # NoSource => s.seqno \in Window[Origin] /\ ~SourceStale(s),
         s2 # NoSource => s2.seqno \in Window[Origin],
         Improves(s, s2), NEW seqno \in Window[Origin], NEW metric \in Nat,
         Bounds(s, seqno, metric)
  PROVE  Bounds(s2, seqno, metric)
  <1>1. /\ s # NoSource /\ s2 # NoSource /\ AsGood(s.seqno, s.metric, seqno, metric)
        /\ AsGood(s2.seqno, s2.metric, s.seqno, s.metric)
    BY DEF Bounds, Improves
  <1>2. s.metric \in Nat /\ s2.metric \in Nat
    BY <1>1, MetricAssumption DEF Source, Metric
  <1>3. Window[Origin] \in SUBSET Seqnos /\ Linear(Window[Origin])
    BY WindowsFact, WindowFact, NodesFact
  <1>4. AsGood(s2.seqno, s2.metric, seqno, metric)
    BY <1>1, <1>2, <1>3, AsGoodFact
  <1> QED
    BY <1>1, <1>4 DEF Bounds

\* What a router says of the destination: a finite metric is the origin's, or is
\* no better than the router's distance.
LEMMA SaysFact ==
  ASSUME NEW n \in Nodes, NEW t, RouterOK(t), NEW a \in Update, Said(a, t),
         t.self.id = n, t.self.seqno = (IF n = Origin THEN myseqno ELSE 0),
         t.xroute = (IF n = Origin THEN 0 ELSE INFINITY),
         myseqno \in Window[Origin]
  PROVE  /\ a.seqno \in Window[a.id]
         /\ a.metric < INFINITY =>
              /\ a.id = Origin
              /\ n # Origin => Bounds(t.src[Origin], a.seqno, a.metric)
  <1>1. CASE Own(a, t)
    <2>1. a.id = n /\ a.seqno = (IF n = Origin THEN myseqno ELSE 0)
          /\ (a.metric < INFINITY => t.xroute < INFINITY)
      BY <1>1 DEF Own
    <2>2. a.metric < INFINITY => n = Origin
      BY <2>1, MetricAssumption
    <2>3. a.seqno \in Window[a.id]
      BY <2>1, NodesFact DEF Window
    <2> QED
      BY <2>1, <2>2, <2>3
  <1>2. ASSUME NEW p \in Listed(t), Relays(a, t, p)
        PROVE  /\ a.seqno \in Window[a.id]
               /\ a.metric < INFINITY =>
                    a.id = Origin /\ Bounds(t.src[Origin], a.seqno, a.metric)
    <2>1. a.id = t.rt[p].id /\ a.seqno = t.rt[p].seqno
      BY <1>2 DEF Relays
    <2>2. a.seqno \in Window[a.id] /\ t.src[a.id] # NoSource
      BY <2>1 DEF RouterOK, Good, SlotOK, SourcesOK
    <2>3. ASSUME a.metric < INFINITY
          PROVE  a.id = Origin /\ Bounds(t.src[Origin], a.seqno, a.metric)
      <3>1. /\ t.rt[p].refmetric < INFINITY
            /\ AsGood(t.src[a.id].seqno, t.src[a.id].metric, a.seqno, a.metric)
        BY <1>2, <2>3 DEF Relays
      <3>2. a.id = Origin
        BY <2>1, <3>1 DEF RouterOK
      <3> QED
        BY <2>2, <3>1, <3>2 DEF Bounds
    <2> QED
      BY <2>2, <2>3
  <1> QED
    BY <1>1, <1>2 DEF Said

-----------------------------------------------------------------------------
(* One lemma per action. *)

\* A handler of router n leaves slot t: it may believe what some distance
\* bounds, and what it sends is bounded by its own.
LEMMA BecomesFact ==
  ASSUME IInv, NEW n \in Nodes, NEW t, RouterOK(t), Result(Table(n), t),
         SameEnv(Table(n), t), n = Origin => t.list = << >>,
         NEW taken, Becomes(n, t, taken), myseqno' = myseqno,
         \A p \in Listed(t) \ {Origin} : t.rt[p].refmetric < INFINITY =>
           Bounds(src[p][Origin], t.rt[p].seqno, t.rt[p].refmetric)
  PROVE  IInv'
  <1>1. /\ t \in Slot /\ SlotOK(t) /\ t.list \in Seq(Paths) /\ t.rt \in [Paths -> Route]
        /\ t.src \in [Ids -> Source \cup {NoSource}] /\ t.update \in SUBSET Ifaces
        /\ t.xroute = Table(n).xroute /\ t.self = Table(n).self
    BY SlotFact DEF RouterOK, Good, SlotOK, SameEnv
  <1>2. /\ list' = [list EXCEPT ![n] = t.list] /\ rt' = [rt EXCEPT ![n] = t.rt]
        /\ src' = [src EXCEPT ![n] = t.src] /\ update' = [update EXCEPT ![n] = t.update]
        /\ net' = (net \ taken) \cup Copies(n, t)
    BY DEF Becomes
  <1>3. StateOK'
    BY <1>1, <1>2 DEF IInv, StateOK
  <1>4. /\ list'[n] = t.list /\ rt'[n] = t.rt /\ src'[n] = t.src /\ update'[n] = t.update
        /\ \A q \in Nodes \ {n} : /\ list'[q] = list[q] /\ rt'[q] = rt[q]
                                  /\ src'[q] = src[q] /\ update'[q] = update[q]
    BY <1>2 DEF IInv, StateOK
  <1>5. Table(n)' = [list |-> t.list, rt |-> t.rt, src |-> t.src, fib |-> {},
                     xroute |-> t.xroute, self |-> t.self, up |-> Ifaces,
                     update |-> t.update, resend |-> 0, told |-> {},
                     sent |-> {}, asked |-> {}]
    <2>1. /\ t.xroute = (IF n = Origin THEN 0 ELSE INFINITY)
          /\ t.self = [id |-> n, seqno |-> IF n = Origin THEN myseqno ELSE 0]
      BY <1>1 DEF Table
    <2> QED
      BY <1>4, <2>1 DEF Table
  <1>6. RouterOK(Table(n)')
    BY <1>1, <1>5, SlotFact, RecordFact
  <1>7. \A q \in Nodes \ {n} : Table(q)' = Table(q)
    BY <1>4 DEF Table
  <1>8. \A q \in Nodes : RouterOK(Table(q)')
    BY <1>6, <1>7 DEF IInv
  <1>9. list'[Origin] = << >>
    BY <1>4, NodesFact DEF IInv
  <1>10. Listed(Table(n)') = Listed(t)
    <2>1. Table(n)'.list = t.list
      BY <1>5
    <2> QED
      BY <2>1 DEF Listed
  \* Every router's distance has improved, or is what it was.
  <1>11. ASSUME NEW q \in Nodes, NEW s \in Window[Origin], NEW m \in Nat,
                Bounds(src[q][Origin], s, m)
         PROVE  Bounds(src'[q][Origin], s, m)
    <2>1. CASE q # n
      BY <1>4, <1>11, <2>1
    <2>2. CASE q = n
      <3>1. Improves(src[n][Origin], t.src[Origin])
        BY TableFact, NodesFact DEF Result
      <3>2. /\ t.src[Origin] \in Source \cup {NoSource}
            /\ t.src[Origin] # NoSource => t.src[Origin].seqno \in Window[Origin]
        BY <1>1, NodesFact DEF RouterOK, Good, Numbered
      <3>3. Bounds(t.src[Origin], s, m)
        BY <1>11, <2>2, <3>1, <3>2, RouterFact, NodesFact, BoundsKeptFact
      <3> QED
        BY <1>4, <2>2, <3>3
    <2> QED
      BY <2>1, <2>2
  <1>12. ASSUME NEW m \in Copies(n, t)
         PROVE  /\ MessageOK(m) /\ m.from = n
                /\ n # Origin /\ m.update.metric < INFINITY =>
                     Bounds(t.src[Origin], m.update.seqno, m.update.metric)
    <2>1. PICK l \in Links, s \in t.sent :
            /\ l[1] = n
            /\ m = [from |-> l[1], to |-> l[2], update |-> s.update]
      BY <1>12 DEF Copies
    <2>2. m.from = n /\ m.to = l[2] /\ m.update = s.update /\ l[2] \in Nodes
      BY <2>1, BabelAssumption
    <2>3. s \in t.sent \ Table(n).sent
      BY TableFact
    <2>4. s.update \in Update /\ Said(s.update, t)
      BY <1>1, <2>3, FieldsFact DEF Result
    <2>5. /\ t.self.id = n /\ t.self.seqno = (IF n = Origin THEN myseqno ELSE 0)
          /\ t.xroute = (IF n = Origin THEN 0 ELSE INFINITY)
          /\ myseqno \in Window[Origin]
      BY <1>1, TableFact DEF IInv, StateOK
    <2> DEFINE a == s.update
    <2>6. a \in Update /\ Said(a, t) /\ m.update = a
      BY <2>2, <2>4
    <2> HIDE DEF a
    <2>7. /\ a.seqno \in Window[a.id]
          /\ a.metric < INFINITY =>
               /\ a.id = Origin
               /\ n # Origin => Bounds(t.src[Origin], a.seqno, a.metric)
      BY <2>5, <2>6, SaysFact
    <2> QED
      BY <2>2, <2>6, <2>7 DEF MessageOK
  <1>13. \A m \in net' : MessageOK(m)
    BY <1>2, <1>12 DEF IInv
  <1>14. ASSUME NEW m \in net', m.from # Origin, m.update.metric < INFINITY
         PROVE  Bounds(src'[m.from][Origin], m.update.seqno, m.update.metric)
    <2>1. CASE m \in Copies(n, t)
      BY <1>4, <1>12, <1>14, <2>1
    <2>2. CASE m \in net
      <3>1. MessageOK(m) /\ Bounds(src[m.from][Origin], m.update.seqno, m.update.metric)
        BY <1>14, <2>2, BoundedFact DEF IInv
      <3>2. m.from \in Nodes /\ m.update.seqno \in Window[Origin] /\ m.update.metric \in Nat
        BY <1>14, <3>1, MetricAssumption DEF MessageOK, Update, Metric
      <3> QED
        BY <1>11, <3>1, <3>2
    <2> QED
      BY <1>2, <2>1, <2>2
  <1>15. ASSUME NEW q \in Nodes, NEW p \in Listed(Table(q)') \ {Origin},
                rt'[q][p].refmetric < INFINITY
         PROVE  Bounds(src'[p][Origin], rt'[q][p].seqno, rt'[q][p].refmetric)
    <2>1. CASE q = n
      <3>1. p \in Listed(t) \ {Origin} /\ rt'[q][p] = t.rt[p]
        BY <1>4, <1>10, <1>15, <2>1
      <3>2. Bounds(src[p][Origin], t.rt[p].seqno, t.rt[p].refmetric)
        BY <1>15, <3>1
      <3>3. t.rt[p].seqno \in Window[Origin] /\ t.rt[p].refmetric \in Nat /\ p \in Nodes
        BY <1>1, <1>15, <3>1, FieldsFact, NodesFact, MetricAssumption, SMTT(40)
           DEF RouterOK, Metric
      <3> QED
        BY <1>11, <3>1, <3>2, <3>3
    <2>2. CASE q # n
      <3>1. p \in Listed(Table(q)) \ {Origin} /\ rt'[q] = rt[q] /\ Table(q).rt = rt[q]
        BY <1>4, <1>7, <1>15, <2>2, TableFact
      <3>2. Bounds(src[p][Origin], rt[q][p].seqno, rt[q][p].refmetric)
        BY <1>15, <3>1, BoundedFact DEF IInv
      <3>3. RouterOK(Table(q)) /\ Table(q) \in Slot /\ p \in Nodes
        BY <3>1, RouterFact
      <3>4. rt[q][p].seqno \in Window[Origin] /\ rt[q][p].refmetric \in Nat
        BY <1>15, <3>1, <3>3, FieldsFact, NodesFact, MetricAssumption
           DEF RouterOK, Metric
      <3> QED
        BY <1>11, <3>1, <3>2, <3>3, <3>4
    <2> QED
      BY <2>1, <2>2
  <1>16. DistanceBoundsUpdates'
    BY <1>14, <1>15 DEF DistanceBoundsUpdates, Bounds
  <1> QED
    BY <1>3, <1>8, <1>9, <1>13, <1>16 DEF IInv

\* Sources that improve do not become stale.
LEMMA FreshFact ==
  ASSUME NEW t, RouterOK(t), NEW u, Good(u, Window), Result(t, u)
  PROVE  \A id \in Ids : u.src[id] # NoSource => ~SourceStale(u.src[id])
  <1> SUFFICES ASSUME NEW id \in Ids, u.src[id] # NoSource
               PROVE  ~SourceStale(u.src[id])
    OBVIOUS
  <1>1. Improves(t.src[id], u.src[id])
    BY DEF Result
  <1>2. t.src[id] # NoSource => ~SourceStale(t.src[id]) /\ t.src[id].age \in Nat
    BY FieldsFact DEF RouterOK, Good, SlotOK
  <1>3. u.src[id].age \in Nat
    BY FieldsFact DEF Good, SlotOK
  <1> QED
    BY <1>1, <1>2, <1>3, TimeAssumption DEF Improves, SourceStale

\* A handler of router n that believes nothing new.
LEMMA NothingNewFact ==
  ASSUME IInv, NEW n \in Nodes, NEW t, Good(t, Window), RefsOK(t),
         Result(Table(n), t), SameEnv(Table(n), t),
         Listed(t) \subseteq Listed(Table(n)),
         \A p \in Listed(t) : SameClaim(Table(n), t, p),
         \A p \in Paths : t.rt[p].age = 0,
         NEW taken, Becomes(n, t, taken), myseqno' = myseqno
  PROVE  IInv'
  <1>1. RouterOK(Table(n)) /\ Table(n).rt = rt[n]
    BY RouterFact, TableFact
  <1>2. RouterOK(t)
    <2>1. \A p \in Listed(t) : /\ t.rt[p].seqno \in Window[t.rt[p].id]
                               /\ t.rt[p].refmetric < INFINITY => t.rt[p].id = Origin
      BY <1>1 DEF RouterOK, SameClaim
    <2> QED
      BY <1>1, <2>1, FreshFact DEF RouterOK
  <1>3. n = Origin => t.list = << >>
    <2>1. n = Origin => Listed(t) = {}
      BY TableFact DEF IInv
    <2>2. t.list \in Seq(Paths)
      BY SlotFact DEF Good, SlotOK
    <2> QED
      BY <2>1, <2>2, EmptyListFact DEF Listed
  <1>4. \A p \in Listed(t) \ {Origin} : t.rt[p].refmetric < INFINITY =>
          Bounds(src[p][Origin], t.rt[p].seqno, t.rt[p].refmetric)
    BY <1>1, BoundedFact DEF SameClaim, IInv
  <1> QED
    BY <1>2, <1>3, <1>4, BecomesFact

\* An update arrives.
LEMMA ReceiveUpdateFact ==
  ASSUME IInv, NEW m \in net, NEW c \in Costs, ReceiveUpdate(m, c)
  PROVE  IInv'
  <1> DEFINE n == m.to
             p == m.from
             a == m.update
             t == update_route(Table(n), p, a, c, Obedient)
  <1>1. /\ n \in Nodes /\ p \in Paths /\ a \in Update /\ a.seqno \in Window[a.id]
        /\ (a.metric < INFINITY => a.id = Origin) /\ c \in Metric /\ Obedient.bad = {}
    BY NodesFact DEF IInv, MessageOK
  <1>2. Becomes(n, t, {m}) /\ myseqno' = myseqno
    BY DEF ReceiveUpdate
  <1>3. p # Origin /\ a.metric < INFINITY => Bounds(src[p][Origin], a.seqno, a.metric)
    BY BoundedFact DEF IInv
  <1> HIDE DEF n, p, a
  <1>4. /\ RouterOK(Table(n)) /\ Good(Table(n), Window) /\ RefsOK(Table(n))
        /\ SlotOK(Table(n)) /\ Table(n).rt = rt[n] /\ Table(n).self.id = n
        /\ Table(n).list = list[n]
    BY <1>1, RouterFact, TableFact
  <1>5. /\ Good(t, Window) /\ Result(Table(n), t) /\ Believes(Table(n), t, p, a)
        /\ a.id = Table(n).self.id => t = Table(n)
        /\ a.metric >= INFINITY /\ p \notin Listed(Table(n)) => Listed(t) = Listed(Table(n))
    BY <1>1, <1>4, WindowsFact, UpdateRouteResultFact
  <1>6. RefsOK(t) /\ SameEnv(Table(n), t)
    BY <1>1, <1>4, UpdateRouteFact
  <1> HIDE DEF t
  <1>7. \A q \in Listed(t) \ {p} : q \in Listed(Table(n)) /\ SameClaim(Table(n), t, q)
    <2>1. Listed(t) \subseteq Paths
      BY <1>5, FieldsFact DEF Good, SlotOK
    <2> QED
      BY <1>5, <2>1 DEF Believes
  <1>8. p \in Listed(t) =>
          \/ p \in Listed(Table(n)) /\ SameClaim(Table(n), t, p)
          \/ t.rt[p].id = a.id /\ t.rt[p].seqno = a.seqno /\ t.rt[p].refmetric = a.metric
    BY <1>5 DEF Believes
  <1>9. RouterOK(t)
    <2>1. \A q \in Paths : t.rt[q].age = 0
      BY <1>4, <1>5 DEF Believes, SameClaim, RouterOK
    <2>2. \A q \in Listed(t) : /\ t.rt[q].seqno \in Window[t.rt[q].id]
                               /\ t.rt[q].refmetric < INFINITY => t.rt[q].id = Origin
      BY <1>1, <1>4, <1>7, <1>8 DEF RouterOK, SameClaim
    <2> QED
      BY <1>4, <1>5, <1>6, <2>1, <2>2, FreshFact DEF RouterOK
  <1>10. n = Origin => t.list = << >>
    <2> SUFFICES ASSUME n = Origin PROVE t.list = << >>
      OBVIOUS
    <2>1. Table(n).list = << >> /\ Listed(Table(n)) = {}
      BY <1>4 DEF IInv, Listed
    <2>2. CASE a.metric < INFINITY
      BY <1>1, <1>4, <1>5, <2>1, <2>2
    <2>3. CASE ~(a.metric < INFINITY)
      <3>1. a.metric \in Metric /\ INFINITY \in Nat
        BY <1>1, MetricAssumption DEF Update
      <3>2. Listed(t) = {}
        BY <1>5, <2>1, <2>3, <3>1 DEF Metric
      <3>3. t.list \in Seq(Paths)
        BY <1>5, SlotFact DEF Good, SlotOK
      <3> QED
        BY <3>2, <3>3, EmptyListFact DEF Listed
    <2> QED
      BY <2>2, <2>3
  <1>11. \A q \in Listed(t) \ {Origin} : t.rt[q].refmetric < INFINITY =>
           Bounds(src[q][Origin], t.rt[q].seqno, t.rt[q].refmetric)
    <2> SUFFICES ASSUME NEW q \in Listed(t) \ {Origin}, t.rt[q].refmetric < INFINITY
                 PROVE  Bounds(src[q][Origin], t.rt[q].seqno, t.rt[q].refmetric)
      OBVIOUS
    <2>1. CASE q \in Listed(Table(n)) /\ SameClaim(Table(n), t, q)
      BY <1>1, <1>4, <2>1, BoundedFact DEF SameClaim, IInv
    <2>2. CASE q = p /\ t.rt[p].seqno = a.seqno /\ t.rt[p].refmetric = a.metric
      BY <1>3, <2>2
    <2> QED
      BY <1>7, <1>8, <2>1, <2>2
  <1> QED
    BY <1>1, <1>2, <1>5, <1>6, <1>9, <1>10, <1>11, BecomesFact

\* The buffered updates are sent, or the cost of a link changes, or a route is
\* flushed.
LEMMA LocalFact ==
  ASSUME IInv, NEW n \in Nodes, myseqno' = myseqno,
         \/ Becomes(n, flushupdates(Table(n), Ifaces), {})
         \/ \E p \in Listed(Table(n)) :
              \/ Becomes(n, flush_route(Table(n), p, Obedient), {})
              \/ \E c \in Costs :
                   Becomes(n, update_route_metric(Table(n), p, c, Obedient), {})
  PROVE  IInv'
  <1>1. /\ RouterOK(Table(n)) /\ Good(Table(n), Window) /\ SlotOK(Table(n))
        /\ RefsOK(Table(n)) /\ Listed(Table(n)) \subseteq Paths
        /\ \A p \in Paths : Table(n).rt[p].age = 0
    BY RouterFact, NodesFact DEF RouterOK
  <1>2. ASSUME NEW t, Good(t, Window), Result(Table(n), t), SameRefs(Table(n), t),
               SameClaims(Table(n), t), Becomes(n, t, {})
        PROVE  IInv'
    <2>1. RefsOK(t) /\ SameEnv(Table(n), t) /\ Listed(t) = Listed(Table(n))
      BY <1>1, <1>2, SameRefsOK DEF SameRefs, SameEnv
    <2>2. /\ \A p \in Listed(t) : SameClaim(Table(n), t, p)
          /\ \A p \in Paths : t.rt[p].age = 0
      BY <1>1, <1>2, <2>1 DEF SameClaims, SameClaim
    <2> QED
      BY <1>2, <2>1, <2>2, NothingNewFact
  <1>3. CASE Becomes(n, flushupdates(Table(n), Ifaces), {})
    <2> DEFINE t == flushupdates(Table(n), Ifaces)
    <2>1. Step(Table(n), t, Window) /\ Becomes(n, t, {})
      BY <1>1, <1>3, WindowsFact, FlushStepFact
    <2> HIDE DEF t
    <2> QED
      BY <1>2, <2>1 DEF Step
  <1>4. ASSUME NEW p \in Listed(Table(n)), NEW c \in Costs,
               Becomes(n, update_route_metric(Table(n), p, c, Obedient), {})
        PROVE  IInv'
    <2> DEFINE t == update_route_metric(Table(n), p, c, Obedient)
    <2>1. c \in Metric /\ Obedient.bad = {}
      BY NodesFact
    <2>2. ~route_expired(Table(n).rt[p])
      BY <1>1, TimeAssumption DEF route_expired
    <2>3. /\ Good(t, Window) /\ Result(Table(n), t) /\ SameRefs(Table(n), t)
          /\ SameClaims(Table(n), t)
      BY <1>1, <2>1, <2>2, WindowsFact, UpdateMetricResultFact
    <2>4. Becomes(n, t, {})
      BY <1>4
    <2> HIDE DEF t
    <2> QED
      BY <1>2, <2>3, <2>4
  <1>5. ASSUME NEW p \in Listed(Table(n)),
               Becomes(n, flush_route(Table(n), p, Obedient), {})
        PROVE  IInv'
    <2> DEFINE t == flush_route(Table(n), p, Obedient)
    <2>1. /\ Good(t, Window) /\ Result(Table(n), t)
          /\ Listed(t) = Listed(Table(n)) \ {p}
          /\ \A q \in Paths \ {p} : SameClaim(Table(n), t, q)
          /\ t.rt[p].age = 0
      BY <1>1, WindowsFact, FlushRouteResultFact
    <2>2. RefsOK(t) /\ SameEnv(Table(n), t)
      BY <1>1, FlushRouteFact DEF SameEnv
    <2>3. Becomes(n, t, {})
      BY <1>5
    <2> HIDE DEF t
    <2>4. /\ \A q \in Listed(t) : SameClaim(Table(n), t, q)
          /\ \A q \in Paths : t.rt[q].age = 0
      BY <1>1, <2>1 DEF SameClaim
    <2> QED
      BY <2>1, <2>2, <2>3, <2>4, NothingNewFact
  <1> QED
    BY <1>3, <1>4, <1>5

\* An update is buffered, a message is lost, the origin raises its number.
LEMMA QuietStepFact ==
  ASSUME IInv, UNCHANGED <<list, rt, src>>, net' \subseteq net,
         update' \in [Nodes -> SUBSET Ifaces], myseqno' \in Window[Origin]
  PROVE  IInv'
  <1>1. StateOK' /\ list'[Origin] = << >> /\ \A m \in net' : MessageOK(m)
    BY DEF IInv, StateOK
  <1>2. ASSUME NEW n \in Nodes
        PROVE  RouterOK(Table(n)')
    <2> DEFINE self == [id |-> n, seqno |-> IF n = Origin THEN myseqno' ELSE 0]
    <2>1. self \in [id : Ids, seqno : Seqnos]
      BY NodesFact, WindowsFact, WindowFact, SeqModAssumption DEF Seqnos
    <2>2. RouterOK(Table(n)) /\ update'[n] \in SUBSET Ifaces
      BY RouterFact
    <2>3. Table(n)' = [list |-> Table(n).list, rt |-> Table(n).rt,
                       src |-> Table(n).src, fib |-> {},
                       xroute |-> Table(n).xroute, self |-> self, up |-> Ifaces,
                       update |-> update'[n], resend |-> 0, told |-> {},
                       sent |-> {}, asked |-> {}]
      BY DEF Table
    <2> HIDE DEF self
    <2> QED
      BY <2>1, <2>2, <2>3, RecordFact
  <1>3. \A n \in Nodes : Listed(Table(n)') = Listed(Table(n))
    BY DEF Listed, Table
  <1>4. DistanceBoundsUpdates'
    BY <1>3 DEF IInv, DistanceBoundsUpdates
  <1> QED
    BY <1>1, <1>2, <1>4 DEF IInv

\* The initial state.
LEMMA InitFact == Init => IInv
  <1> SUFFICES ASSUME Init PROVE IInv
    OBVIOUS
  <1>1. StateOK
    <2>1. NoRoute \in Route
      BY NoRouteFact
    <2>2. FirstSeqno = seqno_plus(FirstSeqno, 0) /\ 0 \in 0 .. MaxBumps
      BY BabelAssumption, SeqModAssumption DEF seqno_plus, Seqnos
    <2>3. myseqno \in Window[Origin]
      BY <2>2, NodesFact DEF Init, Window
    <2> QED
      BY <2>1, <2>3 DEF Init, StateOK
  <1>2. \A n \in Nodes : /\ Listed(Table(n)) = {} /\ Table(n).list = << >>
                         /\ Table(n).rt = [p \in Paths |-> NoRoute]
                         /\ Table(n).src = [id \in Ids |-> NoSource]
                         /\ Table(n).update = {} /\ Table(n).told = {}
    BY DEF Init, Table, Listed
  <1>3. ASSUME NEW n \in Nodes PROVE RouterOK(Table(n))
    <2>1. Table(n) \in Slot
      <3>1. list[n] \in Seq(Paths) /\ rt[n] \in [Paths -> Route]
            /\ src[n] \in [Ids -> Source \cup {NoSource}] /\ update[n] \in SUBSET Ifaces
        BY <1>1 DEF StateOK
      <3>2. (IF n = Origin THEN 0 ELSE INFINITY) \in Metric /\ 0 \in 0 .. RESEND_MAX
        BY BoundsFact, TimeAssumption
      <3>3. [id |-> n, seqno |-> IF n = Origin THEN myseqno ELSE 0]
              \in [id : Ids, seqno : Seqnos]
        BY <1>1, NodesFact, WindowsFact, WindowFact, SeqModAssumption
           DEF StateOK, Seqnos
      <3> QED
        BY <3>1, <3>2, <3>3 DEF Table, Slot
    <2>2. /\ NoDuplicate(Table(n).list) /\ HeadOK(Table(n)) /\ SourcesOK(Table(n))
          /\ BuffersOK(Table(n)) /\ XrouteOK(Table(n))
      BY <1>2, NoRouteFact
         DEF NoDuplicate, HeadOK, SourcesOK, BuffersOK, XrouteOK
    <2>3. RefsOK(Table(n)) /\ Numbered(Table(n), Window)
      BY <1>2 DEF RefsOK, Numbered
    <2>4. \A p \in Paths : Table(n).rt[p].age = 0
      <3>1. NoRoute.age = 0
        BY DEF NoRoute
      <3> QED
        BY <1>2, <3>1
    <2> QED
      BY <1>2, <2>1, <2>2, <2>3, <2>4 DEF RouterOK, Good, SlotOK
  <1>4. DistanceBoundsUpdates
    BY <1>2 DEF Init, DistanceBoundsUpdates
  <1> QED
    BY <1>1, <1>3, <1>4, NodesFact DEF Init, IInv

\* Every step of the network.
LEMMA NextFact == IInv /\ [Next]_vars => IInv'
  <1> SUFFICES ASSUME IInv, [Next]_vars PROVE IInv'
    OBVIOUS
  <1>1. ASSUME NEW m \in net, NEW c \in Costs, ReceiveUpdate(m, c) PROVE IInv'
    BY <1>1, ReceiveUpdateFact
  <1>2. ASSUME NEW m \in net, Lose(m) PROVE IInv'
    BY <1>2, QuietStepFact DEF Lose, IInv, StateOK
  <1>3. ASSUME NEW n \in Nodes, SendUpdate(n) PROVE IInv'
    BY <1>3, QuietStepFact DEF SendUpdate, IInv, StateOK
  <1>4. ASSUME NEW n \in Nodes, FlushUpdates(n) PROVE IInv'
    BY <1>4, LocalFact DEF FlushUpdates
  <1>5. ASSUME NEW n \in Nodes, NEW p \in Paths, FlushRoute(n, p) PROVE IInv'
    BY <1>5, LocalFact DEF FlushRoute
  <1>6. ASSUME NEW n \in Nodes, NEW p \in Paths, NEW c \in Costs, CostChange(n, p, c)
        PROVE  IInv'
    BY <1>6, LocalFact DEF CostChange
  <1>7. CASE NewSeqno
    <2>1. PICK b \in 0 .. MaxBumps : myseqno = seqno_plus(FirstSeqno, b)
      BY NodesFact DEF IInv, StateOK, Window
    <2>2. b < MaxBumps /\ myseqno' = seqno_plus(myseqno, 1)
      BY <1>7, <2>1, OffsetFact DEF NewSeqno
    <2>3. b + 1 \in 0 .. MaxBumps
      BY <2>2, BabelAssumption
    <2>4. seqno_plus(seqno_plus(FirstSeqno, b), 1) = seqno_plus(FirstSeqno, b + 1)
      <3> DEFINE M == SeqMod
                 F == FirstSeqno
                 x == (F + b) % M
      <3>1. /\ F \in Int /\ 0 <= F /\ F < M /\ M \in Nat /\ M >= 4
            /\ b \in Int /\ 0 <= b /\ 2 * (b + 2) <= M
        BY BabelAssumption, SeqModAssumption DEF Seqnos
      <3> HIDE DEF M, F
      <3>2. x = IF F + b < M THEN F + b ELSE F + b - M
        BY <3>1
      <3>3. (F + (b + 1)) % M = IF F + b + 1 < M THEN F + b + 1 ELSE F + b + 1 - M
        BY <3>1
      <3> HIDE DEF x
      <3>4. (x + 1) % M = IF x + 1 < M THEN x + 1 ELSE x + 1 - M
        BY <3>1, <3>2
      <3>5. (x + 1) % M = (F + (b + 1)) % M
        BY <3>1, <3>2, <3>3, <3>4
      <3> QED
        BY <3>5 DEF seqno_plus, x, M, F
    <2>5. myseqno' \in Window[Origin]
      BY <2>1, <2>2, <2>3, <2>4, NodesFact DEF Window
    <2> QED
      BY <1>7, <2>5, QuietStepFact DEF NewSeqno, IInv, StateOK
  <1>8. CASE UNCHANGED vars
    BY <1>8, QuietStepFact DEF vars, IInv, StateOK
  <1> QED
    BY <1>1, <1>2, <1>3, <1>4, <1>5, <1>6, <1>7, <1>8 DEF Next


-----------------------------------------------------------------------------
(* The theorems. *)

\* The inductive invariant holds throughout.
THEOREM RoutersSound == Spec => []IInv
  <1>1. Init => IInv
    BY InitFact
  <1>2. IInv /\ [Next]_vars => IInv'
    BY NextFact
  <1> QED
    BY <1>1, <1>2, PTL DEF Spec

\* No update in flight and no belief of a neighbour is better than the distance
\* that the feasibility test goes by (send_update_real updates
\* the source before the update leaves the router).
THEOREM DistancesBound == Spec => []DistanceBoundsUpdates
  <1>1. IInv => DistanceBoundsUpdates
    BY DEF IInv
  <1> QED
    BY <1>1, RoutersSound, PTL

\* How far the distance of a router's source is from the first number.
Offset(n) == seqno_minus(src[n][Origin].seqno, FirstSeqno)

\* Along a feasible route the distance gets strictly better.
LEMMA EdgeFact ==
  ASSUME IInv, NEW n \in Nodes, NEW p \in Nodes, Forwards(n, p),
         route_feasible(Table(n), p)
  PROVE  /\ n # Origin /\ src[n][Origin] # NoSource
         /\ p # Origin =>
              /\ src[p][Origin] # NoSource
              /\ \/ Offset(p) > Offset(n)
                 \/ /\ Offset(p) = Offset(n)
                    /\ src[p][Origin].metric < src[n][Origin].metric
  <1> DEFINE t == Table(n)
             r == t.rt[p]
  <1>1. /\ t.list = list[n] /\ t.rt = rt[n] /\ t.src = src[n]
        /\ RouterOK(t) /\ t \in Slot
    BY TableFact DEF IInv, RouterOK, Good, SlotOK
  <1>2. t.list # << >> /\ t.list[1] = p /\ r.installed
    <2>1. p # NoPath
      BY BabelAssumption, PathAssumption DEF Nodes
    <2> QED
      BY <2>1, <1>1 DEF Forwards, find_installed_route
  <1>3. p \in Listed(t)
    <2>1. t.list \in Seq(Paths)
      BY <1>1, SlotFact
    <2>2. 1 \in DOMAIN t.list
      BY <1>2, <2>1
    <2> QED
      BY <1>2, <2>2 DEF Listed
  <1>4. n # Origin
    BY <1>1, <1>2 DEF IInv
  <1>5. r \in Route /\ p \in Paths
    BY <1>1, SlotFact, BabelAssumption DEF Nodes
  <1>6. r.refmetric < INFINITY
    <2>1. MIN(r.refmetric + r.cost + r.add, INFINITY) < INFINITY
      BY <1>1 DEF Forwards, route_metric
    <2>2. r.refmetric \in Nat /\ r.cost \in Nat /\ r.add \in Nat /\ INFINITY \in Nat
      BY <1>5, MetricAssumption DEF Route, Metric
    <2> HIDE DEF r
    <2> QED
      BY <2>1, <2>2 DEF MIN
  <1>7. r.id = Origin /\ r.seqno \in Window[Origin] /\ src[n][Origin] # NoSource
    BY <1>1, <1>3, <1>6 DEF RouterOK, Good, SlotOK, SourcesOK
  <1> DEFINE s == src[n][Origin]
             s2 == src[p][Origin]
  <1>8. ~SourceStale(s) /\ s.seqno \in Window[Origin] /\ s \in Source
    BY <1>1, <1>7, NodesFact, SlotFact DEF RouterOK, Good, Numbered
  <1>9. \/ seqno_compare(r.seqno, s.seqno) > 0
        \/ s.seqno = r.seqno /\ r.refmetric < s.metric
    <2>1. ~(r.refmetric >= INFINITY)
      BY <1>5, <1>6, MetricAssumption DEF Route, Metric
    <2> QED
      BY <1>1, <1>7, <1>8, <2>1 DEF route_feasible, update_feasible
  <1>10. ASSUME p # Origin
         PROVE  /\ s2 # NoSource
                /\ \/ Offset(p) > Offset(n)
                   \/ Offset(p) = Offset(n) /\ s2.metric < s.metric
    <2>1. s2 # NoSource /\ AsGood(s2.seqno, s2.metric, r.seqno, r.refmetric)
      BY <1>1, <1>3, <1>6, <1>10 DEF IInv, DistanceBoundsUpdates
    <2>2. s2.seqno \in Window[Origin] /\ s2 \in Source
      BY <2>1, NodesFact, TableFact, SlotFact
         DEF IInv, RouterOK, Good, SlotOK, Numbered
    <2>3. PICK a \in 0 .. MaxBumps, b \in 0 .. MaxBumps, c \in 0 .. MaxBumps :
            /\ s.seqno = seqno_plus(FirstSeqno, a)
            /\ r.seqno = seqno_plus(FirstSeqno, b)
            /\ s2.seqno = seqno_plus(FirstSeqno, c)
      BY <1>7, <1>8, <2>2, NodesFact DEF Window
    <2>4. Offset(n) = a /\ Offset(p) = c
      BY <2>3, OffsetFact DEF Offset
    <2>5. b > a \/ (a = b /\ r.refmetric < s.metric)
      BY <1>9, <2>3, OffsetFact
    <2>6. c > b \/ (b = c /\ s2.metric <= r.refmetric)
      BY <2>1, <2>3, OffsetFact DEF AsGood
    <2>7. s.metric \in Nat /\ s2.metric \in Nat /\ r.refmetric \in Nat
      BY <1>5, <1>8, <2>2 DEF Source, Route, Metric
    <2> HIDE DEF s, s2, r
    <2> QED
      BY <2>1, <2>4, <2>5, <2>6, <2>7, BabelAssumption
  <1> QED
    BY <1>4, <1>7, <1>10

\* A router with a known source has an offset in the window and a metric.
LEMMA RankFact ==
  ASSUME IInv, NEW n \in Nodes, src[n][Origin] # NoSource
  PROVE  Offset(n) \in 0 .. MaxBumps /\ src[n][Origin].metric \in Nat
  <1>1. src[n][Origin].seqno \in Window[Origin] /\ src[n][Origin] \in Source
    BY NodesFact, TableFact, SlotFact DEF IInv, RouterOK, Good, SlotOK, Numbered
  <1>2. PICK a \in 0 .. MaxBumps : src[n][Origin].seqno = seqno_plus(FirstSeqno, a)
    BY <1>1, NodesFact DEF Window
  <1> QED
    BY <1>1, <1>2, OffsetFact DEF Offset, Source, Metric

\* In the states of the invariant feasible routes make no loop: in any set of
\* routers, one with the best distance leads out of it.
LEMMA LoopFreeFact == IInv => FeasibleLoopFree
  <1> DEFINE Edge(n, p) == Forwards(n, p) /\ route_feasible(Table(n), p)
  <1> SUFFICES ASSUME IInv, NEW S \in SUBSET Nodes, S # {},
                      \A n \in S : \E p \in S : Edge(n, p)
               PROVE  FALSE
    <2> DEFINE E == {e \in Nodes \X Nodes :
                       Forwards(e[1], e[2]) /\ route_feasible(Table(e[1]), e[2])}
    <2> SUFFICES ASSUME IInv, NEW S \in (SUBSET Nodes) \ {{}}
                 PROVE  \E n \in S : \A p \in S : <<n, p>> \notin E
      BY DEF FeasibleLoopFree, Acyclic
    <2>1. S \in SUBSET Nodes /\ S # {}
      OBVIOUS
    <2>2. \A n, p \in S : <<n, p>> \in E => Edge(n, p)
      BY <2>1
    <2> HIDE DEF E, Edge
    <2>3. \E n \in S : \A p \in S : ~Edge(n, p)
      BY <2>1
    <2> QED
      BY <2>2, <2>3
  <1> HIDE DEF Edge
  <1>1. \A n \in S : n # Origin /\ src[n][Origin] # NoSource
    BY EdgeFact DEF Edge
  <1>2. \A n \in S : Offset(n) \in 0 .. MaxBumps /\ src[n][Origin].metric \in Nat
    BY <1>1, RankFact
  <1> DEFINE late == {MaxBumps - Offset(n) : n \in S}
  <1>3. late \in SUBSET Nat /\ late # {}
    BY <1>2, BabelAssumption
  <1>4. PICK x \in S : \A y \in S : Offset(y) <= Offset(x)
    <2> HIDE DEF late
    <2>1. PICK l \in late : \A k \in late : l <= k
      BY <1>3, SmallestFact
    <2>2. PICK x \in S : l = MaxBumps - Offset(x)
      BY <2>1 DEF late
    <2>3. \A y \in S : MaxBumps - Offset(x) <= MaxBumps - Offset(y)
      BY <2>1, <2>2 DEF late
    <2> QED
      BY <1>2, <2>3, BabelAssumption
  <1> DEFINE newest == {n \in S : Offset(n) = Offset(x)}
             near == {src[n][Origin].metric : n \in newest}
  <1>5. near \in SUBSET Nat /\ near # {}
    BY <1>2, <1>4
  <1>6. PICK z \in newest : \A y \in newest :
          src[z][Origin].metric <= src[y][Origin].metric
    <2>1. PICK l \in near : \A k \in near : l <= k
      <3> HIDE DEF near
      <3> QED
        BY <1>5, SmallestFact
    <2> QED
      BY <2>1
  <1>7. PICK p \in S : Edge(z, p)
    BY <1>6
  <1>8. \/ Offset(p) > Offset(z)
        \/ Offset(p) = Offset(z) /\ src[p][Origin].metric < src[z][Origin].metric
    BY <1>1, <1>6, <1>7, EdgeFact DEF Edge
  <1>9. Offset(p) <= Offset(z) /\ Offset(z) = Offset(x)
    BY <1>4, <1>6
  <1>10. Offset(p) = Offset(z) => src[z][Origin].metric <= src[p][Origin].metric
    BY <1>6, <1>9
  <1> QED
    BY <1>2, <1>6, <1>8, <1>9, <1>10

\* Packets never go round along feasible routes, whatever is lost, delayed or
\* reordered: the feasibility test of update_feasible is against a distance that
\* every router downstream has bettered.
THEOREM LoopFree == Spec => []FeasibleLoopFree
  BY RoutersSound, LoopFreeFact, PTL
=============================================================================
