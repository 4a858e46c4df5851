----------------------------- MODULE RibProofs -----------------------------
(***************************************************************************)
(* Theorems of Rib, for every value of the constants, in three parts.      *)
(*                                                                         *)
(* The slot: it keeps its types, its list keeps its shape, every source    *)
(* counts its references, no route is installed over one of our own,       *)
(* feasibility distances only improve, and what becomes installed is       *)
(* feasible.  The invariants depend on each other: a source that is freed  *)
(* while a route refers to it would make update_source and seqno_plus work *)
(* on nothing, so types need the reference counts; the counts need the     *)
(* routes of the list to be different; and the walks need their pointer to *)
(* stay in the list.  IInv joins them.                                     *)
(*                                                                         *)
(* What the router owes others: the kernel's entries are those of the      *)
(* installed route, whether or not the kernel obeys; what is believed of a *)
(* usable route is one update that its neighbour sent; its cost is its     *)
(* neighbour's, which walks bring to a list that they reorder; and a       *)
(* neighbour that was told that we reach the destination is told of its    *)
(* loss.                                                                   *)
(*                                                                         *)
(* The use of its routes: a route that is fresh, feasible and finite is    *)
(* never left unused while nothing better is installed.                    *)
(***************************************************************************)
EXTENDS Rib, RouteProofs

\* The pointer of a walk is in the list.
JobOK ==
  /\ job \in [kind : Jobs, neighs : SUBSET Neighs, at : Paths \cup {NoPath},
              ifs : SUBSET up]
  /\ job.kind \in {"metric", "retract", "flush", "expire"} =>
       job.at \in Listed(Table)

IInv ==
  /\ SlotOK(Table)
  /\ RefsOK(Table)
  /\ cost \in [Neighs -> Metric]
  /\ JobOK

-----------------------------------------------------------------------------
(* From a slot to the state and back. *)

\* The fields of the state.
LEMMA TableFact ==
  /\ Table.list = list /\ Table.rt = rt /\ Table.src = src /\ Table.fib = fib
  /\ Table.xroute = xroute /\ Table.self = [id |-> Self, seqno |-> 0]
  /\ Table.up = up /\ Table.update = update /\ Table.resend = resend
  /\ Table.told = told
  BY DEF Table

\* The record of a state whose parts are a slot's.
LEMMA RecordFact ==
  ASSUME NEW t, SlotOK(t), RefsOK(t),
         NEW u, u = [list |-> t.list, rt |-> t.rt, src |-> t.src, fib |-> t.fib,
                     xroute |-> t.xroute, self |-> t.self, up |-> t.up,
                     update |-> t.update, resend |-> t.resend, told |-> t.told,
                     sent |-> {}, asked |-> {}]
  PROVE  SlotOK(u) /\ RefsOK(u) /\ Listed(u) = Listed(t)
  <1>1. /\ u.list = t.list /\ u.rt = t.rt /\ u.src = t.src /\ u.xroute = t.xroute
        /\ u.up = t.up /\ u.update = t.update /\ u.told = t.told
    OBVIOUS
  <1>2. u \in Slot
    BY SlotFact DEF SlotOK, Slot
  <1>3. Listed(u) = Listed(t)
    BY <1>1 DEF Listed
  <1>4. HeadOK(u) /\ SourcesOK(u) /\ BuffersOK(u) /\ XrouteOK(u) /\ NoDuplicate(u.list)
    BY <1>1, <1>3 DEF SlotOK, HeadOK, SourcesOK, BuffersOK, XrouteOK
  <1>5. RefsOK(u)
    BY <1>1, <1>3 DEF RefsOK, Refs
  <1> QED
    BY <1>2, <1>3, <1>4, <1>5 DEF SlotOK

\* A handler that leaves slot t.
LEMMA BecomesFact ==
  ASSUME NEW t, SlotOK(t), RefsOK(t), Becomes(t),
         t.up = up', t.self = [id |-> Self, seqno |-> 0]
  PROVE  SlotOK(Table') /\ RefsOK(Table') /\ Listed(Table') = Listed(t)
  <1>1. Table' = [list |-> t.list, rt |-> t.rt, src |-> t.src, fib |-> t.fib,
                  xroute |-> t.xroute, self |-> t.self, up |-> t.up,
                  update |-> t.update, resend |-> t.resend, told |-> t.told,
                  sent |-> {}, asked |-> {}]
    BY DEF Table, Becomes
  <1> QED
    BY <1>1, RecordFact

\* The initial state.
LEMMA InitFact == Init => IInv
  <1> SUFFICES ASSUME Init PROVE IInv
    OBVIOUS
  <1>1. /\ list = << >> /\ rt = [p \in Paths |-> NoRoute]
        /\ src = [id \in Ids |-> NoSource] /\ fib = {} /\ xroute = INFINITY
        /\ up = Ifaces /\ update = {} /\ resend = 0 /\ told = {}
        /\ cost = [n \in Neighs |-> INFINITY] /\ job = Idle
    BY DEF Init
  <1>2. Table \in Slot
    <2>1. list \in Seq(Paths) /\ rt \in [Paths -> Route]
      BY <1>1, NoRouteFact
    <2>2. src \in [Ids -> Source \cup {NoSource}] /\ fib \in SUBSET FibEntry
      BY <1>1
    <2>3. xroute \in Metric /\ resend \in 0 .. RESEND_MAX
      BY <1>1, BoundsFact, TimeAssumption
    <2>4. [id |-> Self, seqno |-> 0] \in [id : Ids, seqno : Seqnos]
      BY RibAssumption, SeqModAssumption DEF Seqnos
    <2> QED
      BY <1>1, <2>1, <2>2, <2>3, <2>4 DEF Table, Slot
  <1>3. Listed(Table) = {}
    BY <1>1, TableFact DEF Listed
  <1>4. \A p \in Paths : ~Table.rt[p].installed
    BY <1>1, TableFact, NoRouteFact
  <1>5. NoDuplicate(Table.list) /\ HeadOK(Table) /\ SourcesOK(Table)
        /\ BuffersOK(Table) /\ XrouteOK(Table)
    BY <1>1, <1>3, <1>4, TableFact DEF NoDuplicate, HeadOK, SourcesOK, BuffersOK, XrouteOK
  <1>6. RefsOK(Table)
    BY <1>1, TableFact DEF RefsOK
  <1>7. cost \in [Neighs -> Metric]
    BY <1>1, BoundsFact
  <1>8. JobOK
    BY <1>1 DEF JobOK, Idle, Jobs
  <1> QED
    BY <1>2, <1>5, <1>6, <1>7, <1>8 DEF IInv, SlotOK

-----------------------------------------------------------------------------
(* The walks' pointer. *)

\* What follows a walk.
LEMMA AfterFact ==
  ASSUME NEW ifs
  PROVE  /\ After(ifs) \in [kind : Jobs, neighs : SUBSET Neighs,
                            at : Paths \cup {NoPath}, ifs : SUBSET ifs]
         /\ After(ifs).kind \in {"idle", "request"}
  <1>1. CASE ifs = {}
    BY <1>1 DEF After, Idle, Jobs
  <1>2. CASE ifs # {}
    <2>1. After(ifs) = [kind |-> "request", neighs |-> {}, at |-> NoPath, ifs |-> ifs]
      BY <1>2 DEF After, Idle
    <2> QED
      BY <2>1 DEF Jobs
  <1> QED
    BY <1>1, <1>2

\* A walk that starts.
LEMMA WalkFact ==
  ASSUME SlotOK(Table), Listed(Table') = Listed(Table),
         NEW kind \in {"metric", "retract", "flush", "expire"},
         NEW neighs \in SUBSET Neighs, NEW ifs \in SUBSET up',
         job' = Walk(kind, neighs, ifs)
  PROVE  JobOK'
  <1>1. CASE list = << >>
    <2>1. job' = After(ifs)
      BY <1>1 DEF Walk
    <2>2. job' \in [kind : Jobs, neighs : SUBSET Neighs, at : Paths \cup {NoPath},
                    ifs : SUBSET up']
      BY <2>1, AfterFact
    <2> QED
      BY <2>1, <2>2, AfterFact DEF JobOK
  <1>2. CASE list # << >>
    <2>1. job' = [kind |-> kind, neighs |-> neighs, at |-> list[1], ifs |-> ifs]
      BY <1>2 DEF Walk
    <2>2. list \in Seq(Paths)
      BY SlotFact, TableFact DEF SlotOK
    <2>3. list[1] \in Paths /\ list[1] \in Listed(Table)
      BY <1>2, <2>2, TableFact DEF Listed
    <2> QED
      BY <2>1, <2>3 DEF JobOK, Jobs
  <1> QED
    BY <1>1, <1>2

\* A walk that goes on.
LEMMA GoesOnFact ==
  ASSUME JobOK, up' = up, NEW p, p = NoPath \/ p \in Listed(Table') \cap Paths,
         GoesOn(p)
  PROVE  JobOK'
  <1>1. CASE p = NoPath
    <2>1. job' = After(job.ifs) /\ job.ifs \in SUBSET up'
      BY <1>1 DEF GoesOn, JobOK
    <2>2. job' \in [kind : Jobs, neighs : SUBSET Neighs, at : Paths \cup {NoPath},
                    ifs : SUBSET up']
      BY <2>1, AfterFact
    <2> QED
      BY <2>1, <2>2, AfterFact DEF JobOK
  <1>2. CASE p # NoPath
    <2>1. job' = [job EXCEPT !.at = p] /\ p \in Listed(Table') /\ p \in Paths
      BY <1>2 DEF GoesOn
    <2>2. job' \in [kind : Jobs, neighs : SUBSET Neighs, at : Paths \cup {NoPath},
                    ifs : SUBSET up']
      BY <2>1 DEF JobOK
    <2>3. job'.at = p
      BY <2>1 DEF JobOK
    <2> QED
      BY <2>1, <2>2, <2>3 DEF JobOK
  <1> QED
    BY <1>1, <1>2

\* The paths of a list.
LEMMA ListedPathsFact ==
  ASSUME NEW t, SlotOK(t)
  PROVE  Listed(t) \subseteq Paths
  BY ListedFact

\* One iteration that keeps the routes of the list.
LEMMA VisitFact ==
  ASSUME JobOK, job.at \in Listed(Table), up' = up, NEW t,
         SlotOK(t), RefsOK(t), SameEnv(Table, t), Listed(t) = Listed(Table),
         Visit(t)
  PROVE  SlotOK(Table') /\ RefsOK(Table') /\ JobOK'
  <1>1. t.up = up' /\ t.self = [id |-> Self, seqno |-> 0]
    BY TableFact DEF SameEnv
  <1>2. SlotOK(Table') /\ RefsOK(Table') /\ Listed(Table') = Listed(t)
    BY <1>1, BecomesFact DEF Visit
  <1> DEFINE p == NextInList(t.list, job.at)
  <1>3. t.list \in Seq(Paths) /\ job.at \in Paths
        /\ \E i \in DOMAIN t.list : t.list[i] = job.at
    BY SlotFact, ListedPathsFact DEF SlotOK, Listed
  <1>4. p = NoPath \/ p \in Listed(t)
    BY <1>3, NextInListFact DEF Listed
  <1>5. GoesOn(p)
    BY DEF Visit
  <1> HIDE DEF p
  <1>6. p = NoPath \/ p \in Listed(Table') \cap Paths
    BY <1>2, <1>4, ListedPathsFact
  <1>7. JobOK'
    BY <1>5, <1>6, GoesOnFact
  <1> QED
    BY <1>2, <1>7

\* One iteration that keeps the references.
LEMMA VisitSameFact ==
  ASSUME SlotOK(Table), RefsOK(Table), JobOK, job.at \in Listed(Table), up' = up,
         NEW t, SlotOK(t), SameRefs(Table, t), Visit(t)
  PROVE  SlotOK(Table') /\ RefsOK(Table') /\ JobOK'
  <1>1. RefsOK(t) /\ SameEnv(Table, t) /\ Listed(t) = Listed(Table)
    BY SameRefsOK DEF SameRefs, SameEnv
  <1> QED
    BY <1>1, VisitFact

\* One iteration that flushes its route.
LEMMA FlushAndRestartFact ==
  ASSUME SlotOK(Table), RefsOK(Table), JobOK, job.at \in Listed(Table), up' = up,
         NEW k, FlushAndRestart(k)
  PROVE  SlotOK(Table') /\ RefsOK(Table') /\ JobOK'
  <1> DEFINE t == flush_route(Table, job.at, k)
             p == IF t.list = << >> THEN NoPath ELSE t.list[1]
  <1>1. SlotOK(t) /\ RefsOK(t) /\ SameEnv(Table, t)
    BY FlushRouteFact DEF SameEnv
  <1>2. Becomes(t) /\ GoesOn(p)
    BY DEF FlushAndRestart
  <1> HIDE DEF t
  <1>3. t.up = up' /\ t.self = [id |-> Self, seqno |-> 0]
    BY <1>1, TableFact DEF SameEnv
  <1>4. SlotOK(Table') /\ RefsOK(Table') /\ Listed(Table') = Listed(t)
    BY <1>1, <1>2, <1>3, BecomesFact
  <1>5. t.list \in Seq(Paths)
    BY <1>1, SlotFact DEF SlotOK
  <1>6. p = NoPath \/ (p \in Listed(t) /\ p \in Paths)
    BY <1>5 DEF Listed
  <1> HIDE DEF p
  <1>7. JobOK'
    BY <1>2, <1>4, <1>6, GoesOnFact
  <1> QED
    BY <1>4, <1>7

-----------------------------------------------------------------------------
(* One lemma per action. *)

\* The parts of the inductive invariant, on the state's record.
LEMMA IInvFact ==
  ASSUME IInv
  PROVE  /\ SlotOK(Table) /\ RefsOK(Table) /\ JobOK /\ Table \in Slot
         /\ list \in Seq(Paths) /\ rt \in [Paths -> Route]
         /\ src \in [Ids -> Source \cup {NoSource}] /\ xroute \in Metric
         /\ up \in SUBSET Ifaces /\ update \in SUBSET up /\ told \in SUBSET up
         /\ resend \in 0 .. RESEND_MAX /\ cost \in [Neighs -> Metric]
  BY SlotFact, TableFact DEF IInv, SlotOK, BuffersOK

\* A handler that does not walk and leaves slot t.
LEMMA HandlerFact ==
  ASSUME IInv, job = Idle, UNCHANGED <<up, cost, job>>,
         NEW t, SlotOK(t), RefsOK(t), t.up = Table.up, t.self = Table.self,
         Becomes(t)
  PROVE  IInv'
  <1>1. t.up = up' /\ t.self = [id |-> Self, seqno |-> 0]
    BY TableFact
  <1>2. SlotOK(Table') /\ RefsOK(Table')
    BY <1>1, BecomesFact
  <1>3. JobOK'
    BY DEF IInv, JobOK, Idle
  <1> QED
    BY <1>2, <1>3 DEF IInv

\* An update is received.
LEMMA ReceiveUpdateFact ==
  ASSUME IInv, NEW p \in Paths, NEW a \in Announced, ReceiveUpdate(p, a)
  PROVE  IInv'
  <1> PICK k \in Answers :
        Becomes(update_route(Table, p, a, cost[NeighOf[p]], k))
    BY DEF ReceiveUpdate
  <1> DEFINE t == update_route(Table, p, a, cost[NeighOf[p]], k)
  <1>1. a \in Update /\ cost[NeighOf[p]] \in Metric
    BY IInvFact, RibAssumption, PathAssumption
  <1>2. SlotOK(t) /\ RefsOK(t) /\ SameEnv(Table, t)
    BY <1>1, IInvFact, UpdateRouteFact
  <1>3. Becomes(t)
    OBVIOUS
  <1> HIDE DEF t
  <1> QED
    BY <1>2, <1>3, HandlerFact DEF ReceiveUpdate, SameEnv

\* The exported routes change.
LEMMA CheckXroutesActionFact ==
  ASSUME IInv, NEW m \in Exported \cup {INFINITY}, CheckXroutes(m)
  PROVE  IInv'
  <1> PICK k \in Answers : Becomes(check_xroutes(Table, m, ExportedPrio, k))
    BY DEF CheckXroutes
  <1> DEFINE t == check_xroutes(Table, m, ExportedPrio, k)
  <1>1. m \in Metric
    BY RibAssumption, MetricAssumption DEF Metric
  <1>2. SlotOK(t) /\ RefsOK(t) /\ t.self = Table.self /\ t.up = Table.up
    BY <1>1, IInvFact, CheckXroutesFact
  <1>3. Becomes(t)
    OBVIOUS
  <1> HIDE DEF t
  <1> QED
    BY <1>2, <1>3, HandlerFact DEF CheckXroutes

\* An update is buffered.
LEMMA SendUpdateActionFact ==
  ASSUME IInv, NEW i \in Ifaces, SendUpdate(i)
  PROVE  IInv'
  <1> DEFINE new == update \cup {i}
             t == [Table EXCEPT !.update = new]
  <1>1. new \in SUBSET Table.up
    BY IInvFact, TableFact DEF SendUpdate
  <1>2. Becomes(t)
    BY DEF SendUpdate, Becomes, Table
  <1> HIDE DEF new
  <1>3. SlotOK(t) /\ SameRefs(Table, t)
    <2>1. Table.resend \in 0 .. RESEND_MAX
          /\ Table.asked \in SUBSET [to : SUBSET Neighs, id : Ids, seqno : Seqnos]
      BY IInvFact, SlotFact
    <2> QED
      BY <1>1, <2>1, IInvFact, BuffersFact
  <1> HIDE DEF t
  <1>4. RefsOK(t)
    BY <1>3, IInvFact, SameRefsOK
  <1> QED
    BY <1>2, <1>3, <1>4, HandlerFact DEF SendUpdate, SameRefs

\* The buffered updates are sent.
LEMMA FlushUpdatesFact ==
  ASSUME IInv, NEW i \in Ifaces, FlushUpdates(i)
  PROVE  IInv'
  <1> DEFINE t == flushupdates(Table, {i})
  <1>1. Becomes(t)
    BY DEF FlushUpdates
  <1>2. SlotOK(t) /\ SameRefs(Table, t)
    BY IInvFact, FlushFact
  <1> HIDE DEF t
  <1>3. RefsOK(t)
    BY <1>2, IInvFact, SameRefsOK
  <1> QED
    BY <1>1, <1>2, <1>3, HandlerFact DEF FlushUpdates, SameRefs

\* An update is sent again.
LEMMA DoResendFact ==
  ASSUME IInv, DoResend
  PROVE  IInv'
  <1> PICK k \in Answers : Becomes([send_update(Table, k) EXCEPT !.resend = @ - 1])
    BY DEF DoResend
  <1> DEFINE u == send_update(Table, k)
             n == u.resend - 1
             t == [u EXCEPT !.resend = n]
  <1>1. Becomes(t)
    OBVIOUS
  <1>2. SlotOK(u) /\ SameRefs(Table, u) /\ u.resend = resend
    BY IInvFact, SendUpdateFact, SendUpdateResendFact, TableFact
  <1> HIDE DEF u
  <1>3. n \in 0 .. RESEND_MAX
    BY <1>2, IInvFact, TimeAssumption DEF DoResend
  <1> HIDE DEF n
  <1>4. SlotOK(t) /\ SameRefs(u, t)
    <2>1. u.asked \in SUBSET [to : SUBSET Neighs, id : Ids, seqno : Seqnos]
          /\ u.update \in SUBSET u.up
      BY <1>2, SlotFact DEF SlotOK, BuffersOK
    <2> QED
      BY <1>2, <1>3, <2>1, BuffersFact
  <1> HIDE DEF t
  <1>5. SameRefs(Table, t)
    BY <1>2, <1>4, SameRefsFact
  <1>6. RefsOK(t)
    BY <1>4, <1>5, IInvFact, SameRefsOK
  <1> QED
    BY <1>1, <1>4, <1>5, <1>6, HandlerFact DEF DoResend, SameRefs

\* Sources that nobody refers to are freed.
LEMMA ExpireSourcesActionFact ==
  ASSUME IInv, ExpireSources
  PROVE  IInv'
  <1> DEFINE t == [Table EXCEPT !.src = expire_sources(Table.src)]
  <1>1. Becomes(t)
    BY DEF ExpireSources, Becomes, Table
  <1>2. SlotOK(t) /\ RefsOK(t) /\ SameEnv(Table, t)
    BY IInvFact, ExpireSourcesFact
  <1> HIDE DEF t
  <1> QED
    BY <1>1, <1>2, HandlerFact DEF ExpireSources, SameEnv

\* The slot is untouched, so is its record.
LEMMA SlotUnchangedFact ==
  ASSUME IInv, UNCHANGED <<up, slot>>
  PROVE  /\ Table' = Table /\ SlotOK(Table') /\ RefsOK(Table')
         /\ Listed(Table') = Listed(Table)
  <1>1. Table' = Table
    BY DEF Table, slot
  <1> QED
    BY <1>1, IInvFact

\* A handler that starts a walk and does nothing else to the slot.
LEMMA StartFact ==
  ASSUME IInv, UNCHANGED <<up, slot>>, cost' \in [Neighs -> Metric],
         NEW kind \in {"metric", "retract", "flush", "expire"},
         NEW neighs \in SUBSET Neighs, job' = Walk(kind, neighs, {})
  PROVE  IInv'
  <1>1. SlotOK(Table') /\ RefsOK(Table') /\ Listed(Table') = Listed(Table)
    BY SlotUnchangedFact
  <1>2. JobOK'
    <2>1. {} \in SUBSET up'
      OBVIOUS
    <2> QED
      BY <1>1, <2>1, IInvFact, WalkFact
  <1> QED
    BY <1>1, <1>2 DEF IInv

\* The cost of a neighbour changes.
LEMMA CostChangeFact ==
  ASSUME IInv, NEW n \in Neighs, NEW c \in Costs, CostChange(n, c)
  PROVE  IInv'
  <1>1. c \in Metric
    BY RibAssumption, MetricAssumption DEF Metric
  <1>2. cost' \in [Neighs -> Metric]
    BY <1>1, IInvFact DEF CostChange
  <1>3. UNCHANGED <<up, slot>> /\ job' = Walk("metric", {n}, {})
    BY DEF CostChange
  <1>4. {n} \in SUBSET Neighs
    OBVIOUS
  <1> QED
    BY <1>2, <1>3, <1>4, StartFact

\* A neighbour retracts everything.
LEMMA WildcardRetractionFact ==
  ASSUME IInv, NEW n \in Neighs, WildcardRetraction(n)
  PROVE  IInv'
  <1>1. cost' \in [Neighs -> Metric]
    BY IInvFact DEF WildcardRetraction
  <1>2. UNCHANGED <<up, slot>> /\ job' = Walk("retract", {n}, {})
    BY DEF WildcardRetraction
  <1>3. {n} \in SUBSET Neighs
    OBVIOUS
  <1> QED
    BY <1>1, <1>2, <1>3, StartFact

\* A neighbour is given up.
LEMMA FlushNeighbourFact ==
  ASSUME IInv, NEW n \in Neighs, FlushNeighbour(n)
  PROVE  IInv'
  <1>1. cost' \in [Neighs -> Metric]
    BY IInvFact, BoundsFact DEF FlushNeighbour
  <1>2. UNCHANGED <<up, slot>> /\ job' = Walk("flush", {n}, {})
    BY DEF FlushNeighbour
  <1>3. {n} \in SUBSET Neighs
    OBVIOUS
  <1> QED
    BY <1>1, <1>2, <1>3, StartFact

\* The expiry timer.
LEMMA ExpireRoutesFact ==
  ASSUME IInv, ExpireRoutes
  PROVE  IInv'
  <1>1. cost' \in [Neighs -> Metric]
    BY IInvFact DEF ExpireRoutes
  <1>2. UNCHANGED <<up, slot>> /\ job' = Walk("expire", Neighs, {})
    BY DEF ExpireRoutes
  <1>3. Neighs \in SUBSET Neighs
    OBVIOUS
  <1> QED
    BY <1>1, <1>2, <1>3, StartFact

\* The record of a state whose interfaces changed.
LEMMA TableUpFact ==
  ASSUME IInv, up' \in SUBSET Ifaces, update' \in SUBSET up', told' \in SUBSET up',
         UNCHANGED <<list, rt, src, fib, xroute, resend>>
  PROVE  SlotOK(Table') /\ RefsOK(Table') /\ Listed(Table') = Listed(Table)
  <1> DEFINE u == Table'
  <1>1. /\ u.list = Table.list /\ u.rt = Table.rt /\ u.src = Table.src
        /\ u.xroute = Table.xroute
        /\ u.up = up' /\ u.update = update' /\ u.told = told'
    BY DEF Table
  <1>2. u \in Slot
    <2>1. Table \in Slot
      BY IInvFact
    <2> QED
      BY <2>1 DEF Table, Slot
  <1>3. BuffersOK(u)
    BY <1>1 DEF BuffersOK
  <1>4. SlotOK(Table) /\ RefsOK(Table)
    BY IInvFact
  <1> HIDE DEF u
  <1>5. SlotOK(u) /\ RefsOK(u) /\ Listed(u) = Listed(Table)
    BY <1>1, <1>2, <1>3, <1>4, UpFact
  <1> QED
    BY <1>5 DEF u

\* An interface goes down.
LEMMA InterfaceDownFact ==
  ASSUME IInv, NEW i \in Ifaces, InterfaceDown(i)
  PROVE  IInv'
  <1>1. up' \in SUBSET Ifaces /\ update' \in SUBSET up' /\ told' \in SUBSET up'
    BY IInvFact DEF InterfaceDown
  <1>2. SlotOK(Table') /\ RefsOK(Table') /\ Listed(Table') = Listed(Table)
    BY <1>1, TableUpFact DEF InterfaceDown
  <1>3. cost' \in [Neighs -> Metric]
    BY IInvFact, BoundsFact DEF InterfaceDown
  <1>4. job' = Walk("flush", Behind(i), {})
    BY DEF InterfaceDown
  <1>5. Behind(i) \in SUBSET Neighs /\ {} \in SUBSET up'
    BY DEF Behind
  <1>6. JobOK'
    BY <1>2, <1>4, <1>5, IInvFact, WalkFact
  <1> QED
    BY <1>2, <1>3, <1>6 DEF IInv

\* An interface comes up.
LEMMA InterfaceUpFact ==
  ASSUME IInv, NEW i \in Ifaces, InterfaceUp(i)
  PROVE  IInv'
  <1>1. up' \in SUBSET Ifaces /\ update' \in SUBSET up' /\ told' \in SUBSET up'
    BY IInvFact DEF InterfaceUp, slot
  <1>2. SlotOK(Table') /\ RefsOK(Table') /\ Listed(Table') = Listed(Table)
    BY <1>1, TableUpFact DEF InterfaceUp, slot
  <1>3. cost' \in [Neighs -> Metric]
    <2> PICK c \in [Behind(i) -> Costs] :
          cost' = [n \in Neighs |-> IF n \in Behind(i) THEN c[n] ELSE cost[n]]
      BY DEF InterfaceUp
    <2>1. Costs \subseteq Metric
      BY RibAssumption, MetricAssumption DEF Metric
    <2> QED
      BY <2>1, IInvFact
  <1>4. job' = Walk("metric", Behind(i), {i})
    BY DEF InterfaceUp
  <1>5. Behind(i) \in SUBSET Neighs /\ {i} \in SUBSET up'
    BY DEF Behind, InterfaceUp
  <1>6. JobOK'
    BY <1>2, <1>4, <1>5, IInvFact, WalkFact
  <1> QED
    BY <1>2, <1>3, <1>6 DEF IInv

\* An iteration of update_neighbour_metric or update_interface_metric.
LEMMA MetricWalkFact ==
  ASSUME IInv, UNCHANGED <<up, cost>>, NEW k, MetricStep(k)
  PROVE  IInv'
  <1> DEFINE c == cost[NeighOf[job.at]]
             u == update_route_metric(Table, job.at, c, k)
             t == IF NeighOf[job.at] \in job.neighs THEN u ELSE Table
  <1>1. Visit(t)
    BY DEF MetricStep
  <1>2. job.at \in Listed(Table)
    BY IInvFact DEF MetricStep, JobOK
  <1>3. c \in Metric
    BY <1>2, IInvFact, ListedPathsFact, PathAssumption
  <1>4. SlotOK(u) /\ SameRefs(Table, u)
    BY <1>2, <1>3, IInvFact, UpdateMetricFact
  <1>5. SlotOK(t) /\ SameRefs(Table, t)
    BY <1>4, IInvFact, SameRefsFact
  <1> HIDE DEF t
  <1>6. SlotOK(Table') /\ RefsOK(Table') /\ JobOK'
    BY <1>1, <1>2, <1>5, IInvFact, VisitSameFact
  <1> QED
    BY <1>6 DEF IInv

\* An iteration of retract_neighbour_routes.
LEMMA RetractWalkFact ==
  ASSUME IInv, UNCHANGED <<up, cost>>, NEW k, RetractStep(k)
  PROVE  IInv'
  <1> DEFINE r == rt[job.at]
             u == retract_route(Table, job.at, k)
             v == route_changed(u, job.at, r.id, route_metric(r), k)
             t == IF NeighOf[job.at] \in job.neighs /\ r.refmetric # INFINITY
                    THEN IF route_metric(r) # INFINITY THEN v ELSE u
                    ELSE Table
  <1>1. Visit(t)
    BY DEF RetractStep
  <1>2. job.at \in Listed(Table) /\ job.at \in Paths
    BY IInvFact, ListedPathsFact DEF RetractStep, JobOK
  <1>3. SlotOK(u) /\ SameRefs(Table, u)
    BY <1>2, IInvFact, RetractFact
  <1> HIDE DEF u
  <1>4. job.at \in Listed(u)
    BY <1>2, <1>3 DEF SameRefs
  <1>5. SlotOK(v) /\ SameRefs(u, v)
    BY <1>3, <1>4, RouteChangedFact
  <1> HIDE DEF v
  <1>6. SlotOK(t) /\ SameRefs(Table, t)
    BY <1>3, <1>5, IInvFact, SameRefsFact
  <1> HIDE DEF t
  <1>7. SlotOK(Table') /\ RefsOK(Table') /\ JobOK'
    BY <1>1, <1>2, <1>6, IInvFact, VisitSameFact
  <1> QED
    BY <1>7 DEF IInv

\* An iteration of flush_neighbour_routes or flush_interface_routes.
LEMMA FlushWalkFact ==
  ASSUME IInv, UNCHANGED <<up, cost>>, NEW k, FlushStep(k)
  PROVE  IInv'
  <1>1. job.at \in Listed(Table)
    BY IInvFact DEF FlushStep, JobOK
  <1>2. CASE FlushAndRestart(k)
    BY <1>1, <1>2, IInvFact, FlushAndRestartFact DEF IInv
  <1>3. CASE Visit(Table)
    BY <1>1, <1>3, IInvFact, SameRefsFact, VisitSameFact DEF IInv
  <1> QED
    BY <1>2, <1>3 DEF FlushStep

\* An iteration of expire_routes.
LEMMA ExpireWalkFact ==
  ASSUME IInv, UNCHANGED <<up, cost>>, NEW k, ExpireStep(k)
  PROVE  IInv'
  <1> DEFINE c == cost[NeighOf[job.at]]
             u == update_route_metric(Table, job.at, c, k)
  <1>1. job.at \in Listed(Table)
    BY IInvFact DEF ExpireStep, JobOK
  <1>2. CASE FlushAndRestart(k)
    BY <1>1, <1>2, IInvFact, FlushAndRestartFact DEF IInv
  <1>3. CASE Visit(u)
    <2>1. c \in Metric
      BY <1>1, IInvFact, ListedPathsFact, PathAssumption
    <2>2. SlotOK(u) /\ SameRefs(Table, u)
      BY <1>1, <2>1, IInvFact, UpdateMetricFact
    <2> HIDE DEF u
    <2> QED
      BY <1>1, <1>3, <2>2, IInvFact, VisitSameFact DEF IInv
  <1> QED
    BY <1>2, <1>3 DEF ExpireStep

\* The request that follows interface_up.
LEMMA RequestWalkFact ==
  ASSUME IInv, UNCHANGED <<up, cost>>, RequestStep
  PROVE  IInv'
  <1> PICK all \in BOOLEAN :
        LET ours == find_installed_route(Table) # NoPath \/ xroute < INFINITY
            t == [Table EXCEPT !.update =
                    @ \cup IF all /\ ours THEN job.ifs ELSE {}]
        IN  Becomes(flushupdates(t, job.ifs))
    BY DEF RequestStep
  <1> DEFINE ours == find_installed_route(Table) # NoPath \/ xroute < INFINITY
             new == Table.update \cup IF all /\ ours THEN job.ifs ELSE {}
             t == [Table EXCEPT !.update = new]
             u == flushupdates(t, job.ifs)
  <1>1. Becomes(u)
    OBVIOUS
  <1>2. new \in SUBSET Table.up
    BY IInvFact, TableFact DEF JobOK
  <1> HIDE DEF new
  <1>3. SlotOK(t) /\ SameRefs(Table, t)
    <2>1. Table.resend \in 0 .. RESEND_MAX
          /\ Table.asked \in SUBSET [to : SUBSET Neighs, id : Ids, seqno : Seqnos]
      BY IInvFact, SlotFact
    <2> QED
      BY <1>2, <2>1, IInvFact, BuffersFact
  <1> HIDE DEF t
  <1>4. SlotOK(u) /\ SameRefs(t, u)
    BY <1>3, FlushFact
  <1> HIDE DEF u
  <1>5. SameRefs(Table, u)
    BY <1>3, <1>4, SameRefsFact
  <1>6. RefsOK(u)
    BY <1>5, IInvFact, SameRefsOK
  <1>7. u.up = up' /\ u.self = [id |-> Self, seqno |-> 0]
    BY <1>5, TableFact DEF SameRefs
  <1>8. SlotOK(Table') /\ RefsOK(Table')
    BY <1>1, <1>4, <1>6, <1>7, BecomesFact
  <1>9. JobOK'
    BY DEF RequestStep, JobOK, Idle, Jobs
  <1> QED
    BY <1>8, <1>9 DEF IInv

\* A route that gets older.
LEMMA AgedRouteFact ==
  ASSUME NEW r \in Route, NEW q \in Aged(r)
  PROVE  /\ q \in Route /\ q.id = r.id /\ q.installed = r.installed
         /\ q.seqno = r.seqno /\ q.refmetric = r.refmetric /\ q.cost = r.cost
  <1> DEFINE age == MIN(r.age + 1, MaxAge)
  <1>1. r.age \in 0 .. MaxAge /\ r.smoothed \in Metric /\ route_metric(r) \in Metric
    BY RouteMetricFact DEF Route
  <1>2. PICK s \in IF ~Smoothing THEN {r.smoothed}
                   ELSE IF route_metric(r) >= INFINITY THEN {route_metric(r)}
                   ELSE MIN(r.smoothed, route_metric(r))
                        .. MAX(r.smoothed, route_metric(r)) :
               q = [r EXCEPT !.age = age, !.smoothed = s]
    BY DEF Aged
  <1>3. s \in Metric
    <2> DEFINE m == route_metric(r)
               n == r.smoothed
    <2>1. s \in {m, n} \/ s \in MIN(n, m) .. MAX(n, m)
      BY <1>2
    <2>2. m \in Metric /\ n \in Metric
      BY <1>1
    <2> HIDE DEF m, n
    <2> QED
      BY <2>1, <2>2, MetricAssumption DEF Metric, MIN, MAX
  <1>4. age \in 0 .. MaxAge
    BY <1>1, TimeAssumption DEF MIN, MaxAge
  <1> HIDE DEF age
  <1>5. q \in Route
    BY <1>2, <1>3, <1>4, Zenon DEF Route
  <1>6. /\ q.id = r.id /\ q.installed = r.installed
        /\ q.seqno = r.seqno /\ q.refmetric = r.refmetric /\ q.cost = r.cost
    BY <1>2, SMT DEF Route
  <1> QED
    BY <1>5, <1>6

\* A source that gets older.
LEMMA AgedSourceFact ==
  ASSUME NEW s \in Source, NEW q,
         q = [s EXCEPT !.age = MIN(s.age + 1, MaxSourceAge)]
  PROVE  /\ q \in Source /\ q.count = s.count
         /\ q.seqno = s.seqno /\ q.metric = s.metric
  <1> DEFINE age == MIN(s.age + 1, MaxSourceAge)
  <1>1. age \in 0 .. MaxSourceAge
    BY TimeAssumption DEF MIN, MaxSourceAge, Source
  <1>2. q = [s EXCEPT !.age = age]
    OBVIOUS
  <1> HIDE DEF age
  <1> QED
    BY <1>1, <1>2 DEF Source

\* Time passes.
LEMMA TickFact ==
  ASSUME IInv, Tick
  PROVE  IInv'
  <1> DEFINE aged(p) == IF p \in Listed(Table) THEN Aged(rt[p]) ELSE {NoRoute}
             u == Table'
  <1>1. rt \in [Paths -> Route] /\ src \in [Ids -> Source \cup {NoSource}]
        /\ Listed(Table) \subseteq Paths
    BY IInvFact, ListedPathsFact
  <1>2. /\ \E S : rt' \in [Paths -> S]
        /\ \A p \in Paths : rt'[p] \in aged(p)
    BY DEF Tick
  <1>3. \A p \in Paths :
          /\ rt'[p] \in Route
          /\ p \in Listed(Table) => rt'[p].id = rt[p].id
          /\ rt'[p].installed => rt[p].installed
    <2> SUFFICES ASSUME NEW p \in Paths
                 PROVE  /\ rt'[p] \in Route
                        /\ p \in Listed(Table) => rt'[p].id = rt[p].id
                        /\ rt'[p].installed => rt[p].installed
      OBVIOUS
    <2>1. CASE p \in Listed(Table)
      <3>1. rt'[p] \in Aged(rt[p]) /\ rt[p] \in Route
        BY <1>1, <1>2, <2>1
      <3> QED
        BY <3>1, AgedRouteFact
    <2>2. CASE p \notin Listed(Table)
      <3>1. rt'[p] = NoRoute
        BY <1>2, <2>2
      <3> QED
        BY <2>2, <3>1, NoRouteFact
    <2> QED
      BY <2>1, <2>2
  <1>4. rt' \in [Paths -> Route]
    BY <1>2, <1>3
  <1>5. ASSUME NEW id \in Ids
        PROVE  /\ src'[id] \in Source \cup {NoSource}
               /\ src'[id] = NoSource <=> src[id] = NoSource
               /\ src'[id] # NoSource => src'[id].count = src[id].count
    <2>1. CASE src[id] = NoSource
      BY <2>1 DEF Tick
    <2>2. CASE src[id] # NoSource
      <3>1. src'[id] = [src[id] EXCEPT !.age = MIN(src[id].age + 1, MaxSourceAge)]
        BY <2>2 DEF Tick
      <3>2. src[id] \in Source
        BY <1>1, <2>2
      <3>3. src'[id] \in Source /\ src'[id].count = src[id].count
        BY <3>1, <3>2, AgedSourceFact
      <3> QED
        BY <2>2, <3>3, SourceAssumption
    <2> QED
      BY <2>1, <2>2
  <1>6. src' \in [Ids -> Source \cup {NoSource}]
    BY <1>5 DEF Tick
  <1>7. u \in Slot
    <2>1. Table \in Slot
      BY IInvFact
    <2> QED
      BY <1>4, <1>6, <2>1 DEF Table, Slot, Tick
  <1>8. /\ u.list = Table.list /\ u.rt = rt' /\ u.src = src'
        /\ u.update = Table.update /\ u.told = Table.told /\ SameEnv(Table, u)
        /\ Table.rt = rt /\ Table.src = src
    BY DEF Table, Tick, SameEnv
  <1> HIDE DEF u
  <1>9. SlotOK(u) /\ RefsOK(u)
    <2> DEFINE newrt == rt'
               newsrc == src'
    <2>1. newrt \in [Paths -> Route] /\ newsrc \in [Ids -> Source \cup {NoSource}]
          /\ (\A p \in Listed(Table) : newrt[p].id = Table.rt[p].id)
          /\ (\A p \in Paths : newrt[p].installed => Table.rt[p].installed)
      BY <1>1, <1>3, <1>4, <1>6, <1>8
    <2>2. \A id \in Ids :
            /\ newsrc[id] = NoSource <=> Table.src[id] = NoSource
            /\ newsrc[id] # NoSource => newsrc[id].count = Table.src[id].count
      BY <1>5, <1>8
    <2>3. u.rt = newrt /\ u.src = newsrc
      BY <1>8
    <2> HIDE DEF newrt, newsrc
    <2> QED
      BY <1>7, <1>8, <2>1, <2>2, <2>3, IInvFact, AgedFact
  <1>10. JobOK'
    BY DEF Tick, IInv, JobOK, Idle
  <1>11. cost' \in [Neighs -> Metric]
    BY DEF Tick, IInv
  <1> QED
    BY <1>9, <1>10, <1>11 DEF IInv, u

\* One iteration of a walk.
LEMMA WalkStepFact ==
  ASSUME IInv, WalkStep
  PROVE  IInv'
  <1>1. UNCHANGED <<up, cost>>
    BY DEF WalkStep
  <1>2. CASE \E k \in Answers :
               MetricStep(k) \/ RetractStep(k) \/ FlushStep(k) \/ ExpireStep(k)
    BY <1>1, <1>2, MetricWalkFact, RetractWalkFact, FlushWalkFact, ExpireWalkFact
  <1>3. CASE RequestStep
    BY <1>1, <1>3, RequestWalkFact
  <1> QED
    BY <1>2, <1>3 DEF WalkStep

\* Every step of the router.
LEMMA NextFact == IInv /\ [Next]_vars => IInv'
  <1> SUFFICES ASSUME IInv, [Next]_vars PROVE IInv'
    OBVIOUS
  <1>1. ASSUME NEW p \in Paths, NEW a \in Announced, ReceiveUpdate(p, a)
        PROVE  IInv'
    BY <1>1, ReceiveUpdateFact
  <1>2. ASSUME NEW m \in Exported \cup {INFINITY}, CheckXroutes(m)
        PROVE  IInv'
    BY <1>2, CheckXroutesActionFact
  <1>3. ASSUME NEW i \in Ifaces,
               \/ SendUpdate(i) \/ FlushUpdates(i)
               \/ InterfaceDown(i) \/ InterfaceUp(i)
        PROVE  IInv'
    BY <1>3, SendUpdateActionFact, FlushUpdatesFact, InterfaceDownFact,
       InterfaceUpFact
  <1>4. CASE DoResend
    BY <1>4, DoResendFact
  <1>5. CASE ExpireSources
    BY <1>5, ExpireSourcesActionFact
  <1>6. ASSUME NEW n \in Neighs,
               \/ \E c \in Costs : CostChange(n, c)
               \/ WildcardRetraction(n)
               \/ FlushNeighbour(n)
        PROVE  IInv'
    BY <1>6, CostChangeFact, WildcardRetractionFact, FlushNeighbourFact
  <1>7. CASE ExpireRoutes
    BY <1>7, ExpireRoutesFact
  <1>8. CASE WalkStep
    BY <1>8, WalkStepFact
  <1>9. CASE Tick
    BY <1>9, TickFact
  <1>10. CASE UNCHANGED vars
    <2>1. UNCHANGED <<up, slot>> /\ cost' = cost /\ job' = job
      BY <1>10 DEF vars, slot
    <2>2. SlotOK(Table') /\ RefsOK(Table') /\ Listed(Table') = Listed(Table)
      BY <2>1, SlotUnchangedFact
    <2>3. JobOK'
      BY <2>1, <2>2 DEF IInv, JobOK
    <2> QED
      BY <2>1, <2>2, <2>3 DEF IInv
  <1> QED
    BY <1>1, <1>2, <1>3, <1>4, <1>5, <1>6, <1>7, <1>8, <1>9, <1>10 DEF Next

-----------------------------------------------------------------------------
(* Feasibility distances.                                                   *)
(*                                                                          *)
(* Sequence numbers are compared on a circle: a neighbour that announces    *)
(* numbers from all around it makes a distance as "new" as it likes.  Here  *)
(* the numbers announced for a router-id lie on an arc where "newer" is an  *)
(* order, as they do when the originator goes through half of the circle    *)
(* more slowly than what it sent is forgotten.  The kernel obeys: when      *)
(* kchange_route_metric is refused for a route that has expired,            *)
(* update_route_metric has already stored a sequence number that nobody     *)
(* announced, and the route keeps its metric.                               *)

Numbers == [id \in Ids |-> {a.seqno : a \in {b \in Announced : b.id = id}}]

Orderly == ~KernelMayRefuse /\ \A id \in Ids : Linear(Numbers[id])

\* Routes and sources have numbers that were announced.
NumbersOK == Numbered(Table, Numbers)

\* What DistanceOnlyImproves says of a step.
Improved ==
  \A id \in Ids : src[id] # NoSource /\ ~SourceStale(src[id]) =>
    /\ src'[id] # NoSource
    /\ AsGood(src'[id].seqno, src'[id].metric, src[id].seqno, src[id].metric)

\* What OnlyFeasibleInstalled says of a step.
Feasible ==
  \A p \in Paths : ~rt[p].installed /\ rt'[p].installed =>
    update_feasible(src[rt'[p].id], rt'[p].seqno, rt'[p].refmetric)

\* The windows, and what the kernel and the buffers answer.
LEMMA OrderlyFact ==
  ASSUME Orderly
  PROVE  /\ Numbers \in Windows
         /\ \A a \in Announced : a.seqno \in Numbers[a.id]
         /\ \A k \in Answers : k.bad = {}
  <1>1. \A a \in Announced : a.id \in Ids /\ a.seqno \in Seqnos
    BY RibAssumption DEF Update
  <1> QED
    BY <1>1 DEF Orderly, Numbers, Windows, Answers

\* The state is a good slot.
LEMMA GoodFact ==
  ASSUME Orderly, IInv, NumbersOK
  PROVE  Good(Table, Numbers) /\ Step(Table, Table, Numbers) /\ Judged(Table, Table)
  <1>1. Good(Table, Numbers)
    BY IInvFact DEF Good, NumbersOK
  <1> QED
    BY <1>1, OrderlyFact, StepFact DEF Step, Result, Judged

\* A handler that leaves slot t.
LEMMA JudgedFact ==
  ASSUME Orderly, IInv, NumbersOK, NEW t, Good(t, Numbers), Judged(Table, t),
         list' = t.list, rt' = t.rt, src' = t.src
  PROVE  NumbersOK' /\ Improved /\ Feasible
  <1>1. Listed(Table') = Listed(t)
    BY DEF Listed, Table
  <1>2. Table'.rt = rt' /\ Table'.src = src'
    BY DEF Table
  <1>3. NumbersOK'
    BY <1>1, <1>2 DEF NumbersOK, Good, Numbered
  <1>4. Improved
    BY TableFact DEF Improved, Judged, Improves
  <1>5. Feasible
    BY TableFact DEF Feasible, Judged
  <1> QED
    BY <1>3, <1>4, <1>5

\* A handler that touches neither routes nor sources.
LEMMA UntouchedFact ==
  ASSUME Orderly, IInv, NumbersOK, UNCHANGED <<list, rt, src>>
  PROVE  NumbersOK' /\ Improved /\ Feasible
  BY GoodFact, JudgedFact, TableFact

\* Handlers that do not walk and may change a route.
LEMMA HandlersDistanceFact ==
  ASSUME Orderly, IInv, NumbersOK,
         \/ \E p \in Paths, a \in Announced : ReceiveUpdate(p, a)
         \/ \E m \in Exported \cup {INFINITY} : CheckXroutes(m)
         \/ \E i \in Ifaces : FlushUpdates(i)
         \/ DoResend
  PROVE  NumbersOK' /\ Improved /\ Feasible
  <1>1. ASSUME NEW p \in Paths, NEW a \in Announced, ReceiveUpdate(p, a)
        PROVE  NumbersOK' /\ Improved /\ Feasible
    <2> PICK k \in Answers : Becomes(update_route(Table, p, a, cost[NeighOf[p]], k))
      BY <1>1 DEF ReceiveUpdate
    <2> DEFINE c == cost[NeighOf[p]]
               t == update_route(Table, p, a, c, k)
    <2>1. a \in Update /\ c \in Metric /\ k.bad = {} /\ a.seqno \in Numbers[a.id]
      BY IInvFact, RibAssumption, PathAssumption, OrderlyFact
    <2>2. Becomes(t)
      OBVIOUS
    <2> HIDE DEF c
    <2>3. Good(t, Numbers) /\ Result(Table, t)
      BY <2>1, IInvFact, GoodFact, OrderlyFact, UpdateRouteResultFact
    <2> HIDE DEF t
    <2> QED
      BY <2>2, <2>3, JudgedFact DEF Becomes, Result, Judged
  <1>2. ASSUME NEW m \in Exported \cup {INFINITY}, CheckXroutes(m)
        PROVE  NumbersOK' /\ Improved /\ Feasible
    <2> PICK k \in Answers : Becomes(check_xroutes(Table, m, ExportedPrio, k))
      BY <1>2 DEF CheckXroutes
    <2> DEFINE t == check_xroutes(Table, m, ExportedPrio, k)
    <2>1. m \in Metric
      BY RibAssumption, MetricAssumption DEF Metric
    <2>2. Becomes(t)
      OBVIOUS
    <2>3. Selects(Table, t, Numbers)
      BY <2>1, IInvFact, GoodFact, OrderlyFact, CheckXroutesSelectsFact
    <2> HIDE DEF t
    <2> QED
      BY <2>2, <2>3, JudgedFact DEF Becomes, Selects
  <1>3. ASSUME NEW i \in Ifaces, FlushUpdates(i)
        PROVE  NumbersOK' /\ Improved /\ Feasible
    <2> DEFINE t == flushupdates(Table, {i})
    <2>1. Becomes(t)
      BY <1>3 DEF FlushUpdates
    <2>2. Step(Table, t, Numbers)
      BY GoodFact, OrderlyFact, FlushStepFact
    <2> HIDE DEF t
    <2> QED
      BY <2>1, <2>2, JudgedFact DEF Becomes, Step, Result, Judged
  <1>4. CASE DoResend
    <2> PICK k \in Answers : Becomes([send_update(Table, k) EXCEPT !.resend = @ - 1])
      BY <1>4 DEF DoResend
    <2> DEFINE u == send_update(Table, k)
               t == [u EXCEPT !.resend = u.resend - 1]
    <2>1. Becomes(t)
      OBVIOUS
    <2>2. Step(Table, u, Numbers) /\ u \in Slot
      BY GoodFact, OrderlyFact, SendStepFact DEF Step, Good, SlotOK
    <2> HIDE DEF u
    <2>3. t.list = u.list /\ t.rt = u.rt /\ t.src = u.src
      BY <2>2, SMT DEF Slot
    <2> HIDE DEF t
    <2> QED
      BY <2>1, <2>2, <2>3, JudgedFact DEF Becomes, Step, Result, Judged
  <1> QED
    BY <1>1, <1>2, <1>3, <1>4

\* expire_sources forgets stale distances only.
LEMMA ExpireSourcesDistanceFact ==
  ASSUME Orderly, IInv, NumbersOK, ExpireSources
  PROVE  NumbersOK' /\ Improved /\ Feasible
  <1>1. list' = list /\ rt' = rt /\ src' = expire_sources(src)
        /\ src \in [Ids -> Source \cup {NoSource}]
    BY IInvFact DEF ExpireSources
  <1>2. \A id \in Ids : \/ src'[id] = src[id]
                        \/ src'[id] = NoSource /\ SourceStale(src[id])
    BY <1>1 DEF expire_sources
  <1>3. Listed(Table') = Listed(Table) /\ Table'.rt = rt /\ Table'.src = src'
    BY <1>1 DEF Listed, Table
  <1>4. NumbersOK'
    BY <1>2, <1>3, TableFact DEF NumbersOK, Numbered
  <1>5. Improved
    <2>1. \A id \in Ids : src[id] # NoSource => src[id].metric \in Nat
      BY IInvFact, FieldsFact, TableFact
    <2> QED
      BY <1>2, <2>1 DEF Improved, AsGood
  <1>6. Feasible
    BY <1>1 DEF Feasible
  <1> QED
    BY <1>4, <1>5, <1>6

\* One iteration of a walk.
LEMMA WalkDistanceFact ==
  ASSUME Orderly, IInv, NumbersOK, WalkStep
  PROVE  NumbersOK' /\ Improved /\ Feasible
  <1>1. ASSUME NEW k \in Answers, job.at \in Listed(Table),
               \/ Visit(update_route_metric(Table, job.at, cost[NeighOf[job.at]], k))
               \/ FlushAndRestart(k)
               \/ Visit(Table)
        PROVE  NumbersOK' /\ Improved /\ Feasible
    <2> DEFINE c == cost[NeighOf[job.at]]
               p == job.at
               u == update_route_metric(Table, p, c, k)
               v == flush_route(Table, p, k)
    <2>1. c \in Metric /\ k.bad = {}
      BY <1>1, IInvFact, ListedPathsFact, PathAssumption, OrderlyFact
    <2>2. p \in Listed(Table)
      BY <1>1
    <2>3. Becomes(u) \/ Becomes(v) \/ Becomes(Table)
      BY <1>1 DEF Visit, FlushAndRestart
    <2> HIDE DEF c, p
    <2>4. Good(u, Numbers) /\ Result(Table, u)
      BY <2>1, <2>2, GoodFact, OrderlyFact, UpdateMetricResultFact
    <2>5. Good(v, Numbers) /\ Result(Table, v)
      BY <2>2, GoodFact, OrderlyFact, FlushRouteResultFact
    <2> HIDE DEF u, v
    <2>6. \A t \in {u, v, Table} : Good(t, Numbers) /\ Judged(Table, t)
      BY <2>4, <2>5, GoodFact DEF Result, Judged
    <2> QED
      BY <2>3, <2>6, JudgedFact DEF Becomes
  <1>2. ASSUME NEW k \in Answers, RetractStep(k)
        PROVE  NumbersOK' /\ Improved /\ Feasible
    <2> DEFINE r == rt[job.at]
               p == job.at
               u == retract_route(Table, p, k)
               v == route_changed(u, p, r.id, route_metric(r), k)
    <2>1. p \in Listed(Table) /\ k.bad = {}
      BY <1>2, IInvFact, OrderlyFact DEF RetractStep, JobOK
    <2>2. Becomes(u) \/ Becomes(v) \/ Becomes(Table)
      BY <1>2 DEF RetractStep, Visit
    <2> HIDE DEF p, r
    <2>3. Good(u, Numbers) /\ Result(Table, u) /\ SameRefs(Table, u)
      <3>1. INFINITY \in Metric /\ 0 \in Metric /\ ~(INFINITY < INFINITY)
        BY BoundsFact, MetricAssumption
      <3> QED
        BY <2>1, <3>1, GoodFact, OrderlyFact, ChangeResultFact DEF retract_route
    <2> HIDE DEF u
    <2>4. p \in Listed(u)
      BY <2>1, <2>3 DEF SameRefs
    <2>5. Step(u, v, Numbers)
      BY <2>3, <2>4, OrderlyFact, ChangedStepFact
    <2> HIDE DEF v
    <2>6. Good(v, Numbers) /\ Result(Table, v)
      <3>1. \A id \in Ids : Table.src[id] # NoSource => Table.src[id].seqno \in Numbers[id]
        BY DEF NumbersOK, Numbered
      <3> QED
        BY <2>3, <2>5, <3>1, IInvFact, OrderlyFact, ResultStepFact DEF Step
    <2>7. \A t \in {u, v, Table} : Good(t, Numbers) /\ Judged(Table, t)
      BY <2>3, <2>6, GoodFact DEF Result, Judged
    <2> QED
      BY <2>2, <2>7, JudgedFact DEF Becomes
  <1>3. ASSUME RequestStep
        PROVE  NumbersOK' /\ Improved /\ Feasible
    <2> PICK all \in BOOLEAN :
          LET ours == find_installed_route(Table) # NoPath \/ xroute < INFINITY
              t == [Table EXCEPT !.update =
                      @ \cup IF all /\ ours THEN job.ifs ELSE {}]
          IN  Becomes(flushupdates(t, job.ifs))
      BY <1>3 DEF RequestStep
    <2> DEFINE ours == find_installed_route(Table) # NoPath \/ xroute < INFINITY
               new == Table.update \cup IF all /\ ours THEN job.ifs ELSE {}
               t == [Table EXCEPT !.update = new]
               u == flushupdates(t, job.ifs)
    <2>1. Becomes(u)
      OBVIOUS
    <2>2. new \in SUBSET Table.up
      BY IInvFact, TableFact DEF JobOK
    <2> HIDE DEF new
    <2>3. Step(Table, t, Numbers)
      <3>1. Table.resend \in 0 .. RESEND_MAX
            /\ Table.asked \in SUBSET [to : SUBSET Neighs, id : Ids, seqno : Seqnos]
        BY IInvFact, SlotFact
      <3> QED
        BY <2>2, <3>1, GoodFact, OrderlyFact, BuffersStepFact
    <2> HIDE DEF t
    <2>4. Step(t, u, Numbers)
      BY <2>3, OrderlyFact, FlushStepFact DEF Step
    <2> HIDE DEF u
    <2>5. Step(Table, u, Numbers)
      BY <2>3, <2>4, GoodFact, OrderlyFact, StepFact
    <2> QED
      BY <2>1, <2>5, JudgedFact DEF Becomes, Step, Result, Judged
  <1>4. ASSUME NEW k \in Answers, MetricStep(k) \/ FlushStep(k) \/ ExpireStep(k)
        PROVE  NumbersOK' /\ Improved /\ Feasible
    <2>1. job.at \in Listed(Table)
      BY <1>4, IInvFact DEF MetricStep, FlushStep, ExpireStep, JobOK
    <2>2. \/ Visit(update_route_metric(Table, job.at, cost[NeighOf[job.at]], k))
          \/ FlushAndRestart(k)
          \/ Visit(Table)
      BY <1>4 DEF MetricStep, FlushStep, ExpireStep
    <2> QED
      BY <1>1, <2>1, <2>2
  <1> QED
    BY <1>2, <1>3, <1>4 DEF WalkStep

\* Time passes: distances only get older.
LEMMA TickDistanceFact ==
  ASSUME Orderly, IInv, NumbersOK, Tick
  PROVE  NumbersOK' /\ Improved /\ Feasible
  <1> DEFINE aged(p) == IF p \in Listed(Table) THEN Aged(rt[p]) ELSE {NoRoute}
  <1>1. rt \in [Paths -> Route] /\ src \in [Ids -> Source \cup {NoSource}]
        /\ Listed(Table) \subseteq Paths
    BY IInvFact, ListedPathsFact
  <1>2. \A p \in Paths : rt'[p] \in aged(p)
    BY DEF Tick
  <1>3. \A p \in Listed(Table) :
          /\ rt'[p].id = rt[p].id /\ rt'[p].seqno = rt[p].seqno
          /\ rt'[p].refmetric = rt[p].refmetric
          /\ rt'[p].installed = rt[p].installed
    BY <1>1, <1>2, AgedRouteFact
  <1>4. \A p \in Paths \ Listed(Table) : ~rt'[p].installed
    BY <1>2, NoRouteFact
  <1>5. \A id \in Ids : /\ src'[id] = NoSource <=> src[id] = NoSource
                        /\ src[id] # NoSource =>
                             /\ src'[id].seqno = src[id].seqno
                             /\ src'[id].metric = src[id].metric
    <2> SUFFICES ASSUME NEW id \in Ids
                 PROVE  /\ src'[id] = NoSource <=> src[id] = NoSource
                        /\ src[id] # NoSource =>
                             /\ src'[id].seqno = src[id].seqno
                             /\ src'[id].metric = src[id].metric
      OBVIOUS
    <2>1. CASE src[id] = NoSource
      BY <2>1 DEF Tick
    <2>2. CASE src[id] # NoSource
      <3>1. src'[id] = [src[id] EXCEPT !.age = MIN(src[id].age + 1, MaxSourceAge)]
        BY <2>2 DEF Tick
      <3>2. src[id] \in Source
        BY <1>1, <2>2
      <3> QED
        BY <2>2, <3>1, <3>2, AgedSourceFact, SourceAssumption
    <2> QED
      BY <2>1, <2>2
  <1>6. Listed(Table') = Listed(Table) /\ Table'.rt = rt' /\ Table'.src = src'
    BY DEF Listed, Table, Tick
  <1>7. NumbersOK'
    BY <1>3, <1>5, <1>6, TableFact DEF NumbersOK, Numbered
  <1>8. Improved
    <2>1. \A id \in Ids : src[id] # NoSource => src[id].metric \in Nat
      BY IInvFact, FieldsFact, TableFact
    <2> QED
      BY <1>5, <2>1 DEF Improved, AsGood
  <1>9. Feasible
    BY <1>3, <1>4 DEF Feasible
  <1> QED
    BY <1>7, <1>8, <1>9

\* Every step of the router.
LEMMA NextDistanceFact ==
  ASSUME Orderly, IInv, NumbersOK, [Next]_vars
  PROVE  NumbersOK' /\ Improved /\ Feasible
  <1>1. CASE \E i \in Ifaces : SendUpdate(i) \/ InterfaceDown(i) \/ InterfaceUp(i)
    BY <1>1, UntouchedFact DEF SendUpdate, InterfaceDown, InterfaceUp, slot
  <1>2. CASE \E n \in Neighs : \/ \E c \in Costs : CostChange(n, c)
                               \/ WildcardRetraction(n)
                               \/ FlushNeighbour(n)
    BY <1>2, UntouchedFact DEF CostChange, WildcardRetraction, FlushNeighbour, slot
  <1>3. CASE ExpireRoutes \/ UNCHANGED vars
    BY <1>3, UntouchedFact DEF ExpireRoutes, slot, vars
  <1>4. CASE \/ \E p \in Paths, a \in Announced : ReceiveUpdate(p, a)
             \/ \E m \in Exported \cup {INFINITY} : CheckXroutes(m)
             \/ \E i \in Ifaces : FlushUpdates(i)
             \/ DoResend
    BY <1>4, HandlersDistanceFact
  <1>5. CASE ExpireSources
    BY <1>5, ExpireSourcesDistanceFact
  <1>6. CASE WalkStep
    BY <1>6, WalkDistanceFact
  <1>7. CASE Tick
    BY <1>7, TickDistanceFact
  <1> QED
    BY <1>1, <1>2, <1>3, <1>4, <1>5, <1>6, <1>7 DEF Next

-----------------------------------------------------------------------------
(* The theorems. *)

\* What IInv says of the properties that the runs check.
LEMMA IInvImplies ==
  ASSUME IInv
  PROVE  TypeOK /\ InstalledAtHead /\ RefCounts /\ XrouteWins
  <1>1. /\ NoDuplicate(list) /\ HeadOK(Table) /\ SourcesOK(Table)
        /\ XrouteOK(Table) /\ RefsOK(Table) /\ fib \in SUBSET FibEntry
    BY IInvFact, SlotFact, TableFact DEF SlotOK
  <1>2. TypeOK
    BY <1>1, IInvFact DEF TypeOK, JobOK, FibEntry
  <1>3. InstalledAtHead
    BY <1>1, TableFact DEF InstalledAtHead, NoDuplicate, HeadOK
  <1>4. RefCounts
    BY <1>1, TableFact DEF RefCounts, SourcesOK, RefsOK, Refs
  <1>5. XrouteWins
    BY <1>1, TableFact, IInvFact, ListedPathsFact
       DEF XrouteWins, XrouteOK, Installed
  <1> QED
    BY <1>2, <1>3, <1>4, <1>5

\* The inductive invariant: the slot of route.c, the source table and the
\* pointers of the walks are well formed after any sequence of handlers.
THEOREM InductiveInvariant == Spec => []IInv
  BY InitFact, NextFact, PTL DEF Spec

\* No handler leaves a field out of its range: in particular update_source and
\* seqno_plus are never applied to a source that has been freed, and nothing is
\* buffered on an interface that is down.
THEOREM TypeCorrect == Spec => []TypeOK
  <1>1. IInv => TypeOK
    BY IInvImplies
  <1> QED
    BY <1>1, InductiveInvariant, PTL

\* The slot keeps the shape that find_installed_route relies on, whatever
\* walk, switch, flush or refusal of the kernel moved its routes.
THEOREM HeadOfSlot == Spec => []InstalledAtHead
  <1>1. IInv => InstalledAtHead
    BY IInvImplies
  <1> QED
    BY <1>1, InductiveInvariant, PTL

\* Every source counts exactly the routes that refer to it, so expire_sources
\* frees no source in use.
THEOREM ReferencesCounted == Spec => []RefCounts
  <1>1. IInv => RefCounts
    BY IInvImplies
  <1> QED
    BY <1>1, InductiveInvariant, PTL

\* check_xroutes, consider_route and flush_xroute between them never install a
\* Babel route over one of our own, unless allow-duplicates is set.
THEOREM OwnRouteWins == Spec => []XrouteWins
  <1>1. IInv => XrouteWins
    BY IInvImplies
  <1> QED
    BY <1>1, InductiveInvariant, PTL

\* The numbers stay in their windows.
LEMMA NumbersInvariant ==
  ASSUME Orderly
  PROVE  Spec => []NumbersOK
  <1>1. Init => NumbersOK
    BY TableFact DEF Init, NumbersOK, Numbered, Listed
  <1>2. IInv /\ NumbersOK /\ [Next]_vars => NumbersOK'
    BY NextDistanceFact
  <1> QED
    BY <1>1, <1>2, InductiveInvariant, PTL DEF Spec

\* No order of updates, retractions, expiries, resends and announcements makes
\* update_source, release_source or expire_sources lose a distance that is not
\* stale, or replace it by a worse one, as long as the neighbours' sequence
\* numbers are in order and the kernel obeys.
THEOREM DistancesImprove ==
  ASSUME Orderly
  PROVE  Spec => DistanceOnlyImproves
  <1>1. IInv /\ NumbersOK /\ [Next]_vars => Improved
    BY NextDistanceFact
  <1>2. Improved => [\A id \in Ids : src[id] # NoSource /\ ~SourceStale(src[id]) =>
          /\ src'[id] # NoSource
          /\ AsGood(src'[id].seqno, src'[id].metric, src[id].seqno, src[id].metric)]_vars
    BY DEF Improved
  <1> QED
    BY <1>1, <1>2, InductiveInvariant, NumbersInvariant, PTL
       DEF Spec, DistanceOnlyImproves

\* install_route and switch_routes are never asked to install a route that the
\* distances at the start of the handler call unfeasible, however many updates
\* the handler sends before it comes to them.
THEOREM FeasibleInstalled ==
  ASSUME Orderly
  PROVE  Spec => OnlyFeasibleInstalled
  <1>1. IInv /\ NumbersOK /\ [Next]_vars => Feasible
    BY NextDistanceFact
  <1>2. Feasible => [\A p \in Paths : ~rt[p].installed /\ rt'[p].installed =>
          update_feasible(src[rt'[p].id], rt'[p].seqno, rt'[p].refmetric)]_vars
    BY DEF Feasible
  <1> QED
    BY <1>1, <1>2, InductiveInvariant, NumbersInvariant, PTL
       DEF Spec, OnlyFeasibleInstalled

-----------------------------------------------------------------------------
(***************************************************************************)
(* What the router owes others.                                            *)
(*                                                                         *)
(* KernelOK says of the kernel's table more than KernelMatches: an         *)
(* unreachable default route, which the code neither adds nor flushes, is  *)
(* never there.  Without that, uninstall_route could leave an entry.  With *)
(* reflect-kernel-metric none of it holds: a change between two priorities *)
(* adds the new entry and leaves the old one.                              *)
(***************************************************************************)

\* The kernel's entry for route p, if it is installed.
Wanted(t, p) == Entry(p, metric_to_kernel(route_metric(t.rt[p])))

KernelOK(t) ==
  /\ \A e \in t.fib : \E p \in Paths : t.rt[p].installed /\ e = Wanted(t, p)
  /\ IsDefault => \A e \in t.fib : e.via # NoPath
  /\ ~KernelMayRefuse /\ ~IsDefault =>
       \A p \in Paths : t.rt[p].installed => Wanted(t, p) \in t.fib

\* What is believed of route p.
Claim(t, p) ==
  [id |-> t.rt[p].id, seqno |-> t.rt[p].seqno, metric |-> t.rt[p].refmetric]

ClaimsOK(t) ==
  \A p \in Listed(t) : t.rt[p].refmetric < INFINITY => Claim(t, p) \in Announced

\* The answers k of a kernel that refuses nothing it must not refuse.
Obeys(k) == ~KernelMayRefuse => k.bad = {}

\* An operation on t that ends with u, believes of every route what it
\* believed, at the same cost, and keeps the kernel's table right.
Follows(t, u) ==
  /\ SlotOK(u) /\ SameRefs(t, u)
  /\ ~reflect_kernel_metric /\ KernelOK(t) => KernelOK(u)
  /\ \A p \in Paths : /\ Claim(u, p) = Claim(t, p)
                       /\ u.rt[p].cost = t.rt[p].cost
                       /\ route_metric(u.rt[p]) = route_metric(t.rt[p])

\* A kernel table for the one entry e.
OnlyEntry(table, e) ==
  /\ table \subseteq {e}
  /\ IsDefault => \A f \in table : f.via # NoPath

-----------------------------------------------------------------------------
(* The kernel's table. *)

\* What a kernel that obeys answers.
LEMMA AnswersFact ==
  ASSUME NEW k \in Answers
  PROVE  Obeys(k)
  BY DEF Answers, Obeys

\* Without reflect-kernel-metric there are two kernel metrics.
LEMMA TwoMetricsFact ==
  ASSUME ~reflect_kernel_metric, NEW m
  PROVE  metric_to_kernel(m) \in {kernel_metric, KERNEL_INFINITY}
  BY DEF metric_to_kernel

\* A route is added to an empty table.
LEMMA AddOnlyFact ==
  ASSUME NEW p \in Paths, NEW km
  PROVE  LET table == KernelAdd({}, p, km)
         IN  /\ OnlyEntry(table, Entry(p, km))
             /\ ~IsDefault => Entry(p, km) \in table
  <1>1. CASE NoKernelEntry(km)
    BY <1>1 DEF KernelAdd, OnlyEntry, NoKernelEntry
  <1>2. CASE ~NoKernelEntry(km)
    <2>1. KernelAdd({}, p, km) = {Entry(p, km)}
      BY <1>2 DEF KernelAdd
    <2>2. IsDefault => Entry(p, km).via # NoPath
      BY <1>2, PathAssumption DEF NoKernelEntry, Entry
    <2> QED
      BY <2>1, <2>2 DEF OnlyEntry
  <1> QED
    BY <1>1, <1>2

\* The only entry is flushed.
LEMMA FlushOnlyFact ==
  ASSUME NEW p, NEW km, NEW table, OnlyEntry(table, Entry(p, km))
  PROVE  KernelFlush(table, p, km) = {}
  <1>1. CASE NoKernelEntry(km)
    <2>1. Entry(p, km).via = NoPath /\ IsDefault
      BY <1>1 DEF NoKernelEntry, Entry
    <2>2. table = {}
      BY <2>1 DEF OnlyEntry
    <2> QED
      BY <1>1, <2>2 DEF KernelFlush
  <1>2. CASE ~NoKernelEntry(km)
    BY <1>2 DEF KernelFlush, OnlyEntry
  <1> QED
    BY <1>1, <1>2

\* The only entry is changed to another one: the old one does not stay.
LEMMA ModifyOnlyFact ==
  ASSUME NEW old, NEW p \in Paths, NEW table,
         NEW km \in {kernel_metric, KERNEL_INFINITY},
         NEW kn \in {kernel_metric, KERNEL_INFINITY},
         OnlyEntry(table, Entry(old, km))
  PROVE  LET new == KernelModify(table, old, km, p, kn)
         IN  /\ OnlyEntry(new, Entry(p, kn))
             /\ ~IsDefault => Entry(p, kn) \in new
             /\ KernelFlushForModify(table, old, km, kn) \subseteq table
  <1>1. kernel_metric \in Nat /\ kernel_metric < KERNEL_INFINITY /\ KERNEL_INFINITY \in Nat
    BY MetricAssumption DEF KERNEL_INFINITY
  <1>2. KernelFlushForModify(table, old, km, kn) \subseteq table
    BY DEF KernelFlushForModify, KernelFlush
  <1>3. CASE km >= KERNEL_INFINITY \/ kn >= KERNEL_INFINITY
    <2>1. KernelFlushForModify(table, old, km, kn) = {}
      BY <1>3, FlushOnlyFact DEF KernelFlushForModify
    <2>2. KernelModify(table, old, km, p, kn) = KernelAdd({}, p, kn)
      BY <2>1 DEF KernelModify
    <2> QED
      BY <1>2, <2>2, AddOnlyFact
  <1>4. CASE ~(km >= KERNEL_INFINITY \/ kn >= KERNEL_INFINITY)
    <2>1. km = kernel_metric /\ kn = kernel_metric
      BY <1>1, <1>4
    <2>2. KernelFlushForModify(table, old, km, kn) = table
      BY <1>4 DEF KernelFlushForModify
    <2>3. Entry(old, km).prio = Entry(p, kn).prio /\ ~NoKernelEntry(kn)
      BY <1>4, <2>1 DEF Entry, NoKernelEntry
    <2>4. KernelModify(table, old, km, p, kn) = {Entry(p, kn)}
      BY <2>2, <2>3 DEF KernelModify, KernelAdd, OnlyEntry
    <2>5. Entry(p, kn).via # NoPath
      BY <1>4, PathAssumption DEF Entry
    <2> QED
      BY <1>2, <2>4, <2>5 DEF OnlyEntry
  <1> QED
    BY <1>3, <1>4

\* There is at most one installed route.
LEMMA OneInstalledFact ==
  ASSUME NEW t, SlotOK(t), NEW p \in Paths, NEW q \in Paths,
         t.rt[p].installed, t.rt[q].installed
  PROVE  p = q
  BY DEF SlotOK, HeadOK

\* The table when a route is installed, and when none is.
LEMMA KernelOnlyFact ==
  ASSUME NEW t, SlotOK(t)
  PROVE  /\ \A p \in Paths : t.rt[p].installed =>
              (KernelOK(t) <=> /\ OnlyEntry(t.fib, Wanted(t, p))
                               /\ ~KernelMayRefuse /\ ~IsDefault => Wanted(t, p) \in t.fib)
         /\ (\A p \in Paths : ~t.rt[p].installed) => (KernelOK(t) <=> t.fib = {})
  <1>1. ASSUME NEW p \in Paths, t.rt[p].installed
        PROVE  KernelOK(t) <=> /\ OnlyEntry(t.fib, Wanted(t, p))
                               /\ ~KernelMayRefuse /\ ~IsDefault => Wanted(t, p) \in t.fib
    <2>1. \A q \in Paths : t.rt[q].installed <=> q = p
      BY <1>1, OneInstalledFact
    <2> QED
      BY <2>1 DEF KernelOK, OnlyEntry
  <1>2. ASSUME \A p \in Paths : ~t.rt[p].installed
        PROVE  KernelOK(t) <=> t.fib = {}
    BY <1>2 DEF KernelOK
  <1> QED
    BY <1>1, <1>2

\* Neither the kernel's table nor what it depends on has changed.
LEMMA KernelSameFact ==
  ASSUME NEW t, NEW u, KernelOK(t), u.fib = t.fib,
         \A p \in Paths : /\ u.rt[p].installed <=> t.rt[p].installed
                          /\ t.rt[p].installed =>
                               route_metric(u.rt[p]) = route_metric(t.rt[p])
  PROVE  KernelOK(u)
  <1>1. \A p \in Paths : t.rt[p].installed => Wanted(u, p) = Wanted(t, p)
    BY DEF Wanted
  <1> QED
    BY <1>1 DEF KernelOK

-----------------------------------------------------------------------------
(* Operations that only select and send. *)

LEMMA FollowsFact ==
  /\ \A t : SlotOK(t) => Follows(t, t)
  /\ \A t, u, v : Follows(t, u) /\ Follows(u, v) => Follows(t, v)
  BY SameRefsFact DEF Follows

\* Routes and kernel are left alone.
LEMMA AloneFact ==
  ASSUME NEW t, NEW u, SlotOK(u), SameRefs(t, u), u.rt = t.rt, u.fib = t.fib
  PROVE  Follows(t, u)
  BY DEF Follows, KernelOK, Wanted, Claim

\* flushupdates.
LEMMA FlushFollows ==
  ASSUME NEW t, SlotOK(t), NEW ifs
  PROVE  Follows(t, flushupdates(t, ifs))
  <1> DEFINE a == Announcement(t)
             out == FlushTargets(t, ifs)
             allowed == {i \in out : OutMetric[i] < INFINITY}
             b1 == t.update \ ifs
             b2 == (t.told \ allowed)
                     \cup {i \in allowed : really_send_update(i, a).metric < INFINITY}
             b3 == t.sent \cup {[iface |-> i, update |-> really_send_update(i, a)] :
                                  i \in allowed}
             b4 == IF AnnouncesRoute(t) /\ out # {} THEN Advertised(t.src, a) ELSE t.src
             u == flushupdates(t, ifs)
  <1>1. u = [t EXCEPT !.update = b1, !.told = b2, !.sent = b3, !.src = b4]
    BY DEF flushupdates
  <1>2. SlotOK(u) /\ SameRefs(t, u)
    BY FlushFact
  <1>3. t \in Slot
    BY DEF SlotOK
  <1> HIDE DEF b1, b2, b3, b4, u
  <1>4. u.rt = t.rt /\ u.fib = t.fib
    BY <1>1, <1>3, SMT DEF Slot
  <1>5. Follows(t, u)
    BY <1>2, <1>4, AloneFact
  <1> QED
    BY <1>5 DEF u

\* Only buffers and requests have changed.
LEMMA BuffersFollow ==
  ASSUME NEW t, SlotOK(t),
         NEW b1 \in SUBSET t.up, NEW b2 \in 0 .. RESEND_MAX,
         NEW b3 \in SUBSET [to : SUBSET Neighs, id : Ids, seqno : Seqnos],
         NEW u \in {[t EXCEPT !.update = b1], [t EXCEPT !.resend = b2],
                    [t EXCEPT !.asked = b3]}
  PROVE  Follows(t, u)
  <1>1. t \in Slot
    BY DEF SlotOK
  <1>2. SlotOK(u) /\ SameRefs(t, u)
    <2>1. CASE u = [t EXCEPT !.update = b1]
      BY <1>1, <2>1, BuffersFact
    <2>2. CASE u = [t EXCEPT !.resend = b2]
      BY <1>1, <2>2, BuffersFact
    <2>3. CASE u = [t EXCEPT !.asked = b3]
      BY <1>1, <2>3, BuffersFact
    <2> QED
      BY <2>1, <2>2, <2>3
  <1>3. u.rt = t.rt /\ u.fib = t.fib
    BY <1>1, SMT DEF Slot
  <1> QED
    BY <1>2, <1>3, AloneFact

\* send_update and send_update_resend.
LEMMA SendFollows ==
  ASSUME NEW t, SlotOK(t), NEW k
  PROVE  Follows(t, send_update(t, k)) /\ Follows(t, send_update_resend(t, k))
  <1> DEFINE u == flushupdates(t, k.full)
             v == send_update(t, k)
             w == send_update_resend(t, k)
  <1>1. Follows(t, u)
    BY FlushFollows
  <1>2. v = [u EXCEPT !.update = u.update \cup t.up]
    BY DEF send_update
  <1>3. w = [v EXCEPT !.resend = RESEND_MAX]
    BY DEF send_update_resend
  <1> HIDE DEF u, v, w
  <1>4. /\ SlotOK(u) /\ u.update \cup t.up \in SUBSET u.up /\ u.resend \in 0 .. RESEND_MAX
        /\ u.asked \in SUBSET [to : SUBSET Neighs, id : Ids, seqno : Seqnos]
    BY <1>1, SlotFact DEF Follows, SlotOK, BuffersOK, SameRefs
  <1>5. Follows(u, v)
    BY <1>2, <1>4, BuffersFollow
  <1>6. /\ SlotOK(v) /\ v.update \in SUBSET v.up /\ RESEND_MAX \in 0 .. RESEND_MAX
        /\ v.asked \in SUBSET [to : SUBSET Neighs, id : Ids, seqno : Seqnos]
    BY <1>5, SlotFact, TimeAssumption DEF Follows, SlotOK, BuffersOK
  <1>7. Follows(v, w)
    BY <1>3, <1>6, BuffersFollow
  <1>8. Follows(t, v) /\ Follows(t, w)
    BY <1>1, <1>5, <1>7, FollowsFact
  <1> QED
    BY <1>8 DEF v, w

\* Requests go out after the buffered updates.
LEMMA RequestFollows ==
  ASSUME NEW t, SlotOK(t), NEW id \in Ids, t.src[id] # NoSource
  PROVE  /\ Follows(t, send_request_resend(t, id))
         /\ \A n \in Neighs : \A force, seqno, metric :
              Follows(t, send_unfeasible_request(t, n, force, seqno, metric, id))
  <1>1. t.src[id] \in Source
    BY SlotFact DEF SlotOK
  <1>2. WantedSeqno(t.src[id]) \in Seqnos
    BY <1>1, WantedSeqnoFact
  <1>3. ASSUME NEW ifs, NEW to \in SUBSET Neighs
        PROVE  LET u == flushupdates(t, ifs)
                   q == [to |-> to, id |-> id, seqno |-> WantedSeqno(t.src[id])]
               IN  Follows(t, [u EXCEPT !.asked = u.asked \cup {q}])
    <2> DEFINE u == flushupdates(t, ifs)
               q == [to |-> to, id |-> id, seqno |-> WantedSeqno(t.src[id])]
               v == [u EXCEPT !.asked = u.asked \cup {q}]
    <2>1. Follows(t, u)
      BY FlushFollows
    <2>2. q \in [to : SUBSET Neighs, id : Ids, seqno : Seqnos]
      BY <1>2
    <2> HIDE DEF u, q
    <2>3. /\ SlotOK(u) /\ u.update \in SUBSET u.up /\ u.resend \in 0 .. RESEND_MAX
          /\ u.asked \cup {q} \in SUBSET [to : SUBSET Neighs, id : Ids, seqno : Seqnos]
      BY <2>1, <2>2, SlotFact DEF Follows, SlotOK, BuffersOK
    <2>4. Follows(u, v)
      BY <2>3, BuffersFollow
    <2>5. Follows(t, v)
      BY <2>1, <2>4, FollowsFact
    <2> QED
      BY <2>5 DEF u, q
  <1>4. Follows(t, send_request_resend(t, id))
    <2> DEFINE to == {n \in Neighs : IfOf[n] \in t.up}
               u == flushupdates(t, Ifaces)
               q == [to |-> to, id |-> id, seqno |-> WantedSeqno(t.src[id])]
    <2>1. send_request_resend(t, id) = [u EXCEPT !.asked = u.asked \cup {q}]
      BY DEF send_request_resend
    <2>2. Follows(t, [u EXCEPT !.asked = u.asked \cup {q}])
      BY <1>3
    <2> QED
      BY <2>1, <2>2
  <1>5. ASSUME NEW n \in Neighs, NEW force, NEW seqno, NEW metric
        PROVE  Follows(t, send_unfeasible_request(t, n, force, seqno, metric, id))
    <2> DEFINE u == flushupdates(t, {IfOf[n]})
               q == [to |-> {n}, id |-> id, seqno |-> WantedSeqno(t.src[id])]
               v == [u EXCEPT !.asked = u.asked \cup {q}]
    <2>1. send_unfeasible_request(t, n, force, seqno, metric, id) \in {t, v}
      BY DEF send_unfeasible_request
    <2>2. Follows(t, v) /\ Follows(t, t)
      BY <1>3, FollowsFact
    <2> HIDE DEF v
    <2> QED
      BY <2>1, <2>2
  <1> QED
    BY <1>4, <1>5

\* Triggered updates.
LEMMA TriggeredFollows ==
  ASSUME NEW t, SlotOK(t), NEW p, NEW oldsrc, NEW oldmetric, NEW k
  PROVE  Follows(t, send_triggered_update(t, p, oldsrc, oldmetric, k))
  <1>1. send_triggered_update(t, p, oldsrc, oldmetric, k)
          \in {t, send_update(t, k), send_update_resend(t, k)}
    BY DEF send_triggered_update
  <1> QED
    BY <1>1, SendFollows, FollowsFact

-----------------------------------------------------------------------------
(* Installing and selecting. *)

\* Setting the installed flag of a route leaves its metric alone.
LEMMA FlagMetricFact ==
  ASSUME NEW R \in [Paths -> Route], NEW p \in Paths, NEW b \in BOOLEAN
  PROVE  LET N == [R EXCEPT ![p].installed = b]
         IN  /\ N \in [Paths -> Route]
             /\ \A q \in Paths :
                  /\ N[q].id = R[q].id /\ N[q].seqno = R[q].seqno
                  /\ N[q].refmetric = R[q].refmetric
                  /\ N[q].cost = R[q].cost
                  /\ route_metric(N[q]) = route_metric(R[q])
                  /\ N[q].installed = IF q = p THEN b ELSE R[q].installed
  <1> DEFINE r == [R[p] EXCEPT !.installed = b]
             N == [R EXCEPT ![p].installed = b]
  <1>1. /\ r \in Route /\ r.id = R[p].id /\ r.installed = b /\ r.seqno = R[p].seqno
        /\ r.refmetric = R[p].refmetric /\ r.cost = R[p].cost /\ r.add = R[p].add
    BY DEF Route
  <1>2. N = [R EXCEPT ![p] = r]
    OBVIOUS
  <1> HIDE DEF r, N
  <1>3. route_metric(r) = route_metric(R[p])
    BY <1>1 DEF route_metric
  <1>4. N \in [Paths -> Route] /\ \A q \in Paths : N[q] = IF q = p THEN r ELSE R[q]
    BY <1>1, <1>2
  <1> QED
    BY <1>1, <1>3, <1>4 DEF N

\* A route was not installed, and now it is the installed one.
LEMMA NewHeadFact ==
  ASSUME NEW t, SlotOK(t), NEW p \in Paths, NEW u, SlotOK(u), SameRefs(t, u),
         \A q \in Paths : /\ u.rt[q].seqno = t.rt[q].seqno
                          /\ u.rt[q].refmetric = t.rt[q].refmetric
                          /\ u.rt[q].cost = t.rt[q].cost
                          /\ route_metric(u.rt[q]) = route_metric(t.rt[q]),
         u.rt[p].installed,
         ~reflect_kernel_metric /\ KernelOK(t) =>
           /\ OnlyEntry(u.fib, Wanted(t, p))
           /\ ~KernelMayRefuse /\ ~IsDefault => Wanted(t, p) \in u.fib
  PROVE  Follows(t, u)
  <1>1. Wanted(u, p) = Wanted(t, p)
    BY DEF Wanted
  <1>2. ~reflect_kernel_metric /\ KernelOK(t) => KernelOK(u)
    BY <1>1, KernelOnlyFact
  <1>3. \A q \in Paths : Claim(u, q) = Claim(t, q)
    BY DEF Claim, SameRefs
  <1> QED
    BY <1>2, <1>3 DEF Follows

\* install_route.
LEMMA InstallFollows ==
  ASSUME NEW t, SlotOK(t), NEW p \in Listed(t), NEW k,
         ~(allow_duplicates < 0 /\ t.xroute < INFINITY)
  PROVE  Follows(t, install_route(t, p, k))
  <1> DEFINE F == KernelAdd(t.fib, p, metric_to_kernel(route_metric(t.rt[p])))
             R == [t.rt EXCEPT ![p].installed = TRUE]
             u == [t EXCEPT !.fib = F, !.rt = R,
                            !.list = move_installed_route(t.list, p)]
             v == install_route(t, p, k)
  <1>1. t \in Slot /\ p \in Paths /\ t.rt \in [Paths -> Route]
    BY FieldsFact, SlotFact DEF SlotOK
  <1>2. SlotOK(v) /\ SameRefs(t, v)
    BY InstallFact
  <1>3. CASE v = t
    BY <1>3, FollowsFact
  <1>4. CASE v # t
    <2>1. v = u /\ ~t.rt[p].installed
          /\ ~(t.list[1] # p /\ t.rt[t.list[1]].installed)
      BY <1>4 DEF install_route
    <2>2. \A q \in Paths : ~t.rt[q].installed
      BY <2>1 DEF SlotOK, HeadOK
    <2>3. \A q \in Paths : /\ R[q].seqno = t.rt[q].seqno
                           /\ R[q].refmetric = t.rt[q].refmetric
                           /\ R[q].cost = t.rt[q].cost
                           /\ route_metric(R[q]) = route_metric(t.rt[q])
                           /\ R[q].installed = IF q = p THEN TRUE ELSE t.rt[q].installed
      BY <1>1, FlagMetricFact
    <2>4. KernelOK(t) => /\ OnlyEntry(F, Wanted(t, p))
                         /\ ~IsDefault => Wanted(t, p) \in F
      <3>1. KernelOK(t) => t.fib = {}
        BY <2>2, KernelOnlyFact
      <3> QED
        BY <1>1, <3>1, AddOnlyFact DEF Wanted
    <2> HIDE DEF F, R, v
    <2>5. v.rt = R /\ v.fib = F
      BY <1>1, <2>1, SMT DEF Slot
    <2>6. v.rt[p].installed
      BY <1>1, <2>3, <2>5
    <2>7. Follows(t, v)
      BY <1>1, <1>2, <2>3, <2>4, <2>5, <2>6, NewHeadFact
    <2> QED
      BY <2>7 DEF v
  <1> QED
    BY <1>3, <1>4

\* uninstall_route.
LEMMA UninstallFollows ==
  ASSUME NEW t, SlotOK(t), NEW p \in Paths
  PROVE  Follows(t, uninstall_route(t, p))
  <1> DEFINE F == KernelFlush(t.fib, p, metric_to_kernel(route_metric(t.rt[p])))
             R == [t.rt EXCEPT ![p].installed = FALSE]
             u == [t EXCEPT !.fib = F, !.rt = R]
             v == uninstall_route(t, p)
  <1>1. t \in Slot /\ t.rt \in [Paths -> Route] /\ FALSE \in BOOLEAN
    BY SlotFact DEF SlotOK
  <1>2. /\ SlotOK(v) /\ SameRefs(t, v)
        /\ t.rt[p].installed => \A q \in Paths : ~v.rt[q].installed
    BY UninstallFact
  <1>3. CASE ~t.rt[p].installed
    BY <1>3, FollowsFact DEF uninstall_route
  <1>4. CASE t.rt[p].installed
    <2>1. v = u
      BY <1>4 DEF uninstall_route
    <2>2. \A q \in Paths : /\ R[q].id = t.rt[q].id /\ R[q].seqno = t.rt[q].seqno
                           /\ R[q].refmetric = t.rt[q].refmetric
                           /\ R[q].cost = t.rt[q].cost
                           /\ route_metric(R[q]) = route_metric(t.rt[q])
      BY <1>1, FlagMetricFact
    <2>3. KernelOK(t) => F = {}
      BY <1>4, KernelOnlyFact, FlushOnlyFact DEF Wanted
    <2> HIDE DEF F, R, v
    <2>4. v.rt = R /\ v.fib = F
      BY <1>1, <2>1, SMT DEF Slot
    <2>5. KernelOK(t) => KernelOK(v)
      BY <1>2, <1>4, <2>3, <2>4, KernelOnlyFact
    <2>6. Follows(t, v)
      BY <1>2, <2>2, <2>4, <2>5 DEF Follows, Claim
    <2> QED
      BY <2>6 DEF v
  <1> QED
    BY <1>3, <1>4

\* The kernel's table for the installed route has lost its entry: the kernel
\* refused the new one.
LEMMA RefusedFact ==
  ASSUME NEW t, SlotOK(t), NEW S \in SUBSET t.fib, KernelMayRefuse,
         NEW u, u = [t EXCEPT !.fib = S]
  PROVE  Follows(t, u)
  <1>1. S \in SUBSET FibEntry /\ t \in Slot
    BY SlotFact DEF SlotOK
  <1>2. SlotOK(u) /\ SameRefs(t, u) /\ u.rt = t.rt
    BY <1>1, FibFact
  <1>3. u.fib = S
    BY <1>1, SMT DEF Slot
  <1> QED
    BY <1>2, <1>3 DEF Follows, KernelOK, Wanted, Claim

\* switch_routes.
LEMMA SwitchFollows ==
  ASSUME NEW t, SlotOK(t), NEW p \in Listed(t), NEW k, Obeys(k),
         ~(allow_duplicates < 0 /\ t.xroute < INFINITY),
         NEW old \in {find_installed_route(t)}, ~t.rt[p].installed
  PROVE  Follows(t, switch_routes(t, old, p, k))
  <1> DEFINE km == metric_to_kernel(route_metric(t.rt[old]))
             kn == metric_to_kernel(route_metric(t.rt[p]))
             F1 == KernelFlushForModify(t.fib, old, km, kn)
             F == KernelModify(t.fib, old, km, p, kn)
             R1 == [t.rt EXCEPT ![old].installed = FALSE]
             R == [R1 EXCEPT ![p].installed = TRUE]
             u == [t EXCEPT !.fib = F1]
             v == [t EXCEPT !.fib = F, !.rt = R,
                            !.list = move_installed_route(t.list, p)]
             w == switch_routes(t, old, p, k)
  <1>1. t \in Slot /\ p \in Paths /\ t.rt \in [Paths -> Route] /\ FALSE \in BOOLEAN
    BY FieldsFact, SlotFact DEF SlotOK
  <1>2. SlotOK(w) /\ SameRefs(t, w)
    BY SwitchFact
  <1>3. CASE old = NoPath
    BY <1>3, InstallFollows DEF switch_routes
  <1>4. CASE old # NoPath
    <2>1. old \in Paths /\ t.rt[old].installed
      BY <1>1, <1>4, InstalledFact
    <2>2. ASSUME ~reflect_kernel_metric, KernelOK(t)
          PROVE  OnlyEntry(F, Entry(p, kn)) /\ (~IsDefault => Entry(p, kn) \in F)
      <3>1. km \in {kernel_metric, KERNEL_INFINITY} /\ kn \in {kernel_metric, KERNEL_INFINITY}
        BY <2>2, TwoMetricsFact
      <3>2. OnlyEntry(t.fib, Entry(old, km))
        BY <2>1, <2>2, KernelOnlyFact DEF Wanted
      <3> HIDE DEF km, kn
      <3> QED
        BY <1>1, <3>1, <3>2, ModifyOnlyFact
    <2>3. F1 \in SUBSET t.fib
      BY DEF KernelFlushForModify, KernelFlush
    <2>5. CASE p \in k.bad
      <3>1. w = u /\ KernelMayRefuse
        BY <1>4, <2>5 DEF switch_routes, Obeys
      <3> HIDE DEF F1, w
      <3>2. Follows(t, w)
        BY <2>3, <3>1, RefusedFact
      <3> QED
        BY <3>2 DEF w
    <2>6. CASE p \notin k.bad
      <3>1. w = v
        BY <1>4, <2>6 DEF switch_routes
      <3>2. /\ R1 \in [Paths -> Route]
            /\ \A q \in Paths : /\ R1[q].seqno = t.rt[q].seqno
                                /\ R1[q].refmetric = t.rt[q].refmetric
                                /\ R1[q].cost = t.rt[q].cost
                                /\ route_metric(R1[q]) = route_metric(t.rt[q])
        BY <1>1, <2>1, FlagMetricFact, ZenonT(40)
      <3> HIDE DEF R1
      <3>3. \A q \in Paths : /\ R[q].seqno = R1[q].seqno
                             /\ R[q].refmetric = R1[q].refmetric
                             /\ R[q].cost = R1[q].cost
                             /\ route_metric(R[q]) = route_metric(R1[q])
                             /\ R[q].installed = IF q = p THEN TRUE ELSE R1[q].installed
        BY <1>1, <3>2, FlagMetricFact
      <3> HIDE DEF R, F, w
      <3>4. w.rt = R /\ w.fib = F
        BY <1>1, <3>1, SMT DEF Slot
      <3>5. \A q \in Paths : /\ w.rt[q].seqno = t.rt[q].seqno
                             /\ w.rt[q].refmetric = t.rt[q].refmetric
                             /\ w.rt[q].cost = t.rt[q].cost
                             /\ route_metric(w.rt[q]) = route_metric(t.rt[q])
        BY <3>2, <3>3, <3>4
      <3>6. w.rt[p].installed
        BY <1>1, <3>3, <3>4
      <3>7. Follows(t, w)
        BY <1>1, <1>2, <2>2, <3>4, <3>5, <3>6, NewHeadFact DEF Wanted
      <3> QED
        BY <3>7 DEF w
    <2> QED
      BY <2>5, <2>6
  <1> QED
    BY <1>3, <1>4

\* consider_route.
LEMMA ConsiderFollows ==
  ASSUME NEW t, SlotOK(t), NEW p \in Listed(t), NEW k, Obeys(k)
  PROVE  Follows(t, consider_route(t, p, k))
  <1> DEFINE old == find_installed_route(t)
             u == switch_routes(t, old, p, k)
  <1>1. CASE consider_route(t, p, k) = t
    BY <1>1, FollowsFact
  <1>2. CASE consider_route(t, p, k) # t
    <2>1. ~t.rt[p].installed /\ ~(allow_duplicates < 0 /\ t.xroute < INFINITY)
      BY <1>2 DEF consider_route
    <2>2. Follows(t, u)
      BY <2>1, SwitchFollows
    <2> DEFINE v == send_triggered_update(
                      u, p, t.rt[old].id, route_metric(t.rt[old]), k)
    <2>3. consider_route(t, p, k) \in {v, send_update(u, k)}
      BY <1>2 DEF consider_route
    <2> HIDE DEF u
    <2>4. SlotOK(u)
      BY <2>2 DEF Follows
    <2>5. Follows(u, v) /\ Follows(u, send_update(u, k))
      BY <2>4, TriggeredFollows, SendFollows
    <2> HIDE DEF v
    <2> QED
      BY <2>2, <2>3, <2>5, FollowsFact
  <1> QED
    BY <1>1, <1>2

\* route_changed.
LEMMA ChangedFollows ==
  ASSUME NEW t, SlotOK(t), NEW p \in Listed(t), NEW oldsrc, NEW oldmetric,
         NEW k, Obeys(k)
  PROVE  Follows(t, route_changed(t, p, oldsrc, oldmetric, k))
  <1> DEFINE b == find_best_route(t)
             u == IF /\ t.rt[p].installed /\ b # NoPath
                     /\ route_metric(t.rt[b]) < route_metric(t.rt[p])
                    THEN consider_route(t, b, k) ELSE t
             v == send_triggered_update(u, p, oldsrc, oldmetric, k)
             w == consider_route(u, p, k)
  <1>1. Follows(t, u)
    BY BestFact, ConsiderFollows, FollowsFact DEF SlotOK
  <1>2. route_changed(t, p, oldsrc, oldmetric, k) \in {v, w}
    BY DEF route_changed
  <1> HIDE DEF u
  <1>3. SlotOK(u) /\ p \in Listed(u)
    BY <1>1 DEF Follows, SameRefs
  <1>4. Follows(u, v) /\ Follows(u, w)
    BY <1>3, TriggeredFollows, ConsiderFollows
  <1> HIDE DEF v, w
  <1> QED
    BY <1>1, <1>2, <1>4, FollowsFact

\* route_lost.
LEMMA LostFollows ==
  ASSUME NEW t, SlotOK(t), NEW id \in Ids, t.src[id] # NoSource, NEW oldmetric,
         NEW k, Obeys(k)
  PROVE  Follows(t, route_lost(t, id, oldmetric, k))
  <1> DEFINE b == find_best_route(t)
             u == send_update_resend(t, k)
             v == send_request_resend(u, id)
  <1>1. CASE b # NoPath
    BY <1>1, BestFact, ConsiderFollows DEF route_lost, SlotOK
  <1>2. CASE b = NoPath
    <2>1. route_lost(t, id, oldmetric, k) \in {t, u, v}
      BY <1>2 DEF route_lost
    <2>2. Follows(t, u)
      BY SendFollows
    <2> HIDE DEF u
    <2>3. SlotOK(u) /\ u.src[id] # NoSource
      BY <2>2 DEF Follows, SameRefs
    <2>4. Follows(u, v)
      BY <2>3, RequestFollows
    <2> HIDE DEF v
    <2> QED
      BY <2>1, <2>2, <2>4, FollowsFact
  <1> QED
    BY <1>1, <1>2

-----------------------------------------------------------------------------
(* The operations on one route. *)

\* The kernel's table is right, and what is believed was announced.
Sound(t) ==
  /\ SlotOK(t)
  /\ ~reflect_kernel_metric => KernelOK(t)
  /\ ~KernelMayRefuse => ClaimsOK(t)

\* An operation that only tells neighbours keeps both.
LEMMA SoundFact ==
  ASSUME NEW t, Sound(t), NEW u, Follows(t, u)
  PROVE  Sound(u)
  <1>1. Listed(u) = Listed(t) /\ Listed(t) \subseteq Paths
    BY ListedPathsFact DEF Follows, SameRefs, Sound
  <1>2. \A p \in Paths : u.rt[p].refmetric = t.rt[p].refmetric /\ Claim(u, p) = Claim(t, p)
    <2>1. \A p \in Paths : /\ Claim(u, p).metric = u.rt[p].refmetric
                           /\ Claim(t, p).metric = t.rt[p].refmetric
      BY DEF Claim
    <2>2. \A p \in Paths : Claim(u, p) = Claim(t, p)
      BY DEF Follows
    <2> QED
      BY <2>1, <2>2
  <1>3. ClaimsOK(t) => ClaimsOK(u)
    BY <1>1, <1>2 DEF ClaimsOK
  <1> QED
    BY <1>3 DEF Sound, Follows

\* change_route_metric: the kernel's entry follows, and the metric is stored.
LEMMA ChangeFact ==
  ASSUME NEW t, SlotOK(t), NEW p \in Paths, NEW refmetric \in Metric,
         NEW c \in Metric, NEW add \in Metric, NEW k, Obeys(k)
  PROVE  LET u == change_route_metric(t, p, refmetric, c, add, k)
         IN  /\ SlotOK(u) /\ SameRefs(t, u)
             /\ ~reflect_kernel_metric /\ KernelOK(t) => KernelOK(u)
             /\ \A q \in Paths \ {p} : /\ Claim(u, q) = Claim(t, q)
                                      /\ u.rt[q].cost = t.rt[q].cost
             /\ ~KernelMayRefuse =>
                  /\ Claim(u, p) = [Claim(t, p) EXCEPT !.metric = refmetric]
                  /\ u.rt[p].cost = c
  <1> DEFINE r == t.rt[p]
             new == [r EXCEPT !.refmetric = refmetric, !.cost = c, !.add = add]
             km == metric_to_kernel(route_metric(r))
             kn == metric_to_kernel(route_metric(new))
             sm == Kept(route_smoothed_metric(r))
             end == [new EXCEPT !.smoothed = sm]
             kernel == r.installed /\ km # kn
             F1 == KernelFlushForModify(t.fib, p, km, kn)
             F2 == KernelModify(t.fib, p, km, p, kn)
             F == IF kernel THEN F2 ELSE t.fib
             u == change_route_metric(t, p, refmetric, c, add, k)
             R == [t.rt EXCEPT ![p] = end]
  <1>1. r \in Route /\ t.rt \in [Paths -> Route] /\ t \in Slot
    BY SlotFact DEF SlotOK
  <1>2. SlotOK(u) /\ SameRefs(t, u)
    BY ChangeMetricFact
  <1>3. CASE kernel /\ p \in k.bad
    <2>1. u = [t EXCEPT !.fib = F1] /\ KernelMayRefuse
      BY <1>3 DEF change_route_metric, Obeys
    <2>2. F1 \in SUBSET t.fib
      BY DEF KernelFlushForModify, KernelFlush
    <2> HIDE DEF F1, u
    <2>3. Follows(t, u)
      BY <2>1, <2>2, RefusedFact
    <2>4. ~reflect_kernel_metric /\ KernelOK(t) => KernelOK(u)
      BY <2>3 DEF Follows
    <2>5. \A q \in Paths \ {p} : /\ Claim(u, q) = Claim(t, q)
                                  /\ u.rt[q].cost = t.rt[q].cost
      BY <2>3 DEF Follows
    <2> QED
      BY <1>2, <2>1, <2>4, <2>5 DEF u
  <1>4. CASE ~(kernel /\ p \in k.bad)
    <2>1. u = [t EXCEPT !.fib = F, !.rt = R]
      BY <1>4 DEF change_route_metric
    <2>2. /\ end.id = r.id /\ end.seqno = r.seqno /\ end.refmetric = refmetric
          /\ end.installed = r.installed /\ end.cost = c /\ end.add = add
      BY <1>1 DEF Route
    <2>3. route_metric(end) = route_metric(new)
      <3>1. new.refmetric = refmetric /\ new.cost = c /\ new.add = add
        BY <1>1 DEF Route
      <3> HIDE DEF end, new
      <3> QED
        BY <2>2, <3>1 DEF route_metric
    <2> HIDE DEF end, F, u
    <2>4. R[p] = end /\ \A q \in Paths \ {p} : R[q] = t.rt[q]
      BY <1>1
    <2> HIDE DEF R
    <2>5. u.rt = R /\ u.fib = F
      BY <1>1, <2>1, SMT DEF Slot
    <2>6. \A q \in Paths \ {p} : /\ Claim(u, q) = Claim(t, q)
                                  /\ u.rt[q].cost = t.rt[q].cost
      BY <2>4, <2>5 DEF Claim
    <2>7. /\ Claim(u, p) = [Claim(t, p) EXCEPT !.metric = refmetric]
          /\ u.rt[p].cost = c
      BY <2>2, <2>4, <2>5 DEF Claim
    <2>8. ASSUME ~reflect_kernel_metric, KernelOK(t) PROVE KernelOK(u)
      <3>1. CASE kernel
        <4>1. km \in {kernel_metric, KERNEL_INFINITY} /\ kn \in {kernel_metric, KERNEL_INFINITY}
          BY <2>8, TwoMetricsFact
        <4>2. OnlyEntry(t.fib, Entry(p, km)) /\ F = F2
          BY <2>8, <3>1, KernelOnlyFact DEF Wanted, F
        <4>3. OnlyEntry(F2, Entry(p, kn)) /\ (~IsDefault => Entry(p, kn) \in F2)
          <5> HIDE DEF km, kn
          <5> QED
            BY <4>1, <4>2, ModifyOnlyFact
        <4>4. Wanted(u, p) = Entry(p, kn)
          BY <2>3, <2>4, <2>5 DEF Wanted
        <4>5. u.rt[p].installed
          BY <2>2, <2>4, <2>5, <3>1
        <4> HIDE DEF F2, km, kn, kernel
        <4> QED
          BY <1>2, <2>5, <4>2, <4>3, <4>4, <4>5, KernelOnlyFact
      <3>2. CASE ~kernel
        <4>1. u.fib = t.fib
          BY <2>5, <3>2 DEF F
        <4>2. \A q \in Paths : u.rt[q].installed <=> t.rt[q].installed
          BY <2>2, <2>4, <2>5
        <4>3. \A q \in Paths : t.rt[q].installed => Wanted(u, q) = Wanted(t, q)
          BY <2>3, <2>4, <2>5, <3>2 DEF Wanted
        <4> QED
          BY <2>8, <4>1, <4>2, <4>3 DEF KernelOK
      <3> QED
        BY <3>1, <3>2
    <2> QED
      BY <1>2, <2>6, <2>7, <2>8 DEF u
  <1> QED
    BY <1>3, <1>4

\* Nothing that matters of routes and kernel has changed, except that routes
\* may have left the list.
LEMMA KeepFact ==
  ASSUME NEW t, Sound(t), NEW u, SlotOK(u), u.rt = t.rt, u.fib = t.fib,
         Listed(u) \subseteq Listed(t)
  PROVE  Sound(u)
  <1>1. KernelOK(t) => KernelOK(u)
    BY DEF KernelOK, Wanted
  <1>2. ClaimsOK(t) => ClaimsOK(u)
    BY DEF ClaimsOK, Claim
  <1> QED
    BY <1>1, <1>2 DEF Sound

\* What is believed of one route has changed.
LEMMA OneRouteFact ==
  ASSUME NEW t, Sound(t), NEW p \in Paths, NEW u, SlotOK(u),
         Listed(u) \ {p} \subseteq Listed(t),
         ~reflect_kernel_metric /\ KernelOK(t) => KernelOK(u),
         \A q \in Paths \ {p} : Claim(u, q) = Claim(t, q),
         ~KernelMayRefuse /\ p \in Listed(u) /\ Claim(u, p).metric < INFINITY =>
           Claim(u, p) \in Announced
  PROVE  Sound(u)
  <1>1. Listed(u) \subseteq Paths
    BY ListedPathsFact
  <1>2. /\ \A q \in Paths : Claim(u, q).metric = u.rt[q].refmetric
        /\ \A q \in Paths : Claim(t, q).metric = t.rt[q].refmetric
    BY DEF Claim
  <1>3. ASSUME ~KernelMayRefuse PROVE ClaimsOK(u)
    <2> SUFFICES ASSUME NEW q \in Listed(u), u.rt[q].refmetric < INFINITY
                 PROVE  Claim(u, q) \in Announced
      BY DEF ClaimsOK
    <2>1. CASE q = p
      BY <1>2, <1>3, <2>1
    <2>2. CASE q # p
      <3>1. q \in Listed(t) /\ q \in Paths \ {p}
        BY <1>1, <2>2
      <3>2. Claim(u, q) = Claim(t, q) /\ t.rt[q].refmetric < INFINITY
        BY <1>2, <3>1
      <3> QED
        BY <1>3, <3>1, <3>2 DEF Sound, ClaimsOK
    <2> QED
      BY <2>1, <2>2
  <1> QED
    BY <1>3 DEF Sound

\* flush_route.
LEMMA FlushRouteSound ==
  ASSUME NEW t, Sound(t), NEW p \in Listed(t), NEW k, Obeys(k)
  PROVE  Sound(flush_route(t, p, k))
  <1> DEFINE r == t.rt[p]
             u == uninstall_route(t, p)
             v == [u EXCEPT !.list = Unlink(u.list, p), !.rt[p] = NoRoute]
             w == IF r.installed THEN route_lost(v, r.id, route_metric(r), k) ELSE v
             z == Released(w, r.id)
  <1>1. SlotOK(t) /\ p \in Paths /\ r.id \in Ids /\ t.src[r.id] \in Source
    BY ListedFact DEF Sound
  <1>2. /\ SlotOK(u) /\ SameRefs(t, u) /\ u.list = t.list /\ u.src = t.src
        /\ ~u.rt[p].installed
    BY <1>1, UninstallFact
  <1>3. Sound(u)
    BY <1>1, UninstallFollows, SoundFact
  <1>4. flush_route(t, p, k) = z
    BY DEF flush_route, Released
  <1>5. p \in Listed(u) /\ u \in Slot
    BY <1>2 DEF SameRefs, SlotOK
  <1> HIDE DEF u
  <1>6. /\ SlotOK(v) /\ Listed(v) = Listed(u) \ {p} /\ v.src = u.src
        /\ \A q \in Paths \ {p} : v.rt[q] = u.rt[q]
    BY <1>2, <1>5, UnlinkRouteFact
  <1>7. v.fib = u.fib /\ v.rt[p] = NoRoute
    <2> DEFINE m == Unlink(u.list, p)
               R == [u.rt EXCEPT ![p] = NoRoute]
    <2>1. v = [u EXCEPT !.list = m, !.rt = R] /\ u.rt \in [Paths -> Route]
      BY <1>5, SlotFact
    <2>2. R[p] = NoRoute
      BY <1>1, <2>1
    <2> HIDE DEF m, R, v
    <2> QED
      BY <1>5, <2>1, <2>2, SMT DEF Slot
  <1> HIDE DEF v
  <1>8. KernelOK(u) => KernelOK(v)
    <2>1. \A q \in Paths : /\ v.rt[q].installed <=> u.rt[q].installed
                           /\ u.rt[q].installed => v.rt[q] = u.rt[q]
      BY <1>2, <1>6, <1>7, NoRouteFact
    <2> QED
      BY <1>7, <2>1, KernelSameFact
  <1>9. Sound(v)
    <2>1. \A q \in Paths \ {p} : Claim(v, q) = Claim(u, q)
      BY <1>6 DEF Claim
    <2>2. p \notin Listed(v) /\ Listed(v) \ {p} \subseteq Listed(u)
      BY <1>6
    <2> QED
      BY <1>1, <1>3, <1>6, <1>8, <2>1, <2>2, OneRouteFact
  <1>10. v.src[r.id] # NoSource
    BY <1>1, <1>2, <1>6, SourceAssumption
  <1>11. Follows(v, w)
    BY <1>1, <1>6, <1>10, LostFollows, FollowsFact
  <1> HIDE DEF w
  <1>12. Sound(w) /\ SlotOK(w) /\ w.src[r.id] # NoSource
    BY <1>1, <1>9, <1>10, <1>11, SoundFact DEF Follows, SameRefs
  <1>13. SlotOK(z) /\ z.list = w.list /\ z.rt = w.rt
    BY <1>1, <1>12, ReleaseFact
  <1>14. z.fib = w.fib
    <2> DEFINE S == release_source(w.src, r.id)
    <2>1. z = [w EXCEPT !.src = S] /\ w \in Slot
      BY <1>12 DEF Released, SlotOK
    <2> HIDE DEF S, z
    <2> QED
      BY <2>1, SMT DEF Slot
  <1> HIDE DEF z
  <1>15. Sound(z)
    BY <1>12, <1>13, <1>14, KeepFact DEF Listed
  <1> QED
    BY <1>4, <1>15

\* change_route_metric, to a metric that was announced with what is believed of
\* the route, or to a retraction.
LEMMA ChangeSound ==
  ASSUME NEW t, SlotOK(t), ~reflect_kernel_metric => KernelOK(t),
         NEW p \in Listed(t),
         ~KernelMayRefuse =>
           \A q \in Listed(t) \ {p} :
             t.rt[q].refmetric < INFINITY => Claim(t, q) \in Announced,
         NEW refmetric \in Metric, NEW c \in Metric, NEW add \in Metric,
         NEW k, Obeys(k),
         ~KernelMayRefuse /\ refmetric < INFINITY =>
           [Claim(t, p) EXCEPT !.metric = refmetric] \in Announced
  PROVE  LET u == change_route_metric(t, p, refmetric, c, add, k)
         IN  Sound(u) /\ SameRefs(t, u)
  <1> DEFINE u == change_route_metric(t, p, refmetric, c, add, k)
             claim == [Claim(t, p) EXCEPT !.metric = refmetric]
  <1>1. p \in Paths /\ Listed(t) \subseteq Paths
    BY ListedPathsFact
  <1>2. /\ SlotOK(u) /\ SameRefs(t, u)
        /\ ~reflect_kernel_metric /\ KernelOK(t) => KernelOK(u)
        /\ \A q \in Paths \ {p} : Claim(u, q) = Claim(t, q)
        /\ ~KernelMayRefuse => Claim(u, p) = claim
    BY <1>1, ChangeFact
  <1>3. claim.metric = refmetric
    BY DEF Claim
  <1> HIDE DEF u
  <1>4. /\ \A q \in Paths : Claim(u, q).metric = u.rt[q].refmetric
        /\ \A q \in Paths : Claim(t, q).metric = t.rt[q].refmetric
    BY DEF Claim
  <1>5. Listed(u) = Listed(t)
    BY <1>2 DEF SameRefs
  <1>6. ASSUME ~KernelMayRefuse PROVE ClaimsOK(u)
    <2> SUFFICES ASSUME NEW q \in Listed(u), u.rt[q].refmetric < INFINITY
                 PROVE  Claim(u, q) \in Announced
      BY DEF ClaimsOK
    <2>1. CASE q = p
      <3>1. Claim(u, p) = claim /\ refmetric < INFINITY
        BY <1>1, <1>2, <1>3, <1>4, <1>6, <2>1
      <3> QED
        BY <1>6, <2>1, <3>1
    <2>2. CASE q # p
      <3>1. q \in Listed(t) /\ q \in Paths \ {p}
        BY <1>1, <1>5, <2>2
      <3>2. Claim(u, q) = Claim(t, q) /\ t.rt[q].refmetric < INFINITY
        BY <1>2, <1>4, <3>1
      <3> QED
        BY <1>6, <2>2, <3>1, <3>2
    <2> QED
      BY <2>1, <2>2
  <1>7. Sound(u)
    BY <1>2, <1>6 DEF Sound
  <1> QED
    BY <1>2, <1>7 DEF u

\* retract_route.
LEMMA RetractSound ==
  ASSUME NEW t, SlotOK(t), ~reflect_kernel_metric => KernelOK(t),
         NEW p \in Listed(t),
         ~KernelMayRefuse =>
           \A q \in Listed(t) \ {p} :
             t.rt[q].refmetric < INFINITY => Claim(t, q) \in Announced,
         NEW k, Obeys(k)
  PROVE  Sound(retract_route(t, p, k)) /\ SameRefs(t, retract_route(t, p, k))
  <1>1. INFINITY \in Metric /\ 0 \in Metric /\ ~(INFINITY < INFINITY)
    BY BoundsFact, MetricAssumption
  <1> QED
    BY <1>1, ChangeSound DEF retract_route

\* update_route_metric.
LEMMA UpdateMetricSound ==
  ASSUME NEW t, Sound(t), NEW p \in Listed(t), NEW c \in Metric, NEW k, Obeys(k)
  PROVE  Sound(update_route_metric(t, p, c, k))
  <1> DEFINE r == t.rt[p]
             seqno == seqno_plus(t.src[r.id].seqno, 1)
             newer == [r EXCEPT !.seqno = seqno]
             R == [t.rt EXCEPT ![p] = newer]
             t1 == [t EXCEPT !.rt[p].seqno = seqno]
             dead == retract_route(t1, p, k)
             live == change_route_metric(t, p, r.refmetric, c, AddMetric[p], k)
             end(v) == route_changed(v, p, r.id, route_metric(r), k)
             u == update_route_metric(t, p, c, k)
  <1>1. /\ t \in Slot /\ p \in Paths /\ r \in Route /\ r.id \in Ids
        /\ t.src[r.id] \in Source /\ SlotOK(t) /\ t.rt \in [Paths -> Route]
    BY ListedFact, SlotFact DEF Sound
  <1>2. seqno \in Seqnos
    BY <1>1, SeqnoPlusFact DEF Source
  <1>3. u \in {t, dead, live, end(dead), end(live)}
    BY DEF update_route_metric
  <1>4. Sound(live) /\ SameRefs(t, live)
    <2>1. r.refmetric \in Metric /\ AddMetric[p] \in Metric
      BY <1>1, MetricAssumption DEF Route
    <2>2. [Claim(t, p) EXCEPT !.metric = r.refmetric] = Claim(t, p)
      BY DEF Claim
    <2>3. /\ ~reflect_kernel_metric => KernelOK(t)
          /\ ~KernelMayRefuse =>
               \A q \in Listed(t) : t.rt[q].refmetric < INFINITY => Claim(t, q) \in Announced
      BY DEF Sound, ClaimsOK
    <2> QED
      BY <1>1, <2>1, <2>2, <2>3, ChangeSound
  <1> HIDE DEF seqno
  <1>5. /\ newer \in Route /\ newer.id = r.id /\ newer.installed = r.installed
        /\ route_metric(newer) = route_metric(r)
    BY <1>1, <1>2 DEF Route, route_metric
  <1>6. t1 = Stored(t, t.fib, p, newer)
    BY <1>1 DEF Stored, Slot
  <1> HIDE DEF newer, t1, live
  <1>7. SlotOK(t1) /\ SameRefs(t, t1)
    BY <1>1, <1>5, <1>6, SlotFact, StoreSameFact
  <1>8. t1.rt = R /\ t1.fib = t.fib
    BY <1>1, <1>5, <1>6, SlotFact, StoreFact
  <1>9. R[p] = newer /\ \A q \in Paths \ {p} : R[q] = t.rt[q]
    BY <1>1
  <1> HIDE DEF R
  <1>10. ~reflect_kernel_metric => KernelOK(t1)
    <2>1. \A q \in Paths : /\ t1.rt[q].installed <=> t.rt[q].installed
                           /\ route_metric(t1.rt[q]) = route_metric(t.rt[q])
      BY <1>1, <1>5, <1>8, <1>9
    <2> QED
      BY <1>8, <2>1, KernelSameFact DEF Sound
  <1>11. p \in Listed(t1) /\ Listed(t1) = Listed(t) /\ Listed(t) \subseteq Paths
    BY <1>1, <1>7, ListedPathsFact DEF SameRefs
  <1>12. ~KernelMayRefuse =>
           \A q \in Listed(t1) \ {p} :
             t1.rt[q].refmetric < INFINITY => Claim(t1, q) \in Announced
    BY <1>8, <1>9, <1>11 DEF Sound, ClaimsOK, Claim
  <1>13. Sound(dead) /\ SameRefs(t1, dead)
    BY <1>7, <1>10, <1>11, <1>12, RetractSound
  <1> HIDE DEF dead
  <1>14. p \in Listed(dead) /\ p \in Listed(live)
    BY <1>4, <1>11, <1>13 DEF SameRefs
  <1>15. Sound(end(dead))
    <2>1. Follows(dead, end(dead))
      BY <1>13, <1>14, ChangedFollows DEF Sound
    <2> HIDE DEF end
    <2> QED
      BY <1>13, <2>1, SoundFact
  <1>16. Sound(end(live))
    <2>1. Follows(live, end(live))
      BY <1>4, <1>14, ChangedFollows DEF Sound
    <2> HIDE DEF end
    <2> QED
      BY <1>4, <2>1, SoundFact
  <1> HIDE DEF end, u
  <1>17. Sound(u)
    BY <1>3, <1>4, <1>13, <1>15, <1>16
  <1> QED
    BY <1>17 DEF u

\* release_source at the end of a handler.
LEMMA ReleaseSound ==
  ASSUME NEW t, Sound(t), NEW id \in Ids, t.src[id] # NoSource,
         NEW u, u = Released(t, id)
  PROVE  Sound(u)
  <1>1. SlotOK(u) /\ u.list = t.list /\ u.rt = t.rt
    BY ReleaseFact DEF Sound
  <1>2. u.fib = t.fib
    <2> DEFINE S == release_source(t.src, id)
    <2>1. u = [t EXCEPT !.src = S] /\ t \in Slot
      BY DEF Released, Sound, SlotOK
    <2> HIDE DEF S
    <2> QED
      BY <2>1, SMT DEF Slot
  <1> QED
    BY <1>1, <1>2, KeepFact DEF Listed

\* An update for a route of the list.  Between the change of the sequence number
\* and the change of the metric, what is believed of the route was not announced.
LEMMA UpdateKnownSound ==
  ASSUME NEW t, Sound(t), NEW p \in Listed(t), NEW a \in Announced,
         t.src[a.id] # NoSource, NEW c \in Metric, NEW k, Obeys(k)
  PROVE  Sound(UpdateKnownRoute(t, p, a, c, k))
  <1> DEFINE r == t.rt[p]
             oldmetric == route_metric(r)
             feasible == update_feasible(t.src[a.id], a.seqno, a.metric)
             lost == ~feasible /\ r.installed /\ a.id # r.id
             refreshed == (feasible \/ keep_unfeasible) /\ a.metric < INFINITY
             t1 == IF lost THEN uninstall_route(t, p) ELSE t
             age == IF refreshed THEN 0 ELSE r.age
             r2 == [t1.rt[p] EXCEPT !.id = a.id, !.seqno = a.seqno, !.age = age]
             t2 == Replaced(t1, p, a.id, r2)
             t3 == change_route_metric(t2, p, a.metric, c, AddMetric[p], k)
             t4 == route_changed(t3, p, r.id, oldmetric, k)
             t5 == IF lost THEN route_lost(t4, r.id, oldmetric, k) ELSE t4
             ask == send_unfeasible_request(
                      t5, NeighOf[p], t5.rt[p].installed /\ route_old(t5.rt[p]),
                      a.seqno, MIN(a.metric + c + AddMetric[p], INFINITY), a.id)
             t6 == IF feasible THEN t5 ELSE ask
             u == Released(t6, r.id)
  <1>1. /\ SlotOK(t) /\ p \in Paths /\ r \in Route /\ r.id \in Ids
        /\ t.src[r.id] # NoSource /\ t \in Slot
    BY ListedFact, SourceAssumption DEF Sound
  <1>2. a \in Update /\ a.id \in Ids /\ a.seqno \in Seqnos /\ a.metric \in Metric
        /\ AddMetric[p] \in Metric /\ NeighOf[p] \in Neighs
    BY <1>1, RibAssumption, MetricAssumption, PathAssumption DEF Update
  <1>3. Follows(t, t1) /\ t1.src = t.src
    BY <1>1, UninstallFollows, UninstallFact, FollowsFact
  <1> HIDE DEF t1
  <1>4. Sound(t1) /\ SlotOK(t1) /\ SameRefs(t, t1)
    BY <1>3, SoundFact DEF Follows
  <1>5. p \in Listed(t1) /\ t1.rt[p] \in Route /\ t1.src[a.id] # NoSource
    BY <1>2, <1>3, <1>4, ListedFact DEF SameRefs
  <1>6. age \in 0 .. MaxAge
    BY <1>1, BoundsFact DEF Route
  <1> HIDE DEF age
  <1>7. r2 \in Route
    BY <1>2, <1>5, <1>6, Zenon DEF Route
  <1>8. /\ r2.id = a.id /\ r2.installed = t1.rt[p].installed /\ r2.seqno = a.seqno
        /\ r2.refmetric = t1.rt[p].refmetric /\ r2.cost = t1.rt[p].cost
        /\ r2.add = t1.rt[p].add
    BY <1>5, SMT DEF Route
  <1>9. UpdateKnownRoute(t, p, a, c, k) = u
    BY DEF UpdateKnownRoute, Replaced, Released, t1, age
  <1> HIDE DEF r2
  <1>10. route_metric(r2) = route_metric(t1.rt[p])
    BY <1>8 DEF route_metric
  <1>11. /\ SlotOK(t2) /\ Listed(t2) = Listed(t1)
         /\ t2.rt[p] = r2 /\ \A q \in Paths \ {p} : t2.rt[q] = t1.rt[q]
         /\ \A i \in Ids : t2.src[i] = NoSource <=> t1.src[i] = NoSource
    BY <1>4, <1>5, <1>7, <1>8, ReplaceFact
  <1>12. t2.fib = t1.fib
    <2> DEFINE S == retain_source(t1.src, a.id)
               R == [t1.rt EXCEPT ![p] = r2]
    <2>1. t2 = [t1 EXCEPT !.src = S, !.rt = R] /\ t1 \in Slot
      BY <1>4 DEF Replaced, SlotOK
    <2> HIDE DEF S, R, t2
    <2> QED
      BY <2>1, SMT DEF Slot
  <1> HIDE DEF t2
  <1>13. ~reflect_kernel_metric => KernelOK(t2)
    <2>1. \A q \in Paths : /\ t2.rt[q].installed <=> t1.rt[q].installed
                           /\ route_metric(t2.rt[q]) = route_metric(t1.rt[q])
      BY <1>8, <1>10, <1>11
    <2> QED
      BY <1>4, <1>12, <2>1, KernelSameFact DEF Sound
  <1>14. ~KernelMayRefuse =>
           \A q \in Listed(t2) \ {p} :
             t2.rt[q].refmetric < INFINITY => Claim(t2, q) \in Announced
    <2>1. Listed(t1) \subseteq Paths
      BY <1>4, ListedPathsFact
    <2> QED
      BY <1>4, <1>11, <2>1 DEF Sound, ClaimsOK, Claim
  <1>15. [Claim(t2, p) EXCEPT !.metric = a.metric] = a
    <2>1. Claim(t2, p) = [id |-> a.id, seqno |-> a.seqno, metric |-> t2.rt[p].refmetric]
      BY <1>8, <1>11 DEF Claim
    <2>2. a = [id |-> a.id, seqno |-> a.seqno, metric |-> a.metric]
      BY <1>2 DEF Update
    <2> QED
      BY <2>1, <2>2
  <1>16. p \in Listed(t2)
    BY <1>5, <1>11
  <1>17. Sound(t3) /\ SameRefs(t2, t3)
    <2> DEFINE m == a.metric
               add == AddMetric[p]
    <2>1. m \in Metric /\ add \in Metric
      BY <1>2
    <2>2. [Claim(t2, p) EXCEPT !.metric = m] \in Announced
      BY <1>15
    <2>3. t3 = change_route_metric(t2, p, m, c, add, k)
      OBVIOUS
    <2> HIDE DEF m, add, t3
    <2> QED
      BY <1>11, <1>13, <1>14, <1>16, <2>1, <2>2, <2>3, ChangeSound
  <1> HIDE DEF t3
  <1>18. SlotOK(t3) /\ p \in Listed(t3) /\ t3.src[r.id] # NoSource /\ t3.src[a.id] # NoSource
    BY <1>1, <1>2, <1>3, <1>5, <1>11, <1>16, <1>17 DEF Sound, SameRefs
  <1>19. Follows(t3, t4)
    BY <1>18, ChangedFollows
  <1> HIDE DEF t4
  <1>20. SlotOK(t4) /\ t4.src[r.id] # NoSource /\ t4.src[a.id] # NoSource
    BY <1>1, <1>2, <1>18, <1>19 DEF Follows, SameRefs
  <1>21. Follows(t4, t5)
    BY <1>1, <1>20, LostFollows, FollowsFact
  <1> HIDE DEF t5
  <1>22. SlotOK(t5) /\ t5.src[r.id] # NoSource /\ t5.src[a.id] # NoSource
    BY <1>1, <1>2, <1>20, <1>21 DEF Follows, SameRefs
  <1>23. Follows(t5, t6)
    BY <1>2, <1>22, RequestFollows, FollowsFact
  <1> HIDE DEF t6
  <1>24. Sound(t6)
    BY <1>17, <1>19, <1>21, <1>23, SoundFact
  <1>25. t6.src[r.id] # NoSource
    BY <1>1, <1>22, <1>23 DEF Follows, SameRefs
  <1>26. Sound(u)
    BY <1>1, <1>24, <1>25, ReleaseSound
  <1> QED
    BY <1>9, <1>26

\* An update for a route that is not in the list.
LEMMA UpdateNewSound ==
  ASSUME NEW t, Sound(t), NEW p \in Paths, p \notin Listed(t), NEW a \in Announced,
         t.src[a.id] # NoSource, NEW c \in Metric, NEW k, Obeys(k)
  PROVE  Sound(UpdateNewRoute(t, p, a, c, k))
  <1> DEFINE feasible == update_feasible(t.src[a.id], a.seqno, a.metric)
             metric == MIN(a.metric + c + AddMetric[p], INFINITY)
             ask == send_unfeasible_request(
                      t, NeighOf[p], FALSE, a.seqno, metric, a.id)
             t1 == IF feasible THEN t ELSE ask
             r == [id |-> a.id, seqno |-> a.seqno, refmetric |-> a.metric,
                   cost |-> c, add |-> AddMetric[p],
                   smoothed |-> Kept(MAX(metric, INFINITY \div 2)),
                   age |-> 0, installed |-> FALSE]
             t2 == Added(t1, p, a.id, r)
             u == consider_route(t2, p, k)
             end == UpdateNewRoute(t, p, a, c, k)
  <1>1. a \in Update /\ a.id \in Ids /\ a.seqno \in Seqnos /\ a.metric \in Metric
        /\ AddMetric[p] \in Metric /\ NeighOf[p] \in Neighs /\ SlotOK(t)
    BY RibAssumption, MetricAssumption, PathAssumption DEF Update, Sound
  <1>2. Follows(t, t1)
    BY <1>1, RequestFollows, FollowsFact
  <1>3. end \in {t, t1, u}
    BY DEF UpdateNewRoute, Added
  <1>4. metric \in Metric
    BY <1>1, SumFact
  <1> HIDE DEF t1, metric
  <1>5. Kept(MAX(metric, INFINITY \div 2)) \in Metric
    BY <1>4, BoundsFact DEF Kept
  <1>6. r \in Route
    BY <1>1, <1>5, BoundsFact DEF Route
  <1>7. r.id = a.id /\ ~r.installed /\ r.seqno = a.seqno /\ r.refmetric = a.metric
    OBVIOUS
  <1> HIDE DEF feasible, r
  <1>8. /\ Sound(t1) /\ SlotOK(t1) /\ p \notin Listed(t1) /\ t1.src[a.id] # NoSource
        /\ t1 \in Slot
    BY <1>1, <1>2, SoundFact DEF Follows, SameRefs, SlotOK
  <1>9. /\ SlotOK(t2) /\ Listed(t2) = Listed(t1) \cup {p}
        /\ t2.rt[p] = r /\ \A q \in Paths \ {p} : t2.rt[q] = t1.rt[q]
    BY <1>6, <1>7, <1>8, AddFact
  <1>10. t2.fib = t1.fib
    <2> DEFINE S == retain_source(t1.src, a.id)
               R == [t1.rt EXCEPT ![p] = r]
               m == Append(t1.list, p)
    <2>1. t2 = [t1 EXCEPT !.src = S, !.rt = R, !.list = m]
      BY DEF Added
    <2> HIDE DEF S, R, m, t2
    <2> QED
      BY <1>8, <2>1, SMT DEF Slot
  <1> HIDE DEF t2
  <1>11. ~t1.rt[p].installed
    <2>1. t1.rt[p].installed => p \in Listed(t1)
      BY <1>8, SlotFact DEF SlotOK, HeadOK, Listed
    <2> QED
      BY <1>8, <2>1
  <1>12. KernelOK(t1) => KernelOK(t2)
    <2>1. \A q \in Paths : /\ t2.rt[q].installed <=> t1.rt[q].installed
                           /\ t1.rt[q].installed => t2.rt[q] = t1.rt[q]
      BY <1>7, <1>9, <1>11
    <2> QED
      BY <1>10, <2>1, KernelSameFact
  <1>13. Sound(t2)
    <2>1. Claim(t2, p) = a
      <3>1. Claim(t2, p) = [id |-> a.id, seqno |-> a.seqno, metric |-> a.metric]
        BY <1>7, <1>9 DEF Claim
      <3>2. a = [id |-> a.id, seqno |-> a.seqno, metric |-> a.metric]
        BY <1>1 DEF Update
      <3> QED
        BY <3>1, <3>2
    <2>2. \A q \in Paths \ {p} : Claim(t2, q) = Claim(t1, q)
      BY <1>9 DEF Claim
    <2>3. Listed(t2) \ {p} \subseteq Listed(t1)
      BY <1>9
    <2> QED
      BY <1>8, <1>9, <1>12, <2>1, <2>2, <2>3, OneRouteFact
  <1>14. Sound(u)
    <2>1. p \in Listed(t2)
      BY <1>9
    <2>2. Follows(t2, u)
      BY <1>9, <2>1, ConsiderFollows
    <2> HIDE DEF u
    <2> QED
      BY <1>13, <2>2, SoundFact
  <1> HIDE DEF u, end
  <1>15. Sound(end)
    BY <1>3, <1>8, <1>14
  <1> QED
    BY <1>15 DEF end

\* update_route.
LEMMA UpdateRouteSound ==
  ASSUME NEW t, Sound(t), RefsOK(t), NEW p \in Paths, NEW a \in Announced,
         NEW c \in Metric, NEW k, Obeys(k)
  PROVE  Sound(update_route(t, p, a, c, k))
  <1> DEFINE t1 == [t EXCEPT !.src = find_source(t.src, a.id, a.seqno)]
             known == UpdateKnownRoute(t1, p, a, c, k)
             new == UpdateNewRoute(t1, p, a, c, k)
             u == update_route(t, p, a, c, k)
  <1>1. u \in {t} \cup {v \in {known} : p \in Listed(t)} \cup {v \in {new} : p \notin Listed(t)}
    BY DEF update_route
  <1>2. a.id \in Ids /\ a.seqno \in Seqnos /\ SlotOK(t) /\ t \in Slot
    BY RibAssumption DEF Update, Sound, SlotOK
  <1>3. SlotOK(t1) /\ Listed(t1) = Listed(t) /\ t1.src[a.id] # NoSource
    BY <1>2, FindSourceFact
  <1>4. t1.rt = t.rt /\ t1.fib = t.fib
    <2> DEFINE S == find_source(t.src, a.id, a.seqno)
    <2>1. t1 = [t EXCEPT !.src = S]
      OBVIOUS
    <2> HIDE DEF S, t1
    <2> QED
      BY <1>2, <2>1, SMT DEF Slot
  <1> HIDE DEF t1
  <1>5. Sound(t1)
    BY <1>3, <1>4, KeepFact
  <1>6. p \in Listed(t) => Sound(known)
    BY <1>3, <1>5, UpdateKnownSound
  <1>7. p \notin Listed(t) => Sound(new)
    <2> SUFFICES ASSUME p \notin Listed(t) PROVE Sound(new)
      OBVIOUS
    <2>1. p \notin Listed(t1)
      BY <1>3
    <2> QED
      BY <1>3, <1>5, <2>1, UpdateNewSound
  <1> HIDE DEF known, new, u
  <1>8. Sound(u)
    BY <1>1, <1>6, <1>7
  <1> QED
    BY <1>8 DEF u

-----------------------------------------------------------------------------
(* Our own route comes and goes. *)

\* The metric of our own route is all that changes.
LEMMA XrouteSound ==
  ASSUME NEW t, Sound(t), RefsOK(t), NEW m \in Metric,
         allow_duplicates < 0 /\ m < INFINITY => \A p \in Paths : ~t.rt[p].installed
  PROVE  LET u == [t EXCEPT !.xroute = m]
         IN  Sound(u) /\ RefsOK(u) /\ u.xroute = m
  <1> DEFINE u == [t EXCEPT !.xroute = m]
  <1>1. SlotOK(t) /\ t \in Slot
    BY DEF Sound, SlotOK
  <1>2. SlotOK(u) /\ RefsOK(u) /\ u.list = t.list /\ u.rt = t.rt /\ u.xroute = m
    BY <1>1, XrouteFact
  <1>3. u.fib = t.fib
    BY <1>1, SMT DEF Slot
  <1> HIDE DEF u
  <1>4. Sound(u)
    BY <1>2, <1>3, KeepFact DEF Listed
  <1> QED
    BY <1>2, <1>4 DEF u

\* The exported route goes.
LEMMA FlushXrouteSound ==
  ASSUME NEW t, Sound(t), RefsOK(t), NEW k, Obeys(k)
  PROVE  Sound(FlushXroute(t, k))
  <1> DEFINE u == [t EXCEPT !.xroute = INFINITY]
             b == find_best_route(u)
             v == IF b = NoPath THEN u ELSE install_route(u, b, k)
             w == send_update_resend(v, k)
  <1>1. FlushXroute(t, k) = w
    BY DEF FlushXroute
  <1>2. Sound(u) /\ u.xroute = INFINITY
    <2>1. INFINITY \in Metric /\ ~(INFINITY < INFINITY)
      BY BoundsFact, MetricAssumption
    <2> QED
      BY <2>1, XrouteSound
  <1> HIDE DEF u
  <1>3. SlotOK(u) /\ u \in Slot
    BY <1>2 DEF Sound, SlotOK
  <1>4. Follows(u, v)
    <2>1. CASE b = NoPath
      BY <1>3, <2>1, FollowsFact
    <2>2. CASE b # NoPath
      <3>1. b \in Listed(u)
        BY <1>3, <2>2, BestFact
      <3>2. ~(allow_duplicates < 0 /\ u.xroute < INFINITY)
        BY <1>2, MetricAssumption
      <3> QED
        BY <1>3, <2>2, <3>1, <3>2, InstallFollows
    <2> QED
      BY <2>1, <2>2
  <1> HIDE DEF v
  <1>5. Follows(v, w)
    BY <1>4, SendFollows DEF Follows
  <1> HIDE DEF w
  <1> QED
    BY <1>1, <1>2, <1>4, <1>5, SoundFact

\* Our own route appears.
LEMMA AddXrouteSound ==
  ASSUME NEW t, Sound(t), RefsOK(t), NEW m \in Metric, NEW prio, NEW k
  PROVE  Sound(AddXroute(t, m, prio, k))
  <1> DEFINE u == [t EXCEPT !.xroute = m]
             p == find_installed_route(t)
             out == uninstall_route(t, p)
             v == [out EXCEPT !.xroute = m]
  <1>1. t \in Slot /\ HeadOK(t) /\ SlotOK(t)
    BY DEF Sound, SlotOK
  <1>2. u.list = t.list /\ u.rt = t.rt
    BY <1>1, SMT DEF Slot
  <1>3. find_installed_route(u) = p
    <2> HIDE DEF u
    <2> QED
      BY <1>2 DEF find_installed_route
  <1>4. p # NoPath => p \in Paths /\ t.rt[p].installed
    BY <1>1, InstalledFact
  <1>5. p = NoPath => \A q \in Paths : ~t.rt[q].installed
    BY <1>1, PathAssumption DEF HeadOK, find_installed_route
  <1>6. p # NoPath => uninstall_route(u, p) = v
    BY <1>1, <1>4, UninstallCommutes
  <1>7. AddXroute(t, m, prio, k) \in
          {t} \cup {send_update(w, k) : w \in
                      {w \in {v} : p # NoPath} \cup
                      {w \in {u} : p = NoPath \/ ~(allow_duplicates < 0)}}
    <2> HIDE DEF v, p
    <2> QED
      BY <1>3, <1>6 DEF AddXroute
  <1>8. p # NoPath => Sound(v)
    <2> SUFFICES ASSUME p # NoPath PROVE Sound(v)
      OBVIOUS
    <2>1. Follows(t, out) /\ SameRefs(t, out) /\ \A q \in Paths : ~out.rt[q].installed
      BY <1>1, <1>4, UninstallFact, UninstallFollows
    <2> HIDE DEF out
    <2>2. RefsOK(out) /\ Sound(out)
      BY <1>1, <2>1, SameRefsOK, SoundFact
    <2> QED
      BY <2>1, <2>2, XrouteSound
  <1>9. p = NoPath \/ ~(allow_duplicates < 0) => Sound(u)
    BY <1>5, XrouteSound
  <1> HIDE DEF u, v, p
  <1>10. ASSUME NEW w, Sound(w) PROVE Sound(send_update(w, k))
    <2>1. Follows(w, send_update(w, k))
      BY <1>10, SendFollows DEF Sound
    <2> QED
      BY <1>10, <2>1, SoundFact
  <1> QED
    BY <1>7, <1>8, <1>9, <1>10

\* check_xroutes.
LEMMA CheckXroutesSound ==
  ASSUME NEW t, Sound(t), RefsOK(t), NEW m \in Metric, NEW prio, NEW k, Obeys(k)
  PROVE  Sound(check_xroutes(t, m, prio, k))
  <1> DEFINE f == FlushXroute(t, k)
             u == IF t.xroute < INFINITY /\ m # t.xroute THEN f ELSE t
             v == AddXroute(u, m, prio, k)
  <1>1. check_xroutes(t, m, prio, k) \in {u, v}
    BY DEF check_xroutes
  <1>2. Sound(f) /\ RefsOK(f)
    BY FlushXrouteFact, FlushXrouteSound DEF Sound
  <1> HIDE DEF f
  <1>3. Sound(u) /\ RefsOK(u)
    BY <1>2
  <1> HIDE DEF u
  <1>4. Sound(v)
    BY <1>3, AddXrouteSound
  <1> HIDE DEF v
  <1> QED
    BY <1>1, <1>3, <1>4

-----------------------------------------------------------------------------
(* The router. *)

\* A step that ends with slot t, or with routes and kernel as in slot t.
LEMMA EndsSound ==
  ASSUME IInv', NEW t, Sound(t), list' = t.list, rt' = t.rt, fib' = t.fib
  PROVE  Sound(Table')
  <1>1. SlotOK(Table')
    BY DEF IInv
  <1>2. Table'.list = list' /\ Table'.rt = rt' /\ Table'.fib = fib'
    BY DEF Table
  <1> QED
    BY <1>1, <1>2, KeepFact DEF Listed

\* Handlers that do not walk.
LEMMA HandlersSound ==
  ASSUME IInv, IInv', Sound(Table),
         \/ \E p \in Paths, a \in Announced : ReceiveUpdate(p, a)
         \/ \E m \in Exported \cup {INFINITY} : CheckXroutes(m)
         \/ \E i \in Ifaces : FlushUpdates(i)
         \/ DoResend
  PROVE  Sound(Table')
  <1>1. ASSUME NEW p \in Paths, NEW a \in Announced, ReceiveUpdate(p, a)
        PROVE  Sound(Table')
    <2> PICK k \in Answers : Becomes(update_route(Table, p, a, cost[NeighOf[p]], k))
      BY <1>1 DEF ReceiveUpdate
    <2> DEFINE c == cost[NeighOf[p]]
               t == update_route(Table, p, a, c, k)
    <2>1. c \in Metric /\ Obeys(k)
      BY IInvFact, PathAssumption, AnswersFact
    <2>2. Becomes(t)
      OBVIOUS
    <2> HIDE DEF c
    <2>3. Sound(t)
      BY <2>1, IInvFact, UpdateRouteSound
    <2> HIDE DEF t
    <2> QED
      BY <2>2, <2>3, EndsSound DEF Becomes
  <1>2. ASSUME NEW m \in Exported \cup {INFINITY}, CheckXroutes(m)
        PROVE  Sound(Table')
    <2> PICK k \in Answers : Becomes(check_xroutes(Table, m, ExportedPrio, k))
      BY <1>2 DEF CheckXroutes
    <2> DEFINE t == check_xroutes(Table, m, ExportedPrio, k)
    <2>1. m \in Metric /\ Obeys(k)
      BY RibAssumption, MetricAssumption, AnswersFact DEF Metric
    <2>2. Becomes(t)
      OBVIOUS
    <2>3. Sound(t)
      BY <2>1, IInvFact, CheckXroutesSound
    <2> HIDE DEF t
    <2> QED
      BY <2>2, <2>3, EndsSound DEF Becomes
  <1>3. ASSUME NEW i \in Ifaces, FlushUpdates(i)
        PROVE  Sound(Table')
    <2> DEFINE t == flushupdates(Table, {i})
    <2>1. Becomes(t)
      BY <1>3 DEF FlushUpdates
    <2>2. Sound(t)
      BY IInvFact, FlushFollows, SoundFact
    <2> HIDE DEF t
    <2> QED
      BY <2>1, <2>2, EndsSound DEF Becomes
  <1>4. CASE DoResend
    <2> PICK k \in Answers : Becomes([send_update(Table, k) EXCEPT !.resend = @ - 1])
      BY <1>4 DEF DoResend
    <2> DEFINE u == send_update(Table, k)
               t == [u EXCEPT !.resend = u.resend - 1]
    <2>1. Becomes(t)
      OBVIOUS
    <2>2. Sound(u) /\ u \in Slot
      BY IInvFact, SendFollows, SoundFact DEF Sound, SlotOK
    <2> HIDE DEF u
    <2>3. t.list = u.list /\ t.rt = u.rt /\ t.fib = u.fib
      BY <2>2, SMT DEF Slot
    <2> HIDE DEF t
    <2> QED
      BY <2>1, <2>2, <2>3, EndsSound DEF Becomes
  <1> QED
    BY <1>1, <1>2, <1>3, <1>4

\* One iteration of a walk.
LEMMA WalkSound ==
  ASSUME IInv, IInv', Sound(Table), WalkStep
  PROVE  Sound(Table')
  <1>1. ASSUME NEW k \in Answers, job.at \in Listed(Table),
               \/ Visit(update_route_metric(Table, job.at, cost[NeighOf[job.at]], k))
               \/ FlushAndRestart(k)
               \/ Visit(Table)
        PROVE  Sound(Table')
    <2> DEFINE c == cost[NeighOf[job.at]]
               p == job.at
               u == update_route_metric(Table, p, c, k)
               v == flush_route(Table, p, k)
    <2>1. c \in Metric /\ Obeys(k)
      BY <1>1, IInvFact, ListedPathsFact, PathAssumption, AnswersFact
    <2>2. p \in Listed(Table)
      BY <1>1
    <2>3. Becomes(u) \/ Becomes(v) \/ Becomes(Table)
      BY <1>1 DEF Visit, FlushAndRestart
    <2> HIDE DEF c, p
    <2>4. Sound(u) /\ Sound(v)
      BY <2>1, <2>2, UpdateMetricSound, FlushRouteSound
    <2> HIDE DEF u, v
    <2> QED
      BY <2>3, <2>4, EndsSound DEF Becomes
  <1>2. ASSUME NEW k \in Answers, RetractStep(k)
        PROVE  Sound(Table')
    <2> DEFINE r == rt[job.at]
               p == job.at
               u == retract_route(Table, p, k)
               v == route_changed(u, p, r.id, route_metric(r), k)
    <2>1. p \in Listed(Table) /\ Obeys(k)
      BY <1>2, IInvFact, AnswersFact DEF RetractStep, JobOK
    <2>2. Becomes(u) \/ Becomes(v) \/ Becomes(Table)
      BY <1>2 DEF RetractStep, Visit
    <2> HIDE DEF p, r
    <2>3. Sound(u) /\ SameRefs(Table, u)
      <3>1. /\ SlotOK(Table)
            /\ ~reflect_kernel_metric => KernelOK(Table)
            /\ ~KernelMayRefuse =>
                 \A q \in Listed(Table) \ {p} :
                   Table.rt[q].refmetric < INFINITY => Claim(Table, q) \in Announced
        BY DEF Sound, ClaimsOK
      <3> QED
        BY <2>1, <3>1, RetractSound
    <2> HIDE DEF u
    <2>4. p \in Listed(u) /\ SlotOK(u)
      BY <2>1, <2>3 DEF SameRefs, Sound
    <2>5. Sound(v)
      BY <2>1, <2>3, <2>4, ChangedFollows, SoundFact
    <2> HIDE DEF v
    <2> QED
      BY <2>2, <2>3, <2>5, EndsSound DEF Becomes
  <1>3. ASSUME RequestStep
        PROVE  Sound(Table')
    <2> PICK all \in BOOLEAN :
          LET ours == find_installed_route(Table) # NoPath \/ xroute < INFINITY
              t == [Table EXCEPT !.update =
                      @ \cup IF all /\ ours THEN job.ifs ELSE {}]
          IN  Becomes(flushupdates(t, job.ifs))
      BY <1>3 DEF RequestStep
    <2> DEFINE ours == find_installed_route(Table) # NoPath \/ xroute < INFINITY
               new == Table.update \cup IF all /\ ours THEN job.ifs ELSE {}
               t == [Table EXCEPT !.update = new]
               u == flushupdates(t, job.ifs)
    <2>1. Becomes(u)
      OBVIOUS
    <2>2. new \in SUBSET Table.up
      BY IInvFact, TableFact DEF JobOK
    <2> HIDE DEF new
    <2>3. Follows(Table, t)
      <3>1. Table.resend \in 0 .. RESEND_MAX /\ SlotOK(Table)
            /\ Table.asked \in SUBSET [to : SUBSET Neighs, id : Ids, seqno : Seqnos]
        BY IInvFact, SlotFact
      <3> QED
        BY <2>2, <3>1, BuffersFollow
    <2> HIDE DEF t
    <2>4. Follows(t, u)
      BY <2>3, FlushFollows DEF Follows
    <2> HIDE DEF u
    <2>5. Sound(u)
      BY <2>3, <2>4, SoundFact
    <2> QED
      BY <2>1, <2>5, EndsSound DEF Becomes
  <1>4. ASSUME NEW k \in Answers, MetricStep(k) \/ FlushStep(k) \/ ExpireStep(k)
        PROVE  Sound(Table')
    <2>1. job.at \in Listed(Table)
      BY <1>4, IInvFact DEF MetricStep, FlushStep, ExpireStep, JobOK
    <2>2. \/ Visit(update_route_metric(Table, job.at, cost[NeighOf[job.at]], k))
          \/ FlushAndRestart(k)
          \/ Visit(Table)
      BY <1>4 DEF MetricStep, FlushStep, ExpireStep
    <2> QED
      BY <1>1, <2>1, <2>2
  <1> QED
    BY <1>2, <1>3, <1>4 DEF WalkStep

\* An older route has the same metric.
LEMMA AgedMetricFact ==
  ASSUME NEW r \in Route, NEW q \in Aged(r)
  PROVE  route_metric(q) = route_metric(r)
  <1>1. q.refmetric = r.refmetric /\ q.cost = r.cost /\ q.add = r.add
    BY DEF Aged, Route
  <1> QED
    BY <1>1 DEF route_metric

\* Time passes.
LEMMA TickSound ==
  ASSUME IInv, IInv', Sound(Table), Tick
  PROVE  Sound(Table')
  <1> DEFINE aged(p) == IF p \in Listed(Table) THEN Aged(rt[p]) ELSE {NoRoute}
  <1>1. rt \in [Paths -> Route] /\ Listed(Table) \subseteq Paths
        /\ SlotOK(Table) /\ SlotOK(Table')
    BY IInvFact, ListedPathsFact DEF IInv
  <1>2. \A p \in Paths : rt'[p] \in aged(p)
    BY DEF Tick
  <1>3. \A p \in Listed(Table) :
          /\ rt'[p].id = rt[p].id /\ rt'[p].seqno = rt[p].seqno
          /\ rt'[p].refmetric = rt[p].refmetric
          /\ rt'[p].installed = rt[p].installed
          /\ route_metric(rt'[p]) = route_metric(rt[p])
    BY <1>1, <1>2, AgedRouteFact, AgedMetricFact
  <1>4. \A p \in Paths \ Listed(Table) : ~rt'[p].installed
    BY <1>2, NoRouteFact
  <1>5. \A p \in Paths \ Listed(Table) : ~rt[p].installed
    BY <1>1, TableFact, IInvFact DEF SlotOK, HeadOK, Listed
  <1>6. /\ Listed(Table') = Listed(Table) /\ Table'.rt = rt' /\ Table'.fib = fib
        /\ Table.rt = rt /\ Table.fib = fib
    BY TableFact DEF Listed, Table, Tick
  <1>7. KernelOK(Table) => KernelOK(Table')
    <2>1. \A p \in Paths : /\ Table'.rt[p].installed <=> Table.rt[p].installed
                           /\ Table.rt[p].installed =>
                                route_metric(Table'.rt[p]) = route_metric(Table.rt[p])
      BY <1>3, <1>4, <1>5, <1>6
    <2> QED
      BY <1>6, <2>1, KernelSameFact
  <1>8. ClaimsOK(Table) => ClaimsOK(Table')
    BY <1>3, <1>6 DEF ClaimsOK, Claim
  <1> QED
    BY <1>1, <1>7, <1>8 DEF Sound

\* Every step of the router.
LEMMA NextSound ==
  ASSUME IInv, Sound(Table), [Next]_vars
  PROVE  Sound(Table')
  <1> USE NextFact
  <1>1. CASE \E i \in Ifaces : SendUpdate(i) \/ InterfaceDown(i) \/ InterfaceUp(i)
    BY <1>1, EndsSound, TableFact DEF SendUpdate, InterfaceDown, InterfaceUp, slot
  <1>2. CASE \E n \in Neighs : \/ \E c \in Costs : CostChange(n, c)
                               \/ WildcardRetraction(n)
                               \/ FlushNeighbour(n)
    BY <1>2, EndsSound, TableFact DEF CostChange, WildcardRetraction, FlushNeighbour, slot
  <1>3. CASE ExpireRoutes \/ ExpireSources \/ UNCHANGED vars
    BY <1>3, EndsSound, TableFact DEF ExpireRoutes, ExpireSources, slot, vars
  <1>4. CASE \/ \E p \in Paths, a \in Announced : ReceiveUpdate(p, a)
             \/ \E m \in Exported \cup {INFINITY} : CheckXroutes(m)
             \/ \E i \in Ifaces : FlushUpdates(i)
             \/ DoResend
    BY <1>4, HandlersSound
  <1>5. CASE WalkStep
    BY <1>5, WalkSound
  <1>6. CASE Tick
    BY <1>6, TickSound
  <1> QED
    BY <1>1, <1>2, <1>3, <1>4, <1>5, <1>6 DEF Next

\* At the start there is no route.
LEMMA InitSound == Init => Sound(Table)
  <1> SUFFICES ASSUME Init PROVE Sound(Table)
    OBVIOUS
  <1>1. SlotOK(Table) /\ \A p \in Paths : ~Table.rt[p].installed
    BY InitFact, TableFact, NoRouteFact DEF Init, IInv
  <1>2. KernelOK(Table)
    BY <1>1, TableFact, KernelOnlyFact DEF Init
  <1>3. Listed(Table) = {}
    BY TableFact DEF Init, Listed
  <1> QED
    BY <1>1, <1>2, <1>3 DEF Sound, ClaimsOK

\* The inductive invariant.
LEMMA SoundInvariant == Spec => [](IInv /\ Sound(Table))
  <1>1. Init => IInv /\ Sound(Table)
    BY InitFact, InitSound
  <1>2. IInv /\ Sound(Table) /\ [Next]_vars => (IInv /\ Sound(Table))'
    <2>1. IInv /\ [Next]_vars => IInv'
      BY NextFact
    <2>2. IInv /\ Sound(Table) /\ [Next]_vars => Sound(Table)'
      BY NextSound
    <2> QED
      BY <2>1, <2>2
  <1> QED
    BY <1>1, <1>2, PTL DEF Spec

\* Without reflect-kernel-metric, whatever the kernel refuses and in whatever
\* handler, kinstall_route, kuninstall_route, kswitch_routes and
\* kchange_route_metric leave no entry in the kernel but the installed route's.
THEOREM KernelFollows ==
  ASSUME ~reflect_kernel_metric
  PROVE  Spec => []KernelMatches
  <1>1. IInv /\ Sound(Table) => KernelMatches
    <2> SUFFICES ASSUME IInv, Sound(Table) PROVE KernelMatches
      OBVIOUS
    <2>1. KernelOK(Table) /\ SlotOK(Table) /\ Listed(Table) \subseteq Paths
      BY ListedPathsFact DEF Sound
    <2>2. \A p \in Paths : rt[p].installed => p \in Listed(Table)
      BY <2>1, TableFact, IInvFact DEF SlotOK, HeadOK, Listed
    <2>3. \A p \in Paths : p \in Installed <=> rt[p].installed
      BY <2>1, <2>2 DEF Installed
    <2>4. \A p \in Paths : Wanted(Table, p) = Entry(p, metric_to_kernel(route_metric(rt[p])))
      BY TableFact DEF Wanted
    <2>5. /\ \A e \in fib : \E p \in Paths :
               rt[p].installed /\ e = Entry(p, metric_to_kernel(route_metric(rt[p])))
          /\ ~KernelMayRefuse /\ ~IsDefault =>
               \A p \in Paths : rt[p].installed =>
                 Entry(p, metric_to_kernel(route_metric(rt[p]))) \in fib
      BY <2>1, <2>4, TableFact DEF KernelOK
    <2>6. Installed \subseteq Paths
      BY <2>1 DEF Installed
    <2> QED
      BY <2>3, <2>5, <2>6 DEF KernelMatches
  <1> QED
    BY <1>1, SoundInvariant, PTL

\* When the kernel obeys, update_route, update_route_metric and retract_route
\* never leave a usable route with the identity or sequence number of one
\* update and the metric of another.
THEOREM BelievesNeighbours ==
  ASSUME ~KernelMayRefuse
  PROVE  Spec => []AsAnnounced
  <1>1. Sound(Table) => AsAnnounced
    BY TableFact DEF Sound, ClaimsOK, Claim, AsAnnounced
  <1> QED
    BY <1>1, SoundInvariant, PTL

-----------------------------------------------------------------------------
(***************************************************************************)
(* Costs.  Each neighbour has one route to the destination, and the kernel *)
(* obeys.  A route that does not have the cost of its neighbour is waiting *)
(* for the walk in progress to come to it (Pending).  The walk of          *)
(* update_neighbour_metric may move routes to the head of the list and     *)
(* past its pointer; the one route that it looks for is not among them     *)
(* before it has been found.  update_interface_metric finds none: there    *)
(* are no routes through an interface that is down.                        *)
(***************************************************************************)

\* Outside S, u has the routes of t, with their metrics and costs.
Alters(t, u, S) ==
  /\ Listed(u) \ S = Listed(t) \ S
  /\ \A q \in Listed(t) \ S : /\ u.rt[q].refmetric = t.rt[q].refmetric
                              /\ u.rt[q].cost = t.rt[q].cost

\* Route p has metric m and cost c; it costs c if it is usable.
Measured(t, p, m, c) == t.rt[p].refmetric = m /\ t.rt[p].cost = c
Priced(t, p, c) == p \in Listed(t) /\ t.rt[p].refmetric < INFINITY => t.rt[p].cost = c

\* Operations one after the other, and those that only select and tell.
LEMMA AltersFact ==
  ASSUME NEW S
  PROVE  /\ \A t : Alters(t, t, S)
         /\ \A t, u, v : Alters(t, u, S) /\ Alters(u, v, S) => Alters(t, v, S)
         /\ \A t, u : SlotOK(t) /\ Follows(t, u) => Alters(t, u, S)
         /\ \A t, u, p, c : /\ SlotOK(t) /\ Follows(t, u) /\ Priced(t, p, c)
                            => Priced(u, p, c)
  <1>1. \A t : Alters(t, t, S)
    BY DEF Alters
  <1>2. \A t, u, v : Alters(t, u, S) /\ Alters(u, v, S) => Alters(t, v, S)
    BY DEF Alters
  <1>3. ASSUME NEW t, NEW u, SlotOK(t), Follows(t, u)
        PROVE  /\ Listed(u) = Listed(t)
               /\ \A q \in Listed(t) : /\ u.rt[q].refmetric = t.rt[q].refmetric
                                       /\ u.rt[q].cost = t.rt[q].cost
    <2>1. \A q \in Paths : /\ Claim(u, q).metric = u.rt[q].refmetric
                           /\ Claim(t, q).metric = t.rt[q].refmetric
      BY DEF Claim
    <2>2. Listed(u) = Listed(t) /\ Listed(t) \subseteq Paths
      BY <1>3, ListedPathsFact DEF Follows, SameRefs
    <2>3. \A q \in Paths : Claim(u, q) = Claim(t, q) /\ u.rt[q].cost = t.rt[q].cost
      BY <1>3 DEF Follows
    <2> QED
      BY <2>1, <2>2, <2>3
  <1>4. \A t, u : SlotOK(t) /\ Follows(t, u) => Alters(t, u, S)
    BY <1>3 DEF Alters
  <1>5. \A t, u, p, c : SlotOK(t) /\ Follows(t, u) /\ Priced(t, p, c) => Priced(u, p, c)
    BY <1>3 DEF Priced
  <1> QED
    BY <1>1, <1>2, <1>4, <1>5

\* Routes and list are left alone.
LEMMA UnalteredFact ==
  ASSUME NEW t, NEW u, u.rt = t.rt, u.list = t.list, NEW S
  PROVE  /\ Alters(t, u, S)
         /\ \A p, c : Priced(t, p, c) => Priced(u, p, c)
  BY DEF Alters, Priced, Listed

\* change_route_metric of route p to cost c.
LEMMA ChangeCosts ==
  ASSUME ~KernelMayRefuse, NEW t, SlotOK(t), NEW p \in Paths, NEW m \in Metric,
         NEW c \in Metric, NEW add \in Metric, NEW k, Obeys(k),
         NEW u, u = change_route_metric(t, p, m, c, add, k)
  PROVE  /\ SlotOK(u) /\ SameRefs(t, u) /\ Alters(t, u, {p})
         /\ Measured(u, p, m, c)
  <1>1. /\ SlotOK(u) /\ SameRefs(t, u)
        /\ \A q \in Paths \ {p} : Claim(u, q) = Claim(t, q) /\ u.rt[q].cost = t.rt[q].cost
        /\ Claim(u, p) = [Claim(t, p) EXCEPT !.metric = m]
        /\ u.rt[p].cost = c
    <2> DEFINE v == change_route_metric(t, p, m, c, add, k)
               claim == [Claim(t, p) EXCEPT !.metric = m]
    <2>1. /\ SlotOK(v) /\ SameRefs(t, v)
          /\ \A q \in Paths \ {p} : /\ Claim(v, q) = Claim(t, q)
                                   /\ v.rt[q].cost = t.rt[q].cost
          /\ ~KernelMayRefuse => Claim(v, p) = claim /\ v.rt[p].cost = c
      BY ChangeFact, SMTT(60)
    <2>2. u = v
      OBVIOUS
    <2> HIDE DEF v
    <2> QED
      BY <2>1, <2>2
  <1>2. /\ \A q \in Paths : /\ Claim(u, q).metric = u.rt[q].refmetric
                            /\ Claim(t, q).metric = t.rt[q].refmetric
        /\ [Claim(t, p) EXCEPT !.metric = m].metric = m
    BY DEF Claim
  <1>3. Listed(u) = Listed(t) /\ Listed(t) \subseteq Paths
    BY <1>1, ListedPathsFact DEF SameRefs
  <1>4. Alters(t, u, {p})
    BY <1>1, <1>2, <1>3 DEF Alters
  <1>5. u.rt[p].refmetric = m
    BY <1>1, <1>2
  <1>6. Measured(u, p, m, c)
    BY <1>1, <1>5 DEF Measured
  <1> QED
    BY <1>1, <1>4, <1>6

\* flush_route.
LEMMA FlushRouteCosts ==
  ASSUME NEW t, SlotOK(t), NEW p \in Listed(t), NEW k, Obeys(k)
  PROVE  Alters(t, flush_route(t, p, k), {p})
  <1> DEFINE r == t.rt[p]
             u == uninstall_route(t, p)
             v == [u EXCEPT !.list = Unlink(u.list, p), !.rt[p] = NoRoute]
             w == IF r.installed THEN route_lost(v, r.id, route_metric(r), k) ELSE v
             z == Released(w, r.id)
  <1>1. p \in Paths /\ r.id \in Ids /\ t.src[r.id] \in Source
    BY ListedFact
  <1>2. /\ SlotOK(u) /\ SameRefs(t, u) /\ u.list = t.list /\ u.src = t.src
        /\ ~u.rt[p].installed
    BY <1>1, UninstallFact
  <1>3. Alters(t, u, {p})
    BY <1>1, UninstallFollows, AltersFact
  <1>4. flush_route(t, p, k) = z
    BY DEF flush_route, Released
  <1>5. p \in Listed(u) /\ u \in Slot
    BY <1>2 DEF SameRefs, SlotOK
  <1> HIDE DEF u
  <1>6. /\ SlotOK(v) /\ Listed(v) = Listed(u) \ {p} /\ v.src = u.src
        /\ \A q \in Paths \ {p} : v.rt[q] = u.rt[q]
    BY <1>2, <1>5, UnlinkRouteFact
  <1> HIDE DEF v
  <1>7. Alters(u, v, {p})
    BY <1>2, <1>6, ListedPathsFact DEF Alters
  <1>8. v.src[r.id] # NoSource
    BY <1>1, <1>2, <1>6, SourceAssumption
  <1>9. Follows(v, w)
    BY <1>1, <1>6, <1>8, LostFollows, FollowsFact
  <1> HIDE DEF w
  <1>10. Alters(v, w, {p})
    BY <1>6, <1>9, AltersFact
  <1>11. SlotOK(w) /\ w.src[r.id] # NoSource
    BY <1>1, <1>8, <1>9 DEF Follows, SameRefs
  <1>12. z.list = w.list /\ z.rt = w.rt
    BY <1>1, <1>11, ReleaseFact
  <1> HIDE DEF z
  <1>13. Alters(w, z, {p})
    BY <1>12, UnalteredFact
  <1> QED
    BY <1>3, <1>4, <1>7, <1>10, <1>13, AltersFact

\* update_route_metric.
LEMMA UpdateMetricCosts ==
  ASSUME ~KernelMayRefuse, NEW t, SlotOK(t), NEW p \in Listed(t), NEW c \in Metric,
         NEW k, Obeys(k)
  PROVE  LET u == update_route_metric(t, p, c, k)
         IN  Alters(t, u, {p}) /\ Priced(u, p, c)
  <1> DEFINE r == t.rt[p]
             seqno == seqno_plus(t.src[r.id].seqno, 1)
             newer == [r EXCEPT !.seqno = seqno]
             t1 == [t EXCEPT !.rt[p].seqno = seqno]
             dead == retract_route(t1, p, k)
             live == change_route_metric(t, p, r.refmetric, c, AddMetric[p], k)
             end(v) == route_changed(v, p, r.id, route_metric(r), k)
             u == update_route_metric(t, p, c, k)
  <1>1. /\ t \in Slot /\ p \in Paths /\ r \in Route /\ r.id \in Ids
        /\ t.src[r.id] \in Source /\ t.rt \in [Paths -> Route]
    BY ListedFact, SlotFact
  <1>2. seqno \in Seqnos
    BY <1>1, SeqnoPlusFact DEF Source
  <1>3. u \in {dead, live, end(dead), end(live)} \/ (u = t /\ r.refmetric >= INFINITY)
    BY DEF update_route_metric
  <1>4. /\ SlotOK(live) /\ SameRefs(t, live) /\ Alters(t, live, {p})
        /\ Priced(live, p, c)
    <2>1. r.refmetric \in Metric /\ AddMetric[p] \in Metric
      BY <1>1, MetricAssumption DEF Route
    <2> DEFINE m == r.refmetric
               add == AddMetric[p]
    <2>2. live = change_route_metric(t, p, m, c, add, k)
      OBVIOUS
    <2>3. p \in Paths /\ m \in Metric /\ add \in Metric
      BY <1>1, <2>1
    <2> HIDE DEF live, m, add, seqno, newer, t1, dead, end, u, r
    <2>4. SlotOK(live)
      BY <2>2, <2>3, ChangeCosts
    <2>5. SameRefs(t, live)
      BY <2>2, <2>3, ChangeCosts
    <2>6. Alters(t, live, {p})
      BY <2>2, <2>3, ChangeCosts
    <2>7. Measured(live, p, m, c)
      BY <2>2, <2>3, ChangeCosts
    <2>8. Priced(live, p, c)
      BY <2>7 DEF Measured, Priced
    <2> QED
      BY <2>4, <2>5, <2>6, <2>8
  <1> HIDE DEF seqno
  <1>5. newer \in Route /\ newer.id = r.id /\ newer.installed = r.installed
    BY <1>1, <1>2 DEF Route
  <1>6. t1 = Stored(t, t.fib, p, newer)
    BY <1>1 DEF Stored, Slot
  <1> HIDE DEF newer, t1, live
  <1>7. SlotOK(t1) /\ SameRefs(t, t1) /\ \A q \in Paths \ {p} : t1.rt[q] = t.rt[q]
    <2>1. SlotOK(t1) /\ SameRefs(t, t1)
      BY <1>1, <1>5, <1>6, SlotFact, StoreSameFact
    <2>2. t1.rt = [t.rt EXCEPT ![p] = newer]
      BY <1>1, <1>5, <1>6, SlotFact, StoreFact
    <2> QED
      BY <1>1, <2>1, <2>2
  <1>8. Listed(t1) = Listed(t) /\ Listed(t) \subseteq Paths
    BY <1>7, ListedPathsFact DEF SameRefs
  <1>9. Alters(t, t1, {p})
    BY <1>7, <1>8 DEF Alters
  <1>10. INFINITY \in Metric /\ 0 \in Metric /\ ~(INFINITY < INFINITY)
    BY BoundsFact, MetricAssumption
  <1>11. /\ SlotOK(dead) /\ SameRefs(t1, dead) /\ Alters(t1, dead, {p})
         /\ dead.rt[p].refmetric = INFINITY
    <2>1. dead = change_route_metric(t1, p, INFINITY, INFINITY, 0, k)
      BY DEF retract_route
    <2> HIDE DEF dead
    <2>2. /\ SlotOK(dead) /\ SameRefs(t1, dead) /\ Alters(t1, dead, {p})
          /\ Measured(dead, p, INFINITY, INFINITY)
      BY <1>1, <1>7, <1>10, <2>1, ChangeCosts
    <2> QED
      BY <2>2 DEF Measured
  <1> HIDE DEF dead
  <1>12. p \in Listed(dead) /\ p \in Listed(live)
    BY <1>4, <1>8, <1>11 DEF SameRefs
  <1>13. Alters(t, dead, {p}) /\ Priced(dead, p, c) /\ Priced(live, p, c)
    BY <1>4, <1>9, <1>10, <1>11, AltersFact DEF Priced
  <1>14. ASSUME NEW v \in {dead, live}
         PROVE  Alters(t, end(v), {p}) /\ Priced(end(v), p, c)
    <2>1. SlotOK(v) /\ p \in Listed(v) /\ Alters(t, v, {p}) /\ Priced(v, p, c)
      BY <1>4, <1>11, <1>12, <1>13
    <2>2. Follows(v, end(v))
      BY <2>1, ChangedFollows
    <2> HIDE DEF end
    <2> QED
      BY <2>1, <2>2, AltersFact
  <1>15. r.refmetric >= INFINITY => Alters(t, t, {p}) /\ Priced(t, p, c)
    <2>1. r.refmetric \in Metric
      BY <1>1 DEF Route
    <2>2. r.refmetric >= INFINITY => ~(r.refmetric < INFINITY)
      BY <2>1, MetricAssumption DEF Metric
    <2> QED
      BY <2>2, AltersFact DEF Priced
  <1> HIDE DEF end, u
  <1>16. Alters(t, u, {p}) /\ Priced(u, p, c)
    BY <1>3, <1>4, <1>13, <1>14, <1>15
  <1> QED
    BY <1>16 DEF u

\* An update for a route of the list.
LEMMA UpdateKnownCosts ==
  ASSUME ~KernelMayRefuse, NEW t, SlotOK(t), NEW p \in Listed(t), NEW a \in Update,
         t.src[a.id] # NoSource, NEW c \in Metric, NEW k, Obeys(k)
  PROVE  LET u == UpdateKnownRoute(t, p, a, c, k)
         IN  Alters(t, u, {p}) /\ Priced(u, p, c)
  <1> DEFINE r == t.rt[p]
             oldmetric == route_metric(r)
             feasible == update_feasible(t.src[a.id], a.seqno, a.metric)
             lost == ~feasible /\ r.installed /\ a.id # r.id
             refreshed == (feasible \/ keep_unfeasible) /\ a.metric < INFINITY
             t1 == IF lost THEN uninstall_route(t, p) ELSE t
             age == IF refreshed THEN 0 ELSE r.age
             r2 == [t1.rt[p] EXCEPT !.id = a.id, !.seqno = a.seqno, !.age = age]
             t2 == Replaced(t1, p, a.id, r2)
             t3 == change_route_metric(t2, p, a.metric, c, AddMetric[p], k)
             t4 == route_changed(t3, p, r.id, oldmetric, k)
             t5 == IF lost THEN route_lost(t4, r.id, oldmetric, k) ELSE t4
             ask == send_unfeasible_request(
                      t5, NeighOf[p], t5.rt[p].installed /\ route_old(t5.rt[p]),
                      a.seqno, MIN(a.metric + c + AddMetric[p], INFINITY), a.id)
             t6 == IF feasible THEN t5 ELSE ask
             u == Released(t6, r.id)
             all == UpdateKnownRoute(t, p, a, c, k)
  <1>1. p \in Paths /\ r \in Route /\ r.id \in Ids /\ t.src[r.id] # NoSource
    BY ListedFact, SourceAssumption
  <1>2. a.id \in Ids /\ a.seqno \in Seqnos /\ a.metric \in Metric
        /\ AddMetric[p] \in Metric /\ NeighOf[p] \in Neighs
    BY <1>1, MetricAssumption, PathAssumption DEF Update
  <1>3. Follows(t, t1) /\ t1.src = t.src
    BY <1>1, UninstallFollows, UninstallFact, FollowsFact
  <1> HIDE DEF t1
  <1>4. SlotOK(t1) /\ SameRefs(t, t1) /\ Alters(t, t1, {p})
    BY <1>3, AltersFact DEF Follows
  <1>5. p \in Listed(t1) /\ t1.rt[p] \in Route /\ t1.src[a.id] # NoSource
    BY <1>2, <1>3, <1>4, ListedFact DEF SameRefs
  <1>6. age \in 0 .. MaxAge
    BY <1>1, BoundsFact DEF Route
  <1> HIDE DEF age
  <1>7. r2 \in Route
    BY <1>2, <1>5, <1>6, Zenon DEF Route
  <1>8. r2.id = a.id /\ r2.installed = t1.rt[p].installed
    BY <1>5, SMT DEF Route
  <1>9. all = u
    BY DEF UpdateKnownRoute, Replaced, Released, t1, age
  <1> HIDE DEF r2, all
  <1>10. /\ SlotOK(t2) /\ Listed(t2) = Listed(t1)
         /\ \A q \in Paths \ {p} : t2.rt[q] = t1.rt[q]
         /\ \A i \in Ids : t2.src[i] = NoSource <=> t1.src[i] = NoSource
    BY <1>4, <1>5, <1>7, <1>8, ReplaceFact
  <1> HIDE DEF t2
  <1>11. Alters(t1, t2, {p})
    BY <1>4, <1>10, ListedPathsFact DEF Alters
  <1>12. SlotOK(t3) /\ SameRefs(t2, t3) /\ Alters(t2, t3, {p}) /\ Priced(t3, p, c)
    <2> DEFINE m == a.metric
               add == AddMetric[p]
    <2>1. m \in Metric /\ add \in Metric
      BY <1>2
    <2>2. t3 = change_route_metric(t2, p, m, c, add, k)
      OBVIOUS
    <2> HIDE DEF m, add, t3
    <2>3. /\ SlotOK(t3) /\ SameRefs(t2, t3) /\ Alters(t2, t3, {p})
          /\ Measured(t3, p, m, c)
      BY <1>1, <1>10, <2>1, <2>2, ChangeCosts
    <2> QED
      BY <2>3 DEF Measured, Priced
  <1> HIDE DEF t3
  <1>13. p \in Listed(t3) /\ t3.src[r.id] # NoSource /\ t3.src[a.id] # NoSource
    BY <1>1, <1>2, <1>3, <1>5, <1>10, <1>12 DEF SameRefs
  <1>14. Follows(t3, t4)
    BY <1>12, <1>13, ChangedFollows
  <1> HIDE DEF t4
  <1>15. SlotOK(t4) /\ t4.src[r.id] # NoSource /\ t4.src[a.id] # NoSource
    BY <1>1, <1>2, <1>13, <1>14 DEF Follows, SameRefs
  <1>16. Follows(t4, t5)
    BY <1>1, <1>15, LostFollows, FollowsFact
  <1> HIDE DEF t5
  <1>17. SlotOK(t5) /\ t5.src[r.id] # NoSource /\ t5.src[a.id] # NoSource
    BY <1>1, <1>2, <1>15, <1>16 DEF Follows, SameRefs
  <1>18. Follows(t5, t6)
    BY <1>2, <1>17, RequestFollows, FollowsFact
  <1> HIDE DEF t6
  <1>19. Follows(t3, t6)
    BY <1>14, <1>16, <1>18, FollowsFact
  <1>20. SlotOK(t6) /\ t6.src[r.id] # NoSource
    BY <1>1, <1>13, <1>19 DEF Follows, SameRefs
  <1>21. u.list = t6.list /\ u.rt = t6.rt
    BY <1>1, <1>20, ReleaseFact
  <1> HIDE DEF u
  <1>22. Alters(t3, t6, {p}) /\ Priced(t6, p, c)
    BY <1>12, <1>19, AltersFact
  <1>23. Alters(t6, u, {p}) /\ Priced(u, p, c)
    BY <1>21, <1>22, UnalteredFact
  <1>24. Alters(t, u, {p})
    BY <1>4, <1>11, <1>12, <1>22, <1>23, AltersFact
  <1> QED
    BY <1>9, <1>23, <1>24 DEF all

\* An update for a route that is not in the list.
LEMMA UpdateNewCosts ==
  ASSUME NEW t, SlotOK(t), NEW p \in Paths, p \notin Listed(t), NEW a \in Update,
         t.src[a.id] # NoSource, NEW c \in Metric, NEW k, Obeys(k)
  PROVE  LET u == UpdateNewRoute(t, p, a, c, k)
         IN  Alters(t, u, {p}) /\ Priced(u, p, c)
  <1> DEFINE feasible == update_feasible(t.src[a.id], a.seqno, a.metric)
             metric == MIN(a.metric + c + AddMetric[p], INFINITY)
             ask == send_unfeasible_request(
                      t, NeighOf[p], FALSE, a.seqno, metric, a.id)
             t1 == IF feasible THEN t ELSE ask
             r == [id |-> a.id, seqno |-> a.seqno, refmetric |-> a.metric,
                   cost |-> c, add |-> AddMetric[p],
                   smoothed |-> Kept(MAX(metric, INFINITY \div 2)),
                   age |-> 0, installed |-> FALSE]
             t2 == Added(t1, p, a.id, r)
             u == consider_route(t2, p, k)
             end == UpdateNewRoute(t, p, a, c, k)
  <1>1. a.id \in Ids /\ a.seqno \in Seqnos /\ a.metric \in Metric
        /\ AddMetric[p] \in Metric /\ NeighOf[p] \in Neighs
    BY MetricAssumption, PathAssumption DEF Update
  <1>2. Follows(t, t1)
    BY <1>1, RequestFollows, FollowsFact
  <1>3. end \in {t, t1, u}
    BY DEF UpdateNewRoute, Added
  <1>4. metric \in Metric
    BY <1>1, SumFact
  <1> HIDE DEF t1, metric
  <1>5. Kept(MAX(metric, INFINITY \div 2)) \in Metric
    BY <1>4, BoundsFact DEF Kept
  <1>6. r \in Route
    BY <1>1, <1>5, BoundsFact DEF Route
  <1>7. r.id = a.id /\ ~r.installed /\ r.cost = c
    OBVIOUS
  <1> HIDE DEF feasible, r
  <1>8. SlotOK(t1) /\ p \notin Listed(t1) /\ t1.src[a.id] # NoSource
    BY <1>1, <1>2 DEF Follows, SameRefs
  <1>9. /\ SlotOK(t2) /\ Listed(t2) = Listed(t1) \cup {p}
        /\ t2.rt[p] = r /\ \A q \in Paths \ {p} : t2.rt[q] = t1.rt[q]
    BY <1>6, <1>7, <1>8, AddFact
  <1> HIDE DEF t2
  <1>10. Alters(t, t1, {p}) /\ Alters(t1, t2, {p}) /\ Priced(t2, p, c)
    <2>1. Alters(t, t1, {p})
      BY <1>2, AltersFact
    <2>2. Listed(t1) \subseteq Paths
      BY <1>8, ListedPathsFact
    <2> QED
      BY <1>7, <1>9, <2>1, <2>2 DEF Alters, Priced
  <1>11. Follows(t2, u)
    BY <1>9, ConsiderFollows
  <1> HIDE DEF u
  <1>12. Alters(t2, u, {p}) /\ Priced(u, p, c)
    BY <1>9, <1>10, <1>11, AltersFact
  <1>13. Alters(t, u, {p}) /\ Alters(t, t, {p})
    BY <1>10, <1>12, AltersFact
  <1>14. Priced(t, p, c) /\ Priced(t1, p, c)
    BY <1>8 DEF Priced
  <1> HIDE DEF end
  <1>15. Alters(t, end, {p}) /\ Priced(end, p, c)
    BY <1>3, <1>10, <1>12, <1>13, <1>14
  <1> QED
    BY <1>15 DEF end

\* update_route.
LEMMA UpdateRouteCosts ==
  ASSUME ~KernelMayRefuse, NEW t, SlotOK(t), RefsOK(t), NEW p \in Paths,
         NEW a \in Update, NEW c \in Metric, NEW k, Obeys(k)
  PROVE  LET u == update_route(t, p, a, c, k)
         IN  u = t \/ (Alters(t, u, {p}) /\ Priced(u, p, c))
  <1> DEFINE t1 == [t EXCEPT !.src = find_source(t.src, a.id, a.seqno)]
             known == UpdateKnownRoute(t1, p, a, c, k)
             new == UpdateNewRoute(t1, p, a, c, k)
             u == update_route(t, p, a, c, k)
  <1>1. u \in {t} \cup {v \in {known} : p \in Listed(t)} \cup {v \in {new} : p \notin Listed(t)}
    BY DEF update_route
  <1>2. a.id \in Ids /\ a.seqno \in Seqnos /\ t \in Slot
    BY DEF Update, SlotOK
  <1>3. SlotOK(t1) /\ Listed(t1) = Listed(t) /\ t1.src[a.id] # NoSource
    BY <1>2, FindSourceFact
  <1>4. t1.rt = t.rt /\ t1.list = t.list
    <2> DEFINE S == find_source(t.src, a.id, a.seqno)
    <2>1. t1 = [t EXCEPT !.src = S]
      OBVIOUS
    <2> HIDE DEF S, t1
    <2> QED
      BY <1>2, <2>1, SMT DEF Slot
  <1> HIDE DEF t1
  <1>5. Alters(t, t1, {p})
    BY <1>4, UnalteredFact
  <1>6. p \in Listed(t) => Alters(t1, known, {p}) /\ Priced(known, p, c)
    BY <1>3, UpdateKnownCosts
  <1>7. p \notin Listed(t) => Alters(t1, new, {p}) /\ Priced(new, p, c)
    <2> SUFFICES ASSUME p \notin Listed(t) PROVE Alters(t1, new, {p}) /\ Priced(new, p, c)
      OBVIOUS
    <2>1. p \notin Listed(t1)
      BY <1>3
    <2> QED
      BY <1>3, <2>1, UpdateNewCosts
  <1> HIDE DEF known, new, u
  <1>8. u = t \/ (Alters(t1, u, {p}) /\ Priced(u, p, c))
    BY <1>1, <1>6, <1>7
  <1>9. u = t \/ (Alters(t, u, {p}) /\ Priced(u, p, c))
    BY <1>5, <1>8, AltersFact
  <1> QED
    BY <1>9 DEF u

\* check_xroutes.
LEMMA CheckXroutesCosts ==
  ASSUME NEW t, SlotOK(t), RefsOK(t), NEW m \in Metric, NEW prio, NEW k, Obeys(k)
  PROVE  Alters(t, check_xroutes(t, m, prio, k), {})
  <1>1. ASSUME NEW s, SlotOK(s), RefsOK(s)
        PROVE  Alters(s, FlushXroute(s, k), {})
    <2> DEFINE u == [s EXCEPT !.xroute = INFINITY]
               b == find_best_route(u)
               v == IF b = NoPath THEN u ELSE install_route(u, b, k)
               w == send_update_resend(v, k)
    <2>1. FlushXroute(s, k) = w
      BY DEF FlushXroute
    <2>2. INFINITY \in Metric /\ ~(INFINITY < INFINITY)
      BY BoundsFact, MetricAssumption
    <2>3. SlotOK(u) /\ u.list = s.list /\ u.rt = s.rt /\ u.xroute = INFINITY
      BY <1>1, <2>2, XrouteFact
    <2> HIDE DEF u
    <2>4. Follows(u, v)
      <3>1. CASE b = NoPath
        BY <2>3, <3>1, FollowsFact
      <3>2. CASE b # NoPath
        <4>1. b \in Listed(u)
          BY <2>3, <3>2, BestFact DEF SlotOK
        <4>2. ~(allow_duplicates < 0 /\ u.xroute < INFINITY)
          BY <2>2, <2>3
        <4> QED
          BY <2>3, <3>2, <4>1, <4>2, InstallFollows
      <3> QED
        BY <3>1, <3>2
    <2> HIDE DEF v
    <2>5. Follows(v, w) /\ SlotOK(v)
      BY <2>4, SendFollows DEF Follows
    <2> HIDE DEF w
    <2>6. Alters(s, u, {})
      BY <2>3, UnalteredFact
    <2> QED
      BY <2>1, <2>3, <2>4, <2>5, <2>6, AltersFact
  <1>2. ASSUME NEW s, SlotOK(s), RefsOK(s)
        PROVE  Alters(s, AddXroute(s, m, prio, k), {})
    <2> DEFINE u == [s EXCEPT !.xroute = m]
               p == find_installed_route(s)
               out == uninstall_route(s, p)
               v == [out EXCEPT !.xroute = m]
    <2>1. s \in Slot /\ HeadOK(s)
      BY <1>2 DEF SlotOK
    <2>2. u.list = s.list /\ u.rt = s.rt
      BY <2>1, SMT DEF Slot
    <2>3. find_installed_route(u) = p
      <3> HIDE DEF u
      <3> QED
        BY <2>2 DEF find_installed_route
    <2>4. p # NoPath => p \in Paths /\ s.rt[p].installed
      BY <2>1, InstalledFact
    <2>5. p = NoPath => \A q \in Paths : ~s.rt[q].installed
      BY <2>1, PathAssumption DEF HeadOK, find_installed_route
    <2>6. p # NoPath => uninstall_route(u, p) = v
      BY <2>1, <2>4, UninstallCommutes
    <2>7. AddXroute(s, m, prio, k) \in
            {s} \cup {send_update(w, k) : w \in
                        {w \in {v} : p # NoPath} \cup
                        {w \in {u} : p = NoPath \/ ~(allow_duplicates < 0)}}
      <3> HIDE DEF v, p
      <3> QED
        BY <2>3, <2>6 DEF AddXroute
    <2>8. p # NoPath => SlotOK(v) /\ Alters(s, v, {})
      <3> SUFFICES ASSUME p # NoPath PROVE SlotOK(v) /\ Alters(s, v, {})
        OBVIOUS
      <3>1. Follows(s, out) /\ SameRefs(s, out) /\ \A q \in Paths : ~out.rt[q].installed
        BY <1>2, <2>4, UninstallFact, UninstallFollows
      <3> HIDE DEF out
      <3>2. RefsOK(out) /\ SlotOK(out)
        BY <1>2, <3>1, SameRefsOK DEF Follows
      <3>3. SlotOK(v) /\ v.list = out.list /\ v.rt = out.rt
        BY <3>1, <3>2, XrouteFact
      <3> HIDE DEF v
      <3>4. Alters(s, out, {}) /\ Alters(out, v, {})
        BY <1>2, <3>1, <3>3, AltersFact, UnalteredFact
      <3> QED
        BY <3>3, <3>4, AltersFact
    <2>9. p = NoPath \/ ~(allow_duplicates < 0) => SlotOK(u) /\ Alters(s, u, {})
      <3>1. Alters(s, u, {})
        <4> HIDE DEF u
        <4> QED
          BY <2>2, UnalteredFact
      <3>2. p = NoPath \/ ~(allow_duplicates < 0) => SlotOK(u)
        BY <1>2, <2>5, XrouteFact
      <3> QED
        BY <3>1, <3>2
    <2> HIDE DEF u, v, p
    <2>10. ASSUME NEW w, SlotOK(w), Alters(s, w, {})
           PROVE  Alters(s, send_update(w, k), {})
      <3>1. Follows(w, send_update(w, k))
        BY <2>10, SendFollows
      <3> QED
        BY <2>10, <3>1, AltersFact
    <2>11. Alters(s, s, {})
      BY AltersFact
    <2> QED
      BY <2>7, <2>8, <2>9, <2>10, <2>11
  <1> DEFINE f == FlushXroute(t, k)
             u == IF t.xroute < INFINITY /\ m # t.xroute THEN f ELSE t
             v == AddXroute(u, m, prio, k)
  <1>3. check_xroutes(t, m, prio, k) \in {u, v}
    BY DEF check_xroutes
  <1>4. SlotOK(f) /\ RefsOK(f) /\ Alters(t, f, {})
    BY <1>1, FlushXrouteFact
  <1> HIDE DEF f
  <1>5. SlotOK(u) /\ RefsOK(u) /\ Alters(t, u, {})
    BY <1>4, AltersFact
  <1> HIDE DEF u
  <1>6. Alters(u, v, {})
    BY <1>2, <1>5
  <1> HIDE DEF v
  <1> QED
    BY <1>3, <1>5, <1>6, AltersFact

-----------------------------------------------------------------------------
(* The routes that wait for a walk. *)

\* Path p is at the pointer of the walk, or after it.
Ahead(p) == \E i, j \in DOMAIN list : list[i] = job.at /\ list[j] = p /\ i <= j

\* The walk in progress will come to route p and change it.
Pending(p) == job.kind \in {"metric", "flush"} /\ NeighOf[p] \in job.neighs /\ Ahead(p)

\* Route p has the cost of its neighbour, or is not usable.
HasCost(p) == rt[p].refmetric < INFINITY => rt[p].cost = cost[NeighOf[p]]

CostsOK ==
  /\ \A p \in Listed(Table) : HasCost(p) \/ Pending(p)
  /\ \A p \in Listed(Table) :
       IfOf[NeighOf[p]] \notin up => job.kind = "flush" /\ Pending(p)
  /\ job.kind = "metric" =>
       \A p, q \in Listed(Table) :
         NeighOf[p] \in job.neighs /\ NeighOf[q] \in job.neighs => p = q

\* No route waits, and there is none through an interface that is down.
Settled(S) ==
  \A p \in Listed(Table) \ S : HasCost(p) /\ IfOf[NeighOf[p]] \in up

\* When no walk that routes wait for is in progress.
LEMMA SettledFact ==
  ASSUME CostsOK
  PROVE  /\ job.kind \notin {"metric", "flush"} => Settled({})
         /\ job = Idle => Settled({})
         /\ job.kind = "metric" =>
              \A p \in Listed(Table) : NeighOf[p] \in job.neighs => Settled({p})
  <1>1. job.kind \notin {"metric", "flush"} => Settled({})
    BY DEF CostsOK, Pending, Settled
  <1>2. job = Idle => job.kind = "idle"
    BY DEF Idle
  <1>3. ASSUME job.kind = "metric", NEW p \in Listed(Table), NeighOf[p] \in job.neighs
        PROVE  Settled({p})
    BY <1>3 DEF CostsOK, Pending, Settled
  <1> QED
    BY <1>1, <1>2, <1>3

\* A step that leaves no route waiting.
LEMMA SettleFact ==
  ASSUME NEW S, Settled(S), UNCHANGED <<up, cost>>,
         NEW t, list' = t.list, rt' = t.rt, Alters(Table, t, S),
         \A p \in S : /\ Priced(t, p, cost[NeighOf[p]])
                      /\ p \in Listed(t) => IfOf[NeighOf[p]] \in up,
         job'.kind = "metric" =>
           \A p, q \in Listed(t) :
             NeighOf[p] \in job'.neighs /\ NeighOf[q] \in job'.neighs => p = q
  PROVE  CostsOK'
  <1>1. Listed(Table') = Listed(t) /\ Listed(Table)' = Listed(Table')
    BY DEF Listed, Table
  <1>2. ASSUME NEW p \in Listed(t)
        PROVE  HasCost(p)' /\ IfOf[NeighOf[p]] \in up'
    <2>1. CASE p \in S
      BY <2>1 DEF Priced, HasCost
    <2>2. CASE p \notin S
      BY <2>2, TableFact DEF Alters, Settled, HasCost
    <2> QED
      BY <2>1, <2>2
  <1> QED
    BY <1>1, <1>2 DEF CostsOK

\* A walk that starts.
LEMMA StartCosts ==
  ASSUME IInv, UNCHANGED <<list, rt>>, Settled({}),
         NEW kind, NEW neighs, NEW ifs, job' = Walk(kind, neighs, ifs),
         \A p \in Listed(Table) :
           \/ /\ cost'[NeighOf[p]] = cost[NeighOf[p]]
              /\ IfOf[NeighOf[p]] \in up'
           \/ kind = "flush" /\ NeighOf[p] \in neighs
           \/ /\ kind = "metric" /\ NeighOf[p] \in neighs
              /\ IfOf[NeighOf[p]] \in up',
         kind = "metric" =>
           \A p, q \in Listed(Table) : NeighOf[p] \in neighs /\ NeighOf[q] \in neighs => p = q
  PROVE  CostsOK'
  <1>1. Listed(Table)' = Listed(Table) /\ list \in Seq(Paths)
    BY IInvFact DEF Listed, Table
  <1>2. CASE list = << >>
    <2>1. Listed(Table) = {}
      BY <1>2, TableFact DEF Listed
    <2> QED
      BY <1>1, <2>1 DEF CostsOK
  <1>3. CASE list # << >>
    <2>1. job' = [kind |-> kind, neighs |-> neighs, at |-> list[1], ifs |-> ifs]
      BY <1>3 DEF Walk
    <2>2. job'.kind = kind /\ job'.neighs = neighs /\ job'.at = list[1]
      BY <2>1
    <2>3. ASSUME NEW p \in Listed(Table) PROVE Ahead(p)'
      <3>1. PICK j \in DOMAIN list : list[j] = p
        BY TableFact DEF Listed
      <3>2. 1 \in DOMAIN list /\ 1 <= j
        BY <1>1, <1>3, <3>1
      <3> QED
        BY <2>2, <3>1, <3>2 DEF Ahead
    <2>4. ASSUME NEW p \in Listed(Table)
          PROVE  /\ HasCost(p)' \/ Pending(p)'
                 /\ IfOf[NeighOf[p]] \notin up' => kind = "flush" /\ Pending(p)'
      <3>1. CASE cost'[NeighOf[p]] = cost[NeighOf[p]] /\ IfOf[NeighOf[p]] \in up'
        BY <3>1 DEF Settled, HasCost
      <3>2. CASE kind = "flush" /\ NeighOf[p] \in neighs
        BY <2>2, <2>3, <3>2 DEF Pending
      <3>3. CASE kind = "metric" /\ NeighOf[p] \in neighs /\ IfOf[NeighOf[p]] \in up'
        BY <2>2, <2>3, <3>3 DEF Pending
      <3> QED
        BY <3>1, <3>2, <3>3
    <2> QED
      BY <1>1, <2>2, <2>4 DEF CostsOK
  <1> QED
    BY <1>2, <1>3

\* An iteration that finds a route of another neighbour.
LEMMA PassFact ==
  ASSUME IInv, CostsOK, job.kind \in {"metric", "flush"},
         NeighOf[job.at] \notin job.neighs, Visit(Table), UNCHANGED <<up, cost>>
  PROVE  CostsOK'
  <1>1. list \in Seq(Paths) /\ NoDuplicate(list) /\ job.at \in Listed(Table)
        /\ Listed(Table) \subseteq Paths
    BY IInvFact, TableFact, ListedPathsFact DEF SlotOK, JobOK
  <1>2. list' = list /\ rt' = rt /\ GoesOn(NextInList(list, job.at))
    BY TableFact DEF Visit, Becomes
  <1>3. Listed(Table)' = Listed(Table)
    BY <1>2 DEF Listed, Table
  <1> DEFINE i == Position(list, job.at)
             next == NextInList(list, job.at)
  <1>4. i \in 1 .. Len(list) /\ list[i] = job.at
    BY <1>1, TableFact, PositionFact DEF Listed
  <1>5. next = IF i < Len(list) THEN list[i + 1] ELSE NoPath
    BY DEF NextInList
  <1> HIDE DEF i, next
  <1>6. job \in [kind : Jobs, neighs : SUBSET Neighs, at : Paths \cup {NoPath},
                 ifs : SUBSET up]
    BY IInvFact DEF JobOK
  <1>7. job'.kind = "metric" => job.kind = "metric" /\ job'.neighs = job.neighs
    <2>1. CASE next = NoPath
      <3>1. job'.kind \in {"idle", "request"}
        BY <1>2, <2>1, AfterFact DEF GoesOn, next
      <3> QED
        BY <3>1
    <2>2. CASE next # NoPath
      BY <1>2, <1>6, <2>2 DEF GoesOn, next
    <2> QED
      BY <2>1, <2>2
  <1>8. ASSUME NEW p \in Listed(Table), Pending(p)
        PROVE  Pending(p)' /\ job'.kind = job.kind
    <2>1. PICK m, n \in DOMAIN list : list[m] = job.at /\ list[n] = p /\ m <= n
      BY <1>8 DEF Pending, Ahead
    <2>2. m = i /\ p # job.at
      BY <1>1, <1>4, <1>8, <2>1 DEF NoDuplicate, Pending
    <2>3. i < n /\ n \in 1 .. Len(list) /\ i \in Nat
      BY <1>1, <1>4, <2>1, <2>2
    <2>4. next = list[i + 1] /\ i + 1 \in DOMAIN list /\ i + 1 <= n
      BY <1>1, <1>4, <1>5, <2>3
    <2>5. next \in Paths
      BY <1>1, <2>4
    <2>6. job' = [job EXCEPT !.at = next]
      BY <1>2, <2>5, PathAssumption DEF GoesOn, next
    <2>7. job'.at = next /\ job'.kind = job.kind /\ job'.neighs = job.neighs
      BY <1>6, <2>6
    <2>8. Ahead(p)'
      BY <1>2, <2>1, <2>4, <2>7 DEF Ahead
    <2> QED
      BY <1>8, <2>7, <2>8 DEF Pending
  <1>9. \A p \in Listed(Table) : HasCost(p) => HasCost(p)'
    BY <1>2 DEF HasCost
  <1> QED
    BY <1>3, <1>7, <1>8, <1>9 DEF CostsOK

\* An iteration that flushes its route.
LEMMA RestartFact ==
  ASSUME IInv, CostsOK, job.kind \in {"flush", "expire"}, NEW k \in Answers,
         FlushAndRestart(k), UNCHANGED <<up, cost>>
  PROVE  CostsOK'
  <1> DEFINE x == job.at
             t == flush_route(Table, x, k)
             head == IF t.list = << >> THEN NoPath ELSE t.list[1]
  <1>1. x \in Listed(Table) /\ SlotOK(Table) /\ RefsOK(Table) /\ Obeys(k)
        /\ Listed(Table) \subseteq Paths
    BY IInvFact, ListedPathsFact, AnswersFact DEF JobOK
  <1>2. Becomes(t) /\ GoesOn(head)
    BY DEF FlushAndRestart
  <1>3. SlotOK(t) /\ Listed(t) = Listed(Table) \ {x}
    BY <1>1, FlushRouteFact
  <1>4. Alters(Table, t, {x})
    BY <1>1, FlushRouteCosts
  <1> HIDE DEF t
  <1>5. t.list \in Seq(Paths) /\ list' = t.list /\ rt' = t.rt
    BY <1>2, <1>3, SlotFact DEF SlotOK, Becomes
  <1>6. Listed(Table)' = Listed(t)
    BY <1>5 DEF Listed, Table
  <1>7. job \in [kind : Jobs, neighs : SUBSET Neighs, at : Paths \cup {NoPath},
                 ifs : SUBSET up]
    BY IInvFact DEF JobOK
  <1>8. \A p \in Listed(t) : HasCost(p) => HasCost(p)'
    BY <1>3, <1>4, <1>5, TableFact DEF Alters, HasCost
  <1>9. CASE t.list = << >>
    <2>1. Listed(t) = {}
      BY <1>9 DEF Listed
    <2> QED
      BY <1>6, <2>1 DEF CostsOK
  <1>10. CASE t.list # << >>
    <2>1. head = t.list[1] /\ head \in Paths /\ 1 \in DOMAIN t.list
      BY <1>5, <1>10
    <2>2. job' = [job EXCEPT !.at = head]
      BY <1>2, <2>1, PathAssumption DEF GoesOn
    <2> HIDE DEF head
    <2>3. job'.at = head /\ job'.kind = job.kind /\ job'.neighs = job.neighs
      BY <1>7, <2>2
    <2>4. \A p \in Listed(t) : Ahead(p)'
      <3> SUFFICES ASSUME NEW p \in Listed(t) PROVE Ahead(p)'
        OBVIOUS
      <3>1. PICK j \in DOMAIN t.list : t.list[j] = p
        BY DEF Listed
      <3>2. 1 <= j
        BY <1>5, <3>1
      <3> QED
        BY <1>5, <2>1, <2>3, <3>1, <3>2 DEF Ahead
    <2>5. \A p \in Listed(t) : Pending(p) => Pending(p)'
      BY <2>3, <2>4 DEF Pending
    <2> QED
      BY <1>3, <1>6, <1>8, <2>3, <2>5 DEF CostsOK
  <1> QED
    BY <1>9, <1>10

\* One iteration of a walk.
LEMMA WalkCosts ==
  ASSUME ~KernelMayRefuse, IInv, CostsOK, WalkStep
  PROVE  CostsOK'
  <1>1. UNCHANGED <<up, cost>> /\ SlotOK(Table) /\ Listed(Table) \subseteq Paths
        /\ RefsOK(Table)
    BY IInvFact, ListedPathsFact DEF WalkStep
  <1>2. ASSUME NEW k \in Answers, NEW x \in Listed(Table), x = job.at, Settled({x}),
               IfOf[NeighOf[x]] \in up,
               NEW t, Visit(t), Listed(t) = Listed(Table),
               Alters(Table, t, {x}), Priced(t, x, cost[NeighOf[x]]),
               job.kind = "metric" => NeighOf[x] \in job.neighs
        PROVE  CostsOK'
    <2>1. list' = t.list /\ rt' = t.rt /\ GoesOn(NextInList(t.list, job.at))
      BY <1>2 DEF Visit, Becomes
    <2>2. job'.kind = "metric" => job.kind = "metric" /\ job'.neighs = job.neighs
      <3> DEFINE next == NextInList(t.list, job.at)
      <3>1. CASE next = NoPath
        <4>1. job'.kind \in {"idle", "request"}
          BY <2>1, <3>1, AfterFact DEF GoesOn
        <4> QED
          BY <4>1
      <3>2. CASE next # NoPath
        BY <2>1, <3>2, IInvFact DEF GoesOn, JobOK
      <3> QED
        BY <3>1, <3>2
    <2>3. job'.kind = "metric" =>
            \A p, q \in Listed(t) :
              NeighOf[p] \in job'.neighs /\ NeighOf[q] \in job'.neighs => p = q
      BY <1>2, <2>2 DEF CostsOK
    <2> QED
      BY <1>1, <1>2, <2>1, <2>3, SettleFact
  <1>3. ASSUME NEW k \in Answers, MetricStep(k)
        PROVE  CostsOK'
    <2> DEFINE x == job.at
               c == cost[NeighOf[x]]
               t == update_route_metric(Table, x, c, k)
    <2>1. job.kind = "metric" /\ x \in Listed(Table) /\ Obeys(k)
      BY <1>3, IInvFact, AnswersFact DEF MetricStep, JobOK
    <2>2. CASE NeighOf[x] \in job.neighs
      <3>1. c \in Metric
        BY <1>1, <2>1, IInvFact, PathAssumption
      <3>2. Visit(t)
        BY <1>3, <2>2 DEF MetricStep
      <3>3. Alters(Table, t, {x}) /\ Priced(t, x, c) /\ Listed(t) = Listed(Table)
        BY <1>1, <2>1, <3>1, UpdateMetricCosts, UpdateMetricFact DEF SameRefs
      <3> HIDE DEF t
      <3>4. Settled({x})
        BY <2>1, <2>2, SettledFact
      <3>5. IfOf[NeighOf[x]] \in up
        BY <2>1 DEF CostsOK
      <3> QED
        BY <1>2, <2>1, <2>2, <3>2, <3>3, <3>4, <3>5
    <2>3. CASE NeighOf[x] \notin job.neighs
      <3>1. Visit(Table)
        BY <1>3, <2>3 DEF MetricStep
      <3> QED
        BY <1>1, <2>1, <2>3, <3>1, PassFact
    <2> QED
      BY <2>2, <2>3
  <1>4. ASSUME NEW k \in Answers, RetractStep(k)
        PROVE  CostsOK'
    <2> DEFINE x == job.at
               id == rt[x].id
               m == route_metric(rt[x])
               c == cost[NeighOf[x]]
               t == retract_route(Table, x, k)
               u == route_changed(t, x, id, m, k)
    <2>1. job.kind = "retract" /\ x \in Listed(Table) /\ Obeys(k) /\ x \in Paths
      BY <1>1, <1>4, IInvFact, AnswersFact DEF RetractStep, JobOK
    <2>2. Visit(t) \/ Visit(u) \/ Visit(Table)
      BY <1>4 DEF RetractStep
    <2>3. Settled({})
      BY <2>1, SettledFact
    <2>4. HasCost(x) /\ IfOf[NeighOf[x]] \in up /\ Settled({x})
      BY <2>1, <2>3 DEF Settled
    <2>5. INFINITY \in Metric /\ 0 \in Metric /\ ~(INFINITY < INFINITY)
      BY BoundsFact, MetricAssumption
    <2> HIDE DEF id, m
    <2>6. /\ SlotOK(t) /\ SameRefs(Table, t) /\ Alters(Table, t, {x})
          /\ t.rt[x].refmetric = INFINITY
      <3>1. t = change_route_metric(Table, x, INFINITY, INFINITY, 0, k)
        BY DEF retract_route
      <3> HIDE DEF t, x
      <3>2. /\ SlotOK(t) /\ SameRefs(Table, t) /\ Alters(Table, t, {x})
            /\ Measured(t, x, INFINITY, INFINITY)
        BY <1>1, <2>1, <2>5, <3>1, ChangeCosts
      <3> QED
        BY <3>2 DEF Measured
    <2> HIDE DEF t
    <2>7. Listed(t) = Listed(Table) /\ Priced(t, x, c)
      BY <2>5, <2>6 DEF SameRefs, Priced
    <2>8. Follows(t, u)
      BY <2>1, <2>6, <2>7, ChangedFollows
    <2> HIDE DEF u
    <2>9. Listed(u) = Listed(Table) /\ Alters(Table, u, {x}) /\ Priced(u, x, c)
      BY <2>6, <2>7, <2>8, AltersFact DEF Follows, SameRefs
    <2>10. Alters(Table, Table, {x}) /\ Priced(Table, x, c)
      BY <2>4, AltersFact, TableFact DEF HasCost, Priced
    <2> QED
      BY <1>2, <2>1, <2>2, <2>4, <2>6, <2>7, <2>9, <2>10
  <1>5. ASSUME NEW k \in Answers, FlushStep(k)
        PROVE  CostsOK'
    <2>1. job.kind = "flush"
          /\ (FlushAndRestart(k) \/ (NeighOf[job.at] \notin job.neighs /\ Visit(Table)))
      BY <1>5 DEF FlushStep
    <2> QED
      BY <1>1, <2>1, RestartFact, PassFact
  <1>6. ASSUME NEW k \in Answers, ExpireStep(k)
        PROVE  CostsOK'
    <2> DEFINE x == job.at
               c == cost[NeighOf[x]]
               t == update_route_metric(Table, x, c, k)
    <2>1. job.kind = "expire" /\ x \in Listed(Table) /\ Obeys(k) /\ c \in Metric
      BY <1>1, <1>6, IInvFact, PathAssumption, AnswersFact DEF ExpireStep, JobOK
    <2>2. FlushAndRestart(k) \/ Visit(t)
      BY <1>6 DEF ExpireStep
    <2>3. IfOf[NeighOf[x]] \in up /\ Settled({x})
      BY <2>1, SettledFact DEF Settled
    <2>4. Alters(Table, t, {x}) /\ Priced(t, x, c) /\ Listed(t) = Listed(Table)
      BY <1>1, <2>1, UpdateMetricCosts, UpdateMetricFact DEF SameRefs
    <2> HIDE DEF t
    <2> QED
      BY <1>1, <1>2, <2>1, <2>2, <2>3, <2>4, RestartFact
  <1>7. ASSUME RequestStep
        PROVE  CostsOK'
    <2> PICK all \in BOOLEAN :
          LET ours == find_installed_route(Table) # NoPath \/ xroute < INFINITY
              t == [Table EXCEPT !.update =
                      @ \cup IF all /\ ours THEN job.ifs ELSE {}]
          IN  Becomes(flushupdates(t, job.ifs))
      BY <1>7 DEF RequestStep
    <2> DEFINE ours == find_installed_route(Table) # NoPath \/ xroute < INFINITY
               new == Table.update \cup IF all /\ ours THEN job.ifs ELSE {}
               t == [Table EXCEPT !.update = new]
               u == flushupdates(t, job.ifs)
    <2>1. Becomes(u)
      OBVIOUS
    <2>2. new \in SUBSET Table.up
      BY IInvFact, TableFact DEF JobOK
    <2> HIDE DEF new
    <2>3. Follows(Table, t)
      <3>1. Table.resend \in 0 .. RESEND_MAX /\ SlotOK(Table)
            /\ Table.asked \in SUBSET [to : SUBSET Neighs, id : Ids, seqno : Seqnos]
        BY IInvFact, SlotFact
      <3> QED
        BY <2>2, <3>1, BuffersFollow
    <2> HIDE DEF t
    <2>4. Follows(t, u)
      BY <2>3, FlushFollows DEF Follows
    <2> HIDE DEF u
    <2>5. Alters(Table, u, {})
      BY <1>1, <2>3, <2>4, FollowsFact, AltersFact
    <2>6. job.kind = "request" /\ job' = Idle
      BY <1>7 DEF RequestStep
    <2>7. Settled({}) /\ job'.kind = "idle"
      BY <2>6, SettledFact DEF Idle
    <2>8. list' = u.list /\ rt' = u.rt
      BY <2>1 DEF Becomes
    <2> QED
      BY <1>1, <2>5, <2>7, <2>8, SettleFact
  <1> QED
    BY <1>3, <1>4, <1>5, <1>6, <1>7 DEF WalkStep

\* Handlers that do not walk.
LEMMA HandlersCosts ==
  ASSUME ~KernelMayRefuse, IInv, CostsOK,
         \/ \E p \in Paths, a \in Announced : ReceiveUpdate(p, a)
         \/ \E m \in Exported \cup {INFINITY} : CheckXroutes(m)
         \/ \E i \in Ifaces : SendUpdate(i) \/ FlushUpdates(i)
         \/ DoResend \/ ExpireSources
  PROVE  CostsOK'
  <1>1. job = Idle /\ UNCHANGED <<up, cost, job>>
    BY DEF ReceiveUpdate, CheckXroutes, SendUpdate, FlushUpdates, DoResend, ExpireSources
  <1>2. Settled({}) /\ job'.kind = "idle" /\ SlotOK(Table) /\ RefsOK(Table)
    BY <1>1, SettledFact, IInvFact DEF Idle
  <1>3. ASSUME NEW t, list' = t.list, rt' = t.rt, Alters(Table, t, {})
        PROVE  CostsOK'
    BY <1>1, <1>2, <1>3, SettleFact
  <1>4. ASSUME NEW p \in Paths, NEW a \in Announced, ReceiveUpdate(p, a)
        PROVE  CostsOK'
    <2> PICK k \in Answers : Becomes(update_route(Table, p, a, cost[NeighOf[p]], k))
      BY <1>4 DEF ReceiveUpdate
    <2> DEFINE c == cost[NeighOf[p]]
               t == update_route(Table, p, a, c, k)
    <2>1. c \in Metric /\ Obeys(k) /\ a \in Update /\ IfOf[NeighOf[p]] \in up
      BY <1>4, IInvFact, PathAssumption, AnswersFact, RibAssumption DEF ReceiveUpdate
    <2>2. list' = t.list /\ rt' = t.rt
      BY DEF Becomes
    <2>3. t = Table \/ (Alters(Table, t, {p}) /\ Priced(t, p, c))
      BY <1>2, <2>1, UpdateRouteCosts
    <2> HIDE DEF t
    <2>4. CASE t = Table
      BY <1>3, <2>2, <2>4, AltersFact
    <2>5. CASE Alters(Table, t, {p}) /\ Priced(t, p, c)
      <3>1. Settled({p})
        BY <1>2 DEF Settled
      <3> QED
        BY <1>1, <1>2, <2>1, <2>2, <2>5, <3>1, SettleFact
    <2> QED
      BY <2>3, <2>4, <2>5
  <1>5. ASSUME NEW m \in Exported \cup {INFINITY}, CheckXroutes(m)
        PROVE  CostsOK'
    <2> PICK k \in Answers : Becomes(check_xroutes(Table, m, ExportedPrio, k))
      BY <1>5 DEF CheckXroutes
    <2> DEFINE t == check_xroutes(Table, m, ExportedPrio, k)
    <2>1. m \in Metric /\ Obeys(k)
      BY RibAssumption, MetricAssumption, AnswersFact DEF Metric
    <2>2. list' = t.list /\ rt' = t.rt
      BY DEF Becomes
    <2>3. Alters(Table, t, {})
      BY <1>2, <2>1, CheckXroutesCosts
    <2> HIDE DEF t
    <2> QED
      BY <1>3, <2>2, <2>3
  <1>6. ASSUME NEW i \in Ifaces, FlushUpdates(i)
        PROVE  CostsOK'
    <2> DEFINE t == flushupdates(Table, {i})
    <2>1. list' = t.list /\ rt' = t.rt
      BY <1>6 DEF FlushUpdates, Becomes
    <2>2. Alters(Table, t, {})
      BY <1>2, FlushFollows, AltersFact
    <2> HIDE DEF t
    <2> QED
      BY <1>3, <2>1, <2>2
  <1>7. CASE DoResend
    <2> PICK k \in Answers : Becomes([send_update(Table, k) EXCEPT !.resend = @ - 1])
      BY <1>7 DEF DoResend
    <2> DEFINE u == send_update(Table, k)
               t == [u EXCEPT !.resend = u.resend - 1]
    <2>1. list' = t.list /\ rt' = t.rt
      BY DEF Becomes
    <2>2. Follows(Table, u)
      BY <1>2, SendFollows
    <2> HIDE DEF u
    <2>3. Alters(Table, u, {}) /\ u \in Slot
      BY <1>2, <2>2, AltersFact DEF Follows, SlotOK
    <2>4. t.list = u.list /\ t.rt = u.rt
      BY <2>3, SMT DEF Slot
    <2> HIDE DEF t
    <2> QED
      BY <1>3, <2>1, <2>3, <2>4
  <1>8. CASE ExpireSources \/ \E i \in Ifaces : SendUpdate(i)
    <2>1. list' = Table.list /\ rt' = Table.rt
      BY <1>8, TableFact DEF ExpireSources, SendUpdate
    <2> QED
      BY <1>3, <2>1, AltersFact
  <1> QED
    BY <1>4, <1>5, <1>6, <1>7, <1>8

\* Handlers that walk, when every neighbour has one route.
LEMMA StartsCosts ==
  ASSUME \A p, q \in Paths : NeighOf[p] = NeighOf[q] => p = q, IInv, CostsOK,
         \/ \E i \in Ifaces : InterfaceDown(i) \/ InterfaceUp(i)
         \/ \E n \in Neighs : \/ \E c \in Costs : CostChange(n, c)
                              \/ WildcardRetraction(n)
                              \/ FlushNeighbour(n)
         \/ ExpireRoutes
  PROVE  CostsOK'
  <1>1. job = Idle /\ UNCHANGED <<list, rt>>
    BY DEF InterfaceDown, InterfaceUp, CostChange, WildcardRetraction, FlushNeighbour,
           ExpireRoutes, slot
  <1>2. Settled({}) /\ Listed(Table) \subseteq Paths /\ cost \in [Neighs -> Metric]
        /\ NeighOf \in [Paths -> Neighs]
    BY <1>1, SettledFact, IInvFact, ListedPathsFact, PathAssumption
  <1>3. ASSUME NEW i \in Ifaces, InterfaceDown(i)
        PROVE  CostsOK'
    <2>1. /\ up' = up \ {i} /\ job' = Walk("flush", Behind(i), {})
          /\ cost' = [n \in Neighs |-> IF n \in Behind(i) THEN INFINITY ELSE cost[n]]
      BY <1>3 DEF InterfaceDown
    <2>2. \A p \in Listed(Table) :
            \/ cost'[NeighOf[p]] = cost[NeighOf[p]] /\ IfOf[NeighOf[p]] \in up'
            \/ NeighOf[p] \in Behind(i)
      BY <1>2, <2>1 DEF Settled, Behind
    <2> QED
      BY <1>1, <1>2, <2>1, <2>2, StartCosts
  <1>4. ASSUME NEW i \in Ifaces, InterfaceUp(i)
        PROVE  CostsOK'
    <2>1. i \notin up /\ up' = up \cup {i} /\ job' = Walk("metric", Behind(i), {i})
      BY <1>4 DEF InterfaceUp
    <2>2. PICK c \in [Behind(i) -> Costs] :
            cost' = [n \in Neighs |-> IF n \in Behind(i) THEN c[n] ELSE cost[n]]
      BY <1>4 DEF InterfaceUp
    <2>3. \A p \in Listed(Table) : NeighOf[p] \notin Behind(i) /\ IfOf[NeighOf[p]] \in up'
      BY <1>2, <2>1 DEF Settled, Behind
    <2>4. \A p \in Listed(Table) : cost'[NeighOf[p]] = cost[NeighOf[p]]
      BY <1>2, <2>2, <2>3
    <2> QED
      BY <1>1, <1>2, <2>1, <2>3, <2>4, StartCosts
  <1>5. ASSUME NEW n \in Neighs, NEW c \in Costs, CostChange(n, c)
        PROVE  CostsOK'
    <2>1. /\ cost' = [cost EXCEPT ![n] = c] /\ job' = Walk("metric", {n}, {})
          /\ up' = up
      BY <1>5 DEF CostChange
    <2>2. \A p \in Listed(Table) :
            /\ IfOf[NeighOf[p]] \in up'
            /\ cost'[NeighOf[p]] = cost[NeighOf[p]] \/ NeighOf[p] \in {n}
      BY <1>2, <2>1 DEF Settled
    <2>3. \A p, q \in Listed(Table) : NeighOf[p] \in {n} /\ NeighOf[q] \in {n} => p = q
      BY <1>2
    <2> QED
      BY <1>1, <1>2, <2>1, <2>2, <2>3, StartCosts
  <1>6. ASSUME NEW n \in Neighs, WildcardRetraction(n)
        PROVE  CostsOK'
    <2>1. up' = up /\ cost' = cost /\ job' = Walk("retract", {n}, {})
      BY <1>6 DEF WildcardRetraction
    <2>2. \A p \in Listed(Table) :
            cost'[NeighOf[p]] = cost[NeighOf[p]] /\ IfOf[NeighOf[p]] \in up'
      BY <1>2, <2>1 DEF Settled
    <2> QED
      BY <1>1, <1>2, <2>1, <2>2, StartCosts
  <1>7. ASSUME NEW n \in Neighs, FlushNeighbour(n)
        PROVE  CostsOK'
    <2>1. /\ cost' = [cost EXCEPT ![n] = INFINITY] /\ job' = Walk("flush", {n}, {})
          /\ up' = up
      BY <1>7 DEF FlushNeighbour
    <2>2. \A p \in Listed(Table) :
            \/ cost'[NeighOf[p]] = cost[NeighOf[p]] /\ IfOf[NeighOf[p]] \in up'
            \/ NeighOf[p] \in {n}
      BY <1>2, <2>1 DEF Settled
    <2> QED
      BY <1>1, <1>2, <2>1, <2>2, StartCosts
  <1>8. CASE ExpireRoutes
    <2>1. up' = up /\ cost' = cost /\ job' = Walk("expire", Neighs, {})
      BY <1>8 DEF ExpireRoutes
    <2>2. \A p \in Listed(Table) :
            cost'[NeighOf[p]] = cost[NeighOf[p]] /\ IfOf[NeighOf[p]] \in up'
      BY <1>2, <2>1 DEF Settled
    <2> QED
      BY <1>1, <1>2, <2>1, <2>2, StartCosts
  <1> QED
    BY <1>3, <1>4, <1>5, <1>6, <1>7, <1>8

\* Time passes.
LEMMA TickCosts ==
  ASSUME IInv, CostsOK, Tick
  PROVE  CostsOK'
  <1> DEFINE aged(p) == IF p \in Listed(Table) THEN Aged(rt[p]) ELSE {NoRoute}
             t == Table'
  <1>1. job = Idle /\ UNCHANGED <<list, up, cost, job>> /\ \A p \in Paths : rt'[p] \in aged(p)
    BY DEF Tick
  <1>2. Settled({}) /\ job'.kind = "idle" /\ Listed(Table) \subseteq Paths
        /\ rt \in [Paths -> Route]
    BY <1>1, SettledFact, IInvFact, ListedPathsFact DEF Idle
  <1>3. \A p \in Listed(Table) : rt'[p].refmetric = rt[p].refmetric /\ rt'[p].cost = rt[p].cost
    BY <1>1, <1>2, AgedRouteFact
  <1>4. Table'.list = list' /\ Table'.rt = rt' /\ Listed(Table') = Listed(Table)
    BY <1>1 DEF Listed, Table
  <1>5. Alters(Table, t, {})
    BY <1>3, <1>4, TableFact DEF Alters
  <1>6. list' = t.list /\ rt' = t.rt
    BY <1>4
  <1> HIDE DEF t
  <1> QED
    BY <1>1, <1>2, <1>5, <1>6, SettleFact

\* When every neighbour has one route to the destination and the kernel obeys:
\* between handlers the cost of a usable route is its neighbour's, although
\* the walks of update_neighbour_metric, flush_neighbour and flush_interface
\* go over a list that their own iterations reorder.
THEOREM CostsReachRoutes ==
  ASSUME ~KernelMayRefuse, \A p, q \in Paths : NeighOf[p] = NeighOf[q] => p = q
  PROVE  Spec => []CostReachesRoutes
  <1>1. Init => IInv /\ CostsOK
    <2> SUFFICES ASSUME Init PROVE CostsOK
      BY InitFact
    <2>1. Listed(Table) = {}
      BY TableFact DEF Init, Listed
    <2> QED
      BY <2>1 DEF CostsOK
  <1>2. IInv /\ CostsOK /\ [Next]_vars => (IInv /\ CostsOK)'
    <2> SUFFICES ASSUME IInv, CostsOK, [Next]_vars PROVE CostsOK'
      BY NextFact
    <2>1. CASE \/ \E p \in Paths, a \in Announced : ReceiveUpdate(p, a)
               \/ \E m \in Exported \cup {INFINITY} : CheckXroutes(m)
               \/ \E i \in Ifaces : SendUpdate(i) \/ FlushUpdates(i)
               \/ DoResend \/ ExpireSources
      BY <2>1, HandlersCosts
    <2>2. CASE \/ \E i \in Ifaces : InterfaceDown(i) \/ InterfaceUp(i)
               \/ \E n \in Neighs : \/ \E c \in Costs : CostChange(n, c)
                                    \/ WildcardRetraction(n)
                                    \/ FlushNeighbour(n)
               \/ ExpireRoutes
      BY <2>2, StartsCosts
    <2>3. CASE WalkStep
      BY <2>3, WalkCosts
    <2>4. CASE Tick
      BY <2>4, TickCosts
    <2>5. CASE UNCHANGED vars
      BY <2>5, TableFact DEF vars, CostsOK, Settled, HasCost, Pending, Ahead, Listed, Table
    <2> QED
      BY <2>1, <2>2, <2>3, <2>4, <2>5 DEF Next
  <1>3. CostsOK => CostReachesRoutes
    BY SettledFact DEF CostReachesRoutes, Settled, HasCost
  <1> QED
    BY <1>1, <1>2, <1>3, PTL DEF Spec

-----------------------------------------------------------------------------
(* Losses are announced. *)

\* We do not reach the destination.
Loss(t) == Announcement(t).metric >= INFINITY

\* Whoever was told that we reach it will hear from us again.
Warned(t) == \A i \in t.told \ SplitHorizon : i \in t.update \/ t.resend > 0

LossOK(t) == Loss(t) => Warned(t)

\* Only interfaces that the output filter lets through were told anything.
Tells(t) == SlotOK(t) /\ \A i \in t.told : OutMetric[i] < INFINITY

\* Nothing was buffered, sent or recorded.
SameBuffers(t, u) == u.told = t.told /\ u.update = t.update /\ u.resend = t.resend

\* When we do not reach the destination.
LEMMA LossFact ==
  ASSUME NEW t, SlotOK(t)
  PROVE  /\ \A p \in Paths : t.rt[p].installed =>
              (Loss(t) <=> /\ route_metric(t.rt[p]) >= INFINITY
                           /\ ~(t.xroute < INFINITY /\ t.xroute <= kernel_metric))
         /\ (\A p \in Paths : ~t.rt[p].installed) => (Loss(t) <=> t.xroute >= INFINITY)
  <1> DEFINE h == find_installed_route(t)
  <1>1. t.xroute \in Nat /\ INFINITY \in Nat /\ NoPath \notin Paths
    BY SlotFact, MetricAssumption, PathAssumption DEF SlotOK, Metric
  <1>2. ASSUME NEW p \in Paths, t.rt[p].installed PROVE h = p
    BY <1>2 DEF SlotOK, HeadOK, find_installed_route
  <1>3. h # NoPath => h \in Paths /\ t.rt[h].installed
    BY InstalledFact DEF SlotOK
  <1>4. Announcement(t).metric =
          IF t.xroute < INFINITY /\ (h = NoPath \/ t.xroute <= kernel_metric)
            THEN t.xroute
            ELSE IF h # NoPath THEN route_metric(t.rt[h]) ELSE INFINITY
    BY DEF Announcement
  <1> HIDE DEF h
  <1>5. ASSUME NEW p \in Paths, t.rt[p].installed
        PROVE  Loss(t) <=> /\ route_metric(t.rt[p]) >= INFINITY
                           /\ ~(t.xroute < INFINITY /\ t.xroute <= kernel_metric)
    BY <1>1, <1>2, <1>4, <1>5 DEF Loss
  <1>6. ASSUME \A p \in Paths : ~t.rt[p].installed
        PROVE  Loss(t) <=> t.xroute >= INFINITY
    BY <1>1, <1>3, <1>4, <1>6 DEF Loss
  <1> QED
    BY <1>5, <1>6

\* The same route is installed, with the same metric.
LEMMA SameLossFact ==
  ASSUME NEW t, SlotOK(t), NEW u, SlotOK(u), u.xroute = t.xroute,
         \A p \in Paths : /\ u.rt[p].installed <=> t.rt[p].installed
                          /\ t.rt[p].installed =>
                               route_metric(u.rt[p]) = route_metric(t.rt[p])
  PROVE  Loss(u) <=> Loss(t)
  <1>1. CASE \A p \in Paths : ~t.rt[p].installed
    BY <1>1, LossFact
  <1>2. ASSUME NEW p \in Paths, t.rt[p].installed
        PROVE  Loss(u) <=> Loss(t)
    <2>1. u.rt[p].installed /\ route_metric(u.rt[p]) = route_metric(t.rt[p])
      BY <1>2
    <2>2. Loss(t) <=> /\ route_metric(t.rt[p]) >= INFINITY
                      /\ ~(t.xroute < INFINITY /\ t.xroute <= kernel_metric)
      BY <1>2, LossFact
    <2>3. Loss(u) <=> /\ route_metric(u.rt[p]) >= INFINITY
                      /\ ~(u.xroute < INFINITY /\ u.xroute <= kernel_metric)
      BY <2>1, LossFact
    <2> QED
      BY <2>1, <2>2, <2>3
  <1> QED
    BY <1>1, <1>2

\* Nothing was sent, and nothing was lost.
LEMMA StillFact ==
  ASSUME NEW t, Tells(t), LossOK(t), NEW u, SlotOK(u), SameBuffers(t, u),
         Loss(u) => Loss(t)
  PROVE  Tells(u) /\ LossOK(u)
  BY DEF Tells, LossOK, Warned, SameBuffers

\* flushupdates: an interface on which the update was buffered hears of the loss.
LEMMA FlushLoss ==
  ASSUME NEW t, Tells(t), NEW ifs
  PROVE  LET u == flushupdates(t, ifs)
         IN  /\ Tells(u) /\ (LossOK(t) => LossOK(u)) /\ u.resend = t.resend
             /\ u.up = t.up
  <1> DEFINE a == Announcement(t)
             out == FlushTargets(t, ifs)
             allowed == {i \in out : OutMetric[i] < INFINITY}
             b1 == t.update \ ifs
             b2 == (t.told \ allowed)
                     \cup {i \in allowed : really_send_update(i, a).metric < INFINITY}
             b3 == t.sent \cup {[iface |-> i, update |-> really_send_update(i, a)] :
                                  i \in allowed}
             b4 == IF AnnouncesRoute(t) /\ out # {} THEN Advertised(t.src, a) ELSE t.src
             u == flushupdates(t, ifs)
  <1>1. u = [t EXCEPT !.update = b1, !.told = b2, !.sent = b3, !.src = b4]
    BY DEF flushupdates
  <1>2. SlotOK(t) /\ t \in Slot /\ t.told \subseteq t.up /\ t.told \subseteq Ifaces
    BY SlotFact DEF Tells, SlotOK, BuffersOK
  <1>3. SlotOK(u) /\ SameRefs(t, u) /\ Follows(t, u)
    BY <1>2, FlushFact, FlushFollows
  <1>4. \A i \in b2 : OutMetric[i] < INFINITY
    BY DEF Tells
  <1>5. a \in Update
    BY <1>2, AnnouncementFact
  <1>6. ASSUME a.metric >= INFINITY, NEW i \in b2 PROVE i \in t.told \ allowed
    <2>1. CASE i \in allowed
      <3>1. i \in Ifaces
        BY <1>2, <2>1, SlotFact DEF FlushTargets
      <3>2. really_send_update(i, a).metric = MIN(a.metric + OutMetric[i], INFINITY)
        BY <1>5 DEF really_send_update, Update
      <3>3. ~(MIN(a.metric + OutMetric[i], INFINITY) < INFINITY)
        <4>1. a.metric \in Nat /\ OutMetric[i] \in Nat /\ INFINITY \in Nat
          BY <1>5, <3>1, MetricAssumption DEF Update, Metric
        <4> QED
          BY <1>6, <4>1 DEF MIN
      <3> QED
        BY <1>6, <2>1, <3>2, <3>3
    <2>2. CASE i \notin allowed
      BY <1>6, <2>2
    <2> QED
      BY <2>1, <2>2
  <1>7. ASSUME NEW i \in t.told \ SplitHorizon, i \notin allowed, i \in t.update
        PROVE  i \in b1
    <2>1. i \in t.up /\ OutMetric[i] < INFINITY /\ i \notin out
      BY <1>2, <1>7 DEF Tells
    <2>2. i \notin ifs
      BY <1>7, <2>1 DEF FlushTargets
    <2> QED
      BY <1>7, <2>2
  <1> HIDE DEF b1, b2, b3, b4, u, allowed
  <1>8. /\ u.update = b1 /\ u.told = b2 /\ u.resend = t.resend /\ u.up = t.up
        /\ u.xroute = t.xroute /\ u.rt = t.rt
    BY <1>1, <1>2, SMT DEF Slot
  <1>9. Loss(u) <=> Loss(t)
    BY <1>2, <1>3, <1>8, SameLossFact
  <1>10. ASSUME LossOK(t) PROVE LossOK(u)
    <2> SUFFICES ASSUME Loss(u), NEW i \in u.told \ SplitHorizon
                 PROVE  i \in u.update \/ u.resend > 0
      BY DEF LossOK, Warned
    <2>1. Warned(t) /\ a.metric >= INFINITY
      BY <1>9, <1>10 DEF LossOK, Loss
    <2>2. i \in t.told \ SplitHorizon /\ i \notin allowed
      BY <1>6, <1>8, <2>1
    <2>3. i \in t.update \/ t.resend > 0
      BY <2>1, <2>2 DEF Warned
    <2> QED
      BY <1>7, <1>8, <2>2, <2>3
  <1>11. Tells(u)
    BY <1>3, <1>4, <1>8 DEF Tells
  <1> QED
    BY <1>8, <1>10, <1>11 DEF u

\* send_update: it is buffered wherever anybody was told.
LEMMA SendLoss ==
  ASSUME NEW t, Tells(t), NEW k
  PROVE  /\ Tells(send_update(t, k)) /\ Warned(send_update(t, k))
         /\ Tells(send_update_resend(t, k)) /\ Warned(send_update_resend(t, k))
         /\ send_update(t, k).told \subseteq send_update(t, k).update
  <1> DEFINE u == flushupdates(t, k.full)
             b == u.update \cup t.up
             v == send_update(t, k)
             w == send_update_resend(t, k)
  <1>1. Tells(u) /\ u.up = t.up
    BY FlushLoss
  <1>2. v = [u EXCEPT !.update = b]
    BY DEF send_update
  <1>3. w = [v EXCEPT !.resend = RESEND_MAX]
    BY DEF send_update_resend
  <1>4. SlotOK(v) /\ SlotOK(w)
    BY SendUpdateFact DEF Tells
  <1> HIDE DEF u, b, v, w
  <1>5. u \in Slot /\ v \in Slot /\ u.told \subseteq u.up
    BY <1>1, <1>4 DEF Tells, SlotOK, BuffersOK
  <1>6. v.told = u.told /\ v.update = b
    BY <1>2, <1>5, SMT DEF Slot
  <1>7. w.told = v.told /\ w.update = v.update
    BY <1>3, <1>5, SMT DEF Slot
  <1>8. v.told \subseteq v.update
    BY <1>1, <1>5, <1>6 DEF b
  <1>9. Tells(v) /\ Tells(w)
    BY <1>1, <1>4, <1>6, <1>7 DEF Tells
  <1>10. Warned(v) /\ Warned(w)
    BY <1>7, <1>8 DEF Warned
  <1> QED
    BY <1>8, <1>9, <1>10 DEF v, w

\* Requests go out after the buffered updates.
LEMMA RequestLoss ==
  ASSUME NEW t, Tells(t), LossOK(t), NEW id \in Ids, t.src[id] # NoSource
  PROVE  /\ LET u == send_request_resend(t, id) IN Tells(u) /\ LossOK(u)
         /\ \A n \in Neighs : \A force, seqno, metric :
              LET u == send_unfeasible_request(t, n, force, seqno, metric, id)
              IN  Tells(u) /\ LossOK(u)
  <1>1. SlotOK(t)
    BY DEF Tells
  <1>2. ASSUME NEW ifs, NEW q, NEW v,
               v = [flushupdates(t, ifs) EXCEPT !.asked = @ \cup {q}], SlotOK(v)
        PROVE  Tells(v) /\ LossOK(v)
    <2> DEFINE u == flushupdates(t, ifs)
               b == u.asked \cup {q}
    <2>1. Tells(u) /\ LossOK(u) /\ u \in Slot
      BY FlushLoss DEF Tells, SlotOK
    <2>2. v = [u EXCEPT !.asked = b]
      BY <1>2
    <2> HIDE DEF u, b
    <2>3. SameBuffers(u, v) /\ v.rt = u.rt /\ v.xroute = u.xroute
      BY <2>1, <2>2, SMT DEF Slot, SameBuffers
    <2>4. Loss(v) <=> Loss(u)
      BY <1>2, <2>1, <2>3, SameLossFact DEF Tells
    <2> QED
      BY <1>2, <2>1, <2>3, <2>4, StillFact
  <1>3. LET u == send_request_resend(t, id) IN Tells(u) /\ LossOK(u)
    <2> DEFINE q == [to |-> {n \in Neighs : IfOf[n] \in t.up}, id |-> id,
                     seqno |-> WantedSeqno(t.src[id])]
               u == send_request_resend(t, id)
    <2>1. u = [flushupdates(t, Ifaces) EXCEPT !.asked = @ \cup {q}]
      BY DEF send_request_resend
    <2>2. SlotOK(u)
      BY <1>1, RequestFact
    <2> HIDE DEF q, u
    <2>3. Tells(u) /\ LossOK(u)
      BY <1>2, <2>1, <2>2
    <2> QED
      BY <2>3 DEF u
  <1>4. ASSUME NEW n \in Neighs, NEW force, NEW seqno, NEW metric
        PROVE  LET u == send_unfeasible_request(t, n, force, seqno, metric, id)
               IN  Tells(u) /\ LossOK(u)
    <2> DEFINE q == [to |-> {n}, id |-> id, seqno |-> WantedSeqno(t.src[id])]
               u == send_unfeasible_request(t, n, force, seqno, metric, id)
    <2>1. u = t \/ u = [flushupdates(t, {IfOf[n]}) EXCEPT !.asked = @ \cup {q}]
      BY DEF send_unfeasible_request
    <2>2. SlotOK(u)
      BY <1>1, UnfeasibleRequestFact
    <2> HIDE DEF q, u
    <2>3. Tells(u) /\ LossOK(u)
      BY <1>2, <2>1, <2>2
    <2> QED
      BY <2>3 DEF u
  <1> QED
    BY <1>3, <1>4

\* Triggered updates: the loss of an installed route that was usable is sent.
LEMMA TriggeredLoss ==
  ASSUME NEW t, Tells(t), NEW p \in Paths, NEW oldsrc, NEW oldmetric, NEW k,
         LossOK(t) \/ (t.rt[p].installed /\ oldmetric < INFINITY)
  PROVE  LET u == send_triggered_update(t, p, oldsrc, oldmetric, k)
         IN  Tells(u) /\ LossOK(u)
  <1> DEFINE v == send_update(t, k)
             w == send_update_resend(t, k)
             u == send_triggered_update(t, p, oldsrc, oldmetric, k)
  <1>1. u \in {t, v, w}
    BY DEF send_triggered_update
  <1>2. Tells(v) /\ LossOK(v) /\ Tells(w) /\ LossOK(w)
    BY SendLoss DEF LossOK
  <1>3. CASE LossOK(t)
    <2> HIDE DEF u, v, w
    <2>1. Tells(u) /\ LossOK(u)
      BY <1>1, <1>2, <1>3
    <2> QED
      BY <2>1 DEF u
  <1>4. CASE ~LossOK(t)
    <2>1. t.rt[p].installed /\ oldmetric < INFINITY /\ Loss(t)
      BY <1>4 DEF LossOK
    <2>2. route_metric(t.rt[p]) >= INFINITY
      BY <2>1, LossFact DEF Tells
    <2>3. u = w
      BY <2>1, <2>2 DEF send_triggered_update
    <2> HIDE DEF u, w
    <2>4. Tells(u) /\ LossOK(u)
      BY <1>2, <2>3
    <2> QED
      BY <2>4 DEF u
  <1> QED
    BY <1>3, <1>4

\* Installing, uninstalling and switching send nothing.
LEMMA MoveBuffers ==
  ASSUME NEW t, SlotOK(t), NEW p, NEW old, NEW k
  PROVE  /\ SameBuffers(t, install_route(t, p, k))
         /\ SameBuffers(t, uninstall_route(t, p))
         /\ SameBuffers(t, switch_routes(t, old, p, k))
  <1>1. t \in Slot
    BY DEF SlotOK
  <1>2. ASSUME NEW F, NEW R, NEW L
        PROVE  /\ SameBuffers(t, [t EXCEPT !.fib = F, !.rt = R, !.list = L])
               /\ SameBuffers(t, [t EXCEPT !.fib = F, !.rt = R])
               /\ SameBuffers(t, [t EXCEPT !.fib = F])
    <2>1. SameBuffers(t, [t EXCEPT !.fib = F, !.rt = R, !.list = L])
      BY <1>1, SMT DEF Slot, SameBuffers
    <2>2. SameBuffers(t, [t EXCEPT !.fib = F, !.rt = R])
      BY <1>1, SMT DEF Slot, SameBuffers
    <2>3. SameBuffers(t, [t EXCEPT !.fib = F])
      BY <1>1, SMT DEF Slot, SameBuffers
    <2> QED
      BY <2>1, <2>2, <2>3
  <1>3. SameBuffers(t, t)
    BY DEF SameBuffers
  <1>4. SameBuffers(t, install_route(t, p, k))
    <2> DEFINE F == KernelAdd(t.fib, p, metric_to_kernel(route_metric(t.rt[p])))
               R == [t.rt EXCEPT ![p].installed = TRUE]
               L == move_installed_route(t.list, p)
               u == [t EXCEPT !.fib = F, !.rt = R, !.list = L]
    <2>1. install_route(t, p, k) \in {t, u}
      BY DEF install_route
    <2>2. SameBuffers(t, u)
      BY <1>2
    <2> HIDE DEF u
    <2> QED
      BY <1>3, <2>1, <2>2
  <1>5. SameBuffers(t, uninstall_route(t, p))
    <2> DEFINE F == KernelFlush(t.fib, p, metric_to_kernel(route_metric(t.rt[p])))
               R == [t.rt EXCEPT ![p].installed = FALSE]
               u == [t EXCEPT !.fib = F, !.rt = R]
    <2>1. uninstall_route(t, p) \in {t, u}
      BY DEF uninstall_route
    <2>2. SameBuffers(t, u)
      BY <1>2
    <2> HIDE DEF u
    <2> QED
      BY <1>3, <2>1, <2>2
  <1>6. SameBuffers(t, switch_routes(t, old, p, k))
    <2> DEFINE km == metric_to_kernel(route_metric(t.rt[old]))
               kn == metric_to_kernel(route_metric(t.rt[p]))
               F1 == KernelFlushForModify(t.fib, old, km, kn)
               F == KernelModify(t.fib, old, km, p, kn)
               R == [t.rt EXCEPT ![old].installed = FALSE, ![p].installed = TRUE]
               L == move_installed_route(t.list, p)
               u == [t EXCEPT !.fib = F1]
               v == [t EXCEPT !.fib = F, !.rt = R, !.list = L]
    <2>1. switch_routes(t, old, p, k) \in {install_route(t, p, k), u, v}
      BY DEF switch_routes
    <2>2. SameBuffers(t, u) /\ SameBuffers(t, v)
      BY <1>2
    <2> HIDE DEF u, v
    <2> QED
      BY <1>4, <2>1, <2>2
  <1> QED
    BY <1>4, <1>5, <1>6

\* The conditions under which consider_route does nothing.
Declines(t, p) ==
  \/ t.rt[p].installed
  \/ ~route_feasible(t, p)
  \/ t.xroute < INFINITY
  \/ ~ShouldInstall(t, find_installed_route(t), p)

\* consider_route tells everyone, or ends with a usable route, or does nothing.
LEMMA ConsiderLoss ==
  ASSUME NEW t, Tells(t), NEW p \in Listed(t), NEW k, Obeys(k)
  PROVE  LET u == consider_route(t, p, k)
         IN  Tells(u) /\ (LossOK(u) \/ (u = t /\ Declines(t, p)))
  <1> DEFINE old == find_installed_route(t)
             u == switch_routes(t, old, p, k)
             v == send_triggered_update(u, p, t.rt[old].id, route_metric(t.rt[old]), k)
             w == consider_route(t, p, k)
  <1>1. SlotOK(t) /\ p \in Paths /\ t.rt[p] \in Route
    BY ListedFact DEF Tells
  <1>2. CASE w = t /\ Declines(t, p)
    BY <1>2
  <1>3. CASE ~(w = t /\ Declines(t, p))
    <2>1. /\ ~t.rt[p].installed /\ ~(allow_duplicates < 0 /\ t.xroute < INFINITY)
          /\ ShouldInstall(t, old, p)
      BY <1>3 DEF consider_route, Declines
    <2>2. Follows(t, u) /\ SameBuffers(t, u)
      BY <1>1, <2>1, SwitchFollows, MoveBuffers
    <2>3. w = IF old # NoPath /\ u.rt[p].installed THEN v ELSE send_update(u, k)
      BY <1>3 DEF consider_route, Declines
    <2> HIDE DEF u
    <2>4. Tells(u)
      BY <2>2 DEF Tells, Follows, SameBuffers
    <2>5. CASE old # NoPath /\ u.rt[p].installed
      <3>1. route_metric(t.rt[p]) < INFINITY
        BY <2>1, <2>5 DEF ShouldInstall
      <3>2. route_metric(u.rt[p]) < INFINITY /\ route_metric(t.rt[p]) \in Nat
        BY <1>1, <2>2, <3>1, RouteMetricFact DEF Follows, Metric
      <3>3. ~(route_metric(u.rt[p]) >= INFINITY)
        <4>1. route_metric(u.rt[p]) \in Nat
          BY <1>1, <2>2, <3>2 DEF Follows
        <4> QED
          BY <3>2, <4>1, MetricAssumption
      <3>4. ~Loss(u)
        BY <1>1, <2>4, <2>5, <3>3, LossFact DEF Tells
      <3>5. Tells(v) /\ LossOK(v)
        BY <1>1, <2>4, <3>4, TriggeredLoss DEF LossOK
      <3> HIDE DEF v, w
      <3>6. Tells(w) /\ LossOK(w)
        BY <2>3, <2>5, <3>5
      <3> QED
        BY <3>6 DEF w
    <2>6. CASE ~(old # NoPath /\ u.rt[p].installed)
      <3>1. Tells(send_update(u, k)) /\ LossOK(send_update(u, k))
        BY <2>4, SendLoss DEF LossOK
      <3>2. w = send_update(u, k)
        BY <2>3, <2>6
      <3> HIDE DEF w
      <3>3. Tells(w) /\ LossOK(w)
        BY <3>1, <3>2
      <3> QED
        BY <3>3 DEF w
    <2> QED
      BY <2>5, <2>6
  <1> QED
    BY <1>2, <1>3

\* route_changed, after a change of an installed route that was usable, or of any
\* route as long as everyone is warned.
LEMMA ChangedLoss ==
  ASSUME NEW t, Tells(t), NEW p \in Listed(t), NEW oldsrc, NEW oldmetric,
         NEW k, Obeys(k)
  PROVE  LET u == route_changed(t, p, oldsrc, oldmetric, k)
         IN  /\ LossOK(t) \/ (t.rt[p].installed /\ oldmetric < INFINITY) =>
                  Tells(u) /\ LossOK(u)
             /\ ~t.rt[p].installed => Tells(u) /\ (LossOK(u) \/ u = t)
  <1> DEFINE b == find_best_route(t)
             u == IF /\ t.rt[p].installed /\ b # NoPath
                     /\ route_metric(t.rt[b]) < route_metric(t.rt[p])
                    THEN consider_route(t, b, k) ELSE t
             v == send_triggered_update(u, p, oldsrc, oldmetric, k)
             w == consider_route(u, p, k)
             z == route_changed(t, p, oldsrc, oldmetric, k)
  <1>1. SlotOK(t) /\ p \in Paths /\ Follows(t, t)
    BY ListedFact, FollowsFact DEF Tells
  <1>2. /\ Follows(t, u) /\ Tells(u) /\ (LossOK(u) \/ u = t)
        /\ ~t.rt[p].installed => u = t
    BY <1>1, BestFact, ConsiderFollows, ConsiderLoss DEF SlotOK
  <1>3. z = IF u.rt[p].installed THEN v ELSE w
    BY DEF route_changed
  <1> HIDE DEF u, z
  <1>4. p \in Listed(u)
    BY <1>2 DEF Follows, SameRefs
  <1>5. Tells(w) /\ (LossOK(w) \/ w = u)
    BY <1>2, <1>4, ConsiderLoss
  <1>6. LossOK(u) \/ (u.rt[p].installed /\ oldmetric < INFINITY) => Tells(v) /\ LossOK(v)
    BY <1>1, <1>2, TriggeredLoss
  <1> HIDE DEF v, w
  <1>7. LossOK(t) \/ (t.rt[p].installed /\ oldmetric < INFINITY) => Tells(z) /\ LossOK(z)
    BY <1>2, <1>3, <1>5, <1>6
  <1>8. ~t.rt[p].installed => Tells(z) /\ (LossOK(z) \/ z = t)
    BY <1>2, <1>3, <1>5
  <1> QED
    BY <1>7, <1>8 DEF z

\* route_lost: a usable route is gone and none is installed.
LEMMA LostLoss ==
  ASSUME NEW t, Tells(t), NEW id \in Ids, t.src[id] # NoSource,
         NEW oldmetric \in Nat, NEW k, Obeys(k),
         \/ LossOK(t)
         \/ oldmetric < INFINITY /\ \A p \in Paths : ~t.rt[p].installed
  PROVE  LET u == route_lost(t, id, oldmetric, k) IN Tells(u) /\ LossOK(u)
  <1> DEFINE b == find_best_route(t)
             u == send_update_resend(t, k)
             v == send_request_resend(u, id)
             w == consider_route(t, b, k)
             z == route_lost(t, id, oldmetric, k)
  <1>1. SlotOK(t) /\ t \in Slot /\ t.xroute \in Nat /\ INFINITY \in Nat
    BY SlotFact, MetricAssumption DEF Tells, SlotOK, Metric
  <1>2. CASE b # NoPath
    <2>1. b \in Listed(t) /\ b \in Paths /\ route_feasible(t, b) /\ z = w
      BY <1>1, <1>2, BestFact, ListedPathsFact DEF route_lost, route_acceptable
    <2>2. Tells(w) /\ (LossOK(w) \/ (w = t /\ Declines(t, b)))
      BY <2>1, ConsiderLoss
    <2>3. ASSUME Declines(t, b), ~LossOK(t) PROVE FALSE
      <3>1. \A p \in Paths : ~t.rt[p].installed
        BY <2>3
      <3>2. find_installed_route(t) = NoPath
        BY <1>1, <3>1, InstalledFact
      <3>3. t.xroute < INFINITY
        BY <2>1, <2>3, <3>1, <3>2 DEF Declines, ShouldInstall
      <3>4. ~Loss(t)
        BY <1>1, <3>1, <3>3, LossFact
      <3> QED
        BY <2>3, <3>4 DEF LossOK
    <2> HIDE DEF w, z
    <2>4. Tells(z) /\ LossOK(z)
      BY <2>1, <2>2, <2>3
    <2> QED
      BY <2>4 DEF z
  <1>3. CASE b = NoPath
    <2>1. Tells(u) /\ LossOK(u)
      BY SendLoss DEF LossOK
    <2>2. u.src[id] # NoSource
      BY <1>1, SendFollows DEF Follows, SameRefs
    <2>3. z \in {u, v} \/ (z = t /\ oldmetric >= INFINITY)
      BY <1>3 DEF route_lost
    <2> HIDE DEF u, z
    <2>4. Tells(v) /\ LossOK(v)
      BY <2>1, <2>2, RequestLoss
    <2> HIDE DEF v
    <2>5. z = t => LossOK(t) \/ z \in {u, v}
      BY <1>1, <2>3
    <2>6. Tells(z) /\ LossOK(z)
      BY <2>1, <2>3, <2>4, <2>5
    <2> QED
      BY <2>6 DEF z
  <1> QED
    BY <1>2, <1>3

\* change_route_metric sends nothing: if everyone was warned, only a usable
\* route that is no longer usable is a loss that nobody knows of.
LEMMA ChangeLoss ==
  ASSUME NEW t, Tells(t), NEW p \in Paths, NEW refmetric \in Metric,
         NEW c \in Metric, NEW add \in Metric, NEW k
  PROVE  LET u == change_route_metric(t, p, refmetric, c, add, k)
         IN  /\ Tells(u)
             /\ \A q \in Paths : u.rt[q].installed <=> t.rt[q].installed
             /\ LossOK(t) =>
                  \/ LossOK(u)
                  \/ /\ u.rt[p].installed /\ route_metric(t.rt[p]) < INFINITY
                     /\ route_metric(u.rt[p]) # route_metric(t.rt[p])
  <1> DEFINE r == t.rt[p]
             new == [r EXCEPT !.refmetric = refmetric, !.cost = c, !.add = add]
             km == metric_to_kernel(route_metric(r))
             kn == metric_to_kernel(route_metric(new))
             sm == Kept(route_smoothed_metric(r))
             end == [new EXCEPT !.smoothed = sm]
             kernel == r.installed /\ km # kn
             F1 == KernelFlushForModify(t.fib, p, km, kn)
             F == IF kernel THEN KernelModify(t.fib, p, km, p, kn) ELSE t.fib
             R == [t.rt EXCEPT ![p] = end]
             u == change_route_metric(t, p, refmetric, c, add, k)
  <1>1. SlotOK(t) /\ r \in Route /\ t.rt \in [Paths -> Route] /\ t \in Slot
    BY SlotFact DEF Tells, SlotOK
  <1>2. SlotOK(u) /\ SameRefs(t, u)
    BY <1>1, ChangeMetricFact
  <1>3. u = [t EXCEPT !.fib = F1] \/ u = [t EXCEPT !.fib = F, !.rt = R]
    BY DEF change_route_metric
  <1>4. end.installed = r.installed
    BY <1>1 DEF Route
  <1> HIDE DEF end
  <1>5. R[p] = end /\ \A q \in Paths \ {p} : R[q] = t.rt[q]
    BY <1>1
  <1> HIDE DEF R, F, F1, u
  <1>6. SameBuffers(t, u) /\ (u.rt = t.rt \/ u.rt = R)
    <2>1. CASE u = [t EXCEPT !.fib = F1]
      BY <1>1, <2>1, SMT DEF Slot, SameBuffers
    <2>2. CASE u = [t EXCEPT !.fib = F, !.rt = R]
      BY <1>1, <2>2, SMT DEF Slot, SameBuffers
    <2> QED
      BY <1>3, <2>1, <2>2
  <1>7. /\ \A q \in Paths : u.rt[q].installed <=> t.rt[q].installed
        /\ \A q \in Paths \ {p} : u.rt[q] = t.rt[q]
    BY <1>4, <1>5, <1>6
  <1>8. Tells(u)
    BY <1>2, <1>6 DEF Tells, SameBuffers
  <1>9. ASSUME LossOK(t), ~LossOK(u)
        PROVE  /\ u.rt[p].installed /\ route_metric(t.rt[p]) < INFINITY
               /\ route_metric(u.rt[p]) # route_metric(t.rt[p])
    <2>1. Loss(u) /\ ~Loss(t)
      BY <1>2, <1>6, <1>9, StillFact DEF LossOK
    <2>2. u.xroute = t.xroute
      BY <1>2 DEF SameRefs
    <2>3. u.rt[p].installed /\ route_metric(u.rt[p]) # route_metric(t.rt[p])
      BY <1>1, <1>2, <1>7, <2>1, <2>2, SameLossFact
    <2>4. route_metric(t.rt[p]) < INFINITY
      <3>1. t.rt[p].installed
        BY <1>7, <2>3
      <3>2. route_metric(t.rt[p]) \in Nat /\ INFINITY \in Nat
        BY <1>1, RouteMetricFact, MetricAssumption DEF Metric
      <3>3. ~(t.xroute < INFINITY /\ t.xroute <= kernel_metric)
        BY <1>2, <2>1, <2>2, <2>3, LossFact
      <3>4. ~(route_metric(t.rt[p]) >= INFINITY)
        BY <1>1, <2>1, <3>1, <3>3, LossFact
      <3> QED
        BY <3>2, <3>4
    <2> QED
      BY <2>3, <2>4
  <1> QED
    BY <1>7, <1>8, <1>9 DEF u

\* The installed route has left, and no route is installed in its place.
LEMMA GoneLoss ==
  ASSUME NEW t, Tells(t), LossOK(t), NEW p \in Paths, t.rt[p].installed,
         NEW u, SlotOK(u), SameBuffers(t, u), u.xroute = t.xroute,
         \A q \in Paths : ~u.rt[q].installed
  PROVE  Tells(u) /\ (LossOK(u) \/ route_metric(t.rt[p]) < INFINITY)
  <1>1. SlotOK(t) /\ Tells(u)
    BY DEF Tells, SameBuffers
  <1>2. t.rt[p] \in Route /\ t.xroute \in Nat /\ INFINITY \in Nat
    BY <1>1, SlotFact, MetricAssumption DEF SlotOK, Metric
  <1>3. route_metric(t.rt[p]) \in Nat
    BY <1>2, RouteMetricFact DEF Metric
  <1>4. ASSUME ~(route_metric(t.rt[p]) < INFINITY) PROVE LossOK(u)
    <2>1. route_metric(t.rt[p]) >= INFINITY
      BY <1>2, <1>3, <1>4
    <2>2. Loss(u) => t.xroute >= INFINITY
      BY LossFact
    <2>3. Loss(u) => ~(t.xroute < INFINITY /\ t.xroute <= kernel_metric)
      BY <1>2, <2>2
    <2>4. Loss(u) => Loss(t)
      BY <1>1, <2>1, <2>3, LossFact
    <2> QED
      BY <2>4, StillFact
  <1> QED
    BY <1>1, <1>4

\* release_source at the end of a handler.
LEMMA ReleaseLoss ==
  ASSUME NEW t, Tells(t), LossOK(t), NEW id \in Ids, t.src[id] # NoSource,
         NEW u, u = Released(t, id)
  PROVE  Tells(u) /\ LossOK(u)
  <1>1. SlotOK(t) /\ t \in Slot
    BY DEF Tells, SlotOK
  <1>2. SlotOK(u) /\ u.rt = t.rt /\ u.xroute = t.xroute
    BY <1>1, ReleaseFact
  <1>3. SameBuffers(t, u)
    <2> DEFINE S == release_source(t.src, id)
    <2>1. u = [t EXCEPT !.src = S]
      BY DEF Released
    <2> HIDE DEF S
    <2> QED
      BY <1>1, <2>1, SMT DEF Slot, SameBuffers
  <1>4. Loss(u) <=> Loss(t)
    BY <1>1, <1>2, SameLossFact
  <1> QED
    BY <1>2, <1>3, <1>4, StillFact

\* flush_route.
LEMMA FlushRouteLoss ==
  ASSUME NEW t, Tells(t), LossOK(t), NEW p \in Listed(t), NEW k, Obeys(k)
  PROVE  LET u == flush_route(t, p, k) IN Tells(u) /\ LossOK(u)
  <1> DEFINE r == t.rt[p]
             u == uninstall_route(t, p)
             v == [u EXCEPT !.list = Unlink(u.list, p), !.rt[p] = NoRoute]
             w == IF r.installed THEN route_lost(v, r.id, route_metric(r), k) ELSE v
             z == Released(w, r.id)
  <1>1. /\ SlotOK(t) /\ p \in Paths /\ r \in Route /\ r.id \in Ids
        /\ t.src[r.id] \in Source
    BY ListedFact DEF Tells
  <1>2. /\ SlotOK(u) /\ SameRefs(t, u) /\ u.src = t.src /\ SameBuffers(t, u)
        /\ ~u.rt[p].installed /\ Follows(t, u)
        /\ r.installed => \A q \in Paths : ~u.rt[q].installed
        /\ ~r.installed => u = t
    BY <1>1, UninstallFact, UninstallFollows, MoveBuffers DEF uninstall_route
  <1>3. flush_route(t, p, k) = z
    BY DEF flush_route, Released
  <1>4. p \in Listed(u) /\ u \in Slot
    BY <1>2 DEF SameRefs, SlotOK
  <1> HIDE DEF u
  <1>5. /\ SlotOK(v) /\ v.src = u.src /\ v.xroute = u.xroute
        /\ \A q \in Paths \ {p} : v.rt[q] = u.rt[q]
    BY <1>2, <1>4, UnlinkRouteFact
  <1>6. SameBuffers(u, v) /\ v.rt[p] = NoRoute
    <2> DEFINE m == Unlink(u.list, p)
               R == [u.rt EXCEPT ![p] = NoRoute]
    <2>1. v = [u EXCEPT !.list = m, !.rt = R] /\ u.rt \in [Paths -> Route]
      BY <1>4, SlotFact
    <2>2. R[p] = NoRoute
      BY <1>1, <2>1
    <2> HIDE DEF m, R, v
    <2> QED
      BY <1>4, <2>1, <2>2, SMT DEF Slot, SameBuffers
  <1> HIDE DEF v
  <1>7. \A q \in Paths : /\ v.rt[q].installed <=> u.rt[q].installed
                         /\ u.rt[q].installed => v.rt[q] = u.rt[q]
    BY <1>2, <1>5, <1>6, NoRouteFact
  <1>8. SameBuffers(t, v) /\ v.xroute = t.xroute /\ v.src[r.id] # NoSource
    BY <1>1, <1>2, <1>5, <1>6, SourceAssumption DEF SameBuffers, SameRefs
  <1>9. Tells(w) /\ LossOK(w) /\ w.src[r.id] # NoSource
    <2>1. CASE r.installed
      <3>1. \A q \in Paths : ~v.rt[q].installed
        BY <1>2, <1>7, <2>1
      <3>2. Tells(v) /\ (LossOK(v) \/ route_metric(r) < INFINITY)
        BY <1>1, <1>5, <1>8, <2>1, <3>1, GoneLoss
      <3>3. route_metric(r) \in Nat
        BY <1>1, RouteMetricFact DEF Metric
      <3> DEFINE l == route_lost(v, r.id, route_metric(r), k)
      <3>4. Tells(l) /\ LossOK(l)
        BY <1>1, <1>8, <3>1, <3>2, <3>3, LostLoss
      <3>5. l.src[r.id] # NoSource
        BY <1>1, <1>5, <1>8, LostFollows DEF Follows, SameRefs
      <3>6. w = l
        BY <2>1
      <3> HIDE DEF l, w
      <3> QED
        BY <3>4, <3>5, <3>6
    <2>2. CASE ~r.installed
      <3>1. u = t
        BY <1>2, <2>2
      <3>2. Loss(v) <=> Loss(t)
        BY <1>1, <1>5, <1>7, <1>8, <3>1, SameLossFact
      <3>3. Tells(v) /\ LossOK(v)
        BY <1>5, <1>8, <3>2, StillFact
      <3>4. w = v
        BY <2>2
      <3> HIDE DEF w
      <3> QED
        BY <1>8, <3>3, <3>4
    <2> QED
      BY <2>1, <2>2
  <1> HIDE DEF w
  <1>10. Tells(z) /\ LossOK(z)
    BY <1>1, <1>9, ReleaseLoss
  <1> HIDE DEF z
  <1> QED
    BY <1>3, <1>10

\* A route has got another sequence number, identity or age.
LEMMA RenewLoss ==
  ASSUME NEW t, Tells(t), LossOK(t), NEW p \in Paths, NEW u, SlotOK(u),
         SameBuffers(t, u), u.xroute = t.xroute,
         u.rt[p].installed = t.rt[p].installed,
         route_metric(u.rt[p]) = route_metric(t.rt[p]),
         \A q \in Paths \ {p} : u.rt[q] = t.rt[q]
  PROVE  Tells(u) /\ LossOK(u)
  <1>1. \A q \in Paths : /\ u.rt[q].installed <=> t.rt[q].installed
                         /\ route_metric(u.rt[q]) = route_metric(t.rt[q])
    <2> SUFFICES ASSUME NEW q \in Paths
                 PROVE  /\ u.rt[q].installed <=> t.rt[q].installed
                        /\ route_metric(u.rt[q]) = route_metric(t.rt[q])
      OBVIOUS
    <2>1. CASE q = p
      BY <2>1
    <2>2. CASE q # p
      <3>1. u.rt[q] = t.rt[q]
        BY <2>2
      <3> QED
        BY <3>1
    <2> QED
      BY <2>1, <2>2
  <1>2. Loss(u) <=> Loss(t)
    BY <1>1, SameLossFact DEF Tells
  <1> QED
    BY <1>2, StillFact

\* retract_route, and route_changed if the route was usable.
LEMMA RetractLoss ==
  ASSUME NEW t, Tells(t), LossOK(t), NEW p \in Listed(t), NEW oldsrc,
         NEW k, Obeys(k)
  PROVE  LET u == retract_route(t, p, k)
             v == route_changed(u, p, oldsrc, route_metric(t.rt[p]), k)
         IN  /\ Tells(v) /\ LossOK(v)
             /\ route_metric(t.rt[p]) >= INFINITY => Tells(u) /\ LossOK(u)
  <1> DEFINE u == retract_route(t, p, k)
             v == route_changed(u, p, oldsrc, route_metric(t.rt[p]), k)
  <1>1. SlotOK(t) /\ p \in Paths /\ INFINITY \in Metric /\ 0 \in Metric /\ t.rt[p] \in Route
    BY ListedFact, BoundsFact DEF Tells
  <1>2. /\ Tells(u) /\ SameRefs(t, u)
        /\ LossOK(u) \/ (u.rt[p].installed /\ route_metric(t.rt[p]) < INFINITY)
    BY <1>1, ChangeLoss, ChangeMetricFact DEF retract_route
  <1>3. route_metric(t.rt[p]) \in Nat /\ INFINITY \in Nat
    BY <1>1, RouteMetricFact, MetricAssumption DEF Metric
  <1> HIDE DEF u
  <1>4. p \in Listed(u)
    BY <1>2 DEF SameRefs
  <1>5. Tells(v) /\ LossOK(v)
    BY <1>2, <1>4, ChangedLoss
  <1>6. route_metric(t.rt[p]) >= INFINITY => LossOK(u)
    BY <1>2, <1>3
  <1> QED
    BY <1>2, <1>5, <1>6 DEF u

\* update_route_metric.
LEMMA UpdateMetricLoss ==
  ASSUME NEW t, Tells(t), LossOK(t), NEW p \in Listed(t), NEW c \in Metric,
         NEW k, Obeys(k)
  PROVE  LET u == update_route_metric(t, p, c, k) IN Tells(u) /\ LossOK(u)
  <1> DEFINE r == t.rt[p]
             seqno == seqno_plus(t.src[r.id].seqno, 1)
             newer == [r EXCEPT !.seqno = seqno]
             R == [t.rt EXCEPT ![p] = newer]
             t1 == [t EXCEPT !.rt[p].seqno = seqno]
             dead == retract_route(t1, p, k)
             live == change_route_metric(t, p, r.refmetric, c, AddMetric[p], k)
             end(v) == route_changed(v, p, r.id, route_metric(r), k)
             u == update_route_metric(t, p, c, k)
  <1>1. /\ t \in Slot /\ p \in Paths /\ r \in Route /\ r.id \in Ids
        /\ t.src[r.id] \in Source /\ SlotOK(t) /\ t.rt \in [Paths -> Route]
    BY ListedFact, SlotFact DEF Tells
  <1>2. seqno \in Seqnos
    BY <1>1, SeqnoPlusFact DEF Source
  <1>3. \/ u \in {t, end(dead), end(live)}
        \/ u = dead /\ route_metric(r) >= INFINITY
        \/ u = live /\ route_metric(live.rt[p]) = route_metric(r)
    BY DEF update_route_metric
  <1>4. r.refmetric \in Metric /\ AddMetric[p] \in Metric
    BY <1>1, MetricAssumption DEF Route
  <1>5. /\ Tells(live) /\ SameRefs(t, live)
        /\ LossOK(live) \/ /\ live.rt[p].installed /\ route_metric(r) < INFINITY
                           /\ route_metric(live.rt[p]) # route_metric(r)
    BY <1>1, <1>4, ChangeLoss, ChangeMetricFact
  <1> HIDE DEF seqno, live
  <1>6. /\ newer \in Route /\ newer.id = r.id /\ newer.installed = r.installed
        /\ route_metric(newer) = route_metric(r)
    BY <1>1, <1>2 DEF Route, route_metric
  <1>7. t1 = Stored(t, t.fib, p, newer)
    BY <1>1 DEF Stored, Slot
  <1>8. t1 = [t EXCEPT !.rt = R]
    BY <1>1 DEF Slot
  <1> HIDE DEF newer, t1
  <1>9. SlotOK(t1) /\ SameRefs(t, t1) /\ t1.rt = R
    BY <1>1, <1>6, <1>7, SlotFact, StoreSameFact, StoreFact
  <1>10. R[p] = newer /\ \A q \in Paths \ {p} : R[q] = t.rt[q]
    BY <1>1
  <1> HIDE DEF R
  <1>11. SameBuffers(t, t1)
    BY <1>1, <1>8, SMT DEF Slot, SameBuffers
  <1>12. /\ t1.xroute = t.xroute /\ p \in Listed(t1)
         /\ t1.rt[p].installed = r.installed /\ route_metric(t1.rt[p]) = route_metric(r)
         /\ \A q \in Paths \ {p} : t1.rt[q] = t.rt[q]
    BY <1>6, <1>9, <1>10 DEF SameRefs
  <1>13. Tells(t1) /\ LossOK(t1)
    BY <1>1, <1>9, <1>11, <1>12, RenewLoss
  <1>14. /\ Tells(end(dead)) /\ LossOK(end(dead))
         /\ route_metric(r) >= INFINITY => Tells(dead) /\ LossOK(dead)
    <2> DEFINE m == route_metric(t1.rt[p])
               e == route_changed(dead, p, r.id, m, k)
    <2>1. Tells(e) /\ LossOK(e) /\ (m >= INFINITY => Tells(dead) /\ LossOK(dead))
      BY <1>12, <1>13, RetractLoss
    <2>2. end(dead) = e /\ m = route_metric(r)
      BY <1>12
    <2> HIDE DEF e, dead, end, m
    <2> QED
      BY <2>1, <2>2
  <1>15. p \in Listed(live)
    BY <1>5 DEF SameRefs
  <1>16. Tells(end(live)) /\ LossOK(end(live))
    BY <1>5, <1>15, ChangedLoss
  <1> HIDE DEF end, dead, u
  <1>17. Tells(u) /\ LossOK(u)
    BY <1>3, <1>5, <1>14, <1>16
  <1> QED
    BY <1>17 DEF u

\* An update for a route of the list.
LEMMA UpdateKnownLoss ==
  ASSUME NEW t, Tells(t), LossOK(t), NEW p \in Listed(t), NEW a \in Announced,
         t.src[a.id] # NoSource, NEW c \in Metric, NEW k, Obeys(k)
  PROVE  LET u == UpdateKnownRoute(t, p, a, c, k) IN Tells(u) /\ LossOK(u)
  <1> DEFINE r == t.rt[p]
             oldmetric == route_metric(r)
             feasible == update_feasible(t.src[a.id], a.seqno, a.metric)
             lost == ~feasible /\ r.installed /\ a.id # r.id
             refreshed == (feasible \/ keep_unfeasible) /\ a.metric < INFINITY
             t1 == IF lost THEN uninstall_route(t, p) ELSE t
             age == IF refreshed THEN 0 ELSE r.age
             r2 == [t1.rt[p] EXCEPT !.id = a.id, !.seqno = a.seqno, !.age = age]
             t2 == Replaced(t1, p, a.id, r2)
             t3 == change_route_metric(t2, p, a.metric, c, AddMetric[p], k)
             t4 == route_changed(t3, p, r.id, oldmetric, k)
             t5 == IF lost THEN route_lost(t4, r.id, oldmetric, k) ELSE t4
             ask == send_unfeasible_request(
                      t5, NeighOf[p], t5.rt[p].installed /\ route_old(t5.rt[p]),
                      a.seqno, MIN(a.metric + c + AddMetric[p], INFINITY), a.id)
             t6 == IF feasible THEN t5 ELSE ask
             u == Released(t6, r.id)
  <1>1. /\ SlotOK(t) /\ p \in Paths /\ r \in Route /\ r.id \in Ids
        /\ t.src[r.id] # NoSource /\ t \in Slot
    BY ListedFact, SourceAssumption DEF Tells
  <1>2. a \in Update /\ a.id \in Ids /\ a.seqno \in Seqnos /\ a.metric \in Metric
        /\ AddMetric[p] \in Metric /\ NeighOf[p] \in Neighs
    BY <1>1, RibAssumption, MetricAssumption, PathAssumption DEF Update
  <1>3. /\ Follows(t, t1) /\ t1.src = t.src /\ SameBuffers(t, t1)
        /\ lost => \A q \in Paths : ~t1.rt[q].installed
        /\ ~lost => t1 = t
    <2>1. SameBuffers(t, t)
      BY DEF SameBuffers
    <2> QED
      BY <1>1, <2>1, UninstallFollows, UninstallFact, FollowsFact, MoveBuffers
  <1> HIDE DEF t1
  <1>4. SlotOK(t1) /\ SameRefs(t, t1) /\ route_metric(t1.rt[p]) = oldmetric
    BY <1>1, <1>3 DEF Follows
  <1>5. p \in Listed(t1) /\ t1.rt[p] \in Route /\ t1.src[a.id] # NoSource
    BY <1>2, <1>3, <1>4, ListedFact DEF SameRefs
  <1>6. age \in 0 .. MaxAge
    BY <1>1, BoundsFact DEF Route
  <1> HIDE DEF age
  <1>7. r2 \in Route
    BY <1>2, <1>5, <1>6, Zenon DEF Route
  <1>8. /\ r2.id = a.id /\ r2.installed = t1.rt[p].installed
        /\ r2.refmetric = t1.rt[p].refmetric /\ r2.cost = t1.rt[p].cost
        /\ r2.add = t1.rt[p].add
    BY <1>5, SMT DEF Route
  <1>9. UpdateKnownRoute(t, p, a, c, k) = u
    BY DEF UpdateKnownRoute, Replaced, Released, t1, age
  <1> HIDE DEF r2
  <1>10. route_metric(r2) = oldmetric
    BY <1>4, <1>8 DEF route_metric
  <1>11. /\ SlotOK(t2) /\ Listed(t2) = Listed(t1)
         /\ t2.rt[p] = r2 /\ \A q \in Paths \ {p} : t2.rt[q] = t1.rt[q]
         /\ \A i \in Ids : t2.src[i] = NoSource <=> t1.src[i] = NoSource
    BY <1>4, <1>5, <1>7, <1>8, ReplaceFact
  <1>12. SameBuffers(t1, t2) /\ t2.xroute = t1.xroute
    <2> DEFINE S == retain_source(t1.src, a.id)
               R == [t1.rt EXCEPT ![p] = r2]
    <2>1. t2 = [t1 EXCEPT !.src = S, !.rt = R] /\ t1 \in Slot
      BY <1>4 DEF Replaced, SlotOK
    <2> HIDE DEF S, R, t2
    <2> QED
      BY <2>1, SMT DEF Slot, SameBuffers
  <1> HIDE DEF t2
  <1>13. p \in Listed(t2) /\ SameBuffers(t, t2) /\ t2.xroute = t.xroute
    BY <1>3, <1>4, <1>5, <1>11, <1>12 DEF SameBuffers, SameRefs
  <1>14. \A q \in Paths : t2.rt[q].installed <=> t1.rt[q].installed
    BY <1>8, <1>11
  <1>15. /\ Tells(t2) /\ SameRefs(t2, t3) /\ Tells(t3)
         /\ \A q \in Paths : t3.rt[q].installed <=> t2.rt[q].installed
         /\ LossOK(t2) => LossOK(t3) \/ (t3.rt[p].installed /\ oldmetric < INFINITY)
    <2>1. Tells(t2)
      BY <1>11, <1>13 DEF Tells, SameBuffers
    <2>2. route_metric(t2.rt[p]) = oldmetric
      BY <1>10, <1>11
    <2> QED
      BY <1>1, <1>2, <1>11, <2>1, <2>2, ChangeLoss, ChangeMetricFact
  <1> HIDE DEF t3
  <1>16. p \in Listed(t3) /\ t3.src[r.id] # NoSource /\ t3.src[a.id] # NoSource
    BY <1>1, <1>2, <1>3, <1>5, <1>11, <1>13, <1>15 DEF SameRefs
  <1>17. Follows(t3, t4)
    BY <1>15, <1>16, ChangedFollows DEF Tells
  <1>18. t4.src[r.id] # NoSource /\ t4.src[a.id] # NoSource /\ SlotOK(t4)
    BY <1>1, <1>2, <1>16, <1>17 DEF Follows, SameRefs
  <1>19. oldmetric \in Nat
    BY <1>1, RouteMetricFact DEF Metric
  <1>20. CASE lost
    <2>1. \A q \in Paths : ~t2.rt[q].installed /\ ~t3.rt[q].installed
      BY <1>3, <1>14, <1>15, <1>20
    <2>2. LossOK(t2) \/ oldmetric < INFINITY
      BY <1>1, <1>11, <1>13, <1>20, <2>1, GoneLoss
    <2>3. LossOK(t3) \/ oldmetric < INFINITY
      BY <1>1, <1>15, <2>1, <2>2
    <2>4. Tells(t4) /\ (LossOK(t4) \/ (t4 = t3 /\ oldmetric < INFINITY))
      <3>1. LossOK(t3) => Tells(t4) /\ LossOK(t4)
        BY <1>15, <1>16, ChangedLoss
      <3>2. Tells(t4) /\ (LossOK(t4) \/ t4 = t3)
        BY <1>1, <1>15, <1>16, <2>1, ChangedLoss
      <3> HIDE DEF t4
      <3> QED
        BY <2>3, <3>1, <3>2
    <2> HIDE DEF t4, oldmetric
    <2> DEFINE l == route_lost(t4, r.id, oldmetric, k)
    <2>5. Tells(l) /\ LossOK(l)
      <3>1. LossOK(t4) \/ (oldmetric < INFINITY /\ \A q \in Paths : ~t4.rt[q].installed)
        BY <2>1, <2>4
      <3> QED
        BY <1>1, <1>18, <1>19, <2>4, <3>1, LostLoss
    <2>6. l.src[r.id] # NoSource /\ l.src[a.id] # NoSource
      BY <1>1, <1>2, <1>18, LostFollows DEF Follows, SameRefs
    <2>7. t5 = l /\ ~feasible
      BY <1>20
    <2> HIDE DEF l, t5
    <2>8. Tells(t5) /\ LossOK(t5) /\ t5.src[r.id] # NoSource /\ t5.src[a.id] # NoSource
      BY <2>5, <2>6, <2>7
    <2>9. Tells(ask) /\ LossOK(ask) /\ ask.src[r.id] # NoSource
      BY <1>1, <1>2, <2>8, RequestLoss, RequestFollows DEF Follows, SameRefs, Tells
    <2>10. t6 = ask
      BY <2>7
    <2> HIDE DEF ask, t6
    <2>11. Tells(u) /\ LossOK(u)
      BY <1>1, <2>9, <2>10, ReleaseLoss
    <2> HIDE DEF u
    <2> QED
      BY <1>9, <2>11
  <1>21. CASE ~lost
    <2>1. t1 = t /\ t5 = t4
      BY <1>3, <1>21
    <2>2. Tells(t2) /\ LossOK(t2)
      <3>1. /\ t2.rt[p].installed = t.rt[p].installed
            /\ route_metric(t2.rt[p]) = route_metric(t.rt[p])
            /\ \A q \in Paths \ {p} : t2.rt[q] = t.rt[q]
        BY <1>8, <1>10, <1>11, <2>1
      <3> QED
        BY <1>1, <1>11, <1>13, <3>1, RenewLoss
    <2>3. Tells(t4) /\ LossOK(t4)
      BY <1>15, <1>16, <2>2, ChangedLoss
    <2> HIDE DEF t4, t5
    <2>4. Tells(t5) /\ LossOK(t5) /\ t5.src[r.id] # NoSource /\ t5.src[a.id] # NoSource
      BY <1>18, <2>1, <2>3
    <2>5. Tells(ask) /\ LossOK(ask) /\ ask.src[r.id] # NoSource
      BY <1>1, <1>2, <2>4, RequestLoss, RequestFollows DEF Follows, SameRefs, Tells
    <2> HIDE DEF ask
    <2>6. Tells(t6) /\ LossOK(t6) /\ t6.src[r.id] # NoSource
      BY <2>4, <2>5
    <2> HIDE DEF t6
    <2>7. Tells(u) /\ LossOK(u)
      BY <1>1, <2>6, ReleaseLoss
    <2> HIDE DEF u
    <2> QED
      BY <1>9, <2>7
  <1> QED
    BY <1>20, <1>21

\* An update for a route that is not in the list.
LEMMA UpdateNewLoss ==
  ASSUME NEW t, Tells(t), LossOK(t), NEW p \in Paths, p \notin Listed(t),
         NEW a \in Announced, t.src[a.id] # NoSource, NEW c \in Metric,
         NEW k, Obeys(k)
  PROVE  LET u == UpdateNewRoute(t, p, a, c, k) IN Tells(u) /\ LossOK(u)
  <1> DEFINE feasible == update_feasible(t.src[a.id], a.seqno, a.metric)
             metric == MIN(a.metric + c + AddMetric[p], INFINITY)
             ask == send_unfeasible_request(
                      t, NeighOf[p], FALSE, a.seqno, metric, a.id)
             t1 == IF feasible THEN t ELSE ask
             r == [id |-> a.id, seqno |-> a.seqno, refmetric |-> a.metric,
                   cost |-> c, add |-> AddMetric[p],
                   smoothed |-> Kept(MAX(metric, INFINITY \div 2)),
                   age |-> 0, installed |-> FALSE]
             t2 == Added(t1, p, a.id, r)
             u == consider_route(t2, p, k)
             end == UpdateNewRoute(t, p, a, c, k)
  <1>1. a \in Update /\ a.id \in Ids /\ a.seqno \in Seqnos /\ a.metric \in Metric
        /\ AddMetric[p] \in Metric /\ NeighOf[p] \in Neighs /\ SlotOK(t)
    BY RibAssumption, MetricAssumption, PathAssumption DEF Update, Tells
  <1>2. Follows(t, t1) /\ Tells(t1) /\ LossOK(t1)
    <2>1. Follows(t, ask) /\ Tells(ask) /\ LossOK(ask)
      BY <1>1, RequestFollows, RequestLoss
    <2> HIDE DEF ask
    <2> QED
      BY <1>1, <2>1, FollowsFact
  <1>3. end \in {t, t1, u}
    BY DEF UpdateNewRoute, Added
  <1>4. metric \in Metric
    BY <1>1, SumFact
  <1> HIDE DEF t1, metric
  <1>5. Kept(MAX(metric, INFINITY \div 2)) \in Metric
    BY <1>4, BoundsFact DEF Kept
  <1>6. r \in Route
    BY <1>1, <1>5, BoundsFact DEF Route
  <1>7. r.id = a.id /\ ~r.installed
    OBVIOUS
  <1> HIDE DEF feasible, r
  <1>8. SlotOK(t1) /\ p \notin Listed(t1) /\ t1.src[a.id] # NoSource /\ t1 \in Slot
    BY <1>1, <1>2 DEF Follows, SameRefs, SlotOK
  <1>9. /\ SlotOK(t2) /\ Listed(t2) = Listed(t1) \cup {p}
        /\ t2.rt[p] = r /\ \A q \in Paths \ {p} : t2.rt[q] = t1.rt[q]
    BY <1>6, <1>7, <1>8, AddFact
  <1>10. SameBuffers(t1, t2) /\ t2.xroute = t1.xroute
    <2> DEFINE S == retain_source(t1.src, a.id)
               R == [t1.rt EXCEPT ![p] = r]
               m == Append(t1.list, p)
    <2>1. t2 = [t1 EXCEPT !.src = S, !.rt = R, !.list = m]
      BY DEF Added
    <2> HIDE DEF S, R, m, t2
    <2> QED
      BY <1>8, <2>1, SMT DEF Slot, SameBuffers
  <1> HIDE DEF t2
  <1>11. ~t1.rt[p].installed
    <2>1. t1.rt[p].installed => p \in Listed(t1)
      BY <1>8, SlotFact DEF SlotOK, HeadOK, Listed
    <2> QED
      BY <1>8, <2>1
  <1>12. \A q \in Paths : /\ t2.rt[q].installed <=> t1.rt[q].installed
                          /\ t1.rt[q].installed => t2.rt[q] = t1.rt[q]
    BY <1>7, <1>9, <1>11
  <1>13. Loss(t2) <=> Loss(t1)
    BY <1>8, <1>9, <1>10, <1>12, SameLossFact
  <1>14. Tells(t2) /\ LossOK(t2) /\ p \in Listed(t2)
    BY <1>2, <1>9, <1>10, <1>13, StillFact
  <1>15. Tells(u) /\ LossOK(u)
    BY <1>14, ConsiderLoss
  <1> HIDE DEF u, end
  <1>16. Tells(end) /\ LossOK(end)
    BY <1>2, <1>3, <1>15
  <1> QED
    BY <1>16 DEF end

\* update_route.
LEMMA UpdateRouteLoss ==
  ASSUME NEW t, Tells(t), LossOK(t), RefsOK(t), NEW p \in Paths,
         NEW a \in Announced, NEW c \in Metric, NEW k, Obeys(k)
  PROVE  LET u == update_route(t, p, a, c, k) IN Tells(u) /\ LossOK(u)
  <1> DEFINE t1 == [t EXCEPT !.src = find_source(t.src, a.id, a.seqno)]
             known == UpdateKnownRoute(t1, p, a, c, k)
             new == UpdateNewRoute(t1, p, a, c, k)
             u == update_route(t, p, a, c, k)
  <1>1. u \in {t} \cup {v \in {known} : p \in Listed(t)} \cup {v \in {new} : p \notin Listed(t)}
    BY DEF update_route
  <1>2. a.id \in Ids /\ a.seqno \in Seqnos /\ SlotOK(t) /\ t \in Slot
    BY RibAssumption DEF Update, Tells, SlotOK
  <1>3. SlotOK(t1) /\ Listed(t1) = Listed(t) /\ t1.src[a.id] # NoSource
    BY <1>2, FindSourceFact
  <1>4. t1.rt = t.rt /\ t1.xroute = t.xroute /\ SameBuffers(t, t1)
    <2> DEFINE S == find_source(t.src, a.id, a.seqno)
    <2>1. t1 = [t EXCEPT !.src = S]
      OBVIOUS
    <2> HIDE DEF S, t1
    <2> QED
      BY <1>2, <2>1, SMT DEF Slot, SameBuffers
  <1> HIDE DEF t1
  <1>5. Tells(t1) /\ LossOK(t1)
    <2>1. Loss(t1) <=> Loss(t)
      BY <1>2, <1>3, <1>4, SameLossFact
    <2> QED
      BY <1>3, <1>4, <2>1, StillFact
  <1>6. p \in Listed(t) => Tells(known) /\ LossOK(known)
    BY <1>3, <1>5, UpdateKnownLoss
  <1>7. p \notin Listed(t) => Tells(new) /\ LossOK(new)
    <2> SUFFICES ASSUME p \notin Listed(t) PROVE Tells(new) /\ LossOK(new)
      OBVIOUS
    <2>1. p \notin Listed(t1)
      BY <1>3
    <2> QED
      BY <1>3, <1>5, <2>1, UpdateNewLoss
  <1> HIDE DEF known, new, u
  <1>8. Tells(u) /\ LossOK(u)
    BY <1>1, <1>6, <1>7
  <1> QED
    BY <1>8 DEF u

\* check_xroutes: an update follows whatever happens to our own route.
LEMMA CheckXroutesLoss ==
  ASSUME NEW t, Tells(t), LossOK(t), RefsOK(t), NEW m \in Metric, NEW prio, NEW k
  PROVE  LET u == check_xroutes(t, m, prio, k) IN Tells(u) /\ LossOK(u)
  <1>1. ASSUME NEW s, Tells(s), RefsOK(s), NEW n \in Metric,
               allow_duplicates < 0 /\ n < INFINITY => \A p \in Paths : ~s.rt[p].installed
        PROVE  LET u == [s EXCEPT !.xroute = n]
               IN  Tells(u) /\ u.xroute = n
    <2> DEFINE u == [s EXCEPT !.xroute = n]
    <2>1. SlotOK(s) /\ s \in Slot
      BY <1>1 DEF Tells, SlotOK
    <2>2. SlotOK(u) /\ u.xroute = n
      BY <1>1, <2>1, XrouteFact
    <2>3. u.told = s.told
      BY <2>1, SMT DEF Slot
    <2> HIDE DEF u
    <2>4. Tells(u) /\ u.xroute = n
      BY <1>1, <2>2, <2>3 DEF Tells
    <2> QED
      BY <2>4 DEF u
  <1>2. LET f == FlushXroute(t, k) IN Tells(f) /\ LossOK(f)
    <2> DEFINE u == [t EXCEPT !.xroute = INFINITY]
               b == find_best_route(u)
               v == IF b = NoPath THEN u ELSE install_route(u, b, k)
               w == send_update_resend(v, k)
    <2>1. FlushXroute(t, k) = w
      BY DEF FlushXroute
    <2>2. Tells(u) /\ u.xroute = INFINITY
      <3>1. INFINITY \in Metric /\ ~(INFINITY < INFINITY)
        BY BoundsFact, MetricAssumption
      <3> QED
        BY <1>1, <3>1
    <2> HIDE DEF u
    <2>3. SlotOK(u) /\ u \in Slot
      BY <2>2 DEF Tells, SlotOK
    <2>4. Tells(v)
      <3>1. CASE b = NoPath
        BY <2>2, <3>1
      <3>2. CASE b # NoPath
        <4>1. b \in Listed(u)
          BY <2>3, <3>2, BestFact
        <4>2. ~(allow_duplicates < 0 /\ u.xroute < INFINITY)
          BY <2>2, MetricAssumption
        <4> DEFINE x == install_route(u, b, k)
        <4>3. SlotOK(x) /\ SameBuffers(u, x)
          BY <2>3, <4>1, <4>2, InstallFact, MoveBuffers
        <4>4. v = x
          BY <3>2
        <4> HIDE DEF x, v
        <4> QED
          BY <2>2, <4>3, <4>4 DEF Tells, SameBuffers
      <3> QED
        BY <3>1, <3>2
    <2> HIDE DEF v
    <2>5. Tells(w) /\ LossOK(w)
      BY <2>4, SendLoss DEF LossOK
    <2> HIDE DEF w
    <2> QED
      BY <2>1, <2>5
  <1>3. ASSUME NEW s, Tells(s), LossOK(s), RefsOK(s)
        PROVE  LET u == AddXroute(s, m, prio, k) IN Tells(u) /\ LossOK(u)
    <2> DEFINE u == [s EXCEPT !.xroute = m]
               p == find_installed_route(s)
               out == uninstall_route(s, p)
               v == [out EXCEPT !.xroute = m]
               z == AddXroute(s, m, prio, k)
    <2>1. s \in Slot /\ HeadOK(s) /\ SlotOK(s)
      BY <1>3 DEF Tells, SlotOK
    <2>2. u.list = s.list /\ u.rt = s.rt
      BY <2>1, SMT DEF Slot
    <2>3. find_installed_route(u) = p
      <3> HIDE DEF u
      <3> QED
        BY <2>2 DEF find_installed_route
    <2>4. p # NoPath => p \in Paths /\ s.rt[p].installed
      BY <2>1, InstalledFact
    <2>5. p = NoPath => \A q \in Paths : ~s.rt[q].installed
      BY <2>1, PathAssumption DEF HeadOK, find_installed_route
    <2>6. p # NoPath => uninstall_route(u, p) = v
      BY <2>1, <2>4, UninstallCommutes
    <2>7. z \in {s} \cup {send_update(w, k) : w \in
                      {w \in {v} : p # NoPath} \cup
                      {w \in {u} : p = NoPath \/ ~(allow_duplicates < 0)}}
      <3> HIDE DEF v, p
      <3> QED
        BY <2>3, <2>6 DEF AddXroute
    <2>8. p # NoPath => Tells(v)
      <3> SUFFICES ASSUME p # NoPath PROVE Tells(v)
        OBVIOUS
      <3>1. /\ SlotOK(out) /\ SameRefs(s, out) /\ SameBuffers(s, out)
            /\ \A q \in Paths : ~out.rt[q].installed
        BY <2>1, <2>4, UninstallFact, MoveBuffers
      <3> HIDE DEF out
      <3>2. RefsOK(out) /\ Tells(out)
        BY <1>3, <2>1, <3>1, SameRefsOK DEF Tells, SameBuffers
      <3> QED
        BY <1>1, <3>1, <3>2
    <2>9. p = NoPath \/ ~(allow_duplicates < 0) => Tells(u)
      BY <1>1, <1>3, <2>5
    <2> HIDE DEF u, v, p, z
    <2>10. ASSUME NEW w, Tells(w) PROVE Tells(send_update(w, k)) /\ LossOK(send_update(w, k))
      BY <2>10, SendLoss DEF LossOK
    <2>11. Tells(z) /\ LossOK(z)
      BY <1>3, <2>7, <2>8, <2>9, <2>10
    <2> QED
      BY <2>11 DEF z
  <1> DEFINE f == FlushXroute(t, k)
             u == IF t.xroute < INFINITY /\ m # t.xroute THEN f ELSE t
             v == AddXroute(u, m, prio, k)
             w == check_xroutes(t, m, prio, k)
  <1>4. w \in {u, v}
    BY DEF check_xroutes
  <1>5. Tells(f) /\ LossOK(f) /\ RefsOK(f)
    BY <1>2, FlushXrouteFact DEF Tells
  <1> HIDE DEF f
  <1>6. Tells(u) /\ LossOK(u) /\ RefsOK(u)
    BY <1>5
  <1> HIDE DEF u
  <1>7. Tells(v) /\ LossOK(v)
    BY <1>3, <1>6
  <1> HIDE DEF v, w
  <1>8. Tells(w) /\ LossOK(w)
    BY <1>4, <1>6, <1>7
  <1> QED
    BY <1>8 DEF w

\* The inductive invariant.
Warns(t) == Tells(t) /\ LossOK(t)

\* A step that ends with slot t, as far as losses go.
LEMMA EndsLoss ==
  ASSUME IInv', NEW t, Warns(t), list' = t.list, rt' = t.rt, xroute' = t.xroute,
         told' = t.told, update' = t.update, resend' = t.resend
  PROVE  Warns(Table')
  <1>1. SlotOK(Table') /\ SlotOK(t)
    BY DEF IInv, Warns, Tells
  <1>2. /\ Table'.rt = rt' /\ Table'.xroute = xroute' /\ Table'.told = told'
        /\ Table'.update = update' /\ Table'.resend = resend'
    BY DEF Table
  <1> DEFINE u == Table'
  <1>3. SlotOK(u) /\ SameBuffers(t, u) /\ u.rt = t.rt /\ u.xroute = t.xroute
    BY <1>1, <1>2 DEF SameBuffers
  <1> HIDE DEF u
  <1>4. Loss(u) <=> Loss(t)
    BY <1>1, <1>3, SameLossFact
  <1>5. Warns(u)
    BY <1>3, <1>4, StillFact DEF Warns
  <1> QED
    BY <1>5 DEF u

\* Handlers that do not walk.
LEMMA HandlersLoss ==
  ASSUME IInv, IInv', Warns(Table),
         \/ \E p \in Paths, a \in Announced : ReceiveUpdate(p, a)
         \/ \E m \in Exported \cup {INFINITY} : CheckXroutes(m)
         \/ \E i \in Ifaces : FlushUpdates(i)
         \/ DoResend
  PROVE  Warns(Table')
  <1>1. ASSUME NEW p \in Paths, NEW a \in Announced, ReceiveUpdate(p, a)
        PROVE  Warns(Table')
    <2> PICK k \in Answers : Becomes(update_route(Table, p, a, cost[NeighOf[p]], k))
      BY <1>1 DEF ReceiveUpdate
    <2> DEFINE c == cost[NeighOf[p]]
               t == update_route(Table, p, a, c, k)
    <2>1. c \in Metric /\ Obeys(k)
      BY IInvFact, PathAssumption, AnswersFact
    <2>2. Becomes(t)
      OBVIOUS
    <2> HIDE DEF c
    <2>3. Warns(t)
      BY <2>1, IInvFact, UpdateRouteLoss DEF Warns
    <2> HIDE DEF t
    <2> QED
      BY <2>2, <2>3, EndsLoss DEF Becomes
  <1>2. ASSUME NEW m \in Exported \cup {INFINITY}, CheckXroutes(m)
        PROVE  Warns(Table')
    <2> PICK k \in Answers : Becomes(check_xroutes(Table, m, ExportedPrio, k))
      BY <1>2 DEF CheckXroutes
    <2> DEFINE t == check_xroutes(Table, m, ExportedPrio, k)
    <2>1. m \in Metric
      BY RibAssumption, MetricAssumption DEF Metric
    <2>2. Becomes(t)
      OBVIOUS
    <2>3. Warns(t)
      BY <2>1, IInvFact, CheckXroutesLoss DEF Warns
    <2> HIDE DEF t
    <2> QED
      BY <2>2, <2>3, EndsLoss DEF Becomes
  <1>3. ASSUME NEW i \in Ifaces, FlushUpdates(i)
        PROVE  Warns(Table')
    <2> DEFINE t == flushupdates(Table, {i})
    <2>1. Becomes(t)
      BY <1>3 DEF FlushUpdates
    <2>2. Warns(t)
      BY FlushLoss DEF Warns
    <2> HIDE DEF t
    <2> QED
      BY <2>1, <2>2, EndsLoss DEF Becomes
  <1>4. CASE DoResend
    <2> PICK k \in Answers : Becomes([send_update(Table, k) EXCEPT !.resend = @ - 1])
      BY <1>4 DEF DoResend
    <2> DEFINE u == send_update(Table, k)
               n == u.resend - 1
               t == [u EXCEPT !.resend = n]
    <2>1. Becomes(t)
      OBVIOUS
    <2>2. Tells(u) /\ u.told \subseteq u.update /\ u \in Slot /\ SlotOK(u)
      BY SendLoss DEF Warns, Tells, SlotOK
    <2>3. u.resend = resend /\ resend > 0 /\ resend \in 0 .. RESEND_MAX
      <3> DEFINE f == flushupdates(Table, k.full)
                 b == f.update \cup Table.up
      <3>1. f.resend = resend /\ f \in Slot
        BY FlushLoss, TableFact DEF Warns, Tells, SlotOK
      <3>2. u = [f EXCEPT !.update = b]
        BY DEF send_update
      <3> HIDE DEF f, b, u
      <3>3. u.resend = f.resend
        BY <3>1, <3>2, SMT DEF Slot
      <3> QED
        BY <1>4, <3>1, <3>3, IInvFact DEF DoResend
    <2>4. n \in 0 .. RESEND_MAX
      BY <2>3, TimeAssumption
    <2> HIDE DEF u, n
    <2>5. SlotOK(t)
      BY <2>2, <2>4, SlotFact, BuffersFact DEF SlotOK, BuffersOK
    <2>6. t.told = u.told /\ t.update = u.update
      BY <2>2, SMT DEF Slot
    <2> HIDE DEF t
    <2>7. Warns(t)
      BY <2>2, <2>5, <2>6 DEF Warns, Tells, LossOK, Warned
    <2> QED
      BY <2>1, <2>7, EndsLoss DEF Becomes
  <1> QED
    BY <1>1, <1>2, <1>3, <1>4

\* One iteration of a walk.
LEMMA WalkLoss ==
  ASSUME IInv, IInv', Warns(Table), WalkStep
  PROVE  Warns(Table')
  <1>1. ASSUME NEW k \in Answers, job.at \in Listed(Table),
               \/ Visit(update_route_metric(Table, job.at, cost[NeighOf[job.at]], k))
               \/ FlushAndRestart(k)
               \/ Visit(Table)
        PROVE  Warns(Table')
    <2> DEFINE c == cost[NeighOf[job.at]]
               p == job.at
               u == update_route_metric(Table, p, c, k)
               v == flush_route(Table, p, k)
    <2>1. c \in Metric /\ Obeys(k)
      BY <1>1, IInvFact, ListedPathsFact, PathAssumption, AnswersFact
    <2>2. p \in Listed(Table)
      BY <1>1
    <2>3. Becomes(u) \/ Becomes(v) \/ Becomes(Table)
      BY <1>1 DEF Visit, FlushAndRestart
    <2> HIDE DEF c, p
    <2>4. Warns(u) /\ Warns(v)
      BY <2>1, <2>2, UpdateMetricLoss, FlushRouteLoss DEF Warns
    <2> HIDE DEF u, v
    <2> QED
      BY <2>3, <2>4, EndsLoss DEF Becomes
  <1>2. ASSUME NEW k \in Answers, RetractStep(k)
        PROVE  Warns(Table')
    <2> DEFINE r == rt[job.at]
               p == job.at
               u == retract_route(Table, p, k)
               v == route_changed(u, p, r.id, route_metric(r), k)
    <2>1. p \in Listed(Table) /\ Obeys(k)
      BY <1>2, IInvFact, AnswersFact DEF RetractStep, JobOK
    <2>2. \/ Becomes(u) /\ ~(route_metric(r) # INFINITY)
          \/ Becomes(v)
          \/ Becomes(Table)
      BY <1>2 DEF RetractStep, Visit
    <2>3. r = Table.rt[p]
      BY TableFact
    <2> HIDE DEF p, r
    <2>4. Warns(v) /\ (route_metric(r) >= INFINITY => Warns(u))
      <3> DEFINE m == route_metric(Table.rt[p])
                 id == r.id
      <3>1. LET z == route_changed(u, p, id, m, k)
            IN  Warns(z) /\ (m >= INFINITY => Warns(u))
        BY <2>1, RetractLoss DEF Warns
      <3>2. m = route_metric(r)
        BY <2>3
      <3> HIDE DEF m
      <3> QED
        BY <3>1, <3>2
    <2>5. ~(route_metric(r) # INFINITY) => route_metric(r) >= INFINITY
      BY MetricAssumption
    <2> HIDE DEF u, v
    <2> QED
      BY <2>2, <2>4, <2>5, EndsLoss DEF Becomes
  <1>3. ASSUME RequestStep
        PROVE  Warns(Table')
    <2> PICK all \in BOOLEAN :
          LET ours == find_installed_route(Table) # NoPath \/ xroute < INFINITY
              t == [Table EXCEPT !.update =
                      @ \cup IF all /\ ours THEN job.ifs ELSE {}]
          IN  Becomes(flushupdates(t, job.ifs))
      BY <1>3 DEF RequestStep
    <2> DEFINE ours == find_installed_route(Table) # NoPath \/ xroute < INFINITY
               new == Table.update \cup IF all /\ ours THEN job.ifs ELSE {}
               t == [Table EXCEPT !.update = new]
               u == flushupdates(t, job.ifs)
    <2>1. Becomes(u)
      OBVIOUS
    <2>2. new \in SUBSET Table.up /\ Table.update \subseteq new
      BY IInvFact, TableFact DEF JobOK
    <2> HIDE DEF new
    <2>3. SlotOK(t)
      BY <2>2, IInvFact, SlotFact, BuffersFact
    <2>4. /\ t.told = Table.told /\ t.update = new /\ t.resend = Table.resend
          /\ t.rt = Table.rt /\ t.xroute = Table.xroute
      <3> DEFINE T == Table
      <3>1. T \in Slot /\ t = [T EXCEPT !.update = new]
        BY IInvFact
      <3> HIDE DEF T, t
      <3>2. /\ t.told = T.told /\ t.update = new /\ t.resend = T.resend
            /\ t.rt = T.rt /\ t.xroute = T.xroute
        BY <3>1, SMT DEF Slot
      <3> QED
        BY <3>2 DEF T
    <2> HIDE DEF t
    <2>5. Loss(t) <=> Loss(Table)
      BY <2>3, <2>4, IInvFact, SameLossFact
    <2>6. Warns(t)
      BY <2>2, <2>3, <2>4, <2>5 DEF Warns, Tells, LossOK, Warned
    <2>7. Warns(u)
      BY <2>6, FlushLoss DEF Warns
    <2> HIDE DEF u
    <2> QED
      BY <2>1, <2>7, EndsLoss DEF Becomes
  <1>4. ASSUME NEW k \in Answers, MetricStep(k) \/ FlushStep(k) \/ ExpireStep(k)
        PROVE  Warns(Table')
    <2>1. job.at \in Listed(Table)
      BY <1>4, IInvFact DEF MetricStep, FlushStep, ExpireStep, JobOK
    <2>2. \/ Visit(update_route_metric(Table, job.at, cost[NeighOf[job.at]], k))
          \/ FlushAndRestart(k)
          \/ Visit(Table)
      BY <1>4 DEF MetricStep, FlushStep, ExpireStep
    <2> QED
      BY <1>1, <2>1, <2>2
  <1> QED
    BY <1>2, <1>3, <1>4 DEF WalkStep

\* A step in which no route is installed, changed or lost, and in which the
\* interfaces that were told are warned as before.
LEMMA QuietLoss ==
  ASSUME IInv, IInv', Warns(Table), xroute' = xroute, resend' = resend,
         told' \subseteq told, told' \cap update \subseteq update',
         \A p \in Paths : /\ rt'[p].installed <=> rt[p].installed
                          /\ rt[p].installed => route_metric(rt'[p]) = route_metric(rt[p])
  PROVE  Warns(Table')
  <1> DEFINE u == Table'
  <1>1. SlotOK(Table) /\ SlotOK(u)
    BY DEF IInv
  <1>2. /\ u.rt = rt' /\ u.xroute = xroute' /\ u.told = told'
        /\ u.update = update' /\ u.resend = resend'
    BY DEF Table
  <1> HIDE DEF u
  <1>3. Loss(u) <=> Loss(Table)
    BY <1>1, <1>2, TableFact, SameLossFact
  <1>4. Warns(u)
    BY <1>1, <1>2, <1>3, TableFact DEF Warns, Tells, LossOK, Warned
  <1> QED
    BY <1>4 DEF u

\* Every step of the router.
LEMMA NextLoss ==
  ASSUME IInv, Warns(Table), [Next]_vars
  PROVE  Warns(Table')
  <1> USE NextFact
  <1>1. CASE \E i \in Ifaces : SendUpdate(i) \/ InterfaceDown(i) \/ InterfaceUp(i)
    BY <1>1, QuietLoss DEF SendUpdate, InterfaceDown, InterfaceUp, slot
  <1>2. CASE \E n \in Neighs : \/ \E c \in Costs : CostChange(n, c)
                               \/ WildcardRetraction(n)
                               \/ FlushNeighbour(n)
    BY <1>2, QuietLoss DEF CostChange, WildcardRetraction, FlushNeighbour, slot
  <1>3. CASE ExpireRoutes \/ ExpireSources \/ UNCHANGED vars
    BY <1>3, QuietLoss DEF ExpireRoutes, ExpireSources, slot, vars
  <1>4. CASE \/ \E p \in Paths, a \in Announced : ReceiveUpdate(p, a)
             \/ \E m \in Exported \cup {INFINITY} : CheckXroutes(m)
             \/ \E i \in Ifaces : FlushUpdates(i)
             \/ DoResend
    BY <1>4, HandlersLoss
  <1>5. CASE WalkStep
    BY <1>5, WalkLoss
  <1>6. CASE Tick
    <2> DEFINE aged(p) == IF p \in Listed(Table) THEN Aged(rt[p]) ELSE {NoRoute}
    <2>1. rt \in [Paths -> Route]
      BY IInvFact
    <2>2. \A p \in Paths : rt'[p] \in aged(p)
      BY <1>6 DEF Tick
    <2>3. \A p \in Paths \cap Listed(Table) :
            /\ rt'[p].installed = rt[p].installed
            /\ route_metric(rt'[p]) = route_metric(rt[p])
      BY <2>1, <2>2, AgedRouteFact, AgedMetricFact
    <2>4. \A p \in Paths \ Listed(Table) : ~rt'[p].installed
      BY <2>2, NoRouteFact
    <2>5. \A p \in Paths \ Listed(Table) : ~rt[p].installed
      BY TableFact, IInvFact DEF SlotOK, HeadOK, Listed
    <2>6. \A p \in Paths : /\ rt'[p].installed <=> rt[p].installed
                           /\ rt[p].installed => route_metric(rt'[p]) = route_metric(rt[p])
      BY <2>3, <2>4, <2>5
    <2> QED
      BY <1>6, <2>6, QuietLoss DEF Tick
  <1> QED
    BY <1>1, <1>2, <1>3, <1>4, <1>5, <1>6 DEF Next

\* Whatever the kernel refuses, whichever buffers are full and in whatever order
\* routes, costs, interfaces and our own route change: route_changed, route_lost,
\* check_xroutes and do_resend leave nobody who was told that we reach the
\* destination without an update to come when we no longer do.
THEOREM LossesAnnounced == Spec => []LossIsAnnounced
  <1>1. Init => IInv /\ Warns(Table)
    <2> SUFFICES ASSUME Init PROVE Warns(Table)
      BY InitFact
    <2>1. SlotOK(Table) /\ Table.told = {}
      BY InitFact, TableFact DEF Init, IInv
    <2> QED
      BY <2>1 DEF Warns, Tells, LossOK, Warned
  <1>2. IInv /\ Warns(Table) /\ [Next]_vars => (IInv /\ Warns(Table))'
    <2>1. IInv /\ [Next]_vars => IInv'
      BY NextFact
    <2>2. IInv /\ Warns(Table) /\ [Next]_vars => Warns(Table)'
      BY NextLoss
    <2> QED
      BY <2>1, <2>2
  <1>3. Warns(Table) => LossIsAnnounced
    BY TableFact DEF Warns, LossOK, Loss, Warned, LossIsAnnounced
  <1> QED
    BY <1>1, <1>2, <1>3, PTL DEF Spec

-----------------------------------------------------------------------------
(***************************************************************************)
(* The use of the routes.                                                  *)
(*                                                                         *)
(* The invariant is Used: unless we export the destination, an installed   *)
(* route is finite or no route is usable.  A handler breaks it for the one *)
(* route it works on, and restores it when it ends in route_changed or     *)
(* route_lost; UsedBut says what holds in between.  With smoothing a       *)
(* retracted route can hide a usable one from find_best_route, and with    *)
(* allow-duplicates check_xroutes can meet a second installed route: the   *)
(* theorem is about a router with neither.                                 *)
(***************************************************************************)

-----------------------------------------------------------------------------
(* Usable routes are used. *)

\* A route that find_best_route may take, and that is worth taking.
Usable(t, p) ==
  /\ route_acceptable(t, p) /\ ~SourceStale(t.src[t.rt[p].id])
  /\ route_metric(t.rt[p]) < INFINITY

\* The installed route is finite.
Reaches(t) ==
  \E p \in Paths : t.rt[p].installed /\ route_metric(t.rt[p]) < INFINITY

\* Unless we export the destination or reach it, no route outside S is usable.
UsedBut(t, S) ==
  t.xroute < INFINITY \/ Reaches(t) \/ \A p \in Listed(t) \ S : ~Usable(t, p)

Used(t) == UsedBut(t, {})

\* Two routes that differ in nothing that makes them usable.
SameRoute(r, s) ==
  /\ r.id = s.id /\ r.seqno = s.seqno /\ r.refmetric = s.refmetric
  /\ r.age = s.age /\ route_metric(r) = route_metric(s)

\* Two sources with the same feasibility distance, of the same age.
SameSource(s1, s2) ==
  \/ s1 = s2
  \/ /\ s1 # NoSource /\ s2 # NoSource
     /\ s1.seqno = s2.seqno /\ s1.metric = s2.metric /\ s1.age = s2.age

\* Slot u differs from t in nothing that matters for the use of routes other
\* than p; it may have fewer routes.
AlikeBut(t, u, p) ==
  /\ Listed(u) \ {p} \subseteq Listed(t) /\ u.xroute = t.xroute
  /\ \A q \in Paths \ {p} : /\ SameRoute(u.rt[q], t.rt[q])
                            /\ u.rt[q].installed = t.rt[q].installed
  /\ \A q \in Listed(u) \ {p} : SameSource(u.src[t.rt[q].id], t.src[t.rt[q].id])

\* Slot u differs from t in nothing that matters for the use of routes.
Alike(t, u) ==
  /\ Listed(u) \subseteq Listed(t) /\ u.xroute = t.xroute
  /\ \A q \in Paths : /\ SameRoute(u.rt[q], t.rt[q])
                      /\ u.rt[q].installed = t.rt[q].installed
  /\ \A q \in Listed(t) : SameSource(u.src[t.rt[q].id], t.src[t.rt[q].id])

\* A route is as usable as before.
LEMMA UsableFact ==
  ASSUME NEW t, NEW u, NEW p, SameRoute(u.rt[p], t.rt[p]),
         SameSource(u.src[t.rt[p].id], t.src[t.rt[p].id])
  PROVE  Usable(u, p) <=> Usable(t, p)
  <1> DEFINE r == t.rt[p]
             q == u.rt[p]
             s1 == t.src[r.id]
             s2 == u.src[q.id]
  <1>1. q.id = r.id /\ q.seqno = r.seqno /\ q.refmetric = r.refmetric /\ q.age = r.age
        /\ route_metric(q) = route_metric(r)
    BY DEF SameRoute
  <1>2. SameSource(s2, s1)
    BY <1>1
  <1> HIDE DEF q, r, s1, s2
  <1>3. update_feasible(s2, q.seqno, q.refmetric) <=> update_feasible(s1, r.seqno, r.refmetric)
    BY <1>1, <1>2 DEF update_feasible, SourceStale, SameSource
  <1>4. SourceStale(s1) <=> SourceStale(s2)
    BY <1>2 DEF SourceStale, SameSource
  <1>5. route_expired(q) <=> route_expired(r)
    BY <1>1 DEF route_expired
  <1> QED
    BY <1>1, <1>3, <1>4, <1>5 DEF Usable, route_acceptable, route_feasible, q, r, s1, s2

\* What was used is still used when nothing changes but route p, unless p was
\* the route in use; if p is not usable, nothing else is wanted.
LEMMA AlikeButFact ==
  ASSUME NEW t, Listed(t) \subseteq Paths, Used(t), NEW p \in Paths, NEW u,
         AlikeBut(t, u, p),
         ~(t.rt[p].installed /\ route_metric(t.rt[p]) < INFINITY)
  PROVE  /\ UsedBut(u, {p})
         /\ ~(p \in Listed(u) /\ Usable(u, p)) => Used(u)
  <1>1. Reaches(t) => Reaches(u)
    BY DEF Reaches, AlikeBut, SameRoute
  <1>2. \A q \in Listed(u) \ {p} : Usable(u, q) <=> Usable(t, q)
    BY UsableFact DEF AlikeBut
  <1>3. UsedBut(u, {p})
    BY <1>1, <1>2 DEF Used, UsedBut, AlikeBut
  <1> QED
    BY <1>3 DEF Used, UsedBut

\* What was used is still used when nothing changes.
LEMMA AlikeFact ==
  ASSUME NEW t, Listed(t) \subseteq Paths, Used(t), NEW u, Alike(t, u)
  PROVE  Used(u)
  <1>1. Reaches(t) => Reaches(u)
    BY DEF Reaches, Alike, SameRoute
  <1>2. \A q \in Listed(u) : Usable(u, q) <=> Usable(t, q)
    BY UsableFact DEF Alike
  <1> QED
    BY <1>1, <1>2 DEF Used, UsedBut, Alike

\* An operation that at most refreshes or improves the feasibility distance of
\* a route in use.
Keeps(t, u) ==
  /\ SlotOK(u) /\ Listed(u) = Listed(t) /\ u.rt = t.rt /\ u.xroute = t.xroute
  /\ u.src = t.src \/ Reaches(t)

\* Such operations may follow each other, and keep routes in use.
LEMMA KeepsFact ==
  /\ \A t : SlotOK(t) => Keeps(t, t)
  /\ \A t, u, v : Keeps(t, u) /\ Keeps(u, v) => Keeps(t, v)
  /\ \A t, u : Keeps(t, u) => /\ Reaches(u) <=> Reaches(t)
                              /\ Used(t) => Used(u)
                              /\ \A S : UsedBut(t, S) => UsedBut(u, S)
  <1>1. \A t, u : Keeps(t, u) => (Reaches(u) <=> Reaches(t))
    BY DEF Keeps, Reaches
  <1>2. ASSUME NEW t, NEW u, Keeps(t, u), NEW S, UsedBut(t, S) PROVE UsedBut(u, S)
    <2>1. CASE Reaches(t)
      BY <1>1, <1>2, <2>1 DEF UsedBut
    <2>2. CASE ~Reaches(t)
      <3>1. u.src = t.src /\ u.rt = t.rt /\ Listed(u) = Listed(t) /\ u.xroute = t.xroute
        BY <1>2, <2>2 DEF Keeps
      <3>2. \A p : Usable(u, p) <=> Usable(t, p)
        BY <3>1, UsableFact DEF SameRoute, SameSource
      <3> QED
        BY <1>2, <2>2, <3>1, <3>2 DEF UsedBut
    <2> QED
      BY <2>1, <2>2
  <1>3. \A t : SlotOK(t) => Keeps(t, t)
    BY DEF Keeps
  <1>4. \A t, u, v : Keeps(t, u) /\ Keeps(u, v) => Keeps(t, v)
    BY <1>1 DEF Keeps
  <1> QED
    BY <1>1, <1>2, <1>3, <1>4 DEF Used

\* flushupdates: only the announcement of a finite route moves a distance.
LEMMA FlushKeeps ==
  ASSUME NEW t, SlotOK(t), NEW ifs
  PROVE  Keeps(t, flushupdates(t, ifs))
  <1> DEFINE a == Announcement(t)
             h == find_installed_route(t)
             out == FlushTargets(t, ifs)
             allowed == {i \in out : OutMetric[i] < INFINITY}
             b1 == t.update \ ifs
             b2 == (t.told \ allowed)
                     \cup {i \in allowed : really_send_update(i, a).metric < INFINITY}
             b3 == t.sent \cup {[iface |-> i, update |-> really_send_update(i, a)] :
                                  i \in allowed}
             b4 == IF AnnouncesRoute(t) /\ out # {} THEN Advertised(t.src, a) ELSE t.src
             u == flushupdates(t, ifs)
  <1>1. u = [t EXCEPT !.update = b1, !.told = b2, !.sent = b3, !.src = b4]
    BY DEF flushupdates
  <1>2. t \in Slot /\ t.src \in [Ids -> Source \cup {NoSource}] /\ a \in Update
    BY SlotFact, AnnouncementFact DEF SlotOK
  <1>3. SlotOK(u) /\ SameRefs(t, u)
    BY FlushFact
  <1>4. b4 = t.src \/ Reaches(t)
    <2> SUFFICES ASSUME AnnouncesRoute(t), ~Reaches(t) PROVE Advertised(t.src, a) = t.src
      OBVIOUS
    <2>1. h \in Paths /\ t.rt[h].installed /\ h # NoPath
      BY <1>2, InstalledFact DEF AnnouncesRoute
    <2>2. ~(route_metric(t.rt[h]) < INFINITY)
      BY <2>1 DEF Reaches
    <2>3. a.metric = route_metric(t.rt[h])
      BY <2>1 DEF Announcement, AnnouncesRoute
    <2>4. route_metric(t.rt[h]) \in Nat /\ INFINITY \in Nat
      BY <1>2, <2>1, SlotFact, RouteMetricFact, MetricAssumption DEF Metric
    <2>5. a.metric >= INFINITY
      BY <2>2, <2>3, <2>4
    <2>6. update_source(t.src[a.id], a.seqno, a.metric) = t.src[a.id]
      BY <2>5 DEF update_source
    <2>7. a.id \in Ids
      BY <1>2 DEF Update
    <2> HIDE DEF a
    <2> QED
      BY <1>2, <2>6, <2>7 DEF Advertised
  <1> HIDE DEF b1, b2, b3, b4, u
  <1>5. u.rt = t.rt /\ u.src = b4
    BY <1>1, <1>2, SMT DEF Slot
  <1>6. Keeps(t, u)
    BY <1>3, <1>4, <1>5 DEF Keeps, SameRefs
  <1> QED
    BY <1>6 DEF u

\* Whatever only changes what is buffered, recorded or asked.
LEMMA BuffersKeep ==
  ASSUME NEW t, SlotOK(t),
         NEW b1 \in SUBSET t.up, NEW b2 \in 0 .. RESEND_MAX,
         NEW b3 \in SUBSET [to : SUBSET Neighs, id : Ids, seqno : Seqnos],
         NEW u \in {[t EXCEPT !.update = b1], [t EXCEPT !.resend = b2],
                    [t EXCEPT !.asked = b3]}
  PROVE  Keeps(t, u)
  <1>3. t \in Slot
    BY DEF SlotOK
  <1>1. SlotOK(u) /\ SameRefs(t, u)
    <2>1. CASE u = [t EXCEPT !.update = b1]
      BY <1>3, <2>1, BuffersFact
    <2>2. CASE u = [t EXCEPT !.resend = b2]
      BY <1>3, <2>2, BuffersFact
    <2>3. CASE u = [t EXCEPT !.asked = b3]
      BY <1>3, <2>3, BuffersFact
    <2> QED
      BY <2>1, <2>2, <2>3
  <1>2. u.rt = t.rt /\ u.src = t.src
    <2>1. CASE u = [t EXCEPT !.update = b1]
      BY <1>3, <2>1, SMT DEF Slot
    <2>2. CASE u = [t EXCEPT !.resend = b2]
      BY <1>3, <2>2, SMT DEF Slot
    <2>3. CASE u = [t EXCEPT !.asked = b3]
      BY <1>3, <2>3, SMT DEF Slot
    <2> QED
      BY <2>1, <2>2, <2>3
  <1> QED
    BY <1>1, <1>2 DEF Keeps, SameRefs

\* send_update and send_update_resend.
LEMMA SendKeeps ==
  ASSUME NEW t, SlotOK(t), NEW k
  PROVE  Keeps(t, send_update(t, k)) /\ Keeps(t, send_update_resend(t, k))
  <1> DEFINE u == flushupdates(t, k.full)
             v == send_update(t, k)
             w == send_update_resend(t, k)
  <1>1. Keeps(t, u) /\ SameRefs(t, u)
    BY FlushKeeps, FlushFollows DEF Follows
  <1>2. v = [u EXCEPT !.update = u.update \cup t.up]
    BY DEF send_update
  <1>3. w = [v EXCEPT !.resend = RESEND_MAX]
    BY DEF send_update_resend
  <1> HIDE DEF u, v, w
  <1>4. /\ SlotOK(u) /\ u.update \cup t.up \in SUBSET u.up /\ u.resend \in 0 .. RESEND_MAX
        /\ u.asked \in SUBSET [to : SUBSET Neighs, id : Ids, seqno : Seqnos]
    BY <1>1, SlotFact DEF Keeps, SlotOK, BuffersOK, SameRefs
  <1>5. Keeps(u, v)
    BY <1>2, <1>4, BuffersKeep
  <1>6. /\ SlotOK(v) /\ v.update \in SUBSET v.up /\ RESEND_MAX \in 0 .. RESEND_MAX
        /\ v.asked \in SUBSET [to : SUBSET Neighs, id : Ids, seqno : Seqnos]
    BY <1>5, SlotFact, TimeAssumption DEF Keeps, SlotOK, BuffersOK
  <1>7. Keeps(v, w)
    BY <1>3, <1>6, BuffersKeep
  <1>8. Keeps(t, v) /\ Keeps(t, w)
    BY <1>1, <1>5, <1>7, KeepsFact
  <1> QED
    BY <1>8 DEF v, w

\* Requests go out after the buffered updates.
LEMMA RequestKeeps ==
  ASSUME NEW t, SlotOK(t), NEW id \in Ids, t.src[id] # NoSource
  PROVE  /\ Keeps(t, send_request_resend(t, id))
         /\ \A n \in Neighs : \A force, seqno, metric :
              Keeps(t, send_unfeasible_request(t, n, force, seqno, metric, id))
  <1>1. t.src[id] \in Source
    BY SlotFact DEF SlotOK
  <1>2. WantedSeqno(t.src[id]) \in Seqnos
    BY <1>1, WantedSeqnoFact
  <1>3. ASSUME NEW ifs, NEW to \in SUBSET Neighs
        PROVE  LET u == flushupdates(t, ifs)
                   q == [to |-> to, id |-> id, seqno |-> WantedSeqno(t.src[id])]
               IN  Keeps(t, [u EXCEPT !.asked = u.asked \cup {q}])
    <2> DEFINE u == flushupdates(t, ifs)
               q == [to |-> to, id |-> id, seqno |-> WantedSeqno(t.src[id])]
               v == [u EXCEPT !.asked = u.asked \cup {q}]
    <2>1. Keeps(t, u)
      BY FlushKeeps
    <2>2. q \in [to : SUBSET Neighs, id : Ids, seqno : Seqnos]
      BY <1>2
    <2> HIDE DEF u, q
    <2>3. /\ SlotOK(u) /\ u.update \in SUBSET u.up /\ u.resend \in 0 .. RESEND_MAX
          /\ u.asked \cup {q} \in SUBSET [to : SUBSET Neighs, id : Ids, seqno : Seqnos]
      BY <2>1, <2>2, SlotFact DEF Keeps, SlotOK, BuffersOK
    <2>4. Keeps(u, v)
      BY <2>3, BuffersKeep
    <2>5. Keeps(t, v)
      BY <2>1, <2>4, KeepsFact
    <2> QED
      BY <2>5 DEF u, q
  <1>4. Keeps(t, send_request_resend(t, id))
    <2> DEFINE to == {n \in Neighs : IfOf[n] \in t.up}
               u == flushupdates(t, Ifaces)
               q == [to |-> to, id |-> id, seqno |-> WantedSeqno(t.src[id])]
    <2>1. send_request_resend(t, id) = [u EXCEPT !.asked = u.asked \cup {q}]
      BY DEF send_request_resend
    <2>2. Keeps(t, [u EXCEPT !.asked = u.asked \cup {q}])
      BY <1>3
    <2> QED
      BY <2>1, <2>2
  <1>5. ASSUME NEW n \in Neighs, NEW force, NEW seqno, NEW metric
        PROVE  Keeps(t, send_unfeasible_request(t, n, force, seqno, metric, id))
    <2> DEFINE u == flushupdates(t, {IfOf[n]})
               q == [to |-> {n}, id |-> id, seqno |-> WantedSeqno(t.src[id])]
               v == [u EXCEPT !.asked = u.asked \cup {q}]
    <2>1. send_unfeasible_request(t, n, force, seqno, metric, id) \in {t, v}
      BY DEF send_unfeasible_request
    <2>2. Keeps(t, v) /\ Keeps(t, t)
      BY <1>3, KeepsFact
    <2> HIDE DEF v
    <2> QED
      BY <2>1, <2>2
  <1> QED
    BY <1>4, <1>5

\* Triggered updates.
LEMMA TriggeredKeeps ==
  ASSUME NEW t, SlotOK(t), NEW p, NEW oldsrc, NEW oldmetric, NEW k
  PROVE  Keeps(t, send_triggered_update(t, p, oldsrc, oldmetric, k))
  <1>1. send_triggered_update(t, p, oldsrc, oldmetric, k)
          \in {t, send_update(t, k), send_update_resend(t, k)}
    BY DEF send_triggered_update
  <1> QED
    BY <1>1, SendKeeps, KeepsFact

\* Setting the installed flag of a route changes nothing else of it.
LEMMA FlagSameFact ==
  ASSUME NEW R \in [Paths -> Route], NEW p \in Paths, NEW b \in BOOLEAN
  PROVE  LET N == [R EXCEPT ![p].installed = b]
         IN  /\ N \in [Paths -> Route]
             /\ \A q \in Paths : /\ SameRoute(N[q], R[q])
                                 /\ N[q].installed = IF q = p THEN b ELSE R[q].installed
  <1> DEFINE r == [R[p] EXCEPT !.installed = b]
             N == [R EXCEPT ![p].installed = b]
  <1>1. /\ r \in Route /\ r.id = R[p].id /\ r.seqno = R[p].seqno
        /\ r.refmetric = R[p].refmetric /\ r.cost = R[p].cost /\ r.add = R[p].add
        /\ r.age = R[p].age /\ r.installed = b
    BY DEF Route
  <1>2. N = [R EXCEPT ![p] = r]
    OBVIOUS
  <1> HIDE DEF r, N
  <1>3. N \in [Paths -> Route] /\ \A q \in Paths : N[q] = IF q = p THEN r ELSE R[q]
    BY <1>1, <1>2
  <1>4. SameRoute(r, R[p])
    BY <1>1 DEF SameRoute, route_metric
  <1>5. \A q \in Paths : SameRoute(N[q], R[q])
    BY <1>3, <1>4 DEF SameRoute
  <1> QED
    BY <1>1, <1>3, <1>5 DEF N

\* switch_routes, when the kernel obeys: the route is installed, and nothing
\* else changes that makes a route usable.
LEMMA SwitchUse ==
  ASSUME NEW t, SlotOK(t), NEW p \in Listed(t), NEW k, k.bad = {},
         ~(allow_duplicates < 0 /\ t.xroute < INFINITY),
         NEW old \in {find_installed_route(t)}, ~t.rt[p].installed
  PROVE  LET u == switch_routes(t, old, p, k)
         IN  /\ SlotOK(u) /\ SameRefs(t, u) /\ u.rt[p].installed /\ u.src = t.src
             /\ \A q \in Paths : SameRoute(u.rt[q], t.rt[q])
  <1> DEFINE km == metric_to_kernel(route_metric(t.rt[old]))
             kn == metric_to_kernel(route_metric(t.rt[p]))
             F0 == KernelAdd(t.fib, p, kn)
             F == KernelModify(t.fib, old, km, p, kn)
             R1 == [t.rt EXCEPT ![old].installed = FALSE]
             R0 == [t.rt EXCEPT ![p].installed = TRUE]
             R == [R1 EXCEPT ![p].installed = TRUE]
             v0 == [t EXCEPT !.fib = F0, !.rt = R0,
                             !.list = move_installed_route(t.list, p)]
             v == [t EXCEPT !.fib = F, !.rt = R,
                            !.list = move_installed_route(t.list, p)]
             u == switch_routes(t, old, p, k)
  <1>1. t \in Slot /\ p \in Paths /\ t.rt \in [Paths -> Route] /\ TRUE \in BOOLEAN
    BY FieldsFact, SlotFact DEF SlotOK
  <1>2. SlotOK(u) /\ SameRefs(t, u)
    BY SwitchFact
  <1>3. CASE old = NoPath
    <2>1. t.list # << >> /\ ~t.rt[t.list[1]].installed
      <3>1. t.list \in Seq(Paths) /\ t.list # << >>
        BY <1>1, SlotFact DEF Listed
      <3>2. t.list[1] \in Paths
        BY <3>1
      <3> QED
        BY <1>3, <3>1, <3>2, PathAssumption DEF find_installed_route
    <2>2. u = v0
      BY <1>3, <2>1 DEF switch_routes, install_route
    <2>3. R0[p].installed /\ \A q \in Paths : SameRoute(R0[q], t.rt[q])
      BY <1>1, FlagSameFact
    <2> HIDE DEF F0, R0, u
    <2>4. u.rt = R0 /\ u.src = t.src
      BY <1>1, <2>2, SMT DEF Slot
    <2> QED
      BY <1>2, <2>3, <2>4 DEF u
  <1>4. CASE old # NoPath
    <2>1. old \in Paths /\ t.rt[old].installed
      BY <1>1, <1>4, InstalledFact
    <2>2. u = v
      BY <1>4 DEF switch_routes
    <2>3. R1 \in [Paths -> Route] /\ \A q \in Paths : SameRoute(R1[q], t.rt[q])
      BY <1>1, <2>1, FlagSameFact, Zenon
    <2> HIDE DEF R1
    <2>4. R[p].installed /\ \A q \in Paths : SameRoute(R[q], R1[q])
      BY <1>1, <2>3, FlagSameFact
    <2>5. \A q \in Paths : SameRoute(R[q], t.rt[q])
      BY <2>3, <2>4 DEF SameRoute
    <2> HIDE DEF F, R, u
    <2>6. u.rt = R /\ u.src = t.src
      BY <1>1, <2>2, SMT DEF Slot
    <2> QED
      BY <1>2, <2>4, <2>5, <2>6 DEF u
  <1> QED
    BY <1>3, <1>4

\* Without smoothing, the best route is as good as any acceptable one.
LEMMA BestUse ==
  ASSUME ~Smoothing, NEW t \in Slot
  PROVE  LET b == find_best_route(t)
         IN  /\ b # NoPath => b \in Listed(t) /\ route_feasible(t, b)
             /\ \A p \in Listed(t) : route_acceptable(t, p) =>
                  b # NoPath /\ route_metric(t.rt[b]) <= route_metric(t.rt[p])
  <1> DEFINE b == find_best_route(t)
  <1>1. \A r : route_smoothed_metric(r) = route_metric(r)
    BY DEF route_smoothed_metric
  <1>2. ASSUME NEW p \in Listed(t), route_acceptable(t, p) PROVE b # NoPath
    <2>1. b \in Paths
      BY <1>2, SmallestBestFact, FieldsFact
    <2> QED
      BY <2>1, PathAssumption
  <1> QED
    BY <1>1, <1>2, SmallestBestFact DEF route_acceptable

\* An operation that sends, and installs at most, keeps routes as usable as
\* they were, or a route in use.
Serves(t, u) ==
  /\ SlotOK(u) /\ SameRefs(t, u)
  /\ Reaches(t) => Reaches(u)
  /\ \A S : UsedBut(t, S) => UsedBut(u, S)

\* Such operations may follow each other; what keeps, serves.
LEMMA ServesFact ==
  /\ \A t : SlotOK(t) => Serves(t, t)
  /\ \A t, u, v : Serves(t, u) /\ Serves(u, v) => Serves(t, v)
  /\ \A t, u : Keeps(t, u) /\ SameRefs(t, u) => Serves(t, u)
  <1>1. \A t : SlotOK(t) => Serves(t, t)
    BY SameRefsFact DEF Serves
  <1>2. \A t, u, v : Serves(t, u) /\ Serves(u, v) => Serves(t, v)
    BY SameRefsFact DEF Serves
  <1>3. \A t, u : Keeps(t, u) /\ SameRefs(t, u) => Serves(t, u)
    BY KeepsFact DEF Serves, Keeps
  <1> QED
    BY <1>1, <1>2, <1>3

\* Sending serves.
LEMMA SendServes ==
  ASSUME NEW t, SlotOK(t), NEW k
  PROVE  /\ Serves(t, send_update(t, k)) /\ Serves(t, send_update_resend(t, k))
         /\ \A p, oldsrc, oldmetric :
              Serves(t, send_triggered_update(t, p, oldsrc, oldmetric, k))
  BY SendKeeps, SendFollows, TriggeredKeeps, TriggeredFollows, ServesFact DEF Follows

\* Metrics are numbers.
LEMMA MetricsFact ==
  ASSUME NEW t, SlotOK(t), NEW p \in Paths
  PROVE  route_metric(t.rt[p]) \in Nat /\ INFINITY \in Nat
  <1>1. t.rt[p] \in Route
    BY SlotFact DEF SlotOK
  <1> QED
    BY <1>1, RouteMetricFact, MetricAssumption DEF Metric

\* switch_routes to a finite route leaves a finite route in use; to any other,
\* when none is installed, it changes nothing of what is usable.
LEMMA SwitchServes ==
  ASSUME NEW t, SlotOK(t), NEW p \in Listed(t), NEW k, k.bad = {},
         ~(allow_duplicates < 0 /\ t.xroute < INFINITY),
         NEW old \in {find_installed_route(t)}, ~t.rt[p].installed,
         ShouldInstall(t, old, p)
  PROVE  LET u == switch_routes(t, old, p, k)
         IN  Serves(t, u) /\ (route_metric(t.rt[p]) < INFINITY => Reaches(u))
  <1> DEFINE u == switch_routes(t, old, p, k)
  <1>1. /\ SlotOK(u) /\ SameRefs(t, u) /\ u.rt[p].installed /\ u.src = t.src
        /\ \A q \in Paths : SameRoute(u.rt[q], t.rt[q])
    BY SwitchUse
  <1>2. p \in Paths /\ t \in Slot /\ Listed(t) \subseteq Paths
    BY FieldsFact, ListedPathsFact DEF SlotOK
  <1> HIDE DEF u
  <1>3. route_metric(t.rt[p]) < INFINITY => Reaches(u)
    BY <1>1, <1>2 DEF Reaches, SameRoute
  <1>4. Reaches(t) => route_metric(t.rt[p]) < INFINITY
    <2> SUFFICES ASSUME NEW q \in Paths, t.rt[q].installed PROVE old # NoPath
      BY DEF Reaches, ShouldInstall
    <2>1. t.list # << >> /\ t.list[1] = q
      BY DEF SlotOK, HeadOK
    <2> QED
      BY <2>1, PathAssumption DEF find_installed_route
  <1>5. \A q \in Listed(t) : Usable(u, q) <=> Usable(t, q)
    BY <1>1, <1>2, UsableFact DEF SameSource
  <1>6. ASSUME NEW S, UsedBut(t, S) PROVE UsedBut(u, S)
    BY <1>1, <1>3, <1>4, <1>5, <1>6 DEF UsedBut, SameRefs
  <1>7. Serves(t, u) /\ (route_metric(t.rt[p]) < INFINITY => Reaches(u))
    BY <1>1, <1>3, <1>4, <1>6 DEF Serves
  <1> QED
    BY <1>7 DEF u

\* consider_route: a route that may be used is used, or another is.
LEMMA ConsiderServes ==
  ASSUME ~Smoothing, allow_duplicates < 0,
         NEW t, SlotOK(t), NEW p \in Listed(t), NEW k, k.bad = {}
  PROVE  LET u == consider_route(t, p, k)
         IN  /\ Serves(t, u)
             /\ route_feasible(t, p) /\ t.xroute >= INFINITY
                /\ route_metric(t.rt[p]) < INFINITY => Reaches(u)
             /\ UsedBut(t, {p}) => Used(u)
  <1> DEFINE old == find_installed_route(t)
             m == switch_routes(t, old, p, k)
             v == send_triggered_update(
                    m, p, t.rt[old].id, route_metric(t.rt[old]), k)
             w == send_update(m, k)
             u == consider_route(t, p, k)
             Declined == \/ t.rt[p].installed \/ ~route_feasible(t, p)
                         \/ /\ t.xroute < INFINITY
                            /\ allow_duplicates < 0 \/ t.xroute >= allow_duplicates
                         \/ ~ShouldInstall(t, old, p)
  <1>1. p \in Paths /\ t \in Slot /\ t.xroute \in Nat /\ INFINITY \in Nat
    BY FieldsFact, SlotFact, MetricAssumption DEF SlotOK, Metric
  <1>2. Serves(t, u) /\ (~Declined /\ route_metric(t.rt[p]) < INFINITY => Reaches(u))
    <2>1. CASE Declined
      <3>1. u = t
        BY <2>1 DEF consider_route
      <3> QED
        BY <2>1, <3>1, ServesFact
    <2>2. CASE ~Declined
      <3>1. ~t.rt[p].installed /\ ShouldInstall(t, old, p)
            /\ ~(allow_duplicates < 0 /\ t.xroute < INFINITY)
        BY <2>2
      <3>2. Serves(t, m) /\ (route_metric(t.rt[p]) < INFINITY => Reaches(m))
        BY <3>1, SwitchServes
      <3>3. u \in {v, w}
        BY <2>2 DEF consider_route
      <3> HIDE DEF m
      <3>4. Serves(m, v) /\ Serves(m, w)
        BY <3>2, SendServes DEF Serves
      <3> HIDE DEF v, w, u
      <3>5. Serves(m, u)
        BY <3>3, <3>4
      <3> QED
        BY <3>2, <3>5, ServesFact DEF Serves
    <2> QED
      BY <2>1, <2>2
  <1> HIDE DEF u
  <1>3. ASSUME route_feasible(t, p), t.xroute >= INFINITY,
               route_metric(t.rt[p]) < INFINITY
        PROVE  Reaches(u)
    <2>1. CASE ~Declined
      BY <1>2, <1>3, <2>1
    <2>2. CASE t.rt[p].installed
      <3>1. Reaches(t)
        BY <1>1, <1>3, <2>2 DEF Reaches
      <3> QED
        BY <1>2, <3>1 DEF Serves
    <2>3. CASE ~ShouldInstall(t, old, p)
      <3>1. old # NoPath
        BY <2>3 DEF ShouldInstall
      <3>2. old \in Paths /\ t.rt[old].installed
        BY <1>1, <3>1, InstalledFact
      <3>3. route_metric(t.rt[old]) \in Nat /\ route_metric(t.rt[p]) \in Nat
        BY <1>1, <3>2, MetricsFact
      <3>4. \/ ~(route_metric(t.rt[old]) >= INFINITY)
            \/ ~(route_metric(t.rt[old]) > route_metric(t.rt[p]))
        BY <1>3, <2>3, <3>3 DEF ShouldInstall, route_smoothed_metric
      <3>5. route_metric(t.rt[old]) < INFINITY
        BY <1>1, <1>3, <3>3, <3>4
      <3> QED
        BY <1>2, <3>2, <3>5 DEF Serves, Reaches
    <2>4. ~(t.xroute < INFINITY)
      BY <1>1, <1>3
    <2> QED
      BY <1>3, <2>1, <2>2, <2>3, <2>4
  <1>4. ASSUME UsedBut(t, {p}) PROVE Used(u)
    <2>1. UsedBut(u, {p}) /\ u.xroute = t.xroute
      BY <1>2, <1>4 DEF Serves, SameRefs
    <2>2. CASE Usable(t, p) /\ ~(t.xroute < INFINITY)
      <3>1. Reaches(u)
        BY <1>1, <1>3, <2>2 DEF Usable, route_acceptable
      <3> QED
        BY <3>1 DEF Used, UsedBut
    <2>3. CASE t.xroute < INFINITY
      BY <2>1, <2>3 DEF Used, UsedBut
    <2>4. CASE ~Usable(t, p)
      <3>1. Used(t)
        BY <1>4, <2>4 DEF Used, UsedBut
      <3> QED
        BY <1>2, <3>1 DEF Serves, Used
    <2> QED
      BY <2>2, <2>3, <2>4
  <1>5. /\ Serves(t, u)
        /\ route_feasible(t, p) /\ t.xroute >= INFINITY
           /\ route_metric(t.rt[p]) < INFINITY => Reaches(u)
        /\ UsedBut(t, {p}) => Used(u)
    BY <1>2, <1>3, <1>4
  <1> QED
    BY <1>5 DEF u

\* route_changed: if the installed route is no good, the best one is used; if
\* another route has changed, it is used.
LEMMA ChangedServes ==
  ASSUME ~Smoothing, allow_duplicates < 0,
         NEW t, SlotOK(t), NEW p \in Listed(t), NEW oldsrc, NEW oldmetric,
         NEW k, k.bad = {}
  PROVE  LET u == route_changed(t, p, oldsrc, oldmetric, k)
         IN  /\ Serves(t, u)
             /\ t.rt[p].installed \/ UsedBut(t, {p}) => Used(u)
  <1> DEFINE b == find_best_route(t)
             better == /\ t.rt[p].installed /\ b # NoPath
                       /\ route_metric(t.rt[b]) < route_metric(t.rt[p])
             m == IF better THEN consider_route(t, b, k) ELSE t
             v == send_triggered_update(m, p, oldsrc, oldmetric, k)
             w == consider_route(m, p, k)
             u == route_changed(t, p, oldsrc, oldmetric, k)
  <1>1. /\ b # NoPath => b \in Listed(t) /\ route_feasible(t, b)
        /\ \A q \in Listed(t) : route_acceptable(t, q) =>
             b # NoPath /\ route_metric(t.rt[b]) <= route_metric(t.rt[q])
    BY BestUse DEF SlotOK
  <1>2. p \in Paths /\ t \in Slot /\ t.xroute \in Nat /\ INFINITY \in Nat
        /\ Listed(t) \subseteq Paths
    BY FieldsFact, SlotFact, MetricAssumption, ListedPathsFact DEF SlotOK, Metric
  <1>3. u = IF m.rt[p].installed THEN v ELSE w
    BY DEF route_changed
  <1>4. Serves(t, m)
    BY <1>1, ConsiderServes, ServesFact
  <1>5. better => Reaches(m)
    <2> SUFFICES ASSUME better PROVE Reaches(m)
      OBVIOUS
    <2>1. b \in Paths /\ route_metric(t.rt[b]) \in Nat /\ route_metric(t.rt[p]) \in Nat
      BY <1>1, <1>2, MetricsFact
    <2>2. route_metric(t.rt[p]) <= INFINITY
      BY <1>2, SlotFact, RouteMetricFact DEF Metric
    <2>3. ~(t.xroute < INFINITY)
      BY <1>2 DEF SlotOK, XrouteOK
    <2>4. route_metric(t.rt[b]) < INFINITY
      BY <1>2, <2>1, <2>2
    <2>5. t.xroute >= INFINITY
      BY <1>2, <2>3
    <2> QED
      BY <1>1, <2>4, <2>5, ConsiderServes
  <1>6. ~better => m = t
    OBVIOUS
  <1> HIDE DEF m
  <1>7. SlotOK(m) /\ p \in Listed(m)
    BY <1>4 DEF Serves, SameRefs
  <1>8. Serves(m, v) /\ Serves(m, w) /\ (UsedBut(m, {p}) => Used(w))
    BY <1>7, SendServes, ConsiderServes
  <1> HIDE DEF v, w, u
  <1>9. Serves(m, u)
    BY <1>3, <1>8
  <1>10. ASSUME better PROVE Used(u)
    BY <1>5, <1>9, <1>10 DEF Serves, Used, UsedBut
  <1>11. ASSUME ~better, t.rt[p].installed PROVE Used(u)
    <2>1. ASSUME NEW q \in Listed(t), Usable(t, q) PROVE Reaches(t)
      <3>1. b # NoPath /\ route_metric(t.rt[b]) <= route_metric(t.rt[q])
            /\ route_metric(t.rt[q]) < INFINITY
        BY <1>1, <2>1 DEF Usable
      <3>2. b \in Paths /\ q \in Paths
        BY <1>1, <1>2, <3>1
      <3>3. /\ route_metric(t.rt[b]) \in Nat /\ route_metric(t.rt[p]) \in Nat
            /\ route_metric(t.rt[q]) \in Nat
        BY <1>2, <3>2, MetricsFact
      <3>4. ~(route_metric(t.rt[b]) < route_metric(t.rt[p]))
        BY <1>11, <3>1
      <3>5. route_metric(t.rt[p]) < INFINITY
        BY <1>2, <3>1, <3>3, <3>4
      <3> QED
        BY <1>2, <1>11, <3>5 DEF Reaches
    <2>2. Used(t)
      BY <2>1 DEF Used, UsedBut
    <2> QED
      BY <1>6, <1>9, <1>11, <2>2 DEF Serves, Used
  <1>12. ASSUME ~t.rt[p].installed, UsedBut(t, {p}) PROVE Used(u)
    <2>1. m = t /\ u = w
      BY <1>3, <1>6, <1>12
    <2> QED
      BY <1>8, <1>12, <2>1
  <1>13. Serves(t, u) /\ (t.rt[p].installed \/ UsedBut(t, {p}) => Used(u))
    BY <1>4, <1>9, <1>10, <1>11, <1>12, ServesFact
  <1> QED
    BY <1>13 DEF u

\* route_lost: the best route is used, whatever was used before.
LEMMA LostServes ==
  ASSUME ~Smoothing, allow_duplicates < 0,
         NEW t, SlotOK(t), NEW id \in Ids, t.src[id] # NoSource, NEW oldmetric,
         NEW k, k.bad = {}
  PROVE  LET u == route_lost(t, id, oldmetric, k)
         IN  Serves(t, u) /\ Used(u)
  <1> DEFINE b == find_best_route(t)
             v == send_update_resend(t, k)
             w == send_request_resend(v, id)
             u == route_lost(t, id, oldmetric, k)
  <1>1. /\ b # NoPath => b \in Listed(t) /\ route_feasible(t, b)
        /\ \A q \in Listed(t) : route_acceptable(t, q) =>
             b # NoPath /\ route_metric(t.rt[b]) <= route_metric(t.rt[q])
    BY BestUse DEF SlotOK
  <1>2. t \in Slot /\ t.xroute \in Nat /\ INFINITY \in Nat /\ Listed(t) \subseteq Paths
    BY SlotFact, MetricAssumption, ListedPathsFact DEF SlotOK, Metric
  <1>3. CASE b = NoPath
    <2>1. Used(t)
      BY <1>1, <1>3 DEF Used, UsedBut, Usable
    <2>2. u \in {t, v, w}
      BY <1>3 DEF route_lost
    <2>3. Serves(t, v)
      BY SendServes
    <2> HIDE DEF v
    <2>4. SlotOK(v) /\ v.src[id] # NoSource
      BY <2>3 DEF Serves, SameRefs
    <2>5. Serves(v, w)
      BY <2>4, RequestKeeps, RequestFollows, ServesFact DEF Follows
    <2> HIDE DEF w, u
    <2>6. Serves(t, u)
      BY <2>2, <2>3, <2>5, ServesFact
    <2>7. Serves(t, u) /\ Used(u)
      BY <2>1, <2>6 DEF Serves, Used
    <2> QED
      BY <2>7 DEF u
  <1>4. CASE b # NoPath
    <2>1. u = consider_route(t, b, k)
      BY <1>4 DEF route_lost
    <2>2. /\ Serves(t, u) /\ (UsedBut(t, {b}) => Used(u))
          /\ t.xroute >= INFINITY /\ route_metric(t.rt[b]) < INFINITY => Reaches(u)
      BY <1>1, <1>4, <2>1, ConsiderServes
    <2> HIDE DEF u
    <2>3. CASE \E q \in Listed(t) : Usable(t, q)
      <3>1. PICK q \in Listed(t) : Usable(t, q)
        BY <2>3
      <3>2. route_metric(t.rt[b]) <= route_metric(t.rt[q])
            /\ route_metric(t.rt[q]) < INFINITY
        BY <1>1, <3>1 DEF Usable
      <3>3. route_metric(t.rt[b]) \in Nat /\ route_metric(t.rt[q]) \in Nat
        BY <1>1, <1>2, <1>4, MetricsFact
      <3>4. route_metric(t.rt[b]) < INFINITY
        BY <1>2, <3>2, <3>3
      <3>5. t.xroute < INFINITY \/ t.xroute >= INFINITY
        BY <1>2
      <3>6. Used(u)
        BY <2>2, <3>4, <3>5 DEF Serves, SameRefs, Used, UsedBut
      <3> QED
        BY <2>2, <3>6 DEF u
    <2>4. CASE ~\E q \in Listed(t) : Usable(t, q)
      <3>1. UsedBut(t, {b})
        BY <2>4 DEF UsedBut
      <3> QED
        BY <2>2, <3>1 DEF u
    <2> QED
      BY <2>3, <2>4
  <1> QED
    BY <1>3, <1>4

-----------------------------------------------------------------------------
(* The operations on one route, and the use of routes. *)

\* Changes of one route may follow each other.
LEMMA AlikeButTrans ==
  ASSUME NEW t, NEW u, NEW v, NEW p, AlikeBut(t, u, p), AlikeBut(u, v, p),
         Listed(v) \subseteq Paths
  PROVE  AlikeBut(t, v, p)
  <1>1. Listed(v) \ {p} \subseteq Listed(t) /\ v.xroute = t.xroute
    BY DEF AlikeBut
  <1>2. \A q \in Paths \ {p} : /\ SameRoute(v.rt[q], t.rt[q])
                               /\ v.rt[q].installed = t.rt[q].installed
    BY DEF AlikeBut, SameRoute
  <1>3. ASSUME NEW q \in Listed(v) \ {p}
        PROVE  SameSource(v.src[t.rt[q].id], t.src[t.rt[q].id])
    <2>1. u.rt[q].id = t.rt[q].id /\ q \in Listed(u) \ {p}
      BY <1>3 DEF AlikeBut, SameRoute
    <2>2. SameSource(v.src[t.rt[q].id], u.src[t.rt[q].id])
      BY <1>3, <2>1 DEF AlikeBut
    <2>3. SameSource(u.src[t.rt[q].id], t.src[t.rt[q].id])
      BY <2>1 DEF AlikeBut
    <2> QED
      BY <2>2, <2>3 DEF SameSource
  <1> QED
    BY <1>1, <1>2, <1>3 DEF AlikeBut

\* Sources with other counts are as good.
LEMMA CountsFact ==
  ASSUME NEW S1, NEW S2, SameDistances(S1, S2), NEW id \in Ids
  PROVE  SameSource(S2[id], S1[id])
  BY DEF SameDistances, SameSource

\* release_source changes nothing that makes a route usable.
LEMMA ReleaseUse ==
  ASSUME NEW t, SlotOK(t), Used(t), NEW id \in Ids, t.src[id] # NoSource,
         NEW u, u = Released(t, id)
  PROVE  Used(u)
  <1> DEFINE S == release_source(t.src, id)
  <1>1. t \in Slot /\ t.src \in [Ids -> Source \cup {NoSource}] /\ Listed(t) \subseteq Paths
    BY SlotFact, ListedPathsFact DEF SlotOK
  <1>2. u.list = t.list /\ u.rt = t.rt /\ u.xroute = t.xroute
    BY ReleaseFact
  <1>3. SameDistances(t.src, S)
    BY <1>1, CountFact
  <1>4. u = [t EXCEPT !.src = S]
    BY DEF Released
  <1> HIDE DEF S
  <1>5. u.src = S
    BY <1>1, <1>4, SMT DEF Slot
  <1>6. \A q \in Listed(t) : t.rt[q].id \in Ids
    BY ListedFact
  <1>7. Alike(t, u)
    BY <1>2, <1>3, <1>5, <1>6, CountsFact DEF Alike, SameRoute, Listed
  <1> QED
    BY <1>1, <1>7, AlikeFact

\* change_route_metric, when the kernel obeys, changes one route only.
LEMMA ChangeUse ==
  ASSUME NEW t, SlotOK(t), NEW p \in Paths, NEW refmetric \in Metric,
         NEW c \in Metric, NEW add \in Metric, NEW k, k.bad = {}
  PROVE  LET u == change_route_metric(t, p, refmetric, c, add, k)
         IN  /\ SlotOK(u) /\ SameRefs(t, u) /\ AlikeBut(t, u, p)
             /\ u.rt[p].installed = t.rt[p].installed
             /\ u.rt[p].refmetric = refmetric /\ u.rt[p].id = t.rt[p].id
             /\ u.rt[p].seqno = t.rt[p].seqno /\ u.rt[p].age = t.rt[p].age
             /\ u.src = t.src
             /\ \A q \in Paths \ {p} : u.rt[q] = t.rt[q]
  <1> DEFINE u == change_route_metric(t, p, refmetric, c, add, k)
  <1>1. SlotOK(u) /\ SameRefs(t, u)
    BY ChangeMetricFact
  <1>2. /\ u.src = t.src /\ \A q \in Paths \ {p} : u.rt[q] = t.rt[q]
        /\ u.rt[p].installed = t.rt[p].installed /\ u.rt[p].refmetric = refmetric
        /\ u.rt[p].id = t.rt[p].id /\ u.rt[p].seqno = t.rt[p].seqno
        /\ u.rt[p].age = t.rt[p].age
    BY ChangeFieldsFact DEF SlotOK
  <1> HIDE DEF u
  <1>3. AlikeBut(t, u, p)
    BY <1>1, <1>2 DEF AlikeBut, SameRefs, SameRoute, SameSource
  <1> QED
    BY <1>1, <1>2, <1>3 DEF u

\* Route p has changed: route_changed keeps routes in use.
LEMMA ChangedAfter ==
  ASSUME ~Smoothing, allow_duplicates < 0,
         NEW t, SlotOK(t), Used(t), NEW p \in Paths, NEW u, SlotOK(u),
         p \in Listed(u), AlikeBut(t, u, p),
         u.rt[p].installed = t.rt[p].installed,
         NEW oldsrc, NEW oldmetric, NEW k, k.bad = {}
  PROVE  LET v == route_changed(u, p, oldsrc, oldmetric, k)
         IN  SlotOK(v) /\ SameRefs(u, v) /\ Used(v)
  <1> DEFINE v == route_changed(u, p, oldsrc, oldmetric, k)
  <1>1. Serves(u, v) /\ (u.rt[p].installed \/ UsedBut(u, {p}) => Used(v))
    BY ChangedServes
  <1> HIDE DEF v
  <1>2. ~t.rt[p].installed => UsedBut(u, {p})
    BY ListedPathsFact, AlikeButFact
  <1>3. SlotOK(v) /\ SameRefs(u, v) /\ Used(v)
    BY <1>1, <1>2 DEF Serves
  <1> QED
    BY <1>3 DEF v

\* A retracted route is not usable.
LEMMA RetractedFact ==
  ASSUME NEW t, SlotOK(t), NEW p \in Paths, t.rt[p].refmetric = INFINITY
  PROVE  ~Usable(t, p)
  <1> DEFINE r == t.rt[p]
  <1>1. r \in Route /\ r.cost \in Nat /\ r.add \in Nat /\ INFINITY \in Nat
    BY SlotFact, MetricAssumption DEF SlotOK, Route, Metric
  <1>2. route_metric(r) = MIN(INFINITY + r.cost + r.add, INFINITY)
    BY DEF route_metric
  <1> HIDE DEF r
  <1>3. route_metric(r) = INFINITY
    BY <1>1, <1>2 DEF MIN
  <1>4. ~(route_metric(r) < INFINITY)
    BY <1>1, <1>3
  <1> QED
    BY <1>4 DEF Usable, r

\* flush_route.
LEMMA FlushRouteUse ==
  ASSUME ~Smoothing, allow_duplicates < 0,
         NEW t, SlotOK(t), Used(t), NEW p \in Listed(t), NEW k, k.bad = {}
  PROVE  Used(flush_route(t, p, k))
  <1> DEFINE r == t.rt[p]
             u == uninstall_route(t, p)
             v == [u EXCEPT !.list = Unlink(u.list, p), !.rt[p] = NoRoute]
             l == route_lost(v, r.id, route_metric(r), k)
             w == IF r.installed THEN l ELSE v
             z == Released(w, r.id)
  <1>1. /\ p \in Paths /\ r \in Route /\ r.id \in Ids
        /\ t.src[r.id] \in Source
    BY ListedFact
  <1>2. /\ SlotOK(u) /\ SameRefs(t, u) /\ u.src = t.src /\ ~u.rt[p].installed
        /\ ~r.installed => u = t
    BY <1>1, UninstallFact DEF uninstall_route
  <1>3. flush_route(t, p, k) = z
    BY DEF flush_route, Released
  <1>4. p \in Listed(u)
    BY <1>2 DEF SameRefs
  <1> HIDE DEF u
  <1>5. /\ SlotOK(v) /\ v.src = u.src /\ v.xroute = u.xroute
        /\ Listed(v) = Listed(u) \ {p}
        /\ \A q \in Paths \ {p} : v.rt[q] = u.rt[q]
    BY <1>2, <1>4, UnlinkRouteFact
  <1> HIDE DEF v
  <1>6. v.src[r.id] # NoSource
    BY <1>1, <1>2, <1>5, SourceAssumption
  <1>7. SlotOK(w) /\ Used(w) /\ w.src[r.id] # NoSource
    <2>1. CASE r.installed
      <3>1. Serves(v, l) /\ Used(l)
        BY <1>1, <1>5, <1>6, LostServes
      <3>2. w = l
        BY <2>1
      <3> HIDE DEF l, w
      <3> QED
        BY <1>1, <1>6, <3>1, <3>2 DEF Serves, SameRefs
    <2>2. CASE ~r.installed
      <3>1. u = t
        BY <1>2, <2>2
      <3>2. AlikeBut(t, v, p)
        BY <1>5, <3>1 DEF AlikeBut, SameRoute, SameSource
      <3>3. Used(v)
        BY <1>1, <1>5, <2>2, <3>2, AlikeButFact, ListedPathsFact
      <3>4. w = v
        BY <2>2
      <3> HIDE DEF w
      <3> QED
        BY <1>5, <1>6, <3>3, <3>4
    <2> QED
      BY <2>1, <2>2
  <1> HIDE DEF w
  <1>8. Used(z)
    BY <1>1, <1>7, ReleaseUse
  <1> HIDE DEF z
  <1> QED
    BY <1>3, <1>8

\* retract_route, and route_changed if the route was usable; t is what the slot
\* was before route p changed.
LEMMA RetractUse ==
  ASSUME ~Smoothing, allow_duplicates < 0,
         NEW t, SlotOK(t), Used(t), NEW p \in Paths, NEW u, SlotOK(u),
         p \in Listed(u), AlikeBut(t, u, p),
         u.rt[p].installed = t.rt[p].installed,
         NEW oldsrc, NEW oldmetric, NEW k, k.bad = {}
  PROVE  LET v == retract_route(u, p, k)
         IN  /\ Used(route_changed(v, p, oldsrc, oldmetric, k))
             /\ ~(route_metric(t.rt[p]) < INFINITY) => Used(v)
  <1> DEFINE v == retract_route(u, p, k)
  <1>1. INFINITY \in Metric /\ 0 \in Metric
    BY BoundsFact
  <1>2. /\ SlotOK(v) /\ SameRefs(u, v) /\ AlikeBut(u, v, p)
        /\ v.rt[p].installed = u.rt[p].installed /\ v.rt[p].refmetric = INFINITY
    BY <1>1, ChangeUse DEF retract_route
  <1> HIDE DEF v
  <1>3. p \in Listed(v) /\ AlikeBut(t, v, p)
    BY <1>2, AlikeButTrans, ListedPathsFact DEF SameRefs
  <1>4. Used(route_changed(v, p, oldsrc, oldmetric, k))
    BY <1>2, <1>3, ChangedAfter
  <1>5. ~(route_metric(t.rt[p]) < INFINITY) => Used(v)
    BY <1>2, <1>3, AlikeButFact, RetractedFact, ListedPathsFact
  <1> QED
    BY <1>4, <1>5 DEF v

\* update_route_metric.
LEMMA UpdateMetricUse ==
  ASSUME ~Smoothing, allow_duplicates < 0,
         NEW t, SlotOK(t), Used(t), NEW p \in Listed(t), NEW c \in Metric,
         NEW k, k.bad = {}
  PROVE  Used(update_route_metric(t, p, c, k))
  <1> DEFINE r == t.rt[p]
             seqno == seqno_plus(t.src[r.id].seqno, 1)
             newer == [r EXCEPT !.seqno = seqno]
             R == [t.rt EXCEPT ![p] = newer]
             t1 == [t EXCEPT !.rt[p].seqno = seqno]
             dead == retract_route(t1, p, k)
             live == change_route_metric(t, p, r.refmetric, c, AddMetric[p], k)
             end(v) == route_changed(v, p, r.id, route_metric(r), k)
             u == update_route_metric(t, p, c, k)
  <1>1. /\ t \in Slot /\ p \in Paths /\ r \in Route /\ r.id \in Ids
        /\ t.src[r.id] \in Source /\ t.rt \in [Paths -> Route]
        /\ Listed(t) \subseteq Paths
    BY ListedFact, SlotFact, ListedPathsFact
  <1>2. seqno \in Seqnos
    BY <1>1, SeqnoPlusFact DEF Source
  <1>3. \/ u \in {t, end(dead), end(live)}
        \/ u = dead /\ route_metric(r) >= INFINITY
        \/ u = live /\ route_metric(live.rt[p]) = route_metric(r)
    BY DEF update_route_metric
  <1>4. r.refmetric \in Metric /\ AddMetric[p] \in Metric
    BY <1>1, MetricAssumption DEF Route
  <1>5. /\ SlotOK(live) /\ SameRefs(t, live) /\ AlikeBut(t, live, p)
        /\ live.rt[p].installed = r.installed /\ live.rt[p].refmetric = r.refmetric
        /\ live.rt[p].id = r.id /\ live.rt[p].seqno = r.seqno
        /\ live.rt[p].age = r.age /\ live.src = t.src
    BY <1>1, <1>4, ChangeUse, SMTT(60)
  <1> HIDE DEF seqno, live
  <1>6. newer \in Route /\ newer.id = r.id /\ newer.installed = r.installed
    BY <1>1, <1>2 DEF Route
  <1>7. t1 = Stored(t, t.fib, p, newer)
    BY <1>1 DEF Stored, Slot
  <1> HIDE DEF newer, t1
  <1>8. /\ SlotOK(t1) /\ SameRefs(t, t1) /\ t1.rt = R
        /\ t1.src = t.src /\ t1.xroute = t.xroute
    BY <1>1, <1>6, <1>7, SlotFact, StoreSameFact, StoreFact
  <1>9. R[p] = newer /\ \A q \in Paths \ {p} : R[q] = t.rt[q]
    BY <1>1
  <1> HIDE DEF R
  <1>10. /\ AlikeBut(t, t1, p) /\ p \in Listed(t1) /\ t1.rt[p].installed = r.installed
    BY <1>6, <1>8, <1>9 DEF AlikeBut, SameRoute, SameSource, SameRefs
  <1>11. Used(end(dead)) /\ (~(route_metric(r) < INFINITY) => Used(dead))
    BY <1>1, <1>8, <1>10, RetractUse
  <1>12. p \in Listed(live)
    BY <1>5 DEF SameRefs
  <1>13. Used(end(live))
    BY <1>1, <1>5, <1>12, ChangedAfter
  <1>14. route_metric(live.rt[p]) = route_metric(r) => Used(live)
    <2> SUFFICES ASSUME route_metric(live.rt[p]) = route_metric(r) PROVE Used(live)
      OBVIOUS
    <2>1. SameRoute(live.rt[p], r)
      BY <1>5 DEF SameRoute
    <2>2. Alike(t, live)
      BY <1>5, <2>1 DEF Alike, AlikeBut, SameSource, SameRefs
    <2> QED
      BY <1>1, <2>2, AlikeFact
  <1>15. route_metric(r) >= INFINITY => ~(route_metric(r) < INFINITY)
    BY <1>1, MetricsFact
  <1> HIDE DEF end, dead, u, r
  <1>16. Used(u)
    BY <1>3, <1>11, <1>13, <1>14, <1>15
  <1> QED
    BY <1>16 DEF u

\* An update for a route of the list.
LEMMA UpdateKnownUse ==
  ASSUME ~Smoothing, allow_duplicates < 0,
         NEW t, SlotOK(t), Used(t), NEW p \in Listed(t), NEW a \in Announced,
         t.src[a.id] # NoSource, NEW c \in Metric, NEW k, k.bad = {}
  PROVE  Used(UpdateKnownRoute(t, p, a, c, k))
  <1> DEFINE r == t.rt[p]
             oldmetric == route_metric(r)
             feasible == update_feasible(t.src[a.id], a.seqno, a.metric)
             lost == ~feasible /\ r.installed /\ a.id # r.id
             refreshed == (feasible \/ keep_unfeasible) /\ a.metric < INFINITY
             t1 == IF lost THEN uninstall_route(t, p) ELSE t
             age == IF refreshed THEN 0 ELSE r.age
             r2 == [t1.rt[p] EXCEPT !.id = a.id, !.seqno = a.seqno, !.age = age]
             t2 == Replaced(t1, p, a.id, r2)
             t3 == change_route_metric(t2, p, a.metric, c, AddMetric[p], k)
             t4 == route_changed(t3, p, r.id, oldmetric, k)
             t5 == IF lost THEN route_lost(t4, r.id, oldmetric, k) ELSE t4
             ask == send_unfeasible_request(
                      t5, NeighOf[p], t5.rt[p].installed /\ route_old(t5.rt[p]),
                      a.seqno, MIN(a.metric + c + AddMetric[p], INFINITY), a.id)
             t6 == IF feasible THEN t5 ELSE ask
             u == Released(t6, r.id)
  <1>1. /\ p \in Paths /\ r \in Route /\ r.id \in Ids
        /\ t.src[r.id] # NoSource /\ t \in Slot
    BY ListedFact, SourceAssumption
  <1>2. a \in Update /\ a.id \in Ids /\ a.seqno \in Seqnos /\ a.metric \in Metric
        /\ AddMetric[p] \in Metric /\ NeighOf[p] \in Neighs
    BY <1>1, RibAssumption, MetricAssumption, PathAssumption DEF Update
  <1>3. SlotOK(t1) /\ SameRefs(t, t1) /\ t1.src = t.src /\ (~lost => t1 = t)
    BY <1>1, UninstallFact, SameRefsFact
  <1> HIDE DEF t1
  <1>4. p \in Listed(t1) /\ t1.rt[p] \in Route /\ t1.src[a.id] # NoSource
    BY <1>2, <1>3, ListedFact DEF SameRefs
  <1>5. age \in 0 .. MaxAge
    BY <1>1, BoundsFact DEF Route
  <1> HIDE DEF age
  <1>6. r2 \in Route
    BY <1>2, <1>4, <1>5, Zenon DEF Route
  <1>7. r2.id = a.id /\ r2.installed = t1.rt[p].installed
    BY <1>4, SMT DEF Route
  <1>8. UpdateKnownRoute(t, p, a, c, k) = u
    BY DEF UpdateKnownRoute, Replaced, Released, t1, age
  <1> HIDE DEF r2
  <1>9. /\ SlotOK(t2) /\ Listed(t2) = Listed(t1) /\ t2.xroute = t1.xroute
        /\ t2.rt[p] = r2 /\ \A q \in Paths \ {p} : t2.rt[q] = t1.rt[q]
        /\ \A i \in Ids : t2.src[i] = NoSource <=> t1.src[i] = NoSource
    BY <1>3, <1>4, <1>6, <1>7, ReplaceFact
  <1>10. SameDistances(t1.src, t2.src)
    <2> DEFINE S == retain_source(t1.src, a.id)
               R == [t1.rt EXCEPT ![p] = r2]
    <2>1. t2 = [t1 EXCEPT !.src = S, !.rt = R] /\ t1 \in Slot
      BY <1>3 DEF Replaced, SlotOK
    <2>2. SameDistances(t1.src, S)
      BY <1>2, <1>4, <2>1, SlotFact, CountFact
    <2> HIDE DEF S, R, t2
    <2>3. t2.src = S
      BY <2>1, SMT DEF Slot
    <2> QED
      BY <2>2, <2>3
  <1> HIDE DEF t2
  <1>11. p \in Listed(t2) /\ t2.src[r.id] # NoSource /\ t2.src[a.id] # NoSource
    BY <1>1, <1>2, <1>3, <1>4, <1>9
  <1>12. AlikeBut(t1, t2, p)
    <2>1. \A q \in Listed(t1) : t1.rt[q].id \in Ids
      BY <1>3, ListedFact
    <2>2. \A q \in Listed(t1) : SameSource(t2.src[t1.rt[q].id], t1.src[t1.rt[q].id])
      BY <1>10, <2>1, CountsFact
    <2>3. \A q \in Paths \ {p} : t2.rt[q] = t1.rt[q]
      BY <1>9
    <2>4. Listed(t2) = Listed(t1) /\ t2.xroute = t1.xroute
      BY <1>9
    <2> QED
      BY <2>2, <2>3, <2>4 DEF AlikeBut, SameRoute
  <1>13. /\ SlotOK(t3) /\ SameRefs(t2, t3) /\ AlikeBut(t2, t3, p)
         /\ t3.rt[p].installed = t2.rt[p].installed
    <2> DEFINE m == a.metric
               add == AddMetric[p]
    <2>1. /\ SlotOK(t2) /\ p \in Paths /\ m \in Metric /\ add \in Metric
          /\ t3 = change_route_metric(t2, p, m, c, add, k)
      BY <1>1, <1>2, <1>9
    <2> HIDE DEF m, add, t3
    <2> QED
      BY <2>1, ChangeUse, SMTT(60)
  <1> HIDE DEF t3
  <1>14. /\ p \in Listed(t3) /\ t3.src[r.id] # NoSource /\ t3.src[a.id] # NoSource
         /\ Listed(t3) \subseteq Paths
    BY <1>1, <1>2, <1>11, <1>13, ListedPathsFact DEF SameRefs
  <1>15. AlikeBut(t1, t3, p)
    BY <1>12, <1>13, <1>14, AlikeButTrans
  <1>16. SlotOK(t4) /\ SameRefs(t3, t4)
    BY <1>13, <1>14, RouteChangedFact
  <1>17. ~lost => Used(t4)
    <2> SUFFICES ASSUME ~lost PROVE Used(t4)
      OBVIOUS
    <2>1. AlikeBut(t, t3, p) /\ t3.rt[p].installed = r.installed
      BY <1>3, <1>7, <1>9, <1>13, <1>15
    <2> QED
      BY <1>1, <1>13, <1>14, <2>1, ChangedAfter
  <1> HIDE DEF t4, oldmetric
  <1>18. t4.src[r.id] # NoSource /\ t4.src[a.id] # NoSource
    BY <1>1, <1>2, <1>14, <1>16 DEF SameRefs
  <1>19. SlotOK(t5) /\ Used(t5) /\ t5.src[r.id] # NoSource /\ t5.src[a.id] # NoSource
    <2> DEFINE l == route_lost(t4, r.id, oldmetric, k)
    <2>1. Serves(t4, l) /\ Used(l)
      BY <1>1, <1>16, <1>18, LostServes
    <2>2. t5 = IF lost THEN l ELSE t4
      OBVIOUS
    <2> HIDE DEF l, t5
    <2>3. SlotOK(l) /\ l.src[r.id] # NoSource /\ l.src[a.id] # NoSource
      BY <1>1, <1>2, <1>18, <2>1 DEF Serves, SameRefs
    <2> QED
      BY <1>16, <1>17, <1>18, <2>1, <2>2, <2>3
  <1> HIDE DEF t5, lost
  <1>20. SlotOK(ask) /\ Used(ask) /\ ask.src[r.id] # NoSource
    <2>1. Keeps(t5, ask) /\ SameRefs(t5, ask)
      BY <1>2, <1>19, RequestKeeps, RequestFollows DEF Follows
    <2> HIDE DEF ask
    <2>2. Used(ask)
      BY <1>19, <2>1, KeepsFact
    <2> QED
      BY <1>1, <1>19, <2>1, <2>2 DEF Keeps, SameRefs
  <1> HIDE DEF ask
  <1>21. SlotOK(t6) /\ Used(t6) /\ t6.src[r.id] # NoSource
    BY <1>19, <1>20
  <1> HIDE DEF t6
  <1>22. Used(u)
    BY <1>1, <1>21, ReleaseUse
  <1> HIDE DEF u
  <1> QED
    BY <1>8, <1>22

\* An update for a route that is not in the list.
LEMMA UpdateNewUse ==
  ASSUME ~Smoothing, allow_duplicates < 0,
         NEW t, SlotOK(t), Used(t), NEW p \in Paths, p \notin Listed(t),
         NEW a \in Announced, t.src[a.id] # NoSource, NEW c \in Metric,
         NEW k, k.bad = {}
  PROVE  Used(UpdateNewRoute(t, p, a, c, k))
  <1> DEFINE feasible == update_feasible(t.src[a.id], a.seqno, a.metric)
             metric == MIN(a.metric + c + AddMetric[p], INFINITY)
             ask == send_unfeasible_request(
                      t, NeighOf[p], FALSE, a.seqno, metric, a.id)
             t1 == IF feasible THEN t ELSE ask
             r == [id |-> a.id, seqno |-> a.seqno, refmetric |-> a.metric,
                   cost |-> c, add |-> AddMetric[p],
                   smoothed |-> Kept(MAX(metric, INFINITY \div 2)),
                   age |-> 0, installed |-> FALSE]
             t2 == Added(t1, p, a.id, r)
             u == consider_route(t2, p, k)
             end == UpdateNewRoute(t, p, a, c, k)
  <1>1. a \in Update /\ a.id \in Ids /\ a.seqno \in Seqnos /\ a.metric \in Metric
        /\ AddMetric[p] \in Metric /\ NeighOf[p] \in Neighs
    BY RibAssumption, MetricAssumption, PathAssumption DEF Update
  <1>2. SlotOK(t1) /\ SameRefs(t, t1) /\ Used(t1)
    <2>1. Keeps(t, ask) /\ SameRefs(t, ask)
      BY <1>1, RequestKeeps, RequestFollows DEF Follows
    <2> HIDE DEF ask
    <2>2. SlotOK(ask) /\ Used(ask)
      BY <2>1, KeepsFact DEF Keeps
    <2> QED
      BY <2>1, <2>2, SameRefsFact
  <1>3. end \in {t, t1, u}
    BY DEF UpdateNewRoute, Added
  <1>4. metric \in Metric
    BY <1>1, SumFact
  <1> HIDE DEF t1, metric
  <1>5. Kept(MAX(metric, INFINITY \div 2)) \in Metric
    BY <1>4, BoundsFact DEF Kept
  <1>6. r \in Route
    BY <1>1, <1>5, BoundsFact DEF Route
  <1>7. r.id = a.id /\ ~r.installed
    OBVIOUS
  <1> HIDE DEF feasible, r
  <1>8. /\ p \notin Listed(t1) /\ t1.src[a.id] # NoSource /\ t1 \in Slot
        /\ Listed(t1) \subseteq Paths
    BY <1>1, <1>2, ListedPathsFact DEF SameRefs, SlotOK
  <1>9. /\ SlotOK(t2) /\ Listed(t2) = Listed(t1) \cup {p} /\ t2.xroute = t1.xroute
        /\ t2.rt[p] = r /\ \A q \in Paths \ {p} : t2.rt[q] = t1.rt[q]
    BY <1>2, <1>6, <1>7, <1>8, AddFact
  <1>10. SameDistances(t1.src, t2.src)
    <2> DEFINE S == retain_source(t1.src, a.id)
               R == [t1.rt EXCEPT ![p] = r]
               m == Append(t1.list, p)
    <2>1. t2 = [t1 EXCEPT !.src = S, !.rt = R, !.list = m]
      BY DEF Added
    <2>2. SameDistances(t1.src, S)
      BY <1>1, <1>8, SlotFact, CountFact
    <2> HIDE DEF S, R, m, t2
    <2>3. t2.src = S
      BY <1>8, <2>1, SMT DEF Slot
    <2> QED
      BY <2>2, <2>3
  <1> HIDE DEF t2
  <1>11. ~t1.rt[p].installed
    <2>1. t1.rt[p].installed => p \in Listed(t1)
      BY <1>2, SlotFact DEF SlotOK, HeadOK, Listed
    <2> QED
      BY <1>8, <2>1
  <1>12. AlikeBut(t1, t2, p)
    <2>1. \A q \in Listed(t1) : t1.rt[q].id \in Ids
      BY <1>2, ListedFact
    <2> QED
      BY <1>9, <1>10, <2>1, CountsFact DEF AlikeBut, SameRoute
  <1>13. UsedBut(t2, {p}) /\ p \in Listed(t2)
    BY <1>2, <1>8, <1>9, <1>11, <1>12, AlikeButFact
  <1>14. Used(u)
    BY <1>9, <1>13, ConsiderServes
  <1> HIDE DEF u, end
  <1>15. Used(end)
    BY <1>2, <1>3, <1>14
  <1> QED
    BY <1>15 DEF end

\* update_route.
LEMMA UpdateRouteUse ==
  ASSUME ~Smoothing, allow_duplicates < 0,
         NEW t, SlotOK(t), RefsOK(t), Used(t), NEW p \in Paths,
         NEW a \in Announced, NEW c \in Metric, NEW k, k.bad = {}
  PROVE  Used(update_route(t, p, a, c, k))
  <1> DEFINE t1 == [t EXCEPT !.src = find_source(t.src, a.id, a.seqno)]
             known == UpdateKnownRoute(t1, p, a, c, k)
             new == UpdateNewRoute(t1, p, a, c, k)
             u == update_route(t, p, a, c, k)
  <1>1. u \in {t} \cup {v \in {known} : p \in Listed(t)} \cup {v \in {new} : p \notin Listed(t)}
    BY DEF update_route
  <1>2. a.id \in Ids /\ a.seqno \in Seqnos /\ t \in Slot /\ Listed(t) \subseteq Paths
    BY RibAssumption, ListedPathsFact DEF Update, SlotOK
  <1>3. SlotOK(t1) /\ Listed(t1) = Listed(t) /\ t1.src[a.id] # NoSource
    BY <1>2, FindSourceFact
  <1>4. /\ t1.rt = t.rt /\ t1.xroute = t.xroute
        /\ \A id \in Ids : t.src[id] # NoSource => t1.src[id] = t.src[id]
    <2> DEFINE S == find_source(t.src, a.id, a.seqno)
    <2>1. t1 = [t EXCEPT !.src = S]
      OBVIOUS
    <2>2. \A id \in Ids : t.src[id] # NoSource => S[id] = t.src[id]
      BY <1>2, SlotFact DEF find_source
    <2> HIDE DEF S, t1
    <2>3. t1.rt = t.rt /\ t1.xroute = t.xroute /\ t1.src = S
      BY <1>2, <2>1, SMT DEF Slot
    <2> QED
      BY <2>2, <2>3
  <1> HIDE DEF t1
  <1>5. \A q \in Listed(t) : t1.src[t.rt[q].id] = t.src[t.rt[q].id]
    BY <1>4, ListedFact, SourceAssumption
  <1>6. Alike(t, t1)
    BY <1>3, <1>4, <1>5 DEF Alike, SameRoute, SameSource
  <1>7. Used(t1)
    BY <1>2, <1>6, AlikeFact
  <1>8. p \in Listed(t) => Used(known)
    BY <1>3, <1>7, UpdateKnownUse
  <1>9. p \notin Listed(t) => Used(new)
    BY <1>3, <1>7, UpdateNewUse
  <1> HIDE DEF known, new, u
  <1>10. Used(u)
    BY <1>1, <1>8, <1>9
  <1> QED
    BY <1>10 DEF u

\* Our own route is gone: the best route is used.
LEMMA FlushXrouteUse ==
  ASSUME ~Smoothing, allow_duplicates < 0,
         NEW t, SlotOK(t), RefsOK(t), t.xroute < INFINITY, NEW k, k.bad = {}
  PROVE  Used(FlushXroute(t, k))
  <1> DEFINE u == [t EXCEPT !.xroute = INFINITY]
             b == find_best_route(u)
             v == IF b = NoPath THEN u ELSE install_route(u, b, k)
             w == send_update_resend(v, k)
  <1>1. t \in Slot /\ HeadOK(t) /\ INFINITY \in Metric /\ ~(INFINITY < INFINITY)
    BY BoundsFact, MetricAssumption DEF SlotOK
  <1>2. \A p \in Paths : ~t.rt[p].installed
    BY DEF SlotOK, XrouteOK
  <1>3. SlotOK(u) /\ u.xroute = INFINITY
    BY <1>1, XrouteFact
  <1>4. u.rt = t.rt
    BY <1>1, SMT DEF Slot
  <1>5. FlushXroute(t, k) = w
    BY DEF FlushXroute
  <1> HIDE DEF u
  <1>6. /\ b # NoPath => b \in Listed(u) /\ route_feasible(u, b)
        /\ \A q \in Listed(u) : route_acceptable(u, q) =>
             b # NoPath /\ route_metric(u.rt[b]) <= route_metric(u.rt[q])
    BY <1>3, BestUse DEF SlotOK
  <1>7. Listed(u) \subseteq Paths /\ u \in Slot /\ \A p \in Paths : ~u.rt[p].installed
    BY <1>2, <1>3, <1>4, ListedPathsFact DEF SlotOK
  <1>8. SlotOK(v) /\ Used(v)
    <2>1. CASE b = NoPath
      BY <1>3, <1>6, <2>1 DEF Used, UsedBut, Usable
    <2>2. CASE b # NoPath
      <3> DEFINE old == find_installed_route(u)
                 x == switch_routes(u, old, b, k)
      <3>1. old = NoPath
        BY <1>7, InstalledFact
      <3>2. v = x
        BY <2>2, <3>1 DEF switch_routes
      <3>3. b \in Listed(u) /\ b \in Paths /\ ~u.rt[b].installed
            /\ ~(allow_duplicates < 0 /\ u.xroute < INFINITY)
        BY <1>1, <1>3, <1>6, <1>7, <2>2
      <3>4. ShouldInstall(u, old, b)
        BY <3>1 DEF ShouldInstall
      <3>5. Serves(u, x) /\ (route_metric(u.rt[b]) < INFINITY => Reaches(x))
        BY <1>3, <3>3, <3>4, SwitchServes
      <3> HIDE DEF x, v
      <3>6. CASE \E q \in Listed(u) : Usable(u, q)
        <4>1. PICK q \in Listed(u) : Usable(u, q)
          BY <3>6
        <4>2. route_metric(u.rt[b]) <= route_metric(u.rt[q])
              /\ route_metric(u.rt[q]) < INFINITY
          BY <1>6, <4>1 DEF Usable
        <4>3. /\ route_metric(u.rt[b]) \in Nat /\ route_metric(u.rt[q]) \in Nat
              /\ INFINITY \in Nat
          BY <1>3, <1>7, <3>3, MetricsFact
        <4>4. route_metric(u.rt[b]) < INFINITY
          BY <4>2, <4>3
        <4> QED
          BY <3>2, <3>5, <4>4 DEF Serves, Used, UsedBut
      <3>7. CASE ~\E q \in Listed(u) : Usable(u, q)
        <4>1. Used(u)
          BY <3>7 DEF Used, UsedBut
        <4> QED
          BY <3>2, <3>5, <4>1 DEF Serves, Used
      <3> QED
        BY <3>6, <3>7
    <2> QED
      BY <2>1, <2>2
  <1> HIDE DEF v
  <1>9. Used(w)
    BY <1>8, SendServes DEF Serves, Used
  <1> HIDE DEF w
  <1> QED
    BY <1>5, <1>9

\* Our own route is there: nothing else is wanted.
LEMMA AddXrouteUse ==
  ASSUME allow_duplicates < 0, NEW s, SlotOK(s), RefsOK(s), Used(s),
         NEW m \in Metric, m < INFINITY, NEW prio, NEW k
  PROVE  Used(AddXroute(s, m, prio, k))
  <1> DEFINE u == [s EXCEPT !.xroute = m]
             p == find_installed_route(s)
             out == uninstall_route(s, p)
             v == [out EXCEPT !.xroute = m]
             z == AddXroute(s, m, prio, k)
  <1>1. s \in Slot /\ HeadOK(s)
    BY DEF SlotOK
  <1>2. u.list = s.list /\ u.rt = s.rt
    BY <1>1, SMT DEF Slot
  <1>3. find_installed_route(u) = p
    <2> HIDE DEF u
    <2> QED
      BY <1>2 DEF find_installed_route
  <1>4. p # NoPath => p \in Paths /\ s.rt[p].installed
    BY <1>1, InstalledFact
  <1>5. p = NoPath => \A q \in Paths : ~s.rt[q].installed
    BY <1>1, PathAssumption DEF HeadOK, find_installed_route
  <1>6. p # NoPath => uninstall_route(u, p) = v
    BY <1>1, <1>4, UninstallCommutes
  <1>7. z \in {s} \cup {send_update(w, k) : w \in
                    {w \in {v} : p # NoPath} \cup {w \in {u} : p = NoPath}}
    <2> HIDE DEF v, p
    <2> QED
      BY <1>3, <1>6 DEF AddXroute
  <1>8. p # NoPath => SlotOK(v) /\ v.xroute = m
    <2> SUFFICES ASSUME p # NoPath PROVE SlotOK(v) /\ v.xroute = m
      OBVIOUS
    <2>1. /\ SlotOK(out) /\ SameRefs(s, out) /\ \A q \in Paths : ~out.rt[q].installed
      BY <1>1, <1>4, UninstallFact
    <2> HIDE DEF out
    <2>2. RefsOK(out)
      BY <2>1, SameRefsOK
    <2> QED
      BY <2>1, <2>2, XrouteFact
  <1>9. p = NoPath => SlotOK(u) /\ u.xroute = m
    BY <1>5, XrouteFact
  <1> HIDE DEF u, v, p, z
  <1>10. ASSUME NEW w, SlotOK(w), w.xroute = m PROVE Used(send_update(w, k))
    BY <1>10, SendServes DEF Serves, SameRefs, Used, UsedBut
  <1>11. Used(z)
    BY <1>7, <1>8, <1>9, <1>10
  <1> QED
    BY <1>11 DEF z

\* check_xroutes.
LEMMA CheckXroutesUse ==
  ASSUME ~Smoothing, allow_duplicates < 0,
         NEW t, SlotOK(t), RefsOK(t), Used(t), NEW m \in Metric, NEW prio,
         NEW k, k.bad = {}
  PROVE  Used(check_xroutes(t, m, prio, k))
  <1> DEFINE f == FlushXroute(t, k)
             u == IF t.xroute < INFINITY /\ m # t.xroute THEN f ELSE t
             v == AddXroute(u, m, prio, k)
             w == check_xroutes(t, m, prio, k)
  <1>1. w = IF m < INFINITY THEN v ELSE u
    BY DEF check_xroutes
  <1>2. t.xroute < INFINITY => SlotOK(f) /\ RefsOK(f) /\ Used(f)
    BY FlushXrouteFact, FlushXrouteUse
  <1> HIDE DEF f
  <1>3. SlotOK(u) /\ RefsOK(u) /\ Used(u)
    BY <1>2
  <1> HIDE DEF u
  <1>4. m < INFINITY => Used(v)
    BY <1>3, AddXrouteUse
  <1> HIDE DEF v, w
  <1>5. Used(w)
    BY <1>1, <1>3, <1>4
  <1> QED
    BY <1>5 DEF w

-----------------------------------------------------------------------------
(* The steps of the router, and the use of routes. *)

\* A step that ends with the routes and sources of slot t.
LEMMA EndsUse ==
  ASSUME IInv', NEW t, Used(t), list' = t.list, rt' = t.rt, src' = t.src,
         xroute' = t.xroute
  PROVE  Used(Table')
  <1> DEFINE u == Table'
  <1>1. SlotOK(u)
    BY DEF IInv
  <1>2. u.list = t.list /\ u.rt = t.rt /\ u.src = t.src /\ u.xroute = t.xroute
    BY DEF Table
  <1> HIDE DEF u
  <1>3. Alike(t, u) /\ Listed(t) \subseteq Paths
    BY <1>1, <1>2, ListedPathsFact DEF Alike, SameRoute, SameSource, Listed
  <1>4. Used(u)
    BY <1>3, AlikeFact
  <1> QED
    BY <1>4 DEF u

\* Handlers that do not walk.
LEMMA HandlersUse ==
  ASSUME ~Smoothing, allow_duplicates < 0, ~KernelMayRefuse,
         IInv, IInv', Used(Table),
         \/ \E p \in Paths, a \in Announced : ReceiveUpdate(p, a)
         \/ \E m \in Exported \cup {INFINITY} : CheckXroutes(m)
         \/ \E i \in Ifaces : FlushUpdates(i)
         \/ DoResend
  PROVE  Used(Table')
  <1>1. ASSUME NEW p \in Paths, NEW a \in Announced, ReceiveUpdate(p, a)
        PROVE  Used(Table')
    <2> PICK k \in Answers : Becomes(update_route(Table, p, a, cost[NeighOf[p]], k))
      BY <1>1 DEF ReceiveUpdate
    <2> DEFINE c == cost[NeighOf[p]]
               t == update_route(Table, p, a, c, k)
    <2>1. c \in Metric /\ k.bad = {}
      BY IInvFact, PathAssumption, AnswersFact DEF Obeys
    <2>2. Becomes(t)
      OBVIOUS
    <2> HIDE DEF c
    <2>3. Used(t)
      BY <2>1, IInvFact, UpdateRouteUse
    <2> HIDE DEF t
    <2> QED
      BY <2>2, <2>3, EndsUse DEF Becomes
  <1>2. ASSUME NEW m \in Exported \cup {INFINITY}, CheckXroutes(m)
        PROVE  Used(Table')
    <2> PICK k \in Answers : Becomes(check_xroutes(Table, m, ExportedPrio, k))
      BY <1>2 DEF CheckXroutes
    <2> DEFINE t == check_xroutes(Table, m, ExportedPrio, k)
    <2>1. m \in Metric /\ k.bad = {}
      BY RibAssumption, MetricAssumption, AnswersFact DEF Metric, Obeys
    <2>2. Becomes(t)
      OBVIOUS
    <2>3. Used(t)
      BY <2>1, IInvFact, CheckXroutesUse
    <2> HIDE DEF t
    <2> QED
      BY <2>2, <2>3, EndsUse DEF Becomes
  <1>3. ASSUME NEW i \in Ifaces, FlushUpdates(i)
        PROVE  Used(Table')
    <2> DEFINE t == flushupdates(Table, {i})
    <2>1. Becomes(t)
      BY <1>3 DEF FlushUpdates
    <2>2. Used(t)
      BY IInvFact, FlushKeeps, KeepsFact
    <2> HIDE DEF t
    <2> QED
      BY <2>1, <2>2, EndsUse DEF Becomes
  <1>4. CASE DoResend
    <2> PICK k \in Answers : Becomes([send_update(Table, k) EXCEPT !.resend = @ - 1])
      BY <1>4 DEF DoResend
    <2> DEFINE u == send_update(Table, k)
               n == u.resend - 1
               t == [u EXCEPT !.resend = n]
    <2>1. Becomes(t)
      OBVIOUS
    <2>2. Keeps(Table, u) /\ u.resend = resend /\ resend > 0
      BY <1>4, IInvFact, SendKeeps, SendUpdateResendFact, TableFact DEF DoResend
    <2>3. n \in 0 .. RESEND_MAX
      BY <2>2, IInvFact, TimeAssumption
    <2> HIDE DEF u, n
    <2>4. /\ SlotOK(u) /\ u.update \in SUBSET u.up
          /\ u.asked \in SUBSET [to : SUBSET Neighs, id : Ids, seqno : Seqnos]
      BY <2>2, SlotFact DEF Keeps, SlotOK, BuffersOK
    <2>5. Keeps(u, t)
      BY <2>3, <2>4, BuffersKeep
    <2> HIDE DEF t
    <2>6. Used(t)
      BY <2>2, <2>5, KeepsFact
    <2> QED
      BY <2>1, <2>6, EndsUse DEF Becomes
  <1> QED
    BY <1>1, <1>2, <1>3, <1>4

\* One iteration of a walk.
LEMMA WalkUse ==
  ASSUME ~Smoothing, allow_duplicates < 0, ~KernelMayRefuse,
         IInv, IInv', Used(Table), WalkStep
  PROVE  Used(Table')
  <1>1. ASSUME NEW k \in Answers, job.at \in Listed(Table),
               \/ Visit(update_route_metric(Table, job.at, cost[NeighOf[job.at]], k))
               \/ FlushAndRestart(k)
               \/ Visit(Table)
        PROVE  Used(Table')
    <2> DEFINE c == cost[NeighOf[job.at]]
               p == job.at
               u == update_route_metric(Table, p, c, k)
               v == flush_route(Table, p, k)
    <2>1. c \in Metric /\ k.bad = {}
      BY <1>1, IInvFact, ListedPathsFact, PathAssumption, AnswersFact DEF Obeys
    <2>2. p \in Listed(Table)
      BY <1>1
    <2>3. Becomes(u) \/ Becomes(v) \/ Becomes(Table)
      BY <1>1 DEF Visit, FlushAndRestart
    <2> HIDE DEF c, p
    <2>4. Used(u) /\ Used(v)
      BY <2>1, <2>2, IInvFact, UpdateMetricUse, FlushRouteUse
    <2> HIDE DEF u, v
    <2> QED
      BY <2>3, <2>4, EndsUse DEF Becomes
  <1>2. ASSUME NEW k \in Answers, RetractStep(k)
        PROVE  Used(Table')
    <2> DEFINE r == rt[job.at]
               p == job.at
               u == retract_route(Table, p, k)
               v == route_changed(u, p, r.id, route_metric(r), k)
    <2>1. p \in Listed(Table) /\ p \in Paths /\ k.bad = {}
      BY <1>2, IInvFact, ListedPathsFact, AnswersFact DEF RetractStep, JobOK, Obeys
    <2>2. \/ Becomes(u) /\ ~(route_metric(r) # INFINITY)
          \/ Becomes(v)
          \/ Becomes(Table)
      BY <1>2 DEF RetractStep, Visit
    <2>3. r = Table.rt[p]
      BY TableFact
    <2> HIDE DEF p, r
    <2>4. AlikeBut(Table, Table, p)
      BY DEF AlikeBut, SameRoute, SameSource
    <2>5. Used(v) /\ (~(route_metric(r) < INFINITY) => Used(u))
      BY <2>1, <2>3, <2>4, IInvFact, RetractUse
    <2>6. ~(route_metric(r) # INFINITY) => ~(route_metric(r) < INFINITY)
      BY MetricAssumption
    <2> HIDE DEF u, v
    <2> QED
      BY <2>2, <2>5, <2>6, EndsUse DEF Becomes
  <1>3. ASSUME RequestStep
        PROVE  Used(Table')
    <2> PICK all \in BOOLEAN :
          LET ours == find_installed_route(Table) # NoPath \/ xroute < INFINITY
              t == [Table EXCEPT !.update =
                      @ \cup IF all /\ ours THEN job.ifs ELSE {}]
          IN  Becomes(flushupdates(t, job.ifs))
      BY <1>3 DEF RequestStep
    <2> DEFINE ours == find_installed_route(Table) # NoPath \/ xroute < INFINITY
               new == Table.update \cup IF all /\ ours THEN job.ifs ELSE {}
               t == [Table EXCEPT !.update = new]
               u == flushupdates(t, job.ifs)
    <2>1. Becomes(u)
      OBVIOUS
    <2>2. /\ new \in SUBSET Table.up /\ Table.resend \in 0 .. RESEND_MAX
          /\ Table.asked \in SUBSET [to : SUBSET Neighs, id : Ids, seqno : Seqnos]
      BY IInvFact, SlotFact, TableFact DEF JobOK
    <2> HIDE DEF new
    <2>3. Keeps(Table, t)
      BY <2>2, IInvFact, BuffersKeep
    <2> HIDE DEF t
    <2>4. Keeps(t, u)
      BY <2>3, FlushKeeps DEF Keeps
    <2> HIDE DEF u
    <2>5. Used(u)
      BY <2>3, <2>4, KeepsFact
    <2> QED
      BY <2>1, <2>5, EndsUse DEF Becomes
  <1>4. ASSUME NEW k \in Answers, MetricStep(k) \/ FlushStep(k) \/ ExpireStep(k)
        PROVE  Used(Table')
    <2>1. job.at \in Listed(Table)
      BY <1>4, IInvFact DEF MetricStep, FlushStep, ExpireStep, JobOK
    <2>2. \/ Visit(update_route_metric(Table, job.at, cost[NeighOf[job.at]], k))
          \/ FlushAndRestart(k)
          \/ Visit(Table)
      BY <1>4 DEF MetricStep, FlushStep, ExpireStep
    <2> QED
      BY <1>1, <2>1, <2>2
  <1> QED
    BY <1>2, <1>3, <1>4 DEF WalkStep

\* A step that leaves the routes, the sources in use and our own route alone.
LEMMA QuietUse ==
  ASSUME IInv, IInv', Used(Table), list' = list, rt' = rt, xroute' = xroute,
         \A p \in Listed(Table) : src'[rt[p].id] = src[rt[p].id]
  PROVE  Used(Table')
  <1> DEFINE u == Table'
  <1>1. u.list = list /\ u.rt = rt /\ u.src = src' /\ u.xroute = xroute
    BY DEF Table
  <1> HIDE DEF u
  <1>2. Alike(Table, u) /\ Listed(Table) \subseteq Paths
    BY <1>1, TableFact, IInvFact, ListedPathsFact
       DEF Alike, SameRoute, SameSource, Listed
  <1>3. Used(u)
    BY <1>2, AlikeFact
  <1> QED
    BY <1>3 DEF u

\* Time makes no route usable.
LEMMA TickUse ==
  ASSUME IInv, IInv', Used(Table), Tick
  PROVE  Used(Table')
  <1> DEFINE aged(p) == IF p \in Listed(Table) THEN Aged(rt[p]) ELSE {NoRoute}
             u == Table'
  <1>1. rt \in [Paths -> Route] /\ src \in [Ids -> Source \cup {NoSource}]
        /\ Listed(Table) \subseteq Paths /\ SlotOK(Table)
    BY IInvFact, ListedPathsFact
  <1>2. \A p \in Paths : rt'[p] \in aged(p)
    BY DEF Tick
  <1>3. /\ u.list = list /\ u.rt = rt' /\ u.src = src' /\ u.xroute = xroute
        /\ Listed(u) = Listed(Table)
    BY DEF Table, Tick, Listed
  <1> HIDE DEF u
  <1>4. Reaches(Table) => Reaches(u)
    <2> SUFFICES ASSUME NEW p \in Paths, rt[p].installed, route_metric(rt[p]) < INFINITY
                 PROVE  rt'[p].installed /\ route_metric(rt'[p]) < INFINITY
      BY <1>3, TableFact DEF Reaches
    <2>1. p \in Listed(Table)
      BY <1>1, TableFact, SlotFact DEF SlotOK, HeadOK, Listed
    <2> QED
      BY <1>1, <1>2, <2>1, AgedRouteFact, AgedMetricFact
  <1>5. ASSUME NEW p \in Listed(Table), Usable(u, p) PROVE Usable(Table, p)
    <2> DEFINE r == rt[p]
               q == rt'[p]
               s == src[r.id]
               z == src'[r.id]
    <2>1. r \in Route /\ q \in Aged(r) /\ r.id \in Ids /\ s \in Source
      BY <1>1, <1>2, ListedFact, TableFact
    <2>2. /\ q.id = r.id /\ q.seqno = r.seqno /\ q.refmetric = r.refmetric
          /\ route_metric(q) = route_metric(r)
      BY <2>1, AgedRouteFact, AgedMetricFact
    <2>3. q.age = MIN(r.age + 1, MaxAge)
      <3>1. PICK z0 \in IF ~Smoothing THEN {r.smoothed}
                        ELSE IF route_metric(r) >= INFINITY THEN {route_metric(r)}
                        ELSE MIN(r.smoothed, route_metric(r))
                             .. MAX(r.smoothed, route_metric(r)) :
              q = [r EXCEPT !.age = MIN(r.age + 1, MaxAge), !.smoothed = z0]
        BY <2>1 DEF Aged
      <3>2. r \in Route
        BY <2>1
      <3> HIDE DEF r, q
      <3> QED
        BY <3>1, <3>2, SMT DEF Route
    <2>4. z = [s EXCEPT !.age = MIN(s.age + 1, MaxSourceAge)]
      BY <2>1, SourceAssumption DEF Tick
    <2>5. z.seqno = s.seqno /\ z.metric = s.metric /\ z # NoSource /\ s # NoSource
      BY <2>1, <2>4, AgedSourceFact, SourceAssumption
    <2>6. z.age = MIN(s.age + 1, MaxSourceAge)
      BY <2>1, <2>4 DEF Source
    <2>7. r.age \in Nat /\ s.age \in Nat /\ HoldTime \in Nat /\ SOURCE_GC_TIME \in Nat
      BY <2>1, TimeAssumption DEF Route, Source
    <2>8. /\ ~route_expired(q) /\ update_feasible(z, q.seqno, q.refmetric)
          /\ ~SourceStale(z) /\ route_metric(q) < INFINITY
      BY <1>3, <1>5, <2>2 DEF Usable, route_acceptable, route_feasible
    <2> HIDE DEF r, q, s, z
    <2>9. ~route_expired(r)
      BY <2>3, <2>7, <2>8 DEF route_expired, MIN, MaxAge
    <2>10. ~SourceStale(s)
      BY <2>6, <2>7, <2>8 DEF SourceStale, MIN, MaxSourceAge
    <2>11. update_feasible(s, r.seqno, r.refmetric)
      BY <2>2, <2>5, <2>8 DEF update_feasible
    <2> QED
      BY <2>2, <2>8, <2>9, <2>10, <2>11, TableFact
         DEF Usable, route_acceptable, route_feasible, r, s
  <1>6. Used(u)
    BY <1>3, <1>4, <1>5, TableFact DEF Used, UsedBut
  <1> QED
    BY <1>6 DEF u

\* Every step of the router.
LEMMA NextUse ==
  ASSUME ~Smoothing, allow_duplicates < 0, ~KernelMayRefuse,
         IInv, Used(Table), [Next]_vars
  PROVE  Used(Table')
  <1> USE NextFact
  <1>1. CASE \E i \in Ifaces : SendUpdate(i) \/ InterfaceDown(i) \/ InterfaceUp(i)
    BY <1>1, QuietUse DEF SendUpdate, InterfaceDown, InterfaceUp, slot
  <1>2. CASE \E n \in Neighs : \/ \E c \in Costs : CostChange(n, c)
                               \/ WildcardRetraction(n)
                               \/ FlushNeighbour(n)
    BY <1>2, QuietUse DEF CostChange, WildcardRetraction, FlushNeighbour, slot
  <1>3. CASE ExpireRoutes \/ UNCHANGED vars
    BY <1>3, QuietUse DEF ExpireRoutes, slot, vars
  <1>4. CASE ExpireSources
    <2>1. list' = list /\ rt' = rt /\ xroute' = xroute /\ src' = expire_sources(src)
          /\ src \in [Ids -> Source \cup {NoSource}]
      BY <1>4, IInvFact DEF ExpireSources
    <2>2. \A id \in Ids : src'[id] = src[id] \/ src'[id] = NoSource
      BY <2>1 DEF expire_sources
    <2>3. \A p \in Listed(Table) : rt[p].id \in Ids
      BY IInvFact, ListedFact, TableFact
    <2>4. \A p \in Listed(Table) : src'[rt[p].id] # NoSource
      <3>1. IInv'
        OBVIOUS
      <3>2. Listed(Table') = Listed(Table) /\ Table'.rt = rt /\ Table'.src = src'
        BY <2>1 DEF Table, Listed
      <3> QED
        BY <3>1, <3>2 DEF IInv, SlotOK, SourcesOK
    <2> QED
      BY <2>1, <2>2, <2>3, <2>4, QuietUse
  <1>5. CASE \/ \E p \in Paths, a \in Announced : ReceiveUpdate(p, a)
             \/ \E m \in Exported \cup {INFINITY} : CheckXroutes(m)
             \/ \E i \in Ifaces : FlushUpdates(i)
             \/ DoResend
    BY <1>5, HandlersUse
  <1>6. CASE WalkStep
    BY <1>6, WalkUse
  <1>7. CASE Tick
    BY <1>7, TickUse
  <1> QED
    BY <1>1, <1>2, <1>3, <1>4, <1>5, <1>6, <1>7 DEF Next

\* Without smoothing and allow-duplicates, and with a kernel that obeys, a route
\* that is fresh, feasible and finite is never left unused: route_changed,
\* route_lost, consider_route and check_xroutes install one as good at the end
\* of every handler, and between the iterations of every walk.
THEOREM UsableRoutesUsed ==
  ASSUME ~Smoothing, allow_duplicates < 0
  PROVE  Spec => []NoBlackhole
  <1> DEFINE Inv == IInv /\ (KernelMayRefuse \/ Used(Table))
  <1>1. Init => Inv
    <2> SUFFICES ASSUME Init PROVE Used(Table)
      BY InitFact
    <2>1. Listed(Table) = {}
      BY TableFact DEF Init, Listed
    <2> QED
      BY <2>1 DEF Used, UsedBut
  <1>2. Inv /\ [Next]_vars => Inv'
    BY NextFact, NextUse
  <1>3. Inv => NoBlackhole
    <2> SUFFICES ASSUME IInv, Used(Table), xroute >= INFINITY,
                        NEW p \in Listed(Table), Usable(Table, p)
                 PROVE  \E q \in Installed : route_metric(rt[q]) < INFINITY
      BY TableFact DEF NoBlackhole, Usable
    <2>1. ~(Table.xroute < INFINITY)
      BY IInvFact, TableFact, MetricAssumption DEF Metric
    <2>2. Reaches(Table)
      BY <2>1 DEF Used, UsedBut
    <2>3. PICK q \in Paths : rt[q].installed /\ route_metric(rt[q]) < INFINITY
      BY <2>2, TableFact DEF Reaches
    <2>4. q \in Listed(Table)
      BY <2>3, IInvFact, SlotFact, TableFact DEF SlotOK, HeadOK, Listed
    <2> QED
      BY <2>3, <2>4 DEF Installed
  <1> HIDE DEF Inv
  <1> QED
    BY <1>1, <1>2, <1>3, PTL DEF Spec

=============================================================================
