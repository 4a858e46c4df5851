-------------------------------- MODULE Rib --------------------------------
(***************************************************************************)
(* One router and one destination: every handler of the main loop that     *)
(* changes the routing table, the source table, the kernel's table or the  *)
(* buffered updates of the destination, in any order the network, the      *)
(* timers and the kernel may produce.                                      *)
(*                                                                         *)
(* babeld has one thread: a handler runs to its end.  The handlers that    *)
(* walk over a slot while they change it (update_neighbour_metric,         *)
(* update_interface_metric, retract_neighbour_routes,                      *)
(* flush_neighbour_routes, flush_interface_routes, expire_routes) are      *)
(* modelled one iteration at a time, with the loop's pointer in job.at; no *)
(* other handler starts while a walk is in progress.                       *)
(***************************************************************************)
EXTENDS Route

CONSTANTS
  Self,            \* our router-id
  Announced,       \* the updates neighbours may send for the destination
  Costs,           \* the link costs neighbours may have
  Exported,        \* the metrics our own route may be exported with
  ExportedPrio,    \* the kernel priority of our own route
  KernelMayRefuse, \* kernel requests to add a route may fail
  BuffersMayFill   \* other destinations may fill the buffers of updates

ASSUME RibAssumption ==
  /\ Self \in Ids
  /\ Announced \subseteq Update
  /\ Costs \subseteq 1 .. INFINITY
  /\ INFINITY \in Costs
  /\ Exported \subseteq 0 .. INFINITY - 1
  /\ ExportedPrio \in Nat
  /\ {KernelMayRefuse, BuffersMayFill} \subseteq BOOLEAN

VARIABLES
  list, rt, src, fib, xroute, up, update, resend, told,  \* see Route
  cost,            \* neighbour_cost of each neighbour
  job              \* the walk in progress

slot == <<list, rt, src, fib, xroute, update, resend, told>>
vars == <<list, rt, src, fib, xroute, up, update, resend, told, cost, job>>

\* The state as the record that the operators of Route work on.
Table == [list |-> list, rt |-> rt, src |-> src, fib |-> fib,
          xroute |-> xroute, self |-> [id |-> Self, seqno |-> 0], up |-> up,
          update |-> update, resend |-> resend, told |-> told,
          sent |-> {}, asked |-> {}]

Becomes(t) ==
  /\ list' = t.list /\ rt' = t.rt /\ src' = t.src /\ fib' = t.fib
  /\ xroute' = t.xroute /\ update' = t.update /\ resend' = t.resend
  /\ told' = t.told

\* What the kernel and the resend queue may answer during a handler.
Answers == [bad : IF KernelMayRefuse THEN SUBSET Paths ELSE {{}},
            full : IF BuffersMayFill THEN SUBSET Ifaces ELSE {{}},
            unsat : BOOLEAN]

Jobs == {"idle", "metric", "retract", "flush", "expire", "request"}

Idle == [kind |-> "idle", neighs |-> {}, at |-> NoPath, ifs |-> {}]

\* What follows a walk: a request is sent on the interfaces ifs, if any.
After(ifs) ==
  IF ifs = {} THEN Idle ELSE [Idle EXCEPT !.kind = "request", !.ifs = ifs]

\* A walk starts at the head of the slot.
Walk(kind, neighs, ifs) ==
  IF list = << >> THEN After(ifs)
  ELSE [kind |-> kind, neighs |-> neighs, at |-> list[1], ifs |-> ifs]

Init ==
  /\ list = << >>
  /\ rt = [p \in Paths |-> NoRoute]
  /\ src = [id \in Ids |-> NoSource]
  /\ fib = {}
  /\ xroute = INFINITY
  /\ up = Ifaces
  /\ update = {}
  /\ resend = 0
  /\ told = {}
  /\ cost = [n \in Neighs |-> INFINITY]
  /\ job = Idle

-----------------------------------------------------------------------------
(* Handlers that do not walk. *)

\* parse_packet receives an update for the destination.
ReceiveUpdate(p, a) ==
  /\ job = Idle
  /\ IfOf[NeighOf[p]] \in up
  /\ \E k \in Answers : Becomes(update_route(Table, p, a, cost[NeighOf[p]], k))
  /\ UNCHANGED <<up, cost, job>>

\* The kernel's routes changed: our own route to the destination is exported
\* with metric m, or is not (INFINITY).
CheckXroutes(m) ==
  /\ job = Idle
  /\ m # xroute
  /\ \E k \in Answers : Becomes(check_xroutes(Table, m, ExportedPrio, k))
  /\ UNCHANGED <<up, cost, job>>

\* The periodic update of an interface, or the answer to a request.
SendUpdate(i) ==
  /\ job = Idle
  /\ i \in up \ update
  /\ update' = update \cup {i}
  /\ UNCHANGED <<list, rt, src, fib, xroute, up, resend, told, cost, job>>

\* update_flush_timeout of an interface.
FlushUpdates(i) ==
  /\ job = Idle
  /\ i \in update
  /\ Becomes(flushupdates(Table, {i}))
  /\ UNCHANGED <<up, cost, job>>

\* do_resend, for the RESEND_UPDATE of the destination.
DoResend ==
  /\ job = Idle
  /\ resend > 0
  /\ \E k \in Answers : Becomes([send_update(Table, k) EXCEPT !.resend = @ - 1])
  /\ UNCHANGED <<up, cost, job>>

ExpireSources ==
  /\ job = Idle
  /\ src' = expire_sources(src)
  /\ src' # src
  /\ UNCHANGED <<list, rt, fib, xroute, up, update, resend, told, cost, job>>

-----------------------------------------------------------------------------
(* Handlers that walk. *)

\* The neighbours of an interface.
Behind(i) == {n \in Neighs : IfOf[n] = i}

\* A hello, an IHU or a missed hello changed the neighbour's cost:
\* update_neighbour_metric.
CostChange(n, c) ==
  /\ job = Idle
  /\ IfOf[n] \in up
  /\ cost[n] # c
  /\ cost' = [cost EXCEPT ![n] = c]
  /\ job' = Walk("metric", {n}, {})
  /\ UNCHANGED <<up, slot>>

\* interface_up(ifp, 0): flush_interface_routes, and what was buffered is lost.
InterfaceDown(i) ==
  /\ job = Idle
  /\ i \in up
  /\ up' = up \ {i}
  /\ update' = update \ {i}
  /\ told' = told \ {i}
  /\ cost' = [n \in Neighs |-> IF n \in Behind(i) THEN INFINITY ELSE cost[n]]
  /\ job' = Walk("flush", Behind(i), {})
  /\ UNCHANGED <<list, rt, src, fib, xroute, resend>>

\* interface_up(ifp, 1): the neighbours that are still known get their costs
\* back, and update_interface_metric looks for their routes (see RequestStep).
InterfaceUp(i) ==
  /\ job = Idle
  /\ i \notin up
  /\ up' = up \cup {i}
  /\ \E c \in [Behind(i) -> Costs] :
       cost' = [n \in Neighs |-> IF n \in Behind(i) THEN c[n] ELSE cost[n]]
  /\ job' = Walk("metric", Behind(i), {i})
  /\ UNCHANGED slot

\* A wildcard retraction from the neighbour: retract_neighbour_routes.
WildcardRetraction(n) ==
  /\ job = Idle
  /\ IfOf[n] \in up
  /\ list # << >>
  /\ job' = Walk("retract", {n}, {})
  /\ UNCHANGED <<up, slot, cost>>

\* check_neighbours gives up on the neighbour: flush_neighbour.
FlushNeighbour(n) ==
  /\ job = Idle
  /\ cost' = [cost EXCEPT ![n] = INFINITY]
  /\ job' = Walk("flush", {n}, {})
  /\ UNCHANGED <<up, slot>>

\* The expiry timer.
ExpireRoutes ==
  /\ job = Idle
  /\ list # << >>
  /\ job' = Walk("expire", Neighs, {})
  /\ UNCHANGED <<up, slot, cost>>

\* The walk goes on at path p, or ends.
GoesOn(p) == job' = IF p = NoPath THEN After(job.ifs) ELSE [job EXCEPT !.at = p]

\* One iteration that leaves the route in the list: r = r->next follows.
Visit(t) == Becomes(t) /\ GoesOn(NextInList(t.list, job.at))

\* One iteration that frees the route: the slot is walked again from its head.
FlushAndRestart(k) ==
  LET t == flush_route(Table, job.at, k)
  IN  Becomes(t) /\ GoesOn(IF t.list = << >> THEN NoPath ELSE t.list[1])

MetricStep(k) ==
  /\ job.kind = "metric"
  /\ Visit(IF NeighOf[job.at] \in job.neighs
             THEN update_route_metric(Table, job.at, cost[NeighOf[job.at]], k)
             ELSE Table)

RetractStep(k) ==
  LET r == rt[job.at]
      t == retract_route(Table, job.at, k)
  IN  /\ job.kind = "retract"
      /\ Visit(IF NeighOf[job.at] \in job.neighs /\ r.refmetric # INFINITY
                 THEN IF route_metric(r) # INFINITY
                        THEN route_changed(t, job.at, r.id, route_metric(r), k)
                        ELSE t
                 ELSE Table)

FlushStep(k) ==
  /\ job.kind = "flush"
  /\ IF NeighOf[job.at] \in job.neighs THEN FlushAndRestart(k) ELSE Visit(Table)

\* The branch of expire_routes that sends a request for a route about to
\* expire cannot be reached: such a route has just been flushed.
ExpireStep(k) ==
  /\ job.kind = "expire"
  /\ IF route_old(rt[job.at])
       THEN FlushAndRestart(k)
       ELSE Visit(update_route_metric(Table, job.at, cost[NeighOf[job.at]], k))

\* The end of interface_up(ifp, 1): an update of all the routes, when the
\* interface has got an IPv4 address, and a request, before which the buffered
\* updates go out.
RequestStep ==
  /\ job.kind = "request"
  /\ \E all \in BOOLEAN :
       LET ours == find_installed_route(Table) # NoPath \/ xroute < INFINITY
           t == [Table EXCEPT !.update = @ \cup IF all /\ ours THEN job.ifs ELSE {}]
       IN  Becomes(flushupdates(t, job.ifs))
  /\ job' = Idle

WalkStep ==
  /\ job # Idle
  /\ \/ \E k \in Answers :
          MetricStep(k) \/ RetractStep(k) \/ FlushStep(k) \/ ExpireStep(k)
     \/ RequestStep
  /\ UNCHANGED <<up, cost>>

-----------------------------------------------------------------------------
(* Time. *)

\* A route one unit of time older; its smoothed metric moves to its metric.
Aged(r) ==
  LET m == route_metric(r)
  IN  {[r EXCEPT !.age = MIN(@ + 1, MaxAge), !.smoothed = s] :
         s \in IF ~Smoothing THEN {r.smoothed}
               ELSE IF m >= INFINITY THEN {m}
               ELSE MIN(r.smoothed, m) .. MAX(r.smoothed, m)}

Tick ==
  /\ job = Idle
  /\ LET aged(p) == IF p \in Listed(Table) THEN Aged(rt[p]) ELSE {NoRoute}
     IN  rt' \in {f \in [Paths -> UNION {aged(p) : p \in Paths}] :
                    \A p \in Paths : f[p] \in aged(p)}
  /\ src' = [id \in Ids |->
               IF src[id] = NoSource THEN NoSource
               ELSE [src[id] EXCEPT !.age = MIN(@ + 1, MaxSourceAge)]]
  /\ UNCHANGED <<list, fib, xroute, up, update, resend, told, cost, job>>

Next ==
  \/ \E p \in Paths, a \in Announced : ReceiveUpdate(p, a)
  \/ \E m \in Exported \cup {INFINITY} : CheckXroutes(m)
  \/ \E i \in Ifaces : \/ SendUpdate(i) \/ FlushUpdates(i)
                       \/ InterfaceDown(i) \/ InterfaceUp(i)
  \/ DoResend
  \/ ExpireSources
  \/ \E n \in Neighs : \/ \E c \in Costs : CostChange(n, c)
                       \/ WildcardRetraction(n)
                       \/ FlushNeighbour(n)
  \/ ExpireRoutes
  \/ WalkStep
  \/ Tick

Spec == Init /\ [][Next]_vars

\* A walk is a loop inside a handler: nothing stops it.  Between handlers, the
\* main loop looks at every timer in each iteration: the clock goes on, and a
\* timer that is due again and again is served, however many packets arrive.
\* Each enabling condition is written out: it holds exactly when the action can
\* change the state.
TimePasses ==
  /\ job = Idle
  /\ \/ \E p \in Listed(Table) : rt[p].age < MaxAge
     \/ \E id \in Ids : src[id] # NoSource /\ src[id].age < MaxSourceAge

Fairness ==
  /\ []<>(job = Idle) \/ []<><<WalkStep>>_vars
  /\ <>[]~TimePasses \/ []<><<Tick>>_vars
  /\ <>[](job # Idle \/ list = << >>) \/ []<><<ExpireRoutes>>_vars
  /\ <>[](job # Idle \/ resend = 0) \/ []<><<DoResend>>_vars
  /\ \A i \in Ifaces :
       <>[](job # Idle \/ i \notin update) \/ []<><<FlushUpdates(i)>>_vars

FairSpec == Spec /\ Fairness

-----------------------------------------------------------------------------
(* Properties. *)

TypeOK ==
  /\ list \in Seq(Paths)
  /\ rt \in [Paths -> Route]
  /\ src \in [Ids -> Source \cup {NoSource}]
  /\ fib \subseteq [via : Paths \cup {NoPath}, prio : Nat]
  /\ xroute \in Metric
  /\ up \subseteq Ifaces /\ update \subseteq up
  /\ resend \in 0 .. RESEND_MAX
  /\ told \subseteq up
  /\ cost \in [Neighs -> Metric]
  /\ job \in [kind : Jobs, neighs : SUBSET Neighs, at : Paths \cup {NoPath},
             ifs : SUBSET up]

Installed == {p \in Listed(Table) : rt[p].installed}

\* "Every slot contains a linked list of the routes to this prefix, with the
\* installed route, if any, at the head of the list" (route.c): no route is
\* listed twice, unlisted routes are not installed, and the installed route,
\* the only one find_installed_route can see, is the head.
InstalledAtHead ==
  /\ \A i, j \in DOMAIN list : list[i] = list[j] => i = j
  /\ \A p \in Paths : rt[p].installed => list # << >> /\ list[1] = p

\* The kernel never forwards through a route that is not the installed one, and
\* has no second entry for the destination; an entry can only be missing, and
\* only when the kernel refused it.
KernelMatches ==
  LET wanted == {Entry(p, metric_to_kernel(route_metric(rt[p]))) :
                   p \in Installed}
  IN  /\ fib \subseteq wanted
      /\ KernelMayRefuse \/ IsDefault \/ fib = wanted

\* route_count is the number of routes that point to the source, so that
\* expire_sources frees no source in use and leaks none.
RefCounts ==
  /\ \A p \in Listed(Table) : src[rt[p].id] # NoSource
  /\ \A id \in Ids : src[id] # NoSource =>
       src[id].count = Cardinality({p \in Listed(Table) : rt[p].id = id})

\* Without allow-duplicates, a destination we export ourselves never has a
\* Babel route installed over it.
XrouteWins ==
  allow_duplicates < 0 /\ xroute < INFINITY => Installed = {}

\* Whenever the last update sent on an interface said that we reach the
\* destination and we no longer do, another update is buffered or recorded
\* ("Retractions can cause blackholes", "Avoid creating a blackhole"): nobody is
\* left sending us packets until the route times out.  Where split horizon is
\* on, the update may be suppressed.
LossIsAnnounced ==
  \A i \in told \ SplitHorizon :
    Announcement(Table).metric >= INFINITY => i \in update \/ resend > 0

\* A usable route is never left unused between handlers, when the kernel
\* obeys: a route that is fresh, feasible and finite means that an installed
\* route is finite, or that we export the destination ourselves.
NoBlackhole ==
  (/\ job = Idle /\ ~KernelMayRefuse /\ xroute >= INFINITY
   /\ \E p \in Listed(Table) :
        /\ route_acceptable(Table, p) /\ ~SourceStale(src[rt[p].id])
        /\ route_metric(rt[p]) < INFINITY)
  => \E p \in Installed : route_metric(rt[p]) < INFINITY

\* What we believe of a usable route is what its neighbour announced: identity,
\* sequence number and metric of one single update, and not a mixture of two.
\* (A kernel that refuses kchange_route_metric in the middle of update_route
\* leaves the new sequence number with the old metric.)
AsAnnounced ==
  \A p \in Listed(Table) : rt[p].refmetric < INFINITY =>
    [id |-> rt[p].id, seqno |-> rt[p].seqno, metric |-> rt[p].refmetric]
      \in Announced

\* Between handlers the cost of a usable route is its neighbour's ("Called
\* whenever a neighbour's cost changes, to update the metric of all routes
\* through that neighbour", update_neighbour_metric).
CostReachesRoutes ==
  job = Idle =>
    \A p \in Listed(Table) :
      rt[p].refmetric < INFINITY => rt[p].cost = cost[NeighOf[p]]

\* An unfeasible update for the installed route changes nothing of the route:
\* "If the source remains the same, we ignore the update" (update_route).
UnfeasibleIgnored ==
  [][\A p \in Paths, a \in Announced :
       (/\ ReceiveUpdate(p, a)
        /\ rt[p].installed /\ a.id = rt[p].id
        /\ ~update_feasible(src[a.id], a.seqno, a.metric))
       => rt'[p].seqno = rt[p].seqno /\ rt'[p].refmetric = rt[p].refmetric]_vars

\* A route that becomes the installed one is feasible: install_route and
\* switch_routes call the contrary "this shouldn't happen".  The feasibility
\* distance it is judged by is the one at the start of the handler, or a
\* stricter one when updates were sent inside the handler.
OnlyFeasibleInstalled ==
  [][\A p \in Paths : ~rt[p].installed /\ rt'[p].installed =>
       update_feasible(src[rt'[p].id], rt'[p].seqno, rt'[p].refmetric)]_vars

\* A feasibility distance that is not stale is never forgotten and never gets
\* worse, whatever the order of updates, expiries and announcements.
DistanceOnlyImproves ==
  [][\A id \in Ids : src[id] # NoSource /\ ~SourceStale(src[id]) =>
       /\ src'[id] # NoSource
       /\ AsGood(src'[id].seqno, src'[id].metric, src[id].seqno, src[id].metric)]_vars

\* A route that nobody refreshes leaves the table.
UnrefreshedIsFlushed ==
  \A p \in Paths :
    p \in Listed(Table) /\ rt[p].age > 0
    ~> p \notin Listed(Table) \/ rt[p].age = 0

\* A neighbour that believes we reach the destination when we do not is told,
\* unless the interface goes down first.
LossIsHeard ==
  \A i \in Ifaces \ SplitHorizon :
    i \in told /\ Announcement(Table).metric >= INFINITY
    ~> i \notin told \/ Announcement(Table).metric < INFINITY

=============================================================================
