------------------------------- MODULE Route -------------------------------
(***************************************************************************)
(* The route selection logic of route.c and source.c for ONE destination   *)
(* (a prefix and a source prefix), as operators on a record t:             *)
(*                                                                         *)
(*   list    the slot's linked list, as the sequence of its routes' names  *)
(*   rt      the struct babel_route of each name (NoRoute when not listed) *)
(*   src     the struct source of each router-id (NoSource when unknown)   *)
(*   fib     the kernel's entries for the destination                      *)
(*   xroute  metric of our own exported route, INFINITY when there is none *)
(*   self    our router-id and myseqno                                     *)
(*   up      the interfaces that are up                                    *)
(*   update  the interfaces on which an update is buffered                 *)
(*   resend  how many more times RESEND_UPDATE will be resent              *)
(*   told    the interfaces whose last update said we reach it             *)
(*   sent    the updates sent by the current handler                       *)
(*   asked   the multihop seqno requests sent by the current handler       *)
(*                                                                         *)
(* A route is named by the pair (neighbour, next hop) it goes through: an  *)
(* element of Paths stands for the C pointer to it.  The parameter k of an *)
(* operator holds what the handler cannot choose: k.bad, the paths whose   *)
(* kernel entry the kernel refuses to add, k.full, the interfaces whose    *)
(* buffer of updates has no room left, and k.unsat, the answer of          *)
(* unsatisfied_request.  Times are ages (now - time), capped where they no *)
(* longer matter.                                                          *)
(***************************************************************************)
EXTENDS Seqno, Sequences, FiniteSets

CONSTANTS
  Paths, NoPath,       \* (neighbour, next hop) pairs; the null pointer
  Neighs, NeighOf,     \* neighbours; the neighbour of a path
  Ifaces, IfOf,        \* interfaces; the interface of a neighbour
  SplitHorizon,        \* the interfaces with IF_SPLIT_HORIZON
  Ids,                 \* router-ids, our own included
  NoSource,
  INFINITY,            \* 0xFFFF
  AddMetric,           \* what input_filter answers for each path
  OutMetric,           \* what output_filter answers for each interface
  HoldTime,            \* hold_time of a route
  SOURCE_GC_TIME,
  RESEND_MAX,
  keep_unfeasible, allow_duplicates, kernel_metric, reflect_kernel_metric,
  IsDefault,           \* the destination is a default route (plen 0)
  UnreachPrio,         \* priority of the kernel's unreachable routes
  Smoothing,           \* smoothing_half_life > 0
  Th                   \* the metric thresholds written as literals in route.c

Metric == 0 .. INFINITY
MaxAge == HoldTime + 1
MaxSourceAge == SOURCE_GC_TIME + 1
KERNEL_INFINITY == INFINITY

ASSUME PathAssumption ==
  /\ NoPath \notin Paths
  /\ NeighOf \in [Paths -> Neighs]
  /\ IfOf \in [Neighs -> Ifaces]
  /\ SplitHorizon \subseteq Ifaces
  /\ IsFiniteSet(Paths)

ASSUME MetricAssumption ==
  /\ INFINITY \in Nat /\ INFINITY >= 2
  /\ AddMetric \in [Paths -> Metric]
  /\ OutMetric \in [Ifaces -> Metric]
  /\ kernel_metric \in 0 .. KERNEL_INFINITY - 1 /\ UnreachPrio \in Nat
  /\ allow_duplicates \in Int
  /\ {keep_unfeasible, reflect_kernel_metric, IsDefault, Smoothing}
       \subseteq BOOLEAN
  /\ Th \in [{"worse", "usable", "better", "trivial", "unfeasible", "lag"}
             -> Nat]

ASSUME TimeAssumption ==
  /\ HoldTime \in Nat
  /\ SOURCE_GC_TIME \in Nat
  /\ RESEND_MAX \in Nat \ {0}

Route == [id : Ids, seqno : Seqnos, refmetric : Metric, cost : Metric,
          add : Metric, smoothed : Metric, age : 0 .. MaxAge,
          installed : BOOLEAN]

NoRoute == [id |-> CHOOSE id \in Ids : TRUE, seqno |-> 0,
            refmetric |-> INFINITY, cost |-> INFINITY, add |-> 0,
            smoothed |-> 0, age |-> 0, installed |-> FALSE]

Source == [seqno : Seqnos, metric : Metric, age : 0 .. MaxSourceAge,
           count : Int]

Update == [id : Ids, seqno : Seqnos, metric : Metric]

ASSUME SourceAssumption == NoSource \notin Source /\ Ids # {}

MIN(a, b) == IF a <= b THEN a ELSE b
MAX(a, b) == IF a >= b THEN a ELSE b

-----------------------------------------------------------------------------
(* The linked list of a slot. *)

Listed(t) == {t.list[i] : i \in DOMAIN t.list}

Position(list, p) == CHOOSE i \in DOMAIN list : list[i] = p

\* r->next
NextInList(list, p) ==
  LET i == Position(list, p)
  IN  IF i < Len(list) THEN list[i + 1] ELSE NoPath

\* Take p out of the list.
Unlink(list, p) ==
  LET i == Position(list, p)
  IN  [j \in 1 .. Len(list) - 1 |-> IF j < i THEN list[j] ELSE list[j + 1]]

\* Mutant of move_installed_route: the list is left alone.
LeaveInPlace(list, p) == list

\* move_installed_route: p goes to the head, the others keep their order.
move_installed_route(list, p) ==
  LET i == Position(list, p)
  IN  [j \in 1 .. Len(list) |->
         IF j = 1 THEN p ELSE IF j <= i THEN list[j - 1] ELSE list[j]]

\* Only the head of the list is looked at.
find_installed_route(t) ==
  IF t.list # << >> /\ t.rt[t.list[1]].installed THEN t.list[1] ELSE NoPath

-----------------------------------------------------------------------------
(* Metrics, ages and feasibility. *)

route_metric(r) == MIN(r.refmetric + r.cost + r.add, INFINITY)

\* The smoothed metric moves to the metric while time passes (see Aged); it
\* is the metric when the route is retracted or smoothing is off.
route_smoothed_metric(r) ==
  IF ~Smoothing \/ route_metric(r) >= INFINITY
    THEN route_metric(r) ELSE r.smoothed

\* Without smoothing the field is not used, and has no value in the model.
Kept(m) == IF Smoothing THEN m ELSE 0

\* Mutant of route_old: no route is ever old.
NeverOld(r) == FALSE

route_old(r) == r.age > (HoldTime * 7) \div 8

route_expired(r) == r.age > HoldTime

SourceStale(s) == s.age > SOURCE_GC_TIME

\* Mutant of update_feasible: the metric is not compared.
FeasibleAnyMetric(s, seqno, refmetric) ==
  \/ s = NoSource
  \/ SourceStale(s)
  \/ refmetric >= INFINITY
  \/ seqno_compare(seqno, s.seqno) >= 0

update_feasible(s, seqno, refmetric) ==
  \/ s = NoSource
  \/ SourceStale(s)
  \/ refmetric >= INFINITY
  \/ seqno_compare(seqno, s.seqno) > 0
  \/ s.seqno = seqno /\ refmetric < s.metric

\* (s1, m1) is as good as or better than (s2, m2).
AsGood(s1, m1, s2, m2) ==
  \/ seqno_compare(s1, s2) > 0
  \/ s1 = s2 /\ m1 <= m2

route_feasible(t, p) ==
  update_feasible(t.src[t.rt[p].id], t.rt[p].seqno, t.rt[p].refmetric)

route_acceptable(t, p) == ~route_expired(t.rt[p]) /\ route_feasible(t, p)

\* The first of the acceptable routes with the smallest smoothed metric.
find_best_route(t) ==
  LET ok == {i \in DOMAIN t.list : route_acceptable(t, t.list[i])}
      sm(i) == route_smoothed_metric(t.rt[t.list[i]])
  IN  IF ok = {} THEN NoPath
      ELSE t.list[CHOOSE i \in ok :
                    \A j \in ok : sm(i) < sm(j) \/ (sm(i) = sm(j) /\ i <= j)]

-----------------------------------------------------------------------------
(* The source table. *)

\* find_source with create set: a new source knows the seqno, not a metric.
find_source(src, id, seqno) ==
  IF src[id] # NoSource THEN src
  ELSE [src EXCEPT ![id] = [seqno |-> seqno, metric |-> INFINITY,
                            age |-> 0, count |-> 0]]

\* Mutant of retain_source: the reference is not counted.
RetainNothing(src, id) == src

retain_source(src, id) == [src EXCEPT ![id].count = @ + 1]

release_source(src, id) == [src EXCEPT ![id].count = @ - 1]

\* Mutant of update_source: the last announcement wins.
UpdateSourceAlways(s, seqno, metric) ==
  IF metric >= INFINITY THEN s
  ELSE [s EXCEPT !.seqno = seqno, !.metric = metric, !.age = 0]

\* Mutant of update_source: only the time is refreshed.
UpdateSourceTime(s, seqno, metric) == [s EXCEPT !.age = 0]

update_source(s, seqno, metric) ==
  IF metric >= INFINITY THEN s
  ELSE IF \/ SourceStale(s)
          \/ seqno_compare(s.seqno, seqno) < 0
          \/ s.seqno = seqno /\ s.metric > metric
    THEN [s EXCEPT !.seqno = seqno, !.metric = metric, !.age = 0]
    ELSE [s EXCEPT !.age = 0]

\* expire_sources: only sources that no route refers to are freed.
expire_sources(src) ==
  [id \in DOMAIN src |->
     IF src[id] # NoSource /\ src[id].count = 0 /\ SourceStale(src[id])
       THEN NoSource ELSE src[id]]

-----------------------------------------------------------------------------
(* The kernel's routing table.  An entry is replaced by one with the same  *)
(* priority (NLM_F_REPLACE) and deleted when all of it matches.            *)

metric_to_kernel(metric) ==
  IF metric >= INFINITY THEN KERNEL_INFINITY
  ELSE IF reflect_kernel_metric
    THEN MIN(kernel_metric + metric, KERNEL_INFINITY)
    ELSE kernel_metric

Entry(p, km) ==
  IF km >= KERNEL_INFINITY THEN [via |-> NoPath, prio |-> UnreachPrio]
                           ELSE [via |-> p, prio |-> km]

\* Unreachable default routes are neither added nor flushed.
NoKernelEntry(km) == km >= KERNEL_INFINITY /\ IsDefault

KernelAdd(fib, p, km) ==
  IF NoKernelEntry(km) THEN fib
  ELSE {e \in fib : e.prio # Entry(p, km).prio} \cup {Entry(p, km)}

KernelFlush(fib, p, km) ==
  IF NoKernelEntry(km) THEN fib ELSE fib \ {Entry(p, km)}

\* ROUTE_MODIFY: flush first when one side is unreachable, then add.
KernelFlushForModify(fib, p, km, kn) ==
  IF km >= KERNEL_INFINITY \/ kn >= KERNEL_INFINITY
    THEN KernelFlush(fib, p, km) ELSE fib

KernelModify(fib, p, km, q, kn) ==
  KernelAdd(KernelFlushForModify(fib, p, km, kn), q, kn)

-----------------------------------------------------------------------------
(* Sending.  The contents of a message are decided when it is sent.        *)

\* What flushupdates announces for the destination on any interface.
Announcement(t) ==
  LET p == find_installed_route(t)
  IN  IF t.xroute < INFINITY /\ (p = NoPath \/ t.xroute <= kernel_metric)
        THEN [id |-> t.self.id, seqno |-> t.self.seqno, metric |-> t.xroute]
      ELSE IF p # NoPath
        THEN [id |-> t.rt[p].id, seqno |-> t.rt[p].seqno,
              metric |-> route_metric(t.rt[p])]
      ELSE [id |-> t.self.id, seqno |-> t.self.seqno, metric |-> INFINITY]

\* The announcement is an installed route's, not an exported route's.
AnnouncesRoute(t) ==
  /\ find_installed_route(t) # NoPath
  /\ ~(t.xroute < INFINITY /\ t.xroute <= kernel_metric)

\* The interfaces of ifs on which flushupdates comes to the destination: what
\* is buffered on an interface that is down is dropped, and split horizon
\* skips the interface that an installed route goes through.
FlushTargets(t, ifs) ==
  {i \in ifs \cap t.update \cap t.up :
     ~(/\ AnnouncesRoute(t)
       /\ i \in SplitHorizon
       /\ IfOf[NeighOf[find_installed_route(t)]] = i)}

\* really_send_update: the output filter may add to the metric.
really_send_update(i, a) ==
  [a EXCEPT !.metric = MIN(@ + OutMetric[i], INFINITY)]

\* Announcing a route that is not ours moves the feasibility distance of its
\* source.
Advertised(src, a) ==
  [src EXCEPT ![a.id] = update_source(src[a.id], a.seqno, a.metric)]

\* The buffered updates go out on the interfaces ifs, unless the output filter
\* denies them.
flushupdates(t, ifs) ==
  LET a == Announcement(t)
      out == FlushTargets(t, ifs)
      allowed == {i \in out : OutMetric[i] < INFINITY}
  IN  [t EXCEPT
         !.update = @ \ ifs,
         !.told = (@ \ allowed)
                  \cup {i \in allowed :
                          really_send_update(i, a).metric < INFINITY},
         !.sent = @ \cup {[iface |-> i, update |-> really_send_update(i, a)] :
                            i \in allowed},
         !.src = IF AnnouncesRoute(t) /\ out # {}
                   THEN Advertised(t.src, a) ELSE t.src]

\* send_update(NULL, ...): buffered on every interface that is up; a buffer
\* that is full is flushed first.
send_update(t, k) ==
  LET u == flushupdates(t, k.full)
  IN  [u EXCEPT !.update = @ \cup t.up]

\* send_update_resend(NULL, ...): also recorded, to be sent again later.
send_update_resend(t, k) == [send_update(t, k) EXCEPT !.resend = RESEND_MAX]

\* The seqno a request for a source asks for.
WantedSeqno(s) ==
  IF s.metric >= INFINITY THEN s.seqno ELSE seqno_plus(s.seqno, 1)

\* send_request_resend(NULL, ...): to everyone, after the buffered updates.
send_request_resend(t, id) ==
  [flushupdates(t, Ifaces) EXCEPT
     !.asked = @ \cup {[to |-> {n \in Neighs : IfOf[n] \in t.up}, id |-> id,
                        seqno |-> WantedSeqno(t.src[id])]}]

\* Ask the neighbour for a newer seqno when its unfeasible update is good.
send_unfeasible_request(t, neigh, force, seqno, metric, id) ==
  LET p == find_installed_route(t)
      s == t.src[id]
  IN  IF /\ seqno_minus(s.seqno, seqno) <= Th.lag
         /\ \/ force \/ p = NoPath
            \/ route_metric(t.rt[p]) >= metric + Th.unfeasible
        THEN [flushupdates(t, {IfOf[neigh]}) EXCEPT
                !.asked = @ \cup {[to |-> {neigh}, id |-> id,
                                   seqno |-> WantedSeqno(s)]}]
        ELSE t

\* The installed route p changed from (oldsrc, oldmetric).  The request that
\* the code sends when the metric grows goes to no interface that is up.
send_triggered_update(t, p, oldsrc, oldmetric, k) ==
  LET new == route_metric(t.rt[p])
      diff == IF new >= oldmetric THEN new - oldmetric ELSE oldmetric - new
      again == \/ t.rt[p].id # oldsrc
               \/ oldmetric < INFINITY /\ new >= INFINITY
      worse == new > oldmetric /\ oldmetric < Th.usable /\ diff >= Th.worse
      reappeared == oldmetric >= INFINITY /\ new < INFINITY
      trivial == (new < oldmetric /\ diff < Th.better) \/ diff < Th.trivial
  IN  IF ~t.rt[p].installed THEN t
      ELSE IF again THEN send_update_resend(t, k)
      ELSE IF worse \/ k.unsat \/ reappeared \/ ~trivial THEN send_update(t, k)
      ELSE t

-----------------------------------------------------------------------------
(* Installing and changing routes. *)

install_route(t, p, k) ==
  IF \/ t.rt[p].installed
     \/ t.list[1] # p /\ t.rt[t.list[1]].installed
     \/ p \in k.bad
    THEN t
    ELSE [t EXCEPT
            !.fib = KernelAdd(@, p, metric_to_kernel(route_metric(t.rt[p]))),
            !.rt[p].installed = TRUE,
            !.list = move_installed_route(@, p)]

\* Mutant of uninstall_route: the kernel is not told.
ForgetInstalled(t, p) == [t EXCEPT !.rt[p].installed = FALSE]

uninstall_route(t, p) ==
  IF ~t.rt[p].installed THEN t
  ELSE [t EXCEPT
          !.fib = KernelFlush(@, p, metric_to_kernel(route_metric(t.rt[p]))),
          !.rt[p].installed = FALSE]

\* A refused change may already have flushed the old kernel entry.
switch_routes(t, old, p, k) ==
  LET km == metric_to_kernel(route_metric(t.rt[old]))
      kn == metric_to_kernel(route_metric(t.rt[p]))
  IN  IF old = NoPath THEN install_route(t, p, k)
      ELSE IF p \in k.bad
        THEN [t EXCEPT !.fib = KernelFlushForModify(@, old, km, kn)]
        ELSE [t EXCEPT !.fib = KernelModify(@, old, km, p, kn),
                       !.rt = [@ EXCEPT ![old].installed = FALSE,
                                        ![p].installed = TRUE],
                       !.list = move_installed_route(@, p)]

\* Mutant of change_route_metric: the neighbour's metric is not stored.
ChangeCostOnly(t, p, refmetric, cost, add, k) ==
  [t EXCEPT !.rt[p].cost = cost, !.rt[p].add = add]

change_route_metric(t, p, refmetric, cost, add, k) ==
  LET r  == t.rt[p]
      new == [r EXCEPT !.refmetric = refmetric, !.cost = cost, !.add = add]
      km == metric_to_kernel(route_metric(r))
      kn == metric_to_kernel(route_metric(new))
      kernel == r.installed /\ km # kn
  IN  IF kernel /\ p \in k.bad
        THEN [t EXCEPT !.fib = KernelFlushForModify(@, p, km, kn)]
        ELSE [t EXCEPT
                !.fib = IF kernel THEN KernelModify(@, p, km, p, kn) ELSE @,
                !.rt[p] = [new EXCEPT
                             !.smoothed = Kept(route_smoothed_metric(r))]]

retract_route(t, p, k) == change_route_metric(t, p, INFINITY, INFINITY, 0, k)

-----------------------------------------------------------------------------
(* Selection. *)

\* The strong ordering: better by the metric and by the smoothed metric.
ShouldInstall(t, old, p) ==
  \/ old = NoPath
  \/ /\ route_metric(t.rt[p]) < INFINITY
     /\ \/ route_metric(t.rt[old]) >= INFINITY
        \/ /\ route_metric(t.rt[old]) >= route_metric(t.rt[p])
           /\ route_smoothed_metric(t.rt[old]) > route_smoothed_metric(t.rt[p])

\* Mutant of consider_route: feasibility is not checked.
ConsiderUnfeasible(t, p, k) ==
  LET old == find_installed_route(t)
  IN  IF t.rt[p].installed \/ t.xroute < INFINITY \/ ~ShouldInstall(t, old, p)
        THEN t ELSE send_update(switch_routes(t, old, p, k), k)

consider_route(t, p, k) ==
  LET old == find_installed_route(t)
      u == switch_routes(t, old, p, k)
  IN  IF \/ t.rt[p].installed
         \/ ~route_feasible(t, p)
         \/ /\ t.xroute < INFINITY
            /\ allow_duplicates < 0 \/ t.xroute >= allow_duplicates
         \/ ~ShouldInstall(t, old, p)
        THEN t
        ELSE IF old # NoPath /\ u.rt[p].installed
          THEN send_triggered_update(
                 u, p, t.rt[old].id, route_metric(t.rt[old]), k)
          ELSE send_update(u, k)

\* Mutant of route_changed: no other route is looked for.
RouteChangedInPlace(t, p, oldsrc, oldmetric, k) ==
  send_triggered_update(t, p, oldsrc, oldmetric, k)

route_changed(t, p, oldsrc, oldmetric, k) ==
  LET b == find_best_route(t)
      u == IF /\ t.rt[p].installed /\ b # NoPath
              /\ route_metric(t.rt[b]) < route_metric(t.rt[p])
             THEN consider_route(t, b, k) ELSE t
  IN  IF u.rt[p].installed
        THEN send_triggered_update(u, p, oldsrc, oldmetric, k)
        ELSE consider_route(u, p, k)

\* Mutant of route_lost: nobody is told.
RouteLostSilently(t, id, oldmetric, k) ==
  LET b == find_best_route(t)
  IN  IF b # NoPath THEN consider_route(t, b, k) ELSE t

route_lost(t, id, oldmetric, k) ==
  LET b == find_best_route(t)
  IN  IF b # NoPath THEN consider_route(t, b, k)
      ELSE IF oldmetric >= INFINITY THEN t
      ELSE IF oldmetric <= INFINITY \div 2
        THEN send_request_resend(send_update_resend(t, k), id)
        ELSE send_update_resend(t, k)

-----------------------------------------------------------------------------
(* The operations of route.c on one route. *)

flush_route(t, p, k) ==
  LET r == t.rt[p]
      u == uninstall_route(t, p)
      v == [u EXCEPT !.list = Unlink(@, p), !.rt[p] = NoRoute]
      w == IF r.installed THEN route_lost(v, r.id, route_metric(r), k) ELSE v
  IN  [w EXCEPT !.src = release_source(@, r.id)]

\* Mutant of update_route_metric: only installed routes get the new cost.
UpdateInstalledMetric(t, p, cost, k) ==
  LET oldmetric == route_metric(t.rt[p])
      live == change_route_metric(t, p, t.rt[p].refmetric, cost, AddMetric[p], k)
  IN  IF t.rt[p].installed /\ route_metric(live.rt[p]) # oldmetric
        THEN route_changed(live, p, t.rt[p].id, oldmetric, k) ELSE t

update_route_metric(t, p, cost, k) ==
  LET r == t.rt[p]
      oldmetric == route_metric(r)
      dead == retract_route(
                [t EXCEPT !.rt[p].seqno = seqno_plus(t.src[r.id].seqno, 1)],
                p, k)
      live == change_route_metric(t, p, r.refmetric, cost, AddMetric[p], k)
      changed(u) == \/ route_metric(u.rt[p]) # oldmetric
                    \/ route_smoothed_metric(u.rt[p]) # route_smoothed_metric(r)
  IN  IF route_expired(r)
        THEN IF r.refmetric >= INFINITY THEN t
             ELSE IF oldmetric >= INFINITY THEN dead
             ELSE route_changed(dead, p, r.id, oldmetric, k)
        ELSE IF changed(live) THEN route_changed(live, p, r.id, oldmetric, k)
             ELSE live

\* An update for a route that is in the table already.
UpdateKnownRoute(t, p, a, cost, k) ==
  LET r == t.rt[p]
      oldmetric == route_metric(r)
      feasible == update_feasible(t.src[a.id], a.seqno, a.metric)
      lost == ~feasible /\ r.installed /\ a.id # r.id
      refreshed == (feasible \/ keep_unfeasible) /\ a.metric < INFINITY
      t1 == IF lost THEN uninstall_route(t, p) ELSE t
      t2 == [t1 EXCEPT !.src = retain_source(@, a.id),
                       !.rt[p] = [t1.rt[p] EXCEPT
                                    !.id = a.id, !.seqno = a.seqno,
                                    !.age = IF refreshed THEN 0 ELSE r.age]]
      t3 == change_route_metric(t2, p, a.metric, cost, AddMetric[p], k)
      t4 == route_changed(t3, p, r.id, oldmetric, k)
      t5 == IF lost THEN route_lost(t4, r.id, oldmetric, k) ELSE t4
      t6 == IF feasible THEN t5
            ELSE send_unfeasible_request(
                   t5, NeighOf[p], t5.rt[p].installed /\ route_old(t5.rt[p]),
                   a.seqno, MIN(a.metric + cost + AddMetric[p], INFINITY), a.id)
  IN  [t6 EXCEPT !.src = release_source(@, r.id)]

\* An update for a route that is not in the table.
UpdateNewRoute(t, p, a, cost, k) ==
  LET feasible == update_feasible(t.src[a.id], a.seqno, a.metric)
      metric == MIN(a.metric + cost + AddMetric[p], INFINITY)
      t1 == IF feasible THEN t
            ELSE send_unfeasible_request(
                   t, NeighOf[p], FALSE, a.seqno, metric, a.id)
      t2 == [t1 EXCEPT
               !.src = retain_source(@, a.id),
               !.rt[p] = [id |-> a.id, seqno |-> a.seqno,
                          refmetric |-> a.metric, cost |-> cost,
                          add |-> AddMetric[p],
                          smoothed |-> Kept(MAX(metric, INFINITY \div 2)),
                          age |-> 0, installed |-> FALSE],
               !.list = Append(@, p)]
  IN  IF a.metric >= INFINITY THEN t
      ELSE IF ~feasible /\ ~keep_unfeasible THEN t1
      ELSE consider_route(t2, p, k)

\* The update a (id, seqno, metric) arrives through p over a link of cost cost.
update_route(t, p, a, cost, k) ==
  LET t1 == [t EXCEPT !.src = find_source(@, a.id, a.seqno)]
  IN  IF a.id = t.self.id \/ AddMetric[p] >= INFINITY THEN t
      ELSE IF p \in Listed(t) THEN UpdateKnownRoute(t1, p, a, cost, k)
      ELSE UpdateNewRoute(t1, p, a, cost, k)

-----------------------------------------------------------------------------
(* The exported route of this destination: check_xroutes. *)

\* Mutant of FlushXroute: nobody is told.
FlushXrouteSilently(t, k) ==
  LET u == [t EXCEPT !.xroute = INFINITY]
      b == find_best_route(u)
  IN  IF b = NoPath THEN u ELSE install_route(u, b, k)

\* The kernel no longer holds the exported route: install the best one.
FlushXroute(t, k) ==
  LET u == [t EXCEPT !.xroute = INFINITY]
      b == find_best_route(u)
  IN  send_update_resend(IF b = NoPath THEN u ELSE install_route(u, b, k), k)

\* Mutant of AddXroute: the Babel route stays in the kernel.
AddXrouteOnly(t, m, prio, k) ==
  IF t.xroute <= m THEN t ELSE send_update([t EXCEPT !.xroute = m], k)

\* The kernel holds a route that is exported with metric m, priority prio.
AddXroute(t, m, prio, k) ==
  LET u == [t EXCEPT !.xroute = m]
      p == find_installed_route(u)
  IN  IF t.xroute <= m THEN t
      ELSE send_update(
             IF p # NoPath /\ (allow_duplicates < 0 \/ prio < allow_duplicates)
               THEN uninstall_route(u, p) ELSE u, k)

\* m is what redistribute_filter says of the kernel's route, INFINITY when it
\* denies it or there is none.
check_xroutes(t, m, prio, k) ==
  LET u == IF t.xroute < INFINITY /\ m # t.xroute THEN FlushXroute(t, k) ELSE t
  IN  IF m < INFINITY THEN AddXroute(u, m, prio, k) ELSE u

=============================================================================
