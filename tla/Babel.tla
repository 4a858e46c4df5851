------------------------------- MODULE Babel -------------------------------
(***************************************************************************)
(* A network of routers and one destination, originated by one of them.    *)
(* Every router runs the route selection of Route on its own tables; the   *)
(* updates travel one by one, may be lost, and may be received in another  *)
(* order than they were sent in.                                           *)
(*                                                                         *)
(* Routers have one interface and are named by their router-ids, and a     *)
(* router has at most one route through each neighbour.  No time passes:   *)
(* no feasibility distance becomes stale, and a route may expire whenever  *)
(* it likes.  A resent or periodic update, and the answer to a request,    *)
(* are all SendUpdate; a request has no other effect but to make the       *)
(* originator raise its sequence number, which it may do at any time.      *)
(***************************************************************************)
EXTENDS Route

CONSTANTS
  Origin,       \* the router that exports the destination
  Links,        \* the pairs of routers that hear each other
  Costs,        \* the costs links may have
  FirstSeqno,   \* the origin's first sequence number
  MaxBumps,     \* bound: how often the origin raises it
  MaxNet        \* bound: messages in flight

Nodes == Neighs

ASSUME BabelAssumption ==
  /\ Paths = Nodes /\ Ids = Nodes /\ Origin \in Nodes
  /\ NeighOf = [n \in Nodes |-> n]
  /\ Links \subseteq Nodes \X Nodes
  /\ Costs \subseteq 1 .. INFINITY
  /\ FirstSeqno \in Seqnos
  /\ MaxBumps \in Nat /\ 2 * (MaxBumps + 2) <= SeqMod
  /\ MaxNet \in Nat

VARIABLES
  myseqno,      \* of the origin
  list, rt, src, update,   \* of each router: see Route
  net           \* the updates in flight

vars == <<myseqno, list, rt, src, update, net>>

Table(n) ==
  [list |-> list[n], rt |-> rt[n], src |-> src[n], fib |-> {},
   xroute |-> IF n = Origin THEN 0 ELSE INFINITY,
   self |-> [id |-> n, seqno |-> IF n = Origin THEN myseqno ELSE 0],
   up |-> Ifaces, update |-> update[n], resend |-> 0, told |-> {},
   sent |-> {}, asked |-> {}]

\* What a handler of router n sends is in flight to each of its neighbours.
Copies(n, t) ==
  {[from |-> l[1], to |-> l[2], update |-> s.update] :
     l \in {e \in Links : e[1] = n}, s \in t.sent}

\* A handler of router n leaves table t, having taken the messages of taken.
Becomes(n, t, taken) ==
  /\ list' = [list EXCEPT ![n] = t.list]
  /\ rt' = [rt EXCEPT ![n] = t.rt]
  /\ src' = [src EXCEPT ![n] = t.src]
  /\ update' = [update EXCEPT ![n] = t.update]
  /\ net' = (net \ taken) \cup Copies(n, t)
  /\ Cardinality(net') <= MaxNet

\* The kernel obeys.  An update that is sent because of a pending request is
\* covered by SendUpdate.
Obedient == [bad |-> {}, full |-> {}, unsat |-> FALSE]

Init ==
  /\ myseqno = FirstSeqno
  /\ list = [n \in Nodes |-> << >>]
  /\ rt = [n \in Nodes |-> [p \in Paths |-> NoRoute]]
  /\ src = [n \in Nodes |-> [id \in Ids |-> NoSource]]
  /\ update = [n \in Nodes |-> {}]
  /\ net = {}

\* An update arrives, over a link of any cost.
ReceiveUpdate(m, c) ==
  /\ m \in net
  /\ Becomes(m.to, update_route(Table(m.to), m.from, m.update, c, Obedient),
             {m})
  /\ UNCHANGED myseqno

Lose(m) ==
  /\ m \in net
  /\ net' = net \ {m}
  /\ UNCHANGED <<myseqno, list, rt, src, update>>

\* The update timer, the resend timer or a neighbour's request.
SendUpdate(n) ==
  /\ update[n] = {}
  /\ Announcement(Table(n)).metric < INFINITY \/ list[n] # << >>
  /\ update' = [update EXCEPT ![n] = Ifaces]
  /\ UNCHANGED <<myseqno, list, rt, src, net>>

FlushUpdates(n) ==
  /\ update[n] # {}
  /\ Becomes(n, flushupdates(Table(n), Ifaces), {})
  /\ UNCHANGED myseqno

\* The cost of a link changes: update_neighbour_metric.
CostChange(n, p, c) ==
  /\ p \in Listed(Table(n))
  /\ rt[n][p].cost # c
  /\ Becomes(n, update_route_metric(Table(n), p, c, Obedient), {})
  /\ UNCHANGED myseqno

\* The route expires, or its neighbour is given up.
FlushRoute(n, p) ==
  /\ p \in Listed(Table(n))
  /\ Becomes(n, flush_route(Table(n), p, Obedient), {})
  /\ UNCHANGED myseqno

\* A request for a newer sequence number reaches the origin: update_myseqno.
NewSeqno ==
  /\ seqno_minus(myseqno, FirstSeqno) < MaxBumps
  /\ myseqno' = seqno_plus(myseqno, 1)
  /\ update' = [update EXCEPT ![Origin] = Ifaces]
  /\ UNCHANGED <<list, rt, src, net>>

Next ==
  \/ \E m \in net : (\E c \in Costs : ReceiveUpdate(m, c)) \/ Lose(m)
  \/ \E n \in Nodes : SendUpdate(n) \/ FlushUpdates(n)
  \/ \E n \in Nodes, p \in Paths :
       FlushRoute(n, p) \/ \E c \in Costs : CostChange(n, p, c)
  \/ NewSeqno

Spec == Init /\ [][Next]_vars

-----------------------------------------------------------------------------
(* Properties. *)

\* Router n forwards to router p.
Forwards(n, p) ==
  /\ find_installed_route(Table(n)) = p
  /\ route_metric(rt[n][p]) < INFINITY

\* A router never sends, and nobody remembers or is about to hear from it, a
\* finite metric better than its feasibility distance.
DistanceBoundsUpdates ==
  LET bounds(p, s, m) ==
        /\ src[p][Origin] # NoSource
        /\ AsGood(src[p][Origin].seqno, src[p][Origin].metric, s, m)
  IN  /\ \A m \in net : m.from # Origin /\ m.update.metric < INFINITY =>
           bounds(m.from, m.update.seqno, m.update.metric)
      /\ \A n \in Nodes : \A p \in Listed(Table(n)) \ {Origin} :
           rt[n][p].refmetric < INFINITY =>
             bounds(p, rt[n][p].seqno, rt[n][p].refmetric)

\* Nobody in the relation leads back to itself: every set of routers has a member
\* that leads out of it, or nowhere.
Acyclic(E) ==
  \A S \in (SUBSET Nodes) \ {{}} : \E n \in S : \A p \in S : <<n, p>> \notin E

\* Packets never go round along routes that are feasible.
FeasibleLoopFree ==
  Acyclic({e \in Nodes \X Nodes :
             Forwards(e[1], e[2]) /\ route_feasible(Table(e[1]), e[2])})

=============================================================================
