------------------------------- MODULE Zones --------------------------------
(***************************************************************************)
(* Source-specific routes in a kernel that looks up sources first          *)
(* (disambiguation.c and rule.c, where kernel_disambiguate is false).      *)
(* Routes with a source prefix live in one routing table per source        *)
(* prefix, rules choose the table by the source address, and where two     *)
(* routes conflict a route for the intersection of their destinations and  *)
(* sources is added.  Prefixes are sequences of bits of one address family.*)
(***************************************************************************)
EXTENDS Integers, Sequences, FiniteSets, SequencesExt

CONSTANTS
  Order,          \* the destinations [dst, src] in the order of the route table
  Gates,          \* next hops
  SRC_TABLE_NUM,
  Addresses,      \* complete addresses, for the lookups
  export_table,
  Local,          \* table 255, which the kernel consults before any rule
  NoRoute, Unreachable

VARIABLES
  installed,  \* the installed route of each destination: [gate, reach]
  fib,        \* the kernel's routes: [table, dst, prio, via]
  rules,      \* rules[], without the empty entries at its end
  krules,     \* the kernel's rules: [prio, src, table]
  tampered    \* somebody else changed the kernel's rules

vars == <<installed, fib, rules, krules, tampered>>

Keys == ToSet(Order)

-----------------------------------------------------------------------------
(* Prefixes and zones.                                                     *)

prefix_cmp(p, q) ==
  CASE p = q -> "equals"
    [] p # q /\ IsPrefix(q, p) -> "more specific"
    [] p # q /\ IsPrefix(p, q) -> "less specific"
    [] OTHER -> "disjoint"

\* rt_cmp: destinations first.
rt_cmp(k, l) ==
  LET d == prefix_cmp(k.dst, l.dst)
      s == prefix_cmp(k.src, l.src)
  IN  IF d = "more specific" THEN -1 ELSE IF d = "less specific" THEN 1
      ELSE IF s = "more specific" THEN -1 ELSE IF s = "less specific" THEN 1
      ELSE 0

min_route(k, l) == IF k = NoRoute THEN l ELSE IF l = NoRoute THEN k
                   ELSE IF rt_cmp(k, l) <= 0 THEN k ELSE l

conflicts(k, l) ==
  {prefix_cmp(k.dst, l.dst), prefix_cmp(k.src, l.src)}
    = {"less specific", "more specific"}

\* inter, of routes that are not disjoint.
inter(k, l) ==
  LET Longer(p, q) == IF prefix_cmp(p, q) \in {"more specific", "equals"}
                      THEN p ELSE q
  IN  [dst |-> Longer(k.dst, l.dst), src |-> Longer(k.src, l.src)]

\* route_stream(ROUTE_INSTALLED).
Stream(inst) == SelectSeq(Order, LAMBDA k : inst[k] # NoRoute)

\* The least of the destinations of s that satisfy P; of equals the last.
Least(s, P(_)) == FoldLeft(LAMBDA m, k : IF P(k) THEN min_route(k, m) ELSE m,
                           NoRoute, s)

min_conflict(inst, zone, k) ==
  Least(Stream(inst), LAMBDA l : conflicts(k, l) /\ inter(k, l) = zone)

\* Mutant of conflict_solution: a route that was a solution is forgotten.
NoSolution(inst, k) == NoRoute

conflict_solution(inst, k) ==
  Least(SelectSeq(Stream(inst), LAMBDA r : r.src # <<>>),
        LAMBDA r : \E l \in ToSet(Stream(inst)) :
          conflicts(r, l) /\ inter(r, l) = k /\ rt_cmp(r, l) < 0)

-----------------------------------------------------------------------------
(* Tables and rules.  z is [fib, rules, krules] while an operation runs.   *)

\* The first table that no rule uses, if there is one.
get_free_table(z) ==
  LET free == {i \in 0 .. SRC_TABLE_NUM - 1 :
                 \A j \in DOMAIN z.rules : z.rules[j].table # i}
  IN  IF free = {} THEN -1 ELSE CHOOSE i \in free : \A j \in free : i <= j

\* Mutant of Behind: a new rule always goes to the end.
AtEnd(src, rule) == prefix_cmp(src, rule.src) # "equals"

\* A rule that src has to be behind, or may be.
Behind(src, rule) == prefix_cmp(src, rule.src) \in {"less specific", "disjoint"}

\* find_table_slot, from 1.
find_table_slot(z, src) ==
  LET stop == {i \in DOMAIN z.rules : ~Behind(src, z.rules[i])}
  IN  IF stop = {} THEN Len(z.rules) + 1
      ELSE CHOOSE i \in stop : \A j \in stop : i <= j

\* The rules behind idx are moved by one, in the kernel too.
insert_table(z, src, idx) ==
  LET table == get_free_table(z)
      rule == [src |-> src, table |-> table]
      moved == {IF k.prio >= idx THEN [k EXCEPT !.prio = @ + 1] ELSE k :
                  k \in z.krules}
  IN  IF idx > SRC_TABLE_NUM \/ table < 0 THEN z
      ELSE [z EXCEPT !.rules = InsertAt(@, idx, rule),
              !.krules = moved \cup {[prio |-> idx, src |-> src, table |-> table]}]

\* find_table: z afterwards and the table.  Table -1 becomes 255 in rtm_table.
find_table(z, src) ==
  LET i == find_table_slot(z, src)
      found == i \in DOMAIN z.rules /\ z.rules[i].src = src
      z1 == IF found THEN z ELSE insert_table(z, src, i)
  IN  IF src = <<>> THEN [z |-> z, table |-> export_table]
      ELSE [z |-> z1,
            table |-> IF i \in DOMAIN z1.rules /\ z1.rules[i].src = src
                      THEN z1.rules[i].table ELSE Local]

\* What kernel_route asks for: unreachable routes have priority 0 (IPv4).
Entry(table, dst, r) ==
  [table |-> table, dst |-> dst, prio |-> IF r.reach THEN 1 ELSE 0,
   via |-> IF r.reach THEN r.gate ELSE Unreachable]

\* Unreachable default routes are left alone.
Ignored(dst, r) == ~r.reach /\ dst = <<>>

Add(f, table, dst, r) ==
  LET e == Entry(table, dst, r)
  IN  IF Ignored(dst, r) THEN f
      ELSE {g \in f : <<g.table, g.dst, g.prio>> # <<table, dst, e.prio>>}
           \cup {e}

Flush(f, table, dst, r) ==
  IF Ignored(dst, r) THEN f ELSE f \ {Entry(table, dst, r)}

add_route(z, zone, r) ==
  LET t == find_table(z, zone.src)
  IN  [t.z EXCEPT !.fib = Add(@, t.table, zone.dst, r)]

del_route(z, zone, r) ==
  LET t == find_table(z, zone.src)
  IN  [t.z EXCEPT !.fib = Flush(@, t.table, zone.dst, r)]

\* ROUTE_MODIFY relies on NLM_F_REPLACE unless one of the two is unreachable.
chg_route(z, zone, old, new) ==
  LET t == find_table(z, zone.src)
      f == IF old.reach /\ new.reach THEN t.z.fib
           ELSE Flush(t.z.fib, t.table, zone.dst, old)
  IN  [t.z EXCEPT !.fib = Add(f, t.table, zone.dst, new)]

-----------------------------------------------------------------------------
(* The four operations that route.c calls.  inst is what is installed at   *)
(* that moment: the route itself is not, or not any more, when it is       *)
(* installed or uninstalled.                                               *)

\* The routes whose conflict with k is theirs to solve: the loops of all four.
Solvable(inst, k) ==
  SelectSeq(Stream(inst), LAMBDA l :
    /\ conflicts(k, l)
    /\ inter(k, l) \in Keys => inst[inter(k, l)] = NoRoute
    /\ rt_cmp(l, min_conflict(inst, inter(k, l), k)) = 0)

kinstall_route(z, inst, k, r) ==
  LET Via(l) == IF l = k THEN r ELSE inst[l]
      Step(y, l) ==
        LET zone == inter(k, l)
            m == min_conflict(inst, zone, l)
        IN  IF m = NoRoute THEN add_route(y, zone, Via(min_route(k, l)))
            ELSE IF rt_cmp(k, m) < 0 /\ rt_cmp(k, l) < 0
            THEN chg_route(y, zone, Via(m), r) ELSE y
      z1 == FoldLeft(Step, z, Solvable(inst, k))
      s == conflict_solution(inst, k)
  IN  IF s = NoRoute THEN add_route(z1, k, r) ELSE chg_route(z1, k, inst[s], r)

kuninstall_route(z, inst, k, r) ==
  LET Via(l) == IF l = k THEN r ELSE inst[l]
      Step(y, l) ==
        LET zone == inter(k, l)
            m == min_conflict(inst, zone, l)
        IN  IF m = NoRoute THEN del_route(y, zone, Via(min_route(k, l)))
            ELSE IF rt_cmp(k, m) < 0 /\ rt_cmp(k, l) < 0
            THEN chg_route(y, zone, r, Via(m)) ELSE y
      s == conflict_solution(inst, k)
      z1 == IF s = NoRoute THEN del_route(z, k, r) ELSE chg_route(z, k, r, inst[s])
  IN  FoldLeft(Step, z1, Solvable(inst, k))

\* kswitch_routes and kchange_route_metric: the installed route of k changes
\* from old to new, and so do the intersections that it serves.
kswitch_routes(z, inst, k, old, new) ==
  LET Step(y, l) ==
        IF rt_cmp(k, l) < 0 /\ rt_cmp(k, min_conflict(inst, inter(k, l), l)) = 0
        THEN chg_route(y, inter(k, l), old, new) ELSE y
  IN  FoldLeft(Step, chg_route(z, k, old, new), Solvable(inst, k))

-----------------------------------------------------------------------------

Init ==
  /\ installed = [k \in Keys |-> NoRoute]
  /\ fib = {} /\ rules = <<>> /\ krules = {} /\ tampered = FALSE

Z == [fib |-> fib, rules |-> rules, krules |-> krules]

Becomes(z) == fib' = z.fib /\ rules' = z.rules /\ krules' = z.krules

Install(k, g) ==
  LET r == [gate |-> g, reach |-> TRUE]
  IN  /\ ~tampered /\ installed[k] = NoRoute
      /\ Becomes(kinstall_route(Z, installed, k, r))
      /\ installed' = [installed EXCEPT ![k] = r] /\ UNCHANGED tampered

Uninstall(k) ==
  LET inst == [installed EXCEPT ![k] = NoRoute]
  IN  /\ ~tampered /\ installed[k] # NoRoute
      /\ Becomes(kuninstall_route(Z, inst, k, installed[k]))
      /\ installed' = inst /\ UNCHANGED tampered

\* switch_routes to a usable route, or a change between finite and infinite.
Switch(k, g, reach) ==
  LET new == [gate |-> g, reach |-> reach]
  IN  /\ ~tampered /\ installed[k] \notin {NoRoute, new}
      /\ reach \/ g = installed[k].gate
      /\ Becomes(kswitch_routes(Z, installed, k, installed[k], new))
      /\ installed' = [installed EXCEPT ![k] = new] /\ UNCHANGED tampered

Priorities == 1 .. SRC_TABLE_NUM
Ours == {[prio |-> i, src |-> rules[i].src, table |-> rules[i].table] :
           i \in DOMAIN rules}

\* Somebody removes a rule, or adds one with a priority that is ours.
Tamper ==
  /\ ~tampered /\ tampered' = TRUE
  /\ \/ \E k \in krules : krules' = krules \ {k}
     \/ \E i \in Priorities, k \in Keys :
          /\ k.src # <<>>
          /\ krules' = krules \cup {[prio |-> i, src |-> k.src, table |-> Local]}
  /\ UNCHANGED <<installed, fib, rules>>

\* filter_rule: the rule of index i is there, and alone.
filter_rule(i) == {k \in krules : k.prio = i} = {k \in Ours : k.prio = i}

\* check_rules and install_missing_rules: flushed and added again if not.
CheckRules ==
  /\ krules' = UNION {IF filter_rule(i) THEN {k \in krules : k.prio = i}
                      ELSE {k \in Ours : k.prio = i} : i \in Priorities}
  /\ tampered' = FALSE /\ UNCHANGED <<installed, fib, rules>>

\* release_tables, when the router stops, has flushed its routes before.
Stop ==
  /\ ~tampered /\ rules # <<>>
  /\ \A k \in Keys : installed[k] = NoRoute
  /\ rules' = <<>> /\ krules' = krules \ Ours
  /\ UNCHANGED <<installed, fib, tampered>>

Next ==
  \/ \E k \in Keys, g \in Gates :
       Install(k, g) \/ \E reach \in BOOLEAN : Switch(k, g, reach)
  \/ \E k \in Keys : Uninstall(k)
  \/ Tamper \/ CheckRules \/ Stop

Spec == Init /\ [][Next]_vars

-----------------------------------------------------------------------------

\* The installed routes for (dst, src); an unreachable default route is none.
Matching(dst, src) ==
  {k \in Keys : /\ IsPrefix(k.dst, dst) /\ IsPrefix(k.src, src)
                /\ installed[k] # NoRoute /\ ~Ignored(k.dst, installed[k])}

\* Destination first: what a source-specific router has to do.
Wanted(dst, src) ==
  LET m == Matching(dst, src)
      best == CHOOSE k \in m : \A l \in m :
                \/ Len(k.dst) > Len(l.dst)
                \/ Len(k.dst) = Len(l.dst) /\ Len(k.src) >= Len(l.src)
  IN  IF m = {} THEN NoRoute
      ELSE IF installed[best].reach THEN installed[best].gate ELSE Unreachable

\* The kernel: the longest match of a table, the least priority.
InTable(table, dst) ==
  LET m == {e \in fib : e.table = table /\ IsPrefix(e.dst, dst)}
      best == CHOOSE e \in m : \A f \in m :
                \/ Len(e.dst) > Len(f.dst)
                \/ Len(e.dst) = Len(f.dst) /\ e.prio <= f.prio
  IN  IF m = {} THEN NoRoute ELSE best.via

\* The kernel: table Local, the rules that match the source, the main table.
Lookup(dst, src) ==
  LET tables == <<Local>> \o
        [i \in 1 .. SRC_TABLE_NUM |->
           LET match == {k \in krules : k.prio = i /\ IsPrefix(k.src, src)}
           IN  IF match = {} THEN NoRoute ELSE (CHOOSE k \in match : TRUE).table]
        \o <<export_table>>
      hits == SelectSeq([i \in DOMAIN tables |-> InTable(tables[i], dst)],
                        LAMBDA v : v # NoRoute)
  IN  IF hits = <<>> THEN NoRoute ELSE Head(hits)

\* Whatever was installed, switched, lost and uninstalled in whichever order,
\* the kernel forwards every packet as if the most specific destination had been
\* looked up first and the source second.
ForwardsByDestination == ~tampered =>
  \A dst, src \in Addresses : Lookup(dst, src) = Wanted(dst, src)

\* "First entries are the most specific, since they have priority": a rule is
\* not behind one that matches more, and the kernel has the rules of rules[].
RulesOrdered ==
  /\ \A i, j \in DOMAIN rules : i < j =>
       prefix_cmp(rules[j].src, rules[i].src) \in {"less specific", "disjoint"}
  /\ ~tampered => krules = Ours

=============================================================================
