------------------------------- MODULE Config -------------------------------
(***************************************************************************)
(* The configuration (configuration.c): lines come from files and from the *)
(* command line, finalise_config makes interfaces and filters of them, and *)
(* more lines come over control connections.  A line is a record and its   *)
(* text is not modelled, except that it may fail to parse.  An address has *)
(* W bits, of which an IPv4-mapped one has the first V4 fixed (128 and 96  *)
(* in the code); a prefix is its length and its first free bit.            *)
(***************************************************************************)
EXTENDS Integers, Sequences

CONSTANTS W, V4, INFINITY, RTPROT_BABEL_LOCAL, RTPROT_BOOT

ASSUME WidthAssumption == V4 \in Nat /\ W \in Nat /\ V4 < W

\* A left fold over a sequence.
Fold(op(_, _), base, s) ==
  LET f[i \in 0..Len(s)] == IF i = 0 THEN base ELSE op(f[i - 1], s[i])
  IN  f[Len(s)]

\* The list s without its entry i.
Without(s, i) == [j \in 1..Len(s) - 1 |-> IF j < i THEN s[j] ELSE s[j + 1]]

\* c is the configuration: the lists of filters, the structures interface_conf
\* by number (heap; 0 is NULL), those in interface_confs (listed), the interfaces
\* with the number of their configuration, the default, the control server.
Unconfigured == [finalised |-> FALSE, in |-> << >>, out |-> << >>,
                 redistribute |-> << >>, heap |-> << >>, listed |-> << >>,
                 ifs |-> << >>, default |-> 0, server |-> "none", options |-> {},
                 aborted |-> FALSE]

Names(c) == {c.ifs[i].name : i \in DOMAIN c.ifs}

-----------------------------------------------------------------------------
(* Filters.  A selector that was not given is 0.                           *)

NewFilter == [ok |-> TRUE, af |-> 0, id |-> 0, plen |-> 0, bit |-> 0,
              splen |-> 0, sbit |-> 0, ge |-> 0, le |-> W, sge |-> 0, sle |-> W,
              neigh |-> 0, if |-> 0, proto |-> 0, add |-> 0]

\* Mutant of Shifted: IPv4 lengths are taken as they are written.
Unshifted(f) ==
  IF f.af = 0 /\ (f.le < W \/ f.ge > 0 \/ f.sle < W \/ f.sge > 0)
  THEN [f EXCEPT !.af = 6] ELSE f

\* The end of parse_filter: the lengths of an IPv4 filter become those of
\* mapped prefixes; the source's do not.
Shifted(f) ==
  IF f.af = 4 THEN [f EXCEPT !.le = @ + V4, !.ge = @ + V4]
  ELSE IF f.af = 0 /\ (f.le < W \/ f.ge > 0 \/ f.sle < W \/ f.sge > 0)
       THEN [f EXCEPT !.af = 6] ELSE f

Smaller(a, b) == IF a < b THEN a ELSE b
Larger(a, b) == IF a < b THEN b ELSE a

\* getnet answers the length of a mapped prefix.
getnet(t) == IF t.af = 4 THEN t.plen + V4 ELSE t.plen

\* All prefixes of a filter are of one family.
SetFamily(f, t) == [f EXCEPT !.ok = @ /\ f.af \in {0, t.af}, !.af = t.af]

\* One token of parse_filter.
ParseToken(f, t) ==
  CASE t.is = "ip" -> [SetFamily(f, t) EXCEPT !.bit = t.bit, !.plen = getnet(t)]
    [] t.is = "src-ip" -> [SetFamily(f, t) EXCEPT !.sbit = t.bit, !.splen = getnet(t)]
    [] t.is = "le" -> [f EXCEPT !.le = Smaller(@, t.n)]
    [] t.is = "ge" -> [f EXCEPT !.ge = Larger(@, t.n)]
    [] t.is = "eq" -> [f EXCEPT !.le = Smaller(@, t.n), !.ge = Larger(@, t.n)]
    [] t.is = "src-le" -> [f EXCEPT !.sle = Smaller(@, t.n)]
    [] t.is = "src-ge" -> [f EXCEPT !.sge = Larger(@, t.n)]
    [] t.is = "src-eq" -> [f EXCEPT !.sle = Smaller(@, t.n), !.sge = Larger(@, t.n)]
    [] t.is = "neigh" -> [f EXCEPT !.neigh = t.n]
    [] t.is = "id" -> [f EXCEPT !.id = t.n]
    [] t.is = "if" -> [f EXCEPT !.if = t.n]
    [] t.is = "proto" -> [f EXCEPT !.proto = t.n]
    [] t.is = "local" -> [f EXCEPT !.proto = RTPROT_BABEL_LOCAL]
    [] t.is = "allow" -> [f EXCEPT !.add = 0]
    [] t.is = "deny" -> [f EXCEPT !.add = INFINITY]
    [] t.is = "metric" -> [f EXCEPT !.ok = @ /\ t.n \in 1..INFINITY, !.add = t.n]
    [] OTHER -> [f EXCEPT !.ok = FALSE]

parse_filter(tokens) == Shifted(Fold(ParseToken, NewFilter, tokens))

in_prefix(bit, fbit, fplen, af) == fplen > (IF af = 4 THEN V4 ELSE 0) => bit = fbit

\* The neighbour's test refuses the neighbour that was named.
filter_match(f, r) ==
  /\ f.af \in {0, r.af}
  /\ f.id # 0 => f.id = r.id
  /\ r.plen >= f.plen /\ in_prefix(r.bit, f.bit, f.plen, f.af)
  /\ r.splen >= f.splen /\ in_prefix(r.sbit, f.sbit, f.splen, f.af)
  /\ f.ge > 0 \/ f.le < W => r.plen \in f.ge..f.le
  /\ f.sge > 0 \/ f.sle < W => r.splen \in f.sge..f.sle
  /\ f.neigh # 0 => r.neigh # 0 /\ r.neigh # f.neigh
  /\ f.if # 0 => f.if = r.if
  /\ IF f.proto # 0 THEN f.proto = r.proto
     ELSE r.proto \notin {RTPROT_BABEL_LOCAL, RTPROT_BOOT}

\* The action of the first filter that matches.
do_filter(fs, r, otherwise) ==
  LET hits == {i \in DOMAIN fs : filter_match(fs[i], r)}
  IN  IF hits = {} THEN otherwise
      ELSE fs[CHOOSE i \in hits : \A j \in hits : i <= j].add

input_filter(c, r) == do_filter(c.in, r, 0)
output_filter(c, r) == do_filter(c.out, [r EXCEPT !.neigh = 0], 0)
redistribute_filter(c, r) ==
  do_filter(c.redistribute, [r EXCEPT !.neigh = 0, !.id = 0], INFINITY)

add_filter(f, fs) == Append(fs, f)

-----------------------------------------------------------------------------
(* Interfaces.  Of the parameters of an interface only the cost is         *)
(* modelled: the others are merged alike.  One that was not given is 0.    *)

\* The parameters of a line: the costs it gives, none if one cannot be parsed.
parse_anonymous_ifconf(l) == IF l.valid THEN {l.cost} ELSE {}

\* MERGE.
merge_ifconf(a, b) == IF a # 0 THEN a ELSE b

\* The configuration whose structure id has the cost.
WithCost(c, id, cost) == [c EXCEPT !.heap[id].cost = cost]

\* An interface that is there keeps its configuration.
add_interface(c, name, conf) ==
  IF name \in Names(c) THEN c
  ELSE [c EXCEPT !.ifs = Append(c.ifs, [name |-> name, first |-> ~c.finalised,
                                  conf |-> IF conf # 0 THEN conf ELSE c.default])]

\* interface_confs is searched for the name; at run time the interface is added.
add_ifconf(c, name, cost) ==
  LET same == {i \in DOMAIN c.listed : c.heap[c.listed[i]].name = name}
      id == IF same = {} THEN Len(c.heap) + 1 ELSE c.listed[CHOOSE i \in same : TRUE]
      d == IF same # {} THEN WithCost(c, id, merge_ifconf(cost, c.heap[id].cost))
           ELSE [c EXCEPT !.listed = Append(c.listed, id),
                          !.heap = Append(c.heap, [name |-> name, cost |-> cost,
                                                   alive |-> TRUE])]
  IN  IF c.finalised THEN add_interface(d, name, id) ELSE d

Listed(c) == {c.listed[i] : i \in DOMAIN c.listed}

\* Mutant of flush_ifconf: freed, and still listed.
FreeListed(c, id) == IF id \in Listed(c) THEN [c EXCEPT !.heap[id].alive = FALSE] ELSE c

\* A structure that is not listed is not freed.
flush_ifconf(c, id) ==
  LET i == CHOOSE i \in DOMAIN c.listed : c.listed[i] = id
  IN  IF id \in Listed(c)
      THEN [c EXCEPT !.listed = Without(c.listed, i), !.heap[id].alive = FALSE]
      ELSE c

flush_interface(c, name) ==
  LET i == CHOOSE i \in DOMAIN c.ifs : c.ifs[i].name = name
      id == c.ifs[i].conf
      d == [c EXCEPT !.ifs = Without(c.ifs, i)]
  IN  IF id \in {0, c.default} THEN d ELSE flush_ifconf(d, id)

\* The default is no member of interface_confs.
SetDefault(c, cost) ==
  IF c.default = 0
  THEN [c EXCEPT !.default = Len(c.heap) + 1,
                 !.heap = Append(c.heap, [name |-> "", cost |-> cost, alive |-> TRUE])]
  ELSE WithCost(c, c.default, merge_ifconf(cost, c.heap[c.default].cost))

\* finalise_config, then the interfaces of the command line: local addresses are
\* redistributed unless a line says otherwise; each structure leaves
\* interface_confs and takes what it lacks from the default.
finalise_config(c, arguments) ==
  LET local == [NewFilter EXCEPT !.proto = RTPROT_BABEL_LOCAL]
      default == IF c.default = 0 THEN 0 ELSE c.heap[c.default].cost
      take(d, id) ==
        add_interface(WithCost(d, id, merge_ifconf(d.heap[id].cost, default)),
                      c.heap[id].name, id)
      taken == Fold(take, c, c.listed)
      done == [taken EXCEPT !.finalised = TRUE, !.listed = << >>,
                            !.redistribute = add_filter(local, taken.redistribute)]
      argue(d, name) == add_interface(d, name, 0)
  IN  Fold(argue, done, arguments)

-----------------------------------------------------------------------------
(* Lines.                                                                  *)

Bad(c) == [c |-> c, action |-> "bad"]
Done(c) == [c |-> c, action |-> "ok"]

RunTimeOptions == {"keep-unfeasible", "link-detect", "log-file", "diversity",
                   "diversity-factor", "smoothing-half-life"}

\* "allow-duplicates" is taken, then compared with "allow_duplicates".
parse_option(c, l) ==
  IF (c.finalised /\ l.name \notin RunTimeOptions) \/ ~l.valid THEN Bad(c)
  ELSE IF l.name = "local-port" THEN Done([c EXCEPT !.server = "read-only"])
  ELSE IF l.name = "local-port-readwrite" THEN Done([c EXCEPT !.server = "read-write"])
  ELSE Done([c EXCEPT !.options = @ \cup {l.name},
                      !.aborted = @ \/ l.name = "allow-duplicates"])

Requests == {"quit", "dump", "monitor", "unmonitor"}

\* A filter is refused at run time; one for "install" is parsed and dropped.
FilterLine(c, l) ==
  LET f == parse_filter(l.tokens)
  IN  IF c.finalised \/ ~f.ok THEN Bad(c)
      ELSE CASE l.is = "in" -> Done([c EXCEPT !.in = add_filter(f, @)])
             [] l.is = "out" -> Done([c EXCEPT !.out = add_filter(f, @)])
             [] l.is = "redistribute" -> Done([c EXCEPT !.redistribute = add_filter(f, @)])
             [] l.is = "install" -> Done(c)

\* The parameters of one interface, or of all.
InterfaceLine(c, l) ==
  LET cost == CHOOSE x \in parse_anonymous_ifconf(l) : TRUE
  IN  IF parse_anonymous_ifconf(l) = {} THEN Bad(c)
      ELSE IF l.is = "interface" THEN Done(add_ifconf(c, l.name, cost))
      ELSE Done(SetDefault(c, cost))

LineKinds == Requests \cup {"in", "out", "redistribute", "install", "interface",
                            "default", "flush", "option"}

\* Requests need an action to return, which only a control connection has; the
\* other lines need a connection that may write.
parse_config_line(c, l) ==
  CASE l.is \in Requests ->
         IF c.finalised THEN [c |-> c, action |-> l.is] ELSE Bad(c)
    [] l.is \notin Requests /\ c.finalised /\ c.server # "read-write" -> Bad(c)
    [] OTHER ->
         CASE l.is \in {"in", "out", "redistribute", "install"} -> FilterLine(c, l)
           [] l.is \in {"interface", "default"} -> InterfaceLine(c, l)
           [] l.is = "flush" ->
                IF l.name \in Names(c) THEN Done(flush_interface(c, l.name))
                ELSE [c |-> c, action |-> "no"]
           [] l.is = "option" -> parse_option(c, l)

=============================================================================
