------------------------------- MODULE MCControl -------------------------------
(* Addresses of three bits, the first fixed in an IPv4-mapped one; two clients. *)
EXTENDS Control, TLC

Net(is, af, plen, bit) == [is |-> is, af |-> af, plen |-> plen, bit |-> bit]
Num(is, n) == [is |-> is, n |-> n]
Word(is) == [is |-> is]

Rule(is, tokens) == [is |-> is, tokens |-> tokens]
Interface(name, cost) == [is |-> "interface", name |-> name, cost |-> cost, valid |-> TRUE]
Default(cost) == [is |-> "default", cost |-> cost, valid |-> TRUE]
Option(name, valid) == [is |-> "option", name |-> name, valid |-> valid]

MCStartLines ==
  { Rule("redistribute", <<Net("ip", 4, 1, 1), Num("ge", 2), Num("metric", 3)>>),
    Rule("redistribute", <<Num("le", 1), Num("metric", 5)>>),
    Rule("redistribute", <<Net("ip", 4, 0, 0), Num("eq", 1)>>),
    Rule("redistribute", <<Word("local"), Word("deny")>>),
    Rule("in", <<Net("ip", 6, 1, 1), Num("le", 2), Word("deny")>>),
    Rule("in", <<Net("ip", 4, 1, 1), Net("src-ip", 6, 0, 0)>>),
    Interface("a", 1), Interface("a", 2), Interface("b", 0), Default(4),
    Option("allow-duplicates", TRUE) }

MCLines == { Interface("a", 3), [is |-> "flush", name |-> "a"],
             [is |-> "monitor"], [is |-> "unmonitor"], [is |-> "quit"] }

MCServers == {"none", "read-only", "read-write"}

MCLocal == -2

MCArguments == { <<"c">> }

MCRoutes == [af : {4}, plen : 1..3, bit : {0, 1}, proto : {RTPROT_BABEL_LOCAL, 0},
             id : {1}, splen : {0}, sbit : {0}, neigh : {1}, if : {1}]
            \cup [af : {6}, plen : 0..3, bit : {0, 1}, proto : {RTPROT_BABEL_LOCAL, 0},
                  id : {1}, splen : {0}, sbit : {0}, neigh : {1}, if : {1}]

ClientSymmetry == Permutations(Clients)
=============================================================================
