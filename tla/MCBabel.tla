------------------------------ MODULE MCBabel ------------------------------
(***************************************************************************)
(* Instances of Babel: the origin ro and two routers ra and rb.            *)
(***************************************************************************)
EXTENDS Babel, TLC

CONSTANTS ro, ra, rb, eth

Me == [n \in Nodes |-> n]
OneIface == [n \in Nodes |-> eth]
NoFilter == [p \in Paths |-> 0]
NoOutFilter == [i \in Ifaces |-> 0]
NoDuplicates == -1

\* 512, 6 * 256, 1024, 384, 512 and 100 in the code.
Thresholds == [worse |-> 2, usable |-> 3, better |-> 3, trivial |-> 2,
               unfeasible |-> 1, lag |-> 1]

\* rb hears of the destination from ra only.
Chain == {<<ro, ra>>, <<ra, rb>>, <<rb, ra>>}

=============================================================================
