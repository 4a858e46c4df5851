------------------------------- MODULE MCRib -------------------------------
(***************************************************************************)
(* Instances of Rib: two next hops, of one neighbour or of two, on one or  *)
(* two interfaces; one source; metrics below INFINITY = 3.                 *)
(***************************************************************************)
EXTENDS Rib, TLC

CONSTANTS p1, p2, n1, n2, i1, i2, me, ida

OneEach == (p1 :> n1) @@ (p2 :> n2)
TwoHops == (p1 :> n1) @@ (p2 :> n1)
OneNeigh == (n1 :> i1)
OneIface == (n1 :> i1) @@ (n2 :> i1)
TwoIfaces == (n1 :> i1) @@ (n2 :> i2)
NoFilter == [p \in Paths |-> 0]
NoOutFilter == [i \in Ifaces |-> 0]
NoDuplicates == -1

\* 512, 6 * 256, 1024, 384, 512 and 100 in the code.
Thresholds == [worse |-> 2, usable |-> 3, better |-> 3, trivial |-> 2,
               unfeasible |-> 1, lag |-> 1]

Upd(id, s, m) == [id |-> id, seqno |-> s, metric |-> m]

\* One source, whose sequence number wraps around (SeqMod = 4).
TwoUpdates == {Upd(ida, 3, 0), Upd(ida, 0, 1)}

\* The same with a retraction.
OneSource == TwoUpdates \cup {Upd(ida, 3, INFINITY)}

OneUpdate == {Upd(ida, 0, 0)}

=============================================================================
