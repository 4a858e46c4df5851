------------------------------ MODULE MCResend ------------------------------
(***************************************************************************)
(* Instances of Resend: one destination, two interfaces, one source.       *)
(***************************************************************************)
EXTENDS Resend

CONSTANTS d1, i1, i2, ida

\* Neighbours ask for the successor of the first seqno.
Requests == {[id |-> ida, seqno |-> 0, hop_count |-> 2]}

Route(seqno, finite) == [id |-> ida, seqno |-> seqno, finite |-> finite]

\* A source whose seqno wraps around (SeqMod = 4), and its retraction.
Routes == {Route(3, TRUE), Route(0, TRUE), Route(0, FALSE)}

=============================================================================
