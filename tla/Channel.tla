------------------------------ MODULE Channel -------------------------------
(***************************************************************************)
(* What the buffers of message.c promise to the rest of the router: the    *)
(* messages handed over (in) wait, and a neighbour reads (got) some of     *)
(* them, in the order in which they were handed over, each at most once    *)
(* and as it was meant.  Messages to everyone and messages to one          *)
(* neighbour wait in two queues; no message to one neighbour overtakes a   *)
(* message to everyone that was waiting.                                   *)
(***************************************************************************)
EXTENDS Integers, Sequences

VARIABLES multi, uni, in, got

vars == <<multi, uni, in, got>>

\* after is before without some of its elements.
Subsequence(after, before) ==
  \E s \in {after}, t \in {before} :
    LET matched[i \in 0 .. Len(t)] ==
          IF i = 0 THEN 0
          ELSE LET n == matched[i - 1]
               IN  IF n < Len(s) /\ s[n + 1] = t[i] THEN n + 1 ELSE n
    IN  matched[Len(t)] = Len(s)

Init == /\ multi = <<>> /\ uni = <<>>
        /\ in = [multi |-> <<>>, uni |-> <<>>]
        /\ got = [multi |-> <<>>, uni |-> <<>>]

Next ==
  /\ Subsequence(got'.multi \o multi', multi \o in'.multi)
  /\ Subsequence(got'.uni \o uni', uni \o in'.uni)
  /\ got'.uni # <<>> => Len(multi') <= Len(in'.multi)

Spec == Init /\ [][Next]_vars

=============================================================================
