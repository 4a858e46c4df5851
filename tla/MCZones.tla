------------------------------ MODULE MCZones -------------------------------
(***************************************************************************)
(* Nested destinations and nested sources, chosen so that several pairs    *)
(* conflict and share an intersection.                                     *)
(***************************************************************************)
EXTENDS Zones

To(dst, src) == [dst |-> dst, src |-> src]

\* <<0>>, <<0, 0>> is the intersection of two routes that both have a source.
MCOrder == << To(<<>>, <<0>>), To(<<>>, <<0, 0>>), To(<<0>>, <<0>>),
              To(<<0>>, <<0, 0>>), To(<<0, 0>>, <<>>) >>

MCAddresses == {<<0, 0>>, <<0, 1>>, <<1, 1>>}

=============================================================================
