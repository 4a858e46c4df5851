------------------------------- MODULE MCWire -------------------------------
(***************************************************************************)
(* An instance of Wire: two router-ids, IPv6 prefixes that share bytes,    *)
(* one of them a host address made of its router-id, a source-specific     *)
(* prefix and an IPv4 prefix.                                              *)
(***************************************************************************)
EXTENDS Wire

Pad(s) == [i \in 1 .. 16 |-> IF i <= Len(s) THEN s[i] ELSE 0]

IdA == <<2, 0, 0, 0, 0, 0, 0, 1>>
IdB == <<2, 0, 0, 0, 0, 0, 0, 2>>

Dest(s, plen) == [prefix |-> Pad(s), plen |-> plen, src_prefix |-> zeroes,
                  src_plen |-> 0]
From(d, s, plen) == [d EXCEPT !.src_prefix = Pad(s), !.src_plen = plen]

Net == Dest(<<32, 1, 13, 184, 0, 1>>, 48)
Sub == Dest(<<32, 1, 13, 184, 0, 1, 2>>, 55)
Host == Dest(<<32, 1, 13, 184, 0, 1, 0, 0>> \o IdA, 128)
Four == Dest(v4prefix \o <<10>>, 104)
Specific == From(Dest(<<32, 1, 13, 184, 0, 1>> \o [i \in 1 .. 10 |-> 7], 128),
                 <<32, 1, 13, 184, 0, 9>> \o [i \in 1 .. 10 |-> 7], 128)

Announce(d, id, metric, channels) ==
  [dest |-> d, id |-> id, metric |-> metric, channels |-> channels,
   found |-> metric < 65535]

\* MAX_CHANNEL_HOPS channels: with them Specific is the longest update.
Hops == [i \in 1 .. 20 |-> 1]

MCUpdates == { Announce(Net, IdA, 96, <<>>), Announce(Sub, IdB, 300, <<1, 6>>),
               Announce(Host, IdA, 96, <<>>),
               Announce(Four, IdA, 65535, None),
               Announce(Specific, IdB, 96, Hops) }

MCRequests == { [type |-> "request", dest |-> Sub, id |-> IdB],
                [type |-> "request", dest |-> Specific, id |-> None] }

MCNeighbours == <<"n1", "n2">>
MCIpv4 == <<10, 0, 0, 1>>

=============================================================================
