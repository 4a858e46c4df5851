---------------------------- MODULE MCInterfaces ----------------------------
(* Two interfaces, one link-local and one IPv4 address, three indexes.     *)
EXTENDS Interfaces

CONSTANTS eth0, eth1
MCOrder == <<eth0, eth1>>
=============================================================================
