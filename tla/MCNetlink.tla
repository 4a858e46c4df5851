----------------------------- MODULE MCNetlink -----------------------------
(* One change, two commands and two faults around one round of dumps.      *)
EXTENDS Netlink
=============================================================================
