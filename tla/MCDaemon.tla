------------------------------ MODULE MCDaemon ------------------------------
(* Two processes, four starts, two sysctls, one of them already right.    *)
EXTENDS Daemon
=============================================================================
