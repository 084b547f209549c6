-------------------------- MODULE MCDaemonLifecycle --------------------------
(* Two daemons, or a daemon and its restart, and the operator.               *)
EXTENDS DaemonLifecycle

CONSTANTS d1, d2

TwoDaemons == {d1, d2}
=============================================================================
