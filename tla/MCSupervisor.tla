---------------------------- MODULE MCSupervisor ----------------------------
(* Two small systems for TLC. *)
EXTENDS Supervisor

Node(restart, max, delay, required) ==
  [restart |-> restart, max_restarts |-> max, restart_delay |-> delay, required |-> required]

\* Required nodes with and without a restart around an optional one that is
\* always restarted; and a system of optional nodes, which all end.
MCManifests ==
  {<<Node("on_failure", 1, 2, TRUE), Node("always", 0, 1, FALSE), Node("never", 5, 1, TRUE)>>,
   <<Node("on_failure", 2, 1, FALSE), Node("always", 1, 4, FALSE), Node("never", 0, 1, FALSE)>>}
=============================================================================
