--------------------------- MODULE MCServiceCall ----------------------------
(* Small instances of ServiceCall for TLC. *)
EXTENDS ServiceCall

CONSTANTS k1, k2

\* One call and two overlapping servers; a call, one chained from its callback
\* and one server; and a call on a transport with late discovery to a server
\* that a component serves.
MCWorlds ==
  {[calls |-> {k1}, chained |-> {}, instances |-> 2, discovered |-> TRUE, mode |-> "own_thread",
    closes |-> {"server"}],
   [calls |-> {k1, k2}, chained |-> {k2}, instances |-> 1, discovered |-> TRUE, mode |-> "own_thread",
    closes |-> {"client"}],
   [calls |-> {k1}, chained |-> {}, instances |-> 1, discovered |-> FALSE, mode |-> "caller",
    closes |-> {"client", "server"}]}
=============================================================================
