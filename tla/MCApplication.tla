--------------------------- MODULE MCApplication ----------------------------
(* Small instances of Application for TLC. *)
EXTENDS Application

CONSTANTS a1, a2

Shm == [name |-> "shm", kind |-> "shared_memory"]
Local == [name |-> "local", kind |-> "inmemory"]

Project(n, uses, h, own) ==
  [created |-> TRUE, size |-> n, uses |-> uses, helped |-> h, own |-> own,
   options |-> [inmemory |-> TRUE, opens |-> own # << >>, name |-> "inmemory"]]
Absent == [Project(0, "inmemory", FALSE, << >>) EXCEPT !.created = FALSE]
Alone(p) == [a \in Apps |-> IF a = a1 THEN p ELSE Absent]

\* One application of two components and two threads, on a transport of its own;
\* two applications that compete for the signals; one that registers a second
\* transport of a kind; and one whose component uses a kind nobody registered.
MCProcesses ==
  {Alone(Project(2, "shared_memory", TRUE, <<Shm>>)),
   [a \in Apps |-> Project(IF a = a1 THEN 1 ELSE 0, "inmemory", FALSE, << >>)],
   Alone(Project(1, "inmemory", FALSE, <<Shm, Local>>)),
   Alone(Project(1, "shared_memory", FALSE, << >>))}
=============================================================================
