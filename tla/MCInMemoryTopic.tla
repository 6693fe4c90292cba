-------------------------- MODULE MCInMemoryTopic ---------------------------
(* Small instances of InMemoryTopic for TLC. *)
EXTENDS InMemoryTopic

CONSTANTS r1, r2, w1, w2

\* A topic whose two readers have the given policies and room for one message.
Topic(isOwned, p1, p2) ==
  [owned |-> isOwned, observed |-> FALSE, writers |-> Writers,
   policy |-> [r \in Readers |-> IF r = r1 THEN p1 ELSE p2],
   capacity |-> [r \in Readers |-> 1]]
Observed(t) == [t EXCEPT !.observed = TRUE, !.writers = {w1}]

MCTopics == {Topic(FALSE, "drop_oldest", "keep_all"), Topic(TRUE, "block", "drop_newest"),
             Observed(Topic(FALSE, "latest", "reject"))}
=============================================================================
