------------------------- MODULE MCShmParticipants --------------------------
(* Small instances of ShmParticipants for TLC. *)
EXTENDS ShmParticipants, TLC

CONSTANTS p1, p2, p3

\* Processes that differ in nothing are interchangeable.
Symmetry == Permutations(Processes)
=============================================================================
