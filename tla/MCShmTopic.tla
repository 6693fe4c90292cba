----------------------------- MODULE MCShmTopic -----------------------------
(* Small deployments of ShmTopic for TLC. *)
EXTENDS ShmTopic

CONSTANTS p1, p2, p3

Scenario(lifetime, readers, writers, odd, endpoints, maxSeq, clean) ==
  [lifetime |-> lifetime, readers |-> readers, writers |-> writers, odd |-> odd,
   endpoints |-> endpoints, maxSeq |-> maxSeq, clean |-> clean]

\* One reader and two writers of a reader-owned topic; two readers, one after or
\* beside the other; a shared topic in use; shared topics beside `shm clean`, one
\* of them with processes that disagree about its geometry.
MCScenarios ==
  { Scenario("reader_owned", {p1}, {p2, p3}, {}, 1, 0, FALSE),
    Scenario("reader_owned", {p1, p2}, {p1}, {}, 1, 1, FALSE),
    Scenario("shared", {p1}, {p1, p2}, {}, 1, 2, FALSE),
    Scenario("shared", {}, {p1, p2}, {}, 1, 0, TRUE),
    Scenario("shared", {}, {p1, p2}, {p2}, 1, 0, TRUE) }
=============================================================================
