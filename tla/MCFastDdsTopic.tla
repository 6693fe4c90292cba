--------------------------- MODULE MCFastDdsTopic ---------------------------
(* Small instances of FastDdsTopic for TLC. *)
EXTENDS FastDdsTopic

CONSTANTS r1, r2, w1, k1, k2

Policy(delivers, fresh, overflows) ==
  [delivery |-> delivers, retention |-> "keep_last", freshness |-> fresh, overflow |-> overflows, depth |-> 2]

World(them, messageOf, policyOf) == [members |-> them, message |-> messageOf, policy |-> policyOf]

Same == [e \in Endpoints |-> "pose"]
Reliable == [e \in Endpoints |-> Policy("reliable", "queued", "drop_oldest")]

\* A reader and a writer while two threads close; and two readers of which one
\* declares another message, or cannot be mapped.
MCWorlds ==
  {World({r1, w1, k1, k2}, Same, Reliable),
   World({r1, r2, k1, w1}, [Same EXCEPT ![r2] = "twist"],
         [Reliable EXCEPT ![r1] = Policy("best_effort", "latest", "drop_oldest")]),
   World({r1, r2, k1}, Same, [Reliable EXCEPT ![r2] = Policy("reliable", "latest", "block")])}
=============================================================================
