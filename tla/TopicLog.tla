------------------------------ MODULE TopicLog ------------------------------
(***************************************************************************)
(* What one shared-memory topic promises its writers and readers: the      *)
(* committed messages form one growing log, and every reader receives a    *)
(* subsequence of it, in order, each message exactly as it was committed.  *)
(* A reader may lose messages, and then counts every one that it loses.    *)
(***************************************************************************)
EXTENDS Naturals, Sequences

CONSTANTS Payloads,  \* what a message may hold
          Readers

VARIABLES log,       \* the messages committed so far, by sequence number
          cursor,    \* [Readers -> Nat]: next sequence to take, 0 before opening
          dropped,   \* [Readers -> Nat]: messages reported as lost
          got        \* [Readers -> ...]: the message received last

logVars == <<log, cursor, dropped, got>>

NoMessage == [sequence |-> 0, payload |-> << >>]

LogInit ==
  /\ log = << >>
  /\ cursor = [r \in Readers |-> 0]
  /\ dropped = [r \in Readers |-> 0]
  /\ got = [r \in Readers |-> NoMessage]

\* A writer commits one message.
Append1(p) ==
  /\ log' = Append(log, p)
  /\ UNCHANGED <<cursor, dropped, got>>

\* A reader joins: it will only see messages committed from now on.
Join(r) ==
  /\ cursor[r] = 0
  /\ cursor' = [cursor EXCEPT ![r] = Len(log) + 1]
  /\ UNCHANGED <<log, dropped, got>>

\* A reader gives up on the messages before sequence number s.
Skip(r, s) ==
  /\ cursor[r] # 0
  /\ cursor[r] < s /\ s <= Len(log) + 1
  /\ cursor' = [cursor EXCEPT ![r] = s]
  /\ dropped' = [dropped EXCEPT ![r] = @ + (s - cursor[r])]
  /\ UNCHANGED <<log, got>>

\* A reader receives the message at its cursor, as it was committed.
Receive(r) ==
  /\ cursor[r] # 0
  /\ cursor[r] <= Len(log)
  /\ got' = [got EXCEPT ![r] = [sequence |-> cursor[r], payload |-> log[cursor[r]]]]
  /\ cursor' = [cursor EXCEPT ![r] = @ + 1]
  /\ UNCHANGED <<log, dropped>>

LogNext ==
  \/ \E p \in Payloads : Append1(p)
  \/ \E r \in Readers : Join(r) \/ Receive(r)
  \/ \E r \in Readers, s \in 1 .. Len(log) + 1 : Skip(r, s)

LogSpec == LogInit /\ [][LogNext]_logVars
=============================================================================
