-------------------------- MODULE ShmParticipants ---------------------------
(***************************************************************************)
(* The participant table of a shared-memory segment                        *)
(* (transport/shm/segment.cpp): processes claim an entry when they attach, *)
(* release it when they close, and free the entries of dead processes      *)
(* whenever they join.  Every action is one load, store or compare-and-    *)
(* swap on the shared table; a process may die between any two of them.    *)
(*                                                                         *)
(* A process is named by its (pid, start_time) identity, which no later    *)
(* process shares, and the two words of the identity are one: a reader of  *)
(* a half-written identity sees a running pid, which it leaves alone.      *)
(***************************************************************************)
EXTENDS Naturals

CONSTANTS Processes,
          N,          \* kMaxParticipants
          Releasers,  \* the processes that close; the others end without it
          MaxGen,     \* bound on the claims of one entry
          None        \* the cleared identity (pid 0)

ASSUME ParticipantsAssumption ==
  N \in Nat \ {0} /\ MaxGen \in Nat /\ None \notin Processes /\ Releasers \subseteq Processes

Entries == 1 .. N

VARIABLES state,     \* [Entries -> kind and generation]
          identity,  \* [Entries -> who filled in pid and start_time]
          alive,
          pc,        \* what each process is doing in Segment
          at,        \* the entry it is looking at, and holds once attached
          seen,      \* the state it loaded
          crashed,   \* history: the entries of dead processes when it joined
          overwrote  \* history: a release overwrote a state it had not loaded

shared == <<state, identity>>
history == <<crashed, overwrote>>
tableVars == <<state, identity, alive, pc, at, seen, crashed, overwrote>>

Free(gen) == [kind |-> "free", gen |-> gen]
Claiming(gen) == [kind |-> "claiming", gen |-> gen]
Active(gen) == [kind |-> "active", gen |-> gen]

TableInit ==
  /\ state = [e \in Entries |-> Free(0)]
  /\ identity = [e \in Entries |-> None]
  /\ alive = Processes
  /\ pc = [p \in Processes |-> "detached"]
  /\ at = [p \in Processes |-> 1]
  /\ seen = [p \in Processes |-> Free(0)]
  /\ crashed = [p \in Processes |-> {}]
  /\ overwrote = FALSE

Mut_NextGeneration(s) == s.gen
NextGeneration(s) == s.gen + 1

\* IsProcessAlive: pid 0 is nobody.
IsProcessAlive(id) == id # None /\ id \in alive

In(p, from) == p \in alive /\ pc[p] = from
Go(p, to) == pc' = [pc EXCEPT ![p] = to]
Look(p, e) == at' = [at EXCEPT ![p] = e]
Load(p) == seen' = [seen EXCEPT ![p] = state[at[p]]]
Store(p, s) == state' = [state EXCEPT ![at[p]] = s]

\* The entries whose process died while it was claiming or holding them.
OfDead == {e \in Entries : \E q \in Processes \ alive :
             \/ state[e].kind = "active" /\ identity[e] = q
             \/ state[e].kind = "claiming" /\ at[q] = e /\ pc[q] \in {"fill", "activate"}}
-----------------------------------------------------------------------------
(* ClaimParticipant: reclaim the entries of dead processes, then take one *)

Join(p) ==
  /\ In(p, "detached") /\ Go(p, "scan")
  /\ Look(p, 1)
  /\ crashed' = [crashed EXCEPT ![p] = {<<e, state[e], identity[e]>> : e \in OfDead}]
  /\ UNCHANGED <<shared, alive, seen, overwrote>>

ScanLoad(p) ==
  /\ In(p, "scan")
  /\ at[p] <= N
  /\ \/ /\ state[at[p]].kind = "active"
        /\ Go(p, "check") /\ UNCHANGED at
     \/ /\ state[at[p]].kind # "active"
        /\ Go(p, "scan") /\ Look(p, at[p] + 1)
  /\ Load(p)
  /\ UNCHANGED <<shared, alive, history>>

ScanCheck(p) ==
  /\ In(p, "check")
  /\ \/ /\ IsProcessAlive(identity[at[p]])
        /\ Go(p, "scan") /\ Look(p, at[p] + 1)
     \/ /\ ~IsProcessAlive(identity[at[p]])
        /\ Go(p, "reclaim") /\ UNCHANGED at
  /\ UNCHANGED <<shared, alive, seen, history>>

\* The compare-and-swap: only the state that was judged is freed.
Mut_Reclaimed(p) == state[at[p]]
Reclaimed(p) == IF state[at[p]] = seen[p] THEN Free(seen[p].gen) ELSE state[at[p]]

ScanCas(p) ==
  /\ In(p, "reclaim") /\ Go(p, "scan")
  /\ Store(p, Reclaimed(p))
  /\ Look(p, at[p] + 1)
  /\ UNCHANGED <<identity, alive, seen, history>>

ScanEnd(p) ==
  /\ In(p, "scan")
  /\ at[p] > N
  /\ Go(p, "claim")
  /\ Look(p, 1)
  /\ UNCHANGED <<shared, alive, seen, history>>

ClaimLoad(p) ==
  /\ In(p, "claim")
  /\ at[p] <= N
  /\ \/ /\ state[at[p]].kind = "free" /\ state[at[p]].gen < MaxGen
        /\ Go(p, "claim_cas") /\ UNCHANGED at
     \/ /\ state[at[p]].kind # "free"
        /\ Go(p, "claim") /\ Look(p, at[p] + 1)
  /\ Load(p)
  /\ UNCHANGED <<shared, alive, history>>

ClaimCas(p) ==
  /\ In(p, "claim_cas")
  /\ \/ /\ state[at[p]] = seen[p]
        /\ Go(p, "fill")
        /\ Store(p, Claiming(NextGeneration(seen[p]))) /\ UNCHANGED at
     \/ /\ state[at[p]] # seen[p]
        /\ Go(p, "claim")
        /\ Look(p, at[p] + 1) /\ UNCHANGED state
  /\ UNCHANGED <<identity, alive, seen, history>>

\* Every entry was taken: ResourceExhausted.
ClaimFails(p) ==
  /\ In(p, "claim")
  /\ at[p] > N
  /\ Go(p, "detached")
  /\ Look(p, 1)
  /\ UNCHANGED <<shared, alive, seen, history>>

Fill(p) ==
  /\ In(p, "fill") /\ Go(p, "activate")
  /\ identity' = [identity EXCEPT ![at[p]] = p]
  /\ UNCHANGED <<state, alive, at, seen, history>>

Activate(p) ==
  /\ In(p, "activate") /\ Go(p, "attached")
  /\ Store(p, Active(NextGeneration(seen[p])))
  /\ UNCHANGED <<identity, alive, at, seen, history>>
-----------------------------------------------------------------------------
(* ReleaseParticipant: load the state, clear the identity, store free *)

ReleaseLoad(p) ==
  /\ p \in Releasers
  /\ In(p, "attached") /\ Go(p, "clear")
  /\ Load(p)
  /\ UNCHANGED <<shared, alive, at, history>>

ReleaseClear(p) ==
  /\ In(p, "clear") /\ Go(p, "release")
  /\ identity' = [identity EXCEPT ![at[p]] = None]
  /\ UNCHANGED <<state, alive, at, seen, history>>

ReleaseStore(p) ==
  /\ In(p, "release") /\ Go(p, "detached")
  /\ Store(p, Free(seen[p].gen))
  /\ Look(p, 1)
  /\ overwrote' = (overwrote \/ state[at[p]] # seen[p])
  /\ UNCHANGED <<identity, alive, seen, crashed>>

\* A process ends at any moment, with or without an entry.
Die(p) ==
  /\ p \in alive
  /\ alive' = alive \ {p}
  /\ UNCHANGED <<shared, pc, at, seen, history>>
-----------------------------------------------------------------------------
ClaimStep(p) ==
  \/ Join(p) \/ ScanLoad(p) \/ ScanCheck(p) \/ ScanCas(p) \/ ScanEnd(p)
  \/ ClaimLoad(p) \/ ClaimCas(p) \/ ClaimFails(p) \/ Fill(p) \/ Activate(p)

ReleaseStep(p) == ReleaseLoad(p) \/ ReleaseClear(p) \/ ReleaseStore(p)

TableNext == \E p \in Processes : ClaimStep(p) \/ ReleaseStep(p) \/ Die(p)

TableSpec == TableInit /\ [][TableNext]_tableVars
-----------------------------------------------------------------------------
(* Properties *)

\* "in_use: a running process is attached": a running, attached process keeps
\* its entry, so that shm list counts it and notifications reach it.
AttachedStaysActive ==
  \A p \in alive : pc[p] = "attached" =>
    state[at[p]].kind = "active" /\ identity[at[p]] = p

ExclusiveEntry ==
  \A p, q \in alive :
    p # q /\ {pc[p], pc[q]} \subseteq {"fill", "activate", "attached"} => at[p] # at[q]

\* Whoever scans, claims, releases and dies in between, a running process keeps
\* its entry for itself; only a release that overwrites a newer state breaks it.
OwnersKeepEntries == overwrote \/ (AttachedStaysActive /\ ExclusiveEntry)

Scanned(p) == p \in alive /\ pc[p] \in {"claim", "claim_cas"}
Unreclaimed(c) == state[c[1]] = c[2] /\ identity[c[1]] = c[3]

\* A process that joins frees every entry that a dead process held when it
\* began, whoever else is scanning, claiming and releasing.  (An entry whose
\* process died inside ClaimParticipant stays "claiming": the scan skips it.)
HoldersReclaimed ==
  \A p \in Processes : Scanned(p) =>
    \A c \in crashed[p] : c[2].kind = "active" => ~Unreclaimed(c) \/ overwrote
=============================================================================
