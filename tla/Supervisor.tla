----------------------------- MODULE Supervisor -----------------------------
(***************************************************************************)
(* The supervisor of a system's processes (configuration/supervisor.cpp):  *)
(* one thread starts the nodes in manifest order, polls them, restarts     *)
(* them by policy with a growing delay, and stops them in reverse order,   *)
(* while the processes end and RequestStop is called at any moment.        *)
(*                                                                         *)
(* Time is abstract.  A delay that has passed is a flag that a timer       *)
(* raises at some moment; whether a run was as long as stable_run, and     *)
(* whether a wait for an exit timed out, is a choice.                      *)
(***************************************************************************)
EXTENDS Naturals, Sequences, SequencesExt, FiniteSetsExt

CONSTANTS N,             \* the nodes are 1 .. N, in start order
          Manifests,     \* the manifests considered: [1 .. N -> NodeManifest]
          MaxDelay,      \* SupervisorOptions::max_restart_delay
          RestartBound   \* bound on the restarts of a node without a limit

Nodes == 1 .. N

\* max_restarts = 0 means no limit.
NodeManifest == [restart : {"never", "on_failure", "always"}, max_restarts : Nat,
                 restart_delay : Nat, required : BOOLEAN]

ASSUME SupervisorAssumption ==
  /\ N \in Nat \ {0} /\ MaxDelay \in Nat /\ RestartBound \in Nat
  /\ Manifests \subseteq [Nodes -> NodeManifest]

VARIABLES manifest,
          pc,        \* where the thread is in Run
          at,        \* the node it is looking at
          booted,    \* how many nodes Run's first loop has started
          final,     \* that loop is over: supervise without a deadline
          waited,    \* the start_delay after the node just started has passed
          node,      \* [Nodes -> phase, restarts, delay, failed]
          due,       \* the nodes in backoff whose restart_at has passed
          ending,    \* the reason to end, with its exit code
          stopRequested,
          proc,      \* the operating system's view of each node's process
          attempts   \* history: starts of each node since its last stable run

control == <<pc, at, booted, final, waited>>
supervision == <<node, due, ending, attempts>>
input == <<manifest, stopRequested>>
supervisorVars == <<input, control, supervision, proc>>

NoReason == [why |-> "none", code |-> 0]
Fresh(n) == [phase |-> "pending", restarts |-> 0, delay |-> manifest[n].restart_delay, failed |-> FALSE]

SupervisorInit ==
  /\ manifest \in Manifests
  /\ pc = "enter" /\ at = 1 /\ booted = 0 /\ final = FALSE /\ waited = FALSE
  /\ node = [n \in Nodes |-> Fresh(n)]
  /\ due = {} /\ ending = NoReason /\ stopRequested = FALSE
  /\ proc = [n \in Nodes |-> "none"]
  /\ attempts = [n \in Nodes |-> 0]

Running(n) == node[n].phase = "running"
Ending == ending # NoReason
-----------------------------------------------------------------------------
(* Processes, timers and the caller of RequestStop *)

Up(n) == proc[n] \in {"up", "terminated"}
Gone(n) == proc[n] \in {"exit_0", "failed"}

\* A node that may be restarted for ever fails only a bounded number of times
\* in a row.
WithinBound(n) == manifest[n].max_restarts # 0 \/ node[n].restarts < RestartBound

\* A process ends on its own, or because it was asked to.
Exits(n, success) ==
  /\ Up(n) /\ WithinBound(n)
  /\ proc' = [proc EXCEPT ![n] = IF success THEN "exit_0" ELSE "failed"]
  /\ UNCHANGED <<control, supervision, input>>

\* One that was killed ends in any case.
Dies(n) ==
  /\ proc[n] = "killed"
  /\ proc' = [proc EXCEPT ![n] = "failed"]
  /\ UNCHANGED <<control, supervision, input>>

RestartDue(n) ==
  /\ node[n].phase = "backoff" /\ n \notin due
  /\ due' = due \cup {n}
  /\ UNCHANGED <<control, node, ending, attempts, input, proc>>

StartDelayOver ==
  /\ pc \in {"supervise", "round"} /\ ~final /\ ~waited
  /\ waited' = TRUE
  /\ UNCHANGED <<pc, at, booted, final, supervision, input, proc>>

RequestStop ==
  /\ ~stopRequested /\ stopRequested' = TRUE
  /\ UNCHANGED <<manifest, control, supervision, proc>>
-----------------------------------------------------------------------------
(* The restart policy *)

\* The count and the delay that a stable run resets.
Base(n, stable) ==
  IF stable THEN [node[n] EXCEPT !.restarts = 0, !.delay = manifest[n].restart_delay] ELSE node[n]

Wanted(n, success) == manifest[n].restart = "always" \/ (manifest[n].restart = "on_failure" /\ ~success)
Mut_Allowed(n, restarts) == manifest[n].max_restarts = 0 \/ restarts <= manifest[n].max_restarts
Allowed(n, restarts) == manifest[n].max_restarts = 0 \/ restarts < manifest[n].max_restarts

Doubled(n, delay) == Min({delay * 2, Max({MaxDelay, manifest[n].restart_delay})})

\* A required node that ended for good is a reason to end, if it is the first.
Reason(n, success) ==
  IF manifest[n].required /\ ~Ending
  THEN [why |-> "required", code |-> IF success THEN 0 ELSE 1]
  ELSE ending

\* Ended: the node's process ended, or did not start; tried says how many
\* starts the next one follows.
Ended(n, success, stable, tried) ==
  LET base == Base(n, stable)
      again == Wanted(n, success) /\ Allowed(n, base.restarts)
  IN  /\ node' = [node EXCEPT ![n] =
                    IF again
                    THEN [base EXCEPT !.phase = "backoff", !.restarts = @ + 1,
                                      !.delay = Doubled(n, @)]
                    ELSE [base EXCEPT !.phase = "done", !.failed = ~success]]
      /\ ending' = IF again THEN ending ELSE Reason(n, success)
      /\ attempts' = [attempts EXCEPT ![n] = IF stable THEN 0 ELSE tried]

\* ProcessLauncher::Start: a process in a group of its own, or none.
StartProcess(n, started) == IF started THEN proc' = [proc EXCEPT ![n] = "up"] ELSE UNCHANGED proc

\* PosixChild::Signal: a process that has ended is left alone.
SignalProcess(n, effect) == proc' = [proc EXCEPT ![n] = IF Up(n) THEN effect ELSE @]

\* Start: a process, or an end of the node without one.
Launch(n) ==
  /\ due' = due \ {n}
  /\ \/ /\ StartProcess(n, TRUE)
        /\ node' = [node EXCEPT ![n].phase = "running"]
        /\ attempts' = [attempts EXCEPT ![n] = @ + 1]
        /\ UNCHANGED ending
     \/ /\ WithinBound(n)
        /\ Ended(n, FALSE, FALSE, attempts[n] + 1)
        /\ StartProcess(n, FALSE)
-----------------------------------------------------------------------------
(* Run *)

\* Run begins with the log directory, which it may fail to create.
Enter ==
  /\ pc = "enter"
  /\ \/ pc' = "boot" /\ UNCHANGED ending
     \/ pc' = "returned" /\ ending' = [why |-> "log_directory", code |-> 1]
  /\ UNCHANGED <<at, booted, final, waited, node, due, attempts, input, proc>>

\* Start the next node in order, unless the system is to end already.
Boot ==
  /\ pc = "boot" /\ booted < N /\ ~Ending /\ ~stopRequested
  /\ Launch(booted + 1)
  /\ booted' = booted + 1 /\ waited' = FALSE /\ pc' = "supervise"
  /\ UNCHANGED <<at, final, input>>

\* Every node is started, or no more are: supervise without a deadline.
BootOver ==
  /\ pc = "boot" /\ (booted = N \/ Ending \/ stopRequested)
  /\ final' = TRUE /\ pc' = "supervise"
  /\ UNCHANGED <<at, booted, waited, supervision, input, proc>>

\* SuperviseUntil returns to the loop over the nodes, or to StopAll.
Leave == IF final THEN pc' = "stop" /\ at' = N ELSE pc' = "boot" /\ UNCHANGED at

\* The loop of SuperviseUntil: leave, or begin a round.
Supervise ==
  /\ pc = "supervise"
  /\ IF Ending \/ stopRequested THEN Leave ELSE pc' = "round" /\ at' = 1
  /\ UNCHANGED <<booted, final, waited, supervision, input, proc>>

\* A round looks at each node in turn: Poll reaps a process that has ended.
Reap ==
  /\ Running(at) /\ Gone(at)
  /\ proc' = [proc EXCEPT ![at] = "none"]
  /\ \E stable \in BOOLEAN : Ended(at, proc[at] = "exit_0", stable, attempts[at])
  /\ UNCHANGED due

RestartNow == node[at].phase = "backoff" /\ at \in due /\ Launch(at)

Pass ==
  /\ ~(Running(at) /\ Gone(at)) /\ ~(node[at].phase = "backoff" /\ at \in due)
  /\ UNCHANGED <<supervision, proc>>

Look ==
  /\ pc = "round" /\ at <= N
  /\ Reap \/ RestartNow \/ Pass
  /\ at' = at + 1
  /\ UNCHANGED <<pc, booted, final, waited, input>>

\* The end of a round: end with the last node, return, or sleep and look again.
RoundOver ==
  /\ pc = "round" /\ at > N
  /\ ending' = IF ~Ending /\ \A n \in Nodes : node[n].phase = "done"
               THEN [why |-> "all",
                     code |-> IF \E n \in Nodes : node[n].failed THEN 1 ELSE 0]
               ELSE ending
  /\ IF ending' # NoReason \/ (waited /\ ~final) THEN Leave ELSE pc' = "supervise" /\ UNCHANGED at
  /\ UNCHANGED <<booted, final, waited, node, due, attempts, input, proc>>
-----------------------------------------------------------------------------
(* StopAll, from the last node to the first *)

FinishNode(n) == node' = [node EXCEPT ![n].phase = "done"]

StopSkip ==
  /\ pc = "stop" /\ at > 0 /\ ~Running(at)
  /\ FinishNode(at) /\ at' = at - 1
  /\ UNCHANGED <<pc, booted, final, waited, due, ending, attempts, input, proc>>

AskToStop ==
  /\ pc = "stop" /\ at > 0 /\ Running(at)
  /\ SignalProcess(at, "terminated")
  /\ pc' = "asked"
  /\ UNCHANGED <<at, booted, final, waited, supervision, input>>

\* WaitForExit gives up; the process may have ended since it was last polled.
\* Nothing changes when the wait after the kill ends first: the destructor of
\* the child then kills it again and waits for it.
Mut_Kill == FALSE
Kill ==
  /\ pc = "asked"
  /\ SignalProcess(at, "killed")
  /\ pc' = "killing"
  /\ UNCHANGED <<at, booted, final, waited, supervision, input>>

\* The exit is seen, and the child reaped.
Mut_Stopped ==
  /\ pc \in {"asked", "killing"} /\ (Gone(at) \/ pc = "killing")
  /\ FinishNode(at) /\ at' = at - 1 /\ pc' = "stop"
  /\ proc' = [proc EXCEPT ![at] = IF Gone(at) THEN "none" ELSE @]
  /\ UNCHANGED <<booted, final, waited, due, ending, attempts, input>>
Stopped ==
  /\ pc \in {"asked", "killing"} /\ Gone(at)
  /\ FinishNode(at) /\ at' = at - 1 /\ pc' = "stop"
  /\ proc' = [proc EXCEPT ![at] = "none"]
  /\ UNCHANGED <<booted, final, waited, due, ending, attempts, input>>

Return ==
  /\ pc = "stop" /\ at = 0 /\ pc' = "returned"
  /\ UNCHANGED <<at, booted, final, waited, supervision, input, proc>>
-----------------------------------------------------------------------------
RunStep == \/ Enter \/ Boot \/ BootOver \/ Supervise \/ Look \/ RoundOver
           \/ StopSkip \/ AskToStop \/ Kill \/ Stopped \/ Return

Timer == StartDelayOver \/ \E n \in Nodes : RestartDue(n)

Process(n) == Dies(n) \/ \E success \in BOOLEAN : Exits(n, success)

\* Run has returned; nothing of the system is left.
Over == pc = "returned" /\ UNCHANGED supervisorVars

SupervisorNext == RunStep \/ Timer \/ RequestStop \/ Over \/ \E n \in Nodes : Process(n)

SupervisorSpec == SupervisorInit /\ [][SupervisorNext]_supervisorVars

\* The thread runs, delays pass, and a killed process dies; nothing makes a
\* process end on its own or obey a stop.
FairSupervisor ==
  /\ SupervisorSpec
  /\ WF_supervisorVars(RunStep) /\ WF_supervisorVars(StartDelayOver)
  /\ \A n \in Nodes : WF_supervisorVars(RestartDue(n)) /\ WF_supervisorVars(Dies(n))
-----------------------------------------------------------------------------
(* Properties *)

\* "Never leave a zombie or an orphan behind": a process exists, running or not
\* yet reaped, exactly while its node is running, and none when Run returns,
\* however the processes end while they are polled, asked and killed.
NoOrphans ==
  /\ \A n \in Nodes : proc[n] # "none" <=> Running(n)
  /\ pc = "returned" => \A n \in Nodes : proc[n] = "none"

\* "Restarts allowed before giving up on the node": one start and max_restarts
\* restarts, counting starts that failed, between two stable runs.
RestartBudget ==
  \A n \in Nodes :
    attempts[n] <= (IF manifest[n].restart = "never" THEN 0 ELSE manifest[n].max_restarts) + 1
    \/ (manifest[n].restart # "never" /\ manifest[n].max_restarts = 0)

\* "Restart delays double for each restart that follows a run shorter than
\* this, up to max_restart_delay; a longer run resets the delay".
DelayDoubles ==
  \A n \in Nodes :
    node[n].delay = Min({manifest[n].restart_delay * 2 ^ node[n].restarts,
                         Max({MaxDelay, manifest[n].restart_delay})})

Done(n) == node[n].phase = "done"

\* While nothing is being stopped, the system is to end exactly when a required
\* node ended for good; an optional one ends it only with all the others.
EndsForAReason ==
  pc \in {"boot", "supervise", "round"} =>
    /\ (\E n \in Nodes : manifest[n].required /\ Done(n)) => Ending
    /\ Ending => \/ \E n \in Nodes : manifest[n].required /\ Done(n)
                 \/ \A n \in Nodes : Done(n)

\* What becomes of a node that ended: restarts within their budget, and the end
\* of the system for the documented reasons only.
PolicyKept == RestartBudget /\ EndsForAReason

\* Run returns once it is asked to stop or has a reason to end, whether or not
\* the processes obey.
StopHonoured == (stopRequested \/ Ending) ~> pc = "returned"

\* What Run promises about time: restarts wait as long as documented, and a stop
\* is never waited for in vain.
TimesKept == []DelayDoubles /\ StopHonoured
=============================================================================
