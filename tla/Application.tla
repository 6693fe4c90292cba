---------------------------- MODULE Application -----------------------------
(***************************************************************************)
(* Applications of one process (configuration/application.cpp) and the     *)
(* lifecycle of their components (runtime/context.cpp): Create assembles   *)
(* the runtime, its transports and its components, Start brings the        *)
(* components up in declaration order and rolls back a failure, Run waits  *)
(* for RequestStop or a signal, Stop drains the scheduler, tears the       *)
(* components down in reverse order and closes the transports.             *)
(*                                                                         *)
(* One owner thread per application calls Start, Run, Stop and the         *)
(* destructor; some have a second thread that calls Stop, and any thread   *)
(* may call RequestStop.  A thread whose control point is the name of a    *)
(* callback is inside that callback of component idx.  The scheduler is    *)
(* reduced to what Scheduler shows of it: it executes queued components,   *)
(* each one serially, and stops by draining.                               *)
(***************************************************************************)
EXTENDS RuntimeContext

CONSTANTS Apps,
          Processes,  \* the processes considered: [Apps -> project]
          None

\* What a process makes of an application: whether it creates it, the number of
\* its components, the kind of transport they use, whether a second thread calls
\* Stop, the options of its runtime and the transports it registers itself.
Kinds == {"inmemory", "shared_memory"}
Projects == [created : BOOLEAN, size : Nat, uses : Kinds, helped : BOOLEAN,
             options : [inmemory : BOOLEAN, opens : BOOLEAN, name : STRING],
             own : Seq([name : STRING, kind : Kinds])]

ASSUME ApplicationAssumption ==
  /\ \A p \in Processes : p \in [Apps -> Projects]
  /\ None \notin Apps

Threads == {"owner", "helper"}

\* The states from which RuntimeContext lets a callback be called, and the
\* state its success leads to; a failure leads to "error".
CallableIn == [configure  |-> {"created", "stopped"},
               initialize |-> {"configured"},
               start      |-> {"initialized", "stopped"},
               execute    |-> {"started"},
               stop       |-> {"started"},
               shutdown   |-> {"created", "configured", "initialized", "stopped", "error"}]
LeadsTo == [configure |-> "configured", initialize |-> "initialized", start |-> "started",
            stop |-> "stopped", shutdown |-> "shutdown"]
Callbacks == DOMAIN LeadsTo
VARIABLES project,    \* [Apps -> project], fixed
          phase,      \* [Apps -> Phase]
          stopReq,    \* [Apps -> stop_requested]
          runtime,    \* [Apps -> its runtime context]
          state,      \* [Apps -> component_states]
          pc, idx,    \* [Apps -> [Threads -> control point, component]]
          goal,       \* [Apps -> the call the owner is in]
          sched,      \* [Apps -> state of the scheduler]
          queued, executing,  \* [Apps -> set of components]
          watcher,    \* [Apps -> state of signal_watcher]
          sigOwner,   \* g_signal_owner
          flag,       \* g_signal_received
          handler,    \* the stop signals are handled
          ended       \* history: [Apps -> components in the order of their Shutdown]

app == <<project, phase, stopReq, runtime>>
threads == <<pc, idx, goal>>
work == <<sched, queued, executing>>
signals == <<watcher, sigOwner, flag, handler>>
vars == <<project, phase, stopReq, runtime, state, pc, idx, goal, sched, queued, executing,
          watcher, sigOwner, flag, handler, ended>>

Size(a) == project[a].size
Comps(a) == 1 .. Size(a)

Init ==
  /\ project \in Processes
  /\ phase = [a \in Apps |-> "created"] /\ stopReq = [a \in Apps |-> FALSE]
  /\ runtime = [a \in Apps |-> EmptyContext]
  /\ state = [a \in Apps |-> [i \in Comps(a) |-> "unregistered"]]
  /\ pc = [a \in Apps |-> [t \in Threads |-> CASE ~project[a].created -> "dead"
                                              [] t = "owner" -> "create"
                                              [] OTHER -> "idle"]]
  /\ idx = [a \in Apps |-> [t \in Threads |-> 0]]
  /\ goal = [a \in Apps |-> "none"]
  /\ sched = [a \in Apps |-> "off"]
  /\ queued = [a \in Apps |-> {}] /\ executing = [a \in Apps |-> {}]
  /\ watcher = [a \in Apps |-> "none"] /\ sigOwner = None
  /\ flag = FALSE /\ handler = FALSE
  /\ ended = [a \in Apps |-> << >>]

Alive(a) == pc[a]["owner"] \notin {"create", "own", "dead"}
GoTo(a, t, p) == pc' = [pc EXCEPT ![a][t] = p]
At(a, t, p, i) == GoTo(a, t, p) /\ idx' = [idx EXCEPT ![a][t] = i]
-----------------------------------------------------------------------------
(* Create *)

SetRuntime(a, rt) == runtime' = [runtime EXCEPT ![a] = rt]

\* A step of Create fails: the runtime is destroyed, which closes it.
CreateFails(a, rt) == SetRuntime(a, Close(rt)) /\ GoTo(a, "owner", "dead")

CreateRuntime(a) ==
  /\ pc[a]["owner"] = "create"
  /\ \E works \in BOOLEAN :
       LET result == Open(EmptyContext, project[a].options, works)
       IN  IF result.ok THEN SetRuntime(a, result.rt) /\ At(a, "owner", "own", 1)
           ELSE CreateFails(a, result.rt) /\ UNCHANGED idx
  /\ UNCHANGED <<project, phase, stopReq, state, goal, work, signals, ended>>

\* register_transports and register_project_transports of the options.
RegisterOwnTransport(a) ==
  /\ pc[a]["owner"] = "own" /\ idx[a]["owner"] <= Len(project[a].own)
  /\ \E works \in BOOLEAN :
       LET result == RegisterTransport(runtime[a], project[a].own[idx[a]["owner"]],
                                       project[a].options.opens, works)
       IN  IF result.ok THEN SetRuntime(a, result.rt) /\ At(a, "owner", "own", idx[a]["owner"] + 1)
           ELSE CreateFails(a, result.rt) /\ UNCHANGED idx
  /\ UNCHANGED <<project, phase, stopReq, state, goal, work, signals, ended>>

RegisterComponentInstances(a) == state' = [state EXCEPT ![a] = [i \in Comps(a) |-> "created"]]

\* CreateScheduler builds and registers the components, or fails.
RegisterComponents(a) ==
  /\ pc[a]["owner"] = "own" /\ idx[a]["owner"] > Len(project[a].own)
  /\ \/ /\ RegisterComponentInstances(a)
        /\ At(a, "owner", "idle", 0) /\ UNCHANGED runtime
     \/ CreateFails(a, runtime[a]) /\ UNCHANGED <<state, idx>>
  /\ UNCHANGED <<project, phase, stopReq, goal, work, signals, ended>>
-----------------------------------------------------------------------------
(* Lifecycle callbacks *)

SetComponentState(a, i, s) == state' = [state EXCEPT ![a][i] = s]

\* Bring component i up: the next of its three callbacks, the next component,
\* or the scheduler.
BringUpNext(a, t, cb) ==
  CASE cb = "configure" -> At(a, t, "initialize", idx[a][t])
    [] cb = "initialize" -> At(a, t, "start", idx[a][t])
    [] cb = "start" -> IF idx[a][t] < Size(a) THEN At(a, t, "configure", idx[a][t] + 1)
                       ELSE At(a, t, "sched", 0)

\* A rollback begins with the component that failed.
Mut_RollBack(a, t) == At(a, t, "visit", idx[a][t] - 1)
RollBack(a, t) == At(a, t, "visit", idx[a][t])

\* After a callback of the teardown, failed or not.
TearDownNext(a, t, cb) ==
  CASE cb = "stop" -> At(a, t, "shutdown", idx[a][t])
    [] cb = "shutdown" -> At(a, t, "visit", idx[a][t] - 1)

\* Configure creates the component's endpoints.
Possible(a, cb) == cb = "configure" => CanCreateEndpoint(runtime[a], project[a].uses)

\* A callback that RuntimeContext let through returns, or the call is refused
\* as an invalid transition.
CallbackReturns(a, t, ok) ==
  LET cb == pc[a][t]
      i == idx[a][t]
      let == state[a][i] \in CallableIn[cb]
  IN  /\ cb \in Callbacks
      /\ ok => let /\ Possible(a, cb)
      /\ IF let THEN SetComponentState(a, i, IF ok THEN LeadsTo[cb] ELSE "error") ELSE UNCHANGED state
      /\ ended' = IF let /\ cb = "shutdown" THEN [ended EXCEPT ![a] = Append(@, i)] ELSE ended
      /\ IF cb \in {"stop", "shutdown"} THEN TearDownNext(a, t, cb)
         ELSE IF ok THEN BringUpNext(a, t, cb) ELSE RollBack(a, t)
      /\ UNCHANGED <<app, goal, work, signals>>

\* TearDownComponents looks at the next component.
Visit(a, t) ==
  /\ pc[a][t] = "visit"
  /\ LET i == idx[a][t]
     IN  IF i = 0 THEN At(a, t, "torn", 0)
         ELSE IF state[a][i] = "started" THEN At(a, t, "stop", i)
         ELSE IF state[a][i] # "shutdown" THEN At(a, t, "shutdown", i)
         ELSE At(a, t, "visit", i - 1)
  /\ UNCHANGED <<app, state, goal, work, signals, ended>>
-----------------------------------------------------------------------------
(* The scheduler *)

\* A trigger fires.
Trigger(a, i) ==
  /\ sched[a] \in {"starting", "on"} /\ i \notin queued[a]
  /\ queued' = [queued EXCEPT ![a] = @ \cup {i}]
  /\ UNCHANGED <<app, state, threads, sched, executing, signals, ended>>

\* A worker takes a queued component; ExecuteComponent refuses one that is not
\* started.
Execute(a, i) ==
  /\ sched[a] # "off" /\ i \in queued[a] \ executing[a]
  /\ queued' = [queued EXCEPT ![a] = @ \ {i}]
  /\ executing' = IF state[a][i] \in CallableIn["execute"]
                  THEN [executing EXCEPT ![a] = @ \cup {i}] ELSE executing
  /\ UNCHANGED <<app, state, threads, sched, signals, ended>>

ExecuteReturns(a, i, ok) ==
  /\ i \in executing[a]
  /\ executing' = [executing EXCEPT ![a] = @ \ {i}]
  /\ IF ok THEN UNCHANGED state ELSE SetComponentState(a, i, "error")
  /\ UNCHANGED <<app, threads, sched, queued, signals, ended>>

\* Scheduler::Start runs the workers before the triggers are installed.
SchedulerStarts(a) ==
  /\ pc[a]["owner"] = "sched" /\ sched[a] = "off"
  /\ sched' = [sched EXCEPT ![a] = "starting"]
  /\ UNCHANGED <<app, state, threads, queued, executing, signals, ended>>

SchedulerStarted(a) ==
  /\ pc[a]["owner"] = "sched" /\ sched[a] = "starting"
  /\ sched' = [sched EXCEPT ![a] = "on"]
  /\ GoTo(a, "owner", "up")
  /\ UNCHANGED <<app, state, idx, goal, queued, executing, signals, ended>>

\* Start fails before it runs anything, or stops what it ran.
SchedulerStartFails(a) ==
  /\ pc[a]["owner"] = "sched"
  /\ \/ sched[a] = "off" /\ At(a, "owner", "visit", Size(a)) /\ UNCHANGED sched
     \/ /\ sched[a] = "starting" /\ At(a, "owner", "drain", 0)
        /\ sched' = [sched EXCEPT ![a] = "draining"]
  /\ UNCHANGED <<app, state, goal, queued, executing, signals, ended>>

\* Scheduler::Stop, and the start of the teardown of every component.
SchedulerStops(a, t) ==
  /\ pc[a][t] = "sched_stop"
  /\ sched' = [sched EXCEPT ![a] = "draining"]
  /\ GoTo(a, t, "drain")
  /\ UNCHANGED <<app, state, idx, goal, queued, executing, signals, ended>>

Mut_Drained(a, t) ==
  /\ pc[a][t] = "drain" /\ queued[a] = {}
  /\ sched' = [sched EXCEPT ![a] = "off"]
  /\ At(a, t, "visit", Size(a))
  /\ UNCHANGED <<app, state, goal, queued, executing, signals, ended>>
Drained(a, t) ==
  /\ pc[a][t] = "drain" /\ queued[a] = {} /\ executing[a] = {}
  /\ sched' = [sched EXCEPT ![a] = "off"]
  /\ At(a, t, "visit", Size(a))
  /\ UNCHANGED <<app, state, goal, queued, executing, signals, ended>>
-----------------------------------------------------------------------------
(* Start, Run, Stop *)

\* Start, alone or as the beginning of Run: once, and not after Stop.
Start(a) ==
  /\ pc[a]["owner"] = "idle" /\ phase[a] = "created"
  /\ \E g \in {"start", "run"} : goal' = [goal EXCEPT ![a] = g]
  /\ IF Size(a) > 0 THEN At(a, "owner", "configure", 1) ELSE At(a, "owner", "sched", 0)
  /\ UNCHANGED <<app, state, work, signals, ended>>

\* Start succeeds, and Run goes on to wait.
Started(a) ==
  /\ pc[a]["owner"] = "up"
  /\ phase' = [phase EXCEPT ![a] = "running"]
  /\ GoTo(a, "owner", IF goal[a] = "run" THEN "waiting" ELSE "idle")
  /\ UNCHANGED <<project, stopReq, runtime, state, idx, goal, work, signals, ended>>

\* Run of an application that Start left running.
RunAgain(a) ==
  /\ pc[a]["owner"] = "idle" /\ phase[a] = "running"
  /\ goal' = [goal EXCEPT ![a] = "run"]
  /\ GoTo(a, "owner", "waiting")
  /\ UNCHANGED <<app, state, idx, work, signals, ended>>

RunWakes(a) ==
  /\ pc[a]["owner"] = "waiting" /\ stopReq[a]
  /\ GoTo(a, "owner", "stopping")
  /\ goal' = [goal EXCEPT ![a] = "stop"]
  /\ UNCHANGED <<app, state, idx, work, signals, ended>>

RequestStop(a) ==
  /\ Alive(a) /\ ~stopReq[a]
  /\ stopReq' = [stopReq EXCEPT ![a] = TRUE]
  /\ UNCHANGED <<project, phase, runtime, state, threads, work, signals, ended>>

\* A thread calls Stop; the second thread does not outlive the application.
CallStop(a, t) ==
  /\ pc[a][t] = "idle"
  /\ t = "helper" => project[a].helped /\ Alive(a) /\ goal[a] # "destroy"
  /\ GoTo(a, t, "stopping")
  /\ goal' = IF t = "owner" THEN [goal EXCEPT ![a] = "stop"] ELSE goal
  /\ UNCHANGED <<app, state, idx, work, signals, ended>>

\* A call of the owner or the second thread ends; the destructor's call ends the
\* application, whose runtime closes the transports if Stop did not.
Leave(a, t) ==
  LET dies == t = "owner" /\ goal[a] = "destroy"
  IN  /\ GoTo(a, t, IF dies THEN "dead" ELSE "idle")
      /\ goal' = IF t = "owner" THEN [goal EXCEPT ![a] = "none"] ELSE goal

\* Stop: the one who finds the application running stops it.
Stop(a, t) ==
  /\ pc[a][t] = "stopping"
  /\ phase' = [phase EXCEPT ![a] = "stopped"]
  /\ IF phase[a] = "running"
     THEN GoTo(a, t, "sched_stop") /\ UNCHANGED <<runtime, goal>>
     ELSE /\ Leave(a, t)
          /\ IF pc'[a]["owner"] = "dead" THEN SetRuntime(a, Close(runtime[a])) ELSE UNCHANGED runtime
  /\ UNCHANGED <<project, stopReq, state, idx, work, signals, ended>>

\* The teardown is over: Start has failed, or Stop closes the transports.
TearDownOver(a, t) ==
  /\ pc[a][t] = "torn"
  /\ IF t = "owner" /\ goal[a] \in {"start", "run"}
     THEN phase' = [phase EXCEPT ![a] = "stopped"] /\ UNCHANGED runtime
     ELSE SetRuntime(a, Close(runtime[a])) /\ UNCHANGED phase
  /\ Leave(a, t)
  /\ UNCHANGED <<project, stopReq, state, idx, work, signals, ended>>
-----------------------------------------------------------------------------
(* Signals *)

\* InstallSignalHandlers: become the owner, forget old signals, then handle new
\* ones and start the watcher, or fail to.
ClaimSignals(a) ==
  /\ pc[a]["owner"] = "idle" /\ watcher[a] = "none" /\ sigOwner = None
  /\ sigOwner' = a
  /\ GoTo(a, "owner", "install")
  /\ UNCHANGED <<app, state, idx, goal, work, watcher, flag, handler, ended>>

ForgetSignals(a) ==
  /\ pc[a]["owner"] = "install"
  /\ flag' = FALSE
  /\ GoTo(a, "owner", "handle")
  /\ UNCHANGED <<app, state, idx, goal, work, watcher, sigOwner, handler, ended>>

HandleSignals(a) ==
  /\ pc[a]["owner"] = "handle"
  /\ \/ handler' = TRUE /\ watcher' = [watcher EXCEPT ![a] = "alive"] /\ UNCHANGED sigOwner
     \/ handler' = FALSE /\ sigOwner' = None /\ UNCHANGED watcher
  /\ GoTo(a, "owner", "idle")
  /\ UNCHANGED <<app, state, idx, goal, work, flag, ended>>

\* SIGINT or SIGTERM while HandleStopSignal is installed.
Signal ==
  /\ handler /\ ~flag
  /\ flag' = TRUE
  /\ UNCHANGED <<app, state, threads, work, watcher, sigOwner, handler, ended>>

\* The watcher thread turns the flag into a RequestStop.
Mut_WatcherPolls(a) ==
  /\ watcher[a] = "alive" /\ flag
  /\ flag' = FALSE
  /\ stopReq' = [stopReq EXCEPT ![a] = @ \/ phase[a] = "running"]
  /\ UNCHANGED <<project, phase, runtime, state, threads, work, watcher, sigOwner, handler, ended>>
WatcherPolls(a) ==
  /\ watcher[a] = "alive" /\ flag
  /\ flag' = FALSE
  /\ stopReq' = [stopReq EXCEPT ![a] = TRUE]
  /\ UNCHANGED <<project, phase, runtime, state, threads, work, watcher, sigOwner, handler, ended>>

\* The destructor, once no other thread is inside: StopSignalWatcher, then Stop.
Destroy(a) ==
  /\ pc[a]["owner"] = "idle" /\ pc[a]["helper"] = "idle"
  /\ goal' = [goal EXCEPT ![a] = "destroy"]
  /\ IF watcher[a] = "alive"
     THEN GoTo(a, "owner", "join") /\ watcher' = [watcher EXCEPT ![a] = "told"]
     ELSE GoTo(a, "owner", "stopping") /\ UNCHANGED watcher
  /\ UNCHANGED <<app, state, idx, work, sigOwner, flag, handler, ended>>

WatcherExits(a) ==
  /\ watcher[a] = "told"
  /\ watcher' = [watcher EXCEPT ![a] = "exited"]
  /\ UNCHANGED <<app, state, threads, work, sigOwner, flag, handler, ended>>

\* Joined: the default handling comes back before the ownership is given up.
ResetStopSignals(a) ==
  /\ pc[a]["owner"] = "join" /\ watcher[a] = "exited"
  /\ handler' = FALSE
  /\ GoTo(a, "owner", "release")
  /\ UNCHANGED <<app, state, idx, goal, work, watcher, sigOwner, flag, ended>>

ReleaseSignals(a) ==
  /\ pc[a]["owner"] = "release"
  /\ sigOwner' = None
  /\ GoTo(a, "owner", "stopping")
  /\ UNCHANGED <<app, state, idx, goal, work, watcher, flag, handler, ended>>
-----------------------------------------------------------------------------
\* The steps that a thread inside a call takes.
ThreadStep(a, t) ==
  \/ \E ok \in BOOLEAN : CallbackReturns(a, t, ok)
  \/ Visit(a, t) \/ SchedulerStops(a, t) \/ Drained(a, t)
  \/ Stop(a, t) \/ TearDownOver(a, t)

OwnerStep(a) ==
  \/ CreateRuntime(a) \/ RegisterOwnTransport(a) \/ RegisterComponents(a)
  \/ SchedulerStarts(a) \/ SchedulerStarted(a) \/ SchedulerStartFails(a)
  \/ Started(a) \/ RunWakes(a)
  \/ ForgetSignals(a) \/ HandleSignals(a) \/ ResetStopSignals(a) \/ ReleaseSignals(a)

WorkerStep(a, i) == Execute(a, i) \/ \E ok \in BOOLEAN : ExecuteReturns(a, i, ok)
WatcherStep(a) == WatcherPolls(a) \/ WatcherExits(a)

\* The calls that threads make when they choose to.
Call(a) ==
  \/ Start(a) \/ RunAgain(a) \/ RequestStop(a) \/ ClaimSignals(a) \/ Destroy(a)
  \/ \E t \in Threads : CallStop(a, t)

Next ==
  \/ Signal
  \/ \E a \in Apps :
       \/ Call(a) \/ OwnerStep(a) \/ WatcherStep(a)
       \/ \E t \in Threads : ThreadStep(a, t)
       \/ \E i \in Comps(a) : Trigger(a, i) \/ WorkerStep(a, i)

Spec == Init /\ [][Next]_vars

\* Threads inside a call go on, callbacks return, workers and watchers run.
FairSpec ==
  /\ Spec
  /\ \A a \in Apps :
       /\ WF_vars(OwnerStep(a)) /\ WF_vars(WatcherStep(a))
       /\ \A t \in Threads : WF_vars(ThreadStep(a, t))
       /\ WF_vars(\E i \in Comps(a) : WorkerStep(a, i))
-----------------------------------------------------------------------------
(* Properties *)

InCallback(a, t) == pc[a][t] \in Callbacks

\* "No component executes while it is being stopped": the callbacks of a
\* component never overlap, whichever thread runs them.
CallbacksExclusive ==
  \A a \in Apps : \A t \in Threads :
    InCallback(a, t) =>
      /\ idx[a][t] \notin executing[a]
      /\ \A u \in Threads \ {t} : ~InCallback(a, u)

\* Components are shut down at most once and in reverse order, also when Start
\* fails half-way or two threads stop the application.
ShutDownInReverse ==
  \A a \in Apps : \A j, k \in 1 .. Len(ended[a]) : j < k => ended[a][j] > ended[a][k]

\* When no call is in progress and the application does not run, every component
\* that Start touched, the one that failed included, got its Shutdown; and an
\* application that is gone, or could not be created, leaves no transport open.
NothingLeftUp ==
  \A a \in Apps :
    phase[a] # "running" /\ (\A t \in Threads : pc[a][t] \in {"idle", "dead"}) =>
      /\ sched[a] = "off" /\ executing[a] = {}
      /\ \A i \in Comps(a) : \/ state[a][i] \in {"unregistered", "created"}
                            \/ \E k \in 1 .. Len(ended[a]) : ended[a][k] = i
      /\ pc[a]["owner"] = "dead" => \A n \in Names(runtime[a]) : ~runtime[a].transports[n].open

\* Whoever tears the components down, and however far Start came: in order, once,
\* and completely.
TornDown == ShutDownInReverse /\ NothingLeftUp

\* The transports stay open until the last component had its Shutdown.
TransportsOutliveComponents ==
  \A a \in Apps :
    executing[a] # {} \/ (\E t \in Threads : InCallback(a, t)) =>
      \A n \in Names(runtime[a]) : runtime[a].open /\ runtime[a].transports[n].open

\* A callback runs alone on its component, and finds the transports open.
CallbacksSafe == CallbacksExclusive /\ TransportsOutliveComponents

\* A watcher that runs receives the signals: another application that gives its
\* handlers up does not take them away.
WatcherKeepsHandlers ==
  \A a \in Apps : watcher[a] = "alive" => handler /\ sigOwner = a

\* A signal ends Run, also one that arrives while the components start, and no
\* other application takes the handlers away.
SignalEndsRun ==
  /\ []WatcherKeepsHandlers
  /\ \A a \in Apps :
       flag /\ watcher[a] = "alive" /\ goal[a] = "run" ~> goal[a] # "run"
=============================================================================
