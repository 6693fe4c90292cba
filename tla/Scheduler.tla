----------------------------- MODULE Scheduler ------------------------------
(***************************************************************************)
(* The component scheduler (scheduler/scheduler.cpp): triggers queue at    *)
(* most one event per component, a pool of workers takes the best eligible *)
(* event, and Start, Stop and WaitIdle run against both.  Each action is   *)
(* one critical section of Impl::mutex; a worker in the wait set of        *)
(* event_available stays there until it is notified.                       *)
(*                                                                         *)
(* Time is counted in priority-aging intervals.  The dispatch order is     *)
(* decided by differences of ages, and a difference of AgeGap outweighs    *)
(* every priority and deadline, so Tick keeps smaller differences exact    *)
(* and lets larger ones shrink to AgeGap.  The cap of the boost at 2^40    *)
(* intervals is out of reach.  Statistics, logging and observer calls are  *)
(* left out.                                                               *)
(***************************************************************************)
EXTENDS Naturals, Sequences, FiniteSets

CONSTANTS Components, Workers, Callers,
          Triggers,    \* the declared triggers of the registered components
          Decl,        \* [Triggers -> component, kind, policy, deps, priority, deadline]
          NoDeadline,  \* a relative deadline later than every other
          Aging,       \* priority_aging_interval > 0
          AgeGap,      \* bound: a wait this much longer outweighs any priority
          WaitedFor,   \* the topics and services (of FastDDS) whose readers' destructor
                       \* waits for a callback in flight
          None

TriggerKinds == {"manual", "periodic", "data", "service", "task"}
Owner(t) == Decl[t].component
OfKind(k) == {t \in Triggers : Decl[t].kind = k}

Deps == UNION {Decl[t].deps : t \in Triggers}

\* The trigger readers: one for each topic of a data trigger and each service
\* of a service trigger.
TriggerReaders ==
  UNION {{t} \X Decl[t].deps : t \in OfKind("data") \cup OfKind("service")}

\* What AddComponent accepts (ValidateTrigger, ValidateComponentSpec): a data or
\* task trigger waits for something, and no two data (or two service) triggers
\* of one component share a topic (a service).
TriggersValid ==
  /\ \A t \in Triggers : /\ Owner(t) \in Components /\ Decl[t].kind \in TriggerKinds
                         /\ Decl[t].kind \in {"data", "task"} => Decl[t].deps # {}
  /\ \A k \in {"data", "service"} : \A t, u \in OfKind(k) :
       t # u /\ Owner(t) = Owner(u) => Decl[t].deps \cap Decl[u].deps = {}

\* InstallTaskTriggers accepts only dependency graphs without a cycle: Kahn's
\* algorithm visits every component exactly when some ranking exists.
Acyclic ==
  \E rank \in [Components -> 1 .. Cardinality(Components)] :
    \A t \in OfKind("task") : \A u \in Decl[t].deps : rank[u] < rank[Owner(t)]

ASSUME SchedulerAssumption ==
  /\ Workers # {} /\ IsFiniteSet(Workers) /\ IsFiniteSet(Components) /\ IsFiniteSet(Triggers)
  /\ TriggersValid
  /\ \A t \in Triggers :
       /\ Decl[t].policy \in {"any", "all"}
       /\ Decl[t].priority \in Nat
       /\ Decl[t].deadline \in 1 .. NoDeadline
  /\ NoDeadline \in Nat /\ AgeGap \in Nat
  /\ Aging \in BOOLEAN
  /\ None \notin Components
  /\ Acyclic

VARIABLES running, starting, stopping,
          pending,    \* pending_events: queued events, oldest first
          queued,     \* queued_components
          executing,  \* executing_components
          active,     \* active_events
          wpc, job,   \* workers: control point and component in ExecuteNow
          cpc,        \* callers inside Start, Stop or WaitIdle
          timers,     \* running periodic threads
          installed,  \* data_trigger_readers: the trigger readers that are set up
          ready,      \* [Triggers -> set of deps]: readiness bits of kAll
          inflight    \* callbacks of trigger readers under way, each with whether
                      \* it only was copied or also is holding its reader

lifecycle == <<running, starting, stopping>>
queue == <<pending, queued>>
work == <<executing, active, job>>
vars == <<running, starting, stopping, pending, queued, executing, active,
          wpc, job, cpc, timers, installed, ready, inflight>>

Init ==
  /\ running = FALSE /\ starting = FALSE /\ stopping = FALSE
  /\ pending = << >> /\ queued = {} /\ executing = {} /\ active = 0
  /\ wpc = [w \in Workers |-> "none"]
  /\ job = [w \in Workers |-> None]
  /\ cpc = [c \in Callers |-> "idle"]
  /\ timers = {} /\ installed = {} /\ inflight = {}
  /\ ready = [t \in Triggers |-> {}]

Accepting == running /\ ~stopping

\* Stop destroys the trigger readers in one critical section of Impl::mutex.
MutexFree == \A c \in Callers : cpc[c] # "stop_clear"
-----------------------------------------------------------------------------
(* Queueing: QueueEvent, called with the mutex held *)

EventOf(t) == [component |-> Owner(t), priority |-> Decl[t].priority,
               deadline |-> Decl[t].deadline, age |-> 0]

Events(ts) == [i \in DOMAIN ts |-> EventOf(ts[i])]

\* The ways to append one event for each component of ts that has none queued,
\* each with the properties of one of its triggers.
Appended(ts) ==
  LET new == {Owner(t) : t \in ts} \ queued
      n == Cardinality(new)
  IN  {f \in [1 .. n -> ts] : {Owner(f[i]) : i \in 1 .. n} = new}

Waiting == {w \in Workers : wpc[w] = "waiting"}
Wake(W) == wpc' = [w \in Workers |-> IF w \in W THEN "check" ELSE wpc[w]]

\* QueueEvent for one trigger: coalesce, or append and notify one waiter.
Mut_QueueEvent(t) ==
  /\ pending' = Append(pending, EventOf(t))
  /\ queued' = queued \cup {Owner(t)}
  /\ IF Waiting = {} THEN UNCHANGED wpc ELSE \E w \in Waiting : Wake({w})
Mut2_QueueEvent(t) ==
  IF Owner(t) \in queued THEN UNCHANGED <<pending, queued, wpc>>
  ELSE /\ pending' = Append(pending, EventOf(t))
       /\ queued' = queued \cup {Owner(t)}
       /\ IF pending # << >> \/ Waiting = {} THEN UNCHANGED wpc ELSE \E w \in Waiting : Wake({w})
QueueEvent(t) ==
  IF Owner(t) \in queued THEN UNCHANGED <<pending, queued, wpc>>
  ELSE /\ pending' = Append(pending, EventOf(t))
       /\ queued' = queued \cup {Owner(t)}
       /\ IF Waiting = {} THEN UNCHANGED wpc ELSE \E w \in Waiting : Wake({w})

\* Trigger(name) and a timer's tick: Enqueue refuses unless accepting.
Trigger(t) ==
  /\ t \in OfKind("manual")
  /\ Accepting
  /\ QueueEvent(t)
  /\ UNCHANGED <<lifecycle, work, cpc, timers, installed, ready, inflight>>

TimerFires(t) ==
  /\ t \in timers
  /\ Accepting
  /\ QueueEvent(t)
  /\ UNCHANGED <<lifecycle, work, cpc, timers, installed, ready, inflight>>

TimerExits(t) ==
  /\ t \in timers
  /\ ~Accepting
  /\ timers' = timers \ {t}
  /\ UNCHANGED <<lifecycle, queue, work, wpc, cpc, installed, ready, inflight>>

\* New data on topic d: the transport copies the trigger reader's callback.  What
\* the callback holds matters only where the reader's destructor waits for it; there
\* the listener runs one callback at a time.
DataArrives(t, d) ==
  /\ <<t, d>> \in installed
  /\ d \in WaitedFor => <<t, d, "holding">> \notin inflight
  /\ inflight' = inflight \cup {<<t, d, IF d \in WaitedFor THEN "copied" ELSE "holding">>}
  /\ UNCHANGED <<lifecycle, queue, work, wpc, cpc, timers, installed, ready>>

\* The callback begins: weak_reader.lock() keeps its reader until it returns, so
\* that Stop does not destroy that one.
HoldReader(t, d) ==
  /\ <<t, d, "copied">> \in inflight
  /\ <<t, d>> \in installed
  /\ inflight' = (inflight \ {<<t, d, "copied">>}) \cup {<<t, d, "holding">>}
  /\ UNCHANGED <<lifecycle, queue, work, wpc, cpc, timers, installed, ready>>

\* The readiness of t after dependency d reported, and whether t fires.
Fires(t, d) == Decl[t].policy = "any" \/ ready[t] \cup {d} = Decl[t].deps
Marked(t, d) == IF Fires(t, d) THEN {} ELSE ready[t] \cup {d}

\* The trigger's DataTriggerState exists.
HasState(t) == \E r \in installed : r[1] = t

\* OnDataAvailable, or the service callback that needs no readiness bits.  A
\* callback may outlive the run it was copied in: it then finds no trigger
\* state (at() throws, which the transport catches) or that of the next run.
DataCallback(t, d, held) ==
  /\ <<t, d, held>> \in inflight
  /\ held = "holding" \/ <<t, d>> \notin installed
  /\ MutexFree
  /\ inflight' = inflight \ {<<t, d, held>>}
  /\ IF Accepting /\ (HasState(t) \/ Decl[t].kind = "service")
     THEN /\ ready' = [ready EXCEPT ![t] = Marked(t, d)]
          /\ IF Fires(t, d) THEN QueueEvent(t) ELSE UNCHANGED <<pending, queued, wpc>>
     ELSE UNCHANGED <<ready, pending, queued, wpc>>
  /\ UNCHANGED <<lifecycle, work, cpc, timers, installed>>
-----------------------------------------------------------------------------
(* Workers: DispatchLoop *)

Mut_Eligible == 1 .. Len(pending)
Eligible == {i \in 1 .. Len(pending) : pending[i].component \notin executing}

Mut_EffectivePriority(e) == e.priority
EffectivePriority(e) == IF Aging THEN e.priority + e.age ELSE e.priority

\* Event a is due before event b.
DueBefore(a, b) ==
  a.deadline # NoDeadline /\ (b.deadline = NoDeadline \/ a.deadline + b.age < b.deadline + a.age)

\* Event i is dispatched before event j: priority, then due time, then FIFO.
Beats(i, j) ==
  LET a == pending[i]
      b == pending[j]
  IN  \/ EffectivePriority(a) > EffectivePriority(b)
      \/ /\ EffectivePriority(a) = EffectivePriority(b)
         /\ DueBefore(a, b) \/ (~DueBefore(b, a) /\ i < j)

\* A sequence without its i-th element.
Without(s, i) == [j \in 1 .. Len(s) - 1 |-> IF j < i THEN s[j] ELSE s[j + 1]]

\* Take the best eligible event and run its component.
Take(w) ==
  /\ wpc[w] = "check"
  /\ \E i \in Eligible :
       LET c == pending[i].component
       IN  /\ \A j \in Eligible \ {i} : Beats(i, j)
           /\ pending' = Without(pending, i)
           /\ queued' = queued \ {c}
           /\ executing' = executing \cup {c}
           /\ active' = active + 1
           /\ job' = [job EXCEPT ![w] = c]
  /\ wpc' = [wpc EXCEPT ![w] = "executing"]
  /\ UNCHANGED <<lifecycle, cpc, timers, installed, ready, inflight>>

\* Nothing to do: wait for event_available, for either reason.
Sleep(w) ==
  /\ wpc[w] = "check"
  /\ Eligible = {}
  /\ ~(stopping /\ pending = << >>)
  /\ wpc' = [wpc EXCEPT ![w] = "waiting"]
  /\ UNCHANGED <<lifecycle, queue, work, cpc, timers, installed, ready, inflight>>

\* idle.notify_all when nothing is queued or running.
NotifyIdle(isIdle) ==
  cpc' = [c \in Callers |-> IF isIdle /\ cpc[c] = "idle_wait" THEN "idle_check" ELSE cpc[c]]

Mut_ExitLoop(w) ==
  /\ wpc[w] = "check"
  /\ stopping
  /\ wpc' = [wpc EXCEPT ![w] = "exited"]
  /\ NotifyIdle(active = 0)
  /\ UNCHANGED <<lifecycle, queue, work, timers, installed, ready, inflight>>
ExitLoop(w) ==
  /\ wpc[w] = "check"
  /\ stopping /\ pending = << >>
  /\ wpc' = [wpc EXCEPT ![w] = "exited"]
  /\ NotifyIdle(active = 0)
  /\ UNCHANGED <<lifecycle, queue, work, timers, installed, ready, inflight>>

\* The task triggers that wait for component c, and those it fires.
Dependents(c) == {t \in OfKind("task") : c \in Decl[t].deps}

\* ExecuteComponent returned: free the component, wake every worker, and after
\* a success outside Stop let the downstream tasks know.
Finish(w, ok) ==
  LET c == job[w]
      told == IF ok /\ ~stopping THEN Dependents(c) ELSE {}
      fired == {t \in told : Fires(t, c)}
  IN  /\ wpc[w] = "executing"
      /\ job' = [job EXCEPT ![w] = None]
      /\ executing' = executing \ {c}
      /\ active' = active - 1
      /\ wpc' = [v \in Workers |-> IF v = w \/ v \in Waiting THEN "check" ELSE wpc[v]]
      /\ ready' = [t \in Triggers |-> IF t \in told THEN Marked(t, c) ELSE ready[t]]
      /\ \E ts \in Appended(fired) : pending' = pending \o Events(ts)
      /\ queued' = queued \cup {Owner(t) : t \in fired}
      /\ NotifyIdle(pending' = << >> /\ active' = 0)
      /\ UNCHANGED <<lifecycle, timers, installed, inflight>>

\* The age beyond which event i is AgeGap older than any younger one can get.
AgeCap(i) == AgeGap * (Len(pending) - i + 1)
Aged(i) == [pending[i] EXCEPT !.age = IF @ < AgeCap(i) THEN @ + 1 ELSE @]

\* One aging interval passes.
Tick ==
  /\ \E i \in 1 .. Len(pending) : pending[i].age < AgeCap(i)
  /\ pending' = [i \in 1 .. Len(pending) |-> Aged(i)]
  /\ UNCHANGED <<lifecycle, queued, work, wpc, cpc, timers, installed, ready, inflight>>
-----------------------------------------------------------------------------
(* Callers: Start, Stop, WaitIdle *)

At(c, from, to) == cpc[c] = from /\ cpc' = [cpc EXCEPT ![c] = to]

\* Start: install the task triggers, accept events, spawn the workers.
StartBegin(c) ==
  /\ At(c, "idle", "installing")
  /\ ~starting /\ ~stopping /\ ~running
  /\ running' = TRUE /\ starting' = TRUE
  /\ wpc' = [w \in Workers |-> "check"]
  /\ UNCHANGED <<stopping, queue, work, timers, installed, ready, inflight>>

\* InstallDataTriggers and InstallServiceTriggers, one reader at a time.
Install(c, r) ==
  /\ cpc[c] = "installing"
  /\ r \in TriggerReaders \ installed
  /\ installed' = installed \cup {r}
  /\ UNCHANGED <<lifecycle, queue, work, wpc, cpc, timers, ready, inflight>>

\* Every trigger is installed: start the timers and leave Start.
StartEnd(c) ==
  /\ At(c, "installing", "idle")
  /\ TriggerReaders \subseteq installed
  /\ timers' = OfKind("periodic")
  /\ starting' = FALSE
  /\ UNCHANGED <<running, stopping, queue, work, wpc, installed, ready, inflight>>

\* A trigger cannot be installed: Start calls Stop(true) itself.
StartFails(c) ==
  /\ At(c, "installing", "stop_notify")
  /\ ~(TriggerReaders \subseteq installed)
  /\ stopping' = TRUE /\ running' = FALSE
  /\ UNCHANGED <<starting, queue, work, wpc, timers, installed, ready, inflight>>

\* Stop, once no Start is in progress.
StopBegin(c) ==
  /\ At(c, "idle", "stop_notify")
  /\ ~starting /\ ~stopping /\ running
  /\ stopping' = TRUE /\ running' = FALSE
  /\ UNCHANGED <<starting, queue, work, wpc, timers, installed, ready, inflight>>

\* event_available.notify_all, after the mutex was released.
Mut_StopNotify(c) ==
  /\ At(c, "stop_notify", "stop_join")
  /\ UNCHANGED <<lifecycle, queue, work, wpc, timers, installed, ready, inflight>>
StopNotify(c) ==
  /\ At(c, "stop_notify", "stop_join")
  /\ Wake(Waiting)
  /\ UNCHANGED <<lifecycle, queue, work, timers, installed, ready, inflight>>

\* Timers and workers are joined: take the mutex and clear the queue.
StopClear(c) ==
  /\ At(c, "stop_join", "stop_clear")
  /\ timers = {} /\ \A w \in Workers : wpc[w] = "exited"
  /\ pending' = << >> /\ queued' = {} /\ active' = 0
  /\ wpc' = [w \in Workers |-> "none"]
  /\ UNCHANGED <<lifecycle, executing, job, timers, installed, ready, inflight>>

\* The callbacks that the destructor of a reader that is gone is waiting for:
\* copied before the reader was closed, they found nothing to hold.
Awaited == {x \in inflight : x[3] = "copied" /\ <<x[1], x[2]>> \notin installed}

\* data_trigger_readers.clear(), with the mutex held.
DestroyReader(c, r) ==
  /\ cpc[c] = "stop_clear"
  /\ r \in installed /\ Awaited = {}
  /\ installed' = installed \ {r}
  /\ UNCHANGED <<lifecycle, queue, work, wpc, cpc, timers, ready, inflight>>

\* All readers are destroyed: forget the triggers, release the mutex and leave
\* Stop (and the Start that called it).
StopEnd(c) ==
  /\ cpc[c] = "stop_clear"
  /\ installed = {} /\ Awaited = {}
  /\ ready' = [t \in Triggers |-> {}]
  /\ stopping' = FALSE /\ starting' = FALSE
  /\ cpc' = [d \in Callers |-> IF d = c THEN "idle"
                               ELSE IF cpc[d] = "idle_wait" THEN "idle_check" ELSE cpc[d]]
  /\ UNCHANGED <<running, queue, work, wpc, timers, installed, inflight>>

IsIdle == pending = << >> /\ active = 0

\* WaitIdle: return when idle, else sleep until idle is notified (or time out).
WaitIdle(c) ==
  /\ cpc[c] \in {"idle", "idle_check"} /\ MutexFree
  /\ cpc' = [cpc EXCEPT ![c] = IF IsIdle THEN "idle" ELSE "idle_wait"]
  /\ UNCHANGED <<lifecycle, queue, work, wpc, timers, installed, ready, inflight>>

IdleTimeout(c) ==
  /\ At(c, "idle_wait", "idle") /\ MutexFree
  /\ UNCHANGED <<lifecycle, queue, work, wpc, timers, installed, ready, inflight>>
-----------------------------------------------------------------------------
WorkerStep(w) ==
  Take(w) \/ Sleep(w) \/ ExitLoop(w) \/ Finish(w, TRUE) \/ Finish(w, FALSE)

StopStep(c) ==
  \/ StopNotify(c) \/ StopClear(c) \/ StopEnd(c)
  \/ \E r \in TriggerReaders : DestroyReader(c, r)

CallerStep(c) ==
  \/ StartBegin(c) \/ StartEnd(c) \/ StartFails(c) \/ StopBegin(c) \/ StopStep(c)
  \/ WaitIdle(c) \/ IdleTimeout(c)
  \/ \E r \in TriggerReaders : Install(c, r)

CallbackStep(t) ==
  \E d \in Decl[t].deps :
    HoldReader(t, d) \/ \E held \in {"copied", "holding"} : DataCallback(t, d, held)

TriggerStep(t) ==
  \/ Trigger(t) \/ TimerFires(t) \/ TimerExits(t)
  \/ \E d \in Decl[t].deps : DataArrives(t, d)
  \/ CallbackStep(t)

Next ==
  \/ \E w \in Workers : WorkerStep(w)
  \/ \E c \in Callers : CallerStep(c)
  \/ \E t \in Triggers : TriggerStep(t)
  \/ Tick

Spec == Init /\ [][Next]_vars

\* Threads run, those of the transports too, and components return from Execute;
\* time passes; a Stop that began goes on.  Nobody is obliged to call Start, Stop
\* or Trigger, and the timed WaitIdle need not time out.
FairSpec ==
  /\ Spec
  /\ \A w \in Workers : WF_vars(WorkerStep(w))
  /\ \A c \in Callers : WF_vars(StopStep(c))
  /\ \A c \in Callers : WF_vars(cpc[c] = "idle_check" /\ WaitIdle(c))
  /\ \A t \in OfKind("periodic") : WF_vars(TimerExits(t))
  /\ \A t \in OfKind("data") \cup OfKind("service") : WF_vars(CallbackStep(t))
  /\ WF_vars(Tick)
-----------------------------------------------------------------------------
(* Properties *)

Event == [component : Components, priority : Nat, deadline : 1 .. NoDeadline, age : Nat]

QueueOK == pending \in Seq(Event) /\ queued \in SUBSET Components
WorkOK ==
  /\ executing \in SUBSET Components /\ active \in Nat
  /\ wpc \in [Workers -> {"none", "check", "waiting", "executing", "exited"}]
  /\ job \in [Workers -> Components \cup {None}]
CallerOK ==
  /\ running \in BOOLEAN /\ starting \in BOOLEAN /\ stopping \in BOOLEAN
  /\ cpc \in [Callers -> {"idle", "installing", "stop_notify", "stop_join", "stop_clear",
                          "idle_wait", "idle_check"}]
TriggerOK ==
  /\ timers \subseteq Triggers /\ installed \subseteq TriggerReaders
  /\ ready \in [Triggers -> SUBSET Deps]
  /\ inflight \subseteq Triggers \X Deps \X {"copied", "holding"}

\* The types of the scheduler's state and of its threads' control points.
TypeOK == QueueOK /\ WorkOK /\ CallerOK /\ TriggerOK

Executors == {w \in Workers : wpc[w] = "executing"}

\* No component is ever executed by two workers at once, and the scheduler's
\* books (executing_components, active_events) agree with what workers do.
SerialExecution ==
  /\ \A v, w \in Executors : v # w => job[v] # job[w]
  /\ executing = {job[w] : w \in Executors}
  /\ active = Cardinality(Executors)

\* A component has at most one event waiting to start, and queued_components
\* is exactly the set of components that have one.
OnePending ==
  /\ queued = {pending[i].component : i \in 1 .. Len(pending)}
  /\ \A i, j \in 1 .. Len(pending) :
       pending[i].component = pending[j].component => i = j

InStop(c) == cpc[c] \in {"stop_notify", "stop_join", "stop_clear"}
Controls(c) == cpc[c] = "installing" \/ InStop(c)

\* At most one caller is inside Start or Stop, and the flags say so.
OneController ==
  /\ \A c, d \in Callers : Controls(c) /\ Controls(d) => c = d
  /\ \A c \in Callers : /\ cpc[c] = "installing" => starting /\ running /\ ~stopping
                        /\ InStop(c) => stopping /\ ~running

\* Outside Start, a run and Stop, and once Stop has joined them, there are no
\* workers.
NoWorkersWhenDown ==
  ~running /\ (~stopping \/ ~MutexFree) => \A w \in Workers : wpc[w] = "none"

\* The inductive invariant.
SchedulerInv == TypeOK /\ SerialExecution /\ OnePending /\ OneController /\ NoWorkersWhenDown

\* No lost wake-up: a worker never sleeps beside an event it could take unless
\* another one is awake for it.
WorkConserving ==
  Eligible # {} /\ Waiting # {} => \E w \in Workers : wpc[w] = "check"

\* WaitIdle's sleepers are woken as soon as the scheduler is idle.
IdleWaitersWoken ==
  IsIdle => \A c \in Callers : cpc[c] # "idle_wait"

\* Neither workers nor the callers of WaitIdle sleep through what they wait for.
NoLostWakeup == WorkConserving /\ IdleWaitersWoken

\* Stop drains: when it clears the queue no accepted event is left in it, and
\* no component is still executing.
StopDrains ==
  (\E c \in Callers : StopClear(c)) => pending = << >> /\ executing = {}
StopDrainsAlways == [][StopDrains]_vars

\* With aging no event is starved, whatever more urgent work keeps arriving.
NoStarvation ==
  \A c \in Components : c \in queued ~> c \in executing

\* Stop returns: workers waiting for work, or for a busy component, leave, and the
\* callbacks of trigger readers that come late find nothing to do.  The exception
\* is a Stop that waits, with the mutex held, for a callback that needs the mutex:
\* there the code falls short of docs/scheduler.md, by which Stop returns.
StopReturns ==
  \A c \in Callers : InStop(c) ~> (cpc[c] = "idle" \/ Awaited # {})
=============================================================================
