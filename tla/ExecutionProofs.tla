-------------------------- MODULE ExecutionProofs ---------------------------
(***************************************************************************)
(* Proofs about the two levels at which a system is executed.              *)
(*                                                                         *)
(* Scheduler, the components of a process, for any number of components,   *)
(* triggers, workers and callers: components execute serially, each has at *)
(* most one event in the queue, no wake-up is lost, and Stop drains the    *)
(* queue.                                                                  *)
(*                                                                         *)
(* Supervisor, the processes of a system, for any number of nodes and any  *)
(* manifests: no process is left behind, the restarts of a node stay       *)
(* within its budget, and the system ends for the documented reasons only. *)
(***************************************************************************)
EXTENDS Scheduler, Supervisor, FiniteSetTheorems, SequenceTheorems, TLAPS

\* A new scheduler satisfies the invariant.
LEMMA InitScheduler == Init => SchedulerInv
  <1> SUFFICES ASSUME Init PROVE SchedulerInv
    OBVIOUS
  <1>1. QueueOK
    BY DEF Init, QueueOK
  <1>7. CallerOK
    BY DEF Init, CallerOK
  <1>8. TriggerOK
    BY DEF Init, TriggerOK
  <1>2. WorkOK
    BY DEF Init, WorkOK
  <1>3. Executors = {}
    BY DEF Init, Executors
  <1>4. SerialExecution
    BY <1>3, FS_EmptySet DEF Init, SerialExecution
  <1>5. OnePending
    BY DEF Init, OnePending
  <1>6. NoWorkersWhenDown /\ OneController
    BY DEF Init, NoWorkersWhenDown, OneController, Controls, InStop
  <1> QED BY <1>1, <1>2, <1>4, <1>5, <1>6, <1>7, <1>8 DEF SchedulerInv, TypeOK

\* Whatever a trigger declares makes a well-formed event.
LEMMA EventType == \A t \in Triggers : EventOf(t) \in Event /\ EventOf(t).component = Owner(t)
  <1> TAKE t \in Triggers
  <1>1. /\ Owner(t) \in Components /\ Decl[t].priority \in Nat
        /\ Decl[t].deadline \in 1 .. NoDeadline
    BY SchedulerAssumption DEF TriggersValid
  <1> QED BY <1>1 DEF EventOf, Event

\* The dependencies of a trigger are among the dependencies.
LEMMA DepsType == \A t \in Triggers : Decl[t].deps \subseteq Deps
  BY DEF Deps

\* Steps that leave the flags alone and move nobody into or out of Start and Stop
\* keep one thread in control, and the mutex as it is.
LEMMA ControlSame ==
  ASSUME OneController, UNCHANGED lifecycle,
         \A c \in Callers : cpc'[c] = cpc[c] \/ {cpc[c], cpc'[c]} \subseteq {"idle", "idle_wait", "idle_check"}
  PROVE  OneController' /\ MutexFree' = MutexFree
  BY DEF OneController, Controls, InStop, MutexFree, lifecycle

\* A step that leaves the executing workers and the books alone keeps them in
\* agreement.
LEMMA SerialKept ==
  ASSUME SerialExecution, Executors' = Executors, UNCHANGED work
  PROVE  SerialExecution'
  BY DEF SerialExecution, work

\* Waking sleepers changes nothing but the sleepers.
LEMMA WakeKeeps ==
  ASSUME WorkOK, NEW W \in SUBSET Waiting, Wake(W)
  PROVE  /\ wpc' \in [Workers -> {"none", "check", "waiting", "executing", "exited"}]
         /\ Executors' = Executors
         /\ \A w \in Workers : wpc[w] = "none" => wpc'[w] = "none"
  BY DEF WorkOK, Waiting, Wake, Executors

\* Queueing one trigger: at most one event per component, and only sleepers wake.
LEMMA QueueKeeps ==
  ASSUME TypeOK, OnePending, NEW t \in Triggers, QueueEvent(t)
  PROVE  /\ QueueOK' /\ OnePending'
         /\ wpc' \in [Workers -> {"none", "check", "waiting", "executing", "exited"}]
         /\ Executors' = Executors
         /\ \A w \in Workers : wpc[w] = "none" => wpc'[w] = "none"
  <1>1. CASE Owner(t) \in queued
    BY <1>1 DEF QueueEvent, TypeOK, QueueOK, WorkOK, OnePending, Executors
  <1>2. CASE Owner(t) \notin queued
    <2> DEFINE e == EventOf(t)
    <2>1. e \in Event /\ e.component = Owner(t)
      BY EventType
    <2> HIDE DEF e
    <2>2. pending' = Append(pending, e) /\ queued' = queued \cup {e.component}
      BY <1>2, <2>1 DEF QueueEvent, e
    <2>3. pending \in Seq(Event) /\ queued \in SUBSET Components
      BY DEF TypeOK, QueueOK
    <2>4. QueueOK'
      BY <2>1, <2>2, <2>3 DEF QueueOK, Event
    <2>5. /\ Len(pending') = Len(pending) + 1 /\ Len(pending) \in Nat
          /\ pending'[Len(pending) + 1] = e
          /\ \A i \in 1 .. Len(pending) : pending'[i] = pending[i]
      BY <2>1, <2>2, <2>3
    <2>6. OnePending'
      <3>1. \A i \in 1 .. Len(pending) : pending[i].component # e.component
        BY <1>2, <2>1 DEF OnePending
      <3>2. queued' = {pending'[i].component : i \in 1 .. Len(pending')}
        BY <2>2, <2>5 DEF OnePending
      <3>3. \A i, j \in 1 .. Len(pending') :
              pending'[i].component = pending'[j].component => i = j
        BY <2>5, <3>1 DEF OnePending
      <3> QED BY <3>2, <3>3 DEF OnePending
    <2>7. UNCHANGED wpc \/ \E w \in Waiting : Wake({w})
      BY <1>2 DEF QueueEvent
    <2>8. CASE UNCHANGED wpc
      BY <2>4, <2>6, <2>8 DEF TypeOK, WorkOK, Executors
    <2>9. CASE \E w \in Waiting : Wake({w})
      <3> PICK w \in Waiting : Wake({w})
        BY <2>9
      <3>1. {w} \in SUBSET Waiting
        OBVIOUS
      <3> QED BY <2>4, <2>6, <3>1, WakeKeeps DEF TypeOK
    <2> QED BY <2>7, <2>8, <2>9
  <1> QED BY <1>1, <1>2

\* Readiness bits stay dependencies of their trigger.
LEMMA MarkedType ==
  ASSUME TriggerOK, NEW t \in Triggers, NEW d \in Deps
  PROVE  Marked(t, d) \in SUBSET Deps
  BY DEF TriggerOK, Marked

\* Steps that leave the queue alone keep it well formed.
LEMMA QueueSame == ASSUME QueueOK, OnePending, UNCHANGED queue PROVE QueueOK' /\ OnePending'
  BY DEF QueueOK, OnePending, queue

\* Steps of timers and of transport callbacks.
LEMMA TriggerStepInv ==
  ASSUME SchedulerInv, NEW t \in Triggers, TriggerStep(t)
  PROVE  SchedulerInv'
  <1> USE DEF SchedulerInv, TypeOK
  <1>0. UNCHANGED <<lifecycle, work, cpc>>
    BY DEF TriggerStep, Trigger, TimerFires, TimerExits, DataArrives, CallbackStep, HoldReader,
       DataCallback
  <1>1. CallerOK'
    BY <1>0 DEF CallerOK, lifecycle
  <1>2. /\ QueueOK' /\ OnePending'
        /\ wpc' \in [Workers -> {"none", "check", "waiting", "executing", "exited"}]
        /\ Executors' = Executors
        /\ \A w \in Workers : wpc[w] = "none" => wpc'[w] = "none"
    <2>1. CASE QueueEvent(t)
      BY <2>1, QueueKeeps
    <2>2. CASE UNCHANGED <<pending, queued, wpc>>
      BY <2>2, QueueSame DEF queue, WorkOK, Executors
    <2> QED
      BY <2>1, <2>2 DEF TriggerStep, Trigger, TimerFires, TimerExits, DataArrives, CallbackStep,
         HoldReader, DataCallback, queue
  <1>3. TriggerOK'
    <2>1. CASE Trigger(t) \/ TimerFires(t) \/ TimerExits(t)
      BY <2>1 DEF Trigger, TimerFires, TimerExits, TriggerOK
    <2>2. ASSUME NEW d \in Decl[t].deps, DataArrives(t, d) \/ HoldReader(t, d) PROVE TriggerOK'
      <3>1. \A held \in {"copied", "holding"} :
              <<t, d, held>> \in Triggers \X Deps \X {"copied", "holding"}
        BY DepsType
      <3> QED BY <2>2, <3>1 DEF DataArrives, HoldReader, TriggerOK
    <2>3. ASSUME NEW d \in Decl[t].deps, NEW held \in {"copied", "holding"},
                 DataCallback(t, d, held)
          PROVE  TriggerOK'
      <3>1. Marked(t, d) \in SUBSET Deps
        BY DepsType, MarkedType
      <3>2. ready' = ready \/ ready' = [ready EXCEPT ![t] = Marked(t, d)]
        BY <2>3 DEF DataCallback
      <3>3. ready' \in [Triggers -> SUBSET Deps]
        BY <3>1, <3>2 DEF TriggerOK
      <3> QED BY <2>3, <3>3 DEF DataCallback, TriggerOK
    <2> QED BY <2>1, <2>2, <2>3 DEF TriggerStep, CallbackStep
  <1>4. WorkOK'
    BY <1>0, <1>2 DEF WorkOK, work
  <1>5. SerialExecution'
    BY <1>0, <1>2, SerialKept
  <1>6. OneController' /\ NoWorkersWhenDown'
    <2>1. OneController' /\ MutexFree' = MutexFree
      BY <1>0, ControlSame
    <2> QED BY <1>0, <1>2, <2>1 DEF NoWorkersWhenDown, lifecycle
  <1> QED BY <1>1, <1>2, <1>3, <1>4, <1>5, <1>6

\* Removing one element of a sequence keeps the others.
LEMMA WithoutProps ==
  ASSUME NEW S, NEW s \in Seq(S), NEW i \in 1 .. Len(s)
  PROVE  /\ Without(s, i) \in Seq(S)
         /\ Len(Without(s, i)) = Len(s) - 1
         /\ \A j \in 1 .. Len(s) - 1 :
              Without(s, i)[j] = s[IF j < i THEN j ELSE j + 1]
  BY DEF Without

\* Taking an event removes its component from the queue, and only that.
LEMMA TakeQueue ==
  ASSUME QueueOK, OnePending, NEW i \in 1 .. Len(pending),
         pending' = Without(pending, i), queued' = queued \ {pending[i].component}
  PROVE  QueueOK' /\ OnePending'
  <1>1. /\ pending' \in Seq(Event) /\ Len(pending') = Len(pending) - 1 /\ Len(pending) \in Nat
        /\ \A j \in 1 .. Len(pending) - 1 : pending'[j] = pending[IF j < i THEN j ELSE j + 1]
    BY WithoutProps DEF QueueOK
  <1>2. QueueOK'
    BY <1>1 DEF QueueOK
  <1>3. \A j, k \in 1 .. Len(pending') :
          pending'[j].component = pending'[k].component => j = k
    BY <1>1 DEF OnePending
  <1>4. \A c \in queued' : \E j \in 1 .. Len(pending') : pending'[j].component = c
    <2> SUFFICES ASSUME NEW c \in queued'
                 PROVE  \E j \in 1 .. Len(pending') : pending'[j].component = c
      OBVIOUS
    <2>1. PICK k \in 1 .. Len(pending) : pending[k].component = c
      BY DEF OnePending
    <2>2. k # i
      BY <2>1
    <2> DEFINE j == IF k < i THEN k ELSE k - 1
    <2>3. j \in 1 .. Len(pending') /\ (IF j < i THEN j ELSE j + 1) = k
      BY <1>1, <2>2
    <2>4. pending'[j] = pending[k]
      BY <1>1, <2>3
    <2> QED BY <2>1, <2>3, <2>4
  <1>5. \A j \in 1 .. Len(pending') : pending'[j].component \in queued'
    <2> SUFFICES ASSUME NEW j \in 1 .. Len(pending') PROVE pending'[j].component \in queued'
      OBVIOUS
    <2> DEFINE k == IF j < i THEN j ELSE j + 1
    <2>1. k \in 1 .. Len(pending) /\ k # i /\ pending'[j] = pending[k]
      BY <1>1
    <2> QED BY <2>1 DEF OnePending
  <1>6. queued' = {pending'[j].component : j \in 1 .. Len(pending')}
    BY <1>4, <1>5
  <1> QED BY <1>2, <1>3, <1>6 DEF OnePending

\* The task triggers that fire together append one event for each component
\* that has none queued.
LEMMA AppendedQueue ==
  ASSUME QueueOK, OnePending, NEW ts \in SUBSET Triggers, NEW f \in Appended(ts),
         pending' = pending \o Events(f), queued' = queued \cup {Owner(t) : t \in ts}
  PROVE  QueueOK' /\ OnePending'
  <1> DEFINE new == {Owner(t) : t \in ts} \ queued
             n == Cardinality(new)
             L == Len(pending)
  <1>1. {Owner(t) : t \in ts} \in SUBSET Components
    BY SchedulerAssumption DEF TriggersValid
  <1>2. n \in Nat /\ IsFiniteSet(new)
    <2>1. new \in SUBSET Components /\ IsFiniteSet(Components)
      BY <1>1, SchedulerAssumption
    <2> HIDE DEF new
    <2> QED BY <2>1, FS_Subset, FS_CardinalityType
  <1>3. f \in [1 .. n -> ts] /\ {Owner(f[i]) : i \in 1 .. n} = new
    BY DEF Appended
  <1> HIDE DEF n
  <1>4. \A i \in 1 .. n : /\ EventOf(f[i]) \in Event
                          /\ EventOf(f[i]).component = Owner(f[i])
    BY <1>3, EventType
  <1>5. Events(f) \in Seq(Event) /\ Len(Events(f)) = n
        /\ \A i \in 1 .. n : Events(f)[i] = EventOf(f[i])
    <2>1. Events(f) = [i \in 1 .. n |-> EventOf(f[i])]
      BY <1>3 DEF Events
    <2> QED BY <1>2, <1>4, <2>1
  <1>6. pending \in Seq(Event) /\ L \in Nat
    BY DEF QueueOK
  <1>7. /\ pending' \in Seq(Event) /\ Len(pending') = L + n
        /\ \A i \in 1 .. L : pending'[i] = pending[i]
        /\ \A i \in 1 .. n : pending'[L + i] = EventOf(f[i])
    <2> DEFINE es == Events(f)
    <2>1. es \in Seq(Event) /\ Len(es) = n /\ pending' = pending \o es
      BY <1>5
    <2> HIDE DEF es
    <2>2. /\ pending' \in Seq(Event) /\ Len(pending') = L + n
          /\ \A i \in 1 .. L : pending'[i] = pending[i]
          /\ \A i \in 1 .. n : pending'[L + i] = es[i]
      <3>1. /\ pending' \in Seq(Event) /\ Len(pending') = L + n
            /\ \A i \in 1 .. L + n : pending'[i] = IF i <= L THEN pending[i] ELSE es[i - L]
        <4>1. /\ pending \o es \in Seq(Event) /\ Len(pending \o es) = Len(pending) + Len(es)
              /\ \A i \in 1 .. Len(pending) + Len(es) :
                   (pending \o es)[i] = IF i <= Len(pending) THEN pending[i]
                                                            ELSE es[i - Len(pending)]
          BY <1>6, <2>1, ConcatProperties, Zenon
        <4> QED BY <2>1, <4>1, Zenon
      <3> HIDE DEF L
      <3>2. ASSUME NEW i \in 1 .. n PROVE pending'[L + i] = es[i]
        <4>1. L + i \in 1 .. L + n /\ ~(L + i <= L) /\ (L + i) - L = i
          BY <1>2, <1>6
        <4> QED BY <3>1, <4>1
      <3>3. ASSUME NEW i \in 1 .. L PROVE pending'[i] = pending[i]
        BY <1>2, <1>6, <3>1
      <3> QED BY <3>1, <3>2, <3>3
    <2> QED BY <1>5, <2>2 DEF es
  <1>8. \A i, j \in 1 .. n : Owner(f[i]) = Owner(f[j]) => i = j
    <2> DEFINE g == [i \in 1 .. n |-> Owner(f[i])]
    <2>1. g \in Surjection(1 .. n, new)
      BY <1>3 DEF Surjection
    <2>2. IsFiniteSet(1 .. n) /\ Cardinality(1 .. n) = n
      BY <1>2, FS_Interval
    <2>3. Cardinality(1 .. n) = Cardinality(new)
      BY <2>2 DEF n
    <2> HIDE DEF g, new
    <2>4. g \in Injection(1 .. n, new)
      BY <2>1, <2>2, <2>3, FS_SurjSameCardinalityImpliesInj
    <2>5. \A i, j \in 1 .. n : g[i] = g[j] => i = j
      BY <2>4 DEF Injection, IsInjective
    <2> QED BY <2>5 DEF g
  <1>9. \A i \in 1 .. n : Owner(f[i]) \in new
    BY <1>3
  <1>10. \A i \in 1 .. L : pending[i].component \in queued
    BY DEF OnePending
  <1>11. \A i \in 1 .. Len(pending') :
           \/ i \in 1 .. L /\ pending'[i].component = pending[i].component
           \/ i - L \in 1 .. n /\ pending'[i].component = Owner(f[i - L])
    <2> TAKE i \in 1 .. Len(pending')
    <2>1. CASE i \in 1 .. L
      BY <1>7, <2>1
    <2>2. CASE i \notin 1 .. L
      <3>1. i - L \in 1 .. n /\ i = L + (i - L)
        BY <1>2, <1>6, <1>7, <2>2
      <3>2. pending'[i] = EventOf(f[i - L])
        BY <1>7, <3>1
      <3> QED BY <1>4, <3>1, <3>2
    <2> QED BY <2>1, <2>2
  <1>12. \A i, j \in 1 .. Len(pending') :
           pending'[i].component = pending'[j].component => i = j
    <2> SUFFICES ASSUME NEW i \in 1 .. Len(pending'), NEW j \in 1 .. Len(pending'),
                        pending'[i].component = pending'[j].component
                 PROVE  i = j
      OBVIOUS
    <2>1. CASE i \in 1 .. L /\ j \in 1 .. L
      BY <2>1, <1>7 DEF OnePending
    <2>2. CASE i \in 1 .. L /\ j \notin 1 .. L
      BY <2>2, <1>9, <1>10, <1>11
    <2>3. CASE i \notin 1 .. L /\ j \in 1 .. L
      BY <2>3, <1>9, <1>10, <1>11
    <2>4. CASE i \notin 1 .. L /\ j \notin 1 .. L
      <3>1. i - L \in 1 .. n /\ j - L \in 1 .. n /\ Owner(f[i - L]) = Owner(f[j - L])
        BY <2>4, <1>11
      <3>2. i - L = j - L
        BY <1>8, <3>1
      <3> QED BY <1>6, <1>7, <3>2
    <2> QED BY <2>1, <2>2, <2>3, <2>4
  <1>13. queued' = queued \cup new
    OBVIOUS
  <1>14. queued' = {pending'[i].component : i \in 1 .. Len(pending')}
    <2>1. \A i \in 1 .. Len(pending') : pending'[i].component \in queued'
      BY <1>9, <1>10, <1>11, <1>13
    <2>2. ASSUME NEW c \in queued PROVE \E i \in 1 .. Len(pending') : pending'[i].component = c
      <3>1. PICK i \in 1 .. L : pending[i].component = c
        BY DEF OnePending
      <3>2. i \in 1 .. Len(pending') /\ pending'[i] = pending[i]
        BY <1>2, <1>6, <1>7
      <3> QED BY <3>1, <3>2
    <2>3. ASSUME NEW c \in new PROVE \E i \in 1 .. Len(pending') : pending'[i].component = c
      <3>1. PICK i \in 1 .. n : Owner(f[i]) = c
        BY <1>3
      <3>2. L + i \in 1 .. Len(pending') /\ pending'[L + i] = EventOf(f[i])
        BY <1>2, <1>6, <1>7
      <3> QED BY <1>4, <3>1, <3>2
    <2> HIDE DEF new
    <2> DEFINE named == {pending'[i].component : i \in 1 .. Len(pending')}
    <2>4. named \subseteq queued'
      BY <2>1
    <2>5. queued \subseteq named /\ new \subseteq named
      BY <2>2, <2>3
    <2> QED BY <1>13, <2>4, <2>5
  <1>15. QueueOK'
    BY <1>1, <1>7 DEF QueueOK
  <1> QED BY <1>12, <1>14, <1>15 DEF OnePending

\* Steps of workers: the books follow what the workers do.
LEMMA WorkerStepInv ==
  ASSUME SchedulerInv, NEW w \in Workers, WorkerStep(w)
  PROVE  SchedulerInv'
  <1> USE DEF SchedulerInv, TypeOK
  <1>0. IsFiniteSet(Executors)
    BY SchedulerAssumption, FS_Subset DEF Executors
  <1>1. OneController' /\ NoWorkersWhenDown'
    <2>1. wpc[w] # "none" /\ UNCHANGED lifecycle
      BY DEF WorkerStep, Take, Sleep, ExitLoop, Finish
    <2>2. \A c \in Callers : cpc'[c] = cpc[c]
                              \/ {cpc[c], cpc'[c]} \subseteq {"idle", "idle_wait", "idle_check"}
      BY DEF WorkerStep, Take, Sleep, ExitLoop, Finish, NotifyIdle, CallerOK
    <2>3. OneController' /\ MutexFree' = MutexFree
      BY <2>1, <2>2, ControlSame
    <2> QED BY <2>1, <2>3 DEF NoWorkersWhenDown, lifecycle
  <1>2. CASE Take(w)
    <2>1. PICK i \in Eligible :
            /\ pending' = Without(pending, i)
            /\ queued' = queued \ {pending[i].component}
            /\ executing' = executing \cup {pending[i].component}
            /\ active' = active + 1
            /\ job' = [job EXCEPT ![w] = pending[i].component]
      BY <1>2 DEF Take
    <2> DEFINE c == pending[i].component
    <2>2. i \in 1 .. Len(pending) /\ c \notin executing
      BY DEF Eligible
    <2>3. c \in Components
      <3>1. pending[i] \in Event
        BY <2>2 DEF QueueOK
      <3> QED BY <3>1 DEF Event
    <2>4. QueueOK' /\ OnePending'
      BY <2>1, <2>2, TakeQueue
    <2> HIDE DEF c
    <2>5. /\ wpc[w] = "check" /\ wpc' = [wpc EXCEPT ![w] = "executing"]
          /\ UNCHANGED <<lifecycle, cpc, timers, installed, ready, inflight>>
      BY <1>2 DEF Take
    <2>6. WorkOK'
      BY <2>1, <2>3, <2>5 DEF WorkOK, c
    <2>7. Executors' = Executors \cup {w} /\ w \notin Executors
      BY <2>5 DEF Executors, WorkOK
    <2>8. SerialExecution'
      <3>1. job' = [job EXCEPT ![w] = c] /\ executing' = executing \cup {c}
        BY <2>1 DEF c
      <3>2. \A v \in Executors : job'[v] = job[v] /\ job[v] # c
        BY <2>2, <2>7, <3>1 DEF SerialExecution, WorkOK, Executors, c
      <3>3. job'[w] = c
        BY <3>1 DEF WorkOK
      <3>4. \A u, v \in Executors' : u # v => job'[u] # job'[v]
        BY <2>7, <3>2, <3>3 DEF SerialExecution
      <3>5. executing' = {job'[v] : v \in Executors'}
        BY <2>7, <3>1, <3>2, <3>3 DEF SerialExecution
      <3>6. Cardinality(Executors \cup {w}) = Cardinality(Executors) + 1
        BY <1>0, <2>7, FS_AddElement
      <3>7. active' = Cardinality(Executors')
        BY <2>1, <2>7, <3>6 DEF SerialExecution
      <3> QED BY <3>4, <3>5, <3>7 DEF SerialExecution
    <2>9. CallerOK' /\ TriggerOK'
      BY <2>5 DEF CallerOK, TriggerOK, lifecycle
    <2> QED BY <1>1, <2>4, <2>6, <2>8, <2>9
  <1>3. CASE Sleep(w) \/ ExitLoop(w)
    <2>1. /\ wpc[w] = "check" /\ \E to \in {"waiting", "exited"} : wpc' = [wpc EXCEPT ![w] = to]
          /\ UNCHANGED <<lifecycle, queue, work, timers, installed, ready, inflight>>
      BY <1>3 DEF Sleep, ExitLoop
    <2>2. Executors' = Executors
      BY <2>1 DEF Executors, WorkOK
    <2>3. cpc' \in [Callers -> {"idle", "installing", "stop_notify", "stop_join", "stop_clear",
                               "idle_wait", "idle_check"}]
      BY <1>3 DEF Sleep, ExitLoop, NotifyIdle, CallerOK
    <2>4. CallerOK' /\ TriggerOK'
      BY <2>1, <2>3 DEF CallerOK, TriggerOK, lifecycle
    <2>5. WorkOK'
      BY <2>1 DEF WorkOK, work
    <2>6. SerialExecution'
      BY <2>1, <2>2, SerialKept
    <2>7. QueueOK' /\ OnePending'
      BY <2>1, QueueSame
    <2> QED BY <1>1, <2>4, <2>5, <2>6, <2>7
  <1>4. ASSUME NEW ok \in BOOLEAN, Finish(w, ok) PROVE SchedulerInv'
    <2> DEFINE c == job[w]
               told == IF ok /\ ~stopping THEN Dependents(c) ELSE {}
               fired == {t \in told : Fires(t, c)}
    <2>1. told \in SUBSET Triggers /\ fired \in SUBSET Triggers
      BY DEF Dependents, OfKind
    <2>2. \A t \in told : c \in Decl[t].deps
      BY DEF Dependents
    <2>3. PICK ts \in Appended(fired) : pending' = pending \o Events(ts)
      BY <1>4 DEF Finish
    <2>4. queued' = queued \cup {Owner(t) : t \in fired}
      BY <1>4 DEF Finish
    <2>5. QueueOK' /\ OnePending'
      <3> HIDE DEF fired
      <3> QED BY <2>1, <2>3, <2>4, AppendedQueue
    <2>6. ready' \in [Triggers -> SUBSET Deps]
      <3>1. ready' = [t \in Triggers |-> IF t \in told THEN Marked(t, c) ELSE ready[t]]
        BY <1>4 DEF Finish
      <3>2. \A t \in told : Marked(t, c) \in SUBSET Deps
        BY <2>1, <2>2, DepsType, MarkedType
      <3> HIDE DEF told, c
      <3> QED BY <2>1, <3>1, <3>2 DEF TriggerOK
    <2>7. /\ wpc[w] = "executing"
          /\ job' = [job EXCEPT ![w] = None]
          /\ executing' = executing \ {job[w]}
          /\ active' = active - 1
          /\ wpc' = [v \in Workers |-> IF v = w \/ v \in Waiting THEN "check" ELSE wpc[v]]
          /\ UNCHANGED <<lifecycle, timers, installed, inflight>>
      BY <1>4 DEF Finish
    <2>8. cpc' \in [Callers -> {"idle", "installing", "stop_notify", "stop_join", "stop_clear",
                               "idle_wait", "idle_check"}]
      BY <1>4 DEF Finish, NotifyIdle, CallerOK
    <2> HIDE DEF told, fired, c
    <2>9. CallerOK' /\ TriggerOK'
      BY <2>6, <2>7, <2>8 DEF CallerOK, TriggerOK, lifecycle
    <2>10. Executors' = Executors \ {w} /\ w \in Executors
      BY <2>7 DEF Executors, Waiting
    <2>11. \A v \in Executors' : job'[v] = job[v] /\ v \in Executors /\ job[v] # job[w]
      BY <2>7, <2>10 DEF SerialExecution, WorkOK, Executors
    <2>12. executing' = {job'[v] : v \in Executors'}
      <3>1. executing = {job[v] : v \in Executors}
        BY DEF SerialExecution
      <3>2. {job'[v] : v \in Executors'} = {job[v] : v \in Executors'}
        BY <2>11
      <3> QED BY <2>7, <2>10, <2>11, <3>1, <3>2
    <2>13. active' = Cardinality(Executors') /\ active' \in Nat
      <3>1. /\ Cardinality(Executors \ {w}) = Cardinality(Executors) - 1
            /\ IsFiniteSet(Executors \ {w})
        BY <1>0, <2>10, FS_RemoveElement
      <3>2. Cardinality(Executors \ {w}) \in Nat
        BY <3>1, FS_CardinalityType
      <3> QED BY <2>7, <2>10, <3>1, <3>2 DEF SerialExecution
    <2>14. SerialExecution'
      BY <2>11, <2>12, <2>13 DEF SerialExecution
    <2>15. WorkOK'
      BY <2>7, <2>13 DEF WorkOK
    <2> QED BY <1>1, <2>5, <2>9, <2>14, <2>15
  <1> QED BY <1>2, <1>3, <1>4 DEF WorkerStep

\* Steps of the threads that start and stop the scheduler or wait for it: one of
\* them at most is in Start or Stop.
LEMMA CallerStepControls ==
  ASSUME SchedulerInv, NEW c \in Callers, CallerStep(c)
  PROVE  CallerOK' /\ OneController'
  <1> USE DEF SchedulerInv, TypeOK
  <1> DEFINE Points == {"idle", "installing", "stop_notify", "stop_join", "stop_clear",
                        "idle_wait", "idle_check"}
             Idling == {"idle", "idle_wait", "idle_check"}
  <1>0. cpc \in [Callers -> Points]
    BY DEF CallerOK
  <1>1. CASE StartBegin(c)
    <2>1. /\ cpc' = [cpc EXCEPT ![c] = "installing"] /\ cpc[c] = "idle"
          /\ ~starting /\ ~stopping /\ ~running /\ running' = TRUE /\ starting' = TRUE
          /\ UNCHANGED stopping
      BY <1>1 DEF StartBegin, At
    <2>2. \A d \in Callers : ~Controls(d)
      BY <2>1 DEF OneController, Controls
    <2>3. OneController'
      BY <1>0, <2>1, <2>2 DEF OneController, Controls, InStop
    <2> QED BY <1>0, <2>1, <2>3 DEF CallerOK
  <1>2. CASE StartEnd(c)
    <2>1. /\ cpc' = [cpc EXCEPT ![c] = "idle"] /\ cpc[c] = "installing" /\ starting' = FALSE
          /\ UNCHANGED <<running, stopping>>
      BY <1>2 DEF StartEnd, At
    <2>2. \A d \in Callers : d # c => ~Controls(d)
      BY <2>1 DEF OneController, Controls
    <2>3. OneController'
      BY <1>0, <2>1, <2>2 DEF OneController, Controls, InStop
    <2> QED BY <1>0, <2>1, <2>3 DEF CallerOK
  <1>3. CASE StartFails(c)
    <2>1. /\ cpc' = [cpc EXCEPT ![c] = "stop_notify"] /\ cpc[c] = "installing"
          /\ stopping' = TRUE /\ running' = FALSE /\ UNCHANGED starting
      BY <1>3 DEF StartFails, At
    <2>2. \A d \in Callers : d # c => ~Controls(d)
      BY <2>1 DEF OneController, Controls
    <2>3. OneController'
      BY <1>0, <2>1, <2>2 DEF OneController, Controls, InStop
    <2> QED BY <1>0, <2>1, <2>3 DEF CallerOK
  <1>4. CASE StopBegin(c)
    <2>1. /\ cpc' = [cpc EXCEPT ![c] = "stop_notify"] /\ cpc[c] = "idle" /\ ~starting /\ ~stopping
          /\ stopping' = TRUE /\ running' = FALSE /\ UNCHANGED starting
      BY <1>4 DEF StopBegin, At
    <2>2. \A d \in Callers : ~Controls(d)
      BY <2>1 DEF OneController, Controls
    <2>3. OneController'
      BY <1>0, <2>1, <2>2 DEF OneController, Controls, InStop
    <2> QED BY <1>0, <2>1, <2>3 DEF CallerOK
  <1>5. CASE StopNotify(c) \/ StopClear(c)
    <2>1. /\ \E to \in {"stop_join", "stop_clear"} : cpc' = [cpc EXCEPT ![c] = to]
          /\ cpc[c] \in {"stop_notify", "stop_join"} /\ UNCHANGED lifecycle
      BY <1>5 DEF StopNotify, StopClear, At
    <2>2. OneController'
      BY <1>0, <2>1 DEF OneController, Controls, InStop, lifecycle
    <2> QED BY <1>0, <2>1, <2>2 DEF CallerOK, lifecycle
  <1>6. CASE StopEnd(c)
    <2>1. /\ cpc' = [d \in Callers |-> IF d = c THEN "idle"
                       ELSE IF cpc[d] = "idle_wait" THEN "idle_check" ELSE cpc[d]]
          /\ cpc[c] = "stop_clear" /\ starting' = FALSE /\ stopping' = FALSE /\ UNCHANGED running
      BY <1>6 DEF StopEnd
    <2>2. \A d \in Callers : d # c => ~Controls(d)
      BY <2>1 DEF OneController, Controls, InStop
    <2>3. OneController'
      BY <1>0, <2>1, <2>2 DEF OneController, Controls, InStop
    <2> QED BY <1>0, <2>1, <2>3 DEF CallerOK
  <1>7. CASE \/ WaitIdle(c) \/ IdleTimeout(c)
             \/ \E r \in TriggerReaders : Install(c, r) \/ DestroyReader(c, r)
    <2>1. /\ cpc' = cpc \/ (cpc[c] \in Idling /\ \E to \in Idling : cpc' = [cpc EXCEPT ![c] = to])
          /\ UNCHANGED lifecycle
      BY <1>7 DEF WaitIdle, IdleTimeout, Install, DestroyReader, At
    <2>2. \A d \in Callers : cpc'[d] = cpc[d] \/ {cpc[d], cpc'[d]} \subseteq Idling
      BY <1>0, <2>1
    <2>3. OneController'
      BY <2>1, <2>2, ControlSame
    <2> QED BY <1>0, <2>1, <2>3 DEF CallerOK, lifecycle
  <1> QED BY <1>1, <1>2, <1>3, <1>4, <1>5, <1>6, <1>7 DEF CallerStep, StopStep

\* Steps of the threads that start and stop the scheduler or wait for it.
LEMMA CallerStepInv ==
  ASSUME SchedulerInv, NEW c \in Callers, CallerStep(c)
  PROVE  SchedulerInv'
  <1>3. CallerOK' /\ OneController'
    BY CallerStepControls
  <1> USE DEF SchedulerInv, TypeOK
  <1>4. CASE StartBegin(c)
    <2>1. \A w \in Workers : wpc[w] = "none" /\ wpc'[w] = "check"
      BY <1>4 DEF StartBegin, NoWorkersWhenDown
    <2>2. Executors' = Executors /\ UNCHANGED work
      BY <1>4, <2>1 DEF Executors, StartBegin
    <2>3. SerialExecution'
      BY <2>2, SerialKept
    <2>4. WorkOK' /\ TriggerOK' /\ NoWorkersWhenDown'
      BY <1>4 DEF StartBegin, WorkOK, TriggerOK, NoWorkersWhenDown, work
    <2>5. QueueOK' /\ OnePending'
      BY <1>4, QueueSame DEF StartBegin
    <2> QED BY <1>3, <2>3, <2>4, <2>5
  <1>5. CASE StopClear(c)
    <2>1. \A w \in Workers : wpc[w] = "exited" /\ wpc'[w] = "none"
      BY <1>5 DEF StopClear
    <2>2. Executors = {} /\ Executors' = {}
      BY <2>1 DEF Executors
    <2>3. active = 0
      BY <2>2, FS_EmptySet DEF SerialExecution
    <2>4. UNCHANGED work
      BY <1>5, <2>3 DEF StopClear, work
    <2>5. SerialExecution'
      BY <2>2, <2>4, SerialKept
    <2>6. WorkOK' /\ NoWorkersWhenDown'
      BY <1>5, <2>4 DEF StopClear, WorkOK, NoWorkersWhenDown, work
    <2>7. QueueOK' /\ OnePending'
      BY <1>5 DEF StopClear, QueueOK, OnePending
    <2>8. TriggerOK'
      BY <1>5 DEF StopClear, TriggerOK
    <2> QED BY <1>3, <2>5, <2>6, <2>7, <2>8
  <1>6. CASE StopNotify(c)
    <2>1. /\ Wake(Waiting) /\ UNCHANGED <<lifecycle, queue, work, timers, installed, ready, inflight>>
          /\ cpc' = [cpc EXCEPT ![c] = "stop_join"]
      BY <1>6 DEF StopNotify, At
    <2>2. /\ wpc' \in [Workers -> {"none", "check", "waiting", "executing", "exited"}]
          /\ Executors' = Executors
          /\ \A w \in Workers : wpc[w] = "none" => wpc'[w] = "none"
      <3>1. Waiting \in SUBSET Waiting
        OBVIOUS
      <3> QED BY <2>1, <3>1, WakeKeeps
    <2>3. SerialExecution'
      BY <2>1, <2>2, SerialKept
    <2>4. MutexFree => MutexFree'
      BY <2>1 DEF MutexFree, CallerOK
    <2>5. WorkOK' /\ TriggerOK' /\ NoWorkersWhenDown'
      BY <2>1, <2>2, <2>4 DEF WorkOK, TriggerOK, NoWorkersWhenDown, work, lifecycle
    <2>6. QueueOK' /\ OnePending'
      BY <2>1, QueueSame
    <2> QED BY <1>3, <2>3, <2>5, <2>6
  <1>7. CASE \/ StartEnd(c) \/ StartFails(c) \/ StopBegin(c) \/ StopEnd(c)
             \/ WaitIdle(c) \/ IdleTimeout(c)
             \/ \E r \in TriggerReaders : Install(c, r) \/ DestroyReader(c, r)
    <2>1. UNCHANGED <<queue, work, wpc>>
      BY <1>7 DEF StartEnd, StartFails, StopBegin, StopEnd, WaitIdle, IdleTimeout, Install,
         DestroyReader
    <2>2. NoWorkersWhenDown'
      <3> SUFFICES ASSUME ~running', ~stopping' \/ ~MutexFree'
                   PROVE  ~running /\ (~stopping \/ ~MutexFree)
        BY <2>1 DEF NoWorkersWhenDown
      <3>1. CASE StopEnd(c)
        BY <3>1 DEF StopEnd, MutexFree
      <3>2. CASE StartFails(c) \/ StopBegin(c)
        <4>1. /\ stopping' /\ running /\ cpc' = [cpc EXCEPT ![c] = "stop_notify"]
          BY <3>2 DEF StartFails, StopBegin, At, OneController
        <4>2. MutexFree'
          BY <4>1 DEF MutexFree, OneController, InStop, CallerOK
        <4> QED BY <4>1, <4>2
      <3>3. CASE \/ StartEnd(c) \/ WaitIdle(c) \/ IdleTimeout(c)
                 \/ \E r \in TriggerReaders : Install(c, r) \/ DestroyReader(c, r)
        <4>1. UNCHANGED <<running, stopping>> /\ (MutexFree => MutexFree')
          BY <3>3 DEF StartEnd, WaitIdle, IdleTimeout, Install, DestroyReader, At, MutexFree,
             lifecycle, CallerOK
        <4> QED BY <4>1
      <3> QED BY <1>7, <3>1, <3>2, <3>3
    <2>4. Executors' = Executors
      BY <2>1 DEF Executors
    <2>5. SerialExecution' /\ WorkOK'
      BY <2>1, <2>4, SerialKept DEF WorkOK, work
    <2>6. QueueOK' /\ OnePending'
      BY <2>1, QueueSame
    <2>7. TriggerOK'
      BY <1>7 DEF StartEnd, StartFails, StopBegin, StopEnd, WaitIdle, IdleTimeout, Install,
         DestroyReader, TriggerOK, OfKind
    <2> QED BY <1>3, <2>2, <2>5, <2>6, <2>7
  <1> QED BY <1>4, <1>5, <1>6, <1>7 DEF CallerStep, StopStep

\* Time passing ages the events and nothing else.
LEMMA TickInv == ASSUME SchedulerInv, Tick PROVE SchedulerInv'
  <1> USE DEF SchedulerInv, TypeOK
  <1>1. /\ pending \in Seq(Event)
        /\ pending' = [i \in 1 .. Len(pending) |-> Aged(i)]
        /\ UNCHANGED <<lifecycle, queued, work, wpc, cpc, timers, installed, ready, inflight>>
    BY DEF Tick, QueueOK
  <1>2. \A i \in 1 .. Len(pending) :
          Aged(i) \in Event /\ Aged(i).component = pending[i].component
    <2> TAKE i \in 1 .. Len(pending)
    <2>1. pending[i] \in Event
      BY <1>1
    <2>2. Aged(i) = pending[i] \/ Aged(i) = [pending[i] EXCEPT !.age = @ + 1]
      BY <2>1 DEF Aged, Event
    <2> QED BY <2>1, <2>2 DEF Event
  <1>3. /\ pending' \in Seq(Event) /\ Len(pending') = Len(pending)
        /\ \A i \in 1 .. Len(pending) : pending'[i].component = pending[i].component
    <2>1. Len(pending) \in Nat
      BY <1>1
    <2> QED BY <1>1, <1>2, <2>1
  <1>4. QueueOK' /\ OnePending'
    BY <1>1, <1>3 DEF QueueOK, OnePending
  <1>5. Executors' = Executors
    BY <1>1 DEF Executors
  <1>6. SerialExecution'
    BY <1>1, <1>5, SerialKept
  <1>7. OneController' /\ MutexFree' = MutexFree
    BY <1>1, ControlSame
  <1>8. WorkOK' /\ CallerOK' /\ TriggerOK' /\ NoWorkersWhenDown'
    BY <1>1, <1>7 DEF WorkOK, CallerOK, TriggerOK, NoWorkersWhenDown, work, lifecycle
  <1> QED BY <1>4, <1>6, <1>7, <1>8

\* The invariant is preserved by every step.
LEMMA SchedulerStep == SchedulerInv /\ [Next]_vars => SchedulerInv'
  <1> SUFFICES ASSUME SchedulerInv, [Next]_vars PROVE SchedulerInv'
    OBVIOUS
  <1>1. CASE UNCHANGED vars
    BY <1>1 DEF vars, SchedulerInv, TypeOK, QueueOK, WorkOK, CallerOK, TriggerOK, SerialExecution,
       Executors, OnePending, OneController, Controls, InStop, NoWorkersWhenDown, MutexFree
  <1>2. CASE Next
    BY <1>2, WorkerStepInv, CallerStepInv, TriggerStepInv, TickInv DEF Next
  <1> QED BY <1>1, <1>2

\* The scheduler's inductive invariant: types, serial execution, one queued
\* event per component, one thread at most in Start or Stop, and no workers
\* outside a run.
THEOREM SchedulerInvariant == Spec => []SchedulerInv
  BY InitScheduler, SchedulerStep, PTL DEF Spec

\* DispatchLoop never runs a component on two workers at once, and its books
\* agree with the workers, whatever is triggered, started or stopped.
THEOREM ComponentsRunSerially == Spec => []SerialExecution
  <1>1. SchedulerInv => SerialExecution
    BY DEF SchedulerInv
  <1> QED BY <1>1, SchedulerInvariant, PTL

\* QueueEvent's coalescing bounds the queue by one event per component.
THEOREM QueueBounded == Spec => []OnePending
  <1>1. SchedulerInv => OnePending
    BY DEF SchedulerInv
  <1> QED BY <1>1, SchedulerInvariant, PTL
-----------------------------------------------------------------------------
(* No lost wake-up, and a Stop that drains *)

Checking == {w \in Workers : wpc[w] = "check"}

\* The components that a worker could execute now: WorkConserving alone is not
\* inductive, because a worker that takes one event leaves the others to those
\* that are awake.  There are as many awake as there are such components.
Runnable == queued \ executing
EnoughAwake == Waiting # {} => Cardinality(Runnable) <= Cardinality(Checking)

\* A worker leaves DispatchLoop only once the queue is empty, for good.
ExitedDrained ==
  \A w \in Workers : wpc[w] = "exited" => stopping /\ pending = << >>

WakeupInv == EnoughAwake /\ IdleWaitersWoken /\ ExitedDrained

\* The sets that are counted are finite.
LEMMA CountedFinite ==
  ASSUME TypeOK
  PROVE  /\ IsFiniteSet(Runnable) /\ Cardinality(Runnable) \in Nat
         /\ IsFiniteSet(Checking) /\ Cardinality(Checking) \in Nat
  <1>1. Runnable \subseteq Components /\ Checking \subseteq Workers
    BY DEF Runnable, Checking, TypeOK, QueueOK
  <1>2. IsFiniteSet(Runnable) /\ IsFiniteSet(Checking)
    BY <1>1, SchedulerAssumption, FS_Subset
  <1> QED BY <1>2, FS_CardinalityType

\* A component is runnable exactly when an event of it is eligible.
LEMMA RunnableEligible == ASSUME OnePending, Eligible # {} PROVE Runnable # {}
  <1>1. PICK i \in 1 .. Len(pending) : pending[i].component \notin executing
    BY DEF Eligible
  <1>2. pending[i].component \in queued
    BY DEF OnePending
  <1> QED BY <1>1, <1>2 DEF Runnable

\* EnoughAwake is what WorkConserving needs.
LEMMA AwakeIsConserving == ASSUME TypeOK, OnePending, EnoughAwake PROVE WorkConserving
  <1> SUFFICES ASSUME Eligible # {}, Waiting # {} PROVE Checking # {}
    BY DEF WorkConserving, Checking
  <1>1. Runnable # {}
    BY RunnableEligible
  <1>2. Cardinality(Runnable) # 0
    BY <1>1, CountedFinite, FS_EmptySet
  <1>3. Cardinality(Checking) # 0
    BY <1>2, CountedFinite DEF EnoughAwake
  <1> QED BY <1>3, FS_EmptySet

\* Steps that change none of what the invariant is about, nor let anyone wait.
LEMMA WakeupSame ==
  ASSUME WakeupInv, UNCHANGED <<queue, work, wpc>>, stopping => stopping',
         \A c \in Callers : cpc'[c] = "idle_wait" => cpc[c] = "idle_wait" \/ ~IsIdle
  PROVE  WakeupInv'
  <1>1. EnoughAwake'
    BY DEF WakeupInv, EnoughAwake, Waiting, Checking, Runnable, queue, work
  <1>2. IdleWaitersWoken' /\ ExitedDrained'
    BY DEF WakeupInv, IdleWaitersWoken, ExitedDrained, IsIdle, queue, work
  <1> QED BY <1>1, <1>2 DEF WakeupInv

\* QueueEvent wakes a waiter for each event it appends.
LEMMA QueueWakes ==
  ASSUME SchedulerInv, WakeupInv, Accepting, NEW t \in Triggers, QueueEvent(t),
         UNCHANGED <<lifecycle, work, cpc>>
  PROVE  WakeupInv'
  <1>1. CASE Owner(t) \in queued
    BY <1>1, WakeupSame DEF QueueEvent, queue, lifecycle
  <1>2. CASE Owner(t) \notin queued
    <2>1. /\ pending' = Append(pending, EventOf(t)) /\ queued' = queued \cup {Owner(t)}
          /\ (UNCHANGED wpc /\ Waiting = {}) \/ (\E w \in Waiting : Wake({w}))
      BY <1>2 DEF QueueEvent
    <2>2. pending' # << >>
      <3>1. pending \in Seq(Event) /\ EventOf(t) \in Event
        BY EventType DEF SchedulerInv, TypeOK, QueueOK
      <3> QED BY <2>1, <3>1
    <2>3. IdleWaitersWoken'
      BY <2>2 DEF IdleWaitersWoken, IsIdle
    <2>4. \A w \in Workers : wpc'[w] # "exited"
      BY <2>1 DEF Accepting, WakeupInv, ExitedDrained, Wake
    <2>5. ExitedDrained'
      BY <2>4 DEF ExitedDrained
    <2>6. CASE Waiting = {} /\ UNCHANGED wpc
      BY <2>3, <2>5, <2>6 DEF WakeupInv, EnoughAwake, Waiting
    <2>7. ASSUME NEW w \in Waiting, Wake({w}) PROVE WakeupInv'
      <3>1. Checking' = Checking \cup {w} /\ w \notin Checking
        BY <2>7 DEF Checking, Waiting, Wake
      <3>2. Cardinality(Checking') = Cardinality(Checking) + 1
        BY <3>1, CountedFinite, FS_AddElement DEF SchedulerInv
      <3>3. Runnable' \subseteq Runnable \cup {Owner(t)}
        BY <2>1 DEF Runnable, work
      <3>4. Cardinality(Runnable \cup {Owner(t)}) = Cardinality(Runnable) + 1
            /\ IsFiniteSet(Runnable \cup {Owner(t)})
        <4>1. Owner(t) \notin Runnable /\ IsFiniteSet(Runnable)
          BY <1>2, CountedFinite DEF Runnable, SchedulerInv
        <4> QED BY <4>1, FS_AddElement
      <3>5. Cardinality(Runnable') <= Cardinality(Runnable \cup {Owner(t)})
        BY <3>3, <3>4, FS_Subset
      <3>6. Cardinality(Runnable) <= Cardinality(Checking)
        BY <2>7 DEF WakeupInv, EnoughAwake
      <3>7. IsFiniteSet(Runnable') /\ Cardinality(Runnable') \in Nat
            /\ Cardinality(Runnable \cup {Owner(t)}) \in Nat
        BY <3>3, <3>4, FS_Subset, FS_CardinalityType
      <3>8. EnoughAwake'
        BY <3>2, <3>4, <3>5, <3>6, <3>7, CountedFinite DEF EnoughAwake, SchedulerInv
      <3> QED BY <2>3, <2>5, <3>8 DEF WakeupInv
    <2> QED BY <2>1, <2>6, <2>7
  <1> QED BY <1>1, <1>2

\* Steps of triggers.
LEMMA TriggerStepWakes ==
  ASSUME SchedulerInv, WakeupInv, NEW t \in Triggers, TriggerStep(t)
  PROVE  WakeupInv'
  <1>1. UNCHANGED <<lifecycle, work, cpc>>
    BY DEF TriggerStep, Trigger, TimerFires, TimerExits, DataArrives, CallbackStep, HoldReader,
       DataCallback
  <1>2. (Accepting /\ QueueEvent(t)) \/ UNCHANGED <<queue, wpc>>
    BY DEF TriggerStep, Trigger, TimerFires, TimerExits, DataArrives, CallbackStep, HoldReader,
       DataCallback, queue
  <1>3. CASE UNCHANGED <<queue, wpc>>
    BY <1>1, <1>3, WakeupSame DEF lifecycle
  <1> QED BY <1>1, <1>2, <1>3, QueueWakes

\* Steps of workers: a worker that takes an event leaves one runnable component
\* less, and one that finishes wakes everybody.
LEMMA WorkerStepWakes ==
  ASSUME SchedulerInv, WakeupInv, NEW w \in Workers, WorkerStep(w)
  PROVE  WakeupInv'
  <1>0. wpc \in [Workers -> {"none", "check", "waiting", "executing", "exited"}] /\ active \in Nat
    BY DEF SchedulerInv, TypeOK, WorkOK
  <1>1. CASE Take(w)
    <2>1. PICK i \in Eligible :
            /\ pending' = Without(pending, i)
            /\ queued' = queued \ {pending[i].component}
            /\ executing' = executing \cup {pending[i].component}
            /\ active' = active + 1
      BY <1>1 DEF Take
    <2> DEFINE c == pending[i].component
    <2>2. wpc[w] = "check" /\ wpc' = [wpc EXCEPT ![w] = "executing"] /\ UNCHANGED <<lifecycle, cpc>>
      BY <1>1 DEF Take
    <2>3. i \in 1 .. Len(pending) /\ c \in Runnable
      BY DEF Eligible, Runnable, SchedulerInv, OnePending
    <2>4. Runnable' = Runnable \ {c}
      BY <2>1 DEF Runnable
    <2> HIDE DEF c
    <2>5. Checking' = Checking \ {w} /\ w \in Checking /\ Waiting' = Waiting
      BY <1>0, <2>2 DEF Checking, Waiting
    <2>6. /\ Cardinality(Runnable') = Cardinality(Runnable) - 1
          /\ Cardinality(Checking') = Cardinality(Checking) - 1
      BY <2>3, <2>4, <2>5, CountedFinite, FS_RemoveElement DEF SchedulerInv
    <2>7. EnoughAwake'
      BY <2>5, <2>6, CountedFinite DEF EnoughAwake, WakeupInv, SchedulerInv
    <2>8. IdleWaitersWoken'
      BY <1>0, <2>1 DEF IdleWaitersWoken, IsIdle
    <2>9. pending # << >>
      BY <2>3
    <2>10. ExitedDrained'
      BY <1>0, <2>2, <2>9 DEF ExitedDrained, WakeupInv
    <2> QED BY <2>7, <2>8, <2>10 DEF WakeupInv
  <1>2. CASE Sleep(w)
    <2>1. /\ Eligible = {} /\ wpc' = [wpc EXCEPT ![w] = "waiting"]
          /\ UNCHANGED <<lifecycle, queue, work, cpc>>
      BY <1>2 DEF Sleep
    <2>2. Runnable = {}
      <3> SUFFICES ASSUME NEW c \in Runnable PROVE FALSE
        OBVIOUS
      <3>1. PICK i \in 1 .. Len(pending) : pending[i].component = c
        BY DEF Runnable, SchedulerInv, OnePending
      <3> QED BY <2>1, <3>1 DEF Eligible, Runnable
    <2>3. Runnable' = {}
      BY <2>1, <2>2 DEF Runnable, queue, work
    <2>4. Cardinality(Runnable') = 0 /\ Cardinality(Checking') \in Nat
      <3>1. Checking' \subseteq Workers
        BY DEF Checking
      <3> QED BY <2>3, <3>1, SchedulerAssumption, FS_Subset, FS_EmptySet, FS_CardinalityType
    <2>5. EnoughAwake'
      BY <2>4 DEF EnoughAwake
    <2>6. IdleWaitersWoken' /\ ExitedDrained'
      BY <1>0, <2>1 DEF WakeupInv, IdleWaitersWoken, ExitedDrained, IsIdle, queue, work, lifecycle
    <2> QED BY <2>5, <2>6 DEF WakeupInv
  <1>3. CASE ExitLoop(w)
    <2>1. /\ stopping /\ pending = << >> /\ wpc' = [wpc EXCEPT ![w] = "exited"]
          /\ NotifyIdle(active = 0) /\ UNCHANGED <<lifecycle, queue, work>>
      BY <1>3 DEF ExitLoop
    <2>2. queued = {}
      BY <2>1 DEF SchedulerInv, OnePending
    <2>3. Cardinality(Runnable') = 0 /\ Cardinality(Checking') \in Nat
      <3>1. Checking' \subseteq Workers /\ Runnable' = {}
        BY <2>1, <2>2 DEF Checking, Runnable, queue
      <3> QED BY <3>1, SchedulerAssumption, FS_Subset, FS_EmptySet, FS_CardinalityType
    <2>4. EnoughAwake'
      BY <2>3 DEF EnoughAwake
    <2>5. IdleWaitersWoken'
      BY <2>1 DEF IdleWaitersWoken, IsIdle, NotifyIdle, work
    <2>6. ExitedDrained'
      BY <2>1 DEF ExitedDrained, queue, lifecycle
    <2> QED BY <2>4, <2>5, <2>6 DEF WakeupInv
  <1>4. ASSUME NEW ok \in BOOLEAN, Finish(w, ok) PROVE WakeupInv'
    <2>1. /\ wpc' = [v \in Workers |-> IF v = w \/ v \in Waiting THEN "check" ELSE wpc[v]]
          /\ NotifyIdle(pending' = << >> /\ active' = 0)
          /\ UNCHANGED lifecycle
      BY <1>4 DEF Finish
    <2>2. EnoughAwake'
      BY <2>1 DEF EnoughAwake, Waiting
    <2>3. IdleWaitersWoken'
      BY <2>1 DEF IdleWaitersWoken, IsIdle, NotifyIdle
    <2>4. ASSUME NEW v \in Workers, wpc'[v] = "exited" PROVE stopping' /\ pending' = << >>
      <3>1. stopping /\ pending = << >>
        BY <2>1, <2>4 DEF WakeupInv, ExitedDrained
      <3>2. \E ts \in Appended({}) : pending' = pending \o Events(ts)
        <4>1. {t \in {} : Fires(t, job[w])} = {}
          OBVIOUS
        <4> QED BY <1>4, <3>1, <4>1 DEF Finish
      <3>3. PICK ts \in Appended({}) : pending' = pending \o Events(ts)
        BY <3>2
      <3>4. ts \in [1 .. 0 -> {}]
        <4>1. {Owner(t) : t \in {}} \ queued = {}
          OBVIOUS
        <4> QED BY <4>1, FS_EmptySet DEF Appended
      <3>5. Events(ts) = << >>
        BY <3>4 DEF Events
      <3>6. pending' = << >>
        BY <3>1, <3>3, <3>5
      <3> QED BY <2>1, <3>1, <3>6 DEF lifecycle
    <2>5. ExitedDrained'
      BY <2>4 DEF ExitedDrained
    <2> QED BY <2>2, <2>3, <2>5 DEF WakeupInv
  <1> QED BY <1>1, <1>2, <1>3, <1>4 DEF WorkerStep

\* Steps of callers.
LEMMA CallerStepWakes ==
  ASSUME SchedulerInv, WakeupInv, NEW c \in Callers, CallerStep(c)
  PROVE  WakeupInv'
  <1>0. /\ cpc \in [Callers -> {"idle", "installing", "stop_notify", "stop_join", "stop_clear",
                                "idle_wait", "idle_check"}]
        /\ stopping \in BOOLEAN
    BY DEF SchedulerInv, TypeOK, CallerOK
  <1>1. CASE StartBegin(c)
    <2>1. \A w \in Workers : wpc'[w] = "check"
      BY <1>1 DEF StartBegin
    <2>2. /\ UNCHANGED <<queue, work>>
          /\ \A d \in Callers : cpc'[d] = "idle_wait" => cpc[d] = "idle_wait"
      BY <1>0, <1>1 DEF StartBegin, At
    <2> QED BY <2>1, <2>2 DEF WakeupInv, EnoughAwake, Waiting, IdleWaitersWoken, ExitedDrained,
               IsIdle, queue, work
  <1>2. CASE StopNotify(c)
    <2>1. /\ Wake(Waiting) /\ UNCHANGED <<lifecycle, queue, work>>
          /\ \A d \in Callers : cpc'[d] = "idle_wait" => cpc[d] = "idle_wait"
      BY <1>0, <1>2 DEF StopNotify, At
    <2>2. \A w \in Workers : wpc'[w] # "waiting" /\ (wpc'[w] = "exited" => wpc[w] = "exited")
      BY <2>1 DEF Wake, Waiting
    <2> QED BY <2>1, <2>2 DEF WakeupInv, EnoughAwake, Waiting, IdleWaitersWoken, ExitedDrained,
               IsIdle, queue, work, lifecycle
  <1>3. CASE StopClear(c)
    <2>1. /\ \A w \in Workers : wpc[w] = "exited" /\ wpc'[w] = "none"
          /\ \A d \in Callers : cpc'[d] = "idle_wait" => cpc[d] = "idle_wait"
      BY <1>0, <1>3 DEF StopClear, At
    <2>2. IsIdle
      <3>1. Executors = {}
        BY <2>1 DEF Executors
      <3>2. active = 0
        BY <3>1, FS_EmptySet DEF SchedulerInv, SerialExecution
      <3> QED BY <2>1, <3>2, SchedulerAssumption DEF WakeupInv, ExitedDrained, IsIdle
    <2> QED BY <2>1, <2>2 DEF WakeupInv, EnoughAwake, Waiting, IdleWaitersWoken, ExitedDrained
  <1>4. CASE StopEnd(c)
    <2>1. /\ cpc[c] = "stop_clear" /\ UNCHANGED wpc
          /\ \A d \in Callers : cpc'[d] # "idle_wait"
      BY <1>0, <1>4 DEF StopEnd
    <2>2. \A w \in Workers : wpc'[w] = "none"
      BY <2>1 DEF SchedulerInv, NoWorkersWhenDown, OneController, InStop, MutexFree
    <2> QED BY <2>1, <2>2 DEF WakeupInv, EnoughAwake, Waiting, IdleWaitersWoken, ExitedDrained
  <1>5. CASE \/ StartEnd(c) \/ StartFails(c) \/ StopBegin(c) \/ WaitIdle(c) \/ IdleTimeout(c)
             \/ \E r \in TriggerReaders : Install(c, r) \/ DestroyReader(c, r)
    <2>1. UNCHANGED <<queue, work, wpc>>
      BY <1>5 DEF StartEnd, StartFails, StopBegin, WaitIdle, IdleTimeout, Install, DestroyReader
    <2>2. stopping => stopping'
      BY <1>5 DEF StartEnd, StartFails, StopBegin, WaitIdle, IdleTimeout, Install, DestroyReader,
         lifecycle
    <2>3. \A d \in Callers : cpc'[d] = "idle_wait" => cpc[d] = "idle_wait" \/ ~IsIdle
      BY <1>0, <1>5 DEF StartEnd, StartFails, StopBegin, WaitIdle, IdleTimeout, Install,
         DestroyReader, At
    <2> QED BY <2>1, <2>2, <2>3, WakeupSame
  <1> QED BY <1>1, <1>2, <1>3, <1>4, <1>5 DEF CallerStep, StopStep

\* Time changes neither whether the queue is empty nor who is awake.
LEMMA TickWakes == ASSUME SchedulerInv, WakeupInv, Tick PROVE WakeupInv'
  <1>1. /\ pending \in Seq(Event) /\ pending' = [i \in 1 .. Len(pending) |-> Aged(i)]
        /\ UNCHANGED <<lifecycle, queued, work, wpc, cpc>>
    BY DEF Tick, SchedulerInv, TypeOK, QueueOK
  <1>2. pending' = << >> <=> pending = << >>
    BY <1>1
  <1>3. EnoughAwake'
    BY <1>1 DEF WakeupInv, EnoughAwake, Waiting, Checking, Runnable, work
  <1>4. IdleWaitersWoken' /\ ExitedDrained'
    BY <1>1, <1>2 DEF WakeupInv, IdleWaitersWoken, ExitedDrained, IsIdle, work, lifecycle
  <1> QED BY <1>3, <1>4 DEF WakeupInv

\* Both invariants together are inductive.
THEOREM WakeupInvariant == Spec => [](SchedulerInv /\ WakeupInv)
  <1>1. Init => SchedulerInv /\ WakeupInv
    BY InitScheduler DEF Init, WakeupInv, EnoughAwake, Waiting, IdleWaitersWoken, ExitedDrained
  <1>2. SchedulerInv /\ WakeupInv /\ [Next]_vars => WakeupInv'
    <2> SUFFICES ASSUME SchedulerInv, WakeupInv, [Next]_vars PROVE WakeupInv'
      OBVIOUS
    <2>1. CASE UNCHANGED vars
      BY <2>1, WakeupSame DEF vars, queue, work
    <2>2. CASE Next
      BY <2>2, WorkerStepWakes, CallerStepWakes, TriggerStepWakes, TickWakes DEF Next
    <2> QED BY <2>1, <2>2
  <1> QED BY <1>1, <1>2, SchedulerStep, PTL DEF Spec

\* Neither a worker sleeps beside an event it could take while nobody is awake
\* for it, nor a caller of WaitIdle beside an idle scheduler: notify_one in
\* QueueEvent, the single check before each wait and the notify_all at the end
\* of an execution are enough, for any number of workers and components.
THEOREM WakeupsAreNotLost == Spec => []NoLostWakeup
  <1>1. SchedulerInv /\ WakeupInv => NoLostWakeup
    BY AwakeIsConserving DEF SchedulerInv, WakeupInv, NoLostWakeup
  <1> QED BY <1>1, WakeupInvariant, PTL

\* When Stop clears the queue there is nothing in it, and no component is
\* executing: what was accepted before Stop has been executed.
THEOREM StopDrainsQueue == Spec => StopDrainsAlways
  <1>1. SchedulerInv /\ WakeupInv => StopDrains
    <2> SUFFICES ASSUME SchedulerInv, WakeupInv, NEW c \in Callers, StopClear(c)
                 PROVE  pending = << >> /\ executing = {}
      BY DEF StopDrains
    <2>1. \A w \in Workers : wpc[w] = "exited"
      BY DEF StopClear
    <2>2. pending = << >>
      BY <2>1, SchedulerAssumption DEF WakeupInv, ExitedDrained
    <2>3. Executors = {}
      BY <2>1 DEF Executors
    <2>4. executing = {}
      BY <2>3 DEF SchedulerInv, SerialExecution
    <2> QED BY <2>2, <2>4
  <1> QED BY <1>1, WakeupInvariant, PTL DEF StopDrainsAlways
-----------------------------------------------------------------------------
(***************************************************************************)
(* The supervisor.                                                         *)
(***************************************************************************)

Phases == {"pending", "running", "backoff", "done"}
Managed == [phase : Phases, restarts : Nat, delay : Nat, failed : BOOLEAN]

\* Run while it starts and supervises, and while it stops the nodes.
Active == {"boot", "supervise", "round"}
Stopping == {"stop", "asked", "killing"}

ControlOK ==
  /\ pc \in {"enter", "returned"} \cup Active \cup Stopping
  /\ at \in 0 .. N + 1 /\ booted \in 0 .. N
  /\ pc = "round" => at > 0
  /\ pc \in Stopping => at <= N
  /\ pc \in {"asked", "killing"} => at > 0
NodesOK ==
  /\ manifest \in [Nodes -> NodeManifest]
  /\ node \in [Nodes -> Managed]
  /\ proc \in [Nodes -> {"none", "up", "terminated", "killed", "exit_0", "failed"}]
  /\ attempts \in [Nodes -> Nat]

\* A process exists exactly while its node is running.
Owned == \A n \in Nodes : proc[n] # "none" <=> Running(n)

\* StopAll is through with the nodes after the one it is at.
StoppedBehind ==
  /\ pc \in {"enter", "returned"} => \A n \in Nodes : ~Running(n)
  /\ pc \in Stopping => \A n \in Nodes : n > at => ~Running(n)
  /\ pc \in {"asked", "killing"} => Running(at)

\* The nodes that the first loop of Run has not reached.
Unbooted ==
  pc \in {"enter"} \cup Active => \A n \in Nodes : n > booted \/ pc = "enter" => node[n].phase = "pending"

\* The starts of a node are its restarts and the first one.
Budgeted(n) ==
  /\ attempts[n] <= node[n].restarts + (IF node[n].phase \in {"running", "done"} THEN 1 ELSE 0)
  /\ manifest[n].restart = "never" => node[n].restarts = 0
  /\ manifest[n].max_restarts # 0 => node[n].restarts <= manifest[n].max_restarts

Reasons == pc = "enter" => ending = NoReason

SupervisorInv ==
  /\ ControlOK /\ NodesOK
  /\ Owned /\ StoppedBehind /\ Unbooted
  /\ \A n \in Nodes : Budgeted(n)
  /\ Reasons /\ EndsForAReason
-----------------------------------------------------------------------------
(* What happens to one node *)

\* Doubled: the next delay is a delay.
LEMMA DoubledIsNat ==
  ASSUME NEW n \in Nodes, NEW delay \in Nat, NodesOK
  PROVE  Doubled(n, delay) \in Nat
<1> DEFINE first == manifest[n].restart_delay
           cap == Max({MaxDelay, first})
<1>1. MaxDelay \in Nat /\ first \in Nat
  BY SupervisorAssumption DEF NodesOK, NodeManifest
<1>2. cap \in {MaxDelay, first}
  <2>1. \E x \in {MaxDelay, first} : \A y \in {MaxDelay, first} : x >= y
    BY <1>1
  <2> QED BY <2>1 DEF Max
<1>3. cap \in Nat
  BY <1>1, <1>2
<1> HIDE DEF cap
<1>4. \E x \in {delay * 2, cap} : \A y \in {delay * 2, cap} : x =< y
  BY <1>3
<1>5. Min({delay * 2, cap}) \in {delay * 2, cap}
  BY <1>4 DEF Min
<1>6. Doubled(n, delay) = Min({delay * 2, cap})
  BY DEF Doubled, cap
<1> QED BY <1>3, <1>5, <1>6

\* A node that was not done changes, and nothing of the other nodes: it runs with
\* a process or waits without one, or it is done, and then a reason to end if it
\* is required.
NodeStep(n) ==
  /\ node' \in [Nodes -> Managed] /\ attempts' \in [Nodes -> Nat]
  /\ \A m \in Nodes \ {n} : node'[m] = node[m] /\ attempts'[m] = attempts[m] /\ proc'[m] = proc[m]
  /\ node[n].phase # "done" /\ node'[n].phase \in {"running", "backoff", "done"}
  /\ node'[n].phase # "done" => ending' = ending
  /\ node'[n].phase = "done" => IF manifest[n].required THEN ending' # NoReason ELSE ending' = ending
  /\ Budgeted(n)'

\* Ended, for a process that ran and for one that did not start: the node backs
\* off or is done, within its budget.
LEMMA EndedStep ==
  ASSUME NodesOK, manifest' = manifest, NEW n \in Nodes, Budgeted(n), node[n].phase # "done",
         NEW success \in BOOLEAN, NEW stable \in BOOLEAN, NEW tried \in Nat,
         tried <= node[n].restarts + 1, Ended(n, success, stable, tried),
         \A m \in Nodes \ {n} : proc'[m] = proc[m]
  PROVE  NodeStep(n) /\ node'[n].phase # "running"
<1> DEFINE base == Base(n, stable)
           again == Wanted(n, success) /\ Allowed(n, base.restarts)
           backoff == [base EXCEPT !.phase = "backoff", !.restarts = @ + 1, !.delay = Doubled(n, @)]
           over == [base EXCEPT !.phase = "done", !.failed = ~success]
<1>1. /\ node \in [Nodes -> Managed] /\ attempts \in [Nodes -> Nat]
      /\ manifest[n] \in NodeManifest
  BY DEF NodesOK
<1>2. /\ base \in Managed
      /\ base.restarts <= node[n].restarts
      /\ stable => base.restarts = 0
      /\ ~stable => base.restarts = node[n].restarts
  <2>1. CASE stable
    <3>1. base = [node[n] EXCEPT !.restarts = 0, !.delay = manifest[n].restart_delay]
      BY <2>1 DEF Base
    <3>2. base \in Managed /\ base.restarts = 0
      <4>1. manifest[n].restart_delay \in Nat
        BY <1>1 DEF NodeManifest
      <4> HIDE DEF base
      <4>2. node[n] \in Managed
        BY <1>1
      <4> QED BY <3>1, <4>1, <4>2 DEF Managed
    <3>3. node[n].restarts \in Nat
      BY <1>1 DEF Managed
    <3> HIDE DEF base
    <3> QED BY <2>1, <3>2, <3>3
  <2>2. CASE ~stable
    <3>1. base = node[n]
      BY <2>2 DEF Base
    <3> QED BY <1>1, <2>2, <3>1 DEF Managed
  <2> QED BY <2>1, <2>2
<1>3. Doubled(n, base.delay) \in Nat
  BY <1>2, DoubledIsNat DEF Managed
<1> HIDE DEF base
<1>4. /\ backoff \in Managed /\ backoff.phase = "backoff" /\ backoff.restarts = base.restarts + 1
      /\ over \in Managed /\ over.phase = "done" /\ over.restarts = base.restarts
  <2>1. base \in [phase : Phases, restarts : Nat, delay : Nat, failed : BOOLEAN]
    BY <1>2 DEF Managed
  <2>2. (~success) \in BOOLEAN /\ {"backoff", "done"} \subseteq Phases /\ base.restarts + 1 \in Nat
    BY <2>1 DEF Phases
  <2>3. backoff \in Managed /\ backoff.phase = "backoff" /\ backoff.restarts = base.restarts + 1
    BY <2>1, <2>2, <1>3 DEF Managed
  <2>4. over \in Managed /\ over.phase = "done" /\ over.restarts = base.restarts
    BY <2>1, <2>2 DEF Managed
  <2> QED BY <2>3, <2>4
<1>5. /\ node' = [node EXCEPT ![n] = IF again THEN backoff ELSE over]
      /\ ending' = IF again THEN ending ELSE Reason(n, success)
      /\ attempts' = [attempts EXCEPT ![n] = IF stable THEN 0 ELSE tried]
  BY DEF Ended, base
<1>6. again => /\ manifest[n].restart # "never"
               /\ manifest[n].max_restarts # 0 => base.restarts < manifest[n].max_restarts
  BY DEF Wanted, Allowed
<1> HIDE DEF backoff, over, again
<1>7. /\ node'[n] = IF again THEN backoff ELSE over
      /\ attempts'[n] = IF stable THEN 0 ELSE tried
      /\ node' \in [Nodes -> Managed] /\ attempts' \in [Nodes -> Nat]
      /\ \A m \in Nodes \ {n} : node'[m] = node[m] /\ attempts'[m] = attempts[m]
  BY <1>1, <1>4, <1>5
<1>8. Budgeted(n)'
  <2>1. /\ manifest[n].restart = "never" => node[n].restarts = 0
        /\ manifest[n].max_restarts # 0 => node[n].restarts <= manifest[n].max_restarts
        /\ manifest[n].max_restarts \in Nat /\ node[n].restarts \in Nat /\ base.restarts \in Nat
    BY <1>1, <1>2 DEF Budgeted, NodeManifest, Managed
  <2>2. CASE again
    <3>1. node'[n].phase = "backoff" /\ node'[n].restarts = base.restarts + 1
      BY <2>2, <1>4, <1>7
    <3> QED BY <2>1, <2>2, <3>1, <1>2, <1>6, <1>7 DEF Budgeted
  <2>3. CASE ~again
    <3>1. node'[n].phase = "done" /\ node'[n].restarts = base.restarts
      BY <2>3, <1>4, <1>7
    <3> QED BY <2>1, <2>3, <3>1, <1>2, <1>7 DEF Budgeted
  <2> QED BY <2>2, <2>3
<1>9. /\ again => ending' = ending
      /\ ~again => IF manifest[n].required THEN ending' # NoReason ELSE ending' = ending
  BY <1>5 DEF Reason, Ending, NoReason
<1> QED BY <1>4, <1>7, <1>8, <1>9 DEF NodeStep

\* Start: a node that waits or has never run gets a process, or ends without.
LEMMA LaunchStep ==
  ASSUME NodesOK, Owned, manifest' = manifest, NEW n \in Nodes, Budgeted(n),
         node[n].phase \in {"pending", "backoff"}, Launch(n)
  PROVE  NodeStep(n) /\ NodesOK' /\ Owned'
<1>1. /\ node \in [Nodes -> Managed] /\ attempts \in [Nodes -> Nat]
      /\ proc \in [Nodes -> {"none", "up", "terminated", "killed", "exit_0", "failed"}]
      /\ manifest \in [Nodes -> NodeManifest]
  BY DEF NodesOK
<1>2. /\ attempts[n] \in Nat /\ node[n].restarts \in Nat
      /\ attempts[n] + 1 <= node[n].restarts + 1
  BY <1>1 DEF Budgeted, Managed
<1>3. CASE /\ StartProcess(n, TRUE)
           /\ node' = [node EXCEPT ![n].phase = "running"]
           /\ attempts' = [attempts EXCEPT ![n] = @ + 1]
           /\ UNCHANGED ending
  <2>1. proc' = [proc EXCEPT ![n] = "up"]
    BY <1>3 DEF StartProcess
  <2>2. /\ node'[n].phase = "running" /\ node'[n].restarts = node[n].restarts
        /\ attempts'[n] = attempts[n] + 1 /\ proc'[n] = "up"
        /\ node' \in [Nodes -> Managed] /\ attempts' \in [Nodes -> Nat]
        /\ \A m \in Nodes \ {n} : node'[m] = node[m] /\ attempts'[m] = attempts[m] /\ proc'[m] = proc[m]
    BY <1>1, <1>3, <2>1 DEF Managed, Phases
  <2>3. Budgeted(n)'
    BY <1>2, <2>2 DEF Budgeted
  <2>4. NodeStep(n)
    BY <1>3, <2>2, <2>3 DEF NodeStep
  <2>5. NodesOK'
    BY <1>1, <2>1, <2>2 DEF NodesOK
  <2>6. Owned'
    BY <2>2 DEF Owned, Running
  <2> QED BY <2>4, <2>5, <2>6
<1>4. CASE Ended(n, FALSE, FALSE, attempts[n] + 1) /\ StartProcess(n, FALSE)
  <2>1. proc' = proc
    BY <1>4 DEF StartProcess
  <2>2. NodeStep(n) /\ node'[n].phase # "running"
    <3>1. PICK tried \in Nat : tried = attempts[n] + 1
      BY <1>2
    <3>2. Ended(n, FALSE, FALSE, tried) /\ tried <= node[n].restarts + 1
      BY <1>2, <1>4, <3>1
    <3>3. node[n].phase # "done" /\ \A m \in Nodes \ {n} : proc'[m] = proc[m]
      BY <2>1
    <3> QED BY <3>2, <3>3, EndedStep
  <2>3. NodesOK'
    BY <1>1, <2>1, <2>2 DEF NodesOK, NodeStep
  <2>4. Owned'
    BY <2>1, <2>2 DEF Owned, Running, NodeStep
  <2> QED BY <2>2, <2>3, <2>4
<1> QED BY <1>3, <1>4 DEF Launch

\* Poll: a process that has ended is reaped.
LEMMA ReapStep ==
  ASSUME NodesOK, Owned, manifest' = manifest, NEW n \in Nodes, n = at, Budgeted(n), Reap
  PROVE  NodeStep(n) /\ NodesOK' /\ Owned'
<1>1. /\ node \in [Nodes -> Managed] /\ attempts \in [Nodes -> Nat]
      /\ proc \in [Nodes -> {"none", "up", "terminated", "killed", "exit_0", "failed"}]
      /\ manifest \in [Nodes -> NodeManifest]
  BY DEF NodesOK
<1>2. proc' = [proc EXCEPT ![n] = "none"] /\ node[n].phase = "running"
  BY DEF Reap, Running
<1>3. PICK stable \in BOOLEAN, success \in BOOLEAN : Ended(n, success, stable, attempts[n])
  <2>1. (proc[n] = "exit_0") \in BOOLEAN
    OBVIOUS
  <2>2. \E stable \in BOOLEAN : Ended(n, proc[n] = "exit_0", stable, attempts[n])
    BY DEF Reap
  <2> QED BY <2>1, <2>2
<1>4. attempts[n] \in Nat /\ attempts[n] <= node[n].restarts + 1
  BY <1>1, <1>2 DEF Budgeted
<1>5. PICK tried \in Nat : tried = attempts[n]
  BY <1>4
<1>6. Ended(n, success, stable, tried) /\ tried <= node[n].restarts + 1
  BY <1>3, <1>4, <1>5
<1>7. node[n].phase # "done" /\ \A m \in Nodes \ {n} : proc'[m] = proc[m]
  BY <1>1, <1>2
<1>8. NodeStep(n) /\ node'[n].phase # "running"
  BY <1>6, <1>7, EndedStep
<1>9. NodesOK'
  BY <1>1, <1>2, <1>8 DEF NodesOK, NodeStep
<1>10. Owned'
  BY <1>1, <1>2, <1>8 DEF Owned, Running, NodeStep
<1> QED BY <1>8, <1>9, <1>10
-----------------------------------------------------------------------------
(* The steps of Run, of the processes and of the timers *)

\* While nothing is being stopped, a step of one node keeps the invariant.
LEMMA NodeStepKeeps ==
  ASSUME SupervisorInv, manifest' = manifest, NEW n \in Nodes, pc \in Active, pc' \in Active,
         ControlOK', NodesOK', Owned', booted <= booted', n <= booted', NodeStep(n)
  PROVE  SupervisorInv'
<1> USE DEF Active, Stopping
<1>1. /\ \A m \in Nodes \ {n} : node'[m] = node[m] /\ attempts'[m] = attempts[m]
      /\ node[n].phase # "done"
  BY DEF NodeStep
<1>2. StoppedBehind' /\ Reasons'
  BY DEF StoppedBehind, Reasons
<1>3. Unbooted'
  <2> SUFFICES ASSUME NEW m \in Nodes, m > booted' PROVE node'[m].phase = "pending"
    BY DEF Unbooted
  <2>1. booted \in Nat /\ booted' \in Nat /\ N \in Nat
    BY SupervisorAssumption DEF SupervisorInv, ControlOK
  <2>2. m # n /\ m > booted
    BY <2>1 DEF Nodes
  <2> QED BY <1>1, <2>2 DEF SupervisorInv, Unbooted
<1>4. \A m \in Nodes : Budgeted(m)'
  BY <1>1 DEF SupervisorInv, Budgeted, NodeStep
<1>5. EndsForAReason'
  <2>1. \A m \in Nodes : Done(m) => Done(m)'
    BY <1>1 DEF Done
  <2>2. \A m \in Nodes : Done(m)' => Done(m) \/ m = n
    BY <1>1 DEF Done
  <2>3. CASE node'[n].phase = "done" /\ manifest[n].required
    BY <2>3 DEF NodeStep, EndsForAReason, Ending, Done, NoReason
  <2>4. CASE ~(node'[n].phase = "done" /\ manifest[n].required)
    <3>1. ending' = ending
      BY <2>4 DEF NodeStep
    <3>2. ~(Done(n)' /\ manifest[n].required)
      BY <2>4 DEF Done
    <3> QED BY <2>1, <2>2, <3>1, <3>2 DEF SupervisorInv, EndsForAReason, Ending
  <2> QED BY <2>3, <2>4
<1> QED BY <1>2, <1>3, <1>4, <1>5 DEF SupervisorInv

\* Steps that leave the nodes and their processes alone.
LEMMA ControlStepKeeps ==
  ASSUME SupervisorInv, UNCHANGED <<manifest, node, attempts, proc>>, ControlOK',
         StoppedBehind', Unbooted', Reasons', EndsForAReason'
  PROVE  SupervisorInv'
<1>1. NodesOK' /\ Owned' /\ \A n \in Nodes : Budgeted(n)'
  BY DEF SupervisorInv, NodesOK, Owned, Running, Budgeted
<1> QED BY <1>1 DEF SupervisorInv

\* Processes, timers and the caller of RequestStop.
LEMMA EnvironmentKeeps ==
  ASSUME SupervisorInv,
         \/ Timer \/ RequestStop \/ Over \/ UNCHANGED supervisorVars
         \/ \E n \in Nodes : Process(n)
  PROVE  SupervisorInv'
<1> USE DEF input, control, supervision
<1>1. /\ UNCHANGED <<manifest, pc, at, booted, node, ending, attempts>>
      /\ proc' = proc \/ \E n \in Nodes, e \in {"exit_0", "failed"} :
                           proc[n] # "none" /\ proc' = [proc EXCEPT ![n] = e]
  <2>1. CASE Timer \/ RequestStop \/ Over \/ UNCHANGED supervisorVars
    BY <2>1 DEF Timer, StartDelayOver, RestartDue, RequestStop, Over, supervisorVars
  <2>2. CASE \E n \in Nodes : Process(n)
    BY <2>2 DEF Process, Dies, Exits, Up
  <2> QED BY <2>1, <2>2
<1>2. NodesOK' /\ Owned'
  <2>1. /\ NodesOK /\ Owned
    BY DEF SupervisorInv
  <2>2. CASE proc' = proc
    BY <1>1, <2>1, <2>2 DEF NodesOK, Owned, Running
  <2>3. ASSUME NEW n \in Nodes, NEW e \in {"exit_0", "failed"},
               proc[n] # "none", proc' = [proc EXCEPT ![n] = e]
        PROVE  NodesOK' /\ Owned'
    BY <1>1, <2>1, <2>3 DEF NodesOK, Owned, Running
  <2> QED BY <1>1, <2>2, <2>3
<1>3. ControlOK' /\ StoppedBehind' /\ Unbooted' /\ Reasons' /\ EndsForAReason'
  BY <1>1 DEF SupervisorInv, ControlOK, StoppedBehind, Unbooted, Reasons, EndsForAReason, Running,
              Done, Ending
<1>4. \A n \in Nodes : Budgeted(n)'
  BY <1>1 DEF SupervisorInv, Budgeted
<1> QED BY <1>2, <1>3, <1>4 DEF SupervisorInv

\* Run, from its start to the moment it begins to stop the nodes.
LEMMA SupervisionKeeps ==
  ASSUME SupervisorInv, Enter \/ Boot \/ BootOver \/ Supervise \/ Look \/ RoundOver
  PROVE  SupervisorInv'
<1> USE DEF input, supervision, Active, Stopping
<1>0. /\ N \in Nat \ {0} /\ at \in 0 .. N + 1 /\ booted \in 0 .. N
      /\ NodesOK /\ Owned /\ Unbooted /\ ControlOK /\ \A n \in Nodes : Budgeted(n)
  BY SupervisorAssumption DEF SupervisorInv, ControlOK
<1>1. CASE Enter
  <2>1. /\ pc = "enter" /\ pc' \in {"boot", "returned"}
        /\ UNCHANGED <<manifest, at, booted, node, attempts, proc>>
        /\ pc' = "boot" => ending' = ending
    BY <1>1 DEF Enter
  <2>2. ControlOK'
    BY <1>0, <2>1 DEF ControlOK
  <2>3. \A n \in Nodes : node[n].phase = "pending" /\ ~Running(n)
    BY <2>1, <1>0 DEF Unbooted, Running
  <2>4. ending = NoReason
    BY <2>1 DEF SupervisorInv, Reasons
  <2>5. StoppedBehind' /\ Unbooted' /\ Reasons'
    BY <2>1, <2>3 DEF StoppedBehind, Unbooted, Reasons, Running
  <2>6. EndsForAReason'
    BY <2>1, <2>3, <2>4 DEF EndsForAReason, Ending, Done
  <2> QED BY <2>1, <2>2, <2>5, <2>6, ControlStepKeeps
<1>2. CASE Boot
  <2>1. /\ pc = "boot" /\ pc' = "supervise" /\ booted < N /\ Launch(booted + 1)
        /\ booted' = booted + 1 /\ UNCHANGED <<at, manifest>>
    BY <1>2 DEF Boot
  <2>2. PICK n \in Nodes : n = booted + 1
    BY <1>0, <2>1 DEF Nodes
  <2>3. Launch(n) /\ node[n].phase = "pending"
    BY <1>0, <2>1, <2>2 DEF Unbooted
  <2>4. NodeStep(n) /\ NodesOK' /\ Owned'
    BY <1>0, <2>1, <2>3, LaunchStep
  <2>5. ControlOK' /\ booted <= booted' /\ n <= booted'
    BY <1>0, <2>1, <2>2 DEF ControlOK
  <2> QED BY <2>1, <2>4, <2>5, NodeStepKeeps
<1>3. CASE Look
  <2>1. /\ pc = "round" /\ pc' = "round" /\ at <= N /\ at' = at + 1
        /\ UNCHANGED <<booted, manifest>>
        /\ Reap \/ RestartNow \/ Pass
    BY <1>3 DEF Look
  <2>2. PICK n \in Nodes : n = at
    BY <1>0, <2>1 DEF ControlOK, Nodes
  <2>3. ControlOK' /\ booted <= booted'
    BY <1>0, <2>1 DEF ControlOK
  <2>4. node[n].phase # "pending" => n <= booted'
    BY <1>0, <2>1 DEF Unbooted, Nodes
  <2>5. CASE Reap
    <3>1. NodeStep(n) /\ NodesOK' /\ Owned'
      BY <1>0, <2>1, <2>2, <2>5, ReapStep
    <3>2. node[n].phase = "running"
      BY <2>2, <2>5 DEF Reap, Running
    <3> QED BY <2>1, <2>3, <2>4, <3>1, <3>2, NodeStepKeeps
  <2>6. CASE RestartNow
    <3>1. node[n].phase = "backoff" /\ Launch(n)
      BY <2>2, <2>6 DEF RestartNow
    <3>2. NodeStep(n) /\ NodesOK' /\ Owned'
      BY <1>0, <2>1, <3>1, LaunchStep
    <3> QED BY <2>1, <2>3, <2>4, <3>1, <3>2, NodeStepKeeps
  <2>7. CASE Pass
    <3>1. UNCHANGED <<node, ending, attempts, proc, pc, booted, manifest>>
      BY <2>1, <2>7 DEF Pass
    <3>2. StoppedBehind' /\ Unbooted' /\ Reasons' /\ EndsForAReason'
      BY <2>1, <3>1 DEF SupervisorInv, StoppedBehind, Unbooted, Reasons, EndsForAReason, Ending, Done
    <3> QED BY <2>3, <3>1, <3>2, ControlStepKeeps
  <2> QED BY <2>1, <2>5, <2>6, <2>7
<1>4. CASE BootOver \/ Supervise \/ RoundOver
  <2>1. /\ pc \in Active /\ UNCHANGED <<manifest, booted, node, attempts, proc>>
        /\ \/ pc' \in {"boot", "supervise"} /\ at' = at
           \/ pc' = "round" /\ at' = 1
           \/ pc' = "stop" /\ at' = N
    BY <1>4 DEF BootOver, Supervise, RoundOver, Leave
  <2>2. ControlOK'
    BY <1>0, <2>1 DEF ControlOK
  <2>3. StoppedBehind' /\ Unbooted' /\ Reasons'
    BY <1>0, <2>1 DEF StoppedBehind, Unbooted, Reasons, Nodes
  <2>4. EndsForAReason'
    <3>1. EndsForAReason
      BY DEF SupervisorInv
    <3>2. \/ ending' = ending
          \/ ~Ending /\ ending' # NoReason /\ \A n \in Nodes : Done(n)
      BY <1>4 DEF BootOver, Supervise, RoundOver, NoReason, Done
    <3> QED BY <2>1, <3>1, <3>2 DEF EndsForAReason, Ending, Done
  <2> QED BY <2>1, <2>2, <2>3, <2>4, ControlStepKeeps
<1> QED BY <1>1, <1>2, <1>3, <1>4

\* StopAll, node by node, and the return from Run.
LEMMA StopKeeps ==
  ASSUME SupervisorInv, StopSkip \/ AskToStop \/ Kill \/ Stopped \/ Return
  PROVE  SupervisorInv'
<1> USE DEF input, supervision, Active, Stopping
<1>0. /\ N \in Nat \ {0} /\ at \in 0 .. N + 1 /\ booted \in 0 .. N
      /\ NodesOK /\ Owned /\ StoppedBehind /\ ControlOK /\ \A n \in Nodes : Budgeted(n)
  BY SupervisorAssumption DEF SupervisorInv, ControlOK
<1>1. pc \in Stopping /\ pc' \in Stopping \cup {"returned"} /\ UNCHANGED <<manifest, booted, attempts>>
  BY DEF StopSkip, AskToStop, Kill, Stopped, Return
<1>2. Unbooted' /\ Reasons' /\ EndsForAReason'
  BY <1>1 DEF Unbooted, Reasons, EndsForAReason
<1>3. CASE StopSkip \/ Stopped
  <2>1. /\ at > 0 /\ at <= N /\ at' = at - 1 /\ pc' = "stop"
        /\ node' = [node EXCEPT ![at].phase = "done"]
        /\ \/ proc' = proc /\ ~Running(at)
           \/ proc' = [proc EXCEPT ![at] = "none"]
    BY <1>0, <1>1, <1>3 DEF StopSkip, Stopped, FinishNode, ControlOK
  <2>2. at \in Nodes
    BY <1>0, <2>1 DEF Nodes
  <2>3. /\ node' \in [Nodes -> Managed] /\ node'[at].phase = "done"
        /\ node'[at].restarts = node[at].restarts
        /\ \A m \in Nodes \ {at} : node'[m] = node[m]
    BY <1>0, <2>1, <2>2 DEF NodesOK, Managed, Phases
  <2>4. proc'[at] = "none" /\ \A m \in Nodes \ {at} : proc'[m] = proc[m]
    BY <1>0, <2>1, <2>2 DEF NodesOK, Owned
  <2>5. NodesOK'
    BY <1>0, <1>1, <2>1, <2>3 DEF NodesOK
  <2>6. Owned'
    BY <1>0, <2>3, <2>4 DEF Owned, Running
  <2>7. ControlOK'
    BY <1>0, <1>1, <2>1 DEF ControlOK
  <2>8. StoppedBehind'
    <3> SUFFICES ASSUME NEW n \in Nodes, n > at' PROVE ~(Running(n)')
      BY <2>1 DEF StoppedBehind
    <3>1. CASE n = at
      BY <2>3, <3>1 DEF Running
    <3>2. CASE n # at
      <4>1. n > at
        BY <1>0, <2>1, <3>2 DEF Nodes
      <4> QED BY <1>0, <1>1, <2>3, <3>2, <4>1 DEF StoppedBehind, Running
    <3> QED BY <3>1, <3>2
  <2>9. \A n \in Nodes : Budgeted(n)'
    <3>1. ASSUME NEW n \in Nodes, n # at PROVE Budgeted(n)'
      BY <1>0, <1>1, <2>3, <3>1 DEF Budgeted
    <3>2. ASSUME NEW n \in Nodes, n = at PROVE Budgeted(n)'
      <4>1. attempts[n] \in Nat /\ node[n].restarts \in Nat
        BY <1>0 DEF NodesOK, Managed
      <4> QED BY <1>0, <1>1, <2>3, <3>2, <4>1 DEF Budgeted
    <3> QED BY <3>1, <3>2
  <2> QED BY <1>2, <2>5, <2>6, <2>7, <2>8, <2>9 DEF SupervisorInv
<1>4. CASE AskToStop \/ Kill \/ Return
  <2>1. /\ UNCHANGED <<at, node>>
        /\ pc' \in {"asked", "killing"} => Running(at) /\ at > 0
        /\ pc' = "returned" => at = 0
        /\ pc' # "stop"
        /\ proc' = proc \/ \E e \in {"terminated", "killed"} :
                             proc' = [proc EXCEPT ![at] = IF Up(at) THEN e ELSE @]
    BY <1>0, <1>4 DEF AskToStop, Kill, Return, SignalProcess, StoppedBehind, ControlOK
  <2>2. ControlOK'
    BY <1>0, <1>1, <2>1 DEF ControlOK
  <2>3. StoppedBehind'
    BY <1>0, <1>1, <2>1 DEF StoppedBehind, Running, Nodes
  <2>4. NodesOK' /\ Owned'
    <3>1. CASE proc' = proc
      BY <1>0, <1>1, <2>1, <3>1 DEF NodesOK, Owned, Running
    <3>2. ASSUME NEW e \in {"terminated", "killed"}, proc' = [proc EXCEPT ![at] = IF Up(at) THEN e ELSE @]
          PROVE  NodesOK' /\ Owned'
      BY <1>0, <1>1, <2>1, <3>2 DEF NodesOK, Owned, Running, Up
    <3> QED BY <2>1, <3>1, <3>2
  <2>5. \A n \in Nodes : Budgeted(n)'
    BY <1>0, <1>1, <2>1 DEF Budgeted
  <2> QED BY <1>2, <2>2, <2>3, <2>4, <2>5 DEF SupervisorInv
<1> QED BY <1>3, <1>4
-----------------------------------------------------------------------------
(* The theorems *)

\* The invariant of the supervisor: who has a process, where the thread is, how
\* often each node was started, and why the system ends.
THEOREM SupervisorInvariant == SupervisorSpec => []SupervisorInv
<1>1. SupervisorInit => SupervisorInv
  <2> SUFFICES ASSUME SupervisorInit PROVE SupervisorInv
    OBVIOUS
  <2> USE DEF SupervisorInit, Active, Stopping
  <2>1. N \in Nat \ {0} /\ manifest \in [Nodes -> NodeManifest]
    BY SupervisorAssumption
  <2>2. ControlOK
    BY <2>1 DEF ControlOK
  <2>3. node \in [Nodes -> Managed]
    BY <2>1 DEF Managed, Phases, Fresh, NodeManifest
  <2>4. \A n \in Nodes : node[n].phase = "pending" /\ node[n].restarts = 0 /\ proc[n] = "none" /\ attempts[n] = 0
    BY DEF Fresh
  <2>5. NodesOK
    BY <2>1, <2>3 DEF NodesOK
  <2>6. Owned /\ StoppedBehind /\ Unbooted /\ Reasons /\ EndsForAReason
    BY <2>4 DEF Owned, StoppedBehind, Unbooted, Reasons, EndsForAReason, Running
  <2>7. \A n \in Nodes : Budgeted(n)
    BY <2>1, <2>4 DEF Budgeted, NodeManifest
  <2> QED BY <2>2, <2>5, <2>6, <2>7 DEF SupervisorInv
<1>2. SupervisorInv /\ [SupervisorNext]_supervisorVars => SupervisorInv'
  BY SupervisionKeeps, StopKeeps, EnvironmentKeeps DEF SupervisorNext, RunStep
<1> QED BY <1>1, <1>2, PTL DEF SupervisorSpec

\* "Never leave a zombie or an orphan behind": for every system, a process
\* exists exactly while its node is running, and none when Run returns.
THEOREM NothingIsOrphaned == SupervisorSpec => []NoOrphans
<1>1. SupervisorInv => NoOrphans
  BY DEF SupervisorInv, Owned, StoppedBehind, NoOrphans
<1> QED BY <1>1, SupervisorInvariant, PTL

\* For every manifest, a node is started no more than once and max_restarts
\* times between two stable runs, and the system ends when a required node ended
\* for good, or all did.
THEOREM PolicyIsKept == SupervisorSpec => []PolicyKept
<1>1. SupervisorInv => RestartBudget
  <2> SUFFICES ASSUME SupervisorInv, NEW n \in Nodes
               PROVE  \/ attempts[n] <= (IF manifest[n].restart = "never" THEN 0 ELSE manifest[n].max_restarts) + 1
                      \/ manifest[n].restart # "never" /\ manifest[n].max_restarts = 0
    BY DEF RestartBudget
  <2>1. attempts[n] \in Nat /\ node[n].restarts \in Nat /\ manifest[n].max_restarts \in Nat
    BY DEF SupervisorInv, NodesOK, Managed, NodeManifest
  <2>2. Budgeted(n)
    BY DEF SupervisorInv
  <2> QED BY <2>1, <2>2 DEF Budgeted
<1>2. SupervisorInv => EndsForAReason
  BY DEF SupervisorInv
<1> QED BY <1>1, <1>2, SupervisorInvariant, PTL DEF PolicyKept
=============================================================================
