# PuppetMaster in TLA+

TLA+ models of PuppetMaster: the shared-memory topics, the in-memory and FastDDS
transports, the services, the scheduler, the application, the system supervisor,
recordings and the topic tool, and the way from configuration files to running
nodes. TLC checks them on small instances; TLAPS proves the central results for
every instance. Every definition that models code names its lines in the `map`
of `PROJECT.json`.

Paths below are relative to the repository (`src/...` is its `src/` directory).

## The system

A PuppetMaster process is an `Application`: a `RuntimeContext` with components
and transports, and a `Scheduler` that executes the components when their
triggers fire. Components exchange messages over topics of a transport, and
call each other through services, which are topics too. Several such processes
form a system, described by a manifest and run by a `Supervisor`.

| Component | State | Operations | Meets |
|---|---|---|---|
| Segment ring (`transport/shm/segment.cpp`) | header with `write_seq`, a robust mutex, slots with a sequence word | `PublishWith`, `TryRead` | writers and readers of several processes, any of which may die |
| Participant table (same file) | 64 entries: generation and state, pid, start time | claim, release, reclaim | every process of the topic |
| Shm topics (`transport/shm/shm_transport.cpp`) | topics by name, readers, dispatcher | `CreateReader/Writer`, `Publish`, `Read`, `Close`, retire | the dispatcher thread, other processes, the platform's names |
| In-memory transport (`transport/inmemory`) | channels by topic, mailboxes | `Open`, `Close`, `CreateReader/Writer`, `Publish`, `Read` | threads of one process; calls data callbacks of the scheduler |
| Services (`service/service.cpp`) | client: pending calls, dispatcher, server seen last; server: worker, heartbeat, reply writers | `Call`, `CallAsync`, `Close`, serve, presence | a transport's topics, the caller's and the dispatcher's threads, server processes |
| Scheduler (`scheduler/scheduler.cpp`) | pending events, queued/executing sets, triggers, workers | `Trigger`, timers, data callbacks, `Start`, `Stop`, `WaitIdle` | the transports' callbacks, the application |
| Runtime context (`runtime/context.cpp`) | components with a lifecycle state, transports | `Configure` ... `Shutdown`, `Execute` | scheduler workers, the application |
| Application (`configuration/application.cpp`) | phase, stop flag, signal watcher | `Create`, `Start`, `Run`, `Stop`, `RequestStop` | context and scheduler |
| Supervisor (`configuration/supervisor.cpp`) | one record per node, the reason to end | `Run`, `RequestStop` | processes of the operating system |
| FastDDS transport (`transport/fastdds`) | DDS entities behind reader and writer states, topics | `Open`, `Close`, `CreateReader/Writer`, `Read`, `Write`, listener | DDS threads that call listeners, threads of the process |
| Recordings and `puppet_master_topic` (`transport/recording.cpp`, `tools/puppet_master_topic.cpp`) | record file, per-topic feeds, replay cursor | `record`, `replay`, `info`, `echo`, `hz` | topics, signals, a file that grows or was cut off |
| Configuration (`configuration/*.cpp`, `tools/puppet_master_launch.cpp`) | files, the import chain, decoded projects | load, merge, validate, check systems, launch | files, command lines of nodes |

What makes them correct, and what makes it hard:

- *Ring.* A reader takes no lock. It must never hand out a mixture of two
  messages, a message that was not committed, or one under a wrong sequence
  number, although slots are overwritten while they are copied, writers die
  between any two stores, and a sequence number is used again after such a
  death. Losses must be counted exactly.
- *Participants.* The table is claimed, released and reclaimed with single
  atomic accesses; an entry that is freed under a running process makes that
  process invisible.
- *In-memory.* Endpoints are created in two critical sections; the topic may be
  closed, or lose its last reader, in between. Writers that block must go on.
- *Services.* A reply, a deadline, a dead server, a failed write and `Close`
  compete for one call, whose callback must run exactly once.
- *Scheduler.* No component runs twice at once; no wake-up is lost although a
  worker sleeps without a predicate; aging prevents starvation; `Stop` drains,
  destroys the readers whose callbacks still run, and returns.
- *Supervisor.* No process is left behind, the restart budget holds, and `Run`
  returns even if processes ignore the request.
- *Shm topics.* A topic is found by name; a segment may be created, retired,
  removed and created again while others open it, and the dispatcher sleeps on a
  futex of the segment.
- *FastDDS.* DDS calls listeners with a lock held and deletes a reader only when
  no listener runs; destructors, `Close` and listeners meet in one reader.
- *Recordings.* What was flushed must be readable wherever the file ends; losses
  are counted; waits end for a message as well as for a signal.
- *Configuration.* What `--validate` and the launcher accept must be what the
  nodes then register, connect and run.
- *Application and lifecycle.* A start that fails half-way is rolled back,
  every component is shut down once, and `Execute` does not overlap `Stop`.

`PROJECT.json` lists the hazards line by line with the properties that cover
them.

## The modules

`MC<Module>` extends a module with the values a `.cfg` cannot write.
Definitions named `Mut_...` are variants with a plausible mistake, used to
confirm that a property can fail; no specification refers to them.

### TopicLog and SegmentRing

`TopicLog` is what a topic promises: one growing log; each reader receives a
subsequence of it, in order, each message as committed, and counts the rest as
dropped.

`SegmentRing` is the ring. A writer takes the mutex (or inherits it from a dead
owner), marks the slot, stores the words of the image one by one in any order,
stores the slot's sequence word and then `write_seq`, or fails in the fill and
leaves the mark. `Crash` ends a writer at any of these points. A reader clamps
its cursor to its depth, loads the sequence word, copies the words one by one
in any order, loads the sequence word again, and delivers or drops; `TryRead`
gives up after `PassLimit` passes. Words may be stored and loaded in any order
between the fences, since the accesses between them are plain or relaxed; the
fences themselves are taken to order as the code's acquire and release
operations do. `log`, `start` and `received` are history.

### ShmParticipants

One action per load, store or compare-and-swap of `ClaimParticipant`,
`ReleaseParticipant` and `ReclaimDeadParticipants`; `Die` at any point. The
identity (pid, start time) is one value. `crashed` and `overwrote` are history.

### ShmTopic

One OS name and the segments created under it one after another; processes that
create or open, wait for another's initialisation, claim an entry, read, write,
retire, close and die; the dispatcher thread of each `TopicState`; `shm clean`.
The ring is one sequence number and the participant table one set, as
`SegmentRing` and `ShmParticipants` have them. Removal is by name, so it may hit
a segment other than the one judged: the code removes what somebody attached to a
moment before. `raced` records that this happened to a segment in use, and
`EndpointsMeet` is claimed until then; a reader that dies inside its own
retirement leaves a name that only `shm clean` removes. A process has one thread
that opens, writes and closes; `Close` called on the dispatcher thread itself is
not modelled.

### InMemoryTopic

One topic name of the in-memory transport: the channel the name stands for,
mailboxes with the five overflow policies, and both lifetimes (`ReaderOwned`
is the reader-owned one of service replies). Finding the channel and
registering with it are two actions, as are numbering a message and each push;
a `Publish` keeps the mailboxes it collected until it returns. The readers of a
channel are a set and `rank` is their place in its list, the order in which
`Publish` pushes to them. Reference counts
(`shared_ptr`, `weak_ptr`) are `ChannelAlive`, `MailboxAlive`. An *observed*
topic has the readers `RuntimeContext` wraps: `Observe`, `Update`,
`CallbackCounts`, `CallbackRecords` and `DestroyReader` keep the topic's queue
depth. Of a reader-owned topic `OneChannel` does not hold: a second reader can
be left on a channel that lost its name (`inmemory_transport.cpp:563`). The
queue depth of live readers may be stale until their next message
(`context.cpp:241`).

### FastDdsTopic

One topic of the FastDDS adapter. `rd` is a handle with its `ReaderState`
(`signal_mutex` sections are single steps, `entity_mutex` and `shutdown_mutex`
are variables), `dds` the DataReader behind it with the lock DDS holds for a
listener, `wr` a writer. `SignalClosed`, `LockShutdown`, `Detach` and
`DeleteReader` are `ReaderState::Shutdown`, run by a destructor or by `Close`.
`Close` visits the endpoints the transport lists, the readers before the
writers, each in any order.
DDS (`Matches`, `Deliver`, `Lose`, `Stored`, `Sent`, `TopicBusy`) is external: what
the code relies on. `MapMessagePolicy` decides who can be created and who
matches. A failing `Open` or creation changes nothing and is no step; type
registration, a callback that reads another reader or waits for data of its own,
and a handle destroyed inside its own listener are not modelled. `ShutdownsEnd`
takes callbacks to return. The scheduler's does not while `Stop` holds its mutex,
which is the deadlock that `Scheduler` has.

### ServiceCall

A client with its callers, dispatcher and closer, and successive server
instances served by a thread of their own or by a component (`ServePending`,
`CheckPass`, `LeavePass`). `AwaitServer` and `AwaitMatchWoken` are the two loops of
`AwaitServerLocked`; `DispatchWakes`, `DispatchReply`, `DispatchExpires` and
`DispatchRuns` are one turn of the dispatcher; a *chained* call is made by a
reply callback, on the dispatcher itself; `Close` may run there too. Topics are
queues that drop their oldest entry. Clocks are choices: deadlines pass and
heartbeats grow stale at any moment.

Where request readers are discovered late, a call that is matched while the
client closes is registered after `Close` drained the calls (`service.cpp:910`)
and is never completed, although `docs/services.md` says `done` is called exactly
once: `EveryCallCompletes` is claimed for the other transports. A handler of a
scheduled server that calls `Close` reopens a reply writer when it answers, so
`ClosedServerQuiet` is about `Close` from other threads; a handler on the
server's own thread that calls `Close` joins itself and is not modelled.

### Scheduler

Every action is one critical section of `Impl::mutex`, but for the last one of
`Stop`. `Trigger`, `TimerFires`, `DataCallback` and `Finish` (through task
triggers) queue events; `Take`, `Sleep`, `ExitLoop` and `Finish` are the worker's
loop; `StartBegin`, `Install`, `StartEnd`, `StartFails`, `StopBegin`, `StopNotify`,
`StopClear`, `DestroyReader`, `StopEnd`, `WaitIdle` are the callers'. A worker in
the wait set leaves it only when notified. Trigger readers are installed one by
one, each topic of a data trigger and each service on its own, and their
callbacks may run as soon as they are. A callback goes through two stages:
`DataArrives` copies it, `HoldReader` is `weak_reader.lock()` in the callback that
`RuntimeContext` wraps around it, and `DataCallback` is the scheduler's own part,
which takes the mutex. One that was copied before `Stop` may run after the next
`Start`. Time is counted in aging intervals; `Tick` ages all events and lets
differences that no priority can outweigh shrink, which keeps the state finite
without changing the dispatch order. Such a late callback (`scheduler.cpp:631`)
starts what is installed by then.

`StopClear` takes the mutex for the last time and keeps it while `DestroyReader`
destroys the trigger readers; `MutexFree` is what the callbacks and `WaitIdle`
wait for meanwhile. The destructor of a reader of the in-memory and the
shared-memory transport leaves a callback that is running alone. That of a
FastDDS reader waits for its listener (`WaitedFor` are the topics of such
readers): if the listener has copied its callback and finds the reader gone, it
goes on to the mutex that `Stop` holds, and neither ever goes on (`Awaited`,
`scheduler.cpp:411`). `docs/scheduler.md:120` says of `Stop()` that it "wakes
periodic waits, joins timer threads, drains pending events, and then returns";
the model reaches a state in which it does not (TLC finds it, in the instance of
`scheduler_progress`, as soon as the exception is taken out of `StopReturns`), and
`StopReturns` is claimed but for that. A callback that is holding its reader lets
`Stop` pass; that it then destroys the FastDDS reader on its own listener's
thread is not modelled.

### RuntimeContext and Application

`RuntimeContext` has the transports of a runtime as operators on a context:
`RegisterTransport`, `Open`, `Close` and the creation of endpoints.
`Application` has the applications of a process and the lifecycle of their
components. `Create` assembles transports and components and may fail at each. A
thread whose control point is the name of a callback is inside it; `CallableIn`
and `LeadsTo` are the table that `ConfigureComponent` ... `ShutdownComponent`
spell out. `CallbackReturns` ends a callback with success, failure or a refused
transition and goes on as `Start` (`BringUpNext`, `RollBack`) or the teardown
(`TearDownNext`, `Visit`) does. The scheduler is reduced to queued and executing
components and the four states `off`, `starting`, `on`, `draining`: serial
execution and draining are what `Scheduler` shows. `ClaimSignals` ...
`ReleaseSignals` share the handlers, the flag and their owner between
applications. The owner calls everything but `Stop`, which a second thread
calls too, and any thread calls `RequestStop`. A `Stop` that finds `Start` in
progress returns and is forgotten; a `Stop` from a component callback
(`application.cpp:531`) is not modelled.

### Supervisor

The thread of `Run` (`Enter`, `Boot`, `BootOver`, `Supervise`, `Look`,
`RoundOver`, then `StopSkip`, `AskToStop`, `Kill`, `Stopped`, `Return`),
processes that exit, ignore a stop or die, timers, and `RequestStop`. `Look`
is one iteration of the loop over the nodes: it reaps a process, restarts a
node that is due, or passes. The wait after a kill has no action of its own:
when it ends without an exit the child's destructor kills and waits again.
`attempts` is history. A Windows child behaves alike and is not modelled. When
two required nodes end in one round the first one's exit code stands, also if it
is a success and the second failed (`supervisor.cpp:477`).

### ProjectConfig, JsonLoader and Launch

`ProjectConfig` has the decoded project: `Validate` with its Kahn walk over task
triggers, the runtime specifications and bindings built from it, the checks that
`Scheduler` makes again, and `ValidateSystem`. `JsonLoader` reads files one by
one: an `ImportResolver` per loading process with its chain and loaded set,
search paths, absolute imports and directories with several spellings
(`Canonical`), decoding of every object, and the deployment on top. `Launch`
takes a manifest to processes: the launcher loads and checks every project, each
node parses its command line, loads its project again and registers components,
topics and triggers. A command line is a sequence of words, in which an option
takes the next word for its value, whatever it is. A name is the sequence of its
path segments, a field of the wrong type is `Malformed`, statuses are codes. The
refusals of the trigger readers, which are created when the scheduler starts, are
in `Scheduler` (`StartFails`).

Three departures are named where they bite. `ProjectConfig::Validate` accepts two
service triggers of a component that share a service, which the scheduler refuses
(`scheduler.cpp:155-164`): `SharesService`. A node whose own arguments name a
file or a deployment, or end in an option that takes the configuration file after
them for its value (`system_manifest.cpp:312`), loads another project than the
launcher checked, or none: `Redirected`.
`TopicsFromSystem` (the topic tool) refuses some systems that validation accepts.
Files do not change while a system is launched. JSON syntax, `ParseJsonConfig`,
`${...}` expansion and the lookup of executables are left out. `SuppliersAgree`
is what `ValidateSystem` checks: that one process supplies what another uses,
under the same contract and transport. Whether that transport reaches across
processes is not checked, and two processes that agree on `in_memory` are accepted.

### Recording and TopicTool

`Recording` is the file as a sequence of cells, one per field; a cut between two
cells stands for a cut inside either. The writer appends to a buffer that
reaches the file in any pieces, at a flush, or not at all. `TopicTool` has a
process that runs `record`, `echo` or `hz` (feeds, the wakeup flag, look, wait,
count, flush) and one that replays a recording or prints it, perhaps while it
still grows; a signal, a full disk or a kill may come at any step. Loss counting
starts at the first message received, as in the code.

The code and `docs/recording.md:38` disagree about a recorder that is killed before
its first flush. The document says that the file of a killed recorder "ends
inside a record at worst; readers stop there and report the recording as cut
off". `RecordingWriter` has only buffered the header by then
(`recording.cpp:159`), the file is empty, and `Open` refuses it with
InvalidArgument instead (`recording.cpp:323`). The model reaches this state; it is
the only error `RecordingReadable` admits, for files shorter than the header.

The recorder takes topics in turn, so one that is always full can hold back the
others (`puppet_master_topic.cpp:1062`). The reader opens the file after the
recorder created it; the wait for FastDDS matches is one step; the list and
service subcommands are left out.

## The runs

| Run | Instance | Shows |
|---|---|---|
| `segment_ring` | 2 writers, 1 reader deeper than the ring, 3 slots, 2 words, 5 messages | every read whole and as committed, losses counted, `TopicLog` implemented, readers catch up |
| `participants_table` | 3 processes, 2 entries | entries stay with their owners (until a release overwrites one, see below); entries of dead holders are reclaimed |
| `shm_topic` | 5 deployments of up to 3 processes: reader-owned with two writers, with two readers, shared in use, shared beside `shm clean`, and with processes that disagree about its geometry; 2 deaths | endpoints meet on the named segment, nothing is left behind, no publish or close is slept through |
| `inmemory` | 2 readers, 2 writers, 2 messages and 2 channels; a shared topic (drop-oldest, keep-all), a reader-owned one (block, drop-newest), an observed one (latest, reject) | each writer's order, one channel per shared name and closing reaches its readers, gone readers are not counted, blocked writers go on |
| `fastdds` | a reader, a writer and two closing threads; two readers of which one declares another message; two of which one has a policy DDS cannot keep; 2 writes, 2 openings | DDS objects outlive their use, a waiting `Read` is told, shutdowns end |
| `service` | one call and 2 overlapping servers; 2 calls (one chained) and `Close`; late discovery and a server served by a component | one result per call and its own, only the current server withdraws, a closed server is quiet, every call completes |
| `scheduler_safety` | 2 workers, 2 callers, 2 components, a trigger of every kind | serial execution, bounded queue, no lost wake-up, `Stop` drains |
| `scheduler_progress` | 2 workers, 3 components of two priorities, a timer and a trigger reader of FastDDS | no event starves; `Stop` returns, unless a FastDDS reader's destructor waits for a callback that waits for `Stop` |
| `application` | one application with 2 components, 2 threads and a transport of its own; two that compete for the signals; two whose creation fails | callbacks run alone and find the transports open, teardown once, in reverse and complete, a signal ends `Run` |
| `supervisor` | 2 manifests of 3 nodes, all policies, required and optional | no orphans, restart budget, delays and reasons to end, `Run` returns |
| `launch` | 4407 systems: import graphs over 3 files and 2 spellings, task graphs over 3 components, pairs of triggers, services beside topics, 2 nodes under 5 deployments with 6 lists of arguments, refused manifests | imports resolved, cycles found, accepted projects register, suppliers agree, nodes load what was checked |
| `recording` | recordings of 1 and 2 topics with faults and a reader of the file, `echo` and `hz` on an overrun ring, replays of every prefix of a recording and of malformed ones | flushed records readable and cuts reported, losses counted, replay faithful, waits end |

`ReleaseParticipant` ends with a plain store of the free state
(`segment.cpp:443`). A process that joins after the identity was cleared takes
the entry for that of a dead process, frees it and claims it; the late store
then frees the entry of that running process, which `shm list` no longer counts
and `shm clean` may cut off. The comment at `segment.h:38` ("a stale
compare-and-swap cannot free an entry that was reclaimed and claimed again in
between") is about the compare-and-swaps, and holds. `overwrote` records the
late store; the properties of the table are claimed until it happens.

*Bounds.* The ring needs a wrap (more messages than slots), a reader that wants every
slot of it, two writers (one to die, one to inherit), and two words, since a
torn message needs no more than two that disagree; readers do not influence
writers or one another, so one is enough. Two calls, two server instances and
queues of one entry are enough for every pair of completions to compete and
for a reply to outlive its server. Two workers and two components are the
smallest pool in which a notification can be spent on the wrong worker. A
mailbox of one entry is full after one message, so two messages meet every
overflow policy. Two components have an order; the application that only
competes for signals needs none. Two segments are one to be retired and its
successor, and three processes the smallest number in which one leaves while two
others meet. Two closing threads make `Close` race itself, and two openings a
handle outlive its participant; a reader with its listener, its thread and a
closer is every pair that shares a lock. Three files make an import cycle with a
way into it. The scheduler's state is finite as it is. `MaxSeq`, `MaxGen`,
`MaxChannels`, `MaxSegments`, `MaxCrashes`, `Instances`, `MaxWrites`, `MaxOpens` and
`RestartBound` bound counters in the guards of the actions that raise them; the
worlds of `TopicTool` bound messages and time.

*Deadlock* is checked where the system runs for ever. `CHECK_DEADLOCK FALSE`
stands where the bounded messages, calls, claims or processes run out: the
participant table, the three topics, the service, the application, the launch
and the topic tool; and in `scheduler_progress`, whose `Stop` may hang.

*Fairness.* `SegmentRing`: a reader that is in `TryRead` or is polled takes its
steps; writers owe nothing, and may die. `InMemoryTopic`: a push that can go on
does, and readers keep reading; without that a full `block` mailbox holds its
writer by design. `ServiceCall`: threads of the client run and deadlines pass;
servers owe nothing. `Scheduler`: workers, the thread in `Stop`, executions,
callbacks of the transports and time go on; components that never return would
block `Stop` in the code too. `Application`: threads inside a call, workers and
the watcher go on, and callbacks return; whether anybody calls is left open.
`FastDdsTopic`: threads inside a call go on, callbacks return, and shutdowns get
a mutex that is free again and again (strong fairness: other threads that keep
reading only hold it for the length of a call). `TopicTool`: the tool's and the
player's threads go on. `ShmTopic` and `Launch` check safety only: that nothing
is slept through is stated as what a sleeper must have been told. `Supervisor`:
the thread runs, delays pass, and the operating system ends a process it was
told to kill; processes owe nothing.

## The proofs

A component's theorems stand in `<Module>Proofs`, with the inductive invariant
they need; those of the two halves of a segment share `SegmentProofs`, which
extends both, so that the participant table's own `TableInit`, `TableNext` and
`TableSpec` stand beside the ring's, and those of the scheduler and of the
supervisor (`SupervisorSpec`), the two levels of execution, share
`ExecutionProofs`. The theorems hold for every value of the constants that the
component's `ASSUME` admits, so for any number of processes, threads,
components, messages and calls. The bounds that make TLC's runs finite are
constants too. Each invariant is proved from one lemma per action; the
properties of the runs then follow from it, or, where they are about steps, from
it and the actions.

`SegmentProofs`, for the ring from `RingAssumption` (a ring has a slot,
messages are images, depths are naturals).

- `RingInvariant`: `Spec => []RingInv`. `ReceivedAsCommitted` is not inductive
  alone. `RingInv` adds who may be inside the lock (`LockInv`), what a
  half-done publication has stored (`WriterInv`), that a slot whose sequence
  word says "n committed" holds message n, or the message the writer is about
  to commit as n (`SlotInv`), and that a reader's copied words agree with the
  log as long as the slot's sequence word still does (`ReaderInv`). The last
  is what the second load of the sequence word turns into a delivery.
- `NoTornRead`: `Spec => []ReceivedAsCommitted`.
- `RingRefinesTopicLog`: `Spec => ImplementsTopicLog`; every step of the ring
  is a step of the log or leaves it unchanged, under `RingInv`.
- `NewestStay` (`NewestKept`, which only the proof is about): numbers less than a ring apart have different
  slots (`SlotsDiffer`), so the slot a writer marks is that of the one message
  the property gives up.

`SegmentProofs`, for the participant table from `ParticipantsAssumption`. The
generation argument of `segment.h`, for any number of processes and entries: the
state of an entry only moves forward, so a state that was loaded, or that a dead
process left, is still there or will never be again.

- `ParticipantsInvariant`: `ParticipantsInv` says what a process knows of the
  entry it holds or looks at, that no two claimed it with one generation, and
  which entries of dead holders a joining process has already freed. All but
  the types is claimed until `overwrote`, as the properties are.
- `OwnersAreSafe` (`OwnersKeepEntries`), `HoldersAreReclaimed`
  (`HoldersReclaimed`).

`ShmTopicProofs`, from `ShmTopicAssumption` (readers and writers of a deployment
are processes, a reader's depth is at least one).

- `ShmTopicInvariant`: `TopicInv`, in four parts besides the types. `HoldsInv`:
  endpoints and a dispatcher belong to a `TopicState` that is open or being
  closed. `HearsInv` is why the wait cannot miss a wakeup: a dispatcher never
  observed more than the futex word, sleeps only on the word it observed, and if
  that word is still current it has seen every publish and its `TopicState` is
  open, or someone is about to notify; a blocked `Read` that was not told waits
  for a message its dispatcher has not seen. `MeetsInv`: one process creates a
  segment and its stage says how far it is; those who opened are on the name, on
  a retired segment or on an abandoned one, until `raced`. `LeftInv`: while the
  name of a reader-owned topic stands after a last close, someone is still to
  leave the segment (`Responsible`), or died between retiring it and removing
  its name.
- `EndpointsAlwaysMeet` (`EndpointsMeet`), `NothingIsLeftBehind`
  (`NothingLeftBehind`), `NothingIsMissed` (`NothingMissed`). The second showed
  that the property needs no exception for a creator that died: nobody can have
  closed a segment that was never finished.

`ExecutionProofs`, for the scheduler from `SchedulerAssumption` (what registration
validates; workers, components and triggers are finite).

- `SchedulerInvariant`: `Spec => []SchedulerInv`: types, `SerialExecution`,
  `OnePending`, that at most one caller is inside `Start` or `Stop`
  (`OneController`), and that no workers exist outside a run. The last is needed for
  `Start`, which creates the pool and clears the books: without it a worker of
  an earlier run could still be executing.
- `ComponentsRunSerially` (`SerialExecution`) and `QueueBounded`
  (`OnePending`) follow. The lemma about several task triggers that fire
  together counts the components they add, so that the events appended are one
  each.
- `WakeupInvariant`: `WakeupInv` on top of it. `WorkConserving` is not inductive:
  it says that someone is awake, and a worker that takes one of two events
  leaves nobody for the other. `EnoughAwake` counts: while a worker waits, at
  least as many are awake as components could be executed.
- `WakeupsAreNotLost` (`NoLostWakeup`) and `StopDrainsQueue`
  (`StopDrainsAlways`, an action property) follow; the second because a worker
  leaves its loop only when the queue is empty, for good (`ExitedDrained`).

`ServiceCallProofs`, from `ServiceAssumption`.

- `ServiceInvariant`: `ServiceInv` says that a call is in one place at a time -
  in `Start`, pending, in the batch being completed, or done - (`CallsInv`), that
  replies are to calls whose handler has run (`TrafficInv`), that a handler runs
  inside a pass and a closed server has none (`ServersInv`), and that a goodbye
  under way is that of a server that withdrew (`PresenceInv`).
- `CallsGetOneResult` (`OneOwnResult`), `ClosedServersAreQuiet`
  (`ClosedServerQuiet`), and `OldGoodbyesDoNotMatter` (`OnlyCurrentWithdraws`, an
  action property).

`ApplicationProofs`, from `ApplicationAssumption`.

- `ApplicationInvariant`: the mutex of the application is not held during
  callbacks, so `ApplicationInv` has to say why they do not meet: at most one
  thread is busy with the components, the owner in `Start`, or whoever found the
  phase running in `Stop` (`ThreadsOK`). The scheduler runs only while the
  application does or that thread is at it (`SchedulerOK`), the transports stay
  open until its teardown is over (`TransportsOK`), and how far it has come is
  `Progress`.
- `CallbacksAreSafe` (`CallbacksSafe`), `TornDownCompletely` (`TornDown`).

`ExecutionProofs`, for the supervisor from `SupervisorAssumption`.

- `SupervisorInvariant`: in `SupervisorInv` a process exists exactly while its
  node is running (`Owned`), `StopAll` has left none behind it (`StoppedBehind`),
  and a node was started as often as it was restarted and once more
  (`Budgeted`).
- `NothingIsOrphaned` (`NoOrphans`), `PolicyIsKept` (`PolicyKept`: budget and
  reasons to end).

`FastDdsTopicProofs`, from `FastDdsAssumption`.

- `TopicInvariant`: in `TopicInv` a thread inside a DDS call has
  `entity_mutex` and the DataReader is there (`ReaderOK`); a DataReader that was
  taken from its state belongs to the thread that is about to delete it, under
  `shutdown_mutex` (`Owned`, `ShutdownOf`); every live entity is known to the
  transport, or to the `Close` on its way to it (`OnTopic`). The last is why
  `Close` may delete the topic and the participant.
- `EntitiesAreSafe` (`EntitiesOutliveUse`), `ReadsAreTold` (`ReadsTold`).

`InMemoryTopicProofs`, from `TopicAssumption`.

- `InMemoryInvariant`: `TopicInv`. `OrderInv` is about the gap between the
  number a message gets and the mailboxes it is pushed into: a reader, in its
  mailbox or already delivered, has nothing of a writer that is newer than the
  writer's last message, and nothing as new while that message's push to it is
  owed; mailboxes are sorted by writer, and what was delivered is older than
  what still waits. `ChannelInv`: an open reader of a shared topic is
  registered with the channel the name stands for; one that is still
  registering may be on a channel that was closed meanwhile.
- `WritersKeepOrder` (`WriterOrder`), `SharedTopicsMeet` (`SharedOneChannel`),
  `GoneAreNotCounted` (`GoneNotCounted`; a removed reader counts for nothing, and
  the total over no readers is zero).

`TopicToolProofs`, from `TopicToolAssumption` (a command has topics, and a topic
keeps at least one message) and `FileAssumption` (`None`, no file, is not a file).

- `ToolInvariant`: `Inv`, in three parts. `ToolInv` is about reading topics. A
  channel has read up to its cursor and, once it received a message, counted
  from the first to the cursor (`Counts`). A recorder that is not done was told
  of everything that came to the topics it has passed in this round
  (`AwakeInv`): a topic is passed only when nothing was pending or a read was
  overtaken, and what came later is news to its callback. `StreamsInv` is about
  the file. `Stream(W, B, n)`: there is a whole recording `W` of `n` records,
  the i-th from `B[i]` on, of which what is on disk, and in the buffer of a
  stream that has not failed, is a beginning; the records are those of the
  topics and then those of the messages the writer counted, and perhaps one more
  that did not fit. `Reading(B)`: the reader is at a boundary of `B` and has
  read the records before it, which are all on disk; when it ends, the next one
  is cut off, or the file ended there. A step of the writer never moves a
  boundary (`Kept`), so a reader keeps its place while the file grows, and the
  size it looked up once is enough for what was flushed by then. `LinksInv` says
  who may write when: nobody reads a file before its recorder has replaced it,
  topics are declared before messages are written, and what is written goes to a
  stream that is open.
- `RecordingsAreReadable` (`RecordingReadable`), `LossesAreCounted`
  (`LossesCounted`), `RecorderIsWoken` (`RecorderWoken`, the safety half of
  `WaitsEnd`).

Only model-checked:

- Liveness, since fairness and `ENABLED` are out of the prover's reach:
  `ReaderCatchesUp`, `NoStarvation`, `StopReturns`, `EveryCallCompletes`,
  `WritersFinish`, `SignalEndsRun`, `WaitsEnd`, `ShutdownsEnd` and `TimesKept`.
  `TimesKept` also holds `DelayDoubles`, whose powers of two need induction over
  data.
- `ReplayFaithful`: the messages a replay was asked for are filtered from those
  recorded, and what a filter does for every sequence needs induction over data.
- The properties of `Launch` and the modules it extends: import resolution and
  cycle search are recursive over the data they are given, and what a recursive
  definition computes for every input is out of reach.

## Not modelled

- Windows: named mutexes and events, and `CreateProcess`, stand behind the same
  interfaces as the modelled Linux and POSIX code.
- The inside of DDS, the participant's settings and `byte_payload_type.cpp`.
- Statistics, exporters, logging and codecs, the compatibility facade,
  `puppet_master_config`, `portable_fields` and the list and service subcommands:
  they format, count or forward, and nothing else depends on their state.
- Read-only inspection of segments (`Inspect`, `shm list`).
- Memory reclamation, allocation failure and exceptions from user callbacks
  other than those the code catches and turns into a failed execution.

## Plan

What would come next: the statistics of `Observability` as a component of its
own, the Windows platform layer under the interfaces that `SegmentRing` and
`ShmTopic` assume, and, with a prover that has induction, `ReplayFaithful` and the
recursive definitions of `ProjectConfig` and `JsonLoader`.
