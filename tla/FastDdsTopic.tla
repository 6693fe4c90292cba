---------------------------- MODULE FastDdsTopic ----------------------------
(***************************************************************************)
(* One topic of the FastDDS transport                                      *)
(* (transport/fastdds/fastdds_transport.cpp): endpoint handles over DDS    *)
(* entities that threads create, use and destroy while other threads open  *)
(* and close the transport and DDS calls the readers' listeners.           *)
(*                                                                         *)
(* DDS is external and does what the code relies on: it runs a listener    *)
(* with the DataReader's internal lock held, deletes a DataReader once no  *)
(* listener runs, and refuses to delete a topic in use.  Each handle has   *)
(* one thread, named like it.  Sections under signal_mutex, and under the  *)
(* transport's mutex, wait for nothing and are single steps; the other     *)
(* mutexes are variables.  Payloads, types and the participant's settings  *)
(* are left out; a call that fails and changes nothing is no step.         *)
(***************************************************************************)
EXTENDS Naturals, Sequences, SequencesExt

CONSTANTS Readers, Writers, Closers,
          Worlds,      \* the processes considered
          MaxInt32,
          MaxWrites,   \* bound on the writes of one writer
          MaxOpens,    \* bound on the times the transport is opened
          None

Endpoints == Readers \cup Writers
Agents == Readers \cup Closers
Policies == [delivery : {"best_effort", "reliable"}, retention : {"keep_last", "keep_all"},
             freshness : {"latest", "queued"}, overflow : {"drop_oldest", "drop_newest", "block", "reject"},
             depth : Nat]

\* A ReaderState::Shutdown: of which reader, the step it is at, and whether it was
\* the one that found the DataReader.
Shutdowns == [of : Readers, step : {"signal", "lock", "detach", "delete"}, detached : BOOLEAN]

\* Who there is, the message each endpoint declares for the topic, its policy.
ASSUME FastDdsAssumption ==
  /\ \A w \in Worlds : /\ w.members \subseteq Endpoints \cup Closers
                       /\ w.policy \in [Endpoints -> Policies]
                       /\ \A e \in Endpoints : w.message[e] # None
  /\ Readers \cap Writers = {} /\ Endpoints \cap Closers = {}
  /\ None \notin Endpoints \cup Closers \cup {"listener"} \cup Shutdowns
  /\ MaxInt32 \in Nat \ {0} /\ MaxWrites \in Nat /\ MaxOpens \in Nat

VARIABLES world,
          transport,  \* participant, closing, topic, readers, writers, opens
          lifecycle,  \* the holder of lifecycle_mutex
          rd,         \* [Readers -> handle and ReaderState]
          dds,        \* [Readers -> the DataReader behind it, and its listener]
          wr,         \* [Writers -> handle, WriterState and DataWriter]
          shutting,   \* [Agents -> the ReaderState::Shutdown it is in]
          closer      \* [Closers -> control point, states left to shut down]

vars == <<world, transport, lifecycle, rd, dds, wr, shutting, closer>>

Init ==
  /\ world \in Worlds
  /\ transport = [participant |-> FALSE, closing |-> FALSE, topic |-> None,
                  readers |-> {}, writers |-> {}, opens |-> 0]
  /\ lifecycle = None
  /\ rd = [r \in Readers |-> [pc |-> IF r \in world.members THEN "new" ELSE "gone", seen |-> 0, closed |-> FALSE,
                              generation |-> 0, callback |-> FALSE, reader |-> FALSE,
                              entityMutex |-> None, shutdownMutex |-> None]]
  /\ dds = [r \in Readers |-> [live |-> FALSE, lock |-> None, history |-> << >>, sent |-> << >>,
                               listener |-> "off"]]
  /\ wr = [w \in Writers |-> [pc |-> IF w \in world.members THEN "new" ELSE "gone", live |-> FALSE, mutex |-> None,
                              writes |-> 0]]
  /\ shutting = [x \in Agents |-> None]
  /\ closer = [k \in Closers |-> [pc |-> IF k \in world.members THEN "idle" ELSE "gone", todo |-> {}]]
-----------------------------------------------------------------------------
(* Quality of service *)

\* MapMessagePolicy: the DDS profile of a policy, or None.
MapMessagePolicy(policy) ==
  LET latest == policy.freshness = "latest"
      profile == [reliability |-> policy.delivery,
                  history |-> IF latest THEN "keep_last" ELSE policy.retention,
                  depth |-> IF latest THEN 1 ELSE policy.depth]
  IN  IF \/ policy.depth = 0 \/ policy.overflow # "drop_oldest"
         \/ profile.history = "keep_last" /\ profile.depth \notin 1 .. MaxInt32
      THEN None ELSE profile

\* A latest-only reader does not make the writer's history short.
MapWriterMessagePolicy(policy) == MapMessagePolicy([policy EXCEPT !.freshness = "queued"])

ValidateEndpoint(e) ==
  MapMessagePolicy(world.policy[e]) # None /\ MapWriterMessagePolicy(world.policy[e]) # None

ReaderQos(r) == MapMessagePolicy(world.policy[r])
WriterQos(w) == MapWriterMessagePolicy(world.policy[w])

\* DDS connects a reader to a writer that offers what it asks for.
Matches(r, w) == ReaderQos(r).reliability = "reliable" => WriterQos(w).reliability = "reliable"
-----------------------------------------------------------------------------
(* The transport's endpoints and topic *)

\* A ReaderState or WriterState lives with its handle, or with who locked it.
ReaderAlive(r) == rd[r].pc \notin {"new", "gone"} \/ \E x \in Agents : shutting[x] # None /\ shutting[x].of = r
WriterAlive(w) == wr[w].pc \notin {"new", "gone"}

Used == (\E r \in transport.readers : ReaderAlive(r)) \/ (\E w \in transport.writers : WriterAlive(w))
TopicBusy == (\E r \in Readers : dds[r].live) \/ \E w \in Writers : wr[w].live

\* SweepTopics: forget a topic that nobody uses and DDS lets go.
SweepTopics == IF ~Used /\ ~TopicBusy THEN None ELSE transport.topic

\* EnsureTopic and the creation of the endpoint's entity, under the mutex; it is
\* refused when the topic carries another message.
MayCreate(e) ==
  /\ transport.participant /\ ~transport.closing
  /\ ValidateEndpoint(e)
  /\ SweepTopics \in {None, world.message[e]}

CreateReader(r) ==
  /\ rd[r].pc = "new" /\ MayCreate(r)
  /\ transport' = [transport EXCEPT !.topic = world.message[r],
                                    !.readers = {q \in @ : ReaderAlive(q)} \cup {r}]
  /\ rd' = [rd EXCEPT ![r].pc = "idle", ![r].reader = TRUE]
  /\ dds' = [dds EXCEPT ![r].live = TRUE]
  /\ UNCHANGED <<world, lifecycle, wr, shutting, closer>>

CreateWriter(w) ==
  /\ wr[w].pc = "new" /\ MayCreate(w)
  /\ transport' = [transport EXCEPT !.topic = world.message[w],
                                    !.writers = {v \in @ : WriterAlive(v)} \cup {w}]
  /\ wr' = [wr EXCEPT ![w].pc = "idle", ![w].live = TRUE]
  /\ UNCHANGED <<world, lifecycle, rd, dds, shutting, closer>>
-----------------------------------------------------------------------------
(* Reading *)

\* Read looks at `closed` and the generation before it tries to take.
Observe(r) == IF rd[r].closed THEN rd' = [rd EXCEPT ![r].pc = "idle"]
              ELSE rd' = [rd EXCEPT ![r].pc = "take", ![r].seen = rd[r].generation]

Read(r) ==
  /\ rd[r].pc = "idle" /\ Observe(r)
  /\ UNCHANGED <<world, transport, lifecycle, dds, wr, shutting, closer>>

PendingMessageCount(r) ==
  /\ rd[r].pc = "idle"
  /\ rd' = [rd EXCEPT ![r].pc = "count"]
  /\ UNCHANGED <<world, transport, lifecycle, dds, wr, shutting, closer>>

\* Nothing was taken: Read returns, or waits if it was asked to.
NoneTaken(r) == \E wait \in {"idle", "wait"} : rd' = [rd EXCEPT ![r].pc = wait, ![r].entityMutex = None]

\* entity_mutex guards the pointer, and is kept for the DDS call.
LockEntity(r) ==
  /\ rd[r].pc \in {"take", "count"} /\ rd[r].entityMutex = None
  /\ IF rd[r].reader
     THEN rd' = [rd EXCEPT ![r].pc = IF @ = "take" THEN "taking" ELSE "counting", ![r].entityMutex = r]
     ELSE IF rd[r].pc = "take" THEN NoneTaken(r) ELSE rd' = [rd EXCEPT ![r].pc = "idle"]
  /\ UNCHANGED <<world, transport, lifecycle, dds, wr, shutting, closer>>

\* TakeFrom skips the samples that carry no data.
IsData(sample) == sample = "data"
HasData(r) == \E i \in DOMAIN dds[r].history : IsData(dds[r].history[i])
AfterTake(r) ==
  LET history == dds[r].history
  IN  IF HasData(r) THEN SubSeq(history, SelectInSeq(history, IsData) + 1, Len(history)) ELSE << >>

TakeFrom(r) ==
  /\ rd[r].pc = "taking" /\ dds[r].lock = None
  /\ dds' = [dds EXCEPT ![r].history = AfterTake(r)]
  /\ IF HasData(r) THEN rd' = [rd EXCEPT ![r].pc = "idle", ![r].entityMutex = None] ELSE NoneTaken(r)
  /\ UNCHANGED <<world, transport, lifecycle, wr, shutting, closer>>

Counted(r) ==
  /\ rd[r].pc = "counting" /\ dds[r].lock = None
  /\ rd' = [rd EXCEPT ![r].pc = "idle", ![r].entityMutex = None]
  /\ UNCHANGED <<world, transport, lifecycle, dds, wr, shutting, closer>>

\* The condition variable's predicate; Read then begins again.
ReadWakes(r) ==
  /\ rd[r].pc = "wait"
  /\ rd[r].closed \/ rd[r].generation # rd[r].seen
  /\ Observe(r)
  /\ UNCHANGED <<world, transport, lifecycle, dds, wr, shutting, closer>>

ReadTimesOut(r) ==
  /\ rd[r].pc = "wait"
  /\ rd' = [rd EXCEPT ![r].pc = "idle"]
  /\ UNCHANGED <<world, transport, lifecycle, dds, wr, shutting, closer>>

SetDataAvailableCallback(r) ==
  /\ rd[r].pc = "idle" /\ ~rd[r].closed /\ ~rd[r].callback
  /\ rd' = [rd EXCEPT ![r].callback = TRUE]
  /\ UNCHANGED <<world, transport, lifecycle, dds, wr, shutting, closer>>
-----------------------------------------------------------------------------
(* DDS and the listener *)

\* Keep-last history replaces the oldest sample.
Stored(r, sample) ==
  LET qos == ReaderQos(r)
      history == dds[r].history
  IN  Append(IF qos.history = "keep_last" /\ Len(history) = qos.depth THEN Tail(history) ELSE history, sample)

\* A sample arrives, and DDS calls the listener with its lock held.
Deliver(r) ==
  /\ dds[r].live /\ dds[r].lock = None /\ dds[r].sent # << >>
  /\ dds' = [dds EXCEPT ![r].history = Stored(r, Head(dds[r].sent)), ![r].sent = Tail(@),
                        ![r].lock = "listener", ![r].listener = "called"]
  /\ UNCHANGED <<world, transport, lifecycle, rd, wr, shutting, closer>>

\* A sample of a best-effort connection may be lost.
Lose(r) ==
  /\ dds[r].sent # << >> /\ ReaderQos(r).reliability = "best_effort"
  /\ dds' = [dds EXCEPT ![r].sent = Tail(@)]
  /\ UNCHANGED <<world, transport, lifecycle, rd, wr, shutting, closer>>

ListenerReturns(r) == dds' = [dds EXCEPT ![r].lock = None, ![r].listener = "off"]

\* on_data_available: a new generation wakes readers; then the callback, if any.
Mut_OnDataAvailable(r) ==
  /\ dds[r].listener = "called"
  /\ rd' = IF rd[r].closed \/ rd[r].callback THEN rd ELSE [rd EXCEPT ![r].generation = @ + 1]
  /\ IF ~rd[r].closed /\ rd[r].callback
     THEN \E does \in {"read", "return"} : dds' = [dds EXCEPT ![r].listener = does]
     ELSE ListenerReturns(r)
  /\ UNCHANGED <<world, transport, lifecycle, wr, shutting, closer>>
OnDataAvailable(r) ==
  /\ dds[r].listener = "called"
  /\ rd' = IF rd[r].closed THEN rd ELSE [rd EXCEPT ![r].generation = @ + 1]
  /\ IF ~rd[r].closed /\ rd[r].callback
     THEN \E does \in {"read", "return"} : dds' = [dds EXCEPT ![r].listener = does]
     ELSE ListenerReturns(r)
  /\ UNCHANGED <<world, transport, lifecycle, wr, shutting, closer>>

\* The callback reads its reader, or counts: in the listener's scope that uses
\* the DataReader DDS passed, without entity_mutex.
Mut_CallbackReads(r) ==
  /\ dds[r].listener = "read" /\ rd[r].entityMutex = None
  /\ dds' = [dds EXCEPT ![r].history = IF rd[r].closed THEN @ ELSE AfterTake(r), ![r].listener = "return"]
  /\ UNCHANGED <<world, transport, lifecycle, rd, wr, shutting, closer>>
CallbackReads(r) ==
  /\ dds[r].listener = "read"
  /\ dds' = [dds EXCEPT ![r].history = IF rd[r].closed THEN @ ELSE AfterTake(r), ![r].listener = "return"]
  /\ UNCHANGED <<world, transport, lifecycle, rd, wr, shutting, closer>>

CallbackReturns(r) ==
  /\ dds[r].listener = "return" /\ ListenerReturns(r)
  /\ UNCHANGED <<world, transport, lifecycle, rd, wr, shutting, closer>>
-----------------------------------------------------------------------------
(* Writing *)

\* DDS sends a sample to the readers connected to w.
Sent(w, sample) ==
  [r \in Readers |-> IF dds[r].live /\ Matches(r, w) THEN [dds[r] EXCEPT !.sent = Append(@, sample)]
                     ELSE dds[r]]

Write(w) ==
  /\ wr[w].pc = "idle" /\ wr[w].mutex = None /\ wr[w].live
  /\ wr[w].writes < MaxWrites
  /\ dds' = Sent(w, "data")
  /\ wr' = [wr EXCEPT ![w].writes = @ + 1]
  /\ UNCHANGED <<world, transport, lifecycle, rd, shutting, closer>>

\* WaitForDelivery keeps the mutex until readers acknowledged or time is up.
WaitForDelivery(w) ==
  /\ wr[w].pc = "idle" /\ wr[w].mutex = None /\ wr[w].live /\ wr[w].writes > 0
  /\ wr' = [wr EXCEPT ![w].pc = "delivering", ![w].mutex = w]
  /\ UNCHANGED <<world, transport, lifecycle, rd, dds, shutting, closer>>

Delivered(w) ==
  /\ wr[w].pc = "delivering"
  /\ wr' = [wr EXCEPT ![w].pc = "idle", ![w].mutex = None]
  /\ UNCHANGED <<world, transport, lifecycle, rd, dds, shutting, closer>>

\* WriterState::Shutdown; readers may get a sample without data that says so.
ShutdownWriter(w, pc) ==
  /\ wr[w].mutex = None
  /\ wr' = [wr EXCEPT ![w].live = FALSE, ![w].pc = pc]
  /\ \/ wr[w].live /\ dds' = Sent(w, "meta")
     \/ UNCHANGED dds

DestroyWriter(w) ==
  /\ wr[w].pc = "idle" /\ ShutdownWriter(w, "gone")
  /\ UNCHANGED <<world, transport, lifecycle, rd, shutting, closer>>
-----------------------------------------------------------------------------
(* ReaderState::Shutdown, by the handle's destructor or by Close *)

At(x, step) == shutting[x] # None /\ shutting[x].step = step
Begin(x, r) == shutting' = [shutting EXCEPT ![x] = [of |-> r, step |-> "signal", detached |-> FALSE]]

DestroyReader(r) ==
  /\ rd[r].pc = "idle"
  /\ rd' = [rd EXCEPT ![r].pc = "destroyed"]
  /\ Begin(r, r)
  /\ UNCHANGED <<world, transport, lifecycle, dds, wr, closer>>

SignalClosed(x) ==
  /\ At(x, "signal")
  /\ rd' = [rd EXCEPT ![shutting[x].of].closed = TRUE, ![shutting[x].of].callback = FALSE]
  /\ shutting' = [shutting EXCEPT ![x].step = "lock"]
  /\ UNCHANGED <<world, transport, lifecycle, dds, wr, closer>>

Mut_LockShutdown(x) ==
  /\ At(x, "lock")
  /\ shutting' = [shutting EXCEPT ![x].step = "detach"]
  /\ UNCHANGED <<world, transport, lifecycle, rd, dds, wr, closer>>
LockShutdown(x) ==
  /\ At(x, "lock") /\ rd[shutting[x].of].shutdownMutex = None
  /\ rd' = [rd EXCEPT ![shutting[x].of].shutdownMutex = x]
  /\ shutting' = [shutting EXCEPT ![x].step = "detach"]
  /\ UNCHANGED <<world, transport, lifecycle, dds, wr, closer>>

\* entity_mutex is released before the deletion, which waits for the listener.
Detach(x) ==
  /\ At(x, "detach") /\ rd[shutting[x].of].entityMutex = None
  /\ rd' = [rd EXCEPT ![shutting[x].of].reader = FALSE]
  /\ shutting' = [shutting EXCEPT ![x].step = "delete", ![x].detached = rd[shutting[x].of].reader]
  /\ UNCHANGED <<world, transport, lifecycle, dds, wr, closer>>

\* The reader deleted, the mutex is released and, by a destructor, the handle
\* gone.
DeleteReader(x) ==
  LET r == shutting[x].of
  IN  /\ At(x, "delete")
      /\ IF shutting[x].detached
         THEN dds[r].lock = None /\ dds' = [dds EXCEPT ![r].live = FALSE, ![r].sent = << >>]
         ELSE UNCHANGED dds
      /\ rd' = [rd EXCEPT ![r].shutdownMutex = None, ![r].pc = IF x = r THEN "gone" ELSE @]
      /\ shutting' = [shutting EXCEPT ![x] = None]
      /\ UNCHANGED <<world, transport, lifecycle, wr, closer>>
-----------------------------------------------------------------------------
(* Open and Close of the transport *)

\* The participant, or nothing when DDS cannot create it.
Open(k) ==
  /\ closer[k].pc = "idle" /\ lifecycle = None /\ ~transport.participant
  /\ transport.opens < MaxOpens
  /\ transport' = [transport EXCEPT !.participant = TRUE, !.opens = @ + 1]
  /\ UNCHANGED <<world, lifecycle, rd, dds, wr, shutting, closer>>

\* No endpoint is created from here on; those there are will be detached.
Close(k) ==
  /\ closer[k].pc = "idle" /\ lifecycle = None /\ transport.participant
  /\ lifecycle' = k
  /\ transport' = [transport EXCEPT !.closing = TRUE, !.readers = {}, !.writers = {}]
  /\ closer' = [closer EXCEPT ![k] = [pc |-> "detach", todo |-> transport.readers \cup transport.writers]]
  /\ UNCHANGED <<world, rd, dds, wr, shutting>>

\* The next state, a reader's first (in which order makes no difference): shut it
\* down if it is alive, and go on when that is done.
CloseNext(k) ==
  /\ closer[k].pc = "detach" /\ shutting[k] = None
  /\ \E e \in closer[k].todo :
       /\ e \in Readers \/ closer[k].todo \cap Readers = {}
       /\ \/ /\ e \in Readers /\ ReaderAlive(e)
             /\ Begin(k, e) /\ UNCHANGED <<dds, wr>>
          \/ /\ e \in Writers /\ WriterAlive(e)
             /\ ShutdownWriter(e, wr[e].pc) /\ UNCHANGED shutting
          \/ /\ ~(e \in Readers /\ ReaderAlive(e)) /\ ~(e \in Writers /\ WriterAlive(e))
             /\ UNCHANGED <<dds, wr, shutting>>
       /\ closer' = [closer EXCEPT ![k].todo = @ \ {e}]
  /\ UNCHANGED <<world, transport, lifecycle, rd>>

Detached(k) == closer[k].pc = "detach" /\ closer[k].todo = {} /\ shutting[k] = None

\* The topic, the publisher and subscriber and the participant are deleted.
CloseEnd(k) ==
  /\ Detached(k)
  /\ transport' = [transport EXCEPT !.participant = FALSE, !.closing = FALSE, !.topic = None]
  /\ lifecycle' = None
  /\ closer' = [closer EXCEPT ![k].pc = "idle"]
  /\ UNCHANGED <<world, rd, dds, wr, shutting>>
-----------------------------------------------------------------------------
\* What a thread inside a call does next.
ReaderStep(r) == LockEntity(r) \/ TakeFrom(r) \/ Counted(r) \/ ReadWakes(r)
ListenerStep(r) == OnDataAvailable(r) \/ CallbackReads(r) \/ CallbackReturns(r)
ShutdownStep(x) == SignalClosed(x) \/ LockShutdown(x) \/ Detach(x) \/ DeleteReader(x)
CloserStep(k) == CloseNext(k) \/ CloseEnd(k)

\* The calls that threads make when they choose to.
ReaderCall(r) ==
  CreateReader(r) \/ Read(r) \/ PendingMessageCount(r) \/ SetDataAvailableCallback(r) \/ DestroyReader(r)
WriterCall(w) == CreateWriter(w) \/ Write(w) \/ WaitForDelivery(w) \/ DestroyWriter(w)

Next ==
  \/ \E r \in Readers : ReaderCall(r) \/ ReaderStep(r) \/ ReadTimesOut(r) \/ ListenerStep(r) \/ Deliver(r) \/ Lose(r)
  \/ \E w \in Writers : WriterCall(w) \/ Delivered(w)
  \/ \E x \in Agents : ShutdownStep(x)
  \/ \E k \in Closers : Open(k) \/ Close(k) \/ CloserStep(k)

Spec == Init /\ [][Next]_vars

\* Threads inside a call go on, callbacks return, a wait for delivery ends, and a
\* mutex that is free again and again is acquired.
FairSpec ==
  /\ Spec
  /\ \A r \in Readers : WF_vars(ReaderStep(r))
  /\ WF_vars(\E r \in Readers : ListenerStep(r))
  /\ \A w \in Writers : WF_vars(Delivered(w))
  /\ SF_vars(\E x \in Agents : ShutdownStep(x))
  /\ SF_vars(\E k \in Closers : CloserStep(k))
-----------------------------------------------------------------------------
(* Properties *)

\* Whoever uses a DDS object finds it there: a DataReader while a thread is
\* inside a call on it or its listener runs (and the ReaderState the listener
\* belongs to), the topic and the participant while an endpoint is on them; and
\* a participant is deleted only when nothing is left in it.
EntitiesOutliveUse ==
  /\ \A r \in Readers :
       /\ rd[r].pc \in {"taking", "counting"} => dds[r].live
       /\ dds[r].listener # "off" => dds[r].live /\ ReaderAlive(r)
       /\ dds[r].live => transport.participant /\ transport.topic = world.message[r]
  /\ \A w \in Writers : wr[w].live => transport.participant /\ transport.topic = world.message[w]
  /\ \A k \in Closers : Detached(k) => ~TopicBusy

\* "timeout == 0 waits indefinitely": a Read that waits while its reader has data
\* was told of it, or is about to be, also when the data came between its look
\* and the wait.
ReadsTold ==
  \A r \in Readers :
    rd[r].pc = "wait" /\ HasData(r) =>
      rd[r].closed \/ rd[r].generation # rd[r].seen \/ dds[r].listener = "called"

\* Destroying a reader and closing the transport end, and end every blocked
\* Read, whatever listeners and other threads do with the reader: of the calls
\* made (finitely many, by MaxOpens) none goes on for ever.
ShuttingDown ==
  \/ \E x \in Agents : shutting[x] # None
  \/ \E k \in Closers : closer[k].pc = "detach"
  \/ \E r \in Readers : rd[r].pc = "wait" /\ rd[r].closed
ShutdownsEnd == ShuttingDown ~> ~ShuttingDown
=============================================================================
