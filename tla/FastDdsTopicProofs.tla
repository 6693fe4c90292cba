------------------------- MODULE FastDdsTopicProofs -------------------------
(***************************************************************************)
(* Proofs about FastDdsTopic for any readers, writers and closing threads: *)
(* DDS entities outlive their use, and no Read sleeps on data it was not   *)
(* told of.                                                                *)
(*                                                                         *)
(* A DataReader is deleted by the one thread that took it from its state,  *)
(* under shutdown_mutex, so a Close that waited for that mutex knows that  *)
(* it is gone; and every live entity is known to the transport, or to the  *)
(* Close that is on its way to it.                                         *)
(***************************************************************************)
EXTENDS FastDdsTopic, TLAPS

Inside == {"idle", "take", "count", "taking", "counting", "wait"}
ReaderRecords ==
  [pc : {"new", "gone", "destroyed"} \cup Inside, seen : Nat, closed : BOOLEAN, generation : Nat,
   callback : BOOLEAN, reader : BOOLEAN, entityMutex : Readers \cup {None}, shutdownMutex : Agents \cup {None}]
WriterRecords ==
  [pc : {"new", "gone", "idle", "delivering"}, live : BOOLEAN, mutex : Writers \cup {None}, writes : Nat]

\* The fields of a DataReader; its history and the samples sent to it are any.
DataReader(d) ==
  /\ d = [live |-> d.live, lock |-> d.lock, history |-> d.history, sent |-> d.sent, listener |-> d.listener]
  /\ d.live \in BOOLEAN

TypeOK ==
  /\ rd \in [Readers -> ReaderRecords]
  /\ dds = [r \in Readers |-> dds[r]] /\ \A r \in Readers : DataReader(dds[r])
  /\ wr \in [Writers -> WriterRecords]
  /\ shutting \in [Agents -> Shutdowns \cup {None}]
  /\ closer \in [Closers -> [pc : {"idle", "gone", "detach"}, todo : SUBSET Endpoints]]
  /\ \A e \in Endpoints : world.message[e] # None

\* Neither the transport's list nor its topic is typed: nothing depends on it.
TransportOK ==
  /\ transport = [participant |-> transport.participant, closing |-> transport.closing,
                  topic |-> transport.topic, readers |-> transport.readers,
                  writers |-> transport.writers, opens |-> transport.opens]
  /\ transport.closing \in BOOLEAN /\ transport.participant \in BOOLEAN
  /\ transport.readers \subseteq Readers /\ transport.writers \subseteq Writers
  /\ lifecycle \in Closers \cup {None}
  /\ transport.closing <=> lifecycle # None
  /\ \A k \in Closers : closer[k].pc = "detach" <=> lifecycle = k

\* A thread inside a DDS call has entity_mutex; only a shutdown takes the
\* DataReader away, after it said so.
ReaderOK(r) ==
  /\ rd[r].pc \in {"taking", "counting"} => rd[r].entityMutex = r /\ rd[r].reader
  /\ rd[r].reader => rd[r].pc \notin {"new", "gone"} /\ dds[r].live
  /\ rd[r].pc \notin {"new", "gone"} => rd[r].reader \/ rd[r].closed
  /\ rd[r].seen <= rd[r].generation

\* x is in the shutdown of r, at one of these steps.
Shutting(x, r, steps) == shutting[x] # None /\ shutting[x].of = r /\ shutting[x].step \in steps

ShutdownOf(x, r) ==
  /\ Shutting(x, r, {"signal", "lock", "detach", "delete"}) =>
       rd[r].pc # "new" /\ (x \in Readers => x = r /\ rd[r].pc = "destroyed")
  /\ Shutting(x, r, {"lock", "detach", "delete"}) => rd[r].closed
  /\ Shutting(x, r, {"detach", "delete"}) => rd[r].shutdownMutex = x
  /\ Shutting(x, r, {"delete"}) => ~rd[r].reader
ShutdownOK(x) == \A r \in Readers : ShutdownOf(x, r)

\* A DataReader belongs to its state, or to who is about to delete it, which
\* waits for its listener.
Owned(r) ==
  /\ dds[r].live => rd[r].reader \/ \E x \in Agents : Shutting(x, r, {"delete"}) /\ shutting[x].detached
  /\ dds[r].listener # "off" => dds[r].live /\ dds[r].lock = "listener"

\* The transport knows an endpoint, or the Close that is on its way to it does.
Known(e) ==
  IF transport.closing
  THEN e \in closer[lifecycle].todo \/ (shutting[lifecycle] # None /\ shutting[lifecycle].of = e)
  ELSE e \in transport.readers \cup transport.writers
OnTopic(e) == transport.participant /\ transport.topic = world.message[e] /\ Known(e)

Told(r) ==
  rd[r].pc = "wait" /\ HasData(r) =>
    rd[r].closed \/ rd[r].generation # rd[r].seen \/ dds[r].listener = "called"

TopicInv ==
  /\ TypeOK /\ TransportOK
  /\ \A r \in Readers : ReaderOK(r) /\ Owned(r) /\ Told(r) /\ (dds[r].live => OnTopic(r))
  /\ \A x \in Agents : ShutdownOK(x)
  /\ \A w \in Writers : wr[w].live => wr[w].pc \notin {"new", "gone"} /\ OnTopic(w)
-----------------------------------------------------------------------------
(* Steps that concern one reader only *)

\* A step of the thread that reads, of DDS or of the listener.
LocalStep(r) ==
  /\ UNCHANGED <<world, transport, lifecycle, wr, shutting, closer>>
  /\ rd' \in [Readers -> ReaderRecords]
  /\ dds' = [q \in Readers |-> dds'[q]] /\ DataReader(dds'[r])
  /\ \A q \in Readers \ {r} : rd'[q] = rd[q] /\ dds'[q] = dds[q]
  /\ rd'[r].reader = rd[r].reader /\ rd'[r].closed = rd[r].closed
  /\ rd'[r].shutdownMutex = rd[r].shutdownMutex
  /\ dds'[r].live = dds[r].live
  /\ rd'[r].pc = rd[r].pc \/ (rd[r].pc \in Inside /\ rd'[r].pc \in Inside)
  /\ rd'[r].pc \in {"taking", "counting"} => rd'[r].entityMutex = r /\ rd[r].reader
  /\ rd'[r].seen <= rd'[r].generation
  /\ dds'[r].listener # "off" => dds[r].live /\ dds'[r].lock = "listener"
  /\ Told(r)'

\* The parts of the invariant that name the shutdowns and the transport only.
LEMMA LocalKeeps == ASSUME TopicInv, NEW r \in Readers, LocalStep(r) PROVE TopicInv'
<1>0. /\ TypeOK /\ TransportOK
      /\ \A q \in Readers : ReaderOK(q) /\ Owned(q) /\ Told(q) /\ (dds[q].live => OnTopic(q))
      /\ \A x \in Agents : ShutdownOK(x)
      /\ \A w \in Writers : wr[w].live => wr[w].pc \notin {"new", "gone"} /\ OnTopic(w)
  BY DEF TopicInv
<1>1. /\ UNCHANGED <<world, transport, lifecycle, wr, shutting, closer>>
      /\ \A q \in Readers \ {r} : rd'[q] = rd[q] /\ dds'[q] = dds[q]
  BY DEF LocalStep
<1>2. \A q \in Readers : /\ rd'[q].reader = rd[q].reader /\ rd'[q].closed = rd[q].closed
                         /\ rd'[q].shutdownMutex = rd[q].shutdownMutex /\ dds'[q].live = dds[q].live
                         /\ rd'[q].pc = rd[q].pc \/ (rd[q].pc \in Inside /\ rd'[q].pc \in Inside)
  BY DEF LocalStep
<1>3. TypeOK'
  BY <1>0, <1>1 DEF TypeOK, LocalStep
<1>4. TransportOK'
  BY <1>0, <1>1 DEF TransportOK
<1>5. \A e : OnTopic(e) => OnTopic(e)'
  BY <1>1 DEF OnTopic, Known
<1>6. \A q \in Readers : ReaderOK(q)'
  <2>1. ReaderOK(r)'
    BY <1>0, <1>2 DEF ReaderOK, LocalStep, Inside
  <2>2. \A q \in Readers \ {r} : ReaderOK(q)'
    BY <1>0, <1>1 DEF ReaderOK
  <2> QED BY <2>1, <2>2
<1>7. \A q \in Readers : Owned(q)' /\ (dds'[q].live => OnTopic(q)')
  <2>1. \A q \in Readers : dds'[q].live => rd'[q].reader \/ \E x \in Agents : Shutting(x, q, {"delete"})' /\ shutting'[x].detached
    BY <1>0, <1>1, <1>2 DEF Owned, Shutting
  <2>2. \A q \in Readers : dds'[q].listener # "off" => dds'[q].live /\ dds'[q].lock = "listener"
    <3>1. ASSUME NEW q \in Readers, q # r PROVE dds'[q].listener # "off" => dds'[q].live /\ dds'[q].lock = "listener"
      BY <1>0, <1>1, <3>1 DEF Owned
    <3>2. dds'[r].listener # "off" => dds'[r].live /\ dds'[r].lock = "listener"
      BY DEF LocalStep
    <3> QED BY <3>1, <3>2
  <2> QED BY <1>0, <1>2, <1>5, <2>1, <2>2 DEF Owned
<1>8. \A q \in Readers : Told(q)'
  BY <1>0, <1>1 DEF LocalStep, Told, HasData
<1>9. \A x \in Agents : ShutdownOK(x)'
  BY <1>0, <1>1, <1>2 DEF ShutdownOK, ShutdownOf, Shutting, Inside
<1>10. \A w \in Writers : wr'[w].live => wr'[w].pc \notin {"new", "gone"} /\ OnTopic(w)'
  BY <1>0, <1>1, <1>5
<1> QED BY <1>3, <1>4, <1>6, <1>7, <1>8, <1>9, <1>10 DEF TopicInv

\* A step of the thread that reads: it goes on, perhaps to a wait, which it
\* enters without data or after it was told that the reader is closed.
LEMMA ReadLocal ==
  ASSUME TopicInv, NEW r \in Readers, NEW to \in Inside, NEW rec \in ReaderRecords,
         UNCHANGED <<world, transport, lifecycle, wr, shutting, closer>>,
         rd' = [rd EXCEPT ![r] = rec], rd[r].pc \in Inside,
         rec.pc = to, rec.reader = rd[r].reader, rec.closed = rd[r].closed,
         rec.shutdownMutex = rd[r].shutdownMutex, rec.generation = rd[r].generation,
         rec.seen \in {rd[r].seen, rd[r].generation},
         to \in {"taking", "counting"} => rec.entityMutex = r /\ rd[r].reader,
         to = "wait" => rd[r].closed \/ ~HasData(r)',
         dds' = dds \/ \E h : dds' = [dds EXCEPT ![r].history = h]
  PROVE  LocalStep(r)
<1>0. TypeOK /\ ReaderOK(r) /\ Owned(r)
  BY DEF TopicInv
<1>1. rd'[r] = rec /\ rd' \in [Readers -> ReaderRecords] /\ \A q \in Readers \ {r} : rd'[q] = rd[q]
  BY <1>0 DEF TypeOK
<1>2. /\ dds' = [q \in Readers |-> dds'[q]] /\ DataReader(dds'[r])
      /\ \A q \in Readers \ {r} : dds'[q] = dds[q]
      /\ dds'[r].live = dds[r].live /\ dds'[r].listener = dds[r].listener /\ dds'[r].lock = dds[r].lock
  <2>1. CASE dds' = dds
    BY <1>0, <2>1 DEF TypeOK
  <2>2. ASSUME NEW h, dds' = [dds EXCEPT ![r].history = h] PROVE <1>2!:
    <3> DEFINE d == dds[r]
    <3>1. /\ DataReader(d) /\ dds = [q \in Readers |-> dds[q]]
      BY <1>0 DEF TypeOK
    <3>2. dds'[r] = [d EXCEPT !.history = h] /\ dds' = [q \in Readers |-> dds'[q]]
          /\ \A q \in Readers \ {r} : dds'[q] = dds[q]
      BY <2>2, <3>1
    <3> HIDE DEF d
    <3>3. dds'[r] = [live |-> d.live, lock |-> d.lock, history |-> h, sent |-> d.sent, listener |-> d.listener]
      BY <3>1, <3>2 DEF DataReader
    <3> QED BY <3>1, <3>2, <3>3 DEF DataReader, d
  <2> QED BY <2>1, <2>2
<1>3. rec.seen <= rec.generation
  <2>1. rd[r].seen \in Nat /\ rd[r].generation \in Nat
    BY <1>0 DEF TypeOK, ReaderRecords
  <2> QED BY <1>0, <2>1 DEF ReaderOK
<1>4. Told(r)'
  BY <1>1 DEF Told
<1> QED BY <1>0, <1>1, <1>2, <1>3, <1>4 DEF LocalStep, Owned

\* Read, PendingMessageCount and SetDataAvailableCallback, step by step.
LEMMA ReadingKeeps ==
  ASSUME TopicInv, NEW r \in Readers,
         \/ Read(r) \/ PendingMessageCount(r) \/ LockEntity(r) \/ TakeFrom(r) \/ Counted(r)
         \/ ReadWakes(r) \/ ReadTimesOut(r) \/ SetDataAvailableCallback(r)
  PROVE  TopicInv'
<1>0. /\ TypeOK /\ ReaderOK(r) /\ Owned(r) /\ Told(r)
      /\ rd \in [Readers -> ReaderRecords] /\ rd[r] \in ReaderRecords
      /\ rd[r].generation \in Nat
  BY DEF TopicInv, TypeOK, ReaderRecords
<1>1. /\ UNCHANGED <<world, transport, lifecycle, wr, shutting, closer>> /\ rd[r].pc \in Inside
  BY DEF Read, PendingMessageCount, LockEntity, TakeFrom, Counted, ReadWakes, ReadTimesOut,
         SetDataAvailableCallback, Inside
<1>2. ASSUME NEW to \in Inside, NEW rec \in ReaderRecords,
             rd' = [rd EXCEPT ![r] = rec],
             rec.pc = to, rec.reader = rd[r].reader, rec.closed = rd[r].closed,
             rec.shutdownMutex = rd[r].shutdownMutex, rec.generation = rd[r].generation,
             rec.seen \in {rd[r].seen, rd[r].generation},
             to \in {"taking", "counting"} => rec.entityMutex = r /\ rd[r].reader,
             to = "wait" => rd[r].closed \/ ~HasData(r)',
             dds' = dds \/ \E h : dds' = [dds EXCEPT ![r].history = h]
      PROVE  TopicInv'
  BY <1>1, <1>2, ReadLocal, LocalKeeps
<1>3. ASSUME NEW to \in Inside \ {"taking", "counting"}, rd' = [rd EXCEPT ![r].pc = to],
             to = "wait" => rd[r].closed \/ ~HasData(r)', dds' = dds
      PROVE  TopicInv'
  <2> DEFINE rec == [rd[r] EXCEPT !.pc = to]
  <2>1. rd' = [rd EXCEPT ![r] = rec]
    BY <1>0, <1>3
  <2>2. /\ rec \in ReaderRecords
        /\ rec.pc = to /\ rec.reader = rd[r].reader /\ rec.closed = rd[r].closed
        /\ rec.shutdownMutex = rd[r].shutdownMutex /\ rec.generation = rd[r].generation
        /\ rec.seen = rd[r].seen
    BY <1>0 DEF ReaderRecords
  <2> HIDE DEF rec
  <2> QED BY <1>2, <1>3, <2>1, <2>2
<1>4. ASSUME NEW to \in Inside \ {"taking", "counting"},
             rd' = [rd EXCEPT ![r].pc = to, ![r].entityMutex = None],
             to = "wait" => rd[r].closed \/ ~HasData(r)',
             dds' = dds \/ \E h : dds' = [dds EXCEPT ![r].history = h]
      PROVE  TopicInv'
  <2> DEFINE rec == [rd[r] EXCEPT !.pc = to, !.entityMutex = None]
  <2>1. rd' = [rd EXCEPT ![r] = rec]
    BY <1>0, <1>4
  <2>2. /\ rec \in ReaderRecords
        /\ rec.pc = to /\ rec.reader = rd[r].reader /\ rec.closed = rd[r].closed
        /\ rec.shutdownMutex = rd[r].shutdownMutex /\ rec.generation = rd[r].generation
        /\ rec.seen = rd[r].seen
    BY <1>0 DEF ReaderRecords
  <2> HIDE DEF rec
  <2> QED BY <1>2, <1>4, <2>1, <2>2
<1>5. CASE Read(r) \/ ReadWakes(r)
  <2>1. Observe(r) /\ dds' = dds
    BY <1>5 DEF Read, ReadWakes
  <2>2. CASE rd[r].closed
    <3>1. rd' = [rd EXCEPT ![r].pc = "idle"] /\ "idle" \in Inside \ {"taking", "counting"} /\ "idle" # "wait"
      BY <2>1, <2>2 DEF Observe, Inside
    <3> QED BY <1>3, <2>1, <3>1
  <2>3. CASE ~rd[r].closed
    <3> DEFINE rec == [rd[r] EXCEPT !.pc = "take", !.seen = rd[r].generation]
    <3>1. rd' = [rd EXCEPT ![r] = rec] /\ "take" \in Inside
      BY <1>0, <2>1, <2>3 DEF Observe, Inside
    <3>2. /\ rec \in ReaderRecords
          /\ rec.pc = "take" /\ rec.reader = rd[r].reader /\ rec.closed = rd[r].closed
          /\ rec.shutdownMutex = rd[r].shutdownMutex /\ rec.generation = rd[r].generation
          /\ rec.seen = rd[r].generation
      BY <1>0 DEF ReaderRecords, Inside
    <3> HIDE DEF rec
    <3> QED BY <1>2, <2>1, <3>1, <3>2
  <2> QED BY <2>2, <2>3
<1>6. CASE PendingMessageCount(r) \/ ReadTimesOut(r)
  <2>1. PICK to \in {"count", "idle"} : rd' = [rd EXCEPT ![r].pc = to] /\ dds' = dds
    BY <1>6 DEF PendingMessageCount, ReadTimesOut
  <2>2. to \in Inside \ {"taking", "counting"} /\ to # "wait"
    BY DEF Inside
  <2> QED BY <1>3, <2>1, <2>2
<1>7. CASE SetDataAvailableCallback(r)
  <2> DEFINE rec == [rd[r] EXCEPT !.callback = TRUE]
  <2>1. rd' = [rd EXCEPT ![r] = rec] /\ rd[r].pc = "idle" /\ dds' = dds /\ "idle" \in Inside
    BY <1>0, <1>7 DEF SetDataAvailableCallback, Inside
  <2>2. /\ rec \in ReaderRecords
        /\ rec.pc = rd[r].pc /\ rec.reader = rd[r].reader /\ rec.closed = rd[r].closed
        /\ rec.shutdownMutex = rd[r].shutdownMutex /\ rec.generation = rd[r].generation
        /\ rec.seen = rd[r].seen
    BY <1>0 DEF ReaderRecords
  <2> HIDE DEF rec
  <2> QED BY <1>2, <2>1, <2>2
<1>8. CASE LockEntity(r)
  <2>1. dds' = dds /\ rd[r].pc \in {"take", "count"}
    BY <1>8 DEF LockEntity
  <2>2. CASE rd[r].reader
    <3>1. PICK to \in {"taking", "counting"} : rd' = [rd EXCEPT ![r].pc = to, ![r].entityMutex = r]
      BY <1>8, <2>2 DEF LockEntity
    <3> DEFINE rec == [rd[r] EXCEPT !.pc = to, !.entityMutex = r]
    <3>2. rd' = [rd EXCEPT ![r] = rec] /\ to \in Inside /\ to # "wait"
      BY <1>0, <3>1 DEF Inside
    <3>3. /\ rec \in ReaderRecords
          /\ rec.pc = to /\ rec.reader = rd[r].reader /\ rec.closed = rd[r].closed
          /\ rec.shutdownMutex = rd[r].shutdownMutex /\ rec.generation = rd[r].generation
          /\ rec.seen = rd[r].seen /\ rec.entityMutex = r
      BY <1>0 DEF ReaderRecords, Inside
    <3> HIDE DEF rec
    <3> QED BY <1>2, <2>1, <2>2, <3>2, <3>3
  <2>3. CASE ~rd[r].reader
    <3>1. rd[r].closed
      BY <1>0, <2>1, <2>3 DEF ReaderOK
    <3>2. PICK to \in {"idle", "wait"} :
            \/ rd' = [rd EXCEPT ![r].pc = to, ![r].entityMutex = None]
            \/ rd' = [rd EXCEPT ![r].pc = to]
      BY <1>8, <2>3 DEF LockEntity, NoneTaken
    <3>3. to \in Inside \ {"taking", "counting"}
      BY DEF Inside
    <3> QED BY <1>3, <1>4, <2>1, <3>1, <3>2, <3>3
  <2> QED BY <2>2, <2>3
<1>9. CASE TakeFrom(r)
  <2>1. dds' = [dds EXCEPT ![r].history = AfterTake(r)]
    BY <1>9 DEF TakeFrom
  <2>2. CASE HasData(r)
    <3>1. rd' = [rd EXCEPT ![r].pc = "idle", ![r].entityMutex = None]
      BY <1>9, <2>2 DEF TakeFrom
    <3>2. "idle" \in Inside \ {"taking", "counting"} /\ "idle" # "wait"
      BY DEF Inside
    <3> QED BY <1>4, <2>1, <3>1, <3>2
  <2>3. CASE ~HasData(r)
    <3>1. PICK to \in {"idle", "wait"} : rd' = [rd EXCEPT ![r].pc = to, ![r].entityMutex = None]
      BY <1>9, <2>3 DEF TakeFrom, NoneTaken
    <3>2. dds'[r].history = << >>
      <4>1. /\ DataReader(dds[r]) /\ dds = [q \in Readers |-> dds[q]] /\ AfterTake(r) = << >>
        BY <1>0, <2>3 DEF TypeOK, AfterTake
      <4> QED BY <2>1, <4>1 DEF DataReader
    <3>3. ~HasData(r)'
      BY <3>2 DEF HasData
    <3>4. to \in Inside \ {"taking", "counting"}
      BY DEF Inside
    <3> QED BY <1>4, <2>1, <3>1, <3>3, <3>4
  <2> QED BY <2>2, <2>3
<1>10. CASE Counted(r)
  <2>1. rd' = [rd EXCEPT ![r].pc = "idle", ![r].entityMutex = None] /\ dds' = dds
    BY <1>10 DEF Counted
  <2>2. "idle" \in Inside \ {"taking", "counting"} /\ "idle" # "wait"
    BY DEF Inside
  <2> QED BY <1>4, <2>1, <2>2
<1> QED BY <1>5, <1>6, <1>7, <1>8, <1>9, <1>10

\* Only the DataReader of r changes, to e.
Becomes(r, e) ==
  /\ dds'[r] = e /\ dds' = [q \in Readers |-> dds'[q]]
  /\ \A q \in Readers \ {r} : dds'[q] = dds[q]

\* DDS delivers or loses a sample; the listener runs and returns.
LEMMA ListenerKeeps ==
  ASSUME TopicInv, NEW r \in Readers,
         Deliver(r) \/ Lose(r) \/ OnDataAvailable(r) \/ CallbackReads(r) \/ CallbackReturns(r)
  PROVE  TopicInv'
<1> DEFINE d == dds[r]
<1>0. /\ rd \in [Readers -> ReaderRecords] /\ rd[r].generation \in Nat /\ rd[r].seen \in Nat
      /\ ReaderOK(r) /\ Owned(r) /\ Told(r)
      /\ DataReader(d) /\ dds = [q \in Readers |-> dds[q]]
      /\ UNCHANGED <<world, transport, lifecycle, wr, shutting, closer>>
  BY DEF TopicInv, TypeOK, ReaderRecords, Deliver, Lose, OnDataAvailable, CallbackReads, CallbackReturns
<1>1. ASSUME NEW e, Becomes(r, e), DataReader(e), e.live = d.live,
             e.listener # "off" => d.live /\ e.lock = "listener",
             rd' = rd \/ rd' = [rd EXCEPT ![r].generation = @ + 1], Told(r)'
      PROVE  TopicInv'
  <2>1. dds'[r] = e /\ dds' = [q \in Readers |-> dds'[q]] /\ \A q \in Readers \ {r} : dds'[q] = dds[q]
    BY <1>1 DEF Becomes
  <2>2. /\ rd' \in [Readers -> ReaderRecords] /\ \A q \in Readers \ {r} : rd'[q] = rd[q]
        /\ rd'[r].reader = rd[r].reader /\ rd'[r].closed = rd[r].closed /\ rd'[r].pc = rd[r].pc
        /\ rd'[r].shutdownMutex = rd[r].shutdownMutex /\ rd'[r].entityMutex = rd[r].entityMutex
        /\ rd'[r].seen <= rd'[r].generation
    <3>1. CASE rd' = rd
      BY <1>0, <3>1 DEF ReaderOK
    <3>2. CASE rd' = [rd EXCEPT ![r].generation = @ + 1]
      BY <1>0, <3>2 DEF ReaderOK, ReaderRecords
    <3> QED BY <1>1, <3>1, <3>2
  <2>3. LocalStep(r)
    BY <1>0, <1>1, <2>1, <2>2 DEF LocalStep, ReaderOK
  <2> QED BY <2>3, LocalKeeps
<1>2. CASE Deliver(r)
  <2>1. PICK stored, rest :
          dds' = [dds EXCEPT ![r].history = stored, ![r].sent = rest,
                             ![r].lock = "listener", ![r].listener = "called"]
    BY <1>2, Zenon DEF Deliver
  <2> DEFINE e == [live |-> d.live, lock |-> "listener", history |-> stored, sent |-> rest, listener |-> "called"]
  <2>2. Becomes(r, e)
    BY <1>0, <2>1 DEF Becomes, DataReader
  <2>3. rd' = rd /\ d.live
    BY <1>2 DEF Deliver
  <2>4. DataReader(e) /\ e.live = d.live /\ e.lock = "listener" /\ e.listener = "called"
    BY <1>0 DEF DataReader
  <2> HIDE DEF e, d
  <2>5. Told(r)'
    BY <2>2, <2>4 DEF Told, Becomes
  <2> QED BY <1>1, <2>2, <2>3, <2>4, <2>5
<1>3. CASE Lose(r)
  <2>1. PICK rest : dds' = [dds EXCEPT ![r].sent = rest]
    BY <1>3, Zenon DEF Lose
  <2> DEFINE e == [live |-> d.live, lock |-> d.lock, history |-> d.history, sent |-> rest, listener |-> d.listener]
  <2>2. Becomes(r, e)
    BY <1>0, <2>1 DEF Becomes, DataReader
  <2>3. rd' = rd
    BY <1>3 DEF Lose
  <2>4. /\ DataReader(e) /\ e.live = d.live /\ e.lock = d.lock /\ e.listener = d.listener
        /\ e.history = d.history
    BY <1>0 DEF DataReader
  <2> HIDE DEF e
  <2>5. Told(r)'
    BY <1>0, <2>2, <2>3, <2>4 DEF Told, HasData, Becomes
  <2> QED BY <1>0, <1>1, <2>2, <2>3, <2>4, <2>5 DEF Owned
<1>4. CASE OnDataAvailable(r)
  <2>1. d.listener = "called" /\ d.live /\ d.lock = "listener"
    BY <1>0, <1>4 DEF OnDataAvailable, Owned
  <2>2. PICK lock \in {None, "listener"}, listener \in {"off", "read", "return"} :
          /\ Becomes(r, [live |-> d.live, lock |-> lock, history |-> d.history, sent |-> d.sent, listener |-> listener])
          /\ listener # "off" => lock = "listener"
    <3>1. CASE ~rd[r].closed /\ rd[r].callback
      <4>1. PICK listener \in {"read", "return"} : dds' = [dds EXCEPT ![r].listener = listener]
        BY <1>4, <3>1 DEF OnDataAvailable
      <4>2. Becomes(r, [live |-> d.live, lock |-> d.lock, history |-> d.history, sent |-> d.sent, listener |-> listener])
        BY <1>0, <4>1 DEF Becomes, DataReader
      <4> QED BY <2>1, <4>2
    <3>2. CASE ~(~rd[r].closed /\ rd[r].callback)
      <4>1. dds' = [dds EXCEPT ![r].lock = None, ![r].listener = "off"]
        BY <1>4, <3>2 DEF OnDataAvailable, ListenerReturns
      <4>2. Becomes(r, [live |-> d.live, lock |-> None, history |-> d.history, sent |-> d.sent, listener |-> "off"])
        BY <1>0, <4>1 DEF Becomes, DataReader
      <4> QED BY <4>2
    <3> QED BY <3>1, <3>2
  <2> DEFINE e == [live |-> d.live, lock |-> lock, history |-> d.history, sent |-> d.sent, listener |-> listener]
  <2>3. DataReader(e) /\ e.live = d.live /\ e.lock = lock /\ e.listener = listener
    BY <1>0 DEF DataReader
  <2>4. Becomes(r, e)
    BY <2>2
  <2> HIDE DEF e
  <2>5. rd' = IF rd[r].closed THEN rd ELSE [rd EXCEPT ![r].generation = @ + 1]
    BY <1>4 DEF OnDataAvailable
  <2>6. Told(r)'
    <3>1. CASE rd[r].closed
      BY <2>5, <3>1 DEF Told
    <3>2. CASE ~rd[r].closed
      <4>1. rd'[r].generation = rd[r].generation + 1 /\ rd'[r].seen = rd[r].seen
        BY <1>0, <2>5, <3>2 DEF ReaderRecords
      <4>2. rd'[r].generation # rd'[r].seen
        BY <1>0, <4>1 DEF ReaderOK
      <4> QED BY <4>2 DEF Told
    <3> QED BY <3>1, <3>2
  <2> QED BY <1>1, <2>1, <2>2, <2>3, <2>4, <2>5, <2>6
<1>5. CASE CallbackReads(r)
  <2>1. PICK h : /\ dds' = [dds EXCEPT ![r].history = h, ![r].listener = "return"]
                 /\ ~HasData(r) => h = d.history \/ h = << >>
    <3> DEFINE h == IF rd[r].closed THEN d.history ELSE AfterTake(r)
    <3>1. dds' = [dds EXCEPT ![r].history = h, ![r].listener = "return"]
      BY <1>5, Zenon DEF CallbackReads
    <3>2. ~HasData(r) => h = d.history \/ h = << >>
      BY DEF AfterTake
    <3> HIDE DEF h
    <3> QED BY <3>1, <3>2
  <2> DEFINE e == [live |-> d.live, lock |-> d.lock, history |-> h, sent |-> d.sent, listener |-> "return"]
  <2>2. Becomes(r, e)
    BY <1>0, <2>1 DEF Becomes, DataReader
  <2>3. rd' = rd /\ d.listener = "read"
    BY <1>5 DEF CallbackReads
  <2>4. DataReader(e) /\ e.live = d.live /\ e.lock = d.lock /\ e.listener = "return" /\ e.history = h
    BY <1>0 DEF DataReader
  <2> HIDE DEF e
  <2>5. HasData(r)' => HasData(r)
    BY <2>1, <2>2, <2>4 DEF HasData, Becomes
  <2>6. Told(r)'
    BY <1>0, <2>3, <2>5 DEF Told
  <2> QED BY <1>0, <1>1, <2>2, <2>3, <2>4, <2>6 DEF Owned
<1>6. CASE CallbackReturns(r)
  <2>1. dds' = [dds EXCEPT ![r].lock = None, ![r].listener = "off"] /\ rd' = rd /\ d.listener = "return"
    BY <1>6 DEF CallbackReturns, ListenerReturns
  <2> DEFINE e == [live |-> d.live, lock |-> None, history |-> d.history, sent |-> d.sent, listener |-> "off"]
  <2>2. Becomes(r, e)
    BY <1>0, <2>1 DEF Becomes, DataReader
  <2>3. DataReader(e) /\ e.live = d.live /\ e.listener = "off" /\ e.history = d.history
    BY <1>0 DEF DataReader
  <2> HIDE DEF e
  <2>4. Told(r)'
    BY <1>0, <2>1, <2>2, <2>3 DEF Told, HasData, Becomes
  <2> QED BY <1>1, <2>1, <2>2, <2>3, <2>4
<1> QED BY <1>2, <1>3, <1>4, <1>5, <1>6
-----------------------------------------------------------------------------
(* Writers *)

\* Samples are sent to DataReaders, and nothing else about them changes.
SentOnly ==
  /\ dds' = [r \in Readers |-> dds'[r]]
  /\ \A r \in Readers : /\ DataReader(dds'[r])
                        /\ dds'[r].live = dds[r].live /\ dds'[r].lock = dds[r].lock
                        /\ dds'[r].history = dds[r].history /\ dds'[r].listener = dds[r].listener

\* What a write or the end of a writer does to the readers.
LEMMA SentKeeps ==
  ASSUME TypeOK, NEW w, NEW sample, dds' = dds \/ dds' = Sent(w, sample)
  PROVE  SentOnly
<1>0. dds = [r \in Readers |-> dds[r]] /\ \A r \in Readers : DataReader(dds[r])
  BY DEF TypeOK
<1>1. CASE dds' = dds
  BY <1>0, <1>1 DEF SentOnly
<1>2. CASE dds' = Sent(w, sample)
  <2>1. dds' = [r \in Readers |-> dds'[r]]
    BY <1>2 DEF Sent
  <2>2. ASSUME NEW r \in Readers
        PROVE  /\ DataReader(dds'[r])
               /\ dds'[r].live = dds[r].live /\ dds'[r].lock = dds[r].lock
               /\ dds'[r].history = dds[r].history /\ dds'[r].listener = dds[r].listener
    <3> DEFINE d == dds[r]
    <3>1. DataReader(d)
      BY <1>0
    <3>2. PICK more : dds'[r] = d \/ dds'[r] = [d EXCEPT !.sent = more]
      BY <1>2 DEF Sent
    <3> HIDE DEF d
    <3>3. /\ DataReader(dds'[r])
          /\ dds'[r].live = d.live /\ dds'[r].lock = d.lock
          /\ dds'[r].history = d.history /\ dds'[r].listener = d.listener
      BY <3>1, <3>2 DEF DataReader
    <3> QED BY <3>3 DEF d
  <2> QED BY <2>1, <2>2 DEF SentOnly
<1> QED BY <1>1, <1>2

\* The readers are as they were but for samples sent to them.
LEMMA ReadersKeep ==
  ASSUME TopicInv, SentOnly, rd' = rd, shutting' = shutting, NEW r \in Readers
  PROVE  ReaderOK(r)' /\ Owned(r)' /\ Told(r)'
<1>0. ReaderOK(r) /\ Owned(r) /\ Told(r)
  BY DEF TopicInv
<1>1. /\ dds'[r].live = dds[r].live /\ dds'[r].lock = dds[r].lock
      /\ dds'[r].history = dds[r].history /\ dds'[r].listener = dds[r].listener
  BY DEF SentOnly
<1>2. ReaderOK(r)'
  BY <1>0, <1>1 DEF ReaderOK
<1>3. Owned(r)'
  BY <1>0, <1>1 DEF Owned, Shutting
<1>4. Told(r)'
  BY <1>0, <1>1 DEF Told, HasData
<1> QED BY <1>2, <1>3, <1>4

\* Write, WaitForDelivery and its end, and the destruction of a writer.
LEMMA WriterKeeps ==
  ASSUME TopicInv, NEW w \in Writers, Write(w) \/ WaitForDelivery(w) \/ Delivered(w) \/ DestroyWriter(w)
  PROVE  TopicInv'
<1>0. /\ TypeOK /\ TransportOK
      /\ wr \in [Writers -> WriterRecords] /\ wr[w] \in WriterRecords
      /\ \A r \in Readers : dds[r].live => OnTopic(r)
      /\ \A x \in Agents : ShutdownOK(x)
      /\ \A v \in Writers : wr[v].live => wr[v].pc \notin {"new", "gone"} /\ OnTopic(v)
  BY DEF TopicInv, TypeOK
<1>1. /\ UNCHANGED <<world, transport, lifecycle, rd, shutting, closer>>
      /\ \E sample : dds' = dds \/ dds' = Sent(w, sample)
  BY DEF Write, WaitForDelivery, Delivered, DestroyWriter, ShutdownWriter
<1>2. SentOnly
  BY <1>0, <1>1, SentKeeps
<1>3. /\ wr' \in [Writers -> WriterRecords] /\ \A u \in Writers \ {w} : wr'[u] = wr[u]
      /\ wr'[w].live => wr[w].live /\ wr'[w].pc \notin {"new", "gone"}
  <2> DEFINE v == wr[w]
  <2>0. /\ v.live \in BOOLEAN /\ v.mutex \in Writers \cup {None} /\ v.writes \in Nat
        /\ v.pc \in {"new", "gone", "idle", "delivering"}
        /\ v = [pc |-> v.pc, live |-> v.live, mutex |-> v.mutex, writes |-> v.writes]
        /\ v.writes + 1 \in Nat
    BY <1>0 DEF WriterRecords
  <2>1. CASE Write(w)
    <3>1. v.pc = "idle" /\ wr' = [wr EXCEPT ![w].writes = @ + 1]
      BY <2>1 DEF Write
    <3>2. wr'[w] = [pc |-> "idle", live |-> v.live, mutex |-> v.mutex, writes |-> v.writes + 1]
      BY <1>0, <2>0, <3>1
    <3> QED BY <1>0, <2>0, <3>1, <3>2 DEF WriterRecords
  <2>2. CASE WaitForDelivery(w)
    <3>1. wr' = [wr EXCEPT ![w].pc = "delivering", ![w].mutex = w]
      BY <2>2 DEF WaitForDelivery
    <3>2. wr'[w] = [pc |-> "delivering", live |-> v.live, mutex |-> w, writes |-> v.writes]
      BY <1>0, <2>0, <3>1
    <3> QED BY <1>0, <2>0, <3>1, <3>2 DEF WriterRecords
  <2>3. CASE Delivered(w)
    <3>1. wr' = [wr EXCEPT ![w].pc = "idle", ![w].mutex = None]
      BY <2>3 DEF Delivered
    <3>2. wr'[w] = [pc |-> "idle", live |-> v.live, mutex |-> None, writes |-> v.writes]
      BY <1>0, <2>0, <3>1
    <3> QED BY <1>0, <2>0, <3>1, <3>2 DEF WriterRecords
  <2>4. CASE DestroyWriter(w)
    <3>1. wr' = [wr EXCEPT ![w].live = FALSE, ![w].pc = "gone"]
      BY <2>4 DEF DestroyWriter, ShutdownWriter
    <3>2. wr'[w] = [pc |-> "gone", live |-> FALSE, mutex |-> v.mutex, writes |-> v.writes]
      BY <1>0, <2>0, <3>1
    <3> QED BY <1>0, <2>0, <3>1, <3>2 DEF WriterRecords
  <2> QED BY <2>1, <2>2, <2>3, <2>4
<1>5. \A v \in Writers : wr'[v].live => wr[v].live /\ wr'[v].pc \notin {"new", "gone"}
  BY <1>0, <1>3
<1>6. TypeOK'
  BY <1>0, <1>1, <1>2, <1>3 DEF TypeOK, SentOnly
<1>7. TransportOK'
  BY <1>0, <1>1 DEF TransportOK
<1>8. \A e : OnTopic(e) => OnTopic(e)'
  BY <1>1 DEF OnTopic, Known
<1>9. \A r \in Readers : dds'[r].live => OnTopic(r)'
  BY <1>0, <1>2, <1>8 DEF SentOnly
<1>10. \A x \in Agents : ShutdownOK(x)'
  BY <1>0, <1>1 DEF ShutdownOK, ShutdownOf, Shutting
<1>11. \A v \in Writers : wr'[v].live => wr'[v].pc \notin {"new", "gone"} /\ OnTopic(v)'
  BY <1>0, <1>5, <1>8
<1>12. \A r \in Readers : ReaderOK(r)' /\ Owned(r)' /\ Told(r)'
  BY <1>1, <1>2, ReadersKeep
<1> QED BY <1>6, <1>7, <1>9, <1>10, <1>11, <1>12 DEF TopicInv
-----------------------------------------------------------------------------
(* ReaderState::Shutdown *)

\* Only the shutdown that x is in changes, to next.
Moves(x, next) ==
  /\ shutting'[x] = next /\ shutting' = [y \in Agents |-> shutting'[y]]
  /\ \A y \in Agents \ {x} : shutting'[y] = shutting[y]

\* A step of x in the shutdown of r, after which x is at `next`: only r can be
\* worse off.
LEMMA ShutdownLocal ==
  ASSUME TopicInv, NEW x \in Agents, NEW r \in Readers,
         shutting[x] # None => shutting[x].of = r,
         UNCHANGED <<world, transport, lifecycle, wr, closer>>,
         rd' \in [Readers -> ReaderRecords], \A q \in Readers \ {r} : rd'[q] = rd[q],
         dds' = [q \in Readers |-> dds'[q]], DataReader(dds'[r]),
         \A q \in Readers \ {r} : dds'[q] = dds[q],
         NEW next \in Shutdowns \cup {None},
         Moves(x, next), next # None => next.of = r,
         dds'[r].live => dds[r].live /\ next # None,
         ReaderOK(r)', Owned(r)', Told(r)', \A y \in Agents : ShutdownOf(y, r)'
  PROVE  TopicInv'
<1>0. /\ TypeOK /\ TransportOK
      /\ \A q \in Readers : ReaderOK(q) /\ Owned(q) /\ Told(q) /\ (dds[q].live => OnTopic(q))
      /\ \A y \in Agents : ShutdownOK(y)
      /\ \A w \in Writers : wr[w].live => wr[w].pc \notin {"new", "gone"} /\ OnTopic(w)
      /\ shutting \in [Agents -> Shutdowns \cup {None}]
  BY DEF TopicInv, TypeOK
<1>1. /\ shutting'[x] = next /\ shutting' \in [Agents -> Shutdowns \cup {None}]
      /\ \A y \in Agents \ {x} : shutting'[y] = shutting[y]
  BY <1>0 DEF Moves
<1>2. TypeOK'
  BY <1>0, <1>1 DEF TypeOK
<1>3. TransportOK'
  BY <1>0 DEF TransportOK
<1>4. \A e : OnTopic(e) /\ (e # r \/ next # None) => OnTopic(e)'
  <2>1. transport.closing => lifecycle \in Agents
    BY <1>0 DEF TransportOK, Agents
  <2> QED BY <1>1, <2>1 DEF OnTopic, Known
<1>5. \A q \in Readers : dds'[q].live => OnTopic(q)'
  BY <1>0, <1>4
<1>6. \A w \in Writers : wr'[w].live => wr'[w].pc \notin {"new", "gone"} /\ OnTopic(w)'
  <2>1. \A w \in Writers : w # r
    BY FastDdsAssumption
  <2> QED BY <1>0, <1>4, <2>1
<1>7. ASSUME NEW q \in Readers, q # r PROVE ReaderOK(q)' /\ Owned(q)' /\ Told(q)'
  <2>1. rd'[q] = rd[q] /\ dds'[q] = dds[q] /\ ReaderOK(q) /\ Owned(q) /\ Told(q)
    BY <1>0, <1>7
  <2>2. ReaderOK(q)' /\ Told(q)'
    BY <2>1 DEF ReaderOK, Told, HasData
  <2>3. \A y \in Agents : Shutting(y, q, {"delete"}) /\ shutting[y].detached
                            => Shutting(y, q, {"delete"})' /\ shutting'[y].detached
    BY <1>1, <1>7 DEF Shutting
  <2>4. Owned(q)'
    BY <2>1, <2>3 DEF Owned
  <2> QED BY <2>2, <2>4
<1>8. ASSUME NEW y \in Agents, NEW q \in Readers, q # r PROVE ShutdownOf(y, q)'
  <2>1. rd'[q] = rd[q] /\ ShutdownOf(y, q)
    BY <1>0, <1>8 DEF ShutdownOK
  <2>2. ASSUME NEW steps PROVE Shutting(y, q, steps)' => Shutting(y, q, steps)
    BY <1>1, <1>8 DEF Shutting
  <2> QED BY <2>1, <2>2 DEF ShutdownOf
<1>9. \A y \in Agents : ShutdownOK(y)'
  BY <1>8 DEF ShutdownOK
<1> QED BY <1>2, <1>3, <1>5, <1>6, <1>7, <1>9 DEF TopicInv

\* The handle's destructor begins a shutdown.
LEMMA DestroyKeeps == ASSUME TopicInv, NEW r \in Readers, DestroyReader(r) PROVE TopicInv'
<1>0. /\ TypeOK /\ ReaderOK(r) /\ Owned(r) /\ Told(r) /\ DataReader(dds[r])
      /\ dds = [q \in Readers |-> dds[q]] /\ rd \in [Readers -> ReaderRecords]
      /\ shutting \in [Agents -> Shutdowns \cup {None}] /\ r \in Agents
      /\ \A y \in Agents : ShutdownOK(y)
  BY DEF TopicInv, TypeOK, Agents
<1>1. /\ rd[r].pc = "idle" /\ rd' = [rd EXCEPT ![r].pc = "destroyed"] /\ dds' = dds
      /\ UNCHANGED <<world, transport, lifecycle, wr, closer>>
  BY DEF DestroyReader
<1> DEFINE next == [of |-> r, step |-> "signal", detached |-> FALSE]
<1>2. Moves(r, next)
  BY <1>0 DEF DestroyReader, Begin, Moves
<1>3. next \in Shutdowns /\ next.of = r /\ next.step = "signal" /\ next # None
  <2>1. next \in Shutdowns /\ next.of = r /\ next.step = "signal"
    BY DEF Shutdowns
  <2> QED BY <2>1, FastDdsAssumption
<1>4. shutting[r] = None
  <2>1. SUFFICES ASSUME shutting[r] # None PROVE FALSE
    OBVIOUS
  <2>2. PICK q \in Readers : Shutting(r, q, {"signal", "lock", "detach", "delete"})
    BY <1>0, <2>1 DEF Shutting, Shutdowns
  <2> QED BY <1>0, <1>1, <2>2 DEF ShutdownOK, ShutdownOf
<1> HIDE DEF next
<1>5. /\ rd' \in [Readers -> ReaderRecords] /\ \A q \in Readers \ {r} : rd'[q] = rd[q]
      /\ rd'[r].pc = "destroyed" /\ rd'[r].reader = rd[r].reader /\ rd'[r].closed = rd[r].closed
      /\ rd'[r].seen = rd[r].seen /\ rd'[r].generation = rd[r].generation
      /\ rd'[r].shutdownMutex = rd[r].shutdownMutex
  BY <1>0, <1>1 DEF ReaderRecords
<1>6. shutting'[r] = next /\ \A y \in Agents \ {r} : shutting'[y] = shutting[y]
  BY <1>2 DEF Moves
<1>7. ReaderOK(r)' /\ Told(r)'
  BY <1>0, <1>1, <1>5 DEF ReaderOK, Told
<1>8. Owned(r)'
  BY <1>0, <1>1, <1>4, <1>5, <1>6 DEF Owned, Shutting
<1>9. ASSUME NEW y \in Agents PROVE ShutdownOf(y, r)'
  <2>1. ShutdownOf(y, r)
    BY <1>0 DEF ShutdownOK
  <2>2. CASE y = r
    BY <1>3, <1>5, <1>6, <2>2 DEF ShutdownOf, Shutting
  <2>3. CASE y # r
    BY <1>5, <1>6, <2>1, <2>3 DEF ShutdownOf, Shutting
  <2> QED BY <2>2, <2>3
<1>10. dds'[r].live => dds[r].live /\ next # None
  BY <1>1, <1>3
<1>11. dds' = [q \in Readers |-> dds'[q]] /\ DataReader(dds'[r]) /\ \A q \in Readers \ {r} : dds'[q] = dds[q]
  BY <1>0, <1>1
<1> QED BY <1>0, <1>1, <1>2, <1>3, <1>4, <1>5, <1>7, <1>8, <1>9, <1>10, <1>11, ShutdownLocal

\* The steps of a shutdown.
LEMMA ShutdownKeeps == ASSUME TopicInv, NEW x \in Agents, ShutdownStep(x) PROVE TopicInv'
<1>0. /\ TypeOK /\ rd \in [Readers -> ReaderRecords]
      /\ dds = [q \in Readers |-> dds[q]] /\ \A q \in Readers : DataReader(dds[q])
      /\ shutting \in [Agents -> Shutdowns \cup {None}] /\ None \notin Agents
      /\ \A q \in Readers : ReaderOK(q) /\ Owned(q) /\ Told(q)
      /\ \A y \in Agents : ShutdownOK(y)
  BY FastDdsAssumption DEF TopicInv, TypeOK, Agents, Endpoints
<1>1. /\ shutting[x] # None /\ UNCHANGED <<world, transport, lifecycle, wr, closer>>
  BY DEF ShutdownStep, SignalClosed, LockShutdown, Detach, DeleteReader, At
<1>2. PICK s \in Shutdowns : shutting[x] = s
  BY <1>0, <1>1
<1>3. PICK r \in Readers : r = s.of
  BY DEF Shutdowns
<1>4. s = [of |-> r, step |-> s.step, detached |-> s.detached] /\ s.detached \in BOOLEAN
      /\ s.step \in {"signal", "lock", "detach", "delete"} /\ s # None
  BY <1>1, <1>2, <1>3 DEF Shutdowns
<1>5. ASSUME NEW next \in Shutdowns \cup {None}, Moves(x, next),
             next # None => next.of = r, rd' \in [Readers -> ReaderRecords],
             \A q \in Readers \ {r} : rd'[q] = rd[q],
             dds' = [q \in Readers |-> dds'[q]], DataReader(dds'[r]),
             \A q \in Readers \ {r} : dds'[q] = dds[q],
             dds'[r].live => dds[r].live /\ next # None,
             ReaderOK(r)', Owned(r)', Told(r)', \A y \in Agents : ShutdownOf(y, r)'
      PROVE  TopicInv'
  BY <1>1, <1>2, <1>3, <1>5, ShutdownLocal
<1>6. ReaderOK(r) /\ Owned(r) /\ Told(r) /\ DataReader(dds[r]) /\ \A y \in Agents : ShutdownOf(y, r)
  BY <1>0 DEF ShutdownOK
<1>7. \A y \in Agents \ {x} : Shutting(y, r, {"detach", "delete"}) => rd[r].shutdownMutex = y
  BY <1>6 DEF ShutdownOf
<1>8. CASE SignalClosed(x)
  <2>1. /\ s.step = "signal" /\ dds' = dds
        /\ rd' = [rd EXCEPT ![r].closed = TRUE, ![r].callback = FALSE]
        /\ shutting' = [shutting EXCEPT ![x].step = "lock"]
    BY <1>2, <1>3, <1>8 DEF SignalClosed, At
  <2> DEFINE next == [of |-> r, step |-> "lock", detached |-> s.detached]
  <2>2. Moves(x, next) /\ next \in Shutdowns /\ next.of = r /\ next.step = "lock"
    <3>1. next \in Shutdowns /\ next.of = r /\ next.step = "lock"
      BY <1>4 DEF Shutdowns
    <3>2. shutting'[x] = next
      BY <1>0, <1>2, <1>4, <2>1
    <3>3. shutting' = [y \in Agents |-> shutting'[y]] /\ \A y \in Agents \ {x} : shutting'[y] = shutting[y]
      BY <1>0, <2>1
    <3> QED BY <3>1, <3>2, <3>3 DEF Moves
  <2>3. next # None
    BY <2>2, FastDdsAssumption
  <2> HIDE DEF next
  <2>4. shutting'[x] = next /\ \A y \in Agents \ {x} : shutting'[y] = shutting[y]
    BY <2>2 DEF Moves
  <2>5. /\ rd' \in [Readers -> ReaderRecords] /\ \A q \in Readers \ {r} : rd'[q] = rd[q]
        /\ rd'[r].pc = rd[r].pc /\ rd'[r].reader = rd[r].reader /\ rd'[r].closed = TRUE
        /\ rd'[r].seen = rd[r].seen /\ rd'[r].generation = rd[r].generation
        /\ rd'[r].shutdownMutex = rd[r].shutdownMutex /\ rd'[r].entityMutex = rd[r].entityMutex
    <3>1. rd'[r] = [rd[r] EXCEPT !.closed = TRUE, !.callback = FALSE] /\ rd[r] \in ReaderRecords
      BY <1>0, <2>1
    <3>2. /\ rd'[r] \in ReaderRecords
          /\ rd'[r].pc = rd[r].pc /\ rd'[r].reader = rd[r].reader /\ rd'[r].closed = TRUE
          /\ rd'[r].seen = rd[r].seen /\ rd'[r].generation = rd[r].generation
          /\ rd'[r].shutdownMutex = rd[r].shutdownMutex /\ rd'[r].entityMutex = rd[r].entityMutex
      BY <3>1 DEF ReaderRecords
    <3>3. rd' = [q \in Readers |-> rd'[q]] /\ \A q \in Readers \ {r} : rd'[q] = rd[q]
      BY <1>0, <2>1
    <3> QED BY <1>0, <3>2, <3>3
  <2>6. ReaderOK(r)' /\ Told(r)'
    BY <1>6, <2>1, <2>5 DEF ReaderOK, Told
  <2>7. \A y \in Agents : Shutting(y, r, {"delete"}) => y # x
    BY <1>2, <2>1 DEF Shutting
  <2>8. Owned(r)'
    BY <1>6, <2>1, <2>4, <2>5, <2>7 DEF Owned, Shutting
  <2>9. ASSUME NEW y \in Agents PROVE ShutdownOf(y, r)'
    <3>1. ShutdownOf(y, r)
      BY <1>6
    <3>2. CASE y = x
      BY <1>2, <1>3, <1>4, <2>1, <2>2, <2>4, <2>5, <3>1, <3>2 DEF ShutdownOf, Shutting
    <3>3. CASE y # x
      BY <2>4, <2>5, <3>1, <3>3 DEF ShutdownOf, Shutting
    <3> QED BY <3>2, <3>3
  <2> QED BY <1>0, <1>5, <1>6, <2>1, <2>2, <2>3, <2>5, <2>6, <2>8, <2>9
<1>9. CASE LockShutdown(x)
  <2>1. /\ s.step = "lock" /\ dds' = dds /\ rd[r].shutdownMutex = None
        /\ rd' = [rd EXCEPT ![r].shutdownMutex = x]
        /\ shutting' = [shutting EXCEPT ![x].step = "detach"]
    BY <1>2, <1>3, <1>9 DEF LockShutdown, At
  <2> DEFINE next == [of |-> r, step |-> "detach", detached |-> s.detached]
  <2>2. Moves(x, next) /\ next \in Shutdowns /\ next.of = r /\ next.step = "detach"
    <3>1. next \in Shutdowns /\ next.of = r /\ next.step = "detach"
      BY <1>4 DEF Shutdowns
    <3>2. shutting'[x] = next
      BY <1>0, <1>2, <1>4, <2>1
    <3>3. shutting' = [y \in Agents |-> shutting'[y]] /\ \A y \in Agents \ {x} : shutting'[y] = shutting[y]
      BY <1>0, <2>1
    <3> QED BY <3>1, <3>2, <3>3 DEF Moves
  <2>3. next # None
    BY <2>2, FastDdsAssumption
  <2> HIDE DEF next
  <2>4. shutting'[x] = next /\ \A y \in Agents \ {x} : shutting'[y] = shutting[y]
    BY <2>2 DEF Moves
  <2>5. /\ rd' \in [Readers -> ReaderRecords] /\ \A q \in Readers \ {r} : rd'[q] = rd[q]
        /\ rd'[r].pc = rd[r].pc /\ rd'[r].reader = rd[r].reader /\ rd'[r].closed = rd[r].closed
        /\ rd'[r].seen = rd[r].seen /\ rd'[r].generation = rd[r].generation
        /\ rd'[r].shutdownMutex = x /\ rd'[r].entityMutex = rd[r].entityMutex
    BY <1>0, <2>1 DEF ReaderRecords
  <2>6. ReaderOK(r)' /\ Told(r)'
    BY <1>6, <2>1, <2>5 DEF ReaderOK, Told, HasData
  <2>7. \A y \in Agents : Shutting(y, r, {"delete"}) => y # x
    BY <1>2, <2>1 DEF Shutting
  <2>8. Owned(r)'
    BY <1>6, <2>1, <2>4, <2>5, <2>7 DEF Owned, Shutting
  <2>9. ASSUME NEW y \in Agents PROVE ShutdownOf(y, r)'
    <3>1. ShutdownOf(y, r)
      BY <1>6
    <3>2. CASE y = x
      BY <1>2, <1>3, <1>4, <2>1, <2>2, <2>4, <2>5, <3>1, <3>2 DEF ShutdownOf, Shutting
    <3>3. CASE y # x
      <4>1. ~Shutting(y, r, {"detach", "delete"})
        BY <1>0, <1>7, <2>1, <3>3
      <4>2. \A steps : Shutting(y, r, steps)' <=> Shutting(y, r, steps)
        BY <2>4, <3>3 DEF Shutting
      <4>3. Shutting(y, r, {"delete"}) => Shutting(y, r, {"detach", "delete"})
        BY DEF Shutting
      <4> QED BY <2>5, <3>1, <4>1, <4>2, <4>3 DEF ShutdownOf
    <3> QED BY <3>2, <3>3
  <2> QED BY <1>0, <1>5, <1>6, <2>1, <2>2, <2>3, <2>5, <2>6, <2>8, <2>9
<1>10. CASE Detach(x)
  <2>1. /\ s.step = "detach" /\ dds' = dds /\ rd[r].entityMutex = None
        /\ rd' = [rd EXCEPT ![r].reader = FALSE]
        /\ shutting' = [shutting EXCEPT ![x].step = "delete", ![x].detached = rd[r].reader]
    BY <1>2, <1>3, <1>10 DEF Detach, At
  <2> DEFINE next == [of |-> r, step |-> "delete", detached |-> rd[r].reader]
  <2>2. rd[r].reader \in BOOLEAN
    BY <1>0 DEF ReaderRecords
  <2>3. next \in Shutdowns /\ next.of = r /\ next.step = "delete" /\ next.detached = rd[r].reader
    BY <2>2 DEF Shutdowns
  <2>4. next # None
    BY <2>3, FastDdsAssumption
  <2>5. /\ Moves(x, next) /\ shutting'[x] = next
        /\ \A y \in Agents \ {x} : shutting'[y] = shutting[y]
    <3>1. shutting'[x] = next
      <4>1. PICK found : found = rd[r].reader
        OBVIOUS
      <4>2. shutting' = [shutting EXCEPT ![x].step = "delete", ![x].detached = found]
        BY <2>1, <4>1
      <4>3. /\ shutting = [y \in Agents |-> shutting[y]]
            /\ shutting[x] = [of |-> shutting[x].of, step |-> shutting[x].step, detached |-> shutting[x].detached]
            /\ shutting[x].of = r
        BY <1>0, <1>2, <1>3, <1>4
      <4> HIDE DEF next
      <4>5. shutting'[x] = [of |-> r, step |-> "delete", detached |-> found]
        BY <4>2, <4>3
      <4> QED BY <4>1, <4>5 DEF next
    <3>2. shutting' = [y \in Agents |-> shutting'[y]] /\ \A y \in Agents \ {x} : shutting'[y] = shutting[y]
      BY <1>0, <2>1
    <3> QED BY <3>1, <3>2 DEF Moves
  <2> HIDE DEF next
  <2>6. /\ rd' \in [Readers -> ReaderRecords] /\ \A q \in Readers \ {r} : rd'[q] = rd[q]
        /\ rd'[r].pc = rd[r].pc /\ ~rd'[r].reader /\ rd'[r].closed = rd[r].closed
        /\ rd'[r].seen = rd[r].seen /\ rd'[r].generation = rd[r].generation
        /\ rd'[r].shutdownMutex = rd[r].shutdownMutex /\ rd'[r].entityMutex = rd[r].entityMutex
    <3>1. rd'[r] = [rd[r] EXCEPT !.reader = FALSE] /\ rd[r] \in ReaderRecords
      BY <1>0, <2>1
    <3>2. /\ rd'[r] \in ReaderRecords
          /\ rd'[r].pc = rd[r].pc /\ ~rd'[r].reader /\ rd'[r].closed = rd[r].closed
          /\ rd'[r].seen = rd[r].seen /\ rd'[r].generation = rd[r].generation
          /\ rd'[r].shutdownMutex = rd[r].shutdownMutex /\ rd'[r].entityMutex = rd[r].entityMutex
      BY <3>1 DEF ReaderRecords
    <3>3. rd' = [q \in Readers |-> rd'[q]] /\ \A q \in Readers \ {r} : rd'[q] = rd[q]
      BY <1>0, <2>1
    <3> QED BY <1>0, <3>2, <3>3
  <2>7. rd[r].closed
    BY <1>2, <1>3, <1>4, <1>6, <2>1 DEF ShutdownOf, Shutting
  <2>8. ReaderOK(r)' /\ Told(r)'
    <3>1. r # None
      BY <1>0 DEF Agents
    <3> QED BY <1>6, <2>1, <2>6, <2>7, <3>1 DEF ReaderOK, Told
  <2>9. Owned(r)'
    <3>1. Shutting(x, r, {"delete"})' /\ (shutting'[x].detached <=> rd[r].reader)
      BY <2>3, <2>4, <2>5 DEF Shutting
    <3>2. \A y \in Agents : Shutting(y, r, {"delete"}) => y # x
      BY <1>2, <2>1 DEF Shutting
    <3>3. \A y \in Agents : Shutting(y, r, {"delete"}) /\ shutting[y].detached
                               => Shutting(y, r, {"delete"})' /\ shutting'[y].detached
      BY <2>5, <3>2 DEF Shutting
    <3> QED BY <1>6, <2>1, <3>1, <3>3 DEF Owned
  <2>10. ASSUME NEW y \in Agents PROVE ShutdownOf(y, r)'
    <3>1. ShutdownOf(y, r)
      BY <1>6
    <3>2. CASE y = x
      BY <1>2, <1>3, <1>4, <2>1, <2>3, <2>5, <2>6, <2>7, <3>1, <3>2 DEF ShutdownOf, Shutting
    <3>3. CASE y # x
      BY <2>5, <2>6, <3>1, <3>3 DEF ShutdownOf, Shutting
    <3> QED BY <3>2, <3>3
  <2>11. /\ DataReader(dds'[r]) /\ \A q \in Readers \ {r} : dds'[q] = dds[q]
         /\ dds' = [q \in Readers |-> dds'[q]] /\ (dds'[r].live => dds[r].live /\ next # None)
    BY <1>0, <1>6, <2>1, <2>4
  <2> QED BY <1>5, <2>3, <2>5, <2>6, <2>8, <2>9, <2>10, <2>11
<1>11. CASE DeleteReader(x)
  <2>1. /\ s.step = "delete" /\ shutting' = [shutting EXCEPT ![x] = None]
        /\ IF s.detached
           THEN dds[r].lock = None /\ dds' = [dds EXCEPT ![r].live = FALSE, ![r].sent = << >>]
           ELSE dds' = dds
    BY <1>2, <1>3, <1>11 DEF DeleteReader, At
  <2>2. PICK pc \in {"new", "gone", "destroyed"} \cup Inside :
          /\ rd' = [rd EXCEPT ![r].shutdownMutex = None, ![r].pc = pc]
          /\ pc = IF x = r THEN "gone" ELSE rd[r].pc
    <3>1. rd' = [rd EXCEPT ![r].shutdownMutex = None, ![r].pc = IF x = r THEN "gone" ELSE rd[r].pc]
      BY <1>0, <1>2, <1>3, <1>11 DEF DeleteReader
    <3>2. rd[r].pc \in {"new", "gone", "destroyed"} \cup Inside
      BY <1>0 DEF ReaderRecords
    <3> QED BY <3>1, <3>2
  <2>3. /\ rd' \in [Readers -> ReaderRecords] /\ \A q \in Readers \ {r} : rd'[q] = rd[q]
        /\ rd'[r].reader = rd[r].reader /\ rd'[r].closed = rd[r].closed
        /\ rd'[r].seen = rd[r].seen /\ rd'[r].generation = rd[r].generation
        /\ rd'[r].entityMutex = rd[r].entityMutex
        /\ rd'[r].pc = IF x = r THEN "gone" ELSE rd[r].pc
    <3>1. /\ rd' \in [Readers -> ReaderRecords] /\ \A q \in Readers \ {r} : rd'[q] = rd[q]
          /\ rd'[r].reader = rd[r].reader /\ rd'[r].closed = rd[r].closed
          /\ rd'[r].seen = rd[r].seen /\ rd'[r].generation = rd[r].generation
          /\ rd'[r].entityMutex = rd[r].entityMutex /\ rd'[r].pc = pc
      <4>1. rd \in [Readers -> ReaderRecords] /\ rd' = [rd EXCEPT ![r].shutdownMutex = None, ![r].pc = pc]
        BY <1>0, <2>2
      <4> DEFINE rec == [[rd[r] EXCEPT !.shutdownMutex = None] EXCEPT !.pc = pc]
      <4>2. rd'[r] = rec /\ rd' = [q \in Readers |-> rd'[q]] /\ \A q \in Readers \ {r} : rd'[q] = rd[q]
        BY <4>1
      <4>3. rd[r] \in ReaderRecords
        BY <4>1
      <4>4. /\ rec \in ReaderRecords /\ rec.reader = rd[r].reader /\ rec.closed = rd[r].closed
            /\ rec.seen = rd[r].seen /\ rec.generation = rd[r].generation
            /\ rec.entityMutex = rd[r].entityMutex /\ rec.pc = pc
        BY <4>3 DEF ReaderRecords
      <4> HIDE DEF rec
      <4> QED BY <4>1, <4>2, <4>4
    <3> QED BY <2>2, <3>1
  <2>4. Moves(x, None) /\ shutting'[x] = None /\ \A y \in Agents \ {x} : shutting'[y] = shutting[y]
    BY <1>0, <2>1 DEF Moves
  <2>5. Shutting(x, r, {"delete"}) /\ Shutting(x, r, {"detach", "delete"}) /\ Shutting(x, r, {"lock", "detach", "delete"})
    BY <1>1, <1>2, <1>3, <2>1 DEF Shutting
  <2>6. rd[r].closed /\ ~rd[r].reader /\ rd[r].shutdownMutex = x
    BY <1>6, <2>5 DEF ShutdownOf
  <2>7. \A y \in Agents : Shutting(y, r, {"delete"}) => Shutting(y, r, {"detach", "delete"})
    BY DEF Shutting
  <2>8. \A y \in Agents \ {x} : ~Shutting(y, r, {"detach", "delete"}) /\ ~Shutting(y, r, {"delete"})
    BY <1>7, <2>6, <2>7
  <2>9. dds[r].live => s.detached
    BY <1>2, <1>6, <2>6, <2>8 DEF Owned
  <2>10. /\ dds' = [q \in Readers |-> dds'[q]] /\ DataReader(dds'[r]) /\ ~dds'[r].live
         /\ \A q \in Readers \ {r} : dds'[q] = dds[q]
         /\ dds'[r].listener = dds[r].listener /\ dds'[r].lock = dds[r].lock
    <3>1. CASE ~s.detached
      BY <1>0, <1>6, <2>1, <2>9, <3>1
    <3>2. CASE s.detached
      <4> DEFINE d == dds[r]
      <4>1. DataReader(d) /\ dds' = [dds EXCEPT ![r].live = FALSE, ![r].sent = << >>]
        BY <1>6, <2>1, <3>2
      <4>2. /\ dds'[r] = [live |-> FALSE, lock |-> d.lock, history |-> d.history, sent |-> << >>, listener |-> d.listener]
            /\ dds' = [q \in Readers |-> dds'[q]] /\ \A q \in Readers \ {r} : dds'[q] = dds[q]
        BY <1>0, <4>1 DEF DataReader
      <4> QED BY <4>2 DEF DataReader
    <3> QED BY <3>1, <3>2
  <2>11. dds[r].listener = "off"
    <3>1. "listener" # None
      BY FastDdsAssumption
    <3> QED BY <1>6, <2>1, <2>9, <3>1 DEF Owned
  <2>12. ReaderOK(r)' /\ Told(r)' /\ Owned(r)'
    BY <1>6, <2>3, <2>6, <2>10, <2>11 DEF ReaderOK, Told, Owned
  <2>13. ASSUME NEW y \in Agents PROVE ShutdownOf(y, r)'
    <3>1. ShutdownOf(y, r)
      BY <1>6
    <3>2. CASE y = x
      BY <2>4, <3>2 DEF ShutdownOf, Shutting
    <3>3. CASE y # x
      <4>1. \A steps : Shutting(y, r, steps)' <=> Shutting(y, r, steps)
        BY <2>4, <3>3 DEF Shutting
      <4>2. rd'[r].pc # "new" \/ rd'[r].pc = rd[r].pc
        BY <2>3
      <4> QED BY <2>3, <2>8, <3>1, <3>3, <4>1, <4>2 DEF ShutdownOf
    <3> QED BY <3>2, <3>3
  <2> QED BY <1>5, <2>3, <2>4, <2>10, <2>12, <2>13
<1> QED BY <1>8, <1>9, <1>10, <1>11 DEF ShutdownStep
-----------------------------------------------------------------------------
(* The transport *)

\* A reader whose DataReader lives is alive, so its pruning spares it.
LEMMA LiveIsAlive == ASSUME TopicInv, NEW r \in Readers, dds[r].live PROVE ReaderAlive(r)
<1>1. ReaderOK(r) /\ Owned(r)
  BY DEF TopicInv
<1> QED BY <1>1 DEF ReaderOK, Owned, ReaderAlive, Shutting

\* While an entity lives, the topic that a new endpoint finds is the entity's.
LEMMA TopicIsShared ==
  ASSUME TopicInv, NEW e \in Endpoints, MayCreate(e)
  PROVE  /\ \A r \in Readers : dds[r].live => world.message[r] = world.message[e]
         /\ \A w \in Writers : wr[w].live => world.message[w] = world.message[e]
<1>0. /\ \A r \in Readers : dds[r].live => transport.topic = world.message[r] /\ world.message[r] # None
      /\ \A w \in Writers : wr[w].live => transport.topic = world.message[w] /\ world.message[w] # None
  BY DEF TopicInv, OnTopic, TypeOK, Endpoints
<1>1. TopicBusy => transport.topic \in {None, world.message[e]}
  BY DEF MayCreate, SweepTopics
<1> QED BY <1>0, <1>1 DEF TopicBusy

\* CreateReader adds an endpoint that the transport knows.
LEMMA CreateReaderKeeps == ASSUME TopicInv, NEW r \in Readers, CreateReader(r) PROVE TopicInv'
<1>0. /\ TypeOK /\ TransportOK
      /\ \A q \in Readers : ReaderOK(q) /\ Owned(q) /\ Told(q) /\ (dds[q].live => OnTopic(q))
      /\ \A x \in Agents : ShutdownOK(x)
      /\ \A w \in Writers : wr[w].live => wr[w].pc \notin {"new", "gone"} /\ OnTopic(w)
      /\ rd \in [Readers -> ReaderRecords] /\ rd[r] \in ReaderRecords
      /\ dds = [q \in Readers |-> dds[q]] /\ \A q \in Readers : DataReader(dds[q])
  BY DEF TopicInv, TypeOK
<1>1. /\ rd[r].pc = "new" /\ transport.participant /\ ~transport.closing
      /\ rd' = [rd EXCEPT ![r].pc = "idle", ![r].reader = TRUE]
      /\ dds' = [dds EXCEPT ![r].live = TRUE]
      /\ UNCHANGED <<world, lifecycle, wr, shutting, closer>>
  BY DEF CreateReader, MayCreate
<1>2. PICK kept : /\ kept = {q \in transport.readers : ReaderAlive(q)} \cup {r}
                  /\ transport' = [transport EXCEPT !.topic = world.message[r], !.readers = kept]
  BY DEF CreateReader
<1>3. transport' = [participant |-> transport.participant, closing |-> transport.closing,
                    topic |-> world.message[r], readers |-> kept,
                    writers |-> transport.writers, opens |-> transport.opens]
  BY <1>0, <1>2 DEF TransportOK
<1>4. /\ transport'.participant /\ ~transport'.closing /\ transport'.topic = world.message[r]
      /\ transport'.readers = kept /\ transport'.writers = transport.writers
      /\ transport'.closing = transport.closing /\ transport'.participant = transport.participant
      /\ transport' = [participant |-> transport'.participant, closing |-> transport'.closing,
                       topic |-> transport'.topic, readers |-> transport'.readers,
                       writers |-> transport'.writers, opens |-> transport'.opens]
  BY <1>1, <1>3
<1>5. kept \subseteq Readers /\ r \in kept /\ \A q \in Readers : dds[q].live /\ q \in transport.readers => q \in kept
  BY <1>0, <1>2, LiveIsAlive DEF TransportOK
<1>6. TransportOK'
  BY <1>0, <1>1, <1>4, <1>5 DEF TransportOK
<1>7. /\ rd' \in [Readers -> ReaderRecords] /\ \A q \in Readers \ {r} : rd'[q] = rd[q]
      /\ rd'[r].pc = "idle" /\ rd'[r].reader /\ rd'[r].seen = rd[r].seen /\ rd'[r].generation = rd[r].generation
  BY <1>0, <1>1 DEF ReaderRecords, Inside
<1>8. /\ dds' = [q \in Readers |-> dds'[q]] /\ DataReader(dds'[r]) /\ dds'[r].live
      /\ dds'[r].listener = dds[r].listener /\ dds'[r].lock = dds[r].lock
      /\ \A q \in Readers \ {r} : dds'[q] = dds[q]
  <2> DEFINE d == dds[r]
  <2>1. DataReader(d)
    BY <1>0
  <2>2. /\ dds'[r] = [live |-> TRUE, lock |-> d.lock, history |-> d.history, sent |-> d.sent, listener |-> d.listener]
        /\ dds' = [q \in Readers |-> dds'[q]] /\ \A q \in Readers \ {r} : dds'[q] = dds[q]
    BY <1>0, <1>1, <2>1 DEF DataReader
  <2> QED BY <2>2 DEF DataReader
<1>9. TypeOK'
  BY <1>0, <1>1, <1>7, <1>8 DEF TypeOK
<1>10. ASSUME NEW q \in Readers PROVE ReaderOK(q)' /\ Owned(q)' /\ Told(q)'
  <2>0. ReaderOK(q) /\ Owned(q) /\ Told(q)
    BY <1>0
  <2>1. CASE q = r
    BY <1>7, <1>8, <2>0, <2>1 DEF ReaderOK, Owned, Told
  <2>2. CASE q # r
    <3>1. rd'[q] = rd[q] /\ dds'[q] = dds[q] /\ shutting' = shutting
      BY <1>1, <1>7, <1>8, <2>2
    <3> QED BY <2>0, <3>1 DEF ReaderOK, Owned, Told, HasData, Shutting
  <2> QED BY <2>1, <2>2
<1>11. \A q \in Readers : dds'[q].live => OnTopic(q)'
  <2>1. OnTopic(r)'
    BY <1>1, <1>4, <1>5 DEF OnTopic, Known
  <2>2. ASSUME NEW q \in Readers, q # r, dds'[q].live PROVE OnTopic(q)'
    <3>1. dds[q].live /\ OnTopic(q)
      BY <1>0, <1>8, <2>2
    <3>2. q \in transport.readers
      BY <1>0, <1>1, <3>1, FastDdsAssumption DEF OnTopic, Known, TransportOK
    <3>3. world.message[q] = world.message[r]
      BY <3>1, TopicIsShared DEF CreateReader, Endpoints
    <3> QED BY <1>1, <1>4, <1>5, <3>1, <3>2, <3>3 DEF OnTopic, Known
  <2> QED BY <2>1, <2>2
<1>12. \A w \in Writers : wr'[w].live => wr'[w].pc \notin {"new", "gone"} /\ OnTopic(w)'
  <2>1. ASSUME NEW w \in Writers, wr[w].live PROVE OnTopic(w)'
    <3>1. w \in transport.writers
      BY <1>0, <1>1, <2>1, FastDdsAssumption DEF OnTopic, Known, TransportOK
    <3>2. world.message[w] = world.message[r]
      BY <2>1, TopicIsShared DEF CreateReader, Endpoints
    <3> QED BY <1>1, <1>4, <3>1, <3>2 DEF OnTopic, Known
  <2> QED BY <1>0, <1>1, <2>1
<1>13. ASSUME NEW x \in Agents, NEW q \in Readers PROVE ShutdownOf(x, q)'
  <2>0. ShutdownOf(x, q) /\ shutting' = shutting
    BY <1>0, <1>1 DEF ShutdownOK
  <2>1. CASE q = r
    BY <1>1, <2>0, <2>1 DEF ShutdownOf, Shutting
  <2>2. CASE q # r
    BY <1>7, <2>0, <2>2 DEF ShutdownOf, Shutting
  <2> QED BY <2>1, <2>2
<1>14. \A x \in Agents : ShutdownOK(x)'
  BY <1>13 DEF ShutdownOK
<1> QED BY <1>6, <1>9, <1>10, <1>11, <1>12, <1>14 DEF TopicInv

\* The same for CreateWriter.
LEMMA CreateWriterKeeps == ASSUME TopicInv, NEW w \in Writers, CreateWriter(w) PROVE TopicInv'
<1>0. /\ TypeOK /\ TransportOK
      /\ \A q \in Readers : ReaderOK(q) /\ Owned(q) /\ Told(q) /\ (dds[q].live => OnTopic(q))
      /\ \A x \in Agents : ShutdownOK(x)
      /\ \A v \in Writers : wr[v].live => wr[v].pc \notin {"new", "gone"} /\ OnTopic(v)
      /\ wr \in [Writers -> WriterRecords] /\ wr[w] \in WriterRecords
  BY DEF TopicInv, TypeOK
<1>1. /\ transport.participant /\ ~transport.closing
      /\ wr' = [wr EXCEPT ![w].pc = "idle", ![w].live = TRUE]
      /\ UNCHANGED <<world, lifecycle, rd, dds, shutting, closer>>
  BY DEF CreateWriter, MayCreate
<1>2. PICK kept : /\ kept = {v \in transport.writers : WriterAlive(v)} \cup {w}
                  /\ transport' = [transport EXCEPT !.topic = world.message[w], !.writers = kept]
  BY DEF CreateWriter
<1>3. transport' = [participant |-> transport.participant, closing |-> transport.closing,
                    topic |-> world.message[w], readers |-> transport.readers,
                    writers |-> kept, opens |-> transport.opens]
  BY <1>0, <1>2 DEF TransportOK
<1>4. /\ transport'.participant /\ ~transport'.closing /\ transport'.topic = world.message[w]
      /\ transport'.readers = transport.readers /\ transport'.writers = kept
      /\ transport'.closing = transport.closing /\ transport'.participant = transport.participant
      /\ transport' = [participant |-> transport'.participant, closing |-> transport'.closing,
                       topic |-> transport'.topic, readers |-> transport'.readers,
                       writers |-> transport'.writers, opens |-> transport'.opens]
  BY <1>1, <1>3
<1>5. kept \subseteq Writers /\ w \in kept /\ \A v \in Writers : wr[v].live /\ v \in transport.writers => v \in kept
  BY <1>0, <1>2 DEF TransportOK, WriterAlive
<1>6. TransportOK'
  BY <1>0, <1>1, <1>4, <1>5 DEF TransportOK
<1>7. /\ wr' \in [Writers -> WriterRecords] /\ \A v \in Writers \ {w} : wr'[v] = wr[v]
      /\ wr'[w].pc = "idle"
  BY <1>0, <1>1 DEF WriterRecords
<1>8. TypeOK'
  BY <1>0, <1>1, <1>7 DEF TypeOK
<1>9. ASSUME NEW q \in Readers PROVE ReaderOK(q)' /\ Owned(q)' /\ Told(q)'
  BY <1>0, <1>1 DEF ReaderOK, Owned, Told, HasData, Shutting
<1>10. ASSUME NEW q \in Readers, dds[q].live PROVE OnTopic(q)'
  <2>1. q \in transport.readers
    BY <1>0, <1>1, <1>10, FastDdsAssumption DEF OnTopic, Known, TransportOK
  <2>2. world.message[q] = world.message[w]
    BY <1>10, TopicIsShared DEF CreateWriter, Endpoints
  <2> QED BY <1>1, <1>4, <2>1, <2>2 DEF OnTopic, Known
<1>11. ASSUME NEW v \in Writers, wr'[v].live PROVE wr'[v].pc \notin {"new", "gone"} /\ OnTopic(v)'
  <2>1. CASE v = w
    BY <1>1, <1>4, <1>5, <1>7, <2>1 DEF OnTopic, Known
  <2>2. CASE v # w
    <3>1. wr[v].live /\ wr[v].pc \notin {"new", "gone"} /\ OnTopic(v) /\ wr'[v] = wr[v]
      BY <1>0, <1>7, <1>11, <2>2
    <3>2. v \in transport.writers
      BY <1>0, <1>1, <3>1, FastDdsAssumption DEF OnTopic, Known, TransportOK
    <3>3. world.message[v] = world.message[w]
      BY <3>1, TopicIsShared DEF CreateWriter, Endpoints
    <3> QED BY <1>1, <1>4, <1>5, <3>1, <3>2, <3>3 DEF OnTopic, Known
  <2> QED BY <2>1, <2>2
<1>12. \A x \in Agents : ShutdownOK(x)'
  BY <1>0, <1>1 DEF ShutdownOK, ShutdownOf, Shutting
<1>13. \A q \in Readers : dds'[q].live => OnTopic(q)'
  BY <1>1, <1>10
<1> QED BY <1>6, <1>8, <1>9, <1>11, <1>12, <1>13 DEF TopicInv

\* Open, Close and its end change what the transport and its closers know.
LEMMA ClosingKeeps ==
  ASSUME TopicInv, UNCHANGED <<world, rd, dds, wr, shutting>>, TransportOK',
         closer' \in [Closers -> [pc : {"idle", "gone", "detach"}, todo : SUBSET Endpoints]],
         \A e \in Endpoints : OnTopic(e) => OnTopic(e)'
  PROVE  TopicInv'
<1>0. /\ TypeOK
      /\ \A q \in Readers : ReaderOK(q) /\ Owned(q) /\ Told(q) /\ (dds[q].live => OnTopic(q))
      /\ \A x \in Agents : ShutdownOK(x)
      /\ \A w \in Writers : wr[w].live => wr[w].pc \notin {"new", "gone"} /\ OnTopic(w)
  BY DEF TopicInv
<1>1. TypeOK'
  BY <1>0 DEF TypeOK
<1>2. ASSUME NEW q \in Readers PROVE ReaderOK(q)' /\ Owned(q)' /\ Told(q)'
  BY <1>0 DEF ReaderOK, Owned, Told, HasData, Shutting
<1>3. \A x \in Agents : ShutdownOK(x)'
  BY <1>0 DEF ShutdownOK, ShutdownOf, Shutting
<1>4. \A q \in Readers : dds'[q].live => OnTopic(q)'
  BY <1>0 DEF Endpoints
<1>5. \A w \in Writers : wr'[w].live => wr'[w].pc \notin {"new", "gone"} /\ OnTopic(w)'
  BY <1>0 DEF Endpoints
<1> QED BY <1>1, <1>2, <1>3, <1>4, <1>5 DEF TopicInv

\* Nothing lives where no participant is, or where Close is through.
LEMMA DetachedIsEmpty == ASSUME TopicInv, NEW k \in Closers, Detached(k) PROVE \A e \in Endpoints : ~OnTopic(e)
<1>1. lifecycle = k /\ transport.closing
  BY FastDdsAssumption DEF Detached, TopicInv, TransportOK
<1> QED BY <1>1 DEF Detached, OnTopic, Known

\* The transport opens, begins to close, and is closed.
LEMMA OpenCloseKeeps ==
  ASSUME TopicInv, NEW k \in Closers, Open(k) \/ Close(k) \/ CloseEnd(k)
  PROVE  TopicInv'
<1>0. /\ TransportOK /\ None \notin Closers
      /\ closer \in [Closers -> [pc : {"idle", "gone", "detach"}, todo : SUBSET Endpoints]]
  BY FastDdsAssumption DEF TopicInv, TypeOK
<1>1. UNCHANGED <<world, rd, dds, wr, shutting>>
  BY DEF Open, Close, CloseEnd
<1>2. CASE Open(k)
  <2>1. /\ ~transport.participant /\ closer' = closer /\ lifecycle' = lifecycle
        /\ \E n : transport' = [transport EXCEPT !.participant = TRUE, !.opens = n]
    BY <1>2 DEF Open
  <2>2. PICK n : transport' = [participant |-> TRUE, closing |-> transport.closing,
                               topic |-> transport.topic, readers |-> transport.readers,
                               writers |-> transport.writers, opens |-> n]
    BY <1>0, <2>1 DEF TransportOK
  <2>3. TransportOK'
    BY <1>0, <2>1, <2>2 DEF TransportOK
  <2>4. \A e \in Endpoints : OnTopic(e) => OnTopic(e)'
    BY <2>1 DEF OnTopic
  <2> QED BY <1>0, <1>1, <2>1, <2>3, <2>4, ClosingKeeps
<1>3. CASE Close(k)
  <2>1. /\ closer[k].pc = "idle" /\ lifecycle = None /\ transport.participant /\ lifecycle' = k
        /\ transport' = [transport EXCEPT !.closing = TRUE, !.readers = {}, !.writers = {}]
        /\ closer' = [closer EXCEPT ![k] = [pc |-> "detach", todo |-> transport.readers \cup transport.writers]]
    BY <1>3 DEF Close
  <2>2. transport' = [participant |-> transport.participant, closing |-> TRUE,
                      topic |-> transport.topic, readers |-> {}, writers |-> {}, opens |-> transport.opens]
    BY <1>0, <2>1 DEF TransportOK
  <2>3. transport.readers \cup transport.writers \subseteq Endpoints /\ ~transport.closing
    BY <1>0, <2>1 DEF TransportOK, Endpoints
  <2>4. /\ closer' \in [Closers -> [pc : {"idle", "gone", "detach"}, todo : SUBSET Endpoints]]
        /\ closer'[k].pc = "detach" /\ closer'[k].todo = transport.readers \cup transport.writers
        /\ \A j \in Closers \ {k} : closer'[j] = closer[j]
    BY <1>0, <2>1, <2>3
  <2>5. \A j \in Closers : closer'[j].pc = "detach" <=> lifecycle' = j
    BY <1>0, <2>1, <2>4 DEF TransportOK
  <2>6. TransportOK'
    BY <1>0, <2>1, <2>2, <2>5 DEF TransportOK
  <2>7. \A e \in Endpoints : OnTopic(e) => OnTopic(e)'
    BY <1>1, <2>1, <2>2, <2>3, <2>4 DEF OnTopic, Known
  <2> QED BY <1>1, <2>4, <2>6, <2>7, ClosingKeeps
<1>4. CASE CloseEnd(k)
  <2>1. /\ Detached(k) /\ lifecycle' = None /\ closer' = [closer EXCEPT ![k].pc = "idle"]
        /\ transport' = [transport EXCEPT !.participant = FALSE, !.closing = FALSE, !.topic = None]
    BY <1>4 DEF CloseEnd
  <2>2. transport' = [participant |-> FALSE, closing |-> FALSE, topic |-> None, readers |-> transport.readers,
                      writers |-> transport.writers, opens |-> transport.opens]
    BY <1>0, <2>1 DEF TransportOK
  <2>3. /\ closer' \in [Closers -> [pc : {"idle", "gone", "detach"}, todo : SUBSET Endpoints]]
        /\ closer'[k].pc = "idle" /\ \A j \in Closers \ {k} : closer'[j] = closer[j]
    BY <1>0, <2>1
  <2>4. lifecycle = k
    BY <1>0, <2>1 DEF Detached, TransportOK
  <2>5. \A j \in Closers : closer'[j].pc = "detach" <=> lifecycle' = j
    BY <1>0, <2>1, <2>3, <2>4 DEF TransportOK
  <2>6. TransportOK'
    BY <1>0, <2>1, <2>2, <2>5 DEF TransportOK
  <2>7. \A e \in Endpoints : OnTopic(e) => OnTopic(e)'
    BY <2>1, DetachedIsEmpty
  <2> QED BY <1>1, <2>3, <2>6, <2>7, ClosingKeeps
<1> QED BY <1>2, <1>3, <1>4

\* Close goes to the next state it has to shut down.
LEMMA CloseNextKeeps == ASSUME TopicInv, NEW k \in Closers, CloseNext(k) PROVE TopicInv'
<1>0. /\ TypeOK /\ TransportOK /\ None \notin Closers /\ k \in Agents
      /\ closer \in [Closers -> [pc : {"idle", "gone", "detach"}, todo : SUBSET Endpoints]]
      /\ wr \in [Writers -> WriterRecords] /\ shutting \in [Agents -> Shutdowns \cup {None}]
      /\ \A q \in Readers : ReaderOK(q) /\ Owned(q) /\ Told(q) /\ (dds[q].live => OnTopic(q))
      /\ \A x \in Agents : ShutdownOK(x)
      /\ \A w \in Writers : wr[w].live => wr[w].pc \notin {"new", "gone"} /\ OnTopic(w)
      /\ dds = [q \in Readers |-> dds[q]] /\ \A q \in Readers : DataReader(dds[q])
  BY FastDdsAssumption DEF TopicInv, TypeOK, Agents
<1>1. /\ closer[k].pc = "detach" /\ shutting[k] = None
      /\ UNCHANGED <<world, transport, lifecycle, rd>>
  BY DEF CloseNext
<1>2. PICK e \in closer[k].todo :
        /\ \/ /\ e \in Readers /\ ReaderAlive(e)
              /\ Begin(k, e) /\ UNCHANGED <<dds, wr>>
           \/ /\ e \in Writers /\ WriterAlive(e)
              /\ ShutdownWriter(e, wr[e].pc) /\ UNCHANGED shutting
           \/ /\ ~(e \in Readers /\ ReaderAlive(e)) /\ ~(e \in Writers /\ WriterAlive(e))
              /\ UNCHANGED <<dds, wr, shutting>>
        /\ closer' = [closer EXCEPT ![k].todo = @ \ {e}]
  BY DEF CloseNext
<1>3. lifecycle = k /\ transport.closing
  BY <1>0, <1>1 DEF TransportOK
<1>4. e \in Endpoints /\ closer[k].todo \subseteq Endpoints
  BY <1>0, <1>2
<1>5. /\ closer' \in [Closers -> [pc : {"idle", "gone", "detach"}, todo : SUBSET Endpoints]]
      /\ closer'[k].pc = "detach" /\ closer'[k].todo = closer[k].todo \ {e}
      /\ \A j \in Closers \ {k} : closer'[j] = closer[j]
  BY <1>0, <1>1, <1>2
<1>6. TransportOK'
  <2>1. \A j \in Closers : closer'[j].pc = closer[j].pc
    BY <1>1, <1>5
  <2> QED BY <1>0, <1>1, <2>1 DEF TransportOK
<1>7. \A q \in Endpoints : OnTopic(q) => q \in closer[k].todo
  BY <1>1, <1>3 DEF OnTopic, Known
<1>8. \A q \in Endpoints : OnTopic(q) /\ q # e => OnTopic(q)'
  BY <1>1, <1>3, <1>5, <1>7 DEF OnTopic, Known
<1>9. CASE e \in Readers /\ ReaderAlive(e) /\ Begin(k, e) /\ UNCHANGED <<dds, wr>>
  <2> DEFINE next == [of |-> e, step |-> "signal", detached |-> FALSE]
  <2>1. shutting' = [shutting EXCEPT ![k] = next]
    BY <1>9 DEF Begin
  <2>2. next \in Shutdowns /\ next.of = e /\ next.step = "signal"
    BY <1>9 DEF Shutdowns
  <2>3. next # None
    BY <2>2, FastDdsAssumption
  <2> HIDE DEF next
  <2>4. /\ shutting'[k] = next /\ shutting' \in [Agents -> Shutdowns \cup {None}]
        /\ \A x \in Agents \ {k} : shutting'[x] = shutting[x]
    BY <1>0, <2>1, <2>2
  <2>5. TypeOK'
    BY <1>0, <1>1, <1>5, <1>9, <2>4 DEF TypeOK
  <2>6. OnTopic(e) => OnTopic(e)'
    BY <1>1, <1>3, <2>2, <2>3, <2>4 DEF OnTopic, Known
  <2>7. \A q \in Endpoints : OnTopic(q) => OnTopic(q)'
    BY <1>8, <2>6
  <2>8. \A q \in Readers : dds'[q].live => OnTopic(q)'
    BY <1>0, <1>9, <2>7 DEF Endpoints
  <2>9. \A w \in Writers : wr'[w].live => wr'[w].pc \notin {"new", "gone"} /\ OnTopic(w)'
    BY <1>0, <1>9, <2>7 DEF Endpoints
  <2>10. ASSUME NEW q \in Readers PROVE ReaderOK(q)' /\ Owned(q)' /\ Told(q)'
    <3>0. ReaderOK(q) /\ Owned(q) /\ Told(q) /\ UNCHANGED <<rd, dds>>
      BY <1>0, <1>1, <1>9
    <3>1. \A x \in Agents : Shutting(x, q, {"delete"}) /\ shutting[x].detached
                              => Shutting(x, q, {"delete"})' /\ shutting'[x].detached
      BY <1>1, <2>4 DEF Shutting
    <3>2. Owned(q)'
      BY <3>0, <3>1 DEF Owned
    <3> QED BY <3>0, <3>2 DEF ReaderOK, Told, HasData
  <2>11. ASSUME NEW x \in Agents, NEW q \in Readers PROVE ShutdownOf(x, q)'
    <3>0. ShutdownOf(x, q) /\ rd' = rd
      BY <1>0, <1>1 DEF ShutdownOK
    <3>1. CASE x # k
      BY <2>4, <3>0, <3>1 DEF ShutdownOf, Shutting
    <3>2. CASE x = k
      <4>1. k \notin Readers
        BY FastDdsAssumption DEF Endpoints
      <4>2. rd[e].pc # "new"
        <5>1. ASSUME NEW y \in Agents, shutting[y] # None, shutting[y].of = e PROVE rd[e].pc # "new"
          <6>1. shutting[y].step \in {"signal", "lock", "detach", "delete"}
            BY <1>0, <5>1 DEF Shutdowns
          <6> QED BY <1>0, <1>9, <5>1, <6>1 DEF ShutdownOK, ShutdownOf, Shutting
        <5> QED BY <1>9, <5>1 DEF ReaderAlive
      <4> QED BY <2>2, <2>4, <3>0, <3>2, <4>1, <4>2 DEF ShutdownOf, Shutting
    <3> QED BY <3>1, <3>2
  <2>12. \A x \in Agents : ShutdownOK(x)'
    BY <2>11 DEF ShutdownOK
  <2> QED BY <1>6, <2>5, <2>8, <2>9, <2>10, <2>12 DEF TopicInv
<1>10. ASSUME shutting' = shutting, SentOnly, wr' \in [Writers -> WriterRecords],
              \A w \in Writers : w # e => wr'[w] = wr[w],
              e \in Writers => ~wr'[e].live, e \in Readers => ~dds[e].live
       PROVE  TopicInv'
  <2>1. TypeOK'
    BY <1>0, <1>1, <1>5, <1>10 DEF TypeOK, SentOnly
  <2>2. \A q \in Readers : dds'[q].live => OnTopic(q)'
    BY <1>0, <1>8, <1>10 DEF SentOnly, Endpoints
  <2>3. \A w \in Writers : wr'[w].live => wr'[w].pc \notin {"new", "gone"} /\ OnTopic(w)'
    BY <1>0, <1>8, <1>10 DEF Endpoints
  <2>4. \A q \in Readers : ReaderOK(q)' /\ Owned(q)' /\ Told(q)'
    BY <1>1, <1>10, ReadersKeep
  <2>5. \A x \in Agents : ShutdownOK(x)'
    BY <1>0, <1>1, <1>10 DEF ShutdownOK, ShutdownOf, Shutting
  <2> QED BY <1>6, <2>1, <2>2, <2>3, <2>4, <2>5 DEF TopicInv
<1>11. CASE e \in Writers /\ WriterAlive(e) /\ ShutdownWriter(e, wr[e].pc) /\ UNCHANGED shutting
  <2>1. wr' = [wr EXCEPT ![e].live = FALSE, ![e].pc = wr[e].pc] /\ \E sample : dds' = dds \/ dds' = Sent(e, sample)
    BY <1>11 DEF ShutdownWriter
  <2>2. /\ wr' \in [Writers -> WriterRecords] /\ \A w \in Writers : w # e => wr'[w] = wr[w]
        /\ ~wr'[e].live
    <3> DEFINE v == wr[e]
    <3>1. /\ v.mutex \in Writers \cup {None} /\ v.writes \in Nat
          /\ v.pc \in {"new", "gone", "idle", "delivering"}
          /\ v = [pc |-> v.pc, live |-> v.live, mutex |-> v.mutex, writes |-> v.writes]
      BY <1>0, <1>11 DEF WriterRecords
    <3>2. /\ wr'[e] = [pc |-> v.pc, live |-> FALSE, mutex |-> v.mutex, writes |-> v.writes]
          /\ wr' = [w \in Writers |-> wr'[w]] /\ \A w \in Writers : w # e => wr'[w] = wr[w]
      BY <1>0, <1>11, <2>1, <3>1
    <3> HIDE DEF v
    <3>3. wr'[e] \in WriterRecords /\ ~wr'[e].live
      BY <3>1, <3>2 DEF WriterRecords
    <3>4. wr \in [Writers -> WriterRecords]
      BY <1>0
    <3>5. \A w \in Writers : wr'[w] \in WriterRecords
      BY <3>2, <3>3, <3>4
    <3> QED BY <3>2, <3>3, <3>5
  <2>3. SentOnly
    BY <1>0, <2>1, SentKeeps
  <2>4. e \notin Readers
    BY <1>11, FastDdsAssumption
  <2> QED BY <1>10, <1>11, <2>2, <2>3, <2>4
<1>12. CASE ~(e \in Readers /\ ReaderAlive(e)) /\ ~(e \in Writers /\ WriterAlive(e)) /\ UNCHANGED <<dds, wr, shutting>>
  <2>1. e \in Readers => ~dds[e].live
    BY <1>12, LiveIsAlive
  <2>2. e \in Writers => ~wr[e].live
    BY <1>0, <1>12 DEF WriterAlive
  <2>3. SentOnly
    BY <1>0, <1>12 DEF SentOnly
  <2> QED BY <1>0, <1>10, <1>12, <2>1, <2>2, <2>3
<1> QED BY <1>2, <1>9, <1>11, <1>12
-----------------------------------------------------------------------------
(* The theorems *)

\* Nothing lives at first.
LEMMA InitOK == ASSUME Init PROVE TopicInv
<1>0. /\ world \in Worlds /\ lifecycle = None
      /\ transport = [participant |-> FALSE, closing |-> FALSE, topic |-> None,
                      readers |-> {}, writers |-> {}, opens |-> 0]
      /\ shutting = [x \in Agents |-> None]
  BY DEF Init
<1>1. /\ \A r \in Readers : /\ rd[r].pc \in {"new", "gone"} /\ rd[r].seen = 0 /\ rd[r].generation = 0
                            /\ ~rd[r].reader
      /\ rd \in [Readers -> ReaderRecords]
  BY DEF Init, ReaderRecords, Inside
<1>2. /\ dds = [r \in Readers |-> dds[r]]
      /\ \A r \in Readers : DataReader(dds[r]) /\ ~dds[r].live /\ dds[r].listener = "off"
  BY DEF Init, DataReader
<1>3. wr \in [Writers -> WriterRecords] /\ \A w \in Writers : ~wr[w].live
  BY DEF Init, WriterRecords
<1>4. /\ closer \in [Closers -> [pc : {"idle", "gone", "detach"}, todo : SUBSET Endpoints]]
      /\ \A k \in Closers : closer[k].pc # "detach"
  BY DEF Init
<1>5. \A e \in Endpoints : world.message[e] # None
  BY <1>0, FastDdsAssumption
<1>6. TypeOK
  BY <1>0, <1>1, <1>2, <1>3, <1>4, <1>5 DEF TypeOK
<1>7. TransportOK
  <2>1. None \notin Closers
    BY FastDdsAssumption
  <2> QED BY <1>0, <1>4, <2>1 DEF TransportOK
<1>8. \A r \in Readers : ReaderOK(r) /\ Owned(r) /\ Told(r)
  BY <1>1, <1>2 DEF ReaderOK, Owned, Told
<1>9. \A x \in Agents : ShutdownOK(x)
  BY <1>0 DEF ShutdownOK, ShutdownOf, Shutting
<1> QED BY <1>2, <1>3, <1>6, <1>7, <1>8, <1>9 DEF TopicInv

\* Every step keeps the invariant.
LEMMA StepOK == ASSUME TopicInv, [Next]_vars PROVE TopicInv'
<1>1. ASSUME NEW r \in Readers,
             ReaderCall(r) \/ ReaderStep(r) \/ ReadTimesOut(r) \/ ListenerStep(r) \/ Deliver(r) \/ Lose(r)
      PROVE  TopicInv'
  BY <1>1, CreateReaderKeeps, ReadingKeeps, ListenerKeeps, DestroyKeeps DEF ReaderCall, ReaderStep, ListenerStep
<1>2. ASSUME NEW w \in Writers, WriterCall(w) \/ Delivered(w) PROVE TopicInv'
  BY <1>2, CreateWriterKeeps, WriterKeeps DEF WriterCall
<1>3. ASSUME NEW x \in Agents, ShutdownStep(x) PROVE TopicInv'
  BY <1>3, ShutdownKeeps
<1>4. ASSUME NEW k \in Closers, Open(k) \/ Close(k) \/ CloserStep(k) PROVE TopicInv'
  BY <1>4, OpenCloseKeeps, CloseNextKeeps DEF CloserStep
<1>5. CASE UNCHANGED vars
  <2>1. UNCHANGED <<world, rd, dds, wr, shutting>> /\ closer' = closer /\ lifecycle' = lifecycle /\ transport' = transport
    BY <1>5 DEF vars
  <2>2. TransportOK' /\ \A e \in Endpoints : OnTopic(e) => OnTopic(e)'
    BY <2>1 DEF TopicInv, TransportOK, OnTopic, Known
  <2>3. closer' \in [Closers -> [pc : {"idle", "gone", "detach"}, todo : SUBSET Endpoints]]
    BY <2>1 DEF TopicInv, TypeOK
  <2> QED BY <2>1, <2>2, <2>3, ClosingKeeps
<1> QED BY <1>1, <1>2, <1>3, <1>4, <1>5 DEF Next

\* The invariant holds in every reachable state, for any readers, writers and
\* closing threads.
THEOREM TopicInvariant == Spec => []TopicInv
BY InitOK, StepOK, PTL DEF Spec

\* No DDS object is deleted under a thread or a listener that uses it: every
\* DataReader in a call, every topic and participant with an endpoint on it
\* (EntitiesOutliveUse).
THEOREM EntitiesAreSafe == Spec => []EntitiesOutliveUse
<1>1. ASSUME TopicInv PROVE EntitiesOutliveUse
  <2>1. ASSUME NEW r \in Readers
        PROVE  /\ rd[r].pc \in {"taking", "counting"} => dds[r].live
               /\ dds[r].listener # "off" => dds[r].live /\ ReaderAlive(r)
               /\ dds[r].live => transport.participant /\ transport.topic = world.message[r]
    <3>1. ReaderOK(r) /\ Owned(r) /\ (dds[r].live => OnTopic(r))
      BY <1>1 DEF TopicInv
    <3> QED BY <1>1, <3>1, LiveIsAlive DEF ReaderOK, Owned, OnTopic
  <2>2. \A w \in Writers : wr[w].live => transport.participant /\ transport.topic = world.message[w]
    BY <1>1 DEF TopicInv, OnTopic
  <2>3. ASSUME NEW k \in Closers, Detached(k) PROVE ~TopicBusy
    <3>1. \A e \in Endpoints : ~OnTopic(e)
      BY <1>1, <2>3, DetachedIsEmpty
    <3> QED BY <1>1, <3>1 DEF TopicInv, TopicBusy, Endpoints
  <2> QED BY <2>1, <2>2, <2>3 DEF EntitiesOutliveUse
<1> QED BY <1>1, TopicInvariant, PTL

\* No Read waits for data it has and was not told of, whatever came between its
\* look and the wait (ReadsTold).
THEOREM ReadsAreTold == Spec => []ReadsTold
<1>1. ASSUME TopicInv PROVE ReadsTold
  BY <1>1 DEF TopicInv, Told, ReadsTold
<1> QED BY <1>1, TopicInvariant, PTL
=============================================================================
