--------------------------- MODULE InMemoryTopic ----------------------------
(***************************************************************************)
(* One topic of the in-memory transport                                    *)
(* (transport/inmemory/inmemory_transport.cpp): a channel that endpoints   *)
(* share, a mailbox per reader, and writers that number a message under    *)
(* the channel's mutex and push it into each mailbox after releasing it.   *)
(* The transport only finds a channel by name (weakly); a channel whose    *)
(* endpoints are gone, or that was closed, is replaced by a fresh one.     *)
(*                                                                         *)
(* A topic may be observed: its readers come from RuntimeContext           *)
(* (runtime/context.cpp), which wraps them and keeps the topic's queue     *)
(* depth from a data-available callback and after every Read.  What the    *)
(* application's own callback does is modelled by Scheduler, ServiceCall   *)
(* and TopicTool.  Endpoint validation and payloads are left out; a        *)
(* blocking Read is a Read that happens once it can return.                *)
(***************************************************************************)
EXTENDS Naturals, Sequences, FiniteSets, FiniteSetsExt

CONSTANTS Readers, Writers,
          Topics,       \* the configurations considered
          MaxChannels,  \* bound on the channels the topic goes through
          MaxSeq,       \* bound on the messages of one channel
          None

Policies == {"latest", "keep_all", "drop_oldest", "drop_newest", "reject", "block"}

\* A topic's lifetime (TopicLifetime::kReaderOwned or shared), whether it is
\* observed, its writers, and each reader's queue_depth and policy (its
\* freshness, retention and overflow).
Configurations == [owned : BOOLEAN, observed : BOOLEAN, writers : SUBSET Writers,
                   policy : [Readers -> Policies], capacity : [Readers -> Nat \ {0}]]

ASSUME TopicAssumption ==
  /\ \A c \in Topics : c \in Configurations
  /\ MaxChannels \in Nat \ {0} /\ MaxSeq \in Nat

Channels == 1 .. MaxChannels
NoChannel == 0

VARIABLES topic,     \* the configuration, fixed
          open,      \* the transport is open
          current,   \* the channel the transport's map names
          created,   \* how many channels there have been
          closed,    \* the channels that were closed
          members,   \* [Channels -> readers_]
          rank,      \* [Readers -> its place in the order of registration]
          nextSeq,   \* [Channels -> next_sequence_]
          rpc,       \* [Readers -> life cycle of the endpoint]
          rchan, mailbox, shut,  \* its channel, messages_, closed_
          received,  \* history: what each reader was given
          wpc, wchan,
          msg, held, todo, \* [Writers -> message published, readers it collected, readers left]
          (* ReaderQueueDepths, of the runtime *)
          depths,    \* [Readers -> pending count of a registered reader, or None]
          gauge,     \* the topic's recorded queue depth
          wcall,     \* [Writers -> the callback it is in: reader, count]
          rcount     \* [Readers -> the RecordQueueDepth it is in: count]

transport == <<topic, open, current, created>>
channels == <<closed, members, rank, nextSeq>>
readers == <<rpc, rchan, mailbox, shut, received>>
writers == <<wpc, wchan, msg, held, todo>>
observer == <<depths, gauge, wcall, rcount>>
vars == <<topic, open, current, created, closed, members, rank, nextSeq, rpc, rchan, mailbox, shut,
          received, wpc, wchan, msg, held, todo, depths, gauge, wcall, rcount>>

NoMessage == [seq |-> 0, from |-> 0]

ReaderOwned == topic.owned
Policy == topic.policy
Capacity == topic.capacity

Init ==
  /\ topic \in Topics
  /\ open = FALSE /\ current = NoChannel /\ created = 0
  /\ closed = {}
  /\ members = [c \in Channels |-> {}] /\ rank = [r \in Readers |-> 0] /\ nextSeq = [c \in Channels |-> 1]
  /\ rpc = [r \in Readers |-> "new"] /\ rchan = [r \in Readers |-> NoChannel]
  /\ mailbox = [r \in Readers |-> << >>] /\ shut = {}
  /\ received = [r \in Readers |-> << >>]
  /\ wpc = [w \in Writers |-> "new"] /\ wchan = [w \in Writers |-> NoChannel]
  /\ msg = [w \in Writers |-> NoMessage] /\ held = [w \in Writers |-> {}] /\ todo = [w \in Writers |-> {}]
  /\ depths = [r \in Readers |-> None] /\ gauge = 0
  /\ wcall = [w \in Writers |-> None] /\ rcount = [r \in Readers |-> None]

\* A callback has locked the reader it counts.
Locked(r) == \E w \in Writers : wcall[w] # None /\ wcall[w].reader = r /\ wcall[w].count # None

\* A Publish keeps the mailboxes it collected until it returns.
Publishing(w) == todo[w] # {} \/ wcall[w] # None

\* A mailbox lives while its reader, or a Publish, holds it.
MailboxAlive(r) == rpc[r] = "open" \/ Locked(r) \/ \E w \in Writers : Publishing(w) /\ r \in held[w]

\* A channel lives while an endpoint, or one being created, holds it.
ChannelAlive(c) == \/ \E r \in Readers : rchan[r] = c
                   \/ \E w \in Writers : wchan[w] = c

\* GoneLocked: a reader-owned topic that had readers and lost them all.
Gone(c) == ReaderOwned /\ members[c] # {} /\ \A r \in members[c] : ~MailboxAlive(r)
-----------------------------------------------------------------------------
(* The transport *)

Open ==
  /\ open' = TRUE /\ ~open
  /\ UNCHANGED <<topic, current, created, channels, readers, writers, observer>>

\* TopicChannel::Close closes the mailboxes too.
CloseChannel(c) ==
  /\ closed' = closed \cup {c}
  /\ shut' = shut \cup {r \in members[c] : MailboxAlive(r)}
  /\ members' = [members EXCEPT ![c] = {}]

\* Close the channel, if it lives, and forget it.
CloseTransport ==
  /\ open /\ open' = FALSE
  /\ IF current # NoChannel /\ ChannelAlive(current) THEN CloseChannel(current)
                                                   ELSE UNCHANGED <<closed, shut, members>>
  /\ current' = NoChannel
  /\ UNCHANGED <<topic, created, rank, nextSeq, rpc, rchan, mailbox, received, writers, observer>>

\* GetOrCreateChannel: the named channel if it still lives and is not gone, else
\* a fresh one, which a writer of a reader-owned topic may not create.
Mut_Usable == current # NoChannel /\ \E w \in Writers : wchan[w] = current
Usable == current # NoChannel /\ ChannelAlive(current) /\ ~Gone(current)
MayCreate(isWriter) == ~(isWriter /\ ReaderOwned)

GetOrCreateChannel(isWriter) ==
  /\ open
  /\ \/ Usable /\ UNCHANGED <<current, created>>
     \/ /\ ~Usable /\ MayCreate(isWriter) /\ created < MaxChannels
        /\ created' = created + 1 /\ current' = created + 1
     \/ /\ ~Usable /\ ~MayCreate(isWriter)
        /\ current' = NoChannel /\ UNCHANGED created
  /\ UNCHANGED <<topic, open>>
-----------------------------------------------------------------------------
(* Readers *)

\* CreateReader: find the channel, then register the mailbox with it.
CreateReader(r) ==
  /\ rpc[r] = "new"
  /\ GetOrCreateChannel(FALSE)
  /\ rpc' = [rpc EXCEPT ![r] = "adding"]
  /\ rchan' = [rchan EXCEPT ![r] = current']
  /\ UNCHANGED <<channels, mailbox, shut, received, writers, observer>>

AddReader(r) ==
  /\ rpc[r] = "adding"
  /\ IF rchan[r] \in closed
     THEN /\ rpc' = [rpc EXCEPT ![r] = "over"]
          /\ rchan' = [rchan EXCEPT ![r] = NoChannel]
          /\ UNCHANGED <<members, rank>>
     ELSE /\ rpc' = [rpc EXCEPT ![r] = "open"]
          /\ members' = [members EXCEPT ![rchan[r]] = @ \cup {r}]
          /\ rank' = [rank EXCEPT ![r] = 1 + Cardinality({q \in Readers : rank[q] # 0})]
          /\ UNCHANGED rchan
  /\ UNCHANGED <<transport, closed, nextSeq, mailbox, shut, received, writers, observer>>

Registered == {r \in Readers : depths[r] # None}
Total(d) == MapThenSumSet(LAMBDA r : d[r], {r \in Readers : d[r] # None})
AddDepth(r) == depths' = [depths EXCEPT ![r] = 0] /\ UNCHANGED gauge

\* ObservedReader: register with the queue depths, and install the callback.
Observe(r) ==
  /\ topic.observed /\ rpc[r] = "open" /\ r \notin Registered
  /\ AddDepth(r)
  /\ UNCHANGED <<transport, channels, readers, writers, wcall, rcount>>

\* A reader's new count, unless it is gone.
Mut_Update(r, n) ==
  /\ depths' = IF r \in Registered THEN [depths EXCEPT ![r] = n] ELSE depths
  /\ gauge' = Total([depths EXCEPT ![r] = n])
Update(r, n) ==
  IF r \in Registered
  THEN LET updated == [depths EXCEPT ![r] = n]
       IN  depths' = updated /\ gauge' = Total(updated)
  ELSE UNCHANGED <<depths, gauge>>

RemoveDepth(r) ==
  IF r \in Registered
  THEN LET rest == [depths EXCEPT ![r] = None]
       IN  depths' = rest /\ gauge' = Total(rest)
  ELSE UNCHANGED <<depths, gauge>>

\* The reader is constructed and in no call.
MayCall(r) == rpc[r] = "open" /\ rcount[r] = None /\ (topic.observed => r \in Registered)

Read(r) ==
  /\ MayCall(r) /\ mailbox[r] # << >>
  /\ received' = [received EXCEPT ![r] = Append(@, Head(mailbox[r]))]
  /\ mailbox' = [mailbox EXCEPT ![r] = Tail(@)]
  /\ rcount' = [rcount EXCEPT ![r] = IF topic.observed THEN [count |-> None] ELSE None]
  /\ UNCHANGED <<transport, channels, rpc, rchan, shut, writers, depths, gauge, wcall>>

\* RecordQueueDepth, after a Read: count what is pending, then record it.
CountPending(r) ==
  /\ rcount[r] # None /\ rcount[r].count = None
  /\ rcount' = [rcount EXCEPT ![r].count = Len(mailbox[r])]
  /\ UNCHANGED <<transport, channels, readers, writers, depths, gauge, wcall>>

RecordPending(r) ==
  /\ rcount[r] # None /\ rcount[r].count # None
  /\ Update(r, rcount[r].count)
  /\ rcount' = [rcount EXCEPT ![r] = None]
  /\ UNCHANGED <<transport, channels, readers, writers, wcall>>

\* ~InMemoryReader closes the mailbox and drops the channel.
Dies(r) == shut' = shut \cup {r} /\ rchan' = [rchan EXCEPT ![r] = NoChannel]

\* ~ObservedReader forgets its count; the reader dies with it, or with the
\* callback that has it locked.
DestroyReader(r) ==
  /\ MayCall(r)
  /\ rpc' = [rpc EXCEPT ![r] = "over"]
  /\ RemoveDepth(r)
  /\ IF Locked(r) THEN UNCHANGED <<shut, rchan>> ELSE Dies(r)
  /\ UNCHANGED <<transport, channels, mailbox, received, writers, wcall, rcount>>
-----------------------------------------------------------------------------
(* Writers *)

\* CreateWriter: NotFound when the topic belongs to a reader that is not there.
CreateWriter(w) ==
  /\ wpc[w] = "new"
  /\ GetOrCreateChannel(TRUE)
  /\ wchan' = [wchan EXCEPT ![w] = current']
  /\ wpc' = [wpc EXCEPT ![w] = IF current' = NoChannel THEN "new" ELSE "open"]
  /\ UNCHANGED <<channels, readers, msg, held, todo, observer>>

\* The writer is open and in no Write.
Free(w) == wpc[w] = "open" /\ ~Publishing(w)

\* Publish numbers the message and collects the live readers under the lock.
Publish(w) ==
  LET c == wchan[w]
  IN  /\ Free(w)
      /\ c \notin closed /\ ~Gone(c)
      /\ nextSeq[c] <= MaxSeq
      /\ msg' = [msg EXCEPT ![w] = [seq |-> nextSeq[c], from |-> w]]
      /\ nextSeq' = [nextSeq EXCEPT ![c] = @ + 1]
      /\ members' = [members EXCEPT ![c] = {r \in @ : MailboxAlive(r)}]
      /\ held' = [held EXCEPT ![w] = members'[c]]
      /\ todo' = [todo EXCEPT ![w] = members'[c]]
      /\ UNCHANGED <<transport, closed, rank, readers, wpc, wchan, observer>>

Full(r) == Len(mailbox[r]) >= Capacity[r]

\* What one push makes of a mailbox; a blocking writer waits for space first.
Mut_Stored(r, m) ==
  CASE Policy[r] = "latest" -> <<m>>
    [] Policy[r] = "keep_all" \/ (Policy[r] # "latest" /\ ~Full(r)) -> <<m>> \o mailbox[r]
    [] Policy[r] = "drop_oldest" /\ Full(r) -> Append(Tail(mailbox[r]), m)
    [] OTHER -> mailbox[r]
Stored(r, m) ==
  CASE Policy[r] = "latest" -> <<m>>
    [] Policy[r] = "keep_all" -> Append(mailbox[r], m)
    [] Policy[r] \notin {"latest", "keep_all"} /\ ~Full(r) -> Append(mailbox[r], m)
    [] Policy[r] = "drop_oldest" /\ Full(r) -> Append(Tail(mailbox[r]), m)
    [] Policy[r] \in {"drop_newest", "reject"} /\ Full(r) -> mailbox[r]

\* Push into the next mailbox, in the order of registration, or be refused by one
\* that was closed, also while blocked on it.
Mut_MayPush(r) == Policy[r] = "block" => ~Full(r)
MayPush(r) == r \in shut \/ (Policy[r] = "block" => ~Full(r))

\* A push that is not refused ends by calling the callback of an observed reader.
Calls(r) == (r \in Registered \/ rpc[r] = "over") /\ r \notin shut /\ ~(Policy[r] = "reject" /\ Full(r))

NextOf(w) == {r \in todo[w] : \A q \in todo[w] : rank[r] <= rank[q]}

Push(w) ==
  /\ wcall[w] = None
  /\ \E r \in NextOf(w) :
       /\ MayPush(r)
       /\ mailbox' = IF r \in shut THEN mailbox ELSE [mailbox EXCEPT ![r] = Stored(r, msg[w])]
       /\ wcall' = IF Calls(r) THEN [wcall EXCEPT ![w] = [reader |-> r, count |-> None]] ELSE wcall
       /\ todo' = [todo EXCEPT ![w] = @ \ {r}]
  /\ UNCHANGED <<transport, channels, rpc, rchan, shut, received, wpc, wchan, msg, held,
                 depths, gauge, rcount>>

\* The callback, outside every lock: lock the reader, unless it is gone, and
\* count what is pending.
CallbackCounts(w) ==
  /\ wcall[w] # None /\ wcall[w].count = None
  /\ LET r == wcall[w].reader
     IN  wcall' = [wcall EXCEPT ![w] = IF rpc[r] = "open" \/ Locked(r)
                                       THEN [@ EXCEPT !.count = Len(mailbox[r])] ELSE None]
  /\ UNCHANGED <<transport, channels, readers, writers, depths, gauge, rcount>>

\* It records the count, and lets go of the reader.
CallbackRecords(w) ==
  /\ wcall[w] # None /\ wcall[w].count # None
  /\ LET r == wcall[w].reader
     IN  /\ Update(r, wcall[w].count)
         /\ wcall' = [wcall EXCEPT ![w] = None]
         /\ IF rpc[r] = "over" /\ ~Locked(r)' THEN Dies(r) ELSE UNCHANGED <<shut, rchan>>
  /\ UNCHANGED <<transport, channels, rpc, mailbox, received, writers, rcount>>

DestroyWriter(w) ==
  /\ Free(w)
  /\ wpc' = [wpc EXCEPT ![w] = "over"] /\ wchan' = [wchan EXCEPT ![w] = NoChannel]
  /\ UNCHANGED <<transport, channels, readers, msg, held, todo, observer>>
-----------------------------------------------------------------------------
ReaderGoesOn(r) == Read(r) \/ CountPending(r) \/ RecordPending(r)
ReaderStep(r) == CreateReader(r) \/ AddReader(r) \/ Observe(r) \/ ReaderGoesOn(r) \/ DestroyReader(r)
WriterGoesOn(w) == Push(w) \/ CallbackCounts(w) \/ CallbackRecords(w)
WriterStep(w) == CreateWriter(w) \/ Publish(w) \/ WriterGoesOn(w) \/ DestroyWriter(w)

Next ==
  \/ Open \/ CloseTransport
  \/ \E r \in Readers : ReaderStep(r)
  \/ \E w \in topic.writers : WriterStep(w)

Spec == Init /\ [][Next]_vars

\* A push that can go on does, and readers keep reading what they are given.
FairSpec ==
  /\ Spec
  /\ \A w \in Writers : WF_vars(WriterGoesOn(w))
  /\ \A r \in Readers : WF_vars(ReaderGoesOn(r))
-----------------------------------------------------------------------------
(* Properties *)

Before(s, P(_, _)) == \A i, j \in 1 .. Len(s) : i < j => P(s[i], s[j])

\* What a reader got and still has: never a message twice, and the messages of
\* one writer in the order it wrote them.
WriterOrder ==
  \A r \in Readers :
    Before(received[r] \o mailbox[r],
           LAMBDA m, n : m # n /\ (m.from = n.from => m.seq < n.seq))

\* A live reader is on the channel the transport names, so that "a writer fans
\* out one published message to every live reader on the topic".
OneChannel ==
  open => \A r \in Readers : rpc[r] = "open" /\ r \notin shut => rchan[r] = current

\* It holds of every topic whose channel does not belong to a reader; and closing
\* the transport leaves no reader of such a topic that could still block a writer,
\* or wait for a message that cannot come.
SharedOneChannel ==
  ~ReaderOwned =>
    /\ OneChannel
    /\ ~open => \A r \in Readers : rpc[r] = "open" => r \in shut

\* A reader that is gone is not counted: once no reader is registered the topic's
\* queue depth is 0, whatever callbacks that counted it are still to record.
GoneNotCounted == Registered = {} => gauge = 0

\* A blocked writer gets on: the reader takes a message, closes, or is closed.
WritersFinish == \A w \in Writers : todo[w] # {} ~> todo[w] = {}
=============================================================================
