------------------------ MODULE InMemoryTopicProofs -------------------------
(***************************************************************************)
(* Proofs about InMemoryTopic for any readers, writers and configurations: *)
(* every reader gets the messages of a writer in order and none twice, the *)
(* endpoints of a shared topic meet on one channel that Close reaches, and *)
(* readers that are gone are not counted.                                  *)
(*                                                                         *)
(* Order rests on the number a message gets under the channel's mutex:     *)
(* what a reader has of a writer is not newer than the writer's last       *)
(* message, and older as long as the push of that message is still owed.   *)
(***************************************************************************)
EXTENDS InMemoryTopic, SequenceTheorems, TLAPS

Messages == [seq : Nat, from : Writers]

MessagesOK ==
  /\ mailbox \in [Readers -> Seq(Messages)] /\ received \in [Readers -> Seq(Messages)]
  /\ msg = [w \in Writers |-> msg[w]] /\ \A w \in Writers : msg[w].seq \in Nat
  /\ todo \in [Writers -> SUBSET Readers] /\ members \in [Channels -> SUBSET Readers]
  /\ nextSeq \in [Channels -> Nat \ {0}]
EndpointsOK ==
  /\ topic \in Topics /\ created \in 0 .. MaxChannels /\ current \in 0 .. created
  /\ rpc \in [Readers -> {"new", "adding", "open", "over"}]
  /\ rchan \in [Readers -> {NoChannel} \cup Channels]
  /\ \A r \in Readers : rpc[r] \in {"adding", "open"} => rchan[r] \in Channels
  /\ wpc \in [Writers -> {"new", "open", "over"}]
  /\ wchan \in [Writers -> {NoChannel} \cup Channels]
  /\ \A w \in Writers : wpc[w] = "open" => wchan[w] \in Channels
TypeOK == MessagesOK /\ EndpointsOK

\* The writer's last message is numbered, and the next one has a higher number.
Numbered(w) ==
  /\ wpc[w] = "new" => msg[w].seq = 0
  /\ wpc[w] = "open" => msg[w].seq < nextSeq[wchan[w]]
  /\ todo[w] # {} => wpc[w] = "open" /\ msg[w] \in Messages /\ msg[w].from = w

\* r has the message m, which its writer published and no longer owes it.
Had(r, m) ==
  /\ m.seq <= msg[m.from].seq
  /\ r \in todo[m.from] => m.seq < msg[m.from].seq

Follows(m, n) == m # n /\ (m.from = n.from => m.seq < n.seq)
Sorted(s) == \A i, j \in 1 .. Len(s) : i < j => Follows(s[i], s[j])
Across(s, t) == \A i \in 1 .. Len(s), j \in 1 .. Len(t) : Follows(s[i], t[j])

ReaderOrder(r) ==
  /\ \A i \in 1 .. Len(received[r]) : Had(r, received[r][i])
  /\ \A i \in 1 .. Len(mailbox[r]) : Had(r, mailbox[r][i])
  /\ Sorted(received[r]) /\ Sorted(mailbox[r]) /\ Across(received[r], mailbox[r])

OrderInv == (\A w \in Writers : Numbered(w)) /\ \A r \in Readers : ReaderOrder(r)

\* A reader of a shared topic that was not closed, or is about to register, is on
\* the channel that the open transport names; and that channel knows it.
OnChannel(r) ==
  /\ rpc[r] = "adding" => rchan[r] \in closed \/ (open /\ rchan[r] = current)
  /\ rpc[r] = "open" /\ r \notin shut =>
       open /\ rchan[r] = current /\ r \in members[current]

ChannelInv == ~ReaderOwned => \A r \in Readers : OnChannel(r)

\* The inductive invariant.
TopicInv == TypeOK /\ OrderInv /\ ChannelInv /\ GoneNotCounted
-----------------------------------------------------------------------------
(* Messages of one reader *)

\* What is left of an ordered mailbox without its first message is ordered, and
\* that message precedes it.
LEMMA TailOrdered ==
  ASSUME NEW s \in Seq(Messages), NEW t \in Seq(Messages), t # << >>,
         Sorted(s), Sorted(t), Across(s, t)
  PROVE  /\ Sorted(Tail(t)) /\ Across(s, Tail(t))
         /\ Sorted(Append(s, Head(t))) /\ Across(Append(s, Head(t)), Tail(t))
<1>1. /\ Tail(t) \in Seq(Messages) /\ Len(Tail(t)) = Len(t) - 1 /\ Len(t) \in Nat /\ Len(t) > 0
      /\ \A i \in 1 .. Len(t) - 1 : Tail(t)[i] = t[i + 1]
      /\ Head(t) = t[1] /\ Head(t) \in Messages
  OBVIOUS
<1>2. /\ Len(Append(s, Head(t))) = Len(s) + 1 /\ Len(s) \in Nat
      /\ \A i \in 1 .. Len(s) : Append(s, Head(t))[i] = s[i]
      /\ Append(s, Head(t))[Len(s) + 1] = t[1]
  BY <1>1
<1>3. Sorted(Tail(t)) /\ Across(s, Tail(t))
  BY <1>1 DEF Sorted, Across
<1>4. Sorted(Append(s, Head(t)))
  <2> SUFFICES ASSUME NEW i \in 1 .. Len(s) + 1, NEW j \in 1 .. Len(s) + 1, i < j
               PROVE  Follows(Append(s, Head(t))[i], Append(s, Head(t))[j])
    BY <1>2 DEF Sorted
  <2>1. i \in 1 .. Len(s)
    BY <1>2
  <2>2. CASE j = Len(s) + 1
    BY <2>1, <2>2, <1>2, <1>1 DEF Across
  <2>3. CASE j # Len(s) + 1
    <3>1. j \in 1 .. Len(s)
      BY <2>3, <1>2
    <3> QED BY <3>1, <2>1, <1>2 DEF Sorted
  <2> QED BY <2>2, <2>3
<1>5. Across(Append(s, Head(t)), Tail(t))
  <2> SUFFICES ASSUME NEW i \in 1 .. Len(s) + 1, NEW j \in 1 .. Len(t) - 1
               PROVE  Follows(Append(s, Head(t))[i], t[j + 1])
    BY <1>1, <1>2 DEF Across
  <2>1. CASE i = Len(s) + 1
    BY <2>1, <1>1, <1>2 DEF Sorted
  <2>2. CASE i # Len(s) + 1
    <3>1. i \in 1 .. Len(s) /\ j + 1 \in 1 .. Len(t)
      BY <2>2, <1>1, <1>2
    <3> QED BY <3>1, <1>2 DEF Across
  <2> QED BY <2>1, <2>2
<1> QED BY <1>3, <1>4, <1>5

\* A message that follows all of a mailbox may be appended to it.
LEMMA AppendOrdered ==
  ASSUME NEW s \in Seq(Messages), NEW t \in Seq(Messages), NEW m \in Messages,
         Sorted(t), Across(s, t),
         \A i \in 1 .. Len(s) : Follows(s[i], m), \A i \in 1 .. Len(t) : Follows(t[i], m)
  PROVE  Sorted(Append(t, m)) /\ Across(s, Append(t, m))
<1>1. /\ Len(Append(t, m)) = Len(t) + 1 /\ Len(t) \in Nat /\ Len(s) \in Nat
      /\ \A i \in 1 .. Len(t) : Append(t, m)[i] = t[i]
      /\ Append(t, m)[Len(t) + 1] = m
  OBVIOUS
<1>2. Sorted(Append(t, m))
  <2> SUFFICES ASSUME NEW i \in 1 .. Len(t) + 1, NEW j \in 1 .. Len(t) + 1, i < j
               PROVE  Follows(Append(t, m)[i], Append(t, m)[j])
    BY <1>1 DEF Sorted
  <2>1. i \in 1 .. Len(t)
    BY <1>1
  <2>2. CASE j = Len(t) + 1
    BY <2>1, <2>2, <1>1
  <2>3. CASE j # Len(t) + 1
    <3>1. j \in 1 .. Len(t)
      BY <2>3, <1>1
    <3> QED BY <3>1, <2>1, <1>1 DEF Sorted
  <2> QED BY <2>2, <2>3
<1>3. Across(s, Append(t, m))
  <2> SUFFICES ASSUME NEW i \in 1 .. Len(s), NEW j \in 1 .. Len(t) + 1
               PROVE  Follows(s[i], Append(t, m)[j])
    BY <1>1 DEF Across
  <2>1. CASE j = Len(t) + 1
    BY <2>1, <1>1
  <2>2. CASE j # Len(t) + 1
    <3>1. j \in 1 .. Len(t)
      BY <2>2, <1>1
    <3> QED BY <3>1, <1>1 DEF Across
  <2> QED BY <2>1, <2>2
<1> QED BY <1>2, <1>3

\* What a reader got and what it still has, one after the other.
LEMMA JoinedOrdered ==
  ASSUME NEW s \in Seq(Messages), NEW t \in Seq(Messages), Sorted(s), Sorted(t), Across(s, t)
  PROVE  Sorted(s \o t)
<1>1. /\ Len(s \o t) = Len(s) + Len(t) /\ Len(s) \in Nat /\ Len(t) \in Nat
      /\ \A i \in 1 .. Len(s) + Len(t) : (s \o t)[i] = IF i <= Len(s) THEN s[i] ELSE t[i - Len(s)]
  BY ConcatProperties
<1> SUFFICES ASSUME NEW i \in 1 .. Len(s) + Len(t), NEW j \in 1 .. Len(s) + Len(t), i < j
             PROVE  Follows((s \o t)[i], (s \o t)[j])
  BY <1>1 DEF Sorted
<1>2. CASE j <= Len(s)
  <2>1. i \in 1 .. Len(s) /\ j \in 1 .. Len(s)
    BY <1>2, <1>1
  <2> QED BY <2>1, <1>1 DEF Sorted
<1>3. CASE i <= Len(s) /\ j > Len(s)
  <2>1. i \in 1 .. Len(s) /\ j - Len(s) \in 1 .. Len(t)
    BY <1>3, <1>1
  <2> QED BY <2>1, <1>3, <1>1 DEF Across
<1>4. CASE i > Len(s)
  <2>1. i - Len(s) \in 1 .. Len(t) /\ j - Len(s) \in 1 .. Len(t) /\ i - Len(s) < j - Len(s) /\ j > Len(s)
    BY <1>4, <1>1
  <2> QED BY <2>1, <1>4, <1>1 DEF Sorted
<1> QED BY <1>2, <1>3, <1>4, <1>1
-----------------------------------------------------------------------------
(* Queue depths *)

\* The total of no counts is 0: the fold of the empty set.
LEMMA EmptyTotal == ASSUME NEW d, \A r \in Readers : d[r] = None PROVE Total(d) = 0
<1>1. {r \in Readers : d[r] # None} = {}
  OBVIOUS
<1> DEFINE F(g) == g = [s \in SUBSET {} |->
                          IF s = {} THEN 0
                          ELSE d[CHOOSE x \in s : TRUE] + g[s \ {CHOOSE x \in s : TRUE}]]
           iter == CHOOSE g : F(g)
<1>2. Total(d) = iter[{}]
  BY <1>1 DEF Total, MapThenSumSet, MapThenFoldSet
<1>3. F([s \in SUBSET {} |-> 0])
  OBVIOUS
<1>4. F(iter)
  BY <1>3, Zenon
<1> HIDE DEF iter
<1>5. iter[{}] = 0
  BY <1>4
<1> QED BY <1>2, <1>5

\* A total is recorded with the counts it is the total of.
LEMMA TotalKeeps ==
  ASSUME NEW d, depths' = d, gauge' = Total(d)
  PROVE  GoneNotCounted'
BY EmptyTotal DEF GoneNotCounted, Registered

\* Update, of a reader that is counted or gone.
LEMMA UpdateKeeps ==
  ASSUME NEW r, NEW n, GoneNotCounted, Update(r, n) PROVE GoneNotCounted'
<1>1. CASE r \in Registered
  BY <1>1, TotalKeeps DEF Update
<1>2. CASE r \notin Registered
  BY <1>2 DEF Update, GoneNotCounted, Registered
<1> QED BY <1>1, <1>2

\* RemoveDepth, at the end of a reader.
LEMMA RemoveKeeps ==
  ASSUME NEW r, GoneNotCounted, RemoveDepth(r) PROVE GoneNotCounted'
<1>1. CASE r \in Registered
  BY <1>1, TotalKeeps DEF RemoveDepth
<1>2. CASE r \notin Registered
  BY <1>2 DEF RemoveDepth, GoneNotCounted, Registered
<1> QED BY <1>1, <1>2
-----------------------------------------------------------------------------
(* Steps that leave the messages, or the channels, alone *)

\* The new topic.
LEMMA InitTopic == Init => TopicInv
<1> SUFFICES ASSUME Init PROVE TopicInv
  OBVIOUS
<1> USE TopicAssumption
<1>1. MessagesOK
  BY DEF Init, MessagesOK, NoMessage, Channels
<1>2. EndpointsOK
  BY DEF Init, EndpointsOK, NoChannel
<1>3. OrderInv
  BY DEF Init, OrderInv, Numbered, ReaderOrder, Sorted, Across, NoMessage
<1>4. ChannelInv
  BY DEF Init, ChannelInv, OnChannel
<1>5. GoneNotCounted
  BY DEF Init, GoneNotCounted
<1> QED BY <1>1, <1>2, <1>3, <1>4, <1>5 DEF TopicInv, TypeOK

\* No message moves, and no writer.
LEMMA OrderFrame ==
  ASSUME OrderInv, UNCHANGED <<received, mailbox, msg, todo, nextSeq, wpc, wchan>>
  PROVE  OrderInv'
BY DEF OrderInv, Numbered, ReaderOrder, Had

\* No reader moves, and no channel.
LEMMA ChannelFrame ==
  ASSUME ChannelInv, UNCHANGED <<topic, open, current, closed, members, rpc, rchan, shut>>
  PROVE  ChannelInv'
BY DEF ChannelInv, OnChannel, ReaderOwned

\* Nobody counts.
LEMMA DepthFrame ==
  ASSUME GoneNotCounted, UNCHANGED <<depths, gauge>> PROVE GoneNotCounted'
BY DEF GoneNotCounted, Registered

\* Observe, the two halves of RecordQueueDepth, and the callback's count: only
\* the observer changes.
LEMMA ObserverKeeps ==
  ASSUME TopicInv, UNCHANGED <<transport, channels, readers, writers>>, GoneNotCounted'
  PROVE  TopicInv'
<1>1. TypeOK'
  BY DEF TopicInv, TypeOK, MessagesOK, EndpointsOK, transport, channels, readers, writers
<1>2. OrderInv'
  BY OrderFrame DEF TopicInv, channels, readers, writers
<1>3. ChannelInv'
  BY ChannelFrame DEF TopicInv, transport, channels, readers
<1> QED BY <1>1, <1>2, <1>3 DEF TopicInv

\* The steps of a reader that is counted.
LEMMA CountsKeep ==
  ASSUME TopicInv, NEW r \in Readers, Observe(r) \/ CountPending(r) \/ RecordPending(r)
  PROVE  TopicInv'
<1>1. UNCHANGED <<transport, channels, readers, writers>>
  BY DEF Observe, CountPending, RecordPending
<1>2. GoneNotCounted'
  <2>1. CASE Observe(r)
    BY <2>1 DEF TopicInv, Observe, AddDepth, GoneNotCounted, Registered
  <2>2. CASE CountPending(r)
    BY <2>2, DepthFrame DEF TopicInv, CountPending
  <2>3. CASE RecordPending(r)
    BY <2>3, UpdateKeeps DEF TopicInv, RecordPending
  <2> QED BY <2>1, <2>2, <2>3
<1> QED BY <1>1, <1>2, ObserverKeeps

\* The callback counts the mailbox and records nothing yet.
LEMMA CallbackCountsKeeps ==
  ASSUME TopicInv, NEW w \in Writers, CallbackCounts(w) PROVE TopicInv'
<1>1. UNCHANGED <<transport, channels, readers, writers>> /\ UNCHANGED <<depths, gauge>>
  BY DEF CallbackCounts
<1> QED BY <1>1, DepthFrame, ObserverKeeps DEF TopicInv

\* Open the transport: no reader of a shared topic was left open.
LEMMA OpenKeeps == ASSUME TopicInv, Open PROVE TopicInv'
<1>1. TypeOK'
  BY DEF Open, TopicInv, TypeOK, MessagesOK, EndpointsOK, channels, readers, writers
<1>2. OrderInv'
  BY OrderFrame DEF Open, TopicInv, channels, readers, writers
<1>3. ChannelInv'
  BY DEF Open, TopicInv, ChannelInv, OnChannel, ReaderOwned, channels, readers
<1>4. GoneNotCounted'
  BY DepthFrame DEF Open, TopicInv, observer
<1> QED BY <1>1, <1>2, <1>3, <1>4 DEF TopicInv

\* Close the transport: the named channel lives as long as a reader is on it, and
\* knows the reader.
LEMMA CloseTransportKeeps == ASSUME TopicInv, CloseTransport PROVE TopicInv'
<1> DEFINE closes == current # NoChannel /\ ChannelAlive(current)
<1>0. /\ open /\ open' = FALSE /\ current' = NoChannel
      /\ UNCHANGED <<topic, created, rank, nextSeq, rpc, rchan, mailbox, received>>
      /\ UNCHANGED writers /\ UNCHANGED observer
      /\ IF closes THEN CloseChannel(current) ELSE UNCHANGED <<closed, shut, members>>
  BY DEF CloseTransport
<1>1. TypeOK'
  <2>1. members' \in [Channels -> SUBSET Readers]
    BY <1>0 DEF CloseChannel, TopicInv, TypeOK, MessagesOK
  <2> QED BY <2>1, <1>0 DEF TopicInv, TypeOK, MessagesOK, EndpointsOK, writers, NoChannel
<1>2. OrderInv'
  BY <1>0, OrderFrame DEF TopicInv, writers
<1>3. ChannelInv'
  <2> SUFFICES ASSUME ~ReaderOwned, NEW r \in Readers PROVE OnChannel(r)'
    BY <1>0 DEF ChannelInv, ReaderOwned
  <2>1. OnChannel(r)
    BY DEF TopicInv, ChannelInv
  <2>2. CASE rpc[r] = "adding"
    <3>1. rchan[r] \in Channels
      BY <2>2 DEF TopicInv, TypeOK, EndpointsOK
    <3>2. CASE rchan[r] \in closed
      BY <3>2, <2>2, <1>0 DEF OnChannel, CloseChannel
    <3>3. CASE rchan[r] = current
      <4>1. closes
        BY <3>1, <3>3 DEF ChannelAlive, Channels, NoChannel
      <4> QED BY <4>1, <3>3, <2>2, <1>0 DEF OnChannel, CloseChannel
    <3> QED BY <3>2, <3>3, <2>1, <2>2 DEF OnChannel
  <2>3. CASE rpc[r] = "open"
    <3>1. rchan[r] \in Channels
      BY <2>3 DEF TopicInv, TypeOK, EndpointsOK
    <3>2. CASE r \in shut
      BY <3>2, <2>3, <1>0 DEF OnChannel, CloseChannel
    <3>3. CASE r \notin shut
      <4>1. rchan[r] = current /\ r \in members[current]
        BY <3>3, <2>3, <2>1 DEF OnChannel
      <4>2. closes
        BY <3>1, <4>1 DEF ChannelAlive, Channels, NoChannel
      <4>3. r \in shut'
        BY <4>1, <4>2, <2>3, <1>0 DEF CloseChannel, MailboxAlive
      <4> QED BY <4>3, <2>3, <1>0 DEF OnChannel
    <3> QED BY <3>2, <3>3
  <2>4. CASE rpc[r] \notin {"adding", "open"}
    BY <2>4, <1>0 DEF OnChannel
  <2> QED BY <2>2, <2>3, <2>4
<1>4. GoneNotCounted'
  BY <1>0, DepthFrame DEF TopicInv, observer
<1> QED BY <1>1, <1>2, <1>3, <1>4 DEF TopicInv
-----------------------------------------------------------------------------
(* Endpoints come and go *)

\* The channel an endpoint finds or creates; a reader always finds one, and the
\* named channel of a shared topic is only replaced when nobody is on it.
LEMMA FoundChannel ==
  ASSUME TopicInv, NEW isWriter \in BOOLEAN, GetOrCreateChannel(isWriter)
  PROVE  /\ created' \in 0 .. MaxChannels /\ current' \in 0 .. created' /\ topic' = topic
         /\ ~isWriter => current' \in Channels
         /\ current' # NoChannel => current' \in Channels
         /\ open' = open /\ open
         /\ ~ReaderOwned /\ current' # current => \A r \in Readers : rchan[r] = current => current = NoChannel
<1> USE TopicAssumption
<1>0. created \in 0 .. MaxChannels /\ current \in 0 .. created
  BY DEF TopicInv, TypeOK, EndpointsOK
<1>1. CASE Usable /\ UNCHANGED <<current, created>>
  BY <1>0, <1>1 DEF GetOrCreateChannel, Usable, Channels, NoChannel
<1>2. CASE ~Usable
  <2>1. \/ created < MaxChannels /\ created' = created + 1 /\ current' = created + 1
        \/ ~MayCreate(isWriter) /\ current' = NoChannel /\ created' = created
    BY <1>2 DEF GetOrCreateChannel
  <2>2. ~ReaderOwned => MayCreate(isWriter) /\ (current # NoChannel => ~ChannelAlive(current))
    BY <1>2 DEF Usable, Gone, MayCreate
  <2>3. ~isWriter => MayCreate(isWriter)
    BY DEF MayCreate
  <2>4. ~ReaderOwned => \A r \in Readers : rchan[r] = current => current = NoChannel
    BY <2>2 DEF ChannelAlive
  <2> QED BY <2>1, <2>3, <2>4, <1>0 DEF GetOrCreateChannel, Channels, NoChannel
<1> QED BY <1>1, <1>2 DEF GetOrCreateChannel

\* The readers that are on a channel are still on the named one after it.
LEMMA FoundKeeps ==
  ASSUME TopicInv, NEW isWriter \in BOOLEAN, GetOrCreateChannel(isWriter), NEW r \in Readers,
         ~ReaderOwned, rpc[r] \in {"adding", "open"},
         rpc'[r] = rpc[r], rchan'[r] = rchan[r], UNCHANGED <<closed, members, shut>>
  PROVE  OnChannel(r)'
<1>1. OnChannel(r) /\ rchan[r] \in Channels
  BY DEF TopicInv, ChannelInv, TypeOK, EndpointsOK
<1>2. rchan[r] # NoChannel
  BY <1>1, TopicAssumption DEF Channels, NoChannel
<1>3. rchan[r] = current => current' = current
  BY <1>2, FoundChannel
<1>4. open' = open
  BY FoundChannel
<1> QED BY <1>1, <1>3, <1>4 DEF OnChannel

\* A reader that found or made its channel has still to register with it.
LEMMA CreateReaderKeeps ==
  ASSUME TopicInv, NEW r \in Readers, CreateReader(r) PROVE TopicInv'
<1>0. /\ rpc[r] = "new" /\ GetOrCreateChannel(FALSE)
      /\ rpc' = [rpc EXCEPT ![r] = "adding"] /\ rchan' = [rchan EXCEPT ![r] = current']
      /\ UNCHANGED channels /\ UNCHANGED <<mailbox, shut, received>>
      /\ UNCHANGED writers /\ UNCHANGED observer
  BY DEF CreateReader
<1>1. /\ created' \in 0 .. MaxChannels /\ current' \in 0 .. created'
      /\ current' \in Channels /\ topic' = topic /\ open' = open /\ open
  BY <1>0, FoundChannel
<1>2. TypeOK'
  BY <1>0, <1>1 DEF TopicInv, TypeOK, MessagesOK, EndpointsOK, channels, writers
<1>3. OrderInv'
  BY <1>0, OrderFrame DEF TopicInv, channels, writers
<1>4. ChannelInv'
  <2> SUFFICES ASSUME ~ReaderOwned, NEW q \in Readers PROVE OnChannel(q)'
    BY <1>1 DEF ChannelInv, ReaderOwned
  <2>1. rpc \in [Readers -> {"new", "adding", "open", "over"}] /\ DOMAIN rchan = Readers
    BY DEF TopicInv, TypeOK, EndpointsOK
  <2>2. CASE q = r
    BY <2>1, <2>2, <1>0, <1>1 DEF OnChannel
  <2>3. CASE q # r
    <3>1. rpc'[q] = rpc[q] /\ rchan'[q] = rchan[q]
      BY <2>1, <2>3, <1>0
    <3>2. CASE rpc[q] \in {"adding", "open"}
      BY <3>1, <3>2, <1>0, FoundKeeps DEF channels
    <3>3. CASE rpc[q] \notin {"adding", "open"}
      BY <3>1, <3>3 DEF OnChannel
    <3> QED BY <3>2, <3>3
  <2> QED BY <2>2, <2>3
<1>5. GoneNotCounted'
  BY <1>0, DepthFrame DEF TopicInv, observer
<1> QED BY <1>2, <1>3, <1>4, <1>5 DEF TopicInv

\* A reader registers with a channel that is not closed; no push to it is owed.
LEMMA AddReaderKeeps ==
  ASSUME TopicInv, NEW r \in Readers, AddReader(r) PROVE TopicInv'
<1>0. /\ rpc[r] = "adding" /\ UNCHANGED <<closed, nextSeq, mailbox, shut, received>>
      /\ UNCHANGED transport /\ UNCHANGED writers /\ UNCHANGED observer
  BY DEF AddReader
<1>1. rchan[r] \in Channels
  BY <1>0 DEF TopicInv, TypeOK, EndpointsOK
<1>2. \/ /\ rchan[r] \in closed
         /\ rpc' = [rpc EXCEPT ![r] = "over"] /\ rchan' = [rchan EXCEPT ![r] = NoChannel]
         /\ members' = members
      \/ /\ rchan[r] \notin closed
         /\ rpc' = [rpc EXCEPT ![r] = "open"] /\ rchan' = rchan
         /\ members' = [members EXCEPT ![rchan[r]] = @ \cup {r}]
  BY DEF AddReader
<1>3. TypeOK'
  <2>0. members \in [Channels -> SUBSET Readers]
    BY DEF TopicInv, TypeOK, MessagesOK
  <2>3. members[rchan[r]] \cup {r} \in SUBSET Readers
    BY <2>0, <1>1
  <2>1. members' \in [Channels -> SUBSET Readers]
    BY <2>0, <2>3, <1>1, <1>2
  <2>2. EndpointsOK'
    BY <1>0, <1>2 DEF TopicInv, TypeOK, EndpointsOK, transport, writers
  <2> QED BY <2>1, <2>2, <1>0 DEF TopicInv, TypeOK, MessagesOK, writers
<1>4. OrderInv'
  BY <1>0, OrderFrame DEF TopicInv, writers
<1>5. ChannelInv'
  <2> SUFFICES ASSUME ~ReaderOwned, NEW q \in Readers PROVE OnChannel(q)'
    BY <1>0 DEF ChannelInv, ReaderOwned, transport
  <2>1. OnChannel(q) /\ OnChannel(r)
    BY DEF TopicInv, ChannelInv
  <2>2. /\ rpc \in [Readers -> {"new", "adding", "open", "over"}] /\ DOMAIN rchan = Readers
        /\ members \in [Channels -> SUBSET Readers]
    BY DEF TopicInv, TypeOK, EndpointsOK, MessagesOK
  <2>3. CASE q = r
    BY <2>1, <2>2, <2>3, <1>0, <1>1, <1>2 DEF OnChannel, transport
  <2>4. CASE q # r
    <3>1. rpc'[q] = rpc[q] /\ rchan'[q] = rchan[q]
      BY <2>2, <2>4, <1>2
    <3>2. \A c \in Channels : q \in members[c] => q \in members'[c]
      BY <2>2, <1>1, <1>2
    <3>3. rpc[q] = "open" => rchan[q] \in Channels
      BY DEF TopicInv, TypeOK, EndpointsOK
    <3> QED BY <3>1, <3>2, <3>3, <2>1, <1>0 DEF OnChannel, transport
  <2> QED BY <2>3, <2>4
<1>6. GoneNotCounted'
  BY <1>0, DepthFrame DEF TopicInv, observer
<1> QED BY <1>3, <1>4, <1>5, <1>6 DEF TopicInv

\* A reader that is over, or gets there, may lose its channel and be closed.
LEMMA ReaderDies ==
  ASSUME TopicInv, NEW r \in Readers, rpc[r] \in {"open", "over"},
         rpc' = [rpc EXCEPT ![r] = "over"],
         Dies(r) \/ UNCHANGED <<shut, rchan>>,
         UNCHANGED <<mailbox, received>>, UNCHANGED transport, UNCHANGED channels, UNCHANGED writers
  PROVE  TypeOK' /\ OrderInv' /\ ChannelInv'
<1>1. \/ shut' = shut \cup {r} /\ rchan' = [rchan EXCEPT ![r] = NoChannel]
      \/ shut' = shut /\ rchan' = rchan
  BY DEF Dies
<1>2. TypeOK'
  BY <1>1 DEF TopicInv, TypeOK, MessagesOK, EndpointsOK, transport, channels, writers
<1>3. OrderInv'
  BY OrderFrame DEF TopicInv, channels, writers
<1>4. ChannelInv'
  <2> SUFFICES ASSUME ~ReaderOwned, NEW q \in Readers PROVE OnChannel(q)'
    BY DEF ChannelInv, ReaderOwned, transport
  <2>1. OnChannel(q)
    BY DEF TopicInv, ChannelInv
  <2>2. rpc \in [Readers -> {"new", "adding", "open", "over"}] /\ DOMAIN rchan = Readers
    BY DEF TopicInv, TypeOK, EndpointsOK
  <2>3. CASE q = r
    BY <2>2, <2>3 DEF OnChannel
  <2>4. CASE q # r
    <3>1. rpc'[q] = rpc[q] /\ rchan'[q] = rchan[q] /\ (q \in shut' <=> q \in shut)
      BY <2>2, <2>4, <1>1
    <3> QED BY <3>1, <2>1 DEF OnChannel, transport, channels
  <2> QED BY <2>3, <2>4
<1> QED BY <1>2, <1>3, <1>4

\* A reader that goes leaves its channel and counts for nothing.
LEMMA DestroyReaderKeeps ==
  ASSUME TopicInv, NEW r \in Readers, DestroyReader(r) PROVE TopicInv'
<1>1. TypeOK' /\ OrderInv' /\ ChannelInv'
  BY ReaderDies DEF DestroyReader, MayCall
<1>2. GoneNotCounted'
  BY RemoveKeeps DEF DestroyReader, TopicInv
<1> QED BY <1>1, <1>2 DEF TopicInv

\* The callback is done; with it the reader may die.
LEMMA CallbackRecordsKeeps ==
  ASSUME TopicInv, NEW w \in Writers, CallbackRecords(w) PROVE TopicInv'
<1> DEFINE r == wcall[w].reader
<1>1. /\ Update(r, wcall[w].count)
      /\ (rpc[r] = "over" /\ Dies(r)) \/ UNCHANGED <<shut, rchan>>
      /\ UNCHANGED transport /\ UNCHANGED channels /\ UNCHANGED writers
      /\ UNCHANGED <<rpc, mailbox, received>>
  BY DEF CallbackRecords
<1>2. GoneNotCounted'
  BY <1>1, UpdateKeeps DEF TopicInv
<1> HIDE DEF r
<1>3. CASE rpc[r] = "over" /\ Dies(r) /\ r \in Readers
  <2>1. rpc' = [rpc EXCEPT ![r] = "over"]
    BY <1>1, <1>3 DEF TopicInv, TypeOK, EndpointsOK
  <2> QED BY <2>1, <1>1, <1>2, <1>3, ReaderDies DEF TopicInv
<1>4. CASE UNCHANGED <<shut, rchan>>
  BY <1>1, <1>2, <1>4, ObserverKeeps DEF readers
<1>5. CASE rpc[r] = "over" /\ Dies(r) /\ r \notin Readers
  \* There is no such reader, and what Dies does to it changes no other one.
  <2>1. rchan' = rchan /\ shut' = shut \cup {r}
    BY <1>5 DEF Dies, TopicInv, TypeOK, EndpointsOK
  <2>2. TypeOK'
    BY <1>1, <2>1 DEF TopicInv, TypeOK, MessagesOK, EndpointsOK, transport, channels, writers
  <2>3. OrderInv'
    BY <1>1, OrderFrame DEF TopicInv, channels, writers
  <2>4. ChannelInv'
    BY <1>1, <1>5, <2>1 DEF TopicInv, ChannelInv, OnChannel, ReaderOwned, transport, channels
  <2> QED BY <2>2, <2>3, <2>4, <1>2 DEF TopicInv
<1> QED BY <1>1, <1>3, <1>4, <1>5
-----------------------------------------------------------------------------
(* Messages *)

\* A Read moves the first message.
LEMMA ReadKeeps == ASSUME TopicInv, NEW r \in Readers, Read(r) PROVE TopicInv'
<1> DEFINE s == received[r]
           t == mailbox[r]
<1>0. /\ t # << >> /\ received' = [received EXCEPT ![r] = Append(s, Head(t))]
      /\ mailbox' = [mailbox EXCEPT ![r] = Tail(t)]
      /\ UNCHANGED transport /\ UNCHANGED channels /\ UNCHANGED writers
      /\ UNCHANGED <<rpc, rchan, shut, depths, gauge>>
  BY DEF Read
<1>1. /\ s \in Seq(Messages) /\ t \in Seq(Messages)
      /\ received \in [Readers -> Seq(Messages)] /\ mailbox \in [Readers -> Seq(Messages)]
  BY DEF TopicInv, TypeOK, MessagesOK
<1>2. Append(s, Head(t)) \in Seq(Messages) /\ Tail(t) \in Seq(Messages)
  BY <1>0, <1>1
<1>3. TypeOK'
  BY <1>0, <1>1, <1>2 DEF TopicInv, TypeOK, MessagesOK, EndpointsOK, transport, channels, writers
<1>4. ChannelInv'
  BY <1>0, ChannelFrame DEF TopicInv, transport, channels
<1>5. GoneNotCounted'
  BY <1>0, DepthFrame DEF TopicInv
<1>6. \A w \in Writers : Numbered(w)'
  BY <1>0 DEF TopicInv, OrderInv, Numbered, channels, writers
<1>7. \A q \in Readers : ReaderOrder(q)'
  <2> TAKE q \in Readers
  <2>0. \A m : Had(q, m)' <=> Had(q, m)
    BY <1>0 DEF Had, writers
  <2>1. ReaderOrder(q) /\ ReaderOrder(r)
    BY DEF TopicInv, OrderInv
  <2>2. CASE q # r
    <3>1. received'[q] = received[q] /\ mailbox'[q] = mailbox[q]
      BY <2>2, <1>0, <1>1
    <3> QED BY <3>1, <2>0, <2>1 DEF ReaderOrder
  <2>3. CASE q = r
    <3>1. received'[q] = Append(s, Head(t)) /\ mailbox'[q] = Tail(t)
      BY <2>3, <1>0, <1>1
    <3>2. /\ Sorted(Append(s, Head(t))) /\ Sorted(Tail(t)) /\ Across(Append(s, Head(t)), Tail(t))
      BY <2>1, <1>0, <1>1, TailOrdered DEF ReaderOrder
    <3>3. \A i \in 1 .. Len(Tail(t)) : Had(r, Tail(t)[i])
      <4>1. /\ Len(Tail(t)) = Len(t) - 1 /\ Len(t) \in Nat
            /\ \A i \in 1 .. Len(t) - 1 : Tail(t)[i] = t[i + 1]
        BY <1>0, <1>1
      <4> QED BY <4>1, <2>1 DEF ReaderOrder
    <3>4. \A i \in 1 .. Len(Append(s, Head(t))) : Had(r, Append(s, Head(t))[i])
      <4>1. /\ Len(Append(s, Head(t))) = Len(s) + 1 /\ Len(s) \in Nat
            /\ \A i \in 1 .. Len(s) : Append(s, Head(t))[i] = s[i]
            /\ Append(s, Head(t))[Len(s) + 1] = t[1] /\ 1 \in 1 .. Len(t)
        BY <1>0, <1>1
      <4>2. \A i \in 1 .. Len(s) + 1 : i = Len(s) + 1 \/ i \in 1 .. Len(s)
        BY <4>1
      <4> QED BY <4>1, <4>2, <2>1 DEF ReaderOrder
    <3> QED BY <3>1, <3>2, <3>3, <3>4, <2>0, <2>3 DEF ReaderOrder
  <2> QED BY <2>2, <2>3
<1> QED BY <1>3, <1>4, <1>5, <1>6, <1>7 DEF TopicInv, OrderInv

\* A writer finds its channel, or none, and has published nothing on it.
LEMMA CreateWriterKeeps ==
  ASSUME TopicInv, NEW w \in Writers, CreateWriter(w) PROVE TopicInv'
<1>0. /\ wpc[w] = "new" /\ GetOrCreateChannel(TRUE)
      /\ wchan' = [wchan EXCEPT ![w] = current']
      /\ wpc' = [wpc EXCEPT ![w] = IF current' = NoChannel THEN "new" ELSE "open"]
      /\ UNCHANGED channels /\ UNCHANGED readers /\ UNCHANGED <<msg, held, todo>> /\ UNCHANGED observer
  BY DEF CreateWriter
<1>1. /\ created' \in 0 .. MaxChannels /\ current' \in 0 .. created'
      /\ current' # NoChannel => current' \in Channels
      /\ topic' = topic /\ open' = open /\ open
  BY <1>0, FoundChannel
<1>2. TypeOK'
  BY <1>0, <1>1 DEF TopicInv, TypeOK, MessagesOK, EndpointsOK, channels, readers
<1>3. OrderInv'
  <2>1. ASSUME NEW v \in Writers PROVE Numbered(v)'
    <3>1. /\ Numbered(v) /\ DOMAIN wpc = Writers /\ DOMAIN wchan = Writers
          /\ \A d \in Channels : nextSeq[d] \in Nat \ {0}
      BY DEF TopicInv, TypeOK, EndpointsOK, MessagesOK, OrderInv
    <3>2. CASE v = w
      BY <3>1, <3>2, <1>0, <1>1 DEF Numbered, channels
    <3>3. CASE v # w
      BY <3>1, <3>3, <1>0 DEF Numbered, channels
    <3> QED BY <3>2, <3>3
  <2>2. \A r \in Readers : ReaderOrder(r)'
    BY <1>0 DEF TopicInv, OrderInv, ReaderOrder, Had, readers
  <2> QED BY <2>1, <2>2 DEF OrderInv
<1>4. ChannelInv'
  <2> SUFFICES ASSUME ~ReaderOwned, NEW q \in Readers PROVE OnChannel(q)'
    BY <1>1 DEF ChannelInv, ReaderOwned
  <2>1. CASE rpc[q] \in {"adding", "open"}
    BY <2>1, <1>0, FoundKeeps DEF channels, readers
  <2>2. CASE rpc[q] \notin {"adding", "open"}
    BY <2>2, <1>0 DEF OnChannel, readers
  <2> QED BY <2>1, <2>2
<1>5. GoneNotCounted'
  BY <1>0, DepthFrame DEF TopicInv, observer
<1> QED BY <1>2, <1>3, <1>4, <1>5 DEF TopicInv

\* A writer that goes has no push left to make.
LEMMA DestroyWriterKeeps ==
  ASSUME TopicInv, NEW w \in Writers, DestroyWriter(w) PROVE TopicInv'
<1>0. /\ wpc[w] = "open" /\ todo[w] = {}
      /\ wpc' = [wpc EXCEPT ![w] = "over"] /\ wchan' = [wchan EXCEPT ![w] = NoChannel]
      /\ UNCHANGED transport /\ UNCHANGED channels /\ UNCHANGED readers
      /\ UNCHANGED <<msg, held, todo>> /\ UNCHANGED observer
  BY DEF DestroyWriter, Free, Publishing
<1>2. TypeOK'
  BY <1>0 DEF TopicInv, TypeOK, MessagesOK, EndpointsOK, transport, channels, readers
<1>3. OrderInv'
  <2>1. \A v \in Writers : Numbered(v)'
    BY <1>0 DEF TopicInv, TypeOK, EndpointsOK, OrderInv, Numbered, channels
  <2>2. \A r \in Readers : ReaderOrder(r)'
    BY <1>0 DEF TopicInv, OrderInv, ReaderOrder, Had, readers
  <2> QED BY <2>1, <2>2 DEF OrderInv
<1>4. ChannelInv'
  BY <1>0, ChannelFrame DEF TopicInv, transport, channels, readers
<1>5. GoneNotCounted'
  BY <1>0, DepthFrame DEF TopicInv, observer
<1> QED BY <1>2, <1>3, <1>4, <1>5 DEF TopicInv

\* Publish: the number is higher than that of any message the writer has sent, and
\* the readers that live stay members.
LEMMA PublishKeeps ==
  ASSUME TopicInv, NEW w \in Writers, Publish(w) PROVE TopicInv'
<1> DEFINE c == wchan[w]
           n == nextSeq[c]
<1>0. /\ wpc[w] = "open" /\ todo[w] = {}
      /\ msg' = [msg EXCEPT ![w] = [seq |-> n, from |-> w]]
      /\ nextSeq' = [nextSeq EXCEPT ![c] = n + 1]
      /\ members' = [members EXCEPT ![c] = {r \in members[c] : MailboxAlive(r)}]
      /\ todo' = [todo EXCEPT ![w] = members'[c]]
      /\ UNCHANGED transport /\ UNCHANGED closed /\ UNCHANGED readers
      /\ UNCHANGED <<wpc, wchan>> /\ UNCHANGED observer
  BY DEF Publish, Free, Publishing
<1>1. /\ c \in Channels /\ n \in Nat /\ members \in [Channels -> SUBSET Readers]
      /\ nextSeq \in [Channels -> Nat \ {0}] /\ todo \in [Writers -> SUBSET Readers]
      /\ DOMAIN msg = Writers /\ msg[w].seq \in Nat /\ msg[w].seq < n
  BY <1>0 DEF TopicInv, TypeOK, MessagesOK, EndpointsOK, OrderInv, Numbered
<1>2. members' \in [Channels -> SUBSET Readers] /\ members'[c] \in SUBSET Readers
  BY <1>0, <1>1
<1>3. /\ msg'[w] = [seq |-> n, from |-> w] /\ \A v \in Writers \ {w} : msg'[v] = msg[v] /\ todo'[v] = todo[v]
      /\ nextSeq'[c] = n + 1 /\ \A d \in Channels : nextSeq'[d] >= nextSeq[d]
  BY <1>0, <1>1
<1>4. TypeOK'
  <2>1. MessagesOK'
    <3>1. nextSeq' \in [Channels -> Nat \ {0}] /\ todo' \in [Writers -> SUBSET Readers]
      BY <1>0, <1>1, <1>2
    <3>2. msg' = [v \in Writers |-> msg'[v]] /\ \A v \in Writers : msg'[v].seq \in Nat
      BY <1>0, <1>1, <1>3 DEF TopicInv, TypeOK, MessagesOK
    <3> QED BY <3>1, <3>2, <1>0, <1>2 DEF TopicInv, TypeOK, MessagesOK, readers
  <2>2. EndpointsOK'
    BY <1>0 DEF TopicInv, TypeOK, EndpointsOK, transport, readers
  <2> QED BY <2>1, <2>2 DEF TypeOK
<1>5. \A v \in Writers : Numbered(v)'
  <2> TAKE v \in Writers
  <2>1. Numbered(v) /\ (wpc[v] = "open" => wchan[v] \in Channels) /\ msg[v].seq \in Nat
    BY DEF TopicInv, TypeOK, OrderInv, EndpointsOK, MessagesOK
  <2>2. CASE v = w
    BY <2>2, <1>0, <1>1, <1>3 DEF Numbered, Messages
  <2>3. CASE v # w
    <3>1. msg'[v] = msg[v] /\ todo'[v] = todo[v] /\ wpc'[v] = wpc[v] /\ wchan'[v] = wchan[v]
      BY <2>3, <1>0, <1>3
    <3>2. wpc[v] = "open" => nextSeq[wchan[v]] \in Nat /\ nextSeq'[wchan[v]] >= nextSeq[wchan[v]] /\ nextSeq'[wchan[v]] \in Nat
      BY <2>1, <1>0, <1>1, <1>3
    <3> QED BY <3>1, <3>2, <2>1 DEF Numbered
  <2> QED BY <2>2, <2>3
<1>6. \A r \in Readers : ReaderOrder(r)'
  <2> TAKE r \in Readers
  <2>1. ReaderOrder(r) /\ mailbox[r] \in Seq(Messages) /\ received[r] \in Seq(Messages)
    BY DEF TopicInv, TypeOK, MessagesOK, OrderInv
  <2>2. ASSUME NEW m \in Messages, Had(r, m) PROVE Had(r, m)'
    <3>1. CASE m.from = w
      BY <3>1, <2>2, <1>1, <1>3 DEF Had, Messages
    <3>2. CASE m.from # w
      BY <3>2, <2>2, <1>3 DEF Had, Messages
    <3> QED BY <3>1, <3>2
  <2>3. /\ \A i \in 1 .. Len(received[r]) : received[r][i] \in Messages
        /\ \A i \in 1 .. Len(mailbox[r]) : mailbox[r][i] \in Messages
    BY <2>1
  <2> QED BY <2>1, <2>2, <2>3, <1>0 DEF ReaderOrder, readers
<1>7. ChannelInv'
  <2> SUFFICES ASSUME ~ReaderOwned, NEW q \in Readers PROVE OnChannel(q)'
    BY <1>0 DEF ChannelInv, ReaderOwned, transport
  <2>1. OnChannel(q) /\ (rpc[q] = "open" => rchan[q] \in Channels)
    BY DEF TopicInv, ChannelInv, TypeOK, EndpointsOK
  <2>2. rpc[q] = "open" => \A d \in Channels : q \in members[d] => q \in members'[d]
    BY <1>0, <1>1 DEF MailboxAlive
  <2> QED BY <2>1, <2>2, <1>0 DEF OnChannel, transport, readers
<1>8. GoneNotCounted'
  BY <1>0, DepthFrame DEF TopicInv, observer
<1> QED BY <1>4, <1>5, <1>6, <1>7, <1>8 DEF TopicInv, OrderInv

\* What a push that is not refused makes of a mailbox, under every policy.
LEMMA StoredIs ==
  ASSUME TopicInv, NEW r \in Readers, NEW m \in Messages, r \notin shut, MayPush(r)
  PROVE  \/ Stored(r, m) = <<m>>
         \/ Stored(r, m) = Append(mailbox[r], m)
         \/ mailbox[r] # << >> /\ Stored(r, m) = Append(Tail(mailbox[r]), m)
         \/ Stored(r, m) = mailbox[r]
<1>1. topic \in Configurations
  BY TopicAssumption DEF TopicInv, TypeOK, EndpointsOK
<1>2. Policy[r] \in Policies /\ Capacity[r] \in Nat \ {0}
  BY <1>1 DEF Configurations, Policy, Capacity
<1>3. mailbox[r] \in Seq(Messages)
  BY DEF TopicInv, TypeOK, MessagesOK
<1>4. Full(r) => mailbox[r] # << >>
  BY <1>2, <1>3 DEF Full
<1>5. Policy[r] = "block" => ~Full(r)
  BY DEF MayPush
<1>6. CASE Policy[r] \in {"latest", "keep_all"}
  BY <1>6 DEF Stored
<1>7. CASE Policy[r] \notin {"latest", "keep_all"} /\ ~Full(r)
  BY <1>7 DEF Stored
<1>8. CASE Policy[r] = "drop_oldest" /\ Full(r)
  BY <1>4, <1>8 DEF Stored
<1>9. CASE Policy[r] \in {"drop_newest", "reject"} /\ Full(r)
  BY <1>9 DEF Stored
<1> QED BY <1>2, <1>5, <1>6, <1>7, <1>8, <1>9 DEF Policies

\* Whatever is kept of it, the mailbox stays ordered if the message follows all
\* that the reader has.
LEMMA StoredOrdered ==
  ASSUME TopicInv, NEW r \in Readers, NEW m \in Messages, r \notin shut, MayPush(r),
         \A i \in 1 .. Len(received[r]) : Follows(received[r][i], m),
         \A i \in 1 .. Len(mailbox[r]) : Follows(mailbox[r][i], m)
  PROVE  /\ Stored(r, m) \in Seq(Messages)
         /\ Sorted(Stored(r, m)) /\ Across(received[r], Stored(r, m))
         /\ \A i \in 1 .. Len(Stored(r, m)) :
              \/ Stored(r, m)[i] = m
              \/ \E j \in 1 .. Len(mailbox[r]) : Stored(r, m)[i] = mailbox[r][j]
<1> DEFINE s == received[r]
           t == mailbox[r]
           u == Stored(r, m)
<1>0. /\ s \in Seq(Messages) /\ t \in Seq(Messages) /\ Sorted(s) /\ Sorted(t) /\ Across(s, t)
  BY DEF TopicInv, TypeOK, MessagesOK, OrderInv, ReaderOrder
<1>1. \/ u = <<m>> \/ u = Append(t, m) \/ (t # << >> /\ u = Append(Tail(t), m)) \/ u = t
  BY StoredIs
<1>2. ASSUME NEW v \in Seq(Messages), u = Append(v, m), Sorted(v), Across(s, v),
             \A i \in 1 .. Len(v) : \E j \in 1 .. Len(t) : v[i] = t[j]
      PROVE  /\ u \in Seq(Messages) /\ Sorted(u) /\ Across(s, u)
             /\ \A i \in 1 .. Len(u) : u[i] = m \/ \E j \in 1 .. Len(t) : u[i] = t[j]
  <2>1. \A i \in 1 .. Len(v) : Follows(v[i], m)
    BY <1>2
  <2>2. Sorted(u) /\ Across(s, u)
    BY <1>0, <1>2, <2>1, AppendOrdered
  <2>3. /\ Append(v, m) \in Seq(Messages) /\ Len(Append(v, m)) = Len(v) + 1 /\ Len(v) \in Nat
        /\ \A i \in 1 .. Len(v) : Append(v, m)[i] = v[i]
        /\ Append(v, m)[Len(v) + 1] = m
    OBVIOUS
  <2>4. \A i \in 1 .. Len(v) + 1 : i = Len(v) + 1 \/ i \in 1 .. Len(v)
    BY <2>3
  <2>5. \A i \in 1 .. Len(v) + 1 : u[i] = m \/ \E j \in 1 .. Len(t) : u[i] = t[j]
    BY <2>3, <2>4, <1>2
  <2> HIDE DEF u, t
  <2> QED BY <2>2, <2>3, <2>5, <1>2
<1>3. CASE u = <<m>>
  <2>1. << >> \in Seq(Messages) /\ u = Append(<< >>, m) /\ Len(<< >>) = 0
    BY <1>3
  <2>2. Sorted(<< >>) /\ Across(s, << >>)
    BY DEF Sorted, Across
  <2>3. PICK v \in Seq(Messages) : v = << >>
    BY <2>1
  <2>4. \A i \in 1 .. Len(v) : \E j \in 1 .. Len(t) : v[i] = t[j]
    BY <2>1, <2>3
  <2>5. u = Append(v, m) /\ Sorted(v) /\ Across(s, v)
    BY <2>1, <2>2, <2>3
  <2>6. /\ u \in Seq(Messages) /\ Sorted(u) /\ Across(s, u)
        /\ \A i \in 1 .. Len(u) : u[i] = m \/ \E j \in 1 .. Len(t) : u[i] = t[j]
    <3> HIDE DEF u, t, s
    <3> QED BY <1>2, <2>4, <2>5
  <2> QED BY <2>6
<1>4. CASE u = Append(t, m)
  BY <1>0, <1>2, <1>4
<1>5. CASE t # << >> /\ u = Append(Tail(t), m)
  <2>1. /\ Tail(t) \in Seq(Messages) /\ Len(Tail(t)) = Len(t) - 1 /\ Len(t) \in Nat
        /\ \A i \in 1 .. Len(t) - 1 : Tail(t)[i] = t[i + 1]
    BY <1>0, <1>5
  <2>2. Sorted(Tail(t)) /\ Across(s, Tail(t))
    BY <1>0, <1>5, TailOrdered
  <2>3. \A i \in 1 .. Len(Tail(t)) : i + 1 \in 1 .. Len(t) /\ Tail(t)[i] = t[i + 1]
    BY <2>1
  <2>4. \A i \in 1 .. Len(Tail(t)) : \E j \in 1 .. Len(t) : Tail(t)[i] = t[j]
    BY <2>3
  <2> QED BY <1>2, <1>5, <2>1, <2>2, <2>4
<1>6. CASE u = t
  BY <1>0, <1>6
<1> QED BY <1>1, <1>3, <1>4, <1>5, <1>6

\* Push: the reader has older messages of this writer only, and from here on the
\* message is not owed to it any more.
LEMMA PushKeeps ==
  ASSUME TopicInv, NEW w \in Writers, Push(w) PROVE TopicInv'
<1>0. /\ UNCHANGED transport /\ UNCHANGED channels
      /\ UNCHANGED <<rpc, rchan, shut, received, wpc, wchan, msg, depths, gauge>>
  BY DEF Push
<1>1. PICK r \in todo[w] : /\ MayPush(r)
                           /\ mailbox' = IF r \in shut THEN mailbox ELSE [mailbox EXCEPT ![r] = Stored(r, msg[w])]
                           /\ todo' = [todo EXCEPT ![w] = @ \ {r}]
  BY DEF Push, NextOf
<1>2. /\ r \in Readers /\ wpc[w] = "open" /\ msg[w] \in Messages /\ msg[w].from = w
      /\ mailbox \in [Readers -> Seq(Messages)] /\ received \in [Readers -> Seq(Messages)]
      /\ todo \in [Writers -> SUBSET Readers] /\ \A v \in Writers : Numbered(v)
  BY DEF TopicInv, TypeOK, MessagesOK, OrderInv, Numbered
<1>3. ASSUME NEW x \in Messages, Had(r, x) PROVE Follows(x, msg[w])
  BY <1>1, <1>2, <1>3 DEF Had, Follows, Messages
<1>4. /\ \A i \in 1 .. Len(received[r]) : Follows(received[r][i], msg[w])
      /\ \A i \in 1 .. Len(mailbox[r]) : Follows(mailbox[r][i], msg[w])
  <2>1. /\ \A i \in 1 .. Len(received[r]) : received[r][i] \in Messages /\ Had(r, received[r][i])
        /\ \A i \in 1 .. Len(mailbox[r]) : mailbox[r][i] \in Messages /\ Had(r, mailbox[r][i])
    BY <1>2 DEF TopicInv, OrderInv, ReaderOrder
  <2> QED BY <2>1, <1>3
<1>5. \/ mailbox'[r] = mailbox[r]
      \/ mailbox'[r] = Stored(r, msg[w]) /\ r \notin shut
  BY <1>1, <1>2
<1>6. r \notin shut =>
        /\ Stored(r, msg[w]) \in Seq(Messages)
        /\ Sorted(Stored(r, msg[w])) /\ Across(received[r], Stored(r, msg[w]))
        /\ \A i \in 1 .. Len(Stored(r, msg[w])) :
             \/ Stored(r, msg[w])[i] = msg[w]
             \/ \E j \in 1 .. Len(mailbox[r]) : Stored(r, msg[w])[i] = mailbox[r][j]
  BY <1>1, <1>2, <1>4, StoredOrdered
<1>7. TypeOK'
  <2>1. mailbox' \in [Readers -> Seq(Messages)] /\ todo' \in [Writers -> SUBSET Readers]
    BY <1>1, <1>2, <1>6
  <2> QED BY <2>1, <1>0 DEF TopicInv, TypeOK, MessagesOK, EndpointsOK, transport, channels
<1>8. \A v \in Writers : Numbered(v)'
  <2> TAKE v \in Writers
  <2>1. Numbered(v) /\ todo'[v] \subseteq todo[v]
    BY <1>1, <1>2
  <2> QED BY <2>1, <1>0 DEF Numbered, channels
<1>9. \A q \in Readers : ReaderOrder(q)'
  <2> TAKE q \in Readers
  <2>1. ReaderOrder(q) /\ ReaderOrder(r)
    BY <1>2 DEF TopicInv, OrderInv
  <2>2. \A v \in Writers : todo'[v] \subseteq todo[v]
    BY <1>1, <1>2
  <2>3. \A x \in Messages : Had(q, x) => Had(q, x)'
    BY <2>2, <1>0 DEF Had, Messages
  <2>4. q = r => Had(q, msg[w])'
    BY <1>0, <1>1, <1>2 DEF Had, Messages
  <2>5. PICK s \in Seq(Messages), t \in Seq(Messages), u \in Seq(Messages), m \in Messages :
          s = received[q] /\ t = mailbox[q] /\ u = mailbox'[q] /\ m = msg[w]
    BY <1>2, <1>7 DEF TypeOK, MessagesOK
  <2>6. /\ \A i \in 1 .. Len(s) : s[i] \in Messages /\ Had(q, s[i])
        /\ \A i \in 1 .. Len(t) : t[i] \in Messages /\ Had(q, t[i])
    BY <2>1, <2>5 DEF ReaderOrder
  <2>7. (\A i \in 1 .. Len(s) : Had(q, s[i])') /\ \A i \in 1 .. Len(t) : Had(q, t[i])'
    BY <2>3, <2>6
  <2>8. Sorted(s) /\ Sorted(u) /\ Across(s, u) /\ \A i \in 1 .. Len(u) : Had(q, u[i])'
    <3>1. CASE u = t
      BY <3>1, <2>1, <2>5, <2>7 DEF ReaderOrder
    <3>2. CASE u # t
      <4>1. q = r /\ r \notin shut /\ u = Stored(r, msg[w])
        BY <3>2, <2>5, <1>1, <1>2, <1>5
      <4>0. s = received[r] /\ t = mailbox[r] /\ m = msg[w]
        BY <4>1, <2>5
      <4>2. /\ Sorted(u) /\ Across(s, u)
            /\ \A i \in 1 .. Len(u) : u[i] = m \/ \E j \in 1 .. Len(t) : u[i] = t[j]
        BY <4>0, <4>1, <1>6, Zenon
      <4>3. Had(q, m)'
        BY <4>1, <2>4, <2>5, <1>0 DEF Had
      <4> QED BY <4>2, <4>3, <2>1, <2>5, <2>7 DEF ReaderOrder
    <3> QED BY <3>1, <3>2
  <2> QED BY <2>5, <2>7, <2>8, <1>0 DEF ReaderOrder, Had
<1>10. ChannelInv'
  BY <1>0, ChannelFrame DEF TopicInv, transport, channels
<1>11. GoneNotCounted'
  BY <1>0, DepthFrame DEF TopicInv
<1> QED BY <1>7, <1>8, <1>9, <1>10, <1>11 DEF TopicInv, OrderInv
-----------------------------------------------------------------------------
(* Theorems *)

\* Every step keeps the invariant.
LEMMA NextKeeps == TopicInv /\ [Next]_vars => TopicInv'
<1> SUFFICES ASSUME TopicInv, [Next]_vars PROVE TopicInv'
  OBVIOUS
<1>1. CASE Open
  BY <1>1, OpenKeeps
<1>2. CASE CloseTransport
  BY <1>2, CloseTransportKeeps
<1>3. CASE \E r \in Readers : ReaderStep(r)
  BY <1>3, CreateReaderKeeps, AddReaderKeeps, CountsKeep, ReadKeeps, DestroyReaderKeeps
     DEF ReaderStep, ReaderGoesOn
<1>4. CASE \E w \in topic.writers : WriterStep(w)
  <2>1. topic \in Configurations
    BY TopicAssumption DEF TopicInv, TypeOK, EndpointsOK
  <2>2. topic.writers \subseteq Writers
    BY <2>1 DEF Configurations
  <2> QED BY <1>4, <2>2, CreateWriterKeeps, PublishKeeps, PushKeeps, CallbackCountsKeeps,
             CallbackRecordsKeeps, DestroyWriterKeeps DEF WriterStep, WriterGoesOn
<1>5. CASE UNCHANGED vars
  <2>1. UNCHANGED <<transport, channels, readers, writers>> /\ UNCHANGED <<depths, gauge>>
    BY <1>5 DEF vars, transport, channels, readers, writers
  <2> QED BY <2>1, DepthFrame, ObserverKeeps DEF TopicInv
<1> QED BY <1>1, <1>2, <1>3, <1>4, <1>5 DEF Next

\* The inductive invariant: types, the order of what each reader has, where the
\* readers of a shared topic are, and the queue depth.
THEOREM InMemoryInvariant == Spec => []TopicInv
BY InitTopic, NextKeeps, PTL DEF Spec

\* Of one writer a reader gets the messages in the order of Write, and none twice,
\* although Publish releases the channel's mutex before it fills the mailboxes.
THEOREM WritersKeepOrder == Spec => []WriterOrder
<1>1. TopicInv => WriterOrder
  <2> SUFFICES ASSUME TopicInv, NEW r \in Readers
               PROVE  Sorted(received[r] \o mailbox[r])
    BY DEF WriterOrder, Before, Sorted, Follows
  <2> QED BY JoinedOrdered DEF TopicInv, TypeOK, MessagesOK, OrderInv, ReaderOrder
<1> QED BY <1>1, InMemoryInvariant, PTL

\* The live readers of a shared topic are on the channel the transport names, and
\* Close leaves none of them open.
THEOREM SharedTopicsMeet == Spec => []SharedOneChannel
<1>1. TopicInv => SharedOneChannel
  BY DEF TopicInv, ChannelInv, OnChannel, SharedOneChannel, OneChannel
<1> QED BY <1>1, InMemoryInvariant, PTL

\* No callback that is late records a reader that is gone.
THEOREM GoneAreNotCounted == Spec => []GoneNotCounted
<1>1. TopicInv => GoneNotCounted
  BY DEF TopicInv
<1> QED BY <1>1, InMemoryInvariant, PTL
=============================================================================
