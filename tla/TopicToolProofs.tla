-------------------------- MODULE TopicToolProofs ---------------------------
(***************************************************************************)
(* Proofs about TopicTool for any number of topics, messages and slots.    *)
(***************************************************************************)
EXTENDS TopicTool, SequenceTheorems, TLAPS

ToolPoints == {"off", "start", "subscribe", "round", "scan", "read", "wait", "close", "listen",
               "exited", "killed"}
ToolRecords ==
  [pc : ToolPoints, at : Nat \ {0}, any : BOOLEAN, seen : Nat, wake : BOOLEAN, started : Nat,
   flush : Nat, window : Nat, total : Nat, exit : {None, 0, 1}]
ChannelRecords ==
  [id : Nat, cursor : Nat, first : Nat, last : Nat, received : Nat, lost : Nat, printed : Nat]

\* The types of the command's state and of what is around it.
ToolOK ==
  /\ world \in Worlds /\ clock \in Nat /\ bus \in [Names -> Seq(Nat)] /\ news \subseteq Names
  /\ tool \in ToolRecords /\ chan \in [Names -> ChannelRecords]
-----------------------------------------------------------------------------
(* What is counted *)

\* A channel of a topic with n messages has read up to its cursor, and counts
\* from the first message it received to the last.
Counts(t, c, n) ==
  /\ c.cursor <= n
  /\ CarriesSequence(t) =>
       /\ c.last = 0 => c.first = 0 /\ c.printed + c.received + c.lost = 0
       /\ c.last # 0 => /\ c.last = c.cursor /\ c.first # 0
                        /\ c.printed + c.received + c.lost = c.last - c.first + 1

Counted(t) == Counts(t, chan[t], Len(bus[t]))
CountsInv == \A t \in Names : Counted(t)

\* Something is there to be read.
Ready(t) == chan[t].cursor < Len(bus[t])

\* A command that reads found something to read on a topic it is at.
ReadingInv ==
  Recording("read") => /\ tool.at <= Len(world.topics)
                       /\ Ready(world.topics[tool.at].name)
-----------------------------------------------------------------------------
(* Topics *)

\* The topics of a command have names, and a name is that of a topic.
LEMMA TopicFacts ==
  ASSUME world \in Worlds
  PROVE  /\ Len(world.topics) \in Nat \ {0}
         /\ \A i \in 1 .. Len(world.topics) : world.topics[i].name \in Names
         /\ Listened \in Names
         /\ \A t \in Names : Topic(t).slots \in Nat \ {0}
<1>1. /\ Len(world.topics) \in Nat \ {0} /\ DOMAIN world.topics = 1 .. Len(world.topics)
      /\ \A t \in Range(world.topics) : t.slots \in Nat \ {0}
  BY TopicToolAssumption
<1>2. \A i \in 1 .. Len(world.topics) : world.topics[i].name \in Names
  BY <1>1 DEF Names
<1>3. Listened \in Names
  BY <1>1, <1>2 DEF Listened
<1>4. ASSUME NEW t \in Names PROVE Topic(t).slots \in Nat \ {0}
  <2>1. \E x \in Range(world.topics) : x.name = t
    BY DEF Names, Range
  <2>2. Topic(t) \in Range(world.topics)
    BY <2>1 DEF Topic
  <2> QED BY <2>2, <1>1
<1> QED BY <1>1, <1>2, <1>3, <1>4

\* The smaller of two integers.
LEMMA MinOfTwo == ASSUME NEW a \in Int, NEW b \in Int PROVE Min({a, b}) = IF a <= b THEN a ELSE b
<1> DEFINE m == IF a <= b THEN a ELSE b
<1>1. m \in {a, b} /\ \A y \in {a, b} : m <= y
  OBVIOUS
<1>2. \A x \in {a, b} : (\A y \in {a, b} : x <= y) => x = m
  BY <1>1
<1> QED BY <1>1, <1>2 DEF Min

\* The larger of two integers.
LEMMA MaxOfTwo == ASSUME NEW a \in Int, NEW b \in Int PROVE Max({a, b}) = IF a >= b THEN a ELSE b
<1> DEFINE m == IF a >= b THEN a ELSE b
<1>1. m \in {a, b} /\ \A y \in {a, b} : m >= y
  OBVIOUS
<1>2. \A x \in {a, b} : (\A y \in {a, b} : x >= y) => x = m
  BY <1>1
<1> QED BY <1>1, <1>2 DEF Max

\* What is pending, and the number of the next message that is read.
LEMMA PendingFacts ==
  ASSUME ToolOK, NEW t \in Names, Counted(t)
  PROVE  /\ Pending(t) \in Nat /\ (Pending(t) > 0 <=> Ready(t))
         /\ NextSequence(t) \in Nat /\ NextSequence(t) > chan[t].cursor
         /\ Pending(t) > 0 => NextSequence(t) <= Len(bus[t])
<1>1. Topic(t).slots \in Nat \ {0}
  BY TopicFacts DEF ToolOK
<1>2. Len(bus[t]) \in Nat /\ chan[t].cursor \in Nat /\ chan[t].cursor <= Len(bus[t])
  BY DEF ToolOK, ChannelRecords, Counted, Counts
<1> DEFINE n == Len(bus[t])
           k == chan[t].cursor
           s == Topic(t).slots
<1>3. Pending(t) = IF n - k <= s THEN n - k ELSE s
  <2>1. n - k \in Int /\ s \in Int
    BY <1>1, <1>2
  <2> HIDE DEF n, k, s
  <2>2. Min({n - k, s}) = IF n - k <= s THEN n - k ELSE s
    BY <2>1, MinOfTwo
  <2> QED BY <2>2 DEF Pending, n, k, s
<1>4. NextSequence(t) = n - Pending(t) + 1
  BY DEF NextSequence
<1>5. n \in Nat /\ k \in Nat /\ k <= n /\ s \in Nat \ {0}
  BY <1>1, <1>2
<1> HIDE DEF n, k, s
<1>6. /\ Pending(t) \in Nat /\ (Pending(t) > 0 <=> k < n)
      /\ NextSequence(t) \in Nat /\ NextSequence(t) > k
      /\ Pending(t) > 0 => NextSequence(t) <= n
  BY <1>3, <1>4, <1>5
<1> QED BY <1>6 DEF n, k, Ready

\* A channel that received message s, and one that counted g lost before it.
WithMessage(c, s) == [c EXCEPT !.cursor = s, !.received = @ + 1]
WithLost(c, g, s) == [c EXCEPT !.lost = @ + g, !.last = s, !.first = IF @ = 0 THEN s ELSE @]

\* The fields of a channel that received a message.
LEMMA ReceivedRecord ==
  ASSUME NEW c \in ChannelRecords, NEW s \in Nat, NEW d, d = WithMessage(c, s)
  PROVE  /\ d \in ChannelRecords /\ d.cursor = s /\ d.received = c.received + 1 /\ d.first = c.first
         /\ d.last = c.last /\ d.lost = c.lost /\ d.printed = c.printed
<1>1. PICK n \in Nat : n = c.received + 1
  BY DEF ChannelRecords
<1>2. d = [c EXCEPT !.cursor = s, !.received = n]
  BY <1>1 DEF WithMessage
<1> QED BY <1>1, <1>2 DEF ChannelRecords

\* The fields of a channel that counted lost messages.
LostIn(d, c, g, s) ==
  /\ d \in ChannelRecords /\ d.cursor = c.cursor /\ d.received = c.received /\ d.printed = c.printed
  /\ d.lost = c.lost + g /\ d.last = s
  /\ (c.first = 0 => d.first = s) /\ (c.first # 0 => d.first = c.first)

\* The channel that counted lost messages has those fields.
LEMMA LostRecord ==
  ASSUME NEW c \in ChannelRecords, NEW g \in Nat, NEW s \in Nat PROVE LostIn(WithLost(c, g, s), c, g, s)
<1>1. PICK n \in Nat : n = c.lost + g
  BY DEF ChannelRecords
<1>2. PICK f \in Nat : (c.first = 0 => f = s) /\ (c.first # 0 => f = c.first)
  BY DEF ChannelRecords
<1>3. WithLost(c, g, s) = [c EXCEPT !.lost = n, !.last = s, !.first = f]
  BY <1>1, <1>2 DEF WithLost
<1> QED BY <1>1, <1>2, <1>3 DEF ChannelRecords, LostIn

\* The gap between two numbers.
LEMMA GapFacts ==
  ASSUME NEW a \in Nat, NEW s \in Nat, s > a
  PROVE  Gap(a, s) \in Nat /\ (a = 0 => Gap(a, s) = 0) /\ (a # 0 => Gap(a, s) = s - a - 1)
BY DEF Gap

\* A message received is counted, and so are those between it and the last one.
LEMMA ReceivedCounts ==
  ASSUME ToolOK, NEW t \in Names, Counted(t), Ready(t)
  PROVE  Received(t) \in ChannelRecords /\ Counts(t, Received(t), Len(bus[t]))
<1>1. PICK c \in ChannelRecords : c = chan[t]
  BY DEF ToolOK
<1>2. PICK s \in Nat : s = NextSequence(t) /\ s > c.cursor /\ s <= Len(bus[t])
  BY <1>1, PendingFacts DEF Counted, Counts, Ready
<1>3. PICK d : d = WithMessage(c, s)
  OBVIOUS
<1>4. /\ d \in ChannelRecords /\ d.cursor = s /\ d.received = c.received + 1 /\ d.first = c.first
      /\ d.last = c.last /\ d.lost = c.lost /\ d.printed = c.printed
  BY <1>3, ReceivedRecord
<1>5. CASE ~CarriesSequence(t)
  <2>1. Received(t) = d
    BY <1>1, <1>2, <1>3, <1>5 DEF Received, WithMessage
  <2> QED BY <2>1, <1>2, <1>4, <1>5 DEF Counts
<1>6. CASE CarriesSequence(t)
  <2>1. PICK g : g = Gap(c.last, s)
    OBVIOUS
  <2>2. /\ g \in Nat
        /\ c.last = 0 => g = 0
        /\ c.last # 0 => c.last = c.cursor /\ g = s - c.last - 1
    <3>1. c.last \in Nat /\ c.cursor \in Nat /\ (c.last # 0 => c.last = c.cursor)
      BY <1>1, <1>6 DEF Counted, Counts, ChannelRecords
    <3>2. s > c.last
      BY <3>1, <1>2
    <3> QED BY <3>1, <3>2, <2>1, GapFacts
  <2>3. PICK e : e = WithLost(d, g, s)
    OBVIOUS
  <2>4. Received(t) = e
    <3>1. Received(t) = [d EXCEPT !.lost = @ + Gap(c.last, s), !.last = s, !.first = IF @ = 0 THEN s ELSE @]
      BY <1>1, <1>2, <1>3, <1>6 DEF Received, WithMessage
    <3> QED BY <3>1, <2>1, <2>3 DEF WithLost
  <2>5. /\ e \in ChannelRecords /\ e.cursor = s /\ e.received = c.received + 1 /\ e.printed = c.printed
        /\ e.lost = c.lost + g /\ e.last = s /\ e.first = IF c.first = 0 THEN s ELSE c.first
    <3>1. g \in Nat /\ d \in ChannelRecords
      BY <2>2, <1>4
    <3>2. LostIn(e, d, g, s)
      BY <3>1, <2>3, LostRecord
    <3> QED BY <3>2, <1>4 DEF LostIn
  <2>6. /\ c.last = 0 => c.first = 0 /\ c.printed + c.received + c.lost = 0
        /\ c.last # 0 => c.first # 0 /\ c.printed + c.received + c.lost = c.last - c.first + 1
    BY <1>1, <1>6 DEF Counted, Counts
  <2>7. /\ c.first \in Nat /\ c.last \in Nat /\ c.received \in Nat /\ c.lost \in Nat /\ c.printed \in Nat
        /\ c.cursor \in Nat
    BY DEF ChannelRecords
  <2>8. s \in Nat /\ s > c.cursor
    BY <1>2
  <2>9. e.first # 0 /\ e.printed + e.received + e.lost = e.last - e.first + 1
    <3>1. CASE c.last = 0
      <4>1. e.first = s /\ e.last = s /\ s # 0 /\ e.lost = c.lost + 0
        BY <3>1, <2>2, <2>5, <2>6, <2>7, <2>8
      <4>2. c.printed + (c.received + 1) + (c.lost + 0) = s - s + 1
        BY <3>1, <2>6, <2>7, <2>8
      <4> QED BY <4>1, <4>2, <2>5
    <3>2. CASE c.last # 0
      BY <3>2, <2>2, <2>5, <2>6, <2>7, <2>8
    <3> QED BY <3>1, <3>2
  <2>10. e.cursor <= Len(bus[t]) /\ e.last # 0 /\ e.last = e.cursor
    BY <2>5, <2>7, <1>2
  <2> QED BY <2>4, <2>5, <2>9, <2>10 DEF Counts
<1> QED BY <1>5, <1>6
-----------------------------------------------------------------------------
(* Who is woken *)

\* A topic with data that its callback was told of has woken the recorder.
Told(t) == chan[t].id # 0 /\ Ready(t) /\ t \notin news => tool.wake

\* A recorder that is not done was told of what came to the topics it has
\* scanned, of what came since it looked at the one it reads, and, when it
\* waits, of everything.
AwakeInv ==
  world.command = "record" /\ ~Done =>
    /\ tool.pc \in {"scan", "read"} =>
         \A j \in 1 .. Len(world.topics) : j < tool.at => Told(world.topics[j].name)
    /\ tool.pc = "read" =>
         LET t == world.topics[tool.at].name
         IN  chan[t].id # 0 /\ Len(bus[t]) # tool.seen => t \in news \/ tool.wake
    /\ tool.pc = "wait" => \A t \in Names : Told(t)

ToolInv == ToolOK /\ CountsInv /\ ReadingInv /\ AwakeInv

\* Nothing is owed at the other points.
LEMMA ElsewhereQuiet ==
  ASSUME tool'.pc \notin {"scan", "read", "wait"} \/ world'.command # "record"
  PROVE  ReadingInv' /\ AwakeInv'
BY DEF ReadingInv, AwakeInv, Recording

\* What is counted stays when no message comes and no channel changes.
LEMMA CountsStay ==
  ASSUME CountsInv, UNCHANGED <<world, bus, chan>> PROVE CountsInv'
BY DEF CountsInv, Counted, Counts, Names, CarriesSequence, Topic

\* Nothing is owed when no message comes and no channel moves.
LEMMA QuietKeepsTool ==
  ASSUME ToolInv, UNCHANGED <<world, bus, news, tool, chan>>, clock' \in Nat, stopped \subseteq stopped' PROVE ToolInv'
<1>1. ToolOK'
  BY DEF ToolInv, ToolOK, Names
<1>2. ReadingInv'
  BY DEF ToolInv, ReadingInv, Recording, Ready
<1>3. AwakeInv'
  <2>1. Done => Done'
    BY DEF Done
  <2>2. ASSUME NEW t, Told(t) PROVE Told(t)'
    BY <2>2 DEF Told, Ready
  <2>3. CASE Done \/ world.command # "record"
    BY <2>1, <2>3 DEF AwakeInv
  <2>4. CASE ~Done /\ world.command = "record"
    <3>1. /\ tool.pc \in {"scan", "read"} =>
                \A j \in 1 .. Len(world.topics) : j < tool.at => Told(world.topics[j].name)'
          /\ tool.pc = "wait" => \A t \in Names : Told(t)'
      BY <2>2, <2>4 DEF ToolInv, AwakeInv
    <3>2. tool.pc = "read" =>
            LET t == world.topics[tool.at].name
            IN  chan[t].id # 0 /\ Len(bus[t]) # tool.seen => t \in news \/ tool.wake
      BY <2>4 DEF ToolInv, AwakeInv
    <3>3. Names' = Names
      BY DEF Names
    <3> QED BY <3>1, <3>2, <3>3 DEF AwakeInv
  <2> QED BY <2>3, <2>4
<1> QED BY <1>1, <1>2, <1>3, CountsStay DEF ToolInv

\* A step of the player, or of the disk, changes nothing the command counts.
LEMMA OthersKeepTool ==
  ASSUME ToolInv, UNCHANGED <<clock, world, bus, news, stopped, tool, chan>> PROVE ToolInv'
<1>1. clock' \in Nat /\ stopped \subseteq stopped'
  BY DEF ToolInv, ToolOK
<1> QED BY <1>1, QuietKeepsTool

\* Time passes, and nothing is counted by it.
LEMMA TickKeepsTool == ASSUME ToolInv, Tick PROVE ToolInv'
<1>1. UNCHANGED <<world, bus, news, stopped, tool, chan>> /\ clock' = clock + 1
  BY DEF Tick, toolVars
<1>2. clock' \in Nat /\ stopped \subseteq stopped'
  BY <1>1 DEF ToolInv, ToolOK
<1> QED BY <1>1, <1>2, QuietKeepsTool

\* A signal only makes a command done.
LEMMA SignalKeepsTool == ASSUME ToolInv, NEW p, Signal(p) PROVE ToolInv'
<1>1. UNCHANGED <<clock, world, bus, news, tool, chan>> /\ stopped \subseteq stopped'
  BY DEF Signal, toolVars
<1>2. clock' \in Nat
  BY <1>1 DEF ToolInv, ToolOK
<1> QED BY <1>1, <1>2, QuietKeepsTool

\* A message that is published is news to its callback.
LEMMA PublishKeepsTool == ASSUME ToolInv, NEW t \in Names, Publish(t) PROVE ToolInv'
<1>0. /\ UNCHANGED <<clock, world, stopped, tool, chan>> /\ news' = news \cup {t}
      /\ bus' = [bus EXCEPT ![t] = Append(@, clock)]
  BY DEF Publish, toolVars
<1>1. /\ bus' \in [Names -> Seq(Nat)] /\ Names' = Names
      /\ \A u \in Names : u # t => bus'[u] = bus[u]
      /\ Len(bus'[t]) = Len(bus[t]) + 1 /\ Len(bus[t]) \in Nat
  BY <1>0 DEF ToolInv, ToolOK, Names
<1>2. ASSUME NEW u \in Names
      PROVE  chan[u].cursor \in Nat /\ Len(bus[u]) \in Nat /\ Len(bus'[u]) \in Nat /\ Len(bus[u]) <= Len(bus'[u])
  <2>1. chan[u].cursor \in Nat
    BY DEF ToolInv, ToolOK, ChannelRecords
  <2>2. Len(bus[u]) \in Nat
    BY DEF ToolInv, ToolOK
  <2>3. CASE u = t
    BY <2>1, <2>2, <2>3, <1>1
  <2>4. CASE u # t
    BY <2>1, <2>2, <2>4, <1>1
  <2> QED BY <2>3, <2>4
<1>3. ToolOK'
  BY <1>0, <1>1 DEF ToolInv, ToolOK
<1>4. CountsInv'
  <2> SUFFICES ASSUME NEW u \in Names PROVE Counted(u)'
    BY <1>1 DEF CountsInv
  <2>1. Counted(u)
    BY DEF ToolInv, CountsInv
  <2> QED BY <2>1, <1>0, <1>2 DEF Counted, Counts, CarriesSequence, Topic
<1>5. \A u \in Names : Ready(u) => Ready(u)'
  BY <1>0, <1>2 DEF Ready
<1>6. \A u \in Names : Told(u) => Told(u)'
  BY <1>0, <1>1 DEF Told, Ready
<1>7. ReadingInv'
  <2>1. tool.at \in Nat \ {0}
    BY DEF ToolInv, ToolOK, ToolRecords
  <2>2. Recording("read") => world.topics[tool.at].name \in Names
    BY <2>1, TopicFacts DEF ToolInv, ToolOK, ReadingInv
  <2> QED BY <2>2, <1>0, <1>5 DEF ToolInv, ReadingInv, Recording
<1>8. AwakeInv'
  <2> SUFFICES ASSUME world.command = "record", ~Done PROVE AwakeInv'
    BY <1>0 DEF AwakeInv, Done
  <2>1. \A j \in 1 .. Len(world.topics) : world.topics[j].name \in Names
    BY TopicFacts DEF ToolInv, ToolOK
  <2>2. tool.pc = "read" => world.topics[tool.at].name \in Names
    <3>1. tool.at \in Nat \ {0}
      BY DEF ToolInv, ToolOK, ToolRecords
    <3> QED BY <2>1, <3>1, TopicFacts DEF ToolInv, ToolOK, ReadingInv, Recording
  <2> QED BY <2>1, <2>2, <1>0, <1>1, <1>6 DEF ToolInv, AwakeInv, Done
<1> QED BY <1>3, <1>4, <1>7, <1>8 DEF ToolInv

\* A callback takes the news of a topic and wakes the recorder.
LEMMA NotifyKeepsTool == ASSUME ToolInv, NEW t \in Names, Notify(t) PROVE ToolInv'
<1>0. /\ UNCHANGED <<clock, world, bus, stopped, chan>> /\ news' = news \ {t}
      /\ tool' = [tool EXCEPT !.wake = @ \/ (world.command = "record" /\ chan[t].id # 0)]
  BY DEF Notify
<1>1. PICK b \in BOOLEAN : b = (tool.wake \/ (world.command = "record" /\ chan[t].id # 0))
  OBVIOUS
<1>2. tool' = [tool EXCEPT !.wake = b] /\ tool \in ToolRecords
  BY <1>0, <1>1 DEF ToolInv, ToolOK
<1>3. /\ tool' \in ToolRecords /\ tool'.wake = b /\ tool'.pc = tool.pc /\ tool'.at = tool.at
      /\ tool'.seen = tool.seen /\ tool'.total = tool.total
  BY <1>2 DEF ToolRecords
<1>4. ToolOK'
  BY <1>0, <1>3 DEF ToolInv, ToolOK, Names
<1>5. ReadingInv'
  BY <1>0, <1>3 DEF ToolInv, ReadingInv, Recording, Ready
<1>6. AwakeInv'
  <2> SUFFICES ASSUME world.command = "record" PROVE AwakeInv'
    BY <1>0 DEF AwakeInv
  <2>1. \A u : Told(u) => Told(u)'
    BY <1>0, <1>1, <1>3 DEF Told, Ready
  <2>2. tool.wake => tool'.wake
    BY <1>1, <1>3
  <2>3. chan[t].id # 0 => tool'.wake
    BY <1>1, <1>3
  <2>4. Done' = Done /\ Names' = Names
    BY <1>0, <1>3 DEF Done, Names
  <2> QED BY <2>1, <2>2, <2>3, <2>4, <1>0, <1>3 DEF ToolInv, AwakeInv
<1> QED BY <1>0, <1>4, <1>5, <1>6, CountsStay DEF ToolInv
-----------------------------------------------------------------------------
(* record *)

\* What a step of the command does to its own state, when it leaves the channels.
LEMMA ToolGoes ==
  ASSUME ToolInv, UNCHANGED <<clock, world, bus, news, chan>>, tool' \in ToolRecords,
         ReadingInv', AwakeInv'
  PROVE  ToolInv'
<1>1. ToolOK'
  BY DEF ToolInv, ToolOK, Names
<1> QED BY <1>1, CountsStay DEF ToolInv

\* The same when it goes where nothing is owed.
LEMMA ToolRests ==
  ASSUME ToolInv, UNCHANGED <<clock, world, bus, news, chan>>, tool' \in ToolRecords,
         tool'.pc \notin {"scan", "read", "wait"}
  PROVE  ToolInv'
BY ElsewhereQuiet, ToolGoes

\* Leaving for the end.
LEMMA LeaveFacts ==
  ASSUME ToolOK, NEW code \in {0, 1}, Leave(code) PROVE tool' \in ToolRecords /\ tool'.pc = "close"
BY DEF ToolOK, ToolRecords, ToolPoints, Leave

\* Exiting.
LEMMA ExitsFacts ==
  ASSUME ToolOK, NEW code \in {0, 1}, Exits(code) PROVE tool' \in ToolRecords /\ tool'.pc = "exited"
BY DEF ToolOK, ToolRecords, ToolPoints, Exits

\* A channel that just subscribed has nothing to read and counted nothing.
LEMMA SubscribedFacts ==
  ASSUME ToolInv, NEW t \in Names, NEW id \in Nat, chan' = Subscribed(t, id), UNCHANGED <<world, bus>>
  PROVE  chan' \in [Names -> ChannelRecords] /\ CountsInv'
<1>1. PICK n \in Nat : n = Len(bus[t])
  BY DEF ToolInv, ToolOK
<1>2. PICK c : c = [NoChannel EXCEPT !.id = id, !.cursor = n]
  OBVIOUS
<1>3. /\ c \in ChannelRecords /\ c.cursor = n /\ c.last = 0 /\ c.first = 0 /\ c.printed = 0
      /\ c.received = 0 /\ c.lost = 0
  BY <1>1, <1>2 DEF NoChannel, ChannelRecords
<1>4. chan' = [chan EXCEPT ![t] = c]
  BY <1>1, <1>2 DEF Subscribed
<1>5. chan' \in [Names -> ChannelRecords] /\ chan'[t] = c /\ \A u \in Names : u # t => chan'[u] = chan[u]
  BY <1>3, <1>4 DEF ToolInv, ToolOK
<1>6. Names' = Names
  BY DEF Names
<1>7. ASSUME NEW u \in Names PROVE Counted(u)'
  <2>1. CASE u = t
    BY <2>1, <1>1, <1>3, <1>5 DEF Counted, Counts
  <2>2. CASE u # t
    BY <2>2, <1>5 DEF ToolInv, CountsInv, Counted, Counts, CarriesSequence, Topic
  <2> QED BY <2>1, <2>2
<1> QED BY <1>5, <1>6, <1>7 DEF CountsInv

\* The recorder creates its file before it reads any topic.
LEMMA RecordCreateKeepsTool == ASSUME ToolInv, RecordCreate PROVE ToolInv'
<1>1. UNCHANGED <<clock, world, bus, news, chan>>
  BY DEF RecordCreate, envVars
<1>2. tool' \in ToolRecords /\ tool'.pc \notin {"scan", "read", "wait"}
  BY DEF RecordCreate, ToolInv, ToolOK, ToolRecords, ToolPoints
<1> QED BY <1>1, <1>2, ToolRests

\* The recorder begins its rounds.
LEMMA RecordStartKeepsTool == ASSUME ToolInv, RecordStart PROVE ToolInv'
<1>1. UNCHANGED <<clock, world, bus, news, chan>>
  BY DEF RecordStart, envVars
<1>2. PICK f \in Nat : f = clock + FlushInterval
  BY TopicToolAssumption DEF ToolInv, ToolOK
<1>3. tool' = [tool EXCEPT !.pc = "round", !.started = clock, !.flush = f] /\ clock \in Nat /\ tool \in ToolRecords
  BY <1>2 DEF RecordStart, ToolInv, ToolOK
<1>4. tool' \in ToolRecords /\ tool'.pc = "round"
  BY <1>2, <1>3 DEF ToolRecords, ToolPoints
<1> QED BY <1>1, <1>4, ToolRests

\* A round begins with no topic scanned.
LEMMA RecordRoundKeepsTool == ASSUME ToolInv, RecordRound PROVE ToolInv'
<1>1. UNCHANGED <<clock, world, bus, news, chan>>
  BY DEF RecordRound, envVars
<1>2. CASE Leave(0)
  BY <1>1, <1>2, LeaveFacts, ToolRests DEF ToolInv
<1>3. CASE tool' = [tool EXCEPT !.pc = "scan", !.at = 1, !.any = FALSE]
  <2>0. PICK n \in Nat \ {0} : n = 1
    OBVIOUS
  <2>b. PICK b \in BOOLEAN : b = FALSE
    OBVIOUS
  <2>1. tool' \in ToolRecords /\ tool'.pc = "scan" /\ tool'.at = 1
    <3>1. tool' = [tool EXCEPT !.pc = "scan", !.at = n, !.any = b] /\ tool \in ToolRecords
      BY <1>3, <2>0, <2>b DEF ToolInv, ToolOK
    <3>2. tool'.pc = "scan" /\ tool'.at = n
      BY <3>1 DEF ToolRecords
    <3>3. tool' \in ToolRecords
      BY <3>1 DEF ToolRecords, ToolPoints
    <3> QED BY <3>2, <3>3, <2>0
  <2>2. \A m : \A j \in 1 .. m : ~(j < 1)
    OBVIOUS
  <2>3. ReadingInv' /\ AwakeInv'
    BY <2>1, <2>2 DEF ReadingInv, AwakeInv, Recording
  <2> QED BY <1>1, <2>1, <2>3, ToolGoes
<1> QED BY <1>2, <1>3 DEF RecordRound

\* The wait takes the wakeup and a new round looks at every topic.
LEMMA RecordWaitKeepsTool == ASSUME ToolInv, RecordWait PROVE ToolInv'
<1>1. UNCHANGED <<clock, world, bus, news, chan>>
  BY DEF RecordWait, envVars
<1>2. tool' \in ToolRecords /\ tool'.pc = "round"
  BY DEF RecordWait, ToolInv, ToolOK, ToolRecords, ToolPoints
<1> QED BY <1>1, <1>2, ToolRests

\* A recorder that closes its file reads no more.
LEMMA RecordCloseKeepsTool == ASSUME ToolInv, RecordClose PROVE ToolInv'
<1>1. UNCHANGED <<clock, world, bus, news, chan>>
  BY DEF RecordClose, envVars
<1>2. tool' \in ToolRecords /\ tool'.pc = "exited"
  BY DEF RecordClose, ToolInv, ToolOK, ToolRecords, ToolPoints
<1> QED BY <1>1, <1>2, ToolRests

\* A recorder that is killed reads no more.
LEMMA RecorderKilledKeepsTool == ASSUME ToolInv, RecorderKilled PROVE ToolInv'
<1>1. UNCHANGED <<clock, world, bus, news, chan>>
  BY DEF RecorderKilled, envVars
<1>2. tool' \in ToolRecords /\ tool'.pc = "killed"
  BY DEF RecorderKilled, ToolInv, ToolOK, ToolRecords, ToolPoints
<1> QED BY <1>1, <1>2, ToolRests

\* A new channel starts after the newest message.
LEMMA RecordSubscribeKeepsTool == ASSUME ToolInv, out.topics \in Nat, RecordSubscribe PROVE ToolInv'
<1>0. /\ UNCHANGED <<clock, world, bus, news>> /\ Recording("subscribe") /\ tool.at <= Len(world.topics)
      /\ \/ /\ tool' = [tool EXCEPT !.at = @ + 1]
            /\ chan' = Subscribed(world.topics[tool.at].name, out.topics + 1)
         \/ Leave(1) /\ UNCHANGED chan
  BY DEF RecordSubscribe, envVars
<1>1. CASE Leave(1) /\ UNCHANGED chan
  BY <1>0, <1>1, LeaveFacts, ToolRests DEF ToolInv
<1>2. CASE tool' = [tool EXCEPT !.at = @ + 1] /\ chan' = Subscribed(world.topics[tool.at].name, out.topics + 1)
  <2>1. tool \in ToolRecords /\ tool.at \in Nat \ {0} /\ tool.pc = "subscribe"
    BY <1>0 DEF ToolInv, ToolOK, ToolRecords, Recording
  <2>2. PICK n \in Nat \ {0} : n = tool.at + 1
    BY <2>1
  <2>3. tool' = [tool EXCEPT !.at = n]
    BY <1>2, <2>2
  <2>4. tool' \in ToolRecords /\ tool'.pc = "subscribe"
    BY <2>1, <2>3 DEF ToolRecords
  <2>5. world.topics[tool.at].name \in Names
    BY <1>0, <2>1, TopicFacts DEF ToolInv, ToolOK
  <2>6. PICK id \in Nat : id = out.topics + 1
    OBVIOUS
  <2>7. chan' \in [Names -> ChannelRecords] /\ CountsInv'
    BY <1>0, <1>2, <2>5, <2>6, SubscribedFacts
  <2>8. ToolOK'
    BY <1>0, <2>4, <2>7 DEF ToolInv, ToolOK, Names
  <2> QED BY <2>4, <2>7, <2>8, ElsewhereQuiet DEF ToolInv
<1> QED BY <1>0, <1>1, <1>2

\* What a recorder that reads, or scans, is at.
LEMMA ScannedTopic ==
  ASSUME ToolInv, tool.at <= Len(world.topics)
  PROVE  /\ tool \in ToolRecords /\ tool.at \in 1 .. Len(world.topics) /\ Len(world.topics) \in Nat
         /\ world.topics[tool.at].name \in Names /\ Counted(world.topics[tool.at].name)
<1>1. tool \in ToolRecords /\ tool.at \in Nat \ {0}
  BY DEF ToolInv, ToolOK, ToolRecords
<1>2. Len(world.topics) \in Nat
  BY TopicFacts DEF ToolInv, ToolOK
<1>3. world.topics[tool.at].name \in Names
  BY <1>1, <1>2, TopicFacts DEF ToolInv, ToolOK
<1> QED BY <1>1, <1>2, <1>3 DEF ToolInv, CountsInv

\* A recorder that was told of all topics up to the one it is at goes on.
LEMMA NextTopic ==
  ASSUME ToolInv, tool.at <= Len(world.topics), tool.pc \in {"scan", "read"},
         UNCHANGED <<clock, world, bus, news, chan, stopped>>, tool' = [tool EXCEPT !.pc = "scan", !.at = @ + 1],
         world.command = "record", Done \/ Told(world.topics[tool.at].name)
  PROVE  ToolInv'
<1>1. tool \in ToolRecords /\ tool.at \in Nat \ {0} /\ tool.at \in 1 .. Len(world.topics) /\ Len(world.topics) \in Nat
  BY ScannedTopic
<1>2. PICK n \in Nat \ {0} : n = tool.at + 1
  BY <1>1
<1>3. tool' = [tool EXCEPT !.pc = "scan", !.at = n]
  BY <1>2
<1>4. /\ tool' \in ToolRecords /\ tool'.pc = "scan" /\ tool'.at = n /\ tool'.total = tool.total
      /\ tool'.wake = tool.wake
  BY <1>1, <1>3 DEF ToolRecords, ToolPoints
<1>5. Done' = Done /\ \A t : Told(t)' <=> Told(t)
  BY <1>4 DEF Done, Told, Ready
<1>6. AwakeInv'
  <2> SUFFICES ASSUME ~Done, NEW j \in 1 .. Len(world.topics), j < n PROVE Told(world.topics[j].name)
    BY <1>4, <1>5 DEF AwakeInv
  <2>1. j < tool.at \/ j = tool.at
    BY <1>1, <1>2
  <2> QED BY <2>1 DEF ToolInv, AwakeInv
<1>7. ReadingInv'
  BY <1>4 DEF ReadingInv, Recording
<1> QED BY <1>4, <1>6, <1>7, ToolGoes

\* A topic is passed when nothing is pending, and looked at before it is read.
LEMMA RecordScanKeepsTool == ASSUME ToolInv, RecordScan PROVE ToolInv'
<1> DEFINE t == world.topics[tool.at].name
<1>0. /\ UNCHANGED <<clock, world, bus, news, stopped, chan>> /\ Recording("scan") /\ tool.at <= Len(world.topics)
      /\ \/ (Done \/ Pending(t) = 0) /\ tool' = [tool EXCEPT !.at = @ + 1]
         \/ Pending(t) > 0 /\ tool' = [tool EXCEPT !.pc = "read", !.seen = Len(bus[t])]
         \/ Leave(1)
  BY DEF RecordScan, envVars
<1>1. /\ tool \in ToolRecords /\ tool.at \in 1 .. Len(world.topics) /\ t \in Names /\ Counted(t)
      /\ tool.pc = "scan" /\ world.command = "record"
  BY <1>0, ScannedTopic DEF Recording
<1>2. Pending(t) \in Nat /\ (Pending(t) > 0 <=> Ready(t))
  BY <1>1, PendingFacts DEF ToolInv
<1>3. CASE Leave(1)
  BY <1>0, <1>3, LeaveFacts, ToolRests DEF ToolInv
<1>4. CASE (Done \/ Pending(t) = 0) /\ tool' = [tool EXCEPT !.at = @ + 1]
  <2>1. Done \/ Told(t)
    BY <1>2, <1>4 DEF Told
  <2>2. tool' = [tool EXCEPT !.pc = "scan", !.at = @ + 1]
    BY <1>1, <1>4 DEF ToolRecords
  <2> QED BY <2>1, <2>2, <1>0, <1>1, NextTopic
<1>5. CASE Pending(t) > 0 /\ tool' = [tool EXCEPT !.pc = "read", !.seen = Len(bus[t])]
  <2>1. PICK n \in Nat : n = Len(bus[t])
    BY <1>1 DEF ToolInv, ToolOK
  <2>2. tool' = [tool EXCEPT !.pc = "read", !.seen = n]
    BY <1>5, <2>1
  <2>3. /\ tool' \in ToolRecords /\ tool'.pc = "read" /\ tool'.at = tool.at /\ tool'.seen = n
        /\ tool'.total = tool.total /\ tool'.wake = tool.wake
    BY <1>1, <2>2 DEF ToolRecords, ToolPoints
  <2>4. Done' = Done /\ \A u : Told(u)' <=> Told(u)
    BY <2>3, <1>0 DEF Done, Told, Ready
  <2>5. Ready(t)
    BY <1>2, <1>5
  <2>6. ReadingInv'
    BY <2>3, <2>5, <1>0 DEF ReadingInv, Recording, Ready
  <2>7. AwakeInv'
    BY <2>1, <2>3, <2>4, <1>0, <1>1 DEF ToolInv, AwakeInv
  <2> QED BY <2>3, <2>6, <2>7, <1>0, ToolGoes
<1> QED BY <1>0, <1>3, <1>4, <1>5

\* A channel that received a message, perhaps with what it counted printed.
LEMMA ChannelTakes ==
  ASSUME ToolInv, NEW t \in Names, NEW c \in ChannelRecords, Counts(t, c, Len(bus[t])),
         chan' = [chan EXCEPT ![t] = c], UNCHANGED <<world, bus>>
  PROVE  chan' \in [Names -> ChannelRecords] /\ CountsInv'
<1>1. chan' \in [Names -> ChannelRecords] /\ chan'[t] = c /\ \A u \in Names : u # t => chan'[u] = chan[u]
  BY DEF ToolInv, ToolOK
<1>2. ASSUME NEW u \in Names PROVE Counted(u)'
  <2>1. CASE u = t
    BY <2>1, <1>1 DEF Counted, Counts, CarriesSequence, Topic
  <2>2. CASE u # t
    BY <2>2, <1>1 DEF ToolInv, CountsInv, Counted, Counts, CarriesSequence, Topic
  <2> QED BY <2>1, <2>2
<1> QED BY <1>1, <1>2 DEF CountsInv, Names

\* A message that is read is counted; a read that fails was overtaken by news.
LEMMA RecordReadKeepsTool == ASSUME ToolInv, RecordRead PROVE ToolInv'
<1> DEFINE t == world.topics[tool.at].name
<1>0. /\ UNCHANGED <<clock, world, bus, news, stopped>> /\ Recording("read")
      /\ \/ /\ \/ tool' = [tool EXCEPT !.pc = "scan", !.any = TRUE, !.total = @ + 1]
               \/ Leave(1)
            /\ chan' = [chan EXCEPT ![t] = Received(t)]
         \/ /\ Len(bus[t]) # tool.seen /\ tool' = [tool EXCEPT !.pc = "scan", !.at = @ + 1]
            /\ UNCHANGED chan
  BY DEF RecordRead, envVars
<1>1. tool.at <= Len(world.topics) /\ Ready(t) /\ tool.pc = "read" /\ world.command = "record"
  BY <1>0 DEF ToolInv, ReadingInv, Recording
<1>2. tool \in ToolRecords /\ tool.at \in 1 .. Len(world.topics) /\ t \in Names /\ Counted(t)
  BY <1>1, ScannedTopic
<1>3. CASE Len(bus[t]) # tool.seen /\ tool' = [tool EXCEPT !.pc = "scan", !.at = @ + 1] /\ UNCHANGED chan
  <2>1. Done \/ Told(t)
    BY <1>1, <1>3 DEF ToolInv, AwakeInv, Told
  <2> QED BY <2>1, <1>0, <1>1, <1>3, NextTopic
<1>4. CASE chan' = [chan EXCEPT ![t] = Received(t)]
  <2>1. Received(t) \in ChannelRecords /\ Counts(t, Received(t), Len(bus[t]))
    BY <1>1, <1>2, ReceivedCounts DEF ToolInv
  <2>2. PICK c \in ChannelRecords : c = Received(t) /\ Counts(t, c, Len(bus[t]))
    BY <2>1
  <2>3. chan' = [chan EXCEPT ![t] = c]
    BY <1>4, <2>2
  <2>4. chan' \in [Names -> ChannelRecords] /\ CountsInv'
    BY <2>2, <2>3, <1>0, <1>2, ChannelTakes
  <2>5. CASE Leave(1)
    <3>1. tool' \in ToolRecords /\ tool'.pc = "close"
      BY <2>5, LeaveFacts DEF ToolInv
    <3>2. ToolOK'
      BY <3>1, <2>4, <1>0 DEF ToolInv, ToolOK, Names
    <3> QED BY <3>1, <3>2, <2>4, ElsewhereQuiet DEF ToolInv
  <2>6. CASE tool' = [tool EXCEPT !.pc = "scan", !.any = TRUE, !.total = @ + 1]
    <3>1. PICK n \in Nat : n = tool.total + 1
      BY <1>2 DEF ToolRecords
    <3>2. PICK b \in BOOLEAN : b = TRUE
      OBVIOUS
    <3>3. tool' = [tool EXCEPT !.pc = "scan", !.any = b, !.total = n]
      BY <2>6, <3>1, <3>2
    <3>4. /\ tool' \in ToolRecords /\ tool'.pc = "scan" /\ tool'.at = tool.at /\ tool'.wake = tool.wake
          /\ tool'.total = n
      BY <1>2, <3>3 DEF ToolRecords, ToolPoints
    <3>5. ToolOK'
      BY <3>4, <2>4, <1>0 DEF ToolInv, ToolOK, Names
    <3>6. Done => Done'
      <4>1. world.count \in Nat /\ tool.total \in Nat
        BY <1>2, TopicToolAssumption DEF ToolInv, ToolOK, ToolRecords
      <4> QED BY <4>1, <3>1, <3>4, <1>0 DEF Done
    <3>7. ASSUME NEW u \in Names, Told(u) PROVE Told(u)'
      <4>1. CASE u # t
        BY <4>1, <3>4, <3>7, <2>3, <1>0 DEF Told, Ready, ToolInv, ToolOK
      <4>2. CASE u = t
        <5>1. c.id = chan[t].id
          BY <2>2, <1>2, Zenon DEF Received, ToolInv, ToolOK, ChannelRecords
        <5>2. chan'[t] = c
          BY <2>3, <1>2 DEF ToolInv, ToolOK
        <5>3. chan[t].id # 0 /\ t \notin news => tool.wake
          BY <3>7, <4>2, <1>1 DEF Told
        <5> QED BY <5>1, <5>2, <5>3, <4>2, <3>4, <1>0 DEF Told
      <4> QED BY <4>1, <4>2
    <3>8. AwakeInv'
      <4> SUFFICES ASSUME ~Done, NEW j \in 1 .. Len(world.topics), j < tool.at PROVE Told(world.topics[j].name)'
        BY <3>4, <3>6, <1>0 DEF AwakeInv
      <4>1. Told(world.topics[j].name)
        BY <1>1 DEF ToolInv, AwakeInv
      <4>2. world.topics[j].name \in Names
        BY TopicFacts DEF ToolInv, ToolOK
      <4> QED BY <4>1, <4>2, <3>7, <1>0
    <3>9. ReadingInv'
      BY <3>4 DEF ReadingInv, Recording
    <3> QED BY <3>5, <3>8, <3>9, <2>4 DEF ToolInv
  <2> QED BY <1>0, <1>1, <2>5, <2>6, <1>3
<1> QED BY <1>0, <1>3, <1>4

\* A round that found nothing ends in a wait, every topic scanned.
LEMMA RecordRoundEndKeepsTool == ASSUME ToolInv, RecordRoundEnd PROVE ToolInv'
<1>0. /\ UNCHANGED <<clock, world, bus, news, stopped, chan>> /\ Recording("scan") /\ tool.at > Len(world.topics)
      /\ \/ tool' = [tool EXCEPT !.pc = AfterRound]
         \/ tool' = [tool EXCEPT !.pc = AfterRound, !.flush = clock + FlushInterval]
         \/ Leave(1)
  BY DEF RecordRoundEnd, envVars
<1>1. CASE Leave(1)
  BY <1>0, <1>1, LeaveFacts, ToolRests DEF ToolInv
<1>2. CASE ~Leave(1)
  <2>1. tool \in ToolRecords /\ tool.flush \in Nat /\ AfterRound \in {"round", "wait"} /\ tool.at \in Nat
    BY DEF ToolInv, ToolOK, ToolRecords, AfterRound
  <2>2. PICK f \in Nat : tool' = [tool EXCEPT !.pc = AfterRound, !.flush = f]
    <3>1. CASE tool' = [tool EXCEPT !.pc = AfterRound]
      <4>1. [tool EXCEPT !.pc = AfterRound] = [tool EXCEPT !.pc = AfterRound, !.flush = tool.flush]
        BY <2>1 DEF ToolRecords
      <4> QED BY <4>1, <3>1, <2>1
    <3>2. CASE tool' = [tool EXCEPT !.pc = AfterRound, !.flush = clock + FlushInterval]
      <4>1. clock + FlushInterval \in Nat
        BY TopicToolAssumption DEF ToolInv, ToolOK
      <4> QED BY <4>1, <3>2
    <3> QED BY <3>1, <3>2, <1>0, <1>2
  <2>3. /\ tool' \in ToolRecords /\ tool'.pc = AfterRound /\ tool'.total = tool.total /\ tool'.wake = tool.wake
    BY <2>1, <2>2 DEF ToolRecords, ToolPoints
  <2>4. ReadingInv'
    BY <2>1, <2>3 DEF ReadingInv, Recording
  <2>5. Done' = Done /\ \A u : Told(u)' <=> Told(u)
    BY <2>3, <1>0 DEF Done, Told, Ready
  <2>6. ASSUME ~Done, world.command = "record", NEW t \in Names PROVE Told(t)
    <3>1. PICK i \in DOMAIN world.topics : t = world.topics[i].name
      BY DEF Names
    <3>2. i \in 1 .. Len(world.topics) /\ Len(world.topics) \in Nat
      BY TopicToolAssumption DEF ToolInv, ToolOK
    <3>3. i < tool.at
      BY <3>2, <2>1, <1>0
    <3> QED BY <3>1, <3>2, <3>3, <2>6, <1>0 DEF ToolInv, AwakeInv, Recording
  <2>7. AwakeInv'
    BY <2>1, <2>3, <2>5, <2>6, <1>0 DEF AwakeInv, Names
  <2> QED BY <2>3, <2>4, <2>7, <1>0, ToolGoes
<1> QED BY <1>1, <1>2
-----------------------------------------------------------------------------
(* echo and hz *)

\* echo and hz subscribe to their topic.
LEMMA ListenKeepsTool == ASSUME ToolInv, Listen PROVE ToolInv'
<1>0. /\ UNCHANGED <<clock, world, bus, news>> /\ world.command # "record"
      /\ \/ /\ chan' = Subscribed(Listened, 1)
            /\ tool' = [tool EXCEPT !.pc = "listen", !.started = clock, !.window = clock]
         \/ Exits(1) /\ UNCHANGED chan
  BY DEF Listen, envVars
<1>1. CASE Exits(1) /\ UNCHANGED chan
  BY <1>0, <1>1, ExitsFacts, ToolRests DEF ToolInv
<1>2. CASE /\ chan' = Subscribed(Listened, 1)
           /\ tool' = [tool EXCEPT !.pc = "listen", !.started = clock, !.window = clock]
  <2>1. tool' \in ToolRecords /\ tool'.pc = "listen"
    BY <1>2 DEF ToolInv, ToolOK, ToolRecords, ToolPoints
  <2>2. Listened \in Names
    BY TopicFacts DEF ToolInv, ToolOK
  <2>3. chan' \in [Names -> ChannelRecords] /\ CountsInv'
    BY <1>0, <1>2, <2>2, SubscribedFacts
  <2>4. ToolOK'
    BY <1>0, <2>1, <2>3 DEF ToolInv, ToolOK, Names
  <2> QED BY <2>1, <2>3, <2>4, ElsewhereQuiet DEF ToolInv
<1> QED BY <1>0, <1>1, <1>2

\* A command other than record that changes its channel.
LEMMA ListenerTakes ==
  ASSUME ToolInv, UNCHANGED <<clock, world, bus, news>>, world.command # "record", tool' \in ToolRecords,
         NEW c \in ChannelRecords, Counts(Listened, c, Len(bus[Listened])),
         chan' = [chan EXCEPT ![Listened] = c]
  PROVE  ToolInv'
<1>1. Listened \in Names
  BY TopicFacts DEF ToolInv, ToolOK
<1>2. chan' \in [Names -> ChannelRecords] /\ CountsInv'
  BY <1>1, ChannelTakes
<1>3. ToolOK'
  BY <1>2 DEF ToolInv, ToolOK, Names
<1> QED BY <1>2, <1>3, ElsewhereQuiet DEF ToolInv

\* echo counts the message it prints.
LEMMA EchoNextKeepsTool == ASSUME ToolInv, EchoNext PROVE ToolInv'
<1>0. /\ UNCHANGED <<clock, world, bus, news>> /\ world.command # "record"
      /\ \/ /\ Pending(Listened) > 0
            /\ chan' = [chan EXCEPT ![Listened] = Received(Listened)]
            /\ tool' = [tool EXCEPT !.total = @ + 1]
         \/ Exits(1) /\ UNCHANGED chan
  BY DEF EchoNext, envVars, Listening
<1>1. CASE Exits(1) /\ UNCHANGED chan
  BY <1>0, <1>1, ExitsFacts, ToolRests DEF ToolInv
<1>2. CASE /\ Pending(Listened) > 0
           /\ chan' = [chan EXCEPT ![Listened] = Received(Listened)]
           /\ tool' = [tool EXCEPT !.total = @ + 1]
  <2>1. PICK n \in Nat : n = tool.total + 1
    BY DEF ToolInv, ToolOK, ToolRecords
  <2>2. tool' = [tool EXCEPT !.total = n] /\ tool \in ToolRecords
    BY <1>2, <2>1 DEF ToolInv, ToolOK
  <2>3. tool' \in ToolRecords
    BY <2>2 DEF ToolRecords
  <2>4. Listened \in Names /\ Counted(Listened)
    BY TopicFacts DEF ToolInv, ToolOK, CountsInv
  <2>5. Ready(Listened)
    BY <1>2, <2>4, PendingFacts DEF ToolInv
  <2>6. Received(Listened) \in ChannelRecords /\ Counts(Listened, Received(Listened), Len(bus[Listened]))
    BY <2>4, <2>5, ReceivedCounts DEF ToolInv
  <2> QED BY <1>0, <1>2, <2>3, <2>6, ListenerTakes
<1> QED BY <1>0, <1>1, <1>2

\* echo and hz end.
LEMMA EchoEndKeepsTool == ASSUME ToolInv, EchoEnd \/ HzStopped PROVE ToolInv'
<1>1. UNCHANGED <<clock, world, bus, news, chan>>
  BY DEF EchoEnd, HzStopped, envVars
<1>2. Exits(0) \/ Exits(1)
  BY DEF EchoEnd, HzStopped
<1> QED BY <1>1, <1>2, ExitsFacts, ToolRests DEF ToolInv

\* The fields of a channel that printed its window.
PrintedIn(d, c) ==
  /\ d \in ChannelRecords /\ d.cursor = c.cursor /\ d.first = c.first /\ d.last = c.last
  /\ d.printed = c.printed + c.received + c.lost /\ d.received = 0 /\ d.lost = 0

\* The channel whose window was printed has those fields.
LEMMA ReportedRecord == ASSUME NEW c \in ChannelRecords PROVE PrintedIn(Reported(c), c)
<1>1. PICK m \in Nat : m = c.printed + c.received + c.lost
  BY DEF ChannelRecords
<1>2. PICK z \in Nat : z = 0
  OBVIOUS
<1>3. Reported(c) = [c EXCEPT !.printed = m, !.received = z, !.lost = z]
  BY <1>1, <1>2 DEF Reported
<1>4. PICK d : d = [c EXCEPT !.printed = m, !.received = z, !.lost = z]
  OBVIOUS
<1>5. d \in ChannelRecords
  BY <1>4 DEF ChannelRecords
<1>6. /\ d.cursor = c.cursor /\ d.first = c.first /\ d.last = c.last
      /\ d.printed = m /\ d.received = z /\ d.lost = z
  BY <1>4 DEF ChannelRecords
<1> QED BY <1>1, <1>2, <1>3, <1>4, <1>5, <1>6 DEF PrintedIn

\* Printing what a window counted keeps the sum.
LEMMA ReportedCounts ==
  ASSUME NEW t, NEW n \in Nat, NEW c \in ChannelRecords, Counts(t, c, n)
  PROVE  Reported(c) \in ChannelRecords /\ Counts(t, Reported(c), n)
<1>1. PICK d : d = Reported(c) /\ PrintedIn(d, c)
  BY ReportedRecord
<1>2. c.received \in Nat /\ c.lost \in Nat /\ c.printed \in Nat
  BY DEF ChannelRecords
<1>3. d.printed + d.received + d.lost = c.printed + c.received + c.lost
  BY <1>1, <1>2 DEF PrintedIn
<1> QED BY <1>1, <1>3 DEF Counts, PrintedIn

\* hz counts the message it reads, and what it printed stays counted.
LEMMA HzNextKeepsTool == ASSUME ToolInv, HzNext PROVE ToolInv'
<1> DEFINE due == clock - tool.window >= 1 \/ Overdue
<1>0. /\ UNCHANGED <<clock, world, bus, news>> /\ world.command # "record"
      /\ \/ /\ \E c \in IF Pending(Listened) > 0 THEN {Received(Listened)} ELSE {chan[Listened]} :
                  chan' = [chan EXCEPT ![Listened] = IF due THEN Reported(c) ELSE c]
            /\ tool' = [tool EXCEPT !.window = IF due THEN clock ELSE @,
                                    !.pc = IF Overdue THEN "exited" ELSE @,
                                    !.exit = IF Overdue THEN 0 ELSE @]
         \/ Exits(1) /\ UNCHANGED chan
  BY DEF HzNext, envVars, Listening
<1>1. CASE Exits(1) /\ UNCHANGED chan
  BY <1>0, <1>1, ExitsFacts, ToolRests DEF ToolInv
<1>2. CASE ~(Exits(1) /\ UNCHANGED chan)
  <2>1. PICK c : /\ c \in IF Pending(Listened) > 0 THEN {Received(Listened)} ELSE {chan[Listened]}
                 /\ chan' = [chan EXCEPT ![Listened] = IF due THEN Reported(c) ELSE c]
    BY <1>0, <1>2
  <2>2. Listened \in Names /\ Counted(Listened)
    BY TopicFacts DEF ToolInv, ToolOK, CountsInv
  <2>3. c \in ChannelRecords /\ Counts(Listened, c, Len(bus[Listened]))
    <3>1. CASE Pending(Listened) > 0
      <4>1. Ready(Listened)
        BY <3>1, <2>2, PendingFacts DEF ToolInv
      <4> QED BY <4>1, <3>1, <2>1, <2>2, ReceivedCounts DEF ToolInv
    <3>2. CASE ~(Pending(Listened) > 0)
      <4>1. c = chan[Listened]
        BY <3>2, <2>1
      <4> QED BY <4>1, <2>2 DEF ToolInv, ToolOK, Counted
    <3> QED BY <3>1, <3>2
  <2>4. PICK d : d = IF due THEN Reported(c) ELSE c
    OBVIOUS
  <2>5. d \in ChannelRecords /\ Counts(Listened, d, Len(bus[Listened]))
    <3>1. Len(bus[Listened]) \in Nat
      BY <2>2 DEF ToolInv, ToolOK
    <3>2. Reported(c) \in ChannelRecords /\ Counts(Listened, Reported(c), Len(bus[Listened]))
      BY <3>1, <2>3, ReportedCounts
    <3> QED BY <3>2, <2>3, <2>4
  <2>6. chan' = [chan EXCEPT ![Listened] = d]
    BY <2>1, <2>4
  <2>7. tool' \in ToolRecords
    <3>0. tool \in ToolRecords /\ clock \in Nat
      BY DEF ToolInv, ToolOK
    <3>1. PICK w : w = IF due THEN clock ELSE tool.window
      OBVIOUS
    <3>2. PICK q : q = IF Overdue THEN "exited" ELSE tool.pc
      OBVIOUS
    <3>3. PICK x : x = IF Overdue THEN 0 ELSE tool.exit
      OBVIOUS
    <3>4. w \in Nat /\ q \in ToolPoints /\ x \in {None, 0, 1}
      BY <3>0, <3>1, <3>2, <3>3 DEF ToolRecords, ToolPoints
    <3>5. tool' = [tool EXCEPT !.window = w, !.pc = q, !.exit = x]
      BY <1>0, <1>2, <3>1, <3>2, <3>3
    <3> QED BY <3>0, <3>4, <3>5 DEF ToolRecords
  <2> QED BY <2>5, <2>6, <2>7, <1>0, ListenerTakes
<1> QED BY <1>1, <1>2
-----------------------------------------------------------------------------
(* The layout of a recording *)

Messages == [topic : Nat, time : Nat, sequence : Nat, payload : Seq(Nat)]

\* W is n records after a file header, the i-th of them from B[i] on.
Layout(W, B, n) ==
  /\ n \in Nat /\ W \in Seq(Cells) /\ B \in [1 .. n + 1 -> Nat]
  /\ B[1] = 2 /\ B[n + 1] = Len(W) /\ W[1] = FileHeader[1] /\ W[2] = FileHeader[2]
  /\ \A i \in 1 .. n : W[B[i] + 2] \in Nat /\ B[i + 1] = B[i] + 2 + W[B[i] + 2]
  /\ \A i, j \in 1 .. n + 1 : i <= j => B[i] <= B[j]

\* From position p on there is the record of a topic, or of a message.
TopicAt(W, p, id) == W[p + 1] = "topic" /\ W[p + 2] = 2 /\ W[p + 3] = id
MessageAt(W, p, m) ==
  /\ W[p + 1] = "message" /\ W[p + 2] = 2 + Len(m.payload)
  /\ W[p + 3] = m.topic /\ W[p + 4] = [time |-> m.time, sequence |-> m.sequence]
  /\ \A q \in 1 .. Len(m.payload) : W[p + 4 + q] = m.payload[q]

\* The records of W are those of the topics, and then those of the messages.
Contents(W, B, topics, log) ==
  /\ \A i \in 1 .. topics : TopicAt(W, B[i], i)
  /\ \A j \in 1 .. Len(log) : MessageAt(W, B[topics + j], log[j])

\* The same with one record more.
Extended(B, n, size) == [i \in 1 .. n + 2 |-> IF i <= n + 1 THEN B[i] ELSE B[n + 1] + 2 + size]

\* V is W with a record of this kind and body after it.
Follows(V, W, kind, body) ==
  /\ V \in Seq(Cells) /\ Len(V) = Len(W) + 2 + Len(body)
  /\ \A p \in 1 .. Len(W) : V[p] = W[p]
  /\ V[Len(W) + 1] = kind /\ V[Len(W) + 2] = Len(body)
  /\ \A q \in 1 .. Len(body) : V[Len(W) + 2 + q] = body[q]

\* All of them can be written.
LEMMA CellFacts == Words \subseteq Cells /\ Nat \subseteq Cells /\ Declared \subseteq Cells /\ Stamped \subseteq Cells
BY DEF Cells

\* A pair as a sequence.
LEMMA PairFacts ==
  ASSUME NEW S, NEW a \in S, NEW b \in S
  PROVE  <<a, b>> \in Seq(S) /\ Len(<<a, b>>) = 2 /\ <<a, b>>[1] = a /\ <<a, b>>[2] = b
OBVIOUS

\* u is s with t after it.
Joined(u, s, t) ==
  /\ Len(s) \in Nat /\ Len(t) \in Nat /\ Len(u) = Len(s) + Len(t)
  /\ \A i \in 1 .. Len(s) : u[i] = s[i]
  /\ \A i \in 1 .. Len(t) : u[Len(s) + i] = t[i]

\* Two sequences, one after the other.
LEMMA JoinFacts ==
  ASSUME NEW S, NEW s \in Seq(S), NEW t \in Seq(S) PROVE s \o t \in Seq(S) /\ Joined(s \o t, s, t)
<1>1. Len(s) \in Nat /\ Len(t) \in Nat
  OBVIOUS
<1>2. /\ s \o t \in Seq(S) /\ Len(s \o t) = Len(s) + Len(t)
      /\ \A i \in 1 .. Len(s) + Len(t) : (s \o t)[i] = IF i <= Len(s) THEN s[i] ELSE t[i - Len(s)]
  BY ConcatProperties
<1>3. ASSUME NEW i \in 1 .. Len(t) PROVE (s \o t)[Len(s) + i] = t[i]
  <2>1. Len(s) + i \in 1 .. Len(s) + Len(t) /\ ~(Len(s) + i <= Len(s)) /\ Len(s) + i - Len(s) = i
    BY <1>1
  <2> QED BY <2>1, <1>2
<1>4. ASSUME NEW i \in 1 .. Len(s) PROVE (s \o t)[i] = s[i]
  <2>1. i \in 1 .. Len(s) + Len(t) /\ i <= Len(s)
    BY <1>1
  <2> QED BY <2>1, <1>2
<1> QED BY <1>1, <1>2, <1>3, <1>4 DEF Joined

\* A record is two cells and its body.
LEMMA RecordFacts ==
  ASSUME NEW kind \in Words, NEW body \in Seq(Cells)
  PROVE  LET r == Record(kind, body)
         IN  /\ r \in Seq(Cells) /\ Len(r) = 2 + Len(body) /\ r[1] = kind /\ r[2] = Len(body)
             /\ \A q \in 1 .. Len(body) : r[2 + q] = body[q]
<1>0. Len(body) \in Nat
  OBVIOUS
<1>1. kind \in Cells /\ Len(body) \in Cells
  BY <1>0, CellFacts
<1> DEFINE h == <<kind, Len(body)>>
<1>2. h \in Seq(Cells) /\ Len(h) = 2 /\ h[1] = kind /\ h[2] = Len(body)
  BY <1>1, PairFacts
<1> HIDE DEF h
<1>3. /\ h \o body \in Seq(Cells) /\ Len(h \o body) = 2 + Len(body)
      /\ \A i \in 1 .. 2 : (h \o body)[i] = h[i]
      /\ \A i \in 1 .. Len(body) : (h \o body)[2 + i] = body[i]
  <2>1. h \o body \in Seq(Cells) /\ Joined(h \o body, h, body)
    BY <1>2, JoinFacts
  <2> QED BY <2>1, <1>2 DEF Joined
<1>4. (h \o body)[1] = h[1] /\ (h \o body)[2] = h[2]
  BY <1>3
<1> QED BY <1>2, <1>3, <1>4 DEF Record, h

\* What a record is appended to is followed by it.
LEMMA RecordFollows ==
  ASSUME NEW W \in Seq(Cells), NEW kind \in Words, NEW body \in Seq(Cells)
  PROVE  Follows(W \o Record(kind, body), W, kind, body)
<1> DEFINE r == Record(kind, body)
<1>1. /\ r \in Seq(Cells) /\ Len(r) = 2 + Len(body) /\ r[1] = kind /\ r[2] = Len(body)
      /\ \A q \in 1 .. Len(body) : r[2 + q] = body[q]
  BY RecordFacts
<1> HIDE DEF r
<1> DEFINE V == W \o r
<1>2. /\ V \in Seq(Cells) /\ Len(W) \in Nat /\ Len(V) = Len(W) + Len(r)
      /\ \A i \in 1 .. Len(W) : V[i] = W[i]
      /\ \A i \in 1 .. Len(r) : V[Len(W) + i] = r[i]
  <2>1. V \in Seq(Cells) /\ Joined(V, W, r)
    BY <1>1, JoinFacts
  <2> QED BY <2>1 DEF Joined
<1> HIDE DEF V
<1>3. Len(body) \in Nat
  OBVIOUS
<1>4. V[Len(W) + 1] = kind /\ V[Len(W) + 2] = Len(body)
  <2>1. 1 \in 1 .. Len(r) /\ 2 \in 1 .. Len(r)
    BY <1>1, <1>3
  <2> QED BY <2>1, <1>1, <1>2
<1>5. ASSUME NEW q \in 1 .. Len(body) PROVE V[Len(W) + 2 + q] = body[q]
  <2>1. 2 + q \in 1 .. Len(r) /\ Len(W) + 2 + q = Len(W) + (2 + q)
    BY <1>1, <1>2, <1>3
  <2> QED BY <2>1, <1>1, <1>2
<1>6. Len(V) = Len(W) + 2 + Len(body)
  BY <1>1, <1>2, <1>3
<1> QED BY <1>2, <1>4, <1>5, <1>6 DEF Follows, r, V

\* A record after a layout gives the next layout.
LEMMA LayoutGrows ==
  ASSUME NEW W, NEW B, NEW n, Layout(W, B, n), NEW V, NEW kind, NEW body \in Seq(Cells), Follows(V, W, kind, body)
  PROVE  /\ Layout(V, Extended(B, n, Len(body)), n + 1)
         /\ \A i \in 1 .. n + 1 : Extended(B, n, Len(body))[i] = B[i]
<1> DEFINE C == Extended(B, n, Len(body))
<1>0. n \in Nat /\ Len(body) \in Nat /\ Len(W) \in Nat /\ B \in [1 .. n + 1 -> Nat]
  BY DEF Layout
<1>1. /\ C \in [1 .. n + 2 -> Nat] /\ \A i \in 1 .. n + 1 : C[i] = B[i]
      /\ C[n + 2] = B[n + 1] + 2 + Len(body)
  BY <1>0 DEF Extended
<1> HIDE DEF C
<1>2. /\ B[1] = 2 /\ B[n + 1] = Len(W) /\ Len(W) >= 2
      /\ \A i \in 1 .. n : W[B[i] + 2] \in Nat /\ B[i + 1] = B[i] + 2 + W[B[i] + 2]
      /\ \A i, j \in 1 .. n + 1 : i <= j => B[i] <= B[j]
      /\ W[1] = FileHeader[1] /\ W[2] = FileHeader[2]
  BY <1>0 DEF Layout
<1>3. /\ V \in Seq(Cells) /\ Len(V) = Len(W) + 2 + Len(body) /\ \A p \in 1 .. Len(W) : V[p] = W[p]
      /\ V[Len(W) + 2] = Len(body)
  BY DEF Follows
<1>4. ASSUME NEW i \in 1 .. n + 1 PROVE V[C[i] + 2] \in Nat /\ C[i + 1] = C[i] + 2 + V[C[i] + 2]
  <2>1. CASE i = n + 1
    <3>1. C[i] = Len(W) /\ C[i + 1] = Len(W) + 2 + Len(body) /\ V[C[i] + 2] = Len(body)
      BY <2>1, <1>0, <1>1, <1>2, <1>3
    <3> QED BY <3>1, <1>0
  <2>2. CASE i \in 1 .. n
    <3>1. /\ C[i] = B[i] /\ C[i + 1] = B[i + 1] /\ W[B[i] + 2] \in Nat /\ B[i + 1] = B[i] + 2 + W[B[i] + 2]
          /\ B[i] \in Nat /\ B[i + 1] \in Nat
      <4>1. i \in 1 .. n + 1 /\ i + 1 \in 1 .. n + 1
        BY <2>2, <1>0
      <4>2. W[B[i] + 2] \in Nat /\ B[i + 1] = B[i] + 2 + W[B[i] + 2]
        BY <2>2, <1>2
      <4> QED BY <4>1, <4>2, <1>0, <1>1
    <3>2. B[i + 1] <= Len(W)
      BY <2>2, <1>0, <1>2
    <3>3. B[i] + 2 \in 1 .. Len(W)
      BY <3>1, <3>2, <1>0
    <3> QED BY <3>1, <3>3, <1>3
  <2> QED BY <2>1, <2>2, <1>0
<1>5. ASSUME NEW i \in 1 .. n + 2, NEW j \in 1 .. n + 2, i <= j PROVE C[i] <= C[j]
  <2>1. CASE j \in 1 .. n + 1
    BY <2>1, <1>0, <1>1, <1>2, <1>5
  <2>2. CASE j = n + 2
    <3>1. CASE i = n + 2
      BY <2>2, <3>1, <1>1, <1>0
    <3>2. CASE i \in 1 .. n + 1
      <4>1. B[i] <= B[n + 1] /\ B[i] \in Nat /\ B[n + 1] \in Nat
        BY <3>2, <1>0, <1>2
      <4> QED BY <4>1, <2>2, <3>2, <1>0, <1>1
    <3> QED BY <3>1, <3>2, <1>0
  <2> QED BY <2>1, <2>2, <1>0
<1>6. V[1] = FileHeader[1] /\ V[2] = FileHeader[2]
  <2>1. 1 \in 1 .. Len(W) /\ 2 \in 1 .. Len(W)
    BY <1>0, <1>2
  <2> QED BY <2>1, <1>2, <1>3
<1>7. Layout(V, C, n + 1)
  <2>1. n + 1 \in Nat /\ n + 1 + 1 = n + 2 /\ C[1] = 2 /\ C[n + 2] = Len(V)
    BY <1>0, <1>1, <1>2, <1>3
  <2> QED BY <2>1, <1>1, <1>3, <1>4, <1>5, <1>6 DEF Layout
<1> QED BY <1>1, <1>7 DEF C

\* The same up to m.
Agree(s, t, m) == \A p \in 1 .. m : s[p] = t[p]

\* The records before stay where they are.
LEMMA ContentsStay ==
  ASSUME NEW W, NEW B, NEW n, Layout(W, B, n), NEW topics \in Nat, NEW log \in Seq(Messages),
         Contents(W, B, topics, log), topics + Len(log) <= n,
         NEW V, Agree(V, W, Len(W)), NEW C, Agree(C, B, n + 1)
  PROVE  Contents(V, C, topics, log)
<1> USE DEF Agree
<1>0. n \in Nat /\ Len(W) \in Nat /\ Len(log) \in Nat /\ B \in [1 .. n + 1 -> Nat]
  BY DEF Layout
<1>1. ASSUME NEW i \in 1 .. n
      PROVE  /\ B[i] \in Nat /\ C[i] = B[i] /\ W[B[i] + 2] \in Nat
             /\ \A p \in 1 .. 2 + W[B[i] + 2] : V[B[i] + p] = W[B[i] + p]
  <2>1. i \in 1 .. n + 1 /\ i + 1 \in 1 .. n + 1 /\ n + 1 \in 1 .. n + 1 /\ i + 1 <= n + 1
    BY <1>0
  <2>2. B[i] \in Nat /\ B[i + 1] \in Nat /\ C[i] = B[i]
    BY <2>1, <1>0
  <2>3. W[B[i] + 2] \in Nat /\ B[i + 1] = B[i] + 2 + W[B[i] + 2]
    BY DEF Layout
  <2>4. B[i + 1] <= Len(W)
    BY <2>1 DEF Layout
  <2>5. ASSUME NEW p \in 1 .. 2 + W[B[i] + 2] PROVE B[i] + p \in 1 .. Len(W)
    <3> DEFINE z == W[B[i] + 2]
               b == B[i]
    <3>1. z \in Nat /\ b \in Nat /\ p \in 1 .. 2 + z /\ b + 2 + z <= Len(W)
      BY <2>2, <2>3, <2>4, <2>5
    <3> HIDE DEF z, b
    <3>2. b + p \in 1 .. Len(W)
      BY <3>1, <1>0
    <3> QED BY <3>2 DEF b
  <2> QED BY <2>2, <2>3, <2>5
<1>2. ASSUME NEW i \in 1 .. topics PROVE TopicAt(V, C[i], i)
  <2>1. i \in 1 .. n
    BY <1>0
  <2>2. TopicAt(W, B[i], i)
    BY DEF Contents
  <2>3. W[B[i] + 2] = 2
    BY <2>2 DEF TopicAt
  <2>4. 1 \in 1 .. 2 + W[B[i] + 2] /\ 2 \in 1 .. 2 + W[B[i] + 2] /\ 3 \in 1 .. 2 + W[B[i] + 2]
    BY <2>3
  <2>5. C[i] = B[i] /\ \A p \in 1 .. 2 + W[B[i] + 2] : V[B[i] + p] = W[B[i] + p]
    BY <2>1, <1>1
  <2>6. V[B[i] + 1] = W[B[i] + 1] /\ V[B[i] + 2] = W[B[i] + 2] /\ V[B[i] + 3] = W[B[i] + 3]
    BY <2>4, <2>5
  <2> QED BY <2>2, <2>5, <2>6 DEF TopicAt
<1>3. ASSUME NEW j \in 1 .. Len(log) PROVE MessageAt(V, C[topics + j], log[j])
  <2> DEFINE i == topics + j
             m == log[j]
  <2>1. i \in 1 .. n
    BY <1>0
  <2>2. MessageAt(W, B[i], m)
    BY DEF Contents
  <2>3. m \in Messages
    BY <1>0, ElementOfSeq
  <2>4. Len(m.payload) \in Nat
    BY <2>3 DEF Messages
  <2> HIDE DEF i, m
  <2>5. W[B[i] + 2] = 2 + Len(m.payload)
    BY <2>2 DEF MessageAt
  <2>6. B[i] \in Nat /\ C[i] = B[i] /\ \A p \in 1 .. 2 + W[B[i] + 2] : V[B[i] + p] = W[B[i] + p]
    BY <2>1, <1>1
  <2>7. \A p \in 1 .. 4 + Len(m.payload) : V[B[i] + p] = W[B[i] + p]
    BY <2>4, <2>5, <2>6
  <2>8. /\ V[B[i] + 1] = W[B[i] + 1] /\ V[B[i] + 2] = W[B[i] + 2] /\ V[B[i] + 3] = W[B[i] + 3]
        /\ V[B[i] + 4] = W[B[i] + 4]
    <3>1. /\ 1 \in 1 .. 4 + Len(m.payload) /\ 2 \in 1 .. 4 + Len(m.payload) /\ 3 \in 1 .. 4 + Len(m.payload)
          /\ 4 \in 1 .. 4 + Len(m.payload)
      BY <2>4
    <3> QED BY <3>1, <2>7
  <2>9. ASSUME NEW q \in 1 .. Len(m.payload) PROVE V[B[i] + 4 + q] = W[B[i] + 4 + q]
    <3>1. 4 + q \in 1 .. 4 + Len(m.payload)
      BY <2>4
    <3>2. B[i] \in Nat /\ q \in Nat
      BY <2>6
    <3>3. B[i] + 4 + q = B[i] + (4 + q)
      BY <3>2
    <3> QED BY <3>1, <3>3, <2>7
  <2>10. MessageAt(V, B[i], m)
    BY <2>2, <2>8, <2>9 DEF MessageAt
  <2> QED BY <2>6, <2>10 DEF i, m
<1> QED BY <1>2, <1>3 DEF Contents

-----------------------------------------------------------------------------
(* The writer *)

WriterRecords ==
  [open : BOOLEAN, closed : BOOLEAN, bad : BOOLEAN, buffer : Seq(Cells), topics : Nat,
   log : Seq(Messages), flushed : Nat]

\* The records the writer counted.
Records == out.topics + Len(out.log)

\* What is on disk, and in the buffer of a stream that is not bad, is the
\* beginning of W, which has the records the writer counted, and perhaps one
\* that failed, of which some is missing on disk.  Nothing that was flushed, and
\* nothing of a closed file, is missing.
Stream(W, B, n) ==
  /\ out \in WriterRecords /\ file \in Seq(Cells)
  /\ Layout(W, B, n) /\ Contents(W, B, out.topics, out.log)
  /\ \A j \in 1 .. Len(out.log) : out.log[j].topic \in 1 .. out.topics
  /\ ~out.bad => n = Records /\ W = file \o out.buffer
  /\ out.bad => /\ out.buffer = <<>> /\ Len(file) <= Len(W) /\ \A p \in 1 .. Len(file) : file[p] = W[p]
                /\ n = Records \/ (n = Records + 1 /\ Len(file) < Len(W))
  /\ out.closed => ~out.bad /\ out.buffer = <<>>
  /\ out.flushed <= Len(out.log)
  /\ out.flushed # 0 => B[out.topics + out.flushed + 1] <= Len(file)

\* A step of the writer leaves what was written, and all of a closed file.
Kept(B, C) ==
  /\ \A i \in 1 .. Records + 1 : C[i] = B[i]
  /\ Len(file) <= Len(file')
  /\ Len(out.log) <= Len(out'.log) /\ \A j \in 1 .. Len(out.log) : out'.log[j] = out.log[j]
  /\ out.topics <= out'.topics /\ (Len(out.log) # 0 => out'.topics = out.topics)
  /\ out.closed => out'.closed /\ Len(file') = Len(file) /\ Len(out'.log) = Len(out.log)

Moves(B) == \E V, C, m : Stream(V, C, m)' /\ Kept(B, C)

\* The types, one by one.
LEMMA WriterTypes ==
  ASSUME NEW W, NEW B, NEW n, Stream(W, B, n)
  PROVE  /\ out.buffer \in Seq(Cells) /\ out.topics \in Nat /\ out.log \in Seq(Messages) /\ Len(out.log) \in Nat
         /\ out.flushed \in Nat /\ Len(file) \in Nat /\ Len(out.buffer) \in Nat /\ Records \in Nat
         /\ n \in Nat /\ W \in Seq(Cells) /\ Len(W) \in Nat /\ B \in [1 .. n + 1 -> Nat] /\ n >= Records
<1>1. out.buffer \in Seq(Cells) /\ out.topics \in Nat /\ out.log \in Seq(Messages) /\ out.flushed \in Nat
  BY DEF Stream, WriterRecords
<1>2. file \in Seq(Cells) /\ n \in Nat /\ W \in Seq(Cells) /\ B \in [1 .. n + 1 -> Nat]
  BY DEF Stream, Layout
<1>3. Len(out.log) \in Nat /\ Len(file) \in Nat /\ Len(out.buffer) \in Nat /\ Len(W) \in Nat
  BY <1>1, <1>2, LenProperties
<1>4. Records \in Nat
  BY <1>1, <1>3 DEF Records
<1>5. n = Records \/ n = Records + 1
  <2>1. out.bad \in BOOLEAN
    BY DEF Stream, WriterRecords
  <2> QED BY <2>1 DEF Stream
<1> QED BY <1>1, <1>2, <1>3, <1>4, <1>5

\* The beginning of a file with more cells after it: what of them reaches the
\* disk, and what remains.
LEMMA ReachFacts ==
  ASSUME NEW f \in Seq(Cells), NEW all \in Seq(Cells), NEW k \in 0 .. Len(all)
  PROVE  LET g == f \o SubSeq(all, 1, k)
             W == f \o all
         IN  /\ g \in Seq(Cells) /\ Len(g) = Len(f) + k /\ Len(W) = Len(f) + Len(all)
             /\ \A p \in 1 .. Len(g) : g[p] = W[p]
             /\ SubSeq(all, k + 1, Len(all)) \in Seq(Cells)
             /\ W = g \o SubSeq(all, k + 1, Len(all))
<1> DEFINE a == SubSeq(all, 1, k)
           b == SubSeq(all, k + 1, Len(all))
<1>0. Len(f) \in Nat /\ Len(all) \in Nat /\ k \in Nat /\ k <= Len(all)
  OBVIOUS
<1>1. a \in Seq(Cells) /\ Len(a) = k /\ \A i \in 1 .. k : a[i] = all[i]
  <2>1. \A i \in 1 .. k : all[i] \in Cells
    BY <1>0, ElementOfSeq
  <2>2. /\ SubSeq(all, 1, k) \in Seq(Cells)
        /\ Len(SubSeq(all, 1, k)) = IF 1 <= k THEN k - 1 + 1 ELSE 0
        /\ \A i \in 1 .. k - 1 + 1 : SubSeq(all, 1, k)[i] = all[1 + i - 1]
    BY <2>1, <1>0, SubSeqProperties
  <2> QED BY <2>2, <1>0
<1>2. b \in Seq(Cells) /\ Len(b) = Len(all) - k /\ \A i \in 1 .. Len(all) - k : b[i] = all[k + i]
  <2>1. \A i \in k + 1 .. Len(all) : all[i] \in Cells
    BY <1>0, ElementOfSeq
  <2>2. /\ SubSeq(all, k + 1, Len(all)) \in Seq(Cells)
        /\ Len(SubSeq(all, k + 1, Len(all))) = IF k + 1 <= Len(all) THEN Len(all) - (k + 1) + 1 ELSE 0
        /\ \A i \in 1 .. Len(all) - (k + 1) + 1 : SubSeq(all, k + 1, Len(all))[i] = all[k + 1 + i - 1]
    BY <2>1, <1>0, SubSeqProperties
  <2> QED BY <2>2, <1>0
<1> HIDE DEF a, b
<1> DEFINE g == f \o a
           W == f \o all
           U == g \o b
<1>3. g \in Seq(Cells) /\ Joined(g, f, a)
  BY <1>1, JoinFacts
<1>4. W \in Seq(Cells) /\ Joined(W, f, all)
  BY JoinFacts
<1>5. U \in Seq(Cells) /\ Joined(U, g, b)
  BY <1>2, <1>3, JoinFacts
<1> HIDE DEF g, W, U
<1>6. Len(g) = Len(f) + k /\ Len(W) = Len(f) + Len(all) /\ Len(U) = Len(W)
  BY <1>0, <1>1, <1>2, <1>3, <1>4, <1>5 DEF Joined
<1>7. ASSUME NEW p \in 1 .. Len(g) PROVE g[p] = W[p]
  <2>1. CASE p \in 1 .. Len(f)
    BY <2>1, <1>3, <1>4 DEF Joined
  <2>2. CASE p \notin 1 .. Len(f)
    <3>1. PICK i \in 1 .. k : p = Len(f) + i
      <4>1. p - Len(f) \in 1 .. k /\ p = Len(f) + (p - Len(f))
        BY <2>2, <1>0, <1>6
      <4> QED BY <4>1
    <3>2. i \in 1 .. Len(a) /\ i \in 1 .. Len(all)
      BY <1>0, <1>1
    <3>3. g[Len(f) + i] = a[i] /\ W[Len(f) + i] = all[i]
      BY <3>2, <1>3, <1>4 DEF Joined
    <3> QED BY <3>1, <3>3, <1>1
  <2> QED BY <2>1, <2>2
<1>8. ASSUME NEW p \in 1 .. Len(W) PROVE U[p] = W[p]
  <2>1. CASE p \in 1 .. Len(g)
    BY <2>1, <1>5, <1>7 DEF Joined
  <2>2. CASE p \notin 1 .. Len(g)
    <3>1. PICK i \in 1 .. Len(all) - k : p = Len(g) + i
      <4>1. p - Len(g) \in 1 .. Len(all) - k /\ p = Len(g) + (p - Len(g))
        BY <2>2, <1>0, <1>6
      <4> QED BY <4>1
    <3>2. i \in 1 .. Len(b) /\ k + i \in 1 .. Len(all) /\ Len(g) + i = Len(f) + (k + i)
      BY <1>0, <1>2, <1>6
    <3>3. U[Len(g) + i] = b[i] /\ W[Len(f) + (k + i)] = all[k + i]
      BY <3>2, <1>4, <1>5 DEF Joined
    <3> QED BY <3>1, <3>2, <3>3, <1>2
  <2> QED BY <2>1, <2>2
<1>9. W = U
  BY <1>4, <1>5, <1>6, <1>8, SeqEqual
<1> QED BY <1>2, <1>3, <1>6, <1>7, <1>9 DEF g, W, U, a, b

\* A step that adds no record, and leaves a stream that is good or has lost its
\* buffer.
LEMMA StreamSettles ==
  ASSUME NEW W, NEW B, NEW n, Stream(W, B, n), ~out.closed,
         out' \in WriterRecords, file' \in Seq(Cells), out'.topics = out.topics, out'.log = out.log,
         Len(file) <= Len(file'), n = Records,
         ~out'.bad => W = file' \o out'.buffer,
         out'.bad => out'.buffer = <<>> /\ Len(file') <= Len(W) /\ \A p \in 1 .. Len(file') : file'[p] = W[p],
         out'.closed => ~out'.bad /\ out'.buffer = <<>>,
         out'.flushed = out.flushed \/ (out'.flushed = Len(out.log) /\ Len(file') = Len(W))
  PROVE  Moves(B)
<1>1. /\ out.topics \in Nat /\ Len(out.log) \in Nat /\ out.flushed \in Nat /\ Len(file) \in Nat /\ Records \in Nat
      /\ B \in [1 .. n + 1 -> Nat] /\ Len(W) \in Nat
  BY WriterTypes
<1>2. Len(file') \in Nat
  BY LenProperties
<1>3. Records' = Records
  BY DEF Records
<1>4. out'.flushed <= Len(out'.log) /\ (out'.flushed # 0 => B[out'.topics + out'.flushed + 1] <= Len(file'))
  <2>1. CASE out'.flushed = out.flushed
    <3>1. out.flushed <= Len(out.log) /\ (out.flushed # 0 => B[out.topics + out.flushed + 1] <= Len(file))
      BY DEF Stream
    <3>2. out.topics + out.flushed + 1 \in 1 .. n + 1
      BY <3>1, <1>1 DEF Records
    <3>3. B[out.topics + out.flushed + 1] \in Nat
      BY <3>2, <1>1
    <3> QED BY <2>1, <3>1, <3>3, <1>1, <1>2
  <2>2. CASE out'.flushed = Len(out.log) /\ Len(file') = Len(W)
    <3>1. out.topics + Len(out.log) + 1 = n + 1 /\ B[n + 1] = Len(W)
      BY DEF Stream, Layout, Records
    <3> QED BY <2>2, <3>1, <1>1
  <2> QED BY <2>1, <2>2
<1>5. Layout(W, B, n) /\ Contents(W, B, out'.topics, out'.log)
  BY DEF Stream
<1>6. \A j \in 1 .. Len(out'.log) : out'.log[j].topic \in 1 .. out'.topics
  BY DEF Stream
<1>7. Stream(W, B, n)'
  BY <1>3, <1>4, <1>5, <1>6 DEF Stream
<1>8. Kept(B, B)
  BY <1>1 DEF Kept
<1> QED BY <1>7, <1>8 DEF Moves

\* Some of the buffer reaches the disk, and nothing is lost.
LEMMA SpillMoves ==
  ASSUME NEW W, NEW B, NEW n, Stream(W, B, n), ~out.closed, ~out.bad, Spill PROVE Moves(B)
<1>0. out \in WriterRecords /\ out.buffer \in Seq(Cells) /\ file \in Seq(Cells) /\ Len(file) \in Nat
  BY WriterTypes DEF Stream
<1>1. PICK k \in 1 .. Len(out.buffer) : /\ file' = file \o SubSeq(out.buffer, 1, k)
                                       /\ out' = [out EXCEPT !.buffer = SubSeq(@, k + 1, Len(@))]
  BY DEF Spill, Reaches
<1>2. n = Records /\ W = file \o out.buffer
  BY DEF Stream
<1>3. k \in 0 .. Len(out.buffer)
  BY <1>0
<1>4. PICK b \in Seq(Cells) : b = SubSeq(out.buffer, k + 1, Len(out.buffer))
  BY <1>0, <1>3, ReachFacts
<1>5. file' \in Seq(Cells) /\ Len(file') = Len(file) + k /\ W = file' \o b
  BY <1>0, <1>1, <1>2, <1>3, <1>4, ReachFacts
<1>6. out' = [out EXCEPT !.buffer = b]
  BY <1>1, <1>4
<1>7. /\ out' \in WriterRecords /\ out'.topics = out.topics /\ out'.log = out.log /\ out'.buffer = b
      /\ out'.bad = out.bad /\ out'.closed = out.closed /\ out'.flushed = out.flushed
  BY <1>0, <1>6 DEF WriterRecords
<1>8. Len(file) <= Len(file')
  BY <1>0, <1>3, <1>5
<1> QED BY <1>2, <1>5, <1>7, <1>8, StreamSettles

\* All of the buffer reaches the disk.
LEMMA FlushMoves ==
  ASSUME NEW W, NEW B, NEW n, Stream(W, B, n), ~out.closed, Flush \/ CloseWriter PROVE Moves(B)
<1>0. /\ out \in WriterRecords /\ out.buffer \in Seq(Cells) /\ file \in Seq(Cells) /\ Len(file) \in Nat
      /\ Len(out.buffer) \in Nat /\ W \in Seq(Cells) /\ Len(out.log) \in Nat
  BY WriterTypes DEF Stream
<1>1. /\ ~out.bad /\ file' = file \o out.buffer
      /\ \/ out' = [out EXCEPT !.buffer = <<>>, !.flushed = Len(out.log)]
         \/ out' = [out EXCEPT !.buffer = <<>>, !.flushed = Len(out.log), !.closed = TRUE]
  BY DEF Flush, CloseWriter
<1>2. n = Records /\ W = file \o out.buffer
  BY <1>1 DEF Stream
<1>3. file' = W /\ file' \o <<>> = W
  BY <1>0, <1>1, <1>2, ConcatEmptySeq
<1>4. <<>> \in Seq(Cells)
  BY EmptySeq
<1>5. /\ out' \in WriterRecords /\ out'.topics = out.topics /\ out'.log = out.log /\ out'.buffer = <<>>
      /\ ~out'.bad /\ out'.flushed = Len(out.log)
  BY <1>0, <1>1, <1>4 DEF WriterRecords
<1>6. Len(file) <= Len(file')
  BY <1>0, <1>1, ConcatProperties
<1>7. file' \in Seq(Cells)
  BY <1>0, <1>3
<1> QED BY <1>2, <1>3, <1>5, <1>6, <1>7, StreamSettles

\* A stream that was bad already stays as it is.
LEMMA BadStays ==
  ASSUME NEW W, NEW B, NEW n, Stream(W, B, n), ~out.closed, UNCHANGED <<file, out>> PROVE Moves(B)
<1>1. Stream(W, B, n)'
  BY DEF Stream, Records
<1>2. /\ out.topics \in Nat /\ Len(out.log) \in Nat /\ Len(file) \in Nat
  BY WriterTypes
<1>3. Kept(B, B)
  BY <1>2 DEF Kept
<1> QED BY <1>1, <1>3 DEF Moves

\* A stream fails, or its process dies, with some of the buffer on disk.
LEMMA BufferLost ==
  ASSUME NEW W, NEW B, NEW n, Stream(W, B, n), ~out.closed, ~out.bad, NEW k \in 0 .. Len(out.buffer),
         file' = file \o SubSeq(out.buffer, 1, k), out' = [out EXCEPT !.buffer = <<>>, !.bad = TRUE]
  PROVE  Moves(B)
<1>0. out \in WriterRecords /\ out.buffer \in Seq(Cells) /\ file \in Seq(Cells) /\ Len(file) \in Nat /\ Len(out.buffer) \in Nat
  BY WriterTypes DEF Stream
<1>1. n = Records /\ W = file \o out.buffer
  BY DEF Stream
<1>2. /\ file' \in Seq(Cells) /\ Len(file') = Len(file) + k /\ Len(W) = Len(file) + Len(out.buffer)
      /\ \A p \in 1 .. Len(file') : file'[p] = W[p]
  BY <1>0, <1>1, ReachFacts
<1>3. <<>> \in Seq(Cells)
  BY EmptySeq
<1>4. /\ out' \in WriterRecords /\ out'.topics = out.topics /\ out'.log = out.log /\ out'.buffer = <<>>
      /\ out'.bad /\ ~out'.closed /\ out'.flushed = out.flushed
  BY <1>0, <1>3 DEF WriterRecords
<1>5. Len(file) <= Len(file') /\ Len(file') <= Len(W)
  BY <1>0, <1>2
<1> QED BY <1>1, <1>2, <1>4, <1>5, StreamSettles

\* A writer that dies leaves the beginning of what it wrote.
LEMMA WriterDiesMoves ==
  ASSUME NEW W, NEW B, NEW n, Stream(W, B, n), ~out.closed, WriterDies PROVE Moves(B)
<1>1. PICK k \in 0 .. Len(out.buffer) : file' = file \o SubSeq(out.buffer, 1, k)
  BY DEF WriterDies, Reaches
<1>2. out' = [out EXCEPT !.buffer = <<>>, !.bad = TRUE]
  BY DEF WriterDies
<1>3. out \in WriterRecords /\ out.bad \in BOOLEAN /\ file \in Seq(Cells)
  BY DEF Stream, WriterRecords
<1>4. CASE ~out.bad
  BY <1>1, <1>2, <1>4, BufferLost
<1>5. CASE out.bad
  <2>1. out.buffer = <<>>
    BY <1>5 DEF Stream
  <2>2. out' = out
    BY <1>2, <1>3, <1>5, <2>1 DEF WriterRecords
  <2>3. k = 0
    BY <2>1
  <2>4. SubSeq(out.buffer, 1, k) = <<>>
    BY <2>3, SubSeqEmpty
  <2>5. file' = file
    BY <1>1, <1>3, <2>4, ConcatEmptySeq
  <2> QED BY <2>2, <2>5, BadStays
<1> QED BY <1>3, <1>4, <1>5

\* What was flushed is among the records.
LEMMA FlushedWhere ==
  ASSUME NEW W, NEW B, NEW n, Stream(W, B, n)
  PROVE  /\ out.topics + out.flushed + 1 \in 1 .. n + 1 /\ B[out.topics + out.flushed + 1] \in Nat
         /\ out.flushed <= Len(out.log) /\ (out.flushed # 0 => B[out.topics + out.flushed + 1] <= Len(file))
<1>1. /\ out.topics \in Nat /\ Len(out.log) \in Nat /\ out.flushed \in Nat /\ n \in Nat /\ n >= out.topics + Len(out.log)
      /\ B \in [1 .. n + 1 -> Nat]
  BY WriterTypes DEF Records
<1>2. out.flushed <= Len(out.log) /\ (out.flushed # 0 => B[out.topics + out.flushed + 1] <= Len(file))
  BY DEF Stream
<1>3. out.topics + out.flushed + 1 \in 1 .. n + 1
  BY <1>1, <1>2
<1> QED BY <1>1, <1>2, <1>3

\* Three sequences one after the other.
LEMMA JoinThree ==
  ASSUME NEW s \in Seq(Cells), NEW t \in Seq(Cells), NEW u \in Seq(Cells) PROVE (s \o t) \o u = s \o (t \o u)
BY ConcatAssociative

\* V, with the records C, is what a good stream has written with a record more.
After(V, C, W, B, n, kind, body) ==
  /\ V = file \o (out.buffer \o Record(kind, body)) /\ out.buffer \o Record(kind, body) \in Seq(Cells)
  /\ Follows(V, W, kind, body) /\ Layout(V, C, n + 1) /\ n = Records
  /\ Agree(C, B, n + 1) /\ Contents(V, C, out.topics, out.log)

\* A record written to the stream follows those before it.
LEMMA RecordAfter ==
  ASSUME NEW W, NEW B, NEW n, Stream(W, B, n), ~out.bad, NEW kind \in Words, NEW body \in Seq(Cells)
  PROVE  \E V : After(V, Extended(B, n, Len(body)), W, B, n, kind, body)
<1> DEFINE V == W \o Record(kind, body)
           C == Extended(B, n, Len(body))
<1>0. /\ out.buffer \in Seq(Cells) /\ file \in Seq(Cells) /\ W \in Seq(Cells) /\ out.topics \in Nat
      /\ out.log \in Seq(Messages) /\ n \in Nat /\ Len(out.log) \in Nat
  BY WriterTypes DEF Stream
<1>1. n = Records /\ W = file \o out.buffer
  BY DEF Stream
<1>2. Record(kind, body) \in Seq(Cells)
  BY RecordFacts
<1>3. V = file \o (out.buffer \o Record(kind, body))
  <2>1. (file \o out.buffer) \o Record(kind, body) = file \o (out.buffer \o Record(kind, body))
    BY <1>0, <1>2, JoinThree, Zenon
  <2> QED BY <2>1, <1>1, Zenon
<1>4. out.buffer \o Record(kind, body) \in Seq(Cells)
  BY <1>0, <1>2, ConcatProperties
<1>5. Follows(V, W, kind, body)
  BY <1>0, RecordFollows
<1>6. Layout(W, B, n) /\ Contents(W, B, out.topics, out.log)
  BY DEF Stream
<1>7. Layout(V, C, n + 1) /\ Agree(C, B, n + 1)
  BY <1>5, <1>6, LayoutGrows DEF Agree
<1>8. Agree(V, W, Len(W))
  BY <1>5 DEF Follows, Agree
<1>9. out.topics + Len(out.log) <= n
  BY <1>0, <1>1 DEF Records
<1>10. Contents(V, C, out.topics, out.log)
  BY <1>0, <1>6, <1>7, <1>8, <1>9, ContentsStay, Zenon
<1>11. After(V, C, W, B, n, kind, body)
  BY <1>1, <1>3, <1>4, <1>5, <1>7, <1>10 DEF After
<1> QED BY <1>11

\* A stream that fails in a record keeps some of it from the disk.
LEMMA RecordFails ==
  ASSUME NEW W, NEW B, NEW n, Stream(W, B, n), ~out.closed, NEW kind \in Words, NEW body \in Seq(Cells),
         StreamFails(Record(kind, body))
  PROVE  Moves(B)
<1> DEFINE all == out.buffer \o Record(kind, body)
<1>0. out \in WriterRecords /\ file \in Seq(Cells) /\ out.bad \in BOOLEAN
  BY DEF Stream, WriterRecords
<1>1. CASE out.bad
  BY <1>1, BadStays DEF StreamFails
<1>2. CASE ~out.bad
  <2>1. PICK k \in 0 .. Len(all) - 1 : file' = file \o SubSeq(all, 1, k) /\ out' = [out EXCEPT !.buffer = <<>>, !.bad = TRUE]
    BY <1>2 DEF StreamFails, Reaches
  <2>2. PICK V : After(V, Extended(B, n, Len(body)), W, B, n, kind, body)
    BY <1>2, RecordAfter
  <2>3. PICK C : C = Extended(B, n, Len(body))
    OBVIOUS
  <2>4. /\ V = file \o all /\ all \in Seq(Cells) /\ Layout(V, C, n + 1) /\ n = Records
        /\ Agree(C, B, n + 1) /\ Contents(V, C, out.topics, out.log)
    BY <2>2, <2>3, Zenon DEF After
  <2> HIDE DEF all
  <2>5. Len(all) \in Nat /\ k \in 0 .. Len(all) /\ k < Len(all)
    BY <2>4, LenProperties
  <2>6. /\ file' \in Seq(Cells) /\ Len(file') = Len(file) + k /\ Len(V) = Len(file) + Len(all)
        /\ \A p \in 1 .. Len(file') : file'[p] = V[p]
    BY <1>0, <2>1, <2>4, <2>5, ReachFacts
  <2>7. <<>> \in Seq(Cells)
    BY EmptySeq
  <2>8. /\ out' \in WriterRecords /\ out'.topics = out.topics /\ out'.log = out.log /\ out'.buffer = <<>>
        /\ out'.bad /\ ~out'.closed /\ out'.flushed = out.flushed
    BY <1>0, <2>1, <2>7 DEF WriterRecords
  <2>9. /\ out.topics \in Nat /\ Len(out.log) \in Nat /\ out.flushed \in Nat /\ Len(file) \in Nat /\ Records \in Nat
        /\ B \in [1 .. n + 1 -> Nat]
    BY WriterTypes
  <2>10. Len(file) <= Len(file') /\ Len(file') < Len(V) /\ Len(file') <= Len(V)
    BY <2>5, <2>6, <2>9
  <2>11. Records' = Records
    BY <2>8 DEF Records
  <2>12. out'.flushed <= Len(out'.log) /\ (out'.flushed # 0 => C[out'.topics + out'.flushed + 1] <= Len(file'))
    <3>1. out.flushed <= Len(out.log) /\ (out.flushed # 0 => B[out.topics + out.flushed + 1] <= Len(file))
      BY DEF Stream
    <3>2. out.topics + out.flushed + 1 \in 1 .. n + 1 /\ B[out.topics + out.flushed + 1] \in Nat
      BY FlushedWhere
    <3>3. B[out.topics + out.flushed + 1] \in Nat /\ C[out.topics + out.flushed + 1] = B[out.topics + out.flushed + 1]
      BY <3>2, <2>4, <2>9 DEF Agree
    <3>4. Len(file') \in Nat
      BY <2>6, LenProperties
    <3> QED BY <2>8, <2>10, <3>1, <3>3, <3>4, <2>9
  <2>13. \A j \in 1 .. Len(out'.log) : out'.log[j].topic \in 1 .. out'.topics
    BY <2>8 DEF Stream
  <2>14. Stream(V, C, n + 1)'
    BY <2>4, <2>6, <2>8, <2>10, <2>11, <2>12, <2>13 DEF Stream
  <2>15. Kept(B, C)
    BY <2>4, <2>8, <2>9, <2>10 DEF Kept, Agree
  <2> QED BY <2>14, <2>15 DEF Moves
<1> QED BY <1>0, <1>1, <1>2

\* So does one that fails in a flush.
LEMMA FlushFails ==
  ASSUME NEW W, NEW B, NEW n, Stream(W, B, n), ~out.closed, StreamFails(<<>>) PROVE Moves(B)
<1>0. out.bad \in BOOLEAN /\ out.buffer \in Seq(Cells) /\ Len(out.buffer) \in Nat
  BY WriterTypes DEF Stream, WriterRecords
<1>1. CASE out.bad
  BY <1>1, BadStays DEF StreamFails
<1>2. CASE ~out.bad
  <2>1. out.buffer \o <<>> = out.buffer
    BY <1>0, ConcatEmptySeq
  <2>2. PICK k \in 0 .. Len(out.buffer) - 1 : /\ file' = file \o SubSeq(out.buffer, 1, k)
                                             /\ out' = [out EXCEPT !.buffer = <<>>, !.bad = TRUE]
    BY <1>2, <2>1 DEF StreamFails, Reaches
  <2>3. k \in 0 .. Len(out.buffer)
    BY <1>0
  <2> QED BY <1>2, <2>2, <2>3, BufferLost
<1> QED BY <1>0, <1>1, <1>2

\* The body of a topic's record.
LEMMA TopicBody ==
  ASSUME NEW id \in Nat, NEW topic \in Declared
  PROVE  /\ <<id, topic>> \in Seq(Cells) /\ Len(<<id, topic>>) = 2 /\ <<id, topic>>[1] = id
         /\ TopicRecord(id, topic) = Record("topic", <<id, topic>>) /\ "topic" \in Words
<1>1. id \in Cells /\ topic \in Cells
  BY CellFacts
<1>2. <<id, topic>> \in Seq(Cells) /\ Len(<<id, topic>>) = 2 /\ <<id, topic>>[1] = id
  BY <1>1, PairFacts
<1>3. TopicRecord(id, topic) = Record("topic", <<id, topic>>)
  BY DEF TopicRecord
<1>4. "topic" \in Words
  BY DEF Words
<1> QED BY <1>2, <1>3, <1>4, Zenon

\* The body of a message's record.
BodyOf(m) == <<m.topic, [time |-> m.time, sequence |-> m.sequence]>> \o m.payload

IsBodyOf(body, m) ==
  /\ body \in Seq(Cells) /\ Len(m.payload) \in Nat /\ Len(body) = 2 + Len(m.payload)
  /\ body[1] = m.topic /\ body[2] = [time |-> m.time, sequence |-> m.sequence]
  /\ \A q \in 1 .. Len(m.payload) : body[2 + q] = m.payload[q]

\* The record of a message has that body.
LEMMA MessageBody ==
  ASSUME NEW m \in Messages
  PROVE  IsBodyOf(BodyOf(m), m) /\ MessageRecord(m) = Record("message", BodyOf(m)) /\ "message" \in Words
<1> DEFINE s == [time |-> m.time, sequence |-> m.sequence]
           h == <<m.topic, s>>
<1>1. m.topic \in Nat /\ s \in Stamped /\ m.payload \in Seq(Nat)
  BY DEF Messages, Stamped
<1>2. m.topic \in Cells /\ s \in Cells
  BY <1>1, CellFacts
<1>3. m.payload \in Seq(Cells)
  BY <1>1, CellFacts, SeqMonotonic
<1> HIDE DEF s
<1>4. h \in Seq(Cells) /\ Len(h) = 2 /\ h[1] = m.topic /\ h[2] = s
  BY <1>2, PairFacts
<1> HIDE DEF h
<1> DEFINE b == h \o m.payload
<1>5. b \in Seq(Cells) /\ Joined(b, h, m.payload)
  BY <1>3, <1>4, JoinFacts
<1> HIDE DEF b
<1>6. /\ Len(m.payload) \in Nat /\ Len(b) = 2 + Len(m.payload)
      /\ \A q \in 1 .. Len(m.payload) : b[2 + q] = m.payload[q]
      /\ \A q \in 1 .. 2 : b[q] = h[q]
  BY <1>4, <1>5 DEF Joined
<1>7. b[1] = h[1] /\ b[2] = h[2]
  BY <1>6
<1>8. IsBodyOf(b, m)
  BY <1>4, <1>5, <1>6, <1>7 DEF IsBodyOf, s
<1>9. b = BodyOf(m)
  BY DEF b, h, s, BodyOf
<1>10. MessageRecord(m) = Record("message", BodyOf(m))
  BY DEF MessageRecord, BodyOf
<1>11. "message" \in Words
  BY DEF Words
<1> QED BY <1>8, <1>9, <1>10, <1>11, Zenon

\* A topic that is added is the next record, unless there are messages already.
LEMMA AddTopicMoves ==
  ASSUME NEW W, NEW B, NEW n, Stream(W, B, n), ~out.closed, out.log = <<>>, NEW topic \in Declared, AddTopic(topic)
  PROVE  Moves(B)
<1>0. /\ out \in WriterRecords /\ out.buffer \in Seq(Cells) /\ file \in Seq(Cells) /\ W \in Seq(Cells) /\ out.topics \in Nat
      /\ n \in Nat /\ Len(out.log) = 0 /\ Len(file) \in Nat /\ B \in [1 .. n + 1 -> Nat] /\ Len(W) \in Nat
  BY WriterTypes DEF Stream
<1>1. PICK id \in Nat : id = out.topics + 1
  BY <1>0
<1>2. PICK body \in Seq(Cells) : /\ Len(body) = 2 /\ body[1] = id /\ TopicRecord(id, topic) = Record("topic", body)
  BY TopicBody
<1>3. ~out.bad /\ UNCHANGED file
  BY DEF AddTopic, StreamWrites
<1>4. out' = [[out EXCEPT !.topics = @ + 1] EXCEPT !.buffer = @ \o Record("topic", body)]
  BY <1>1, <1>2 DEF AddTopic, StreamWrites
<1>5. PICK V : After(V, Extended(B, n, Len(body)), W, B, n, "topic", body)
  BY <1>3, RecordAfter, TopicBody
<1>6. PICK C : C = Extended(B, n, Len(body))
  OBVIOUS
<1>7. /\ Follows(V, W, "topic", body) /\ Layout(V, C, n + 1) /\ n = Records
      /\ Agree(C, B, n + 1) /\ Contents(V, C, out.topics, out.log)
  BY <1>5, <1>6 DEF After
<1>8. PICK b \in Seq(Cells) : b = out.buffer \o Record("topic", body) /\ V = file \o b
  BY <1>5, Zenon DEF After
<1>9. out' = [[out EXCEPT !.topics = id] EXCEPT !.buffer = b]
  <2>1. [out EXCEPT !.topics = @ + 1] = [out EXCEPT !.topics = id]
    BY <1>1
  <2>2. [out EXCEPT !.topics = id].buffer = out.buffer
    BY <1>0 DEF WriterRecords
  <2> QED BY <1>4, <1>8, <2>1, <2>2, Zenon
<1>10. /\ out' \in WriterRecords /\ out'.topics = id /\ out'.log = out.log /\ out'.buffer = b
       /\ ~out'.bad /\ ~out'.closed /\ out'.flushed = out.flushed
  BY <1>0, <1>3, <1>9 DEF WriterRecords
<1>11. Records' = n + 1 /\ n = out.topics
  <2>1. Records = out.topics + Len(out.log) /\ Records' = out'.topics + Len(out'.log)
    BY DEF Records
  <2> QED BY <2>1, <1>0, <1>1, <1>7, <1>10
<1>12. Contents(V, C, id, out'.log)
  <2>1. ASSUME NEW i \in 1 .. id PROVE TopicAt(V, C[i], i)
    <3>1. CASE i \in 1 .. out.topics
      BY <3>1, <1>7 DEF Contents
    <3>2. CASE i = n + 1
      <4>1. C[i] = Len(W)
        <5>1. n + 1 \in 1 .. n + 1
          BY <1>0
        <5> QED BY <5>1, <3>2, <1>7 DEF Agree, Stream, Layout
      <4>2. V[Len(W) + 1] = "topic" /\ V[Len(W) + 2] = 2 /\ V[Len(W) + 2 + 1] = id
        BY <1>2, <1>7 DEF Follows
      <4>3. Len(W) + 2 + 1 = Len(W) + 3
        BY <1>0
      <4> QED BY <4>1, <4>2, <4>3, <3>2, <1>1, <1>11 DEF TopicAt
    <3> QED BY <3>1, <3>2, <1>0, <1>1, <1>11
  <2>2. \A j \in 1 .. Len(out'.log) : FALSE
    BY <1>0, <1>10
  <2> QED BY <2>1, <2>2 DEF Contents
<1>13. out'.flushed = 0 /\ Len(out'.log) = 0
  <2>1. out.flushed \in Nat /\ out.flushed <= Len(out.log)
    BY WriterTypes DEF Stream
  <2> QED BY <2>1, <1>0, <1>10
<1>14. \A j \in 1 .. Len(out'.log) : out'.log[j].topic \in 1 .. out'.topics
  BY <1>13
<1>15. file' \in Seq(Cells) /\ V = file' \o out'.buffer
  BY <1>0, <1>3, <1>8, <1>10
<1>16. Stream(V, C, n + 1)'
  BY <1>7, <1>10, <1>11, <1>12, <1>13, <1>14, <1>15 DEF Stream
<1>17. Kept(B, C)
  BY <1>0, <1>1, <1>3, <1>7, <1>10 DEF Kept, Agree
<1> QED BY <1>16, <1>17 DEF Moves

\* A message that is written is the next record.
LEMMA WriteMoves ==
  ASSUME NEW W, NEW B, NEW n, Stream(W, B, n), ~out.closed, NEW m \in Messages, Write(m)
  PROVE  Moves(B)
<1>0. /\ out \in WriterRecords /\ out.buffer \in Seq(Cells) /\ file \in Seq(Cells) /\ W \in Seq(Cells) /\ out.topics \in Nat
      /\ n \in Nat /\ out.log \in Seq(Messages) /\ Len(out.log) \in Nat /\ Len(file) \in Nat
      /\ B \in [1 .. n + 1 -> Nat] /\ Len(W) \in Nat
  BY WriterTypes DEF Stream
<1>1. PICK log \in Seq(Messages) : log = Append(out.log, m)
  <2>1. Append(out.log, m) \in Seq(Messages)
    BY <1>0, AppendProperties
  <2> QED BY <2>1
<1>2. PICK body : IsBodyOf(body, m) /\ MessageRecord(m) = Record("message", body)
  BY MessageBody
<1>3. ~out.bad /\ UNCHANGED file /\ m.topic \in 1 .. out.topics
  BY DEF Write, StreamWrites
<1>4. out' = [[out EXCEPT !.log = Append(@, m)] EXCEPT !.buffer = @ \o Record("message", body)]
  BY <1>2 DEF Write, StreamWrites
<1>5. PICK V : After(V, Extended(B, n, Len(body)), W, B, n, "message", body)
  <2>1. body \in Seq(Cells) /\ "message" \in Words
    BY <1>2 DEF IsBodyOf, Words
  <2> QED BY <2>1, <1>3, RecordAfter
<1>6. PICK C : C = Extended(B, n, Len(body))
  OBVIOUS
<1>7. /\ Follows(V, W, "message", body) /\ Layout(V, C, n + 1) /\ n = Records
      /\ Agree(C, B, n + 1) /\ Contents(V, C, out.topics, out.log)
  BY <1>5, <1>6 DEF After
<1>8. PICK b \in Seq(Cells) : b = out.buffer \o Record("message", body) /\ V = file \o b
  BY <1>5, Zenon DEF After
<1>9. out' = [[out EXCEPT !.log = log] EXCEPT !.buffer = b]
  <2>1. [out EXCEPT !.log = Append(@, m)] = [out EXCEPT !.log = log]
    BY <1>1
  <2>2. [out EXCEPT !.log = log].buffer = out.buffer
    BY <1>0 DEF WriterRecords
  <2> QED BY <1>4, <1>8, <2>1, <2>2, Zenon
<1>10. /\ out' \in WriterRecords /\ out'.topics = out.topics /\ out'.log = log /\ out'.buffer = b
       /\ ~out'.bad /\ ~out'.closed /\ out'.flushed = out.flushed
  BY <1>0, <1>1, <1>3, <1>9 DEF WriterRecords
<1>11. Len(log) = Len(out.log) + 1 /\ log[Len(log)] = m /\ \A j \in 1 .. Len(out.log) : log[j] = out.log[j]
  BY <1>0, <1>1, AppendProperties
<1>12. Records' = n + 1 /\ n = out.topics + Len(out.log)
  <2>1. Records = out.topics + Len(out.log) /\ Records' = out'.topics + Len(out'.log)
    BY DEF Records
  <2>2. PICK t \in Nat : t = out.topics
    BY <1>0
  <2>3. PICK k \in Nat : k = Len(out.log)
    BY <1>0
  <2>4. Records = t + k /\ Records' = t + (k + 1)
    BY <2>1, <2>2, <2>3, <1>10, <1>11
  <2>5. n = t + k /\ t + (k + 1) = n + 1
    BY <2>4, <1>7
  <2> QED BY <2>2, <2>3, <2>4, <2>5
<1>13. MessageAt(V, C[n + 1], m)
  <2>1. C[n + 1] = Len(W)
    <3>1. n + 1 \in 1 .. n + 1
      BY <1>0
    <3> QED BY <3>1, <1>7 DEF Agree, Stream, Layout
  <2>2. /\ Len(m.payload) \in Nat /\ Len(body) = 2 + Len(m.payload)
        /\ body[1] = m.topic /\ body[2] = [time |-> m.time, sequence |-> m.sequence]
        /\ \A q \in 1 .. Len(m.payload) : body[2 + q] = m.payload[q]
    BY <1>2 DEF IsBodyOf
  <2>3. /\ V[Len(W) + 1] = "message" /\ V[Len(W) + 2] = Len(body)
        /\ \A q \in 1 .. Len(body) : V[Len(W) + 2 + q] = body[q]
    BY <1>7 DEF Follows
  <2>4. V[Len(W) + 3] = body[1] /\ V[Len(W) + 4] = body[2]
    <3>1. 1 \in 1 .. Len(body) /\ 2 \in 1 .. Len(body)
      BY <2>2
    <3>2. Len(W) + 2 + 1 = Len(W) + 3 /\ Len(W) + 2 + 2 = Len(W) + 4
      BY <1>0
    <3>3. V[Len(W) + 2 + 1] = body[1] /\ V[Len(W) + 2 + 2] = body[2]
      BY <3>1, <2>3
    <3> QED BY <3>2, <3>3
  <2>5. ASSUME NEW q \in 1 .. Len(m.payload) PROVE V[Len(W) + 4 + q] = m.payload[q]
    <3>1. 2 + q \in 1 .. Len(body)
      BY <2>2
    <3>2. Len(W) + 2 + (2 + q) = Len(W) + 4 + q
      <4>1. Len(W) \in Nat /\ q \in Nat
        BY <1>0, <2>2
      <4> QED BY <4>1
    <3>3. V[Len(W) + 2 + (2 + q)] = body[2 + q] /\ body[2 + q] = m.payload[q]
      BY <3>1, <2>2, <2>3
    <3> QED BY <3>2, <3>3
  <2> QED BY <2>1, <2>2, <2>3, <2>4, <2>5 DEF MessageAt
<1>14. Contents(V, C, out.topics, log)
  <2>1. ASSUME NEW j \in 1 .. Len(log) PROVE MessageAt(V, C[out.topics + j], log[j])
    <3>1. CASE j \in 1 .. Len(out.log)
      BY <3>1, <1>7, <1>11 DEF Contents
    <3>2. CASE j = Len(log)
      <4>1. out.topics + j = n + 1 /\ log[j] = m
        <5>1. PICK t \in Nat : t = out.topics
          BY <1>0
        <5>2. PICK k \in Nat : k = Len(out.log)
          BY <1>0
        <5>3. j = k + 1 /\ n = t + k /\ log[j] = m
          BY <3>2, <5>1, <5>2, <1>11, <1>12
        <5>4. t + (k + 1) = n + 1
          BY <5>3
        <5> QED BY <5>1, <5>3, <5>4
      <4> QED BY <4>1, <1>13
    <3> QED BY <3>1, <3>2, <1>0, <1>11
  <2> QED BY <2>1, <1>7 DEF Contents
<1>15. ASSUME NEW j \in 1 .. Len(log) PROVE log[j].topic \in 1 .. out.topics
  <2>1. CASE j \in 1 .. Len(out.log)
    BY <2>1, <1>11 DEF Stream
  <2>2. CASE j = Len(log)
    BY <2>2, <1>3, <1>11
  <2> QED BY <2>1, <2>2, <1>0, <1>11
<1>16. out'.flushed <= Len(log) /\ (out'.flushed # 0 => C[out.topics + out'.flushed + 1] <= Len(file))
  <2>1. /\ out.topics + out.flushed + 1 \in 1 .. n + 1
        /\ out.flushed <= Len(out.log) /\ (out.flushed # 0 => B[out.topics + out.flushed + 1] <= Len(file))
    BY FlushedWhere
  <2>2. C[out.topics + out.flushed + 1] = B[out.topics + out.flushed + 1]
    BY <2>1, <1>7 DEF Agree
  <2>3. out.flushed \in Nat
    BY WriterTypes
  <2>4. out.flushed <= Len(log)
    BY <2>1, <2>3, <1>0, <1>11
  <2>5. out'.flushed = out.flushed
    BY <1>10
  <2> QED BY <2>1, <2>2, <2>4, <2>5
<1>17. file' \in Seq(Cells) /\ V = file' \o out'.buffer
  BY <1>0, <1>3, <1>8, <1>10
<1>18. Stream(V, C, n + 1)'
  BY <1>3, <1>7, <1>10, <1>12, <1>14, <1>15, <1>16, <1>17 DEF Stream
<1>19. Kept(B, C)
  BY <1>0, <1>3, <1>7, <1>10, <1>11 DEF Kept, Agree
<1> QED BY <1>18, <1>19 DEF Moves

\* A new file: nothing is on disk yet, and the buffer has the header.
LEMMA CreateStarts ==
  ASSUME CreateRecording PROVE \E W, B, n : Stream(W, B, n)'
<1> DEFINE W == FileHeader
           B == [i \in 1 .. 1 |-> 2]
<1>1. W \in Seq(Cells) /\ Len(W) = 2
  <2>1. "PMREC001" \in Words /\ 1 \in Nat
    BY DEF Words
  <2>2. "PMREC001" \in Cells /\ 1 \in Cells
    BY <2>1, CellFacts
  <2> QED BY <2>2, PairFacts DEF FileHeader
<1>2. file' = <<>> /\ out' = [NoWriter EXCEPT !.open = TRUE, !.buffer = W]
  BY DEF CreateRecording
<1>3. <<>> \in Seq(Cells) /\ <<>> \in Seq(Messages) /\ Len(<<>>) = 0
  OBVIOUS
<1> HIDE DEF W
<1>4. /\ out' \in WriterRecords /\ out'.topics = 0 /\ out'.log = <<>> /\ out'.buffer = W
      /\ out'.bad = FALSE /\ out'.closed = FALSE /\ out'.flushed = 0
  BY <1>1, <1>2, <1>3 DEF WriterRecords, NoWriter
<1>5. Layout(W, B, 0)
  <2>1. B \in [1 .. 0 + 1 -> Nat] /\ B[1] = 2 /\ B[0 + 1] = 2
    OBVIOUS
  <2>2. W[1] = FileHeader[1] /\ W[2] = FileHeader[2]
    BY DEF W
  <2>3. \A i, j \in 1 .. 0 + 1 : B[i] <= B[j]
    OBVIOUS
  <2> HIDE DEF B
  <2> QED BY <1>1, <2>1, <2>2, <2>3 DEF Layout
<1>6. Contents(W, B, 0, <<>>)
  BY DEF Contents
<1>7. W = file' \o W
  BY <1>1, <1>2, ConcatEmptySeq
<1>8. Records' = 0
  BY <1>3, <1>4 DEF Records
<1> HIDE DEF B
<1>9. Stream(W, B, 0)'
  BY <1>2, <1>3, <1>4, <1>5, <1>6, <1>7, <1>8 DEF Stream
<1> QED BY <1>9
-----------------------------------------------------------------------------
(* The reader *)

Entries == [id : Nat, topic : Cells]
ReaderRecords ==
  [pc : {"next", "message", "ended"}, status : {"Ok"}, size : Nat, position : Nat, topics : Seq(Entries),
   got : Seq(Messages), truncated : BOOLEAN, flushed : Nat, complete : BOOLEAN]

\* The record that the reader is at.
Place == Len(rd.topics) + Len(rd.got) + 1

\* The reader has read the records before the one it is at: the first topics, or
\* all and the first messages.  When it opened the file, what was flushed was
\* there, and all of it when the file was closed; when it ends it has read that,
\* and all that was there unless it reports a cut.
Reading(B) ==
  /\ rd \in ReaderRecords
  /\ Len(rd.topics) <= out.topics /\ Len(rd.got) <= Len(out.log)
  /\ Len(rd.got) # 0 => Len(rd.topics) = out.topics
  /\ rd.position = B[Place] /\ rd.position <= Len(file)
  /\ \A i \in 1 .. Len(rd.topics) : rd.topics[i].id = i
  /\ \A j \in 1 .. Len(rd.got) : rd.got[j] = out.log[j]
  /\ rd.size <= Len(file)
  /\ rd.flushed <= Len(out.log)
  /\ rd.flushed # 0 => B[out.topics + rd.flushed + 1] <= rd.size
  /\ rd.complete => out.closed /\ rd.size = Len(file)
  /\ rd.pc = "ended" => /\ Len(rd.got) >= rd.flushed /\ CutReported
                        /\ rd.complete => Len(rd.got) = Len(out.log) /\ ~rd.truncated

\* The file had not even a header when the reader opened it.
Refused ==
  /\ rd.pc = "ended" /\ rd.status = "InvalidArgument" /\ rd.got = <<>>
  /\ rd.flushed = 0 /\ rd.complete = FALSE /\ rd.truncated = FALSE
  /\ rd.size \in Nat /\ rd.size < 2 /\ rd.position = 2

ReaderInv(B) == rd = NoReader \/ Refused \/ Reading(B)

\* What is on disk is the beginning of what was written.
LEMMA OnDisk ==
  ASSUME NEW W, NEW B, NEW n, Stream(W, B, n)
  PROVE  Len(file) <= Len(W) /\ Agree(file, W, Len(file)) /\ (out.closed => Len(file) = Len(W) /\ n = Records)
<1>0. /\ out.bad \in BOOLEAN /\ file \in Seq(Cells) /\ out.buffer \in Seq(Cells) /\ Len(file) \in Nat
      /\ Len(out.buffer) \in Nat /\ W \in Seq(Cells)
  BY WriterTypes DEF Stream, WriterRecords
<1>1. CASE out.bad
  BY <1>1 DEF Stream, Agree
<1>2. CASE ~out.bad
  <2>1. Joined(W, file, out.buffer)
    BY <1>0, <1>2, JoinFacts DEF Stream
  <2>2. Len(file) <= Len(W) /\ Agree(file, W, Len(file))
    BY <2>1, <1>0 DEF Joined, Agree
  <2>3. out.closed => Len(out.buffer) = 0 /\ n = Records
    BY <1>2 DEF Stream
  <2>4. Len(W) = Len(file) + Len(out.buffer)
    BY <2>1 DEF Joined
  <2>5. out.closed => Len(file) = Len(W)
    BY <2>3, <2>4, <1>0
  <2> QED BY <2>2, <2>3, <2>5
<1> QED BY <1>0, <1>1, <1>2

\* The types of a reader, one by one.
LEMMA ReaderTypes ==
  ASSUME rd \in ReaderRecords
  PROVE  /\ rd.topics \in Seq(Entries) /\ rd.got \in Seq(Messages) /\ Len(rd.topics) \in Nat /\ Len(rd.got) \in Nat
         /\ rd.size \in Nat /\ rd.position \in Nat /\ rd.flushed \in Nat /\ Place \in Nat \ {0}
         /\ rd.complete \in BOOLEAN /\ rd.status = "Ok"
<1>1. /\ rd.topics \in Seq(Entries) /\ rd.got \in Seq(Messages) /\ rd.size \in Nat /\ rd.position \in Nat
      /\ rd.flushed \in Nat /\ rd.complete \in BOOLEAN /\ rd.status = "Ok"
  BY DEF ReaderRecords
<1>2. Len(rd.topics) \in Nat /\ Len(rd.got) \in Nat
  BY <1>1, LenProperties
<1>3. Place \in Nat \ {0}
  <2>1. PICK a \in Nat : a = Len(rd.topics)
    BY <1>2
  <2>2. PICK b \in Nat : b = Len(rd.got)
    BY <1>2
  <2>3. Place = a + b + 1
    BY <2>1, <2>2 DEF Place
  <2> QED BY <2>3
<1> QED BY <1>1, <1>2, <1>3

\* The record the reader is at is one of those counted, or the next.
LEMMA PlaceFacts ==
  ASSUME NEW W, NEW B, NEW n, Stream(W, B, n), Reading(B)
  PROVE  /\ Place \in 1 .. Records + 1 /\ Place \in 1 .. n + 1 /\ rd.position = B[Place] /\ B[Place] \in Nat
         /\ Place <= out.topics => Len(rd.got) = 0 /\ Place = Len(rd.topics) + 1
         /\ Place > out.topics => Len(rd.topics) = out.topics /\ Place = out.topics + Len(rd.got) + 1
<1>1. PICK a \in Nat : a = Len(rd.topics)
  BY ReaderTypes DEF Reading
<1>2. PICK b \in Nat : b = Len(rd.got)
  BY ReaderTypes DEF Reading
<1>3. PICK t \in Nat : t = out.topics
  BY WriterTypes
<1>4. PICK k \in Nat : k = Len(out.log)
  BY WriterTypes
<1>5. a <= t /\ b <= k /\ (b # 0 => a = t) /\ rd.position = B[Place]
  BY <1>1, <1>2, <1>3, <1>4 DEF Reading
<1>6. Place = a + b + 1 /\ Records = t + k
  BY <1>1, <1>2, <1>3, <1>4 DEF Place, Records
<1>7. n \in Nat /\ n >= t + k /\ B \in [1 .. n + 1 -> Nat]
  BY <1>6, WriterTypes
<1>8. /\ Place \in 1 .. Records + 1 /\ Place \in 1 .. n + 1
      /\ Place <= t => b = 0 /\ Place = a + 1
      /\ Place > t => a = t /\ Place = t + b + 1
  BY <1>5, <1>6, <1>7
<1> QED BY <1>1, <1>2, <1>3, <1>5, <1>7, <1>8

\* A reader keeps its place while the writer goes on.
LEMMA ReaderStays ==
  ASSUME NEW W, NEW B, NEW n, Stream(W, B, n), ReaderInv(B), NEW V, NEW C, NEW m, Stream(V, C, m)', Kept(B, C),
         UNCHANGED rd
  PROVE  ReaderInv(C)'
<1>1. CASE rd = NoReader
  BY <1>1 DEF ReaderInv
<1>2. CASE Refused
  BY <1>2 DEF ReaderInv, Refused
<1>3. CASE Reading(B)
  <2>1. /\ out.topics \in Nat /\ Len(out.log) \in Nat /\ Len(file) \in Nat
    BY WriterTypes
  <2>2. /\ out'.topics \in Nat /\ Len(out'.log) \in Nat /\ Len(file') \in Nat
    <3>1. /\ out' \in WriterRecords /\ file' \in Seq(Cells)
      BY DEF Stream
    <3>2. out'.topics \in Nat /\ out'.log \in Seq(Messages)
      BY <3>1 DEF WriterRecords
    <3> QED BY <3>1, <3>2, LenProperties
  <2>3. /\ rd \in ReaderRecords /\ Len(rd.topics) \in Nat /\ Len(rd.got) \in Nat /\ rd.size \in Nat
        /\ rd.flushed \in Nat /\ rd.complete \in BOOLEAN /\ rd.position \in Nat
    BY <1>3, ReaderTypes DEF Reading
  <2>4. /\ Len(rd.topics) <= out.topics /\ Len(rd.got) <= Len(out.log)
        /\ Len(rd.got) # 0 => Len(rd.topics) = out.topics
        /\ rd.position = B[Place] /\ rd.position <= Len(file)
        /\ \A j \in 1 .. Len(rd.got) : rd.got[j] = out.log[j]
        /\ rd.size <= Len(file)
        /\ rd.flushed <= Len(out.log)
        /\ rd.flushed # 0 => B[out.topics + rd.flushed + 1] <= rd.size
        /\ rd.complete => out.closed /\ rd.size = Len(file)
    BY <1>3 DEF Reading
  <2>5. /\ \A i \in 1 .. Records + 1 : C[i] = B[i]
        /\ Len(file) <= Len(file')
        /\ Len(out.log) <= Len(out'.log) /\ \A j \in 1 .. Len(out.log) : out'.log[j] = out.log[j]
        /\ out.topics <= out'.topics /\ (Len(out.log) # 0 => out'.topics = out.topics)
        /\ out.closed => out'.closed /\ Len(file') = Len(file) /\ Len(out'.log) = Len(out.log)
    BY DEF Kept
  <2>6. Place' = Place /\ Place \in 1 .. Records + 1
    <3>1. Place' = Place
      BY DEF Place
    <3> QED BY <3>1, <1>3, PlaceFacts
  <2>7. rd.position = C[Place]
    BY <2>4, <2>5, <2>6
  <2>8. /\ Len(rd.topics) <= out'.topics /\ Len(rd.got) <= Len(out'.log)
        /\ Len(rd.got) # 0 => Len(rd.topics) = out'.topics
        /\ rd.size <= Len(file') /\ rd.flushed <= Len(out'.log)
    BY <2>1, <2>2, <2>3, <2>4, <2>5
  <2>9. \A j \in 1 .. Len(rd.got) : rd.got[j] = out'.log[j]
    BY <2>1, <2>3, <2>4, <2>5
  <2>10. ASSUME rd.flushed # 0 PROVE C[out'.topics + rd.flushed + 1] <= rd.size
    <3>1. Len(out.log) # 0 /\ out'.topics = out.topics
      BY <2>1, <2>3, <2>4, <2>5, <2>10
    <3>2. out.topics + rd.flushed + 1 \in 1 .. Records + 1
      BY <2>1, <2>3, <2>4 DEF Records
    <3> QED BY <3>1, <3>2, <2>4, <2>5, <2>10
  <2>11. rd.complete => out'.closed /\ rd.size = Len(file') /\ Len(out'.log) = Len(out.log)
    BY <2>4, <2>5
  <2>12. rd.pc = "ended" => /\ Len(rd.got) >= rd.flushed
                            /\ rd.complete => Len(rd.got) = Len(out'.log) /\ ~rd.truncated
    BY <1>3, <2>11 DEF Reading
  <2>13. \A i \in 1 .. Len(rd.topics) : rd.topics[i].id = i
    BY <1>3 DEF Reading
  <2>14. rd.pc = "ended" => CutReported'
    <3>1. rd.pc = "ended" => CutReported
      BY <1>3 DEF Reading
    <3>2. CutReported => CutReported'
      BY <2>1, <2>2, <2>3, <2>5 DEF CutReported
    <3> QED BY <3>1, <3>2
  <2>15. rd.position <= Len(file')
    <3>1. PICK p \in Nat : p = rd.position
      BY <2>3
    <3>2. p <= Len(file) /\ Len(file) <= Len(file')
      BY <3>1, <2>5, <1>3 DEF Reading
    <3> QED BY <3>1, <3>2, <2>1, <2>2
  <2>16. Reading(C)'
    BY <2>15, <2>3, <2>6, <2>7, <2>8, <2>9, <2>10, <2>11, <2>12, <2>13, <2>14 DEF Reading
  <2> QED BY <2>16 DEF ReaderInv
<1> QED BY <1>1, <1>2, <1>3 DEF ReaderInv

\* Where the i-th record is.
LEMMA RecordWhere ==
  ASSUME NEW W, NEW B, NEW n, Stream(W, B, n), NEW i \in 1 .. n
  PROVE  /\ B[i] \in Nat /\ W[B[i] + 2] \in Nat /\ B[i + 1] = B[i] + 2 + W[B[i] + 2] /\ B[i + 1] <= Len(W)
         /\ \A j \in 1 .. n + 1 : i < j => B[i + 1] <= B[j]
<1>1. n \in Nat /\ B \in [1 .. n + 1 -> Nat] /\ B[n + 1] = Len(W)
  BY WriterTypes DEF Stream, Layout
<1>2. i \in 1 .. n + 1 /\ i + 1 \in 1 .. n + 1 /\ n + 1 \in 1 .. n + 1
  BY <1>1
<1>3. W[B[i] + 2] \in Nat /\ B[i + 1] = B[i] + 2 + W[B[i] + 2]
  BY DEF Stream, Layout
<1>4. \A j \in 1 .. n + 1 : i < j => B[i + 1] <= B[j]
  <2>1. ASSUME NEW j \in 1 .. n + 1, i < j PROVE B[i + 1] <= B[j]
    <3>1. i + 1 <= j
      BY <1>1, <2>1
    <3> QED BY <3>1, <1>2 DEF Stream, Layout
  <2> QED BY <2>1
<1>5. B[i + 1] <= B[n + 1]
  BY <1>1, <1>2, <1>4
<1> QED BY <1>1, <1>2, <1>3, <1>4, <1>5

\* A reader is cut off where the file ended when it was opened, or has not got
\* further since.
LEMMA NotCutOff ==
  ASSUME NEW W, NEW B, NEW n, Stream(W, B, n), Reading(B), Place \in 1 .. Records, B[Place + 1] <= rd.size
  PROVE  ~CutOff
<1> DEFINE i == Place
           p == B[Place]
           z == W[B[Place] + 2]
<1>0. i \in 1 .. n
  BY WriterTypes
<1>1. p \in Nat /\ z \in Nat /\ B[i + 1] = p + 2 + z
  BY <1>0, RecordWhere
<1>2. rd.position = p /\ rd.size \in Nat /\ rd.size <= Len(file) /\ Len(file) \in Nat
  BY PlaceFacts, ReaderTypes, WriterTypes DEF Reading
<1>3. p + 2 + z <= rd.size
  BY <1>1
<1>4. Size = z
  <2> HIDE DEF z
  <2>1. p + 2 \in 1 .. Len(file)
    BY <1>1, <1>2, <1>3
  <2>2. file[p + 2] = W[p + 2]
    BY <2>1, OnDisk DEF Agree
  <2> QED BY <2>2, <1>2 DEF Size, z
<1> HIDE DEF p, z
<1>5. Left = Len(file) - p
  BY <1>2 DEF Left
<1>6. Min({rd.size, p + 2}) = p + 2
  <2>1. p + 2 \in Int /\ rd.size \in Int /\ p + 2 <= rd.size
    BY <1>1, <1>2, <1>3
  <2>2. Min({rd.size, p + 2}) = IF rd.size <= p + 2 THEN rd.size ELSE p + 2
    BY <2>1, MinOfTwo
  <2> QED BY <2>1, <2>2
<1>7. Min({rd.size, rd.position + RecordHeaderSize}) = p + 2
  BY <1>2, <1>6 DEF RecordHeaderSize
<1>8. ~(z > rd.size - (p + 2)) /\ ~(Left < 2) /\ ~(Left - 2 < z)
  BY <1>1, <1>2, <1>3, <1>5
<1>9. CutOff => Left < 2 \/ Size > rd.size - (p + 2) \/ Left - 2 < Size
  <2>1. RecordHeaderSize = 2
    BY DEF RecordHeaderSize
  <2>2. CutOff => \/ Left < RecordHeaderSize \/ Left - RecordHeaderSize < Size
                  \/ Size > rd.size - Min({rd.size, rd.position + RecordHeaderSize})
    BY Zenon DEF CutOff
  <2> QED BY <2>1, <2>2, <1>7, Zenon
<1> QED BY <1>4, <1>8, <1>9, Zenon

\* Where it is not cut off, a whole record is on disk that the writer counted.
Whole(W, B) ==
  /\ Place \in 1 .. Records /\ Size = W[B[Place] + 2] /\ Size \in Nat
  /\ B[Place + 1] = B[Place] + 2 + Size /\ B[Place + 1] <= Len(file)
  /\ \A q \in 1 .. 2 + Size : file[B[Place] + q] = W[B[Place] + q]

\* A record that is not cut off is there as it was written.
LEMMA WholeRecord ==
  ASSUME NEW W, NEW B, NEW n, Stream(W, B, n), Reading(B), ~CutOff
  PROVE  Whole(W, B)
<1> DEFINE i == Place
           p == B[Place]
           z == W[B[Place] + 2]
<1>0. /\ i \in 1 .. n + 1 /\ i \in 1 .. Records + 1 /\ rd.position = p /\ p \in Nat /\ n \in Nat /\ Records \in Nat
      /\ Len(file) \in Nat /\ Len(W) \in Nat /\ n >= Records
  BY PlaceFacts, WriterTypes
<1>1. Left = Len(file) - p
  BY <1>0 DEF Left
<1>2. Left >= 2 /\ ~(Left - 2 < Size)
  <2>1. ~(Left < 2)
    BY DEF CutOff, RecordHeaderSize
  <2>2. Left \in Int
    BY <1>0, <1>1
  <2>3. Left >= 2
    BY <2>1, <2>2
  <2> QED BY <2>3 DEF CutOff, RecordHeaderSize
<1>3. Len(file) <= Len(W) /\ Agree(file, W, Len(file))
  BY OnDisk
<1>4. i \in 1 .. n
  <2>1. B[n + 1] = Len(W)
    BY DEF Stream, Layout
  <2>2. p # Len(W)
    <3> HIDE DEF p
    <3> QED BY <1>0, <1>1, <1>2, <1>3
  <2> QED BY <2>1, <2>2, <1>0
<1>5. z \in Nat /\ B[i + 1] = p + 2 + z /\ B[i + 1] <= Len(W)
  BY <1>4, RecordWhere
<1>6. Size = z
  <2> HIDE DEF z
  <2>1. p + 2 \in 1 .. Len(file)
    BY <1>0, <1>1, <1>2
  <2>2. file[p + 2] = W[p + 2]
    BY <2>1, <1>3 DEF Agree
  <2> QED BY <2>2, <1>0 DEF Size, z
<1> HIDE DEF z, p
<1>7. p + 2 + z <= Len(file)
  BY <1>0, <1>1, <1>2, <1>5, <1>6
<1>8. i \in 1 .. Records
  <2>1. CASE n = Records
    BY <2>1, <1>4
  <2>2. CASE n # Records
    <3>1. n = Records + 1 /\ Len(file) < Len(W)
      <4>1. out.bad \in BOOLEAN
        BY DEF Stream, WriterRecords
      <4> QED BY <4>1, <2>2 DEF Stream
    <3>2. i # n
      <4>1. SUFFICES ASSUME i = n PROVE FALSE
        OBVIOUS
      <4>2. B[n + 1] = Len(W) /\ B[i + 1] = Len(W)
        BY <4>1 DEF Stream, Layout
      <4> QED BY <4>2, <3>1, <1>0, <1>5, <1>7
    <3> QED BY <3>1, <3>2, <1>0, <1>4
  <2> QED BY <2>1, <2>2
<1>9. ASSUME NEW q \in 1 .. 2 + z PROVE file[p + q] = W[p + q]
  <2>1. p + q \in 1 .. Len(file)
    BY <1>0, <1>5, <1>7
  <2> QED BY <2>1, <1>3 DEF Agree
<1> QED BY <1>5, <1>6, <1>7, <1>8, <1>9 DEF Whole, z, p

\* Cells a + 1 to a + z of f.
Sliced(s, f, a, z) == Len(s) = z /\ \A q \in 1 .. z : s[q] = f[a + q]

\* A part of a sequence.
LEMMA SliceFacts ==
  ASSUME NEW S, NEW f \in Seq(S), NEW a \in Nat, NEW z \in Nat, a + z <= Len(f)
  PROVE  SubSeq(f, a + 1, a + z) \in Seq(S) /\ Sliced(SubSeq(f, a + 1, a + z), f, a, z)
<1>1. PICK m \in Nat : m = a + 1
  OBVIOUS
<1>2. PICK k \in Nat : k = a + z
  OBVIOUS
<1>3. \A i \in m .. k : f[i] \in S
  <2>1. ASSUME NEW i \in m .. k PROVE i \in 1 .. Len(f)
    BY <1>1, <1>2, LenProperties
  <2> QED BY <2>1, ElementOfSeq
<1>4. /\ SubSeq(f, m, k) \in Seq(S)
      /\ Len(SubSeq(f, m, k)) = IF m <= k THEN k - m + 1 ELSE 0
      /\ \A i \in 1 .. k - m + 1 : SubSeq(f, m, k)[i] = f[m + i - 1]
  BY <1>3, SubSeqProperties
<1>5. (IF m <= k THEN k - m + 1 ELSE 0) = z /\ k - m + 1 = z
  BY <1>1, <1>2
<1>6. ASSUME NEW q \in 1 .. z PROVE SubSeq(f, m, k)[q] = f[a + q]
  <2>1. m + q - 1 = a + q
    BY <1>1
  <2> QED BY <2>1, <1>4, <1>5
<1> QED BY <1>1, <1>2, <1>4, <1>5, <1>6 DEF Sliced

\* The body of such a record.
LEMMA BodyFacts ==
  ASSUME NEW W, NEW B, NEW n, Stream(W, B, n), Reading(B), Whole(W, B)
  PROVE  /\ Body \in Seq(Cells) /\ Len(Body) = Size /\ Size \in Nat
         /\ \A q \in 1 .. Size : Body[q] = W[B[Place] + 2 + q]
<1> DEFINE p == B[Place]
<1>0. /\ rd.position = p /\ p \in Nat /\ Len(file) \in Nat /\ file \in Seq(Cells)
  BY PlaceFacts, WriterTypes DEF Stream
<1>1. /\ Size \in Nat /\ p + 2 + Size <= Len(file) /\ \A q \in 1 .. 2 + Size : file[p + q] = W[p + q]
  BY DEF Whole
<1> HIDE DEF p
<1> DEFINE z == Size
<1>2. z \in Nat /\ p + 2 + z <= Len(file)
  BY <1>1
<1> HIDE DEF z
<1>3. Min({Len(file), p + 2 + z}) = p + 2 + z
  <2>1. p + 2 + z \in Int /\ Len(file) \in Int /\ p + 2 + z <= Len(file)
    BY <1>0, <1>2
  <2>2. Min({Len(file), p + 2 + z}) = IF Len(file) <= p + 2 + z THEN Len(file) ELSE p + 2 + z
    BY <2>1, MinOfTwo
  <2> QED BY <2>1, <2>2
<1>4. Body = SubSeq(file, p + 2 + 1, p + 2 + z)
  BY <1>0, <1>3 DEF Body, RecordHeaderSize, z
<1>5. PICK a \in Nat : a = p + 2
  BY <1>0
<1>6. Body \in Seq(Cells) /\ Sliced(Body, file, a, z)
  BY <1>0, <1>2, <1>4, <1>5, SliceFacts
<1>7. Len(Body) = z /\ \A q \in 1 .. z : Body[q] = file[p + 2 + q]
  BY <1>5, <1>6 DEF Sliced
<1>8. ASSUME NEW q \in 1 .. z PROVE Body[q] = W[p + 2 + q]
  <2>1. 2 + q \in 1 .. 2 + z /\ p + (2 + q) = p + 2 + q
    BY <1>0, <1>2
  <2>2. file[p + (2 + q)] = W[p + (2 + q)]
    BY <2>1, <1>1 DEF z
  <2> QED BY <2>1, <2>2, <1>7
<1>9. Body \in Seq(Cells) /\ Len(Body) = z
  BY <1>6, <1>7
<1> QED BY <1>2, <1>8, <1>9 DEF z, p

\* A reader that ends has read what had been flushed, and all that was closed or
\* that was there unless it reports a cut.
LEMMA ReadEndKeeps ==
  ASSUME NEW W, NEW B, NEW n, Stream(W, B, n), Reading(B), UNCHANGED <<file, out>>, ReadEnd
  PROVE  Reading(B)'
<1>0. /\ rd \in ReaderRecords /\ Len(rd.topics) \in Nat /\ Len(rd.got) \in Nat /\ rd.flushed \in Nat /\ rd.size \in Nat
      /\ rd.complete \in BOOLEAN
  BY ReaderTypes DEF Reading
<1>1. out.topics \in Nat /\ Len(out.log) \in Nat /\ n \in Nat /\ Records \in Nat /\ n >= Records /\ B \in [1 .. n + 1 -> Nat]
  BY WriterTypes
<1>a. PICK a \in Nat : a = Len(rd.topics)
  BY <1>0
<1>b. PICK b \in Nat : b = Len(rd.got)
  BY <1>0
<1>t. PICK t \in Nat : t = out.topics
  BY <1>1
<1>k. PICK k \in Nat : k = Len(out.log)
  BY <1>1
<1>p. Place = a + b + 1 /\ Records = t + k /\ a <= t /\ b <= k
  BY <1>a, <1>b, <1>t, <1>k DEF Place, Records, Reading
<1>2. CutOff /\ rd' = [rd EXCEPT !.pc = "ended", !.truncated = Left # 0]
  BY DEF ReadEnd
<1>3. PICK cut \in BOOLEAN : cut = (Left # 0)
  OBVIOUS
<1>4. /\ rd' \in ReaderRecords /\ rd'.topics = rd.topics /\ rd'.got = rd.got /\ rd'.position = rd.position
      /\ rd'.size = rd.size /\ rd'.flushed = rd.flushed /\ rd'.complete = rd.complete /\ rd'.truncated = cut
  <2>1. rd' = [rd EXCEPT !.pc = "ended", !.truncated = cut]
    BY <1>2, <1>3
  <2> QED BY <2>1, <1>0 DEF ReaderRecords
<1>5. Place \in 1 .. n + 1 /\ Place \in 1 .. Records + 1 /\ rd.position = B[Place]
  BY PlaceFacts
<1>6. ~(Place \in 1 .. Records /\ B[Place + 1] <= rd.size)
  BY <1>2, NotCutOff
<1>7. Len(rd.got) >= rd.flushed
  <2>1. SUFFICES ASSUME Len(rd.got) < rd.flushed PROVE FALSE
    BY <1>0
  <2>2. rd.flushed # 0 /\ rd.flushed <= Len(out.log) /\ Len(rd.topics) <= out.topics
    BY <2>1, <1>0 DEF Reading
  <2>3. B[out.topics + rd.flushed + 1] <= rd.size
    BY <2>2 DEF Reading
  <2>4. PICK f \in Nat : f = rd.flushed
    BY <1>0
  <2>5. PICK j \in Nat : j = t + f + 1
    OBVIOUS
  <2>6. Place \in 1 .. Records /\ Place \in 1 .. n /\ Place < j /\ j \in 1 .. n + 1
    <3>1. b < f /\ f <= k
      BY <2>1, <2>2, <2>4, <1>b, <1>k
    <3> QED BY <3>1, <2>5, <1>p, <1>1
  <2>7. B[Place + 1] <= B[j] /\ B[Place] \in Nat /\ W[B[Place] + 2] \in Nat /\ B[Place + 1] = B[Place] + 2 + W[B[Place] + 2]
    BY <2>6, RecordWhere
  <2>8. B[j] \in Nat /\ B[j] <= rd.size
    BY <2>3, <2>4, <2>5, <2>6, <1>1, <1>t
  <2>9. B[Place + 1] <= rd.size
    BY <2>7, <2>8, <1>0
  <2> QED BY <2>6, <2>9, <1>6
<1>8. ASSUME rd.complete PROVE Len(rd.got) = Len(out.log) /\ Left = 0
  <2>1. out.closed /\ rd.size = Len(file)
    BY <1>8 DEF Reading
  <2>2. Len(file) = Len(W) /\ n = Records /\ B[n + 1] = Len(W) /\ Len(file) \in Nat
    BY <2>1, OnDisk, WriterTypes DEF Stream, Layout
  <2>3. Place \notin 1 .. Records
    <3>1. SUFFICES ASSUME Place \in 1 .. Records PROVE FALSE
      OBVIOUS
    <3>2. Place \in 1 .. n
      BY <3>1, <2>2
    <3>3. B[Place + 1] <= Len(W)
      BY <3>2, RecordWhere
    <3> QED BY <3>1, <3>3, <2>1, <2>2, <1>6
  <2>4. Place = n + 1
    BY <2>2, <2>3, <1>1, <1>5
  <2>5. Left = 0
    BY <2>2, <2>4, <1>5 DEF Left
  <2>8. b = k
    BY <2>2, <2>4, <1>p
  <2> QED BY <2>5, <2>8, <1>b, <1>k
<1>9. Place' = Place
  BY <1>4 DEF Place
<1>10. rd'.complete => Len(rd'.got) = Len(out'.log) /\ ~rd'.truncated
  BY <1>3, <1>4, <1>8
<1>11. CutReported'
  <2>1. rd.position \in Nat /\ Len(file) \in Nat /\ rd.position <= Len(file) /\ rd.size <= Len(file)
    BY ReaderTypes, WriterTypes DEF Reading
  <2>2. cut <=> rd.position # Len(file)
    <3>1. PICK p \in Nat : p = rd.position
      BY <2>1
    <3>2. PICK f \in Nat : f = Len(file)
      BY <2>1
    <3>3. Left = f - p
      BY <3>1, <3>2 DEF Left
    <3>4. f - p # 0 <=> p # f
      OBVIOUS
    <3>5. cut <=> f - p # 0
      BY <3>3, <1>3
    <3> QED BY <3>1, <3>2, <3>4, <3>5
  <2>3. (~cut => rd.size <= rd.position) /\ (cut => rd.position < Len(file))
    BY <2>1, <2>2
  <2> QED BY <2>3, <1>4 DEF CutReported
<1> QED BY <1>4, <1>7, <1>9, <1>10, <1>11 DEF Reading

\* What kind of record the reader is at.
LEMMA KindFacts ==
  ASSUME NEW W, NEW B, NEW n, Stream(W, B, n), Reading(B), Whole(W, B)
  PROVE  /\ Kind = W[B[Place] + 1]
         /\ Place \in 1 .. out.topics => TopicAt(W, B[Place], Place)
         /\ Place \notin 1 .. out.topics => /\ Len(rd.got) + 1 \in 1 .. Len(out.log)
                                            /\ MessageAt(W, B[Place], out.log[Len(rd.got) + 1])
<1>0. /\ out.topics \in Nat /\ Len(out.log) \in Nat /\ Len(rd.got) \in Nat /\ Place \in 1 .. Records /\ Size \in Nat
      /\ rd.position = B[Place]
  BY WriterTypes, ReaderTypes, PlaceFacts DEF Reading, Whole
<1>1. Kind = W[B[Place] + 1]
  <2>1. 1 \in 1 .. 2 + Size
    BY <1>0
  <2>2. file[B[Place] + 1] = W[B[Place] + 1]
    BY <2>1 DEF Whole
  <2> QED BY <2>2, <1>0 DEF Kind
<1>2. ASSUME Place \in 1 .. out.topics PROVE TopicAt(W, B[Place], Place)
  BY <1>2 DEF Stream, Contents
<1>3. ASSUME Place \notin 1 .. out.topics
      PROVE  Len(rd.got) + 1 \in 1 .. Len(out.log) /\ MessageAt(W, B[Place], out.log[Len(rd.got) + 1])
  <2>1. Place > out.topics
    BY <1>0, <1>3 DEF Records
  <2>2. Place = out.topics + Len(rd.got) + 1
    BY <2>1, PlaceFacts
  <2>3. PICK j \in Nat : j = Len(rd.got) + 1
    BY <1>0
  <2>4. Records = out.topics + Len(out.log)
    BY DEF Records
  <2>5. Place = out.topics + j /\ j \in 1 .. Len(out.log)
    BY <1>0, <2>2, <2>3, <2>4
  <2>6. MessageAt(W, B[out.topics + j], out.log[j])
    BY <2>5 DEF Stream, Contents
  <2> QED BY <2>3, <2>5, <2>6
<1> QED BY <1>1, <1>2, <1>3

\* Past the record is the next one.
LEMMA PastFacts ==
  ASSUME NEW W, NEW B, NEW n, Stream(W, B, n), Reading(B), Whole(W, B)
  PROVE  /\ Past \in ReaderRecords /\ Past.position = B[Place + 1] /\ Past.topics = rd.topics /\ Past.got = rd.got
         /\ Past.size = rd.size /\ Past.flushed = rd.flushed /\ Past.complete = rd.complete /\ Past.pc = rd.pc
         /\ Past.position <= Len(file)
<1>0. rd \in ReaderRecords /\ rd.position \in Nat /\ Size \in Nat /\ rd.position = B[Place] /\ B[Place + 1] = B[Place] + 2 + Size
  BY ReaderTypes, PlaceFacts DEF Reading, Whole
<1>1. PICK q \in Nat : q = rd.position + RecordHeaderSize + Size
  BY <1>0 DEF RecordHeaderSize
<1>2. Past = [rd EXCEPT !.position = q]
  BY <1>1 DEF Past
<1>3. q = B[Place + 1]
  BY <1>0, <1>1 DEF RecordHeaderSize
<1>4. B[Place + 1] <= Len(file)
  BY DEF Whole
<1> QED BY <1>0, <1>2, <1>3, <1>4 DEF ReaderRecords

\* A topic's record is the next topic, which the reader does not have yet.
LEMMA ReadTopicKeeps ==
  ASSUME NEW W, NEW B, NEW n, Stream(W, B, n), Reading(B), UNCHANGED <<file, out>>, ReadTopic
  PROVE  Reading(B)'
<1>0. /\ rd \in ReaderRecords /\ rd.topics \in Seq(Entries) /\ Len(rd.topics) \in Nat /\ Len(rd.got) \in Nat
      /\ Place \in Nat \ {0} /\ rd.pc = "next"
  BY ReaderTypes DEF Reading, ReadTopic
<1>1. Whole(W, B) /\ Kind = "topic"
  BY WholeRecord DEF ReadTopic
<1>2. Place \in 1 .. out.topics
  <2>1. SUFFICES ASSUME Place \notin 1 .. out.topics PROVE FALSE
    OBVIOUS
  <2>2. W[B[Place] + 1] = "message"
    BY <2>1, <1>1, KindFacts DEF MessageAt
  <2>3. W[B[Place] + 1] = "topic"
    BY <1>1, KindFacts
  <2> QED BY <2>2, <2>3
<1>3. TopicAt(W, B[Place], Place) /\ Size = 2
  <2>1. TopicAt(W, B[Place], Place)
    BY <1>1, <1>2, KindFacts
  <2> QED BY <2>1, <1>1 DEF Whole, TopicAt
<1>4. Len(rd.got) = 0 /\ Place = Len(rd.topics) + 1 /\ out.topics \in Nat
  <2>1. Place <= out.topics /\ out.topics \in Nat
    BY <1>2, WriterTypes
  <2> QED BY <2>1, PlaceFacts
<1>5. Body \in Seq(Cells) /\ Len(Body) = 2 /\ Body[1] = Place /\ Body[2] \in Cells
  <2>1. Body \in Seq(Cells) /\ Len(Body) = 2 /\ \A q \in 1 .. 2 : Body[q] = W[B[Place] + 2 + q]
    BY <1>1, <1>3, BodyFacts
  <2>2. B[Place] + 2 + 1 = B[Place] + 3
    <3>1. B[Place] \in Nat
      BY PlaceFacts
    <3> QED BY <3>1
  <2>3. Body[1] = W[B[Place] + 2 + 1]
    BY <2>1
  <2>4. Body[2] \in Cells
    <3>1. 2 \in 1 .. Len(Body)
      BY <2>1
    <3> QED BY <3>1, <2>1, ElementOfSeq
  <2> QED BY <2>1, <2>2, <2>3, <2>4, <1>3 DEF TopicAt
<1>6. FindTopic(Place) = {}
  <2>1. SUFFICES ASSUME NEW t \in Range(rd.topics), t.id = Place PROVE FALSE
    BY DEF FindTopic
  <2>2. PICK i \in 1 .. Len(rd.topics) : t = rd.topics[i]
    BY <1>0, LenProperties DEF Range
  <2>3. t.id = i
    BY <2>2 DEF Reading
  <2>4. PICK a \in Nat : a = Len(rd.topics)
    BY <1>0
  <2>5. i \in 1 .. a /\ i = a + 1
    BY <2>1, <2>3, <2>4, <1>4
  <2> QED BY <2>5
<1>7. PICK e \in Entries : e = [id |-> Body[1], topic |-> Body[2]]
  BY <1>0, <1>5 DEF Entries
<1>8. rd' = [Past EXCEPT !.topics = Append(@, e)]
  <2>1. ~(Len(Body) < 2 \/ (Len(Body) = 2 /\ (Body[1] = 0 \/ FindTopic(Body[1]) # {})))
    BY <1>0, <1>5, <1>6
  <2>2. IF Len(Body) < 2 \/ (Len(Body) = 2 /\ (Body[1] = 0 \/ FindTopic(Body[1]) # {})) THEN Corrupt
        ELSE rd' = [Past EXCEPT !.topics = Append(@, [id |-> Body[1], topic |-> Body[2]])]
    BY DEF ReadTopic
  <2> QED BY <2>1, <2>2, <1>7, Zenon
<1>9. PICK topics \in Seq(Entries) : topics = Append(rd.topics, e)
  <2>1. Append(rd.topics, e) \in Seq(Entries)
    BY <1>0, AppendProperties
  <2> QED BY <2>1
<1>10. Len(topics) = Len(rd.topics) + 1 /\ topics[Len(topics)] = e /\ \A i \in 1 .. Len(rd.topics) : topics[i] = rd.topics[i]
  BY <1>0, <1>9, AppendProperties
<1>11. /\ Past \in ReaderRecords /\ Past.position = B[Place + 1] /\ Past.topics = rd.topics /\ Past.got = rd.got
       /\ Past.size = rd.size /\ Past.flushed = rd.flushed /\ Past.complete = rd.complete /\ Past.pc = rd.pc
       /\ Past.position <= Len(file)
  BY <1>1, PastFacts
<1>12. rd' = [Past EXCEPT !.topics = topics]
  BY <1>8, <1>9, <1>11
<1>13. /\ rd' \in ReaderRecords /\ rd'.topics = topics /\ rd'.got = rd.got /\ rd'.position = B[Place + 1]
       /\ rd'.size = rd.size /\ rd'.flushed = rd.flushed /\ rd'.complete = rd.complete /\ rd'.pc = "next"
  BY <1>0, <1>11, <1>12 DEF ReaderRecords
<1>14. PICK a \in Nat : a = Len(rd.topics)
  BY <1>0
<1>15. Place' = Place + 1 /\ Len(topics) <= out.topics
  <2>1. Place = a + 1 /\ Len(topics) = a + 1 /\ Place' = Len(topics) + Len(rd.got) + 1
    BY <1>4, <1>10, <1>13, <1>14 DEF Place
  <2> QED BY <2>1, <1>2, <1>4
<1>16. ASSUME NEW i \in 1 .. Len(topics) PROVE topics[i].id = i
  <2>1. CASE i \in 1 .. Len(rd.topics)
    BY <2>1, <1>10 DEF Reading
  <2>2. CASE i = Len(topics)
    BY <2>2, <1>4, <1>5, <1>7, <1>10
  <2> QED BY <2>1, <2>2, <1>0, <1>10
<1> QED BY <1>4, <1>11, <1>13, <1>15, <1>16 DEF Reading

\* A message's record is the next message, of a topic that the reader has.
LEMMA ReadMessageKeeps ==
  ASSUME NEW W, NEW B, NEW n, Stream(W, B, n), Reading(B), UNCHANGED <<file, out>>, ReadMessage
  PROVE  Reading(B)'
<1>0. /\ rd \in ReaderRecords /\ rd.got \in Seq(Messages) /\ rd.topics \in Seq(Entries) /\ Len(rd.topics) \in Nat
      /\ Len(rd.got) \in Nat /\ Place \in Nat \ {0} /\ rd.pc = "next" /\ B[Place] \in Nat
  BY ReaderTypes, PlaceFacts DEF Reading, ReadMessage
<1>1. Whole(W, B) /\ Kind = "message"
  BY WholeRecord DEF ReadMessage
<1>2. Place \notin 1 .. out.topics
  <2>1. SUFFICES ASSUME Place \in 1 .. out.topics PROVE FALSE
    OBVIOUS
  <2>2. W[B[Place] + 1] = "topic"
    BY <2>1, <1>1, KindFacts DEF TopicAt
  <2>3. W[B[Place] + 1] = "message"
    BY <1>1, KindFacts
  <2> QED BY <2>2, <2>3
<1>3. PICK j \in Nat : j = Len(rd.got) + 1
  BY <1>0
<1>4. j \in 1 .. Len(out.log) /\ MessageAt(W, B[Place], out.log[j])
  BY <1>1, <1>2, <1>3, KindFacts
<1>5. out.topics \in Nat /\ out.log \in Seq(Messages) /\ Len(rd.topics) = out.topics
  <2>1. out.topics \in Nat /\ out.log \in Seq(Messages)
    BY WriterTypes
  <2>2. Place > out.topics
    BY <2>1, <1>0, <1>2
  <2> QED BY <2>1, <2>2, PlaceFacts
<1>6. PICK m \in Messages : m = out.log[j]
  BY <1>4, <1>5, ElementOfSeq
<1>7. m.topic \in 1 .. out.topics /\ m.topic \in Nat /\ m.time \in Nat /\ m.payload \in Seq(Nat) /\ Len(m.payload) \in Nat
  <2>1. m.topic \in 1 .. out.topics
    BY <1>4, <1>6 DEF Stream
  <2>2. m.topic \in Nat /\ m.time \in Nat /\ m.payload \in Seq(Nat)
    BY DEF Messages
  <2> QED BY <2>1, <2>2, LenProperties
<1>8. MessageAt(W, B[Place], m)
  BY <1>4, <1>6
<1>9. Size = 2 + Len(m.payload)
  BY <1>1, <1>8 DEF Whole, MessageAt
<1>10. IsBodyOf(Body, m)
  <2>1. Body \in Seq(Cells) /\ Len(Body) = Size /\ \A q \in 1 .. Size : Body[q] = W[B[Place] + 2 + q]
    BY <1>1, BodyFacts
  <2>2. 1 \in 1 .. Size /\ 2 \in 1 .. Size
    BY <1>7, <1>9
  <2>3. Body[1] = W[B[Place] + 2 + 1] /\ Body[2] = W[B[Place] + 2 + 2]
    BY <2>1, <2>2
  <2>4. B[Place] + 2 + 1 = B[Place] + 3 /\ B[Place] + 2 + 2 = B[Place] + 4
    BY <1>0
  <2>5. ASSUME NEW q \in 1 .. Len(m.payload) PROVE Body[2 + q] = m.payload[q]
    <3>1. q \in Nat /\ 2 + q \in 1 .. Size
      BY <1>7, <1>9
    <3>2. B[Place] + 2 + (2 + q) = B[Place] + 4 + q
      <4>1. PICK p \in Nat : p = B[Place]
        BY <1>0
      <4>2. p + 2 + (2 + q) = p + 4 + q
        BY <3>1
      <4> QED BY <4>1, <4>2
    <3>3. Body[2 + q] = W[B[Place] + 2 + (2 + q)]
      BY <3>1, <2>1
    <3>4. W[B[Place] + 4 + q] = m.payload[q]
      BY <1>8 DEF MessageAt
    <3> QED BY <3>2, <3>3, <3>4
  <2> QED BY <2>1, <2>3, <2>4, <2>5, <1>7, <1>8, <1>9 DEF IsBodyOf, MessageAt
<1>11. SubSeq(Body, MessageFixedSize + 1, Len(Body)) = m.payload
  <2>1. Len(Body) = 2 + Len(m.payload) /\ Body \in Seq(Cells) /\ \A q \in 1 .. Len(m.payload) : Body[2 + q] = m.payload[q]
    BY <1>10 DEF IsBodyOf
  <2>2. PICK z \in Nat : z = Len(m.payload)
    BY <1>7
  <2>3. 2 + z <= Len(Body) /\ Len(Body) = 2 + z
    BY <2>1, <2>2
  <2>4. SubSeq(Body, 2 + 1, 2 + z) \in Seq(Cells) /\ Sliced(SubSeq(Body, 2 + 1, 2 + z), Body, 2, z)
    BY <2>1, <2>3, SliceFacts
  <2> DEFINE s == SubSeq(Body, 2 + 1, 2 + z)
  <2>5. s \in Seq(Cells) /\ Len(s) = z /\ \A q \in 1 .. z : s[q] = Body[2 + q]
    BY <2>4 DEF Sliced
  <2>6. s = SubSeq(Body, MessageFixedSize + 1, Len(Body))
    <3>1. MessageFixedSize = 2
      BY DEF MessageFixedSize
    <3> QED BY <3>1, <2>3, Zenon
  <2> HIDE DEF s
  <2>7. m.payload \in Seq(Cells)
    BY <1>7, CellFacts, SeqMonotonic
  <2>8. Len(s) = Len(m.payload) /\ \A q \in 1 .. Len(s) : s[q] = m.payload[q]
    BY <2>1, <2>2, <2>5
  <2>9. s = m.payload
    BY <2>5, <2>7, <2>8, SeqEqual
  <2> QED BY <2>6, <2>9
<1>12. FindTopic(m.topic) # {}
  <2>1. m.topic \in 1 .. Len(rd.topics)
    BY <1>5, <1>7
  <2>2. rd.topics[m.topic].id = m.topic
    BY <2>1 DEF Reading
  <2>3. rd.topics[m.topic] \in Range(rd.topics)
    BY <2>1, <1>0, LenProperties DEF Range
  <2> QED BY <2>2, <2>3 DEF FindTopic
<1>13. rd' = [Past EXCEPT !.pc = "message", !.got = Append(@, m)]
  <2>1. Body[1] = m.topic /\ Body[2] = [time |-> m.time, sequence |-> m.sequence] /\ Len(Body) = 2 + Len(m.payload)
    BY <1>10 DEF IsBodyOf
  <2>2. Body[2].time = m.time /\ Body[2].sequence = m.sequence
    BY <2>1
  <2>3. ~(Len(Body) < MessageFixedSize) /\ ~(Body[2].time < 0)
    BY <2>1, <2>2, <1>7 DEF MessageFixedSize
  <2>4. ~(Len(Body) < MessageFixedSize \/ Body[2].time < 0 \/ FindTopic(Body[1]) = {})
    BY <2>1, <2>3, <1>12
  <2>5. IF Len(Body) < MessageFixedSize \/ Body[2].time < 0 \/ FindTopic(Body[1]) = {}
        THEN Corrupt
        ELSE rd' = [Past EXCEPT !.pc = "message",
                      !.got = Append(@, [topic |-> Body[1], time |-> Body[2].time,
                                         sequence |-> Body[2].sequence,
                                         payload |-> SubSeq(Body, MessageFixedSize + 1, Len(Body))])]
    BY DEF ReadMessage
  <2>6. [topic |-> Body[1], time |-> Body[2].time, sequence |-> Body[2].sequence,
         payload |-> SubSeq(Body, MessageFixedSize + 1, Len(Body))] = m
    <3>1. [topic |-> m.topic, time |-> m.time, sequence |-> m.sequence, payload |-> m.payload] = m
      BY DEF Messages
    <3> QED BY <3>1, <2>1, <2>2, <1>11, Zenon
  <2> QED BY <2>4, <2>5, <2>6, Zenon
<1>14. PICK got \in Seq(Messages) : got = Append(rd.got, m)
  <2>1. Append(rd.got, m) \in Seq(Messages)
    BY <1>0, AppendProperties
  <2> QED BY <2>1
<1>15. Len(got) = j /\ got[j] = m /\ \A i \in 1 .. Len(rd.got) : got[i] = rd.got[i]
  BY <1>0, <1>3, <1>14, AppendProperties
<1>16. /\ Past \in ReaderRecords /\ Past.position = B[Place + 1] /\ Past.topics = rd.topics /\ Past.got = rd.got
       /\ Past.size = rd.size /\ Past.flushed = rd.flushed /\ Past.complete = rd.complete
       /\ Past.position <= Len(file)
  BY <1>1, PastFacts
<1>17. rd' = [Past EXCEPT !.pc = "message", !.got = got]
  BY <1>13, <1>14, <1>16
<1>18. /\ rd' \in ReaderRecords /\ rd'.topics = rd.topics /\ rd'.got = got /\ rd'.position = B[Place + 1]
       /\ rd'.size = rd.size /\ rd'.flushed = rd.flushed /\ rd'.complete = rd.complete /\ rd'.pc = "message"
  BY <1>16, <1>17 DEF ReaderRecords
<1>19. Place' = Place + 1
  <2>1. PICK a \in Nat : a = Len(rd.topics)
    BY <1>0
  <2>2. PICK b \in Nat : b = Len(rd.got)
    BY <1>0
  <2>3. Place = a + b + 1 /\ Place' = a + j + 1 /\ j = b + 1
    BY <2>1, <2>2, <1>3, <1>15, <1>18 DEF Place
  <2> QED BY <2>3
<1>20. ASSUME NEW i \in 1 .. j PROVE got[i] = out.log[i]
  <2>1. CASE i \in 1 .. Len(rd.got)
    BY <2>1, <1>15 DEF Reading
  <2>2. CASE i = j
    BY <2>2, <1>6, <1>15
  <2> QED BY <2>1, <2>2, <1>0, <1>3
<1>21. Len(got) <= Len(out.log) /\ Len(got) # 0
  BY <1>3, <1>4, <1>15
<1> QED BY <1>5, <1>15, <1>16, <1>18, <1>19, <1>20, <1>21 DEF Reading

\* A record that is read leaves the reader where it should be.
LEMMA ReadRecordKeeps ==
  ASSUME NEW W, NEW B, NEW n, Stream(W, B, n), Reading(B), UNCHANGED <<file, out>>, ReadRecord
  PROVE  Reading(B)'
<1>1. CASE ReadUnknown
  <2>1. Whole(W, B) /\ Kind \notin {"topic", "message"}
    BY <1>1, WholeRecord DEF ReadUnknown
  <2>2. Kind = "topic" \/ Kind = "message"
    BY <2>1, KindFacts DEF TopicAt, MessageAt
  <2> QED BY <2>1, <2>2
<1> QED BY <1>1, ReadEndKeeps, ReadTopicKeeps, ReadMessageKeeps DEF ReadRecord

\* The fields of a reader that opened a file.
Opened(r, z, f, c) ==
  /\ r \in ReaderRecords /\ r.topics = <<>> /\ r.got = <<>> /\ r.position = 2 /\ r.size = z
  /\ r.flushed = f /\ r.complete = c /\ r.pc = "next"

\* The reader that opened a file has those fields.
LEMMA OpenRecord ==
  ASSUME NEW z \in Nat, NEW f \in Nat, NEW c \in BOOLEAN
  PROVE  Opened([NoReader EXCEPT !.pc = "next", !.status = "Ok", !.size = z, !.flushed = f, !.complete = c], z, f, c)
<1> DEFINE r == [NoReader EXCEPT !.pc = "next", !.status = "Ok", !.size = z, !.flushed = f, !.complete = c]
<1>1. Len(FileHeader) = 2
  BY DEF FileHeader
<1>2. <<>> \in Seq(Entries) /\ <<>> \in Seq(Messages)
  BY EmptySeq
<1>3. NoReader.topics = <<>> /\ NoReader.got = <<>> /\ NoReader.position = 2
  BY <1>1 DEF NoReader
<1>4. NoReader \in [pc : {"closed"}, status : {"Ok"}, size : Nat, position : Nat, topics : Seq(Entries),
                   got : Seq(Messages), truncated : BOOLEAN, flushed : Nat, complete : BOOLEAN]
  BY <1>1, <1>2 DEF NoReader
<1>5. /\ r \in ReaderRecords /\ r.topics = NoReader.topics /\ r.got = NoReader.got /\ r.position = NoReader.position
      /\ r.size = z /\ r.flushed = f /\ r.complete = c /\ r.pc = "next"
  BY <1>4 DEF ReaderRecords
<1> HIDE DEF r
<1>6. Opened(r, z, f, c)
  BY <1>3, <1>5 DEF Opened
<1> QED BY <1>6 DEF r

\* A reader opens what was written, or finds not even a header, and then
\* nothing had been flushed.
LEMMA OpenKeeps ==
  ASSUME NEW W, NEW B, NEW n, Stream(W, B, n), UNCHANGED <<file, out>>, OpenReader
  PROVE  ReaderInv(B)'
<1>0. /\ file \in Seq(Cells) /\ Len(file) \in Nat /\ out.flushed \in Nat /\ out.closed \in BOOLEAN /\ out.topics \in Nat
      /\ Len(out.log) \in Nat /\ n \in Nat /\ B \in [1 .. n + 1 -> Nat]
  BY WriterTypes DEF Stream, WriterRecords
<1>1. file # None
  BY <1>0, FileAssumption
<1>3. /\ B[1] = 2 /\ B[n + 1] = Len(W) /\ W[1] = FileHeader[1] /\ W[2] = FileHeader[2] /\ Len(W) \in Nat
      /\ \A i, j \in 1 .. n + 1 : i <= j => B[i] <= B[j]
  BY WriterTypes DEF Stream, Layout
<1>4. Len(W) >= 2
  <2>1. 1 \in 1 .. n + 1 /\ n + 1 \in 1 .. n + 1 /\ 1 <= n + 1
    BY <1>0
  <2>2. B[1] <= B[n + 1]
    BY <2>1, <1>3
  <2> QED BY <2>2, <1>3
<1>5. CASE Len(file) >= 2
  <2>1. file[1] = W[1] /\ file[2] = W[2]
    <3>1. 1 \in 1 .. Len(file) /\ 2 \in 1 .. Len(file)
      BY <1>0, <1>5
    <3> QED BY <3>1, OnDisk DEF Agree
  <2>2. Recognised /\ file[2] = FileHeader[2]
    BY <2>1, <1>3, <1>5 DEF Recognised
  <2>3. OpenStatus = "Ok"
    BY <2>2, <1>1, Zenon DEF OpenStatus
  <2>4. rd' = [NoReader EXCEPT !.pc = "next", !.status = "Ok", !.size = Len(file),
                               !.flushed = out.flushed, !.complete = out.closed]
    BY <2>3, <1>1 DEF OpenReader
  <2>5. /\ rd' \in ReaderRecords /\ rd'.topics = <<>> /\ rd'.got = <<>> /\ rd'.position = 2 /\ rd'.size = Len(file)
        /\ rd'.flushed = out.flushed /\ rd'.complete = out.closed /\ rd'.pc = "next"
    <3>1. Opened(rd', Len(file), out.flushed, out.closed)
      BY <2>4, <1>0, OpenRecord
    <3> QED BY <3>1 DEF Opened
  <2>6. Len(rd'.topics) = 0 /\ Len(rd'.got) = 0
    BY <2>5, EmptySeq
  <2>7. Place' = 1
    BY <2>6 DEF Place
  <2>8. /\ out.flushed <= Len(out.log) /\ (out.flushed # 0 => B[out.topics + out.flushed + 1] <= Len(file))
    BY FlushedWhere
  <2>9. /\ Len(rd'.topics) <= out.topics /\ Len(rd'.got) <= Len(out.log)
        /\ \A i \in 1 .. Len(rd'.topics) : rd'.topics[i].id = i
        /\ \A j \in 1 .. Len(rd'.got) : rd'.got[j] = out.log[j]
    BY <2>6, <1>0
  <2>10. Reading(B)'
    BY <2>5, <2>6, <2>7, <2>8, <2>9, <1>0, <1>3, <1>5 DEF Reading
  <2> QED BY <2>10 DEF ReaderInv
<1>6. CASE ~(Len(file) >= 2)
  <2>1. ~Recognised
    BY <1>6 DEF Recognised
  <2>2. OpenStatus = "InvalidArgument"
    BY <2>1, <1>1, Zenon DEF OpenStatus
  <2>3. out.flushed = 0 /\ out.closed = FALSE
    <3>1. out.closed = FALSE
      BY <1>0, <1>4, <1>6, OnDisk
    <3>2. out.flushed = 0
      <4>1. SUFFICES ASSUME out.flushed # 0 PROVE FALSE
        OBVIOUS
      <4>2. PICK f \in 1 .. n + 1 : f = out.topics + out.flushed + 1 /\ B[f] \in Nat /\ B[f] <= Len(file)
        BY <4>1, FlushedWhere
      <4>3. B[1] <= B[f]
        <5>1. 1 \in 1 .. n + 1 /\ 1 <= f
          BY <1>0
        <5> QED BY <5>1, <1>3
      <4> QED BY <4>2, <4>3, <1>0, <1>3, <1>6
    <3> QED BY <3>1, <3>2
  <2>4. rd' = [NoReader EXCEPT !.pc = "ended", !.status = "InvalidArgument", !.size = Len(file),
                               !.flushed = out.flushed, !.complete = out.closed]
    BY <2>2, <1>1 DEF OpenReader
  <2>5. Refused'
    <3>1. Len(FileHeader) = 2
      BY DEF FileHeader
    <3> QED BY <3>1, <2>3, <2>4, <1>0, <1>6 DEF Refused, NoReader
  <2> QED BY <2>5 DEF ReaderInv
<1> QED BY <1>5, <1>6

\* A reader goes on to the next record.
LEMMA NextKeeps ==
  ASSUME NEW B, ReaderInv(B), rd.pc = "message", rd' = [rd EXCEPT !.pc = "next"], UNCHANGED <<file, out>>
  PROVE  ReaderInv(B)'
<1>1. Reading(B)
  BY DEF ReaderInv, Refused, NoReader
<1>2. /\ rd' \in ReaderRecords /\ rd'.topics = rd.topics /\ rd'.got = rd.got /\ rd'.position = rd.position
      /\ rd'.size = rd.size /\ rd'.flushed = rd.flushed /\ rd'.complete = rd.complete /\ rd'.pc = "next"
  BY <1>1 DEF Reading, ReaderRecords
<1>3. Place' = Place
  BY <1>2 DEF Place
<1>4. Reading(B)'
  BY <1>1, <1>2, <1>3 DEF Reading
<1> QED BY <1>4 DEF ReaderInv
-----------------------------------------------------------------------------
(* How the processes go together *)

\* Where the recorder holds a file that it writes.
WritingPoints == {"subscribe", "round", "scan", "read", "wait", "close"}

\* A player reads once it has opened its file, and holds a message it has read.
PlayerLinks ==
  /\ "pc" \in DOMAIN player
  /\ player.pc \in {"off", "start"} => rd = NoReader
  /\ player.pc \in {"message", "pace"} => rd.pc = "message"

\* A recorder that has not started holds no file, and nobody reads one; it
\* writes to an open file, and declares topics before it writes messages.
WriterLinks ==
  /\ Recording("start") => ~out.open /\ player.pc \in {"off", "start"}
  /\ ~out.open => out.buffer = <<>>
  /\ world.command = "record" => tool.pc # "listen"
  /\ world.command = "record" /\ tool.pc \in WritingPoints => out.open /\ ~out.closed
  /\ Recording("subscribe") => out.log = <<>>

LinksInv == PlayerLinks /\ WriterLinks

\* What a recorder has written is a stream, and the reader is somewhere in it.
StreamsInv == out.open => \E W, B, n : Stream(W, B, n) /\ ReaderInv(B)

Inv == ToolInv /\ LinksInv /\ StreamsInv

\* Nothing changes for the files, and the command stays where it is.
LEMMA LinksStay ==
  ASSUME LinksInv, UNCHANGED <<world, out, rd, player>>, tool'.pc = tool.pc PROVE LinksInv'
BY DEF LinksInv, PlayerLinks, WriterLinks, Recording

\* The recorder goes on, or ends.
LEMMA LinksMove ==
  ASSUME LinksInv, UNCHANGED <<world, rd, player>>, out'.open, tool'.pc \notin {"start", "listen"},
         tool'.pc \in WritingPoints => ~out'.closed, tool'.pc = "subscribe" => out'.log = <<>>
  PROVE  LinksInv'
BY DEF LinksInv, PlayerLinks, WriterLinks, Recording

\* The steps of echo and hz are not about recordings.
LEMMA LinksElsewhere ==
  ASSUME LinksInv, UNCHANGED <<world, out, rd, player>>, world.command # "record" PROVE LinksInv'
BY DEF LinksInv, PlayerLinks, WriterLinks, Recording

\* The player goes on, and the recorder has started before.
LEMMA LinksPlay ==
  ASSUME LinksInv, UNCHANGED <<world, out, tool>>, ~Recording("start"), PlayerLinks' PROVE LinksInv'
BY DEF LinksInv, WriterLinks, Recording

\* A recording that nobody writes or reads stays as it is.
LEMMA StreamsStay == ASSUME StreamsInv, UNCHANGED recVars PROVE StreamsInv'
<1>1. UNCHANGED <<file, out, rd>>
  BY DEF recVars
<1>2. ASSUME NEW W, NEW B, NEW n, Stream(W, B, n), ReaderInv(B) PROVE Stream(W, B, n)' /\ ReaderInv(B)'
  <2>1. Stream(W, B, n)'
    BY <1>1, <1>2 DEF Stream, Records
  <2>2. ReaderInv(B)'
    BY <1>1, <1>2 DEF ReaderInv, Reading, Refused, Place, CutReported
  <2> QED BY <2>1, <2>2
<1> QED BY <1>1, <1>2 DEF StreamsInv

\* The reader stays in a recording that is written.
LEMMA StreamsMove ==
  ASSUME NEW W, NEW B, NEW n, Stream(W, B, n), ReaderInv(B), Moves(B), UNCHANGED rd PROVE StreamsInv'
<1>1. PICK V, C, m : Stream(V, C, m)' /\ Kept(B, C)
  BY DEF Moves
<1>2. ReaderInv(C)'
  BY <1>1, ReaderStays
<1> QED BY <1>1, <1>2 DEF StreamsInv

\* The stream stays open until it is closed, whatever happens to it.
LEMMA OpenStays ==
  ASSUME out \in WriterRecords, NEW cells, NEW topic, NEW m,
         Spill \/ Flush \/ StreamFails(cells) \/ WriterDies \/ AddTopic(topic) \/ Write(m)
  PROVE  out'.open = out.open /\ out'.closed = out.closed
<1>1. CASE Spill \/ Flush \/ WriterDies
  BY <1>1 DEF Spill, Flush, WriterDies, WriterRecords
<1>2. CASE StreamFails(cells)
  BY <1>2 DEF StreamFails, WriterRecords
<1>3. CASE AddTopic(topic) \/ Write(m)
  BY <1>3 DEF AddTopic, Write, StreamWrites, WriterRecords
<1> QED BY <1>1, <1>2, <1>3

\* The recorder writes a stream.
LEMMA WriterHolds ==
  ASSUME Inv, world.command = "record", tool.pc \in WritingPoints
  PROVE  out.open /\ ~out.closed /\ \E W, B, n : Stream(W, B, n) /\ ReaderInv(B)
BY DEF Inv, LinksInv, WriterLinks, StreamsInv

\* The recorder replaces a file that nobody reads.
LEMMA RecordCreateKeeps == ASSUME Inv, RecordCreate PROVE Inv'
<1>0. /\ Recording("start") /\ UNCHANGED <<world, rd, player>> /\ ~out.open
      /\ player.pc \in {"off", "start"} /\ rd = NoReader /\ tool \in ToolRecords
  BY DEF Inv, ToolInv, ToolOK, LinksInv, WriterLinks, PlayerLinks, RecordCreate, envVars
<1>1. ToolInv'
  BY RecordCreateKeepsTool DEF Inv
<1>2. CASE CreateRecording /\ tool' = [tool EXCEPT !.pc = "subscribe"]
  <2>1. out'.open /\ ~out'.closed /\ out'.log = <<>>
    BY <1>2 DEF CreateRecording, NoWriter
  <2>2. tool'.pc = "subscribe"
    BY <1>0, <1>2 DEF ToolRecords
  <2>3. LinksInv'
    BY <2>1, <2>2, <1>0, LinksMove DEF Inv
  <2>4. PICK W, B, n : Stream(W, B, n)'
    BY <1>2, CreateStarts
  <2>5. ReaderInv(B)'
    BY <1>0 DEF ReaderInv
  <2> QED BY <1>1, <2>3, <2>4, <2>5 DEF Inv, StreamsInv
<1>3. CASE UNCHANGED <<file, out>> /\ tool' = [tool EXCEPT !.pc = "exited", !.exit = 1]
  <2>1. tool'.pc = "exited"
    BY <1>0, <1>3 DEF ToolRecords
  <2>2. LinksInv'
    BY <2>1, <1>0, <1>3 DEF Inv, LinksInv, PlayerLinks, WriterLinks, Recording, WritingPoints
  <2>3. StreamsInv'
    BY <1>0, <1>3 DEF StreamsInv
  <2> QED BY <1>1, <2>2, <2>3 DEF Inv
<1> QED BY <1>2, <1>3 DEF RecordCreate

\* A topic is declared, or the stream fails, or the topic cannot be read.
LEMMA RecordSubscribeKeeps == ASSUME Inv, RecordSubscribe PROVE Inv'
<1> DEFINE topic == RecordedAs(world.topics[tool.at])
<1>0. /\ Recording("subscribe") /\ tool.at <= Len(world.topics) /\ UNCHANGED <<world, rd, player>>
      /\ out.log = <<>> /\ tool \in ToolRecords /\ world \in Worlds
  BY DEF Inv, ToolInv, ToolOK, LinksInv, WriterLinks, RecordSubscribe, envVars
<1>1. PICK W, B, n : Stream(W, B, n) /\ ReaderInv(B) /\ out.open /\ ~out.closed
  BY <1>0, WriterHolds DEF Recording, WritingPoints
<1>2. out.topics \in Nat /\ out \in WriterRecords
  BY <1>1, WriterTypes DEF Stream
<1>3. ToolInv'
  BY <1>2, RecordSubscribeKeepsTool DEF Inv
<1>4. topic \in Declared
  <2>1. tool.at \in Nat \ {0} /\ Len(world.topics) \in Nat /\ DOMAIN world.topics = 1 .. Len(world.topics)
    BY <1>0, TopicToolAssumption DEF ToolRecords
  <2>2. tool.at \in DOMAIN world.topics
    BY <2>1, <1>0
  <2>3. world.topics[tool.at] \in Range(world.topics)
    BY <2>2 DEF Range
  <2> QED BY <2>3, <1>0 DEF Declared
<1> HIDE DEF topic
<1>5. /\ AddTopic(topic) \/ StreamFails(TopicRecord(out.topics + 1, topic))
      /\ (tool' = [tool EXCEPT !.at = @ + 1] /\ AddTopic(topic)) \/ Leave(1)
  BY DEF RecordSubscribe, DiskFails, topic
<1>6. Moves(B)
  <2>1. CASE AddTopic(topic)
    BY <2>1, <1>0, <1>1, <1>4, AddTopicMoves
  <2>2. CASE StreamFails(TopicRecord(out.topics + 1, topic))
    <3>1. PICK id \in Nat : id = out.topics + 1
      BY <1>2
    <3>2. <<id, topic>> \in Seq(Cells) /\ TopicRecord(id, topic) = Record("topic", <<id, topic>>) /\ "topic" \in Words
      BY <1>4, TopicBody
    <3>3. StreamFails(Record("topic", <<id, topic>>))
      BY <2>2, <3>1, <3>2
    <3> QED BY <3>2, <3>3, <1>1, RecordFails
  <2> QED BY <1>5, <2>1, <2>2
<1>7. out'.open /\ ~out'.closed
  BY <1>1, <1>2, <1>5, OpenStays
<1>8. tool'.pc \notin {"start", "listen"} /\ (tool'.pc = "subscribe" => out'.log = <<>>)
  <2>1. CASE Leave(1)
    BY <2>1, <1>0 DEF Leave, ToolRecords
  <2>2. CASE tool' = [tool EXCEPT !.at = @ + 1] /\ AddTopic(topic)
    <3>1. tool'.pc = "subscribe"
      BY <2>2, <1>0 DEF ToolRecords, Recording
    <3>2. out'.log = out.log
      BY <2>2, <1>2 DEF AddTopic, StreamWrites, WriterRecords
    <3> QED BY <3>1, <3>2, <1>0
  <2> QED BY <1>5, <2>1, <2>2
<1>9. LinksInv'
  BY <1>0, <1>7, <1>8, LinksMove DEF Inv
<1> QED BY <1>0, <1>1, <1>3, <1>6, <1>9, StreamsMove DEF Inv

\* The recorder goes from one point to the next and leaves the file alone.
LEMMA RecorderWalks ==
  ASSUME Inv, RecordStart \/ RecordRound \/ RecordScan \/ RecordWait PROVE Inv'
<1>0. /\ world.command = "record" /\ tool.pc \in WritingPoints /\ UNCHANGED <<world, rd, player, out, recVars>>
      /\ tool \in ToolRecords
  BY DEF Inv, ToolInv, ToolOK, RecordStart, RecordRound, RecordScan, RecordWait, Recording, WritingPoints, envVars, recVars
<1>1. ToolInv'
  BY RecordStartKeepsTool, RecordRoundKeepsTool, RecordScanKeepsTool, RecordWaitKeepsTool DEF Inv
<1>2. tool'.pc \in WritingPoints \ {"subscribe"}
  BY <1>0 DEF RecordStart, RecordRound, RecordScan, RecordWait, Leave, ToolRecords, WritingPoints, Recording
<1>3. tool'.pc \notin {"start", "listen", "subscribe"}
  BY <1>2 DEF WritingPoints
<1>4. out.open /\ ~out.closed
  BY <1>0, WriterHolds
<1>5. LinksInv'
  BY <1>0, <1>3, <1>4, LinksMove DEF Inv
<1> QED BY <1>0, <1>1, <1>5, StreamsStay DEF Inv

\* What the recorder reads from a topic is a message that can be written.
LEMMA ReadMessages ==
  ASSUME ToolInv, Recording("read"), NEW t, t = world.topics[tool.at].name, NEW stamp \in Stamps(t)
  PROVE  [topic |-> chan[t].id, time |-> Max({0, stamp - tool.started}), sequence |-> SequenceOf(t),
          payload |-> Payload(NextSequence(t))] \in Messages
<1>1. tool.at \in 1 .. Len(world.topics) /\ Ready(t) /\ tool.started \in Nat /\ clock \in Nat
  <2>1. tool.at <= Len(world.topics) /\ Ready(t) /\ tool.started \in Nat /\ clock \in Nat /\ tool.at \in Nat \ {0}
    BY DEF ToolInv, ToolOK, ToolRecords, ReadingInv
  <2>2. Len(world.topics) \in Nat
    BY TopicFacts DEF ToolInv, ToolOK
  <2> QED BY <2>1, <2>2
<1>2. t \in Names
  BY <1>1, TopicFacts DEF ToolInv, ToolOK
<1>3. PICK s \in Nat : s = NextSequence(t) /\ s > chan[t].cursor /\ s <= Len(bus[t])
  BY <1>1, <1>2, PendingFacts DEF ToolInv, CountsInv
<1>4. chan[t].id \in Nat /\ chan[t].cursor \in Nat /\ chan[t].received \in Nat /\ bus[t] \in Seq(Nat)
  BY <1>2 DEF ToolInv, ToolOK, ChannelRecords
<1>5. bus[t][s] \in Nat
  <2>1. s \in 1 .. Len(bus[t])
    BY <1>3, <1>4
  <2> QED BY <2>1, <1>4, ElementOfSeq
<1>6. stamp \in Nat
  <2>1. stamp = bus[t][s] \/ stamp \in bus[t][s] .. clock
    BY <1>3 DEF Stamps
  <2> QED BY <2>1, <1>1, <1>5
<1>7. PICK d \in Int : d = stamp - tool.started
  BY <1>1, <1>6
<1>8. Max({0, stamp - tool.started}) \in Nat
  <2>1. Max({0, d}) = IF 0 >= d THEN 0 ELSE d
    BY MaxOfTwo
  <2> QED BY <2>1, <1>7
<1>9. SequenceOf(t) \in Nat
  BY <1>3, <1>4 DEF SequenceOf
<1>10. Payload(NextSequence(t)) \in Seq(Nat)
  BY <1>3 DEF Payload
<1> QED BY <1>4, <1>8, <1>9, <1>10 DEF Messages

\* The message that was read is written, or the stream fails.
LEMMA RecordReadKeeps == ASSUME Inv, RecordRead PROVE Inv'
<1>0. Recording("read") /\ UNCHANGED <<world, rd, player>> /\ tool \in ToolRecords
  BY DEF Inv, ToolInv, ToolOK, RecordRead, envVars
<1>1. PICK W, B, n : Stream(W, B, n) /\ ReaderInv(B) /\ out.open /\ ~out.closed
  BY <1>0, WriterHolds DEF Recording, WritingPoints
<1>2. out \in WriterRecords
  BY <1>1 DEF Stream
<1>3. ToolInv'
  BY RecordReadKeepsTool DEF Inv
<1>4. tool'.pc \in {"scan", "close"}
  BY <1>0 DEF RecordRead, Leave, ToolRecords
<1>5. CASE UNCHANGED <<file, out>>
  <2>1. LinksInv'
    BY <1>0, <1>1, <1>4, <1>5, LinksMove DEF Inv
  <2> QED BY <1>0, <1>3, <1>5, <2>1, StreamsStay DEF Inv, recVars
<1>6. CASE ~UNCHANGED <<file, out>>
  <2>1. PICK m \in Messages : Write(m) \/ StreamFails(MessageRecord(m))
    <3> DEFINE t == world.topics[tool.at].name
               Message(stamp) == [topic |-> chan[t].id, time |-> Max({0, stamp - tool.started}),
                                  sequence |-> SequenceOf(t), payload |-> Payload(NextSequence(t))]
    <3>1. PICK stamp \in Stamps(t) : Write(Message(stamp)) \/ StreamFails(MessageRecord(Message(stamp)))
      BY <1>6, Zenon DEF RecordRead, DiskFails
    <3>2. Message(stamp) \in Messages
      BY <1>0, ReadMessages DEF Inv
    <3> HIDE DEF Message
    <3> QED BY <3>1, <3>2
  <2>2. Moves(B)
    <3>1. CASE Write(m)
      BY <3>1, <1>1, WriteMoves
    <3>2. CASE StreamFails(MessageRecord(m))
      <4>1. BodyOf(m) \in Seq(Cells) /\ MessageRecord(m) = Record("message", BodyOf(m)) /\ "message" \in Words
        BY MessageBody DEF IsBodyOf
      <4>2. StreamFails(Record("message", BodyOf(m)))
        BY <3>2, <4>1
      <4> QED BY <4>1, <4>2, <1>1, RecordFails
    <3> QED BY <2>1, <3>1, <3>2
  <2>3. out'.open /\ ~out'.closed
    BY <1>1, <1>2, <2>1, OpenStays
  <2>4. LinksInv'
    BY <1>0, <1>4, <2>3, LinksMove DEF Inv
  <2> QED BY <1>0, <1>1, <1>3, <2>2, <2>4, StreamsMove DEF Inv
<1> QED BY <1>5, <1>6

\* The end of a round flushes when it is time to.
LEMMA RecordRoundEndKeeps == ASSUME Inv, RecordRoundEnd PROVE Inv'
<1>0. /\ Recording("scan") /\ UNCHANGED <<world, rd, player>> /\ tool \in ToolRecords
      /\ UNCHANGED <<file, out>> \/ Flush \/ StreamFails(<<>>)
  BY DEF Inv, ToolInv, ToolOK, RecordRoundEnd, envVars, DiskFails
<1>1. PICK W, B, n : Stream(W, B, n) /\ ReaderInv(B) /\ out.open /\ ~out.closed
  BY <1>0, WriterHolds DEF Recording, WritingPoints
<1>2. out \in WriterRecords
  BY <1>1 DEF Stream
<1>3. ToolInv'
  BY RecordRoundEndKeepsTool DEF Inv
<1>4. tool'.pc \in {"round", "wait", "close"}
  BY <1>0 DEF RecordRoundEnd, AfterRound, Leave, ToolRecords
<1>5. out'.open /\ ~out'.closed
  <2>1. CASE UNCHANGED <<file, out>>
    BY <2>1, <1>1
  <2>2. CASE Flush \/ StreamFails(<<>>)
    BY <2>2, <1>1, <1>2, OpenStays
  <2> QED BY <1>0, <2>1, <2>2
<1>6. LinksInv'
  BY <1>0, <1>4, <1>5, LinksMove DEF Inv
<1>7. CASE UNCHANGED <<file, out>>
  BY <1>0, <1>3, <1>6, <1>7, StreamsStay DEF Inv, recVars
<1>8. CASE Flush \/ StreamFails(<<>>)
  <2>1. Moves(B)
    BY <1>1, <1>8, FlushMoves, FlushFails
  <2> QED BY <1>0, <1>1, <1>3, <1>6, <2>1, StreamsMove DEF Inv
<1> QED BY <1>0, <1>7, <1>8

\* The recorder closes its file, or fails to.
LEMMA RecordCloseKeeps == ASSUME Inv, RecordClose PROVE Inv'
<1>0. /\ Recording("close") /\ UNCHANGED <<world, rd, player>> /\ tool \in ToolRecords
      /\ CloseWriter \/ StreamFails(<<>>)
  BY DEF Inv, ToolInv, ToolOK, RecordClose, envVars, DiskFails
<1>1. PICK W, B, n : Stream(W, B, n) /\ ReaderInv(B) /\ out.open /\ ~out.closed
  BY <1>0, WriterHolds DEF Recording, WritingPoints
<1>2. out \in WriterRecords
  BY <1>1 DEF Stream
<1>3. ToolInv'
  BY RecordCloseKeepsTool DEF Inv
<1>4. tool'.pc = "exited"
  BY <1>0 DEF RecordClose, ToolRecords
<1>5. out'.open
  BY <1>0, <1>1, <1>2 DEF CloseWriter, StreamFails, WriterRecords
<1>6. LinksInv'
  BY <1>0, <1>4, <1>5, LinksMove DEF Inv, WritingPoints
<1>7. Moves(B)
  BY <1>0, <1>1, FlushMoves, FlushFails
<1> QED BY <1>0, <1>1, <1>3, <1>6, <1>7, StreamsMove DEF Inv

\* Some of the buffer of a recorder reaches the disk.
LEMMA RecordSpillKeeps == ASSUME Inv, RecordSpill PROVE Inv'
<1>0. ~out.bad /\ Spill /\ out.buffer # <<>> /\ UNCHANGED <<clock, world, bus, news, stopped, tool, chan, rd, player>>
  BY DEF RecordSpill, Spill, envVars, toolVars
<1>1. out.open
  BY <1>0 DEF Inv, LinksInv, WriterLinks
<1>2. PICK W, B, n : Stream(W, B, n) /\ ReaderInv(B)
  BY <1>1 DEF Inv, StreamsInv
<1>3. ~out.closed /\ out \in WriterRecords
  BY <1>0, <1>2 DEF Stream
<1>4. Moves(B)
  BY <1>0, <1>2, <1>3, SpillMoves
<1>5. out'.open = out.open /\ out'.closed = out.closed /\ out'.log = out.log
  <2>1. PICK k : out' = [out EXCEPT !.buffer = SubSeq(@, k + 1, Len(@))]
    BY <1>0 DEF Spill
  <2> QED BY <2>1, <1>3 DEF WriterRecords
<1>6. LinksInv'
  BY <1>0, <1>1, <1>5 DEF Inv, LinksInv, PlayerLinks, WriterLinks, Recording
<1>7. ToolInv'
  BY <1>0, OthersKeepTool DEF Inv
<1> QED BY <1>0, <1>2, <1>4, <1>6, <1>7, StreamsMove DEF Inv

\* The recorder is killed.
LEMMA RecorderKilledKeeps == ASSUME Inv, RecorderKilled PROVE Inv'
<1>0. /\ world.command = "record" /\ UNCHANGED <<world, rd, player>> /\ tool \in ToolRecords /\ WriterDies
      /\ tool.pc \notin {"off", "start", "exited", "killed", "listen"}
  BY DEF Inv, ToolInv, ToolOK, LinksInv, WriterLinks, RecorderKilled, envVars
<1>1. tool.pc \in WritingPoints
  BY <1>0 DEF ToolRecords, ToolPoints, WritingPoints
<1>2. PICK W, B, n : Stream(W, B, n) /\ ReaderInv(B) /\ out.open /\ ~out.closed
  BY <1>0, <1>1, WriterHolds
<1>3. out \in WriterRecords
  BY <1>2 DEF Stream
<1>4. ToolInv'
  BY RecorderKilledKeepsTool DEF Inv
<1>5. tool'.pc = "killed"
  BY <1>0 DEF RecorderKilled, ToolRecords
<1>6. out'.open
  BY <1>0, <1>2, <1>3, OpenStays
<1>7. LinksInv'
  BY <1>0, <1>5, <1>6, LinksMove DEF Inv, WritingPoints
<1>8. Moves(B)
  BY <1>0, <1>2, WriterDiesMoves
<1> QED BY <1>0, <1>2, <1>4, <1>7, <1>8, StreamsMove DEF Inv

\* echo and hz.
LEMMA ListenersKeep ==
  ASSUME Inv, Listen \/ EchoNext \/ EchoEnd \/ HzNext \/ HzStopped PROVE Inv'
<1>0. UNCHANGED recVars /\ UNCHANGED <<world, player>> /\ world.command \in {"echo", "hz"}
  BY DEF Listen, EchoNext, EchoEnd, HzNext, HzStopped, envVars, Listening
<1>1. ToolInv'
  BY ListenKeepsTool, EchoNextKeepsTool, EchoEndKeepsTool, HzNextKeepsTool DEF Inv
<1>2. LinksInv'
  BY <1>0, LinksElsewhere DEF Inv, recVars
<1> QED BY <1>0, <1>1, <1>2, StreamsStay DEF Inv

\* Time, publishers, callbacks and signals.
LEMMA SurroundingsKeep ==
  ASSUME Inv, Tick \/ (\E t \in Names : Publish(t) \/ Notify(t)) \/ (\E p \in {"tool", "player"} : Signal(p))
  PROVE  Inv'
<1>0. UNCHANGED recVars /\ UNCHANGED <<world, player>>
  BY DEF Tick, Publish, Notify, Signal
<1>1. ToolInv'
  BY TickKeepsTool, PublishKeepsTool, NotifyKeepsTool, SignalKeepsTool DEF Inv
<1>2. tool'.pc = tool.pc
  <2>1. CASE UNCHANGED tool
    BY <2>1
  <2>2. CASE \E t \in Names : Notify(t)
    BY <2>2 DEF Notify, Inv, ToolInv, ToolOK, ToolRecords
  <2> QED BY <2>1, <2>2 DEF Tick, Publish, Signal, toolVars
<1>3. LinksInv'
  BY <1>0, <1>2, LinksStay DEF Inv, recVars
<1> QED BY <1>0, <1>1, <1>3, StreamsStay DEF Inv
-----------------------------------------------------------------------------
(* replay and info *)

\* A step of the player leaves the command and the writer alone.
LEMMA PlayerKeeps ==
  ASSUME Inv, UNCHANGED <<file, out>>, UNCHANGED envVars, UNCHANGED toolVars, ~Recording("start"), PlayerLinks',
         \A W, B, n : Stream(W, B, n) /\ ReaderInv(B) => ReaderInv(B)'
  PROVE  Inv'
<1>0. UNCHANGED <<clock, world, bus, news, stopped, tool, chan, file, out>>
  BY DEF envVars, toolVars
<1>1. ToolInv'
  BY <1>0, OthersKeepTool DEF Inv
<1>2. LinksInv'
  BY <1>0, LinksPlay DEF Inv
<1>3. ASSUME NEW W, NEW B, NEW n, Stream(W, B, n) PROVE Stream(W, B, n)'
  BY <1>0, <1>3 DEF Stream, Records
<1>4. StreamsInv'
  BY <1>0, <1>3 DEF Inv, StreamsInv
<1> QED BY <1>1, <1>2, <1>4 DEF Inv

\* The reader keeps its place when it does nothing.
LEMMA ReaderRests == ASSUME NEW B, ReaderInv(B), UNCHANGED <<file, out, rd>> PROVE ReaderInv(B)'
BY DEF ReaderInv, Reading, Refused, Place, CutReported

\* A player past its start, and the recorder is past its own.
LEMMA PlayerStarted ==
  ASSUME Inv, player.pc \notin {"off", "start"} PROVE ~Recording("start") /\ "pc" \in DOMAIN player
BY DEF Inv, LinksInv, PlayerLinks, WriterLinks

\* The player opens its file.
LEMMA PlayOpenKeeps == ASSUME Inv, PlayOpen PROVE Inv'
<1>0. UNCHANGED <<file, out>> /\ UNCHANGED envVars /\ UNCHANGED toolVars /\ OpenReader
  BY DEF PlayOpen
<1>1. ~Recording("start")
  BY DEF PlayOpen, Recording
<1>2. "pc" \in DOMAIN player
  BY DEF Inv, LinksInv, PlayerLinks
<1>3. PlayerLinks'
  <2>1. CASE player' = [player EXCEPT !.pc = "next"]
    BY <2>1, <1>2 DEF PlayerLinks
  <2>2. CASE PlayerExits(1)
    BY <2>2, <1>2 DEF PlayerLinks, PlayerExits
  <2> QED BY <2>1, <2>2 DEF PlayOpen
<1>4. ASSUME NEW W, NEW B, NEW n, Stream(W, B, n) PROVE ReaderInv(B)'
  BY <1>0, <1>4, OpenKeeps
<1> QED BY <1>0, <1>1, <1>3, <1>4, PlayerKeeps

\* The player reads a record.
LEMMA PlayNextKeeps == ASSUME Inv, PlayNext PROVE Inv'
<1>0. /\ UNCHANGED <<file, out>> /\ UNCHANGED envVars /\ UNCHANGED toolVars /\ ReadRecord
      /\ player.pc = "next" /\ rd.pc = "next"
  BY DEF PlayNext
<1>1. ~Recording("start") /\ "pc" \in DOMAIN player
  BY <1>0, PlayerStarted
<1>2. PlayerLinks'
  <2>1. CASE PlayerExits(1)
    BY <2>1, <1>1 DEF PlayerLinks, PlayerExits
  <2>2. CASE player' = [player EXCEPT !.pc = "finish"]
    BY <2>2, <1>1 DEF PlayerLinks
  <2>3. CASE rd'.pc = "message" /\ player' = [player EXCEPT !.pc = "message"]
    BY <2>3, <1>1 DEF PlayerLinks
  <2>4. CASE UNCHANGED player
    BY <2>4, <1>0, <1>1 DEF PlayerLinks
  <2> QED BY <2>1, <2>2, <2>3, <2>4 DEF PlayNext
<1>3. ASSUME NEW W, NEW B, NEW n, Stream(W, B, n), ReaderInv(B) PROVE ReaderInv(B)'
  <2>1. Reading(B)
    BY <1>0, <1>3 DEF ReaderInv, Refused, NoReader
  <2>2. Reading(B)'
    BY <2>1, <1>0, <1>3, ReadRecordKeeps
  <2> QED BY <2>2 DEF ReaderInv
<1> QED BY <1>0, <1>1, <1>2, <1>3, PlayerKeeps

\* The player is stopped, or finishes.
LEMMA PlayEndKeeps == ASSUME Inv, PlayStopped \/ PlayFinish PROVE Inv'
<1>0. /\ UNCHANGED <<file, out, rd>> /\ UNCHANGED envVars /\ UNCHANGED toolVars
      /\ player.pc \in {"next", "pace", "finish"}
  BY DEF PlayStopped, PlayFinish, recVars
<1>1. ~Recording("start") /\ "pc" \in DOMAIN player
  BY <1>0, PlayerStarted
<1>2. PlayerLinks'
  <2>1. CASE PlayStopped
    BY <2>1, <1>1 DEF PlayStopped, PlayerLinks
  <2>2. CASE PlayFinish
    <3>1. PICK code : player' = [player EXCEPT !.pc = "exited", !.exit = code]
      BY <2>2 DEF PlayFinish, PlayerExits
    <3> QED BY <3>1, <1>1 DEF PlayerLinks
  <2> QED BY <2>1, <2>2
<1>3. ASSUME NEW W, NEW B, NEW n, Stream(W, B, n), ReaderInv(B) PROVE ReaderInv(B)'
  BY <1>0, <1>3, ReaderRests
<1> QED BY <1>0, <1>1, <1>2, <1>3, PlayerKeeps

\* The player is done with a message and goes on, paces it, or fails.
LEMMA PlayMessageKeeps == ASSUME Inv, InfoMessage \/ ReplayMessage \/ ReplayWrite PROVE Inv'
<1>0. /\ UNCHANGED <<file, out>> /\ UNCHANGED envVars /\ UNCHANGED toolVars
      /\ player.pc \in {"message", "pace"}
  BY DEF InfoMessage, ReplayMessage, ReplayWrite
<1>1. ~Recording("start") /\ "pc" \in DOMAIN player /\ rd.pc = "message"
  BY <1>0, PlayerStarted DEF Inv, LinksInv, PlayerLinks
<1>2. \/ rd' = [rd EXCEPT !.pc = "next"] /\ player'.pc = "next" /\ "pc" \in DOMAIN player'
      \/ UNCHANGED rd /\ player'.pc \in {"pace", "exited"} /\ "pc" \in DOMAIN player'
  <2>1. CASE InfoMessage
    BY <2>1, <1>1 DEF InfoMessage, NextMessage
  <2>2. CASE ReplayMessage
    BY <2>2, <1>1 DEF ReplayMessage, NextMessage, PlayerExits
  <2>3. CASE ReplayWrite
    BY <2>3, <1>1 DEF ReplayWrite, PlayerExits
  <2> QED BY <2>1, <2>2, <2>3
<1>3. PlayerLinks'
  BY <1>1, <1>2 DEF PlayerLinks
<1>4. ASSUME NEW W, NEW B, NEW n, Stream(W, B, n), ReaderInv(B) PROVE ReaderInv(B)'
  BY <1>0, <1>1, <1>2, <1>4, ReaderRests, NextKeeps
<1> QED BY <1>0, <1>1, <1>3, <1>4, PlayerKeeps
-----------------------------------------------------------------------------
(* The invariant, and what follows from it *)

\* Nothing has been read, counted or written at the start.
LEMMA InitHolds == Init => Inv
<1> SUFFICES ASSUME Init PROVE Inv
  OBVIOUS
<1>1. /\ world \in Worlds /\ clock = 0 /\ out = NoWriter /\ rd = NoReader /\ bus = [t \in Names |-> <<>>]
      /\ news = {} /\ chan = [t \in Names |-> NoChannel]
  BY DEF Init
<1>2. tool \in ToolRecords /\ tool.pc \in {"off", "start"}
  <2>1. tool = [pc |-> IF world.command = None THEN "off" ELSE "start", at |-> 1, any |-> FALSE,
                seen |-> 0, wake |-> FALSE, started |-> 0, flush |-> 0, window |-> 0, total |-> 0, exit |-> None]
    BY DEF Init
  <2>2. PICK p \in {"off", "start"} : p = IF world.command = None THEN "off" ELSE "start"
    OBVIOUS
  <2>3. tool = [pc |-> p, at |-> 1, any |-> FALSE, seen |-> 0, wake |-> FALSE, started |-> 0, flush |-> 0,
                window |-> 0, total |-> 0, exit |-> None]
    BY <2>1, <2>2
  <2> QED BY <2>2, <2>3 DEF ToolRecords, ToolPoints
<1>3. NoChannel \in ChannelRecords
  BY DEF NoChannel, ChannelRecords
<1>4. ToolOK
  <2>1. bus \in [Names -> Seq(Nat)] /\ chan \in [Names -> ChannelRecords]
    BY <1>1, <1>3
  <2> QED BY <2>1, <1>1, <1>2 DEF ToolOK
<1>5. CountsInv
  <2> SUFFICES ASSUME NEW t \in Names PROVE Counted(t)
    BY DEF CountsInv
  <2>1. chan[t] = NoChannel /\ Len(bus[t]) = 0
    BY <1>1
  <2> QED BY <2>1 DEF Counted, Counts, NoChannel
<1>6. ReadingInv /\ AwakeInv
  BY <1>2 DEF ReadingInv, AwakeInv, Recording
<1>7. ~out.open /\ out.buffer = <<>> /\ out.log = <<>>
  BY <1>1 DEF NoWriter
<1>8. "pc" \in DOMAIN player /\ player.pc \in {"off", "start"}
  BY DEF Init
<1>9. LinksInv
  BY <1>1, <1>2, <1>7, <1>8 DEF LinksInv, PlayerLinks, WriterLinks, WritingPoints, Recording
<1> QED BY <1>4, <1>5, <1>6, <1>7, <1>9 DEF Inv, ToolInv, StreamsInv

\* Every step keeps the invariant.
LEMMA NextHolds == Inv /\ [Next]_vars => Inv'
<1> SUFFICES ASSUME Inv, [Next]_vars PROVE Inv'
  OBVIOUS
<1>1. CASE ToolStep
  BY <1>1, RecordCreateKeeps, RecordSubscribeKeeps, RecorderWalks, RecordReadKeeps, RecordRoundEndKeeps,
     RecordCloseKeeps, ListenersKeep DEF ToolStep
<1>2. CASE RecordSpill \/ RecorderKilled
  BY <1>2, RecordSpillKeeps, RecorderKilledKeeps
<1>3. CASE PlayerStep
  BY <1>3, PlayOpenKeeps, PlayNextKeeps, PlayEndKeeps, PlayMessageKeeps DEF PlayerStep
<1>4. CASE Tick \/ (\E t \in Names : Publish(t) \/ Notify(t)) \/ (\E p \in {"tool", "player"} : Signal(p))
  BY <1>4, SurroundingsKeep
<1>5. CASE UNCHANGED vars
  <2>1. UNCHANGED <<clock, world, bus, news, stopped, tool, chan, file, out, rd, player>>
    BY <1>5 DEF vars, recVars, envVars, toolVars
  <2>2. LinksInv'
    BY <2>1, LinksStay DEF Inv
  <2>3. ToolInv'
    BY <2>1, OthersKeepTool DEF Inv
  <2> QED BY <2>1, <2>2, <2>3, StreamsStay DEF Inv, recVars
<1> QED BY <1>1, <1>2, <1>3, <1>4, <1>5 DEF Next

\* The inductive invariant: the types, what is counted and who is woken, how
\* the processes go together, and what is on disk and read from it.
THEOREM ToolInvariant == Spec => []Inv
BY InitHolds, NextHolds, PTL DEF Spec

\* What was read is the beginning of what was written.
LEMMA ReadIsPrefix ==
  ASSUME NEW S, NEW s \in Seq(S), NEW t \in Seq(S), Len(s) <= Len(t), \A i \in 1 .. Len(s) : s[i] = t[i]
  PROVE  IsPrefix(s, t) /\ (Len(s) = Len(t) => s = t)
<1>1. Len(s) \in Nat /\ Len(t) \in Nat
  BY LenProperties
<1>2. \A i \in 1 .. Len(s) : i \in 1 .. Len(t)
  BY <1>1
<1>3. SubSeq(s, 1, Len(s)) = SubSeq(t, 1, Len(s))
  <2>1. /\ SubSeq(s, 1, Len(s)) = [i \in 1 .. Len(s) |-> s[i]]
        /\ SubSeq(t, 1, Len(s)) = [i \in 1 .. Len(s) |-> t[i]]
    BY <1>1, <1>2
  <2> QED BY <2>1
<1>4. Len(s) = Len(t) => s = t
  BY SeqEqual
<1> QED BY <1>3, <1>4 DEF IsPrefix

\* The topic of every message that was read is known to the reader.
LEMMA TopicsKnown ==
  ASSUME NEW W, NEW B, NEW n, Stream(W, B, n), Reading(B), NEW j \in 1 .. Len(rd.got)
  PROVE  FindTopic(rd.got[j].topic) # {}
<1>1. /\ Len(rd.got) \in Nat /\ Len(rd.topics) \in Nat /\ rd.topics \in Seq(Entries) /\ Len(out.log) \in Nat
  BY ReaderTypes, WriterTypes DEF Reading
<1>2. Len(rd.topics) = out.topics /\ rd.got[j] = out.log[j] /\ j \in 1 .. Len(out.log)
  BY <1>1 DEF Reading
<1>3. PICK i \in 1 .. Len(rd.topics) : i = rd.got[j].topic
  BY <1>2 DEF Stream
<1>4. rd.topics[i].id = i
  BY DEF Reading
<1>5. i \in DOMAIN rd.topics
  BY <1>1
<1>6. rd.topics[i] \in Range(rd.topics)
  BY <1>5 DEF Range
<1> QED BY <1>3, <1>4, <1>6 DEF FindTopic

\* What the invariant says of a recording.
LEMMA ReadableHolds == Inv => RecordingReadable
<1> SUFFICES ASSUME Inv, out.open
             PROVE  /\ rd.status # "Ok" => rd.status = "InvalidArgument" /\ rd.size < Len(FileHeader)
                    /\ IsPrefix(rd.got, out.log)
                    /\ \A i \in DOMAIN rd.got : FindTopic(rd.got[i].topic) # {}
                    /\ rd.pc = "ended" => /\ Len(rd.got) >= rd.flushed /\ CutReported
                                          /\ rd.complete => rd.got = out.log /\ ~rd.truncated
  BY DEF RecordingReadable
<1>1. PICK W, B, n : Stream(W, B, n) /\ ReaderInv(B)
  BY DEF Inv, StreamsInv
<1>2. out.log \in Seq(Messages) /\ Len(out.log) \in Nat
  BY <1>1, WriterTypes
<1>3. CASE rd = NoReader \/ Refused
  <2>1. /\ rd.status # "Ok" => rd.status = "InvalidArgument" /\ rd.size < Len(FileHeader)
        /\ rd.got = <<>> /\ rd.flushed = 0 /\ rd.complete = FALSE
        /\ rd.pc = "ended" => CutReported
    <3>1. Len(FileHeader) = 2
      BY DEF FileHeader
    <3> QED BY <3>1, <1>3 DEF NoReader, Refused, CutReported
  <2>2. <<>> \in Seq(Messages) /\ Len(<<>>) = 0 /\ DOMAIN <<>> = {} /\ Len(<<>>) <= Len(out.log)
    BY <1>2
  <2>3. IsPrefix(rd.got, out.log)
    <3>1. PICK e \in Seq(Messages) : e = rd.got /\ Len(e) = 0 /\ Len(e) <= Len(out.log)
      BY <2>1, <2>2
    <3>2. \A i \in 1 .. Len(e) : e[i] = out.log[i]
      BY <3>1
    <3>3. IsPrefix(e, out.log)
      BY <3>1, <3>2, <1>2, ReadIsPrefix
    <3> QED BY <3>1, <3>3
  <2> QED BY <2>1, <2>2, <2>3
<1>4. CASE Reading(B)
  <2>1. rd.got \in Seq(Messages) /\ rd.status = "Ok" /\ DOMAIN rd.got = 1 .. Len(rd.got)
    BY <1>4, ReaderTypes DEF Reading
  <2>2. Len(rd.got) <= Len(out.log) /\ \A i \in 1 .. Len(rd.got) : rd.got[i] = out.log[i]
    BY <1>4 DEF Reading
  <2>3. IsPrefix(rd.got, out.log) /\ (Len(rd.got) = Len(out.log) => rd.got = out.log)
    BY <2>1, <2>2, <1>2, ReadIsPrefix
  <2>4. \A i \in DOMAIN rd.got : FindTopic(rd.got[i].topic) # {}
    BY <2>1, <1>1, <1>4, TopicsKnown
  <2>5. rd.pc = "ended" => /\ Len(rd.got) >= rd.flushed /\ CutReported
                           /\ rd.complete => Len(rd.got) = Len(out.log) /\ ~rd.truncated
    BY <1>4 DEF Reading
  <2> QED BY <2>1, <2>3, <2>4, <2>5
<1> QED BY <1>1, <1>3, <1>4 DEF ReaderInv

\* Reading a recording gives the first messages its recorder wrote, whole and in
\* order, wherever the file ends, and misses nothing that was flushed when it was
\* opened, or at all when it was closed; a cut is reported, and only a file without
\* a whole header is refused (RecordingWriter, RecordingReader::Open, Next).
THEOREM RecordingsAreReadable == Spec => []RecordingReadable
BY ToolInvariant, ReadableHolds, PTL

\* Every message of a topic between the first and the last one read was received
\* or is counted as lost (Gap).
THEOREM LossesAreCounted == Spec => []LossesCounted
<1>1. Inv => LossesCounted
  BY DEF Inv, ToolInv, CountsInv, Counted, Counts, LossesCounted
<1> QED BY <1>1, ToolInvariant, PTL

\* A recorder does not wait while a topic has data it was told of, unless a
\* wakeup is pending (Wakeup::Wait).
THEOREM RecorderIsWoken == Spec => []RecorderWoken
<1>1. Inv => RecorderWoken
  <2> SUFFICES ASSUME Inv, Recording("wait"), ~Done, NEW t \in Names, chan[t].id # 0, Pending(t) > 0, t \notin news
               PROVE  tool.wake
    BY DEF RecorderWoken
  <2>1. Told(t)
    BY DEF Inv, ToolInv, AwakeInv, Recording
  <2>2. Ready(t)
    BY PendingFacts DEF Inv, ToolInv, CountsInv
  <2> QED BY <2>1, <2>2 DEF Told
<1> QED BY <1>1, ToolInvariant, PTL
=============================================================================
