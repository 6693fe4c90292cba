------------------------------- MODULE TopicTool -------------------------------
(***************************************************************************)
(* puppet_master_topic (tools/puppet_master_topic.cpp): one process runs   *)
(* record, echo or hz against topics that others publish, one process      *)
(* replays a recording or prints what is in it, perhaps while it is still  *)
(* being recorded.  Either may be stopped by a signal; the recorder may be *)
(* killed.                                                                 *)
(*                                                                         *)
(* A topic is what its readers see of it: the publish times of its         *)
(* messages, of which the last ones can still be read, as many as its ring *)
(* or queue has slots.  The transports themselves are modelled by          *)
(* SegmentRing and ShmTopic.                                               *)
(***************************************************************************)
EXTENDS Recording

CONSTANTS FlushInterval,    \* the recorder's 200 ms
          MaxDomain,        \* the largest DomainId
          DefaultSlots,     \* slot_count of shm::TopicOptions
          Worlds            \* what is run: commands, options and files, with
                            \* the bounds on messages per topic and on time

(* What the command line checks: a command has topics, and what a topic     *)
(* keeps is a ring or a queue of some size.                                 *)
ASSUME TopicToolAssumption ==
    /\ FlushInterval \in Nat
    /\ \A w \in Worlds :
          /\ Len(w.topics) \in Nat \ {0} /\ DOMAIN w.topics = 1 .. Len(w.topics)
          /\ \A t \in Range(w.topics) : t.slots \in Nat \ {0}
          /\ w.count \in Nat

VARIABLES clock,
          world,    \* the commands and their options
          bus,      \* per topic, the publish time of each message
          news,     \* topics with data their reader's callback is not told of
          tool,     \* record, echo or hz
          chan,     \* per topic, the channel of that process
          player,   \* replay or info
          stopped   \* processes that received SIGINT or SIGTERM

envVars == <<clock, world, bus, news, stopped>>
toolVars == <<tool, chan>>
vars == <<recVars, envVars, toolVars, player>>

-----------------------------------------------------------------------------
(* Initial states. *)

Names == {world.topics[i].name : i \in DOMAIN world.topics}

Topic(name) == CHOOSE t \in Range(world.topics) : t.name = name

NoChannel == [id |-> 0, cursor |-> 0, first |-> 0, last |-> 0, received |-> 0, lost |-> 0,
              printed |-> 0]

Init ==
    /\ world \in Worlds
    /\ clock = 0
    /\ file = world.file /\ out = NoWriter /\ rd = NoReader
    /\ bus = [t \in Names |-> <<>>]
    /\ news = {}
    /\ tool = [pc |-> IF world.command = None THEN "off" ELSE "start", at |-> 1, any |-> FALSE,
               seen |-> 0, wake |-> FALSE, started |-> 0, flush |-> 0, window |-> 0, total |-> 0,
               exit |-> None]
    /\ chan = [t \in Names |-> NoChannel]
    /\ player = [pc |-> IF world.play = None THEN "off" ELSE "start", exit |-> None,
                 channels |-> {}, first |-> None, started |-> 0, sent |-> <<>>]
    /\ stopped = {}

-----------------------------------------------------------------------------
(* Around the tool: time, publishers, the dispatcher and signals. *)

Tick == clock < world.time /\ clock' = clock + 1 /\ UNCHANGED <<recVars, world, bus, news, stopped, toolVars, player>>

Publish(t) ==
    /\ Len(bus[t]) < world.messages
    /\ bus' = [bus EXCEPT ![t] = Append(@, clock)]
    /\ news' = news \cup {t}
    /\ UNCHANGED <<recVars, clock, world, stopped, toolVars, player>>

(* A reader's callback: Wakeup::Notify. *)
Notify(t) ==
    /\ t \in news
    /\ news' = news \ {t}
    /\ tool' = [tool EXCEPT !.wake = @ \/ (world.command = "record" /\ chan[t].id # 0)]
    /\ UNCHANGED <<recVars, clock, world, bus, stopped, chan, player>>

Running(p) ==
    (IF p = "tool" THEN tool.pc ELSE player.pc) \notin {"off", "exited", "killed"}

Signal(p) ==
    /\ p \in world.signals \ stopped /\ Running(p)
    /\ stopped' = stopped \cup {p}
    /\ UNCHANGED <<recVars, clock, world, bus, news, toolVars, player>>

-----------------------------------------------------------------------------
(* Reading a topic. *)

Pending(t) == Min({Len(bus[t]) - chan[t].cursor, Topic(t).slots})

NextSequence(t) == Len(bus[t]) - Pending(t) + 1

CarriesSequence(t) == Topic(t).transport = "shm"

(* Mutant: counts the message itself as lost. *)
Mut_Gap(last, sequence) == IF last # 0 /\ sequence > last + 1 THEN sequence - last ELSE 0

Gap(last, sequence) == IF last # 0 /\ sequence > last + 1 THEN sequence - last - 1 ELSE 0

Received(t) ==
    LET s == NextSequence(t)
        c == [chan[t] EXCEPT !.cursor = s, !.received = @ + 1]
    IN  IF CarriesSequence(t)
          THEN [c EXCEPT !.lost = @ + Gap(chan[t].last, s), !.last = s,
                         !.first = IF @ = 0 THEN s ELSE @]
          ELSE c

(* The publish time, or when the message arrived; FastDDS readers number    *)
(* what they receive.                                                       *)
Stamps(t) ==
    LET published == bus[t][NextSequence(t)]
    IN  IF CarriesSequence(t) THEN {published} ELSE published .. clock

SequenceOf(t) == IF CarriesSequence(t) THEN NextSequence(t) ELSE chan[t].received + 1

(* A message of an odd number has a payload, the others are empty. *)
Payload(sequence) == IF sequence % 2 = 1 THEN <<sequence>> ELSE <<>>

(* A new reader starts after the newest message. *)
Subscribed(t, id) == [chan EXCEPT ![t] = [NoChannel EXCEPT !.id = id, !.cursor = Len(bus[t])]]

-----------------------------------------------------------------------------
(* record. *)

Recording(pc) == world.command = "record" /\ tool.pc = pc

(* Where world.faults allows it, the disk fails or the recorder is killed. *)
DiskFails(cells) == world.faults /\ StreamFails(cells)

(* What a replay needs to create the topic again. *)
RecordedParameters(topic) ==
    IF topic.transport = "fastdds"
      THEN [transport |-> "fastdds", domain_id |-> topic.domain, delivery |-> topic.delivery]
      ELSE [transport |-> "shm", domain_id |-> topic.domain, slot_count |-> topic.slots]

RecordedAs(topic) == [name |-> topic.name, parameters |-> RecordedParameters(topic)]

(* The cells of a recording: words, numbers, topics, and the time and       *)
(* number of a message.  A file of them is not the lack of a file.          *)
Words == {"PMREC001", "topic", "message"}
Stamped == [time : Nat, sequence : Nat]
Declared == {RecordedAs(topic) : topic \in UNION {Range(w.topics) : w \in Worlds}}
Cells == Words \cup Nat \cup Declared \cup Stamped

ASSUME FileAssumption == None \notin Seq(Cells)

Leave(code) == tool' = [tool EXCEPT !.pc = "close", !.exit = code]

RecordCreate ==
    /\ Recording("start")
    /\ \/ CreateRecording /\ tool' = [tool EXCEPT !.pc = "subscribe"]
       \/ UNCHANGED <<file, out>> /\ tool' = [tool EXCEPT !.pc = "exited", !.exit = 1]
    /\ UNCHANGED <<rd, envVars, chan, player>>

RecordSubscribe ==
    LET topic == world.topics[tool.at]
    IN  /\ Recording("subscribe") /\ tool.at <= Len(world.topics)
        /\ \/ /\ AddTopic(RecordedAs(topic))
              /\ \/ /\ tool' = [tool EXCEPT !.at = @ + 1]
                    /\ chan' = Subscribed(topic.name, out.topics + 1)
                 \/ Leave(1) /\ UNCHANGED chan
           \/ DiskFails(TopicRecord(out.topics + 1, RecordedAs(topic))) /\ Leave(1) /\ UNCHANGED chan
        /\ UNCHANGED <<rd, envVars, player>>

RecordStart ==
    /\ Recording("subscribe") /\ tool.at > Len(world.topics)
    /\ tool' = [tool EXCEPT !.pc = "round", !.started = clock, !.flush = clock + FlushInterval]
    /\ UNCHANGED <<recVars, envVars, chan, player>>

Done == "tool" \in stopped \/ (world.count # 0 /\ tool.total >= world.count)

Overdue == world.duration # 0 /\ clock >= tool.started + world.duration

RecordRound ==
    /\ Recording("round")
    /\ \/ (Done \/ Overdue) /\ Leave(0)
       \/ /\ ~Done /\ ~Overdue
          /\ tool' = [tool EXCEPT !.pc = "scan", !.at = 1, !.any = FALSE]
    /\ UNCHANGED <<recVars, envVars, chan, player>>

(* Each channel in turn is read until nothing is pending. *)
RecordScan ==
    LET t == world.topics[tool.at].name
    IN  /\ Recording("scan") /\ tool.at <= Len(world.topics)
        /\ \/ (Done \/ Pending(t) = 0) /\ tool' = [tool EXCEPT !.at = @ + 1]
           \/ ~Done /\ Pending(t) > 0 /\ tool' = [tool EXCEPT !.pc = "read", !.seen = Len(bus[t])]
           \/ ~Done /\ Leave(1)
        /\ UNCHANGED <<recVars, envVars, chan, player>>

(* The read may fail when the ring moved on since the look at it.           *)
RecordRead ==
    LET t == world.topics[tool.at].name
        Message(stamp) == [topic |-> chan[t].id, time |-> Max({0, stamp - tool.started}),
                           sequence |-> SequenceOf(t), payload |-> Payload(NextSequence(t))]
    IN  /\ Recording("read")
        /\ \/ /\ \E stamp \in Stamps(t) :
                    \/ /\ Write(Message(stamp))
                       /\ tool' = [tool EXCEPT !.pc = "scan", !.any = TRUE, !.total = @ + 1]
                    \/ DiskFails(MessageRecord(Message(stamp))) /\ Leave(1)
              /\ chan' = [chan EXCEPT ![t] = Received(t)]
           \/ /\ Len(bus[t]) # tool.seen
              /\ tool' = [tool EXCEPT !.pc = "scan", !.at = @ + 1]
              /\ UNCHANGED <<file, out, chan>>
        /\ UNCHANGED <<rd, envVars, player>>

AfterRound == IF tool.any THEN "round" ELSE "wait"

RecordRoundEnd ==
    /\ Recording("scan") /\ tool.at > Len(world.topics)
    /\ \/ /\ clock < tool.flush
          /\ tool' = [tool EXCEPT !.pc = AfterRound]
          /\ UNCHANGED <<file, out>>
       \/ /\ clock >= tool.flush /\ Flush
          /\ tool' = [tool EXCEPT !.pc = AfterRound, !.flush = clock + FlushInterval]
       \/ clock >= tool.flush /\ DiskFails(<<>>) /\ Leave(1)
    /\ UNCHANGED <<rd, envVars, chan, player>>

(* Wakeup::Wait ends on a wakeup or after a slice. *)
(* Mutant: waits for a wakeup as long as it takes. *)
Mut_RecordWait ==
    /\ Recording("wait") /\ tool.wake
    /\ tool' = [tool EXCEPT !.pc = "round", !.wake = FALSE]
    /\ UNCHANGED <<recVars, envVars, chan, player>>

RecordWait ==
    /\ Recording("wait")
    /\ tool' = [tool EXCEPT !.pc = "round", !.wake = FALSE]
    /\ UNCHANGED <<recVars, envVars, chan, player>>

RecordClose ==
    /\ Recording("close")
    /\ \/ CloseWriter /\ tool' = [tool EXCEPT !.pc = "exited"]
       \/ DiskFails(<<>>) /\ tool' = [tool EXCEPT !.pc = "exited", !.exit = 1]
    /\ UNCHANGED <<rd, envVars, chan, player>>

(* How much of the buffer is on disk matters to a reader only. *)
RecordSpill ==
    /\ world.command = "record" /\ player.pc # "off" /\ tool.pc # "killed"
    /\ ~out.bad /\ Spill
    /\ UNCHANGED <<rd, envVars, toolVars, player>>

RecorderKilled ==
    /\ world.command = "record" /\ world.faults
    /\ tool.pc \notin {"off", "start", "exited", "killed"}
    /\ WriterDies
    /\ tool' = [tool EXCEPT !.pc = "killed"]
    /\ UNCHANGED <<rd, envVars, chan, player>>

-----------------------------------------------------------------------------
(* echo and hz read one topic, a slice at a time. *)

Listening(command, pc) == world.command = command /\ tool.pc = pc

Listened == world.topics[1].name

Exits(code) == tool' = [tool EXCEPT !.pc = "exited", !.exit = code]

Listen ==
    /\ world.command \in {"echo", "hz"} /\ tool.pc = "start"
    /\ \/ /\ chan' = Subscribed(Listened, 1)
          /\ tool' = [tool EXCEPT !.pc = "listen", !.started = clock, !.window = clock]
       \/ Exits(1) /\ UNCHANGED chan
    /\ UNCHANGED <<recVars, envVars, player>>

EchoMore == "tool" \notin stopped /\ ~Overdue /\ (world.count = 0 \/ tool.total < world.count)

EchoNext ==
    /\ Listening("echo", "listen") /\ EchoMore
    /\ \/ /\ Pending(Listened) > 0
          /\ chan' = [chan EXCEPT ![Listened] = Received(Listened)]
          /\ tool' = [tool EXCEPT !.total = @ + 1]
       \/ Exits(1) /\ UNCHANGED chan
    /\ UNCHANGED <<recVars, envVars, player>>

(* With a count, ending early is a failure unless it was asked for. *)
EchoEnd ==
    /\ Listening("echo", "listen") /\ ~EchoMore
    /\ Exits(IF world.count # 0 /\ tool.total < world.count /\ "tool" \notin stopped THEN 1 ELSE 0)
    /\ UNCHANGED <<recVars, envVars, chan, player>>

(* What a window counted is printed and counted from zero again. *)
Reported(c) == [c EXCEPT !.printed = @ + c.received + c.lost, !.received = 0, !.lost = 0]

HzNext ==
    LET due == clock - tool.window >= 1 \/ Overdue
    IN  /\ Listening("hz", "listen") /\ "tool" \notin stopped
        /\ \/ /\ \E c \in IF Pending(Listened) > 0 THEN {Received(Listened)} ELSE {chan[Listened]} :
                    chan' = [chan EXCEPT ![Listened] = IF due THEN Reported(c) ELSE c]
              /\ tool' = [tool EXCEPT !.window = IF due THEN clock ELSE @,
                                      !.pc = IF Overdue THEN "exited" ELSE @,
                                      !.exit = IF Overdue THEN 0 ELSE @]
           \/ Exits(1) /\ UNCHANGED chan
        /\ UNCHANGED <<recVars, envVars, player>>

HzStopped ==
    /\ Listening("hz", "listen") /\ "tool" \in stopped
    /\ Exits(0)
    /\ UNCHANGED <<recVars, envVars, chan, player>>

-----------------------------------------------------------------------------
(* replay and info. *)

PlayerExits(code) == player' = [player EXCEPT !.pc = "exited", !.exit = code]

PlayOpen ==
    /\ player.pc = "start" /\ (world.command = "record" => tool.pc # "start")
    /\ OpenReader
    /\ IF OpenStatus = "Ok" THEN player' = [player EXCEPT !.pc = "next"] ELSE PlayerExits(1)
    /\ UNCHANGED <<file, out, envVars, toolVars>>

PlayNext ==
    /\ player.pc = "next" /\ rd.pc = "next"
    /\ world.play = "replay" => "player" \notin stopped
    /\ ReadRecord
    /\ CASE rd'.status # "Ok"                         -> PlayerExits(1)
         [] rd'.status = "Ok" /\ rd'.pc = "ended"     -> player' = [player EXCEPT !.pc = "finish"]
         [] rd'.status = "Ok" /\ rd'.pc = "message"   -> player' = [player EXCEPT !.pc = "message"]
         [] OTHER                                     -> UNCHANGED player
    /\ UNCHANGED <<file, out, envVars, toolVars>>

PlayStopped ==
    /\ player.pc = "next" \/ (player.pc = "pace" /\ world.rate > 0)
    /\ world.play = "replay" /\ "player" \in stopped
    /\ player' = [player EXCEPT !.pc = "finish"]
    /\ UNCHANGED <<recVars, envVars, toolVars>>

Played == Last(rd.got)

DeclaredAs(id) == (CHOOSE t \in FindTopic(id) : TRUE).topic

RecordedTopic == DeclaredAs(Played.topic)

NextMessage == rd' = [rd EXCEPT !.pc = "next"] /\ player' = [player EXCEPT !.pc = "next"]

(* info counts the message and reads on. *)
InfoMessage ==
    /\ player.pc = "message" /\ world.play = "info"
    /\ NextMessage
    /\ UNCHANGED <<file, out, envVars, toolVars>>

(* The topic as the replay creates it: its transport, the domain it was     *)
(* recorded in or the one given, and its ring or its delivery.              *)
ParameterOr(parameters, key, fallback) ==
    IF key \in DOMAIN parameters THEN parameters[key] ELSE fallback

(* Mutant: the ring of a replayed topic has the default size. *)
Mut_ReplayedTopic(recorded) ==
    LET transport == ParameterOr(recorded.parameters, "transport", "shm")
    IN  [name |-> recorded.name, transport |-> transport,
         domain |-> IF world.domain = None THEN ParameterOr(recorded.parameters, "domain_id", 0) ELSE world.domain,
         slots |-> DefaultSlots,
         delivery |-> ParameterOr(recorded.parameters, "delivery", "best_effort")]

ReplayedTopic(recorded) ==
    LET transport == ParameterOr(recorded.parameters, "transport", "shm")
    IN  [name |-> recorded.name, transport |-> transport,
         domain |-> IF world.domain = None THEN ParameterOr(recorded.parameters, "domain_id", 0) ELSE world.domain,
         slots |-> IF transport = "shm" THEN ParameterOr(recorded.parameters, "slot_count", DefaultSlots)
                                        ELSE DefaultSlots,
         delivery |-> IF transport = "fastdds" THEN ParameterOr(recorded.parameters, "delivery", "best_effort")
                                               ELSE "best_effort"]

Replayable(recorded) ==
    LET topic == ReplayedTopic(recorded)
    IN  /\ ParameterOr(recorded.parameters, "domain_id", 0) <= MaxDomain
        /\ topic.transport \in {"shm", "fastdds"}
        /\ topic.slots > 0

Wanted(name) == world.wanted = {} \/ name \in world.wanted

(* The first message of a topic opens its channel, unless it is left out;   *)
(* the first message replayed sets the pace.                                *)
ReplayMessage ==
    LET opens  == Played.topic \notin player.channels /\ Wanted(RecordedTopic.name)
        paced  == [player EXCEPT !.pc = "pace", !.channels = @ \cup {Played.topic},
                     !.first = IF @ = None THEN Played.time ELSE @,
                     !.started = IF player.first = None THEN clock ELSE @]
    IN  /\ player.pc = "message" /\ world.play = "replay"
        /\ \/ ~Wanted(RecordedTopic.name) /\ NextMessage
           \/ /\ Wanted(RecordedTopic.name) /\ (opens => Replayable(RecordedTopic))
              /\ player' = paced /\ UNCHANGED rd
           \/ opens /\ PlayerExits(1) /\ UNCHANGED rd
        /\ UNCHANGED <<file, out, envVars, toolVars>>

Due == (clock - player.started) * world.rate >= Played.time - player.first

ReplayWrite ==
    /\ player.pc = "pace" /\ (world.rate > 0 => Due /\ "player" \notin stopped)
    /\ \/ /\ rd' = [rd EXCEPT !.pc = "next"]
          /\ player' = [player EXCEPT !.pc = "next",
                !.sent = Append(@, [message |-> Played, topic |-> ReplayedTopic(RecordedTopic), at |-> clock])]
       \/ PlayerExits(1) /\ UNCHANGED rd
    /\ UNCHANGED <<file, out, envVars, toolVars>>

TopicsRead == {rd.topics[i].topic.name : i \in DOMAIN rd.topics}

PlayFinish ==
    /\ player.pc = "finish"
    /\ PlayerExits(IF "player" \notin stopped /\ ~(world.wanted \subseteq TopicsRead) THEN 1 ELSE 0)
    /\ UNCHANGED <<recVars, envVars, toolVars>>

-----------------------------------------------------------------------------
ToolStep ==
    \/ RecordCreate \/ RecordSubscribe \/ RecordStart \/ RecordRound \/ RecordScan \/ RecordRead
    \/ RecordRoundEnd \/ RecordWait \/ RecordClose
    \/ Listen \/ EchoNext \/ EchoEnd \/ HzNext \/ HzStopped

PlayerStep ==
    \/ PlayOpen \/ PlayNext \/ PlayStopped \/ InfoMessage
    \/ ReplayMessage \/ ReplayWrite \/ PlayFinish

Next ==
    \/ ToolStep
    \/ RecordSpill \/ RecorderKilled
    \/ PlayerStep
    \/ Tick
    \/ \E t \in Names : Publish(t) \/ Notify(t)
    \/ \E p \in {"tool", "player"} : Signal(p)

(* Each process runs on: its waits end after a slice. *)
Spec == Init /\ [][Next]_vars /\ WF_vars(ToolStep) /\ WF_vars(PlayerStep)
-----------------------------------------------------------------------------
(* Properties. *)

(* A reader that ended reports a cut exactly when there was one: what it    *)
(* does not report as cut off held nothing but the records it has read, and *)
(* what it does report goes on after them.                                  *)
CutReported ==
    /\ ~rd.truncated => rd.size <= rd.position
    /\ rd.truncated => rd.position < Len(file)

(* Whatever a recorder wrote, and wherever its file ends because it was     *)
(* killed, its disk was full or it is still at work, reading the file gives *)
(* the first messages it wrote, whole and in order (RecordingReader::Next); *)
(* nothing is missing that was flushed when the file was opened, a cut is   *)
(* reported, and nothing at all is missing, nor reported as cut off, when   *)
(* the recorder had closed it (RecordingWriter::Flush, Close).  The only    *)
(* error is the refusal of a file that had no whole header yet, which a     *)
(* recorder leaves that is killed before its first flush, although          *)
(* docs/recording.md has such a file reported as cut off.                   *)
RecordingReadable ==
    out.open =>
        /\ rd.status # "Ok" => rd.status = "InvalidArgument" /\ rd.size < Len(FileHeader)
        /\ IsPrefix(rd.got, out.log)
        /\ \A i \in DOMAIN rd.got : FindTopic(rd.got[i].topic) # {}
        /\ rd.pc = "ended" => /\ Len(rd.got) >= rd.flushed
                              /\ CutReported
                              /\ rd.complete => rd.got = out.log /\ ~rd.truncated

(* From the first message of a topic on, every message its writer numbered  *)
(* up to the last one read was received or is counted as lost, whenever the *)
(* ring moved on and however often hz printed and reset its window (Gap).   *)
LossesCounted ==
    \A t \in Names :
        (CarriesSequence(t) /\ chan[t].last # 0) =>
            chan[t].printed + chan[t].received + chan[t].lost = chan[t].last - chan[t].first + 1

(* A recorder that is not done and waits while a topic has data it was told *)
(* of has a wakeup pending, also when the data came between its last look   *)
(* at the topic and the wait (Wakeup::Wait).                                *)
RecorderWoken ==
    (Recording("wait") /\ ~Done) =>
        \A t \in Names : (chan[t].id # 0 /\ Pending(t) > 0 /\ t \notin news) => tool.wake

(* The replayed topic connects to the readers of the one recorded. *)
SameTopic(replayed, topic) ==
    /\ replayed.name = topic.name /\ replayed.transport = topic.transport
    /\ replayed.domain = IF world.domain = None THEN topic.domain ELSE world.domain
    /\ topic.transport = "shm" => replayed.slots = topic.slots
    /\ topic.transport = "fastdds" => replayed.delivery = topic.delivery

(* A replay sends the recorded messages of the topics it was asked for, in  *)
(* the recorded order, each not before its time from the first at the rate  *)
(* given, to a topic like the one recorded, and when it ends by itself with *)
(* success it has sent all there are (Replay, RecordedParameters).          *)
ReplayFaithful ==
    LET asked == SelectSeq(rd.got, LAMBDA m : Wanted(DeclaredAs(m.topic).name))
        sent  == [i \in DOMAIN player.sent |-> player.sent[i].message]
    IN  world.play = "replay" =>
            /\ IsPrefix(sent, asked)
            /\ \A i \in DOMAIN player.sent :
                  /\ \E j \in DOMAIN world.topics : SameTopic(player.sent[i].topic, world.topics[j])
                  /\ world.rate > 0 =>
                        (player.sent[i].at - player.started) * world.rate >= sent[i].time - sent[1].time
            /\ (player.exit = 0 /\ "player" \notin stopped) => sent = asked /\ rd.pc = "ended"

(* No wait is slept in for nothing: a recorder told of data is woken, and a *)
(* signal ends every command, none of which waits for data, for a wakeup or *)
(* for the next message's time without looking at the flag (kReadSlice).    *)
WaitsEnd ==
    /\ []RecorderWoken
    /\ "tool" \in stopped ~> tool.pc \in {"off", "exited", "killed"}
    /\ "player" \in stopped ~> player.pc \in {"off", "exited"}
=============================================================================
