------------------------------ MODULE MCTopicTool ------------------------------
(***************************************************************************)
(* A recording of two topics, one of them over FastDDS; a recording of one *)
(* topic that is read meanwhile; echo and hz; and replays of recordings,   *)
(* whole, cut off anywhere, of a newer version or malformed.               *)
(***************************************************************************)
EXTENDS TopicTool

A == [name |-> "a", transport |-> "shm", domain |-> 0, slots |-> 2, delivery |-> "best_effort"]
B == [name |-> "b", transport |-> "fastdds", domain |-> 1, slots |-> 1, delivery |-> "reliable"]

Base == [command |-> None, topics |-> <<A>>, count |-> 0, duration |-> 0, file |-> None,
         faults |-> FALSE, signals |-> {"tool", "player"},
         play |-> None, messages |-> 3, time |-> 3, rate |-> 1, wanted |-> {}, domain |-> None]

RecordWorlds ==
    {[Base EXCEPT !.command = "record", !.topics = <<[A EXCEPT !.slots = 1], B>>, !.count = 2,
                  !.messages = 2, !.time = 0],
     [Base EXCEPT !.command = "record", !.topics = <<[A EXCEPT !.slots = 1]>>, !.duration = 2, !.time = 2]}
    \cup {[Base EXCEPT !.command = "record", !.play = "info", !.faults = TRUE, !.signals = {},
                       !.messages = 2 - time, !.time = time] : time \in {0, 1}}

ListenWorlds ==
    {[Base EXCEPT !.command = command, !.topics = <<[A EXCEPT !.slots = 1]>>, !.count = count, !.duration = duration] :
       command \in {"echo", "hz"}, count \in {0, 2}, duration \in {0, 2}}

M(id, time, sequence) ==
    MessageRecord([topic |-> id, time |-> time, sequence |-> sequence, payload |-> <<sequence>>])

Whole ==
    FileHeader \o TopicRecord(1, RecordedAs(A)) \o TopicRecord(2, RecordedAs(B)) \o M(1, 1, 1) \o M(2, 0, 1)
    \o Record("note", <<0>>) \o M(1, 3, 2)

(* A recording of topic a with other parameters than the recorder writes. *)
Of(parameters) == FileHeader \o TopicRecord(1, [name |-> "a", parameters |-> parameters]) \o M(1, 0, 1)

Files ==
    {SubSeq(Whole, 1, n) : n \in 0 .. Len(Whole)}
    \cup {<<"PMREC001", 2>>, <<"other", 1>>, None,
          FileHeader \o TopicRecord(1, RecordedAs(A)) \o TopicRecord(1, RecordedAs(B)),
          FileHeader \o TopicRecord(0, RecordedAs(A)), FileHeader \o Record("topic", <<1>>),
          FileHeader \o M(1, 0, 1), FileHeader \o TopicRecord(1, RecordedAs(A)) \o M(1, -1, 1),
          FileHeader \o TopicRecord(1, RecordedAs(A)) \o Record("message", <<1>>),
          Of([transport |-> "zmq"]), Of([slot_count |-> 0]), Of([domain_id |-> 4]), Of([slot_count |-> 2])}

ReplayWorlds ==
    {[Base EXCEPT !.topics = <<A, B>>, !.messages = 0, !.play = "replay", !.file = f, !.rate = rate, !.wanted = wanted] :
       f \in Files, rate \in {0, 1, 2}, wanted \in {{}, {"a"}, {"b"}, {"a", "c"}}}
    \cup {[Base EXCEPT !.topics = <<A, B>>, !.messages = 0, !.play = "info", !.file = f] : f \in Files}
    \cup {[Base EXCEPT !.topics = <<A, B>>, !.messages = 0, !.play = "replay", !.file = Whole, !.domain = 3]}

MCWorlds == RecordWorlds \cup ListenWorlds \cup ReplayWorlds
=============================================================================
