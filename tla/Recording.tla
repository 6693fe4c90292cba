------------------------------- MODULE Recording -------------------------------
(***************************************************************************)
(* Recordings (src/transport/recording.cpp): one process appends records   *)
(* through a stream whose buffer reaches the file in any pieces, or not at *)
(* all when the process dies; another reads the file front to back.        *)
(*                                                                         *)
(* The file is a sequence of cells, one per field: two of file header, and *)
(* per record its kind, the size of its body in cells, and the body.  A    *)
(* cut between two cells stands for a cut inside either field.             *)
(***************************************************************************)
EXTENDS Integers, Sequences, FiniteSetsExt, SequencesExt

CONSTANT None

VARIABLES file,     \* the cells on disk, or None when there is no file
          out,      \* RecordingWriter: its stream and what it declared
          rd        \* RecordingReader

recVars == <<file, out, rd>>

-----------------------------------------------------------------------------
(* Layout. *)

FileHeader == <<"PMREC001", 1>>

RecordHeaderSize == 2

Record(kind, body) == <<kind, Len(body)>> \o body

TopicRecord(id, topic) == Record("topic", <<id, topic>>)

MessageFixedSize == 2

MessageRecord(m) ==
    Record("message", <<m.topic, [time |-> m.time, sequence |-> m.sequence]>> \o m.payload)

-----------------------------------------------------------------------------
(* The writer.  What is written is in the stream's buffer until the stream  *)
(* writes some of it to the file; that may fail with any part of it there,  *)
(* and then the stream stays bad.                                           *)

NoWriter == [open |-> FALSE, closed |-> FALSE, bad |-> FALSE, buffer |-> <<>>, topics |-> 0,
             log |-> <<>>, flushed |-> 0]

StreamWrites(cells, writer) ==
    /\ ~out.bad
    /\ out' = [writer EXCEPT !.buffer = @ \o cells]
    /\ UNCHANGED file

Reaches(cells, n) == file' = file \o SubSeq(cells, 1, n)

Spill ==
    /\ out.buffer # <<>>
    /\ \E n \in 1 .. Len(out.buffer) :
          /\ Reaches(out.buffer, n)
          /\ out' = [out EXCEPT !.buffer = SubSeq(@, n + 1, Len(@))]

StreamFails(cells) ==
    LET all == out.buffer \o cells
    IN  \/ out.bad /\ UNCHANGED <<file, out>>
        \/ /\ ~out.bad
           /\ \E n \in 0 .. Len(all) - 1 :
                 /\ Reaches(all, n)
                 /\ out' = [out EXCEPT !.buffer = <<>>, !.bad = TRUE]

(* RecordingWriter::Create replaces the file. *)
CreateRecording ==
    /\ file' = <<>>
    /\ out' = [NoWriter EXCEPT !.open = TRUE, !.buffer = FileHeader]

(* RecordingWriter::AddTopic and Write: the record is emitted, and counted  *)
(* when that succeeds.                                                      *)
AddTopic(topic) ==
    StreamWrites(TopicRecord(out.topics + 1, topic), [out EXCEPT !.topics = @ + 1])

Write(m) ==
    /\ m.topic \in 1 .. out.topics /\ m.time >= 0
    /\ StreamWrites(MessageRecord(m), [out EXCEPT !.log = Append(@, m)])

Flush ==
    /\ ~out.bad
    /\ file' = file \o out.buffer
    /\ out' = [out EXCEPT !.buffer = <<>>, !.flushed = Len(out.log)]

(* Close, also by the destructor.  Closing a bad stream fails. *)
CloseWriter ==
    /\ ~out.bad
    /\ file' = file \o out.buffer
    /\ out' = [out EXCEPT !.buffer = <<>>, !.flushed = Len(out.log), !.closed = TRUE]

(* What is in the buffer of a process that dies is gone, but for a part     *)
(* that the stream wrote before.                                            *)
WriterDies ==
    /\ \E n \in 0 .. Len(out.buffer) : Reaches(out.buffer, n)
    /\ out' = [out EXCEPT !.buffer = <<>>, !.bad = TRUE]

-----------------------------------------------------------------------------
(* The reader. *)

NoReader == [pc |-> "closed", status |-> "Ok", size |-> 0, position |-> Len(FileHeader),
             topics |-> <<>>, got |-> <<>>, truncated |-> FALSE, flushed |-> 0, complete |-> FALSE]

(* The size of the file is looked up once, when it is opened. *)
Recognised == Len(file) >= 2 /\ file[1] = FileHeader[1]

OpenStatus ==
    CASE file = None                                               -> "NotFound"
      [] file # None /\ ~Recognised                                -> "InvalidArgument"
      [] file # None /\ Recognised /\ file[2] # FileHeader[2]      -> "Unsupported"
      [] OTHER                                                     -> "Ok"

OpenReader ==
    rd' = [NoReader EXCEPT
             !.pc = IF OpenStatus = "Ok" THEN "next" ELSE "ended", !.status = OpenStatus,
             !.size = IF file = None THEN 0 ELSE Len(file),
             !.flushed = out.flushed, !.complete = out.closed]

Left == Len(file) - rd.position

Kind == file[rd.position + 1]
Size == file[rd.position + 2]
Body == SubSeq(file, rd.position + RecordHeaderSize + 1,
               Min({Len(file), rd.position + RecordHeaderSize + Size}))

(* Cut off inside a header, by the size the file had, or inside the body.   *)
(* Mutant: the body of the last record may be short. *)
Mut_CutOff == Left < RecordHeaderSize

CutOff ==
    \/ Left < RecordHeaderSize
    \/ /\ Left >= RecordHeaderSize
       /\ \/ Size > rd.size - Min({rd.size, rd.position + RecordHeaderSize})
          \/ Left - RecordHeaderSize < Size

FindTopic(id) == {t \in Range(rd.topics) : t.id = id}

Corrupt == rd' = [rd EXCEPT !.pc = "ended", !.status = "DataLoss"]

Past == [rd EXCEPT !.position = @ + RecordHeaderSize + Size]

ReadEnd ==
    /\ rd.pc = "next" /\ CutOff
    /\ rd' = [rd EXCEPT !.pc = "ended", !.truncated = Left # 0]

ReadTopic ==
    LET taken == Len(Body) = 2 /\ (Body[1] = 0 \/ FindTopic(Body[1]) # {})
    IN  /\ rd.pc = "next" /\ ~CutOff /\ Kind = "topic"
        /\ IF Len(Body) < 2 \/ taken THEN Corrupt
           ELSE rd' = [Past EXCEPT !.topics = Append(@, [id |-> Body[1], topic |-> Body[2]])]

(* A record of a newer kind. *)
ReadUnknown ==
    /\ rd.pc = "next" /\ ~CutOff /\ Kind \notin {"topic", "message"}
    /\ rd' = Past

ReadMessage ==
    /\ rd.pc = "next" /\ ~CutOff /\ Kind = "message"
    /\ IF Len(Body) < MessageFixedSize \/ Body[2].time < 0 \/ FindTopic(Body[1]) = {}
         THEN Corrupt
         ELSE rd' = [Past EXCEPT !.pc = "message",
                !.got = Append(@, [topic |-> Body[1], time |-> Body[2].time,
                                   sequence |-> Body[2].sequence,
                                   payload |-> SubSeq(Body, MessageFixedSize + 1, Len(Body))])]

ReadRecord == ReadEnd \/ ReadTopic \/ ReadUnknown \/ ReadMessage
=============================================================================
