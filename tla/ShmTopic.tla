------------------------------ MODULE ShmTopic ------------------------------
(***************************************************************************)
(* A topic of the shared-memory transport (transport/shm/shm_transport.cpp *)
(* and the parts of segment.cpp and platform_linux.cpp it calls): one OS   *)
(* name, the segments created under it one after another, the processes    *)
(* that open, use, close and lose them, the dispatcher thread of every     *)
(* TopicState, and `shm clean`.                                            *)
(*                                                                         *)
(* The ring and the participant table are one word and one set here        *)
(* (SegmentRing and ShmParticipants model them).  A process has one thread *)
(* that opens, writes and closes, one that reads, and at most one reader   *)
(* and one writer on a TopicState.  Waits for another process's            *)
(* initialisation time out at any moment.                                  *)
(***************************************************************************)
EXTENDS Naturals, FiniteSets

CONSTANTS Processes,
          MaxParticipants,  \* kMaxParticipants
          Depth,            \* the readers' depth
          MaxCrashes,       \* bound on the processes that die
          MaxSegments,      \* bound on the segments created under the name
          Scenarios         \* deployments: lifetime, readers, writers, odd (processes with
                            \* another geometry or descriptor), clean, and bounds
                            \* on the endpoints a process creates and on the messages

ASSUME ShmTopicAssumption ==
  /\ MaxSegments \in Nat /\ MaxCrashes \in Nat /\ Depth \in Nat \ {0} /\ MaxParticipants \in Nat \ {0}
  /\ \A c \in Scenarios : /\ c.lifetime \in {"shared", "reader_owned"}
                          /\ c.readers \cup c.writers \cup c.odd \subseteq Processes
                          /\ c.endpoints \in Nat /\ c.maxSeq \in Nat /\ c.clean \in BOOLEAN

Segments == 1 .. MaxSegments
NoSegment == 0

VARIABLES
  scenario,
  name,     \* the segment the OS name leads to
  seg,      \* [Segments -> stage, shape, retired, participants, write_seq, notify_word]
  alive,
  pc, at, want,  \* what each process's thread is doing, on which segment, for which endpoint
  up, map,       \* ShmTransport::Impl: open, and the topic found by name
  ends,     \* [Processes -> [Segments -> endpoints that hold its TopicState]]
  flags,    \* [Processes -> [Segments -> "open", "had" (had_reader_), "mine" (retired_by_me_)]]
  reader,   \* [Processes -> [Segments -> ReaderState and the Read in progress]]
  disp,     \* [Processes -> [Segments -> the dispatcher thread]]
  created,  \* [Processes -> the endpoints it created, or tried to]
  tool,     \* `shm clean`: the segment it judged unused
  raced,    \* history: a name was removed from a segment that others use or open
  lastOut   \* history: [Segments -> how the last process that was attached left]

threads == <<pc, at, want>>
state == <<ends, flags, reader, disp>>
rest == <<scenario, created, tool, raced, lastOut>>
vars == <<scenario, name, seg, alive, threads, up, map, state, created, tool, raced, lastOut>>

Users == scenario.readers \cup scenario.writers
Shape(p) == IF p \in scenario.odd THEN "odd" ELSE "usual"
ReaderOwned == scenario.lifetime = "reader_owned"
NoReader == [cursor |-> 1, notified |-> 0, told |-> FALSE, read |-> "idle"]
NoDispatcher == [pc |-> "none", observed |-> 0, seen |-> 0]

Init ==
  /\ scenario \in Scenarios
  /\ name = NoSegment
  /\ seg = [s \in Segments |-> [stage |-> "absent", shape |-> "none", retired |-> FALSE,
                                in |-> {}, seq |-> 0, word |-> 0]]
  /\ alive = Processes
  /\ pc = [p \in Processes |-> "idle"] /\ at = [p \in Processes |-> NoSegment]
  /\ want = [p \in Processes |-> "writer"]
  /\ up = [p \in Processes |-> TRUE] /\ map = [p \in Processes |-> NoSegment]
  /\ ends = [p \in Processes |-> [s \in Segments |-> {}]]
  /\ flags = [p \in Processes |-> [s \in Segments |-> {}]]
  /\ reader = [p \in Processes |-> [s \in Segments |-> NoReader]]
  /\ disp = [p \in Processes |-> [s \in Segments |-> NoDispatcher]]
  /\ created = [p \in Processes |-> 0]
  /\ tool = NoSegment /\ raced = FALSE /\ lastOut = [s \in Segments |-> "nobody"]

In(p, from) == p \in alive /\ pc[p] = from
GoAt(p, to, s) ==
  /\ pc' = [pc EXCEPT ![p] = to]
  /\ at' = [at EXCEPT ![p] = IF to = "idle" THEN NoSegment ELSE s]
  /\ want' = [want EXCEPT ![p] = IF to = "idle" THEN "writer" ELSE @]
Go(p, to) == GoAt(p, to, at[p])

IsOpen(p, s) == p \in alive /\ "open" \in flags[p][s]
Opening(p, s) == p \in alive /\ at[p] = s /\ pc[p] \in {"wait_size", "wait_magic", "size", "header", "claim"}
Live(s) == seg[s].in \cap alive

\* SharedRegion::Remove: by name, whatever segment it leads to now.  A process
\* may take its own segments away from others.
Remove(own) ==
  /\ name' = NoSegment
  /\ raced' = (raced \/ (name \notin own \cup {NoSegment}
                         /\ \E q \in Processes : IsOpen(q, name) \/ Opening(q, name)))
-----------------------------------------------------------------------------
(* Opening: GetOrOpenTopic, Segment::Open, SharedRegion::CreateOrOpen *)

\* TopicState::gone
Gone(s) == ReaderOwned /\ seg[s].retired

\* A TopicState that this process's endpoints hold and that takes new ones.
Usable(p) == map[p] # NoSegment /\ ends[p][map[p]] # {} /\ ~Gone(map[p])

CreateEndpoint(p, kind) ==
  /\ In(p, "idle") /\ up[p]
  /\ p \in (IF kind = "reader" THEN scenario.readers ELSE scenario.writers)
  /\ \A s \in Segments : kind \notin ends[p][s] \/ Gone(s)
  /\ created[p] < scenario.endpoints /\ created' = [created EXCEPT ![p] = @ + 1]
  /\ \/ /\ Usable(p) /\ kind = "writer"
        /\ ends' = [ends EXCEPT ![p][map[p]] = @ \cup {"writer"}]
        /\ UNCHANGED <<threads, map>>
     \/ /\ Usable(p) /\ kind = "reader"
        /\ GoAt(p, "sequence", map[p])
        /\ UNCHANGED <<map, ends>>
     \/ /\ ~Usable(p)
        /\ pc' = [pc EXCEPT ![p] = "create"] /\ want' = [want EXCEPT ![p] = kind]
        /\ map' = [map EXCEPT ![p] = NoSegment]
        /\ UNCHANGED <<at, ends>>
  /\ UNCHANGED <<name, seg, alive, up, flags, reader, disp, scenario, tool, raced, lastOut>>

\* Only writers of a reader-owned topic may not create it.
MayCreate(p) == ~(ReaderOwned /\ want[p] = "writer")

\* shm_open with O_CREAT and O_EXCL.
CreateRegion(p) ==
  /\ In(p, "create") /\ MayCreate(p)
  /\ \/ /\ name # NoSegment
        /\ Go(p, "open")
        /\ UNCHANGED <<name, seg>>
     \/ /\ name = NoSegment
        /\ \E s \in Segments :
             /\ seg[s].stage = "absent" /\ \A t \in Segments : t < s => seg[t].stage # "absent"
             /\ name' = s
             /\ seg' = [seg EXCEPT ![s].stage = "created"]
             /\ GoAt(p, "size", s)
  /\ UNCHANGED <<alive, up, map, state, rest>>

\* shm_open of what exists; it may be gone again.
OpenRegion(p) ==
  /\ In(p, "open") \/ (In(p, "create") /\ ~MayCreate(p))
  /\ IF name = NoSegment THEN Go(p, "idle") ELSE GoAt(p, "wait_size", name)
  /\ UNCHANGED <<name, seg, alive, up, map, state, rest>>

\* ftruncate, or its failure, which removes the name.
SizeRegion(p) ==
  /\ In(p, "size")
  /\ \/ seg' = [seg EXCEPT ![at[p]].stage = "sized"] /\ Go(p, "header") /\ UNCHANGED <<name, raced>>
     \/ Remove({at[p]}) /\ Go(p, "idle") /\ UNCHANGED seg
  /\ UNCHANGED <<alive, up, map, state, scenario, created, tool, lastOut>>

\* The header, its magic last; a lock that cannot be set up removes the name.
PublishHeader(p) ==
  /\ In(p, "header")
  /\ \/ /\ seg' = [seg EXCEPT ![at[p]].stage = "ready", ![at[p]].shape = Shape(p)]
        /\ Go(p, "claim") /\ UNCHANGED <<name, raced>>
     \/ Remove({at[p]}) /\ Go(p, "idle") /\ UNCHANGED seg
  /\ UNCHANGED <<alive, up, map, state, scenario, created, tool, lastOut>>

\* Each wait ends with what it waited for or with its timeout.
AwaitSize(p) ==
  /\ In(p, "wait_size")
  /\ IF seg[at[p]].stage = "created" THEN Go(p, "idle") ELSE Go(p, "wait_magic")
  /\ UNCHANGED <<name, seg, alive, up, map, state, rest>>

AwaitMagic(p) ==
  /\ In(p, "wait_magic")
  /\ IF seg[at[p]].stage = "ready" /\ seg[at[p]].shape = Shape(p) /\ ~seg[at[p]].retired
     THEN Go(p, "claim") ELSE Go(p, "idle")
  /\ UNCHANGED <<name, seg, alive, up, map, state, rest>>

\* ClaimParticipant: the entries of dead processes are free.
Claim(p) ==
  /\ In(p, "claim")
  /\ LET s == at[p]
     IN  \/ /\ Cardinality(Live(s)) < MaxParticipants
            /\ seg' = [seg EXCEPT ![s].in = Live(s) \cup {p}]
            /\ flags' = [flags EXCEPT ![p][s] = {"open"}]
            /\ ends' = [ends EXCEPT ![p][s] = {"writer"} \cap {want[p]}]
            /\ map' = [map EXCEPT ![p] = s]
            /\ Go(p, IF want[p] = "reader" THEN "sequence" ELSE "idle")
         \/ /\ Cardinality(Live(s)) >= MaxParticipants
            /\ Go(p, "idle")
            /\ UNCHANGED <<seg, flags, ends, map>>
  /\ UNCHANGED <<name, alive, up, reader, disp, rest>>

\* CreateReader looks at the ring ...
TakeSequence(p) ==
  /\ In(p, "sequence")
  /\ reader' = [reader EXCEPT ![p][at[p]] =
                  [cursor |-> seg[at[p]].seq + 1, notified |-> seg[at[p]].seq,
                   told |-> FALSE, read |-> "idle"]]
  /\ Go(p, "add")
  /\ UNCHANGED <<name, seg, alive, up, map, ends, flags, disp, rest>>

\* ... and AddReader once more, when it starts the dispatcher.
AddReader(p) ==
  /\ In(p, "add")
  /\ flags' = [flags EXCEPT ![p][at[p]] = @ \cup {"had"}]
  /\ ends' = [ends EXCEPT ![p][at[p]] = @ \cup {"reader"}]
  /\ disp' = IF disp[p][at[p]].pc # "none" THEN disp
             ELSE [disp EXCEPT ![p][at[p]] = [pc |-> "load", observed |-> 0, seen |-> seg[at[p]].seq]]
  /\ Go(p, "idle")
  /\ UNCHANGED <<name, seg, alive, up, map, reader, rest>>
-----------------------------------------------------------------------------
(* Publishing, and the dispatcher *)

\* NotifyAll: advance the word and wake every dispatcher that sleeps on it.
Looping(d) == [pc |-> "load", observed |-> 0, seen |-> d.seen]
Woken(s) == [p \in Processes |-> [disp[p] EXCEPT ![s] = IF @.pc = "asleep" THEN Looping(@) ELSE @]]
NotifyAll(s) ==
  /\ seg' = [seg EXCEPT ![s].word = @ + 1]
  /\ disp' = Woken(s)

Publish(p, s) ==
  /\ In(p, "idle")
  /\ "writer" \in ends[p][s] /\ IsOpen(p, s) /\ ~Gone(s)
  /\ seg[s].seq < scenario.maxSeq
  /\ seg' = [seg EXCEPT ![s].seq = @ + 1]
  /\ GoAt(p, "notify", s)
  /\ UNCHANGED <<name, alive, up, map, state, rest>>

Committed(p) ==
  /\ In(p, "notify")
  /\ NotifyAll(at[p])
  /\ Go(p, "idle")
  /\ UNCHANGED <<name, alive, up, map, ends, flags, reader, rest>>

Dispatcher(p, s, from) == p \in alive /\ disp[p][s].pc = from

\* DispatchLoop: return when closed; otherwise load the word, then the sequence.
DispatchLoad(p, s) ==
  /\ Dispatcher(p, s, "load")
  /\ disp' = [disp EXCEPT ![p][s] = [pc |-> IF IsOpen(p, s) THEN "look" ELSE "exited",
                                     observed |-> seg[s].word, seen |-> @.seen]]
  /\ UNCHANGED <<name, seg, alive, threads, up, map, ends, flags, reader, rest>>

\* Fanout: the reader is told of the newest message once.
Fanout(p, s) ==
  LET r == reader[p][s]
  IN  reader' = IF "reader" \in ends[p][s] /\ IsOpen(p, s) /\ seg[s].seq > r.notified
                THEN [reader EXCEPT ![p][s] = [r EXCEPT !.notified = seg[s].seq, !.told = TRUE]]
                ELSE reader

DispatchLook(p, s) ==
  /\ Dispatcher(p, s, "look")
  /\ IF seg[s].seq # disp[p][s].seen THEN Fanout(p, s) ELSE UNCHANGED reader
  /\ disp' = [disp EXCEPT ![p][s] = [pc |-> IF IsOpen(p, s) THEN "wait" ELSE "exited",
                                     observed |-> @.observed, seen |-> seg[s].seq]]
  /\ UNCHANGED <<name, seg, alive, threads, up, map, ends, flags, rest>>

\* Notifier::Wait: the futex compares the word once more before it sleeps.
Mut_DispatchWait(p, s) ==
  /\ Dispatcher(p, s, "wait")
  /\ disp' = [disp EXCEPT ![p][s].pc = "asleep"]
  /\ UNCHANGED <<name, seg, alive, threads, up, map, ends, flags, reader, rest>>
DispatchWait(p, s) ==
  /\ Dispatcher(p, s, "wait")
  /\ disp' = [disp EXCEPT ![p][s] = IF seg[s].word = @.observed THEN [@ EXCEPT !.pc = "asleep"]
                                    ELSE Looping(@)]
  /\ UNCHANGED <<name, seg, alive, threads, up, map, ends, flags, reader, rest>>

\* The poll interval is over.
DispatchPoll(p, s) ==
  /\ Dispatcher(p, s, "asleep")
  /\ disp' = [disp EXCEPT ![p][s] = Looping(@)]
  /\ UNCHANGED <<name, seg, alive, threads, up, map, ends, flags, reader, rest>>
-----------------------------------------------------------------------------
(* Reading: ShmReader::Read with wait and without a timeout *)

ClampCursor(cursor, newest) ==
  LET oldest == IF newest >= Depth THEN newest - Depth + 1 ELSE 1
  IN  IF cursor > oldest THEN cursor ELSE oldest

Readable(p, s) == reader[p][s].cursor <= seg[s].seq
Closed(p, s) == "reader" \notin ends[p][s] \/ ~IsOpen(p, s)

\* One pass of its loop: closed, a message, or wait for the next generation.
ReadPass(p, s) ==
  LET r == reader[p][s]
  IN  reader' = [reader EXCEPT ![p][s] =
                   IF Closed(p, s) THEN [r EXCEPT !.read = "idle"]
                   ELSE IF Readable(p, s)
                   THEN [r EXCEPT !.read = "idle", !.cursor = ClampCursor(r.cursor, seg[s].seq) + 1]
                   ELSE [r EXCEPT !.read = "blocked", !.told = FALSE]]

Read(p, s) ==
  /\ p \in alive /\ "reader" \in ends[p][s] /\ "had" \in flags[p][s]
  /\ reader[p][s].read = "idle"
  /\ ReadPass(p, s)
  /\ UNCHANGED <<name, seg, alive, threads, up, map, ends, flags, disp, rest>>

ReadWakes(p, s) ==
  /\ p \in alive /\ reader[p][s].read = "blocked"
  /\ reader[p][s].told \/ Closed(p, s)
  /\ ReadPass(p, s)
  /\ UNCHANGED <<name, seg, alive, threads, up, map, ends, flags, disp, rest>>
-----------------------------------------------------------------------------
(* Closing: RemoveReader, RetireOnce and TopicState::Close *)

MustRetire(p, s) == ReaderOwned /\ "mine" \notin flags[p][s]

\* An endpoint is dropped, outside of its calls; the last one closes the TopicState.
DropEndpoint(p, s, kind) ==
  /\ In(p, "idle") /\ kind \in ends[p][s] /\ IsOpen(p, s)
  /\ kind = "reader" => reader[p][s].read = "idle"
  /\ ends' = [ends EXCEPT ![p][s] = @ \ {kind}]
  /\ IF kind = "reader" /\ MustRetire(p, s) THEN GoAt(p, "retire", s)
     ELSE GoAt(p, IF ends[p][s] = {kind} THEN "close" ELSE "idle", s)
  /\ UNCHANGED <<name, seg, alive, up, map, flags, reader, disp, rest>>

\* ShmTransport::Close closes the topic with its endpoints still in place.
CloseTransport(p) ==
  /\ In(p, "idle") /\ up[p] /\ p \in Users
  /\ up' = [up EXCEPT ![p] = FALSE]
  /\ map' = [map EXCEPT ![p] = NoSegment]
  /\ IF map[p] # NoSegment /\ ends[p][map[p]] # {} THEN GoAt(p, "close", map[p]) ELSE Go(p, "idle")
  /\ UNCHANGED <<name, seg, alive, state, rest>>

\* RetireOnce: the flag, then the notification and the name.
Mut_Retire(p) ==
  /\ In(p, "retire") /\ Go(p, "unlink")
  /\ flags' = [flags EXCEPT ![p][at[p]] = @ \cup {"mine"}]
  /\ UNCHANGED <<name, seg, alive, up, map, ends, reader, disp, rest>>
Retire(p) ==
  /\ In(p, "retire") /\ Go(p, "unlink")
  /\ seg' = [seg EXCEPT ![at[p]].retired = TRUE]
  /\ flags' = [flags EXCEPT ![p][at[p]] = @ \cup {"mine"}]
  /\ UNCHANGED <<name, alive, up, map, ends, reader, disp, rest>>

\* How the last process that was attached left each segment.
Leaves(p, how) ==
  lastOut' = [s \in Segments |-> IF (IsOpen(p, s) \/ at[p] = s) /\ ~\E q \in alive \ {p} : IsOpen(q, s)
                                 THEN how ELSE lastOut[s]]

Unlink(p) ==
  /\ In(p, "unlink")
  /\ IF "mine" \in flags[p][at[p]] THEN NotifyAll(at[p]) /\ Remove({at[p]})
     ELSE Remove({}) /\ UNCHANGED <<seg, disp>>
  /\ Go(p, IF IsOpen(p, at[p]) /\ ends[p][at[p]] = {} THEN "close" ELSE "idle")
  /\ UNCHANGED <<alive, up, map, ends, flags, reader, scenario, created, tool, lastOut>>

\* closed_ is set and the readers are closed ...
Close(p) ==
  /\ In(p, "close") /\ Go(p, "wake")
  /\ flags' = [flags EXCEPT ![p][at[p]] = @ \ {"open"}]
  /\ ends' = [ends EXCEPT ![p][at[p]] = {}]
  /\ UNCHANGED <<name, seg, alive, up, map, reader, disp, rest>>

\* ... before the dispatcher, if there is one, is woken to see it.
WakeDispatcher(p) ==
  /\ In(p, "wake") /\ Go(p, "join")
  /\ IF disp[p][at[p]].pc # "none" THEN NotifyAll(at[p]) ELSE UNCHANGED <<seg, disp>>
  /\ UNCHANGED <<name, alive, up, map, ends, flags, reader, rest>>

\* The dispatcher is joined; the participant entry is released.
Release(p) ==
  /\ In(p, "join")
  /\ disp[p][at[p]].pc \in {"none", "exited"}
  /\ disp' = [disp EXCEPT ![p][at[p]] = NoDispatcher]
  /\ seg' = [seg EXCEPT ![at[p]].in = @ \ {p}]
  /\ Leaves(p, "closed")
  /\ Go(p, IF ~ReaderOwned THEN "idle"
           ELSE IF "had" \notin flags[p][at[p]] THEN "check"
           ELSE IF MustRetire(p, at[p]) THEN "retire" ELSE "idle")
  /\ UNCHANGED <<name, alive, up, map, ends, flags, reader, scenario, created, tool, raced>>

\* A writer without a reader's farewell: is anybody else still there?
Mut_LastOut(p) ==
  /\ In(p, "check")
  /\ IF ~seg[at[p]].retired /\ seg[at[p]].in = {} THEN Go(p, "unlink") ELSE Go(p, "idle")
  /\ UNCHANGED <<name, seg, alive, up, map, state, rest>>
LastOut(p) ==
  /\ In(p, "check")
  /\ seg' = [seg EXCEPT ![at[p]].in = Live(at[p])]
  /\ IF ~seg[at[p]].retired /\ Live(at[p]) = {} THEN Go(p, "unlink") ELSE Go(p, "idle")
  /\ UNCHANGED <<name, alive, up, map, state, rest>>

\* A process dies at any moment, with whatever it holds.
Crash(p) ==
  /\ p \in alive \cap Users /\ Cardinality(Processes \ alive) < MaxCrashes
  /\ alive' = alive \ {p}
  /\ Leaves(p, "crashed")
  /\ ends' = [ends EXCEPT ![p] = [s \in Segments |-> {}]]
  /\ flags' = [flags EXCEPT ![p] = [s \in Segments |-> {}]]
  /\ reader' = [reader EXCEPT ![p] = [s \in Segments |-> NoReader]]
  /\ disp' = [disp EXCEPT ![p] = [s \in Segments |-> NoDispatcher]]
  /\ UNCHANGED <<name, seg, threads, up, map, scenario, created, tool, raced>>
-----------------------------------------------------------------------------
(* RemoveUnusedSegments: list and inspect, then remove by name *)

\* SegmentInfo::State, as Inspect and Describe see the header.
StateOf(s) ==
  IF seg[s].stage # "ready" THEN "uninitialized" ELSE IF Live(s) = {} THEN "unused" ELSE "in_use"

ListSegments ==
  /\ scenario.clean /\ tool = NoSegment /\ name # NoSegment
  /\ StateOf(name) # "in_use"
  /\ tool' = name
  /\ UNCHANGED <<scenario, name, seg, alive, threads, up, map, state, created, raced, lastOut>>

RemoveUnused ==
  /\ tool # NoSegment
  /\ Remove({})
  /\ tool' = NoSegment
  /\ UNCHANGED <<scenario, seg, alive, threads, up, map, state, created, lastOut>>
-----------------------------------------------------------------------------
OpenStep(p) ==
  \/ CreateRegion(p) \/ OpenRegion(p) \/ SizeRegion(p) \/ PublishHeader(p)
  \/ AwaitSize(p) \/ AwaitMagic(p) \/ Claim(p) \/ TakeSequence(p) \/ AddReader(p)

CloseStep(p) == Retire(p) \/ Unlink(p) \/ Close(p) \/ WakeDispatcher(p) \/ Release(p) \/ LastOut(p)

DispatchStep(p, s) ==
  DispatchLoad(p, s) \/ DispatchLook(p, s) \/ DispatchWait(p, s) \/ DispatchPoll(p, s)

Next ==
  \/ \E p \in Processes :
       \/ OpenStep(p) \/ CloseStep(p) \/ Committed(p) \/ CloseTransport(p) \/ Crash(p)
       \/ \E kind \in {"reader", "writer"} :
            CreateEndpoint(p, kind) \/ \E s \in Segments : DropEndpoint(p, s, kind)
       \/ \E s \in Segments : Publish(p, s) \/ Read(p, s) \/ ReadWakes(p, s) \/ DispatchStep(p, s)
  \/ ListSegments \/ RemoveUnused

Spec == Init /\ [][Next]_vars
-----------------------------------------------------------------------------
(* Properties *)

\* Whoever opens, retires, crashes and cleans up meanwhile, an attached process
\* is on the segment the name leads to, or on one its reader has retired: the
\* endpoints of a topic meet.  The exception is a removal by name that
\* somebody's opening overtook: the last writer out and `shm clean` look first
\* and remove later, and a second reader may retire after a third has begun.
EndpointsMeet ==
  ~raced => \A p \in Processes, s \in Segments :
              IsOpen(p, s) => name = s \/ seg[s].retired

\* The reader died between the retired flag and the removal of the name.
TornRetirement == \E q \in Processes \ alive : pc[q] = "unlink" /\ at[q] = name

\* "the last writer to close removes the name once no live process is attached,
\* so no segment is left behind" (docs/shm-transport.md): once everybody has
\* left a reader-owned topic, the last one by closing, its name is gone, unless
\* a reader died half way through retiring it.
NothingLeftBehind ==
  /\ ReaderOwned /\ name # NoSegment /\ lastOut[name] = "closed"
  /\ \A p \in alive : pc[p] = "idle" /\ \A s \in Segments : ~IsOpen(p, s)
  => TornRetirement

\* "the wait below cannot miss it": a dispatcher never sleeps on a publish or a
\* close it has not seen, unless the notification is still to come or died with
\* the publisher (then the poll finds it).
NothingSleptThrough ==
  \A p \in alive, s \in Segments :
    disp[p][s].pc = "asleep" =>
      \/ disp[p][s].seen = seg[s].seq /\ IsOpen(p, s)
      \/ pc[p] = "wake" /\ at[p] = s
      \/ \E q \in Processes : pc[q] = "notify" /\ at[q] = s

\* A Read that blocks, its topic open and a message there for it, has been told
\* or will be: its dispatcher has not yet seen that message.
BlockedReadsTold ==
  \A p \in alive, s \in Segments :
    reader[p][s].read = "blocked" /\ ~Closed(p, s) /\ Readable(p, s) /\ ~reader[p][s].told =>
      disp[p][s].pc \in {"load", "look", "wait", "asleep"} /\ disp[p][s].seen < seg[s].seq

\* From a publish or a close to the reader that waits for it no step sleeps
\* through it.
NothingMissed == NothingSleptThrough /\ BlockedReadsTold
=============================================================================
