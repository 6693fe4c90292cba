---------------------------- MODULE SegmentRing -----------------------------
(***************************************************************************)
(* The message ring of one shared-memory segment (transport/shm): writers  *)
(* of several processes publish under a robust mutex, readers copy slots   *)
(* without a lock and validate each copy by the slot's sequence word.      *)
(*                                                                         *)
(* A message image is a function on Words; payload bytes, payload_size and *)
(* source_timestamp_ns are all words of it.  Between the writing mark and  *)
(* the committing store, and between a reader's two loads of the sequence  *)
(* word, words are stored and loaded one at a time in any order, as the    *)
(* relaxed and plain accesses between those fences may be.                 *)
(***************************************************************************)
EXTENDS Naturals, Sequences

CONSTANTS Writers,    \* publishing threads, of any process
          Readers,
          SlotCount,  \* geometry_.slot_count
          Words, Values, Zero,  \* Zero fills a fresh segment
          Messages,   \* the images that are published
          Depth,      \* [Readers -> Nat]: QoS depth of each reader
          PassLimit,  \* passes of one TryRead (ring + 16 in the code)
          MaxSeq,     \* bound on committed messages
          Unlocked, OwnerDead  \* states of the robust mutex without a live owner

ASSUME RingAssumption ==
  /\ SlotCount \in Nat \ {0}
  /\ Zero \in Values
  /\ Messages \subseteq [Words -> Values]
  /\ Depth \in [Readers -> Nat]
  /\ PassLimit \in Nat \ {0}
  /\ MaxSeq \in Nat
  /\ Unlocked \notin Writers /\ OwnerDead \notin Writers /\ Unlocked # OwnerDead

VARIABLES lock,      \* the robust process-shared mutex
          writeSeq,  \* header: newest committed sequence number
          slotSeq,   \* per slot: sequence word, [seq, writing bit]
          slotWords, \* per slot: the message image
          wpc, sequence, msg, filled,               \* writers' locals
          rpc, pass, cursor, copied, buf, dropped,  \* readers' locals
          log,       \* history: images in commit order
          got        \* history: the last message received

writerVars == <<wpc, sequence, msg, filled>>
readerVars == <<rpc, pass, cursor, copied, buf, dropped, got>>
sharedVars == <<lock, writeSeq, slotSeq, slotWords, log>>
vars == <<lock, writeSeq, slotSeq, slotWords, wpc, sequence, msg, filled,
          rpc, pass, cursor, copied, buf, dropped, log, got>>

Topic == INSTANCE TopicLog WITH Payloads <- Messages

Images == [Words -> Values]
ZeroImage == [d \in Words |-> Zero]
Slots == 0 .. SlotCount - 1
SlotAt(s) == s % SlotCount
Committed(s) == [seq |-> s, writing |-> FALSE]
Writing(s) == [seq |-> s, writing |-> TRUE]

Init ==
  /\ lock = Unlocked
  /\ writeSeq = 0
  /\ slotSeq = [i \in Slots |-> Committed(0)]
  /\ slotWords = [i \in Slots |-> ZeroImage]
  /\ log = << >>
  /\ wpc = [w \in Writers |-> "idle"]
  /\ sequence = [w \in Writers |-> 0]
  /\ msg = [w \in Writers |-> ZeroImage]
  /\ filled = [w \in Writers |-> {}]
  /\ rpc = [r \in Readers |-> "detached"]
  /\ pass = [r \in Readers |-> 0]
  /\ cursor = [r \in Readers |-> 0]
  /\ copied = [r \in Readers |-> {}]
  /\ buf = [r \in Readers |-> ZeroImage]
  /\ dropped = [r \in Readers |-> 0]
  /\ got = [r \in Readers |-> Topic!NoMessage]
-----------------------------------------------------------------------------
(* PublishWith *)

\* The writer leaves PublishWith and its locals go out of scope.
Leave(w) ==
  /\ wpc' = [wpc EXCEPT ![w] = "idle"]
  /\ sequence' = [sequence EXCEPT ![w] = 0]
  /\ msg' = [msg EXCEPT ![w] = ZeroImage]
  /\ filled' = [filled EXCEPT ![w] = {}]

\* Lock, recovering it from an owner that died (EOWNERDEAD), and take the next
\* sequence number.
Lock(w) ==
  /\ wpc[w] = "idle"
  /\ lock \in {Unlocked, OwnerDead}
  /\ writeSeq < MaxSeq
  /\ lock' = w
  /\ wpc' = [wpc EXCEPT ![w] = "locked"]
  /\ sequence' = [sequence EXCEPT ![w] = writeSeq + 1]
  /\ UNCHANGED <<writeSeq, slotSeq, slotWords, log, msg, filled, readerVars>>

\* Mark the slot as being written: its previous message is gone.
Mark(w) ==
  /\ wpc[w] = "locked"
  /\ slotSeq' = [slotSeq EXCEPT ![SlotAt(sequence[w])] = Writing(sequence[w])]
  /\ \E m \in Messages : msg' = [msg EXCEPT ![w] = m]
  /\ wpc' = [wpc EXCEPT ![w] = "filling"]
  /\ UNCHANGED <<lock, writeSeq, slotWords, log, sequence, filled, readerVars>>

\* Store one word of the message in place.
FillWord(w, d) ==
  /\ wpc[w] = "filling"
  /\ d \notin filled[w]
  /\ slotWords' = [slotWords EXCEPT ![SlotAt(sequence[w])][d] = msg[w][d]]
  /\ filled' = [filled EXCEPT ![w] = @ \cup {d}]
  /\ UNCHANGED <<lock, writeSeq, slotSeq, log, wpc, sequence, msg, readerVars>>

\* The fill function reports an error: unlock, nothing becomes visible.
FailFill(w) ==
  /\ wpc[w] = "filling"
  /\ lock' = Unlocked
  /\ Leave(w)
  /\ UNCHANGED <<writeSeq, slotSeq, slotWords, log, readerVars>>

\* All words are in place: store the sequence word without the writing bit.
CommitSlot(w) ==
  /\ wpc[w] = "filling"
  /\ filled[w] = Words
  /\ slotSeq' = [slotSeq EXCEPT ![SlotAt(sequence[w])] = Committed(sequence[w])]
  /\ wpc' = [wpc EXCEPT ![w] = "slot_done"]
  /\ UNCHANGED <<lock, writeSeq, slotWords, log, sequence, msg, filled, readerVars>>

\* Publish the sequence number: the message is committed.
CommitSeq(w) ==
  /\ wpc[w] = "slot_done"
  /\ writeSeq' = sequence[w]
  /\ log' = Append(log, msg[w])
  /\ wpc' = [wpc EXCEPT ![w] = "committed"]
  /\ UNCHANGED <<lock, slotSeq, slotWords, sequence, msg, filled, readerVars>>

Unlock(w) ==
  /\ wpc[w] = "committed"
  /\ lock' = Unlocked
  /\ Leave(w)
  /\ UNCHANGED <<writeSeq, slotSeq, slotWords, log, readerVars>>

\* The writer's process dies inside PublishWith; the kernel marks the mutex.
\* Another process may later publish in its place.
Crash(w) ==
  /\ wpc[w] # "idle"
  /\ lock' = OwnerDead
  /\ Leave(w)
  /\ UNCHANGED <<writeSeq, slotSeq, slotWords, log, readerVars>>
-----------------------------------------------------------------------------
(* Reader creation and TryRead *)

EffectiveDepth(r) ==
  IF Depth[r] = 0 THEN 1 ELSE IF Depth[r] > SlotCount THEN SlotCount ELSE Depth[r]

\* The oldest sequence number a reader of this depth still wants.
ClampCursor(c, newest, depth) ==
  LET oldest == IF newest >= depth THEN newest - depth + 1 ELSE 1
  IN  IF c > oldest THEN c ELSE oldest

\* CreateReader: start after the newest committed message.
OpenReader(r) ==
  /\ rpc[r] = "detached"
  /\ cursor' = [cursor EXCEPT ![r] = writeSeq + 1]
  /\ rpc' = [rpc EXCEPT ![r] = "idle"]
  /\ UNCHANGED <<sharedVars, writerVars, pass, copied, buf, dropped, got>>

StartRead(r) ==
  /\ rpc[r] = "idle"
  /\ rpc' = [rpc EXCEPT ![r] = "newest"]
  /\ pass' = [pass EXCEPT ![r] = 0]
  /\ UNCHANGED <<sharedVars, writerVars, cursor, copied, buf, dropped, got>>

\* The call ends without a message: no pass left, or nothing new.
NoPassLeft(r) == pass[r] >= PassLimit
NothingNew(r) == cursor[r] > writeSeq

\* What moving the cursor forward to c adds to the drops of the call.
Mut_Skipped(r, c) == 0
Skipped(r, c) == c - cursor[r]

\* Begin a pass: clamp the cursor to the messages still wanted.
LoadNewest(r) ==
  /\ rpc[r] = "newest"
  /\ IF NoPassLeft(r) \/ NothingNew(r)
     THEN /\ rpc' = [rpc EXCEPT ![r] = "idle"]
          /\ UNCHANGED <<cursor, dropped, pass>>
     ELSE LET clamped == ClampCursor(cursor[r], writeSeq, EffectiveDepth(r))
          IN  /\ dropped' = [dropped EXCEPT ![r] = @ + Skipped(r, clamped)]
              /\ cursor' = [cursor EXCEPT ![r] = clamped]
              /\ pass' = [pass EXCEPT ![r] = @ + 1]
              /\ rpc' = [rpc EXCEPT ![r] = "before"]
  /\ UNCHANGED <<sharedVars, writerVars, copied, buf, got>>

\* This message is lost: count it and go on to the next pass.
Mut_DropOne(r) ==
  /\ rpc' = [rpc EXCEPT ![r] = "newest"]
  /\ copied' = [copied EXCEPT ![r] = {}]
  /\ buf' = [buf EXCEPT ![r] = ZeroImage]
  /\ UNCHANGED <<cursor, dropped, got>>
DropOne(r) ==
  /\ dropped' = [dropped EXCEPT ![r] = @ + 1]
  /\ cursor' = [cursor EXCEPT ![r] = @ + 1]
  /\ rpc' = [rpc EXCEPT ![r] = "newest"]
  /\ copied' = [copied EXCEPT ![r] = {}]
  /\ buf' = [buf EXCEPT ![r] = ZeroImage]
  /\ UNCHANGED got

\* First load of the sequence word.
LoadBefore(r) ==
  /\ rpc[r] = "before"
  /\ \/ /\ slotSeq[SlotAt(cursor[r])] = Committed(cursor[r])
        /\ rpc' = [rpc EXCEPT ![r] = "copying"]
        /\ UNCHANGED <<cursor, dropped, copied, buf, got>>
     \/ /\ slotSeq[SlotAt(cursor[r])] # Committed(cursor[r])
        /\ DropOne(r)
  /\ UNCHANGED <<sharedVars, writerVars, pass>>

CopyWord(r, d) ==
  /\ rpc[r] = "copying"
  /\ d \notin copied[r]
  /\ buf' = [buf EXCEPT ![r][d] = slotWords[SlotAt(cursor[r])][d]]
  /\ copied' = [copied EXCEPT ![r] = @ \cup {d}]
  /\ UNCHANGED <<sharedVars, writerVars, rpc, pass, cursor, dropped, got>>

\* Second load of the sequence word: deliver the copy or drop it.
Mut_Intact(r) == TRUE
Intact(r) == slotSeq[SlotAt(cursor[r])] = Committed(cursor[r])

LoadAfter(r) ==
  /\ rpc[r] = "copying"
  /\ copied[r] = Words
  /\ \/ /\ Intact(r)
        /\ got' = [got EXCEPT ![r] = [sequence |-> cursor[r], payload |-> buf[r]]]
        /\ cursor' = [cursor EXCEPT ![r] = @ + 1]
        /\ rpc' = [rpc EXCEPT ![r] = "idle"]
        /\ copied' = [copied EXCEPT ![r] = {}]
        /\ buf' = [buf EXCEPT ![r] = ZeroImage]
        /\ UNCHANGED dropped
     \/ /\ ~Intact(r)
        /\ DropOne(r)
  /\ UNCHANGED <<sharedVars, writerVars, pass>>
-----------------------------------------------------------------------------
WriterStep(w) ==
  \/ Lock(w) \/ Mark(w) \/ FailFill(w) \/ CommitSlot(w) \/ CommitSeq(w)
  \/ Unlock(w) \/ Crash(w)
  \/ \E d \in Words : FillWord(w, d)

ReadStep(r) ==
  \/ StartRead(r) \/ LoadNewest(r) \/ LoadBefore(r) \/ LoadAfter(r)
  \/ \E d \in Words : CopyWord(r, d)

Next ==
  \/ \E w \in Writers : WriterStep(w)
  \/ \E r \in Readers : OpenReader(r) \/ ReadStep(r)

Spec == Init /\ [][Next]_vars

\* Readers keep calling Read and run; writers may stop anywhere.
FairSpec == Spec /\ \A r \in Readers : WF_vars(ReadStep(r))
-----------------------------------------------------------------------------
(* Properties *)

InLock(w) == wpc[w] # "idle"

SharedOK ==
  /\ lock \in Writers \cup {Unlocked, OwnerDead}
  /\ writeSeq \in Nat
  /\ slotSeq \in [Slots -> [seq : Nat, writing : BOOLEAN]]
  /\ slotWords \in [Slots -> Images]
  /\ log \in Seq(Messages)

WriterOK ==
  /\ wpc \in [Writers -> {"idle", "locked", "filling", "slot_done", "committed"}]
  /\ sequence \in [Writers -> Nat]
  /\ msg \in [Writers -> Images]
  /\ filled \in [Writers -> SUBSET Words]

ReaderOK ==
  /\ rpc \in [Readers -> {"detached", "idle", "newest", "before", "copying"}]
  /\ pass \in [Readers -> 0 .. PassLimit]
  /\ cursor \in [Readers -> Nat]
  /\ copied \in [Readers -> SUBSET Words]
  /\ buf \in [Readers -> Images]
  /\ dropped \in [Readers -> Nat]
  /\ got \in [Readers -> [sequence : Nat, payload : Images \cup {<< >>}]]

TypeOK == SharedOK /\ WriterOK /\ ReaderOK

\* A reader only ever receives committed messages, whole: the image it copied
\* word by word is the one a single writer committed under that sequence
\* number, whatever was written, abandoned or left by a crash in between.
ReceivedAsCommitted ==
  \A r \in Readers :
    got[r].sequence # 0 =>
      /\ got[r].sequence <= writeSeq
      /\ got[r].payload = log[got[r].sequence]

\* The newest committed messages stay readable: the slots of the last
\* SlotCount sequence numbers hold them, except the one a writer has marked.
NewestKept ==
  \A s \in 1 .. writeSeq :
    s > writeSeq - SlotCount =>
      \/ slotSeq[SlotAt(s)] = Committed(s) /\ slotWords[SlotAt(s)] = log[s]
      \/ s = writeSeq + 1 - SlotCount

(* The inductive invariant, in parts *)

\* The mutex excludes writers, and its holder owns the next sequence number.
LockInv ==
  \A w \in Writers :
    /\ wpc[w] # "idle" => lock = w
    /\ wpc[w] \in {"locked", "filling", "slot_done"} => sequence[w] = writeSeq + 1
    /\ wpc[w] \in {"filling", "slot_done"} => msg[w] \in Messages

\* What the writer has done to its slot so far.
WriterInv ==
  \A w \in Writers :
    /\ wpc[w] \in {"idle", "locked"} => filled[w] = {}
    /\ wpc[w] = "filling" =>
         /\ slotSeq[SlotAt(sequence[w])] = Writing(sequence[w])
         /\ \A d \in filled[w] : slotWords[SlotAt(sequence[w])][d] = msg[w][d]
    /\ wpc[w] = "slot_done" =>
         /\ slotSeq[SlotAt(sequence[w])] = Committed(sequence[w])
         /\ slotWords[SlotAt(sequence[w])] = msg[w]

\* A slot whose sequence word names a committed message holds that message.
SlotInv ==
  /\ Len(log) = writeSeq
  /\ \A i \in Slots :
       /\ slotSeq[i].seq # 0 => i = SlotAt(slotSeq[i].seq)
       /\ slotSeq[i].seq \in 1 .. writeSeq /\ ~slotSeq[i].writing
            => slotWords[i] = log[slotSeq[i].seq]

\* A copy in progress agrees with the log for as long as its slot does.
CopyInv(r) ==
  /\ rpc[r] = "detached" => cursor[r] = 0
  /\ rpc[r] # "detached" => cursor[r] \in 1 .. writeSeq + 1
  /\ rpc[r] \in {"before", "copying"} => cursor[r] <= writeSeq
  /\ rpc[r] # "copying" => copied[r] = {}
  /\ rpc[r] = "copying" /\ slotSeq[SlotAt(cursor[r])] = Committed(cursor[r])
       => \A d \in copied[r] : buf[r][d] = log[cursor[r]][d]

ReaderInv == \A r \in Readers : CopyInv(r)

RingInv ==
  TypeOK /\ LockInv /\ WriterInv /\ SlotInv /\ ReaderInv /\ ReceivedAsCommitted

\* The segment implements the abstract topic: one log, every reader a
\* subsequence of it in order, every loss counted.
ImplementsTopicLog == Topic!LogSpec

\* A reader always gets to the end of the log again, also past slots that a
\* failed or dead writer left marked.
ReaderCatchesUp ==
  \A r \in Readers : rpc[r] # "detached" ~> cursor[r] > writeSeq
=============================================================================
