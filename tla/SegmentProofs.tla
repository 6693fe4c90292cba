--------------------------- MODULE SegmentProofs ----------------------------
(***************************************************************************)
(* Proofs about the two halves of a shared-memory segment (segment.cpp),   *)
(* for any number of processes, threads, slots, words and entries.         *)
(*                                                                         *)
(* SegmentRing, the message ring: a reader receives exactly committed      *)
(* messages, the newest ones stay readable, and the ring implements        *)
(* TopicLog.                                                               *)
(*                                                                         *)
(* ShmParticipants, the participant table: a running process keeps its     *)
(* entry for itself, and a process that joins frees the entries of those   *)
(* that died holding one, until a release overwrites a state it has not    *)
(* loaded.                                                                 *)
(***************************************************************************)
EXTENDS Integers, SegmentRing, ShmParticipants, TLAPS

\* The reader's tests are abbreviations to the proofs.
USE DEF NoPassLeft, NothingNew, Skipped, Intact

\* Every sequence number has a slot.
LEMMA SlotAtSlots == \A s \in Nat : SlotAt(s) \in Slots
  BY RingAssumption DEF SlotAt, Slots

\* A clamped cursor never goes back and never passes the newest message.
LEMMA ClampBounds ==
  \A c, n \in Nat, r \in Readers : 1 <= c /\ c <= n =>
    ClampCursor(c, n, EffectiveDepth(r)) \in c .. n
  <1> SUFFICES ASSUME NEW c \in Nat, NEW n \in Nat, NEW r \in Readers, 1 <= c, c <= n
               PROVE  ClampCursor(c, n, EffectiveDepth(r)) \in c .. n
    OBVIOUS
  <1>1. EffectiveDepth(r) \in Nat /\ EffectiveDepth(r) >= 1
    BY RingAssumption DEF EffectiveDepth
  <1> QED BY <1>1 DEF ClampCursor

\* A freshly created slot holds an image.
LEMMA ZeroImageType == ZeroImage \in Images
  BY RingAssumption DEF ZeroImage, Images

\* Storing one word into an image yields an image.
LEMMA ImageStore ==
  \A m \in Images, d \in Words, v \in Values : [m EXCEPT ![d] = v] \in Images
  BY DEF Images

\* What a callback fills in completely is an image.
LEMMA MessageImage == Messages \subseteq Images
  BY RingAssumption DEF Images

\* A newly created segment satisfies the invariant.
LEMMA InitRing == Init => RingInv
  <1> SUFFICES ASSUME Init PROVE RingInv
    OBVIOUS
  <1> USE RingAssumption, ZeroImageType
  <1>1. TypeOK
    <2>1. SharedOK
      BY DEF Init, SharedOK, Slots, Committed
    <2>2. WriterOK
      BY DEF Init, WriterOK
    <2>3. ReaderOK
      BY DEF Init, ReaderOK, Topic!NoMessage
    <2> QED BY <2>1, <2>2, <2>3 DEF TypeOK
  <1>2. LockInv /\ WriterInv
    BY DEF Init, LockInv, WriterInv
  <1>3. SlotInv
    BY DEF Init, SlotInv, Committed, Slots
  <1>4. ReaderInv /\ ReceivedAsCommitted
    BY DEF Init, ReaderInv, CopyInv, ReceivedAsCommitted, Topic!NoMessage
  <1> QED BY <1>1, <1>2, <1>3, <1>4 DEF RingInv

\* Typing is preserved by every step.
LEMMA TypeStep == TypeOK /\ ReaderInv /\ LockInv /\ [Next]_vars => TypeOK'
  <1> SUFFICES ASSUME TypeOK, ReaderInv, LockInv, [Next]_vars PROVE TypeOK'
    OBVIOUS
  <1> USE RingAssumption, SlotAtSlots, ZeroImageType, MessageImage DEF TypeOK
  <1>1. ASSUME NEW w \in Writers, WriterStep(w) PROVE TypeOK'
    <2> USE DEF Leave, SharedOK, WriterOK
    <2>0. UNCHANGED readerVars
      BY <1>1 DEF WriterStep, Lock, Mark, FailFill, CommitSlot, CommitSeq, Unlock, Crash, FillWord
    <2>1. ReaderOK'
      BY <2>0 DEF ReaderOK, readerVars
    <2>2. SharedOK' /\ WriterOK'
      <3>1. CASE Lock(w) 
        <4>1. writeSeq + 1 \in Nat OBVIOUS
        <4> QED BY <3>1, <4>1 DEF Lock
      <3>2. CASE Mark(w) BY <3>2 DEF Mark, Writing
      <3>3. CASE FailFill(w) BY <3>3 DEF FailFill
      <3>4. CASE CommitSlot(w) BY <3>4 DEF CommitSlot, Committed
      <3>5. CASE CommitSeq(w)
        <4>1. msg[w] \in Messages /\ sequence[w] \in Nat
          BY <3>5 DEF CommitSeq, LockInv
        <4>2. log' = Append(log, msg[w]) /\ writeSeq' = sequence[w]
          BY <3>5 DEF CommitSeq
        <4>3. log' \in Seq(Messages) /\ writeSeq' \in Nat
          BY <4>1, <4>2
        <4> QED BY <3>5, <4>3 DEF CommitSeq
      <3>6. CASE Unlock(w) BY <3>6 DEF Unlock
      <3>7. CASE Crash(w) BY <3>7 DEF Crash
      <3>8. ASSUME NEW d \in Words, FillWord(w, d) PROVE SharedOK' /\ WriterOK'
        <4> DEFINE i == SlotAt(sequence[w])
        <4>1. i \in Slots /\ msg[w][d] \in Values
          BY DEF Images
        <4>2. [slotWords[i] EXCEPT ![d] = msg[w][d]] \in Images
          BY <4>1, ImageStore
        <4>3. slotWords' = [slotWords EXCEPT ![i] = [slotWords[i] EXCEPT ![d] = msg[w][d]]]
          BY <3>8 DEF FillWord
        <4>4. slotWords' \in [Slots -> Images]
          BY <4>1, <4>2, <4>3
        <4> QED BY <3>8, <4>4 DEF FillWord
      <3> QED BY <1>1, <3>1, <3>2, <3>3, <3>4, <3>5, <3>6, <3>7, <3>8 DEF WriterStep
    <2> QED BY <2>1, <2>2
  <1>2. ASSUME NEW r \in Readers, OpenReader(r) \/ ReadStep(r) PROVE TypeOK'
    <2>0. UNCHANGED <<sharedVars, writerVars>>
      BY <1>2 DEF OpenReader, ReadStep, StartRead, LoadNewest, LoadBefore, LoadAfter, CopyWord
    <2>1. SharedOK' /\ WriterOK'
      BY <2>0 DEF SharedOK, WriterOK, sharedVars, writerVars
    <2>2. ReaderOK'
      <3> USE DEF ReaderOK
      <3>1. CASE StartRead(r) BY <3>1 DEF StartRead
      <3>2. CASE LoadNewest(r)
        <4> DEFINE clamped == ClampCursor(cursor[r], writeSeq, EffectiveDepth(r))
        <4>1. CASE NoPassLeft(r) \/ NothingNew(r)
          BY <3>2, <4>1 DEF LoadNewest
        <4>2. CASE ~(NoPassLeft(r) \/ NothingNew(r))
          <5>1. clamped \in cursor[r] .. writeSeq
            <6>1. cursor[r] \in 1 .. writeSeq /\ writeSeq \in Nat
              <7>1. rpc[r] = "newest" BY <3>2 DEF LoadNewest
              <7>2. cursor[r] \in 1 .. writeSeq + 1 BY <7>1 DEF ReaderInv, CopyInv
              <7> QED BY <4>2, <7>2 DEF SharedOK
            <6> QED BY <6>1, ClampBounds
          <5> HIDE DEF clamped
          <5>2. clamped \in Nat /\ clamped - cursor[r] \in Nat
            <6>1. cursor[r] \in Nat /\ writeSeq \in Nat
              BY DEF SharedOK
            <6> HIDE DEF TypeOK, ReaderOK
            <6> QED BY ONLY <5>1, <6>1
          <5>3. /\ dropped' = [dropped EXCEPT ![r] = @ + Skipped(r, clamped)]
                /\ cursor' = [cursor EXCEPT ![r] = clamped]
                /\ pass' = [pass EXCEPT ![r] = @ + 1]
                /\ rpc' = [rpc EXCEPT ![r] = "before"]
                /\ UNCHANGED <<copied, buf, got>>
            BY <3>2, <4>2 DEF LoadNewest, clamped
          <5>4. pass[r] + 1 \in 0 .. PassLimit
            BY <4>2
          <5>5. dropped[r] + (clamped - cursor[r]) \in Nat
            <6>1. dropped[r] \in Nat
              OBVIOUS
            <6> QED BY ONLY <5>2, <6>1
          <5> QED BY <5>2, <5>3, <5>4, <5>5
        <4> QED BY <4>1, <4>2
      <3>0. /\ cursor[r] \in Nat /\ cursor[r] + 1 \in Nat
            /\ dropped[r] + 1 \in Nat
        OBVIOUS
      <3>3. CASE LoadBefore(r)
        <4>1. CASE slotSeq[SlotAt(cursor[r])] = Committed(cursor[r])
          BY <3>3, <4>1 DEF LoadBefore
        <4>2. CASE slotSeq[SlotAt(cursor[r])] # Committed(cursor[r])
          <5>1. DropOne(r) /\ UNCHANGED pass BY <3>3, <4>2 DEF LoadBefore
          <5> QED BY <3>0, <5>1 DEF DropOne
        <4> QED BY <4>1, <4>2
      <3>4. CASE LoadAfter(r)
        <4>1. [sequence |-> cursor[r], payload |-> buf[r]]
                \in [sequence : Nat, payload : Images \cup {<< >>}]
          BY <3>0
        <4>2. CASE slotSeq[SlotAt(cursor[r])] = Committed(cursor[r])
          <5>1. /\ got' = [got EXCEPT ![r] = [sequence |-> cursor[r], payload |-> buf[r]]]
                /\ cursor' = [cursor EXCEPT ![r] = @ + 1]
                /\ rpc' = [rpc EXCEPT ![r] = "idle"]
                /\ copied' = [copied EXCEPT ![r] = {}]
                /\ buf' = [buf EXCEPT ![r] = ZeroImage]
                /\ UNCHANGED <<dropped, pass>>
            BY <3>4, <4>2 DEF LoadAfter
          <5>2. got' \in [Readers -> [sequence : Nat, payload : Images \cup {<< >>}]]
            BY <4>1, <5>1
          <5> QED BY <3>0, <5>1, <5>2
        <4>3. CASE slotSeq[SlotAt(cursor[r])] # Committed(cursor[r])
          <5>1. DropOne(r) /\ UNCHANGED pass BY <3>4, <4>3 DEF LoadAfter
          <5> QED BY <3>0, <5>1 DEF DropOne
        <4> QED BY <4>2, <4>3
      <3>5. ASSUME NEW d \in Words, CopyWord(r, d) PROVE ReaderOK'
        <4> DEFINE v == slotWords[SlotAt(cursor[r])][d]
        <4>1. v \in Values
          BY DEF SharedOK, Images
        <4>2. [buf[r] EXCEPT ![d] = v] \in Images
          BY <4>1, ImageStore
        <4>3. buf' = [buf EXCEPT ![r] = [buf[r] EXCEPT ![d] = v]]
          BY <3>5 DEF CopyWord
        <4>4. buf' \in [Readers -> Images]
          BY <4>2, <4>3
        <4> QED BY <3>5, <4>4 DEF CopyWord
      <3>6. CASE OpenReader(r)
        <4>1. writeSeq + 1 \in Nat BY DEF SharedOK
        <4> QED BY <3>6, <4>1 DEF OpenReader
      <3> QED BY <1>2, <3>1, <3>2, <3>3, <3>4, <3>5, <3>6 DEF ReadStep
    <2> QED BY <2>1, <2>2
  <1>3. CASE UNCHANGED vars BY <1>3 DEF vars, SharedOK, WriterOK, ReaderOK
  <1> QED BY <1>1, <1>2, <1>3 DEF Next

\* Only the mutex holder is inside PublishWith.
LEMMA OthersIdle ==
  ASSUME TypeOK, LockInv, NEW w \in Writers, WriterStep(w)
  PROVE  \A x \in Writers \ {w} : wpc[x] = "idle"
  <1>1. lock = w \/ lock = Unlocked \/ lock = OwnerDead
    BY DEF WriterStep, Lock, Mark, FailFill, CommitSlot, CommitSeq, Unlock, Crash,
           FillWord, LockInv
  <1> QED BY <1>1, RingAssumption DEF LockInv

\* The writers' parts of the invariant are preserved by writer steps.
LEMMA WriterStepWriters ==
  ASSUME TypeOK, LockInv, WriterInv, NEW w \in Writers, WriterStep(w)
  PROVE  LockInv' /\ WriterInv'
  <1>0. \A x \in Writers \ {w} : wpc[x] = "idle"
    BY OthersIdle
  <1>1. \A x \in Writers \ {w} : wpc'[x] = "idle" /\ filled'[x] = {}
    BY <1>0 DEF WriterInv, WriterStep, Lock, Mark, FailFill, CommitSlot, CommitSeq, Unlock, Crash,
           FillWord, Leave, TypeOK, WriterOK
  <1>2. SUFFICES
          /\ wpc'[w] # "idle" => lock' = w
          /\ wpc'[w] \in {"locked", "filling", "slot_done"} => sequence'[w] = writeSeq' + 1
          /\ wpc'[w] \in {"filling", "slot_done"} => msg'[w] \in Messages
          /\ wpc'[w] \in {"idle", "locked"} => filled'[w] = {}
          /\ wpc'[w] = "filling" =>
               /\ slotSeq'[SlotAt(sequence'[w])] = Writing(sequence'[w])
               /\ \A d \in filled'[w] : slotWords'[SlotAt(sequence'[w])][d] = msg'[w][d]
          /\ wpc'[w] = "slot_done" =>
               /\ slotSeq'[SlotAt(sequence'[w])] = Committed(sequence'[w])
               /\ slotWords'[SlotAt(sequence'[w])] = msg'[w]
    BY <1>1 DEF LockInv, WriterInv
  <1> USE DEF TypeOK, SharedOK, WriterOK
  <1>3. SlotAt(sequence[w]) \in Slots
    BY SlotAtSlots
  <1>4. CASE FailFill(w) \/ Unlock(w) \/ Crash(w)
    BY <1>4 DEF FailFill, Unlock, Crash, Leave
  <1>5. CASE Lock(w)
    BY <1>5 DEF Lock, WriterInv
  <1>6. CASE Mark(w)
    BY <1>3, <1>6 DEF Mark, LockInv, WriterInv
  <1>7. CASE CommitSlot(w)
    <2>1. slotWords[SlotAt(sequence[w])] = msg[w]
      <3>1. slotWords[SlotAt(sequence[w])] \in Images /\ msg[w] \in Images
        BY <1>3
      <3>2. \A d \in Words : slotWords[SlotAt(sequence[w])][d] = msg[w][d]
        BY <1>7 DEF CommitSlot, WriterInv
      <3> QED BY <3>1, <3>2 DEF Images
    <2> QED BY <1>3, <1>7, <2>1 DEF CommitSlot, LockInv
  <1>8. CASE CommitSeq(w)
    BY <1>8 DEF CommitSeq, LockInv
  <1>9. CASE \E d \in Words : FillWord(w, d)
    <2>1. PICK d \in Words : FillWord(w, d)
      BY <1>9
    <2> QED BY <1>3, <2>1 DEF FillWord, LockInv, WriterInv, Images
  <1> QED BY <1>4, <1>5, <1>6, <1>7, <1>8, <1>9 DEF WriterStep

\* What the slots and the readers' copies say of the log is preserved by
\* writer steps.
LEMMA WriterStepSlots ==
  ASSUME RingInv, NEW w \in Writers, WriterStep(w)
  PROVE  SlotInv' /\ ReaderInv' /\ ReceivedAsCommitted'
  <1> USE DEF RingInv, TypeOK, SharedOK
  <1>0. UNCHANGED readerVars
    BY DEF WriterStep, Lock, Mark, FailFill, CommitSlot, CommitSeq, Unlock, Crash, FillWord
  <1>1. /\ UNCHANGED <<rpc, cursor, copied, buf, got>>
        /\ cursor \in [Readers -> Nat] /\ got \in [Readers -> [sequence : Nat, payload : Images \cup {<< >>}]]
    BY <1>0 DEF readerVars, ReaderOK
  <1>2. /\ SlotAt(sequence[w]) \in Slots /\ sequence[w] \in Nat
        /\ \A r \in Readers : SlotAt(cursor[r]) \in Slots
    BY SlotAtSlots, <1>1 DEF WriterOK
  <1>3. CASE Lock(w) \/ FailFill(w) \/ Unlock(w) \/ Crash(w)
    <2>1. UNCHANGED <<writeSeq, slotSeq, slotWords, log>>
      BY <1>3 DEF Lock, FailFill, Unlock, Crash
    <2> QED BY <1>1, <2>1 DEF SlotInv, ReaderInv, CopyInv, ReceivedAsCommitted
  <1>4. CASE Mark(w)
    <2>1. /\ slotSeq' = [slotSeq EXCEPT ![SlotAt(sequence[w])] = Writing(sequence[w])]
          /\ UNCHANGED <<writeSeq, slotWords, log>>
      BY <1>4 DEF Mark
    <2>2. SlotInv'
      BY <1>2, <2>1 DEF SlotInv, Writing
    <2>3. ReaderInv'
      BY <1>1, <1>2, <2>1 DEF ReaderInv, CopyInv, Writing, Committed
    <2> QED BY <1>1, <2>1, <2>2, <2>3 DEF ReceivedAsCommitted
  <1>5. CASE \E d \in Words : FillWord(w, d)
    <2>1. PICK d \in Words : FillWord(w, d)
      BY <1>5
    <2>2. /\ slotSeq[SlotAt(sequence[w])] = Writing(sequence[w])
          /\ \A i \in Slots \ {SlotAt(sequence[w])} : slotWords'[i] = slotWords[i]
          /\ UNCHANGED <<writeSeq, slotSeq, log>>
      BY <1>2, <2>1 DEF FillWord, WriterInv
    <2>3. SlotInv'
      BY <1>2, <2>2 DEF SlotInv, Writing
    <2> QED BY <1>1, <2>2, <2>3 DEF ReaderInv, CopyInv, ReceivedAsCommitted
  <1>6. CASE CommitSlot(w)
    <2>1. /\ slotSeq' = [slotSeq EXCEPT ![SlotAt(sequence[w])] = Committed(sequence[w])]
          /\ UNCHANGED <<writeSeq, slotWords, log>>
          /\ sequence[w] = writeSeq + 1
      BY <1>6 DEF CommitSlot, LockInv
    <2>2. SlotInv'
      BY <1>2, <2>1 DEF SlotInv, Committed
    <2>3. ReaderInv'
      BY <1>1, <1>2, <2>1 DEF ReaderInv, CopyInv, Committed
    <2> QED BY <1>1, <2>1, <2>2, <2>3 DEF ReceivedAsCommitted
  <1>7. CASE CommitSeq(w)
    <2>1. /\ writeSeq' = writeSeq + 1
          /\ log' = Append(log, msg[w])
          /\ UNCHANGED <<slotSeq, slotWords>>
          /\ slotSeq[SlotAt(sequence[w])] = Committed(writeSeq + 1)
          /\ slotWords[SlotAt(sequence[w])] = msg[w]
          /\ sequence[w] = writeSeq + 1
          /\ msg[w] \in Messages
      BY <1>7 DEF CommitSeq, LockInv, WriterInv
    <2>2. /\ Len(log) = writeSeq
          /\ Len(log') = writeSeq + 1
          /\ log'[writeSeq + 1] = msg[w]
          /\ \A s \in 1 .. writeSeq : log'[s] = log[s]
      BY <2>1 DEF SlotInv
    <2>3. SlotInv'
      BY <2>1, <2>2 DEF SlotInv, Committed
    <2>4. ReaderInv'
      BY <1>1, <2>1, <2>2 DEF ReaderInv, CopyInv
    <2>5. ReceivedAsCommitted'
      BY <1>1, <2>1, <2>2 DEF ReceivedAsCommitted
    <2> QED BY <2>3, <2>4, <2>5
  <1> QED BY <1>3, <1>4, <1>5, <1>6, <1>7 DEF WriterStep

\* The value received agrees with the log.
ReceivedOf(r) ==
  got[r].sequence # 0 =>
    got[r].sequence <= writeSeq /\ got[r].payload = log[got[r].sequence]

\* A reader step leaves the shared state and the other readers alone and keeps
\* its own part of the invariant.
LEMMA ReaderStepInv ==
  ASSUME RingInv, NEW r \in Readers, OpenReader(r) \/ ReadStep(r)
  PROVE  LockInv' /\ WriterInv' /\ SlotInv' /\ ReaderInv' /\ ReceivedAsCommitted'
  <1> USE DEF RingInv
  <1>0. UNCHANGED <<sharedVars, writerVars>>
    BY DEF OpenReader, ReadStep, StartRead, LoadNewest, LoadBefore, LoadAfter, CopyWord
  <1>1. /\ UNCHANGED <<lock, writeSeq, slotSeq, slotWords, log, wpc, sequence, msg, filled>>
        /\ writeSeq \in Nat
    BY <1>0 DEF sharedVars, writerVars, SharedOK, TypeOK
  <1>2. LockInv' /\ WriterInv' /\ SlotInv'
    BY <1>1 DEF LockInv, WriterInv, SlotInv
  <1>t. /\ cursor[r] \in Nat /\ buf[r] \in Images /\ copied[r] \subseteq Words
        /\ CopyInv(r) /\ ReceivedOf(r)
    BY DEF TypeOK, ReaderOK, ReaderInv, ReceivedAsCommitted, ReceivedOf
  <1>o. \A q \in Readers \ {r} :
          /\ rpc'[q] = rpc[q] /\ cursor'[q] = cursor[q] /\ copied'[q] = copied[q]
          /\ buf'[q] = buf[q] /\ got'[q] = got[q]
    BY DEF TypeOK, ReaderOK, OpenReader, ReadStep, StartRead, LoadNewest, LoadBefore,
           LoadAfter, CopyWord, DropOne
  <1>3. SUFFICES CopyInv(r)' /\ ReceivedOf(r)'
    BY <1>1, <1>2, <1>o DEF ReaderInv, CopyInv, ReceivedAsCommitted, ReceivedOf
  <1>u. /\ \A f : rpc' = [rpc EXCEPT ![r] = f] => rpc'[r] = f
        /\ \A f : cursor' = [cursor EXCEPT ![r] = f] => cursor'[r] = f
        /\ \A f : copied' = [copied EXCEPT ![r] = f] => copied'[r] = f
        /\ \A f : buf' = [buf EXCEPT ![r] = f] => buf'[r] = f
        /\ \A f : got' = [got EXCEPT ![r] = f] => got'[r] = f
    BY DEF TypeOK, ReaderOK
  <1>d. ASSUME DropOne(r), cursor[r] \in 1 .. writeSeq
        PROVE  CopyInv(r)' /\ ReceivedOf(r)'
    <2>1. /\ rpc'[r] = "newest" /\ copied'[r] = {} /\ cursor'[r] = cursor[r] + 1
          /\ got' = got
      BY <1>u, <1>d DEF DropOne
    <2> QED BY <1>1, <1>t, <1>d, <2>1 DEF CopyInv, ReceivedOf
  <1>4. CASE OpenReader(r)
    <2>1. /\ rpc'[r] = "idle" /\ cursor'[r] = writeSeq + 1 /\ rpc[r] = "detached"
          /\ UNCHANGED <<copied, got>>
      BY <1>u, <1>4 DEF OpenReader
    <2> QED BY <1>1, <1>t, <2>1 DEF CopyInv, ReceivedOf
  <1>5. CASE StartRead(r)
    BY <1>1, <1>t, <1>u, <1>5 DEF StartRead, CopyInv, ReceivedOf
  <1>6. CASE LoadNewest(r)
    <2> DEFINE clamped == ClampCursor(cursor[r], writeSeq, EffectiveDepth(r))
    <2>1. CASE NoPassLeft(r) \/ NothingNew(r)
      BY <1>1, <1>t, <1>u, <1>6, <2>1 DEF LoadNewest, CopyInv, ReceivedOf
    <2>2. CASE ~(NoPassLeft(r) \/ NothingNew(r))
      <3>1. rpc[r] = "newest" BY <1>6 DEF LoadNewest
      <3>2. cursor[r] \in 1 .. writeSeq BY <1>1, <1>t, <2>2, <3>1 DEF CopyInv
      <3>3. clamped \in cursor[r] .. writeSeq
        BY <1>1, <3>2, ClampBounds
      <3>4. /\ cursor' = [cursor EXCEPT ![r] = clamped]
            /\ rpc' = [rpc EXCEPT ![r] = "before"]
            /\ UNCHANGED <<copied, buf, got>>
        BY <1>6, <2>2 DEF LoadNewest
      <3> HIDE DEF clamped
      <3>5. clamped \in 1 .. writeSeq
        BY <1>1, <1>t, <3>2, <3>3
      <3>6. rpc'[r] = "before" /\ cursor'[r] = clamped
        BY <1>u, <3>4
      <3> QED BY <1>1, <1>t, <3>1, <3>4, <3>5, <3>6 DEF CopyInv, ReceivedOf
    <2> QED BY <2>1, <2>2
  <1>7. CASE LoadBefore(r)
    <2>1. cursor[r] \in 1 .. writeSeq
      BY <1>1, <1>t, <1>7 DEF LoadBefore, CopyInv
    <2>2. CASE DropOne(r)
      BY <1>d, <2>1, <2>2
    <2>3. CASE ~DropOne(r)
      BY <1>1, <1>t, <1>u, <1>7, <2>1, <2>3 DEF LoadBefore, CopyInv, ReceivedOf
    <2> QED BY <2>2, <2>3
  <1>8. CASE LoadAfter(r)
    <2>1. cursor[r] \in 1 .. writeSeq /\ rpc[r] = "copying" /\ copied[r] = Words
      BY <1>1, <1>t, <1>8 DEF LoadAfter, CopyInv
    <2>2. CASE DropOne(r)
      BY <1>d, <2>1, <2>2
    <2>3. CASE ~DropOne(r)
      <3>1. /\ slotSeq[SlotAt(cursor[r])] = Committed(cursor[r])
            /\ got' = [got EXCEPT ![r] = [sequence |-> cursor[r], payload |-> buf[r]]]
            /\ cursor' = [cursor EXCEPT ![r] = @ + 1]
            /\ rpc' = [rpc EXCEPT ![r] = "idle"]
            /\ copied' = [copied EXCEPT ![r] = {}]
        BY <1>8, <2>3 DEF LoadAfter
      <3>2. buf[r] = log[cursor[r]]
        <4>1. log[cursor[r]] \in Images
          BY <2>1, MessageImage DEF SlotInv, SharedOK, TypeOK
        <4>2. \A d \in Words : buf[r][d] = log[cursor[r]][d]
          BY <1>t, <2>1, <3>1 DEF CopyInv
        <4> QED BY <1>t, <4>1, <4>2 DEF Images
      <3>3. /\ got'[r].sequence = cursor[r] /\ got'[r].payload = buf[r]
            /\ rpc'[r] = "idle" /\ copied'[r] = {} /\ cursor'[r] = cursor[r] + 1
        <4>1. got'[r] = [sequence |-> cursor[r], payload |-> buf[r]]
          BY <1>u, <3>1
        <4>2. rpc'[r] = "idle" /\ copied'[r] = {} /\ cursor'[r] = cursor[r] + 1
          BY <1>u, <3>1
        <4> QED BY <4>1, <4>2
      <3>4. ReceivedOf(r)'
        BY <1>1, <2>1, <3>2, <3>3 DEF ReceivedOf
      <3>5. CopyInv(r)'
        BY <1>1, <2>1, <3>3 DEF CopyInv
      <3> QED BY <3>4, <3>5
    <2> QED BY <2>2, <2>3
  <1>9. CASE \E d \in Words : CopyWord(r, d)
    <2>1. PICK d \in Words : CopyWord(r, d)
      BY <1>9
    <2>2. rpc[r] = "copying" /\ cursor[r] \in 1 .. writeSeq /\ SlotAt(cursor[r]) \in Slots
      BY <1>1, <1>t, <2>1, SlotAtSlots DEF CopyWord, CopyInv
    <2>3. /\ buf' = [buf EXCEPT ![r] = [buf[r] EXCEPT ![d] = slotWords[SlotAt(cursor[r])][d]]]
          /\ copied' = [copied EXCEPT ![r] = @ \cup {d}]
          /\ UNCHANGED <<rpc, cursor, got>>
      BY <2>1 DEF CopyWord
    <2>4. slotSeq[SlotAt(cursor[r])] = Committed(cursor[r])
            => slotWords[SlotAt(cursor[r])] = log[cursor[r]]
      BY <2>2 DEF SlotInv, Committed
    <2>5. /\ buf'[r] = [buf[r] EXCEPT ![d] = slotWords[SlotAt(cursor[r])][d]]
          /\ copied'[r] = copied[r] \cup {d}
      BY <1>u, <2>3
    <2>6. \A e \in Words : buf'[r][e] = IF e = d THEN slotWords[SlotAt(cursor[r])][d] ELSE buf[r][e]
      BY <1>t, <2>5 DEF Images
    <2>7. CopyInv(r)'
      BY <1>1, <1>t, <2>2, <2>3, <2>4, <2>5, <2>6 DEF CopyInv
    <2> QED BY <1>1, <1>t, <2>3, <2>7 DEF ReceivedOf
  <1> QED BY <1>4, <1>5, <1>6, <1>7, <1>8, <1>9 DEF ReadStep

\* Every step of every process preserves the invariant.
LEMMA RingStep == RingInv /\ [Next]_vars => RingInv'
  <1> SUFFICES ASSUME RingInv, [Next]_vars PROVE RingInv'
    OBVIOUS
  <1>1. TypeOK'
    BY TypeStep DEF RingInv
  <1>2. ASSUME NEW w \in Writers, WriterStep(w) PROVE RingInv'
    <2>1. LockInv' /\ WriterInv'
      BY <1>2, WriterStepWriters DEF RingInv
    <2>2. SlotInv' /\ ReaderInv' /\ ReceivedAsCommitted'
      BY <1>2, WriterStepSlots
    <2> QED BY <1>1, <2>1, <2>2 DEF RingInv
  <1>3. ASSUME NEW r \in Readers, OpenReader(r) \/ ReadStep(r) PROVE RingInv'
    <2>1. LockInv' /\ WriterInv' /\ SlotInv' /\ ReaderInv' /\ ReceivedAsCommitted'
      BY <1>3, ReaderStepInv
    <2> QED BY <1>1, <2>1 DEF RingInv
  <1>4. CASE UNCHANGED vars
    BY <1>1, <1>4 DEF vars, RingInv, LockInv, WriterInv, SlotInv, ReaderInv, CopyInv, ReceivedAsCommitted
  <1> QED BY <1>2, <1>3, <1>4 DEF Next

\* The inductive invariant of the ring holds in every reachable state.
THEOREM RingInvariant == Spec => []RingInv
  BY InitRing, RingStep, PTL DEF Spec

\* No reader receives a torn, abandoned or uncommitted message.
THEOREM NoTornRead == Spec => []ReceivedAsCommitted
  <1>1. RingInv => ReceivedAsCommitted
    BY DEF RingInv
  <1> QED BY <1>1, RingInvariant, PTL

\* Every writer step is a step of the abstract topic or changes nothing of it.
LEMMA WriterRefines ==
  ASSUME RingInv, NEW w \in Writers, WriterStep(w)
  PROVE  [Topic!LogNext]_(Topic!logVars)
  <1>1. UNCHANGED <<cursor, dropped, got>>
    BY DEF WriterStep, Lock, Mark, FailFill, CommitSlot, CommitSeq, Unlock, Crash,
           FillWord, readerVars
  <1>2. CASE CommitSeq(w)
    <2>1. msg[w] \in Messages /\ log' = Append(log, msg[w])
      BY <1>2 DEF CommitSeq, RingInv, LockInv
    <2> QED BY <1>1, <2>1 DEF Topic!LogNext, Topic!Append1
  <1>3. CASE ~CommitSeq(w)
    <2>1. log' = log
      BY <1>3 DEF WriterStep, Lock, Mark, FailFill, CommitSlot, Unlock, Crash, FillWord
    <2> QED BY <1>1, <2>1 DEF Topic!logVars
  <1> QED BY <1>2, <1>3

\* Dropping the message at the cursor is a skip of the abstract reader.
LEMMA DropRefines ==
  ASSUME RingInv, NEW r \in Readers, DropOne(r), log' = log, cursor[r] \in 1 .. writeSeq
  PROVE  [Topic!LogNext]_(Topic!logVars)
  <1>1. cursor[r] \in Nat /\ Len(log) = writeSeq /\ writeSeq \in Nat
    BY DEF RingInv, SlotInv, TypeOK, SharedOK, ReaderOK
  <1>2. Topic!Skip(r, cursor[r] + 1)
    <2>1. (cursor[r] + 1) - cursor[r] = 1
      BY <1>1
    <2>2. cursor[r] # 0 /\ cursor[r] < cursor[r] + 1 /\ cursor[r] + 1 <= Len(log) + 1
      BY <1>1
    <2>3. dropped' = [dropped EXCEPT ![r] = @ + ((cursor[r] + 1) - cursor[r])]
      BY <2>1 DEF DropOne
    <2> QED BY <2>2, <2>3 DEF DropOne, Topic!Skip
  <1>3. cursor[r] + 1 \in 1 .. Len(log) + 1
    BY <1>1
  <1> QED BY <1>2, <1>3 DEF Topic!LogNext

\* Every reader step is a step of the abstract topic or changes nothing of it.
LEMMA ReaderRefines ==
  ASSUME RingInv, NEW r \in Readers, OpenReader(r) \/ ReadStep(r)
  PROVE  [Topic!LogNext]_(Topic!logVars)
  <1>0. UNCHANGED sharedVars
    BY DEF OpenReader, ReadStep, StartRead, LoadNewest, LoadBefore, LoadAfter, CopyWord
  <1>1. /\ log' = log /\ Len(log) = writeSeq /\ writeSeq \in Nat
        /\ cursor[r] \in Nat /\ CopyInv(r)
    BY <1>0 DEF sharedVars, RingInv, SlotInv, TypeOK, SharedOK, ReaderOK, ReaderInv
  <1>2. CASE OpenReader(r)
    <2>1. Topic!Join(r)
      BY <1>1, <1>2 DEF OpenReader, CopyInv, Topic!Join
    <2> QED BY <2>1 DEF Topic!LogNext
  <1>3. CASE StartRead(r) \/ \E d \in Words : CopyWord(r, d)
    <2>1. UNCHANGED <<cursor, dropped, got>>
      BY <1>3 DEF StartRead, CopyWord
    <2> QED BY <1>1, <2>1 DEF Topic!logVars
  <1>4. CASE LoadNewest(r)
    <2> DEFINE clamped == ClampCursor(cursor[r], writeSeq, EffectiveDepth(r))
    <2>1. CASE NoPassLeft(r) \/ NothingNew(r)
      BY <1>1, <1>4, <2>1 DEF LoadNewest, Topic!logVars
    <2>2. CASE ~(NoPassLeft(r) \/ NothingNew(r))
      <3>1. rpc[r] = "newest"
        BY <1>4 DEF LoadNewest
      <3>2. cursor[r] \in 1 .. writeSeq
        BY <1>1, <2>2, <3>1 DEF CopyInv
      <3>3. clamped \in cursor[r] .. writeSeq
        BY <1>1, <3>2, ClampBounds
      <3>4. /\ cursor' = [cursor EXCEPT ![r] = clamped]
            /\ dropped' = [dropped EXCEPT ![r] = @ + Skipped(r, clamped)]
            /\ got' = got
        BY <1>4, <2>2 DEF LoadNewest
      <3> HIDE DEF clamped
      <3>5. CASE clamped = cursor[r]
        <4>1. dropped[r] \in Nat
          BY DEF RingInv, TypeOK, ReaderOK
        <4>2. dropped[r] + (clamped - cursor[r]) = dropped[r]
          BY <1>1, <3>5, <4>1
        <4>3. cursor' = cursor /\ dropped' = dropped
          BY <3>4, <3>5, <4>2 DEF RingInv, TypeOK, ReaderOK
        <4> QED BY <1>1, <3>4, <4>3 DEF Topic!logVars
      <3>6. CASE clamped # cursor[r]
        <4>1. Topic!Skip(r, clamped)
          BY <1>1, <3>2, <3>3, <3>4, <3>6 DEF Topic!Skip
        <4>2. clamped \in 1 .. Len(log) + 1
          BY <1>1, <3>2, <3>3
        <4> QED BY <4>1, <4>2 DEF Topic!LogNext
      <3> QED BY <3>5, <3>6
    <2> QED BY <2>1, <2>2
  <1>5. CASE LoadBefore(r)
    <2>1. cursor[r] \in 1 .. writeSeq
      BY <1>1, <1>5 DEF LoadBefore, CopyInv
    <2>2. CASE DropOne(r)
      BY <1>1, <2>1, <2>2, DropRefines
    <2>3. CASE ~DropOne(r)
      BY <1>1, <1>5, <2>3 DEF LoadBefore, Topic!logVars
    <2> QED BY <2>2, <2>3
  <1>6. CASE LoadAfter(r)
    <2>1. cursor[r] \in 1 .. writeSeq
      BY <1>1, <1>6 DEF LoadAfter, CopyInv
    <2>2. CASE DropOne(r)
      BY <1>1, <2>1, <2>2, DropRefines
    <2>3. CASE ~DropOne(r)
      <3>1. /\ slotSeq[SlotAt(cursor[r])] = Committed(cursor[r])
            /\ rpc[r] = "copying" /\ copied[r] = Words
            /\ got' = [got EXCEPT ![r] = [sequence |-> cursor[r], payload |-> buf[r]]]
            /\ cursor' = [cursor EXCEPT ![r] = @ + 1]
            /\ dropped' = dropped
        BY <1>6, <2>3 DEF LoadAfter
      <3>2. buf[r] = log[cursor[r]]
        <4>1. log[cursor[r]] \in Images /\ buf[r] \in Images
          BY <2>1, MessageImage DEF RingInv, SlotInv, TypeOK, SharedOK, ReaderOK
        <4>2. \A d \in Words : buf[r][d] = log[cursor[r]][d]
          BY <1>1, <3>1 DEF CopyInv
        <4> QED BY <4>1, <4>2 DEF Images
      <3>3. Topic!Receive(r)
        BY <1>1, <2>1, <3>1, <3>2 DEF Topic!Receive
      <3> QED BY <3>3 DEF Topic!LogNext
    <2> QED BY <2>2, <2>3
  <1> QED BY <1>2, <1>3, <1>4, <1>5, <1>6 DEF ReadStep

\* The segment's ring implements the abstract topic log: one order of
\* committed messages, each reader a subsequence of it, every loss counted.
THEOREM RingRefinesTopicLog == Spec => ImplementsTopicLog
  <1>1. Init => Topic!LogInit
    BY DEF Init, Topic!LogInit
  <1>2. RingInv /\ [Next]_vars => [Topic!LogNext]_(Topic!logVars)
    <2> SUFFICES ASSUME RingInv, [Next]_vars PROVE [Topic!LogNext]_(Topic!logVars)
      OBVIOUS
    <2>1. CASE UNCHANGED vars
      BY <2>1 DEF vars, Topic!logVars
    <2>2. ASSUME NEW w \in Writers, WriterStep(w) PROVE [Topic!LogNext]_(Topic!logVars)
      BY <2>2, WriterRefines
    <2>3. ASSUME NEW r \in Readers, OpenReader(r) \/ ReadStep(r)
          PROVE  [Topic!LogNext]_(Topic!logVars)
      BY <2>3, ReaderRefines
    <2> QED BY <2>1, <2>2, <2>3 DEF Next
  <1> QED BY <1>1, <1>2, RingInvariant, PTL DEF Spec, ImplementsTopicLog, Topic!LogSpec
-----------------------------------------------------------------------------
(* What stays in the ring *)

\* A number is its quotient and its remainder.
LEMMA DivMod ==
  ASSUME NEW a \in Nat, NEW k \in Nat \ {0}
  PROVE  a = k * (a \div k) + (a % k) /\ a \div k \in Nat /\ a % k \in Nat
  OBVIOUS

\* A multiple is not below the number.
LEMMA Multiple == ASSUME NEW k \in Nat \ {0}, NEW q \in Int PROVE (q >= 1 => k * q >= k) /\ (q <= 0 => k * q <= 0)
  OBVIOUS

\* Sequence numbers less than a ring apart have different slots.
LEMMA SlotsDiffer ==
  ASSUME NEW s \in Nat, NEW t \in Nat, s < t, t < s + SlotCount
  PROVE  SlotAt(s) # SlotAt(t)
  <1> DEFINE k == SlotCount
  <1>0. k \in Nat \ {0}
    BY RingAssumption
  <1> HIDE DEF k
  <1> SUFFICES ASSUME s % k = t % k PROVE FALSE
    BY DEF SlotAt, k
  <1>1. PICK p \in Nat : s = k * p + (s % k)
    BY <1>0, DivMod
  <1>2. PICK q \in Nat : t = k * q + (t % k)
    BY <1>0, DivMod
  <1>3. t - s = k * (q - p)
    <2>1. k * q - k * p = k * (q - p)
      BY <1>0
    <2>2. s % k \in Nat
      BY <1>0, DivMod
    <2> QED BY <1>0, <1>1, <1>2, <2>1, <2>2
  <1>4. q - p \in Int /\ (q - p >= 1 \/ q - p <= 0)
    OBVIOUS
  <1>5. t - s < k /\ t - s > 0
    BY <1>0 DEF k
  <1>6. (q - p >= 1 => t - s >= k) /\ (q - p <= 0 => t - s <= 0)
    BY <1>0, <1>3, <1>4, Multiple
  <1> QED BY <1>0, <1>4, <1>5, <1>6

\* Message s is in its slot.
Kept(s) == slotSeq[SlotAt(s)] = Committed(s) /\ slotWords[SlotAt(s)] = log[s]

\* A step keeps every message that is not in the slot of the next one, and adds
\* the one it commits.
LEMMA NewestStep == ASSUME RingInv, NewestKept, [Next]_vars PROVE NewestKept'
  <1>0. /\ writeSeq \in Nat /\ SlotCount \in Nat \ {0}
        /\ slotSeq \in [Slots -> [seq : Nat, writing : BOOLEAN]] /\ slotWords \in [Slots -> Images]
        /\ \A s \in Nat : SlotAt(s) \in Slots
    BY RingAssumption, SlotAtSlots DEF RingInv, TypeOK, SharedOK
  <1>1. \A s \in 1 .. writeSeq : s > writeSeq + 1 - SlotCount => Kept(s) /\ SlotAt(s) # SlotAt(writeSeq + 1)
    <2> SUFFICES ASSUME NEW s \in 1 .. writeSeq, s > writeSeq + 1 - SlotCount
                 PROVE  Kept(s) /\ SlotAt(s) # SlotAt(writeSeq + 1)
      OBVIOUS
    <2>1. s \in Nat /\ writeSeq + 1 \in Nat /\ s < writeSeq + 1 /\ writeSeq + 1 < s + SlotCount
      BY <1>0
    <2>2. SlotAt(s) # SlotAt(writeSeq + 1)
      BY <2>1, SlotsDiffer
    <2>3. s > writeSeq - SlotCount /\ s # writeSeq + 1 - SlotCount
      BY <1>0, <2>1
    <2> QED BY <2>2, <2>3 DEF NewestKept, Kept
  <1>2. SUFFICES ASSUME NEW s \in 1 .. writeSeq', s > writeSeq' - SlotCount, s # writeSeq' + 1 - SlotCount
                 PROVE  slotSeq'[SlotAt(s)] = Committed(s) /\ slotWords'[SlotAt(s)] = log'[s]
    BY DEF NewestKept
  <1>3. ASSUME UNCHANGED <<writeSeq, log>>,
               \A i \in Slots : i # SlotAt(writeSeq + 1) => slotSeq'[i] = slotSeq[i] /\ slotWords'[i] = slotWords[i]
        PROVE  slotSeq'[SlotAt(s)] = Committed(s) /\ slotWords'[SlotAt(s)] = log'[s]
    <2>0. writeSeq' = writeSeq
      BY <1>3
    <2>1. s \in 1 .. writeSeq /\ s \in Nat /\ s > writeSeq + 1 - SlotCount
      <3>1. s \in 1 .. writeSeq /\ s > writeSeq - SlotCount /\ s # writeSeq + 1 - SlotCount
        BY <2>0, <1>2
      <3> QED BY <3>1, <1>0
    <2>2. Kept(s) /\ SlotAt(s) # SlotAt(writeSeq + 1)
      BY <1>1, <2>1
    <2> QED BY <1>0, <1>3, <2>1, <2>2 DEF Kept
  <1>4. ASSUME NEW w \in Writers, WriterStep(w)
        PROVE  slotSeq'[SlotAt(s)] = Committed(s) /\ slotWords'[SlotAt(s)] = log'[s]
    <2>1. CASE Lock(w) \/ FailFill(w) \/ Unlock(w) \/ Crash(w)
      BY <1>3, <2>1 DEF Lock, FailFill, Unlock, Crash
    <2>2. CASE Mark(w) \/ CommitSlot(w) \/ \E d \in Words : FillWord(w, d)
      <3>1. sequence[w] = writeSeq + 1 /\ UNCHANGED <<writeSeq, log>>
        BY <2>2 DEF Mark, CommitSlot, FillWord, RingInv, LockInv
      <3>2. SlotAt(sequence[w]) = SlotAt(writeSeq + 1)
        BY <3>1
      <3>3. ASSUME NEW i \in Slots, i # SlotAt(sequence[w]) PROVE slotSeq'[i] = slotSeq[i] /\ slotWords'[i] = slotWords[i]
        BY <1>0, <2>2, <3>3 DEF Mark, CommitSlot, FillWord
      <3> QED BY <1>3, <3>1, <3>2, <3>3
    <2>3. CASE CommitSeq(w)
      <3>1. /\ writeSeq' = writeSeq + 1 /\ log' = Append(log, msg[w]) /\ UNCHANGED <<slotSeq, slotWords>>
            /\ slotSeq[SlotAt(writeSeq + 1)] = Committed(writeSeq + 1)
            /\ slotWords[SlotAt(writeSeq + 1)] = msg[w] /\ msg[w] \in Messages
        <4>1. sequence[w] = writeSeq + 1 /\ msg[w] \in Messages
          BY <2>3 DEF CommitSeq, RingInv, LockInv
        <4>2. slotSeq[SlotAt(sequence[w])] = Committed(sequence[w]) /\ slotWords[SlotAt(sequence[w])] = msg[w]
          BY <2>3 DEF CommitSeq, RingInv, WriterInv
        <4> QED BY <2>3, <4>1, <4>2 DEF CommitSeq
      <3>2. /\ log'[writeSeq + 1] = msg[w] /\ \A t \in 1 .. writeSeq : log'[t] = log[t]
        <4>1. Len(log) = writeSeq /\ log \in Seq(Messages)
          BY DEF RingInv, SlotInv, TypeOK, SharedOK
        <4> QED BY <3>1, <4>1
      <3>3. CASE s = writeSeq + 1
        BY <3>1, <3>2, <3>3
      <3>4. CASE s # writeSeq + 1
        <4>1. s \in 1 .. writeSeq /\ s > writeSeq + 1 - SlotCount
          BY <1>0, <1>2, <3>1, <3>4
        <4>2. Kept(s)
          BY <1>1, <4>1
        <4> QED BY <3>1, <3>2, <4>1, <4>2 DEF Kept
      <3> QED BY <3>3, <3>4
    <2> QED BY <1>4, <2>1, <2>2, <2>3 DEF WriterStep
  <1>5. CASE \E r \in Readers : OpenReader(r) \/ ReadStep(r)
    <2>1. UNCHANGED sharedVars
      BY <1>5 DEF OpenReader, ReadStep, StartRead, LoadNewest, LoadBefore, LoadAfter, CopyWord
    <2> QED BY <1>3, <2>1 DEF sharedVars
  <1>6. CASE UNCHANGED vars
    BY <1>3, <1>6 DEF vars
  <1> QED BY <1>4, <1>5, <1>6 DEF Next

\* The last SlotCount messages stay readable, but for the one whose slot the next
\* message takes: no failed fill, death or wrap of the sequence costs an older one
\* (NewestKept).
THEOREM NewestStay == Spec => []NewestKept
  <1>1. Init => NewestKept
    BY DEF Init, NewestKept
  <1>2. RingInv /\ NewestKept /\ [Next]_vars => NewestKept'
    BY NewestStep
  <1> QED BY <1>1, <1>2, RingInvariant, PTL DEF Spec
-----------------------------------------------------------------------------
(***************************************************************************)
(* The participant table.  The argument is about generations.  The state   *)
(* of an entry only moves forward - free, claiming and active of one       *)
(* generation, then free again, and claiming of the next - so that no      *)
(* state that was loaded, and no state that a dead process left, ever      *)
(* comes back.                                                             *)
(***************************************************************************)

States == [kind : {"free", "claiming", "active"}, gen : Nat]
Controls == {"detached", "scan", "check", "reclaim", "claim", "claim_cas", "fill", "activate",
             "attached", "clear", "release"}

\* The control points between the claim of an entry and its release, and those
\* at which nobody else may touch the entry.
Holding == {"fill", "activate", "attached", "clear", "release"}
Protected == Holding \ {"release"}

\* Where a process looks at an entry, and not beyond the last one.
Looking == {"check", "reclaim", "claim_cas"} \cup Holding

\* The types of the table, of the processes' control points and of the history.
ControlOK ==
  /\ pc \in [Processes -> Controls] /\ at \in [Processes -> 1 .. N + 1]
  /\ \A p \in Processes : pc[p] \in Looking => at[p] \in Entries
TableOK ==
  /\ state \in [Entries -> States] /\ seen \in [Processes -> States]
  /\ identity \in [Entries -> Processes \cup {None}] /\ alive \subseteq Processes
HistoryOK == crashed \in [Processes -> SUBSET (Entries \X States \X (Processes \cup {None}))]
TableTypeOK == ControlOK /\ TableOK /\ HistoryOK

\* The generation a process claimed its entry with.
MyGen(p) == IF pc[p] \in {"clear", "release"} THEN seen[p].gen ELSE seen[p].gen + 1

\* A state that an entry had: it is the entry's state, or will not be again.
Past(s, e) ==
  /\ s.gen <= state[e].gen
  /\ s.gen = state[e].gen => state[e].kind # "claiming"

\* What a running process knows of the entry it holds, or is looking at.
Knows(p) ==
  /\ pc[p] \in {"fill", "activate"} => state[at[p]] = Claiming(MyGen(p))
  /\ pc[p] \in {"attached", "clear"} => state[at[p]] = Active(MyGen(p))
  /\ pc[p] \in {"activate", "attached", "clear"} => identity[at[p]] = p
  /\ pc[p] \in {"clear", "release", "check", "reclaim"} => seen[p].kind = "active"
  /\ pc[p] = "claim_cas" => seen[p].kind = "free"
  /\ pc[p] \in Holding => MyGen(p) <= state[at[p]].gen
  /\ pc[p] \in {"check", "reclaim"} => Past(seen[p], at[p])

\* No two processes claimed an entry with one generation, and what a process is
\* about to reclaim is not the state of anyone who still holds the entry.
Apart(p, q) ==
  at[p] = at[q] =>
    /\ p # q /\ pc[p] \in Holding /\ pc[q] \in Holding => MyGen(p) # MyGen(q)
    /\ pc[p] = "reclaim" /\ pc[q] \in Protected => state[at[p]] # seen[p]

\* The entries of dead holders that p found when it joined, behind the one it is
\* looking at, are freed; and it is about to free the one it is looking at.
Frees(p, c) ==
  /\ Past(c[2], c[1])
  /\ c[3] \in Processes \ alive
  /\ pc[p] \in {"scan", "check", "reclaim"} /\ c[1] < at[p] => ~Unreclaimed(c)
  /\ pc[p] \in {"claim", "claim_cas"} => ~Unreclaimed(c)
  /\ pc[p] \in {"check", "reclaim"} /\ c[1] = at[p] /\ Unreclaimed(c) => seen[p] = c[2]

Joined == {"scan", "check", "reclaim", "claim", "claim_cas"}

Owners == \A p \in alive : Knows(p) /\ \A q \in alive : Apart(p, q)
Reclaimers ==
  \A p \in alive : pc[p] \in Joined => \A c \in crashed[p] : c[2].kind = "active" => Frees(p, c)

\* The inductive invariant.
ParticipantsInv == TableTypeOK /\ (overwrote \/ (Owners /\ Reclaimers))
-----------------------------------------------------------------------------
(* Types *)

\* A new table satisfies the invariant.
LEMMA InitParticipants == TableInit => ParticipantsInv
  <1> SUFFICES ASSUME TableInit PROVE ParticipantsInv
    OBVIOUS
  <1>1. ControlOK
    BY ParticipantsAssumption DEF TableInit, ControlOK, Controls, Looking, Holding, Entries
  <1>2. TableOK /\ HistoryOK
    BY ParticipantsAssumption DEF TableInit, TableOK, HistoryOK, States, Free
  <1>3. \A p \in Processes : pc[p] = "detached"
    BY DEF TableInit
  <1>4. Owners /\ Reclaimers
    BY <1>2, <1>3 DEF Owners, Knows, Apart, Reclaimers, Holding, Joined, TableOK
  <1> QED BY <1>1, <1>2, <1>4 DEF ParticipantsInv, TableTypeOK

\* The states that are stored are states.
LEMMA StateTypes ==
  /\ \A g \in Nat : Free(g) \in States /\ Claiming(g) \in States /\ Active(g) \in States
  /\ \A s \in States : s.gen \in Nat /\ NextGeneration(s) \in Nat
  BY DEF Free, Claiming, Active, States, NextGeneration

\* A step of a process.
Step(p) == ClaimStep(p) \/ ReleaseStep(p) \/ Die(p)

\* Every step keeps the control points, and stays on the entries.
LEMMA ControlStep == ASSUME TableTypeOK, NEW p \in Processes, Step(p) PROVE ControlOK'
  <1> USE ParticipantsAssumption DEF TableTypeOK, ControlOK, Controls, Looking, Holding, Entries,
          In, Go, Look
  <1>1. CASE Join(p) \/ ScanEnd(p) \/ ClaimFails(p) \/ ReleaseStore(p)
    BY <1>1 DEF Join, ScanEnd, ClaimFails, ReleaseStore
  <1>2. CASE ScanLoad(p) \/ ScanCheck(p) \/ ScanCas(p)
    BY <1>2 DEF ScanLoad, ScanCheck, ScanCas
  <1>3. CASE ClaimLoad(p) \/ ClaimCas(p)
    BY <1>3 DEF ClaimLoad, ClaimCas
  <1>4. CASE Fill(p) \/ Activate(p) \/ ReleaseLoad(p) \/ ReleaseClear(p) \/ Die(p)
    BY <1>4 DEF Fill, Activate, ReleaseLoad, ReleaseClear, Die
  <1> QED BY <1>1, <1>2, <1>3, <1>4 DEF Step, ClaimStep, ReleaseStep

\* Every step stores and loads states and identities.
LEMMA TableStep == ASSUME TableTypeOK, NEW p \in Processes, Step(p) PROVE TableOK'
  <1> USE DEF TableTypeOK, TableOK, In, Load, Store, shared
  <1>1. CASE Join(p) \/ ScanCheck(p) \/ ScanEnd(p) \/ ClaimFails(p) \/ Die(p)
    BY <1>1 DEF Join, ScanCheck, ScanEnd, ClaimFails, Die
  <1>2. CASE ScanLoad(p) \/ ClaimLoad(p) \/ ReleaseLoad(p)
    <2>1. at[p] \in 1 .. N + 1 /\ (at[p] <= N \/ at[p] \in Entries)
      BY <1>2 DEF ScanLoad, ClaimLoad, ReleaseLoad, ControlOK, Looking, Holding
    <2>2. at[p] \in Entries
      BY <2>1, ParticipantsAssumption DEF Entries
    <2>3. seen' = [seen EXCEPT ![p] = state[at[p]]] /\ UNCHANGED <<state, identity, alive>>
      BY <1>2 DEF ScanLoad, ClaimLoad, ReleaseLoad
    <2> QED BY <2>2, <2>3
  <1>3. CASE ScanCas(p) \/ ClaimCas(p) \/ Activate(p) \/ ReleaseStore(p)
    <2>1. at[p] \in Entries
      BY <1>3 DEF ScanCas, ClaimCas, Activate, ReleaseStore, ControlOK, Looking, Holding
    <2>2. state' \in [Entries -> States]
      <3>1. /\ Free(seen[p].gen) \in States /\ Reclaimed(p) \in States
            /\ Claiming(NextGeneration(seen[p])) \in States /\ Active(NextGeneration(seen[p])) \in States
        BY <2>1, StateTypes DEF Reclaimed
      <3> QED BY <1>3, <2>1, <3>1 DEF ScanCas, ClaimCas, Activate, ReleaseStore
    <2>3. UNCHANGED <<identity, alive, seen>>
      BY <1>3 DEF ScanCas, ClaimCas, Activate, ReleaseStore
    <2> QED BY <2>2, <2>3
  <1>4. CASE Fill(p) \/ ReleaseClear(p)
    BY <1>4 DEF Fill, ReleaseClear
  <1> QED BY <1>1, <1>2, <1>3, <1>4 DEF Step, ClaimStep, ReleaseStep

\* Every step keeps the type of the history.
LEMMA HistoryStep == ASSUME TableTypeOK, NEW p \in Processes, Step(p) PROVE HistoryOK'
  <1>1. CASE Join(p)
    <2> DEFINE Known == Entries \X States \X (Processes \cup {None})
               found == {<<e, state[e], identity[e]>> : e \in OfDead}
    <2>1. \A e \in OfDead : e \in Entries /\ state[e] \in States /\ identity[e] \in Processes \cup {None}
      BY DEF OfDead, TableTypeOK, TableOK
    <2>2. found \in SUBSET Known
      BY <2>1
    <2>3. crashed' = [crashed EXCEPT ![p] = found]
      BY <1>1 DEF Join
    <2> HIDE DEF Known, found
    <2>4. crashed \in [Processes -> SUBSET Known]
      BY DEF TableTypeOK, HistoryOK, Known
    <2>5. crashed' \in [Processes -> SUBSET Known]
      BY <2>2, <2>3, <2>4
    <2> QED BY <2>5 DEF HistoryOK, Known
  <1>2. CASE UNCHANGED crashed
    BY <1>2 DEF TableTypeOK, HistoryOK
  <1> QED BY <1>1, <1>2 DEF Step, ClaimStep, ReleaseStep, ScanLoad, ScanCheck, ScanCas, ScanEnd,
             ClaimLoad, ClaimCas, ClaimFails, Fill, Activate, ReleaseLoad, ReleaseClear, ReleaseStore,
             Die, history

\* Every step keeps the types.
LEMMA TableTypeStep == ASSUME TableTypeOK, [TableNext]_tableVars PROVE TableTypeOK'
  <1>1. CASE UNCHANGED tableVars
    BY <1>1 DEF tableVars, TableTypeOK, ControlOK, TableOK, HistoryOK
  <1>2. CASE TableNext
    BY <1>2, ControlStep, TableStep, HistoryStep DEF TableNext, Step, TableTypeOK
  <1> QED BY <1>1, <1>2
-----------------------------------------------------------------------------
(* Owners keep their entries *)

\* Two running processes between claim and release of one entry, one of them
\* protected, are at odds about its state.
LEMMA Excluded ==
  ASSUME TableTypeOK, Owners, NEW p \in alive, NEW q \in alive, p # q, at[p] = at[q]
  PROVE  ~(pc[p] \in Protected /\ pc[q] \in Protected)
  <1> SUFFICES ASSUME pc[p] \in Protected, pc[q] \in Protected PROVE FALSE
    OBVIOUS
  <1>1. MyGen(p) # MyGen(q)
    BY DEF Owners, Apart, Protected
  <1>2. \A r \in {p, q} : state[at[r]] = Claiming(MyGen(r)) \/ state[at[r]] = Active(MyGen(r))
    BY DEF Owners, Knows, Protected, Holding
  <1>3. \A r \in {p, q} : state[at[r]].gen = MyGen(r)
    BY <1>2 DEF Claiming, Active
  <1> QED BY <1>1, <1>3

\* Steps that leave the table alone, and only look at it.
LEMMA LookOwners ==
  ASSUME TableTypeOK, TableTypeOK', Owners, NEW p \in Processes,
         Join(p) \/ ScanLoad(p) \/ ScanEnd(p) \/ ClaimLoad(p) \/ ClaimFails(p)
  PROVE  Owners'
  <1> USE DEF TableTypeOK, ControlOK, TableOK, Owners, Knows, Apart, Past, MyGen, Holding, Protected
  <1>1. /\ UNCHANGED <<state, identity, alive>> /\ p \in alive
        /\ \A q \in Processes \ {p} : pc'[q] = pc[q] /\ at'[q] = at[q] /\ seen'[q] = seen[q]
    BY DEF Join, ScanLoad, ScanEnd, ClaimLoad, ClaimFails, In, Go, Look, Load, shared
  <1>2. /\ pc'[p] \in {"scan", "claim", "detached", "check", "claim_cas"}
        /\ pc'[p] = "check" => seen'[p] = state[at[p]] /\ at'[p] = at[p] /\ seen'[p].kind = "active"
        /\ pc'[p] = "claim_cas" => seen'[p].kind = "free"
    BY DEF Join, ScanLoad, ScanEnd, ClaimLoad, ClaimFails, In, Go, Look, Load, shared
  <1>3. ASSUME NEW q \in alive' PROVE Knows(q)'
    BY <1>1, <1>2, <1>3 DEF States
  <1>4. ASSUME NEW q \in alive', NEW r \in alive' PROVE Apart(q, r)'
    BY <1>1, <1>2, <1>4
  <1> QED BY <1>3, <1>4

\* A scan judges the holder of an entry by its identity: a running one is not
\* about to be reclaimed.
LEMMA CheckOwners ==
  ASSUME TableTypeOK, TableTypeOK', Owners, NEW p \in Processes, ScanCheck(p) PROVE Owners'
  <1>1. /\ UNCHANGED <<state, identity, alive, seen>> /\ p \in alive /\ pc[p] = "check"
        /\ \A q \in Processes \ {p} : pc'[q] = pc[q] /\ at'[q] = at[q]
        /\ \/ pc'[p] = "scan"
           \/ pc'[p] = "reclaim" /\ at'[p] = at[p] /\ identity[at[p]] \notin alive
    BY ParticipantsAssumption DEF ScanCheck, In, Go, Look, shared, IsProcessAlive, TableTypeOK, ControlOK,
       TableOK
  <1> USE DEF TableTypeOK, ControlOK, TableOK, Owners, Knows, Past, MyGen, Holding
  <1>2. ASSUME NEW q \in alive' PROVE Knows(q)'
    BY <1>1, <1>2
  <1>3. ASSUME NEW q \in alive, pc'[p] = "reclaim", q # p, at[q] = at[p], pc[q] \in Protected
        PROVE  state[at[p]] # seen[p]
    <2>1. pc[q] \notin {"activate", "attached", "clear"}
      BY <1>1, <1>3
    <2>2. pc[q] = "fill"
      BY <1>3, <2>1 DEF Protected
    <2>3. state[at[q]] = Claiming(MyGen(q))
      BY <2>2
    <2>4. state[at[q]].kind = "claiming"
      BY <2>3 DEF Claiming
    <2> QED BY <1>1, <1>3, <2>4
  <1>4. ASSUME NEW q \in alive', NEW r \in alive' PROVE Apart(q, r)'
    BY <1>1, <1>3, <1>4 DEF Apart, Protected
  <1> QED BY <1>2, <1>4

\* A process that dies holds nothing any more; nobody else notices.
LEMMA CrashOwners ==
  ASSUME TableTypeOK, Owners, NEW p \in Processes, Die(p) PROVE Owners'
  BY DEF TableOK, Owners, Knows, Apart, Past, MyGen, Die, shared

\* The reclaiming compare-and-swap frees no entry that is held.
LEMMA ReclaimOwners ==
  ASSUME TableTypeOK, TableTypeOK', Owners, NEW p \in Processes, ScanCas(p) PROVE Owners'
  <1> USE DEF TableTypeOK, ControlOK, TableOK, Owners, Knows, Apart, Past, MyGen, Holding, Protected
  <1>1. /\ UNCHANGED <<identity, alive, seen>> /\ p \in alive /\ pc[p] = "reclaim" /\ at[p] \in Entries
        /\ pc'[p] = "scan" /\ seen[p].kind = "active"
        /\ \A q \in Processes \ {p} : pc'[q] = pc[q] /\ at'[q] = at[q]
        /\ \A e \in Entries \ {at[p]} : state'[e] = state[e]
        /\ \/ state[at[p]] = seen[p] /\ state'[at[p]] = Free(seen[p].gen)
           \/ state[at[p]] # seen[p] /\ state'[at[p]] = state[at[p]]
    BY DEF ScanCas, In, Go, Look, Store, Reclaimed, Looking
  <1>2. ASSUME NEW q \in alive' PROVE Knows(q)'
    BY <1>1, <1>2 DEF Free, Looking
  <1>3. ASSUME NEW q \in alive', NEW r \in alive' PROVE Apart(q, r)'
    BY <1>1, <1>3 DEF Free, Looking
  <1> QED BY <1>2, <1>3

\* The claiming compare-and-swap takes an entry that nobody holds, with a
\* generation that nobody has.
LEMMA ClaimOwners ==
  ASSUME TableTypeOK, TableTypeOK', Owners, NEW p \in Processes, ClaimCas(p) PROVE Owners'
  <1>1. /\ UNCHANGED <<identity, alive, seen>> /\ p \in alive /\ pc[p] = "claim_cas" /\ at[p] \in Entries
        /\ \A q \in Processes \ {p} : pc'[q] = pc[q] /\ at'[q] = at[q]
        /\ \A e \in Entries \ {at[p]} : state'[e] = state[e]
        /\ \/ /\ state[at[p]] = seen[p] /\ pc'[p] = "fill" /\ at'[p] = at[p]
              /\ state'[at[p]] = Claiming(seen[p].gen + 1)
           \/ pc'[p] = "claim" /\ state' = state
    BY DEF ClaimCas, In, Go, Look, Store, Looking, NextGeneration, TableTypeOK, ControlOK, TableOK
  <1> USE DEF TableTypeOK, ControlOK, TableOK, Owners, Knows, Past, MyGen, Holding
  <1>2. seen[p].kind = "free" /\ seen[p].gen \in Nat
    BY <1>1 DEF States
  <1>3. ASSUME NEW q \in alive' PROVE Knows(q)'
    BY <1>1, <1>2, <1>3 DEF Claiming, Active, Looking, States
  <1>4. CASE pc'[p] = "claim" /\ state' = state
    <2>1. ASSUME NEW q \in alive', NEW r \in alive' PROVE Apart(q, r)'
      BY <1>1, <1>4, <2>1 DEF Apart, Protected
    <2> QED BY <1>3, <2>1
  <1>5. CASE /\ state[at[p]] = seen[p] /\ pc'[p] = "fill" /\ at'[p] = at[p]
             /\ state'[at[p]] = Claiming(seen[p].gen + 1)
    <2>1. MyGen(p)' = seen[p].gen + 1 /\ \A q \in alive \ {p} : MyGen(q)' = MyGen(q)
      BY <1>1, <1>5
    <2>2. ASSUME NEW q \in alive \ {p}, at[q] = at[p], pc[q] \in Holding
          PROVE  MyGen(q) # seen[p].gen + 1
      <3>1. MyGen(q) <= seen[p].gen /\ MyGen(q) \in Nat
        BY <1>5, <2>2 DEF States
      <3> QED BY <1>2, <3>1
    <2>3. state'[at[p]].kind = "claiming"
      BY <1>5 DEF Claiming
    <2>4. ASSUME NEW q \in alive', NEW r \in alive', at'[q] = at'[r], q # r,
                 pc'[q] \in Holding, pc'[r] \in Holding
          PROVE  MyGen(q)' # MyGen(r)'
      <3> HIDE DEF MyGen, Knows
      <3> QED BY <1>1, <1>5, <2>1, <2>2, <2>4 DEF Apart
    <2>5. ASSUME NEW q \in alive', NEW r \in alive', at'[q] = at'[r], pc'[q] = "reclaim",
                 pc'[r] \in Protected
          PROVE  state'[at'[q]] # seen'[q]
      <3>1. q # p /\ pc[q] = "reclaim" /\ at[q] \in Entries /\ seen[q].kind = "active" /\ at'[q] = at[q]
        BY <1>1, <1>5, <2>5 DEF Looking
      <3>2. CASE at[q] = at[p]
        BY <1>1, <2>3, <3>1, <3>2
      <3>3. CASE at[q] # at[p]
        <4>1. r # p /\ at[r] = at[q] /\ pc[r] \in Protected
          BY <1>1, <1>5, <2>5, <3>1, <3>3
        <4>2. state[at[q]] # seen[q]
          BY <1>1, <2>5, <3>1, <4>1 DEF Apart
        <4> QED BY <1>1, <3>1, <3>3, <4>2
      <3> QED BY <3>2, <3>3
    <2>6. ASSUME NEW q \in alive', NEW r \in alive' PROVE Apart(q, r)'
      BY <2>4, <2>5 DEF Apart
    <2> QED BY <1>3, <2>6
  <1> QED BY <1>1, <1>4, <1>5

\* Filling in the identity, and clearing it, concern the holder only.
LEMMA IdentityOwners ==
  ASSUME TableTypeOK, TableTypeOK', Owners, NEW p \in Processes, Fill(p) \/ ReleaseClear(p) PROVE Owners'
  <1>1. /\ UNCHANGED <<state, alive, at, seen>> /\ p \in alive /\ at[p] \in Entries
        /\ \A q \in Processes \ {p} : pc'[q] = pc[q]
        /\ \A e \in Entries \ {at[p]} : identity'[e] = identity[e]
        /\ \/ pc[p] = "fill" /\ pc'[p] = "activate" /\ identity'[at[p]] = p
           \/ pc[p] = "clear" /\ pc'[p] = "release"
    BY DEF Fill, ReleaseClear, In, Go, Looking, Holding, TableTypeOK, ControlOK, TableOK
  <1>2. ASSUME NEW q \in alive, q # p, pc[q] \in {"activate", "attached", "clear"}
        PROVE  identity'[at[q]] = identity[at[q]]
    <2>1. at[q] \in Entries
      BY <1>2 DEF TableTypeOK, ControlOK, TableOK, Looking, Holding
    <2>2. at[q] # at[p]
      BY <1>1, <1>2, Excluded DEF Protected, Holding
    <2> QED BY <1>1, <2>1, <2>2
  <1> USE DEF TableTypeOK, ControlOK, TableOK, Owners, Knows, Past, MyGen, Holding
  <1>3. ASSUME NEW q \in alive' PROVE Knows(q)'
    <2>1. CASE q = p
      BY <1>1, <2>1
    <2>2. CASE q # p
      BY <1>1, <1>2, <1>3, <2>2
    <2> QED BY <2>1, <2>2
  <1>4. ASSUME NEW q \in alive', NEW r \in alive' PROVE Apart(q, r)'
    BY <1>1, <1>4 DEF Apart, Protected
  <1> QED BY <1>3, <1>4
\* Activating an entry: its state was nobody else's.
LEMMA ActivateOwners ==
  ASSUME TableTypeOK, TableTypeOK', Owners, NEW p \in Processes, Activate(p) PROVE Owners'
  <1>1. /\ UNCHANGED <<identity, alive, at, seen>> /\ p \in alive /\ at[p] \in Entries
        /\ pc[p] = "activate" /\ pc'[p] = "attached"
        /\ \A q \in Processes \ {p} : pc'[q] = pc[q]
        /\ \A e \in Entries \ {at[p]} : state'[e] = state[e]
        /\ state'[at[p]] = Active(seen[p].gen + 1)
    BY DEF Activate, In, Go, Store, NextGeneration, Looking, Holding, TableTypeOK, ControlOK, TableOK
  <1>2. /\ state[at[p]].kind = "claiming" /\ state'[at[p]].kind = "active"
        /\ state[at[p]].gen = seen[p].gen + 1 /\ state'[at[p]].gen = seen[p].gen + 1
    <2>1. state[at[p]] = Claiming(seen[p].gen + 1)
      BY <1>1 DEF Owners, Knows, MyGen
    <2> QED BY <1>1, <2>1 DEF Claiming, Active
  <1>3. \A q \in alive : MyGen(q)' = MyGen(q)
    BY <1>1 DEF MyGen, TableTypeOK, TableOK
  <1>4. ASSUME NEW q \in alive, q # p, at[q] = at[p] PROVE pc[q] \notin Protected
    BY <1>1, <1>4, Excluded DEF Protected, Holding
  <1>5. ASSUME NEW q \in alive, q # p, at[q] = at[p], pc[q] \in {"check", "reclaim"}
        PROVE  Past(seen[q], at[q])' /\ state'[at[q]] # seen[q]
    <2>1. /\ seen[q].gen <= state[at[q]].gen
          /\ seen[q].gen # state[at[q]].gen
      BY <1>2, <1>5 DEF Owners, Knows, Past
    <2> QED BY <1>1, <1>2, <1>5, <2>1 DEF Past
  <1>6. ASSUME NEW q \in alive, pc[q] \in Looking, at[q] # at[p] PROVE state'[at[q]] = state[at[q]]
    BY <1>1, <1>6 DEF TableTypeOK, ControlOK, TableOK
  <1>7. ASSUME NEW q \in alive' PROVE Knows(q)'
    <2>1. CASE q = p
      BY <1>1, <1>2, <1>3, <2>1 DEF Owners, Knows, MyGen, Holding
    <2>2. CASE q # p /\ at[q] = at[p]
      <3>1. q \in alive /\ pc'[q] = pc[q] /\ pc[q] \notin Protected
        BY <1>1, <1>4, <2>2 DEF TableTypeOK, TableOK
      <3>2. pc[q] = "release" => MyGen(q) <= state'[at[q]].gen
        BY <1>2, <2>2, <3>1 DEF Owners, Knows, Holding
      <3>3. pc[q] \in {"check", "reclaim"} => Past(seen[q], at[q])'
        BY <1>5, <2>2, <3>1
      <3>4. Knows(q)
        BY <3>1 DEF Owners
      <3> QED BY <1>1, <1>3, <3>1, <3>2, <3>3, <3>4 DEF Knows, Protected, Holding
    <2>3. CASE q # p /\ at[q] # at[p]
      <3>1. q \in alive /\ pc'[q] = pc[q] /\ Knows(q)
        BY <1>1, <2>3 DEF Owners, TableTypeOK, TableOK
      <3> QED BY <1>1, <1>3, <1>6, <2>3, <3>1 DEF Knows, Past, Looking, Holding
    <2> QED BY <2>1, <2>2, <2>3
  <1>8. ASSUME NEW q \in alive', NEW r \in alive' PROVE Apart(q, r)'
    <2>1. q \in alive /\ r \in alive /\ Apart(q, r)
      BY <1>1 DEF Owners
    <2>2. \A u \in alive : (pc'[u] \in Holding <=> pc[u] \in Holding)
                           /\ (pc'[u] \in Protected <=> pc[u] \in Protected)
                           /\ (pc'[u] = "reclaim" <=> pc[u] = "reclaim")
      BY <1>1 DEF Holding, Protected, TableTypeOK, TableOK
    <2>3. ASSUME at[q] = at[r], pc[q] = "reclaim", pc[r] \in Protected PROVE state'[at[q]] # seen[q]
      <3>1. CASE at[q] = at[p]
        BY <1>1, <1>5, <2>1, <2>3, <3>1
      <3>2. CASE at[q] # at[p]
        BY <1>6, <2>1, <2>3, <3>2 DEF Apart, Looking
      <3> QED BY <3>1, <3>2
    <2> QED BY <1>1, <1>3, <2>1, <2>2, <2>3 DEF Apart
  <1> QED BY <1>7, <1>8 DEF Owners

\* A release begins with the state of the entry.
LEMMA ReleaseLoadOwners ==
  ASSUME TableTypeOK, TableTypeOK', Owners, NEW p \in Processes, ReleaseLoad(p) PROVE Owners'
  <1>1. /\ UNCHANGED <<state, identity, alive, at>> /\ p \in alive /\ at[p] \in Entries
        /\ pc[p] = "attached" /\ pc'[p] = "clear" /\ seen'[p] = state[at[p]]
        /\ \A q \in Processes \ {p} : pc'[q] = pc[q] /\ seen'[q] = seen[q]
    BY DEF ReleaseLoad, In, Go, Load, shared, Looking, Holding, TableTypeOK, ControlOK, TableOK
  <1>2. state[at[p]] = Active(MyGen(p)) /\ state[at[p]].gen = MyGen(p) /\ state[at[p]].kind = "active"
    BY <1>1 DEF Owners, Knows, Active
  <1>3. \A q \in alive : MyGen(q)' = MyGen(q)
    BY <1>1, <1>2 DEF MyGen, TableTypeOK, TableOK
  <1>4. ASSUME NEW q \in alive' PROVE Knows(q)'
    <2>1. CASE q = p
      BY <1>1, <1>2, <1>3, <2>1 DEF Owners, Knows, Holding
    <2>2. CASE q # p
      BY <1>1, <1>3, <2>2 DEF Owners, Knows, Past, TableTypeOK, TableOK
    <2> QED BY <2>1, <2>2
  <1>5. ASSUME NEW q \in alive', NEW r \in alive' PROVE Apart(q, r)'
    BY <1>1, <1>3, <1>5 DEF Owners, Apart, Holding, Protected, TableTypeOK, TableOK
  <1> QED BY <1>4, <1>5 DEF Owners

\* A release that finds the state it loaded frees an entry that nobody else holds.
LEMMA ReleaseOwners ==
  ASSUME TableTypeOK, TableTypeOK', Owners, NEW p \in Processes, ReleaseStore(p), ~overwrote' PROVE Owners'
  <1>1. /\ UNCHANGED <<identity, alive, seen>> /\ p \in alive /\ at[p] \in Entries
        /\ pc[p] = "release" /\ pc'[p] = "detached" /\ state[at[p]] = seen[p]
        /\ \A q \in Processes \ {p} : pc'[q] = pc[q] /\ at'[q] = at[q]
        /\ \A e \in Entries \ {at[p]} : state'[e] = state[e]
        /\ state'[at[p]] = Free(seen[p].gen)
    BY DEF ReleaseStore, In, Go, Store, Look, Looking, Holding, TableTypeOK, ControlOK, TableOK
  <1>2. /\ seen[p].kind = "active" /\ MyGen(p) = seen[p].gen
        /\ state'[at[p]].kind = "free" /\ state'[at[p]].gen = seen[p].gen
    BY <1>1 DEF Owners, Knows, MyGen, Free
  <1>3. \A q \in alive \ {p} : MyGen(q)' = MyGen(q)
    BY <1>1 DEF MyGen, TableTypeOK, TableOK
  <1>4. ASSUME NEW q \in alive, q # p, at[q] = at[p] PROVE pc[q] \notin Protected
    <2> SUFFICES ASSUME pc[q] \in Protected PROVE FALSE
      OBVIOUS
    <2>1. state[at[q]].gen = MyGen(q)
      <3>1. state[at[q]] = Claiming(MyGen(q)) \/ state[at[q]] = Active(MyGen(q))
        BY DEF Owners, Knows, Protected, Holding
      <3> QED BY <3>1 DEF Claiming, Active
    <2>2. MyGen(q) # MyGen(p)
      BY <1>1, <1>4 DEF Owners, Apart, Protected, Holding
    <2> QED BY <1>1, <1>2, <1>4, <2>1, <2>2
  <1>5. ASSUME NEW q \in alive, q # p, pc[q] \in Looking, at[q] # at[p] PROVE state'[at[q]] = state[at[q]]
    BY <1>1, <1>5 DEF TableTypeOK, ControlOK, TableOK
  <1>6. ASSUME NEW q \in alive' PROVE Knows(q)'
    <2>1. CASE q = p
      BY <1>1, <2>1 DEF Knows, Holding
    <2>2. CASE q # p
      <3>1. q \in alive /\ pc'[q] = pc[q] /\ at'[q] = at[q] /\ seen'[q] = seen[q] /\ Knows(q)
        BY <1>1, <2>2 DEF Owners, TableTypeOK, TableOK
      <3>2. CASE at[q] = at[p]
        <4>1. pc[q] \notin Protected
          BY <1>4, <2>2, <3>1, <3>2
        <4> QED BY <1>1, <1>2, <1>3, <2>2, <3>1, <3>2, <4>1 DEF Knows, Past, Protected, Holding
      <3>3. CASE at[q] # at[p]
        BY <1>1, <1>3, <1>5, <2>2, <3>1, <3>3 DEF Knows, Past, Looking, Holding
      <3> QED BY <3>2, <3>3
    <2> QED BY <2>1, <2>2
  <1>7. ASSUME NEW q \in alive', NEW r \in alive' PROVE Apart(q, r)'
    <2>1. q \in alive /\ r \in alive /\ Apart(q, r) /\ Knows(q)
      BY <1>1 DEF Owners
    <2>2. CASE q = p \/ r = p
      <3>1. pc'[p] \notin Holding /\ pc'[p] # "reclaim" /\ pc'[p] \notin Protected
        BY <1>1 DEF Holding, Protected
      <3> QED BY <2>2, <3>1 DEF Apart
    <2>3. CASE q # p /\ r # p
      <3>1. /\ pc'[q] = pc[q] /\ at'[q] = at[q] /\ MyGen(q)' = MyGen(q) /\ seen'[q] = seen[q]
            /\ pc'[r] = pc[r] /\ at'[r] = at[r] /\ MyGen(r)' = MyGen(r)
        BY <1>1, <1>3, <2>1, <2>3 DEF TableTypeOK, TableOK
      <3>2. ASSUME at[q] = at[r], pc[q] = "reclaim", pc[r] \in Protected PROVE state'[at[q]] # seen[q]
        BY <1>4, <1>5, <2>1, <2>3, <3>2 DEF Apart, Looking
      <3> QED BY <2>1, <3>1, <3>2 DEF Apart
    <2> QED BY <2>2, <2>3
  <1> QED BY <1>6, <1>7 DEF Owners
\* While no release overwrites anything, every step keeps the owners apart.
LEMMA OwnersStep ==
  ASSUME TableTypeOK, TableTypeOK', Owners, NEW p \in Processes, Step(p), ~overwrote' PROVE Owners'
  BY LookOwners, CheckOwners, CrashOwners, ReclaimOwners, ClaimOwners, IdentityOwners, ActivateOwners,
     ReleaseLoadOwners, ReleaseOwners
     DEF Step, ClaimStep, ReleaseStep
-----------------------------------------------------------------------------
(* A process that joins frees the entries of dead holders *)

\* What a step does to the table: nothing, or it moves one entry forward.
LEMMA TableMoves ==
  ASSUME TableTypeOK, Owners, NEW p \in Processes, Step(p), ~overwrote'
  PROVE  \/ state' = state
         \/ \E e \in Entries :
              /\ \A f \in Entries \ {e} : state'[f] = state[f]
              /\ \/ state[e].kind = "active" /\ state'[e] = Free(state[e].gen)
                 \/ state[e].kind = "free" /\ state'[e] = Claiming(state[e].gen + 1)
                 \/ state[e].kind = "claiming" /\ state'[e] = Active(state[e].gen)
  <1> USE DEF TableTypeOK, ControlOK, TableOK, Looking, Holding, In, Store
  <1>1. CASE ScanCas(p)
    <2>1. at[p] \in Entries /\ seen[p].kind = "active"
      BY <1>1 DEF ScanCas, Owners, Knows
    <2>2. state' = [state EXCEPT ![at[p]] = IF state[at[p]] = seen[p] THEN Free(seen[p].gen) ELSE @]
      BY <1>1, <2>1 DEF ScanCas, Reclaimed
    <2> QED BY <2>1, <2>2
  <1>2. CASE ClaimCas(p)
    <2>1. at[p] \in Entries /\ seen[p].kind = "free"
      BY <1>2 DEF ClaimCas, Owners, Knows
    <2>2. \/ state' = state
          \/ state[at[p]] = seen[p] /\ state' = [state EXCEPT ![at[p]] = Claiming(seen[p].gen + 1)]
      BY <1>2 DEF ClaimCas, NextGeneration
    <2> QED BY <2>1, <2>2
  <1>3. CASE Activate(p)
    <2>1. at[p] \in Entries /\ state[at[p]] = Claiming(seen[p].gen + 1)
      BY <1>3 DEF Activate, Owners, Knows, MyGen
    <2>2. state[at[p]].kind = "claiming" /\ state[at[p]].gen = seen[p].gen + 1
      BY <2>1 DEF Claiming
    <2>3. state' = [state EXCEPT ![at[p]] = Active(seen[p].gen + 1)]
      BY <1>3 DEF Activate, NextGeneration
    <2> QED BY <2>1, <2>2, <2>3
  <1>4. CASE ReleaseStore(p)
    <2>1. at[p] \in Entries /\ seen[p].kind = "active"
      BY <1>4 DEF ReleaseStore, Owners, Knows
    <2>2. state[at[p]] = seen[p] /\ state' = [state EXCEPT ![at[p]] = Free(seen[p].gen)]
      BY <1>4 DEF ReleaseStore
    <2> QED BY <2>1, <2>2
  <1>5. CASE state' = state
    BY <1>5
  <1> QED
    BY <1>1, <1>2, <1>3, <1>4, <1>5 DEF Step, ClaimStep, ReleaseStep, Join, ScanLoad, ScanCheck,
       ScanEnd, ClaimLoad, ClaimFails, Fill, ReleaseLoad, ReleaseClear, Die, shared

\* A state that an entry had does not come back, nor does a dead process.
LEMMA NeverBack ==
  ASSUME TableTypeOK, TableTypeOK', Owners, NEW p \in Processes, Step(p), ~overwrote',
         NEW e \in Entries, NEW s \in States, NEW i \in Processes \ alive,
         s.kind = "active", Past(s, e)
  PROVE  /\ Past(s, e)' /\ (state'[e] = s => state[e] = s)
         /\ i \notin alive' /\ (identity'[e] = i => identity[e] = i)
  <1>1. i \notin alive'
    BY DEF Step, ClaimStep, ReleaseStep, Join, ScanLoad, ScanCheck, ScanCas, ScanEnd, ClaimLoad, ClaimCas,
       ClaimFails, Fill, Activate, ReleaseLoad, ReleaseClear, ReleaseStore, Die
  <1>2. identity'[e] = i => identity[e] = i
    <2>1. CASE Fill(p) \/ ReleaseClear(p)
      BY <2>1, ParticipantsAssumption DEF Fill, ReleaseClear, In, TableTypeOK, TableOK
    <2>2. CASE UNCHANGED identity
      BY <2>2
    <2> QED BY <2>1, <2>2 DEF Step, ClaimStep, ReleaseStep, Join, ScanLoad, ScanCheck, ScanCas, ScanEnd,
               ClaimLoad, ClaimCas, ClaimFails, Activate, ReleaseLoad, ReleaseStore, Die, shared
  <1>3. Past(s, e)' /\ (state'[e] = s => state[e] = s)
    <2>0. state[e].gen \in Nat /\ s.gen \in Nat
      BY DEF TableTypeOK, TableOK, States
    <2>1. CASE state'[e] = state[e]
      BY <2>1 DEF Past
    <2>2. CASE state[e].kind = "active" /\ state'[e] = Free(state[e].gen)
      <3>1. state'[e].kind = "free" /\ state'[e].gen = state[e].gen
        BY <2>2 DEF Free
      <3> QED BY <3>1 DEF Past
    <2>3. CASE state[e].kind = "free" /\ state'[e] = Claiming(state[e].gen + 1)
      <3>1. state'[e].kind = "claiming" /\ state'[e].gen = state[e].gen + 1
        BY <2>3 DEF Claiming
      <3> QED BY <2>0, <3>1 DEF Past
    <2>4. CASE state[e].kind = "claiming" /\ state'[e] = Active(state[e].gen)
      <3>1. state'[e].kind = "active" /\ state'[e].gen = state[e].gen
        BY <2>4 DEF Active
      <3> QED BY <2>4, <3>1 DEF Past
    <2> QED BY <2>1, <2>2, <2>3, <2>4, TableMoves
  <1> QED BY <1>1, <1>2, <1>3

\* What was found when p joined, of a dead holder.
LEMMA FoundType ==
  ASSUME TableTypeOK, NEW p \in Processes, NEW c \in crashed[p]
  PROVE  c[1] \in Entries /\ c[2] \in States
  BY DEF TableTypeOK, HistoryOK

\* Steps of other processes, and of p itself, undo nothing.
LEMMA FreesKept ==
  ASSUME TableTypeOK, TableTypeOK', Owners, NEW p \in Processes, Step(p), ~overwrote',
         NEW r \in alive, NEW c \in crashed[r], c[2].kind = "active", Frees(r, c)
  PROVE  /\ Past(c[2], c[1])' /\ c[3] \in Processes \ alive' /\ (Unreclaimed(c)' => Unreclaimed(c))
  <1>1. r \in Processes
    BY DEF TableTypeOK, TableOK
  <1>2. c[1] \in Entries /\ c[2] \in States
    BY <1>1, FoundType
  <1>3. Past(c[2], c[1]) /\ c[3] \in Processes \ alive
    BY DEF Frees
  <1> QED BY <1>2, <1>3, NeverBack DEF Unreclaimed

\* While no release overwrites anything, every step keeps what joining promises.
LEMMA ReclaimersStep ==
  ASSUME TableTypeOK, TableTypeOK', Owners, Reclaimers, NEW p \in Processes, Step(p), ~overwrote'
  PROVE  Reclaimers'
  <1> USE DEF TableTypeOK, ControlOK, TableOK
  <1> SUFFICES ASSUME NEW r \in alive', pc'[r] \in Joined, NEW c \in crashed'[r], c[2].kind = "active"
               PROVE  Frees(r, c)'
    BY DEF Reclaimers
  <1>0. r \in Processes /\ r \in alive
    BY DEF Step, ClaimStep, ReleaseStep, Join, ScanLoad, ScanCheck, ScanCas, ScanEnd, ClaimLoad, ClaimCas,
       ClaimFails, Fill, Activate, ReleaseLoad, ReleaseClear, ReleaseStore, Die
  <1>1. CASE r # p \/ Die(p)
    <2>1. pc'[r] = pc[r] /\ at'[r] = at[r] /\ seen'[r] = seen[r] /\ crashed'[r] = crashed[r]
      BY <1>0, <1>1 DEF Step, ClaimStep, ReleaseStep, Join, ScanLoad, ScanCheck, ScanCas, ScanEnd, ClaimLoad,
         ClaimCas, ClaimFails, Fill, Activate, ReleaseLoad, ReleaseClear, ReleaseStore, Die, Go, Look,
         Load, history, HistoryOK
    <2>2. Frees(r, c)
      BY <1>0, <2>1 DEF Reclaimers
    <2>3. /\ Past(c[2], c[1])' /\ c[3] \in Processes \ alive' /\ (Unreclaimed(c)' => Unreclaimed(c))
      BY <1>0, <2>1, <2>2, FreesKept
    <2> QED BY <2>1, <2>2, <2>3 DEF Frees
  <1>2. CASE r = p /\ Join(p)
    <2>1. /\ crashed'[p] = {<<e, state[e], identity[e]>> : e \in OfDead}
          /\ UNCHANGED <<state, identity, alive>> /\ pc'[p] = "scan" /\ at'[p] = 1
      BY <1>2 DEF Join, Go, Look, shared, HistoryOK
    <2>2. PICK e \in OfDead : c = <<e, state[e], identity[e]>>
      BY <1>2, <2>1
    <2>3. e \in Entries /\ c[1] = e /\ c[2] = state[e] /\ c[3] = identity[e]
      BY <2>2 DEF OfDead
    <2>4. identity[e] \in Processes \ alive
      BY <2>3 DEF OfDead
    <2>5. Past(c[2], c[1])'
      BY <2>1, <2>3 DEF Past, States
    <2>6. ~(c[1] < at'[p])
      BY <2>1, <2>3, ParticipantsAssumption DEF Entries
    <2> QED BY <1>2, <2>1, <2>3, <2>4, <2>5, <2>6 DEF Frees
  <1>3. CASE r = p /\ ~Join(p) /\ ~Die(p)
    <2>1. crashed' = crashed /\ pc[p] \in Joined
      BY <1>3 DEF Step, ClaimStep, ReleaseStep, ScanLoad, ScanCheck, ScanCas, ScanEnd, ClaimLoad, ClaimCas,
         ClaimFails, Fill, Activate, ReleaseLoad, ReleaseClear, ReleaseStore, In, Go, history, Joined
    <2>2. Frees(p, c)
      BY <1>0, <1>3, <2>1 DEF Reclaimers
    <2>3. /\ Past(c[2], c[1])' /\ c[3] \in Processes \ alive' /\ (Unreclaimed(c)' => Unreclaimed(c))
      BY <1>0, <1>3, <2>1, <2>2, FreesKept
    <2>4. c[1] \in Entries /\ c[1] \in Nat /\ c[1] <= N /\ at[p] \in Nat
      BY <1>0, <1>3, <2>1, FoundType, ParticipantsAssumption DEF Entries
    <2>5. /\ pc'[p] \in {"scan", "check", "reclaim"} /\ c[1] < at'[p] => ~Unreclaimed(c)'
          /\ pc'[p] \in {"claim", "claim_cas"} => ~Unreclaimed(c)'
          /\ pc'[p] \in {"check", "reclaim"} /\ c[1] = at'[p] /\ Unreclaimed(c)' => seen'[p] = c[2]
      <3>1. CASE ScanLoad(p)
        <4>1. /\ UNCHANGED shared /\ pc[p] = "scan"
              /\ \/ state[at[p]].kind = "active" /\ pc'[p] = "check" /\ at' = at /\ seen'[p] = state[at[p]]
                 \/ state[at[p]].kind # "active" /\ pc'[p] = "scan" /\ at'[p] = at[p] + 1
          BY <3>1 DEF ScanLoad, In, Go, Look, Load
        <4> QED BY <2>2, <2>3, <2>4, <4>1 DEF Frees, Unreclaimed
      <3>2. CASE ScanCheck(p)
        <4>1. /\ pc[p] = "check" /\ seen' = seen
              /\ \/ IsProcessAlive(identity[at[p]]) /\ pc'[p] = "scan" /\ at'[p] = at[p] + 1
                 \/ pc'[p] = "reclaim" /\ at' = at
          BY <3>2 DEF ScanCheck, In, Go, Look
        <4>2. IsProcessAlive(identity[at[p]]) /\ c[1] = at[p] => ~Unreclaimed(c)
          BY <2>2 DEF IsProcessAlive, Unreclaimed, Frees
        <4> QED BY <2>2, <2>3, <2>4, <4>1, <4>2 DEF Frees
      <3>3. CASE ScanCas(p)
        <4>1. /\ pc[p] = "reclaim" /\ pc'[p] = "scan" /\ at'[p] = at[p] + 1
              /\ state' = [state EXCEPT ![at[p]] = Reclaimed(p)]
          BY <3>3 DEF ScanCas, In, Go, Look, Store
        <4>2. ASSUME c[1] = at[p], Unreclaimed(c) PROVE state'[c[1]] # c[2]
          <5>1. seen[p] = c[2] /\ state[at[p]] = c[2]
            BY <2>2, <4>1, <4>2 DEF Frees, Unreclaimed
          <5>2. state'[c[1]] = Free(c[2].gen)
            BY <2>4, <4>1, <4>2, <5>1 DEF Reclaimed
          <5> QED BY <5>2 DEF Free
        <4> QED BY <2>2, <2>3, <2>4, <4>1, <4>2 DEF Frees, Unreclaimed
      <3>4. CASE ScanEnd(p)
        <4>1. pc[p] = "scan" /\ at[p] > N /\ pc'[p] = "claim"
          BY <3>4 DEF ScanEnd, In, Go
        <4>2. c[1] < at[p]
          BY <2>4, <4>1, ParticipantsAssumption
        <4> QED BY <2>2, <2>3, <4>1, <4>2 DEF Frees
      <3>5. CASE pc[p] \in {"claim", "claim_cas"} /\ pc'[p] \notin {"scan", "check", "reclaim"}
        BY <2>2, <2>3, <3>5 DEF Frees
      <3>6. CASE pc'[p] \notin Joined
        BY <3>6 DEF Joined
      <3> QED BY <1>3, <3>1, <3>2, <3>3, <3>4, <3>5, <3>6
              DEF Step, ClaimStep, ReleaseStep, ClaimLoad, ClaimCas, ClaimFails, Fill, Activate, ReleaseLoad,
                  ReleaseClear, ReleaseStore, In, Go, Joined
    <2> QED BY <1>3, <2>3, <2>5 DEF Frees
  <1> QED BY <1>1, <1>2, <1>3
-----------------------------------------------------------------------------
\* The table's inductive invariant: types, the generations of the holders, and
\* what is left to free for a process that joins.
THEOREM ParticipantsInvariant == TableSpec => []ParticipantsInv
  <1>1. ParticipantsInv /\ [TableNext]_tableVars => ParticipantsInv'
    <2> SUFFICES ASSUME ParticipantsInv, [TableNext]_tableVars PROVE ParticipantsInv'
      OBVIOUS
    <2>1. TableTypeOK /\ TableTypeOK'
      BY TableTypeStep DEF ParticipantsInv
    <2>2. CASE UNCHANGED tableVars
      BY <2>1, <2>2 DEF tableVars, ParticipantsInv, Owners, Knows, Apart, Past, MyGen, Reclaimers, Frees,
         Unreclaimed
    <2>3. ASSUME NEW p \in Processes, Step(p) PROVE ParticipantsInv'
      <3>1. overwrote => overwrote'
        BY <2>3 DEF Step, ClaimStep, ReleaseStep, Join, ScanLoad, ScanCheck, ScanCas, ScanEnd, ClaimLoad,
           ClaimCas, ClaimFails, Fill, Activate, ReleaseLoad, ReleaseClear, ReleaseStore, Die, history
      <3>2. ASSUME ~overwrote' PROVE Owners' /\ Reclaimers'
        BY <2>1, <2>3, <3>1, <3>2, OwnersStep, ReclaimersStep DEF ParticipantsInv
      <3> QED BY <2>1, <3>2 DEF ParticipantsInv
    <2> QED BY <2>2, <2>3 DEF TableNext, Step
  <1> QED BY <1>1, InitParticipants, PTL DEF TableSpec

\* However processes scan, claim, release and die between any two accesses to
\* the table, a running attached process keeps its entry, and keeps it for
\* itself, unless ReleaseParticipant's last store overwrote a newer state.
THEOREM OwnersAreSafe == TableSpec => []OwnersKeepEntries
  <1>1. ParticipantsInv => OwnersKeepEntries
    <2> SUFFICES ASSUME TableTypeOK, Owners PROVE AttachedStaysActive /\ ExclusiveEntry
      BY DEF ParticipantsInv, OwnersKeepEntries
    <2>1. AttachedStaysActive
      <3> SUFFICES ASSUME NEW p \in alive, pc[p] = "attached"
                   PROVE  state[at[p]].kind = "active" /\ identity[at[p]] = p
        BY DEF AttachedStaysActive
      <3>1. state[at[p]] = Active(MyGen(p)) /\ identity[at[p]] = p
        BY DEF Owners, Knows
      <3> QED BY <3>1 DEF Active
    <2>2. ExclusiveEntry
      BY Excluded DEF ExclusiveEntry, Protected, Holding
    <2> QED BY <2>1, <2>2
  <1> QED BY <1>1, ParticipantsInvariant, PTL

\* ClaimParticipant's scan frees every entry that a dead process held when it
\* began, whatever the other processes do meanwhile.
THEOREM HoldersAreReclaimed == TableSpec => []HoldersReclaimed
  <1>1. ParticipantsInv => HoldersReclaimed
    <2> SUFFICES ASSUME ParticipantsInv, NEW p \in Processes, Scanned(p), NEW c \in crashed[p],
                        c[2].kind = "active", ~overwrote
                 PROVE  ~Unreclaimed(c)
      BY DEF HoldersReclaimed
    <2>1. Frees(p, c) /\ pc[p] \in {"claim", "claim_cas"}
      BY DEF ParticipantsInv, Reclaimers, Scanned, Joined
    <2> QED BY <2>1 DEF Frees
  <1> QED BY <1>1, ParticipantsInvariant, PTL
=============================================================================
