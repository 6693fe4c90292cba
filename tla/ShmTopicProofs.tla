--------------------------- MODULE ShmTopicProofs ---------------------------
(***************************************************************************)
(* Proofs about ShmTopic for any number of processes, segments and         *)
(* deployments: attached processes meet on the segment the name leads to,  *)
(* the last one out of a reader-owned topic leaves no name behind, and no  *)
(* dispatcher or Read sleeps through a publish or a close.                 *)
(***************************************************************************)
EXTENDS ShmTopic, TLAPS

(* Types *)

\* The control points of a thread that is on no segment, and on one.
Nowhere == {"idle", "create", "open"}
Creating == {"size", "header"}
Awaiting == {"wait_size", "wait_magic"}
Adding == {"sequence", "add"}
Closing == {"wake", "join"}
Leaving == {"check", "retire", "unlink"}
Settled == Adding \cup Closing \cup Leaving \cup {"claim", "notify", "close"}
Somewhere == Creating \cup Awaiting \cup Settled

Kinds == {"reader", "writer"}
SegmentRecords ==
  [stage : {"absent", "created", "sized", "ready"}, shape : {"none", "odd", "usual"},
   retired : BOOLEAN, in : SUBSET Processes, seq : Nat, word : Nat]
ReaderRecords == [cursor : Nat, notified : Nat, told : BOOLEAN, read : {"idle", "blocked"}]
Running == {"load", "look", "wait", "asleep"}
DispatcherRecords == [pc : Running \cup {"none", "exited"}, observed : Nat, seen : Nat]

ThreadsOK ==
  /\ pc \in [Processes -> Nowhere \cup Somewhere]
  /\ at \in [Processes -> {NoSegment} \cup Segments]
  /\ want \in [Processes -> Kinds] /\ map \in [Processes -> {NoSegment} \cup Segments]
  /\ \A p \in Processes : IF pc[p] \in Somewhere THEN at[p] \in Segments ELSE at[p] = NoSegment
SharedOK ==
  /\ name \in {NoSegment} \cup Segments /\ seg \in [Segments -> SegmentRecords]
  /\ alive \subseteq Processes /\ raced \in BOOLEAN
  /\ lastOut \in [Segments -> {"nobody", "closed", "crashed"}]
LocalOK ==
  /\ ends \in [Processes -> [Segments -> SUBSET Kinds]]
  /\ flags \in [Processes -> [Segments -> SUBSET {"open", "had", "mine"}]]
  /\ reader \in [Processes -> [Segments -> ReaderRecords]]
  /\ disp \in [Processes -> [Segments -> DispatcherRecords]]
TypeOK == ThreadsOK /\ SharedOK /\ LocalOK
-----------------------------------------------------------------------------
(* What a process has on a segment *)

At(p, s, points) == at[p] = s /\ pc[p] \in points
On(p, s, points) == p \in alive /\ At(p, s, points)

\* Endpoints and a dispatcher belong to a TopicState that is open, or is being
\* closed; an endpoint that is a reader has a dispatcher.
Holds(p, s) ==
  /\ ends[p][s] # {} => "open" \in flags[p][s]
  /\ flags[p][s] # {} => seg[s].stage = "ready"
  /\ On(p, s, Adding) => "open" \in flags[p][s] /\ "reader" \notin ends[p][s]
  /\ On(p, s, {"add"}) => reader[p][s].read = "idle"
  /\ "reader" \in ends[p][s] => disp[p][s].pc # "none"
  /\ "open" \in flags[p][s] => disp[p][s].pc # "exited"
  /\ p \in alive /\ disp[p][s].pc # "none" => "open" \in flags[p][s] \/ On(p, s, Closing)

HoldsInv == \A p \in Processes, s \in Segments : Holds(p, s)
-----------------------------------------------------------------------------
(* Who has been told *)

\* A dispatcher that found the word as it observed it has seen every publish and
\* its TopicState is open, or the notification is still to come.
Hears(p, s) ==
  \/ disp[p][s].seen = seg[s].seq /\ "open" \in flags[p][s]
  \/ At(p, s, {"wake"})
  \/ \E q \in Processes : At(q, s, {"notify"})

Listens(p, s) ==
  /\ disp[p][s].seen <= seg[s].seq /\ disp[p][s].observed <= seg[s].word
  /\ disp[p][s].pc = "asleep" => disp[p][s].observed = seg[s].word
  /\ p \in alive /\ disp[p][s].pc \in {"wait", "asleep"} /\ disp[p][s].observed = seg[s].word => Hears(p, s)

\* A Read that blocks and was not told was not notified of what it waits for, and
\* neither was its dispatcher.
Waits(p, s) ==
  /\ reader[p][s].notified <= seg[s].seq
  /\ reader[p][s].read = "blocked" /\ ~reader[p][s].told =>
       /\ reader[p][s].notified < reader[p][s].cursor
       /\ "reader" \in ends[p][s] /\ Readable(p, s) => disp[p][s].seen < seg[s].seq

HearsInv == \A p \in Processes, s \in Segments : Listens(p, s) /\ Waits(p, s)
-----------------------------------------------------------------------------
(* Where the processes are *)

OnName(s) == name = s \/ seg[s].retired

\* Nobody is left to finish the segment.
Abandoned(s) == seg[s].stage # "ready" /\ \A q \in Processes : ~On(q, s, Creating)

Meets(p, s) ==
  /\ IsOpen(p, s) \/ On(p, s, Creating \cup {"claim"}) => OnName(s)
  /\ On(p, s, Awaiting) => OnName(s) \/ Abandoned(s)

\* One process initialises a segment, and what it has done shows in the stage.
Stages(p, s) ==
  /\ On(p, s, {"size"}) => seg[s].stage = "created"
  /\ On(p, s, {"header"}) => seg[s].stage = "sized"
  /\ On(p, s, Settled) => seg[s].stage = "ready"
  /\ at[p] = s => seg[s].stage # "absent"
  /\ \A q \in Processes : On(p, s, Creating) /\ On(q, s, Creating) => p = q
  /\ name = s => seg[s].stage # "absent"

MeetsInv ==
  /\ \A p \in Processes, s \in Segments : Stages(p, s)
  /\ ~raced => \A p \in Processes, s \in Segments : Meets(p, s)
-----------------------------------------------------------------------------
(* Who removes the name *)

\* A process that has still to leave the segment.
Responsible(p, s) == IsOpen(p, s) \/ On(p, s, Closing \cup Leaving)
Unlinking(p, s) == At(p, s, {"unlink"})

Owes(p, s) ==
  /\ "mine" \in flags[p][s] => seg[s].retired /\ (name # s \/ Unlinking(p, s))
  /\ p \in seg[s].in \cap alive => IsOpen(p, s) \/ On(p, s, Closing)

Left(s) ==
  /\ seg[s].stage = "absent" => ~seg[s].retired /\ lastOut[s] # "closed"
  /\ seg[s].retired => name # s \/ \E q \in Processes : Unlinking(q, s)
  /\ ReaderOwned /\ name = s /\ lastOut[s] = "closed" =>
       \/ \E q \in Processes : Responsible(q, s)
       \/ \E q \in Processes \ alive : Unlinking(q, s)

LeftInv == (\A p \in Processes, s \in Segments : Owes(p, s)) /\ \A s \in Segments : Left(s)

\* The inductive invariant.
TopicInv == TypeOK /\ HoldsInv /\ HearsInv /\ MeetsInv /\ LeftInv
-----------------------------------------------------------------------------
(* Steps of a thread *)

\* Who is at these points on a segment stays, and nobody comes.
Stay(points) == \A q \in Processes, t \in Segments : At(q, t, points) => At(q, t, points)'
NobodyComes(points) == \A q \in Processes, t \in Segments : At(q, t, points)' => At(q, t, points)

\* Where a thread goes is a point on a segment, or on none.
LEMMA GoType ==
  ASSUME ThreadsOK, NEW p \in Processes, NEW to, NEW s, GoAt(p, to, s),
         to = "idle" \/ (to \in Somewhere /\ s \in Segments) \/ (to = "open" /\ s = NoSegment),
         map' \in [Processes -> {NoSegment} \cup Segments]
  PROVE  ThreadsOK'
<1>1. /\ pc' \in [Processes -> Nowhere \cup Somewhere] /\ at' \in [Processes -> {NoSegment} \cup Segments]
      /\ want' \in [Processes -> Kinds]
  BY DEF ThreadsOK, GoAt, Nowhere, Kinds
<1>2. "idle" \notin Somewhere /\ "open" \notin Somewhere
  BY DEF Somewhere, Settled, Creating, Awaiting, Adding, Closing, Leaving
<1>3. ASSUME NEW q \in Processes
      PROVE  IF pc'[q] \in Somewhere THEN at'[q] \in Segments ELSE at'[q] = NoSegment
  BY <1>2 DEF ThreadsOK, GoAt
<1> QED BY <1>1, <1>3 DEF ThreadsOK

\* Where everybody is after one thread went somewhere.
Goes(p, to, s) ==
  \A q \in Processes : /\ pc'[q] = IF q = p THEN to ELSE pc[q]
                       /\ at'[q] = IF q = p THEN (IF to = "idle" THEN NoSegment ELSE s) ELSE at[q]

\* Going somewhere moves one thread and leaves the others where they are.
LEMMA GoFacts ==
  ASSUME ThreadsOK, NEW p \in Processes, NEW to, NEW s, GoAt(p, to, s) PROVE Goes(p, to, s)
BY DEF ThreadsOK, GoAt, Goes

\* A thread at one of these points is on a segment, otherwise it is not.
LEMMA AtSegment ==
  ASSUME ThreadsOK, NEW p \in Processes
  PROVE  /\ pc[p] \in Somewhere => at[p] \in Segments
         /\ pc[p] \notin Somewhere => at[p] = NoSegment
BY DEF ThreadsOK

\* Who stays and who comes when one thread goes somewhere.
LEMMA Moves ==
  ASSUME NEW p \in Processes, NEW to, NEW s, Goes(p, to, s), NEW points
  PROVE  /\ to \notin points \/ to = "idle" => NobodyComes(points)
         /\ pc[p] \notin points => Stay(points)
         /\ to \in points /\ to # "idle" /\ s = at[p] => Stay(points)
         /\ pc[p] \in points /\ s = at[p] => NobodyComes(points)
<1>0. NoSegment \notin Segments
  BY DEF NoSegment, Segments
<1> QED BY <1>0 DEF Goes, Stay, NobodyComes, At

-----------------------------------------------------------------------------
(* What a step leaves alone *)

\* The endpoints stay, and dispatchers neither begin nor end.
LEMMA HoldsFrame ==
  ASSUME HoldsInv, UNCHANGED <<ends, flags, alive>>,
         \A q \in Processes, t \in Segments :
           /\ disp'[q][t].pc = "none" <=> disp[q][t].pc = "none"
           /\ disp'[q][t].pc = "exited" <=> disp[q][t].pc = "exited"
           /\ reader'[q][t].read = reader[q][t].read,
         \A t \in Segments : seg[t].stage = "ready" => seg'[t].stage = "ready",
         NobodyComes(Adding), NobodyComes({"add"}), Stay(Closing)
  PROVE  HoldsInv'
<1> SUFFICES ASSUME NEW p \in Processes, NEW s \in Segments PROVE Holds(p, s)'
  BY DEF HoldsInv
<1>1. Holds(p, s)
  BY DEF HoldsInv
<1>2. /\ At(p, s, Adding)' => At(p, s, Adding)
      /\ At(p, s, {"add"})' => At(p, s, {"add"})
      /\ At(p, s, Closing) => At(p, s, Closing)'
  BY DEF NobodyComes, Stay
<1> QED BY <1>1, <1>2 DEF Holds, On

\* Nothing is published, no word advances, and no new reader comes.
LEMMA HearsFrame ==
  ASSUME HearsInv, UNCHANGED <<flags, reader, disp, alive>>,
         \A t \in Segments : seg'[t].seq = seg[t].seq /\ seg'[t].word = seg[t].word,
         \A q \in Processes, t \in Segments : "reader" \in ends'[q][t] => "reader" \in ends[q][t],
         Stay({"wake"}), Stay({"notify"})
  PROVE  HearsInv'
<1> SUFFICES ASSUME NEW p \in Processes, NEW s \in Segments PROVE Listens(p, s)' /\ Waits(p, s)'
  BY DEF HearsInv
<1>1. Listens(p, s) /\ Waits(p, s)
  BY DEF HearsInv
<1>2. Hears(p, s) => Hears(p, s)'
  BY DEF Hears, Stay
<1>3. Listens(p, s)'
  BY <1>1, <1>2 DEF Listens
<1>4. Waits(p, s)'
  BY <1>1 DEF Waits, Readable
<1> QED BY <1>3, <1>4

StagesInv == \A p \in Processes, s \in Segments : Stages(p, s)

\* The stages stay as they are when nobody begins a segment and whoever settles
\* on one finds it ready.
LEMMA StagesFrame ==
  ASSUME StagesInv, name' \in {name, NoSegment}, alive' \subseteq alive,
         \A t \in Segments : seg'[t].stage = seg[t].stage,
         NobodyComes({"size"}), NobodyComes({"header"}), NobodyComes(Creating),
         \A q \in Processes, t \in Segments : At(q, t, Settled)' => At(q, t, Settled) \/ seg[t].stage = "ready",
         \A q \in Processes, t \in Segments : at'[q] = t => at[q] = t \/ seg[t].stage # "absent"
  PROVE  StagesInv'
<1>0. NoSegment \notin Segments
  BY DEF NoSegment, Segments
<1> SUFFICES ASSUME NEW p \in Processes, NEW s \in Segments PROVE Stages(p, s)'
  BY DEF StagesInv
<1>1. Stages(p, s)
  BY DEF StagesInv
<1>2. /\ On(p, s, {"size"})' => On(p, s, {"size"})
      /\ On(p, s, {"header"})' => On(p, s, {"header"})
      /\ \A q \in Processes : On(q, s, Creating)' => On(q, s, Creating)
  BY DEF NobodyComes, On
<1>3. On(p, s, Settled)' => On(p, s, Settled) \/ seg[s].stage = "ready"
  BY DEF On
<1> QED BY <1>0, <1>1, <1>2, <1>3 DEF Stages

\* Nobody opens, and the name is not taken away.
LEMMA MeetsFrame ==
  ASSUME \A p \in Processes, s \in Segments : Meets(p, s),
         \A p \in Processes, s \in Segments : IsOpen(p, s)' => IsOpen(p, s),
         \A s \in Segments : OnName(s) => OnName(s)',
         \A s \in Segments : seg'[s].stage = seg[s].stage,
         alive' \subseteq alive,
         NobodyComes(Creating), NobodyComes({"claim"}), NobodyComes(Awaiting)
  PROVE  \A p \in Processes, s \in Segments : Meets(p, s)'
<1> SUFFICES ASSUME NEW p \in Processes, NEW s \in Segments PROVE Meets(p, s)'
  OBVIOUS
<1>1. Meets(p, s)
  OBVIOUS
<1>2. /\ On(p, s, Awaiting)' => On(p, s, Awaiting)
      /\ \A q \in Processes : On(q, s, Creating)' => On(q, s, Creating)
      /\ On(p, s, {"claim"})' => On(p, s, {"claim"})
  BY DEF NobodyComes, On
<1>3. On(p, s, Creating \cup {"claim"})' => On(p, s, Creating \cup {"claim"})
  BY <1>2 DEF On, At
<1>4. Abandoned(s) => Abandoned(s)'
  BY <1>2 DEF Abandoned
<1> QED BY <1>1, <1>2, <1>3, <1>4 DEF Meets

\* Nobody leaves.
LEMMA LeftFrame ==
  ASSUME LeftInv, UNCHANGED <<scenario, alive, lastOut, name>>,
         \A q \in Processes, t \in Segments :
           ("open" \in flags'[q][t] <=> "open" \in flags[q][t]) /\ ("mine" \in flags'[q][t] <=> "mine" \in flags[q][t]),
         \A t \in Segments : /\ seg'[t].stage = "absent" => seg[t].stage = "absent"
                             /\ seg'[t].retired = seg[t].retired
                             /\ seg'[t].in \subseteq seg[t].in,
         Stay(Closing), Stay(Closing \cup Leaving), Stay({"unlink"})
  PROVE  LeftInv'
<1>1. ASSUME NEW p \in Processes, NEW s \in Segments PROVE Owes(p, s)'
  <2>1. Owes(p, s)
    BY DEF LeftInv
  <2>2. Unlinking(p, s) => Unlinking(p, s)'
    BY DEF Stay, Unlinking
  <2>3. On(p, s, Closing) => On(p, s, Closing)'
    BY DEF Stay, On
  <2>4. (IsOpen(p, s) <=> IsOpen(p, s)') /\ ("mine" \in flags'[p][s] <=> "mine" \in flags[p][s])
    BY DEF IsOpen
  <2> QED BY <2>1, <2>2, <2>3, <2>4 DEF Owes
<1>2. ASSUME NEW s \in Segments PROVE Left(s)'
  <2>1. Left(s)
    BY DEF LeftInv
  <2>2. \A q \in Processes : Unlinking(q, s) => Unlinking(q, s)'
    BY DEF Stay, Unlinking
  <2>3. \A q \in Processes : Responsible(q, s) => Responsible(q, s)'
    <3> SUFFICES ASSUME NEW q \in Processes PROVE Responsible(q, s) => Responsible(q, s)'
      OBVIOUS
    <3>1. IsOpen(q, s) <=> IsOpen(q, s)'
      BY DEF IsOpen
    <3>2. On(q, s, Closing \cup Leaving) => On(q, s, Closing \cup Leaving)'
      BY DEF Stay, On
    <3> QED BY <3>1, <3>2 DEF Responsible
  <2> QED BY <2>1, <2>2, <2>3 DEF Left, ReaderOwned
<1> QED BY <1>1, <1>2 DEF LeftInv

\* A thread that was opening gives up, or one that was idle begins something on a
\* segment that is ready.
LEMMA CalmStep ==
  ASSUME TopicInv, NEW p \in Processes, NEW to, NEW s, Goes(p, to, s),
         pc[p] \in Nowhere \cup Awaiting \cup {"claim"},
         \/ to \in {"idle", "create", "open"} /\ s \in {NoSegment, at[p]}
         \/ to \in Settled \ {"claim"} /\ seg[s].stage = "ready",
         UNCHANGED <<scenario, name, seg, alive, flags, reader, disp, raced, lastOut>>,
         \A q \in Processes, t \in Segments : "reader" \in ends'[q][t] => "reader" \in ends[q][t]
  PROVE  /\ HearsInv' /\ MeetsInv' /\ LeftInv'
         /\ ends' = ends /\ to \notin Adding => HoldsInv'
<1> USE DEF Nowhere, Somewhere, Settled, Creating, Awaiting, Adding, Closing, Leaving
<1>1. Stay({"wake"}) /\ Stay({"notify"}) /\ Stay(Closing) /\ Stay(Closing \cup Leaving) /\ Stay({"unlink"})
  BY Moves
<1>2. /\ NobodyComes({"size"}) /\ NobodyComes({"header"}) /\ NobodyComes(Creating)
      /\ NobodyComes({"claim"}) /\ NobodyComes(Awaiting)
  BY Moves
<1>3. HearsInv'
  BY <1>1, HearsFrame DEF TopicInv
<1>4. LeftInv'
  BY <1>1, LeftFrame DEF TopicInv
<1>5. StagesInv'
  <2>0. NoSegment \notin Segments
    BY DEF NoSegment, Segments
  <2>1. \A q \in Processes, t \in Segments : At(q, t, Settled)' => At(q, t, Settled) \/ seg[t].stage = "ready"
    BY <2>0 DEF Goes, At
  <2>2. \A q \in Processes, t \in Segments : at'[q] = t => at[q] = t \/ seg[t].stage # "absent"
    BY <2>0 DEF Goes
  <2> QED BY <1>2, <2>1, <2>2, StagesFrame DEF TopicInv, MeetsInv, StagesInv
<1>6. MeetsInv'
  <2>1. /\ \A q \in Processes, t \in Segments : IsOpen(q, t)' => IsOpen(q, t)
        /\ \A t \in Segments : OnName(t) => OnName(t)'
    BY DEF IsOpen, OnName
  <2>2. ASSUME ~raced PROVE \A q \in Processes, t \in Segments : Meets(q, t)'
    BY <2>1, <2>2, <1>2, MeetsFrame DEF TopicInv, MeetsInv
  <2> QED BY <2>2, <1>5 DEF MeetsInv, StagesInv
<1>7. ASSUME ends' = ends, to \notin Adding PROVE HoldsInv'
  <2>1. NobodyComes(Adding) /\ NobodyComes({"add"})
    BY <1>7, Moves
  <2> QED BY <2>1, <1>1, <1>7, HoldsFrame DEF TopicInv
<1> QED BY <1>3, <1>4, <1>6, <1>7

-----------------------------------------------------------------------------
(* Opening *)

\* GetOrOpenTopic finds the TopicState, which is open, or begins to open one.
LEMMA CreateEndpointKeeps ==
  ASSUME TopicInv, NEW p \in Processes, NEW kind \in Kinds, CreateEndpoint(p, kind) PROVE TopicInv'
<1>0. /\ p \in alive /\ pc[p] = "idle" /\ at[p] = NoSegment
      /\ UNCHANGED <<scenario, name, seg, alive, flags, reader, disp, raced, lastOut>>
  BY AtSegment DEF CreateEndpoint, In, TopicInv, TypeOK, Somewhere, Settled, Creating, Awaiting, Adding, Closing, Leaving
<1>1. CASE Usable(p)
  <2>1. map[p] \in Segments
    BY <1>1 DEF Usable, TopicInv, TypeOK, ThreadsOK
  <2>2. Holds(p, map[p])
    BY <2>1 DEF TopicInv, HoldsInv
  <2>3. "open" \in flags[p][map[p]] /\ seg[map[p]].stage = "ready"
    BY <1>1, <2>2 DEF Usable, Holds
  <2>4. CASE kind = "writer"
    <3>1. ends' = [ends EXCEPT ![p][map[p]] = @ \cup {"writer"}] /\ UNCHANGED <<threads, map>>
      BY <1>1, <2>4 DEF CreateEndpoint
    <3>2. \A q \in Processes, t \in Segments :
            ends'[q][t] = IF q = p /\ t = map[p] THEN ends[q][t] \cup {"writer"} ELSE ends[q][t]
      BY <3>1, <2>1 DEF TopicInv, TypeOK, LocalOK
    <3>3. TypeOK'
      <4>1. ends' \in [Processes -> [Segments -> SUBSET Kinds]]
        BY <3>1, <2>1 DEF TopicInv, TypeOK, LocalOK, Kinds
      <4> QED BY <4>1, <3>1, <1>0 DEF TopicInv, TypeOK, ThreadsOK, SharedOK, LocalOK, threads
    <3>4. HoldsInv'
      <4> SUFFICES ASSUME NEW q \in Processes, NEW t \in Segments PROVE Holds(q, t)'
        BY DEF HoldsInv
      <4>1. Holds(q, t)
        BY DEF TopicInv, HoldsInv
      <4> QED BY <4>1, <3>1, <3>2, <2>3, <1>0 DEF Holds, On, At, threads, Adding
    <3>5. Goes(p, "idle", NoSegment)
      BY <3>1, <1>0 DEF Goes, threads
    <3>6. ASSUME NEW q \in Processes, NEW t \in Segments, "reader" \in ends'[q][t]
          PROVE  "reader" \in ends[q][t]
      <4>1. ends'[q][t] \subseteq ends[q][t] \cup {"writer"}
        BY <3>2
      <4> QED BY <3>6, <4>1
    <3>7. HearsInv' /\ MeetsInv' /\ LeftInv'
      BY <3>5, <3>6, <1>0, CalmStep DEF Nowhere
    <3> QED BY <3>3, <3>4, <3>7 DEF TopicInv
  <2>5. CASE kind = "reader"
    <3>1. GoAt(p, "sequence", map[p]) /\ UNCHANGED <<map, ends>>
      BY <1>1, <2>5 DEF CreateEndpoint
    <3>2. "reader" \notin ends[p][map[p]]
      BY <1>1, <2>1, <2>5 DEF CreateEndpoint, Usable
    <3>3. TypeOK'
      <4>0. map' \in [Processes -> {NoSegment} \cup Segments] /\ "sequence" \in Somewhere
        BY <3>1 DEF TopicInv, TypeOK, ThreadsOK, Somewhere, Settled, Adding
      <4>1. ThreadsOK'
        BY <4>0, <3>1, <2>1, GoType DEF TopicInv, TypeOK
      <4> QED BY <4>1, <3>1, <1>0 DEF TopicInv, TypeOK, SharedOK, LocalOK
    <3>4. Goes(p, "sequence", map[p])
      BY <3>1, GoFacts DEF TopicInv, TypeOK
    <3>5. HoldsInv'
      <4> SUFFICES ASSUME NEW q \in Processes, NEW t \in Segments PROVE Holds(q, t)'
        BY DEF HoldsInv
      <4>1. Holds(q, t)
        BY DEF TopicInv, HoldsInv
      <4> QED BY <4>1, <3>1, <3>2, <3>4, <2>3, <1>0 DEF Holds, On, At, Goes, Adding, Closing
    <3>6. HearsInv' /\ MeetsInv' /\ LeftInv'
      BY <3>1, <3>4, <2>3, <1>0, CalmStep DEF Nowhere, Settled, Adding
    <3> QED BY <3>3, <3>5, <3>6 DEF TopicInv
  <2> QED BY <2>4, <2>5 DEF Kinds
<1>2. CASE ~Usable(p)
  <2>1. /\ pc' = [pc EXCEPT ![p] = "create"] /\ want' = [want EXCEPT ![p] = kind]
        /\ map' = [map EXCEPT ![p] = NoSegment] /\ UNCHANGED <<at, ends>>
    BY <1>2 DEF CreateEndpoint
  <2>2. Goes(p, "create", NoSegment)
    BY <2>1, <1>0 DEF Goes, TopicInv, TypeOK, ThreadsOK
  <2>3. TypeOK'
    <3>1. ThreadsOK'
      BY <2>1, <1>0 DEF TopicInv, TypeOK, ThreadsOK, Nowhere, Somewhere, Settled, Creating, Awaiting, Adding, Closing, Leaving
    <3> QED BY <3>1, <2>1, <1>0 DEF TopicInv, TypeOK, SharedOK, LocalOK
  <2>4. HearsInv' /\ MeetsInv' /\ LeftInv' /\ HoldsInv'
    BY <2>1, <2>2, <1>0, CalmStep DEF Nowhere, Adding
  <2> QED BY <2>3, <2>4 DEF TopicInv
<1> QED BY <1>1, <1>2

\* What a step that goes nowhere has to leave alone.
LEMMA GivesUp ==
  ASSUME TopicInv, NEW p \in Processes, NEW to \in {"idle", "open"}, Go(p, to),
         pc[p] \in Nowhere \cup Awaiting \cup {"claim"}, to = "open" => pc[p] \in Nowhere,
         UNCHANGED <<scenario, name, seg, alive, map, ends, flags, reader, disp, raced, lastOut>>
  PROVE  TopicInv'
<1>1. Goes(p, to, at[p])
  BY GoFacts DEF Go, TopicInv, TypeOK
<1>2. to = "open" => at[p] = NoSegment
  BY AtSegment DEF TopicInv, TypeOK, Nowhere, Somewhere, Settled, Creating, Awaiting, Adding, Closing, Leaving
<1>3. TypeOK'
  <2>1. ThreadsOK'
    BY <1>2, GoType DEF Go, TopicInv, TypeOK, ThreadsOK
  <2> QED BY <2>1 DEF TopicInv, TypeOK, SharedOK, LocalOK
<1>4. HearsInv' /\ MeetsInv' /\ LeftInv' /\ HoldsInv'
  BY <1>1, CalmStep DEF Adding
<1> QED BY <1>3, <1>4 DEF TopicInv

\* The name exists, or a new segment gets it, on which nobody can be yet.
LEMMA CreateRegionKeeps ==
  ASSUME TopicInv, NEW p \in Processes, CreateRegion(p) PROVE TopicInv'
<1> USE DEF Nowhere, Somewhere, Settled, Creating, Awaiting, Adding, Closing, Leaving
<1>0. /\ p \in alive /\ pc[p] = "create" /\ at[p] = NoSegment
      /\ UNCHANGED <<scenario, alive, map, ends, flags, reader, disp, raced, lastOut>>
  BY AtSegment DEF CreateRegion, In, TopicInv, TypeOK, state, rest
<1>1. CASE name # NoSegment
  <2>1. Go(p, "open") /\ UNCHANGED <<name, seg>>
    BY <1>1 DEF CreateRegion
  <2> QED BY <2>1, <1>0, GivesUp
<1>2. CASE name = NoSegment
  <2>1. PICK s \in Segments : /\ seg[s].stage = "absent" /\ name' = s
                              /\ seg' = [seg EXCEPT ![s].stage = "created"] /\ GoAt(p, "size", s)
    BY <1>2 DEF CreateRegion
  <2>2. \A t \in Segments : /\ seg'[t].stage = IF t = s THEN "created" ELSE seg[t].stage
                            /\ seg'[t].retired = seg[t].retired /\ seg'[t].in = seg[t].in
                            /\ seg'[t].seq = seg[t].seq /\ seg'[t].word = seg[t].word
    BY <2>1 DEF TopicInv, TypeOK, SharedOK, SegmentRecords
  <2>3. Goes(p, "size", s)
    BY <2>1, GoFacts DEF TopicInv, TypeOK
  <2>4. /\ Stay({"wake"}) /\ Stay({"notify"}) /\ Stay(Closing) /\ Stay(Closing \cup Leaving) /\ Stay({"unlink"})
        /\ NobodyComes(Adding) /\ NobodyComes({"add"})
    BY <2>3, <1>0, Moves
  <2>5. NoSegment \notin Segments
    BY DEF NoSegment, Segments
  <2>6. \A q \in Processes : at[q] # s /\ flags[q][s] = {}
    BY <2>1 DEF TopicInv, MeetsInv, Stages, HoldsInv, Holds
  <2>7. TypeOK'
    <3>1. ThreadsOK'
      BY <2>1, <1>0, GoType DEF TopicInv, TypeOK, ThreadsOK
    <3>2. seg' \in [Segments -> SegmentRecords]
      BY <2>1 DEF TopicInv, TypeOK, SharedOK, SegmentRecords
    <3> QED BY <3>1, <3>2, <2>1, <1>0 DEF TopicInv, TypeOK, SharedOK, LocalOK
  <2>8. HoldsInv'
    BY <2>1, <2>2, <2>4, <1>0, HoldsFrame DEF TopicInv
  <2>9. HearsInv'
    BY <2>2, <2>4, <1>0, HearsFrame DEF TopicInv
  <2>10. \A q \in Processes, t \in Segments : Stages(q, t)'
    <3> SUFFICES ASSUME NEW q \in Processes, NEW t \in Segments PROVE Stages(q, t)'
      OBVIOUS
    <3>1. \A r \in Processes : Stages(r, t)
      BY DEF TopicInv, MeetsInv
    <3>2. CASE t = s
      BY <3>2, <2>1, <2>2, <2>3, <2>6, <1>0 DEF Stages, On, At, Goes
    <3>3. CASE t # s
      BY <3>1, <3>3, <2>1, <2>2, <2>3, <1>0 DEF Stages, On, At, Goes
    <3> QED BY <3>2, <3>3
  <2>11. ASSUME ~raced, NEW q \in Processes, NEW t \in Segments PROVE Meets(q, t)'
    <3>1. Meets(q, t)
      BY <2>11 DEF TopicInv, MeetsInv
    <3>2. CASE t = s
      BY <3>2, <2>1 DEF Meets, OnName
    <3>3. CASE t # s
      <4>1. OnName(t) => seg[t].retired
        BY <1>2, <2>5 DEF OnName
      <4>2. \A r \in Processes, points \in {Creating, Awaiting, Creating \cup {"claim"}} : On(r, t, points)' = On(r, t, points)
        BY <3>3, <2>3, <1>0, <2>5 DEF On, At, Goes
      <4>3. Abandoned(t) => Abandoned(t)'
        BY <4>2, <3>3, <2>2 DEF Abandoned
      <4> QED BY <4>1, <4>2, <4>3, <3>1, <3>3, <2>2, <1>0 DEF Meets, OnName, IsOpen
    <3> QED BY <3>2, <3>3
  <2>12. LeftInv'
    <3>1. ASSUME NEW q \in Processes, NEW t \in Segments PROVE Owes(q, t)'
      <4>1. Owes(q, t)
        BY DEF TopicInv, LeftInv
      <4>2. On(q, t, Closing) => On(q, t, Closing)'
        BY <2>4, <1>0 DEF Stay, On
      <4> QED BY <4>1, <4>2, <2>1, <2>2, <2>6, <1>0 DEF Owes, IsOpen
    <3>2. ASSUME NEW t \in Segments PROVE Left(t)'
      <4>1. Left(t)
        BY DEF TopicInv, LeftInv
      <4> QED BY <4>1, <2>1, <2>2, <1>0 DEF Left
    <3> QED BY <3>1, <3>2 DEF LeftInv
  <2> QED BY <2>7, <2>8, <2>9, <2>10, <2>11, <2>12, <1>0 DEF TopicInv, MeetsInv
<1> QED BY <1>1, <1>2

\* A thread comes to a segment that others created, or goes on there.
LEMMA OpeningStep ==
  ASSUME TopicInv, NEW p \in Processes, NEW to \in Awaiting \cup {"claim"}, NEW s \in Segments,
         GoAt(p, to, s), pc[p] \in Nowhere \cup Awaiting,
         seg[s].stage # "absent", to = "claim" => seg[s].stage = "ready",
         ~raced => OnName(s) \/ (to \in Awaiting /\ Abandoned(s)),
         UNCHANGED <<scenario, name, seg, alive, map, ends, flags, reader, disp, raced, lastOut>>
  PROVE  TopicInv'
<1> USE DEF Nowhere, Somewhere, Settled, Creating, Awaiting, Adding, Closing, Leaving
<1>1. Goes(p, to, s)
  BY GoFacts DEF TopicInv, TypeOK
<1>2. /\ Stay({"wake"}) /\ Stay({"notify"}) /\ Stay(Closing) /\ Stay(Closing \cup Leaving) /\ Stay({"unlink"})
      /\ NobodyComes(Adding) /\ NobodyComes({"add"})
      /\ NobodyComes({"size"}) /\ NobodyComes({"header"}) /\ NobodyComes(Creating)
  BY <1>1, Moves
<1>3. TypeOK'
  <2>1. map' \in [Processes -> {NoSegment} \cup Segments] /\ to \in Somewhere
    BY DEF TopicInv, TypeOK, ThreadsOK
  <2>2. ThreadsOK'
    BY <2>1, GoType DEF TopicInv, TypeOK
  <2> QED BY <2>2 DEF TopicInv, TypeOK, SharedOK, LocalOK
<1>4. HoldsInv' /\ HearsInv' /\ LeftInv'
  BY <1>2, HoldsFrame, HearsFrame, LeftFrame DEF TopicInv
<1>5. StagesInv'
  <2>0. NoSegment \notin Segments
    BY DEF NoSegment, Segments
  <2>1. \A q \in Processes, t \in Segments : At(q, t, Settled)' => At(q, t, Settled) \/ seg[t].stage = "ready"
    BY <1>1 DEF Goes, At
  <2>2. \A q \in Processes, t \in Segments : at'[q] = t => at[q] = t \/ seg[t].stage # "absent"
    BY <2>0, <1>1 DEF Goes
  <2> QED BY <1>2, <2>1, <2>2, StagesFrame DEF TopicInv, MeetsInv, StagesInv
<1>6. ASSUME ~raced, NEW q \in Processes, NEW t \in Segments PROVE Meets(q, t)'
  <2>1. Meets(q, t)
    BY <1>6 DEF TopicInv, MeetsInv
  <2>2. /\ IsOpen(q, t)' = IsOpen(q, t) /\ OnName(t)' = OnName(t)
        /\ Abandoned(t) => Abandoned(t)'
    BY <1>2 DEF IsOpen, OnName, Abandoned, NobodyComes, On
  <2>3. CASE q = p /\ t = s
    <3>1. IsOpen(p, s) => OnName(s)
      BY <2>1, <2>3 DEF Meets
    <3>2. On(p, s, Creating \cup {"claim"})' => to = "claim"
      BY <1>1 DEF On, At, Goes
    <3>3. On(p, s, Awaiting)' => to \in Awaiting
      BY <1>1 DEF On, At, Goes
    <3>4. (to = "claim" => OnName(s)) /\ (OnName(s) \/ Abandoned(s))
      BY <1>6
    <3> QED BY <3>1, <3>2, <3>3, <3>4, <2>2, <2>3 DEF Meets
  <2>4. CASE ~(q = p /\ t = s)
    <3>1. \A points \in {Awaiting, Creating \cup {"claim"}} : On(q, t, points)' => On(q, t, points)
      BY <1>1, <2>4 DEF On, At, Goes
    <3> QED BY <3>1, <2>1, <2>2 DEF Meets
  <2> QED BY <2>3, <2>4
<1> QED BY <1>3, <1>4, <1>5, <1>6 DEF TopicInv, MeetsInv, StagesInv

\* shm_open of what the name leads to, or of nothing.
LEMMA OpenRegionKeeps ==
  ASSUME TopicInv, NEW p \in Processes, OpenRegion(p) PROVE TopicInv'
<1>0. /\ pc[p] \in Nowhere
      /\ UNCHANGED <<scenario, name, seg, alive, map, ends, flags, reader, disp, raced, lastOut>>
  BY DEF OpenRegion, In, Nowhere, state, rest
<1>1. CASE name = NoSegment
  BY <1>0, <1>1, GivesUp DEF OpenRegion
<1>2. CASE name # NoSegment
  <2>1. name \in Segments
    BY <1>2 DEF TopicInv, TypeOK, SharedOK
  <2>2. seg[name].stage # "absent" /\ OnName(name)
    BY <2>1 DEF TopicInv, MeetsInv, Stages, OnName
  <2> QED BY <2>1, <2>2, <1>0, <1>2, OpeningStep DEF OpenRegion, Awaiting
<1> QED BY <1>1, <1>2

\* The wait for the size ends.
LEMMA AwaitSizeKeeps ==
  ASSUME TopicInv, NEW p \in Processes, AwaitSize(p) PROVE TopicInv'
<1>0. /\ p \in alive /\ pc[p] = "wait_size" /\ at[p] \in Segments
      /\ UNCHANGED <<scenario, name, seg, alive, map, ends, flags, reader, disp, raced, lastOut>>
  BY AtSegment DEF AwaitSize, In, Somewhere, Awaiting, TopicInv, TypeOK, state, rest
<1>1. CASE Go(p, "idle")
  BY <1>0, <1>1, GivesUp DEF Awaiting
<1>2. CASE Go(p, "wait_magic")
  <2>1. On(p, at[p], Awaiting) /\ Stages(p, at[p])
    BY <1>0 DEF On, At, Awaiting, TopicInv, MeetsInv
  <2>2. seg[at[p]].stage # "absent" /\ (~raced => OnName(at[p]) \/ Abandoned(at[p]))
    BY <2>1, <1>0 DEF Stages, TopicInv, MeetsInv, Meets
  <2> QED BY <2>2, <1>0, <1>2, OpeningStep DEF Go, Awaiting
<1> QED BY <1>1, <1>2 DEF AwaitSize

\* The wait for the magic ends; what is ready was not abandoned.
LEMMA AwaitMagicKeeps ==
  ASSUME TopicInv, NEW p \in Processes, AwaitMagic(p) PROVE TopicInv'
<1>0. /\ p \in alive /\ pc[p] = "wait_magic" /\ at[p] \in Segments
      /\ UNCHANGED <<scenario, name, seg, alive, map, ends, flags, reader, disp, raced, lastOut>>
  BY AtSegment DEF AwaitMagic, In, Somewhere, Awaiting, TopicInv, TypeOK, state, rest
<1>1. CASE Go(p, "idle")
  BY <1>0, <1>1, GivesUp DEF Awaiting
<1>2. CASE Go(p, "claim") /\ seg[at[p]].stage = "ready"
  <2>1. On(p, at[p], Awaiting)
    BY <1>0 DEF On, At, Awaiting
  <2>2. ~raced => OnName(at[p])
    BY <2>1, <1>0, <1>2 DEF TopicInv, MeetsInv, Meets, Abandoned
  <2> QED BY <2>2, <1>0, <1>2, OpeningStep DEF Go, Awaiting
<1> QED BY <1>1, <1>2 DEF AwaitMagic

\* After a removal that hit nobody, whoever is attached to another segment is on
\* a retired one.
LEMMA RemovedOthers ==
  ASSUME NEW own, Remove(own), ~raced', NEW q \in Processes, NEW t \in Segments, t \notin own, OnName(t),
         IsOpen(q, t) \/ On(q, t, Creating \cup Awaiting \cup {"claim"})
  PROVE  seg[t].retired
<1>0. t # NoSegment
  BY DEF NoSegment, Segments
<1>1. IsOpen(q, t) \/ Opening(q, t)
  BY DEF Opening, On, At, Creating, Awaiting
<1> QED BY <1>0, <1>1 DEF Remove, OnName

\* Nobody leaves, and the name is gone.
LEMMA LeftRemoved ==
  ASSUME LeftInv, name' = NoSegment, UNCHANGED <<flags, alive, lastOut>>, Stay(Closing),
         \A t \in Segments : /\ seg'[t].stage = seg[t].stage /\ seg'[t].retired = seg[t].retired
                             /\ seg'[t].in = seg[t].in
  PROVE  LeftInv'
<1>0. NoSegment \notin Segments
  BY DEF NoSegment, Segments
<1>1. ASSUME NEW p \in Processes, NEW s \in Segments PROVE Owes(p, s)'
  <2>1. Owes(p, s)
    BY DEF LeftInv
  <2>2. On(p, s, Closing) => On(p, s, Closing)'
    BY DEF Stay, On
  <2> QED BY <2>1, <2>2, <1>0 DEF Owes, IsOpen
<1>2. ASSUME NEW s \in Segments PROVE Left(s)'
  BY <1>0 DEF LeftInv, Left
<1> QED BY <1>1, <1>2 DEF LeftInv

\* The creator of a segment fails, and removes the name; nobody will finish it.
LEMMA CreatorFails ==
  ASSUME TopicInv, NEW p \in Processes, p \in alive, pc[p] \in Creating, Remove({at[p]}), Go(p, "idle"),
         UNCHANGED <<scenario, seg, alive, map, ends, flags, reader, disp, lastOut>>
  PROVE  TopicInv'
<1> USE DEF Nowhere, Somewhere, Settled, Creating, Awaiting, Adding, Closing, Leaving
<1>s. PICK s \in Segments : s = at[p]
  BY AtSegment DEF TopicInv, TypeOK
<1>0. Goes(p, "idle", s) /\ name' = NoSegment /\ (~raced' => ~raced) /\ raced' \in BOOLEAN
  BY <1>s, GoFacts DEF Go, Remove, TopicInv, TypeOK, SharedOK
<1>1. NoSegment \notin Segments
  BY DEF NoSegment, Segments
<1>2. /\ Stay({"wake"}) /\ Stay({"notify"}) /\ Stay(Closing)
      /\ NobodyComes(Adding) /\ NobodyComes({"add"})
      /\ NobodyComes({"size"}) /\ NobodyComes({"header"}) /\ NobodyComes(Creating)
  BY <1>0, Moves
<1>3. TypeOK'
  <2>1. map' \in [Processes -> {NoSegment} \cup Segments]
    BY DEF TopicInv, TypeOK, ThreadsOK
  <2>2. ThreadsOK'
    BY <2>1, GoType DEF Go, TopicInv, TypeOK
  <2> QED BY <2>2, <1>0 DEF TopicInv, TypeOK, SharedOK, LocalOK
<1>4. HoldsInv' /\ HearsInv'
  BY <1>2, HoldsFrame, HearsFrame DEF TopicInv
<1>5. LeftInv'
  BY <1>0, <1>2, LeftRemoved DEF TopicInv
<1>6. StagesInv'
  <2>1. \A q \in Processes, t \in Segments : At(q, t, Settled)' => At(q, t, Settled)
    BY <1>0, <1>1 DEF Goes, At
  <2>2. \A q \in Processes, t \in Segments : at'[q] = t => at[q] = t
    BY <1>0, <1>1 DEF Goes
  <2> QED BY <1>0, <1>2, <2>1, <2>2, StagesFrame DEF TopicInv, MeetsInv, StagesInv
<1>7. ASSUME ~raced', NEW q \in Processes, NEW t \in Segments PROVE Meets(q, t)'
  <2>0. ~raced
    BY <1>0, <1>7
  <2>1. Meets(q, t) /\ Stages(q, t) /\ Holds(q, t)
    BY <2>0 DEF TopicInv, MeetsInv, HoldsInv
  <2>2. /\ \A points \in {Awaiting, Creating \cup {"claim"}} : On(q, t, points)' => On(q, t, points) /\ ~(q = p /\ t = s)
        /\ IsOpen(q, t)' = IsOpen(q, t)
    BY <1>0, <1>1 DEF On, At, Goes, IsOpen
  <2>3. CASE t = s
    <3>1. On(p, s, Creating) /\ Stages(p, s)
      BY <1>s DEF On, At, TopicInv, MeetsInv
    <3>2. seg[s].stage # "ready" /\ \A r \in Processes : On(r, s, Creating) => r = p
      BY <3>1, <1>0 DEF Stages, On, At
    <3>3. \A r \in Processes : ~On(r, s, Creating)'
      BY <3>2, <1>0, <1>1 DEF On, At, Goes
    <3>4. Abandoned(s)'
      BY <3>2, <3>3 DEF Abandoned
    <3>5. ~IsOpen(q, s) /\ ~On(q, s, {"claim"})
      BY <3>2, <2>1, <2>3 DEF IsOpen, Holds, Stages, On, At
    <3>6. ~On(q, s, Creating \cup {"claim"})'
      BY <3>2, <3>5, <2>2, <2>3 DEF On, At
    <3> QED BY <3>4, <3>5, <3>6, <2>2, <2>3 DEF Meets
  <2>4. CASE t # s
    <3>1. OnName(t) /\ (IsOpen(q, t) \/ On(q, t, Creating \cup Awaiting \cup {"claim"})) => OnName(t)'
      BY <1>7, <1>s, <2>4, RemovedOthers DEF OnName
    <3>2. Abandoned(t) => Abandoned(t)'
      BY <1>2 DEF Abandoned, NobodyComes, On
    <3>3. \A points \in {Awaiting, Creating \cup {"claim"}} : On(q, t, points) => On(q, t, Creating \cup Awaiting \cup {"claim"})
      BY DEF On, At
    <3> QED BY <3>1, <3>2, <3>3, <2>1, <2>2 DEF Meets
  <2> QED BY <2>3, <2>4
<1> QED BY <1>3, <1>4, <1>5, <1>6, <1>7, <1>0 DEF TopicInv, MeetsInv, StagesInv

\* The creator goes on with its segment: the size, or the header with its magic.
LEMMA CreatorGoesOn ==
  ASSUME TopicInv, NEW p \in Processes, p \in alive, NEW s \in Segments, at[p] = s,
         NEW to \in {"header", "claim"}, GoAt(p, to, s),
         pc[p] = IF to = "header" THEN "size" ELSE "header",
         seg' \in [Segments -> SegmentRecords],
         \A t \in Segments : /\ seg'[t].stage = IF t = s THEN (IF to = "header" THEN "sized" ELSE "ready")
                                                ELSE seg[t].stage
                             /\ seg'[t].retired = seg[t].retired /\ seg'[t].in = seg[t].in
                             /\ seg'[t].seq = seg[t].seq /\ seg'[t].word = seg[t].word,
         UNCHANGED <<scenario, name, alive, map, ends, flags, reader, disp, raced, lastOut>>
  PROVE  TopicInv'
<1> USE DEF Nowhere, Somewhere, Settled, Creating, Awaiting, Adding, Closing, Leaving
<1>0. Goes(p, to, s) /\ Stages(p, s) /\ On(p, s, Creating)
  BY GoFacts DEF TopicInv, TypeOK, MeetsInv, On, At
<1>1. seg[s].stage \in {"created", "sized"} /\ \A q \in Processes : On(q, s, Creating) => q = p
  BY <1>0 DEF Stages, On, At
<1>2. /\ Stay({"wake"}) /\ Stay({"notify"}) /\ Stay(Closing) /\ Stay(Closing \cup Leaving) /\ Stay({"unlink"})
      /\ NobodyComes(Adding) /\ NobodyComes({"add"})
      /\ NobodyComes(Creating)
  BY <1>0, Moves
<1>3. TypeOK'
  <2>1. map' \in [Processes -> {NoSegment} \cup Segments] /\ to \in Somewhere
    BY DEF TopicInv, TypeOK, ThreadsOK
  <2>2. ThreadsOK'
    BY <2>1, GoType DEF TopicInv, TypeOK
  <2> QED BY <2>2 DEF TopicInv, TypeOK, SharedOK, LocalOK
<1>4. HoldsInv' /\ HearsInv' /\ LeftInv'
  BY <1>1, <1>2, HoldsFrame, HearsFrame, LeftFrame DEF TopicInv
<1>5. ASSUME NEW q \in Processes, NEW t \in Segments PROVE Stages(q, t)'
  <2>1. Stages(q, t)
    BY DEF TopicInv, MeetsInv
  <2>2. \A r \in Processes : On(r, t, Creating)' => On(r, t, Creating)
    BY <1>2 DEF NobodyComes, On
  <2>3. CASE t = s /\ q = p
    BY <2>1, <2>2, <2>3, <1>0, <1>1 DEF Stages, On, At, Goes
  <2>4. CASE t = s /\ q # p
    BY <2>1, <2>2, <2>4, <1>0, <1>1 DEF Stages, On, At, Goes
  <2>5. CASE t # s
    BY <2>1, <2>2, <2>5, <1>0 DEF Stages, On, At, Goes
  <2> QED BY <2>3, <2>4, <2>5
<1>6. ASSUME ~raced, NEW q \in Processes, NEW t \in Segments PROVE Meets(q, t)'
  <2>1. Meets(q, t) /\ Meets(p, s)
    BY <1>6 DEF TopicInv, MeetsInv
  <2>2. /\ IsOpen(q, t)' = IsOpen(q, t) /\ OnName(t)' = OnName(t) /\ OnName(s)
        /\ On(q, t, Awaiting)' => On(q, t, Awaiting)
        /\ On(q, t, Creating \cup {"claim"})' => On(q, t, Creating \cup {"claim"})
    BY <2>1, <1>0 DEF IsOpen, OnName, Meets, On, At, Goes
  <2>3. t # s /\ Abandoned(t) => Abandoned(t)'
    BY <1>2 DEF Abandoned, NobodyComes, On
  <2> QED BY <2>1, <2>2, <2>3 DEF Meets
<1> QED BY <1>3, <1>4, <1>5, <1>6 DEF TopicInv, MeetsInv

\* ftruncate.
LEMMA SizeRegionKeeps ==
  ASSUME TopicInv, NEW p \in Processes, SizeRegion(p) PROVE TopicInv'
<1>0. /\ p \in alive /\ pc[p] = "size" /\ at[p] \in Segments
      /\ UNCHANGED <<scenario, alive, map, ends, flags, reader, disp, lastOut>>
  BY AtSegment DEF SizeRegion, In, Somewhere, Creating, TopicInv, TypeOK, state
<1>1. CASE seg' = [seg EXCEPT ![at[p]].stage = "sized"] /\ Go(p, "header") /\ UNCHANGED <<name, raced>>
  <2>1. /\ seg' \in [Segments -> SegmentRecords]
        /\ \A t \in Segments : /\ seg'[t].stage = IF t = at[p] THEN "sized" ELSE seg[t].stage
                               /\ seg'[t].retired = seg[t].retired /\ seg'[t].in = seg[t].in
                               /\ seg'[t].seq = seg[t].seq /\ seg'[t].word = seg[t].word
    BY <1>0, <1>1 DEF TopicInv, TypeOK, SharedOK, SegmentRecords
  <2> QED BY <2>1, <1>0, <1>1, CreatorGoesOn DEF Go
<1>2. CASE Remove({at[p]}) /\ Go(p, "idle") /\ UNCHANGED seg
  BY <1>0, <1>2, CreatorFails DEF Creating
<1> QED BY <1>1, <1>2 DEF SizeRegion

\* The header.
LEMMA PublishHeaderKeeps ==
  ASSUME TopicInv, NEW p \in Processes, PublishHeader(p) PROVE TopicInv'
<1>0. /\ p \in alive /\ pc[p] = "header" /\ at[p] \in Segments
      /\ UNCHANGED <<scenario, alive, map, ends, flags, reader, disp, lastOut>>
  BY AtSegment DEF PublishHeader, In, Somewhere, Creating, TopicInv, TypeOK, state
<1>1. CASE /\ seg' = [seg EXCEPT ![at[p]].stage = "ready", ![at[p]].shape = Shape(p)]
           /\ Go(p, "claim") /\ UNCHANGED <<name, raced>>
  <2>0. Shape(p) \in {"odd", "usual"}
    BY DEF Shape
  <2>1. /\ seg' \in [Segments -> SegmentRecords]
        /\ \A t \in Segments : /\ seg'[t].stage = IF t = at[p] THEN "ready" ELSE seg[t].stage
                               /\ seg'[t].retired = seg[t].retired /\ seg'[t].in = seg[t].in
                               /\ seg'[t].seq = seg[t].seq /\ seg'[t].word = seg[t].word
    BY <2>0, <1>0, <1>1 DEF TopicInv, TypeOK, SharedOK, SegmentRecords
  <2> QED BY <2>1, <1>0, <1>1, CreatorGoesOn DEF Go
<1>2. CASE Remove({at[p]}) /\ Go(p, "idle") /\ UNCHANGED seg
  BY <1>0, <1>2, CreatorFails DEF Creating
<1> QED BY <1>1, <1>2 DEF PublishHeader

\* ClaimParticipant, and the TopicState that is open from then on.
LEMMA ClaimKeeps ==
  ASSUME TopicInv, NEW p \in Processes, Claim(p) PROVE TopicInv'
<1> USE DEF Nowhere, Somewhere, Settled, Creating, Awaiting, Adding, Closing, Leaving
<1>s. PICK s \in Segments : s = at[p]
  BY AtSegment DEF Claim, In, TopicInv, TypeOK
<1>0. /\ p \in alive /\ pc[p] = "claim"
      /\ UNCHANGED <<scenario, name, alive, reader, disp, raced, lastOut>>
  BY DEF Claim, In, rest
<1>1. CASE Go(p, "idle") /\ UNCHANGED <<seg, flags, ends, map>>
  BY <1>0, <1>1, GivesUp
<1>2. CASE /\ seg' = [seg EXCEPT ![s].in = Live(s) \cup {p}]
           /\ flags' = [flags EXCEPT ![p][s] = {"open"}]
           /\ ends' = [ends EXCEPT ![p][s] = {"writer"} \cap {want[p]}]
           /\ map' = [map EXCEPT ![p] = s]
           /\ Go(p, IF want[p] = "reader" THEN "sequence" ELSE "idle")
  <2>1. /\ seg' \in [Segments -> SegmentRecords]
        /\ \A t \in Segments : /\ seg'[t].stage = seg[t].stage /\ seg'[t].retired = seg[t].retired
                               /\ seg'[t].in = IF t = s THEN Live(s) \cup {p} ELSE seg[t].in
                               /\ seg'[t].seq = seg[t].seq /\ seg'[t].word = seg[t].word
    <3>1. Live(s) \cup {p} \subseteq Processes
      BY DEF Live, TopicInv, TypeOK, SharedOK
    <3> QED BY <3>1, <1>2 DEF TopicInv, TypeOK, SharedOK, SegmentRecords
  <2>2. /\ flags' \in [Processes -> [Segments -> SUBSET {"open", "had", "mine"}]]
        /\ \A q \in Processes, t \in Segments :
             flags'[q][t] = IF q = p /\ t = s THEN {"open"} ELSE flags[q][t]
    BY <1>2 DEF TopicInv, TypeOK, LocalOK
  <2>3. /\ ends' \in [Processes -> [Segments -> SUBSET Kinds]]
        /\ \A q \in Processes, t \in Segments :
             /\ ~(q = p /\ t = s) => ends'[q][t] = ends[q][t]
             /\ ends'[p][s] \subseteq {"writer"}
    BY <1>2 DEF TopicInv, TypeOK, LocalOK, Kinds
  <2>4. PICK to \in {"sequence", "idle"} : GoAt(p, to, s) /\ Goes(p, to, s)
    BY <1>s, <1>2, GoFacts DEF Go, TopicInv, TypeOK
  <2>5. Stages(p, s) /\ On(p, s, {"claim"}) /\ On(p, s, Settled) /\ On(p, s, Creating \cup {"claim"})
    BY <1>0, <1>s DEF On, At, TopicInv, MeetsInv
  <2>6. seg[s].stage = "ready" /\ (~raced => OnName(s))
    BY <2>5 DEF Stages, TopicInv, MeetsInv, Meets
  <2>7. NoSegment \notin Segments
    BY DEF NoSegment, Segments
  <2>8. TypeOK'
    <3>1. map' \in [Processes -> {NoSegment} \cup Segments]
      BY <1>2 DEF TopicInv, TypeOK, ThreadsOK
    <3>2. ThreadsOK'
      BY <3>1, <2>4, GoType DEF TopicInv, TypeOK
    <3> QED BY <3>2, <2>1, <2>2, <2>3, <1>0 DEF TopicInv, TypeOK, SharedOK, LocalOK
  <2>9. HoldsInv'
    <3> SUFFICES ASSUME NEW q \in Processes, NEW t \in Segments PROVE Holds(q, t)'
      BY DEF HoldsInv
    <3>1. Holds(q, t)
      BY DEF TopicInv, HoldsInv
    <3>2. CASE q = p /\ t = s
      <4>1. disp[p][s].pc # "exited"
        BY <3>1, <3>2, <2>5 DEF Holds, On, At
      <4>2. "reader" \notin ends'[p][s] /\ "open" \in flags'[p][s] /\ ~On(p, s, {"add"})'
        BY <2>2, <2>3, <2>4 DEF On, At, Goes
      <4> QED BY <4>1, <4>2, <3>2, <2>1, <2>6, <1>0 DEF Holds
    <3>3. CASE ~(q = p /\ t = s)
      <4>1. ends'[q][t] = ends[q][t] /\ flags'[q][t] = flags[q][t]
        BY <3>3, <2>2, <2>3
      <4>2. \A points \in {Adding, {"add"}, Closing} : On(q, t, points)' = On(q, t, points)
        BY <3>3, <2>4, <2>7, <1>0, <1>s DEF On, At, Goes
      <4> QED BY <4>1, <4>2, <3>1, <2>1, <1>0 DEF Holds
    <3> QED BY <3>2, <3>3
  <2>10. HearsInv'
    <3> SUFFICES ASSUME NEW q \in Processes, NEW t \in Segments PROVE Listens(q, t)' /\ Waits(q, t)'
      BY DEF HearsInv
    <3>1. Listens(q, t) /\ Waits(q, t)
      BY DEF TopicInv, HearsInv
    <3>2. Stay({"wake"}) /\ Stay({"notify"})
      BY <2>4, <1>0, Moves
    <3>3. Hears(q, t) => Hears(q, t)'
      BY <3>2, <2>1, <2>2, <1>0 DEF Hears, Stay
    <3>4. "reader" \in ends'[q][t] => "reader" \in ends[q][t]
      BY <2>3
    <3> QED BY <3>1, <3>3, <3>4, <2>1, <1>0 DEF Listens, Waits, Readable
  <2>11. StagesInv'
    <3>1. NobodyComes({"size"}) /\ NobodyComes({"header"}) /\ NobodyComes(Creating)
      BY <2>4, Moves
    <3>2. \A q \in Processes, t \in Segments : At(q, t, Settled)' => At(q, t, Settled) \/ seg[t].stage = "ready"
      BY <2>4, <2>6, <2>7 DEF Goes, At
    <3>3. \A q \in Processes, t \in Segments : at'[q] = t => at[q] = t \/ seg[t].stage # "absent"
      BY <2>4, <2>6, <2>7 DEF Goes
    <3> QED BY <3>1, <3>2, <3>3, <2>1, <1>0, StagesFrame DEF TopicInv, MeetsInv, StagesInv
  <2>12. ASSUME ~raced, NEW q \in Processes, NEW t \in Segments PROVE Meets(q, t)'
    <3>1. Meets(q, t)
      BY <2>12 DEF TopicInv, MeetsInv
    <3>2. NobodyComes(Creating) /\ NobodyComes(Awaiting) /\ NobodyComes(Creating \cup {"claim"})
      BY <2>4, Moves
    <3>3. /\ On(q, t, Awaiting)' => On(q, t, Awaiting)
          /\ On(q, t, Creating \cup {"claim"})' => On(q, t, Creating \cup {"claim"})
          /\ Abandoned(t) => Abandoned(t)'
          /\ OnName(t)' = OnName(t)
      BY <3>2, <2>1, <1>0 DEF NobodyComes, On, Abandoned, OnName
    <3>4. IsOpen(q, t)' => IsOpen(q, t) \/ t = s
      BY <2>2, <1>0 DEF IsOpen
    <3> QED BY <3>1, <3>3, <3>4, <2>6, <2>12 DEF Meets
  <2>13. LeftInv'
    <3>0. Stay(Closing) /\ Stay(Closing \cup Leaving) /\ Stay({"unlink"})
      BY <2>4, <1>0, Moves
    <3>1. ASSUME NEW q \in Processes, NEW t \in Segments PROVE Owes(q, t)'
      <4>1. Owes(q, t)
        BY DEF TopicInv, LeftInv
      <4>2. (On(q, t, Closing) => On(q, t, Closing)') /\ (Unlinking(q, t) => Unlinking(q, t)')
        BY <3>0, <1>0 DEF Stay, On, Unlinking
      <4>3. q \in seg'[t].in \cap alive => q \in seg[t].in \cap alive \/ (q = p /\ t = s)
        BY <2>1 DEF Live
      <4>4. (IsOpen(q, t) => IsOpen(q, t)') /\ (q = p /\ t = s => IsOpen(q, t)')
        BY <2>2, <1>0 DEF IsOpen
      <4>5. "mine" \in flags'[q][t] => "mine" \in flags[q][t]
        BY <2>2
      <4> QED BY <4>1, <4>2, <4>3, <4>4, <4>5, <2>1, <1>0 DEF Owes
    <3>2. ASSUME NEW t \in Segments PROVE Left(t)'
      <4>1. Left(t)
        BY DEF TopicInv, LeftInv
      <4>2. \A q \in Processes : Unlinking(q, t) => Unlinking(q, t)'
        BY <3>0 DEF Stay, Unlinking
      <4>3. \A q \in Processes : Responsible(q, t) => Responsible(q, t)'
        BY <3>0, <2>2, <1>0 DEF Stay, On, Responsible, IsOpen
      <4> QED BY <4>1, <4>2, <4>3, <2>1, <1>0 DEF Left, ReaderOwned
    <3> QED BY <3>1, <3>2 DEF LeftInv
  <2> QED BY <2>8, <2>9, <2>10, <2>11, <2>12, <2>13, <1>0 DEF TopicInv, MeetsInv, StagesInv
<1> QED BY <1>1, <1>2, <1>s DEF Claim

\* A thread that has its TopicState goes on there, or is done, or it begins
\* something on a segment that is ready.
LEMMA SettledStep ==
  ASSUME TopicInv, NEW p \in Processes, NEW to \in {"idle"} \cup (Settled \ {"claim"}), NEW s, Goes(p, to, s),
         (pc[p] \in Settled /\ s = at[p]) \/ seg[s].stage = "ready",
         alive' = alive, name' = name, raced' = raced,
         \A q \in Processes, t \in Segments : "open" \in flags'[q][t] => "open" \in flags[q][t],
         \A t \in Segments : seg'[t].stage = seg[t].stage /\ (seg[t].retired => seg'[t].retired)
  PROVE  MeetsInv'
<1> USE DEF Nowhere, Somewhere, Settled, Creating, Awaiting, Adding, Closing, Leaving
<1>0. NoSegment \notin Segments
  BY DEF NoSegment, Segments
<1>1. /\ NobodyComes({"size"}) /\ NobodyComes({"header"}) /\ NobodyComes(Creating)
      /\ NobodyComes({"claim"}) /\ NobodyComes(Awaiting)
  BY Moves
<1>2. StagesInv'
  <2>1. \A q \in Processes, t \in Segments : At(q, t, Settled)' => At(q, t, Settled) \/ seg[t].stage = "ready"
    BY <1>0 DEF Goes, At
  <2>2. \A q \in Processes, t \in Segments : at'[q] = t => at[q] = t \/ seg[t].stage # "absent"
    BY <1>0 DEF Goes
  <2> QED BY <1>1, <2>1, <2>2, StagesFrame DEF TopicInv, MeetsInv, StagesInv
<1>3. ASSUME ~raced PROVE \A q \in Processes, t \in Segments : Meets(q, t)'
  <2>1. /\ \A q \in Processes, t \in Segments : IsOpen(q, t)' => IsOpen(q, t)
        /\ \A t \in Segments : OnName(t) => OnName(t)'
    BY DEF IsOpen, OnName
  <2> QED BY <2>1, <1>1, <1>3, MeetsFrame DEF TopicInv, MeetsInv
<1> QED BY <1>2, <1>3 DEF MeetsInv, StagesInv

\* CreateReader begins after what is in the ring.
LEMMA TakeSequenceKeeps ==
  ASSUME TopicInv, NEW p \in Processes, TakeSequence(p) PROVE TopicInv'
<1> USE DEF Nowhere, Somewhere, Settled, Creating, Awaiting, Adding, Closing, Leaving
<1>s. PICK s \in Segments : s = at[p]
  BY AtSegment DEF TakeSequence, In, TopicInv, TypeOK
<1>0. /\ p \in alive /\ pc[p] = "sequence"
      /\ UNCHANGED <<scenario, name, seg, alive, map, ends, flags, disp, raced, lastOut>>
  BY DEF TakeSequence, In, rest
<1>1. /\ reader' \in [Processes -> [Segments -> ReaderRecords]]
      /\ \A q \in Processes, t \in Segments : ~(q = p /\ t = s) => reader'[q][t] = reader[q][t]
      /\ reader'[p][s].read = "idle" /\ reader'[p][s].notified = seg[s].seq
  BY <1>s DEF TakeSequence, ReaderRecords, TopicInv, TypeOK, LocalOK, SharedOK, SegmentRecords
<1>2. GoAt(p, "add", s) /\ Goes(p, "add", s)
  BY <1>s, GoFacts DEF TakeSequence, Go, TopicInv, TypeOK
<1>3. /\ Stay({"wake"}) /\ Stay({"notify"}) /\ Stay(Closing) /\ Stay(Closing \cup Leaving) /\ Stay({"unlink"})
      /\ NobodyComes(Adding)
  BY <1>0, <1>2, <1>s, Moves
<1>4. TypeOK'
  <2>1. map' \in [Processes -> {NoSegment} \cup Segments]
    BY <1>0 DEF TopicInv, TypeOK, ThreadsOK
  <2>2. ThreadsOK'
    BY <2>1, <1>2, GoType DEF TopicInv, TypeOK
  <2> QED BY <2>2, <1>0, <1>1 DEF TopicInv, TypeOK, SharedOK, LocalOK
<1>5. HoldsInv'
  <2> SUFFICES ASSUME NEW q \in Processes, NEW t \in Segments PROVE Holds(q, t)'
    BY DEF HoldsInv
  <2>1. Holds(q, t)
    BY DEF TopicInv, HoldsInv
  <2>2. /\ On(q, t, Adding)' => On(q, t, Adding)
        /\ On(q, t, Closing) => On(q, t, Closing)'
    BY <1>0, <1>3 DEF NobodyComes, Stay, On
  <2>3. On(q, t, {"add"})' => reader'[q][t].read = "idle"
    BY <2>1, <1>0, <1>1, <1>2 DEF Holds, On, At, Goes
  <2> QED BY <2>1, <2>2, <2>3, <1>0 DEF Holds
<1>6. HearsInv'
  <2> SUFFICES ASSUME NEW q \in Processes, NEW t \in Segments PROVE Listens(q, t)' /\ Waits(q, t)'
    BY DEF HearsInv
  <2>1. Listens(q, t) /\ Waits(q, t)
    BY DEF TopicInv, HearsInv
  <2>2. Hears(q, t) => Hears(q, t)'
    BY <1>0, <1>3 DEF Hears, Stay
  <2>3. Waits(q, t)'
    <3>1. CASE q = p /\ t = s
      <4>1. seg[s].seq \in Nat
        BY DEF TopicInv, TypeOK, SharedOK, SegmentRecords
      <4> QED BY <4>1, <3>1, <1>0, <1>1 DEF Waits
    <3>2. CASE ~(q = p /\ t = s)
      BY <3>2, <2>1, <1>0, <1>1 DEF Waits, Readable
    <3> QED BY <3>1, <3>2
  <2> QED BY <2>1, <2>2, <2>3, <1>0 DEF Listens
<1>7. MeetsInv'
  BY <1>0, <1>2, <1>s, SettledStep
<1>8. LeftInv'
  BY <1>0, <1>3, LeftFrame DEF TopicInv
<1> QED BY <1>4, <1>5, <1>6, <1>7, <1>8 DEF TopicInv

\* AddReader, and the dispatcher it starts.
LEMMA AddReaderKeeps ==
  ASSUME TopicInv, NEW p \in Processes, AddReader(p) PROVE TopicInv'
<1> USE DEF Nowhere, Somewhere, Settled, Creating, Awaiting, Adding, Closing, Leaving
<1>s. PICK s \in Segments : s = at[p]
  BY AtSegment DEF AddReader, In, TopicInv, TypeOK
<1>0. /\ p \in alive /\ pc[p] = "add"
      /\ UNCHANGED <<scenario, name, seg, alive, map, reader, raced, lastOut>>
  BY DEF AddReader, In, rest
<1>1. /\ flags' \in [Processes -> [Segments -> SUBSET {"open", "had", "mine"}]]
      /\ \A q \in Processes, t \in Segments :
           flags'[q][t] = IF q = p /\ t = s THEN flags[p][s] \cup {"had"} ELSE flags[q][t]
  BY <1>s DEF AddReader, TopicInv, TypeOK, LocalOK
<1>2. /\ ends' \in [Processes -> [Segments -> SUBSET Kinds]]
      /\ \A q \in Processes, t \in Segments :
           ends'[q][t] = IF q = p /\ t = s THEN ends[p][s] \cup {"reader"} ELSE ends[q][t]
  BY <1>s DEF AddReader, TopicInv, TypeOK, LocalOK, Kinds
<1>3. /\ disp' \in [Processes -> [Segments -> DispatcherRecords]]
      /\ \A q \in Processes, t \in Segments :
           disp'[q][t] = IF q = p /\ t = s /\ disp[p][s].pc = "none"
                         THEN [pc |-> "load", observed |-> 0, seen |-> seg[s].seq] ELSE disp[q][t]
  <2>1. [pc |-> "load", observed |-> 0, seen |-> seg[s].seq] \in DispatcherRecords
    BY DEF DispatcherRecords, Running, TopicInv, TypeOK, SharedOK, SegmentRecords
  <2> QED BY <2>1, <1>s DEF AddReader, TopicInv, TypeOK, LocalOK
<1>4. GoAt(p, "idle", s) /\ Goes(p, "idle", s)
  BY <1>s, GoFacts DEF AddReader, Go, TopicInv, TypeOK
<1>5. /\ Stay({"wake"}) /\ Stay({"notify"}) /\ Stay(Closing) /\ Stay(Closing \cup Leaving) /\ Stay({"unlink"})
      /\ NobodyComes(Adding) /\ NobodyComes({"add"})
  BY <1>0, <1>4, Moves
<1>6. Holds(p, s) /\ On(p, s, Adding) /\ On(p, s, {"add"})
  BY <1>0, <1>s DEF TopicInv, HoldsInv, On, At
<1>7. "open" \in flags[p][s] /\ reader[p][s].read = "idle"
  BY <1>6 DEF Holds
<1>8. TypeOK'
  <2>1. map' \in [Processes -> {NoSegment} \cup Segments]
    BY <1>0 DEF TopicInv, TypeOK, ThreadsOK
  <2>2. ThreadsOK'
    BY <2>1, <1>4, GoType DEF TopicInv, TypeOK
  <2> QED BY <2>2, <1>0, <1>1, <1>2, <1>3 DEF TopicInv, TypeOK, SharedOK, LocalOK
<1>9. HoldsInv'
  <2> SUFFICES ASSUME NEW q \in Processes, NEW t \in Segments PROVE Holds(q, t)'
    BY DEF HoldsInv
  <2>1. Holds(q, t)
    BY DEF TopicInv, HoldsInv
  <2>2. /\ On(q, t, {"add"})' => On(q, t, {"add"})
        /\ On(q, t, Closing) => On(q, t, Closing)'
        /\ On(q, t, Adding)' => On(q, t, Adding) /\ ~(q = p /\ t = s)
    <3>1. NoSegment \notin Segments
      BY DEF NoSegment, Segments
    <3> QED BY <3>1, <1>0, <1>4, <1>5 DEF NobodyComes, Stay, On, At, Goes
  <2>3. CASE q = p /\ t = s
    BY <2>1, <2>2, <2>3, <1>0, <1>1, <1>2, <1>3, <1>7 DEF Holds
  <2>4. CASE ~(q = p /\ t = s)
    <3>1. ends'[q][t] = ends[q][t] /\ flags'[q][t] = flags[q][t] /\ disp'[q][t] = disp[q][t]
      BY <2>4, <1>1, <1>2, <1>3
    <3> QED BY <3>1, <2>1, <2>2, <1>0 DEF Holds
  <2> QED BY <2>3, <2>4
<1>10. HearsInv'
  <2> SUFFICES ASSUME NEW q \in Processes, NEW t \in Segments PROVE Listens(q, t)' /\ Waits(q, t)'
    BY DEF HearsInv
  <2>1. Listens(q, t) /\ Waits(q, t)
    BY DEF TopicInv, HearsInv
  <2>2. seg[t].seq \in Nat /\ seg[t].word \in Nat
    BY DEF TopicInv, TypeOK, SharedOK, SegmentRecords
  <2>3. CASE disp'[q][t] = disp[q][t]
    <3>1. "open" \in flags[q][t] => "open" \in flags'[q][t]
      BY <1>1
    <3>2. Hears(q, t) => Hears(q, t)'
      BY <3>1, <2>3, <1>0, <1>5 DEF Hears, Stay
    <3>3. (q = p /\ t = s) \/ ends'[q][t] = ends[q][t]
      BY <1>2
    <3> QED BY <3>2, <3>3, <2>1, <2>3, <1>0, <1>7 DEF Listens, Waits, Readable
  <2>4. CASE q = p /\ t = s /\ disp'[q][t] = [pc |-> "load", observed |-> 0, seen |-> seg[s].seq]
    BY <2>1, <2>2, <2>4, <1>0, <1>7 DEF Listens, Waits
  <2> QED BY <2>3, <2>4, <1>3
<1>11. MeetsInv'
  <2>1. \A q \in Processes, t \in Segments : "open" \in flags'[q][t] => "open" \in flags[q][t]
    BY <1>1, <1>7
  <2> QED BY <2>1, <1>0, <1>4, <1>s, SettledStep
<1>12. LeftInv'
  <2>1. \A q \in Processes, t \in Segments :
          ("open" \in flags'[q][t] <=> "open" \in flags[q][t]) /\ ("mine" \in flags'[q][t] <=> "mine" \in flags[q][t])
    BY <1>1
  <2> QED BY <2>1, <1>0, <1>5, LeftFrame DEF TopicInv
<1> QED BY <1>8, <1>9, <1>10, <1>11, <1>12 DEF TopicInv

-----------------------------------------------------------------------------
(* Publishing, and the dispatcher *)

\* A message is in the ring, and its notification is to come.
LEMMA PublishKeeps ==
  ASSUME TopicInv, NEW p \in Processes, NEW s \in Segments, Publish(p, s) PROVE TopicInv'
<1> USE DEF Nowhere, Somewhere, Settled, Creating, Awaiting, Adding, Closing, Leaving
<1>0. /\ p \in alive /\ pc[p] = "idle" /\ "open" \in flags[p][s]
      /\ UNCHANGED <<scenario, name, alive, map, ends, flags, reader, disp, raced, lastOut>>
  BY DEF Publish, In, IsOpen, state, rest
<1>1. /\ seg' \in [Segments -> SegmentRecords]
      /\ \A t \in Segments : /\ seg'[t].stage = seg[t].stage /\ seg'[t].retired = seg[t].retired
                             /\ seg'[t].in = seg[t].in /\ seg'[t].word = seg[t].word
                             /\ seg'[t].seq = IF t = s THEN seg[t].seq + 1 ELSE seg[t].seq
  BY DEF Publish, TopicInv, TypeOK, SharedOK, SegmentRecords
<1>2. GoAt(p, "notify", s) /\ Goes(p, "notify", s)
  BY GoFacts DEF Publish, TopicInv, TypeOK
<1>3. /\ Stay({"wake"}) /\ Stay({"notify"}) /\ Stay(Closing) /\ Stay(Closing \cup Leaving) /\ Stay({"unlink"})
      /\ NobodyComes(Adding) /\ NobodyComes({"add"})
  BY <1>0, <1>2, Moves
<1>4. TypeOK'
  <2>1. map' \in [Processes -> {NoSegment} \cup Segments]
    BY <1>0 DEF TopicInv, TypeOK, ThreadsOK
  <2>2. ThreadsOK'
    BY <2>1, <1>2, GoType DEF TopicInv, TypeOK
  <2> QED BY <2>2, <1>0, <1>1 DEF TopicInv, TypeOK, SharedOK, LocalOK
<1>5. HoldsInv'
  BY <1>0, <1>1, <1>3, HoldsFrame DEF TopicInv
<1>6. HearsInv'
  <2> SUFFICES ASSUME NEW q \in Processes, NEW t \in Segments PROVE Listens(q, t)' /\ Waits(q, t)'
    BY DEF HearsInv
  <2>1. Listens(q, t) /\ Waits(q, t)
    BY DEF TopicInv, HearsInv
  <2>2. /\ seg[t].seq \in Nat /\ disp[q][t].seen \in Nat /\ reader[q][t].notified \in Nat
    BY DEF TopicInv, TypeOK, SharedOK, LocalOK, SegmentRecords, DispatcherRecords, ReaderRecords
  <2>3. Hears(q, t) => Hears(q, t)'
    <3>1. At(p, s, {"notify"})'
      BY <1>2 DEF At, Goes
    <3>2. CASE t = s
      BY <3>1, <3>2 DEF Hears
    <3>3. CASE t # s
      BY <3>3, <1>0, <1>1, <1>3 DEF Hears, Stay
    <3> QED BY <3>2, <3>3
  <2>4. Hears(q, s)'
    <3>1. At(p, s, {"notify"})'
      BY <1>2 DEF At, Goes
    <3> QED BY <3>1 DEF Hears
  <2>5. Listens(q, t)'
    BY <2>1, <2>2, <2>3, <1>0, <1>1 DEF Listens
  <2>6. Waits(q, t)'
    <3>1. CASE t = s
      BY <3>1, <2>1, <2>2, <1>0, <1>1 DEF Waits, Listens
    <3>2. CASE t # s
      BY <3>2, <2>1, <1>0, <1>1 DEF Waits, Readable
    <3> QED BY <3>1, <3>2
  <2> QED BY <2>5, <2>6
<1>7. MeetsInv'
  <2>1. seg[s].stage = "ready"
    BY <1>0 DEF TopicInv, HoldsInv, Holds
  <2> QED BY <2>1, <1>0, <1>1, <1>2, SettledStep
<1>8. LeftInv'
  BY <1>0, <1>1, <1>3, LeftFrame DEF TopicInv
<1> QED BY <1>4, <1>5, <1>6, <1>7, <1>8 DEF TopicInv

\* What NotifyAll changes.
Notified(s) ==
  /\ seg' \in [Segments -> SegmentRecords] /\ disp' \in [Processes -> [Segments -> DispatcherRecords]]
  /\ \A t \in Segments : /\ seg'[t].stage = seg[t].stage /\ seg'[t].retired = seg[t].retired
                         /\ seg'[t].in = seg[t].in /\ seg'[t].seq = seg[t].seq
                         /\ seg'[t].word = IF t = s THEN seg[t].word + 1 ELSE seg[t].word
  /\ \A q \in Processes, t \in Segments :
       disp'[q][t] = IF t = s /\ disp[q][t].pc = "asleep" THEN Looping(disp[q][t]) ELSE disp[q][t]

\* NotifyAll counts the word of its segment up and wakes the sleepers on it.
LEMMA NotifyFacts == ASSUME TypeOK, NEW s \in Segments, NotifyAll(s) PROVE Notified(s)
<1>1. /\ seg' \in [Segments -> SegmentRecords]
      /\ \A t \in Segments : /\ seg'[t].stage = seg[t].stage /\ seg'[t].retired = seg[t].retired
                             /\ seg'[t].in = seg[t].in /\ seg'[t].seq = seg[t].seq
                             /\ seg'[t].word = IF t = s THEN seg[t].word + 1 ELSE seg[t].word
  BY DEF NotifyAll, TypeOK, SharedOK, SegmentRecords
<1>2. ASSUME NEW q \in Processes, NEW t \in Segments
      PROVE  /\ disp'[q][t] = IF t = s /\ disp[q][t].pc = "asleep" THEN Looping(disp[q][t]) ELSE disp[q][t]
             /\ disp'[q][t] \in DispatcherRecords
  <2>1. disp'[q] = [disp[q] EXCEPT ![s] = IF @.pc = "asleep" THEN Looping(@) ELSE @]
    BY DEF NotifyAll, Woken
  <2>2. disp[q] \in [Segments -> DispatcherRecords]
    BY DEF TypeOK, LocalOK
  <2>3. disp'[q][t] = IF t = s /\ disp[q][t].pc = "asleep" THEN Looping(disp[q][t]) ELSE disp[q][t]
    BY <2>1, <2>2
  <2>4. Looping(disp[q][t]) \in DispatcherRecords
    BY <2>2 DEF Looping, DispatcherRecords, Running
  <2> QED BY <2>2, <2>3, <2>4
<1>3. disp' \in [Processes -> [Segments -> DispatcherRecords]]
  <2>1. disp' = Woken(s)
    BY DEF NotifyAll
  <2>2. ASSUME NEW q \in Processes PROVE Woken(s)[q] \in [Segments -> DispatcherRecords]
    <3>1. Woken(s)[q] = [disp[q] EXCEPT ![s] = IF @.pc = "asleep" THEN Looping(@) ELSE @]
      BY DEF Woken
    <3>2. disp[q] \in [Segments -> DispatcherRecords] /\ Looping(disp[q][s]) \in DispatcherRecords
      BY DEF TypeOK, LocalOK, Looping, DispatcherRecords, Running
    <3> QED BY <3>1, <3>2
  <2> QED BY <2>1, <2>2 DEF Woken
<1> QED BY <1>1, <1>2, <1>3 DEF Notified

\* Whoever waits on a word that advanced no longer finds it as observed.
LEMMA HearsNotified ==
  ASSUME TopicInv, NEW s \in Segments, Notified(s), UNCHANGED <<ends, flags, reader, alive>>,
         \A q \in Processes, t \in Segments :
           t # s => /\ At(q, t, {"wake"}) => At(q, t, {"wake"})'
                    /\ At(q, t, {"notify"}) => At(q, t, {"notify"})'
  PROVE  HearsInv'
<1> SUFFICES ASSUME NEW q \in Processes, NEW t \in Segments PROVE Listens(q, t)' /\ Waits(q, t)'
  BY DEF HearsInv
<1>1. Listens(q, t) /\ Waits(q, t)
  BY DEF TopicInv, HearsInv
<1>2. seg[t].word \in Nat /\ disp[q][t].observed \in Nat /\ disp[q][t].seen \in Nat /\ seg[t].seq \in Nat
  BY DEF TopicInv, TypeOK, SharedOK, LocalOK, SegmentRecords, DispatcherRecords
<1>3. CASE t = s /\ disp[q][t].pc = "asleep"
  <2>0. disp'[q][t] = Looping(disp[q][t])
    BY <1>3 DEF Notified
  <2>1. disp'[q][t].pc = "load" /\ disp'[q][t].observed = 0 /\ disp'[q][t].seen = disp[q][t].seen
    BY <2>0 DEF Looping
  <2> QED BY <2>1, <1>1, <1>2, <1>3 DEF Listens, Waits, Readable, Notified
<1>4. CASE t = s /\ disp[q][t].pc # "asleep"
  <2>1. disp'[q][t] = disp[q][t]
    BY <1>4 DEF Notified
  <2> QED BY <2>1, <1>1, <1>2, <1>4 DEF Listens, Waits, Readable, Notified
<1>5. CASE t # s
  <2>1. disp'[q][t] = disp[q][t] /\ seg'[t].seq = seg[t].seq /\ seg'[t].word = seg[t].word
    BY <1>5 DEF Notified
  <2>2. Hears(q, t) => Hears(q, t)'
    BY <2>1, <1>5 DEF Hears
  <2> QED BY <2>1, <2>2, <1>1 DEF Listens, Waits, Readable
<1> QED BY <1>3, <1>4, <1>5

\* A dispatcher that is woken has neither begun nor ended.
LEMMA HoldsNotified ==
  ASSUME TopicInv, NEW s \in Segments, Notified(s), UNCHANGED <<ends, flags, reader, alive>>,
         NobodyComes(Adding), NobodyComes({"add"}), Stay(Closing)
  PROVE  HoldsInv'
<1>1. ASSUME NEW q \in Processes, NEW t \in Segments
      PROVE  /\ disp'[q][t].pc = "none" <=> disp[q][t].pc = "none"
             /\ disp'[q][t].pc = "exited" <=> disp[q][t].pc = "exited"
  <2>1. CASE disp'[q][t] = Looping(disp[q][t]) /\ disp[q][t].pc = "asleep"
    BY <2>1 DEF Looping
  <2>2. CASE disp'[q][t] = disp[q][t]
    BY <2>2
  <2> QED BY <2>1, <2>2 DEF Notified
<1>2. \A t \in Segments : seg'[t].stage = seg[t].stage
  BY DEF Notified
<1> QED BY <1>1, <1>2, HoldsFrame DEF TopicInv

\* The publisher notifies.
LEMMA CommittedKeeps ==
  ASSUME TopicInv, NEW p \in Processes, Committed(p) PROVE TopicInv'
<1> USE DEF Nowhere, Somewhere, Settled, Creating, Awaiting, Adding, Closing, Leaving
<1>s. PICK s \in Segments : s = at[p]
  BY AtSegment DEF Committed, In, TopicInv, TypeOK
<1>0. /\ p \in alive /\ pc[p] = "notify" /\ Notified(s)
      /\ UNCHANGED <<scenario, name, alive, map, ends, flags, reader, raced, lastOut>>
  BY <1>s, NotifyFacts DEF Committed, In, rest, TopicInv
<1>1. GoAt(p, "idle", s) /\ Goes(p, "idle", s)
  BY <1>s, GoFacts DEF Committed, Go, TopicInv, TypeOK
<1>2. /\ Stay({"wake"}) /\ Stay(Closing) /\ Stay(Closing \cup Leaving) /\ Stay({"unlink"})
      /\ NobodyComes(Adding) /\ NobodyComes({"add"})
  BY <1>0, <1>1, Moves
<1>3. TypeOK'
  <2>1. map' \in [Processes -> {NoSegment} \cup Segments]
    BY <1>0 DEF TopicInv, TypeOK, ThreadsOK
  <2>2. ThreadsOK'
    BY <2>1, <1>1, GoType DEF TopicInv, TypeOK
  <2> QED BY <2>2, <1>0 DEF TopicInv, TypeOK, SharedOK, LocalOK, Notified
<1>4. HoldsInv'
  BY <1>0, <1>2, HoldsNotified
<1>5. HearsInv'
  <2>1. ASSUME NEW q \in Processes, NEW t \in Segments, t # s
        PROVE  At(q, t, {"notify"}) => At(q, t, {"notify"})'
    BY <2>1, <1>1, <1>s DEF At, Goes
  <2> QED BY <2>1, <1>0, <1>2, HearsNotified DEF Stay
<1>6. MeetsInv'
  BY <1>0, <1>1, <1>s, SettledStep DEF Notified
<1>7. LeftInv'
  BY <1>0, <1>2, LeftFrame DEF TopicInv, Notified
<1> QED BY <1>3, <1>4, <1>5, <1>6, <1>7 DEF TopicInv

\* A dispatcher or a Read moves, and no thread that opens or closes.
LEMMA LocalStep ==
  ASSUME TopicInv, UNCHANGED <<scenario, name, seg, alive, threads, map, ends, flags, raced, lastOut>>
  PROVE  /\ ThreadsOK' /\ SharedOK' /\ MeetsInv' /\ LeftInv'
         /\ \A points : Stay(points) /\ NobodyComes(points)
<1>0. UNCHANGED <<pc, at, want>>
  BY DEF threads
<1>1. \A points : Stay(points) /\ NobodyComes(points)
  BY <1>0 DEF Stay, NobodyComes, At
<1>2. ThreadsOK' /\ SharedOK'
  BY <1>0 DEF TopicInv, TypeOK, ThreadsOK, SharedOK
<1>3. StagesInv'
  <2>1. /\ \A q \in Processes, t \in Segments : At(q, t, Settled)' => At(q, t, Settled)
        /\ \A q \in Processes, t \in Segments : at'[q] = t => at[q] = t
    BY <1>0, <1>1 DEF NobodyComes
  <2> QED BY <2>1, <1>1, StagesFrame DEF TopicInv, MeetsInv, StagesInv
<1>4. ASSUME ~raced PROVE \A q \in Processes, t \in Segments : Meets(q, t)'
  <2>1. /\ \A q \in Processes, t \in Segments : IsOpen(q, t)' => IsOpen(q, t)
        /\ \A t \in Segments : OnName(t) => OnName(t)'
    BY DEF IsOpen, OnName
  <2> QED BY <2>1, <1>1, <1>4, MeetsFrame DEF TopicInv, MeetsInv
<1>5. LeftInv'
  BY <1>1, LeftFrame DEF TopicInv
<1> QED BY <1>1, <1>2, <1>3, <1>4, <1>5 DEF MeetsInv, StagesInv

\* A dispatcher becomes d and its reader r.
Become(p, s, d, r) ==
  /\ disp' \in [Processes -> [Segments -> DispatcherRecords]]
  /\ \A q \in Processes, t \in Segments : disp'[q][t] = IF q = p /\ t = s THEN d ELSE disp[q][t]
  /\ reader' \in [Processes -> [Segments -> ReaderRecords]]
  /\ \A q \in Processes, t \in Segments : reader'[q][t] = IF q = p /\ t = s THEN r ELSE reader[q][t]

\* What it observed and saw is not ahead of the segment, it sleeps on the word it
\* observed, and waits only after it has seen everything, or goes on waiting.
MayListen(p, s, d) ==
  /\ d.pc # "none" /\ (d.pc = "exited" => "open" \notin flags[p][s])
  /\ d.seen <= seg[s].seq /\ d.observed <= seg[s].word
  /\ d.pc = "asleep" => d.observed = seg[s].word
  /\ d.pc \in {"wait", "asleep"} /\ d.observed = seg[s].word =>
       \/ d.seen = seg[s].seq /\ "open" \in flags[p][s]
       \/ disp[p][s].pc \in {"wait", "asleep"} /\ disp[p][s].observed = d.observed /\ disp[p][s].seen = d.seen

\* Its reader hears of what it sees.
MayWait(p, s, d, r) ==
  /\ r.read = reader[p][s].read /\ r.notified <= seg[s].seq
  /\ r.read = "blocked" /\ ~r.told =>
       /\ ~reader[p][s].told /\ r.cursor = reader[p][s].cursor /\ r.notified = reader[p][s].notified
       /\ "reader" \in ends[p][s] /\ r.cursor <= seg[s].seq => d.seen < seg[s].seq

\* One step of a dispatcher.
LEMMA DispatcherStep ==
  ASSUME TopicInv, NEW p \in Processes, NEW s \in Segments, p \in alive, NEW d, NEW r,
         disp[p][s].pc \in Running, Become(p, s, d, r), MayListen(p, s, d), MayWait(p, s, d, r),
         UNCHANGED <<scenario, name, seg, alive, threads, map, ends, flags, raced, lastOut>>
  PROVE  TopicInv'
<1>0. /\ ThreadsOK' /\ SharedOK' /\ MeetsInv' /\ LeftInv'
      /\ NobodyComes(Adding) /\ NobodyComes({"add"}) /\ Stay(Closing) /\ Stay({"wake"}) /\ Stay({"notify"})
  BY LocalStep
<1>1. \A q \in Processes, t \in Segments : disp'[q][t] = IF q = p /\ t = s THEN d ELSE disp[q][t]
  BY DEF Become
<1>2. \A q \in Processes, t \in Segments : reader'[q][t] = IF q = p /\ t = s THEN r ELSE reader[q][t]
  BY DEF Become
<1>3. TypeOK'
  BY <1>0 DEF Become, TopicInv, TypeOK, LocalOK
<1>4. HoldsInv'
  <2> SUFFICES ASSUME NEW q \in Processes, NEW t \in Segments PROVE Holds(q, t)'
    BY DEF HoldsInv
  <2>1. Holds(q, t)
    BY DEF TopicInv, HoldsInv
  <2>2. /\ On(q, t, Adding)' => On(q, t, Adding)
        /\ On(q, t, {"add"})' => On(q, t, {"add"})
        /\ On(q, t, Closing) => On(q, t, Closing)'
    BY <1>0 DEF NobodyComes, Stay, On
  <2>3. CASE q = p /\ t = s
    BY <2>1, <2>2, <2>3, <1>1, <1>2 DEF Holds, Running, MayListen, MayWait
  <2>4. CASE ~(q = p /\ t = s)
    <3>1. disp'[q][t] = disp[q][t] /\ reader'[q][t] = reader[q][t]
      BY <2>4, <1>1, <1>2
    <3> QED BY <3>1, <2>1, <2>2 DEF Holds
  <2> QED BY <2>3, <2>4
<1>5. HearsInv'
  <2> SUFFICES ASSUME NEW q \in Processes, NEW t \in Segments PROVE Listens(q, t)' /\ Waits(q, t)'
    BY DEF HearsInv
  <2>1. Listens(q, t) /\ Waits(q, t)
    BY DEF TopicInv, HearsInv
  <2>2. disp'[q][t].seen = disp[q][t].seen /\ Hears(q, t) => Hears(q, t)'
    BY <1>0 DEF Hears, Stay
  <2>3. CASE q = p /\ t = s
    <3>1. disp'[q][t] = d /\ reader'[q][t] = r
      BY <2>3, <1>1, <1>2
    <3>2. Listens(q, t)'
      <4>1. d.seen = seg[s].seq /\ "open" \in flags[p][s] => Hears(q, t)'
        BY <3>1, <2>3 DEF Hears
      <4> QED BY <4>1, <3>1, <2>1, <2>2, <2>3 DEF Listens, MayListen
    <3>3. Waits(q, t)'
      BY <3>1, <2>1, <2>3 DEF Waits, Readable, MayWait
    <3> QED BY <3>2, <3>3
  <2>4. CASE ~(q = p /\ t = s)
    <3>1. disp'[q][t] = disp[q][t] /\ reader'[q][t] = reader[q][t]
      BY <2>4, <1>1, <1>2
    <3> QED BY <3>1, <2>1, <2>2 DEF Listens, Waits, Readable
  <2> QED BY <2>3, <2>4
<1> QED BY <1>0, <1>3, <1>4, <1>5 DEF TopicInv

\* What is known of a dispatcher and its reader.
LEMMA DispatcherTypes ==
  ASSUME TopicInv, NEW p \in Processes, NEW s \in Segments
  PROVE  /\ Listens(p, s) /\ Waits(p, s) /\ Holds(p, s)
         /\ disp[p][s] \in DispatcherRecords /\ reader[p][s] \in ReaderRecords
         /\ seg[s].seq \in Nat /\ seg[s].word \in Nat
         /\ disp[p][s].seen \in Nat /\ disp[p][s].observed \in Nat
         /\ reader[p][s].cursor \in Nat /\ reader[p][s].notified \in Nat
BY DEF TopicInv, TypeOK, SharedOK, LocalOK, SegmentRecords, DispatcherRecords, ReaderRecords, HearsInv, HoldsInv

\* The word is loaded, unless the TopicState is closed.
LEMMA DispatchLoadKeeps ==
  ASSUME TopicInv, NEW p \in Processes, NEW s \in Segments, DispatchLoad(p, s) PROVE TopicInv'
<1>0. /\ p \in alive /\ disp[p][s].pc = "load" /\ disp[p][s].pc \in Running
      /\ UNCHANGED <<scenario, name, seg, alive, threads, map, ends, flags, raced, lastOut, reader>>
  BY DEF DispatchLoad, Dispatcher, rest, Running
<1>1. PICK to \in {"look", "exited"} : to = IF IsOpen(p, s) THEN "look" ELSE "exited"
  OBVIOUS
<1>2. PICK d : d = [pc |-> to, observed |-> seg[s].word, seen |-> disp[p][s].seen]
  OBVIOUS
<1>3. disp' = [disp EXCEPT ![p][s] = d]
  BY <1>1, <1>2 DEF DispatchLoad
<1>4. /\ d.pc = to /\ d.observed = seg[s].word /\ d.seen = disp[p][s].seen /\ d \in DispatcherRecords
      /\ to = "exited" => "open" \notin flags[p][s]
  BY <1>0, <1>1, <1>2, DispatcherTypes DEF IsOpen, DispatcherRecords, Running
<1>5. PICK r : r = reader[p][s]
  OBVIOUS
<1>6. Become(p, s, d, r)
  BY <1>0, <1>3, <1>4, <1>5 DEF Become, TopicInv, TypeOK, LocalOK
<1>7. MayListen(p, s, d)
  BY <1>4, DispatcherTypes DEF Listens, MayListen
<1>8. MayWait(p, s, d, r)
  BY <1>4, <1>5, DispatcherTypes DEF Waits, Readable, MayWait
<1> QED BY <1>0, <1>6, <1>7, <1>8, DispatcherStep

\* The sequence is read and the reader told; the TopicState is looked at once more.
LEMMA DispatchLookKeeps ==
  ASSUME TopicInv, NEW p \in Processes, NEW s \in Segments, DispatchLook(p, s) PROVE TopicInv'
<1>0. /\ p \in alive /\ disp[p][s].pc = "look" /\ disp[p][s].pc \in Running
      /\ UNCHANGED <<scenario, name, seg, alive, threads, map, ends, flags, raced, lastOut>>
  BY DEF DispatchLook, Dispatcher, rest, Running
<1>1. PICK to \in {"wait", "exited"} : to = IF IsOpen(p, s) THEN "wait" ELSE "exited"
  OBVIOUS
<1>2. PICK d : d = [pc |-> to, observed |-> disp[p][s].observed, seen |-> seg[s].seq]
  OBVIOUS
<1>3. disp' = [disp EXCEPT ![p][s] = d]
  BY <1>1, <1>2 DEF DispatchLook
<1>4. /\ d.pc = to /\ d.observed = disp[p][s].observed /\ d.seen = seg[s].seq /\ d \in DispatcherRecords
      /\ to = "exited" => "open" \notin flags[p][s]
      /\ to = "wait" => "open" \in flags[p][s]
  BY <1>0, <1>1, <1>2, DispatcherTypes DEF IsOpen, DispatcherRecords, Running
<1> DEFINE tells == /\ seg[s].seq # disp[p][s].seen /\ "reader" \in ends[p][s] /\ IsOpen(p, s)
                    /\ seg[s].seq > reader[p][s].notified
<1>5. PICK r : r = IF tells THEN [reader[p][s] EXCEPT !.notified = seg[s].seq, !.told = TRUE] ELSE reader[p][s]
  OBVIOUS
<1>6. /\ r \in ReaderRecords /\ r.read = reader[p][s].read /\ r.cursor = reader[p][s].cursor
      /\ tells => r.notified = seg[s].seq /\ r.told = TRUE
      /\ ~tells => r = reader[p][s]
  BY <1>5, DispatcherTypes DEF ReaderRecords
<1>7. Become(p, s, d, r)
  <2>1. disp' \in [Processes -> [Segments -> DispatcherRecords]]
    BY <1>3, <1>4 DEF TopicInv, TypeOK, LocalOK
  <2>2. \A q \in Processes, t \in Segments : disp'[q][t] = IF q = p /\ t = s THEN d ELSE disp[q][t]
    BY <1>3 DEF TopicInv, TypeOK, LocalOK
  <2>3. CASE tells
    <3>1. reader' = [reader EXCEPT ![p][s] = r]
      BY <2>3, <1>5 DEF DispatchLook, Fanout
    <3> QED BY <3>1, <2>1, <2>2, <1>6 DEF Become, TopicInv, TypeOK, LocalOK
  <2>4. CASE ~tells
    <3>1. reader' = reader
      BY <2>4 DEF DispatchLook, Fanout
    <3> QED BY <3>1, <2>1, <2>2, <2>4, <1>6 DEF Become, TopicInv, TypeOK, LocalOK
  <2> QED BY <2>3, <2>4
<1>8. MayListen(p, s, d)
  BY <1>4, DispatcherTypes DEF Listens, MayListen
<1>9. MayWait(p, s, d, r)
  <2>1. r.notified <= seg[s].seq
    BY <1>6, DispatcherTypes DEF Waits
  <2>2. ASSUME r.read = "blocked", ~r.told
        PROVE  /\ ~reader[p][s].told /\ r.notified = reader[p][s].notified
               /\ "reader" \in ends[p][s] /\ r.cursor <= seg[s].seq => d.seen < seg[s].seq
    <3>1. ~tells /\ r = reader[p][s]
      BY <2>2, <1>6
    <3>2. ASSUME "reader" \in ends[p][s], r.cursor <= seg[s].seq PROVE FALSE
      <4>1. IsOpen(p, s)
        BY <3>2, <1>0, DispatcherTypes DEF IsOpen, Holds
      <4>2. disp[p][s].seen < seg[s].seq /\ reader[p][s].notified < reader[p][s].cursor
        BY <3>1, <3>2, <2>2, DispatcherTypes DEF Waits, Readable
      <4> QED BY <4>1, <4>2, <3>1, <3>2, DispatcherTypes
    <3> QED BY <3>1, <3>2, <2>2
  <2> QED BY <2>1, <2>2, <1>6 DEF MayWait
<1> QED BY <1>0, <1>7, <1>8, <1>9, DispatcherStep

\* The futex sleeps on the word that was observed, and on no other.
LEMMA DispatchWaitKeeps ==
  ASSUME TopicInv, NEW p \in Processes, NEW s \in Segments, DispatchWait(p, s) PROVE TopicInv'
<1>0. /\ p \in alive /\ disp[p][s].pc = "wait" /\ disp[p][s].pc \in Running
      /\ UNCHANGED <<scenario, name, seg, alive, threads, map, ends, flags, raced, lastOut, reader>>
  BY DEF DispatchWait, Dispatcher, rest, Running
<1>1. PICK d : d = IF seg[s].word = disp[p][s].observed THEN [disp[p][s] EXCEPT !.pc = "asleep"]
                   ELSE Looping(disp[p][s])
  OBVIOUS
<1>2. disp' = [disp EXCEPT ![p][s] = d]
  BY <1>1 DEF DispatchWait
<1>3. /\ d \in DispatcherRecords /\ d.seen = disp[p][s].seen
      /\ \/ d.pc = "load" /\ d.observed = 0
         \/ d.pc = "asleep" /\ d.observed = seg[s].word /\ seg[s].word = disp[p][s].observed
  <2>1. CASE seg[s].word = disp[p][s].observed
    <3>1. d = [disp[p][s] EXCEPT !.pc = "asleep"]
      BY <2>1, <1>1
    <3> QED BY <3>1, <2>1, DispatcherTypes DEF DispatcherRecords, Running
  <2>2. CASE seg[s].word # disp[p][s].observed
    <3>1. d = Looping(disp[p][s])
      BY <2>2, <1>1
    <3> QED BY <3>1, DispatcherTypes DEF DispatcherRecords, Running, Looping
  <2> QED BY <2>1, <2>2
<1>4. PICK r : r = reader[p][s]
  OBVIOUS
<1>5. Become(p, s, d, r)
  BY <1>0, <1>2, <1>3, <1>4 DEF Become, TopicInv, TypeOK, LocalOK
<1>6. MayListen(p, s, d)
  BY <1>0, <1>3, DispatcherTypes DEF Listens, MayListen
<1>7. MayWait(p, s, d, r)
  BY <1>3, <1>4, DispatcherTypes DEF Waits, Readable, MayWait
<1> QED BY <1>0, <1>5, <1>6, <1>7, DispatcherStep

\* The poll interval is over.
LEMMA DispatchPollKeeps ==
  ASSUME TopicInv, NEW p \in Processes, NEW s \in Segments, DispatchPoll(p, s) PROVE TopicInv'
<1>0. /\ p \in alive /\ disp[p][s].pc \in Running
      /\ UNCHANGED <<scenario, name, seg, alive, threads, map, ends, flags, raced, lastOut, reader>>
  BY DEF DispatchPoll, Dispatcher, rest, Running
<1>1. PICK d : d = Looping(disp[p][s])
  OBVIOUS
<1>2. disp' = [disp EXCEPT ![p][s] = d]
  BY <1>1 DEF DispatchPoll
<1>3. d \in DispatcherRecords /\ d.seen = disp[p][s].seen /\ d.pc = "load" /\ d.observed = 0
  BY <1>1, DispatcherTypes DEF DispatcherRecords, Running, Looping
<1>4. PICK r : r = reader[p][s]
  OBVIOUS
<1>5. Become(p, s, d, r)
  BY <1>0, <1>2, <1>3, <1>4 DEF Become, TopicInv, TypeOK, LocalOK
<1>6. MayListen(p, s, d)
  BY <1>3, DispatcherTypes DEF Listens, MayListen
<1>7. MayWait(p, s, d, r)
  BY <1>3, <1>4, DispatcherTypes DEF Waits, Readable, MayWait
<1> QED BY <1>0, <1>5, <1>6, <1>7, DispatcherStep

-----------------------------------------------------------------------------
(* Reading *)

\* A pass that blocks found nothing to read.
LEMMA ReadPassKeeps ==
  ASSUME TopicInv, NEW p \in Processes, NEW s \in Segments, ReadPass(p, s), ~On(p, s, {"add"}),
         UNCHANGED <<scenario, name, seg, alive, threads, map, ends, flags, disp, raced, lastOut>>
  PROVE  TopicInv'
<1>0. /\ ThreadsOK' /\ SharedOK' /\ MeetsInv' /\ LeftInv'
      /\ NobodyComes(Adding) /\ NobodyComes({"add"}) /\ Stay(Closing) /\ Stay({"wake"}) /\ Stay({"notify"})
  BY LocalStep
<1>1. PICK r : r = IF Closed(p, s) THEN [reader[p][s] EXCEPT !.read = "idle"]
                   ELSE IF Readable(p, s)
                   THEN [reader[p][s] EXCEPT !.read = "idle",
                                             !.cursor = ClampCursor(reader[p][s].cursor, seg[s].seq) + 1]
                   ELSE [reader[p][s] EXCEPT !.read = "blocked", !.told = FALSE]
  OBVIOUS
<1>2. reader' = [reader EXCEPT ![p][s] = r]
  BY <1>1 DEF ReadPass
<1>3. /\ r \in ReaderRecords /\ r.notified = reader[p][s].notified
      /\ r.read = "blocked" => r.cursor = reader[p][s].cursor /\ ~Readable(p, s)
  <2>1. ClampCursor(reader[p][s].cursor, seg[s].seq) + 1 \in Nat
    BY ShmTopicAssumption, DispatcherTypes DEF ClampCursor
  <2>2. CASE Closed(p, s)
    <3>1. r = [reader[p][s] EXCEPT !.read = "idle"]
      BY <2>2, <1>1
    <3> QED BY <3>1, DispatcherTypes DEF ReaderRecords
  <2>3. CASE ~Closed(p, s) /\ Readable(p, s)
    <3>1. r = [reader[p][s] EXCEPT !.read = "idle", !.cursor = ClampCursor(reader[p][s].cursor, seg[s].seq) + 1]
      BY <2>3, <1>1
    <3> QED BY <3>1, <2>1, DispatcherTypes DEF ReaderRecords
  <2>4. CASE ~Closed(p, s) /\ ~Readable(p, s)
    <3>1. r = [reader[p][s] EXCEPT !.read = "blocked", !.told = FALSE]
      BY <2>4, <1>1
    <3> QED BY <3>1, <2>4, DispatcherTypes DEF ReaderRecords
  <2> QED BY <2>2, <2>3, <2>4
<1>4. /\ reader' \in [Processes -> [Segments -> ReaderRecords]]
      /\ \A q \in Processes, t \in Segments : reader'[q][t] = IF q = p /\ t = s THEN r ELSE reader[q][t]
  BY <1>2, <1>3 DEF TopicInv, TypeOK, LocalOK
<1>5. TypeOK'
  BY <1>0, <1>4 DEF TopicInv, TypeOK, LocalOK
<1>6. HoldsInv'
  <2> SUFFICES ASSUME NEW q \in Processes, NEW t \in Segments PROVE Holds(q, t)'
    BY DEF HoldsInv
  <2>1. Holds(q, t)
    BY DEF TopicInv, HoldsInv
  <2>2. /\ On(q, t, Adding)' => On(q, t, Adding)
        /\ On(q, t, {"add"})' => On(q, t, {"add"})
        /\ On(q, t, Closing) => On(q, t, Closing)'
    BY <1>0 DEF NobodyComes, Stay, On
  <2>3. On(q, t, {"add"}) => reader'[q][t] = reader[q][t]
    BY <1>4
  <2> QED BY <2>1, <2>2, <2>3 DEF Holds
<1>7. HearsInv'
  <2> SUFFICES ASSUME NEW q \in Processes, NEW t \in Segments PROVE Listens(q, t)' /\ Waits(q, t)'
    BY DEF HearsInv
  <2>1. Listens(q, t) /\ Waits(q, t)
    BY DEF TopicInv, HearsInv
  <2>2. Hears(q, t) => Hears(q, t)'
    BY <1>0 DEF Hears, Stay
  <2>3. Listens(q, t)'
    BY <2>1, <2>2 DEF Listens
  <2>4. CASE q = p /\ t = s
    <3>1. reader'[q][t] = r
      BY <2>4, <1>4
    <3> QED BY <3>1, <2>1, <2>3, <2>4, <1>3, DispatcherTypes DEF Waits, Readable
  <2>5. CASE ~(q = p /\ t = s)
    <3>1. reader'[q][t] = reader[q][t]
      BY <2>5, <1>4
    <3> QED BY <3>1, <2>1, <2>3 DEF Waits, Readable
  <2> QED BY <2>4, <2>5
<1> QED BY <1>0, <1>5, <1>6, <1>7 DEF TopicInv

\* Read: a TopicState whose reader is still to be added has none.
LEMMA ReadKeeps ==
  ASSUME TopicInv, NEW p \in Processes, NEW s \in Segments, Read(p, s) PROVE TopicInv'
<1>1. "reader" \in ends[p][s] /\ Holds(p, s)
  BY DEF Read, TopicInv, HoldsInv
<1>2. ~On(p, s, {"add"})
  BY <1>1 DEF Holds, On, At, Adding
<1> QED BY <1>2, ReadPassKeeps DEF Read, rest

\* A blocked Read goes on.
LEMMA ReadWakesKeeps ==
  ASSUME TopicInv, NEW p \in Processes, NEW s \in Segments, ReadWakes(p, s) PROVE TopicInv'
<1>1. ~On(p, s, {"add"})
  BY DEF ReadWakes, TopicInv, HoldsInv, Holds
<1> QED BY <1>1, ReadPassKeeps DEF ReadWakes, rest
-----------------------------------------------------------------------------
(* Closing *)

\* An endpoint is dropped.
LEMMA DropEndpointKeeps ==
  ASSUME TopicInv, NEW p \in Processes, NEW s \in Segments, NEW kind \in Kinds, DropEndpoint(p, s, kind)
  PROVE  TopicInv'
<1> USE DEF Nowhere, Somewhere, Settled, Creating, Awaiting, Adding, Closing, Leaving
<1>0. /\ p \in alive /\ pc[p] = "idle" /\ "open" \in flags[p][s]
      /\ UNCHANGED <<scenario, name, seg, alive, map, flags, reader, disp, raced, lastOut>>
  BY DEF DropEndpoint, In, IsOpen, rest
<1>1. /\ ends' \in [Processes -> [Segments -> SUBSET Kinds]]
      /\ \A q \in Processes, t \in Segments : ends'[q][t] \subseteq ends[q][t]
  BY DEF DropEndpoint, TopicInv, TypeOK, LocalOK
<1>2. PICK to \in {"idle", "retire", "close"} : GoAt(p, to, s)
  BY DEF DropEndpoint
<1>3. Goes(p, to, s) /\ seg[s].stage = "ready"
  BY <1>0, <1>2, GoFacts DEF TopicInv, TypeOK, HoldsInv, Holds
<1>4. TypeOK'
  <2>1. map' \in [Processes -> {NoSegment} \cup Segments]
    BY <1>0 DEF TopicInv, TypeOK, ThreadsOK
  <2>2. ThreadsOK'
    BY <2>1, <1>2, GoType DEF TopicInv, TypeOK
  <2> QED BY <2>2, <1>0, <1>1 DEF TopicInv, TypeOK, SharedOK, LocalOK
<1>5. HoldsInv'
  <2> SUFFICES ASSUME NEW q \in Processes, NEW t \in Segments PROVE Holds(q, t)'
    BY DEF HoldsInv
  <2>1. Holds(q, t)
    BY DEF TopicInv, HoldsInv
  <2>2. NobodyComes(Adding) /\ NobodyComes({"add"}) /\ Stay(Closing)
    BY <1>0, <1>3, Moves
  <2>3. /\ On(q, t, Adding)' => On(q, t, Adding)
        /\ On(q, t, {"add"})' => On(q, t, {"add"})
        /\ On(q, t, Closing) => On(q, t, Closing)'
    BY <2>2, <1>0 DEF NobodyComes, Stay, On
  <2>4. (ends'[q][t] # {} => ends[q][t] # {}) /\ ("reader" \in ends'[q][t] => "reader" \in ends[q][t])
    BY <1>1
  <2> QED BY <2>1, <2>3, <2>4, <1>0 DEF Holds
<1>6. \A q \in Processes, t \in Segments : "reader" \in ends'[q][t] => "reader" \in ends[q][t]
  BY <1>1
<1>7. HearsInv'
  <2>1. Stay({"wake"}) /\ Stay({"notify"})
    BY <1>0, <1>3, Moves
  <2> QED BY <2>1, <1>0, <1>6, HearsFrame DEF TopicInv
<1>8. MeetsInv'
  BY <1>0, <1>3, SettledStep
<1>9. LeftInv'
  <2>1. Stay(Closing) /\ Stay(Closing \cup Leaving) /\ Stay({"unlink"})
    BY <1>0, <1>3, Moves
  <2> QED BY <2>1, <1>0, LeftFrame DEF TopicInv
<1> QED BY <1>4, <1>5, <1>7, <1>8, <1>9 DEF TopicInv

\* ShmTransport::Close begins to close the TopicState, if there is one.
LEMMA CloseTransportKeeps ==
  ASSUME TopicInv, NEW p \in Processes, CloseTransport(p) PROVE TopicInv'
<1> USE DEF Nowhere, Somewhere, Settled, Creating, Awaiting, Adding, Closing, Leaving
<1>0. /\ p \in alive /\ pc[p] = "idle"
      /\ UNCHANGED <<scenario, name, seg, alive, ends, flags, reader, disp, raced, lastOut>>
  BY DEF CloseTransport, In, state, rest
<1>1. map' \in [Processes -> {NoSegment} \cup Segments]
  BY DEF CloseTransport, TopicInv, TypeOK, ThreadsOK
<1>2. CASE map[p] # NoSegment /\ ends[p][map[p]] # {}
  <2>1. PICK s \in Segments : s = map[p]
    BY <1>2 DEF TopicInv, TypeOK, ThreadsOK
  <2>2. GoAt(p, "close", s) /\ Goes(p, "close", s)
    BY <2>1, <1>2, GoFacts DEF CloseTransport, TopicInv, TypeOK
  <2>3. seg[s].stage = "ready"
    BY <2>1, <1>2 DEF TopicInv, HoldsInv, Holds
  <2>4. ThreadsOK'
    BY <2>2, <1>1, GoType DEF TopicInv, TypeOK
  <2>5. TypeOK'
    BY <2>4, <1>0 DEF TopicInv, TypeOK, SharedOK, LocalOK
  <2>6. HearsInv' /\ MeetsInv' /\ LeftInv' /\ HoldsInv'
    BY <2>2, <2>3, <1>0, CalmStep
  <2> QED BY <2>5, <2>6 DEF TopicInv
<1>3. CASE ~(map[p] # NoSegment /\ ends[p][map[p]] # {})
  <2>1. GoAt(p, "idle", at[p]) /\ Goes(p, "idle", at[p])
    BY <1>3, GoFacts DEF CloseTransport, Go, TopicInv, TypeOK
  <2>2. ThreadsOK'
    BY <2>1, <1>1, GoType DEF TopicInv, TypeOK
  <2>3. TypeOK'
    BY <2>2, <1>0 DEF TopicInv, TypeOK, SharedOK, LocalOK
  <2>4. HearsInv' /\ MeetsInv' /\ LeftInv' /\ HoldsInv'
    BY <2>1, <1>0, CalmStep
  <2> QED BY <2>3, <2>4 DEF TopicInv
<1> QED BY <1>2, <1>3

\* The retired flag: who sets it goes on to remove the name.
LEMMA RetireKeeps ==
  ASSUME TopicInv, NEW p \in Processes, Retire(p) PROVE TopicInv'
<1> USE DEF Nowhere, Somewhere, Settled, Creating, Awaiting, Adding, Closing, Leaving
<1>s. PICK s \in Segments : s = at[p]
  BY AtSegment DEF Retire, In, TopicInv, TypeOK
<1>0. /\ p \in alive /\ pc[p] = "retire"
      /\ UNCHANGED <<scenario, name, alive, map, ends, reader, disp, raced, lastOut>>
  BY DEF Retire, In, rest
<1>1. /\ seg' \in [Segments -> SegmentRecords]
      /\ \A t \in Segments : /\ seg'[t].stage = seg[t].stage /\ seg'[t].in = seg[t].in
                             /\ seg'[t].seq = seg[t].seq /\ seg'[t].word = seg[t].word
                             /\ seg'[t].retired <=> t = s \/ seg[t].retired
  <2>0. seg \in [Segments -> SegmentRecords] /\ seg[s] \in SegmentRecords
    BY DEF TopicInv, TypeOK, SharedOK
  <2>1. PICK r : r = [seg[s] EXCEPT !.retired = TRUE]
    OBVIOUS
  <2>2. r \in SegmentRecords
    BY <2>0, <2>1 DEF SegmentRecords
  <2>3. r.stage = seg[s].stage /\ r.in = seg[s].in /\ r.seq = seg[s].seq /\ r.word = seg[s].word /\ r.retired = TRUE
    BY <2>0, <2>1 DEF SegmentRecords
  <2>4. seg' = [seg EXCEPT ![s] = r]
    BY <2>1, <1>s DEF Retire
  <2>5. seg' \in [Segments -> SegmentRecords] /\ seg'[s] = r /\ \A t \in Segments : t # s => seg'[t] = seg[t]
    BY <2>0, <2>2, <2>4
  <2> QED BY <2>3, <2>5
<1>2. /\ flags' \in [Processes -> [Segments -> SUBSET {"open", "had", "mine"}]]
      /\ \A q \in Processes, t \in Segments :
           flags'[q][t] = IF q = p /\ t = s THEN flags[p][s] \cup {"mine"} ELSE flags[q][t]
  BY <1>s DEF Retire, TopicInv, TypeOK, LocalOK
<1>3. \A q \in Processes, t \in Segments :
        /\ "open" \in flags'[q][t] <=> "open" \in flags[q][t]
        /\ "mine" \in flags'[q][t] => "mine" \in flags[q][t] \/ (q = p /\ t = s)
  <2> TAKE q \in Processes, t \in Segments
  <2>1. CASE q = p /\ t = s
    BY <2>1, <1>2
  <2>2. CASE ~(q = p /\ t = s)
    <3>1. flags'[q][t] = flags[q][t]
      BY <2>2, <1>2
    <3> QED BY <3>1
  <2> QED BY <2>1, <2>2
<1>4. GoAt(p, "unlink", s) /\ Goes(p, "unlink", s)
  BY <1>s, GoFacts DEF Retire, Go, TopicInv, TypeOK
<1>5. /\ Stay({"wake"}) /\ Stay({"notify"}) /\ Stay(Closing) /\ Stay(Closing \cup Leaving) /\ Stay({"unlink"})
      /\ NobodyComes(Adding) /\ NobodyComes({"add"})
  BY <1>0, <1>4, <1>s, Moves
<1>6. On(p, s, Settled) /\ Stages(p, s)
  BY <1>0, <1>s DEF On, At, TopicInv, MeetsInv
<1>7. seg[s].stage = "ready"
  BY <1>6 DEF Stages
<1>8. TypeOK'
  <2>1. map' \in [Processes -> {NoSegment} \cup Segments]
    BY <1>0 DEF TopicInv, TypeOK, ThreadsOK
  <2>2. ThreadsOK'
    BY <2>1, <1>4, GoType DEF TopicInv, TypeOK
  <2> QED BY <2>2, <1>0, <1>1, <1>2 DEF TopicInv, TypeOK, SharedOK, LocalOK
<1>9. HoldsInv'
  <2> SUFFICES ASSUME NEW q \in Processes, NEW t \in Segments PROVE Holds(q, t)'
    BY DEF HoldsInv
  <2>1. Holds(q, t)
    BY DEF TopicInv, HoldsInv
  <2>2. /\ On(q, t, Adding)' => On(q, t, Adding)
        /\ On(q, t, {"add"})' => On(q, t, {"add"})
        /\ On(q, t, Closing) => On(q, t, Closing)'
    BY <1>0, <1>5 DEF NobodyComes, Stay, On
  <2>3. flags'[q][t] # {} => flags[q][t] # {} \/ t = s
    BY <1>2
  <2>4. "open" \in flags'[q][t] <=> "open" \in flags[q][t]
    BY <1>3
  <2> QED BY <2>1, <2>2, <2>3, <2>4, <1>0, <1>1, <1>7 DEF Holds
<1>10. HearsInv'
  <2> SUFFICES ASSUME NEW q \in Processes, NEW t \in Segments PROVE Listens(q, t)' /\ Waits(q, t)'
    BY DEF HearsInv
  <2>1. Listens(q, t) /\ Waits(q, t)
    BY DEF TopicInv, HearsInv
  <2>2. Hears(q, t) => Hears(q, t)'
    BY <1>0, <1>1, <1>3, <1>5 DEF Hears, Stay
  <2> QED BY <2>1, <2>2, <1>0, <1>1 DEF Listens, Waits, Readable
<1>11. MeetsInv'
  BY <1>0, <1>1, <1>3, <1>4, <1>7, SettledStep
<1>12. LeftInv'
  <2>0. Unlinking(p, s)'
    BY <1>4 DEF Unlinking, At, Goes
  <2>1. ASSUME NEW q \in Processes, NEW t \in Segments PROVE Owes(q, t)'
    <3>1. Owes(q, t)
      BY DEF TopicInv, LeftInv
    <3>2. (On(q, t, Closing) => On(q, t, Closing)') /\ (Unlinking(q, t) => Unlinking(q, t)')
      BY <1>0, <1>5 DEF Stay, On, Unlinking
    <3>3. IsOpen(q, t) => IsOpen(q, t)'
      BY <1>0, <1>3 DEF IsOpen
    <3>4. "mine" \in flags'[q][t] => "mine" \in flags[q][t] \/ (q = p /\ t = s)
      BY <1>3
    <3> QED BY <3>1, <3>2, <3>3, <3>4, <2>0, <1>0, <1>1 DEF Owes
  <2>2. ASSUME NEW t \in Segments PROVE Left(t)'
    <3>1. Left(t)
      BY DEF TopicInv, LeftInv
    <3>2. \A q \in Processes : Unlinking(q, t) => Unlinking(q, t)'
      BY <1>5 DEF Stay, Unlinking
    <3>3. \A q \in Processes : Responsible(q, t) => Responsible(q, t)'
      BY <1>0, <1>3, <1>5 DEF Stay, On, Responsible, IsOpen
    <3> QED BY <3>1, <3>2, <3>3, <2>0, <1>0, <1>1, <1>7 DEF Left, ReaderOwned
  <2> QED BY <2>1, <2>2 DEF LeftInv
<1> QED BY <1>8, <1>9, <1>10, <1>11, <1>12 DEF TopicInv

\* Where the processes are after a removal that leaves those of its own segment,
\* if it is retired, where they were.
LEMMA MeetsRemoved ==
  ASSUME TopicInv, NEW own, Remove(own), \A t \in Segments : t \in own => seg[t].retired,
         UNCHANGED <<flags, alive>>,
         \A t \in Segments : seg'[t].stage = seg[t].stage /\ seg'[t].retired = seg[t].retired,
         NobodyComes({"size"}), NobodyComes({"header"}), NobodyComes(Creating),
         NobodyComes({"claim"}), NobodyComes(Awaiting), NobodyComes(Settled),
         \A q \in Processes, t \in Segments : at'[q] = t => at[q] = t
  PROVE  MeetsInv'
<1>0. NoSegment \notin Segments /\ name' = NoSegment /\ (~raced' => ~raced)
  BY DEF NoSegment, Segments, Remove, TopicInv, TypeOK, SharedOK
<1>1. StagesInv'
  <2>1. \A q \in Processes, t \in Segments : At(q, t, Settled)' => At(q, t, Settled)
    BY DEF NobodyComes
  <2> QED BY <2>1, <1>0, StagesFrame DEF TopicInv, MeetsInv, StagesInv
<1>2. ASSUME ~raced', NEW q \in Processes, NEW t \in Segments PROVE Meets(q, t)'
  <2>1. Meets(q, t)
    BY <1>0, <1>2 DEF TopicInv, MeetsInv
  <2>2. /\ On(q, t, Awaiting)' => On(q, t, Awaiting)
        /\ On(q, t, {"claim"})' => On(q, t, {"claim"})
        /\ \A r \in Processes : On(r, t, Creating)' => On(r, t, Creating)
        /\ IsOpen(q, t)' = IsOpen(q, t)
    BY DEF NobodyComes, On, IsOpen
  <2>3. On(q, t, Creating \cup {"claim"})' => On(q, t, Creating \cup {"claim"})
    BY <2>2 DEF On, At
  <2>4. Abandoned(t) => Abandoned(t)'
    BY <2>2 DEF Abandoned
  <2>5. On(q, t, Awaiting) \/ On(q, t, Creating \cup {"claim"}) => On(q, t, Creating \cup Awaiting \cup {"claim"})
    BY DEF On, At
  <2>6. OnName(t) /\ (IsOpen(q, t) \/ On(q, t, Creating \cup Awaiting \cup {"claim"})) => OnName(t)'
    <3>1. CASE t \in own
      BY <3>1 DEF OnName
    <3>2. CASE t \notin own
      BY <3>2, <1>2, RemovedOthers DEF OnName
    <3> QED BY <3>1, <3>2
  <2> QED BY <2>1, <2>2, <2>3, <2>4, <2>5, <2>6 DEF Meets
<1> QED BY <1>0, <1>1, <1>2 DEF MeetsInv, StagesInv

\* The name is removed, by its retirer with a notification.
LEMMA UnlinkKeeps ==
  ASSUME TopicInv, NEW p \in Processes, Unlink(p) PROVE TopicInv'
<1> USE DEF Nowhere, Somewhere, Settled, Creating, Awaiting, Adding, Closing, Leaving
<1>s. PICK s \in Segments : s = at[p]
  BY AtSegment DEF Unlink, In, TopicInv, TypeOK
<1>0. /\ p \in alive /\ pc[p] = "unlink"
      /\ UNCHANGED <<scenario, alive, map, ends, flags, reader, lastOut>>
  BY DEF Unlink, In
<1>1. PICK to \in {"close", "idle"} : GoAt(p, to, s)
  BY <1>s DEF Unlink, Go
<1>2. Goes(p, to, s) /\ NoSegment \notin Segments
  BY <1>1, GoFacts DEF TopicInv, TypeOK, NoSegment, Segments
<1>3. /\ Stay({"wake"}) /\ Stay({"notify"}) /\ Stay(Closing)
      /\ NobodyComes(Adding) /\ NobodyComes({"add"}) /\ NobodyComes({"size"}) /\ NobodyComes({"header"})
      /\ NobodyComes(Creating) /\ NobodyComes({"claim"}) /\ NobodyComes(Awaiting) /\ NobodyComes(Settled)
  BY <1>0, <1>2, <1>s, Moves
<1>4. \A q \in Processes, t \in Segments : at'[q] = t => at[q] = t
  BY <1>2, <1>s DEF Goes
<1>5. ThreadsOK'
  <2>1. map' \in [Processes -> {NoSegment} \cup Segments]
    BY <1>0 DEF TopicInv, TypeOK, ThreadsOK
  <2> QED BY <2>1, <1>1, GoType DEF TopicInv, TypeOK
<1>6. CASE "mine" \in flags[p][s]
  <2>1. Notified(s) /\ Remove({s})
    BY <1>6, <1>s, NotifyFacts DEF Unlink, TopicInv
  <2>2. seg[s].retired
    BY <1>6 DEF TopicInv, LeftInv, Owes
  <2>3. TypeOK'
    BY <2>1, <1>0, <1>5 DEF TopicInv, TypeOK, SharedOK, LocalOK, Notified, Remove
  <2>4. HoldsInv' /\ HearsInv'
    BY <2>1, <1>0, <1>3, HoldsNotified, HearsNotified DEF Stay
  <2>5. MeetsInv'
    BY <2>1, <2>2, <1>0, <1>3, <1>4, MeetsRemoved DEF Notified
  <2>6. LeftInv'
    BY <2>1, <1>0, <1>3, LeftRemoved DEF TopicInv, Notified, Remove
  <2> QED BY <2>3, <2>4, <2>5, <2>6 DEF TopicInv
<1>7. CASE "mine" \notin flags[p][s]
  <2>1. Remove({}) /\ UNCHANGED <<seg, disp>>
    BY <1>7, <1>s DEF Unlink
  <2>2. TypeOK'
    BY <2>1, <1>0, <1>5 DEF TopicInv, TypeOK, SharedOK, LocalOK, Remove
  <2>3. HoldsInv' /\ HearsInv'
    BY <2>1, <1>0, <1>3, HoldsFrame, HearsFrame DEF TopicInv
  <2>4. MeetsInv'
    BY <2>1, <1>0, <1>3, <1>4, MeetsRemoved
  <2>5. LeftInv'
    BY <2>1, <1>0, <1>3, LeftRemoved DEF TopicInv, Remove
  <2> QED BY <2>2, <2>3, <2>4, <2>5 DEF TopicInv
<1> QED BY <1>6, <1>7

\* The TopicState is closed: its endpoints are gone, and its dispatcher, which the
\* notification reaches next, is its own to join.
LEMMA CloseKeeps ==
  ASSUME TopicInv, NEW p \in Processes, Close(p) PROVE TopicInv'
<1> USE DEF Nowhere, Somewhere, Settled, Creating, Awaiting, Adding, Closing, Leaving
<1>s. PICK s \in Segments : s = at[p]
  BY AtSegment DEF Close, In, TopicInv, TypeOK
<1>0. /\ p \in alive /\ pc[p] = "close"
      /\ UNCHANGED <<scenario, name, seg, alive, map, reader, disp, raced, lastOut>>
  BY DEF Close, In, rest
<1>1. /\ flags' \in [Processes -> [Segments -> SUBSET {"open", "had", "mine"}]]
      /\ \A q \in Processes, t \in Segments :
           flags'[q][t] = IF q = p /\ t = s THEN flags[p][s] \ {"open"} ELSE flags[q][t]
  BY <1>s DEF Close, TopicInv, TypeOK, LocalOK
<1>2. /\ ends' \in [Processes -> [Segments -> SUBSET Kinds]]
      /\ \A q \in Processes, t \in Segments : ends'[q][t] = IF q = p /\ t = s THEN {} ELSE ends[q][t]
  BY <1>s DEF Close, TopicInv, TypeOK, LocalOK
<1>3. GoAt(p, "wake", s) /\ Goes(p, "wake", s)
  BY <1>s, GoFacts DEF Close, Go, TopicInv, TypeOK
<1>4. /\ Stay({"wake"}) /\ Stay({"notify"}) /\ Stay(Closing) /\ Stay(Closing \cup Leaving) /\ Stay({"unlink"})
      /\ NobodyComes(Adding) /\ NobodyComes({"add"})
  BY <1>0, <1>3, Moves
<1>5. At(p, s, {"wake"})' /\ On(p, s, Closing)' /\ On(p, s, Closing \cup Leaving)' /\ ~On(p, s, Adding)'
  BY <1>0, <1>3 DEF At, On, Goes
<1>6. ASSUME NEW q \in Processes, NEW t \in Segments, ~(q = p /\ t = s)
      PROVE  flags'[q][t] = flags[q][t] /\ ends'[q][t] = ends[q][t]
  BY <1>1, <1>2, <1>6
<1>7. TypeOK'
  <2>1. map' \in [Processes -> {NoSegment} \cup Segments]
    BY <1>0 DEF TopicInv, TypeOK, ThreadsOK
  <2>2. ThreadsOK'
    BY <2>1, <1>3, GoType DEF TopicInv, TypeOK
  <2> QED BY <2>2, <1>0, <1>1, <1>2 DEF TopicInv, TypeOK, SharedOK, LocalOK
<1>8. HoldsInv'
  <2> SUFFICES ASSUME NEW q \in Processes, NEW t \in Segments PROVE Holds(q, t)'
    BY DEF HoldsInv
  <2>1. Holds(q, t)
    BY DEF TopicInv, HoldsInv
  <2>2. /\ On(q, t, Adding)' => On(q, t, Adding)
        /\ On(q, t, {"add"})' => On(q, t, {"add"})
        /\ On(q, t, Closing) => On(q, t, Closing)'
    BY <1>0, <1>4 DEF NobodyComes, Stay, On
  <2>3. CASE q = p /\ t = s
    <3>1. /\ ends'[q][t] = {} /\ "open" \notin flags'[q][t] /\ (flags'[q][t] # {} => flags[q][t] # {})
          /\ ~On(q, t, Adding)' /\ On(q, t, Closing)'
      BY <2>3, <1>1, <1>2, <1>5
    <3> QED BY <3>1, <2>1, <2>2, <1>0 DEF Holds
  <2>4. CASE ~(q = p /\ t = s)
    BY <2>1, <2>2, <2>4, <1>0, <1>6 DEF Holds
  <2> QED BY <2>3, <2>4
<1>9. HearsInv'
  <2> SUFFICES ASSUME NEW q \in Processes, NEW t \in Segments PROVE Listens(q, t)' /\ Waits(q, t)'
    BY DEF HearsInv
  <2>1. Listens(q, t) /\ Waits(q, t)
    BY DEF TopicInv, HearsInv
  <2>2. CASE q = p /\ t = s
    <3>1. Hears(q, t)' /\ "reader" \notin ends'[q][t]
      BY <2>2, <1>2, <1>5 DEF Hears
    <3> QED BY <3>1, <2>1, <1>0 DEF Listens, Waits
  <2>3. CASE ~(q = p /\ t = s)
    <3>1. Hears(q, t) => Hears(q, t)'
      BY <2>3, <1>0, <1>4, <1>6 DEF Hears, Stay
    <3> QED BY <3>1, <2>1, <2>3, <1>0, <1>6 DEF Listens, Waits, Readable
  <2> QED BY <2>2, <2>3
<1>10. MeetsInv'
  <2>1. \A q \in Processes, t \in Segments : "open" \in flags'[q][t] => "open" \in flags[q][t]
    BY <1>1
  <2> QED BY <2>1, <1>0, <1>3, <1>s, SettledStep
<1>11. LeftInv'
  <2>1. ASSUME NEW q \in Processes, NEW t \in Segments PROVE Owes(q, t)'
    <3>1. Owes(q, t)
      BY DEF TopicInv, LeftInv
    <3>2. (On(q, t, Closing) => On(q, t, Closing)') /\ (Unlinking(q, t) => Unlinking(q, t)')
      BY <1>0, <1>4 DEF Stay, On, Unlinking
    <3>3. IsOpen(q, t) => IsOpen(q, t)' \/ On(q, t, Closing)'
      BY <1>0, <1>5, <1>6 DEF IsOpen
    <3>4. "mine" \in flags'[q][t] => "mine" \in flags[q][t]
      BY <1>1
    <3> QED BY <3>1, <3>2, <3>3, <3>4, <1>0 DEF Owes
  <2>2. ASSUME NEW t \in Segments PROVE Left(t)'
    <3>1. Left(t)
      BY DEF TopicInv, LeftInv
    <3>2. \A q \in Processes : Unlinking(q, t) => Unlinking(q, t)'
      BY <1>4 DEF Stay, Unlinking
    <3>3. ASSUME NEW q \in Processes, Responsible(q, t) PROVE Responsible(q, t)'
      <4>1. CASE q = p /\ t = s
        BY <4>1, <1>5 DEF Responsible
      <4>2. CASE ~(q = p /\ t = s)
        BY <4>2, <3>3, <1>0, <1>4, <1>6 DEF Stay, On, Responsible, IsOpen
      <4> QED BY <4>1, <4>2
    <3> QED BY <3>1, <3>2, <3>3, <1>0 DEF Left, ReaderOwned
  <2> QED BY <2>1, <2>2 DEF LeftInv
<1> QED BY <1>7, <1>8, <1>9, <1>10, <1>11 DEF TopicInv

\* The dispatcher, if there is one, is woken.
LEMMA WakeDispatcherKeeps ==
  ASSUME TopicInv, NEW p \in Processes, WakeDispatcher(p) PROVE TopicInv'
<1> USE DEF Nowhere, Somewhere, Settled, Creating, Awaiting, Adding, Closing, Leaving
<1>s. PICK s \in Segments : s = at[p]
  BY AtSegment DEF WakeDispatcher, In, TopicInv, TypeOK
<1>0. /\ p \in alive /\ pc[p] = "wake"
      /\ UNCHANGED <<scenario, name, alive, map, ends, flags, reader, raced, lastOut>>
  BY DEF WakeDispatcher, In, rest
<1>1. GoAt(p, "join", s) /\ Goes(p, "join", s)
  BY <1>s, GoFacts DEF WakeDispatcher, Go, TopicInv, TypeOK
<1>2. /\ Stay({"notify"}) /\ Stay(Closing) /\ Stay(Closing \cup Leaving) /\ Stay({"unlink"})
      /\ NobodyComes(Adding) /\ NobodyComes({"add"})
  BY <1>0, <1>1, <1>s, Moves
<1>3. ASSUME NEW q \in Processes, NEW t \in Segments, ~(q = p /\ t = s)
      PROVE  At(q, t, {"wake"}) => At(q, t, {"wake"})'
  BY <1>1, <1>3, <1>s DEF At, Goes
<1>4. ThreadsOK'
  <2>1. map' \in [Processes -> {NoSegment} \cup Segments]
    BY <1>0 DEF TopicInv, TypeOK, ThreadsOK
  <2> QED BY <2>1, <1>1, GoType DEF TopicInv, TypeOK
<1>5. CASE disp[p][s].pc # "none"
  <2>1. Notified(s)
    BY <1>5, <1>s, NotifyFacts DEF WakeDispatcher, TopicInv
  <2>2. TypeOK'
    BY <2>1, <1>0, <1>4 DEF TopicInv, TypeOK, SharedOK, LocalOK, Notified
  <2>3. HoldsInv'
    BY <2>1, <1>0, <1>2, HoldsNotified
  <2>4. HearsInv'
    <3>1. \A q \in Processes, t \in Segments :
            t # s => /\ At(q, t, {"wake"}) => At(q, t, {"wake"})'
                     /\ At(q, t, {"notify"}) => At(q, t, {"notify"})'
      BY <1>2, <1>3 DEF Stay
    <3> QED BY <3>1, <2>1, <1>0, HearsNotified
  <2>5. MeetsInv'
    BY <2>1, <1>0, <1>1, <1>s, SettledStep DEF Notified
  <2>6. LeftInv'
    BY <2>1, <1>0, <1>2, LeftFrame DEF TopicInv, Notified
  <2> QED BY <2>2, <2>3, <2>4, <2>5, <2>6 DEF TopicInv
<1>6. CASE disp[p][s].pc = "none"
  <2>1. UNCHANGED <<seg, disp>>
    BY <1>6, <1>s DEF WakeDispatcher
  <2>2. TypeOK'
    BY <2>1, <1>0, <1>4 DEF TopicInv, TypeOK, SharedOK, LocalOK
  <2>3. HoldsInv'
    BY <2>1, <1>0, <1>2, HoldsFrame DEF TopicInv
  <2>4. HearsInv'
    <3> SUFFICES ASSUME NEW q \in Processes, NEW t \in Segments PROVE Listens(q, t)' /\ Waits(q, t)'
      BY DEF HearsInv
    <3>1. Listens(q, t) /\ Waits(q, t)
      BY DEF TopicInv, HearsInv
    <3>2. Hears(q, t) => Hears(q, t)' \/ (q = p /\ t = s)
      BY <2>1, <1>0, <1>2, <1>3 DEF Hears, Stay
    <3> QED BY <3>1, <3>2, <2>1, <1>0, <1>6 DEF Listens, Waits, Readable
  <2>5. MeetsInv'
    BY <2>1, <1>0, <1>1, <1>s, SettledStep
  <2>6. LeftInv'
    BY <2>1, <1>0, <1>2, LeftFrame DEF TopicInv
  <2> QED BY <2>2, <2>3, <2>4, <2>5, <2>6 DEF TopicInv
<1> QED BY <1>5, <1>6

\* The dispatcher is joined and the entry released.  Who is done with a
\* reader-owned topic has retired it; who is not still has to look.
LEMMA ReleaseKeeps ==
  ASSUME TopicInv, NEW p \in Processes, Release(p) PROVE TopicInv'
<1> USE DEF Nowhere, Somewhere, Settled, Creating, Awaiting, Adding, Closing, Leaving
<1>s. PICK s \in Segments : s = at[p]
  BY AtSegment DEF Release, In, TopicInv, TypeOK
<1>0. /\ p \in alive /\ pc[p] = "join" /\ disp[p][s].pc \in {"none", "exited"}
      /\ UNCHANGED <<scenario, name, alive, map, ends, flags, reader, raced>>
  BY <1>s DEF Release, In
<1>1. /\ seg' \in [Segments -> SegmentRecords]
      /\ \A t \in Segments : /\ seg'[t].stage = seg[t].stage /\ seg'[t].retired = seg[t].retired
                             /\ seg'[t].seq = seg[t].seq /\ seg'[t].word = seg[t].word
                             /\ seg'[t].in = IF t = s THEN seg[t].in \ {p} ELSE seg[t].in
  <2>0. seg \in [Segments -> SegmentRecords] /\ seg[s] \in SegmentRecords
    BY DEF TopicInv, TypeOK, SharedOK
  <2>1. PICK r : r = [seg[s] EXCEPT !.in = seg[s].in \ {p}]
    OBVIOUS
  <2>2. r \in SegmentRecords
    BY <2>0, <2>1 DEF SegmentRecords
  <2>3. /\ r.stage = seg[s].stage /\ r.retired = seg[s].retired /\ r.seq = seg[s].seq /\ r.word = seg[s].word
        /\ r.in = seg[s].in \ {p}
    BY <2>0, <2>1 DEF SegmentRecords
  <2>4. seg' = [seg EXCEPT ![s] = r]
    BY <2>1, <1>s DEF Release
  <2>5. seg' \in [Segments -> SegmentRecords] /\ seg'[s] = r /\ \A t \in Segments : t # s => seg'[t] = seg[t]
    BY <2>0, <2>2, <2>4
  <2> QED BY <2>3, <2>5
<1>2. /\ disp' \in [Processes -> [Segments -> DispatcherRecords]]
      /\ \A q \in Processes, t \in Segments : disp'[q][t] = IF q = p /\ t = s THEN NoDispatcher ELSE disp[q][t]
  <2>1. NoDispatcher \in DispatcherRecords
    BY DEF NoDispatcher, DispatcherRecords
  <2> QED BY <2>1, <1>s DEF Release, TopicInv, TypeOK, LocalOK
<1>3. PICK to \in {"idle", "check", "retire"} :
        /\ GoAt(p, to, s)
        /\ to = "idle" => ~ReaderOwned \/ "mine" \in flags[p][s]
  BY <1>s DEF Release, Go, MustRetire
<1>4. Goes(p, to, s) /\ NoSegment \notin Segments
  BY <1>3, GoFacts DEF TopicInv, TypeOK, NoSegment, Segments
<1>5. /\ lastOut' \in [Segments -> {"nobody", "closed", "crashed"}]
      /\ \A t \in Segments :
           \/ lastOut'[t] = lastOut[t] /\ ~((IsOpen(p, t) \/ t = s) /\ ~\E q \in alive \ {p} : IsOpen(q, t))
           \/ lastOut'[t] = "closed" /\ (IsOpen(p, t) \/ t = s)
  BY <1>s DEF Release, Leaves, TopicInv, TypeOK, SharedOK
<1>6. Stay({"wake"}) /\ Stay({"notify"}) /\ Stay({"unlink"}) /\ NobodyComes(Adding) /\ NobodyComes({"add"})
  BY <1>0, <1>4, Moves
<1>7. ASSUME NEW q \in Processes, NEW t \in Segments, ~(q = p /\ t = s)
      PROVE  /\ On(q, t, Closing) => On(q, t, Closing)'
             /\ On(q, t, Closing \cup Leaving) => On(q, t, Closing \cup Leaving)'
  BY <1>0, <1>4, <1>7, <1>s DEF On, At, Goes
<1>8. TypeOK'
  <2>1. map' \in [Processes -> {NoSegment} \cup Segments]
    BY <1>0 DEF TopicInv, TypeOK, ThreadsOK
  <2>2. ThreadsOK'
    BY <2>1, <1>3, GoType DEF TopicInv, TypeOK
  <2> QED BY <2>2, <1>0, <1>1, <1>2, <1>5 DEF TopicInv, TypeOK, SharedOK, LocalOK
<1>9. "reader" \notin ends[p][s]
  BY <1>0 DEF TopicInv, HoldsInv, Holds
<1>10. HoldsInv'
  <2> SUFFICES ASSUME NEW q \in Processes, NEW t \in Segments PROVE Holds(q, t)'
    BY DEF HoldsInv
  <2>1. Holds(q, t)
    BY DEF TopicInv, HoldsInv
  <2>2. /\ On(q, t, Adding)' => On(q, t, Adding)
        /\ On(q, t, {"add"})' => On(q, t, {"add"})
    BY <1>0, <1>6 DEF NobodyComes, On
  <2>3. CASE q = p /\ t = s
    <3>1. disp'[q][t].pc = "none"
      BY <2>3, <1>2 DEF NoDispatcher
    <3> QED BY <3>1, <2>1, <2>2, <2>3, <1>0, <1>1, <1>9 DEF Holds
  <2>4. CASE ~(q = p /\ t = s)
    <3>1. disp'[q][t] = disp[q][t]
      BY <2>4, <1>2
    <3> QED BY <3>1, <2>1, <2>2, <2>4, <1>0, <1>1, <1>7 DEF Holds
  <2> QED BY <2>3, <2>4
<1>11. HearsInv'
  <2> SUFFICES ASSUME NEW q \in Processes, NEW t \in Segments PROVE Listens(q, t)' /\ Waits(q, t)'
    BY DEF HearsInv
  <2>1. Listens(q, t) /\ Waits(q, t) /\ seg[t].seq \in Nat /\ seg[t].word \in Nat
    BY DEF TopicInv, HearsInv, TypeOK, SharedOK, SegmentRecords
  <2>2. CASE q = p /\ t = s
    <3>1. disp'[q][t].pc = "none" /\ disp'[q][t].seen = 0 /\ disp'[q][t].observed = 0
      BY <2>2, <1>2 DEF NoDispatcher
    <3>2. seg'[t].seq = seg[t].seq /\ seg'[t].word = seg[t].word /\ "reader" \notin ends'[q][t] /\ reader' = reader
      BY <2>2, <1>0, <1>1, <1>9
    <3>3. Listens(q, t)'
      BY <3>1, <3>2, <2>1 DEF Listens
    <3>4. Waits(q, t)'
      BY <3>2, <2>1 DEF Waits
    <3> QED BY <3>3, <3>4
  <2>3. CASE ~(q = p /\ t = s)
    <3>1. disp'[q][t] = disp[q][t]
      BY <2>3, <1>2
    <3>2. Hears(q, t) => Hears(q, t)'
      BY <3>1, <1>0, <1>1, <1>6 DEF Hears, Stay
    <3> QED BY <3>1, <3>2, <2>1, <1>0, <1>1 DEF Listens, Waits, Readable
  <2> QED BY <2>2, <2>3
<1>12. MeetsInv'
  BY <1>0, <1>1, <1>4, <1>s, SettledStep
<1>13. LeftInv'
  <2>1. ASSUME NEW q \in Processes, NEW t \in Segments PROVE Owes(q, t)'
    <3>1. Owes(q, t)
      BY DEF TopicInv, LeftInv
    <3>2. Unlinking(q, t) => Unlinking(q, t)'
      BY <1>6 DEF Stay, Unlinking
    <3>3. q \in seg'[t].in \cap alive' => q \in seg[t].in \cap alive /\ ~(q = p /\ t = s)
      BY <1>0, <1>1
    <3>4. IsOpen(q, t)' = IsOpen(q, t)
      BY <1>0 DEF IsOpen
    <3> QED BY <3>1, <3>2, <3>3, <3>4, <1>0, <1>1, <1>7 DEF Owes
  <2>2. ASSUME NEW t \in Segments PROVE Left(t)'
    <3>1. Left(t) /\ Stages(p, t) /\ Holds(p, t)
      BY DEF TopicInv, LeftInv, MeetsInv, HoldsInv
    <3>2. \A q \in Processes : Unlinking(q, t) => Unlinking(q, t)'
      BY <1>6 DEF Stay, Unlinking
    <3>3. \A q \in Processes : IsOpen(q, t) => Responsible(q, t)'
      BY <1>0 DEF Responsible, IsOpen
    <3>4. \A q \in Processes : Responsible(q, t) => Responsible(q, t)' \/ (q = p /\ t = s)
      BY <3>3, <1>7 DEF Responsible
    <3>5. to # "idle" => Responsible(p, s)'
      BY <1>0, <1>3, <1>4 DEF Responsible, On, At, Goes
    <3>6. seg[t].stage = "absent" => ~seg[t].retired /\ lastOut'[t] # "closed"
      BY <3>1, <1>5, <1>s DEF Left, Stages, Holds, IsOpen
    <3>7. ASSUME ReaderOwned, name = t, lastOut'[t] = "closed"
          PROVE  (\E q \in Processes : Responsible(q, t)') \/ \E q \in Processes \ alive : Unlinking(q, t)'
      <4>1. CASE IsOpen(p, t)
        BY <4>1, <3>3
      <4>2. CASE t = s
        <5>1. to = "idle" => FALSE
          <6>1. Owes(p, s) /\ ~Unlinking(p, s)
            BY <1>0 DEF TopicInv, LeftInv, Unlinking, At
          <6> QED BY <6>1, <4>2, <3>7, <1>3 DEF Owes
        <5> QED BY <5>1, <4>2, <3>5
      <4>3. CASE ~IsOpen(p, t) /\ t # s
        <5>1. lastOut[t] = "closed"
          BY <4>3, <3>7, <1>5
        <5> QED BY <5>1, <4>3, <3>1, <3>2, <3>4, <3>7 DEF Left
      <4> QED BY <4>1, <4>2, <4>3
    <3>8. ReaderOwned' = ReaderOwned
      BY <1>0 DEF ReaderOwned
    <3>9. seg[t].retired => name # t \/ \E q \in Processes : Unlinking(q, t)'
      BY <3>1, <3>2 DEF Left
    <3> QED BY <3>6, <3>7, <3>8, <3>9, <1>0, <1>1 DEF Left
  <2> QED BY <2>1, <2>2 DEF LeftInv
<1> QED BY <1>8, <1>10, <1>11, <1>12, <1>13 DEF TopicInv

\* Who finds somebody else attached, or the segment retired, leaves the name to
\* them.
LEMMA LastOutKeeps ==
  ASSUME TopicInv, NEW p \in Processes, LastOut(p) PROVE TopicInv'
<1> USE DEF Nowhere, Somewhere, Settled, Creating, Awaiting, Adding, Closing, Leaving
<1>s. PICK s \in Segments : s = at[p]
  BY AtSegment DEF LastOut, In, TopicInv, TypeOK
<1>0. /\ p \in alive /\ pc[p] = "check"
      /\ UNCHANGED <<scenario, name, alive, map, ends, flags, reader, disp, raced, lastOut>>
  BY DEF LastOut, In, state, rest
<1>1. /\ seg' \in [Segments -> SegmentRecords]
      /\ \A t \in Segments : /\ seg'[t].stage = seg[t].stage /\ seg'[t].retired = seg[t].retired
                             /\ seg'[t].seq = seg[t].seq /\ seg'[t].word = seg[t].word
                             /\ seg'[t].in \subseteq seg[t].in
  <2>0. seg \in [Segments -> SegmentRecords] /\ seg[s] \in SegmentRecords
    BY DEF TopicInv, TypeOK, SharedOK
  <2>1. PICK r : r = [seg[s] EXCEPT !.in = Live(s)]
    OBVIOUS
  <2>2. r \in SegmentRecords
    BY <2>0, <2>1 DEF SegmentRecords, Live
  <2>3. /\ r.stage = seg[s].stage /\ r.retired = seg[s].retired /\ r.seq = seg[s].seq /\ r.word = seg[s].word
        /\ r.in \subseteq seg[s].in
    BY <2>0, <2>1 DEF SegmentRecords, Live
  <2>4. seg' = [seg EXCEPT ![s] = r]
    BY <2>1, <1>s DEF LastOut
  <2>5. seg' \in [Segments -> SegmentRecords] /\ seg'[s] = r /\ \A t \in Segments : t # s => seg'[t] = seg[t]
    BY <2>0, <2>2, <2>4
  <2> QED BY <2>3, <2>5
<1>2. PICK to \in {"idle", "unlink"} : GoAt(p, to, s) /\ (to = "idle" => seg[s].retired \/ Live(s) # {})
  BY <1>s DEF LastOut, Go
<1>3. Goes(p, to, s) /\ NoSegment \notin Segments
  BY <1>2, GoFacts DEF TopicInv, TypeOK, NoSegment, Segments
<1>4. /\ Stay({"wake"}) /\ Stay({"notify"}) /\ Stay(Closing) /\ Stay({"unlink"})
      /\ NobodyComes(Adding) /\ NobodyComes({"add"})
  BY <1>0, <1>3, Moves
<1>5. TypeOK'
  <2>1. map' \in [Processes -> {NoSegment} \cup Segments]
    BY <1>0 DEF TopicInv, TypeOK, ThreadsOK
  <2>2. ThreadsOK'
    BY <2>1, <1>2, GoType DEF TopicInv, TypeOK
  <2> QED BY <2>2, <1>0, <1>1 DEF TopicInv, TypeOK, SharedOK, LocalOK
<1>6. HoldsInv' /\ HearsInv'
  BY <1>0, <1>1, <1>4, HoldsFrame, HearsFrame DEF TopicInv
<1>7. MeetsInv'
  BY <1>0, <1>1, <1>3, <1>s, SettledStep
<1>8. LeftInv'
  <2>1. ASSUME NEW q \in Processes, NEW t \in Segments PROVE Owes(q, t)'
    <3>1. Owes(q, t)
      BY DEF TopicInv, LeftInv
    <3>2. (On(q, t, Closing) => On(q, t, Closing)') /\ (Unlinking(q, t) => Unlinking(q, t)')
      BY <1>0, <1>4 DEF Stay, On, Unlinking
    <3>3. IsOpen(q, t)' = IsOpen(q, t)
      BY <1>0 DEF IsOpen
    <3> QED BY <3>1, <3>2, <3>3, <1>0, <1>1 DEF Owes
  <2>2. ASSUME NEW t \in Segments PROVE Left(t)'
    <3>1. Left(t)
      BY DEF TopicInv, LeftInv
    <3>2. \A q \in Processes : Unlinking(q, t) => Unlinking(q, t)'
      BY <1>4 DEF Stay, Unlinking
    <3>3. ASSUME NEW q \in Processes, Responsible(q, t), ~(q = p /\ t = s) PROVE Responsible(q, t)'
      BY <3>3, <1>0, <1>3, <1>s DEF Responsible, IsOpen, On, At, Goes
    <3>4. ASSUME ReaderOwned, name = t, lastOut[t] = "closed", t = s
          PROVE  (\E q \in Processes : Responsible(q, t)') \/ \E q \in Processes \ alive : Unlinking(q, t)'
      <4>1. CASE to = "unlink"
        <5>1. Responsible(p, s)'
          BY <4>1, <1>0, <1>3 DEF Responsible, On, At, Goes
        <5> QED BY <5>1, <3>4
      <4>2. CASE seg[s].retired
        <5>1. PICK q \in Processes : Unlinking(q, s)
          BY <4>2, <3>1, <3>4 DEF Left
        <5>2. CASE q \in alive
          <6>1. Responsible(q, s) /\ q # p
            BY <5>1, <5>2, <1>0 DEF Responsible, On, Unlinking, At
          <6> QED BY <6>1, <3>3, <3>4
        <5>3. CASE q \notin alive
          BY <5>1, <5>3, <3>2, <3>4
        <5> QED BY <5>2, <5>3
      <4>3. CASE Live(s) # {}
        <5>1. PICK q \in Processes : q \in seg[s].in \cap alive
          BY <4>3 DEF Live, TopicInv, TypeOK, SharedOK
        <5>2. IsOpen(q, s) \/ On(q, s, Closing)
          BY <5>1 DEF TopicInv, LeftInv, Owes
        <5>3. CASE IsOpen(q, s)
          <6>1. Responsible(q, s)'
            BY <5>3, <1>0 DEF Responsible, IsOpen
          <6> QED BY <6>1, <3>4
        <5>4. CASE On(q, s, Closing)
          <6>1. On(q, s, Closing)'
            BY <5>4, <1>0, <1>4 DEF Stay, On
          <6>2. Responsible(q, s)'
            BY <6>1 DEF Responsible, On, At
          <6> QED BY <6>2, <3>4
        <5> QED BY <5>2, <5>3, <5>4
      <4> QED BY <4>1, <4>2, <4>3, <1>2
    <3> QED BY <3>1, <3>2, <3>3, <3>4, <1>0, <1>1 DEF Left, ReaderOwned
  <2> QED BY <2>1, <2>2 DEF LeftInv
<1> QED BY <1>5, <1>6, <1>7, <1>8 DEF TopicInv

\* A process dies: it holds nothing any more, and whoever was responsible besides
\* it still is.
LEMMA CrashKeeps ==
  ASSUME TopicInv, NEW p \in Processes, Crash(p) PROVE TopicInv'
<1>0. /\ p \in alive /\ alive' = alive \ {p}
      /\ UNCHANGED <<scenario, name, seg, pc, at, want, map, raced>>
  BY DEF Crash, threads
<1>1. /\ ends' \in [Processes -> [Segments -> SUBSET Kinds]]
      /\ flags' \in [Processes -> [Segments -> SUBSET {"open", "had", "mine"}]]
      /\ reader' \in [Processes -> [Segments -> ReaderRecords]]
      /\ disp' \in [Processes -> [Segments -> DispatcherRecords]]
  <2>1. NoReader \in ReaderRecords /\ NoDispatcher \in DispatcherRecords
    BY DEF NoReader, ReaderRecords, NoDispatcher, DispatcherRecords
  <2> QED BY <2>1 DEF Crash, TopicInv, TypeOK, LocalOK
<1>2. ASSUME NEW t \in Segments
      PROVE  /\ ends'[p][t] = {} /\ flags'[p][t] = {} /\ reader'[p][t] = NoReader /\ disp'[p][t] = NoDispatcher
             /\ \A q \in Processes : q # p => /\ ends'[q][t] = ends[q][t] /\ flags'[q][t] = flags[q][t]
                                              /\ reader'[q][t] = reader[q][t] /\ disp'[q][t] = disp[q][t]
  BY DEF Crash, TopicInv, TypeOK, LocalOK
<1>3. /\ lastOut' \in [Segments -> {"nobody", "closed", "crashed"}]
      /\ \A t \in Segments :
           lastOut'[t] = "closed" =>
             /\ lastOut[t] = "closed"
             /\ ~(IsOpen(p, t) \/ at[p] = t) \/ \E q \in alive \ {p} : IsOpen(q, t)
  BY DEF Crash, Leaves, TopicInv, TypeOK, SharedOK
<1>4. /\ \A points : Stay(points) /\ NobodyComes(points)
      /\ \A points : \A q \in Processes, t \in Segments : At(q, t, points)' = At(q, t, points)
  BY <1>0 DEF Stay, NobodyComes, At
<1>5. \A points : \A q \in Processes, t \in Segments : On(q, t, points)' <=> On(q, t, points) /\ q # p
  BY <1>0, <1>4 DEF On
<1>6. TypeOK'
  BY <1>0, <1>1, <1>3 DEF TopicInv, TypeOK, ThreadsOK, SharedOK, LocalOK
<1>7. HoldsInv'
  <2> SUFFICES ASSUME NEW q \in Processes, NEW t \in Segments PROVE Holds(q, t)'
    BY DEF HoldsInv
  <2>1. Holds(q, t)
    BY DEF TopicInv, HoldsInv
  <2>2. CASE q = p
    <3>1. /\ ends'[q][t] = {} /\ flags'[q][t] = {} /\ disp'[q][t].pc = "none" /\ q \notin alive'
          /\ ~On(q, t, Adding)' /\ ~On(q, t, {"add"})'
      BY <2>2, <1>0, <1>2, <1>5 DEF NoDispatcher
    <3> QED BY <3>1 DEF Holds
  <2>3. CASE q # p
    <3>1. q \in alive' <=> q \in alive
      BY <2>3, <1>0
    <3> QED BY <3>1, <2>1, <2>3, <1>0, <1>2, <1>5 DEF Holds
  <2> QED BY <2>2, <2>3
<1>8. HearsInv'
  <2> SUFFICES ASSUME NEW q \in Processes, NEW t \in Segments PROVE Listens(q, t)' /\ Waits(q, t)'
    BY DEF HearsInv
  <2>1. Listens(q, t) /\ Waits(q, t) /\ seg[t].seq \in Nat /\ seg[t].word \in Nat
    BY DEF TopicInv, HearsInv, TypeOK, SharedOK, SegmentRecords
  <2>2. CASE q = p
    <3>1. /\ disp'[q][t].pc = "none" /\ disp'[q][t].seen = 0 /\ disp'[q][t].observed = 0
          /\ reader'[q][t].read = "idle" /\ reader'[q][t].notified = 0
      BY <2>2, <1>2 DEF NoDispatcher, NoReader
    <3>2. Listens(q, t)'
      BY <3>1, <2>1, <1>0 DEF Listens
    <3>3. Waits(q, t)'
      BY <3>1, <2>1, <1>0 DEF Waits
    <3> QED BY <3>2, <3>3
  <2>3. CASE q # p
    <3>1. /\ disp'[q][t] = disp[q][t] /\ reader'[q][t] = reader[q][t] /\ ends'[q][t] = ends[q][t]
          /\ flags'[q][t] = flags[q][t] /\ (q \in alive' <=> q \in alive)
      BY <2>3, <1>0, <1>2
    <3>2. Hears(q, t) => Hears(q, t)'
      BY <3>1, <1>0, <1>4 DEF Hears, Stay
    <3> QED BY <3>1, <3>2, <2>1, <1>0 DEF Listens, Waits, Readable
  <2> QED BY <2>2, <2>3
<1>9. StagesInv'
  <2>1. /\ \A q \in Processes, t \in Segments : At(q, t, Settled)' => At(q, t, Settled)
        /\ \A q \in Processes, t \in Segments : at'[q] = t => at[q] = t
    BY <1>0, <1>4
  <2> QED BY <2>1, <1>0, <1>4, StagesFrame DEF TopicInv, MeetsInv, StagesInv
<1>10. ASSUME ~raced PROVE \A q \in Processes, t \in Segments : Meets(q, t)'
  <2>1. \A q \in Processes, t \in Segments : IsOpen(q, t)' => IsOpen(q, t)
    BY <1>0, <1>2 DEF IsOpen
  <2>2. \A t \in Segments : OnName(t) => OnName(t)'
    BY <1>0 DEF OnName
  <2> QED BY <2>1, <2>2, <1>0, <1>4, <1>10, MeetsFrame DEF TopicInv, MeetsInv
<1>11. LeftInv'
  <2>1. ASSUME NEW q \in Processes, NEW t \in Segments PROVE Owes(q, t)'
    <3>1. Owes(q, t)
      BY DEF TopicInv, LeftInv
    <3>2. Unlinking(q, t) => Unlinking(q, t)'
      BY <1>4 DEF Unlinking
    <3>3. CASE q = p
      BY <3>3, <1>0, <1>2 DEF Owes
    <3>4. CASE q # p
      <4>1. (IsOpen(q, t) => IsOpen(q, t)') /\ flags'[q][t] = flags[q][t]
        BY <3>4, <1>0, <1>2 DEF IsOpen
      <4> QED BY <4>1, <3>1, <3>2, <3>4, <1>0, <1>5 DEF Owes
    <3> QED BY <3>3, <3>4
  <2>2. ASSUME NEW t \in Segments PROVE Left(t)'
    <3>1. Left(t)
      BY DEF TopicInv, LeftInv
    <3>2. \A q \in Processes : Unlinking(q, t) => Unlinking(q, t)'
      BY <1>4 DEF Unlinking
    <3>3. ASSUME NEW q \in Processes, Responsible(q, t), q # p PROVE Responsible(q, t)'
      BY <3>3, <1>0, <1>2, <1>5 DEF Responsible, IsOpen
    <3>4. ASSUME ReaderOwned, name = t, lastOut'[t] = "closed"
          PROVE  (\E q \in Processes : Responsible(q, t)') \/ \E q \in Processes \ alive' : Unlinking(q, t)'
      <4>1. CASE \E q \in alive \ {p} : IsOpen(q, t)
        <5>1. PICK q \in Processes : IsOpen(q, t) /\ q # p
          BY <4>1 DEF TopicInv, TypeOK, SharedOK
        <5>2. Responsible(q, t)
          BY <5>1 DEF Responsible
        <5> QED BY <5>1, <5>2, <3>3
      <4>2. CASE ~(IsOpen(p, t) \/ at[p] = t)
        <5>1. ~Responsible(p, t)
          BY <4>2 DEF Responsible, On, At
        <5>2. (\E q \in Processes : Responsible(q, t)) \/ \E q \in Processes \ alive : Unlinking(q, t)
          BY <3>1, <3>4, <1>3 DEF Left
        <5> QED BY <5>1, <5>2, <3>2, <3>3, <1>0
      <4> QED BY <4>1, <4>2, <3>4, <1>3
    <3>5. seg[t].stage = "absent" => ~seg[t].retired /\ lastOut'[t] # "closed"
      BY <3>1, <1>3 DEF Left
    <3>6. seg[t].retired => name # t \/ \E q \in Processes : Unlinking(q, t)'
      BY <3>1, <3>2 DEF Left
    <3>7. ReaderOwned' = ReaderOwned
      BY <1>0 DEF ReaderOwned
    <3> QED BY <3>4, <3>5, <3>6, <3>7, <1>0 DEF Left
  <2> QED BY <2>1, <2>2 DEF LeftInv
<1> QED BY <1>0, <1>6, <1>7, <1>8, <1>9, <1>10, <1>11 DEF TopicInv, MeetsInv, StagesInv
-----------------------------------------------------------------------------
(* `shm clean` *)

\* The segment is inspected.
LEMMA ListSegmentsKeeps == ASSUME TopicInv, ListSegments PROVE TopicInv'
<1>0. UNCHANGED <<scenario, name, seg, alive, threads, map, ends, flags, reader, disp, raced, lastOut>>
  BY DEF ListSegments, state
<1>1. /\ ThreadsOK' /\ SharedOK' /\ MeetsInv' /\ LeftInv'
      /\ \A points : Stay(points) /\ NobodyComes(points)
  BY <1>0, LocalStep
<1>2. TypeOK'
  BY <1>0, <1>1 DEF TopicInv, TypeOK, LocalOK
<1>3. HoldsInv' /\ HearsInv'
  BY <1>0, <1>1, HoldsFrame, HearsFrame DEF TopicInv
<1> QED BY <1>1, <1>2, <1>3 DEF TopicInv

\* The name is removed, whatever it leads to now.
LEMMA RemoveUnusedKeeps == ASSUME TopicInv, RemoveUnused PROVE TopicInv'
<1>0. /\ Remove({}) /\ UNCHANGED <<scenario, seg, alive, threads, map, ends, flags, reader, disp, lastOut>>
      /\ UNCHANGED <<pc, at, want>>
  BY DEF RemoveUnused, state, threads
<1>1. /\ \A points : Stay(points) /\ NobodyComes(points)
      /\ \A q \in Processes, t \in Segments : at'[q] = t => at[q] = t
  BY <1>0 DEF Stay, NobodyComes, At
<1>2. TypeOK'
  BY <1>0 DEF Remove, TopicInv, TypeOK, ThreadsOK, SharedOK, LocalOK
<1>3. HoldsInv' /\ HearsInv'
  BY <1>0, <1>1, HoldsFrame, HearsFrame DEF TopicInv
<1>4. MeetsInv'
  BY <1>0, <1>1, MeetsRemoved
<1>5. LeftInv'
  BY <1>0, <1>1, LeftRemoved DEF TopicInv, Remove
<1> QED BY <1>2, <1>3, <1>4, <1>5 DEF TopicInv
-----------------------------------------------------------------------------
(* The theorems *)

\* Nothing has been created yet.
LEMMA InitTopic == ASSUME Init PROVE TopicInv
<1>0. NoSegment \notin Segments
  BY DEF NoSegment, Segments
<1>1. /\ NoReader \in ReaderRecords /\ NoDispatcher \in DispatcherRecords
      /\ [stage |-> "absent", shape |-> "none", retired |-> FALSE, in |-> {}, seq |-> 0, word |-> 0] \in SegmentRecords
  BY DEF NoReader, ReaderRecords, NoDispatcher, DispatcherRecords, SegmentRecords
<1>2. TypeOK
  <2>1. "idle" \notin Somewhere
    BY DEF Somewhere, Settled, Creating, Awaiting, Adding, Closing, Leaving
  <2> QED BY <1>1, <2>1 DEF Init, TypeOK, ThreadsOK, SharedOK, LocalOK, Nowhere, Kinds
<1>3. \A p \in Processes, s \in Segments :
        /\ ends[p][s] = {} /\ flags[p][s] = {} /\ reader[p][s] = NoReader /\ disp[p][s] = NoDispatcher
        /\ at[p] = NoSegment /\ name # s /\ lastOut[s] = "nobody"
        /\ seg[s] = [stage |-> "absent", shape |-> "none", retired |-> FALSE, in |-> {}, seq |-> 0, word |-> 0]
  BY <1>0 DEF Init
<1>4. HoldsInv
  BY <1>0, <1>3 DEF HoldsInv, Holds, On, At, NoReader, NoDispatcher
<1>5. HearsInv
  BY <1>0, <1>3 DEF HearsInv, Listens, Waits, NoReader, NoDispatcher
<1>6. MeetsInv
  BY <1>0, <1>3 DEF MeetsInv, Stages, Meets, On, At, IsOpen
<1>7. LeftInv
  <2>1. \A s \in Segments : name # s /\ lastOut[s] = "nobody" /\ ~seg[s].retired
    BY <1>0 DEF Init
  <2> QED BY <2>1, <1>3 DEF LeftInv, Owes, Left
<1> QED BY <1>2, <1>4, <1>5, <1>6, <1>7 DEF TopicInv

\* Every step keeps the invariant.
LEMMA NextTopic == ASSUME TopicInv, [Next]_vars PROVE TopicInv'
<1>1. ASSUME NEW p \in Processes, OpenStep(p) PROVE TopicInv'
  BY <1>1, CreateRegionKeeps, OpenRegionKeeps, SizeRegionKeeps, PublishHeaderKeeps, AwaitSizeKeeps, AwaitMagicKeeps,
     ClaimKeeps, TakeSequenceKeeps, AddReaderKeeps DEF OpenStep
<1>2. ASSUME NEW p \in Processes, CloseStep(p) PROVE TopicInv'
  BY <1>2, RetireKeeps, UnlinkKeeps, CloseKeeps, WakeDispatcherKeeps, ReleaseKeeps, LastOutKeeps DEF CloseStep
<1>3. ASSUME NEW p \in Processes, NEW s \in Segments, DispatchStep(p, s) PROVE TopicInv'
  BY <1>3, DispatchLoadKeeps, DispatchLookKeeps, DispatchWaitKeeps, DispatchPollKeeps DEF DispatchStep
<1>4. CASE UNCHANGED vars
  <2>1. UNCHANGED <<scenario, name, seg, alive, threads, map, ends, flags, reader, disp, raced, lastOut>>
    BY <1>4 DEF vars, state
  <2>2. /\ ThreadsOK' /\ SharedOK' /\ MeetsInv' /\ LeftInv'
        /\ \A points : Stay(points) /\ NobodyComes(points)
    BY <2>1, LocalStep
  <2>3. TypeOK'
    BY <2>1, <2>2 DEF TopicInv, TypeOK, LocalOK
  <2>4. HoldsInv' /\ HearsInv'
    BY <2>1, <2>2, HoldsFrame, HearsFrame DEF TopicInv
  <2> QED BY <2>2, <2>3, <2>4 DEF TopicInv
<1> QED BY <1>1, <1>2, <1>3, <1>4, CommittedKeeps, CloseTransportKeeps, CrashKeeps, CreateEndpointKeeps,
           DropEndpointKeeps, PublishKeeps, ReadKeeps, ReadWakesKeeps, ListSegmentsKeeps, RemoveUnusedKeeps
        DEF Next, Kinds

\* Whatever opens, publishes, retires, closes, crashes and cleans up meanwhile,
\* the inductive invariant of the transport's topic holds.
THEOREM ShmTopicInvariant == Spec => []TopicInv
<1>1. Init => TopicInv
  BY InitTopic
<1>2. TopicInv /\ [Next]_vars => TopicInv'
  BY NextTopic
<1> QED BY <1>1, <1>2, PTL DEF Spec

\* The endpoints of a topic meet: an attached process is on the segment the name
\* leads to or on a retired one, until a removal by name overtakes an opening.
THEOREM EndpointsAlwaysMeet == Spec => []EndpointsMeet
<1>1. TopicInv => EndpointsMeet
  BY DEF TopicInv, MeetsInv, Meets, OnName, EndpointsMeet
<1> QED BY <1>1, ShmTopicInvariant, PTL

\* The last process to close a reader-owned topic leaves no name behind, unless
\* a reader died half way through retiring it.
THEOREM NothingIsLeftBehind == Spec => []NothingLeftBehind
<1>1. ASSUME TopicInv PROVE NothingLeftBehind
  <2> SUFFICES ASSUME ReaderOwned, name # NoSegment, lastOut[name] = "closed",
                      \A p \in alive : pc[p] = "idle" /\ \A s \in Segments : ~IsOpen(p, s)
               PROVE  TornRetirement
    BY DEF NothingLeftBehind
  <2>1. name \in Segments
    BY <1>1 DEF TopicInv, TypeOK, SharedOK
  <2>2. \A q \in Processes : ~Responsible(q, name)
    BY <2>1 DEF Responsible, On, At, IsOpen, Closing, Leaving
  <2>3. Left(name)
    BY <2>1, <1>1 DEF TopicInv, LeftInv
  <2>4. PICK q \in Processes \ alive : Unlinking(q, name)
    BY <2>2, <2>3 DEF Left
  <2> QED BY <2>4 DEF TornRetirement, Unlinking, At
<1> QED BY <1>1, ShmTopicInvariant, PTL

\* No dispatcher sleeps through a publish or a close, and no Read waits for a
\* message that its dispatcher has seen.
THEOREM NothingIsMissed == Spec => []NothingMissed
<1>1. ASSUME TopicInv PROVE NothingSleptThrough
  <2> SUFFICES ASSUME NEW p \in alive, NEW s \in Segments, disp[p][s].pc = "asleep"
               PROVE  \/ disp[p][s].seen = seg[s].seq /\ IsOpen(p, s)
                      \/ pc[p] = "wake" /\ at[p] = s
                      \/ \E q \in Processes : pc[q] = "notify" /\ at[q] = s
    BY DEF NothingSleptThrough
  <2>1. p \in Processes /\ Listens(p, s)
    BY <1>1 DEF TopicInv, HearsInv, TypeOK, SharedOK
  <2>2. Hears(p, s)
    BY <2>1 DEF Listens
  <2> QED BY <2>2 DEF Hears, At, IsOpen
<1>2. ASSUME TopicInv PROVE BlockedReadsTold
  <2> SUFFICES ASSUME NEW p \in alive, NEW s \in Segments, reader[p][s].read = "blocked", ~Closed(p, s),
                      Readable(p, s), ~reader[p][s].told
               PROVE  disp[p][s].pc \in {"load", "look", "wait", "asleep"} /\ disp[p][s].seen < seg[s].seq
    BY DEF BlockedReadsTold
  <2>1. p \in Processes /\ Waits(p, s) /\ Holds(p, s) /\ disp[p][s].pc \in Running \cup {"none", "exited"}
    BY <1>2 DEF TopicInv, HearsInv, HoldsInv, TypeOK, SharedOK, LocalOK, DispatcherRecords
  <2>2. "reader" \in ends[p][s] /\ "open" \in flags[p][s]
    BY DEF Closed, IsOpen
  <2> QED BY <2>1, <2>2 DEF Waits, Holds, Running
<1>3. TopicInv => NothingMissed
  BY <1>1, <1>2 DEF NothingMissed
<1> QED BY <1>3, ShmTopicInvariant, PTL
=============================================================================
