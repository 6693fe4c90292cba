------------------------- MODULE ServiceCallProofs --------------------------
(***************************************************************************)
(* Proofs about ServiceCall for any calls, servers and worlds: a call gets *)
(* one result, and its own; a server that a thread has closed serves no    *)
(* more; and a client gives up the server it knows only if that one        *)
(* stopped.                                                                *)
(*                                                                         *)
(* The three invariants are about the places a call can be in - not yet    *)
(* registered, pending, taken into a batch, answered - which exclude each  *)
(* other, about who serves, and about what the topics still carry.         *)
(***************************************************************************)
EXTENDS ServiceCall, TLAPS

Results == {"cancelled", "unavailable", "error", "reply", "deadline"}
Starting == {"new", "await", "match"}
Lives == {"down", "up", "closing", "gone", "closed", "dead"}
Withdrawn == {"gone", "closed", "dead"}
Delivered == {<< >>} \cup {<<r>> : r \in Results}
-----------------------------------------------------------------------------
(* The client's calls *)

CallsOK ==
  /\ world.calls \subseteq Calls
  /\ call \in [Calls -> Starting \cup {"write", "sent", "over"}]
  /\ pending \subseteq Calls
  /\ done \in [Calls -> Delivered]
  /\ batch \subseteq [call : Calls, result : Results]

\* The completion of a call waits in the batch.
Taken(k) == \E c \in batch : c.call = k

\* A call is in one place at a time.
OnePlace ==
  /\ \A k \in Calls : call[k] \in Starting => k \notin pending /\ ~Taken(k) /\ done[k] = << >>
  /\ \A k \in pending : ~Taken(k) /\ done[k] = << >>
  /\ \A c \in batch : done[c.call] = << >>
  /\ \A c, d \in batch : c.call = d.call => c = d

CallsInv == CallsOK /\ OnePlace

\* The requests and replies under way are those of calls, and nobody replies
\* to a call whose handler has not run.
TrafficOK ==
  /\ requests \in [Servers -> Seq(Calls)] /\ replies \in Seq(Calls)
  /\ serving \in [Servers -> Calls \cup {None}]
Handled ==
  /\ \A s \in Servers : serving[s] # None => serving[s] \in handled
  /\ \A i \in 1 .. Len(replies) : replies[i] \in handled
Answers ==
  /\ \A c \in batch : c.result = "reply" => c.call \in handled
  /\ \A k \in Calls : done[k] = <<"reply">> => k \in handled

TrafficInv == TrafficOK /\ Handled /\ Answers
-----------------------------------------------------------------------------
(* Who serves *)

Passes == [left : Int, by : {"worker", "caller", None}, checked : BOOLEAN]

ServingOK ==
  /\ srv \in [Servers -> Lives]
  /\ pass \in [Servers -> Passes]
  /\ closer \in [Servers -> {"thread", "handler", None}]
  /\ writer \in [Servers -> BOOLEAN]

\* A handler runs inside a pass; a server that was not started, and one that a
\* thread closed, has none.
Serves(s) ==
  /\ pass[s] = NoPass \/ pass[s].by \in {"worker", "caller"}
  /\ serving[s] # None => pass[s] # NoPass
  /\ srv[s] = "down" => pass[s] = NoPass
  /\ srv[s] = "closed" /\ closer[s] = "thread" => pass[s] = NoPass /\ ~writer[s]

ServersInv == ServingOK /\ \A s \in Servers : Serves(s)
-----------------------------------------------------------------------------
(* What the client knows of the servers *)

\* The goodbye of a server that has said it.
PresenceInv ==
  /\ view \in [instance : {NoServer} \cup Servers, fresh : BOOLEAN, withdrew : BOOLEAN]
  /\ presence # None => \E s \in Servers :
       presence = Beat(s) \/ (presence = Goodbye(s) /\ srv[s] \in Withdrawn)

ServiceInv == CallsInv /\ TrafficInv /\ ServersInv /\ PresenceInv
-----------------------------------------------------------------------------
(* Steps of the calls *)

\* A result is appended to what was delivered, which is nothing.
LEMMA FirstResult == ASSUME NEW r \in Results PROVE Append(<< >>, r) = <<r>> /\ <<r>> \in Delivered
BY DEF Delivered

\* How a step may change the place of the calls: one in Start fails or registers,
\* or goes on.
StartEffect(k) ==
  /\ batch' = batch /\ world' = world
  /\ call[k] \in Starting
  /\ \/ \E to \in Starting : call' = [call EXCEPT ![k] = to] /\ UNCHANGED <<pending, done>>
     \/ \E r \in {"cancelled", "unavailable"} :
          /\ call' = [call EXCEPT ![k] = "over"] /\ pending' = pending
          /\ done' = [done EXCEPT ![k] = Append(@, r)]
     \/ call' = [call EXCEPT ![k] = "write"] /\ pending' = pending \cup {k} /\ done' = done

\* Both loops of AwaitServerLocked, and what Start does after them.
LEMMA StartSteps ==
  ASSUME NEW k, AwaitServer(k) \/ AwaitMatchWoken(k), world' = world
  PROVE  StartEffect(k)
<1> USE DEF At, Deliver, Starting
<1>1. ASSUME AwaitMatch(k), batch' = batch PROVE StartEffect(k)
  BY <1>1 DEF AwaitMatch, Registers, Fails, Waits, StartEffect
<1>2. ASSUME NoServerYet(k), batch' = batch PROVE StartEffect(k)
  BY <1>2 DEF NoServerYet, Fails, Waits, StartEffect
<1>3. CASE AwaitServer(k)
  <2>1. batch' = batch
    BY <1>3 DEF AwaitServer
  <2>2. CASE closed
    BY <1>3, <2>1, <2>2 DEF AwaitServer, Fails, StartEffect
  <2>3. CASE ~closed
    BY <1>1, <1>2, <1>3, <2>1, <2>3 DEF AwaitServer
  <2> QED BY <2>2, <2>3
<1>4. CASE AwaitMatchWoken(k)
  BY <1>1, <1>4 DEF AwaitMatchWoken
<1> QED BY <1>3, <1>4

\* Start leaves every call in one place.
LEMMA StartKeepsPlaces ==
  ASSUME CallsInv, NEW k \in world.calls, StartEffect(k)
  PROVE  CallsInv'
<1> USE DEF CallsInv, CallsOK, Taken
<1>1. /\ k \in Calls /\ call[k] \in Starting /\ batch' = batch /\ world' = world
      /\ k \notin pending /\ ~Taken(k) /\ done[k] = << >>
  BY DEF StartEffect, OnePlace
<1>2. CASE \E to \in Starting : call' = [call EXCEPT ![k] = to] /\ UNCHANGED <<pending, done>>
  <2>1. \A j \in Calls : call'[j] \in Starting => call[j] \in Starting
    BY <1>1, <1>2
  <2>2. CallsOK'
    BY <1>1, <1>2
  <2>3. OnePlace'
    BY <1>1, <1>2, <2>1 DEF OnePlace
  <2> QED BY <2>2, <2>3
<1>3. ASSUME NEW r \in {"cancelled", "unavailable"},
             call' = [call EXCEPT ![k] = "over"], pending' = pending,
             done' = [done EXCEPT ![k] = Append(@, r)]
      PROVE  CallsInv'
  <2>1. done' = [done EXCEPT ![k] = <<r>>] /\ <<r>> \in Delivered
    BY <1>1, <1>3, FirstResult DEF Results
  <2>2. CallsOK'
    BY <1>1, <1>3, <2>1
  <2>3. /\ call'[k] = "over" /\ "over" \notin Starting
        /\ \A j \in Calls \ {k} : call'[j] = call[j] /\ done'[j] = done[j]
    BY <1>1, <1>3, <2>1 DEF Starting
  <2>4. OnePlace'
    BY <1>1, <1>3, <2>3 DEF OnePlace
  <2> QED BY <2>2, <2>4
<1>4. CASE call' = [call EXCEPT ![k] = "write"] /\ pending' = pending \cup {k} /\ done' = done
  <2>1. /\ call'[k] = "write" /\ "write" \notin Starting
        /\ \A j \in Calls \ {k} : call'[j] = call[j]
    BY <1>1, <1>4 DEF Starting
  <2>2. CallsOK'
    BY <1>1, <1>4
  <2>3. OnePlace'
    BY <1>1, <1>4, <2>1 DEF OnePlace
  <2> QED BY <2>2, <2>3
<1> QED BY <1>2, <1>3, <1>4 DEF StartEffect

\* The write of a request, and its failure, which completes the call unless
\* somebody did already.
LEMMA WriteKeepsPlaces ==
  ASSUME CallsInv, world' = world, NEW k \in world.calls, WriteRequest(k) \/ WriteFails(k)
  PROVE  CallsInv'
<1> USE DEF CallsInv, CallsOK, Taken
<1>1. /\ k \in Calls /\ batch' = batch
      /\ \E to \in {"sent", "over"} : call' = [call EXCEPT ![k] = to]
  BY DEF WriteRequest, WriteFails, At
<1>2. call' \in [Calls -> Starting \cup {"write", "sent", "over"}]
  BY <1>1
<1>3. \A j \in Calls : call'[j] \in Starting => call[j] \in Starting /\ j # k
  BY <1>1 DEF Starting
<1>4. CASE pending' = pending /\ done' = done
  <2>1. OnePlace'
    BY <1>1, <1>3, <1>4 DEF OnePlace
  <2> QED BY <1>1, <1>2, <1>4, <2>1
<1>5. CASE pending' = pending \ {k} /\ done' = done
  <2>1. OnePlace'
    BY <1>1, <1>3, <1>5 DEF OnePlace
  <2> QED BY <1>1, <1>2, <1>5, <2>1
<1>6. CASE k \in pending /\ pending' = pending \ {k} /\ done' = [done EXCEPT ![k] = Append(@, "error")]
  <2>1. ~Taken(k) /\ done[k] = << >>
    BY <1>6 DEF OnePlace
  <2>2. done' = [done EXCEPT ![k] = <<"error">>] /\ <<"error">> \in Delivered
    BY <1>6, <2>1, FirstResult DEF Results
  <2>3. CallsOK'
    BY <1>1, <1>2, <1>6, <2>2
  <2>4. \A j \in Calls \ {k} : done'[j] = done[j]
    BY <2>2
  <2>5. OnePlace'
    BY <1>1, <1>3, <1>6, <2>1, <2>4 DEF OnePlace
  <2> QED BY <2>3, <2>5
<1> QED BY <1>4, <1>5, <1>6 DEF WriteRequest, WriteFails, Deliver

\* Calls taken from pending into the batch.
LEMMA TakeKeepsPlaces ==
  ASSUME CallsInv, UNCHANGED <<world, call, done>>, NEW ks \in SUBSET pending, NEW r \in Results,
         TakeInto(ks, r)
  PROVE  CallsInv'
<1> USE DEF CallsInv, CallsOK
<1>1. /\ pending' = pending \ ks
      /\ batch' = batch \cup {[call |-> k, result |-> r] : k \in ks}
  BY DEF TakeInto
<1>2. \A c \in batch' : c \in batch \/ (c.call \in ks /\ c = [call |-> c.call, result |-> r])
  BY <1>1
<1>3. CallsOK'
  <2>1. \A k \in ks : [call |-> k, result |-> r] \in [call : Calls, result : Results]
    OBVIOUS
  <2> QED BY <1>1, <2>1
<1>4. OnePlace'
  <2>1. \A k \in Calls : call[k] \in Starting => k \notin pending' /\ ~Taken(k)' /\ done[k] = << >>
    BY <1>1, <1>2 DEF OnePlace, Taken
  <2>2. \A k \in pending' : ~Taken(k)' /\ done[k] = << >>
    BY <1>1, <1>2 DEF OnePlace, Taken
  <2>3. \A c \in batch' : done[c.call] = << >>
    BY <1>1, <1>2 DEF OnePlace
  <2>4. ASSUME NEW c \in batch', NEW d \in batch', c.call = d.call PROVE c = d
    <3>1. CASE c \in batch /\ d \in batch
      BY <2>4, <3>1 DEF OnePlace
    <3>2. CASE c.call \in ks \/ d.call \in ks
      BY <1>2, <2>4, <3>2 DEF OnePlace, Taken
    <3> QED BY <1>2, <3>1, <3>2
  <2> QED BY <2>1, <2>2, <2>3, <2>4 DEF OnePlace
<1> QED BY <1>3, <1>4

\* The dispatcher takes calls that are pending and runs what it took.
LEMMA DispatchKeepsPlaces ==
  ASSUME CallsInv, world' = world, DispatchStep
  PROVE  CallsInv'
<1>0. CallsOK /\ OnePlace
  BY DEF CallsInv
<1>1. ASSUME UNCHANGED <<world, call, pending, done, batch>> PROVE CallsInv'
  BY <1>1 DEF CallsInv, CallsOK, OnePlace, Taken
<1>2. CASE DispatchWakes
  BY <1>1, <1>2 DEF DispatchWakes
<1>3. CASE DispatchReply
  <2>1. PICK ks \in SUBSET pending : ks = Answered(Head(replies))
    BY DEF Answered
  <2>2. TakeInto(ks, "reply") /\ UNCHANGED <<call, done>> /\ "reply" \in Results
    BY <1>3, <2>1 DEF DispatchReply, Results
  <2> QED BY <2>2, TakeKeepsPlaces
<1>4. CASE DispatchExpires
  <2>1. CASE pending = {}
    BY <1>1, <1>4, <2>1 DEF DispatchExpires
  <2>2. CASE pending # {}
    <3>1. PICK ks \in SUBSET pending, r \in Results : TakeInto(ks, r)
      <4>1. Expired \in SUBSET pending
        BY DEF Expired
      <4>2. (IF LiveServer THEN "deadline" ELSE "unavailable") \in Results
        BY DEF Results
      <4> QED BY <1>4, <2>2, <4>1, <4>2 DEF DispatchExpires
    <3>2. UNCHANGED <<call, done>>
      BY <1>4 DEF DispatchExpires
    <3> QED BY <3>1, <3>2, TakeKeepsPlaces
  <2> QED BY <2>1, <2>2
<1>5. CASE DispatchRuns
  <2>1. CASE batch' = batch /\ done' = done
    BY <1>1, <1>5, <2>1 DEF DispatchRuns
  <2>2. ASSUME NEW c \in batch, Deliver(c.call, c.result), batch' = batch \ {c} PROVE CallsInv'
    <3>1. /\ c.call \in Calls /\ c.result \in Results /\ done[c.call] = << >>
          /\ UNCHANGED <<call, pending>>
      BY <1>0, <1>5, <2>2 DEF CallsOK, OnePlace, DispatchRuns
    <3>2. done' = [done EXCEPT ![c.call] = <<c.result>>] /\ <<c.result>> \in Delivered
      BY <2>2, <3>1, FirstResult DEF Deliver
    <3>3. CallsOK'
      BY <1>0, <2>2, <3>1, <3>2 DEF CallsOK
    <3>4. \A j \in Calls \ {c.call} : done'[j] = done[j]
      BY <1>0, <3>2 DEF CallsOK
    <3>5. /\ c.call \notin pending /\ call[c.call] \notin Starting
          /\ \A d \in batch' : d \in batch /\ d.call # c.call /\ d.call \in Calls
      BY <1>0, <2>2, <3>1 DEF OnePlace, Taken, CallsOK
    <3>6. OnePlace'
      BY <1>0, <2>2, <3>1, <3>4, <3>5 DEF OnePlace, Taken, CallsOK
    <3> QED BY <3>3, <3>6 DEF CallsInv
  <2> QED BY <1>5, <2>1, <2>2 DEF DispatchRuns
<1> QED BY <1>2, <1>3, <1>4, <1>5 DEF DispatchStep

\* Close cancels the calls that are left.
LEMMA DrainKeepsPlaces == ASSUME CallsInv, world' = world, CloseDrains PROVE CallsInv'
<1> USE DEF CallsInv, CallsOK
<1>1. /\ pending' = {} /\ UNCHANGED <<call, batch>>
      /\ done' = [k \in Calls |-> IF k \in pending THEN Append(done[k], "cancelled") ELSE done[k]]
  BY DEF CloseDrains
<1>2. \A k \in pending : Append(done[k], "cancelled") \in Delivered
  BY FirstResult DEF OnePlace, Results
<1>3. done' \in [Calls -> Delivered]
  BY <1>1, <1>2
<1>4. OnePlace'
  BY <1>1 DEF OnePlace, Taken
<1> QED BY <1>1, <1>3, <1>4

\* Every step leaves every call in one place.
LEMMA PlacesStep == ASSUME CallsInv, [Next]_vars PROVE CallsInv'
<1> USE DEF client, vars
<1>1. ASSUME UNCHANGED <<world, call, pending, done, batch>> PROVE CallsInv'
  BY <1>1 DEF CallsInv, CallsOK, OnePlace, Taken
<1>2. CASE UNCHANGED vars
  BY <1>1, <1>2
<1>3. CASE Next
  <2>1. world' = world
    BY <1>3 DEF Next
  <2>2. ASSUME NEW k \in world.calls, StartStep(k) PROVE CallsInv'
    BY <2>1, <2>2, StartSteps, StartKeepsPlaces, WriteKeepsPlaces DEF StartStep
  <2>3. ASSUME NEW k \in world.calls, DeadlinePasses(k) PROVE CallsInv'
    BY <1>1, <2>1, <2>3 DEF DeadlinePasses
  <2>4. CASE HeartbeatsStop \/ WatchService \/ CloseBegins \/ Discover
    BY <1>1, <2>1, <2>4 DEF HeartbeatsStop, WatchService, CloseBegins, Discover
  <2>5. ASSUME NEW s \in Servers, ServerStep(s) PROVE CallsInv'
    BY <1>1, <2>1, <2>5 DEF ServerStep, StartServer, Heartbeat, ServePending, CheckPass, Serve, Reply,
         CloseServer, SayGoodbye, ServerClosed, CrashServer
  <2> QED BY <1>3, <2>1, <2>2, <2>3, <2>4, <2>5, DispatchKeepsPlaces, DrainKeepsPlaces DEF Next
<1> QED BY <1>2, <1>3
-----------------------------------------------------------------------------
(* Requests and replies *)

\* A queue keeps its newest entries.
LEMMA EnqueueKeeps ==
  ASSUME NEW S, NEW q \in Seq(S), NEW k \in S
  PROVE  /\ Enqueue(q, k) \in Seq(S)
         /\ \A i \in 1 .. Len(Enqueue(q, k)) :
              Enqueue(q, k)[i] = k \/ \E j \in 1 .. Len(q) : Enqueue(q, k)[i] = q[j]
<1> DEFINE full == Append(q, k)
<1>1. /\ full \in Seq(S) /\ Len(full) = Len(q) + 1 /\ Len(q) \in Nat
      /\ \A i \in 1 .. Len(full) : full[i] = k \/ \E j \in 1 .. Len(q) : full[i] = q[j]
  <2>1. \A i \in 1 .. Len(full) : i = Len(q) + 1 \/ i \in 1 .. Len(q)
    OBVIOUS
  <2> QED BY <2>1
<1> HIDE DEF full
<1>2. CASE Len(full) > Depth
  <2>1. Enqueue(q, k) = Tail(full)
    BY <1>2 DEF Enqueue, full
  <2>2. /\ Tail(full) \in Seq(S) /\ Len(Tail(full)) = Len(full) - 1
        /\ \A i \in 1 .. Len(Tail(full)) : Tail(full)[i] = full[i + 1] /\ i + 1 \in 1 .. Len(full)
    BY <1>1
  <2> DEFINE rest == Tail(full)
  <2> HIDE DEF rest
  <2>3. /\ rest \in Seq(S)
        /\ \A i \in 1 .. Len(rest) : rest[i] = k \/ \E j \in 1 .. Len(q) : rest[i] = q[j]
    <3>1. ASSUME NEW i \in 1 .. Len(rest) PROVE rest[i] = k \/ \E j \in 1 .. Len(q) : rest[i] = q[j]
      <4>1. PICK n \in 1 .. Len(full) : rest[i] = full[n]
        BY <2>2 DEF rest
      <4> QED BY <1>1, <4>1
    <3> QED BY <2>2, <3>1 DEF rest
  <2> QED BY <2>1, <2>3 DEF rest
<1>3. CASE ~(Len(full) > Depth)
  <2>1. Enqueue(q, k) = full
    BY <1>3 DEF Enqueue, full
  <2> QED BY <1>1, <2>1
<1> QED BY <1>2, <1>3

\* The results that a step of the client may deliver or put into the batch.
LEMMA ClientKeepsTraffic ==
  ASSUME CallsInv, CallsInv', TrafficInv, UNCHANGED <<serving, handled>>,
         replies' = replies \/ (replies # << >> /\ replies' = Tail(replies)),
         requests' \in [Servers -> Seq(Calls)],
         \A c \in batch' : c \in batch \/ (c.result = "reply" => c.call \in handled),
         \A k \in Calls : done'[k] = done[k] \/ (done'[k] = <<"reply">> => k \in handled)
  PROVE  TrafficInv'
<1>1. TrafficOK /\ Handled /\ Answers
  BY DEF TrafficInv
<1>2. TrafficOK'
  <2>1. replies \in Seq(Calls) /\ serving' \in [Servers -> Calls \cup {None}]
    BY <1>1 DEF TrafficOK
  <2>2. replies # << >> => Tail(replies) \in Seq(Calls)
    BY <2>1
  <2>3. replies' \in Seq(Calls)
    BY <2>1, <2>2
  <2> QED BY <2>1, <2>3 DEF TrafficOK
<1>3. Handled'
  <2>1. ASSUME NEW i \in 1 .. Len(replies') PROVE replies'[i] \in handled
    <3>1. CASE replies' = replies
      BY <1>1, <2>1, <3>1 DEF Handled
    <3>2. CASE replies # << >> /\ replies' = Tail(replies)
      <4>1. /\ replies \in Seq(Calls) /\ Len(replies') = Len(replies) - 1
            /\ replies'[i] = replies[i + 1] /\ i + 1 \in 1 .. Len(replies)
        BY <1>1, <2>1, <3>2 DEF TrafficOK
      <4> QED BY <1>1, <4>1 DEF Handled
    <3> QED BY <3>1, <3>2
  <2> QED BY <1>1, <2>1 DEF Handled
<1>4. Answers'
  BY <1>1 DEF Answers
<1> QED BY <1>2, <1>3, <1>4 DEF TrafficInv

\* A step of Start, with a write of the request or without.
LEMMA StartKeepsTraffic ==
  ASSUME CallsInv, CallsInv', TrafficInv, world' = world, NEW k \in world.calls, StartStep(k)
  PROVE  TrafficInv'
<1>1. /\ k \in Calls /\ requests \in [Servers -> Seq(Calls)] /\ replies \in Seq(Calls)
      /\ done \in [Calls -> Delivered]
  BY DEF CallsInv, CallsOK, TrafficInv, TrafficOK
<1>2. UNCHANGED <<serving, handled, replies, batch>>
  BY DEF StartStep, AwaitServer, AwaitMatchWoken, WriteRequest, WriteFails, servers, topics
<1>3. requests' \in [Servers -> Seq(Calls)]
  <2>1. CASE WriteRequest(k)
    <3>1. \A s \in Servers : Enqueue(requests[s], k) \in Seq(Calls)
      BY <1>1, EnqueueKeeps
    <3> QED BY <1>1, <2>1, <3>1 DEF WriteRequest
  <2>2. CASE ~WriteRequest(k)
    BY <1>1, <2>2 DEF StartStep, AwaitServer, AwaitMatchWoken, WriteFails, topics
  <2> QED BY <2>1, <2>2
<1>4. \A j \in Calls : done'[j] = done[j] \/ done'[j] # <<"reply">>
  <2>1. \A r \in {"cancelled", "unavailable", "error"} : <<r>> # <<"reply">>
    OBVIOUS
  <2>2. CASE AwaitServer(k) \/ AwaitMatchWoken(k)
    <3>1. StartEffect(k)
      BY <2>2, StartSteps
    <3>2. done[k] = << >>
      BY <1>1, <3>1 DEF StartEffect, CallsInv, OnePlace
    <3>3. done' = done \/ \E r \in {"cancelled", "unavailable"} : done' = [done EXCEPT ![k] = <<r>>]
      BY <1>1, <3>1, <3>2, FirstResult DEF StartEffect, Results
    <3> QED BY <1>1, <2>1, <3>3
  <2>3. CASE WriteRequest(k) \/ WriteFails(k)
    <3>1. done' = done \/ (k \in pending /\ done' = [done EXCEPT ![k] = Append(@, "error")])
      BY <2>3 DEF WriteRequest, WriteFails, Deliver
    <3>2. done' = done \/ done' = [done EXCEPT ![k] = <<"error">>]
      BY <1>1, <3>1, FirstResult DEF CallsInv, OnePlace, Results
    <3> QED BY <1>1, <2>1, <3>2
  <2> QED BY <2>2, <2>3 DEF StartStep
<1> QED BY <1>1, <1>2, <1>3, <1>4, ClientKeepsTraffic

\* The dispatcher routes a reply to the call that it answers.
LEMMA DispatchKeepsTraffic ==
  ASSUME CallsInv, CallsInv', TrafficInv, DispatchStep
  PROVE  TrafficInv'
<1>1. /\ requests \in [Servers -> Seq(Calls)] /\ replies \in Seq(Calls)
      /\ done \in [Calls -> Delivered]
  BY DEF CallsInv, CallsOK, TrafficInv, TrafficOK
<1>2. UNCHANGED <<serving, handled, requests>>
  BY DEF DispatchStep, DispatchWakes, DispatchReply, DispatchExpires, DispatchRuns, servers, topics
<1>3. replies' = replies \/ (replies # << >> /\ replies' = Tail(replies))
  <2>1. CASE DispatchReply
    BY <2>1 DEF DispatchReply
  <2>2. CASE DispatchWakes \/ DispatchExpires \/ DispatchRuns
    BY <2>2 DEF DispatchWakes, DispatchExpires, DispatchRuns, topics
  <2> QED BY <2>1, <2>2 DEF DispatchStep
<1>4. \A c \in batch' : c \in batch \/ (c.result = "reply" => c.call \in handled)
  <2>1. CASE DispatchReply
    <3>1. Head(replies) \in handled
      <4>1. replies # << >>
        BY <2>1 DEF DispatchReply
      <4>2. 1 \in 1 .. Len(replies) /\ Head(replies) = replies[1]
        BY <1>1, <4>1
      <4> QED BY <4>2 DEF TrafficInv, Handled
    <3>2. batch' = batch \cup {[call |-> j, result |-> "reply"] : j \in pending \cap {Head(replies)}}
      BY <2>1 DEF DispatchReply, TakeInto, Answered
    <3> QED BY <3>1, <3>2
  <2>2. CASE DispatchExpires
    <3>1. \/ batch' = batch
          \/ \E r \in {"deadline", "unavailable"} :
               batch' = batch \cup {[call |-> j, result |-> r] : j \in Expired}
      BY <2>2 DEF DispatchExpires, TakeInto
    <3> QED BY <3>1
  <2>3. CASE DispatchWakes \/ DispatchRuns
    BY <2>3 DEF DispatchWakes, DispatchRuns
  <2> QED BY <2>1, <2>2, <2>3 DEF DispatchStep
<1>5. \A k \in Calls : done'[k] = done[k] \/ (done'[k] = <<"reply">> => k \in handled)
  <2>1. CASE done' = done
    BY <2>1
  <2>2. ASSUME NEW c \in batch, Deliver(c.call, c.result) PROVE <1>5!:
    <3>1. c.call \in Calls /\ c.result \in Results /\ done[c.call] = << >>
      BY DEF CallsInv, CallsOK, OnePlace
    <3>2. done' = [done EXCEPT ![c.call] = <<c.result>>]
      BY <2>2, <3>1, FirstResult DEF Deliver
    <3>3. c.result = "reply" => c.call \in handled
      BY DEF TrafficInv, Answers
    <3>4. <<c.result>> = <<"reply">> => c.result = "reply"
      OBVIOUS
    <3> QED BY <1>1, <3>1, <3>2, <3>3, <3>4
  <2> QED BY <2>1, <2>2 DEF DispatchStep, DispatchWakes, DispatchReply, DispatchExpires, DispatchRuns
<1> QED BY <1>1, <1>2, <1>3, <1>4, <1>5, ClientKeepsTraffic

\* A server takes requests from its queue, and replies to the one it served.
LEMMA ServerKeepsTraffic ==
  ASSUME CallsInv, CallsInv', TrafficInv, NEW s \in Servers, ServerStep(s)
  PROVE  TrafficInv'
<1>1. TrafficOK /\ Handled /\ Answers
  BY DEF TrafficInv
<1>2. UNCHANGED <<batch, done>>
  BY DEF ServerStep, StartServer, Heartbeat, ServePending, CheckPass, Serve, Reply, CloseServer,
         SayGoodbye, ServerClosed, CrashServer, client
<1>3. CASE UNCHANGED <<requests, replies, serving, handled>>
  BY <1>1, <1>2, <1>3 DEF TrafficInv, TrafficOK, Handled, Answers
<1>4. CASE Serve(s)
  <2>1. replies' = replies
    BY <1>4 DEF Serve
  <2>2. CASE requests[s] = << >>
    BY <1>3, <1>4, <2>1, <2>2 DEF Serve
  <2>3. CASE requests[s] # << >>
    <3>1. PICK k \in Calls : k = Head(requests[s])
      BY <1>1, <2>3 DEF TrafficOK
    <3>2. /\ requests' = [requests EXCEPT ![s] = Tail(@)]
          /\ \/ serving' = [serving EXCEPT ![s] = k] /\ handled' = handled \cup {k}
             \/ UNCHANGED <<serving, handled>>
      BY <1>4, <2>3, <3>1 DEF Serve
    <3>3. Tail(requests[s]) \in Seq(Calls)
      BY <1>1, <2>3 DEF TrafficOK
    <3>4. TrafficOK'
      BY <1>1, <2>1, <3>2, <3>3 DEF TrafficOK
    <3>5. handled \subseteq handled' /\ \A r \in Servers : serving'[r] = serving[r] \/ serving'[r] \in handled'
      BY <1>1, <3>2 DEF TrafficOK
    <3>6. Handled' /\ Answers'
      BY <1>1, <1>2, <2>1, <3>5 DEF Handled, Answers
    <3> QED BY <3>4, <3>6 DEF TrafficInv
  <2> QED BY <2>2, <2>3
<1>5. CASE Reply(s)
  <2>1. /\ serving[s] # None /\ serving' = [serving EXCEPT ![s] = None]
        /\ UNCHANGED <<requests, handled>>
        /\ replies' = replies \/ replies' = Enqueue(replies, serving[s])
    BY <1>5 DEF Reply
  <2>2. PICK k \in Calls : k = serving[s]
    BY <1>1, <2>1 DEF TrafficOK
  <2>3. k \in handled
    BY <1>1, <2>1, <2>2 DEF Handled
  <2>4. replies' \in Seq(Calls) /\ \A i \in 1 .. Len(replies') : replies'[i] \in handled
    <3>1. CASE replies' = replies
      BY <1>1, <3>1 DEF TrafficOK, Handled
    <3>2. CASE replies' = Enqueue(replies, k)
      <4> DEFINE q == Enqueue(replies, k)
      <4>1. replies \in Seq(Calls)
        BY <1>1 DEF TrafficOK
      <4>2. q \in Seq(Calls) /\ \A i \in 1 .. Len(q) : q[i] = k \/ \E j \in 1 .. Len(replies) : q[i] = replies[j]
        BY <4>1, EnqueueKeeps
      <4> HIDE DEF q
      <4>3. \A i \in 1 .. Len(q) : q[i] \in handled
        BY <1>1, <2>3, <4>2 DEF Handled
      <4> QED BY <3>2, <4>2, <4>3 DEF q
    <3> QED BY <2>1, <2>2, <3>1, <3>2
  <2>5. TrafficOK'
    BY <1>1, <2>1, <2>4 DEF TrafficOK
  <2>6. Handled' /\ Answers'
    BY <1>1, <1>2, <2>1, <2>4 DEF TrafficOK, Handled, Answers
  <2> QED BY <2>5, <2>6 DEF TrafficInv
<1>6. CASE ServerClosed(s) \/ CrashServer(s)
  <2>1. /\ UNCHANGED <<replies, handled>> /\ requests' = [requests EXCEPT ![s] = << >>]
        /\ serving' = serving \/ serving' = [serving EXCEPT ![s] = None]
    BY <1>6 DEF ServerClosed, CrashServer
  <2>2. << >> \in Seq(Calls)
    OBVIOUS
  <2>3. TrafficOK'
    BY <1>1, <2>1, <2>2 DEF TrafficOK
  <2>4. Handled' /\ Answers'
    BY <1>1, <1>2, <2>1 DEF TrafficOK, Handled, Answers
  <2> QED BY <2>3, <2>4 DEF TrafficInv
<1> QED BY <1>3, <1>4, <1>5, <1>6 DEF ServerStep, StartServer, Heartbeat, ServePending, CheckPass,
           CloseServer, SayGoodbye, topics

\* Every step keeps the requests and replies those of calls that were made.
LEMMA TrafficStep == ASSUME CallsInv, TrafficInv, [Next]_vars PROVE TrafficInv'
<1> USE DEF client, topics, servers, vars
<1>0. CallsInv'
  BY PlacesStep
<1>1. ASSUME UNCHANGED <<done, batch, requests, replies, serving, handled>> PROVE TrafficInv'
  BY <1>1 DEF TrafficInv, TrafficOK, Handled, Answers
<1>2. CASE UNCHANGED vars
  BY <1>1, <1>2
<1>3. CASE Next
  <2>1. world' = world
    BY <1>3 DEF Next
  <2>2. ASSUME NEW k \in world.calls, StartStep(k) \/ DeadlinePasses(k) PROVE TrafficInv'
    <3>1. CASE DeadlinePasses(k)
      BY <1>1, <3>1 DEF DeadlinePasses
    <3> QED BY <1>0, <2>1, <2>2, <3>1, StartKeepsTraffic
  <2>3. CASE HeartbeatsStop \/ WatchService \/ CloseBegins \/ Discover
    BY <1>1, <2>3 DEF HeartbeatsStop, WatchService, CloseBegins, Discover
  <2>4. CASE CloseDrains
    <3>1. /\ UNCHANGED <<batch, requests, replies, serving, handled>>
          /\ done' = [k \in Calls |-> IF k \in pending THEN Append(done[k], "cancelled") ELSE done[k]]
      BY <2>4 DEF CloseDrains
    <3>2. \A k \in pending : Append(done[k], "cancelled") = <<"cancelled">>
      BY FirstResult DEF CallsInv, OnePlace, Results
    <3>3. <<"cancelled">> # <<"reply">>
      OBVIOUS
    <3>4. \A k \in Calls : done'[k] = done[k] \/ done'[k] # <<"reply">>
      BY <3>1, <3>2, <3>3
    <3>5. requests' \in [Servers -> Seq(Calls)]
      BY <3>1 DEF TrafficInv, TrafficOK
    <3> QED BY <1>0, <3>1, <3>4, <3>5, ClientKeepsTraffic
  <2>5. ASSUME NEW s \in Servers, ServerStep(s) PROVE TrafficInv'
    BY <1>0, <2>5, ServerKeepsTraffic
  <2> QED BY <1>0, <1>3, <2>2, <2>3, <2>4, <2>5, DispatchKeepsTraffic DEF Next
<1> QED BY <1>2, <1>3
-----------------------------------------------------------------------------
(* Who serves *)

\* A pass that a worker or a caller has is not the absence of one.
LEMMA PassesDiffer ==
  /\ NoPass \in Passes /\ Worker \in Passes /\ Worker # NoPass /\ Worker.by = "worker"
  /\ \A p \in Passes : p.checked \/ p.by \in {"worker", "caller"} => p # NoPass
BY ServiceAssumption DEF NoPass, Worker, Passes

\* Steps that begin, go on with or end a pass.
LEMMA PassKeepsServing ==
  ASSUME TrafficOK, ServersInv, NEW s \in Servers, ServePending(s) \/ CheckPass(s) \/ Serve(s) \/ Reply(s)
  PROVE  ServersInv'
<1>1. /\ srv \in [Servers -> Lives] /\ pass \in [Servers -> Passes]
      /\ closer \in [Servers -> {"thread", "handler", None}] /\ writer \in [Servers -> BOOLEAN]
      /\ serving \in [Servers -> Calls \cup {None}]
      /\ requests \in [Servers -> Seq(Calls)]
      /\ \A t \in Servers : Serves(t)
  BY DEF ServersInv, ServingOK, TrafficOK
<1>2. UNCHANGED <<srv, closer>>
  BY DEF ServePending, CheckPass, Serve, Reply
<1>3. CASE Reply(s)
  <2>1. /\ serving[s] # None /\ serving' = [serving EXCEPT ![s] = None] /\ pass' = pass
        /\ writer' = [writer EXCEPT ![s] = TRUE] \/ writer' = [writer EXCEPT ![s] = FALSE]
    BY <1>3 DEF Reply
  <2>2. writer' \in [Servers -> BOOLEAN] /\ \A t \in Servers \ {s} : writer'[t] = writer[t]
    BY <1>1, <2>1
  <2>3. \A t \in Servers : Serves(t)'
    <3>1. Serves(s)'
      BY <1>1, <1>2, <2>1 DEF Serves
    <3>2. \A t \in Servers \ {s} : Serves(t)'
      BY <1>1, <1>2, <2>1, <2>2 DEF Serves
    <3> QED BY <3>1, <3>2
  <2> QED BY <1>1, <1>2, <2>1, <2>2, <2>3 DEF ServersInv, ServingOK
<1>4. CASE ServePending(s) \/ CheckPass(s) \/ Serve(s)
  <2>1. writer' = writer
    BY <1>4 DEF ServePending, CheckPass, Serve
  <2>2. PICK p \in Passes :
          /\ pass' = [pass EXCEPT ![s] = p]
          /\ p = NoPass \/ p.by \in {"worker", "caller"}
          /\ serving' = serving \/ (p # NoPass /\ \E k : serving' = [serving EXCEPT ![s] = k])
          /\ serving[s] = None \/ p # NoPass
          /\ p # NoPass => srv[s] = "up" \/ pass[s] # NoPass
    <3>1. CASE ServePending(s)
      <4> DEFINE p == [left |-> Len(requests[s]), by |-> "caller", checked |-> FALSE]
      <4>1. Len(requests[s]) \in Int
        BY <1>1
      <4>2. p \in Passes /\ p.by = "caller"
        BY <4>1 DEF Passes
      <4>3. p # NoPass
        BY <4>2, PassesDiffer
      <4>4. pass' = [pass EXCEPT ![s] = p] /\ serving' = serving /\ srv[s] = "up"
        BY <3>1 DEF ServePending
      <4> HIDE DEF p
      <4> QED BY <4>2, <4>3, <4>4
    <3>2. CASE CheckPass(s)
      <4>1. pass[s] # NoPass /\ serving[s] = None /\ serving' = serving
        BY <3>2 DEF CheckPass
      <4>2. CASE pass' = [pass EXCEPT ![s] = NoPass]
        BY <4>1, <4>2, PassesDiffer
      <4>3. CASE pass' = [pass EXCEPT ![s].checked = TRUE]
        <5> DEFINE p == [pass[s] EXCEPT !.checked = TRUE]
        <5>1. pass' = [pass EXCEPT ![s] = p]
          BY <1>1, <4>3
        <5>2. pass[s] \in Passes /\ pass[s].by \in {"worker", "caller"}
          BY <1>1, <4>1 DEF Serves
        <5>3. p \in Passes /\ p.by = pass[s].by
          BY <5>2 DEF Passes
        <5> HIDE DEF p
        <5> QED BY <4>1, <5>1, <5>2, <5>3, PassesDiffer
      <4> QED BY <3>2, <4>2, <4>3 DEF CheckPass, LeavePass
    <3>3. CASE Serve(s)
      <4>1. serving[s] = None /\ pass[s].checked
        BY <3>3 DEF Serve
      <4>2. pass[s] # NoPass /\ pass[s] \in Passes /\ pass[s].by \in {"worker", "caller"}
        BY <1>1, <4>1, PassesDiffer DEF Serves
      <4>3. CASE requests[s] = << >>
        <5>1. /\ serving' = serving
              /\ pass' = [pass EXCEPT ![s] = IF @.by = "worker" THEN Worker ELSE NoPass]
          BY <3>3, <4>3 DEF Serve
        <5> QED BY <4>1, <4>2, <5>1, PassesDiffer
      <4>4. CASE requests[s] # << >>
        <5> DEFINE p == IF pass[s].by = "worker" THEN Worker
                        ELSE [left |-> pass[s].left - 1, by |-> pass[s].by, checked |-> FALSE]
        <5>1. /\ serving' = serving \/ \E k : serving' = [serving EXCEPT ![s] = k]
              /\ pass' = [pass EXCEPT ![s] = p]
          <6>1. serving' = serving \/ serving' = [serving EXCEPT ![s] = Head(requests[s])]
            BY <3>3, <4>4 DEF Serve
          <6>2. pass' = [pass EXCEPT ![s] = p]
            BY <3>3, <4>4 DEF Serve
          <6> QED BY <6>1, <6>2
        <5>2. p \in Passes /\ p.by \in {"worker", "caller"}
          <6>1. CASE pass[s].by = "worker"
            BY <6>1, PassesDiffer
          <6>2. CASE pass[s].by # "worker"
            <7>1. pass[s].left - 1 \in Int
              BY <4>2 DEF Passes
            <7> QED BY <4>2, <6>2, <7>1 DEF Passes
          <6> QED BY <6>1, <6>2
        <5> HIDE DEF p
        <5>3. p # NoPass
          BY <5>2, PassesDiffer
        <5> QED BY <4>2, <5>1, <5>2, <5>3
      <4> QED BY <4>3, <4>4
    <3> QED BY <1>4, <3>1, <3>2, <3>3
  <2>3. pass'[s] = p /\ \A t \in Servers \ {s} : pass'[t] = pass[t] /\ serving'[t] = serving[t]
    BY <1>1, <2>2
  <2>4. Serves(s)'
    <3>1. srv[s] = "down" \/ (srv[s] = "closed" /\ closer[s] = "thread") => pass'[s] = NoPass
      BY <1>1, <2>2, <2>3 DEF Serves
    <3>2. serving'[s] # None => pass'[s] # NoPass
      BY <1>1, <2>2, <2>3 DEF Serves
    <3> QED BY <1>1, <1>2, <2>1, <2>2, <2>3, <3>1, <3>2 DEF Serves
  <2>5. \A t \in Servers \ {s} : Serves(t)'
    BY <1>1, <1>2, <2>1, <2>3 DEF Serves
  <2>6. ServingOK'
    BY <1>1, <1>2, <2>1, <2>2 DEF ServingOK
  <2> QED BY <2>4, <2>5, <2>6 DEF ServersInv
<1> QED BY <1>3, <1>4

\* Steps in the life of a server.
LEMMA LifeKeepsServing ==
  ASSUME TrafficOK, ServersInv, NEW s \in Servers,
         \/ StartServer(s) \/ Heartbeat(s) \/ CloseServer(s) \/ SayGoodbye(s)
         \/ ServerClosed(s) \/ CrashServer(s)
  PROVE  ServersInv'
<1>1. /\ srv \in [Servers -> Lives] /\ pass \in [Servers -> Passes]
      /\ closer \in [Servers -> {"thread", "handler", None}] /\ writer \in [Servers -> BOOLEAN]
      /\ serving \in [Servers -> Calls \cup {None}]
      /\ \A t \in Servers : Serves(t)
  BY DEF ServersInv, ServingOK, TrafficOK
<1>2. CASE StartServer(s)
  <2>1. PICK p \in {Worker, NoPass} :
          /\ srv[s] = "down" /\ srv' = [srv EXCEPT ![s] = "up"]
          /\ pass' = [pass EXCEPT ![s] = p]
          /\ UNCHANGED <<closer, writer, serving>>
    BY <1>2 DEF StartServer
  <2>2. p \in Passes /\ (p = NoPass \/ p.by \in {"worker", "caller"}) /\ serving[s] = None
    BY <1>1, <2>1, PassesDiffer DEF Serves
  <2>3. ServingOK'
    BY <1>1, <2>1, <2>2 DEF ServingOK, Lives
  <2>4. Serves(s)'
    BY <1>1, <2>1, <2>2 DEF Serves
  <2>5. \A t \in Servers \ {s} : Serves(t)'
    BY <1>1, <2>1 DEF Serves
  <2> QED BY <2>3, <2>4, <2>5 DEF ServersInv
<1>3. CASE Heartbeat(s)
  <2>1. /\ srv[s] \in {"up", "closing"} /\ UNCHANGED <<srv, closer, pass, serving>>
        /\ writer' = writer \/ writer' = [writer EXCEPT ![s] = FALSE]
    BY <1>3 DEF Heartbeat, EvictIdleWriters
  <2>2. writer' \in [Servers -> BOOLEAN] /\ \A t \in Servers \ {s} : writer'[t] = writer[t]
    BY <1>1, <2>1
  <2>3. \A t \in Servers : Serves(t)'
    BY <1>1, <2>1, <2>2 DEF Serves
  <2> QED BY <1>1, <2>1, <2>2, <2>3 DEF ServersInv, ServingOK
<1>4. CASE CloseServer(s)
  <2>1. PICK by \in {"thread", "handler"} :
          /\ srv[s] = "up" /\ srv' = [srv EXCEPT ![s] = "closing"]
          /\ closer' = [closer EXCEPT ![s] = by] /\ UNCHANGED <<pass, writer, serving>>
    BY <1>4 DEF CloseServer
  <2>2. ServingOK'
    BY <1>1, <2>1 DEF ServingOK, Lives
  <2>3. Serves(s)'
    BY <1>1, <2>1 DEF Serves
  <2>4. \A t \in Servers \ {s} : Serves(t)'
    BY <1>1, <2>1 DEF Serves
  <2> QED BY <2>2, <2>3, <2>4 DEF ServersInv
<1>5. CASE SayGoodbye(s)
  <2>1. /\ srv[s] = "closing" /\ srv' = [srv EXCEPT ![s] = "gone"]
        /\ UNCHANGED <<closer, pass, writer, serving>>
    BY <1>5 DEF SayGoodbye, serve
  <2>2. ServingOK'
    BY <1>1, <2>1 DEF ServingOK, Lives
  <2>3. \A t \in Servers : Serves(t)'
    BY <1>1, <2>1 DEF Serves
  <2> QED BY <2>2, <2>3 DEF ServersInv
<1>6. CASE ServerClosed(s)
  <2>1. /\ srv' = [srv EXCEPT ![s] = "closed"] /\ writer' = [writer EXCEPT ![s] = FALSE]
        /\ pass[s] = NoPass \/ closer[s] = "handler"
        /\ UNCHANGED <<closer, pass, serving>>
    BY <1>6 DEF ServerClosed
  <2>2. ServingOK'
    BY <1>1, <2>1 DEF ServingOK, Lives
  <2>3. Serves(s)'
    BY <1>1, <2>1 DEF Serves
  <2>4. \A t \in Servers \ {s} : Serves(t)'
    BY <1>1, <2>1 DEF Serves
  <2> QED BY <2>2, <2>3, <2>4 DEF ServersInv
<1>7. CASE CrashServer(s)
  <2>1. /\ srv' = [srv EXCEPT ![s] = "dead"] /\ pass' = [pass EXCEPT ![s] = NoPass]
        /\ writer' = [writer EXCEPT ![s] = FALSE] /\ serving' = [serving EXCEPT ![s] = None]
        /\ closer' = closer
    BY <1>7 DEF CrashServer
  <2>2. ServingOK'
    BY <1>1, <2>1, PassesDiffer DEF ServingOK, Lives
  <2>3. Serves(s)'
    BY <1>1, <2>1 DEF Serves
  <2>4. \A t \in Servers \ {s} : Serves(t)'
    BY <1>1, <2>1 DEF Serves
  <2> QED BY <2>2, <2>3, <2>4 DEF ServersInv
<1> QED BY <1>2, <1>3, <1>4, <1>5, <1>6, <1>7

\* Only the servers' own steps concern who serves.
LEMMA ServingStep == ASSUME TrafficOK, ServersInv, [Next]_vars PROVE ServersInv'
<1> USE DEF servers, serve, vars
<1>1. ASSUME UNCHANGED servers PROVE ServersInv'
  BY <1>1 DEF ServersInv, ServingOK, Serves
<1>2. ASSUME NEW s \in Servers, ServerStep(s) PROVE ServersInv'
  BY <1>2, PassKeepsServing, LifeKeepsServing DEF ServerStep
<1>3. \/ UNCHANGED servers
      \/ \E s \in Servers : ServerStep(s)
  BY DEF Next, StartStep, AwaitServer, AwaitMatchWoken, WriteRequest, WriteFails, DeadlinePasses,
         DispatchStep, DispatchWakes, DispatchReply, DispatchExpires, DispatchRuns, HeartbeatsStop,
         WatchService, CloseBegins, CloseDrains, Discover
<1> QED BY <1>1, <1>2, <1>3
-----------------------------------------------------------------------------
(* What the client knows of the servers *)

Views == [instance : {NoServer} \cup Servers, fresh : BOOLEAN, withdrew : BOOLEAN]

\* The life of a server goes on: one that withdrew does not come back.
LEMMA WithdrawnStay ==
  ASSUME ServingOK, [Next]_vars, NEW s \in Servers, srv[s] \in Withdrawn
  PROVE  srv'[s] \in Withdrawn
<1>1. CASE srv' = srv
  BY <1>1
<1>2. ASSUME NEW t \in Servers, ServerStep(t) PROVE srv'[s] \in Withdrawn
  <2>1. srv \in [Servers -> Lives]
    BY DEF ServingOK
  <2>2. CASE StartServer(t) \/ CloseServer(t)
    BY <2>1, <2>2 DEF StartServer, CloseServer, Withdrawn
  <2>3. CASE SayGoodbye(t) \/ ServerClosed(t) \/ CrashServer(t)
    BY <2>1, <2>3 DEF SayGoodbye, ServerClosed, CrashServer, Withdrawn
  <2>4. CASE Heartbeat(t) \/ ServePending(t) \/ CheckPass(t) \/ Serve(t) \/ Reply(t)
    BY <2>4 DEF Heartbeat, ServePending, CheckPass, Serve, Reply
  <2> QED BY <1>2, <2>2, <2>3, <2>4 DEF ServerStep
<1>3. srv' = srv \/ \E t \in Servers : ServerStep(t)
  BY DEF Next, StartStep, AwaitServer, AwaitMatchWoken, WriteRequest, WriteFails, DeadlinePasses,
         DispatchStep, DispatchWakes, DispatchReply, DispatchExpires, DispatchRuns, HeartbeatsStop,
         WatchService, CloseBegins, CloseDrains, Discover, servers, vars
<1> QED BY <1>1, <1>2, <1>3

\* PollPresenceLocked: the view follows the newest presence, and forgets the
\* server it knew only for that one's goodbye.
LEMMA PollKeepsView ==
  ASSUME PresenceInv, PollPresence
  PROVE  view' \in Views /\ presence' = None /\ Withdraws
<1>1. view \in Views /\ presence' = None
  BY DEF PresenceInv, Views, PollPresence
<1>2. CASE presence = None
  BY <1>1, <1>2 DEF PollPresence, Withdraws
<1>3. ASSUME NEW s \in Servers, presence = Beat(s), presence # None PROVE view' \in Views /\ Withdraws
  <2>1. presence.instance = s /\ presence.offline = FALSE
    BY <1>3 DEF Beat
  <2>2. view' = [instance |-> s, fresh |-> TRUE, withdrew |-> FALSE]
    BY <1>3, <2>1 DEF PollPresence
  <2>3. s # NoServer
    BY ServiceAssumption DEF Servers, NoServer
  <2> QED BY <2>2, <2>3 DEF Views, Withdraws
<1>4. ASSUME NEW s \in Servers, presence = Goodbye(s), srv[s] \in Withdrawn, presence # None
      PROVE  view' \in Views /\ Withdraws
  <2>1. presence.instance = s /\ presence.offline = TRUE
    BY <1>4 DEF Goodbye
  <2>2. view' = IF s = view.instance THEN [instance |-> NoServer, fresh |-> FALSE, withdrew |-> TRUE]
                ELSE view
    BY <1>4, <2>1 DEF PollPresence
  <2>3. CASE s = view.instance
    BY <1>4, <2>2, <2>3 DEF Views, Withdraws, Withdrawn
  <2>4. CASE s # view.instance
    BY <1>1, <2>2, <2>4 DEF Withdraws
  <2> QED BY <2>3, <2>4
<1> QED BY <1>1, <1>2, <1>3, <1>4 DEF PresenceInv

\* Every step keeps what the client knows, and forgets a server only if it
\* withdrew.
LEMMA PresenceStep ==
  ASSUME ServingOK, PresenceInv, [Next]_vars PROVE PresenceInv' /\ Withdraws
<1> USE DEF client, topics, servers, serve, vars
<1>0. view \in Views
  BY DEF PresenceInv, Views
<1>1. ASSUME view' \in Views, presence' = presence \/ presence' = None PROVE PresenceInv'
  BY <1>1, WithdrawnStay DEF PresenceInv, Views
<1>2. ASSUME view' = view PROVE Withdraws
  BY <1>2 DEF Withdraws
<1>3. CASE view' = view /\ presence' = presence
  BY <1>0, <1>1, <1>2, <1>3
<1>4. CASE PollPresence
  BY <1>1, <1>4, PollKeepsView
<1>5. CASE HeartbeatsStop
  <2>1. view' = [view EXCEPT !.fresh = FALSE] /\ presence' = presence
    BY <1>5 DEF HeartbeatsStop
  <2>2. view' \in Views /\ view'.instance = view.instance
    BY <1>0, <2>1 DEF Views
  <2> QED BY <1>1, <2>1, <2>2 DEF Withdraws
<1>6. ASSUME NEW s \in Servers, ServerStep(s) PROVE PresenceInv' /\ Withdraws
  <2>1. view' = view
    BY <1>6 DEF ServerStep, StartServer, Heartbeat, ServePending, CheckPass, Serve, Reply,
         CloseServer, SayGoodbye, ServerClosed, CrashServer
  <2>2. CASE presence' = Beat(s)
    BY <1>0, <1>2, <2>1, <2>2 DEF PresenceInv, Views
  <2>3. CASE SayGoodbye(s)
    <3>1. presence' = Goodbye(s) /\ srv'[s] \in Withdrawn
      BY <2>3 DEF SayGoodbye, ServingOK, Withdrawn
    <3> QED BY <1>0, <1>2, <2>1, <3>1 DEF PresenceInv, Views
  <2>4. CASE presence' = presence
    BY <1>3, <2>1, <2>4
  <2> QED BY <1>6, <2>2, <2>3, <2>4 DEF ServerStep, StartServer, Heartbeat, ServePending, CheckPass,
           Serve, Reply, CloseServer, ServerClosed, CrashServer
<1>7. \/ view' = view /\ presence' = presence
      \/ PollPresence \/ HeartbeatsStop \/ \E s \in Servers : ServerStep(s)
  <2>1. ASSUME NEW k, StartStep(k) \/ DeadlinePasses(k)
        PROVE  (view' = view /\ presence' = presence) \/ PollPresence
    BY <2>1 DEF StartStep, AwaitServer, AwaitMatchWoken, WriteRequest, WriteFails, DeadlinePasses
  <2>2. CASE DispatchStep
    BY <2>2 DEF DispatchStep, DispatchWakes, DispatchReply, DispatchExpires, DispatchRuns
  <2>3. CASE WatchService \/ CloseBegins \/ CloseDrains \/ Discover \/ UNCHANGED vars
    BY <2>3 DEF WatchService, CloseBegins, CloseDrains, Discover
  <2> QED BY <2>1, <2>2, <2>3 DEF Next
<1> QED BY <1>3, <1>4, <1>5, <1>6, <1>7
-----------------------------------------------------------------------------
(* The theorems *)

\* Client::Create, before any server is started.
LEMMA ServiceInit == Init => ServiceInv
<1> SUFFICES ASSUME Init PROVE ServiceInv
  OBVIOUS
<1> USE DEF Init, ClientInit, ServersInit
<1>1. CallsInv
  <2>1. world.calls \subseteq Calls
    BY ServiceAssumption DEF World
  <2> QED BY <2>1 DEF CallsInv, CallsOK, OnePlace, Taken, Starting, Delivered
<1>2. TrafficInv
  <2>1. << >> \in Seq(Calls) /\ Len(<< >>) = 0 /\ << >> # <<"reply">>
    OBVIOUS
  <2>2. TrafficOK
    BY <2>1 DEF TrafficOK
  <2>3. Handled
    BY <2>1 DEF Handled
  <2>4. Answers
    BY <2>1 DEF Answers
  <2> QED BY <2>2, <2>3, <2>4 DEF TrafficInv
<1>3. ServersInv
  BY PassesDiffer DEF ServersInv, ServingOK, Serves, Lives
<1>4. PresenceInv
  BY DEF PresenceInv, NoServer
<1> QED BY <1>1, <1>2, <1>3, <1>4 DEF ServiceInv

\* The invariant of the services: where the calls are, what the topics carry,
\* who serves and what the client knows.
THEOREM ServiceInvariant == Spec => []ServiceInv
<1>1. ServiceInv /\ [Next]_vars => ServiceInv'
  BY PlacesStep, TrafficStep, ServingStep, PresenceStep DEF ServiceInv, TrafficInv, ServersInv
<1> QED BY <1>1, ServiceInit, PTL DEF Spec

\* "Completed exactly once": for any calls, worlds and servers, no callback is
\* given two results, and a reply only if the handler ran for that very call.
THEOREM CallsGetOneResult == Spec => []OneOwnResult
<1>1. ServiceInv => OneOwnResult
  <2> SUFFICES ASSUME ServiceInv PROVE OneOwnResult
    OBVIOUS
  <2>1. CallsOK /\ OnePlace /\ Answers
    BY DEF ServiceInv, CallsInv, TrafficInv
  <2>2. ASSUME NEW k \in Calls PROVE Len(done[k]) <= 1 /\ ("reply" \in ToSet(done[k]) => done[k] = <<"reply">>)
    <3>1. done[k] = << >> \/ \E r \in Results : done[k] = <<r>>
      BY <2>1 DEF CallsOK, Delivered
    <3>2. CASE done[k] = << >>
      BY <3>2 DEF ToSet
    <3>3. ASSUME NEW r \in Results, done[k] = <<r>>
          PROVE  Len(done[k]) <= 1 /\ ("reply" \in ToSet(done[k]) => done[k] = <<"reply">>)
      BY <3>3 DEF ToSet
    <3> QED BY <3>1, <3>2, <3>3
  <2>3. DoneOnce
    BY <2>1, <2>2 DEF DoneOnce, OnePlace, Taken
  <2>4. RepliesAnswerTheirCall
    BY <2>1, <2>2 DEF RepliesAnswerTheirCall, Answers
  <2> QED BY <2>3, <2>4 DEF OneOwnResult
<1> QED BY <1>1, ServiceInvariant, PTL

\* "The handler is never called after Close() returns" when a thread of the
\* program closes the server, and its reply writers are gone.
THEOREM ClosedServersAreQuiet == Spec => []ClosedServerQuiet
<1>1. ServiceInv => ClosedServerQuiet
  BY DEF ServiceInv, ServersInv, Serves, ClosedServerQuiet
<1> QED BY <1>1, ServiceInvariant, PTL

\* The client gives up the server it knows only if that instance stopped.
THEOREM OldGoodbyesDoNotMatter == Spec => OnlyCurrentWithdraws
<1>1. ServiceInv /\ [Next]_vars => [Withdraws]_vars
  BY PresenceStep DEF ServiceInv, ServersInv
<1> QED BY <1>1, ServiceInvariant, PTL DEF Spec, OnlyCurrentWithdraws
=============================================================================
