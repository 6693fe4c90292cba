---------------------------- MODULE ServiceCall -----------------------------
(***************************************************************************)
(* Request/reply calls over topics (service/service.cpp): a client with    *)
(* its dispatcher thread, the threads that call it and the one that closes *)
(* it, and successive instances of the server with their heartbeats and    *)
(* who serves: a worker of their own or a component that calls             *)
(* ServePending.  Each client action is one critical section of            *)
(* Client::Impl::mutex or one transport operation between two of them.     *)
(*                                                                         *)
(* Clocks are not modelled: a call's deadline passes, a wait gives up and  *)
(* the newest heartbeat grows stale at any moment.  Payloads are the call  *)
(* they belong to; a handler's error is a reply like any other.            *)
(***************************************************************************)
EXTENDS Naturals, Sequences, SequencesExt

CONSTANTS Calls,
          Instances,   \* bound: server instances 1 .. Instances, one after another
          Depth,       \* queue_depth of the request topic
          Worlds,      \* what a client meets
          None

\* The calls made, those of them made by a reply callback, on the dispatcher,
\* the number of server instances, whether request readers are known at once or
\* discovered later, who serves, and which ends may be closed.
World == [calls : SUBSET Calls, chained : SUBSET Calls, instances : 0 .. Instances,
          discovered : BOOLEAN, mode : {"own_thread", "caller"}, closes : SUBSET {"client", "server"}]

ASSUME ServiceAssumption ==
  /\ Instances \in Nat /\ Depth \in Nat \ {0}
  /\ Worlds \subseteq World
  /\ None \notin {"worker", "caller"}

Servers == 1 .. Instances
NoServer == 0

VARIABLES
  world,
  (* the client *)
  call,       \* [Calls -> where Start is, or "sent"]
  pending,    \* calls registered and not yet taken
  done,       \* [Calls -> the results its callback was given]
  late,       \* calls whose deadline has passed
  dpc,        \* the dispatcher's control point
  batch,      \* completions taken but not yet run: [call, result]
  view,       \* the server seen last: instance, fresh, withdrew
  closed, cpc,
  (* the topics *)
  matched,    \* MatchedReaderCount() of the request writer is not 0
  requests,   \* [Servers -> queue of each server's request reader]
  replies,    \* the client's reply queue
  presence,   \* newest presence message the client has not read
  (* the servers *)
  srv,        \* [Servers -> life cycle]
  closer,     \* [Servers -> who called Close: a thread or the handler]
  pass,       \* [Servers -> the serving loop entered: requests it may take, closed checked]
  writer,     \* [Servers -> a reply writer for the client is open]
  serving,    \* [Servers -> the request its worker's handler runs for]
  handled     \* history: the calls a handler was run for

client == <<call, pending, done, late, dpc, batch, view, closed, cpc>>
topics == <<matched, requests, replies, presence>>
serve == <<closer, pass, writer>>
servers == <<srv, serve, serving, handled>>
vars == <<world, client, topics, servers>>

\* Client::Create: the reply and presence readers, the request writer, then the
\* dispatcher.
ClientInit ==
  /\ call = [k \in Calls |-> "new"] /\ pending = {} /\ late = {}
  /\ done = [k \in Calls |-> << >>]
  /\ dpc = "wait" /\ batch = {}
  /\ view = [instance |-> NoServer, fresh |-> FALSE, withdrew |-> FALSE]
  /\ closed = FALSE /\ cpc = "open"

NoPass == [left |-> 0, by |-> None, checked |-> FALSE]
Worker == [left |-> Depth, by |-> "worker", checked |-> FALSE]

ServersInit ==
  /\ srv = [s \in Servers |-> "down"] /\ closer = [s \in Servers |-> None]
  /\ pass = [s \in Servers |-> NoPass] /\ writer = [s \in Servers |-> FALSE]
  /\ serving = [s \in Servers |-> None] /\ handled = {}

Init ==
  /\ world \in Worlds
  /\ ClientInit
  /\ matched = world.discovered
  /\ requests = [s \in Servers |-> << >>] /\ replies = << >> /\ presence = None
  /\ ServersInit
-----------------------------------------------------------------------------
(* Presence as the client sees it *)

\* Its process runs and its request reader is open.
Running(s) == srv[s] \in {"up", "closing", "gone"}

Beat(s) == [instance |-> s, offline |-> FALSE]
Goodbye(s) == [instance |-> s, offline |-> TRUE]

\* PollPresenceLocked: only the current server can withdraw itself.
Mut_PollPresence ==
  /\ view' = CASE presence = None -> view
               [] presence # None /\ presence.offline ->
                    [instance |-> NoServer, fresh |-> FALSE, withdrew |-> TRUE]
               [] OTHER -> [instance |-> presence.instance, fresh |-> TRUE, withdrew |-> FALSE]
  /\ presence' = None
PollPresence ==
  /\ view' = CASE presence = None -> view
               [] presence # None /\ presence.offline ->
                    IF presence.instance = view.instance
                    THEN [instance |-> NoServer, fresh |-> FALSE, withdrew |-> TRUE]
                    ELSE view
               [] OTHER -> [instance |-> presence.instance, fresh |-> TRUE, withdrew |-> FALSE]
  /\ presence' = None

\* LiveServerLocked, after it polled.
LiveServer == view'.instance # NoServer /\ view'.fresh

\* No heartbeat for a liveness window.
HeartbeatsStop ==
  /\ view.fresh
  /\ view' = [view EXCEPT !.fresh = FALSE]
  /\ UNCHANGED <<call, pending, done, late, dpc, batch, closed, cpc, topics, servers>>
\* A turn of WaitForService, or Server(): look who is there.
WatchService ==
  /\ ~closed
  /\ PollPresence
  /\ UNCHANGED <<call, pending, done, late, dpc, batch, closed, cpc, matched, requests, replies, servers>>
-----------------------------------------------------------------------------
(* Callers: Start, called by Call and CallAsync *)

Deliver(k, result) == done' = [done EXCEPT ![k] = Append(@, result)]
At(k, from, to) == call[k] \in from /\ call' = [call EXCEPT ![k] = to]

\* The calling thread may run: a chained call runs inside a callback.
MayRun(k) == k \in world.chained => dpc = "run"

\* Start returns without having registered the call.
Fails(k, result) ==
  /\ At(k, {"new", "await", "match"}, "over")
  /\ Deliver(k, result)
  /\ UNCHANGED <<pending>>

Registers(k) ==
  /\ At(k, {"new", "await", "match"}, "write")
  /\ pending' = pending \cup {k}
  /\ UNCHANGED done

\* Both waits end at the call's deadline, the first one perhaps sooner.
MayWait(k) == k \notin world.chained \cup late
Waits(k, loop) ==
  MayWait(k) /\ At(k, {"new", "await", "match"}, loop) /\ UNCHANGED <<pending, done>>

\* The second loop of AwaitServerLocked: is our request writer matched?
AwaitMatch(k) ==
  IF matched THEN Registers(k)
  ELSE IF closed THEN Fails(k, "cancelled")
  ELSE Waits(k, "match") \/ (~MayWait(k) /\ Fails(k, "unavailable"))

NoServerYet(k) ==
  \/ ~view'.withdrew /\ Waits(k, "await")
  \/ (view'.withdrew \/ ~MayWait(k) \/ call[k] = "await") /\ Fails(k, "unavailable")

\* Its first loop, entered and woken: is there a live server?
AwaitServer(k) ==
  /\ call[k] \in {"new", "await"} /\ MayRun(k)
  /\ IF closed THEN Fails(k, "cancelled") /\ UNCHANGED <<view, presence>>
     ELSE /\ PollPresence
          /\ IF LiveServer THEN AwaitMatch(k)
             ELSE NoServerYet(k)
  /\ UNCHANGED <<late, dpc, batch, closed, cpc, matched, requests, replies, servers>>

\* The wait of the second loop ends: it looks at the match before `closed`.
AwaitMatchWoken(k) ==
  /\ call[k] = "match"
  /\ AwaitMatch(k)
  /\ UNCHANGED <<late, dpc, batch, view, closed, cpc, topics, servers>>

\* The request reaches every running server's queue, which drops its oldest.
Enqueue(q, k) == LET full == Append(q, k) IN IF Len(full) > Depth THEN Tail(full) ELSE full

WriteRequest(k) ==
  /\ At(k, {"write"}, "sent")
  /\ requests' = [s \in Servers |-> IF matched /\ Running(s)
                                    THEN Enqueue(requests[s], k) ELSE requests[s]]
  /\ UNCHANGED <<pending, done, late, dpc, batch, view, closed, cpc, matched, replies, presence,
                 servers>>

\* The write failed: complete the call unless somebody did already.
WriteFails(k) ==
  /\ At(k, {"write"}, "over")
  /\ pending' = pending \ {k}
  /\ IF k \in pending THEN Deliver(k, "error") ELSE UNCHANGED done
  /\ UNCHANGED <<late, dpc, batch, view, closed, cpc, topics, servers>>

\* Once a call is over its deadline matters to a server that has its request
\* only: see OutOfTime.
DeadlinePasses(k) ==
  /\ call[k] # "new" /\ k \notin late /\ done[k] = << >>
  /\ late' = late \cup {k}
  /\ UNCHANGED <<call, pending, done, dpc, batch, view, closed, cpc, topics, servers>>
-----------------------------------------------------------------------------
(* The dispatcher *)

\* Take calls from pending into the batch of completions to run.
TakeInto(ks, result) ==
  /\ pending' = pending \ ks
  /\ batch' = batch \cup {[call |-> k, result |-> result] : k \in ks}

\* Woken by data, a deadline or the poll interval.
DispatchWakes ==
  /\ dpc = "wait"
  /\ IF closed THEN dpc' = "exited" /\ UNCHANGED <<view, presence>>
     ELSE dpc' = "read" /\ PollPresence
  /\ UNCHANGED <<call, pending, done, late, batch, closed, cpc, matched, requests, replies, servers>>

\* A reply is routed to its call; one whose call is over is dropped.
Mut_Answered(k) == IF pending = {} THEN {} ELSE {CHOOSE j \in pending : TRUE}
Answered(k) == pending \cap {k}

DispatchReply ==
  /\ dpc = "read" /\ replies # << >>
  /\ replies' = Tail(replies)
  /\ TakeInto(Answered(Head(replies)), "reply")
  /\ UNCHANGED <<call, done, late, dpc, view, closed, cpc, matched, requests, presence, servers>>

\* The queue is empty: expire calls, and leave the lock if there is work to do.
Expired == IF LiveServer THEN pending \cap late ELSE pending
DispatchExpires ==
  /\ dpc = "read" /\ replies = << >>
  /\ IF pending = {} THEN UNCHANGED <<view, presence, pending, batch>>
     ELSE PollPresence /\ TakeInto(Expired, IF LiveServer THEN "deadline" ELSE "unavailable")
  /\ dpc' = IF batch' = {} THEN "wait" ELSE "run"
  /\ UNCHANGED <<call, done, late, closed, cpc, matched, requests, replies, servers>>

\* A callback is running while a chained call is inside Start or Close is
\* called from it.
InCallback == cpc = "drain_self" \/ \E k \in world.chained : call[k] = "write"

DispatchRuns ==
  /\ dpc = "run" /\ ~InCallback
  /\ \/ \E c \in batch : Deliver(c.call, c.result) /\ batch' = batch \ {c} /\ UNCHANGED dpc
     \/ batch = {} /\ dpc' = "wait" /\ UNCHANGED <<batch, done>>
  /\ UNCHANGED <<call, pending, late, view, closed, cpc, topics, servers>>
-----------------------------------------------------------------------------
(* Close, from a thread of the program or from a reply callback *)

CloseBegins ==
  /\ cpc = "open" /\ "client" \in world.closes
  /\ closed' = TRUE
  /\ cpc' = "join" \/ (dpc = "run" /\ ~InCallback /\ cpc' = "drain_self")
  /\ UNCHANGED <<call, pending, done, late, dpc, batch, view, topics, servers>>

\* The dispatcher is joined, or is this thread: cancel what is left.
Mut_CloseDrains ==
  /\ cpc = "drain_self" \/ (cpc = "join" /\ dpc = "exited")
  /\ cpc' = "closed"
  /\ pending' = {}
  /\ UNCHANGED <<call, done, late, dpc, batch, view, closed, topics, servers>>
CloseDrains ==
  /\ cpc = "drain_self" \/ (cpc = "join" /\ dpc = "exited")
  /\ cpc' = "closed"
  /\ pending' = {}
  /\ done' = [k \in Calls |-> IF k \in pending THEN Append(done[k], "cancelled") ELSE done[k]]
  /\ UNCHANGED <<call, late, dpc, batch, view, closed, topics, servers>>
-----------------------------------------------------------------------------
(* Servers *)

\* Create: a volatile reader, then the first heartbeat.  The supervisor starts a
\* new instance once the last one has died or is on its way out.  A server with a
\* thread of its own serves from now on.
StartServer(s) ==
  /\ s <= world.instances /\ srv[s] = "down"
  /\ \A r \in Servers : r < s => srv[r] \notin {"down", "up"}
  /\ srv' = [srv EXCEPT ![s] = "up"]
  /\ presence' = Beat(s)
  /\ pass' = [pass EXCEPT ![s] = IF world.mode = "own_thread" THEN Worker ELSE NoPass]
  /\ UNCHANGED <<client, matched, requests, replies, closer, writer, serving, handled>>

\* A client not replied to for a while loses its reply writer.
EvictIdleWriters(s) == writer' = [writer EXCEPT ![s] = FALSE]

\* A heartbeat, and then the eviction, skipped while a reply is being sent.
Heartbeat(s) ==
  /\ srv[s] \in {"up", "closing"}
  /\ presence' = Beat(s)
  /\ EvictIdleWriters(s) \/ UNCHANGED writer
  /\ UNCHANGED <<client, matched, requests, replies, srv, closer, pass, serving, handled>>

\* Discovery matches the request writer with a running server, or notices that
\* there is none left.
Discover ==
  /\ ~world.discovered
  /\ matched' = (\E s \in Servers : Running(s))
  /\ UNCHANGED <<client, requests, replies, presence, servers>>

IsClosed(s) == srv[s] # "up"

\* A component calls ServePending, which takes what is queued now.
ServePending(s) ==
  /\ world.mode = "caller" /\ srv[s] = "up" /\ pass[s] = NoPass
  /\ pass' = [pass EXCEPT ![s] = [left |-> Len(requests[s]), by |-> "caller", checked |-> FALSE]]
  /\ UNCHANGED <<client, topics, srv, closer, writer, serving, handled>>

LeavePass(s) == pass' = [pass EXCEPT ![s] = NoPass]

\* Before each request: stop when closed or when the budget is used up.
CheckPass(s) ==
  /\ pass[s] # NoPass /\ serving[s] = None /\ ~pass[s].checked
  /\ IF IsClosed(s) \/ pass[s].left = 0 THEN LeavePass(s)
     ELSE pass' = [pass EXCEPT ![s].checked = TRUE]
  /\ UNCHANGED <<client, topics, srv, closer, writer, serving, handled>>

\* Its deadline has passed, or may have since the call was over.
OutOfTime(k) == k \in late \/ done[k] # << >>

\* Take the oldest request; one out of time is dropped unhandled.  The worker
\* waits for more when there is none.
Serve(s) ==
  /\ pass[s].checked /\ serving[s] = None
  /\ IF requests[s] = << >>
     THEN /\ pass' = [pass EXCEPT ![s] = IF @.by = "worker" THEN Worker ELSE NoPass]
          /\ UNCHANGED <<requests, serving, handled>>
     ELSE /\ requests' = [requests EXCEPT ![s] = Tail(@)]
          /\ pass' = [pass EXCEPT ![s] = IF @.by = "worker" THEN Worker
                                         ELSE [left |-> @.left - 1, by |-> @.by, checked |-> FALSE]]
          /\ LET k == Head(requests[s])
             IN  \/ serving' = [serving EXCEPT ![s] = k] /\ handled' = handled \cup {k}
                 \/ OutOfTime(k) /\ UNCHANGED <<serving, handled>>
  /\ UNCHANGED <<client, matched, replies, presence, srv, closer, writer>>

\* The handler called Close, which has not returned.
InClose(s) == closer[s] = "handler" /\ srv[s] # "closed"

\* The handler returned: its reply goes through the client's reply writer, opened
\* on the first reply, or is dropped when the client's topic is gone, was not
\* matched in time or refuses it; then the writer is forgotten.
Reply(s) ==
  /\ serving[s] # None /\ ~InClose(s)
  /\ serving' = [serving EXCEPT ![s] = None]
  /\ \/ /\ cpc # "closed"
        /\ replies' = Enqueue(replies, serving[s])
        /\ writer' = [writer EXCEPT ![s] = TRUE]
     \/ writer' = [writer EXCEPT ![s] = FALSE] /\ UNCHANGED replies
  /\ UNCHANGED <<client, matched, requests, presence, srv, closer, pass, handled>>

\* Close, from a thread of the program or, when a component serves, from the
\* handler.
CloseServer(s) ==
  /\ srv[s] = "up" /\ "server" \in world.closes
  /\ srv' = [srv EXCEPT ![s] = "closing"]
  /\ \E by \in {"thread"} \cup (IF world.mode = "caller" /\ serving[s] # None THEN {"handler"} ELSE {}) :
       closer' = [closer EXCEPT ![s] = by]
  /\ UNCHANGED <<client, topics, pass, writer, serving, handled>>

\* The heartbeat thread is joined: say goodbye.
SayGoodbye(s) ==
  /\ srv[s] = "closing"
  /\ srv' = [srv EXCEPT ![s] = "gone"]
  /\ presence' = Goodbye(s)
  /\ UNCHANGED <<client, matched, requests, replies, serve, serving, handled>>

\* Wait for who serves, unless this is its handler, and release the reply writers.
Mut_ServerClosed(s) ==
  /\ srv[s] = "gone"
  /\ world.mode = "own_thread" => pass[s] = NoPass
  /\ srv' = [srv EXCEPT ![s] = "closed"]
  /\ writer' = [writer EXCEPT ![s] = FALSE]
  /\ requests' = [requests EXCEPT ![s] = << >>]
  /\ UNCHANGED <<client, matched, replies, presence, closer, pass, serving, handled>>
ServerClosed(s) ==
  /\ srv[s] = "gone"
  /\ pass[s] = NoPass \/ closer[s] = "handler"
  /\ srv' = [srv EXCEPT ![s] = "closed"]
  /\ writer' = [writer EXCEPT ![s] = FALSE]
  /\ requests' = [requests EXCEPT ![s] = << >>]
  /\ UNCHANGED <<client, matched, replies, presence, closer, pass, serving, handled>>

CrashServer(s) ==
  /\ Running(s)
  /\ srv' = [srv EXCEPT ![s] = "dead"]
  /\ pass' = [pass EXCEPT ![s] = NoPass]
  /\ writer' = [writer EXCEPT ![s] = FALSE]
  /\ serving' = [serving EXCEPT ![s] = None]
  /\ requests' = [requests EXCEPT ![s] = << >>]
  /\ UNCHANGED <<client, matched, replies, presence, closer, handled>>
-----------------------------------------------------------------------------
StartStep(k) == AwaitServer(k) \/ AwaitMatchWoken(k) \/ WriteRequest(k) \/ WriteFails(k)
DispatchStep == DispatchWakes \/ DispatchReply \/ DispatchExpires \/ DispatchRuns
ServerStep(s) ==
  \/ StartServer(s) \/ Heartbeat(s) \/ ServePending(s) \/ CheckPass(s) \/ Serve(s) \/ Reply(s)
  \/ CloseServer(s) \/ SayGoodbye(s) \/ ServerClosed(s) \/ CrashServer(s)

Next ==
  /\ UNCHANGED world
  /\ \/ \E k \in world.calls : StartStep(k) \/ DeadlinePasses(k)
     \/ DispatchStep \/ HeartbeatsStop \/ WatchService \/ CloseBegins \/ CloseDrains
     \/ \E s \in Servers : ServerStep(s)
     \/ Discover

Spec == Init /\ [][Next]_vars

\* The client's threads run and time passes: a Start that began goes on (its
\* waits are timed), the dispatcher loops, a Close that began goes on.  Nothing
\* is assumed of the servers, and nobody has to call or close.
FairSpec ==
  /\ Spec
  /\ \A k \in Calls : /\ WF_vars(UNCHANGED world /\ call[k] # "new" /\ StartStep(k))
                      /\ WF_vars(UNCHANGED world /\ DeadlinePasses(k))
  /\ WF_vars(UNCHANGED world /\ DispatchStep)
  /\ WF_vars(UNCHANGED world /\ CloseDrains)
-----------------------------------------------------------------------------
(* Properties *)

\* "Completed exactly once": no callback is invoked twice, and none is still to
\* come for a call that has its result - whatever of reply, deadline, dead
\* server, failed write and Close reach for it at the same time.
DoneOnce ==
  /\ \A k \in Calls : Len(done[k]) <= 1
  /\ \A c \in batch : done[c.call] = << >> /\ c.call \notin pending
  /\ \A k \in pending : done[k] = << >>

\* A call succeeds only if a handler ran for that very call: a late reply to an
\* abandoned call never answers a later one.
RepliesAnswerTheirCall ==
  \A k \in Calls : "reply" \in ToSet(done[k]) => k \in handled

\* A call's callback gets one result, and its own.
OneOwnResult == DoneOnce /\ RepliesAnswerTheirCall

\* A client gives up the server it knows at once only if that instance stopped;
\* the goodbye of an older one does not matter.
Withdraws == view.instance # NoServer /\ view'.instance = NoServer => srv[view.instance] \in {"gone", "closed", "dead"}
OnlyCurrentWithdraws == [][Withdraws]_vars

\* Every call that is made gets its result, from the server, the clock or Close.
\* Where request readers are discovered late it does not hold: a call that waits
\* for its match across Close looks at the match before `closed`, and may be
\* registered after Close has drained the calls.
EveryCallCompletes ==
  \A k \in Calls : world.discovered /\ call[k] # "new" ~> done[k] # << >>

\* "The handler is never called after Close() returns" (service.h), and the
\* reply topics of its clients are let go of: whoever serves when Close is called
\* from a thread of the program, a pass that looked at `closed` before included.
ClosedServerQuiet ==
  \A s \in Servers :
    srv[s] = "closed" /\ closer[s] = "thread" => pass[s] = NoPass /\ serving[s] = None /\ ~writer[s]
=============================================================================
