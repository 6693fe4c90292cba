------------------------- MODULE ApplicationProofs --------------------------
(***************************************************************************)
(* Proofs about Application for any applications and projects: callbacks   *)
(* run alone and find the transports open, and whoever tears an            *)
(* application down does so once, in reverse order and completely.         *)
(*                                                                         *)
(* One thread at a time is busy with the components: the owner in Start,   *)
(* while the phase is not running, or the one that found it running in     *)
(* Stop.  The rest follows from where that thread is.                      *)
(***************************************************************************)
EXTENDS Application, TLAPS

States == {"unregistered", "created", "configured", "initialized", "started", "stopped", "error", "shutdown"}

\* What a thread does to the components: brings them up, lets the scheduler run
\* them, tears them down.
Starting == {"configure", "initialize", "start"}
Serving == {"sched", "up", "sched_stop", "drain"}
Tearing == {"visit", "stop", "shutdown", "torn"}
Busy == Starting \cup Serving \cup Tearing
Points == Busy \cup {"create", "own", "dead", "idle", "install", "handle", "join", "release", "stopping", "waiting"}

\* A context and its transports.
Transport(tr) == tr.open \in BOOLEAN /\ tr = [kind |-> tr.kind, open |-> tr.open]
Context(rt) ==
  /\ rt.open \in BOOLEAN /\ rt = [open |-> rt.open, transports |-> rt.transports]
  /\ \A n \in Names(rt) : Transport(rt.transports[n])
AllOpen(rt) == rt.open /\ \A n \in Names(rt) : rt.transports[n].open
AllClosed(rt) == \A n \in Names(rt) : ~rt.transports[n].open

TypeOK ==
  /\ project \in [Apps -> Projects]
  /\ phase \in [Apps -> {"created", "running", "stopped"}]
  /\ runtime = [a \in Apps |-> runtime[a]]
  /\ state = [a \in Apps |-> state[a]]
  /\ pc \in [Apps -> [Threads -> Points]] /\ idx \in [Apps -> [Threads -> Nat]]
  /\ goal \in [Apps -> {"none", "start", "run", "stop", "destroy"}]
  /\ sched \in [Apps -> {"off", "starting", "on", "draining"}]
  /\ queued = [a \in Apps |-> queued[a]] /\ executing = [a \in Apps |-> executing[a]]
  /\ ended \in [Apps -> Seq(Nat)]

ValuesOK(a) ==
  /\ Context(runtime[a])
  /\ state[a] \in [Comps(a) -> States]

IsBusy(a, t) == pc[a][t] \in Busy
NoneBusy(a) == \A t \in Threads : ~IsBusy(a, t)

\* Who may be busy, and in which phase.
ThreadsOK(a) ==
  /\ \A t \in Threads : IsBusy(a, t) => phase[a] # "running" /\ \A u \in Threads \ {t} : ~IsBusy(a, u)
  /\ IsBusy(a, "helper") => phase[a] = "stopped"
  /\ IsBusy(a, "owner") => phase[a] = "stopped" \/ goal[a] \in {"start", "run"}
  /\ pc[a]["owner"] \in {"create", "own", "dead"} \/ goal[a] = "destroy" => pc[a]["helper"] \in {"idle", "dead"}
  /\ pc[a]["owner"] \in {"create", "own"} => phase[a] = "created"
  /\ pc[a]["owner"] = "dead" => phase[a] # "running"

\* The scheduler runs only while the application does, or a thread is at it.
SchedulerOK(a) ==
  /\ sched[a] = "off" => queued[a] = {} /\ executing[a] = {}
  /\ sched[a] # "off" => phase[a] = "running" \/ \E t \in Threads : pc[a][t] \in Serving

\* The transports are open until the teardown of Stop is over.
TransportsOK(a) ==
  /\ pc[a]["owner"] \notin {"create", "dead"} /\ (phase[a] # "stopped" \/ ~NoneBusy(a)) => AllOpen(runtime[a])
  /\ pc[a]["owner"] = "dead" => AllClosed(runtime[a])

Ended(a, i) == \E k \in 1 .. Len(ended[a]) : ended[a][k] = i
Untouched(a, i) == state[a][i] \in {"unregistered", "created"}
Done(a, i) == Untouched(a, i) \/ Ended(a, i)

\* The components after i are done with, and only they were shut down.
Passed(a, i) ==
  /\ \A k \in 1 .. Len(ended[a]) : ended[a][k] > i
  /\ \A j \in Comps(a) : j > i => Done(a, j)

\* How far a busy thread has come.
Progress(a, t) ==
  /\ pc[a][t] \in Starting \cup Serving => ended[a] = << >>
  /\ pc[a][t] \in Starting =>
       idx[a][t] \in Comps(a) /\ \A j \in Comps(a) : j > idx[a][t] => Untouched(a, j)
  /\ pc[a][t] \in {"visit", "stop", "shutdown"} => idx[a][t] \in 0 .. Size(a) /\ Passed(a, idx[a][t])
  /\ pc[a][t] \in {"stop", "shutdown"} => idx[a][t] # 0
  /\ pc[a][t] = "stop" => state[a][idx[a][t]] = "started"
  /\ pc[a][t] = "shutdown" => state[a][idx[a][t]] \notin {"started", "shutdown"}
  /\ pc[a][t] = "torn" => Passed(a, 0)

\* What nobody is busy with is as it was, runs, or is torn down.
Settled(a) ==
  /\ phase[a] = "running" => ended[a] = << >>
  /\ NoneBusy(a) /\ phase[a] = "created" => ended[a] = << >> /\ \A j \in Comps(a) : Untouched(a, j)
  /\ NoneBusy(a) /\ phase[a] = "stopped" => \A j \in Comps(a) : Done(a, j)

\* Who is shut down had its Shutdown, and the Shutdowns come in reverse order.
Orderly(a) ==
  /\ \A j \in Comps(a) : state[a][j] = "shutdown" => Ended(a, j)
  /\ \A j, k \in 1 .. Len(ended[a]) : j < k => ended[a][j] > ended[a][k]

AppOK(a) ==
  /\ ValuesOK(a) /\ ThreadsOK(a) /\ SchedulerOK(a) /\ TransportsOK(a) /\ Settled(a) /\ Orderly(a)
  /\ \A t \in Threads : Progress(a, t)

ApplicationInv == TypeOK /\ \A a \in Apps : AppOK(a)
-----------------------------------------------------------------------------
(* Contexts *)

\* The empty context has no transports.
LEMMA EmptyIsContext == Context(EmptyContext)
<1>1. EmptyContext.transports = << >> /\ EmptyContext.open = FALSE
  BY DEF EmptyContext
<1>2. DOMAIN EmptyContext.transports = {}
  BY <1>1
<1> QED BY <1>1, <1>2 DEF Context, Names, EmptyContext

\* A transport, and a context with all of its transports, opened or closed.
SwitchOne(tr, b) == [tr EXCEPT !.open = b]
Switch(rt, b) ==
  [open |-> b, transports |-> [n \in Names(rt) |-> [rt.transports[n] EXCEPT !.open = b]]]

\* A transport that is opened or closed.
LEMMA Switched ==
  ASSUME NEW tr, Transport(tr), NEW b \in BOOLEAN
  PROVE  Transport(SwitchOne(tr, b)) /\ SwitchOne(tr, b).open = b
<1> DEFINE new == SwitchOne(tr, b)
<1>1. new = [kind |-> tr.kind, open |-> b]
  BY DEF Transport, SwitchOne
<1> HIDE DEF new
<1>2. new.kind = tr.kind /\ new.open = b
  BY <1>1
<1>3. Transport(new)
  BY <1>1, <1>2 DEF Transport
<1> QED BY <1>2, <1>3 DEF new

\* Open and Close switch the context and each of its transports.
LEMMA AllSwitched ==
  ASSUME NEW rt, Context(rt), NEW b \in BOOLEAN
  PROVE  /\ Context(Switch(rt, b)) /\ Switch(rt, b).open = b
         /\ \A n \in Names(Switch(rt, b)) : Switch(rt, b).transports[n].open = b
<1> DEFINE new == Switch(rt, b)
           all == [n \in Names(rt) |-> [rt.transports[n] EXCEPT !.open = b]]
<1>1. DOMAIN all = Names(rt)
  OBVIOUS
<1>2. \A n \in Names(rt) : all[n] = SwitchOne(rt.transports[n], b)
  BY DEF SwitchOne
<1>3. new = [open |-> b, transports |-> all]
  BY DEF Switch
<1> HIDE DEF all, new
<1>4. \A n \in Names(rt) : Transport(all[n]) /\ all[n].open = b
  BY <1>2, Switched DEF Context
<1>5. new.open = b /\ new.transports = all
  BY <1>3
<1>6. Names(new) = Names(rt)
  BY <1>1, <1>5 DEF Names
<1>7. Context(new) /\ \A n \in Names(new) : new.transports[n].open = b
  BY <1>3, <1>4, <1>5, <1>6 DEF Context
<1> QED BY <1>5, <1>7 DEF new

\* Close leaves a context whose transports are closed.
LEMMA ClosedContext == ASSUME NEW rt, Context(rt) PROVE Context(Close(rt)) /\ AllClosed(Close(rt))
<1>1. Close(rt) = Switch(rt, FALSE)
  BY DEF Close, Switch
<1>2. \A n \in Names(Close(rt)) : Close(rt).transports[n].open = FALSE
  BY <1>1, AllSwitched
<1> QED BY <1>1, <1>2, AllSwitched DEF AllClosed

\* RegisterTransport registers an open transport with an open context.
LEMMA RegisteredContext ==
  ASSUME NEW rt, Context(rt), NEW transport, NEW opens \in BOOLEAN, NEW works \in BOOLEAN,
         NEW result, result = RegisterTransport(rt, transport, opens, works)
  PROVE  /\ result.ok \in BOOLEAN
         /\ Context(result.rt)
         /\ AllOpen(rt) => AllOpen(result.rt)
<1> DEFINE opened == rt.open \/ opens
           registered == [n \in Names(rt) \cup {transport.name} |->
                            IF n = transport.name THEN [kind |-> transport.kind, open |-> opened]
                            ELSE rt.transports[n]]
<1>1. CASE result = Failed(rt)
  <2>1. result.rt = rt /\ result.ok = FALSE
    BY <1>1 DEF Failed
  <2> QED BY <2>1
<1>2. CASE result = Ok([rt EXCEPT !.transports = registered])
  <2> DEFINE new == [rt EXCEPT !.transports = registered]
             first == [kind |-> transport.kind, open |-> opened]
  <2>1. result.rt = new /\ result.ok = TRUE
    BY <1>2 DEF Ok
  <2>2. DOMAIN registered = Names(rt) \cup {transport.name}
    OBVIOUS
  <2>3. \A n \in Names(rt) : n # transport.name => registered[n] = rt.transports[n]
    OBVIOUS
  <2>4. registered[transport.name] = first
    OBVIOUS
  <2> HIDE DEF registered
  <2>5. new = [open |-> rt.open, transports |-> registered]
    BY DEF Context
  <2>6. new.open = rt.open /\ new.transports = registered
    BY <2>5
  <2> HIDE DEF new
  <2>7. Names(new) = Names(rt) \cup {transport.name}
    BY <2>2, <2>6 DEF Names
  <2>8. opened \in BOOLEAN /\ (rt.open => opened)
    BY DEF Context
  <2> HIDE DEF opened
  <2>9. first.kind = transport.kind /\ first.open = opened
    OBVIOUS
  <2>10. Transport(first)
    BY <2>8, <2>9 DEF Transport
  <2> HIDE DEF first
  <2>11. \A n \in Names(new) : Transport(new.transports[n])
    BY <2>3, <2>4, <2>6, <2>7, <2>10 DEF Context
  <2>12. Context(new)
    BY <2>5, <2>6, <2>11 DEF Context
  <2>13. AllOpen(rt) => AllOpen(new)
    <3> SUFFICES ASSUME AllOpen(rt) PROVE AllOpen(new)
      OBVIOUS
    <3>1. first.open
      BY <2>8, <2>9 DEF AllOpen
    <3>2. \A n \in Names(new) : new.transports[n].open
      BY <2>3, <2>4, <2>6, <2>7, <3>1 DEF AllOpen
    <3> QED BY <2>6, <3>2 DEF AllOpen
  <2> QED BY <2>1, <2>12, <2>13
<1>3. result = Failed(rt) \/ result = Ok([rt EXCEPT !.transports = registered])
  BY DEF RegisterTransport
<1> HIDE DEF registered
<1> QED BY <1>1, <1>2, <1>3

\* Open opens everything, or fails.
LEMMA OpenedContext ==
  ASSUME NEW options, options.opens \in BOOLEAN, NEW works \in BOOLEAN,
         NEW result, result = Open(EmptyContext, options, works)
  PROVE  /\ result.ok \in BOOLEAN
         /\ Context(result.rt)
         /\ result.ok => AllOpen(result.rt)
<1> DEFINE ensured == EnsureDefaultTransports(EmptyContext, options, works)
           names == Names(ensured.rt)
           all == [n \in names |-> [ensured.rt.transports[n] EXCEPT !.open = TRUE]]
<1>1. ensured.ok \in BOOLEAN /\ Context(ensured.rt)
  <2>1. CASE ensured = Ok(EmptyContext)
    <3>1. ensured.ok = TRUE /\ ensured.rt = EmptyContext
      BY <2>1 DEF Ok
    <3> QED BY <3>1, EmptyIsContext
  <2>2. CASE ensured = RegisterTransport(EmptyContext, [name |-> options.name, kind |-> "inmemory"], options.opens, works)
    <3> HIDE DEF ensured
    <3> QED BY <2>2, EmptyIsContext, RegisteredContext
  <2> QED BY <2>1, <2>2 DEF EnsureDefaultTransports
<1>2. \/ result = ensured /\ ~ensured.ok
      \/ result = Failed(ensured.rt)
      \/ result = Ok([open |-> TRUE, transports |-> all])
  BY DEF Open
<1> HIDE DEF ensured
<1>3. CASE result = ensured /\ ~ensured.ok
  BY <1>1, <1>3
<1>4. CASE result = Failed(ensured.rt)
  <2>1. result.ok = FALSE /\ result.rt = ensured.rt
    BY <1>4 DEF Failed
  <2> QED BY <1>1, <2>1
<1>5. CASE result = Ok([open |-> TRUE, transports |-> all])
  <2>1. [open |-> TRUE, transports |-> all] = Switch(ensured.rt, TRUE)
    BY DEF Switch
  <2> HIDE DEF all
  <2>2. result.ok = TRUE /\ result.rt = Switch(ensured.rt, TRUE)
    BY <1>5, <2>1 DEF Ok
  <2>3. /\ Context(Switch(ensured.rt, TRUE)) /\ Switch(ensured.rt, TRUE).open = TRUE
        /\ \A n \in Names(Switch(ensured.rt, TRUE)) : Switch(ensured.rt, TRUE).transports[n].open = TRUE
    BY <1>1, AllSwitched
  <2> QED BY <2>2, <2>3 DEF AllOpen
<1> QED BY <1>2, <1>3, <1>4, <1>5
-----------------------------------------------------------------------------
(* Steps of one application *)

\* Nothing of application a changes.
Same(a) ==
  /\ project'[a] = project[a] /\ phase'[a] = phase[a] /\ runtime'[a] = runtime[a]
  /\ state'[a] = state[a] /\ pc'[a] = pc[a] /\ idx'[a] = idx[a] /\ goal'[a] = goal[a]
  /\ sched'[a] = sched[a] /\ queued'[a] = queued[a] /\ executing'[a] = executing[a]
  /\ ended'[a] = ended[a]

\* An application that nothing happens to keeps its invariant.
LEMMA SameApp == ASSUME NEW a \in Apps, AppOK(a), Same(a) PROVE AppOK(a)'
<1>1. Size(a)' = Size(a) /\ Comps(a)' = Comps(a)
  BY DEF Same, Size, Comps
<1>2. ValuesOK(a)' /\ ThreadsOK(a)' /\ SchedulerOK(a)' /\ TransportsOK(a)'
  BY <1>1 DEF AppOK, Same, ValuesOK, ThreadsOK, SchedulerOK, TransportsOK, IsBusy, NoneBusy
<1>3. Settled(a)' /\ Orderly(a)'
  BY <1>1 DEF AppOK, Same, Settled, Orderly, NoneBusy, IsBusy, Done, Untouched, Ended
<1>4. \A t \in Threads : Progress(a, t)'
  BY <1>1 DEF AppOK, Same, Progress, Passed, Done, Untouched, Ended
<1> QED BY <1>2, <1>3, <1>4 DEF AppOK

\* A step of application a.
LEMMA OthersSame ==
  ASSUME ApplicationInv, TypeOK', NEW a \in Apps, \A b \in Apps \ {a} : Same(b), AppOK(a)'
  PROVE  ApplicationInv'
<1>1. \A b \in Apps \ {a} : AppOK(b)'
  BY SameApp DEF ApplicationInv
<1> QED BY <1>1 DEF ApplicationInv

\* A thread of application a goes to p.
LEMMA GoesTo ==
  ASSUME TypeOK, NEW a \in Apps, NEW t \in Threads, NEW p \in Points, GoTo(a, t, p)
  PROVE  /\ pc' \in [Apps -> [Threads -> Points]]
         /\ pc'[a][t] = p
         /\ \A u \in Threads \ {t} : pc'[a][u] = pc[a][u]
         /\ \A b \in Apps \ {a} : pc'[b] = pc[b]
<1>1. pc \in [Apps -> [Threads -> Points]]
  BY DEF TypeOK
<1> QED BY <1>1 DEF GoTo

\* A thread of application a goes to p of component i.
LEMMA GoesAt ==
  ASSUME TypeOK, NEW a \in Apps, NEW t \in Threads, NEW p \in Points, NEW i \in Nat, At(a, t, p, i)
  PROVE  /\ pc' \in [Apps -> [Threads -> Points]] /\ idx' \in [Apps -> [Threads -> Nat]]
         /\ pc'[a][t] = p /\ idx'[a][t] = i
         /\ \A u \in Threads \ {t} : pc'[a][u] = pc[a][u] /\ idx'[a][u] = idx[a][u]
         /\ \A b \in Apps \ {a} : pc'[b] = pc[b] /\ idx'[b] = idx[b]
<1>1. idx \in [Apps -> [Threads -> Nat]]
  BY DEF TypeOK
<1>2. GoTo(a, t, p) /\ idx' = [idx EXCEPT ![a][t] = i]
  BY DEF At
<1> QED BY <1>1, <1>2, GoesTo

\* The points of a thread that is in no call that touches the components.
Quiet == {"idle", "install", "handle", "join", "release", "stopping", "waiting"}
Goals == {"none", "start", "run", "stop", "destroy"}

\* A thread goes from one such point to another.
LEMMA QuietStep ==
  ASSUME ApplicationInv, NEW a \in Apps, NEW t \in Threads, NEW p \in Quiet,
         pc[a][t] \in Quiet, GoTo(a, t, p),
         goal' \in [Apps -> Goals], \A b \in Apps : (b # a \/ t = "helper") => goal'[b] = goal[b],
         (pc[a]["owner"] \in {"create", "own", "dead"} \/ goal'[a] = "destroy")
           => pc'[a]["helper"] \in {"idle", "dead"},
         UNCHANGED <<project, phase, runtime, state, idx, work, ended>>
  PROVE  ApplicationInv'
<1>1. p \in Points \ Busy /\ pc[a][t] \in Points \ Busy
  BY DEF Points, Quiet, Busy, Starting, Serving, Tearing
<1>2. /\ pc' \in [Apps -> [Threads -> Points]]
      /\ pc'[a][t] = p
      /\ \A u \in Threads \ {t} : pc'[a][u] = pc[a][u]
      /\ \A b \in Apps \ {a} : pc'[b] = pc[b]
  BY <1>1, GoesTo DEF ApplicationInv
<1>3. TypeOK'
  BY <1>2 DEF ApplicationInv, TypeOK, work, Goals
<1>4. \A b \in Apps \ {a} : Same(b)
  BY <1>2 DEF Same, work
<1>5. AppOK(a) /\ Size(a)' = Size(a) /\ Comps(a)' = Comps(a)
  BY DEF ApplicationInv, Size, Comps
<1>6. (\A u \in Threads : IsBusy(a, u)' <=> IsBusy(a, u)) /\ (NoneBusy(a)' <=> NoneBusy(a))
  BY <1>1, <1>2 DEF IsBusy, NoneBusy
<1>7. ValuesOK(a)' /\ Settled(a)' /\ Orderly(a)'
  BY <1>5, <1>6 DEF AppOK, ValuesOK, Settled, Orderly, Done, Untouched, Ended, work
<1>8. ThreadsOK(a)'
  <2>1. \A u \in Threads : IsBusy(a, u)' => (phase[a] # "running")' /\ \A v \in Threads \ {u} : ~IsBusy(a, v)'
    BY <1>5, <1>6 DEF AppOK, ThreadsOK
  <2>2. (IsBusy(a, "helper") => phase[a] = "stopped")'
    BY <1>5, <1>6 DEF AppOK, ThreadsOK, Threads
  <2>3. (IsBusy(a, "owner") => phase[a] = "stopped" \/ goal[a] \in {"start", "run"})'
    <3>1. CASE t = "owner"
      BY <1>1, <1>6, <3>1 DEF IsBusy
    <3>2. CASE t = "helper"
      BY <1>5, <1>6, <3>2 DEF AppOK, ThreadsOK, Threads
    <3> QED BY <3>1, <3>2 DEF Threads
  <2>4. (pc[a]["owner"] \in {"create", "own", "dead"})' => pc[a]["owner"] \in {"create", "own", "dead"} /\ pc'[a]["owner"] = pc[a]["owner"]
    BY <1>2 DEF Threads, Quiet
  <2> QED BY <1>5, <2>1, <2>2, <2>3, <2>4 DEF AppOK, ThreadsOK
<1>9. SchedulerOK(a)'
  <2>1. (sched[a] # "off" => phase[a] = "running" \/ \E u \in Threads : pc[a][u] \in Serving)'
    BY <1>1, <1>2, <1>5 DEF AppOK, SchedulerOK, Busy, work
  <2> QED BY <1>5, <2>1 DEF AppOK, SchedulerOK, work
<1>10. TransportsOK(a)'
  <2>1. \/ pc'[a]["owner"] = pc[a]["owner"]
        \/ pc'[a]["owner"] \in Quiet /\ pc[a]["owner"] \in Quiet
    BY <1>2 DEF Threads
  <2> QED BY <1>5, <1>6, <2>1 DEF AppOK, TransportsOK, Quiet
<1>11. \A u \in Threads : Progress(a, u)'
  <2> TAKE u \in Threads
  <2>1. CASE u = t
    BY <1>1, <1>2, <2>1 DEF Progress, Busy, Starting, Serving, Tearing
  <2>2. CASE u # t
    BY <1>2, <1>5, <2>2 DEF AppOK, Progress, Passed, Done, Untouched, Ended
  <2> QED BY <2>1, <2>2
<1> QED BY <1>3, <1>4, <1>7, <1>8, <1>9, <1>10, <1>11, OthersSame DEF AppOK

\* Handling signals, waiting and calling do not touch the components.
LEMMA QuietSteps ==
  ASSUME ApplicationInv, NEW a \in Apps,
         \/ RunAgain(a) \/ RunWakes(a) \/ ClaimSignals(a) \/ ForgetSignals(a) \/ HandleSignals(a)
         \/ Destroy(a) \/ ResetStopSignals(a) \/ ReleaseSignals(a)
  PROVE  ApplicationInv'
<1>1. TypeOK /\ goal \in [Apps -> Goals] /\ "owner" \in Threads /\ "helper" \in Threads
  BY DEF ApplicationInv, TypeOK, Goals, Threads
<1>2. AppOK(a)
  BY DEF ApplicationInv
<1>3. /\ pc[a]["owner"] \in Quiet
      /\ UNCHANGED <<project, phase, runtime, state, idx, work, ended>>
      /\ \E p \in Quiet : GoTo(a, "owner", p)
  BY DEF RunAgain, RunWakes, ClaimSignals, ForgetSignals, HandleSignals, Destroy, ResetStopSignals,
         ReleaseSignals, app, Quiet
<1>4. /\ goal' \in [Apps -> Goals] /\ \A b \in Apps \ {a} : goal'[b] = goal[b]
      /\ goal'[a] = "destroy" => goal[a] = "destroy" \/ pc[a]["helper"] = "idle"
  BY <1>1 DEF RunAgain, RunWakes, ClaimSignals, ForgetSignals, HandleSignals, Destroy, ResetStopSignals,
         ReleaseSignals, Goals
<1>5. PICK p \in Quiet : GoTo(a, "owner", p)
  BY <1>3
<1>6. p \in Points
  BY DEF Quiet, Points
<1>7. pc'[a]["helper"] = pc[a]["helper"]
  BY <1>1, <1>5, <1>6, GoesTo
<1>8. (pc[a]["owner"] \in {"create", "own", "dead"} \/ goal'[a] = "destroy")
         => pc'[a]["helper"] \in {"idle", "dead"}
  BY <1>2, <1>3, <1>4, <1>7 DEF AppOK, ThreadsOK, Quiet
<1> QED BY <1>1, <1>3, <1>4, <1>5, <1>8, QuietStep

\* A thread calls Stop.
LEMMA CallStopStep ==
  ASSUME ApplicationInv, NEW a \in Apps, NEW t \in Threads, CallStop(a, t)
  PROVE  ApplicationInv'
<1>1. TypeOK /\ goal \in [Apps -> Goals] /\ "stopping" \in Quiet /\ "stopping" \in Points
  BY DEF ApplicationInv, TypeOK, Goals, Quiet, Points
<1>2. /\ pc[a][t] \in Quiet /\ GoTo(a, t, "stopping")
      /\ UNCHANGED <<project, phase, runtime, state, idx, work, ended>>
      /\ goal' \in [Apps -> Goals] /\ \A b \in Apps : (b # a \/ t = "helper") => goal'[b] = goal[b]
  BY <1>1 DEF CallStop, app, Quiet, Goals
<1>3. t = "owner" => goal'[a] = "stop"
  BY <1>1, <1>2 DEF CallStop, Goals
<1>4. pc'[a][t] = "stopping" /\ \A u \in Threads \ {t} : pc'[a][u] = pc[a][u]
  BY <1>1, <1>2, GoesTo
<1>5. (pc[a]["owner"] \in {"create", "own", "dead"} \/ goal'[a] = "destroy")
         => pc'[a]["helper"] \in {"idle", "dead"}
  <2>1. CASE t = "owner"
    BY <1>2, <1>3, <2>1 DEF Quiet
  <2>2. CASE t = "helper"
    BY <1>2, <2>2 DEF CallStop, Alive
  <2> QED BY <2>1, <2>2 DEF Threads
<1> QED BY <1>1, <1>2, <1>5, QuietStep

\* Requests to stop, signals and the watcher touch nothing of an application.
LEMMA OutsideSteps ==
  ASSUME ApplicationInv,
         \/ Signal
         \/ \E a \in Apps : RequestStop(a) \/ WatcherStep(a)
         \/ UNCHANGED vars
  PROVE  ApplicationInv'
<1>1. UNCHANGED <<project, phase, runtime, state, pc, idx, goal, sched, queued, executing, ended>>
  BY DEF Signal, RequestStop, WatcherStep, WatcherPolls, WatcherExits, vars, app, threads, work
<1>2. TypeOK'
  BY <1>1 DEF ApplicationInv, TypeOK
<1>3. \A b \in Apps : Same(b)
  BY <1>1 DEF Same
<1> QED BY <1>2, <1>3, SameApp DEF ApplicationInv
-----------------------------------------------------------------------------
(* Create *)

\* A step of Create, to the next one, the end or a failure.
LEMMA CreateStep ==
  ASSUME ApplicationInv, NEW a \in Apps, pc[a]["owner"] \in {"create", "own"},
         NEW p \in {"own", "idle", "dead"}, GoTo(a, "owner", p),
         idx' \in [Apps -> [Threads -> Nat]], \A b \in Apps \ {a} : idx'[b] = idx[b],
         NEW rt, runtime' = [runtime EXCEPT ![a] = rt], Context(rt),
         IF p = "dead" THEN AllClosed(rt) ELSE AllOpen(rt),
         state' = state \/ RegisterComponentInstances(a),
         UNCHANGED <<project, phase, goal, work, ended>>
  PROVE  ApplicationInv'
<1>1. TypeOK /\ AppOK(a) /\ "owner" \in Threads /\ p \in Points /\ Size(a)' = Size(a) /\ Comps(a)' = Comps(a)
  BY DEF ApplicationInv, Threads, Points, Size, Comps
<1>2. /\ pc' \in [Apps -> [Threads -> Points]]
      /\ pc'[a]["owner"] = p
      /\ pc'[a]["helper"] = pc[a]["helper"]
      /\ \A b \in Apps \ {a} : pc'[b] = pc[b]
  BY <1>1, GoesTo DEF Threads
<1>3. runtime'[a] = rt /\ runtime' = [b \in Apps |-> runtime'[b]] /\ \A b \in Apps \ {a} : runtime'[b] = runtime[b]
  BY <1>1 DEF TypeOK
<1>4. state' = [b \in Apps |-> state'[b]] /\ \A b \in Apps \ {a} : state'[b] = state[b]
  BY <1>1 DEF TypeOK, RegisterComponentInstances
<1>5. state'[a] = state[a] \/ state'[a] = [i \in Comps(a) |-> "created"]
  BY <1>1 DEF TypeOK, RegisterComponentInstances
<1>6. TypeOK'
  BY <1>1, <1>2, <1>3, <1>4 DEF TypeOK, work
<1>7. \A b \in Apps \ {a} : Same(b)
  BY <1>2, <1>3, <1>4 DEF Same, work
<1>8. phase[a] = "created" /\ pc[a]["helper"] \in {"idle", "dead"}
  BY <1>1 DEF AppOK, ThreadsOK
<1>9. NoneBusy(a) /\ NoneBusy(a)' /\ \A t \in Threads : ~IsBusy(a, t)' /\ ~IsBusy(a, t)
  BY <1>2, <1>8 DEF NoneBusy, IsBusy, Threads, Busy, Starting, Serving, Tearing
<1>10. ended[a] = << >> /\ \A j \in Comps(a) : Untouched(a, j)
  BY <1>1, <1>8, <1>9 DEF AppOK, Settled
<1>11. ValuesOK(a)'
  <2>1. state'[a] \in [Comps(a) -> States]
    BY <1>1, <1>5 DEF AppOK, ValuesOK, States
  <2> QED BY <1>1, <1>3, <2>1 DEF ValuesOK
<1>12. ThreadsOK(a)'
  <2>1. ~IsBusy(a, "owner")' /\ ~IsBusy(a, "helper")'
    BY <1>9 DEF Threads
  <2>2. phase'[a] = "created" /\ pc'[a]["helper"] \in {"idle", "dead"}
    BY <1>2, <1>8
  <2> QED BY <1>9, <2>1, <2>2 DEF ThreadsOK
<1>13. SchedulerOK(a)'
  BY <1>1, <1>8, <1>9 DEF AppOK, SchedulerOK, IsBusy, Busy, work
<1>14. TransportsOK(a)'
  BY <1>2, <1>3 DEF TransportsOK
<1>15. ended'[a] = << >> /\ \A j \in Comps(a) : state'[a][j] \in {"unregistered", "created"}
  BY <1>5, <1>10 DEF Untouched
<1>16. Settled(a)' /\ Orderly(a)'
  <2>1. Settled(a)'
    BY <1>1, <1>8, <1>15 DEF Settled, Done, Untouched
  <2>2. \A j, k \in 1 .. Len(ended'[a]) : FALSE
    BY <1>15
  <2> QED BY <1>1, <1>15, <2>1, <2>2 DEF Orderly
<1>17. \A t \in Threads : Progress(a, t)'
  BY <1>9 DEF Progress, IsBusy, Busy, Tearing
<1> QED BY <1>6, <1>7, <1>11, <1>12, <1>13, <1>14, <1>16, <1>17, OthersSame DEF AppOK

\* The steps of Create.
LEMMA CreateSteps ==
  ASSUME ApplicationInv, NEW a \in Apps,
         CreateRuntime(a) \/ RegisterOwnTransport(a) \/ RegisterComponents(a)
  PROVE  ApplicationInv'
<1>1. TypeOK /\ AppOK(a) /\ "owner" \in Threads /\ idx \in [Apps -> [Threads -> Nat]] /\ project[a] \in Projects
  BY DEF ApplicationInv, TypeOK, Threads
<1>2. project[a].options.opens \in BOOLEAN /\ project[a].own \in Seq([name : STRING, kind : Kinds])
  <2>1. project[a].options \in [inmemory : BOOLEAN, opens : BOOLEAN, name : STRING]
    BY <1>1 DEF Projects
  <2>2. project[a].own \in Seq([name : STRING, kind : Kinds])
    BY <1>1 DEF Projects
  <2> QED BY <2>1, <2>2
<1>3. \A i \in Nat, p \in {"own", "idle"} : At(a, "owner", p, i) =>
        GoTo(a, "owner", p) /\ idx' \in [Apps -> [Threads -> Nat]] /\ \A b \in Apps \ {a} : idx'[b] = idx[b]
  BY <1>1 DEF At
<1>4. UNCHANGED idx => idx' \in [Apps -> [Threads -> Nat]] /\ \A b \in Apps \ {a} : idx'[b] = idx[b]
  BY <1>1
<1>5. pc[a]["owner"] = "own" => AllOpen(runtime[a])
  BY <1>1 DEF AppOK, TransportsOK, ThreadsOK
<1>6. Context(runtime[a])
  BY <1>1 DEF AppOK, ValuesOK
<1>7. ASSUME NEW result, result.ok \in BOOLEAN, Context(result.rt), result.ok => AllOpen(result.rt), NEW i \in Nat,
             pc[a]["owner"] \in {"create", "own"},
             IF result.ok THEN SetRuntime(a, result.rt) /\ At(a, "owner", "own", i)
             ELSE CreateFails(a, result.rt) /\ UNCHANGED idx,
             UNCHANGED <<project, phase, stopReq, state, goal, work, signals, ended>>
      PROVE  ApplicationInv'
  <2>1. CASE result.ok
    <3>1. GoTo(a, "owner", "own") /\ idx' \in [Apps -> [Threads -> Nat]] /\ \A b \in Apps \ {a} : idx'[b] = idx[b]
      BY <1>3, <1>7, <2>1
    <3>2. runtime' = [runtime EXCEPT ![a] = result.rt]
      BY <1>7, <2>1 DEF SetRuntime
    <3> QED BY <1>7, <2>1, <3>1, <3>2, CreateStep
  <2>2. CASE ~result.ok
    <3>1. GoTo(a, "owner", "dead") /\ runtime' = [runtime EXCEPT ![a] = Close(result.rt)] /\ UNCHANGED idx
      BY <1>7, <2>2 DEF CreateFails, SetRuntime
    <3>2. Context(Close(result.rt)) /\ AllClosed(Close(result.rt))
      BY <1>7, ClosedContext
    <3> QED BY <1>4, <1>7, <3>1, <3>2, CreateStep
  <2> QED BY <1>7, <2>1, <2>2
<1>8. CASE CreateRuntime(a)
  <2>1. PICK works \in BOOLEAN :
          LET result == Open(EmptyContext, project[a].options, works)
          IN  IF result.ok THEN SetRuntime(a, result.rt) /\ At(a, "owner", "own", 1)
              ELSE CreateFails(a, result.rt) /\ UNCHANGED idx
    BY <1>8 DEF CreateRuntime
  <2> DEFINE result == Open(EmptyContext, project[a].options, works)
  <2>2. result.ok \in BOOLEAN /\ Context(result.rt) /\ (result.ok => AllOpen(result.rt))
    BY <1>2, OpenedContext
  <2>3. IF result.ok THEN SetRuntime(a, result.rt) /\ At(a, "owner", "own", 1)
        ELSE CreateFails(a, result.rt) /\ UNCHANGED idx
    BY <2>1
  <2>4. pc[a]["owner"] \in {"create", "own"} /\ UNCHANGED <<project, phase, stopReq, state, goal, work, signals, ended>>
    BY <1>8 DEF CreateRuntime
  <2> HIDE DEF result
  <2> QED BY <1>7, <2>2, <2>3, <2>4
<1>9. CASE RegisterOwnTransport(a)
  <2> DEFINE own == project[a].own[idx[a]["owner"]]
  <2>1. PICK works \in BOOLEAN :
          LET result == RegisterTransport(runtime[a], own, project[a].options.opens, works)
          IN  IF result.ok THEN SetRuntime(a, result.rt) /\ At(a, "owner", "own", idx[a]["owner"] + 1)
              ELSE CreateFails(a, result.rt) /\ UNCHANGED idx
    BY <1>9, ZenonT(40) DEF RegisterOwnTransport
  <2> HIDE DEF own
  <2> DEFINE result == RegisterTransport(runtime[a], own, project[a].options.opens, works)
  <2>2. pc[a]["owner"] = "own" /\ UNCHANGED <<project, phase, stopReq, state, goal, work, signals, ended>>
    BY <1>9 DEF RegisterOwnTransport
  <2>3. result.ok \in BOOLEAN /\ Context(result.rt) /\ (result.ok => AllOpen(result.rt))
    BY <1>2, <1>5, <1>6, <2>2, RegisteredContext
  <2>4. IF result.ok THEN SetRuntime(a, result.rt) /\ At(a, "owner", "own", idx[a]["owner"] + 1)
        ELSE CreateFails(a, result.rt) /\ UNCHANGED idx
    BY <2>1
  <2> HIDE DEF result
  <2>5. PICK k \in Nat : k = idx[a]["owner"] + 1
    BY <1>1
  <2>6. IF result.ok THEN SetRuntime(a, result.rt) /\ At(a, "owner", "own", k)
        ELSE CreateFails(a, result.rt) /\ UNCHANGED idx
    BY <2>4, <2>5
  <2> QED BY <1>7, <2>2, <2>3, <2>6
<1>10. CASE RegisterComponents(a)
  <2>1. pc[a]["owner"] = "own" /\ UNCHANGED <<project, phase, stopReq, goal, work, signals, ended>>
    BY <1>10 DEF RegisterComponents
  <2>2. CASE RegisterComponentInstances(a) /\ At(a, "owner", "idle", 0) /\ UNCHANGED runtime
    <3>1. GoTo(a, "owner", "idle") /\ idx' \in [Apps -> [Threads -> Nat]] /\ \A b \in Apps \ {a} : idx'[b] = idx[b]
      BY <1>3, <2>2
    <3>2. runtime' = [runtime EXCEPT ![a] = runtime[a]]
      BY <1>1, <2>2 DEF TypeOK
    <3> QED BY <1>5, <1>6, <2>1, <2>2, <3>1, <3>2, CreateStep
  <2>3. CASE CreateFails(a, runtime[a]) /\ UNCHANGED <<state, idx>>
    <3>1. GoTo(a, "owner", "dead") /\ runtime' = [runtime EXCEPT ![a] = Close(runtime[a])] /\ UNCHANGED <<state, idx>>
      BY <2>3 DEF CreateFails, SetRuntime
    <3>2. Context(Close(runtime[a])) /\ AllClosed(Close(runtime[a]))
      BY <1>6, ClosedContext
    <3> QED BY <1>4, <2>1, <3>1, <3>2, CreateStep
  <2> QED BY <1>10, <2>2, <2>3 DEF RegisterComponents
<1> QED BY <1>8, <1>9, <1>10
-----------------------------------------------------------------------------
(* Bringing up, running and tearing down *)

\* A step that changes variables of application a only.
Local(a) ==
  /\ \A b \in Apps \ {a} :
       /\ idx'[b] = idx[b] /\ state'[b] = state[b] /\ ended'[b] = ended[b]
       /\ sched'[b] = sched[b] /\ queued'[b] = queued[b] /\ executing'[b] = executing[b]
  /\ idx' \in [Apps -> [Threads -> Nat]]
  /\ state' = [b \in Apps |-> state'[b]]
  /\ sched' \in [Apps -> {"off", "starting", "on", "draining"}]
  /\ queued' = [b \in Apps |-> queued'[b]] /\ executing' = [b \in Apps |-> executing'[b]]
  /\ ended' \in [Apps -> Seq(Nat)]

\* A busy thread goes on: who may be busy and the transports are as before.
LEMMA BusyStep ==
  ASSUME ApplicationInv, NEW a \in Apps, NEW t \in Threads, NEW p \in Busy,
         pc[a][t] \in Busy, GoTo(a, t, p), Local(a),
         UNCHANGED <<project, phase, runtime, goal>>,
         state'[a] \in [Comps(a) -> States], SchedulerOK(a)', Orderly(a)', Progress(a, t)'
  PROVE  ApplicationInv'
<1>1. TypeOK /\ AppOK(a) /\ p \in Points /\ Size(a)' = Size(a) /\ Comps(a)' = Comps(a)
  BY DEF ApplicationInv, Points, Size, Comps
<1>2. /\ pc' \in [Apps -> [Threads -> Points]]
      /\ pc'[a][t] = p
      /\ \A u \in Threads \ {t} : pc'[a][u] = pc[a][u]
      /\ \A b \in Apps \ {a} : pc'[b] = pc[b]
  BY <1>1, GoesTo
<1>3. TypeOK'
  BY <1>1, <1>2 DEF TypeOK, Local
<1>4. \A b \in Apps \ {a} : Same(b)
  BY <1>2 DEF Same, Local
<1>5. ValuesOK(a)'
  BY <1>1 DEF AppOK, ValuesOK
<1>6. /\ IsBusy(a, t) /\ IsBusy(a, t)' /\ ~NoneBusy(a) /\ ~NoneBusy(a)'
      /\ \A u \in Threads : IsBusy(a, u)' <=> IsBusy(a, u)
  BY <1>2 DEF IsBusy, NoneBusy
<1>7. phase[a] # "running" /\ \A u \in Threads \ {t} : ~IsBusy(a, u)
  BY <1>1, <1>6 DEF AppOK, ThreadsOK
<1>8. /\ pc'[a]["owner"] = pc[a]["owner"] \/ (pc'[a]["owner"] \in Busy /\ pc[a]["owner"] \in Busy)
      /\ pc'[a]["helper"] = pc[a]["helper"] \/ (pc'[a]["helper"] \in Busy /\ pc[a]["helper"] \in Busy)
  BY <1>2 DEF Threads
<1>9. Busy \cap {"create", "own", "dead", "idle"} = {}
  BY DEF Busy, Starting, Serving, Tearing
<1>10. ThreadsOK(a)'
  <2>1. \A u \in Threads : IsBusy(a, u)' => (phase[a] # "running")' /\ \A v \in Threads \ {u} : ~IsBusy(a, v)'
    BY <1>1, <1>6 DEF AppOK, ThreadsOK
  <2>2. (IsBusy(a, "owner")' <=> IsBusy(a, "owner")) /\ (IsBusy(a, "helper")' <=> IsBusy(a, "helper"))
    BY <1>6 DEF Threads
  <2> QED BY <1>1, <1>8, <1>9, <2>1, <2>2 DEF AppOK, ThreadsOK
<1>11. TransportsOK(a)'
  BY <1>1, <1>6, <1>8, <1>9 DEF AppOK, TransportsOK
<1>12. Settled(a)'
  BY <1>6, <1>7 DEF Settled
<1>13. \A u \in Threads : Progress(a, u)'
  <2> SUFFICES ASSUME NEW u \in Threads \ {t} PROVE Progress(a, u)'
    OBVIOUS
  <2>1. pc'[a][u] \notin Busy
    BY <1>6, <1>7 DEF IsBusy
  <2> QED BY <2>1 DEF Progress, Busy, Tearing
<1> QED BY <1>3, <1>4, <1>5, <1>10, <1>11, <1>12, <1>13, OthersSame DEF AppOK

\* A thread that brings up or tears down is alone: the scheduler is off.
LEMMA SchedulerIsOff ==
  ASSUME ApplicationInv, NEW a \in Apps, NEW t \in Threads, pc[a][t] \in Starting \cup Tearing
  PROVE  sched[a] = "off" /\ queued[a] = {} /\ executing[a] = {}
<1>1. AppOK(a) /\ IsBusy(a, t)
  BY DEF ApplicationInv, IsBusy, Busy
<1>2. phase[a] # "running" /\ \A u \in Threads \ {t} : ~IsBusy(a, u)
  BY <1>1 DEF AppOK, ThreadsOK
<1>3. \A u \in Threads : pc[a][u] \notin Serving
  BY <1>2 DEF IsBusy, Busy, Starting, Serving, Tearing
<1> QED BY <1>1, <1>2, <1>3 DEF AppOK, SchedulerOK

\* A component changes its state, and no other.
LEMMA ComponentState ==
  ASSUME ApplicationInv, NEW a \in Apps, NEW i \in Comps(a), NEW s \in States, SetComponentState(a, i, s)
  PROVE  /\ state' = [b \in Apps |-> state'[b]] /\ \A b \in Apps \ {a} : state'[b] = state[b]
         /\ state'[a] \in [Comps(a) -> States]
         /\ state'[a][i] = s /\ \A j \in Comps(a) \ {i} : state'[a][j] = state[a][j]
<1>1. state = [b \in Apps |-> state[b]] /\ state[a] \in [Comps(a) -> States]
  BY DEF ApplicationInv, TypeOK, AppOK, ValuesOK
<1>2. state'[a] = [state[a] EXCEPT ![i] = s] /\ state' = [b \in Apps |-> state'[b]] /\ \A b \in Apps \ {a} : state'[b] = state[b]
  BY <1>1 DEF SetComponentState
<1> QED BY <1>1, <1>2

\* The variables a step leaves alone are typed and local.
LEMMA UnchangedLocal ==
  ASSUME ApplicationInv, NEW a \in Apps
  PROVE  /\ UNCHANGED idx => idx' \in [Apps -> [Threads -> Nat]] /\ \A b \in Apps : idx'[b] = idx[b]
         /\ UNCHANGED state => /\ state' = [b \in Apps |-> state'[b]] /\ \A b \in Apps : state'[b] = state[b]
                               /\ state'[a] \in [Comps(a) -> States]
         /\ UNCHANGED sched => /\ sched' \in [Apps -> {"off", "starting", "on", "draining"}]
                               /\ \A b \in Apps : sched'[b] = sched[b]
         /\ UNCHANGED <<queued, executing>> =>
              /\ queued' = [b \in Apps |-> queued'[b]] /\ executing' = [b \in Apps |-> executing'[b]]
              /\ \A b \in Apps : queued'[b] = queued[b] /\ executing'[b] = executing[b]
         /\ UNCHANGED ended => ended' \in [Apps -> Seq(Nat)] /\ \A b \in Apps : ended'[b] = ended[b]
BY DEF ApplicationInv, TypeOK, AppOK, ValuesOK

\* A callback of Start returns.
LEMMA BringUpStep ==
  ASSUME ApplicationInv, NEW a \in Apps, NEW t \in Threads, NEW ok \in BOOLEAN,
         pc[a][t] \in Starting, CallbackReturns(a, t, ok)
  PROVE  ApplicationInv'
<1> DEFINE cb == pc[a][t]
           i == idx[a][t]
<1>1. TypeOK /\ AppOK(a) /\ Progress(a, t) /\ Orderly(a) /\ cb \in Busy /\ Size(a) \in Nat
  BY DEF ApplicationInv, AppOK, Busy, TypeOK, Projects, Size
<1>2. ended[a] = << >> /\ i \in Comps(a) /\ \A j \in Comps(a) : j > i => Untouched(a, j)
  BY <1>1 DEF Progress
<1>3. UNCHANGED <<project, phase, runtime, goal>> /\ UNCHANGED sched /\ UNCHANGED <<queued, executing>>
  BY DEF CallbackReturns, app, work
<1>4. UNCHANGED ended
  BY DEF CallbackReturns, Starting
<1>5. LeadsTo[cb] \in {"configured", "initialized", "started"}
  BY DEF LeadsTo, Starting
<1>6. state[a] \in [Comps(a) -> States] /\ \A j \in Comps(a) : state[a][j] # "shutdown"
  <2>1. \A j \in Comps(a) : ~Ended(a, j)
    BY <1>2 DEF Ended
  <2> QED BY <1>1, <2>1 DEF AppOK, ValuesOK, Orderly
<1>7. /\ state' = [b \in Apps |-> state'[b]] /\ \A b \in Apps \ {a} : state'[b] = state[b]
      /\ state'[a] \in [Comps(a) -> States]
      /\ state'[a][i] # "shutdown" /\ \A j \in Comps(a) \ {i} : state'[a][j] = state[a][j]
  <2>1. CASE UNCHANGED state
    BY <1>2, <1>6, <2>1, UnchangedLocal
  <2>2. CASE SetComponentState(a, i, IF ok THEN LeadsTo[cb] ELSE "error")
    <3> DEFINE s == IF ok THEN LeadsTo[cb] ELSE "error"
    <3>1. s \in States /\ s # "shutdown"
      BY <1>5 DEF States
    <3> HIDE DEF s
    <3>2. SetComponentState(a, i, s)
      BY <2>2 DEF s
    <3> QED BY <1>2, <3>1, <3>2, ComponentState
  <2> QED BY <2>1, <2>2 DEF CallbackReturns
<1>8. PICK p \in {"configure", "initialize", "start", "sched", "visit"}, k \in Nat :
        /\ At(a, t, p, k)
        /\ p \in Starting => k \in Comps(a) /\ k >= i
        /\ p = "visit" => k = i
  <2>1. i \in Nat
    BY <1>2 DEF Comps
  <2>2. cb \in {"configure", "initialize", "start"} /\ cb \notin {"stop", "shutdown"}
    BY DEF Starting
  <2>3. IF ok THEN BringUpNext(a, t, cb) ELSE RollBack(a, t)
    BY <2>2 DEF CallbackReturns
  <2>4. CASE ~ok
    <3>1. At(a, t, "visit", i) /\ "visit" \notin Starting
      BY <2>3, <2>4 DEF RollBack, Starting
    <3> QED BY <2>1, <3>1
  <2>5. CASE ok /\ cb \in {"configure", "initialize"}
    <3>1. PICK p \in {"initialize", "start"} : At(a, t, p, i)
      BY <2>3, <2>5 DEF BringUpNext
    <3>2. i >= i
      BY <2>1
    <3> QED BY <1>2, <2>1, <3>1, <3>2
  <2>6. CASE ok /\ cb = "start" /\ i < Size(a)
    <3>1. At(a, t, "configure", i + 1)
      BY <2>3, <2>6 DEF BringUpNext
    <3>2. i + 1 \in Comps(a) /\ i + 1 >= i /\ i + 1 \in Nat
      BY <1>1, <1>2, <2>1, <2>6 DEF Comps
    <3> QED BY <3>1, <3>2
  <2>7. CASE ok /\ cb = "start" /\ ~(i < Size(a))
    <3>1. At(a, t, "sched", 0)
      BY <2>3, <2>7 DEF BringUpNext
    <3> QED BY <3>1 DEF Starting
  <2> QED BY <2>2, <2>4, <2>5, <2>6, <2>7
<1>9. p \in Points /\ p \in Busy /\ GoTo(a, t, p)
  BY <1>8 DEF Points, Busy, Starting, Serving, Tearing, At
<1>10. /\ pc'[a][t] = p /\ idx'[a][t] = k
       /\ idx' \in [Apps -> [Threads -> Nat]] /\ \A b \in Apps \ {a} : idx'[b] = idx[b]
  BY <1>1, <1>8, <1>9, GoesAt
<1>11. Local(a)
  BY <1>3, <1>4, <1>7, <1>10, UnchangedLocal DEF Local
<1>12. Comps(a)' = Comps(a) /\ Size(a)' = Size(a) /\ ended'[a] = << >>
  BY <1>2, <1>3, <1>4 DEF Comps, Size
<1>13. SchedulerOK(a)'
  BY <1>3, SchedulerIsOff DEF SchedulerOK
<1>14. \A j \in Comps(a) : state'[a][j] # "shutdown" /\ (j > i => Untouched(a, j)')
  BY <1>2, <1>6, <1>7 DEF Untouched, Comps
<1>15. \A j \in 1 .. Len(ended'[a]) : FALSE
  BY <1>12
<1>16. Orderly(a)'
  BY <1>12, <1>14, <1>15 DEF Orderly
<1>17. Progress(a, t)'
  <2>1. CASE p \in Starting
    <3>1. k \in Comps(a) /\ \A j \in Comps(a) : j > k => Untouched(a, j)'
      BY <1>2, <1>8, <1>14, <2>1 DEF Comps
    <3> QED BY <1>10, <1>12, <2>1, <3>1 DEF Progress, Starting
  <2>2. CASE p = "sched"
    BY <1>10, <1>12, <2>2 DEF Progress, Starting
  <2>3. CASE p = "visit"
    <3>1. k = i /\ k \in 0 .. Size(a)
      BY <1>2, <1>8, <2>3 DEF Comps
    <3>2. Passed(a, k)'
      BY <1>12, <1>14, <1>15, <3>1 DEF Passed, Done
    <3>3. idx'[a][t] = k /\ pc'[a][t] = "visit"
      BY <1>10, <2>3
    <3>4. Passed(a, idx[a][t])'
      BY <3>2, <3>3 DEF Passed
    <3> QED BY <1>12, <3>1, <3>3, <3>4 DEF Progress, Starting, Serving
  <2> QED BY <2>1, <2>2, <2>3 DEF Starting
<1> QED BY <1>3, <1>7, <1>9, <1>11, <1>13, <1>16, <1>17, <1>1, BusyStep

\* A thread in the teardown goes on to p of component k, and only the state of
\* component i changes.
LEMMA TearDownStep ==
  ASSUME ApplicationInv, NEW a \in Apps, NEW t \in Threads, NEW p \in Tearing, NEW k \in Nat,
         pc[a][t] \in Tearing, At(a, t, p, k),
         UNCHANGED <<project, phase, runtime, goal>>, UNCHANGED sched, UNCHANGED <<queued, executing>>,
         state' = [b \in Apps |-> state'[b]], \A b \in Apps \ {a} : state'[b] = state[b],
         state'[a] \in [Comps(a) -> States],
         ended' \in [Apps -> Seq(Nat)], \A b \in Apps \ {a} : ended'[b] = ended[b],
         k <= Size(a), Passed(a, k)', p \in {"stop", "shutdown"} => k # 0, p = "torn" => k = 0,
         p = "stop" => state'[a][k] = "started",
         p = "shutdown" => state'[a][k] \notin {"started", "shutdown"},
         Orderly(a)'
  PROVE  ApplicationInv'
<1>1. TypeOK /\ p \in Points /\ p \in Busy /\ pc[a][t] \in Busy /\ GoTo(a, t, p)
  BY DEF ApplicationInv, Points, Busy, At
<1>2. /\ pc'[a][t] = p /\ idx'[a][t] = k
      /\ idx' \in [Apps -> [Threads -> Nat]] /\ \A b \in Apps \ {a} : idx'[b] = idx[b]
  BY <1>1, GoesAt
<1>3. Local(a)
  BY <1>2, UnchangedLocal DEF Local
<1>4. SchedulerOK(a)'
  BY SchedulerIsOff DEF SchedulerOK
<1>5. Size(a)' = Size(a) /\ Size(a) \in Nat
  BY <1>1 DEF Size, TypeOK, Projects
<1>6. Passed(a, idx[a][t])'
  BY <1>2 DEF Passed
<1>7. Progress(a, t)'
  <2>1. CASE p = "torn"
    BY <1>2, <1>6, <2>1 DEF Progress, Starting, Serving
  <2>2. CASE p \in {"visit", "stop", "shutdown"}
    BY <1>2, <1>5, <1>6, <2>2 DEF Progress, Starting, Serving
  <2> QED BY <2>1, <2>2 DEF Tearing
<1> QED BY <1>1, <1>3, <1>4, <1>7, BusyStep

\* Stop or Shutdown of a component returns.
LEMMA TearDownReturns ==
  ASSUME ApplicationInv, NEW a \in Apps, NEW t \in Threads, NEW ok \in BOOLEAN,
         pc[a][t] \in {"stop", "shutdown"}, CallbackReturns(a, t, ok)
  PROVE  ApplicationInv'
<1>1. PICK i \in Nat : i = idx[a][t]
  BY DEF ApplicationInv, TypeOK
<1>2. TypeOK /\ AppOK(a) /\ Progress(a, t) /\ Orderly(a) /\ pc[a][t] \in Tearing /\ Size(a) \in Nat
  BY DEF ApplicationInv, AppOK, Tearing, TypeOK, Projects, Size
<1>3. i \in Comps(a) /\ i <= Size(a) /\ Passed(a, i)
  BY <1>1, <1>2 DEF Progress, Comps
<1>4. UNCHANGED <<project, phase, runtime, goal>> /\ UNCHANGED sched /\ UNCHANGED <<queued, executing>>
  BY DEF CallbackReturns, app, work
<1>5. Comps(a)' = Comps(a)
  BY <1>4 DEF Comps, Size
<1>6. state[a] \in [Comps(a) -> States] /\ ended[a] \in Seq(Nat)
  BY <1>2 DEF AppOK, ValuesOK, TypeOK
<1>7. CASE pc[a][t] = "stop"
  <2>1. state[a][i] = "started" /\ CallableIn["stop"] = {"started"} /\ LeadsTo["stop"] = "stopped"
    BY <1>1, <1>2, <1>7 DEF Progress, CallableIn, LeadsTo
  <2>2. PICK s \in {"stopped", "error"} : SetComponentState(a, i, s)
    BY <1>1, <1>7, <2>1 DEF CallbackReturns
  <2>3. /\ state' = [b \in Apps |-> state'[b]] /\ \A b \in Apps \ {a} : state'[b] = state[b]
        /\ state'[a] \in [Comps(a) -> States]
        /\ state'[a][i] = s /\ \A j \in Comps(a) \ {i} : state'[a][j] = state[a][j]
    BY <1>3, <2>2, ComponentState DEF States
  <2>4. UNCHANGED ended /\ At(a, t, "shutdown", i)
    BY <1>1, <1>7 DEF CallbackReturns, TearDownNext
  <2>5. ended'[a] = ended[a] /\ ended' \in [Apps -> Seq(Nat)] /\ \A b \in Apps \ {a} : ended'[b] = ended[b]
    BY <2>4, UnchangedLocal
  <2>6. \A j \in Comps(a) : Ended(a, j)' <=> Ended(a, j)
    BY <2>5 DEF Ended
  <2>7. Passed(a, i)'
    <3>1. \A n \in 1 .. Len(ended'[a]) : ended'[a][n] > i
      BY <1>3, <2>5 DEF Passed
    <3>2. \A j \in Comps(a) : j > i => j # i
      BY <1>3 DEF Comps
    <3>3. \A j \in Comps(a) : j > i => Done(a, j)'
      BY <1>3, <2>3, <2>6, <3>2 DEF Passed, Done, Untouched
    <3> QED BY <1>5, <3>1, <3>3 DEF Passed
  <2>8. Orderly(a)'
    BY <1>2, <1>5, <2>3, <2>5, <2>6 DEF Orderly
  <2>9. i # 0 /\ state'[a][i] \notin {"started", "shutdown"} /\ "shutdown" \in Tearing
    BY <1>3, <2>3 DEF Comps, Tearing
  <2> QED BY <1>2, <1>3, <1>4, <2>3, <2>4, <2>5, <2>7, <2>8, <2>9, TearDownStep
<1>8. CASE pc[a][t] = "shutdown"
  <2> DEFINE let == state[a][i] \in CallableIn["shutdown"]
  <2>1. /\ CallableIn["shutdown"] = {"created", "configured", "initialized", "stopped", "error"}
        /\ LeadsTo["shutdown"] = "shutdown" /\ state[a][i] \notin {"started", "shutdown"}
    BY <1>1, <1>2, <1>8 DEF Progress, CallableIn, LeadsTo
  <2>2. At(a, t, "visit", i - 1) /\ i - 1 \in Nat /\ i - 1 <= Size(a)
    <3>1. TearDownNext(a, t, "shutdown")
      BY <1>8 DEF CallbackReturns
    <3>2. At(a, t, "visit", i - 1)
      BY <1>1, <3>1 DEF TearDownNext
    <3> QED BY <1>2, <1>3, <3>2 DEF Comps
  <2>3. CASE ~let
    <3>1. UNCHANGED <<state, ended>>
      BY <1>1, <1>8, <2>3 DEF CallbackReturns
    <3>2. Untouched(a, i)
      BY <1>3, <1>6, <2>1, <2>3 DEF Untouched, States
    <3>3. Passed(a, i - 1)
      BY <1>3, <1>6, <3>2 DEF Passed, Done, Comps
    <3>4. Passed(a, i - 1)' /\ Orderly(a)'
      BY <1>2, <1>5, <3>1, <3>3 DEF Orderly, Passed, Done, Ended, Untouched
    <3>5. /\ state' = [b \in Apps |-> state'[b]] /\ \A b \in Apps \ {a} : state'[b] = state[b]
          /\ state'[a] \in [Comps(a) -> States]
          /\ ended' \in [Apps -> Seq(Nat)] /\ \A b \in Apps \ {a} : ended'[b] = ended[b]
      BY <3>1, UnchangedLocal
    <3> QED BY <1>2, <1>4, <2>2, <3>4, <3>5, TearDownStep DEF Tearing
  <2>4. CASE let
    <3>1. PICK s \in {"shutdown", "error"} : SetComponentState(a, i, s)
      BY <1>1, <1>8, <2>1, <2>4 DEF CallbackReturns
    <3>2. /\ state' = [b \in Apps |-> state'[b]] /\ \A b \in Apps \ {a} : state'[b] = state[b]
          /\ state'[a] \in [Comps(a) -> States]
          /\ state'[a][i] = s /\ \A j \in Comps(a) \ {i} : state'[a][j] = state[a][j]
      BY <1>3, <3>1, ComponentState DEF States
    <3>3. ended' = [ended EXCEPT ![a] = Append(@, i)]
      BY <1>1, <1>8, <2>4 DEF CallbackReturns
    <3>4. /\ ended'[a] = Append(ended[a], i) /\ ended' \in [Apps -> Seq(Nat)]
          /\ \A b \in Apps \ {a} : ended'[b] = ended[b]
      BY <1>2, <3>3 DEF TypeOK
    <3>5. /\ Len(ended'[a]) = Len(ended[a]) + 1 /\ ended'[a][Len(ended[a]) + 1] = i /\ Len(ended[a]) \in Nat
          /\ \A n \in 1 .. Len(ended[a]) : ended'[a][n] = ended[a][n] /\ ended[a][n] \in Nat
      <4>1. PICK q \in Seq(Nat) : q = ended[a]
        BY <1>6
      <4>2. /\ Len(Append(q, i)) = Len(q) + 1 /\ Append(q, i)[Len(q) + 1] = i /\ Len(q) \in Nat
            /\ \A n \in 1 .. Len(q) : Append(q, i)[n] = q[n] /\ q[n] \in Nat
        OBVIOUS
      <4> QED BY <3>4, <4>1, <4>2
    <3>6. \A n \in 1 .. Len(ended'[a]) : n \in 1 .. Len(ended[a]) \/ n = Len(ended[a]) + 1
      BY <3>5
    <3>7. Ended(a, i)' /\ \A j \in Comps(a) : Ended(a, j) => Ended(a, j)'
      <4>1. Len(ended[a]) + 1 \in 1 .. Len(ended'[a]) /\ \A n \in 1 .. Len(ended[a]) : n \in 1 .. Len(ended'[a])
        BY <3>5
      <4> QED BY <3>5, <4>1 DEF Ended
    <3>8. Passed(a, i - 1)'
      <4>1. \A n \in 1 .. Len(ended'[a]) : ended'[a][n] > i - 1
        <5> SUFFICES ASSUME NEW n \in 1 .. Len(ended'[a]) PROVE ended'[a][n] > i - 1
          OBVIOUS
        <5>1. CASE n = Len(ended[a]) + 1
          BY <3>5, <5>1
        <5>2. CASE n \in 1 .. Len(ended[a])
          <6>1. ended[a][n] > i /\ ended[a][n] \in Nat /\ ended'[a][n] = ended[a][n]
            BY <1>3, <3>5, <5>2 DEF Passed
          <6> QED BY <6>1
        <5> QED BY <3>6, <5>1, <5>2
      <4>2. ASSUME NEW j \in Comps(a), j > i - 1 PROVE Done(a, j)'
        <5>1. CASE j = i
          BY <3>7, <5>1 DEF Done
        <5>2. CASE j # i
          <6>1. j > i
            BY <1>3, <4>2, <5>2 DEF Comps
          <6> QED BY <1>3, <3>2, <3>7, <5>2, <6>1 DEF Passed, Done, Untouched
        <5> QED BY <5>1, <5>2
      <4> QED BY <1>5, <4>1, <4>2 DEF Passed
    <3>9. Orderly(a)'
      <4>1. \A j \in Comps(a) : (state[a][j] = "shutdown" => Ended(a, j))'
        BY <1>2, <3>2, <3>7 DEF Orderly
      <4>2. ASSUME NEW j \in 1 .. Len(ended'[a]), NEW n \in 1 .. Len(ended'[a]), j < n
            PROVE  ended'[a][j] > ended'[a][n]
        <5>1. j \in 1 .. Len(ended[a])
          BY <3>5, <3>6, <4>2
        <5>2. CASE n \in 1 .. Len(ended[a])
          BY <1>2, <3>5, <4>2, <5>1, <5>2 DEF Orderly
        <5>3. CASE n = Len(ended[a]) + 1
          BY <1>3, <3>5, <5>1, <5>3 DEF Passed
        <5> QED BY <3>6, <5>2, <5>3
      <4> QED BY <1>5, <4>1, <4>2 DEF Orderly
    <3> QED BY <1>2, <1>4, <2>2, <3>2, <3>4, <3>8, <3>9, TearDownStep DEF Tearing
  <2> QED BY <2>3, <2>4
<1> QED BY <1>7, <1>8

\* The teardown looks at the next component.
LEMMA VisitStep ==
  ASSUME ApplicationInv, NEW a \in Apps, NEW t \in Threads, Visit(a, t)
  PROVE  ApplicationInv'
<1>1. PICK i \in Nat : i = idx[a][t]
  BY DEF ApplicationInv, TypeOK
<1>2. /\ TypeOK /\ AppOK(a) /\ Progress(a, t) /\ Orderly(a) /\ pc[a][t] = "visit" /\ pc[a][t] \in Tearing
      /\ Size(a) \in Nat
  BY DEF ApplicationInv, AppOK, Tearing, TypeOK, Projects, Size, Visit
<1>3. i <= Size(a) /\ Passed(a, i) /\ (i # 0 => i \in Comps(a))
  BY <1>1, <1>2 DEF Progress, Comps
<1>4. /\ UNCHANGED <<project, phase, runtime, goal>> /\ UNCHANGED sched /\ UNCHANGED <<queued, executing>>
      /\ UNCHANGED <<state, ended>>
  BY DEF Visit, app, work
<1>5. \A k : Passed(a, k) => Passed(a, k)'
  BY <1>4 DEF Passed, Done, Untouched, Ended, Comps, Size
<1>6. Orderly(a)'
  BY <1>2, <1>4 DEF Orderly, Ended, Comps, Size
<1>7. PICK p \in Tearing, k \in Nat :
        /\ At(a, t, p, k) /\ k <= Size(a) /\ Passed(a, k)
        /\ p \in {"stop", "shutdown"} => k # 0
        /\ p = "torn" => k = 0
        /\ p = "stop" => state[a][k] = "started"
        /\ p = "shutdown" => state[a][k] \notin {"started", "shutdown"}
  <2>1. IF i = 0 THEN At(a, t, "torn", 0)
        ELSE IF state[a][i] = "started" THEN At(a, t, "stop", i)
        ELSE IF state[a][i] # "shutdown" THEN At(a, t, "shutdown", i)
        ELSE At(a, t, "visit", i - 1)
    BY <1>1 DEF Visit
  <2>2. CASE i # 0 /\ state[a][i] = "shutdown"
    <3>1. Ended(a, i)
      BY <1>2, <1>3, <2>2 DEF Orderly
    <3>2. Passed(a, i - 1)
      BY <1>2, <1>3, <2>2, <3>1 DEF Passed, Done, Comps, TypeOK
    <3>3. i - 1 \in Nat /\ i - 1 <= Size(a)
      BY <1>2, <1>3, <2>2
    <3>4. At(a, t, "visit", i - 1)
      BY <2>1, <2>2
    <3> QED BY <3>2, <3>3, <3>4 DEF Tearing
  <2>3. CASE i = 0
    BY <1>3, <2>1, <2>3 DEF Tearing
  <2>4. CASE i # 0 /\ state[a][i] # "shutdown"
    BY <1>3, <2>1, <2>4 DEF Tearing
  <2> QED BY <2>2, <2>3, <2>4
<1>8. /\ state' = [b \in Apps |-> state'[b]] /\ \A b \in Apps \ {a} : state'[b] = state[b]
      /\ state'[a] \in [Comps(a) -> States]
      /\ ended' \in [Apps -> Seq(Nat)] /\ \A b \in Apps \ {a} : ended'[b] = ended[b]
  BY <1>4, UnchangedLocal
<1> QED BY <1>2, <1>4, <1>5, <1>6, <1>7, <1>8, TearDownStep
-----------------------------------------------------------------------------
(* The scheduler *)

\* A thread at the scheduler goes on there, or to the teardown of everything
\* when the scheduler is off.
LEMMA ServeStep ==
  ASSUME ApplicationInv, NEW a \in Apps, NEW t \in Threads, NEW p \in {"sched", "up", "drain", "visit"},
         pc[a][t] \in Serving, GoTo(a, t, p), NEW s \in {"off", "starting", "on", "draining"},
         sched' = [sched EXCEPT ![a] = s], s = "off" => queued[a] = {} /\ executing[a] = {},
         IF p = "visit" THEN s = "off" /\ idx' = [idx EXCEPT ![a][t] = Size(a)]
         ELSE idx' = idx \/ idx' = [idx EXCEPT ![a][t] = 0],
         UNCHANGED <<project, phase, runtime, goal, state, queued, executing, ended>>
  PROVE  ApplicationInv'
<1>1. /\ TypeOK /\ AppOK(a) /\ Progress(a, t) /\ Orderly(a) /\ p \in Points /\ p \in Busy /\ pc[a][t] \in Busy
      /\ Size(a) \in Nat /\ Size(a)' = Size(a) /\ Comps(a)' = Comps(a)
  BY DEF ApplicationInv, AppOK, Points, Busy, Serving, Tearing, TypeOK, Projects, Size, Comps
<1>2. ended[a] = << >>
  BY <1>1 DEF Progress
<1>3. pc'[a][t] = p
  BY <1>1, GoesTo
<1>4. /\ idx' \in [Apps -> [Threads -> Nat]] /\ \A b \in Apps \ {a} : idx'[b] = idx[b]
      /\ p = "visit" => idx'[a][t] = Size(a)
  <2>1. idx \in [Apps -> [Threads -> Nat]]
    BY <1>1 DEF TypeOK
  <2> QED BY <1>1, <2>1
<1>5. /\ sched' \in [Apps -> {"off", "starting", "on", "draining"}]
      /\ sched'[a] = s /\ \A b \in Apps \ {a} : sched'[b] = sched[b]
  BY <1>1 DEF TypeOK
<1>6. /\ UNCHANGED <<queued, executing>> /\ UNCHANGED state /\ UNCHANGED ended
  OBVIOUS
<1>7. Local(a) /\ state'[a] \in [Comps(a) -> States] /\ ended'[a] = << >>
  BY <1>2, <1>4, <1>5, <1>6, UnchangedLocal DEF Local
<1>8. SchedulerOK(a)'
  BY <1>3, <1>5 DEF SchedulerOK, Serving
<1>9. \A n \in 1 .. Len(ended'[a]) : FALSE
  BY <1>7
<1>10. Orderly(a)'
  BY <1>1, <1>2, <1>6 DEF Orderly, Ended
<1>11. Progress(a, t)'
  <2>1. CASE p = "visit"
    <3>1. Passed(a, Size(a))'
      BY <1>1, <1>9 DEF Passed, Comps
    <3>2. Passed(a, idx[a][t])'
      BY <1>1, <1>4, <2>1, <3>1 DEF Passed
    <3>3. idx'[a][t] \in 0 .. Size(a)
      BY <1>1, <1>4, <2>1
    <3> QED BY <1>1, <1>3, <2>1, <3>2, <3>3 DEF Progress, Starting, Serving
  <2>2. CASE p # "visit"
    BY <1>3, <1>7, <2>2 DEF Progress, Starting, Serving
  <2> QED BY <2>1, <2>2
<1> QED BY <1>1, <1>7, <1>8, <1>10, <1>11, BusyStep

\* Starting the scheduler, and stopping it.
LEMMA SchedulerSteps ==
  ASSUME ApplicationInv, NEW a \in Apps,
         \/ SchedulerStarts(a) \/ SchedulerStarted(a) \/ SchedulerStartFails(a)
         \/ \E t \in Threads : SchedulerStops(a, t) \/ Drained(a, t)
  PROVE  ApplicationInv'
<1>1. TypeOK /\ AppOK(a) /\ "owner" \in Threads
  BY DEF ApplicationInv, Threads
<1>2. sched = [b \in Apps |-> sched[b]] /\ pc \in [Apps -> [Threads -> Points]]
  BY <1>1 DEF TypeOK
<1>3. CASE SchedulerStarts(a)
  <2>1. GoTo(a, "owner", "sched")
    BY <1>1, <1>2, <1>3 DEF SchedulerStarts, GoTo, threads
  <2> QED BY <1>1, <1>3, <2>1, ServeStep DEF SchedulerStarts, Serving, app, threads
<1>4. CASE SchedulerStarted(a)
  BY <1>1, <1>4, ServeStep DEF SchedulerStarted, Serving, app
<1>5. CASE SchedulerStartFails(a)
  <2>1. pc[a]["owner"] \in Serving /\ UNCHANGED <<project, phase, runtime, goal, state, queued, executing, ended>>
    BY <1>5 DEF SchedulerStartFails, Serving, app
  <2>2. CASE sched[a] = "off" /\ At(a, "owner", "visit", Size(a)) /\ UNCHANGED sched
    <3>1. sched' = [sched EXCEPT ![a] = "off"]
      BY <1>2, <2>2
    <3>2. queued[a] = {} /\ executing[a] = {}
      BY <1>1, <2>2 DEF AppOK, SchedulerOK
    <3> QED BY <1>1, <2>1, <2>2, <3>1, <3>2, ServeStep DEF At
  <2>3. CASE At(a, "owner", "drain", 0) /\ sched' = [sched EXCEPT ![a] = "draining"]
    BY <1>1, <2>1, <2>3, ServeStep DEF At
  <2> QED BY <1>5, <2>2, <2>3 DEF SchedulerStartFails
<1>6. ASSUME NEW t \in Threads, SchedulerStops(a, t) PROVE ApplicationInv'
  BY <1>1, <1>6, ServeStep DEF SchedulerStops, Serving, app
<1>7. ASSUME NEW t \in Threads, Drained(a, t) PROVE ApplicationInv'
  BY <1>1, <1>7, ServeStep DEF Drained, Serving, app, At
<1> QED BY <1>3, <1>4, <1>5, <1>6, <1>7

\* Workers run while the scheduler is on: an execution that fails meets no
\* thread that brings up or tears down.
LEMMA WorkStep ==
  ASSUME ApplicationInv, NEW a \in Apps, sched[a] # "off",
         queued' = [queued EXCEPT ![a] = queued'[a]], executing' = [executing EXCEPT ![a] = executing'[a]],
         UNCHANGED state \/ \E i \in Comps(a) : SetComponentState(a, i, "error"),
         UNCHANGED <<project, phase, runtime, pc, idx, goal, sched, ended>>
  PROVE  ApplicationInv'
<1>1. TypeOK /\ AppOK(a) /\ Comps(a)' = Comps(a)
  BY DEF ApplicationInv, Comps, Size
<1>2. /\ state' = [b \in Apps |-> state'[b]] /\ \A b \in Apps \ {a} : state'[b] = state[b]
      /\ state'[a] \in [Comps(a) -> States]
      /\ \A j \in Comps(a) : state'[a][j] = "shutdown" => state[a][j] = "shutdown"
  <2>1. CASE UNCHANGED state
    BY <2>1, UnchangedLocal
  <2>2. CASE \E i \in Comps(a) : SetComponentState(a, i, "error")
    <3>1. PICK i \in Comps(a) : SetComponentState(a, i, "error")
      BY <2>2
    <3>2. /\ state' = [b \in Apps |-> state'[b]] /\ \A b \in Apps \ {a} : state'[b] = state[b]
          /\ state'[a] \in [Comps(a) -> States]
          /\ state'[a][i] = "error" /\ \A j \in Comps(a) \ {i} : state'[a][j] = state[a][j]
      BY <3>1, ComponentState DEF States
    <3> QED BY <3>2
  <2> QED BY <2>1, <2>2
<1>3. /\ queued' = [b \in Apps |-> queued'[b]] /\ \A b \in Apps \ {a} : queued'[b] = queued[b]
      /\ executing' = [b \in Apps |-> executing'[b]] /\ \A b \in Apps \ {a} : executing'[b] = executing[b]
  <2>1. queued = [b \in Apps |-> queued[b]] /\ executing = [b \in Apps |-> executing[b]]
    BY <1>1 DEF TypeOK
  <2>2. PICK q, e : q = queued'[a] /\ e = executing'[a]
    OBVIOUS
  <2>3. queued' = [queued EXCEPT ![a] = q] /\ executing' = [executing EXCEPT ![a] = e]
    BY <2>2
  <2>4. queued' = [b \in Apps |-> queued'[b]] /\ \A b \in Apps \ {a} : queued'[b] = queued[b]
    BY <2>1, <2>3
  <2>5. executing' = [b \in Apps |-> executing'[b]] /\ \A b \in Apps \ {a} : executing'[b] = executing[b]
    BY <2>1, <2>3
  <2> QED BY <2>4, <2>5
<1>4. TypeOK'
  BY <1>1, <1>2, <1>3 DEF TypeOK
<1>5. \A b \in Apps \ {a} : Same(b)
  BY <1>2, <1>3 DEF Same
<1>6. phase[a] = "running" \/ \E t \in Threads : pc[a][t] \in Serving
  BY <1>1 DEF AppOK, SchedulerOK
<1>7. \A t \in Threads : pc[a][t] \notin Starting \cup Tearing
  BY SchedulerIsOff
<1>8. phase[a] = "running" \/ ~NoneBusy(a)
  BY <1>6 DEF NoneBusy, IsBusy, Busy
<1>9. ValuesOK(a)' /\ ThreadsOK(a)' /\ SchedulerOK(a)' /\ TransportsOK(a)'
  BY <1>1, <1>2 DEF AppOK, ValuesOK, ThreadsOK, SchedulerOK, TransportsOK, IsBusy, NoneBusy
<1>10. Settled(a)'
  BY <1>1, <1>8 DEF AppOK, Settled, NoneBusy, IsBusy
<1>11. Orderly(a)'
  BY <1>1, <1>2 DEF AppOK, Orderly, Ended
<1>12. \A t \in Threads : Progress(a, t)'
  BY <1>1, <1>7 DEF AppOK, Progress, Tearing
<1> QED BY <1>4, <1>5, <1>9, <1>10, <1>11, <1>12, OthersSame DEF AppOK

\* Triggers and workers.
LEMMA WorkSteps ==
  ASSUME ApplicationInv, NEW a \in Apps, NEW i \in Comps(a), Trigger(a, i) \/ WorkerStep(a, i)
  PROVE  ApplicationInv'
<1>1. TypeOK /\ AppOK(a)
  BY DEF ApplicationInv
<1>2. queued = [b \in Apps |-> queued[b]] /\ executing = [b \in Apps |-> executing[b]]
  BY <1>1 DEF TypeOK
<1>3. /\ sched[a] # "off"
      /\ UNCHANGED <<project, phase, runtime, pc, idx, goal, sched, ended>>
      /\ UNCHANGED state \/ \E k \in Comps(a) : SetComponentState(a, k, "error")
  BY <1>1 DEF Trigger, WorkerStep, Execute, ExecuteReturns, app, threads, AppOK, SchedulerOK
<1>4. PICK q : queued' = [queued EXCEPT ![a] = q]
  <2>1. queued = [queued EXCEPT ![a] = queued[a]]
    BY <1>2
  <2> QED BY <2>1 DEF Trigger, WorkerStep, Execute, ExecuteReturns
<1>5. PICK e : executing' = [executing EXCEPT ![a] = e]
  <2>1. executing = [executing EXCEPT ![a] = executing[a]]
    BY <1>2
  <2> QED BY <2>1 DEF Trigger, WorkerStep, Execute, ExecuteReturns
<1>6. q = queued'[a] /\ e = executing'[a]
  BY <1>2, <1>4, <1>5
<1> QED BY <1>3, <1>4, <1>5, <1>6, WorkStep
-----------------------------------------------------------------------------
(* Start and Stop *)

\* Start begins: nobody else is busy with an application that was not started.
LEMMA StartStep == ASSUME ApplicationInv, NEW a \in Apps, Start(a) PROVE ApplicationInv'
<1>1. /\ TypeOK /\ AppOK(a) /\ "owner" \in Threads /\ "helper" \in Threads /\ Size(a) \in Nat
      /\ Size(a)' = Size(a) /\ Comps(a)' = Comps(a)
  BY DEF ApplicationInv, Threads, TypeOK, Projects, Size, Comps, Start, app
<1>2. /\ pc[a]["owner"] = "idle" /\ phase[a] = "created"
      /\ UNCHANGED <<project, phase, runtime, state, sched, queued, executing, ended>>
  BY DEF Start, app, work
<1>3. goal' \in [Apps -> Goals] /\ goal'[a] \in {"start", "run"} /\ \A b \in Apps \ {a} : goal'[b] = goal[b]
  <2>1. goal \in [Apps -> Goals]
    BY <1>1 DEF TypeOK, Goals
  <2>2. PICK g \in {"start", "run"} : goal' = [goal EXCEPT ![a] = g]
    BY DEF Start
  <2> QED BY <2>1, <2>2 DEF Goals
<1>4. PICK p \in {"configure", "sched"}, k \in Nat : At(a, "owner", p, k) /\ (p = "configure" => k = 1 /\ 1 \in Comps(a))
  BY <1>1 DEF Start, Comps
<1>5. p \in Points /\ p \in Busy
  BY DEF Points, Busy, Starting, Serving
<1>6. /\ pc' \in [Apps -> [Threads -> Points]] /\ idx' \in [Apps -> [Threads -> Nat]]
      /\ pc'[a]["owner"] = p /\ idx'[a]["owner"] = k /\ pc'[a]["helper"] = pc[a]["helper"]
      /\ \A b \in Apps \ {a} : pc'[b] = pc[b] /\ idx'[b] = idx[b]
  BY <1>1, <1>4, <1>5, GoesAt DEF Threads
<1>7. TypeOK'
  BY <1>1, <1>2, <1>3, <1>6 DEF TypeOK, Goals
<1>8. \A b \in Apps \ {a} : Same(b)
  BY <1>2, <1>3, <1>6 DEF Same
<1>9. ~IsBusy(a, "helper") /\ ~IsBusy(a, "helper")' /\ ~IsBusy(a, "owner") /\ NoneBusy(a)
  BY <1>1, <1>2, <1>6 DEF AppOK, ThreadsOK, IsBusy, NoneBusy, Threads, Busy, Starting, Serving, Tearing
<1>10. ended[a] = << >> /\ \A j \in Comps(a) : Untouched(a, j)
  BY <1>1, <1>2, <1>9 DEF AppOK, Settled
<1>11. \A t \in Threads : IsBusy(a, t)' => t = "owner"
  BY <1>9 DEF Threads
<1>12. IsBusy(a, "owner")' /\ ~NoneBusy(a)'
  BY <1>1, <1>5, <1>6 DEF IsBusy, NoneBusy
<1>13. ValuesOK(a)'
  BY <1>1, <1>2 DEF AppOK, ValuesOK
<1>14. ThreadsOK(a)'
  BY <1>2, <1>3, <1>6, <1>9, <1>11 DEF ThreadsOK
<1>15. SchedulerOK(a)'
  BY <1>1, <1>2, <1>9 DEF AppOK, SchedulerOK, NoneBusy, IsBusy, Busy
<1>16. TransportsOK(a)'
  BY <1>1, <1>2, <1>6 DEF AppOK, TransportsOK
<1>17. Settled(a)' /\ Orderly(a)'
  BY <1>1, <1>2, <1>12 DEF AppOK, Settled, Orderly, Ended
<1>18. Progress(a, "owner")'
  <2>1. CASE p = "configure"
    BY <1>1, <1>2, <1>4, <1>6, <1>10, <2>1 DEF Progress, Starting, Serving, Untouched
  <2>2. CASE p = "sched"
    BY <1>2, <1>6, <1>10, <2>2 DEF Progress, Starting, Serving
  <2> QED BY <2>1, <2>2
<1>19. Progress(a, "helper")'
  BY <1>9 DEF Progress, IsBusy, Busy, Tearing
<1>20. \A t \in Threads : Progress(a, t)'
  BY <1>18, <1>19 DEF Threads
<1> QED BY <1>7, <1>8, <1>13, <1>14, <1>15, <1>16, <1>17, <1>20, OthersSame DEF AppOK

\* A step after which no thread is busy but those that were.
LEMMA RestStep ==
  ASSUME ApplicationInv, NEW a \in Apps, NEW t \in Threads, NEW p \in {"idle", "waiting", "dead"}, GoTo(a, t, p),
         phase' \in [Apps -> {"created", "running", "stopped"}], \A b \in Apps \ {a} : phase'[b] = phase[b],
         goal' \in [Apps -> Goals], \A b \in Apps \ {a} : goal'[b] = goal[b],
         runtime' = [b \in Apps |-> runtime'[b]], \A b \in Apps \ {a} : runtime'[b] = runtime[b],
         Context(runtime'[a]),
         UNCHANGED <<project, state, idx, work, ended>>,
         ThreadsOK(a)', SchedulerOK(a)', TransportsOK(a)', Settled(a)'
  PROVE  ApplicationInv'
<1>1. TypeOK /\ AppOK(a) /\ p \in Points \ Busy /\ Size(a)' = Size(a) /\ Comps(a)' = Comps(a)
  BY DEF ApplicationInv, Points, Busy, Starting, Serving, Tearing, Size, Comps
<1>2. /\ pc' \in [Apps -> [Threads -> Points]] /\ pc'[a][t] = p
      /\ \A u \in Threads \ {t} : pc'[a][u] = pc[a][u]
      /\ \A b \in Apps \ {a} : pc'[b] = pc[b]
  BY <1>1, GoesTo
<1>3. TypeOK'
  BY <1>1, <1>2 DEF TypeOK, Goals, work
<1>4. \A b \in Apps \ {a} : Same(b)
  BY <1>2 DEF Same, work
<1>5. ValuesOK(a)' /\ Orderly(a)'
  BY <1>1 DEF AppOK, ValuesOK, Orderly, Ended
<1>6. \A u \in Threads : Progress(a, u)'
  <2> TAKE u \in Threads
  <2>1. CASE u = t
    BY <1>1, <1>2, <2>1 DEF Progress, Busy, Tearing
  <2>2. CASE u # t
    BY <1>1, <1>2, <2>2 DEF AppOK, Progress, Passed, Done, Untouched, Ended
  <2> QED BY <2>1, <2>2
<1> QED BY <1>3, <1>4, <1>5, <1>6, OthersSame DEF AppOK

\* Start succeeds.
LEMMA StartedStep == ASSUME ApplicationInv, NEW a \in Apps, Started(a) PROVE ApplicationInv'
<1>1. TypeOK /\ AppOK(a) /\ "owner" \in Threads /\ "helper" \in Threads /\ pc[a]["owner"] = "up"
  BY DEF ApplicationInv, Threads, Started
<1>2. UNCHANGED <<project, runtime, state, idx, goal, work, ended>>
  BY DEF Started
<1>3. phase' \in [Apps -> {"created", "running", "stopped"}] /\ phase'[a] = "running" /\ \A b \in Apps \ {a} : phase'[b] = phase[b]
  BY <1>1 DEF Started, TypeOK
<1>4. PICK p \in {"idle", "waiting"} : GoTo(a, "owner", p)
  BY DEF Started
<1>5. p \in Points
  BY DEF Points
<1>6. pc'[a]["owner"] = p /\ pc'[a]["helper"] = pc[a]["helper"]
  BY <1>1, <1>4, <1>5, GoesTo DEF Threads
<1>7. IsBusy(a, "owner") /\ ~IsBusy(a, "helper")
  BY <1>1 DEF AppOK, ThreadsOK, IsBusy, Busy, Serving, Threads
<1>8. ~IsBusy(a, "owner")' /\ ~IsBusy(a, "helper")' /\ \A u \in Threads : ~IsBusy(a, u)'
  BY <1>6, <1>7 DEF IsBusy, Busy, Starting, Serving, Tearing, Threads
<1>9. ThreadsOK(a)'
  <2>1. pc'[a]["owner"] \in {"create", "own", "dead"} \/ goal'[a] = "destroy" => pc'[a]["helper"] \in {"idle", "dead"}
    BY <1>1, <1>2, <1>6 DEF AppOK, ThreadsOK
  <2> QED BY <1>6, <1>8, <2>1 DEF ThreadsOK
<1>10. SchedulerOK(a)'
  BY <1>1, <1>2, <1>3 DEF AppOK, SchedulerOK, work
<1>11. AllOpen(runtime[a])
  BY <1>1, <1>7 DEF AppOK, TransportsOK, NoneBusy
<1>12. TransportsOK(a)'
  BY <1>2, <1>6, <1>11 DEF TransportsOK
<1>13. Settled(a)'
  <2>1. ended[a] = << >>
    BY <1>1 DEF AppOK, Progress, Serving
  <2> QED BY <1>2, <1>3, <2>1 DEF Settled
<1>14. /\ runtime' = [b \in Apps |-> runtime'[b]] /\ \A b \in Apps \ {a} : runtime'[b] = runtime[b]
       /\ Context(runtime'[a])
       /\ goal' \in [Apps -> Goals] /\ \A b \in Apps \ {a} : goal'[b] = goal[b]
  BY <1>1, <1>2 DEF TypeOK, AppOK, ValuesOK, Goals
<1> QED BY <1>1, <1>2, <1>3, <1>4, <1>9, <1>10, <1>12, <1>13, <1>14, RestStep

\* A call ends, and with the destructor's the application.
LEMMA Leaves ==
  ASSUME TypeOK, NEW a \in Apps, NEW t \in Threads, Leave(a, t)
  PROVE  /\ \E p \in {"idle", "dead"} : GoTo(a, t, p) /\ (p = "dead" <=> t = "owner" /\ goal[a] = "destroy")
         /\ goal' \in [Apps -> Goals] /\ \A b \in Apps \ {a} : goal'[b] = goal[b]
         /\ IF t = "owner" THEN goal'[a] = "none" ELSE goal'[a] = goal[a]
BY DEF Leave, TypeOK, Goals

\* The one who finds the application running stops it.
LEMMA StopRunning ==
  ASSUME ApplicationInv, NEW a \in Apps, NEW t \in Threads, Stop(a, t), phase[a] = "running"
  PROVE  ApplicationInv'
<1>1. TypeOK /\ AppOK(a) /\ "owner" \in Threads /\ "helper" \in Threads
  BY DEF ApplicationInv, Threads
<1>2. /\ GoTo(a, t, "sched_stop") /\ UNCHANGED <<project, runtime, goal, state, idx, sched, queued, executing, ended>>
      /\ pc[a][t] = "stopping"
  BY DEF Stop, work
<1>3. /\ phase' \in [Apps -> {"created", "running", "stopped"}] /\ phase'[a] = "stopped"
      /\ \A b \in Apps \ {a} : phase'[b] = phase[b]
  BY <1>1 DEF Stop, TypeOK
<1>4. "sched_stop" \in Points /\ "sched_stop" \in Busy /\ "sched_stop" \in Serving
  BY DEF Points, Busy, Serving
<1>5. /\ pc' \in [Apps -> [Threads -> Points]] /\ pc'[a][t] = "sched_stop"
      /\ \A u \in Threads \ {t} : pc'[a][u] = pc[a][u]
      /\ \A b \in Apps \ {a} : pc'[b] = pc[b]
  BY <1>1, <1>2, <1>4, GoesTo
<1>6. TypeOK'
  BY <1>1, <1>2, <1>3, <1>5 DEF TypeOK
<1>7. \A b \in Apps \ {a} : Same(b)
  BY <1>2, <1>3, <1>5 DEF Same
<1>8. \A u \in Threads : ~IsBusy(a, u)
  BY <1>1 DEF AppOK, ThreadsOK
<1>9. IsBusy(a, t)' /\ \A u \in Threads \ {t} : ~IsBusy(a, u)'
  BY <1>4, <1>5, <1>8 DEF IsBusy
<1>10. ~NoneBusy(a)' /\ \A u \in Threads : IsBusy(a, u)' => u = t
  BY <1>9 DEF NoneBusy
<1>12. pc'[a]["owner"] \notin {"create", "own", "dead"} /\ pc[a]["owner"] \notin {"create", "own", "dead"}
  <2>1. pc[a]["owner"] \notin {"create", "own", "dead"}
    BY <1>1 DEF AppOK, ThreadsOK
  <2> QED BY <1>1, <1>5, <2>1
<1>13. ValuesOK(a)'
  BY <1>1, <1>2 DEF AppOK, ValuesOK, Comps, Size
<1>14. ThreadsOK(a)'
  <2>1. goal'[a] = "destroy" => pc'[a]["helper"] \in {"idle", "dead"}
    <3> SUFFICES ASSUME goal'[a] = "destroy" PROVE pc'[a]["helper"] \in {"idle", "dead"}
      OBVIOUS
    <3>1. pc[a]["helper"] \in {"idle", "dead"}
      BY <1>1, <1>2 DEF AppOK, ThreadsOK
    <3>2. t # "helper"
      BY <1>2, <3>1
    <3> QED BY <1>1, <1>5, <3>1, <3>2
  <2>2. \A u \in Threads : IsBusy(a, u)' => (phase[a] # "running")' /\ \A v \in Threads \ {u} : ~IsBusy(a, v)'
    BY <1>3, <1>10
  <2> QED BY <1>3, <1>12, <2>1, <2>2 DEF ThreadsOK
<1>15. SchedulerOK(a)'
  BY <1>1, <1>2, <1>4, <1>5 DEF AppOK, SchedulerOK
<1>16. TransportsOK(a)'
  BY <1>1, <1>2, <1>12 DEF AppOK, TransportsOK
<1>17. ended[a] = << >>
  BY <1>1 DEF AppOK, Settled
<1>18. Settled(a)' /\ Orderly(a)'
  BY <1>1, <1>2, <1>3, <1>10 DEF AppOK, Settled, Orderly, Ended, Comps, Size
<1>19. \A u \in Threads : Progress(a, u)'
  <2> TAKE u \in Threads
  <2>1. CASE u = t
    BY <1>2, <1>5, <1>17, <2>1 DEF Progress, Starting
  <2>2. CASE u # t
    BY <1>9, <2>2 DEF Progress, IsBusy, Busy, Tearing
  <2> QED BY <2>1, <2>2
<1> QED BY <1>6, <1>7, <1>13, <1>14, <1>15, <1>16, <1>18, <1>19, OthersSame DEF AppOK

\* Stop finds the application not running, or not yet: a Start under way goes on.
LEMMA StopIdle ==
  ASSUME ApplicationInv, NEW a \in Apps, NEW t \in Threads, Stop(a, t), phase[a] # "running"
  PROVE  ApplicationInv'
<1>1. TypeOK /\ AppOK(a) /\ "owner" \in Threads /\ "helper" \in Threads
  BY DEF ApplicationInv, Threads
<1>2. /\ pc[a][t] = "stopping" /\ Leave(a, t)
      /\ IF pc'[a]["owner"] = "dead" THEN SetRuntime(a, Close(runtime[a])) ELSE UNCHANGED runtime
      /\ UNCHANGED <<project, state, idx, work, ended>>
  BY DEF Stop
<1>3. /\ phase' \in [Apps -> {"created", "running", "stopped"}] /\ phase'[a] = "stopped"
      /\ \A b \in Apps \ {a} : phase'[b] = phase[b]
  BY <1>1 DEF Stop, TypeOK
<1>4. /\ goal' \in [Apps -> Goals] /\ \A b \in Apps \ {a} : goal'[b] = goal[b]
      /\ IF t = "owner" THEN goal'[a] = "none" ELSE goal'[a] = goal[a]
  BY <1>1, <1>2, Leaves
<1>5. PICK p \in {"idle", "dead"} : GoTo(a, t, p) /\ (p = "dead" <=> t = "owner" /\ goal[a] = "destroy")
  BY <1>1, <1>2, Leaves
<1>6. p \in Points /\ p \notin Busy /\ "stopping" \notin Busy
  BY DEF Points, Busy, Starting, Serving, Tearing
<1>7. pc'[a][t] = p /\ \A u \in Threads \ {t} : pc'[a][u] = pc[a][u]
  BY <1>1, <1>5, <1>6, GoesTo
<1>8. (\A u \in Threads : IsBusy(a, u)' <=> IsBusy(a, u)) /\ (NoneBusy(a)' <=> NoneBusy(a))
  BY <1>2, <1>6, <1>7 DEF IsBusy, NoneBusy
<1>9. pc[a]["owner"] \notin {"create", "own", "dead"}
  <2>1. CASE t = "owner"
    BY <1>2, <2>1
  <2>2. CASE t = "helper"
    BY <1>1, <1>2, <2>2 DEF AppOK, ThreadsOK
  <2> QED BY <2>1, <2>2 DEF Threads
<1>10. /\ pc'[a]["owner"] \notin {"create", "own"}
       /\ pc'[a]["owner"] = "dead" => t = "owner" /\ pc'[a]["helper"] \in {"idle", "dead"}
       /\ goal'[a] = "destroy" => pc'[a]["helper"] \in {"idle", "dead"}
  <2>1. CASE t = "owner"
    BY <1>1, <1>4, <1>5, <1>7, <2>1 DEF AppOK, ThreadsOK
  <2>2. CASE t = "helper"
    BY <1>1, <1>5, <1>7, <1>9, <2>2
  <2> QED BY <2>1, <2>2 DEF Threads
<1>11. ThreadsOK(a)'
  <2>1. \A u \in Threads : IsBusy(a, u)' => (phase[a] # "running")' /\ \A v \in Threads \ {u} : ~IsBusy(a, v)'
    BY <1>1, <1>3, <1>8 DEF AppOK, ThreadsOK
  <2> QED BY <1>3, <1>10, <2>1 DEF ThreadsOK
<1>12. SchedulerOK(a)'
  <2>1. \A u \in Threads : pc[a][u] \in Serving => pc'[a][u] \in Serving
    BY <1>2, <1>7 DEF Serving
  <2> QED BY <1>1, <1>2, <2>1 DEF AppOK, SchedulerOK, work
<1>13. /\ runtime' = [b \in Apps |-> runtime'[b]] /\ \A b \in Apps \ {a} : runtime'[b] = runtime[b]
       /\ Context(runtime'[a])
       /\ IF pc'[a]["owner"] = "dead" THEN AllClosed(runtime'[a]) ELSE runtime'[a] = runtime[a]
  <2>1. Context(runtime[a]) /\ runtime = [b \in Apps |-> runtime[b]]
    BY <1>1 DEF AppOK, ValuesOK, TypeOK
  <2>2. CASE pc'[a]["owner"] = "dead"
    <3>1. runtime' = [runtime EXCEPT ![a] = Close(runtime[a])]
      BY <1>2, <2>2 DEF SetRuntime
    <3>2. PICK rt : rt = Close(runtime[a])
      OBVIOUS
    <3>3. runtime'[a] = rt /\ runtime' = [b \in Apps |-> runtime'[b]] /\ \A b \in Apps \ {a} : runtime'[b] = runtime[b]
      BY <2>1, <3>1, <3>2
    <3> QED BY <2>1, <2>2, <3>2, <3>3, ClosedContext
  <2>3. CASE pc'[a]["owner"] # "dead"
    BY <1>2, <2>1, <2>3
  <2> QED BY <2>2, <2>3
<1>14. TransportsOK(a)'
  BY <1>1, <1>3, <1>8, <1>9, <1>13 DEF AppOK, TransportsOK
<1>15. Settled(a)'
  <2>1. NoneBusy(a) => \A j \in Comps(a) : Done(a, j)
    BY <1>1 DEF AppOK, Settled, Done, TypeOK
  <2>2. NoneBusy(a)' => \A j \in Comps(a) : Done(a, j)'
    BY <1>2, <1>8, <2>1 DEF Done, Untouched, Ended
  <2> QED BY <1>2, <1>3, <2>2 DEF Settled, Comps, Size
<1> QED BY <1>2, <1>3, <1>4, <1>5, <1>11, <1>12, <1>13, <1>14, <1>15, RestStep

\* The teardown is over.
LEMMA TearDownOverStep ==
  ASSUME ApplicationInv, NEW a \in Apps, NEW t \in Threads, TearDownOver(a, t)
  PROVE  ApplicationInv'
<1>1. TypeOK /\ AppOK(a) /\ "owner" \in Threads /\ "helper" \in Threads
  BY DEF ApplicationInv, Threads
<1>2. /\ pc[a][t] = "torn" /\ Leave(a, t) /\ UNCHANGED <<project, state, idx, work, ended>>
  BY DEF TearDownOver
<1>3. /\ goal' \in [Apps -> Goals] /\ \A b \in Apps \ {a} : goal'[b] = goal[b]
      /\ IF t = "owner" THEN goal'[a] = "none" ELSE goal'[a] = goal[a]
  BY <1>1, <1>2, Leaves
<1>4. PICK p \in {"idle", "dead"} : GoTo(a, t, p) /\ (p = "dead" <=> t = "owner" /\ goal[a] = "destroy")
  BY <1>1, <1>2, Leaves
<1>5. p \in Points /\ p \notin Busy
  BY DEF Points, Busy, Starting, Serving, Tearing
<1>6. pc'[a][t] = p /\ \A u \in Threads \ {t} : pc'[a][u] = pc[a][u]
  BY <1>1, <1>4, <1>5, GoesTo
<1>7. IsBusy(a, t) /\ phase[a] # "running" /\ \A u \in Threads \ {t} : ~IsBusy(a, u)
  BY <1>1, <1>2 DEF AppOK, ThreadsOK, IsBusy, Busy, Tearing
<1>8. NoneBusy(a)' /\ \A u \in Threads : ~IsBusy(a, u)'
  BY <1>5, <1>6, <1>7 DEF NoneBusy, IsBusy
<1>9. pc[a]["owner"] \notin {"create", "own", "dead"}
  <2>1. CASE t = "owner"
    BY <1>2, <2>1
  <2>2. CASE t = "helper"
    BY <1>1, <1>2, <2>2 DEF AppOK, ThreadsOK
  <2> QED BY <2>1, <2>2 DEF Threads
<1>10. /\ pc'[a]["owner"] \notin {"create", "own"}
       /\ pc'[a]["owner"] = "dead" => t = "owner" /\ goal[a] = "destroy" /\ pc'[a]["helper"] \in {"idle", "dead"}
       /\ goal'[a] = "destroy" => pc'[a]["helper"] \in {"idle", "dead"}
  <2>1. CASE t = "owner"
    BY <1>1, <1>3, <1>4, <1>6, <2>1 DEF AppOK, ThreadsOK
  <2>2. CASE t = "helper"
    BY <1>1, <1>4, <1>6, <1>9, <2>2
  <2> QED BY <2>1, <2>2 DEF Threads
<1>11. Context(runtime[a]) /\ runtime = [b \in Apps |-> runtime[b]]
  BY <1>1 DEF AppOK, ValuesOK, TypeOK
<1>12. /\ phase' \in [Apps -> {"created", "running", "stopped"}] /\ phase'[a] = "stopped"
       /\ \A b \in Apps \ {a} : phase'[b] = phase[b]
       /\ runtime' = [b \in Apps |-> runtime'[b]] /\ \A b \in Apps \ {a} : runtime'[b] = runtime[b]
       /\ Context(runtime'[a])
       /\ pc'[a]["owner"] = "dead" => AllClosed(runtime'[a])
  <2>1. CASE t = "owner" /\ goal[a] \in {"start", "run"}
    <3>1. phase' = [phase EXCEPT ![a] = "stopped"] /\ UNCHANGED runtime
      BY <2>1 DEF TearDownOver
    <3>2. pc'[a]["owner"] # "dead"
      BY <1>10, <2>1
    <3> QED BY <1>1, <1>11, <3>1, <3>2 DEF TypeOK
  <2>2. CASE ~(t = "owner" /\ goal[a] \in {"start", "run"})
    <3>1. SetRuntime(a, Close(runtime[a])) /\ UNCHANGED phase
      BY <2>2 DEF TearDownOver
    <3>2. phase[a] = "stopped"
      BY <1>1, <1>7, <2>2 DEF AppOK, ThreadsOK, Threads
    <3>3. runtime' = [runtime EXCEPT ![a] = Close(runtime[a])]
      BY <3>1 DEF SetRuntime
    <3>4. PICK rt : rt = Close(runtime[a])
      OBVIOUS
    <3>5. runtime'[a] = rt /\ runtime' = [b \in Apps |-> runtime'[b]] /\ \A b \in Apps \ {a} : runtime'[b] = runtime[b]
      BY <1>11, <3>3, <3>4
    <3>6. Context(runtime'[a]) /\ AllClosed(runtime'[a])
      BY <1>11, <3>4, <3>5, ClosedContext
    <3> QED BY <1>1, <3>1, <3>2, <3>5, <3>6 DEF TypeOK
  <2> QED BY <2>1, <2>2
<1>13. ThreadsOK(a)'
  <2>1. ~IsBusy(a, "owner")' /\ ~IsBusy(a, "helper")'
    BY <1>1, <1>8
  <2> QED BY <1>8, <1>10, <1>12, <2>1 DEF ThreadsOK
<1>14. SchedulerOK(a)'
  <2>1. sched[a] = "off" /\ queued[a] = {} /\ executing[a] = {}
    BY <1>2, SchedulerIsOff DEF Tearing
  <2> QED BY <1>2, <2>1 DEF SchedulerOK, work
<1>15. TransportsOK(a)'
  BY <1>8, <1>12 DEF TransportsOK
<1>16. Settled(a)'
  <2>1. Passed(a, 0)
    BY <1>1, <1>2 DEF AppOK, Progress
  <2>2. \A j \in Comps(a) : Done(a, j)
    BY <2>1 DEF Passed, Comps
  <2>3. \A j \in Comps(a) : Done(a, j)'
    BY <1>2, <2>2 DEF Done, Untouched, Ended
  <2> QED BY <1>2, <1>12, <2>3 DEF Settled, Comps, Size
<1> QED BY <1>2, <1>3, <1>4, <1>12, <1>13, <1>14, <1>15, <1>16, RestStep
-----------------------------------------------------------------------------
(* The theorems *)

\* The invariant holds before anything is created.
LEMMA InitInv == ASSUME Init PROVE ApplicationInv
<1>1. project \in [Apps -> Projects]
  BY ApplicationAssumption DEF Init
<1>2. pc \in [Apps -> [Threads -> Points]]
  BY DEF Init, Points
<1>3. idx \in [Apps -> [Threads -> Nat]] /\ ended \in [Apps -> Seq(Nat)]
  BY DEF Init
<1>4. TypeOK
  BY <1>1, <1>2, <1>3 DEF Init, TypeOK
<1>5. ASSUME NEW a \in Apps PROVE AppOK(a)
  <2>1. /\ pc[a]["owner"] \in {"create", "dead"} /\ pc[a]["helper"] \in {"idle", "dead"}
        /\ runtime[a] = EmptyContext /\ phase[a] = "created" /\ goal[a] = "none"
        /\ sched[a] = "off" /\ queued[a] = {} /\ executing[a] = {} /\ ended[a] = << >>
        /\ state[a] = [i \in Comps(a) |-> "unregistered"]
    BY DEF Init, Threads
  <2>2. \A t \in Threads : pc[a][t] \notin Busy
    BY <2>1 DEF Threads, Busy, Starting, Serving, Tearing
  <2>3. NoneBusy(a) /\ ~IsBusy(a, "owner") /\ ~IsBusy(a, "helper") /\ \A t \in Threads : ~IsBusy(a, t)
    BY <2>2 DEF NoneBusy, IsBusy, Threads
  <2>4. ValuesOK(a)
    BY <2>1, EmptyIsContext DEF ValuesOK, States
  <2>5. ThreadsOK(a) /\ SchedulerOK(a)
    BY <2>1, <2>3 DEF ThreadsOK, SchedulerOK
  <2>6. TransportsOK(a)
    <3>1. EmptyContext.transports = << >>
      BY DEF EmptyContext
    <3>2. AllClosed(EmptyContext)
      BY <3>1 DEF AllClosed, Names
    <3> QED BY <2>1, <3>2 DEF TransportsOK
  <2>7. \A n \in 1 .. Len(ended[a]) : FALSE
    BY <2>1
  <2>8. Settled(a) /\ Orderly(a)
    BY <2>1, <2>7 DEF Settled, Orderly, Untouched
  <2>9. \A t \in Threads : Progress(a, t)
    BY <2>2 DEF Progress, Busy, Tearing
  <2> QED BY <2>4, <2>5, <2>6, <2>8, <2>9 DEF AppOK
<1> QED BY <1>4, <1>5 DEF ApplicationInv

\* A step of a thread inside a call.
LEMMA ThreadKeeps ==
  ASSUME ApplicationInv, NEW a \in Apps, NEW t \in Threads, ThreadStep(a, t)
  PROVE  ApplicationInv'
<1>1. ASSUME NEW ok \in BOOLEAN, CallbackReturns(a, t, ok) PROVE ApplicationInv'
  <2>1. pc[a][t] \in Starting \cup {"stop", "shutdown"}
    BY <1>1 DEF CallbackReturns, Callbacks, LeadsTo, Starting
  <2> QED BY <1>1, <2>1, BringUpStep, TearDownReturns
<1>2. CASE Stop(a, t)
  BY <1>2, StopRunning, StopIdle
<1> QED BY <1>1, <1>2, VisitStep, SchedulerSteps, TearDownOverStep DEF ThreadStep

\* Every step keeps the invariant.
LEMMA NextInv == ASSUME ApplicationInv, [Next]_vars PROVE ApplicationInv'
<1>1. CASE Signal \/ UNCHANGED vars
  BY <1>1, OutsideSteps
<1>2. ASSUME NEW a \in Apps, Call(a) PROVE ApplicationInv'
  BY <1>2, StartStep, QuietSteps, OutsideSteps, CallStopStep DEF Call
<1>3. ASSUME NEW a \in Apps, OwnerStep(a) PROVE ApplicationInv'
  BY <1>3, CreateSteps, SchedulerSteps, StartedStep, QuietSteps DEF OwnerStep
<1>4. ASSUME NEW a \in Apps, WatcherStep(a) PROVE ApplicationInv'
  BY <1>4, OutsideSteps
<1>5. ASSUME NEW a \in Apps, NEW i \in Comps(a), Trigger(a, i) \/ WorkerStep(a, i) PROVE ApplicationInv'
  BY <1>5, WorkSteps
<1> QED BY <1>1, <1>2, <1>3, <1>4, <1>5, ThreadKeeps DEF Next

\* The inductive invariant holds for all applications and projects.
THEOREM ApplicationInvariant == Spec => []ApplicationInv
<1>1. Init => ApplicationInv
  BY InitInv
<1>2. ApplicationInv /\ [Next]_vars => ApplicationInv'
  BY NextInv
<1> QED BY <1>1, <1>2, PTL DEF Spec

\* CallbacksSafe: the callbacks of a component never overlap, also when Stop
\* comes from a second thread during Start, and whoever runs one finds the
\* transports open.
THEOREM CallbacksAreSafe == Spec => []CallbacksSafe
<1>1. ASSUME ApplicationInv, NEW a \in Apps, NEW t \in Threads, InCallback(a, t)
      PROVE  /\ idx[a][t] \notin executing[a]
             /\ \A u \in Threads \ {t} : ~InCallback(a, u)
             /\ pc[a][t] \in Starting \cup Tearing
  <2>1. pc[a][t] \in Starting \cup Tearing
    BY <1>1 DEF InCallback, Callbacks, LeadsTo, Starting, Tearing
  <2>2. executing[a] = {}
    BY <1>1, <2>1, SchedulerIsOff
  <2>3. \A u \in Threads \ {t} : ~IsBusy(a, u)
    BY <1>1, <2>1 DEF ApplicationInv, AppOK, ThreadsOK, IsBusy, Busy
  <2>4. \A u \in Threads : InCallback(a, u) => IsBusy(a, u)
    BY DEF InCallback, Callbacks, LeadsTo, IsBusy, Busy, Starting, Tearing
  <2> QED BY <2>1, <2>2, <2>3, <2>4
<1>2. ApplicationInv => CallbacksExclusive
  BY <1>1 DEF CallbacksExclusive
<1>3. ApplicationInv => TransportsOutliveComponents
  <2> SUFFICES ASSUME ApplicationInv, NEW a \in Apps,
                      executing[a] # {} \/ \E t \in Threads : InCallback(a, t)
               PROVE  \A n \in Names(runtime[a]) : runtime[a].open /\ runtime[a].transports[n].open
    BY DEF TransportsOutliveComponents
  <2>1. AppOK(a)
    BY DEF ApplicationInv
  <2>2. phase[a] = "running" \/ ~NoneBusy(a)
    <3>1. CASE executing[a] # {}
      BY <2>1, <3>1 DEF AppOK, SchedulerOK, NoneBusy, IsBusy, Busy
    <3>2. CASE \E t \in Threads : InCallback(a, t)
      BY <1>1, <3>2 DEF NoneBusy, IsBusy, Busy
    <3> QED BY <3>1, <3>2
  <2>3. pc[a]["owner"] \notin {"create", "dead"}
    <3>1. CASE phase[a] = "running"
      BY <2>1, <3>1 DEF AppOK, ThreadsOK
    <3>2. CASE ~NoneBusy(a)
      <4>1. PICK t \in Threads : IsBusy(a, t)
        BY <3>2 DEF NoneBusy
      <4>2. pc[a][t] \notin {"create", "dead", "idle"}
        BY <4>1 DEF IsBusy, Busy, Starting, Serving, Tearing
      <4> QED BY <2>1, <4>2 DEF AppOK, ThreadsOK, Threads
    <3> QED BY <2>2, <3>1, <3>2
  <2>4. AllOpen(runtime[a])
    BY <2>1, <2>2, <2>3 DEF AppOK, TransportsOK
  <2> QED BY <2>4 DEF AllOpen
<1> QED BY <1>2, <1>3, ApplicationInvariant, PTL DEF CallbacksSafe

\* TornDown: Shutdowns come once, in reverse order and to every component that
\* Start touched, and what is gone leaves no transport open.
THEOREM TornDownCompletely == Spec => []TornDown
<1>1. ApplicationInv => ShutDownInReverse
  BY DEF ApplicationInv, AppOK, Orderly, ShutDownInReverse
<1>2. ApplicationInv => NothingLeftUp
  <2> SUFFICES ASSUME ApplicationInv, NEW a \in Apps, phase[a] # "running",
                      \A t \in Threads : pc[a][t] \in {"idle", "dead"}
               PROVE  /\ sched[a] = "off" /\ executing[a] = {}
                      /\ \A i \in Comps(a) : Done(a, i)
                      /\ pc[a]["owner"] = "dead" => AllClosed(runtime[a])
    BY DEF NothingLeftUp, Done, Untouched, Ended, AllClosed
  <2>1. AppOK(a)
    BY DEF ApplicationInv
  <2>2. NoneBusy(a)
    BY DEF NoneBusy, IsBusy, Busy, Starting, Serving, Tearing
  <2>3. sched[a] = "off" /\ executing[a] = {}
    BY <2>1, <2>2 DEF AppOK, SchedulerOK, NoneBusy, IsBusy, Busy
  <2>4. phase[a] \in {"created", "stopped"}
    BY DEF ApplicationInv, TypeOK
  <2>5. \A i \in Comps(a) : Done(a, i)
    BY <2>1, <2>2, <2>4 DEF AppOK, Settled, Done
  <2> QED BY <2>1, <2>3, <2>5 DEF AppOK, TransportsOK
<1> QED BY <1>1, <1>2, ApplicationInvariant, PTL DEF TornDown
=============================================================================
