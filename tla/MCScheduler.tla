---------------------------- MODULE MCScheduler -----------------------------
(* Small instances of Scheduler for TLC. *)
EXTENDS Scheduler, TLC

CONSTANTS src, sink, log, w1, w2, c1, c2

T(component, kind, policy, deps, priority, deadline) ==
  [component |-> component, kind |-> kind, policy |-> policy, deps |-> deps,
   priority |-> priority, deadline |-> deadline]

\* One of each kind of trigger: src is periodic and manual, sink runs after src,
\* on two topics together, and on a service's requests.
MCTriggers == {"src_timer", "src_manual", "sink_task", "sink_data", "sink_service"}
MCDecl ==
  [t \in MCTriggers |->
     CASE t = "src_timer" -> T(src, "periodic", "any", {}, 1, NoDeadline)
       [] t = "src_manual" -> T(src, "manual", "any", {}, 2, 1)
       [] t = "sink_task" -> T(sink, "task", "all", {src}, 1, NoDeadline)
       [] t = "sink_data" -> T(sink, "data", "all", {"x", "y"}, 1, 1)
       [] t = "sink_service" -> T(sink, "service", "any", {"req"}, 3, NoDeadline)]

\* Two urgent components that keep both workers busy, one of them on a topic, beside
\* one of the lowest priority.
MCBusyTriggers == {"src_timer", "sink_data", "log_manual"}
MCBusyDecl ==
  [t \in MCBusyTriggers |->
     CASE t = "src_timer" -> T(src, "periodic", "any", {}, 1, NoDeadline)
       [] t = "sink_data" -> T(sink, "data", "any", {"x"}, 1, 1)
       [] t = "log_manual" -> T(log, "manual", "any", {}, 0, NoDeadline)]
=============================================================================
