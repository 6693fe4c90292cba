SPECIFICATION Spec
CONSTANTS
  src = src
  sink = sink
  log = log
  w1 = w1
  w2 = w2
  c1 = c1
  c2 = c2
  None = None
  Components = {src, sink}
  Workers = {w1, w2}
  Callers = {c1, c2}
  Triggers <- MCTriggers
  Decl <- MCDecl
  NoDeadline = 2
  Aging = FALSE
  WaitedFor = {}
  AgeGap = 1
INVARIANTS SerialExecution OnePending NoLostWakeup
PROPERTY StopDrainsAlways
