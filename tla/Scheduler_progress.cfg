SPECIFICATION FairSpec
CONSTANTS
  src = src
  sink = sink
  log = log
  w1 = w1
  w2 = w2
  c1 = c1
  c2 = c2
  None = None
  Components = {src, sink, log}
  Workers = {w1, w2}
  Callers = {c1}
  Triggers <- MCBusyTriggers
  Decl <- MCBusyDecl
  NoDeadline = 2
  Aging = TRUE
  WaitedFor = {"x"}
  AgeGap = 2
PROPERTIES NoStarvation StopReturns
CHECK_DEADLOCK FALSE
