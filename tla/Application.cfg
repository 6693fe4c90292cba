SPECIFICATION FairSpec
CONSTANTS
  a1 = a1
  a2 = a2
  None = None
  Apps = {a1, a2}
  Processes <- MCProcesses
INVARIANTS CallbacksSafe TornDown
PROPERTY SignalEndsRun
CHECK_DEADLOCK FALSE
