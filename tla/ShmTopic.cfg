SPECIFICATION Spec
CONSTANTS
  p1 = p1
  p2 = p2
  p3 = p3
  Processes = {p1, p2, p3}
  MaxParticipants = 2
  Depth = 1
  MaxSegments = 2
  MaxCrashes = 2
  Scenarios <- MCScenarios
INVARIANTS EndpointsMeet NothingLeftBehind NothingMissed
CHECK_DEADLOCK FALSE
