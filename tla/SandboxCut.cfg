\* A call whose context is cancelled while docker run starts its sidecar.
SPECIFICATION Spec
CONSTANTS
  d1 = d1
  d2 = d2
  d3 = d3
  p1 = p1
  p2 = p2
  c1 = c1
  Processes = {d1}
  Pids = {p1, p2}
  Calls = {c1}
  NoCall = NoCall
  NoProcess = NoProcess
  NoOwner = NoOwner
  MaxAttempts = 2
  MaxTicks = 0
  MaxBoots = 0
  MaxFaults = 0
SYMMETRY Symmetry
CHECK_DEADLOCK FALSE
INVARIANT RemovedBeforeKill
