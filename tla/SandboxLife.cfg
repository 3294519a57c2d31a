\* Three processes, at most two at once, a call with two attempts, a reboot, a fault.
SPECIFICATION Spec
CONSTANTS
  d1 = d1
  d2 = d2
  d3 = d3
  p1 = p1
  p2 = p2
  c1 = c1
  Processes = {d1, d2, d3}
  Pids = {p1, p2}
  Calls = {c1}
  NoCall = NoCall
  NoProcess = NoProcess
  NoOwner = NoOwner
  MaxAttempts = 2
  MaxTicks = 1
  MaxBoots = 1
  MaxFaults = 1
SYMMETRY Symmetry
CHECK_DEADLOCK FALSE
INVARIANTS
  InUseIsUp
  NoPinned
  NothingLeft
  ReapComplete
