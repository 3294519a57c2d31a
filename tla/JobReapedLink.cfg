\* A Cancel across a job that ended and was reaped while its child runs on.
SPECIFICATION Spec
CONSTANTS
  j1 = j1
  j2 = j2
  j3 = j3
  c1 = c1
  Jobs = {j1, j2, j3}
  NoJob = NoJob
  RunEnds = {"ok"}
  ExitCodes = {0}
  Cancellers = {c1}
  Watchers = {}
  JobTTL = 0
  MaxClock = 2
  MaxShutdowns = 0
CHECK_DEADLOCK FALSE
INVARIANTS
  CancelReachesOffspring
