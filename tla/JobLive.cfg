\* Two Cancels race with every way a run may end, a watcher, the reaper and Shutdown, fairly.
SPECIFICATION FairSpec
CONSTANTS
  j1 = j1
  c1 = c1
  c2 = c2
  w1 = w1
  Jobs = {j1}
  NoJob = NoJob
  RunEnds = {"ok", "err", "panic"}
  ExitCodes = {1}
  Cancellers = {c1, c2}
  Watchers = {w1}
  JobTTL = 0
  MaxClock = 2
  MaxShutdowns = 1
CHECK_DEADLOCK FALSE
INVARIANTS
  EndingsAreComplete
PROPERTIES
  RepliesAdvance
  LifecycleSafety
  CallsReturn
  LifecycleFair
