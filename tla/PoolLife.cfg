\* Two servers and a stranger, two callers, a shutdown; fair schedules.
SPECIFICATION FairSpec
CONSTANTS
  s1 = s1
  s2 = s2
  x = x
  c1 = c1
  c2 = c2
  Servers = {s1, s2}
  Strangers = {x}
  Callers = {c1, c2}
  Nobody = Nobody
  MaxSpawns = 3
  MaxCalls = 3
  MaxShutdowns = 1
CHECK_DEADLOCK FALSE
INVARIANTS
  NoLeak
  PooledIsTended
PROPERTIES
  EvictsItsOwn
  IdleIsClosed
  CallsEnd
