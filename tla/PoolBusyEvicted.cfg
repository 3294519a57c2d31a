\* A call that lasts longer than the idle timeout.
SPECIFICATION Spec
CONSTANTS
  s1 = s1
  c1 = c1
  c2 = c2
  Servers = {s1}
  Strangers = {}
  Callers = {c1, c2}
  Nobody = Nobody
  MaxSpawns = 2
  MaxCalls = 3
  MaxShutdowns = 0
CHECK_DEADLOCK FALSE
PROPERTIES
  CallIsActivity
