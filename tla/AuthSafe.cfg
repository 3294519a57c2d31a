\* Four launches race across three expiries, with two failures and a crash.
SPECIFICATION Spec
CONSTANTS
  l1 = l1
  l2 = l2
  l3 = l3
  l4 = l4
  Launches = {l1, l2, l3, l4}
  Empty = Empty
  MaxEpoch = 3
  MaxErrors = 2
  MaxCrashes = 1
SYMMETRY Symmetry
CHECK_DEADLOCK FALSE
INVARIANTS
  WriteIsAtomic
  TokenIsKept
PROPERTIES
  OlderOnlyUnrotated
