SPECIFICATION Spec
CONSTANTS
  NumRuns = 3
  MaxRoots = 1
  MaxReaped = 0
  Names = {"a"}
  RootKinds = {"agent"}
  ChildKinds = {"agent"}
  BackgroundKinds = {"agent"}
PROPERTIES
  CancelReachesSubtree
CHECK_DEADLOCK FALSE
