SPECIFICATION FairSpec
CONSTANTS
  NumRuns = 3
  MaxRoots = 1
  MaxReaped = 1
  Names = {"a", "b"}
  RootKinds = {"agent", "research"}
  ChildKinds = {"agent", "research", "plain"}
  BackgroundKinds = {"agent"}
INVARIANTS
  TypeOK
  OutIsPrivate
  OpenSeesNoInputs
  SiblingMounts
  TotalsCoverTree
PROPERTIES
  CancelReachesLinked
  AbandonedEnd
CHECK_DEADLOCK FALSE
