SPECIFICATION Spec
CONSTANTS
  Parent = Parent
  Child = Child
  Alphabet <- MCAlphabet
  Malnamed <- MCMalnamed
  Configs <- MCConfigs
  Listings <- MCListings
  Reports <- MCReports
  DemesneTools <- MCDemesneTools
  Workspaces <- MCWorkspaces
  Stamps = {1}
  Savings <- MCSavings
  Within <- MCWithin
  MaxCalls = 2
SYMMETRY RunSymmetry
INVARIANTS
  TypeOK
  LaunchesAsConfigured
  OnlyAllowed
  OfferedIsServed
  ActsForCaller
  AnswersAreTrue
CHECK_DEADLOCK FALSE
