SPECIFICATION Spec
CONSTANTS
  NumRuns = 2
  ParentOf <- MCParentOf
  Vendorings <- MCVendorings
  Models <- MCModels
  NumResponses = 2
  Answers <- MCAnswers
  MaxFailed = 1
INVARIANTS
  TypeOK
  CountedOnce
  WholeIsExact
  FilesAgree
  ReportCoversResults
  ReportBalances
  NamedSpendIsTheirs
PROPERTIES
  SpendNeverFalls
CHECK_DEADLOCK FALSE
