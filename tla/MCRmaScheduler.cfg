SPECIFICATION FairSpec
CONSTANTS
  NRank = 3
  NTest = 4
  Need <- MCNeed
  FreshCounts <- MCFreshCounts
  FreshLists <- MCFreshLists
INVARIANTS
  TypeOK
  AssertionHolds
  GroupAgreement
  TestsStaffed
PROPERTIES
  CompleteListFrozen
  ImplementsTeams
  Termination
CHECK_DEADLOCK FALSE
