SPECIFICATION Spec
CONSTANTS
  NRank = 3
  AsyncMpi = 1
  Trees <- MCTrees
  NParts = {0, 1, 2}
  Methods = {"non_uniform", "uniform", "nosplit", "npart"}
INVARIANTS
  RepartConserved
  LoadsAgree
  BinsBalanced
  WeightsComplete
PROPERTIES
  Termination
