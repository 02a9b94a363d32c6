SPECIFICATION Spec
CONSTANTS
  NodeCount = 4
  Dags <- DagsOf
  Pairs <- PairsOf
INVARIANTS
  CallsOfRecursion
  BuildersExact
  ComparisonsExact
