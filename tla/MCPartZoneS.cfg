SPECIFICATION Spec
CONSTANTS
  NRank = 2
  Mesh <- Meshes
  LineSizes = {4}
  PlaneSizes <- MCPlanes
  BoxSizes <- MCBoxes
  WeightPairs <- PairsOfWeights
INVARIANTS
  CutsTile
  SubsetsKept
  JoinsExact
  NumberingsAgree
