SPECIFICATION Spec
CONSTANTS
  NRank = 3
  Zones <- MCZones
  Copied <- MCCopied
INVARIANTS
  NoException
  DistributionsHold
  BlocksHold
  MeshKept
