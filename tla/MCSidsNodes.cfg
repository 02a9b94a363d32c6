SPECIFICATION Spec
CONSTANTS
  Zones <- ZonesOfTree
  FewZones <- FewZonesOfTree
  Tolerance = 2
  MaxElement = 4
  MaxSections = 3
  MaxSubsets = 2
INVARIANTS
  SubsetsExact
  JoinsGrouped
  ZonesCounted
CHECK_DEADLOCK FALSE
