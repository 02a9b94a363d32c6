SPECIFICATION Spec
CONSTANTS
  MaxLength = 5
  MaxValue = 5
INVARIANTS
  SearchExact
PROPERTIES
  Termination
