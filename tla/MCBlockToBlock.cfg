SPECIFICATION Spec
CONSTANTS
  NRank = 3
  MaxSize = 3
  MaxStride = 2
INVARIANTS
  ExchangeExact
PROPERTIES
  Completion
