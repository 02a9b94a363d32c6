SPECIFICATION Spec
CONSTANTS
  MaxLength = 3
  MaxValue = 3
INVARIANTS
  FindsExisting
