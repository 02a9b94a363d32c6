SPECIFICATION Spec
CONSTANTS
  Mesh <- MCMesh
  Slot <- MCSlot
  Longer <- MCLonger
  LabelSets <- MCLabelSets
  Additions <- MCAdditions
INVARIANTS
  FailsOnlyAsKnown
  FieldsReturned
  SubsetsOnParts
  JoinsPaired
  FieldsSent
  TreeRecovered
CHECK_DEADLOCK FALSE
