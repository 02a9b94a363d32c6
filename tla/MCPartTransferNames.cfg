SPECIFICATION Spec
CONSTANTS
  Mesh <- MCNamedMesh
  Slot <- MCSlot
  Longer <- MCLonger
  LabelSets <- MCLabelSets
  Additions <- MCAdditions
INVARIANT
  FieldsReturned
CHECK_DEADLOCK FALSE
