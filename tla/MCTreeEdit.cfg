SPECIFICATION Spec
CONSTANTS
  Name = {"a", "b"}
  Label = {"L_t", "UserDefined_t"}
  BadName = {"/"}
  BadLabel = {"L"}
  MaxNodes = 4
  WalkTrees <- WalkTreesOf
INVARIANTS
  WalksExact
  CacheFresh
  EditsExact
PROPERTIES
  FailuresKeepChildren
