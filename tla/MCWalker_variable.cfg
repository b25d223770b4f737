SPECIFICATION Spec
CONSTANTS
  Bare <- BareNames
  Sources <- Inputs
  Names = {"wp"}
  Expressions = "nested"
  Length = 1
INVARIANT VersionRewritten
CHECK_DEADLOCK FALSE
