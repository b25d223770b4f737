SPECIFICATION Spec
CONSTANTS
  Bare <- BareNames
  Sources <- Inputs
  Names = {"wp"}
  Expressions = "nested"
  Length = 1
INVARIANT IfBecomesCase
CHECK_DEADLOCK FALSE
