SPECIFICATION Spec
CONSTANTS
  Inputs <- AsParsed
  Kinds = {"word", "blank", "string"}
  MaxTokens = 4
  MaxLeaves = 0
INVARIANT PassThrough
CHECK_DEADLOCK FALSE
