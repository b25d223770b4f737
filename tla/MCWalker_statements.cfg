SPECIFICATION FairSpec
CONSTANTS
  Bare <- BareNames
  Sources <- Inputs
  Names = {"wp", "'Blog'", "FOUND_ROWS"}
  Expressions = "nested"
  Length = 3
INVARIANTS TypeOK HandledBottomUp OthersKept ShowAnswered PrefixLeadsThePath
PROPERTY Terminates
CHECK_DEADLOCK FALSE
