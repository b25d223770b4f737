SPECIFICATION FairSpec
CONSTANTS
  Inputs <- Rewritten
  Kinds = {"word", "blank", "break", "string", "remark"}
  MaxTokens = 4
  MaxLeaves = 3
INVARIANTS
  TypeOK
  NothingLost
  StreamsInOrder
  TriviaNotLate
  TriviaNotEarly
  OneLinersUnchanged
PROPERTIES
  Terminates
  Weaves
CHECK_DEADLOCK FALSE
