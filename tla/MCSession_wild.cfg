SPECIFICATION Spec
CONSTANTS
  Schemas = {"a", "b"}
  Queues = {{"INDEX"}, {"INDEX", "FKEY"}}
  MaxScript = 1
  Scripts <- AllScripts
  MaxCalls = 1
  MaxPrints = 1
INVARIANT FailureReturns
CHECK_DEADLOCK FALSE
