SPECIFICATION Spec
CONSTANTS
  Schemas = {"a", "b"}
  Queues = {{"INDEX", "FKEY"}}
  MaxScript = 2
  Scripts <- AllScripts
  MaxCalls = 2
  MaxPrints = 3
INVARIANTS
  TypeOK
  QueueConserved
  QueueInOrder
  QueueFollowsCreate
  PrefixNamesItsSchema
  ObjectsOwned
CHECK_DEADLOCK FALSE
