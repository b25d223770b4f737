CONSTANT Tables <- SomeTables

SPECIFICATION Spec

INVARIANT StatementsNameTheTable

CHECK_DEADLOCK FALSE
