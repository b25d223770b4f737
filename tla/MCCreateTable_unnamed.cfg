CONSTANT Tables <- SomeTables

SPECIFICATION Spec

INVARIANT IndexKept

CHECK_DEADLOCK FALSE
