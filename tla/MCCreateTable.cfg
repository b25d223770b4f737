CONSTANT Tables <- MCTables

SPECIFICATION FairSpec

INVARIANTS
  TypeOK
  ListWellFormed
  ConstraintsAccounted
  RestUntouched
  NamedIndexKept
  NothingForeign
  ColumnOptionsAccounted
  SequenceStart
  NullabilityKept

PROPERTY Terminates

CHECK_DEADLOCK FALSE
