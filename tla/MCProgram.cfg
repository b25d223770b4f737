CONSTANTS
  Worlds <- MCWorlds
  FilesTable <- MCFilesTable
  TestTable <- MCTestTable
  Characters <- MCCharacters
  ZeroDates <- MCZeroDates
  BUF_SIZE = 4
  Recovery = {1, 2}

SPECIFICATION Spec

INVARIANTS
  TypeOK
  AsCommanded
  Tiled
  FoldsAtTokens
  ReadAsOneLiteral
  PrinterInput

PROPERTIES
  Scans
  Terminates

CHECK_DEADLOCK FALSE
