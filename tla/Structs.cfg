CONSTANTS
  NoLimit = NoLimit
  MaxI64 = 4
  MaxIndex = 3
  MaxTime = 2
  MaxWrites = 3
  Shapes <- AllShapes
  ShapeValues <- ShapeValuesOf
  Limits <- TwoRowsOrAll
SPECIFICATION Spec
CHECK_DEADLOCK FALSE
INVARIANTS
  TypeOK
  LeavesApart
  HistoryWhole
  ChangesFound
PROPERTY ImplementsRegister
