CONSTANTS
  Left = Left
  Right = Right
  t1 = t1
  t2 = t2
  t3 = t3
  NoTask = NoTask
  Tasks <- Two
  Adapters <- OneAdapter
  AdapterOf <- OnA
  NonBlocking <- Nobody
  Span <- Mixed
  Reads <- ReadNothing
  Deltas = {1}
  MaxAge = 2
  MaxRuns = 3
  MaxPolls = 1
  MaxInFlight = 2
SPECIFICATION FairSpec
PROPERTIES
  TickEnds
  TaskServed
INVARIANTS
  NoLockPanicBeforeFailure
  CompletedOutputsKept
