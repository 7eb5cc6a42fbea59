CONSTANTS
  Left = Left
  Right = Right
  t1 = t1
  t2 = t2
  t3 = t3
  NoTask = NoTask
  Tasks <- Two
  Adapters <- TwoAdapters
  AdapterOf <- Split
  NonBlocking <- Nobody
  Span <- Mixed
  Reads <- ReadT1
  Deltas = {1}
  MaxAge = 2
  MaxRuns = 3
  MaxPolls = 2
  MaxInFlight = 2
SPECIFICATION Spec
INVARIANTS
  LookupsSafe
  QuietBetweenTicks
PROPERTIES
  ResponseIsOwnBeforeFailure
  ImplementsCalls
