CONSTANTS
  Left = Left
  Right = Right
  t1 = t1
  t2 = t2
  t3 = t3
  NoTask = NoTask
  Tasks <- Three
  Adapters <- TwoAdapters
  AdapterOf <- Split
  NonBlocking <- OnlyT3
  Span <- AllAlways
  Reads <- ReadT1
  Deltas = {1}
  MaxAge = 1
  MaxRuns = 3
  MaxPolls = 1
  MaxInFlight = 2
SPECIFICATION Spec
INVARIANTS
  TypeOK
  RegistryAgrees
  NeverPanicsAtTryLock
PROPERTY ResponseIsOwn
