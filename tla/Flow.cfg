CONSTANTS
  w = w
  n = n
  l = l
  NoTask = NoTask
  NoLimit = NoLimit
  Writers <- OneWriter
  Readers <- TwoReaders
  Mode <- OneOfEach
  NonBlocking = {w}
  Deltas = {1}
  MaxTicks = 3
SPECIFICATION Spec
CHECK_DEADLOCK FALSE
INVARIANT TypeOK
PROPERTIES
  MissedOnlyIfLate
  GivenWhatWasSent
