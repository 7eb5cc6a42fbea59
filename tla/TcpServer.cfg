CONSTANTS
  left = left
  right = right
  t1 = t1
  NoClient = NoClient
  NoTask = NoTask
  Clients <- TwoClients
  Tasks <- OneTask
  Owner <- OnLeft
  Capacity <- Rooms
  MaxRuns = 2
  MaxLosses = 2
SPECIFICATION Spec
INVARIANTS
  TypeOK
  KnownReachable
  InputsBeforeRequest
  AnswersAfterOutputs
PROPERTY AnnouncedIsHeard
