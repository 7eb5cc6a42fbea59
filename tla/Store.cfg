CONSTANTS
  v = v
  w = w
  NoLimit = NoLimit
  Untold = Untold
  Topics <- ParentAndChild
  Ordered <- OnlyParent
  Queries <- OnlyRoot
  Times = {1, 2, 3}
  Values = {v, w}
  Policies <- TwoRows
  MaxBatch = 2
SPECIFICATION Spec
SYMMETRY ValueSymmetry
INVARIANTS
  TypeOK
  WithinRetention
  CacheIsFresh
  OnlyChanges
  ListenersUpToDate
PROPERTY LatestNeverOlder
