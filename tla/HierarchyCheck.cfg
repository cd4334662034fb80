\* Every hierarchy of three grids with ids from 1.
CONSTANTS
  NumGrids = 3
  IndexOffset = 1
  Dims = {1}
  GridData <- AllGridData
  MaxGiven = 3
  Unbound = Unbound
SPECIFICATION Spec
INVARIANTS
  LookupFound
  AcceptedIsForest
  RejectedIsBroken
