\* The smallest communicator in which the last rank can be the one that does not fit.
CONSTANTS
  Size = 3
  MaxInt = 2
  MaxCount = 2
SPECIFICATION Spec
INVARIANT GathersEveryRank
