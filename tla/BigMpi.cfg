\* Groups of one to four ranks: some counts need no cut, some need several.
\* Lengths below, at and just above every multiple of the stride up to 4.
CONSTANTS
  Size = 5
  MaxInt = 3
  MaxCount = 3
  Lengths <- AllLengths
SPECIFICATION MCSpec
INVARIANTS
  TypeOK
  InPlace
  MovesAll
  StaysInside
