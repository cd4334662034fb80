\* Two ranks, two functions, four calls: run, look, run again, or run in the
\* next iteration.
CONSTANTS
  r1 = r1
  r2 = r2
  Ranks = {r1, r2}
  NumFunctions = 2
  InScript = {1}
  Calls <- TwoFunctions
  NumCalls = 4
  Uncaught = FALSE
SPECIFICATION Spec
INVARIANTS
  TypeOK
  CollectivesMatch
  SameBook
  SuccessIsTrue
  NothingCarriedOver
PROPERTIES
  NotRunTwice
  OnlyRefusalsBreak
