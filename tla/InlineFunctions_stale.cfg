\* One function called twice: the first call fails, the second does not.
CONSTANTS
  r1 = r1
  r2 = r2
  Ranks = {r1, r2}
  NumFunctions = 1
  InScript = {1}
  Calls <- OneFunction
  NumCalls = 2
  Uncaught = FALSE
SPECIFICATION Spec
INVARIANTS
  FailureIsOfLatestCall
