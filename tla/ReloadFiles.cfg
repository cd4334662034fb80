\* A user who waits until RELOAD is gone.
CONSTANTS
  NumRequests = 8
  Patient = TRUE
SPECIFICATION ReloadFairSpec
INVARIANTS
  SeesOwnResult
PROPERTIES
  EveryRequestAnswered
