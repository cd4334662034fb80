\* Two ranks with a grid and one without, a rank up to one call ahead.  Ranks
\* that went apart wait for ever.
CONSTANTS
  r0 = r0
  r1 = r1
  r2 = r2
  Ranks = {r0, r1, r2}
  GridsOf <- OneOneNone
  NumFields = 1
  MaxLead = 1
SPECIFICATION FairSpec
INVARIANTS
  TypeOK
  PartOnlyByFailure
  FreshIteration
  CommitIsCommon
PROPERTIES
  EveryCallReturns
CHECK_DEADLOCK FALSE
