\* The user creates the flag file while the ranks look for it.
CONSTANTS
  r0 = r0
  r1 = r1
  r2 = r2
  f = f
  Ranks = {r0, r1}
  root = r0
  Modes <- AllModes
  Functions = {f}
  Ends = {"returns"}
  NumJobs = 1
  Connections = {"own", "absent"}
  UserMayFlag = TRUE
SPECIFICATION Spec
INVARIANTS
  CollectivesMatch
