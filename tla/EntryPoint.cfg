\* Three modes, three ranks, sessions of up to three jobs.
CONSTANTS
  r0 = r0
  r1 = r1
  r2 = r2
  f = f
  Ranks = {r0, r1, r2}
  root = r0
  Modes <- AllModes
  Functions = {f}
  Ends = {"returns", "raises", "differs"}
  NumJobs = 3
  Connections = {"own", "absent"}
  UserMayFlag = FALSE
SPECIFICATION FairSpec
INVARIANTS
  TypeOK
  CollectivesMatch
  VerdictsAgree
  NothingLeftOver
PROPERTIES
  AllLeave
  KeepsSession
