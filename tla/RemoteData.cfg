\* Two ranks, two grids, two fields: a fetch can fail after a first success,
\* and a call can fail after a first field.
CONSTANTS
  r1 = r1
  r2 = r2
  g1 = g1
  g2 = g2
  Ranks = {r1, r2}
  Ids = {g1, g2}
  Requests <- TwoGridsOfOneRank
  NumFields = 2
SPECIFICATION FairSpec
INVARIANTS
  TypeOK
  CollectivesMatch
  BuffersOutliveReads
  VerdictsAgree
  OutputComplete
  WindowsReleased
PROPERTIES
  KeepsPromise
  AllReturn
