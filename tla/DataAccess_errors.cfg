\* The accessors of one rank, with ids before, in and after the range.
CONSTANTS
  IndexOffset = 1
  NumGrids = 3
  Local = {1, 2}
  Fields <- MCFields
  Particles <- MCParticles
  Known <- MCKnown
  Derived = {"inverse", "unset"}
  HasFunc = {"inverse", "position"}
  Commits <- MCCommits
  PrepareLists <- MCPrepareLists
  FetchLists <- MCFetchLists
  MaxNames = 2
  MaxBlocks = 4
SPECIFICATION Spec
INVARIANT ErrorsAreReported
