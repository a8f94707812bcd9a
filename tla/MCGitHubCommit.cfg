\* Two writers that want the same repository; up to two numbered names.
SPECIFICATION FairSpec
CONSTANTS
  w1 = w1
  w2 = w2
  n1 = n1
  readme = readme
  code = code
  Owner = Owner
  Writers <- MCWriters
  Names <- MCNames
  Paths <- MCPaths
  Manifests <- MCManifests
  AutoInitPath = readme
  MaxCandidates = 2
INVARIANTS
  SuccessIsOnBranch
  CreatedIsOwn
  StaleOnlyBehindAnother
PROPERTIES
  ImplementsCommitLog
  EveryWriterEnds
CHECK_DEADLOCK FALSE
