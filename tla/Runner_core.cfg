SPECIFICATION FairSpec
CONSTANTS
  N = 3
  Concurrency = 2
  Samples = 2
  v1 = v1
  v2 = v2
  Version <- MCVersion
  Completion <- MCCompletion
  Unnamed = unnamed
  Failed = failed
  NoRun = norun
INVARIANTS
  PermitsAreUsed
  OverlapDoesNotShow
  StatusIsHonest
PROPERTY RunEnds
