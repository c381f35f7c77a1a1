SPECIFICATION ClientFairSpec
CONSTANTS
  N = 1
  Concurrency = 1
  Samples = 2
  v1 = v1
  embed = embed
  other = other
  Version = {v1}
  Completion <- MCCompletion
  Unnamed = unnamed
  Failed = failed
  NoRun = norun
  Specs <- MCSpecs
  Configs <- MCConfigs
  Deployment = {embed, other}
  NoDeployment = nodeployment
  Generation <- MCGeneration
  Width = {0, 1, 2}
  NoRequest = norequest
  Refused = refused
  MaxRuns = 2
INVARIANTS
  OnlyWholeAnswers
  DrawsAreIndependent
  EmbeddingsFit
PROPERTY ImplementsRunner
CHECK_DEADLOCK FALSE
