SPECIFICATION Spec
CONSTANTS
  N = 2
  Point <- MCPoint
  Dim <- MCDim
  Cloud <- MCCloud
  Sample <- MCSample
  FprNum = 1
  FprDen = 2
  NPermutations = 1
  Precision = {1, 2}
  Rbf <- MCRbf
INVARIANTS
  JudgedIfComparable
  GateResolves
  OrdinaryRunsAreQuiet
  EnergyIsADistance
  ConformalIsExact
CHECK_DEADLOCK FALSE
