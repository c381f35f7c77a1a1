SPECIFICATION Spec
CONSTANTS
  Probe = {p1}
  Run = {r1, r2, r3}
  Baseline = {b1, b2}
  NoProbe = noprobe
  NoRun = norun
  NoBaseline = nobaseline
  Dim = {d1, d2}
  NoDim = nodim
  CaptureRuns = 2
SYMMETRY Symmetry
INVARIANTS
  NeverAgainstItself
  CloudsAreComparable
  LaterCaptureIsNewer
  QuietDeletionIsComplete
