SPECIFICATION Spec
CONSTANTS
  p1 = p1
  p2 = p2
  Probe = {p1}
  Task = {t1}
  NoProbe = NoProbe
  NoTask = NoTask
  MaxConcurrentRuns = 1
  ScheduleOf <- EveryTick
  Cycle = 1
  MaxVersion = 1
  MaxRestarts = 0
  Faulty = {p1}
  Triggerable = {}
INVARIANT NoHotLoop
