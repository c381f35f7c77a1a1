SPECIFICATION Spec
CONSTANTS
  p1 = p1
  p2 = p2
  Probe = {p1}
  Task = {t1, t2}
  NoProbe = NoProbe
  NoTask = NoTask
  MaxConcurrentRuns = 1
  ScheduleOf <- ShorterAfterEdit
  Cycle = 1
  MaxVersion = 2
  MaxRestarts = 0
  Faulty = {}
  Triggerable = {}
INVARIANT EditTakesEffect
