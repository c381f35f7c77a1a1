SPECIFICATION FairSpec
CONSTANTS
  p1 = p1
  p2 = p2
  Probe = {p1, p2}
  Task = {t1, t2}
  NoProbe = NoProbe
  NoTask = NoTask
  MaxConcurrentRuns = 1
  ScheduleOf <- MixedSchedules
  Cycle = 1
  MaxVersion = 1
  MaxRestarts = 1
  Faulty = {p2}
  Triggerable = {}
INVARIANTS
  TypeOK
  HotLoopsAreFaulty
  SleepIsPersisted
PROPERTIES
  NeverEarly
  EveryProbeKeepsRunning
