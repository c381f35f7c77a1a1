SPECIFICATION FairSpec
CONSTANTS
  p1 = p1
  p2 = p2
  Probe = {p1}
  Task = {t1, t2, t3}
  NoProbe = NoProbe
  NoTask = NoTask
  MaxConcurrentRuns = 1
  ScheduleOf <- EveryTick
  Cycle = 1
  MaxVersion = 3
  MaxRestarts = 0
  Faulty = {}
  Triggerable = {p1}
PROPERTIES
  DeletedProbeIsLeftAlone
  ShutdownEndsEveryLoop
  RunsAreCapped
INVARIANTS
  LoopsAreAccountedFor
  PermitsAreServed
