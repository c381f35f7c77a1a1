SPECIFICATION FairSpec
CONSTANTS
  Task = {t1}
  Request = {q1, q2}
  token = token
  Token = {token, other}
  Absent = absent
  File <- MCFile
  DefaultWindow = 1
  Calendar = 2
  MaxSeconds = 3
  MaxPermits = 10
  MaxAnswers = 3
  MaxNulls = 200
  MaxRuns = 1
  MaxChanges = 1
  MaxStarts = 1
INVARIANTS
  TypeOK
  EventsHaveTheirRun
  AnswersAreTrue
  KeyIsFresh
  LoopsDieClean
PROPERTY GracefulStop
CHECK_DEADLOCK FALSE
