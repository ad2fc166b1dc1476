SPECIFICATION FairSpec
CONSTANTS
  t1 = t1
  t2 = t2
  t3 = t3
  t4 = t4
  Task = {t1, t2, t3, t4}
  Endless = {{}, {t1, t2}}
  MaxIdle = 1
INVARIANT JoinedMeansDone
PROPERTIES TasksStart JoinReturns
CHECK_DEADLOCK FALSE
