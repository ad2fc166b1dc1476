SPECIFICATION FairSpec
CONSTANTS
  t1 = t1
  t2 = t2
  t3 = t3
  t4 = t4
  Task = {t1, t2, t3, t4}
  Endless = {{}}
  MaxIdle = 1
INVARIANTS StopsAreForWaiting

CHECK_DEADLOCK FALSE
