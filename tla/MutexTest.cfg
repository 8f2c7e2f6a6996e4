CONSTANTS
  Threads = {t1, t2}
  Rounds = 2
  Tests = 2
SPECIFICATION Spec
PROPERTY AllRoundsEnd
CHECK_DEADLOCK FALSE
