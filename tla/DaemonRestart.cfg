SPECIFICATION Spec
CONSTANTS
  Thread = {t1}
  NoThread = NoThread
  MaxSignals = 1
INVARIANT StopsCorrectly
CHECK_DEADLOCK FALSE
