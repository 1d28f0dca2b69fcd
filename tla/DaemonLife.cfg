SPECIFICATION Spec
CONSTANTS
  Thread = {t1, t2}
  NoThread = NoThread
  MaxSignals = 3
INVARIANT TypeOK
INVARIANT FillerHasItsObjects
INVARIANT PointersHoldInRun
INVARIANT OneGeneration
 
PROPERTY ExitCarriedOut
PROPERTY FaultIsFatal
CHECK_DEADLOCK FALSE
