SPECIFICATION FairSpec
CONSTANTS
  Asked = {"a"}
  Stored = {"x", "yyy"}
  Key <- Asked
  Obj <- MCObj
  Content <- MCContent
  Normalize <- MCNormalize
  KeyBytes <- MCKeyBytes
  ObjBytes <- MCObjBytes
  Nil = Nil
  EmptyKey = ""
  Source <- ChangingSource
  MayBeDead = FALSE
  Worker = {w1}
  Copies = 2
  TTL = 1
  ExpSize = 2
  MaxStorage = 3
  Word = 16
  Uint = 1
  MaxTime = 1
  MaxQueue = 2
  MaxFill = 2
  MaxBatch = 2
PROPERTY FillerStops
CHECK_DEADLOCK FALSE
