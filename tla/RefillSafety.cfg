SPECIFICATION Spec
CONSTANTS
  Asked = {"", "a", "A", "b"}
  Stored = {"x", "y"}
  Key <- Asked
  Obj <- MCObj
  Content <- MCContent
  Normalize <- MCNormalize
  KeyBytes <- MCKeyBytes
  ObjBytes <- MCObjBytes
  Nil = Nil
  EmptyKey = ""
  Source <- MixedSource
  MayBeDead = TRUE
  Worker = {w1}
  Copies = 1
  TTL = 1
  ExpSize = 2
  MaxStorage = 3
  Word = 16
  Uint = 1
  MaxTime = 1
  MaxQueue = 1
  MaxFill = 2
  MaxBatch = 2
INVARIANT TypeOK
INVARIANT ServesOwnValues
INVARIANT EmptyKeyNotStored
 
PROPERTY ImplementsStore
PROPERTY ImplementsQueue
CHECK_DEADLOCK FALSE
