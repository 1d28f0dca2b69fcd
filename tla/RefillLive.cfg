SPECIFICATION FairSpec
CONSTANTS
  Asked = {"a", "b"}
  Stored = {"x", "y"}
  Key <- Asked
  Obj <- MCObj
  Content <- MCContent
  Normalize <- MCNormalize
  KeyBytes <- MCKeyBytes
  ObjBytes <- MCObjBytes
  Nil = Nil
  EmptyKey = ""
  Source <- FixedSource
  MayBeDead = FALSE
  Worker = {w1}
  Copies = 1
  TTL = 1
  ExpSize = 2
  MaxStorage = 3
  Word = 16
  Uint = 1
  MaxTime = 1
  MaxQueue = 2
  MaxFill = 2
  MaxBatch = 2
 
PROPERTY QueuedIsTaken
CHECK_DEADLOCK FALSE
