SPECIFICATION Spec
CONSTANTS
  Key <- MCKey
  Obj <- MCObj
  Content <- MCContent
  Normalize <- MCNormalize
  KeyBytes <- MCKeyBytes
  ObjBytes <- MCObjBytes
  Nil = Nil
  Copies = 2
  TTL = 2
  ExpSize = 2
  MaxStorage = 6
  Word = 16
  Uint = 1
  MaxTime = 2
INVARIANT TypeOK
INVARIANT GetNeverAborts
INVARIANT OneObjectPerValue
INVARIANT NeverUndercounts
INVARIANT StorageBound
PROPERTY LeaksOnlyOnRenewal
PROPERTY ExpiredNeedsRefill
CHECK_DEADLOCK FALSE
