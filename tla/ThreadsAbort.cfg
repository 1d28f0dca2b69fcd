SPECIFICATION Spec
CONSTANTS
  Val = {"x", "y"}
  Sources <- MCSources
  Nil = Nil
  Key <- MCKey
  Obj <- MCObj
  Content <- MCContent
  KeyBytes <- MCKeyBytes
  ObjBytes <- MCObjBytes
  Reader = {r1}
  Copies = 2
  ExpSize = 1
  MaxStorage = 4
  Word = 16
INVARIANT GetNeverAborts
CHECK_DEADLOCK FALSE
