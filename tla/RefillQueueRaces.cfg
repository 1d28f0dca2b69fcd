SPECIFICATION Spec
CONSTANTS
  Worker = {w1, w2}
  Key <- MCKey
  KeyLen <- MCKeyLen
  EmptyKey = ""
  MaxQueue = 2
  Word = 16
  Uint = 8
INVARIANT TypeOK
INVARIANT QueueBound
INVARIANT NoDuplicates
INVARIANT PopFindsKey
