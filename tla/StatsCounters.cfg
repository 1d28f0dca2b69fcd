SPECIFICATION Spec
CONSTANTS
  Thread = {t1, t2}
  Uint = 4
  MaxEvents = 4
SYMMETRY Threads
INVARIANT GetsCountedOnce
INVARIANT DeletedCountedOnce
