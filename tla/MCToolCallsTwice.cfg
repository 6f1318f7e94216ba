SPECIFICATION Spec
CONSTANTS
  Keys = {k1}
  Threads = {t1, t2}
  NoKey = NoKey
  MaxRows = 2
SYMMETRY CallSymmetry
INVARIANT AtMostOnce
