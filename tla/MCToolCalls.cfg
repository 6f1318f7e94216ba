SPECIFICATION Spec
CONSTANTS
  Keys = {k1, k2, k3}
  Threads = {t1, t2}
  NoKey = NoKey
  MaxRows = 2
SYMMETRY CallSymmetry
INVARIANTS
  TypeOK
  NotDoneAgain
  RefusedOnlyIfDone
