SPECIFICATION Spec
CONSTANTS
  Workers = {w1}
  Customers = {c1, c2}
  AccountIds = {a1, a2}
  TransactionIds = {t1, t2}
  RequestIds = {r1}
  OwnerNames = {n1}
  Details = {d1}
  Kinds <- Operations
  OpeningBalances <- OpenWithTwoCents
  Amounts <- SomeAmounts
  MaxStored = 40
SYMMETRY IdSymmetry
PROPERTIES
  ImplementsLedger
  StatusLifecycle
