SPECIFICATION Spec
CONSTANTS
  Workers = {w1, w2}
  Customers = {c1}
  AccountIds = {a1}
  TransactionIds = {t1, t2}
  RequestIds = {r1}
  OwnerNames = {n1}
  Details = {d1}
  Kinds <- ToolKinds
  OpeningBalances <- OpenWithTwoCents
  Amounts <- SomeAmounts
  MaxStored = 40
SYMMETRY IdSymmetry
INVARIANT LedgerInSync
