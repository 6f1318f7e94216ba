SPECIFICATION Spec
CONSTANTS
  Customers = {c1, c2}
  AccountIds = {a1, a2}
  TransactionIds = {t1, t2, t3}
  RequestIds = {r1, r2}
  OwnerNames = {n1}
  Details = {d1}
  OpeningBalances <- SomeOpenings
  Amounts <- CentAmounts
  MaxStored = 50
SYMMETRY IdSymmetry
INVARIANTS
  TypeOK
  LedgerInSync
  NeverOverdrawn
  NoOrphans
PROPERTIES
  BalanceFollowsLedger
