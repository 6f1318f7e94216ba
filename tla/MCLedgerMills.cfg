SPECIFICATION Spec
CONSTANTS
  Customers = {c1}
  AccountIds = {a1}
  TransactionIds = {t1, t2, t3, t4}
  RequestIds = {r1}
  OwnerNames = {n1}
  Details = {d1}
  OpeningBalances <- OneOpening
  Amounts <- MillAmounts
  MaxStored = 40
SYMMETRY IdSymmetry
INVARIANT
  BalanceNeverBelowLedger
