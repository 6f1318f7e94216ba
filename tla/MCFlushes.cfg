SPECIFICATION FairSpec
CONSTANTS
  Workers = {w1, w2, w3}
  AccountIds = {a1}
  TransactionIds = {t1}
  RequestIds = {r1}
INVARIANTS
  TypeOK
  DeadlocksNeedACascade
PROPERTY EveryCallReturns
