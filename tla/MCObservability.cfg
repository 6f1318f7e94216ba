SPECIFICATION Spec
CONSTANTS
  Runs = {r1, r2, r3}
  Customers = {c1, c2}
  Nobody = Nobody
  Days = 2
  TokenCounts = {0, 1, 2}
SYMMETRY UsageSymmetry
INVARIANTS
  TypeOK
  LoggedForItsCustomer
  PendingWhileRunning
  ReportAddsUp
