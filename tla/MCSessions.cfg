SPECIFICATION FairSpec
CONSTANTS
  Processes = {p1}
  Customers = {c1, c2}
  SessionIds = {s1, s2}
  NoCustomer = NoCustomer
INVARIANTS
  TypeOK
  NothingOutlivesTheBinding
PROPERTIES
  OnlyIdleSessionsExpire
  AbandonedSessionsGo
