SPECIFICATION Spec
CONSTANTS
  Usernames = {u1, u2}
  Workers = {w1, w2, w3}
  NoName = NoName
  MaxRows = 3
SYMMETRY IdentitySymmetry
INVARIANTS
  TypeOK
  
  TokensNameRealUsers
  ActsForItsOwner
  DeletedStopsWorking
