SPECIFICATION Spec
CONSTANTS
  Names = {n1, n2}
  Accounts = {a1}
  Threads = {t1, t2}
  NoText = NoText
  MaxTokens = 2
SYMMETRY PiiSymmetry
INVARIANTS
  TypeOK
  TokensKeepTheirMeaning
  OnlyForeignTokensStored
  OnlyForeignTokensShown
PROPERTY ImplementsVault
