\* One connection, messages and responses cut and merged in every way.
CONSTANTS
  Characters <- MCCharacters
  Logins <- MCLogins
  Accounts <- MCAccounts
  KeyTexts <- MCKeyTexts
  ValueTexts <- MCValueTexts
  BufLen = 6
  MaxValue = 1
  MaxKey = 9
  MaxSends = 3
SPECIFICATION Spec
INVARIANTS TypeOK MenuOnlyWhenLoggedIn InStep SigpipeNeedsPieces StoredAsTyped NoMutualWait
CHECK_DEADLOCK FALSE
