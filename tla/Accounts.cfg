CONSTANTS
  Users = {admin, user}
  Admin = admin
  Requests = {r1, r2}
  MaxSessions = 2
  MaxTokens = 3
  MaxChanges = 3
SYMMETRY Symmetry
SPECIFICATION AccountsSpec
INVARIANTS
  AccountsTypeOK
  SessionExclusive
  RequestsAuthorized
PROPERTY SessionsOnlyEnd
CHECK_DEADLOCK FALSE
