SPECIFICATION Spec
CONSTANTS
  e1 = e1
  e2 = e2
  n1 = n1
  n2 = n2
  c1 = c1
  c2 = c2
  Emails <- MCEmails
  Names <- MCNames
  Requests <- MCRequests
  NoUser = NoUser
  MaxKeys = 1
  AccessTTL = 2
  RefreshTTL = 3
  MaxPairs = 2
  MaxNow = 3
SYMMETRY Symmetric
CHECK_DEADLOCK FALSE
INVARIANTS
  TypeOK
  AccountsDistinct
  LogoutSticks
  KeysBounded
