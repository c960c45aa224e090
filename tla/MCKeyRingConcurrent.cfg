CONSTANTS
  Calls = {c1, c2}
  UserPasswords = {p1, p2}
  MaxKeys = 2
  ServiceWorker = TRUE
  Null = Null
  MaxVaults = 2
  MaxSignUps = 1
  MaxWrites = 1
  MaxRemovals = 1
  RestartKinds = {"kill"}
  TearCredentials = FALSE
SYMMETRY Symmetry
SPECIFICATION Spec
INVARIANT LockHolds
PROPERTY SelectionKept
