CONSTANTS
  Calls = {c1}
  UserPasswords = {p1, p2}
  MaxKeys = 1
  ServiceWorker = TRUE
  Null = Null
  MaxVaults = 2
  MaxSignUps = 1
  MaxWrites = 1
  MaxRemovals = 1
  RestartKinds = {"kill"}
  TearCredentials = TRUE
SYMMETRY Symmetry
SPECIFICATION Spec
INVARIANT SignedUpIsUnlockable
