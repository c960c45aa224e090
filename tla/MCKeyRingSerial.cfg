CONSTANTS
  Calls = {c1}
  UserPasswords = {p1, p2}
  MaxKeys = 2
  ServiceWorker = TRUE
  Null = Null
  MaxVaults = 3
  MaxSignUps = 1
  MaxRemovals = 1
  MaxWrites = 1
  RestartKinds = {"kill", "exit"}
  TearCredentials = FALSE
SYMMETRY Symmetry
SPECIFICATION Spec
INVARIANT TypeOK
INVARIANT VaultsDecryptable
INVARIANT SignedUpIsUnlockable
PROPERTY SignedOutCanSignUp
PROPERTY KeyRingsKept
PROPERTY KeepsWallet
