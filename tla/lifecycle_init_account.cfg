\* A page calls initAccount while the wallet is locked.
SPECIFICATION Spec
CONSTANTS
  Wallets = {w1}
  Calls = {c1}
  NumBoots = 1
  NumMigrations = 1
  Signs = FALSE
  None = None
INVARIANTS InitAccountMeansUnlocked
CHECK_DEADLOCK FALSE
