\* A user who waits for one thing to end before the next.
SPECIFICATION PatientSpec
CONSTANTS
  Wallets = {w1, w2}
  Calls = {c1, c2}
  NumBoots = 2
  NumMigrations = 2
  Signs = TRUE
  None = None
SYMMETRY Symmetry
INVARIANTS QuietWhenLocked OneSetAtWork HandlersAddedOnce ServedWalletIsMigrated
CHECK_DEADLOCK FALSE
