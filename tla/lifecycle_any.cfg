\* Any RPC call at any time, and crashes; the requests of a boot end.
SPECIFICATION FairSpec
CONSTANTS
  Wallets = {w1}
  Calls = {c1, c2}
  NumBoots = 2
  NumMigrations = 2
  Signs = TRUE
  None = None
INVARIANTS NoHandlerOwed MigrationsInOrder
PROPERTIES AuthenticatedIsServed
CHECK_DEADLOCK FALSE
