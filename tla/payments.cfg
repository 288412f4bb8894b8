SPECIFICATION FairSpec
CONSTANTS
  p1 = p1
  p2 = p2
  r1 = r1
  Receivers = {r1}
  Purchases = {p1, p2}
  Orders <- MCOrders
  DefaultDeposit <- MCDeposit
  Balances <- MCBalances
  Rate = 2
  Finney = 1
  BeiPerBooty = 4
  MaxBooty = 2
  Dust = 1
  TopUps = {1, 3}
  MaxCrashes = 1
  MaxRequests = 2
  None = None
INVARIANTS NothingLost DoneMeansCharged OneUnderSemaphore SwapWithinBounds WithdrawalLeaksOnlyOnFailure
PROPERTIES ClosesDrained OperationsEnd
CHECK_DEADLOCK FALSE
