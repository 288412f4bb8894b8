SPECIFICATION FairSpec
CONSTANTS
  Calls <- MCCalls
  Caller <- MCCaller
  Method <- MCMethod
  Origin <- MCOrigin
  Passed = {"buy"}
  Controlled = {"buy"}
  Engine = {"eth"}
  Whitelist <- MCWhitelist
  None = None
  Dispatches <- MCDispatches
  MaxDispatches = 2
  MaxSubmits = 3
  MaxLocks = 1
  MaxLag = 1
  MaxTries = 2
  MaxKills = 1
  MaxSends = 2
  Reserve = 2
  Cost = 1
  MaxEth = 4
  MaxSessions = 2
  MaxFaults = 2
  Items <- MCItems
  MaxHistory = 4
INVARIANTS MirrorsAreTrue KnowsTheWords FailureIsFinal HistoryIsWhole AnnouncementsReach
PROPERTIES AnswersTellTheTruth HandshakeEnds SweptDown KeepsReserve
CHECK_DEADLOCK FALSE
