\* One session, no restart: the semaphore keeps deposits apart.
SPECIFICATION FairSpec
CONSTANTS
  Requests = {q1, q2, q3}
  MaxSessions = 1
  Relock = FALSE
  Poller = Poller
  Resolved = Resolved
  Rejected = Rejected
  None = None
INVARIANTS OneDepositAtATime
PROPERTIES RequestsEnd
CHECK_DEADLOCK FALSE
