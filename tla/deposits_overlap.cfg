\* A deposit is requested while a restarted one is under way.
SPECIFICATION Spec
CONSTANTS
  Requests = {q1, q2}
  MaxSessions = 2
  Relock = FALSE
  Poller = Poller
  Resolved = Resolved
  Rejected = Rejected
  None = None
INVARIANTS OneDepositAtATime
CHECK_DEADLOCK FALSE
