\* The worker is killed with a deposit under way; the next session resumes it.
SPECIFICATION Spec
CONSTANTS
  Requests = {q1, q2}
  MaxSessions = 2
  Relock = FALSE
  Poller = Poller
  Resolved = Resolved
  Rejected = Rejected
  None = None
SYMMETRY RequestSymmetry
INVARIANTS LockLeaksOnlyOnFailure ActiveIsRecorded RepeatsPerSession
CHECK_DEADLOCK FALSE
