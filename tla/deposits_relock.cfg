\* Crashes, and unlocks with a deposit of the last session still running.
SPECIFICATION Spec
CONSTANTS
  Requests = {q1, q2}
  MaxSessions = 2
  Relock = TRUE
  Poller = Poller
  Resolved = Resolved
  Rejected = Rejected
  None = None
SYMMETRY RequestSymmetry
INVARIANTS RepeatsPerRun
CHECK_DEADLOCK FALSE
