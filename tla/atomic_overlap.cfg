\* Two start() calls and a restart() that overlap freely, one crash.
SPECIFICATION Spec
CONSTANTS
  Jobs = {j1, j2}
  Restarts = {r1}
  NumMethods = 2
  NoState = NoState
  MaxCrashes = 1
SYMMETRY CallSymmetry
INVARIANTS StepsInOrder ResolvedMeansComplete
CHECK_DEADLOCK FALSE
