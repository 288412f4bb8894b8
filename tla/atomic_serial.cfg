\* One call at a time, fair; two crashes: enough to repeat a repeated step.
SPECIFICATION FairSerialSpec
CONSTANTS
  Jobs = {j1, j2}
  Restarts = {r1}
  NumMethods = 3
  NoState = NoState
  MaxCrashes = 2
INVARIANTS RepeatOnlyAfterCrash RunningIsRecorded
PROPERTIES ForgottenOnlyWhenOver KeepsContract EventuallyOver
CHECK_DEADLOCK FALSE
