\* Four programs one after the other, three samples each.
CONSTANTS
  N = 3
  MaxRuns = 4
SPECIFICATION Spec
INVARIANTS SampleFresh LeavesSpiIdle CrashWindows
\* The last program ends.
CHECK_DEADLOCK FALSE
