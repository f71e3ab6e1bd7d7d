\* One block of one sample, which contradicts both comments.
CONSTANTS
  Bytes = {1}
  NSamp = 1
  FirstNums = {0}
  ClockMod = 4
  Gaps = {1}
  MaxCalls = 1
SPECIFICATION Spec
INVARIANT AsCommented
\* The bound on the calls.
CHECK_DEADLOCK FALSE
