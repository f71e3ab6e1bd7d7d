\* Three blocks of two samples, the serial number and the clock at their wrap.
CONSTANTS
  Bytes = {0, 128, 250, 255}
  NSamp = 2
  FirstNums = {0, 65534}
  ClockMod = 4
  Gaps = {1, 3}
  MaxCalls = 3
SPECIFICATION Spec
INVARIANTS Decodes TimeFromFirst
\* The bound on the calls.
CHECK_DEADLOCK FALSE
