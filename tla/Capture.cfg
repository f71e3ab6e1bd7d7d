\* Command lines of four words; rates 0, 2 (a long period), 3, 4 (the
\* maximum), 6 (too high, no room for the pulse), 13 (a period of 0).
CONSTANTS
  Numbers = {0, 2, 3, 6, 13}
  MaxWords = 4
  MAX_SAMPS = 2
  SAMPLE_RATE = 4
  MAX_SAMPLE_RATE = 4
  PWM_TICKS = 12
  PWM_VALUE = 2
  Patience = 6
  Nap = 2
  Late = 1
SPECIFICATION Spec
INVARIANT PrintsBlock
\* The program ends.
CHECK_DEADLOCK FALSE
