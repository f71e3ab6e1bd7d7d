\* Lockstep mode with data left in the FIFO.
CONSTANTS
  NSamp = 1
  MaxBlk = 5
  Fetch = "csv"
  Slots = 2
  Pages = 1
  lockstep = TRUE
SPECIFICATION FifoSpec
PROPERTY LockstepDiscards
