\* The reader leaves between poll and write.
CONSTANTS
  NSamp = 1
  MaxBlk = 4
  Fetch = "csv"
  Slots = 2
  Pages = 1
  lockstep = FALSE
SPECIFICATION FifoSpec
INVARIANT SurvivesReader
