\* Every mode, every failure, a signal at any moment.
CONSTANTS
  Modes = {"test", "sample", "fifo", "udp", "single"}
  MayFail = {"map", "mbox", "alloc", "lock", "vcmap", "mkfifo", "socket",
             "fopen", "fwrite"}
  Sigint = TRUE
SPECIFICATION Spec
INVARIANTS TypeOK DmaOwnsMemory CleanExit CrashCauses SpiOffAtExit IInv
PROPERTY Ends
\* The program ends.
CHECK_DEADLOCK FALSE
