\* Every program, every failure, and rmmod at any moment.
CONSTANTS
  Modules = {"bradio", "fiqtest_3", "fiqtest", "bradio_1", "testfiqtimer",
             "gpiotest", "alloctest", "bradio_3", "fiqtest_2", "fiqtest_4"}
  MayFail = {"pdev", "kzalloc", "buffer", "dmabuf", "gpiospi", "irqtimer",
             "claim", "misc", "remap"}
  Clients = {c1, c2}
  Loops = 1
  MaxLoads = 2
SPECIFICATION Spec
INVARIANTS TypeOK NoStrayFiq OopsCauses StatusTells Reloads
\* The system is at rest when all clients have left, and after a crash.
CHECK_DEADLOCK FALSE
