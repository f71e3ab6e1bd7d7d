\* The current driver, which never fails and stays, and one client.
CONSTANTS
  Modules = {"bradio"}
  MayFail = {}
  Clients = {c1}
  Loops = 1
  MaxLoads = 1
SPECIFICATION Spec
INVARIANT StartCollects
\* The system is at rest when the client has left.
CHECK_DEADLOCK FALSE
