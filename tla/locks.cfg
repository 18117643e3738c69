SPECIFICATION FairSpec
CONSTANTS
  Server = Server  None = None
  Client = {c1, c2}
  Room = {lobby}
  Admin = {Console}
  Cap = 1
INVARIANTS TypeOK ChainsEnd
PROPERTIES OperationsEnd
