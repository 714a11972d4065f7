SPECIFICATION LiveSpec
CONSTANTS
  Images = {"opcua", "modbus", "status", "other"}
  UaClients = {c1, c2}
  MaxRows = 2
  MaxResets = 2
  Masters = {m1, m2}
  RegCount = 2
  RegValues = {0, 1}
  Requests <- SomeRequests
  Splits = {4, 8}
  Backlog = 1
  NoMaster = none
  MaxEvents = 2
  Internal = 1
  SpiModules = 2
INVARIANTS OneServerTask WithinRegisters NoSocketLeaks OneAnswer PageShowsAddress
  NoHalfInterface HandlesAreUsable
PROPERTIES ReleasedCompletely ResetsAreAsked ResetIsAnswered CardIsPublished ServedInTurn LinkSettles
CHECK_DEADLOCK FALSE
