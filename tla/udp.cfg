CONSTANTS
  Hosts = {"h1", "h2"}
  FirstHost = "h1"
  Ports = {1, 2}
  ServerPort = 1
  Schemas = {2, 3}
  Null = Null
  NoMessage = NoMessage
  InOrder = TRUE
  MaxStatus = 1
  MaxFaults = 2
  MaxNet = 1
  LookupFails = TRUE
SPECIFICATION Spec
CHECK_DEADLOCK FALSE
INVARIANTS LastKept SchemaKept
PROPERTIES ServerAgrees
