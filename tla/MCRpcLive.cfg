SPECIFICATION Spec
CONSTANTS
  A = A
  B = B
  c1 = c1
  c2 = c2
  None = None
  Peers <- MCPeers
  Cmds <- MCCmds
  Assignments <- OnlyTwoSided
  Conforming <- ClientA
  MaxId = 1
  MaxResponses = 1
  HandlerBuffer = 1
  WireCapacity = 1
PROPERTIES
  
  DownReleasesTasks
CHECK_DEADLOCK FALSE
