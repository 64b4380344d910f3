SPECIFICATION Spec
CONSTANTS
  A = A
  B = B
  c1 = c1
  c2 = c2
  None = None
  Peers <- MCPeers
  Cmds <- MCCmds
  Assignments <- BothWays
  Conforming <- ClientA
  MaxId = 2
  MaxResponses = 2
  HandlerBuffer = 1
  WireCapacity = 1
INVARIANTS
  TypeOK
  DeliveredIsPrefix
  CleanEndIsComplete
  NoStrayMessage
  
CHECK_DEADLOCK FALSE
