SPECIFICATION Spec
CONSTANTS
  A = A
  B = B
  c1 = c1
  c2 = c2
  None = None
  Peers <- MCPeers
  Cmds <- MCCmds
  Assignments <- OnlyOneSided
  Conforming <- Nobody
  MaxId = 2
  MaxResponses = 2
  HandlerBuffer = 1
  WireCapacity = 1
INVARIANT
  ResponsesMatchCommand
CHECK_DEADLOCK FALSE
