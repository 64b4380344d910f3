SPECIFICATION Spec
CONSTANTS
  A = A
  B = B
  c1 = c1
  c2 = c2
  None = None
  Peers <- MCPeers
  Cmds <- MCCmds
  Assignments <- OnlyOneSided
  Conforming <- ClientA
  MaxId = 2
  MaxResponses = 1
  HandlerBuffer = 1
  WireCapacity = 1
INVARIANT
  RefusedOnlyWhileRunning
CHECK_DEADLOCK FALSE
