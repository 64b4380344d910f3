SPECIFICATION Spec
CONSTANTS
    ServerMessages <- MCServerMessages
    MaxFlight = 2
    MaxCaps = 2
    MaxSeen = 3
    MaxInput = 2
    InputCap = 1
    PingCap = 1
    MaxCalls = 3
    MaxStream = 3
    Listeners = {l1, l2}
    Users = {u}
    QueueCap = 1
    InboxCap = 0
    MaxEvents = 3
INVARIANTS
    AcceptedIsWritten
    SlotIsHeldForACause
PROPERTIES
    CloseCompletes
    RoomIsABroadcast
    ListenersCatchUp
CHECK_DEADLOCK FALSE
