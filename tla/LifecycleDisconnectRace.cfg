SPECIFICATION Spec
CONSTANTS
    MaxGen = 2
    MaxAttempts = 1
    AutoReconnect = TRUE
    EventCap = 1
    UserCalls = {"disconnect"}
INVARIANT DisconnectShutsDown
CHECK_DEADLOCK FALSE
