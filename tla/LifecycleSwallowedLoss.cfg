SPECIFICATION Spec
CONSTANTS
    MaxGen = 2
    MaxAttempts = 1
    AutoReconnect = TRUE
    EventCap = 1
    UserCalls = {"reconnect"}
INVARIANT ReconnectCallKeepsAutoReconnect
CHECK_DEADLOCK FALSE
