SPECIFICATION FairSpec
CONSTANTS
    MaxGen = 1
    MaxAttempts = 1
    AutoReconnect = FALSE
    EventCap = 1
    UserCalls = {"disconnect", "reconnect"}
PROPERTY ReconnectAfterDisconnect
CHECK_DEADLOCK FALSE
