SPECIFICATION FairSpec
CONSTANTS
    MaxGen = 2
    MaxAttempts = 1
    AutoReconnect = TRUE
    EventCap = 1
    UserCalls = {"disconnect", "drop"}
INVARIANTS AliveIsBacked DisconnectIsFinal LossIsNoticed
PROPERTIES DisconnectReturns DisconnectEndsAuto LossIsHandled EverythingStops ActsAsConnection
CHECK_DEADLOCK FALSE
