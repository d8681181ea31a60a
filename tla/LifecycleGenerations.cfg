SPECIFICATION Spec
CONSTANTS
    MaxGen = 3
    MaxAttempts = 2
    AutoReconnect = TRUE
    EventCap = 1
    UserCalls = {"reconnect", "request"}
INVARIANTS TypeOK OneConnection NoRequestOnOldConnection
PROPERTY AliveIsSetAfterJoin
CHECK_DEADLOCK FALSE
