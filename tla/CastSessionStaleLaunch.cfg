SPECIFICATION Spec
CONSTANTS
    Calls = {c1}
    NoCall = NoCall
    Ops = {"launch_app", "stop_app"}
    MaxApps = 2
    MaxMedia = 0
    MaxLosses = 0
    MaxCalls = 3
    MaxNews = 0
    NetCap = 2
    EventCap = 3
INVARIANT LaunchIsFresh
CHECK_DEADLOCK FALSE
