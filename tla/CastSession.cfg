SPECIFICATION Spec
CONSTANTS
    Calls = {c1, c2}
    NoCall = NoCall
    Ops = {"launch_app", "stop_app", "load_media", "stop_media", "media_status"}
    MaxApps = 2
    MaxMedia = 2
    MaxLosses = 1
    MaxCalls = 2
    MaxNews = 1
    NetCap = 2
    EventCap = 1
SYMMETRY Symmetry
INVARIANTS TypeOK LoadNamesOneApp UsedAfterConnect KnowsLiveSession WatchesCatchUp OkMeansNewSession
CHECK_DEADLOCK FALSE
