SPECIFICATION FairSpec
CONSTANTS
    Calls = {c1, c2}
    Modulus = 4
    Window = 3
INVARIANTS TypeOK NoCrossTalk WaiterIsReachable ZeroIsNeverRegistered WaitLeavesNoEntry
PROPERTIES KeepsPromise CallsReturn
