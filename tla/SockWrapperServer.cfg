\* A listening socket whose accepts may fail, so that workers run scripts.
CONSTANTS
    Workers = {w1, w2, w3}
    LuaThread = L
    Nobody = Nobody
    Registered = {"Accept", "Disconnect"}
    Calls = {"Listen", "Accept", "Close", "AddWorker", "Error", "ShutDown"}
    MaxEvents = 2
    MaxNest = 2
SPECIFICATION Spec
SYMMETRY WorkerSymmetry
CHECK_DEADLOCK FALSE
INVARIANTS
    EventOnce
    CountExact
    ResetAlone
    OnlyLuaThreadResets
    FlagJustified
