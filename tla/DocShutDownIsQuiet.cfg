\* Engine.cpp:174 says that nothing is left to do networking after ShutDown.
CONSTANTS
    Workers = {w1, w2}
    LuaThread = L
    Nobody = Nobody
    Registered = {"SendTo"}
    Calls = {"SendTo", "ShutDown"}
    MaxEvents = 2
    MaxNest = 2
SPECIFICATION Spec
SYMMETRY WorkerSymmetry
CHECK_DEADLOCK FALSE
INVARIANT
    ShutDownIsQuiet
