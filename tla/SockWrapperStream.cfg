\* A stream socket with callbacks: connect, send, receive, close, shut down.
CONSTANTS
    Workers = {w1, w2, w3, w4}
    LuaThread = L
    Nobody = Nobody
    Registered = {"Connect", "Send", "Receive", "Disconnect"}
    Calls = {"Create", "Connect", "Send", "Receive", "Close", "Error", "ShutDown"}
    MaxEvents = 2
    MaxNest = 2
SPECIFICATION Spec
SYMMETRY WorkerSymmetry
CHECK_DEADLOCK FALSE
INVARIANTS
    TypeOK
    HandOK
    EventOnce
    NoStaleUse
PROPERTIES
    ImplementsRequestQueue
