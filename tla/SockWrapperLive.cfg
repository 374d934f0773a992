\* A datagram socket, and stream calls without callbacks.
CONSTANTS
    Workers = {w1, w2}
    LuaThread = L
    Nobody = Nobody
    Registered = {"ReceiveFrom", "Receive"}
    Calls = {"Send", "Accept", "SendTo", "Receive", "ReceiveFrom", "Close", "Error", "ShutDown"}
    MaxEvents = 2
    MaxNest = 2
SPECIFICATION FairSpec
CHECK_DEADLOCK FALSE
PROPERTIES
    KillTerminates
    ResultDelivered
