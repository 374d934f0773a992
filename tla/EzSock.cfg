\* Two sockets, one of them with a worker; the number 0 and one descriptor, which
\* passes from one socket to the other.
CONSTANTS
    a = a
    b = b
    t1 = t1
    LuaThread = L
    None = None
    Wrappers = {a, b}
    Workers = {t1}
    Server = a
    Home <- MCHome
    Numbers = {0, 1}
    MaxSockets = 2
    MaxResets = 1
    MaxSessions = 1
SPECIFICATION Spec
CHECK_DEADLOCK FALSE
INVARIANTS
    TypeOK
    OwnDescriptor
    NoLeakedDescriptor
    CallsOwn
    StateTruthful
    SessionSafe
