\* A list of three sockets, of which two userdata are held at a time, and two
\* destructors or Closes within each other in the middle of whatever runs.
CONSTANTS
    w1 = w1
    w2 = w2
    w3 = w3
    None = None
    Wrappers = {w1, w2, w3}
    Crew = 1
    MaxCrew = 1
    MaxUserdata = 2
    MaxRequests = 1
    MaxNest = 2
SPECIFICATION Spec
SYMMETRY WrapperSymmetry
CHECK_DEADLOCK FALSE
INVARIANTS
    TypeOK
    ListOK
    HeldAlive
    DestructorAlone
    NoLeak
    WalkComplete
