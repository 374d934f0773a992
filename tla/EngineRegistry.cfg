\* Three Lua states that open and close the module six times in all.
CONSTANTS
    a = a
    b = b
    c = c
    States = {a, b, c}
    MaxOpens = 6
SPECIFICATION RegistrySpec
SYMMETRY StateSymmetry
CHECK_DEADLOCK FALSE
INVARIANTS
    OwnEngine
