SPECIFICATION RealtimeSpec
CONSTANTS
    Sockets = {s1, s2}
    Sessions = {x1, x2}
SYMMETRY Symmetry
INVARIANTS
    RealtimeInv
PROPERTIES
    NoCommandAfterTheEnd
CHECK_DEADLOCK FALSE
