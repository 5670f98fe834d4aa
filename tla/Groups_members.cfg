SPECIFICATION Spec
CONSTANTS
    People = {wyn, ann, bob, cat}
    Nobody = Nobody
    Watched = wyn
    MaxMembers = 3
    Handlers = {h1, h2}
SYMMETRY Symmetry
INVARIANTS
    Inv
PROPERTIES
    OnlyRacesBreakTheGroup
CHECK_DEADLOCK FALSE
