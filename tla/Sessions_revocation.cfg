SPECIFICATION Spec
CONSTANTS
    Ids = {s1, s2}
    NoSession = NoSession
    All = All
    Handlers = {h1, h2}
    Requests = {"login", "refresh", "logout", "logoutAll", "change", "remove"}
    MaxTokens = 3
    MaxVersion = 1
    MaxFaults = 2
SYMMETRY Symmetry
INVARIANTS
    Inv
    EveryRevocationHappens
PROPERTIES
    RevokedForGood
CHECK_DEADLOCK FALSE
