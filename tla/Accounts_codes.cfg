SPECIFICATION Spec
CONSTANTS
    Handlers = {h1, h2}
    MaxCodes = 2
    Threshold = 2
SYMMETRY Symmetry
INVARIANTS
    Inv
PROPERTIES
    NoDeadCode
    NothingWhileDisabled
