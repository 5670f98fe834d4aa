SPECIFICATION CallStartSpec
CONSTANTS
    UserIds = {1, 2, 3}
    Pairs <- MCPairs
    CallIds = {1, 2, 3}
    Executions = {h1, h2}
SYMMETRY Symmetry
INVARIANTS
    NobodyIsInTwoCalls
CHECK_DEADLOCK FALSE
