SPECIFICATION FairCallStartSpec
CONSTANTS
    UserIds = {1, 2, 3}
    Pairs <- MCPairs
    CallIds = {1, 2}
    Executions = {h1, h2}
INVARIANTS
    OneActiveCallPerUser
PROPERTIES
    OnlyTheRobbedRob
    LocksGoAway
CHECK_DEADLOCK FALSE
