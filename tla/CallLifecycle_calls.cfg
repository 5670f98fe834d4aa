SPECIFICATION FairSpec
CONSTANTS
    alice = alice
    bob = bob
    phone = phone
    laptop = laptop
    c1 = c1
    Calls = {c1}
    Users <- MCUsers
    Sockets <- MCSockets
    Handlers = {h1, h2}
    CallerOf <- MCCallerOf
    CalleeOf <- MCCalleeOf
    OwnerOf <- MCOwnerOf
    NoCall = NoCall
    NoSocket = NoSocket
    MaxFaults = 1
INVARIANTS
    OutcomesAgree
    OneSummaryPerCall
    NobodyIsLeftRinging
PROPERTIES
    StatusIsForward
    CallsEnd
CHECK_DEADLOCK FALSE
