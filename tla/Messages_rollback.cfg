SPECIFICATION Spec
CONSTANTS
    Users = {u1, u2}
    Files = {f1}
    Images = {f1}
    NoUser = NoUser
    NoFile = NoFile
    Handlers = {h1}
    Requests = {"create"}
    MaxMessages = 1
    MaxFaults = 1
SYMMETRY Symmetry
INVARIANTS
    MessagesKeepTheirFile
CHECK_DEADLOCK FALSE
