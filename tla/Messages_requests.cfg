SPECIFICATION Spec
CONSTANTS
    Users = {u1}
    Files = {f1, f2}
    Images = {f2}
    NoUser = NoUser
    NoFile = NoFile
    Handlers = {h1, h2, h3}
    Requests = {"create", "delete", "edit", "react", "unreact", "pin", "unpin", "read", "hide"}
    MaxMessages = 1
    MaxFaults = 2
SYMMETRY Symmetry
INVARIANTS
    Inv
    MediaFollowsMessage
    NoFileIsLeftOver
PROPERTIES
    DeletedIsFinal
CHECK_DEADLOCK FALSE
