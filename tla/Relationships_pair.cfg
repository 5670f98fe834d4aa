SPECIFICATION Spec
CONSTANTS
    People = {alice, bob}
    Nobody = Nobody
    Docs = {d1, d2}
    NoDoc = NoDoc
    Convs = {c1}
    NoConv = NoConv
    Handlers = {h1, h2}
    Requests = {"request", "accept", "delete", "block", "blockAndDelete",
                "unblock", "talk", "hide", "send"}
SYMMETRY Symmetry
INVARIANTS
    Inv
PROPERTIES
    BlocksAreNotUndone
    NobodyReachesThroughABlock
