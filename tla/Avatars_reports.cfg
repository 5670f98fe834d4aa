SPECIFICATION AvatarsSpec
CONSTANTS
    Requests = {h1, h2}
    ReportIds = {r1, r2}
    MaxFiles = 2
    MaxAborts = 1
SYMMETRY Symmetry
INVARIANTS
    AvatarsInv
    EvidenceIsKept
    NoFileIsLeftOver
