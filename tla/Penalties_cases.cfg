SPECIFICATION Spec
CONSTANTS
    r1 = r1
    r2 = r2
    direct = direct
    Handlers = {h1, h2}
    Reports = {r1, r2, direct}
    ReasonOf <- CasesReasonOf
    Rules <- MCRules
    Overrides = {}
    Other = "none"
    SystemSpam = "none"
    AutoBanDays = 2
    MaxReports = 2
    LastDay = 2
    MaxFaults = 1
    Person = Person
    NoReport = NoReport
SYMMETRY Symmetry
INVARIANTS
    OneDecisionPerCase
PROPERTIES
    StrikesAddUp
    PenaltiesAreNotReduced
CHECK_DEADLOCK FALSE
