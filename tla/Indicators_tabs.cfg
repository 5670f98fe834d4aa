SPECIFICATION FairSpec
CONSTANTS
    Tabs = {t1, t2}
    Typings = {h1, h2, h3}
    NoTab = NoTab
INVARIANTS
    IndicatorsInv
PROPERTIES
    NobodyStaysOnline
    NobodyStaysTyping
