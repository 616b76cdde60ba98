SPECIFICATION Spec
CONSTANTS
    ann = ann  p1 = p1  p2 = p2
    Peers = {ann}
    Commands = {p1, p2}
    Levels = {"unknown", "seen"}
    RiskSets = {{}}
    Outcomes = {"mismatch"}
    MaxClock = 1
    MaxId = 2
    None = None
INVARIANTS
    NoOrphans
PROPERTIES
    OnlyUserVouches
    VerdictKept
    ConnectKeepsProfile
    DecisionStays
