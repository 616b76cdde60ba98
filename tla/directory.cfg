SPECIFICATION Spec
CONSTANTS
    p1 = p1  p2 = p2  nos = nos  nos2 = nos2  k1 = k1  k2 = k2
    Peers = {1, 2}
    Commands = {p1, p2}
    Relays = {1, 2, 3}
    NostrRelays = {nos, nos2}
    Keys = {k1, k2}
    PagesOf <- MCPagesOf
    CardsOf <- MCCardsOf
    TrustOf <- MCTrustOf
    Day = 1
    Short = 0
    MaxClock = 1
    MaxCommands = 4
    None = None
SYMMETRY MCAlike
CHECK_DEADLOCK FALSE
INVARIANTS
    TypeOK
    FreshEarned
    OwnFactsOnly
    BindingsWhole
    WarningsLower
    LimitKeepsFreshest
PROPERTIES
    ConnectKeepsRelay
