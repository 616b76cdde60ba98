SPECIFICATION SiteSpec
CONSTANTS
    p1 = p1  p2 = p2  web = web  w1 = w1  w2 = w2  r = r  o1 = o1
    Processes = {p1, p2}
    Names = {web}
    MaxCommands = 4
    Tiers <- MCTiers
    MaxOpened = 3
    MaxTogether = 4
    MaxWriters = 2
    Publishers = {w1, w2}
    Readers = {r}
    Origins = {o1}
    Served = o1
    None = None
    Cut = Cut
    Mixed = Mixed
SYMMETRY MCAlike
CHECK_DEADLOCK FALSE
INVARIANTS
    TypeOK
    RowsHaveFiles
    CardsKept
    OneSender
    NoFalseMismatch
    WholeBundle
    SiteAsCards
