SPECIFICATION CalmSpec
CONSTANTS
    ann = ann  m1 = m1  m2 = m2  nos = nos  nos2 = nos2
    k1 = k1  k2 = k2  box = box  box2 = box2
    Convs = {ann}
    Msgs = {m1, m2}
    ConvOf <- MCConvOf
    Relays = {nos, nos2}
    RelaysOf <- MCNosNos
    Keys = {k1}
    KeysOf <- MCOneKey
    ManualOf <- MCPlainUrls
    Mailboxes = {box}
    MailboxesOf <- MCBox
    Direct = Direct
    DirectOn = {}
    Dialable = {}
    EarlierRoute <- MCNothingEarlier
    MaxUnread = 0
    Serial = FALSE
    None = None
    Incoming = Incoming
CHECK_DEADLOCK FALSE
INVARIANTS
    LastRouteTrue
    AuditComplete
