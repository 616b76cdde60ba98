SPECIFICATION FairSpec
CONSTANTS
    ann = ann  bob = bob  k1 = k1  k2 = k2
    m1 = m1  m2 = m2  m3 = m3  e1 = e1  e2 = e2  e3 = e3  e4 = e4
    box = box  nos = nos  nos2 = nos2  p1 = p1  p2 = p2
    Senders = {ann}
    Keys = {k1, k2}
    Msgs = {m1, m2}
    Events = {e1}
    Relays = {box, nos}
    Mailboxes = {box}
    RouteOrder <- MCBoxNos
    Syncers = {p1}
    SenderOf <- MCSenderOf
    MsgOf <- MCMsgOf
    KeyOf <- MCKeyOf
    Fault <- MCAllGood
    Stamp <- MCStamp
    CreatedAt <- MCCreatedAt
    PullLimit = 4
    DirectMsgs = {m1, m2}
    Threads = {ann}
    Cards <- MCOneKey
    FirstPeers = {ann}
    InOrder = TRUE
    None = None
    DirectCopy = DirectCopy
PROPERTIES
    UnreadCountsNew
    RecoverableStored
    MailboxDrained
