SPECIFICATION Spec
CONSTANTS
    did1 = did1  did2 = did2  annie = annie  anna = anna  ann = ann  hello = hello  p1 = p1  p2 = p2
    Chats = {p1, p2}
    Peers = {did1, did2}
    Words = {annie}
    Names = {annie}
    Includes <- MCIncludes
    None = None
SYMMETRY MCAlike
INVARIANTS
    TypeOK
    ReachesMeant
    FallbackSendable
