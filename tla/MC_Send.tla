------------------------------ MODULE MC_Send ------------------------------
(***************************************************************************)
(* Small homes for TLC.  Ann can be reached directly, by two Nostr relays  *)
(* - the url of the second one names a key of its own - and by a mailbox.  *)
(* A cfg chooses which of her routes there are.                            *)
(***************************************************************************)
EXTENDS Send, TLC

CONSTANTS ann, m1, m2, nos, nos2, k1, k2, box, box2

MCConvOf == [m \in Msgs |-> ann]

MCNos == [c \in Convs |-> <<nos>>]
MCNosNos == [c \in Convs |-> <<nos, nos2>>]

MCOneKey == [c \in Convs |-> <<k1>>]

MCPlainUrls == [r \in Relays |-> None]
MCNamedKey == [r \in Relays |-> IF r = nos2 THEN k2 ELSE None]

MCNoBoxes == [c \in Convs |-> <<>>]
MCBox == [c \in Convs |-> <<box>>]
MCBoxBox == [c \in Convs |-> <<box, box2>>]

MCNothingEarlier == [c \in Convs |-> None]
MCEarlier == [c \in Convs |-> <<nos, k2>>]
=============================================================================
