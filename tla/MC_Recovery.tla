---------------------------- MODULE MC_Recovery ----------------------------
(***************************************************************************)
(* Small homes for TLC.  Ann's identity card is known from the start, Bob  *)
(* is a stranger.  e1 and e2 carry Ann's messages m1 and m2, e3 carries    *)
(* Bob's m3, and e4 is a second copy of m1.  A cfg chooses the relays, the *)
(* processes and which of the messages and events there are.               *)
(***************************************************************************)
EXTENDS Recovery, TLC

CONSTANTS ann, bob, k1, k2, m1, m2, m3, e1, e2, e3, e4, box, nos, nos2, p1, p2

Only(f, S) == [x \in S |-> f[x]]

MCSenderOf == Only(m1 :> ann @@ m2 :> ann @@ m3 :> bob, Msgs)
MCMsgOf == Only(e1 :> m1 @@ e2 :> m2 @@ e3 :> m3 @@ e4 :> m1, Events)
MCStamp == Only(e1 :> 1 @@ e2 :> 2 @@ e3 :> 3 @@ e4 :> 4, Events)

\* Two events of the same second, then one of the next.
MCCreatedAt == Only(e1 :> 1 @@ e2 :> 1 @@ e3 :> 2 @@ e4 :> 2, Events)

MCKeyOf == Only(e1 :> k1 @@ e2 :> k1 @@ e3 :> k2 @@ e4 :> k1, Events)

\* Ann's second message is signed with a new key, which only her next card
\* names.
MCNewKeyOf == Only(e1 :> k1 @@ e2 :> k2 @@ e3 :> k2 @@ e4 :> k1, Events)

MCAllGood == [e \in Events |-> "none"]
MCFaults == Only(e1 :> "misaddressed" @@ e2 :> "none" @@ e3 :> "none" @@ e4 :> "corrupt", Events)

MCOneKey == [c \in Senders |-> IF c = ann THEN {k1} ELSE {}]
MCCards == [c \in Senders |-> IF c = ann THEN {k1, k2} ELSE {k2}]

MCBox == <<box>>
MCNos == <<nos>>
MCBoxNos == <<box, nos>>
MCNosNos == <<nos, nos2>>
=============================================================================
