----------------------------- MODULE MC_Plugin -----------------------------
(***************************************************************************)
(* Two peers for TLC, that may go by Annie or Anna: "ann" is a part of both *)
(* names.                                                                  *)
(***************************************************************************)
EXTENDS Plugin, TLC

CONSTANTS did1, did2, annie, anna, ann, hello, p1, p2

MCIncludes == {<<annie, ann>>, <<anna, ann>>}

\* The chats are alike, and so are the peers.
MCAlike == Permutations(Chats) \cup Permutations(Peers)
=============================================================================
