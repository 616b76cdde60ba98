---------------------------- MODULE MC_Directory ----------------------------
(***************************************************************************)
(* A small world for TLC.  Peer 1 moves from relay 2 to relay 1 and takes  *)
(* another Nostr relay and key with it; peer 2 has one page, with neither. *)
(***************************************************************************)
EXTENDS Directory, TLC

CONSTANTS p1, p2, nos, nos2, k1, k2

Page(box, nostr, key) == [box |-> box, nostr |-> nostr, key |-> key]

MCPagesOf ==
    1 :> {Page(2, {nos}, k1), Page(1, {nos2}, k2)}
    @@ 2 :> {Page(3, {}, None)}

MCCardsOf ==
    1 :> {[nostr |-> {nos2}, key |-> k2]} @@ 2 :> {}

MCAlike == Permutations(Commands)

MCTrustOf ==
    1 :> [level |-> "pinned", state |-> "mismatch", risk |-> {}]
    @@ 2 :> [level |-> "trusted", state |-> "", risk |-> {"spoofing"}]
=============================================================================
