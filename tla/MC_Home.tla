------------------------------ MODULE MC_Home ------------------------------
(***************************************************************************)
(* A small home for TLC.                                                   *)
(***************************************************************************)
EXTENDS Site, TLC

CONSTANTS p1, p2, web, w1, w2, r, o1

MCTiers == {{"did"}, Artifacts}

MCAlike == Permutations(Processes) \cup Permutations(Publishers)
=============================================================================
