---------------------------- MODULE MC_Contacts ----------------------------
(***************************************************************************)
(* A small trust book for TLC.                                             *)
(***************************************************************************)
EXTENDS Contacts, TLC

CONSTANTS ann, p1, p2
=============================================================================
