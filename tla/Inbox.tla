------------------------------- MODULE Inbox -------------------------------
(***************************************************************************)
(* What the receiving side of a LinkClaw home promises its user, whatever  *)
(* relays, direct peers, concurrent processes and errors do: a message is  *)
(* taken in once, the copy taken in first is the one that stays, it is     *)
(* shown only after it was taken in, and always with the status that fits  *)
(* that copy.                                                              *)
(***************************************************************************)
EXTENDS FiniteSets

CONSTANTS
    Msgs,      \* messages, by message_id
    Copies,    \* the copies of messages that may come in
    CopiesOf,  \* message -> its copies
    StatusOf,  \* copy -> the status its message is shown with
    None,      \* no copy
    Hidden     \* the status of a message that is not shown

VARIABLES
    stored,    \* message -> the copy taken in, or None
    shown      \* message -> the status it is shown with, or Hidden

vars == <<stored, shown>>

Init ==
    /\ stored = [m \in Msgs |-> None]
    /\ shown = [m \in Msgs |-> Hidden]

\* A transaction takes in one copy of each of some new messages.
Store(new) ==
    /\ new # {}
    /\ \A m \in new : stored[m] = None
    /\ \E copy \in [new -> Copies] :
          /\ \A m \in new : copy[m] \in CopiesOf[m]
          /\ stored' = [m \in Msgs |-> IF m \in new THEN copy[m] ELSE stored[m]]
    /\ UNCHANGED shown

Show(m) ==
    /\ stored[m] # None
    /\ shown[m] = Hidden
    /\ shown' = [shown EXCEPT ![m] = StatusOf[stored[m]]]
    /\ UNCHANGED stored

Next ==
    \/ \E new \in SUBSET Msgs : Store(new)
    \/ \E m \in Msgs : Show(m)

Spec == Init /\ [][Next]_vars
=============================================================================
