------------------------------- MODULE Outbox -------------------------------
(***************************************************************************)
(* What the sending side of a LinkClaw home promises its user: a message   *)
(* is in the outbox before anything of it leaves the home, it says         *)
(* "queued" or "delivered" only of a message that a transport of the kind  *)
(* it names has taken, and it says so, or that the message failed, once.   *)
(* A transport may take a message whose answer was given up on at any time *)
(* after that.                                                             *)
(***************************************************************************)
CONSTANTS
    Msgs,      \* outgoing messages
    Kinds,     \* kinds of transport
    StatusBy,  \* kind -> the status of a message it has taken
    None,      \* no transport
    Hidden     \* the status of a message that is not in the outbox

VARIABLES
    shown,     \* message -> the status it is shown with, or Hidden
    via,       \* message -> the kind of transport it is shown with, or None
    held       \* message -> the kinds of transport that have taken it

vars == <<shown, via, held>>

Init ==
    /\ shown = [m \in Msgs |-> Hidden]
    /\ via = [m \in Msgs |-> None]
    /\ held = [m \in Msgs |-> {}]

Post(m) ==
    /\ shown[m] = Hidden
    /\ shown' = [shown EXCEPT ![m] = "pending"]
    /\ UNCHANGED <<via, held>>

Take(m, k) ==
    /\ shown[m] # Hidden
    /\ held' = [held EXCEPT ![m] = @ \cup {k}]
    /\ UNCHANGED <<shown, via>>

Claim(m, k) ==
    /\ shown[m] = "pending"
    /\ k \in held[m]
    /\ shown' = [shown EXCEPT ![m] = StatusBy[k]]
    /\ via' = [via EXCEPT ![m] = k]
    /\ UNCHANGED held

Fail(m) ==
    /\ shown[m] = "pending"
    /\ shown' = [shown EXCEPT ![m] = "failed"]
    /\ UNCHANGED <<via, held>>

Next ==
    \E m \in Msgs :
        \/ Post(m)
        \/ \E k \in Kinds : Take(m, k) \/ Claim(m, k)
        \/ Fail(m)

Spec == Init /\ [][Next]_vars
=============================================================================
