---------------------------- MODULE MessageStatus ----------------------------
(***************************************************************************)
(* The status lattice of a message row (internal/runtime/message_status.go)*)
(* as pure operators.  A status that reaches the runtime store goes        *)
(* through MergeMessageStatus, so every module that writes a row of        *)
(* runtime_messages uses these operators.                                  *)
(***************************************************************************)

MessageStatuses ==
    {"pending", "queued", "recovering", "recovered", "delivered", "failed"}

\* The empty string: the row does not exist, or carries no status.
NoStatus == ""

\* Older spellings the code still accepts, with the status each one means.
StatusAliases ==
    [deferred         |-> "queued",
     recoverable      |-> "queued",
     syncing          |-> "recovering",
     recovering_async |-> "recovering",
     received         |-> "recovered",
     synced           |-> "recovered"]

NormalizeMessageStatus(label) ==
    IF label \in DOMAIN StatusAliases THEN StatusAliases[label] ELSE label

\* What may follow a known status, itself excepted.
StatusSuccessors ==
    [pending    |-> {"queued", "recovering", "recovered", "delivered", "failed"},
     queued     |-> {"recovering", "recovered", "delivered", "failed"},
     recovering |-> {"queued", "recovered", "delivered", "failed"},
     recovered  |-> {"delivered", "failed"},
     delivered  |-> {},
     failed     |-> {"queued", "recovering", "recovered", "delivered"}]

CanTransitionMessageStatus(from, to) ==
    LET current == NormalizeMessageStatus(from)
        next    == NormalizeMessageStatus(to)
    IN  \/ current = NoStatus
        \/ next = NoStatus
        \/ current = next
        \/ current \notin MessageStatuses
        \/ next \in StatusSuccessors[current]

MergeMessageStatus(current, next) ==
    LET from == NormalizeMessageStatus(current)
        to   == NormalizeMessageStatus(next)
    IN  CASE from = NoStatus -> to
          [] from # NoStatus /\ to = NoStatus -> from
          [] OTHER -> IF CanTransitionMessageStatus(from, to) THEN to ELSE from
=============================================================================
