-------------------------------- MODULE Send --------------------------------
(***************************************************************************)
(* The sending side of one LinkClaw home: Service.Send of internal/message *)
(* and the part of internal/runtime it drives.  A message is entered in    *)
(* the message tables in one transaction, repeated in the runtime tables,  *)
(* offered to one group of routes after the other - the direct peer, all   *)
(* Nostr relays at once, each mailbox - until one accepts it, and repeated *)
(* in the runtime tables with the outcome.  A snapshot of the conversation *)
(* read in the transaction is written both times.  Every statement and     *)
(* every call on the network is an action; other sends, messages that come *)
(* in, a reader of the thread, errors and crashes come in between.         *)
(***************************************************************************)
EXTENDS Integers, Sequences, FiniteSets, MessageStatus

CONSTANTS
    Msgs,         \* outgoing messages, each sent by a process of its own
    Convs,        \* conversations, one for each contact
    ConvOf,       \* message -> its conversation
    Relays,       \* Nostr relays
    Keys,         \* Nostr keys of the contacts
    Mailboxes,    \* HTTP mailboxes
    Direct,       \* the direct route of a contact
    RelaysOf,     \* conversation -> relays of its contact, in order
    KeysOf,       \* conversation -> keys of its contact, the primary first
    ManualOf,     \* relay -> the key its url names, or None
    MailboxesOf,  \* conversation -> mailboxes of its contact, in order
    DirectOn,     \* contacts the direct transport is switched on for
    Dialable,     \* those of them that have a direct route
    EarlierRoute, \* conversation -> the route of an earlier success, or None
    MaxUnread,    \* bound: messages that come in unread
    Serial,       \* TRUE: one process at a time
    None,
    Incoming      \* a message that came in, as the last of its conversation

NostrRoutes == Relays \X Keys
Routes == {Direct} \cup Mailboxes \cup NostrRoutes

ASSUME ContactsAssumption ==
    /\ ConvOf \in [Msgs -> Convs]
    /\ RelaysOf \in [Convs -> Seq(Relays)]
    /\ KeysOf \in [Convs -> Seq(Keys)]
    /\ ManualOf \in [Relays -> Keys \cup {None}]
    /\ MailboxesOf \in [Convs -> Seq(Mailboxes)]
    /\ Dialable \subseteq DirectOn
    /\ DirectOn \subseteq Convs
    /\ EarlierRoute \in [Convs -> NostrRoutes \cup {None}]
    /\ MaxUnread \in Nat
    /\ Serial \in BOOLEAN

ASSUME RoutesAssumption ==
    /\ Direct \notin Mailboxes \cup NostrRoutes
    /\ Mailboxes \cap NostrRoutes = {}
    /\ None \notin Routes \cup Keys \cup Convs \cup Msgs
    /\ Incoming \notin Msgs \cup {None}

VARIABLES
    \* the world outside
    taken,     \* (message, route) pairs: routes that have taken a message
    flying,    \* the same: requests the sender no longer waits for
    \* message tables, written in transactions
    status,    \* messages.status, NoStatus if there is no row
    conv,      \* conversations: unread_count and last message
    \* runtime tables, written row by row
    rtStatus,  \* runtime_messages.status, NoStatus if there is no row
    rtRoute,   \* runtime_messages.selected_route
    rtConv,    \* runtime_conversations: unread_count and last message
    lastRoute, \* runtime_contacts.last_successful_route
    attempts,  \* runtime_route_attempts
    \* running processes
    job,       \* the send of each message
    incoming,  \* a message from the peer that is stored and not repeated yet
    reader     \* the conversation whose thread is being marked read

tableVars   == <<status, conv>>
messageRows == <<rtStatus, rtRoute>>
contactRows == <<rtConv, lastRoute>>
otherVars   == <<incoming, reader>>
vars == <<taken, flying, tableVars, messageRows, contactRows, attempts, job, otherVars>>

-----------------------------------------------------------------------------
(* A process in "message send": where it is, and the locals it still reads. *)

Conversations == [unread : Nat, last : Msgs \cup {None, Incoming}]

NewConversation == [unread |-> 0, last |-> None]

IdleJob ==
    [pc       |-> "idle",           \* next step
     pass     |-> 1,                \* which time the runtime rows are written
     conv     |-> NewConversation,  \* snapshot of the conversation
     recent   |-> None,             \* last successful route read at the start
     at       |-> 0,                \* group of routes being tried
     accepted |-> {},               \* routes of the group that accepted
     refused  |-> {},               \* routes of the group that gave an error
     audited  |-> {},               \* routes of the group already recorded
     reply    |-> FALSE,            \* the mailbox has accepted the message
     status   |-> "pending",        \* status to show
     route    |-> None]             \* route to show

Phases == {"idle", "load", "contact", "conversation", "message", "prepare",
           "send", "update", "record", "done"}

Jobs ==
    [pc : Phases, pass : {1, 2}, conv : Conversations,
     recent : NostrRoutes \cup {None}, at : Nat,
     accepted : SUBSET Routes, refused : SUBSET Routes, audited : SUBSET Routes,
     reply : BOOLEAN, status : MessageStatuses, route : Routes \cup {None}]

Attempts == [msg : Msgs, route : Routes, outcome : {"delivered", "queued", "failed"}]

NoIncoming == [conv |-> None, unread |-> 0]

Quiet ==
    /\ \A m \in Msgs : job[m].pc \in {"idle", "done"}
    /\ incoming = NoIncoming
    /\ reader = None

Init ==
    /\ taken = {}
    /\ flying = {}
    /\ status = [m \in Msgs |-> NoStatus]
    /\ conv = [c \in Convs |-> NewConversation]
    /\ rtStatus = [m \in Msgs |-> NoStatus]
    /\ rtRoute = [m \in Msgs |-> None]
    /\ rtConv = [c \in Convs |-> NewConversation]
    /\ lastRoute = EarlierRoute
    /\ attempts = {}
    /\ job = [m \in Msgs |-> IdleJob]
    /\ incoming = NoIncoming
    /\ reader = None

-----------------------------------------------------------------------------
(* The routes of a message. *)

Members(s) == {s[i] : i \in DOMAIN s}

Position(s, x) == CHOOSE i \in DOMAIN s : s[i] = x

RecentKey(m) == IF job[m].recent = None THEN None ELSE job[m].recent[2]

\* Every relay of the contact with every key: the one the relay's url names,
\* the one of the last success, and those of the contact.
NostrRoutesOf(m) ==
    {r \in NostrRoutes :
        /\ r[1] \in Members(RelaysOf[ConvOf[m]])
        /\ \/ r[2] \in Members(KeysOf[ConvOf[m]])
           \/ r[2] \in {ManualOf[r[1]], RecentKey(m)}}

KeyRank(m, r) ==
    CASE r[2] = ManualOf[r[1]] -> 0
      [] r[2] # ManualOf[r[1]] /\ r[2] = RecentKey(m) -> 1
      [] OTHER -> 1 + Position(KeysOf[ConvOf[m]], r[2])

\* The order of the Nostr routes: by relay, then by key.
Precedes(m, q, r) ==
    LET relays == RelaysOf[ConvOf[m]]
    IN  \/ Position(relays, q[1]) < Position(relays, r[1])
        \/ q[1] = r[1] /\ KeyRank(m, q) < KeyRank(m, r)

IsFirst(m, r, group) ==
    /\ r \in group
    /\ \A q \in group \ {r} : Precedes(m, r, q)

\* Mutant: the mailboxes are tried before the Nostr relays.
MailboxesFirst(m) ==
    LET c == ConvOf[m]
        boxes == [i \in DOMAIN MailboxesOf[c] |-> {MailboxesOf[c][i]}]
        nostr == IF NostrRoutesOf(m) # {} THEN <<NostrRoutesOf(m)>> ELSE <<>>
    IN  (IF c \in Dialable THEN <<{Direct}>> ELSE <<>>) \o boxes \o nostr

\* The groups of routes, in the order they are tried; the routes of a group
\* are tried at once.  A direct route no transport supports is skipped.
Plan(m) ==
    LET c == ConvOf[m]
        boxes == [i \in DOMAIN MailboxesOf[c] |-> {MailboxesOf[c][i]}]
        nostr == IF NostrRoutesOf(m) # {} THEN <<NostrRoutesOf(m)>> ELSE <<>>
    IN  (IF c \in Dialable THEN <<{Direct}>> ELSE <<>>) \o nostr \o boxes

Sendable(m) == Plan(m) # <<>> \/ ConvOf[m] \in DirectOn

Group(m) == Plan(m)[job[m].at]

\* Routes of the group that have not answered.
Open(m) == Group(m) \ (job[m].accepted \cup job[m].refused)

\* Whatever mailbox a route names, the contact's first one is written to.
Destination(m, r) == IF r \in Mailboxes THEN MailboxesOf[ConvOf[m]][1] ELSE r

StatusVia(r) == IF r = Direct THEN "delivered" ELSE "queued"

TypeOK ==
    /\ taken \subseteq (Msgs \X Routes)
    /\ flying \subseteq (Msgs \X Routes)
    /\ status \in [Msgs -> MessageStatuses \cup {NoStatus}]
    /\ conv \in [Convs -> Conversations]
    /\ rtStatus \in [Msgs -> MessageStatuses \cup {NoStatus}]
    /\ rtRoute \in [Msgs -> Routes \cup {None}]
    /\ rtConv \in [Convs -> Conversations]
    /\ lastRoute \in [Convs -> NostrRoutes \cup {None}]
    /\ attempts \subseteq Attempts
    /\ job \in [Msgs -> Jobs]
    /\ \A m \in Msgs : job[m].pc \in {"send", "update", "record"} =>
                        job[m].at \in DOMAIN Plan(m)
    /\ incoming \in [conv : Convs \cup {None}, unread : Nat]
    /\ incoming # NoIncoming => incoming.conv \in Convs
    /\ reader \in Convs \cup {None}

-----------------------------------------------------------------------------
(* Before the network: the transaction, and the runtime rows. *)

\* The transaction enters the message and reads the conversation as it was.
Begin(m) ==
    LET c == ConvOf[m]
        snapshot == [unread |-> conv[c].unread, last |-> m]
    IN  /\ job[m].pc = "idle"
        /\ Serial => Quiet
        /\ status' = [status EXCEPT ![m] = "pending"]
        /\ conv' = [conv EXCEPT ![c] = snapshot]
        /\ job' = [job EXCEPT ![m].pc = "load", ![m].conv = snapshot]
        /\ UNCHANGED <<taken, flying, messageRows, contactRows, attempts, otherVars>>

LoadContact(m) ==
    /\ job[m].pc = "load"
    /\ job' = [job EXCEPT ![m].pc = "contact", ![m].recent = lastRoute[ConvOf[m]]]
    /\ UNCHANGED <<taken, flying, tableVars, messageRows, contactRows, attempts, otherVars>>

\* Mutant: any route that was selected, also for a message that failed.
LastPlanned(m) ==
    IF job[m].pass = 2 /\ NostrRoutesOf(m) # {}
    THEN CHOOSE r \in NostrRoutesOf(m) : TRUE ELSE job[m].recent

\* The Nostr route of a message that was queued, or the one read at the start.
LastSuccess(m) ==
    IF job[m].route \in NostrRoutes THEN job[m].route ELSE job[m].recent

SaveContact(m) ==
    /\ job[m].pc = "contact"
    /\ lastRoute' = IF LastSuccess(m) # None
                    THEN [lastRoute EXCEPT ![ConvOf[m]] = LastSuccess(m)]
                    ELSE lastRoute
    /\ job' = [job EXCEPT ![m].pc = "conversation"]
    /\ UNCHANGED <<taken, flying, tableVars, messageRows, rtConv, attempts, otherVars>>

\* Mutant: the count of the snapshot is not written.
SaveWithoutCount(m) ==
    /\ job[m].pc = "conversation"
    /\ rtConv' = [rtConv EXCEPT ![ConvOf[m]] = [unread |-> 0, last |-> m]]
    /\ job' = [job EXCEPT ![m].pc = "message"]
    /\ UNCHANGED <<taken, flying, tableVars, messageRows, lastRoute, attempts, otherVars>>

SaveConversation(m) ==
    /\ job[m].pc = "conversation"
    /\ rtConv' = [rtConv EXCEPT ![ConvOf[m]] = job[m].conv]
    /\ job' = [job EXCEPT ![m].pc = "message"]
    /\ UNCHANGED <<taken, flying, tableVars, messageRows, lastRoute, attempts, otherVars>>

\* A message no route is known for stays pending.
AfterRows(m) == IF job[m].pass = 1 /\ Sendable(m) THEN "prepare" ELSE "done"

SaveMessage(m) ==
    /\ job[m].pc = "message"
    /\ rtStatus' = [rtStatus EXCEPT ![m] = MergeMessageStatus(@, job[m].status)]
    /\ rtRoute' = [rtRoute EXCEPT ![m] = job[m].route]
    /\ job' = [job EXCEPT ![m].pc = AfterRows(m)]
    /\ UNCHANGED <<taken, flying, tableVars, contactRows, attempts, otherVars>>

-----------------------------------------------------------------------------
(* On the network: one group of routes after the other. *)

\* The second pass over the runtime rows, with the outcome.
Settled(m, outcome, r) ==
    [job[m] EXCEPT !.pc = "contact", !.pass = 2, !.status = outcome, !.route = r]

TryGroup(m, i) ==
    IF i \in DOMAIN Plan(m)
    THEN [job[m] EXCEPT !.pc = "send", !.at = i, !.accepted = {}, !.refused = {},
                        !.audited = {}]
    ELSE Settled(m, "failed", None)

\* Presence is saved, the message encrypted and signed.
Prepare(m) ==
    /\ job[m].pc = "prepare"
    /\ job' = [job EXCEPT ![m] = TryGroup(m, 1)]
    /\ UNCHANGED <<taken, flying, tableVars, messageRows, contactRows, attempts, otherVars>>

PrepareFails(m) ==
    /\ job[m].pc = "prepare"
    /\ job' = [job EXCEPT ![m] = Settled(m, "failed", None)]
    /\ UNCHANGED <<taken, flying, tableVars, messageRows, contactRows, attempts, otherVars>>

\* Mutant: the first answer of a group is enough.
FirstAnswerWins(m, r, ok) ==
    LET accepted == job[m].accepted \cup (IF ok THEN {r} ELSE {})
        refused  == job[m].refused \cup (IF ok THEN {} ELSE {r})
    IN  [job[m] EXCEPT !.pc = "record", !.accepted = accepted, !.refused = refused]

\* The answer of a route; when every route of the group has answered, the
\* outcomes are recorded.
Answered(m, r, ok) ==
    LET accepted == job[m].accepted \cup (IF ok THEN {r} ELSE {})
        refused  == job[m].refused \cup (IF ok THEN {} ELSE {r})
    IN  [job[m] EXCEPT !.pc = IF Open(m) = {r} THEN "record" ELSE "send",
                       !.accepted = accepted, !.refused = refused]

\* The message tables learn what a mailbox answered.
AfterCall(m, r, ok) ==
    IF r \in Mailboxes
    THEN [job[m] EXCEPT !.pc = "update", !.reply = ok]
    ELSE Answered(m, r, ok)

Accept(m, r) ==
    /\ job[m].pc = "send"
    /\ r \in Open(m)
    /\ taken' = taken \cup {<<m, Destination(m, r)>>}
    /\ job' = [job EXCEPT ![m] = AfterCall(m, r, TRUE)]
    /\ UNCHANGED <<flying, tableVars, messageRows, contactRows, attempts, otherVars>>

Refuse(m, r) ==
    /\ job[m].pc = "send"
    /\ r \in Open(m)
    /\ job' = [job EXCEPT ![m] = AfterCall(m, r, FALSE)]
    /\ UNCHANGED <<taken, flying, tableVars, messageRows, contactRows, attempts, otherVars>>

\* Mutant: a call that was not answered counts as a success.
NoAnswerAccepts(m, r) ==
    /\ job[m].pc = "send"
    /\ r \in Open(m)
    /\ flying' = flying \cup {<<m, Destination(m, r)>>}
    /\ job' = [job EXCEPT ![m] = AfterCall(m, r, TRUE)]
    /\ UNCHANGED <<taken, tableVars, messageRows, contactRows, attempts, otherVars>>

\* The call ends in an error, but the request may still get through: the
\* answer was lost, or came after the deadline.
LoseAnswer(m, r) ==
    /\ job[m].pc = "send"
    /\ r \in Open(m)
    /\ flying' = flying \cup {<<m, Destination(m, r)>>}
    /\ job' = [job EXCEPT ![m] = AfterCall(m, r, FALSE)]
    /\ UNCHANGED <<taken, tableVars, messageRows, contactRows, attempts, otherVars>>

Land(m, r) ==
    /\ <<m, r>> \in flying
    /\ taken' = taken \cup {<<m, r>>}
    /\ flying' = flying \ {<<m, r>>}
    /\ UNCHANGED <<tableVars, messageRows, contactRows, attempts, job, otherVars>>

\* Mutant: the result of the mailbox is written the wrong way round.
UpdateSwapped(m) ==
    /\ job[m].pc = "update"
    /\ \E r \in Open(m) :
          /\ status' = [status EXCEPT ![m] = IF job[m].reply THEN "failed" ELSE "queued"]
          /\ job' = [job EXCEPT ![m] = Answered(m, r, job[m].reply)]
    /\ UNCHANGED <<taken, flying, conv, messageRows, contactRows, attempts, otherVars>>

UpdateDelivery(m) ==
    /\ job[m].pc = "update"
    /\ \E r \in Open(m) :
          /\ status' = [status EXCEPT ![m] = IF job[m].reply THEN "queued" ELSE "failed"]
          /\ job' = [job EXCEPT ![m] = Answered(m, r, job[m].reply)]
    /\ UNCHANGED <<taken, flying, conv, messageRows, contactRows, attempts, otherVars>>

\* An acceptance that cannot be written counts as an error of the route; an
\* error that cannot be written is still that error.
UpdateFails(m) ==
    /\ job[m].pc = "update"
    /\ \E r \in Open(m) : job' = [job EXCEPT ![m] = Answered(m, r, FALSE)]
    /\ UNCHANGED <<taken, flying, tableVars, messageRows, contactRows, attempts, otherVars>>

Unaudited(m) == (job[m].accepted \cup job[m].refused) \ job[m].audited

\* Mutant: every outcome is recorded as a success.
AllSucceed(m, r) == StatusVia(r)

OutcomeOf(m, r) == IF r \in job[m].accepted THEN StatusVia(r) ELSE "failed"

\* One row for each route, in order ...
RecordOutcome(m) ==
    /\ job[m].pc = "record"
    /\ \E r \in Unaudited(m) :
          /\ IsFirst(m, r, Unaudited(m))
          /\ attempts' = attempts \cup
                {[msg |-> m, route |-> r, outcome |-> OutcomeOf(m, r)]}
          /\ job' = [job EXCEPT ![m].audited = @ \cup {r}]
    /\ UNCHANGED <<taken, flying, tableVars, messageRows, contactRows, otherVars>>

\* ... and an error of the database is ignored.
OutcomeLost(m) ==
    /\ job[m].pc = "record"
    /\ \E r \in Unaudited(m) :
          /\ IsFirst(m, r, Unaudited(m))
          /\ job' = [job EXCEPT ![m].audited = @ \cup {r}]
    /\ UNCHANGED <<taken, flying, tableVars, messageRows, contactRows, attempts, otherVars>>

\* Mutant: the first route of the group is selected, whatever it answered.
ConcludeFirst(m) ==
    /\ job[m].pc = "record"
    /\ Unaudited(m) = {}
    /\ IF job[m].accepted # {}
       THEN \E r \in Group(m) : /\ IsFirst(m, r, Group(m))
                                /\ job' = [job EXCEPT ![m] = Settled(m, StatusVia(r), r)]
       ELSE job' = [job EXCEPT ![m] = TryGroup(m, job[m].at + 1)]
    /\ UNCHANGED <<taken, flying, tableVars, messageRows, contactRows, attempts, otherVars>>

\* Mutant: an error of the direct peer or of a group ends the send.
ConcludeEarly(m) ==
    /\ job[m].pc = "record"
    /\ Unaudited(m) = {}
    /\ job[m].accepted # {}
    /\ \E r \in job[m].accepted :
          /\ IsFirst(m, r, job[m].accepted)
          /\ job' = [job EXCEPT ![m] = Settled(m, StatusVia(r), r)]
    /\ UNCHANGED <<taken, flying, tableVars, messageRows, contactRows, attempts, otherVars>>

\* The first route of the group that accepted is selected; if there is none,
\* the next group is tried.
Conclude(m) ==
    /\ job[m].pc = "record"
    /\ Unaudited(m) = {}
    /\ IF job[m].accepted # {}
       THEN \E r \in job[m].accepted :
               /\ IsFirst(m, r, job[m].accepted)
               /\ job' = [job EXCEPT ![m] = Settled(m, StatusVia(r), r)]
       ELSE job' = [job EXCEPT ![m] = TryGroup(m, job[m].at + 1)]
    /\ UNCHANGED <<taken, flying, tableVars, messageRows, contactRows, attempts, otherVars>>

\* An error outside the network part, or a crash anywhere: the send ends where
\* it is, and its open requests may still get through.
Stop(m) ==
    /\ job[m].pc \notin {"idle", "done"}
    /\ flying' = flying \cup
          IF job[m].pc = "send" THEN {<<m, Destination(m, r)>> : r \in Open(m)} ELSE {}
    /\ job' = [job EXCEPT ![m].pc = "done"]
    /\ UNCHANGED <<taken, tableVars, messageRows, contactRows, attempts, otherVars>>

-----------------------------------------------------------------------------
(* The other writers of a conversation: a sync that stores a message in it, *)
(* the peer that delivers one directly, and a reader of its thread. *)

\* The transaction counts the message; the count that goes into the runtime row
\* is fixed with it.
Receive(c, shown) ==
    /\ incoming = NoIncoming
    /\ Serial => Quiet
    /\ conv[c].unread < MaxUnread
    /\ conv' = [conv EXCEPT ![c] = [unread |-> @.unread + 1, last |-> Incoming]]
    /\ incoming' = [conv |-> c, unread |-> shown]
    /\ UNCHANGED <<taken, flying, status, messageRows, contactRows, attempts, job, reader>>

StoreIncoming(c) == Receive(c, conv[c].unread + 1)

\* A message that the peer delivers itself is shown as the only unread one.
StoreDirect(c) == Receive(c, 1)

ShowIncoming ==
    /\ incoming # NoIncoming
    /\ rtConv' = [rtConv EXCEPT
          ![incoming.conv] = [unread |-> incoming.unread, last |-> Incoming]]
    /\ incoming' = NoIncoming
    /\ UNCHANGED <<taken, flying, tableVars, messageRows, lastRoute, attempts, job, reader>>

MarkRuntimeRead(c) ==
    /\ reader = None
    /\ Serial => Quiet
    /\ rtConv[c].last # None
    /\ rtConv' = [rtConv EXCEPT ![c].unread = 0]
    /\ reader' = c
    /\ UNCHANGED <<taken, flying, tableVars, messageRows, lastRoute, attempts, job, incoming>>

MarkLegacyRead ==
    /\ reader # None
    /\ conv' = [conv EXCEPT ![reader].unread = 0]
    /\ reader' = None
    /\ UNCHANGED <<taken, flying, status, messageRows, contactRows, attempts, job, incoming>>

\* A sync, a delivery or a reader that does not get to its second step.
OthersFail ==
    /\ ~(incoming = NoIncoming /\ reader = None)
    /\ incoming' \in {incoming, NoIncoming}
    /\ reader' \in {reader, None}
    /\ UNCHANGED <<taken, flying, tableVars, messageRows, contactRows, attempts, job>>

-----------------------------------------------------------------------------
\* What the process of a message does by itself.
Local(m) ==
    \/ LoadContact(m)
    \/ SaveContact(m)
    \/ SaveConversation(m)
    \/ SaveMessage(m)
    \/ Prepare(m)
    \/ UpdateDelivery(m)
    \/ RecordOutcome(m)
    \/ Conclude(m)

Reply(m, r) ==
    \/ Accept(m, r)
    \/ Refuse(m, r)

Network ==
    \/ \E m \in Msgs, r \in Routes : LoseAnswer(m, r)
    \/ \E m \in Msgs, r \in Routes : Land(m, r)

\* Errors after which the send goes on.
StoreError(m) ==
    \/ PrepareFails(m)
    \/ UpdateFails(m)
    \/ OutcomeLost(m)

Others ==
    \/ \E c \in Convs : StoreIncoming(c)
    \/ \E c \in Convs : StoreDirect(c)
    \/ ShowIncoming
    \/ \E c \in Convs : MarkRuntimeRead(c)
    \/ MarkLegacyRead

Sending ==
    \E m \in Msgs :
        \/ Begin(m)
        \/ Local(m)
        \/ \E r \in Routes : Reply(m, r)

\* Nothing fails but the network.
Calm == Sending \/ Network \/ Others

\* No process stops.
Running == Calm \/ \E m \in Msgs : StoreError(m)

Next ==
    \/ Running
    \/ \E m \in Msgs : Stop(m)
    \/ OthersFail

Spec == Init /\ [][Next]_vars

CalmSpec == Init /\ [][Calm]_vars

-----------------------------------------------------------------------------
(* Fairness.  A running process goes on.  A call to a mailbox or a Nostr    *)
(* relay ends, because its clients have deadlines; a call to a direct peer  *)
(* has none: that it ends is an assumption about the peer.                  *)

FairSpec ==
    /\ Init /\ [][Running]_vars
    /\ \A m \in Msgs : WF_vars(Local(m))
    /\ \A m \in Msgs, r \in Routes : WF_vars(Reply(m, r) \/ LoseAnswer(m, r))

-----------------------------------------------------------------------------
(* What the tables say. *)

KindOf(r) ==
    CASE r = Direct -> "direct"
      [] r \in Mailboxes -> "store_forward"
      [] r \in NostrRoutes -> "nostr"
      [] OTHER -> None

StatusBy == [kind \in {"direct", "store_forward", "nostr"} |->
                IF kind = "direct" THEN "delivered" ELSE "queued"]

KindsOf(m) == {KindOf(r) : r \in {q \in Routes : <<m, q>> \in taken}}

\* The outbox tells the truth: a message leaves the home only after its
\* pending row is written, "queued" and "delivered" are said only of a message
\* that a transport of the kind shown has taken, and an outcome is final -
\* whatever the routes answer, lose or take late.
Promise == INSTANCE Outbox WITH
    Kinds <- {"direct", "store_forward", "nostr"}, Hidden <- NoStatus,
    shown <- rtStatus,
    via <- [m \in Msgs |-> KindOf(rtRoute[m])],
    held <- [m \in Msgs |-> KindsOf(m)]

ImplementsOutbox == Promise!Spec

\* The route a message is shown with has taken it, if there is only one
\* mailbox it may mean.
RouteHolds ==
    \A m \in Msgs :
        /\ rtRoute[m] # None
        /\ rtRoute[m] \in Mailboxes => Len(MailboxesOf[ConvOf[m]]) = 1
        => <<m, rtRoute[m]>> \in taken

\* A message that was delivered directly reaches no third party, and one that
\* a Nostr relay took no mailbox - not even by a request that lands late.
EarliestRoute ==
    \A m \in Msgs : \A r \in Routes : <<m, r>> \in taken \cup flying =>
        /\ rtRoute[m] = Direct => r = Direct
        /\ rtRoute[m] \in NostrRoutes => r \notin Mailboxes

\* The two tables agree as far as they both know: a message the message tables
\* say is queued was taken by the contact's mailbox, and the outbox does not
\* say that it failed.
LegacyAgrees ==
    \A m \in Msgs : status[m] = "queued" =>
        /\ <<m, MailboxesOf[ConvOf[m]][1]>> \in taken
        /\ rtStatus[m] \in {"pending", "queued"}

\* A success in the audit is one: the route, or the mailbox it stands for, has
\* taken the message, and the outbox does not say that it failed.
AuditTrue ==
    \A a \in attempts : a.outcome # "failed" =>
        /\ <<a.msg, Destination(a.msg, a.route)>> \in taken
        /\ rtStatus[a.msg] # "failed"

\* The route that new messages prefer has taken a message of this contact.
LastRouteTrue ==
    \A c \in Convs :
        \/ lastRoute[c] = EarlierRoute[c]
        \/ \E m \in Msgs : ConvOf[m] = c /\ <<m, lastRoute[c]>> \in taken

HasOutcome(m) == rtStatus[m] \in {"queued", "delivered", "failed"}

\* Every route that took a message with an outcome is in the audit.
TakenAudited ==
    \A m \in Msgs, r \in Routes :
        HasOutcome(m) /\ <<m, r>> \in taken =>
            \E a \in attempts : a.msg = m /\ Destination(m, a.route) = r

\* When nothing but the network fails, the audit is complete: it has every
\* route that took the message, and of a failed message every route there is.
AuditComplete ==
    /\ TakenAudited
    /\ \A m \in Msgs : rtStatus[m] = "failed" =>
          \A i \in DOMAIN Plan(m) : \A r \in Plan(m)[i] :
              [msg |-> m, route |-> r, outcome |-> "failed"] \in attempts

\* A direct delivery says of a conversation with unread messages that there is one.
ShownAsOne(c) ==
    /\ conv[c].last = Incoming
    /\ conv[c].unread > 0
    /\ rtConv[c].unread = 1

\* When one process runs at a time and none stops, the inbox shows the last
\* message of the message tables and their unread count, or one unread message
\* after a direct delivery: a conversation is never shown as read that is not, or
\* as unread that was read, although a send writes a snapshot it read long before.
SerialAgree ==
    Serial /\ Quiet => \A c \in Convs :
        /\ rtConv[c].last = conv[c].last
        /\ rtConv[c].unread = conv[c].unread \/ ShownAsOne(c)

\* However the routes fail, a send that is not stopped ends with an outcome, if
\* direct peers end their calls.
PendingSettles ==
    \A m \in Msgs : rtStatus[m] = "pending" /\ Sendable(m) ~> HasOutcome(m)
=============================================================================
