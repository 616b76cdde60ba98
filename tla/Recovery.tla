------------------------------ MODULE Recovery ------------------------------
(***************************************************************************)
(* The receiving side of one LinkClaw home: internal/message and the part  *)
(* of internal/runtime it writes to.  Messages reach the home in two ways: *)
(* "message sync" pulls every recovery route in turn (syncStoreForward),   *)
(* and a peer posts an envelope directly (receiveDirectEnvelope).  Each    *)
(* of them commits one transaction on the message tables and then repeats  *)
(* the result, row by row and outside any transaction, in the runtime      *)
(* tables the inbox is read from.  Every step that touches the database or *)
(* the network is an action, so that a second process, an error or a crash *)
(* can come between any two of them.                                       *)
(***************************************************************************)
EXTENDS Integers, Sequences, FiniteSets, MessageStatus

CONSTANTS
    Senders,      \* peers, by canonical id
    Keys,         \* signing keys a sender may use
    Msgs,         \* business messages, by message_id
    Events,       \* relay events: one copy of a message, by relay message id
    Relays,       \* recovery routes: one relay url and recipient
    Mailboxes,    \* the routes that are HTTP mailboxes; the others are Nostr
    RouteOrder,   \* the routes in the order Sync visits them
    Syncers,      \* processes that may run "message sync"
    SenderOf,     \* message -> its sender
    MsgOf,        \* event -> the message it carries
    KeyOf,        \* event -> the signing key it names
    Fault,        \* event -> "none", "misaddressed" or "corrupt"
    Stamp,        \* event -> rank of its (sent_at, event id) pair
    CreatedAt,    \* event -> second the relay event was signed at
    PullLimit,    \* events a Nostr relay returns at most (50 in the code)
    DirectMsgs,   \* messages a peer may post directly
    Threads,      \* senders whose thread the user marks read
    Cards,        \* sender -> the keys its identity cards may carry
    FirstPeers,   \* senders whose card was imported before the run
    InOrder,      \* TRUE: events reach each relay in stamp order
    None,         \* no event / no reader / no envelope
    DirectCopy    \* "copy" of a message that came in directly

ASSUME RelaysAssumption ==
    /\ Mailboxes \subseteq Relays
    /\ RouteOrder \in Seq(Relays)
    /\ InOrder \in BOOLEAN
    /\ PullLimit \in Nat \ {0}

ASSUME EventsAssumption ==
    /\ IsFiniteSet(Events)
    /\ SenderOf \in [Msgs -> Senders]
    /\ MsgOf \in [Events -> Msgs]
    /\ KeyOf \in [Events -> Keys]
    /\ Fault \in [Events -> {"none", "misaddressed", "corrupt"}]
    /\ Stamp \in [Events -> Nat \ {0}]
    /\ \A e, f \in Events : Stamp[e] = Stamp[f] => e = f
    /\ CreatedAt \in [Events -> Nat \ {0}]

ASSUME PeersAssumption ==
    /\ DirectMsgs \subseteq Msgs
    /\ Threads \subseteq Senders
    /\ FirstPeers \subseteq Senders
    /\ Cards \in [Senders -> SUBSET Keys]
    /\ \A c \in FirstPeers : Cards[c] # {}

ASSUME DistinctAssumption ==
    /\ None \notin Events \cup Senders \cup Msgs \cup Keys
    /\ DirectCopy \notin Events \cup {None}

\* What "contacts" may say of a sender: no row, a row without a key, a key.
NoContact == "no contact"
NoKey     == "no key"
ASSUME ContactsAssumption == {NoContact, NoKey} \cap Keys = {}

VARIABLES
    \* the world outside
    relay,        \* events each relay holds, in the order they arrived
    acked,        \* position each mailbox was acknowledged up to
    \* message tables, written in transactions
    contacts,     \* contacts: the signing key known for each sender
    peers,        \* senders whose Nostr key is bound by an imported card
    messages,     \* messages: the copy that was stored, or None
    unread,       \* conversations.unread_count
    \* runtime tables, written row by row
    rtMessages,   \* runtime_messages.status, NoStatus if there is no row
    rtConv,       \* senders with a runtime_conversations row
    rtUnread,     \* runtime_conversations.unread_count
    cursor,       \* runtime_store_forward_state.cursor_value
    checkpoint,   \* runtime_relay_sync_state.last_cursor, as a stamp
    observed,     \* runtime_recovered_event_observations: (event, relay)
    \* running processes
    job,          \* each sync process
    envelope,     \* the direct envelope being received, and how far it is
    reader        \* the sender whose thread is being marked read

worldVars   == <<relay, acked>>
tableVars   == <<contacts, peers, messages, unread>>
runtimeVars == <<rtMessages, rtConv, rtUnread>>
syncVars    == <<cursor, checkpoint, observed>>
vars == <<worldVars, tableVars, runtimeVars, syncVars, job, envelope, reader>>

-----------------------------------------------------------------------------
(* A sync process: where it is, and the locals it will still read.          *)

IdleJob ==
    [pc     |-> "idle",  \* next step
     at     |-> 0,       \* index of its route in RouteOrder
     last   |-> 0,       \* checkpoint read at the start
     known  |-> {},      \* binding context read at the start
     batch  |-> {},      \* pulled events
     next   |-> 0,       \* the relay's next cursor, 0 for none
     latest |-> 0,       \* checkpoint to save
     seen   |-> {},      \* events to record as observed
     convs  |-> {},      \* inserted events whose conversation is to be saved
     counts |-> [c \in Senders |-> 0],  \* the unread counts before the batch
     rows   |-> {}]      \* inserted events whose message row is to be saved

Phases == {"idle", "load", "pull", "commit", "cursor", "checkpoint",
           "observations", "conversations", "messages", "ack"}

Jobs ==
    [pc : Phases, at : 0 .. Len(RouteOrder), last : Nat,
     known : SUBSET Senders, batch : SUBSET Events, next : Nat, latest : Nat,
     seen : SUBSET Events, convs : SUBSET Events,
     counts : [Senders -> Nat], rows : SUBSET Events]

NoEnvelope == [msg |-> None, pc |-> "idle"]

Route(p) == RouteOrder[job[p].at]

TypeOK ==
    /\ relay \in [Relays -> Seq(Events)]
    /\ acked \in [Relays -> Nat]
    /\ contacts \in [Senders -> Keys \cup {NoContact, NoKey}]
    /\ peers \subseteq Senders
    /\ messages \in [Msgs -> Events \cup {None, DirectCopy}]
    /\ unread \in [Senders -> Nat]
    /\ rtMessages \in [Msgs -> MessageStatuses \cup {NoStatus}]
    /\ rtConv \subseteq Senders
    /\ rtUnread \in [Senders -> Nat]
    /\ cursor \in [Relays -> Nat]
    /\ checkpoint \in [Relays -> Nat]
    /\ observed \subseteq (Events \X Relays)
    /\ job \in [Syncers -> Jobs]
    /\ \A p \in Syncers : job[p].pc # "idle" => job[p].at \in 1 .. Len(RouteOrder)
    /\ envelope \in [msg : Msgs \cup {None},
                     pc  : {"idle", "conversation", "message"}]
    /\ envelope.pc # "idle" => envelope.msg \in Msgs
    /\ reader \in Senders \cup {None}

Init ==
    /\ relay = [r \in Relays |-> <<>>]
    /\ acked = [r \in Relays |-> 0]
    /\ contacts \in {known \in [Senders -> Keys \cup {NoContact}] :
                        \A c \in Senders :
                            IF c \in FirstPeers THEN known[c] \in Cards[c]
                                                ELSE known[c] = NoContact}
    /\ peers = FirstPeers
    /\ messages = [m \in Msgs |-> None]
    /\ unread = [c \in Senders |-> 0]
    /\ rtMessages = [m \in Msgs |-> NoStatus]
    /\ rtConv = {}
    /\ rtUnread = [c \in Senders |-> 0]
    /\ cursor = [r \in Relays |-> 0]
    /\ checkpoint = [r \in Relays |-> 0]
    /\ observed = {}
    /\ job = [p \in Syncers |-> IdleJob]
    /\ envelope = NoEnvelope
    /\ reader = None

-----------------------------------------------------------------------------
(* The world: relays receive events, the user imports identity cards. *)

Held(r) == {relay[r][i] : i \in 1 .. Len(relay[r])}

Arrive(r, e) ==
    /\ e \notin Held(r)
    /\ InOrder => \A f \in Held(r) : /\ Stamp[f] < Stamp[e]
                                     /\ CreatedAt[f] <= CreatedAt[e]
    /\ relay' = [relay EXCEPT ![r] = Append(@, e)]
    /\ UNCHANGED <<acked, tableVars, runtimeVars, syncVars, job, envelope, reader>>

\* upsertContactFromCard overwrites the key of a contact it finds.
ImportCard(c, k) ==
    /\ k \in Cards[c]
    /\ contacts' = [contacts EXCEPT ![c] = k]
    /\ peers' = peers \cup {c}
    /\ UNCHANGED <<worldVars, messages, unread, runtimeVars, syncVars, job,
                   envelope, reader>>

-----------------------------------------------------------------------------
(* message sync: one pass over the routes, each pulled, stored, repeated in *)
(* the runtime tables and acknowledged. *)

\* Mutant: a pass ends after its first route.
OneRoute(p) == IdleJob

\* The next route of the pass, or its end.
NextRoute(p) ==
    IF job[p].at < Len(RouteOrder)
    THEN [IdleJob EXCEPT !.pc = "load", !.at = job[p].at + 1]
    ELSE IdleJob

StartSync(p) ==
    /\ job[p].pc = "idle"
    /\ RouteOrder # <<>>
    /\ job' = [job EXCEPT ![p] = [IdleJob EXCEPT !.pc = "load", !.at = 1]]
    /\ UNCHANGED <<worldVars, tableVars, runtimeVars, syncVars, envelope, reader>>

LoadSyncState(p) ==
    /\ job[p].pc = "load"
    /\ job' = [job EXCEPT ![p].pc = "pull",
                          ![p].last = checkpoint[Route(p)],
                          ![p].known = peers]
    /\ UNCHANGED <<worldVars, tableVars, runtimeVars, syncVars, envelope, reader>>

\* A mailbox returns some of the messages after the cursor, in order, and
\* the position of the last one; what was acknowledged is gone.
PullMailbox(p, batch, next) ==
    LET r == Route(p)
        from == IF acked[r] > cursor[r] THEN acked[r] ELSE cursor[r]
    IN  /\ next \in from .. Len(relay[r])
        /\ next = from => Len(relay[r]) <= from
        /\ batch = {relay[r][i] : i \in (from + 1) .. next}

\* Mutant: only the seconds after the cursor are asked for.
PullNostrAfter(p, batch, next) ==
    LET r == Route(p)
    IN  /\ batch = {e \in Held(r) : CreatedAt[e] > cursor[r]}
        /\ IF batch = {} THEN next = cursor[r]
           ELSE /\ \E e \in batch : next = CreatedAt[e]
                /\ \A e \in batch : CreatedAt[e] <= next

\* A Nostr relay returns the newest PullLimit events since the cursor; the
\* cursor becomes the newest second seen.
PullNostr(p, batch, next) ==
    LET r == Route(p)
        since == {e \in Held(r) : CreatedAt[e] >= cursor[r]}
    IN  /\ batch \subseteq since
        /\ Cardinality(batch) = IF Cardinality(since) < PullLimit
                                THEN Cardinality(since) ELSE PullLimit
        /\ \A e \in batch, f \in since \ batch : CreatedAt[f] <= CreatedAt[e]
        /\ IF batch = {} THEN next = cursor[r]
           ELSE /\ \E e \in batch : next = CreatedAt[e]
                /\ \A e \in batch : CreatedAt[e] <= next

\* Mutant: an empty page ends the work on the route.
DoneIfEmpty(p, batch, next) ==
    IF batch = {} THEN NextRoute(p)
    ELSE [job[p] EXCEPT !.pc = "commit", !.batch = batch, !.next = next]

\* With nothing to store, the cursor and the checkpoint are saved all the same.
AfterPull(p, batch, next) ==
    IF batch = {}
    THEN [IdleJob EXCEPT !.pc = "cursor", !.at = job[p].at,
                         !.next = next, !.latest = job[p].last]
    ELSE [job[p] EXCEPT !.pc = "commit", !.batch = batch, !.next = next]

Pull(p) ==
    LET r == Route(p)
    IN  /\ job[p].pc = "pull"
        /\ \E batch \in SUBSET Held(r),
              next \in 0 .. Len(relay[r]) \cup {cursor[r]}
                         \cup {CreatedAt[e] : e \in Held(r)} :
              /\ IF r \in Mailboxes THEN PullMailbox(p, batch, next)
                                    ELSE PullNostr(p, batch, next)
              /\ job' = [job EXCEPT ![p] = AfterPull(p, batch, next)]
        /\ UNCHANGED <<worldVars, tableVars, runtimeVars, syncVars, envelope, reader>>

\* The order in which the events of a batch are processed.
Before(r, e, f) ==
    IF r \in Mailboxes
    THEN \E i, j \in 1 .. Len(relay[r]) :
            i < j /\ relay[r][i] = e /\ relay[r][j] = f
    ELSE Stamp[e] < Stamp[f]

Sender(e) == SenderOf[MsgOf[e]]

WasObserved(e) == \E r \in Relays : <<e, r>> \in observed

\* validateRecoveredMessageBinding; a mailbox message names no Nostr key.
Bound(p, e) ==
    /\ Fault[e] # "misaddressed"
    /\ Route(p) \notin Mailboxes => Sender(e) \in job[p].known

\* Mutant: the stamp after the checkpoint is skipped, too.
SkipOneMore(p) ==
    {e \in job[p].batch : /\ ~WasObserved(e)
                          /\ Bound(p, e)
                          /\ Stamp[e] > job[p].last + 1}

\* The events the loop does not skip.
Candidates(p) ==
    {e \in job[p].batch : /\ ~WasObserved(e)
                          /\ Bound(p, e)
                          /\ Stamp[e] > job[p].last}

\* Mutant: the key of the contact is not looked at.
AnyKey(p, e) == Fault[e] # "corrupt"

\* A candidate verifies, decrypts, and names the key of its contact.  A
\* sender without one becomes a contact with the key of its first candidate,
\* so all of its candidates have to name the same.
Acceptable(p, e) ==
    /\ Fault[e] # "corrupt"
    /\ IF contacts[Sender(e)] # NoContact
       THEN contacts[Sender(e)] \in {NoKey, KeyOf[e]}
       ELSE \A f \in Candidates(p) : Sender(f) = Sender(e) => KeyOf[f] = KeyOf[e]

ContactsWith(p) ==
    [c \in Senders |->
        IF contacts[c] = NoContact /\ \E e \in Candidates(p) : Sender(e) = c
        THEN CHOOSE k \in Keys : \E e \in Candidates(p) : Sender(e) = c /\ KeyOf[e] = k
        ELSE contacts[c]]

\* Mutant: only the last message of each conversation in a batch.
InsertLast(p, new) ==
    new = {e \in Candidates(p) :
              /\ messages[MsgOf[e]] = None
              /\ \A f \in Candidates(p) \ {e} :
                    Sender(f) = Sender(e) => Before(Route(p), f, e)}

\* Mutant: INSERT OR REPLACE.
InsertOrReplace(p, new) ==
    new = {e \in Candidates(p) :
              \A f \in Candidates(p) \ {e} :
                  MsgOf[f] = MsgOf[e] => Before(Route(p), e, f)}

\* INSERT OR IGNORE adds the first candidate of every message that is not
\* stored yet.
InsertOrIgnore(p, new) ==
    /\ \A e \in new :
          /\ messages[MsgOf[e]] = None
          /\ \A f \in Candidates(p) \ {e} :
                MsgOf[f] = MsgOf[e] => Before(Route(p), e, f)
    /\ \A e \in Candidates(p) :
          messages[MsgOf[e]] = None => \E f \in new : MsgOf[f] = MsgOf[e]

\* The message tables after the transaction.
MessagesWith(new) ==
    [m \in Msgs |-> IF \E e \in new : MsgOf[e] = m
                    THEN CHOOSE e \in new : MsgOf[e] = m ELSE messages[m]]

CountsWith(new) ==
    [c \in Senders |-> unread[c] + Cardinality({e \in new : Sender(e) = c})]

\* The newest stamp: of the candidates, or the one read at the start.
IsLatest(p, latest) ==
    /\ job[p].last <= latest
    /\ \A e \in Candidates(p) : Stamp[e] <= latest

CommitBatch(p) ==
    /\ job[p].pc = "commit"
    /\ \A e \in Candidates(p) : Acceptable(p, e)
    /\ contacts' = ContactsWith(p)
    /\ \E new \in SUBSET Candidates(p),
          latest \in {Stamp[e] : e \in Candidates(p)} \cup {job[p].last} :
          /\ InsertOrIgnore(p, new)
          /\ IsLatest(p, latest)
          /\ messages' = MessagesWith(new)
          /\ unread' = CountsWith(new)
          /\ job' = [job EXCEPT ![p] =
                [IdleJob EXCEPT !.pc = "cursor", !.at = job[p].at,
                                !.next = job[p].next, !.latest = latest,
                                !.seen = Candidates(p),
                                !.convs = new, !.rows = new,
                                !.counts = unread]]
    /\ UNCHANGED <<worldVars, peers, runtimeVars, syncVars, envelope, reader>>

\* One message that cannot be verified, or whose key is not the contact's,
\* rolls the whole batch back; the route fails.
AbortBatch(p) ==
    /\ job[p].pc = "commit"
    /\ \E e \in Candidates(p) : ~Acceptable(p, e)
    /\ job' = [job EXCEPT ![p] = NextRoute(p)]
    /\ UNCHANGED <<worldVars, tableVars, runtimeVars, syncVars, envelope, reader>>

SaveCursor(p) ==
    /\ job[p].pc = "cursor"
    /\ cursor' = [cursor EXCEPT ![Route(p)] = job[p].next]
    /\ job' = [job EXCEPT ![p].pc = "checkpoint"]
    /\ UNCHANGED <<worldVars, tableVars, runtimeVars, checkpoint, observed,
                   envelope, reader>>

\* What is left to do once the observations in "seen" are saved.
PhaseAfter(seen, rows) ==
    IF seen # {} THEN "observations"
    ELSE IF rows # {} THEN "conversations" ELSE "ack"

SaveCheckpoint(p) ==
    /\ job[p].pc = "checkpoint"
    /\ checkpoint' = [checkpoint EXCEPT ![Route(p)] = job[p].latest]
    /\ job' = [job EXCEPT ![p].pc = PhaseAfter(job[p].seen, job[p].rows),
                          ![p].latest = 0]
    /\ UNCHANGED <<worldVars, tableVars, runtimeVars, cursor, observed,
                   envelope, reader>>

\* The first event of a set, in the order of its batch.
IsFirst(p, e, events) ==
    /\ e \in events
    /\ \A f \in events \ {e} : Before(Route(p), e, f)

\* persistRecoveredObservations: one row at a time.
SaveObservation(p) ==
    /\ job[p].pc = "observations"
    /\ \E e \in job[p].seen :
          /\ IsFirst(p, e, job[p].seen)
          /\ observed' = observed \cup {<<e, Route(p)>>}
          /\ job' = [job EXCEPT ![p].pc = PhaseAfter(job[p].seen \ {e}, job[p].rows),
                                ![p].seen = @ \ {e}]
    /\ UNCHANGED <<worldVars, tableVars, runtimeVars, cursor, checkpoint,
                   envelope, reader>>

\* syncRuntimeRecoveredState: first the conversation of each inserted
\* message, with the unread count its insertion left behind ...
SaveConversation(p) ==
    /\ job[p].pc = "conversations"
    /\ \E e \in job[p].convs :
          LET c == Sender(e)
              rest == job[p].convs \ {e}
          IN  /\ IsFirst(p, e, job[p].convs)
              /\ rtConv' = rtConv \cup {c}
              /\ rtUnread' = [rtUnread EXCEPT ![c] =
                    job[p].counts[c]
                      + Cardinality({f \in job[p].rows \ rest : Sender(f) = c})]
              /\ job' = [job EXCEPT
                    ![p].pc = IF rest = {} THEN "messages" ELSE "conversations",
                    ![p].convs = rest,
                    ![p].counts = IF rest = {} THEN IdleJob.counts ELSE @]
    /\ UNCHANGED <<worldVars, tableVars, rtMessages, syncVars, envelope, reader>>

\* ... then the message rows.
SaveMessage(p) ==
    /\ job[p].pc = "messages"
    /\ \E e \in job[p].rows :
          LET rest == job[p].rows \ {e}
          IN  /\ IsFirst(p, e, job[p].rows)
              /\ rtMessages' = [rtMessages EXCEPT
                    ![MsgOf[e]] = MergeMessageStatus(@, "recovered")]
              /\ job' = [job EXCEPT
                    ![p].pc = IF rest = {} THEN "ack" ELSE "messages",
                    ![p].rows = rest]
    /\ UNCHANGED <<worldVars, tableVars, rtConv, rtUnread, syncVars, envelope, reader>>

\* runtime.Service.Sync acknowledges a route whose cursor is not empty.  For
\* a Nostr relay that does nothing.
Ack(p) ==
    /\ job[p].pc = "ack"
    /\ acked' = IF /\ Route(p) \in Mailboxes
                   /\ job[p].next > acked[Route(p)]
                THEN [acked EXCEPT ![Route(p)] = job[p].next] ELSE acked
    /\ job' = [job EXCEPT ![p] = NextRoute(p)]
    /\ UNCHANGED <<relay, tableVars, runtimeVars, syncVars, envelope, reader>>

-----------------------------------------------------------------------------
(* Errors.  A step that fails gives the route up and Sync goes on with the  *)
(* next one; a process that dies leaves what it has committed. *)

PullFails(p) ==
    /\ job[p].pc = "pull"
    /\ job' = [job EXCEPT ![p] = NextRoute(p)]
    /\ UNCHANGED <<worldVars, tableVars, runtimeVars, syncVars, envelope, reader>>

AckFails(p) ==
    /\ job[p].pc = "ack"
    /\ Route(p) \in Mailboxes
    /\ job[p].next > 0
    /\ job' = [job EXCEPT ![p] = NextRoute(p)]
    /\ UNCHANGED <<worldVars, tableVars, runtimeVars, syncVars, envelope, reader>>

\* Mutant: the error of a commit is lost.
CommitErrorLost(p) ==
    /\ job[p].pc \notin {"idle", "pull", "ack"}
    /\ job' = [job EXCEPT ![p] = IF job[p].pc = "commit"
                                 THEN AfterPull(p, {}, job[p].next)
                                 ELSE NextRoute(p)]
    /\ UNCHANGED <<worldVars, tableVars, runtimeVars, syncVars, envelope, reader>>

\* The database refuses a read or a write (it is locked by another process,
\* or the disk is full).
StoreFails(p) ==
    /\ job[p].pc \notin {"idle", "pull", "ack"}
    /\ job' = [job EXCEPT ![p] = NextRoute(p)]
    /\ UNCHANGED <<worldVars, tableVars, runtimeVars, syncVars, envelope, reader>>

Crash(p) ==
    /\ job[p].pc # "idle"
    /\ job' = [job EXCEPT ![p] = IdleJob]
    /\ UNCHANGED <<worldVars, tableVars, runtimeVars, syncVars, envelope, reader>>

-----------------------------------------------------------------------------
(* A direct envelope: one transaction, then the runtime rows. *)

\* Mutant: an envelope that comes in again counts again.
CountAgain(m) ==
    LET c == SenderOf[m]
    IN  /\ envelope.pc = "idle"
        /\ m \in DirectMsgs
        /\ contacts' = [contacts EXCEPT ![c] = IF @ = NoContact THEN NoKey ELSE @]
        /\ messages' = [messages EXCEPT ![m] = IF @ = None THEN DirectCopy ELSE @]
        /\ unread' = [unread EXCEPT ![c] = @ + 1]
        /\ unread[c] < 3
        /\ envelope' = [msg |-> m, pc |-> "conversation"]
        /\ UNCHANGED <<worldVars, peers, runtimeVars, syncVars, job, reader>>

ReceiveDirect(m) ==
    LET c == SenderOf[m]
    IN  /\ envelope.pc = "idle"
        /\ m \in DirectMsgs
        /\ contacts' = [contacts EXCEPT ![c] = IF @ = NoContact THEN NoKey ELSE @]
        /\ IF messages[m] = None
           THEN /\ messages' = [messages EXCEPT ![m] = DirectCopy]
                /\ unread' = [unread EXCEPT ![c] = @ + 1]
                /\ envelope' = [msg |-> m, pc |-> "conversation"]
           ELSE UNCHANGED <<messages, unread, envelope>>
        /\ UNCHANGED <<worldVars, peers, runtimeVars, syncVars, job, reader>>

\* The count is the constant 1, not the one the transaction left behind.
SaveDirectConversation ==
    LET c == SenderOf[envelope.msg]
    IN  /\ envelope.pc = "conversation"
        /\ rtConv' = rtConv \cup {c}
        /\ rtUnread' = [rtUnread EXCEPT ![c] = 1]
        /\ envelope' = [envelope EXCEPT !.pc = "message"]
        /\ UNCHANGED <<worldVars, tableVars, rtMessages, syncVars, job, reader>>

SaveDirectMessage ==
    /\ envelope.pc = "message"
    /\ rtMessages' = [rtMessages EXCEPT
                        ![envelope.msg] = MergeMessageStatus(@, "delivered")]
    /\ envelope' = NoEnvelope
    /\ UNCHANGED <<worldVars, tableVars, rtConv, rtUnread, syncVars, job, reader>>

DirectFails ==
    /\ envelope.pc # "idle"
    /\ envelope' = NoEnvelope
    /\ UNCHANGED <<worldVars, tableVars, runtimeVars, syncVars, job, reader>>

-----------------------------------------------------------------------------
(* message thread --mark-read: the runtime count, then the legacy one. *)

MarkRuntimeRead(c) ==
    /\ reader = None
    /\ c \in rtConv \cap Threads
    /\ rtUnread' = [rtUnread EXCEPT ![c] = 0]
    /\ reader' = c
    /\ UNCHANGED <<worldVars, tableVars, rtMessages, rtConv, syncVars, job, envelope>>

MarkLegacyRead ==
    /\ reader # None
    /\ unread' = [unread EXCEPT ![reader] = 0]
    /\ reader' = None
    /\ UNCHANGED <<worldVars, contacts, peers, messages, runtimeVars, syncVars,
                   job, envelope>>

MarkReadFails ==
    /\ reader # None
    /\ reader' = None
    /\ UNCHANGED <<worldVars, tableVars, runtimeVars, syncVars, job, envelope>>

-----------------------------------------------------------------------------
World ==
    \/ \E r \in Relays, e \in Events : Arrive(r, e)
    \/ \E c \in Senders, k \in Keys : ImportCard(c, k)

SyncStep(p) ==
    \/ StartSync(p)
    \/ LoadSyncState(p)
    \/ Pull(p)
    \/ CommitBatch(p)
    \/ AbortBatch(p)
    \/ SaveCursor(p)
    \/ SaveCheckpoint(p)
    \/ SaveObservation(p)
    \/ SaveConversation(p)
    \/ SaveMessage(p)
    \/ Ack(p)

SyncError(p) ==
    \/ PullFails(p)
    \/ AckFails(p)
    \/ StoreFails(p)
    \/ Crash(p)

DirectStep ==
    \/ \E m \in Msgs : ReceiveDirect(m)
    \/ SaveDirectConversation
    \/ SaveDirectMessage

ReadStep ==
    \/ \E c \in Senders : MarkRuntimeRead(c)
    \/ MarkLegacyRead

Failure ==
    \/ \E p \in Syncers : SyncError(p)
    \/ DirectFails
    \/ MarkReadFails

Working ==
    \/ World
    \/ \E p \in Syncers : SyncStep(p)
    \/ DirectStep
    \/ ReadStep

Next == Working \/ Failure

Spec == Init /\ [][Next]_vars

-----------------------------------------------------------------------------
(* Fairness.  Sync is run again and again (the plugin runs it on a timer)   *)
(* and a running process goes on; a direct envelope is handled to its end.  *)
(* Nothing is promised of the relays, the user and the peers.               *)

Fairness ==
    /\ \A p \in Syncers : WF_vars(SyncStep(p))
    /\ WF_vars(SaveDirectConversation \/ SaveDirectMessage)

\* Steps fail and processes crash, but not for ever.
FairSpec == Spec /\ Fairness /\ <>[][Working]_vars

\* Nothing fails.
CalmSpec == Init /\ [][Working]_vars

-----------------------------------------------------------------------------
(* What the tables promise. *)

Stored(m) == messages[m] # None

\* What the home shows is what it has stored: every copy taken in once, the
\* first one kept for good, and a runtime row only for a stored message, with
\* the status of its copy - although the rows are written after the
\* transaction, one by one, by processes that may be stopped in between.
CopiesOf ==
    [m \in Msgs |-> {e \in Events : MsgOf[e] = m}
                        \cup (IF m \in DirectMsgs THEN {DirectCopy} ELSE {})]

StatusOf ==
    [copy \in Events \cup {DirectCopy} |->
        IF copy = DirectCopy THEN "delivered" ELSE "recovered"]

Promise == INSTANCE Inbox WITH
    Copies <- Events \cup {DirectCopy}, Hidden <- NoStatus,
    stored <- messages, shown <- rtMessages

ImplementsInbox == Promise!Spec

\* An observation makes every later sync skip the event on every relay, so
\* it may only stand for a message that the transaction has stored.
ObservedStored ==
    \A seen \in observed : Stored(MsgOf[seen[1]])

\* A mailbox may forget what was acknowledged.  As long as its messages come
\* in stamp order, every message addressed to this home is stored by then,
\* whichever processes pulled, failed or crashed before.
AckedStored ==
    InOrder => \A r \in Mailboxes : \A i \in 1 .. Len(relay[r]) :
                  i <= acked[r] /\ Fault[relay[r][i]] # "misaddressed"
                      => Stored(MsgOf[relay[r][i]])

\* The same of the saved cursor, which the next pull starts from.
CursorStored ==
    InOrder => \A r \in Mailboxes : \A i \in 1 .. Len(relay[r]) :
                  i <= cursor[r] /\ Fault[relay[r][i]] # "misaddressed"
                      => Stored(MsgOf[relay[r][i]])

\* A Nostr relay is asked for the seconds since the cursor, and what is not
\* past the checkpoint is skipped.  If no relay holds more than it returns,
\* and the sender's key was bound from the start, neither passes over a
\* message that is not stored.
NostrPassed(r, e) == CreatedAt[e] < cursor[r] \/ Stamp[e] <= checkpoint[r]

NostrPassedStored ==
    InOrder /\ Cardinality(Events) <= PullLimit =>
        \A r \in Relays \ Mailboxes : \A e \in Held(r) :
            /\ NostrPassed(r, e)
            /\ Fault[e] # "misaddressed"
            /\ Sender(e) \in FirstPeers
            => Stored(MsgOf[e])

\* A relay copy is stored only if it verifies, is addressed to this home, and
\* is signed with the key the contact has from then on, unless the contact has
\* none; a key that is known changes only to one on a card of the sender.  The
\* one command that unpins a key, "known remove", is no action here.
NewRelayCopy(m) == messages[m] = None /\ messages'[m] \in Events

KeysPinned ==
    [][/\ \A m \in Msgs : NewRelayCopy(m) =>
            LET e == messages'[m]
            IN  /\ Fault[e] = "none"
                /\ contacts'[SenderOf[m]] \in {KeyOf[e], NoKey}
       /\ \A c \in Senders : contacts[c] \in Keys =>
            contacts'[c] \in {contacts[c]} \cup Cards[c]]_vars

\* The unread count of a conversation goes up by exactly the messages a step
\* stores in it, and otherwise only to zero, when its thread was read: a
\* message that comes in twice is counted once.
NewFrom(c) == {m \in Msgs : SenderOf[m] = c /\ messages[m] # messages'[m]}

UnreadCountsNew ==
    [][\A c \in Senders :
          \/ unread'[c] = unread[c] + Cardinality(NewFrom(c))
          \/ reader = c /\ unread'[c] = 0]_vars

-----------------------------------------------------------------------------
(* What syncing again and again achieves. *)

Recoverable(r, e) ==
    /\ e \in Held(r)
    /\ Fault[e] # "misaddressed"
    /\ r \in Mailboxes \/ Sender(e) \in FirstPeers

\* Whatever fails in between, a message a relay holds is stored in the end.
RecoverableStored ==
    \A r \in Relays, e \in Events : Recoverable(r, e) ~> Stored(MsgOf[e])

\* A home that has stored nothing new acknowledges what it holds.
MailboxDrained ==
    \A r \in Mailboxes, e \in Events :
        Recoverable(r, e) ~> \E i \in 1 .. acked[r] : relay[r][i] = e

-----------------------------------------------------------------------------
(* What the documents promise and the code does not keep. *)

Shown(m) == rtMessages[m] # NoStatus

\* "read model update inbox/thread" belongs to recovery, and a later recovery
\* may try again what failed: a mailbox is told to forget a message only when
\* the inbox shows it.
AckedShown ==
    \A r \in Mailboxes : \A i \in 1 .. Len(relay[r]) :
        i <= acked[r] /\ Fault[relay[r][i]] = "none" => Shown(MsgOf[relay[r][i]])
=============================================================================
