------------------------------ MODULE Contacts ------------------------------
(***************************************************************************)
(* The trust book of one LinkClaw home: what is known of a peer, and what  *)
(* the user has decided about it.  "known trust" writes trust_records and  *)
(* the log trust_events; "import", "known refresh" and "connect-peer"      *)
(* write trust_records and runtime_trust_records; "inspect-trust" reads    *)
(* runtime_trust_records and the log, "known show" trust_records.  Every   *)
(* command is a process: it takes its time stamp, and reads the peer's     *)
(* site or the trust profile, before the transaction in which it writes,   *)
(* and other commands come in between.                                     *)
(***************************************************************************)
EXTENDS Integers, FiniteSets

CONSTANTS
    Peers,     \* canonical ids
    Commands,  \* processes that run a command
    Levels,    \* trust levels
    RiskSets,  \* sets of risk flags the user may set
    Outcomes,  \* what an inspection that names the peer may find
    MaxClock,  \* bound: instants that are told apart
    MaxId,     \* bound: contacts created
    None

Verdicts == {"discovered", "resolved", "consistent", "mismatch"}

ContactIds == 1 .. MaxId

Instants == 0 .. MaxClock

ASSUME BookAssumption ==
    /\ "unknown" \in Levels
    /\ {} \in RiskSets
    /\ Outcomes \subseteq {"resolved", "consistent", "mismatch"}
    /\ MaxClock \in Nat
    /\ MaxId \in Nat
    /\ None \notin Peers
    /\ None \notin Levels
    /\ None \notin RiskSets
    /\ None \notin Nat

VARIABLES
    clock,
    contacts,   \* contacts, by canonical id
    lastId,     \* contact ids given out
    trust,      \* trust_records, by contact id
    history,    \* contact ids with rows in handles, artifact_snapshots, proofs,
                \* notes or interaction_events
    runtime,    \* runtime_trust_records, by canonical id
    latest,     \* the latest row of trust_events, by canonical id
    discovered, \* canonical ids with a row in runtime_discovery_records
    command     \* what each process has read

vars == <<clock, contacts, lastId, trust, history, runtime, latest, discovered, command>>

-----------------------------------------------------------------------------
(* Rows. *)

\* A contact that came by card has the status "imported".
States == Verdicts \cup {"imported"}

Contact == [id : ContactIds, status : States]

TrustRow == [level : Levels, risk : RiskSets, state : States]

\* A runtime row, and a row of the log.
DatedRow == [level : Levels, risk : RiskSets, state : States, decided : Instants]

Idle == [kind |-> "idle"]

\* "known trust": the time stamp is taken, the transaction not begun.
Decisions == [kind : {"trust"}, peer : Peers, at : Instants]

\* "import", with target None, and "known refresh" of the contact target: the
\* peer's site has been read.
Inspections == [kind : {"import"}, peer : Peers, at : Instants, target : ContactIds \cup {None}]

\* "connect-peer": the profile and the presence of the peer have been read.
Connects == [kind : {"connect"}, peer : Peers, seen : TrustRow, decided : Instants]

ASSUME RowsAssumption == None \notin Contact \cup TrustRow \cup DatedRow

Known(c) == contacts[c] # None

Id(c) == contacts[c].id

Init ==
    /\ clock = 0
    /\ contacts = [c \in Peers |-> None]
    /\ lastId = 0
    /\ trust = [i \in ContactIds |-> None]
    /\ history = {}
    /\ runtime = [c \in Peers |-> None]
    /\ latest = [c \in Peers |-> None]
    /\ discovered = {}
    /\ command = [p \in Commands |-> Idle]

TypeOK ==
    /\ clock \in Instants
    /\ contacts \in [Peers -> Contact \cup {None}]
    /\ lastId \in 0 .. MaxId
    /\ trust \in [ContactIds -> TrustRow \cup {None}]
    /\ history \subseteq ContactIds
    /\ runtime \in [Peers -> DatedRow \cup {None}]
    /\ latest \in [Peers -> DatedRow \cup {None}]
    /\ discovered \subseteq Peers
    /\ command \in [Commands -> {Idle} \cup Decisions \cup Inspections \cup Connects]

-----------------------------------------------------------------------------
(* What inspect-trust shows. *)

\* Mutant: an event of the same time as the row does not stand.
UsesNewerEvent(c) ==
    /\ latest[c] # None
    /\ runtime[c] # None => latest[c].decided > runtime[c].decided

\* The latest event stands if it is not older than the row.
UsesEvent(c) ==
    /\ latest[c] # None
    /\ runtime[c] # None => latest[c].decided >= runtime[c].decided

Summary(row) == [level |-> row.level, risk |-> row.risk, state |-> row.state]

Profile(c) ==
    IF UsesEvent(c) THEN Summary(latest[c])
    ELSE IF runtime[c] # None THEN Summary(runtime[c])
    ELSE [level |-> "unknown", risk |-> {}, state |-> "discovered"]

\* When that was decided; of a peer with a discovery record only, when it was
\* resolved, and of any other now.
AsOf(c) ==
    IF UsesEvent(c) THEN {latest[c].decided}
    ELSE IF runtime[c] # None THEN {runtime[c].decided}
    ELSE IF c \in discovered THEN {t \in Instants : t <= clock}
    ELSE {clock}

-----------------------------------------------------------------------------
(* Contacts come and go. *)

\* A contact is inserted unless the peer has one.
EnsureContact(c, status) ==
    IF Known(c)
    THEN UNCHANGED <<contacts, lastId>>
    ELSE /\ lastId < MaxId
         /\ lastId' = lastId + 1
         /\ contacts' = [contacts EXCEPT ![c] = [id |-> lastId + 1, status |-> status]]

\* The contact takes the status.
PutContact(c, status) ==
    IF Known(c)
    THEN /\ contacts' = [contacts EXCEPT ![c].status = status]
         /\ UNCHANGED lastId
    ELSE EnsureContact(c, status)

\* "card import".
ImportCard(c) ==
    /\ PutContact(c, "imported")
    /\ UNCHANGED <<clock, trust, history, runtime, latest, discovered, command>>

\* A message from a peer that is not a contact makes it one.
MessageArrives(c) ==
    /\ ~Known(c)
    /\ EnsureContact(c, "discovered")
    /\ UNCHANGED <<clock, trust, history, runtime, latest, discovered, command>>

\* A discovery source has answered.
Discover(c) ==
    /\ discovered' = discovered \cup {c}
    /\ UNCHANGED <<clock, contacts, lastId, trust, history, runtime, latest, command>>

Note(c) ==
    /\ Known(c)
    /\ history' = history \cup {Id(c)}
    /\ UNCHANGED <<clock, contacts, lastId, trust, runtime, latest, discovered, command>>

\* The contact and the rows of its id; the runtime row and the log, which go by
\* canonical id, stay.
Remove(c) ==
    /\ Known(c)
    /\ contacts' = [contacts EXCEPT ![c] = None]
    /\ trust' = [trust EXCEPT ![Id(c)] = None]
    /\ history' = history \ {Id(c)}
    /\ UNCHANGED <<clock, lastId, runtime, latest, discovered, command>>

-----------------------------------------------------------------------------
(* The user's decision. *)

BeginTrust(p, c) ==
    /\ command[p] = Idle
    /\ command' = [command EXCEPT ![p] = [kind |-> "trust", peer |-> c, at |-> clock]]
    /\ UNCHANGED <<clock, contacts, lastId, trust, history, runtime, latest, discovered>>

\* The trust record of a contact, or the one it is given.
TrustOf(c) ==
    IF trust[Id(c)] # None THEN trust[Id(c)]
    ELSE [level |-> "unknown", risk |-> {}, state |-> contacts[c].status]

\* Events are ordered by their time stamps; of equal stamps the random event id
\* decides.
LatestOf(old, new) ==
    IF old = None \/ new.decided > old.decided THEN {new}
    ELSE IF new.decided = old.decided THEN {old, new}
    ELSE {old}

\* The level, the flags or both are set.
CommitTrust(p) ==
    /\ command[p].kind = "trust"
    /\ Known(command[p].peer)
    /\ \E level \in Levels \cup {None}, risk \in RiskSets \cup {None} :
         LET c == command[p].peer
             row == [level |-> IF level = None THEN TrustOf(c).level ELSE level,
                     risk  |-> IF risk = None THEN TrustOf(c).risk ELSE risk,
                     state |-> TrustOf(c).state]
             event == [level |-> row.level, risk |-> row.risk, state |-> row.state,
                       decided |-> command[p].at]
         IN  /\ ~(level = None /\ risk = None)
             /\ trust' = [trust EXCEPT ![Id(c)] = row]
             /\ history' = history \cup {Id(c)}
             /\ \E e \in LatestOf(latest[c], event) : latest' = [latest EXCEPT ![c] = e]
    /\ command' = [command EXCEPT ![p] = Idle]
    /\ UNCHANGED <<clock, contacts, lastId, runtime, discovered>>

-----------------------------------------------------------------------------
(* What the peer publishes. *)

BeginImport(p, c) ==
    /\ command[p] = Idle
    /\ command' = [command EXCEPT ![p] =
                      [kind |-> "import", peer |-> c, at |-> clock, target |-> None]]
    /\ UNCHANGED <<clock, contacts, lastId, trust, history, runtime, latest, discovered>>

\* "known refresh": an import into the contact.
BeginRefresh(p, c) ==
    /\ command[p] = Idle
    /\ Known(c)
    /\ command' = [command EXCEPT ![p] =
                      [kind |-> "import", peer |-> c, at |-> clock, target |-> Id(c)]]
    /\ UNCHANGED <<clock, contacts, lastId, trust, history, runtime, latest, discovered>>

\* Only an inspection says what the trust record's state is.
PutTrustState(i, verdict) ==
    trust' = [trust EXCEPT ![i] =
                 IF @ = None THEN [level |-> "unknown", risk |-> {}, state |-> verdict]
                 ELSE [@ EXCEPT !.state = verdict]]

\* The runtime row of the identity that was found.
PutRuntimeState(c, verdict, at) ==
    runtime' = [runtime EXCEPT ![c] =
                   IF @ = None
                   THEN [level |-> "unknown", risk |-> {}, state |-> verdict, decided |-> at]
                   ELSE [@ EXCEPT !.state = verdict, !.decided = at]]

\* The rows of contact i and of identity c after an inspection.
SaveInspection(p, i, c, verdict) ==
    /\ PutTrustState(i, verdict)
    /\ PutRuntimeState(c, verdict, command[p].at)
    /\ discovered' = discovered \cup {c}
    /\ history' = history \cup {i}
    /\ command' = [command EXCEPT ![p] = Idle]
    /\ UNCHANGED <<clock, latest>>

\* The artifacts name the identity, and the contact is made or brought up to date.
CommitImport(p) ==
    /\ command[p].kind = "import"
    /\ command[p].target = None
    /\ LET c == command[p].peer
       IN  \E verdict \in Outcomes :
             /\ PutContact(c, verdict)
             /\ SaveInspection(p, contacts'[c].id, c, verdict)

\* Mutant: whether the contact still exists is not looked at.
RefreshAnyway(p) ==
    /\ command[p].kind = "import"
    /\ command[p].target # None
    /\ \E found \in Peers \cup {None}, verdict \in Outcomes \cup {"discovered", "mismatch"} :
         /\ found = None <=> verdict = "discovered"
         /\ found \notin {None, command[p].peer} => verdict = "mismatch"
         /\ SaveInspection(p, command[p].target,
                           IF found = None THEN command[p].peer ELSE found, verdict)
    /\ UNCHANGED <<contacts, lastId>>

\* The contact must still exist.  An identity other than the contact's is a
\* mismatch; the row of that other identity is written then.
CommitRefresh(p) ==
    /\ command[p].kind = "import"
    /\ command[p].target # None
    /\ LET c == command[p].peer
       IN  /\ Known(c) /\ Id(c) = command[p].target
           /\ \E found \in Peers \cup {None}, verdict \in Outcomes \cup {"discovered", "mismatch"} :
                /\ found = None <=> verdict = "discovered"
                /\ found \notin {None, c} => verdict = "mismatch"
                /\ PutContact(c, verdict)
                /\ SaveInspection(p, Id(c), IF found = None THEN c ELSE found, verdict)

-----------------------------------------------------------------------------
(* Connecting. *)

\* The states a promotion knows.
Normalized(s) == IF s = "imported" THEN "discovered" ELSE s

\* The peer is a contact, or there is a discovery record of it.
BeginConnect(p, c) ==
    /\ command[p] = Idle
    /\ Known(c) \/ c \in discovered
    /\ \E decided \in AsOf(c) :
         command' = [command EXCEPT ![p] =
                        [kind |-> "connect", peer |-> c, seen |-> Profile(c),
                         decided |-> decided]]
    /\ UNCHANGED <<clock, contacts, lastId, trust, history, runtime, latest, discovered>>

\* Mutant: a peer one has connected to counts as seen.
MergeLevelRaised(old, new) ==
    IF new = "unknown" /\ old = "unknown" THEN "seen"
    ELSE IF new = "unknown" THEN old ELSE new

MergeLevel(old, new) == IF new = "unknown" THEN old ELSE new

Priority(state) ==
    CASE state = "mismatch" -> 4
      [] state = "consistent" -> 3
      [] state = "resolved" -> 2
      [] state = "discovered" -> 1
      [] OTHER -> 0

\* Mutant: what was read replaces what is there.
MergeStateByLast(old, new) == new

\* The graver of the two; "imported" counts for none.
MergeState(old, new) == IF Priority(new) >= Priority(old) THEN new ELSE old

\* The contact's trust record: its flags stay.
PromoteTrust(i, seen) ==
    LET state == Normalized(seen.state)
    IN  trust' = [trust EXCEPT ![i] =
                     IF @ = None THEN [level |-> seen.level, risk |-> {}, state |-> state]
                     ELSE [level |-> MergeLevel(@.level, seen.level),
                           risk |-> @.risk,
                           state |-> MergeState(@.state, state)]]

\* Mutant: the row takes the time of the connection.
PromoteRuntimeNow(c, seen, decided) ==
    LET state == Normalized(seen.state)
    IN  runtime' = [runtime EXCEPT ![c] =
                       IF @ = None
                       THEN [level |-> seen.level, risk |-> seen.risk, state |-> state,
                             decided |-> decided]
                       ELSE [level |-> MergeLevel(@.level, seen.level),
                             risk |-> IF seen.risk = {} THEN @.risk ELSE seen.risk,
                             state |-> MergeState(@.state, state),
                             decided |-> clock]]

\* The runtime row: its time of decision stays.
PromoteRuntime(c, seen, decided) ==
    LET state == Normalized(seen.state)
    IN  runtime' = [runtime EXCEPT ![c] =
                       IF @ = None
                       THEN [level |-> seen.level, risk |-> seen.risk, state |-> state,
                             decided |-> decided]
                       ELSE [level |-> MergeLevel(@.level, seen.level),
                             risk |-> IF seen.risk = {} THEN @.risk ELSE seen.risk,
                             state |-> MergeState(@.state, state),
                             decided |-> @.decided]]

\* One transaction: contact, trust record, runtime row, discovery record, event.
Promote(p) ==
    /\ command[p].kind = "connect"
    /\ LET c == command[p].peer
           seen == command[p].seen
       IN  /\ EnsureContact(c, Normalized(seen.state))
           /\ PromoteTrust(contacts'[c].id, seen)
           /\ PromoteRuntime(c, seen, command[p].decided)
           /\ discovered' = discovered \cup {c}
           /\ history' = history \cup {contacts'[c].id}
    /\ command' = [command EXCEPT ![p] = Idle]
    /\ UNCHANGED <<clock, latest>>

-----------------------------------------------------------------------------
\* A command ends in an error, or with the process.
Fail(p) ==
    /\ command[p] # Idle
    /\ command' = [command EXCEPT ![p] = Idle]
    /\ UNCHANGED <<clock, contacts, lastId, trust, history, runtime, latest, discovered>>

Tick ==
    /\ clock < MaxClock
    /\ clock' = clock + 1
    /\ UNCHANGED <<contacts, lastId, trust, history, runtime, latest, discovered, command>>

Begin(p, c) == BeginTrust(p, c) \/ BeginImport(p, c) \/ BeginRefresh(p, c) \/ BeginConnect(p, c)

Commit(p) == CommitTrust(p) \/ CommitImport(p) \/ CommitRefresh(p) \/ Promote(p)

AtOnce(c) == ImportCard(c) \/ MessageArrives(c) \/ Discover(c) \/ Note(c) \/ Remove(c)

Next ==
    \/ Tick
    \/ \E c \in Peers : AtOnce(c)
    \/ \E p \in Commands : Commit(p) \/ Fail(p)
    \/ \E p \in Commands, c \in Peers : Begin(p, c)

Spec == Init /\ [][Next]_vars

-----------------------------------------------------------------------------
(* Properties. *)

\* Every row a removal deletes belongs to a contact that exists: neither a
\* refresh that read the contact before it was removed nor a removal itself
\* leaves rows behind that no command reaches any more.
NoOrphans ==
    \A i \in ContactIds :
        trust[i] # None \/ i \in history => \E c \in Peers : Known(c) /\ Id(c) = i

\* What is said of a peer anywhere: in its trust record, its runtime row, the
\* log, or a profile that a command has read.
Said(c) ==
    (IF Known(c) /\ trust[Id(c)] # None THEN {Summary(trust[Id(c)])} ELSE {})
    \cup (IF runtime[c] # None THEN {Summary(runtime[c])} ELSE {})
    \cup (IF latest[c] # None THEN {Summary(latest[c])} ELSE {})
    \cup {command[p].seen : p \in {q \in Commands :
              command[q].kind = "connect" /\ command[q].peer = c}}

\* Only the user's decision on a peer gives it a level or a flag it had nowhere
\* before: no import, refresh or connection vouches for a peer, or for one peer
\* what was decided of another.
OnlyUserVouches ==
    [][\A c \in Peers :
         \/ \A s \in Said(c)' :
              /\ s.level = "unknown" \/ \E old \in Said(c) : old.level = s.level
              /\ s.risk = {} \/ \E old \in Said(c) : old.risk = s.risk
         \/ \E p \in Commands : CommitTrust(p) /\ command[p].peer = c]_vars

\* A connection that has read a profile before an inspection was committed does
\* not soften the inspection's verdict, in either trust table; only another
\* inspection, or the removal of the contact, does.
VerdictKept ==
    [][\A c \in Peers :
         \/ /\ Known(c) /\ Known(c)' /\ trust[Id(c)] # None =>
                 Priority(trust'[Id(c)].state) >= Priority(trust[Id(c)].state)
            /\ runtime[c] # None =>
                 Priority(runtime'[c].state) >= Priority(runtime[c].state)
         \/ \E p \in Commands : CommitImport(p) \/ CommitRefresh(p)]_vars

\* A connection does not by itself change what inspect-trust shows: if that is
\* still what the command read, it stays the level, the flags and the state
\* shown, although the row that stood for it may be another one now.
ConnectKeepsProfile ==
    [][\A p \in Commands, c \in Peers :
         Promote(p) /\ command[p].peer = c /\ command[p].seen = Profile(c) =>
           Profile(c)' \in {command[p].seen,
                            [command[p].seen EXCEPT !.state = Normalized(@)]}]_vars

\* How a decision may stop being what inspect-trust shows: an inspection that
\* was stamped later has written the runtime row, which keeps the level it had
\* before the decision; or a connection that had read the profile before the
\* decision was committed, at a later time than its stamp, has made that row.
Displaced(c) ==
    \E p \in Commands :
        \/ /\ CommitImport(p) \/ CommitRefresh(p)
           /\ command[p].at > latest[c].decided
           /\ runtime'[c] # runtime[c]
        \/ /\ Promote(p)
           /\ command[p].peer = c
           /\ runtime[c] = None
           /\ command[p].decided > latest[c].decided

\* A decision that inspect-trust shows is shown until the user decides anew, with
\* no earlier stamp, or it is displaced: no card, message, note or removal, no
\* inspection that began before it and no other connection hides it.
DecisionStays ==
    [][\A c \in Peers :
         UsesEvent(c) =>
           \/ UsesEvent(c)' /\ latest'[c] = latest[c]
           \/ /\ UsesEvent(c)'
              /\ \E p \in Commands : /\ CommitTrust(p) /\ command[p].peer = c
                                    /\ command[p].at >= latest[c].decided
           \/ Displaced(c)]_vars
=============================================================================
