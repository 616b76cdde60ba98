--------------------------- MODULE Contacts_proofs ---------------------------
(***************************************************************************)
(* Proofs about the trust book, for any number of peers, commands and      *)
(* trust levels.                                                           *)
(***************************************************************************)
EXTENDS Contacts, TLAPS

-----------------------------------------------------------------------------
(* Rows. *)

\* The four kinds of commands differ.
LEMMA CommandKinds ==
    ASSUME TypeOK, NEW p \in Commands
    PROVE  /\ command[p].kind = "trust" => command[p] \in Decisions
           /\ command[p].kind = "import" => command[p] \in Inspections
           /\ command[p].kind = "connect" => command[p] \in Connects
  BY DEF TypeOK, Idle, Decisions, Inspections, Connects

LEMMA KnownContact ==
    ASSUME TypeOK, NEW c \in Peers, Known(c)
    PROVE  contacts[c] \in Contact /\ Id(c) \in ContactIds
  BY DEF TypeOK, Known, Id, Contact

LEMMA ProfileType ==
    ASSUME TypeOK, NEW c \in Peers
    PROVE  Profile(c) \in TrustRow
<1>1. CASE UsesEvent(c)
  <2>1. latest[c] \in DatedRow
    BY <1>1 DEF TypeOK, UsesEvent
  <2>. QED
    BY <1>1, <2>1 DEF Profile, Summary, TrustRow, DatedRow
<1>2. CASE ~UsesEvent(c) /\ runtime[c] # None
  <2>1. runtime[c] \in DatedRow
    BY <1>2 DEF TypeOK
  <2>. QED
    BY <1>2, <2>1 DEF Profile, Summary, TrustRow, DatedRow
<1>3. CASE ~UsesEvent(c) /\ runtime[c] = None
  BY <1>3, BookAssumption DEF Profile, TrustRow, States, Verdicts
<1>. QED
  BY <1>1, <1>2, <1>3

LEMMA AsOfType ==
    ASSUME TypeOK, NEW c \in Peers
    PROVE  AsOf(c) \subseteq Instants
  BY DEF TypeOK, AsOf, UsesEvent, DatedRow

LEMMA NormalizedType ==
    ASSUME NEW s \in States
    PROVE  Normalized(s) \in Verdicts
  BY DEF Normalized, States, Verdicts

LEMMA MergeTypes ==
    /\ \A l, m \in Levels : MergeLevel(l, m) \in Levels
    /\ \A s, t \in States : MergeState(s, t) \in States
  BY DEF MergeLevel, MergeState

LEMMA TrustOfType ==
    ASSUME TypeOK, NEW c \in Peers, Known(c)
    PROVE  TrustOf(c) \in TrustRow
  BY KnownContact, BookAssumption DEF TypeOK, TrustOf, TrustRow, Contact

LEMMA LatestType ==
    ASSUME NEW old \in DatedRow \cup {None}, NEW new \in DatedRow
    PROVE  LatestOf(old, new) \subseteq DatedRow
  BY DEF LatestOf

-----------------------------------------------------------------------------
(* Making contacts. *)

\* What EnsureContact and PutContact do: c is a contact afterwards, with the id
\* it had or a new one, and the others stay.
Put(c) ==
    /\ lastId' \in 0 .. MaxId
    /\ contacts' \in [Peers -> Contact \cup {None}]
    /\ contacts'[c] \in Contact
    /\ \A d \in Peers \ {c} : contacts'[d] = contacts[d]
    /\ IF Known(c)
       THEN contacts'[c].id = contacts[c].id /\ lastId' = lastId
       ELSE contacts'[c].id = lastId + 1 /\ lastId' = lastId + 1

LEMMA EnsurePuts ==
    ASSUME TypeOK, NEW c \in Peers, NEW s \in States, EnsureContact(c, s)
    PROVE  Put(c)
<1>1. CASE Known(c)
  BY <1>1, KnownContact DEF EnsureContact, Put, TypeOK
<1>2. CASE ~Known(c)
  <2>1. lastId + 1 \in 1 .. MaxId
    BY <1>2, BookAssumption DEF EnsureContact, TypeOK
  <2>2. [id |-> lastId + 1, status |-> s] \in Contact
    BY <2>1 DEF Contact, ContactIds
  <2>. QED
    BY <1>2, <2>1, <2>2, BookAssumption DEF EnsureContact, Put, TypeOK
<1>. QED
  BY <1>1, <1>2

LEMMA PutPuts ==
    ASSUME TypeOK, NEW c \in Peers, NEW s \in States, PutContact(c, s)
    PROVE  Put(c)
<1>1. CASE Known(c)
  <2>1. contacts[c] \in Contact
    BY <1>1, KnownContact
  <2>2. [contacts[c] EXCEPT !.status = s] \in Contact
    BY <2>1 DEF Contact
  <2>. QED
    BY <1>1, <2>1, <2>2 DEF PutContact, Put, TypeOK, Contact
<1>2. CASE ~Known(c)
  BY <1>2, EnsurePuts DEF PutContact
<1>. QED
  BY <1>1, <1>2

LEMMA PutKnown ==
    ASSUME NEW c \in Peers, Put(c)
    PROVE  /\ Known(c)'
           /\ Id(c)' \in ContactIds
           /\ \A d \in Peers \ {c} : Known(d)' = Known(d) /\ Id(d)' = Id(d)
  BY RowsAssumption DEF Put, Known, Id, Contact

-----------------------------------------------------------------------------
(* Types. *)

LEMMA InitType == Init => TypeOK
<1>. SUFFICES ASSUME Init PROVE TypeOK
  OBVIOUS
<1>1. clock \in Instants /\ lastId \in 0 .. MaxId
  BY BookAssumption DEF Init, Instants
<1>. QED
  BY <1>1 DEF Init, TypeOK, ContactIds

\* The parts of TypeOK that a step leaves alone stay.
LEMMA IdleType ==
    ASSUME TypeOK, NEW p \in Commands, command' = [command EXCEPT ![p] = Idle]
    PROVE  command' \in [Commands -> {Idle} \cup Decisions \cup Inspections \cup Connects]
  BY DEF TypeOK

LEMMA InspectionType ==
    ASSUME TypeOK, NEW p \in Commands, NEW i \in ContactIds, NEW c \in Peers,
           NEW verdict \in Verdicts, command[p].kind = "import",
           SaveInspection(p, i, c, verdict),
           contacts' \in [Peers -> Contact \cup {None}], lastId' \in 0 .. MaxId
    PROVE  TypeOK'
<1>. DEFINE at == command[p].at
<1>1. at \in Instants
  BY CommandKinds DEF Inspections
<1>2. [level |-> "unknown", risk |-> {}, state |-> verdict] \in TrustRow
  BY BookAssumption DEF TrustRow, States
<1>3. [level |-> "unknown", risk |-> {}, state |-> verdict, decided |-> at] \in DatedRow
  BY <1>1, BookAssumption DEF DatedRow, States
<1>4. \A r \in TrustRow : [r EXCEPT !.state = verdict] \in TrustRow
  BY DEF TrustRow, States
<1>5. \A r \in DatedRow : [r EXCEPT !.state = verdict, !.decided = at] \in DatedRow
  BY <1>1 DEF DatedRow, States
<1>6. trust' \in [ContactIds -> TrustRow \cup {None}]
  BY <1>2, <1>4 DEF TypeOK, SaveInspection, PutTrustState
<1>7. runtime' \in [Peers -> DatedRow \cup {None}]
  BY <1>3, <1>5 DEF TypeOK, SaveInspection, PutRuntimeState
<1>8. command' \in [Commands -> {Idle} \cup Decisions \cup Inspections \cup Connects]
  BY IdleType DEF SaveInspection
<1>. QED
  BY <1>6, <1>7, <1>8 DEF TypeOK, SaveInspection

LEMMA PromoteType ==
    ASSUME TypeOK, NEW p \in Commands, Promote(p)
    PROVE  /\ command[p] \in Connects
           /\ Put(command[p].peer)
           /\ TypeOK'
<1>. DEFINE c == command[p].peer
            seen == command[p].seen
            decided == command[p].decided
            state == Normalized(seen.state)
<1>1. command[p] \in Connects
  BY CommandKinds DEF Promote
<1>2. c \in Peers /\ seen \in TrustRow /\ decided \in Instants
  BY <1>1 DEF Connects
<1>3. state \in States
  BY <1>2, NormalizedType DEF TrustRow, States
<1>4. EnsureContact(c, state)
  BY DEF Promote
<1>5. Put(c)
  BY <1>2, <1>3, <1>4, EnsurePuts
<1>6. trust' \in [ContactIds -> TrustRow \cup {None}]
  <2>. DEFINE i == contacts'[c].id
              made == [level |-> seen.level, risk |-> {}, state |-> state]
              merged(r) == [level |-> MergeLevel(r.level, seen.level), risk |-> r.risk,
                            state |-> MergeState(r.state, state)]
  <2>1. made \in TrustRow
    BY <1>2, <1>3, BookAssumption DEF TrustRow
  <2>2. \A r \in TrustRow : merged(r) \in TrustRow
    BY <1>2, <1>3, MergeTypes DEF TrustRow
  <2>3. trust' = [trust EXCEPT ![i] = IF @ = None THEN made ELSE merged(@)]
    BY DEF Promote, PromoteTrust
  <2>. HIDE DEF made, merged, i
  <2>. QED
    BY <2>1, <2>2, <2>3 DEF TypeOK
<1>7. runtime' \in [Peers -> DatedRow \cup {None}]
  <2>. DEFINE made == [level |-> seen.level, risk |-> seen.risk, state |-> state,
                       decided |-> decided]
              merged(r) == [level |-> MergeLevel(r.level, seen.level),
                            risk |-> IF seen.risk = {} THEN r.risk ELSE seen.risk,
                            state |-> MergeState(r.state, state),
                            decided |-> r.decided]
  <2>1. made \in DatedRow
    BY <1>2, <1>3 DEF DatedRow, TrustRow
  <2>2. \A r \in DatedRow : merged(r) \in DatedRow
    BY <1>2, <1>3, MergeTypes DEF DatedRow, TrustRow
  <2>3. runtime' = [runtime EXCEPT ![c] = IF @ = None THEN made ELSE merged(@)]
    BY DEF Promote, PromoteRuntime
  <2>. HIDE DEF made, merged
  <2>. QED
    BY <2>1, <2>2, <2>3 DEF TypeOK
<1>8. contacts'[c].id \in ContactIds
  BY <1>2, <1>5 DEF Put, Contact
<1>9. command' \in [Commands -> {Idle} \cup Decisions \cup Inspections \cup Connects]
  BY IdleType DEF Promote
<1>. QED
  BY <1>1, <1>2, <1>5, <1>6, <1>7, <1>8, <1>9 DEF TypeOK, Promote, Put

\* The trust record and the event that a decision writes.
Decided(p, row, event) ==
    LET c == command[p].peer
    IN  /\ row \in TrustRow /\ event \in DatedRow
        /\ row.state = TrustOf(c).state
        /\ Summary(event) = row /\ event.decided = command[p].at
        /\ trust' = [trust EXCEPT ![Id(c)] = row]
        /\ \E e \in LatestOf(latest[c], event) : latest' = [latest EXCEPT ![c] = e]

LEMMA DecisionRow ==
    ASSUME TypeOK, NEW p \in Commands, CommitTrust(p)
    PROVE  /\ command[p] \in Decisions
           /\ command[p].peer \in Peers /\ Known(command[p].peer)
           /\ \E row \in TrustRow, event \in DatedRow : Decided(p, row, event)
<1>. DEFINE c == command[p].peer
<1>1. command[p] \in Decisions
  BY CommandKinds DEF CommitTrust
<1>2. c \in Peers /\ command[p].at \in Instants /\ Known(c)
  BY <1>1 DEF Decisions, CommitTrust
<1>3. TrustOf(c) \in TrustRow
  BY <1>2, TrustOfType
<1>4. PICK level \in Levels \cup {None}, risk \in RiskSets \cup {None} :
         LET row == [level |-> IF level = None THEN TrustOf(c).level ELSE level,
                     risk  |-> IF risk = None THEN TrustOf(c).risk ELSE risk,
                     state |-> TrustOf(c).state]
             event == [level |-> row.level, risk |-> row.risk, state |-> row.state,
                       decided |-> command[p].at]
         IN  /\ trust' = [trust EXCEPT ![Id(c)] = row]
             /\ \E e \in LatestOf(latest[c], event) : latest' = [latest EXCEPT ![c] = e]
  BY DEF CommitTrust
<1>. DEFINE row == [level |-> IF level = None THEN TrustOf(c).level ELSE level,
                    risk  |-> IF risk = None THEN TrustOf(c).risk ELSE risk,
                    state |-> TrustOf(c).state]
            event == [level |-> row.level, risk |-> row.risk, state |-> row.state,
                      decided |-> command[p].at]
<1>5. row \in TrustRow /\ event \in DatedRow
  BY <1>2, <1>3 DEF TrustRow, DatedRow
<1>6. Decided(p, row, event)
  BY <1>4, <1>5 DEF Decided, Summary
<1>. QED
  BY <1>1, <1>2, <1>5, <1>6

LEMMA TrustType ==
    ASSUME TypeOK, NEW p \in Commands, CommitTrust(p)
    PROVE  TypeOK'
<1>. DEFINE c == command[p].peer
<1>1. c \in Peers /\ Known(c) /\ Id(c) \in ContactIds
  BY DecisionRow, KnownContact
<1>2. PICK row \in TrustRow, event \in DatedRow : Decided(p, row, event)
  BY DecisionRow
<1>3. PICK e \in LatestOf(latest[c], event) : latest' = [latest EXCEPT ![c] = e]
  BY <1>2 DEF Decided
<1>4. e \in DatedRow
  BY <1>1, LatestType DEF TypeOK
<1>5. history' \subseteq ContactIds
  BY <1>1 DEF CommitTrust, TypeOK
<1>6. command' \in [Commands -> {Idle} \cup Decisions \cup Inspections \cup Connects]
  BY IdleType DEF CommitTrust
<1>. QED
  BY <1>2, <1>3, <1>4, <1>5, <1>6 DEF TypeOK, CommitTrust, Decided

LEMMA ImportType ==
    ASSUME TypeOK, NEW p \in Commands, CommitImport(p)
    PROVE  /\ command[p] \in Inspections
           /\ Put(command[p].peer)
           /\ TypeOK'
<1>. DEFINE c == command[p].peer
<1>1. command[p] \in Inspections
  BY CommandKinds DEF CommitImport
<1>2. c \in Peers
  BY <1>1 DEF Inspections
<1>3. PICK verdict \in Outcomes :
         PutContact(c, verdict) /\ SaveInspection(p, contacts'[c].id, c, verdict)
  BY DEF CommitImport
<1>4. verdict \in Verdicts /\ verdict \in States
  BY BookAssumption DEF Verdicts, States
<1>5. Put(c)
  BY <1>2, <1>3, <1>4, PutPuts
<1>6. contacts'[c].id \in ContactIds
  BY <1>5 DEF Put, Contact
<1>. QED
  BY <1>1, <1>2, <1>3, <1>4, <1>5, <1>6, InspectionType DEF CommitImport, Put

\* What a refresh writes.
Refreshed(p, verdict, found) ==
    LET c == command[p].peer
    IN  /\ c \in Peers /\ Known(c) /\ Id(c) = command[p].target
        /\ PutContact(c, verdict)
        /\ found \in Peers
        /\ SaveInspection(p, Id(c), found, verdict)

LEMMA RefreshType ==
    ASSUME TypeOK, NEW p \in Commands, CommitRefresh(p)
    PROVE  /\ command[p] \in Inspections
           /\ Put(command[p].peer)
           /\ \E verdict \in Verdicts, found \in Peers : Refreshed(p, verdict, found)
           /\ TypeOK'
<1>. DEFINE c == command[p].peer
<1>1. command[p] \in Inspections
  BY CommandKinds DEF CommitRefresh
<1>2. c \in Peers /\ Known(c)
  BY <1>1 DEF Inspections, CommitRefresh
<1>3. PICK found \in Peers \cup {None}, verdict \in Outcomes \cup {"discovered", "mismatch"} :
         /\ PutContact(c, verdict)
         /\ SaveInspection(p, Id(c), IF found = None THEN c ELSE found, verdict)
  BY DEF CommitRefresh
<1>4. verdict \in Verdicts /\ verdict \in States
  BY BookAssumption DEF Verdicts, States
<1>5. Put(c)
  BY <1>2, <1>3, <1>4, PutPuts
<1>6. Id(c) \in ContactIds
  BY <1>2, KnownContact
<1>7. PICK d \in Peers : d = IF found = None THEN c ELSE found
  BY <1>2
<1>8. SaveInspection(p, Id(c), d, verdict)
  BY <1>3, <1>7
<1>9. Refreshed(p, verdict, d)
  BY <1>2, <1>3, <1>8 DEF Refreshed, CommitRefresh
<1>10. TypeOK'
  BY <1>4, <1>5, <1>6, <1>8, InspectionType DEF CommitRefresh, Put
<1>. QED
  BY <1>1, <1>4, <1>5, <1>9, <1>10

LEMMA AtOnceType ==
    ASSUME TypeOK, NEW c \in Peers, AtOnce(c)
    PROVE  TypeOK'
<1>1. CASE ImportCard(c)
  <2>1. Put(c)
    BY <1>1, PutPuts DEF ImportCard, States
  <2>. QED
    BY <1>1, <2>1 DEF ImportCard, Put, TypeOK
<1>2. CASE MessageArrives(c)
  <2>1. Put(c)
    BY <1>2, EnsurePuts DEF MessageArrives, States, Verdicts
  <2>. QED
    BY <1>2, <2>1 DEF MessageArrives, Put, TypeOK
<1>3. CASE Discover(c)
  BY <1>3 DEF Discover, TypeOK
<1>4. CASE Note(c)
  BY <1>4, KnownContact DEF Note, TypeOK
<1>5. CASE Remove(c)
  BY <1>5, KnownContact DEF Remove, TypeOK
<1>. QED
  BY <1>1, <1>2, <1>3, <1>4, <1>5 DEF AtOnce

LEMMA BeginType ==
    ASSUME TypeOK, NEW p \in Commands, NEW c \in Peers, Begin(p, c)
    PROVE  TypeOK'
<1>1. CASE BeginTrust(p, c)
  <2>1. [kind |-> "trust", peer |-> c, at |-> clock] \in Decisions
    BY DEF Decisions, TypeOK
  <2>. QED
    BY <1>1, <2>1 DEF BeginTrust, TypeOK
<1>2. CASE BeginImport(p, c)
  <2>1. [kind |-> "import", peer |-> c, at |-> clock, target |-> None] \in Inspections
    BY DEF Inspections, TypeOK
  <2>. QED
    BY <1>2, <2>1 DEF BeginImport, TypeOK
<1>3. CASE BeginRefresh(p, c)
  <2>1. [kind |-> "import", peer |-> c, at |-> clock, target |-> Id(c)] \in Inspections
    BY <1>3, KnownContact DEF Inspections, TypeOK, BeginRefresh
  <2>. QED
    BY <1>3, <2>1 DEF BeginRefresh, TypeOK
<1>4. CASE BeginConnect(p, c)
  <2>1. PICK decided \in AsOf(c) :
          command' = [command EXCEPT ![p] =
                         [kind |-> "connect", peer |-> c, seen |-> Profile(c),
                          decided |-> decided]]
    BY <1>4 DEF BeginConnect
  <2>2. [kind |-> "connect", peer |-> c, seen |-> Profile(c), decided |-> decided] \in Connects
    BY ProfileType, AsOfType DEF Connects
  <2>. QED
    BY <1>4, <2>1, <2>2 DEF BeginConnect, TypeOK
<1>. QED
  BY <1>1, <1>2, <1>3, <1>4 DEF Begin

LEMMA StepType == TypeOK /\ [Next]_vars => TypeOK'
<1>. SUFFICES ASSUME TypeOK, [Next]_vars PROVE TypeOK'
  OBVIOUS
<1>1. CASE Tick
  BY <1>1, BookAssumption DEF Tick, TypeOK, Instants
<1>2. ASSUME NEW p \in Commands, Commit(p) PROVE TypeOK'
  BY <1>2, TrustType, ImportType, RefreshType, PromoteType DEF Commit
<1>3. ASSUME NEW p \in Commands, Fail(p) PROVE TypeOK'
  BY <1>3, IdleType DEF Fail, TypeOK
<1>4. CASE UNCHANGED vars
  BY <1>4 DEF vars, TypeOK
<1>. QED
  BY <1>1, <1>2, <1>3, <1>4, AtOnceType, BeginType DEF Next

\* Every variable keeps its type, whatever commands overlap.
THEOREM TypeCorrect == Spec => []TypeOK
  BY InitType, StepType, PTL DEF Spec

-----------------------------------------------------------------------------
(* No rows without a contact. *)

\* A contact that is made or brought up to date, and rows written only for its
\* id, leave no orphan.
LEMMA PutOwns ==
    ASSUME TypeOK, NoOrphans, NEW c \in Peers, Put(c),
           \A i \in ContactIds : i # contacts'[c].id =>
              (trust'[i] # None \/ i \in history' => trust[i] # None \/ i \in history)
    PROVE  NoOrphans'
<1>. SUFFICES ASSUME NEW i \in ContactIds, trust'[i] # None \/ i \in history'
              PROVE  \E d \in Peers : Known(d)' /\ Id(d)' = i
  BY DEF NoOrphans
<1>1. Known(c)' /\ Id(c)' = contacts'[c].id
  BY PutKnown DEF Id
<1>2. CASE i = contacts'[c].id
  BY <1>1, <1>2
<1>3. CASE i # contacts'[c].id
  <2>1. PICK d \in Peers : Known(d) /\ Id(d) = i
    BY <1>3 DEF NoOrphans
  <2>2. CASE d = c
    BY <1>3, <2>1, <2>2 DEF Put, Id
  <2>3. CASE d # c
    BY <2>1, <2>3, PutKnown
  <2>. QED
    BY <2>2, <2>3
<1>. QED
  BY <1>2, <1>3

\* Steps that write no row by contact id.
LEMMA NothingWritten ==
    ASSUME NoOrphans, UNCHANGED <<contacts, trust, history>>
    PROVE  NoOrphans'
  BY DEF NoOrphans, Known, Id

LEMMA AtOnceOwns ==
    ASSUME TypeOK, NoOrphans, NEW c \in Peers, AtOnce(c)
    PROVE  NoOrphans'
<1>1. CASE ImportCard(c)
  BY <1>1, PutPuts, PutOwns DEF ImportCard, States
<1>2. CASE MessageArrives(c)
  BY <1>2, EnsurePuts, PutOwns DEF MessageArrives, States, Verdicts
<1>3. CASE Discover(c)
  BY <1>3, NothingWritten DEF Discover
<1>4. CASE Note(c)
  BY <1>4 DEF Note, NoOrphans, Known, Id
<1>5. CASE Remove(c)
  <2>. SUFFICES ASSUME NEW i \in ContactIds, trust'[i] # None \/ i \in history'
                PROVE  \E d \in Peers : Known(d)' /\ Id(d)' = i
    BY DEF NoOrphans
  <2>1. i # Id(c) /\ (trust[i] # None \/ i \in history)
    BY <1>5 DEF Remove, TypeOK
  <2>2. PICK d \in Peers : Known(d) /\ Id(d) = i
    BY <2>1 DEF NoOrphans
  <2>3. d # c
    BY <2>1, <2>2
  <2>4. contacts'[d] = contacts[d]
    BY <1>5, <2>3 DEF Remove, TypeOK
  <2>. QED
    BY <2>2, <2>4 DEF Known, Id
<1>. QED
  BY <1>1, <1>2, <1>3, <1>4, <1>5 DEF AtOnce

LEMMA CommitOwns ==
    ASSUME TypeOK, NoOrphans, NEW p \in Commands, Commit(p)
    PROVE  NoOrphans'
<1>. DEFINE c == command[p].peer
<1>1. CASE CommitTrust(p)
  <2>1. \A i \in ContactIds : i # Id(c) => trust'[i] = trust[i]
    BY <1>1 DEF CommitTrust, TypeOK
  <2>2. /\ history' = history \cup {Id(c)}
        /\ contacts' = contacts
        /\ c \in Peers /\ Known(c)
    BY <1>1, DecisionRow DEF CommitTrust
  <2>. QED
    BY <2>1, <2>2 DEF NoOrphans, Known, Id
<1>2. CASE CommitImport(p)
  <2>1. Put(c) /\ c \in Peers
    BY <1>2, ImportType DEF Inspections
  <2>2. PICK verdict \in Outcomes : SaveInspection(p, contacts'[c].id, c, verdict)
    BY <1>2 DEF CommitImport
  <2>. QED
    BY <2>1, <2>2, PutOwns DEF SaveInspection, PutTrustState, TypeOK
<1>3. CASE CommitRefresh(p)
  <2>1. Put(c)
    BY <1>3, RefreshType
  <2>2. PICK verdict \in Verdicts, found \in Peers : Refreshed(p, verdict, found)
    BY <1>3, RefreshType
  <2>3. Id(c) = contacts'[c].id /\ c \in Peers
    BY <2>1, <2>2 DEF Put, Id, Refreshed
  <2>. QED
    BY <2>1, <2>2, <2>3, PutOwns DEF Refreshed, SaveInspection, PutTrustState, TypeOK
<1>4. CASE Promote(p)
  <2>1. Put(c) /\ c \in Peers
    BY <1>4, PromoteType DEF Connects
  <2>. QED
    BY <1>4, <2>1, PutOwns DEF Promote, PromoteTrust, TypeOK
<1>. QED
  BY <1>1, <1>2, <1>3, <1>4 DEF Commit

\* A removal leaves no row by contact id, and no command that read the contact
\* before writes one after it.
THEOREM RowsHaveContacts == Spec => []NoOrphans
<1>1. Init => NoOrphans
  BY DEF Init, NoOrphans
<1>2. TypeOK /\ NoOrphans /\ [Next]_vars => NoOrphans'
  <2>. SUFFICES ASSUME TypeOK, NoOrphans, [Next]_vars PROVE NoOrphans'
    OBVIOUS
  <2>1. CASE Tick
    BY <2>1, NothingWritten DEF Tick
  <2>2. ASSUME NEW p \in Commands, Fail(p) PROVE NoOrphans'
    BY <2>2, NothingWritten DEF Fail
  <2>3. ASSUME NEW p \in Commands, NEW c \in Peers, Begin(p, c) PROVE NoOrphans'
    BY <2>3, NothingWritten DEF Begin, BeginTrust, BeginImport, BeginRefresh, BeginConnect
  <2>4. CASE UNCHANGED vars
    BY <2>4, NothingWritten DEF vars
  <2>. QED
    BY <2>1, <2>2, <2>3, <2>4, AtOnceOwns, CommitOwns DEF Next
<1>. QED
  BY <1>1, <1>2, TypeCorrect, PTL DEF Spec

-----------------------------------------------------------------------------
(* Ids. *)

\* No two contacts have one id, and no contact an id not given out yet.
IdsDistinct ==
    /\ \A c \in Peers : Known(c) => Id(c) <= lastId
    /\ \A c, d \in Peers : Known(c) /\ Known(d) /\ Id(c) = Id(d) => c = d

LEMMA PutDistinct ==
    ASSUME TypeOK, IdsDistinct, NEW c \in Peers, Put(c)
    PROVE  /\ IdsDistinct'
           /\ \A d \in Peers \ {c} : Known(d) => Id(d) # contacts'[c].id
<1>1. lastId \in Nat
  BY BookAssumption DEF TypeOK
<1>2. \A d \in Peers : Known(d) => Id(d) \in Nat /\ Id(d) <= lastId
  BY KnownContact, BookAssumption DEF IdsDistinct, ContactIds
<1>3. \A d \in Peers \ {c} : Known(d)' = Known(d) /\ Id(d)' = Id(d)
  BY PutKnown
<1>4. /\ Id(c)' = contacts'[c].id
      /\ Known(c) => Id(c)' = Id(c) /\ lastId' = lastId
      /\ ~Known(c) => Id(c)' = lastId + 1 /\ lastId' = lastId + 1
  BY DEF Put, Id
<1>5. \A d \in Peers \ {c} : Known(d) => Id(d) # contacts'[c].id
  BY <1>1, <1>2, <1>4 DEF IdsDistinct
<1>6. \A d \in Peers : Known(d)' => Id(d)' <= lastId'
  BY <1>1, <1>2, <1>3, <1>4
<1>. QED
  BY <1>3, <1>4, <1>5, <1>6 DEF IdsDistinct

\* A contact that is made has no trust record yet.
LEMMA PutFresh ==
    ASSUME TypeOK, IdsDistinct, NoOrphans, NEW c \in Peers, Put(c)
    PROVE  IF Known(c) THEN contacts'[c].id = Id(c) ELSE trust[contacts'[c].id] = None
<1>1. CASE Known(c)
  BY <1>1 DEF Put, Id
<1>2. CASE ~Known(c)
  <2>1. contacts'[c].id = lastId + 1 /\ contacts'[c].id \in ContactIds /\ lastId \in Nat
    BY <1>2, BookAssumption DEF Put, Contact, TypeOK
  <2>2. \A d \in Peers : Known(d) => Id(d) # lastId + 1
    BY <2>1, KnownContact, BookAssumption DEF IdsDistinct, ContactIds
  <2>. QED
    BY <1>2, <2>1, <2>2 DEF NoOrphans
<1>. QED
  BY <1>1, <1>2

LEMMA IdsElsewhere ==
    ASSUME IdsDistinct, UNCHANGED <<contacts, lastId>>
    PROVE  IdsDistinct'
  BY DEF IdsDistinct, Known, Id

LEMMA IdsStay == Spec => []IdsDistinct
<1>1. Init => IdsDistinct
  BY DEF Init, IdsDistinct, Known
<1>2. TypeOK /\ IdsDistinct /\ [Next]_vars => IdsDistinct'
  <2>. SUFFICES ASSUME TypeOK, IdsDistinct, [Next]_vars PROVE IdsDistinct'
    OBVIOUS
  <2>1. CASE Tick
    BY <2>1, IdsElsewhere DEF Tick
  <2>2. ASSUME NEW c \in Peers, AtOnce(c) PROVE IdsDistinct'
    <3>1. CASE ImportCard(c)
      BY <3>1, PutPuts, PutDistinct DEF ImportCard, States
    <3>2. CASE MessageArrives(c)
      BY <3>2, EnsurePuts, PutDistinct DEF MessageArrives, States, Verdicts
    <3>3. CASE Remove(c)
      BY <3>3 DEF Remove, IdsDistinct, Known, Id, TypeOK
    <3>4. CASE Discover(c) \/ Note(c)
      BY <3>4, IdsElsewhere DEF Discover, Note
    <3>. QED
      BY <2>2, <3>1, <3>2, <3>3, <3>4 DEF AtOnce
  <2>3. ASSUME NEW p \in Commands, Commit(p) PROVE IdsDistinct'
    <3>1. CASE CommitTrust(p)
      BY <3>1, IdsElsewhere DEF CommitTrust
    <3>2. CASE CommitImport(p)
      BY <3>2, ImportType, PutDistinct DEF Inspections
    <3>3. CASE CommitRefresh(p)
      BY <3>3, RefreshType, PutDistinct DEF Inspections
    <3>4. CASE Promote(p)
      BY <3>4, PromoteType, PutDistinct DEF Connects
    <3>. QED
      BY <2>3, <3>1, <3>2, <3>3, <3>4 DEF Commit
  <2>4. ASSUME NEW p \in Commands, Fail(p) PROVE IdsDistinct'
    BY <2>4, IdsElsewhere DEF Fail
  <2>5. ASSUME NEW p \in Commands, NEW c \in Peers, Begin(p, c) PROVE IdsDistinct'
    BY <2>5, IdsElsewhere DEF Begin, BeginTrust, BeginImport, BeginRefresh, BeginConnect
  <2>6. CASE UNCHANGED vars
    BY <2>6, IdsElsewhere DEF vars
  <2>. QED
    BY <2>1, <2>2, <2>3, <2>4, <2>5, <2>6 DEF Next
<1>. QED
  BY <1>1, <1>2, TypeCorrect, PTL DEF Spec

-----------------------------------------------------------------------------
(* Who vouches. *)

\* Nothing is said in s that was not said of c somewhere.
Vouched(c, s) ==
    /\ s.level = "unknown" \/ \E old \in Said(c) : old.level = s.level
    /\ s.risk = {} \/ \E old \in Said(c) : old.risk = s.risk

TrustVouched(c) == Known(c)' /\ trust'[Id(c)'] # None => Vouched(c, trust'[Id(c)'])
RuntimeVouched(c) == runtime'[c] # None => Vouched(c, runtime'[c])
LatestVouched(c) == latest'[c] # None => Vouched(c, latest'[c])
CommandsVouched(c) ==
    \A p \in Commands :
        command'[p].kind = "connect" /\ command'[p].peer = c => Vouched(c, command'[p].seen)

LEMMA AllVouched ==
    ASSUME NEW c \in Peers, TrustVouched(c), RuntimeVouched(c), LatestVouched(c),
           CommandsVouched(c)
    PROVE  \A s \in Said(c)' : Vouched(c, s)
<1>. SUFFICES ASSUME NEW s \in Said(c)' PROVE Vouched(c, s)
  OBVIOUS
<1>1. CASE Known(c)' /\ trust'[Id(c)'] # None /\ s = Summary(trust'[Id(c)'])
  BY <1>1 DEF TrustVouched, Vouched, Summary
<1>2. CASE runtime'[c] # None /\ s = Summary(runtime'[c])
  BY <1>2 DEF RuntimeVouched, Vouched, Summary
<1>3. CASE latest'[c] # None /\ s = Summary(latest'[c])
  BY <1>3 DEF LatestVouched, Vouched, Summary
<1>4. CASE \E p \in Commands :
             command'[p].kind = "connect" /\ command'[p].peer = c /\ s = command'[p].seen
  BY <1>4 DEF CommandsVouched
<1>. QED
  BY <1>1, <1>2, <1>3, <1>4 DEF Said

\* What is said already is vouched for.
LEMMA OldVouched ==
    ASSUME NEW c \in Peers
    PROVE  /\ Known(c) /\ trust[Id(c)] # None => Vouched(c, trust[Id(c)])
           /\ runtime[c] # None => Vouched(c, runtime[c])
           /\ latest[c] # None => Vouched(c, latest[c])
           /\ \A p \in Commands :
                 command[p].kind = "connect" /\ command[p].peer = c =>
                    Vouched(c, command[p].seen)
<1>1. ASSUME Known(c), trust[Id(c)] # None PROVE Vouched(c, trust[Id(c)])
  <2>1. Summary(trust[Id(c)]) \in Said(c)
    BY <1>1 DEF Said
  <2>. QED
    BY <2>1 DEF Vouched, Summary
<1>2. ASSUME runtime[c] # None PROVE Vouched(c, runtime[c])
  <2>1. Summary(runtime[c]) \in Said(c)
    BY <1>2 DEF Said
  <2>. QED
    BY <2>1 DEF Vouched, Summary
<1>3. ASSUME latest[c] # None PROVE Vouched(c, latest[c])
  <2>1. Summary(latest[c]) \in Said(c)
    BY <1>3 DEF Said
  <2>. QED
    BY <2>1 DEF Vouched, Summary
<1>4. ASSUME NEW p \in Commands, command[p].kind = "connect", command[p].peer = c
      PROVE  Vouched(c, command[p].seen)
  <2>1. command[p].seen \in Said(c)
    BY <1>4 DEF Said
  <2>. QED
    BY <2>1 DEF Vouched
<1>. QED
  BY <1>1, <1>2, <1>3, <1>4

LEMMA ProfileVouched ==
    ASSUME NEW c \in Peers
    PROVE  Vouched(c, Profile(c))
<1>1. CASE UsesEvent(c)
  <2>1. Vouched(c, latest[c])
    BY <1>1, OldVouched DEF UsesEvent
  <2>. QED
    BY <1>1, <2>1 DEF Vouched, Profile, Summary
<1>2. CASE ~UsesEvent(c) /\ runtime[c] # None
  <2>1. Vouched(c, runtime[c])
    BY <1>2, OldVouched
  <2>. QED
    BY <1>2, <2>1 DEF Vouched, Profile, Summary
<1>3. CASE ~UsesEvent(c) /\ runtime[c] = None
  BY <1>3 DEF Profile, Vouched
<1>. QED
  BY <1>1, <1>2, <1>3

\* A level that is merged from two, and flags taken from one.
LEMMA MergedVouched ==
    ASSUME NEW c \in Peers, NEW r, NEW s, NEW new, Vouched(c, r), Vouched(c, s),
           new.level = MergeLevel(r.level, s.level), new.risk \in {r.risk, s.risk}
    PROVE  Vouched(c, new)
<1>1. new.level = r.level \/ new.level = s.level
  BY DEF MergeLevel
<1>2. new.level = "unknown" \/ \E old \in Said(c) : old.level = new.level
  BY <1>1 DEF Vouched
<1>3. new.risk = {} \/ \E old \in Said(c) : old.risk = new.risk
  BY DEF Vouched
<1>. QED
  BY <1>2, <1>3 DEF Vouched

\* Trust records of contacts other than the one a command writes.
LEMMA TrustElsewhere ==
    ASSUME TypeOK, IdsDistinct, NEW c \in Peers, NEW d \in Peers, c # d, Put(d),
           \A i \in ContactIds : i # contacts'[d].id => trust'[i] = trust[i]
    PROVE  TrustVouched(c)
<1>. SUFFICES ASSUME Known(c)', trust'[Id(c)'] # None
              PROVE  Vouched(c, trust'[Id(c)'])
  BY DEF TrustVouched
<1>1. Known(c) /\ Id(c)' = Id(c)
  BY PutKnown
<1>2. Id(c) # contacts'[d].id /\ Id(c) \in ContactIds
  BY <1>1, PutDistinct, KnownContact
<1>3. trust'[Id(c)'] = trust[Id(c)]
  BY <1>1, <1>2
<1>. QED
  BY <1>1, <1>3, OldVouched

\* The trust record of the contact a command writes.
LEMMA TrustHere ==
    ASSUME TypeOK, IdsDistinct, NoOrphans, NEW c \in Peers, Put(c),
           LET i == contacts'[c].id
           IN  IF trust[i] = None THEN Vouched(c, trust'[i])
               ELSE Vouched(c, trust[i]) => Vouched(c, trust'[i])
    PROVE  TrustVouched(c)
<1>. DEFINE i == contacts'[c].id
<1>1. Id(c)' = i
  BY DEF Id
<1>2. CASE Known(c)
  BY <1>1, <1>2, PutFresh, OldVouched DEF TrustVouched
<1>3. CASE ~Known(c)
  BY <1>1, <1>3, PutFresh DEF TrustVouched
<1>. QED
  BY <1>2, <1>3

\* Commands but the one that ends keep what they read.
LEMMA EndVouched ==
    ASSUME TypeOK, NEW c \in Peers, NEW p \in Commands,
           command' = [command EXCEPT ![p] = Idle]
    PROVE  CommandsVouched(c)
<1>. SUFFICES ASSUME NEW q \in Commands, command'[q].kind = "connect", command'[q].peer = c
              PROVE  Vouched(c, command'[q].seen)
  BY DEF CommandsVouched
<1>1. command'[q] = command[q]
  BY DEF TypeOK, Idle
<1>. QED
  BY <1>1, OldVouched

LEMMA InspectionVouched ==
    ASSUME TypeOK, IdsDistinct, NoOrphans, NEW c \in Peers, NEW d \in Peers,
           NEW e \in Peers, NEW p \in Commands, NEW verdict \in Verdicts, Put(d),
           SaveInspection(p, contacts'[d].id, e, verdict)
    PROVE  \A s \in Said(c)' : Vouched(c, s)
<1>. DEFINE i == contacts'[d].id
<1>1. i \in ContactIds
  BY DEF Put, Contact
<1>2. \A j \in ContactIds : j # i => trust'[j] = trust[j]
  BY DEF SaveInspection, PutTrustState, TypeOK
<1>3. TrustVouched(c)
  <2>1. CASE c = d
    <3>1. trust'[i] = IF trust[i] = None
                      THEN [level |-> "unknown", risk |-> {}, state |-> verdict]
                      ELSE [trust[i] EXCEPT !.state = verdict]
      BY <1>1 DEF SaveInspection, PutTrustState, TypeOK
    <3>2. CASE trust[i] = None
      BY <2>1, <3>1, <3>2, TrustHere DEF Vouched
    <3>3. CASE trust[i] # None
      <4>1. trust[i] \in TrustRow
        BY <1>1, <3>3 DEF TypeOK
      <4>2. trust'[i].level = trust[i].level /\ trust'[i].risk = trust[i].risk
        BY <3>1, <3>3, <4>1 DEF TrustRow
      <4>3. Vouched(c, trust[i]) => Vouched(c, trust'[i])
        BY <4>2 DEF Vouched
      <4>. QED
        BY <2>1, <3>3, <4>3, TrustHere
    <3>. QED
      BY <3>2, <3>3
  <2>2. CASE c # d
    BY <1>2, <2>2, TrustElsewhere
  <2>. QED
    BY <2>1, <2>2
<1>4. RuntimeVouched(c)
  <2>1. CASE c = e
    <3>1. CASE runtime[c] = None
      <4>1. runtime'[c].level = "unknown" /\ runtime'[c].risk = {}
        BY <2>1, <3>1 DEF SaveInspection, PutRuntimeState, TypeOK
      <4>. QED
        BY <4>1 DEF RuntimeVouched, Vouched
    <3>2. CASE runtime[c] # None
      <4>1. runtime[c] \in DatedRow
        BY <3>2 DEF TypeOK
      <4>2. runtime'[c].level = runtime[c].level /\ runtime'[c].risk = runtime[c].risk
        BY <2>1, <3>2, <4>1 DEF SaveInspection, PutRuntimeState, TypeOK, DatedRow
      <4>. QED
        BY <3>2, <4>2, OldVouched DEF RuntimeVouched, Vouched
    <3>. QED
      BY <3>1, <3>2
  <2>2. CASE c # e
    <3>1. runtime'[c] = runtime[c]
      BY <2>2 DEF SaveInspection, PutRuntimeState, TypeOK
    <3>. QED
      BY <3>1, OldVouched DEF RuntimeVouched
  <2>. QED
    BY <2>1, <2>2
<1>5. LatestVouched(c)
  BY OldVouched DEF SaveInspection, LatestVouched
<1>6. CommandsVouched(c)
  BY EndVouched DEF SaveInspection
<1>. QED
  BY <1>3, <1>4, <1>5, <1>6, AllVouched

LEMMA PromoteVouched ==
    ASSUME TypeOK, IdsDistinct, NoOrphans, NEW c \in Peers, NEW p \in Commands, Promote(p)
    PROVE  \A s \in Said(c)' : Vouched(c, s)
<1>. DEFINE d == command[p].peer
            seen == command[p].seen
            i == contacts'[d].id
<1>1. d \in Peers /\ seen \in TrustRow /\ Put(d)
  BY PromoteType DEF Connects
<1>2. i \in ContactIds
  BY <1>1 DEF Put, Contact
<1>3. \A j \in ContactIds : j # i => trust'[j] = trust[j]
  BY DEF Promote, PromoteTrust, TypeOK
<1>4. CASE c # d
  <2>1. TrustVouched(c)
    BY <1>1, <1>3, <1>4, TrustElsewhere
  <2>2. RuntimeVouched(c)
    BY <1>1, <1>4, OldVouched DEF RuntimeVouched, Promote, PromoteRuntime, TypeOK
  <2>3. LatestVouched(c) /\ CommandsVouched(c)
    BY OldVouched, EndVouched DEF Promote, LatestVouched
  <2>. QED
    BY <2>1, <2>2, <2>3, AllVouched
<1>5. CASE c = d
  <2>1. Vouched(c, seen)
    BY <1>5, OldVouched DEF Promote
  <2>2. TrustVouched(c)
    <3>1. CASE trust[i] = None
      <4>1. trust'[i].level = seen.level /\ trust'[i].risk = {}
        BY <1>2, <3>1 DEF Promote, PromoteTrust, TypeOK
      <4>2. Vouched(c, trust'[i])
        BY <2>1, <4>1 DEF Vouched
      <4>. QED
        BY <1>1, <1>5, <3>1, <4>2, TrustHere
    <3>2. CASE trust[i] # None
      <4>1. /\ trust'[i].level = MergeLevel(trust[i].level, seen.level)
            /\ trust'[i].risk = trust[i].risk
        BY <1>2, <3>2 DEF Promote, PromoteTrust, TypeOK
      <4>2. Vouched(c, trust[i]) => Vouched(c, trust'[i])
        BY <2>1, <4>1, MergedVouched
      <4>. QED
        BY <1>1, <1>5, <3>2, <4>2, TrustHere
    <3>. QED
      BY <3>1, <3>2
  <2>3. RuntimeVouched(c)
    <3>1. CASE runtime[c] = None
      <4>1. runtime'[c].level = seen.level /\ runtime'[c].risk = seen.risk
        BY <1>5, <3>1 DEF Promote, PromoteRuntime, TypeOK
      <4>. QED
        BY <2>1, <4>1 DEF Vouched, RuntimeVouched
    <3>2. CASE runtime[c] # None
      <4>1. /\ runtime'[c].level = MergeLevel(runtime[c].level, seen.level)
            /\ runtime'[c].risk \in {runtime[c].risk, seen.risk}
        BY <1>5, <3>2 DEF Promote, PromoteRuntime, TypeOK
      <4>2. Vouched(c, runtime[c])
        BY <3>2, OldVouched
      <4>. QED
        BY <2>1, <4>1, <4>2, MergedVouched DEF RuntimeVouched
    <3>. QED
      BY <3>1, <3>2
  <2>4. LatestVouched(c) /\ CommandsVouched(c)
    BY OldVouched, EndVouched DEF Promote, LatestVouched
  <2>. QED
    BY <2>2, <2>3, <2>4, AllVouched
<1>. QED
  BY <1>4, <1>5

LEMMA AtOnceVouched ==
    ASSUME TypeOK, IdsDistinct, NoOrphans, NEW c \in Peers, NEW d \in Peers, AtOnce(d)
    PROVE  \A s \in Said(c)' : Vouched(c, s)
<1>1. UNCHANGED <<runtime, latest, command>>
  BY DEF AtOnce, ImportCard, MessageArrives, Discover, Note, Remove
<1>2. RuntimeVouched(c) /\ LatestVouched(c) /\ CommandsVouched(c)
  BY <1>1, OldVouched DEF RuntimeVouched, LatestVouched, CommandsVouched
<1>3. ASSUME Put(d), trust' = trust PROVE TrustVouched(c)
  <2>1. CASE c = d
    BY <1>3, <2>1, PutFresh, OldVouched DEF TrustVouched, Id
  <2>2. CASE c # d
    BY <1>3, <2>2, TrustElsewhere
  <2>. QED
    BY <2>1, <2>2
<1>4. TrustVouched(c)
  <2>1. CASE ImportCard(d)
    BY <1>3, <2>1, PutPuts DEF ImportCard, States
  <2>2. CASE MessageArrives(d)
    BY <1>3, <2>2, EnsurePuts DEF MessageArrives, States, Verdicts
  <2>3. CASE Discover(d) \/ Note(d)
    BY <2>3, OldVouched DEF Discover, Note, TrustVouched, Known, Id
  <2>4. CASE Remove(d)
    <3>. SUFFICES ASSUME Known(c)', trust'[Id(c)'] # None
                  PROVE  Vouched(c, trust'[Id(c)'])
      BY DEF TrustVouched
    <3>1. c # d /\ Known(c) /\ Id(c)' = Id(c)
      BY <2>4 DEF Remove, TypeOK, Known, Id
    <3>2. trust'[Id(c)] = trust[Id(c)]
      BY <2>4, <3>1, KnownContact DEF Remove, TypeOK
    <3>. QED
      BY <3>1, <3>2, OldVouched
  <2>. QED
    BY <2>1, <2>2, <2>3, <2>4 DEF AtOnce
<1>. QED
  BY <1>2, <1>4, AllVouched

LEMMA BeginVouched ==
    ASSUME TypeOK, NEW c \in Peers, NEW d \in Peers, NEW p \in Commands, Begin(p, d)
    PROVE  \A s \in Said(c)' : Vouched(c, s)
<1>1. UNCHANGED <<contacts, trust, runtime, latest>>
  BY DEF Begin, BeginTrust, BeginImport, BeginRefresh, BeginConnect
<1>2. TrustVouched(c) /\ RuntimeVouched(c) /\ LatestVouched(c)
  BY <1>1, OldVouched DEF TrustVouched, RuntimeVouched, LatestVouched, Known, Id
<1>3. CommandsVouched(c)
  <2>. SUFFICES ASSUME NEW q \in Commands,
                       command'[q].kind = "connect", command'[q].peer = c
                PROVE  Vouched(c, command'[q].seen)
    BY DEF CommandsVouched
  <2>1. CASE q # p
    <3>1. command'[q] = command[q]
      BY <2>1 DEF Begin, BeginTrust, BeginImport, BeginRefresh, BeginConnect, TypeOK
    <3>. QED
      BY <3>1, OldVouched
  <2>2. CASE q = p
    <3>1. BeginConnect(p, d)
      BY <2>2 DEF Begin, BeginTrust, BeginImport, BeginRefresh, TypeOK
    <3>2. command'[q].seen = Profile(d) /\ d = c
      BY <2>2, <3>1 DEF BeginConnect, TypeOK
    <3>. QED
      BY <3>2, ProfileVouched
  <2>. QED
    BY <2>1, <2>2
<1>. QED
  BY <1>2, <1>3, AllVouched

LEMMA DecisionElsewhere ==
    ASSUME TypeOK, IdsDistinct, NEW c \in Peers, NEW p \in Commands, CommitTrust(p),
           command[p].peer # c
    PROVE  \A s \in Said(c)' : Vouched(c, s)
<1>. DEFINE d == command[p].peer
<1>1. d \in Peers /\ Known(d) /\ UNCHANGED <<contacts, lastId, runtime>>
  BY DecisionRow DEF CommitTrust
<1>2. TrustVouched(c)
  <2>1. \A i \in ContactIds : i # Id(d) => trust'[i] = trust[i]
    BY DEF CommitTrust, TypeOK
  <2>2. Known(c) => Id(c) # Id(d) /\ Id(c) \in ContactIds
    BY <1>1, KnownContact DEF IdsDistinct
  <2>. QED
    BY <1>1, <2>1, <2>2, OldVouched DEF TrustVouched, Known, Id
<1>3. latest'[c] = latest[c]
  BY <1>1 DEF CommitTrust, TypeOK
<1>4. RuntimeVouched(c) /\ LatestVouched(c) /\ CommandsVouched(c)
  BY <1>1, <1>3, OldVouched, EndVouched DEF RuntimeVouched, LatestVouched, CommitTrust
<1>. QED
  BY <1>2, <1>4, AllVouched

\* A level or a flag comes from the user's decision on the very peer, however
\* imports, refreshes, connections, messages and removals overlap with it.
THEOREM VouchingIsTheUsers == Spec => OnlyUserVouches
<1>. DEFINE Step == \A c \in Peers :
                       \/ \A s \in Said(c)' : Vouched(c, s)
                       \/ \E p \in Commands : CommitTrust(p) /\ command[p].peer = c
<1>1. TypeOK /\ IdsDistinct /\ NoOrphans /\ [Next]_vars => [Step]_vars
  <2>. SUFFICES ASSUME TypeOK, IdsDistinct, NoOrphans, Next, NEW c \in Peers,
                       ~ \E p \in Commands : CommitTrust(p) /\ command[p].peer = c
                PROVE  \A s \in Said(c)' : Vouched(c, s)
    OBVIOUS
  <2>1. CASE Tick
    <3>1. Said(c)' = Said(c)
      BY <2>1 DEF Tick, Said, Known, Id, Summary
    <3>. QED
      BY <3>1 DEF Vouched
  <2>2. ASSUME NEW d \in Peers, AtOnce(d) PROVE \A s \in Said(c)' : Vouched(c, s)
    BY <2>2, AtOnceVouched
  <2>3. ASSUME NEW p \in Commands, Commit(p) PROVE \A s \in Said(c)' : Vouched(c, s)
    <3>1. CASE CommitTrust(p)
      BY <3>1, DecisionElsewhere
    <3>2. CASE CommitImport(p)
      <4>1. Put(command[p].peer) /\ command[p].peer \in Peers
        BY <3>2, ImportType DEF Inspections
      <4>2. PICK verdict \in Outcomes :
               SaveInspection(p, contacts'[command[p].peer].id, command[p].peer, verdict)
        BY <3>2 DEF CommitImport
      <4>. QED
        BY <4>1, <4>2, InspectionVouched, BookAssumption DEF Verdicts
    <3>3. CASE CommitRefresh(p)
      <4>1. Put(command[p].peer)
        BY <3>3, RefreshType
      <4>2. PICK verdict \in Verdicts, found \in Peers : Refreshed(p, verdict, found)
        BY <3>3, RefreshType
      <4>3. Id(command[p].peer) = contacts'[command[p].peer].id
        BY <4>1, <4>2 DEF Put, Id, Refreshed
      <4>. QED
        BY <4>1, <4>2, <4>3, InspectionVouched DEF Refreshed
    <3>4. CASE Promote(p)
      BY <3>4, PromoteVouched
    <3>. QED
      BY <2>3, <3>1, <3>2, <3>3, <3>4 DEF Commit
  <2>4. ASSUME NEW p \in Commands, Fail(p) PROVE \A s \in Said(c)' : Vouched(c, s)
    <3>1. TrustVouched(c) /\ RuntimeVouched(c) /\ LatestVouched(c)
      BY <2>4, OldVouched DEF Fail, TrustVouched, RuntimeVouched, LatestVouched, Known, Id
    <3>. QED
      BY <2>4, <3>1, EndVouched, AllVouched DEF Fail
  <2>5. ASSUME NEW p \in Commands, NEW d \in Peers, Begin(p, d)
        PROVE  \A s \in Said(c)' : Vouched(c, s)
    BY <2>5, BeginVouched
  <2>. QED
    BY <2>1, <2>2, <2>3, <2>4, <2>5 DEF Next
<1>2. [Step]_vars <=> [\A c \in Peers :
         \/ \A s \in Said(c)' :
              /\ s.level = "unknown" \/ \E old \in Said(c) : old.level = s.level
              /\ s.risk = {} \/ \E old \in Said(c) : old.risk = s.risk
         \/ \E p \in Commands : CommitTrust(p) /\ command[p].peer = c]_vars
  BY DEF Vouched
<1>. QED
  BY <1>1, <1>2, TypeCorrect, IdsStay, RowsHaveContacts, PTL DEF Spec, OnlyUserVouches

-----------------------------------------------------------------------------
(* Verdicts. *)

LEMMA PriorityType == \A s \in States : Priority(s) \in 0 .. 4
<1>1. \A s : Priority(s) = IF s = "mismatch" THEN 4 ELSE IF s = "consistent" THEN 3
                           ELSE IF s = "resolved" THEN 2 ELSE IF s = "discovered" THEN 1
                           ELSE 0
  BY DEF Priority
<1>. QED
  BY <1>1 DEF States, Verdicts

LEMMA GraverStays ==
    ASSUME NEW s \in States, NEW t \in States
    PROVE  Priority(MergeState(s, t)) >= Priority(s)
<1>1. Priority(s) \in Int /\ Priority(t) \in Int
  BY PriorityType
<1>. QED
  BY <1>1 DEF MergeState

\* No state in the contact's trust record or in the runtime row is softened.
NotSoftened(c) ==
    /\ Known(c) /\ Known(c)' /\ trust[Id(c)] # None =>
          Priority(trust'[Id(c)].state) >= Priority(trust[Id(c)].state)
    /\ runtime[c] # None => Priority(runtime'[c].state) >= Priority(runtime[c].state)

LEMMA StatesKept ==
    ASSUME TypeOK, NEW c \in Peers,
           Known(c) /\ Known(c)' /\ trust[Id(c)] # None =>
              trust'[Id(c)].state = trust[Id(c)].state,
           runtime' = runtime
    PROVE  NotSoftened(c)
<1>1. Known(c) /\ trust[Id(c)] # None => trust[Id(c)].state \in States
  BY KnownContact DEF TypeOK, TrustRow
<1>2. runtime[c] # None => runtime[c].state \in States
  BY DEF TypeOK, DatedRow
<1>3. \A s \in States : Priority(s) >= Priority(s)
  BY PriorityType
<1>. QED
  BY <1>1, <1>2, <1>3 DEF NotSoftened

LEMMA PromoteKeeps ==
    ASSUME TypeOK, NEW c \in Peers, NEW p \in Commands, Promote(p)
    PROVE  NotSoftened(c)
<1>. DEFINE d == command[p].peer
            state == Normalized(command[p].seen.state)
            i == contacts'[d].id
<1>1. d \in Peers /\ state \in States /\ i \in ContactIds
  BY PromoteType, NormalizedType DEF Connects, TrustRow, Put, Contact, States
<1>2. \A s \in States : Priority(s) >= Priority(s)
  BY PriorityType
<1>3. ASSUME Known(c), trust[Id(c)] # None
      PROVE  Priority(trust'[Id(c)].state) >= Priority(trust[Id(c)].state)
  <2>1. Id(c) \in ContactIds /\ trust[Id(c)].state \in States
    BY <1>3, KnownContact DEF TypeOK, TrustRow
  <2>2. CASE Id(c) = i
    <3>1. trust'[i].state = MergeState(trust[i].state, state)
      BY <1>1, <1>3, <2>2 DEF Promote, PromoteTrust, TypeOK
    <3>. QED
      BY <1>1, <2>1, <2>2, <3>1, GraverStays
  <2>3. CASE Id(c) # i
    <3>1. trust'[Id(c)] = trust[Id(c)]
      BY <2>1, <2>3 DEF Promote, PromoteTrust, TypeOK
    <3>. QED
      BY <1>2, <2>1, <3>1
  <2>. QED
    BY <2>2, <2>3
<1>4. ASSUME runtime[c] # None
      PROVE  Priority(runtime'[c].state) >= Priority(runtime[c].state)
  <2>1. runtime[c].state \in States
    BY <1>4 DEF TypeOK, DatedRow
  <2>2. CASE c = d
    <3>1. runtime'[c].state = MergeState(runtime[c].state, state)
      BY <1>4, <2>2 DEF Promote, PromoteRuntime, TypeOK
    <3>. QED
      BY <1>1, <2>1, <3>1, GraverStays
  <2>3. CASE c # d
    <3>1. runtime'[c] = runtime[c]
      BY <2>3 DEF Promote, PromoteRuntime, TypeOK
    <3>. QED
      BY <1>2, <2>1, <3>1
  <2>. QED
    BY <2>2, <2>3
<1>. QED
  BY <1>3, <1>4 DEF NotSoftened

LEMMA DecisionKeeps ==
    ASSUME TypeOK, NEW c \in Peers, NEW p \in Commands, CommitTrust(p)
    PROVE  NotSoftened(c)
<1>. DEFINE d == command[p].peer
<1>1. d \in Peers /\ Known(d) /\ Id(d) \in ContactIds
  BY DecisionRow, KnownContact
<1>2. trust'[Id(d)].state = TrustOf(d).state
  BY <1>1, DecisionRow DEF Decided, TypeOK
<1>3. ASSUME Known(c), trust[Id(c)] # None
      PROVE  trust'[Id(c)].state = trust[Id(c)].state
  <2>1. CASE Id(c) = Id(d)
    BY <1>2, <1>3, <2>1 DEF TrustOf
  <2>2. CASE Id(c) # Id(d)
    BY <1>3, <2>2, KnownContact DEF CommitTrust, TypeOK
  <2>. QED
    BY <2>1, <2>2
<1>. QED
  BY <1>3, StatesKept DEF CommitTrust

\* A verdict of an inspection is not softened by what a command read before it.
THEOREM VerdictsStay == Spec => VerdictKept
<1>. DEFINE Inspected == \E p \in Commands : CommitImport(p) \/ CommitRefresh(p)
            Step == \A c \in Peers : NotSoftened(c) \/ Inspected
<1>1. TypeOK /\ IdsDistinct /\ [Next]_vars => [Step]_vars
  <2>. SUFFICES ASSUME TypeOK, IdsDistinct, Next, NEW c \in Peers, ~Inspected
                PROVE  NotSoftened(c)
    OBVIOUS
  <2>1. CASE Tick
    BY <2>1, StatesKept DEF Tick
  <2>2. ASSUME NEW d \in Peers, AtOnce(d) PROVE NotSoftened(c)
    <3>1. CASE Remove(d)
      <4>1. ASSUME Known(c), Known(c)' PROVE trust'[Id(c)] = trust[Id(c)]
        <5>1. c # d
          BY <3>1, <4>1 DEF Remove, TypeOK, Known
        <5>2. Id(c) # Id(d)
          BY <3>1, <4>1, <5>1 DEF Remove, IdsDistinct
        <5>. QED
          BY <3>1, <4>1, <5>2, KnownContact DEF Remove, TypeOK
      <4>. QED
        BY <3>1, <4>1, StatesKept DEF Remove
    <3>2. CASE ~Remove(d)
      BY <2>2, <3>2, StatesKept DEF AtOnce, ImportCard, MessageArrives, Discover, Note
    <3>. QED
      BY <3>1, <3>2
  <2>3. ASSUME NEW p \in Commands, Commit(p) PROVE NotSoftened(c)
    BY <2>3, PromoteKeeps, DecisionKeeps DEF Commit
  <2>4. ASSUME NEW p \in Commands, Fail(p) PROVE NotSoftened(c)
    BY <2>4, StatesKept DEF Fail
  <2>5. ASSUME NEW p \in Commands, NEW d \in Peers, Begin(p, d) PROVE NotSoftened(c)
    BY <2>5, StatesKept DEF Begin, BeginTrust, BeginImport, BeginRefresh, BeginConnect
  <2>. QED
    BY <2>1, <2>2, <2>3, <2>4, <2>5 DEF Next
<1>2. [Step]_vars <=> [\A c \in Peers :
         \/ /\ Known(c) /\ Known(c)' /\ trust[Id(c)] # None =>
                 Priority(trust'[Id(c)].state) >= Priority(trust[Id(c)].state)
            /\ runtime[c] # None =>
                 Priority(runtime'[c].state) >= Priority(runtime[c].state)
         \/ \E p \in Commands : CommitImport(p) \/ CommitRefresh(p)]_vars
  BY DEF NotSoftened
<1>. QED
  BY <1>1, <1>2, TypeCorrect, IdsStay, PTL DEF Spec, VerdictKept

-----------------------------------------------------------------------------
(* What is shown. *)

\* What a connection writes leaves the profile it has read in force.
LEMMA ProfileKept ==
    ASSUME TypeOK, NEW p \in Commands, NEW c \in Peers, Promote(p),
           command[p].peer = c, command[p].seen = Profile(c)
    PROVE  Profile(c)' \in {command[p].seen,
                            [command[p].seen EXCEPT !.state = Normalized(@)]}
<1>. DEFINE seen == command[p].seen
            decided == command[p].decided
            state == Normalized(seen.state)
<1>1. seen \in TrustRow /\ latest' = latest
  BY PromoteType DEF Connects, Promote
<1>2. seen = [level |-> seen.level, risk |-> seen.risk, state |-> seen.state]
  BY <1>1 DEF TrustRow
<1>3. [seen EXCEPT !.state = Normalized(@)] =
         [level |-> seen.level, risk |-> seen.risk, state |-> state]
  BY <1>2
<1>4. CASE runtime[c] = None
  <2>1. runtime'[c] = [level |-> seen.level, risk |-> seen.risk, state |-> state,
                       decided |-> decided]
    BY <1>1, <1>4 DEF Promote, PromoteRuntime, TypeOK
  <2>2. runtime'[c] # None
    <3>1. state \in States /\ decided \in Instants
      BY <1>1, PromoteType, NormalizedType DEF Connects, TrustRow, States
    <3>. QED
      BY <1>1, <2>1, <3>1, RowsAssumption DEF TrustRow, DatedRow
  <2>3. CASE UsesEvent(c)'
    <3>1. UsesEvent(c)
      BY <1>1, <1>4, <2>3 DEF UsesEvent
    <3>. QED
      BY <1>1, <2>3, <3>1 DEF Profile
  <2>4. CASE ~UsesEvent(c)'
    <3>1. Profile(c)' = Summary(runtime'[c])
      BY <2>2, <2>4 DEF Profile, Summary
    <3>. QED
      BY <1>3, <2>1, <3>1 DEF Summary
  <2>. QED
    BY <2>3, <2>4
<1>5. CASE runtime[c] # None
  <2>. DEFINE old == runtime[c]
  <2>1. old \in DatedRow
    BY <1>1, <1>5 DEF TypeOK
  <2>2. runtime'[c] = [level |-> MergeLevel(old.level, seen.level),
                       risk |-> IF seen.risk = {} THEN old.risk ELSE seen.risk,
                       state |-> MergeState(old.state, state),
                       decided |-> old.decided]
    BY <1>1, <1>5 DEF Promote, PromoteRuntime, TypeOK
  <2>3. runtime'[c] # None
    <3>1. state \in States
      BY <1>1, NormalizedType DEF TrustRow, States
    <3>2. [level |-> MergeLevel(old.level, seen.level),
           risk |-> IF seen.risk = {} THEN old.risk ELSE seen.risk,
           state |-> MergeState(old.state, state),
           decided |-> old.decided] \in DatedRow
      BY <1>1, <2>1, <3>1, MergeTypes DEF TrustRow, DatedRow
    <3>. QED
      BY <2>2, <3>2, RowsAssumption
  <2>4. UsesEvent(c)' = UsesEvent(c)
    BY <1>1, <1>5, <2>2, <2>3 DEF UsesEvent
  <2>5. CASE UsesEvent(c)
    BY <1>1, <2>4, <2>5 DEF Profile
  <2>6. CASE ~UsesEvent(c)
    <3>1. /\ seen.level = old.level /\ seen.risk = old.risk /\ seen.state = old.state
      BY <1>5, <2>6 DEF Profile, Summary
    <3>2. Profile(c)' = Summary(runtime'[c])
      BY <2>3, <2>4, <2>6 DEF Profile, Summary
    <3>3. MergeState(old.state, Normalized(old.state)) = Normalized(old.state)
      <4>1. \A s \in States : Priority(s) \in Int
        BY PriorityType
      <4>2. Priority("imported") = 0 /\ Priority("discovered") = 1
        BY DEF Priority
      <4>. QED
        BY <2>1, <4>1, <4>2 DEF MergeState, Normalized, DatedRow
    <3>4. Summary(runtime'[c]) = [level |-> seen.level, risk |-> seen.risk, state |-> state]
      BY <2>2, <3>1, <3>3 DEF Summary, MergeLevel
    <3>. QED
      BY <1>3, <3>2, <3>4
  <2>. QED
    BY <2>5, <2>6
<1>. QED
  BY <1>4, <1>5

\* Connecting to a peer does not change what is shown of it, whatever was
\* written between reading the profile and the transaction.
THEOREM ConnectionsKeepProfile == Spec => ConnectKeepsProfile
<1>. DEFINE Step == \A p \in Commands, c \in Peers :
                       Promote(p) /\ command[p].peer = c /\ command[p].seen = Profile(c) =>
                         Profile(c)' \in {command[p].seen,
                                          [command[p].seen EXCEPT !.state = Normalized(@)]}
<1>1. TypeOK /\ [Next]_vars => [Step]_vars
  BY ProfileKept
<1>. QED
  BY <1>1, TypeCorrect, PTL DEF Spec, ConnectKeepsProfile

\* What a step says of a decision that is shown: it is still shown, another
\* decision is, or it is displaced.
Stays(c) ==
    \/ UsesEvent(c)' /\ latest'[c] = latest[c]
    \/ /\ UsesEvent(c)'
       /\ \E p \in Commands : /\ CommitTrust(p) /\ command[p].peer = c
                             /\ command[p].at >= latest[c].decided
    \/ Displaced(c)

\* The rows that say what is shown are left alone.
LEMMA SameRows ==
    ASSUME NEW c \in Peers, UsesEvent(c), latest'[c] = latest[c], runtime'[c] = runtime[c]
    PROVE  Stays(c)
  BY DEF Stays, UsesEvent

LEMMA DecisionReplaced ==
    ASSUME TypeOK, NEW p \in Commands, NEW c \in Peers, CommitTrust(p), UsesEvent(c)
    PROVE  Stays(c)
<1>. DEFINE d == command[p].peer
<1>1. d \in Peers /\ runtime' = runtime
  BY DecisionRow DEF CommitTrust
<1>2. PICK row \in TrustRow, event \in DatedRow : Decided(p, row, event)
  BY DecisionRow
<1>3. PICK e \in LatestOf(latest[d], event) : latest' = [latest EXCEPT ![d] = e]
  BY <1>2 DEF Decided
<1>4. CASE c # d
  BY <1>1, <1>3, <1>4, SameRows DEF TypeOK
<1>5. CASE c = d
  <2>1. latest'[c] = e
    BY <1>1, <1>3, <1>5 DEF TypeOK
  <2>2. CASE e = latest[c]
    BY <1>1, <2>1, <2>2, SameRows
  <2>3. CASE e # latest[c]
    <3>1. e = event /\ event.decided >= latest[c].decided /\ event.decided = command[p].at
      BY <1>2, <1>3, <1>5, <2>3 DEF LatestOf, Decided, UsesEvent, TypeOK, DatedRow, Instants
    <3>2. e # None /\ e.decided \in Int /\ latest[c].decided \in Int
      BY <3>1, RowsAssumption DEF DatedRow, Instants, UsesEvent, TypeOK
    <3>3. runtime[c] # None => runtime[c].decided \in Int
      BY DEF TypeOK, DatedRow, Instants
    <3>4. UsesEvent(c)'
      BY <1>1, <2>1, <3>1, <3>2, <3>3 DEF UsesEvent
    <3>. QED
      BY <1>5, <3>1, <3>4 DEF Stays
  <2>. QED
    BY <2>2, <2>3
<1>. QED
  BY <1>4, <1>5

\* An inspection of an identity dates that identity's runtime row.
LEMMA InspectionShown ==
    ASSUME TypeOK, NEW p \in Commands, NEW c \in Peers, NEW d \in Peers,
           NEW i \in ContactIds, NEW verdict \in Verdicts, UsesEvent(c),
           CommitImport(p) \/ CommitRefresh(p), SaveInspection(p, i, d, verdict),
           command[p] \in Inspections
    PROVE  Stays(c)
<1>1. latest' = latest /\ PutRuntimeState(d, verdict, command[p].at)
  BY DEF SaveInspection
<1>2. CASE c # d
  BY <1>1, <1>2, SameRows DEF PutRuntimeState, TypeOK
<1>3. CASE c = d
  <2>1. command[p].at \in Int /\ latest[c] # None /\ latest[c].decided \in Int
    BY DEF Inspections, Instants, UsesEvent, TypeOK, DatedRow
  <2>2. runtime'[c].decided = command[p].at
    BY <1>1, <1>3 DEF PutRuntimeState, TypeOK, DatedRow
  <2>3. CASE command[p].at > latest[c].decided
    <3>1. runtime'[c] # runtime[c]
      <4>1. runtime'[c] # None
        <5>. DEFINE at == command[p].at
        <5>1. at \in Instants /\ verdict \in States
          BY DEF Inspections, States
        <5>2. [level |-> "unknown", risk |-> {}, state |-> verdict, decided |-> at] \in DatedRow
          BY <5>1, BookAssumption DEF DatedRow
        <5>3. \A r \in DatedRow : [r EXCEPT !.state = verdict, !.decided = at] \in DatedRow
          BY <5>1 DEF DatedRow
        <5>4. runtime'[c] \in DatedRow
          BY <1>1, <1>3, <5>2, <5>3 DEF PutRuntimeState, TypeOK
        <5>. QED
          BY <5>4, RowsAssumption
      <4>2. runtime[c] # None => runtime[c].decided # command[p].at
        BY <2>1, <2>3 DEF UsesEvent, TypeOK, DatedRow, Instants
      <4>. QED
        BY <2>2, <4>1, <4>2
    <3>. QED
      BY <2>3, <3>1 DEF Stays, Displaced
  <2>4. CASE ~(command[p].at > latest[c].decided)
    BY <1>1, <2>1, <2>2, <2>4 DEF Stays, UsesEvent
  <2>. QED
    BY <2>3, <2>4
<1>. QED
  BY <1>2, <1>3

\* A connection that makes the runtime row dates it with what it has read; one
\* that finds it leaves its date.
LEMMA ConnectionShown ==
    ASSUME TypeOK, NEW p \in Commands, NEW c \in Peers, Promote(p), UsesEvent(c)
    PROVE  Stays(c)
<1>. DEFINE d == command[p].peer
<1>1. latest' = latest /\ PromoteRuntime(d, command[p].seen, command[p].decided)
  BY DEF Promote
<1>2. d \in Peers /\ command[p].decided \in Int /\ latest[c].decided \in Int
  BY PromoteType DEF Connects, Instants, UsesEvent, TypeOK, DatedRow
<1>3. CASE c # d
  BY <1>1, <1>3, SameRows DEF PromoteRuntime, TypeOK
<1>4. CASE c = d /\ runtime[c] = None
  <2>1. runtime'[c].decided = command[p].decided
    BY <1>1, <1>4 DEF PromoteRuntime, TypeOK
  <2>2. CASE command[p].decided > latest[c].decided
    BY <1>4, <2>2 DEF Stays, Displaced
  <2>3. CASE ~(command[p].decided > latest[c].decided)
    BY <1>1, <1>2, <2>1, <2>3 DEF Stays, UsesEvent
  <2>. QED
    BY <2>2, <2>3
<1>5. CASE c = d /\ runtime[c] # None
  <2>1. runtime'[c].decided = runtime[c].decided
    BY <1>1, <1>5 DEF PromoteRuntime, TypeOK
  <2>. QED
    BY <1>1, <1>5, <2>1 DEF Stays, UsesEvent
<1>. QED
  BY <1>3, <1>4, <1>5

\* A decision that is shown stays shown until the user decides anew, or a later
\* inspection or the first connection dates the runtime row after it.
THEOREM DecisionsStay == Spec => DecisionStays
<1>. DEFINE Step == \A c \in Peers : UsesEvent(c) => Stays(c)
<1>1. TypeOK /\ [Next]_vars => [Step]_vars
  <2>. SUFFICES ASSUME TypeOK, Next, NEW c \in Peers, UsesEvent(c)
                PROVE  Stays(c)
    OBVIOUS
  <2>1. CASE Tick
    BY <2>1, SameRows DEF Tick
  <2>2. ASSUME NEW d \in Peers, AtOnce(d) PROVE Stays(c)
    BY <2>2, SameRows DEF AtOnce, ImportCard, MessageArrives, Discover, Note, Remove
  <2>3. ASSUME NEW p \in Commands, Commit(p) PROVE Stays(c)
    <3>1. CASE CommitTrust(p)
      BY <3>1, DecisionReplaced
    <3>2. CASE CommitImport(p)
      <4>. DEFINE d == command[p].peer
      <4>1. command[p] \in Inspections /\ d \in Peers /\ contacts'[d].id \in ContactIds
        BY <3>2, ImportType DEF Inspections, Put, Contact
      <4>2. PICK verdict \in Outcomes : SaveInspection(p, contacts'[d].id, d, verdict)
        BY <3>2 DEF CommitImport
      <4>3. verdict \in Verdicts
        BY BookAssumption DEF Verdicts
      <4>. QED
        BY <3>2, <4>1, <4>2, <4>3, InspectionShown
    <3>3. CASE CommitRefresh(p)
      <4>. DEFINE d == command[p].peer
      <4>1. PICK verdict \in Verdicts, found \in Peers : Refreshed(p, verdict, found)
        BY <3>3, RefreshType
      <4>2. command[p] \in Inspections /\ Id(d) \in ContactIds
        BY <3>3, <4>1, RefreshType, KnownContact DEF Refreshed
      <4>. QED
        BY <3>3, <4>1, <4>2, InspectionShown DEF Refreshed
    <3>4. CASE Promote(p)
      BY <3>4, ConnectionShown
    <3>. QED
      BY <2>3, <3>1, <3>2, <3>3, <3>4 DEF Commit
  <2>4. ASSUME NEW p \in Commands, Fail(p) PROVE Stays(c)
    BY <2>4, SameRows DEF Fail
  <2>5. ASSUME NEW p \in Commands, NEW d \in Peers, Begin(p, d) PROVE Stays(c)
    BY <2>5, SameRows DEF Begin, BeginTrust, BeginImport, BeginRefresh, BeginConnect
  <2>. QED
    BY <2>1, <2>2, <2>3, <2>4, <2>5 DEF Next
<1>2. [Step]_vars <=> [\A c \in Peers :
         UsesEvent(c) =>
           \/ UsesEvent(c)' /\ latest'[c] = latest[c]
           \/ /\ UsesEvent(c)'
              /\ \E p \in Commands : /\ CommitTrust(p) /\ command[p].peer = c
                                    /\ command[p].at >= latest[c].decided
           \/ Displaced(c)]_vars
  BY DEF Stays
<1>. QED
  BY <1>1, <1>2, TypeCorrect, PTL DEF Spec, DecisionStays
=============================================================================
