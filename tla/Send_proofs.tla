----------------------------- MODULE Send_proofs -----------------------------
(***************************************************************************)
(* Proofs about the sending side, for any number of messages, contacts,    *)
(* relays, keys and mailboxes.                                             *)
(***************************************************************************)
EXTENDS Send, SequenceTheorems, TLAPS

-----------------------------------------------------------------------------
(* Statuses. *)

LEMMA NormalStatus ==
    \A s \in MessageStatuses \cup {NoStatus} : NormalizeMessageStatus(s) = s
<1>1. DOMAIN StatusAliases = {"deferred", "recoverable", "syncing",
                              "recovering_async", "received", "synced"}
  BY DEF StatusAliases
<1>. QED
  BY <1>1 DEF NormalizeMessageStatus, MessageStatuses, NoStatus

LEMMA MergeFirst == MergeMessageStatus(NoStatus, "pending") = "pending"
  BY NormalStatus DEF MergeMessageStatus, MessageStatuses

LEMMA MergeOutcome ==
    ASSUME NEW s \in {"queued", "delivered", "failed"}
    PROVE  MergeMessageStatus("pending", s) = s
<1>1. s \in StatusSuccessors["pending"]
  BY DEF StatusSuccessors
<1>2. /\ NormalizeMessageStatus("pending") = "pending"
      /\ NormalizeMessageStatus(s) = s
  BY NormalStatus DEF MessageStatuses
<1>3. CanTransitionMessageStatus("pending", s)
  BY <1>1, <1>2 DEF CanTransitionMessageStatus
<1>. QED
  BY <1>2, <1>3 DEF MergeMessageStatus, NoStatus

LEMMA MergeType ==
    ASSUME NEW from \in MessageStatuses \cup {NoStatus},
           NEW to \in MessageStatuses
    PROVE  MergeMessageStatus(from, to) \in MessageStatuses
  BY NormalStatus DEF MergeMessageStatus, MessageStatuses, NoStatus

-----------------------------------------------------------------------------
(* Routes. *)

\* What a group of routes of a message can be.
Groups(m) ==
    {{Direct}} \cup (SUBSET NostrRoutes) \cup
    {{b} : b \in Members(MailboxesOf[ConvOf[m]])}

LEMMA GroupKinds ==
    ASSUME NEW m \in Msgs, NEW g
    PROVE  g \in Groups(m) <=>
              \/ g = {Direct}
              \/ g \subseteq NostrRoutes
              \/ \E b \in Members(MailboxesOf[ConvOf[m]]) : g = {b}
<1>. DEFINE B == Members(MailboxesOf[ConvOf[m]])
            nostr == SUBSET NostrRoutes
            boxes == {{b} : b \in B}
<1>1. g \in boxes <=> \E b \in B : g = {b}
  OBVIOUS
<1>2. g \in nostr <=> g \subseteq NostrRoutes
  OBVIOUS
<1>3. Groups(m) = {{Direct}} \cup nostr \cup boxes
  BY Zenon DEF Groups
<1>. HIDE DEF nostr, boxes
<1>4. g \in Groups(m) <=> g = {Direct} \/ g \in nostr \/ g \in boxes
  BY <1>3
<1>. QED
  BY <1>1, <1>2, <1>4 DEF B

LEMMA PlanType ==
    ASSUME NEW m \in Msgs
    PROVE  Plan(m) \in Seq(Groups(m))
<1>. DEFINE c == ConvOf[m]
            boxes == [i \in DOMAIN MailboxesOf[c] |-> {MailboxesOf[c][i]}]
            nostr == IF NostrRoutesOf(m) # {} THEN <<NostrRoutesOf(m)>> ELSE <<>>
            direct == IF c \in Dialable THEN <<{Direct}>> ELSE <<>>
<1>1. MailboxesOf[c] \in Seq(Mailboxes)
  BY ContactsAssumption
<1>2. boxes \in Seq(Groups(m))
  <2>1. DOMAIN MailboxesOf[c] = 1 .. Len(MailboxesOf[c]) /\ Len(MailboxesOf[c]) \in Nat
    BY <1>1, LenProperties
  <2>2. \A i \in DOMAIN MailboxesOf[c] : {MailboxesOf[c][i]} \in Groups(m)
    <3>. TAKE i \in DOMAIN MailboxesOf[c]
    <3>1. MailboxesOf[c][i] \in Members(MailboxesOf[c])
      BY DEF Members
    <3>. QED
      BY <3>1, GroupKinds
  <2>3. boxes \in [1 .. Len(MailboxesOf[c]) -> Groups(m)]
    BY <2>1, <2>2
  <2>. HIDE DEF boxes
  <2>. QED
    BY <2>1, <2>3
<1>3. nostr \in Seq(Groups(m))
  <2>1. NostrRoutesOf(m) \in Groups(m)
    BY DEF NostrRoutesOf, Groups
  <2>. QED
    BY <2>1
<1>4. direct \in Seq(Groups(m))
  <2>1. {Direct} \in Groups(m)
    BY DEF Groups
  <2>. QED
    BY <2>1
<1>5. Plan(m) = direct \o nostr \o boxes
  BY DEF Plan
<1>. HIDE DEF boxes, nostr, direct
<1>6. direct \o nostr \in Seq(Groups(m))
  BY <1>3, <1>4, ConcatProperties
<1>. QED
  BY <1>2, <1>5, <1>6, ConcatProperties

LEMMA BoxType ==
    ASSUME NEW m \in Msgs
    PROVE  /\ Members(MailboxesOf[ConvOf[m]]) \subseteq Mailboxes
           /\ Members(MailboxesOf[ConvOf[m]]) # {} =>
                 MailboxesOf[ConvOf[m]][1] \in Mailboxes
<1>1. MailboxesOf[ConvOf[m]] \in Seq(Mailboxes)
  BY ContactsAssumption
<1>. QED
  BY <1>1 DEF Members

LEMMA RoutesOfGroups ==
    ASSUME NEW m \in Msgs
    PROVE  UNION Groups(m) \subseteq Routes
<1>. SUFFICES ASSUME NEW g \in Groups(m) PROVE g \subseteq Routes
  BY Zenon
<1>. QED
  BY GroupKinds, BoxType DEF Routes

LEMMA GroupType ==
    ASSUME NEW m \in Msgs, job[m].at \in DOMAIN Plan(m)
    PROVE  Group(m) \in Groups(m) /\ Group(m) \subseteq Routes
<1>1. Group(m) \in Groups(m)
  BY PlanType, LenProperties, ElementOfSeq DEF Group
<1>. QED
  BY <1>1, RoutesOfGroups

\* A mailbox is a group of its own.
LEMMA BoxAlone ==
    ASSUME NEW m \in Msgs, NEW g \in Groups(m), NEW b \in g, b \in Mailboxes
    PROVE  g = {b}
<1>1. g # {Direct} /\ ~(g \subseteq NostrRoutes)
  BY RoutesAssumption
<1>. QED
  BY <1>1, GroupKinds

LEMMA DestinationType ==
    ASSUME NEW m \in Msgs, NEW r \in UNION Groups(m)
    PROVE  /\ Destination(m, r) \in Routes
           /\ (r \in Mailboxes <=> Destination(m, r) \in Mailboxes)
           /\ r \notin Mailboxes => Destination(m, r) = r
<1>1. CASE r \in Mailboxes
  <2>1. r \in Members(MailboxesOf[ConvOf[m]])
    <3>1. PICK g \in Groups(m) : r \in g
      BY Zenon
    <3>2. g # {Direct} /\ ~(g \subseteq NostrRoutes)
      BY <1>1, <3>1, RoutesAssumption
    <3>. QED
      BY <3>1, <3>2, GroupKinds
  <2>. QED
    BY <1>1, <2>1, BoxType DEF Destination, Routes
<1>2. CASE r \notin Mailboxes
  BY <1>2, RoutesOfGroups DEF Destination
<1>. QED
  BY <1>1, <1>2

\* The routes are a function of the last successful route read at the start.
LEMMA PlanSame ==
    ASSUME NEW m \in Msgs, job'[m].recent = job[m].recent
    PROVE  Plan(m)' = Plan(m)
  BY DEF Plan, NostrRoutesOf, RecentKey

-----------------------------------------------------------------------------
(* Types. *)

Calling == {"send", "update", "record"}

\* A job that m may go on with.
NextJobOK(m, j) ==
    /\ j \in Jobs
    /\ j.pc \in Calling => j.recent = job[m].recent /\ j.at \in DOMAIN Plan(m)

LEMMA JobType ==
    ASSUME TypeOK, NEW m \in Msgs
    PROVE  /\ job[m] \in Jobs
           /\ job[m].pc \in Calling => /\ job[m].at \in DOMAIN Plan(m)
                                       /\ Group(m) \subseteq Routes
                                       /\ Group(m) \in Groups(m)
  BY GroupType DEF TypeOK, Calling

LEMMA JobsNext ==
    ASSUME TypeOK, NEW m \in Msgs, NEW j, NextJobOK(m, j),
           job' = [job EXCEPT ![m] = j]
    PROVE  /\ job' \in [Msgs -> Jobs]
           /\ \A n \in Msgs : job'[n].pc \in Calling => job'[n].at \in DOMAIN Plan(n)'
<1>1. job \in [Msgs -> Jobs]
  BY DEF TypeOK
<1>2. job' \in [Msgs -> Jobs]
  BY <1>1 DEF NextJobOK
<1>3. ASSUME NEW n \in Msgs, job'[n].pc \in Calling
      PROVE  job'[n].at \in DOMAIN Plan(n)'
  <2>1. CASE n = m
    <3>1. job'[n] = j
      BY <1>1, <2>1
    <3>2. j.recent = job[m].recent /\ j.at \in DOMAIN Plan(m)
      BY <1>3, <3>1 DEF NextJobOK
    <3>. QED
      BY <2>1, <3>1, <3>2, PlanSame
  <2>2. CASE n # m
    <3>1. job'[n] = job[n]
      BY <1>1, <2>2
    <3>2. job[n].at \in DOMAIN Plan(n)
      BY <1>3, <3>1 DEF TypeOK, Calling
    <3>. QED
      BY <3>1, <3>2, PlanSame
  <2>. QED
    BY <2>1, <2>2
<1>. QED
  BY <1>2, <1>3

\* The rest of TypeOK.
TablesOK ==
    /\ taken \subseteq (Msgs \X Routes)
    /\ flying \subseteq (Msgs \X Routes)
    /\ status \in [Msgs -> MessageStatuses \cup {NoStatus}]
    /\ conv \in [Convs -> Conversations]
    /\ rtStatus \in [Msgs -> MessageStatuses \cup {NoStatus}]
    /\ rtRoute \in [Msgs -> Routes \cup {None}]
    /\ rtConv \in [Convs -> Conversations]
    /\ lastRoute \in [Convs -> NostrRoutes \cup {None}]
    /\ attempts \subseteq Attempts
    /\ incoming \in [conv : Convs \cup {None}, unread : Nat]
    /\ (incoming # NoIncoming => incoming.conv \in Convs)
    /\ reader \in Convs \cup {None}

LEMMA TypeParts ==
    TypeOK <=> /\ TablesOK
               /\ job \in [Msgs -> Jobs]
               /\ \A m \in Msgs : job[m].pc \in Calling => job[m].at \in DOMAIN Plan(m)
  BY DEF TypeOK, TablesOK, Calling

LEMMA TypeNext ==
    ASSUME TablesOK', job' \in [Msgs -> Jobs],
           \A m \in Msgs : job'[m].pc \in Calling => job'[m].at \in DOMAIN Plan(m)'
    PROVE  TypeOK'
  BY DEF TypeOK, TablesOK, Calling

\* A step that leaves the jobs alone.
LEMMA TypeSame ==
    ASSUME TypeOK, TablesOK', job' = job
    PROVE  TypeOK'
<1>1. \A m \in Msgs : Plan(m)' = Plan(m)
  BY PlanSame
<1>. QED
  BY <1>1, TypeParts, TypeNext

LEMMA StatusViaType ==
    \A r : StatusVia(r) \in {"queued", "delivered"} /\ StatusVia(r) \in MessageStatuses
  BY DEF StatusVia, MessageStatuses

LEMMA SettledOK ==
    ASSUME NEW m \in Msgs, job[m] \in Jobs,
           NEW outcome \in MessageStatuses, NEW r \in Routes \cup {None}
    PROVE  NextJobOK(m, Settled(m, outcome, r))
  BY DEF NextJobOK, Settled, Jobs, Phases, Calling

LEMMA TryGroupOK ==
    ASSUME NEW m \in Msgs, job[m] \in Jobs, NEW i \in Nat
    PROVE  NextJobOK(m, TryGroup(m, i))
<1>1. CASE i \in DOMAIN Plan(m)
  BY <1>1 DEF NextJobOK, TryGroup, Jobs, Phases, Calling
<1>2. CASE i \notin DOMAIN Plan(m)
  <2>1. TryGroup(m, i) = Settled(m, "failed", None)
    BY <1>2 DEF TryGroup
  <2>. QED
    BY <2>1, SettledOK DEF MessageStatuses
<1>. QED
  BY <1>1, <1>2

LEMMA AnsweredOK ==
    ASSUME TypeOK, NEW m \in Msgs, job[m].pc \in Calling,
           NEW r \in Routes, NEW ok \in BOOLEAN
    PROVE  NextJobOK(m, Answered(m, r, ok))
<1>. DEFINE j == job[m]
            a == j.accepted \cup (IF ok THEN {r} ELSE {})
            f == j.refused \cup (IF ok THEN {} ELSE {r})
            pc == IF Open(m) = {r} THEN "record" ELSE "send"
<1>1. j \in Jobs /\ j.at \in DOMAIN Plan(m)
  BY JobType
<1>2. a \in SUBSET Routes /\ f \in SUBSET Routes /\ pc \in {"record", "send"}
  BY <1>1 DEF Jobs
<1>3. Answered(m, r, ok) = [j EXCEPT !.pc = pc, !.accepted = a, !.refused = f]
  BY DEF Answered
<1>. HIDE DEF a, f, pc
<1>. QED
  BY <1>1, <1>2, <1>3 DEF NextJobOK, Jobs, Phases, Calling

LEMMA AfterCallOK ==
    ASSUME TypeOK, NEW m \in Msgs, job[m].pc \in Calling,
           NEW r \in Routes, NEW ok \in BOOLEAN
    PROVE  NextJobOK(m, AfterCall(m, r, ok))
<1>1. CASE r \in Mailboxes
  <2>1. AfterCall(m, r, ok) = [job[m] EXCEPT !.pc = "update", !.reply = ok]
    BY <1>1 DEF AfterCall
  <2>2. job[m] \in Jobs /\ job[m].at \in DOMAIN Plan(m)
    BY JobType
  <2>. QED
    BY <2>1, <2>2 DEF NextJobOK, Jobs, Phases, Calling
<1>2. CASE r \notin Mailboxes
  BY <1>2, AnsweredOK DEF AfterCall
<1>. QED
  BY <1>1, <1>2

\* A step of a job that only moves on.
LEMMA MovesOK ==
    ASSUME TypeOK, NEW m \in Msgs, NEW pc \in Phases \ Calling
    PROVE  NextJobOK(m, [job[m] EXCEPT !.pc = pc])
  BY JobType DEF NextJobOK, Jobs

LEMMA OpenRoutes ==
    ASSUME TypeOK, NEW m \in Msgs, job[m].pc \in Calling, NEW r \in Open(m)
    PROVE  /\ r \in Routes
           /\ r \in Group(m)
           /\ r \in UNION Groups(m)
           /\ Destination(m, r) \in Routes
<1>1. r \in Group(m) /\ Group(m) \subseteq Routes /\ Group(m) \in Groups(m)
  BY JobType DEF Open
<1>. QED
  BY <1>1, DestinationType

LEMMA TypeInit == Init => TypeOK
  BY ContactsAssumption DEF Init, TypeOK, IdleJob, Jobs, Phases, Conversations,
     NewConversation, NoIncoming, MessageStatuses, Attempts

LEMMA TypeRows ==
    ASSUME TypeOK, NEW m \in Msgs,
           \/ Begin(m) \/ LoadContact(m) \/ SaveContact(m)
           \/ SaveConversation(m) \/ SaveMessage(m)
    PROVE  TypeOK'
<1>0. TablesOK /\ job \in [Msgs -> Jobs] /\ job[m] \in Jobs /\ ConvOf[m] \in Convs
  BY TypeParts, ContactsAssumption
<1>1. CASE Begin(m)
  <2>. DEFINE snapshot == [unread |-> conv[ConvOf[m]].unread, last |-> m]
              j == [job[m] EXCEPT !.pc = "load", !.conv = snapshot]
  <2>1. snapshot \in Conversations
    BY <1>0 DEF Conversations, TablesOK
  <2>2. NextJobOK(m, j)
    BY <1>0, <2>1 DEF NextJobOK, Jobs, Phases, Calling
  <2>3. job' = [job EXCEPT ![m] = j]
    BY <1>0, <1>1 DEF Begin
  <2>. HIDE DEF snapshot, j
  <2>4. TablesOK'
    BY <1>0, <1>1, <2>1 DEF Begin, TablesOK, MessageStatuses, messageRows, contactRows, otherVars, snapshot
  <2>. QED
    BY <2>2, <2>3, <2>4, JobsNext, TypeNext
<1>2. CASE LoadContact(m)
  <2>. DEFINE j == [job[m] EXCEPT !.pc = "contact", !.recent = lastRoute[ConvOf[m]]]
  <2>1. NextJobOK(m, j)
    BY <1>0 DEF NextJobOK, Jobs, Phases, Calling, TablesOK
  <2>2. job' = [job EXCEPT ![m] = j]
    BY <1>0, <1>2 DEF LoadContact
  <2>. HIDE DEF j
  <2>3. TablesOK'
    BY <1>0, <1>2 DEF LoadContact, TablesOK, tableVars, messageRows, contactRows, otherVars
  <2>. QED
    BY <2>1, <2>2, <2>3, JobsNext, TypeNext
<1>3. CASE SaveContact(m)
  <2>1. NextJobOK(m, [job[m] EXCEPT !.pc = "conversation"])
    BY MovesOK DEF Phases, Calling
  <2>2. job' = [job EXCEPT ![m] = [job[m] EXCEPT !.pc = "conversation"]]
    BY <1>0, <1>3 DEF SaveContact
  <2>3. LastSuccess(m) \in NostrRoutes \cup {None}
    BY <1>0 DEF LastSuccess, Jobs
  <2>4. TablesOK'
    BY <1>0, <1>3, <2>3 DEF SaveContact, TablesOK, tableVars, messageRows, otherVars
  <2>. QED
    BY <2>1, <2>2, <2>4, JobsNext, TypeNext
<1>4. CASE SaveConversation(m)
  <2>1. NextJobOK(m, [job[m] EXCEPT !.pc = "message"])
    BY MovesOK DEF Phases, Calling
  <2>2. job' = [job EXCEPT ![m] = [job[m] EXCEPT !.pc = "message"]]
    BY <1>0, <1>4 DEF SaveConversation
  <2>3. job[m].conv \in Conversations
    BY <1>0 DEF Jobs
  <2>4. TablesOK'
    BY <1>0, <1>4, <2>3 DEF SaveConversation, TablesOK, tableVars, messageRows, otherVars
  <2>. QED
    BY <2>1, <2>2, <2>4, JobsNext, TypeNext
<1>5. CASE SaveMessage(m)
  <2>1. NextJobOK(m, [job[m] EXCEPT !.pc = AfterRows(m)])
    BY MovesOK DEF Phases, Calling, AfterRows
  <2>2. job' = [job EXCEPT ![m] = [job[m] EXCEPT !.pc = AfterRows(m)]]
    BY <1>0, <1>5 DEF SaveMessage
  <2>3. /\ job[m].status \in MessageStatuses
        /\ job[m].route \in Routes \cup {None}
        /\ rtStatus[m] \in MessageStatuses \cup {NoStatus}
    BY <1>0 DEF Jobs, TablesOK
  <2>4. MergeMessageStatus(rtStatus[m], job[m].status) \in MessageStatuses
    BY <2>3, MergeType
  <2>5. TablesOK'
    BY <1>0, <1>5, <2>3, <2>4 DEF SaveMessage, TablesOK, tableVars, contactRows, otherVars
  <2>. QED
    BY <2>1, <2>2, <2>5, JobsNext, TypeNext
<1>. QED
  BY <1>1, <1>2, <1>3, <1>4, <1>5

LEMMA TypeCalls ==
    ASSUME TypeOK, NEW m \in Msgs, NEW r \in Routes,
           Accept(m, r) \/ Refuse(m, r) \/ LoseAnswer(m, r)
    PROVE  TypeOK'
<1>0. /\ TablesOK
      /\ job[m].pc \in Calling
      /\ r \in Open(m)
  BY TypeParts DEF Accept, Refuse, LoseAnswer, Calling
<1>1. Destination(m, r) \in Routes
  BY <1>0, OpenRoutes
<1>2. NextJobOK(m, AfterCall(m, r, TRUE)) /\ NextJobOK(m, AfterCall(m, r, FALSE))
  BY <1>0, AfterCallOK
<1>3. \/ job' = [job EXCEPT ![m] = AfterCall(m, r, TRUE)]
      \/ job' = [job EXCEPT ![m] = AfterCall(m, r, FALSE)]
  BY DEF Accept, Refuse, LoseAnswer
<1>4. taken' \subseteq (Msgs \X Routes) /\ flying' \subseteq (Msgs \X Routes)
  <2>1. <<m, Destination(m, r)>> \in Msgs \X Routes
    BY <1>1
  <2>2. /\ taken' = taken \/ taken' = taken \cup {<<m, Destination(m, r)>>}
        /\ flying' = flying \/ flying' = flying \cup {<<m, Destination(m, r)>>}
    BY DEF Accept, Refuse, LoseAnswer
  <2>. QED
    BY <1>0, <2>1, <2>2 DEF TablesOK
<1>5. UNCHANGED <<status, conv, rtStatus, rtRoute, rtConv, lastRoute, attempts, incoming, reader>>
  BY DEF Accept, Refuse, LoseAnswer, tableVars, messageRows, contactRows, otherVars
<1>6. TablesOK'
  BY <1>0, <1>4, <1>5 DEF TablesOK
<1>. QED
  BY <1>2, <1>3, <1>6, JobsNext, TypeNext

LEMMA TypeUpdate ==
    ASSUME TypeOK, NEW m \in Msgs, UpdateDelivery(m) \/ UpdateFails(m)
    PROVE  TypeOK'
<1>0. TablesOK /\ job[m].pc \in Calling /\ job[m] \in Jobs
  BY TypeParts DEF UpdateDelivery, UpdateFails, Calling
<1>1. job[m].reply \in BOOLEAN
  BY <1>0 DEF Jobs
<1>2. PICK r \in Open(m), ok \in BOOLEAN : job' = [job EXCEPT ![m] = Answered(m, r, ok)]
  BY <1>1 DEF UpdateDelivery, UpdateFails
<1>3. NextJobOK(m, Answered(m, r, ok))
  BY <1>0, OpenRoutes, AnsweredOK
<1>4. TablesOK'
  BY <1>0 DEF UpdateDelivery, UpdateFails, TablesOK, MessageStatuses, tableVars,
     messageRows, contactRows, otherVars
<1>. QED
  BY <1>2, <1>3, <1>4, JobsNext, TypeNext

LEMMA TypeRecord ==
    ASSUME TypeOK, NEW m \in Msgs, RecordOutcome(m) \/ OutcomeLost(m)
    PROVE  TypeOK'
<1>0. /\ TablesOK
      /\ job \in [Msgs -> Jobs]
      /\ job[m].pc = "record"
      /\ job[m] \in Jobs
      /\ job[m].at \in DOMAIN Plan(m)
  BY TypeParts DEF RecordOutcome, OutcomeLost, Calling
<1>1. PICK r \in Unaudited(m) :
         /\ job' = [job EXCEPT ![m].audited = @ \cup {r}]
         /\ \/ attempts' = attempts \cup
                  {[msg |-> m, route |-> r, outcome |-> OutcomeOf(m, r)]}
            \/ attempts' = attempts
  BY DEF RecordOutcome, OutcomeLost
<1>2. r \in Routes
  BY <1>0 DEF Unaudited, Jobs
<1>. DEFINE j == [job[m] EXCEPT !.audited = @ \cup {r}]
<1>3. NextJobOK(m, j)
  BY <1>0, <1>2 DEF NextJobOK, Jobs
<1>4. job' = [job EXCEPT ![m] = j]
  BY <1>0, <1>1
<1>. HIDE DEF j
<1>5. OutcomeOf(m, r) \in {"delivered", "queued", "failed"}
  BY StatusViaType DEF OutcomeOf
<1>6. attempts' \subseteq Attempts
  BY <1>0, <1>1, <1>2, <1>5 DEF Attempts, TablesOK
<1>7. TablesOK'
  BY <1>0, <1>6 DEF RecordOutcome, OutcomeLost, TablesOK, tableVars, messageRows,
     contactRows, otherVars
<1>. QED
  BY <1>3, <1>4, <1>7, JobsNext, TypeNext

LEMMA TypeTurns ==
    ASSUME TypeOK, NEW m \in Msgs,
           Prepare(m) \/ PrepareFails(m) \/ Conclude(m) \/ Stop(m)
    PROVE  TypeOK'
<1>0. TablesOK /\ job \in [Msgs -> Jobs] /\ job[m] \in Jobs
  BY TypeParts
<1>1. NextJobOK(m, Settled(m, "failed", None))
  BY <1>0, SettledOK DEF MessageStatuses
<1>2. CASE Prepare(m) \/ PrepareFails(m)
  <2>1. NextJobOK(m, TryGroup(m, 1))
    BY <1>0, TryGroupOK
  <2>2. TablesOK'
    BY <1>0, <1>2 DEF Prepare, PrepareFails, TablesOK, tableVars, messageRows,
       contactRows, otherVars
  <2>. QED
    BY <1>1, <1>2, <2>1, <2>2, JobsNext, TypeNext DEF Prepare, PrepareFails
<1>3. CASE Conclude(m)
  <2>1. NextJobOK(m, TryGroup(m, job[m].at + 1))
    BY <1>0, TryGroupOK DEF Jobs
  <2>2. \A r \in job[m].accepted : NextJobOK(m, Settled(m, StatusVia(r), r))
    BY <1>0, SettledOK, StatusViaType DEF Jobs
  <2>3. TablesOK'
    BY <1>0, <1>3 DEF Conclude, TablesOK, tableVars, messageRows, contactRows, otherVars
  <2>4. \E j : NextJobOK(m, j) /\ job' = [job EXCEPT ![m] = j]
    BY <1>3, <2>1, <2>2 DEF Conclude
  <2>. QED
    BY <2>3, <2>4, JobsNext, TypeNext
<1>4. CASE Stop(m)
  <2>1. NextJobOK(m, [job[m] EXCEPT !.pc = "done"])
    BY MovesOK DEF Phases, Calling
  <2>2. job' = [job EXCEPT ![m] = [job[m] EXCEPT !.pc = "done"]]
    BY <1>0, <1>4 DEF Stop
  <2>3. job[m].pc = "send" => \A r \in Open(m) : Destination(m, r) \in Routes
    BY OpenRoutes DEF Calling
  <2>4. flying' \subseteq (Msgs \X Routes)
    BY <1>0, <1>4, <2>3 DEF Stop, TablesOK
  <2>5. TablesOK'
    BY <1>0, <1>4, <2>4 DEF Stop, TablesOK, tableVars, messageRows, contactRows, otherVars
  <2>. QED
    BY <2>1, <2>2, <2>5, JobsNext, TypeNext
<1>. QED
  BY <1>2, <1>3, <1>4

LEMMA TypeOthers ==
    ASSUME TypeOK,
           \/ \E m \in Msgs, r \in Routes : Land(m, r)
           \/ Others
           \/ OthersFail
    PROVE  TypeOK'
<1>0. TablesOK
  BY TypeParts
<1>1. job' = job
  BY DEF Land, Others, OthersFail, StoreIncoming, StoreDirect, Receive,
     ShowIncoming, MarkRuntimeRead, MarkLegacyRead
<1>3. CASE \E m \in Msgs, r \in Routes : Land(m, r)
  <2>1. TablesOK'
    BY <1>0, <1>3 DEF Land, TablesOK, tableVars, messageRows, contactRows, otherVars
  <2>. QED
    BY <1>1, <2>1, TypeSame
<1>4. CASE OthersFail
  <2>1. TablesOK'
    BY <1>0, <1>4 DEF OthersFail, NoIncoming, TablesOK, tableVars, messageRows, contactRows
  <2>. QED
    BY <1>1, <2>1, TypeSame
<1>5. CASE Others
  <2>1. CASE \E c \in Convs : StoreIncoming(c) \/ StoreDirect(c)
    <3>1. PICK c \in Convs, shown \in Nat : Receive(c, shown)
      BY <1>0, <2>1 DEF StoreIncoming, StoreDirect, TablesOK, Conversations
    <3>2. conv[c].unread \in Nat
      BY <1>0 DEF TablesOK, Conversations
    <3>3. conv' \in [Convs -> Conversations]
      BY <1>0, <3>1, <3>2 DEF Receive, TablesOK, Conversations
    <3>4. TablesOK'
      BY <1>0, <3>1, <3>2, <3>3 DEF Receive, TablesOK, NoIncoming, messageRows, contactRows
    <3>. QED
      BY <1>1, <3>4, TypeSame
  <2>2. CASE ShowIncoming
    <3>1. incoming.conv \in Convs /\ incoming.unread \in Nat
      BY <1>0, <2>2 DEF ShowIncoming, TablesOK
    <3>2. rtConv' \in [Convs -> Conversations]
      BY <1>0, <2>2, <3>1 DEF ShowIncoming, TablesOK, Conversations
    <3>3. TablesOK'
      BY <1>0, <2>2, <3>2 DEF ShowIncoming, TablesOK, NoIncoming, tableVars, messageRows
    <3>. QED
      BY <1>1, <3>3, TypeSame
  <2>3. CASE \E c \in Convs : MarkRuntimeRead(c)
    <3>1. PICK c \in Convs : MarkRuntimeRead(c)
      BY <2>3
    <3>2. rtConv' \in [Convs -> Conversations]
      BY <1>0, <3>1 DEF MarkRuntimeRead, TablesOK, Conversations
    <3>3. TablesOK'
      BY <1>0, <3>1, <3>2 DEF MarkRuntimeRead, TablesOK, tableVars, messageRows
    <3>. QED
      BY <1>1, <3>3, TypeSame
  <2>4. CASE MarkLegacyRead
    <3>1. reader \in Convs
      BY <1>0, <2>4 DEF MarkLegacyRead, TablesOK
    <3>2. conv' \in [Convs -> Conversations]
      BY <1>0, <2>4, <3>1 DEF MarkLegacyRead, TablesOK, Conversations
    <3>3. TablesOK'
      BY <1>0, <2>4, <3>2 DEF MarkLegacyRead, TablesOK, messageRows, contactRows
    <3>. QED
      BY <1>1, <3>3, TypeSame
  <2>. QED
    BY <1>5, <2>1, <2>2, <2>3, <2>4 DEF Others
<1>. QED
  BY <1>3, <1>4, <1>5

\* What a step can be.
LEMMA Steps ==
    ASSUME Next
    PROVE  \/ \E m \in Msgs :
                 \/ Begin(m) \/ LoadContact(m) \/ SaveContact(m)
                 \/ SaveConversation(m) \/ SaveMessage(m)
                 \/ UpdateDelivery(m) \/ UpdateFails(m)
                 \/ RecordOutcome(m) \/ OutcomeLost(m)
                 \/ Prepare(m) \/ PrepareFails(m) \/ Conclude(m) \/ Stop(m)
           \/ \E m \in Msgs, r \in Routes : Accept(m, r) \/ Refuse(m, r) \/ LoseAnswer(m, r)
           \/ \E m \in Msgs, r \in Routes : Land(m, r)
           \/ Others
           \/ OthersFail
  BY DEF Next, Running, Calm, Sending, Local, Reply, Network, StoreError

LEMMA TypeStep == TypeOK /\ [Next]_vars => TypeOK'
<1>. SUFFICES ASSUME TypeOK, [Next]_vars PROVE TypeOK'
  OBVIOUS
<1>1. CASE Next
  BY <1>1, Steps, TypeRows, TypeCalls, TypeUpdate, TypeRecord, TypeTurns, TypeOthers
<1>2. CASE UNCHANGED vars
  <2>1. TablesOK' /\ job' = job
    BY <1>2, TypeParts DEF vars, tableVars, messageRows, contactRows, otherVars, TablesOK
  <2>. QED
    BY <2>1, TypeSame
<1>. QED
  BY <1>1, <1>2

\* Every variable keeps its type: in particular, a send that is on the network
\* is at a route of its plan.
THEOREM TypeCorrect == Spec => []TypeOK
  BY TypeInit, TypeStep, PTL DEF Spec

-----------------------------------------------------------------------------
(* What the tables say of one message. *)

\* A route of the message has taken it.
Backed(m, r) == <<m, Destination(m, r)>> \in taken /\ r \in UNION Groups(m)

\* The runtime rows are being written, for the first or the second time.
AtRows(m) == job[m].pc \in {"contact", "conversation", "message"}
FirstPass(m) == job[m].pc \in {"idle", "load"} \/ (AtRows(m) /\ job[m].pass = 1)
SecondPass(m) == AtRows(m) /\ job[m].pass = 2

\* Nothing has left the home before the row is written.
Unsent(m) ==
    rtStatus[m] = NoStatus =>
        /\ rtRoute[m] = None
        /\ \A r \in Routes : <<m, r>> \notin taken \cup flying

\* The row is not there in the first pass and pending until the second.
RowInv(m) ==
    /\ FirstPass(m) => /\ rtStatus[m] = NoStatus
                       /\ job[m].pass = 1
                       /\ job[m].status = "pending"
                       /\ job[m].route = None
    /\ job[m].pc \in Calling \cup {"prepare"} \/ SecondPass(m) =>
          rtStatus[m] = "pending" /\ rtRoute[m] = None
    /\ job[m].pc \in Calling \cup {"prepare"} => job[m].pass = 1

\* What the second pass is to write.
OutcomeInv(m) ==
    SecondPass(m) =>
        \/ job[m].status = "failed" /\ job[m].route = None
        \/ /\ job[m].route # None
           /\ Backed(m, job[m].route)
           /\ job[m].status = StatusVia(job[m].route)

\* The answers of the group being tried.
CallInv(m) ==
    /\ job[m].pc \in Calling =>
          /\ job[m].refused \subseteq Group(m)
          /\ \A r \in job[m].accepted : r \in Group(m) /\ Backed(m, r)
    /\ job[m].pc = "update" =>
          \E b \in Mailboxes : Group(m) = {b} /\ (job[m].reply => Backed(m, b))

ShownInv(m) == rtRoute[m] # None => Backed(m, rtRoute[m])

\* A recorded success is one, and is not forgotten.
AuditInv(m) ==
    \A a \in attempts : a.msg = m /\ a.outcome # "failed" =>
        /\ Backed(m, a.route)
        /\ \/ job[m].pc = "record" /\ a.route \in job[m].accepted
           \/ SecondPass(m) /\ job[m].status # "failed"
           \/ job[m].pc = "done" /\ rtStatus[m] # "failed"

MsgInv(m) ==
    /\ Unsent(m)
    /\ RowInv(m)
    /\ OutcomeInv(m)
    /\ CallInv(m)
    /\ ShownInv(m)
    /\ AuditInv(m)

SendInv == \A m \in Msgs : MsgInv(m)

LEMMA SendInit == Init => SendInv
  BY DEF Init, SendInv, MsgInv, Unsent, RowInv, OutcomeInv, CallInv, ShownInv, AuditInv,
     FirstPass, SecondPass, AtRows, IdleJob, Calling

LEMMA BackedStays ==
    ASSUME taken \subseteq taken', NEW m, NEW r, Backed(m, r)
    PROVE  Backed(m, r)'
  BY DEF Backed, Groups, Destination, Members

\* What a step of one message leaves of another.
LEMMA Elsewhere ==
    ASSUME NEW m \in Msgs, MsgInv(m), taken \subseteq taken',
           \A r \in Routes : <<m, r>> \in taken' \cup flying' => <<m, r>> \in taken \cup flying,
           job'[m] = job[m], rtStatus'[m] = rtStatus[m], rtRoute'[m] = rtRoute[m],
           \A a \in attempts' : a.msg = m => a \in attempts
    PROVE  MsgInv(m)'
<1>1. \A r : Backed(m, r) => Backed(m, r)'
  BY BackedStays
<1>2. Group(m)' = Group(m)
  BY PlanSame DEF Group
<1>3. /\ FirstPass(m)' <=> FirstPass(m)
      /\ SecondPass(m)' <=> SecondPass(m)
  BY DEF FirstPass, SecondPass, AtRows
<1>4. Unsent(m)'
  BY DEF MsgInv, Unsent
<1>5. RowInv(m)'
  BY <1>3 DEF MsgInv, RowInv
<1>6. OutcomeInv(m)'
  BY <1>1, <1>3 DEF MsgInv, OutcomeInv
<1>7. CallInv(m)'
  BY <1>1, <1>2 DEF MsgInv, CallInv
<1>8. ShownInv(m)'
  BY <1>1 DEF MsgInv, ShownInv
<1>9. AuditInv(m)'
  BY <1>1, <1>3 DEF MsgInv, AuditInv
<1>. QED
  BY <1>4, <1>5, <1>6, <1>7, <1>8, <1>9 DEF MsgInv

LEMMA OwnRows ==
    ASSUME TypeOK, NEW m \in Msgs, MsgInv(m),
           Begin(m) \/ LoadContact(m) \/ SaveContact(m) \/ SaveConversation(m)
    PROVE  MsgInv(m)'
<1>1. /\ job \in [Msgs -> Jobs]
      /\ job[m] \in Jobs
  BY TypeParts
<1>2. /\ taken' = taken /\ flying' = flying /\ attempts' = attempts
      /\ rtStatus' = rtStatus /\ rtRoute' = rtRoute
  BY DEF Begin, LoadContact, SaveContact, SaveConversation, messageRows, contactRows, tableVars
<1>3. /\ job'[m].pass = job[m].pass
      /\ job'[m].status = job[m].status
      /\ job'[m].route = job[m].route
      /\ job'[m].pc \in {"load", "contact", "conversation", "message"}
  BY <1>1 DEF Begin, LoadContact, SaveContact, SaveConversation, Jobs
<1>4. \/ FirstPass(m) /\ FirstPass(m)' /\ ~SecondPass(m)'
      \/ SecondPass(m) /\ SecondPass(m)' /\ ~FirstPass(m)'
  <2>1. CASE Begin(m) \/ LoadContact(m)
    <3>1. FirstPass(m) /\ job[m].pass = 1
      BY <2>1 DEF Begin, LoadContact, FirstPass, MsgInv, RowInv
    <3>. QED
      BY <1>3, <3>1 DEF FirstPass, SecondPass, AtRows
  <2>2. CASE SaveContact(m) \/ SaveConversation(m)
    <3>1. AtRows(m) /\ job'[m].pc \in {"conversation", "message"}
      BY <1>1, <2>2 DEF SaveContact, SaveConversation, AtRows, Jobs
    <3>. QED
      BY <1>1, <1>3, <3>1 DEF FirstPass, SecondPass, AtRows, Jobs
  <2>. QED
    BY <2>1, <2>2
<1>5. \A r : Backed(m, r) => Backed(m, r)'
  BY <1>2, BackedStays
<1>6. Unsent(m)' /\ ShownInv(m)'
  BY <1>2, <1>5 DEF MsgInv, Unsent, ShownInv
<1>7. RowInv(m)' /\ OutcomeInv(m)'
  BY <1>2, <1>3, <1>4, <1>5 DEF MsgInv, RowInv, OutcomeInv, Calling
<1>8. CallInv(m)'
  BY <1>3 DEF CallInv, Calling
<1>9. AuditInv(m)'
  <2>1. job[m].pc # "record" /\ job[m].pc # "done"
    BY DEF Begin, LoadContact, SaveContact, SaveConversation
  <2>. QED
    BY <1>2, <1>3, <1>4, <1>5, <2>1 DEF MsgInv, AuditInv, FirstPass, SecondPass, AtRows
<1>. QED
  BY <1>6, <1>7, <1>8, <1>9 DEF MsgInv

LEMMA OwnMessage ==
    ASSUME TypeOK, NEW m \in Msgs, MsgInv(m), SaveMessage(m)
    PROVE  MsgInv(m)'
<1>1. job \in [Msgs -> Jobs] /\ job[m] \in Jobs /\ TablesOK
  BY TypeParts
<1>2. /\ taken' = taken /\ attempts' = attempts
      /\ rtStatus'[m] = MergeMessageStatus(rtStatus[m], job[m].status)
      /\ rtRoute'[m] = job[m].route
      /\ job[m].pc = "message"
      /\ job'[m].pc \in {"prepare", "done"}
      /\ job'[m].pc = "prepare" => job[m].pass = 1
      /\ job'[m].pass = job[m].pass
  BY <1>1 DEF SaveMessage, TablesOK, Jobs, AfterRows
<1>3. \A r : Backed(m, r) => Backed(m, r)'
  BY <1>2, BackedStays
<1>4. CASE FirstPass(m)
  <2>1. rtStatus'[m] = "pending" /\ rtRoute'[m] = None
    BY <1>2, <1>4, MergeFirst DEF MsgInv, RowInv
  <2>2. \A a \in attempts : a.msg = m => a.outcome = "failed"
    BY <1>2, <1>4 DEF MsgInv, AuditInv, RowInv, SecondPass
  <2>3. job[m].pass = 1
    BY <1>4 DEF MsgInv, RowInv
  <2>. QED
    BY <1>2, <2>1, <2>2, <2>3 DEF MsgInv, Unsent, RowInv, OutcomeInv, CallInv, ShownInv, AuditInv,
       NoStatus, FirstPass, SecondPass, AtRows, Calling
<1>5. CASE SecondPass(m)
  <2>1. rtStatus[m] = "pending" /\ job[m].status \in {"queued", "delivered", "failed"}
    BY <1>5, StatusViaType DEF MsgInv, RowInv, OutcomeInv
  <2>2. rtStatus'[m] = job[m].status
    BY <1>2, <2>1, MergeOutcome
  <2>3. job'[m].pc = "done"
    BY <1>2, <1>5 DEF SecondPass
  <2>4. ShownInv(m)'
    BY <1>2, <1>3, <1>5 DEF MsgInv, OutcomeInv, ShownInv
  <2>5. AuditInv(m)'
    BY <1>2, <1>3, <2>2, <2>3 DEF MsgInv, AuditInv
  <2>6. Unsent(m)' /\ RowInv(m)' /\ OutcomeInv(m)' /\ CallInv(m)'
    BY <2>1, <2>2, <2>3 DEF Unsent, RowInv, OutcomeInv, CallInv, NoStatus, FirstPass,
       SecondPass, AtRows, Calling
  <2>. QED
    BY <2>4, <2>5, <2>6 DEF MsgInv
<1>6. FirstPass(m) \/ SecondPass(m)
  BY <1>1, <1>2 DEF FirstPass, SecondPass, AtRows, Jobs
<1>. QED
  BY <1>4, <1>5, <1>6

\* The job of a message that is on the network goes on as j, which is at a
\* call or at the second pass; no table says anything new.
LEMMA OwnGoesOn ==
    ASSUME TypeOK, NEW m \in Msgs, MsgInv(m),
           job[m].pc \in Calling \cup {"prepare"}, job'[m].pass = 1 \/ SecondPass(m)',
           taken \subseteq taken', rtStatus' = rtStatus, rtRoute' = rtRoute,
           job'[m].pc \in Calling \/ SecondPass(m)',
           OutcomeInv(m)', CallInv(m)', AuditInv(m)'
    PROVE  MsgInv(m)'
<1>1. rtStatus'[m] = "pending" /\ rtRoute'[m] = None
  BY DEF MsgInv, RowInv
<1>2. ~FirstPass(m)'
  BY DEF FirstPass, SecondPass, AtRows, Calling
<1>3. RowInv(m)'
  BY <1>1, <1>2 DEF RowInv, SecondPass, AtRows, Calling
<1>4. Unsent(m)' /\ ShownInv(m)'
  BY <1>1 DEF Unsent, ShownInv, NoStatus
<1>. QED
  BY <1>3, <1>4 DEF MsgInv

LEMMA OwnSettled ==
    ASSUME TypeOK, NEW m \in Msgs, MsgInv(m),
           job[m].pc \in Calling \cup {"prepare"},
           NEW outcome, NEW r,
           job' = [job EXCEPT ![m] = Settled(m, outcome, r)],
           taken' = taken, rtStatus' = rtStatus, rtRoute' = rtRoute, attempts' = attempts,
           \/ outcome = "failed" /\ r = None /\ (job[m].pc = "record" => job[m].accepted = {})
           \/ r # None /\ Backed(m, r) /\ outcome = StatusVia(r)
    PROVE  MsgInv(m)'
<1>1. job \in [Msgs -> Jobs] /\ job[m] \in Jobs
  BY TypeParts
<1>2. /\ job'[m].pc = "contact" /\ job'[m].pass = 2
      /\ job'[m].status = outcome /\ job'[m].route = r
  BY <1>1 DEF Settled, Jobs
<1>3. SecondPass(m)'
  BY <1>2 DEF SecondPass, AtRows
<1>4. \A q : Backed(m, q) => Backed(m, q)'
  BY BackedStays
<1>5. OutcomeInv(m)' /\ CallInv(m)'
  BY <1>2, <1>4 DEF OutcomeInv, CallInv, Calling
<1>6. AuditInv(m)'
  <2>1. outcome = "failed" => \A a \in attempts : a.msg = m => a.outcome = "failed"
    BY StatusViaType DEF MsgInv, AuditInv, SecondPass, AtRows, Calling
  <2>. QED
    BY <1>2, <1>3, <1>4, <2>1 DEF MsgInv, AuditInv
<1>. QED
  BY <1>3, <1>5, <1>6, OwnGoesOn

LEMMA OwnTries ==
    ASSUME TypeOK, NEW m \in Msgs, MsgInv(m),
           job[m].pc \in Calling \cup {"prepare"}, job[m].pc = "record" => job[m].accepted = {},
           NEW i \in Nat,
           job' = [job EXCEPT ![m] = TryGroup(m, i)],
           taken' = taken, rtStatus' = rtStatus, rtRoute' = rtRoute, attempts' = attempts
    PROVE  MsgInv(m)'
<1>1. job \in [Msgs -> Jobs] /\ job[m] \in Jobs
  BY TypeParts
<1>2. CASE i \notin DOMAIN Plan(m)
  <2>1. TryGroup(m, i) = Settled(m, "failed", None)
    BY <1>2 DEF TryGroup
  <2>. QED
    BY <2>1, OwnSettled
<1>3. CASE i \in DOMAIN Plan(m)
  <2>1. /\ job'[m].pc = "send" /\ job'[m].accepted = {} /\ job'[m].refused = {}
        /\ job'[m].pass = job[m].pass
    BY <1>1, <1>3 DEF TryGroup, Jobs
  <2>2. job[m].pass = 1
    BY DEF MsgInv, RowInv
  <2>3. CallInv(m)' /\ OutcomeInv(m)'
    BY <2>1 DEF CallInv, OutcomeInv, SecondPass, AtRows
  <2>4. AuditInv(m)'
    BY DEF MsgInv, AuditInv, SecondPass, AtRows, Calling
  <2>. QED
    BY <2>1, <2>2, <2>3, <2>4, OwnGoesOn DEF Calling
<1>. QED
  BY <1>2, <1>3

LEMMA OwnTurns ==
    ASSUME TypeOK, NEW m \in Msgs, MsgInv(m), Prepare(m) \/ PrepareFails(m) \/ Conclude(m)
    PROVE  MsgInv(m)'
<1>1. job[m].pc \in Calling \cup {"prepare"} /\ job[m].at \in Nat
  BY TypeParts DEF Prepare, PrepareFails, Conclude, Calling, Jobs
<1>2. taken' = taken /\ rtStatus' = rtStatus /\ rtRoute' = rtRoute /\ attempts' = attempts
  BY DEF Prepare, PrepareFails, Conclude, messageRows
<1>3. CASE Prepare(m) \/ PrepareFails(m)
  BY <1>1, <1>2, <1>3, OwnTries, OwnSettled DEF Prepare, PrepareFails
<1>4. CASE Conclude(m) /\ job[m].accepted = {}
  BY <1>1, <1>2, <1>4, OwnTries DEF Conclude
<1>5. CASE Conclude(m) /\ job[m].accepted # {}
  <2>1. PICK r \in job[m].accepted : job' = [job EXCEPT ![m] = Settled(m, StatusVia(r), r)]
    BY <1>5 DEF Conclude
  <2>2. Backed(m, r)
    BY <1>5 DEF Conclude, MsgInv, CallInv, Calling
  <2>3. r # None
    BY <2>2, RoutesOfGroups, RoutesAssumption DEF Backed
  <2>. QED
    BY <1>1, <1>2, <2>1, <2>2, <2>3, OwnSettled
<1>. QED
  BY <1>3, <1>4, <1>5

\* An answer of a route, after the answers of the message tables.
LEMMA OwnAnswered ==
    ASSUME TypeOK, NEW m \in Msgs, MsgInv(m), job[m].pc \in {"send", "update"},
           NEW r \in Group(m), NEW ok \in BOOLEAN, ok => Backed(m, r)',
           job' = [job EXCEPT ![m] = Answered(m, r, ok)],
           taken \subseteq taken', rtStatus' = rtStatus, rtRoute' = rtRoute, attempts' = attempts
    PROVE  MsgInv(m)'
<1>1. job \in [Msgs -> Jobs] /\ job[m] \in Jobs
  BY TypeParts
<1>2. /\ job'[m].pc \in {"send", "record"} /\ job'[m].pass = job[m].pass
      /\ job'[m].recent = job[m].recent /\ job'[m].at = job[m].at
      /\ job'[m].accepted \subseteq job[m].accepted \cup (IF ok THEN {r} ELSE {})
      /\ job'[m].refused \subseteq job[m].refused \cup {r}
  BY <1>1 DEF Answered, Jobs
<1>3. job[m].pass = 1
  BY DEF MsgInv, RowInv, Calling
<1>4. Group(m)' = Group(m)
  BY <1>2, PlanSame DEF Group
<1>5. \A q : Backed(m, q) => Backed(m, q)'
  BY BackedStays
<1>6. /\ job[m].refused \subseteq Group(m)
      /\ \A q \in job[m].accepted : q \in Group(m) /\ Backed(m, q)
  BY DEF MsgInv, CallInv, Calling
<1>7. CallInv(m)'
  BY <1>2, <1>4, <1>5, <1>6 DEF CallInv
<1>8. OutcomeInv(m)'
  BY <1>2 DEF OutcomeInv, SecondPass, AtRows
<1>9. AuditInv(m)'
  BY DEF MsgInv, AuditInv, SecondPass, AtRows
<1>. QED
  BY <1>2, <1>3, <1>7, <1>8, <1>9, OwnGoesOn DEF Calling

LEMMA OwnCalls ==
    ASSUME TypeOK, NEW m \in Msgs, NEW r \in Routes, MsgInv(m),
           Accept(m, r) \/ Refuse(m, r) \/ LoseAnswer(m, r)
    PROVE  MsgInv(m)'
<1>1. /\ job[m].pc = "send" /\ job[m].pc \in Calling /\ r \in Open(m)
      /\ rtStatus' = rtStatus /\ rtRoute' = rtRoute /\ attempts' = attempts
      /\ taken \subseteq taken'
  BY DEF Accept, Refuse, LoseAnswer, messageRows, Calling
<1>2. r \in Group(m) /\ r \in UNION Groups(m)
  BY <1>1, OpenRoutes
<1>3. PICK ok \in BOOLEAN : /\ job' = [job EXCEPT ![m] = AfterCall(m, r, ok)]
                            /\ ok => <<m, Destination(m, r)>> \in taken'
  BY DEF Accept, Refuse, LoseAnswer
<1>4. ok => Backed(m, r)'
  BY <1>2, <1>3 DEF Backed, Destination, Groups, Members
<1>5. CASE r \notin Mailboxes
  <2>1. job' = [job EXCEPT ![m] = Answered(m, r, ok)]
    BY <1>3, <1>5 DEF AfterCall
  <2>. QED
    BY <1>1, <1>2, <1>4, <2>1, OwnAnswered
<1>6. CASE r \in Mailboxes
  <2>1. job \in [Msgs -> Jobs] /\ job[m] \in Jobs
    BY TypeParts
  <2>2. job' = [job EXCEPT ![m] = [job[m] EXCEPT !.pc = "update", !.reply = ok]]
    BY <1>3, <1>6 DEF AfterCall
  <2>3. /\ job'[m].pc = "update" /\ job'[m].pass = job[m].pass
        /\ job'[m].recent = job[m].recent /\ job'[m].at = job[m].at
        /\ job'[m].accepted = job[m].accepted /\ job'[m].refused = job[m].refused
        /\ job'[m].reply = ok
    BY <2>1, <2>2 DEF Jobs
  <2>4. Group(m)' = Group(m)
    BY <2>3, PlanSame DEF Group
  <2>5. Group(m) = {r}
    BY <1>1, <1>2, <1>6, JobType, BoxAlone
  <2>6. CallInv(m)'
    <3>1. /\ job[m].refused \subseteq Group(m)
          /\ \A q \in job[m].accepted : q \in Group(m) /\ Backed(m, q)
      BY <1>1 DEF MsgInv, CallInv
    <3>2. \A q : Backed(m, q) => Backed(m, q)'
      BY <1>1, BackedStays
    <3>. QED
      BY <1>4, <1>6, <2>3, <2>4, <2>5, <3>1, <3>2 DEF CallInv
  <2>7. OutcomeInv(m)'
    BY <2>3 DEF OutcomeInv, SecondPass, AtRows
  <2>8. AuditInv(m)'
    BY <1>1 DEF MsgInv, AuditInv, SecondPass, AtRows
  <2>9. job'[m].pass = 1
    BY <1>1, <2>3 DEF MsgInv, RowInv, Calling
  <2>. QED
    BY <1>1, <2>3, <2>6, <2>7, <2>8, <2>9, OwnGoesOn DEF Calling
<1>. QED
  BY <1>5, <1>6

LEMMA OwnUpdate ==
    ASSUME TypeOK, NEW m \in Msgs, MsgInv(m), UpdateDelivery(m) \/ UpdateFails(m)
    PROVE  MsgInv(m)'
<1>1. /\ job[m].pc = "update" /\ taken' = taken
      /\ rtStatus' = rtStatus /\ rtRoute' = rtRoute /\ attempts' = attempts
  BY DEF UpdateDelivery, UpdateFails, messageRows
<1>2. job[m].reply \in BOOLEAN
  BY TypeParts DEF Jobs
<1>3. PICK r \in Open(m), ok \in BOOLEAN :
         /\ job' = [job EXCEPT ![m] = Answered(m, r, ok)]
         /\ ok => job[m].reply
  BY <1>2 DEF UpdateDelivery, UpdateFails
<1>4. r \in Group(m)
  BY DEF Open
<1>5. ok => Backed(m, r)
  BY <1>1, <1>3, <1>4 DEF MsgInv, CallInv
<1>6. ok => Backed(m, r)'
  BY <1>1, <1>5, BackedStays
<1>. QED
  BY <1>1, <1>3, <1>4, <1>6, OwnAnswered

LEMMA OwnRecord ==
    ASSUME TypeOK, NEW m \in Msgs, MsgInv(m), RecordOutcome(m) \/ OutcomeLost(m)
    PROVE  MsgInv(m)'
<1>1. /\ job[m].pc = "record" /\ taken' = taken
      /\ rtStatus' = rtStatus /\ rtRoute' = rtRoute
  BY DEF RecordOutcome, OutcomeLost, messageRows
<1>2. job \in [Msgs -> Jobs] /\ job[m] \in Jobs
  BY TypeParts
<1>3. PICK r \in Unaudited(m) :
         /\ job' = [job EXCEPT ![m].audited = @ \cup {r}]
         /\ \/ attempts' = attempts \cup
                  {[msg |-> m, route |-> r, outcome |-> OutcomeOf(m, r)]}
            \/ attempts' = attempts
  BY DEF RecordOutcome, OutcomeLost
<1>4. /\ job'[m].pc = "record" /\ job'[m].pass = job[m].pass
      /\ job'[m].recent = job[m].recent /\ job'[m].at = job[m].at
      /\ job'[m].accepted = job[m].accepted /\ job'[m].refused = job[m].refused
  BY <1>1, <1>2, <1>3 DEF Jobs
<1>5. Group(m)' = Group(m)
  BY <1>4, PlanSame DEF Group
<1>6. \A q : Backed(m, q) => Backed(m, q)'
  BY <1>1, BackedStays
<1>7. CallInv(m)'
  BY <1>1, <1>4, <1>5, <1>6 DEF MsgInv, CallInv, Calling
<1>8. OutcomeInv(m)'
  BY <1>4 DEF OutcomeInv, SecondPass, AtRows
<1>9. AuditInv(m)'
  <2>. SUFFICES ASSUME NEW a \in attempts', a.msg = m, a.outcome # "failed"
                PROVE  Backed(m, a.route)' /\ a.route \in job'[m].accepted
    BY <1>4 DEF AuditInv
  <2>1. CASE a \in attempts
    BY <1>1, <1>4, <1>6, <2>1 DEF MsgInv, AuditInv, SecondPass, AtRows
  <2>2. CASE a \notin attempts
    <3>1. a.route = r /\ a.outcome = OutcomeOf(m, r)
      BY <1>3, <2>2
    <3>2. r \in job[m].accepted
      BY <3>1 DEF OutcomeOf
    <3>3. Backed(m, r)
      BY <1>1, <3>2 DEF MsgInv, CallInv, Calling
    <3>. QED
      BY <1>4, <1>6, <3>1, <3>2, <3>3
  <2>. QED
    BY <2>1, <2>2
<1>10. job'[m].pass = 1
  BY <1>1, <1>4 DEF MsgInv, RowInv, Calling
<1>. QED
  BY <1>1, <1>4, <1>7, <1>8, <1>9, <1>10, OwnGoesOn DEF Calling

LEMMA OwnStop ==
    ASSUME TypeOK, NEW m \in Msgs, MsgInv(m), Stop(m)
    PROVE  MsgInv(m)'
<1>1. /\ taken' = taken /\ attempts' = attempts
      /\ rtStatus' = rtStatus /\ rtRoute' = rtRoute
      /\ job[m].pc # "idle" /\ job[m].pc # "done"
      /\ job[m].pc # "send" => flying' = flying
  BY DEF Stop, messageRows
<1>2. job \in [Msgs -> Jobs] /\ job[m] \in Jobs
  BY TypeParts
<1>3. job'[m].pc = "done"
  BY <1>2 DEF Stop, Jobs
<1>4. \A q : Backed(m, q) => Backed(m, q)'
  BY <1>1, BackedStays
<1>5. Unsent(m)'
  <2>1. CASE job[m].pc = "send"
    BY <1>1, <2>1 DEF MsgInv, RowInv, Unsent, Calling, NoStatus
  <2>2. CASE job[m].pc # "send"
    BY <1>1, <2>2 DEF MsgInv, Unsent
  <2>. QED
    BY <2>1, <2>2
<1>6. RowInv(m)' /\ OutcomeInv(m)' /\ CallInv(m)'
  BY <1>3 DEF RowInv, OutcomeInv, CallInv, FirstPass, SecondPass, AtRows, Calling
<1>7. ShownInv(m)'
  BY <1>1, <1>4 DEF MsgInv, ShownInv
<1>8. AuditInv(m)'
  <2>1. job[m].pc = "record" \/ SecondPass(m) => rtStatus[m] = "pending"
    BY DEF MsgInv, RowInv, Calling
  <2>. QED
    BY <1>1, <1>3, <1>4, <2>1 DEF MsgInv, AuditInv
<1>. QED
  BY <1>5, <1>6, <1>7, <1>8 DEF MsgInv

\* The steps of one message.
OwnStep(m) ==
    \/ Begin(m) \/ LoadContact(m) \/ SaveContact(m) \/ SaveConversation(m)
    \/ SaveMessage(m)
    \/ UpdateDelivery(m) \/ UpdateFails(m)
    \/ RecordOutcome(m) \/ OutcomeLost(m)
    \/ Prepare(m) \/ PrepareFails(m) \/ Conclude(m) \/ Stop(m)
    \/ \E r \in Routes : Accept(m, r) \/ Refuse(m, r) \/ LoseAnswer(m, r)

LEMMA OwnKeeps ==
    ASSUME TypeOK, NEW m \in Msgs, MsgInv(m), OwnStep(m)
    PROVE  MsgInv(m)'
  BY OwnRows, OwnMessage, OwnUpdate, OwnRecord, OwnTurns, OwnStop, OwnCalls DEF OwnStep

\* A step of a message touches nothing of another one.
LEMMA OwnOnly ==
    ASSUME TypeOK, NEW m \in Msgs, OwnStep(m), NEW n \in Msgs, n # m
    PROVE  /\ taken \subseteq taken'
           /\ \A r \in Routes :
                 <<n, r>> \in taken' \cup flying' => <<n, r>> \in taken \cup flying
           /\ job'[n] = job[n]
           /\ rtStatus'[n] = rtStatus[n] /\ rtRoute'[n] = rtRoute[n]
           /\ \A a \in attempts' : a.msg = n => a \in attempts
<1>1. /\ job \in [Msgs -> Jobs]
      /\ rtStatus \in [Msgs -> MessageStatuses \cup {NoStatus}]
      /\ rtRoute \in [Msgs -> Routes \cup {None}]
  BY DEF TypeOK
<1>2. job'[n] = job[n]
  BY <1>1 DEF OwnStep, Begin, LoadContact, SaveContact, SaveConversation, SaveMessage,
     UpdateDelivery, UpdateFails, RecordOutcome, OutcomeLost, Prepare, PrepareFails,
     Conclude, Stop, Accept, Refuse, LoseAnswer
<1>3. rtStatus'[n] = rtStatus[n] /\ rtRoute'[n] = rtRoute[n]
  BY <1>1 DEF OwnStep, Begin, LoadContact, SaveContact, SaveConversation, SaveMessage,
     UpdateDelivery, UpdateFails, RecordOutcome, OutcomeLost, Prepare, PrepareFails,
     Conclude, Stop, Accept, Refuse, LoseAnswer, messageRows
<1>4. \A a \in attempts' : a \in attempts \/ a.msg = m
  <2>1. CASE RecordOutcome(m)
    BY <2>1 DEF RecordOutcome
  <2>2. CASE ~RecordOutcome(m)
    BY <2>2 DEF OwnStep, Begin, LoadContact, SaveContact, SaveConversation, SaveMessage,
       UpdateDelivery, UpdateFails, OutcomeLost, Prepare, PrepareFails,
       Conclude, Stop, Accept, Refuse, LoseAnswer
  <2>. QED
    BY <2>1, <2>2
<1>5. taken \subseteq taken' /\ \A x \in taken' : x \in taken \/ \E r : x = <<m, r>>
  BY DEF OwnStep, Begin, LoadContact, SaveContact, SaveConversation, SaveMessage,
     UpdateDelivery, UpdateFails, RecordOutcome, OutcomeLost, Prepare, PrepareFails,
     Conclude, Stop, Accept, Refuse, LoseAnswer
<1>6. \A x \in flying' : x \in flying \/ \E r : x = <<m, r>>
  <2>1. CASE Stop(m)
    BY <2>1 DEF Stop
  <2>2. CASE \E r \in Routes : LoseAnswer(m, r)
    BY <2>2 DEF LoseAnswer
  <2>3. CASE ~Stop(m) /\ ~\E r \in Routes : LoseAnswer(m, r)
    <3>1. flying' = flying
      BY <2>3 DEF OwnStep, Begin, LoadContact, SaveContact, SaveConversation, SaveMessage,
         UpdateDelivery, UpdateFails, RecordOutcome, OutcomeLost, Prepare, PrepareFails,
         Conclude, Accept, Refuse
    <3>. QED
      BY <3>1
  <2>. QED
    BY <2>1, <2>2, <2>3
<1>7. \A r \in Routes : <<n, r>> \in taken' \cup flying' => <<n, r>> \in taken \cup flying
  BY <1>5, <1>6
<1>. QED
  BY <1>2, <1>3, <1>4, <1>5, <1>7

\* The steps of the routes, of a sync and of a reader.
LEMMA OthersOnly ==
    ASSUME \/ \E m \in Msgs, r \in Routes : Land(m, r)
           \/ Others
           \/ OthersFail
    PROVE  /\ taken \subseteq taken'
           /\ taken' \cup flying' \subseteq taken \cup flying
           /\ job' = job /\ rtStatus' = rtStatus /\ rtRoute' = rtRoute
           /\ attempts' = attempts
  BY DEF Land, Others, OthersFail, StoreIncoming, StoreDirect, Receive,
       ShowIncoming, MarkRuntimeRead,
     MarkLegacyRead, messageRows

LEMMA NextCases ==
    ASSUME Next
    PROVE  \/ \E m \in Msgs : OwnStep(m)
           \/ \E m \in Msgs, r \in Routes : Land(m, r)
           \/ Others
           \/ OthersFail
  BY Steps DEF OwnStep

LEMMA SendStep == TypeOK /\ SendInv /\ [Next]_vars => SendInv'
<1>. SUFFICES ASSUME TypeOK, SendInv, [Next]_vars, NEW n \in Msgs PROVE MsgInv(n)'
  BY DEF SendInv
<1>0. MsgInv(n)
  BY DEF SendInv
<1>1. CASE \E m \in Msgs : OwnStep(m)
  <2>1. PICK m \in Msgs : OwnStep(m)
    BY <1>1
  <2>2. CASE n = m
    BY <1>0, <2>1, <2>2, OwnKeeps
  <2>3. CASE n # m
    BY <1>0, <2>1, <2>3, OwnOnly, Elsewhere
  <2>. QED
    BY <2>2, <2>3
<1>2. CASE \/ \E m \in Msgs, r \in Routes : Land(m, r)
           \/ Others
           \/ OthersFail
  BY <1>0, <1>2, OthersOnly, Elsewhere
<1>3. CASE UNCHANGED vars
  BY <1>0, <1>3, Elsewhere DEF vars, messageRows
<1>. QED
  BY <1>1, <1>2, <1>3, NextCases

LEMMA SendCorrect == Spec => []SendInv
<1>1. Spec => []TypeOK
  BY TypeCorrect
<1>. QED
  BY <1>1, SendInit, SendStep, PTL DEF Spec

-----------------------------------------------------------------------------
(* The route shown and the attempts. *)

LEMMA BackedHolds ==
    ASSUME NEW m \in Msgs, NEW r, Backed(m, r),
           r \in Mailboxes => Len(MailboxesOf[ConvOf[m]]) = 1
    PROVE  <<m, r>> \in taken
<1>1. CASE r \notin Mailboxes
  BY <1>1, DestinationType DEF Backed
<1>2. CASE r \in Mailboxes
  <2>1. PICK g \in Groups(m) : r \in g
    BY DEF Backed
  <2>2. g # {Direct} /\ ~(g \subseteq NostrRoutes)
    BY <1>2, <2>1, RoutesAssumption
  <2>3. r \in Members(MailboxesOf[ConvOf[m]])
    BY <2>1, <2>2, GroupKinds
  <2>4. MailboxesOf[ConvOf[m]] \in Seq(Mailboxes)
    BY ContactsAssumption
  <2>5. r = MailboxesOf[ConvOf[m]][1]
    BY <1>2, <2>3, <2>4 DEF Members
  <2>. QED
    BY <1>2, <2>5 DEF Backed, Destination
<1>. QED
  BY <1>1, <1>2

\* The route a message is shown with has taken it (if only one mailbox may be
\* meant), whatever the routes answer, lose or take late and wherever a send
\* stops.
THEOREM RouteShownHolds == Spec => []RouteHolds
<1>1. SendInv => RouteHolds
  BY BackedHolds DEF SendInv, MsgInv, ShownInv, RouteHolds
<1>. QED
  BY <1>1, SendCorrect, PTL

\* A success in the attempts is one, and the message is not shown as failed.
THEOREM AuditIsTrue == Spec => []AuditTrue
<1>1. TypeOK /\ SendInv => AuditTrue
  <2>. SUFFICES ASSUME TypeOK, SendInv, NEW a \in attempts, a.outcome # "failed"
                PROVE  /\ <<a.msg, Destination(a.msg, a.route)>> \in taken
                       /\ rtStatus[a.msg] # "failed"
    BY DEF AuditTrue
  <2>1. a.msg \in Msgs
    BY DEF TypeOK, Attempts
  <2>2. MsgInv(a.msg)
    BY <2>1 DEF SendInv
  <2>3. Backed(a.msg, a.route)
    BY <2>2 DEF MsgInv, AuditInv
  <2>4. rtStatus[a.msg] # "failed"
    BY <2>2 DEF MsgInv, AuditInv, RowInv, Calling
  <2>. QED
    BY <2>3, <2>4 DEF Backed
<1>2. Spec => []TypeOK
  BY TypeCorrect
<1>. QED
  BY <1>1, <1>2, SendCorrect, PTL

-----------------------------------------------------------------------------
(* The preferred route. *)

\* The route has worked for the contact, now or before.
Worked(c, r) ==
    \/ r = EarlierRoute[c]
    \/ \E n \in Msgs : ConvOf[n] = c /\ <<n, r>> \in taken

PreferInv ==
    /\ LastRouteTrue
    /\ \A m \in Msgs : job[m].recent # None => Worked(ConvOf[m], job[m].recent)

LEMMA WorkedStays ==
    ASSUME taken \subseteq taken', NEW c, NEW r, Worked(c, r)
    PROVE  Worked(c, r)'
  BY DEF Worked

LEMMA LastRouteWorked ==
    LastRouteTrue <=> \A c \in Convs : Worked(c, lastRoute[c])
  BY DEF LastRouteTrue, Worked

\* An outcome of a Nostr route is one that worked.
LEMMA SuccessWorked ==
    ASSUME TypeOK, PreferInv, NEW m \in Msgs, MsgInv(m), AtRows(m), LastSuccess(m) # None
    PROVE  Worked(ConvOf[m], LastSuccess(m))
<1>1. CASE job[m].route \in NostrRoutes
  <2>1. job[m].route # None
    BY <1>1, RoutesAssumption DEF Routes
  <2>2. job[m] \in Jobs
    BY TypeParts
  <2>3. SecondPass(m)
    BY <2>1, <2>2 DEF MsgInv, RowInv, FirstPass, SecondPass, Jobs
  <2>4. Backed(m, job[m].route)
    BY <2>1, <2>3 DEF MsgInv, OutcomeInv
  <2>5. <<m, job[m].route>> \in taken
    BY <1>1, <2>4, RoutesAssumption DEF Backed, Destination
  <2>. QED
    BY <1>1, <2>5 DEF LastSuccess, Worked
<1>2. CASE job[m].route \notin NostrRoutes
  BY <1>2 DEF LastSuccess, PreferInv
<1>. QED
  BY <1>1, <1>2

LEMMA PreferStep == TypeOK /\ SendInv /\ PreferInv /\ [Next]_vars => PreferInv'
<1>. SUFFICES ASSUME TypeOK, SendInv, PreferInv, [Next]_vars PROVE PreferInv'
  OBVIOUS
<1>0. /\ job \in [Msgs -> Jobs]
      /\ lastRoute \in [Convs -> NostrRoutes \cup {None}]
      /\ \A m \in Msgs : ConvOf[m] \in Convs
      /\ \A c \in Convs : Worked(c, lastRoute[c])
  BY LastRouteWorked, ContactsAssumption DEF TypeOK, PreferInv
<1>1. taken \subseteq taken'
  <2>1. CASE \E m \in Msgs : OwnStep(m)
    BY <2>1 DEF OwnStep, Begin, LoadContact, SaveContact, SaveConversation, SaveMessage,
       UpdateDelivery, UpdateFails, RecordOutcome, OutcomeLost, Prepare, PrepareFails,
       Conclude, Stop, Accept, Refuse, LoseAnswer
  <2>2. CASE UNCHANGED vars
    BY <2>2 DEF vars
  <2>. QED
    BY <2>1, <2>2, NextCases, OthersOnly
<1>2. \A c, r : Worked(c, r) => Worked(c, r)'
  BY <1>1, WorkedStays
<1>3. \A c \in Convs : Worked(c, lastRoute'[c])
  <2>1. CASE \E m \in Msgs : SaveContact(m)
    <3>1. PICK m \in Msgs : SaveContact(m)
      BY <2>1
    <3>2. AtRows(m) /\ MsgInv(m)
      BY <3>1 DEF SaveContact, AtRows, SendInv
    <3>3. LastSuccess(m) # None => Worked(ConvOf[m], LastSuccess(m))
      BY <3>2, SuccessWorked
    <3>4. \A c \in Convs : lastRoute'[c] =
             IF c = ConvOf[m] /\ LastSuccess(m) # None THEN LastSuccess(m) ELSE lastRoute[c]
      BY <1>0, <3>1 DEF SaveContact
    <3>. QED
      BY <1>0, <3>3, <3>4
  <2>2. CASE UNCHANGED lastRoute
    BY <1>0, <2>2
  <2>3. \/ \E m \in Msgs : SaveContact(m)
        \/ UNCHANGED lastRoute
    <3>1. CASE \E m \in Msgs : OwnStep(m)
      BY <3>1 DEF OwnStep, Begin, LoadContact, SaveConversation, SaveMessage,
         UpdateDelivery, UpdateFails, RecordOutcome, OutcomeLost, Prepare, PrepareFails,
         Conclude, Stop, Accept, Refuse, LoseAnswer, contactRows
    <3>2. CASE \/ \E m \in Msgs, r \in Routes : Land(m, r)
               \/ Others
               \/ OthersFail
      BY <3>2 DEF Land, Others, OthersFail, StoreIncoming, StoreDirect, Receive,
       ShowIncoming, MarkRuntimeRead,
         MarkLegacyRead, contactRows
    <3>3. CASE UNCHANGED vars
      BY <3>3 DEF vars, contactRows
    <3>. QED
      BY <3>1, <3>2, <3>3, NextCases
  <2>. QED
    BY <2>1, <2>2, <2>3
<1>4. ASSUME NEW m \in Msgs, job'[m].recent # None
      PROVE  Worked(ConvOf[m], job'[m].recent)
  <2>1. job'[m].recent = job[m].recent \/ job'[m].recent = lastRoute[ConvOf[m]]
    <3>1. CASE \E n \in Msgs : OwnStep(n)
      <4>1. PICK n \in Msgs : OwnStep(n)
        BY <3>1
      <4>2. CASE n # m
        BY <4>1, <4>2, OwnOnly
      <4>3. CASE n = m
        <5>1. job[m] \in Jobs
          BY <1>0
        <5>2. CASE LoadContact(m)
          BY <1>0, <5>1, <5>2 DEF LoadContact, Jobs
        <5>3. \A o, r, i, ok : /\ Settled(m, o, r).recent = job[m].recent
                               /\ TryGroup(m, i).recent = job[m].recent
                               /\ Answered(m, r, ok).recent = job[m].recent
                               /\ AfterCall(m, r, ok).recent = job[m].recent
          BY <5>1 DEF Settled, TryGroup, Answered, AfterCall, Jobs
        <5>4. ASSUME NEW j, j.recent = job[m].recent, job' = [job EXCEPT ![m] = j]
              PROVE  job'[m].recent = job[m].recent
          BY <1>0, <5>4
        <5>6. CASE Prepare(m) \/ PrepareFails(m)
          <6>1. job' = [job EXCEPT ![m] = TryGroup(m, 1)]
                \/ job' = [job EXCEPT ![m] = Settled(m, "failed", None)]
            BY <5>6 DEF Prepare, PrepareFails
          <6>. QED
            BY <5>3, <5>4, <6>1
        <5>7. CASE Conclude(m)
          <6>1. \/ \E r : job' = [job EXCEPT ![m] = Settled(m, StatusVia(r), r)]
                \/ job' = [job EXCEPT ![m] = TryGroup(m, job[m].at + 1)]
            BY <5>7 DEF Conclude
          <6>. QED
            BY <5>3, <5>4, <6>1
        <5>8. CASE UpdateDelivery(m) \/ UpdateFails(m)
          <6>1. \E r, ok : job' = [job EXCEPT ![m] = Answered(m, r, ok)]
            BY <5>8 DEF UpdateDelivery, UpdateFails
          <6>. QED
            BY <5>3, <5>4, <6>1
        <5>9. CASE \E r \in Routes : Accept(m, r) \/ Refuse(m, r) \/ LoseAnswer(m, r)
          <6>1. \E r, ok : job' = [job EXCEPT ![m] = AfterCall(m, r, ok)]
            BY <5>9 DEF Accept, Refuse, LoseAnswer
          <6>. QED
            BY <5>3, <5>4, <6>1
        <5>5. CASE Begin(m) \/ SaveContact(m) \/ SaveConversation(m) \/ SaveMessage(m)
                   \/ RecordOutcome(m) \/ OutcomeLost(m) \/ Stop(m)
          BY <1>0, <5>1, <5>5 DEF Begin, SaveContact, SaveConversation, SaveMessage,
             RecordOutcome, OutcomeLost, Stop, Jobs
        <5>. QED
          BY <4>1, <4>3, <5>2, <5>5, <5>6, <5>7, <5>8, <5>9 DEF OwnStep
      <4>. QED
        BY <4>2, <4>3
    <3>2. CASE UNCHANGED vars
      BY <3>2 DEF vars
    <3>. QED
      BY <3>1, <3>2, NextCases, OthersOnly
  <2>. QED
    BY <1>0, <1>4, <2>1 DEF PreferInv
<1>5. \A c \in Convs : Worked(c, lastRoute[c])'
  BY <1>2, <1>3
<1>6. \A m \in Msgs : job'[m].recent # None => Worked(ConvOf[m], job[m].recent)'
  BY <1>2, <1>4
<1>7. LastRouteTrue'
  BY <1>5 DEF LastRouteTrue, Worked
<1>. QED
  BY <1>6, <1>7 DEF PreferInv

\* The route that new messages to a contact prefer has taken a message of that
\* contact, although sends that overlap write it over each other.
THEOREM LastRouteHasWorked == Spec => []LastRouteTrue
<1>1. Init => PreferInv
  BY DEF Init, PreferInv, LastRouteTrue, IdleJob
<1>2. Spec => []TypeOK
  BY TypeCorrect
<1>3. PreferInv => LastRouteTrue
  BY DEF PreferInv
<1>. QED
  BY <1>1, <1>2, <1>3, SendCorrect, PreferStep, PTL DEF Spec

-----------------------------------------------------------------------------
(* The promise of the outbox. *)

TransportKinds == {"direct", "store_forward", "nostr"}

LEMMA KindOfBox ==
    ASSUME NEW r \in Mailboxes
    PROVE  KindOf(r) = "store_forward"
<1>1. r # Direct /\ r \notin NostrRoutes
  BY RoutesAssumption
<1>. QED
  BY <1>1 DEF KindOf

LEMMA KindOfRoute ==
    ASSUME NEW r \in Routes
    PROVE  KindOf(r) \in TransportKinds /\ StatusBy[KindOf(r)] = StatusVia(r)
<1>1. CASE r = Direct
  <2>1. r \notin Mailboxes /\ r \notin NostrRoutes
    BY <1>1, RoutesAssumption
  <2>2. KindOf(r) = "direct" /\ StatusVia(r) = "delivered"
    BY <1>1, <2>1 DEF KindOf, StatusVia
  <2>. QED
    BY <2>2 DEF TransportKinds, StatusBy
<1>2. CASE r \in Mailboxes
  <2>1. KindOf(r) = "store_forward" /\ StatusVia(r) = "queued"
    BY <1>2, KindOfBox, RoutesAssumption DEF StatusVia
  <2>. QED
    BY <2>1 DEF TransportKinds, StatusBy
<1>3. CASE r \in NostrRoutes
  <2>1. r # Direct /\ r \notin Mailboxes
    BY <1>3, RoutesAssumption
  <2>2. KindOf(r) = "nostr" /\ StatusVia(r) = "queued"
    BY <1>3, <2>1 DEF KindOf, StatusVia
  <2>. QED
    BY <2>2 DEF TransportKinds, StatusBy
<1>. QED
  BY <1>1, <1>2, <1>3 DEF Routes

LEMMA KindOfNone == KindOf(None) = None
  BY RoutesAssumption DEF KindOf, Routes

\* A mailbox is written to in the place of another one.
LEMMA KindOfDestination ==
    ASSUME NEW m \in Msgs, NEW r \in UNION Groups(m)
    PROVE  /\ r \in Routes
           /\ Destination(m, r) \in Routes
           /\ KindOf(Destination(m, r)) = KindOf(r)
<1>1. r \in Routes /\ Destination(m, r) \in Routes
  BY RoutesOfGroups, DestinationType
<1>2. CASE r \in Mailboxes
  <2>1. Destination(m, r) \in Mailboxes
    BY <1>2, DestinationType
  <2>2. KindOf(r) = "store_forward" /\ KindOf(Destination(m, r)) = "store_forward"
    BY <1>2, <2>1, KindOfBox
  <2>. QED
    BY <1>1, <2>2
<1>3. CASE r \notin Mailboxes
  BY <1>3, DestinationType
<1>. QED
  BY <1>1, <1>2, <1>3

LEMMA InitRefines == Init => Promise!Init
<1>. SUFFICES ASSUME Init PROVE Promise!Init
  OBVIOUS
<1>1. rtStatus = [m \in Msgs |-> NoStatus]
  BY DEF Init
<1>2. [m \in Msgs |-> KindOf(rtRoute[m])] = [m \in Msgs |-> None]
  BY KindOfNone DEF Init
<1>3. [m \in Msgs |-> KindsOf(m)] = [m \in Msgs |-> {}]
  BY DEF Init, KindsOf
<1>. QED
  BY <1>1, <1>2, <1>3 DEF Promise!Init

LEMMA TakeRefines ==
    ASSUME NEW m \in Msgs, NEW r \in Routes, rtStatus[m] # NoStatus,
           taken' = taken \cup {<<m, r>>}, UNCHANGED <<rtStatus, rtRoute>>
    PROVE  [Promise!Next]_(Promise!vars)
<1>1. KindsOf(m)' = KindsOf(m) \cup {KindOf(r)}
  BY DEF KindsOf
<1>2. \A n \in Msgs \ {m} : KindsOf(n)' = KindsOf(n)
  BY DEF KindsOf
<1>3. [n \in Msgs |-> KindsOf(n)]' =
        [[n \in Msgs |-> KindsOf(n)] EXCEPT ![m] = @ \cup {KindOf(r)}]
  BY <1>1, <1>2
<1>4. [n \in Msgs |-> KindOf(rtRoute[n])]' = [n \in Msgs |-> KindOf(rtRoute[n])]
  OBVIOUS
<1>5. Promise!Take(m, KindOf(r))
  BY <1>3, <1>4 DEF Promise!Take
<1>. QED
  BY <1>5, KindOfRoute DEF Promise!Next, TransportKinds

\* The row of a message is written for the first time, or with its outcome.
LEMMA ShowRefines ==
    ASSUME TypeOK, NEW m \in Msgs, MsgInv(m), SaveMessage(m)
    PROVE  [Promise!Next]_(Promise!vars)
<1>1. /\ rtStatus \in [Msgs -> MessageStatuses \cup {NoStatus}]
      /\ rtRoute \in [Msgs -> Routes \cup {None}]
      /\ job[m] \in Jobs
  BY DEF TypeOK
<1>2. /\ taken' = taken
      /\ rtStatus' = [rtStatus EXCEPT ![m] = MergeMessageStatus(@, job[m].status)]
      /\ rtRoute' = [rtRoute EXCEPT ![m] = job[m].route]
      /\ job[m].pc = "message"
  BY DEF SaveMessage
<1>3. [n \in Msgs |-> KindsOf(n)]' = [n \in Msgs |-> KindsOf(n)]
  BY <1>2 DEF KindsOf
<1>4. ASSUME KindOf(rtRoute[m]) = KindOf(job[m].route)
      PROVE  [n \in Msgs |-> KindOf(rtRoute[n])]' = [n \in Msgs |-> KindOf(rtRoute[n])]
  BY <1>1, <1>2, <1>4
<1>5. [n \in Msgs |-> KindOf(rtRoute[n])]' =
        [[n \in Msgs |-> KindOf(rtRoute[n])] EXCEPT ![m] = KindOf(job[m].route)]
  BY <1>1, <1>2
<1>6. CASE FirstPass(m)
  <2>1. rtStatus[m] = NoStatus /\ job[m].status = "pending" /\ job[m].route = None
    BY <1>6 DEF MsgInv, RowInv
  <2>2. rtRoute[m] = None
    BY <2>1 DEF MsgInv, Unsent
  <2>3. Promise!Post(m)
    BY <1>2, <1>3, <1>4, <2>1, <2>2, MergeFirst DEF Promise!Post
  <2>. QED
    BY <2>3 DEF Promise!Next
<1>7. CASE SecondPass(m)
  <2>1. rtStatus[m] = "pending" /\ rtRoute[m] = None
    BY <1>7 DEF MsgInv, RowInv
  <2>2. CASE job[m].status = "failed" /\ job[m].route = None
    <3>1. Promise!Fail(m)
      BY <1>2, <1>3, <1>4, <2>1, <2>2, MergeOutcome DEF Promise!Fail
    <3>. QED
      BY <3>1 DEF Promise!Next
  <2>3. CASE /\ Backed(m, job[m].route)
             /\ job[m].status = StatusVia(job[m].route)
    <3>. DEFINE k == KindOf(job[m].route)
    <3>1. /\ job[m].route \in Routes
          /\ <<m, Destination(m, job[m].route)>> \in taken
          /\ Destination(m, job[m].route) \in Routes
          /\ KindOf(Destination(m, job[m].route)) = k
      BY <2>3, KindOfDestination DEF Backed
    <3>2. k \in TransportKinds /\ StatusBy[k] = job[m].status
      BY <2>3, <3>1, KindOfRoute
    <3>3. k \in KindsOf(m)
      BY <3>1 DEF KindsOf
    <3>4. MergeMessageStatus(rtStatus[m], job[m].status) = StatusBy[k]
      BY <2>1, <2>3, <3>2, MergeOutcome, StatusViaType
    <3>. HIDE DEF k
    <3>5. [n \in Msgs |-> KindOf(rtRoute[n])]' =
            [[n \in Msgs |-> KindOf(rtRoute[n])] EXCEPT ![m] = k]
      BY <1>5 DEF k
    <3>6. Promise!Claim(m, k)
      BY <1>2, <1>3, <2>1, <3>3, <3>4, <3>5 DEF Promise!Claim
    <3>. QED
      BY <3>2, <3>6 DEF Promise!Next, TransportKinds
  <2>. QED
    BY <1>7, <2>2, <2>3 DEF MsgInv, OutcomeInv
<1>. QED
  BY <1>1, <1>2, <1>6, <1>7 DEF FirstPass, SecondPass, AtRows, Jobs

\* Every other step, but the one in which a route takes a message.
LEMMA RowsElsewhere ==
    ASSUME Next, \A m \in Msgs : ~SaveMessage(m)
    PROVE  UNCHANGED <<rtStatus, rtRoute>>
<1>1. CASE \E m \in Msgs : OwnStep(m)
  BY <1>1 DEF OwnStep, Begin, LoadContact, SaveContact, SaveConversation,
     UpdateDelivery, UpdateFails, RecordOutcome, OutcomeLost, Prepare, PrepareFails,
     Conclude, Stop, Accept, Refuse, LoseAnswer, messageRows
<1>2. CASE \/ \E m \in Msgs, r \in Routes : Land(m, r)
           \/ Others
           \/ OthersFail
  BY <1>2, OthersOnly
<1>. QED
  BY <1>1, <1>2, NextCases

LEMMA TakenElsewhere ==
    ASSUME Next, \A m \in Msgs, r \in Routes : ~Accept(m, r) /\ ~Land(m, r)
    PROVE  UNCHANGED taken
<1>1. CASE \E m \in Msgs : OwnStep(m)
  BY <1>1 DEF OwnStep, Begin, LoadContact, SaveContact, SaveConversation, SaveMessage,
     UpdateDelivery, UpdateFails, RecordOutcome, OutcomeLost, Prepare, PrepareFails,
     Conclude, Stop, Refuse, LoseAnswer
<1>2. CASE Others \/ OthersFail
  BY <1>2 DEF Others, OthersFail, StoreIncoming, StoreDirect, Receive,
       ShowIncoming, MarkRuntimeRead,
     MarkLegacyRead
<1>. QED
  BY <1>1, <1>2, NextCases

LEMMA StepRefines ==
    TypeOK /\ SendInv /\ [Next]_vars => [Promise!Next]_(Promise!vars)
<1>. SUFFICES ASSUME TypeOK, SendInv, [Next]_vars PROVE [Promise!Next]_(Promise!vars)
  OBVIOUS
<1>1. ASSUME NEW m \in Msgs, SaveMessage(m) PROVE [Promise!Next]_(Promise!vars)
  BY <1>1, ShowRefines DEF SendInv
<1>2. ASSUME NEW m \in Msgs, NEW r \in Routes, Accept(m, r)
      PROVE  [Promise!Next]_(Promise!vars)
  <2>1. job[m].pc = "send" /\ r \in Open(m)
    BY <1>2 DEF Accept
  <2>2. Destination(m, r) \in Routes
    BY <2>1, OpenRoutes DEF Calling
  <2>3. rtStatus[m] # NoStatus
    BY <2>1 DEF SendInv, MsgInv, RowInv, Calling, NoStatus
  <2>. QED
    BY <1>2, <2>2, <2>3, TakeRefines DEF Accept, messageRows
<1>3. ASSUME NEW m \in Msgs, NEW r \in Routes, Land(m, r)
      PROVE  [Promise!Next]_(Promise!vars)
  <2>1. rtStatus[m] # NoStatus
    BY <1>3 DEF SendInv, MsgInv, Unsent, Land
  <2>. QED
    BY <1>3, <2>1, TakeRefines DEF Land, messageRows
<1>4. ASSUME \A m \in Msgs : ~SaveMessage(m),
             \A m \in Msgs, r \in Routes : ~Accept(m, r) /\ ~Land(m, r)
      PROVE  UNCHANGED <<rtStatus, rtRoute, taken>>
  BY <1>4, RowsElsewhere, TakenElsewhere DEF vars, messageRows
<1>5. ASSUME UNCHANGED <<rtStatus, rtRoute, taken>> PROVE UNCHANGED Promise!vars
  <2>1. \A m \in Msgs : KindsOf(m)' = KindsOf(m)
    BY <1>5 DEF KindsOf
  <2>. QED
    BY <1>5, <2>1 DEF Promise!vars
<1>. QED
  BY <1>1, <1>2, <1>3, <1>4, <1>5

\* Whatever the routes, errors, crashes and overlapping sends, the runtime rows
\* do what Outbox says: nothing leaves the home before the row is written, and
\* an outcome is said once, of a transport that has taken the message.
THEOREM SendImplementsOutbox == Spec => ImplementsOutbox
<1>1. Spec => []TypeOK
  BY TypeCorrect
<1>. QED
  BY <1>1, SendCorrect, InitRefines, StepRefines, PTL
     DEF Spec, ImplementsOutbox, Promise!Spec
-----------------------------------------------------------------------------
(* The routes are tried one group after the other. *)

\* The direct route comes first, and the Nostr relays right after it.
LEMMA PlanOrder ==
    ASSUME NEW m \in Msgs, NEW i \in Nat \ {0}, i + 1 \in DOMAIN Plan(m)
    PROVE  /\ i \in DOMAIN Plan(m)
           /\ Direct \notin Plan(m)[i + 1]
           /\ Plan(m)[i + 1] \cap NostrRoutes # {} => Plan(m)[i] = {Direct}
<1>. DEFINE c == ConvOf[m]
            boxes == [j \in DOMAIN MailboxesOf[c] |-> {MailboxesOf[c][j]}]
            nostr == IF NostrRoutesOf(m) # {} THEN <<NostrRoutesOf(m)>> ELSE <<>>
            direct == IF c \in Dialable THEN <<{Direct}>> ELSE <<>>
            S == SUBSET Routes
<1>1. MailboxesOf[c] \in Seq(Mailboxes)
  BY ContactsAssumption
<1>2. /\ boxes \in Seq(S) /\ Len(boxes) \in Nat
      /\ \A j \in 1 .. Len(boxes) : \E b \in Mailboxes : boxes[j] = {b}
  <2>1. DOMAIN MailboxesOf[c] = 1 .. Len(MailboxesOf[c]) /\ Len(MailboxesOf[c]) \in Nat
    BY <1>1, LenProperties
  <2>2. \A j \in DOMAIN MailboxesOf[c] : MailboxesOf[c][j] \in Mailboxes
    BY <1>1, <2>1, ElementOfSeq
  <2>3. boxes \in [1 .. Len(MailboxesOf[c]) -> S]
    BY <2>1, <2>2 DEF Routes
  <2>4. \A j \in 1 .. Len(MailboxesOf[c]) : \E b \in Mailboxes : boxes[j] = {b}
    BY <2>1, <2>2
  <2>. HIDE DEF boxes
  <2>5. boxes \in Seq(S) /\ Len(boxes) = Len(MailboxesOf[c])
    BY <2>1, <2>3
  <2>. QED
    BY <2>1, <2>4, <2>5
<1>3. /\ nostr \in Seq(S) /\ Len(nostr) \in {0, 1}
      /\ Len(nostr) = 1 => nostr[1] \subseteq NostrRoutes
  BY DEF NostrRoutesOf, Routes
<1>4. /\ direct \in Seq(S) /\ Len(direct) \in {0, 1}
      /\ Len(direct) = 1 => direct[1] = {Direct}
  <2>1. {Direct} \in S
    BY DEF Routes
  <2>. HIDE DEF S
  <2>2. CASE c \in Dialable
    BY <2>1, <2>2
  <2>3. CASE c \notin Dialable
    BY <2>3
  <2>. QED
    BY <2>2, <2>3
<1>5. Plan(m) = direct \o nostr \o boxes
  BY DEF Plan
<1>6. /\ \A b \in Mailboxes : Direct # b /\ b \notin NostrRoutes
      /\ Direct \notin NostrRoutes
  BY RoutesAssumption
<1>. HIDE DEF boxes, nostr, direct, S
<1>7. /\ direct \o nostr \in Seq(S)
      /\ Len(direct \o nostr) = Len(direct) + Len(nostr)
      /\ \A j \in 1 .. Len(direct) + Len(nostr) : (direct \o nostr)[j] =
            IF j <= Len(direct) THEN direct[j] ELSE nostr[j - Len(direct)]
  BY <1>3, <1>4, ConcatProperties
<1>8. /\ Plan(m) \in Seq(S)
      /\ Len(Plan(m)) = Len(direct) + Len(nostr) + Len(boxes)
      /\ \A j \in 1 .. Len(direct) + Len(nostr) + Len(boxes) : Plan(m)[j] =
            IF j <= Len(direct) + Len(nostr) THEN (direct \o nostr)[j]
            ELSE boxes[j - (Len(direct) + Len(nostr))]
  BY <1>2, <1>5, <1>7, ConcatProperties
<1>9. DOMAIN Plan(m) = 1 .. Len(direct) + Len(nostr) + Len(boxes)
  BY <1>8, LenProperties
<1>10. i \in DOMAIN Plan(m) /\ i + 1 \in 1 .. Len(direct) + Len(nostr) + Len(boxes)
  BY <1>2, <1>3, <1>4, <1>9
<1>11. CASE i + 1 > Len(direct) + Len(nostr)
  <2>1. Plan(m)[i + 1] = boxes[i + 1 - (Len(direct) + Len(nostr))]
    BY <1>3, <1>4, <1>8, <1>10, <1>11
  <2>2. i + 1 - (Len(direct) + Len(nostr)) \in 1 .. Len(boxes)
    BY <1>2, <1>3, <1>4, <1>10, <1>11
  <2>3. PICK b \in Mailboxes : Plan(m)[i + 1] = {b}
    BY <1>2, <2>1, <2>2
  <2>. QED
    BY <1>6, <1>10, <2>3
<1>12. CASE i + 1 <= Len(direct) + Len(nostr)
  <2>1. i = 1 /\ Len(direct) = 1 /\ Len(nostr) = 1
    BY <1>3, <1>4, <1>12
  <2>2. Plan(m)[1] = direct[1] /\ Plan(m)[2] = nostr[1]
    BY <1>2, <1>7, <1>8, <2>1
  <2>. QED
    BY <1>3, <1>4, <1>6, <1>10, <2>1, <2>2
<1>. QED
  BY <1>2, <1>3, <1>4, <1>11, <1>12

\* A step within a group of routes.
CallStep(m) ==
    \/ UpdateDelivery(m) \/ UpdateFails(m)
    \/ RecordOutcome(m) \/ OutcomeLost(m)
    \/ \E r \in Routes : Accept(m, r) \/ Refuse(m, r) \/ LoseAnswer(m, r)

LEMMA CallStays ==
    ASSUME TypeOK, NEW m \in Msgs, CallStep(m)
    PROVE  /\ job[m].pc \in Calling /\ job'[m].pc \in Calling
           /\ job'[m].pass = job[m].pass
           /\ job'[m].recent = job[m].recent /\ job'[m].at = job[m].at
           /\ Plan(m)' = Plan(m) /\ Group(m)' = Group(m)
           /\ rtStatus' = rtStatus /\ rtRoute' = rtRoute
<1>1. job \in [Msgs -> Jobs] /\ job[m] \in Jobs
  BY TypeParts
<1>2. job[m].pc \in Calling /\ rtStatus' = rtStatus /\ rtRoute' = rtRoute
  BY DEF CallStep, UpdateDelivery, UpdateFails, RecordOutcome, OutcomeLost, Accept, Refuse,
     LoseAnswer, Calling, messageRows
<1>3. /\ job'[m].pc \in Calling /\ job'[m].pass = job[m].pass
      /\ job'[m].recent = job[m].recent /\ job'[m].at = job[m].at
  <2>1. CASE UpdateDelivery(m) \/ UpdateFails(m)
    <3>1. PICK r, ok : job' = [job EXCEPT ![m] = Answered(m, r, ok)]
      BY <2>1 DEF UpdateDelivery, UpdateFails
    <3>. QED
      BY <1>1, <3>1 DEF Answered, Jobs, Calling
  <2>2. CASE RecordOutcome(m) \/ OutcomeLost(m)
    BY <1>1, <1>2, <2>2 DEF RecordOutcome, OutcomeLost, Jobs
  <2>3. CASE \E r \in Routes : Accept(m, r) \/ Refuse(m, r) \/ LoseAnswer(m, r)
    <3>1. PICK r, ok : job' = [job EXCEPT ![m] = AfterCall(m, r, ok)]
      BY <2>3 DEF Accept, Refuse, LoseAnswer
    <3>2. CASE r \in Mailboxes
      <4>1. job' = [job EXCEPT ![m] = [job[m] EXCEPT !.pc = "update", !.reply = ok]]
        BY <3>1, <3>2 DEF AfterCall
      <4>. QED
        BY <1>1, <4>1 DEF Jobs, Calling
    <3>3. CASE r \notin Mailboxes
      <4>1. job' = [job EXCEPT ![m] = Answered(m, r, ok)]
        BY <3>1, <3>3 DEF AfterCall
      <4>. QED
        BY <1>1, <4>1 DEF Answered, Jobs, Calling
    <3>. QED
      BY <3>2, <3>3
  <2>. QED
    BY <2>1, <2>2, <2>3 DEF CallStep
<1>4. Plan(m)' = Plan(m)
  BY <1>3, PlanSame
<1>. QED
  BY <1>2, <1>3, <1>4 DEF Group

\* The routes a message has reached or may still reach.
Reached(m) == {r \in Routes : <<m, r>> \in taken \cup flying}

\* What the routes in g allow the message to have reached before them.
OnlyBy(m, g) ==
    /\ Direct \in g => Reached(m) \subseteq {Direct}
    /\ g \cap NostrRoutes # {} => Reached(m) \cap Mailboxes = {}

ReachInv(m) ==
    /\ FirstPass(m) \/ job[m].pc = "prepare" => Reached(m) = {}
    /\ job[m].pc \in Calling => OnlyBy(m, Group(m))
    /\ SecondPass(m) => OnlyBy(m, {job[m].route})
    /\ OnlyBy(m, {rtRoute[m]})

LEMMA NoneNoRoute == None # Direct /\ None \notin NostrRoutes
  BY RoutesAssumption DEF Routes

LEMMA ReachNothing ==
    ASSUME NEW m \in Msgs, Reached(m) = {}
    PROVE  ReachInv(m)
  BY DEF ReachInv, OnlyBy

LEMMA ReachElsewhere ==
    ASSUME NEW m \in Msgs, ReachInv(m), Reached(m)' \subseteq Reached(m),
           job'[m] = job[m], rtRoute'[m] = rtRoute[m]
    PROVE  ReachInv(m)'
<1>1. Group(m)' = Group(m)
  BY PlanSame DEF Group
<1>2. \A g : OnlyBy(m, g) => /\ Direct \in g => Reached(m)' \subseteq {Direct}
                             /\ g \cap NostrRoutes # {} => Reached(m)' \cap Mailboxes = {}
  BY DEF OnlyBy
<1>3. FirstPass(m)' = FirstPass(m) /\ SecondPass(m)' = SecondPass(m)
  BY DEF FirstPass, SecondPass, AtRows
<1>. QED
  BY <1>1, <1>2, <1>3 DEF ReachInv, OnlyBy

LEMMA ReachOwn ==
    ASSUME TypeOK, NEW m \in Msgs, MsgInv(m), ReachInv(m), OwnStep(m)
    PROVE  ReachInv(m)'
<1>1. job \in [Msgs -> Jobs] /\ job[m] \in Jobs /\ TablesOK
  BY TypeParts
<1>2. CASE CallStep(m)
  <2>1. /\ job'[m].pc \in Calling /\ Group(m)' = Group(m)
        /\ rtRoute'[m] = None
        /\ OnlyBy(m, Group(m))
    BY <1>2, CallStays DEF MsgInv, RowInv, ReachInv
  <2>2. OnlyBy(m, Group(m))'
    <3>1. CASE \E r \in Routes : Accept(m, r) \/ LoseAnswer(m, r)
      <4>1. PICK r \in Routes : Accept(m, r) \/ LoseAnswer(m, r)
        BY <3>1
      <4>2. job[m].pc \in Calling /\ r \in Open(m)
        BY <4>1 DEF Accept, LoseAnswer, Calling
      <4>3. r \in Group(m) /\ r \in UNION Groups(m) /\ Group(m) \in Groups(m)
        BY <4>2, OpenRoutes, JobType
      <4>4. Reached(m)' \subseteq Reached(m) \cup {Destination(m, r)}
        BY <4>1 DEF Accept, LoseAnswer, Reached
      <4>5. Direct \in Group(m) => Group(m) = {Direct}
        BY <4>3, GroupKinds, BoxType, RoutesAssumption
      <4>6. Group(m) \cap NostrRoutes # {} => r \notin Mailboxes
        BY <4>3, GroupKinds, BoxType, RoutesAssumption
      <4>7. Destination(m, r) \in Mailboxes => r \in Mailboxes
        BY <4>3, DestinationType
      <4>8. Direct \in Group(m) => Destination(m, r) = Direct
        BY <4>3, <4>5, RoutesAssumption DEF Destination
      <4>. QED
        BY <2>1, <4>4, <4>6, <4>7, <4>8 DEF OnlyBy
    <3>2. CASE UNCHANGED <<taken, flying>>
      BY <2>1, <3>2 DEF OnlyBy, Reached
    <3>3. \/ \E r \in Routes : Accept(m, r) \/ LoseAnswer(m, r)
          \/ UNCHANGED <<taken, flying>>
      BY <1>2 DEF CallStep, UpdateDelivery, UpdateFails, RecordOutcome, OutcomeLost, Refuse
    <3>. QED
      BY <3>1, <3>2, <3>3
  <2>. QED
    BY <2>1, <2>2, NoneNoRoute DEF ReachInv, FirstPass, SecondPass, AtRows, Calling, OnlyBy
<1>3. CASE Begin(m) \/ LoadContact(m) \/ SaveContact(m) \/ SaveConversation(m) \/ SaveMessage(m)
  <2>1. Reached(m)' = Reached(m)
    BY <1>3 DEF Begin, LoadContact, SaveContact, SaveConversation, SaveMessage, Reached
  <2>2. CASE FirstPass(m)
    <3>1. Reached(m)' = {}
      BY <2>1, <2>2 DEF ReachInv
    <3>. QED
      BY <3>1 DEF ReachInv, OnlyBy
  <2>3. CASE SecondPass(m)
    <3>1. CASE SaveMessage(m)
      <4>1. job'[m].pc = "done" /\ rtRoute'[m] = job[m].route
        BY <1>1, <2>3, <3>1 DEF SaveMessage, AfterRows, SecondPass, Jobs, TablesOK
      <4>. QED
        BY <2>1, <2>3, <4>1 DEF ReachInv, OnlyBy, FirstPass, SecondPass, AtRows, Calling
    <3>2. CASE SaveContact(m) \/ SaveConversation(m)
      <4>1. /\ job'[m].pc \in {"conversation", "message"} /\ job'[m].pass = job[m].pass
            /\ job'[m].route = job[m].route /\ rtRoute' = rtRoute
        BY <1>1, <3>2 DEF SaveContact, SaveConversation, Jobs, messageRows
      <4>. QED
        BY <2>1, <2>3, <4>1 DEF ReachInv, OnlyBy, FirstPass, SecondPass, AtRows, Calling
    <3>3. ~Begin(m) /\ ~LoadContact(m)
      BY <2>3 DEF Begin, LoadContact, SecondPass, AtRows
    <3>. QED
      BY <1>3, <3>1, <3>2, <3>3
  <2>4. FirstPass(m) \/ SecondPass(m)
    BY <1>1, <1>3 DEF Begin, LoadContact, SaveContact, SaveConversation, SaveMessage,
       FirstPass, SecondPass, AtRows, Jobs
  <2>. QED
    BY <2>2, <2>3, <2>4
<1>4. CASE Prepare(m) \/ PrepareFails(m)
  <2>1. Reached(m)' = {}
    BY <1>4 DEF Prepare, PrepareFails, ReachInv, Reached
  <2>. QED
    BY <2>1 DEF ReachInv, OnlyBy
<1>5. CASE Conclude(m)
  <2>1. /\ job[m].pc \in Calling /\ Reached(m)' = Reached(m)
        /\ rtRoute'[m] = None
        /\ OnlyBy(m, Group(m))
    BY <1>5 DEF Conclude, Calling, Reached, ReachInv, messageRows, MsgInv, RowInv
  <2>2. job[m].at \in DOMAIN Plan(m) /\ Plan(m) \in Seq(Groups(m))
    BY <2>1, JobType, PlanType
  <2>3. ASSUME NEW o, NEW r, job' = [job EXCEPT ![m] = Settled(m, o, r)],
               r = None \/ r \in Group(m)
        PROVE  ReachInv(m)'
    <3>1. /\ job'[m].pc = "contact" /\ job'[m].pass = 2 /\ job'[m].route = r
      BY <1>1, <2>3 DEF Settled, Jobs
    <3>2. OnlyBy(m, {r})
      BY <2>1, <2>3, NoneNoRoute DEF OnlyBy
    <3>. QED
      BY <2>1, <3>1, <3>2, NoneNoRoute DEF ReachInv, OnlyBy, FirstPass, SecondPass, AtRows, Calling
  <2>4. CASE job[m].accepted # {}
    <3>1. PICK r \in job[m].accepted : job' = [job EXCEPT ![m] = Settled(m, StatusVia(r), r)]
      BY <1>5, <2>4 DEF Conclude
    <3>2. r \in Group(m)
      BY <2>1 DEF MsgInv, CallInv
    <3>. QED
      BY <2>3, <3>1, <3>2
  <2>5. CASE job[m].accepted = {} /\ job[m].at + 1 \notin DOMAIN Plan(m)
    <3>1. job' = [job EXCEPT ![m] = Settled(m, "failed", None)]
      BY <1>5, <2>5 DEF Conclude, TryGroup
    <3>. QED
      BY <2>3, <3>1
  <2>6. CASE job[m].accepted = {} /\ job[m].at + 1 \in DOMAIN Plan(m)
    <3>1. /\ job'[m].pc = "send" /\ job'[m].at = job[m].at + 1
          /\ job'[m].recent = job[m].recent
      <4>. DEFINE j == [job[m] EXCEPT !.pc = "send", !.at = job[m].at + 1, !.accepted = {},
                                      !.refused = {}, !.audited = {}]
      <4>1. job' = [job EXCEPT ![m] = j]
        BY <1>5, <2>6 DEF Conclude, TryGroup
      <4>2. j.pc = "send" /\ j.at = job[m].at + 1 /\ j.recent = job[m].recent
        BY <1>1 DEF Jobs
      <4>. QED
        BY <1>1, <4>1, <4>2
    <3>2. Plan(m)' = Plan(m)
      BY <3>1, PlanSame
    <3>3. Group(m)' = Plan(m)[job[m].at + 1]
      BY <3>1, <3>2 DEF Group
    <3>4. job[m].at \in Nat \ {0}
      BY <2>2
    <3>5. /\ Direct \notin Group(m)'
          /\ Group(m)' \cap NostrRoutes # {} => Group(m) = {Direct}
      BY <2>6, <3>3, <3>4, PlanOrder DEF Group
    <3>6. OnlyBy(m, Group(m)')
      BY <2>1, <3>5, RoutesAssumption DEF OnlyBy
    <3>7. OnlyBy(m, Group(m))'
      BY <2>1, <3>6 DEF OnlyBy
    <3>. QED
      BY <2>1, <3>1, <3>7, NoneNoRoute DEF ReachInv, OnlyBy, FirstPass, SecondPass, AtRows, Calling
  <2>. QED
    BY <2>4, <2>5, <2>6
<1>6. CASE Stop(m)
  <2>1. job'[m].pc = "done" /\ rtRoute' = rtRoute
    BY <1>1, <1>6 DEF Stop, Jobs, messageRows
  <2>2. OnlyBy(m, {rtRoute[m]})'
    <3>1. CASE job[m].pc = "send"
      BY <2>1, <3>1, NoneNoRoute DEF MsgInv, RowInv, Calling, OnlyBy
    <3>2. CASE job[m].pc # "send"
      BY <1>6, <2>1, <3>2 DEF Stop, ReachInv, OnlyBy, Reached
    <3>. QED
      BY <3>1, <3>2
  <2>. QED
    BY <2>1, <2>2 DEF ReachInv, FirstPass, SecondPass, AtRows, Calling
<1>. QED
  BY <1>2, <1>3, <1>4, <1>5, <1>6 DEF OwnStep, CallStep

LEMMA ReachStep ==
    TypeOK /\ SendInv /\ (\A m \in Msgs : ReachInv(m)) /\ [Next]_vars
        => \A m \in Msgs : ReachInv(m)'
<1>. SUFFICES ASSUME TypeOK, SendInv, \A m \in Msgs : ReachInv(m), [Next]_vars,
                     NEW n \in Msgs
              PROVE  ReachInv(n)'
  OBVIOUS
<1>0. MsgInv(n)
  BY DEF SendInv
<1>1. CASE \E m \in Msgs : OwnStep(m)
  <2>1. PICK m \in Msgs : OwnStep(m)
    BY <1>1
  <2>2. CASE n = m
    BY <1>0, <2>1, <2>2, ReachOwn
  <2>3. CASE n # m
    <3>1. /\ \A r \in Routes : <<n, r>> \in taken' \cup flying' => <<n, r>> \in taken \cup flying
          /\ job'[n] = job[n] /\ rtRoute'[n] = rtRoute[n]
      BY <2>1, <2>3, OwnOnly
    <3>2. Reached(n)' \subseteq Reached(n)
      BY <3>1 DEF Reached
    <3>. QED
      BY <3>1, <3>2, ReachElsewhere
  <2>. QED
    BY <2>2, <2>3
<1>2. CASE ~\E m \in Msgs : OwnStep(m)
  <2>1. /\ taken' \cup flying' \subseteq taken \cup flying
        /\ job' = job /\ rtRoute' = rtRoute
    BY <1>2, NextCases, OthersOnly DEF vars, messageRows
  <2>2. Reached(n)' \subseteq Reached(n)
    BY <2>1 DEF Reached
  <2>. QED
    BY <2>1, <2>2, ReachElsewhere
<1>. QED
  BY <1>1, <1>2

\* A message that was delivered directly reaches nobody else, and one a Nostr
\* relay took no mailbox - not by a request either that lands when the sender
\* has given it up.
THEOREM EarliestRouteOnly == Spec => []EarliestRoute
<1>. DEFINE I == \A m \in Msgs : ReachInv(m)
<1>1. Init => I
  BY ReachNothing DEF Init, Reached
<1>2. TypeOK /\ SendInv /\ I /\ [Next]_vars => I'
  BY ReachStep
<1>3. TypeOK /\ I => EarliestRoute
  <2>. SUFFICES ASSUME TypeOK, I, NEW m \in Msgs, NEW r \in Routes,
                       <<m, r>> \in taken \cup flying
                PROVE  /\ rtRoute[m] = Direct => r = Direct
                       /\ rtRoute[m] \in NostrRoutes => r \notin Mailboxes
    BY DEF EarliestRoute
  <2>1. r \in Reached(m) /\ OnlyBy(m, {rtRoute[m]})
    BY DEF Reached, ReachInv
  <2>. QED
    BY <2>1 DEF OnlyBy
<1>4. Spec => []TypeOK
  BY TypeCorrect
<1>. QED
  BY <1>1, <1>2, <1>3, <1>4, SendCorrect, PTL DEF Spec

-----------------------------------------------------------------------------
(* What the message tables say of a mailbox. *)

\* A message they say is queued was taken, and the send is to say so.
LegacyInv(m) ==
    status[m] = "queued" =>
        /\ <<m, MailboxesOf[ConvOf[m]][1]>> \in taken
        /\ \/ job[m].pc = "record" /\ job[m].accepted \cap Mailboxes # {}
           \/ SecondPass(m) /\ job[m].status = "queued"
           \/ job[m].pc = "done" /\ rtStatus[m] \in {"pending", "queued"}

\* A mailbox is asked alone.
AloneInv(m) ==
    job[m].pc = "update" => job[m].accepted = {} /\ job[m].refused = {}

LEMMA AloneOwn ==
    ASSUME TypeOK, NEW m \in Msgs, MsgInv(m), AloneInv(m), OwnStep(m)
    PROVE  AloneInv(m)'
<1>1. job \in [Msgs -> Jobs] /\ job[m] \in Jobs
  BY TypeParts
<1>2. ASSUME NEW r \in Routes, Accept(m, r) \/ Refuse(m, r) \/ LoseAnswer(m, r)
      PROVE  AloneInv(m)'
  <2>1. job[m].pc \in Calling /\ r \in Open(m)
    BY <1>2 DEF Accept, Refuse, LoseAnswer, Calling
  <2>2. PICK ok : job' = [job EXCEPT ![m] = AfterCall(m, r, ok)]
    BY <1>2 DEF Accept, Refuse, LoseAnswer
  <2>3. CASE r \in Mailboxes
    <3>1. r \in Group(m) /\ Group(m) \in Groups(m)
      BY <2>1, OpenRoutes, JobType
    <3>2. Group(m) = {r}
      BY <2>3, <3>1, BoxAlone
    <3>3. job[m].accepted = {} /\ job[m].refused = {}
      BY <2>1, <3>2 DEF MsgInv, CallInv, Open
    <3>4. job' = [job EXCEPT ![m] = [job[m] EXCEPT !.pc = "update", !.reply = ok]]
      BY <2>2, <2>3 DEF AfterCall
    <3>. QED
      BY <1>1, <3>3, <3>4 DEF AloneInv, Jobs
  <2>4. CASE r \notin Mailboxes
    <3>1. job' = [job EXCEPT ![m] = Answered(m, r, ok)]
      BY <2>2, <2>4 DEF AfterCall
    <3>. QED
      BY <1>1, <3>1 DEF Answered, AloneInv, Jobs
  <2>. QED
    BY <2>3, <2>4
<1>3. CASE UpdateDelivery(m) \/ UpdateFails(m)
  <2>1. PICK r, ok : job' = [job EXCEPT ![m] = Answered(m, r, ok)]
    BY <1>3 DEF UpdateDelivery, UpdateFails
  <2>. QED
    BY <1>1, <2>1 DEF Answered, AloneInv, Jobs
<1>4. CASE Prepare(m) \/ PrepareFails(m) \/ Conclude(m)
  <2>1. \/ \E o, r : job' = [job EXCEPT ![m] = Settled(m, o, r)]
        \/ \E i : job' = [job EXCEPT ![m] = TryGroup(m, i)]
    BY <1>4 DEF Prepare, PrepareFails, Conclude
  <2>2. \A o, r, i : Settled(m, o, r).pc = "contact" /\ TryGroup(m, i).pc \in {"send", "contact"}
    BY <1>1 DEF Settled, TryGroup, Jobs
  <2>3. job'[m].pc \in {"send", "contact"}
    BY <1>1, <2>1, <2>2
  <2>. QED
    BY <2>3 DEF AloneInv
<1>5. CASE Begin(m) \/ LoadContact(m) \/ SaveContact(m) \/ SaveConversation(m) \/ SaveMessage(m)
           \/ RecordOutcome(m) \/ OutcomeLost(m) \/ Stop(m)
  <2>1. job'[m].pc # "update"
    BY <1>1, <1>5 DEF Begin, LoadContact, SaveContact, SaveConversation, SaveMessage, AfterRows,
       RecordOutcome, OutcomeLost, Stop, Jobs
  <2>. QED
    BY <2>1 DEF AloneInv
<1>. QED
  BY <1>2, <1>3, <1>4, <1>5 DEF OwnStep

\* The last answer of a group that is one mailbox.
LEMMA BoxAnswered ==
    ASSUME TypeOK, NEW m \in Msgs, MsgInv(m), AloneInv(m), job[m].pc = "update",
           NEW r \in Open(m), NEW ok \in BOOLEAN,
           job' = [job EXCEPT ![m] = Answered(m, r, ok)]
    PROVE  /\ r \in Mailboxes /\ Group(m) = {r}
           /\ job'[m].pc = "record"
           /\ job'[m].accepted = IF ok THEN {r} ELSE {}
           /\ job'[m].refused = IF ok THEN {} ELSE {r}
<1>1. job \in [Msgs -> Jobs] /\ job[m] \in Jobs
  BY TypeParts
<1>2. job[m].accepted = {} /\ job[m].refused = {}
  BY DEF AloneInv
<1>3. PICK b \in Mailboxes : Group(m) = {b}
  BY DEF MsgInv, CallInv
<1>4. r = b /\ Open(m) = {r}
  BY <1>2, <1>3 DEF Open
<1>. QED
  BY <1>1, <1>2, <1>3, <1>4 DEF Answered, Jobs

LEMMA LegacyOwn ==
    ASSUME TypeOK, NEW m \in Msgs, MsgInv(m), AloneInv(m), LegacyInv(m), OwnStep(m)
    PROVE  LegacyInv(m)'
<1>1. job \in [Msgs -> Jobs] /\ job[m] \in Jobs /\ TablesOK
  BY TypeParts
<1>2. taken \subseteq taken'
  BY DEF OwnStep, Begin, LoadContact, SaveContact, SaveConversation, SaveMessage,
     UpdateDelivery, UpdateFails, RecordOutcome, OutcomeLost, Prepare, PrepareFails,
     Conclude, Stop, Accept, Refuse, LoseAnswer
<1>3. CASE UpdateDelivery(m)
  <2>1. PICK r \in Open(m) :
           /\ status' = [status EXCEPT ![m] = IF job[m].reply THEN "queued" ELSE "failed"]
           /\ job' = [job EXCEPT ![m] = Answered(m, r, job[m].reply)]
    BY <1>3 DEF UpdateDelivery
  <2>2. CASE ~job[m].reply
    <3>1. status'[m] = "failed"
      BY <1>1, <2>1, <2>2 DEF TablesOK
    <3>. QED
      BY <3>1 DEF LegacyInv
  <2>3. CASE job[m].reply
    <3>1. job[m].reply = TRUE
      BY <1>1, <2>3 DEF Jobs
    <3>2. /\ r \in Mailboxes /\ Group(m) = {r}
          /\ job'[m].pc = "record" /\ job'[m].accepted = {r}
      <4>1. job[m].pc = "update"
        BY <1>3 DEF UpdateDelivery
      <4>2. job' = [job EXCEPT ![m] = Answered(m, r, TRUE)]
        BY <2>1, <3>1
      <4>. QED
        BY <4>1, <4>2, BoxAnswered
    <3>3. Backed(m, r)
      BY <1>3, <2>3, <3>2 DEF UpdateDelivery, MsgInv, CallInv
    <3>4. <<m, MailboxesOf[ConvOf[m]][1]>> \in taken
      BY <3>2, <3>3 DEF Backed, Destination
    <3>. QED
      BY <1>2, <3>2, <3>4 DEF LegacyInv
  <2>. QED
    BY <2>2, <2>3
<1>4. CASE Begin(m)
  <2>1. status'[m] = "pending"
    BY <1>1, <1>4 DEF Begin, TablesOK
  <2>. QED
    BY <2>1 DEF LegacyInv
<1>5. ASSUME ~UpdateDelivery(m), ~Begin(m) PROVE status' = status
  BY <1>5 DEF OwnStep, LoadContact, SaveContact, SaveConversation, SaveMessage,
     UpdateFails, RecordOutcome, OutcomeLost, Prepare, PrepareFails,
     Conclude, Stop, Accept, Refuse, LoseAnswer, tableVars
<1>6. ASSUME status' = status, status[m] # "queued" PROVE LegacyInv(m)'
  BY <1>6 DEF LegacyInv
<1>7. ASSUME status' = status, status[m] = "queued" PROVE LegacyInv(m)'
  <2>1. <<m, MailboxesOf[ConvOf[m]][1]>> \in taken'
    BY <1>2, <1>7 DEF LegacyInv
  <2>2. ASSUME \/ job'[m].pc = "record" /\ job'[m].accepted \cap Mailboxes # {}
               \/ SecondPass(m)' /\ job'[m].status = "queued"
               \/ job'[m].pc = "done" /\ rtStatus'[m] \in {"pending", "queued"}
        PROVE  LegacyInv(m)'
    BY <2>1, <2>2 DEF LegacyInv
  <2>3. CASE job[m].pc = "record" /\ job[m].accepted \cap Mailboxes # {}
    <3>1. PICK b \in Mailboxes : b \in job[m].accepted
      BY <2>3
    <3>2. Group(m) \in Groups(m) /\ job[m].accepted \subseteq Group(m) /\ rtStatus[m] = "pending"
      BY <2>3, JobType DEF MsgInv, CallInv, RowInv, Calling
    <3>3. job[m].accepted = {b}
      BY <3>1, <3>2, BoxAlone
    <3>4. CASE RecordOutcome(m) \/ OutcomeLost(m)
      <4>1. job'[m].pc = "record" /\ job'[m].accepted = job[m].accepted
        BY <1>1, <2>3, <3>4 DEF RecordOutcome, OutcomeLost, Jobs
      <4>. QED
        BY <2>2, <2>3, <4>1
    <3>5. CASE Conclude(m)
      <4>1. job' = [job EXCEPT ![m] = Settled(m, StatusVia(b), b)]
        BY <3>3, <3>5 DEF Conclude
      <4>2. StatusVia(b) = "queued"
        BY RoutesAssumption DEF StatusVia
      <4>3. job'[m].pc = "contact" /\ job'[m].pass = 2 /\ job'[m].status = "queued"
        BY <1>1, <4>1, <4>2 DEF Settled, Jobs
      <4>. QED
        BY <2>2, <4>3 DEF SecondPass, AtRows
    <3>6. CASE Stop(m)
      BY <1>1, <2>2, <3>2, <3>6 DEF Stop, Jobs, messageRows
    <3>. QED
      BY <2>3, <3>4, <3>5, <3>6 DEF OwnStep, Begin, LoadContact, SaveContact, SaveConversation,
         SaveMessage, UpdateDelivery, UpdateFails, Prepare, PrepareFails, Accept, Refuse,
         LoseAnswer
  <2>4. CASE SecondPass(m) /\ job[m].status = "queued"
    <3>1. rtStatus[m] = "pending"
      BY <2>4 DEF MsgInv, RowInv
    <3>2. CASE SaveContact(m) \/ SaveConversation(m)
      <4>1. /\ job'[m].pc \in {"conversation", "message"} /\ job'[m].pass = job[m].pass
            /\ job'[m].status = job[m].status
        BY <1>1, <3>2 DEF SaveContact, SaveConversation, Jobs
      <4>. QED
        BY <2>2, <2>4, <4>1 DEF SecondPass, AtRows
    <3>3. CASE SaveMessage(m)
      <4>1. job'[m].pc = "done"
        BY <1>1, <2>4, <3>3 DEF SaveMessage, AfterRows, SecondPass, Jobs
      <4>2. rtStatus'[m] = "queued"
        BY <1>1, <2>4, <3>1, <3>3, MergeOutcome DEF SaveMessage, TablesOK
      <4>. QED
        BY <2>2, <4>1, <4>2
    <3>4. CASE Stop(m)
      BY <1>1, <2>2, <3>1, <3>4 DEF Stop, Jobs, messageRows
    <3>. QED
      BY <2>4, <3>2, <3>3, <3>4 DEF OwnStep, Begin, LoadContact, UpdateDelivery, UpdateFails,
         RecordOutcome, OutcomeLost, Prepare, PrepareFails, Conclude, Accept, Refuse,
         LoseAnswer, SecondPass, AtRows
  <2>5. job[m].pc # "done"
    BY DEF OwnStep, Begin, LoadContact, SaveContact, SaveConversation, SaveMessage,
       UpdateDelivery, UpdateFails, RecordOutcome, OutcomeLost, Prepare, PrepareFails,
       Conclude, Stop, Accept, Refuse, LoseAnswer
  <2>. QED
    BY <1>7, <2>3, <2>4, <2>5 DEF LegacyInv
<1>. QED
  BY <1>3, <1>4, <1>5, <1>6, <1>7

\* A step of another message, of a route, of a sync or of a reader.
LEMMA StatusElsewhere ==
    ASSUME TypeOK, [Next]_vars, NEW n \in Msgs, ~OwnStep(n)
    PROVE  /\ taken \subseteq taken'
           /\ job'[n] = job[n] /\ rtStatus'[n] = rtStatus[n] /\ status'[n] = status[n]
<1>1. status \in [Msgs -> MessageStatuses \cup {NoStatus}]
  BY DEF TypeOK
<1>2. CASE \E m \in Msgs : OwnStep(m)
  <2>1. PICK m \in Msgs : OwnStep(m)
    BY <1>2
  <2>2. /\ taken \subseteq taken'
        /\ job'[n] = job[n] /\ rtStatus'[n] = rtStatus[n]
    BY <2>1, OwnOnly
  <2>3. status'[n] = status[n]
    BY <1>1, <2>1 DEF OwnStep, Begin, LoadContact, SaveContact, SaveConversation, SaveMessage,
       UpdateDelivery, UpdateFails, RecordOutcome, OutcomeLost, Prepare, PrepareFails,
       Conclude, Stop, Accept, Refuse, LoseAnswer, tableVars
  <2>. QED
    BY <2>2, <2>3
<1>3. CASE ~\E m \in Msgs : OwnStep(m)
  <2>1. taken \subseteq taken' /\ job' = job /\ rtStatus' = rtStatus
    BY <1>3, NextCases, OthersOnly DEF vars, messageRows
  <2>2. CASE \/ \E m \in Msgs, r \in Routes : Land(m, r)
             \/ Others
             \/ OthersFail
    BY <2>1, <2>2 DEF Land, Others, OthersFail, StoreIncoming, StoreDirect, Receive,
       ShowIncoming, MarkRuntimeRead,
       MarkLegacyRead, tableVars
  <2>3. CASE UNCHANGED vars
    BY <2>1, <2>3 DEF vars, tableVars
  <2>. QED
    BY <1>3, <2>2, <2>3, NextCases
<1>. QED
  BY <1>2, <1>3

\* A message that the message tables say is queued was taken by the contact's
\* mailbox and the outbox does not say that it failed, wherever the send stops
\* between the two tables.
THEOREM TablesAgree == Spec => []LegacyAgrees
<1>. DEFINE I == \A m \in Msgs : LegacyInv(m) /\ AloneInv(m)
<1>1. Init => I
  <2>. SUFFICES ASSUME Init, NEW m \in Msgs PROVE LegacyInv(m) /\ AloneInv(m)
    OBVIOUS
  <2>1. status[m] = NoStatus /\ job[m].pc = "idle"
    BY DEF Init, IdleJob
  <2>. QED
    BY <2>1 DEF LegacyInv, AloneInv, NoStatus
<1>2. TypeOK /\ SendInv /\ I /\ [Next]_vars => I'
  <2>. SUFFICES ASSUME TypeOK, SendInv, I, [Next]_vars, NEW n \in Msgs
                PROVE  LegacyInv(n)' /\ AloneInv(n)'
    OBVIOUS
  <2>0. MsgInv(n) /\ LegacyInv(n) /\ AloneInv(n)
    BY DEF SendInv
  <2>1. CASE OwnStep(n)
    BY <2>0, <2>1, LegacyOwn, AloneOwn
  <2>2. CASE ~OwnStep(n)
    BY <2>0, <2>2, StatusElsewhere DEF LegacyInv, AloneInv, SecondPass, AtRows
  <2>. QED
    BY <2>1, <2>2
<1>3. SendInv /\ I => LegacyAgrees
  <2>. SUFFICES ASSUME SendInv, I, NEW m \in Msgs, status[m] = "queued"
                PROVE  /\ <<m, MailboxesOf[ConvOf[m]][1]>> \in taken
                       /\ rtStatus[m] \in {"pending", "queued"}
    BY DEF LegacyAgrees
  <2>. QED
    BY DEF LegacyInv, SendInv, MsgInv, RowInv, Calling
<1>4. Spec => []TypeOK
  BY TypeCorrect
<1>. QED
  BY <1>1, <1>2, <1>3, <1>4, SendCorrect, PTL DEF Spec

-----------------------------------------------------------------------------
(* One process at a time. *)

Active(m) == job[m].pc \notin {"idle", "done"}

\* The snapshot of the transaction is not in the runtime rows yet.
Unrepeated(m) == job[m].pc \in {"load", "contact", "conversation"} /\ job[m].pass = 1

\* What the inbox may show of a conversation.
Shows(c) ==
    /\ rtConv[c].last = conv[c].last
    /\ rtConv[c].unread = conv[c].unread \/ ShownAsOne(c)

AllShow == \A c \in Convs : Shows(c)

SameBut(c) == \A d \in Convs \ {c} : Shows(d)

OneActive ==
    /\ \A m, n \in Msgs : Active(m) /\ Active(n) => m = n
    /\ \A m \in Msgs : Active(m) => incoming = NoIncoming /\ reader = None
    /\ incoming = NoIncoming \/ reader = None

\* The rows differ only where the process that runs has still to write.
PendingRows ==
    /\ Quiet => AllShow
    /\ \A m \in Msgs : Active(m) =>
          /\ SameBut(ConvOf[m])
          /\ job[m].conv = conv[ConvOf[m]]
          /\ Unrepeated(m) \/ rtConv[ConvOf[m]] = conv[ConvOf[m]]
    /\ incoming # NoIncoming =>
          /\ SameBut(incoming.conv)
          /\ conv[incoming.conv].last = Incoming /\ conv[incoming.conv].unread > 0
          /\ incoming.unread \in {1, conv[incoming.conv].unread}
    /\ reader # None =>
          /\ SameBut(reader)
          /\ rtConv[reader] = [conv[reader] EXCEPT !.unread = 0]

SerialInv == Serial => OneActive /\ PendingRows

LEMMA QuietOrActive ==
    Quiet <=> /\ \A m \in Msgs : ~Active(m)
              /\ incoming = NoIncoming
              /\ reader = None
  BY DEF Quiet, Active

\* The steps of a message, but for its end by an error or a crash.
RunStep(m) ==
    \/ Begin(m) \/ LoadContact(m) \/ SaveContact(m) \/ SaveConversation(m)
    \/ SaveMessage(m) \/ CallStep(m)
    \/ Prepare(m) \/ PrepareFails(m) \/ Conclude(m)

LEMMA RunIsOwn ==
    ASSUME NEW m \in Msgs, RunStep(m)
    PROVE  OwnStep(m)
  BY DEF RunStep, CallStep, OwnStep

LEMMA RunCases ==
    ASSUME Running
    PROVE  \/ \E m \in Msgs : RunStep(m)
           \/ \E m \in Msgs, r \in Routes : Land(m, r)
           \/ Others
  BY DEF Running, Calm, Sending, Local, Reply, Network, StoreError, RunStep, CallStep

\* A step of a message that runs, but the one that writes the conversation.
LEMMA ActiveStays ==
    ASSUME TypeOK, NEW m \in Msgs, RunStep(m), ~Begin(m), ~SaveConversation(m)
    PROVE  /\ Active(m)
           /\ conv' = conv /\ rtConv' = rtConv /\ incoming' = incoming /\ reader' = reader
           /\ job'[m].conv = job[m].conv
           /\ Unrepeated(m) => Unrepeated(m)' /\ Active(m)'
<1>1. job \in [Msgs -> Jobs] /\ job[m] \in Jobs
  BY TypeParts
<1>2. Active(m)
  BY DEF Active, RunStep, CallStep, LoadContact, SaveContact, SaveMessage,
     UpdateDelivery, UpdateFails, RecordOutcome, OutcomeLost, Prepare, PrepareFails,
     Conclude, Accept, Refuse, LoseAnswer
<1>3. conv' = conv /\ rtConv' = rtConv /\ incoming' = incoming /\ reader' = reader
  BY DEF RunStep, CallStep, LoadContact, SaveContact, SaveMessage,
     UpdateDelivery, UpdateFails, RecordOutcome, OutcomeLost, Prepare, PrepareFails,
     Conclude, Accept, Refuse, LoseAnswer, tableVars, contactRows, otherVars
<1>4. CASE CallStep(m)
  <2>1. job[m].pc \in Calling /\ job'[m].pc \in Calling
    BY <1>4, CallStays
  <2>2. job'[m].conv = job[m].conv
    <3>1. CASE RecordOutcome(m) \/ OutcomeLost(m)
      BY <1>1, <3>1 DEF RecordOutcome, OutcomeLost, Jobs
    <3>2. CASE ~RecordOutcome(m) /\ ~OutcomeLost(m)
      <4>1. PICK r, ok : \/ job' = [job EXCEPT ![m] = Answered(m, r, ok)]
                         \/ job' = [job EXCEPT ![m] = AfterCall(m, r, ok)]
        BY <1>4, <3>2 DEF CallStep, UpdateDelivery, UpdateFails, Accept, Refuse, LoseAnswer
      <4>2. Answered(m, r, ok).conv = job[m].conv
        BY <1>1 DEF Answered, Jobs
      <4>3. AfterCall(m, r, ok).conv = job[m].conv
        BY <1>1, <4>2 DEF AfterCall, Jobs
      <4>. QED
        BY <1>1, <4>1, <4>2, <4>3
    <3>. QED
      BY <3>1, <3>2
  <2>. QED
    BY <1>2, <1>3, <2>1, <2>2 DEF Active, Unrepeated, Calling
<1>5. CASE Prepare(m) \/ PrepareFails(m) \/ Conclude(m)
  <2>1. PICK o, r, i : \/ job' = [job EXCEPT ![m] = Settled(m, o, r)]
                       \/ job' = [job EXCEPT ![m] = TryGroup(m, i)]
    BY <1>5 DEF Prepare, PrepareFails, Conclude
  <2>2. Settled(m, o, r).conv = job[m].conv
    BY <1>1 DEF Settled, Jobs
  <2>3. TryGroup(m, i).conv = job[m].conv
    BY <1>1 DEF TryGroup, Settled, Jobs
  <2>4. job'[m] = Settled(m, o, r) \/ job'[m] = TryGroup(m, i)
    BY <1>1, <2>1
  <2>5. job'[m].conv = job[m].conv
    BY <2>2, <2>3, <2>4
  <2>6. job[m].pc \in {"prepare", "record"}
    BY <1>5 DEF Prepare, PrepareFails, Conclude
  <2>. QED
    BY <1>2, <1>3, <2>5, <2>6 DEF Unrepeated
<1>6. CASE LoadContact(m) \/ SaveContact(m) \/ SaveMessage(m)
  <2>1. /\ job'[m].conv = job[m].conv /\ job'[m].pass = job[m].pass
        /\ \/ LoadContact(m) /\ job[m].pc = "load" /\ job'[m].pc = "contact"
           \/ SaveContact(m) /\ job[m].pc = "contact" /\ job'[m].pc = "conversation"
           \/ SaveMessage(m) /\ job[m].pc = "message" /\ job'[m].pc \in {"prepare", "done"}
    BY <1>1, <1>6 DEF LoadContact, SaveContact, SaveMessage, AfterRows, Jobs
  <2>. QED
    BY <1>2, <1>3, <2>1 DEF Active, Unrepeated
<1>. QED
  BY <1>4, <1>5, <1>6 DEF RunStep

LEMMA SerialOwn ==
    ASSUME TypeOK, SendInv, Serial, OneActive, PendingRows,
           NEW m \in Msgs, RunStep(m)
    PROVE  OneActive' /\ PendingRows'
<1>0. /\ job \in [Msgs -> Jobs] /\ job[m] \in Jobs /\ MsgInv(m) /\ ConvOf[m] \in Convs
      /\ conv \in [Convs -> Conversations] /\ rtConv \in [Convs -> Conversations]
      /\ TypeOK'
  <2>1. Next
    BY DEF RunStep, CallStep, Next, Running, Calm, Sending, Local, Reply, Network, StoreError
  <2>. QED
    BY <2>1, TypeParts, TypeStep, ContactsAssumption DEF SendInv, TypeOK
<1>. DEFINE c == ConvOf[m]
<1>1. \A n \in Msgs \ {m} : job'[n] = job[n]
  BY RunIsOwn, OwnOnly
<1>2. (\A n \in Msgs \ {m} : ~Active(n)) /\ incoming = NoIncoming /\ reader = None
  <2>1. CASE Begin(m)
    BY <2>1, QuietOrActive DEF Begin
  <2>2. CASE ~Begin(m)
    <3>1. Active(m)
      BY <2>2, ActiveStays, <1>0 DEF SaveConversation, Active
    <3>. QED
      BY <3>1 DEF OneActive
  <2>. QED
    BY <2>1, <2>2
<1>3. incoming' = incoming /\ reader' = reader
  BY <1>0, ActiveStays DEF Begin, SaveConversation, otherVars
<1>4. \A n \in Msgs \ {m} : ~Active(n)'
  BY <1>1, <1>2 DEF Active
<1>5. OneActive'
  BY <1>2, <1>3, <1>4 DEF OneActive
<1>6. ASSUME SameBut(c)', Active(m)' => job'[m].conv = conv'[c],
             (Unrepeated(m)' /\ Active(m)') \/ rtConv'[c] = conv'[c]
      PROVE  PendingRows'
  <2>1. Quiet' => AllShow'
    <3>1. CASE Quiet'
      <4>1. Shows(c)'
        BY <1>6, <3>1 DEF Quiet, Active, Shows
      <4>. QED
        BY <1>6, <4>1 DEF SameBut, AllShow
    <3>. QED
      BY <3>1
  <2>2. \A n \in Msgs : Active(n)' => n = m
    BY <1>4
  <2>. QED
    BY <1>2, <1>3, <1>6, <2>1, <2>2 DEF PendingRows
<1>7. CASE Begin(m)
  <2>. DEFINE snapshot == [unread |-> conv[c].unread, last |-> m]
  <2>1. AllShow
    BY <1>7 DEF PendingRows, Begin
  <2>2. /\ conv' = [conv EXCEPT ![c] = snapshot] /\ rtConv' = rtConv
        /\ job'[m].conv = snapshot /\ job'[m].pc = "load" /\ job'[m].pass = job[m].pass
    BY <1>0, <1>7 DEF Begin, Jobs, contactRows
  <2>3. job[m].pass = 1
    BY <1>0, <1>7 DEF Begin, MsgInv, RowInv, FirstPass
  <2>4. Unrepeated(m)' /\ Active(m)'
    BY <2>2, <2>3 DEF Unrepeated, Active
  <2>5. SameBut(c)'
    BY <1>0, <2>1, <2>2 DEF SameBut, AllShow, Shows, ShownAsOne
  <2>6. job'[m].conv = conv'[c]
    BY <1>0, <2>2
  <2>. QED
    BY <1>5, <1>6, <2>4, <2>5, <2>6
<1>8. CASE SaveConversation(m)
  <2>1. /\ rtConv' = [rtConv EXCEPT ![c] = job[m].conv] /\ conv' = conv
        /\ job'[m].conv = job[m].conv
    BY <1>0, <1>8 DEF SaveConversation, Jobs, tableVars
  <2>2. SameBut(c) /\ job[m].conv = conv[c]
    BY <1>8 DEF SaveConversation, PendingRows, Active
  <2>3. SameBut(c)'
    BY <1>0, <2>1, <2>2 DEF SameBut, Shows, ShownAsOne
  <2>. QED
    BY <1>0, <1>5, <1>6, <2>1, <2>2, <2>3
<1>9. CASE ~Begin(m) /\ ~SaveConversation(m)
  <2>1. /\ Active(m)
        /\ conv' = conv /\ rtConv' = rtConv
        /\ job'[m].conv = job[m].conv
        /\ Unrepeated(m) => Unrepeated(m)' /\ Active(m)'
    BY <1>0, <1>9, ActiveStays
  <2>2. /\ SameBut(c) /\ job[m].conv = conv[c]
        /\ Unrepeated(m) \/ rtConv[c] = conv[c]
    BY <2>1 DEF PendingRows
  <2>3. SameBut(c)'
    BY <2>1, <2>2 DEF SameBut, Shows, ShownAsOne
  <2>. QED
    BY <1>5, <1>6, <2>1, <2>2, <2>3
<1>. QED
  BY <1>7, <1>8, <1>9

LEMMA SerialOthers ==
    ASSUME TypeOK, Serial, OneActive, PendingRows, Others
    PROVE  OneActive' /\ PendingRows'
<1>0. /\ conv \in [Convs -> Conversations] /\ rtConv \in [Convs -> Conversations]
      /\ incoming # NoIncoming => incoming.conv \in Convs
      /\ reader \in Convs \cup {None}
      /\ None \notin Convs
  BY RoutesAssumption DEF TypeOK
<1>1. /\ job' = job
      /\ \A m \in Msgs : Active(m)' = Active(m)
  BY OthersOnly DEF Active
<1>2. ASSUME incoming' = NoIncoming, reader' = None, AllShow',
             \A m \in Msgs : ~Active(m)
      PROVE  OneActive' /\ PendingRows'
  BY <1>1, <1>2 DEF OneActive, PendingRows
<1>3. ASSUME NEW c \in Convs, StoreIncoming(c) \/ StoreDirect(c)
      PROVE  OneActive' /\ PendingRows'
  <2>0. PICK shown \in {1, conv[c].unread + 1} : Receive(c, shown)
    BY <1>3 DEF StoreIncoming, StoreDirect
  <2>1. /\ \A m \in Msgs : ~Active(m)
        /\ reader = None /\ reader' = reader /\ AllShow
    BY <2>0, QuietOrActive DEF Receive, PendingRows
  <2>2. /\ rtConv' = rtConv
        /\ conv' = [conv EXCEPT ![c] = [unread |-> conv[c].unread + 1, last |-> Incoming]]
        /\ incoming' = [conv |-> c, unread |-> shown]
    BY <1>0, <2>0 DEF Receive, contactRows
  <2>3. incoming' # NoIncoming
    BY <1>0, <2>2 DEF NoIncoming
  <2>4. SameBut(incoming.conv)'
    BY <1>0, <2>1, <2>2 DEF SameBut, AllShow, Shows, ShownAsOne
  <2>5. /\ conv'[incoming'.conv].last = Incoming /\ conv'[incoming'.conv].unread > 0
        /\ incoming'.unread \in {1, conv'[incoming'.conv].unread}
    BY <1>0, <2>0, <2>2 DEF Conversations
  <2>6. ~Quiet'
    BY <2>3 DEF Quiet
  <2>. QED
    BY <1>1, <2>1, <2>3, <2>4, <2>5, <2>6 DEF OneActive, PendingRows
<1>4. CASE ShowIncoming
  <2>1. /\ \A m \in Msgs : ~Active(m)
        /\ incoming # NoIncoming /\ reader = None /\ incoming.conv \in Convs
    BY <1>0, <1>4 DEF ShowIncoming, OneActive
  <2>2. /\ rtConv' = [rtConv EXCEPT
              ![incoming.conv] = [unread |-> incoming.unread, last |-> Incoming]]
        /\ conv' = conv /\ incoming' = NoIncoming /\ reader' = reader
    BY <1>4 DEF ShowIncoming, tableVars
  <2>3. /\ SameBut(incoming.conv)
        /\ conv[incoming.conv].last = Incoming /\ conv[incoming.conv].unread > 0
        /\ incoming.unread \in {1, conv[incoming.conv].unread}
    BY <2>1 DEF PendingRows
  <2>. PICK c \in Convs : c = incoming.conv
    BY <2>1
  <2>4. Shows(c)'
    BY <1>0, <2>2, <2>3 DEF Shows, ShownAsOne
  <2>5. \A d \in Convs \ {c} : Shows(d)'
    BY <1>0, <2>2, <2>3 DEF SameBut, Shows, ShownAsOne
  <2>6. AllShow'
    BY <2>4, <2>5 DEF AllShow
  <2>. QED
    BY <1>2, <2>1, <2>2, <2>6
<1>5. ASSUME NEW c \in Convs, MarkRuntimeRead(c)
      PROVE  OneActive' /\ PendingRows'
  <2>1. /\ \A m \in Msgs : ~Active(m)
        /\ incoming = NoIncoming /\ incoming' = incoming /\ AllShow
    BY <1>5, QuietOrActive DEF MarkRuntimeRead, PendingRows
  <2>2. /\ rtConv' = [rtConv EXCEPT ![c] = [rtConv[c] EXCEPT !.unread = 0]]
        /\ conv' = conv /\ reader' = c
    BY <1>0, <1>5 DEF MarkRuntimeRead, tableVars
  <2>3. reader' # None
    BY <1>0, <2>2
  <2>4. SameBut(reader)'
    BY <1>0, <2>1, <2>2 DEF SameBut, AllShow, Shows, ShownAsOne
  <2>5. rtConv'[reader'] = [conv'[reader'] EXCEPT !.unread = 0]
    BY <1>0, <2>1, <2>2 DEF AllShow, Shows, Conversations
  <2>6. ~Quiet'
    BY <2>3 DEF Quiet
  <2>. QED
    BY <1>1, <2>1, <2>3, <2>4, <2>5, <2>6 DEF OneActive, PendingRows
<1>6. CASE MarkLegacyRead
  <2>1. /\ \A m \in Msgs : ~Active(m)
        /\ incoming = NoIncoming /\ reader # None /\ reader \in Convs
    BY <1>0, <1>6 DEF MarkLegacyRead, OneActive
  <2>2. /\ conv' = [conv EXCEPT ![reader] = [conv[reader] EXCEPT !.unread = 0]]
        /\ rtConv' = rtConv /\ incoming' = incoming /\ reader' = None
    BY <1>0, <1>6, <2>1 DEF MarkLegacyRead, contactRows
  <2>3. /\ SameBut(reader)
        /\ rtConv[reader] = [conv[reader] EXCEPT !.unread = 0]
    BY <2>1 DEF PendingRows
  <2>. PICK c \in Convs : c = reader
    BY <2>1
  <2>4. Shows(c)'
    BY <1>0, <2>2, <2>3 DEF Shows
  <2>5. \A d \in Convs \ {c} : Shows(d)'
    BY <1>0, <2>2, <2>3 DEF SameBut, Shows, ShownAsOne
  <2>6. AllShow'
    BY <2>4, <2>5 DEF AllShow
  <2>. QED
    BY <1>2, <2>1, <2>2, <2>6
<1>. QED
  BY <1>3, <1>4, <1>5, <1>6 DEF Others

LEMMA SerialStep == TypeOK /\ SendInv /\ SerialInv /\ [Running]_vars => SerialInv'
<1>. SUFFICES ASSUME TypeOK, SendInv, SerialInv, [Running]_vars, Serial
              PROVE  OneActive' /\ PendingRows'
  BY DEF SerialInv
<1>0. OneActive /\ PendingRows
  BY DEF SerialInv
<1>1. CASE \E m \in Msgs : RunStep(m)
  BY <1>0, <1>1, SerialOwn
<1>2. CASE Others
  BY <1>0, <1>2, SerialOthers
<1>3. ASSUME UNCHANGED <<conv, rtConv, job, incoming, reader>>
      PROVE  OneActive' /\ PendingRows'
  <2>1. /\ (Quiet' <=> Quiet)
        /\ \A m \in Msgs : (Active(m)' <=> Active(m)) /\ (Unrepeated(m)' <=> Unrepeated(m))
        /\ \A c : SameBut(c)' <=> SameBut(c)
        /\ AllShow' <=> AllShow
    BY <1>3 DEF Quiet, Active, Unrepeated, SameBut, AllShow, Shows, ShownAsOne
  <2>. QED
    BY <1>0, <1>3, <2>1 DEF OneActive, PendingRows
<1>4. CASE \E m \in Msgs, r \in Routes : Land(m, r)
  <2>1. UNCHANGED <<conv, rtConv, job, incoming, reader>>
    BY <1>4 DEF Land, tableVars, contactRows, otherVars
  <2>. QED
    BY <1>3, <2>1
<1>5. CASE UNCHANGED vars
  BY <1>3, <1>5 DEF vars, tableVars, contactRows, otherVars
<1>. QED
  BY <1>1, <1>2, <1>4, <1>5, RunCases

\* When one process runs at a time and none stops, the inbox shows the last
\* message of the message tables and their unread count - or one, after a direct
\* delivery - whenever nothing runs, although a send writes a snapshot it has
\* read long before.
THEOREM InboxAgrees == Init /\ [][Running]_vars => []SerialAgree
<1>. DEFINE S == Init /\ [][Running]_vars
<1>1. Init => SerialInv
  BY DEF Init, SerialInv, OneActive, PendingRows, AllShow, Shows, Active, IdleJob, NoIncoming
<1>2. [Running]_vars => [Next]_vars
  BY DEF Next
<1>3. SerialInv => SerialAgree
  BY DEF SerialInv, PendingRows, SerialAgree, AllShow, Shows
<1>. QED
  BY <1>1, <1>2, <1>3, TypeInit, TypeStep, SendInit, SendStep, SerialStep, PTL

-----------------------------------------------------------------------------
(* When nothing but the network fails, every answer is recorded. *)

FailedRow(m, r) == [msg |-> m, route |-> r, outcome |-> "failed"]

Recorded(m, q) == \E a \in attempts : a.msg = m /\ a.route = q

\* The route has been asked, and its answer is still to be recorded.
Unrecorded(m, q) ==
    \/ job[m].pc \in Calling /\ q \in Unaudited(m)
    \/ job[m].pc = "update" /\ q \in Group(m)

\* Whatever has the message was recorded, or will be.
Accounted(m) ==
    \A r \in Reached(m) : \E q \in Routes :
        Destination(m, q) = r /\ (Recorded(m, q) \/ Unrecorded(m, q))

\* The groups before the i-th, or all of them, have failed.
FailedBefore(m, i) ==
    \A k \in DOMAIN Plan(m) : k < i => \A r \in Plan(m)[k] : FailedRow(m, r) \in attempts

EveryFailed(m) ==
    \A k \in DOMAIN Plan(m) : \A r \in Plan(m)[k] : FailedRow(m, r) \in attempts

CalmInv(m) ==
    /\ Accounted(m)
    /\ job[m].pc \in Calling =>
          /\ FailedBefore(m, job[m].at)
          /\ \A r \in job[m].audited \ job[m].accepted : FailedRow(m, r) \in attempts
    /\ job[m].pc \in {"send", "update"} => job[m].audited = {}
    /\ job[m].pc = "record" => Open(m) = {}
    /\ SecondPass(m) /\ job[m].status = "failed" => EveryFailed(m)
    /\ job[m].pc = "done" /\ rtStatus[m] = "failed" => EveryFailed(m)

CalmStep(m) ==
    \/ Begin(m) \/ LoadContact(m) \/ SaveContact(m) \/ SaveConversation(m)
    \/ SaveMessage(m) \/ Prepare(m) \/ Conclude(m)
    \/ UpdateDelivery(m) \/ RecordOutcome(m)
    \/ \E r \in Routes : Accept(m, r) \/ Refuse(m, r) \/ LoseAnswer(m, r)

LEMMA CalmIsOwn ==
    ASSUME NEW m \in Msgs, CalmStep(m)
    PROVE  OwnStep(m)
  BY DEF CalmStep, OwnStep

LEMMA CalmCases ==
    ASSUME Calm
    PROVE  \/ \E m \in Msgs : CalmStep(m)
           \/ \E m \in Msgs, r \in Routes : Land(m, r)
           \/ Others
  BY DEF Calm, Sending, Local, Reply, Network, CalmStep

LEMMA DestinationSame ==
    \A m, r : Destination(m, r)' = Destination(m, r)
  BY DEF Destination

LEMMA AccountedStays ==
    ASSUME NEW m \in Msgs, Accounted(m),
           attempts \subseteq attempts', Reached(m)' \subseteq Reached(m),
           \A q \in Routes : Unrecorded(m, q) => Recorded(m, q)' \/ Unrecorded(m, q)'
    PROVE  Accounted(m)'
<1>1. \A q : Recorded(m, q) => Recorded(m, q)'
  BY DEF Recorded
<1>. QED
  BY <1>1, DestinationSame DEF Accounted

LEMMA FailedStays ==
    ASSUME NEW m \in Msgs, attempts \subseteq attempts', Plan(m)' = Plan(m)
    PROVE  /\ \A i : FailedBefore(m, i) =>
                \A k \in DOMAIN Plan(m)' : k < i =>
                    \A r \in Plan(m)'[k] : FailedRow(m, r) \in attempts'
           /\ EveryFailed(m) => EveryFailed(m)'
  BY DEF FailedBefore, EveryFailed, FailedRow

\* The message is not at a group of routes, before the step or after it.
LEMMA CalmRows ==
    ASSUME TypeOK, NEW m \in Msgs, MsgInv(m), CalmInv(m),
           Begin(m) \/ LoadContact(m) \/ SaveContact(m) \/ SaveConversation(m) \/ SaveMessage(m)
    PROVE  CalmInv(m)'
<1>1. job \in [Msgs -> Jobs] /\ job[m] \in Jobs /\ TablesOK
  BY TypeParts
<1>2. /\ attempts' = attempts /\ Reached(m)' = Reached(m)
      /\ job[m].pc \notin Calling /\ job'[m].pc \notin Calling
      /\ job'[m].pass = job[m].pass /\ job'[m].status = job[m].status
  BY <1>1 DEF Begin, LoadContact, SaveContact, SaveConversation, SaveMessage, AfterRows,
     Reached, Jobs, Calling
<1>3. \A q : ~Unrecorded(m, q)
  BY <1>2 DEF Unrecorded, Calling
<1>4. Accounted(m)'
  BY <1>2, <1>3, AccountedStays DEF CalmInv
<1>5. CASE FirstPass(m)
  <2>1. ~SecondPass(m)'
    BY <1>1, <1>2, <1>5 DEF MsgInv, RowInv, SecondPass
  <2>2. job'[m].pc = "done" => rtStatus'[m] = "pending"
    <3>1. CASE SaveMessage(m)
      BY <1>1, <1>5, <3>1, MergeFirst DEF SaveMessage, MsgInv, RowInv, TablesOK
    <3>2. CASE ~SaveMessage(m)
      BY <1>1, <3>2 DEF Begin, LoadContact, SaveContact, SaveConversation, Jobs
    <3>. QED
      BY <3>1, <3>2
  <2>. QED
    BY <1>2, <1>4, <2>1, <2>2 DEF CalmInv, Calling
<1>6. CASE SecondPass(m)
  <2>1. SaveContact(m) \/ SaveConversation(m) \/ SaveMessage(m)
    BY <1>6 DEF Begin, LoadContact, SecondPass, AtRows
  <2>2. job'[m].recent = job[m].recent
    BY <1>1, <2>1 DEF SaveContact, SaveConversation, SaveMessage, Jobs
  <2>3. EveryFailed(m) => EveryFailed(m)'
    BY <1>2, <2>2, PlanSame, FailedStays
  <2>4. rtStatus'[m] = "failed" => job[m].status = "failed"
    <3>1. CASE SaveMessage(m)
      <4>1. job[m].status \in {"queued", "delivered", "failed"} /\ rtStatus[m] = "pending"
        BY <1>6, StatusViaType DEF MsgInv, RowInv, OutcomeInv
      <4>. QED
        BY <1>1, <3>1, <4>1, MergeOutcome DEF SaveMessage, TablesOK
    <3>2. CASE ~SaveMessage(m)
      BY <1>6, <2>1, <3>2 DEF SaveContact, SaveConversation, messageRows, MsgInv, RowInv
    <3>. QED
      BY <3>1, <3>2
  <2>. QED
    BY <1>2, <1>4, <1>6, <2>3, <2>4 DEF CalmInv, Calling
<1>. QED
  BY <1>1, <1>5, <1>6 DEF Begin, LoadContact, SaveContact, SaveConversation, SaveMessage,
     FirstPass, SecondPass, AtRows, Jobs

LEMMA CalmTries ==
    ASSUME TypeOK, NEW m \in Msgs, Accounted(m)', attempts' = attempts,
           NEW i \in Nat \ {0}, i = 1 \/ i - 1 \in DOMAIN Plan(m), FailedBefore(m, i),
           job' = [job EXCEPT ![m] = TryGroup(m, i)]
    PROVE  CalmInv(m)'
<1>1. job \in [Msgs -> Jobs] /\ job[m] \in Jobs
  BY TypeParts
<1>2. CASE i \in DOMAIN Plan(m)
  <2>. DEFINE j == [job[m] EXCEPT !.pc = "send", !.at = i, !.accepted = {}, !.refused = {},
                                  !.audited = {}]
  <2>1. job' = [job EXCEPT ![m] = j]
    BY <1>2 DEF TryGroup
  <2>2. j.pc = "send" /\ j.at = i /\ j.audited = {} /\ j.recent = job[m].recent
    BY <1>1 DEF Jobs
  <2>3. /\ job'[m].pc = "send" /\ job'[m].at = i /\ job'[m].audited = {}
        /\ job'[m].recent = job[m].recent
    BY <1>1, <2>1, <2>2
  <2>4. Plan(m)' = Plan(m)
    BY <2>3, PlanSame
  <2>5. FailedBefore(m, job[m].at)'
    BY <2>3, <2>4, FailedStays DEF FailedBefore
  <2>. QED
    BY <2>3, <2>5 DEF CalmInv, SecondPass, AtRows
<1>3. CASE i \notin DOMAIN Plan(m)
  <2>1. job' = [job EXCEPT ![m] = Settled(m, "failed", None)]
    BY <1>3 DEF TryGroup
  <2>2. job'[m].pc = "contact" /\ job'[m].recent = job[m].recent
    <3>1. /\ Settled(m, "failed", None).pc = "contact"
          /\ Settled(m, "failed", None).recent = job[m].recent
      BY <1>1 DEF Settled, Jobs
    <3>. QED
      BY <1>1, <2>1, <3>1
  <2>3. Plan(m) \in Seq(Groups(m))
    BY PlanType
  <2>4. \A k \in DOMAIN Plan(m) : k < i
    BY <1>3, <2>3
  <2>5. EveryFailed(m)
    BY <2>4 DEF EveryFailed, FailedBefore
  <2>6. EveryFailed(m)'
    BY <2>2, <2>5, PlanSame, FailedStays
  <2>. QED
    BY <2>2, <2>6 DEF CalmInv, Calling
<1>. QED
  BY <1>2, <1>3

LEMMA CalmTurns ==
    ASSUME TypeOK, NEW m \in Msgs, MsgInv(m), CalmInv(m), Prepare(m) \/ Conclude(m)
    PROVE  CalmInv(m)'
<1>1. job \in [Msgs -> Jobs] /\ job[m] \in Jobs
  BY TypeParts
<1>2. /\ attempts' = attempts /\ Reached(m)' = Reached(m)
      /\ \A q : ~Unrecorded(m, q)
  BY DEF Prepare, Conclude, Reached, Unrecorded, Calling
<1>3. Accounted(m)'
  BY <1>2, AccountedStays DEF CalmInv
<1>4. CASE Prepare(m)
  <2>1. Plan(m) \in Seq(Groups(m))
    BY PlanType
  <2>2. FailedBefore(m, 1)
    BY <2>1 DEF FailedBefore
  <2>3. job' = [job EXCEPT ![m] = TryGroup(m, 1)]
    BY <1>4 DEF Prepare
  <2>4. attempts' = attempts
    BY <1>2
  <2>5. PICK i \in Nat \ {0} : i = 1
    OBVIOUS
  <2>. QED
    BY <1>3, <2>2, <2>3, <2>4, <2>5, CalmTries
<1>5. CASE Conclude(m) /\ job[m].accepted = {}
  <2>1. /\ job[m].pc = "record" /\ Unaudited(m) = {} /\ Open(m) = {}
        /\ job[m].at \in DOMAIN Plan(m)
    BY <1>5, JobType DEF Conclude, CalmInv, Calling
  <2>2. \A r \in Group(m) : r \in job[m].audited
    BY <2>1 DEF Unaudited, Open
  <2>3. \A r \in Group(m) : FailedRow(m, r) \in attempts
    BY <1>5, <2>1, <2>2 DEF CalmInv, Calling
  <2>4. FailedBefore(m, job[m].at)
    BY <2>1 DEF CalmInv, Calling
  <2>5. Plan(m) \in Seq(Groups(m))
    BY PlanType
  <2>6. job[m].at \in Nat
    BY <1>1 DEF Jobs
  <2>7. \A k \in DOMAIN Plan(m) : k < job[m].at + 1 => k < job[m].at \/ k = job[m].at
    BY <2>5, <2>6
  <2>8. FailedBefore(m, job[m].at + 1)
    BY <2>3, <2>4, <2>7 DEF FailedBefore, Group
  <2>9. job' = [job EXCEPT ![m] = TryGroup(m, job[m].at + 1)]
    BY <1>5 DEF Conclude
  <2>10. job[m].at + 1 \in Nat \ {0} /\ (job[m].at + 1) - 1 \in DOMAIN Plan(m)
    BY <2>1, <2>6
  <2>11. attempts' = attempts
    BY <1>2
  <2>12. PICK i \in Nat \ {0} : i = job[m].at + 1
    BY <2>10
  <2>. QED
    BY <1>3, <2>8, <2>9, <2>10, <2>11, <2>12, CalmTries
<1>6. CASE Conclude(m) /\ job[m].accepted # {}
  <2>1. PICK r : job' = [job EXCEPT ![m] = Settled(m, StatusVia(r), r)]
    BY <1>6 DEF Conclude
  <2>2. job'[m].pc = "contact" /\ job'[m].status = StatusVia(r)
    BY <1>1, <2>1 DEF Settled, Jobs
  <2>3. StatusVia(r) # "failed"
    BY StatusViaType
  <2>. QED
    BY <1>3, <2>2, <2>3 DEF CalmInv, Calling
<1>. QED
  BY <1>4, <1>5, <1>6

\* The parts of CalmInv that a step within a group can disturb.
LEMMA CalmCalling ==
    ASSUME TypeOK, NEW m \in Msgs, CalmInv(m), CallStep(m), Accounted(m)',
           attempts \subseteq attempts',
           \A r \in job'[m].audited \ job'[m].accepted : FailedRow(m, r) \in attempts',
           job'[m].pc \in {"send", "update"} => job'[m].audited = {},
           job'[m].pc = "record" => Open(m)' = {}
    PROVE  CalmInv(m)'
<1>1. /\ job[m].pc \in Calling /\ job'[m].pc \in Calling /\ job'[m].at = job[m].at
      /\ Plan(m)' = Plan(m)
  BY CallStays
<1>2. FailedBefore(m, job[m].at)
  BY <1>1 DEF CalmInv
<1>3. FailedBefore(m, job[m].at)'
  BY <1>1, <1>2, FailedStays DEF FailedBefore
<1>4. \A r \in job'[m].audited \ job'[m].accepted : FailedRow(m, r)' \in attempts'
  BY DEF FailedRow
<1>. QED
  BY <1>1, <1>3, <1>4 DEF CalmInv, SecondPass, AtRows, Calling

LEMMA AnsweredIs ==
    ASSUME TypeOK, NEW m \in Msgs, NEW r, NEW ok,
           job' = [job EXCEPT ![m] = Answered(m, r, ok)]
    PROVE  /\ job'[m].pc = IF Open(m) = {r} THEN "record" ELSE "send"
           /\ job'[m].accepted = job[m].accepted \cup (IF ok THEN {r} ELSE {})
           /\ job'[m].refused = job[m].refused \cup (IF ok THEN {} ELSE {r})
           /\ job'[m].audited = job[m].audited
<1>. DEFINE a == job[m].accepted \cup (IF ok THEN {r} ELSE {})
            f == job[m].refused \cup (IF ok THEN {} ELSE {r})
            pc == IF Open(m) = {r} THEN "record" ELSE "send"
<1>1. job \in [Msgs -> Jobs] /\ job[m] \in Jobs
  BY TypeParts
<1>2. Answered(m, r, ok) = [job[m] EXCEPT !.pc = pc, !.accepted = a, !.refused = f]
  BY DEF Answered
<1>. HIDE DEF a, f, pc
<1>3. /\ job'[m].pc = pc /\ job'[m].accepted = a /\ job'[m].refused = f
      /\ job'[m].audited = job[m].audited
  BY <1>1, <1>2 DEF Jobs
<1>. QED
  BY <1>3 DEF a, f, pc

LEMMA CalmCalls ==
    ASSUME TypeOK, NEW m \in Msgs, MsgInv(m), CalmInv(m), NEW r \in Routes,
           Accept(m, r) \/ Refuse(m, r) \/ LoseAnswer(m, r)
    PROVE  CalmInv(m)'
<1>1. job \in [Msgs -> Jobs] /\ job[m] \in Jobs
  BY TypeParts
<1>2. /\ job[m].pc = "send" /\ r \in Open(m) /\ attempts' = attempts
      /\ Reached(m)' \subseteq Reached(m) \cup {Destination(m, r)}
      /\ job[m].audited = {}
  BY DEF Accept, Refuse, LoseAnswer, Reached, CalmInv
<1>3. CallStep(m)
  BY DEF CallStep
<1>4. Group(m)' = Group(m) /\ r \in Group(m) /\ Group(m) \in Groups(m)
  BY <1>2, <1>3, CallStays, OpenRoutes, JobType DEF Calling
<1>5. PICK ok : job' = [job EXCEPT ![m] = AfterCall(m, r, ok)]
  BY DEF Accept, Refuse, LoseAnswer
<1>6. ASSUME Unrecorded(m, r)', \A q : Unrecorded(m, q) => Unrecorded(m, q)'
      PROVE  Accounted(m)'
  <2>1. \A q : Recorded(m, q) => Recorded(m, q)'
    BY <1>2 DEF Recorded
  <2>. QED
    BY <1>2, <1>6, <2>1, DestinationSame DEF CalmInv, Accounted
<1>7. CASE r \notin Mailboxes
  <2>1. job' = [job EXCEPT ![m] = Answered(m, r, ok)]
    BY <1>5, <1>7 DEF AfterCall
  <2>2. /\ job'[m].pc = IF Open(m) = {r} THEN "record" ELSE "send"
        /\ job'[m].accepted \cup job'[m].refused = job[m].accepted \cup job[m].refused \cup {r}
        /\ job'[m].audited = {}
    BY <1>2, <2>1, AnsweredIs
  <2>3. Open(m)' = Open(m) \ {r}
    BY <1>4, <2>2 DEF Open
  <2>4. /\ Unrecorded(m, r)'
        /\ \A q : Unrecorded(m, q) => Unrecorded(m, q)'
    BY <1>2, <2>2 DEF Unrecorded, Unaudited, Calling
  <2>. QED
    BY <1>2, <1>3, <1>6, <2>2, <2>3, <2>4, CalmCalling
<1>8. CASE r \in Mailboxes
  <2>1. job' = [job EXCEPT ![m] = [job[m] EXCEPT !.pc = "update", !.reply = ok]]
    BY <1>5, <1>8 DEF AfterCall
  <2>2. /\ job'[m].pc = "update" /\ job'[m].audited = {}
        /\ job'[m].accepted = job[m].accepted /\ job'[m].refused = job[m].refused
    BY <1>1, <1>2, <2>1 DEF Jobs
  <2>3. /\ Unrecorded(m, r)'
        /\ \A q : Unrecorded(m, q) => Unrecorded(m, q)'
    BY <1>2, <1>4, <2>2 DEF Unrecorded, Unaudited, Calling
  <2>. QED
    BY <1>2, <1>3, <1>6, <2>2, <2>3, CalmCalling
<1>. QED
  BY <1>7, <1>8

LEMMA CalmUpdate ==
    ASSUME TypeOK, NEW m \in Msgs, MsgInv(m), AloneInv(m), CalmInv(m), UpdateDelivery(m)
    PROVE  CalmInv(m)'
<1>1. job \in [Msgs -> Jobs] /\ job[m] \in Jobs
  BY TypeParts
<1>2. /\ job[m].pc = "update" /\ attempts' = attempts /\ Reached(m)' = Reached(m)
      /\ job[m].audited = {} /\ CallStep(m)
  BY DEF UpdateDelivery, Reached, CalmInv, CallStep
<1>4. job[m].reply \in BOOLEAN
  BY <1>1 DEF Jobs
<1>3. PICK r \in Open(m), ok \in BOOLEAN : job' = [job EXCEPT ![m] = Answered(m, r, ok)]
  BY <1>4 DEF UpdateDelivery
<1>5. /\ Group(m) = {r} /\ job'[m].pc = "record"
      /\ job'[m].accepted \cup job'[m].refused = {r}
  <2>1. /\ Group(m) = {r} /\ job'[m].pc = "record"
        /\ job'[m].accepted = IF ok THEN {r} ELSE {}
        /\ job'[m].refused = IF ok THEN {} ELSE {r}
    BY <1>2, <1>3, BoxAnswered
  <2>. QED
    BY <2>1
<1>6. job'[m].audited = {}
  BY <1>2, <1>3, AnsweredIs
<1>7. Group(m)' = {r}
  BY <1>2, <1>5, CallStays
<1>8. Open(m)' = {}
  BY <1>5, <1>7 DEF Open
<1>9. \A q : Unrecorded(m, q) => q = r
  BY <1>2, <1>5 DEF Unrecorded, Unaudited, AloneInv
<1>10. Unrecorded(m, r)'
  BY <1>5, <1>6 DEF Unrecorded, Unaudited, Calling
<1>11. Accounted(m)'
  BY <1>2, <1>9, <1>10, AccountedStays DEF CalmInv
<1>. QED
  BY <1>2, <1>5, <1>6, <1>8, <1>11, CalmCalling

LEMMA CalmRecord ==
    ASSUME TypeOK, NEW m \in Msgs, MsgInv(m), CalmInv(m), RecordOutcome(m)
    PROVE  CalmInv(m)'
<1>1. job \in [Msgs -> Jobs] /\ job[m] \in Jobs
  BY TypeParts
<1>2. /\ job[m].pc = "record" /\ Reached(m)' = Reached(m) /\ Open(m) = {} /\ CallStep(m)
  BY DEF RecordOutcome, Reached, CalmInv, CallStep
<1>3. PICK r \in Unaudited(m) :
         /\ attempts' = attempts \cup {[msg |-> m, route |-> r, outcome |-> OutcomeOf(m, r)]}
         /\ job' = [job EXCEPT ![m] = [job[m] EXCEPT !.audited = job[m].audited \cup {r}]]
  BY <1>1 DEF RecordOutcome
<1>4. /\ job'[m].pc = "record" /\ job'[m].audited = job[m].audited \cup {r}
      /\ job'[m].accepted = job[m].accepted /\ job'[m].refused = job[m].refused
  BY <1>1, <1>2, <1>3 DEF Jobs
<1>5. Group(m)' = Group(m)
  BY <1>2, CallStays
<1>6. Open(m)' = {}
  BY <1>2, <1>4, <1>5 DEF Open
<1>7. Recorded(m, r)'
  <2>. DEFINE a == [msg |-> m, route |-> r, outcome |-> OutcomeOf(m, r)]
  <2>1. a.msg = m /\ a.route = r
    OBVIOUS
  <2>2. a \in attempts'
    BY <1>3
  <2>. HIDE DEF a
  <2>3. \E b \in attempts' : b.msg = m /\ b.route = r
    BY <2>1, <2>2
  <2>. QED
    BY <2>3 DEF Recorded
<1>8. \A q : Unrecorded(m, q) => q = r \/ Unrecorded(m, q)'
  BY <1>2, <1>4 DEF Unrecorded, Unaudited, Calling
<1>9. Accounted(m)'
  BY <1>2, <1>3, <1>7, <1>8, AccountedStays DEF CalmInv
<1>10. \A q \in job'[m].audited \ job'[m].accepted : FailedRow(m, q) \in attempts'
  <2>. SUFFICES ASSUME NEW q \in job'[m].audited, q \notin job'[m].accepted
                PROVE  FailedRow(m, q) \in attempts'
    OBVIOUS
  <2>1. CASE q = r
    BY <1>3, <1>4, <2>1 DEF FailedRow, OutcomeOf
  <2>2. CASE q # r
    BY <1>2, <1>3, <1>4, <2>2 DEF CalmInv, Calling
  <2>. QED
    BY <2>1, <2>2
<1>. QED
  BY <1>2, <1>3, <1>4, <1>6, <1>9, <1>10, CalmCalling

LEMMA CalmElsewhere ==
    ASSUME NEW m \in Msgs, CalmInv(m), Reached(m)' \subseteq Reached(m),
           attempts \subseteq attempts', job'[m] = job[m], rtStatus'[m] = rtStatus[m]
    PROVE  CalmInv(m)'
<1>1. Plan(m)' = Plan(m) /\ Group(m)' = Group(m)
  BY PlanSame DEF Group
<1>2. /\ Open(m)' = Open(m) /\ Unaudited(m)' = Unaudited(m)
      /\ SecondPass(m)' = SecondPass(m)
  BY <1>1 DEF Open, Unaudited, SecondPass, AtRows
<1>3. \A q : Unrecorded(m, q)' = Unrecorded(m, q)
  BY <1>1, <1>2 DEF Unrecorded
<1>4. Accounted(m)'
  BY <1>3, AccountedStays DEF CalmInv
<1>5. /\ FailedBefore(m, job[m].at) => FailedBefore(m, job[m].at)'
      /\ EveryFailed(m) => EveryFailed(m)'
  BY <1>1, FailedStays DEF FailedBefore
<1>6. \A r : FailedRow(m, r) \in attempts => FailedRow(m, r)' \in attempts'
  BY DEF FailedRow
<1>. QED
  BY <1>2, <1>4, <1>5, <1>6 DEF CalmInv

AllCalm == \A m \in Msgs : CalmInv(m) /\ AloneInv(m)

LEMMA CalmStays == TypeOK /\ SendInv /\ AllCalm /\ [Calm]_vars => AllCalm'
<1>. SUFFICES ASSUME TypeOK, SendInv, AllCalm, [Calm]_vars, NEW n \in Msgs
              PROVE  CalmInv(n)' /\ AloneInv(n)'
  BY DEF AllCalm
<1>0. MsgInv(n) /\ CalmInv(n) /\ AloneInv(n)
  BY DEF SendInv, AllCalm
<1>1. CASE \E m \in Msgs : CalmStep(m)
  <2>1. PICK m \in Msgs : CalmStep(m)
    BY <1>1
  <2>2. CASE n = m
    <3>1. AloneInv(n)'
      BY <1>0, <2>1, <2>2, CalmIsOwn, AloneOwn
    <3>2. CalmInv(n)'
      BY <1>0, <2>1, <2>2, CalmRows, CalmTurns, CalmCalls, CalmUpdate, CalmRecord
         DEF CalmStep
    <3>. QED
      BY <3>1, <3>2
  <2>3. CASE n # m
    <3>1. /\ \A r \in Routes : <<n, r>> \in taken' \cup flying' => <<n, r>> \in taken \cup flying
          /\ job'[n] = job[n] /\ rtStatus'[n] = rtStatus[n]
      BY <2>1, <2>3, CalmIsOwn, OwnOnly
    <3>2. Reached(n)' \subseteq Reached(n)
      BY <3>1 DEF Reached
    <3>3. attempts \subseteq attempts'
      BY <2>1 DEF CalmStep, Begin, LoadContact, SaveContact, SaveConversation, SaveMessage,
         UpdateDelivery, RecordOutcome, Prepare, Conclude, Accept, Refuse, LoseAnswer
    <3>. QED
      BY <1>0, <3>1, <3>2, <3>3, CalmElsewhere DEF AloneInv
  <2>. QED
    BY <2>2, <2>3
<1>2. CASE ~\E m \in Msgs : CalmStep(m)
  <2>1. /\ taken' \cup flying' \subseteq taken \cup flying
        /\ job' = job /\ rtStatus' = rtStatus /\ attempts' = attempts
    BY <1>2, CalmCases, OthersOnly DEF vars, messageRows
  <2>2. Reached(n)' \subseteq Reached(n)
    BY <2>1 DEF Reached
  <2>. QED
    BY <1>0, <2>1, <2>2, CalmElsewhere DEF AloneInv
<1>. QED
  BY <1>1, <1>2

\* When nothing but the network fails, the attempts hold every route that has
\* taken a message with an outcome, and of a message that failed every route
\* there was.
THEOREM AttemptsComplete == CalmSpec => []AuditComplete
<1>1. Init => AllCalm
  <2>. SUFFICES ASSUME Init, NEW m \in Msgs PROVE CalmInv(m) /\ AloneInv(m)
    BY DEF AllCalm
  <2>1. Reached(m) = {} /\ job[m].pc = "idle"
    BY DEF Init, IdleJob, Reached
  <2>. QED
    BY <2>1 DEF CalmInv, AloneInv, Accounted, SecondPass, AtRows, Calling
<1>2. [Calm]_vars => [Next]_vars
  BY DEF Next, Running
<1>3. TypeOK /\ SendInv /\ AllCalm => AuditComplete
  <2>. SUFFICES ASSUME TypeOK, SendInv, AllCalm, NEW m \in Msgs, HasOutcome(m)
                PROVE  /\ \A r \in Routes : <<m, r>> \in taken =>
                              \E a \in attempts : a.msg = m /\ Destination(m, a.route) = r
                       /\ rtStatus[m] = "failed" => EveryFailed(m)
    BY DEF AuditComplete, TakenAudited, HasOutcome, EveryFailed, FailedRow
  <2>1. MsgInv(m) /\ CalmInv(m) /\ job[m] \in Jobs
    BY TypeParts DEF SendInv, AllCalm
  <2>2. job[m].pc = "done"
    BY <2>1 DEF HasOutcome, MsgInv, RowInv, FirstPass, SecondPass, AtRows, Calling, Jobs, Phases,
       NoStatus
  <2>3. \A q : ~Unrecorded(m, q)
    BY <2>2 DEF Unrecorded, Calling
  <2>4. \A r \in Reached(m) : \E q : Destination(m, q) = r /\ Recorded(m, q)
    BY <2>1, <2>3 DEF CalmInv, Accounted
  <2>. QED
    BY <2>1, <2>2, <2>4 DEF CalmInv, Reached, Recorded
<1>. QED
  BY <1>1, <1>2, <1>3, TypeInit, TypeStep, SendInit, SendStep, CalmStays, PTL DEF CalmSpec
=============================================================================
