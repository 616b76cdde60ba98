--------------------------- MODULE Recovery_proofs ---------------------------
(***************************************************************************)
(* Proofs about the receiving side, for any number of senders, messages,   *)
(* events, relays and sync processes.                                      *)
(***************************************************************************)
EXTENDS Recovery, FiniteSetTheorems, TLAPS

-----------------------------------------------------------------------------
(* Statuses. *)

LEMMA NormalStatus ==
    \A s \in MessageStatuses \cup {NoStatus} : NormalizeMessageStatus(s) = s
<1>1. DOMAIN StatusAliases = {"deferred", "recoverable", "syncing",
                              "recovering_async", "received", "synced"}
  BY DEF StatusAliases
<1>. QED
  BY <1>1 DEF NormalizeMessageStatus, MessageStatuses, NoStatus

LEMMA MergeFirst ==
    ASSUME NEW s \in {"recovered", "delivered"}
    PROVE  /\ MergeMessageStatus(NoStatus, s) = s
           /\ MergeMessageStatus(s, s) = s
  BY NormalStatus DEF MergeMessageStatus, CanTransitionMessageStatus, MessageStatuses

LEMMA MergeType ==
    ASSUME NEW from \in MessageStatuses \cup {NoStatus},
           NEW to \in MessageStatuses
    PROVE  MergeMessageStatus(from, to) \in MessageStatuses
  BY NormalStatus DEF MergeMessageStatus, MessageStatuses, NoStatus

-----------------------------------------------------------------------------
(* Types. *)

\* What TypeOK says of one sync process.
JobOK(j) == j \in Jobs /\ (j.pc # "idle" => j.at \in 1 .. Len(RouteOrder))

LEMMA IdleOK == JobOK(IdleJob)
  BY RelaysAssumption DEF JobOK, Jobs, IdleJob, Phases

LEMMA LoadOK ==
    ASSUME NEW at \in 1 .. Len(RouteOrder)
    PROVE  JobOK([IdleJob EXCEPT !.pc = "load", !.at = at])
<1>1. at \in 0 .. Len(RouteOrder)
  BY RelaysAssumption
<1>. QED
  BY <1>1, IdleOK DEF JobOK, Jobs, Phases

LEMMA NextRouteOK ==
    ASSUME TypeOK, NEW p \in Syncers, job[p].pc # "idle"
    PROVE  JobOK(NextRoute(p))
<1>1. Len(RouteOrder) \in Nat
  BY RelaysAssumption
<1>2. job[p].at \in 1 .. Len(RouteOrder)
  BY DEF TypeOK
<1>3. CASE job[p].at < Len(RouteOrder)
  <2>1. job[p].at + 1 \in 1 .. Len(RouteOrder)
    BY <1>1, <1>2, <1>3
  <2>2. NextRoute(p) = [IdleJob EXCEPT !.pc = "load", !.at = job[p].at + 1]
    BY <1>3 DEF NextRoute
  <2>. QED
    BY <2>1, <2>2, LoadOK
<1>4. CASE ~(job[p].at < Len(RouteOrder))
  BY <1>4, IdleOK DEF NextRoute
<1>. QED
  BY <1>3, <1>4

LEMMA RouteType ==
    ASSUME TypeOK, NEW p \in Syncers, job[p].pc # "idle"
    PROVE  Route(p) \in Relays
  BY RelaysAssumption DEF TypeOK, Route

LEMMA CountType ==
    ASSUME NEW S \in SUBSET Events
    PROVE  Cardinality(S) \in Nat
  BY EventsAssumption, FS_Subset, FS_CardinalityType

LEMMA SomeJob ==
    ASSUME TypeOK, NEW p \in Syncers, NEW j, JobOK(j),
           job' = [job EXCEPT ![p] = j]
    PROVE  /\ job' \in [Syncers -> Jobs]
           /\ \A q \in Syncers : job'[q].pc # "idle" => job'[q].at \in 1 .. Len(RouteOrder)
  BY DEF TypeOK, JobOK

LEMMA TypeInit == Init => TypeOK
<1>. SUFFICES ASSUME Init PROVE TypeOK
  OBVIOUS
<1>1. job \in [Syncers -> Jobs] /\ \A p \in Syncers : job[p].pc = "idle"
  BY IdleOK DEF Init, JobOK, IdleJob
<1>. QED
  BY <1>1, PeersAssumption DEF Init, TypeOK, NoEnvelope

LEMMA TypeStep == TypeOK /\ [Next]_vars => TypeOK'
<1>. SUFFICES ASSUME TypeOK, [Next]_vars PROVE TypeOK'
  OBVIOUS
<1>. USE DEF worldVars, tableVars, runtimeVars, syncVars
<1>1. ASSUME NEW r \in Relays, NEW e \in Events, Arrive(r, e) PROVE TypeOK'
  BY <1>1 DEF Arrive, TypeOK
<1>2. ASSUME NEW c \in Senders, NEW k \in Keys, ImportCard(c, k) PROVE TypeOK'
  BY <1>2 DEF ImportCard, TypeOK
<1>3. ASSUME NEW p \in Syncers, SyncStep(p) \/ SyncError(p) PROVE TypeOK'
  <2>0. JobOK(job[p])
    BY DEF TypeOK, JobOK
  <2>1. CASE StartSync(p)
    <3>1. 1 \in 1 .. Len(RouteOrder)
      BY <2>1, RelaysAssumption DEF StartSync
    <3>. DEFINE j == [IdleJob EXCEPT !.pc = "load", !.at = 1]
    <3>2. JobOK(j)
      BY <3>1, LoadOK
    <3>. QED
      BY <2>1, <3>2, SomeJob DEF StartSync, TypeOK
  <2>2. CASE LoadSyncState(p)
    <3>. DEFINE j == [job[p] EXCEPT !.pc = "pull", !.last = checkpoint[Route(p)],
                                    !.known = peers]
    <3>1. job' = [job EXCEPT ![p] = j]
      BY <2>2 DEF LoadSyncState, TypeOK
    <3>2. JobOK(j)
      <4>1. job[p].pc = "load" /\ checkpoint[Route(p)] \in Nat /\ peers \subseteq Senders
        BY <2>2, RouteType DEF LoadSyncState, TypeOK
      <4>. QED
        BY <2>0, <4>1 DEF JobOK, Jobs, Phases
    <3>. QED
      BY <2>2, <3>1, <3>2, SomeJob DEF LoadSyncState, TypeOK
  <2>3. CASE Pull(p)
    <3>1. PICK batch \in SUBSET Held(Route(p)),
               next \in 0 .. Len(relay[Route(p)]) \cup {cursor[Route(p)]}
                            \cup {CreatedAt[e] : e \in Held(Route(p))} :
             job' = [job EXCEPT ![p] = AfterPull(p, batch, next)]
      BY <2>3 DEF Pull
    <3>2. Route(p) \in Relays
      BY <2>3, RouteType DEF Pull
    <3>3. Held(Route(p)) \subseteq Events
      BY <3>2 DEF Held, TypeOK
    <3>4. next \in Nat
      BY <3>2, <3>3, EventsAssumption DEF TypeOK
    <3>5. JobOK(AfterPull(p, batch, next))
      <4>1. CASE batch = {}
        BY <2>0, <2>3, <3>4, <4>1, IdleOK DEF AfterPull, Pull, JobOK, Jobs, Phases
      <4>2. CASE batch # {}
        BY <2>0, <2>3, <3>3, <3>4, <4>2 DEF AfterPull, Pull, JobOK, Jobs, Phases
      <4>. QED
        BY <4>1, <4>2
    <3>. QED
      BY <2>3, <3>1, <3>5, SomeJob DEF Pull, TypeOK
  <2>4. CASE CommitBatch(p)
    <3>. DEFINE j(new, latest) ==
            [IdleJob EXCEPT !.pc = "cursor", !.at = job[p].at,
                            !.next = job[p].next, !.latest = latest,
                            !.seen = Candidates(p), !.convs = new, !.rows = new,
                            !.counts = unread]
    <3>1. PICK new \in SUBSET Candidates(p),
               latest \in {Stamp[e] : e \in Candidates(p)} \cup {job[p].last} :
             /\ messages' = MessagesWith(new)
             /\ unread' = CountsWith(new)
             /\ job' = [job EXCEPT ![p] = j(new, latest)]
      BY <2>4 DEF CommitBatch
    <3>2. Candidates(p) \subseteq Events
      BY <2>0 DEF Candidates, JobOK, Jobs
    <3>3. latest \in Nat
      BY <2>0, <3>2, EventsAssumption DEF JobOK, Jobs
    <3>4. CountsWith(new) \in [Senders -> Nat]
      <4>. DEFINE n(c) == Cardinality({e \in new : Sender(e) = c})
      <4>1. \A c \in Senders : n(c) \in Nat
        BY <3>2, CountType
      <4>2. CountsWith(new) = [c \in Senders |-> unread[c] + n(c)]
        BY DEF CountsWith
      <4>. HIDE DEF n
      <4>. QED
        BY <4>1, <4>2 DEF TypeOK
    <3>5. MessagesWith(new) \in [Msgs -> Events \cup {None, DirectCopy}]
      BY <3>2 DEF MessagesWith, TypeOK
    <3>6. ContactsWith(p) \in [Senders -> Keys \cup {NoContact, NoKey}]
      BY <3>2, EventsAssumption DEF ContactsWith, TypeOK
    <3>7. JobOK(j(new, latest))
      <4>1. unread \in [Senders -> Nat]
        BY DEF TypeOK
      <4>. QED
        BY <2>0, <2>4, <3>2, <3>3, <4>1, IdleOK DEF CommitBatch, JobOK, Jobs, Phases
    <3>8. contacts' = ContactsWith(p)
      BY <2>4 DEF CommitBatch
    <3>9. UNCHANGED <<worldVars, peers, runtimeVars, syncVars, envelope, reader>>
      BY <2>4 DEF CommitBatch
    <3>. HIDE DEF j
    <3>. QED
      BY <3>1, <3>4, <3>5, <3>6, <3>7, <3>8, <3>9, SomeJob DEF TypeOK
  <2>5. CASE SaveCursor(p)
    <3>. DEFINE j == [job[p] EXCEPT !.pc = "checkpoint"]
    <3>1. job' = [job EXCEPT ![p] = j]
      BY <2>5 DEF SaveCursor, TypeOK
    <3>2. JobOK(j)
      BY <2>0, <2>5 DEF SaveCursor, JobOK, Jobs, Phases
    <3>3. cursor' \in [Relays -> Nat]
      BY <2>5 DEF SaveCursor, TypeOK, Jobs
    <3>. QED
      BY <2>5, <3>1, <3>2, <3>3, SomeJob DEF SaveCursor, TypeOK
  <2>6. CASE SaveCheckpoint(p)
    <3>. DEFINE j == [job[p] EXCEPT !.pc = PhaseAfter(job[p].seen, job[p].rows),
                                    !.latest = 0]
    <3>1. job' = [job EXCEPT ![p] = j]
      BY <2>6 DEF SaveCheckpoint, TypeOK
    <3>2. JobOK(j)
      BY <2>0, <2>6 DEF SaveCheckpoint, JobOK, Jobs, Phases, PhaseAfter
    <3>3. checkpoint' \in [Relays -> Nat]
      BY <2>6 DEF SaveCheckpoint, TypeOK, Jobs
    <3>. QED
      BY <2>6, <3>1, <3>2, <3>3, SomeJob DEF SaveCheckpoint, TypeOK
  <2>7. CASE SaveObservation(p)
    <3>1. PICK e \in job[p].seen :
             /\ observed' = observed \cup {<<e, Route(p)>>}
             /\ job' = [job EXCEPT ![p].pc = PhaseAfter(job[p].seen \ {e}, job[p].rows),
                                   ![p].seen = @ \ {e}]
      BY <2>7 DEF SaveObservation
    <3>. DEFINE j == [job[p] EXCEPT !.pc = PhaseAfter(job[p].seen \ {e}, job[p].rows),
                                    !.seen = @ \ {e}]
    <3>2. job' = [job EXCEPT ![p] = j]
      BY <3>1 DEF TypeOK
    <3>3. JobOK(j)
      BY <2>0, <2>7 DEF SaveObservation, JobOK, Jobs, Phases, PhaseAfter
    <3>4. observed' \subseteq (Events \X Relays)
      <4>1. Route(p) \in Relays /\ e \in Events
        BY <2>0, <2>7, RouteType DEF SaveObservation, JobOK, Jobs
      <4>. QED
        BY <3>1, <4>1 DEF TypeOK
    <3>. QED
      BY <2>7, <3>2, <3>3, <3>4, SomeJob DEF SaveObservation, TypeOK
  <2>8. CASE SaveConversation(p)
    <3>1. PICK e \in job[p].convs :
             LET c == Sender(e)
                 rest == job[p].convs \ {e}
             IN  /\ rtConv' = rtConv \cup {c}
                 /\ rtUnread' = [rtUnread EXCEPT ![c] =
                       job[p].counts[c]
                         + Cardinality({f \in job[p].rows \ rest : Sender(f) = c})]
                 /\ job' = [job EXCEPT
                       ![p].pc = IF rest = {} THEN "messages" ELSE "conversations",
                       ![p].convs = rest,
                       ![p].counts = IF rest = {} THEN IdleJob.counts ELSE @]
      BY <2>8 DEF SaveConversation
    <3>. DEFINE c == Sender(e)
                rest == job[p].convs \ {e}
                saved == Cardinality({f \in job[p].rows \ rest : Sender(f) = c})
                j == [job[p] EXCEPT
                        !.pc = IF rest = {} THEN "messages" ELSE "conversations",
                        !.convs = rest,
                        !.counts = IF rest = {} THEN IdleJob.counts ELSE @]
    <3>2. job' = [job EXCEPT ![p] = j]
      BY <3>1 DEF TypeOK
    <3>3. IdleJob.counts \in [Senders -> Nat]
      BY DEF IdleJob
    <3>4. JobOK(j)
      BY <2>0, <2>8, <3>3 DEF SaveConversation, JobOK, Jobs, Phases
    <3>5. c \in Senders
      BY <2>0, EventsAssumption DEF JobOK, Jobs, Sender
    <3>6. saved \in Nat
      BY <2>0, CountType DEF JobOK, Jobs
    <3>7. job[p].counts[c] + saved \in Nat
      BY <2>0, <3>5, <3>6 DEF JobOK, Jobs
    <3>8. rtUnread' = [rtUnread EXCEPT ![c] = job[p].counts[c] + saved]
      BY <3>1
    <3>9. rtUnread' \in [Senders -> Nat]
      BY <3>5, <3>7, <3>8 DEF TypeOK
    <3>10. rtConv' \subseteq Senders
      BY <3>1, <3>5 DEF TypeOK
    <3>. HIDE DEF j
    <3>. QED
      BY <2>8, <3>2, <3>4, <3>9, <3>10, SomeJob DEF SaveConversation, TypeOK
  <2>9. CASE SaveMessage(p)
    <3>1. PICK e \in job[p].rows :
             LET rest == job[p].rows \ {e}
             IN  /\ rtMessages' = [rtMessages EXCEPT
                       ![MsgOf[e]] = MergeMessageStatus(@, "recovered")]
                 /\ job' = [job EXCEPT
                       ![p].pc = IF rest = {} THEN "ack" ELSE "messages",
                       ![p].rows = rest]
      BY <2>9 DEF SaveMessage
    <3>. DEFINE rest == job[p].rows \ {e}
                j == [job[p] EXCEPT !.pc = IF rest = {} THEN "ack" ELSE "messages",
                                    !.rows = rest]
    <3>2. job' = [job EXCEPT ![p] = j]
      BY <3>1 DEF TypeOK
    <3>3. JobOK(j)
      BY <2>0, <2>9 DEF SaveMessage, JobOK, Jobs, Phases
    <3>4. MsgOf[e] \in Msgs
      BY <2>0, EventsAssumption DEF JobOK, Jobs
    <3>5. rtMessages' \in [Msgs -> MessageStatuses \cup {NoStatus}]
      BY <3>1, <3>4, MergeType DEF TypeOK, MessageStatuses
    <3>. QED
      BY <2>9, <3>2, <3>3, <3>5, SomeJob DEF SaveMessage, TypeOK
  <2>10. CASE Ack(p)
    <3>1. acked' \in [Relays -> Nat]
      BY <2>10 DEF Ack, TypeOK, Jobs
    <3>. QED
      BY <2>10, <3>1, SomeJob, NextRouteOK DEF Ack, TypeOK
  <2>11. CASE AbortBatch(p) \/ PullFails(p) \/ AckFails(p) \/ StoreFails(p)
    BY <2>11, SomeJob, NextRouteOK
       DEF AbortBatch, PullFails, AckFails, StoreFails, TypeOK
  <2>12. CASE Crash(p)
    BY <2>12, SomeJob, IdleOK DEF Crash, TypeOK
  <2>. QED
    BY <1>3, <2>1, <2>2, <2>3, <2>4, <2>5, <2>6, <2>7, <2>8, <2>9, <2>10, <2>11,
       <2>12 DEF SyncStep, SyncError
<1>4. CASE DirectStep
  <2>1. ASSUME NEW m \in Msgs, ReceiveDirect(m) PROVE TypeOK'
    <3>1. SenderOf[m] \in Senders
      BY EventsAssumption
    <3>2. contacts' \in [Senders -> Keys \cup {NoContact, NoKey}]
      BY <2>1, <3>1 DEF ReceiveDirect, TypeOK
    <3>3. CASE messages[m] = None
      <4>0. messages' = [messages EXCEPT ![m] = DirectCopy]
        BY <2>1, <3>3 DEF ReceiveDirect
      <4>1. messages' \in [Msgs -> Events \cup {None, DirectCopy}]
        BY <4>0 DEF TypeOK
      <4>2. unread' \in [Senders -> Nat]
        <5>1. unread' = [unread EXCEPT ![SenderOf[m]] = @ + 1]
          BY <2>1, <3>3 DEF ReceiveDirect
        <5>. QED
          BY <3>1, <5>1 DEF TypeOK
      <4>3. envelope' = [msg |-> m, pc |-> "conversation"]
        BY <2>1, <3>3 DEF ReceiveDirect
      <4>. QED
        BY <2>1, <3>2, <4>1, <4>2, <4>3 DEF ReceiveDirect, TypeOK
    <3>4. CASE messages[m] # None
      BY <2>1, <3>1, <3>2, <3>4 DEF ReceiveDirect, TypeOK
    <3>. QED
      BY <3>3, <3>4
  <2>2. CASE SaveDirectConversation
    BY <2>2, EventsAssumption DEF SaveDirectConversation, TypeOK
  <2>3. CASE SaveDirectMessage
    BY <2>3, MergeType DEF SaveDirectMessage, TypeOK, MessageStatuses, NoEnvelope
  <2>. QED
    BY <1>4, <2>1, <2>2, <2>3 DEF DirectStep
<1>5. CASE ReadStep
  <2>1. ASSUME NEW c \in Senders, MarkRuntimeRead(c) PROVE TypeOK'
    BY <2>1 DEF MarkRuntimeRead, TypeOK
  <2>2. CASE MarkLegacyRead
    BY <2>2 DEF MarkLegacyRead, TypeOK
  <2>. QED
    BY <1>5, <2>1, <2>2 DEF ReadStep
<1>6. CASE DirectFails \/ MarkReadFails
  BY <1>6 DEF DirectFails, MarkReadFails, TypeOK, NoEnvelope
<1>7. CASE UNCHANGED vars
  BY <1>7 DEF vars, TypeOK
<1>. QED
  BY <1>1, <1>2, <1>3, <1>4, <1>5, <1>6, <1>7 DEF Next, Working, Failure, World

\* Every reachable state is well typed.
THEOREM TypeCorrect == Spec => []TypeOK
  BY TypeInit, TypeStep, PTL DEF Spec

-----------------------------------------------------------------------------
(* What is stored, and what is done with it afterwards. *)

LEMMA EventMsg == \A e \in Events : MsgOf[e] \in Msgs /\ e # None /\ e # DirectCopy
  BY EventsAssumption, DistinctAssumption

\* What a transaction of a sync does to the message table and to the job.
LEMMA CommitFacts ==
    ASSUME TypeOK, NEW p \in Syncers, CommitBatch(p)
    PROVE  \E new \in SUBSET Candidates(p) :
              /\ \A e \in new : /\ messages[MsgOf[e]] = None
                                /\ messages'[MsgOf[e]] \in new
                                /\ MsgOf[messages'[MsgOf[e]]] = MsgOf[e]
              /\ \A m \in Msgs : ~(\E e \in new : MsgOf[e] = m)
                                    => messages'[m] = messages[m]
              /\ \A e \in Candidates(p) : Stored(MsgOf[e])'
              /\ Candidates(p) \subseteq Events
              /\ job'[p].rows = new
              /\ job'[p].seen = Candidates(p)
              /\ \A q \in Syncers \ {p} : job'[q] = job[q]
<1>1. PICK new \in SUBSET Candidates(p),
           latest \in {Stamp[e] : e \in Candidates(p)} \cup {job[p].last} :
         /\ InsertOrIgnore(p, new)
         /\ messages' = MessagesWith(new)
         /\ job' = [job EXCEPT ![p] =
               [IdleJob EXCEPT !.pc = "cursor", !.at = job[p].at,
                               !.next = job[p].next, !.latest = latest,
                               !.seen = Candidates(p), !.convs = new, !.rows = new,
                               !.counts = unread]]
  BY DEF CommitBatch
<1>2. Candidates(p) \subseteq Events
  BY DEF Candidates, TypeOK, Jobs
<1>3. ASSUME NEW e \in new
      PROVE  /\ messages'[MsgOf[e]] \in new
             /\ MsgOf[messages'[MsgOf[e]]] = MsgOf[e]
  <2>1. messages'[MsgOf[e]] = CHOOSE f \in new : MsgOf[f] = MsgOf[e]
    BY <1>1, <1>2, EventMsg DEF MessagesWith
  <2>. QED
    BY <2>1
<1>4. \A m \in Msgs : ~(\E e \in new : MsgOf[e] = m) => messages'[m] = messages[m]
  BY <1>1 DEF MessagesWith
<1>5. ASSUME NEW e \in Candidates(p) PROVE Stored(MsgOf[e])'
  <2>1. CASE \E f \in new : MsgOf[f] = MsgOf[e]
    BY <1>2, <1>3, <2>1, EventMsg DEF Stored
  <2>2. CASE ~(\E f \in new : MsgOf[f] = MsgOf[e])
    <3>1. messages[MsgOf[e]] # None
      BY <1>1, <2>2 DEF InsertOrIgnore
    <3>. QED
      BY <1>2, <1>4, <2>2, <3>1, EventMsg DEF Stored
  <2>. QED
    BY <2>1, <2>2
<1>6. \A e \in new : messages[MsgOf[e]] = None
  BY <1>1 DEF InsertOrIgnore
<1>7. /\ job'[p].rows = new
      /\ job'[p].seen = Candidates(p)
      /\ \A q \in Syncers \ {p} : job'[q] = job[q]
  BY <1>1 DEF TypeOK, IdleJob
<1>. QED
  BY <1>2, <1>3, <1>4, <1>5, <1>6, <1>7

\* Every other step of a sync only drops work from its job.
LEMMA JobShrinks ==
    ASSUME TypeOK, NEW p \in Syncers, SyncStep(p) \/ SyncError(p), ~CommitBatch(p),
           NEW q \in Syncers
    PROVE  /\ job'[q].rows \subseteq job[q].rows
           /\ job'[q].seen \subseteq job[q].seen
<1>1. NextRoute(p).rows = {} /\ NextRoute(p).seen = {}
  BY DEF NextRoute, IdleJob
<1>0. job \in [Syncers -> Jobs] /\ IdleJob.rows = {} /\ IdleJob.seen = {}
  BY DEF TypeOK, IdleJob
<1>2. CASE StartSync(p) \/ Crash(p)
  <2>1. CASE StartSync(p)
    <3>. DEFINE j == [IdleJob EXCEPT !.pc = "load", !.at = 1]
    <3>1. j.rows = {} /\ j.seen = {}
      BY DEF IdleJob
    <3>2. job' = [job EXCEPT ![p] = j]
      BY <2>1 DEF StartSync
    <3>. HIDE DEF j
    <3>. QED
      BY <1>0, <3>1, <3>2
  <2>2. CASE Crash(p)
    BY <2>2, <1>0 DEF Crash
  <2>. QED
    BY <1>2, <2>1, <2>2
<1>3. CASE LoadSyncState(p) \/ SaveCursor(p) \/ SaveCheckpoint(p)
  <2>1. CASE LoadSyncState(p)
    BY <2>1, <1>0 DEF LoadSyncState, Jobs
  <2>2. CASE SaveCursor(p)
    BY <2>2, <1>0 DEF SaveCursor, Jobs
  <2>3. CASE SaveCheckpoint(p)
    BY <2>3, <1>0 DEF SaveCheckpoint, Jobs
  <2>. QED
    BY <1>3, <2>1, <2>2, <2>3
<1>4. CASE Pull(p)
  <2>1. PICK batch, next : job' = [job EXCEPT ![p] = AfterPull(p, batch, next)]
    BY <1>4 DEF Pull
  <2>. QED
    BY <2>1 DEF AfterPull, TypeOK, Jobs, IdleJob
<1>5. CASE SaveObservation(p)
  BY <1>5 DEF SaveObservation, TypeOK, Jobs
<1>6. CASE SaveConversation(p)
  <2>. DEFINE rest(e) == job[p].convs \ {e}
  <2>1. PICK e \in job[p].convs :
           job' = [job EXCEPT
                     ![p].pc = IF rest(e) = {} THEN "messages" ELSE "conversations",
                     ![p].convs = rest(e),
                     ![p].counts = IF rest(e) = {} THEN IdleJob.counts ELSE @]
    BY <1>6 DEF SaveConversation
  <2>. QED
    BY <1>0, <2>1 DEF Jobs
<1>7. CASE SaveMessage(p)
  BY <1>7 DEF SaveMessage, TypeOK, Jobs
<1>8. CASE Ack(p) \/ AbortBatch(p) \/ SyncError(p)
  BY <1>1, <1>2, <1>8
     DEF Ack, AbortBatch, SyncError, PullFails, AckFails, StoreFails, TypeOK
<1>. QED
  BY <1>2, <1>3, <1>4, <1>5, <1>6, <1>7, <1>8 DEF SyncStep

\* A stored copy is never replaced.
LEMMA StoredStays ==
    ASSUME TypeOK, [Next]_vars, NEW m \in Msgs, Stored(m)
    PROVE  messages'[m] = messages[m]
<1>. USE DEF worldVars, tableVars, runtimeVars, syncVars
<1>1. ASSUME NEW p \in Syncers, CommitBatch(p) PROVE messages'[m] = messages[m]
  BY <1>1, CommitFacts DEF Stored
<1>2. ASSUME NEW n \in Msgs, ReceiveDirect(n) PROVE messages'[m] = messages[m]
  BY <1>2 DEF ReceiveDirect, TypeOK, Stored
<1>3. ASSUME NEW p \in Syncers, SyncStep(p) \/ SyncError(p), ~CommitBatch(p)
      PROVE  messages' = messages
  BY <1>3 DEF SyncStep, SyncError, StartSync, LoadSyncState, Pull, AbortBatch,
              SaveCursor, SaveCheckpoint, SaveObservation, SaveConversation,
              SaveMessage, Ack, PullFails, AckFails, StoreFails, Crash
<1>4. CASE World \/ ReadStep \/ DirectFails \/ MarkReadFails
           \/ SaveDirectConversation \/ SaveDirectMessage \/ UNCHANGED vars
  BY <1>4 DEF World, Arrive, ImportCard, ReadStep, MarkRuntimeRead, MarkLegacyRead,
              DirectFails, MarkReadFails, SaveDirectConversation,
              SaveDirectMessage, vars
<1>. QED
  BY <1>1, <1>2, <1>3, <1>4 DEF Next, Working, Failure, DirectStep

-----------------------------------------------------------------------------
(* The inductive invariant behind the refinement: whoever is still going to *)
(* write a runtime row or an observation does so for a stored message, and  *)
(* with the status of its copy.                                             *)

RowsStored ==
    \A p \in Syncers : \A e \in job[p].rows : messages[MsgOf[e]] \in Events

SeenStored ==
    \A p \in Syncers : \A e \in job[p].seen : Stored(MsgOf[e])

EnvelopeStored ==
    envelope.pc # "idle" => messages[envelope.msg] = DirectCopy

ShownAsStored ==
    \A m \in Msgs : rtMessages[m] # NoStatus =>
        Stored(m) /\ rtMessages[m] = StatusOf[messages[m]]

CopyInv ==
    RowsStored /\ SeenStored /\ ObservedStored /\ EnvelopeStored /\ ShownAsStored

LEMMA CopyInit == Init => CopyInv
  BY DEF Init, CopyInv, RowsStored, SeenStored, ObservedStored, EnvelopeStored,
         ShownAsStored, IdleJob, NoEnvelope

LEMMA StatusOfCopy ==
    /\ \A e \in Events : StatusOf[e] = "recovered"
    /\ StatusOf[DirectCopy] = "delivered"
  BY EventMsg DEF StatusOf

LEMMA RowsSeenStep ==
    ASSUME TypeOK, CopyInv, [Next]_vars
    PROVE  RowsStored' /\ SeenStored'
<1>1. ASSUME NEW m \in Msgs, Stored(m) PROVE messages'[m] = messages[m]
  BY <1>1, StoredStays
<1>2. \A p \in Syncers : job[p].rows \subseteq Events /\ job[p].seen \subseteq Events
  BY DEF TypeOK, Jobs
<1>3. ASSUME \A q \in Syncers : /\ job'[q].rows \subseteq job[q].rows
                                /\ job'[q].seen \subseteq job[q].seen
      PROVE  RowsStored' /\ SeenStored'
  BY <1>1, <1>2, <1>3, EventMsg DEF CopyInv, RowsStored, SeenStored, Stored
<1>4. ASSUME NEW p \in Syncers, CommitBatch(p) PROVE RowsStored' /\ SeenStored'
  <2>1. PICK new \in SUBSET Candidates(p) :
              /\ \A e \in new : messages'[MsgOf[e]] \in new
              /\ \A e \in Candidates(p) : Stored(MsgOf[e])'
              /\ Candidates(p) \subseteq Events
              /\ job'[p].rows = new
              /\ job'[p].seen = Candidates(p)
              /\ \A q \in Syncers \ {p} : job'[q] = job[q]
    BY <1>4, CommitFacts
  <2>2. \A q \in Syncers \ {p} :
           /\ \A e \in job'[q].rows : messages'[MsgOf[e]] \in Events
           /\ \A e \in job'[q].seen : Stored(MsgOf[e])'
    BY <1>1, <1>2, <2>1, EventMsg DEF CopyInv, RowsStored, SeenStored, Stored
  <2>3. /\ \A e \in job'[p].rows : messages'[MsgOf[e]] \in Events
        /\ \A e \in job'[p].seen : Stored(MsgOf[e])'
    BY <2>1
  <2>. QED
    BY <2>2, <2>3 DEF RowsStored, SeenStored
<1>5. ASSUME NEW p \in Syncers, SyncStep(p) \/ SyncError(p), ~CommitBatch(p)
      PROVE  RowsStored' /\ SeenStored'
  BY <1>3, <1>5, JobShrinks
<1>6. CASE World \/ DirectStep \/ ReadStep \/ DirectFails \/ MarkReadFails
           \/ UNCHANGED vars
  <2>1. UNCHANGED job
    BY <1>6 DEF World, Arrive, ImportCard, DirectStep, ReceiveDirect,
                SaveDirectConversation, SaveDirectMessage, ReadStep,
                MarkRuntimeRead, MarkLegacyRead, DirectFails, MarkReadFails, vars
  <2>. QED
    BY <1>3, <2>1
<1>. QED
  BY <1>4, <1>5, <1>6 DEF Next, Working, Failure

LEMMA ObservedStep ==
    ASSUME TypeOK, CopyInv, [Next]_vars
    PROVE  ObservedStored'
<1>. USE DEF worldVars, tableVars, runtimeVars, syncVars
<1>1. ASSUME NEW m \in Msgs, Stored(m) PROVE Stored(m)'
  BY <1>1, StoredStays DEF Stored
<1>2. \A o \in observed : MsgOf[o[1]] \in Msgs
  BY EventMsg DEF TypeOK
<1>3. CASE UNCHANGED observed
  BY <1>1, <1>2, <1>3 DEF CopyInv, ObservedStored
<1>4. ASSUME NEW p \in Syncers, SaveObservation(p) PROVE ObservedStored'
  <2>1. PICK e \in job[p].seen : observed' = observed \cup {<<e, Route(p)>>}
    BY <1>4 DEF SaveObservation
  <2>2. Stored(MsgOf[e]) /\ MsgOf[e] \in Msgs
    BY EventMsg DEF CopyInv, SeenStored, TypeOK, Jobs
  <2>. QED
    BY <1>1, <1>2, <2>1, <2>2 DEF CopyInv, ObservedStored
<1>5. ASSUME NEW p \in Syncers, SyncStep(p) \/ SyncError(p), ~SaveObservation(p)
      PROVE  UNCHANGED observed
  BY <1>5 DEF SyncStep, SyncError, StartSync, LoadSyncState, Pull, CommitBatch,
              AbortBatch, SaveCursor, SaveCheckpoint, SaveConversation,
              SaveMessage, Ack, PullFails, AckFails, StoreFails, Crash
<1>6. CASE World \/ DirectStep \/ ReadStep \/ DirectFails \/ MarkReadFails
           \/ UNCHANGED vars
  BY <1>3, <1>6 DEF World, Arrive, ImportCard, DirectStep, ReceiveDirect,
                SaveDirectConversation, SaveDirectMessage, ReadStep,
                MarkRuntimeRead, MarkLegacyRead, DirectFails, MarkReadFails, vars
<1>. QED
  BY <1>3, <1>4, <1>5, <1>6 DEF Next, Working, Failure

LEMMA EnvelopeStep ==
    ASSUME TypeOK, CopyInv, [Next]_vars
    PROVE  EnvelopeStored'
<1>. USE DEF worldVars, tableVars, runtimeVars, syncVars
<1>1. ASSUME NEW m \in Msgs, Stored(m) PROVE messages'[m] = messages[m]
  BY <1>1, StoredStays
<1>2. CASE UNCHANGED envelope
  BY <1>1, <1>2, DistinctAssumption DEF CopyInv, EnvelopeStored, TypeOK, Stored
<1>3. ASSUME NEW m \in Msgs, ReceiveDirect(m) PROVE EnvelopeStored'
  <2>1. CASE messages[m] = None
    BY <1>3, <2>1 DEF ReceiveDirect, TypeOK, EnvelopeStored
  <2>2. CASE messages[m] # None
    BY <1>2, <1>3, <2>2 DEF ReceiveDirect
  <2>. QED
    BY <2>1, <2>2
<1>4. CASE SaveDirectConversation
  BY <1>4 DEF SaveDirectConversation, CopyInv, EnvelopeStored, TypeOK
<1>5. CASE SaveDirectMessage \/ DirectFails
  BY <1>5 DEF SaveDirectMessage, DirectFails, EnvelopeStored, NoEnvelope
<1>6. ASSUME NEW p \in Syncers, SyncStep(p) \/ SyncError(p) PROVE UNCHANGED envelope
  BY <1>6 DEF SyncStep, SyncError, StartSync, LoadSyncState, Pull, CommitBatch,
              AbortBatch, SaveCursor, SaveCheckpoint, SaveObservation,
              SaveConversation, SaveMessage, Ack, PullFails, AckFails, StoreFails,
              Crash
<1>7. CASE World \/ ReadStep \/ MarkReadFails \/ UNCHANGED vars
  BY <1>2, <1>7 DEF World, Arrive, ImportCard, ReadStep, MarkRuntimeRead,
                    MarkLegacyRead, MarkReadFails, vars
<1>. QED
  BY <1>2, <1>3, <1>4, <1>5, <1>6, <1>7 DEF Next, Working, Failure, DirectStep

\* A runtime row is written with the status of its copy, over nothing or over
\* the same status.
LEMMA ShowRecovered ==
    ASSUME TypeOK, CopyInv, NEW p \in Syncers, SaveMessage(p)
    PROVE  \E m \in Msgs : /\ Stored(m)
                           /\ rtMessages[m] \in {NoStatus, StatusOf[messages[m]]}
                           /\ rtMessages' = [rtMessages EXCEPT ![m] = StatusOf[messages[m]]]
                           /\ UNCHANGED messages
<1>1. PICK e \in job[p].rows :
         rtMessages' = [rtMessages EXCEPT ![MsgOf[e]] = MergeMessageStatus(@, "recovered")]
  BY DEF SaveMessage
<1>2. e \in Events /\ MsgOf[e] \in Msgs /\ messages[MsgOf[e]] \in Events
  BY EventMsg DEF CopyInv, RowsStored, TypeOK, Jobs
<1>3. Stored(MsgOf[e]) /\ StatusOf[messages[MsgOf[e]]] = "recovered"
  BY <1>2, EventMsg, StatusOfCopy DEF Stored
<1>4. rtMessages[MsgOf[e]] \in {NoStatus, "recovered"}
  BY <1>2, <1>3 DEF CopyInv, ShownAsStored
<1>5. MergeMessageStatus(rtMessages[MsgOf[e]], "recovered") = "recovered"
  BY <1>4, MergeFirst
<1>6. rtMessages' = [rtMessages EXCEPT ![MsgOf[e]] = "recovered"]
  BY <1>1, <1>2, <1>5 DEF TypeOK
<1>. QED
  BY <1>2, <1>3, <1>4, <1>6 DEF SaveMessage, tableVars

LEMMA ShowDelivered ==
    ASSUME TypeOK, CopyInv, SaveDirectMessage
    PROVE  \E m \in Msgs : /\ Stored(m)
                           /\ rtMessages[m] \in {NoStatus, StatusOf[messages[m]]}
                           /\ rtMessages' = [rtMessages EXCEPT ![m] = StatusOf[messages[m]]]
                           /\ UNCHANGED messages
<1>. DEFINE m == envelope.msg
<1>1. m \in Msgs /\ messages[m] = DirectCopy
  BY DEF SaveDirectMessage, CopyInv, EnvelopeStored, TypeOK
<1>2. Stored(m) /\ StatusOf[messages[m]] = "delivered"
  BY <1>1, StatusOfCopy, DistinctAssumption DEF Stored
<1>3. rtMessages[m] \in {NoStatus, "delivered"}
  BY <1>1, <1>2 DEF CopyInv, ShownAsStored
<1>4. MergeMessageStatus(rtMessages[m], "delivered") = "delivered"
  BY <1>3, MergeFirst
<1>5. rtMessages' = [rtMessages EXCEPT ![m] = "delivered"]
  BY <1>1, <1>4 DEF SaveDirectMessage, TypeOK
<1>. QED
  BY <1>1, <1>2, <1>3, <1>5 DEF SaveDirectMessage, tableVars

\* No other step writes a runtime row.
LEMMA RowsElsewhere ==
    ASSUME [Next]_vars, ~SaveDirectMessage, \A p \in Syncers : ~SaveMessage(p)
    PROVE  UNCHANGED rtMessages
<1>. USE DEF worldVars, tableVars, runtimeVars, syncVars
<1>1. ASSUME NEW p \in Syncers, SyncStep(p) \/ SyncError(p) PROVE UNCHANGED rtMessages
  BY <1>1 DEF SyncStep, SyncError, StartSync, LoadSyncState, Pull, CommitBatch,
              AbortBatch, SaveCursor, SaveCheckpoint, SaveObservation,
              SaveConversation, Ack, PullFails, AckFails, StoreFails, Crash
<1>2. CASE World \/ DirectStep \/ ReadStep \/ DirectFails \/ MarkReadFails
           \/ UNCHANGED vars
  BY <1>2 DEF World, Arrive, ImportCard, DirectStep, ReceiveDirect,
              SaveDirectConversation, ReadStep, MarkRuntimeRead, MarkLegacyRead,
              DirectFails, MarkReadFails, vars
<1>. QED
  BY <1>1, <1>2 DEF Next, Working, Failure

\* Nor does any other step store a message.
LEMMA StoredElsewhere ==
    ASSUME [Next]_vars, \A p \in Syncers : ~CommitBatch(p),
           \A m \in Msgs : ~ReceiveDirect(m)
    PROVE  UNCHANGED messages
<1>. USE DEF worldVars, tableVars, runtimeVars, syncVars
<1>1. ASSUME NEW p \in Syncers, SyncStep(p) \/ SyncError(p) PROVE UNCHANGED messages
  BY <1>1 DEF SyncStep, SyncError, StartSync, LoadSyncState, Pull,
              AbortBatch, SaveCursor, SaveCheckpoint, SaveObservation,
              SaveConversation, SaveMessage, Ack, PullFails, AckFails, StoreFails,
              Crash
<1>2. CASE World \/ DirectStep \/ ReadStep \/ DirectFails \/ MarkReadFails
           \/ UNCHANGED vars
  BY <1>2 DEF World, Arrive, ImportCard, DirectStep, SaveDirectConversation,
              SaveDirectMessage, ReadStep, MarkRuntimeRead, MarkLegacyRead,
              DirectFails, MarkReadFails, vars
<1>. QED
  BY <1>1, <1>2 DEF Next, Working, Failure

LEMMA ShownStep ==
    ASSUME TypeOK, CopyInv, [Next]_vars
    PROVE  ShownAsStored'
<1>1. ASSUME NEW m \in Msgs, Stored(m)
      PROVE  Stored(m)' /\ StatusOf[messages[m]]' = StatusOf[messages[m]]
  BY <1>1, StoredStays DEF Stored, StatusOf
<1>2. CASE UNCHANGED rtMessages
  BY <1>1, <1>2 DEF CopyInv, ShownAsStored
<1>3. ASSUME \E m \in Msgs : /\ Stored(m)
                             /\ rtMessages' = [rtMessages EXCEPT ![m] = StatusOf[messages[m]]]
                             /\ UNCHANGED messages
      PROVE  ShownAsStored'
  BY <1>1, <1>3 DEF CopyInv, ShownAsStored, TypeOK
<1>4. ASSUME NEW p \in Syncers, SaveMessage(p) PROVE ShownAsStored'
  BY <1>3, <1>4, ShowRecovered
<1>5. CASE SaveDirectMessage
  BY <1>3, <1>5, ShowDelivered
<1>. QED
  BY <1>2, <1>4, <1>5, RowsElsewhere

LEMMA CopyStep == TypeOK /\ CopyInv /\ [Next]_vars => CopyInv'
  BY RowsSeenStep, ObservedStep, EnvelopeStep, ShownStep DEF CopyInv

LEMMA CopyCorrect == Spec => []CopyInv
<1>1. Spec => []TypeOK
  BY TypeCorrect
<1>. QED
  BY <1>1, CopyInit, CopyStep, PTL DEF Spec

\* An observation, which makes every later sync skip its event on every
\* relay, stands for a stored message.
THEOREM ObservedAreStored == Spec => []ObservedStored
  BY CopyCorrect, PTL DEF CopyInv

-----------------------------------------------------------------------------
(* The refinement. *)

LEMMA InitRefines == Init => Promise!Init
  BY DEF Init, Promise!Init

LEMMA CommitRefines ==
    ASSUME TypeOK, TypeOK', NEW p \in Syncers, CommitBatch(p)
    PROVE  [Promise!Next]_(Promise!vars)
<1>1. PICK new \in SUBSET Candidates(p) :
         /\ \A e \in new : /\ messages[MsgOf[e]] = None
                           /\ messages'[MsgOf[e]] \in new
                           /\ MsgOf[messages'[MsgOf[e]]] = MsgOf[e]
         /\ \A m \in Msgs : ~(\E e \in new : MsgOf[e] = m) => messages'[m] = messages[m]
         /\ Candidates(p) \subseteq Events
  BY CommitFacts
<1>. DEFINE taken == {MsgOf[e] : e \in new}
            copy == [m \in taken |-> messages'[m]]
<1>2. taken \subseteq Msgs
  BY <1>1, EventMsg
<1>3. messages \in [Msgs -> Events \cup {None, DirectCopy}]
      /\ messages' \in [Msgs -> Events \cup {None, DirectCopy}]
  BY DEF TypeOK
<1>4. UNCHANGED rtMessages
  BY DEF CommitBatch, runtimeVars
<1>5. CASE taken = {}
  <2>1. \A m \in Msgs : messages'[m] = messages[m]
    BY <1>1, <1>5
  <2>2. UNCHANGED messages
    BY <1>3, <2>1
  <2>. QED
    BY <1>4, <2>2 DEF Promise!vars
<1>6. CASE taken # {}
  <2>1. \A m \in taken : messages[m] = None
    BY <1>1
  <2>2. \A m \in taken : copy[m] \in Events /\ MsgOf[copy[m]] = m
    BY <1>1
  <2>3. copy \in [taken -> Events \cup {DirectCopy}]
    BY <2>2
  <2>4. \A m \in taken : copy[m] \in CopiesOf[m]
    BY <1>2, <2>2 DEF CopiesOf
  <2>5. messages' = [m \in Msgs |-> IF m \in taken THEN copy[m] ELSE messages[m]]
    BY <1>1, <1>3
  <2>6. Promise!Store(taken)
    BY <1>4, <1>6, <2>1, <2>3, <2>4, <2>5 DEF Promise!Store
  <2>. QED
    BY <1>2, <2>6 DEF Promise!Next
<1>. QED
  BY <1>5, <1>6

LEMMA DirectRefines ==
    ASSUME TypeOK, NEW m \in Msgs, ReceiveDirect(m)
    PROVE  [Promise!Next]_(Promise!vars)
<1>1. UNCHANGED rtMessages
  BY DEF ReceiveDirect, runtimeVars
<1>2. CASE messages[m] = None
  <2>. DEFINE copy == [n \in {m} |-> DirectCopy]
  <2>1. copy \in [{m} -> Events \cup {DirectCopy}] /\ copy[m] = DirectCopy
    OBVIOUS
  <2>2. copy[m] \in CopiesOf[m]
    BY <2>1 DEF ReceiveDirect, CopiesOf
  <2>3. messages' = [n \in Msgs |-> IF n \in {m} THEN copy[n] ELSE messages[n]]
    BY <1>2, <2>1 DEF ReceiveDirect, TypeOK
  <2>4. Promise!Store({m})
    BY <1>1, <1>2, <2>1, <2>2, <2>3 DEF Promise!Store
  <2>. QED
    BY <2>4 DEF Promise!Next
<1>3. CASE messages[m] # None
  BY <1>1, <1>3 DEF ReceiveDirect, Promise!vars
<1>. QED
  BY <1>2, <1>3

LEMMA ShowRefines ==
    ASSUME TypeOK, NEW m \in Msgs, Stored(m),
           rtMessages[m] \in {NoStatus, StatusOf[messages[m]]},
           rtMessages' = [rtMessages EXCEPT ![m] = StatusOf[messages[m]]],
           UNCHANGED messages
    PROVE  [Promise!Next]_(Promise!vars)
<1>1. CASE rtMessages[m] = NoStatus
  <2>1. Promise!Show(m)
    BY <1>1 DEF Promise!Show, Stored
  <2>. QED
    BY <2>1 DEF Promise!Next
<1>2. CASE rtMessages[m] # NoStatus
  BY <1>2 DEF TypeOK, Promise!vars
<1>. QED
  BY <1>1, <1>2

LEMMA StepRefines ==
    TypeOK /\ TypeOK' /\ CopyInv /\ [Next]_vars => [Promise!Next]_(Promise!vars)
<1>. SUFFICES ASSUME TypeOK, TypeOK', CopyInv, [Next]_vars
              PROVE  [Promise!Next]_(Promise!vars)
  OBVIOUS
<1>1. ASSUME NEW p \in Syncers, CommitBatch(p) PROVE [Promise!Next]_(Promise!vars)
  BY <1>1, CommitRefines
<1>2. ASSUME NEW m \in Msgs, ReceiveDirect(m) PROVE [Promise!Next]_(Promise!vars)
  BY <1>2, DirectRefines
<1>3. ASSUME NEW p \in Syncers, SaveMessage(p) PROVE [Promise!Next]_(Promise!vars)
  BY <1>3, ShowRecovered, ShowRefines
<1>4. CASE SaveDirectMessage
  BY <1>4, ShowDelivered, ShowRefines
<1>5. ASSUME \A p \in Syncers : ~CommitBatch(p) /\ ~SaveMessage(p),
             \A m \in Msgs : ~ReceiveDirect(m),
             ~SaveDirectMessage
      PROVE  UNCHANGED <<messages, rtMessages>>
  BY <1>5, RowsElsewhere, StoredElsewhere
<1>. QED
  BY <1>1, <1>2, <1>3, <1>4, <1>5 DEF Promise!vars

\* Whatever the processes, errors and crashes, the message and runtime tables
\* do what Inbox says: each message is taken in once, its first copy stays,
\* and it is shown with the status of that copy.
THEOREM RecoveryImplementsInbox == Spec => ImplementsInbox
<1>1. Spec => []TypeOK
  BY TypeCorrect
<1>2. Spec => []CopyInv
  BY CopyCorrect
<1>. QED
  BY <1>1, <1>2, InitRefines, StepRefines, PTL DEF Spec, ImplementsInbox, Promise!Spec

-----------------------------------------------------------------------------
(* The inductive invariant behind the cursors.  Messages come to a mailbox  *)
(* in stamp order, so a position and a stamp say the same of it: up to the  *)
(* cursor, up to the position acknowledged and up to the checkpoint, every  *)
(* message addressed to this home is stored - and so it is up to whatever a *)
(* running process is going to save as one of them.                         *)

Places(r) == 1 .. Len(relay[r])

InStampOrder(r) ==
    \A i, j \in Places(r) : i < j => Stamp[relay[r][i]] < Stamp[relay[r][j]]

\* What the event at a position asks for: it is not ours, or it is stored.
Settled(e) == Fault[e] = "misaddressed" \/ Stored(MsgOf[e])

SettledTo(r, n) ==
    /\ n <= Len(relay[r])
    /\ \A i \in Places(r) : i <= n => Settled(relay[r][i])

\* The same of a stamp, which is 0 or that of an event held.
SettledToStamp(r, s) ==
    /\ s = 0 \/ \E i \in Places(r) : s = Stamp[relay[r][i]]
    /\ \A i \in Places(r) : Stamp[relay[r][i]] <= s => Settled(relay[r][i])

MailboxInv(r) ==
    /\ InStampOrder(r)
    /\ SettledTo(r, acked[r])
    /\ SettledTo(r, cursor[r])
    /\ SettledToStamp(r, checkpoint[r])

\* What job j knows of mailbox r, the one it works on.
JobSettled(r, j) ==
    /\ SettledToStamp(r, j.last)
    /\ SettledToStamp(r, j.latest)
    /\ j.pc \in {"cursor", "checkpoint", "observations", "conversations",
                 "messages", "ack"} => SettledTo(r, j.next)
    /\ j.pc = "commit" =>
          /\ j.next <= Len(relay[r])
          /\ \A i \in Places(r) : i <= j.next =>
                Settled(relay[r][i]) \/ relay[r][i] \in j.batch
          /\ \A e \in j.batch : \E i \in Places(r) : i <= j.next /\ relay[r][i] = e

JobInv(p) ==
    job[p].pc # "idle" /\ Route(p) \in Mailboxes => JobSettled(Route(p), job[p])

CursorInv ==
    /\ \A r \in Mailboxes : MailboxInv(r)
    /\ \A p \in Syncers : JobInv(p)

LEMMA PlacesType ==
    ASSUME TypeOK, NEW r \in Mailboxes
    PROVE  /\ r \in Relays
           /\ Len(relay[r]) \in Nat
           /\ \A i \in Places(r) : relay[r][i] \in Events
  BY RelaysAssumption DEF TypeOK, Places

LEMMA CursorInit == Init => CursorInv
<1>. SUFFICES ASSUME Init PROVE CursorInv
  OBVIOUS
<1>1. \A p \in Syncers : JobInv(p)
  BY DEF Init, JobInv, IdleJob
<1>2. ASSUME NEW r \in Mailboxes PROVE MailboxInv(r)
  BY RelaysAssumption DEF Init, MailboxInv, InStampOrder, SettledTo,
                          SettledToStamp, Places
<1>. QED
  BY <1>1, <1>2 DEF CursorInv

\* Stamp 0 is below every event.
LEMMA NothingBelow ==
    ASSUME TypeOK, NEW r \in Mailboxes
    PROVE  SettledToStamp(r, 0)
  BY PlacesType, EventsAssumption DEF SettledToStamp

\* Steps that leave the relays alone and keep what is stored keep everything
\* that is settled.
LEMMA SettledStays ==
    ASSUME TypeOK, UNCHANGED relay,
           \A m \in Msgs : Stored(m) => Stored(m)',
           NEW r \in Mailboxes
    PROVE  /\ InStampOrder(r) => InStampOrder(r)'
           /\ \A n : SettledTo(r, n) => SettledTo(r, n)'
           /\ \A s : SettledToStamp(r, s) => SettledToStamp(r, s)'
           /\ \A j : JobSettled(r, j) => JobSettled(r, j)'
<1>1. \A i \in Places(r) : Settled(relay[r][i]) => Settled(relay[r][i])'
  BY PlacesType, EventMsg DEF Settled
<1>2. Places(r)' = Places(r)
  BY DEF Places
<1>3. InStampOrder(r) => InStampOrder(r)'
  BY <1>2 DEF InStampOrder
<1>4. ASSUME NEW n, SettledTo(r, n) PROVE SettledTo(r, n)'
  BY <1>1, <1>2, <1>4 DEF SettledTo
<1>5. ASSUME NEW s, SettledToStamp(r, s) PROVE SettledToStamp(r, s)'
  BY <1>1, <1>2, <1>5 DEF SettledToStamp
<1>6. ASSUME NEW j, JobSettled(r, j) PROVE JobSettled(r, j)'
  BY <1>1, <1>2, <1>4, <1>5, <1>6 DEF JobSettled
<1>. QED
  BY <1>3, <1>4, <1>5, <1>6

\* So does the arrival of an event, which comes after and above all others.
LEMMA ArrivalKeeps ==
    ASSUME TypeOK, InOrder, NEW q \in Relays, NEW e \in Events, Arrive(q, e),
           NEW r \in Mailboxes
    PROVE  /\ InStampOrder(r) => InStampOrder(r)'
           /\ \A n \in Nat : SettledTo(r, n) => SettledTo(r, n)'
           /\ \A s : SettledToStamp(r, s) => SettledToStamp(r, s)'
           /\ \A j \in Jobs : JobSettled(r, j) => JobSettled(r, j)'
<1>. DEFINE len == Len(relay[r])
<1>1. r \in Relays /\ len \in Nat /\ relay[r] \in Seq(Events)
  BY RelaysAssumption DEF TypeOK
<1>2. UNCHANGED messages
  BY DEF Arrive, tableVars
<1>3. \A f \in Events : Settled(f) <=> Settled(f)'
  BY <1>2 DEF Settled, Stored
<1>4. /\ len' \in {len, len + 1}
      /\ \A i \in 1 .. len : relay'[r][i] = relay[r][i] /\ relay[r][i] \in Events
  <2>1. CASE r = q
    BY <1>1, <2>1 DEF Arrive, TypeOK
  <2>2. CASE r # q
    BY <1>1, <2>2 DEF Arrive, TypeOK
  <2>. QED
    BY <2>1, <2>2
<1>5. len' = len + 1 => /\ relay'[r][len + 1] = e
                        /\ \A i \in 1 .. len : Stamp[relay[r][i]] < Stamp[e]
  <2>1. CASE r = q
    <3>1. \A f \in Held(r) : Stamp[f] < Stamp[e]
      BY <2>1 DEF Arrive
    <3>2. \A i \in 1 .. len : Stamp[relay[r][i]] < Stamp[e]
      BY <3>1 DEF Held
    <3>3. relay' = [relay EXCEPT ![r] = Append(@, e)]
      BY <2>1 DEF Arrive
    <3>4. relay'[r] = Append(relay[r], e)
      BY <1>1, <3>3 DEF TypeOK
    <3>. QED
      BY <1>1, <3>2, <3>4
  <2>2. CASE r # q
    BY <1>1, <2>2 DEF Arrive, TypeOK
  <2>. QED
    BY <2>1, <2>2
<1>6. \A i \in 1 .. len : Stamp[relay[r][i]] \in Nat
  BY <1>4, EventsAssumption
<1>7. Stamp[e] \in Nat \ {0}
  BY EventsAssumption
<1>8. InStampOrder(r) => InStampOrder(r)'
  <2>. SUFFICES ASSUME InStampOrder(r), NEW i \in 1 .. len', NEW j \in 1 .. len', i < j
                PROVE  Stamp[relay'[r][i]] < Stamp[relay'[r][j]]
    BY DEF InStampOrder, Places
  <2>1. CASE j \in 1 .. len
    BY <1>1, <1>4, <2>1 DEF InStampOrder, Places
  <2>2. CASE j \notin 1 .. len
    <3>1. len' = len + 1 /\ j = len + 1 /\ i \in 1 .. len
      BY <1>1, <1>4, <2>2
    <3>. QED
      BY <1>4, <1>5, <3>1
  <2>. QED
    BY <2>1, <2>2
<1>9. ASSUME NEW n \in Nat, SettledTo(r, n) PROVE SettledTo(r, n)'
  BY <1>1, <1>3, <1>4, <1>5, <1>9 DEF SettledTo, Places
<1>10. ASSUME NEW s, SettledToStamp(r, s) PROVE SettledToStamp(r, s)'
  <2>1. s = 0 \/ \E i \in 1 .. len : s = Stamp[relay[r][i]]
    BY <1>10 DEF SettledToStamp, Places
  <2>2. s' = 0 \/ \E i \in 1 .. len' : s' = Stamp[relay'[r][i]]
    BY <1>1, <1>4, <2>1
  <2>3. ASSUME NEW i \in 1 .. len', Stamp[relay'[r][i]] <= s
        PROVE  Settled(relay[r][i])'
    <3>1. CASE i \in 1 .. len
      BY <1>3, <1>4, <1>10, <2>3, <3>1 DEF SettledToStamp, Places
    <3>2. CASE i \notin 1 .. len
      BY <1>1, <1>4, <1>5, <1>6, <1>7, <2>1, <2>3, <3>2
    <3>. QED
      BY <3>1, <3>2
  <2>. QED
    BY <2>2, <2>3 DEF SettledToStamp, Places
<1>11. ASSUME NEW j \in Jobs, JobSettled(r, j) PROVE JobSettled(r, j)'
  <2>1. j.next \in Nat
    BY DEF Jobs
  <2>2. SettledToStamp(r, j.last)' /\ SettledToStamp(r, j.latest)'
    BY <1>10, <1>11 DEF JobSettled
  <2>3. j.pc \in {"cursor", "checkpoint", "observations", "conversations",
                  "messages", "ack"} => SettledTo(r, j.next)'
    BY <1>9, <1>11, <2>1 DEF JobSettled
  <2>4. ASSUME j.pc = "commit"
        PROVE  /\ j.next <= len'
               /\ \A i \in 1 .. len' : i <= j.next =>
                     Settled(relay[r][i])' \/ relay'[r][i] \in j.batch
               /\ \A f \in j.batch : \E i \in 1 .. len' : i <= j.next /\ relay'[r][i] = f
    BY <1>1, <1>3, <1>4, <1>11, <2>1, <2>4 DEF JobSettled, Places
  <2>. QED
    BY <2>2, <2>3, <2>4 DEF JobSettled, Places
<1>. QED
  BY <1>8, <1>9, <1>10, <1>11

\* A job that has just started on a route knows nothing.
LEMMA FreshJob ==
    ASSUME TypeOK, NEW r \in Mailboxes, NEW j,
           j.pc \in {"idle", "load"}, j.last = 0, j.latest = 0
    PROVE  JobSettled(r, j)
  BY NothingBelow DEF JobSettled

LEMMA NextRouteFresh ==
    ASSUME NEW p \in Syncers
    PROVE  NextRoute(p).pc \in {"idle", "load"} /\ NextRoute(p).last = 0
              /\ NextRoute(p).latest = 0
  BY DEF NextRoute, IdleJob

\* What a mailbox returns: the messages from a settled position on.
LEMMA PullSettled ==
    ASSUME TypeOK, CursorInv, NEW p \in Syncers, job[p].pc = "pull",
           NEW r \in Mailboxes, r = Route(p),
           NEW batch \in SUBSET Held(r), NEW next \in Nat,
           PullMailbox(p, batch, next)
    PROVE  JobSettled(r, AfterPull(p, batch, next))
<1>. DEFINE from == IF acked[r] > cursor[r] THEN acked[r] ELSE cursor[r]
<1>1. Len(relay[r]) \in Nat /\ acked[r] \in Nat /\ cursor[r] \in Nat
  BY RelaysAssumption DEF TypeOK
<1>2. SettledTo(r, from)
  BY DEF CursorInv, MailboxInv
<1>3. /\ next \in from .. Len(relay[r])
      /\ batch = {relay[r][i] : i \in (from + 1) .. next}
  BY DEF PullMailbox
<1>4. SettledToStamp(r, job[p].last) /\ SettledToStamp(r, job[p].latest)
  BY DEF CursorInv, JobInv, JobSettled
<1>5. from \in Nat
  BY <1>1
<1>. HIDE DEF from
<1>. DEFINE j == AfterPull(p, batch, next)
<1>6. SUFFICES JobSettled(r, j)
  OBVIOUS
<1>7. CASE batch = {}
  <2>1. next = from
    <3>1. from + 1 > next
      <4>1. SUFFICES ASSUME from + 1 <= next PROVE FALSE
        BY <1>1, <1>3, <1>5
      <4>2. relay[r][next] \in batch
        BY <1>1, <1>3, <1>5, <4>1
      <4>. QED
        BY <1>7, <4>2
    <3>. QED
      BY <1>1, <1>3, <1>5, <3>1
  <2>2. j.pc = "cursor" /\ j.last = 0 /\ j.latest = job[p].last /\ j.next = next
    BY <1>7 DEF AfterPull, IdleJob
  <2>. HIDE DEF j
  <2>. QED
    BY <1>2, <1>4, <2>1, <2>2, NothingBelow DEF JobSettled
<1>8. CASE batch # {}
  <2>1. /\ j.pc = "commit" /\ j.last = job[p].last /\ j.latest = job[p].latest
        /\ j.next = next /\ j.batch = batch
    BY <1>8 DEF AfterPull, TypeOK, Jobs
  <2>2. \A i \in Places(r) : i <= next => Settled(relay[r][i]) \/ relay[r][i] \in batch
    BY <1>1, <1>2, <1>3, <1>5 DEF SettledTo, Places
  <2>3. \A e \in batch : \E i \in Places(r) : i <= next /\ relay[r][i] = e
    BY <1>1, <1>3, <1>5 DEF Places
  <2>4. next <= Len(relay[r])
    BY <1>1, <1>3, <1>5
  <2>. HIDE DEF j
  <2>. QED
    BY <1>4, <2>1, <2>2, <2>3, <2>4 DEF JobSettled
<1>. QED
  BY <1>7, <1>8

\* After the transaction everything up to the end of the page is settled, and
\* so is everything up to the newest stamp of the batch.
LEMMA CommitSettled ==
    ASSUME TypeOK, CopyInv, CursorInv, NEW p \in Syncers, CommitBatch(p),
           TypeOK', \A m \in Msgs : Stored(m) => Stored(m)',
           NEW r \in Mailboxes, r = Route(p),
           NEW j, j = job'[p]
    PROVE  JobSettled(r, j)'
<1>1. /\ \A e \in Candidates(p) : Stored(MsgOf[e])'
      /\ Candidates(p) \subseteq Events
  BY CommitFacts
<1>2. PICK latest \in {Stamp[e] : e \in Candidates(p)} \cup {job[p].last} :
         /\ IsLatest(p, latest)
         /\ job'[p].pc = "cursor" /\ job'[p].next = job[p].next
         /\ job'[p].last = 0 /\ job'[p].latest = latest
  BY DEF CommitBatch, TypeOK, IdleJob
<1>3. JobSettled(r, job[p]) /\ job[p].pc = "commit"
  BY DEF CursorInv, JobInv, CommitBatch
<1>4. job[p] \in Jobs
  BY DEF TypeOK
<1>5. PICK last \in Nat, next \in Nat : last = job[p].last /\ next = job[p].next
  BY <1>4 DEF Jobs
<1>6. j.pc = "cursor" /\ j.next = next /\ j.last = 0 /\ j.latest = latest
  BY <1>2, <1>5
<1>7. relay' = relay /\ Places(r)' = Places(r)
  BY DEF CommitBatch, worldVars, Places
<1>8. \A i \in Places(r) : relay[r][i] \in Events
  BY PlacesType
<1>9. \A e \in Events : Settled(e) => Settled(e)'
  BY EventMsg DEF Settled
<1>10. ASSUME NEW e \in job[p].batch PROVE Settled(e)'
  <2>1. PICK i \in Places(r) : e = relay[r][i]
    BY <1>3 DEF JobSettled
  <2>2. e \in Events
    BY <1>8, <2>1
  <2>3. CASE Fault[e] = "misaddressed"
    BY <2>3 DEF Settled
  <2>4. CASE WasObserved(e)
    BY <1>9, <2>2, <2>4 DEF WasObserved, CopyInv, ObservedStored, Settled
  <2>5. CASE ~(Stamp[e] > last)
    <3>1. Stamp[e] <= last
      BY <2>2, <2>5, EventsAssumption
    <3>2. SettledToStamp(r, last)
      BY <1>3, <1>5 DEF JobSettled
    <3>. QED
      BY <1>9, <2>1, <2>2, <3>1, <3>2 DEF SettledToStamp
  <2>6. CASE e \in Candidates(p)
    BY <1>1, <2>6 DEF Settled
  <2>. QED
    BY <1>5, <2>3, <2>4, <2>5, <2>6 DEF Candidates, Bound
<1>11. /\ next <= Len(relay[r])
       /\ \A i \in Places(r) : i <= next =>
              Settled(relay[r][i]) \/ relay[r][i] \in job[p].batch
       /\ \A e \in job[p].batch : \E i \in Places(r) : i <= next /\ relay[r][i] = e
  BY <1>3, <1>5 DEF JobSettled
<1>12. \A i \in Places(r) : i <= next => Settled(relay[r][i])'
  BY <1>7, <1>8, <1>9, <1>10, <1>11
<1>13. SettledTo(r, next)'
  BY <1>7, <1>11, <1>12 DEF SettledTo
<1>14. SettledToStamp(r, last)
  BY <1>3, <1>5 DEF JobSettled
<1>15. latest = 0 \/ \E i \in Places(r) : latest = Stamp[relay[r][i]]
  <2>1. CASE latest = last
    BY <1>14, <2>1 DEF SettledToStamp
  <2>2. CASE latest # last
    BY <1>5, <1>11, <2>2 DEF Candidates
  <2>. QED
    BY <2>1, <2>2
<1>16. ASSUME NEW i \in Places(r), Stamp[relay[r][i]] <= latest
       PROVE  Settled(relay[r][i])'
  <2>1. CASE i <= next
    BY <1>12, <2>1
  <2>2. CASE ~(i <= next)
    <3>1. CASE latest = last
      <4>1. Settled(relay[r][i])
        BY <1>14, <1>16, <3>1 DEF SettledToStamp
      <4>. QED
        BY <1>7, <1>8, <1>9, <4>1
    <3>2. CASE latest # last
      <4>1. PICK e \in job[p].batch : latest = Stamp[e]
        BY <1>5, <3>2 DEF Candidates
      <4>2. PICK k \in Places(r) : k <= next /\ relay[r][k] = e
        BY <1>11
      <4>3. i \in Int /\ k \in Int
        BY DEF Places
      <4>4. k < i
        BY <2>2, <4>2, <4>3, <1>5
      <4>5. Stamp[relay[r][k]] < Stamp[relay[r][i]]
        BY <4>4 DEF CursorInv, MailboxInv, InStampOrder
      <4>6. Stamp[relay[r][k]] \in Nat /\ Stamp[relay[r][i]] \in Nat
        BY <1>8, EventsAssumption
      <4>. QED
        BY <1>16, <4>1, <4>2, <4>5, <4>6
    <3>. QED
      BY <3>1, <3>2
  <2>. QED
    BY <2>1, <2>2
<1>17. SettledToStamp(r, latest)'
  BY <1>7, <1>15, <1>16 DEF SettledToStamp
<1>18. SettledToStamp(r, 0)'
  BY <1>7, <1>8, EventsAssumption DEF SettledToStamp
<1>. QED
  BY <1>6, <1>13, <1>17, <1>18 DEF JobSettled

\* A job that goes on knows what it knew.
LEMMA JobKept ==
    ASSUME TypeOK, NEW r \in Mailboxes, NEW j, NEW k, JobSettled(r, j),
           j.pc \in {"cursor", "checkpoint", "observations", "conversations", "messages"},
           k.pc \in {"checkpoint", "observations", "conversations", "messages", "ack"},
           k.last = j.last, k.latest \in {0, j.latest}, k.next = j.next
    PROVE  JobSettled(r, k)
<1>1. SettledToStamp(r, 0)
  BY NothingBelow
<1>2. SettledToStamp(r, j.last) /\ SettledToStamp(r, j.latest) /\ SettledTo(r, j.next)
  BY DEF JobSettled
<1>. QED
  BY <1>1, <1>2 DEF JobSettled

\* The job of a process after any of its steps but the transaction.
LEMMA OwnJob ==
    ASSUME TypeOK, CursorInv, NEW p \in Syncers, SyncStep(p) \/ SyncError(p),
           ~CommitBatch(p), NEW k, k = job'[p], k.pc # "idle",
           NEW r \in Mailboxes, r = RouteOrder[k.at]
    PROVE  JobSettled(r, k)
<1>1. job \in [Syncers -> Jobs] /\ job[p] \in Jobs
  BY DEF TypeOK
<1>2. CASE StartSync(p) \/ AbortBatch(p) \/ Ack(p) \/ SyncError(p)
  <2>1. k.pc \in {"idle", "load"} /\ k.last = 0 /\ k.latest = 0
    <3>1. CASE StartSync(p)
      <4>. DEFINE j == [IdleJob EXCEPT !.pc = "load", !.at = 1]
      <4>1. j.pc = "load" /\ j.last = 0 /\ j.latest = 0
        BY DEF IdleJob
      <4>2. job' = [job EXCEPT ![p] = j]
        BY <3>1 DEF StartSync
      <4>. HIDE DEF j
      <4>. QED
        BY <1>1, <4>1, <4>2
    <3>2. CASE Crash(p)
      BY <1>1, <3>2 DEF Crash, IdleJob
    <3>3. CASE AbortBatch(p) \/ Ack(p) \/ PullFails(p) \/ AckFails(p) \/ StoreFails(p)
      <4>1. k = NextRoute(p)
        BY <1>1, <3>3 DEF AbortBatch, Ack, PullFails, AckFails, StoreFails
      <4>. QED
        BY <4>1, NextRouteFresh
    <3>. QED
      BY <1>2, <3>1, <3>2, <3>3 DEF SyncError
  <2>. QED
    BY <2>1, FreshJob
<1>3. CASE LoadSyncState(p)
  <2>1. job[p].pc = "load"
    BY <1>3 DEF LoadSyncState
  <2>2. k.pc = "pull" /\ k.at = job[p].at /\ k.latest = job[p].latest
        /\ k.last = checkpoint[Route(p)]
    BY <1>1, <1>3 DEF LoadSyncState, Jobs
  <2>3. r = Route(p)
    BY <2>2 DEF Route
  <2>4. JobSettled(r, job[p])
    BY <2>1, <2>3 DEF CursorInv, JobInv
  <2>5. SettledToStamp(r, checkpoint[r])
    BY DEF CursorInv, MailboxInv
  <2>. QED
    BY <2>2, <2>3, <2>4, <2>5 DEF JobSettled
<1>4. CASE Pull(p)
  <2>1. PICK batch \in SUBSET Held(Route(p)),
             next \in 0 .. Len(relay[Route(p)]) \cup {cursor[Route(p)]}
                         \cup {CreatedAt[e] : e \in Held(Route(p))} :
          /\ IF Route(p) \in Mailboxes THEN PullMailbox(p, batch, next)
                                       ELSE PullNostr(p, batch, next)
          /\ job' = [job EXCEPT ![p] = AfterPull(p, batch, next)]
    BY <1>4 DEF Pull
  <2>2. k = AfterPull(p, batch, next) /\ job[p].pc = "pull"
    BY <1>1, <1>4, <2>1 DEF Pull
  <2>3. k.at = job[p].at
    <3>1. CASE batch = {}
      BY <2>2, <3>1 DEF AfterPull, IdleJob
    <3>2. CASE batch # {}
      BY <1>1, <2>2, <3>2 DEF AfterPull, Jobs
    <3>. QED
      BY <3>1, <3>2
  <2>4. r = Route(p) /\ r \in Relays
    BY <2>3, RelaysAssumption DEF Route
  <2>5. PullMailbox(p, batch, next)
    BY <2>1, <2>4
  <2>6. next \in Nat
    <3>1. Len(relay[r]) \in Nat /\ cursor[r] \in Nat
      BY <2>4 DEF TypeOK
    <3>2. acked[r] \in Nat
      BY <2>4 DEF TypeOK
    <3>. QED
      BY <2>4, <2>5, <3>1, <3>2 DEF PullMailbox
  <2>. QED
    BY <2>1, <2>2, <2>4, <2>5, <2>6, PullSettled
<1>5. CASE SaveCursor(p) \/ SaveCheckpoint(p) \/ SaveObservation(p)
           \/ SaveConversation(p) \/ SaveMessage(p)
  <2>1. /\ job[p].pc \in {"cursor", "checkpoint", "observations",
                           "conversations", "messages"}
        /\ k.pc \in {"checkpoint", "observations", "conversations", "messages", "ack"}
        /\ k.at = job[p].at /\ k.last = job[p].last
        /\ k.latest \in {0, job[p].latest} /\ k.next = job[p].next
    <3>1. CASE SaveCursor(p)
      BY <1>1, <3>1 DEF SaveCursor, Jobs
    <3>2. CASE SaveCheckpoint(p)
      BY <1>1, <3>2 DEF SaveCheckpoint, PhaseAfter, Jobs
    <3>3. CASE SaveObservation(p)
      BY <1>1, <3>3 DEF SaveObservation, PhaseAfter, Jobs
    <3>4. CASE SaveConversation(p)
      <4>. DEFINE rest(e) == job[p].convs \ {e}
      <4>1. PICK e \in job[p].convs :
               job' = [job EXCEPT
                         ![p].pc = IF rest(e) = {} THEN "messages" ELSE "conversations",
                         ![p].convs = rest(e),
                         ![p].counts = IF rest(e) = {} THEN IdleJob.counts ELSE @]
        BY <3>4 DEF SaveConversation
      <4>2. job[p].pc = "conversations"
        BY <3>4 DEF SaveConversation
      <4>. QED
        BY <1>1, <4>1, <4>2 DEF Jobs
    <3>5. CASE SaveMessage(p)
      BY <1>1, <3>5 DEF SaveMessage, Jobs
    <3>. QED
      BY <1>5, <3>1, <3>2, <3>3, <3>4, <3>5
  <2>2. r = Route(p)
    BY <2>1 DEF Route
  <2>3. JobSettled(r, job[p])
    BY <2>1, <2>2 DEF CursorInv, JobInv
  <2>. QED
    BY <2>1, <2>3, JobKept
<1>. QED
  BY <1>2, <1>3, <1>4, <1>5 DEF SyncStep

\* What is saved of a mailbox is what the running process knew of it.
LEMMA SavedSettled ==
    ASSUME TypeOK, CursorInv, NEW p \in Syncers, SyncStep(p) \/ SyncError(p),
           NEW r \in Mailboxes
    PROVE  /\ SettledTo(r, acked'[r])
           /\ SettledTo(r, cursor'[r])
           /\ SettledToStamp(r, checkpoint'[r])
<1>. USE DEF worldVars, syncVars
<1>1. r \in Relays /\ MailboxInv(r)
  BY RelaysAssumption DEF CursorInv
<1>2. job[p].pc # "idle" /\ r = Route(p) => JobSettled(r, job[p])
  BY DEF CursorInv, JobInv
<1>3. CASE SaveCursor(p)
  <2>1. cursor'[r] \in {cursor[r], job[p].next} /\ UNCHANGED <<acked, checkpoint>>
    BY <1>1, <1>3 DEF SaveCursor, TypeOK
  <2>2. cursor'[r] # cursor[r] => r = Route(p) /\ cursor'[r] = job[p].next
    BY <1>1, <1>3 DEF SaveCursor, TypeOK
  <2>3. job[p].pc = "cursor"
    BY <1>3 DEF SaveCursor
  <2>. QED
    BY <1>1, <1>2, <2>1, <2>2, <2>3 DEF MailboxInv, JobSettled
<1>4. CASE SaveCheckpoint(p)
  <2>1. checkpoint'[r] \in {checkpoint[r], job[p].latest} /\ UNCHANGED <<acked, cursor>>
    BY <1>1, <1>4 DEF SaveCheckpoint, TypeOK
  <2>2. checkpoint'[r] # checkpoint[r] => r = Route(p) /\ checkpoint'[r] = job[p].latest
    BY <1>1, <1>4 DEF SaveCheckpoint, TypeOK
  <2>3. job[p].pc = "checkpoint"
    BY <1>4 DEF SaveCheckpoint
  <2>. QED
    BY <1>1, <1>2, <2>1, <2>2, <2>3 DEF MailboxInv, JobSettled
<1>5. CASE Ack(p)
  <2>1. UNCHANGED <<cursor, checkpoint>>
    BY <1>5 DEF Ack
  <2>2. acked'[r] # acked[r] => r = Route(p) /\ acked'[r] = job[p].next
    BY <1>1, <1>5 DEF Ack, TypeOK
  <2>3. job[p].pc = "ack"
    BY <1>5 DEF Ack
  <2>. QED
    BY <1>1, <1>2, <2>1, <2>2, <2>3 DEF MailboxInv, JobSettled
<1>6. CASE ~SaveCursor(p) /\ ~SaveCheckpoint(p) /\ ~Ack(p)
  <2>1. UNCHANGED <<acked, cursor, checkpoint>>
    BY <1>6 DEF SyncStep, SyncError, StartSync, LoadSyncState, Pull, CommitBatch,
                AbortBatch, SaveObservation, SaveConversation, SaveMessage,
                PullFails, AckFails, StoreFails, Crash
  <2>. QED
    BY <1>1, <2>1 DEF MailboxInv
<1>. QED
  BY <1>3, <1>4, <1>5, <1>6

\* A job whose new state is known to be settled.
LEMMA JobInvNext ==
    ASSUME NEW p \in Syncers, NEW k, k = job'[p], NEW r, r = RouteOrder[k.at],
           k.pc # "idle" /\ r \in Mailboxes => JobSettled(r, k)'
    PROVE  JobInv(p)'
  BY DEF JobInv, Route, JobSettled, SettledTo, SettledToStamp

LEMMA SyncLocal ==
    ASSUME TypeOK, NEW p \in Syncers, SyncStep(p) \/ SyncError(p)
    PROVE  /\ UNCHANGED relay
           /\ \A q \in Syncers \ {p} : job'[q] = job[q]
<1>. USE DEF worldVars
<1>1. UNCHANGED relay
  BY DEF SyncStep, SyncError, StartSync, LoadSyncState, Pull, CommitBatch,
         AbortBatch, SaveCursor, SaveCheckpoint, SaveObservation, SaveConversation,
         SaveMessage, Ack, PullFails, AckFails, StoreFails, Crash
<1>2. \E k : job' = [job EXCEPT ![p] = k]
  <2>1. CASE SyncError(p) \/ StartSync(p) \/ AbortBatch(p) \/ Ack(p)
    BY <2>1 DEF SyncError, StartSync, AbortBatch, Ack, PullFails, AckFails,
                StoreFails, Crash
  <2>2. CASE LoadSyncState(p) \/ SaveCursor(p) \/ SaveCheckpoint(p)
    BY <2>2 DEF LoadSyncState, SaveCursor, SaveCheckpoint
  <2>3. CASE Pull(p) \/ CommitBatch(p)
    BY <2>3 DEF Pull, CommitBatch
  <2>4. CASE SaveObservation(p) \/ SaveConversation(p) \/ SaveMessage(p)
    BY <2>4 DEF SaveObservation, SaveConversation, SaveMessage
  <2>. QED
    BY <2>1, <2>2, <2>3, <2>4 DEF SyncStep
<1>. QED
  BY <1>1, <1>2 DEF TypeOK

LEMMA SyncCursor ==
    ASSUME TypeOK, CopyInv, CursorInv, NEW p \in Syncers,
           SyncStep(p) \/ SyncError(p),
           TypeOK', \A m \in Msgs : Stored(m) => Stored(m)'
    PROVE  CursorInv'
<1>1. UNCHANGED relay /\ \A q \in Syncers \ {p} : job'[q] = job[q]
  BY SyncLocal
<1>2. ASSUME NEW r \in Mailboxes
      PROVE  /\ InStampOrder(r) => InStampOrder(r)'
             /\ \A n : SettledTo(r, n) => SettledTo(r, n)'
             /\ \A s : SettledToStamp(r, s) => SettledToStamp(r, s)'
             /\ \A j : JobSettled(r, j) => JobSettled(r, j)'
  BY <1>1, <1>2, SettledStays
<1>3. ASSUME NEW r \in Mailboxes PROVE MailboxInv(r)'
  <2>1. InStampOrder(r)
    BY DEF CursorInv, MailboxInv
  <2>2. PICK a, c, s : a = acked'[r] /\ c = cursor'[r] /\ s = checkpoint'[r]
    OBVIOUS
  <2>3. SettledTo(r, a) /\ SettledTo(r, c) /\ SettledToStamp(r, s)
    BY <2>2, SavedSettled
  <2>4. SettledTo(r, a)' /\ SettledTo(r, c)' /\ SettledToStamp(r, s)'
    BY <1>2, <2>3
  <2>5. InStampOrder(r)'
    BY <1>2, <2>1
  <2>. QED
    BY <2>2, <2>4, <2>5 DEF MailboxInv, SettledTo, SettledToStamp
<1>4. ASSUME NEW q \in Syncers PROVE JobInv(q)'
  <2>1. PICK k, r : k = job'[q] /\ r = RouteOrder[k.at]
    OBVIOUS
  <2>2. SUFFICES ASSUME k.pc # "idle", r \in Mailboxes PROVE JobSettled(r, k)'
    BY <2>1, JobInvNext
  <2>3. CASE q # p
    <3>1. k = job[q] /\ r = Route(q)
      BY <1>1, <2>1, <2>3 DEF Route
    <3>2. JobSettled(r, k)
      BY <2>2, <3>1 DEF CursorInv, JobInv
    <3>. QED
      BY <1>2, <2>2, <3>2
  <2>4. CASE q = p /\ CommitBatch(p)
    <3>1. k.at = job[p].at /\ r = Route(p)
      BY <2>1, <2>4 DEF CommitBatch, TypeOK, IdleJob, Route
    <3>. QED
      BY <2>1, <2>2, <2>4, <3>1, CommitSettled
  <2>5. CASE q = p /\ ~CommitBatch(p)
    <3>1. JobSettled(r, k)
      BY <2>1, <2>2, <2>5, OwnJob
    <3>. QED
      BY <1>2, <2>2, <3>1
  <2>. QED
    BY <2>3, <2>4, <2>5
<1>. QED
  BY <1>3, <1>4 DEF CursorInv

LEMMA CursorStep ==
    ASSUME TypeOK, TypeOK', CopyInv, InOrder, CursorInv, [Next]_vars
    PROVE  CursorInv'
<1>. USE DEF worldVars, tableVars, runtimeVars, syncVars
<1>1. ASSUME NEW m \in Msgs, Stored(m) PROVE Stored(m)'
  BY <1>1, StoredStays DEF Stored
<1>2. ASSUME NEW p \in Syncers, SyncStep(p) \/ SyncError(p) PROVE CursorInv'
  BY <1>1, <1>2, SyncCursor
<1>3. ASSUME UNCHANGED <<acked, cursor, checkpoint, job>>,
             \A r \in Mailboxes :
                /\ InStampOrder(r) => InStampOrder(r)'
                /\ \A n \in Nat : SettledTo(r, n) => SettledTo(r, n)'
                /\ \A s : SettledToStamp(r, s) => SettledToStamp(r, s)'
                /\ \A j \in Jobs : JobSettled(r, j) => JobSettled(r, j)'
      PROVE  CursorInv'
  <2>1. ASSUME NEW r \in Mailboxes PROVE MailboxInv(r)'
    <3>1. PICK a \in Nat, c \in Nat, s \in Nat : a = acked[r] /\ c = cursor[r] /\ s = checkpoint[r]
      BY RelaysAssumption DEF TypeOK
    <3>2. InStampOrder(r) /\ SettledTo(r, a) /\ SettledTo(r, c) /\ SettledToStamp(r, s)
      BY <3>1 DEF CursorInv, MailboxInv
    <3>3. InStampOrder(r)' /\ SettledTo(r, a)' /\ SettledTo(r, c)' /\ SettledToStamp(r, s)'
      BY <1>3, <3>2
    <3>. QED
      BY <1>3, <3>1, <3>3 DEF MailboxInv, SettledTo, SettledToStamp
  <2>2. ASSUME NEW q \in Syncers PROVE JobInv(q)'
    <3>1. PICK k, r : k \in Jobs /\ k = job'[q] /\ r = RouteOrder[k.at]
      BY DEF TypeOK
    <3>2. SUFFICES ASSUME k.pc # "idle", r \in Mailboxes PROVE JobSettled(r, k)'
      BY <3>1, JobInvNext
    <3>3. JobSettled(r, k)
      BY <1>3, <3>1, <3>2 DEF CursorInv, JobInv, Route
    <3>4. k \in Jobs
      BY <3>1
    <3>. QED
      BY <1>3, <3>2, <3>3, <3>4
  <2>. QED
    BY <2>1, <2>2 DEF CursorInv
<1>4. ASSUME NEW q \in Relays, NEW e \in Events, Arrive(q, e) PROVE CursorInv'
  <2>1. UNCHANGED <<acked, cursor, checkpoint, job>>
    BY <1>4 DEF Arrive
  <2>. QED
    BY <1>3, <1>4, <2>1, ArrivalKeeps
<1>5. CASE (\E c \in Senders, k \in Keys : ImportCard(c, k)) \/ DirectStep \/ ReadStep
           \/ DirectFails \/ MarkReadFails \/ UNCHANGED vars
  <2>1. UNCHANGED <<relay, acked, cursor, checkpoint, job>>
    BY <1>5 DEF ImportCard, DirectStep, ReceiveDirect, SaveDirectConversation,
                SaveDirectMessage, ReadStep, MarkRuntimeRead, MarkLegacyRead,
                DirectFails, MarkReadFails, vars
  <2>. QED
    BY <1>1, <1>3, <2>1, SettledStays
<1>. QED
  BY <1>2, <1>4, <1>5 DEF Next, Working, Failure, World

LEMMA CursorCorrect == InOrder /\ Spec => []CursorInv
<1>1. Spec => [](TypeOK /\ CopyInv)
  BY TypeCorrect, CopyCorrect, PTL
<1>2. ASSUME InOrder PROVE TypeOK /\ TypeOK' /\ CopyInv /\ CursorInv /\ [Next]_vars => CursorInv'
  BY <1>2, CursorStep
<1>3. ASSUME InOrder PROVE Spec => []CursorInv
  BY <1>1, <1>2, <1>3, CursorInit, PTL DEF Spec
<1>. QED
  BY <1>3

\* A mailbox may forget what was acknowledged: as long as its messages come in
\* stamp order, every message addressed to this home is stored by then,
\* whichever processes pulled, failed or crashed before.
THEOREM AckedAreStored == Spec => []AckedStored
<1>1. CursorInv /\ TypeOK => AckedStored
  BY RelaysAssumption DEF CursorInv, MailboxInv, SettledTo, Settled, Places, AckedStored
<1>2. ~InOrder => AckedStored
  BY DEF AckedStored
<1>3. CASE InOrder
  BY <1>1, <1>3, CursorCorrect, TypeCorrect, PTL
<1>4. CASE ~InOrder
  BY <1>2, <1>4, PTL
<1>. QED
  BY <1>3, <1>4

\* The same of the saved cursor, which the next pull of the mailbox starts from.
THEOREM CursorsAreStored == Spec => []CursorStored
<1>1. CursorInv /\ TypeOK => CursorStored
  BY RelaysAssumption DEF CursorInv, MailboxInv, SettledTo, Settled, Places, CursorStored
<1>2. ~InOrder => CursorStored
  BY DEF CursorStored
<1>3. CASE InOrder
  BY <1>1, <1>3, CursorCorrect, TypeCorrect, PTL
<1>4. CASE ~InOrder
  BY <1>2, <1>4, PTL
<1>. QED
  BY <1>3, <1>4

-----------------------------------------------------------------------------
(* Keys and counts: the steps that write the message tables.                *)

LEMMA TableSteps ==
    ASSUME [Next]_vars
    PROVE  \/ UNCHANGED tableVars
           \/ \E p \in Syncers : CommitBatch(p)
           \/ \E c \in Senders, k \in Keys : ImportCard(c, k)
           \/ \E m \in Msgs : ReceiveDirect(m)
           \/ MarkLegacyRead
<1>. USE DEF tableVars
<1>1. ASSUME NEW p \in Syncers, SyncStep(p) \/ SyncError(p), ~CommitBatch(p)
      PROVE  UNCHANGED tableVars
  BY <1>1 DEF SyncStep, SyncError, StartSync, LoadSyncState, Pull, AbortBatch,
              SaveCursor, SaveCheckpoint, SaveObservation, SaveConversation,
              SaveMessage, Ack, PullFails, AckFails, StoreFails, Crash
<1>2. CASE (\E r \in Relays, e \in Events : Arrive(r, e)) \/ SaveDirectConversation
           \/ SaveDirectMessage \/ DirectFails \/ MarkReadFails
           \/ (\E c \in Senders : MarkRuntimeRead(c)) \/ UNCHANGED vars
  BY <1>2 DEF Arrive, SaveDirectConversation, SaveDirectMessage, DirectFails,
              MarkReadFails, MarkRuntimeRead, vars
<1>. QED
  BY <1>1, <1>2 DEF Next, Working, Failure, World, DirectStep, ReadStep

\* What a committed batch took in was addressed to this home, verified, and
\* is signed with the key its sender's contact has afterwards.
LEMMA BatchPinned ==
    ASSUME TypeOK, NEW p \in Syncers, CommitBatch(p), NEW e \in Candidates(p)
    PROVE  /\ Fault[e] = "none"
           /\ contacts'[Sender(e)] \in {KeyOf[e], NoKey}
<1>1. e \in Events /\ Candidates(p) \subseteq Events
  BY DEF Candidates, TypeOK, Jobs
<1>2. Sender(e) \in Senders /\ KeyOf[e] \in Keys
  BY <1>1, EventsAssumption DEF Sender
<1>3. \A f \in Candidates(p) : Acceptable(p, f)
  BY DEF CommitBatch
<1>4. Fault[e] = "none"
  <2>1. Fault[e] # "misaddressed"
    BY DEF Candidates, Bound
  <2>2. Fault[e] # "corrupt"
    BY <1>3 DEF Acceptable
  <2>. QED
    BY <1>1, <2>1, <2>2, EventsAssumption
<1>5. contacts' = ContactsWith(p)
  BY DEF CommitBatch
<1>6. CASE contacts[Sender(e)] = NoContact
  <2>1. contacts'[Sender(e)]
           = CHOOSE k \in Keys : \E f \in Candidates(p) :
                Sender(f) = Sender(e) /\ KeyOf[f] = k
    BY <1>2, <1>5, <1>6 DEF ContactsWith
  <2>2. \E k \in Keys : \E f \in Candidates(p) : Sender(f) = Sender(e) /\ KeyOf[f] = k
    BY <1>2
  <2>3. PICK f \in Candidates(p) :
           Sender(f) = Sender(e) /\ KeyOf[f] = contacts'[Sender(e)]
    BY <2>1, <2>2
  <2>4. KeyOf[f] = KeyOf[e]
    BY <1>3, <1>6, <2>3 DEF Acceptable
  <2>. QED
    BY <1>4, <2>3, <2>4
<1>7. CASE contacts[Sender(e)] # NoContact
  <2>1. contacts'[Sender(e)] = contacts[Sender(e)]
    BY <1>2, <1>5, <1>7 DEF ContactsWith
  <2>2. contacts[Sender(e)] \in {NoKey, KeyOf[e]}
    BY <1>3, <1>7 DEF Acceptable
  <2>. QED
    BY <1>4, <2>1, <2>2
<1>. QED
  BY <1>6, <1>7

\* A relay copy is stored only if it verifies, is addressed to this home, and
\* is signed with the key the contact has from then on, unless the contact has
\* none; a key that is known changes only to one on a card of the sender.
THEOREM KeysArePinned == Spec => KeysPinned
<1>. DEFINE Copies == \A m \in Msgs : NewRelayCopy(m) =>
                        LET e == messages'[m]
                        IN  /\ Fault[e] = "none"
                            /\ contacts'[SenderOf[m]] \in {KeyOf[e], NoKey}
            Known == \A c \in Senders : contacts[c] \in Keys =>
                        contacts'[c] \in {contacts[c]} \cup Cards[c]
<1>1. ASSUME TypeOK, [Next]_vars PROVE Copies /\ Known
  <2>1. CASE UNCHANGED tableVars
    BY <2>1, DistinctAssumption DEF tableVars, NewRelayCopy
  <2>2. ASSUME NEW p \in Syncers, CommitBatch(p) PROVE Copies /\ Known
    <3>1. ASSUME NEW m \in Msgs, NewRelayCopy(m)
          PROVE  /\ Fault[messages'[m]] = "none"
                 /\ contacts'[SenderOf[m]] \in {KeyOf[messages'[m]], NoKey}
      <4>1. PICK new \in SUBSET Candidates(p) :
               /\ \A e \in new : /\ messages'[MsgOf[e]] \in new
                                 /\ MsgOf[messages'[MsgOf[e]]] = MsgOf[e]
               /\ ~(\E e \in new : MsgOf[e] = m) => messages'[m] = messages[m]
        BY <1>1, <2>2, CommitFacts
      <4>2. messages[m] = None /\ messages'[m] \in Events
        BY <3>1 DEF NewRelayCopy
      <4>3. messages'[m] \in Candidates(p) /\ MsgOf[messages'[m]] = m
        BY <4>1, <4>2, DistinctAssumption
      <4>. QED
        BY <1>1, <2>2, <4>3, BatchPinned DEF Sender
    <3>2. Known
      BY <2>2, ContactsAssumption DEF CommitBatch, ContactsWith
    <3>. QED
      BY <3>1, <3>2
  <2>3. ASSUME NEW c \in Senders, NEW k \in Keys, ImportCard(c, k) PROVE Copies /\ Known
    BY <1>1, <2>3, DistinctAssumption DEF ImportCard, NewRelayCopy, TypeOK
  <2>4. ASSUME NEW n \in Msgs, ReceiveDirect(n) PROVE Copies /\ Known
    <3>1. Known
      BY <1>1, <2>4, ContactsAssumption DEF ReceiveDirect, TypeOK
    <3>2. \A m \in Msgs : messages'[m] \in {messages[m], DirectCopy}
      BY <1>1, <2>4 DEF ReceiveDirect, TypeOK
    <3>3. Copies
      BY <3>2, DistinctAssumption DEF NewRelayCopy
    <3>. QED
      BY <3>1, <3>3
  <2>5. CASE MarkLegacyRead
    BY <2>5, DistinctAssumption DEF MarkLegacyRead, NewRelayCopy
  <2>. QED
    BY <1>1, <2>1, <2>2, <2>3, <2>4, <2>5, TableSteps
<1>2. TypeOK /\ [Next]_vars => [Copies /\ Known]_vars
  BY <1>1
<1>. QED
  BY <1>2, TypeCorrect, PTL DEF Spec, KeysPinned

\* A relay holds no event twice.
RelayOnce ==
    \A r \in Relays : \A i, j \in 1 .. Len(relay[r]) :
        relay[r][i] = relay[r][j] => i = j

LEMMA RelayOnceStep ==
    ASSUME TypeOK, RelayOnce, [Next]_vars
    PROVE  RelayOnce'
<1>. USE DEF worldVars
<1>1. CASE UNCHANGED relay
  BY <1>1 DEF RelayOnce
<1>2. ASSUME NEW q \in Relays, NEW e \in Events, Arrive(q, e) PROVE RelayOnce'
  <2>1. SUFFICES ASSUME NEW r \in Relays,
                        NEW i \in 1 .. Len(relay'[r]), NEW j \in 1 .. Len(relay'[r]),
                        relay'[r][i] = relay'[r][j]
                 PROVE  i = j
    BY DEF RelayOnce
  <2>2. CASE r # q
    BY <1>2, <2>1, <2>2 DEF Arrive, RelayOnce, TypeOK
  <2>3. CASE r = q
    <3>1. relay[r] \in Seq(Events) /\ relay'[r] = Append(relay[r], e)
      BY <1>2, <2>3 DEF Arrive, TypeOK
    <3>2. PICK len \in Nat : len = Len(relay[r])
      BY <3>1
    <3>3. \A k \in 1 .. len : relay[r][k] # e
      BY <1>2, <2>3, <3>2 DEF Arrive, Held
    <3>4. /\ Len(relay'[r]) = len + 1 /\ relay'[r][len + 1] = e
          /\ \A k \in 1 .. len : relay'[r][k] = relay[r][k]
      BY <3>1, <3>2
    <3>5. (i \in 1 .. len \/ i = len + 1) /\ (j \in 1 .. len \/ j = len + 1)
      BY <2>1, <3>2, <3>4
    <3>6. \A k, l \in 1 .. len : relay[r][k] = relay[r][l] => k = l
      BY <3>2 DEF RelayOnce
    <3>. QED
      BY <2>1, <3>3, <3>4, <3>5, <3>6
  <2>. QED
    BY <2>2, <2>3
<1>3. ASSUME NEW p \in Syncers, SyncStep(p) \/ SyncError(p) PROVE UNCHANGED relay
  BY <1>3, SyncLocal
<1>4. CASE (\E c \in Senders, k \in Keys : ImportCard(c, k)) \/ DirectStep \/ ReadStep
           \/ DirectFails \/ MarkReadFails \/ UNCHANGED vars
  BY <1>1, <1>4 DEF ImportCard, DirectStep, ReceiveDirect, SaveDirectConversation,
                    SaveDirectMessage, ReadStep, MarkRuntimeRead, MarkLegacyRead,
                    DirectFails, MarkReadFails, vars
<1>. QED
  BY <1>1, <1>2, <1>3, <1>4 DEF Next, Working, Failure, World

LEMMA RelaysHoldOnce == Spec => []RelayOnce
<1>1. Init => RelayOnce
  BY DEF Init, RelayOnce
<1>2. TypeOK /\ RelayOnce /\ [Next]_vars => RelayOnce'
  BY RelayOnceStep
<1>. QED
  BY <1>1, <1>2, TypeCorrect, PTL DEF Spec

\* Of two events of a batch at most one comes before the other.
LEMMA OneBefore ==
    ASSUME TypeOK, RelayOnce, NEW r \in Relays, NEW e \in Events, NEW f \in Events,
           Before(r, e, f), Before(r, f, e)
    PROVE  FALSE
<1>1. CASE r \in Mailboxes
  <2>1. PICK i \in 1 .. Len(relay[r]), j \in 1 .. Len(relay[r]) :
           i < j /\ relay[r][i] = e /\ relay[r][j] = f
    BY <1>1 DEF Before
  <2>2. PICK k \in 1 .. Len(relay[r]), l \in 1 .. Len(relay[r]) :
           k < l /\ relay[r][k] = f /\ relay[r][l] = e
    BY <1>1 DEF Before
  <2>3. i = l /\ j = k
    BY <2>1, <2>2 DEF RelayOnce
  <2>4. Len(relay[r]) \in Nat
    BY DEF TypeOK
  <2>. QED
    BY <2>1, <2>2, <2>3, <2>4
<1>2. CASE r \notin Mailboxes
  BY <1>2, EventsAssumption DEF Before
<1>. QED
  BY <1>1, <1>2

\* A transaction counts as many messages of a sender as it stores.
LEMMA BatchCounted ==
    ASSUME TypeOK, RelayOnce, NEW p \in Syncers, CommitBatch(p), NEW c \in Senders
    PROVE  unread'[c] = unread[c] + Cardinality(NewFrom(c))
<1>1. PICK new \in SUBSET Candidates(p),
           latest \in {Stamp[e] : e \in Candidates(p)} \cup {job[p].last} :
         /\ InsertOrIgnore(p, new)
         /\ messages' = MessagesWith(new)
         /\ unread' = CountsWith(new)
  BY DEF CommitBatch
<1>2. Candidates(p) \subseteq Events /\ Route(p) \in Relays
  BY RouteType DEF CommitBatch, Candidates, TypeOK, Jobs
<1>3. ASSUME NEW e \in new, NEW f \in new, MsgOf[e] = MsgOf[f] PROVE e = f
  <2>1. SUFFICES ASSUME e # f PROVE FALSE
    OBVIOUS
  <2>2. Before(Route(p), e, f) /\ Before(Route(p), f, e)
    BY <1>1, <1>3, <2>1 DEF InsertOrIgnore
  <2>. QED
    BY <1>2, <2>2, OneBefore
<1>. DEFINE From == {e \in new : Sender(e) = c}
            f == [e \in From |-> MsgOf[e]]
<1>4. ASSUME NEW e \in new
      PROVE  /\ MsgOf[e] \in Msgs
             /\ messages[MsgOf[e]] = None /\ messages'[MsgOf[e]] = e
  <2>1. MsgOf[e] \in Msgs
    BY <1>2, EventMsg
  <2>2. messages'[MsgOf[e]] = CHOOSE g \in new : MsgOf[g] = MsgOf[e]
    BY <1>1, <2>1 DEF MessagesWith
  <2>3. messages'[MsgOf[e]] \in new /\ MsgOf[messages'[MsgOf[e]]] = MsgOf[e]
    BY <2>2
  <2>4. messages'[MsgOf[e]] = e
    BY <1>3, <2>3
  <2>. QED
    BY <1>1, <2>1, <2>4 DEF InsertOrIgnore
<1>5. ASSUME NEW m \in NewFrom(c) PROVE \E e \in From : MsgOf[e] = m
  <2>1. m \in Msgs /\ SenderOf[m] = c /\ messages[m] # messages'[m]
    BY DEF NewFrom
  <2>2. PICK e \in new : MsgOf[e] = m
    BY <1>1, <2>1 DEF MessagesWith
  <2>. QED
    BY <2>1, <2>2 DEF Sender
<1>6. \A e \in From : MsgOf[e] \in NewFrom(c)
  BY <1>2, <1>4, EventMsg DEF NewFrom, Sender
<1>7. f \in Bijection(From, NewFrom(c))
  <2>1. f \in [From -> NewFrom(c)] /\ \A e \in From : f[e] = MsgOf[e]
    BY <1>6
  <2>2. \A e, g \in From : MsgOf[e] = MsgOf[g] => e = g
    BY <1>3
  <2>. HIDE DEF From, f
  <2>3. \A e, g \in From : f[e] = f[g] => e = g
    BY <2>1, <2>2
  <2>4. \A m \in NewFrom(c) : \E e \in From : f[e] = m
    BY <1>5, <2>1
  <2>. QED
    BY <2>1, <2>3, <2>4 DEF Bijection, Injection, IsInjective, Surjection
<1>8. From \in SUBSET Events /\ IsFiniteSet(From)
  BY <1>2, EventsAssumption, FS_Subset
<1>9. Cardinality(NewFrom(c)) = Cardinality(From)
  BY <1>7, <1>8, FS_Bijection DEF ExistsBijection
<1>10. unread'[c] = unread[c] + Cardinality(From)
  BY <1>1 DEF CountsWith
<1>. QED
  BY <1>9, <1>10

\* The unread count of a conversation goes up by exactly the messages a step
\* stores in it, and otherwise only to zero, when its thread was read: a
\* message that comes in twice is counted once.
THEOREM CountsAreNew == Spec => UnreadCountsNew
<1>. DEFINE Counted == \A c \in Senders :
                          \/ unread'[c] = unread[c] + Cardinality(NewFrom(c))
                          \/ reader = c /\ unread'[c] = 0
<1>1. ASSUME TypeOK, RelayOnce, [Next]_vars PROVE Counted
  <2>0. ASSUME NEW c \in Senders, unread'[c] = unread[c], UNCHANGED messages
        PROVE  unread'[c] = unread[c] + Cardinality(NewFrom(c))
    <3>1. NewFrom(c) = {}
      BY <2>0 DEF NewFrom
    <3>2. unread[c] \in Nat
      BY <1>1 DEF TypeOK
    <3>. QED
      BY <2>0, <3>1, <3>2, FS_EmptySet
  <2>1. CASE UNCHANGED tableVars
    BY <2>0, <2>1 DEF tableVars
  <2>2. ASSUME NEW p \in Syncers, CommitBatch(p) PROVE Counted
    BY <1>1, <2>2, BatchCounted
  <2>3. ASSUME NEW c \in Senders, NEW k \in Keys, ImportCard(c, k) PROVE Counted
    BY <2>0, <2>3 DEF ImportCard
  <2>4. ASSUME NEW m \in Msgs, ReceiveDirect(m) PROVE Counted
    <3>1. CASE messages[m] # None
      BY <2>0, <2>4, <3>1 DEF ReceiveDirect
    <3>2. CASE messages[m] = None
      <4>1. /\ messages' = [messages EXCEPT ![m] = DirectCopy]
            /\ unread' = [unread EXCEPT ![SenderOf[m]] = @ + 1]
        BY <2>4, <3>2 DEF ReceiveDirect
      <4>2. \A n \in Msgs : messages[n] # messages'[n] <=> n = m
        BY <1>1, <3>2, <4>1, DistinctAssumption DEF TypeOK
      <4>3. ASSUME NEW c \in Senders
            PROVE  unread'[c] = unread[c] + Cardinality(NewFrom(c))
        <5>0. unread[c] \in Nat
          BY <1>1 DEF TypeOK
        <5>1. CASE c = SenderOf[m]
          <6>1. NewFrom(c) = {m}
            BY <4>2, <5>1 DEF NewFrom
          <6>2. Cardinality(NewFrom(c)) = 1
            BY <6>1, FS_Singleton
          <6>. QED
            BY <1>1, <4>1, <5>1, <6>2 DEF TypeOK
        <5>2. CASE c # SenderOf[m]
          <6>1. NewFrom(c) = {}
            BY <4>2, <5>2 DEF NewFrom
          <6>2. Cardinality(NewFrom(c)) = 0
            BY <6>1, FS_EmptySet
          <6>3. unread'[c] = unread[c]
            BY <1>1, <4>1, <5>2 DEF TypeOK
          <6>. QED
            BY <5>0, <6>2, <6>3
        <5>. QED
          BY <5>1, <5>2
      <4>. QED
        BY <4>3
    <3>. QED
      BY <3>1, <3>2
  <2>5. CASE MarkLegacyRead
    <3>1. UNCHANGED messages /\ unread' = [unread EXCEPT ![reader] = 0]
      BY <2>5 DEF MarkLegacyRead
    <3>2. \A c \in Senders : unread'[c] = IF c = reader THEN 0 ELSE unread[c]
      BY <1>1, <3>1 DEF TypeOK
    <3>. QED
      BY <2>0, <3>1, <3>2
  <2>. QED
    BY <1>1, <2>1, <2>2, <2>3, <2>4, <2>5, TableSteps
<1>2. TypeOK /\ RelayOnce /\ [Next]_vars => [Counted]_vars
  BY <1>1
<1>. QED
  BY <1>2, TypeCorrect, RelaysHoldOnce, PTL DEF Spec, UnreadCountsNew

-----------------------------------------------------------------------------
(* The inductive invariant behind the Nostr relays.  Events come to a relay *)
(* in the order of their stamps and of their seconds, so everything before  *)
(* the cursor, and everything up to the checkpoint, is passed: not ours, of *)
(* a sender whose key was not bound from the start, or stored.  The same    *)
(* holds of what a running process is going to save, and of what it has     *)
(* pulled, except for the events of its own batch.                          *)

Passed(e) ==
    \/ Fault[e] = "misaddressed"
    \/ Sender(e) \notin FirstPeers
    \/ Stored(MsgOf[e])

\* A second, 0 or that of an event held, before which everything is passed.
PassedBefore(r, t) ==
    /\ t = 0 \/ \E e \in Held(r) : CreatedAt[e] = t
    /\ \A e \in Held(r) : CreatedAt[e] < t => Passed(e)

\* A stamp, 0 or that of an event held, up to which everything is passed.
PassedUpTo(r, s) ==
    /\ s = 0 \/ \E e \in Held(r) : Stamp[e] = s
    /\ \A e \in Held(r) : Stamp[e] <= s => Passed(e)

\* What job j knows of relay r, the one it works on.
JobPassed(r, j) ==
    /\ PassedUpTo(r, j.last)
    /\ PassedUpTo(r, j.latest)
    /\ j.pc \in {"pull", "commit"} => FirstPeers \subseteq j.known
    /\ j.pc = "cursor" => PassedBefore(r, j.next)
    /\ j.pc = "commit" =>
          /\ j.batch \subseteq Held(r)
          /\ \E e \in Held(r) : CreatedAt[e] = j.next
          /\ \A e \in Held(r) :
                CreatedAt[e] < j.next \/ (\E f \in j.batch : Stamp[e] <= Stamp[f])
                    => Passed(e) \/ e \in j.batch

NostrInv ==
    /\ FirstPeers \subseteq peers
    /\ \A r \in Relays \ Mailboxes :
          PassedBefore(r, cursor[r]) /\ PassedUpTo(r, checkpoint[r])
    /\ \A p \in Syncers :
          job[p].pc # "idle" /\ Route(p) \notin Mailboxes
              => JobPassed(Route(p), job[p])

LEMMA HeldType ==
    ASSUME TypeOK, NEW r \in Relays
    PROVE  \A e \in Held(r) : /\ e \in Events
                              /\ MsgOf[e] \in Msgs
                              /\ Stamp[e] \in Nat \ {0}
                              /\ CreatedAt[e] \in Nat \ {0}
  BY EventsAssumption DEF TypeOK, Held

\* Nothing is stamped 0 or earlier.
LEMMA ZeroPassed ==
    ASSUME TypeOK, NEW r \in Relays
    PROVE  PassedBefore(r, 0) /\ PassedUpTo(r, 0)
  BY HeldType DEF PassedBefore, PassedUpTo

LEMMA NostrInit == Init => NostrInv
<1>. SUFFICES ASSUME Init PROVE NostrInv
  OBVIOUS
<1>1. TypeOK
  BY TypeInit
<1>2. /\ FirstPeers = peers
      /\ \A p \in Syncers : job[p].pc = "idle"
      /\ \A r \in Relays : cursor[r] = 0 /\ checkpoint[r] = 0
  BY DEF Init, IdleJob
<1>3. \A r \in Relays : PassedBefore(r, cursor[r]) /\ PassedUpTo(r, checkpoint[r])
  BY <1>1, <1>2, ZeroPassed
<1>. QED
  BY <1>2, <1>3 DEF NostrInv

\* Steps that leave the relays alone and keep what is stored keep everything
\* that is passed ...
LEMMA PassedStays ==
    ASSUME TypeOK, UNCHANGED relay,
           \A m \in Msgs : Stored(m) => Stored(m)',
           NEW r \in Relays
    PROVE  /\ \A t : PassedBefore(r, t) => PassedBefore(r, t)'
           /\ \A s : PassedUpTo(r, s) => PassedUpTo(r, s)'
           /\ \A j : JobPassed(r, j) => JobPassed(r, j)'
<1>1. Held(r)' = Held(r)
  BY DEF Held
<1>2. \A e \in Held(r) : Passed(e) => Passed(e)'
  BY HeldType DEF Passed
<1>3. ASSUME NEW t, PassedBefore(r, t) PROVE PassedBefore(r, t)'
  BY <1>1, <1>2, <1>3 DEF PassedBefore
<1>4. ASSUME NEW s, PassedUpTo(r, s) PROVE PassedUpTo(r, s)'
  BY <1>1, <1>2, <1>4 DEF PassedUpTo
<1>5. ASSUME NEW j, JobPassed(r, j) PROVE JobPassed(r, j)'
  BY <1>1, <1>2, <1>3, <1>4, <1>5 DEF JobPassed
<1>. QED
  BY <1>3, <1>4, <1>5

\* ... and so does the arrival of an event, which has a higher stamp than all
\* others and no earlier second.
LEMMA ArrivalPasses ==
    ASSUME TypeOK, InOrder, NEW q \in Relays, NEW e \in Events, Arrive(q, e),
           NEW r \in Relays
    PROVE  /\ \A t : PassedBefore(r, t) => PassedBefore(r, t)'
           /\ \A s : PassedUpTo(r, s) => PassedUpTo(r, s)'
           /\ \A j : JobPassed(r, j) => JobPassed(r, j)'
<1>1. \A f \in Held(r) : Passed(f) => Passed(f)'
  BY DEF Arrive, tableVars, Passed, Stored
<1>2. CASE r # q
  <2>1. Held(r)' = Held(r)
    BY <1>2 DEF Arrive, TypeOK, Held
  <2>2. ASSUME NEW t, PassedBefore(r, t) PROVE PassedBefore(r, t)'
    BY <1>1, <2>1, <2>2 DEF PassedBefore
  <2>3. ASSUME NEW s, PassedUpTo(r, s) PROVE PassedUpTo(r, s)'
    BY <1>1, <2>1, <2>3 DEF PassedUpTo
  <2>4. ASSUME NEW j, JobPassed(r, j) PROVE JobPassed(r, j)'
    BY <1>1, <2>1, <2>2, <2>3, <2>4 DEF JobPassed
  <2>. QED
    BY <2>2, <2>3, <2>4
<1>3. CASE r = q
  <2>1. Held(r)' = Held(r) \cup {e}
    <3>1. relay[r] \in Seq(Events) /\ relay'[r] = Append(relay[r], e)
      BY <1>3 DEF Arrive, TypeOK
    <3>2. PICK len \in Nat : len = Len(relay[r])
      BY <3>1
    <3>3. /\ Len(relay'[r]) = len + 1 /\ relay'[r][len + 1] = e
          /\ \A i \in 1 .. len : relay'[r][i] = relay[r][i]
      BY <3>1, <3>2
    <3>4. 1 .. (len + 1) = (1 .. len) \cup {len + 1}
      BY <3>2
    <3>. QED
      BY <3>2, <3>3, <3>4 DEF Held
  <2>2. \A f \in Held(r) : Stamp[f] < Stamp[e] /\ CreatedAt[f] <= CreatedAt[e]
    BY <1>3 DEF Arrive
  <2>3. /\ Stamp[e] \in Nat \ {0} /\ CreatedAt[e] \in Nat \ {0}
        /\ \A f \in Held(r) : Stamp[f] \in Nat /\ CreatedAt[f] \in Nat
    BY HeldType, EventsAssumption
  <2>4. ASSUME NEW t, PassedBefore(r, t) PROVE PassedBefore(r, t)'
    <3>1. ~(CreatedAt[e] < t)
      BY <2>2, <2>3, <2>4 DEF PassedBefore
    <3>. QED
      BY <1>1, <2>1, <2>4, <3>1 DEF PassedBefore
  <2>5. ASSUME NEW s, PassedUpTo(r, s) PROVE PassedUpTo(r, s)'
    <3>1. ~(Stamp[e] <= s)
      BY <2>2, <2>3, <2>5 DEF PassedUpTo
    <3>. QED
      BY <1>1, <2>1, <2>5, <3>1 DEF PassedUpTo
  <2>6. ASSUME NEW j, JobPassed(r, j) PROVE JobPassed(r, j)'
    <3>1. ASSUME j.pc = "commit"
          PROVE  /\ j.batch \subseteq Held(r)'
                 /\ \E f \in Held(r)' : CreatedAt[f] = j.next
                 /\ \A f \in Held(r)' :
                       CreatedAt[f] < j.next \/ (\E g \in j.batch : Stamp[f] <= Stamp[g])
                           => Passed(f)' \/ f \in j.batch
      <4>1. /\ j.batch \subseteq Held(r)
            /\ \E f \in Held(r) : CreatedAt[f] = j.next
            /\ \A f \in Held(r) :
                  CreatedAt[f] < j.next \/ (\E g \in j.batch : Stamp[f] <= Stamp[g])
                      => Passed(f) \/ f \in j.batch
        BY <2>6, <3>1 DEF JobPassed
      <4>2. ~(CreatedAt[e] < j.next)
        BY <2>2, <2>3, <4>1
      <4>3. ~(\E g \in j.batch : Stamp[e] <= Stamp[g])
        BY <2>2, <2>3, <4>1
      <4>. QED
        BY <1>1, <2>1, <4>1, <4>2, <4>3
    <3>2. PassedUpTo(r, j.last)' /\ PassedUpTo(r, j.latest)'
      BY <2>5, <2>6 DEF JobPassed
    <3>3. j.pc = "cursor" => PassedBefore(r, j.next)'
      BY <2>4, <2>6 DEF JobPassed
    <3>4. j.pc \in {"pull", "commit"} => FirstPeers \subseteq j.known
      BY <2>6 DEF JobPassed
    <3>. QED
      BY <3>1, <3>2, <3>3, <3>4 DEF JobPassed
  <2>. QED
    BY <2>4, <2>5, <2>6
<1>. QED
  BY <1>2, <1>3

\* A job that has just started on a route knows nothing.
LEMMA FreshPassed ==
    ASSUME TypeOK, NEW r \in Relays, NEW j,
           j.pc \in {"idle", "load"}, j.last = 0, j.latest = 0
    PROVE  JobPassed(r, j)
  BY ZeroPassed DEF JobPassed

\* If a relay may return as many events as there are, it returns all of them.
LEMMA PullsAll ==
    ASSUME TypeOK, Cardinality(Events) <= PullLimit,
           NEW p, NEW r \in Relays, r = Route(p),
           NEW batch \in SUBSET Held(r), NEW next, PullNostr(p, batch, next)
    PROVE  batch = {e \in Held(r) : CreatedAt[e] >= cursor[r]}
<1>. DEFINE since == {e \in Held(r) : CreatedAt[e] >= cursor[r]}
<1>1. since \in SUBSET Events
  BY HeldType
<1>2. /\ IsFiniteSet(since) /\ Cardinality(since) <= Cardinality(Events)
      /\ Cardinality(since) \in Nat /\ Cardinality(Events) \in Nat
  BY <1>1, EventsAssumption, FS_Subset, FS_CardinalityType
<1>3. /\ batch \in SUBSET since
      /\ Cardinality(batch) = IF Cardinality(since) < PullLimit
                              THEN Cardinality(since) ELSE PullLimit
  BY DEF PullNostr
<1>. HIDE DEF since
<1>4. PICK m \in Nat, n \in Nat : m = Cardinality(since) /\ n = Cardinality(Events)
  BY <1>2
<1>5. PICK limit \in Nat : limit = PullLimit
  BY RelaysAssumption
<1>6. Cardinality(batch) = IF m < limit THEN m ELSE limit
  BY <1>3, <1>4, <1>5
<1>7. m <= n /\ n <= limit
  BY <1>2, <1>4, <1>5
<1>8. Cardinality(batch) = Cardinality(since)
  BY <1>4, <1>6, <1>7
<1>9. since = batch
  BY <1>2, <1>3, <1>8, FS_Subset
<1>. QED
  BY <1>9 DEF since

\* What a relay returns: all its events but those that are passed.
LEMMA PullPassed ==
    ASSUME TypeOK, NostrInv, Cardinality(Events) <= PullLimit,
           NEW p \in Syncers, job[p].pc = "pull",
           NEW r \in Relays \ Mailboxes, r = Route(p),
           NEW batch \in SUBSET Held(r), NEW next, PullNostr(p, batch, next),
           NEW j, j = AfterPull(p, batch, next)
    PROVE  JobPassed(r, j)
<1>1. batch = {e \in Held(r) : CreatedAt[e] >= cursor[r]}
  BY PullsAll
<1>2. JobPassed(r, job[p]) /\ PassedBefore(r, cursor[r])
  BY DEF NostrInv
<1>3. /\ PassedUpTo(r, job[p].last) /\ PassedUpTo(r, job[p].latest)
      /\ FirstPeers \subseteq job[p].known
  BY <1>2 DEF JobPassed
<1>4. CASE batch = {}
  <2>1. j.pc = "cursor" /\ j.last = 0 /\ j.latest = job[p].last /\ j.next = next
    BY <1>4 DEF AfterPull, IdleJob
  <2>2. next = cursor[r]
    BY <1>4 DEF PullNostr
  <2>3. PassedBefore(r, j.next)
    BY <1>2, <2>1, <2>2
  <2>. QED
    BY <1>3, <2>1, <2>3, ZeroPassed DEF JobPassed
<1>5. CASE batch # {}
  <2>1. /\ j.pc = "commit" /\ j.last = job[p].last /\ j.latest = job[p].latest
        /\ j.next = next /\ j.batch = batch /\ j.known = job[p].known
    BY <1>5 DEF AfterPull, TypeOK, Jobs
  <2>2. \E e \in batch : next = CreatedAt[e]
    BY <1>5 DEF PullNostr
  <2>3. ASSUME NEW e \in Held(r) PROVE Passed(e) \/ e \in batch
    <3>1. CreatedAt[e] \in Nat /\ cursor[r] \in Nat
      BY HeldType DEF TypeOK
    <3>. QED
      BY <1>1, <1>2, <3>1 DEF PassedBefore
  <2>. QED
    BY <1>3, <2>1, <2>2, <2>3 DEF JobPassed
<1>. QED
  BY <1>4, <1>5

\* After the transaction the whole batch is passed.
LEMMA CommitPassed ==
    ASSUME TypeOK, CopyInv, NostrInv, NEW p \in Syncers, CommitBatch(p),
           TypeOK', \A m \in Msgs : Stored(m) => Stored(m)',
           NEW r \in Relays \ Mailboxes, r = Route(p),
           NEW j, j = job'[p]
    PROVE  JobPassed(r, j)'
<1>1. /\ \A e \in Candidates(p) : Stored(MsgOf[e])'
      /\ Candidates(p) \subseteq Events
  BY CommitFacts
<1>2. PICK last \in Nat, next \in Nat : last = job[p].last /\ next = job[p].next
  BY DEF TypeOK, Jobs
<1>3. PICK latest \in {Stamp[e] : e \in Candidates(p)} \cup {last} :
         /\ job'[p].pc = "cursor" /\ job'[p].next = next
         /\ job'[p].last = 0 /\ job'[p].latest = latest
  BY <1>2 DEF CommitBatch, TypeOK, IdleJob
<1>4. j.pc = "cursor" /\ j.next = next /\ j.last = 0 /\ j.latest = latest
  BY <1>3
<1>5. JobPassed(r, job[p]) /\ job[p].pc = "commit"
  BY DEF NostrInv, CommitBatch
<1>6. PICK batch \in SUBSET Held(r) : batch = job[p].batch
  BY <1>5 DEF JobPassed
<1>7. /\ PassedUpTo(r, last)
      /\ FirstPeers \subseteq job[p].known
      /\ \E e \in Held(r) : CreatedAt[e] = next
      /\ \A e \in Held(r) :
            CreatedAt[e] < next \/ (\E f \in batch : Stamp[e] <= Stamp[f])
                => Passed(e) \/ e \in batch
  BY <1>2, <1>5, <1>6 DEF JobPassed
<1>8. Held(r)' = Held(r)
  BY DEF CommitBatch, worldVars, Held
<1>9. \A e \in Held(r) : Passed(e) => Passed(e)'
  BY HeldType DEF Passed
<1>10. ASSUME NEW e \in batch PROVE Passed(e)'
  <2>1. e \in Held(r) /\ e \in Events /\ Stamp[e] \in Nat
    BY HeldType
  <2>2. CASE ~Bound(p, e)
    BY <1>7, <2>2 DEF Bound, Passed
  <2>3. CASE WasObserved(e)
    BY <1>9, <2>1, <2>3 DEF WasObserved, CopyInv, ObservedStored, Passed
  <2>4. CASE ~(Stamp[e] > last)
    <3>1. Stamp[e] <= last
      BY <2>1, <2>4
    <3>. QED
      BY <1>7, <1>9, <2>1, <3>1 DEF PassedUpTo
  <2>5. CASE e \in Candidates(p)
    BY <1>1, <2>5 DEF Passed
  <2>. QED
    BY <1>2, <1>6, <2>2, <2>3, <2>4, <2>5 DEF Candidates
<1>11. PassedBefore(r, next)'
  BY <1>7, <1>8, <1>9, <1>10 DEF PassedBefore
<1>12. PassedUpTo(r, latest)'
  <2>1. CASE latest = last
    BY <1>7, <1>8, <1>9, <2>1 DEF PassedUpTo
  <2>2. CASE latest # last
    <3>1. PICK f \in batch : latest = Stamp[f]
      BY <1>3, <1>6, <2>2 DEF Candidates
    <3>2. \A e \in Held(r) : Stamp[e] <= latest => Passed(e)'
      BY <1>7, <1>9, <1>10, <3>1
    <3>. QED
      BY <1>8, <3>1, <3>2 DEF PassedUpTo
  <2>. QED
    BY <2>1, <2>2
<1>13. PassedUpTo(r, 0)'
  BY <1>8, HeldType DEF PassedUpTo
<1>. QED
  BY <1>4, <1>11, <1>12, <1>13 DEF JobPassed

\* The job of a process after any of its steps but the transaction.
LEMMA OwnPassed ==
    ASSUME TypeOK, NostrInv, Cardinality(Events) <= PullLimit,
           NEW p \in Syncers, SyncStep(p) \/ SyncError(p), ~CommitBatch(p),
           NEW k, k = job'[p], k.pc # "idle",
           NEW r \in Relays \ Mailboxes, r = RouteOrder[k.at]
    PROVE  JobPassed(r, k)
<1>1. job \in [Syncers -> Jobs] /\ job[p] \in Jobs
  BY DEF TypeOK
<1>2. CASE StartSync(p) \/ AbortBatch(p) \/ Ack(p) \/ SyncError(p)
  <2>1. k.pc \in {"idle", "load"} /\ k.last = 0 /\ k.latest = 0
    <3>1. CASE StartSync(p)
      <4>. DEFINE j == [IdleJob EXCEPT !.pc = "load", !.at = 1]
      <4>1. j.pc = "load" /\ j.last = 0 /\ j.latest = 0
        BY DEF IdleJob
      <4>2. job' = [job EXCEPT ![p] = j]
        BY <3>1 DEF StartSync
      <4>. HIDE DEF j
      <4>. QED
        BY <1>1, <4>1, <4>2
    <3>2. CASE Crash(p)
      BY <1>1, <3>2 DEF Crash, IdleJob
    <3>3. CASE AbortBatch(p) \/ Ack(p) \/ PullFails(p) \/ AckFails(p) \/ StoreFails(p)
      <4>1. k = NextRoute(p)
        BY <1>1, <3>3 DEF AbortBatch, Ack, PullFails, AckFails, StoreFails
      <4>. QED
        BY <4>1, NextRouteFresh
    <3>. QED
      BY <1>2, <3>1, <3>2, <3>3 DEF SyncError
  <2>. QED
    BY <2>1, FreshPassed
<1>3. CASE LoadSyncState(p)
  <2>1. job[p].pc = "load"
    BY <1>3 DEF LoadSyncState
  <2>2. k.pc = "pull" /\ k.at = job[p].at /\ k.latest = job[p].latest
        /\ k.last = checkpoint[Route(p)] /\ k.known = peers
    BY <1>1, <1>3 DEF LoadSyncState, Jobs
  <2>3. r = Route(p)
    BY <2>2 DEF Route
  <2>4. JobPassed(r, job[p]) /\ PassedUpTo(r, checkpoint[r]) /\ FirstPeers \subseteq peers
    BY <2>1, <2>3 DEF NostrInv
  <2>. QED
    BY <2>2, <2>3, <2>4 DEF JobPassed
<1>4. CASE Pull(p)
  <2>1. PICK batch \in SUBSET Held(Route(p)),
             next \in 0 .. Len(relay[Route(p)]) \cup {cursor[Route(p)]}
                         \cup {CreatedAt[e] : e \in Held(Route(p))} :
          /\ IF Route(p) \in Mailboxes THEN PullMailbox(p, batch, next)
                                       ELSE PullNostr(p, batch, next)
          /\ job' = [job EXCEPT ![p] = AfterPull(p, batch, next)]
    BY <1>4 DEF Pull
  <2>2. k = AfterPull(p, batch, next) /\ job[p].pc = "pull"
    BY <1>1, <1>4, <2>1 DEF Pull
  <2>3. k.at = job[p].at
    <3>1. CASE batch = {}
      BY <2>2, <3>1 DEF AfterPull, IdleJob
    <3>2. CASE batch # {}
      BY <1>1, <2>2, <3>2 DEF AfterPull, Jobs
    <3>. QED
      BY <3>1, <3>2
  <2>4. r = Route(p)
    BY <2>3 DEF Route
  <2>5. PullNostr(p, batch, next)
    BY <2>1, <2>4
  <2>. QED
    BY <2>1, <2>2, <2>4, <2>5, PullPassed
<1>5. CASE SaveCursor(p) \/ SaveCheckpoint(p) \/ SaveObservation(p)
           \/ SaveConversation(p) \/ SaveMessage(p)
  <2>1. /\ job[p].pc # "idle"
        /\ k.pc \in {"checkpoint", "observations", "conversations", "messages", "ack"}
        /\ k.at = job[p].at /\ k.last = job[p].last /\ k.latest \in {0, job[p].latest}
    <3>1. CASE SaveCursor(p)
      BY <1>1, <3>1 DEF SaveCursor, Jobs
    <3>2. CASE SaveCheckpoint(p)
      BY <1>1, <3>2 DEF SaveCheckpoint, PhaseAfter, Jobs
    <3>3. CASE SaveObservation(p)
      BY <1>1, <3>3 DEF SaveObservation, PhaseAfter, Jobs
    <3>4. CASE SaveConversation(p)
      <4>. DEFINE rest(e) == job[p].convs \ {e}
      <4>1. PICK e \in job[p].convs :
               job' = [job EXCEPT
                         ![p].pc = IF rest(e) = {} THEN "messages" ELSE "conversations",
                         ![p].convs = rest(e),
                         ![p].counts = IF rest(e) = {} THEN IdleJob.counts ELSE @]
        BY <3>4 DEF SaveConversation
      <4>2. job[p].pc = "conversations"
        BY <3>4 DEF SaveConversation
      <4>. QED
        BY <1>1, <4>1, <4>2 DEF Jobs
    <3>5. CASE SaveMessage(p)
      BY <1>1, <3>5 DEF SaveMessage, Jobs
    <3>. QED
      BY <1>5, <3>1, <3>2, <3>3, <3>4, <3>5
  <2>2. r = Route(p)
    BY <2>1 DEF Route
  <2>3. JobPassed(r, job[p])
    BY <2>1, <2>2 DEF NostrInv
  <2>4. PassedUpTo(r, job[p].last) /\ PassedUpTo(r, job[p].latest) /\ PassedUpTo(r, 0)
    BY <2>3, ZeroPassed DEF JobPassed
  <2>. QED
    BY <2>1, <2>4 DEF JobPassed
<1>. QED
  BY <1>2, <1>3, <1>4, <1>5 DEF SyncStep

\* What is saved of a relay is what the running process knew of it.
LEMMA SavedPassed ==
    ASSUME TypeOK, NostrInv, NEW p \in Syncers, SyncStep(p) \/ SyncError(p),
           NEW r \in Relays \ Mailboxes
    PROVE  /\ PassedBefore(r, cursor'[r])
           /\ PassedUpTo(r, checkpoint'[r])
           /\ UNCHANGED peers
<1>. USE DEF worldVars, tableVars, syncVars
<1>1. PassedBefore(r, cursor[r]) /\ PassedUpTo(r, checkpoint[r])
  BY DEF NostrInv
<1>2. job[p].pc # "idle" /\ r = Route(p) => JobPassed(r, job[p])
  BY DEF NostrInv
<1>3. CASE SaveCursor(p)
  <2>1. cursor'[r] \in {cursor[r], job[p].next} /\ UNCHANGED <<checkpoint, peers>>
    BY <1>3 DEF SaveCursor, TypeOK
  <2>2. cursor'[r] # cursor[r] => r = Route(p) /\ cursor'[r] = job[p].next
    BY <1>3 DEF SaveCursor, TypeOK
  <2>3. job[p].pc = "cursor"
    BY <1>3 DEF SaveCursor
  <2>. QED
    BY <1>1, <1>2, <2>1, <2>2, <2>3 DEF JobPassed
<1>4. CASE SaveCheckpoint(p)
  <2>1. checkpoint'[r] \in {checkpoint[r], job[p].latest} /\ UNCHANGED <<cursor, peers>>
    BY <1>4 DEF SaveCheckpoint, TypeOK
  <2>2. checkpoint'[r] # checkpoint[r] => r = Route(p) /\ checkpoint'[r] = job[p].latest
    BY <1>4 DEF SaveCheckpoint, TypeOK
  <2>3. job[p].pc = "checkpoint"
    BY <1>4 DEF SaveCheckpoint
  <2>. QED
    BY <1>1, <1>2, <2>1, <2>2, <2>3 DEF JobPassed
<1>5. CASE ~SaveCursor(p) /\ ~SaveCheckpoint(p)
  <2>1. UNCHANGED <<cursor, checkpoint, peers>>
    BY <1>5 DEF SyncStep, SyncError, StartSync, LoadSyncState, Pull, CommitBatch,
                AbortBatch, SaveObservation, SaveConversation, SaveMessage, Ack,
                PullFails, AckFails, StoreFails, Crash
  <2>. QED
    BY <1>1, <2>1
<1>. QED
  BY <1>3, <1>4, <1>5

\* The parts of the invariant after a step, said of rigid values.
LEMMA NostrInvNext ==
    ASSUME (FirstPeers \subseteq peers)',
           \A r \in Relays \ Mailboxes : \A t, s :
              t = cursor'[r] /\ s = checkpoint'[r]
                  => PassedBefore(r, t)' /\ PassedUpTo(r, s)',
           \A p \in Syncers : \A k, r :
              k = job'[p] /\ r = RouteOrder[k.at] /\ k.pc # "idle" /\ r \notin Mailboxes
                  => JobPassed(r, k)'
    PROVE  NostrInv'
<1>1. ASSUME NEW r \in Relays \ Mailboxes
      PROVE  PassedBefore(r, cursor[r])' /\ PassedUpTo(r, checkpoint[r])'
  BY DEF PassedBefore, PassedUpTo
<1>2. ASSUME NEW p \in Syncers, (job[p].pc # "idle")', (Route(p) \notin Mailboxes)'
      PROVE  JobPassed(Route(p), job[p])'
  BY <1>2 DEF Route, JobPassed, PassedBefore, PassedUpTo
<1>. QED
  BY <1>1, <1>2 DEF NostrInv

LEMMA SyncPassed ==
    ASSUME TypeOK, CopyInv, NostrInv, Cardinality(Events) <= PullLimit,
           NEW p \in Syncers, SyncStep(p) \/ SyncError(p),
           TypeOK', \A m \in Msgs : Stored(m) => Stored(m)'
    PROVE  NostrInv'
<1>1. UNCHANGED relay /\ \A q \in Syncers \ {p} : job'[q] = job[q]
  BY SyncLocal
<1>2. ASSUME NEW r \in Relays
      PROVE  /\ \A t : PassedBefore(r, t) => PassedBefore(r, t)'
             /\ \A s : PassedUpTo(r, s) => PassedUpTo(r, s)'
             /\ \A j : JobPassed(r, j) => JobPassed(r, j)'
  BY <1>1, <1>2, PassedStays
<1>3. (FirstPeers \subseteq peers)'
  <2>1. UNCHANGED peers
    BY DEF SyncStep, SyncError, StartSync, LoadSyncState, Pull, CommitBatch,
           AbortBatch, SaveCursor, SaveCheckpoint, SaveObservation,
           SaveConversation, SaveMessage, Ack, PullFails, AckFails, StoreFails,
           Crash, tableVars
  <2>. QED
    BY <2>1 DEF NostrInv
<1>4. ASSUME NEW r \in Relays \ Mailboxes, NEW t, NEW s,
             t = cursor'[r], s = checkpoint'[r]
      PROVE  PassedBefore(r, t)' /\ PassedUpTo(r, s)'
  <2>1. PassedBefore(r, t) /\ PassedUpTo(r, s)
    BY <1>4, SavedPassed
  <2>. QED
    BY <1>2, <2>1
<1>5. ASSUME NEW q \in Syncers, NEW k, NEW r, k = job'[q], r = RouteOrder[k.at],
             k.pc # "idle", r \notin Mailboxes
      PROVE  JobPassed(r, k)'
  <2>0. r \in Relays \ Mailboxes
    <3>1. k.at \in 1 .. Len(RouteOrder)
      BY <1>5 DEF TypeOK
    <3>. QED
      BY <1>5, <3>1, RelaysAssumption
  <2>1. CASE q # p
    <3>1. k = job[q] /\ r = Route(q)
      BY <1>1, <1>5, <2>1 DEF Route
    <3>2. JobPassed(r, k)
      BY <1>5, <3>1 DEF NostrInv
    <3>. QED
      BY <1>2, <2>0, <3>2
  <2>2. CASE q = p /\ CommitBatch(p)
    <3>1. k.at = job[p].at /\ r = Route(p)
      BY <1>5, <2>2 DEF CommitBatch, TypeOK, IdleJob, Route
    <3>. QED
      BY <1>5, <2>0, <2>2, <3>1, CommitPassed
  <2>3. CASE q = p /\ ~CommitBatch(p)
    <3>1. JobPassed(r, k)
      BY <1>5, <2>0, <2>3, OwnPassed
    <3>. QED
      BY <1>2, <2>0, <3>1
  <2>. QED
    BY <2>1, <2>2, <2>3
<1>. QED
  BY <1>3, <1>4, <1>5, NostrInvNext

LEMMA NostrStep ==
    ASSUME TypeOK, TypeOK', CopyInv, InOrder, Cardinality(Events) <= PullLimit,
           NostrInv, [Next]_vars
    PROVE  NostrInv'
<1>. USE DEF worldVars, tableVars, runtimeVars, syncVars
<1>1. ASSUME NEW m \in Msgs, Stored(m) PROVE Stored(m)'
  BY <1>1, StoredStays DEF Stored
<1>2. ASSUME NEW p \in Syncers, SyncStep(p) \/ SyncError(p) PROVE NostrInv'
  BY <1>1, <1>2, SyncPassed
<1>3. ASSUME UNCHANGED <<cursor, checkpoint, job>>, (FirstPeers \subseteq peers)',
             \A r \in Relays :
                /\ \A t : PassedBefore(r, t) => PassedBefore(r, t)'
                /\ \A s : PassedUpTo(r, s) => PassedUpTo(r, s)'
                /\ \A j : JobPassed(r, j) => JobPassed(r, j)'
      PROVE  NostrInv'
  <2>1. ASSUME NEW r \in Relays \ Mailboxes, NEW t, NEW s,
               t = cursor'[r], s = checkpoint'[r]
        PROVE  PassedBefore(r, t)' /\ PassedUpTo(r, s)'
    <3>1. PassedBefore(r, t) /\ PassedUpTo(r, s)
      BY <1>3, <2>1 DEF NostrInv
    <3>. QED
      BY <1>3, <3>1
  <2>2. ASSUME NEW q \in Syncers, NEW k, NEW r, k = job'[q], r = RouteOrder[k.at],
               k.pc # "idle", r \notin Mailboxes
        PROVE  JobPassed(r, k)'
    <3>1. k = job[q] /\ r = Route(q) /\ r \in Relays
      <4>1. k = job[q]
        BY <1>3, <2>2
      <4>2. k.at \in 1 .. Len(RouteOrder)
        BY <2>2, <4>1 DEF TypeOK
      <4>. QED
        BY <2>2, <4>1, <4>2, RelaysAssumption DEF Route
    <3>2. JobPassed(r, k)
      BY <2>2, <3>1 DEF NostrInv
    <3>. QED
      BY <1>3, <3>1, <3>2
  <2>. QED
    BY <1>3, <2>1, <2>2, NostrInvNext
<1>4. ASSUME NEW q \in Relays, NEW e \in Events, Arrive(q, e) PROVE NostrInv'
  <2>1. UNCHANGED <<cursor, checkpoint, job, peers>>
    BY <1>4 DEF Arrive
  <2>2. (FirstPeers \subseteq peers)'
    BY <2>1 DEF NostrInv
  <2>. QED
    BY <1>3, <1>4, <2>1, <2>2, ArrivalPasses
<1>5. CASE (\E c \in Senders, k \in Keys : ImportCard(c, k)) \/ DirectStep \/ ReadStep
           \/ DirectFails \/ MarkReadFails \/ UNCHANGED vars
  <2>1. UNCHANGED <<relay, cursor, checkpoint, job>> /\ peers \subseteq peers'
    BY <1>5 DEF ImportCard, DirectStep, ReceiveDirect, SaveDirectConversation,
                SaveDirectMessage, ReadStep, MarkRuntimeRead, MarkLegacyRead,
                DirectFails, MarkReadFails, vars
  <2>2. (FirstPeers \subseteq peers)'
    BY <2>1 DEF NostrInv
  <2>. QED
    BY <1>1, <1>3, <2>1, <2>2, PassedStays
<1>. QED
  BY <1>2, <1>4, <1>5 DEF Next, Working, Failure, World

LEMMA NostrCorrect == InOrder /\ Cardinality(Events) <= PullLimit /\ Spec => []NostrInv
<1>1. Spec => [](TypeOK /\ CopyInv)
  BY TypeCorrect, CopyCorrect, PTL
<1>2. ASSUME InOrder, Cardinality(Events) <= PullLimit
      PROVE  TypeOK /\ TypeOK' /\ CopyInv /\ NostrInv /\ [Next]_vars => NostrInv'
  BY <1>2, NostrStep
<1>3. ASSUME InOrder, Cardinality(Events) <= PullLimit PROVE Spec => []NostrInv
  BY <1>1, <1>2, <1>3, NostrInit, PTL DEF Spec
<1>. QED
  BY <1>3

\* A Nostr relay is asked for the seconds since the cursor, and what is not
\* past the checkpoint is skipped.  As long as its events come in order, no
\* relay holds more than it returns, and the sender's key was bound from the
\* start, neither passes over a message that is not stored.
THEOREM PassedAreStored == Spec => []NostrPassedStored
<1>1. NostrInv => NostrPassedStored
  BY DEF NostrInv, NostrPassedStored, NostrPassed, PassedBefore, PassedUpTo, Passed
<1>2. ~(InOrder /\ Cardinality(Events) <= PullLimit) => NostrPassedStored
  BY DEF NostrPassedStored
<1>3. CASE InOrder /\ Cardinality(Events) <= PullLimit
  BY <1>1, <1>3, NostrCorrect, PTL
<1>4. CASE ~(InOrder /\ Cardinality(Events) <= PullLimit)
  BY <1>2, <1>4, PTL
<1>. QED
  BY <1>3, <1>4
=============================================================================
