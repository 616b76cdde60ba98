-------------------------- MODULE Directory_proofs --------------------------
(***************************************************************************)
(* Proofs about Directory, for any peers, commands, relays and keys,       *)
(* whatever the sites and the cards of the peers say, and for any lengths  *)
(* of freshness.  What a row says may have come through several copies, so *)
(* that each invariant speaks of the rows and of what commands carry.      *)
(***************************************************************************)
EXTENDS Directory, Least_proofs, TLAPS

-----------------------------------------------------------------------------
(* The first of a set of urls. *)

\* First is one of the urls, and None only if there is none.
LEMMA FirstIsOne ==
    ASSUME NEW urls, urls \subseteq Nat
    PROVE  /\ First(urls) \in urls \cup {None}
           /\ First(urls) = None <=> urls = {}
<1>1. CASE urls = {}
  BY <1>1 DEF First
<1>2. CASE urls # {}
  <2>1. \E least \in urls : \A other \in urls : least <= other
    BY <1>2, LeastExists
  <2>2. Min(urls) \in urls
    BY <2>1 DEF Min
  <2> QED
    BY <1>2, <2>2, DirectoryAssumption DEF First
<1> QED
  BY <1>1, <1>2

-----------------------------------------------------------------------------
(* Types. *)

\* The histories, and the times commands carry, which lie in the past.
HistoryOK ==
    /\ inspected \in [Peers -> SUBSET Times]
    /\ lastPage \in [Peers -> Pages \cup {None}]

TimesPassed ==
    \A p \in Commands :
        command[p].kind \in {"import", "refresh", "lookup"} => command[p].at <= clock

Types == TypeOK /\ HistoryOK /\ TimesPassed

\* What kind of record a command is.
LEMMA CommandKinds ==
    ASSUME TypeOK, NEW p \in Commands
    PROVE  /\ command[p] \in {Idle} \cup Inspections \cup Lookups \cup Connects
           /\ command[p] \in Inspections <=> command[p].kind \in {"import", "refresh"}
           /\ command[p] \in Lookups <=> command[p].kind = "lookup"
           /\ command[p] \in Connects <=> command[p].kind = "connect"
           /\ command[p] = Idle <=> command[p].kind = "idle"
<1>1. command[p] \in {Idle} \cup Inspections \cup Lookups \cup Connects
  BY DEF TypeOK
<1>2. CASE command[p] = Idle
  BY <1>2 DEF Idle, Inspections, Lookups, Connects
<1>3. CASE command[p] \in Inspections
  BY <1>3 DEF Idle, Inspections, Lookups, Connects
<1>4. CASE command[p] \in Lookups
  BY <1>4 DEF Idle, Inspections, Lookups, Connects
<1>5. CASE command[p] \in Connects
  BY <1>5 DEF Idle, Inspections, Lookups, Connects
<1> QED
  BY <1>1, <1>2, <1>3, <1>4, <1>5

\* The relays a peer may be reached by are relays.
LEMMA ReachTypes ==
    ASSUME TypeOK, NEW c \in Peers
    PROVE  /\ Hints(c) \subseteq Relays
           /\ ManualRelay(c) \in Relays \cup {None}
           /\ BoxesOf(c) \subseteq Relays
           /\ EffectiveRelay(c) \in Relays \cup {None}
           /\ First(Hints(c)) \in Relays \cup {None}
<1>1. records[c] \in Record \cup {None} /\ contacts[c] \in Contact \cup {None}
  BY DEF TypeOK
<1>2. Hints(c) \subseteq Relays
  BY <1>1 DEF Hints, Record
<1>3. ManualRelay(c) \in Relays \cup {None}
  BY <1>1 DEF ManualRelay, Known, Contact
<1>4. First(Hints(c)) \in Hints(c) \cup {None}
  BY <1>2, FirstIsOne, DirectoryAssumption
<1> QED
  BY <1>2, <1>3, <1>4 DEF BoxesOf, EffectiveRelay

LEMMA InitTypes == Init => Types
BY DirectoryAssumption DEF Init, Types, TypeOK, HistoryOK, TimesPassed, Times, Idle

\* A process takes another command, and what that carries has the right type.
LEMMA CommandTypes ==
    ASSUME Types, NEW p \in Commands, NEW new \in {Idle} \cup Inspections \cup Lookups \cup Connects,
           command' = [command EXCEPT ![p] = new],
           new.kind \in {"import", "refresh", "lookup"} => new.at <= clock,
           UNCHANGED clock
    PROVE  /\ command' \in [Commands -> {Idle} \cup Inspections \cup Lookups \cup Connects]
           /\ TimesPassed'
BY DEF Types, TypeOK, TimesPassed

\* What is read of a contact that is connected to.
LEMMA PresenceTypes ==
    ASSUME TypeOK, NEW c \in Peers
    PROVE  /\ PresenceOf(c) \in Record
           /\ records[c] # None => Reachable(records[c]) \in Record
<1>1. clock \in Times /\ clock + Short \in Times
  BY DirectoryAssumption DEF TypeOK, Times
<1>2. HasRoute(c) \in BOOLEAN
  BY DEF HasRoute
<1>3. PresenceOf(c) \in Record
  BY <1>1, <1>2, ReachTypes DEF PresenceOf, Record
<1>4. ASSUME NEW record \in Record
      PROVE  Reachable(record) \in Record
  BY DEF Reachable, Record
<1> QED
  BY <1>3, <1>4 DEF TypeOK

LEMMA BeginTypes ==
    ASSUME Types, NEW p \in Commands, NEW c \in Peers, Begin(p, c)
    PROVE  Types'
<1>1. ASSUME Start(p)
      PROVE  begun' \in 0 .. MaxCommands
  BY <1>1, DirectoryAssumption DEF Start, Types, TypeOK
<1>2. clock \in Times
  BY DirectoryAssumption DEF Types, TypeOK, Times
<1>3. /\ clock' = clock
      /\ UNCHANGED <<contacts, records, bindings, relays, inspected, lastPage>>
      /\ Start(p)
  BY DEF Begin, BeginInspect, ConnectContact, ConnectDiscovered, LookUp
<1>4. \E new \in Inspections \cup Lookups \cup Connects :
        /\ command' = [command EXCEPT ![p] = new]
        /\ new.kind \in {"import", "refresh", "lookup"} => new.at <= clock
  <2>1. CASE BeginInspect(p, c)
    <3>1. PICK kind \in {"import", "refresh"}, page \in PagesOf[c] :
             command' = [command EXCEPT ![p] = [kind |-> kind, peer |-> c, at |-> clock, page |-> page]]
      BY <2>1 DEF BeginInspect
    <3> DEFINE new == [kind |-> kind, peer |-> c, at |-> clock, page |-> page]
    <3>2. new \in Inspections /\ new.at <= clock
      BY <1>2, DirectoryAssumption DEF Inspections, Times
    <3> HIDE DEF new
    <3> QED
      BY <3>1, <3>2 DEF new
  <2>2. CASE ConnectContact(p, c)
    <3> DEFINE new == [kind |-> "connect", peer |-> c, presence |-> PresenceOf(c),
                       relay |-> EffectiveRelay(c)]
    <3>1. command' = [command EXCEPT ![p] = new]
      BY <2>2 DEF ConnectContact
    <3>2. new \in Connects /\ new.kind = "connect"
      BY PresenceTypes, ReachTypes DEF Connects, Types
    <3> HIDE DEF new
    <3> QED
      BY <3>1, <3>2
  <2>3. CASE ConnectDiscovered(p, c)
    <3> DEFINE new == [kind |-> "connect", peer |-> c, presence |-> Reachable(records[c]),
                       relay |-> First(Hints(c))]
    <3>1. command' = [command EXCEPT ![p] = new] /\ records[c] # None
      BY <2>3 DEF ConnectDiscovered
    <3>2. new \in Connects /\ new.kind = "connect"
      BY <3>1, PresenceTypes, ReachTypes DEF Connects, Types
    <3> HIDE DEF new
    <3> QED
      BY <3>1, <3>2
  <2>4. CASE LookUp(p, c)
    <3> DEFINE new == [kind |-> "lookup", peer |-> c, at |-> clock, found |-> Reachable(records[c])]
    <3>1. command' = [command EXCEPT ![p] = new] /\ records[c] # None
      BY <2>4 DEF LookUp
    <3>2. new \in Lookups /\ new.at <= clock
      BY <1>2, <3>1, PresenceTypes, DirectoryAssumption DEF Lookups, Types, Times
    <3> HIDE DEF new
    <3> QED
      BY <3>1, <3>2
  <2> QED
    BY <2>1, <2>2, <2>3, <2>4 DEF Begin
<1> QED
  BY <1>1, <1>3, <1>4, CommandTypes DEF Types, TypeOK, HistoryOK

LEMMA CommitInspectTypes ==
    ASSUME Types, NEW p \in Commands, CommitInspect(p)
    PROVE  Types'
<1> DEFINE now == command[p]
           c == now.peer
           page == now.page
<1>1. now \in Inspections
  BY CommandKinds DEF CommitInspect, Types
<1>2. /\ c \in Peers /\ page \in Pages /\ now.at \in Times /\ now.kind \in {"import", "refresh"}
      /\ page.box \in Relays \cup {None} /\ page.nostr \subseteq NostrRelays
      /\ page.key \in Keys \cup {None}
  BY <1>1 DEF Inspections, Pages
<1>3. now.at + Day \in Times
  BY <1>2, DirectoryAssumption DEF CommitInspect, Types, TypeOK, TimesPassed, Times
<1>4. contacts' \in [Peers -> Contact \cup {None}]
  BY <1>2 DEF CommitInspect, Types, TypeOK, Newcomer, Contact
<1>5. records' \in [Peers -> Record \cup {None}]
  BY <1>2, <1>3 DEF CommitInspect, Types, TypeOK, Record
<1>6. bindings' \in [Peers -> [NostrRelays -> Keys \cup {None}]]
  <2>1. CASE bindings' = bindings
    BY <2>1 DEF Types, TypeOK
  <2>2. CASE Bind(c, page)
    BY <2>2, <1>2 DEF Types, TypeOK, Bind
  <2> QED
    BY <2>1, <2>2 DEF CommitInspect
<1>7. relays' \subseteq NostrRelays
  BY <1>2 DEF CommitInspect, Types, TypeOK
<1>8. HistoryOK'
  BY <1>2 DEF CommitInspect, Types, TypeOK, HistoryOK
<1>9. clock' = clock /\ begun' = begun /\ command' = [command EXCEPT ![p] = Idle]
  BY DEF CommitInspect
<1>10. /\ command' \in [Commands -> {Idle} \cup Inspections \cup Lookups \cup Connects]
       /\ TimesPassed'
  BY <1>9, CommandTypes DEF Idle
<1> QED
  BY <1>4, <1>5, <1>6, <1>7, <1>8, <1>9, <1>10 DEF Types, TypeOK

LEMMA RefreshTypes ==
    ASSUME Types, NEW p \in Commands, Refresh(p)
    PROVE  Types'
<1> DEFINE now == command[p]
           refreshed == [now.found EXCEPT !.resolved = now.at, !.source = "refresh",
                                          !.fresh = IF @ < now.at THEN now.at + Short ELSE @]
           new == [kind |-> "connect", peer |-> now.peer, presence |-> refreshed,
                   relay |-> First(refreshed.hints)]
<1>1. now \in Lookups /\ now.at <= clock
  BY CommandKinds DEF Refresh, Types, TimesPassed
<1>2. now.peer \in Peers /\ now.at \in Times /\ now.found \in Record
  BY <1>1 DEF Lookups
<1>3. now.at + Short \in Times
  BY <1>1, <1>2, DirectoryAssumption DEF Types, TypeOK, Times
<1>4. refreshed \in Record
  BY <1>2, <1>3 DEF Record
<1>5. refreshed.hints \subseteq Nat /\ refreshed.hints \subseteq Relays
  BY <1>4, DirectoryAssumption DEF Record
<1>6. First(refreshed.hints) \in Relays \cup {None}
  BY <1>5, FirstIsOne
<1>7. records' = [records EXCEPT ![now.peer] = refreshed] /\ command' = [command EXCEPT ![p] = new]
  BY DEF Refresh
<1> HIDE DEF refreshed
<1>8. new \in Connects
  BY <1>2, <1>4, <1>6 DEF Connects
<1>9. UNCHANGED <<clock, contacts, bindings, relays, begun, inspected, lastPage>>
  BY DEF Refresh
<1>10. /\ command' \in [Commands -> {Idle} \cup Inspections \cup Lookups \cup Connects]
       /\ TimesPassed'
  BY <1>7, <1>8, <1>9, CommandTypes
<1> QED
  BY <1>2, <1>4, <1>7, <1>9, <1>10 DEF Types, TypeOK, HistoryOK

LEMMA PromoteTypes ==
    ASSUME Types, NEW p \in Commands, Promote(p)
    PROVE  Types'
<1> DEFINE now == command[p]
<1>1. now \in Connects
  BY CommandKinds DEF Promote, Types
<1>2. now.peer \in Peers /\ now.presence \in Record /\ now.relay \in Relays \cup {None}
  BY <1>1 DEF Connects
<1>3. Promoted(contacts[now.peer], now.relay, now.presence.hints) \in Contact
  BY <1>2 DEF Promoted, Newcomer, Contact, Types, TypeOK
<1>4. /\ contacts' = [contacts EXCEPT ![now.peer] =
                         Promoted(contacts[now.peer], now.relay, now.presence.hints)]
      /\ records' = [records EXCEPT ![now.peer] = now.presence]
      /\ command' = [command EXCEPT ![p] = Idle]
      /\ UNCHANGED <<clock, bindings, relays, begun, inspected, lastPage>>
  BY DEF Promote
<1>5. /\ command' \in [Commands -> {Idle} \cup Inspections \cup Lookups \cup Connects]
      /\ TimesPassed'
  BY <1>4, CommandTypes DEF Idle
<1> QED
  BY <1>2, <1>3, <1>4, <1>5 DEF Types, TypeOK, HistoryOK

LEMMA AtOnceTypes ==
    ASSUME Types, NEW c \in Peers, AtOnce(c)
    PROVE  Types'
<1>1. contacts' \in [Peers -> Contact \cup {None}]
  <2>1. CASE ImportCard(c)
    BY <2>1, DirectoryAssumption DEF ImportCard, Types, TypeOK, Contact
  <2>2. CASE MessageArrives(c)
    BY <2>2 DEF MessageArrives, Newcomer, Types, TypeOK, Contact
  <2>3. CASE Remove(c)
    BY <2>3 DEF Remove, Types, TypeOK
  <2> QED
    BY <2>1, <2>2, <2>3 DEF AtOnce
<1>2. UNCHANGED <<clock, records, bindings, relays, command, begun, inspected, lastPage>>
  BY DEF AtOnce, ImportCard, MessageArrives, Remove
<1> QED
  BY <1>1, <1>2 DEF Types, TypeOK, HistoryOK, TimesPassed

LEMMA StepTypes == Types /\ [Next]_vars => Types'
<1> SUFFICES ASSUME Types, [Next]_vars
             PROVE  Types'
  OBVIOUS
<1>1. CASE Tick
  <2>1. clock \in Nat /\ clock' = clock + 1 /\ clock' \in 0 .. MaxClock
    BY <1>1, DirectoryAssumption DEF Tick, Types, TypeOK
  <2>2. UNCHANGED <<contacts, records, bindings, relays, command, begun, inspected, lastPage>>
    BY <1>1 DEF Tick
  <2>3. ASSUME NEW p \in Commands, command[p].kind \in {"import", "refresh", "lookup"}
        PROVE  command[p].at <= clock'
    <3>1. command[p].at \in Times /\ command[p].at <= clock
      BY <2>3, CommandKinds DEF Types, TimesPassed, Inspections, Lookups
    <3> QED
      BY <2>1, <3>1, DirectoryAssumption DEF Times
  <2> QED
    BY <2>1, <2>2, <2>3 DEF Types, TypeOK, HistoryOK, TimesPassed
<1>2. ASSUME NEW c \in Peers, AtOnce(c)
      PROVE  Types'
  BY <1>2, AtOnceTypes
<1>3. ASSUME NEW p \in Commands, Continue(p)
      PROVE  Types'
  <2>1. CASE Fail(p)
    <3>1. command' = [command EXCEPT ![p] = Idle]
          /\ UNCHANGED <<clock, contacts, records, bindings, relays, begun, inspected, lastPage>>
      BY <2>1 DEF Fail
    <3>2. /\ command' \in [Commands -> {Idle} \cup Inspections \cup Lookups \cup Connects]
          /\ TimesPassed'
      BY <3>1, CommandTypes DEF Idle
    <3> QED
      BY <3>1, <3>2 DEF Types, TypeOK, HistoryOK
  <2> QED
    BY <1>3, <2>1, CommitInspectTypes, RefreshTypes, PromoteTypes DEF Continue
<1>4. CASE UNCHANGED vars
  BY <1>4 DEF vars, Types, TypeOK, HistoryOK, TimesPassed
<1> QED
  BY <1>1, <1>2, <1>3, <1>4, BeginTypes DEF Next

LEMMA TypesStay == Spec => []Types
BY InitTypes, StepTypes, PTL DEF Spec

\* Every variable keeps its type: a row that is copied from one table to
\* another by several commands is always one the table can hold.
THEOREM TypeCorrect == Spec => []TypeOK
<1>1. Types => TypeOK
  BY DEF Types
<1> QED
  BY <1>1, TypesStay, PTL
-----------------------------------------------------------------------------
(* Bindings. *)

LEMMA StepBindings == Types /\ BindingsWhole /\ [Next]_vars => BindingsWhole'
<1> SUFFICES ASSUME Types, BindingsWhole, [Next]_vars
             PROVE  BindingsWhole'
  OBVIOUS
<1>1. CASE \E p \in Commands : CommitInspect(p)
  <2>1. PICK p \in Commands : CommitInspect(p)
    BY <1>1
  <2>2. CASE UNCHANGED <<bindings, lastPage>>
    BY <2>2 DEF BindingsWhole
  <2>3. CASE /\ Bind(command[p].peer, command[p].page)
             /\ lastPage' = [lastPage EXCEPT ![command[p].peer] = command[p].page]
    <3>1. command[p] \in Inspections
      BY <2>1, CommandKinds DEF CommitInspect, Types
    <3>2. command[p].peer \in Peers /\ command[p].page \in Pages
      BY <3>1 DEF Inspections
    <3>3. command[p].page # None
      BY <3>2, RowsAssumption
    <3> DEFINE c == command[p].peer
               page == command[p].page
    <3>4. /\ \A d \in Peers \ {c} : bindings'[d] = bindings[d] /\ lastPage'[d] = lastPage[d]
          /\ bindings'[c] = [n \in NostrRelays |-> IF n \in page.nostr THEN page.key ELSE None]
          /\ lastPage'[c] = page
      BY <2>3, <3>2 DEF Bind, Types, TypeOK, HistoryOK
    <3> HIDE DEF c, page
    <3>5. ASSUME NEW d \in Peers
          PROVE  bindings'[d] = [n \in NostrRelays |->
                                    IF lastPage'[d] # None /\ n \in lastPage'[d].nostr
                                    THEN lastPage'[d].key ELSE None]
      <4>1. CASE d = c
        BY <3>3, <3>4, <4>1 DEF page
      <4>2. CASE d # c
        BY <3>4, <4>2 DEF BindingsWhole
      <4> QED
        BY <4>1, <4>2
    <3> QED
      BY <3>5 DEF BindingsWhole
  <2> QED
    BY <2>1, <2>2, <2>3 DEF CommitInspect
<1>2. CASE UNCHANGED <<bindings, lastPage>>
  BY <1>2 DEF BindingsWhole
<1>3. \/ UNCHANGED <<bindings, lastPage>>
      \/ \E p \in Commands : CommitInspect(p)
  BY DEF Next, vars, Tick, AtOnce, ImportCard, MessageArrives, Remove, Begin, BeginInspect,
         ConnectContact, ConnectDiscovered, LookUp, Continue, Refresh, Promote, Fail
<1> QED
  BY <1>1, <1>2, <1>3

\* However inspections of a peer overlap, its bindings are those of the page
\* that was committed last among those with a sign of Nostr.
THEOREM BindingsOfOnePage == Spec => []BindingsWhole
<1>1. Init => BindingsWhole
  BY DEF Init, BindingsWhole
<1> QED
  BY <1>1, StepBindings, TypesStay, PTL DEF Spec

-----------------------------------------------------------------------------
(* Freshness. *)

\* The end of freshness of a row of the peer, as FreshEarned has it, wherever
\* the row is: in the table, or in a command that will write it.
Earned(c, fresh) == fresh > clock + Short => \E at \in inspected[c] : fresh = at + Day

\* The same after a step.
EarnedThen(c, fresh) == fresh > clock' + Short => \E at \in inspected'[c] : fresh = at + Day

FreshInv ==
    /\ \A c \in Listable : Earned(c, records[c].fresh)
    /\ \A p \in Commands : command[p].kind = "lookup" => Earned(command[p].peer, command[p].found.fresh)
    /\ \A p \in Commands : command[p].kind = "connect" => Earned(command[p].peer, command[p].presence.fresh)

\* What is to be shown of a step.
LEMMA FreshThen ==
    ASSUME \A c \in Peers : records'[c] # None => EarnedThen(c, records'[c].fresh),
           \A p \in Commands : command'[p].kind = "lookup" =>
               EarnedThen(command'[p].peer, command'[p].found.fresh),
           \A p \in Commands : command'[p].kind = "connect" =>
               EarnedThen(command'[p].peer, command'[p].presence.fresh)
    PROVE  FreshInv'
BY DEF FreshInv, Listable, Earned, EarnedThen

\* Time and further inspections take nothing away.
LEMMA EarnedStays ==
    ASSUME Types, NEW c \in Peers, NEW fresh \in Times, Earned(c, fresh),
           clock' \in {clock, clock + 1}, inspected[c] \subseteq inspected'[c]
    PROVE  EarnedThen(c, fresh)
<1>1. /\ clock \in Int /\ clock' \in Int /\ Short \in Int /\ fresh \in Int
      /\ clock <= clock'
  BY DirectoryAssumption DEF Types, TypeOK, Times
<1>2. \A now, then, end \in Int : now <= then /\ end > then + Short => end > now + Short
  BY DirectoryAssumption
<1> QED
  BY <1>1, <1>2 DEF Earned, EarnedThen

\* A process takes a command that carries a row, and the tables stay.
LEMMA CarriedFresh ==
    ASSUME Types, FreshInv, NEW p \in Commands, NEW new,
           command' = [command EXCEPT ![p] = new],
           new.kind = "lookup" => Earned(new.peer, new.found.fresh),
           new.kind = "connect" => Earned(new.peer, new.presence.fresh),
           UNCHANGED <<clock, inspected>>
    PROVE  /\ \A q \in Commands : command'[q].kind = "lookup" =>
                 EarnedThen(command'[q].peer, command'[q].found.fresh)
           /\ \A q \in Commands : command'[q].kind = "connect" =>
                 EarnedThen(command'[q].peer, command'[q].presence.fresh)
<1>1. \A q \in Commands : command'[q] = IF q = p THEN new ELSE command[q]
  BY DEF Types, TypeOK
<1> QED
  BY <1>1 DEF FreshInv, Earned, EarnedThen

LEMMA BeginFresh ==
    ASSUME Types, FreshInv, NEW p \in Commands, NEW c \in Peers, Begin(p, c)
    PROVE  FreshInv'
<1>1. UNCHANGED <<clock, records, inspected>>
  BY DEF Begin, BeginInspect, ConnectContact, ConnectDiscovered, LookUp
<1>2. \A d \in Peers : records'[d] # None => EarnedThen(d, records'[d].fresh)
  BY <1>1 DEF FreshInv, Listable, Earned, EarnedThen
<1>3. \E new :
        /\ command' = [command EXCEPT ![p] = new]
        /\ new.kind = "lookup" => Earned(new.peer, new.found.fresh)
        /\ new.kind = "connect" => Earned(new.peer, new.presence.fresh)
  <2>1. CASE BeginInspect(p, c)
    <3>1. PICK kind \in {"import", "refresh"}, page \in PagesOf[c] :
             command' = [command EXCEPT ![p] = [kind |-> kind, peer |-> c, at |-> clock, page |-> page]]
      BY <2>1 DEF BeginInspect
    <3> DEFINE new == [kind |-> kind, peer |-> c, at |-> clock, page |-> page]
    <3>2. new.kind \notin {"lookup", "connect"}
      OBVIOUS
    <3> HIDE DEF new
    <3> QED
      BY <3>1, <3>2 DEF new
  <2>2. CASE ConnectContact(p, c)
    <3> DEFINE new == [kind |-> "connect", peer |-> c, presence |-> PresenceOf(c),
                       relay |-> EffectiveRelay(c)]
    <3>1. command' = [command EXCEPT ![p] = new]
      BY <2>2 DEF ConnectContact
    <3>2. PresenceOf(c).fresh = clock + Short /\ clock + Short \in Nat
      BY DirectoryAssumption DEF PresenceOf, Types, TypeOK
    <3>3. Earned(c, PresenceOf(c).fresh)
      BY <3>2 DEF Earned, EarnedThen
    <3>4. new.kind = "connect" /\ Earned(new.peer, new.presence.fresh)
      BY <3>3
    <3> HIDE DEF new
    <3> QED
      BY <3>1, <3>4
  <2>3. CASE ConnectDiscovered(p, c)
    <3> DEFINE new == [kind |-> "connect", peer |-> c, presence |-> Reachable(records[c]),
                       relay |-> First(Hints(c))]
    <3>1. command' = [command EXCEPT ![p] = new] /\ records[c] # None
      BY <2>3 DEF ConnectDiscovered
    <3>2. Reachable(records[c]).fresh = records[c].fresh /\ c \in Listable
      BY <3>1 DEF Reachable, Listable, Types, TypeOK, Record
    <3>3. new.kind = "connect" /\ Earned(new.peer, new.presence.fresh)
      BY <3>2 DEF FreshInv
    <3> HIDE DEF new
    <3> QED
      BY <3>1, <3>3
  <2>4. CASE LookUp(p, c)
    <3> DEFINE new == [kind |-> "lookup", peer |-> c, at |-> clock, found |-> Reachable(records[c])]
    <3>1. command' = [command EXCEPT ![p] = new] /\ records[c] # None
      BY <2>4 DEF LookUp
    <3>2. Reachable(records[c]).fresh = records[c].fresh /\ c \in Listable
      BY <3>1 DEF Reachable, Listable, Types, TypeOK, Record
    <3>3. new.kind = "lookup" /\ Earned(new.peer, new.found.fresh)
      BY <3>2 DEF FreshInv
    <3> HIDE DEF new
    <3> QED
      BY <3>1, <3>3
  <2> QED
    BY <2>1, <2>2, <2>3, <2>4 DEF Begin
<1> QED
  BY <1>1, <1>2, <1>3, CarriedFresh, FreshThen

\* An inspection earns what it writes.
LEMMA CommitInspectFresh ==
    ASSUME Types, FreshInv, NEW p \in Commands, CommitInspect(p)
    PROVE  FreshInv'
<1> DEFINE c == command[p].peer
           at == command[p].at
<1>1. command[p] \in Inspections
  BY CommandKinds DEF CommitInspect, Types
<1>2. c \in Peers
  BY <1>1 DEF Inspections
<1>3. /\ clock' = clock
      /\ inspected' = [inspected EXCEPT ![c] = @ \cup {at}]
      /\ \A d \in Peers : d # c => records'[d] = records[d]
      /\ records'[c].fresh = at + Day
      /\ command' = [command EXCEPT ![p] = Idle]
  BY <1>2 DEF CommitInspect, Types, TypeOK
<1>4. \A d \in Peers : inspected[d] \subseteq inspected'[d] /\ at \in inspected'[c]
  BY <1>2, <1>3 DEF Types, HistoryOK
<1>5. \A d \in Peers : records'[d] # None => EarnedThen(d, records'[d].fresh)
  BY <1>3, <1>4 DEF FreshInv, Listable, Earned, EarnedThen
<1>6. \A q \in Commands : q # p => command'[q] = command[q]
  BY <1>3 DEF Types, TypeOK
<1>7. command'[p] = Idle
  BY <1>3 DEF Types, TypeOK
<1>8. \A q \in Commands : command'[q].kind = "lookup" =>
         EarnedThen(command'[q].peer, command'[q].found.fresh)
  <2> SUFFICES ASSUME NEW q \in Commands, command'[q].kind = "lookup"
               PROVE  EarnedThen(command'[q].peer, command'[q].found.fresh)
    OBVIOUS
  <2>1. q # p /\ command[q].kind = "lookup" /\ command'[q] = command[q]
    BY <1>6, <1>7 DEF Idle
  <2>2. command[q].peer \in Peers
    BY <2>1, CommandKinds DEF Types, Lookups
  <2> QED
    BY <1>3, <1>4, <2>1, <2>2 DEF FreshInv, Earned, EarnedThen
<1>9. \A q \in Commands : command'[q].kind = "connect" =>
         EarnedThen(command'[q].peer, command'[q].presence.fresh)
  <2> SUFFICES ASSUME NEW q \in Commands, command'[q].kind = "connect"
               PROVE  EarnedThen(command'[q].peer, command'[q].presence.fresh)
    OBVIOUS
  <2>1. q # p /\ command[q].kind = "connect" /\ command'[q] = command[q]
    BY <1>6, <1>7 DEF Idle
  <2>2. command[q].peer \in Peers
    BY <2>1, CommandKinds DEF Types, Connects
  <2> QED
    BY <1>3, <1>4, <2>1, <2>2 DEF FreshInv, Earned, EarnedThen
<1> QED
  BY <1>5, <1>8, <1>9, FreshThen

\* A row that is refreshed stays fresh for as long as it was, or for the short
\* time of a connection.
LEMMA RefreshFresh ==
    ASSUME Types, FreshInv, NEW p \in Commands, Refresh(p)
    PROVE  FreshInv'
<1> DEFINE now == command[p]
           refreshed == [now.found EXCEPT !.resolved = now.at, !.source = "refresh",
                                          !.fresh = IF @ < now.at THEN now.at + Short ELSE @]
           new == [kind |-> "connect", peer |-> now.peer, presence |-> refreshed,
                   relay |-> First(refreshed.hints)]
<1>1. now \in Lookups /\ now.at <= clock
  BY CommandKinds DEF Refresh, Types, TimesPassed
<1>2. now.peer \in Peers /\ now.at \in Times /\ now.found \in Record /\ now.found.fresh \in Times
  BY <1>1 DEF Lookups, Record
<1>3. refreshed.fresh = IF now.found.fresh < now.at THEN now.at + Short ELSE now.found.fresh
  BY <1>2 DEF Record
<1>4. Earned(now.peer, now.found.fresh)
  BY DEF FreshInv, Refresh
<1>5. ~(now.at + Short > clock + Short)
  BY <1>1, <1>2, DirectoryAssumption DEF Types, TypeOK, Times
<1>6. Earned(now.peer, refreshed.fresh)
  BY <1>3, <1>4, <1>5 DEF Earned, EarnedThen
<1>7. /\ records' = [records EXCEPT ![now.peer] = refreshed]
      /\ command' = [command EXCEPT ![p] = new]
      /\ UNCHANGED <<clock, inspected>>
  BY DEF Refresh
<1>8. new.kind = "connect" /\ new.peer = now.peer /\ new.presence = refreshed
  OBVIOUS
<1> HIDE DEF refreshed, new
<1>9. \A d \in Peers : records'[d] # None => EarnedThen(d, records'[d].fresh)
  <2> SUFFICES ASSUME NEW d \in Peers, records'[d] # None
               PROVE  EarnedThen(d, records'[d].fresh)
    OBVIOUS
  <2>1. CASE d = now.peer
    BY <2>1, <1>6, <1>7 DEF Types, TypeOK, Earned, EarnedThen
  <2>2. CASE d # now.peer
    BY <2>2, <1>7 DEF Types, TypeOK, FreshInv, Listable, Earned, EarnedThen
  <2> QED
    BY <2>1, <2>2
<1> QED
  BY <1>6, <1>7, <1>8, <1>9, CarriedFresh, FreshThen

LEMMA PromoteFresh ==
    ASSUME Types, FreshInv, NEW p \in Commands, Promote(p)
    PROVE  FreshInv'
<1> DEFINE now == command[p]
<1>1. now \in Connects
  BY CommandKinds DEF Promote, Types
<1>2. now.peer \in Peers /\ Earned(now.peer, now.presence.fresh)
  BY <1>1 DEF Connects, FreshInv, Promote
<1>3. /\ records' = [records EXCEPT ![now.peer] = now.presence]
      /\ command' = [command EXCEPT ![p] = Idle]
      /\ UNCHANGED <<clock, inspected>>
  BY DEF Promote
<1>4. \A d \in Peers : records'[d] # None => EarnedThen(d, records'[d].fresh)
  <2> SUFFICES ASSUME NEW d \in Peers, records'[d] # None
               PROVE  EarnedThen(d, records'[d].fresh)
    OBVIOUS
  <2>1. CASE d = now.peer
    BY <2>1, <1>2, <1>3 DEF Types, TypeOK, Earned, EarnedThen
  <2>2. CASE d # now.peer
    BY <2>2, <1>3 DEF Types, TypeOK, FreshInv, Listable, Earned, EarnedThen
  <2> QED
    BY <2>1, <2>2
<1>5. Idle.kind \notin {"lookup", "connect"}
  BY DEF Idle
<1> QED
  BY <1>3, <1>4, <1>5, CarriedFresh, FreshThen

LEMMA StepFresh == Types /\ FreshInv /\ [Next]_vars => FreshInv'
<1> SUFFICES ASSUME Types, FreshInv, [Next]_vars
             PROVE  FreshInv'
  OBVIOUS
<1>1. CASE Tick
  <2>1. clock' = clock + 1 /\ UNCHANGED <<records, command, inspected>>
    BY <1>1 DEF Tick
  <2>2. \A d \in Peers : records'[d] # None => EarnedThen(d, records'[d].fresh)
    BY <2>1, EarnedStays DEF FreshInv, Listable, Types, TypeOK, Record
  <2>3. \A q \in Commands : command'[q].kind = "lookup" =>
           EarnedThen(command'[q].peer, command'[q].found.fresh)
    <3> SUFFICES ASSUME NEW q \in Commands, command[q].kind = "lookup"
                 PROVE  EarnedThen(command[q].peer, command[q].found.fresh)
      BY <2>1
    <3>1. command[q].peer \in Peers /\ command[q].found.fresh \in Times
      BY CommandKinds DEF Types, Lookups, Record
    <3> QED
      BY <2>1, <3>1, EarnedStays DEF FreshInv
  <2>4. \A q \in Commands : command'[q].kind = "connect" =>
           EarnedThen(command'[q].peer, command'[q].presence.fresh)
    <3> SUFFICES ASSUME NEW q \in Commands, command[q].kind = "connect"
                 PROVE  EarnedThen(command[q].peer, command[q].presence.fresh)
      BY <2>1
    <3>1. command[q].peer \in Peers /\ command[q].presence.fresh \in Times
      BY CommandKinds DEF Types, Connects, Record
    <3> QED
      BY <2>1, <3>1, EarnedStays DEF FreshInv
  <2> QED
    BY <2>2, <2>3, <2>4, FreshThen
<1>2. CASE UNCHANGED <<clock, records, command, inspected>>
  BY <1>2 DEF FreshInv, Listable, Earned, EarnedThen
<1>3. ASSUME NEW p \in Commands, Fail(p)
      PROVE  FreshInv'
  <2>1. command' = [command EXCEPT ![p] = Idle] /\ UNCHANGED <<clock, records, inspected>>
    BY <1>3 DEF Fail
  <2>2. \A d \in Peers : records'[d] # None => EarnedThen(d, records'[d].fresh)
    BY <2>1 DEF FreshInv, Listable, Earned, EarnedThen
  <2>3. Idle.kind \notin {"lookup", "connect"}
    BY DEF Idle
  <2> QED
    BY <2>1, <2>2, <2>3, CarriedFresh, FreshThen
<1>4. ASSUME NEW c \in Peers, AtOnce(c)
      PROVE  UNCHANGED <<clock, records, command, inspected>>
  BY <1>4 DEF AtOnce, ImportCard, MessageArrives, Remove
<1>5. ASSUME NEW p \in Commands, Continue(p)
      PROVE  FreshInv'
  BY <1>3, <1>5, CommitInspectFresh, RefreshFresh, PromoteFresh DEF Continue
<1> QED
  BY <1>1, <1>2, <1>4, <1>5, BeginFresh DEF Next, vars

\* Only reading a peer's site makes its row fresh for a day: no chain of
\* connections and refreshes, which copy the row, makes it so.
THEOREM FreshnessIsEarned == Spec => []FreshEarned
<1>1. Init => FreshInv
  BY DEF Init, FreshInv, Listable, Idle
<1>2. FreshInv => FreshEarned
  BY DEF FreshInv, FreshEarned, Earned
<1> QED
  BY <1>1, <1>2, StepFresh, TypesStay, PTL DEF Spec

-----------------------------------------------------------------------------
(* Whose facts are used. *)

\* What a peer has said of mailboxes and of keys.
OwnBoxes(c) == {page.box : page \in PagesOf[c]}

OwnKeys(c) == {page.key : page \in PagesOf[c]} \cup {card.key : card \in CardsOf[c]}

\* The rows of a peer, and what commands carry to them, are its own.
ContactsOwn ==
    \A c \in Peers : contacts[c] # None =>
        /\ contacts[c].relay \in OwnBoxes(c) \cup {None}
        /\ contacts[c].card \in CardsOf[c] \cup {None}

RecordsOwn == \A c \in Peers : Hints(c) \subseteq OwnBoxes(c)

BindingsOwn == \A c \in Peers, n \in NostrRelays : bindings[c][n] \in OwnKeys(c) \cup {None}

CarriesOwn(new) ==
    /\ new.kind \in {"import", "refresh"} => new.page \in PagesOf[new.peer]
    /\ new.kind = "lookup" => new.found.hints \subseteq OwnBoxes(new.peer)
    /\ new.kind = "connect" => /\ new.presence.hints \subseteq OwnBoxes(new.peer)
                               /\ new.relay \in OwnBoxes(new.peer) \cup {None}
                               /\ new.relay = None => new.presence.hints = {}

CommandsOwn == \A p \in Commands : CarriesOwn(command[p])

OwnInv == ContactsOwn /\ RecordsOwn /\ BindingsOwn /\ CommandsOwn

\* A process takes a command that carries a peer's own facts.
LEMMA CarriedOwn ==
    ASSUME Types, CommandsOwn, NEW p \in Commands, NEW new, CarriesOwn(new),
           command' = [command EXCEPT ![p] = new]
    PROVE  CommandsOwn'
<1>1. \A q \in Commands : command'[q] = IF q = p THEN new ELSE command[q]
  BY DEF Types, TypeOK
<1> QED
  BY <1>1 DEF CommandsOwn, CarriesOwn

\* A peer's routes are made of its rows.
LEMMA ReachOwn ==
    ASSUME Types, OwnInv, NEW c \in Peers
    PROVE  /\ BoxesOf(c) \subseteq OwnBoxes(c)
           /\ EffectiveRelay(c) \in BoxesOf(c) \cup {None}
           /\ EffectiveRelay(c) = None => BoxesOf(c) = {}
           /\ First(Hints(c)) \in Hints(c) \cup {None}
           /\ First(Hints(c)) = None => Hints(c) = {}
<1>1. Hints(c) \subseteq Nat /\ Hints(c) \subseteq OwnBoxes(c)
  BY ReachTypes, DirectoryAssumption DEF Types, OwnInv, RecordsOwn
<1>2. First(Hints(c)) \in Hints(c) \cup {None} /\ (First(Hints(c)) = None => Hints(c) = {})
  BY <1>1, FirstIsOne
<1>3. ManualRelay(c) \in OwnBoxes(c) \cup {None}
  BY DEF ManualRelay, Known, OwnInv, ContactsOwn
<1> QED
  BY <1>1, <1>2, <1>3 DEF BoxesOf, EffectiveRelay

LEMMA BeginOwn ==
    ASSUME Types, OwnInv, NEW p \in Commands, NEW c \in Peers, Begin(p, c)
    PROVE  OwnInv'
<1>1. UNCHANGED <<contacts, records, bindings>>
  BY DEF Begin, BeginInspect, ConnectContact, ConnectDiscovered, LookUp
<1>2. ContactsOwn' /\ RecordsOwn' /\ BindingsOwn'
  BY <1>1 DEF OwnInv, ContactsOwn, RecordsOwn, BindingsOwn, Hints
<1>3. \E new : command' = [command EXCEPT ![p] = new] /\ CarriesOwn(new)
  <2>1. CASE BeginInspect(p, c)
    <3>1. PICK kind \in {"import", "refresh"}, page \in PagesOf[c] :
             command' = [command EXCEPT ![p] = [kind |-> kind, peer |-> c, at |-> clock, page |-> page]]
      BY <2>1 DEF BeginInspect
    <3> DEFINE new == [kind |-> kind, peer |-> c, at |-> clock, page |-> page]
    <3>2. CarriesOwn(new)
      BY DEF CarriesOwn
    <3> QED
      BY <3>1, <3>2
  <2>2. CASE ConnectContact(p, c)
    <3> DEFINE new == [kind |-> "connect", peer |-> c, presence |-> PresenceOf(c),
                       relay |-> EffectiveRelay(c)]
    <3>1. PresenceOf(c).hints = BoxesOf(c)
      BY DEF PresenceOf
    <3>2. CarriesOwn(new)
      BY <3>1, ReachOwn DEF CarriesOwn
    <3> QED
      BY <2>2, <3>2 DEF ConnectContact
  <2>3. CASE ConnectDiscovered(p, c)
    <3> DEFINE new == [kind |-> "connect", peer |-> c, presence |-> Reachable(records[c]),
                       relay |-> First(Hints(c))]
    <3>1. command' = [command EXCEPT ![p] = new] /\ records[c] # None
      BY <2>3 DEF ConnectDiscovered
    <3>2. Reachable(records[c]).hints = Hints(c)
      BY <3>1 DEF Reachable, Hints, Types, TypeOK, Record
    <3>3. CarriesOwn(new)
      BY <3>2, ReachOwn DEF CarriesOwn, OwnInv, RecordsOwn
    <3> QED
      BY <3>1, <3>3
  <2>4. CASE LookUp(p, c)
    <3> DEFINE new == [kind |-> "lookup", peer |-> c, at |-> clock, found |-> Reachable(records[c])]
    <3>1. command' = [command EXCEPT ![p] = new] /\ records[c] # None
      BY <2>4 DEF LookUp
    <3>2. Reachable(records[c]).hints = Hints(c)
      BY <3>1 DEF Reachable, Hints, Types, TypeOK, Record
    <3>3. CarriesOwn(new)
      BY <3>2 DEF CarriesOwn, OwnInv, RecordsOwn
    <3> QED
      BY <3>1, <3>3
  <2> QED
    BY <2>1, <2>2, <2>3, <2>4 DEF Begin
<1> QED
  BY <1>2, <1>3, CarriedOwn DEF OwnInv

LEMMA CommitInspectOwn ==
    ASSUME Types, OwnInv, NEW p \in Commands, CommitInspect(p)
    PROVE  OwnInv'
<1> DEFINE now == command[p]
           c == now.peer
           page == now.page
<1>1. command[p] \in Inspections
  BY CommandKinds DEF CommitInspect, Types
<1>2. c \in Peers /\ page \in PagesOf[c]
  BY <1>1 DEF Inspections, CommitInspect, OwnInv, CommandsOwn, CarriesOwn
<1>3. ContactsOwn'
  BY <1>2 DEF CommitInspect, OwnInv, ContactsOwn, Newcomer, Types, TypeOK
<1>4. \A d \in Peers : Hints(d)' = IF d = c THEN {page.box} \ {None} ELSE Hints(d)
  <2>1. records'[c] # None
    <3>1. now.at + Day \in Times /\ now.at \in Times /\ now.kind \in {"import", "refresh"}
          /\ page.box \in Relays \cup {None}
      BY <1>1, <1>2, DirectoryAssumption
         DEF CommitInspect, Inspections, Pages, Types, TypeOK, TimesPassed, Times
    <3>2. records'[c] \in Record
      BY <1>2, <3>1 DEF CommitInspect, Record, Types, TypeOK
    <3> QED
      BY <3>2, RowsAssumption
  <2>2. records'[c].hints = {page.box} \ {None} /\ \A d \in Peers \ {c} : records'[d] = records[d]
    BY <1>2 DEF CommitInspect, Types, TypeOK
  <2> QED
    BY <2>1, <2>2 DEF Hints
<1>5. RecordsOwn'
  BY <1>2, <1>4 DEF OwnInv, RecordsOwn, OwnBoxes
<1>6. BindingsOwn'
  <2>1. CASE bindings' = bindings
    BY <2>1 DEF OwnInv, BindingsOwn
  <2>2. CASE Bind(c, page)
    <3>1. /\ \A d \in Peers \ {c} : bindings'[d] = bindings[d]
          /\ \A n \in NostrRelays : bindings'[c][n] \in {page.key, None}
      BY <1>2, <2>2 DEF Bind, Types, TypeOK
    <3>2. page.key \in OwnKeys(c)
      BY <1>2 DEF OwnKeys
    <3> QED
      BY <3>1, <3>2 DEF OwnInv, BindingsOwn
  <2> QED
    BY <2>1, <2>2 DEF CommitInspect
<1>7. command' = [command EXCEPT ![p] = Idle] /\ CarriesOwn(Idle)
  BY DEF CommitInspect, CarriesOwn, Idle
<1> QED
  BY <1>3, <1>5, <1>6, <1>7, CarriedOwn DEF OwnInv

LEMMA RefreshOwn ==
    ASSUME Types, OwnInv, NEW p \in Commands, Refresh(p)
    PROVE  OwnInv'
<1> DEFINE now == command[p]
           refreshed == [now.found EXCEPT !.resolved = now.at, !.source = "refresh",
                                          !.fresh = IF @ < now.at THEN now.at + Short ELSE @]
           new == [kind |-> "connect", peer |-> now.peer, presence |-> refreshed,
                   relay |-> First(refreshed.hints)]
<1>1. now \in Lookups
  BY CommandKinds DEF Refresh, Types
<1>2. now.peer \in Peers /\ now.found \in Record /\ now.found.hints \subseteq Relays
  BY <1>1 DEF Lookups, Record
<1>3. refreshed.hints = now.found.hints
  BY <1>2 DEF Record
<1>4. refreshed.hints \subseteq OwnBoxes(now.peer)
  BY <1>3 DEF OwnInv, CommandsOwn, CarriesOwn, Refresh
<1>5. /\ First(refreshed.hints) \in refreshed.hints \cup {None}
      /\ First(refreshed.hints) = None => refreshed.hints = {}
  BY <1>2, <1>3, FirstIsOne, DirectoryAssumption
<1>6. /\ records' = [records EXCEPT ![now.peer] = refreshed]
      /\ command' = [command EXCEPT ![p] = new]
      /\ UNCHANGED <<contacts, bindings>>
  BY DEF Refresh
<1> HIDE DEF refreshed
<1>7. CarriesOwn(new)
  BY <1>4, <1>5 DEF CarriesOwn
<1>8. \A d \in Peers : Hints(d)' \subseteq IF d = now.peer THEN refreshed.hints ELSE Hints(d)
  BY <1>2, <1>6 DEF Hints, Types, TypeOK
<1>9. RecordsOwn'
  BY <1>4, <1>8 DEF OwnInv, RecordsOwn, OwnBoxes
<1>10. ContactsOwn' /\ BindingsOwn'
  BY <1>6 DEF OwnInv, ContactsOwn, BindingsOwn
<1> QED
  BY <1>6, <1>7, <1>9, <1>10, CarriedOwn DEF OwnInv

LEMMA PromoteOwn ==
    ASSUME Types, OwnInv, NEW p \in Commands, Promote(p)
    PROVE  OwnInv'
<1> DEFINE now == command[p]
<1>1. now \in Connects
  BY CommandKinds DEF Promote, Types
<1>2. now.peer \in Peers /\ now.presence.hints \subseteq OwnBoxes(now.peer)
      /\ now.relay \in OwnBoxes(now.peer) \cup {None}
  BY <1>1 DEF Connects, OwnInv, CommandsOwn, CarriesOwn, Promote
<1>3. /\ contacts' = [contacts EXCEPT ![now.peer] =
                         Promoted(contacts[now.peer], now.relay, now.presence.hints)]
      /\ records' = [records EXCEPT ![now.peer] = now.presence]
      /\ command' = [command EXCEPT ![p] = Idle]
      /\ UNCHANGED bindings
  BY DEF Promote
<1>4. ContactsOwn'
  BY <1>2, <1>3 DEF OwnInv, ContactsOwn, Promoted, Newcomer, Types, TypeOK, Contact
<1>5. \A d \in Peers : Hints(d)' \subseteq IF d = now.peer THEN now.presence.hints ELSE Hints(d)
  BY <1>2, <1>3 DEF Hints, Types, TypeOK
<1>6. RecordsOwn' /\ BindingsOwn'
  BY <1>2, <1>3, <1>5 DEF OwnInv, RecordsOwn, BindingsOwn, OwnBoxes
<1>7. CarriesOwn(Idle)
  BY DEF CarriesOwn, Idle
<1> QED
  BY <1>3, <1>4, <1>6, <1>7, CarriedOwn DEF OwnInv

LEMMA StepOwn == Types /\ OwnInv /\ [Next]_vars => OwnInv'
<1> SUFFICES ASSUME Types, OwnInv, [Next]_vars
             PROVE  OwnInv'
  OBVIOUS
<1>1. ASSUME NEW c \in Peers, AtOnce(c)
      PROVE  OwnInv'
  <2>1. ContactsOwn'
    <3>1. CASE ImportCard(c)
      BY <3>1 DEF ImportCard, OwnInv, ContactsOwn, Types, TypeOK
    <3>2. CASE MessageArrives(c)
      BY <3>2 DEF MessageArrives, Newcomer, OwnInv, ContactsOwn, Types, TypeOK
    <3>3. CASE Remove(c)
      BY <3>3 DEF Remove, OwnInv, ContactsOwn, Types, TypeOK
    <3> QED
      BY <1>1, <3>1, <3>2, <3>3 DEF AtOnce
  <2>2. UNCHANGED <<records, bindings, command>>
    BY <1>1 DEF AtOnce, ImportCard, MessageArrives, Remove
  <2> QED
    BY <2>1, <2>2 DEF OwnInv, RecordsOwn, BindingsOwn, CommandsOwn, CarriesOwn, Hints
<1>2. ASSUME NEW p \in Commands, Fail(p)
      PROVE  OwnInv'
  <2>1. CarriesOwn(Idle)
    BY DEF CarriesOwn, Idle
  <2> QED
    BY <1>2, <2>1, CarriedOwn DEF Fail, OwnInv, ContactsOwn, RecordsOwn, BindingsOwn, Hints
<1>3. CASE UNCHANGED <<contacts, records, bindings, command>>
  BY <1>3 DEF OwnInv, ContactsOwn, RecordsOwn, BindingsOwn, CommandsOwn, CarriesOwn, Hints
<1>4. ASSUME NEW p \in Commands, Continue(p)
      PROVE  OwnInv'
  BY <1>2, <1>4, CommitInspectOwn, RefreshOwn, PromoteOwn DEF Continue
<1> QED
  BY <1>1, <1>3, <1>4, BeginOwn DEF Next, vars, Tick

LEMMA OwnStays == Spec => []OwnInv
<1>1. Init => OwnInv
  BY DEF Init, OwnInv, ContactsOwn, RecordsOwn, BindingsOwn, CommandsOwn, CarriesOwn, Hints, Idle
<1> QED
  BY <1>1, StepOwn, TypesStay, PTL DEF Spec

\* Whatever commands copy from one table to another: the mailboxes and keys a
\* peer's messages go to are among those the peer itself has stated.
THEOREM FactsAreOwn == Spec => []OwnFactsOnly
<1>1. Types /\ OwnInv => OwnFactsOnly
  <2> SUFFICES ASSUME Types, OwnInv, NEW c \in Peers
               PROVE  /\ BoxesOf(c) \subseteq OwnBoxes(c)
                      /\ KeysOf(c) \subseteq OwnKeys(c)
    BY DEF OwnFactsOnly, OwnBoxes, OwnKeys
  <2>1. BoxesOf(c) \subseteq OwnBoxes(c)
    BY ReachOwn
  <2>2. CardOf(c) # None => CardOf(c) \in CardsOf[c]
    BY DEF CardOf, Known, OwnInv, ContactsOwn
  <2>3. \A n \in BoundRelays(c) : bindings[c][n] \in OwnKeys(c)
    BY DEF BoundRelays, OwnInv, BindingsOwn
  <2> QED
    BY <2>1, <2>2, <2>3 DEF KeysOf, OwnKeys
<1> QED
  BY <1>1, OwnStays, TypesStay, PTL

-----------------------------------------------------------------------------
(* Connections. *)

\* A connection writes down the relay that is used and does not change which
\* one that is, although it fills the contact's relay, which goes first, and
\* replaces the hints, of which the first is taken.
THEOREM ConnectionsKeepRelay == Spec => ConnectKeepsRelay
<1>1. ASSUME Types, OwnInv, NEW p \in Commands, NEW c \in Peers,
             Promote(p), command[p].peer = c, command[p].relay = EffectiveRelay(c)
      PROVE  EffectiveRelay(c)' = EffectiveRelay(c)
  <2> DEFINE now == command[p]
             row == Promoted(contacts[c], now.relay, now.presence.hints)
  <2>1. now \in Connects
    BY <1>1, CommandKinds DEF Promote, Types
  <2>2. contacts'[c] = row /\ records'[c] = now.presence
    BY <1>1 DEF Promote, Types, TypeOK
  <2>3. row \in Contact /\ row # None
    <3>1. contacts[c] \in Contact \cup {None} /\ now.relay \in Relays \cup {None}
      BY <1>1, <2>1 DEF Connects, Types, TypeOK
    <3>2. row \in Contact
      BY <3>1 DEF Promoted, Newcomer, Contact
    <3> QED
      BY <3>2, RowsAssumption
  <2>4. ManualRelay(c)' = row.relay
    BY <2>2, <2>3 DEF ManualRelay, Known
  <2>5. row.relay = IF ManualRelay(c) # None THEN ManualRelay(c) ELSE now.relay
    BY <1>1 DEF Promoted, Newcomer, ManualRelay, Known, Contact, Types, TypeOK
  <2>6. CASE now.relay # None
    BY <1>1, <2>4, <2>5, <2>6 DEF EffectiveRelay
  <2>7. CASE now.relay = None
    <3>1. now.presence.hints = {}
      BY <1>1, <2>7 DEF OwnInv, CommandsOwn, CarriesOwn, Promote
    <3>2. now.presence # None
      BY <2>1, RowsAssumption DEF Connects
    <3>3. First(Hints(c))' = None
      BY <2>2, <3>1, <3>2 DEF Hints, First
    <3>4. ManualRelay(c) = None /\ ManualRelay(c)' = None
      BY <1>1, <2>4, <2>5, <2>7 DEF EffectiveRelay
    <3> QED
      BY <1>1, <2>7, <3>3, <3>4 DEF EffectiveRelay
  <2> QED
    BY <2>6, <2>7
<1>2. Types /\ OwnInv =>
        (\A p \in Commands :
           Promote(p) =>
             \A c \in {command[p].peer} :
               command[p].relay = EffectiveRelay(c) => EffectiveRelay(c)' = EffectiveRelay(c))
  <2> SUFFICES ASSUME Types, OwnInv, NEW p \in Commands, Promote(p),
                      command[p].relay = EffectiveRelay(command[p].peer)
               PROVE  \A c \in {command[p].peer} : EffectiveRelay(c)' = EffectiveRelay(c)
    OBVIOUS
  <2>1. command[p].peer \in Peers
    BY CommandKinds DEF Promote, Types, Connects
  <2> QED
    BY <1>1, <2>1
<1> QED
  BY <1>2, OwnStays, TypesStay, PTL DEF ConnectKeepsRelay
-----------------------------------------------------------------------------
(* What a list shows of a peer. *)

\* What an entry can be.
EntryRows ==
    [id : Peers, source : {"import", "refresh", "cache"}, reachable : BOOLEAN,
     freshness : {"fresh", "stale", "expired"}, trust : Trusts]

LEMMA EntryTypes ==
    ASSUME Types, NEW c \in Listable
    PROVE  Entry(c) \in EntryRows /\ Entry(c).id = c
<1>1. c \in Peers /\ records[c] \in Record
  BY DEF Listable, Types, TypeOK
<1>2. Freshness(clock, records[c].fresh, Day) \in {"fresh", "stale", "expired"}
  BY DEF Freshness
<1>3. TrustOf[c] \in Trusts
  BY <1>1, ListAssumption
<1> QED
  BY <1>1, <1>2, <1>3 DEF Entry, EntryRows, Record

\* What a flag weighs, and that one more never weighs less.
LEMMA WeightGrows ==
    ASSUME NEW risk \in SUBSET RiskFlags, NEW more \in SUBSET RiskFlags, risk \subseteq more,
           NEW flag \in RiskFlags
    PROVE  /\ Weight(flag, risk) \in Nat
           /\ Weight(flag, more) \in Nat
           /\ Weight(flag, risk) <= Weight(flag, more)
<1>1. Penalty[flag] \in Nat
  BY DEF RiskFlags, Penalty
<1> QED
  BY <1>1 DEF Weight

LEMMA PenaltyGrows ==
    ASSUME NEW risk \in SUBSET RiskFlags, NEW more \in SUBSET RiskFlags, risk \subseteq more
    PROVE  /\ PenaltyOf[risk] \in Nat
           /\ PenaltyOf[more] \in Nat
           /\ PenaltyOf[risk] <= PenaltyOf[more]
<1>1. RiskFlags = {"manual", "fixture", "unverified", "mismatch", "spoofing", "impostor",
                   "phishing", "suspended", "compromised", "other"}
  BY DEF RiskFlags, Penalty
<1>2. \A flag \in RiskFlags : /\ Weight(flag, risk) \in Nat
                              /\ Weight(flag, more) \in Nat
                              /\ Weight(flag, risk) <= Weight(flag, more)
  BY WeightGrows
<1> QED
  BY <1>1, <1>2 DEF PenaltyOf

\* The score is the sum of these.
LEMMA ScoreTypes ==
    ASSUME NEW e \in EntryRows
    PROVE  /\ Base[e.trust.level] \in Int
           /\ Adjustment(e.trust.state) \in Int
           /\ FreshnessAdjust[e.freshness] \in Int
           /\ PenaltyOf[e.trust.risk] \in Int
           /\ Score(e) \in Int
<1>1. /\ e.trust.level \in Levels /\ e.trust.risk \in SUBSET RiskFlags
      /\ e.freshness \in {"fresh", "stale", "expired"}
  BY DEF EntryRows, Trusts
<1>2. Base[e.trust.level] \in Int
  BY <1>1 DEF Base, Levels
<1>3. Adjustment(e.trust.state) \in Int
  BY DEF Adjustment, VerificationAdjust
<1>4. FreshnessAdjust[e.freshness] \in Int
  BY <1>1 DEF FreshnessAdjust
<1>5. PenaltyOf[e.trust.risk] \in Int
  BY <1>1, PenaltyGrows
<1> QED
  BY <1>2, <1>3, <1>4, <1>5 DEF Score

\* The confidence follows the score, and a mismatch caps it.
LEMMA ConfidenceFollows ==
    ASSUME NEW e \in EntryRows, NEW worse \in EntryRows,
           worse.trust.state = e.trust.state, Score(worse) <= Score(e)
    PROVE  /\ Confidence(e) \in Int
           /\ Confidence(worse) \in Int
           /\ Confidence(worse) <= Confidence(e)
           /\ e.trust.state = "mismatch" => Confidence(e) <= 35
<1>1. Score(e) \in Int /\ Score(worse) \in Int
  BY ScoreTypes
<1>2. /\ Clamp(Score(e)) \in Int /\ Clamp(Score(worse)) \in Int
      /\ Clamp(Score(worse)) <= Clamp(Score(e))
  BY <1>1 DEF Clamp
<1> QED
  BY <1>2 DEF Confidence

\* Whatever the trust table holds and however old a row is: a peer whose site
\* contradicts its identity is shown with low confidence, and risk flags, a lost
\* route or age never raise the confidence in anyone.
THEOREM WarningsCount == Spec => []WarningsLower
<1>1. Types => WarningsLower
  <2> SUFFICES ASSUME Types, NEW c \in Listable
               PROVE  LET e == Entry(c)
                          confidence == Confidence(e)
                      IN  /\ TrustOf[c].state = "mismatch" => ConfidenceLevel(confidence) = "low"
                          /\ Confidence([e EXCEPT !.trust.risk = @ \cup {"unverified"}]) <= confidence
                          /\ Confidence([e EXCEPT !.reachable = FALSE]) <= confidence
                          /\ Confidence([e EXCEPT !.freshness = "expired"]) <= confidence
    BY DEF WarningsLower
  <2> DEFINE e == Entry(c)
             flagged == [e EXCEPT !.trust.risk = @ \cup {"unverified"}]
             lost == [e EXCEPT !.reachable = FALSE]
             old == [e EXCEPT !.freshness = "expired"]
  <2>1. e \in EntryRows
    BY EntryTypes
  <2>2. e.trust = TrustOf[c]
    BY DEF Entry
  <2> HIDE DEF e
  <2>3. TrustOf[c].state = "mismatch" => ConfidenceLevel(Confidence(e)) = "low"
    <3>1. Score(e) \in Int
      BY <2>1, ScoreTypes
    <3>2. Confidence(e) \in Int /\ (e.trust.state = "mismatch" => Confidence(e) <= 35)
      BY <2>1, <3>1, ConfidenceFollows
    <3> QED
      BY <2>2, <3>2 DEF ConfidenceLevel
  <2>4. Confidence(flagged) <= Confidence(e)
    <3> DEFINE risk == e.trust.risk
    <3>1. "unverified" \in RiskFlags
      BY DEF RiskFlags, Penalty
    <3>2. /\ e.trust \in Trusts /\ risk \in SUBSET RiskFlags
      BY <2>1 DEF EntryRows, Trusts
    <3>3. /\ flagged \in EntryRows
          /\ flagged.trust.risk = risk \cup {"unverified"}
          /\ flagged.trust.state = e.trust.state /\ flagged.trust.level = e.trust.level
          /\ flagged.reachable = e.reachable /\ flagged.freshness = e.freshness
      BY <2>1, <3>1, <3>2 DEF EntryRows, Trusts
    <3>4. PenaltyOf[risk] <= PenaltyOf[risk \cup {"unverified"}]
      BY <3>1, <3>2, PenaltyGrows
    <3> HIDE DEF flagged
    <3>5. Score(flagged) <= Score(e)
      <4>1. /\ Base[e.trust.level] \in Int /\ Adjustment(e.trust.state) \in Int
            /\ FreshnessAdjust[e.freshness] \in Int
            /\ PenaltyOf[risk] \in Int /\ PenaltyOf[risk \cup {"unverified"}] \in Int
        BY <2>1, <3>3, ScoreTypes
      <4> QED
        BY <3>3, <3>4, <4>1 DEF Score
    <3> QED
      BY <2>1, <3>3, <3>5, ConfidenceFollows
  <2>5. Confidence(lost) <= Confidence(e)
    <3>1. /\ lost \in EntryRows /\ lost.trust = e.trust /\ lost.freshness = e.freshness
          /\ lost.reachable = FALSE
      BY <2>1 DEF EntryRows
    <3> HIDE DEF lost
    <3>2. Score(lost) <= Score(e)
      BY <2>1, <3>1, ScoreTypes DEF Score
    <3> QED
      BY <2>1, <3>1, <3>2, ConfidenceFollows
  <2>6. Confidence(old) <= Confidence(e)
    <3>1. /\ old \in EntryRows /\ old.trust = e.trust /\ old.reachable = e.reachable
          /\ old.freshness = "expired"
      BY <2>1 DEF EntryRows
    <3>2. FreshnessAdjust["expired"] <= FreshnessAdjust[e.freshness]
      BY <2>1 DEF EntryRows, FreshnessAdjust
    <3> HIDE DEF old
    <3>3. Score(old) <= Score(e)
      <4>1. /\ Base[e.trust.level] \in Int /\ Adjustment(e.trust.state) \in Int
            /\ FreshnessAdjust[e.freshness] \in Int /\ FreshnessAdjust[old.freshness] \in Int
            /\ PenaltyOf[e.trust.risk] \in Int
        BY <2>1, <3>1, ScoreTypes
      <4> QED
        BY <3>1, <3>2, <4>1 DEF Score
    <3> QED
      BY <2>1, <3>1, <3>3, ConfidenceFollows
  <2> QED
    BY <2>3, <2>4, <2>5, <2>6 DEF e
<1> QED
  BY <1>1, TypesStay, PTL

-----------------------------------------------------------------------------
(* The order of a list. *)

\* What is compared.
LEMMA StandingTypes ==
    ASSUME NEW e \in EntryRows
    PROVE  /\ FreshnessWeight[e.freshness] \in 1 .. 3
           /\ FreshnessWeight[e.freshness] = 3 <=> e.freshness = "fresh"
           /\ SourceRank[e.source] \in Nat
           /\ e.reachable \in BOOLEAN
           /\ Confidence(e) \in Int
           /\ e.id \in Nat
<1>1. /\ e.freshness \in {"fresh", "stale", "expired"} /\ e.source \in {"import", "refresh", "cache"}
      /\ e.reachable \in BOOLEAN /\ e.id \in Nat
  BY DirectoryAssumption DEF EntryRows
<1>2. /\ FreshnessWeight[e.freshness] \in 1 .. 3
      /\ FreshnessWeight[e.freshness] = 3 <=> e.freshness = "fresh"
  BY <1>1 DEF FreshnessWeight
<1>3. SourceRank[e.source] \in Nat
  BY <1>1 DEF SourceRank
<1>4. Score(e) \in Int
  BY ScoreTypes
<1>5. Confidence(e) \in Int
  BY <1>4, ConfidenceFollows
<1> QED
  BY <1>1, <1>2, <1>3, <1>5

\* It is a strict order, total on entries of different peers.
LEMMA PrecedesOrders ==
    ASSUME NEW e \in EntryRows, NEW f \in EntryRows, NEW g \in EntryRows
    PROVE  /\ ~Precedes(e, e)
           /\ Precedes(e, f) /\ Precedes(f, g) => Precedes(e, g)
           /\ e.id # f.id => Precedes(e, f) \/ Precedes(f, e)
<1> DEFINE a(x) == FreshnessWeight[x.freshness]
           b(x) == SourceRank[x.source]
           c(x) == IF x.reachable THEN 1 ELSE 0
           d(x) == Confidence(x)
           n(x) == x.id
<1>1. \A x \in EntryRows : a(x) \in Int /\ b(x) \in Int /\ c(x) \in Int /\ d(x) \in Int /\ n(x) \in Int
  BY StandingTypes
<1>2. \A x, y \in EntryRows :
        Precedes(x, y) <=>
          \/ a(x) > a(y)
          \/ /\ a(x) = a(y)
             /\ \/ b(x) > b(y)
                \/ /\ b(x) = b(y)
                   /\ \/ c(x) > c(y)
                      \/ /\ c(x) = c(y)
                         /\ \/ d(x) > d(y)
                            \/ (d(x) = d(y) /\ n(x) < n(y))
  <2> SUFFICES ASSUME NEW x \in EntryRows, NEW y \in EntryRows
               PROVE  Precedes(x, y) <=>
                        \/ a(x) > a(y)
                        \/ /\ a(x) = a(y)
                           /\ \/ b(x) > b(y)
                              \/ /\ b(x) = b(y)
                                 /\ \/ c(x) > c(y)
                                    \/ /\ c(x) = c(y)
                                       /\ \/ d(x) > d(y)
                                          \/ (d(x) = d(y) /\ n(x) < n(y))
    OBVIOUS
  <2>1. /\ a(x) \in Int /\ a(y) \in Int /\ b(x) \in Int /\ b(y) \in Int
        /\ x.reachable \in BOOLEAN /\ y.reachable \in BOOLEAN
    BY StandingTypes
  <2>2. /\ a(x) - a(y) > 0 <=> a(x) > a(y)
        /\ a(x) - a(y) = 0 <=> a(x) = a(y)
        /\ b(x) - b(y) > 0 <=> b(x) > b(y)
        /\ b(x) - b(y) = 0 <=> b(x) = b(y)
    BY <2>1
  <2>3. /\ c(x) > c(y) <=> x.reachable /\ ~y.reachable
        /\ c(x) = c(y) <=> x.reachable = y.reachable
    BY <2>1
  <2>4. PrecedesAmongEquals(x, y) <=> d(x) > d(y) \/ (d(x) = d(y) /\ n(x) < n(y))
    BY DEF PrecedesAmongEquals
  <2>5. Precedes(x, y) <=>
          \/ a(x) - a(y) > 0
          \/ (a(x) - a(y) = 0 /\ b(x) - b(y) > 0)
          \/ (a(x) - a(y) = 0 /\ b(x) - b(y) = 0 /\ (x.reachable /\ ~y.reachable))
          \/ (a(x) - a(y) = 0 /\ b(x) - b(y) = 0 /\ x.reachable = y.reachable /\ PrecedesAmongEquals(x, y))
    BY DEF Precedes
  <2>6. Precedes(x, y) <=>
          \/ a(x) > a(y)
          \/ (a(x) = a(y) /\ b(x) > b(y))
          \/ (a(x) = a(y) /\ b(x) = b(y) /\ c(x) > c(y))
          \/ (a(x) = a(y) /\ b(x) = b(y) /\ c(x) = c(y) /\ PrecedesAmongEquals(x, y))
    <3> HIDE DEF a, b, c, d, n
    <3> QED
      BY <2>2, <2>3, <2>5
  <2> HIDE DEF a, b, c, d, n
  <2> QED
    BY <2>4, <2>6
<1> HIDE DEF a, b, c, d, n
<1>3. ~Precedes(e, e)
  BY <1>1, <1>2
<1>4. Precedes(e, f) /\ Precedes(f, g) => Precedes(e, g)
  BY <1>1, <1>2
<1>5. n(e) # n(f) => Precedes(e, f) \/ Precedes(f, e)
  BY <1>1, <1>2
<1> QED
  BY <1>3, <1>4, <1>5 DEF n

-----------------------------------------------------------------------------
(* Ranks. *)

\* The entries that go before one, which Find counts.
Before(entries, e) == {f \in entries \ {e} : Precedes(f, e)}

\* Rows that may be listed together.
Rankable(entries) ==
    /\ entries \subseteq EntryRows
    /\ IsFiniteSet(entries)
    /\ \A e, f \in entries : e.id = f.id => e = f

LEMMA RankTypes ==
    ASSUME NEW entries, Rankable(entries), NEW e \in entries
    PROVE  /\ IsFiniteSet(Before(entries, e))
           /\ Cardinality(Before(entries, e)) \in 0 .. Cardinality(entries) - 1
<1>1. IsFiniteSet(entries)
  BY DEF Rankable
<1>2. IsFiniteSet(entries \ {e}) /\ Cardinality(entries \ {e}) = Cardinality(entries) - 1
  BY <1>1, FS_RemoveElement
<1>3. Before(entries, e) \in SUBSET (entries \ {e})
  BY DEF Before
<1>4. /\ IsFiniteSet(Before(entries, e))
      /\ Cardinality(Before(entries, e)) <= Cardinality(entries \ {e})
  BY <1>2, <1>3, FS_Subset
<1>5. Cardinality(Before(entries, e)) \in Nat /\ Cardinality(entries) \in Nat
  BY <1>1, <1>4, FS_CardinalityType
<1> QED
  BY <1>2, <1>4, <1>5

\* Fewer go before the one that goes first.
LEMMA RankFollows ==
    ASSUME NEW entries, Rankable(entries), NEW e \in entries, NEW f \in entries, Precedes(e, f)
    PROVE  Cardinality(Before(entries, e)) < Cardinality(Before(entries, f))
<1>1. e \in EntryRows /\ f \in EntryRows
  BY DEF Rankable
<1>2. e # f
  BY <1>1, PrecedesOrders
<1>3. e \in Before(entries, f) /\ e \notin Before(entries, e)
  BY <1>2 DEF Before
<1>4. Before(entries, e) \subseteq Before(entries, f)
  <2> SUFFICES ASSUME NEW g \in Before(entries, e)
               PROVE  g \in Before(entries, f)
    OBVIOUS
  <2>1. g \in entries /\ g \in EntryRows /\ Precedes(g, e)
    BY DEF Before, Rankable
  <2>2. Precedes(g, f) /\ g # f
    BY <1>1, <2>1, PrecedesOrders
  <2> QED
    BY <2>1, <2>2 DEF Before
<1>5. /\ IsFiniteSet(Before(entries, f))
      /\ Cardinality(Before(entries, e)) \in Nat /\ Cardinality(Before(entries, f)) \in Nat
  <2>1. IsFiniteSet(Before(entries, e)) /\ IsFiniteSet(Before(entries, f))
    BY RankTypes
  <2> QED
    BY <2>1, FS_CardinalityType
<1>6. /\ Cardinality(Before(entries, e)) <= Cardinality(Before(entries, f))
      /\ Cardinality(Before(entries, e)) # Cardinality(Before(entries, f))
  BY <1>3, <1>4, <1>5, FS_Subset
<1> QED
  BY <1>5, <1>6

\* No rank is left out: each of the numbers below the length of the list is the
\* rank of one entry, so that as many entries as a limit allows rank below it.
LEMMA FindsAsMany ==
    ASSUME NEW entries, Rankable(entries), NEW limit \in 1 .. Cardinality(entries)
    PROVE  Cardinality(Find(entries, limit)) = limit
<1> DEFINE rank == [e \in entries |-> Cardinality(Before(entries, e))]
<1>1. PICK n \in Nat : n = Cardinality(entries)
  BY FS_CardinalityType DEF Rankable
<1>2. /\ IsFiniteSet(0 .. n - 1) /\ Cardinality(0 .. n - 1) = n
      /\ IsFiniteSet(0 .. limit - 1) /\ Cardinality(0 .. limit - 1) = limit
  <2>1. 0 \in Int /\ n - 1 \in Int /\ limit - 1 \in Int /\ limit \in Int /\ limit >= 1
    BY <1>1
  <2>2. /\ IsFiniteSet(0 .. n - 1) /\ Cardinality(0 .. n - 1) = IF 0 > n - 1 THEN 0 ELSE n - 1 - 0 + 1
        /\ IsFiniteSet(0 .. limit - 1)
        /\ Cardinality(0 .. limit - 1) = IF 0 > limit - 1 THEN 0 ELSE limit - 1 - 0 + 1
    BY <2>1, FS_Interval
  <2> QED
    BY <1>1, <2>1, <2>2
<1>3. rank \in [entries -> 0 .. n - 1]
  BY <1>1, RankTypes
<1>4. ASSUME NEW e \in entries, NEW f \in entries, e # f
      PROVE  rank[e] # rank[f]
  <2>1. e \in EntryRows /\ f \in EntryRows /\ e.id # f.id
    BY <1>4 DEF Rankable
  <2>2. Precedes(e, f) \/ Precedes(f, e)
    BY <2>1, PrecedesOrders
  <2>3. rank[e] < rank[f] \/ rank[f] < rank[e]
    BY <2>2, RankFollows
  <2> QED
    BY <1>3, <2>3
<1>5. \A e \in entries : rank[e] = Cardinality(Before(entries, e))
  OBVIOUS
<1> HIDE DEF rank
<1>6. rank \in Injection(entries, 0 .. n - 1)
  BY <1>3, <1>4 DEF Injection, IsInjective
<1>7. rank \in Surjection(entries, 0 .. n - 1)
  BY <1>1, <1>2, <1>6, FS_Injection
<1> DEFINE found == {e \in entries : rank[e] < limit}
           place == [e \in found |-> rank[e]]
<1>8. Find(entries, limit) = found
  BY <1>5 DEF Find, Before
<1>9. place \in Bijection(found, 0 .. limit - 1)
  <2>1. place \in [found -> 0 .. limit - 1]
    BY <1>3
  <2>2. \A e, f \in found : place[e] = place[f] => e = f
    BY <1>4
  <2>3. \A i \in 0 .. limit - 1 : \E e \in found : place[e] = i
    <3> SUFFICES ASSUME NEW i \in 0 .. limit - 1
                 PROVE  \E e \in found : place[e] = i
      OBVIOUS
    <3>1. i \in 0 .. n - 1
      BY <1>1
    <3>2. PICK e \in entries : rank[e] = i
      BY <1>7, <3>1 DEF Surjection
    <3> QED
      BY <3>2
  <2> HIDE DEF place, found
  <2>4. place \in Injection(found, 0 .. limit - 1)
    BY <2>1, <2>2 DEF Injection, IsInjective
  <2> QED
    BY <2>1, <2>3, <2>4 DEF Bijection, Surjection
<1>10. IsFiniteSet(found)
  <2>1. found \in SUBSET entries
    OBVIOUS
  <2> QED
    BY <2>1, FS_Subset DEF Rankable
<1> HIDE DEF found, place
<1>11. Cardinality(0 .. limit - 1) = Cardinality(found)
  <2>1. ExistsBijection(found, 0 .. limit - 1)
    BY <1>9 DEF ExistsBijection
  <2> QED
    BY <1>10, <2>1, FS_Bijection
<1> QED
  BY <1>2, <1>8, <1>11

\* The entries of a list are ranked: one for each peer that has a row.
LEMMA EntriesRankable ==
    ASSUME Types
    PROVE  Rankable(Entries)
<1>1. ASSUME NEW e \in Entries
      PROVE  \E c \in Listable : e = Entry(c) /\ e \in EntryRows /\ e.id = c
  BY EntryTypes DEF Entries
<1>2. \A e, f \in Entries : e.id = f.id => e = f
  BY <1>1
<1> DEFINE peer == [e \in Entries |-> e.id]
<1>3. peer \in [Entries -> Peers] /\ \A e \in Entries : peer[e] = e.id
  BY <1>1 DEF Listable
<1> HIDE DEF peer
<1>4. peer \in Injection(Entries, Peers)
  BY <1>2, <1>3 DEF Injection, IsInjective
<1>5. IsFiniteSet(Entries)
  BY <1>4, FS_Injection, ListAssumption
<1> QED
  BY <1>1, <1>2, <1>5 DEF Rankable

\* A list that is cut off is as long as its limit, whatever the rows say, and
\* no fresh peer is left out of it for one that is not.
THEOREM LimitsAreFair == Spec => []LimitKeepsFreshest
<1>1. Types => LimitKeepsFreshest
  <2> SUFFICES ASSUME Types, NEW limit \in 1 .. Cardinality(Entries)
               PROVE  /\ Cardinality(Find(Entries, limit)) = limit
                      /\ \A e \in Find(Entries, limit), f \in Entries \ Find(Entries, limit) :
                            f.freshness = "fresh" => e.freshness = "fresh"
    BY DEF LimitKeepsFreshest
  <2>1. Rankable(Entries)
    BY EntriesRankable
  <2>2. ASSUME NEW e \in Find(Entries, limit), NEW f \in Entries \ Find(Entries, limit),
               f.freshness = "fresh", e.freshness # "fresh"
        PROVE  FALSE
    <3>1. e \in Entries /\ f \in Entries /\ e \in EntryRows /\ f \in EntryRows
      BY <2>1, <2>2 DEF Find, Rankable
    <3>2. Precedes(f, e)
      <4>1. /\ FreshnessWeight[e.freshness] \in 1 .. 3 /\ FreshnessWeight[e.freshness] # 3
            /\ FreshnessWeight[f.freshness] = 3
        BY <2>2, <3>1, StandingTypes
      <4> QED
        BY <4>1 DEF Precedes
    <3>3. Cardinality(Before(Entries, f)) < Cardinality(Before(Entries, e))
      BY <2>1, <3>1, <3>2, RankFollows
    <3>4. Cardinality(Before(Entries, e)) < limit /\ ~(Cardinality(Before(Entries, f)) < limit)
      BY <2>2, <3>1 DEF Find, Before
    <3>5. /\ Cardinality(Before(Entries, e)) \in 0 .. Cardinality(Entries) - 1
          /\ Cardinality(Before(Entries, f)) \in 0 .. Cardinality(Entries) - 1
      BY <2>1, <3>1, RankTypes
    <3> QED
      BY <3>3, <3>4, <3>5
  <2> QED
    BY <2>1, <2>2, FindsAsMany
<1> QED
  BY <1>1, TypesStay, PTL
=============================================================================
