----------------------------- MODULE Directory -----------------------------
(***************************************************************************)
(* The discovery directory of one LinkClaw home: where its peers can be    *)
(* reached.  "import" and "known refresh" read a peer's site and           *)
(* "connect-peer" reads what the home already knows; both overwrite the    *)
(* peer's row in runtime_discovery_records, an inspection also the Nostr   *)
(* bindings, a connection also the contact.  A send takes its relays and   *)
(* keys from all of them, "list-discovery" and "connect-peer" read the     *)
(* row.  A command reads first and writes later, in one transaction; other *)
(* commands come in between.                                               *)
(*                                                                         *)
(* Peers and HTTP relays are numbered in the alphabetical order of their   *)
(* ids and urls: the lists of a row are sorted when they are written and   *)
(* when they are read, so they are sets here.  Direct hints are kept like  *)
(* store-and-forward hints and left out.                                   *)
(***************************************************************************)
EXTENDS Ranking, FiniteSets, FiniteSetsExt

CONSTANTS
    Peers,       \* canonical ids
    Commands,    \* processes that run a command
    Relays,      \* HTTP relays
    NostrRelays,
    Keys,        \* Nostr keys
    PagesOf,     \* peer -> what its site may say of how to reach it
    CardsOf,     \* peer -> what its identity cards may say of it
    TrustOf,     \* peer -> its row of runtime_trust_records
    Day,         \* how long an inspection is fresh
    Short,       \* how long a connection is fresh
    MaxClock,    \* bound: time
    MaxCommands, \* bound: commands begun
    None

Pages == [box : Relays \cup {None}, nostr : SUBSET NostrRelays, key : Keys \cup {None}]

Cards == [nostr : SUBSET NostrRelays, key : Keys \cup {None}]

ASSUME DirectoryAssumption ==
    /\ Peers \subseteq Nat
    /\ Relays \subseteq Nat
    /\ \A c \in Peers : PagesOf[c] \subseteq Pages
    /\ \A c \in Peers : CardsOf[c] \subseteq Cards
    /\ \A c \in Peers : \A page \in PagesOf[c] : page.nostr # {} => page.key # None
    /\ Short \in Nat
    /\ Day \in Nat
    /\ Short < Day
    /\ MaxClock \in Nat
    /\ MaxCommands \in Nat
    /\ None \notin Nat
    /\ None \notin Keys

\* A home has so many rows.
ASSUME ListAssumption ==
    /\ IsFiniteSet(Peers)
    /\ \A c \in Peers : TrustOf[c] \in Trusts

VARIABLES
    clock,
    contacts,  \* contacts, by canonical id: its relay and card, and whether
               \* its signing key is known
    records,   \* runtime_discovery_records
    bindings,  \* runtime_transport_bindings: the key bound to an enabled relay
    relays,    \* runtime_transport_relays
    command,   \* what each process has read
    begun,     \* commands begun
    inspected, \* history: when a peer's site was read for a committed inspection
    lastPage   \* history: the last committed page with a sign of Nostr

vars == <<clock, contacts, records, bindings, relays, command, begun, inspected, lastPage>>

-----------------------------------------------------------------------------
Times == 0 .. MaxClock + Day

Record == [resolved : Times, fresh : Times, source : {"import", "refresh", "cache"},
           reachable : BOOLEAN, hints : SUBSET Relays]

Contact == [relay : Relays \cup {None}, signed : BOOLEAN, card : Cards \cup {None}]

Idle == [kind |-> "idle"]

\* The site has been read, for "import" or for "known refresh".
Inspections == [kind : {"import", "refresh"}, peer : Peers, at : Times, page : Pages]

\* A connection to a peer that is no contact is to be refreshed.
Lookups == [kind : {"lookup"}, peer : Peers, at : Times, found : Record]

\* The presence of a peer has been read, and the relay its contact shall have.
Connects == [kind : {"connect"}, peer : Peers, presence : Record, relay : Relays \cup {None}]

ASSUME RowsAssumption == None \notin Record \cup Contact \cup Pages

Known(c) == contacts[c] # None

Init ==
    /\ clock = 0
    /\ contacts = [c \in Peers |-> None]
    /\ records = [c \in Peers |-> None]
    /\ bindings = [c \in Peers |-> [n \in NostrRelays |-> None]]
    /\ relays = {}
    /\ command = [p \in Commands |-> Idle]
    /\ begun = 0
    /\ inspected = [c \in Peers |-> {}]
    /\ lastPage = [c \in Peers |-> None]

TypeOK ==
    /\ clock \in 0 .. MaxClock
    /\ contacts \in [Peers -> Contact \cup {None}]
    /\ records \in [Peers -> Record \cup {None}]
    /\ bindings \in [Peers -> [NostrRelays -> Keys \cup {None}]]
    /\ relays \subseteq NostrRelays
    /\ command \in [Commands -> {Idle} \cup Inspections \cup Lookups \cup Connects]
    /\ begun \in 0 .. MaxCommands

-----------------------------------------------------------------------------
(* How a peer is reached. *)

First(urls) == IF urls = {} THEN None ELSE Min(urls)

Hints(c) == IF records[c] = None THEN {} ELSE records[c].hints

ManualRelay(c) == IF Known(c) THEN contacts[c].relay ELSE None

CardOf(c) == IF Known(c) THEN contacts[c].card ELSE None

\* Mutant: a contact without a relay counts as one with a blank relay.
BoxesOrBlank(c) == {ManualRelay(c)} \cup Hints(c)

\* The HTTP relays a message to the peer may go to; only Nostr relays are on
\* cards, and the registry's table is never in a home.
BoxesOf(c) == ({ManualRelay(c)} \ {None}) \cup Hints(c)

\* The relay of the contact goes first, then those of the directory.
EffectiveRelay(c) == IF ManualRelay(c) # None THEN ManualRelay(c) ELSE First(Hints(c))

BoundRelays(c) == {n \in NostrRelays : bindings[c][n] # None}

\* Those bound to the peer, those of its card, and every relay of anyone.
NostrRelaysOf(c) ==
    BoundRelays(c) \cup (IF CardOf(c) # None THEN CardOf(c).nostr ELSE {}) \cup relays

\* Mutant: the bindings of all peers are read.
KeysOfAnyone(c) ==
    UNION {{bindings[d][n] : n \in BoundRelays(d)} : d \in Peers}
    \cup (IF CardOf(c) # None THEN {CardOf(c).key} \ {None} ELSE {})

\* The keys a message to the peer is encrypted for.
KeysOf(c) ==
    {bindings[c][n] : n \in BoundRelays(c)}
    \cup (IF CardOf(c) # None THEN {CardOf(c).key} \ {None} ELSE {})

\* A contact whose signing key is known has a libp2p route.
HasRoute(c) ==
    \/ BoxesOf(c) # {}
    \/ NostrRelaysOf(c) # {} /\ KeysOf(c) # {}
    \/ contacts[c].signed

-----------------------------------------------------------------------------
(* Contacts, as far as they matter here. *)

Newcomer == [relay |-> None, signed |-> FALSE, card |-> None]

\* "card import": the relay of the contact is cleared.
ImportCard(c) ==
    /\ \E card \in CardsOf[c] :
         contacts' = [contacts EXCEPT ![c] = [relay |-> None, signed |-> TRUE, card |-> card]]
    /\ UNCHANGED <<clock, records, bindings, relays, command, begun, inspected, lastPage>>

\* A message from a peer makes it a contact, with its signing key unless it
\* came directly.
MessageArrives(c) ==
    /\ ~Known(c)
    /\ \E signed \in BOOLEAN : contacts' = [contacts EXCEPT ![c] = [Newcomer EXCEPT !.signed = signed]]
    /\ UNCHANGED <<clock, records, bindings, relays, command, begun, inspected, lastPage>>

\* "known remove" leaves the row and the bindings.
Remove(c) ==
    /\ Known(c)
    /\ contacts' = [contacts EXCEPT ![c] = None]
    /\ UNCHANGED <<clock, records, bindings, relays, command, begun, inspected, lastPage>>

Tick ==
    /\ clock < MaxClock
    /\ clock' = clock + 1
    /\ UNCHANGED <<contacts, records, bindings, relays, command, begun, inspected, lastPage>>

-----------------------------------------------------------------------------
(* Inspections. *)

\* One command after another, and in several processes at once.
Start(p) ==
    /\ command[p] = Idle
    /\ begun < MaxCommands
    /\ begun' = begun + 1

\* "import", or "known refresh" of a contact: the page the site has now.
BeginInspect(p, c) ==
    /\ Start(p)
    /\ \E kind \in {"import", "refresh"}, page \in PagesOf[c] :
         /\ kind = "refresh" => Known(c)
         /\ command' = [command EXCEPT ![p] =
                           [kind |-> kind, peer |-> c, at |-> clock, page |-> page]]
    /\ UNCHANGED <<clock, contacts, records, bindings, relays, inspected, lastPage>>

HasSignal(page) == page.nostr # {} \/ page.key # None

\* Mutant: bindings the page no longer has stay enabled.
BindOnly(c, page) ==
    bindings' = [bindings EXCEPT ![c] =
                    [n \in NostrRelays |-> IF n \in page.nostr THEN page.key ELSE @[n]]]

\* The relays of the page are bound, with its key; all others are disabled.
Bind(c, page) ==
    bindings' = [bindings EXCEPT ![c] =
                    [n \in NostrRelays |-> IF n \in page.nostr THEN page.key ELSE None]]

\* The row is replaced by what the page says; the bindings too, unless it says
\* nothing of Nostr.  A relay once listed stays listed.
CommitInspect(p) ==
    /\ command[p].kind \in {"import", "refresh"}
    /\ LET c == command[p].peer
           page == command[p].page
       IN  /\ command[p].kind = "refresh" => Known(c)
           /\ contacts' = IF Known(c) THEN contacts ELSE [contacts EXCEPT ![c] = Newcomer]
           /\ records' = [records EXCEPT ![c] =
                             [resolved |-> command[p].at, fresh |-> command[p].at + Day,
                              source |-> command[p].kind, reachable |-> page.box # None,
                              hints |-> {page.box} \ {None}]]
           /\ IF HasSignal(page)
              THEN Bind(c, page) /\ lastPage' = [lastPage EXCEPT ![c] = page]
              ELSE UNCHANGED <<bindings, lastPage>>
           /\ relays' = relays \cup page.nostr
           /\ inspected' = [inspected EXCEPT ![c] = @ \cup {command[p].at}]
    /\ command' = [command EXCEPT ![p] = Idle]
    /\ UNCHANGED <<clock, begun>>

-----------------------------------------------------------------------------
(* Connections. *)

\* Mutant: what a connection finds counts like an inspection.
PresenceOfADay(c) ==
    [resolved |-> clock, fresh |-> clock + Day, source |-> "cache",
     reachable |-> HasRoute(c),
     hints |-> BoxesOf(c)]

\* The presence of a contact is what the home knows of it.
PresenceOf(c) ==
    [resolved |-> clock, fresh |-> clock + Short, source |-> "cache",
     reachable |-> HasRoute(c),
     hints |-> BoxesOf(c)]

ConnectContact(p, c) ==
    /\ Start(p)
    /\ Known(c)
    /\ command' = [command EXCEPT ![p] =
                      [kind |-> "connect", peer |-> c, presence |-> PresenceOf(c),
                       relay |-> EffectiveRelay(c)]]
    /\ UNCHANGED <<clock, contacts, records, bindings, relays, inspected, lastPage>>

\* A peer that has a route is held reachable.
Reachable(record) == [record EXCEPT !.reachable = @ \/ record.hints # {}]

\* A peer that is no contact, without --refresh: its row.
ConnectDiscovered(p, c) ==
    /\ Start(p)
    /\ ~Known(c)
    /\ records[c] # None
    /\ command' = [command EXCEPT ![p] =
                      [kind |-> "connect", peer |-> c, presence |-> Reachable(records[c]),
                       relay |-> First(Hints(c))]]
    /\ UNCHANGED <<clock, contacts, records, bindings, relays, inspected, lastPage>>

\* With --refresh: the row is read ...
LookUp(p, c) ==
    /\ Start(p)
    /\ ~Known(c)
    /\ records[c] # None
    /\ command' = [command EXCEPT ![p] =
                      [kind |-> "lookup", peer |-> c, at |-> clock,
                       found |-> Reachable(records[c])]]
    /\ UNCHANGED <<clock, contacts, records, bindings, relays, inspected, lastPage>>

\* ... and written back as refreshed, which is the presence.  Nobody is asked.
Refresh(p) ==
    /\ command[p].kind = "lookup"
    /\ LET found == command[p].found
           at == command[p].at
           refreshed == [found EXCEPT !.resolved = at, !.source = "refresh",
                                      !.fresh = IF @ < at THEN at + Short ELSE @]
       IN  /\ records' = [records EXCEPT ![command[p].peer] = refreshed]
           /\ command' = [command EXCEPT ![p] =
                             [kind |-> "connect", peer |-> command[p].peer,
                              presence |-> refreshed, relay |-> First(refreshed.hints)]]
    /\ UNCHANGED <<clock, contacts, bindings, relays, begun, inspected, lastPage>>

\* Mutant: the contact takes the first relay of the sorted list.
PromotedByName(contact, relay, hints) ==
    IF contact = None THEN [Newcomer EXCEPT !.relay = First(hints)]
    ELSE [contact EXCEPT !.relay = First(hints)]

\* A contact without a relay takes the one that was read.
Promoted(contact, relay, hints) ==
    IF contact = None THEN [Newcomer EXCEPT !.relay = relay]
    ELSE [contact EXCEPT !.relay = IF @ = None THEN relay ELSE @]

\* The peer becomes a contact, and the row what was read.
Promote(p) ==
    /\ command[p].kind = "connect"
    /\ LET c == command[p].peer
           presence == command[p].presence
       IN  /\ contacts' = [contacts EXCEPT ![c] = Promoted(@, command[p].relay, presence.hints)]
           /\ records' = [records EXCEPT ![c] = presence]
    /\ command' = [command EXCEPT ![p] = Idle]
    /\ UNCHANGED <<clock, bindings, relays, begun, inspected, lastPage>>

-----------------------------------------------------------------------------
\* A command ends in an error, or with the process.
Fail(p) ==
    /\ command[p] # Idle
    /\ command' = [command EXCEPT ![p] = Idle]
    /\ UNCHANGED <<clock, contacts, records, bindings, relays, begun, inspected, lastPage>>

AtOnce(c) == ImportCard(c) \/ MessageArrives(c) \/ Remove(c)

Begin(p, c) ==
    BeginInspect(p, c) \/ ConnectContact(p, c) \/ ConnectDiscovered(p, c) \/ LookUp(p, c)

Continue(p) == CommitInspect(p) \/ Refresh(p) \/ Promote(p) \/ Fail(p)

Next ==
    \/ Tick
    \/ \E c \in Peers : AtOnce(c)
    \/ \E p \in Commands : Continue(p)
    \/ \E p \in Commands, c \in Peers : Begin(p, c)

Spec == Init /\ [][Next]_vars

-----------------------------------------------------------------------------
(* What list-discovery shows. *)

Listable == {c \in Peers : records[c] # None}

\* The row of a peer with its row of the trust table, when it is read.
Entry(c) ==
    [id |-> c, source |-> records[c].source, reachable |-> records[c].reachable,
     freshness |-> Freshness(clock, records[c].fresh, Day), trust |-> TrustOf[c]]

Entries == {Entry(c) : c \in Listable}

\* The first entries, in the order of the ranking.
Find(entries, limit) ==
    {e \in entries : Cardinality({f \in entries \ {e} : Precedes(f, e)}) < limit}

-----------------------------------------------------------------------------
(* Properties. *)

\* Only reading a peer's site keeps it fresh for a day: a row that stays fresh
\* for longer than a connection can vouch for has its end from an inspection,
\* through whatever connections and refreshes it was copied.
FreshEarned ==
    \A c \in Listable :
        records[c].fresh > clock + Short =>
            \E at \in inspected[c] : records[c].fresh = at + Day

\* The relays and keys a peer's messages go to are its own: none that only
\* another peer has stated is copied into its row, its contact or its keys.
OwnFactsOnly ==
    \A c \in Peers :
        /\ BoxesOf(c) \subseteq {page.box : page \in PagesOf[c]}
        /\ KeysOf(c) \subseteq {page.key : page \in PagesOf[c]} \cup {card.key : card \in CardsOf[c]}

\* However inspections of a peer overlap, its bindings are those of one page,
\* the last one committed that has any sign of Nostr: no relay that page has
\* dropped is left and no key older than it.
BindingsWhole ==
    \A c \in Peers :
        bindings[c] = [n \in NostrRelays |->
                          IF lastPage[c] # None /\ n \in lastPage[c].nostr
                          THEN lastPage[c].key ELSE None]

\* A connection writes down the relay that is used, and does not change it: if
\* the relay that was read is still the one used first, it is so afterwards,
\* although the row now lists more of them.
ConnectKeepsRelay ==
    [][\A p \in Commands :
         Promote(p) =>
           \A c \in {command[p].peer} :
             command[p].relay = EffectiveRelay(c) => EffectiveRelay(c)' = EffectiveRelay(c)]_vars

\* No freshness, no reachability and no trust level hides a warning: a peer
\* whose site contradicts its identity is shown with low confidence, and risk
\* flags, a lost route or age never raise the confidence.
WarningsLower ==
    \A c \in Listable :
        LET e == Entry(c)
            confidence == Confidence(e)
        IN  /\ TrustOf[c].state = "mismatch" => ConfidenceLevel(confidence) = "low"
            /\ Confidence([e EXCEPT !.trust.risk = @ \cup {"unverified"}]) <= confidence
            /\ Confidence([e EXCEPT !.reachable = FALSE]) <= confidence
            /\ Confidence([e EXCEPT !.freshness = "expired"]) <= confidence

\* A limited list is as long as its limit, and leaves out no fresh peer for one
\* that is not.
LimitKeepsFreshest ==
    LET entries == Entries
    IN  \A limit \in 1 .. Cardinality(entries) :
          LET found == Find(entries, limit)
          IN  /\ Cardinality(found) = limit
              /\ \A e \in found, f \in entries \ found : f.freshness = "fresh" => e.freshness = "fresh"
=============================================================================
