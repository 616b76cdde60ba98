# LinkClaw in TLA+

LinkClaw gives an agent an identity, a book of contacts, and messages that
travel between homes without a central server. A *home* is a directory with one
SQLite database; every command of the `linkclaw` binary opens it, does one thing
and exits, so several processes may work on the same home at once. The OpenClaw
plugin starts the binary for its user and, on a timer, for `message sync`.

This directory models the program under `src/`: modules that follow the code
step by step, configurations that check them with TLC on small instances, and
proofs, checked by TLAPS, that the most important properties hold for every
instance. `PROJECT.json` names, for every definition, the lines it stands for.

## 1. Inventory

All paths are under `src/internal` unless they say otherwise.

| Part | State | Operations | Talks to |
|---|---|---|---|
| **Receiving** `message/service.go`, `message/runtime_bridge.go`, `runtime/service.go`, `runtime/store.go` | `contacts`, `conversations`, `messages`, `message_sync_cursors`; `runtime_messages`, `runtime_conversations`, `runtime_store_forward_state`, `runtime_relay_sync_state`, `runtime_recovered_event_observations` | `Sync`, `ReceiveDirect`, `Thread --mark-read` | mailboxes and Nostr relays (pull, acknowledge), peers (direct envelopes) |
| **Sending** same files, `transport/storeforward/mailbox.go` | the same message tables, `message_delivery_attempts`, `runtime_route_attempts`, `runtime_presence` | `Send` | relay view, mailboxes, Nostr relays, peers |
| **Read models** `runtime_bridge.go`, `runtime/store.go` | none of its own | `Inbox`, `Outbox`, `Thread`, `Status` | runtime tables |
| **Message status** `runtime/message_status.go` | none | normalise, transition, merge | every writer of a message row |
| **Card import** `card/service.go` | `contacts`, runtime bindings and relays | `Import`, `Export` | receiving (keys), own bindings |
| **Connecting** `message/service.go` | `contacts`, `trust_records`, `runtime_trust_records`, `runtime_discovery_records`, `interaction_events` | `ConnectPeer` | presence, discovery, trust |
| **Contacts and trust** `known`, `trust` | `contacts`, `trust_records`, `trust_events`, `notes`, `handles`, `proofs` | `Trust`, `Note`, `Refresh`, `Remove`; `Profile` | importer |
| **Import of a published identity** `importer` | all of those, and transport bindings and relays | `Import` | resolver |
| **Own bindings** `nostrbindings`, `message/nostr_signing_key.go` | `runtime_transport_bindings`, `runtime_transport_relays`, a key file | `LoadSelfSnapshot`, ensure the signing key | card export, publish, every message command |
| **Peer relay view** `message/peer_relay_view.go` | none | merge four sources | send, connect |
| **Discovery** `discovery` and its `dht`, `libp2p`, `nostr` sources | `runtime_discovery_records` | `Find`, `Show`, `Refresh` | presence, trust |
| **Home** `initflow`, `keys`, `messagingprofile`, `layout`, `migrate` | key files, `keys`, `self_identities`, `self_messaging_profiles`, `schema_migrations` | `Init`, migrations on every open | all |
| **Publishing** `publish` | files of the bundle, `self_identities.home_origin` | `Publish` | resolver of other homes |
| **Resolving** `resolver` | none | `Inspect` | HTTP |
| **Index, registry** `indexer`, `registry` | `index_records`, `agents` | `Crawl`, `Search`, `Publish` | resolver, card |
| **OpenClaw plugin** `src/openclaw-plugin` | the contact addressed last, by home | slash commands, the sync timer | the binary |
| **Transports, cryptography, command line, servers** | none | wire formats and I/O | everything |

What is hard in it, and what makes each part correct:

- **Receiving.** A sync is a chain of a dozen database and network steps, only
  some of them in one transaction, and nothing locks the home: two syncs (the
  plugin's timer does not wait for the previous one), a direct delivery and the
  user reading a thread interleave. Every step may fail - SQLite is opened
  without a busy timeout - and the process may die. The state that is left
  decides what later syncs skip: the cursor of the route, a checkpoint in the
  order of the senders' clocks, and observations. *Correct* means: a message is
  stored and counted once, with its first copy; nothing is skipped, observed or
  acknowledged that is not stored; a key, once known, changes only by a card;
  what is shown was stored; what a relay holds is stored in the end.
- **Sending.** Routes are tried in order, Nostr relays in parallel, and a
  snapshot of the conversation taken at the start is written back after the
  network calls. *Correct*: a message that is said to be queued or delivered was
  taken by the route named, a failed one by none that answered; a status never
  goes back; a send does not undo what a sync wrote.
- **Contacts and trust.** The level of trust lives in two tables and an event
  log, each command writes some of them, and every command reads before the
  transaction in which it writes. *Correct*: only the user vouches for a peer,
  a decision that is shown stays shown, an inspection's warning is not softened by
  what was read before it, and no row outlives its contact.
- **Reaching a peer.** Contact, card, directory and bindings are four sources
  with an order of precedence; inspections replace some of them and connections
  copy one into another. *Correct*: nothing another peer has said gets into
  them, copying earns no freshness, and overlapping inspections leave the
  bindings of one page.
- **Home.** Key files, rows and identity are created one after another, without
  a lock. *Correct*: what was exported on a card can be kept - the identity that
  sends is that of the card, the private halves of its keys are there - whatever
  broke off or ran again.
- **Publishing and resolving.** Files are replaced one by one under the eyes of
  readers, and of other publications. *Correct*: nobody takes a site in transition
  for a contradiction, and a publication that completes leaves nothing of an
  earlier one.
- **The plugin.** Several chats share one remembered contact, and a name is
  resolved in one run of the binary and used in the next, while contacts are
  imported, renamed and removed. *Correct*: a text goes to the contact its
  reference stood for, and a bare reply to one that can be sent to.

`PROJECT.json` lists the hazards at their lines, with the properties that cover
them.

## 2. Modules

| Modules | Abstract specification | Question | Proved |
|---|---|---|---|
| `MessageStatus` | - | what a status may become; pure operators every module that writes a message row uses | - |
| `Recovery`, `MC_Recovery`, `Recovery_proofs` | `Inbox` | is anything lost, doubled, shown or skipped wrongly on the receiving side? | types and every safety property, refinement of `Inbox` |
| `Send`, `MC_Send`, `Send_proofs` | `Outbox` | is what the outbox says of a message true? does a send undo a sync? | types and every safety property, refinement of `Outbox` |
| `Contacts`, `MC_Contacts`, `Contacts_proofs` | - | can anything but the user raise trust, soften a verdict, or leave rows behind? | types and every property |
| `Directory` on `Ranking`, `MC_Directory`, `Directory_proofs` on `Least_proofs` | - | how is a peer reached, how long is that believed, in which order are peers shown? | types and every property |
| `Home`, and `Site` on it, `MC_Home`, `Home_proofs`, `Site_proofs` | - | does the home keep what its cards and its site promise? | types and every property |
| `Plugin`, `MC_Plugin`, `Plugin_proofs` | - | whom does a message typed in a chat go to? | types and every property that holds |

`Site` extends `Home` - a bundle is made of the home's identity and keys - and
its next-state relation interleaves the steps of the two. `Contacts` and
`Directory` see the same commands, each with its own tables: the trust tables and
the reachability tables share no column, so each module abstracts the other to
the contact's row. `Recovery` and `Send` share the message tables of a
conversation: `Send` has in it what a sync and a reader write to the columns a
send reads or writes. No module a theorem is about uses a RECURSIVE operator.

What could come next: a composition of `Send` of one home with `Recovery` of
another, which the two promises `Outbox` and `Inbox` meet in: what a transport
has taken is what a relay holds.

## 3. The receiving side: `Recovery`

### State and actions

A *route* of the code - a relay url and the recipient id of this home - is a
member of `Relays`; those in `Mailboxes` are HTTP mailboxes, the others Nostr
relays. An *event* is one copy of a business message on a relay; `MsgOf`,
`SenderOf`, `KeyOf`, `Stamp` (the rank of its `(sent_at, event id)` pair) and
`CreatedAt` (seconds) are what the code reads of it, and `Fault` says whether it
verifies ("corrupt" does not) and is addressed to this home ("misaddressed" is
not). Payloads, keys and names are model values.

| Variables | Code |
|---|---|
| `relay`, `acked` | the relays, outside the program; a mailbox keeps what came in and the position acknowledged |
| `contacts`, `peers` | `contacts.signing_public_key`; senders with a Nostr binding |
| `messages`, `unread` | `messages` (which copy was stored), `conversations.unread_count` |
| `rtMessages`, `rtConv`, `rtUnread` | `runtime_messages.status`, `runtime_conversations` |
| `cursor`, `checkpoint`, `observed` | `runtime_store_forward_state`, `runtime_relay_sync_state`, `runtime_recovered_event_observations` |
| `job` | one record per process in `message sync`: the next step and the locals it still reads |
| `envelope`, `reader` | a direct envelope, a `--mark-read`, half way |

| Actions | Code |
|---|---|
| `StartSync` | `Service.Sync`, which lists the routes |
| `LoadSyncState` | `syncStoreForward`: checkpoint and binding context |
| `Pull` | the mailbox's page or the Nostr query, with its limit |
| `CommitBatch`, `AbortBatch` | the one transaction: skip observed, unbound and passed events, verify, pin the key of a new contact, insert or ignore, count; or roll back at the first that does not verify |
| `SaveCursor`, `SaveCheckpoint`, `SaveObservation` | the three kinds of sync state, in this order |
| `SaveConversation`, `SaveMessage` | `syncRuntimeRecoveredState`, row by row |
| `Ack` | the acknowledgement in `runtime.Service.Sync` |
| `PullFails`, `AckFails`, `StoreFails`, `Crash` | every other way a step can end |
| `ReceiveDirect`, `SaveDirectConversation`, `SaveDirectMessage`, `DirectFails` | `receiveDirectEnvelope`: transaction, then two rows |
| `MarkRuntimeRead`, `MarkLegacyRead`, `MarkReadFails` | `Service.Thread` |
| `Arrive`, `ImportCard` | the environment: a relay receives an event; the user imports a card |

What a transaction writes is written in one action, everything else one action
per statement. Inside a batch the code works on one event at a time; the model
states the outcome of the whole batch, because the transaction hides the rest.

### The promise: `Inbox`

`Inbox` is the abstract specification: `Store` takes in one copy of each of some
new messages, `Show` gives a stored message the status of its copy. `Recovery`
implements it with `stored <- messages` and `shown <- rtMessages`. It says in
two actions that no message is stored twice, that the first copy stays, that a
row appears only after the transaction, and that racing writers of a row cannot
change the status it was first shown with - the last because "delivered" and
"recovered" never merge into each other and only the process that stored a copy
writes its row.

### Runs

| Run | Shows | Distinct states |
|---|---|---|
| `recovery_relays` | a mailbox and a Nostr relay, one process, a misaddressed event, a key change by card and a stranger: `CursorStored`, `NostrPassedStored`, `KeysPinned` | 665,138 |
| `recovery_concurrent` | two syncs of one mailbox and a direct delivery of one of its messages: `ObservedStored`, `AckedStored`, `ImplementsInbox` | 888,279 |
| `recovery_live` | one message from a mailbox, a Nostr relay and directly, another only directly, the thread read meanwhile, failures that end: `UnreadCountsNew`, `RecoverableStored`, `MailboxDrained` | 112,044 |
| `stranded_message` | **violation** of `AckedShown`: an error after the commit leaves a message stored, acknowledged and never shown | |

The violation contradicts a sentence of the documents, quoted in `findings`, and
is why nothing here says that a stored message is shown in the end. More
conditions come from what the code does; section 10 names the sentences they
contradict:

- `AckedStored` and its like assume `InOrder`: what arrives at a relay has a
  later `sent_at` than what arrived before. A message with an earlier one is at
  or below the checkpoint: it is skipped and acknowledged.
- `NostrPassedStored` assumes that a relay holds no more than one query returns:
  of more events the newest are returned, and the checkpoint passes over the
  others (`message/runtime_bridge.go:1386`). It also assumes that the sender was
  bound before the run: a card imported during a pass comes too late for the
  events of that pass.
- The liveness properties have no corrupt event: one that does not verify rolls
  back every batch it is in, so it holds up the mailbox behind it for good
  (`runtime_bridge.go:1744`).
- `UnreadCountsNew` is about `unread`, not `rtUnread`: a direct message sets the
  runtime count to 1, whatever it was (`runtime_bridge.go:1250`). It lets a reader
  clear any count: a message that is stored between the two steps of a
  `--mark-read` is counted by the runtime table only (`:2299`).
- `KeysPinned` is about a home whose contacts stay. `known remove`, which deletes a
  contact and the key pinned with it (`known/service.go:447`), is no action of
  `Recovery`: a sender known again after it pins the key of the next message.

An event seen on one relay is not observed again on another
(`runtime_bridge.go:1724`); that loses nothing, by `ObservedStored`.

### Bounds

- Two messages, three at most, of one or two senders, two or three events per
  relay, one or two routes. Every property relates a message to one event of it
  or two events of one route; the interesting batches - two new messages, two
  copies of one, an old and a new, a good and a bad one - all have two events.
- Two processes. They share only the tables; a third adds no new pair of writers.
- `PullLimit` is 4, more than the events there are.
- One direct envelope and one reader at a time: `envelope` and `reader` hold one.
  Direct deliveries race with syncs, not with each other.
- Nothing is counted without bound: an event arrives at a relay once.

### Fairness

`WF(SyncStep(p))`: sync is run again and again and a process that runs goes on.
The plugin calls `message sync` when it starts and then on an interval for as
long as it runs (`src/openclaw-plugin/src/messaging.ts:60-100`). The timer does
not wait for the previous call, which is why there are two syncers. Weak
fairness is of the process, not of each step: the steps are in sequence.
`WF(SaveDirectConversation \/ SaveDirectMessage)`: the process that handles an
envelope goes on. `FairSpec` adds `<>[][Working]_vars`: errors and crashes do not
go on for ever. Without it no retry could succeed; nothing is assumed of how many
there are or when they stop. No fairness is given to relays, peers and the user.

## 4. The sending side: `Send`

### State and actions

A contact has a direct route or none, an ordered list of Nostr relays, an
ordered list of Nostr keys (the primary one first) and an ordered list of
mailboxes: what the relay view and the bindings say when the message is sent.
The direct route is one model value, a mailbox is one, a Nostr route is a pair
of relay and key. `Plan(m)` is the sequence of *groups* in which
`runtime.Service.SendMessage` tries them: the direct route, all Nostr routes at
once, then each mailbox alone. The Nostr routes are the relays with every key -
that of the url (`ManualOf`), that of the last success, those of the contact -
and `Precedes` is their order.

| Variables | Code |
|---|---|
| `taken`, `flying` | the world outside: routes that have taken a message, requests given up on that may still get through |
| `status`, `conv` | `messages.status`, `conversations` (unread count, last message) |
| `rtStatus`, `rtRoute` | `runtime_messages.status`, `.selected_route_*` |
| `rtConv`, `lastRoute` | `runtime_conversations`, `runtime_contacts.last_successful_route` |
| `attempts` | `runtime_route_attempts` |
| `job` | one record per message: the next step of its `message send` and the locals it still reads |
| `incoming`, `reader` | a sync or a direct delivery that has stored a message and not repeated it in the runtime tables, with the unread count it will write; a `--mark-read` half way |

| Actions | Code |
|---|---|
| `Begin` | the transaction of `Service.Send`: the pending row, the conversation, and a snapshot of it |
| `LoadContact` | the runtime contact, for the last successful route |
| `SaveContact`, `SaveConversation`, `SaveMessage` | `syncRuntimeMessage`, row by row; once before the network and once after it, with the same snapshot |
| `Prepare`, `PrepareFails` | presence, encryption, signature; a failure ends as `failed` |
| `Accept`, `Refuse`, `LoseAnswer` | a route answers; or the call ends in an error although the request may still `Land` |
| `UpdateDelivery`, `UpdateFails` | the transaction of a mailbox delivery, which writes `messages.status` |
| `RecordOutcome`, `OutcomeLost` | one attempt after the other, in the order of the routes; errors are ignored |
| `Conclude` | select the first route that accepted, or turn to the next group, or fail |
| `Stop` | an error outside the network part, or a crash: the send ends where it is |
| `StoreIncoming`, `StoreDirect`, `ShowIncoming`, `MarkRuntimeRead`, `MarkLegacyRead`, `OthersFail` | what a sync, a direct delivery and a reader do to the same conversation, reduced to the columns a send writes; `Recovery` has the whole of it |

A mailbox delivery is handed the mailbox of the route but writes to the first
mailbox of the contact (`Destination`).

### The promise: `Outbox`

`Outbox` has four actions: a message is posted as pending; a transport of some
kind takes it, at any time after that; the outbox claims a kind that has taken
it, or says that it failed, once. `Send` implements it with `shown <- rtStatus`,
`via` the kind of `rtRoute` and `held` the kinds of the routes in `taken`. It
speaks of kinds and not of routes because of the mailboxes. That "failed" is said of a message a route took is allowed, and cannot be
otherwise: an answer may be lost.

### Runs

| Run | Shows | Distinct states |
|---|---|---|
| `send_routes` | direct peer, two Nostr relays - the url of one names a key of its own - and a mailbox, everything may fail: `RouteHolds`, `EarliestRoute`, `LegacyAgrees`, `AuditTrue`, `ImplementsOutbox` | 402,109 |
| `send_concurrent` | two messages to one contact over two relays and a mailbox, only the network fails: `LastRouteTrue`, `AuditComplete` | 1,077,721 |
| `send_live` | every route, also one with the key of an earlier success, may refuse or lose; syncs, direct deliveries and a reader come before and after the send: `SerialAgree`, `PendingSettles` | 216,900 |

Conditions that come from what the code does:

- `RouteHolds` asks of a mailbox only that *some* mailbox has taken the message,
  because the second and later mailboxes are never written to.
- `SerialAgree` is about one process at a time (`Serial`): a message that comes
  in during a send is stored, and then the count of the send's snapshot is
  written over its unread count. Even so the two tables need not have the same
  count: a direct delivery writes 1, whatever the count is
  (`runtime_bridge.go:1250`), so after two unread direct messages one says 2 and
  the other 1. `ShownAsOne` is that exception: the last message came in, it is
  unread, and one is shown. What remains, and what a send that writes back a
  snapshot could break, is that the last message agrees, that no conversation
  with unread messages is shown as read, nor one that was read as unread, and that
  after a sync, a send or a reader the counts are the same or one is shown.
- `AuditComplete` is about runs in which nothing but the network fails, since an
  attempt that cannot be recorded is dropped (`runtime/service.go:450`).
- "failed" may be said of a message that a mailbox has accepted: if the row
  cannot be updated after that, the route counts as failed
  (`message/service.go:1978`). `LegacyAgrees` says what is left: a row that says
  "queued" was taken, and the outbox does not say that it failed.
- A message for which no route is known stays pending by design
  (`src/internal/message/service_test.go:74`), which is why `PendingSettles`
  speaks of those with a route.

### Bounds

- One message where the question is what its own routes do to it; two messages
  of one contact where it is what sends do to each other. Sends share the rows of
  the contact and the conversation, so a third adds no new pair of writers.
- Two relays and two keys: a group with several routes of one relay and of two,
  one for each origin of a key (the contact, the url, an earlier success); one
  direct route; one mailbox, since further ones only repeat it.
- `MaxUnread` bounds the unread messages; with 2 a count of 1 may be a direct
  delivery's, and differs from the count of the message tables.
- One sync or direct delivery and one reader at a time.

### Fairness

`WF(Local(m))`: the process of a send goes on. A call ends, with an answer or
without: the clients of mailboxes and Nostr relays have deadlines of ten seconds
(`src/internal/transport/storeforward/mailbox.go:67`,
`src/internal/transport/nostr/client.go:15`). A direct call has none
(`src/internal/discovery/libp2p/session.go:108`): a peer that takes the
connection and never answers holds the send, and no other route is tried, so
that direct peers end their calls is an assumption of `FairSpec`. Processes do
not stop in it: a send that is killed is never taken up again.

## 5. What is known of a peer: `Contacts`

### State and actions

| Variables | Code |
|---|---|
| `contacts`, `lastId` | `contacts`, by canonical id: row id and status; row ids are not used twice |
| `trust` | `trust_records`, by row id of the contact |
| `runtime` | `runtime_trust_records`, by canonical id, with the time of the decision |
| `latest` | the latest row of `trust_events` of a peer, the only one read |
| `history` | row ids with rows in `handles`, `artifact_snapshots`, `proofs`, `notes`, `interaction_events` |
| `discovered` | canonical ids with a row in `runtime_discovery_records` |
| `command` | one record per process: what it has read before its transaction |
| `clock` | time, in instants that can be told apart |

| Actions | Code |
|---|---|
| `BeginTrust`, `CommitTrust` | `known trust`: the time stamp; the transaction, which writes `trust_records` and the log, not the runtime table |
| `BeginImport`, `CommitImport` | `import`: the site is read; contact, both trust tables and the rows of the contact are written |
| `BeginRefresh`, `CommitRefresh` | `known refresh`: the same for a contact, which must still exist; an identity other than the contact's is a mismatch of the contact, and the runtime row of *that* identity is written |
| `BeginConnect`, `Promote` | `connect-peer`: trust profile and presence are read; contact, both tables, discovery record and event are written in one transaction, merged with what is there |
| `ImportCard`, `MessageArrives`, `Discover`, `Note`, `Remove` | commands with one transaction that reads nothing before it |
| `Fail`, `Tick` | an error or the end of the process; time |

`Profile` is what `inspect-trust` shows: the latest event if it is no older than
the runtime row, else the row. `MergeState` and `MergeLevel` are the
merges of a connection.

### Run

| Run | Shows | Distinct states |
|---|---|---|
| `contacts` | one peer, two commands at once, any of which may fail: `NoOrphans`, `OnlyUserVouches`, `VerdictKept`, `ConnectKeepsProfile`, `DecisionStays` | 338,545 |

*Bounds.* One peer: all rows but one go by peer, and the one exception - the
refresh that finds another identity - is what the proofs, which are for any
number of peers, cover. Two commands: a transaction races with one other. Two
levels, two instants (equal or later is what decides), two row ids (a contact,
and the one made after its removal). The user sets no flags, or clears them;
that flags behave as levels do is proved.

`DecisionStays` says how a decision that `inspect-trust` shows can stop being
shown: the user decides anew, with no earlier stamp, or it is *displaced*
(`Displaced`). There are two ways. An import or a refresh that was stamped after
the decision dates the runtime row anew and leaves it the level it had
(`importer/service.go:395-417`), and `inspect-trust` prefers the row with the later
time (`trust/service.go:218-231`): a decision of `known trust`, which does not write
the runtime row, is hidden by the next `known refresh`. And a connection that read
the profile before the decision was committed makes the runtime row, if there was
none, with the level it had read. The first contradicts the documents, see
section 10; that there is no third, whatever cards, messages, notes, removals,
earlier inspections and other connections do, is what the property says. It does
not say that a decision is shown to begin with: one stamped before the runtime row
of an inspection that committed meanwhile is not, and of two decisions of the same
instant the random event id decides. Nor does `ConnectKeepsProfile` keep a
connection from writing what it read over a decision made since; it is about one
that has read what is still the profile.
`ConnectKeepsProfile` allows one change: a contact that came by card has the
state "imported", which a connection makes "discovered".

## 6. How a peer is reached: `Directory`, on `Ranking`

### State and actions

| Variables | Code |
|---|---|
| `contacts` | the columns of a contact that say how to reach it: relay, card, whether the signing key is known |
| `records` | `runtime_discovery_records`: when resolved, fresh until, source, reachable, hints |
| `bindings`, `relays` | `runtime_transport_bindings` (the key bound to an enabled relay), `runtime_transport_relays` |
| `command`, `begun`, `clock` | what each process has read; commands begun; time |
| `inspected`, `lastPage` | histories: when sites were read for a committed inspection, and the last page with a sign of Nostr |

| Actions | Code |
|---|---|
| `BeginInspect`, `CommitInspect` | `import` and `known refresh`: the page is read; row, bindings and relays are replaced |
| `ConnectContact` | `connect-peer` to a contact: its presence is what contact, row, card and bindings say |
| `ConnectDiscovered`, `LookUp`, `Refresh` | `connect-peer` to another peer: its row, or, with `--refresh`, its row written back as refreshed; no source is asked, since the program fills none |
| `Promote` | the transaction of a connection: the contact takes a relay if it has none, and the row becomes the presence |
| `ImportCard`, `MessageArrives`, `Remove`, `Fail`, `Tick` | as in `Contacts` |

`BoxesOf`, `NostrRelaysOf`, `KeysOf` and `EffectiveRelay` are the relay view: the
contact's relay first, then the directory's, the card's, and the relays of
everybody. `Ranking` has the functions of time and row that a list is sorted by:
`Freshness`, `Confidence` (in hundredths, with the weights of the code),
`Precedes`. `Entries` and `Find` are `list-discovery`.

### Run

| Run | Shows | Distinct states |
|---|---|---|
| `directory` | two peers, one of which moves to another mailbox, Nostr relay and key, two commands at once: types, `FreshEarned`, `OwnFactsOnly`, `BindingsWhole`, `WarningsLower`, `LimitKeepsFreshest`, `ConnectKeepsRelay` | 1,526,526 |

*Bounds.* Two peers, because what one peer has said may turn up in another's
routes, and because a list has to leave one out. Peer 1 has two pages that
differ in everything, peer 2 one without Nostr. Four commands are begun in all,
at most two at once: enough for an inspection, a connection that copies it, an
inspection in between and one after; the proofs have no bound. An inspection is
fresh for one instant (`Day`), a connection for none (`Short`), time has two
instants: a copy can be made at the same time as its original and after it. The tables of trust are a
constant here (`TrustOf`): one peer is pinned and contradicts itself, the other
is trusted and flagged.

## 7. The home: `Home`, and `Site` on it

### State and actions

`init`, `card export` and the message commands each look for what they need and
make what they miss: a file first, the row that stands for it after that. Self
ids and keys are random in the code; here a command that begins takes a number,
and what it makes has that number, so two commands never make the same. A
key row has a stamp of its own, because the code orders keys by `created_at`.

| Variables | Code |
|---|---|
| `files`, `secrets` | private key files under a name of their own; the file of the encryption key, under the name of the identity |
| `keys`, `identities`, `profiles` | `keys`, `self_identities`, `self_messaging_profiles` |
| `command`, `begun` | one record per process: what it is about to look for or to make |
| `origin`, `site`, `publication` | `self_identities.home_origin`; the files of the bundle, each of some bundle, emptied (`Cut`) or mixed (`Mixed`); what a publisher has compiled and not yet written, where it is, and which bundles it has overlapped with |
| `inspection` | what a reader of the site has fetched |
| `cards`, `senders`, `origins`, `whole`, `raced` | histories: cards exported, Nostr keys used, origins published, the last complete publication, whether two commands have made parts of the home at once |

| Actions | Code |
|---|---|
| `FindSelf`, `FindName`, `InsertIdentity` | `init` with and without `--canonical-id`, and `card export`, which makes no identity |
| `FindKey`, `InsertKey` | `FileBackend.EnsureDefaultKey`: file, then row |
| `FindProfile`, `WriteSecret`, `InsertProfile` | `EnsureSelfProfile`: file, then row |
| `FindSender`, `FindNostrKey`, `InsertNostrKey` | the message commands: whom they send as, and the Nostr key |
| `Fail` | the process ends; or an error, after which the file of a key is removed |
| `BeginPublish`, `Clear`, `Empty`, `Write`, `StopPublish` | `publish`: identity, origin and keys; stale files removed; each file is truncated, then written |
| `BeginInspection`, `Fetch`, `EndInspection` | the resolver: four artifacts, each from where the earlier ones say, a fetch may fail; `Verdict` compares them |

### Run

| Run | Shows | Distinct states |
|---|---|---|
| `home` | two processes of the home, two publishers, one reader: types, `RowsHaveFiles`, `CardsKept`, `OneSender`, `NoFalseMismatch`, `WholeBundle`, `SiteAsCards` | 2,383,644 |

*Bounds.* Four commands, publications and inspections in all (`MaxTogether`), of
which three may be publications and inspections: an initialisation that breaks
off, one that completes it and a publication with a reader; or a home and two
publications, one after the other or at the same time, with a reader over both.
Two processes, two publishers, one reader, of which at most two commands and
publications run at the same time (`MaxWriters`) and the reader besides them:
two commands, two publications, or one of each. One name a user may give; the
smallest and the largest tier; the origin the files are served at, which the
user may give or leave to the last publication.

*Conditions.* `CardsKept`, `OneSender`, `NoFalseMismatch` and `SiteAsCards` hold
unless `raced`: no two commands have made parts of the home at the same time.
Nothing in the code prevents that; two initialisations that overlap leave two
identities, and two exports that overlap may leave a profile whose private key
is gone. What the properties show is that overlapping is the only way: a command
that is broken off anywhere, and any commands after it, keep the promise.
`RowsHaveFiles` holds without the condition, but asks only that there is some
private key: which one, `CardsKept` says. `NoFalseMismatch` also asks that
the site was published under the origin it is served at.

*Two publications at once.* Nothing in `publish` keeps two apart. Each removes the
files its tier does not have, and the other's may be among them: one that has such
a file open goes on writing what nobody sees ("lost"). Two that write the same file
truncate it one after the other and may write a shorter text over a longer one,
whose end remains (`Mixed`): JSON with something behind it is not read, a page is.
So after an overlap the site may be a mixture; `WholeBundle` says what holds all the
same: nothing of an earlier bundle is left, and a publication that ran alone,
whatever ones before it were broken off, leaves exactly its own. The removal of the
stale files, at most three, is one step here.

## 8. The chats: `Plugin`

`/linkclaw-thread`, `/linkclaw-message` and `/linkclaw-reply` each run the binary
several times: the contacts are listed and the name resolved, then the message
is sent. Meanwhile other chats and other commands go on.

| Variables | Code |
|---|---|
| `contacts` | `contacts`, by canonical id: name, whether it is a stranger (status "discovered"), whether it has an encryption key |
| `inbox`, `shown` | `runtime_conversations`, the latest first; the status the inbox shows with each (`runtime_contacts.trust_state`) |
| `detached` | contacts removed and perhaps known again, whose runtime row still has the old contact id |
| `context` | the contact addressed last, one for the home, not for the chat |
| `command` | what each chat waits for |
| `sent`, `cardless` | histories: what the last step sent; who was removed, or made known without a card, since the last card |

| Actions | Code (`openclaw-plugin/src/commands.ts` unless said otherwise) |
|---|---|
| `AskThread`, `AskMessage`, `AskReply` | the command is parsed; a remembered contact takes the place of the one typed in a reply |
| `Choose`, `Recent` | `resolveReplyOptions`: does the first word name a contact? if not, the latest conversation that is no stranger's |
| `Resolve` | `resolveContactIdentifier`: one exact match, or else one partial match, becomes its id; several are an error; none is passed on as it is. The result is remembered |
| `Deliver`, `Fail` | `message send`, which takes an id or the exact name of one contact, and needs its encryption key; any error |
| `Arrive` | a message is stored, of a stranger if need be (`message/service.go`, `ensureIncomingContact`) |
| `Save` | a card is imported: name, status and key (`card/service.go`) |
| `Import` | `/linkclaw-import`, `known refresh`, or a connection to a peer that is no contact yet: name and status, and no key (`importer/service.go`); a key that is there stays |
| `RemoveContact` | `known rm`: the contact goes, its conversation and its runtime row stay (`known/service.go`) |
| `Restart` | the host loads the plugin anew |

| Run | Shows | Distinct states |
|---|---|---|
| `plugin` | two chats, two contacts that may have the same name: types, `ReachesMeant`, `FallbackSendable` | 1,727,831 |
| `reply_misread` | **violation** of `RepliesAsWritten`: with a contact remembered, a reply to a named contact goes to the remembered one, and the first word of one that names nobody is cut off | |

`ReachesMeant` compares whom a text goes to with whom its reference stood for when
it was resolved, several steps before: in between that contact may be renamed or
removed, another imported under its name, and the other chat may remember somebody
else. It holds because the reference that is passed on and remembered is an id; the
mutant that passes on the word as it was typed is found.

`FallbackSendable` has two exceptions, which are what the code does:

- A contact that was imported without a card is no stranger, so its conversation
  is a candidate for a bare reply (`commands.ts:2562`), but it has no encryption key
  and `message send` refuses it.
- After `known rm` the conversation of the removed contact is still chosen by a
  bare reply if it is the latest, although the plugin's README speaks of the most
  recent *known* conversation (`src/openclaw-plugin/README.md:367`, `:373`). The send
  fails, and the reference is remembered all the same, so that later bare replies
  fail, too. If the peer is made known again, it gets a new contact id, and with it a
  conversation that inbox and thread do not show, since the runtime contact keeps the
  old one (`detached`).

Outside of these - the contact had a card, and was not removed since - no stranger
who writes in between, no refresh and no rename takes the fallback away.

*Bounds.* Two peers are enough for a name that two contacts have, two chats for a
contact that the other chat has remembered. The run has one name and exact matches;
names that contain the word typed are in `reply_misread`, whose violation needs one
chat, and in the proofs, which are for any names and words.

## 9. Proofs

Every invariant and every action property that a run without fairness checks, and
both refinements, are theorems; what TLC alone has checked is liveness and the two
violations. `SerialAgree` and `AuditComplete` are proved of the specifications
their runs use, in which no process stops or nothing but the network fails.

### `Recovery_proofs`

For every set of peers, keys, messages, events, relays and processes, every
order of the routes and every pull limit:

| Theorem | Establishes |
|---|---|
| `TypeCorrect` | `Spec => []TypeOK` |
| `ObservedAreStored` | `Spec => []ObservedStored` |
| `RecoveryImplementsInbox` | `Spec => Promise!Spec`, the refinement |
| `AckedAreStored` | `Spec => []AckedStored` |
| `CursorsAreStored` | `Spec => []CursorStored` |
| `PassedAreStored` | `Spec => []NostrPassedStored` |
| `KeysArePinned` | `Spec => KeysPinned` |
| `CountsAreNew` | `Spec => UnreadCountsNew` |

*Assumptions.* Those of `Recovery`, which TLC evaluates on every run: the tables
that describe events are functions of the right type, stamps are distinct, the
set of events is finite, the special values differ from the others.

*Arguments.* `TypeOK` is inductive. For the observations and the refinement the
inductive invariant is `CopyInv`: what a process still carries from its
transaction (`seen`, `convs`, `rows`, the direct envelope) is stored, each stored
copy is a copy of its message, and each row belongs to a stored copy and has its
status; it is needed because the rows are written long after the transaction, by
a process that knows only its own locals. For the acknowledgements and cursors it
is `CursorInv`, the conjunction of `MailboxInv` - relays are in stamp order, and
everything up to the acknowledged position, the cursor, or with a stamp up to the
checkpoint is *settled*: stored, or not addressed to this home - and, for every process, `JobInv`: what it has
read, pulled or is about to save lies in the settled part, too, as soon as its
transaction has committed. The step that matters is the commit: a batch is a
gap-free piece of the mailbox that starts where everything is settled, and an
event of it is skipped only if it is observed (hence stored), misaddressed, or at
most the checkpoint (hence settled). Each invariant has one lemma per action; the
step of each process leaves the invariants of the others alone because settled
positions only grow.

A Nostr relay is another matter: it is asked by second, returns what is there in
any order, and forgets nothing, so a pull sees the same events again and again.
`NostrInv` says of the cursor that everything of an earlier second is *passed* -
stored, not addressed to this home, or of a sender who was not bound at the start -
and of the checkpoint that everything up to its stamp is; and of each running
process the same of what it is about to save, and of what it has pulled that this
would be so once its batch has committed (`JobPassed`). What is saved must also be
the second or the stamp of an event the relay holds (or 0): that is what makes an
event that arrives later, with a later stamp, not be passed unseen. The step that
matters is the pull: it has every event since the cursor, because there are no
more than it may return, which is a fact about cardinalities (`PullsAll`).

`NostrInv` was an invariant of two runs of TLC before it was proved.

`KeysPinned` and `UnreadCountsNew` are about one step; their lemmas say what a
batch does to the rows of a contact (`BatchPinned`, `BatchCounted`). For the counts
that is a bijection between the events a batch stores and the messages that are
new: of the copies of a message in a batch one comes before the others, because a
relay holds an event once (`RelayOnce`).

*Only model-checked.* `RecoverableStored` and `MailboxDrained`, which are
liveness.

### `Send_proofs`

For every set of messages, contacts, relays, keys and mailboxes, whatever the
lists of routes of the contacts:

| Theorem | Establishes |
|---|---|
| `TypeCorrect` | `Spec => []TypeOK` |
| `RouteShownHolds` | `Spec => []RouteHolds` |
| `AuditIsTrue` | `Spec => []AuditTrue` |
| `LastRouteHasWorked` | `Spec => []LastRouteTrue` |
| `EarliestRouteOnly` | `Spec => []EarliestRoute` |
| `TablesAgree` | `Spec => []LegacyAgrees` |
| `InboxAgrees` | `Init /\ [][Running]_vars => []SerialAgree`, when no process stops; direct deliveries included |
| `AttemptsComplete` | `CalmSpec => []AuditComplete`, when nothing but the network fails |
| `SendImplementsOutbox` | `Spec => Promise!Spec`, the refinement |

*Assumptions.* `ContactsAssumption` gives the constants their types;
`RoutesAssumption` keeps direct, Nostr and mailbox routes apart.

*Arguments.* `TypeOK` needs that the index of the group being tried stays in
the plan, and the plan depends on a local of the process (`recent`): `PlanSame`
says that it does not change once it is used. The inductive invariant `SendInv`
is a conjunction per message: nothing has left before the row exists (`Unsent`);
the row is absent in the first pass over the runtime tables and pending until the
second (`RowInv`); the outcome to be written is a route that has taken the
message, or a failure (`OutcomeInv`); the acceptances collected so far are true
(`CallInv`); and so are the route shown and the recorded successes
(`ShownInv`, `AuditInv`), which moreover are not forgotten by the steps between
recording and writing. It is needed because an acceptance, the attempt and the
row are written in different steps and each knows only the locals of the process.
Steps of other messages leave the invariant alone (`Elsewhere`), since routes
only ever take more. `PreferInv` adds the last successful route, which a process
may have read long before it writes it back.

`ReachInv` says what a message can have reached, or still reach by a request that
was given up, when a group is tried: nothing before the first, the direct route
alone while that is tried, no mailbox while the Nostr relays are. It rests on the
order of the plan (`PlanOrder`). `LegacyInv` says of a message whose row is
"queued" that its mailbox has it and that the send is still to say so or has; a
mailbox is a group of its own (`AloneInv`), so that nothing refused can speak
against it. `SerialInv` says where the two tables of conversations may differ
while the one process is between them, and that the snapshot it will write is
still true or shows one unread message of a direct delivery (`Shows`); that nobody
else runs then is `OneActive`. `CalmInv`
says that whatever has the message is in the audit or about to be (`Accounted`)
and that the groups before the one being tried have failed, one row for each of
their routes (`FailedBefore`).

*Only model-checked.* `PendingSettles`, which is liveness.

### `Contacts_proofs`

For every set of peers, commands, levels and flags, every bound on time and ids:

| Theorem | Establishes |
|---|---|
| `TypeCorrect` | `Spec => []TypeOK` |
| `RowsHaveContacts` | `Spec => []NoOrphans` |
| `VouchingIsTheUsers` | `Spec => OnlyUserVouches` |
| `VerdictsStay` | `Spec => VerdictKept` |
| `ConnectionsKeepProfile` | `Spec => ConnectKeepsProfile` |
| `DecisionsStay` | `Spec => DecisionStays` |

*Assumptions.* `BookAssumption` and `RowsAssumption`: "unknown" is a level, no
flags are a set of flags, and `None` is no row.

*Arguments.* `TypeOK` is inductive; together with `NoOrphans` and `IdsDistinct`
- two contacts do not share a row id, and none has an id not yet given out - it is
the invariant of the action properties. `IdsDistinct` is needed because
`trust_records` goes by row id: without it a decision on one peer could show in
the record of another. What is said of a peer (`Said`) lies in four places; the
lemma of each action says what it can add to each of them. For `DecisionsStay` an
action either leaves the peer's event and row as they are (`SameRows`), or is a
decision, an inspection or a connection, one lemma each: an inspection writes its
own time stamp into the row, so that one from before the decision cannot hide it,
and a connection keeps the stamp of a row that is there.

### `Directory_proofs`

For every set of peers, relays, pages and cards, every bound on time and
commands:

| Theorem | Establishes |
|---|---|
| `TypeCorrect` | `Spec => []TypeOK` |
| `FreshnessIsEarned` | `Spec => []FreshEarned` |
| `FactsAreOwn` | `Spec => []OwnFactsOnly` |
| `BindingsOfOnePage` | `Spec => []BindingsWhole` |
| `ConnectionsKeepRelay` | `Spec => ConnectKeepsRelay` |
| `WarningsCount` | `Spec => []WarningsLower` |
| `LimitsAreFair` | `Spec => []LimitKeepsFreshest` |

*Assumptions.* `DirectoryAssumption` (relays are numbered, as the rows of a table
that is read in order; a page with a sign of Nostr names a key; a connection is
fresh for less than a day), `RowsAssumption` (`None` is no row and no page) and,
for the lists, `ListAssumption`: finitely many peers, and a trust table whose
levels and flags are read as the code does, a level it does not know as unknown
and a flag it does not know as some other.

*Arguments.* The types need more than themselves: a row is fresh until a day
after a command's time, and to say that this is a time one has to know that the
command's time has passed (`TimesPassed`) and that inspections were read in the
past (`HistoryOK`). A row travels from the table into a command and back, so the
invariants of `FreshEarned` and `OwnFactsOnly` say of the row a command carries
what they say of a row of the table (`CarriesOwn`, `CommandsOwn`): it may be
written back long after the table's own row has changed. `ConnectKeepsRelay`
rests on `OwnFactsOnly`. `Least_proofs` shows that a finite set of numbers has a
least element, from which it follows that the first of several relays is one of
them.

What a list shows is a function of the rows, so its two theorems need the types
alone and are about any rows and any trust table. Penalties add up flag by flag
(`PenaltyGrows`) and the confidence follows the score (`ConfidenceFollows`).
`Precedes` is a strict order, total on entries of different peers
(`PrecedesOrders`), so an entry that follows another has more before it, and the
number of those before it is an injection of n entries into 0 .. n-1
(`RankFollows`, `RankTypes`). It therefore leaves no number out, which is why as
many entries as the limit rank below it (`FindsAsMany`).

*Only model-checked.* Nothing of the run `directory`.

### `Home_proofs`

For every set of processes and names, every bound on commands:

| Theorem | Establishes |
|---|---|
| `TypeCorrect` | `Spec => []HomeTypeOK` |
| `RowsKeepFiles` | `Spec => []RowsHaveFiles` |
| `CardsAreKept` | `Spec => []CardsKept` |
| `SenderIsOne` | `Spec => []OneSender` |

*Assumptions.* `HomeAssumption`: the bound is a number, and the special values
are no numbers and no names.

*Arguments.* A command looks something up, and makes and inserts it several steps
later. `HomeInv` says of each process what it still relies on then: the file of
the row it is about to insert is there (`Prepared`), what it has found stays in
its table (`Found`), and nothing has been made with its number yet (`Unused`).
The last needs that a number stands for one command (`Numbered`), as random ids
do in the code. That gives the types and `RowsHaveFiles`, with any overlap. The
other two hold only without one: `CalmInv` adds, unless `raced`, that at most one
process is making anything, that what it inserts is younger than every identity
there, and that identities, keys and secrets are one each. The step that matters is
an insertion: it is the step of the only maker, so what that process had missed
when it looked (`Alone`) is still missing, and the oldest identity and its only
key remain what the cards say. A command that breaks off leaves a file too much,
which the invariant allows.

### `Site_proofs`

For every set of publishers, readers, origins and tiers as well:

| Theorem | Establishes |
|---|---|
| `SiteIsHome` | `SiteSpec => Spec`, with which the theorems above hold of a home with a site |
| `SiteTypeCorrect` | `SiteSpec => []TypeOK` |
| `MismatchIsReal` | `SiteSpec => []NoFalseMismatch` |
| `SiteSaysAsCards` | `SiteSpec => []SiteAsCards` |
| `WholeIsWhole` | `SiteSpec => []WholeBundle`, for any number of publications at once |

*Assumptions.* `SiteAssumption`: tiers are those of the code, the files are served
at an origin a user may give, and the special values differ and are no origin.
`PublicationsAssumption`: `None` is no publication.

*Arguments.* `SiteInv` says, unless `raced`, that every copy of a bundle - on the
site, in the hands of a publisher or of a reader - names the oldest identity, its
one key and an origin that was published. Copies live long: a reader may hold one
of a bundle that has been replaced twice. They agree because `CalmInv` keeps the
oldest identity and its key as they were when the bundle was compiled. For
`WholeBundle` publications may overlap in any number. The invariant says for each
that runs: those that run besides it are among the bundles it has overlapped with
(`Met`); what it has already written, and what it has removed, is now its own
bundle's, none, or of one it has met (`Under`); and as long as it has met nobody,
exactly its own (`OnlyOwn`). What remains at its end is the property. A second
publication that begins is met by all that run before it writes anything.

*Only model-checked.* Nothing of the run `home`.

### `Plugin_proofs`

For any number of chats, contacts and words, whatever the words are part of:

| Theorem | Establishes |
|---|---|
| `TypeCorrect` | `Spec => []TypeOK` |
| `SentAsMeant` | `Spec => []ReachesMeant` |
| `FallbacksSend` | `Spec => []FallbackSendable` |

*Assumptions.* `PeersAssumption`: a home has finitely many contacts;
`NamesAssumption`: nobody goes by the id of another, as a name that begins with
"did:" would; `NoneAssumption`: `None` is no contact.

*Arguments.* That nobody is listed twice is part of the type of `inbox`, and it is
what lets a conversation be moved to the front by removing its first occurrence
(`FrontOnce`). For `ReachesMeant` the invariant is that a command that is about to
send, and whose reference stood for a contact, has the id of that contact
(`SendsById`), and that an id is nobody else's name (`OwnNames`); what the binary
then looks up can be that contact or nobody. `FallbackInv` follows the key of a
contact: unless it is in `cardless`, a contact that is known has a key
(`KnownSendable`), so has one whose conversation is shown as known, also when the
row was written long before (`ShownSendable`), and so has the one a command has
fallen back to while others go on (`FellBack`). The lemma of each step shows that
it takes no key away without noting it in `cardless` (`Keeps`).

*Only model-checked.* The violation `RepliesAsWritten`.

## 10. Where code and documents differ

Two differences are shown by a run and quoted in `findings`. The others were met
while the models were written, at the lines given; the properties above state
the conditions they leave.

| Code | Document |
|---|---|
| A message that arrives after one with a later `sent_at` is at or below the checkpoint: skipped, and acknowledged (`message/runtime_bridge.go:1737`). Of more than 50 events on a relay the oldest are passed over (`:1386`). One that does not verify holds up all behind it (`:1744`). | a later sync restores the message (`docs/agent-social-p0/agent-society-nostr-recoverable-async-messaging-design.md:286`) |
| An event observed on one relay is not observed on another (`runtime_bridge.go:1724`). | one message can have several observations (same document, `:244`) |
| A message a mailbox has accepted is shown as failed if its row cannot be updated (`message/service.go:1978`). | one success is enough (same document, `:206`) |
| Every mailbox route writes to the first mailbox (`message/service.go:1936`). | after a failure the next route is tried (`agent-society-p0-transport-implementation-spec.md:293`) |
| An attempt that cannot be recorded is dropped (`runtime/service.go:450`). | all key outcomes get into the audit (same document, `:257`, `:368`) |
| A direct call has no deadline (`discovery/libp2p/session.go:108`). | a stable fallback to store-forward (same document, `:366`) |
| A send writes the unread count of its snapshot over that of a sync (`runtime_bridge.go:1119`); a direct message sets it to 1 (`:1250`). | unread accounting is the read model's (`docs/arch/agent-social-runtime-api-and-roadmap.md:221`, `:347`) |
| A decision is written to `trust_records` and the log; what `inspect-trust` shows is chosen between the log and another table, by time (`trust/service.go:218`), so that an import or a refresh after the decision hides it (`importer/service.go:395`). | `trust_records` is the source of truth (`agent-society-p0-trust-discovery-workstreams-and-acceptance.md:331`) |
| A refresh that finds another identity marks the contact's `trust_records`, and in the runtime table the row of the other identity (`importer/service.go:395`, `:1020`), so that `inspect-trust` of the contact does not show the mismatch. | summaries show a mismatch as a risk (same document, `:346`) |
| A connection overwrites the flags of the runtime row with those of the profile it has read, if there are any (`message/service.go:1425`). | existing flags are not overwritten (`t16-connect-promotion-semantics.md`, "Trust promotion") |
| A bare reply takes the latest conversation whose contact is not shown as discovered, also that of a contact that was removed or has no encryption key (`openclaw-plugin/src/commands.ts:2562`). | it targets the most recent known conversation (`src/openclaw-plugin/README.md:367`, `:373`) |
| The program writes Nostr bindings of peers only, under its own self id (`importer/service.go:507`, `nostrbindings/store.go:41`); a card presents what it finds there. | a home announces its own Nostr keys (`...-async-messaging-design.md:71-75`, `:126-131`); they are written by hand (`nostr-two-machine-real-test-sop.md:163-184`) |

## 11. What is not modelled

- *Registry* and *index*: one upsert transaction per card or identity, no state
  between requests; the inspection of the index is that of `Site`.
- *Schema migration*: a second process that applies the same version fails at
  its row and rolls back, which to the other modules is a command that ends in
  an error.
- *Transports, cryptography, command line, servers*: no state of their own that
  a property could be about. The verdicts and answers they produce are inputs.
- *Discovery sources*: in-process maps that no command fills. *Trust policy*: a
  formula that no command calls.
- *Read models*: the queries behind inbox, outbox, thread and status only read;
  the properties are about the rows. The filters of `list-discovery` by
  capability, source and freshness only leave entries out.
- *The plugin's other commands* (those that `Plugin` does not have) start the binary and format what it prints. Its
  sync timer is why `Recovery` has several sync processes.
- Columns no property reads: names, previews, times, `message_sync_cursors`
  (written, never read), the headers file and the manifest of a bundle, hints
  for direct connections, transport fields from the environment.
- Which relays and keys the home's own card presents (`nostrbindings`): the
  program writes no row that says so, see section 10.
- The branch of `EnsureSelfProfile` for a profile without a key file is for rows
  of an earlier version.
- In `Recovery`: `known remove`, which deletes a contact with its pinned key and
  leaves its messages; `Contacts`, `Directory` and `Plugin` have it, each for its own
  tables. The runtime rows for contacts and for the own identity, which a
  sync also writes and no step of it reads; routes listed when a sync starts are
  constant, although an import may add one for the next sync.
- In `Send`: `runtime_presence` and `message_delivery_attempts`, which a send
  writes and no step of it reads, and the other columns of the runtime contact.
  The routes of a contact are constant while a message is being sent; how they
  come about is in `Directory`.
