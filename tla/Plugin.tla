------------------------------- MODULE Plugin -------------------------------
(***************************************************************************)
(* The slash commands of the OpenClaw plugin that address a peer:          *)
(* /linkclaw-thread, /linkclaw-message and /linkclaw-reply.  Several chats *)
(* share one home and one plugin process, which remembers for the home     *)
(* whom was addressed last.  Every command runs the linkclaw binary once   *)
(* or more, and the other chats, messages and imports come in between.     *)
(***************************************************************************)
EXTENDS Integers, FiniteSets, Sequences, SequencesExt

CONSTANTS
    Chats,     \* conversations of the host that use the plugin
    Peers,     \* canonical ids
    Words,     \* what else may be typed where a contact may stand
    Names,     \* the display names on cards and pages
    Includes,  \* the pairs <<name or id, word>> of which the first has the second in it
    None

ASSUME PeersAssumption == IsFiniteSet(Peers)

\* Nobody goes by the id of another.
ASSUME NamesAssumption == Names \cap Peers = {}

VARIABLES
    contacts,  \* contacts, by canonical_id
    inbox,     \* runtime_conversations, the latest first
    shown,     \* runtime_contacts.trust_state, shown with the conversation
    detached,  \* those whose runtime row has the contact_id of a removed contact
    context,   \* replyContextByHome
    command,   \* the command each chat waits for
    sent,      \* history: the message or reply that the last step sent
    cardless   \* history: made known without a card, or removed, since the last card

vars == <<contacts, inbox, shown, detached, context, command, sent, cardless>>

home == <<contacts, inbox, shown, detached, cardless>>

-----------------------------------------------------------------------------
Refs == Peers \cup Words

Idle == [phase |-> "idle"]

Kinds == {"thread", "message", "reply"}

Phases == {"choose", "recent", "resolve", "send"}

\* typed is the first word of a reply, None if all that was typed is its text,
\* ref the contact the command is for, fallback tells that it was not named.
\* meant: the contacts the reference stood for when it was resolved.
Running == [phase : Phases, kind : Kinds, typed : Refs \cup {None},
            ref : Refs \cup {None}, fallback : BOOLEAN, meant : SUBSET Peers]

\* key: the contact has an encryption key.  A discovered contact is a stranger.
Contact == [name : Names \cup Peers, standing : {"discovered", "known"}, key : BOOLEAN]

ASSUME NoneAssumption == None \notin Contact

Sendings == [kind : Kinds, typed : Refs \cup {None}, meant : SUBSET Peers, to : Peers]

Init ==
    /\ contacts = [c \in Peers |-> None]
    /\ inbox = <<>>
    /\ shown = [c \in Peers |-> "none"]
    /\ detached = {}
    /\ context = None
    /\ command = [p \in Chats |-> Idle]
    /\ sent = None
    /\ cardless = {}

TypeOK ==
    /\ contacts \in [Peers -> Contact \cup {None}]
    /\ inbox \in Seq(Peers) /\ IsInjective(inbox)
    /\ shown \in [Peers -> {"none", "discovered", "known"}]
    /\ detached \subseteq Range(inbox)
    /\ context \in Refs \cup {None}
    /\ command \in [Chats -> {Idle} \cup Running]
    /\ sent \in Sendings \cup {None}
    /\ cardless \subseteq Peers

-----------------------------------------------------------------------------
(* Which contact a word stands for. *)

\* A stranger goes by its canonical id.
Fields(c) == {c, contacts[c].name}

Exactly(word) == {c \in Peers : contacts[c] # None /\ word \in Fields(c)}

Partly(word) ==
    {c \in Peers : contacts[c] # None /\ \E f \in Fields(c) : <<f, word>> \in Includes}

Matches(word) == IF Exactly(word) # {} THEN Exactly(word) ELSE Partly(word)

\* An id is taken as it is.
Meant(word) == IF word \in Peers THEN {word} ELSE Matches(word)

-----------------------------------------------------------------------------
(* Commands. *)

Enter(p, kind, typed, phase, ref) ==
    command' = [command EXCEPT ![p] =
                   [phase |-> phase, kind |-> kind, typed |-> typed, ref |-> ref,
                    fallback |-> FALSE, meant |-> {}]]

AskThread(p, word) ==
    /\ command[p] = Idle
    /\ Enter(p, "thread", None, "resolve", word)
    /\ sent' = None
    /\ UNCHANGED <<home, context>>

AskMessage(p, word) ==
    /\ command[p] = Idle
    /\ Enter(p, "message", None, "resolve", word)
    /\ sent' = None
    /\ UNCHANGED <<home, context>>

\* Of several words the first is parsed as the contact.  A remembered contact
\* is taken in its place.
AskReply(p, word, more) ==
    /\ command[p] = Idle
    /\ IF context # None
       THEN Enter(p, "reply", IF more THEN word ELSE None, "resolve", context)
       ELSE IF ~more
       THEN Enter(p, "reply", None, "recent", None)
       ELSE Enter(p, "reply", word, IF word \in Peers THEN "resolve" ELSE "choose", word)
    /\ sent' = None
    /\ UNCHANGED <<home, context>>

\* The contacts are listed: is the first word one of them?
Choose(p) ==
    /\ command[p].phase = "choose"
    /\ command' = [command EXCEPT ![p] =
                      IF Matches(@.typed) # {} THEN [@ EXCEPT !.phase = "resolve"]
                      ELSE [@ EXCEPT !.phase = "recent", !.typed = None, !.ref = None]]
    /\ sent' = None
    /\ UNCHANGED <<home, context>>

FallBackTo(p, c) ==
    command' = [command EXCEPT ![p] =
                   [@ EXCEPT !.phase = "resolve", !.ref = c, !.fallback = TRUE]]

\* Mutant: strangers' are among them.
RecentOfAll(p) ==
    /\ command[p].phase = "recent"
    /\ inbox # <<>>
    /\ FallBackTo(p, inbox[1])
    /\ sent' = None
    /\ UNCHANGED <<home, context>>

\* The latest conversation that is not a stranger's.
Recent(p) ==
    /\ command[p].phase = "recent"
    /\ \E i \in DOMAIN inbox :
          /\ shown[inbox[i]] # "discovered"
          /\ \A j \in 1 .. (i - 1) : shown[inbox[j]] = "discovered"
          /\ FallBackTo(p, inbox[i])
    /\ sent' = None
    /\ UNCHANGED <<home, context>>

\* Mutant: the reference is passed on as it was given.
ResolveKeepsWord(p) ==
    /\ command[p].phase = "resolve"
    /\ LET ref == command[p].ref
           matches == Meant(ref)
       IN  /\ Cardinality(matches) <= 1
           /\ context' = ref
           /\ command' = [command EXCEPT ![p] =
                             IF @.kind = "thread" THEN Idle
                             ELSE [@ EXCEPT !.phase = "send", !.meant = matches]]
    /\ sent' = None
    /\ UNCHANGED home

\* The contacts are listed, and the reference made an id if one of them matches
\* it, and remembered; then the binary is asked for the thread, or to send.
Resolve(p) ==
    /\ command[p].phase = "resolve"
    /\ LET ref == command[p].ref
           matches == Meant(ref)
       IN  /\ Cardinality(matches) <= 1
           /\ \E to \in IF matches = {} THEN {ref} ELSE matches :
                /\ context' = to
                /\ command' = [command EXCEPT ![p] =
                                  IF @.kind = "thread" THEN Idle
                                  ELSE [@ EXCEPT !.phase = "send", !.ref = to,
                                                 !.meant = matches]]
    /\ sent' = None
    /\ UNCHANGED home

\* Mutant: the conversation is listed once more.
ToFrontAgain(c) == <<c>> \o inbox

\* The conversation is the latest now.
ToFront(c) == <<c>> \o RemoveFirst(inbox, c)

\* The runtime rows are written: the contact's row keeps its contact_id, and a
\* conversation with another contact_id is listed nowhere.
Show(c, standing) ==
    /\ inbox' = IF c \in detached THEN inbox ELSE ToFront(c)
    /\ shown' = [shown EXCEPT ![c] = standing]
    /\ UNCHANGED detached

\* message send takes an id or the exact name of a single contact, and one with
\* an encryption key.
Deliver(p) ==
    /\ command[p].phase = "send"
    /\ Cardinality(Exactly(command[p].ref)) = 1
    /\ \E c \in Exactly(command[p].ref) :
         /\ contacts[c].key
         /\ sent' = [kind |-> command[p].kind, typed |-> command[p].typed,
                     meant |-> command[p].meant, to |-> c]
         /\ Show(c, contacts[c].standing)
    /\ command' = [command EXCEPT ![p] = Idle]
    /\ UNCHANGED <<contacts, context, cardless>>

\* The binary answers with an error.
Fail(p) ==
    /\ command[p] # Idle
    /\ command' = [command EXCEPT ![p] = Idle]
    /\ sent' = None
    /\ UNCHANGED <<home, context>>

-----------------------------------------------------------------------------
(* What happens meanwhile. *)

\* A message comes in; of a peer that is no contact it makes a stranger.
Arrive(c) ==
    /\ contacts' = [contacts EXCEPT ![c] =
                       IF @ # None THEN @
                       ELSE [name |-> c, standing |-> "discovered", key |-> FALSE]]
    /\ Show(c, contacts'[c].standing)
    /\ sent' = None
    /\ UNCHANGED <<context, command, cardless>>

\* /linkclaw-connect: a card is imported.
Save(c, name) ==
    /\ contacts' = [contacts EXCEPT ![c] = [name |-> name, standing |-> "known", key |-> TRUE]]
    /\ cardless' = cardless \ {c}
    /\ sent' = None
    /\ UNCHANGED <<inbox, shown, detached, context, command>>

\* /linkclaw-import, known refresh, or a connection to a peer that is no contact
\* yet: a page has no keys.  Without a display name the old one stays.
Import(c, standing, name) ==
    LET old == contacts[c] IN
    /\ contacts' = [contacts EXCEPT ![c] =
                       IF old = None
                       THEN [name |-> name, standing |-> standing, key |-> FALSE]
                       ELSE [name |-> IF name = c THEN old.name ELSE name,
                             standing |-> standing, key |-> old.key]]
    /\ cardless' = IF old # None /\ old.key THEN cardless ELSE cardless \cup {c}
    /\ sent' = None
    /\ UNCHANGED <<inbox, shown, detached, context, command>>

\* known rm: the contact goes, its conversation and its runtime row stay, with
\* a contact_id that no later contact gets.
RemoveContact(c) ==
    /\ contacts[c] # None
    /\ contacts' = [contacts EXCEPT ![c] = None]
    /\ detached' = IF c \in Range(inbox) THEN detached \cup {c} ELSE detached
    /\ cardless' = cardless \cup {c}
    /\ sent' = None
    /\ UNCHANGED <<inbox, shown, context, command>>

\* The host restarts: what was remembered is gone.
Restart ==
    /\ context' = None
    /\ command' = [p \in Chats |-> Idle]
    /\ sent' = None
    /\ UNCHANGED home

Ask(p) ==
    \E word \in Refs :
        \/ AskThread(p, word)
        \/ AskMessage(p, word)
        \/ \E more \in BOOLEAN : AskReply(p, word, more)

Change(c) ==
    \/ \E name \in Names : Save(c, name)
    \/ \E standing \in {"discovered", "known"}, name \in Names \cup {c} :
           Import(c, standing, name)
    \/ RemoveContact(c)

Next ==
    \/ \E p \in Chats : Ask(p) \/ Choose(p) \/ Recent(p) \/ Resolve(p) \/ Deliver(p) \/ Fail(p)
    \/ \E c \in Peers : Arrive(c) \/ Change(c)
    \/ Restart

Spec == Init /\ [][Next]_vars

-----------------------------------------------------------------------------
(* Properties. *)

\* A message or a reply goes to the contact its reference stood for when it was
\* resolved: before the binary looks the contact up, that one may be renamed or
\* removed and another imported under the same name, and another chat may
\* remember somebody else, but none of that sends the text to anybody else.
ReachesMeant == sent # None => sent.meant = {} \/ sent.to \in sent.meant

\* The conversation a bare reply falls back to is one the binary can send to: a
\* stranger who writes last does not catch, or stop, the answer to another, and
\* no later import takes the key away.  Two exceptions: the contact was removed,
\* or was imported without a card (its conversation is still shown as known).
FallbackSendable ==
    \A p \in Chats :
        command[p] # Idle /\ command[p].fallback /\ command[p].ref \notin cardless
            => contacts[command[p].ref] # None /\ contacts[command[p].ref].key

\* The plugin's README: a reply that names a contact goes to that contact, and
\* one that names none goes out as it was typed, as in its example
\* "/linkclaw-reply hello from Alice" after "/linkclaw-thread Bob".
RepliesAsWritten ==
    sent # None /\ sent.kind = "reply" /\ sent.typed # None => sent.to \in Meant(sent.typed)
=============================================================================
