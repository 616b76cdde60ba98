-------------------------------- MODULE Home --------------------------------
(***************************************************************************)
(* Who a LinkClaw home is: its identity, its keys and its messaging        *)
(* profile.  "init", "card export" and the message commands each look for  *)
(* what they need and make what they do not find: first a file in keys/,   *)
(* then, by a statement of its own, the row that stands for it.  Nothing   *)
(* locks the home, so that commands overlap, and any of them may stop      *)
(* between two statements.                                                 *)
(*                                                                         *)
(* A command is numbered when it takes its time stamp, and what it makes   *)
(* takes its number: the self id, the signing key, the encryption key and  *)
(* the Nostr key are random in the code, and a command makes one of each   *)
(* at most.                                                                *)
(***************************************************************************)
EXTENDS Integers, FiniteSets, FiniteSetsExt

CONSTANTS
    Processes,   \* processes that run a command
    Names,       \* canonical ids a user may give to "init"
    MaxCommands, \* bound: commands begun
    None

ASSUME HomeAssumption ==
    /\ MaxCommands \in Nat
    /\ None \notin Nat
    /\ None \notin Names

VARIABLES
    begun,      \* commands begun
    files,      \* private key files of signing and Nostr keys
    keys,       \* keys
    identities, \* self_identities
    profiles,   \* self_messaging_profiles: self id -> public encryption key
    secrets,    \* the file <self id>.messaging.x25519: the private half of a key
    command,    \* what each process is about
    cards,      \* history: cards exported
    senders,    \* history: Nostr keys that messages were sent with
    raced       \* history: two commands have made parts of the home at once

homeVars == <<begun, files, keys, identities, profiles, secrets, command, cards, senders, raced>>

-----------------------------------------------------------------------------
(* Rows. *)

Numbers == 1 .. MaxCommands

\* A key of the self id owner; stamp stands for created_at.
KeyRow == [type : {"self", "nostr"}, owner : Numbers, key : Numbers, stamp : Nat]

\* An identity is named by its first key (a did:key), or as the user said.
Identity == [self : Numbers, name : Numbers \cup Names]

Card == [self : Numbers, name : Numbers \cup Names, key : Numbers, encryption : Numbers]

Idle == [step |-> "idle"]

Steps == {"find", "name", "key", "keyRow", "identityRow", "profile", "secret", "profileRow",
          "nostr", "nostrRow"}

\* What a command looks for, or is about to make, and what it has found.
Running ==
    LET Command(steps, selves) ==
          [step : steps, kind : {"init", "export", "message"}, number : Numbers,
           name : Names \cup {None}, self : selves, key : Numbers \cup {None},
           stamp : Nat, newborn : BOOLEAN]
    IN  Command({"find", "name"}, {None}) \cup Command(Steps \ {"find", "name"}, Numbers)

Init ==
    /\ begun = 0
    /\ files = {}
    /\ keys = {}
    /\ identities = {}
    /\ profiles = [s \in Numbers |-> None]
    /\ secrets = [s \in Numbers |-> None]
    /\ command = [p \in Processes |-> Idle]
    /\ cards = {}
    /\ senders = {}
    /\ raced = FALSE

HomeTypeOK ==
    /\ begun \in 0 .. MaxCommands
    /\ files \subseteq {"self", "nostr"} \X Numbers
    /\ keys \subseteq KeyRow
    /\ identities \subseteq Identity
    /\ profiles \in [Numbers -> Numbers \cup {None}]
    /\ secrets \in [Numbers -> Numbers \cup {None}]
    /\ command \in [Processes -> {Idle} \cup Running]
    /\ cards \subseteq Card
    /\ senders \subseteq Numbers \X Numbers
    /\ raced \in BOOLEAN

-----------------------------------------------------------------------------
(* What the home is. *)

KeysOf(type, self) == {row \in keys : row.type = type /\ row.owner = self}

\* The key created first.
OldestKey(rows) == (CHOOSE row \in rows : \A other \in rows : row.stamp <= other.stamp).key

\* Mutant: the last one.
Newest(of) == CHOOSE i \in of : \A j \in of : i.self >= j.self

\* The identity of the command that took its time stamp first: that of "card
\* export", and of "init" without a name.
Oldest(of) == CHOOSE i \in of : \A j \in of : i.self <= j.self

\* The message commands join identity, profile and keys: the oldest identity
\* that has a profile and a key, with any of its keys.
Sendable == {i \in identities : profiles[i.self] # None /\ KeysOf("self", i.self) # {}}

\* Mutant: the owner's keys of any type.
SignersOfAnyType(self) == {row.key : row \in KeysOf("self", self) \cup KeysOf("nostr", self)}

SignersOf(self) == {row.key : row \in KeysOf("self", self)}

\* A command that has missed something and not made all of it.
Making(p) ==
    /\ command[p] # Idle
    /\ command[p].newborn \/ command[p].step \in {"keyRow", "identityRow", "secret", "profileRow", "nostrRow"}

\* Something is missing: is another command making it, too, or has one that
\* began later made a home?
Miss(p) ==
    raced' = (raced \/ (\E q \in Processes \ {p} : Making(q))
                    \/ \E i \in identities : i.self > command[p].number)

\* "card export" ends with the card of the identity, its key and its encryption
\* key; "init" makes none.
Export(p, encryption) ==
    cards' =
        IF command[p].kind # "export" THEN cards
        ELSE cards \cup {[self |-> command[p].self,
                          name |-> (CHOOSE i \in identities : i.self = command[p].self).name,
                          key |-> command[p].key, encryption |-> encryption]}

\* A command takes its number.
Count == begun < MaxCommands /\ begun' = begun + 1

Proceed(p, step) == command' = [command EXCEPT ![p].step = step]

-----------------------------------------------------------------------------
(* Identity. *)

Begin(p) ==
    /\ command[p] = Idle
    /\ Count
    /\ \E kind \in {"init", "export", "message"}, name \in Names \cup {None} :
         /\ name # None => kind = "init"
         /\ command' = [command EXCEPT ![p] =
                           [step |-> IF name = None THEN "find" ELSE "name", kind |-> kind,
                            number |-> begun + 1, name |-> name, self |-> None, key |-> None,
                            stamp |-> 0, newborn |-> FALSE]]
    /\ UNCHANGED <<files, keys, identities, profiles, secrets, cards, senders, raced>>

\* Mutant: that there is none is not looked at.
FindSelfAnyway(p) ==
    /\ command[p].step = "find"
    /\ command[p].kind # "message"
    /\ command' = [command EXCEPT ![p].self = IF identities = {} THEN None ELSE Oldest(identities).self,
                                  ![p].step = "key"]
    /\ UNCHANGED <<begun, files, keys, identities, profiles, secrets, cards, senders, raced>>

\* "init" without a name, and "card export", take the oldest identity; if there
\* is none, "init" thinks of a self id, and "card export" ends in an error.
FindSelf(p) ==
    /\ command[p].step = "find"
    /\ command[p].kind # "message"
    /\ IF identities # {}
       THEN /\ command' = [command EXCEPT ![p].self = Oldest(identities).self, ![p].step = "key"]
            /\ UNCHANGED raced
       ELSE /\ command[p].kind = "init"
            /\ command' = [command EXCEPT ![p].self = command[p].number, ![p].newborn = TRUE,
                                          ![p].step = "key"]
            /\ Miss(p)
    /\ UNCHANGED <<begun, files, keys, identities, profiles, secrets, cards, senders>>

\* "init --canonical-id": the identity of that name.
FindName(p) ==
    /\ command[p].step = "name"
    /\ LET named == {i \in identities : i.name = command[p].name}
       IN  IF named # {}
           THEN /\ command' = [command EXCEPT ![p].self = Oldest(named).self, ![p].step = "key"]
                /\ UNCHANGED raced
           ELSE /\ command' = [command EXCEPT ![p].self = command[p].number, ![p].step = "identityRow"]
                /\ Miss(p)
    /\ UNCHANGED <<begun, files, keys, identities, profiles, secrets, cards, senders>>

\* The identity's row: of its name there may be one.  A newborn's name is made
\* from its key.
InsertIdentity(p) ==
    /\ command[p].step = "identityRow"
    /\ LET self == command[p].self
           name == IF command[p].newborn THEN command[p].key ELSE command[p].name
       IN  /\ \A i \in identities : i.name # name
           /\ identities' = identities \cup {[self |-> self, name |-> name]}
    /\ command' = [command EXCEPT ![p].newborn = FALSE,
                                  ![p].step = IF command[p].newborn THEN "profile" ELSE "key"]
    /\ UNCHANGED <<begun, files, keys, profiles, secrets, cards, senders, raced>>

-----------------------------------------------------------------------------
(* Keys.  A signing key for "init", a Nostr key for the message commands.   *)

\* Signing keys are numbered in the order in which they are made, Nostr keys by
\* the time stamp of the command.
NextStamp ==
    1 + Max({0} \cup {row.stamp : row \in {r \in keys : r.type = "self"}}
                \cup {command[q].stamp : q \in {q \in Processes : command[q] # Idle}})

\* Mutant: the row first, and the file when the row is there.
MakeKeyRowFirst(p, type) ==
    /\ keys' = keys \cup {[type |-> type, owner |-> command[p].self, key |-> command[p].number,
                           stamp |-> NextStamp]}
    /\ UNCHANGED files

\* A new key: its file, which has a name of its own.
MakeKey(p, type) ==
    /\ files' = files \cup {<<type, command[p].number>>}
    /\ UNCHANGED keys

\* The oldest key of the identity; "init" makes one if there is none, and
\* "card export" ends in an error.
FindKey(p) ==
    /\ command[p].step = "key"
    /\ LET rows == KeysOf("self", command[p].self)
       IN  IF rows # {}
           THEN /\ command' = [command EXCEPT ![p].key = OldestKey(rows), ![p].step = "profile"]
                /\ UNCHANGED <<files, keys, raced>>
           ELSE /\ command[p].kind = "init"
                /\ MakeKey(p, "self")
                /\ command' = [command EXCEPT ![p].key = command[p].number, ![p].step = "keyRow",
                                              ![p].stamp = NextStamp]
                /\ Miss(p)
    /\ UNCHANGED <<begun, identities, profiles, secrets, cards, senders>>

InsertKey(p) ==
    /\ command[p].step = "keyRow"
    /\ keys' = keys \cup {[type |-> "self", owner |-> command[p].self, key |-> command[p].key,
                           stamp |-> command[p].stamp]}
    /\ Proceed(p, IF command[p].newborn THEN "identityRow" ELSE "profile")
    /\ UNCHANGED <<begun, files, identities, profiles, secrets, cards, senders, raced>>

-----------------------------------------------------------------------------
(* The messaging profile. *)

\* The row of the identity, if it has one; "init" is done then, and "card
\* export" writes the card.
FindProfile(p) ==
    /\ command[p].step = "profile"
    /\ IF profiles[command[p].self] # None
       THEN /\ command' = [command EXCEPT ![p] = Idle]
            /\ Export(p, profiles[command[p].self])
            /\ UNCHANGED raced
       ELSE /\ Proceed(p, "secret")
            /\ Miss(p)
            /\ UNCHANGED cards
    /\ UNCHANGED <<begun, files, keys, identities, profiles, secrets, senders>>

\* A new pair of encryption keys: the file has the name of the identity, and
\* whatever was in it is gone.
WriteSecret(p) ==
    /\ command[p].step = "secret"
    /\ secrets' = [secrets EXCEPT ![command[p].self] = command[p].number]
    /\ Proceed(p, "profileRow")
    /\ UNCHANGED <<begun, files, keys, identities, profiles, cards, senders, raced>>

\* An identity has one profile: the insertion fails if there is one now.
InsertProfile(p) ==
    /\ command[p].step = "profileRow"
    /\ profiles[command[p].self] = None
    /\ profiles' = [profiles EXCEPT ![command[p].self] = command[p].number]
    /\ command' = [command EXCEPT ![p] = Idle]
    /\ Export(p, command[p].number)
    /\ UNCHANGED <<begun, files, keys, identities, secrets, senders, raced>>

-----------------------------------------------------------------------------
(* Messages. *)

\* A message command takes the identity it sends as, or ends in an error.
FindSender(p) ==
    /\ command[p].step = "find"
    /\ command[p].kind = "message"
    /\ Sendable # {}
    /\ command' = [command EXCEPT ![p].self = Oldest(Sendable).self, ![p].step = "nostr"]
    /\ UNCHANGED <<begun, files, keys, identities, profiles, secrets, cards, senders, raced>>

\* Its Nostr key: the one created first, if there is one.
FindNostrKey(p) ==
    /\ command[p].step = "nostr"
    /\ LET self == command[p].self
           rows == KeysOf("nostr", self)
       IN  IF rows # {}
           THEN /\ senders' = senders \cup {<<self, OldestKey(rows)>>}
                /\ command' = [command EXCEPT ![p] = Idle]
                /\ UNCHANGED <<files, keys, raced>>
           ELSE /\ MakeKey(p, "nostr")
                /\ Proceed(p, "nostrRow")
                /\ Miss(p)
                /\ UNCHANGED senders
    /\ UNCHANGED <<begun, identities, profiles, secrets, cards>>

\* Mutant: the row is not inserted.
SendWithoutRow(p) ==
    /\ command[p].step = "nostrRow"
    /\ senders' = senders \cup {<<command[p].self, command[p].number>>}
    /\ command' = [command EXCEPT ![p] = Idle]
    /\ UNCHANGED <<begun, files, keys, identities, profiles, secrets, cards, raced>>

InsertNostrKey(p) ==
    /\ command[p].step = "nostrRow"
    /\ keys' = keys \cup {[type |-> "nostr", owner |-> command[p].self,
                           key |-> command[p].number, stamp |-> command[p].number]}
    /\ senders' = senders \cup {<<command[p].self, command[p].number>>}
    /\ command' = [command EXCEPT ![p] = Idle]
    /\ UNCHANGED <<begun, files, identities, profiles, secrets, cards, raced>>

-----------------------------------------------------------------------------
\* A command ends with the process, or in an error; the file of a key whose row
\* could not be inserted is removed in an error.
Fail(p) ==
    /\ command[p] # Idle
    /\ \/ UNCHANGED files
       \/ /\ command[p].step = "keyRow"
          /\ files' = files \ {<<"self", command[p].number>>}
       \/ /\ command[p].step = "nostrRow"
          /\ files' = files \ {<<"nostr", command[p].number>>}
    /\ command' = [command EXCEPT ![p] = Idle]
    /\ UNCHANGED <<begun, keys, identities, profiles, secrets, cards, senders, raced>>

Step(p) ==
    \/ Begin(p) \/ FindSelf(p) \/ FindName(p) \/ InsertIdentity(p)
    \/ FindKey(p) \/ InsertKey(p)
    \/ FindProfile(p) \/ WriteSecret(p) \/ InsertProfile(p)
    \/ FindSender(p) \/ FindNostrKey(p) \/ InsertNostrKey(p)
    \/ Fail(p)

Next == \E p \in Processes : Step(p)

Spec == Init /\ [][Next]_homeVars

-----------------------------------------------------------------------------
(* Properties. *)

\* However commands overlap and wherever they stop: a row of the table of keys
\* has its private key in a file, a profile has some private key in its file,
\* and an identity with the name of a key has that key.
RowsHaveFiles ==
    /\ \A row \in keys : <<row.type, row.key>> \in files
    /\ \A s \in Numbers : profiles[s] # None => secrets[s] # None
    /\ \A i \in identities :
         i.name \notin Names => \E row \in KeysOf("self", i.self) : row.key = i.name

\* What a card promises is kept: as long as no two commands have made parts of
\* the home at once, messages are sent as the identity of every card that was
\* ever exported and signed with its key, and the home has the private half of
\* its encryption key, whatever "init" was run or broken off before and after.
CardsKept ==
    ~raced =>
        \A card \in cards :
            /\ Sendable # {} /\ Oldest(Sendable).self = card.self
            /\ SignersOf(card.self) = {card.key}
            /\ secrets[card.self] = card.encryption

\* Under the same condition an identity has one Nostr key, from the first
\* message on.
OneSender ==
    ~raced => \A s, t \in senders : s[1] = t[1] => s = t
=============================================================================
