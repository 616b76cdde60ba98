---------------------------- MODULE Home_proofs ----------------------------
(***************************************************************************)
(* Proofs about Home, for any number of processes that run commands, begin *)
(* them at any time and stop at any step, and any names.                   *)
(***************************************************************************)
EXTENDS Home, Least_proofs, TLAPS

-----------------------------------------------------------------------------
(* The oldest and the latest. *)

\* The oldest of some identities is one of them, and none is older.
LEMMA OldestIsOne ==
    ASSUME NEW of, of \subseteq Identity, of # {}
    PROVE  Oldest(of) \in of /\ \A i \in of : Oldest(of).self <= i.self
<1> DEFINE selves == {i.self : i \in of}
<1>1. selves \subseteq Nat /\ selves # {}
  BY HomeAssumption DEF Identity, Numbers
<1>2. \E i \in of : \A j \in of : i.self <= j.self
  <2>1. PICK least \in selves : \A n \in selves : least <= n
    BY <1>1, LeastExists
  <2> QED
    BY <2>1
<1> QED
  BY <1>2 DEF Oldest

LEMMA OldestKeyIsOne ==
    ASSUME NEW rows, rows \subseteq KeyRow, rows # {}
    PROVE  \E row \in rows : OldestKey(rows) = row.key
<1> DEFINE stamps == {row.stamp : row \in rows}
<1>1. stamps \subseteq Nat /\ stamps # {}
  BY DEF KeyRow
<1>2. \E row \in rows : \A other \in rows : row.stamp <= other.stamp
  <2>1. PICK least \in stamps : \A n \in stamps : least <= n
    BY <1>1, LeastExists
  <2> QED
    BY <2>1
<1> QED
  BY <1>2 DEF OldestKey

\* The largest of a bounded set exists.
LEMMA MaxIsOne ==
    ASSUME NEW S, S \subseteq Nat, S # {}, NEW bound \in Nat, \A n \in S : n <= bound
    PROVE  Max(S) \in S
<1> DEFINE gaps == {bound - n : n \in S}
<1>1. gaps \subseteq Nat /\ gaps # {}
  <2>1. ASSUME NEW n \in S
        PROVE  bound - n \in Nat
    <3>1. n \in Nat /\ n <= bound
      BY <2>1
    <3> QED
      BY <3>1
  <2> QED
    BY <2>1
<1>2. PICK least \in gaps : \A gap \in gaps : least <= gap
  BY <1>1, LeastExists
<1>3. PICK most \in S : least = bound - most
  BY <1>2
<1>4. \A n \in S : bound - most <= bound - n
  BY <1>2, <1>3
<1>5. \A n \in S : n <= most
  BY <1>3, <1>4
<1> QED
  BY <1>3, <1>5 DEF Max

-----------------------------------------------------------------------------
(* The invariant. *)

\* The stamps given out have a bound.
Bounded(n) ==
    /\ \A row \in keys : row.stamp <= n
    /\ \A p \in Processes : command[p] # Idle => command[p].stamp <= n

Stamped == \E n \in Nat : Bounded(n)

\* A number stands for one command, and nothing is made with one not given out.
Numbered ==
    /\ \A p \in Processes : command[p] # Idle => command[p].number <= begun
    /\ \A p, q \in Processes :
         p # q /\ command[p] # Idle /\ command[q] # Idle => command[p].number # command[q].number
    /\ \A row \in keys : row.key <= begun
    /\ \A i \in identities : i.self <= begun

\* What a command is about to insert it has, or has named.
Prepared(p) ==
    LET c == command[p]
    IN  /\ c.newborn => c.self = c.number /\ c.kind = "init"
        /\ c.step = "name" => c.name \in Names /\ c.kind = "init"
        /\ c.step = "identityRow" => c.self = c.number /\ (~c.newborn => c.name \in Names)
        /\ c.step = "keyRow" => c.key = c.number /\ <<"self", c.number>> \in files
        /\ c.step = "nostrRow" => <<"nostr", c.number>> \in files
        /\ c.step = "profileRow" => secrets[c.self] # None

\* What a command has found stays in its table.
Found(p) ==
    LET c == command[p]
    IN  /\ c.step \in {"profile", "secret", "profileRow"} \/ (c.newborn /\ c.step = "identityRow") =>
             \E row \in keys : row.type = "self" /\ row.owner = c.self /\ row.key = c.key
        /\ c.kind = "export" /\ c.step # "find" => \E i \in identities : i.self = c.self

\* What a command has yet to insert is not there.
Unused(p) ==
    LET c == command[p]
    IN  /\ c.step \in {"find", "name", "key", "keyRow"} \/ (~c.newborn /\ c.step = "identityRow") =>
             \A row \in keys : row.type = "self" => row.key # c.number
        /\ c.step \in {"find", "nostr", "nostrRow"} =>
             \A row \in keys : row.type = "nostr" => row.key # c.number
        /\ c.newborn \/ c.step \in {"find", "name", "identityRow"} =>
             \A i \in identities : i.self # c.number

Own(p) == command[p] # Idle => Prepared(p) /\ Found(p) /\ Unused(p)

HomeInv ==
    /\ HomeTypeOK
    /\ Stamped
    /\ Numbered
    /\ \A p \in Processes : Own(p)
    /\ RowsHaveFiles

-----------------------------------------------------------------------------
(* Commands. *)

LEMMA Fields ==
    ASSUME NEW c \in Running
    PROVE  /\ c.step \in Steps /\ c.kind \in {"init", "export", "message"}
           /\ c.number \in Numbers /\ c.name \in Names \cup {None}
           /\ c.key \in Numbers \cup {None} /\ c.stamp \in Nat /\ c.newborn \in BOOLEAN
           /\ c.step \in {"find", "name"} => c.self = None
           /\ c.step \notin {"find", "name"} => c.self \in Numbers
           /\ c # Idle
           /\ c = [step |-> c.step, kind |-> c.kind, number |-> c.number, name |-> c.name,
                   self |-> c.self, key |-> c.key, stamp |-> c.stamp, newborn |-> c.newborn]
<1> c.step \in Steps
  BY DEF Running, Steps
<1> c.step # "idle"
  BY DEF Steps
<1> QED
  BY DEF Running, Idle

\* A command of p goes on.
Goes(p, step, self, key, stamp, newborn) ==
    command' = [command EXCEPT ![p] =
                   [step |-> step, kind |-> command[p].kind, number |-> command[p].number,
                    name |-> command[p].name, self |-> self, key |-> key, stamp |-> stamp,
                    newborn |-> newborn]]

\* What is known of the commands then.
Gone(p, step, self, key, stamp, newborn) ==
    /\ command' \in [Processes -> {Idle} \cup Running]
    /\ \A q \in Processes : q # p => command'[q] = command[q]
    /\ command'[p] # Idle
    /\ command'[p].step = step /\ command'[p].self = self /\ command'[p].key = key
    /\ command'[p].stamp = stamp /\ command'[p].newborn = newborn
    /\ command'[p].kind = command[p].kind /\ command'[p].number = command[p].number
    /\ command'[p].name = command[p].name

Ends(p) ==
    /\ command' \in [Processes -> {Idle} \cup Running]
    /\ \A q \in Processes : q # p => command'[q] = command[q]
    /\ command'[p] = Idle

LEMMA GoesOn ==
    ASSUME HomeTypeOK, NEW p \in Processes, command[p] \in Running,
           NEW step \in Steps \ {"find", "name"}, NEW self \in Numbers,
           NEW key \in Numbers \cup {None}, NEW stamp \in Nat, NEW newborn \in BOOLEAN,
           Goes(p, step, self, key, stamp, newborn)
    PROVE  Gone(p, step, self, key, stamp, newborn)
<1> DEFINE c == [step |-> step, kind |-> command[p].kind, number |-> command[p].number,
                 name |-> command[p].name, self |-> self, key |-> key, stamp |-> stamp,
                 newborn |-> newborn]
<1>1. c \in Running
  BY Fields DEF Running
<1>2. c # Idle
  BY <1>1, Fields
<1>3. command' = [command EXCEPT ![p] = c]
  BY DEF Goes
<1>4. command'[p] = c /\ command' \in [Processes -> {Idle} \cup Running]
  BY <1>1, <1>3 DEF HomeTypeOK
<1> QED
  BY <1>2, <1>3, <1>4 DEF Gone, HomeTypeOK

LEMMA EndsThen ==
    ASSUME HomeTypeOK, NEW p \in Processes, command' = [command EXCEPT ![p] = Idle]
    PROVE  Ends(p)
BY DEF Ends, HomeTypeOK

\* The step a process is at tells that it runs a command.
LEMMA Runs ==
    ASSUME HomeTypeOK, NEW p \in Processes, command[p] # Idle \/ command[p].step \in Steps
    PROVE  command[p] \in Running
<1>1. command[p] \in {Idle} \cup Running
  BY DEF HomeTypeOK
<1>2. Idle.step \notin Steps
  BY DEF Idle, Steps
<1> QED
  BY <1>1, <1>2

-----------------------------------------------------------------------------
(* Types. *)

LEMMA NextStampType ==
    ASSUME HomeTypeOK, NEW n \in Nat, Bounded(n)
    PROVE  NextStamp \in 1 .. n + 1
<1> DEFINE S == {0} \cup {row.stamp : row \in {r \in keys : r.type = "self"}}
                \cup {command[q].stamp : q \in {q \in Processes : command[q] # Idle}}
<1>1. \A q \in Processes : command[q] # Idle => command[q].stamp \in Nat
  BY Runs, Fields
<1>2. S \subseteq Nat /\ S # {}
  BY <1>1 DEF HomeTypeOK, KeyRow
<1>3. \A m \in S : m <= n
  BY DEF Bounded
<1>4. NextStamp = 1 + Max(S)
  BY DEF NextStamp
<1> HIDE DEF S
<1>5. Max(S) \in S
  BY <1>2, <1>3, MaxIsOne
<1>6. Max(S) \in Nat /\ Max(S) <= n
  BY <1>2, <1>3, <1>5
<1> QED
  BY <1>4, <1>6

-----------------------------------------------------------------------------
(* What each step does to the commands. *)

LEMMA FindSelfCommand ==
    ASSUME HomeTypeOK, NEW p \in Processes, FindSelf(p)
    PROVE  /\ command[p] \in Running
           /\ \/ /\ identities # {}
                 /\ Gone(p, "key", Oldest(identities).self, command[p].key, command[p].stamp, command[p].newborn)
                 /\ UNCHANGED raced
              \/ /\ identities = {} /\ command[p].kind = "init"
                 /\ Gone(p, "key", command[p].number, command[p].key, command[p].stamp, TRUE)
                 /\ Miss(p)
<1>1. command[p] \in Running
  BY Runs DEF FindSelf, Steps
<1>2. CASE identities # {}
  <2>1. Oldest(identities).self \in Numbers
    BY <1>2, OldestIsOne DEF HomeTypeOK, Identity
  <2>2. Goes(p, "key", Oldest(identities).self, command[p].key, command[p].stamp, command[p].newborn)
    BY <1>1, <1>2, Fields DEF FindSelf, Goes, HomeTypeOK
  <2>3. Gone(p, "key", Oldest(identities).self, command[p].key, command[p].stamp, command[p].newborn)
    BY <1>1, <2>1, <2>2, Fields, GoesOn DEF Steps
  <2> QED
    BY <1>1, <1>2, <2>3 DEF FindSelf
<1>3. CASE identities = {}
  <2>1. Goes(p, "key", command[p].number, command[p].key, command[p].stamp, TRUE)
    BY <1>1, <1>3, Fields DEF FindSelf, Goes, HomeTypeOK
  <2>2. Gone(p, "key", command[p].number, command[p].key, command[p].stamp, TRUE)
    BY <1>1, <2>1, Fields, GoesOn DEF Steps
  <2> QED
    BY <1>1, <1>3, <2>2 DEF FindSelf
<1> QED
  BY <1>2, <1>3

LEMMA FindNameCommand ==
    ASSUME HomeTypeOK, NEW p \in Processes, FindName(p)
    PROVE  /\ command[p] \in Running
           /\ \/ /\ \E i \in identities :
                      Gone(p, "key", i.self, command[p].key, command[p].stamp, command[p].newborn)
                 /\ UNCHANGED raced
              \/ /\ Gone(p, "identityRow", command[p].number, command[p].key, command[p].stamp, command[p].newborn)
                 /\ Miss(p)
<1> DEFINE named == {i \in identities : i.name = command[p].name}
<1>1. command[p] \in Running
  BY Runs DEF FindName, Steps
<1>2. CASE named # {}
  <2>1. Oldest(named) \in identities /\ Oldest(named).self \in Numbers
    BY <1>2, OldestIsOne DEF HomeTypeOK, Identity
  <2>2. Goes(p, "key", Oldest(named).self, command[p].key, command[p].stamp, command[p].newborn)
    BY <1>1, <1>2, Fields DEF FindName, Goes, HomeTypeOK
  <2>3. Gone(p, "key", Oldest(named).self, command[p].key, command[p].stamp, command[p].newborn)
    BY <1>1, <2>1, <2>2, Fields, GoesOn DEF Steps
  <2> QED
    BY <1>1, <1>2, <2>1, <2>3 DEF FindName
<1>3. CASE named = {}
  <2>1. Goes(p, "identityRow", command[p].number, command[p].key, command[p].stamp, command[p].newborn)
    BY <1>1, <1>3, Fields DEF FindName, Goes, HomeTypeOK
  <2>2. Gone(p, "identityRow", command[p].number, command[p].key, command[p].stamp, command[p].newborn)
    BY <1>1, <2>1, Fields, GoesOn DEF Steps
  <2> QED
    BY <1>1, <1>3, <2>2 DEF FindName
<1> QED
  BY <1>2, <1>3

LEMMA InsertIdentityCommand ==
    ASSUME HomeTypeOK, NEW p \in Processes, InsertIdentity(p)
    PROVE  /\ command[p] \in Running
           /\ Gone(p, IF command[p].newborn THEN "profile" ELSE "key", command[p].self,
                   command[p].key, command[p].stamp, FALSE)
<1>1. command[p] \in Running
  BY Runs DEF InsertIdentity, Steps
<1> DEFINE step == IF command[p].newborn THEN "profile" ELSE "key"
<1>2. Goes(p, step, command[p].self, command[p].key, command[p].stamp, FALSE)
  BY <1>1, Fields DEF InsertIdentity, Goes, HomeTypeOK
<1>3. step \in Steps \ {"find", "name"}
  BY DEF Steps
<1>4. command[p].self \in Numbers
  BY <1>1, Fields DEF InsertIdentity
<1> HIDE DEF step
<1>5. Gone(p, step, command[p].self, command[p].key, command[p].stamp, FALSE)
  BY <1>1, <1>2, <1>3, <1>4, Fields, GoesOn
<1> QED
  BY <1>1, <1>5 DEF step

LEMMA ProceedCommand ==
    ASSUME HomeTypeOK, NEW p \in Processes, command[p].step \in Steps \ {"find", "name"},
           NEW step \in Steps \ {"find", "name"}, Proceed(p, step)
    PROVE  /\ command[p] \in Running
           /\ Gone(p, step, command[p].self, command[p].key, command[p].stamp, command[p].newborn)
<1>1. command[p] \in Running
  BY Runs
<1> DEFINE c == command[p]
            next == [step |-> step, kind |-> c.kind, number |-> c.number, name |-> c.name,
                     self |-> c.self, key |-> c.key, stamp |-> c.stamp, newborn |-> c.newborn]
<1>2. [c EXCEPT !.step = step] = next
  BY <1>1, Fields
<1>3. command' = [command EXCEPT ![p] = [c EXCEPT !.step = step]]
  BY DEF Proceed
<1>4. Goes(p, step, command[p].self, command[p].key, command[p].stamp, command[p].newborn)
  BY <1>2, <1>3 DEF Goes
<1> QED
  BY <1>1, <1>4, Fields, GoesOn

LEMMA FindKeyCommand ==
    ASSUME HomeTypeOK, Stamped, NEW p \in Processes, FindKey(p)
    PROVE  /\ command[p] \in Running
           /\ \/ /\ \E row \in KeysOf("self", command[p].self) :
                      Gone(p, "profile", command[p].self, row.key, command[p].stamp, command[p].newborn)
                 /\ UNCHANGED <<files, keys, raced>>
              \/ /\ KeysOf("self", command[p].self) = {} /\ command[p].kind = "init"
                 /\ Gone(p, "keyRow", command[p].self, command[p].number, NextStamp, command[p].newborn)
                 /\ \A n \in Nat : Bounded(n) => NextStamp <= n + 1
                 /\ MakeKey(p, "self")
                 /\ Miss(p)
<1> DEFINE rows == KeysOf("self", command[p].self)
<1>1. command[p] \in Running /\ command[p].self \in Numbers
  BY Runs, Fields DEF FindKey, Steps
<1>2. CASE rows # {}
  <2>1. PICK row \in rows : OldestKey(rows) = row.key
    BY <1>2, OldestKeyIsOne DEF KeysOf, HomeTypeOK
  <2>2. row.key \in Numbers
    BY DEF KeysOf, HomeTypeOK, KeyRow
  <2>3. Goes(p, "profile", command[p].self, row.key, command[p].stamp, command[p].newborn)
    BY <1>1, <1>2, <2>1, Fields DEF FindKey, Goes, HomeTypeOK
  <2>4. Gone(p, "profile", command[p].self, row.key, command[p].stamp, command[p].newborn)
    BY <1>1, <2>2, <2>3, Fields, GoesOn DEF Steps
  <2> QED
    BY <1>1, <1>2, <2>4 DEF FindKey
<1>3. CASE rows = {}
  <2>1. NextStamp \in Nat
    BY NextStampType DEF Stamped
  <2>2. Goes(p, "keyRow", command[p].self, command[p].number, NextStamp, command[p].newborn)
    BY <1>1, <1>3, Fields DEF FindKey, Goes, HomeTypeOK
  <2>3. Gone(p, "keyRow", command[p].self, command[p].number, NextStamp, command[p].newborn)
    BY <1>1, <2>1, <2>2, Fields, GoesOn DEF Steps
  <2>4. \A n \in Nat : Bounded(n) => NextStamp <= n + 1
    BY NextStampType
  <2> QED
    BY <1>1, <1>3, <2>3, <2>4 DEF FindKey
<1> QED
  BY <1>2, <1>3

LEMMA FindSenderCommand ==
    ASSUME HomeTypeOK, NEW p \in Processes, FindSender(p)
    PROVE  /\ command[p] \in Running
           /\ \E i \in Sendable :
                Gone(p, "nostr", i.self, command[p].key, command[p].stamp, command[p].newborn)
<1>1. command[p] \in Running
  BY Runs DEF FindSender, Steps
<1>2. Oldest(Sendable) \in Sendable /\ Oldest(Sendable).self \in Numbers
  <2>1. Sendable \subseteq Identity /\ Sendable # {}
    BY DEF FindSender, Sendable, HomeTypeOK
  <2>2. Oldest(Sendable) \in Sendable
    BY <2>1, OldestIsOne
  <2> QED
    BY <2>1, <2>2 DEF Identity
<1>3. Goes(p, "nostr", Oldest(Sendable).self, command[p].key, command[p].stamp, command[p].newborn)
  BY <1>1, Fields DEF FindSender, Goes, HomeTypeOK
<1>4. Gone(p, "nostr", Oldest(Sendable).self, command[p].key, command[p].stamp, command[p].newborn)
  BY <1>1, <1>2, <1>3, Fields, GoesOn DEF Steps
<1> QED
  BY <1>1, <1>2, <1>4

-----------------------------------------------------------------------------
(* What a step leaves as it is for the others. *)

\* The tables grow, by what has the number of the command.
Grows(p) ==
    /\ keys \subseteq keys'
    /\ \A row \in keys' : row \in keys \/ row.key = command[p].number
    /\ \A file \in files : file[2] # command[p].number => file \in files'
    /\ \A s \in Numbers : secrets[s] # None => secrets'[s] # None
    /\ identities \subseteq identities'
    /\ \A i \in identities' : i \in identities \/ i.self = command[p].number

Steady(p) ==
    /\ command[p] \in Running
    /\ begun' = begun
    /\ \A q \in Processes : q # p => command'[q] = command[q]
    /\ command'[p] # Idle => command'[p].number = command[p].number
    /\ \A n \in Nat : Bounded(n) =>
         /\ \A row \in keys' : row \in keys \/ row.stamp <= n + MaxCommands
         /\ command'[p] # Idle => command'[p].stamp <= n + 1
    /\ Grows(p)

LEMMA OthersOwn ==
    ASSUME HomeInv, NEW p \in Processes, NEW q \in Processes, q # p, Steady(p)
    PROVE  Own(q)'
<1>1. command'[q] = command[q] /\ command[p] # Idle
  BY Fields DEF Steady
<1> SUFFICES ASSUME command[q] # Idle
             PROVE  Prepared(q)' /\ Found(q)' /\ Unused(q)'
  BY <1>1 DEF Own
<1>2. command[q] \in Running /\ Prepared(q) /\ Found(q) /\ Unused(q)
  BY Runs DEF HomeInv, Own
<1>3. command[q].number # command[p].number
  BY <1>1 DEF HomeInv, Numbered
<1>4. Prepared(q)'
  <2>1. command[q].step = "keyRow" => <<"self", command[q].number>> \in files'
    BY <1>2, <1>3 DEF Prepared, Steady, Grows
  <2>2. command[q].step = "nostrRow" => <<"nostr", command[q].number>> \in files'
    BY <1>2, <1>3 DEF Prepared, Steady, Grows
  <2>3. command[q].step = "profileRow" => secrets'[command[q].self] # None
    BY <1>2, Fields DEF Prepared, Steady, Grows
  <2> QED
    BY <1>1, <1>2, <2>1, <2>2, <2>3 DEF Prepared
<1>5. Found(q)'
  <2>1. keys \subseteq keys' /\ identities \subseteq identities'
    BY DEF Steady, Grows
  <2> QED
    BY <1>1, <1>2, <2>1 DEF Found
<1>6. Unused(q)'
  <2>1. \A row \in keys' : row \in keys \/ row.key # command[q].number
    BY <1>3 DEF Steady, Grows
  <2>2. \A i \in identities' : i \in identities \/ i.self # command[q].number
    BY <1>3 DEF Steady, Grows
  <2> QED
    BY <1>1, <1>2, <2>1, <2>2 DEF Unused
<1> QED
  BY <1>4, <1>5, <1>6

LEMMA NumbersStay ==
    ASSUME HomeInv, NEW p \in Processes, Steady(p)
    PROVE  Numbered'
<1>1. command[p] # Idle /\ command[p].number <= begun
  BY Fields DEF Steady, HomeInv, Numbered
<1>2. \A q \in Processes : command'[q] # Idle =>
         command[q] # Idle /\ command'[q].number = command[q].number
  BY <1>1 DEF Steady
<1>3. \A q \in Processes : command'[q] # Idle => command'[q].number <= begun'
  BY <1>2 DEF Steady, HomeInv, Numbered
<1>4. \A q, o \in Processes :
        q # o /\ command'[q] # Idle /\ command'[o] # Idle => command'[q].number # command'[o].number
  BY <1>2 DEF HomeInv, Numbered
<1>5. \A row \in keys' : row.key <= begun'
  BY <1>1 DEF Steady, Grows, HomeInv, Numbered
<1>6. \A i \in identities' : i.self <= begun'
  BY <1>1 DEF Steady, Grows, HomeInv, Numbered
<1> QED
  BY <1>3, <1>4, <1>5, <1>6 DEF Numbered

LEMMA StampsStay ==
    ASSUME HomeInv, HomeTypeOK', NEW p \in Processes, Steady(p)
    PROVE  Stamped'
<1>1. PICK n \in Nat : Bounded(n)
  BY DEF HomeInv, Stamped
<1>2. n + MaxCommands + 1 \in Nat /\ MaxCommands \in Nat
  BY HomeAssumption
<1>3. \A row \in keys' : row.stamp <= n + MaxCommands + 1
  <2> SUFFICES ASSUME NEW row \in keys'
               PROVE  row.stamp <= n + MaxCommands + 1
    OBVIOUS
  <2>1. row.stamp \in Nat
    BY DEF HomeTypeOK, KeyRow
  <2>2. CASE row \in keys
    <3>1. row.stamp <= n
      BY <1>1, <2>2 DEF Bounded
    <3> QED
      BY <1>2, <2>1, <3>1
  <2>3. CASE row.stamp <= n + MaxCommands
    BY <1>2, <2>1, <2>3
  <2> QED
    BY <1>1, <2>2, <2>3 DEF Steady
<1>4. \A q \in Processes : command'[q] # Idle => command'[q].stamp <= n + MaxCommands + 1
  <2> SUFFICES ASSUME NEW q \in Processes, command'[q] # Idle
               PROVE  command'[q].stamp <= n + MaxCommands + 1
    OBVIOUS
  <2>1. command'[q].stamp \in Nat
    <3>1. command'[q] \in Running
      BY DEF HomeTypeOK
    <3> QED
      BY <3>1, Fields
  <2>2. CASE q = p
    <3>1. command'[q].stamp <= n + 1
      BY <1>1, <2>2 DEF Steady
    <3> QED
      BY <1>2, <2>1, <3>1
  <2>3. CASE q # p
    <3>1. command'[q].stamp <= n
      BY <1>1, <2>3 DEF Steady, Bounded
    <3> QED
      BY <1>2, <2>1, <3>1
  <2> QED
    BY <2>2, <2>3
<1>5. Bounded(n + MaxCommands + 1)'
  BY <1>3, <1>4 DEF Bounded
<1> QED
  BY <1>2, <1>5 DEF Stamped

LEMMA SteadyKeeps ==
    ASSUME HomeInv, NEW p \in Processes, Steady(p), HomeTypeOK', Own(p)', RowsHaveFiles'
    PROVE  HomeInv'
BY OthersOwn, NumbersStay, StampsStay DEF HomeInv

-----------------------------------------------------------------------------
(* The invariant holds from step to step. *)

LEMMA OwnNow ==
    ASSUME HomeInv, NEW p \in Processes, command[p].step \in Steps
    PROVE  /\ command[p] \in Running /\ command[p] # Idle
           /\ Prepared(p) /\ Found(p) /\ Unused(p)
           /\ command[p].number \in Numbers /\ command[p].number # None
<1>1. command[p] \in Running /\ command[p] # Idle
  BY Runs, Fields DEF HomeInv
<1>2. command[p].number \in Numbers /\ command[p].number # None
  BY <1>1, Fields, HomeAssumption DEF Numbers
<1> QED
  BY <1>1, <1>2 DEF HomeInv, Own

LEMMA MissType ==
    ASSUME HomeTypeOK, NEW p, Miss(p) \/ UNCHANGED raced
    PROVE  raced' \in BOOLEAN
BY DEF HomeTypeOK, Miss

LEMMA SameRows ==
    ASSUME RowsHaveFiles, UNCHANGED <<keys, profiles, secrets, identities>>, files \subseteq files'
    PROVE  RowsHaveFiles'
BY DEF RowsHaveFiles, KeysOf

\* What is the same in every step of a command that makes nothing.
LEMMA TablesSame ==
    ASSUME HomeInv, NEW p \in Processes, command[p] \in Running,
           UNCHANGED <<begun, files, keys, identities, profiles, secrets>>,
           cards' \subseteq Card, senders' \subseteq Numbers \X Numbers,
           Miss(p) \/ UNCHANGED raced,
           command' \in [Processes -> {Idle} \cup Running],
           \A q \in Processes : q # p => command'[q] = command[q],
           command'[p] # Idle =>
             command'[p].number = command[p].number /\ command'[p].stamp = command[p].stamp,
           Own(p)'
    PROVE  HomeInv'
<1>1. HomeTypeOK'
  BY MissType DEF HomeInv, HomeTypeOK
<1>2. \A n \in Nat : Bounded(n) /\ command'[p] # Idle => command'[p].stamp <= n + 1
  <2>1. command[p] # Idle /\ command[p].stamp \in Nat
    BY Fields
  <2> QED
    BY <2>1 DEF Bounded
<1>3. Steady(p)
  BY <1>2 DEF Steady, Grows
<1> QED
  BY <1>1, <1>3, SteadyKeeps, SameRows DEF HomeInv

LEMMA FindSelfKeeps ==
    ASSUME HomeInv, NEW p \in Processes, FindSelf(p)
    PROVE  HomeInv'
<1>1. /\ command[p] \in Running /\ Prepared(p) /\ Found(p) /\ Unused(p)
      /\ command[p].number # None /\ command[p].self = None /\ command[p].step = "find"
  BY OwnNow, Fields DEF FindSelf, Steps
<1>2. /\ UNCHANGED <<begun, files, keys, identities, profiles, secrets, cards, senders>>
      /\ Miss(p) \/ UNCHANGED raced
      /\ cards' \subseteq Card /\ senders' \subseteq Numbers \X Numbers
  BY DEF FindSelf, HomeInv, HomeTypeOK
<1>3. CASE /\ identities # {}
           /\ Gone(p, "key", Oldest(identities).self, command[p].key, command[p].stamp, command[p].newborn)
  <2>1. Oldest(identities) \in identities
    BY <1>3, OldestIsOne DEF HomeInv, HomeTypeOK
  <2>2. Prepared(p)'
    BY <1>1, <1>3 DEF Prepared, Gone
  <2>3. Found(p)'
    BY <1>1, <1>2, <1>3, <2>1 DEF Found, Gone
  <2>4. Unused(p)'
    BY <1>1, <1>2, <1>3 DEF Unused, Gone
  <2> QED
    BY <1>1, <1>2, <1>3, <2>2, <2>3, <2>4, TablesSame DEF Own, Gone
<1>4. CASE /\ identities = {} /\ command[p].kind = "init"
           /\ Gone(p, "key", command[p].number, command[p].key, command[p].stamp, TRUE)
  <2>1. Prepared(p)'
    BY <1>1, <1>4 DEF Prepared, Gone
  <2>2. Found(p)'
    BY <1>1, <1>2, <1>4 DEF Found, Gone
  <2>3. Unused(p)'
    BY <1>1, <1>2, <1>4 DEF Unused, Gone
  <2> QED
    BY <1>1, <1>2, <1>4, <2>1, <2>2, <2>3, TablesSame DEF Own, Gone
<1> QED
  BY <1>3, <1>4, FindSelfCommand DEF HomeInv

LEMMA FindNameKeeps ==
    ASSUME HomeInv, NEW p \in Processes, FindName(p)
    PROVE  HomeInv'
<1>1. /\ command[p] \in Running /\ Prepared(p) /\ Found(p) /\ Unused(p)
      /\ command[p].number # None /\ command[p].self = None /\ command[p].step = "name"
  BY OwnNow, Fields DEF FindName, Steps
<1>2. /\ UNCHANGED <<begun, files, keys, identities, profiles, secrets, cards, senders>>
      /\ Miss(p) \/ UNCHANGED raced
      /\ cards' \subseteq Card /\ senders' \subseteq Numbers \X Numbers
  BY DEF FindName, HomeInv, HomeTypeOK
<1>3. ~command[p].newborn /\ command[p].kind = "init" /\ command[p].name \in Names
  BY <1>1 DEF Prepared
<1>4. ASSUME NEW i \in identities,
             Gone(p, "key", i.self, command[p].key, command[p].stamp, command[p].newborn)
      PROVE  HomeInv'
  <2>1. Prepared(p)'
    BY <1>1, <1>3, <1>4 DEF Prepared, Gone
  <2>2. Found(p)'
    BY <1>1, <1>2, <1>3, <1>4 DEF Found, Gone
  <2>3. Unused(p)'
    BY <1>1, <1>2, <1>3, <1>4 DEF Unused, Gone
  <2> QED
    BY <1>1, <1>2, <1>4, <2>1, <2>2, <2>3, TablesSame DEF Own, Gone
<1>5. CASE Gone(p, "identityRow", command[p].number, command[p].key, command[p].stamp, command[p].newborn)
  <2>1. Prepared(p)'
    BY <1>1, <1>3, <1>5 DEF Prepared, Gone
  <2>2. Found(p)'
    BY <1>1, <1>2, <1>3, <1>5 DEF Found, Gone
  <2>3. Unused(p)'
    BY <1>1, <1>2, <1>3, <1>5 DEF Unused, Gone
  <2> QED
    BY <1>1, <1>2, <1>5, <2>1, <2>2, <2>3, TablesSame DEF Own, Gone
<1> QED
  BY <1>4, <1>5, FindNameCommand DEF HomeInv

LEMMA FindSenderKeeps ==
    ASSUME HomeInv, NEW p \in Processes, FindSender(p)
    PROVE  HomeInv'
<1>1. /\ command[p] \in Running /\ Prepared(p) /\ Found(p) /\ Unused(p)
      /\ command[p].number # None /\ command[p].self = None /\ command[p].step = "find"
      /\ command[p].kind = "message"
  BY OwnNow, Fields DEF FindSender, Steps
<1>2. /\ UNCHANGED <<begun, files, keys, identities, profiles, secrets, cards, senders, raced>>
      /\ cards' \subseteq Card /\ senders' \subseteq Numbers \X Numbers
  BY DEF FindSender, HomeInv, HomeTypeOK
<1>3. ~command[p].newborn
  BY <1>1 DEF Prepared
<1>4. ASSUME NEW i \in Sendable,
             Gone(p, "nostr", i.self, command[p].key, command[p].stamp, command[p].newborn)
      PROVE  HomeInv'
  <2>1. Prepared(p)'
    BY <1>1, <1>3, <1>4 DEF Prepared, Gone
  <2>2. Found(p)'
    BY <1>1, <1>2, <1>3, <1>4 DEF Found, Gone
  <2>3. Unused(p)'
    BY <1>1, <1>2, <1>3, <1>4 DEF Unused, Gone
  <2> QED
    BY <1>1, <1>2, <1>4, <2>1, <2>2, <2>3, TablesSame DEF Own, Gone
<1> QED
  BY <1>4, FindSenderCommand DEF HomeInv

LEMMA InsertIdentityKeeps ==
    ASSUME HomeInv, NEW p \in Processes, InsertIdentity(p)
    PROVE  HomeInv'
<1> DEFINE c == command[p]
           name == IF c.newborn THEN c.key ELSE c.name
           new == [self |-> c.self, name |-> name]
<1>1. /\ c \in Running /\ c # Idle /\ Prepared(p) /\ Found(p) /\ Unused(p)
      /\ c.number \in Numbers /\ c.self = c.number /\ c.step = "identityRow"
  BY OwnNow DEF InsertIdentity, Steps, Prepared
<1>2. /\ identities' = identities \cup {new}
      /\ UNCHANGED <<begun, files, keys, profiles, secrets, cards, senders, raced>>
  BY DEF InsertIdentity
<1>3. Gone(p, IF c.newborn THEN "profile" ELSE "key", c.self, c.key, c.stamp, FALSE)
  BY InsertIdentityCommand DEF HomeInv
<1>4. c.newborn => \E row \in keys : row.type = "self" /\ row.owner = c.self /\ row.key = c.key
  BY <1>1 DEF Found
<1>5. new \in Identity
  <2>1. CASE c.newborn
    BY <1>1, <1>4, <2>1 DEF Identity, HomeInv, HomeTypeOK, KeyRow
  <2>2. CASE ~c.newborn
    BY <1>1, <2>2 DEF Identity, Prepared
  <2> QED
    BY <2>1, <2>2
<1>6. HomeTypeOK'
  BY <1>2, <1>3, <1>5 DEF HomeInv, HomeTypeOK, Gone
<1>7. Steady(p)
  <2>1. \A n \in Nat : Bounded(n) => command'[p].stamp <= n + 1
    <3>1. c.stamp \in Nat
      BY <1>1, Fields
    <3> QED
      BY <1>1, <1>3, <3>1 DEF Bounded, Gone
  <2>2. Grows(p)
    BY <1>1, <1>2 DEF Grows
  <2> QED
    BY <1>1, <1>2, <1>3, <2>1, <2>2 DEF Steady, Gone
<1>8. Own(p)'
  <2>1. Prepared(p)'
    BY <1>3 DEF Prepared, Gone
  <2>2. Found(p)'
    <3>1. new \in identities' /\ new.self = c.self
      BY <1>2
    <3> QED
      BY <1>2, <1>3, <1>4, <3>1 DEF Found, Gone
  <2>3. Unused(p)'
    BY <1>1, <1>2, <1>3 DEF Unused, Gone
  <2> QED
    BY <2>1, <2>2, <2>3 DEF Own
<1>9. RowsHaveFiles'
  <2>1. RowsHaveFiles
    BY DEF HomeInv
  <2>2. name \notin Names => \E row \in KeysOf("self", new.self) : row.key = name
    BY <1>1, <1>4 DEF KeysOf, Prepared
  <2> QED
    BY <1>2, <2>1, <2>2 DEF RowsHaveFiles, KeysOf
<1> QED
  BY <1>6, <1>7, <1>8, <1>9, SteadyKeeps

LEMMA FindKeyKeeps ==
    ASSUME HomeInv, NEW p \in Processes, FindKey(p)
    PROVE  HomeInv'
<1> DEFINE c == command[p]
<1>1. /\ c \in Running /\ c # Idle /\ Prepared(p) /\ Found(p) /\ Unused(p)
      /\ c.number \in Numbers /\ c.self \in Numbers /\ c.step = "key" /\ c.stamp \in Nat
  BY OwnNow, Fields DEF FindKey, Steps
<1>2. /\ UNCHANGED <<begun, identities, profiles, secrets, cards, senders>>
      /\ cards' \subseteq Card /\ senders' \subseteq Numbers \X Numbers
  BY DEF FindKey, HomeInv, HomeTypeOK
<1>3. ASSUME NEW row \in KeysOf("self", c.self), UNCHANGED <<files, keys, raced>>,
             Gone(p, "profile", c.self, row.key, c.stamp, c.newborn)
      PROVE  HomeInv'
  <2>1. Prepared(p)'
    BY <1>1, <1>3 DEF Prepared, Gone
  <2>2. Found(p)'
    <3>1. row \in keys' /\ row.type = "self" /\ row.owner = c.self
      BY <1>3 DEF KeysOf
    <3> QED
      BY <1>1, <1>2, <1>3, <3>1 DEF Found, Gone
  <2>3. Unused(p)'
    BY <1>1, <1>2, <1>3 DEF Unused, Gone
  <2> QED
    BY <1>1, <1>2, <1>3, <2>1, <2>2, <2>3, TablesSame DEF Own, Gone
<1>4. ASSUME c.kind = "init", Gone(p, "keyRow", c.self, c.number, NextStamp, c.newborn),
             \A n \in Nat : Bounded(n) => NextStamp <= n + 1, MakeKey(p, "self"), Miss(p)
      PROVE  HomeInv'
  <2>1. files' = files \cup {<<"self", c.number>>} /\ keys' = keys
    BY <1>4 DEF MakeKey
  <2>2. HomeTypeOK'
    <3>1. raced' \in BOOLEAN
      BY <1>4, MissType DEF HomeInv
    <3> QED
      BY <1>1, <1>2, <1>4, <2>1, <3>1 DEF HomeInv, HomeTypeOK, Gone
  <2>3. Steady(p)
    <3>1. Grows(p)
      BY <1>2, <2>1 DEF Grows
    <3> QED
      BY <1>1, <1>2, <1>4, <2>1, <3>1 DEF Steady, Gone
  <2>4. Own(p)'
    <3>1. Prepared(p)'
      BY <1>1, <1>4, <2>1 DEF Prepared, Gone
    <3>2. Found(p)'
      BY <1>1, <1>4 DEF Found, Gone
    <3>3. Unused(p)'
      BY <1>1, <1>2, <1>4, <2>1 DEF Unused, Gone
    <3> QED
      BY <3>1, <3>2, <3>3 DEF Own
  <2>5. RowsHaveFiles'
    BY <1>2, <2>1, SameRows DEF HomeInv
  <2> QED
    BY <2>2, <2>3, <2>4, <2>5, SteadyKeeps
<1> QED
  BY <1>3, <1>4, FindKeyCommand DEF HomeInv

LEMMA InsertKeyCommand ==
    ASSUME HomeTypeOK, NEW p \in Processes, InsertKey(p)
    PROVE  /\ command[p] \in Running
           /\ Gone(p, IF command[p].newborn THEN "identityRow" ELSE "profile", command[p].self,
                   command[p].key, command[p].stamp, command[p].newborn)
<1> DEFINE step == IF command[p].newborn THEN "identityRow" ELSE "profile"
<1>1. step \in Steps \ {"find", "name"} /\ command[p].step \in Steps \ {"find", "name"}
  BY DEF InsertKey, Steps
<1>2. Proceed(p, step)
  BY DEF InsertKey
<1> HIDE DEF step
<1>3. command[p] \in Running /\ Gone(p, step, command[p].self, command[p].key, command[p].stamp, command[p].newborn)
  BY <1>1, <1>2, ProceedCommand
<1> QED
  BY <1>3 DEF step

LEMMA InsertKeyKeeps ==
    ASSUME HomeInv, NEW p \in Processes, InsertKey(p)
    PROVE  HomeInv'
<1> DEFINE c == command[p]
           new == [type |-> "self", owner |-> c.self, key |-> c.key, stamp |-> c.stamp]
<1>1. /\ c \in Running /\ c # Idle /\ Prepared(p) /\ Found(p) /\ Unused(p)
      /\ c.number \in Numbers /\ c.self \in Numbers /\ c.step = "keyRow" /\ c.stamp \in Nat
      /\ c.key = c.number /\ <<"self", c.number>> \in files
  BY OwnNow, Fields DEF InsertKey, Steps, Prepared
<1>2. /\ keys' = keys \cup {new}
      /\ UNCHANGED <<begun, files, identities, profiles, secrets, cards, senders, raced>>
  BY DEF InsertKey
<1>3. Gone(p, IF c.newborn THEN "identityRow" ELSE "profile", c.self, c.key, c.stamp, c.newborn)
  BY InsertKeyCommand DEF HomeInv
<1>4. new \in KeyRow
  BY <1>1 DEF KeyRow
<1>5. HomeTypeOK'
  BY <1>2, <1>3, <1>4 DEF HomeInv, HomeTypeOK, Gone
<1>6. Steady(p)
  <2>1. \A n \in Nat : Bounded(n) => c.stamp <= n
    BY <1>1 DEF Bounded
  <2>2. \A n \in Nat : Bounded(n) => command'[p].stamp <= n + 1
    BY <1>1, <1>3, <2>1 DEF Gone
  <2>3. \A n \in Nat : Bounded(n) => \A row \in keys' : row \in keys \/ row.stamp <= n + MaxCommands
    BY <1>1, <1>2, <2>1, HomeAssumption
  <2>4. Grows(p)
    BY <1>1, <1>2 DEF Grows
  <2> QED
    BY <1>1, <1>2, <1>3, <2>2, <2>3, <2>4 DEF Steady, Gone
<1>7. Own(p)'
  <2>1. Prepared(p)'
    BY <1>1, <1>3 DEF Prepared, Gone
  <2>2. Found(p)'
    <3>1. new \in keys' /\ new.type = "self" /\ new.owner = c.self /\ new.key = c.key
      BY <1>2
    <3> QED
      BY <1>1, <1>2, <1>3, <3>1 DEF Found, Gone
  <2>3. Unused(p)'
    BY <1>1, <1>2, <1>3 DEF Unused, Gone
  <2> QED
    BY <2>1, <2>2, <2>3 DEF Own
<1>8. RowsHaveFiles'
  <2>1. RowsHaveFiles
    BY DEF HomeInv
  <2>2. \A row \in keys' : <<row.type, row.key>> \in files
    <3>1. new.type = "self" /\ new.key = c.number
      BY <1>1
    <3>2. <<new.type, new.key>> \in files
      BY <1>1, <3>1
    <3> HIDE DEF new
    <3> QED
      BY <1>2, <2>1, <3>2 DEF RowsHaveFiles
  <2>3. \A s : KeysOf("self", s) \subseteq KeysOf("self", s)'
    BY <1>2 DEF KeysOf
  <2> QED
    BY <1>2, <2>1, <2>2, <2>3 DEF RowsHaveFiles
<1> QED
  BY <1>5, <1>6, <1>7, <1>8, SteadyKeeps

\* The card that is exported, if one is: it has the identity's self id and the
\* key the command has found.
LEMMA ExportCard ==
    ASSUME HomeInv, NEW p \in Processes, command[p] \in Running,
           command[p].step \in {"profile", "profileRow"},
           NEW encryption \in Numbers, Export(p, encryption)
    PROVE  /\ cards' \subseteq Card
           /\ \A card \in cards' :
                \/ card \in cards
                \/ /\ command[p].kind = "export" /\ card.self = command[p].self
                   /\ card.key = command[p].key /\ card.encryption = encryption
                   /\ \E i \in identities : i.self = card.self /\ i.name = card.name
<1> DEFINE c == command[p]
           name == (CHOOSE i \in identities : i.self = c.self).name
           new == [self |-> c.self, name |-> name, key |-> c.key, encryption |-> encryption]
<1>1. Found(p) /\ c.self \in Numbers /\ cards \subseteq Card
  BY OwnNow, Fields DEF Steps, HomeInv, HomeTypeOK
<1>2. CASE c.kind # "export"
  BY <1>1, <1>2 DEF Export
<1>3. CASE c.kind = "export"
  <2>1. c.key \in Numbers
    BY <1>1 DEF Found, HomeInv, HomeTypeOK, KeyRow
  <2>2. \E i \in identities : i.self = c.self
    BY <1>1, <1>3 DEF Found
  <2>3. name \in Numbers \cup Names
    <3>1. (CHOOSE i \in identities : i.self = c.self) \in identities
      BY <2>2
    <3> QED
      BY <3>1 DEF HomeInv, HomeTypeOK, Identity
  <2>4. cards' = cards \cup {new}
    BY <1>3 DEF Export
  <2>5. \E i \in identities : i.self = c.self /\ i.name = name
    BY <2>2
  <2> HIDE DEF name
  <2>6. new \in Card
    BY <1>1, <2>1, <2>3 DEF Card
  <2> QED
    BY <1>1, <1>3, <2>4, <2>5, <2>6
<1> QED
  BY <1>2, <1>3

LEMMA FindProfileKeeps ==
    ASSUME HomeInv, NEW p \in Processes, FindProfile(p)
    PROVE  HomeInv'
<1> DEFINE c == command[p]
<1>1. /\ c \in Running /\ c # Idle /\ Prepared(p) /\ Found(p) /\ Unused(p)
      /\ c.number \in Numbers /\ c.self \in Numbers /\ c.step = "profile"
  BY OwnNow, Fields DEF FindProfile, Steps
<1>2. /\ UNCHANGED <<begun, files, keys, identities, profiles, secrets, senders>>
      /\ senders' \subseteq Numbers \X Numbers
  BY DEF FindProfile, HomeInv, HomeTypeOK
<1>3. CASE profiles[c.self] # None
  <2>1. Ends(p) /\ UNCHANGED raced /\ Export(p, profiles[c.self])
    BY <1>3, EndsThen DEF FindProfile, HomeInv
  <2>2. profiles[c.self] \in Numbers
    BY <1>1, <1>3 DEF HomeInv, HomeTypeOK
  <2>3. cards' \subseteq Card
    BY <1>1, <2>1, <2>2, ExportCard
  <2>4. Own(p)'
    BY <2>1 DEF Own, Ends
  <2> QED
    BY <1>1, <1>2, <2>1, <2>3, <2>4, TablesSame DEF Ends
<1>4. CASE profiles[c.self] = None
  <2>1. Miss(p) /\ UNCHANGED cards /\ Proceed(p, "secret")
    BY <1>4 DEF FindProfile
  <2>2. Gone(p, "secret", c.self, c.key, c.stamp, c.newborn)
    BY <1>1, <2>1, ProceedCommand DEF HomeInv, Steps
  <2>3. Prepared(p)'
    BY <1>1, <2>2 DEF Prepared, Gone
  <2>4. Found(p)'
    BY <1>1, <1>2, <2>2 DEF Found, Gone
  <2>5. Unused(p)'
    BY <1>1, <1>2, <2>2 DEF Unused, Gone
  <2>6. Own(p)' /\ cards' \subseteq Card
    BY <2>1, <2>3, <2>4, <2>5 DEF Own, HomeInv, HomeTypeOK
  <2> QED
    BY <1>1, <1>2, <2>1, <2>2, <2>6, TablesSame DEF Gone
<1> QED
  BY <1>3, <1>4

LEMMA WriteSecretKeeps ==
    ASSUME HomeInv, NEW p \in Processes, WriteSecret(p)
    PROVE  HomeInv'
<1> DEFINE c == command[p]
<1>1. /\ c \in Running /\ c # Idle /\ Prepared(p) /\ Found(p) /\ Unused(p)
      /\ c.number \in Numbers /\ c.number # None /\ c.self \in Numbers
      /\ c.step = "secret" /\ c.stamp \in Nat
  BY OwnNow, Fields DEF WriteSecret, Steps
<1>2. /\ secrets' = [secrets EXCEPT ![c.self] = c.number]
      /\ UNCHANGED <<begun, files, keys, identities, profiles, cards, senders, raced>>
  BY DEF WriteSecret
<1>3. Gone(p, "profileRow", c.self, c.key, c.stamp, c.newborn)
  BY <1>1, ProceedCommand DEF HomeInv, Steps, WriteSecret
<1>4. \A s \in Numbers : secrets'[s] = IF s = c.self THEN c.number ELSE secrets[s]
  BY <1>2 DEF HomeInv, HomeTypeOK
<1>5. HomeTypeOK'
  BY <1>1, <1>2, <1>3 DEF HomeInv, HomeTypeOK, Gone
<1>6. Steady(p)
  <2>1. \A n \in Nat : Bounded(n) => command'[p].stamp <= n + 1
    BY <1>1, <1>3 DEF Bounded, Gone
  <2>2. Grows(p)
    BY <1>1, <1>2, <1>4 DEF Grows
  <2> QED
    BY <1>1, <1>2, <1>3, <2>1, <2>2 DEF Steady, Gone
<1>7. Own(p)'
  <2>1. Prepared(p)'
    BY <1>1, <1>3, <1>4 DEF Prepared, Gone
  <2>2. Found(p)'
    BY <1>1, <1>2, <1>3 DEF Found, Gone
  <2>3. Unused(p)'
    BY <1>1, <1>2, <1>3 DEF Unused, Gone
  <2> QED
    BY <2>1, <2>2, <2>3 DEF Own
<1>8. RowsHaveFiles'
  <2>1. RowsHaveFiles
    BY DEF HomeInv
  <2> QED
    BY <1>1, <1>2, <1>4, <2>1 DEF RowsHaveFiles, KeysOf
<1> QED
  BY <1>5, <1>6, <1>7, <1>8, SteadyKeeps

\* A step after which p has ended its command.
LEMMA EndedSteadily ==
    ASSUME HomeInv, NEW p \in Processes, command[p] \in Running, Ends(p), UNCHANGED begun,
           \A n \in Nat : Bounded(n) =>
             \A row \in keys' : row \in keys \/ row.stamp <= n + MaxCommands,
           Grows(p), HomeTypeOK', RowsHaveFiles'
    PROVE  HomeInv'
<1>1. Steady(p)
  BY DEF Steady, Ends
<1>2. Own(p)'
  BY DEF Own, Ends
<1> QED
  BY <1>1, <1>2, SteadyKeeps

LEMMA InsertProfileKeeps ==
    ASSUME HomeInv, NEW p \in Processes, InsertProfile(p)
    PROVE  HomeInv'
<1> DEFINE c == command[p]
<1>1. /\ c \in Running /\ Prepared(p) /\ c.number \in Numbers /\ c.self \in Numbers
      /\ c.step = "profileRow"
  BY OwnNow, Fields DEF InsertProfile, Steps
<1>2. /\ profiles' = [profiles EXCEPT ![c.self] = c.number]
      /\ UNCHANGED <<begun, files, keys, identities, secrets, senders, raced>>
  BY DEF InsertProfile
<1>3. Ends(p)
  BY EndsThen DEF HomeInv, InsertProfile
<1>4. cards' \subseteq Card
  BY <1>1, ExportCard DEF InsertProfile
<1>5. HomeTypeOK'
  BY <1>1, <1>2, <1>3, <1>4 DEF HomeInv, HomeTypeOK, Ends
<1>6. RowsHaveFiles'
  <2>1. RowsHaveFiles /\ secrets[c.self] # None
    BY <1>1 DEF HomeInv, Prepared
  <2>2. \A s \in Numbers : profiles'[s] # None => s = c.self \/ profiles[s] # None
    BY <1>2 DEF HomeInv, HomeTypeOK
  <2> QED
    BY <1>2, <2>1, <2>2 DEF RowsHaveFiles, KeysOf
<1>7. Grows(p)
  BY <1>2 DEF Grows
<1> QED
  BY <1>1, <1>2, <1>3, <1>5, <1>6, <1>7, EndedSteadily

LEMMA FindNostrKeyKeeps ==
    ASSUME HomeInv, NEW p \in Processes, FindNostrKey(p)
    PROVE  HomeInv'
<1> DEFINE c == command[p]
           rows == KeysOf("nostr", c.self)
<1>1. /\ c \in Running /\ c # Idle /\ Prepared(p) /\ Found(p) /\ Unused(p)
      /\ c.number \in Numbers /\ c.self \in Numbers /\ c.step = "nostr" /\ c.stamp \in Nat
  BY OwnNow, Fields DEF FindNostrKey, Steps
<1>2. UNCHANGED <<begun, identities, profiles, secrets, cards>> /\ cards' \subseteq Card
  BY DEF FindNostrKey, HomeInv, HomeTypeOK
<1>3. CASE rows # {}
  <2>1. PICK row \in rows : OldestKey(rows) = row.key
    BY <1>3, OldestKeyIsOne DEF KeysOf, HomeInv, HomeTypeOK
  <2>2. row.key \in Numbers
    BY DEF KeysOf, HomeInv, HomeTypeOK, KeyRow
  <2>3. /\ senders' = senders \cup {<<c.self, row.key>>}
        /\ UNCHANGED <<files, keys, raced>>
        /\ command' = [command EXCEPT ![p] = Idle]
    BY <1>3, <2>1 DEF FindNostrKey
  <2>4. Ends(p)
    BY <2>3, EndsThen DEF HomeInv
  <2>5. senders' \subseteq Numbers \X Numbers /\ Own(p)'
    BY <1>1, <2>2, <2>3, <2>4 DEF HomeInv, HomeTypeOK, Own, Ends
  <2> QED
    BY <1>1, <1>2, <2>3, <2>4, <2>5, TablesSame DEF Ends
<1>4. CASE rows = {}
  <2>1. /\ files' = files \cup {<<"nostr", c.number>>}
        /\ UNCHANGED <<keys, senders>> /\ Miss(p) /\ Proceed(p, "nostrRow")
    BY <1>4 DEF FindNostrKey, MakeKey
  <2>2. Gone(p, "nostrRow", c.self, c.key, c.stamp, c.newborn)
    BY <1>1, <2>1, ProceedCommand DEF HomeInv, Steps
  <2>3. HomeTypeOK'
    <3>1. raced' \in BOOLEAN
      BY <2>1, MissType DEF HomeInv
    <3> QED
      BY <1>1, <1>2, <2>1, <2>2, <3>1 DEF HomeInv, HomeTypeOK, Gone
  <2>4. Steady(p)
    <3>1. \A n \in Nat : Bounded(n) => command'[p].stamp <= n + 1
      BY <1>1, <2>2 DEF Bounded, Gone
    <3>2. Grows(p)
      BY <1>2, <2>1 DEF Grows
    <3> QED
      BY <1>1, <1>2, <2>1, <2>2, <3>1, <3>2 DEF Steady, Gone
  <2>5. Own(p)'
    <3>1. Prepared(p)'
      BY <1>1, <2>1, <2>2 DEF Prepared, Gone
    <3>2. Found(p)'
      BY <1>1, <1>2, <2>1, <2>2 DEF Found, Gone
    <3>3. Unused(p)'
      BY <1>1, <1>2, <2>1, <2>2 DEF Unused, Gone
    <3> QED
      BY <3>1, <3>2, <3>3 DEF Own
  <2>6. RowsHaveFiles'
    BY <1>2, <2>1, SameRows DEF HomeInv
  <2> QED
    BY <2>3, <2>4, <2>5, <2>6, SteadyKeeps
<1> QED
  BY <1>3, <1>4

LEMMA InsertNostrKeyKeeps ==
    ASSUME HomeInv, NEW p \in Processes, InsertNostrKey(p)
    PROVE  HomeInv'
<1> DEFINE c == command[p]
           new == [type |-> "nostr", owner |-> c.self, key |-> c.number, stamp |-> c.number]
<1>1. /\ c \in Running /\ Prepared(p) /\ c.number \in Numbers /\ c.self \in Numbers
      /\ c.step = "nostrRow"
  BY OwnNow, Fields DEF InsertNostrKey, Steps
<1>2. /\ keys' = keys \cup {new} /\ senders' = senders \cup {<<c.self, c.number>>}
      /\ UNCHANGED <<begun, files, identities, profiles, secrets, cards, raced>>
  BY DEF InsertNostrKey
<1>3. Ends(p)
  BY EndsThen DEF HomeInv, InsertNostrKey
<1>4. c.number \in Nat /\ c.number <= MaxCommands
  BY <1>1, HomeAssumption DEF Numbers
<1>5. new \in KeyRow
  BY <1>1, <1>4 DEF KeyRow
<1>6. HomeTypeOK'
  BY <1>1, <1>2, <1>3, <1>5 DEF HomeInv, HomeTypeOK, Ends
<1>7. RowsHaveFiles'
  <2>1. RowsHaveFiles /\ <<"nostr", c.number>> \in files
    BY <1>1 DEF HomeInv, Prepared
  <2>2. \A row \in keys' : <<row.type, row.key>> \in files
    <3>1. <<new.type, new.key>> \in files
      BY <2>1
    <3> HIDE DEF new
    <3> QED
      BY <1>2, <2>1, <3>1 DEF RowsHaveFiles
  <2>3. \A s : KeysOf("self", s) \subseteq KeysOf("self", s)'
    BY <1>2 DEF KeysOf
  <2> QED
    BY <1>2, <2>1, <2>2, <2>3 DEF RowsHaveFiles
<1>8. \A n \in Nat : \A row \in keys' : row \in keys \/ row.stamp <= n + MaxCommands
  BY <1>2, <1>4, HomeAssumption
<1>9. Grows(p)
  BY <1>2 DEF Grows
<1> QED
  BY <1>1, <1>2, <1>3, <1>6, <1>7, <1>8, <1>9, EndedSteadily

LEMMA FailKeeps ==
    ASSUME HomeInv, NEW p \in Processes, Fail(p)
    PROVE  HomeInv'
<1> DEFINE c == command[p]
<1>1. c # Idle /\ UNCHANGED <<begun, keys, identities, profiles, secrets, cards, senders, raced>>
  BY DEF Fail
<1>2. c \in Running /\ Unused(p) /\ Ends(p)
  BY Runs, EndsThen DEF HomeInv, Own, Fail
<1>3. /\ files' \subseteq files
      /\ \A file \in files : file[2] # c.number => file \in files'
      /\ \A row \in keys : <<row.type, row.key>> \in files => <<row.type, row.key>> \in files'
  <2>1. CASE UNCHANGED files
    BY <2>1
  <2>2. CASE c.step = "keyRow" /\ files' = files \ {<<"self", c.number>>}
    BY <1>2, <2>2 DEF Unused
  <2>3. CASE c.step = "nostrRow" /\ files' = files \ {<<"nostr", c.number>>}
    BY <1>2, <2>3 DEF Unused
  <2> QED
    BY <2>1, <2>2, <2>3 DEF Fail
<1>4. HomeTypeOK'
  BY <1>1, <1>2, <1>3 DEF HomeInv, HomeTypeOK, Ends
<1>5. RowsHaveFiles'
  BY <1>1, <1>3 DEF HomeInv, RowsHaveFiles, KeysOf
<1>6. Grows(p)
  BY <1>1, <1>3 DEF Grows
<1> QED
  BY <1>1, <1>2, <1>4, <1>5, <1>6, EndedSteadily

LEMMA BeginKeeps ==
    ASSUME HomeInv, NEW p \in Processes, Begin(p)
    PROVE  HomeInv'
<1> PICK kind \in {"init", "export", "message"}, name \in Names \cup {None} :
      /\ name # None => kind = "init"
      /\ command' = [command EXCEPT ![p] =
                        [step |-> IF name = None THEN "find" ELSE "name", kind |-> kind,
                         number |-> begun + 1, name |-> name, self |-> None, key |-> None,
                         stamp |-> 0, newborn |-> FALSE]]
  BY DEF Begin
<1> DEFINE step == IF name = None THEN "find" ELSE "name"
           new == [step |-> step, kind |-> kind, number |-> begun + 1, name |-> name,
                   self |-> None, key |-> None, stamp |-> 0, newborn |-> FALSE]
<1>1. /\ command[p] = Idle /\ begun' = begun + 1 /\ begun \in Nat /\ begun + 1 \in Numbers
      /\ UNCHANGED <<files, keys, identities, profiles, secrets, cards, senders, raced>>
  BY HomeAssumption DEF Begin, Count, HomeInv, HomeTypeOK, Numbers
<1>2. step \in {"find", "name"} /\ (step = "name" => name \in Names /\ kind = "init")
  BY HomeAssumption
<1>3. command' = [command EXCEPT ![p] = new]
  OBVIOUS
<1> HIDE DEF step
<1>4. new \in Running /\ new # Idle
  <2>1. new \in Running
    BY <1>1, <1>2 DEF Running
  <2> QED
    BY <2>1, Fields
<1>5. /\ command' \in [Processes -> {Idle} \cup Running] /\ command'[p] = new
      /\ \A q \in Processes : q # p => command'[q] = command[q]
  BY <1>3, <1>4 DEF HomeInv, HomeTypeOK
<1>6. HomeTypeOK'
  BY <1>1, <1>5, HomeAssumption DEF HomeInv, HomeTypeOK, Numbers
<1>7. Stamped'
  <2>1. PICK n \in Nat : Bounded(n)
    BY DEF HomeInv, Stamped
  <2>2. Bounded(n)'
    BY <1>1, <1>5, <2>1 DEF Bounded
  <2> QED
    BY <2>2 DEF Stamped
<1>8. /\ \A q \in Processes : command[q] # Idle => command[q].number \in Nat /\ command[q].number <= begun
      /\ \A row \in keys : row.key \in Nat /\ row.key <= begun
      /\ \A i \in identities : i.self \in Nat /\ i.self <= begun
  <2>1. \A q \in Processes : command[q] # Idle => command[q].number \in Nat
    BY Runs, Fields, HomeAssumption DEF HomeInv, Numbers
  <2> QED
    BY <2>1, HomeAssumption DEF HomeInv, Numbered, HomeTypeOK, KeyRow, Identity, Numbers
<1>9. Numbered'
  <2>1. \A q \in Processes : command'[q] # Idle =>
           \/ q = p /\ command'[q].number = begun + 1
           \/ q # p /\ command[q] # Idle /\ command'[q] = command[q] /\ command'[q].number <= begun
              /\ command'[q].number \in Nat
    BY <1>5, <1>8
  <2>2. \A q \in Processes : command'[q] # Idle => command'[q].number <= begun'
    BY <1>1, <2>1
  <2>3. \A q, o \in Processes :
          q # o /\ command'[q] # Idle /\ command'[o] # Idle => command'[q].number # command'[o].number
    <3> SUFFICES ASSUME NEW q \in Processes, NEW o \in Processes, q # o,
                        command'[q] # Idle, command'[o] # Idle
                 PROVE  command'[q].number # command'[o].number
      OBVIOUS
    <3>1. CASE q # p /\ o # p
      BY <2>1, <3>1 DEF HomeInv, Numbered
    <3>2. CASE q = p \/ o = p
      BY <1>1, <2>1, <3>2
    <3> QED
      BY <3>1, <3>2
  <2>4. (\A row \in keys' : row.key <= begun') /\ (\A i \in identities' : i.self <= begun')
    BY <1>1, <1>8
  <2> QED
    BY <2>2, <2>3, <2>4 DEF Numbered
<1>10. ASSUME NEW q \in Processes
       PROVE  Own(q)'
  <2>1. CASE q # p
    <3>1. Own(q) /\ command'[q] = command[q]
      BY <1>5, <2>1 DEF HomeInv
    <3> QED
      BY <1>1, <3>1 DEF Own, Prepared, Found, Unused
  <2>2. CASE q = p
    <3>1. Prepared(p)'
      BY <1>2, <1>5 DEF Prepared
    <3>2. Found(p)'
      BY <1>2, <1>5 DEF Found
    <3>3. Unused(p)'
      BY <1>1, <1>5, <1>8 DEF Unused
    <3> QED
      BY <2>2, <3>1, <3>2, <3>3 DEF Own
  <2> QED
    BY <2>1, <2>2
<1>11. RowsHaveFiles'
  BY <1>1, SameRows DEF HomeInv
<1> QED
  BY <1>6, <1>7, <1>9, <1>10, <1>11 DEF HomeInv

LEMMA StepKeeps ==
    ASSUME HomeInv, [Next]_homeVars
    PROVE  HomeInv'
<1>1. CASE UNCHANGED homeVars
  BY <1>1 DEF homeVars, HomeInv, HomeTypeOK, Stamped, Bounded, Numbered, Own, Prepared, Found,
              Unused, RowsHaveFiles, KeysOf
<1>2. ASSUME NEW p \in Processes, Step(p)
      PROVE  HomeInv'
  BY <1>2, BeginKeeps, FindSelfKeeps, FindNameKeeps, InsertIdentityKeeps, FindKeyKeeps,
     InsertKeyKeeps, FindProfileKeeps, WriteSecretKeeps, InsertProfileKeeps, FindSenderKeeps,
     FindNostrKeyKeeps, InsertNostrKeyKeeps, FailKeeps DEF Step
<1> QED
  BY <1>1, <1>2 DEF Next

LEMMA InitKeeps == Init => HomeInv
<1> SUFFICES ASSUME Init
             PROVE  HomeInv
  OBVIOUS
<1>1. HomeTypeOK
  <2>1. begun \in 0 .. MaxCommands
    BY HomeAssumption DEF Init
  <2>2. command \in [Processes -> {Idle} \cup Running] /\ raced \in BOOLEAN
    BY DEF Init
  <2>3. profiles \in [Numbers -> Numbers \cup {None}] /\ secrets \in [Numbers -> Numbers \cup {None}]
    BY DEF Init
  <2> QED
    BY <2>1, <2>2, <2>3 DEF Init, HomeTypeOK
<1>2. Stamped
  BY DEF Init, Stamped, Bounded
<1>3. Numbered /\ RowsHaveFiles /\ \A p \in Processes : Own(p)
  BY DEF Init, Numbered, RowsHaveFiles, Own
<1> QED
  BY <1>1, <1>2, <1>3 DEF HomeInv

LEMMA HomeInvStays == Spec => []HomeInv
BY InitKeeps, StepKeeps, PTL DEF Spec

\* Every variable keeps its type, for any number of processes: what a command
\* copies from a table it has read earlier still fits where it writes it.
THEOREM TypeCorrect == Spec => []HomeTypeOK
<1>1. HomeInv => HomeTypeOK
  BY DEF HomeInv
<1> QED
  BY <1>1, HomeInvStays, PTL

\* However commands overlap and wherever they stop, no row of the home lacks
\* the private key it stands for.
THEOREM RowsKeepFiles == Spec => []RowsHaveFiles
<1>1. HomeInv => RowsHaveFiles
  BY DEF HomeInv
<1> QED
  BY <1>1, HomeInvStays, PTL

-----------------------------------------------------------------------------
(* Commands that do not make parts of the home at once. *)

\* What makes a command safe from the others is that it alone writes.
Alone(p) ==
    LET c == command[p]
    IN  /\ c.step = "keyRow" => KeysOf("self", c.self) = {}
        /\ c.step = "nostrRow" => KeysOf("nostr", c.self) = {}
        /\ c.step \in {"secret", "profileRow"} => profiles[c.self] = None
        /\ c.step = "profileRow" => secrets[c.self] = c.number
        /\ c.kind = "export" /\ c.step # "find" => \A i \in identities : c.self <= i.self

OneMaking == \A p, q \in Processes : Making(p) /\ Making(q) => p = q

MakersAreLatest ==
    \A p \in Processes : Making(p) => \A i \in identities : i.self <= command[p].number

OneSelfEach == \A i, j \in identities : i.self = j.self => i = j

OneKeyEach == \A r, s \in keys : r.type = s.type /\ r.owner = s.owner => r = s

SecretsFit == \A s \in Numbers : profiles[s] # None => secrets[s] = profiles[s]

CardHolds(card) ==
    /\ \E i \in identities : i.self = card.self /\ i.name = card.name
    /\ \A i \in identities : card.self <= i.self
    /\ \E row \in keys : row.type = "self" /\ row.owner = card.self /\ row.key = card.key
    /\ profiles[card.self] = card.encryption

SendersHold ==
    \A s \in senders : \E row \in keys : row.type = "nostr" /\ row.owner = s[1] /\ row.key = s[2]

Calm ==
    /\ OneMaking
    /\ MakersAreLatest
    /\ OneSelfEach
    /\ OneKeyEach
    /\ SecretsFit
    /\ \A p \in Processes : command[p] # Idle => Alone(p)
    /\ \A card \in cards : CardHolds(card)
    /\ SendersHold

\* What a step of p writes, and from which step of its command.
Writes(p) ==
    LET c == command[p]
    IN  /\ \/ UNCHANGED keys
           \/ /\ c.step = "keyRow"
              /\ keys' = keys \cup {[type |-> "self", owner |-> c.self, key |-> c.key, stamp |-> c.stamp]}
           \/ /\ c.step = "nostrRow"
              /\ keys' = keys \cup {[type |-> "nostr", owner |-> c.self, key |-> c.number, stamp |-> c.number]}
        /\ \/ UNCHANGED identities
           \/ /\ c.step = "identityRow"
              /\ \E name : identities' = identities \cup {[self |-> c.self, name |-> name]}
        /\ \/ UNCHANGED profiles
           \/ /\ c.step = "profileRow" /\ profiles[c.self] = None
              /\ profiles' = [profiles EXCEPT ![c.self] = c.number]
        /\ \/ UNCHANGED secrets
           \/ /\ c.step = "secret"
              /\ secrets' = [secrets EXCEPT ![c.self] = c.number]

LEMMA StepWrites ==
    ASSUME NEW p \in Processes, Step(p)
    PROVE  Writes(p)
<1>1. CASE Begin(p)
  BY <1>1 DEF Begin, Writes
<1>2. CASE FindSelf(p) \/ FindName(p) \/ FindProfile(p) \/ FindSender(p)
  BY <1>2 DEF FindSelf, FindName, FindProfile, FindSender, Writes
<1>3. CASE FindKey(p)
  BY <1>3 DEF FindKey, MakeKey, Writes
<1>4. CASE FindNostrKey(p)
  BY <1>4 DEF FindNostrKey, MakeKey, Writes
<1>5. CASE InsertIdentity(p)
  BY <1>5 DEF InsertIdentity, Writes
<1>6. CASE InsertKey(p)
  BY <1>6 DEF InsertKey, Writes
<1>7. CASE WriteSecret(p)
  BY <1>7 DEF WriteSecret, Writes
<1>8. CASE InsertProfile(p)
  BY <1>8 DEF InsertProfile, Writes
<1>9. CASE InsertNostrKey(p)
  BY <1>9 DEF InsertNostrKey, Writes
<1>10. CASE Fail(p)
  BY <1>10 DEF Fail, Writes
<1> QED
  BY <1>1, <1>2, <1>3, <1>4, <1>5, <1>6, <1>7, <1>8, <1>9, <1>10 DEF Step

\* Who writes is making something.
LEMMA WritersMake ==
    ASSUME NEW p \in Processes, Writes(p), ~Making(p)
    PROVE  UNCHANGED <<keys, identities, profiles, secrets>>
BY DEF Writes, Making, Idle

\* What a step of p does to the commands.
Turns(p) ==
    /\ \A q \in Processes : q # p => command'[q] = command[q]
    /\ Making(p)' =>
         /\ command[p] # Idle
         /\ Making(p) \/ (Miss(p) /\ UNCHANGED identities)
         /\ command'[p].number = command[p].number

LEMMA StepTurns ==
    ASSUME HomeInv, NEW p \in Processes, Step(p)
    PROVE  Turns(p)
<1> USE DEF Turns, Making
<1>1. CASE Begin(p)
  BY <1>1 DEF Begin, HomeInv, HomeTypeOK
<1>2. CASE FindSelf(p)
  <2>1. UNCHANGED identities /\ command[p] # Idle
    BY <1>2, FindSelfCommand, Fields DEF FindSelf, HomeInv
  <2>2. CASE Gone(p, "key", Oldest(identities).self, command[p].key, command[p].stamp, command[p].newborn)
    BY <2>1, <2>2 DEF Gone
  <2>3. CASE Gone(p, "key", command[p].number, command[p].key, command[p].stamp, TRUE) /\ Miss(p)
    BY <2>1, <2>3 DEF Gone
  <2> QED
    BY <1>2, <2>2, <2>3, FindSelfCommand DEF HomeInv
<1>3. CASE FindName(p)
  <2>1. UNCHANGED identities /\ command[p] # Idle
    BY <1>3, FindNameCommand, Fields DEF FindName, HomeInv
  <2>2. ASSUME NEW self, Gone(p, "key", self, command[p].key, command[p].stamp, command[p].newborn)
        PROVE  Turns(p)
    BY <2>1, <2>2 DEF Gone
  <2>3. CASE /\ Gone(p, "identityRow", command[p].number, command[p].key, command[p].stamp, command[p].newborn)
             /\ Miss(p)
    BY <2>1, <2>3 DEF Gone
  <2> QED
    BY <1>3, <2>2, <2>3, FindNameCommand DEF HomeInv
<1>4. CASE InsertIdentity(p)
  <2>1. Making(p)
    BY <1>4 DEF InsertIdentity, Idle
  <2> QED
    BY <1>4, <2>1, InsertIdentityCommand DEF Gone, HomeInv
<1>5. CASE FindKey(p)
  <2>1. UNCHANGED identities /\ command[p] # Idle
    BY <1>5, FindKeyCommand, Fields DEF FindKey, HomeInv
  <2>2. ASSUME NEW key, Gone(p, "profile", command[p].self, key, command[p].stamp, command[p].newborn)
        PROVE  Turns(p)
    BY <2>1, <2>2 DEF Gone
  <2>3. CASE /\ Gone(p, "keyRow", command[p].self, command[p].number, NextStamp, command[p].newborn)
             /\ Miss(p)
    BY <2>1, <2>3 DEF Gone
  <2> QED
    BY <1>5, <2>2, <2>3, FindKeyCommand DEF HomeInv
<1>6. CASE InsertKey(p)
  <2>1. Making(p)
    BY <1>6 DEF InsertKey, Idle
  <2> QED
    BY <1>6, <2>1, InsertKeyCommand DEF Gone, HomeInv
<1>7. CASE FindProfile(p)
  <2>1. CASE profiles[command[p].self] # None
    BY <1>7, <2>1, EndsThen DEF FindProfile, Ends, HomeInv
  <2>2. CASE profiles[command[p].self] = None
    <3>1. Proceed(p, "secret") /\ Miss(p) /\ UNCHANGED identities /\ command[p].step = "profile"
      BY <1>7, <2>2 DEF FindProfile
    <3>2. Gone(p, "secret", command[p].self, command[p].key, command[p].stamp, command[p].newborn)
      BY <3>1, ProceedCommand DEF Steps, HomeInv
    <3> QED
      BY <3>1, <3>2 DEF Gone, Idle
  <2> QED
    BY <2>1, <2>2
<1>8. CASE WriteSecret(p)
  <2>1. Making(p)
    BY <1>8 DEF WriteSecret, Idle
  <2>2. Gone(p, "profileRow", command[p].self, command[p].key, command[p].stamp, command[p].newborn)
    BY <1>8, ProceedCommand DEF WriteSecret, Steps, HomeInv
  <2> QED
    BY <2>1, <2>2 DEF Gone
<1>9. CASE InsertProfile(p) \/ InsertNostrKey(p) \/ Fail(p)
  <2>1. Ends(p)
    BY <1>9, EndsThen DEF InsertProfile, InsertNostrKey, Fail, HomeInv
  <2> QED
    BY <2>1 DEF Ends
<1>10. CASE FindSender(p)
  <2>1. UNCHANGED identities /\ command[p] # Idle
    BY <1>10, FindSenderCommand, Fields DEF FindSender, HomeInv
  <2>2. ASSUME NEW self, Gone(p, "nostr", self, command[p].key, command[p].stamp, command[p].newborn)
        PROVE  Turns(p)
    BY <2>1, <2>2 DEF Gone
  <2> QED
    BY <1>10, <2>2, FindSenderCommand DEF HomeInv
<1>11. CASE FindNostrKey(p)
  <2>1. CASE KeysOf("nostr", command[p].self) # {}
    BY <1>11, <2>1, EndsThen DEF FindNostrKey, Ends, HomeInv
  <2>2. CASE KeysOf("nostr", command[p].self) = {}
    <3>1. Proceed(p, "nostrRow") /\ Miss(p) /\ UNCHANGED identities /\ command[p].step = "nostr"
      BY <1>11, <2>2 DEF FindNostrKey
    <3>2. Gone(p, "nostrRow", command[p].self, command[p].key, command[p].stamp, command[p].newborn)
      BY <3>1, ProceedCommand DEF Steps, HomeInv
    <3> QED
      BY <3>1, <3>2 DEF Gone, Idle
  <2> QED
    BY <2>1, <2>2
<1> QED
  BY <1>1, <1>2, <1>3, <1>4, <1>5, <1>6, <1>7, <1>8, <1>9, <1>10, <1>11 DEF Step

\* What has been raced is not forgotten.
LEMMA RacedStays ==
    ASSUME NEW p \in Processes, Step(p), raced
    PROVE  raced'
<1>1. Miss(p) \/ UNCHANGED raced
  BY DEF Step, Begin, FindSelf, FindName, InsertIdentity, FindKey, InsertKey, FindProfile,
         WriteSecret, InsertProfile, FindSender, FindNostrKey, InsertNostrKey, Fail
<1> QED
  BY <1>1 DEF Miss

\* While one command makes something, the others write nothing.
LEMMA MakerAlone ==
    ASSUME OneMaking, NEW p \in Processes, NEW q \in Processes, q # p, Making(q), Writes(p)
    PROVE  UNCHANGED <<keys, identities, profiles, secrets>>
BY WritersMake DEF OneMaking

LEMMA OneMakingStays ==
    ASSUME OneMaking, NEW p \in Processes, Turns(p), ~raced'
    PROVE  OneMaking'
<1>1. \A q \in Processes : q # p /\ Making(q)' => Making(q)
  BY DEF Turns, Making
<1>2. Making(p)' => \A q \in Processes \ {p} : ~Making(q)
  BY DEF Turns, Miss, OneMaking
<1> QED
  BY <1>1, <1>2 DEF OneMaking

\* A new identity is younger than all others.
LEMMA YoungestInserted ==
    ASSUME HomeInv, MakersAreLatest, NEW p \in Processes, Writes(p)
    PROVE  /\ identities \subseteq identities'
           /\ \A i \in identities' : \/ i \in identities
                                     \/ /\ i.self = command[p].number /\ Making(p)
                                        /\ \A j \in identities : j.self < i.self
<1>1. CASE UNCHANGED identities
  BY <1>1
<1>2. ASSUME command[p].step = "identityRow", NEW name,
             identities' = identities \cup {[self |-> command[p].self, name |-> name]}
      PROVE  /\ identities \subseteq identities'
             /\ \A i \in identities' : \/ i \in identities
                                       \/ /\ i.self = command[p].number /\ Making(p)
                                          /\ \A j \in identities : j.self < i.self
  <2>1. /\ Prepared(p) /\ Unused(p) /\ command[p].number \in Numbers /\ command[p] # Idle
    BY <1>2, OwnNow DEF Steps
  <2>2. Making(p) /\ command[p].self = command[p].number
    BY <1>2, <2>1 DEF Making, Prepared
  <2>3. \A j \in identities : j.self \in Numbers /\ j.self <= command[p].number /\ j.self # command[p].number
    BY <1>2, <2>1, <2>2 DEF MakersAreLatest, Unused, HomeInv, HomeTypeOK, Identity
  <2>4. \A j \in identities : j.self < command[p].number
    BY <2>1, <2>3, HomeAssumption DEF Numbers
  <2> QED
    BY <1>2, <2>2, <2>4
<1> QED
  BY <1>1, <1>2 DEF Writes

LEMMA LatestStay ==
    ASSUME HomeInv, OneMaking, MakersAreLatest, NEW p \in Processes, Writes(p), Turns(p), ~raced'
    PROVE  MakersAreLatest'
<1> SUFFICES ASSUME NEW q \in Processes, Making(q)', NEW i \in identities'
             PROVE  i.self <= command'[q].number
  BY DEF MakersAreLatest
<1>1. CASE q # p
  <2>1. Making(q) /\ command'[q] = command[q]
    BY <1>1 DEF Turns, Making
  <2>2. UNCHANGED identities
    BY <1>1, <2>1, MakerAlone
  <2> QED
    BY <2>1, <2>2 DEF MakersAreLatest
<1>2. CASE q = p /\ Making(p)
  <2>1. command'[p].number = command[p].number /\ command[p].number \in Nat
    <3>1. command[p] \in Running
      BY <1>2, Runs DEF Making, HomeInv
    <3> QED
      BY <1>2, <3>1, Fields DEF Turns, Numbers
  <2>2. i \in identities \/ i.self = command[p].number
    BY YoungestInserted
  <2> QED
    BY <1>2, <2>1, <2>2 DEF MakersAreLatest
<1>3. CASE q = p /\ ~Making(p)
  <2>1. Miss(p) /\ UNCHANGED identities /\ command'[p].number = command[p].number
    BY <1>3 DEF Turns
  <2>2. ~(i.self > command[p].number)
    BY <2>1 DEF Miss
  <2>3. i.self \in Nat /\ command[p].number \in Nat
    <3>1. i.self \in Numbers
      BY <2>1 DEF HomeInv, HomeTypeOK, Identity
    <3>2. command[p] \in Running
      BY <1>3, Runs DEF Turns, HomeInv
    <3> QED
      BY <3>1, <3>2, Fields DEF Numbers
  <2> QED
    BY <1>3, <2>1, <2>2, <2>3
<1> QED
  BY <1>1, <1>2, <1>3

LEMMA OneSelfStays ==
    ASSUME HomeInv, OneSelfEach, NEW p \in Processes, Writes(p)
    PROVE  OneSelfEach'
<1>1. CASE UNCHANGED identities
  BY <1>1 DEF OneSelfEach
<1>2. ASSUME command[p].step = "identityRow", NEW name,
             identities' = identities \cup {[self |-> command[p].self, name |-> name]}
      PROVE  OneSelfEach'
  <2>1. \A j \in identities : j.self # command[p].self
    BY <1>2, OwnNow DEF Steps, Prepared, Unused
  <2> QED
    BY <1>2, <2>1 DEF OneSelfEach
<1> QED
  BY <1>1, <1>2 DEF Writes

LEMMA OneKeyStays ==
    ASSUME HomeInv, OneKeyEach, NEW p \in Processes, command[p] # Idle => Alone(p), Writes(p)
    PROVE  OneKeyEach'
<1>1. CASE UNCHANGED keys
  BY <1>1 DEF OneKeyEach
<1>2. ASSUME NEW new, keys' = keys \cup {new}, KeysOf(new.type, new.owner) = {}
      PROVE  OneKeyEach'
  <2>1. \A row \in keys : ~(row.type = new.type /\ row.owner = new.owner)
    BY <1>2 DEF KeysOf
  <2> QED
    BY <1>2, <2>1 DEF OneKeyEach
<1>3. CASE /\ command[p].step = "keyRow"
           /\ keys' = keys \cup {[type |-> "self", owner |-> command[p].self, key |-> command[p].key,
                                  stamp |-> command[p].stamp]}
  <2>1. KeysOf("self", command[p].self) = {}
    BY <1>3 DEF Alone, Idle
  <2> QED
    BY <1>2, <1>3, <2>1
<1>4. CASE /\ command[p].step = "nostrRow"
           /\ keys' = keys \cup {[type |-> "nostr", owner |-> command[p].self, key |-> command[p].number,
                                  stamp |-> command[p].number]}
  <2>1. KeysOf("nostr", command[p].self) = {}
    BY <1>4 DEF Alone, Idle
  <2> QED
    BY <1>2, <1>4, <2>1
<1> QED
  BY <1>1, <1>3, <1>4 DEF Writes

LEMMA SecretsStayFit ==
    ASSUME HomeInv, SecretsFit, NEW p \in Processes, command[p] # Idle => Alone(p), Writes(p)
    PROVE  SecretsFit'
<1> SUFFICES ASSUME NEW s \in Numbers, profiles'[s] # None
             PROVE  secrets'[s] = profiles'[s]
  BY DEF SecretsFit
<1>1. profiles \in [Numbers -> Numbers \cup {None}] /\ secrets \in [Numbers -> Numbers \cup {None}]
  BY DEF HomeInv, HomeTypeOK
<1>2. CASE UNCHANGED <<profiles, secrets>>
  BY <1>2 DEF SecretsFit
<1>3. CASE command[p].step = "profileRow"
  <2>1. UNCHANGED secrets /\ secrets[command[p].self] = command[p].number
    BY <1>3 DEF Writes, Alone, Idle
  <2>2. CASE UNCHANGED profiles
    BY <2>1, <2>2 DEF SecretsFit
  <2>3. CASE profiles' = [profiles EXCEPT ![command[p].self] = command[p].number]
    BY <1>1, <2>1, <2>3 DEF SecretsFit
  <2> QED
    BY <2>2, <2>3 DEF Writes
<1>4. CASE command[p].step = "secret"
  <2>1. UNCHANGED profiles /\ profiles[command[p].self] = None
    BY <1>4 DEF Writes, Alone, Idle
  <2>2. CASE UNCHANGED secrets
    BY <2>1, <2>2 DEF SecretsFit
  <2>3. CASE secrets' = [secrets EXCEPT ![command[p].self] = command[p].number]
    BY <1>1, <2>1, <2>3 DEF SecretsFit
  <2> QED
    BY <2>2, <2>3 DEF Writes
<1> QED
  BY <1>2, <1>3, <1>4 DEF Writes

\* What the others are about to do is still theirs to do.
LEMMA OthersAlone ==
    ASSUME HomeInv, HomeTypeOK', OneMaking, MakersAreLatest, NEW p \in Processes, Writes(p), Turns(p),
           NEW q \in Processes, q # p, command[q] # Idle, Alone(q)
    PROVE  Alone(q)'
<1>1. command'[q] = command[q]
  BY DEF Turns
<1>2. CASE Making(q)
  <2>1. UNCHANGED <<keys, identities, profiles, secrets>>
    BY <1>2, MakerAlone
  <2> QED
    BY <1>1, <2>1 DEF Alone, KeysOf
<1>3. CASE ~Making(q)
  <2>1. command[q].step \notin {"keyRow", "nostrRow", "secret", "profileRow"}
    BY <1>3 DEF Making
  <2>2. command[q].kind = "export" /\ command[q].step # "find" =>
          \A i \in identities' : command[q].self <= i.self
    <3> SUFFICES ASSUME command[q].kind = "export", command[q].step # "find", NEW i \in identities'
                 PROVE  command[q].self <= i.self
      OBVIOUS
    <3>3. i.self \in Nat
      BY DEF HomeTypeOK, Identity, Numbers
    <3>1. CASE i \in identities
      BY <3>1 DEF Alone
    <3>2. CASE \A j \in identities : j.self < i.self
      <4>1. PICK j \in identities : j.self = command[q].self
        BY DEF HomeInv, Own, Found
      <4>2. j.self < i.self
        BY <3>2
      <4>3. j.self \in Nat
        BY HomeAssumption DEF HomeInv, HomeTypeOK, Identity, Numbers
      <4> QED
        BY <4>1, <4>2, <4>3, <3>3
    <3> QED
      BY <3>1, <3>2, YoungestInserted
  <2> QED
    BY <1>1, <2>1, <2>2 DEF Alone
<1> QED
  BY <1>2, <1>3

\* What p itself is about to do next.
LEMMA SelfAlone ==
    ASSUME HomeInv, HomeTypeOK', NEW p \in Processes, Step(p), command[p] # Idle => Alone(p),
           command'[p] # Idle
    PROVE  Alone(p)'
<1> DEFINE c == command[p]
<1>1. CASE Begin(p)
  <2>1. command'[p].step \in {"find", "name"} /\ (command'[p].kind = "export" => command'[p].step = "find")
    BY <1>1, HomeAssumption DEF Begin, HomeInv, HomeTypeOK
  <2> QED
    BY <2>1 DEF Alone
<1>2. CASE FindSelf(p)
  <2>1. UNCHANGED identities
    BY <1>2 DEF FindSelf
  <2>2. CASE identities # {} /\ Gone(p, "key", Oldest(identities).self, c.key, c.stamp, c.newborn)
    <3>1. \A i \in identities : Oldest(identities).self <= i.self
      BY <2>2, OldestIsOne DEF HomeInv, HomeTypeOK
    <3> QED
      BY <2>1, <2>2, <3>1 DEF Alone, Gone
  <2>3. CASE c.kind = "init" /\ Gone(p, "key", c.number, c.key, c.stamp, TRUE)
    BY <2>3 DEF Alone, Gone
  <2> QED
    BY <1>2, <2>2, <2>3, FindSelfCommand DEF HomeInv
<1>3. CASE FindName(p)
  <2>1. c.kind = "init"
    BY <1>3, OwnNow DEF FindName, Steps, Prepared
  <2>2. ASSUME NEW step \in {"key", "identityRow"}, NEW self, Gone(p, step, self, c.key, c.stamp, c.newborn)
        PROVE  Alone(p)'
    BY <2>1, <2>2 DEF Alone, Gone
  <2> QED
    BY <1>3, <2>2, FindNameCommand DEF HomeInv
<1>4. CASE InsertIdentity(p)
  <2>1. c \in Running /\ c # Idle /\ c.step = "identityRow" /\ Found(p) /\ Unused(p) /\ c.self = c.number
    BY <1>4, OwnNow DEF InsertIdentity, Steps, Prepared
  <2>2. c.kind # "export"
    BY <2>1 DEF Found, Unused
  <2> QED
    BY <1>4, <2>2, InsertIdentityCommand DEF Alone, Gone, HomeInv
<1>5. CASE FindKey(p)
  <2>1. UNCHANGED identities /\ c.step = "key" /\ c # Idle
    BY <1>5, FindKeyCommand, Fields DEF FindKey, HomeInv
  <2>2. ASSUME NEW key, Gone(p, "profile", c.self, key, c.stamp, c.newborn)
        PROVE  Alone(p)'
    BY <2>1, <2>2 DEF Alone, Gone
  <2>3. CASE /\ KeysOf("self", c.self) = {} /\ MakeKey(p, "self")
             /\ Gone(p, "keyRow", c.self, c.number, NextStamp, c.newborn)
    BY <2>1, <2>3 DEF Alone, Gone, MakeKey, KeysOf
  <2> QED
    BY <1>5, <2>2, <2>3, FindKeyCommand DEF HomeInv
<1>6. CASE InsertKey(p)
  <2>1. UNCHANGED identities /\ c.step = "keyRow" /\ c # Idle
    BY <1>6, InsertKeyCommand, Fields DEF InsertKey, HomeInv
  <2> QED
    BY <1>6, <2>1, InsertKeyCommand DEF Alone, Gone, HomeInv
<1>7. CASE FindProfile(p)
  <2>1. UNCHANGED <<identities, profiles>> /\ c.step = "profile" /\ c # Idle
    BY <1>7 DEF FindProfile, Idle
  <2>2. CASE profiles[c.self] # None
    BY <1>7, <2>2, EndsThen DEF FindProfile, Ends, HomeInv
  <2>3. CASE profiles[c.self] = None
    <3>1. Gone(p, "secret", c.self, c.key, c.stamp, c.newborn)
      BY <1>7, <2>3, ProceedCommand DEF FindProfile, Steps, HomeInv
    <3> QED
      BY <2>1, <2>3, <3>1 DEF Alone, Gone
  <2> QED
    BY <2>2, <2>3
<1>8. CASE WriteSecret(p)
  <2>1. /\ UNCHANGED <<identities, profiles>> /\ c.step = "secret" /\ c # Idle
        /\ secrets' = [secrets EXCEPT ![c.self] = c.number]
    BY <1>8 DEF WriteSecret, Idle
  <2>2. Gone(p, "profileRow", c.self, c.key, c.stamp, c.newborn)
    BY <1>8, ProceedCommand DEF WriteSecret, Steps, HomeInv
  <2>3. c.self \in Numbers
    BY <2>1, OwnNow, Fields DEF Steps
  <2>4. secrets'[c.self] = c.number
    BY <2>1, <2>3 DEF HomeInv, HomeTypeOK
  <2> QED
    BY <2>1, <2>2, <2>4 DEF Alone, Gone
<1>9. CASE InsertProfile(p) \/ InsertNostrKey(p) \/ Fail(p)
  BY <1>9, EndsThen DEF InsertProfile, InsertNostrKey, Fail, Ends, HomeInv
<1>10. CASE FindSender(p)
  <2>1. c.kind = "message"
    BY <1>10 DEF FindSender
  <2> QED
    BY <1>10, <2>1, FindSenderCommand DEF Alone, Gone, HomeInv
<1>11. CASE FindNostrKey(p)
  <2>1. UNCHANGED identities /\ c.step = "nostr" /\ c # Idle
    BY <1>11 DEF FindNostrKey, Idle
  <2>2. CASE KeysOf("nostr", c.self) # {}
    BY <1>11, <2>2, EndsThen DEF FindNostrKey, Ends, HomeInv
  <2>3. CASE KeysOf("nostr", c.self) = {}
    <3>1. Gone(p, "nostrRow", c.self, c.key, c.stamp, c.newborn) /\ UNCHANGED keys
      BY <1>11, <2>3, ProceedCommand DEF FindNostrKey, MakeKey, Steps, HomeInv
    <3> QED
      BY <2>1, <2>3, <3>1 DEF Alone, Gone, KeysOf
  <2> QED
    BY <2>2, <2>3
<1> QED
  BY <1>1, <1>2, <1>3, <1>4, <1>5, <1>6, <1>7, <1>8, <1>9, <1>10, <1>11 DEF Step

\* The cards there are still hold.
LEMMA CardsStay ==
    ASSUME HomeInv, HomeTypeOK', MakersAreLatest, NEW p \in Processes, Writes(p),
           NEW card \in cards, CardHolds(card)
    PROVE  CardHolds(card)'
<1>1. card.self \in Numbers /\ card.encryption \in Numbers /\ card.encryption # None
  BY HomeAssumption DEF HomeInv, HomeTypeOK, Card, Numbers
<1>2. \E i \in identities' : i.self = card.self /\ i.name = card.name
  BY YoungestInserted DEF CardHolds
<1>3. \A i \in identities' : card.self <= i.self
  <2> SUFFICES ASSUME NEW i \in identities'
               PROVE  card.self <= i.self
    OBVIOUS
  <2>1. PICK j \in identities : j.self = card.self
    BY DEF CardHolds
  <2>2. i.self \in Nat /\ card.self \in Nat
    BY <1>1 DEF HomeTypeOK, Identity, Numbers
  <2>3. i \in identities \/ j.self < i.self
    BY YoungestInserted
  <2> QED
    BY <2>1, <2>2, <2>3 DEF CardHolds
<1>4. keys \subseteq keys'
  BY DEF Writes
<1>5. profiles'[card.self] = card.encryption
  BY <1>1 DEF Writes, CardHolds, HomeInv, HomeTypeOK
<1> QED
  BY <1>2, <1>3, <1>4, <1>5 DEF CardHolds

\* A new card holds.
LEMMA NewCardHolds ==
    ASSUME HomeInv, NEW p \in Processes, command[p] \in Running, Alone(p),
           command[p].step \in {"profile", "profileRow"}, command[p].kind = "export",
           UNCHANGED <<keys, identities>>,
           NEW card, card.self = command[p].self, card.key = command[p].key,
           card.encryption = profiles'[command[p].self],
           \E i \in identities : i.self = card.self /\ i.name = card.name
    PROVE  CardHolds(card)'
<1>1. Found(p)
  BY OwnNow DEF Steps
<1>2. \A i \in identities : card.self <= i.self
  BY DEF Alone
<1>3. \E row \in keys : row.type = "self" /\ row.owner = card.self /\ row.key = card.key
  BY <1>1 DEF Found
<1> QED
  BY <1>2, <1>3 DEF CardHolds

LEMMA CardsHold ==
    ASSUME HomeInv, HomeTypeOK', MakersAreLatest, NEW p \in Processes, Step(p),
           command[p] # Idle => Alone(p), \A card \in cards : CardHolds(card)
    PROVE  \A card \in cards' : CardHolds(card)'
<1> DEFINE c == command[p]
<1>1. \A card \in cards : CardHolds(card)'
  BY CardsStay, StepWrites
<1>2. CASE UNCHANGED cards
  BY <1>1, <1>2
<1>3. CASE InsertProfile(p)
  <2>1. /\ c \in Running /\ c # Idle /\ c.number \in Numbers /\ c.self \in Numbers /\ c.step = "profileRow"
    BY <1>3, OwnNow, Fields DEF InsertProfile, Steps
  <2>2. UNCHANGED <<keys, identities>> /\ Export(p, c.number) /\ profiles'[c.self] = c.number
    BY <1>3, <2>1 DEF InsertProfile, HomeInv, HomeTypeOK
  <2>3. \A card \in cards' :
          \/ card \in cards
          \/ /\ c.kind = "export" /\ card.self = c.self /\ card.key = c.key /\ card.encryption = c.number
             /\ \E i \in identities : i.self = card.self /\ i.name = card.name
    BY <2>1, <2>2, ExportCard
  <2> QED
    BY <1>1, <2>1, <2>2, <2>3, NewCardHolds
<1>4. CASE FindProfile(p)
  <2>1. c \in Running /\ c # Idle /\ c.self \in Numbers /\ c.step = "profile"
    BY <1>4, OwnNow, Fields DEF FindProfile, Steps
  <2>2. CASE profiles[c.self] = None
    BY <1>2, <1>4, <2>2 DEF FindProfile
  <2>3. CASE profiles[c.self] # None
    <3>1. UNCHANGED <<keys, identities, profiles>> /\ Export(p, profiles[c.self]) /\ profiles[c.self] \in Numbers
      BY <1>4, <2>1, <2>3 DEF FindProfile, HomeInv, HomeTypeOK
    <3>2. \A card \in cards' :
            \/ card \in cards
            \/ /\ c.kind = "export" /\ card.self = c.self /\ card.key = c.key
               /\ card.encryption = profiles[c.self]
               /\ \E i \in identities : i.self = card.self /\ i.name = card.name
      BY <2>1, <3>1, ExportCard
    <3> QED
      BY <1>1, <2>1, <3>1, <3>2, NewCardHolds
  <2> QED
    BY <2>2, <2>3
<1> QED
  BY <1>2, <1>3, <1>4 DEF Step, Begin, FindSelf, FindName, InsertIdentity, FindKey, InsertKey,
     WriteSecret, FindSender, FindNostrKey, InsertNostrKey, Fail

LEMMA SendersStay ==
    ASSUME HomeInv, SendersHold, NEW p \in Processes, Step(p)
    PROVE  SendersHold'
<1> DEFINE c == command[p]
<1>1. keys \subseteq keys'
  BY StepWrites DEF Writes
<1>2. CASE UNCHANGED senders
  BY <1>1, <1>2 DEF SendersHold
<1>3. ASSUME NEW row \in keys', row.type = "nostr", row.owner = c.self,
             senders' = senders \cup {<<c.self, row.key>>}
      PROVE  SendersHold'
  BY <1>1, <1>3 DEF SendersHold
<1>4. CASE FindNostrKey(p)
  <2>1. CASE KeysOf("nostr", c.self) # {}
    <3>1. PICK row \in KeysOf("nostr", c.self) : OldestKey(KeysOf("nostr", c.self)) = row.key
      BY <2>1, OldestKeyIsOne DEF KeysOf, HomeInv, HomeTypeOK
    <3>2. senders' = senders \cup {<<c.self, row.key>>}
      BY <1>4, <2>1, <3>1 DEF FindNostrKey
    <3>3. row \in keys' /\ row.type = "nostr" /\ row.owner = c.self
      BY <1>1 DEF KeysOf
    <3> QED
      BY <1>3, <3>2, <3>3
  <2>2. CASE KeysOf("nostr", c.self) = {}
    BY <1>2, <1>4, <2>2 DEF FindNostrKey
  <2> QED
    BY <2>1, <2>2
<1>5. CASE InsertNostrKey(p)
  <2> DEFINE new == [type |-> "nostr", owner |-> c.self, key |-> c.number, stamp |-> c.number]
  <2>1. new \in keys' /\ senders' = senders \cup {<<c.self, new.key>>}
    BY <1>5 DEF InsertNostrKey
  <2>2. new.type = "nostr" /\ new.owner = c.self
    OBVIOUS
  <2> QED
    BY <1>3, <2>1, <2>2
<1> QED
  BY <1>2, <1>4, <1>5 DEF Step, Begin, FindSelf, FindName, InsertIdentity, FindKey, InsertKey,
     FindProfile, WriteSecret, InsertProfile, FindSender, Fail

CalmInv == HomeInv /\ (~raced => Calm)

LEMMA CalmStep ==
    ASSUME HomeInv, HomeInv', Calm, NEW p \in Processes, Step(p), ~raced'
    PROVE  Calm'
<1>1. Writes(p) /\ Turns(p) /\ HomeTypeOK'
  BY StepWrites, StepTurns DEF HomeInv
<1>2. OneMaking /\ MakersAreLatest /\ (command[p] # Idle => Alone(p))
  BY DEF Calm
<1>3. OneMaking' /\ MakersAreLatest'
  BY <1>1, <1>2, OneMakingStays, LatestStay
<1>4. OneSelfEach' /\ OneKeyEach' /\ SecretsFit'
  BY <1>1, <1>2, OneSelfStays, OneKeyStays, SecretsStayFit DEF Calm
<1>5. ASSUME NEW q \in Processes, command'[q] # Idle
      PROVE  Alone(q)'
  <2>1. CASE q = p
    BY <1>1, <1>2, <1>5, <2>1, SelfAlone
  <2>2. CASE q # p
    <3>1. command[q] # Idle
      BY <1>1, <1>5, <2>2 DEF Turns
    <3> QED
      BY <1>1, <1>2, <2>2, <3>1, OthersAlone DEF Calm
  <2> QED
    BY <2>1, <2>2
<1>6. (\A card \in cards' : CardHolds(card)') /\ SendersHold'
  BY <1>1, <1>2, CardsHold, SendersStay DEF Calm
<1> QED
  BY <1>3, <1>4, <1>5, <1>6 DEF Calm

LEMMA CalmStays == Spec => []CalmInv
<1>1. Init => CalmInv
  <2> SUFFICES ASSUME Init
               PROVE  Calm
    BY InitKeeps DEF CalmInv
  <2> QED
    BY DEF Init, Calm, OneMaking, Making, MakersAreLatest, OneSelfEach, OneKeyEach, SecretsFit,
              SendersHold
<1>2. CalmInv /\ [Next]_homeVars => CalmInv'
  <2> SUFFICES ASSUME CalmInv, [Next]_homeVars
               PROVE  CalmInv'
    OBVIOUS
  <2>1. HomeInv /\ HomeInv'
    BY StepKeeps DEF CalmInv
  <2>2. CASE UNCHANGED homeVars
    BY <2>1, <2>2 DEF homeVars, CalmInv, Calm, OneMaking, Making, MakersAreLatest, OneSelfEach,
                      OneKeyEach, SecretsFit, Alone, KeysOf, CardHolds, SendersHold
  <2>3. ASSUME NEW p \in Processes, Step(p)
        PROVE  CalmInv'
    BY <2>1, <2>3, CalmStep, RacedStays DEF CalmInv
  <2> QED
    BY <2>2, <2>3 DEF Next
<1> QED
  BY <1>1, <1>2, PTL DEF Spec

\* As long as no two commands have made parts of the home at once, the home
\* keeps what its cards promise: the identity messages are sent as, the key
\* they are signed with and the private half of the encryption key, whatever
\* commands were broken off before and after.
THEOREM CardsAreKept == Spec => []CardsKept
<1>1. CalmInv => CardsKept
  <2> SUFFICES ASSUME CalmInv, ~raced, NEW card \in cards
               PROVE  /\ Sendable # {} /\ Oldest(Sendable).self = card.self
                      /\ SignersOf(card.self) = {card.key}
                      /\ secrets[card.self] = card.encryption
    BY DEF CardsKept
  <2>1. HomeInv /\ Calm /\ CardHolds(card)
    BY DEF CalmInv, Calm
  <2>2. card.self \in Numbers /\ card.encryption # None
    BY <2>1, HomeAssumption DEF HomeInv, HomeTypeOK, Card, Numbers
  <2>3. secrets[card.self] = card.encryption /\ profiles[card.self] # None
    BY <2>1, <2>2 DEF CardHolds, Calm, SecretsFit
  <2>4. PICK row \in keys : row.type = "self" /\ row.owner = card.self /\ row.key = card.key
    BY <2>1 DEF CardHolds
  <2>5. SignersOf(card.self) = {card.key}
    <3>1. KeysOf("self", card.self) = {row}
      BY <2>1, <2>4 DEF Calm, OneKeyEach, KeysOf
    <3> QED
      BY <2>4, <3>1 DEF SignersOf
  <2>6. PICK i \in identities : i.self = card.self
    BY <2>1 DEF CardHolds
  <2>7. i \in Sendable
    BY <2>3, <2>4, <2>6 DEF Sendable, KeysOf
  <2>8. Sendable \subseteq identities /\ Sendable \subseteq Identity
    BY <2>1 DEF Sendable, HomeInv, HomeTypeOK
  <2>9. Oldest(Sendable) \in Sendable /\ Oldest(Sendable).self <= i.self
    BY <2>7, <2>8, OldestIsOne
  <2>10. card.self <= Oldest(Sendable).self
    BY <2>1, <2>8, <2>9 DEF CardHolds
  <2>11. Oldest(Sendable).self \in Nat /\ card.self \in Nat
    BY <2>2, <2>8, <2>9 DEF Identity, Numbers
  <2> QED
    BY <2>3, <2>5, <2>6, <2>7, <2>9, <2>10, <2>11
<1> QED
  BY <1>1, CalmStays, PTL

\* Under the same condition an identity sends with one Nostr key only.
THEOREM SenderIsOne == Spec => []OneSender
<1>1. CalmInv => OneSender
  <2> SUFFICES ASSUME CalmInv, ~raced, NEW s \in senders, NEW t \in senders, s[1] = t[1]
               PROVE  s = t
    BY DEF OneSender
  <2>1. SendersHold /\ OneKeyEach /\ senders \subseteq Numbers \X Numbers
    BY DEF CalmInv, Calm, HomeInv, HomeTypeOK
  <2>2. s[2] = t[2]
    BY <2>1 DEF SendersHold, OneKeyEach
  <2> QED
    BY <2>1, <2>2
<1> QED
  BY <1>1, CalmStays, PTL
=============================================================================
