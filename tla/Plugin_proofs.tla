---------------------------- MODULE Plugin_proofs ----------------------------
(***************************************************************************)
(* Proofs about the plugin, for any number of chats, contacts and words.   *)
(***************************************************************************)
EXTENDS Plugin, FiniteSetTheorems, SequenceTheorems, TLAPS

-----------------------------------------------------------------------------
(* The list of conversations. *)

\* A conversation that goes to the front is listed once, and the others stay.
LEMMA FrontOnce ==
    ASSUME inbox \in Seq(Peers), IsInjective(inbox), NEW c \in Peers,
           NEW new, new = ToFront(c)
    PROVE  /\ new \in Seq(Peers)
           /\ IsInjective(new)
           /\ \A i \in DOMAIN new : new[i] = c \/ \E j \in DOMAIN inbox : new[i] = inbox[j]
           /\ \E i \in DOMAIN new : new[i] = c
           /\ \A j \in DOMAIN inbox : \E i \in DOMAIN new : new[i] = inbox[j]
<1>1. PICK n \in Nat : n = Len(inbox)
  OBVIOUS
<1>2. DOMAIN inbox = 1 .. n /\ \A i \in 1 .. n : inbox[i] \in Peers
  BY <1>1
<1>3. \A i, j \in 1 .. n : inbox[i] = inbox[j] => i = j
  BY <1>2 DEF IsInjective
<1>4. CASE ~(\E i \in 1 .. n : inbox[i] = c)
  <2>1. RemoveFirst(inbox, c) = inbox
    BY <1>1, <1>4 DEF RemoveFirst
  <2>2. new = <<c>> \o inbox
    BY <2>1 DEF ToFront
  <2>3. new \in Seq(Peers)
    BY <2>2
  <2>4. /\ DOMAIN new = 1 .. (n + 1) /\ new[1] = c
        /\ \A i \in 2 .. (n + 1) : new[i] = inbox[i - 1] /\ i - 1 \in 1 .. n
    BY <1>1, <2>2
  <2>5. IsInjective(new)
    <3>1. SUFFICES ASSUME NEW i \in 1 .. (n + 1), NEW j \in 1 .. (n + 1), new[i] = new[j]
                   PROVE  i = j
      BY <2>4 DEF IsInjective
    <3>2. (i = 1 \/ i \in 2 .. (n + 1)) /\ (j = 1 \/ j \in 2 .. (n + 1))
      BY <1>1
    <3>3. CASE i = 1 \/ j = 1
      BY <1>4, <2>4, <3>1, <3>2, <3>3
    <3>4. CASE i \in 2 .. (n + 1) /\ j \in 2 .. (n + 1)
      BY <1>3, <2>4, <3>1, <3>4
    <3>. QED
      BY <3>2, <3>3, <3>4
  <2>6. ASSUME NEW i \in 1 .. (n + 1)
        PROVE  new[i] = c \/ \E j \in 1 .. n : new[i] = inbox[j]
    <3>1. i = 1 \/ i \in 2 .. (n + 1)
      BY <1>1
    <3>. QED
      BY <2>4, <3>1
  <2>7. ASSUME NEW j \in 1 .. n PROVE \E i \in 1 .. (n + 1) : new[i] = inbox[j]
    <3>1. j + 1 \in 2 .. (n + 1) /\ (j + 1) - 1 = j /\ j + 1 \in 1 .. (n + 1)
      BY <1>1
    <3>2. new[j + 1] = inbox[(j + 1) - 1]
      BY <2>4, <3>1
    <3>. QED
      BY <3>1, <3>2
  <2>8. \E i \in DOMAIN new : new[i] = c
    BY <1>1, <2>4
  <2>9. \A i \in DOMAIN new : new[i] = c \/ \E j \in DOMAIN inbox : new[i] = inbox[j]
    BY <1>2, <2>4, <2>6
  <2>10. \A j \in DOMAIN inbox : \E i \in DOMAIN new : new[i] = inbox[j]
    BY <1>2, <2>4, <2>7
  <2>. QED
    BY <2>3, <2>5, <2>8, <2>9, <2>10
<1>5. CASE \E i \in 1 .. n : inbox[i] = c
  <2>1. PICK k \in 1 .. n : inbox[k] = c
    BY <1>5
  <2>2. SelectInSeq(inbox, LAMBDA v : v = c) = k
    <3>1. {i \in 1 .. Len(inbox) : inbox[i] = c} = {k}
      BY <1>1, <1>3, <2>1
    <3>2. Min({k}) = k
      BY DEF Min
    <3>. QED
      BY <3>1, <3>2 DEF SelectInSeq
  <2>3. RemoveFirst(inbox, c) = SubSeq(inbox, 1, k - 1) \o SubSeq(inbox, k + 1, n)
    BY <1>1, <1>5, <2>2 DEF RemoveFirst, RemoveAt
  <2>4. new = <<c>> \o (SubSeq(inbox, 1, k - 1) \o SubSeq(inbox, k + 1, n))
    BY <2>3 DEF ToFront
  <2>. DEFINE before == SubSeq(inbox, 1, k - 1)
              after == SubSeq(inbox, k + 1, n)
  <2>5. /\ before \in Seq(Peers) /\ Len(before) = k - 1
        /\ \A i \in 1 .. (k - 1) : before[i] = inbox[i]
    BY <1>1, <1>2, <2>1
  <2>6. /\ after \in Seq(Peers) /\ Len(after) = n - k
        /\ \A i \in 1 .. (n - k) : after[i] = inbox[k + i]
    BY <1>1, <1>2, <2>1
  <2>7. new = <<c>> \o (before \o after)
    BY <2>4
  <2>. HIDE DEF before, after
  <2>8. new \in Seq(Peers)
    BY <2>5, <2>6, <2>7
  <2>9. /\ DOMAIN new = 1 .. n /\ new[1] = c
        /\ \A i \in 2 .. k : new[i] = inbox[i - 1]
        /\ \A i \in (k + 1) .. n : new[i] = inbox[i]
    <3>. DEFINE rest == before \o after
    <3>1. /\ rest \in Seq(Peers) /\ Len(rest) = n - 1
          /\ \A i \in 1 .. (k - 1) : rest[i] = inbox[i]
          /\ \A i \in k .. (n - 1) : rest[i] = inbox[i + 1]
      <4>0. /\ rest \in Seq(Peers) /\ Len(rest) = Len(before) + Len(after)
            /\ \A i \in 1 .. (Len(before) + Len(after)) :
                 rest[i] = IF i <= Len(before) THEN before[i] ELSE after[i - Len(before)]
        BY <2>5, <2>6, ConcatProperties
      <4>. HIDE DEF rest
      <4>1. Len(rest) = n - 1
        BY <1>1, <2>1, <2>5, <2>6, <4>0
      <4>2. \A i \in 1 .. (n - 1) : rest[i] = IF i <= k - 1 THEN before[i]
                                               ELSE after[i - (k - 1)]
        BY <2>5, <4>0, <4>1
      <4>3. ASSUME NEW i \in k .. (n - 1) PROVE rest[i] = inbox[i + 1]
        <5>1. i \in 1 .. (n - 1) /\ ~(i <= k - 1) /\ i - (k - 1) \in 1 .. (n - k)
              /\ k + (i - (k - 1)) = i + 1
          BY <1>1, <2>1
        <5>2. rest[i] = after[i - (k - 1)]
          BY <4>2, <5>1
        <5>. QED
          BY <2>6, <5>1, <5>2
      <4>4. ASSUME NEW i \in 1 .. (k - 1) PROVE rest[i] = inbox[i]
        <5>1. i \in 1 .. (n - 1) /\ i <= k - 1
          BY <1>1, <2>1
        <5>. QED
          BY <2>5, <4>2, <5>1
      <4>. QED
        BY <4>0, <4>1, <4>3, <4>4
    <3>2. new = <<c>> \o rest
      BY <2>7
    <3>. HIDE DEF rest
    <3>3. /\ DOMAIN new = 1 .. n /\ new[1] = c
          /\ \A i \in 2 .. n : new[i] = rest[i - 1]
      BY <1>1, <2>1, <3>1, <3>2
    <3>. QED
      BY <1>1, <2>1, <3>1, <3>3
  <2>10. IsInjective(new)
    <3>1. SUFFICES ASSUME NEW i \in 1 .. n, NEW j \in 1 .. n, new[i] = new[j], i < j
                   PROVE  FALSE
      BY <1>1, <2>9 DEF IsInjective
    <3>2. j \in 2 .. k \/ j \in (k + 1) .. n
      BY <1>1, <2>1, <3>1
    <3>3. i = 1 \/ i \in 2 .. k \/ i \in (k + 1) .. n
      BY <1>1, <2>1, <3>1
    <3>. QED
      BY <1>1, <1>3, <2>1, <2>9, <3>1, <3>2, <3>3
  <2>11. ASSUME NEW i \in 1 .. n PROVE new[i] = c \/ \E j \in 1 .. n : new[i] = inbox[j]
    <3>1. i = 1 \/ i \in 2 .. k \/ i \in (k + 1) .. n
      BY <1>1, <2>1
    <3>2. i \in 2 .. k => i - 1 \in 1 .. n
      BY <1>1, <2>1
    <3>. QED
      BY <1>1, <2>1, <2>9, <3>1, <3>2
  <2>12. ASSUME NEW j \in 1 .. n PROVE \E i \in 1 .. n : new[i] = inbox[j]
    <3>1. CASE j < k
      <4>1. j + 1 \in 2 .. k /\ j + 1 \in 1 .. n /\ (j + 1) - 1 = j
        BY <1>1, <2>1, <3>1
      <4>. QED
        BY <2>9, <4>1
    <3>2. CASE j = k
      BY <1>1, <2>1, <2>9, <3>2
    <3>3. CASE j > k
      BY <1>1, <2>1, <2>9, <3>3
    <3>. QED
      BY <1>1, <2>1, <3>1, <3>2, <3>3
  <2>13. \E i \in DOMAIN new : new[i] = c
    BY <1>1, <2>1, <2>9
  <2>14. \A i \in DOMAIN new : new[i] = c \/ \E j \in DOMAIN inbox : new[i] = inbox[j]
    BY <1>2, <2>9, <2>11
  <2>15. \A j \in DOMAIN inbox : \E i \in DOMAIN new : new[i] = inbox[j]
    BY <1>2, <2>9, <2>12
  <2>. QED
    BY <2>8, <2>10, <2>13, <2>14, <2>15
<1>. QED
  BY <1>4, <1>5

-----------------------------------------------------------------------------
(* Types. *)

LEMMA PhaseOfRunning ==
    ASSUME TypeOK, NEW p \in Chats
    PROVE  /\ command[p].phase # "idle" => command[p] # Idle
           /\ command[p] # Idle => command[p] \in Running
           /\ command[p] = Idle => command[p].phase = "idle"
  BY DEF TypeOK, Idle

LEMMA MatchesType ==
    /\ \A word : Exactly(word) \subseteq Peers
    /\ \A word : Matches(word) \subseteq Peers
    /\ \A word : Meant(word) \subseteq Peers
  BY DEF Matches, Meant, Exactly, Partly

\* What a new command is.
LEMMA AskFacts ==
    ASSUME TypeOK, NEW p \in Chats, Ask(p)
    PROVE  /\ UNCHANGED <<contacts, inbox, shown, detached, context, cardless>>
           /\ sent' = None
           /\ \E k \in Running :
                 /\ command' = [command EXCEPT ![p] = k]
                 /\ k.phase # "send" /\ ~k.fallback
<1>1. PICK word \in Refs : \/ AskThread(p, word) \/ AskMessage(p, word)
                           \/ \E more \in BOOLEAN : AskReply(p, word, more)
  BY DEF Ask
<1>2. context \in Refs \cup {None}
  BY DEF TypeOK
<1>3. \E kind \in Kinds, typed \in Refs \cup {None}, phase \in Phases \ {"send"},
         ref \in Refs \cup {None} : Enter(p, kind, typed, phase, ref)
  <2>1. CASE AskThread(p, word) \/ AskMessage(p, word)
    BY <2>1 DEF AskThread, AskMessage, Kinds, Phases
  <2>2. CASE \E more \in BOOLEAN : AskReply(p, word, more)
    BY <1>2, <2>2 DEF AskReply, Kinds, Phases
  <2>. QED
    BY <1>1, <2>1, <2>2
<1>4. PICK kind \in Kinds, typed \in Refs \cup {None}, phase \in Phases \ {"send"},
           ref \in Refs \cup {None} : Enter(p, kind, typed, phase, ref)
  BY <1>3
<1>. DEFINE entered == [phase |-> phase, kind |-> kind, typed |-> typed, ref |-> ref,
                        fallback |-> FALSE, meant |-> {}]
<1>5. entered \in Running /\ entered.phase # "send" /\ ~entered.fallback
  BY DEF Running, Phases
<1>6. command' = [command EXCEPT ![p] = entered]
  BY <1>4 DEF Enter
<1>7. /\ UNCHANGED <<contacts, inbox, shown, detached, context, cardless>>
      /\ sent' = None
  BY <1>1 DEF AskThread, AskMessage, AskReply, home
<1>. HIDE DEF entered
<1>. QED
  BY <1>5, <1>6, <1>7

LEMMA ChooseFacts ==
    ASSUME TypeOK, NEW p \in Chats, Choose(p)
    PROVE  /\ UNCHANGED <<contacts, inbox, shown, detached, context, cardless>>
           /\ sent' = None
           /\ command[p] \in Running
           /\ \E k \in Running :
                 /\ command' = [command EXCEPT ![p] = k]
                 /\ k.phase # "send" /\ (k.fallback => command[p].fallback)
<1>1. command[p] \in Running
  BY PhaseOfRunning DEF Choose
<1>. DEFINE found == [command[p] EXCEPT !.phase = "resolve"]
            none == [command[p] EXCEPT !.phase = "recent", !.typed = None, !.ref = None]
<1>2. /\ found \in Running /\ found.phase = "resolve"
      /\ found.fallback = command[p].fallback
  BY <1>1 DEF Running, Phases
<1>3. none \in Running /\ none.phase = "recent" /\ none.fallback = command[p].fallback
  BY <1>1 DEF Running, Phases
<1>4. command' = [command EXCEPT ![p] = IF Matches(command[p].typed) # {} THEN found ELSE none]
  BY <1>1 DEF Choose, TypeOK
<1>. HIDE DEF found, none
<1>5. PICK k : k = IF Matches(command[p].typed) # {} THEN found ELSE none
  OBVIOUS
<1>6. k \in Running /\ k.phase # "send" /\ (k.fallback => command[p].fallback)
  BY <1>2, <1>3, <1>5
<1>7. command' = [command EXCEPT ![p] = k]
  BY <1>4, <1>5
<1>. QED
  BY <1>1, <1>6, <1>7 DEF Choose, home

LEMMA RecentFacts ==
    ASSUME TypeOK, NEW p \in Chats, Recent(p)
    PROVE  /\ UNCHANGED <<contacts, inbox, shown, detached, context, cardless>>
           /\ sent' = None
           /\ \E k \in Running, i \in DOMAIN inbox :
                 /\ command' = [command EXCEPT ![p] = k]
                 /\ k.phase = "resolve" /\ k.ref = inbox[i] /\ inbox[i] \in Peers
                 /\ shown[inbox[i]] # "discovered"
<1>1. command[p] \in Running
  BY PhaseOfRunning DEF Recent
<1>2. PICK i \in DOMAIN inbox : shown[inbox[i]] # "discovered" /\ FallBackTo(p, inbox[i])
  BY DEF Recent
<1>3. PICK c \in Peers : c = inbox[i]
  BY DEF TypeOK
<1>. DEFINE next == [command[p] EXCEPT !.phase = "resolve", !.ref = c, !.fallback = TRUE]
<1>4. next \in Running /\ next.phase = "resolve" /\ next.ref = c
  BY <1>1 DEF Running, Phases, Refs
<1>5. command' = [command EXCEPT ![p] = next]
  BY <1>2, <1>3 DEF FallBackTo
<1>. HIDE DEF next
<1>. QED
  BY <1>2, <1>3, <1>4, <1>5 DEF Recent, home

\* What a resolved reference leaves behind: an id if it stood for a contact.
LEMMA ResolveFacts ==
    ASSUME TypeOK, NEW p \in Chats, Resolve(p)
    PROVE  /\ UNCHANGED <<contacts, inbox, shown, detached, cardless>>
           /\ sent' = None
           /\ command[p] \in Running
           /\ context' \in Refs \cup {None}
           /\ \E k \in Running \cup {Idle} :
                 /\ command' = [command EXCEPT ![p] = k]
                 /\ k # Idle =>
                      /\ k.phase = "send" /\ k.fallback = command[p].fallback
                      /\ command[p].ref \in Peers => k.ref = command[p].ref
                      /\ k.meant # {} => k.ref \in Peers /\ k.meant = {k.ref}
<1>1. command[p] \in Running
  BY PhaseOfRunning DEF Resolve
<1>2. PICK ref \in Refs \cup {None} : ref = command[p].ref
  BY <1>1 DEF Running
<1>3. PICK matches : matches = Meant(ref)
  OBVIOUS
<1>4. /\ Cardinality(matches) <= 1
      /\ \E to \in IF matches = {} THEN {ref} ELSE matches :
            /\ context' = to
            /\ command' = [command EXCEPT ![p] =
                              IF @.kind = "thread" THEN Idle
                              ELSE [@ EXCEPT !.phase = "send", !.ref = to,
                                             !.meant = matches]]
  BY <1>2, <1>3 DEF Resolve
<1>5. PICK to \in IF matches = {} THEN {ref} ELSE matches :
         /\ context' = to
         /\ command' = [command EXCEPT ![p] =
                           IF @.kind = "thread" THEN Idle
                           ELSE [@ EXCEPT !.phase = "send", !.ref = to,
                                          !.meant = matches]]
  BY <1>4
<1>6. matches \subseteq Peers /\ IsFiniteSet(matches)
  BY <1>3, MatchesType, PeersAssumption, FS_Subset
<1>7. Cardinality(matches) \in Nat
  BY <1>6, FS_CardinalityType
<1>8. matches = {} \/ \E c : matches = {c}
  <2>1. Cardinality(matches) = 0 \/ Cardinality(matches) = 1
    BY <1>4, <1>7
  <2>. QED
    BY <1>6, <2>1, FS_EmptySet, FS_Singleton
<1>9. to \in Refs \cup {None} /\ (ref \in Peers => to = ref)
  BY <1>3, <1>5, <1>6 DEF Refs, Meant
<1>10. matches # {} => to \in Peers /\ matches = {to}
  BY <1>5, <1>6, <1>8
<1>. DEFINE next == [command[p] EXCEPT !.phase = "send", !.ref = to, !.meant = matches]
<1>11. /\ next \in Running /\ next.phase = "send" /\ next.ref = to /\ next.meant = matches
       /\ next.fallback = command[p].fallback
  BY <1>1, <1>6, <1>9 DEF Running, Phases
<1>12. command' = [command EXCEPT ![p] = IF command[p].kind = "thread" THEN Idle ELSE next]
  BY <1>5 DEF TypeOK
<1>. HIDE DEF next
<1>13. PICK k : k = IF command[p].kind = "thread" THEN Idle ELSE next
  OBVIOUS
<1>14. k \in Running \cup {Idle} /\ command' = [command EXCEPT ![p] = k]
  BY <1>11, <1>12, <1>13
<1>15. k # Idle =>
          /\ k.phase = "send" /\ k.fallback = command[p].fallback
          /\ command[p].ref \in Peers => k.ref = command[p].ref
          /\ k.meant # {} => k.ref \in Peers /\ k.meant = {k.ref}
  BY <1>2, <1>9, <1>10, <1>11, <1>13
<1>16. context' \in Refs \cup {None}
  BY <1>5, <1>9
<1>. QED
  BY <1>1, <1>14, <1>15, <1>16 DEF Resolve, home

\* A contact's rows that are written.
LEMMA ShowType ==
    ASSUME TypeOK, NEW c \in Peers, NEW standing \in {"discovered", "known"},
           Show(c, standing)
    PROVE  /\ inbox' \in Seq(Peers) /\ IsInjective(inbox')
           /\ shown' \in [Peers -> {"none", "discovered", "known"}]
           /\ detached' \subseteq Range(inbox')
           /\ \A i \in DOMAIN inbox' : inbox'[i] = c \/ \E j \in DOMAIN inbox : inbox'[i] = inbox[j]
<1>1. detached \subseteq Range(inbox) /\ UNCHANGED detached
  BY DEF TypeOK, Show
<1>2. CASE inbox' = inbox
  BY <1>1, <1>2 DEF Show, TypeOK
<1>3. CASE inbox' = ToFront(c)
  <2>1. /\ inbox' \in Seq(Peers) /\ IsInjective(inbox')
        /\ \A i \in DOMAIN inbox' : inbox'[i] = c \/ \E j \in DOMAIN inbox : inbox'[i] = inbox[j]
        /\ \A j \in DOMAIN inbox : \E i \in DOMAIN inbox' : inbox'[i] = inbox[j]
    BY <1>3, FrontOnce DEF TypeOK
  <2>2. Range(inbox) \subseteq Range(inbox')
    BY <2>1 DEF Range
  <2>. QED
    BY <1>1, <2>1, <2>2 DEF Show, TypeOK
<1>. QED
  BY <1>2, <1>3 DEF Show

\* Who gets what is sent.
LEMMA DeliverFacts ==
    ASSUME TypeOK, NEW p \in Chats, Deliver(p)
    PROVE  /\ UNCHANGED <<contacts, context, cardless>>
           /\ command[p] \in Running
           /\ command' = [command EXCEPT ![p] = Idle]
           /\ \E c \in Exactly(command[p].ref) :
                 /\ c \in Peers /\ contacts[c] \in Contact /\ contacts[c].key
                 /\ sent' \in Sendings /\ sent'.meant = command[p].meant /\ sent'.to = c
                 /\ Show(c, contacts[c].standing)
<1>1. command[p] \in Running
  BY PhaseOfRunning DEF Deliver
<1>2. PICK c \in Exactly(command[p].ref) :
         /\ contacts[c].key
         /\ sent' = [kind |-> command[p].kind, typed |-> command[p].typed,
                     meant |-> command[p].meant, to |-> c]
         /\ Show(c, contacts[c].standing)
  BY DEF Deliver
<1>3. c \in Peers /\ contacts[c] \in Contact
  BY DEF Exactly, TypeOK
<1>4. sent' \in Sendings /\ sent'.meant = command[p].meant /\ sent'.to = c
  BY <1>1, <1>2, <1>3 DEF Sendings, Running
<1>. QED
  BY <1>1, <1>2, <1>3, <1>4 DEF Deliver

LEMMA TypeInit == Init => TypeOK
  BY DEF Init, TypeOK, IsInjective

LEMMA TypeStep == TypeOK /\ [Next]_vars => TypeOK'
<1>. SUFFICES ASSUME TypeOK, [Next]_vars PROVE TypeOK'
  OBVIOUS
<1>1. ASSUME NEW p \in Chats, NEW k \in Running \cup {Idle},
             command' = [command EXCEPT ![p] = k], sent' = None,
             context' \in Refs \cup {None},
             UNCHANGED <<contacts, inbox, shown, detached, cardless>>
      PROVE  TypeOK'
  BY <1>1 DEF TypeOK
<1>2. context \in Refs \cup {None}
  BY DEF TypeOK
<1>3. ASSUME NEW p \in Chats, Ask(p) PROVE TypeOK'
  BY <1>1, <1>2, <1>3, AskFacts
<1>4. ASSUME NEW p \in Chats, Choose(p) PROVE TypeOK'
  BY <1>1, <1>2, <1>4, ChooseFacts
<1>5. ASSUME NEW p \in Chats, Recent(p) PROVE TypeOK'
  BY <1>1, <1>2, <1>5, RecentFacts
<1>6. ASSUME NEW p \in Chats, Resolve(p) PROVE TypeOK'
  BY <1>1, <1>6, ResolveFacts
<1>7. ASSUME NEW p \in Chats, Deliver(p) PROVE TypeOK'
  <2>1. PICK c \in Exactly(command[p].ref) :
           /\ c \in Peers /\ contacts[c] \in Contact /\ sent' \in Sendings
           /\ Show(c, contacts[c].standing)
    BY <1>7, DeliverFacts
  <2>2. contacts[c].standing \in {"discovered", "known"}
    BY <2>1 DEF Contact
  <2>3. /\ inbox' \in Seq(Peers) /\ IsInjective(inbox')
        /\ shown' \in [Peers -> {"none", "discovered", "known"}]
        /\ detached' \subseteq Range(inbox')
    BY <2>1, <2>2, ShowType
  <2>4. UNCHANGED <<contacts, context, cardless>> /\ command' = [command EXCEPT ![p] = Idle]
    BY <1>7, DeliverFacts
  <2>. QED
    BY <2>1, <2>3, <2>4 DEF TypeOK
<1>8. ASSUME NEW p \in Chats, Fail(p) PROVE TypeOK'
  BY <1>1, <1>2, <1>8 DEF Fail, home
<1>9. ASSUME NEW c \in Peers, Arrive(c) PROVE TypeOK'
  <2>1. contacts' \in [Peers -> Contact \cup {None}] /\ contacts'[c] \in Contact
    BY <1>9 DEF Arrive, TypeOK, Contact
  <2>2. contacts'[c].standing \in {"discovered", "known"}
    BY <2>1 DEF Contact
  <2>3. /\ inbox' \in Seq(Peers) /\ IsInjective(inbox')
        /\ shown' \in [Peers -> {"none", "discovered", "known"}]
        /\ detached' \subseteq Range(inbox')
    BY <1>9, <2>2, ShowType DEF Arrive
  <2>. QED
    BY <1>9, <2>1, <2>3 DEF Arrive, TypeOK
<1>10. ASSUME NEW c \in Peers, NEW name \in Names, Save(c, name) PROVE TypeOK'
  <2>1. contacts' \in [Peers -> Contact \cup {None}]
    BY <1>10 DEF Save, TypeOK, Contact
  <2>. QED
    BY <1>10, <2>1 DEF Save, TypeOK
<1>11. ASSUME NEW c \in Peers, NEW standing \in {"discovered", "known"},
              NEW name \in Names \cup {c}, Import(c, standing, name)
       PROVE  TypeOK'
  <2>1. contacts' \in [Peers -> Contact \cup {None}]
    BY <1>11 DEF Import, TypeOK, Contact
  <2>2. cardless' \subseteq Peers
    BY <1>11 DEF Import, TypeOK
  <2>. QED
    BY <1>11, <2>1, <2>2 DEF Import, TypeOK
<1>12. ASSUME NEW c \in Peers, RemoveContact(c) PROVE TypeOK'
  <2>1. contacts' \in [Peers -> Contact \cup {None}]
    BY <1>12 DEF RemoveContact, TypeOK
  <2>2. detached' \subseteq Range(inbox') /\ cardless' \subseteq Peers
    BY <1>12 DEF RemoveContact, TypeOK
  <2>. QED
    BY <1>12, <2>1, <2>2 DEF RemoveContact, TypeOK
<1>13. CASE Restart
  BY <1>13 DEF Restart, TypeOK, home
<1>14. CASE UNCHANGED vars
  BY <1>14 DEF vars, TypeOK
<1>. QED
  BY <1>3, <1>4, <1>5, <1>6, <1>7, <1>8, <1>9, <1>10, <1>11, <1>12, <1>13, <1>14
     DEF Next, Change

\* Every reachable state is well typed; in particular no conversation is
\* listed twice.
THEOREM TypeCorrect == Spec => []TypeOK
  BY TypeInit, TypeStep, PTL DEF Spec

-----------------------------------------------------------------------------
(* Where messages go.  A contact goes by its own id or by a display name, and  *)
(* a command that is about to send has the id of the one its reference stood   *)
(* for, if it stood for one.                                                   *)

OwnNames ==
    \A c \in Peers : contacts[c] # None => contacts[c].name \in Names \cup {c}

SendsById ==
    \A p \in Chats : command[p].phase = "send" /\ command[p].meant # {} =>
        command[p].ref \in Peers /\ command[p].meant = {command[p].ref}

MeantInv == OwnNames /\ SendsById /\ ReachesMeant

LEMMA MeantStep ==
    ASSUME TypeOK, MeantInv, [Next]_vars
    PROVE  MeantInv'
<1>. USE DEF MeantInv
<1>1. ASSUME UNCHANGED contacts PROVE OwnNames'
  BY <1>1 DEF OwnNames
<1>2. ASSUME UNCHANGED command PROVE SendsById'
  BY <1>2 DEF SendsById
<1>3. ASSUME NEW p \in Chats, NEW k, command' = [command EXCEPT ![p] = k],
             k.phase = "send" /\ k.meant # {} => k.ref \in Peers /\ k.meant = {k.ref}
      PROVE  SendsById'
  BY <1>3 DEF SendsById, TypeOK
<1>4. ASSUME sent' = None PROVE ReachesMeant'
  BY <1>4 DEF ReachesMeant
<1>5. Idle.phase # "send"
  BY DEF Idle
<1>6. ASSUME NEW p \in Chats, Ask(p) \/ Choose(p) \/ Recent(p) PROVE MeantInv'
  <2>1. PICK k : command' = [command EXCEPT ![p] = k] /\ k.phase # "send"
    BY <1>6, AskFacts, ChooseFacts, RecentFacts
  <2>2. UNCHANGED contacts /\ sent' = None
    BY <1>6, AskFacts, ChooseFacts, RecentFacts
  <2>. QED
    BY <1>1, <1>3, <1>4, <2>1, <2>2
<1>7. ASSUME NEW p \in Chats, Resolve(p) PROVE MeantInv'
  <2>1. PICK k : /\ command' = [command EXCEPT ![p] = k]
                 /\ k # Idle /\ k.meant # {} => k.ref \in Peers /\ k.meant = {k.ref}
    BY <1>7, ResolveFacts
  <2>2. UNCHANGED contacts /\ sent' = None
    BY <1>7, ResolveFacts
  <2>. QED
    BY <1>1, <1>3, <1>4, <1>5, <2>1, <2>2
<1>8. ASSUME NEW p \in Chats, Deliver(p) PROVE MeantInv'
  <2>1. UNCHANGED contacts /\ command' = [command EXCEPT ![p] = Idle]
    BY <1>8, DeliverFacts
  <2>2. PICK c \in Exactly(command[p].ref) :
           c \in Peers /\ sent'.meant = command[p].meant /\ sent'.to = c
    BY <1>8, DeliverFacts
  <2>3. ASSUME command[p].meant # {} PROVE c \in command[p].meant
    <3>1. command[p].ref \in Peers /\ command[p].meant = {command[p].ref}
      BY <1>8, <2>3 DEF SendsById, Deliver
    <3>2. contacts[c] # None /\ command[p].ref \in {c, contacts[c].name}
      BY <2>2 DEF Exactly, Fields
    <3>3. contacts[c].name \in Names \cup {c}
      BY <2>2, <3>2 DEF OwnNames
    <3>4. command[p].ref = c
      BY <3>1, <3>2, <3>3, NamesAssumption
    <3>. QED
      BY <3>1, <3>4
  <2>4. ReachesMeant'
    BY <2>2, <2>3 DEF ReachesMeant
  <2>. QED
    BY <1>1, <1>3, <1>5, <2>1, <2>4
<1>9. ASSUME NEW p \in Chats, Fail(p) PROVE MeantInv'
  BY <1>1, <1>3, <1>4, <1>5, <1>9 DEF Fail, home
<1>10. ASSUME NEW c \in Peers, Arrive(c) PROVE MeantInv'
  <2>1. OwnNames'
    BY <1>10 DEF Arrive, OwnNames, TypeOK
  <2>. QED
    BY <1>2, <1>4, <1>10, <2>1 DEF Arrive
<1>11. ASSUME NEW c \in Peers, NEW name \in Names, Save(c, name) PROVE MeantInv'
  <2>1. OwnNames'
    BY <1>11 DEF Save, OwnNames, TypeOK
  <2>. QED
    BY <1>2, <1>4, <1>11, <2>1 DEF Save
<1>12. ASSUME NEW c \in Peers, NEW standing, NEW name \in Names \cup {c},
              Import(c, standing, name)
       PROVE  MeantInv'
  <2>1. OwnNames'
    BY <1>12 DEF Import, OwnNames, TypeOK
  <2>. QED
    BY <1>2, <1>4, <1>12, <2>1 DEF Import
<1>13. ASSUME NEW c \in Peers, RemoveContact(c) PROVE MeantInv'
  <2>1. OwnNames'
    BY <1>13 DEF RemoveContact, OwnNames, TypeOK
  <2>. QED
    BY <1>2, <1>4, <1>13, <2>1 DEF RemoveContact
<1>14. CASE Restart
  <2>1. SendsById'
    BY <1>14 DEF Restart, SendsById, Idle
  <2>. QED
    BY <1>1, <1>4, <1>14, <2>1 DEF Restart, home
<1>15. CASE UNCHANGED vars
  BY <1>1, <1>2, <1>15 DEF vars, ReachesMeant
<1>. QED
  BY <1>6, <1>7, <1>8, <1>9, <1>10, <1>11, <1>12, <1>13, <1>14, <1>15 DEF Next, Change

\* A message or a reply goes to the contact its reference stood for when it was
\* resolved, whoever was renamed, removed or imported under the same name before
\* the binary looked it up, and whomever another chat had addressed.
THEOREM SentAsMeant == Spec => []ReachesMeant
<1>1. Init => MeantInv
  BY DEF Init, MeantInv, OwnNames, SendsById, ReachesMeant, Idle
<1>2. TypeOK /\ MeantInv /\ [Next]_vars => MeantInv'
  BY MeantStep
<1>3. MeantInv => ReachesMeant
  BY DEF MeantInv
<1>. QED
  BY <1>1, <1>2, <1>3, TypeCorrect, PTL DEF Spec

-----------------------------------------------------------------------------
(* The inductive invariant behind the fallback: a conversation that is      *)
(* listed shows a status, and one that shows "known", like the contact a    *)
(* command fell back to, is of a contact with a key, unless it was removed  *)
(* or has had no card.                                                      *)

Sendable(c) == contacts[c] # None /\ contacts[c].key

ListedShown == \A i \in DOMAIN inbox : shown[inbox[i]] # "none"

KnownSendable ==
    \A c \in Peers : c \notin cardless /\ contacts[c] # None /\ contacts[c].standing = "known"
                         => Sendable(c)

ShownSendable ==
    \A c \in Peers : c \notin cardless /\ shown[c] = "known" => Sendable(c)

FellBack ==
    \A p \in Chats : command[p] # Idle /\ command[p].fallback =>
        command[p].ref \in Peers /\ (command[p].ref \notin cardless => Sendable(command[p].ref))

NotYet == \A p \in Chats : command[p].phase \in {"choose", "recent"} => ~command[p].fallback

FallbackInv == ListedShown /\ KnownSendable /\ ShownSendable /\ FellBack /\ NotYet

\* A step that takes no key away without noting it.
Keeps ==
    \A c \in Peers : c \notin cardless' /\ ~Sendable(c)' => c \notin cardless /\ ~Sendable(c)

LEMMA KeepsFacts ==
    ASSUME TypeOK, FallbackInv, Keeps
    PROVE  /\ UNCHANGED shown => ShownSendable'
           /\ UNCHANGED <<inbox, shown>> => ListedShown'
           /\ UNCHANGED command => FellBack' /\ NotYet'
  BY DEF FallbackInv, Keeps, ListedShown, ShownSendable, FellBack, NotYet

\* A contact's rows that are written show what the contact is.
LEMMA ShowSendable ==
    ASSUME TypeOK, FallbackInv, Keeps, KnownSendable', NEW c \in Peers,
           contacts'[c] \in Contact, Show(c, contacts'[c].standing)
    PROVE  ListedShown' /\ ShownSendable'
<1>1. contacts'[c].standing \in {"discovered", "known"}
  BY DEF Contact
<1>2. \A i \in DOMAIN inbox' : inbox'[i] = c \/ \E j \in DOMAIN inbox : inbox'[i] = inbox[j]
  BY <1>1, ShowType
<1>3. \A d \in Peers : shown'[d] = IF d = c THEN contacts'[c].standing ELSE shown[d]
  BY DEF Show, TypeOK
<1>4. \A j \in DOMAIN inbox : inbox[j] \in Peers /\ shown[inbox[j]] # "none"
  BY DEF TypeOK, FallbackInv, ListedShown
<1>5. ListedShown'
  BY <1>1, <1>2, <1>3, <1>4 DEF ListedShown
<1>6. contacts'[c] # None
  BY NoneAssumption
<1>7. ShownSendable'
  <2>1. SUFFICES ASSUME NEW d \in Peers, d \notin cardless', shown'[d] = "known"
                 PROVE  Sendable(d)'
    BY DEF ShownSendable
  <2>2. CASE d = c
    BY <1>3, <1>6, <2>1, <2>2 DEF KnownSendable
  <2>3. CASE d # c
    BY <1>3, <2>1, <2>3 DEF FallbackInv, ShownSendable, Keeps
  <2>. QED
    BY <2>2, <2>3
<1>. QED
  BY <1>5, <1>7

LEMMA FallbackStep ==
    ASSUME TypeOK, FallbackInv, [Next]_vars
    PROVE  FallbackInv'
<1>1. ASSUME UNCHANGED <<contacts, cardless>> PROVE Keeps /\ KnownSendable'
  BY <1>1 DEF Keeps, FallbackInv, KnownSendable, Sendable
<1>2. ASSUME UNCHANGED <<contacts, cardless, inbox, shown>>
      PROVE  ListedShown' /\ KnownSendable' /\ ShownSendable'
  BY <1>1, <1>2, KeepsFacts
<1>3. ASSUME NEW p \in Chats, NEW k, command' = [command EXCEPT ![p] = k],
             UNCHANGED <<contacts, cardless>>,
             k # Idle /\ k.fallback => k.ref \in Peers /\ (k.ref \notin cardless => Sendable(k.ref))
      PROVE  FellBack'
  BY <1>3 DEF FallbackInv, FellBack, Sendable, TypeOK
<1>4. ASSUME NEW p \in Chats, NEW k, command' = [command EXCEPT ![p] = k],
             k.phase \in {"choose", "recent"} => ~k.fallback
      PROVE  NotYet'
  BY <1>4 DEF FallbackInv, NotYet, TypeOK
<1>5. ASSUME NEW p \in Chats, Ask(p) PROVE FallbackInv'
  <2>1. PICK k : command' = [command EXCEPT ![p] = k] /\ ~k.fallback
    BY <1>5, AskFacts
  <2>2. UNCHANGED <<contacts, cardless, inbox, shown>>
    BY <1>5, AskFacts
  <2>. QED
    BY <1>2, <1>3, <1>4, <2>1, <2>2 DEF FallbackInv
<1>6. ASSUME NEW p \in Chats, Choose(p) PROVE FallbackInv'
  <2>1. PICK k : command' = [command EXCEPT ![p] = k] /\ (k.fallback => command[p].fallback)
    BY <1>6, ChooseFacts
  <2>2. UNCHANGED <<contacts, cardless, inbox, shown>>
    BY <1>6, ChooseFacts
  <2>3. ~command[p].fallback
    BY <1>6 DEF Choose, FallbackInv, NotYet
  <2>. QED
    BY <1>2, <1>3, <1>4, <2>1, <2>2, <2>3 DEF FallbackInv
<1>7. ASSUME NEW p \in Chats, Recent(p) PROVE FallbackInv'
  <2>1. PICK k \in Running, i \in DOMAIN inbox :
           /\ command' = [command EXCEPT ![p] = k]
           /\ k.phase = "resolve" /\ k.ref = inbox[i] /\ inbox[i] \in Peers
           /\ shown[inbox[i]] # "discovered"
    BY <1>7, RecentFacts
  <2>2. UNCHANGED <<contacts, cardless, inbox, shown>>
    BY <1>7, RecentFacts
  <2>3. shown[inbox[i]] = "known"
    BY <2>1 DEF FallbackInv, ListedShown, TypeOK
  <2>4. k.ref \notin cardless => Sendable(k.ref)
    BY <2>1, <2>3 DEF FallbackInv, ShownSendable
  <2>. QED
    BY <1>2, <1>3, <1>4, <2>1, <2>2, <2>4 DEF FallbackInv
<1>8. ASSUME NEW p \in Chats, Resolve(p) PROVE FallbackInv'
  <2>1. PICK k : /\ command' = [command EXCEPT ![p] = k]
                 /\ k # Idle => /\ k.phase = "send" /\ k.fallback = command[p].fallback
                                /\ command[p].ref \in Peers => k.ref = command[p].ref
    BY <1>8, ResolveFacts
  <2>2. UNCHANGED <<contacts, cardless, inbox, shown>>
    BY <1>8, ResolveFacts
  <2>3. command[p] # Idle
    BY <1>8, PhaseOfRunning DEF Resolve
  <2>4. k # Idle /\ k.fallback => k.ref \in Peers /\ (k.ref \notin cardless => Sendable(k.ref))
    BY <2>1, <2>3 DEF FallbackInv, FellBack
  <2>5. k.phase \in {"choose", "recent"} => ~k.fallback
    BY <2>1 DEF Idle
  <2>. QED
    BY <1>2, <1>3, <1>4, <2>1, <2>2, <2>4, <2>5 DEF FallbackInv
<1>9. ASSUME NEW p \in Chats, Deliver(p) PROVE FallbackInv'
  <2>1. UNCHANGED <<contacts, cardless>> /\ command' = [command EXCEPT ![p] = Idle]
    BY <1>9, DeliverFacts
  <2>2. PICK c \in Peers : contacts[c] \in Contact /\ Show(c, contacts[c].standing)
    BY <1>9, DeliverFacts
  <2>3. ListedShown' /\ ShownSendable' /\ KnownSendable'
    BY <1>1, <2>1, <2>2, ShowSendable
  <2>4. FellBack' /\ NotYet'
    BY <1>3, <1>4, <2>1 DEF Idle
  <2>. QED
    BY <2>3, <2>4 DEF FallbackInv
<1>10. ASSUME NEW p \in Chats, Fail(p) PROVE FallbackInv'
  <2>1. UNCHANGED <<contacts, cardless, inbox, shown>> /\ command' = [command EXCEPT ![p] = Idle]
    BY <1>10 DEF Fail, home
  <2>. QED
    BY <1>2, <1>3, <1>4, <2>1 DEF FallbackInv, Idle
<1>11. ASSUME NEW c \in Peers, Arrive(c) PROVE FallbackInv'
  <2>1. /\ contacts' = [contacts EXCEPT ![c] =
                          IF @ # None THEN @
                          ELSE [name |-> c, standing |-> "discovered", key |-> FALSE]]
        /\ Show(c, contacts'[c].standing)
        /\ UNCHANGED <<command, cardless>>
    BY <1>11 DEF Arrive
  <2>2. contacts'[c] \in Contact
    BY <2>1 DEF TypeOK, Contact
  <2>3. Keeps
    BY <2>1 DEF Keeps, Sendable, TypeOK
  <2>4. KnownSendable'
    BY <2>1 DEF KnownSendable, FallbackInv, Sendable, TypeOK
  <2>5. ListedShown' /\ ShownSendable'
    BY <2>1, <2>2, <2>3, <2>4, ShowSendable
  <2>. QED
    BY <2>1, <2>3, <2>4, <2>5, KeepsFacts DEF FallbackInv
<1>12. ASSUME NEW c \in Peers, NEW name \in Names, Save(c, name) PROVE FallbackInv'
  <2>1. /\ contacts' = [contacts EXCEPT ![c] = [name |-> name, standing |-> "known", key |-> TRUE]]
        /\ cardless' = cardless \ {c} /\ UNCHANGED <<inbox, shown, command>>
    BY <1>12 DEF Save
  <2>2. contacts'[c] \in Contact /\ contacts'[c] # None /\ contacts'[c].key
    <3>1. contacts'[c] = [name |-> name, standing |-> "known", key |-> TRUE]
      BY <2>1 DEF TypeOK
    <3>2. contacts'[c] \in Contact
      BY <3>1 DEF Contact
    <3>3. contacts'[c].key
      BY <3>1
    <3>. QED
      BY <3>2, <3>3, NoneAssumption
  <2>3. Keeps /\ KnownSendable'
    BY <2>1, <2>2 DEF Keeps, KnownSendable, FallbackInv, Sendable, TypeOK
  <2>. QED
    BY <2>1, <2>3, KeepsFacts DEF FallbackInv
<1>13. ASSUME NEW c \in Peers, NEW standing \in {"discovered", "known"},
              NEW name \in Names \cup {c}, Import(c, standing, name)
       PROVE  FallbackInv'
  <2>1. UNCHANGED <<inbox, shown, command>>
    BY <1>13 DEF Import
  <2>2. \A d \in Peers : d # c => contacts'[d] = contacts[d] /\ (d \in cardless' <=> d \in cardless)
    BY <1>13 DEF Import, TypeOK
  <2>3. CASE contacts[c] # None /\ contacts[c].key
    <3>1. /\ contacts'[c] = [name |-> IF name = c THEN contacts[c].name ELSE name,
                             standing |-> standing, key |-> contacts[c].key]
          /\ cardless' = cardless
      BY <1>13, <2>3 DEF Import, TypeOK
    <3>2. contacts'[c].key
      BY <2>3, <3>1
    <3>3. contacts'[c] \in Contact
      BY <2>3, <3>1 DEF Contact, TypeOK
    <3>4. Sendable(c)'
      BY <3>2, <3>3, NoneAssumption DEF Sendable
    <3>. QED
      BY <2>1, <2>2, <3>1, <3>4, KeepsFacts DEF Keeps, KnownSendable, FallbackInv, Sendable
  <2>4. CASE ~(contacts[c] # None /\ contacts[c].key)
    <3>1. c \in cardless'
      BY <1>13, <2>4 DEF Import
    <3>2. Keeps /\ KnownSendable'
      BY <2>2, <3>1 DEF Keeps, KnownSendable, FallbackInv, Sendable
    <3>. QED
      BY <2>1, <3>2, KeepsFacts DEF FallbackInv
  <2>. QED
    BY <2>3, <2>4
<1>14. ASSUME NEW c \in Peers, RemoveContact(c) PROVE FallbackInv'
  <2>1. UNCHANGED <<inbox, shown, command>>
    BY <1>14 DEF RemoveContact
  <2>2. /\ c \in cardless'
        /\ \A d \in Peers : d # c => contacts'[d] = contacts[d] /\ (d \in cardless' <=> d \in cardless)
    BY <1>14 DEF RemoveContact, TypeOK
  <2>3. Keeps /\ KnownSendable'
    BY <2>2 DEF Keeps, KnownSendable, FallbackInv, Sendable
  <2>. QED
    BY <2>1, <2>3, KeepsFacts DEF FallbackInv
<1>15. CASE Restart
  <2>1. UNCHANGED <<contacts, cardless, inbox, shown>>
    BY <1>15 DEF Restart, home
  <2>2. FellBack'
    BY <1>15 DEF Restart, FellBack
  <2>3. NotYet'
    BY <1>15 DEF Restart, NotYet, Idle
  <2>. QED
    BY <1>2, <2>1, <2>2, <2>3 DEF FallbackInv
<1>16. CASE UNCHANGED vars
  BY <1>1, <1>16, KeepsFacts DEF vars, FallbackInv
<1>. QED
  BY <1>5, <1>6, <1>7, <1>8, <1>9, <1>10, <1>11, <1>12, <1>13, <1>14, <1>15, <1>16
     DEF Next, Change

\* The conversation a bare reply falls back to is one the binary can send to,
\* unless the contact was removed or never had a card: no stranger who writes
\* last is taken, and no import, refresh or message takes a key away.
THEOREM FallbacksSend == Spec => []FallbackSendable
<1>1. Init => FallbackInv
  BY DEF Init, FallbackInv, ListedShown, KnownSendable, ShownSendable, FellBack, NotYet, Idle
<1>2. TypeOK /\ FallbackInv /\ [Next]_vars => FallbackInv'
  BY FallbackStep
<1>3. FallbackInv => FallbackSendable
  BY DEF FallbackInv, FellBack, FallbackSendable, Sendable
<1>. QED
  BY <1>1, <1>2, <1>3, TypeCorrect, PTL DEF Spec
=============================================================================
