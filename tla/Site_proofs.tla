---------------------------- MODULE Site_proofs ----------------------------
(***************************************************************************)
(* Proofs about Site, for any number of processes of the home, publishers  *)
(* and readers.                                                            *)
(***************************************************************************)
EXTENDS Site, Home_proofs

-----------------------------------------------------------------------------
(* The home in it. *)

LEMMA SiteStep ==
    ASSUME [SiteNext]_vars
    PROVE  /\ [Next]_homeVars
           /\ UNCHANGED homeVars \/ UNCHANGED siteVars
<1>1. CASE UNCHANGED vars
  BY <1>1 DEF vars
<1>2. ASSUME NEW p \in Processes, HomeStep(p)
      PROVE  Next /\ UNCHANGED siteVars
  BY <1>2 DEF HomeStep, Next
<1>3. ASSUME NEW w \in Publishers, PublishStep(w)
      PROVE  UNCHANGED homeVars
  BY <1>3 DEF PublishStep, BeginPublish, Clear, Empty, Write, StopPublish
<1>4. ASSUME NEW r \in Readers, InspectStep(r)
      PROVE  UNCHANGED homeVars
  BY <1>4 DEF InspectStep, BeginInspection, Fetch, EndInspection
<1> QED
  BY <1>1, <1>2, <1>3, <1>4 DEF SiteNext

\* With a site on it, a home takes the steps of a home: what holds of the one
\* holds of the other.
THEOREM SiteIsHome == SiteSpec => Spec
<1>1. SiteInit => Init
  BY DEF SiteInit
<1>2. [SiteNext]_vars => [Next]_homeVars
  BY SiteStep
<1> QED
  BY <1>1, <1>2, PTL DEF SiteSpec, Spec

LEMMA HomeStays == SiteSpec => []CalmInv
BY SiteIsHome, CalmStays, PTL

-----------------------------------------------------------------------------
(* Types. *)

SiteTypes ==
    /\ TypeOK
    /\ \A w \in Publishers : publication[w] # None => publication[w].left # <<>>

LEMMA WrittenType ==
    ASSUME NEW tier
    PROVE  Written(tier) \in Seq(Artifacts) /\ Written(tier) # <<>>
<1>1. <<"did">> \in Seq(Artifacts) /\ <<"did">> # <<>>
  BY DEF Artifacts
<1>2. <<"did", "finger", "card", "page">> \in Seq(Artifacts) /\ <<"did", "finger", "card", "page">> # <<>>
  BY DEF Artifacts
<1>3. <<"did", "finger", "card">> \in Seq(Artifacts) /\ <<"did", "finger", "card">> # <<>>
  BY DEF Artifacts
<1> QED
  BY <1>1, <1>2, <1>3 DEF Written

LEMMA HasIdentity ==
    ASSUME HomeTypeOK, Cardinality(identities) = 1
    PROVE  /\ Oldest(identities) \in identities /\ Oldest(identities) \in Identity
           /\ \A i \in identities : Oldest(identities).self <= i.self
<1>1. identities # {}
  BY FS_EmptySet
<1> QED
  BY <1>1, OldestIsOne DEF HomeTypeOK

LEMMA SignersType ==
    ASSUME HomeTypeOK, NEW self
    PROVE  SignersOf(self) \subseteq Numbers
BY DEF HomeTypeOK, SignersOf, KeysOf, KeyRow

\* What a publication compiles.
LEMMA Begun ==
    ASSUME HomeTypeOK, origin \in Origins \cup {None}, NEW w \in Publishers, BeginPublish(w)
    PROVE  /\ publication[w] = None
           /\ UNCHANGED <<homeVars, site, inspection>>
           /\ origin' \in Origins
           /\ \/ UNCHANGED <<publication, origins, whole>>
              \/ \E bundle \in Bundle :
                    /\ bundle.tier \in Tiers
                    /\ bundle.name = Oldest(identities).name
                    /\ bundle.keys = SignersOf(Oldest(identities).self)
                    /\ bundle.keys # {}
                    /\ bundle.origin = origin'
                    /\ publication' = Joined(w, bundle)
                    /\ whole' = None
                    /\ origins' = origins \cup {origin'}
<1> PICK given \in Origins \cup {None}, tier \in Tiers :
      LET to == IF given = None THEN origin ELSE given
          i == Oldest(identities)
      IN  /\ to # None
          /\ origin' = to
          /\ IF SignersOf(i.self) = {}
             THEN UNCHANGED <<publication, origins, whole>>
             ELSE /\ publication' = Joined(w, [name |-> i.name, keys |-> SignersOf(i.self),
                                               origin |-> to, tier |-> tier])
                  /\ whole' = None
                  /\ origins' = origins \cup {to}
  BY DEF BeginPublish
<1> DEFINE i == Oldest(identities)
           bundle == [name |-> i.name, keys |-> SignersOf(i.self), origin |-> origin', tier |-> tier]
<1>1. origin' \in Origins
  OBVIOUS
<1>2. i \in Identity
  BY HasIdentity DEF BeginPublish
<1>3. SignersOf(i.self) \subseteq Numbers
  BY SignersType
<1>4. bundle \in Bundle
  BY <1>1, <1>2, <1>3 DEF Bundle, Identity
<1>5. CASE SignersOf(i.self) = {}
  BY <1>1, <1>5 DEF BeginPublish
<1>6. CASE SignersOf(i.self) # {}
  <2>1. /\ publication' = Joined(w, bundle) /\ whole' = None
        /\ origins' = origins \cup {origin'}
    BY <1>6
  <2>2. /\ bundle.tier \in Tiers /\ bundle.name = i.name /\ bundle.keys = SignersOf(i.self)
        /\ bundle.keys # {} /\ bundle.origin = origin'
    BY <1>6
  <2>3. publication[w] = None /\ UNCHANGED <<homeVars, site, inspection>>
    BY DEF BeginPublish
  <2> HIDE DEF bundle
  <2> QED
    BY <1>1, <1>4, <2>1, <2>2, <2>3
<1> QED
  BY <1>5, <1>6

\* How a publication that begins changes those that run.
LEMMA JoinedRows ==
    ASSUME SiteTypes, NEW w \in Publishers, NEW bundle \in Bundle, publication[w] = None
    PROVE  LET new == Joined(w, bundle)
           IN  /\ new \in [Publishers -> Publications \cup {None}]
               /\ new[w] # None
               /\ new[w].bundle = bundle /\ new[w].left = Written(bundle.tier)
               /\ new[w].at = "clear" /\ new[w].others = Compiled
               /\ \A v \in Publishers \ {w} :
                     IF publication[v] = None THEN new[v] = None
                     ELSE /\ new[v] # None
                          /\ new[v].bundle = publication[v].bundle
                          /\ new[v].left = publication[v].left
                          /\ new[v].at = publication[v].at
                          /\ new[v].others = publication[v].others \cup {bundle}
<1> DEFINE mine == [bundle |-> bundle, left |-> Written(bundle.tier), at |-> "clear",
                    others |-> Compiled]
           new == Joined(w, bundle)
<1>1. Compiled \subseteq Bundle
  BY DEF Compiled, Publishing, SiteTypes, TypeOK, Publications
<1>2. mine \in Publications
  BY <1>1, WrittenType DEF Publications
<1>3. new[w] = mine
  BY DEF Joined
<1>4. ASSUME NEW v \in Publishers, v # w, publication[v] # None
      PROVE  /\ publication[v] \in Publications
             /\ new[v] = [publication[v] EXCEPT !.others = publication[v].others \cup {bundle}]
  BY <1>4 DEF Joined, Publishing, SiteTypes, TypeOK
<1>5. ASSUME NEW v \in Publishers, v # w, publication[v] # None
      PROVE  /\ new[v] \in Publications
             /\ new[v].bundle = publication[v].bundle
             /\ new[v].left = publication[v].left
             /\ new[v].at = publication[v].at
             /\ new[v].others = publication[v].others \cup {bundle}
  <2> PICK row \in Publications : row = publication[v]
    BY <1>4, <1>5
  <2> PICK with \in SUBSET Bundle : with = row.others \cup {bundle}
    BY DEF Publications
  <2>1. new[v] = [row EXCEPT !.others = with]
    BY <1>4, <1>5
  <2> HIDE DEF new
  <2> QED
    BY <2>1 DEF Publications
<1>6. \A v \in Publishers : v # w /\ publication[v] = None => new[v] = None
  BY DEF Joined, Publishing
<1>7. mine # None /\ \A v \in Publishers : v # w /\ publication[v] # None => new[v] # None
  BY <1>2, <1>5, PublicationsAssumption
<1>8. new \in [Publishers -> Publications \cup {None}]
  <2>1. new = [v \in Publishers |-> new[v]]
    BY DEF Joined
  <2>2. \A v \in Publishers : new[v] \in Publications \cup {None}
    BY <1>2, <1>3, <1>5, <1>6
  <2> HIDE DEF new
  <2> QED
    BY <2>1, <2>2
<1> QED
  BY <1>3, <1>5, <1>6, <1>7, <1>8

LEMMA BeginPublishTypes ==
    ASSUME SiteTypes, NEW w \in Publishers, BeginPublish(w)
    PROVE  SiteTypes'
<1>1. /\ publication[w] = None
      /\ UNCHANGED <<homeVars, site, inspection>> /\ origin' \in Origins
  BY Begun DEF SiteTypes, TypeOK
<1>2. HomeTypeOK' /\ opened' \in 0 .. MaxOpened
  BY <1>1, SiteAssumption DEF BeginPublish, Open, homeVars, SiteTypes, TypeOK, HomeTypeOK
<1>3. CASE UNCHANGED <<publication, origins, whole>>
  BY <1>1, <1>2, <1>3 DEF SiteTypes, TypeOK
<1>4. ASSUME NEW bundle \in Bundle, publication' = Joined(w, bundle), whole' = None,
             origins' = origins \cup {origin'}
      PROVE  SiteTypes'
  <2>1. publication' \in [Publishers -> Publications \cup {None}]
    BY <1>1, <1>4, JoinedRows
  <2>2. \A v \in Publishers : publication'[v] # None => publication'[v].left # <<>>
    BY <1>1, <1>4, JoinedRows, WrittenType DEF SiteTypes
  <2> QED
    BY <1>1, <1>2, <1>4, <2>1, <2>2 DEF SiteTypes, TypeOK
<1> QED
  BY <1>3, <1>4, Begun DEF SiteTypes, TypeOK

\* What a publication that removes files changes of those that run.
LEMMA ClearedRows ==
    ASSUME SiteTypes, NEW w \in Publishers, Clear(w)
    PROVE  /\ publication' \in [Publishers -> Publications \cup {None}]
           /\ publication'[w].at = "next"
           /\ \A v \in Publishers :
                /\ publication'[v] = None <=> publication[v] = None
                /\ publication[v] # None =>
                      /\ publication'[v].bundle = publication[v].bundle
                      /\ publication'[v].left = publication[v].left
                      /\ publication'[v].others = publication[v].others
                /\ v # w /\ publication[v] # None =>
                      IF /\ publication[v].at = "open"
                         /\ Head(publication[v].left) \notin publication[w].bundle.tier
                      THEN publication'[v].at = "lost"
                      ELSE publication'[v].at = publication[v].at
<1> DEFINE gone(v) == /\ publication[v].at = "open"
                      /\ Head(publication[v].left) \notin publication[w].bundle.tier
<1>1. publication' = [v \in Publishers |->
         IF v = w THEN [publication[w] EXCEPT !.at = "next"]
         ELSE IF publication[v] # None /\ gone(v) THEN [publication[v] EXCEPT !.at = "lost"]
         ELSE publication[v]]
  BY DEF Clear, Publishing
<1>2. \A v \in Publishers : publication[v] # None => publication[v] \in Publications
  BY DEF SiteTypes, TypeOK
<1>3. publication[w] # None
  BY DEF Clear
<1>4. ASSUME NEW r \in Publications, NEW x \in {"next", "lost"}
      PROVE  /\ [r EXCEPT !.at = x] \in Publications
             /\ [r EXCEPT !.at = x].at = x
             /\ [r EXCEPT !.at = x].bundle = r.bundle
             /\ [r EXCEPT !.at = x].left = r.left
             /\ [r EXCEPT !.at = x].others = r.others
  BY DEF Publications
<1> HIDE DEF gone
<1>5. \A v \in Publishers :
         /\ v = w => publication'[v] = [publication[v] EXCEPT !.at = "next"]
         /\ v # w /\ publication[v] # None /\ gone(v) =>
               publication'[v] = [publication[v] EXCEPT !.at = "lost"]
         /\ v # w /\ ~(publication[v] # None /\ gone(v)) => publication'[v] = publication[v]
  BY <1>1
<1>6. ASSUME NEW v \in Publishers
      PROVE  /\ publication'[v] \in Publications \cup {None}
             /\ publication'[v] = None <=> publication[v] = None
             /\ publication[v] # None =>
                   /\ publication'[v].bundle = publication[v].bundle
                   /\ publication'[v].left = publication[v].left
                   /\ publication'[v].others = publication[v].others
             /\ v = w => publication'[v].at = "next"
             /\ v # w /\ publication[v] # None =>
                   IF gone(v) THEN publication'[v].at = "lost"
                   ELSE publication'[v].at = publication[v].at
  <2>1. CASE publication[v] = None
    BY <1>3, <1>5, <2>1
  <2>2. CASE publication[v] # None
    <3> PICK row \in Publications : row = publication[v]
      BY <1>2, <2>2
    <3>1. row # None
      BY PublicationsAssumption
    <3>2. CASE v = w
      <4>1. publication'[v] = [row EXCEPT !.at = "next"]
        BY <1>5, <3>2
      <4>2. /\ publication'[v] \in Publications /\ publication'[v].at = "next"
            /\ publication'[v].bundle = row.bundle /\ publication'[v].left = row.left
            /\ publication'[v].others = row.others
        BY <1>4, <4>1
      <4> QED
        BY <3>1, <3>2, <4>2, PublicationsAssumption
    <3>3. CASE v # w /\ gone(v)
      <4>1. publication'[v] = [row EXCEPT !.at = "lost"]
        BY <1>5, <3>1, <3>3
      <4> QED
        BY <1>4, <3>1, <3>3, <4>1, PublicationsAssumption
    <3>4. CASE v # w /\ ~gone(v)
      BY <1>5, <3>1, <3>4
    <3> QED
      BY <3>2, <3>3, <3>4
  <2> QED
    BY <2>1, <2>2
<1>7. publication' \in [Publishers -> Publications \cup {None}]
  BY <1>1, <1>6
<1> QED
  BY <1>6, <1>7 DEF gone

LEMMA ClearTypes ==
    ASSUME SiteTypes, NEW w \in Publishers, Clear(w)
    PROVE  SiteTypes'
<1>1. site' \in [Artifacts -> Bundle \cup {None, Cut, Mixed}]
  BY DEF Clear, Cleared, SiteTypes, TypeOK
<1>2. UNCHANGED <<homeVars, opened, origin, inspection, origins, whole>>
  BY DEF Clear
<1>3. \A v \in Publishers : publication'[v] # None => publication'[v].left # <<>>
  BY ClearedRows DEF SiteTypes
<1> QED
  BY <1>1, <1>2, <1>3, ClearedRows DEF SiteTypes, TypeOK, homeVars, HomeTypeOK

\* What a publication that opens a file changes.
LEMMA EmptiedRows ==
    ASSUME SiteTypes, NEW w \in Publishers, Empty(w)
    PROVE  /\ publication' \in [Publishers -> Publications \cup {None}]
           /\ publication[w] # None /\ publication'[w] # None
           /\ publication'[w].at = "open"
           /\ publication'[w].bundle = publication[w].bundle
           /\ publication'[w].left = publication[w].left
           /\ publication'[w].others = publication[w].others
           /\ \A v \in Publishers \ {w} : publication'[v] = publication[v]
<1>1. publication[w] # None /\ publication[w] \in Publications
  BY DEF Empty, SiteTypes, TypeOK
<1> DEFINE new == [publication[w] EXCEPT !.at = "open"]
<1>2. /\ new \in Publications /\ new.at = "open" /\ new.bundle = publication[w].bundle
      /\ new.left = publication[w].left /\ new.others = publication[w].others
  BY <1>1 DEF Publications
<1>3. new # None
  BY <1>2, PublicationsAssumption
<1>4. publication' = [publication EXCEPT ![w] = new]
  BY DEF Empty
<1> HIDE DEF new
<1> QED
  BY <1>1, <1>2, <1>3, <1>4 DEF SiteTypes, TypeOK

LEMMA EmptyTypes ==
    ASSUME SiteTypes, NEW w \in Publishers, Empty(w)
    PROVE  SiteTypes'
<1>1. site' \in [Artifacts -> Bundle \cup {None, Cut, Mixed}]
  BY DEF Empty, SiteTypes, TypeOK
<1>2. UNCHANGED <<homeVars, opened, origin, inspection, origins, whole>>
  BY DEF Empty
<1>3. \A v \in Publishers : publication'[v] # None => publication'[v].left # <<>>
  BY EmptiedRows DEF SiteTypes
<1> QED
  BY <1>1, <1>2, <1>3, EmptiedRows DEF SiteTypes, TypeOK, homeVars, HomeTypeOK

\* What writing a file changes: the file, and the publication, which may be over.
LEMMA WrittenRows ==
    ASSUME SiteTypes, NEW w \in Publishers, Write(w)
    PROVE  LET row == publication[w]
           IN  /\ row \in Publications /\ row # None
               /\ row.left # <<>> /\ Head(row.left) \in Artifacts
               /\ row.at \in {"open", "lost"}
               /\ publication' \in [Publishers -> Publications \cup {None}]
               /\ \A v \in Publishers \ {w} : publication'[v] = publication[v]
               /\ \A a \in Artifacts : a # Head(row.left) => site'[a] = site[a]
               /\ IF row.at = "lost" THEN site' = site
                  ELSE site'[Head(row.left)] \in Overwritten(Head(row.left), row.bundle)
               /\ site' \in [Artifacts -> Bundle \cup {None, Cut, Mixed}]
               /\ \/ /\ Tail(row.left) = <<>> /\ publication'[w] = None
                     /\ whole' = [bundle |-> row.bundle, others |-> row.others]
                  \/ /\ Tail(row.left) # <<>> /\ publication'[w] # None
                     /\ publication'[w].bundle = row.bundle
                     /\ publication'[w].left = Tail(row.left)
                     /\ publication'[w].at = "next"
                     /\ publication'[w].others = row.others
                     /\ UNCHANGED whole
<1> DEFINE row == publication[w]
           a == Head(row.left)
           new == [row EXCEPT !.left = Tail(row.left), !.at = "next"]
<1>1. /\ row \in Publications /\ row # None /\ row.left # <<>>
      /\ row.at \in {"open", "lost"}
  BY DEF Write, SiteTypes, TypeOK
<1>2. row.left \in Seq(Artifacts) /\ row.bundle \in Bundle
  BY <1>1 DEF Publications
<1>3. a \in Artifacts /\ Tail(row.left) \in Seq(Artifacts)
  BY <1>1, <1>2
<1>4. Overwritten(a, row.bundle) \subseteq Bundle \cup {Mixed}
  BY <1>2 DEF Overwritten
<1>5. /\ \A b \in Artifacts : b # a => site'[b] = site[b]
      /\ IF row.at = "lost" THEN site' = site
         ELSE site'[a] \in Overwritten(a, row.bundle)
      /\ site' \in [Artifacts -> Bundle \cup {None, Cut, Mixed}]
  <2>1. CASE row.at = "lost"
    BY <2>1 DEF Write, SiteTypes, TypeOK
  <2>2. CASE row.at # "lost"
    <3>1. PICK x \in Overwritten(a, row.bundle) : site' = [site EXCEPT ![a] = x]
      BY <2>2 DEF Write
    <3> QED
      BY <1>3, <1>4, <2>2, <3>1 DEF SiteTypes, TypeOK
  <2> QED
    BY <2>1, <2>2
<1>6. /\ new \in Publications /\ new.left = Tail(row.left) /\ new.at = "next"
      /\ new.bundle = row.bundle /\ new.others = row.others
  BY <1>1, <1>3 DEF Publications
<1>7. new # None
  BY <1>6, PublicationsAssumption
<1>8. CASE /\ Tail(row.left) = <<>> /\ publication' = [publication EXCEPT ![w] = None]
           /\ whole' = [bundle |-> row.bundle, others |-> row.others]
  <2>1. /\ publication' \in [Publishers -> Publications \cup {None}] /\ publication'[w] = None
        /\ \A v \in Publishers \ {w} : publication'[v] = publication[v]
    BY <1>8 DEF SiteTypes, TypeOK
  <2> QED
    BY <1>1, <1>3, <1>5, <1>8, <2>1
<1>9. CASE Tail(row.left) # <<>> /\ publication' = [publication EXCEPT ![w] = new] /\ UNCHANGED whole
  <2> HIDE DEF new
  <2>1. /\ publication' \in [Publishers -> Publications \cup {None}] /\ publication'[w] = new
        /\ \A v \in Publishers \ {w} : publication'[v] = publication[v]
    BY <1>6, <1>9 DEF SiteTypes, TypeOK
  <2> QED
    BY <1>1, <1>3, <1>5, <1>6, <1>7, <1>9, <2>1
<1> QED
  BY <1>8, <1>9 DEF Write

LEMMA WriteTypes ==
    ASSUME SiteTypes, NEW w \in Publishers, Write(w)
    PROVE  SiteTypes'
<1>1. UNCHANGED <<homeVars, opened, origin, inspection, origins>>
  BY DEF Write
<1>2. ASSUME NEW v \in Publishers, publication'[v] # None
      PROVE  publication'[v].left # <<>>
  <2>1. CASE v = w
    BY <1>2, <2>1, WrittenRows
  <2>2. CASE v # w
    <3>1. publication'[v] = publication[v]
      BY <2>2, WrittenRows
    <3> QED
      BY <1>2, <3>1 DEF SiteTypes
  <2> QED
    BY <2>1, <2>2
<1>3. whole' \in [bundle : Bundle, others : SUBSET Bundle] \cup {None}
  BY WrittenRows DEF SiteTypes, TypeOK, Publications
<1> QED
  BY <1>1, <1>2, <1>3, WrittenRows DEF SiteTypes, TypeOK, homeVars, HomeTypeOK

LEMMA FetchTypes ==
    ASSUME SiteTypes, NEW r \in Readers, Fetch(r)
    PROVE  SiteTypes'
<1> DEFINE a == inspection[r].next
           got == inspection[r].got
<1> PICK copy \in {Fetched(a, PlaceOf(a, got)), None} :
      inspection' = [inspection EXCEPT ![r] = [next |-> After[a], got |-> [got EXCEPT ![a] = copy]]]
  BY DEF Fetch
<1>1. a \in Artifacts /\ got \in [Artifacts -> Bundle \cup {None}]
  BY DEF Fetch, SiteTypes, TypeOK, Inspections
<1>2. copy \in Bundle \cup {None}
  BY <1>1 DEF Fetched, SiteTypes, TypeOK
<1>3. After[a] \in Artifacts \cup {"verdict"}
  BY <1>1 DEF After, Artifacts
<1> DEFINE new == [next |-> After[a], got |-> [got EXCEPT ![a] = copy]]
<1>4. new \in Inspections
  BY <1>1, <1>2, <1>3 DEF Inspections
<1> HIDE DEF new
<1>5. inspection' = [inspection EXCEPT ![r] = new]
  BY DEF new
<1> QED
  BY <1>4, <1>5 DEF Fetch, SiteTypes, TypeOK, homeVars, HomeTypeOK

LEMMA SiteTypesStay == SiteSpec => []SiteTypes
<1>1. SiteInit => SiteTypes
  <2> SUFFICES ASSUME SiteInit
               PROVE  SiteTypes
    OBVIOUS
  <2>1. HomeTypeOK
    BY InitKeeps DEF SiteInit, HomeInv
  <2> QED
    BY <2>1, SiteAssumption DEF SiteInit, SiteTypes, TypeOK
<1>2. SiteTypes /\ HomeTypeOK' /\ [SiteNext]_vars => SiteTypes'
  <2> SUFFICES ASSUME SiteTypes, HomeTypeOK', [SiteNext]_vars
               PROVE  SiteTypes'
    OBVIOUS
  <2>1. CASE UNCHANGED siteVars
    BY <2>1 DEF siteVars, SiteTypes, TypeOK
  <2>2. ASSUME NEW w \in Publishers, StopPublish(w)
        PROVE  SiteTypes'
    BY <2>2 DEF StopPublish, SiteTypes, TypeOK
  <2>3. ASSUME NEW r \in Readers, BeginInspection(r)
        PROVE  SiteTypes'
    <3>1. [next |-> "did", got |-> [a \in Artifacts |-> None]] \in Inspections
      BY DEF Inspections, Artifacts
    <3> QED
      BY <2>3, <3>1, SiteAssumption DEF BeginInspection, Open, SiteTypes, TypeOK
  <2>4. ASSUME NEW r \in Readers, EndInspection(r)
        PROVE  SiteTypes'
    BY <2>4 DEF EndInspection, SiteTypes, TypeOK
  <2> QED
    BY <2>1, <2>2, <2>3, <2>4, BeginPublishTypes, ClearTypes, EmptyTypes, WriteTypes, FetchTypes
       DEF SiteNext, vars, PublishStep, InspectStep, HomeStep
<1>3. CalmInv => HomeTypeOK
  BY DEF CalmInv, HomeInv
<1> QED
  BY <1>1, <1>2, <1>3, HomeStays, PTL DEF SiteSpec

\* Every variable keeps its type, those of the home included.
THEOREM SiteTypeCorrect == SiteSpec => []TypeOK
<1>1. SiteTypes => TypeOK
  BY DEF SiteTypes
<1> QED
  BY <1>1, SiteTypesStay, PTL

-----------------------------------------------------------------------------
(* What the site says. *)

\* A bundle is of the oldest identity, with its one key.
Mine(bundle) ==
    /\ \E i \in identities :
         /\ \A j \in identities : i.self <= j.self
         /\ bundle.name = i.name
         /\ \E row \in keys : row.type = "self" /\ row.owner = i.self /\ bundle.keys = {row.key}
    /\ bundle.origin \in origins

Copies(got) == \A a \in Artifacts : got[a] # None => Mine(got[a])

AllMine ==
    /\ \A a \in Artifacts : site[a] \notin {None, Cut, Mixed} => Mine(site[a])
    /\ \A w \in Publishers : publication[w] # None => Mine(publication[w].bundle)
    /\ \A r \in Readers : inspection[r] # None => Copies(inspection[r].got)

SiteInv == ~raced => AllMine

LEMMA MineStays ==
    ASSUME HomeInv, HomeTypeOK', MakersAreLatest, NEW p \in Processes, Writes(p),
           UNCHANGED origins, NEW bundle, Mine(bundle)
    PROVE  Mine(bundle)'
<1> PICK i \in identities, row \in keys :
      /\ \A j \in identities : i.self <= j.self
      /\ bundle.name = i.name
      /\ row.type = "self" /\ row.owner = i.self /\ bundle.keys = {row.key}
  BY DEF Mine
<1>1. i \in identities' /\ row \in keys'
  BY YoungestInserted DEF Writes
<1>2. \A j \in identities' : i.self <= j.self
  <2> SUFFICES ASSUME NEW j \in identities'
               PROVE  i.self <= j.self
    OBVIOUS
  <2>1. i.self \in Nat /\ j.self \in Nat
    BY HomeAssumption DEF HomeTypeOK, HomeInv, Identity, Numbers
  <2>2. j \in identities \/ i.self < j.self
    BY YoungestInserted
  <2> QED
    BY <2>1, <2>2
<1>3. bundle.origin \in origins'
  BY DEF Mine
<1> QED
  BY <1>1, <1>2, <1>3 DEF Mine

LEMMA MineSame ==
    ASSUME UNCHANGED homeVars, origins \subseteq origins', NEW bundle, Mine(bundle)
    PROVE  Mine(bundle)'
BY DEF Mine, homeVars

LEMMA HomeStepMine ==
    ASSUME HomeInv, HomeInv', MakersAreLatest, NEW p \in Processes, HomeStep(p), AllMine
    PROVE  AllMine'
<1>1. UNCHANGED <<site, publication, inspection, origins>> /\ Writes(p) /\ HomeTypeOK'
  BY StepWrites DEF HomeStep, siteVars, HomeInv
<1>2. \A bundle : Mine(bundle) => Mine(bundle)'
  BY <1>1, MineStays
<1> QED
  BY <1>1, <1>2 DEF AllMine, Copies

LEMMA BeginPublishMine ==
    ASSUME SiteTypes, OneKeyEach, AllMine, NEW w \in Publishers, BeginPublish(w)
    PROVE  AllMine'
<1>1. UNCHANGED <<homeVars, site, inspection>> /\ publication[w] = None
  BY Begun DEF SiteTypes, TypeOK
<1>2. CASE UNCHANGED <<publication, origins, whole>>
  BY <1>1, <1>2, MineSame DEF AllMine, Copies
<1>3. ASSUME NEW bundle \in Bundle,
             bundle.name = Oldest(identities).name,
             bundle.keys = SignersOf(Oldest(identities).self), bundle.keys # {},
             bundle.origin = origin',
             publication' = Joined(w, bundle), origins' = origins \cup {origin'}
      PROVE  AllMine'
  <2>1. \A b : Mine(b) => Mine(b)'
    BY <1>1, <1>3, MineSame
  <2>2. Mine(bundle)'
    <3>1. PICK i \in identities :
            /\ i = Oldest(identities) /\ \A j \in identities : i.self <= j.self
      BY HasIdentity DEF BeginPublish, SiteTypes, TypeOK
    <3>2. PICK row \in keys : row.type = "self" /\ row.owner = i.self
      BY <1>3, <3>1 DEF SignersOf, KeysOf
    <3>3. KeysOf("self", i.self) = {row}
      BY <3>2 DEF KeysOf, OneKeyEach
    <3>4. SignersOf(i.self) = {row.key}
      BY <3>3 DEF SignersOf
    <3>5. identities' = identities /\ keys' = keys /\ bundle.origin \in origins'
      BY <1>1, <1>3 DEF homeVars
    <3> QED
      BY <1>3, <3>1, <3>2, <3>4, <3>5 DEF Mine
  <2>3. \A v \in Publishers : publication'[v] # None =>
          publication'[v].bundle = bundle
          \/ (publication[v] # None /\ publication'[v].bundle = publication[v].bundle)
    BY <1>1, <1>3, JoinedRows
  <2> QED
    BY <1>1, <2>1, <2>2, <2>3 DEF AllMine, Copies
<1> QED
  BY <1>2, <1>3, Begun DEF SiteTypes, TypeOK

LEMMA WriteMine ==
    ASSUME SiteTypes, AllMine, NEW w \in Publishers,
           Clear(w) \/ Empty(w) \/ Write(w) \/ StopPublish(w)
    PROVE  AllMine'
<1>1. UNCHANGED <<homeVars, inspection, origins>>
  BY DEF Clear, Empty, Write, StopPublish
<1>2. \A b : Mine(b) => Mine(b)'
  BY <1>1, MineSame
<1>3. publication[w] # None /\ Mine(publication[w].bundle)
  BY DEF Clear, Empty, Write, StopPublish, AllMine
<1>4. \A a \in Artifacts : site'[a] \in {site[a], None, Cut, Mixed, publication[w].bundle}
  <2>1. CASE Clear(w)
    BY <2>1 DEF Clear, Cleared
  <2>2. CASE Empty(w)
    BY <2>2 DEF Empty, SiteTypes, TypeOK
  <2>3. CASE Write(w)
    BY <2>3, WrittenRows DEF Overwritten
  <2>4. CASE StopPublish(w)
    BY <2>4 DEF StopPublish
  <2> QED
    BY <2>1, <2>2, <2>3, <2>4
<1>5. \A v \in Publishers : publication'[v] # None =>
        publication[v] # None /\ publication'[v].bundle = publication[v].bundle
  <2>1. CASE StopPublish(w)
    BY <2>1 DEF StopPublish, SiteTypes, TypeOK
  <2> QED
    BY <2>1, ClearedRows, EmptiedRows, WrittenRows
<1> QED
  BY <1>1, <1>2, <1>3, <1>4, <1>5 DEF AllMine, Copies

LEMMA InspectMine ==
    ASSUME SiteTypes, AllMine, NEW r \in Readers, InspectStep(r)
    PROVE  AllMine'
<1>1. UNCHANGED <<homeVars, site, publication, origins>>
  BY DEF InspectStep, BeginInspection, Fetch, EndInspection
<1>2. \A b : Mine(b) => Mine(b)'
  BY <1>1, MineSame
<1>3. \A q \in Readers : q # r => inspection'[q] = inspection[q]
  BY DEF InspectStep, BeginInspection, Fetch, EndInspection, SiteTypes, TypeOK
<1>4. ASSUME inspection'[r] # None
      PROVE  \A a \in Artifacts : inspection'[r].got[a] # None => Mine(inspection'[r].got[a])
  <2>1. CASE BeginInspection(r)
    BY <2>1 DEF BeginInspection, SiteTypes, TypeOK
  <2>2. CASE Fetch(r)
    <3> DEFINE a == inspection[r].next
               got == inspection[r].got
    <3> PICK copy \in {Fetched(a, PlaceOf(a, got)), None} :
          inspection' = [inspection EXCEPT ![r] = [next |-> After[a], got |-> [got EXCEPT ![a] = copy]]]
      BY <2>2 DEF Fetch
    <3>1. a \in Artifacts /\ got \in [Artifacts -> Bundle \cup {None}] /\ Copies(got)
      BY <2>2 DEF Fetch, SiteTypes, TypeOK, Inspections, AllMine
    <3>2. copy # None => Mine(copy)
      BY <3>1 DEF Fetched, AllMine
    <3>3. inspection'[r].got = [got EXCEPT ![a] = copy]
      BY DEF SiteTypes, TypeOK
    <3> QED
      BY <3>1, <3>2, <3>3 DEF Copies
  <2>3. CASE EndInspection(r)
    BY <1>4, <2>3 DEF EndInspection, SiteTypes, TypeOK
  <2> QED
    BY <2>1, <2>2, <2>3 DEF InspectStep
<1> QED
  BY <1>1, <1>2, <1>3, <1>4 DEF AllMine, Copies

LEMMA SiteInvStays == SiteSpec => []SiteInv
<1>1. SiteInit => SiteInv
  BY DEF SiteInit, SiteInv, AllMine
<1>2. SiteTypes /\ CalmInv /\ CalmInv' /\ SiteInv /\ [SiteNext]_vars => SiteInv'
  <2> SUFFICES ASSUME SiteTypes, CalmInv, CalmInv', SiteInv, [SiteNext]_vars, ~raced'
               PROVE  AllMine'
    BY DEF SiteInv
  <2>1. HomeInv /\ HomeInv'
    BY DEF CalmInv
  <2>2. CASE UNCHANGED vars
    <3>1. AllMine
      BY <2>2 DEF SiteInv, vars, homeVars
    <3> QED
      BY <2>2, <3>1 DEF AllMine, Copies, Mine, vars, homeVars, siteVars
  <2>3. ASSUME NEW p \in Processes, HomeStep(p)
        PROVE  AllMine'
    <3>1. ~raced
      BY <2>3, RacedStays DEF HomeStep
    <3> QED
      BY <2>1, <2>3, <3>1, HomeStepMine DEF SiteInv, CalmInv, Calm
  <2>4. ASSUME NEW w \in Publishers, PublishStep(w)
        PROVE  AllMine'
    <3>1. ~raced
      BY <2>4 DEF PublishStep, BeginPublish, Clear, Empty, Write, StopPublish, homeVars
    <3>2. AllMine /\ OneKeyEach
      BY <3>1 DEF SiteInv, CalmInv, Calm
    <3> QED
      BY <2>4, <3>2, BeginPublishMine, WriteMine DEF PublishStep
  <2>5. ASSUME NEW r \in Readers, InspectStep(r)
        PROVE  AllMine'
    <3>1. ~raced
      BY <2>5 DEF InspectStep, BeginInspection, Fetch, EndInspection, homeVars
    <3> QED
      BY <2>5, <3>1, InspectMine DEF SiteInv
  <2> QED
    BY <2>2, <2>3, <2>4, <2>5 DEF SiteNext
<1> QED
  BY <1>1, <1>2, SiteTypesStay, HomeStays, PTL DEF SiteSpec

LEMMA MineAgree ==
    ASSUME CalmInv, ~raced, NEW b, Mine(b), NEW d, Mine(d)
    PROVE  b.name = d.name /\ b.keys = d.keys
<1>1. HomeTypeOK /\ OneSelfEach /\ OneKeyEach
  BY DEF CalmInv, Calm, HomeInv
<1> PICK i \in identities, r \in keys :
      /\ \A o \in identities : i.self <= o.self
      /\ b.name = i.name /\ r.type = "self" /\ r.owner = i.self /\ b.keys = {r.key}
  BY DEF Mine
<1> PICK j \in identities, s \in keys :
      /\ \A o \in identities : j.self <= o.self
      /\ d.name = j.name /\ s.type = "self" /\ s.owner = j.self /\ d.keys = {s.key}
  BY DEF Mine
<1>2. i.self \in Nat /\ j.self \in Nat
  BY <1>1, HomeAssumption DEF HomeTypeOK, Identity, Numbers
<1>3. i.self = j.self
  BY <1>2
<1>4. i = j /\ r = s
  BY <1>1, <1>3 DEF OneSelfEach, OneKeyEach
<1> QED
  BY <1>4

\* Whoever looks at a site while it is published anew never takes it for a
\* contradiction, unless it was published under another origin too, or the
\* home made by two commands at once.
THEOREM MismatchIsReal == SiteSpec => []NoFalseMismatch
<1>1. SiteTypes /\ CalmInv /\ SiteInv => NoFalseMismatch
  <2> SUFFICES ASSUME SiteTypes, CalmInv, SiteInv, ~raced, origins \subseteq {Served},
                      NEW r \in Readers, inspection[r] # None
               PROVE  Verdict(inspection[r].got) # "mismatch"
    BY DEF NoFalseMismatch
  <2> DEFINE got == inspection[r].got
  <2>1. \A a \in Artifacts : got[a] # None => Mine(got[a])
    BY DEF SiteInv, AllMine, Copies
  <2>2. \A a \in Artifacts : got[a] # None => got[a].origin = Served
    BY <2>1 DEF Mine
  <2>3. \A a, b \in Artifacts : got[a] # None /\ got[b] # None =>
          got[a].name = got[b].name /\ got[a].keys = got[b].keys
    BY <2>1, MineAgree
  <2>4. "did" \in Artifacts /\ "card" \in Artifacts /\ "finger" \in Artifacts /\ "page" \in Artifacts
    BY DEF Artifacts
  <2> HIDE DEF got
  <2>5. PlaceOf("card", got) = Served
    BY <2>2, <2>4 DEF PlaceOf
  <2>6. got["did"] # None => ~Issues(got)
    BY <2>2, <2>3, <2>4, <2>5 DEF Issues, CardIssues, FingerIssues, PageIssues
  <2>7. Verdict(got) # "mismatch"
    BY <2>6 DEF Verdict
  <2> QED
    BY <2>7 DEF got
<1> QED
  BY <1>1, SiteTypesStay, HomeStays, SiteInvStays, PTL

\* The site and the cards of a home speak of the same identity and the same
\* key, unless two commands made parts of the home at once.
THEOREM SiteSaysAsCards == SiteSpec => []SiteAsCards
<1>1. CalmInv /\ SiteInv => SiteAsCards
  <2> SUFFICES ASSUME CalmInv, SiteInv, ~raced, NEW a \in Artifacts, NEW card \in cards,
                      site[a] \notin {None, Cut, Mixed}
               PROVE  site[a].name = card.name /\ site[a].keys = {card.key}
    BY DEF SiteAsCards
  <2>1. HomeTypeOK /\ OneSelfEach /\ OneKeyEach /\ CardHolds(card) /\ Mine(site[a])
    BY DEF CalmInv, Calm, HomeInv, SiteInv, AllMine
  <2> PICK i \in identities, r \in keys :
        /\ \A o \in identities : i.self <= o.self
        /\ site[a].name = i.name /\ r.type = "self" /\ r.owner = i.self /\ site[a].keys = {r.key}
    BY <2>1 DEF Mine
  <2> PICK j \in identities : j.self = card.self /\ j.name = card.name
    BY <2>1 DEF CardHolds
  <2> PICK s \in keys : s.type = "self" /\ s.owner = card.self /\ s.key = card.key
    BY <2>1 DEF CardHolds
  <2>2. i.self \in Nat /\ j.self \in Nat
    BY <2>1, HomeAssumption DEF HomeTypeOK, Identity, Numbers
  <2>3. i.self = j.self
    BY <2>1, <2>2 DEF CardHolds
  <2>4. i = j /\ r = s
    BY <2>1, <2>3 DEF OneSelfEach, OneKeyEach
  <2> QED
    BY <2>4
<1> QED
  BY <1>1, HomeStays, SiteInvStays, PTL

-----------------------------------------------------------------------------
(* A complete bundle. *)

Listed(left) == {left[n] : n \in DOMAIN left}

\* What a publication leaves in a file, or those it overlaps with.
Ours(row) == {row.bundle, None, Cut, Mixed} \cup row.others

\* Publications that run at once know of each other.
Met ==
    \A v, w \in Publishers : v # w /\ publication[v] # None /\ publication[w] # None =>
        publication[v].bundle \in publication[w].others

\* What is not left to do is of the publication, or those it overlaps with.
Under(w) ==
    LET row == publication[w]
    IN  /\ Listed(row.left) \subseteq row.bundle.tier
        /\ \A a \in Artifacts :
              \/ a \in Listed(row.left)
              \/ row.at = "clear" /\ a \notin row.bundle.tier
              \/ site[a] \in Ours(row)
        /\ row.at \in {"open", "lost"} => site[Head(row.left)] \in Ours(row)

\* Of a publication that has overlapped with none, it is its own.
OnlyOwn(w) ==
    LET row == publication[w]
    IN  row.others = {} =>
          /\ row.at # "lost"
          /\ row.at = "open" => site[Head(row.left)] = Cut
          /\ \A a \in Artifacts :
                IF a \in row.bundle.tier THEN a \in Listed(row.left) \/ site[a] = row.bundle
                ELSE row.at = "clear" \/ site[a] = None

WholeInv ==
    /\ Met
    /\ \A w \in Publishers : publication[w] # None => Under(w) /\ OnlyOwn(w)
    /\ whole # None => \A w \in Publishers : publication[w] # None =>
                          publication[w].bundle \in whole.others
    /\ WholeBundle

LEMMA WrittenListed ==
    ASSUME NEW tier \in AllTiers
    PROVE  Listed(Written(tier)) = tier
<1>1. Listed(<<"did">>) = {"did"}
  BY DEF Listed
<1>2. Listed(<<"did", "finger", "card">>) = {"did", "card", "finger"}
  BY DEF Listed
<1>3. Listed(<<"did", "finger", "card", "page">>) = Artifacts
  BY DEF Listed, Artifacts
<1>4. {"did", "card", "finger"} # Artifacts /\ {"did"} # Artifacts /\ {"did", "card", "finger"} # {"did"}
  BY DEF Artifacts
<1> QED
  BY <1>1, <1>2, <1>3, <1>4 DEF AllTiers, Written

LEMMA TailListed ==
    ASSUME NEW left \in Seq(Artifacts), left # <<>>
    PROVE  /\ Head(left) \in Listed(left)
           /\ Listed(left) = {Head(left)} \cup Listed(Tail(left))
<1>1. 1 \in DOMAIN left /\ Head(left) = left[1]
  OBVIOUS
<1>2. \A n \in DOMAIN Tail(left) : n + 1 \in DOMAIN left /\ Tail(left)[n] = left[n + 1]
  OBVIOUS
<1>3. \A n \in DOMAIN left : n = 1 \/ (n - 1 \in DOMAIN Tail(left) /\ Tail(left)[n - 1] = left[n])
  OBVIOUS
<1>4. Head(left) \in Listed(left)
  BY <1>1 DEF Listed
<1>5. ASSUME NEW a \in Listed(left), a # Head(left)
      PROVE  a \in Listed(Tail(left))
  <2> PICK n \in DOMAIN left : a = left[n]
    BY DEF Listed
  <2>1. n - 1 \in DOMAIN Tail(left) /\ Tail(left)[n - 1] = a
    BY <1>1, <1>3, <1>5
  <2> QED
    BY <2>1 DEF Listed
<1>6. ASSUME NEW a \in Listed(Tail(left))
      PROVE  a \in Listed(left)
  <2> PICK n \in DOMAIN Tail(left) : a = Tail(left)[n]
    BY DEF Listed
  <2>1. n + 1 \in DOMAIN left /\ left[n + 1] = a
    BY <1>2
  <2> QED
    BY <2>1 DEF Listed
<1> QED
  BY <1>4, <1>5, <1>6

\* A step of one publication leaves what holds of another.
LEMMA ElseUnder ==
    ASSUME SiteTypes, NEW v \in Publishers, publication[v] # None, Under(v),
           NEW bundle \in publication[v].others,
           \A a \in Artifacts : site'[a] \in {site[a], None, Cut, Mixed, bundle},
           publication'[v].bundle = publication[v].bundle,
           publication'[v].left = publication[v].left,
           publication'[v].others = publication[v].others,
           \/ publication'[v].at = publication[v].at
           \/ publication[v].at = "open" /\ publication'[v].at = "lost"
    PROVE  Under(v)' /\ OnlyOwn(v)'
<1> DEFINE row == publication[v]
<1>1. row.left \in Seq(Artifacts) /\ row.left # <<>>
  BY DEF SiteTypes, TypeOK, Publications
<1>2. Head(row.left) \in Artifacts
  BY <1>1
<1>3. Ours(row)' = Ours(row) /\ bundle \in Ours(row)
  BY DEF Ours
<1>4. \A a \in Artifacts : site[a] \in Ours(row) => site'[a] \in Ours(row)
  BY <1>3 DEF Ours
<1> QED
  BY <1>2, <1>3, <1>4 DEF Under, OnlyOwn

\* Neither does it change what holds of the last publication to complete.
LEMMA ElseWhole ==
    ASSUME SiteTypes, WholeInv, NEW w \in Publishers, publication[w] # None, UNCHANGED whole,
           \A a \in Artifacts :
              site'[a] \in {site[a], None, Cut, Mixed, publication[w].bundle}
    PROVE  WholeBundle'
<1>1. whole # None => publication[w].bundle \in whole.others
  BY DEF WholeInv
<1> QED
  BY <1>1 DEF WholeInv, WholeBundle

LEMMA BeginPublishWhole ==
    ASSUME SiteTypes, WholeInv, NEW w \in Publishers, BeginPublish(w)
    PROVE  WholeInv'
<1>1. site' = site /\ publication[w] = None
  BY Begun DEF SiteTypes, TypeOK
<1>2. CASE UNCHANGED <<publication, origins, whole>>
  BY <1>1, <1>2 DEF WholeInv, WholeBundle, Met, Under, OnlyOwn, Ours
<1>3. ASSUME NEW bundle \in Bundle, bundle.tier \in Tiers, publication' = Joined(w, bundle),
             whole' = None
      PROVE  WholeInv'
  <2> DEFINE new == Joined(w, bundle)
  <2>1. /\ publication'[w].bundle = bundle /\ publication'[w].left = Written(bundle.tier)
        /\ publication'[w].at = "clear" /\ publication'[w].others = Compiled
    BY <1>1, <1>3, JoinedRows
  <2>2. ASSUME NEW v \in Publishers, v # w
        PROVE  IF publication[v] = None THEN publication'[v] = None
               ELSE /\ publication'[v] # None
                    /\ publication'[v].bundle = publication[v].bundle
                    /\ publication'[v].left = publication[v].left
                    /\ publication'[v].at = publication[v].at
                    /\ publication'[v].others = publication[v].others \cup {bundle}
    BY <1>1, <1>3, <2>2, JoinedRows
  <2>3. Listed(Written(bundle.tier)) = bundle.tier
    BY <1>3, WrittenListed, SiteAssumption
  <2>4. Under(w)' /\ OnlyOwn(w)'
    BY <2>1, <2>3 DEF Under, OnlyOwn
  <2>5. ASSUME NEW v \in Publishers, v # w, publication[v] # None
        PROVE  Under(v)' /\ OnlyOwn(v)'
    <3>1. Under(v)
      BY <2>5 DEF WholeInv
    <3>2. Ours(publication[v]) \subseteq Ours(publication[v])' /\ publication'[v].others # {}
      BY <2>2, <2>5 DEF Ours
    <3> QED
      BY <1>1, <2>2, <2>5, <3>1, <3>2 DEF Under, OnlyOwn
  <2>6. Met'
    <3>1. \A v \in Publishers : publication[v] # None => publication[v].bundle \in Compiled
      BY DEF Compiled, Publishing
    <3> QED
      BY <1>1, <2>1, <2>2, <3>1 DEF Met, WholeInv
  <2> QED
    BY <1>3, <2>2, <2>4, <2>5, <2>6 DEF WholeInv, WholeBundle
<1> QED
  BY <1>2, <1>3, Begun DEF SiteTypes, TypeOK

LEMMA ClearWhole ==
    ASSUME SiteTypes, WholeInv, NEW w \in Publishers, Clear(w)
    PROVE  WholeInv'
<1> DEFINE row == publication[w]
<1>1. /\ row # None /\ row.at = "clear" /\ UNCHANGED whole /\ Under(w) /\ OnlyOwn(w)
      /\ \A a \in Artifacts : site'[a] = IF a \in row.bundle.tier THEN site[a] ELSE None
  BY DEF Clear, Cleared, WholeInv
<1>2. Under(w)' /\ OnlyOwn(w)'
  <2>1. /\ publication'[w].at = "next" /\ publication'[w].bundle = row.bundle
        /\ publication'[w].left = row.left /\ publication'[w].others = row.others
    BY <1>1, ClearedRows
  <2>2. Ours(row)' = Ours(row) /\ None \in Ours(row)
    BY <2>1 DEF Ours
  <2> QED
    BY <1>1, <2>1, <2>2 DEF Under, OnlyOwn
<1>3. ASSUME NEW v \in Publishers, v # w, publication[v] # None
      PROVE  Under(v)' /\ OnlyOwn(v)'
  <2>1. row.bundle \in publication[v].others /\ Under(v)
    BY <1>1, <1>3 DEF WholeInv, Met
  <2>2. \A a \in Artifacts : site'[a] \in {site[a], None, Cut, Mixed, row.bundle}
    BY <1>1
  <2>3. /\ publication'[v].bundle = publication[v].bundle
        /\ publication'[v].left = publication[v].left
        /\ publication'[v].others = publication[v].others
        /\ \/ publication'[v].at = publication[v].at
           \/ publication[v].at = "open" /\ publication'[v].at = "lost"
    BY <1>3, ClearedRows
  <2> QED
    BY <1>3, <2>1, <2>2, <2>3, ElseUnder
<1>4. WholeBundle'
  BY <1>1, ElseWhole
<1>5. \A v \in Publishers :
        /\ publication'[v] = None <=> publication[v] = None
        /\ publication[v] # None => /\ publication'[v].bundle = publication[v].bundle
                                   /\ publication'[v].others = publication[v].others
  BY ClearedRows
<1> QED
  BY <1>1, <1>2, <1>3, <1>4, <1>5 DEF WholeInv, Met

LEMMA EmptyWhole ==
    ASSUME SiteTypes, WholeInv, NEW w \in Publishers, Empty(w)
    PROVE  WholeInv'
<1> DEFINE row == publication[w]
           a == Head(row.left)
<1>1. row # None /\ row.at = "next" /\ UNCHANGED whole /\ Under(w) /\ OnlyOwn(w)
  BY DEF Empty, WholeInv
<1>2. row.left \in Seq(Artifacts) /\ row.left # <<>>
  BY <1>1 DEF SiteTypes, TypeOK, Publications
<1>3. a \in Listed(row.left) /\ a \in Artifacts
  BY <1>2, TailListed
<1>4. site'[a] = Cut /\ \A b \in Artifacts : b # a => site'[b] = site[b]
  BY <1>3 DEF Empty, SiteTypes, TypeOK
<1>5. /\ publication'[w] # None /\ publication'[w].at = "open"
      /\ publication'[w].bundle = row.bundle /\ publication'[w].left = row.left
      /\ publication'[w].others = row.others
      /\ \A v \in Publishers \ {w} : publication'[v] = publication[v]
  BY EmptiedRows
<1>6. Under(w)' /\ OnlyOwn(w)'
  <2>1. Ours(row)' = Ours(row) /\ Cut \in Ours(row)
    BY <1>5 DEF Ours
  <2> QED
    BY <1>1, <1>3, <1>4, <1>5, <2>1 DEF Under, OnlyOwn
<1>7. \A b \in Artifacts : site'[b] \in {site[b], None, Cut, Mixed, row.bundle}
  BY <1>4
<1>8. ASSUME NEW v \in Publishers, v # w, publication[v] # None
      PROVE  Under(v)' /\ OnlyOwn(v)'
  <2>1. row.bundle \in publication[v].others /\ Under(v)
    BY <1>1, <1>8 DEF WholeInv, Met
  <2> QED
    BY <1>5, <1>7, <1>8, <2>1, ElseUnder
<1>9. WholeBundle'
  BY <1>1, <1>7, ElseWhole
<1> QED
  BY <1>1, <1>5, <1>6, <1>8, <1>9 DEF WholeInv, Met

LEMMA WriteWhole ==
    ASSUME SiteTypes, WholeInv, NEW w \in Publishers, Write(w)
    PROVE  WholeInv'
<1> DEFINE row == publication[w]
           a == Head(row.left)
<1>1. /\ row \in Publications /\ row # None /\ row.left # <<>> /\ a \in Artifacts
      /\ row.at \in {"open", "lost"}
      /\ \A v \in Publishers \ {w} : publication'[v] = publication[v]
      /\ \A b \in Artifacts : b # a => site'[b] = site[b]
      /\ IF row.at = "lost" THEN site' = site ELSE site'[a] \in Overwritten(a, row.bundle)
  BY WrittenRows
<1>2. Under(w) /\ OnlyOwn(w)
  BY <1>1 DEF WholeInv
<1>3. a \in Listed(row.left) /\ Listed(row.left) = {a} \cup Listed(Tail(row.left))
  BY <1>1, TailListed DEF Publications
<1>4. site'[a] \in Ours(row)
  BY <1>1, <1>2 DEF Under, Ours, Overwritten
<1>5. row.others = {} => site'[a] = row.bundle /\ a \in row.bundle.tier
  BY <1>1, <1>2, <1>3 DEF Under, OnlyOwn, Overwritten
<1>6. \A b \in Artifacts : b \in Listed(Tail(row.left)) \/ site'[b] \in Ours(row)
  BY <1>1, <1>2, <1>3, <1>4 DEF Under
<1>7. row.others = {} => \A b \in Artifacts :
         IF b \in row.bundle.tier THEN b \in Listed(Tail(row.left)) \/ site'[b] = row.bundle
         ELSE site'[b] = None
  BY <1>1, <1>2, <1>3, <1>5 DEF OnlyOwn
<1>8. \A b \in Artifacts : site'[b] \in {site[b], None, Cut, Mixed, row.bundle}
  BY <1>1 DEF Overwritten
<1>9. ASSUME NEW v \in Publishers, v # w, publication[v] # None
      PROVE  Under(v)' /\ OnlyOwn(v)'
  <2>1. row.bundle \in publication[v].others /\ Under(v)
    BY <1>1, <1>9 DEF WholeInv, Met
  <2> QED
    BY <1>1, <1>8, <1>9, <2>1, ElseUnder
<1>10. CASE /\ Tail(row.left) = <<>> /\ publication'[w] = None
            /\ whole' = [bundle |-> row.bundle, others |-> row.others]
  <2>1. Listed(Tail(row.left)) = {}
    BY <1>10 DEF Listed
  <2>2. WholeBundle'
    BY <1>6, <1>7, <1>10, <2>1 DEF WholeBundle, Ours
  <2>3. \A v \in Publishers : publication'[v] # None => publication'[v].bundle \in whole'.others
    BY <1>1, <1>10 DEF WholeInv, Met
  <2> QED
    BY <1>1, <1>9, <1>10, <2>2, <2>3 DEF WholeInv, Met
<1>11. CASE /\ publication'[w] # None
            /\ publication'[w].bundle = row.bundle /\ publication'[w].left = Tail(row.left)
            /\ publication'[w].at = "next" /\ publication'[w].others = row.others
            /\ UNCHANGED whole
  <2>1. Ours(row)' = Ours(row)
    BY <1>11 DEF Ours
  <2>2. Under(w)'
    BY <1>2, <1>3, <1>6, <1>11, <2>1 DEF Under
  <2>3. OnlyOwn(w)'
    BY <1>7, <1>11 DEF OnlyOwn
  <2>4. WholeBundle'
    BY <1>1, <1>8, <1>11, ElseWhole
  <2> QED
    BY <1>1, <1>9, <1>11, <2>2, <2>3, <2>4 DEF WholeInv, Met
<1> QED
  BY <1>10, <1>11, WrittenRows

LEMMA StopWhole ==
    ASSUME SiteTypes, WholeInv, NEW w \in Publishers, StopPublish(w)
    PROVE  WholeInv'
<1>1. /\ UNCHANGED <<site, whole>> /\ publication'[w] = None
      /\ \A v \in Publishers \ {w} : publication'[v] = publication[v]
  BY DEF StopPublish, SiteTypes, TypeOK
<1> QED
  BY <1>1 DEF WholeInv, WholeBundle, Met, Under, OnlyOwn, Ours

\* A publication that completes leaves its own bundle and nothing else, whatever
\* publications before it were broken off, if none ran at the same time; and in any
\* case no file of an earlier publication.
THEOREM WholeIsWhole == SiteSpec => []WholeBundle
<1>1. SiteInit => WholeInv
  BY DEF SiteInit, WholeInv, WholeBundle, Met
<1>2. SiteTypes /\ WholeInv /\ [SiteNext]_vars => WholeInv'
  <2> SUFFICES ASSUME SiteTypes, WholeInv, [SiteNext]_vars
               PROVE  WholeInv'
    OBVIOUS
  <2>1. CASE UNCHANGED <<site, publication, whole>>
    BY <2>1 DEF WholeInv, WholeBundle, Met, Under, OnlyOwn, Ours
  <2>2. ASSUME NEW w \in Publishers, PublishStep(w)
        PROVE  WholeInv'
    BY <2>2, BeginPublishWhole, ClearWhole, EmptyWhole, WriteWhole, StopWhole DEF PublishStep
  <2>3. ASSUME NEW r \in Readers, InspectStep(r)
        PROVE  UNCHANGED <<site, publication, whole>>
    BY <2>3 DEF InspectStep, BeginInspection, Fetch, EndInspection
  <2>4. ASSUME NEW p \in Processes, HomeStep(p)
        PROVE  UNCHANGED <<site, publication, whole>>
    BY <2>4 DEF HomeStep, siteVars
  <2> QED
    BY <2>1, <2>2, <2>3, <2>4 DEF SiteNext, vars, siteVars
<1>3. WholeInv => WholeBundle
  BY DEF WholeInv
<1> QED
  BY <1>1, <1>2, <1>3, SiteTypesStay, PTL DEF SiteSpec
=============================================================================
