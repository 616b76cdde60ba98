-------------------------------- MODULE Site --------------------------------
(***************************************************************************)
(* The public side of a home: "publish" makes a bundle of artifacts of the *)
(* identity and writes them, one file after another, where the site serves *)
(* them; an inspection ("inspect", "import", "known refresh" and "index    *)
(* crawl" of another home) fetches them one after another and compares     *)
(* them with each other.  Neither waits for the other, nor does one        *)
(* publication for another, and "publish" may stop between two files or    *)
(* within one.                                                             *)
(*                                                                         *)
(* The artifacts are did.json ("did"), agent-card.json ("card"), webfinger *)
(* ("finger") and the profile page ("page").  A copy of one is known by    *)
(* the bundle it is of.  The headers file and the manifest, which no       *)
(* program reads, are left out.                                            *)
(***************************************************************************)
EXTENDS Home, Sequences

CONSTANTS
    Publishers,  \* processes that run "publish"
    Readers,     \* processes that run an inspection
    Origins,     \* origins a user may give to "publish"
    Served,      \* the origin at which the files are served
    Tiers,       \* tiers of a bundle a user may ask for
    MaxOpened,   \* bound: publications and inspections begun
    MaxTogether, \* bound: those and the commands of the home
    MaxWriters,  \* bound: commands and publications at the same time
    Cut,         \* a file that has been emptied and not written
    Mixed        \* a file with the rest of another behind its own content

Artifacts == {"did", "card", "finger", "page"}

\* Minimum, recommended and full.
AllTiers == {{"did"}, {"did", "card", "finger"}, Artifacts}

ASSUME SiteAssumption ==
    /\ Tiers \subseteq AllTiers
    /\ Served \in Origins
    /\ MaxOpened \in Nat
    /\ None \notin Origins
    /\ Cut # None
    /\ Mixed \notin {None, Cut}

VARIABLES
    opened,      \* publications and inspections begun
    origin,      \* self_identities.home_origin
    site,        \* the files, each of a bundle, or emptied
    publication, \* what each publisher has compiled and not yet written, where it
                 \* is, and, as a history, the bundles it has overlapped with
    inspection,  \* what each reader has fetched
    origins,     \* history: origins of the bundles
    whole        \* history: the last publication to complete, until one begins

siteVars == <<opened, origin, site, publication, inspection, origins, whole>>

vars == <<homeVars, siteVars>>

Bundle ==
    [name : Numbers \cup Names, keys : SUBSET Numbers, origin : Origins, tier : Tiers]

\* A publication removes what its tier does not have, opens and writes one file
\* after another, and may lose a file it has open to another's removal.
Publications ==
    [bundle : Bundle, left : Seq(Artifacts), at : {"clear", "next", "open", "lost"},
     others : SUBSET Bundle]

ASSUME PublicationsAssumption == None \notin Publications

Inspections == [next : Artifacts \cup {"verdict"}, got : [Artifacts -> Bundle \cup {None}]]

SiteInit ==
    /\ Init
    /\ opened = 0
    /\ origin = None
    /\ site = [a \in Artifacts |-> None]
    /\ publication = [w \in Publishers |-> None]
    /\ inspection = [r \in Readers |-> None]
    /\ origins = {}
    /\ whole = None

TypeOK ==
    /\ HomeTypeOK
    /\ opened \in 0 .. MaxOpened
    /\ origin \in Origins \cup {None}
    /\ site \in [Artifacts -> Bundle \cup {None, Cut, Mixed}]
    /\ publication \in [Publishers -> Publications \cup {None}]
    /\ inspection \in [Readers -> Inspections \cup {None}]
    /\ origins \subseteq Origins
    /\ whole \in [bundle : Bundle, others : SUBSET Bundle] \cup {None}

-----------------------------------------------------------------------------
(* Publishing. *)

\* The artifacts of a tier, in the order in which they are written.
Written(tier) ==
    CASE tier = {"did"} -> <<"did">>
      [] tier = Artifacts -> <<"did", "finger", "card", "page">>
      [] OTHER -> <<"did", "finger", "card">>

\* The publications that run, and their bundles.
Publishing == {w \in Publishers : publication[w] # None}

\* One command or publication more may run.
MayWrite == Cardinality({p \in Processes : command[p] # Idle}) + Cardinality(Publishing) < MaxWriters

\* One publication or inspection more: the bounds are on all that is done to
\* the home, too.
Open ==
    /\ opened < MaxOpened
    /\ begun + opened < MaxTogether
    /\ opened' = opened + 1

Compiled == {publication[w].bundle : w \in Publishing}

\* A publication joins those that run: each overlaps with the others.
Joined(w, bundle) ==
    [v \in Publishers |->
        IF v = w THEN [bundle |-> bundle, left |-> Written(bundle.tier), at |-> "clear",
                       others |-> Compiled]
        ELSE IF v \in Publishing
             THEN [publication[v] EXCEPT !.others = @ \cup {bundle}]
             ELSE None]

\* The home must have one identity, and an origin: the one given, or else the
\* last one.  It is kept even if the identity turns out to have no key.
BeginPublish(w) ==
    /\ publication[w] = None
    /\ Open
    /\ MayWrite
    /\ Cardinality(identities) = 1
    /\ \E given \in Origins \cup {None}, tier \in Tiers :
         LET to == IF given = None THEN origin ELSE given
             i == Oldest(identities)
         IN  /\ to # None
             /\ origin' = to
             /\ IF SignersOf(i.self) = {}
                THEN UNCHANGED <<publication, origins, whole>>
                ELSE /\ publication' = Joined(w, [name |-> i.name, keys |-> SignersOf(i.self),
                                                  origin |-> to, tier |-> tier])
                     /\ whole' = None
                     /\ origins' = origins \cup {to}
    /\ UNCHANGED <<homeVars, site, inspection>>

\* Mutant: what an earlier bundle had is left.
ClearedOfNone(tier) == site

\* Of the artifacts on the site, those the tier does not have are removed.
Cleared(tier) == [a \in Artifacts |-> IF a \in tier THEN site[a] ELSE None]

\* Who has a removed file open goes on writing it, and nobody sees it.
Clear(w) ==
    /\ publication[w] # None
    /\ publication[w].at = "clear"
    /\ LET tier == publication[w].bundle.tier
       IN  /\ site' = Cleared(tier)
           /\ publication' =
                [v \in Publishers |->
                    IF v = w THEN [publication[w] EXCEPT !.at = "next"]
                    ELSE IF /\ v \in Publishing
                            /\ publication[v].at = "open"
                            /\ Head(publication[v].left) \notin tier
                         THEN [publication[v] EXCEPT !.at = "lost"]
                         ELSE publication[v]]
    /\ UNCHANGED <<homeVars, opened, origin, inspection, origins, whole>>

\* A file is emptied before it is written.
Empty(w) ==
    /\ publication[w] # None
    /\ publication[w].at = "next"
    /\ site' = [site EXCEPT ![Head(publication[w].left)] = Cut]
    /\ publication' = [publication EXCEPT ![w].at = "open"]
    /\ UNCHANGED <<homeVars, opened, origin, inspection, origins, whole>>

\* What is in the file then: of a longer file that another has written since it
\* was emptied the end remains, behind which only a page is still read.
Overwritten(a, bundle) ==
    IF site[a] \in {Cut, bundle} \/ a = "page" THEN {bundle} ELSE {bundle, Mixed}

Write(w) ==
    /\ publication[w] # None
    /\ publication[w].at \in {"open", "lost"}
    /\ LET bundle == publication[w].bundle
           a == Head(publication[w].left)
           left == Tail(publication[w].left)
       IN  /\ IF publication[w].at = "lost"
              THEN UNCHANGED site
              ELSE \E new \in Overwritten(a, bundle) : site' = [site EXCEPT ![a] = new]
           /\ IF left = <<>>
              THEN /\ publication' = [publication EXCEPT ![w] = None]
                   /\ whole' = [bundle |-> bundle, others |-> publication[w].others]
              ELSE /\ publication' = [publication EXCEPT ![w].left = left, ![w].at = "next"]
                   /\ UNCHANGED whole
    /\ UNCHANGED <<homeVars, opened, origin, inspection, origins>>

\* "publish" ends in an error, or with the process.
StopPublish(w) ==
    /\ publication[w] # None
    /\ publication' = [publication EXCEPT ![w] = None]
    /\ UNCHANGED <<homeVars, opened, origin, site, inspection, origins, whole>>

-----------------------------------------------------------------------------
(* Inspecting. *)

\* What is fetched from an origin; no other origin than the one served has any
\* of the files, and a file that is empty or mixed is taken for none.
Fetched(a, from) == IF from = Served /\ site[a] \notin {Cut, Mixed} THEN site[a] ELSE None

\* did.json and the agent card say where the others are; the card counts more.
PlaceOf(a, got) ==
    IF a \in {"finger", "page"} /\ got["card"] # None /\ a \in got["card"].tier
    THEN got["card"].origin
    ELSE IF got["did"] # None /\ a \in got["did"].tier THEN got["did"].origin
    ELSE Served

After == [did |-> "card", card |-> "finger", finger |-> "page", page |-> "verdict"]

BeginInspection(r) ==
    /\ inspection[r] = None
    /\ Open
    /\ inspection' = [inspection EXCEPT ![r] =
                         [next |-> "did", got |-> [a \in Artifacts |-> None]]]
    /\ UNCHANGED <<homeVars, origin, site, publication, origins, whole>>

Fetch(r) ==
    /\ inspection[r] # None
    /\ inspection[r].next # "verdict"
    /\ LET a == inspection[r].next
           got == inspection[r].got
       IN  \E copy \in {Fetched(a, PlaceOf(a, got)), None} :
             inspection' = [inspection EXCEPT ![r] =
                               [next |-> After[a], got |-> [got EXCEPT ![a] = copy]]]
    /\ UNCHANGED <<homeVars, opened, origin, site, publication, origins, whole>>

\* With its verdict, or before.
EndInspection(r) ==
    /\ inspection[r] # None
    /\ inspection' = [inspection EXCEPT ![r] = None]
    /\ UNCHANGED <<homeVars, opened, origin, site, publication, origins, whole>>

CardIssues(card, did) ==
    \/ card.name # did.name
    \/ card.origin # Served
    \/ ~(card.keys \subseteq did.keys)

FingerIssues(finger, did) == finger.origin # Served \/ finger.name # did.name

\* The page has links to did.json and to the agent card.
PageIssues(page, got) == page.origin # Served \/ page.origin # PlaceOf("card", got)

\* Mutant: an artifact that did.json announces must be there.
IssuesOrMissing(got) ==
    \/ \E a \in got["did"].tier : got[a] = None
    \/ got["card"] # None /\ CardIssues(got["card"], got["did"])

\* What is compared with did.json, if it is there.
Issues(got) ==
    \/ got["card"] # None /\ CardIssues(got["card"], got["did"])
    \/ got["finger"] # None /\ FingerIssues(got["finger"], got["did"])
    \/ got["page"] # None /\ PageIssues(got["page"], got)

Verdict(got) ==
    IF \A a \in Artifacts : got[a] = None THEN "nothing"
    ELSE IF got["did"] = None THEN "discovered"
    ELSE IF Issues(got) THEN "mismatch"
    ELSE IF \E a \in Artifacts \ {"did"} : got[a] # None THEN "consistent"
    ELSE "resolved"

-----------------------------------------------------------------------------
HomeStep(p) ==
    /\ Step(p)
    /\ begun' + opened <= MaxTogether
    /\ begun' # begun => MayWrite
    /\ UNCHANGED siteVars

PublishStep(w) ==
    BeginPublish(w) \/ Clear(w) \/ Empty(w) \/ Write(w) \/ StopPublish(w)

InspectStep(r) == BeginInspection(r) \/ Fetch(r) \/ EndInspection(r)

SiteNext ==
    \/ \E p \in Processes : HomeStep(p)
    \/ \E w \in Publishers : PublishStep(w)
    \/ \E r \in Readers : InspectStep(r)

SiteSpec == SiteInit /\ [][SiteNext]_vars

-----------------------------------------------------------------------------
(* Properties. *)

\* Whoever looks at a site while it is published anew, in whatever tiers, with
\* publications broken off anywhere, never takes it for a contradiction: only
\* if a bundle of another origin was written there, or the home's identity was
\* made by two commands at once, can an inspection find a mismatch.
NoFalseMismatch ==
    ~raced /\ origins \subseteq {Served} =>
        \A r \in Readers :
            inspection[r] # None /\ inspection[r].next = "verdict" =>
                Verdict(inspection[r].got) # "mismatch"

\* A publication that completes leaves its own bundle and nothing else, whatever
\* publications before it were broken off.  Nothing in "publish" keeps two of them
\* apart: after one that overlapped with others the site may be a mixture of their
\* bundles, or have a file cut or mixed, but has nothing of an earlier one.
WholeBundle ==
    whole # None =>
        /\ \A a \in Artifacts : site[a] \in {whole.bundle, None, Cut, Mixed} \cup whole.others
        /\ whole.others = {} => \A a \in Artifacts :
              site[a] = IF a \in whole.bundle.tier THEN whole.bundle ELSE None

\* The site and the cards of a home speak of the same identity and the same
\* key, unless two commands made parts of the home at once.
SiteAsCards ==
    ~raced =>
        \A a \in Artifacts, card \in cards :
            site[a] \notin {None, Cut, Mixed} => site[a].name = card.name /\ site[a].keys = {card.key}
=============================================================================
