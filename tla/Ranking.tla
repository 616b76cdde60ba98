------------------------------ MODULE Ranking ------------------------------
(***************************************************************************)
(* How the discovery directory judges an entry: freshness, confidence, and *)
(* the order of a list.  Confidence is counted in hundredths.              *)
(***************************************************************************)
EXTENDS Integers

\* Every row the program writes has an end of freshness; it is stale for a day
\* after that.
Freshness(now, freshUntil, day) ==
    IF now <= freshUntil THEN "fresh"
    ELSE IF now - freshUntil <= day THEN "stale"
    ELSE "expired"

FreshnessWeight == [fresh |-> 3, stale |-> 2, expired |-> 1]

\* Of the sources a program without a libp2p, DHT or Nostr discovery writes.
SourceRank == [refresh |-> 100, import |-> 90, cache |-> 40]

Base == [unknown |-> 35, seen |-> 50, verified |-> 70, trusted |-> 85, pinned |-> 95]

Levels == DOMAIN Base

VerificationAdjust ==
    [discovered |-> 0 - 8, resolved |-> 2, consistent |-> 10, mismatch |-> 0 - 45]

Adjustment(state) == IF state \in DOMAIN VerificationAdjust THEN VerificationAdjust[state] ELSE 0

\* The flags that weigh something of their own, and any other.
Penalty == [manual |-> 1, fixture |-> 1, unverified |-> 12, mismatch |-> 35, spoofing |-> 40,
            impostor |-> 35, phishing |-> 35, suspended |-> 30, compromised |-> 45, other |-> 5]

RiskFlags == DOMAIN Penalty

Weight(flag, risk) == IF flag \in risk THEN Penalty[flag] ELSE 0

PenaltyOf == [risk \in SUBSET RiskFlags |->
    Weight("manual", risk) + Weight("fixture", risk) + Weight("unverified", risk)
    + Weight("mismatch", risk) + Weight("spoofing", risk) + Weight("impostor", risk)
    + Weight("phishing", risk) + Weight("suspended", risk) + Weight("compromised", risk)
    + Weight("other", risk)]

\* A row of the trust table as it is judged: a level the program does not know
\* counts as unknown, a flag it does not know as any other.
Trusts == [level : Levels, state : STRING, risk : SUBSET RiskFlags]

FreshnessAdjust == [fresh |-> 4, stale |-> 0 - 6, expired |-> 0 - 12]

Score(e) ==
    Base[e.trust.level]
    + Adjustment(e.trust.state)
    + (IF e.reachable THEN 5 ELSE 0 - 4)
    + FreshnessAdjust[e.freshness]
    - PenaltyOf[e.trust.risk]

Clamp(n) == IF n < 0 THEN 0 ELSE IF n > 100 THEN 100 ELSE n

\* Mutant: a mismatch is only subtracted.
ConfidenceUncapped(e) == Clamp(Score(e))

\* A mismatch allows no more than 35.
Confidence(e) ==
    LET score == Clamp(Score(e))
    IN  IF e.trust.state = "mismatch" /\ score > 35 THEN 35 ELSE score

ConfidenceLevel(score) ==
    IF score >= 80 THEN "high" ELSE IF score >= 55 THEN "medium" ELSE "low"

\* Equal in all that is compared before the confidence: the higher confidence
\* goes first, then the id by the alphabet.
PrecedesAmongEquals(e, f) ==
    \/ Confidence(e) > Confidence(f)
    \/ Confidence(e) = Confidence(f) /\ e.id < f.id

\* Mutant: the source is compared before the freshness.
PrecedesBySource(e, f) ==
    LET fresher == FreshnessWeight[e.freshness] - FreshnessWeight[f.freshness]
        ranked == SourceRank[e.source] - SourceRank[f.source]
    IN  \/ ranked > 0
        \/ ranked = 0 /\ fresher > 0
        \/ ranked = 0 /\ fresher = 0 /\ e.reachable /\ ~f.reachable
        \/ ranked = 0 /\ fresher = 0 /\ e.reachable = f.reachable /\ PrecedesAmongEquals(e, f)

\* Freshness, then source, then reachability: the first that differs decides.
Precedes(e, f) ==
    LET fresher == FreshnessWeight[e.freshness] - FreshnessWeight[f.freshness]
        ranked == SourceRank[e.source] - SourceRank[f.source]
    IN  \/ fresher > 0
        \/ fresher = 0 /\ ranked > 0
        \/ fresher = 0 /\ ranked = 0 /\ e.reachable /\ ~f.reachable
        \/ fresher = 0 /\ ranked = 0 /\ e.reachable = f.reachable /\ PrecedesAmongEquals(e, f)
=============================================================================
