---------------------------- MODULE Least_proofs ----------------------------
(***************************************************************************)
(* The smallest of a set of natural numbers exists: the fact behind every  *)
(* "first url" and "oldest row" of the models.  A number stands for the    *)
(* finite set of those up to it, because the library has a theorem about   *)
(* minimal finite sets that the provers can use.                           *)
(***************************************************************************)
EXTENDS FiniteSetTheorems, TLAPS

\* A set of natural numbers that is not empty has a least element.
LEMMA LeastExists ==
    ASSUME NEW S, S \subseteq Nat, S # {}
    PROVE  \E least \in S : \A n \in S : least <= n
<1> DEFINE UpTo == {0 .. n : n \in S}
<1>1. UpTo \subseteq FiniteSubsetsOf(Nat)
  <2>1. ASSUME NEW n \in S
        PROVE  0 .. n \in FiniteSubsetsOf(Nat)
    <3>1. n \in Int /\ 0 \in Int /\ 0 .. n \in SUBSET Nat
      BY <2>1
    <3>2. IsFiniteSet(0 .. n)
      BY <3>1, FS_Interval
    <3> QED
      BY <3>1, <3>2 DEF FiniteSubsetsOf
  <2> QED
    BY <2>1
<1>2. UpTo # {}
  OBVIOUS
<1> HIDE DEF UpTo
<1>3. PICK T \in UpTo : \A U \in UpTo : <<U, T>> \notin StrictSubsetOrdering(Nat)
  <2>1. IsWellFoundedOn(StrictSubsetOrdering(Nat), FiniteSubsetsOf(Nat))
    BY FS_StrictSubsetOrderingWellFounded
  <2> QED
    BY <1>1, <1>2, <2>1, WFMin
<1> USE DEF UpTo
<1>4. PICK least \in S : T = 0 .. least
  OBVIOUS
<1>5. ASSUME NEW n \in S
      PROVE  least <= n
  <2>1. <<0 .. n, 0 .. least>> \notin StrictSubsetOrdering(Nat)
    BY <1>3, <1>4, <1>5
  <2>2. 0 .. n \subseteq 0 .. least => 0 .. n = 0 .. least
    BY <2>1, <1>4 DEF StrictSubsetOrdering
  <2>3. n < least => 0 .. n \subseteq 0 .. least /\ least \notin 0 .. n /\ least \in 0 .. least
    BY <1>4, <1>5
  <2> QED
    BY <2>2, <2>3, <1>4, <1>5
<1> QED
  BY <1>5
=============================================================================
