---------------------------- MODULE NaturalSets -----------------------------
(***************************************************************************)
(* The least and the greatest element of a set of naturals, for the        *)
(* proofs about priorities and deadlines.                                  *)
(***************************************************************************)
EXTENDS Integers, FiniteSets, FiniteSetsExt, WellFoundedInduction, TLAPS

\* A set of naturals that is not empty has a least element, which is its Min.
LEMMA LeastOfNaturals ==
  ASSUME NEW S \in SUBSET Nat, S # {}
  PROVE  Min(S) \in S /\ \A y \in S : Min(S) <= y
<1>1. PICK x \in S : \A y \in S : <<y, x>> \notin OpToRel(<, Nat)
  BY NatLessThanWellFounded, WFMin
<1>2. OpToRel(<, Nat) = {ss \in Nat \X Nat : ss[1] < ss[2]}
  BY Zenon DEF OpToRel
<1> DEFINE R == OpToRel(<, Nat)
<1>3. R = {ss \in Nat \X Nat : ss[1] < ss[2]} /\ \A y \in S : <<y, x>> \notin R
  BY <1>1, <1>2
<1> HIDE DEF R
<1>4. \A y \in S : x <= y
  <2> TAKE y \in S
  <2>1. ~(y < x)
    BY ONLY <1>3, x \in Nat, y \in Nat, y \in S
  <2> QED BY <2>1
<1> QED BY <1>4 DEF Min

\* If it is bounded it has a greatest element, which is its Max.
LEMMA GreatestOfNaturals ==
  ASSUME NEW n \in Nat, NEW S \in SUBSET (0 .. n), S # {}
  PROVE  Max(S) \in S /\ \A y \in S : y <= Max(S)
<1> DEFINE D == {n - x : x \in S}
<1>1. D \in SUBSET Nat /\ D # {}
  <2>1. \A x \in S : n - x \in Nat
    OBVIOUS
  <2> QED BY <2>1
<1>2. Min(D) \in D /\ \A y \in D : Min(D) <= y
  BY <1>1, LeastOfNaturals
<1>3. PICK m \in S : Min(D) = n - m
  BY <1>2
<1>4. \A y \in S : n - m <= n - y
  BY <1>2, <1>3
<1>5. \A y \in S : y <= m
  BY <1>4
<1> QED BY <1>5 DEF Max

\* The lower of two deadlines.
LEMMA MinOfTwo ==
  ASSUME NEW a \in Int, NEW b \in Int
  PROVE  Min({a, b}) \in {a, b} /\ Min({a, b}) <= a /\ Min({a, b}) <= b
<1>1. \E x \in {a, b} : \A y \in {a, b} : x <= y
  OBVIOUS
<1> QED BY <1>1 DEF Min
=============================================================================
