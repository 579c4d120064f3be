----------------------------- MODULE LeastNumber ------------------------------
(***************************************************************************)
(* Induction by the least counterexample, for the recursive functions of   *)
(* the models: what fails for some number fails for a least one.           *)
(***************************************************************************)
EXTENDS Integers, NaturalsInduction, WellFoundedInduction, TLAPS

\* A set of natural numbers has a least element.
LEMMA Least ==
  ASSUME NEW T, T \subseteq Nat, T # {}
  PROVE  \E m \in T : \A n \in T : m <= n
  <1> DEFINE R == OpToRel(<, Nat)
  <1>2. IsWellFoundedOn(R, Nat)
    BY NatLessThanWellFounded
  <1>3. \A m, n \in Nat : m < n => <<m, n>> \in R
    BY DEF OpToRel
  <1> HIDE DEF R
  <1>6. \E m \in T : \A n \in T : ~(<<n, m>> \in R)
    BY <1>2, WFMin, Zenon
  <1>4. PICK m \in T : \A n \in T : ~(<<n, m>> \in R)
    BY <1>6
  <1>5. ASSUME NEW n \in T PROVE m <= n
    <2>1. m \in Nat /\ n \in Nat
      OBVIOUS
    <2>2. ~(n < m)
      BY <1>3, <1>4, <2>1, Zenon
    <2>. QED BY <2>1, <2>2
  <1>. QED BY <1>5, <1>4
===============================================================================
