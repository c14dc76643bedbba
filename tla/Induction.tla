----------------------------- MODULE Induction ------------------------------
(***************************************************************************)
(* Induction over numbers and over finite sets, with the property that is  *)
(* proved given as the set of what has it: a set, unlike an operator, is   *)
(* something the provers can instantiate a lemma with.  Both rest on the   *)
(* library's well-founded orderings.                                       *)
(***************************************************************************)
EXTENDS Integers, FiniteSets, FiniteSetTheorems, WellFoundedInduction, TLAPS

(* Every set of natural numbers that is not empty has a least element. *)
LEMMA LeastNatural ==
    ASSUME NEW T, T \subseteq Nat, T # {}
    PROVE  \E n \in T : \A m \in T : n <= m
  <1> DEFINE R == {ss \in Nat \X Nat : ss[1] < ss[2]}
  <1>1. R = OpToRel(<, Nat)
    BY DEF OpToRel
  <1>2. IsWellFoundedOn(R, Nat)
    BY <1>1, NatLessThanWellFounded
  <1>3. PICK n \in T : \A y \in T : ~ (<<y, n>> \in R)
    BY <1>2, WFMin
  <1>4. ASSUME NEW y \in T, y < n PROVE FALSE
    <2>1. <<y, n>> \in R
      BY <1>4, Zenon
    <2> QED BY <1>3, <2>1
  <1> QED BY <1>3, <1>4

(* A set with 0 that is closed under successor has every natural number. *)
LEMMA NatSetInduction ==
    ASSUME NEW Good, 0 \in Good, \A n \in Nat : n \in Good => n + 1 \in Good
    PROVE  \A n \in Nat : n \in Good
  <1> DEFINE Bad == Nat \ Good
  <1> SUFFICES ASSUME Bad # {} PROVE FALSE
    OBVIOUS
  <1>1. PICK n \in Bad : \A m \in Bad : n <= m
    BY LeastNatural
  <1>2. n # 0 /\ n - 1 \in Nat /\ n - 1 \notin Bad
    BY <1>1
  <1> QED BY <1>2

(* A set that has a subset of S as soon as it has all smaller ones has     *)
(* every subset of S, which is finite.                                     *)
LEMMA SubsetInduction ==
    ASSUME NEW S, IsFiniteSet(S), NEW Good,
           \A T \in SUBSET S : (\A U \in (SUBSET T) \ {T} : U \in Good) => T \in Good
    PROVE  \A T \in SUBSET S : T \in Good
  <1> DEFINE Bad == {T \in SUBSET S : T \notin Good}
             R == StrictSubsetOrdering(S)
  <1> SUFFICES ASSUME Bad # {} PROVE FALSE
    OBVIOUS
  <1>1. Bad \subseteq FiniteSubsetsOf(S)
    BY FS_Subset DEF FiniteSubsetsOf
  <1>2. \E T \in Bad : \A U \in Bad : ~ (<<U, T>> \in R)
    <2>1. IsWellFoundedOn(R, FiniteSubsetsOf(S))
      BY FS_StrictSubsetOrderingWellFounded
    <2> HIDE DEF Bad, R
    <2> QED BY <1>1, <2>1, WFMin
  <1>3. PICK T \in Bad : \A U \in Bad : ~ (<<U, T>> \in R)
    BY <1>2
  <1>4. \A U \in (SUBSET T) \ {T} : U \in Good
    <2> SUFFICES ASSUME NEW U \in (SUBSET T) \ {T}, U \in Bad PROVE FALSE
      OBVIOUS
    <2>1. <<U, T>> \in R
      BY DEF StrictSubsetOrdering
    <2> QED BY <1>3, <2>1
  <1> QED BY <1>4

=============================================================================
