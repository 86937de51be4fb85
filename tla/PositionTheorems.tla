-------------------------- MODULE PositionTheorems --------------------------
(***************************************************************************)
(* First and last positions: Rust's loops stop at the first match, and a   *)
(* map keeps the last insertion.                                           *)
(***************************************************************************)
EXTENDS Naturals, TLAPS, WellFoundedInduction

\* The first position at which something holds, which Resolve, RoutePolicy::compile
\* and validate_spec stop at.
LEMMA LeastPosition ==
    ASSUME NEW n \in Nat, NEW I \in SUBSET (1..n), I # {}
    PROVE  \E i \in I : \A j \in I : i <= j
  <1>1. I \subseteq Nat
    OBVIOUS
  <1>2. PICK i \in I : \A j \in I : ~(<<j, i>> \in OpToRel(<, Nat))
    BY <1>1, NatLessThanWellFounded, WFMin
  <1>3. \A j \in I : ~(j < i)
    BY <1>1, <1>2 DEF OpToRel
  <1> QED
    BY <1>1, <1>3

\* The last position at which something holds, the route a HashMap keeps of several
\* with one key.
LEMMA GreatestPosition ==
    ASSUME NEW n \in Nat, NEW I \in SUBSET (1..n), I # {}
    PROVE  \E i \in I : \A j \in I : j <= i
  <1> DEFINE J == {(n + 1) - i : i \in I}
  <1>1. J \in SUBSET (1..n) /\ J # {}
    <2>1. \A i \in I : i \in 1..n /\ (n + 1) - i \in 1..n
      OBVIOUS
    <2> QED
      BY <2>1
  <1>2. PICK k \in J : \A j \in J : k <= j
    BY <1>1, LeastPosition
  <1>3. PICK i \in I : k = (n + 1) - i
    BY <1>2
  <1>4. \A j \in I : k <= (n + 1) - j
    BY <1>2
  <1>5. \A j \in I : j \in Nat
    OBVIOUS
  <1> HIDE DEF J
  <1> QED
    BY <1>3, <1>4, <1>5
=============================================================================
