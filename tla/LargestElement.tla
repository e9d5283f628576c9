--------------------------- MODULE LargestElement ---------------------------
(***************************************************************************)
(* The one fact about sets of integers the proofs need.                    *)
(***************************************************************************)
EXTENDS Integers, WellFoundedInduction, TLAPS

(* A non-empty set of integers with an upper bound has a largest element:  *)
(* what LastIndex and LastLine of TranscriptSync and TopIndex of           *)
(* Repository choose exists.                                               *)
LEMMA MaximumExists ==
  ASSUME NEW S, S \subseteq Int, S # {}, NEW b \in Int, \A s \in S : s <= b
  PROVE  \E x \in S : \A y \in S : y <= x
<1> DEFINE T == {n \in Nat : b - n \in S}
<1>1. T \subseteq Nat
  OBVIOUS
<1>2. \A s \in S : b - s \in T
  <2>1. \A s \in S : b - s \in Nat /\ b - (b - s) = s
    OBVIOUS
  <2> QED BY <2>1
<1>3. PICK n \in T : \A y \in T : ~ (<<y, n>> \in OpToRel(<, Nat))
  <2>1. IsWellFoundedOn(OpToRel(<, Nat), Nat)
    BY NatLessThanWellFounded
  <2>2. T # {}
    BY <1>2
  <2> HIDE DEF T
  <2> QED BY <1>1, <2>1, <2>2, WFMin
<1>4. \A y \in T : ~ (y < n)
  BY <1>1, <1>3 DEF OpToRel
<1>5. n \in Nat /\ b - n \in S
  BY <1>3
<1>6. ASSUME NEW s \in S PROVE s <= b - n
  <2>1. b - s \in T /\ ~ (b - s < n)
    BY <1>2, <1>4
  <2>2. s \in Int
    OBVIOUS
  <2> HIDE DEF T
  <2> QED BY <1>5, <2>1, <2>2
<1> QED BY <1>5, <1>6

=============================================================================
