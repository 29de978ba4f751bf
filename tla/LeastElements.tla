---------------------------- MODULE LeastElements ----------------------------
(****************************************************************************)
(* A set of machines has a first one in any order by natural numbers, which *)
(* is what the First of several modules chooses.                            *)
(****************************************************************************)
EXTENDS Naturals, WellFoundedInduction, TLAPS

LEMMA LeastExists ==
  ASSUME NEW S, NEW place \in [S -> Nat], NEW T \in SUBSET S, T # {}
  PROVE  \E m \in T : \A n \in T : place[m] <= place[n]
<1> DEFINE places == {place[m] : m \in T}
           less == OpToRel(<, Nat)
<1>1. places \subseteq Nat /\ places # {}
  OBVIOUS
<1>2. PICK p \in places : \A q \in places : p <= q
  <2>1. IsWellFoundedOn(less, Nat)
    BY NatLessThanWellFounded
  <2>2. \A i, j \in Nat : i < j => <<i, j>> \in less
    BY DEF OpToRel
  <2> HIDE DEF less, places
  <2>3. PICK p \in places : \A q \in places : ~ (<<q, p>> \in less)
    BY <1>1, <2>1, WFMin
  <2>4. ASSUME NEW q \in places PROVE p <= q
    <3>1. p \in Nat /\ q \in Nat /\ ~ (q < p)
      BY <1>1, <2>2, <2>3
    <3>2. QED
      BY <3>1
  <2>5. QED
    BY <2>4
<1>3. PICK m \in T : place[m] = p
  BY <1>2
<1>4. \A n \in T : place[m] <= place[n]
  BY <1>2, <1>3
<1>5. QED
  BY <1>4

=============================================================================
