--------------------------- MODULE TopicTableProofs ---------------------------
(***************************************************************************)
(* What the search loops of tiny_broker.c return: facts about FirstSlot    *)
(* that the proofs about the two tables share.                             *)
(***************************************************************************)
EXTENDS TopicTable, WellFoundedInduction, TLAPS

\* A non-empty set of naturals has a least element.
LEMMA NonEmptyHasLeast ==
  ASSUME NEW S \in SUBSET Nat, S # {}
  PROVE  \E n \in S : \A m \in S : n <= m
<1> DEFINE R == OpToRel(<, Nat)
<1>1. IsWellFoundedOn(R, Nat)
  BY NatLessThanWellFounded
<1>2. \A x, y \in Nat : x < y => <<x, y>> \in R
  BY Zenon DEF OpToRel
<1> HIDE DEF R
<1>3. PICK n \in S : \A m \in S : ~ (<<m, n>> \in R)
  BY <1>1, WFMin
<1>4. \A m \in S : ~ (m < n)
  BY <1>2, <1>3
<1> QED
  BY <1>4

\* FirstSlot is what the search loops return: the least index of a non-empty set ...
LEMMA FirstSlotLeast ==
  ASSUME NEW S \in SUBSET Nat, S # {}
  PROVE  FirstSlot(S) \in S /\ \A j \in S : FirstSlot(S) <= j
  BY NonEmptyHasLeast DEF FirstSlot

\* ... and NOT_FOUND for the empty set only, as the tables are shorter than 255 records.
LEMMA FirstSlotFound ==
  ASSUME NEW S \in SUBSET (0 .. 253)
  PROVE  FirstSlot(S) = NOT_FOUND <=> S = {}
<1>1. S \in SUBSET Nat
  OBVIOUS
<1> QED
  BY <1>1, FirstSlotLeast DEF FirstSlot, NOT_FOUND
===============================================================================
