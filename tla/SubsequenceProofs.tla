--------------------------- MODULE SubsequenceProofs ---------------------------
(***************************************************************************)
(* What Picked keeps of a sequence: everything at the positions, nothing   *)
(* else, each once and in its order.                                       *)
(***************************************************************************)
EXTENDS Subsequences, Integers, FiniteSetTheorems, SequenceTheorems, TLAPS

\* How many of the positions come no later than p.
Rank(positions, p) == Cardinality({k \in positions : k <= p})

\* Later positions have a higher rank, so the ranks number the positions.
LEMMA RankGrows ==
    ASSUME NEW n \in Nat, NEW positions \in SUBSET (1..n)
    PROVE  /\ IsFiniteSet(positions) /\ Cardinality(positions) \in Nat
           /\ \A p \in positions : Rank(positions, p) \in 1..Cardinality(positions)
           /\ \A p, q \in positions : p < q => Rank(positions, p) < Rank(positions, q)
<1>0. IsFiniteSet(1..n)
  BY FS_Interval, 1 \in Int, n \in Int
<1>1. IsFiniteSet(positions) /\ Cardinality(positions) \in Nat
  BY <1>0, FS_Subset, FS_CardinalityType
<1>2. ASSUME NEW p \in positions
      PROVE  /\ IsFiniteSet({k \in positions : k <= p})
             /\ Rank(positions, p) \in 1..Cardinality(positions)
  <2>1. /\ IsFiniteSet({k \in positions : k <= p})
        /\ Rank(positions, p) \in Nat /\ Rank(positions, p) <= Cardinality(positions)
    <3>1. {k \in positions : k <= p} \subseteq positions
      OBVIOUS
    <3>2. QED
      BY <1>1, <3>1, FS_Subset, FS_CardinalityType DEF Rank
  <2>2. p \in {k \in positions : k <= p}
    OBVIOUS
  <2>3. Rank(positions, p) # 0
    BY <2>1, <2>2, FS_EmptySet DEF Rank
  <2>4. QED
    BY <1>1, <2>1, <2>3
<1>3. ASSUME NEW p \in positions, NEW q \in positions, p < q
      PROVE  Rank(positions, p) < Rank(positions, q)
  <2>0. p \in Nat /\ q \in Nat /\ \A k \in positions : k \in Nat
    BY positions \subseteq 1..n
  <2>1. {k \in positions : k <= p} \subseteq {k \in positions : k <= q}
    <3>1. \A k \in positions : k <= p => k <= q
      BY <1>3, <2>0
    <3>2. QED
      BY <3>1
  <2>2. q \in {k \in positions : k <= q} /\ q \notin {k \in positions : k <= p}
    BY <1>3, <2>0
  <2>3. /\ Rank(positions, p) <= Rank(positions, q)
        /\ Rank(positions, p) # Rank(positions, q)
    BY <1>2, <2>1, <2>2, FS_Subset DEF Rank
  <2>4. Rank(positions, p) \in Nat /\ Rank(positions, q) \in Nat
    <3>1. \A k \in positions : Rank(positions, k) \in 1..Cardinality(positions)
      BY <1>2
    <3>2. QED
      BY <1>1, <3>1
  <2>5. QED
    BY <2>3, <2>4
<1>4. QED
  BY <1>1, <1>2, <1>3

\* Nth counts through the positions in their order, and leaves none out.
LEMMA NthCounts ==
    ASSUME NEW n \in Nat, NEW positions \in SUBSET (1..n)
    PROVE  /\ \A i \in 1..Cardinality(positions) :
                 Nth(positions, i) \in positions /\ Rank(positions, Nth(positions, i)) = i
           /\ \A p \in positions : \E i \in 1..Cardinality(positions) : Nth(positions, i) = p
           /\ \A i, k \in 1..Cardinality(positions) :
                 i < k => Nth(positions, i) < Nth(positions, k)
<1> DEFINE size == Cardinality(positions)
           rank == [p \in positions |-> Rank(positions, p)]
<1>1. /\ IsFiniteSet(positions) /\ size \in Nat
      /\ \A p \in positions : Rank(positions, p) \in 1..size
      /\ \A p, q \in positions : p < q => Rank(positions, p) < Rank(positions, q)
  BY RankGrows
<1>2. \A p, q \in positions : Rank(positions, p) = Rank(positions, q) => p = q
  <2>1. \A p \in positions : p \in Nat /\ Rank(positions, p) \in Nat
    BY <1>1, positions \subseteq 1..n
  <2>2. QED
    BY <1>1, <2>1
<1>3. rank \in Injection(positions, 1..size)
  BY <1>1, <1>2 DEF Injection, IsInjective
<1>4. IsFiniteSet(1..size) /\ Cardinality(1..size) = size
  BY <1>1, FS_Interval
<1>5. rank \in Surjection(positions, 1..size)
  BY <1>1, <1>3, <1>4, FS_Injection
<1>6. \A i \in 1..size : \E p \in positions : Rank(positions, p) = i
  BY <1>5 DEF Surjection
<1>7. \A i \in 1..size : Nth(positions, i) \in positions /\ Rank(positions, Nth(positions, i)) = i
  BY <1>6 DEF Nth, Rank
<1>8. \A p \in positions : \E i \in 1..size : Nth(positions, i) = p
  BY <1>1, <1>2, <1>7
<1>9. \A i, k \in 1..size : i < k => Nth(positions, i) < Nth(positions, k)
  <2>1. \A p \in positions : p \in Nat
    BY positions \subseteq 1..n
  <2>2. SUFFICES ASSUME NEW i \in 1..size, NEW k \in 1..size, i < k
                 PROVE  Nth(positions, i) < Nth(positions, k)
    OBVIOUS
  <2>3. PICK p \in positions, q \in positions :
           /\ p = Nth(positions, i) /\ q = Nth(positions, k)
           /\ Rank(positions, p) = i /\ Rank(positions, q) = k
    BY <1>7
  <2>4. ~(q < p) /\ q # p /\ p \in Nat /\ q \in Nat
    BY <1>1, <2>1, <2>2, <2>3
  <2>5. QED
    BY <2>3, <2>4
<1>10. QED
  BY <1>7, <1>8, <1>9

\* The elements of Picked are those at the positions, in their order.
LEMMA PickedFacts ==
    ASSUME NEW S, NEW s \in Seq(S), NEW positions \in SUBSET (1..Len(s))
    PROVE  /\ Picked(s, positions) \in Seq(S)
           /\ Len(Picked(s, positions)) = Cardinality(positions)
           /\ Cardinality(positions) \in 0..Len(s)
           /\ \A i \in 1..Cardinality(positions) :
                 Nth(positions, i) \in positions /\ Picked(s, positions)[i] = s[Nth(positions, i)]
           /\ \A p \in positions : \E i \in 1..Cardinality(positions) : Nth(positions, i) = p
           /\ \A i, k \in 1..Cardinality(positions) :
                 i < k => Nth(positions, i) < Nth(positions, k)
<1>1. Len(s) \in Nat /\ \A p \in positions : s[p] \in S
  BY LenProperties, ElementOfSeq
<1>2. IsFiniteSet(1..Len(s)) /\ Cardinality(1..Len(s)) = Len(s)
  <2>1. PICK n \in Nat : n = Len(s)
    BY <1>1
  <2>2. n \in Int /\ 1 \in Int /\ n - 1 + 1 = n /\ (1 <= n \/ n = 0)
    OBVIOUS
  <2>3. IsFiniteSet(1..n) /\ Cardinality(1..n) = IF 1 <= n THEN n - 1 + 1 ELSE 0
    BY <2>2, FS_Interval
  <2>4. Cardinality(1..n) = n
    BY <2>2, <2>3
  <2>5. QED
    BY <2>1, <2>3, <2>4
<1>3. Cardinality(positions) \in 0..Len(s)
  <2>1. IsFiniteSet(positions) /\ Cardinality(positions) <= Cardinality(1..Len(s))
    BY <1>2, FS_Subset
  <2>2. QED
    BY <1>1, <1>2, <2>1, FS_CardinalityType
<1>4. \A i \in 1..Cardinality(positions) : Nth(positions, i) \in positions
  BY <1>1, NthCounts
<1>5. Picked(s, positions) \in [1..Cardinality(positions) -> S]
  BY <1>1, <1>4 DEF Picked
<1>6. Picked(s, positions) \in Seq(S) /\ Len(Picked(s, positions)) = Cardinality(positions)
  BY <1>3, <1>5, SeqDef, LenProperties
<1>7. QED
  BY <1>1, <1>3, <1>4, <1>6, NthCounts DEF Picked
===============================================================================
