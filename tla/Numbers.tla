------------------------------- MODULE Numbers -------------------------------
(***************************************************************************)
(* Facts about sets of numbers that several proofs need, which the library *)
(* states only for an operator given as a parameter.                       *)
(***************************************************************************)
EXTENDS Integers, FiniteSetsExt, FiniteSetTheorems, WellFoundedInduction, TLAPS

(* A set of numbers has a least one.  The chain 1 .. n for each n of it    *)
(* stands for the numbers: the library orders finite sets.                 *)
LEMMA Least ==
  ASSUME NEW T \in SUBSET Nat, T # {}
  PROVE  \E m \in T : \A n \in T : m <= n
PROOF
  <1> DEFINE Below == {1 .. n : n \in T}
  <1>1. Below \subseteq FiniteSubsetsOf(Nat) /\ Below # {}
    <2>1. \A n \in T : 1 .. n \subseteq Nat /\ IsFiniteSet(1 .. n)
      BY FS_Interval
    <2>2. QED
      BY <2>1 DEF FiniteSubsetsOf
  <1>2. PICK s \in Below : \A t \in Below : <<t, s>> \notin StrictSubsetOrdering(Nat)
    <2> HIDE DEF Below
    <2>1. QED
      BY <1>1, FS_StrictSubsetOrderingWellFounded, WFMin
  <1>3. PICK m \in T : s = 1 .. m
    OBVIOUS
  <1>4. ASSUME NEW n \in T, n < m
        PROVE  FALSE
    <2>1. 1 .. n \subseteq 1 .. m /\ m \in 1 .. m /\ m \notin 1 .. n
      BY <1>4
    <2>2. 1 .. n \in Below /\ 1 .. m \subseteq Nat /\ 1 .. n \subseteq Nat
      OBVIOUS
    <2>3. <<1 .. n, 1 .. m>> \in StrictSubsetOrdering(Nat)
      BY <2>1, <2>2 DEF StrictSubsetOrdering
    <2>4. QED
      BY <1>2, <1>3, <2>2, <2>3
  <1> QED BY <1>4

(* Bounds of a set of numbers that has some.                               *)
LEMMA MinAndMax ==
  ASSUME NEW N \in Nat, NEW S \in SUBSET (0 .. N), S # {}
  PROVE  /\ Min(S) \in S /\ \A n \in S : Min(S) <= n
         /\ Max(S) \in S /\ \A n \in S : n <= Max(S)
PROOF
  <1>1. \A n \in S : n \in Nat /\ n <= N
    OBVIOUS
  <1>2. \E m \in S : \A n \in S : m <= n
    BY <1>1, Least
  <1>3. \E m \in S : \A n \in S : m >= n
    <2> DEFINE T == {N - n : n \in S}
    <2>1. T \in SUBSET Nat /\ T # {}
      <3>1. \A n \in S : N - n \in Nat
        BY <1>1
      <3>2. QED
        BY <3>1
    <2>2. PICK t \in T : \A u \in T : t <= u
      <3> HIDE DEF T
      <3>1. QED
        BY <2>1, Least
    <2>3. PICK m \in S : t = N - m
      OBVIOUS
    <2>4. \A n \in S : N - m <= N - n
      BY <2>2, <2>3
    <2>5. QED
      BY <1>1, <2>4
  <1>4. Min(S) \in S /\ \A n \in S : Min(S) <= n
    BY <1>2 DEF Min
  <1>5. Max(S) \in S /\ \A n \in S : Max(S) >= n
    BY <1>3 DEF Max
  <1>6. QED
    BY <1>1, <1>4, <1>5

(* In a finite set of numbers there is one with any number of smaller ones *)
(* that the set is large enough for.                                       *)
LEMMA Ranked ==
  ASSUME NEW S \in SUBSET Nat, IsFiniteSet(S), NEW n \in Nat, n < Cardinality(S)
  PROVE  \E p \in S : Cardinality({q \in S : q < p}) = n
PROOF
  <1> DEFINE Has(k) == \E p \in S : Cardinality({q \in S : q < p}) = k
             Bad == {k \in Nat : k < Cardinality(S) /\ ~Has(k)}
  <1> SUFFICES ASSUME Bad # {}
               PROVE  FALSE
    OBVIOUS
  <1>1. PICK k \in Bad : \A o \in Bad : k <= o
    BY Least
  <1>2. Cardinality(S) \in Nat
    BY FS_CardinalityType
  <1>3. CASE k = 0
    <2>1. S # {}
      BY <1>3, <1>1, FS_EmptySet
    <2>2. PICK p \in S : \A q \in S : p <= q
      BY <2>1, Least
    <2>3. {q \in S : q < p} = {}
      <3>1. ASSUME NEW q \in S
            PROVE  ~(q < p)
        <4>1. q \in Nat /\ p \in Nat /\ p <= q
          BY <2>2
        <4> QED BY <4>1
      <3> QED BY <3>1
    <2>4. Has(0)
      BY <2>3, FS_EmptySet
    <2> QED BY <2>4, <1>3, <1>1
  <1>4. CASE k # 0
    <2>1. k - 1 \in Nat /\ k - 1 < Cardinality(S) /\ k - 1 \notin Bad
      BY <1>4, <1>1, <1>2
    <2>2. Has(k - 1)
      BY <2>1
    <2>3. PICK p \in S : Cardinality({q \in S : q < p}) = k - 1
      BY <2>2
    <2> DEFINE Below == {q \in S : q < p}
               Upto == {q \in S : q <= p}
    <2>4. Upto = Below \cup {p} /\ p \notin Below
      <3>1. \A q \in S : (q <= p) <=> (q < p \/ q = p)
        OBVIOUS
      <3>2. Upto = Below \cup {p}
        BY <3>1
      <3>3. ~(p < p)
        OBVIOUS
      <3> QED BY <3>2, <3>3
    <2>5. IsFiniteSet(Below)
      BY FS_Subset
    <2>6. Cardinality(Upto) = k
      <3>1. Cardinality(Below) = k - 1
        BY <2>3
      <3> HIDE DEF Below, Upto
      <3>2. Cardinality(Upto) = Cardinality(Below) + 1
        BY <2>4, <2>5, FS_AddElement
      <3> QED BY <3>1, <3>2, <2>1
    <2>7. S \ Upto # {} /\ S \ Upto \in SUBSET Nat
      <3>1. Upto # S
        <4>1. k < Cardinality(S) /\ k \in Nat
          BY <1>1
        <4> HIDE DEF Upto
        <4> QED BY <4>1, <2>6, <1>2
      <3> QED BY <3>1
    <2>8. PICK r \in S \ Upto : \A q \in S \ Upto : r <= q
      <3> HIDE DEF Upto
      <3> QED BY <2>7, Least
    <2>9. {q \in S : q < r} = Upto
      <3>1. r \in S /\ r \in Nat /\ p \in Nat /\ ~(r <= p)
        BY <2>8
      <3>2. ASSUME NEW q \in S
            PROVE  q < r <=> q <= p
        BY <3>1, <2>8
      <3> QED BY <3>2
    <2>10. Has(k)
      <3>1. r \in S
        BY <2>8
      <3> QED BY <3>1, <2>9, <2>6
    <2> QED BY <2>10, <1>1
  <1> QED BY <1>3, <1>4

=============================================================================
