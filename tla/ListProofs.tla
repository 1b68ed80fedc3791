----------------------------- MODULE ListProofs -----------------------------
(***************************************************************************)
(* Numbers, and the lists of Lists: the facts that the proofs about the    *)
(* components cite.                                                        *)
(***************************************************************************)
EXTENDS Lists, FiniteSetTheorems, WellFoundedInduction, TLAPS

-----------------------------------------------------------------------------
(* Numbers, and the n-th of some places. *)

\* A set of numbers has a least one.
LEMMA LeastOf == ASSUME NEW B, B \subseteq Nat, B # {} PROVE \E n \in B : \A m \in B : n <= m
<1> DEFINE T == {0..n : n \in B}
<1>1. T \subseteq FiniteSubsetsOf(Nat)
  <2> SUFFICES ASSUME NEW n \in B PROVE 0..n \in SUBSET Nat /\ IsFiniteSet(0..n)
    BY DEF FiniteSubsetsOf
  <2> QED BY FS_Interval
<1>2. T # {}
  OBVIOUS
<1>3. PICK x \in T : \A y \in T : ~(<<y, x>> \in StrictSubsetOrdering(Nat))
  <2> HIDE DEF T
  <2> QED BY <1>1, <1>2, FS_StrictSubsetOrderingWellFounded, WFMin
<1>4. PICK n \in B : x = 0..n
  BY <1>3
<1>5. ASSUME NEW m \in B, ~(n <= m) PROVE FALSE
  <2>1. 0..m \in T
  OBVIOUS
  <2>2. m < n /\ m \in Nat /\ n \in Nat
    BY <1>5
  <2>3. n \in 0..n /\ n \notin 0..m /\ 0..m \subseteq 0..n /\ 0..m \subseteq Nat /\ 0..n \subseteq Nat
    BY <2>2
  <2>4. <<0..m, 0..n>> \in StrictSubsetOrdering(Nat)
    BY <2>3 DEF StrictSubsetOrdering
  <2> QED BY <1>3, <1>4, <2>1, <2>4
<1> QED BY <1>5

\* The numbers up to one.
LEMMA NumbersUpTo == ASSUME NEW n \in Nat PROVE IsFiniteSet(1..n) /\ Cardinality(1..n) = n
BY FS_Interval

\* A set of numbers with a bound has a greatest one.
LEMMA GreatestOf ==
  ASSUME NEW B, NEW b \in Nat, B \subseteq 0..b, B # {} PROVE \E n \in B : \A m \in B : m <= n
<1> DEFINE C == {b - n : n \in B}
<1>1. C \subseteq Nat /\ C # {}
  <2>1. \A n \in B : b - n \in Nat
    OBVIOUS
  <2> QED BY <2>1
<1>2. PICK c \in C : \A d \in C : c <= d
  <2> HIDE DEF C
  <2> QED BY <1>1, LeastOf
<1>3. PICK n \in B : c = b - n
  BY <1>2
<1>4. ASSUME NEW m \in B PROVE m <= n
  <2>1. b - m \in C /\ m \in 0..b /\ n \in 0..b
    OBVIOUS
  <2>2. c <= b - m
    BY <1>2, <2>1
  <2> QED BY <1>3, <2>1, <2>2
<1> QED BY <1>4

\* Of two places the first has fewer places up to it.
LEMMA PlacesDiffer ==
  ASSUME NEW F, NEW b \in Nat, F \subseteq 1..b, NEW i \in F, NEW j \in F, i < j
  PROVE  /\ Cardinality(F \cap (1..i)) \in Nat /\ Cardinality(F \cap (1..j)) \in Nat
         /\ Cardinality(F \cap (1..i)) < Cardinality(F \cap (1..j))
<1> DEFINE I == F \cap (1..i)
           J == F \cap (1..j)
<1>1. i \in Nat \ {0} /\ j \in Nat \ {0}
  OBVIOUS
<1>2. I \in SUBSET J /\ j \in J /\ j \notin I
  BY <1>1
<1>3. IsFiniteSet(1..j) /\ J \in SUBSET (1..j)
  BY <1>1, NumbersUpTo
<1> HIDE DEF I, J
<1>4. IsFiniteSet(J)
  BY <1>3, FS_Subset
<1>5. IsFiniteSet(I) /\ Cardinality(I) <= Cardinality(J) /\ (Cardinality(J) = Cardinality(I) => J = I)
  BY <1>2, <1>4, FS_Subset
<1>6. Cardinality(I) \in Nat /\ Cardinality(J) \in Nat
  BY <1>4, <1>5, FS_CardinalityType
<1>7. Cardinality(I) < Cardinality(J)
  BY <1>2, <1>5, <1>6
<1> QED BY <1>6, <1>7 DEF I, J

\* Each place is the n-th of all for one n, and for each n there is one.
LEMMA PlacesAreCounted ==
  ASSUME NEW F, NEW b \in Nat, F \subseteq 1..b
  PROVE  /\ IsFiniteSet(F) /\ Cardinality(F) \in Nat
         /\ \A i \in F : Cardinality(F \cap (1..i)) \in 1..Cardinality(F)
         /\ \A i, j \in F : i # j => Cardinality(F \cap (1..i)) # Cardinality(F \cap (1..j))
         /\ \A n \in 1..Cardinality(F) : \E i \in F : Cardinality(F \cap (1..i)) = n
<1> DEFINE N == Cardinality(F)
           place == [i \in F |-> Cardinality(F \cap (1..i))]
<1>1. F \in SUBSET (1..b) /\ F \subseteq Nat
  OBVIOUS
<1>2. IsFiniteSet(F) /\ N \in Nat
  <2>1. IsFiniteSet(1..b)
    BY NumbersUpTo
  <2> QED BY <1>1, <2>1, FS_Subset, FS_CardinalityType
<1>3. IsFiniteSet(1..N) /\ Cardinality(1..N) = N
  BY <1>2, NumbersUpTo
<1>4. ASSUME NEW i \in F PROVE Cardinality(F \cap (1..i)) \in 1..N
  <2>1. F \cap (1..i) \in SUBSET F /\ i \in F \cap (1..i)
    BY <1>1
  <2>2. IsFiniteSet(F \cap (1..i)) /\ Cardinality(F \cap (1..i)) <= N
    BY <1>2, <2>1, FS_Subset
  <2>3. Cardinality(F \cap (1..i)) \in Nat /\ Cardinality(F \cap (1..i)) # 0
    BY <2>1, <2>2, FS_CardinalityType, FS_EmptySet
  <2> QED BY <1>2, <2>2, <2>3
<1>5. \A i, j \in F : i # j => Cardinality(F \cap (1..i)) # Cardinality(F \cap (1..j))
  <2>1. ASSUME NEW i \in F, NEW j \in F, i < j
        PROVE  Cardinality(F \cap (1..i)) # Cardinality(F \cap (1..j))
    <3>1. /\ Cardinality(F \cap (1..i)) \in Nat /\ Cardinality(F \cap (1..j)) \in Nat
          /\ Cardinality(F \cap (1..i)) < Cardinality(F \cap (1..j))
      BY <2>1, PlacesDiffer
    <3> QED BY <3>1
  <2> QED BY <1>1, <2>1
<1>6. place \in Injection(F, 1..N)
  <2>1. place \in [F -> 1..N] /\ \A i, j \in F : i # j => place[i] # place[j]
    BY <1>4, <1>5
  <2> HIDE DEF place
  <2> QED BY <2>1 DEF Injection, IsInjective
<1>7. place \in Surjection(F, 1..N)
  <2> HIDE DEF place, N
  <2>1. Cardinality(F) = Cardinality(1..N)
    BY <1>3 DEF N
  <2> QED BY <1>3, <1>6, <2>1, FS_Injection
<1>8. \A n \in 1..N : \E i \in F : place[i] = n
  <2> HIDE DEF place
  <2> QED BY <1>7 DEF Surjection
<1> QED BY <1>2, <1>4, <1>5, <1>8

-----------------------------------------------------------------------------
(* Lists *)

\* A list has the entries of another one at some places, each place once.
PickedFrom(out, seq, I) ==
  /\ \A x : x \in Listed(out) <=> \E i \in I : x = seq[i]
  /\ \A m, n \in 1..Len(out) : m # n => \E i, j \in I : i # j /\ out[m] = seq[i] /\ out[n] = seq[j]

\* What is picked from a list.
LEMMA PickedIs ==
  ASSUME NEW S, NEW seq \in Seq(S), NEW I, I \subseteq 1..Len(seq)
  PROVE  Picked(seq, I) \in Seq(S) /\ PickedFrom(Picked(seq, I), seq, I)
<1> DEFINE place(n) == CHOOSE i \in I : Cardinality(I \cap (1..i)) = n
           N == Cardinality(I)
           out == Picked(seq, I)
<1>1. Len(seq) \in Nat /\ \A i \in 1..Len(seq) : seq[i] \in S
  OBVIOUS
<1>2. /\ N \in Nat
      /\ \A i \in I : Cardinality(I \cap (1..i)) \in 1..N
      /\ \A i, j \in I : i # j => Cardinality(I \cap (1..i)) # Cardinality(I \cap (1..j))
      /\ \A n \in 1..N : \E i \in I : Cardinality(I \cap (1..i)) = n
  BY <1>1, PlacesAreCounted
<1>3. \A n \in 1..N : place(n) \in I /\ Cardinality(I \cap (1..place(n))) = n
  BY <1>2
<1>4. out = [n \in 1..N |-> seq[place(n)]]
  BY DEF Picked
<1> HIDE DEF place, N, out
<1>5. \A n \in 1..N : seq[place(n)] \in S
  BY <1>1, <1>3
<1>6. out \in Seq(S) /\ Len(out) = N /\ \A n \in 1..N : out[n] = seq[place(n)]
  BY <1>2, <1>4, <1>5
<1>7. ASSUME NEW i \in I PROVE \E n \in 1..N : out[n] = seq[i]
  <2>1. Cardinality(I \cap (1..i)) \in 1..N /\ place(Cardinality(I \cap (1..i))) = i
    BY <1>2, <1>3
  <2> QED BY <1>6, <2>1
<1>8. ASSUME NEW x PROVE x \in Listed(out) <=> \E i \in I : x = seq[i]
  <2>1. x \in Listed(out) <=> \E n \in 1..N : x = out[n]
    BY <1>6 DEF Listed
  <2>2. \A n \in 1..N : place(n) \in I /\ out[n] = seq[place(n)]
    BY <1>3, <1>6
  <2> QED BY <1>7, <2>1, <2>2
<1>9. ASSUME NEW m \in 1..N, NEW n \in 1..N, m # n
      PROVE  \E i, j \in I : i # j /\ out[m] = seq[i] /\ out[n] = seq[j]
  <2>1. place(m) \in I /\ place(n) \in I /\ place(m) # place(n)
    BY <1>3, <1>9
  <2> QED BY <1>6, <2>1
<1>10. PickedFrom(out, seq, I)
  BY <1>6, <1>8, <1>9 DEF PickedFrom
<1> QED BY <1>6, <1>10 DEF out

\* A list without repetitions.
Once(seq) == \A m, n \in 1..Len(seq) : m # n => seq[m] # seq[n]

\* A list without its repetitions has the same entries, each once.
LEMMA DistinctIs ==
  ASSUME NEW S, NEW seq \in Seq(S)
  PROVE  Distinct(seq) \in Seq(S) /\ Listed(Distinct(seq)) = Listed(seq) /\ Once(Distinct(seq))
<1> DEFINE I == {i \in 1..Len(seq) : \A j \in 1..(i - 1) : seq[j] # seq[i]}
<1>1. I \subseteq 1..Len(seq) /\ Len(seq) \in Nat /\ Distinct(seq) = Picked(seq, I)
  BY DEF Distinct
<1>2. \A i, j \in I : i # j => seq[i] # seq[j]
  <2>1. ASSUME NEW i \in I, NEW j \in I, i < j PROVE seq[i] # seq[j]
    <3>1. i \in 1..(j - 1)
      BY <1>1, <2>1
    <3> QED BY <3>1
  <2> QED BY <1>1, <2>1
<1>3. ASSUME NEW k \in 1..Len(seq) PROVE \E i \in I : seq[i] = seq[k]
  <2> DEFINE B == {j \in 1..Len(seq) : seq[j] = seq[k]}
  <2>1. B \subseteq Nat /\ k \in B
    BY <1>1
  <2>2. PICK i \in B : \A j \in B : i <= j
    <3> HIDE DEF B
    <3> QED BY <2>1, LeastOf
  <2>3. i \in I
    <3> SUFFICES ASSUME NEW j \in 1..(i - 1), seq[j] = seq[i] PROVE FALSE
      OBVIOUS
    <3>1. j \in B /\ i \in Nat /\ j \in Nat /\ j < i
      BY <1>1
    <3>2. i <= j
      BY <2>2, <3>1
    <3> QED BY <3>1, <3>2
  <2> QED BY <2>2, <2>3
<1> HIDE DEF I
<1>4. Picked(seq, I) \in Seq(S) /\ PickedFrom(Picked(seq, I), seq, I)
  BY <1>1, PickedIs
<1>5. Listed(Picked(seq, I)) = Listed(seq)
  <2>1. ASSUME NEW x PROVE x \in Listed(seq) <=> \E i \in I : x = seq[i]
    BY <1>1, <1>3 DEF Listed
  <2> QED BY <1>4, <2>1 DEF PickedFrom
<1>6. Once(Picked(seq, I))
  BY <1>2, <1>4 DEF Once, PickedFrom
<1> QED BY <1>1, <1>4, <1>5, <1>6

\* A list is empty when it lists nothing; listed once, it is as long as what it lists.
LEMMA ListedIs ==
  ASSUME NEW S, NEW seq \in Seq(S)
  PROVE  /\ Listed(seq) \subseteq S /\ (seq = <<>> <=> Listed(seq) = {})
         /\ Once(seq) => IsFiniteSet(Listed(seq)) /\ Len(seq) = Cardinality(Listed(seq))
<1>1. Len(seq) \in Nat /\ seq \in [1..Len(seq) -> S]
  OBVIOUS
<1>2. seq = <<>> <=> Len(seq) = 0
  OBVIOUS
<1>3. Listed(seq) = {} <=> Len(seq) = 0
  <2>1. Len(seq) # 0 => seq[1] \in Listed(seq)
    BY <1>1 DEF Listed
  <2>2. Len(seq) = 0 => Listed(seq) = {}
    BY DEF Listed
  <2> QED BY <2>1, <2>2
<1>4. ASSUME Once(seq) PROVE IsFiniteSet(Listed(seq)) /\ Len(seq) = Cardinality(Listed(seq))
  <2>1. seq \in Surjection(1..Len(seq), Listed(seq))
    BY <1>1 DEF Surjection, Listed
  <2>2. seq \in Injection(1..Len(seq), Listed(seq))
    BY <1>1, <1>4 DEF Once, Injection, IsInjective, Listed
  <2>3. IsFiniteSet(1..Len(seq)) /\ Cardinality(1..Len(seq)) = Len(seq)
    BY <1>1, NumbersUpTo
  <2>4. /\ IsFiniteSet(Listed(seq)) /\ Cardinality(Listed(seq)) <= Len(seq)
        /\ Cardinality(Listed(seq)) = Cardinality(1..Len(seq))
    BY <2>1, <2>2, <2>3, FS_Surjection
  <2> QED BY <2>3, <2>4
<1>5. Listed(seq) \subseteq S
  BY <1>1 DEF Listed
<1> QED BY <1>2, <1>3, <1>4, <1>5
=============================================================================
