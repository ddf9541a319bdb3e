---------------------------- MODULE CommonLemmas ----------------------------
(***************************************************************************)
(* Lemmas the proofs of several modules use: induction and recursion,      *)
(* which rest on a nonempty set of naturals having a least element, the    *)
(* operators of AscendingItems, operations on sequences, sums and products.*)
(***************************************************************************)
EXTENDS Integers, Sequences, FiniteSets, SequencesExt, SequenceTheorems, FiniteSetTheorems,
        FunctionTheorems, WellFoundedInduction, AscendingItems, TLAPS

(* The order of the naturals as a well-founded relation. *)
LEMMA NatOrder ==
  \E R : IsWellFoundedOn(R, Nat) /\ \A x, y \in Nat : <<x, y>> \in R <=> x < y
  <1>1. \A x, y \in Nat : <<x, y>> \in OpToRel(<, Nat) <=> x < y
    BY DEF OpToRel
  <1>2. QED BY <1>1, NatLessThanWellFounded, Zenon

(* Every nonempty set of naturals has a least element. *)
LEMMA NatMin ==
  ASSUME NEW T \in SUBSET Nat, T # {}
  PROVE  \E m \in T : \A n \in T : m <= n
  <1>1. PICK R : IsWellFoundedOn(R, Nat) /\ \A x, y \in Nat : <<x, y>> \in R <=> x < y
    BY NatOrder
  <1>2. IsWellFoundedOn(R, Nat) /\ T \subseteq Nat
    BY <1>1
  <1>3. \E m \in T : \A n \in T : ~ (<<n, m>> \in R)
    BY <1>2, WFMin, Zenon
  <1>4. \A x, y \in T : <<x, y>> \in R <=> x < y
    BY <1>1
  <1>5. PICK m \in T : \A n \in T : ~ (<<n, m>> \in R)
    BY <1>3
  <1>6. \A n \in T : ~ (n < m)
    BY <1>4, <1>5, Zenon
  <1>7. QED BY <1>2, <1>6

(* Induction: a set with 0 and the successor of each of its numbers is Nat. *)
LEMMA NatSet ==
  ASSUME NEW T \in SUBSET Nat, 0 \in T, \A n \in T : n + 1 \in T
  PROVE  T = Nat
  <1> SUFFICES ASSUME Nat \ T # {} PROVE FALSE
    OBVIOUS
  <1>1. PICK m \in Nat \ T : \A n \in Nat \ T : m <= n
    BY NatMin
  <1>2. m - 1 \in T
    BY <1>1
  <1>3. QED BY <1>1, <1>2

(* step computes the value of a recursive function at x from x and the     *)
(* function, of which it looks only at points with a smaller measure.      *)
IsRecursion(step, m, D, V) ==
  /\ m \in [D -> Nat]
  /\ step \in [D \X [D -> V] -> V]
  /\ \A x \in D : \A g, h \in [D -> V] :
       (\A y \in D : m[y] < m[x] => g[y] = h[y]) => step[<<x, g>>] = step[<<x, h>>]

(* f satisfies the recursive definition by step. *)
Solves(f, step, D, V) == f \in [D -> V] /\ \A x \in D : f[x] = step[<<x, f>>]

(* Such a definition has a solution: f[x] is what step gives for it. *)
LEMMA Recursion ==
  ASSUME NEW D, NEW V, NEW v0 \in V, NEW m, NEW step,
         IsRecursion(step, m, D, V)
  PROVE  \E f : Solves(f, step, D, V)
  <1> DEFINE Upto(k, g) == \A x \in D : m[x] < k => g[x] = step[<<x, g>>]
             T == {k \in Nat : \E g \in [D -> V] : Upto(k, g)}
  <1>a. m \in [D -> Nat] /\ step \in [D \X [D -> V] -> V]
    BY DEF IsRecursion
  <1>0. \A x \in D : \A g, h \in [D -> V] :
          (\A y \in D : m[y] < m[x] => g[y] = h[y]) => step[<<x, g>>] = step[<<x, h>>]
    BY DEF IsRecursion
  <1>1. T = Nat
    <2>1. 0 \in T
      <3>1. [x \in D |-> v0] \in [D -> V]
        BY <1>a
      <3>2. \A x \in D : m[x] \in Nat
        BY <1>a
      <3>3. Upto(0, [x \in D |-> v0])
        BY <1>a, <3>2
      <3>4. QED BY <1>a, <3>1, <3>3
    <2>2. ASSUME NEW k \in T PROVE k + 1 \in T
      <3>1. PICK g \in [D -> V] : Upto(k, g)
        BY <1>a
      <3> DEFINE h == [x \in D |-> step[<<x, g>>]]
      <3>2. h \in [D -> V]
        BY <1>a
      <3>3. ASSUME NEW x \in D, m[x] < k + 1
            PROVE  h[x] = step[<<x, h>>]
        <4>1. \A y \in D : m[y] < m[x] => g[y] = h[y]
          <5>1. \A y \in D : m[y] < m[x] => m[y] < k
            BY <1>a, <3>3
          <5>2. \A y \in D : h[y] = step[<<y, g>>]
            BY <1>a
          <5>3. QED BY <1>a, <3>1, <5>1, <5>2
        <4> HIDE DEF h
        <4>2. step[<<x, g>>] = step[<<x, h>>]
          BY <1>a, <1>0, <3>2, <4>1
        <4>3. QED BY <1>a, <4>2 DEF h
      <3>4. k + 1 \in Nat
        BY <1>a
      <3> HIDE DEF h
      <3>5. Upto(k + 1, h)
        BY <1>a, <3>3
      <3>6. QED BY <1>a, <3>2, <3>4, <3>5
    <2>3. T \in SUBSET Nat
      BY <1>a
    <2> HIDE DEF T
    <2>4. QED BY <1>a, <2>1, <2>2, <2>3, NatSet
  <1> DEFINE G(k) == CHOOSE g \in [D -> V] : Upto(k, g)
  <1>2. ASSUME NEW k \in Nat PROVE G(k) \in [D -> V] /\ Upto(k, G(k))
    <2>1. k \in T
      BY <1>a, <1>1
    <2>2. \E g \in [D -> V] : Upto(k, g)
      BY <1>a, <2>1
    <2> HIDE DEF Upto
    <2>3. QED BY <1>a, <2>2
  <1> HIDE DEF G, T
  (* Two such functions agree where both are right. *)
  <1>3. ASSUME NEW j \in Nat, NEW k \in Nat, j <= k, NEW x \in D, m[x] < j
        PROVE  G(j)[x] = G(k)[x]
    <2> DEFINE B == {m[y] : y \in {z \in D : m[z] < j /\ G(j)[z] # G(k)[z]}}
    <2>1. SUFFICES ASSUME B # {} PROVE FALSE
      BY <1>a, <1>3
    <2>2. B \in SUBSET Nat
      BY <1>a
    <2>3. PICK b \in B : \A c \in B : b <= c
      <3> HIDE DEF B
      <3> QED BY <1>a, <2>1, <2>2, NatMin
    <2>4. PICK y \in D : m[y] = b /\ m[y] < j /\ G(j)[y] # G(k)[y]
      BY <1>a, <2>3
    <2>5. \A z \in D : m[z] < m[y] => G(j)[z] = G(k)[z]
      <3>1. ASSUME NEW z \in D, m[z] < m[y], G(j)[z] # G(k)[z] PROVE FALSE
        <4>1. m[z] < j
          BY <1>a, <2>4, <3>1
        <4>2. m[z] \in B
          BY <1>a, <3>1, <4>1
        <4>3. b <= m[z]
          BY <1>a, <2>3, <4>2
        <4>4. QED BY <1>a, <2>4, <3>1, <4>3
      <3>2. QED BY <1>a, <3>1
    <2>6. step[<<y, G(j)>>] = step[<<y, G(k)>>]
      BY <1>a, <1>0, <1>2, <2>5
    <2>7. m[y] < k
      BY <1>a, <1>3, <2>4
    <2>8. QED BY <1>a, <1>2, <2>4, <2>6, <2>7
  <1> DEFINE f == [x \in D |-> G(m[x] + 1)[x]]
  <1>4. f \in [D -> V]
    BY <1>a, <1>2
  <1>5. ASSUME NEW x \in D PROVE f[x] = step[<<x, f>>]
    <2> DEFINE k == m[x] + 1
    <2>1. k \in Nat /\ m[x] < k
      BY <1>a
    <2>2. \A y \in D : m[y] < m[x] => G(k)[y] = f[y]
      <3>1. ASSUME NEW y \in D, m[y] < m[x] PROVE G(k)[y] = f[y]
        <4>1. m[y] + 1 \in Nat /\ m[y] + 1 <= k /\ m[y] < m[y] + 1
          BY <1>a, <3>1
        <4> HIDE DEF k
        <4>2. G(m[y] + 1)[y] = G(k)[y]
          BY <1>a, <1>3, <2>1, <4>1
        <4>3. QED BY <1>a, <4>2
      <3>2. QED BY <1>a, <3>1
    <2> HIDE DEF k
    <2>3. G(k)[x] = step[<<x, G(k)>>]
      BY <1>a, <1>2, <2>1
    <2>4. step[<<x, G(k)>>] = step[<<x, f>>]
      <3> HIDE DEF f
      <3> QED BY <1>a, <1>0, <1>2, <1>4, <2>1, <2>2
    <2>5. f[x] = G(k)[x]
      BY DEF k
    <2>6. QED BY <1>a, <2>3, <2>4, <2>5
  <1> HIDE DEF f
  <1>6. QED BY <1>a, <1>4, <1>5 DEF Solves

(* Counting the elements up to one numbers them from 1 on.                  *)
LEMMA RankProperties ==
  ASSUME NEW S \in SUBSET Nat, IsFiniteSet(S)
  PROVE  LET rank(x) == Cardinality({y \in S : y <= x}) IN
         /\ Cardinality(S) \in Nat
         /\ \A x \in S : rank(x) \in 1 .. Cardinality(S)
         /\ \A x, y \in S : x < y => rank(x) < rank(y)
         /\ \A x, y \in S : rank(x) = rank(y) => x = y
         /\ \A i \in 1 .. Cardinality(S) : \E x \in S : rank(x) = i
  <1> DEFINE n == Cardinality(S)
             Below(x) == {y \in S : y <= x}
             rank == [x \in S |-> Cardinality(Below(x))]
  <1>0. \A x \in S : x \in Nat
    OBVIOUS
  <1>1. n \in Nat /\ IsFiniteSet(1 .. n) /\ Cardinality(1 .. n) = n
    BY FS_CardinalityType, FS_Interval
  <1>2. \A x \in S : IsFiniteSet(Below(x)) /\ Cardinality(Below(x)) \in Nat
                     /\ Cardinality(Below(x)) <= n
    <2> TAKE x \in S
    <2>1. Below(x) \in SUBSET S
      OBVIOUS
    <2> HIDE DEF Below
    <2>2. QED BY <2>1, FS_Subset, FS_CardinalityType
  <1>3. ASSUME NEW x \in S PROVE rank[x] \in 1 .. n
    <2>1. Below(x) # {}
      OBVIOUS
    <2> HIDE DEF Below
    <2>2. Cardinality(Below(x)) # 0
      BY <1>2, <2>1, FS_EmptySet
    <2>3. QED BY <1>1, <1>2, <2>2
  <1>4. ASSUME NEW x \in S, NEW y \in S, x < y PROVE rank[x] < rank[y]
    <2>1. Below(x) \in SUBSET Below(y) /\ y \in Below(y) /\ y \notin Below(x)
      <3>1. \A z \in S : z <= x => z <= y
        BY <1>0, <1>4
      <3>2. ~ (y <= x)
        BY <1>0, <1>4
      <3>3. y <= y
        BY <1>0
      <3>4. QED BY <3>1, <3>2, <3>3
    <2> HIDE DEF Below
    <2>2. Cardinality(Below(x)) <= Cardinality(Below(y))
              /\ Cardinality(Below(x)) # Cardinality(Below(y))
      BY <1>2, <2>1, FS_Subset
    <2>3. QED BY <1>2, <2>2
  <1>5. \A x, y \in S : rank[x] = rank[y] => x = y
    <2>1. \A x \in S : rank[x] \in Nat /\ x \in Nat
      BY <1>3
    <2> HIDE DEF rank
    <2>2. QED BY <1>4, <2>1
  <1>6. \A i \in 1 .. n : \E x \in S : rank[x] = i
    <2>1. rank \in Injection(S, 1 .. n)
      <3>1. rank \in [S -> 1 .. n]
        BY <1>3
      <3> HIDE DEF rank
      <3>2. QED BY <3>1, <1>5 DEF Injection, IsInjective
    <2> HIDE DEF rank
    <2>2. rank \in Surjection(S, 1 .. n)
      BY <1>1, <2>1, FS_Injection
    <2>3. QED BY <2>2 DEF Surjection
  <1>7. QED BY <1>1, <1>3, <1>4, <1>5, <1>6

(* The i-th smallest elements are those of the set, in ascending order. *)
LEMMA SmallestProperties ==
  ASSUME NEW S \in SUBSET Nat, IsFiniteSet(S)
  PROVE  /\ Cardinality(S) \in Nat
         /\ \A i \in 1 .. Cardinality(S) : Smallest(i, S) \in S
         /\ \A i, j \in 1 .. Cardinality(S) : i < j => Smallest(i, S) < Smallest(j, S)
         /\ \A x \in S : \E i \in 1 .. Cardinality(S) : Smallest(i, S) = x
  <1> DEFINE n == Cardinality(S)
             Below(x) == {y \in S : y <= x}
             rank == [x \in S |-> Cardinality(Below(x))]
  <1>1. n \in Nat
    BY RankProperties
  <1>3. \A x \in S : rank[x] \in 1 .. n
    BY RankProperties
  <1>4. \A x, y \in S : x < y => rank[x] < rank[y]
    BY RankProperties
  <1>5. \A x, y \in S : rank[x] = rank[y] => x = y
    BY RankProperties
  <1>6. \A i \in 1 .. n : \E x \in S : rank[x] = i
    BY RankProperties
  <1>7. ASSUME NEW i \in 1 .. n PROVE Smallest(i, S) \in S /\ rank[Smallest(i, S)] = i
    <2>1. \E x \in S : Cardinality(Below(x)) = i
      BY <1>6
    <2>2. Smallest(i, S) = CHOOSE x \in S : Cardinality(Below(x)) = i
      BY DEF Smallest
    <2> HIDE DEF Below
    <2>3. QED BY <2>1, <2>2
  <1> HIDE DEF rank
  <1>8. ASSUME NEW i \in 1 .. n, NEW j \in 1 .. n, i < j
        PROVE  Smallest(i, S) < Smallest(j, S)
    <2>1. /\ Smallest(i, S) \in Nat /\ Smallest(j, S) \in Nat
          /\ Smallest(i, S) \in S /\ Smallest(j, S) \in S
          /\ rank[Smallest(i, S)] = i /\ rank[Smallest(j, S)] = j
      BY <1>7
    <2>2. ~ (Smallest(j, S) < Smallest(i, S)) /\ Smallest(i, S) # Smallest(j, S)
      BY <1>1, <1>4, <1>8, <2>1
    <2>3. QED BY <2>1, <2>2
  <1>9. ASSUME NEW x \in S PROVE \E i \in 1 .. n : Smallest(i, S) = x
    <2>1. rank[x] \in 1 .. n
      BY <1>3
    <2>2. Smallest(rank[x], S) = x
      BY <1>5, <1>7, <2>1
    <2>3. QED BY <2>1, <2>2
  <1>10. QED BY <1>1, <1>7, <1>8, <1>9

(* Ascending lists the elements of a set, each once. *)
LEMMA AscendingProperties ==
  ASSUME NEW S \in SUBSET Nat, IsFiniteSet(S)
  PROVE  /\ Ascending(S) \in Seq(S)
         /\ Len(Ascending(S)) = Cardinality(S)
         /\ Cardinality(S) \in Nat
         /\ DOMAIN Ascending(S) = 1 .. Cardinality(S)
         /\ ToSet(Ascending(S)) = S
         /\ \A i, j \in 1 .. Cardinality(S) : Ascending(S)[i] = Ascending(S)[j] => i = j
  <1>1. /\ Cardinality(S) \in Nat
        /\ \A i \in 1 .. Cardinality(S) : Smallest(i, S) \in S
        /\ \A i, j \in 1 .. Cardinality(S) : i < j => Smallest(i, S) < Smallest(j, S)
        /\ \A x \in S : \E i \in 1 .. Cardinality(S) : Smallest(i, S) = x
    BY SmallestProperties
  <1>2. \A i \in 1 .. Cardinality(S) : Ascending(S)[i] = Smallest(i, S)
    BY DEF Ascending
  <1>3. Ascending(S) \in [1 .. Cardinality(S) -> S]
    BY <1>1 DEF Ascending
  <1>4. Ascending(S) \in Seq(S) /\ Len(Ascending(S)) = Cardinality(S)
    BY <1>1, <1>3
  <1>5. ToSet(Ascending(S)) = S
    BY <1>1, <1>2, <1>3 DEF ToSet
  <1>6. \A i, j \in 1 .. Cardinality(S) : Ascending(S)[i] = Ascending(S)[j] => i = j
    <2>0. \A x \in S : x \in Nat
      OBVIOUS
    <2>1. ASSUME NEW i \in 1 .. Cardinality(S)
          PROVE  Smallest(i, S) \in Nat /\ i \in Nat
      <3>1. Smallest(i, S) \in S
        BY <1>1
      <3>2. Smallest(i, S) \in Nat
        BY <2>0, <3>1
      <3>3. i \in Nat
        BY <1>1
      <3>4. QED BY <3>2, <3>3
    <2>2. QED BY <1>1, <1>2, <2>1
  <1>7. QED BY <1>1, <1>3, <1>4, <1>5, <1>6

(* A new greatest element is the last. *)
LEMMA SmallestOfMore ==
  ASSUME NEW S \in SUBSET Nat, IsFiniteSet(S), NEW k \in Nat, \A y \in S : y < k
  PROVE  /\ Cardinality(S) \in Nat /\ Cardinality(S \cup {k}) = Cardinality(S) + 1
         /\ \A i \in 1 .. Cardinality(S) : Smallest(i, S \cup {k}) = Smallest(i, S)
         /\ Smallest(Cardinality(S) + 1, S \cup {k}) = k
  <1> DEFINE T == S \cup {k}
  <1>1. /\ T \in SUBSET Nat /\ IsFiniteSet(T) /\ Cardinality(S) \in Nat
        /\ Cardinality(T) = Cardinality(S) + 1
    <2>1. k \notin S
      OBVIOUS
    <2>2. QED BY <2>1, FS_AddElement, FS_CardinalityType
  <1>2. ASSUME NEW x \in T PROVE Smallest(Cardinality({y \in T : y <= x}), T) = x
    <2> DEFINE i == Cardinality({y \in T : y <= x})
    <2>1. \A y \in T : Cardinality({z \in T : z <= y}) = i => y = x
      BY <1>1, RankProperties
    <2>2. Smallest(i, T) = CHOOSE y \in T : Cardinality({z \in T : z <= y}) = i
      BY DEF Smallest
    <2> HIDE DEF T
    <2> QED BY <2>1, <2>2
  <1>3. ASSUME NEW i \in 1 .. Cardinality(S) PROVE Smallest(i, T) = Smallest(i, S)
    <2>1. \E x \in S : Cardinality({y \in S : y <= x}) = i
      BY <1>3, RankProperties
    <2>2. Smallest(i, S) \in S /\ Cardinality({y \in S : y <= Smallest(i, S)}) = i
      BY <2>1 DEF Smallest
    <2>3. {y \in T : y <= Smallest(i, S)} = {y \in S : y <= Smallest(i, S)}
      <3>1. Smallest(i, S) < k /\ Smallest(i, S) \in Nat
        BY <2>2
      <3>2. ~ (k <= Smallest(i, S))
        BY <3>1
      <3> QED BY <3>2
    <2> HIDE DEF T
    <2>4. Smallest(i, S) \in T
      BY <2>2 DEF T
    <2> QED BY <1>2, <2>2, <2>3, <2>4
  <1>4. Smallest(Cardinality(S) + 1, T) = k
    <2>1. {y \in T : y <= k} = T
      <3>1. \A y \in T : y <= k
        OBVIOUS
      <3> HIDE DEF T
      <3> QED BY <3>1
    <2>2. k \in T
      OBVIOUS
    <2> HIDE DEF T
    <2> QED BY <1>1, <1>2, <2>1, <2>2
  <1> QED BY <1>1, <1>3, <1>4

(* The items are those at the smallest positions, one after the other. *)
LEMMA ItemsInOrder ==
  ASSUME NEW E, NEW s \in Seq(E), NEW I \in SUBSET DOMAIN s
  PROVE  Items(s, I) = [i \in 1 .. Cardinality(I) |-> s[Smallest(i, I)]]
  <1> DEFINE n == Len(s)
             form(J) == [i \in 1 .. Cardinality(J) |-> s[Smallest(i, J)]]
             before(k) == {i \in I : i <= k}
             step(f, k) == IF k = 0 THEN <<>>
                           ELSE IF k \in I THEN Append(f[k - 1], s[k])
                           ELSE f[k - 1]
             solves(f) == f = [k \in 0 .. n |-> step(f, k)]
             g == [k \in 0 .. n |-> form(before(k))]
  <1>1. n \in Nat /\ DOMAIN s = 1 .. n /\ \A i \in I : i \in Nat /\ i >= 1 /\ i <= n /\ s[i] \in E
    BY LenProperties, ElementOfSeq
  <1>2. IsFiniteSet(I) /\ I \in SUBSET Nat
    <2>1. IsFiniteSet(1 .. n) /\ I \in SUBSET (1 .. n)
      BY <1>1, FS_Interval
    <2> QED BY <1>1, <2>1, FS_Subset
  <1>3. ASSUME NEW k \in 0 .. n
        PROVE  IsFiniteSet(before(k)) /\ before(k) \in SUBSET Nat
    <2>1. before(k) \in SUBSET I
      OBVIOUS
    <2> HIDE DEF before
    <2> QED BY <1>2, <2>1, FS_Subset
  <1>4. ASSUME NEW k \in 0 .. n
        PROVE  g[k] = form(before(k)) /\ g[k] \in Seq(E) /\ Len(g[k]) = Cardinality(before(k))
    <2>1. /\ Cardinality(before(k)) \in Nat
          /\ \A i \in 1 .. Cardinality(before(k)) : Smallest(i, before(k)) \in before(k)
      <3> HIDE DEF before
      <3> QED BY <1>3, SmallestProperties
    <2>2. \A i \in 1 .. Cardinality(before(k)) : s[Smallest(i, before(k))] \in E
      BY <1>1, <2>1
    <2>3. g[k] = form(before(k))
      OBVIOUS
    <2> HIDE DEF before, g
    <2>4. g[k] \in [1 .. Cardinality(before(k)) -> E]
      BY <2>2, <2>3
    <2> QED BY <2>1, <2>3, <2>4
  <1>5. ASSUME NEW k \in 0 .. n PROVE g[k] = step(g, k)
    <2>1. CASE k = 0
      <3>1. before(k) = {}
        BY <1>1, <2>1
      <3>2. Cardinality(before(k)) = 0
        BY <3>1, FS_EmptySet
      <3> HIDE DEF before, g
      <3>3. g[k] \in Seq(E) /\ Len(g[k]) = 0
        BY <1>4, <3>2
      <3>4. g[k] = <<>>
        BY <3>3, EmptySeq
      <3> QED BY <2>1, <3>4
    <2>2. CASE k # 0 /\ k \notin I
      <3>1. before(k) = before(k - 1) /\ k - 1 \in 0 .. n
        BY <1>1, <2>2
      <3> HIDE DEF before, g
      <3>2. g[k] = form(before(k)) /\ g[k - 1] = form(before(k - 1))
        BY <1>4, <3>1
      <3> QED BY <2>2, <3>1, <3>2
    <2>3. CASE k # 0 /\ k \in I
      <3> DEFINE J == before(k - 1)
      <3>1. before(k) = J \cup {k} /\ k - 1 \in 0 .. n /\ \A y \in J : y < k
        BY <1>1, <2>3
      <3>2. IsFiniteSet(J) /\ J \in SUBSET Nat /\ k \in Nat
        BY <1>3, <3>1
      <3>a. \A y \in J : y < k
        BY <3>1
      <3> HIDE DEF before, g, J
      <3>3. /\ Cardinality(J) \in Nat /\ Cardinality(before(k)) = Cardinality(J) + 1
            /\ \A i \in 1 .. Cardinality(J) : Smallest(i, before(k)) = Smallest(i, J)
            /\ Smallest(Cardinality(J) + 1, before(k)) = k
        <4>1. before(k) = J \cup {k}
          BY <3>1
        <4>2. /\ Cardinality(J) \in Nat /\ Cardinality(J \cup {k}) = Cardinality(J) + 1
              /\ \A i \in 1 .. Cardinality(J) : Smallest(i, J \cup {k}) = Smallest(i, J)
              /\ Smallest(Cardinality(J) + 1, J \cup {k}) = k
          BY <3>2, <3>a, SmallestOfMore
        <4> QED BY <4>1, <4>2
      <3>4. /\ g[k] = form(before(k))
            /\ g[k - 1] = form(J) /\ g[k - 1] \in Seq(E) /\ Len(g[k - 1]) = Cardinality(J)
        BY <1>4, <3>1 DEF J
      <3>5. s[k] \in E
        BY <1>1, <2>3
      <3>6. /\ DOMAIN Append(g[k - 1], s[k]) = 1 .. Cardinality(J) + 1
            /\ \A i \in 1 .. Cardinality(J) : Append(g[k - 1], s[k])[i] = g[k - 1][i]
            /\ Append(g[k - 1], s[k])[Cardinality(J) + 1] = s[k]
            /\ Append(g[k - 1], s[k]) \in Seq(E)
        BY <3>3, <3>4, <3>5
      <3>7. \A i \in 1 .. Cardinality(J) + 1 : Append(g[k - 1], s[k])[i] = g[k][i]
        <4> TAKE i \in 1 .. Cardinality(J) + 1
        <4>0. g[k][i] = s[Smallest(i, before(k))]
          BY <3>3, <3>4
        <4>1. CASE i = Cardinality(J) + 1
          BY <3>3, <3>6, <4>0, <4>1
        <4>2. CASE i \in 1 .. Cardinality(J)
          <5>1. g[k - 1][i] = s[Smallest(i, J)]
            BY <3>4, <4>2
          <5>2. Smallest(i, before(k)) = Smallest(i, J)
            BY <3>3, <4>2
          <5> QED BY <3>6, <4>0, <4>2, <5>1, <5>2
        <4>3. i = Cardinality(J) + 1 \/ i \in 1 .. Cardinality(J)
          BY <3>3
        <4> QED BY <4>1, <4>2, <4>3, Zenon
      <3>8. g[k] = [i \in 1 .. Cardinality(J) + 1 |-> g[k][i]]
        BY <3>3, <3>4
      <3>9. Append(g[k - 1], s[k]) = [i \in 1 .. Cardinality(J) + 1 |-> Append(g[k - 1], s[k])[i]]
        BY <3>3, <3>6, LenProperties
      <3>10. Append(g[k - 1], s[k]) = g[k]
        BY <3>7, <3>8, <3>9
      <3> QED BY <2>3, <3>10
    <2> QED BY <2>1, <2>2, <2>3
  <1>6. solves(g)
    <2>1. g = [k \in 0 .. n |-> g[k]]
      OBVIOUS
    <2> HIDE DEF g, step
    <2> QED BY <1>5, <2>1
  <1>7. ASSUME NEW f, solves(f) PROVE f[n] = g[n]
    <2> DEFINE T == {k \in Nat : k \in 0 .. n => f[k] = g[k]}
    <2>1. \A k \in 0 .. n : f[k] = step(f, k)
      <3> HIDE DEF step
      <3> QED BY <1>7
    <2> HIDE DEF g
    <2>2. 0 \in T
      BY <1>1, <1>5, <2>1
    <2>3. \A k \in T : k + 1 \in T
      <3> TAKE k \in T
      <3>1. SUFFICES ASSUME k + 1 \in 0 .. n PROVE f[k + 1] = g[k + 1]
        OBVIOUS
      <3>2. k \in 0 .. n /\ k + 1 - 1 = k /\ k + 1 # 0
        BY <1>1, <3>1
      <3>3. f[k] = g[k]
        BY <3>2
      <3>4. f[k + 1] = step(f, k + 1) /\ g[k + 1] = step(g, k + 1)
        BY <1>5, <2>1, <3>1
      <3> QED BY <3>2, <3>3, <3>4
    <2>4. T \in SUBSET Nat
      OBVIOUS
    <2> HIDE DEF T
    <2>5. T = Nat
      BY <2>2, <2>3, <2>4, NatSet
    <2>6. n \in T
      BY <1>1, <2>5
    <2> QED BY <1>1, <2>6 DEF T
  <1>8. Items(s, I) = (CHOOSE f : solves(f))[n]
    BY DEF Items
  <1>9. before(n) = I
    BY <1>1
  <1>10. solves(CHOOSE f : solves(f))
    <2> HIDE DEF g, solves
    <2> QED BY <1>6
  <1>11. Items(s, I) = g[n]
    <2> HIDE DEF g, solves
    <2> QED BY <1>7, <1>8, <1>10
  <1>12. g[n] = form(I)
    <2>1. n \in 0 .. n
      BY <1>1
    <2> HIDE DEF g, before
    <2> QED BY <1>4, <1>9, <2>1
  <1> QED BY <1>11, <1>12

(* The positions in I of an item of a sequence. *)
Occurrences(x, s, I) == {i \in I : s[i] = x}

(* Items lists the items at the positions in I, each as often as it is at   *)
(* such a position.                                                        *)
LEMMA ItemsProperties ==
  ASSUME NEW E, NEW s \in Seq(E), NEW I \in SUBSET DOMAIN s
  PROVE  /\ IsFiniteSet(I)
         /\ Items(s, I) \in Seq(E)
         /\ Items(s, I) \in Seq({s[i] : i \in I})
         /\ Len(Items(s, I)) = Cardinality(I)
         /\ ToSet(Items(s, I)) = {s[i] : i \in I}
         /\ \A x : Cardinality(Occurrences(x, Items(s, I), DOMAIN Items(s, I)))
                     = Cardinality(Occurrences(x, s, I))
  <1>1. DOMAIN s = 1 .. Len(s) /\ Len(s) \in Nat /\ \A i \in DOMAIN s : s[i] \in E
    BY LenProperties
  <1>2. I \in SUBSET Nat /\ IsFiniteSet(I)
    <2>1. IsFiniteSet(1 .. Len(s)) /\ I \in SUBSET (1 .. Len(s))
      BY <1>1, FS_Interval
    <2>2. QED BY <2>1, FS_Subset
  <1>3. /\ Cardinality(I) \in Nat
        /\ \A i \in 1 .. Cardinality(I) : Smallest(i, I) \in I
        /\ \A i, j \in 1 .. Cardinality(I) : i < j => Smallest(i, I) < Smallest(j, I)
        /\ \A x \in I : \E i \in 1 .. Cardinality(I) : Smallest(i, I) = x
    BY <1>2, SmallestProperties
  <1>0. Items(s, I) = [i \in 1 .. Cardinality(I) |-> s[Smallest(i, I)]]
    BY ItemsInOrder
  <1>4. /\ DOMAIN Items(s, I) = 1 .. Cardinality(I)
        /\ \A i \in 1 .. Cardinality(I) : Items(s, I)[i] = s[Smallest(i, I)]
    BY <1>0
  <1>5. Items(s, I) \in [1 .. Cardinality(I) -> {s[i] : i \in I}]
    BY <1>0, <1>3
  <1>6. /\ Items(s, I) \in Seq({s[i] : i \in I})
        /\ Len(Items(s, I)) = Cardinality(I)
    BY <1>3, <1>5
  <1>7. {s[i] : i \in I} \subseteq E
    BY <1>1
  <1>8. Items(s, I) \in Seq(E)
    BY <1>6, <1>7, SeqMonotonic
  <1>9. ToSet(Items(s, I)) = {s[i] : i \in I}
    BY <1>3, <1>4 DEF ToSet
  <1>10. ASSUME NEW x
         PROVE  Cardinality(Occurrences(x, Items(s, I), DOMAIN Items(s, I)))
                  = Cardinality(Occurrences(x, s, I))
    <2> DEFINE A == {i \in DOMAIN Items(s, I) : Items(s, I)[i] = x}
               B == {i \in I : s[i] = x}
               at == [i \in A |-> Smallest(i, I)]
    <2>1. at \in [A -> B]
      BY <1>3, <1>4
    <2>2. \A i, j \in A : at[i] = at[j] => i = j
      <3>1. \A i \in A : i \in 1 .. Cardinality(I) /\ Smallest(i, I) \in Nat
        BY <1>2, <1>3, <1>4
      <3>2. QED BY <1>3, <3>1
    <2>3. \A b \in B : \E i \in A : at[i] = b
      BY <1>3, <1>4
    <2>4. IsFiniteSet(B)
      BY <1>2, FS_Subset
    <2> HIDE DEF at, A, B
    <2>5. at \in Bijection(A, B)
      BY <2>1, <2>2, <2>3 DEF Bijection, Injection, Surjection, IsInjective
    <2>6. ExistsBijection(A, B)
      BY <2>5 DEF ExistsBijection
    <2>7. Cardinality(A) = Cardinality(B)
      BY <2>4, <2>6, FS_Bijection, Fun_ExistsBijSymmetric
    <2>8. QED BY <2>7 DEF A, B, Occurrences
  <1>11. QED BY <1>2, <1>6, <1>8, <1>9, <1>10

(* Recursion from i to i - 1. *)
IsChain(g, n, V, v0, op) ==
  /\ g \in [0 .. n -> V]
  /\ g[0] = v0
  /\ \A i \in 1 .. n : g[i] = op[<<i, g[i - 1]>>]

LEMMA ChainRecursion ==
  ASSUME NEW n \in Nat, NEW V, NEW v0 \in V, NEW op \in [(1 .. n) \X V -> V]
  PROVE  \E g : IsChain(g, n, V, v0, op)
  <1> DEFINE D == 0 .. n
             m == [i \in D |-> i]
             step == [p \in D \X [D -> V] |->
                        IF p[1] = 0 THEN v0 ELSE op[<<p[1], p[2][p[1] - 1]>>]]
  <1>1. m \in [D -> Nat]
    OBVIOUS
  <1>2. step \in [D \X [D -> V] -> V]
    <2>1. ASSUME NEW i \in D, NEW g \in [D -> V], i # 0
          PROVE  op[<<i, g[i - 1]>>] \in V
      <3>1. i \in 1 .. n /\ i - 1 \in D
        BY <2>1
      <3>2. g[i - 1] \in V
        BY <3>1
      <3>3. QED BY <3>1, <3>2
    <2>2. QED BY <2>1
  <1>3. ASSUME NEW x \in D, NEW g \in [D -> V], NEW h \in [D -> V],
               \A y \in D : m[y] < m[x] => g[y] = h[y]
        PROVE  step[<<x, g>>] = step[<<x, h>>]
    <2>1. CASE x = 0
      BY <2>1
    <2>2. CASE x # 0
      <3>1. x - 1 \in D /\ m[x - 1] < m[x]
        BY <2>2
      <3>2. g[x - 1] = h[x - 1]
        BY <1>3, <3>1
      <3>3. QED BY <3>2
    <2>3. QED BY <2>1, <2>2
  <1>4. \A g \in [D -> V], i \in D :
          step[<<i, g>>] = IF i = 0 THEN v0 ELSE op[<<i, g[i - 1]>>]
    OBVIOUS
  <1> HIDE DEF D, m, step
  <1>5. PICK g : Solves(g, step, D, V)
    <2>1. IsRecursion(step, m, D, V)
      BY <1>1, <1>2, <1>3 DEF IsRecursion
    <2>2. QED BY <2>1, Recursion
  <1>6. g \in [D -> V] /\ \A i \in D : g[i] = IF i = 0 THEN v0 ELSE op[<<i, g[i - 1]>>]
    BY <1>4, <1>5 DEF Solves
  <1>7. 0 \in D /\ \A i \in 1 .. n : i \in D /\ i # 0
    BY DEF D
  <1>8. IsChain(g, n, V, v0, op)
    BY <1>6, <1>7 DEF D, IsChain
  <1>9. QED BY <1>8

(* Recursion over subsets that takes one element out at a time, as FoldSet. *)
IsSetFold(g, S, V, v0, op, pick) ==
  /\ g \in [SUBSET S -> V]
  /\ g[{}] = v0
  /\ \A s \in (SUBSET S) \ {{}} : g[s] = op[<<pick[s], g[s \ {pick[s]}]>>]

LEMMA SetRecursion ==
  ASSUME NEW S, IsFiniteSet(S), NEW V, NEW v0 \in V, NEW op \in [S \X V -> V],
         NEW pick \in [(SUBSET S) \ {{}} -> S], \A s \in (SUBSET S) \ {{}} : pick[s] \in s
  PROVE  \E g : IsSetFold(g, S, V, v0, op, pick)
  <1> DEFINE D == SUBSET S
             m == [s \in D |-> Cardinality(s)]
             step == [p \in D \X [D -> V] |->
                        IF p[1] = {} THEN v0
                        ELSE op[<<pick[p[1]], p[2][p[1] \ {pick[p[1]]}]>>]]
  <1>1. m \in [D -> Nat]
    BY FS_Subset, FS_CardinalityType
  <1>2. step \in [D \X [D -> V] -> V]
    <2>1. ASSUME NEW s \in D, NEW g \in [D -> V], s # {}
          PROVE  op[<<pick[s], g[s \ {pick[s]}]>>] \in V
      <3>1. pick[s] \in S /\ s \ {pick[s]} \in D
        BY <2>1
      <3>2. g[s \ {pick[s]}] \in V
        BY <3>1
      <3>3. QED BY <3>1, <3>2
    <2>2. QED BY <2>1
  <1>3. ASSUME NEW x \in D, NEW g \in [D -> V], NEW h \in [D -> V],
               \A y \in D : m[y] < m[x] => g[y] = h[y]
        PROVE  step[<<x, g>>] = step[<<x, h>>]
    <2>1. CASE x = {}
      BY <2>1
    <2>2. CASE x # {}
      <3> DEFINE y == x \ {pick[x]}
      <3>1. y \in D /\ pick[x] \in x /\ IsFiniteSet(x)
        BY <2>2, FS_Subset
      <3>2. Cardinality(y) = Cardinality(x) - 1 /\ Cardinality(x) \in Nat
        BY <3>1, FS_RemoveElement, FS_CardinalityType
      <3> HIDE DEF y
      <3>3. m[y] < m[x]
        BY <3>1, <3>2
      <3>4. g[y] = h[y]
        BY <1>3, <3>1, <3>3
      <3>5. QED BY <3>4 DEF y
    <2>3. QED BY <2>1, <2>2
  <1>4. \A g \in [D -> V], s \in D :
          step[<<s, g>>] = IF s = {} THEN v0 ELSE op[<<pick[s], g[s \ {pick[s]}]>>]
    OBVIOUS
  <1> HIDE DEF D, m, step
  <1>5. PICK g : Solves(g, step, D, V)
    <2>1. IsRecursion(step, m, D, V)
      BY <1>1, <1>2, <1>3 DEF IsRecursion
    <2>2. QED BY <2>1, Recursion
  <1>6. g \in [D -> V]
            /\ \A s \in D : g[s] = IF s = {} THEN v0 ELSE op[<<pick[s], g[s \ {pick[s]}]>>]
    BY <1>4, <1>5 DEF Solves
  <1>7. QED BY <1>6 DEF D, IsSetFold

(* Induction over the subsets of a finite set. *)
LEMMA SubsetInduction ==
  ASSUME NEW S, IsFiniteSet(S), NEW T \in SUBSET SUBSET S,
         \A s \in SUBSET S : (\A x \in s : s \ {x} \in T) => s \in T
  PROVE  T = SUBSET S
  <1> DEFINE B == {Cardinality(u) : u \in (SUBSET S) \ T}
  <1> SUFFICES ASSUME (SUBSET S) \ T # {} PROVE FALSE
    OBVIOUS
  <1>1. \A u \in SUBSET S : IsFiniteSet(u) /\ Cardinality(u) \in Nat
    BY FS_Subset, FS_CardinalityType
  <1>2. B \in SUBSET Nat /\ B # {}
    BY <1>1
  <1>3. PICK b \in B : \A c \in B : b <= c
    <2> HIDE DEF B
    <2> QED BY <1>2, NatMin
  <1>4. PICK u \in (SUBSET S) \ T : Cardinality(u) = b
    BY <1>3
  <1>5. ASSUME NEW x \in u PROVE u \ {x} \in T
    <2> DEFINE t == u \ {x}
    <2>1. t \in SUBSET S /\ Cardinality(t) = b - 1 /\ b \in Nat
      BY <1>1, <1>4, FS_RemoveElement
    <2> HIDE DEF t
    <2>2. t \in T
      BY <1>3, <2>1
    <2>3. QED BY <2>2 DEF t
  <1>6. QED BY <1>4, <1>5

(* A finite set has two elements or more if it has two different ones. *)
LEMMA TwoElements ==
  ASSUME NEW S, IsFiniteSet(S)
  PROVE  Cardinality(S) > 1 <=> \E x, y \in S : x # y
  <1>1. Cardinality(S) \in Nat
    BY FS_CardinalityType
  <1>2. ASSUME NEW x \in S, NEW y \in S, x # y PROVE Cardinality(S) > 1
    <2>1. IsFiniteSet({x}) /\ Cardinality({x}) = 1
      BY FS_Singleton
    <2>2. Cardinality({x} \cup {y}) = 2
      BY <1>2, <2>1, FS_AddElement
    <2>3. {x} \cup {y} \in SUBSET S
      OBVIOUS
    <2>4. Cardinality({x} \cup {y}) <= Cardinality(S)
      BY <2>3, FS_Subset
    <2>5. QED BY <1>1, <2>2, <2>4
  <1>3. ASSUME Cardinality(S) > 1, \A x, y \in S : x = y PROVE FALSE
    <2>1. PICK x \in S : TRUE
      BY <1>3, FS_EmptySet
    <2>2. S = {x}
      BY <1>3, <2>1
    <2>3. Cardinality({x}) = 1
      BY FS_Singleton
    <2>4. QED BY <1>3, <2>2, <2>3
  <1>4. QED BY <1>2, <1>3

(* Min is the least element. *)
LEMMA MinProperties ==
  ASSUME NEW S \in SUBSET Nat, S # {}
  PROVE  Min(S) \in S /\ \A x \in S : Min(S) <= x
  <1>1. \E m \in S : \A x \in S : m <= x
    BY NatMin
  <1>2. QED BY <1>1 DEF Min

LEMMA ConcatToSet ==
  ASSUME NEW E, NEW s \in Seq(E), NEW t \in Seq(E)
  PROVE  s \o t \in Seq(E) /\ ToSet(s \o t) = ToSet(s) \cup ToSet(t)
  <1> DEFINE u == s \o t
             n == Len(s)
  <1>1. /\ u \in Seq(E)
        /\ Len(u) = n + Len(t)
        /\ \A i \in 1 .. n + Len(t) : u[i] = IF i <= n THEN s[i] ELSE t[i - n]
    BY ConcatProperties
  <1>2. /\ n \in Nat /\ Len(t) \in Nat
        /\ DOMAIN s = 1 .. n /\ DOMAIN t = 1 .. Len(t) /\ DOMAIN u = 1 .. n + Len(t)
    BY <1>1, LenProperties
  <1> HIDE DEF u, n
  <1>3. ASSUME NEW i \in 1 .. n + Len(t) PROVE u[i] \in ToSet(s) \cup ToSet(t)
    <2>1. CASE i <= n
      <3>1. i \in 1 .. n /\ u[i] = s[i]
        BY <1>1, <1>2, <2>1
      <3>2. QED BY <1>2, <3>1 DEF ToSet
    <2>2. CASE i > n
      <3>1. i - n \in 1 .. Len(t) /\ u[i] = t[i - n]
        BY <1>1, <1>2, <2>2
      <3>2. QED BY <1>2, <3>1 DEF ToSet
    <2>3. QED BY <1>2, <2>1, <2>2
  <1>4. ASSUME NEW i \in 1 .. n PROVE s[i] \in ToSet(u)
    <2>1. i \in DOMAIN u /\ u[i] = s[i]
      BY <1>1, <1>2
    <2>2. QED BY <2>1 DEF ToSet
  <1>5. ASSUME NEW i \in 1 .. Len(t) PROVE t[i] \in ToSet(u)
    <2>1. i + n \in DOMAIN u /\ u[i + n] = t[i]
      <3>1. i + n \in 1 .. n + Len(t) /\ ~ (i + n <= n) /\ (i + n) - n = i
        BY <1>2
      <3>2. QED BY <1>1, <1>2, <3>1
    <2>2. QED BY <2>1 DEF ToSet
  <1>6. ToSet(u) = ToSet(s) \cup ToSet(t)
    <2>1. \A x \in ToSet(u) : x \in ToSet(s) \cup ToSet(t)
      BY <1>2, <1>3 DEF ToSet
    <2>2. \A x \in ToSet(s) : x \in ToSet(u)
      BY <1>2, <1>4 DEF ToSet
    <2>3. \A x \in ToSet(t) : x \in ToSet(u)
      BY <1>2, <1>5 DEF ToSet
    <2>4. QED BY <2>1, <2>2, <2>3
  <1>7. QED BY <1>1, <1>6 DEF u

(* The items of a concatenation of sequences are those of the sequences. *)
LEMMA FlattenSeqProperties ==
  ASSUME NEW E, NEW ss \in Seq(Seq(E))
  PROVE  /\ FlattenSeq(ss) \in Seq(E)
         /\ ToSet(FlattenSeq(ss)) = UNION {ToSet(ss[i]) : i \in DOMAIN ss}
  <1> DEFINE n == Len(ss)
             V == Seq(E)
             body(f, i) == IF i = 1 THEN ss[i] ELSE f[i - 1] \o ss[i]
             flatten == CHOOSE f : f = [i \in 1 .. n |-> body(f, i)]
  <1>1. n \in Nat /\ DOMAIN ss = 1 .. n /\ \A i \in 1 .. n : ss[i] \in V
    BY LenProperties
  <1>2. CASE n = 0
    <2>1. FlattenSeq(ss) = ss /\ ss = << >>
      BY <1>2, EmptySeq DEF FlattenSeq
    <2>2. QED BY <2>1 DEF ToSet
  <1>3. CASE n # 0
    <2> DEFINE m == n - 1
               op == [p \in (1 .. m) \X V |-> p[2] \o ss[p[1] + 1]]
    <2>1. m \in Nat /\ \A i \in 1 .. m : i + 1 \in 1 .. n
      BY <1>1, <1>3
    <2>2. op \in [(1 .. m) \X V -> V]
      <3>1. \A i \in 1 .. m, b \in V : b \o ss[i + 1] \in V
        BY <1>1, <2>1, ConcatProperties
      <3> HIDE DEF V
      <3>2. QED BY <3>1
    <2>3. \A i \in 1 .. m, b \in V : op[<<i, b>>] = b \o ss[i + 1]
      OBVIOUS
    <2>4. ss[1] \in V /\ 1 \in 1 .. n
      BY <1>1, <1>3
    <2>5. FlattenSeq(ss) = flatten[n]
      BY <1>3 DEF FlattenSeq
    <2> HIDE DEF op, V, m
    <2>6. PICK g : IsChain(g, m, V, ss[1], op)
      BY <2>1, <2>2, <2>4, ChainRecursion
    <2> DEFINE f == [i \in 1 .. n |-> g[i - 1]]
    <2>7. \A i \in 1 .. n : i - 1 \in 0 .. m /\ (i # 1 => i - 1 \in 1 .. m /\ i - 1 \in 1 .. n)
      BY <1>1, <1>3 DEF m
    <2>8. f \in [1 .. n -> V]
      BY <2>6, <2>7 DEF IsChain
    <2>9. ASSUME NEW i \in 1 .. n PROVE f[i] = body(f, i)
      <3>1. CASE i = 1
        <4>1. g[0] = ss[1] /\ i - 1 = 0
          BY <2>6, <3>1 DEF IsChain
        <4>2. QED BY <3>1, <4>1
      <3>2. CASE i # 1
        <4>1. i - 1 \in 1 .. m /\ i - 1 \in 1 .. n
          BY <2>7, <3>2
        <4>2. g[i - 1] = op[<<i - 1, g[(i - 1) - 1]>>]
          BY <2>6, <4>1 DEF IsChain
        <4>3. f[i] = g[i - 1] /\ f[i - 1] = g[(i - 1) - 1] /\ f[i - 1] \in V
          BY <2>8, <4>1
        <4> HIDE DEF f
        <4>4. op[<<i - 1, f[i - 1]>>] = f[i - 1] \o ss[(i - 1) + 1]
          BY <2>3, <4>1, <4>3
        <4>5. (i - 1) + 1 = i
          BY <1>1
        <4>6. QED BY <3>2, <4>2, <4>3, <4>4, <4>5
      <3>3. QED BY <3>1, <3>2
    <2> HIDE DEF f, body
    <2>10. \E e : e = [i \in 1 .. n |-> body(e, i)]
      <3>1. f = [i \in 1 .. n |-> body(f, i)]
        BY <2>8, <2>9
      <3>2. QED BY <3>1
    <2>11. flatten = [i \in 1 .. n |-> body(flatten, i)]
      BY <2>10
    <2> HIDE DEF flatten
    <2>12. /\ flatten[1] = ss[1]
           /\ \A i \in 1 .. n : i # 1 => flatten[i] = flatten[i - 1] \o ss[i]
      BY <2>4, <2>11 DEF body
    <2> DEFINE Right(i) == /\ flatten[i] \in Seq(E)
                           /\ ToSet(flatten[i]) = UNION {ToSet(ss[j]) : j \in 1 .. i}
               T == {i \in Nat : i + 1 <= n => Right(i + 1)}
    <2>13. 0 \in T
      <3>1. Right(1)
        <4>1. 1 .. 1 = {1}
          OBVIOUS
        <4>2. QED BY <2>4, <2>12, <4>1 DEF V
      <3>2. QED BY <3>1
    <2>14. ASSUME NEW i \in T PROVE i + 1 \in T
      <3>1. SUFFICES ASSUME (i + 1) + 1 <= n PROVE Right((i + 1) + 1)
        OBVIOUS
      <3> DEFINE k == i + 1
      <3>2. k \in Nat /\ k >= 1 /\ k + 1 \in 1 .. n /\ k + 1 # 1 /\ (k + 1) - 1 = k /\ k <= n
        BY <1>1, <3>1
      <3>3. Right(k)
        BY <3>2
      <3> HIDE DEF k
      <3>4. flatten[k + 1] = flatten[k] \o ss[k + 1] /\ ss[k + 1] \in Seq(E)
        BY <1>1, <2>12, <3>2 DEF V
      <3>5. /\ flatten[k + 1] \in Seq(E)
            /\ ToSet(flatten[k + 1]) = ToSet(flatten[k]) \cup ToSet(ss[k + 1])
        BY <3>3, <3>4, ConcatToSet
      <3>6. 1 .. k + 1 = (1 .. k) \cup {k + 1}
        BY <3>2
      <3>7. QED BY <3>3, <3>5, <3>6 DEF k
    <2>15. Right(n)
      <3>1. T \in SUBSET Nat
        OBVIOUS
      <3> HIDE DEF T
      <3>2. T = Nat
        BY <2>13, <2>14, <3>1, NatSet
      <3>3. m \in T /\ m + 1 = n
        BY <1>1, <2>1, <3>2 DEF m
      <3> HIDE DEF Right, m, n
      <3>4. m + 1 <= n => Right(m + 1)
        BY <3>3 DEF T
      <3>5. QED BY <1>1, <3>3, <3>4
    <2>16. QED BY <1>1, <2>5, <2>15
  <1>4. QED BY <1>2, <1>3

(* pop_back(): the front of a sequence is the sequence less its last item. *)
LEMMA FrontProperties ==
  ASSUME NEW S, NEW s \in Seq(S), s # << >>
  PROVE  /\ Front(s) \in Seq(S)
         /\ Len(s) \in Nat \ {0}
         /\ Len(Front(s)) = Len(s) - 1
         /\ \A i \in 1 .. Len(s) - 1 : Front(s)[i] = s[i]
         /\ Last(s) \in S
         /\ Last(s) = s[Len(s)]
         /\ Last(s) \in ToSet(s)
         /\ ToSet(Front(s)) \subseteq ToSet(s)
  <1>1. Len(s) \in Nat \ {0} /\ \A i \in 1 .. Len(s) - 1 : s[i] \in S
    BY EmptySeq
  <1>2. /\ Front(s) \in Seq(S)
        /\ Len(Front(s)) = Len(s) - 1
        /\ \A i \in 1 .. Len(s) - 1 : Front(s)[i] = s[i]
    <2> DEFINE n == Len(s) - 1
               u == SubSeq(s, 1, n)
    <2>1. n \in Int /\ n >= 0 /\ \A i \in 1 .. n : s[i] \in S
      BY <1>1
    <2> HIDE DEF n
    <2>2. /\ u \in Seq(S)
          /\ Len(u) = IF 1 <= n THEN n - 1 + 1 ELSE 0
          /\ \A i \in 1 .. n - 1 + 1 : u[i] = s[1 + i - 1]
      BY <2>1, SubSeqProperties
    <2> HIDE DEF u
    <2>3. Front(s) = u
      BY DEF Front, u, n
    <2>4. Len(u) = n /\ \A i \in 1 .. n : u[i] = s[i]
      BY <2>1, <2>2
    <2>5. QED BY <2>2, <2>3, <2>4 DEF n
  <1>3. Last(s) = s[Len(s)] /\ Last(s) \in S /\ Last(s) \in ToSet(s)
    BY <1>1 DEF Last, ToSet
  <1>4. ToSet(Front(s)) \subseteq ToSet(s)
    BY <1>1, <1>2 DEF ToSet
  <1>5. QED BY <1>1, <1>2, <1>3, <1>4

(* What is not last in a sequence without repetition is in its front. *)
LEMMA FrontOfInjective ==
  ASSUME NEW S, NEW s \in Seq(S), s # << >>,
         \A i, j \in DOMAIN s : s[i] = s[j] => i = j
  PROVE  /\ ToSet(Front(s)) = ToSet(s) \ {Last(s)}
         /\ \A i, j \in DOMAIN Front(s) : Front(s)[i] = Front(s)[j] => i = j
  BY FrontProperties DEF ToSet

(* insert(): the item is at position i, and the items from there move up. *)
LEMMA InsertAtProperties ==
  ASSUME NEW S, NEW s \in Seq(S), NEW i \in 1 .. Len(s) + 1, NEW e \in S
  PROVE  /\ InsertAt(s, i, e) \in Seq(S)
         /\ Len(InsertAt(s, i, e)) = Len(s) + 1
         /\ \A j \in 1 .. Len(s) + 1 :
              InsertAt(s, i, e)[j] = IF j < i THEN s[j]
                                     ELSE IF j = i THEN e ELSE s[j - 1]
  <1> DEFINE a == SubSeq(s, 1, i - 1)
             b == SubSeq(s, i, Len(s))
             c == a \o <<e>>
  <1>1. /\ Len(s) \in Nat /\ i - 1 \in Int /\ Len(s) \in Int
        /\ \A j \in 1 .. i - 1 : s[j] \in S
        /\ \A j \in i .. Len(s) : s[j] \in S
    BY LenProperties
  <1>2. a \in Seq(S) /\ Len(a) = i - 1 /\ \A j \in 1 .. i - 1 : a[j] = s[j]
    BY <1>1, SubSeqProperties
  <1>3. /\ b \in Seq(S)
        /\ Len(b) = Len(s) - i + 1
        /\ \A j \in 1 .. Len(s) - i + 1 : b[j] = s[i + j - 1]
    BY <1>1, SubSeqProperties
  <1>4. InsertAt(s, i, e) = c \o b
    BY DEF InsertAt
  <1> HIDE DEF a, b
  <1>5. /\ c \in Seq(S)
        /\ Len(c) = i
        /\ \A j \in 1 .. i : c[j] = IF j < i THEN s[j] ELSE e
    <2>1. <<e>> \in Seq(S) /\ Len(<<e>>) = 1 /\ <<e>>[1] = e
      OBVIOUS
    <2> DEFINE u == <<e>>
    <2> HIDE DEF u
    <2>2. /\ a \o u \in Seq(S)
          /\ Len(a \o u) = Len(a) + Len(u)
          /\ \A j \in 1 .. Len(a) + Len(u) :
               (a \o u)[j] = IF j <= Len(a) THEN a[j] ELSE u[j - Len(a)]
      BY <1>2, <2>1, ConcatProperties DEF u
    <2>3. QED BY <1>1, <1>2, <2>1, <2>2 DEF u
  <1> HIDE DEF c
  <1>6. /\ c \o b \in Seq(S)
        /\ Len(c \o b) = Len(c) + Len(b)
        /\ \A j \in 1 .. Len(c) + Len(b) :
             (c \o b)[j] = IF j <= Len(c) THEN c[j] ELSE b[j - Len(c)]
    BY <1>3, <1>5, ConcatProperties
  <1> DEFINE d == c \o b
  <1>7. d \in Seq(S) /\ Len(d) = Len(s) + 1
    BY <1>1, <1>3, <1>5, <1>6
  <1>8. ASSUME NEW j \in 1 .. Len(s) + 1
        PROVE  d[j] = IF j < i THEN s[j] ELSE IF j = i THEN e ELSE s[j - 1]
    <2>1. d[j] = IF j <= i THEN c[j] ELSE b[j - i]
      BY <1>1, <1>3, <1>5, <1>6
    <2> HIDE DEF d
    <2>2. CASE j <= i
      BY <1>1, <1>5, <2>1, <2>2
    <2>3. CASE j > i
      <3>1. j - i \in 1 .. Len(s) - i + 1 /\ i + (j - i) - 1 = j - 1
        BY <1>1, <2>3
      <3>2. b[j - i] = s[j - 1]
        BY <1>3, <3>1
      <3>3. QED BY <2>1, <2>3, <3>2
    <2>4. QED BY <1>1, <2>2, <2>3
  <1> HIDE DEF d
  <1>9. InsertAt(s, i, e) = d
    BY <1>4 DEF d
  <1>10. QED BY <1>7, <1>8, <1>9

(* Inserting adds the item to the set of items. *)
LEMMA InsertAtToSet ==
  ASSUME NEW S, NEW s \in Seq(S), NEW i \in 1 .. Len(s) + 1, NEW e \in S
  PROVE  ToSet(InsertAt(s, i, e)) = ToSet(s) \cup {e}
  <1> DEFINE t == InsertAt(s, i, e)
  <1>1. DOMAIN t = 1 .. Len(s) + 1 /\ DOMAIN s = 1 .. Len(s) /\ Len(s) \in Nat
    BY InsertAtProperties, LenProperties
  <1>2. \A j \in 1 .. Len(s) + 1 :
          t[j] = IF j < i THEN s[j] ELSE IF j = i THEN e ELSE s[j - 1]
    BY InsertAtProperties
  <1> HIDE DEF t
  <1>3. ASSUME NEW x \in ToSet(t) PROVE x \in ToSet(s) \cup {e}
    <2>1. PICK k \in 1 .. Len(s) + 1 : t[k] = x
      BY <1>1 DEF ToSet
    <2>2. x = e \/ \E j \in 1 .. Len(s) : s[j] = x
      BY <1>1, <1>2, <2>1
    <2>3. QED BY <1>1, <2>2 DEF ToSet
  <1>4. ASSUME NEW x \in ToSet(s) PROVE x \in ToSet(t)
    <2>1. PICK k \in 1 .. Len(s) : s[k] = x
      BY <1>1 DEF ToSet
    <2>2. CASE k < i
      <3>1. k \in 1 .. Len(s) + 1 /\ t[k] = x
        BY <1>1, <1>2, <2>1, <2>2
      <3>2. QED BY <1>1, <3>1 DEF ToSet
    <2>3. CASE k >= i
      <3>1. k + 1 \in 1 .. Len(s) + 1 /\ t[k + 1] = x
        BY <1>1, <1>2, <2>1, <2>3
      <3>2. QED BY <1>1, <3>1 DEF ToSet
    <2>4. QED BY <2>1, <2>2, <2>3
  <1>5. e \in ToSet(t)
    BY <1>1, <1>2 DEF ToSet
  <1>6. QED BY <1>3, <1>4, <1>5 DEF t

(* Inserting an item the sequence does not hold causes no repetition. *)
LEMMA InsertAtInjective ==
  ASSUME NEW S, NEW s \in Seq(S), NEW i \in 1 .. Len(s) + 1, NEW e \in S,
         e \notin ToSet(s),
         \A j, k \in DOMAIN s : s[j] = s[k] => j = k
  PROVE  \A j, k \in DOMAIN InsertAt(s, i, e) :
           InsertAt(s, i, e)[j] = InsertAt(s, i, e)[k] => j = k
  <1> DEFINE t == InsertAt(s, i, e)
  <1>1. DOMAIN t = 1 .. Len(s) + 1
    BY InsertAtProperties
  <1>2. \A j \in 1 .. Len(s) + 1 :
          t[j] = IF j < i THEN s[j] ELSE IF j = i THEN e ELSE s[j - 1]
    BY InsertAtProperties
  <1>3. \A j \in 1 .. Len(s) : s[j] # e
    BY DEF ToSet
  <1> HIDE DEF t
  <1>4. ASSUME NEW j \in 1 .. Len(s) + 1, NEW k \in 1 .. Len(s) + 1,
               t[j] = t[k], j < k
        PROVE  FALSE
    BY <1>2, <1>3, <1>4
  <1>5. \A j, k \in DOMAIN t : t[j] = t[k] => j = k
    BY <1>1, <1>4
  <1>6. QED BY <1>5 DEF t

(* The order in which a fold takes out the elements does not matter if two  *)
(* of them may change places.                                              *)
LeftCommutes(op, S, V) ==
  \A x, y \in S, v \in V : op[<<x, op[<<y, v>>]>>] = op[<<y, op[<<x, v>>]>>]

IsPick(pick, S) ==
  pick \in [(SUBSET S) \ {{}} -> S] /\ \A s \in (SUBSET S) \ {{}} : pick[s] \in s

(* g gives for every subset of S the fold that picks its elements with pick. *)
IsFold(g, S, V, v0, op, pick) ==
  /\ IsFiniteSet(S) /\ IsPick(pick, S) /\ op \in [S \X V -> V]
  /\ IsSetFold(g, S, V, v0, op, pick)

(* g may take any element out first, and two folds give the same for every  *)
(* subset.                                                                 *)
TakesAnyFirst(g, S, op) == \A s \in SUBSET S : \A x \in s : g[s] = op[<<x, g[s \ {x}]>>]
SameSteps(op, opR, R, V) == \A x \in R, v \in V : op[<<x, v>>] = opR[<<x, v>>]
SameOnSubsets(e, g, S) == \A s \in SUBSET S : e[s] = g[s]

LEMMA SetFoldAnyOrder ==
  ASSUME NEW S, NEW V, NEW v0, NEW op, NEW pick, NEW g,
         IsFold(g, S, V, v0, op, pick), LeftCommutes(op, S, V)
  PROVE  TakesAnyFirst(g, S, op)
  <1> USE DEF IsFold
  <1> DEFINE T == {s \in SUBSET S : \A x \in s : g[s] = op[<<x, g[s \ {x}]>>]}
  <1>1. ASSUME NEW s \in SUBSET S, \A x \in s : s \ {x} \in T PROVE s \in T
    <2> SUFFICES ASSUME NEW x \in s PROVE g[s] = op[<<x, g[s \ {x}]>>]
      OBVIOUS
    <2>1. PICK y \in s : g[s] = op[<<y, g[s \ {y}]>>]
      BY DEF IsSetFold, IsPick
    <2>2. CASE x = y
      BY <2>1, <2>2
    <2>3. CASE x # y
      <3> DEFINE v == g[(s \ {x}) \ {y}]
      <3>1. (s \ {x}) \ {y} = (s \ {y}) \ {x} /\ x \in s \ {y} /\ y \in s \ {x}
        BY <2>3
      <3>2. v \in V
        BY DEF IsSetFold
      <3>3. g[s \ {y}] = op[<<x, v>>]
        <4>1. g[s \ {y}] = op[<<x, g[(s \ {y}) \ {x}]>>]
          BY <1>1, <3>1
        <4>2. QED BY <3>1, <4>1
      <3>4. g[s \ {x}] = op[<<y, v>>]
        BY <1>1, <3>1
      <3> HIDE DEF v, T
      <3>5. op[<<y, op[<<x, v>>]>>] = op[<<x, op[<<y, v>>]>>]
        BY <3>2 DEF LeftCommutes
      <3>6. QED BY <2>1, <3>3, <3>4, <3>5
    <2>4. QED BY <2>2, <2>3
  <1>2. T \in SUBSET SUBSET S
    OBVIOUS
  <1> HIDE DEF T
  <1>3. T = SUBSET S
    BY <1>1, <1>2, SubsetInduction
  <1>4. QED BY <1>3 DEF T, TakesAnyFirst

(* A fold over a subset is a value of the fold over the whole set. *)
LEMMA SetFoldsAgree ==
  ASSUME NEW S, NEW V, NEW v0, NEW op, NEW pick, NEW g,
         IsFold(g, S, V, v0, op, pick), LeftCommutes(op, S, V),
         NEW R, R \subseteq S, NEW opR, NEW pickR, NEW h,
         IsFold(h, R, V, v0, opR, pickR), SameSteps(op, opR, R, V)
  PROVE  SameOnSubsets(g, h, R)
  <1>0. TakesAnyFirst(g, S, op)
    BY SetFoldAnyOrder, Zenon
  <1> USE DEF IsFold
  <1> DEFINE T == {s \in SUBSET R : g[s] = h[s]}
  <1>1. ASSUME NEW s \in SUBSET R, \A x \in s : s \ {x} \in T PROVE s \in T
    <2>1. CASE s = {}
      BY <2>1 DEF IsSetFold
    <2>2. CASE s # {}
      <3>1. PICK y \in s : h[s] = opR[<<y, h[s \ {y}]>>]
        BY <2>2 DEF IsSetFold, IsPick
      <3>2. g[s] = op[<<y, g[s \ {y}]>>]
        BY <1>0 DEF TakesAnyFirst
      <3>3. g[s \ {y}] = h[s \ {y}] /\ g[s \ {y}] \in V
        BY <1>1 DEF IsSetFold
      <3>4. op[<<y, g[s \ {y}]>>] = opR[<<y, g[s \ {y}]>>]
        BY <3>3 DEF SameSteps
      <3>5. QED BY <3>1, <3>2, <3>3, <3>4
    <2>3. QED BY <2>1, <2>2
  <1>2. T \in SUBSET SUBSET R /\ IsFiniteSet(R)
    BY FS_Subset
  <1> HIDE DEF T
  <1>3. T = SUBSET R
    BY <1>1, <1>2, SubsetInduction
  <1>4. QED BY <1>3 DEF T, SameOnSubsets

(* What takes the elements out in the same order is the fold. *)
Folds(e, S, V, v0, op, pick) ==
  /\ e[{}] = v0
  /\ \A s \in (SUBSET S) \ {{}} :
       e[s \ {pick[s]}] \in V => e[s] = op[<<pick[s], e[s \ {pick[s]}]>>]

LEMMA SetFoldIsUnique ==
  ASSUME NEW S, NEW V, NEW v0, NEW op, NEW pick, NEW g, IsFold(g, S, V, v0, op, pick),
         NEW e, Folds(e, S, V, v0, op, pick)
  PROVE  SameOnSubsets(e, g, S)
  <1> USE DEF IsFold, Folds
  <1> DEFINE T == {s \in SUBSET S : e[s] = g[s]}
  <1>1. ASSUME NEW s \in SUBSET S, \A x \in s : s \ {x} \in T PROVE s \in T
    <2>1. CASE s = {}
      BY <2>1 DEF IsSetFold
    <2>2. CASE s # {}
      <3>1. s \in (SUBSET S) \ {{}} /\ pick[s] \in s
        BY <2>2 DEF IsPick
      <3>2. g[s] = op[<<pick[s], g[s \ {pick[s]}]>>] /\ g[s \ {pick[s]}] \in V
        BY <3>1 DEF IsSetFold
      <3>3. e[s \ {pick[s]}] = g[s \ {pick[s]}]
        BY <1>1, <3>1
      <3>4. QED BY <3>1, <3>2, <3>3
    <2>3. QED BY <2>1, <2>2
  <1>2. T \in SUBSET SUBSET S
    OBVIOUS
  <1> HIDE DEF T
  <1>3. T = SUBSET S
    BY <1>1, <1>2, SubsetInduction
  <1>4. QED BY <1>3 DEF T, SameOnSubsets

(* Sums over finite sets. *)
SumStep(f, S) == [p \in S \X Int |-> f[p[1]] + p[2]]

LEMMA SumIsFold ==
  ASSUME NEW S, IsFiniteSet(S), NEW f, \A x \in S : f[x] \in Int
  PROVE  /\ LeftCommutes(SumStep(f, S), S, Int)
         /\ \E g, pick : /\ IsFold(g, S, Int, 0, SumStep(f, S), pick)
                         /\ SumFunctionOnSet(f, S) = g[S]
  <1> DEFINE pick == [s \in (SUBSET S) \ {{}} |-> CHOOSE x \in s : TRUE]
             op == SumStep(f, S)
             body(e, s) == IF s = {} THEN 0
                           ELSE LET x == CHOOSE x \in s : TRUE IN f[x] + e[s \ {x}]
             fold == CHOOSE e : e = [s \in SUBSET S |-> body(e, s)]
  <1>1. IsPick(pick, S)
    BY DEF IsPick
  <1>2. op \in [S \X Int -> Int] /\ \A x \in S, v \in Int : op[<<x, v>>] = f[x] + v
    BY DEF SumStep
  <1>3. SumFunctionOnSet(f, S) = fold[S]
    BY DEF SumFunctionOnSet, FoldFunctionOnSet, MapThenFoldSet
  <1>4. \A e : body(e, {}) = 0
    OBVIOUS
  <1>5. \A e : \A s \in (SUBSET S) \ {{}} : body(e, s) = f[pick[s]] + e[s \ {pick[s]}]
    <2>1. \A s \in (SUBSET S) \ {{}} : pick[s] = CHOOSE x \in s : TRUE
      OBVIOUS
    <2>2. QED BY <2>1
  <1> HIDE DEF pick, op, body
  <1>6. LeftCommutes(op, S, Int)
    BY <1>2 DEF LeftCommutes
  <1>7. PICK g : IsSetFold(g, S, Int, 0, op, pick)
    <2>1. /\ pick \in [(SUBSET S) \ {{}} -> S]
          /\ \A s \in (SUBSET S) \ {{}} : pick[s] \in s
      BY <1>1 DEF IsPick
    <2>2. 0 \in Int
      OBVIOUS
    <2>3. QED BY <1>2, <2>1, <2>2, SetRecursion, Zenon
  <1>13. IsFold(g, S, Int, 0, op, pick)
    BY <1>1, <1>2, <1>7 DEF IsFold
  <1>8. g = [s \in SUBSET S |-> body(g, s)]
    <2>1. ASSUME NEW s \in SUBSET S PROVE g[s] = body(g, s)
      <3>1. CASE s = {}
        BY <1>4, <1>7, <3>1 DEF IsSetFold
      <3>2. CASE s # {}
        <4>1. s \in (SUBSET S) \ {{}} /\ pick[s] \in S
          BY <1>1, <3>2 DEF IsPick
        <4>2. g[s] = op[<<pick[s], g[s \ {pick[s]}]>>] /\ g[s \ {pick[s]}] \in Int
          BY <1>7, <4>1 DEF IsSetFold
        <4>3. body(g, s) = f[pick[s]] + g[s \ {pick[s]}]
          BY <1>5, <4>1
        <4>4. QED BY <1>2, <4>1, <4>2, <4>3
      <3>3. QED BY <3>1, <3>2
    <2>2. QED BY <1>7, <2>1 DEF IsSetFold
  <1>9. fold = [s \in SUBSET S |-> body(fold, s)]
    BY <1>8, Zenon
  <1> HIDE DEF fold
  <1>10. SameOnSubsets(fold, g, S)
    <2>1. fold[{}] = 0
      BY <1>4, <1>9
    <2>2. ASSUME NEW s \in (SUBSET S) \ {{}}, fold[s \ {pick[s]}] \in Int
          PROVE  fold[s] = op[<<pick[s], fold[s \ {pick[s]}]>>]
      <3>1. fold[s] = f[pick[s]] + fold[s \ {pick[s]}]
        BY <1>5, <1>9
      <3>2. pick[s] \in S
        BY <1>1 DEF IsPick
      <3>3. QED BY <1>2, <2>2, <3>1, <3>2
    <2>3. Folds(fold, S, Int, 0, op, pick)
      BY <2>1, <2>2 DEF Folds
    <2>4. QED BY <1>13, <2>3, SetFoldIsUnique, Zenon
  <1>11. SumFunctionOnSet(f, S) = g[S]
    BY <1>3, <1>10 DEF SameOnSubsets
  <1>12. QED BY <1>6, <1>13, <1>11, Zenon DEF op

LEMMA SumProperties ==
  ASSUME NEW S, IsFiniteSet(S), NEW f, \A x \in S : f[x] \in Int
  PROVE  /\ SumFunctionOnSet(f, S) \in Int
         /\ S = {} => SumFunctionOnSet(f, S) = 0
         /\ \A x \in S : SumFunctionOnSet(f, S) = f[x] + SumFunctionOnSet(f, S \ {x})
         /\ \A e : (\A x \in S : e[x] = f[x]) => SumFunctionOnSet(e, S) = SumFunctionOnSet(f, S)
  <1> DEFINE op == SumStep(f, S)
  <1>1. op \in [S \X Int -> Int] /\ \A x \in S, v \in Int : op[<<x, v>>] = f[x] + v
    BY DEF SumStep
  <1>2. LeftCommutes(op, S, Int)
    BY SumIsFold
  <1> HIDE DEF op
  <1>3. PICK g, pick : IsFold(g, S, Int, 0, op, pick) /\ SumFunctionOnSet(f, S) = g[S]
    BY SumIsFold, Zenon DEF op
  <1>4. ASSUME NEW R \in SUBSET S, NEW e, \A x \in R : e[x] = f[x]
        PROVE  SumFunctionOnSet(e, R) = g[R]
    <2>1. IsFiniteSet(R) /\ \A x \in R : e[x] \in Int
      BY <1>4, FS_Subset
    <2> DEFINE opR == SumStep(e, R)
    <2>2. opR \in [R \X Int -> Int] /\ \A x \in R, v \in Int : opR[<<x, v>>] = e[x] + v
      BY <2>1 DEF SumStep
    <2> HIDE DEF opR
    <2>3. PICK h, pickR : IsFold(h, R, Int, 0, opR, pickR) /\ SumFunctionOnSet(e, R) = h[R]
      BY <2>1, SumIsFold, Zenon DEF opR
    <2>4. R \subseteq S /\ SameSteps(op, opR, R, Int)
      BY <1>1, <1>4, <2>2 DEF SameSteps
    <2>5. g[R] = h[R]
      <3>1. SameOnSubsets(g, h, R)
        BY <1>2, <1>3, <2>3, <2>4, SetFoldsAgree, Zenon
      <3>2. QED BY <3>1 DEF SameOnSubsets
    <2>6. QED BY <2>3, <2>5
  <1>5. g[S] \in Int /\ g[{}] = 0
    BY <1>3 DEF IsFold, IsSetFold
  <1>6. ASSUME NEW x \in S PROVE g[S] = f[x] + SumFunctionOnSet(f, S \ {x})
    <2>1. g[S] = op[<<x, g[S \ {x}]>>]
      <3>1. TakesAnyFirst(g, S, op)
        BY <1>2, <1>3, SetFoldAnyOrder, Zenon
      <3>2. QED BY <3>1 DEF TakesAnyFirst
    <2>2. g[S \ {x}] \in Int
      BY <1>3 DEF IsFold, IsSetFold
    <2>3. g[S \ {x}] = SumFunctionOnSet(f, S \ {x})
      BY <1>4
    <2>4. QED BY <1>1, <2>1, <2>2, <2>3
  <1>7. QED BY <1>3, <1>4, <1>5, <1>6

(* Products of the successors of numbers. *)
Product(p, S) == FoldFunctionOnSet(LAMBDA n, acc : (n + 1) * acc, 1, p, S)
ProductStep(p, S) == [x \in S \X Nat |-> (p[x[1]] + 1) * x[2]]

LEMMA ProductIsFold ==
  ASSUME NEW S, IsFiniteSet(S), NEW p, \A x \in S : p[x] \in Nat
  PROVE  /\ LeftCommutes(ProductStep(p, S), S, Nat)
         /\ \E g, pick : /\ IsFold(g, S, Nat, 1, ProductStep(p, S), pick)
                         /\ Product(p, S) = g[S]
  <1> DEFINE pick == [s \in (SUBSET S) \ {{}} |-> CHOOSE x \in s : TRUE]
             op == ProductStep(p, S)
             body(e, s) == IF s = {} THEN 1
                           ELSE LET x == CHOOSE x \in s : TRUE IN (p[x] + 1) * e[s \ {x}]
             fold == CHOOSE e : e = [s \in SUBSET S |-> body(e, s)]
  <1>1. IsPick(pick, S)
    BY DEF IsPick
  <1>2. op \in [S \X Nat -> Nat] /\ \A x \in S, v \in Nat : op[<<x, v>>] = (p[x] + 1) * v
    BY DEF ProductStep
  <1>3. Product(p, S) = fold[S]
    BY DEF Product, FoldFunctionOnSet, MapThenFoldSet
  <1>4. \A e : body(e, {}) = 1
    OBVIOUS
  <1>5. \A e : \A s \in (SUBSET S) \ {{}} : body(e, s) = (p[pick[s]] + 1) * e[s \ {pick[s]}]
    <2>1. \A s \in (SUBSET S) \ {{}} : pick[s] = CHOOSE x \in s : TRUE
      OBVIOUS
    <2>2. QED BY <2>1
  <1> HIDE DEF pick, op, body
  <1>6. LeftCommutes(op, S, Nat)
    <2> SUFFICES ASSUME NEW x \in S, NEW y \in S, NEW v \in Nat
                 PROVE  op[<<x, op[<<y, v>>]>>] = op[<<y, op[<<x, v>>]>>]
      BY DEF LeftCommutes
    <2> DEFINE a == p[x] + 1
               b == p[y] + 1
    <2>1. a \in Nat /\ b \in Nat
      OBVIOUS
    <2>2. op[<<x, v>>] = a * v /\ op[<<y, v>>] = b * v
      BY <1>2
    <2>3. \A w \in Nat : op[<<x, w>>] = a * w /\ op[<<y, w>>] = b * w
      BY <1>2
    <2> HIDE DEF a, b
    <2>4. a * v \in Nat /\ b * v \in Nat
      BY <2>1
    <2>5. op[<<x, op[<<y, v>>]>>] = a * (b * v) /\ op[<<y, op[<<x, v>>]>>] = b * (a * v)
      BY <2>2, <2>3, <2>4
    <2>6. a * (b * v) = b * (a * v)
      BY <2>1
    <2>7. QED BY <2>5, <2>6
  <1>7. PICK g : IsSetFold(g, S, Nat, 1, op, pick)
    <2>1. /\ pick \in [(SUBSET S) \ {{}} -> S]
          /\ \A s \in (SUBSET S) \ {{}} : pick[s] \in s
      BY <1>1 DEF IsPick
    <2>2. 1 \in Nat
      OBVIOUS
    <2>3. QED BY <1>2, <2>1, <2>2, SetRecursion, Zenon
  <1>13. IsFold(g, S, Nat, 1, op, pick)
    BY <1>1, <1>2, <1>7 DEF IsFold
  <1>8. g = [s \in SUBSET S |-> body(g, s)]
    <2>1. ASSUME NEW s \in SUBSET S PROVE g[s] = body(g, s)
      <3>1. CASE s = {}
        BY <1>4, <1>7, <3>1 DEF IsSetFold
      <3>2. CASE s # {}
        <4>1. s \in (SUBSET S) \ {{}} /\ pick[s] \in S
          BY <1>1, <3>2 DEF IsPick
        <4>2. g[s] = op[<<pick[s], g[s \ {pick[s]}]>>] /\ g[s \ {pick[s]}] \in Nat
          BY <1>7, <4>1 DEF IsSetFold
        <4>3. body(g, s) = (p[pick[s]] + 1) * g[s \ {pick[s]}]
          BY <1>5, <4>1
        <4>4. QED BY <1>2, <4>1, <4>2, <4>3
      <3>3. QED BY <3>1, <3>2
    <2>2. QED BY <1>7, <2>1 DEF IsSetFold
  <1>9. fold = [s \in SUBSET S |-> body(fold, s)]
    BY <1>8, Zenon
  <1> HIDE DEF fold
  <1>10. SameOnSubsets(fold, g, S)
    <2>1. fold[{}] = 1
      BY <1>4, <1>9
    <2>2. ASSUME NEW s \in (SUBSET S) \ {{}}, fold[s \ {pick[s]}] \in Nat
          PROVE  fold[s] = op[<<pick[s], fold[s \ {pick[s]}]>>]
      <3>1. fold[s] = (p[pick[s]] + 1) * fold[s \ {pick[s]}]
        BY <1>5, <1>9
      <3>2. pick[s] \in S
        BY <1>1 DEF IsPick
      <3>3. QED BY <1>2, <2>2, <3>1, <3>2
    <2>3. Folds(fold, S, Nat, 1, op, pick)
      BY <2>1, <2>2 DEF Folds
    <2>4. QED BY <1>13, <2>3, SetFoldIsUnique, Zenon
  <1>11. Product(p, S) = g[S]
    BY <1>3, <1>10 DEF SameOnSubsets
  <1>12. QED BY <1>6, <1>13, <1>11, Zenon DEF op

LEMMA ProductProperties ==
  ASSUME NEW S, IsFiniteSet(S), NEW p, \A x \in S : p[x] \in Nat
  PROVE  /\ Product(p, S) \in Nat
         /\ S = {} => Product(p, S) = 1
         /\ \A x \in S : Product(p, S) = (p[x] + 1) * Product(p, S \ {x})
  <1> DEFINE op == ProductStep(p, S)
  <1>1. op \in [S \X Nat -> Nat] /\ \A x \in S, v \in Nat : op[<<x, v>>] = (p[x] + 1) * v
    BY DEF ProductStep
  <1>2. LeftCommutes(op, S, Nat)
    BY ProductIsFold
  <1> HIDE DEF op
  <1>3. PICK g, pick : IsFold(g, S, Nat, 1, op, pick) /\ Product(p, S) = g[S]
    BY ProductIsFold, Zenon DEF op
  <1>4. ASSUME NEW R \in SUBSET S PROVE Product(p, R) = g[R]
    <2>1. IsFiniteSet(R) /\ \A x \in R : p[x] \in Nat
      BY FS_Subset
    <2> DEFINE opR == ProductStep(p, R)
    <2>2. opR \in [R \X Nat -> Nat] /\ \A x \in R, v \in Nat : opR[<<x, v>>] = (p[x] + 1) * v
      BY <2>1 DEF ProductStep
    <2> HIDE DEF opR
    <2>3. PICK h, pickR : IsFold(h, R, Nat, 1, opR, pickR) /\ Product(p, R) = h[R]
      BY <2>1, ProductIsFold, Zenon DEF opR
    <2>4. R \subseteq S /\ SameSteps(op, opR, R, Nat)
      BY <1>1, <2>2 DEF SameSteps
    <2>6. g[R] = h[R]
      <3>1. SameOnSubsets(g, h, R)
        BY <1>2, <1>3, <2>3, <2>4, SetFoldsAgree, Zenon
      <3>2. QED BY <3>1 DEF SameOnSubsets
    <2>7. QED BY <2>3, <2>6
  <1>5. g[S] \in Nat /\ g[{}] = 1
    BY <1>3 DEF IsFold, IsSetFold
  <1>6. ASSUME NEW x \in S PROVE g[S] = (p[x] + 1) * Product(p, S \ {x})
    <2>1. g[S] = op[<<x, g[S \ {x}]>>]
      <3>1. TakesAnyFirst(g, S, op)
        BY <1>2, <1>3, SetFoldAnyOrder, Zenon
      <3>2. QED BY <3>1 DEF TakesAnyFirst
    <2>2. g[S \ {x}] \in Nat
      BY <1>3 DEF IsFold, IsSetFold
    <2>3. g[S \ {x}] = Product(p, S \ {x})
      BY <1>4
    <2>4. QED BY <1>1, <2>1, <2>2, <2>3
  <1>7. QED BY <1>3, <1>5, <1>6

(* The largest of some numbers up to n. *)
LEMMA MaxProperties ==
  ASSUME NEW n \in Nat, NEW S \in SUBSET (1 .. n), S # {}
  PROVE  Max(S) \in S /\ \A x \in S : x <= Max(S)
  <1> DEFINE T == {n - x : x \in S}
  <1>1. T \in SUBSET Nat /\ T # {}
    <2>1. \A x \in S : n - x \in Nat
      OBVIOUS
    <2> QED BY <2>1
  <1>2. PICK m \in T : \A t \in T : m <= t
    <2> HIDE DEF T
    <2> QED BY <1>1, NatMin
  <1>3. PICK y \in S : m = n - y
    BY <1>2
  <1>4. ASSUME NEW x \in S PROVE y >= x
    <2>1. n - y <= n - x
      BY <1>2, <1>3
    <2> QED BY <2>1
  <1>5. \E x \in S : \A z \in S : x >= z
    BY <1>4
  <1>6. Max(S) \in S /\ \A z \in S : Max(S) >= z
    BY <1>5, Zenon DEF Max
  <1> QED BY <1>6

(* A fold from left to right goes through the prefixes of a sequence. *)
IsLeftFold(g, n, V, v0, op) ==
  /\ g \in [SUBSET (1 .. n) -> V]
  /\ g[{}] = v0
  /\ \A s \in (SUBSET (1 .. n)) \ {{}} : g[s] = op[<<Max(s), g[s \ {Max(s)}]>>]

(* There is one, for every step. *)
LEMMA LeftFold ==
  ASSUME NEW n \in Nat, NEW V, NEW v0 \in V, NEW op \in [(1 .. n) \X V -> V]
  PROVE  \E g : IsLeftFold(g, n, V, v0, op)
  <1> DEFINE S == 1 .. n
             pick == [s \in (SUBSET S) \ {{}} |-> Max(s)]
  <1>1. \A s \in (SUBSET S) \ {{}} : pick[s] = Max(s) /\ Max(s) \in s
    BY MaxProperties
  <1>2. pick \in [(SUBSET S) \ {{}} -> S] /\ \A s \in (SUBSET S) \ {{}} : pick[s] \in s
    BY <1>1
  <1>3. IsFiniteSet(S) /\ op \in [S \X V -> V]
    BY FS_Interval
  <1> HIDE DEF S, pick
  <1>4. PICK g : IsSetFold(g, S, V, v0, op, pick)
    BY <1>2, <1>3, SetRecursion, Zenon
  <1>5. \A s \in (SUBSET S) \ {{}} : g[s] = op[<<Max(s), g[s \ {Max(s)}]>>]
    BY <1>1, <1>4, Zenon DEF IsSetFold
  <1> QED BY <1>4, <1>5 DEF IsSetFold, IsLeftFold, S

(* The last element of a prefix. *)
LEMMA LastOfPrefix ==
  ASSUME NEW n \in Nat, NEW k \in 1 .. n
  PROVE  /\ 1 .. k \in (SUBSET (1 .. n)) \ {{}}
         /\ Max(1 .. k) = k /\ (1 .. k) \ {Max(1 .. k)} = 1 .. k - 1
  <1>1. 1 .. k \in (SUBSET (1 .. n)) \ {{}} /\ k \in 1 .. k
    OBVIOUS
  <1>2. Max(1 .. k) \in 1 .. k /\ \A x \in 1 .. k : x <= Max(1 .. k)
    BY <1>1, MaxProperties
  <1>3. Max(1 .. k) = k
    BY <1>1, <1>2
  <1> QED BY <1>1, <1>3

(* A prefix is the one before it with one more element. *)
LEMMA PrefixGrows ==
  ASSUME NEW Type, NEW s \in Seq(Type), NEW k \in 1 .. Len(s)
  PROVE  /\ SubSeq(s, 1, k) = Append(SubSeq(s, 1, k - 1), s[k])
         /\ SubSeq(s, 1, k - 1) \in Seq(Type) /\ SubSeq(s, 1, k) \in Seq(Type) /\ s[k] \in Type
  <1> DEFINE a == SubSeq(s, 1, k)
             b == SubSeq(s, 1, k - 1)
  <1>1. k \in Nat /\ k >= 1 /\ Len(s) \in Nat /\ k <= Len(s)
    OBVIOUS
  <1>2. /\ a \in Seq(Type) /\ Len(a) = k /\ \A i \in 1 .. k : a[i] = s[i]
        /\ b \in Seq(Type) /\ Len(b) = k - 1 /\ \A i \in 1 .. k - 1 : b[i] = s[i]
    BY <1>1
  <1>3. s[k] \in Type
    OBVIOUS
  <1> HIDE DEF a, b
  <1>4. /\ Append(b, s[k]) \in Seq(Type) /\ Len(Append(b, s[k])) = k
        /\ \A i \in 1 .. k : Append(b, s[k])[i] = s[i]
    BY <1>1, <1>2, <1>3
  <1>5. a = Append(b, s[k])
    BY <1>1, <1>2, <1>4
  <1> QED BY <1>2, <1>3, <1>5 DEF a, b

(* A second element. *)
LEMMA AppendToOne ==
  ASSUME NEW f, NEW x
  PROVE  Append(<<f>>, x) = <<f, x>>
  <1> DEFINE S == {f, x}
             s == <<f>>
             u == Append(s, x)
             v == <<f, x>>
  <1>1. s \in Seq(S) /\ x \in S /\ Len(s) = 1 /\ s[1] = f
    OBVIOUS
  <1>2. v \in Seq(S) /\ Len(v) = 2 /\ v[1] = f /\ v[2] = x
    OBVIOUS
  <1> HIDE DEF S, s, v
  <1>3. u \in Seq(S)
    BY <1>1
  <1>4. Len(u) = 2
    BY <1>1
  <1>6. u[1] = f
    BY <1>1
  <1>7. u[2] = x
    <2>1. u[Len(s) + 1] = x
      BY <1>1, AppendProperties
    <2>2. Len(s) + 1 = 2
      BY <1>1
    <2> QED BY <2>1, <2>2, Zenon
  <1>8. \A i \in 1 .. 2 : i = 1 \/ i = 2
    OBVIOUS
  <1> HIDE DEF u
  <1>9. u = v
    BY <1>2, <1>3, <1>4, <1>6, <1>7, <1>8
  <1> QED BY <1>9 DEF u, s, v

(* No item is twice in a sequence. *)
Distinct(s) == \A i, j \in DOMAIN s : s[i] = s[j] => i = j

(* Items of a sequence without duplicates. *)
LEMMA ItemsDistinct ==
  ASSUME NEW E, NEW s \in Seq(E), Distinct(s), NEW I \in SUBSET DOMAIN s
  PROVE  Distinct(Items(s, I))
  <1>1. I \in SUBSET Nat /\ IsFiniteSet(I)
    <2>1. DOMAIN s = 1 .. Len(s) /\ Len(s) \in Nat
      BY LenProperties
    <2>2. IsFiniteSet(I)
      BY ItemsProperties, Zenon
    <2>3. QED BY <2>1, <2>2
  <1>2. /\ Cardinality(I) \in Nat
        /\ \A i \in 1 .. Cardinality(I) : Smallest(i, I) \in I
        /\ \A i, j \in 1 .. Cardinality(I) : i < j => Smallest(i, I) < Smallest(j, I)
    BY <1>1, SmallestProperties
  <1>3. ASSUME NEW i \in 1 .. Cardinality(I), NEW j \in 1 .. Cardinality(I), i < j
        PROVE  s[Smallest(i, I)] # s[Smallest(j, I)]
    <2>1. Smallest(i, I) \in I /\ Smallest(j, I) \in I /\ Smallest(i, I) < Smallest(j, I)
      BY <1>2, <1>3
    <2>2. Smallest(i, I) # Smallest(j, I)
      <3>1. Smallest(i, I) \in Nat /\ Smallest(j, I) \in Nat
        BY <1>1, <2>1
      <3>2. QED BY <2>1, <3>1
    <2>3. QED BY <2>1, <2>2 DEF Distinct
  <1>0. Items(s, I) = [i \in 1 .. Cardinality(I) |-> s[Smallest(i, I)]]
    BY ItemsInOrder
  <1>4. /\ DOMAIN Items(s, I) = 1 .. Cardinality(I)
        /\ \A i \in 1 .. Cardinality(I) : Items(s, I)[i] = s[Smallest(i, I)]
    BY <1>0
  <1>5. QED BY <1>2, <1>3, <1>4 DEF Distinct

(* A sequence the other way round. *)
LEMMA ReverseProperties ==
  ASSUME NEW S, NEW s \in Seq(S)
  PROVE  /\ Reverse(s) \in Seq(S) /\ Len(Reverse(s)) = Len(s)
         /\ Distinct(s) => Distinct(Reverse(s))
         /\ Range(Reverse(s)) = Range(s)
  <1>1. Len(s) \in Nat /\ DOMAIN s = 1 .. Len(s) /\ s \in [1 .. Len(s) -> S]
    BY LenProperties
  <1>2. \A i \in 1 .. Len(s) : (Len(s) - i) + 1 \in 1 .. Len(s)
    BY <1>1
  <1>3. Reverse(s) \in [1 .. Len(s) -> S]
    BY <1>1, <1>2 DEF Reverse
  <1>4. Reverse(s) \in Seq(S) /\ Len(Reverse(s)) = Len(s) /\ DOMAIN Reverse(s) = 1 .. Len(s)
    BY <1>1, <1>3
  <1>5. \A i \in 1 .. Len(s) : Reverse(s)[i] = s[(Len(s) - i) + 1]
    BY DEF Reverse
  <1>6. ASSUME Distinct(s) PROVE Distinct(Reverse(s))
    <2>1. ASSUME NEW i \in 1 .. Len(s), NEW j \in 1 .. Len(s), Reverse(s)[i] = Reverse(s)[j]
          PROVE  i = j
      <3>1. (Len(s) - i) + 1 = (Len(s) - j) + 1
        BY <1>1, <1>2, <1>5, <1>6, <2>1 DEF Distinct
      <3>2. QED BY <1>1, <3>1
    <2>2. QED BY <1>4, <2>1 DEF Distinct
  <1>7. Range(Reverse(s)) = Range(s)
    <2>1. ASSUME NEW i \in 1 .. Len(s) PROVE Reverse(s)[(Len(s) - i) + 1] = s[i]
      <3>1. (Len(s) - ((Len(s) - i) + 1)) + 1 = i
        BY <1>1
      <3>2. QED BY <1>2, <1>5, <3>1
    <2>2. ASSUME NEW x \in Range(Reverse(s)) PROVE x \in Range(s)
      <3>1. PICK i \in 1 .. Len(s) : x = Reverse(s)[i]
        BY <1>4, <2>2 DEF Range
      <3>2. QED BY <1>1, <1>2, <1>5, <3>1 DEF Range
    <2>3. ASSUME NEW x \in Range(s) PROVE x \in Range(Reverse(s))
      <3>1. PICK i \in 1 .. Len(s) : x = s[i]
        BY <1>1, <2>3 DEF Range
      <3>2. (Len(s) - i) + 1 \in DOMAIN Reverse(s) /\ x = Reverse(s)[(Len(s) - i) + 1]
        BY <1>2, <1>4, <2>1, <3>1
      <3>3. QED BY <3>2 DEF Range
    <2>4. QED BY <2>2, <2>3
  <1>8. QED BY <1>4, <1>6, <1>7
=============================================================================
