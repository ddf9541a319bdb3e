-------------------- MODULE MatchFinderExplorationProofs --------------------
(***************************************************************************)
(* The properties of MatchFinderExploration hold for every number of       *)
(* functions, bands and matches, and the exploration implements            *)
(* MergeForest.  First come the lemmas on the two parts it composes.       *)
(***************************************************************************)
EXTENDS MatchFinderExploration, CommonLemmas

(***************************************************************************)
(* MatcherLSH: how often its buckets hold a function after a push, after a *)
(* pass of remove_candidate and after all its passes                       *)
(***************************************************************************)
LEMMA CountType ==
  ASSUME NEW E, NEW s \in Seq(E), NEW x
  PROVE  /\ IsFiniteSet({i \in DOMAIN s : s[i] = x})
         /\ Count(x, s) \in Nat
  <1>1. IsFiniteSet(DOMAIN s)
    BY LenProperties, FS_Interval
  <1>2. IsFiniteSet({i \in DOMAIN s : s[i] = x})
    BY <1>1, FS_Subset
  <1>3. QED BY <1>2, FS_CardinalityType DEF Count

LEMMA CountConcat ==
  ASSUME NEW E, NEW s \in Seq(E), NEW t \in Seq(E), NEW x
  PROVE  Count(x, s \o t) = Count(x, s) + Count(x, t)
  <1> DEFINE n == Len(s)
             A == {i \in DOMAIN s : s[i] = x}
             B == {i \in DOMAIN t : t[i] = x}
             C == {i \in DOMAIN (s \o t) : (s \o t)[i] = x}
             up == [j \in B |-> j + n]
             U == {j + n : j \in B}
  <1>1. /\ n \in Nat /\ DOMAIN s = 1 .. n /\ DOMAIN t = 1 .. Len(t) /\ Len(t) \in Nat
        /\ DOMAIN (s \o t) = 1 .. n + Len(t)
        /\ \A i \in 1 .. n + Len(t) : (s \o t)[i] = IF i <= n THEN s[i] ELSE t[i - n]
    BY LenProperties, ConcatProperties
  <1>2. IsFiniteSet(A) /\ IsFiniteSet(B) /\ Cardinality(A) \in Nat /\ Cardinality(B) \in Nat
    BY CountType, FS_CardinalityType
  <1>3. C = A \cup U /\ A \cap U = {}
    <2>1. ASSUME NEW i \in C PROVE i \in A \cup U
      <3>1. CASE i <= n
        BY <1>1, <3>1
      <3>2. CASE i > n
        <4>1. i - n \in B /\ i = (i - n) + n
          BY <1>1, <3>2
        <4>2. QED BY <4>1
      <3>3. QED BY <1>1, <3>1, <3>2
    <2>2. A \subseteq C
      BY <1>1
    <2>3. ASSUME NEW j \in B PROVE j + n \in C /\ j + n \notin A
      BY <1>1
    <2>4. QED BY <2>1, <2>2, <2>3
  <1>4. Cardinality(U) = Cardinality(B) /\ IsFiniteSet(U)
    <2>1. up \in Bijection(B, U)
      <3>1. up \in [B -> U] /\ (\A i, j \in B : up[i] = up[j] => i = j)
            /\ (\A u \in U : \E j \in B : up[j] = u)
        BY <1>1
      <3> HIDE DEF up, B, U
      <3>2. QED BY <3>1 DEF Bijection, Injection, Surjection, IsInjective
    <2> HIDE DEF up, B, U
    <2>2. ExistsBijection(B, U)
      BY <2>1 DEF ExistsBijection
    <2>3. QED BY <1>2, <2>2, FS_Bijection
  <1> HIDE DEF A, B, C, U, up
  <1>5. Cardinality(A \cup U) = Cardinality(A) + Cardinality(U) - Cardinality(A \cap U)
    BY <1>2, <1>4, FS_Union
  <1>6. Cardinality(A \cap U) = 0
    BY <1>3, FS_EmptySet
  <1>7. Cardinality(C) = Cardinality(A) + Cardinality(B)
    BY <1>2, <1>3, <1>4, <1>5, <1>6
  <1>8. QED BY <1>7 DEF A, B, C, Count

(* A push adds the function to the bucket of every band of its, as often as *)
(* the band occurs.                                                        *)
LEMMA PushedProperties ==
  ASSUME NEW buckets \in [Key -> Seq(Fn)], NEW f \in Fn, NEW h \in Seq(Key)
  PROVE  /\ Pushed(buckets, f, h) \in [Key -> Seq(Fn)]
         /\ \A g \in Fn, k \in Key :
              Count(g, Pushed(buckets, f, h)[k])
                = Count(g, buckets[k]) + IF g = f THEN Count(k, h) ELSE 0
  <1> DEFINE copies(n) == [i \in 1 .. n |-> f]
  <1>1. \A k \in Key : Count(k, h) \in Nat
    BY CountType
  <1>2. ASSUME NEW n \in Nat
        PROVE  /\ copies(n) \in Seq(Fn)
               /\ \A g : Count(g, copies(n)) = IF g = f THEN n ELSE 0
    <2>1. copies(n) \in Seq(Fn) /\ DOMAIN copies(n) = 1 .. n
      OBVIOUS
    <2>2. IsFiniteSet(1 .. n) /\ Cardinality(1 .. n) = n
      BY FS_Interval
    <2>3. ASSUME NEW g PROVE Count(g, copies(n)) = IF g = f THEN n ELSE 0
      <3> DEFINE A == {i \in DOMAIN copies(n) : copies(n)[i] = g}
      <3>1. A = IF g = f THEN 1 .. n ELSE {}
        OBVIOUS
      <3> HIDE DEF A
      <3>2. Cardinality(A) = IF g = f THEN n ELSE 0
        BY <2>2, <3>1, FS_EmptySet
      <3>3. QED BY <3>2 DEF A, Count
    <2>4. QED BY <2>1, <2>3
  <1>3. \A k \in Key : Pushed(buckets, f, h)[k] = buckets[k] \o copies(Count(k, h))
    BY DEF Pushed
  <1>4. Pushed(buckets, f, h) = [k \in Key |-> buckets[k] \o copies(Count(k, h))]
    BY DEF Pushed
  <1> HIDE DEF copies
  <1>5. \A k \in Key : buckets[k] \o copies(Count(k, h)) \in Seq(Fn)
    BY <1>1, <1>2, ConcatProperties
  <1>6. ASSUME NEW g \in Fn, NEW k \in Key
        PROVE  Count(g, Pushed(buckets, f, h)[k])
                 = Count(g, buckets[k]) + IF g = f THEN Count(k, h) ELSE 0
    <2> DEFINE c == copies(Count(k, h))
    <2>1. c \in Seq(Fn) /\ Count(g, c) = IF g = f THEN Count(k, h) ELSE 0
      BY <1>1, <1>2
    <2> HIDE DEF c
    <2>2. Count(g, buckets[k] \o c) = Count(g, buckets[k]) + Count(g, c)
      BY <2>1, CountConcat
    <2>3. QED BY <1>3, <2>1, <2>2 DEF c
  <1>7. QED BY <1>4, <1>5, <1>6

(* One pass leaves the other functions as they were and takes out at least  *)
(* one occurrence of the function, if there is any: the first.             *)
LEMMA ErasePassProperties ==
  ASSUME NEW bucket \in Seq(Fn), NEW f \in Fn
  PROVE  /\ ErasePass(bucket, f) \in Seq(Fn)
         /\ \A g \in Fn : Count(g, ErasePass(bucket, f)) <= Count(g, bucket)
         /\ \A g \in Fn \ {f} : Count(g, ErasePass(bucket, f)) = Count(g, bucket)
         /\ Count(f, bucket) # 0 => Count(f, ErasePass(bucket, f)) < Count(f, bucket)
  <1> DEFINE n == Len(bucket)
             body(e, i) == i > 0 /\ bucket[i] = f /\ ~ e[i - 1]
             erased == CHOOSE e : e = [i \in 0 .. n |-> body(e, i)]
             I == {i \in DOMAIN bucket : ~ erased[i]}
             op == [p \in (1 .. n) \X BOOLEAN |-> bucket[p[1]] = f /\ ~ p[2]]
             At(g) == {i \in DOMAIN bucket : bucket[i] = g}
             Left(g) == {i \in I : bucket[i] = g}
  <1>1. n \in Nat /\ DOMAIN bucket = 1 .. n
    BY LenProperties
  <1>2. \E e : e = [i \in 0 .. n |-> body(e, i)]
    <2>1. op \in [(1 .. n) \X BOOLEAN -> BOOLEAN] /\ FALSE \in BOOLEAN
      OBVIOUS
    <2>2. \A i \in 1 .. n, b \in BOOLEAN : op[<<i, b>>] = (bucket[i] = f /\ ~ b)
      OBVIOUS
    <2> HIDE DEF op, n
    <2>3. PICK e : IsChain(e, n, BOOLEAN, FALSE, op)
      BY <1>1, <2>1, ChainRecursion
    <2>4. ASSUME NEW i \in 0 .. n
          PROVE  e[i] = body(e, i)
      <3>1. CASE i = 0
        <4>1. body(e, 0) = FALSE
          OBVIOUS
        <4>2. QED BY <2>3, <3>1, <4>1 DEF IsChain
      <3>2. CASE i # 0
        <4>1. i \in 1 .. n /\ i - 1 \in 0 .. n /\ i > 0
          BY <1>1, <3>2
        <4>2. e[i - 1] \in BOOLEAN /\ e[i] = op[<<i, e[i - 1]>>]
          BY <2>3, <4>1 DEF IsChain
        <4>3. op[<<i, e[i - 1]>>] = (bucket[i] = f /\ ~ e[i - 1])
          BY <2>2, <4>1, <4>2, Zenon
        <4>4. QED BY <4>1, <4>2, <4>3, Zenon
      <3>3. QED BY <3>1, <3>2
    <2> HIDE DEF body
    <2>5. e = [i \in 0 .. n |-> body(e, i)]
      BY <2>3, <2>4 DEF IsChain
    <2>6. QED BY <2>5
  <1>3. erased = [i \in 0 .. n |-> body(erased, i)]
    <2> HIDE DEF body
    <2>1. QED BY <1>2
  <1>4. ErasePass(bucket, f) = Items(bucket, I)
    BY DEF ErasePass
  <1> HIDE DEF erased
  <1>5. \A i \in 1 .. n : erased[i] <=> bucket[i] = f /\ ~ erased[i - 1]
    BY <1>1, <1>3
  <1>6. ~ erased[0]
    <2>1. body(erased, 0) = FALSE
      OBVIOUS
    <2> HIDE DEF body
    <2>2. erased[0] = body(erased, 0)
      BY <1>1, <1>3
    <2>3. QED BY <2>1, <2>2
  <1> HIDE DEF body, op, n
  <1>7. I \in SUBSET DOMAIN bucket
    OBVIOUS
  <1> HIDE DEF I
  <1>8. Items(bucket, I) \in Seq(Fn) /\ \A g : Count(g, Items(bucket, I)) = Cardinality(Left(g))
    <2>0. bucket \in Seq(Fn)
      OBVIOUS
    <2>1. /\ Items(bucket, I) \in Seq(Fn)
          /\ \A g : Cardinality(Occurrences(g, Items(bucket, I), DOMAIN Items(bucket, I)))
                     = Cardinality(Occurrences(g, bucket, I))
      BY <1>7, <2>0, ItemsProperties, Zenon
    <2>2. \A g : Count(g, Items(bucket, I)) = Cardinality(Left(g))
      BY <2>1, Zenon DEF Count, Occurrences
    <2>3. QED BY <2>1, <2>2
  <1>9. \A g : IsFiniteSet(At(g)) /\ Cardinality(At(g)) = Count(g, bucket)
    BY CountType DEF Count
  <1>10. ASSUME NEW g \in Fn PROVE Cardinality(Left(g)) <= Cardinality(At(g))
    <2>1. Left(g) \in SUBSET At(g)
      BY <1>7
    <2> HIDE DEF At, Left
    <2>2. QED BY <1>9, <2>1, FS_Subset
  <1>11. ASSUME NEW g \in Fn \ {f} PROVE Left(g) = At(g)
    BY <1>1, <1>5, <1>11 DEF I
  <1>12. ASSUME Count(f, bucket) # 0
         PROVE  Cardinality(Left(f)) < Cardinality(At(f))
    <2>1. At(f) \in SUBSET Nat /\ At(f) # {}
      <3>1. At(f) \in SUBSET Nat
        BY <1>1
      <3> HIDE DEF At
      <3>2. QED BY <1>9, <1>12, <3>1, FS_EmptySet
    <2>2. PICK i \in At(f) : \A j \in At(f) : i <= j
      <3> HIDE DEF At
      <3>1. QED BY <2>1, NatMin
    <2>3. ~ erased[i - 1]
      <3>1. CASE i = 1
        BY <1>6, <3>1
      <3>2. CASE i # 1
        <4>1. i - 1 \in 1 .. n /\ bucket[i - 1] # f
          BY <1>1, <2>2, <3>2
        <4>2. QED BY <1>5, <4>1
      <3>3. QED BY <3>1, <3>2
    <2>4. i \notin Left(f) /\ Left(f) \in SUBSET At(f)
      BY <1>1, <1>5, <1>7, <2>3 DEF I
    <2> HIDE DEF At, Left
    <2>5. Left(f) # At(f)
      BY <2>2, <2>4
    <2>6. Cardinality(Left(f)) <= Cardinality(At(f)) /\ Cardinality(Left(f)) # Cardinality(At(f))
          /\ Cardinality(Left(f)) \in Nat /\ Cardinality(At(f)) \in Nat
      BY <1>9, <2>4, <2>5, FS_Subset, FS_CardinalityType
    <2>7. QED BY <2>6
  <1> HIDE DEF At, Left
  <1>13. QED BY <1>4, <1>8, <1>9, <1>10, <1>11, <1>12

(* As many passes as there are occurrences take all of them out. *)
LEMMA ErasedProperties ==
  ASSUME NEW buckets \in [Key -> Seq(Fn)], NEW f \in Fn,
         bandHash \in [Fn -> Seq(Key)]
  PROVE  /\ Erased(buckets, f) \in [Key -> Seq(Fn)]
         /\ \A g \in Fn \ {f}, k \in Key :
              Count(g, Erased(buckets, f)[k]) = Count(g, buckets[k])
         /\ \A k \in Key : Count(f, buckets[k]) <= Count(k, bandHash[f])
              => Count(f, Erased(buckets, f)[k]) = 0
  <1> DEFINE passes(k) == Count(k, bandHash[f])
             body(k, a, i) == IF i = 0 THEN buckets[k] ELSE ErasePass(a[i - 1], f)
             after(k) == CHOOSE a : a = [i \in 0 .. passes(k) |-> body(k, a, i)]
  <1>1. \A k \in Key : passes(k) \in Nat
    BY CountType
  <1>2. Erased(buckets, f) = [k \in Key |-> after(k)[passes(k)]]
    BY DEF Erased
  <1> HIDE DEF passes
  <1>3. ASSUME NEW k \in Key
        PROVE  /\ after(k)[passes(k)] \in Seq(Fn)
               /\ \A g \in Fn \ {f} : Count(g, after(k)[passes(k)]) = Count(g, buckets[k])
               /\ Count(f, buckets[k]) <= passes(k) => Count(f, after(k)[passes(k)]) = 0
    <2> DEFINE n == passes(k)
               a == after(k)
               V == Seq(Fn)
               op == [p \in (1 .. n) \X V |-> ErasePass(p[2], f)]
    <2>1. n \in Nat /\ buckets[k] \in V
      BY <1>1
    <2>2. \E e : e = [i \in 0 .. n |-> body(k, e, i)]
      <3>1. op \in [(1 .. n) \X V -> V]
        BY ErasePassProperties
      <3>2. \A i \in 1 .. n, b \in V : op[<<i, b>>] = ErasePass(b, f)
        OBVIOUS
      <3> HIDE DEF op, n, V
      <3>3. PICK e : IsChain(e, n, V, buckets[k], op)
        BY <2>1, <3>1, ChainRecursion
      <3>4. ASSUME NEW i \in 0 .. n
            PROVE  e[i] = body(k, e, i)
        <4>1. CASE i # 0
          <5>1. i \in 1 .. n /\ i - 1 \in 0 .. n
            BY <2>1, <4>1
          <5>2. e[i] = op[<<i, e[i - 1]>>] /\ e[i - 1] \in V
            BY <3>3, <5>1 DEF IsChain
          <5>3. QED BY <3>2, <4>1, <5>1, <5>2
        <4>2. QED BY <3>3, <4>1 DEF IsChain
      <3> HIDE DEF body
      <3>5. e = [i \in 0 .. n |-> body(k, e, i)]
        BY <3>3, <3>4 DEF IsChain
      <3>6. QED BY <3>5
    <2>3. a = [i \in 0 .. n |-> body(k, a, i)]
      <3> HIDE DEF body
      <3>1. QED BY <2>2
    <2> HIDE DEF a, n, V, op
    <2>4. /\ a[0] = buckets[k]
          /\ \A i \in 1 .. n : a[i] = ErasePass(a[i - 1], f)
      BY <2>1, <2>3
    <2> DEFINE Right(i) ==
                 /\ a[i] \in Seq(Fn)
                 /\ \A g \in Fn \ {f} : Count(g, a[i]) = Count(g, buckets[k])
                 /\ Count(f, a[i]) = 0 \/ Count(f, a[i]) + i <= Count(f, buckets[k])
               T == {i \in Nat : i <= n => Right(i)}
    <2>5. 0 \in T
      <3>1. Count(f, buckets[k]) \in Nat
        BY CountType
      <3>2. QED BY <2>4, <3>1
    <2>6. ASSUME NEW i \in T PROVE i + 1 \in T
      <3>1. SUFFICES ASSUME i + 1 <= n PROVE Right(i + 1)
        OBVIOUS
      <3>2. i \in Nat /\ i <= n /\ i + 1 \in 1 .. n /\ (i + 1) - 1 = i
        BY <2>1, <3>1
      <3>3. Right(i)
        BY <3>2
      <3> DEFINE b == a[i]
      <3>4. a[i + 1] = ErasePass(b, f)
        BY <2>4, <3>2
      <3>5. b \in Seq(Fn)
        BY <3>3
      <3>6. /\ ErasePass(b, f) \in Seq(Fn)
            /\ \A g \in Fn \ {f} : Count(g, ErasePass(b, f)) = Count(g, b)
            /\ Count(f, ErasePass(b, f)) <= Count(f, b)
            /\ Count(f, b) # 0 => Count(f, ErasePass(b, f)) < Count(f, b)
        <4> HIDE DEF b
        <4>1. QED BY <3>5, ErasePassProperties
      <3>7. Count(f, ErasePass(b, f)) \in Nat /\ Count(f, b) \in Nat
            /\ Count(f, buckets[k]) \in Nat
        BY <2>1, <3>5, <3>6, CountType
      <3>8. Count(f, a[i + 1]) = 0 \/ Count(f, a[i + 1]) + (i + 1) <= Count(f, buckets[k])
        <4> DEFINE c == Count(f, ErasePass(b, f))
        <4>1. Count(f, b) = 0 \/ Count(f, b) + i <= Count(f, buckets[k])
          BY <3>3
        <4>2. c <= Count(f, b) /\ (Count(f, b) # 0 => c < Count(f, b)) /\ c \in Nat
          BY <3>6, <3>7
        <4> HIDE DEF c, b
        <4>3. c = 0 \/ c + (i + 1) <= Count(f, buckets[k])
          BY <3>2, <3>7, <4>1, <4>2
        <4>4. QED BY <3>4, <4>3 DEF c
      <3>9. QED BY <3>3, <3>4, <3>6, <3>8
    <2>7. n \in T
      <3>1. T \in SUBSET Nat
        OBVIOUS
      <3> HIDE DEF T
      <3>2. T = Nat
        BY <2>5, <2>6, <3>1, NatSet
      <3>3. QED BY <2>1, <3>2
    <2>8. Right(n)
      BY <2>1, <2>7
    <2>9. ASSUME Count(f, buckets[k]) <= n PROVE Count(f, a[n]) = 0
      <3>1. Count(f, a[n]) \in Nat
        BY <2>8, CountType
      <3>2. Count(f, buckets[k]) \in Nat
        BY <2>1, CountType
      <3>3. QED BY <2>1, <2>8, <2>9, <3>1, <3>2
    <2>10. QED BY <2>8, <2>9 DEF a, n
  <1> HIDE DEF after
  <1>4. QED BY <1>2, <1>3 DEF passes

(* remove_candidate for every function of R. *)
ErasedAll(buckets, R) == FoldSet(LAMBDA g, b : Erased(b, g), buckets, R)

LEMMA ErasedAllProperties ==
  ASSUME NEW buckets \in [Key -> Seq(Fn)], NEW R \in SUBSET Fn, IsFiniteSet(R),
         bandHash \in [Fn -> Seq(Key)],
         \A f \in R, k \in Key : Count(f, buckets[k]) <= Count(k, bandHash[f])
  PROVE  /\ ErasedAll(buckets, R) \in [Key -> Seq(Fn)]
         /\ \A g \in Fn, k \in Key :
              Count(g, ErasedAll(buckets, R)[k]) = IF g \in R THEN 0 ELSE Count(g, buckets[k])
  <1> DEFINE V == [Key -> Seq(Fn)]
             pick == [s \in (SUBSET R) \ {{}} |-> CHOOSE x \in s : TRUE]
             op == [p \in R \X V |-> Erased(p[2], p[1])]
             body(e, s) == IF s = {} THEN buckets
                           ELSE LET x == CHOOSE x \in s : TRUE IN Erased(e[s \ {x}], x)
             fold == CHOOSE e : e = [s \in SUBSET R |-> body(e, s)]
  <1>1. pick \in [(SUBSET R) \ {{}} -> R] /\ \A s \in (SUBSET R) \ {{}} : pick[s] \in s
    OBVIOUS
  <1>2. op \in [R \X V -> V]
    BY ErasedProperties
  <1>3. ErasedAll(buckets, R) = fold[R]
    BY DEF ErasedAll, FoldSet, MapThenFoldSet
  <1>4. \A s \in (SUBSET R) \ {{}} : pick[s] = CHOOSE x \in s : TRUE
    OBVIOUS
  <1>5. \A x \in R, b \in V : op[<<x, b>>] = Erased(b, x)
    OBVIOUS
  <1>6. buckets \in V
    OBVIOUS
  <1>7. \A e : body(e, {}) = buckets
    OBVIOUS
  <1>8. \A e : \A s \in (SUBSET R) \ {{}} : body(e, s) = Erased(e[s \ {pick[s]}], pick[s])
    BY <1>4
  <1> HIDE DEF V, pick, op, body
  <1>9. \E e : e = [s \in SUBSET R |-> body(e, s)]
    <2>1. PICK e : IsSetFold(e, R, V, buckets, op, pick)
      BY <1>1, <1>2, <1>6, SetRecursion
    <2>2. ASSUME NEW s \in SUBSET R PROVE e[s] = body(e, s)
      <3>1. CASE s = {}
        <4>1. e[{}] = buckets
          BY <2>1 DEF IsSetFold
        <4>2. body(e, {}) = buckets
          BY <1>7
        <4>3. QED BY <3>1, <4>1, <4>2
      <3>2. CASE s # {}
        <4>1. s \in (SUBSET R) \ {{}} /\ pick[s] \in R /\ s \ {pick[s]} \in SUBSET R
          BY <1>1, <3>2
        <4>2. e[s] = op[<<pick[s], e[s \ {pick[s]}]>>] /\ e[s \ {pick[s]}] \in V
          BY <2>1, <4>1 DEF IsSetFold
        <4> DEFINE x == pick[s]
                   b == e[s \ {x}]
        <4>3. x \in R /\ b \in V /\ e[s] = op[<<x, b>>] /\ body(e, s) = Erased(b, x)
          BY <1>8, <4>1, <4>2, Zenon
        <4> HIDE DEF x, b
        <4>4. op[<<x, b>>] = Erased(b, x)
          BY <1>5, <4>3
        <4>5. QED BY <4>3, <4>4
      <3>3. QED BY <3>1, <3>2
    <2>3. e = [s \in SUBSET R |-> body(e, s)]
      BY <2>1, <2>2 DEF IsSetFold
    <2>4. QED BY <2>3
  <1>10. fold = [s \in SUBSET R |-> body(fold, s)]
    BY <1>9
  <1> HIDE DEF fold
  <1> DEFINE Right(s) ==
               /\ fold[s] \in V
               /\ \A g \in Fn, k \in Key :
                    Count(g, fold[s][k]) = IF g \in s THEN 0 ELSE Count(g, buckets[k])
             T == {s \in SUBSET R : Right(s)}
  <1>11. ASSUME NEW s \in SUBSET R, \A x \in s : s \ {x} \in T
         PROVE  s \in T
    <2>1. CASE s = {}
      BY <1>6, <1>7, <1>10, <2>1
    <2>2. CASE s # {}
      <3> DEFINE x == pick[s]
                 t == s \ {x}
      <3>1. x \in s /\ x \in R /\ x \in Fn
        BY <1>1, <2>2
      <3>2. Right(t)
        BY <1>11, <3>1
      <3>3. fold[s] = Erased(fold[t], x)
        BY <1>8, <1>10, <2>2
      <3> DEFINE b == fold[t]
      <3> HIDE DEF x
      <3>4. b \in [Key -> Seq(Fn)]
        BY <3>2 DEF V
      <3>5. \A k \in Key : Count(x, b[k]) <= Count(k, bandHash[x])
        <4>1. \A k \in Key : Count(x, b[k]) = Count(x, buckets[k])
          BY <3>1, <3>2
        <4>2. QED BY <3>1, <4>1
      <3>6. \A g \in Fn, k \in Key : Count(g, b[k]) = IF g \in t THEN 0 ELSE Count(g, buckets[k])
        BY <3>2
      <3> HIDE DEF b, t
      <3>7. /\ Erased(b, x) \in [Key -> Seq(Fn)]
            /\ \A g \in Fn \ {x}, k \in Key : Count(g, Erased(b, x)[k]) = Count(g, b[k])
            /\ \A k \in Key : Count(x, b[k]) <= Count(k, bandHash[x])
                 => Count(x, Erased(b, x)[k]) = 0
        BY <3>1, <3>4, ErasedProperties
      <3>8. \A g \in Fn, k \in Key :
              Count(g, Erased(b, x)[k]) = IF g \in s THEN 0 ELSE Count(g, buckets[k])
        <4> TAKE g \in Fn, k \in Key
        <4>1. CASE g = x
          BY <3>1, <3>5, <3>7, <4>1
        <4>2. CASE g # x
          <5>1. g \in s <=> g \in t
            BY <4>2 DEF t
          <5>2. Count(g, Erased(b, x)[k]) = Count(g, b[k])
            BY <3>7, <4>2
          <5>3. QED BY <3>6, <5>1, <5>2
        <4>3. QED BY <4>1, <4>2
      <3>9. fold[s] = Erased(b, x)
        BY <3>3 DEF b, t
      <3>10. QED BY <3>7, <3>8, <3>9 DEF V
    <2>3. QED BY <2>1, <2>2
  <1>12. R \in T
    <2>1. T \in SUBSET SUBSET R
      OBVIOUS
    <2> HIDE DEF T
    <2>2. T = SUBSET R
      BY <1>11, <2>1, SubsetInduction
    <2>3. QED BY <2>2
  <1>13. QED BY <1>3, <1>12 DEF V

(***************************************************************************)
(* SetPartitions lists exactly the groupings it is meant to list, for every *)
(* number of functions                                                     *)
(***************************************************************************)
Index(n) == 0 .. n - 1

GroupOf(c) == IF c.pick THEN c.group \cup {Min(c.rest)} ELSE c.group

(* The body of GroupCombinations, for a recursive function e. *)
Step(n, size, c, e) ==
  LET group == IF c.pick THEN c.group \cup {Min(c.rest)} ELSE c.group
      groups == c.groups \cup {group}
      others == NewItems(c.items, group)
      Branch(items, rest, g, gs) ==
        e[[items |-> items, rest |-> rest, group |-> g, groups |-> gs, pick |-> TRUE]]
          \o e[[items |-> items, rest |-> rest, group |-> g, groups |-> gs, pick |-> FALSE]]
  IN IF c.pick /\ Cardinality(group) = size
     THEN IF Cardinality(groups) = n \div size THEN << groups >>
          ELSE IF Cardinality(others) < size THEN << >>
          ELSE Branch(others, others, {}, groups)
     ELSE IF Cardinality(c.rest) <= 1 THEN << >>
     ELSE Branch(c.items, c.rest \ {Min(c.rest)}, group, c.groups)

(* c fills a group, c fills the last group, c ends without a result. *)
Fills(size, c) == c.pick /\ Cardinality(GroupOf(c)) = size

Completes(n, size, c) ==
  Fills(size, c) /\ Cardinality(c.groups \cup {GroupOf(c)}) = n \div size

Stops(size, c) ==
  IF Fills(size, c) THEN Cardinality(c.items \ GroupOf(c)) < size
  ELSE Cardinality(c.rest) <= 1

(* The calls that c makes, with pick either way. *)
Sub(size, c, pick) ==
  IF Fills(size, c)
  THEN [items |-> c.items \ GroupOf(c), rest |-> c.items \ GroupOf(c), group |-> {},
        groups |-> c.groups \cup {GroupOf(c)}, pick |-> pick]
  ELSE [items |-> c.items, rest |-> c.rest \ {Min(c.rest)}, group |-> GroupOf(c),
        groups |-> c.groups, pick |-> pick]

Root(n) == [items |-> 0 .. n - 1, rest |-> 0 .. n - 1, group |-> {},
            groups |-> {}, pick |-> TRUE]

Grouping(n) == SUBSET SUBSET (0 .. n - 1)

LEMMA StepCases ==
  ASSUME NEW n, NEW size, NEW c, NEW e
  PROVE  Step(n, size, c, e) =
           IF Completes(n, size, c) THEN << c.groups \cup {GroupOf(c)} >>
           ELSE IF Stops(size, c) THEN << >>
           ELSE e[Sub(size, c, TRUE)] \o e[Sub(size, c, FALSE)]
  <1>1. CASE Fills(size, c)
    BY <1>1 DEF Step, Completes, Stops, Sub, Fills, GroupOf, NewItems
  <1>2. CASE ~ Fills(size, c)
    BY <1>2 DEF Step, Completes, Stops, Sub, Fills, GroupOf, NewItems
  <1>3. QED BY <1>1, <1>2

LEMMA CallFacts ==
  ASSUME NEW n \in Nat, NEW c \in Call(n)
  PROVE  /\ c.items \in SUBSET (0 .. n - 1) /\ c.rest \in SUBSET c.items
         /\ c.rest # {} /\ c.group \in SUBSET (0 .. n - 1)
         /\ c.groups \in Grouping(n) /\ c.pick \in BOOLEAN
         /\ Min(c.rest) \in c.rest /\ \A x \in c.rest : Min(c.rest) <= x
         /\ GroupOf(c) \in SUBSET (0 .. n - 1)
         /\ \A s \in SUBSET (0 .. n - 1) : IsFiniteSet(s) /\ Cardinality(s) \in Nat
                                           /\ Cardinality(s) <= n
  <1>1. /\ c.items \in SUBSET (0 .. n - 1) /\ c.rest \in SUBSET c.items
        /\ c.rest # {} /\ c.group \in SUBSET (0 .. n - 1)
        /\ c.groups \in Grouping(n) /\ c.pick \in BOOLEAN
    BY DEF Call, Grouping
  <1>2. Min(c.rest) \in c.rest /\ \A x \in c.rest : Min(c.rest) <= x
    <2>1. c.rest \in SUBSET Nat
      BY <1>1
    <2>2. QED BY <1>1, <2>1, MinProperties
  <1>3. GroupOf(c) \in SUBSET (0 .. n - 1)
    BY <1>1, <1>2 DEF GroupOf
  <1>4. \A s \in SUBSET (0 .. n - 1) : IsFiniteSet(s) /\ Cardinality(s) \in Nat
                                       /\ Cardinality(s) <= n
    <2>1. IsFiniteSet(0 .. n - 1) /\ Cardinality(0 .. n - 1) = n
      BY FS_Interval
    <2>2. QED BY <2>1, FS_Subset, FS_CardinalityType
  <1>5. QED BY <1>1, <1>2, <1>3, <1>4

(* The recursion ends: items are taken out when a group is full, and until  *)
(* then the rest shrinks.                                                  *)
Measure(n) == [c \in Call(n) |-> Cardinality(c.items) * (n + 1) + Cardinality(c.rest)]

LEMMA SubIsSmaller ==
  ASSUME NEW n \in Nat, NEW size \in Nat \ {0}, NEW c \in Call(n), NEW pick \in BOOLEAN,
         ~ Stops(size, c)
  PROVE  /\ Sub(size, c, pick) \in Call(n)
         /\ Measure(n)[Sub(size, c, pick)] < Measure(n)[c]
  <1>0. /\ c.items \in SUBSET (0 .. n - 1) /\ c.rest \in SUBSET c.items
        /\ c.rest # {} /\ c.group \in SUBSET (0 .. n - 1)
        /\ c.groups \in Grouping(n) /\ c.pick \in BOOLEAN
        /\ Min(c.rest) \in c.rest
        /\ GroupOf(c) \in SUBSET (0 .. n - 1)
        /\ \A s \in SUBSET (0 .. n - 1) : IsFiniteSet(s) /\ Cardinality(s) \in Nat
                                          /\ Cardinality(s) <= n
    BY CallFacts
  <1> DEFINE d == Sub(size, c, pick)
  <1>1. CASE Fills(size, c)
    <2> DEFINE others == c.items \ GroupOf(c)
    <2>1. d = [items |-> others, rest |-> others, group |-> {},
               groups |-> c.groups \cup {GroupOf(c)}, pick |-> pick]
      BY <1>1 DEF Sub
    <2>2. Min(c.rest) \in GroupOf(c) /\ Min(c.rest) \in c.items
      BY <1>0, <1>1 DEF Fills, GroupOf
    <2>3. others \in SUBSET (0 .. n - 1) /\ others \in SUBSET (c.items \ {Min(c.rest)})
      BY <1>0, <2>2
    <2>4. ~ (Cardinality(others) < size)
      BY <1>1 DEF Stops
    <2>5. c.groups \cup {GroupOf(c)} \in Grouping(n)
      BY <1>0 DEF Grouping
    <2> HIDE DEF others
    <2>6. others # {}
      BY <2>4, FS_EmptySet
    <2>7. d \in Call(n)
      BY <2>1, <2>3, <2>5, <2>6 DEF Call, Grouping
    <2>8. Cardinality(others) <= Cardinality(c.items) - 1
      <3>1. IsFiniteSet(c.items \ {Min(c.rest)})
            /\ Cardinality(c.items \ {Min(c.rest)}) = Cardinality(c.items) - 1
        BY <1>0, <2>2, FS_RemoveElement
      <3>2. Cardinality(others) <= Cardinality(c.items \ {Min(c.rest)})
        BY <2>3, <3>1, FS_Subset
      <3>3. QED BY <3>1, <3>2
    <2>9. Measure(n)[d] < Measure(n)[c]
      <3> DEFINE a == Cardinality(c.items)
                 b == Cardinality(c.rest)
                 o == Cardinality(others)
      <3>1. Measure(n)[d] = o * (n + 1) + o
        BY <2>1, <2>7 DEF Measure
      <3>2. Measure(n)[c] = a * (n + 1) + b
        BY DEF Measure
      <3>3. a \in Nat /\ b \in Nat /\ o \in Nat /\ o <= n /\ o <= a - 1
        BY <1>0, <2>3, <2>8
      <3> HIDE DEF a, b, o
      <3>4. o * (n + 1) <= (a - 1) * (n + 1)
        <4>1. o * (n + 1) + ((a - 1) - o) * (n + 1) = (a - 1) * (n + 1)
          BY <3>3
        <4>2. ((a - 1) - o) \in Nat /\ ((a - 1) - o) * (n + 1) \in Nat
          BY <3>3
        <4>3. o * (n + 1) \in Nat /\ (a - 1) * (n + 1) \in Int
          BY <3>3
        <4>4. QED BY <4>1, <4>2, <4>3
      <3>5. (a - 1) * (n + 1) = a * (n + 1) - (n + 1)
        BY <3>3
      <3>6. a * (n + 1) \in Nat /\ o * (n + 1) \in Nat
        BY <3>3
      <3>7. QED BY <3>1, <3>2, <3>3, <3>4, <3>5, <3>6
    <2>10. QED BY <2>7, <2>9
  <1>2. CASE ~ Fills(size, c)
    <2> DEFINE rest == c.rest \ {Min(c.rest)}
    <2>1. d = [items |-> c.items, rest |-> rest, group |-> GroupOf(c),
               groups |-> c.groups, pick |-> pick]
      BY <1>2 DEF Sub
    <2>2. c.rest \in SUBSET (0 .. n - 1)
      BY <1>0
    <2>3. ~ (Cardinality(c.rest) <= 1)
      BY <1>2 DEF Stops
    <2>4. rest \in SUBSET c.items /\ rest \in SUBSET (0 .. n - 1)
      BY <1>0
    <2>5. Cardinality(rest) = Cardinality(c.rest) - 1
      BY <1>0, <2>2, FS_RemoveElement
    <2> HIDE DEF rest
    <2>6. Cardinality(c.rest) \in Nat /\ Cardinality(c.items) \in Nat
      BY <1>0, <2>2
    <2>7. rest # {}
      <3>1. SUFFICES ASSUME rest = {} PROVE FALSE
        OBVIOUS
      <3>2. Cardinality(rest) = 0
        BY <3>1, FS_EmptySet
      <3>3. QED BY <2>3, <2>5, <2>6, <3>2
    <2>8. d \in Call(n)
      <3>1. /\ c.items \in SUBSET (0 .. n - 1) /\ c.groups \in Grouping(n)
            /\ GroupOf(c) \in SUBSET (0 .. n - 1)
        BY <1>0
      <3>2. c.groups \in SUBSET SUBSET (0 .. n - 1)
        BY <3>1 DEF Grouping
      <3> HIDE DEF d
      <3>3. /\ d \in [items : SUBSET (0 .. n - 1), rest : SUBSET (0 .. n - 1),
                     group : SUBSET (0 .. n - 1), groups : SUBSET SUBSET (0 .. n - 1),
                     pick : BOOLEAN]
            /\ d.rest = rest /\ d.items = c.items
        BY <2>1, <2>4, <3>1, <3>2
      <3>4. QED BY <2>4, <2>7, <3>3 DEF Call
    <2>9. Measure(n)[d] < Measure(n)[c]
      <3>1. Measure(n)[d] = Cardinality(c.items) * (n + 1) + Cardinality(rest)
        BY <2>1, <2>8 DEF Measure
      <3>2. Measure(n)[c] = Cardinality(c.items) * (n + 1) + Cardinality(c.rest)
        BY DEF Measure
      <3>3. Cardinality(c.items) * (n + 1) \in Nat
        BY <2>6
      <3>4. QED BY <2>5, <2>6, <3>1, <3>2, <3>3
    <2>10. QED BY <2>8, <2>9
  <1>3. QED BY <1>1, <1>2

Combine(n, size) == CHOOSE e : e = [c \in Call(n) |-> Step(n, size, c, e)]

(* The result of a call is the one its body computes. *)
LEMMA CombineIsRecursive ==
  ASSUME NEW n \in Nat, NEW size \in Nat \ {0}
  PROVE  /\ GroupCombinations(n, size) = Combine(n, size)[Root(n)]
         /\ \A c \in Call(n) : Combine(n, size)[c] = Step(n, size, c, Combine(n, size))
  <1> DEFINE D == Call(n)
             V == Seq(Grouping(n))
             m == Measure(n)
             step == [p \in D \X [D -> V] |-> Step(n, size, p[1], p[2])]
  <1>1. GroupCombinations(n, size) = Combine(n, size)[Root(n)]
    BY DEF GroupCombinations, Combine, Step, Root
  <1>2. m \in [D -> Nat]
    <2>1. ASSUME NEW c \in D
          PROVE  Cardinality(c.items) * (n + 1) + Cardinality(c.rest) \in Nat
      <3>1. c.items \in SUBSET (0 .. n - 1) /\ c.rest \in SUBSET (0 .. n - 1)
        BY DEF Call
      <3>2. Cardinality(c.items) \in Nat /\ Cardinality(c.rest) \in Nat
        BY <3>1, CallFacts
      <3>3. QED BY <3>2
    <2> HIDE DEF D
    <2>2. QED BY <2>1 DEF Measure, D
  <1>3. ASSUME NEW c \in D, ~ Stops(size, c), NEW pick \in BOOLEAN
        PROVE  Sub(size, c, pick) \in D /\ m[Sub(size, c, pick)] < m[c]
    BY <1>3, SubIsSmaller
  <1>4. ASSUME NEW c \in D PROVE << c.groups \cup {GroupOf(c)} >> \in V
    <2>1. c.groups \cup {GroupOf(c)} \in Grouping(n)
      BY CallFacts DEF Grouping
    <2> DEFINE x == c.groups \cup {GroupOf(c)}
    <2> HIDE DEF x, D, m
    <2>2. x \in Grouping(n)
      BY <2>1 DEF x
    <2>3. <<x>> \in V
      BY <2>2
    <2>4. QED BY <2>3 DEF x
  <1> HIDE DEF D, V, m
  <1>5. ASSUME NEW c \in D, NEW e \in [D -> V] PROVE Step(n, size, c, e) \in V
    <2>1. CASE Completes(n, size, c)
      BY <1>4, <2>1, StepCases
    <2>2. CASE ~ Completes(n, size, c) /\ Stops(size, c)
      <3>1. Step(n, size, c, e) = << >>
        BY <2>2, StepCases
      <3>2. QED BY <3>1 DEF V
    <2>3. CASE ~ Completes(n, size, c) /\ ~ Stops(size, c)
      <3>1. e[Sub(size, c, TRUE)] \in V /\ e[Sub(size, c, FALSE)] \in V
        BY <1>3, <2>3
      <3>2. e[Sub(size, c, TRUE)] \o e[Sub(size, c, FALSE)] \in V
        BY <3>1, ConcatProperties DEF V
      <3>3. QED BY <2>3, <3>2, StepCases
    <2>4. QED BY <2>1, <2>2, <2>3
  <1>6. step \in [D \X [D -> V] -> V]
    BY <1>5
  <1>7. \A c \in D, e \in [D -> V] : step[<<c, e>>] = Step(n, size, c, e)
    OBVIOUS
  <1>8. ASSUME NEW c \in D, NEW g \in [D -> V], NEW h \in [D -> V],
               \A d \in D : m[d] < m[c] => g[d] = h[d]
        PROVE  Step(n, size, c, g) = Step(n, size, c, h)
    <2>1. CASE Completes(n, size, c) \/ Stops(size, c)
      BY <2>1, StepCases
    <2>2. CASE ~ Completes(n, size, c) /\ ~ Stops(size, c)
      <3>1. /\ g[Sub(size, c, TRUE)] = h[Sub(size, c, TRUE)]
            /\ g[Sub(size, c, FALSE)] = h[Sub(size, c, FALSE)]
        BY <1>3, <1>8, <2>2
      <3>2. QED BY <2>2, <3>1, StepCases
    <2>3. QED BY <2>1, <2>2
  <1> HIDE DEF step
  <1>9. IsRecursion(step, m, D, V)
    BY <1>2, <1>6, <1>7, <1>8 DEF IsRecursion
  <1>10. << >> \in V
    BY DEF V
  <1>11. PICK f : Solves(f, step, D, V)
    BY <1>9, <1>10, Recursion
  <1>12. f \in [D -> V] /\ \A c \in D : f[c] = Step(n, size, c, f)
    BY <1>7, <1>11 DEF Solves
  <1>13. f = [c \in D |-> Step(n, size, c, f)]
    BY <1>12
  <1>14. Combine(n, size) = [c \in D |-> Step(n, size, c, Combine(n, size))]
    BY <1>13 DEF Combine, D
  <1>15. QED BY <1>1, <1>14 DEF D

(* Induction along the calls. *)
LEMMA CallInduction ==
  ASSUME NEW n \in Nat, NEW size \in Nat \ {0}, NEW T \in SUBSET Call(n),
         \A c \in Call(n) :
           (\A pick \in BOOLEAN : ~ Stops(size, c) => Sub(size, c, pick) \in T) => c \in T
  PROVE  T = Call(n)
  <1> DEFINE B == {Measure(n)[c] : c \in Call(n) \ T}
  <1> SUFFICES ASSUME Call(n) \ T # {} PROVE FALSE
    OBVIOUS
  <1>1. \A c \in Call(n) : Measure(n)[c] \in Nat
    <2> TAKE c \in Call(n)
    <2>1. c.items \in SUBSET (0 .. n - 1) /\ c.rest \in SUBSET (0 .. n - 1)
      BY DEF Call
    <2>2. Cardinality(c.items) \in Nat /\ Cardinality(c.rest) \in Nat
      BY <2>1, CallFacts
    <2>3. QED BY <2>2 DEF Measure
  <1>2. B \in SUBSET Nat /\ B # {}
    BY <1>1
  <1>3. PICK b \in B : \A d \in B : b <= d
    <2> HIDE DEF B
    <2>1. QED BY <1>2, NatMin
  <1>4. PICK c \in Call(n) \ T : Measure(n)[c] = b
    BY <1>3
  <1>5. ASSUME NEW pick \in BOOLEAN, ~ Stops(size, c) PROVE Sub(size, c, pick) \in T
    <2> DEFINE d == Sub(size, c, pick)
    <2>1. d \in Call(n) /\ Measure(n)[d] < Measure(n)[c]
      BY <1>5, SubIsSmaller
    <2> HIDE DEF d
    <2>2. d \in T
      BY <1>1, <1>3, <1>4, <2>1
    <2>3. QED BY <2>2 DEF d
  <1>6. QED BY <1>4, <1>5

GroupingsOfSize(n, size) ==
  {groups \in kSubset(n \div size, kSubset(size, 0 .. n - 1)) : IsGrouping(groups)}

(* What holds of every call: the full groups have the right size, are       *)
(* disjoint and out of the items, the group being filled is among the items *)
(* but not of the rest, and 0 has been picked.                             *)
Sound(n, size, c) ==
  /\ \A g \in c.groups : Cardinality(g) = size /\ g \cap c.items = {}
  /\ \A g, h \in c.groups : g = h \/ g \cap h = {}
  /\ c.group \subseteq c.items /\ c.group \cap c.rest = {}
  /\ 0 \in UNION c.groups \/ 0 \in GroupOf(c)

LEMMA SubIsSound ==
  ASSUME NEW n \in Nat, NEW size \in Nat \ {0}, NEW c \in Call(n), NEW pick \in BOOLEAN,
         ~ Stops(size, c), Sound(n, size, c)
  PROVE  Sound(n, size, Sub(size, c, pick))
  <1> DEFINE d == Sub(size, c, pick)
  <1>1. c.rest \in SUBSET c.items /\ Min(c.rest) \in c.rest
    BY CallFacts
  <1>2. GroupOf(c) \in SUBSET c.items
    BY <1>1 DEF Sound, GroupOf
  <1>3. GroupOf(d) = d.group \cup (IF d.pick THEN {Min(d.rest)} ELSE {})
    BY DEF GroupOf
  <1>4. CASE Fills(size, c)
    <2>1. /\ d.items = c.items \ GroupOf(c) /\ d.rest = c.items \ GroupOf(c)
          /\ d.group = {} /\ d.groups = c.groups \cup {GroupOf(c)}
      BY <1>4 DEF Sub
    <2>2. Cardinality(GroupOf(c)) = size
      BY <1>4 DEF Fills
    <2> HIDE DEF d
    <2>3. \A g \in d.groups : Cardinality(g) = size /\ g \cap d.items = {}
      BY <1>2, <2>1, <2>2 DEF Sound
    <2>4. \A g, h \in d.groups : g = h \/ g \cap h = {}
      BY <1>2, <2>1 DEF Sound
    <2>5. 0 \in UNION d.groups
      BY <2>1 DEF Sound
    <2>6. QED BY <2>1, <2>3, <2>4, <2>5 DEF Sound, d
  <1>5. CASE ~ Fills(size, c)
    <2>1. /\ d.items = c.items /\ d.rest = c.rest \ {Min(c.rest)}
          /\ d.group = GroupOf(c) /\ d.groups = c.groups
      BY <1>5 DEF Sub
    <2> HIDE DEF d
    <2>2. d.group \cap d.rest = {}
      BY <2>1 DEF Sound, GroupOf
    <2>3. QED BY <1>2, <1>3, <2>1, <2>2 DEF Sound, d
  <1>6. QED BY <1>4, <1>5

LEMMA CombineIsSound ==
  ASSUME NEW n \in Nat, NEW size \in Nat \ {0}, NEW c \in Call(n), Sound(n, size, c)
  PROVE  /\ Combine(n, size)[c] \in Seq(Grouping(n))
         /\ ToSet(Combine(n, size)[c]) \subseteq GroupingsOfSize(n, size)
  <1> DEFINE e == Combine(n, size)
             Right(d) == /\ e[d] \in Seq(Grouping(n))
                         /\ ToSet(e[d]) \subseteq GroupingsOfSize(n, size)
             T == {d \in Call(n) : Sound(n, size, d) => Right(d)}
  <1>1. \A d \in Call(n) : e[d] = Step(n, size, d, e)
    BY CombineIsRecursive
  <1>2. ASSUME NEW d \in Call(n), Sound(n, size, d),
               \A pick \in BOOLEAN : ~ Stops(size, d) => Sub(size, d, pick) \in T
        PROVE  Right(d)
    <2>1. CASE Completes(n, size, d)
      <3> DEFINE r == d.groups \cup {GroupOf(d)}
      <3>1. e[d] = << r >>
        BY <1>1, <2>1, StepCases
      <3>2. /\ d.items \in SUBSET (0 .. n - 1) /\ d.rest \in SUBSET d.items
            /\ d.groups \in Grouping(n) /\ Min(d.rest) \in d.rest
            /\ GroupOf(d) \in SUBSET (0 .. n - 1)
        BY CallFacts
      <3>3. GroupOf(d) \in SUBSET d.items
        BY <1>2, <3>2 DEF Sound, GroupOf
      <3>4. Cardinality(GroupOf(d)) = size /\ Cardinality(r) = n \div size
        BY <2>1 DEF Completes, Fills
      <3>5. r \in SUBSET kSubset(size, 0 .. n - 1)
        <4>1. \A g \in r : g \in SUBSET (0 .. n - 1) /\ Cardinality(g) = size
          BY <1>2, <3>2, <3>4 DEF Sound, Grouping
        <4> HIDE DEF r
        <4>2. QED BY <4>1 DEF kSubset
      <3>6. IsGrouping(r)
        <4>1. 0 \in UNION r
          BY <1>2 DEF Sound
        <4>2. \A g, h \in r : g = h \/ g \cap h = {}
          BY <1>2, <3>3 DEF Sound
        <4> HIDE DEF r
        <4>3. QED BY <4>1, <4>2 DEF IsGrouping
      <3>7. r \in Grouping(n)
        BY <3>2 DEF Grouping
      <3> HIDE DEF r
      <3>8. r \in GroupingsOfSize(n, size)
        BY <3>4, <3>5, <3>6 DEF GroupingsOfSize, kSubset
      <3>9. << r >> \in Seq(Grouping(n)) /\ ToSet(<< r >>) = {r}
        BY <3>7 DEF ToSet
      <3>10. QED BY <3>1, <3>8, <3>9
    <2>2. CASE ~ Completes(n, size, d) /\ Stops(size, d)
      <3>1. e[d] = << >>
        BY <1>1, <2>2, StepCases
      <3>2. << >> \in Seq(Grouping(n)) /\ ToSet(<< >>) = {}
        BY DEF ToSet
      <3>3. QED BY <3>1, <3>2
    <2>3. CASE ~ Completes(n, size, d) /\ ~ Stops(size, d)
      <3> DEFINE s == e[Sub(size, d, TRUE)]
                 t == e[Sub(size, d, FALSE)]
      <3>1. e[d] = s \o t
        BY <1>1, <2>3, StepCases
      <3>2. Right(Sub(size, d, TRUE)) /\ Right(Sub(size, d, FALSE))
        BY <1>2, <2>3, SubIsSound
      <3> HIDE DEF e, s, t
      <3>3. /\ s \in Seq(Grouping(n)) /\ ToSet(s) \subseteq GroupingsOfSize(n, size)
            /\ t \in Seq(Grouping(n)) /\ ToSet(t) \subseteq GroupingsOfSize(n, size)
        BY <3>2 DEF s, t
      <3>4. s \o t \in Seq(Grouping(n)) /\ ToSet(s \o t) = ToSet(s) \cup ToSet(t)
        BY <3>3, ConcatToSet
      <3>5. QED BY <3>1, <3>3, <3>4
    <2>4. QED BY <2>1, <2>2, <2>3
  <1>3. T = Call(n)
    <2>1. T \in SUBSET Call(n)
      OBVIOUS
    <2>2. ASSUME NEW d \in Call(n),
                 \A pick \in BOOLEAN : ~ Stops(size, d) => Sub(size, d, pick) \in T
          PROVE  d \in T
      <3> HIDE DEF Right
      <3>1. Sound(n, size, d) => Right(d)
        BY <1>2, <2>2
      <3>2. QED BY <3>1
    <2> HIDE DEF T
    <2>3. QED BY <2>1, <2>2, CallInduction
  <1>4. QED BY <1>3

(* The call is on its way to the grouping P: its full groups are in P, and  *)
(* it can still complete the group it is filling to one of P, if its pick  *)
(* and those that follow are the right ones.                               *)
Filling(c, P, g) ==
  /\ g \in P \ c.groups
  /\ c.group \subseteq g /\ g # c.group /\ g \ c.group \subseteq c.rest
  /\ c.pick <=> Min(c.rest) \in g

Toward(c, P) ==
  /\ c.groups \subseteq P
  /\ UNION (P \ c.groups) \subseteq c.items
  /\ \E g \in P : Filling(c, P, g)

LEMMA TowardProgress ==
  ASSUME NEW n \in Nat, NEW size \in Nat \ {0}, NEW c \in Call(n),
         NEW P \in GroupingsOfSize(n, size), Toward(c, P)
  PROVE  \/ Completes(n, size, c) /\ c.groups \cup {GroupOf(c)} = P
         \/ /\ ~ Completes(n, size, c) /\ ~ Stops(size, c)
            /\ \E pick \in BOOLEAN : Toward(Sub(size, c, pick), P)
  <1>1. PICK g \in P : Filling(c, P, g)
    BY DEF Toward
  <1>2. /\ c.items \in SUBSET (0 .. n - 1) /\ c.rest \in SUBSET c.items
        /\ Min(c.rest) \in c.rest /\ c.pick \in BOOLEAN
        /\ \A s \in SUBSET (0 .. n - 1) : IsFiniteSet(s) /\ Cardinality(s) \in Nat
    BY CallFacts
  <1>3. /\ P \in SUBSET SUBSET (0 .. n - 1) /\ Cardinality(P) = n \div size
        /\ \A h \in P : Cardinality(h) = size
        /\ \A h, k \in P : h = k \/ h \cap k = {}
    BY DEF GroupingsOfSize, kSubset, IsGrouping
  <1>4. IsFiniteSet(P)
    <2>1. IsFiniteSet(SUBSET (0 .. n - 1))
      <3>1. IsFiniteSet(0 .. n - 1)
        BY FS_Interval
      <3>2. QED BY <3>1, FS_SUBSET
    <2>2. QED BY <1>3, <2>1, FS_Subset
  <1>5. GroupOf(c) \subseteq g
    BY <1>1 DEF GroupOf, Filling
  <1>6. IsFiniteSet(g) /\ Cardinality(g) = size
    BY <1>2, <1>3
  <1>7. CASE Fills(size, c)
    <2>1. GroupOf(c) = g
      BY <1>5, <1>6, <1>7, FS_Subset DEF Fills
    <2> DEFINE gs == c.groups \cup {g}
               others == c.items \ g
    <2>2. gs \in SUBSET P
      BY DEF Toward
    <2>3. CASE Cardinality(gs) = n \div size
      <3>1. gs = P
        BY <1>3, <1>4, <2>2, <2>3, FS_Subset
      <3>2. QED BY <1>7, <2>1, <2>3, <3>1 DEF Completes
    <2>4. CASE Cardinality(gs) # n \div size
      <3>1. PICK h \in P : h \notin gs
        BY <1>3, <2>2, <2>4
      <3>2. \A k \in P \ gs : k \subseteq others
        BY <1>3 DEF Toward
      <3>3. h \subseteq others /\ others \in SUBSET (0 .. n - 1) /\ Cardinality(h) = size
        BY <1>2, <1>3, <3>1, <3>2
      <3>4. h # {}
        BY <3>3, FS_EmptySet
      <3>5. Cardinality(others) \in Nat /\ size <= Cardinality(others)
        <4> HIDE DEF others
        <4>1. IsFiniteSet(others) /\ Cardinality(others) \in Nat
          BY <1>2, <3>3
        <4>2. QED BY <3>3, <4>1, FS_Subset
      <3>6. ~ Stops(size, c) /\ ~ Completes(n, size, c)
        BY <1>7, <2>1, <2>4, <3>5 DEF Stops, Completes
      <3> DEFINE pick == Min(others) \in h
                 d == Sub(size, c, pick)
      <3>7. /\ d.items = others /\ d.rest = others /\ d.group = {} /\ d.groups = gs
            /\ d.pick = pick
        BY <1>7, <2>1 DEF Sub
      <3> HIDE DEF d, gs, others
      <3>8. Filling(d, P, h)
        BY <3>1, <3>3, <3>4, <3>7 DEF Filling
      <3>9. Toward(d, P)
        BY <2>2, <3>2, <3>7, <3>8 DEF Toward
      <3>10. pick \in BOOLEAN
        OBVIOUS
      <3> HIDE DEF pick
      <3>11. \E b \in BOOLEAN : Toward(Sub(size, c, b), P)
        BY <3>9, <3>10 DEF d
      <3>12. QED BY <3>6, <3>11
    <2>5. QED BY <2>3, <2>4
  <1>8. CASE ~ Fills(size, c)
    <2> DEFINE rest == c.rest \ {Min(c.rest)}
    <2>1. g # GroupOf(c)
      BY <1>1, <1>6, <1>8 DEF Fills, Filling, GroupOf
    <2>2. g \ GroupOf(c) \subseteq rest
      BY <1>1 DEF Filling, GroupOf
    <2>3. ~ (Cardinality(c.rest) <= 1)
      <3>1. PICK x \in c.rest : x # Min(c.rest)
        BY <1>5, <2>1, <2>2
      <3>2. c.rest \in SUBSET (0 .. n - 1)
        BY <1>2
      <3>3. IsFiniteSet(c.rest) /\ Cardinality(c.rest) \in Nat
        BY <1>2, <3>2
      <3>4. Cardinality(c.rest) > 1
        BY <1>2, <3>1, <3>3, TwoElements
      <3>5. QED BY <3>3, <3>4
    <2>4. ~ Stops(size, c) /\ ~ Completes(n, size, c)
      BY <1>8, <2>3 DEF Stops, Completes
    <2> DEFINE pick == Min(rest) \in g
               d == Sub(size, c, pick)
    <2>5. /\ d.items = c.items /\ d.rest = rest /\ d.group = GroupOf(c)
          /\ d.groups = c.groups /\ d.pick = pick
      BY <1>8 DEF Sub
    <2> HIDE DEF d, rest
    <2>6. Filling(d, P, g)
      BY <1>1, <1>5, <2>1, <2>2, <2>5 DEF Filling
    <2>7. Toward(d, P)
      BY <2>5, <2>6 DEF Toward
    <2>8. pick \in BOOLEAN
      OBVIOUS
    <2> HIDE DEF pick
    <2>9. \E b \in BOOLEAN : Toward(Sub(size, c, b), P)
      BY <2>7, <2>8 DEF d
    <2>10. QED BY <2>4, <2>9
  <1>9. QED BY <1>7, <1>8

LEMMA CombineIsComplete ==
  ASSUME NEW n \in Nat, NEW size \in Nat \ {0}, NEW c \in Call(n), Sound(n, size, c),
         NEW P \in GroupingsOfSize(n, size), Toward(c, P)
  PROVE  P \in ToSet(Combine(n, size)[c])
  <1> DEFINE e == Combine(n, size)
             Right(d) == Sound(n, size, d) /\ Toward(d, P) => P \in ToSet(e[d])
             T == {d \in Call(n) : Right(d)}
  <1>1. \A d \in Call(n) : e[d] = Step(n, size, d, e)
    BY CombineIsRecursive
  <1>2. ASSUME NEW d \in Call(n), Sound(n, size, d), Toward(d, P),
               \A pick \in BOOLEAN : ~ Stops(size, d) => Sub(size, d, pick) \in T
        PROVE  P \in ToSet(e[d])
    <2>1. CASE Completes(n, size, d) /\ d.groups \cup {GroupOf(d)} = P
      <3>1. e[d] = << P >>
        BY <1>1, <2>1, StepCases
      <3>2. QED BY <3>1 DEF ToSet
    <2>2. CASE /\ ~ Completes(n, size, d) /\ ~ Stops(size, d)
               /\ \E pick \in BOOLEAN : Toward(Sub(size, d, pick), P)
      <3> DEFINE s == e[Sub(size, d, TRUE)]
                 t == e[Sub(size, d, FALSE)]
      <3>1. e[d] = s \o t
        BY <1>1, <2>2, StepCases
      <3>2. \A pick \in BOOLEAN : /\ Sub(size, d, pick) \in Call(n)
                                  /\ Sound(n, size, Sub(size, d, pick))
        BY <1>2, <2>2, SubIsSound, SubIsSmaller
      <3>3. s \in Seq(Grouping(n)) /\ t \in Seq(Grouping(n))
        BY <3>2, CombineIsSound
      <3>4. P \in ToSet(s) \/ P \in ToSet(t)
        BY <1>2, <2>2, <3>2
      <3> HIDE DEF e, s, t
      <3>5. ToSet(s \o t) = ToSet(s) \cup ToSet(t)
        BY <3>3, ConcatToSet
      <3>6. QED BY <3>1, <3>4, <3>5
    <2>3. QED BY <1>2, <2>1, <2>2, TowardProgress
  <1>3. T = Call(n)
    <2>1. T \in SUBSET Call(n)
      OBVIOUS
    <2>2. ASSUME NEW d \in Call(n),
                 \A pick \in BOOLEAN : ~ Stops(size, d) => Sub(size, d, pick) \in T
          PROVE  d \in T
      BY <1>2, <2>2
    <2> HIDE DEF T
    <2>3. QED BY <2>1, <2>2, CallInduction
  <1>4. QED BY <1>3

LEMMA GroupCombinationsProperties ==
  ASSUME NEW n \in Nat \ {0}, NEW size \in 2 .. n
  PROVE  /\ GroupCombinations(n, size) \in Seq(Grouping(n))
         /\ ToSet(GroupCombinations(n, size)) = GroupingsOfSize(n, size)
  <1> DEFINE c == Root(n)
             I == 0 .. n - 1
  <1>1. n \in Nat /\ size \in Nat \ {0} /\ 0 \in I /\ I \in SUBSET Nat
    OBVIOUS
  <1>2. Min(I) = 0
    <2> HIDE DEF I
    <2>1. Min(I) \in I /\ \A x \in I : Min(I) <= x
      BY <1>1, MinProperties
    <2>2. QED BY <1>1, <2>1 DEF I
  <1>3. c \in Call(n)
    BY <1>1 DEF Root, Call
  <1>4. c.items = I /\ c.rest = I /\ c.group = {} /\ c.groups = {} /\ c.pick = TRUE
    BY DEF Root
  <1>5. GroupCombinations(n, size) = Combine(n, size)[c]
    BY <1>1, CombineIsRecursive
  <1> HIDE DEF c, I
  <1>6. GroupOf(c) = {0}
    BY <1>2, <1>4 DEF GroupOf
  <1>7. Sound(n, size, c)
    BY <1>4, <1>6 DEF Sound
  <1>8. ASSUME NEW P \in GroupingsOfSize(n, size) PROVE Toward(c, P)
    <2>1. /\ P \in SUBSET SUBSET I /\ 0 \in UNION P
      BY DEF GroupingsOfSize, kSubset, IsGrouping, I
    <2>2. PICK g \in P : 0 \in g
      BY <2>1
    <2>3. Filling(c, P, g)
      BY <1>2, <1>4, <2>1, <2>2 DEF Filling
    <2>4. QED BY <1>4, <2>1, <2>3 DEF Toward
  <1>9. /\ Combine(n, size)[c] \in Seq(Grouping(n))
        /\ ToSet(Combine(n, size)[c]) \subseteq GroupingsOfSize(n, size)
    BY <1>1, <1>3, <1>7, CombineIsSound
  <1>10. \A P \in GroupingsOfSize(n, size) : P \in ToSet(Combine(n, size)[c])
    BY <1>1, <1>3, <1>7, <1>8, CombineIsComplete
  <1>11. QED BY <1>5, <1>9, <1>10

(* SeenPartitionSet: repetitions are left out, and nothing else. *)
LEMMA WithoutRepetitionsProperties ==
  ASSUME NEW E, NEW s \in Seq(E)
  PROVE  /\ WithoutRepetitions(s) \in Seq(E)
         /\ ToSet(WithoutRepetitions(s)) = ToSet(s)
  <1> DEFINE I == {i \in DOMAIN s : \A j \in 1 .. i - 1 : s[j] # s[i]}
  <1>1. DOMAIN s = 1 .. Len(s) /\ Len(s) \in Nat
    BY LenProperties
  <1>2. I \in SUBSET DOMAIN s
    OBVIOUS
  <1>3. ASSUME NEW k \in DOMAIN s PROVE \E i \in I : s[i] = s[k]
    <2> DEFINE A == {i \in DOMAIN s : s[i] = s[k]}
    <2>1. A \in SUBSET Nat /\ A # {}
      BY <1>1
    <2>2. PICK i \in A : \A j \in A : i <= j
      <3> HIDE DEF A
      <3>1. QED BY <2>1, NatMin
    <2>3. i \in I
      BY <1>1, <2>2
    <2>4. QED BY <2>2, <2>3
  <1>4. WithoutRepetitions(s) = Items(s, I)
    BY DEF WithoutRepetitions
  <1> HIDE DEF I
  <1>5. Items(s, I) \in Seq(E) /\ ToSet(Items(s, I)) = {s[i] : i \in I}
    BY <1>2, ItemsProperties
  <1>6. ToSet(s) = {s[i] : i \in I}
    BY <1>2, <1>3 DEF ToSet
  <1>7. QED BY <1>4, <1>5, <1>6

(* iterateOverPartitions gives its callback every way to split n functions  *)
(* into groups of equal size, as many as there are, with the first function *)
(* in one of them, and nothing else, for every n.                          *)
THEOREM PartitionsAreAllGroupings ==
  ASSUME NEW n \in Nat \ {0}
  PROVE  /\ Partitions(n) \in Seq(Grouping(n))
         /\ ToSet(Partitions(n)) = AllGroupings(n)
  <1> DEFINE ss == [k \in 1 .. n - 1 |-> GroupCombinations(n, k + 1)]
             E == Grouping(n)
  <1>1. ASSUME NEW k \in 1 .. n - 1
        PROVE  /\ k + 1 \in 2 .. n
               /\ GroupCombinations(n, k + 1) \in Seq(E)
               /\ ToSet(GroupCombinations(n, k + 1)) = GroupingsOfSize(n, k + 1)
    BY GroupCombinationsProperties
  <1>2. ss \in Seq(Seq(E)) /\ DOMAIN ss = 1 .. n - 1
    <2>1. ss \in [1 .. n - 1 -> Seq(E)] /\ n - 1 \in Nat
      BY <1>1
    <2> HIDE DEF E
    <2>2. QED BY <2>1
  <1>3. Partitions(n) = WithoutRepetitions(FlattenSeq(ss))
    BY DEF Partitions
  <1>4. \A k \in 1 .. n - 1 : ToSet(ss[k]) = GroupingsOfSize(n, k + 1)
    BY <1>1
  <1> HIDE DEF ss, E
  <1>5. /\ FlattenSeq(ss) \in Seq(E)
        /\ ToSet(FlattenSeq(ss)) = UNION {ToSet(ss[k]) : k \in DOMAIN ss}
    BY <1>2, FlattenSeqProperties
  <1>6. Partitions(n) \in Seq(E) /\ ToSet(Partitions(n)) = ToSet(FlattenSeq(ss))
    BY <1>3, <1>5, WithoutRepetitionsProperties
  <1>7. UNION {ToSet(ss[k]) : k \in 1 .. n - 1} = UNION {GroupingsOfSize(n, k) : k \in 2 .. n}
    <2>1. \A k \in 2 .. n : k - 1 \in 1 .. n - 1 /\ (k - 1) + 1 = k
      OBVIOUS
    <2>2. \A k \in 1 .. n - 1 : k + 1 \in 2 .. n
      OBVIOUS
    <2>3. ASSUME NEW P, NEW k \in 1 .. n - 1, P \in ToSet(ss[k])
          PROVE  \E l \in 2 .. n : P \in GroupingsOfSize(n, l)
      BY <1>4, <2>2, <2>3
    <2>4. ASSUME NEW P, NEW l \in 2 .. n, P \in GroupingsOfSize(n, l)
          PROVE  \E k \in 1 .. n - 1 : P \in ToSet(ss[k])
      <3>1. l - 1 \in 1 .. n - 1 /\ ToSet(ss[l - 1]) = GroupingsOfSize(n, (l - 1) + 1)
        BY <1>4, <2>1
      <3>2. QED BY <2>1, <2>4, <3>1
    <2>5. QED BY <2>3, <2>4
  <1>8. AllGroupings(n) = UNION {GroupingsOfSize(n, k) : k \in 2 .. n}
    BY DEF AllGroupings, GroupingsOfSize
  <1>9. QED BY <1>2, <1>5, <1>6, <1>7, <1>8 DEF E

(***************************************************************************)
(* The inductive invariant                                                 *)
(***************************************************************************)
Absorbed == {f \in Fn : absorbedBy[f] # f}
Applied == {absorbedBy[f] : f \in Absorbed}
Live == defined \ Merged(best)

(* Nothing is explored before all the functions are in the matcher. *)
IndexingIsFirst ==
  indexed < NumSources =>
    functions = << >> /\ best = << >> /\ candidates = 1 .. indexed /\ defined = Source

(* F1 and its matches are different functions, not more than the matcher    *)
(* returns, and F1 has left the matcher.                                   *)
FunctionsAreDistinct ==
  /\ Len(functions) <= ExplorationThreshold + 1
  /\ \A i, j \in DOMAIN functions : functions[i] = functions[j] => i = j
  /\ functions # << >> => Head(functions) \notin candidates \cup Merged(best)
  /\ best # << >> => functions # << >>

(* While they are grouped, they stand on their own and the matches are      *)
(* candidates that remove_candidate finds.                                 *)
FunctionsAreLive ==
  Planning =>
    /\ ToSet(functions) \subseteq Live
    /\ ToSet(functions) \ {Head(functions)} \subseteq cache \cap candidates

(* The plans are over two live functions or more, and their merged          *)
(* functions are different and new.                                        *)
PlansAreSound ==
  /\ \A i \in DOMAIN best :
       /\ best[i].functions \subseteq Live
       /\ Cardinality(best[i].functions) > 1
       /\ best[i].merged \notin Source \cup Applied \cup Absorbed
  /\ \A i, j \in DOMAIN best : best[i].merged = best[j].merged => i = j

(* The attempts so far were for the groupings in their order, each twice. *)
TriedInOrder ==
  functions # << >> =>
    /\ Len(tried) = attempt - 1
    /\ \A i \in 1 .. attempt - 1 :
         tried[i] = Groupings[Len(functions)][(i + 1) \div 2]

IInv ==
  /\ TypeOK
  /\ BucketsHoldCandidates
  /\ RemovalsFindCandidates
  /\ CandidatesAreDefined
  /\ SpeculationIsAccounted
  /\ IndexingIsFirst
  /\ FunctionsAreDistinct
  /\ FunctionsAreLive
  /\ PlansAreSound
  /\ TriedInOrder

(***************************************************************************)
(* The operators                                                           *)
(***************************************************************************)
LEMMA ConstantFacts ==
  /\ NumSources \in Nat /\ Source \in SUBSET Fn /\ Fn \in SUBSET Nat
  /\ IsFiniteSet(Fn) /\ \A S \in SUBSET Fn : IsFiniteSet(S) /\ Cardinality(S) \in Nat
  /\ Gains \subseteq Int
  /\ Key \subseteq Nat /\ Bands \in Nat \ {0}
  /\ ExplorationThreshold \in Nat \ {0}
  BY MatchFinderAssumption, MatcherAssumption, FS_Subset, FS_CardinalityType DEF Source

(* The bands that are read are hashes. *)
LEMMA FingerprintsAreBands == Fingerprints \subseteq Seq(Key)
  <1> SUFFICES ASSUME NEW s \in [1 .. Bands -> Key] PROVE Uniqued(s) \in Seq(Key)
    BY DEF Fingerprints
  <1>1. Bands \in Nat /\ Key \in SUBSET Nat
    BY ConstantFacts
  <1> DEFINE K == ToSet(s)
             distinct == Ascending(K)
  <1>2. K \in SUBSET Key /\ K \in SUBSET Nat
    BY <1>1 DEF ToSet
  <1>3. IsFiniteSet(K)
    <2>1. s \in Surjection(1 .. Bands, K)
      BY Fun_RangeProperties DEF Surjection, ToSet
    <2>2. QED BY <1>1, <2>1, FS_Interval, FS_Surjection
  <1> HIDE DEF K
  <1>4. distinct \in Seq(K) /\ Len(distinct) \in Nat
    BY <1>2, <1>3, AscendingProperties
  <1> HIDE DEF distinct
  <1>5. distinct \in Seq(Key)
    BY <1>2, <1>4, SeqMonotonic
  <1>6. SubSeq(s, Len(distinct) + 1, Bands) \in Seq(Key)
    <2>1. \A i \in Len(distinct) + 1 .. Bands : s[i] \in Key
      BY <1>1, <1>4
    <2>2. Len(distinct) + 1 \in Int /\ Bands \in Int
      BY <1>1, <1>4
    <2>3. QED BY <2>1, <2>2, SubSeqProperties
  <1>7. distinct \o SubSeq(s, Len(distinct) + 1, Bands) \in Seq(Key)
    BY <1>5, <1>6, ConcatProperties
  <1>8. QED BY <1>7 DEF Uniqued, distinct, K

(* A grouping is into disjoint groups of two or more. *)
LEMMA GroupingsProperties ==
  ASSUME NEW n \in 1 .. ExplorationThreshold + 1
  PROVE  /\ Groupings[n] \in Seq(Grouping(n))
         /\ Len(Groupings[n]) \in Nat
         /\ ToSet(Groupings[n]) = AllGroupings(n)
         /\ \A j \in 1 .. Len(Groupings[n]) :
              /\ Groupings[n][j] \in Grouping(n)
              /\ \A g \in Groupings[n][j] : Cardinality(g) > 1
              /\ \A g, h \in Groupings[n][j] : g = h \/ g \cap h = {}
  <1>1. n \in Nat \ {0} /\ Groupings[n] = Partitions(n)
    BY ConstantFacts DEF Groupings
  <1>2. Groupings[n] \in Seq(Grouping(n)) /\ ToSet(Groupings[n]) = AllGroupings(n)
    BY <1>1, PartitionsAreAllGroupings
  <1>3. Len(Groupings[n]) \in Nat /\ DOMAIN Groupings[n] = 1 .. Len(Groupings[n])
    BY <1>2, LenProperties
  <1>4. ASSUME NEW j \in 1 .. Len(Groupings[n])
        PROVE  /\ Groupings[n][j] \in Grouping(n)
               /\ \A g \in Groupings[n][j] : Cardinality(g) > 1
               /\ \A g, h \in Groupings[n][j] : g = h \/ g \cap h = {}
    <2>1. Groupings[n][j] \in AllGroupings(n)
      BY <1>2, <1>3 DEF ToSet
    <2>2. PICK k \in 2 .. n : Groupings[n][j] \in GroupingsOfSize(n, k)
      BY <2>1 DEF AllGroupings, GroupingsOfSize
    <2>3. \A g \in Groupings[n][j] : Cardinality(g) = k
      BY <2>2 DEF GroupingsOfSize, kSubset
    <2>4. \A g, h \in Groupings[n][j] : g = h \/ g \cap h = {}
      BY <2>2 DEF GroupingsOfSize, IsGrouping
    <2>5. QED BY <1>2, <1>3, <2>3, <2>4
  <1>5. QED BY <1>2, <1>3, <1>4

(* The groups of an attempt are those of its grouping, each once. *)
LEMMA GroupsProperties ==
  ASSUME Len(functions) \in 1 .. ExplorationThreshold + 1,
         attempt \in 1 .. 2 * Len(Groupings[Len(functions)])
  PROVE  /\ (attempt + 1) \div 2 \in 1 .. Len(Groupings[Len(functions)])
         /\ ToSet(Groups) = Groupings[Len(functions)][(attempt + 1) \div 2]
         /\ IsFiniteSet(DOMAIN Groups) /\ DOMAIN Groups \in SUBSET Nat
         /\ \A i \in DOMAIN Groups :
              /\ Groups[i] \in SUBSET (0 .. Len(functions) - 1)
              /\ Cardinality(Groups[i]) > 1
         /\ \A i, j \in DOMAIN Groups : i # j => Groups[i] \cap Groups[j] = {}
  <1> DEFINE n == Len(functions)
             P == Groupings[n][(attempt + 1) \div 2]
             firsts == {Min(g) : g \in P}
             k == Cardinality(firsts)
             At(i) == CHOOSE g \in P : Min(g) = Smallest(i, firsts)
  <1>1. Len(Groupings[n]) \in Nat
    BY GroupingsProperties
  <1>2. (attempt + 1) \div 2 \in 1 .. Len(Groupings[n])
    BY <1>1
  <1>3. /\ P \in Grouping(n) /\ \A g \in P : Cardinality(g) > 1
        /\ \A g, h \in P : g = h \/ g \cap h = {}
    BY <1>2, GroupingsProperties
  <1>4. Groups = [i \in 1 .. k |-> At(i)]
    BY DEF Groups
  <1> HIDE DEF P
  <1>5. n \in Nat /\ \A g \in P : g \in SUBSET (0 .. n - 1) /\ g \in SUBSET Nat
    BY <1>3 DEF Grouping
  <1>6. \A g \in P : Min(g) \in g
    <2> TAKE g \in P
    <2>1. g # {}
      <3>1. SUFFICES ASSUME g = {} PROVE FALSE
        OBVIOUS
      <3>2. Cardinality(g) > 1 /\ Cardinality(g) = 0
        BY <1>3, <3>1, FS_EmptySet
      <3>3. QED BY <3>2
    <2>2. g \in SUBSET Nat
      BY <1>5
    <2>3. QED BY <2>1, <2>2, MinProperties
  <1>7. firsts \in SUBSET (0 .. n - 1) /\ firsts \in SUBSET Nat
    BY <1>5, <1>6
  <1>8. IsFiniteSet(firsts)
    <2>1. IsFiniteSet(0 .. n - 1)
      BY <1>5, FS_Interval
    <2>2. QED BY <1>7, <2>1, FS_Subset
  <1> HIDE DEF n
  <1>9. /\ k \in Nat
        /\ \A i \in 1 .. k : Smallest(i, firsts) \in firsts
        /\ \A i, j \in 1 .. k : i < j => Smallest(i, firsts) < Smallest(j, firsts)
        /\ \A x \in firsts : \E i \in 1 .. k : Smallest(i, firsts) = x
    <2> HIDE DEF firsts
    <2>1. QED BY <1>7, <1>8, SmallestProperties
  <1>10. ASSUME NEW i \in 1 .. k
         PROVE  At(i) \in P /\ Min(At(i)) = Smallest(i, firsts)
    <2>1. \E g \in P : Min(g) = Smallest(i, firsts)
      BY <1>9
    <2>2. QED BY <2>1
  <1>11. ASSUME NEW i \in 1 .. k, NEW j \in 1 .. k, i # j
         PROVE  At(i) \cap At(j) = {}
    <2>1. Smallest(i, firsts) # Smallest(j, firsts)
      <3>1. i < j \/ j < i
        BY <1>9, <1>11
      <3>2. Smallest(i, firsts) \in Nat /\ Smallest(j, firsts) \in Nat
        BY <1>7, <1>9
      <3>3. QED BY <1>9, <3>1, <3>2
    <2>2. At(i) # At(j)
      BY <1>10, <2>1
    <2>3. QED BY <1>3, <1>10, <2>2
  <1>12. ASSUME NEW g \in P PROVE \E i \in 1 .. k : At(i) = g
    <2>1. PICK i \in 1 .. k : Smallest(i, firsts) = Min(g)
      BY <1>9
    <2>2. At(i) \in P /\ Min(At(i)) = Min(g)
      BY <1>10, <2>1
    <2>3. Min(g) \in g \cap At(i)
      BY <1>6, <2>2
    <2>4. QED BY <1>3, <2>2, <2>3
  <1> HIDE DEF At, k
  <1>13. DOMAIN Groups = 1 .. k /\ \A i \in 1 .. k : Groups[i] = At(i)
    BY <1>4
  <1>14. ToSet(Groups) = P
    <2>1. ToSet(Groups) = {At(i) : i \in 1 .. k}
      BY <1>13 DEF ToSet
    <2>2. QED BY <1>10, <1>12, <2>1
  <1>15. IsFiniteSet(1 .. k) /\ 1 .. k \in SUBSET Nat
    <2>1. 1 .. k \in SUBSET Nat
      BY <1>9
    <2>2. k \in Int /\ 1 \in Int
      BY <1>9
    <2>3. IsFiniteSet(1 .. k)
      BY <2>2, FS_Interval
    <2>4. QED BY <2>1, <2>3
  <1>16. \A i \in 1 .. k : At(i) \in SUBSET (0 .. n - 1) /\ Cardinality(At(i)) > 1
    BY <1>3, <1>5, <1>10
  <1>17. /\ IsFiniteSet(DOMAIN Groups) /\ DOMAIN Groups \in SUBSET Nat
         /\ \A i \in DOMAIN Groups : /\ Groups[i] \in SUBSET (0 .. n - 1)
                                     /\ Cardinality(Groups[i]) > 1
         /\ \A i, j \in DOMAIN Groups : i # j => Groups[i] \cap Groups[j] = {}
    BY <1>11, <1>13, <1>15, <1>16
  <1>18. QED BY <1>2, <1>14, <1>17 DEF n, P

(* The plans of an attempt are over disjoint sets of two of its functions   *)
(* or more, and their merged functions have different, free names.         *)
LEMMA PlansProperties ==
  ASSUME functions \in Seq(Fn), defined \in SUBSET Fn,
         Len(functions) \in 1 .. ExplorationThreshold + 1,
         \A i, j \in DOMAIN functions : functions[i] = functions[j] => i = j,
         attempt \in 1 .. 2 * Len(Groupings[Len(functions)]),
         NEW I \in SUBSET DOMAIN Groups, Cardinality(I) <= Cardinality(Free),
         NEW gain \in [I -> Gains]
  PROVE  /\ Plans(I, gain) \in Seq(Plan)
         /\ \A m \in DOMAIN Plans(I, gain) :
              /\ Plans(I, gain)[m].functions \subseteq ToSet(functions)
              /\ Cardinality(Plans(I, gain)[m].functions) > 1
              /\ Plans(I, gain)[m].merged \in Free
         /\ \A l, m \in DOMAIN Plans(I, gain) : l # m =>
              /\ Plans(I, gain)[l].functions \cap Plans(I, gain)[m].functions = {}
              /\ Plans(I, gain)[l].merged # Plans(I, gain)[m].merged
  <1> DEFINE n == Len(functions)
             k == Cardinality(I)
             Of(i) == {functions[x + 1] : x \in Groups[i]}
             plan(m) == [functions |-> Of(Smallest(m, I)),
                         merged |-> Smallest(m, Free), gain |-> gain[Smallest(m, I)]]
  <1>1. /\ n \in Nat /\ DOMAIN functions = 1 .. n /\ \A i \in 1 .. n : functions[i] \in Fn
    BY LenProperties
  <1>2. /\ IsFiniteSet(DOMAIN Groups) /\ DOMAIN Groups \in SUBSET Nat
        /\ \A i \in DOMAIN Groups : /\ Groups[i] \in SUBSET (0 .. n - 1)
                                    /\ Cardinality(Groups[i]) > 1
        /\ \A i, j \in DOMAIN Groups : i # j => Groups[i] \cap Groups[j] = {}
    BY GroupsProperties
  <1>3. I \in SUBSET Nat /\ IsFiniteSet(I)
    BY <1>2, FS_Subset
  <1>4. Free \in SUBSET Fn /\ Free \in SUBSET Nat /\ IsFiniteSet(Free)
    BY ConstantFacts DEF Free
  <1>5. /\ k \in Nat
        /\ \A m \in 1 .. k : Smallest(m, I) \in I
        /\ \A l, m \in 1 .. k : l < m => Smallest(l, I) < Smallest(m, I)
    BY <1>3, SmallestProperties
  <1>6. /\ Cardinality(Free) \in Nat
        /\ \A m \in 1 .. Cardinality(Free) : Smallest(m, Free) \in Free
        /\ \A l, m \in 1 .. Cardinality(Free) : l < m => Smallest(l, Free) < Smallest(m, Free)
    BY <1>4, SmallestProperties
  <1>7. \A m \in 1 .. k : m \in 1 .. Cardinality(Free)
    BY <1>5, <1>6
  <1>8. ASSUME NEW l \in 1 .. k, NEW m \in 1 .. k, l # m
        PROVE  Smallest(l, I) # Smallest(m, I) /\ Smallest(l, Free) # Smallest(m, Free)
    <2>1. l < m \/ m < l
      BY <1>5, <1>8
    <2>2. /\ Smallest(l, I) \in Nat /\ Smallest(m, I) \in Nat
          /\ Smallest(l, Free) \in Nat /\ Smallest(m, Free) \in Nat
      BY <1>3, <1>4, <1>5, <1>6, <1>7
    <2>3. QED BY <1>5, <1>6, <1>7, <2>1, <2>2
  <1>9. Plans(I, gain) = [m \in 1 .. k |-> plan(m)]
    BY DEF Plans
  <1>10. ASSUME NEW i \in DOMAIN Groups
         PROVE  /\ Of(i) \subseteq ToSet(functions) /\ Of(i) \in SUBSET Fn
                /\ Cardinality(Of(i)) > 1
    <2>1. \A x \in Groups[i] : x + 1 \in DOMAIN functions /\ x \in Nat
      BY <1>1, <1>2
    <2>2. Of(i) \subseteq ToSet(functions) /\ Of(i) \in SUBSET Fn
      BY <1>1, <2>1 DEF ToSet
    <2>3. IsFiniteSet(Groups[i])
      <3>1. IsFiniteSet(0 .. n - 1)
        BY <1>1, FS_Interval
      <3>2. QED BY <1>2, <3>1, FS_Subset
    <2>4. PICK x \in Groups[i], y \in Groups[i] : x # y
      BY <1>2, <2>3, TwoElements
    <2>5. functions[x + 1] # functions[y + 1]
      BY <2>1, <2>4
    <2>6. functions[x + 1] \in Of(i) /\ functions[y + 1] \in Of(i)
      OBVIOUS
    <2>7. IsFiniteSet(Of(i))
      BY <2>2, ConstantFacts
    <2> HIDE DEF Of
    <2>8. Cardinality(Of(i)) > 1
      BY <2>5, <2>6, <2>7, TwoElements
    <2>9. QED BY <2>2, <2>8
  <1>11. ASSUME NEW i \in DOMAIN Groups, NEW j \in DOMAIN Groups, i # j
         PROVE  Of(i) \cap Of(j) = {}
    <2>1. SUFFICES ASSUME NEW x \in Groups[i], NEW y \in Groups[j],
                          functions[x + 1] = functions[y + 1]
                   PROVE  FALSE
      OBVIOUS
    <2>2. x + 1 \in DOMAIN functions /\ y + 1 \in DOMAIN functions /\ x \in Nat /\ y \in Nat
      BY <1>1, <1>2
    <2>3. x = y
      BY <2>1, <2>2
    <2>4. QED BY <1>2, <1>11, <2>3
  <1> HIDE DEF Of
  <1>12. ASSUME NEW m \in 1 .. k
         PROVE  /\ plan(m) \in Plan
                /\ plan(m).functions \subseteq ToSet(functions)
                /\ Cardinality(plan(m).functions) > 1
                /\ plan(m).merged \in Free
    <2>1. Smallest(m, I) \in DOMAIN Groups /\ Smallest(m, I) \in I
      BY <1>5
    <2>2. gain[Smallest(m, I)] \in Int
      BY <2>1, ConstantFacts
    <2>3. Smallest(m, Free) \in Free /\ Smallest(m, Free) \in Fn
      BY <1>4, <1>6, <1>7
    <2>4. QED BY <1>10, <2>1, <2>2, <2>3 DEF Plan
  <1>13. ASSUME NEW l \in 1 .. k, NEW m \in 1 .. k, l # m
         PROVE  /\ plan(l).functions \cap plan(m).functions = {}
                /\ plan(l).merged # plan(m).merged
    BY <1>5, <1>8, <1>11, <1>13
  <1> HIDE DEF plan
  <1>14. /\ Plans(I, gain) \in Seq(Plan)
         /\ DOMAIN Plans(I, gain) = 1 .. k
         /\ \A m \in 1 .. k : Plans(I, gain)[m] = plan(m)
    BY <1>5, <1>9, <1>12
  <1>15. QED BY <1>12, <1>13, <1>14

(***************************************************************************)
(* The invariant is inductive                                              *)
(***************************************************************************)
LEMMA InitEstablishes == Init => IInv
  <1> SUFFICES ASSUME Init PROVE IInv
    OBVIOUS
  <1> USE DEF Init, MatcherInit
  <1>1. NumSources \in Nat /\ Source \in SUBSET Fn /\ Gains \subseteq Int
    BY ConstantFacts
  <1>2. Merged(best) = {} /\ ToSet(functions) = {} /\ Absorbed = {} /\ Applied = {}
    BY DEF Merged, ToSet, Absorbed, Applied
  <1>3. TypeOK
    <2>1. MatcherTypeOK
      BY DEF MatcherTypeOK
    <2>2. Attempts = 0
      BY DEF Attempts
    <2>3. QED BY <1>1, <2>1, <2>2 DEF TypeOK
  <1>4. BucketsHoldCandidates
    <2>1. \A f : Count(f, << >>) = 0
      <3> TAKE f
      <3>1. {i \in DOMAIN << >> : << >>[i] = f} = {}
        OBVIOUS
      <3>2. QED BY <3>1, FS_EmptySet DEF Count
    <2>2. QED BY <2>1 DEF BucketsHoldCandidates
  <1>5. RemovalsFindCandidates /\ CandidatesAreDefined /\ PlansAreSound /\ TriedInOrder
    BY DEF RemovalsFindCandidates, CandidatesAreDefined, PlansAreSound, TriedInOrder
  <1>6. SpeculationIsAccounted
    BY <1>1, <1>2 DEF SpeculationIsAccounted
  <1>7. IndexingIsFirst
    BY <1>1 DEF IndexingIsFirst
  <1>8. FunctionsAreDistinct
    BY ConstantFacts DEF FunctionsAreDistinct
  <1>9. FunctionsAreLive
    BY <1>2 DEF FunctionsAreLive, Planning, Attempts
  <1>10. QED BY <1>3, <1>4, <1>5, <1>6, <1>7, <1>8, <1>9 DEF IInv

LEMMA IndexSourceKeeps == IInv /\ IndexSource => IInv'
  <1> SUFFICES ASSUME IInv, IndexSource PROVE IInv'
    OBVIOUS
  <1> DEFINE f == indexed + 1
  <1>1. /\ indexed < NumSources /\ indexed' = f
        /\ functions' = functions /\ attempt' = attempt /\ tried' = tried /\ best' = best
        /\ defined' = defined /\ absorbedBy' = absorbedBy
        /\ recent' = recent /\ cache' = cache /\ matches' = matches
    BY DEF IndexSource, IndexCandidate, plannerVars
  <1>2. PICK h \in Seq(Key) :
          /\ candidates' = candidates \cup {f}
          /\ bandHash' = [bandHash EXCEPT ![f] = h]
          /\ lsh' = Pushed(lsh, f, h)
    BY <1>1, FingerprintsAreBands DEF IndexSource, IndexCandidate
  <1>3. TypeOK /\ MatcherTypeOK
    BY DEF IInv, TypeOK
  <1>4. functions = << >> /\ best = << >> /\ candidates = 1 .. indexed /\ defined = Source
    BY <1>1 DEF IInv, IndexingIsFirst
  <1>5. f \in Source /\ f \in Fn /\ f \notin candidates /\ indexed \in Nat
        /\ 1 .. f = candidates \cup {f}
    BY <1>1, <1>3, <1>4, ConstantFacts DEF TypeOK, Source
  <1>6. Merged(best) = {} /\ Merged(best)' = {} /\ ToSet(functions) = {}
    BY <1>1, <1>4 DEF Merged, ToSet
  <1> HIDE DEF f
  <1>7. /\ lsh' \in [Key -> Seq(Fn)]
        /\ \A g \in Fn, k \in Key :
             Count(g, lsh'[k]) = Count(g, lsh[k]) + IF g = f THEN Count(k, h) ELSE 0
    <2>1. lsh \in [Key -> Seq(Fn)] /\ f \in Fn
      BY <1>3, <1>5 DEF MatcherTypeOK
    <2>2. /\ Pushed(lsh, f, h) \in [Key -> Seq(Fn)]
          /\ \A g \in Fn, k \in Key :
               Count(g, Pushed(lsh, f, h)[k])
                 = Count(g, lsh[k]) + IF g = f THEN Count(k, h) ELSE 0
      BY <2>1, PushedProperties
    <2>3. QED BY <1>2, <2>2
  <1>8. TypeOK'
    <2>1. recent' \in Seq(candidates')
      BY <1>1, <1>2, <1>3, SeqMonotonic DEF MatcherTypeOK
    <2>2. MatcherTypeOK'
      BY <1>1, <1>2, <1>3, <1>5, <1>7, <2>1 DEF MatcherTypeOK
    <2>3. Attempts' = Attempts
      BY <1>1 DEF Attempts
    <2>4. indexed' \in 0 .. NumSources
      BY <1>1, <1>5, ConstantFacts DEF Source
    <2>5. QED BY <1>1, <1>3, <2>2, <2>3, <2>4 DEF TypeOK
  <1>9. BucketsHoldCandidates'
    <2> SUFFICES ASSUME NEW g \in Fn, NEW k \in Key
                 PROVE  Count(g, lsh'[k]) = IF g \in candidates' THEN Count(k, bandHash'[g]) ELSE 0
      BY DEF BucketsHoldCandidates
    <2>1. Count(g, lsh[k]) = IF g \in candidates THEN Count(k, bandHash[g]) ELSE 0
      BY DEF IInv, BucketsHoldCandidates
    <2>2. CASE g = f
      <3>1. bandHash'[g] = h /\ g \in candidates' /\ g \notin candidates
        BY <1>2, <1>3, <1>5, <2>2 DEF MatcherTypeOK
      <3>2. Count(k, h) \in Nat
        BY CountType
      <3>3. QED BY <1>7, <2>1, <2>2, <3>1, <3>2
    <2>3. CASE g # f
      <3>1. bandHash'[g] = bandHash[g] /\ (g \in candidates' <=> g \in candidates)
        BY <1>2, <1>3, <1>5, <2>3 DEF MatcherTypeOK
      <3>2. Count(g, lsh[k]) \in Nat
        BY <1>3, CountType DEF MatcherTypeOK
      <3>3. QED BY <1>7, <2>1, <2>3, <3>1, <3>2
    <2>4. QED BY <2>2, <2>3
  <1>10. RemovalsFindCandidates' /\ CandidatesAreDefined' /\ PlansAreSound' /\ TriedInOrder'
    <2>1. DOMAIN best' = {}
      BY <1>1, <1>4
    <2>2. RemovalsFindCandidates' /\ PlansAreSound'
      BY <2>1 DEF RemovalsFindCandidates, PlansAreSound
    <2>3. candidates \subseteq Source
      BY <1>4, <1>5, ConstantFacts DEF Source
    <2>4. CandidatesAreDefined'
      BY <1>1, <1>2, <1>4, <1>5, <1>6, <2>3 DEF CandidatesAreDefined
    <2>5. TriedInOrder'
      BY <1>1, <1>4 DEF TriedInOrder
    <2>6. QED BY <2>2, <2>4, <2>5
  <1>11. SpeculationIsAccounted'
    BY <1>1, <1>6 DEF IInv, SpeculationIsAccounted
  <1>12. IndexingIsFirst'
    BY <1>1, <1>2, <1>4, <1>5 DEF IndexingIsFirst
  <1>13. FunctionsAreDistinct'
    BY <1>1, <1>4 DEF IInv, FunctionsAreDistinct
  <1>14. FunctionsAreLive'
    BY <1>1, <1>3, <1>4 DEF FunctionsAreLive, Planning, Attempts, TypeOK
  <1>15. QED BY <1>8, <1>9, <1>10, <1>11, <1>12, <1>13, <1>14 DEF IInv

LEMMA CollidingAreCandidates ==
  ASSUME MatcherTypeOK, BucketsHoldCandidates, NEW f \in Fn
  PROVE  Colliding(f) \subseteq candidates \ {f}
  <1> SUFFICES ASSUME NEW k \in Key, NEW j \in DOMAIN lsh[k], lsh[k][j] # f,
                      k \in ToSet(bandHash[f])
               PROVE  lsh[k][j] \in candidates
    <2> SUFFICES ASSUME NEW g \in Colliding(f) PROVE g \in candidates \ {f}
      OBVIOUS
    <2>1. g # f /\ \E k \in ToSet(bandHash[f]) :
                      g \in {lsh[k][j] : j \in {i \in DOMAIN lsh[k] : i <= BucketSizeCap}}
      BY DEF Colliding
    <2>2. ToSet(bandHash[f]) \subseteq Key
      BY DEF MatcherTypeOK, ToSet
    <2>3. QED BY <2>1, <2>2
  <1> DEFINE g == lsh[k][j]
             A == {i \in DOMAIN lsh[k] : lsh[k][i] = g}
  <1>1. lsh[k] \in Seq(Fn) /\ g \in Fn
    BY DEF MatcherTypeOK
  <1>2. j \in A /\ Count(g, lsh[k]) = Cardinality(A)
    BY DEF Count
  <1> HIDE DEF g
  <1>3. IsFiniteSet(A)
    BY <1>1, CountType
  <1> HIDE DEF A
  <1>4. Cardinality(A) # 0
    BY <1>2, <1>3, FS_EmptySet
  <1>5. g \in candidates
    BY <1>1, <1>2, <1>4 DEF BucketsHoldCandidates
  <1>6. QED BY <1>5 DEF g

(* F1 and its matches, in the order of their names. *)
LEMMA FrontAndMatches ==
  ASSUME NEW f \in Fn, NEW R \in SUBSET Fn, f \notin R
  PROVE  /\ <<f>> \o Ascending(R) \in Seq(Fn)
         /\ Len(<<f>> \o Ascending(R)) = Cardinality(R) + 1
         /\ Head(<<f>> \o Ascending(R)) = f
         /\ <<f>> \o Ascending(R) # << >>
         /\ ToSet(<<f>> \o Ascending(R)) = R \cup {f}
         /\ \A i, j \in DOMAIN (<<f>> \o Ascending(R)) :
              (<<f>> \o Ascending(R))[i] = (<<f>> \o Ascending(R))[j] => i = j
  <1> DEFINE s == <<f>>
             t == Ascending(R)
             u == s \o t
             n == Cardinality(R)
  <1>1. R \in SUBSET Nat /\ IsFiniteSet(R)
    BY ConstantFacts
  <1>2. /\ t \in Seq(R) /\ Len(t) = n /\ n \in Nat /\ DOMAIN t = 1 .. n /\ ToSet(t) = R
        /\ \A i, j \in 1 .. n : t[i] = t[j] => i = j
    BY <1>1, AscendingProperties
  <1>3. s \in Seq(Fn) /\ Len(s) = 1 /\ s[1] = f /\ ToSet(s) = {f}
    BY DEF ToSet
  <1>4. t \in Seq(Fn) /\ \A i \in 1 .. n : t[i] # f
    BY <1>2, SeqMonotonic DEF ToSet
  <1> HIDE DEF s, t
  <1>5. /\ u \in Seq(Fn) /\ Len(u) = 1 + n
        /\ \A i \in 1 .. 1 + n : u[i] = IF i <= 1 THEN s[i] ELSE t[i - 1]
    BY <1>2, <1>3, <1>4, ConcatProperties
  <1>6. ToSet(u) = R \cup {f}
    BY <1>2, <1>3, <1>4, ConcatToSet
  <1> HIDE DEF u, n
  <1>7. /\ DOMAIN u = 1 .. 1 + n /\ u[1] = f
        /\ \A i \in 1 .. 1 + n : i # 1 => i - 1 \in 1 .. n /\ u[i] = t[i - 1]
    BY <1>2, <1>3, <1>5
  <1>8. \A i, j \in DOMAIN u : u[i] = u[j] => i = j
    <2> SUFFICES ASSUME NEW i \in 1 .. 1 + n, NEW j \in 1 .. 1 + n, u[i] = u[j]
                 PROVE  i = j
      BY <1>7
    <2>1. CASE i = 1 \/ j = 1
      BY <1>4, <1>7, <2>1
    <2>2. CASE i # 1 /\ j # 1
      <3>1. i - 1 = j - 1
        BY <1>2, <1>7, <2>2
      <3>2. QED BY <1>2, <3>1
    <2>3. QED BY <2>1, <2>2
  <1>9. Head(u) = f /\ u # << >> /\ Len(u) = n + 1
    <2>1. 1 \in DOMAIN u
      BY <1>2, <1>7
    <2>2. u # << >>
      BY <2>1
    <2>3. QED BY <1>2, <1>5, <1>7, <2>2
  <1>10. QED BY <1>5, <1>6, <1>8, <1>9 DEF u, s, t, n

LEMMA ProcessSimilarSetKeeps == IInv /\ ProcessSimilarSet => IInv'
  <1> SUFFICES ASSUME IInv, ProcessSimilarSet PROVE IInv'
    OBVIOUS
  <1>a. PICK f \in candidates :
          \E seen \in SUBSET Colliding(f) : \E ranked \in SUBSET seen :
            UpdateMatches(f, seen, ranked) /\ NextCandidate(f, ranked)
    BY DEF ProcessSimilarSet
  <1>b. PICK seen \in SUBSET Colliding(f) :
          \E ranked \in SUBSET seen : UpdateMatches(f, seen, ranked) /\ NextCandidate(f, ranked)
    BY <1>a
  <1>1. PICK ranked \in SUBSET seen : UpdateMatches(f, seen, ranked) /\ NextCandidate(f, ranked)
    BY <1>b
  <1>2. /\ candidates' = candidates \ {f}
        /\ recent' = Items(recent, {i \in DOMAIN recent : recent[i] # f})
        /\ bandHash' = [bandHash EXCEPT ![f] = << >>]
        /\ lsh' = Erased(lsh, f)
        /\ functions' = <<f>> \o Ascending(ranked)
        /\ attempt' = 1 /\ tried' = << >> /\ best' = best
        /\ indexed' = indexed /\ defined' = defined /\ absorbedBy' = absorbedBy
        /\ cache' = {f} \cup seen /\ matches' = ranked
        /\ Cardinality(ranked) <= ExplorationThreshold
    BY <1>1 DEF UpdateMatches, NextCandidate, RemoveCandidate, Cached
  <1>3. best = << >> /\ indexed = NumSources /\ NumSources \in Nat
    BY ConstantFacts DEF ProcessSimilarSet, Idle
  <1>4. TypeOK /\ MatcherTypeOK /\ BucketsHoldCandidates
    BY DEF IInv, TypeOK
  <1>5. f \in Fn /\ seen \subseteq candidates \ {f} /\ candidates \in SUBSET Fn
    BY <1>4, CollidingAreCandidates DEF MatcherTypeOK
  <1>6. Merged(best) = {} /\ Merged(best)' = {} /\ candidates \subseteq defined /\ Live' = defined
    BY <1>2, <1>3 DEF IInv, CandidatesAreDefined, Merged, Live
  <1>7. ranked \in SUBSET Fn /\ f \notin ranked /\ Cardinality(ranked) \in Nat
    BY <1>5, ConstantFacts
  <1>8. /\ functions' \in Seq(Fn) /\ Len(functions') = Cardinality(ranked) + 1
        /\ Head(functions') = f /\ functions' # << >> /\ ToSet(functions') = ranked \cup {f}
        /\ \A i, j \in DOMAIN functions' : functions'[i] = functions'[j] => i = j
    BY <1>2, <1>5, <1>7, FrontAndMatches
  <1>9. Len(functions') \in 1 .. ExplorationThreshold + 1
    BY <1>2, <1>7, <1>8, ConstantFacts
  <1>10. Attempts' \in Nat
    <2>1. Attempts' = 2 * Len(Groupings[Len(functions')])
      BY <1>8 DEF Attempts
    <2>2. Len(Groupings[Len(functions')]) \in Nat
      BY <1>9, GroupingsProperties
    <2>3. QED BY <2>1, <2>2
  <1>11. /\ lsh' \in [Key -> Seq(Fn)]
         /\ \A g \in Fn \ {f}, k \in Key : Count(g, lsh'[k]) = Count(g, lsh[k])
         /\ \A k \in Key : Count(f, lsh'[k]) = 0
    <2>1. lsh \in [Key -> Seq(Fn)] /\ bandHash \in [Fn -> Seq(Key)]
      BY <1>4 DEF MatcherTypeOK
    <2>2. \A k \in Key : Count(f, lsh[k]) <= Count(k, bandHash[f])
      <3> TAKE k \in Key
      <3>1. Count(f, lsh[k]) = Count(k, bandHash[f])
        BY <1>4, <1>5 DEF BucketsHoldCandidates
      <3>2. Count(f, lsh[k]) \in Nat
        BY <2>1, CountType
      <3>3. QED BY <3>1, <3>2
    <2>3. /\ Erased(lsh, f) \in [Key -> Seq(Fn)]
          /\ \A g \in Fn \ {f}, k \in Key : Count(g, Erased(lsh, f)[k]) = Count(g, lsh[k])
          /\ \A k \in Key : Count(f, lsh[k]) <= Count(k, bandHash[f])
               => Count(f, Erased(lsh, f)[k]) = 0
      BY <1>5, <2>1, ErasedProperties
    <2>4. QED BY <1>2, <2>2, <2>3
  <1>12. TypeOK'
    <2>1. recent' \in Seq(candidates')
      <3> DEFINE I == {i \in DOMAIN recent : recent[i] # f}
      <3>1. recent \in Seq(candidates) /\ I \in SUBSET DOMAIN recent
        BY <1>4 DEF MatcherTypeOK
      <3>2. {recent[i] : i \in I} \subseteq candidates'
        BY <1>2, <3>1
      <3>3. recent' = Items(recent, I)
        BY <1>2
      <3> HIDE DEF I
      <3>4. Items(recent, I) \in Seq({recent[i] : i \in I})
        BY <3>1, ItemsProperties
      <3>5. QED BY <3>2, <3>3, <3>4, SeqMonotonic
    <2>2. MatcherTypeOK'
      BY <1>2, <1>4, <1>5, <1>7, <1>11, <2>1 DEF MatcherTypeOK
    <2>3. 1 \in 1 .. Attempts' + 1
      <3>1. \A a \in Nat : 1 \in 1 .. a + 1
        OBVIOUS
      <3>2. QED BY <1>10, <3>1, Zenon
    <2>4. tried' \in Seq(SUBSET SUBSET Nat)
      BY <1>2
    <2>5. QED BY <1>2, <1>4, <1>8, <2>2, <2>3, <2>4 DEF TypeOK
  <1>13. BucketsHoldCandidates'
    <2> SUFFICES ASSUME NEW g \in Fn, NEW k \in Key
                 PROVE  Count(g, lsh'[k]) = IF g \in candidates' THEN Count(k, bandHash'[g]) ELSE 0
      BY DEF BucketsHoldCandidates
    <2>1. CASE g = f
      BY <1>2, <1>11, <2>1
    <2>2. CASE g # f
      <3>1. Count(g, lsh[k]) = IF g \in candidates THEN Count(k, bandHash[g]) ELSE 0
        BY <1>4 DEF BucketsHoldCandidates
      <3>2. bandHash'[g] = bandHash[g] /\ (g \in candidates' <=> g \in candidates)
        BY <1>2, <1>4, <2>2 DEF MatcherTypeOK
      <3>3. QED BY <1>11, <2>2, <3>1, <3>2
    <2>3. QED BY <2>1, <2>2
  <1>14. RemovalsFindCandidates' /\ PlansAreSound'
    <2>1. DOMAIN best' = {}
      BY <1>2, <1>3
    <2>2. QED BY <2>1 DEF RemovalsFindCandidates, PlansAreSound
  <1>15. CandidatesAreDefined'
    BY <1>2, <1>6 DEF CandidatesAreDefined
  <1>16. SpeculationIsAccounted'
    BY <1>2, <1>6 DEF IInv, SpeculationIsAccounted
  <1>17. IndexingIsFirst'
    BY <1>2, <1>3 DEF IndexingIsFirst
  <1>18. FunctionsAreDistinct'
    <2>1. Head(functions') \notin candidates' \cup Merged(best)'
      BY <1>2, <1>6, <1>8
    <2>2. Len(functions') <= ExplorationThreshold + 1
      BY <1>9
    <2>3. QED BY <1>8, <2>1, <2>2 DEF FunctionsAreDistinct
  <1>19. FunctionsAreLive'
    BY <1>2, <1>5, <1>6, <1>8 DEF FunctionsAreLive
  <1>20. TriedInOrder'
    BY <1>2, <1>8 DEF TriedInOrder
  <1>21. QED BY <1>12, <1>13, <1>14, <1>15, <1>16, <1>17, <1>18, <1>19, <1>20 DEF IInv

(* What SpeculationIsAccounted says, with what is absorbed named. *)
IsAccounted == defined = ((Source \cup Applied) \ Absorbed) \cup Merged(best)

LEMMA Accounting == TypeOK => (SpeculationIsAccounted <=> IsAccounted)
  <1> SUFFICES ASSUME TypeOK PROVE SpeculationIsAccounted <=> IsAccounted
    OBVIOUS
  <1> DEFINE unabsorbed == {f \in Fn : absorbedBy[f] = f}
             applied == {absorbedBy[f] : f \in Fn \ unabsorbed}
  <1>1. Source \in SUBSET Fn /\ absorbedBy \in [Fn -> Fn]
    BY ConstantFacts DEF TypeOK
  <1>2. Absorbed = Fn \ unabsorbed
    BY DEF Absorbed
  <1>3. Applied = applied /\ Applied \in SUBSET Fn
    BY <1>1, <1>2 DEF Applied
  <1>4. (Source \cup applied) \cap unabsorbed = (Source \cup Applied) \ Absorbed
    BY <1>1, <1>2, <1>3
  <1>5. SpeculationIsAccounted
          <=> defined = ((Source \cup applied) \cap unabsorbed) \cup Merged(best)
    BY DEF SpeculationIsAccounted
  <1>6. QED BY <1>4, <1>5 DEF IsAccounted

LEMMA ExploreProfitableSetKeeps ==
  IInv /\ ExploreProfitableSet => IInv' /\ Live' = Live
  <1> SUFFICES ASSUME IInv, ExploreProfitableSet PROVE IInv' /\ Live' = Live
    OBVIOUS
  <1>a. PICK I \in SUBSET DOMAIN Groups :
          /\ Cardinality(I) <= Cardinality(Free)
          /\ \E gain \in [I -> Gains] : TryPlanMerge(I, gain)
    BY DEF ExploreProfitableSet
  <1>b. PICK gain \in [I -> Gains] : TryPlanMerge(I, gain)
    BY <1>a
  <1> DEFINE plans == Plans(I, gain)
             n == Len(functions)
  <1>1. /\ best' = IF IsKept(plans) THEN plans ELSE best
        /\ defined' = (defined \cup Merged(plans)) \ Disposed(plans)
        /\ tried' = Append(tried, ToSet(Groups))
        /\ attempt' = attempt + 1
        /\ functions' = functions /\ indexed' = indexed /\ absorbedBy' = absorbedBy
        /\ candidates' = candidates /\ recent' = recent /\ bandHash' = bandHash
        /\ lsh' = lsh /\ cache' = cache /\ matches' = matches
    BY <1>b DEF TryPlanMerge, matcherVars
  <1>2. Planning
    BY DEF ExploreProfitableSet
  <1>3. TypeOK /\ MatcherTypeOK
    BY DEF IInv, TypeOK
  <1>4. functions \in Seq(Fn) /\ n \in Nat /\ DOMAIN functions = 1 .. n
        /\ defined \in SUBSET Fn /\ absorbedBy \in [Fn -> Fn]
    BY <1>3, LenProperties DEF TypeOK
  <1>5. functions # << >>
    BY <1>2, <1>3 DEF Planning, Attempts, TypeOK
  <1>6. n \in 1 .. ExplorationThreshold + 1
        /\ \A i, j \in DOMAIN functions : functions[i] = functions[j] => i = j
    <2>1. n # 0
      BY <1>4, <1>5, EmptySeq
    <2>2. n <= ExplorationThreshold + 1
      BY DEF IInv, FunctionsAreDistinct
    <2>3. QED BY <1>4, <2>1, <2>2, ConstantFacts DEF IInv, FunctionsAreDistinct
  <1>7. Attempts = 2 * Len(Groupings[n]) /\ Len(Groupings[n]) \in Nat /\ Attempts \in Nat
    BY <1>5, <1>6, GroupingsProperties DEF Attempts
  <1>8. attempt \in 1 .. 2 * Len(Groupings[n])
    BY <1>2, <1>3, <1>7 DEF Planning, TypeOK
  <1>9. /\ (attempt + 1) \div 2 \in 1 .. Len(Groupings[n])
        /\ ToSet(Groups) = Groupings[n][(attempt + 1) \div 2]
        /\ \A i \in DOMAIN Groups : Groups[i] \in SUBSET (0 .. n - 1)
    BY <1>6, <1>8, GroupsProperties
  <1>10. /\ plans \in Seq(Plan)
         /\ \A m \in DOMAIN plans : /\ plans[m].functions \subseteq ToSet(functions)
                                    /\ Cardinality(plans[m].functions) > 1
                                    /\ plans[m].merged \in Free
         /\ \A l, m \in DOMAIN plans : l # m =>
              /\ plans[l].functions \cap plans[m].functions = {}
              /\ plans[l].merged # plans[m].merged
    BY <1>4, <1>6, <1>8, <1>a, <1>b, PlansProperties
  <1> HIDE DEF plans
  <1>11. /\ Applied' = Applied /\ Absorbed' = Absorbed
         /\ defined = ((Source \cup Applied) \ Absorbed) \cup Merged(best)
    BY <1>1, <1>3, Accounting DEF IInv, Applied, Absorbed, IsAccounted
  <1>12. /\ Merged(plans) \subseteq Free
         /\ Merged(plans) \cap (defined \cup Source \cup Applied \cup Absorbed) = {}
    <2>1. Merged(plans) \subseteq Free
      BY <1>10 DEF Merged
    <2>2. Free \cap (defined \cup Source \cup Absorbed) = {}
      BY DEF Free, Absorbed
    <2>3. Free \cap Applied = {}
      BY <1>11, <2>2
    <2>4. QED BY <2>1, <2>2, <2>3
  <1>13. Merged(best) \cap (Source \cup Applied) = {}
    BY DEF IInv, PlansAreSound, Merged
  <1>14. /\ Live' = Live
         /\ defined' = ((Source \cup Applied) \ Absorbed) \cup Merged(best')
    <2>1. CASE IsKept(plans)
      <3>1. best' = plans /\ defined' = (defined \cup Merged(plans)) \ Merged(best)
        BY <1>1, <2>1 DEF Disposed
      <3>2. Merged(best)' = Merged(plans) /\ Merged(best') = Merged(plans)
        BY <3>1 DEF Merged
      <3>3. QED BY <1>11, <1>12, <1>13, <3>1, <3>2 DEF Live
    <2>2. CASE ~ IsKept(plans)
      <3>1. best' = best /\ defined' = (defined \cup Merged(plans)) \ Merged(plans)
        BY <1>1, <2>2 DEF Disposed
      <3>2. defined' = defined
        BY <1>12, <3>1
      <3>3. QED BY <1>11, <3>1, <3>2 DEF Live, Merged
    <2>3. QED BY <2>1, <2>2
  <1>15. ToSet(functions) \subseteq Live
         /\ ToSet(functions) \ {Head(functions)} \subseteq cache \cap candidates
    BY <1>2 DEF IInv, FunctionsAreLive
  <1>16. TypeOK'
    <2>1. best' \in Seq(Plan)
      BY <1>1, <1>3, <1>10 DEF TypeOK
    <2>2. defined' \in SUBSET Fn
      BY <1>1, <1>4, <1>12 DEF Free
    <2>3. tried' \in Seq(SUBSET SUBSET Nat)
      <3>1. ToSet(Groups) \in SUBSET SUBSET Nat
        BY <1>4, <1>9 DEF ToSet
      <3>2. tried \in Seq(SUBSET SUBSET Nat)
        BY <1>3 DEF TypeOK
      <3>3. QED BY <1>1, <3>1, <3>2
    <2>4. Attempts' = Attempts
      BY <1>1 DEF Attempts
    <2>5. attempt' \in 1 .. Attempts' + 1
      BY <1>1, <1>7, <1>8, <2>4
    <2>6. MatcherTypeOK'
      BY <1>1, <1>3 DEF MatcherTypeOK
    <2>7. QED BY <1>1, <1>3, <2>1, <2>2, <2>3, <2>5, <2>6 DEF TypeOK
  <1>17. BucketsHoldCandidates'
    BY <1>1 DEF IInv, BucketsHoldCandidates
  <1>18. RemovalsFindCandidates'
    <2>1. CASE best' = best
      BY <1>1, <2>1 DEF IInv, RemovalsFindCandidates
    <2>2. CASE best' = plans
      BY <1>1, <1>10, <1>15, <2>2 DEF RemovalsFindCandidates
    <2>3. QED BY <1>1, <2>1, <2>2
  <1>19. CandidatesAreDefined'
    BY <1>1, <1>14 DEF IInv, CandidatesAreDefined, Live
  <1>20. SpeculationIsAccounted'
    <2>1. (TypeOK => (SpeculationIsAccounted <=> IsAccounted))'
      BY Accounting, PTL
    <2>2. Source' = Source /\ Merged(best)' = Merged(best')
      BY DEF Source, Merged
    <2>3. IsAccounted'
      BY <1>11, <1>14, <2>2 DEF IsAccounted
    <2>4. QED BY <1>16, <2>1, <2>3
  <1>21. IndexingIsFirst'
    BY <1>1, <1>5 DEF IInv, IndexingIsFirst
  <1>22. FunctionsAreDistinct'
    <2>1. Head(functions) \in ToSet(functions)
      BY <1>4, <1>5, <1>6 DEF ToSet
    <2>2. Head(functions) \notin Merged(plans)
      BY <1>12, <1>15, <2>1 DEF Live
    <2>3. Head(functions) \notin Merged(best)'
      BY <1>1, <1>5, <2>2 DEF IInv, FunctionsAreDistinct, Merged
    <2>4. QED BY <1>1, <1>5, <2>3 DEF IInv, FunctionsAreDistinct
  <1>23. FunctionsAreLive'
    BY <1>1, <1>14, <1>15 DEF FunctionsAreLive
  <1>24. PlansAreSound'
    <2>1. CASE best' = best
      BY <1>1, <1>11, <1>14, <2>1 DEF IInv, PlansAreSound, Source
    <2>2. CASE best' = plans
      <3>1. \A m \in DOMAIN plans : plans[m].merged \notin Source \cup Applied \cup Absorbed
        BY <1>12 DEF Merged
      <3>2. QED BY <1>10, <1>11, <1>14, <1>15, <2>2, <3>1 DEF PlansAreSound, Source
    <2>3. QED BY <1>1, <2>1, <2>2
  <1>25. TriedInOrder'
    <2>1. /\ Len(tried) = attempt - 1 /\ tried \in Seq(SUBSET SUBSET Nat)
          /\ \A i \in 1 .. attempt - 1 : tried[i] = Groupings[n][(i + 1) \div 2]
      BY <1>3, <1>5 DEF IInv, TriedInOrder, TypeOK
    <2>2. Len(tried') = attempt
      BY <1>1, <1>8, <2>1
    <2>3. ASSUME NEW i \in 1 .. attempt PROVE tried'[i] = Groupings[n][(i + 1) \div 2]
      <3>1. tried'[i] = IF i <= attempt - 1 THEN tried[i] ELSE ToSet(Groups)
        BY <1>1, <1>8, <2>1
      <3>2. CASE i = attempt
        <4>1. ~ (i <= attempt - 1)
          BY <1>8, <3>2
        <4>2. QED BY <1>9, <3>1, <3>2, <4>1
      <3>3. CASE i # attempt
        <4>1. i \in 1 .. attempt - 1
          BY <1>8, <3>3
        <4>2. QED BY <2>1, <3>1, <4>1
      <3>4. QED BY <3>2, <3>3
    <2>4. attempt' - 1 = attempt
      BY <1>1, <1>8
    <2>5. QED BY <1>1, <2>2, <2>3, <2>4 DEF TriedInOrder
  <1>26. QED BY <1>14, <1>16, <1>17, <1>18, <1>19, <1>20, <1>21, <1>22, <1>23, <1>24, <1>25
              DEF IInv

(* The plan that is applied absorbs its functions: as its own merged        *)
(* function is live from now on, the others that are planned stay apart.   *)
Taken == best[1].functions
NewFunction == best[1].merged

LEMMA AppliedPlan ==
  ASSUME IInv, ApplyBestPlan
  PROVE  /\ Taken \in SUBSET Fn /\ Taken \subseteq Live /\ Cardinality(Taken) > 1 /\ Taken # {}
         /\ NewFunction \in Fn
         /\ NewFunction \notin Source \cup Applied \cup Absorbed \cup Taken
                                   \cup Live \cup candidates
         /\ Head(functions) \notin candidates /\ Head(functions) # NewFunction
         /\ Taken \ {Head(functions)} \subseteq candidates
         /\ Taken \cap Absorbed = {}
         /\ Merged(best) = Merged(best') \cup {NewFunction} /\ NewFunction \notin Merged(best')
         /\ Live' = (Live \ Taken) \cup {NewFunction}
         /\ Absorbed' = Absorbed \cup Taken /\ Applied' = Applied \cup {NewFunction}
         /\ absorbedBy' = [f \in Fn |-> IF f \in Taken THEN NewFunction ELSE absorbedBy[f]]
         /\ defined' = defined \ Taken
         /\ best' \in Seq(Plan)
         /\ \A i \in DOMAIN best' : i + 1 \in DOMAIN best /\ best'[i] = best[i + 1]
         /\ \A i \in DOMAIN best' : best'[i].functions \cap Taken = {}
         /\ \A i \in DOMAIN best' : best'[i].merged # NewFunction
  <1> DEFINE S == best[1].functions
             m == best[1].merged
  <1>21. S = Taken /\ m = NewFunction
    BY DEF Taken, NewFunction
  <1>1. PICK h \in Fingerprints : ApplyPlan(h)
    BY DEF ApplyBestPlan
  <1>2. best # << >> /\ best \in Seq(Plan) /\ absorbedBy \in [Fn -> Fn]
        /\ defined \in SUBSET Fn /\ TypeOK
    BY DEF ApplyBestPlan, IInv, TypeOK
  <1>3. /\ Len(best) \in Nat /\ DOMAIN best = 1 .. Len(best) /\ 1 \in DOMAIN best
        /\ Head(best) = best[1] /\ best[1] \in Plan
    BY <1>2
  <1>4. /\ best' = Tail(best) /\ defined' = defined \ S
        /\ absorbedBy' = [f \in Fn |-> IF f \in S THEN m ELSE absorbedBy[f]]
    BY <1>1, <1>3 DEF ApplyPlan
  <1>5. /\ best' \in Seq(Plan)
        /\ \A i \in DOMAIN best' : i + 1 \in DOMAIN best /\ i + 1 # 1 /\ best'[i] = best[i + 1]
        /\ \A i \in DOMAIN best : i # 1 => i - 1 \in DOMAIN best' /\ best'[i - 1] = best[i]
    BY <1>2, <1>3, <1>4
  <1>6. S \in SUBSET Fn /\ m \in Fn
    BY <1>3 DEF Plan
  <1>7. /\ S \subseteq Live /\ Cardinality(S) > 1 /\ m \notin Source \cup Applied \cup Absorbed
        /\ m \in Merged(best)
    BY <1>3 DEF IInv, PlansAreSound, Merged
  <1>8. S # {}
    BY <1>7, FS_EmptySet
  <1>9. ASSUME NEW i \in DOMAIN best'
        PROVE  best'[i].functions \cap S = {} /\ best'[i].merged # m
    <2>1. i + 1 \in DOMAIN best /\ i + 1 # 1 /\ best'[i] = best[i + 1]
      BY <1>5
    <2>2. best[i + 1].functions \cap best[1].functions = {}
      BY <1>3, <2>1 DEF IInv, RemovalsFindCandidates
    <2>3. best[i + 1].merged # best[1].merged
      BY <1>3, <2>1 DEF IInv, PlansAreSound
    <2>4. QED BY <2>1, <2>2, <2>3
  <1>10. Merged(best) = Merged(best') \cup {m} /\ m \notin Merged(best')
    <2>1. Merged(best') \subseteq Merged(best)
      BY <1>5 DEF Merged
    <2>2. Merged(best) \subseteq Merged(best') \cup {m}
      <3> SUFFICES ASSUME NEW i \in DOMAIN best, i # 1
                   PROVE  best[i].merged \in Merged(best')
        BY DEF Merged
      <3>1. i - 1 \in DOMAIN best' /\ best'[i - 1] = best[i]
        BY <1>5
      <3>2. QED BY <3>1 DEF Merged
    <2>3. m \notin Merged(best')
      BY <1>9 DEF Merged
    <2>4. QED BY <1>7, <2>1, <2>2, <2>3
  <1>11. /\ functions # << >> /\ Head(functions) \notin candidates /\ Head(functions) # m
    BY <1>2, <1>7 DEF IInv, FunctionsAreDistinct
  <1>12. S \ {Head(functions)} \subseteq candidates
    BY <1>3 DEF IInv, RemovalsFindCandidates
  <1>13. candidates \subseteq Live
    BY DEF IInv, CandidatesAreDefined, Live
  <1>14. defined = ((Source \cup Applied) \ Absorbed) \cup Merged(best)
    BY <1>2, Accounting DEF IInv, IsAccounted
  <1>15. m \notin Live /\ m \notin S /\ m \notin candidates
    BY <1>7, <1>13 DEF Live
  <1>16. S \cap Absorbed = {} /\ S \cap Merged(best) = {}
    BY <1>7, <1>14 DEF Live
  <1>17. Live' = (Live \ S) \cup {m}
    <2>1. Live' = (defined \ S) \ Merged(best')
      BY <1>4 DEF Live, Merged
    <2>2. QED BY <1>7, <1>10, <1>14, <1>15, <2>1 DEF Live
  <1>18. Absorbed' = Absorbed \cup S
    BY <1>4, <1>6, <1>15 DEF Absorbed
  <1>19. Applied' = Applied \cup {m}
    <2>1. Applied' = {absorbedBy'[f] : f \in Absorbed \cup S}
      BY <1>18 DEF Applied
    <2>2. \A f \in Absorbed : f \in Fn /\ f \notin S /\ absorbedBy'[f] = absorbedBy[f]
      BY <1>4, <1>16 DEF Absorbed
    <2>3. \A f \in S : absorbedBy'[f] = m
      BY <1>4, <1>6
    <2>4. QED BY <1>8, <2>1, <2>2, <2>3 DEF Applied
  <1>20. QED BY <1>4, <1>5, <1>6, <1>7, <1>8, <1>9, <1>10, <1>11, <1>12, <1>15, <1>16,
                <1>17, <1>18, <1>19, <1>21

LEMMA ApplyBestPlanKeeps == IInv /\ ApplyBestPlan => IInv'
  <1> SUFFICES ASSUME IInv, ApplyBestPlan PROVE IInv'
    OBVIOUS
  <1> DEFINE S == Taken
             m == NewFunction
             F1 == Head(functions)
             R == S \ {F1}
  <1>1. PICK h \in Fingerprints : ApplyPlan(h)
    BY DEF ApplyBestPlan
  <1>2. h \in Seq(Key)
    BY FingerprintsAreBands
  <1>3. Head(best) = best[1]
    BY DEF ApplyBestPlan, IInv, TypeOK
  <1>4. /\ candidates' = (candidates \ R) \cup {m}
        /\ recent' = <<m>> \o Items(recent, {i \in DOMAIN recent : recent[i] \notin R})
        /\ bandHash' = [g \in Fn |-> IF g = m THEN h
                                     ELSE IF g \in R THEN << >> ELSE bandHash[g]]
        /\ lsh' = Pushed(ErasedAll(lsh, R), m, h)
    BY <1>1, <1>3, Zenon DEF ApplyPlan, ReplaceCandidates, ErasedAll, Taken, NewFunction
  <1>5. /\ cache' = cache /\ matches' = matches /\ functions' = functions
        /\ attempt' = attempt /\ tried' = tried /\ indexed' = indexed
    BY <1>1 DEF ApplyPlan
  <1>6. ~ Planning /\ best # << >>
    BY DEF ApplyBestPlan
  <1>7. TypeOK /\ MatcherTypeOK /\ BucketsHoldCandidates
    BY DEF IInv, TypeOK
  <1>8. /\ S \in SUBSET Fn /\ S \subseteq Live /\ m \in Fn
        /\ m \notin Source \cup Applied \cup Absorbed \cup S \cup Live \cup candidates
        /\ F1 \notin candidates /\ F1 # m
        /\ R \subseteq candidates
        /\ Merged(best) = Merged(best') \cup {m}
        /\ Live' = (Live \ S) \cup {m}
        /\ Absorbed' = Absorbed \cup S /\ Applied' = Applied \cup {m}
        /\ absorbedBy' = [f \in Fn |-> IF f \in S THEN m ELSE absorbedBy[f]]
        /\ defined' = defined \ S
        /\ best' \in Seq(Plan)
        /\ \A i \in DOMAIN best' : i + 1 \in DOMAIN best /\ best'[i] = best[i + 1]
        /\ \A i \in DOMAIN best' : best'[i].functions \cap S = {}
        /\ \A i \in DOMAIN best' : best'[i].merged # m
    BY AppliedPlan
  <1> HIDE DEF m, S, F1
  <1>9. R \in SUBSET Fn /\ m \notin R
    BY <1>8
  <1>10. /\ lsh' \in [Key -> Seq(Fn)]
         /\ \A g \in Fn, k \in Key :
              Count(g, lsh'[k]) = (IF g \in R THEN 0 ELSE Count(g, lsh[k]))
                                    + (IF g = m THEN Count(k, h) ELSE 0)
    <2>1. lsh \in [Key -> Seq(Fn)] /\ bandHash \in [Fn -> Seq(Key)]
      BY <1>7 DEF MatcherTypeOK
    <2>2. \A f \in R, k \in Key : Count(f, lsh[k]) <= Count(k, bandHash[f])
      <3> TAKE f \in R, k \in Key
      <3>1. Count(f, lsh[k]) = Count(k, bandHash[f])
        BY <1>7, <1>8, <1>9 DEF BucketsHoldCandidates
      <3>2. Count(f, lsh[k]) \in Nat
        BY <2>1, CountType
      <3>3. QED BY <3>1, <3>2
    <2>3. IsFiniteSet(R)
      BY <1>9, ConstantFacts
    <2> DEFINE b == ErasedAll(lsh, R)
    <2> HIDE DEF R
    <2>4. /\ b \in [Key -> Seq(Fn)]
          /\ \A g \in Fn, k \in Key : Count(g, b[k]) = IF g \in R THEN 0 ELSE Count(g, lsh[k])
      BY <1>9, <2>1, <2>2, <2>3, ErasedAllProperties
    <2> HIDE DEF b
    <2>5. /\ Pushed(b, m, h) \in [Key -> Seq(Fn)]
          /\ \A g \in Fn, k \in Key :
               Count(g, Pushed(b, m, h)[k]) = Count(g, b[k]) + IF g = m THEN Count(k, h) ELSE 0
      BY <1>2, <1>8, <2>4, PushedProperties
    <2>6. lsh' = Pushed(b, m, h)
      BY <1>4 DEF b
    <2>7. QED BY <2>4, <2>5, <2>6
  <1>11. TypeOK'
    <2>1. recent' \in Seq(candidates')
      <3> DEFINE I == {i \in DOMAIN recent : recent[i] \notin R}
                 t == Items(recent, I)
      <3>1. recent \in Seq(candidates) /\ I \in SUBSET DOMAIN recent
        BY <1>7 DEF MatcherTypeOK
      <3>2. {recent[i] : i \in I} \subseteq candidates'
        BY <1>4, <3>1
      <3>3. recent' = <<m>> \o t
        BY <1>4
      <3> HIDE DEF I
      <3>4. t \in Seq({recent[i] : i \in I})
        BY <3>1, ItemsProperties
      <3>5. t \in Seq(candidates')
        BY <3>2, <3>4, SeqMonotonic
      <3>6. <<m>> \in Seq(candidates')
        BY <1>4
      <3>7. QED BY <3>3, <3>5, <3>6, ConcatProperties
    <2>2. bandHash' \in [Fn -> Seq(Key)]
      BY <1>2, <1>4, <1>7 DEF MatcherTypeOK
    <2>3. MatcherTypeOK'
      BY <1>4, <1>5, <1>7, <1>8, <1>10, <2>1, <2>2 DEF MatcherTypeOK
    <2>4. Attempts' = Attempts
      BY <1>5 DEF Attempts
    <2>5. absorbedBy' \in [Fn -> Fn]
      BY <1>7, <1>8 DEF TypeOK
    <2>6. QED BY <1>5, <1>7, <1>8, <2>3, <2>4, <2>5 DEF TypeOK
  <1>12. BucketsHoldCandidates'
    <2> SUFFICES ASSUME NEW g \in Fn, NEW k \in Key
                 PROVE  Count(g, lsh'[k]) = IF g \in candidates' THEN Count(k, bandHash'[g]) ELSE 0
      BY DEF BucketsHoldCandidates
    <2>1. Count(g, lsh[k]) = IF g \in candidates THEN Count(k, bandHash[g]) ELSE 0
      BY <1>7 DEF BucketsHoldCandidates
    <2>2. Count(g, lsh[k]) \in Nat /\ Count(k, h) \in Nat
      BY <1>2, <1>7, CountType DEF MatcherTypeOK
    <2>3. Count(g, lsh'[k]) = (IF g \in R THEN 0 ELSE Count(g, lsh[k]))
                                + (IF g = m THEN Count(k, h) ELSE 0)
      BY <1>10
    <2>4. CASE g = m
      <3>1. g \in candidates' /\ bandHash'[g] = h /\ g \notin R /\ g \notin candidates
        BY <1>4, <1>8, <1>9, <2>4
      <3>2. QED BY <2>1, <2>2, <2>3, <2>4, <3>1
    <2>5. CASE g # m /\ g \in R
      <3>1. g \notin candidates'
        BY <1>4, <2>5
      <3>2. QED BY <2>3, <2>5, <3>1
    <2>6. CASE g # m /\ g \notin R
      <3>1. bandHash'[g] = bandHash[g] /\ (g \in candidates' <=> g \in candidates)
        BY <1>4, <2>6
      <3>2. QED BY <2>1, <2>2, <2>3, <2>6, <3>1
    <2>7. QED BY <2>4, <2>5, <2>6
  <1>13. RemovalsFindCandidates'
    <2>1. ASSUME NEW i \in DOMAIN best'
          PROVE  best'[i].functions \ {F1} \subseteq cache' \cap candidates'
      <3>1. best'[i].functions \ {F1} \subseteq cache \cap candidates
        BY <1>8 DEF IInv, RemovalsFindCandidates, F1
      <3>2. best'[i].functions \cap R = {}
        BY <1>8
      <3>3. QED BY <1>4, <1>5, <3>1, <3>2
    <2>2. ASSUME NEW i \in DOMAIN best', NEW j \in DOMAIN best', i # j
          PROVE  best'[i].functions \cap best'[j].functions = {}
      <3>1. i + 1 # j + 1
        BY <1>8, <2>2
      <3>2. QED BY <1>8, <3>1 DEF IInv, RemovalsFindCandidates
    <2>3. QED BY <1>5, <2>1, <2>2 DEF RemovalsFindCandidates, F1
  <1>14. CandidatesAreDefined'
    <2>1. candidates \subseteq Live
      BY DEF IInv, CandidatesAreDefined, Live
    <2>2. candidates' \subseteq Live'
      BY <1>4, <1>8, <2>1
    <2>3. QED BY <2>2 DEF CandidatesAreDefined, Live
  <1>15. SpeculationIsAccounted'
    <2>1. (TypeOK => (SpeculationIsAccounted <=> IsAccounted))'
      BY Accounting, PTL
    <2>2. Source' = Source /\ Merged(best)' = Merged(best')
      BY DEF Source, Merged
    <2>3. defined = ((Source \cup Applied) \ Absorbed) \cup Merged(best)
      BY <1>7, Accounting DEF IInv, IsAccounted
    <2>4. S \cap Merged(best) = {}
      BY <1>8 DEF Live
    <2>5. IsAccounted'
      BY <1>8, <2>2, <2>3, <2>4 DEF IsAccounted
    <2>6. QED BY <1>11, <2>1, <2>5
  <1>16. IndexingIsFirst'
    BY <1>5, <1>6 DEF IInv, FunctionsAreDistinct, IndexingIsFirst
  <1>17. FunctionsAreDistinct'
    <2>1. Merged(best)' \subseteq Merged(best)
      BY <1>8 DEF Merged
    <2>2. functions # << >> /\ F1 \notin Merged(best)
      BY <1>6 DEF IInv, FunctionsAreDistinct, F1
    <2>3. Head(functions') \notin candidates' \cup Merged(best)'
      BY <1>4, <1>5, <1>8, <2>1, <2>2 DEF F1
    <2>4. QED BY <1>5, <2>2, <2>3 DEF IInv, FunctionsAreDistinct
  <1>18. FunctionsAreLive' /\ TriedInOrder'
    BY <1>5, <1>6 DEF IInv, FunctionsAreLive, TriedInOrder, Planning, Attempts
  <1>19. PlansAreSound'
    <2>1. ASSUME NEW i \in DOMAIN best'
          PROVE  /\ best'[i].functions \subseteq Live'
                 /\ Cardinality(best'[i].functions) > 1
                 /\ best'[i].merged \notin Source' \cup Applied' \cup Absorbed'
      <3>1. i + 1 \in DOMAIN best /\ best'[i] = best[i + 1]
        BY <1>8
      <3>2. /\ best'[i].functions \subseteq Live
            /\ Cardinality(best'[i].functions) > 1
            /\ best'[i].merged \notin Source \cup Applied \cup Absorbed
        BY <3>1 DEF IInv, PlansAreSound
      <3>3. best'[i].merged \in Merged(best)
        BY <3>1 DEF Merged
      <3>4. best'[i].merged \notin S
        BY <1>8, <3>3 DEF Live
      <3>5. Source' = Source
        BY DEF Source
      <3>6. QED BY <1>8, <3>2, <3>4, <3>5
    <2>2. ASSUME NEW i \in DOMAIN best', NEW j \in DOMAIN best',
                 best'[i].merged = best'[j].merged
          PROVE  i = j
      <3>1. i + 1 = j + 1
        BY <1>8, <2>2 DEF IInv, PlansAreSound
      <3>2. i \in Nat /\ j \in Nat
        BY <1>8
      <3>3. QED BY <3>1, <3>2
    <2>3. QED BY <2>1, <2>2 DEF PlansAreSound
  <1>20. QED BY <1>11, <1>12, <1>13, <1>14, <1>15, <1>16, <1>17, <1>18, <1>19 DEF IInv

LEMMA Unchanged == IInv /\ UNCHANGED vars => IInv' /\ Live' = Live
  <1> SUFFICES ASSUME IInv, UNCHANGED vars PROVE IInv' /\ Live' = Live
    OBVIOUS
  <1> USE DEF vars, matcherVars, plannerVars
  <1>1. TypeOK'
    BY DEF IInv, TypeOK, MatcherTypeOK, Attempts
  <1>2. BucketsHoldCandidates' /\ RemovalsFindCandidates' /\ CandidatesAreDefined'
    BY DEF IInv, BucketsHoldCandidates, RemovalsFindCandidates, CandidatesAreDefined, Merged
  <1>3. SpeculationIsAccounted' /\ IndexingIsFirst' /\ FunctionsAreDistinct'
    BY DEF IInv, SpeculationIsAccounted, IndexingIsFirst, FunctionsAreDistinct, Merged, Source
  <1>4. FunctionsAreLive' /\ TriedInOrder' /\ Live' = Live
    BY DEF IInv, FunctionsAreLive, TriedInOrder, Planning, Attempts, Live, Merged
  <1>5. PlansAreSound'
    BY DEF IInv, PlansAreSound, Live, Merged, Source, Applied, Absorbed
  <1>6. QED BY <1>1, <1>2, <1>3, <1>4, <1>5 DEF IInv

LEMMA Invariant == Spec => []IInv
  <1>1. IInv /\ [Next]_vars => IInv'
    <2> SUFFICES ASSUME IInv, [Next]_vars PROVE IInv'
      OBVIOUS
    <2>1. CASE IndexSource
      BY <2>1, IndexSourceKeeps
    <2>2. CASE ProcessSimilarSet
      BY <2>2, ProcessSimilarSetKeeps
    <2>3. CASE ExploreProfitableSet
      BY <2>3, ExploreProfitableSetKeeps
    <2>4. CASE ApplyBestPlan
      BY <2>4, ApplyBestPlanKeeps
    <2>5. CASE Return
      BY <2>5, Unchanged DEF Return
    <2>6. CASE UNCHANGED vars
      BY <2>6, Unchanged
    <2>7. QED BY <2>1, <2>2, <2>3, <2>4, <2>5, <2>6 DEF Next
  <1>2. QED BY InitEstablishes, <1>1, PTL DEF Spec

(***************************************************************************)
(* What follows from the invariant                                         *)
(***************************************************************************)

(* The matcher, the functions that are grouped, the attempts, the plans and *)
(* the names of merged functions have the types the exploration relies on. *)
THEOREM TypeCorrect == Spec => []TypeOK
  BY Invariant, PTL DEF IInv

(* A candidate is in the bucket of every band of its fingerprint as often  *)
(* as it has the band, and nothing else is in a bucket: MatcherLSH erases  *)
(* a removed function from all its buckets.                                *)
THEOREM MatcherFindsCandidates == Spec => []BucketsHoldCandidates
  BY Invariant, PTL DEF IInv

(* Applying the plans of bestPlan one after the other never asks the        *)
(* matcher to remove a function that it does not hold any more.            *)
THEOREM RemovalsAreSafe == Spec => []RemovalsFindCandidates
  BY Invariant, PTL DEF IInv

(* No candidate of the matcher is a function that applyMerge or discard    *)
(* has erased.                                                             *)
THEOREM NoCandidateIsErased == Spec => []CandidatesAreDefined
  BY Invariant, PTL DEF IInv

(* Every merged function that tryPlanMerge made is applied, planned to be   *)
(* applied or erased again.                                                *)
THEOREM NoPlanIsForgotten == Spec => []SpeculationIsAccounted
  BY Invariant, PTL DEF IInv

LEMMA TriedAreAllGroupings == IInv => AllGroupingsTried
  <1> DEFINE n == Len(functions)
             G == Groupings[n]
             L == Len(G)
  <1> SUFFICES ASSUME IInv, functions # << >>, ~ Planning
               PROVE  ToSet(tried) = AllGroupings(n)
    BY DEF AllGroupingsTried
  <1>1. /\ functions \in Seq(Fn) /\ n \in Nat /\ n # 0 /\ n <= ExplorationThreshold + 1
        /\ attempt \in 1 .. Attempts + 1 /\ tried \in Seq(SUBSET SUBSET Nat)
    BY EmptySeq DEF IInv, TypeOK, FunctionsAreDistinct
  <1>2. n \in 1 .. ExplorationThreshold + 1
    BY <1>1, ConstantFacts
  <1> HIDE DEF n
  <1>3. G \in Seq(Grouping(n)) /\ L \in Nat /\ ToSet(G) = AllGroupings(n)
    BY <1>2, GroupingsProperties
  <1>4. Attempts = 2 * L /\ attempt = 2 * L + 1
    <2>1. Attempts = 2 * L
      BY DEF Attempts, n
    <2>2. QED BY <1>1, <1>3, <2>1 DEF Planning
  <1> HIDE DEF L
  <1>5. /\ DOMAIN tried = 1 .. 2 * L
        /\ \A i \in 1 .. 2 * L : tried[i] = G[(i + 1) \div 2]
    BY <1>1, <1>3, <1>4 DEF IInv, TriedInOrder, n
  <1>6. DOMAIN G = 1 .. L
    BY <1>3 DEF L
  <1> HIDE DEF G
  <1>7. ToSet(tried) \subseteq ToSet(G)
    <2>1. \A i \in 1 .. 2 * L : (i + 1) \div 2 \in 1 .. L
      BY <1>3
    <2>2. QED BY <1>5, <1>6, <2>1 DEF ToSet
  <1>8. ToSet(G) \subseteq ToSet(tried)
    <2>1. \A j \in 1 .. L : 2 * j \in 1 .. 2 * L /\ (2 * j + 1) \div 2 = j
      BY <1>3
    <2>2. QED BY <1>5, <1>6, <2>1 DEF ToSet
  <1>9. QED BY <1>3, <1>7, <1>8

(* exploreProfitableSet leaves out no grouping: when it is done, it has     *)
(* tried every way to divide F1 and its matches into groups of equal size, *)
(* as many as fit, F1 in one of them.                                      *)
THEOREM ExplorationIsExhaustive == Spec => []AllGroupingsTried
  BY Invariant, TriedAreAllGroupings, PTL

LEMMA StepsAreForestSteps ==
  IInv /\ [Next]_vars => [Forest!ForestNext]_<<defined \ Merged(best), absorbedBy>>
  <1> SUFFICES ASSUME IInv, [Next]_vars, ~ UNCHANGED <<Live, absorbedBy>>
               PROVE  Forest!ForestNext
    BY DEF Live
  <1>1. CASE IndexSource \/ ProcessSimilarSet
    BY <1>1 DEF IndexSource, IndexCandidate, ProcessSimilarSet, NextCandidate, plannerVars,
                Live, Merged
  <1>2. CASE ExploreProfitableSet
    BY <1>2, ExploreProfitableSetKeeps DEF ExploreProfitableSet, TryPlanMerge
  <1>3. CASE ApplyBestPlan
    <2>1. /\ Taken \in SUBSET Fn /\ Taken \subseteq Live /\ Cardinality(Taken) > 1
          /\ NewFunction \in Fn /\ NewFunction \notin Absorbed \cup Live
          /\ Live' = (Live \ Taken) \cup {NewFunction}
          /\ absorbedBy' = [f \in Fn |-> IF f \in Taken THEN NewFunction ELSE absorbedBy[f]]
      BY <1>3, AppliedPlan
    <2>2. absorbedBy[NewFunction] = NewFunction
      BY <2>1 DEF Absorbed
    <2>3. Forest!Absorb(Taken, NewFunction)
      BY <2>1, <2>2 DEF Forest!Absorb, Forest!Fresh, Forest!Unabsorbed, Live,
                        Forest!Cardinality, Cardinality
    <2>4. QED BY <2>1, <2>3 DEF Forest!ForestNext, Live
  <1>4. CASE Return \/ UNCHANGED vars
    BY <1>4 DEF Return, vars, plannerVars, Live, Merged
  <1>5. QED BY <1>1, <1>2, <1>3, <1>4 DEF Next

(* The exploration implements MergeForest: however the groupings are tried *)
(* and kept, a plan is only ever applied over functions that stand on      *)
(* their own, and its merged function is new.                              *)
THEOREM MatchFinderImplementsForest == Spec => ImplementsForest
  <1>1. Init => Forest!ForestInit
    BY DEF Init, Merged, Forest!ForestInit
  <1>2. IInv /\ [Next]_vars => [Forest!ForestNext]_(Forest!forestVars)
    BY StepsAreForestSteps DEF Forest!forestVars
  <1>3. QED BY <1>1, <1>2, Invariant, PTL DEF Spec, ImplementsForest, Forest!ForestSpec

(* A function that was absorbed stays absorbed by the same function:        *)
(* applyMerge never erases a function a second time.                       *)
THEOREM FunctionsAreAbsorbedOnce == Spec => Forest!AbsorbedOnce
  <1> DEFINE Inv == Forest!LiveAreUnabsorbed /\ Live \subseteq Fn
  <1>1. Forest!ForestInit => Inv
    <2>1. Source \subseteq Fn
      BY MatchFinderAssumption DEF Source
    <2>2. QED BY <2>1 DEF Live, Forest!ForestInit, Forest!LiveAreUnabsorbed, Forest!Unabsorbed
  <1>2. Inv /\ [Forest!ForestNext]_(Forest!forestVars) => Inv'
    <2> SUFFICES ASSUME Inv, [Forest!ForestNext]_(Forest!forestVars) PROVE Inv'
      OBVIOUS
    <2>1. ASSUME NEW S \in SUBSET Live, NEW m \in Fn, Forest!Absorb(S, m) PROVE Inv'
      BY <2>1 DEF Forest!Absorb, Forest!Fresh, Forest!Unabsorbed, Forest!LiveAreUnabsorbed, Live
    <2>2. CASE UNCHANGED Forest!forestVars
      BY <2>2 DEF Forest!forestVars, Forest!LiveAreUnabsorbed, Forest!Unabsorbed, Live
    <2>3. QED BY <2>1, <2>2 DEF Forest!ForestNext, Live
  <1>3. Inv /\ [Forest!ForestNext]_(Forest!forestVars)
          => [\A f \in Fn : ~ Forest!Unabsorbed(f)
              => absorbedBy'[f] = absorbedBy[f]]_(Forest!forestVars)
    BY DEF Forest!ForestNext, Forest!Absorb, Forest!LiveAreUnabsorbed, Forest!Unabsorbed,
           Forest!forestVars
  <1>4. QED BY <1>1, <1>2, <1>3, MatchFinderImplementsForest, PTL
            DEF ImplementsForest, Forest!ForestSpec, Forest!AbsorbedOnce

LEMMA LexicographicallyLess ==
  ASSUME NEW s, NEW t, NEW s1, NEW s2, NEW s3, NEW s4, NEW t1, NEW t2, NEW t3, NEW t4,
         s = <<s1, s2, s3, s4>>, t = <<t1, t2, t3, t4>>,
         \/ s1 < t1
         \/ s1 = t1 /\ s2 < t2
         \/ s1 = t1 /\ s2 = t2 /\ s3 < t3
         \/ s1 = t1 /\ s2 = t2 /\ s3 = t3 /\ s4 < t4
  PROVE  IsLess(s, t)
  <1>1. /\ DOMAIN s = 1 .. 4 /\ s[1] = s1 /\ s[2] = s2 /\ s[3] = s3 /\ s[4] = s4
        /\ t[1] = t1 /\ t[2] = t2 /\ t[3] = t3 /\ t[4] = t4
    OBVIOUS
  <1>2. PICK i \in {1, 2, 3, 4} : s[i] < t[i] /\ \A j \in 1 .. i - 1 : s[j] = t[j]
    <2>1. CASE s1 < t1
      <3>1. s[1] < t[1] /\ \A j \in 1 .. 1 - 1 : s[j] = t[j]
        BY <1>1, <2>1
      <3>2. QED BY <3>1
    <2>2. CASE s1 = t1 /\ s2 < t2
      <3>1. \A j \in 1 .. 2 - 1 : j = 1
        OBVIOUS
      <3>2. s[2] < t[2] /\ \A j \in 1 .. 2 - 1 : s[j] = t[j]
        BY <1>1, <2>2, <3>1
      <3>3. QED BY <3>2
    <2>3. CASE s1 = t1 /\ s2 = t2 /\ s3 < t3
      <3>1. \A j \in 1 .. 3 - 1 : j = 1 \/ j = 2
        OBVIOUS
      <3>2. s[3] < t[3] /\ \A j \in 1 .. 3 - 1 : s[j] = t[j]
        BY <1>1, <2>3, <3>1
      <3>3. QED BY <3>2
    <2>4. CASE s1 = t1 /\ s2 = t2 /\ s3 = t3 /\ s4 < t4
      <3>1. \A j \in 1 .. 4 - 1 : j = 1 \/ j = 2 \/ j = 3
        OBVIOUS
      <3>2. s[4] < t[4] /\ \A j \in 1 .. 4 - 1 : s[j] = t[j]
        BY <1>1, <2>4, <3>1
      <3>3. QED BY <3>2
    <2>5. QED BY <2>1, <2>2, <2>3, <2>4
  <1>3. i \in DOMAIN s
    BY <1>1
  <1>4. QED BY <1>2, <1>3 DEF IsLess

LEMMA StepsDecrease == IInv /\ [Next]_vars => [IsLess(Remaining', Remaining)]_vars
  <1> DEFINE left == NumSources - indexed
             attempts == Attempts + 1 - attempt
  <1> SUFFICES ASSUME IInv, Next, ~ UNCHANGED vars
               PROVE  IsLess(Remaining', Remaining)
    OBVIOUS
  <1>1. /\ Remaining = <<left, Cardinality(candidates), attempts, Len(best)>>
        /\ Remaining' = <<left', Cardinality(candidates'), attempts', Len(best')>>
    BY DEF Remaining
  <1>2. /\ NumSources \in Nat /\ indexed \in 0 .. NumSources
        /\ candidates \in SUBSET Fn /\ best \in Seq(Plan)
    BY ConstantFacts DEF IInv, TypeOK, MatcherTypeOK
  <1>3. IsFiniteSet(candidates) /\ Cardinality(candidates) \in Nat
    BY <1>2, ConstantFacts
  <1>4. CASE IndexSource
    <2>1. left' < left
      BY <1>2, <1>4 DEF IndexSource
    <2> HIDE DEF left, attempts
    <2>2. QED BY <1>1, <2>1, LexicographicallyLess
  <1>5. CASE ProcessSimilarSet
    <2>1. PICK f \in candidates : indexed' = indexed /\ candidates' = candidates \ {f}
      BY <1>5 DEF ProcessSimilarSet, NextCandidate, RemoveCandidate
    <2>2. Cardinality(candidates') = Cardinality(candidates) - 1
      BY <1>3, <2>1, FS_RemoveElement
    <2>3. left' = left /\ Cardinality(candidates') < Cardinality(candidates)
      BY <1>3, <2>1, <2>2
    <2> HIDE DEF left, attempts
    <2>4. QED BY <1>1, <2>3, LexicographicallyLess
  <1>6. CASE ExploreProfitableSet
    <2>1. /\ indexed' = indexed /\ candidates' = candidates /\ functions' = functions
          /\ attempt' = attempt + 1
      BY <1>6 DEF ExploreProfitableSet, TryPlanMerge, matcherVars
    <2>2. Attempts' = Attempts /\ attempt \in Int /\ Attempts \in Int
      <3>1. attempt \in 1 .. Attempts + 1
        BY DEF IInv, TypeOK
      <3>2. attempt <= Attempts
        BY <1>6 DEF ExploreProfitableSet, Planning
      <3>3. functions # << >>
        BY <3>1, <3>2 DEF Attempts
      <3>4. functions \in Seq(Fn) /\ Len(functions) <= ExplorationThreshold + 1
        BY DEF IInv, TypeOK, FunctionsAreDistinct
      <3>5. Len(functions) \in 1 .. ExplorationThreshold + 1
        BY <3>3, <3>4, EmptySeq, ConstantFacts
      <3>6. Len(Groupings[Len(functions)]) \in Nat
        BY <3>5, GroupingsProperties
      <3>7. Attempts \in Nat
        BY <3>6 DEF Attempts
      <3>8. QED BY <2>1, <3>1, <3>7 DEF Attempts
    <2>3. /\ left' = left /\ Cardinality(candidates') = Cardinality(candidates)
          /\ attempts' < attempts
      BY <2>1, <2>2
    <2> HIDE DEF left, attempts
    <2>4. QED BY <1>1, <2>3, LexicographicallyLess
  <1>7. CASE ApplyBestPlan
    <2>1. /\ Taken \ {Head(functions)} \subseteq candidates /\ Taken \in SUBSET Fn
          /\ Cardinality(Taken) > 1
      BY <1>7, AppliedPlan
    <2>2. /\ candidates' = (candidates \ (Taken \ {Head(functions)})) \cup {NewFunction}
          /\ best' = Tail(best) /\ best # << >>
          /\ indexed' = indexed /\ attempt' = attempt /\ functions' = functions
      <3>1. PICK h \in Fingerprints : ApplyPlan(h)
        BY <1>7 DEF ApplyBestPlan
      <3>2. Head(best) = best[1] /\ best # << >>
        BY <1>2, <1>7 DEF ApplyBestPlan
      <3>3. QED BY <3>1, <3>2, Zenon DEF ApplyPlan, ReplaceCandidates, Taken, NewFunction
    <2>3. PICK f \in Taken : f # Head(functions)
      <3>1. IsFiniteSet(Taken)
        BY <2>1, ConstantFacts
      <3>2. PICK a \in Taken, b \in Taken : a # b
        BY <2>1, <3>1, TwoElements
      <3>3. QED BY <3>2
    <2>4. /\ IsFiniteSet(candidates \ {f})
          /\ Cardinality(candidates \ {f}) = Cardinality(candidates) - 1
      BY <1>3, <2>1, <2>3, FS_RemoveElement
    <2> DEFINE U == candidates \ {f}
               T == U \cup {NewFunction}
    <2>5. IsFiniteSet(T) /\ Cardinality(T) <= Cardinality(candidates)
      <3> HIDE DEF U
      <3>1. IsFiniteSet(T) /\ Cardinality(T) = IF NewFunction \in U THEN Cardinality(U)
                                               ELSE Cardinality(U) + 1
        BY <2>4, FS_AddElement DEF U
      <3>2. Cardinality(U) = Cardinality(candidates) - 1
        BY <2>4 DEF U
      <3> HIDE DEF T
      <3>3. QED BY <1>3, <3>1, <3>2
    <2>6. candidates' \subseteq T
      BY <2>2, <2>3
    <2> HIDE DEF T
    <2>7. Cardinality(candidates') <= Cardinality(candidates) /\ Cardinality(candidates') \in Nat
      <3>1. /\ IsFiniteSet(candidates') /\ Cardinality(candidates') <= Cardinality(T)
            /\ Cardinality(candidates') \in Nat /\ Cardinality(T) \in Nat
        BY <2>5, <2>6, FS_Subset, FS_CardinalityType
      <3>2. QED BY <1>3, <2>5, <3>1
    <2>8. /\ left' = left /\ attempts' = attempts /\ Len(best') < Len(best)
          /\ \/ Cardinality(candidates') < Cardinality(candidates)
             \/ Cardinality(candidates') = Cardinality(candidates)
      BY <1>2, <1>3, <2>2, <2>7 DEF Attempts
    <2> HIDE DEF left, attempts
    <2>9. QED BY <1>1, <2>8, LexicographicallyLess
  <1>8. CASE Return
    BY <1>8 DEF Return
  <1>9. QED BY <1>4, <1>5, <1>6, <1>7, <1>8 DEF Next

LEMMA RemainingIsNatural == IInv => \A i \in DOMAIN Remaining : Remaining[i] \in Nat
  <1> SUFFICES ASSUME IInv PROVE \A i \in DOMAIN Remaining : Remaining[i] \in Nat
    OBVIOUS
  <1>1. /\ NumSources - indexed \in Nat /\ Len(best) \in Nat
        /\ candidates \in SUBSET Fn
    BY ConstantFacts DEF IInv, TypeOK, MatcherTypeOK
  <1>2. Cardinality(candidates) \in Nat
    BY <1>1, ConstantFacts
  <1>3. Attempts + 1 - attempt \in Nat
    <2>1. Attempts \in Nat
      <3>1. functions \in Seq(Fn) /\ Len(functions) <= ExplorationThreshold + 1
        BY DEF IInv, TypeOK, FunctionsAreDistinct
      <3>2. ASSUME functions # << >> PROVE Len(Groupings[Len(functions)]) \in Nat
        <4>1. Len(functions) \in 1 .. ExplorationThreshold + 1
          BY <3>1, <3>2, EmptySeq, ConstantFacts
        <4>2. QED BY <4>1, GroupingsProperties
      <3>3. QED BY <3>2 DEF Attempts
    <2>2. attempt \in 1 .. Attempts + 1
      BY DEF IInv, TypeOK
    <2>3. QED BY <2>1, <2>2
  <1>4. QED BY <1>1, <1>2, <1>3 DEF Remaining

(* run() terminates: although applied plans add candidates, every step      *)
(* lowers what remains to be done, and that is never below zero.           *)
THEOREM MatchFinderComesToAnEnd ==
  Spec => ComesToAnEnd /\ [](\A i \in DOMAIN Remaining : Remaining[i] \in Nat)
  BY Invariant, StepsDecrease, RemainingIsNatural, PTL DEF Spec, ComesToAnEnd
=============================================================================
