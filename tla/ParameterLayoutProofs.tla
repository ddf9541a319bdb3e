----------------------- MODULE ParameterLayoutProofs -----------------------
(***************************************************************************)
(* The step of layoutParameters, for any types and any number of           *)
(* parameters: placing one more parameter of a function leaves every       *)
(* parameter placed so far where it is, and gives the new one a place of   *)
(* its own.                                                                *)
(***************************************************************************)
EXTENDS ParameterLayout, CommonLemmas

(* A free parameter exists, has the type, is not the discriminator, and is  *)
(* not taken by another parameter of the function.                          *)
LEMMA ReusableIsFree ==
  ASSUME NEW Type, NEW params \in Seq(Type), NEW row \in Seq(Nat), NEW type \in Type,
         NEW i \in Reusable(params, row, type)
  PROVE  /\ i \in 2 .. Len(params)
         /\ params[i] = type
         /\ \A k \in DOMAIN row : row[k] # i
  BY DEF Reusable, Range

(* A place of its own at the end of a row makes the row fit one more        *)
(* parameter.                                                              *)
LEMMA AppendedRowFits ==
  ASSUME NEW Type, NEW params \in Seq(Type), NEW sig \in Seq(Type), NEW row \in Seq(Nat),
         NEW type \in Type, NEW i \in 2 .. Len(params),
         RowFits(params, sig, row), params[i] = type,
         \A k \in DOMAIN row : row[k] # i
  PROVE  RowFits(params, Append(sig, type), Append(row, i))
  <1> DEFINE sig2 == Append(sig, type)
             row2 == Append(row, i)
  <1>1. /\ Len(row) = Len(sig)
        /\ DOMAIN sig2 = 1 .. Len(sig) + 1
        /\ DOMAIN sig = 1 .. Len(sig) /\ DOMAIN row = 1 .. Len(sig)
        /\ Len(row2) = Len(sig2)
    <2>1. Len(row) = Len(sig)
      BY DEF RowFits
    <2> QED BY <2>1
  <1>2. ASSUME NEW j \in DOMAIN sig2
        PROVE  \/ j \in DOMAIN sig /\ sig2[j] = sig[j] /\ row2[j] = row[j]
               \/ j = Len(sig) + 1 /\ sig2[j] = type /\ row2[j] = i
    BY <1>1
  <1> HIDE DEF sig2, row2
  <1>3. ASSUME NEW j \in DOMAIN sig2
        PROVE  row2[j] \in 2 .. Len(params) /\ params[row2[j]] = sig2[j]
    BY <1>2 DEF RowFits
  <1>4. ASSUME NEW j \in DOMAIN sig2, NEW k \in DOMAIN sig2, row2[j] = row2[k]
        PROVE  j = k
    <2>1. CASE j \in DOMAIN sig /\ k \in DOMAIN sig
      BY <1>1, <1>2, <1>4, <2>1 DEF RowFits
    <2>2. CASE j \notin DOMAIN sig \/ k \notin DOMAIN sig
      BY <1>1, <1>2, <1>4, <2>2
    <2> QED BY <2>1, <2>2
  <1> QED BY <1>1, <1>3, <1>4 DEF RowFits, sig2, row2

(* A row that fits still does when the signature grows at its end.          *)
LEMMA LongerSignatureFits ==
  ASSUME NEW Type, NEW params \in Seq(Type), NEW sig \in Seq(Type), NEW row \in Seq(Nat),
         NEW type \in Type, RowFits(params, sig, row)
  PROVE  RowFits(Append(params, type), sig, row)
  <1>1. /\ Len(Append(params, type)) = Len(params) + 1
        /\ \A i \in 2 .. Len(params) : Append(params, type)[i] = params[i]
    OBVIOUS
  <1> QED BY <1>1 DEF RowFits

(* However the free parameter is chosen, the function's parameters have     *)
(* distinct places of their types after the step if they had before it, the *)
(* discriminator is not among them, and the rows of the functions laid out  *)
(* before still fit (the loop over the arguments in layoutParameters).      *)
THEOREM PlacementKeepsLayout ==
  ASSUME NEW Type, NEW params \in Seq(Type), NEW type \in Type, Len(params) >= 1,
         NEW sig \in Seq(Type), NEW row \in Seq(Nat), RowFits(params, sig, row),
         NEW other \in Seq(Type), NEW otherRow \in Seq(Nat),
         RowFits(params, other, otherRow),
         NEW l \in PlaceParameter(params, row, type, Reusable(params, row, type))
  PROVE  /\ l.params \in Seq(Type) /\ Len(l.params) >= Len(params)
         /\ RowFits(l.params, Append(sig, type), l.row)
         /\ RowFits(l.params, other, otherRow)
  <1>1. CASE Reusable(params, row, type) # {}
    <2>1. PICK i \in Reusable(params, row, type) :
            l = [params |-> params, row |-> Append(row, i)]
      BY <1>1 DEF PlaceParameter
    <2>2. /\ i \in 2 .. Len(params) /\ params[i] = type
          /\ \A k \in DOMAIN row : row[k] # i
      BY ReusableIsFree
    <2>3. RowFits(params, Append(sig, type), Append(row, i))
      BY <2>2, AppendedRowFits
    <2> QED BY <2>1, <2>3
  <1>2. CASE Reusable(params, row, type) = {}
    <2> DEFINE longer == Append(params, type)
               i == Len(params) + 1
    <2>1. l = [params |-> longer, row |-> Append(row, i)]
      BY <1>2 DEF PlaceParameter
    <2>2. /\ longer \in Seq(Type) /\ Len(longer) = i
          /\ i \in 2 .. Len(longer) /\ longer[i] = type
      OBVIOUS
    <2>3. RowFits(longer, sig, row) /\ RowFits(longer, other, otherRow)
      BY LongerSignatureFits
    <2>4. \A k \in DOMAIN row : row[k] # i
      <3>1. DOMAIN row = DOMAIN sig
        <4>1. Len(row) = Len(sig)
          BY DEF RowFits
        <4> QED BY <4>1
      <3>2. \A k \in DOMAIN sig : row[k] \in 2 .. Len(params)
        BY DEF RowFits
      <3> QED BY <3>1, <3>2
    <2> HIDE DEF longer, i
    <2>5. RowFits(longer, Append(sig, type), Append(row, i))
      BY <2>2, <2>3, <2>4, AppendedRowFits
    <2> QED BY <2>1, <2>2, <2>3, <2>5 DEF i
  <1> QED BY <1>1, <1>2

(* The pairwise passes look for a free parameter among those of the first   *)
(* function only.  They miss none: every parameter appended later serves    *)
(* the second function already (MergeArguments).                            *)
THEOREM PairsReuseAsMany ==
  ASSUME NEW Type, NEW params \in Seq(Type), NEW sig1 \in Seq(Type), NEW row \in Seq(Nat),
         NEW type \in Type, Len(sig1) + 1 <= Len(params),
         \A i \in Len(sig1) + 2 .. Len(params) : i \in Range(row)
  PROVE  /\ PairReusable(params, sig1, row, type) = Reusable(params, row, type)
         /\ \A l \in PlaceParameter(params, row, type, PairReusable(params, sig1, row, type)) :
              \A i \in Len(sig1) + 2 .. Len(l.params) : i \in Range(l.row)
  <1>1. PairReusable(params, sig1, row, type) = Reusable(params, row, type)
    BY DEF PairReusable, Reusable
  <1>2. ASSUME NEW j
        PROVE  Range(Append(row, j)) = Range(row) \cup {j}
    <2>1. /\ DOMAIN Append(row, j) = DOMAIN row \cup {Len(row) + 1}
          /\ Append(row, j)[Len(row) + 1] = j
          /\ \A k \in DOMAIN row : Append(row, j)[k] = row[k]
      OBVIOUS
    <2> QED BY <2>1 DEF Range
  <1>3. ASSUME NEW l \in PlaceParameter(params, row, type, PairReusable(params, sig1, row, type)),
               NEW i \in Len(sig1) + 2 .. Len(l.params)
        PROVE  i \in Range(l.row)
    <2>1. CASE PairReusable(params, sig1, row, type) # {}
      <3>1. PICK j : l = [params |-> params, row |-> Append(row, j)]
        BY <2>1 DEF PlaceParameter
      <3> QED BY <1>2, <3>1
    <2>2. CASE PairReusable(params, sig1, row, type) = {}
      <3>1. l = [params |-> Append(params, type), row |-> Append(row, Len(params) + 1)]
        BY <2>2 DEF PlaceParameter
      <3>2. i \in Len(sig1) + 2 .. Len(params) \/ i = Len(params) + 1
        BY <3>1
      <3> QED BY <1>2, <3>1, <3>2
    <2> QED BY <2>1, <2>2
  <1> QED BY <1>1, <1>3

(* The layouts after each parameter of a function. *)
IsPlacing(st, params, sig) ==
  /\ st[0] = {[params |-> params, row |-> <<>>]}
  /\ \A k \in 1 .. Len(sig) :
       st[k] = UNION {PlaceParameter(s.params, s.row, sig[k], Reusable(s.params, s.row, sig[k])) :
                        s \in st[k - 1]}

Placements(Type) == [params : Seq(Type), row : Seq(Nat)]

(* A placed parameter leaves lists of types and of places. *)
LEMMA PlacementsOfOne ==
  ASSUME NEW Type, NEW s \in Placements(Type), NEW type \in Type, NEW free \in SUBSET Nat
  PROVE  PlaceParameter(s.params, s.row, type, free) \subseteq Placements(Type)
  <1>1. s.params \in Seq(Type) /\ s.row \in Seq(Nat)
    BY DEF Placements
  <1>2. ASSUME NEW i \in free
        PROVE  [params |-> s.params, row |-> Append(s.row, i)] \in Placements(Type)
    BY <1>1 DEF Placements
  <1>3. [params |-> Append(s.params, type), row |-> Append(s.row, Len(s.params) + 1)]
          \in Placements(Type)
    BY <1>1 DEF Placements
  <1> QED BY <1>2, <1>3 DEF PlaceParameter

(* PlaceFunction goes through the parameters from the first to the last. *)
LEMMA PlaceFunctionStages ==
  ASSUME NEW Type, NEW params \in Seq(Type), NEW sig \in Seq(Type)
  PROVE  \E st : IsPlacing(st, params, sig) /\ PlaceFunction(params, sig) = st[Len(sig)]
  <1> DEFINE n == Len(sig)
             V == SUBSET Placements(Type)
             placed(x, S) == UNION {PlaceParameter(s.params, s.row, sig[x],
                                      Reusable(s.params, s.row, sig[x])) : s \in S}
             base == {[params |-> params, row |-> <<>>]}
             op == [p \in (1 .. n) \X V |-> placed(p[1], p[2])]
             body(e, s) == IF s = {} THEN base
                           ELSE LET x == Max(s) IN placed(x, e[s \ {x}])
             fold == CHOOSE e : e = [s \in SUBSET DOMAIN sig |-> body(e, s)]
  <1>1. PlaceFunction(params, sig) = fold[DOMAIN sig]
    BY DEF PlaceFunction, FoldLeft, MapThenFoldSet
  <1>2. n \in Nat /\ DOMAIN sig = 1 .. n /\ \A x \in 1 .. n : sig[x] \in Type
    OBVIOUS
  <1>3. ASSUME NEW x \in 1 .. n, NEW S \in V PROVE placed(x, S) \in V
    <2>1. \A s \in S : s \in Placements(Type)
      OBVIOUS
    <2>2. \A s \in S : Reusable(s.params, s.row, sig[x]) \in SUBSET Nat
      BY <2>1 DEF Reusable, Placements
    <2>3. ASSUME NEW s \in S
          PROVE  PlaceParameter(s.params, s.row, sig[x], Reusable(s.params, s.row, sig[x]))
                   \subseteq Placements(Type)
      BY <1>2, <2>1, <2>2, PlacementsOfOne
    <2> QED BY <2>3
  <1>4. base \in V
    BY DEF Placements
  <1> HIDE DEF placed, base, V, n
  <1>5. op \in [(1 .. n) \X V -> V] /\ \A x \in 1 .. n, S \in V : op[<<x, S>>] = placed(x, S)
    BY <1>3
  <1> HIDE DEF op
  <1>6. PICK g : IsLeftFold(g, n, V, base, op)
    BY <1>2, <1>4, <1>5, LeftFold, Zenon
  <1>7. \A s \in SUBSET (1 .. n) : g[s] = body(g, s)
    <2>1. ASSUME NEW s \in (SUBSET (1 .. n)) \ {{}} PROVE g[s] = placed(Max(s), g[s \ {Max(s)}])
      <3>1. Max(s) \in 1 .. n
        BY <1>2, MaxProperties
      <3>2. g[s \ {Max(s)}] \in V
        BY <1>6 DEF IsLeftFold
      <3>3. g[s] = op[<<Max(s), g[s \ {Max(s)}]>>]
        BY <1>6 DEF IsLeftFold
      <3> QED BY <1>5, <3>1, <3>2, <3>3
    <2> QED BY <1>6, <2>1 DEF IsLeftFold
  <1>8. g = [s \in SUBSET DOMAIN sig |-> body(g, s)]
    BY <1>2, <1>6, <1>7 DEF IsLeftFold
  <1>9. fold = [s \in SUBSET DOMAIN sig |-> body(fold, s)]
    BY <1>8, Zenon
  <1> HIDE DEF fold
  <1>10. fold[{}] = base
    BY <1>9
  <1>11. ASSUME NEW k \in 1 .. n PROVE fold[1 .. k] = placed(k, fold[1 .. k - 1])
    <2>1. /\ 1 .. k \in (SUBSET DOMAIN sig) \ {{}}
          /\ Max(1 .. k) = k /\ (1 .. k) \ {Max(1 .. k)} = 1 .. k - 1
      BY <1>2, LastOfPrefix
    <2>2. fold[1 .. k] = body(fold, 1 .. k)
      BY <1>9, <2>1
    <2> QED BY <2>1, <2>2
  <1> DEFINE st == [k \in 0 .. n |-> fold[1 .. k]]
  <1>12. /\ st[0] = base /\ st[n] = fold[DOMAIN sig]
         /\ \A k \in 1 .. n : st[k] = placed(k, st[k - 1])
    BY <1>2, <1>10, <1>11
  <1> HIDE DEF st
  <1>13. IsPlacing(st, params, sig)
    BY <1>12 DEF IsPlacing, placed, base, n
  <1> QED BY <1>1, <1>12, <1>13 DEF n

(* The parameters of a type, other than the discriminator. *)
SharedOf(params, type) == {i \in 2 .. Len(params) : params[i] = type}
Shared(params, type) == Cardinality(SharedOf(params, type))

Larger(a, b) == IF a < b THEN b ELSE a

(* The counts of parameters of a type are numbers. *)
LEMMA CountsAreNatural ==
  ASSUME NEW Type, NEW s \in Seq(Type), NEW t
  PROVE  /\ IsFiniteSet({i \in DOMAIN s : s[i] = t}) /\ OfType(s, t) \in Nat
         /\ IsFiniteSet(SharedOf(s, t)) /\ Shared(s, t) \in Nat
  <1>1. IsFiniteSet(1 .. Len(s)) /\ IsFiniteSet(2 .. Len(s))
    BY FS_Interval
  <1>2. {i \in DOMAIN s : s[i] = t} \in SUBSET (1 .. Len(s))
            /\ SharedOf(s, t) \in SUBSET (2 .. Len(s))
    BY DEF SharedOf
  <1>3. IsFiniteSet({i \in DOMAIN s : s[i] = t}) /\ IsFiniteSet(SharedOf(s, t))
    BY <1>1, <1>2, FS_Subset, Zenon
  <1> QED BY <1>3, FS_CardinalityType DEF OfType, Shared

(* One more parameter counts for its type only. *)
LEMMA CountsAfterAppend ==
  ASSUME NEW Type, NEW s \in Seq(Type), NEW x \in Type, NEW t
  PROVE  /\ OfType(Append(s, x), t) = IF x = t THEN OfType(s, t) + 1 ELSE OfType(s, t)
         /\ Len(s) >= 1 =>
              Shared(Append(s, x), t) = IF x = t THEN Shared(s, t) + 1 ELSE Shared(s, t)
  <1> DEFINE n == Len(s) + 1
             all(u) == {i \in DOMAIN u : u[i] = t}
             new == IF x = t THEN {n} ELSE {}
  <1>1. /\ DOMAIN s = 1 .. Len(s) /\ DOMAIN Append(s, x) = 1 .. n /\ Len(Append(s, x)) = n
        /\ Append(s, x)[n] = x /\ \A i \in 1 .. Len(s) : Append(s, x)[i] = s[i]
        /\ Len(s) \in Nat /\ n = Len(s) + 1
    OBVIOUS
  <1>2. all(Append(s, x)) = all(s) \cup new /\ n \notin all(s)
    <2>1. \A i \in 1 .. n : i \in 1 .. Len(s) \/ i = n
      BY <1>1
    <2> QED BY <1>1, <2>1
  <1>3. Len(s) >= 1 => SharedOf(Append(s, x), t) = SharedOf(s, t) \cup new
            /\ n \notin SharedOf(s, t)
    <2>1. \A i \in 2 .. n : i \in 2 .. Len(s) \/ i = n
      BY <1>1
    <2>2. Len(s) >= 1 => n \in 2 .. n /\ 2 .. Len(s) \subseteq 1 .. Len(s)
      BY <1>1
    <2> QED BY <1>1, <2>1, <2>2 DEF SharedOf
  <1>4. ASSUME NEW S, IsFiniteSet(S), n \notin S
        PROVE  Cardinality(S \cup new) = IF x = t THEN Cardinality(S) + 1 ELSE Cardinality(S)
    BY <1>4, FS_AddElement
  <1>5. IsFiniteSet(all(s)) /\ IsFiniteSet(SharedOf(s, t))
    BY CountsAreNatural
  <1> HIDE DEF all, new, n
  <1>6. OfType(Append(s, x), t) = IF x = t THEN OfType(s, t) + 1 ELSE OfType(s, t)
    BY <1>2, <1>4, <1>5 DEF OfType, all
  <1> QED BY <1>3, <1>4, <1>5, <1>6 DEF Shared

(* A function uses as many parameters of a type as it has, and they are      *)
(* those that are not free.                                                *)
LEMMA FreeParameters ==
  ASSUME NEW Type, NEW params \in Seq(Type), NEW sig \in Seq(Type), NEW row \in Seq(Nat),
         RowFits(params, sig, row), NEW t
  PROVE  /\ OfType(sig, t) <= Shared(params, t)
         /\ Reusable(params, row, t) = {} <=> OfType(sig, t) = Shared(params, t)
  <1> DEFINE A == {i \in DOMAIN sig : sig[i] = t}
             B == SharedOf(params, t)
             f == [i \in A |-> row[i]]
             C == {row[i] : i \in A}
  <1>1. DOMAIN row = DOMAIN sig
    <2>1. Len(row) = Len(sig)
      BY DEF RowFits
    <2> QED BY <2>1
  <1>2. \A i \in DOMAIN sig : row[i] \in 2 .. Len(params) /\ params[row[i]] = sig[i]
    BY DEF RowFits
  <1>3. \A i, j \in DOMAIN sig : row[i] = row[j] => i = j
    BY DEF RowFits
  <1>4. IsFiniteSet(A) /\ IsFiniteSet(B)
    BY CountsAreNatural
  <1>5. C \subseteq B
    BY <1>2 DEF SharedOf
  <1>6. Reusable(params, row, t) = B \ C
    <2>1. \A i \in B : i \in Range(row) <=> i \in C
      BY <1>1, <1>2 DEF Range, SharedOf
    <2> QED BY <2>1 DEF Reusable, SharedOf
  <1>7. f \in Bijection(A, C)
    BY <1>3 DEF Bijection, Injection, Surjection, IsInjective
  <1> HIDE DEF A, B, C, f
  <1>8. IsFiniteSet(C) /\ Cardinality(C) = Cardinality(A)
    BY <1>4, <1>7, FS_Bijection DEF ExistsBijection
  <1>9. Cardinality(C) <= Cardinality(B) /\ (Cardinality(B) = Cardinality(C) => B = C)
    BY <1>4, <1>5, FS_Subset
  <1>10. Reusable(params, row, t) = {} <=> Cardinality(C) = Cardinality(B)
    BY <1>5, <1>6, <1>9
  <1> QED BY <1>8, <1>9, <1>10 DEF OfType, Shared, A, B

StartsWith(s, t) == Len(t) <= Len(s) /\ \A i \in 1 .. Len(t) : s[i] = t[i]

(* The parameters of a function, of the types sig, are placed by s next to   *)
(* params: no parameter of params moves, and for each type there are as many *)
(* as there were, or as the function needs.                                *)
IsPlaced(Type, params, sig, s) ==
  /\ s \in Placements(Type)
  /\ StartsWith(s.params, params)
  /\ RowFits(s.params, sig, s.row)
  /\ \A t \in Type : Shared(s.params, t) = Larger(Shared(params, t), OfType(sig, t))

(* Placing one more parameter of the function. *)
LEMMA OneMoreIsPlaced ==
  ASSUME NEW Type, NEW params \in Seq(Type), Len(params) >= 1, NEW sig \in Seq(Type),
         NEW type \in Type, NEW s, IsPlaced(Type, params, sig, s),
         NEW l \in PlaceParameter(s.params, s.row, type, Reusable(s.params, s.row, type))
  PROVE  IsPlaced(Type, params, Append(sig, type), l)
  <1> DEFINE free == Reusable(s.params, s.row, type)
             longer == Append(s.params, type)
  <1>1. /\ s.params \in Seq(Type) /\ s.row \in Seq(Nat)
        /\ Len(params) <= Len(s.params) /\ \A i \in 1 .. Len(params) : s.params[i] = params[i]
        /\ RowFits(s.params, sig, s.row)
        /\ Len(params) \in Nat /\ Len(s.params) \in Nat /\ Len(s.params) >= 1
    BY DEF IsPlaced, Placements, StartsWith
  <1>2. /\ Shared(s.params, type) = Larger(Shared(params, type), OfType(sig, type))
        /\ \A t \in Type : Shared(s.params, t) = Larger(Shared(params, t), OfType(sig, t))
    BY DEF IsPlaced
  <1>3. l \in Placements(Type)
    <2>1. s \in Placements(Type) /\ free \in SUBSET Nat
      BY DEF IsPlaced, Reusable
    <2> QED BY <2>1, PlacementsOfOne
  <1>4. RowFits(l.params, Append(sig, type), l.row)
    BY <1>1, PlacementKeepsLayout
  <1>5. /\ Len(longer) = Len(s.params) + 1
        /\ \A i \in 1 .. Len(s.params) : longer[i] = s.params[i]
    BY <1>1
  <1>6. ASSUME NEW t \in Type
        PROVE  /\ Shared(params, t) \in Nat /\ Shared(s.params, t) \in Nat /\ OfType(sig, t) \in Nat
               /\ OfType(Append(sig, type), t)
                    = IF type = t THEN OfType(sig, t) + 1 ELSE OfType(sig, t)
               /\ Shared(longer, t)
                    = IF type = t THEN Shared(s.params, t) + 1 ELSE Shared(s.params, t)
    <2>1. Shared(params, t) \in Nat /\ Shared(s.params, t) \in Nat /\ OfType(sig, t) \in Nat
      BY <1>1, CountsAreNatural
    <2>2. OfType(Append(sig, type), t) = IF type = t THEN OfType(sig, t) + 1 ELSE OfType(sig, t)
      BY CountsAfterAppend
    <2>3. Shared(longer, t) = IF type = t THEN Shared(s.params, t) + 1 ELSE Shared(s.params, t)
      BY <1>1, CountsAfterAppend
    <2> QED BY <2>1, <2>2, <2>3
  <1>7. /\ OfType(sig, type) <= Shared(s.params, type)
        /\ free = {} <=> OfType(sig, type) = Shared(s.params, type)
    BY <1>1, FreeParameters
  <1> HIDE DEF longer, free
  <1>8. CASE free # {}
    <2>1. l.params = s.params
      <3>1. PICK i \in free : l = [params |-> s.params, row |-> Append(s.row, i)]
        BY <1>8 DEF PlaceParameter, free
      <3> QED BY <3>1
    <2>2. ASSUME NEW t \in Type
          PROVE  Shared(l.params, t) = Larger(Shared(params, t), OfType(Append(sig, type), t))
      <3>1. Shared(s.params, t) = Larger(Shared(params, t), OfType(sig, t))
        BY <1>2
      <3>2. CASE t = type
        <4>1. OfType(sig, t) < Shared(s.params, t)
          BY <1>6, <1>7, <1>8, <3>2
        <4> QED BY <1>6, <2>1, <3>1, <3>2, <4>1 DEF Larger
      <3>3. CASE t # type
        BY <1>6, <2>1, <3>1, <3>3
      <3> QED BY <3>2, <3>3
    <2>3. StartsWith(l.params, params)
      BY <1>1, <2>1 DEF StartsWith
    <2> QED BY <1>3, <1>4, <2>2, <2>3 DEF IsPlaced
  <1>9. CASE free = {}
    <2>1. l.params = longer
      BY <1>9 DEF PlaceParameter, free, longer
    <2>2. ASSUME NEW t \in Type
          PROVE  Shared(l.params, t) = Larger(Shared(params, t), OfType(Append(sig, type), t))
      <3>1. Shared(s.params, t) = Larger(Shared(params, t), OfType(sig, t))
        BY <1>2
      <3>2. CASE t = type
        BY <1>6, <1>7, <1>9, <2>1, <3>1, <3>2 DEF Larger
      <3>3. CASE t # type
        BY <1>6, <2>1, <3>1, <3>3
      <3> QED BY <3>2, <3>3
    <2>3. StartsWith(l.params, params)
      BY <1>1, <1>5, <2>1 DEF StartsWith
    <2> QED BY <1>3, <1>4, <2>2, <2>3 DEF IsPlaced
  <1> QED BY <1>8, <1>9

(* Before the first parameter. *)
LEMMA NothingIsPlaced ==
  ASSUME NEW Type, NEW params \in Seq(Type)
  PROVE  IsPlaced(Type, params, <<>>, [params |-> params, row |-> <<>>])
  <1>1. RowFits(params, <<>>, <<>>)
    BY DEF RowFits
  <1>2. ASSUME NEW t \in Type PROVE OfType(<<>>, t) = 0
    <2>1. {i \in DOMAIN <<>> : <<>>[i] = t} = {}
      OBVIOUS
    <2> QED BY <2>1, FS_EmptySet DEF OfType
  <1>3. ASSUME NEW t \in Type PROVE Shared(params, t) \in Nat
    BY CountsAreNatural
  <1> QED BY <1>1, <1>2, <1>3 DEF IsPlaced, Placements, StartsWith, Larger

(* However the free parameters are chosen, a function is placed as it should. *)
LEMMA FunctionIsPlaced ==
  ASSUME NEW Type, NEW params \in Seq(Type), Len(params) >= 1, NEW sig \in Seq(Type),
         NEW a \in PlaceFunction(params, sig)
  PROVE  IsPlaced(Type, params, sig, a)
  <1> DEFINE n == Len(sig)
  <1>1. PICK st : IsPlacing(st, params, sig) /\ PlaceFunction(params, sig) = st[n]
    BY PlaceFunctionStages
  <1> DEFINE before(k) == SubSeq(sig, 1, k)
             placed(k) == \A s \in st[k] : IsPlaced(Type, params, before(k), s)
             T == {k \in Nat : k <= n => placed(k)}
  <1>2. 0 \in T
    <2>1. before(0) = <<>>
      OBVIOUS
    <2>2. st[0] = {[params |-> params, row |-> <<>>]}
      BY <1>1 DEF IsPlacing
    <2> HIDE DEF before
    <2> QED BY <2>1, <2>2, NothingIsPlaced
  <1>3. ASSUME NEW k \in T PROVE k + 1 \in T
    <2>0. SUFFICES ASSUME k + 1 <= n PROVE placed(k + 1)
      OBVIOUS
    <2>1. k + 1 \in 1 .. Len(sig) /\ (k + 1) - 1 = k /\ placed(k)
      BY <2>0
    <2>2. before(k + 1) = Append(before(k), sig[k + 1]) /\ before(k) \in Seq(Type)
              /\ sig[k + 1] \in Type
      BY <2>1, PrefixGrows
    <2>3. st[k + 1] = UNION {PlaceParameter(s.params, s.row, sig[k + 1],
                               Reusable(s.params, s.row, sig[k + 1])) : s \in st[k]}
      BY <1>1, <2>1 DEF IsPlacing
    <2> HIDE DEF before
    <2>4. ASSUME NEW l \in st[k + 1] PROVE IsPlaced(Type, params, before(k + 1), l)
      <3>1. PICK s \in st[k] : l \in PlaceParameter(s.params, s.row, sig[k + 1],
                                       Reusable(s.params, s.row, sig[k + 1]))
        BY <2>3
      <3>2. IsPlaced(Type, params, before(k), s)
        BY <2>1
      <3> QED BY <2>2, <3>1, <3>2, OneMoreIsPlaced
    <2> QED BY <2>4
  <1> HIDE DEF placed, before
  <1>4. T = Nat
    <2>1. T \in SUBSET Nat
      OBVIOUS
    <2> HIDE DEF T
    <2> QED BY <1>2, <1>3, <2>1, NatSet
  <1>5. n \in Nat /\ before(n) = sig
    BY DEF before
  <1>6. placed(n)
    BY <1>4, <1>5
  <1> QED BY <1>1, <1>5, <1>6 DEF placed

(* The layouts after each function. *)
IsLayingOut(st, sigs) ==
  /\ st[0] = {[params |-> <<DiscriminatorWidth(Len(sigs))>>, rows |-> <<>>]}
  /\ \A k \in 1 .. Len(sigs) :
       st[k] = UNION {{[params |-> a.params, rows |-> Append(s.rows, a.row)] :
                         a \in PlaceFunction(s.params, sigs[k])} : s \in st[k - 1]}

LayoutsOf(Type) == {l \in [params : Seq(Type), rows : Seq(Seq(Nat))] : Len(l.params) >= 1}

(* Before the first function there is the discriminator only. *)
LEMMA FirstLayout ==
  ASSUME NEW Type, NEW w \in Type
  PROVE  /\ [params |-> <<w>>, rows |-> <<>>] \in LayoutsOf(Type)
         /\ Len(<<w>>) = 1
  <1>1. <<w>> \in Seq(Type) /\ Len(<<w>>) = 1 /\ <<>> \in Seq(Seq(Nat))
    OBVIOUS
  <1> DEFINE s == <<w>>
             rows == <<>>
             R == Seq(Nat)
  <1>2. s \in Seq(Type) /\ Len(s) = 1 /\ rows \in Seq(R)
    BY <1>1
  <1> HIDE DEF s, rows, R
  <1>3. [params |-> s, rows |-> rows] \in {l \in [params : Seq(Type), rows : Seq(R)] :
            Len(l.params) >= 1}
    BY <1>2
  <1> QED BY <1>1, <1>3 DEF s, rows, R, LayoutsOf

(* Layouts goes through the functions from the first to the last. *)
LEMMA LayoutsStages ==
  ASSUME NEW Type, NEW sigs \in Seq(Seq(Type)), DiscriminatorWidth(Len(sigs)) \in Type
  PROVE  \E st : IsLayingOut(st, sigs) /\ Layouts(sigs) = st[Len(sigs)]
  <1> DEFINE n == Len(sigs)
             V == SUBSET LayoutsOf(Type)
             placed(x, S) == UNION {{[params |-> a.params, rows |-> Append(s.rows, a.row)] :
                                       a \in PlaceFunction(s.params, sigs[x])} : s \in S}
             base == {[params |-> <<DiscriminatorWidth(Len(sigs))>>, rows |-> <<>>]}
             op == [p \in (1 .. n) \X V |-> placed(p[1], p[2])]
             body(e, s) == IF s = {} THEN base
                           ELSE LET x == Max(s) IN placed(x, e[s \ {x}])
             fold == CHOOSE e : e = [s \in SUBSET DOMAIN sigs |-> body(e, s)]
  <1>1. Layouts(sigs) = fold[DOMAIN sigs]
    BY DEF Layouts, FoldLeft, MapThenFoldSet
  <1>2. n \in Nat /\ DOMAIN sigs = 1 .. n /\ \A x \in 1 .. n : sigs[x] \in Seq(Type)
    OBVIOUS
  <1>3. ASSUME NEW x \in 1 .. n, NEW S \in V PROVE placed(x, S) \in V
    <2>1. ASSUME NEW s \in S, NEW a \in PlaceFunction(s.params, sigs[x])
          PROVE  [params |-> a.params, rows |-> Append(s.rows, a.row)] \in LayoutsOf(Type)
      <3>1. s.params \in Seq(Type) /\ s.rows \in Seq(Seq(Nat)) /\ Len(s.params) >= 1
        BY DEF LayoutsOf
      <3>2. IsPlaced(Type, s.params, sigs[x], a)
        BY <1>2, <3>1, FunctionIsPlaced
      <3>3. a.params \in Seq(Type) /\ a.row \in Seq(Nat) /\ Len(a.params) >= Len(s.params)
        BY <3>2 DEF IsPlaced, Placements, StartsWith
      <3>4. Append(s.rows, a.row) \in Seq(Seq(Nat)) /\ Len(a.params) >= 1
        BY <3>1, <3>3
      <3> QED BY <3>3, <3>4 DEF LayoutsOf
    <2> QED BY <2>1
  <1>4. base \in V
    BY FirstLayout
  <1> HIDE DEF placed, base, V, n
  <1>5. op \in [(1 .. n) \X V -> V] /\ \A x \in 1 .. n, S \in V : op[<<x, S>>] = placed(x, S)
    BY <1>3
  <1> HIDE DEF op
  <1>6. PICK g : IsLeftFold(g, n, V, base, op)
    BY <1>2, <1>4, <1>5, LeftFold, Zenon
  <1>7. \A s \in SUBSET (1 .. n) : g[s] = body(g, s)
    <2>1. ASSUME NEW s \in (SUBSET (1 .. n)) \ {{}} PROVE g[s] = placed(Max(s), g[s \ {Max(s)}])
      <3>1. Max(s) \in 1 .. n
        BY <1>2, MaxProperties
      <3>2. g[s \ {Max(s)}] \in V
        BY <1>6 DEF IsLeftFold
      <3>3. g[s] = op[<<Max(s), g[s \ {Max(s)}]>>]
        BY <1>6 DEF IsLeftFold
      <3> QED BY <1>5, <3>1, <3>2, <3>3
    <2> QED BY <1>6, <2>1 DEF IsLeftFold
  <1>8. g = [s \in SUBSET DOMAIN sigs |-> body(g, s)]
    BY <1>2, <1>6, <1>7 DEF IsLeftFold
  <1>9. fold = [s \in SUBSET DOMAIN sigs |-> body(fold, s)]
    BY <1>8, Zenon
  <1> HIDE DEF fold
  <1>10. fold[{}] = base
    BY <1>9
  <1>11. ASSUME NEW k \in 1 .. n PROVE fold[1 .. k] = placed(k, fold[1 .. k - 1])
    <2>1. /\ 1 .. k \in (SUBSET DOMAIN sigs) \ {{}}
          /\ Max(1 .. k) = k /\ (1 .. k) \ {Max(1 .. k)} = 1 .. k - 1
      BY <1>2, LastOfPrefix
    <2>2. fold[1 .. k] = body(fold, 1 .. k)
      BY <1>9, <2>1
    <2> QED BY <2>1, <2>2
  <1> DEFINE st == [k \in 0 .. n |-> fold[1 .. k]]
  <1>12. /\ st[0] = base /\ st[n] = fold[DOMAIN sigs]
         /\ \A k \in 1 .. n : st[k] = placed(k, st[k - 1])
    BY <1>2, <1>10, <1>11
  <1> HIDE DEF st
  <1>13. IsLayingOut(st, sigs)
    BY <1>12 DEF IsLayingOut, placed, base, n
  <1> QED BY <1>1, <1>12, <1>13 DEF n

(* The layout l of the first k functions. *)
IsLaidOut(Type, sigs, k, l) ==
  /\ l \in LayoutsOf(Type)
  /\ Len(l.rows) = k
  /\ \A j \in 1 .. k : RowFits(l.params, sigs[j], l.rows[j])
  /\ \A t \in Type :
       /\ \A j \in 1 .. k : OfType(sigs[j], t) <= Shared(l.params, t)
       /\ Shared(l.params, t) = 0 \/ \E j \in 1 .. k : OfType(sigs[j], t) = Shared(l.params, t)

(* A row still fits when more parameters follow. *)
LEMMA LongerParametersFit ==
  ASSUME NEW s \in Seq(Nat), NEW params, NEW longer, StartsWith(longer, params),
         NEW sig, RowFits(params, sig, s), Len(params) \in Nat, Len(longer) \in Nat
  PROVE  RowFits(longer, sig, s)
  <1>1. ASSUME NEW i \in DOMAIN sig
        PROVE  s[i] \in 2 .. Len(longer) /\ longer[s[i]] = sig[i]
    <2>1. s[i] \in 2 .. Len(params) /\ params[s[i]] = sig[i]
      BY DEF RowFits
    <2>2. s[i] \in 1 .. Len(params)
      BY <2>1
    <2>3. longer[s[i]] = params[s[i]] /\ Len(params) <= Len(longer)
      BY <2>2 DEF StartsWith
    <2> QED BY <2>1, <2>3
  <1> QED BY <1>1 DEF RowFits

(* Laying one more function out. *)
LEMMA OneMoreIsLaidOut ==
  ASSUME NEW Type, NEW sigs \in Seq(Seq(Type)), NEW k \in Nat, k + 1 <= Len(sigs),
         NEW s, IsLaidOut(Type, sigs, k, s), NEW a \in PlaceFunction(s.params, sigs[k + 1])
  PROVE  IsLaidOut(Type, sigs, k + 1, [params |-> a.params, rows |-> Append(s.rows, a.row)])
  <1> DEFINE rows == Append(s.rows, a.row)
             l == [params |-> a.params, rows |-> rows]
  <1>1. /\ s.params \in Seq(Type) /\ Len(s.params) >= 1 /\ Len(s.params) \in Nat
        /\ s.rows \in Seq(Seq(Nat)) /\ Len(s.rows) = k
    BY DEF IsLaidOut, LayoutsOf
  <1>2. sigs[k + 1] \in Seq(Type) /\ \A j \in 1 .. k : sigs[j] \in Seq(Type)
    OBVIOUS
  <1>3. IsPlaced(Type, s.params, sigs[k + 1], a)
    BY <1>1, <1>2, FunctionIsPlaced
  <1>4. /\ a.params \in Seq(Type) /\ a.row \in Seq(Nat) /\ Len(a.params) \in Nat
        /\ StartsWith(a.params, s.params) /\ RowFits(a.params, sigs[k + 1], a.row)
        /\ Len(s.params) <= Len(a.params)
    BY <1>3 DEF IsPlaced, Placements, StartsWith
  <1>5. /\ rows \in Seq(Seq(Nat)) /\ Len(rows) = k + 1 /\ rows[k + 1] = a.row
        /\ \A j \in 1 .. k : rows[j] = s.rows[j] /\ s.rows[j] \in Seq(Nat)
    <2>1. \A j \in 1 .. k : s.rows[j] \in Seq(Nat)
      BY <1>1
    <2> DEFINE R == Seq(Nat)
               r == s.rows
    <2>2. r \in Seq(R) /\ a.row \in R /\ Len(r) = k
      BY <1>1, <1>4
    <2> HIDE DEF R, r
    <2>3. /\ Append(r, a.row) \in Seq(R) /\ Len(Append(r, a.row)) = k + 1
          /\ Append(r, a.row)[k + 1] = a.row
          /\ \A j \in 1 .. k : Append(r, a.row)[j] = r[j]
      BY <2>2, AppendProperties
    <2> QED BY <2>1, <2>3 DEF R, r
  <1>6. \A j \in 1 .. k + 1 : j \in 1 .. k \/ j = k + 1
    OBVIOUS
  <1> HIDE DEF rows
  <1>7. l \in LayoutsOf(Type)
    BY <1>1, <1>4, <1>5 DEF LayoutsOf
  <1>8. ASSUME NEW j \in 1 .. k + 1 PROVE RowFits(a.params, sigs[j], rows[j])
    <2>1. CASE j = k + 1
      BY <1>4, <1>5, <2>1
    <2>2. CASE j \in 1 .. k
      <3>1. RowFits(s.params, sigs[j], s.rows[j])
        BY <2>2 DEF IsLaidOut
      <3> QED BY <1>1, <1>4, <1>5, <2>2, <3>1, LongerParametersFit
    <2> QED BY <1>6, <2>1, <2>2
  <1>9. ASSUME NEW t \in Type
        PROVE  /\ \A j \in 1 .. k + 1 : OfType(sigs[j], t) <= Shared(a.params, t)
               /\ \/ Shared(a.params, t) = 0
                  \/ \E j \in 1 .. k + 1 : OfType(sigs[j], t) = Shared(a.params, t)
    <2>1. Shared(a.params, t) = Larger(Shared(s.params, t), OfType(sigs[k + 1], t))
      BY <1>3 DEF IsPlaced
    <2>2. Shared(s.params, t) \in Nat /\ \A j \in 1 .. k + 1 : OfType(sigs[j], t) \in Nat
      BY <1>1, <1>2, <1>6, CountsAreNatural
    <2>3. /\ \A j \in 1 .. k : OfType(sigs[j], t) <= Shared(s.params, t)
          /\ Shared(s.params, t) = 0 \/ \E j \in 1 .. k : OfType(sigs[j], t) = Shared(s.params, t)
      BY DEF IsLaidOut
    <2>4. Shared(s.params, t) <= Shared(a.params, t)
              /\ OfType(sigs[k + 1], t) <= Shared(a.params, t)
      <3>1. OfType(sigs[k + 1], t) \in Nat
        BY <2>2
      <3> QED BY <2>1, <2>2, <3>1 DEF Larger
    <2>5. Shared(a.params, t) = Shared(s.params, t) \/ Shared(a.params, t) = OfType(sigs[k + 1], t)
      BY <2>1 DEF Larger
    <2>6. ASSUME NEW j \in 1 .. k + 1 PROVE OfType(sigs[j], t) <= Shared(a.params, t)
      <3>1. Shared(a.params, t) \in Nat
        BY <2>2, <2>5
      <3> QED BY <1>6, <2>2, <2>3, <2>4, <3>1
    <2> QED BY <2>3, <2>5, <2>6
  <1>10. Len(l.rows) = k + 1 /\ l.params = a.params /\ l.rows = rows
    BY <1>5
  <1> HIDE DEF l
  <1>11. IsLaidOut(Type, sigs, k + 1, l)
    BY <1>7, <1>8, <1>9, <1>10 DEF IsLaidOut
  <1> QED BY <1>11 DEF l, rows

(* Every layout of some functions is one of all of them. *)
LEMMA LayoutIsLaidOut ==
  ASSUME NEW Type, NEW sigs \in Seq(Seq(Type)), DiscriminatorWidth(Len(sigs)) \in Type,
         NEW l \in Layouts(sigs)
  PROVE  IsLaidOut(Type, sigs, Len(sigs), l)
  <1> DEFINE n == Len(sigs)
             base == [params |-> <<DiscriminatorWidth(n)>>, rows |-> <<>>]
  <1>1. PICK st : IsLayingOut(st, sigs) /\ Layouts(sigs) = st[n]
    BY LayoutsStages
  <1> DEFINE placed(k) == \A s \in st[k] : IsLaidOut(Type, sigs, k, s)
             T == {k \in Nat : k <= n => placed(k)}
  <1>2. 0 \in T
    <2>1. st[0] = {base}
      BY <1>1 DEF IsLayingOut
    <2>2. base \in LayoutsOf(Type) /\ Len(base.rows) = 0 /\ Len(base.params) = 1
      BY FirstLayout
    <2>3. \A t \in Type : Shared(base.params, t) = 0
      <3>1. \A t \in Type : SharedOf(base.params, t) = {}
        BY <2>2 DEF SharedOf
      <3> QED BY <3>1, FS_EmptySet DEF Shared
    <2> HIDE DEF base
    <2>4. IsLaidOut(Type, sigs, 0, base)
      BY <2>2, <2>3 DEF IsLaidOut
    <2> QED BY <2>1, <2>4
  <1>3. ASSUME NEW k \in T PROVE k + 1 \in T
    <2>0. SUFFICES ASSUME k + 1 <= n PROVE placed(k + 1)
      OBVIOUS
    <2>1. k + 1 \in 1 .. Len(sigs) /\ (k + 1) - 1 = k /\ placed(k) /\ k \in Nat
      BY <2>0
    <2>3. st[k + 1] = UNION {{[params |-> a.params, rows |-> Append(s.rows, a.row)] :
                                a \in PlaceFunction(s.params, sigs[k + 1])} : s \in st[k]}
      BY <1>1, <2>1 DEF IsLayingOut
    <2>4. ASSUME NEW r \in st[k + 1] PROVE IsLaidOut(Type, sigs, k + 1, r)
      <3>1. PICK s \in st[k] : \E a \in PlaceFunction(s.params, sigs[k + 1]) :
              r = [params |-> a.params, rows |-> Append(s.rows, a.row)]
        BY <2>3
      <3>2. IsLaidOut(Type, sigs, k, s)
        BY <2>1
      <3> QED BY <2>0, <2>1, <3>1, <3>2, OneMoreIsLaidOut
    <2> QED BY <2>4
  <1> HIDE DEF placed
  <1>4. T = Nat
    <2>1. T \in SUBSET Nat
      OBVIOUS
    <2> HIDE DEF T
    <2> QED BY <1>2, <1>3, <2>1, NatSet
  <1>5. placed(n)
    <2>1. n \in T /\ n <= n
      BY <1>4
    <2> QED BY <2>1
  <1> QED BY <1>1, <1>5 DEF placed

(* A layout has no parameter that not even one function needs. *)
LEMMA FewestOfLayout ==
  ASSUME NEW Type, NEW sigs \in Seq(Seq(Type)), NEW l, IsLaidOut(Type, sigs, Len(sigs), l)
  PROVE  Len(l.params) = FewestParameters(sigs)
  <1> DEFINE params == l.params
             n == Len(params)
             types == UNION {Range(sigs[k]) : k \in DOMAIN sigs}
             most(type) == CHOOSE m \in {OfType(sigs[k], type) : k \in DOMAIN sigs} :
                             \A k \in DOMAIN sigs : OfType(sigs[k], type) <= m
             these(s) == {i \in 2 .. n : params[i] \in s}
             body(e, s) == IF s = {} THEN 0
                           ELSE LET x == CHOOSE x \in s : TRUE IN e[s \ {x}] + most(x)
             fold == CHOOSE e : e = [s \in SUBSET types |-> body(e, s)]
  <1>1. FewestParameters(sigs) = 1 + fold[types]
    BY DEF FewestParameters, FoldSet, MapThenFoldSet
  <1>2. /\ DOMAIN sigs = 1 .. Len(sigs) /\ \A k \in DOMAIN sigs : sigs[k] \in Seq(Type)
        /\ params \in Seq(Type) /\ n \in Nat /\ n >= 1
    BY DEF IsLaidOut, LayoutsOf
  <1>3. types \in SUBSET Type
    <2>1. \A k \in DOMAIN sigs : Range(sigs[k]) \subseteq Type
      BY <1>2 DEF Range
    <2> QED BY <2>1
  <1>4. \A t \in Type : /\ \A k \in DOMAIN sigs : OfType(sigs[k], t) <= Shared(params, t)
                        /\ \/ Shared(params, t) = 0
                           \/ \E k \in DOMAIN sigs : OfType(sigs[k], t) = Shared(params, t)
    BY <1>2 DEF IsLaidOut
  <1>5. \A t \in Type : /\ Shared(params, t) \in Nat
                        /\ \A k \in DOMAIN sigs : OfType(sigs[k], t) \in Nat
    BY <1>2, CountsAreNatural
  (* A type with parameters belongs to some function. *)
  <1>6. ASSUME NEW t \in Type, NEW k \in DOMAIN sigs, OfType(sigs[k], t) > 0
        PROVE  t \in Range(sigs[k])
    <2>1. {i \in DOMAIN sigs[k] : sigs[k][i] = t} # {}
      <3>1. OfType(sigs[k], t) # 0 /\ Cardinality({}) = 0
        BY <1>6, FS_EmptySet
      <3> QED BY <3>1 DEF OfType
    <2> QED BY <2>1 DEF Range
  <1>7. ASSUME NEW t \in types PROVE most(t) = Shared(params, t)
    <2>1. PICK k \in DOMAIN sigs : OfType(sigs[k], t) = Shared(params, t)
      <3>1. CASE Shared(params, t) # 0
        BY <1>3, <1>4, <3>1
      <3>2. CASE Shared(params, t) = 0
        <4>1. PICK k \in DOMAIN sigs : t \in Range(sigs[k])
          OBVIOUS
        <4>2. OfType(sigs[k], t) <= 0 /\ OfType(sigs[k], t) \in Nat
          BY <1>3, <1>4, <1>5, <3>2
        <4> QED BY <3>2, <4>2
      <3> QED BY <3>1, <3>2
    <2> DEFINE all == {OfType(sigs[j], t) : j \in DOMAIN sigs}
               isMost(m) == \A j \in DOMAIN sigs : OfType(sigs[j], t) <= m
    <2>2. Shared(params, t) \in all /\ isMost(Shared(params, t))
      BY <1>3, <1>4, <2>1
    <2>3. most(t) = CHOOSE m \in all : isMost(m)
      OBVIOUS
    <2>4. \A m \in all : m \in Nat /\ (isMost(m) => Shared(params, t) <= m)
      BY <1>3, <1>5, <2>1
    <2>5. \A m \in all : m <= Shared(params, t)
      BY <1>3, <1>4
    <2>7. Shared(params, t) \in Nat
      BY <1>3, <1>5
    <2> HIDE DEF all, isMost, most
    <2>6. most(t) \in all /\ isMost(most(t))
      BY <2>2, <2>3, Zenon
    <2>8. most(t) \in Nat /\ Shared(params, t) <= most(t) /\ most(t) <= Shared(params, t)
      BY <2>4, <2>5, <2>6
    <2> QED BY <2>7, <2>8
  <1>8. IsFiniteSet(2 .. n) /\ \A s \in SUBSET types : these(s) \in SUBSET (2 .. n)
    <2>1. 2 \in Int /\ n \in Int
      BY <1>2
    <2> HIDE DEF n, params
    <2> QED BY <2>1, FS_Interval
  <1>9. \A s \in SUBSET types : IsFiniteSet(these(s)) /\ Cardinality(these(s)) \in Nat
    BY <1>8, FS_Subset, FS_CardinalityType
  <1>10. ASSUME NEW s \in SUBSET types, NEW x \in s
         PROVE  Cardinality(these(s)) = Cardinality(these(s \ {x})) + most(x)
    <2>1. /\ these(s) = these(s \ {x}) \cup SharedOf(params, x)
          /\ these(s \ {x}) \cap SharedOf(params, x) = {}
      BY DEF SharedOf
    <2>2. IsFiniteSet(these(s \ {x})) /\ IsFiniteSet(SharedOf(params, x))
      BY <1>2, <1>9, CountsAreNatural
    <2>3. Cardinality(these(s)) = Cardinality(these(s \ {x})) + Cardinality(SharedOf(params, x)) - 0
      <3> HIDE DEF these
      <3> QED BY <2>1, <2>2, FS_Union, FS_EmptySet
    <2>4. x \in types /\ Cardinality(SharedOf(params, x)) = most(x)
      BY <1>7 DEF Shared
    <2>5. most(x) \in Nat /\ Cardinality(these(s \ {x})) \in Nat
      <3>1. s \ {x} \in SUBSET types /\ x \in Type /\ most(x) = Shared(params, x)
        BY <1>3, <1>7
      <3> HIDE DEF these, most, types
      <3> QED BY <1>5, <1>9, <3>1
    <2> HIDE DEF these, most, types
    <2> QED BY <2>3, <2>4, <2>5
  <1>11. these({}) = {}
    OBVIOUS
  <1> HIDE DEF most, types
  <1> DEFINE g == [s \in SUBSET types |-> Cardinality(these(s))]
  <1>12. g = [s \in SUBSET types |-> body(g, s)]
    <2>1. ASSUME NEW s \in SUBSET types PROVE Cardinality(these(s)) = body(g, s)
      <3>1. CASE s = {}
        BY <1>11, <3>1, FS_EmptySet
      <3>2. CASE s # {}
        <4> DEFINE x == CHOOSE x \in s : TRUE
        <4>1. x \in s /\ s \ {x} \in SUBSET types
          BY <3>2
        <4> HIDE DEF x, these
        <4>2. g[s \ {x}] = Cardinality(these(s \ {x}))
          BY <4>1
        <4>3. Cardinality(these(s)) = g[s \ {x}] + most(x)
          BY <1>10, <4>1, <4>2
        <4> QED BY <3>2, <4>3 DEF x
      <3> QED BY <3>1, <3>2
    <2> HIDE DEF body, these
    <2>2. \A s \in SUBSET types : g[s] = body(g, s)
      BY <2>1
    <2> QED BY <2>2
  <1> HIDE DEF these
  <1>13. fold = [s \in SUBSET types |-> body(fold, s)]
    BY <1>12, Zenon
  <1> HIDE DEF fold
  <1> DEFINE T == {s \in SUBSET types : fold[s] = Cardinality(these(s))}
  <1>14. IsFiniteSet(types)
    <2>1. \A k \in DOMAIN sigs : IsFiniteSet(Range(sigs[k]))
      <3>1. ASSUME NEW k \in DOMAIN sigs PROVE IsFiniteSet(Range(sigs[k]))
        <4> DEFINE r == sigs[k]
        <4>1. r \in Seq(Type)
          BY <1>2
        <4> HIDE DEF r
        <4>2. IsFiniteSet(1 .. Len(r)) /\ DOMAIN r = 1 .. Len(r)
          BY <4>1, FS_Interval
        <4>3. r \in Surjection(1 .. Len(r), Range(r))
          BY <4>1, <4>2 DEF Surjection, Range
        <4> QED BY <4>2, <4>3, FS_Surjection DEF r
      <3> QED BY <3>1
    <2> DEFINE ranges == {Range(sigs[k]) : k \in DOMAIN sigs}
               h == [k \in DOMAIN sigs |-> Range(sigs[k])]
    <2>2. h \in Surjection(DOMAIN sigs, ranges)
      BY DEF Surjection
    <2>6. IsFiniteSet(DOMAIN sigs)
      <3>1. Len(sigs) \in Int /\ 1 \in Int /\ DOMAIN sigs = 1 .. Len(sigs)
        OBVIOUS
      <3> QED BY <3>1, FS_Interval
    <2>3. \A R \in ranges : IsFiniteSet(R)
      BY <2>1
    <2> HIDE DEF h, ranges
    <2>4. IsFiniteSet(ranges)
      BY <2>2, <2>6, FS_Surjection
    <2>5. IsFiniteSet(UNION ranges)
      BY <2>3, <2>4, FS_UNION
    <2> QED BY <2>5 DEF ranges, types
  <1>15. ASSUME NEW s \in SUBSET types, \A x \in s : s \ {x} \in T PROVE s \in T
    <2>1. CASE s = {}
      BY <1>11, <1>13, <2>1, FS_EmptySet
    <2>2. CASE s # {}
      <3> DEFINE x == CHOOSE x \in s : TRUE
      <3>1. x \in s /\ s \ {x} \in SUBSET types
        BY <2>2
      <3>2. fold[s] = fold[s \ {x}] + most(x)
        BY <1>13, <2>2
      <3> HIDE DEF x
      <3>3. fold[s \ {x}] = Cardinality(these(s \ {x}))
        BY <1>15, <3>1
      <3> QED BY <1>10, <3>1, <3>2, <3>3
    <2> QED BY <2>1, <2>2
  <1>16. T = SUBSET types
    <2>1. T \in SUBSET SUBSET types
      OBVIOUS
    <2> HIDE DEF T
    <2> QED BY <1>14, <1>15, <2>1, SubsetInduction
  <1>17. fold[types] = Cardinality(these(types))
    BY <1>16
  <1>18. these(types) = 2 .. n
    <2>1. ASSUME NEW i \in 2 .. n PROVE params[i] \in types
      <3>1. params[i] \in Type /\ i \in SharedOf(params, params[i])
        BY <1>2 DEF SharedOf
      <3>2. Shared(params, params[i]) # 0
        BY <1>2, <3>1, CountsAreNatural, FS_EmptySet DEF Shared
      <3>3. PICK k \in DOMAIN sigs : OfType(sigs[k], params[i]) = Shared(params, params[i])
        BY <1>4, <3>1, <3>2
      <3>4. params[i] \in Range(sigs[k])
        BY <1>5, <1>6, <3>1, <3>2, <3>3
      <3> QED BY <3>4 DEF types
    <2> QED BY <2>1 DEF these
  <1>19. Cardinality(2 .. n) = n - 1
    <2>1. 2 \in Int /\ n \in Int /\ n >= 1
      BY <1>2
    <2> HIDE DEF n, params
    <2> QED BY <2>1, FS_Interval
  <1> QED BY <1>1, <1>2, <1>17, <1>18, <1>19

(* The layouts of a pair after each parameter of the second function. *)
IsPlacingSecond(st, sig1, sig2) ==
  /\ st[0] = {[params |-> <<1>> \o sig1, row |-> <<>>]}
  /\ \A k \in 1 .. Len(sig2) :
       st[k] = UNION {PlaceParameter(s.params, s.row, sig2[k],
                        PairReusable(s.params, sig1, s.row, sig2[k])) : s \in st[k - 1]}

WithFirst(sig1, S) ==
  {[params |-> s.params, rows |-> <<[i \in 1 .. Len(sig1) |-> i + 1], s.row>>] : s \in S}

(* PairLayouts goes through the second function's parameters in order. *)
LEMMA PairLayoutsStages ==
  ASSUME NEW Type, 1 \in Type, NEW sig1 \in Seq(Type), NEW sig2 \in Seq(Type)
  PROVE  \E st : IsPlacingSecond(st, sig1, sig2)
             /\ PairLayouts(sig1, sig2) = WithFirst(sig1, st[Len(sig2)])
  <1> DEFINE n == Len(sig2)
             V == SUBSET Placements(Type)
             placed(x, S) == UNION {PlaceParameter(s.params, s.row, sig2[x],
                                      PairReusable(s.params, sig1, s.row, sig2[x])) : s \in S}
             base == {[params |-> <<1>> \o sig1, row |-> <<>>]}
             op == [p \in (1 .. n) \X V |-> placed(p[1], p[2])]
             body(e, s) == IF s = {} THEN base
                           ELSE LET x == Max(s) IN placed(x, e[s \ {x}])
             fold == CHOOSE e : e = [s \in SUBSET DOMAIN sig2 |-> body(e, s)]
  <1>1. PairLayouts(sig1, sig2) = WithFirst(sig1, fold[DOMAIN sig2])
    BY DEF PairLayouts, WithFirst, FoldLeft, MapThenFoldSet
  <1>2. n \in Nat /\ DOMAIN sig2 = 1 .. n /\ \A x \in 1 .. n : sig2[x] \in Type
    OBVIOUS
  <1>3. ASSUME NEW x \in 1 .. n, NEW S \in V PROVE placed(x, S) \in V
    <2>1. \A s \in S : s \in Placements(Type)
      OBVIOUS
    <2>2. \A s \in S : PairReusable(s.params, sig1, s.row, sig2[x]) \in SUBSET Nat
      BY <2>1 DEF PairReusable, Placements
    <2>3. ASSUME NEW s \in S
          PROVE  PlaceParameter(s.params, s.row, sig2[x],
                                PairReusable(s.params, sig1, s.row, sig2[x]))
                   \subseteq Placements(Type)
      BY <1>2, <2>1, <2>2, PlacementsOfOne
    <2> QED BY <2>3
  <1>4. base \in V
    <2>1. <<1>> \o sig1 \in Seq(Type)
      OBVIOUS
    <2> QED BY <2>1 DEF Placements
  <1> HIDE DEF placed, base, V, n
  <1>5. op \in [(1 .. n) \X V -> V] /\ \A x \in 1 .. n, S \in V : op[<<x, S>>] = placed(x, S)
    BY <1>3
  <1> HIDE DEF op
  <1>6. PICK g : IsLeftFold(g, n, V, base, op)
    BY <1>2, <1>4, <1>5, LeftFold, Zenon
  <1>7. \A s \in SUBSET (1 .. n) : g[s] = body(g, s)
    <2>1. ASSUME NEW s \in (SUBSET (1 .. n)) \ {{}} PROVE g[s] = placed(Max(s), g[s \ {Max(s)}])
      <3>1. Max(s) \in 1 .. n
        BY <1>2, MaxProperties
      <3>2. g[s \ {Max(s)}] \in V
        BY <1>6 DEF IsLeftFold
      <3>3. g[s] = op[<<Max(s), g[s \ {Max(s)}]>>]
        BY <1>6 DEF IsLeftFold
      <3> QED BY <1>5, <3>1, <3>2, <3>3
    <2> QED BY <1>6, <2>1 DEF IsLeftFold
  <1>8. g = [s \in SUBSET DOMAIN sig2 |-> body(g, s)]
    BY <1>2, <1>6, <1>7 DEF IsLeftFold
  <1>9. fold = [s \in SUBSET DOMAIN sig2 |-> body(fold, s)]
    BY <1>8, Zenon
  <1> HIDE DEF fold
  <1>10. fold[{}] = base
    BY <1>9
  <1>11. ASSUME NEW k \in 1 .. n PROVE fold[1 .. k] = placed(k, fold[1 .. k - 1])
    <2>1. /\ 1 .. k \in (SUBSET DOMAIN sig2) \ {{}}
          /\ Max(1 .. k) = k /\ (1 .. k) \ {Max(1 .. k)} = 1 .. k - 1
      BY <1>2, LastOfPrefix
    <2>2. fold[1 .. k] = body(fold, 1 .. k)
      BY <1>9, <2>1
    <2> QED BY <2>1, <2>2
  <1> DEFINE st == [k \in 0 .. n |-> fold[1 .. k]]
  <1>12. /\ st[0] = base /\ st[n] = fold[DOMAIN sig2]
         /\ \A k \in 1 .. n : st[k] = placed(k, st[k - 1])
    BY <1>2, <1>10, <1>11
  <1> HIDE DEF st
  <1>13. IsPlacingSecond(st, sig1, sig2)
    BY <1>12 DEF IsPlacingSecond, placed, base, n
  <1> QED BY <1>1, <1>12, <1>13 DEF n

(* The second function finds the same parameters free whether those of the   *)
(* first are asked for or all of them.                                     *)
LEMMA SecondIsPlacedAlike ==
  ASSUME NEW Type, 1 \in Type, NEW sig1 \in Seq(Type), NEW sig2 \in Seq(Type)
  PROVE  PairLayouts(sig1, sig2) = WithFirst(sig1, PlaceFunction(<<1>> \o sig1, sig2))
  <1> DEFINE params == <<1>> \o sig1
             n == Len(sig2)
  <1>1. params \in Seq(Type) /\ Len(params) = Len(sig1) + 1 /\ Len(sig1) \in Nat /\ n \in Nat
    OBVIOUS
  <1> HIDE DEF params
  <1>2. PICK st : IsPlacing(st, params, sig2) /\ PlaceFunction(params, sig2) = st[n]
    BY <1>1, PlaceFunctionStages
  <1>3. PICK pt : IsPlacingSecond(pt, sig1, sig2)
            /\ PairLayouts(sig1, sig2) = WithFirst(sig1, pt[n])
    BY PairLayoutsStages
  <1> DEFINE uses(s) == /\ s.params \in Seq(Type) /\ s.row \in Seq(Nat)
                        /\ Len(sig1) + 1 <= Len(s.params)
                        /\ \A i \in Len(sig1) + 2 .. Len(s.params) : i \in Range(s.row)
             same(k) == st[k] = pt[k] /\ \A s \in st[k] : uses(s)
             T == {k \in Nat : k <= n => same(k)}
  <1>4. 0 \in T
    <2>1. /\ st[0] = {[params |-> params, row |-> <<>>]}
          /\ pt[0] = {[params |-> params, row |-> <<>>]}
      BY <1>2, <1>3 DEF IsPlacing, IsPlacingSecond, params
    <2> DEFINE s == [params |-> params, row |-> <<>>]
    <2>2. s.params \in Seq(Type) /\ s.row \in Seq(Nat) /\ Len(s.params) = Len(sig1) + 1
      BY <1>1
    <2>3. Len(sig1) + 2 .. Len(s.params) = {}
      BY <1>1, <2>2
    <2> HIDE DEF s
    <2>4. uses(s)
      BY <1>1, <2>2, <2>3
    <2> QED BY <2>1, <2>4 DEF s
  <1>5. ASSUME NEW k \in T PROVE k + 1 \in T
    <2>0. SUFFICES ASSUME k + 1 <= n PROVE same(k + 1)
      OBVIOUS
    <2>1. k + 1 \in 1 .. Len(sig2) /\ (k + 1) - 1 = k /\ same(k) /\ sig2[k + 1] \in Type
      BY <2>0
    <2>2. st[k + 1] = UNION {PlaceParameter(s.params, s.row, sig2[k + 1],
                               Reusable(s.params, s.row, sig2[k + 1])) : s \in st[k]}
      BY <1>2, <2>1 DEF IsPlacing
    <2>3. pt[k + 1] = UNION {PlaceParameter(s.params, s.row, sig2[k + 1],
                               PairReusable(s.params, sig1, s.row, sig2[k + 1])) : s \in pt[k]}
      BY <1>3, <2>1 DEF IsPlacingSecond
    <2>4. \A s \in st[k] : uses(s)
      BY <2>1
    <2>5. ASSUME NEW s \in st[k]
          PROVE  /\ PairReusable(s.params, sig1, s.row, sig2[k + 1])
                      = Reusable(s.params, s.row, sig2[k + 1])
                 /\ \A l \in PlaceParameter(s.params, s.row, sig2[k + 1],
                               PairReusable(s.params, sig1, s.row, sig2[k + 1])) : uses(l)
      <3>1. uses(s)
        BY <2>4
      <3> DEFINE free == PairReusable(s.params, sig1, s.row, sig2[k + 1])
      <3>2. /\ free = Reusable(s.params, s.row, sig2[k + 1])
            /\ \A l \in PlaceParameter(s.params, s.row, sig2[k + 1], free) :
                 \A i \in Len(sig1) + 2 .. Len(l.params) : i \in Range(l.row)
        BY <2>1, <3>1, PairsReuseAsMany
      <3>3. free \in SUBSET Nat /\ s.params \in Seq(Type) /\ s.row \in Seq(Nat)
        BY <3>1 DEF PairReusable
      <3> HIDE DEF free
      <3>4. ASSUME NEW l \in PlaceParameter(s.params, s.row, sig2[k + 1], free)
            PROVE  uses(l)
        <4>1. l.params \in {s.params, Append(s.params, sig2[k + 1])}
              /\ l.row \in {Append(s.row, i) : i \in free \cup {Len(s.params) + 1}}
          BY DEF PlaceParameter
        <4>2. l.params \in Seq(Type) /\ Len(s.params) <= Len(l.params)
          <5> DEFINE u == s.params
                     v == l.params
                     t == sig2[k + 1]
          <5>1. u \in Seq(Type) /\ t \in Type /\ (v = u \/ v = Append(u, t))
            BY <2>1, <3>3, <4>1
          <5> HIDE DEF u, v, t
          <5>2. v \in Seq(Type) /\ Len(u) <= Len(v)
            <6>1. /\ Append(u, t) \in Seq(Type) /\ Len(Append(u, t)) = Len(u) + 1
                  /\ Len(u) \in Nat /\ Len(u) <= Len(u) + 1 /\ Len(u) <= Len(u)
              BY <5>1
            <6> QED BY <5>1, <6>1, Zenon
          <5> QED BY <5>2 DEF u, v
        <4>3. l.row \in Seq(Nat)
          <5> DEFINE u == s.row
          <5>1. u \in Seq(Nat) /\ free \cup {Len(s.params) + 1} \subseteq Nat
            <6>1. Len(s.params) + 1 \in Nat
              BY <3>3
            <6> QED BY <3>3, <6>1
          <5>2. PICK i \in free \cup {Len(s.params) + 1} : l.row = Append(u, i)
            BY <4>1
          <5> HIDE DEF u
          <5> QED BY <5>1, <5>2
        <4> QED BY <1>1, <3>1, <3>2, <4>2, <4>3
      <3> QED BY <3>2, <3>4 DEF free
    <2> HIDE DEF uses
    <2>6. st[k + 1] = pt[k + 1]
      BY <2>1, <2>2, <2>3, <2>5
    <2>7. \A l \in st[k + 1] : uses(l)
      BY <2>1, <2>3, <2>5, <2>6
    <2> QED BY <2>6, <2>7
  <1> HIDE DEF same
  <1>6. T = Nat
    <2>1. T \in SUBSET Nat
      OBVIOUS
    <2> HIDE DEF T
    <2> QED BY <1>4, <1>5, <2>1, NatSet
  <1>7. same(n)
    BY <1>1, <1>6
  <1>8. st[n] = pt[n]
    BY <1>7 DEF same
  <1> QED BY <1>2, <1>3, <1>8 DEF params

(* The first function gets a parameter of its own for each of its own.       *)
LEMMA FirstIsPlaced ==
  ASSUME NEW Type, NEW d \in Type, NEW sig \in Seq(Type)
  PROVE  PlaceFunction(<<d>>, sig)
           = {[params |-> <<d>> \o sig, row |-> [i \in 1 .. Len(sig) |-> i + 1]]}
  <1> DEFINE n == Len(sig)
             params(k) == <<d>> \o SubSeq(sig, 1, k)
             row(k) == [i \in 1 .. k |-> i + 1]
             one(k) == [params |-> params(k), row |-> row(k)]
  <1>1. PICK st : IsPlacing(st, <<d>>, sig) /\ PlaceFunction(<<d>>, sig) = st[n]
    <2>1. <<d>> \in Seq(Type)
      OBVIOUS
    <2> QED BY <2>1, PlaceFunctionStages
  <1> DEFINE T == {k \in Nat : k <= n => st[k] = {one(k)}}
  <1>2. 0 \in T
    <2>1. st[0] = {[params |-> <<d>>, row |-> <<>>]}
      BY <1>1 DEF IsPlacing
    <2>2. params(0) = <<d>> /\ row(0) = <<>>
      <3>1. SubSeq(sig, 1, 0) = <<>>
        OBVIOUS
      <3>2. <<d>> \o <<>> = <<d>>
        OBVIOUS
      <3>3. [i \in 1 .. 0 |-> i + 1] = <<>>
        OBVIOUS
      <3> QED BY <3>1, <3>2, <3>3
    <2> QED BY <2>1, <2>2
  <1>3. ASSUME NEW k \in T PROVE k + 1 \in T
    <2>a. k + 1 \in Nat
      OBVIOUS
    <2>b. k + 1 \in T <=> (k + 1 <= n => st[k + 1] = {one(k + 1)})
      <3> HIDE DEF one, n
      <3> QED BY <2>a
    <2>0. SUFFICES ASSUME k + 1 <= n PROVE st[k + 1] = {one(k + 1)}
      BY <2>b, Zenon
    <2>1. k + 1 \in 1 .. Len(sig) /\ (k + 1) - 1 = k /\ st[k] = {one(k)} /\ k \in Nat
      BY <2>0
    <2>2. st[k + 1] = UNION {PlaceParameter(s.params, s.row, sig[k + 1],
                               Reusable(s.params, s.row, sig[k + 1])) : s \in st[k]}
      BY <1>1, <2>1 DEF IsPlacing
    <2>3. SubSeq(sig, 1, k + 1) = Append(SubSeq(sig, 1, k), sig[k + 1])
          /\ SubSeq(sig, 1, k) \in Seq(Type) /\ sig[k + 1] \in Type
      BY <2>1, PrefixGrows
    <2>4. Len(SubSeq(sig, 1, k)) = k
      BY <2>1
    <2> DEFINE b == SubSeq(sig, 1, k)
               t == sig[k + 1]
    <2> HIDE DEF b, t
    <2>5. <<d>> \o Append(b, t) = Append(<<d>> \o b, t) /\ Len(<<d>> \o b) = k + 1
      <3>1. b \in Seq(Type) /\ Len(b) = k /\ t \in Type
        BY <2>3, <2>4 DEF b, t
      <3> DEFINE u == <<d>> \o Append(b, t)
                 v == Append(<<d>> \o b, t)
      <3>2. /\ u \in Seq(Type) /\ v \in Seq(Type) /\ Len(u) = k + 2 /\ Len(v) = k + 2
            /\ Len(<<d>> \o b) = k + 1
        BY <3>1
      <3>3. \A i \in 1 .. k + 2 : u[i] = v[i]
        BY <3>1
      <3> HIDE DEF u, v
      <3>4. u = v
        BY <3>2, <3>3
      <3> QED BY <3>2, <3>4 DEF u, v
    <2>6. params(k + 1) = Append(params(k), t) /\ Len(params(k)) = k + 1
      BY <2>3, <2>5 DEF b, t
    <2>7. row(k + 1) = Append(row(k), k + 2) /\ row(k) \in Seq(Nat)
      <3>1. row(k) \in Seq(Nat) /\ Len(row(k)) = k
        BY <2>1
      <3>2. Append(row(k), k + 2) \in Seq(Nat) /\ Len(Append(row(k), k + 2)) = k + 1
        BY <3>1
      <3>3. \A i \in 1 .. k + 1 : Append(row(k), k + 2)[i] = i + 1
        BY <3>1
      <3>4. Append(row(k), k + 2) = [i \in 1 .. k + 1 |-> i + 1]
        BY <3>2, <3>3
      <3> QED BY <3>1, <3>4
    <2>8. Reusable(params(k), row(k), t) = {}
      <3>1. \A i \in 2 .. k + 1 : i - 1 \in 1 .. k /\ row(k)[i - 1] = i
        BY <2>1
      <3>2. DOMAIN row(k) = 1 .. k
        OBVIOUS
      <3> HIDE DEF row, params
      <3>3. \A i \in 2 .. k + 1 : i \in Range(row(k))
        BY <3>1, <3>2 DEF Range
      <3> QED BY <2>6, <3>3 DEF Reusable
    <2> HIDE DEF params, row
    <2>9. PlaceParameter(params(k), row(k), t, {})
              = {[params |-> params(k + 1), row |-> row(k + 1)]}
      <3>1. Len(params(k)) + 1 = k + 2
        BY <2>1, <2>6
      <3>2. PlaceParameter(params(k), row(k), t, {})
              = {[params |-> Append(params(k), t), row |-> Append(row(k), Len(params(k)) + 1)]}
        BY DEF PlaceParameter
      <3> QED BY <2>6, <2>7, <3>1, <3>2
    <2>10. one(k).params = params(k) /\ one(k).row = row(k)
      OBVIOUS
    <2>11. one(k + 1) = [params |-> params(k + 1), row |-> row(k + 1)]
      OBVIOUS
    <2> HIDE DEF one
    <2>12. st[k + 1] = PlaceParameter(one(k).params, one(k).row, t,
                                      Reusable(one(k).params, one(k).row, t))
      BY <2>1, <2>2 DEF t
    <2> QED BY <2>8, <2>9, <2>10, <2>11, <2>12
  <1> HIDE DEF one
  <1>4. T = Nat
    <2>1. T \in SUBSET Nat
      OBVIOUS
    <2> HIDE DEF T
    <2> QED BY <1>2, <1>3, <2>1, NatSet
  <1>5. n \in Nat /\ SubSeq(sig, 1, n) = sig
    OBVIOUS
  <1>6. st[n] = {one(n)}
    BY <1>4, <1>5
  <1> QED BY <1>1, <1>5, <1>6 DEF one

(* Every layout has a place of its own, of its type, for each parameter of   *)
(* each function, and no more parameters than the functions need.          *)
THEOREM LayoutsFit ==
  ASSUME NEW Type, NEW sigs \in Seq(Seq(Type)), NEW l \in Layouts(sigs)
  PROVE  /\ Len(l.params) = FewestParameters(sigs)
         /\ Len(l.rows) = Len(sigs)
         /\ \A k \in DOMAIN sigs : RowFits(l.params, sigs[k], l.rows[k])
  <1> DEFINE w == DiscriminatorWidth(Len(sigs))
             All == Type \cup {w}
  <1>1. sigs \in Seq(Seq(All)) /\ w \in All
    <2>1. \A s \in Seq(Type) : s \in Seq(All)
      OBVIOUS
    <2> HIDE DEF All
    <2>2. Len(sigs) \in Nat /\ DOMAIN sigs = 1 .. Len(sigs)
              /\ \A k \in 1 .. Len(sigs) : sigs[k] \in Seq(All)
      BY <2>1
    <2>3. sigs = [k \in 1 .. Len(sigs) |-> sigs[k]]
      OBVIOUS
    <2>4. sigs \in Seq(Seq(All))
      BY <2>2, <2>3
    <2> QED BY <2>4 DEF All
  <1> HIDE DEF All
  <1>2. IsLaidOut(All, sigs, Len(sigs), l)
    BY <1>1, LayoutIsLaidOut
  <1>3. Len(l.params) = FewestParameters(sigs)
    BY <1>1, <1>2, FewestOfLayout
  <1>4. DOMAIN sigs = 1 .. Len(sigs)
    OBVIOUS
  <1> QED BY <1>2, <1>3, <1>4 DEF IsLaidOut

(* The pairwise passes lay two functions out as the multiple merge does, and *)
(* have the same layouts to choose from.                                   *)
THEOREM PairsAreLaidOutAlike ==
  ASSUME NEW Type, NEW sig1 \in Seq(Type), NEW sig2 \in Seq(Type)
  PROVE  PairLayouts(sig1, sig2) = Layouts(<<sig1, sig2>>)
  <1> DEFINE All == Type \cup {1}
             sigs == <<sig1, sig2>>
             first == [i \in 1 .. Len(sig1) |-> i + 1]
             one == [params |-> <<1>> \o sig1, row |-> first]
             placed == PlaceFunction(<<1>> \o sig1, sig2)
  <1>1. sig1 \in Seq(All) /\ sig2 \in Seq(All) /\ 1 \in All
    OBVIOUS
  <1>2. DiscriminatorWidth(2) = 1
    <2> DEFINE isWidth(w) == 2^w >= 2 /\ \A v \in 0 .. w - 1 : 2^v < 2
    <2>1. 2^0 = 1 /\ 2^1 = 2
      OBVIOUS
    <2>2. isWidth(1) /\ 1 \in 0 .. 2
      <3>1. \A v \in 0 .. 0 : v = 0
        OBVIOUS
      <3> QED BY <2>1, <3>1
    <2>3. \A w \in 0 .. 2 : isWidth(w) => w = 1
      <3>1. ~ isWidth(0)
        BY <2>1
      <3>2. ~ isWidth(2)
        <4>1. 1 \in 0 .. 2 - 1 /\ ~ (2^1 < 2)
          BY <2>1
        <4> QED BY <4>1
      <3>3. \A w \in 0 .. 2 : w = 0 \/ w = 1 \/ w = 2
        OBVIOUS
      <3> HIDE DEF isWidth
      <3> QED BY <3>1, <3>2, <3>3
    <2>4. DiscriminatorWidth(2) = CHOOSE w \in 0 .. 2 : isWidth(w)
      BY DEF DiscriminatorWidth
    <2> HIDE DEF isWidth
    <2> QED BY <2>2, <2>3, <2>4
  <1>3. sigs \in Seq(Seq(All)) /\ Len(sigs) = 2 /\ sigs[1] = sig1 /\ sigs[2] = sig2
    BY <1>1
  <1> HIDE DEF All, sigs
  <1>4. PICK st : IsLayingOut(st, sigs) /\ Layouts(sigs) = st[2]
    BY <1>1, <1>2, <1>3, LayoutsStages
  <1>5. st[0] = {[params |-> <<1>>, rows |-> <<>>]}
    BY <1>2, <1>3, <1>4 DEF IsLayingOut
  <1>6. ASSUME NEW k \in 1 .. 2
        PROVE  st[k] = UNION {{[params |-> a.params, rows |-> Append(s.rows, a.row)] :
                                 a \in PlaceFunction(s.params, sigs[k])} : s \in st[k - 1]}
    BY <1>3, <1>4 DEF IsLayingOut
  <1>7. PlaceFunction(<<1>>, sig1) = {one}
    BY <1>1, FirstIsPlaced
  <1> DEFINE after(s, k) == {[params |-> a.params, rows |-> Append(s.rows, a.row)] :
                               a \in PlaceFunction(s.params, sigs[k])}
  <1>11. ASSUME NEW k \in 1 .. 2, NEW s, st[k - 1] = {s} PROVE st[k] = after(s, k)
    <2>1. st[k] = UNION {after(r, k) : r \in st[k - 1]}
      BY <1>6
    <2> HIDE DEF after
    <2> QED BY <1>11, <2>1
  <1>8. st[1] = {[params |-> <<1>> \o sig1, rows |-> <<first>>]}
    <2> DEFINE base == [params |-> <<1>>, rows |-> <<>>]
    <2>2. st[1 - 1] = {base} /\ base.params = <<1>> /\ base.rows = <<>> /\ 1 \in 1 .. 2
      BY <1>5
    <2>3. one.params = <<1>> \o sig1 /\ one.row = first
      OBVIOUS
    <2> HIDE DEF base, one, first, after
    <2>4. st[1] = after(base, 1)
      BY <1>11, <2>2
    <2>5. PlaceFunction(base.params, sigs[1]) = {one} /\ Append(base.rows, one.row) = <<one.row>>
      BY <1>3, <1>7, <2>2
    <2>6. after(base, 1) = {[params |-> one.params, rows |-> Append(base.rows, one.row)]}
      BY <2>5 DEF after
    <2> QED BY <2>3, <2>4, <2>5, <2>6
  <1>9. st[2] = {[params |-> a.params, rows |-> <<first, a.row>>] : a \in placed}
    <2> DEFINE base == [params |-> <<1>> \o sig1, rows |-> <<first>>]
    <2>2. st[2 - 1] = {base} /\ base.params = <<1>> \o sig1 /\ base.rows = <<first>> /\ 2 \in 1 .. 2
      BY <1>8
    <2> HIDE DEF base, first, after
    <2>3. st[2] = after(base, 2)
      BY <1>11, <2>2
    <2>5. PlaceFunction(base.params, sigs[2]) = placed
      BY <1>3, <2>2
    <2> HIDE DEF placed
    <2>6. \A a \in placed : Append(base.rows, a.row) = <<first, a.row>>
      BY <2>2, AppendToOne
    <2>7. after(base, 2) = {[params |-> a.params, rows |-> Append(base.rows, a.row)] : a \in placed}
      BY <2>5 DEF after
    <2> QED BY <2>3, <2>6, <2>7
  <1>10. PairLayouts(sig1, sig2) = {[params |-> a.params, rows |-> <<first, a.row>>] : a \in placed}
    BY <1>1, SecondIsPlacedAlike DEF WithFirst
  <1> QED BY <1>4, <1>9, <1>10 DEF sigs
=============================================================================
