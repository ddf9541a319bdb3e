-------------------------- MODULE NWAlignerProofs --------------------------
(***************************************************************************)
(* Proofs about NWAligner, for any number of functions, any lengths and    *)
(* any relation of matching elements.                                      *)
(***************************************************************************)
EXTENDS NWAligner, CommonLemmas

(* A nonempty set of functions has a last one. *)
LEMMA LastFunction ==
  ASSUME NEW S \in SUBSET Func, S # {}
  PROVE  \E m \in S : \A g \in S : g <= m
<1> DEFINE T == {n \in Nat : \E g \in S : n = NumFunctions - g}
<1>1. NumFunctions \in Nat /\ S \subseteq 1 .. NumFunctions
  BY NWAssumption DEF Func
<1>2. T \subseteq Nat
  OBVIOUS
<1>3. T # {}
  <2>1. PICK g \in S : TRUE
    OBVIOUS
  <2>2. NumFunctions - g \in T
    BY <1>1, <2>1
  <2> QED BY <2>2
<1>4. \E x \in T : \A y \in T : ~ (<<y, x>> \in OpToRel(<, Nat))
  <2> HIDE DEF T
  <2> QED BY <1>2, <1>3, NatLessThanWellFounded, WFMin
<1>5. PICK x \in T : \A y \in T : ~ (<<y, x>> \in OpToRel(<, Nat))
  BY <1>4
<1>6. \A y \in T : x <= y
  <2> SUFFICES ASSUME NEW y \in T PROVE x <= y
    OBVIOUS
  <2>1. ~ (<<y, x>> \in OpToRel(<, Nat))
    BY <1>5
  <2>2. x \in Nat /\ y \in Nat
    BY <1>2
  <2> HIDE DEF T
  <2>3. ~ (y < x)
    BY <2>1, <2>2 DEF OpToRel
  <2> QED BY <2>2, <2>3
<1>7. PICK m \in S : x = NumFunctions - m
  OBVIOUS
<1>8. \A g \in S : g <= m
  <2> SUFFICES ASSUME NEW g \in S PROVE g <= m
    OBVIOUS
  <2>1. g \in Int /\ m \in Int /\ NumFunctions - g \in Nat
    BY <1>1
  <2>2. NumFunctions - g \in T
    BY <2>1
  <2>3. x <= NumFunctions - g
    BY <1>6, <2>2
  <2> QED BY <1>1, <1>7, <2>1, <2>3
<1> QED BY <1>8

(***************************************************************************)
(* The order in which buildScoreTable visits the points.                   *)
(***************************************************************************)
ComesBefore(q, p) ==
  \E h \in Func : q[h] < p[h] /\ \A g \in h + 1 .. NumFunctions : q[g] = p[g]

(* Two points differ in a last dimension. *)
LEMMA LastDifference ==
  ASSUME NEW p \in Point, NEW q \in Point, p # q
  PROVE  \E h \in Func :
           p[h] # q[h] /\ \A g \in h + 1 .. NumFunctions : q[g] = p[g]
<1> DEFINE S == {g \in Func : p[g] # q[g]}
<1>1. S # {}
  BY DEF Point
<1>2. PICK h \in S : \A g \in S : g <= h
  BY <1>1, LastFunction
<1>3. \A g \in h + 1 .. NumFunctions : g \in Func /\ g \notin S
  BY <1>2, NWAssumption DEF Func
<1> QED BY <1>2, <1>3

(* A transition comes from a point that was visited before. *)
LEMMA MinusComesBefore ==
  ASSUME NEW p \in Point, NEW o \in Offsets(p)
  PROVE  /\ Minus(p, o) \in Point
         /\ ComesBefore(Minus(p, o), p)
<1>1. o \in SUBSET Func /\ o # {} /\ \A f \in o : p[f] > 0
  BY DEF Offsets
<1>2. Minus(p, o) \in Point
  BY <1>1, NWAssumption DEF Minus, Point
<1>3. PICK h \in o : \A g \in o : g <= h
  BY <1>1, LastFunction
<1>4. \A g \in h + 1 .. NumFunctions : g \in Func /\ g \notin o
  BY <1>1, <1>3, NWAssumption DEF Func
<1>5. Minus(p, o)[h] < p[h]
  BY <1>1, <1>3 DEF Minus, Point
<1>6. \A g \in h + 1 .. NumFunctions : Minus(p, o)[g] = p[g]
  BY <1>4 DEF Minus
<1> QED BY <1>1, <1>2, <1>3, <1>5, <1>6 DEF ComesBefore

(* Between a point and the one advancePointInShape makes of it there is no  *)
(* other point of the table.                                               *)
LEMMA NothingBetween ==
  ASSUME seqs \in [Func -> Seq(Value)], point \in Point, InShape(point),
         NEW f \in Func, CanAdvance(f),
         NEW q \in Point, InShape(q), ComesBefore(q, Advanced(f))
  PROVE  q = point \/ ComesBefore(q, point)
<1>1. SUFFICES ASSUME q # point PROVE ComesBefore(q, point)
  OBVIOUS
<1>2. PICK d \in Func : point[d] # q[d] /\ \A g \in d + 1 .. NumFunctions : q[g] = point[g]
  BY <1>1, LastDifference
<1>3. PICK h \in Func : /\ q[h] < Advanced(f)[h]
                        /\ \A g \in h + 1 .. NumFunctions : q[g] = Advanced(f)[g]
  BY DEF ComesBefore
<1>4. \A g \in Func : point[g] \in Nat /\ q[g] \in Nat /\ Len(seqs[g]) \in Nat
                     /\ q[g] <= Len(seqs[g]) /\ point[g] <= Len(seqs[g])
  BY DEF Point, InShape
<1>5. \A g \in Func : Advanced(f)[g] = IF g < f THEN 0 ELSE IF g = f THEN point[g] + 1 ELSE point[g]
  BY DEF Advanced
<1>6. h >= f
  BY <1>3, <1>4, <1>5 DEF Func
<1>7. \A g \in Func : g < f => point[g] = Len(seqs[g])
  BY NWAssumption DEF CanAdvance, Func
<1>8. d \in Int /\ h \in Int /\ f \in Int /\ NumFunctions \in Nat
      /\ d <= NumFunctions /\ h <= NumFunctions /\ f <= NumFunctions
  BY NWAssumption DEF Func
<1>9. q[d] < point[d]
  <2>1. CASE d < f
    <3>1. point[d] = Len(seqs[d])
      BY <1>7, <2>1
    <3> QED BY <1>2, <1>4, <3>1
  <2>2. CASE d = f
    <3>1. CASE h = f
      BY <1>2, <1>3, <1>4, <1>5, <2>2, <3>1
    <3>2. CASE h > f
      <4>1. q[h] = point[h]
        BY <1>2, <1>8, <2>2, <3>2
      <4> QED BY <1>3, <1>4, <1>5, <1>8, <3>2, <4>1
    <3> QED BY <1>6, <1>8, <3>1, <3>2
  <2>3. CASE d > f
    <3>1. CASE h < d
      <4>1. d \in h + 1 .. NumFunctions
        BY <1>8, <3>1
      <4> QED BY <1>2, <1>3, <1>4, <1>5, <1>8, <2>3, <4>1
    <3>2. CASE h = d
      BY <1>2, <1>3, <1>4, <1>5, <1>8, <2>3, <3>2
    <3>3. CASE h > d
      <4>1. q[h] = point[h]
        BY <1>2, <1>8, <3>3
      <4> QED BY <1>3, <1>4, <1>5, <1>8, <2>3, <3>3, <4>1
    <3> QED BY <1>8, <3>1, <3>2, <3>3
  <2> QED BY <1>8, <2>1, <2>2, <2>3
<1> QED BY <1>2, <1>9 DEF ComesBefore

(***************************************************************************)
(* The inductive invariant                                                 *)
(***************************************************************************)
ShapeInv == InShape(point) /\ InShape(cursor)

(* A visited entry other than the origin's leads back into the table, and  *)
(* one that is marked as a match takes matching elements of all functions. *)
SoundEntry(q) ==
  table[q].visited /\ q # Origin =>
    /\ table[q].offset \in Offsets(q)
    /\ table[q].match => table[q].offset = Func /\ IsMatch(q)

TableInv == \A q \in Point : InShape(q) => SoundEntry(q)

(* What buildScoreTable has visited: the points up to the current one. *)
VisitedInv ==
  /\ pc = "linearized" => point = Origin
  /\ \A q \in Point :
       /\ pc = "fill" /\ InShape(q) /\ (q = point \/ ComesBefore(q, point)) =>
            table[q].visited
       /\ pc \in {"trace", "aligned"} /\ InShape(q) => table[q].visited

(* The alignment holds the elements behind the cursor, and no others. *)
BehindCursor ==
  /\ pc \in {"linearized", "fill", "rejected"} => alignment = << >>
  /\ pc = "aligned" => cursor = Origin
  /\ \A f \in Func, k \in DOMAIN alignment :
       \/ alignment[k].values[f] = 0
       \/ /\ alignment[k].values[f] > cursor[f]
          /\ alignment[k].values[f] <= Len(seqs[f])
  /\ pc \in {"trace", "aligned"} =>
       \A f \in Func : \A i \in cursor[f] + 1 .. Len(seqs[f]) :
         \E k \in DOMAIN alignment : alignment[k].values[f] = i

InOrder ==
  \A f \in Func : \A k, l \in DOMAIN alignment :
    k < l /\ alignment[k].values[f] # 0 =>
      alignment[l].values[f] < alignment[k].values[f]

IInv ==
  /\ TypeOK
  /\ ShapeInv
  /\ TableInv
  /\ VisitedInv
  /\ BehindCursor
  /\ InOrder
  /\ MatchedEntriesMatch

(***************************************************************************)
(* Types                                                                   *)
(***************************************************************************)
LEMMA Lengths ==
  ASSUME TypeOK
  PROVE  /\ seqs \in [Func -> Seq(Value)]
         /\ \A f \in Func : Len(seqs[f]) \in 0 .. MaxLength
         /\ Corner \in Point /\ InShape(Corner)
<1>1. \A f \in Func : seqs[f] \in Linearizations
  BY DEF TypeOK
<1>2. \A f \in Func : seqs[f] \in Seq(Value) /\ Len(seqs[f]) <= MaxLength
  BY <1>1, NWAssumption
<1>3. \A f \in Func : Len(seqs[f]) \in 0 .. MaxLength
  BY <1>2, NWAssumption
<1>4. seqs \in [Func -> Seq(Value)]
  BY <1>2 DEF TypeOK
<1>5. Corner \in Point /\ InShape(Corner)
  BY <1>3 DEF Corner, Point, InShape
<1> QED BY <1>3, <1>4, <1>5

LEMMA OriginProperties == Origin \in Point
BY NWAssumption DEF Origin, Point

LEMMA OriginInShape ==
  ASSUME TypeOK
  PROVE  InShape(Origin)
BY Lengths DEF Origin, InShape

LEMMA ScoreType ==
  ASSUME TypeOK, NEW p \in Point, NEW o \in Offsets(p)
  PROVE  TransitionScore(p, o) \in Int
<1>1. table[Minus(p, o)].score \in Int
  BY MinusComesBefore DEF TypeOK, Entry
<1>2. Cardinality(o) \in Nat
  <2>1. IsFiniteSet(Func)
    BY FS_Interval, NWAssumption DEF Func
  <2>2. o \subseteq Func
    BY DEF Offsets
  <2> QED BY <2>1, <2>2, FS_Subset, FS_CardinalityType
<1>3. MatchScore(p) \in Int
  BY DEF MatchScore, MatchProfit
<1>4. Similarity(p, o) \in Int
  BY <1>2, <1>3 DEF Similarity, GapPenalty, Mismatch, MinScore
<1> QED
  BY <1>1, <1>4 DEF TransitionScore, AddScore, MinScore, MaxScore

LEMMA AdvancedProperties ==
  ASSUME TypeOK, InShape(point), NEW f \in Func, CanAdvance(f)
  PROVE  Advanced(f) \in Point /\ InShape(Advanced(f)) /\ Advanced(f) # Origin
<1>1. \A g \in Func : Len(seqs[g]) \in 0 .. MaxLength /\ point[g] \in Nat
          /\ point[g] <= Len(seqs[g])
  BY Lengths DEF TypeOK, Point, InShape
<1>2. \A g \in Func : Advanced(f)[g] = IF g < f THEN 0 ELSE IF g = f THEN point[g] + 1 ELSE point[g]
  BY DEF Advanced
<1>3. point[f] < Len(seqs[f])
  BY DEF CanAdvance
<1>4. \A g \in Func : Advanced(f)[g] \in Nat /\ Advanced(f)[g] <= Len(seqs[g])
  BY <1>1, <1>2, <1>3
<1>5. \A g \in Func : Advanced(f)[g] \in 0 .. MaxLength
  BY <1>1, <1>4, NWAssumption
<1>6. Advanced(f) \in Point
  BY <1>5 DEF Advanced, Point
<1>7. InShape(Advanced(f))
  BY <1>4 DEF InShape
<1>8. Advanced(f)[f] = point[f] + 1
  BY <1>2, NWAssumption DEF Func
<1>9. Advanced(f)[f] # Origin[f]
  BY <1>1, <1>8 DEF Origin
<1> QED BY <1>6, <1>7, <1>9

(* Each action keeps the types. *)
LEMMA TypeOKNext ==
  ASSUME TypeOK, ShapeInv, TableInv, VisitedInv, [Next]_vars
  PROVE  TypeOK'
<1>1. CASE Reject
  BY <1>1 DEF TypeOK, Reject
<1>2. CASE InitScoreTable
  <2>1. \A p \in Point : table'[p] \in Entry
    <3> SUFFICES ASSUME NEW p \in Point PROVE table'[p] \in Entry
      OBVIOUS
    <3>1. table[p] \in Entry
      BY DEF TypeOK
    <3>2. CASE p = Origin
      BY <1>2, <3>2 DEF InitScoreTable, Transition, Entry
    <3>3. CASE p # Origin /\ InShape(p) /\ \E f \in Func : \A g \in Func \ {f} : p[g] = 0
      <4> DEFINE d == CHOOSE g \in Func : p[g] # 0
      <4>1. \E g \in Func : p[g] # 0
        BY <3>3 DEF Point, Origin
      <4>2. d \in Func
        BY <4>1
      <4>3. table'[p] = Transition({d}, FALSE, GapPenalty * p[d])
        BY <1>2, <3>3 DEF InitScoreTable
      <4> HIDE DEF d
      <4>4. GapPenalty * p[d] \in Int
        BY <4>2 DEF GapPenalty, Point
      <4> QED BY <4>2, <4>3, <4>4 DEF Transition, Entry
    <3>4. CASE p # Origin /\ ~ (InShape(p) /\ \E f \in Func : \A g \in Func \ {f} : p[g] = 0)
      BY <1>2, <3>1, <3>4 DEF InitScoreTable
    <3> QED BY <3>2, <3>3, <3>4
  <2>2. table' \in [Point -> Entry]
    BY <1>2, <2>1 DEF InitScoreTable
  <2> QED BY <1>2, <2>2 DEF TypeOK, InitScoreTable
<1>3. ASSUME NEW f \in Func, NEW o \in SUBSET Func, FillPoint(f, o)
      PROVE  TypeOK'
  <2> DEFINE p == Advanced(f)
             m == o = Func /\ IsMatch(p)
             t == TransitionScore(p, o)
  <2>1. p \in Point /\ InShape(p)
    BY <1>3, AdvancedProperties DEF FillPoint, ShapeInv
  <2>2. o \in Offsets(p)
    BY <1>3 DEF FillPoint, IsBestTransition
  <2>3. t \in Int
    BY <2>1, <2>2, ScoreType
  <2>4. point' = p /\ index' = index + 1 /\ UNCHANGED <<seqs, cursor, alignment, pc>>
        /\ table' = [table EXCEPT ![p] = Transition(o, m, t)]
    BY <1>3 DEF FillPoint
  <2>5. m \in BOOLEAN
    OBVIOUS
  <2> HIDE DEF p, m, t
  <2>6. Transition(o, m, t) \in Entry
    BY <2>3, <2>5 DEF Transition, Entry
  <2>7. table' \in [Point -> Entry]
    BY <2>4, <2>6 DEF TypeOK
  <2> QED BY <2>1, <2>4, <2>7 DEF TypeOK
<1>4. CASE EndFill
  BY <1>4, OriginProperties, Lengths DEF TypeOK, EndFill
<1>5. CASE TraceBack
  <2> DEFINE o == table[cursor].offset
             c == [values |-> [f \in Func |-> IF f \in o THEN cursor[f] ELSE 0],
                   match |-> table[cursor].match]
  <2>1. pc = "trace" /\ cursor # Origin /\ cursor \in Point /\ InShape(cursor)
    BY <1>5 DEF TraceBack, TypeOK, ShapeInv
  <2>2. o \in Offsets(cursor)
    BY <2>1 DEF VisitedInv, TableInv, SoundEntry
  <2>3. Minus(cursor, o) \in Point
    BY <2>1, <2>2, MinusComesBefore
  <2>4. c \in Column
    <3>1. table[cursor].match \in BOOLEAN
      BY <2>1 DEF TypeOK, Entry
    <3>2. \A f \in Func : cursor[f] \in Nat
      BY <2>1 DEF Point
    <3>3. [f \in Func |-> IF f \in o THEN cursor[f] ELSE 0] \in [Func -> Nat]
      BY <3>2
    <3> QED BY <3>1, <3>3 DEF Column
  <2>5. alignment' = Append(alignment, c) /\ cursor' = Minus(cursor, o)
        /\ UNCHANGED <<seqs, table, point, index, pc>>
    BY <1>5 DEF TraceBack
  <2> HIDE DEF o, c
  <2>6. alignment' \in Seq(Column)
    BY <2>4, <2>5 DEF TypeOK
  <2> QED BY <2>3, <2>5, <2>6 DEF TypeOK
<1>6. CASE EndTrace
  BY <1>6 DEF TypeOK, EndTrace
<1>7. CASE UNCHANGED vars
  BY <1>7 DEF TypeOK, vars
<1> QED BY <1>1, <1>2, <1>3, <1>4, <1>5, <1>6, <1>7 DEF Next, Fill

(***************************************************************************)
(* The table                                                               *)
(***************************************************************************)

(* The functions never change, and what is said about them with them. *)
LEMMA SeqsConstant ==
  ASSUME [Next]_vars
  PROVE  /\ seqs' = seqs
         /\ \A p : InShape(p)' <=> InShape(p)
         /\ \A p : IsMatch(p)' <=> IsMatch(p)
<1>1. seqs' = seqs
  BY DEF Next, vars, Reject, InitScoreTable, Fill, FillPoint, EndFill, TraceBack, EndTrace
<1> QED BY <1>1 DEF InShape, IsMatch

LEMMA ShapeInvNext ==
  ASSUME TypeOK, ShapeInv, TableInv, VisitedInv, [Next]_vars
  PROVE  ShapeInv'
<1>1. \A p : InShape(p)' <=> InShape(p)
  BY SeqsConstant
<1>2. CASE UNCHANGED <<point, cursor>>
  BY <1>1, <1>2 DEF ShapeInv
<1>3. ASSUME NEW f \in Func, NEW o \in SUBSET Func, FillPoint(f, o)
      PROVE  ShapeInv'
  <2>1. InShape(Advanced(f))
    BY <1>3, AdvancedProperties DEF FillPoint, ShapeInv
  <2>2. point' = Advanced(f) /\ cursor' = cursor
    BY <1>3 DEF FillPoint
  <2>3. InShape(point)' /\ InShape(cursor)'
    BY <2>1, <2>2, SeqsConstant DEF ShapeInv, InShape
  <2> QED BY <2>3 DEF ShapeInv
<1>4. CASE EndFill
  <2>1. point' = Origin /\ cursor' = Corner
    BY <1>4 DEF EndFill
  <2> QED BY <2>1, Lengths, OriginInShape, SeqsConstant DEF ShapeInv, InShape
<1>5. CASE TraceBack
  <2>1. cursor' = Minus(cursor, table[cursor].offset) /\ point' = point
    BY <1>5 DEF TraceBack
  <2>2. \A f \in Func : cursor'[f] <= cursor[f]
    BY <2>1 DEF Minus, TypeOK, Point
  <2>3. \A f \in Func : cursor[f] <= Len(seqs[f]) /\ cursor[f] \in Nat /\ cursor'[f] \in Int
                        /\ Len(seqs[f]) \in Nat
    BY <2>1, Lengths DEF Minus, ShapeInv, InShape, TypeOK, Point
  <2>4. \A f \in Func : cursor'[f] <= Len(seqs[f])
    BY <2>2, <2>3
  <2> QED BY <2>1, <2>4, SeqsConstant DEF ShapeInv, InShape
<1>6. CASE Reject \/ InitScoreTable \/ EndTrace \/ UNCHANGED vars
  BY <1>2, <1>6 DEF Reject, InitScoreTable, EndTrace, vars
<1> QED BY <1>3, <1>4, <1>5, <1>6 DEF Next, Fill

LEMMA TableInvNext ==
  ASSUME TypeOK, ShapeInv, TableInv, [Next]_vars
  PROVE  TableInv'
<1>1. \A q : (InShape(q)' <=> InShape(q)) /\ (IsMatch(q)' <=> IsMatch(q))
  BY SeqsConstant
<1> SUFFICES ASSUME NEW q \in Point, InShape(q) PROVE SoundEntry(q)'
  BY <1>1 DEF TableInv
<1>2. SoundEntry(q)
  BY DEF TableInv
<1>3. CASE table'[q] = table[q]
  BY <1>1, <1>2, <1>3 DEF SoundEntry
<1>4. CASE InitScoreTable
  <2>1. CASE q = Origin
    BY <2>1 DEF SoundEntry
  <2>2. CASE q # Origin /\ \E f \in Func : \A g \in Func \ {f} : q[g] = 0
    <3> DEFINE d == CHOOSE g \in Func : q[g] # 0
    <3>1. \E g \in Func : q[g] # 0
      BY <2>2 DEF Point, Origin
    <3>2. d \in Func /\ q[d] # 0
      BY <3>1
    <3>3. table'[q] = Transition({d}, FALSE, GapPenalty * q[d])
      BY <1>4, <2>2 DEF InitScoreTable
    <3> HIDE DEF d
    <3>4. {d} \in Offsets(q)
      BY <3>2 DEF Offsets, Point
    <3> QED BY <3>3, <3>4 DEF SoundEntry, Transition
  <2>3. CASE q # Origin /\ ~ \E f \in Func : \A g \in Func \ {f} : q[g] = 0
    BY <1>3, <1>4, <2>3 DEF InitScoreTable
  <2> QED BY <2>1, <2>2, <2>3
<1>5. ASSUME NEW f \in Func, NEW o \in SUBSET Func, FillPoint(f, o)
      PROVE  SoundEntry(q)'
  <2>1. Advanced(f) \in Point
    BY <1>5, AdvancedProperties DEF FillPoint, ShapeInv
  <2>2. table' = [table EXCEPT ![Advanced(f)] =
          Transition(o, o = Func /\ IsMatch(Advanced(f)), TransitionScore(Advanced(f), o))]
    BY <1>5 DEF FillPoint
  <2>3. CASE q # Advanced(f)
    BY <1>3, <2>2, <2>3 DEF TypeOK
  <2>4. CASE q = Advanced(f)
    <3>1. o \in Offsets(q)
      BY <1>5, <2>4 DEF FillPoint, IsBestTransition
    <3>2. table'[q].offset = o /\ (table'[q].match <=> o = Func /\ IsMatch(q))
      BY <2>1, <2>2, <2>4 DEF TypeOK, Transition
    <3> QED BY <1>1, <3>1, <3>2 DEF SoundEntry
  <2> QED BY <2>3, <2>4
<1>6. CASE Reject \/ EndFill \/ TraceBack \/ EndTrace \/ UNCHANGED vars
  BY <1>3, <1>6 DEF Reject, EndFill, TraceBack, EndTrace, vars
<1> QED BY <1>4, <1>5, <1>6 DEF Next, Fill

(* The predecessors of the point that is computed next have been visited. *)
LEMMA PredecessorsVisited ==
  ASSUME TypeOK, ShapeInv, VisitedInv, pc = "fill",
         NEW f \in Func, CanAdvance(f), NEW o \in Offsets(Advanced(f))
  PROVE  table[Minus(Advanced(f), o)].visited
<1> DEFINE q == Minus(Advanced(f), o)
<1>1. Advanced(f) \in Point /\ InShape(Advanced(f))
  BY AdvancedProperties DEF ShapeInv
<1>2. q \in Point /\ ComesBefore(q, Advanced(f))
  BY <1>1, MinusComesBefore
<1>3. InShape(q)
  <2>1. \A g \in Func : q[g] <= Advanced(f)[g]
    BY <1>1 DEF Minus, Point
  <2>2. \A g \in Func : q[g] \in Int /\ Advanced(f)[g] \in Int /\ Len(seqs[g]) \in Int
                        /\ Advanced(f)[g] <= Len(seqs[g])
    BY <1>1, <1>2, Lengths DEF Point, InShape
  <2>3. \A g \in Func : q[g] <= Len(seqs[g])
    BY <2>1, <2>2
  <2> QED BY <2>3 DEF InShape
<1>4. q = point \/ ComesBefore(q, point)
  BY <1>1, <1>2, <1>3, NothingBetween, Lengths DEF TypeOK, ShapeInv
<1> QED BY <1>2, <1>3, <1>4 DEF VisitedInv

(* Nothing comes before the origin. *)
LEMMA OriginFirst ==
  ASSUME NEW q \in Point
  PROVE  ~ ComesBefore(q, Origin)
BY DEF ComesBefore, Origin, Point

LEMMA VisitedInvNext ==
  ASSUME TypeOK, ShapeInv, VisitedInv, [Next]_vars
  PROVE  VisitedInv'
<1>1. \A q : InShape(q)' <=> InShape(q)
  BY SeqsConstant
<1>2. CASE Reject
  BY <1>2 DEF VisitedInv, Reject
<1>3. CASE InitScoreTable
  <2>1. pc' = "fill" /\ point' = point /\ point = Origin
    BY <1>3 DEF InitScoreTable, VisitedInv
  <2> SUFFICES ASSUME NEW q \in Point, q = Origin \/ ComesBefore(q, Origin)
               PROVE  table'[q].visited
    BY <2>1 DEF VisitedInv, ComesBefore
  <2>2. q = Origin
    BY OriginFirst
  <2> QED BY <1>3, <2>2 DEF InitScoreTable, Transition
<1>4. ASSUME NEW f \in Func, NEW o \in SUBSET Func, FillPoint(f, o)
      PROVE  VisitedInv'
  <2> SUFFICES ASSUME NEW q \in Point, InShape(q), q = Advanced(f) \/ ComesBefore(q, Advanced(f))
               PROVE  table'[q].visited
    BY <1>1, <1>4 DEF VisitedInv, FillPoint, ComesBefore
  <2>1. Advanced(f) \in Point /\ CanAdvance(f) /\ pc = "fill"
    BY <1>4, AdvancedProperties DEF FillPoint, ShapeInv
  <2>2. table' = [table EXCEPT ![Advanced(f)] =
          Transition(o, o = Func /\ IsMatch(Advanced(f)), TransitionScore(Advanced(f), o))]
    BY <1>4 DEF FillPoint
  <2>3. CASE q = Advanced(f)
    BY <2>1, <2>2, <2>3 DEF TypeOK, Transition
  <2>4. CASE q # Advanced(f)
    <3>1. q = point \/ ComesBefore(q, point)
      BY <2>1, <2>4, NothingBetween, Lengths DEF TypeOK, ShapeInv
    <3>2. table[q].visited
      BY <2>1, <3>1 DEF VisitedInv
    <3> QED BY <2>2, <2>4, <3>2 DEF TypeOK
  <2> QED BY <2>3, <2>4
<1>5. CASE EndFill
  <2> SUFFICES ASSUME NEW q \in Point, InShape(q) PROVE table[q].visited
    BY <1>1, <1>5 DEF VisitedInv, EndFill
  <2>1. CASE q = point
    BY <1>5, <2>1 DEF VisitedInv, EndFill
  <2>2. CASE q # point
    <3>1. PICK h \in Func : point[h] # q[h] /\ \A g \in h + 1 .. NumFunctions : q[g] = point[g]
      BY <2>2, LastDifference DEF TypeOK
    <3>2. q[h] < point[h]
      BY <1>5, <3>1, Lengths DEF EndFill, InShape, Point
    <3>3. ComesBefore(q, point)
      BY <3>1, <3>2 DEF ComesBefore
    <3> QED BY <1>5, <3>3 DEF VisitedInv, EndFill
  <2> QED BY <2>1, <2>2
<1>6. CASE TraceBack \/ EndTrace
  BY <1>1, <1>6 DEF VisitedInv, TraceBack, EndTrace
<1>7. CASE UNCHANGED vars
  BY <1>1, <1>7 DEF VisitedInv, vars, ComesBefore
<1> QED BY <1>2, <1>3, <1>4, <1>5, <1>6, <1>7 DEF Next, Fill

(***************************************************************************)
(* The alignment                                                           *)
(***************************************************************************)

(* What a step of buildAlignment appends. *)
LEMMA TraceBackStep ==
  ASSUME TypeOK, ShapeInv, TableInv, VisitedInv, TraceBack
  PROVE  \E c \in Column, o \in Offsets(cursor) :
           /\ alignment' = Append(alignment, c)
           /\ cursor' = Minus(cursor, o)
           /\ c.values = [f \in Func |-> IF f \in o THEN cursor[f] ELSE 0]
           /\ c.match => o = Func /\ IsMatch(cursor)
<1> DEFINE o == table[cursor].offset
           v == [f \in Func |-> IF f \in o THEN cursor[f] ELSE 0]
           c == [values |-> v, match |-> table[cursor].match]
<1>1. pc = "trace" /\ cursor # Origin /\ cursor \in Point /\ InShape(cursor)
  BY DEF TraceBack, TypeOK, ShapeInv
<1>2. o \in Offsets(cursor) /\ (table[cursor].match => o = Func /\ IsMatch(cursor))
  BY <1>1 DEF VisitedInv, TableInv, SoundEntry
<1>3. c \in Column
  <2>1. table[cursor].match \in BOOLEAN
    BY <1>1 DEF TypeOK, Entry
  <2>2. \A f \in Func : cursor[f] \in Nat
    BY <1>1 DEF Point
  <2>3. v \in [Func -> Nat]
    BY <2>2
  <2> HIDE DEF v
  <2> QED BY <2>1, <2>3 DEF Column
<1>4. alignment' = Append(alignment, c) /\ cursor' = Minus(cursor, o)
  BY DEF TraceBack
<1>5. c.values = v /\ c.match = table[cursor].match
  OBVIOUS
<1> HIDE DEF c, o
<1> QED BY <1>2, <1>3, <1>4, <1>5

LEMMA BehindCursorNext ==
  ASSUME TypeOK, ShapeInv, TableInv, VisitedInv, BehindCursor, [Next]_vars
  PROVE  BehindCursor'
<1>1. seqs' = seqs
  BY SeqsConstant
<1>2. CASE Reject \/ InitScoreTable \/ Fill
  BY <1>1, <1>2 DEF BehindCursor, Reject, InitScoreTable, Fill, FillPoint
<1>3. CASE EndFill
  <2>1. alignment = << >> /\ alignment' = << >> /\ cursor' = Corner /\ pc' = "trace"
    BY <1>3 DEF EndFill, BehindCursor
  <2>2. \A f \in Func : cursor'[f] = Len(seqs[f]) /\ Len(seqs[f]) \in Nat
    BY <2>1, Lengths DEF Corner
  <2>3. \A f \in Func : cursor'[f] + 1 .. Len(seqs[f]) = {}
    BY <2>2
  <2> QED BY <1>1, <2>1, <2>3 DEF BehindCursor
<1>4. CASE TraceBack
  <2>1. PICK c \in Column, o \in Offsets(cursor) :
           /\ alignment' = Append(alignment, c)
           /\ cursor' = Minus(cursor, o)
           /\ c.values = [f \in Func |-> IF f \in o THEN cursor[f] ELSE 0]
    BY <1>4, TraceBackStep
  <2>2. pc = "trace" /\ pc' = "trace"
    BY <1>4 DEF TraceBack
  <2>3. \A f \in Func : /\ cursor[f] \in Nat /\ cursor[f] <= Len(seqs[f])
                        /\ Len(seqs[f]) \in Nat
                        /\ cursor'[f] = IF f \in o THEN cursor[f] - 1 ELSE cursor[f]
                        /\ c.values[f] = IF f \in o THEN cursor[f] ELSE 0
    BY <2>1, Lengths DEF TypeOK, Point, ShapeInv, InShape, Minus
  <2>4. /\ alignment \in Seq(Column) /\ Len(alignment) \in Nat
        /\ DOMAIN alignment = 1 .. Len(alignment)
        /\ DOMAIN alignment' = 1 .. Len(alignment) + 1
        /\ \A k \in 1 .. Len(alignment) : alignment'[k] = alignment[k]
        /\ alignment'[Len(alignment) + 1] = c
    BY <2>1 DEF TypeOK
  <2>5. \A f \in Func, k \in DOMAIN alignment' :
          \/ alignment'[k].values[f] = 0
          \/ /\ alignment'[k].values[f] > cursor'[f]
             /\ alignment'[k].values[f] <= Len(seqs[f])
    <3> SUFFICES ASSUME NEW f \in Func, NEW k \in DOMAIN alignment',
                        alignment'[k].values[f] # 0
                 PROVE  /\ alignment'[k].values[f] > cursor'[f]
                        /\ alignment'[k].values[f] <= Len(seqs[f])
      OBVIOUS
    <3>1. CASE k = Len(alignment) + 1
      BY <2>3, <2>4, <3>1
    <3>2. CASE k \in DOMAIN alignment
      <4>1. /\ alignment[k].values[f] > cursor[f]
            /\ alignment[k].values[f] <= Len(seqs[f])
            /\ alignment'[k].values[f] = alignment[k].values[f]
        BY <2>4, <3>2 DEF BehindCursor
      <4>2. alignment[k].values[f] \in Nat
        <5>1. alignment[k] \in Column
          BY <2>4, <3>2
        <5> QED BY <5>1 DEF Column
      <4> QED BY <2>3, <4>1, <4>2
    <3> QED BY <2>4, <3>1, <3>2
  <2>6. \A f \in Func : \A i \in cursor'[f] + 1 .. Len(seqs[f]) :
          \E k \in DOMAIN alignment' : alignment'[k].values[f] = i
    <3> SUFFICES ASSUME NEW f \in Func, NEW i \in cursor'[f] + 1 .. Len(seqs[f])
                 PROVE  \E k \in DOMAIN alignment' : alignment'[k].values[f] = i
      OBVIOUS
    <3>1. CASE i \in cursor[f] + 1 .. Len(seqs[f])
      <4>1. PICK k \in DOMAIN alignment : alignment[k].values[f] = i
        BY <2>2, <3>1 DEF BehindCursor
      <4> QED BY <2>4, <4>1
    <3>2. CASE i \notin cursor[f] + 1 .. Len(seqs[f])
      <4>1. f \in o /\ i = cursor[f]
        BY <2>3, <3>2
      <4> QED BY <2>3, <2>4, <4>1
    <3> QED BY <3>1, <3>2
  <2> QED BY <1>1, <2>2, <2>5, <2>6 DEF BehindCursor
<1>5. CASE EndTrace
  BY <1>1, <1>5 DEF BehindCursor, EndTrace
<1>6. CASE UNCHANGED vars
  BY <1>1, <1>6 DEF BehindCursor, vars
<1> QED BY <1>2, <1>3, <1>4, <1>5, <1>6 DEF Next

LEMMA InOrderNext ==
  ASSUME TypeOK, ShapeInv, TableInv, VisitedInv, BehindCursor, InOrder, [Next]_vars
  PROVE  InOrder'
<1>1. CASE UNCHANGED alignment
  BY <1>1 DEF InOrder
<1>2. CASE TraceBack
  <2>1. PICK c \in Column, o \in Offsets(cursor) :
           /\ alignment' = Append(alignment, c)
           /\ c.values = [f \in Func |-> IF f \in o THEN cursor[f] ELSE 0]
    BY <1>2, TraceBackStep
  <2>2. /\ alignment \in Seq(Column) /\ Len(alignment) \in Nat
        /\ DOMAIN alignment = 1 .. Len(alignment)
        /\ DOMAIN alignment' = 1 .. Len(alignment) + 1
        /\ \A k \in 1 .. Len(alignment) : alignment'[k] = alignment[k]
        /\ alignment'[Len(alignment) + 1] = c
    BY <2>1 DEF TypeOK
  <2> SUFFICES ASSUME NEW f \in Func, NEW k \in DOMAIN alignment', NEW l \in DOMAIN alignment',
                      k < l, alignment'[k].values[f] # 0
               PROVE  alignment'[l].values[f] < alignment'[k].values[f]
    BY DEF InOrder
  <2>3. k \in DOMAIN alignment /\ alignment'[k] = alignment[k]
    BY <2>2
  <2>4. alignment[k].values[f] > cursor[f] /\ cursor[f] \in Nat
    BY <2>3 DEF BehindCursor, TypeOK, Point
  <2>5. alignment[k].values[f] \in Nat
    <3>1. alignment[k] \in Column
      BY <2>2, <2>3
    <3> QED BY <3>1 DEF Column
  <2>6. CASE l = Len(alignment) + 1
    BY <2>1, <2>2, <2>3, <2>4, <2>5, <2>6
  <2>7. CASE l \in DOMAIN alignment
    BY <2>2, <2>3, <2>7 DEF InOrder
  <2> QED BY <2>2, <2>6, <2>7
<1> QED BY <1>1, <1>2 DEF Next, vars, Reject, InitScoreTable, Fill, FillPoint, EndFill, EndTrace

LEMMA MatchedEntriesMatchNext ==
  ASSUME TypeOK, ShapeInv, TableInv, VisitedInv, MatchedEntriesMatch, [Next]_vars
  PROVE  MatchedEntriesMatch'
<1>1. seqs' = seqs
  BY SeqsConstant
<1>2. CASE UNCHANGED alignment
  BY <1>1, <1>2 DEF MatchedEntriesMatch, IsMatch
<1>3. CASE TraceBack
  <2>1. PICK c \in Column, o \in Offsets(cursor) :
           /\ alignment' = Append(alignment, c)
           /\ c.values = [f \in Func |-> IF f \in o THEN cursor[f] ELSE 0]
           /\ c.match => o = Func /\ IsMatch(cursor)
    BY <1>3, TraceBackStep
  <2>2. /\ alignment \in Seq(Column)
        /\ DOMAIN alignment = 1 .. Len(alignment)
        /\ DOMAIN alignment' = 1 .. Len(alignment) + 1
        /\ \A k \in 1 .. Len(alignment) : alignment'[k] = alignment[k]
        /\ alignment'[Len(alignment) + 1] = c
    BY <2>1 DEF TypeOK
  <2>3. o # {} /\ o \subseteq Func /\ \A f \in o : cursor[f] \in 1 .. Len(seqs[f])
    BY Lengths DEF Offsets, TypeOK, Point, ShapeInv, InShape
  <2>4. \E f \in Func : c.values[f] \in 1 .. Len(seqs[f])
    BY <2>1, <2>3
  <2>5. c.match => (\A f \in Func : c.values[f] \in 1 .. Len(seqs[f])) /\ IsMatch(c.values)
    <3> SUFFICES ASSUME c.match
                 PROVE  (\A f \in Func : c.values[f] \in 1 .. Len(seqs[f])) /\ IsMatch(c.values)
      OBVIOUS
    <3>1. o = Func /\ IsMatch(cursor)
      BY <2>1
    <3>2. c.values = cursor
      BY <2>1, <3>1 DEF TypeOK, Point
    <3> QED BY <2>3, <3>1, <3>2
  <2> SUFFICES ASSUME NEW k \in DOMAIN alignment'
               PROVE  /\ \E f \in Func : alignment'[k].values[f] \in 1 .. Len(seqs[f])
                      /\ alignment'[k].match =>
                           /\ \A f \in Func : alignment'[k].values[f] \in 1 .. Len(seqs[f])
                           /\ IsMatch(alignment'[k].values)
    BY <1>1 DEF MatchedEntriesMatch, IsMatch
  <2>6. CASE k = Len(alignment) + 1
    BY <2>2, <2>4, <2>5, <2>6
  <2>7. CASE k \in DOMAIN alignment
    BY <2>2, <2>7 DEF MatchedEntriesMatch
  <2> QED BY <2>2, <2>6, <2>7
<1> QED BY <1>2, <1>3 DEF Next, vars, Reject, InitScoreTable, Fill, FillPoint, EndFill, EndTrace

(***************************************************************************)
(* Theorems                                                                *)
(***************************************************************************)
LEMMA InitIInv == Init => IInv
<1> SUFFICES ASSUME Init PROVE IInv
  OBVIOUS
<1>1. TypeOK
  <2>1. Unvisited \in Entry
    BY DEF Unvisited, Entry
  <2>2. table \in [Point -> Entry]
    BY <2>1 DEF Init
  <2> QED BY <2>2, OriginProperties DEF Init, TypeOK
<1>2. ShapeInv
  BY <1>1, OriginInShape DEF Init, ShapeInv
<1>3. TableInv
  BY DEF Init, TableInv, SoundEntry, Unvisited
<1>4. VisitedInv
  BY DEF Init, VisitedInv
<1>5. BehindCursor /\ InOrder /\ MatchedEntriesMatch
  BY DEF Init, BehindCursor, InOrder, MatchedEntriesMatch
<1> QED BY <1>1, <1>2, <1>3, <1>4, <1>5 DEF IInv

LEMMA Inductive == Spec => []IInv
<1>1. Init => IInv
  BY InitIInv
<1>2. IInv /\ [Next]_vars => IInv'
  BY TypeOKNext, ShapeInvNext, TableInvNext, VisitedInvNext, BehindCursorNext,
     InOrderNext, MatchedEntriesMatchNext DEF IInv
<1> QED BY <1>1, <1>2, PTL DEF Spec

(* The aligner's variables keep their types: no cursor leaves the table. *)
THEOREM TypeCorrect == Spec => []TypeOK
<1>1. IInv => TypeOK
  BY DEF IInv
<1> QED BY <1>1, Inductive, PTL

(* The asserts of computeBestTransition and buildAlignment never fail. *)
THEOREM NoAssertFails == Spec => []AssertionsHold
<1>1. IInv => AssertionsHold
  <2> SUFFICES ASSUME IInv PROVE AssertionsHold
    OBVIOUS
  <2>1. ASSUME pc = "fill", NEW f \in Func, CanAdvance(f), NEW o \in Offsets(Advanced(f))
        PROVE  table[Minus(Advanced(f), o)].visited
    BY <2>1, PredecessorsVisited DEF IInv
  <2>2. ASSUME pc = "trace", cursor # Origin
        PROVE  table[cursor].visited /\ table[cursor].offset \in Offsets(cursor)
    BY <2>2 DEF IInv, TypeOK, ShapeInv, VisitedInv, TableInv, SoundEntry
  <2> QED BY <2>1, <2>2 DEF AssertionsHold
<1> QED BY <1>1, Inductive, PTL

(* The alignment holds every element of every function exactly once and in  *)
(* order (buildAlignment).                                                 *)
THEOREM AlignmentIsComplete == Spec => []AlignsEveryInstruction
<1>1. IInv => AlignsEveryInstruction
  <2> SUFFICES ASSUME IInv PROVE AlignsEveryInstruction
    OBVIOUS
  <2>1. ASSUME pc = "aligned", NEW f \in Func, NEW i \in 1 .. Len(seqs[f])
        PROVE  \E k \in DOMAIN alignment : alignment[k].values[f] = i
    <3>1. cursor[f] = 0
      BY <2>1 DEF IInv, BehindCursor, Origin
    <3>2. i \in cursor[f] + 1 .. Len(seqs[f])
      BY <3>1
    <3> QED BY <2>1, <3>2 DEF IInv, BehindCursor
  <2> QED BY <2>1 DEF IInv, InOrder, AlignsEveryInstruction
<1> QED BY <1>1, Inductive, PTL

(* An entry that says its instructions match holds one of every function,   *)
(* and they do match: what the code generator merges may be merged.         *)
THEOREM MatchesAreTrue == Spec => []MatchedEntriesMatch
<1>1. IInv => MatchedEntriesMatch
  BY DEF IInv
<1> QED BY <1>1, Inductive, PTL

(***************************************************************************)
(* The alignment is the best one.  The score of an entry is that of the    *)
(* best alignment of the elements up to its point, by induction on their   *)
(* number; the way back collects the score of the far corner.              *)
(***************************************************************************)

(* No score comes near the limits where addScore saturates: the functions   *)
(* have less than MaxScore / 4 elements together.                          *)
ScoresFit ==
  \A s \in [Func -> Linearizations] :
    4 * SumFunctionOnSet([f \in Func |-> Len(s[f])], Func) < MaxScore

(* The entry has the greatest of the scores of the transitions. *)
BestEntry(p) ==
  LET entry == table[p] IN
  /\ entry.offset \in Offsets(p)
  /\ entry.match <=> entry.offset = Func /\ IsMatch(p)
  /\ entry.score = TransitionScore(p, entry.offset)
  /\ \A o \in Offsets(p) : TransitionScore(p, o) <= entry.score

(* The points whose entries are final. *)
Computed(p) ==
  \/ pc = "fill" /\ (p = point \/ ComesBefore(p, point))
  \/ pc \in {"trace", "aligned"}

BestInv ==
  /\ pc \in {"fill", "trace", "aligned"} => table[Origin].score = 0
  /\ \A p \in Point : InShape(p) /\ Computed(p) /\ p # Origin => BestEntry(p)

(* The entries of the alignment so far and the way that is left add up to   *)
(* the score of the far corner.                                            *)
TotalScore == SumFunction([k \in DOMAIN alignment |-> EntryScore(alignment[k])])

ScoreInv ==
  pc \in {"trace", "aligned"} => TotalScore + table[cursor].score = table[Corner].score

(* The elements up to a point, and the alignments of them. *)
Length(p) == SumFunctionOnSet(p, Func)
Profits == [p \in Point |-> MatchScore(p)]
ScoreUpTo(C, p) ==
  SumFunctionOnSet(Profits, C) + GapPenalty * (Length(p) - NumFunctions * Cardinality(C))
ChainsUpTo(p) == {C \in Chains : \A q \in C, f \in Func : q[f] <= p[f]}

OptimalEntry(p) ==
  /\ \E C \in ChainsUpTo(p) : ScoreUpTo(C, p) = table[p].score
  /\ \A C \in ChainsUpTo(p) : ScoreUpTo(C, p) <= table[p].score

(* The order of the points. *)
LEMMA ComesBeforeOrder ==
  ASSUME NEW p \in Point, NEW q \in Point, NEW r \in Point,
         ComesBefore(p, q), q = r \/ ComesBefore(q, r)
  PROVE  ComesBefore(p, r) /\ p # r
<1>1. \A f \in Func : p[f] \in Int /\ q[f] \in Int /\ r[f] \in Int
  BY DEF Point
<1>2. PICK h \in Func : p[h] < q[h] /\ \A g \in h + 1 .. NumFunctions : p[g] = q[g]
  BY DEF ComesBefore
<1>3. CASE q = r
  BY <1>1, <1>2, <1>3 DEF ComesBefore
<1>4. CASE ComesBefore(q, r)
  <2>1. PICK i \in Func : q[i] < r[i] /\ \A g \in i + 1 .. NumFunctions : q[g] = r[g]
    BY <1>4 DEF ComesBefore
  <2>2. h \in Int /\ i \in Int /\ NumFunctions \in Int /\ h <= NumFunctions /\ i <= NumFunctions
    BY NWAssumption DEF Func
  <2> DEFINE m == IF h < i THEN i ELSE h
  <2>3. m \in Func /\ p[m] < r[m]
    <3>1. CASE h < i
      <4>1. i \in h + 1 .. NumFunctions
        BY <2>2, <3>1
      <4>2. p[i] = q[i]
        BY <1>2, <4>1
      <4>3. QED BY <1>1, <2>1, <3>1, <4>2
    <3>2. CASE h > i
      <4>1. h \in i + 1 .. NumFunctions
        BY <2>2, <3>2
      <4>2. q[h] = r[h]
        BY <2>1, <4>1
      <4>3. QED BY <1>1, <1>2, <2>2, <3>2, <4>2
    <3>3. CASE h = i
      BY <1>1, <1>2, <2>1, <3>3
    <3>4. QED BY <2>2, <3>1, <3>2, <3>3
  <2>4. ASSUME NEW g \in m + 1 .. NumFunctions PROVE p[g] = r[g]
    <3>1. g \in h + 1 .. NumFunctions /\ g \in i + 1 .. NumFunctions
      BY <2>2
    <3>2. QED BY <1>2, <2>1, <3>1
  <2> HIDE DEF m
  <2>5. ComesBefore(p, r)
    BY <2>3, <2>4 DEF ComesBefore
  <2>6. QED BY <1>1, <2>3, <2>5
<1>5. QED BY <1>3, <1>4

LEMMA AdvancedIsNext ==
  ASSUME TypeOK, ShapeInv, NEW f \in Func, CanAdvance(f)
  PROVE  ComesBefore(point, Advanced(f))
<1>1. \A g \in f + 1 .. NumFunctions : g \in Func /\ g # f /\ ~ (g < f)
  BY NWAssumption DEF Func
<1>2. ~ (f < f) /\ point[f] \in Int
  BY NWAssumption DEF Func, TypeOK, Point
<1>3. point[f] < Advanced(f)[f]
  BY <1>2 DEF Advanced
<1>4. \A g \in f + 1 .. NumFunctions : point[g] = Advanced(f)[g]
  BY <1>1 DEF Advanced
<1>5. QED BY <1>3, <1>4 DEF ComesBefore

(* What does not depend on the table stays as it is. *)
LEMMA SimilarityConstant ==
  ASSUME [Next]_vars
  PROVE  /\ \A p, o : Similarity(p, o)' = Similarity(p, o)
         /\ \A p : MatchScore(p)' = MatchScore(p)
         /\ Corner' = Corner
<1>1. seqs' = seqs
  BY SeqsConstant
<1>2. \A p : MatchScore(p)' = MatchScore(p)
  BY <1>1 DEF MatchScore
<1>3. \A p : IsMatch(p)' <=> IsMatch(p)
  BY SeqsConstant
<1>4. \A p, o : Similarity(p, o)' = Similarity(p, o)
  BY <1>2, <1>3 DEF Similarity
<1>5. Corner' = Corner
  BY <1>1 DEF Corner
<1>6. QED BY <1>2, <1>4, <1>5

(* An entry stays the best one if neither it nor an entry it is computed    *)
(* from changes.                                                           *)
LEMMA BestEntryStays ==
  ASSUME [Next]_vars, NEW p \in Point, BestEntry(p), table'[p] = table[p],
         \A o \in Offsets(p) : table'[Minus(p, o)] = table[Minus(p, o)]
  PROVE  BestEntry(p)'
<1>1. \A o \in Offsets(p) : TransitionScore(p, o)' = TransitionScore(p, o)
  BY SimilarityConstant DEF TransitionScore
<1>2. IsMatch(p)' <=> IsMatch(p)
  BY SeqsConstant
<1>3. QED BY <1>1, <1>2 DEF BestEntry

LEMMA BestInvNext ==
  ASSUME TypeOK, ShapeInv, VisitedInv, BestInv, [Next]_vars
  PROVE  BestInv'
<1>1. \A q : InShape(q)' <=> InShape(q)
  BY SeqsConstant
<1>2. CASE Reject
  BY <1>2 DEF BestInv, Reject, Computed
<1>3. CASE InitScoreTable
  <2>1. pc' = "fill" /\ point' = point /\ point = Origin
    BY <1>3 DEF InitScoreTable, VisitedInv
  <2>2. table'[Origin].score = 0
    BY <1>3, OriginProperties DEF InitScoreTable, Transition
  <2>3. \A p \in Point : Computed(p)' => p = Origin
    BY <2>1, OriginFirst DEF Computed, ComesBefore
  <2>4. QED BY <2>2, <2>3 DEF BestInv
<1>4. ASSUME NEW f \in Func, NEW o \in SUBSET Func, FillPoint(f, o)
      PROVE  BestInv'
  <2> DEFINE a == Advanced(f)
             entry == Transition(o, o = Func /\ IsMatch(a), TransitionScore(a, o))
  <2>1. a \in Point /\ InShape(a) /\ a # Origin /\ CanAdvance(f) /\ pc = "fill"
    BY <1>4, AdvancedProperties DEF FillPoint, ShapeInv
  <2>2. point' = a /\ table' = [table EXCEPT ![a] = entry] /\ pc' = "fill"
    BY <1>4 DEF FillPoint
  <2>3. ComesBefore(point, a)
    BY <2>1, AdvancedIsNext
  <2>4. entry.offset = o /\ (entry.match <=> o = Func /\ IsMatch(a))
        /\ entry.score = TransitionScore(a, o)
    BY DEF Transition
  <2>5. IsBestTransition(a, o)
    BY <1>4 DEF FillPoint
  <2> HIDE DEF a, entry
  <2>6. table'[a] = entry /\ \A p \in Point : p # a => table'[p] = table[p]
    BY <2>1, <2>2 DEF TypeOK
  <2>7. table'[Origin].score = 0
    BY <2>1, <2>6, OriginProperties DEF BestInv
  <2>8. ASSUME NEW p \in Point, InShape(p), p # Origin, Computed(p)'
        PROVE  BestEntry(p)'
    <3>1. ASSUME NEW q \in Offsets(p)
          PROVE  Minus(p, q) \in Point /\ ComesBefore(Minus(p, q), p)
      BY MinusComesBefore
    <3>2. CASE p = a
      <4>1. ASSUME NEW q \in Offsets(p)
            PROVE  TransitionScore(p, q)' = TransitionScore(p, q)
        <5>1. Minus(p, q) \in Point /\ Minus(p, q) # a
          BY <3>1, <3>2, ComesBeforeOrder
        <5>2. table'[Minus(p, q)] = table[Minus(p, q)]
          BY <2>6, <5>1
        <5>3. QED BY <5>2, SimilarityConstant DEF TransitionScore
      <4>2. o \in Offsets(p) /\ \A q \in Offsets(p) : TransitionScore(p, q) <= TransitionScore(p, o)
        <5>1. o \in Offsets(p)
          BY <2>5, <3>2 DEF IsBestTransition
        <5>2. \A q \in Offsets(p) : TransitionScore(p, q) \in Int
          BY ScoreType
        <5>3. QED BY <2>5, <3>2, <5>1, <5>2 DEF IsBestTransition
      <4>3. IsMatch(p)' <=> IsMatch(p)
        BY SeqsConstant
      <4>4. table'[p] = entry /\ entry.offset = o /\ (entry.match <=> o = Func /\ IsMatch(p))
            /\ entry.score = TransitionScore(p, o)
        BY <2>4, <2>6, <3>2
      <4>5. table'[p].offset = o /\ (table'[p].match <=> o = Func /\ IsMatch(p)')
            /\ table'[p].score = TransitionScore(p, o)'
        BY <4>1, <4>2, <4>3, <4>4
      <4>6. \A q \in Offsets(p) : TransitionScore(p, q)' <= table'[p].score
        BY <4>1, <4>2, <4>5
      <4>7. QED BY <4>2, <4>5, <4>6 DEF BestEntry
    <3>3. CASE p # a
      <4>1. ComesBefore(p, a)
        BY <2>2, <2>8, <3>3 DEF Computed, ComesBefore
      <4>2. p = point \/ ComesBefore(p, point)
        BY <2>1, <2>8, <4>1, NothingBetween, Lengths DEF TypeOK, ShapeInv, a
      <4>3. BestEntry(p)
        BY <2>1, <2>8, <4>2 DEF BestInv, Computed
      <4>4. ASSUME NEW q \in Offsets(p) PROVE table'[Minus(p, q)] = table[Minus(p, q)]
        <5>1. Minus(p, q) \in Point /\ Minus(p, q) # a
          BY <2>1, <3>1, <4>1, ComesBeforeOrder
        <5>2. QED BY <2>6, <5>1
      <4>5. QED BY <2>6, <3>3, <4>3, <4>4, BestEntryStays
    <3>4. QED BY <3>2, <3>3
  <2>9. QED BY <1>1, <2>7, <2>8 DEF BestInv
<1>5. CASE EndFill
  <2>1. table' = table /\ pc = "fill"
    BY <1>5 DEF EndFill
  <2>2. ASSUME NEW q \in Point, InShape(q) PROVE Computed(q)
    <3>1. CASE q = point
      BY <2>1, <3>1 DEF Computed
    <3>2. CASE q # point
      <4>1. PICK h \in Func : point[h] # q[h] /\ \A g \in h + 1 .. NumFunctions : q[g] = point[g]
        BY <3>2, LastDifference DEF TypeOK
      <4>2. q[h] < point[h]
        BY <1>5, <2>2, <4>1, Lengths DEF EndFill, InShape, Point
      <4>3. QED BY <2>1, <4>1, <4>2 DEF Computed, ComesBefore
    <3>3. QED BY <3>1, <3>2
  <2>3. \A p \in Point : InShape(p) /\ p # Origin => BestEntry(p)'
    BY <2>1, <2>2, BestEntryStays DEF BestInv
  <2>4. QED BY <1>1, <2>1, <2>3 DEF BestInv
<1>6. CASE TraceBack \/ EndTrace
  <2>1. table' = table /\ pc = "trace"
    BY <1>6 DEF TraceBack, EndTrace
  <2>2. \A p \in Point : InShape(p) /\ p # Origin => BestEntry(p)'
    BY <2>1, BestEntryStays DEF BestInv, Computed
  <2>3. QED BY <1>1, <2>1, <2>2 DEF BestInv
<1>7. CASE UNCHANGED vars
  <2>1. table' = table /\ pc' = pc /\ point' = point
    BY <1>7 DEF vars
  <2>2. \A p \in Point : Computed(p)' <=> Computed(p)
    BY <2>1 DEF Computed, ComesBefore
  <2>3. \A p \in Point : InShape(p) /\ p # Origin /\ Computed(p) => BestEntry(p)'
    BY <2>1, BestEntryStays DEF BestInv
  <2>4. QED BY <1>1, <2>1, <2>2, <2>3 DEF BestInv
<1>8. QED BY <1>2, <1>3, <1>4, <1>5, <1>6, <1>7 DEF Next, Fill

(* Lengths of points *)
LEMMA FuncFinite ==
  /\ IsFiniteSet(Func) /\ Cardinality(Func) = NumFunctions /\ NumFunctions \in Nat \ {0}
  /\ \A o \in SUBSET Func : IsFiniteSet(o) /\ Cardinality(o) \in Nat
  /\ \A o \in SUBSET Func : o # {} => Cardinality(o) > 0
<1>1. NumFunctions \in Nat \ {0}
  BY NWAssumption
<1>2. IsFiniteSet(Func) /\ Cardinality(Func) = NumFunctions
  BY <1>1, FS_Interval DEF Func
<1>3. \A o \in SUBSET Func : IsFiniteSet(o) /\ Cardinality(o) \in Nat
  BY <1>2, FS_Subset, FS_CardinalityType
<1>4. \A o \in SUBSET Func : o # {} => Cardinality(o) # 0
  BY <1>3, FS_EmptySet
<1>5. QED BY <1>1, <1>2, <1>3, <1>4

LEMMA LengthProperties ==
  ASSUME NEW p \in Point
  PROVE  /\ Length(p) \in Nat
         /\ \A q \in Point : (\A f \in Func : q[f] <= p[f]) => Length(q) <= Length(p)
         /\ (\A f \in Func : p[f] = 0) => Length(p) = 0
         /\ \A o \in Offsets(p) : Length(Minus(p, o)) = Length(p) - Cardinality(o)
<1> DEFINE L(q, s) == SumFunctionOnSet(q, s)
<1>1. ASSUME NEW q \in Point, NEW s \in SUBSET Func
      PROVE  /\ L(q, s) \in Int
             /\ s = {} => L(q, s) = 0
             /\ \A x \in s : L(q, s) = q[x] + L(q, s \ {x})
  <2>1. \A x \in s : q[x] \in Int
    BY DEF Point
  <2>2. IsFiniteSet(s)
    BY FuncFinite
  <2>3. QED BY <2>1, <2>2, SumProperties
<1>2. \A q \in Point, f \in Func : q[f] \in Nat
  BY DEF Point
<1> HIDE DEF L
<1>3. ASSUME NEW q \in Point, \A f \in Func : q[f] <= p[f]
      PROVE  0 <= L(q, Func) /\ L(q, Func) <= L(p, Func)
  <2> DEFINE T == {s \in SUBSET Func : 0 <= L(q, s) /\ L(q, s) <= L(p, s)}
  <2>1. ASSUME NEW s \in SUBSET Func, \A x \in s : s \ {x} \in T PROVE s \in T
    <3>1. CASE s = {}
      BY <1>1, <3>1
    <3>2. CASE s # {}
      <4>1. PICK x \in s : TRUE
        BY <3>2
      <4>2. /\ L(q, s) = q[x] + L(q, s \ {x}) /\ L(p, s) = p[x] + L(p, s \ {x})
            /\ L(q, s \ {x}) \in Int /\ L(p, s \ {x}) \in Int
        BY <1>1, <4>1
      <4>3. 0 <= L(q, s \ {x}) /\ L(q, s \ {x}) <= L(p, s \ {x})
        BY <2>1, <4>1
      <4>4. q[x] \in Nat /\ p[x] \in Nat /\ q[x] <= p[x]
        BY <1>2, <1>3, <4>1
      <4>5. QED BY <4>2, <4>3, <4>4
    <3>3. QED BY <3>1, <3>2
  <2>2. T \in SUBSET SUBSET Func /\ IsFiniteSet(Func)
    BY FuncFinite
  <2> HIDE DEF T
  <2>3. T = SUBSET Func
    BY <2>1, <2>2, SubsetInduction
  <2>4. QED BY <2>3 DEF T
<1>4. L(p, Func) \in Nat
  BY <1>1, <1>2, <1>3
<1>5. ASSUME \A f \in Func : p[f] = 0 PROVE L(p, Func) = 0
  <2> DEFINE T == {s \in SUBSET Func : L(p, s) = 0}
  <2>1. ASSUME NEW s \in SUBSET Func, \A x \in s : s \ {x} \in T PROVE s \in T
    <3>1. CASE s = {}
      BY <1>1, <3>1
    <3>2. CASE s # {}
      <4>1. PICK x \in s : TRUE
        BY <3>2
      <4>2. L(p, s) = p[x] + L(p, s \ {x}) /\ L(p, s \ {x}) = 0 /\ p[x] = 0
        BY <1>1, <1>5, <2>1, <4>1
      <4>3. QED BY <4>2
    <3>3. QED BY <3>1, <3>2
  <2>2. T \in SUBSET SUBSET Func /\ IsFiniteSet(Func)
    BY FuncFinite
  <2> HIDE DEF T
  <2>3. T = SUBSET Func
    BY <2>1, <2>2, SubsetInduction
  <2>4. QED BY <2>3 DEF T
<1>6. ASSUME NEW o \in Offsets(p)
      PROVE  L(Minus(p, o), Func) = L(p, Func) - Cardinality(o)
  <2> DEFINE q == Minus(p, o)
             T == {s \in SUBSET Func : L(q, s) = L(p, s) - Cardinality(s \cap o)}
  <2>0. q \in Point /\ o \in SUBSET Func
    BY MinusComesBefore DEF Offsets
  <2>00. \A f \in Func : q[f] = IF f \in o THEN p[f] - 1 ELSE p[f]
    BY DEF Minus
  <2> HIDE DEF q
  <2>1. ASSUME NEW s \in SUBSET Func, \A x \in s : s \ {x} \in T PROVE s \in T
    <3>1. CASE s = {}
      <4>1. Cardinality(s \cap o) = 0
        BY <3>1, FS_EmptySet
      <4>2. QED BY <1>1, <2>0, <3>1, <4>1
    <3>2. CASE s # {}
      <4>1. PICK x \in s : TRUE
        BY <3>2
      <4>2. /\ L(q, s) = q[x] + L(q, s \ {x}) /\ L(p, s) = p[x] + L(p, s \ {x})
            /\ L(q, s \ {x}) \in Int /\ L(p, s \ {x}) \in Int
        BY <1>1, <2>0, <4>1
      <4> DEFINE t == (s \ {x}) \cap o
      <4>3. L(q, s \ {x}) = L(p, s \ {x}) - Cardinality(t)
        BY <2>1, <4>1
      <4>4. Cardinality(s \cap o) = Cardinality(t) + (IF x \in o THEN 1 ELSE 0)
                /\ Cardinality(t) \in Nat
        <5>1. t \in SUBSET Func /\ IsFiniteSet(t) /\ Cardinality(t) \in Nat
          BY FuncFinite
        <5>2. CASE x \in o
          <6>1. s \cap o = t \cup {x} /\ x \notin t
            BY <4>1, <5>2
          <6> HIDE DEF t
          <6>2. QED BY <5>1, <5>2, <6>1, FS_AddElement
        <5>3. CASE x \notin o
          <6>1. s \cap o = t
            BY <5>3
          <6> HIDE DEF t
          <6>2. QED BY <5>1, <5>3, <6>1
        <5>4. QED BY <5>2, <5>3
      <4> HIDE DEF t
      <4>5. q[x] = p[x] - (IF x \in o THEN 1 ELSE 0) /\ p[x] \in Nat
        BY <1>2, <2>00, <4>1
      <4>6. QED BY <4>2, <4>3, <4>4, <4>5
    <3>3. QED BY <3>1, <3>2
  <2>2. T \in SUBSET SUBSET Func /\ IsFiniteSet(Func)
    BY FuncFinite
  <2> HIDE DEF T
  <2>3. T = SUBSET Func
    BY <2>1, <2>2, SubsetInduction
  <2>4. Func \cap o = o
    BY <2>0
  <2>5. QED BY <2>3, <2>4 DEF T, q
<1>7. QED BY <1>3, <1>4, <1>5, <1>6 DEF Length, L

(* The points of the table are short enough for their scores. *)
LEMMA LengthsFit ==
  ASSUME ScoresFit, TypeOK, NEW p \in Point, InShape(p)
  PROVE  Length(p) \in Nat /\ 4 * Length(p) < MaxScore
<1>1. Length(p) \in Nat /\ Length(Corner) \in Nat /\ Corner \in Point
  BY LengthProperties, Lengths
<1>2. \A f \in Func : p[f] <= Corner[f]
  BY DEF InShape, Corner
<1>3. Length(p) <= Length(Corner)
  BY <1>1, <1>2, LengthProperties
<1>4. 4 * Length(Corner) < MaxScore
  BY DEF ScoresFit, TypeOK, Length, Corner
<1>5. QED BY <1>1, <1>3, <1>4 DEF MaxScore

LEMMA MatchScoreType == \A p : MatchScore(p) \in {1, 2}
BY DEF MatchScore, MatchProfit

(* A step from a point with a score in the range of its length. *)
LEMMA TransitionScores ==
  ASSUME ScoresFit, TypeOK, NEW p \in Point, InShape(p), NEW o \in Offsets(p),
         - Length(Minus(p, o)) <= table[Minus(p, o)].score,
         table[Minus(p, o)].score <= 2 * Length(Minus(p, o))
  PROVE  /\ o # Func => TransitionScore(p, o) = table[Minus(p, o)].score - Cardinality(o)
         /\ o = Func /\ IsMatch(p) =>
              TransitionScore(p, o) = table[Minus(p, o)].score + MatchScore(p)
         /\ o = Func /\ ~ IsMatch(p) => TransitionScore(p, o) < - Length(p)
<1> DEFINE s == table[Minus(p, o)].score
           l == Length(p)
           m == Length(Minus(p, o))
           c == Cardinality(o)
<1>1. l \in Nat /\ 4 * l < MaxScore
  BY LengthsFit
<1>2. o \in SUBSET Func /\ o # {} /\ Minus(p, o) \in Point
  BY MinusComesBefore DEF Offsets
<1>3. c \in Nat /\ c > 0
  BY <1>2, FuncFinite
<1>4. m = l - c /\ m \in Nat
  BY <1>2, LengthProperties
<1>5. s \in Int
  BY <1>2 DEF TypeOK, Entry
<1>6. - m <= s /\ s <= 2 * m
  OBVIOUS
<1>7. TransitionScore(p, o) = AddScore(s, Similarity(p, o))
  BY DEF TransitionScore
<1>8. Cardinality(o) = c
  OBVIOUS
<1> HIDE DEF s, l, m, c
<1>9. CASE o # Func
  <2>1. Similarity(p, o) = - c
    BY <1>3, <1>8, <1>9 DEF Similarity, GapPenalty
  <2>2. AddScore(s, - c) = s - c
    BY <1>1, <1>3, <1>4, <1>5, <1>6 DEF AddScore, MinScore, MaxScore
  <2>3. QED BY <1>7, <1>8, <1>9, <2>1, <2>2 DEF s
<1>10. CASE o = Func /\ IsMatch(p)
  <2>1. Similarity(p, o) = MatchScore(p) /\ MatchScore(p) \in {1, 2}
    BY <1>10, MatchScoreType DEF Similarity
  <2>2. \A x \in {1, 2} : AddScore(s, x) = s + x
    BY <1>1, <1>3, <1>4, <1>5, <1>6 DEF AddScore, MinScore, MaxScore
  <2>3. QED BY <1>7, <1>10, <2>1, <2>2 DEF s
<1>11. CASE o = Func /\ ~ IsMatch(p)
  <2>1. Similarity(p, o) = MinScore
    BY <1>11 DEF Similarity, Mismatch
  <2>2. AddScore(s, MinScore) < - l
    BY <1>1, <1>3, <1>4, <1>5, <1>6 DEF AddScore, MinScore, MaxScore
  <2>3. QED BY <1>7, <1>11, <2>1, <2>2 DEF l
<1>12. QED BY <1>9, <1>10, <1>11

LEMMA MinusInShape ==
  ASSUME TypeOK, NEW p \in Point, InShape(p), NEW o \in Offsets(p)
  PROVE  Minus(p, o) \in Point /\ InShape(Minus(p, o))
<1>1. Minus(p, o) \in Point
  BY MinusComesBefore
<1>2. \A f \in Func : p[f] \in Int /\ Len(seqs[f]) \in Int /\ p[f] <= Len(seqs[f])
  BY Lengths DEF Point, InShape
<1>3. \A f \in Func : Minus(p, o)[f] = IF f \in o THEN p[f] - 1 ELSE p[f]
  BY DEF Minus
<1>4. QED BY <1>1, <1>2, <1>3 DEF InShape

(* What holds of a point if it holds of all it can be reached from holds of *)
(* all points.                                                             *)
LEMMA PointInduction ==
  ASSUME TypeOK, NEW T \in SUBSET Point,
         \A p \in Point : InShape(p) /\ (\A o \in Offsets(p) : Minus(p, o) \in T) => p \in T
  PROVE  \A p \in Point : InShape(p) => p \in T
<1> DEFINE U == {p \in Point : InShape(p) /\ p \notin T}
           B == {Length(p) : p \in U}
<1> SUFFICES ASSUME U # {} PROVE FALSE
  OBVIOUS
<1>1. \A p \in Point : Length(p) \in Nat
  BY LengthProperties
<1>2. B \in SUBSET Nat /\ B # {}
  BY <1>1
<1>3. PICK b \in B : \A c \in B : b <= c
  <2> HIDE DEF B
  <2>1. QED BY <1>2, NatMin
<1>4. PICK p \in U : Length(p) = b
  BY <1>3
<1>5. ASSUME NEW o \in Offsets(p) PROVE Minus(p, o) \in T
  <2> DEFINE q == Minus(p, o)
  <2>1. q \in Point /\ InShape(q)
    BY MinusInShape
  <2>2. Length(q) = Length(p) - Cardinality(o)
    BY LengthProperties
  <2>3. Cardinality(o) > 0 /\ Cardinality(o) \in Nat
    BY FuncFinite DEF Offsets
  <2>4. Length(p) \in Nat /\ Length(q) \in Nat
    BY <1>1, <2>1
  <2> HIDE DEF q
  <2>5. ~ (b <= Length(q))
    BY <1>4, <2>2, <2>3, <2>4
  <2>6. q \notin U
    BY <1>3, <2>5
  <2>7. q \in T
    BY <2>1, <2>6
  <2>8. QED BY <2>7 DEF q
<1>6. QED BY <1>4, <1>5

(* One function can take an element alone. *)
LEMMA OneStep ==
  ASSUME NEW p \in Point, NEW f \in Func, p[f] # 0
  PROVE  /\ {f} \in Offsets(p)
         /\ Length(Minus(p, {f})) = Length(p) - 1
<1>1. {f} \in Offsets(p)
  BY DEF Offsets, Point
<1>2. Cardinality({f}) = 1
  BY FS_Singleton
<1>3. QED BY <1>1, <1>2, LengthProperties

(* If there is only one function, everything matches. *)
LEMMA OnlyFunctionMatches ==
  ASSUME NEW f \in Func, {f} = Func, NEW p
  PROVE  IsMatch(p)
<1>1. 1 \in Func
  BY NWAssumption DEF Func
<1>2. Func \ {1} = {}
  BY <1>1
<1>3. QED BY <1>2 DEF IsMatch

LEMMA ScoreBounds ==
  ASSUME ScoresFit, TypeOK, BestInv, pc \in {"trace", "aligned"}
  PROVE  \A p \in Point : InShape(p) =>
           - Length(p) <= table[p].score /\ table[p].score <= 2 * Length(p)
<1> DEFINE T == {p \in Point : - Length(p) <= table[p].score /\ table[p].score <= 2 * Length(p)}
<1>1. \A p \in Point : table[p].score \in Int /\ Length(p) \in Nat
  BY LengthProperties DEF TypeOK, Entry
<1>2. ASSUME NEW p \in Point, InShape(p), \A o \in Offsets(p) : Minus(p, o) \in T
      PROVE  p \in T
  <2>1. CASE p = Origin
    <3>1. table[p].score = 0
      BY <2>1 DEF BestInv
    <3>2. Length(p) = 0
      BY <2>1, LengthProperties DEF Origin
    <3>3. QED BY <3>1, <3>2
  <2>2. CASE p # Origin
    <3>1. BestEntry(p)
      BY <1>2, <2>2 DEF BestInv, Computed
    <3>2. \A o \in Offsets(p) :
            /\ - Length(Minus(p, o)) <= table[Minus(p, o)].score
            /\ table[Minus(p, o)].score <= 2 * Length(Minus(p, o))
      BY <1>2
    <3> HIDE DEF T
    <3> DEFINE o == table[p].offset
               q == Minus(p, o)
               s == table[q].score
    <3>3. o \in Offsets(p) /\ table[p].score = TransitionScore(p, o)
      BY <3>1 DEF BestEntry
    <3>4. q \in Point /\ o \in SUBSET Func /\ o # {}
      BY <3>3, MinusComesBefore DEF Offsets
    <3>5. Cardinality(o) \in Nat /\ Cardinality(o) > 0
      BY <3>4, FuncFinite
    <3>6. Length(q) = Length(p) - Cardinality(o)
      BY <3>3, LengthProperties
    <3>7. s \in Int /\ Length(q) \in Nat /\ Length(p) \in Nat /\ s <= 2 * Length(q)
      BY <1>1, <3>2, <3>3, <3>4
    <3>8. /\ o # Func => table[p].score = s - Cardinality(o)
          /\ o = Func /\ IsMatch(p) => table[p].score = s + MatchScore(p)
          /\ o = Func /\ ~ IsMatch(p) => table[p].score < - Length(p)
      BY <1>2, <3>2, <3>3, TransitionScores
    <3>9. MatchScore(p) \in {1, 2}
      BY MatchScoreType
    <3>10. table[p].score <= 2 * Length(p)
      <4> HIDE DEF s, q
      <4>1. CASE o # Func
        BY <3>5, <3>6, <3>7, <3>8, <4>1
      <4>2. CASE o = Func /\ IsMatch(p)
        BY <3>5, <3>6, <3>7, <3>8, <3>9, <4>2
      <4>3. CASE o = Func /\ ~ IsMatch(p)
        BY <1>1, <3>7, <3>8, <4>3
      <4>4. QED BY <4>1, <4>2, <4>3
    <3>11. - Length(p) <= table[p].score
      <4>1. PICK f \in Func : p[f] # 0
        BY <2>2 DEF Point, Origin
      <4>2. {f} \in Offsets(p) /\ Length(Minus(p, {f})) = Length(p) - 1
        BY <4>1, OneStep
      <4>3. TransitionScore(p, {f}) <= table[p].score
        BY <3>1, <4>2 DEF BestEntry
      <4> DEFINE t == table[Minus(p, {f})].score
      <4>4. - Length(Minus(p, {f})) <= t
        BY <3>2, <4>2
      <4>5. t \in Int
        BY <1>1, <4>2, MinusComesBefore
      <4>6. TransitionScore(p, {f}) >= t - 1 /\ TransitionScore(p, {f}) \in Int
        <5>1. /\ {f} # Func => TransitionScore(p, {f}) = t - Cardinality({f})
              /\ {f} = Func /\ IsMatch(p) => TransitionScore(p, {f}) = t + MatchScore(p)
          BY <1>2, <3>2, <4>2, TransitionScores
        <5>2. Cardinality({f}) = 1
          BY FS_Singleton
        <5>3. {f} = Func => IsMatch(p)
          BY OnlyFunctionMatches
        <5> HIDE DEF t
        <5>4. QED BY <3>9, <4>5, <5>1, <5>2, <5>3
      <4> HIDE DEF t
      <4>7. QED BY <1>1, <4>2, <4>3, <4>4, <4>5, <4>6
    <3>12. QED BY <3>10, <3>11 DEF T
  <2>3. QED BY <2>1, <2>2
<1>3. T \in SUBSET Point
  OBVIOUS
<1> HIDE DEF T
<1>4. \A p \in Point : InShape(p) => p \in T
  BY <1>2, <1>3, PointInduction
<1>5. QED BY <1>4 DEF T

(* Chains *)
LEMMA ChainProperties ==
  ASSUME TypeOK, NEW C \in Chains
  PROVE  /\ IsFiniteSet(C) /\ Cardinality(C) \in Nat
         /\ \A q \in C : q \in Point /\ InShape(q) /\ IsMatch(q) /\ \A f \in Func : q[f] > 0
         /\ \A q, r \in C : q = r \/ (\A f \in Func : q[f] < r[f]) \/ (\A f \in Func : r[f] < q[f])
         /\ \A D \in SUBSET C : D \in Chains
<1>1. /\ C \in SUBSET {p \in Point : InShape(p) /\ (\A f \in Func : p[f] > 0) /\ IsMatch(p)}
      /\ \A q, r \in C : q = r \/ (\A f \in Func : q[f] < r[f]) \/ (\A f \in Func : r[f] < q[f])
  BY Zenon DEF Chains
<1>2. \A D \in SUBSET C : D \in Chains
  BY <1>1, Zenon DEF Chains
<1>3. 1 \in Func /\ MaxLength \in Nat
  BY NWAssumption DEF Func
<1>4. IsFiniteSet(C)
  <2> DEFINE g == [q \in C |-> q[1]]
  <2>1. g \in Injection(C, 0 .. MaxLength)
    <3>1. \A q \in C : q[1] \in 0 .. MaxLength
      BY <1>1, <1>3 DEF Point
    <3>2. ASSUME NEW q \in C, NEW r \in C, q[1] = r[1] PROVE q = r
      BY <1>1, <1>3, <3>1, <3>2
    <3>3. QED BY <3>1, <3>2 DEF Injection, IsInjective
  <2>2. IsFiniteSet(0 .. MaxLength)
    BY <1>3, FS_Interval
  <2>3. QED BY <2>1, <2>2, FS_Injection
<1>5. Cardinality(C) \in Nat
  BY <1>4, FS_CardinalityType
<1>6. QED BY <1>1, <1>2, <1>4, <1>5

LEMMA ProfitProperties ==
  ASSUME TypeOK, NEW C \in Chains
  PROVE  /\ SumFunctionOnSet(Profits, C) \in Int
         /\ C = {} => SumFunctionOnSet(Profits, C) = 0
         /\ \A p \in C : SumFunctionOnSet(Profits, C)
                           = MatchScore(p) + SumFunctionOnSet(Profits, C \ {p})
<1>1. \A p \in Point : Profits[p] = MatchScore(p) /\ Profits[p] \in Int
  BY MatchScoreType DEF Profits
<1>2. IsFiniteSet(C) /\ \A p \in C : p \in Point
  BY ChainProperties
<1>3. QED BY <1>1, <1>2, SumProperties

(* Leaving elements alone costs one each, matching them pays. *)
LEMMA ScoreOfGap ==
  ASSUME TypeOK, NEW C \in Chains, NEW p \in Point, NEW o \in Offsets(p)
  PROVE  ScoreUpTo(C, p) = ScoreUpTo(C, Minus(p, o)) - Cardinality(o)
<1> DEFINE k == NumFunctions * Cardinality(C)
           s == SumFunctionOnSet(Profits, C)
<1>1. k \in Int /\ s \in Int
  BY ChainProperties, ProfitProperties, FuncFinite
<1>2. Length(Minus(p, o)) = Length(p) - Cardinality(o) /\ Length(p) \in Nat
  BY LengthProperties
<1>3. Cardinality(o) \in Nat
  BY FuncFinite DEF Offsets
<1>4. \A q : ScoreUpTo(C, q) = s + GapPenalty * (Length(q) - k)
  BY DEF ScoreUpTo
<1> HIDE DEF k, s
<1>5. QED BY <1>1, <1>2, <1>3, <1>4 DEF GapPenalty

LEMMA ScoreOfMatch ==
  ASSUME TypeOK, NEW C \in Chains, NEW p \in C
  PROVE  /\ Func \in Offsets(p)
         /\ C \ {p} \in Chains
         /\ ScoreUpTo(C, p) = ScoreUpTo(C \ {p}, Minus(p, Func)) + MatchScore(p)
<1> DEFINE D == C \ {p}
<1>1. p \in Point /\ (\A f \in Func : p[f] > 0) /\ IsFiniteSet(C) /\ D \in Chains
  BY ChainProperties
<1>2. Func # {} /\ Cardinality(Func) = NumFunctions /\ NumFunctions \in Nat
  BY FuncFinite, NWAssumption DEF Func
<1>3. Func \in Offsets(p)
  BY <1>1, <1>2 DEF Offsets
<1>4. Length(Minus(p, Func)) = Length(p) - NumFunctions /\ Length(p) \in Nat
  BY <1>1, <1>2, <1>3, LengthProperties
<1>5. SumFunctionOnSet(Profits, C) = MatchScore(p) + SumFunctionOnSet(Profits, D)
      /\ SumFunctionOnSet(Profits, D) \in Int
  BY <1>1, ProfitProperties
<1>6. Cardinality(D) \in Nat /\ Cardinality(C) = Cardinality(D) + 1
  <2>1. Cardinality(D) = Cardinality(C) - 1 /\ Cardinality(C) \in Nat
    BY <1>1, FS_RemoveElement, FS_CardinalityType
  <2>2. Cardinality(D) \in Nat
    BY <1>1, ChainProperties
  <2>3. QED BY <2>1, <2>2
<1>7. MatchScore(p) \in Int
  BY MatchScoreType
<1> HIDE DEF D
<1> DEFINE k == NumFunctions * Cardinality(D)
           s == SumFunctionOnSet(Profits, D)
<1>8. k \in Int /\ NumFunctions * Cardinality(C) = k + NumFunctions
  BY <1>2, <1>6
<1>9. ScoreUpTo(C, p) = MatchScore(p) + s + GapPenalty * (Length(p) - NumFunctions * Cardinality(C))
  BY <1>5 DEF ScoreUpTo
<1>10. ScoreUpTo(D, Minus(p, Func)) = s + GapPenalty * (Length(p) - NumFunctions - k)
  BY <1>4 DEF ScoreUpTo
<1>11. s \in Int
  BY <1>5
<1> HIDE DEF k, s
<1>12. ScoreUpTo(C, p) = ScoreUpTo(D, Minus(p, Func)) + MatchScore(p)
  BY <1>2, <1>4, <1>7, <1>8, <1>9, <1>10, <1>11 DEF GapPenalty
<1>13. QED BY <1>1, <1>3, <1>12 DEF D

(* A chain up to p that does not take p leaves the last element of some     *)
(* function alone.                                                         *)
LEMMA ChainLeavesOne ==
  ASSUME TypeOK, NEW p \in Point, p # Origin, NEW C \in ChainsUpTo(p), p \notin C
  PROVE  \E f \in Func : p[f] # 0 /\ C \in ChainsUpTo(Minus(p, {f}))
<1>1. C \in Chains /\ \A q \in C, f \in Func : q[f] <= p[f]
  BY DEF ChainsUpTo
<1>2. /\ \A q \in C : q \in Point /\ \A f \in Func : q[f] > 0
      /\ \A q, r \in C : q = r \/ (\A f \in Func : q[f] < r[f]) \/ (\A f \in Func : r[f] < q[f])
  BY <1>1, ChainProperties
<1>3. \A q \in Point, f \in Func : q[f] \in Nat
  BY DEF Point
<1>4. \E f \in Func : p[f] # 0 /\ \A q \in C : q[f] < p[f]
  <2>1. CASE C = {}
    <3>1. \E f \in Func : p[f] # 0
      BY DEF Point, Origin
    <3>2. QED BY <2>1, <3>1
  <2>2. CASE C # {}
    <3> SUFFICES ASSUME \A f \in Func : \E q \in C : ~ (q[f] < p[f]) PROVE FALSE
      <4>1. \A f \in Func : p[f] # 0
        BY <1>1, <1>2, <1>3, <2>2
      <4>2. QED BY <4>1
    <3>1. \A f \in Func : \E q \in C : q[f] = p[f]
      BY <1>1, <1>2, <1>3
    <3>2. 1 \in Func
      BY NWAssumption DEF Func
    <3>3. PICK r \in C : r[1] = p[1]
      BY <3>1, <3>2
    <3>4. ASSUME NEW f \in Func PROVE r[f] = p[f]
      <4>1. PICK q \in C : q[f] = p[f]
        BY <3>1
      <4>2. CASE q = r
        BY <4>1, <4>2
      <4>3. CASE \A g \in Func : q[g] < r[g]
        <5>1. q[f] < r[f] /\ r[f] <= p[f] /\ q[f] \in Nat /\ r[f] \in Nat
          BY <1>1, <1>2, <1>3, <4>3
        <5>2. QED BY <1>3, <4>1, <5>1
      <4>4. CASE \A g \in Func : r[g] < q[g]
        <5>1. r[1] < q[1] /\ q[1] <= p[1] /\ q[1] \in Nat /\ r[1] \in Nat
          BY <1>1, <1>2, <1>3, <3>2, <4>4
        <5>2. QED BY <3>3, <5>1
      <4>5. QED BY <1>2, <4>2, <4>3, <4>4
    <3>5. r = p
      BY <1>2, <3>4 DEF Point
    <3>6. QED BY <3>5
  <2>3. QED BY <2>1, <2>2
<1>5. PICK f \in Func : p[f] # 0 /\ \A q \in C : q[f] < p[f]
  BY <1>4
<1>6. ASSUME NEW q \in C, NEW g \in Func PROVE q[g] <= Minus(p, {f})[g]
  <2>1. q[g] <= p[g] /\ q[f] < p[f] /\ q[g] \in Nat /\ q[f] \in Nat /\ p[g] \in Nat /\ p[f] \in Nat
    BY <1>1, <1>2, <1>3, <1>5
  <2>2. Minus(p, {f})[g] = IF g = f THEN p[g] - 1 ELSE p[g]
    BY DEF Minus
  <2>3. QED BY <2>1, <2>2
<1>7. QED BY <1>1, <1>5, <1>6 DEF ChainsUpTo

LEMMA StepScores ==
  ASSUME ScoresFit, TypeOK, BestInv, pc \in {"trace", "aligned"},
         NEW p \in Point, InShape(p), NEW o \in Offsets(p)
  PROVE  /\ o # Func => TransitionScore(p, o) = table[Minus(p, o)].score - Cardinality(o)
         /\ o = Func /\ IsMatch(p) =>
              TransitionScore(p, o) = table[Minus(p, o)].score + MatchScore(p)
         /\ o = Func /\ ~ IsMatch(p) => TransitionScore(p, o) < - Length(p)
<1>1. Minus(p, o) \in Point /\ InShape(Minus(p, o))
  BY MinusInShape
<1>2. /\ - Length(Minus(p, o)) <= table[Minus(p, o)].score
      /\ table[Minus(p, o)].score <= 2 * Length(Minus(p, o))
  BY <1>1, ScoreBounds
<1>3. QED BY <1>2, TransitionScores

LEMMA NoChainIsBetter ==
  ASSUME ScoresFit, TypeOK, BestInv, pc \in {"trace", "aligned"}
  PROVE  \A p \in Point : InShape(p) =>
           \A C \in ChainsUpTo(p) : ScoreUpTo(C, p) <= table[p].score
<1> DEFINE T == {p \in Point : \A C \in ChainsUpTo(p) : ScoreUpTo(C, p) <= table[p].score}
<1>1. \A p \in Point : table[p].score \in Int
  BY DEF TypeOK, Entry
<1>2. ASSUME NEW p \in Point, NEW C \in ChainsUpTo(p) PROVE ScoreUpTo(C, p) \in Int
  <2>1. C \in Chains
    BY DEF ChainsUpTo
  <2>2. NumFunctions * Cardinality(C) \in Int /\ Length(p) \in Int
    BY <2>1, ChainProperties, LengthProperties, FuncFinite
  <2>3. QED BY <2>1, <2>2, ProfitProperties DEF ScoreUpTo, GapPenalty
<1>3. ASSUME NEW p \in Point, InShape(p), \A o \in Offsets(p) : Minus(p, o) \in T,
             NEW C \in ChainsUpTo(p)
      PROVE  ScoreUpTo(C, p) <= table[p].score
  <2>1. C \in Chains /\ \A q \in C, f \in Func : q[f] <= p[f]
    BY DEF ChainsUpTo
  <2>2. CASE p = Origin
    <3>1. C = {}
      <4>1. \A q \in C, f \in Func : q[f] > 0 /\ q[f] <= 0 /\ q[f] \in Nat
        BY <2>1, <2>2, ChainProperties DEF Origin, Point
      <4>2. 1 \in Func
        BY NWAssumption DEF Func
      <4>3. QED BY <4>1, <4>2
    <3>2. SumFunctionOnSet(Profits, C) = 0 /\ Cardinality(C) = 0
      BY <2>1, <3>1, ProfitProperties, FS_EmptySet
    <3>3. Length(p) = 0
      BY <2>2, LengthProperties DEF Origin
    <3>4. ScoreUpTo(C, p) = 0
      BY <3>2, <3>3, FuncFinite DEF ScoreUpTo, GapPenalty
    <3>5. QED BY <2>2, <3>4 DEF BestInv
  <2>3. CASE p # Origin /\ p \in C
    <3>1. /\ Func \in Offsets(p) /\ C \ {p} \in Chains
          /\ ScoreUpTo(C, p) = ScoreUpTo(C \ {p}, Minus(p, Func)) + MatchScore(p)
      BY <2>1, <2>3, ScoreOfMatch
    <3>2. IsMatch(p)
      BY <2>1, <2>3, ChainProperties
    <3>3. C \ {p} \in ChainsUpTo(Minus(p, Func))
      <4>1. ASSUME NEW q \in C \ {p}, NEW f \in Func PROVE q[f] <= Minus(p, Func)[f]
        <5>1. \/ \A g \in Func : q[g] < p[g]
              \/ \A g \in Func : p[g] < q[g]
          BY <2>1, <2>3, ChainProperties
        <5>2. q[f] <= p[f] /\ q[f] \in Nat /\ p[f] \in Nat
          BY <2>1, ChainProperties DEF Point
        <5>3. Minus(p, Func)[f] = p[f] - 1
          BY DEF Minus
        <5>4. QED BY <5>1, <5>2, <5>3
      <4>2. QED BY <3>1, <4>1 DEF ChainsUpTo
    <3>4. ScoreUpTo(C \ {p}, Minus(p, Func)) <= table[Minus(p, Func)].score
      BY <1>3, <3>1, <3>3
    <3>5. TransitionScore(p, Func) = table[Minus(p, Func)].score + MatchScore(p)
      BY <1>3, <3>1, <3>2, StepScores
    <3>6. TransitionScore(p, Func) <= table[p].score
      BY <1>3, <2>3, <3>1 DEF BestInv, Computed, BestEntry
    <3>7. Minus(p, Func) \in Point /\ MatchScore(p) \in Int
      BY <3>1, MinusComesBefore, MatchScoreType
    <3>8. ScoreUpTo(C \ {p}, Minus(p, Func)) \in Int /\ table[Minus(p, Func)].score \in Int
          /\ table[p].score \in Int
      BY <1>1, <1>2, <3>3, <3>7
    <3>9. QED BY <3>1, <3>4, <3>5, <3>6, <3>7, <3>8
  <2>4. CASE p # Origin /\ p \notin C
    <3>1. PICK f \in Func : p[f] # 0 /\ C \in ChainsUpTo(Minus(p, {f}))
      BY <2>4, ChainLeavesOne
    <3> DEFINE q == Minus(p, {f})
    <3>2. {f} \in Offsets(p)
      BY <3>1, OneStep
    <3>3. q \in Point
      BY <3>2, MinusComesBefore
    <3>4. ScoreUpTo(C, q) <= table[q].score
      BY <1>3, <3>1, <3>2
    <3>5. Cardinality({f}) = 1
      BY FS_Singleton
    <3>6. ScoreUpTo(C, p) = ScoreUpTo(C, q) - 1
      BY <2>1, <3>2, <3>5, ScoreOfGap
    <3>7. TransitionScore(p, {f}) <= table[p].score
      BY <1>3, <2>4, <3>2 DEF BestInv, Computed, BestEntry
    <3>8. ScoreUpTo(C, q) \in Int /\ table[q].score \in Int /\ table[p].score \in Int
      BY <1>1, <1>2, <3>1, <3>3
    <3>9. TransitionScore(p, {f}) >= table[q].score - 1 /\ TransitionScore(p, {f}) \in Int
      <4>1. /\ {f} # Func => TransitionScore(p, {f}) = table[q].score - 1
            /\ {f} = Func /\ IsMatch(p) => TransitionScore(p, {f}) = table[q].score + MatchScore(p)
        BY <1>3, <3>2, <3>5, StepScores
      <4>2. {f} = Func => IsMatch(p)
        BY OnlyFunctionMatches
      <4>3. MatchScore(p) \in {1, 2}
        BY MatchScoreType
      <4> HIDE DEF q
      <4>4. QED BY <3>8, <4>1, <4>2, <4>3
    <3> HIDE DEF q
    <3>10. QED BY <3>4, <3>6, <3>7, <3>8, <3>9
  <2>5. QED BY <2>2, <2>3, <2>4
<1>4. T \in SUBSET Point
  OBVIOUS
<1>5. \A p \in Point : InShape(p) /\ (\A o \in Offsets(p) : Minus(p, o) \in T) => p \in T
  BY <1>3
<1> HIDE DEF T
<1>6. \A p \in Point : InShape(p) => p \in T
  BY <1>4, <1>5, PointInduction
<1>7. QED BY <1>6 DEF T

LEMMA SomeChainIsAsGood ==
  ASSUME ScoresFit, TypeOK, BestInv, pc \in {"trace", "aligned"}
  PROVE  \A p \in Point : InShape(p) =>
           \E C \in ChainsUpTo(p) : ScoreUpTo(C, p) = table[p].score
<1> DEFINE T == {p \in Point : \E C \in ChainsUpTo(p) : ScoreUpTo(C, p) = table[p].score}
<1>1. ASSUME NEW p \in Point, InShape(p), \A o \in Offsets(p) : Minus(p, o) \in T
      PROVE  \E C \in ChainsUpTo(p) : ScoreUpTo(C, p) = table[p].score
  <2>1. CASE p = Origin
    <3>1. {} \in Chains
      BY DEF Chains
    <3>2. {} \in ChainsUpTo(p)
      BY <3>1 DEF ChainsUpTo
    <3>3. SumFunctionOnSet(Profits, {}) = 0 /\ Cardinality({}) = 0
      BY <3>1, ProfitProperties, FS_EmptySet
    <3>4. Length(p) = 0
      BY <2>1, LengthProperties DEF Origin
    <3>5. ScoreUpTo({}, p) = 0
      BY <3>3, <3>4, FuncFinite DEF ScoreUpTo, GapPenalty
    <3>6. QED BY <2>1, <3>2, <3>5 DEF BestInv
  <2>2. CASE p # Origin
    <3>1. BestEntry(p)
      BY <1>1, <2>2 DEF BestInv, Computed
    <3> DEFINE o == table[p].offset
               q == Minus(p, o)
    <3>2. o \in Offsets(p) /\ table[p].score = TransitionScore(p, o)
      BY <3>1 DEF BestEntry
    <3>3. q \in Point /\ InShape(q)
      BY <1>1, <3>2, MinusInShape
    <3>4. PICK C \in ChainsUpTo(q) : ScoreUpTo(C, q) = table[q].score
      BY <1>1, <3>2
    <3>5. C \in Chains /\ \A r \in C, f \in Func : r[f] <= q[f]
      BY <3>4 DEF ChainsUpTo
    <3>6. /\ o # Func => TransitionScore(p, o) = table[q].score - Cardinality(o)
          /\ o = Func /\ IsMatch(p) => TransitionScore(p, o) = table[q].score + MatchScore(p)
          /\ o = Func /\ ~ IsMatch(p) => TransitionScore(p, o) < - Length(p)
      BY <1>1, <3>2, StepScores
    <3>7. \A f \in Func : /\ q[f] \in Nat /\ p[f] \in Nat
                          /\ q[f] = IF f \in o THEN p[f] - 1 ELSE p[f]
      BY <3>3 DEF Minus, Point
    <3>8. \A r \in C, f \in Func : r[f] \in Nat
      BY <3>5, ChainProperties DEF Point
    <3> HIDE DEF q, T
    <3>9. CASE o # Func
      <4>1. C \in ChainsUpTo(p)
        BY <3>5, <3>7, <3>8 DEF ChainsUpTo
      <4>2. ScoreUpTo(C, p) = ScoreUpTo(C, q) - Cardinality(o)
        BY <3>2, <3>5, ScoreOfGap DEF q
      <4>3. QED BY <3>2, <3>4, <3>6, <3>9, <4>1, <4>2
    <3>10. CASE o = Func /\ IsMatch(p)
      <4> DEFINE D == C \cup {p}
      <4>1. /\ \A f \in Func : p[f] > 0 /\ q[f] = p[f] - 1
            /\ \A r \in C, f \in Func : r[f] < p[f]
        BY <3>2, <3>5, <3>7, <3>8, <3>10 DEF Offsets
      <4>2. D \in Chains
        <5>1. /\ C \in SUBSET {r \in Point : InShape(r) /\ (\A f \in Func : r[f] > 0) /\ IsMatch(r)}
              /\ \A r, s \in C : r = s \/ (\A f \in Func : r[f] < s[f])
                                        \/ (\A f \in Func : s[f] < r[f])
          BY <3>5, Zenon DEF Chains
        <5>2. D \in SUBSET {r \in Point : InShape(r) /\ (\A f \in Func : r[f] > 0) /\ IsMatch(r)}
          BY <1>1, <3>10, <4>1, <5>1
        <5>3. ASSUME NEW r \in D, NEW s \in D
              PROVE  r = s \/ (\A f \in Func : r[f] < s[f]) \/ (\A f \in Func : s[f] < r[f])
          <6>1. CASE r \in C /\ s \in C
            BY <5>1, <6>1
          <6>2. CASE r = p \/ s = p
            BY <4>1, <6>2
          <6>3. QED BY <6>1, <6>2
        <5> HIDE DEF D
        <5>4. QED BY <5>2, <5>3, Zenon DEF Chains
      <4>3. D \in ChainsUpTo(p)
        <5>1. ASSUME NEW r \in D, NEW f \in Func PROVE r[f] <= p[f]
          <6>1. CASE r \in C
            BY <3>7, <3>8, <4>1, <6>1
          <6>2. CASE r = p
            BY <3>7, <6>2
          <6>3. QED BY <6>1, <6>2
        <5> HIDE DEF D
        <5>2. QED BY <4>2, <5>1 DEF ChainsUpTo
      <4>4. p \notin C
        <5>1. 1 \in Func
          BY NWAssumption DEF Func
        <5>2. QED BY <3>7, <4>1, <5>1
      <4>5. p \in D /\ D \ {p} = C
        BY <4>4
      <4> HIDE DEF D
      <4>6. ScoreUpTo(D, p) = ScoreUpTo(C, Minus(p, Func)) + MatchScore(p)
        BY <4>2, <4>5, ScoreOfMatch
      <4>7. Minus(p, Func) = q
        BY <3>10 DEF q
      <4>8. ScoreUpTo(D, p) = table[p].score
        BY <3>2, <3>4, <3>6, <3>10, <4>6, <4>7
      <4>9. QED BY <4>3, <4>8
    <3>11. CASE o = Func /\ ~ IsMatch(p)
      <4>1. table[p].score < - Length(p)
        BY <3>2, <3>6, <3>11
      <4>2. - Length(p) <= table[p].score
        BY <1>1, ScoreBounds
      <4>3. Length(p) \in Nat /\ table[p].score \in Int
        BY LengthProperties DEF TypeOK, Entry
      <4>4. QED BY <4>1, <4>2, <4>3
    <3>12. QED BY <3>9, <3>10, <3>11
  <2>3. QED BY <2>1, <2>2
<1>2. T \in SUBSET Point
  OBVIOUS
<1>3. \A p \in Point : InShape(p) /\ (\A o \in Offsets(p) : Minus(p, o) \in T) => p \in T
  BY <1>1
<1> HIDE DEF T
<1>4. \A p \in Point : InShape(p) => p \in T
  BY <1>2, <1>3, PointInduction
<1>5. QED BY <1>4 DEF T

(* What a step of buildAlignment adds to the score. *)
LEMMA TraceBackScore ==
  ASSUME ScoresFit, TypeOK, ShapeInv, BestInv, TraceBack
  PROVE  \E c \in Column :
           /\ alignment' = Append(alignment, c)
           /\ EntryScore(c) = table[cursor].score - table[cursor'].score
           /\ EntryScore(c) \in Int
<1> DEFINE o == table[cursor].offset
           v == [f \in Func |-> IF f \in o THEN cursor[f] ELSE 0]
           c == [values |-> v, match |-> table[cursor].match]
           q == Minus(cursor, o)
<1>1. pc = "trace" /\ cursor # Origin /\ cursor \in Point /\ InShape(cursor)
  BY DEF TraceBack, TypeOK, ShapeInv
<1>2. BestEntry(cursor)
  BY <1>1 DEF BestInv, Computed
<1>3. /\ o \in Offsets(cursor) /\ (table[cursor].match <=> o = Func /\ IsMatch(cursor))
      /\ table[cursor].score = TransitionScore(cursor, o)
  BY <1>2 DEF BestEntry
<1>4. c \in Column
  <2>1. table[cursor].match \in BOOLEAN
    BY <1>1 DEF TypeOK, Entry
  <2>2. \A f \in Func : cursor[f] \in Nat
    BY <1>1 DEF Point
  <2>3. v \in [Func -> Nat]
    BY <2>2
  <2> HIDE DEF v
  <2> QED BY <2>1, <2>3 DEF Column
<1>5. alignment' = Append(alignment, c) /\ cursor' = q
  BY DEF TraceBack
<1>6. c.values = v /\ c.match = table[cursor].match
  OBVIOUS
<1>7. {f \in Func : v[f] # 0} = o
  BY <1>3, <1>1 DEF Offsets, Point
<1>8. /\ o # Func => table[cursor].score = table[q].score - Cardinality(o)
      /\ o = Func /\ IsMatch(cursor) => table[cursor].score = table[q].score + MatchScore(cursor)
      /\ ~ (o = Func /\ ~ IsMatch(cursor))
  <2>1. - Length(cursor) <= table[cursor].score
    BY <1>1, ScoreBounds
  <2>2. Length(cursor) \in Nat /\ table[cursor].score \in Int
    BY <1>1, LengthProperties DEF TypeOK, Entry
  <2>3. /\ o # Func => TransitionScore(cursor, o) = table[q].score - Cardinality(o)
        /\ o = Func /\ IsMatch(cursor) =>
             TransitionScore(cursor, o) = table[q].score + MatchScore(cursor)
        /\ o = Func /\ ~ IsMatch(cursor) => TransitionScore(cursor, o) < - Length(cursor)
    BY <1>1, <1>3, StepScores
  <2> HIDE DEF o, q
  <2>4. QED BY <1>3, <2>1, <2>2, <2>3
<1>9. table[q].score \in Int /\ Cardinality(o) \in Nat
  BY <1>1, <1>3, MinusComesBefore, FuncFinite DEF TypeOK, Entry, Offsets
<1>10. o = Func => v = cursor
  BY <1>1 DEF Point
<1> HIDE DEF c, q, o
<1>11. CASE o = Func
  <2>1. c.match /\ c.values = cursor
    BY <1>3, <1>6, <1>8, <1>10, <1>11
  <2>2. EntryScore(c) = MatchScore(cursor)
    BY <2>1 DEF EntryScore
  <2>3. MatchScore(cursor) \in Int
    BY MatchScoreType
  <2>4. EntryScore(c) = table[cursor].score - table[q].score
    BY <1>8, <1>9, <1>11, <2>2, <2>3
  <2>5. QED BY <1>4, <1>5, <2>2, <2>3, <2>4
<1>12. CASE o # Func
  <2>1. ~ c.match /\ {f \in Func : c.values[f] # 0} = o
    BY <1>3, <1>6, <1>7, <1>12
  <2>2. EntryScore(c) = GapPenalty * Cardinality(o)
    BY <1>12, <2>1 DEF EntryScore
  <2>3. EntryScore(c) = - Cardinality(o)
    BY <1>9, <2>2 DEF GapPenalty
  <2>4. EntryScore(c) = table[cursor].score - table[q].score
    BY <1>8, <1>9, <1>12, <2>3
  <2>5. QED BY <1>4, <1>5, <1>9, <2>3, <2>4
<1>13. QED BY <1>11, <1>12

LEMMA EntryScoreType == \A e : EntryScore(e) \in Int
<1> SUFFICES ASSUME NEW e PROVE EntryScore(e) \in Int
  OBVIOUS
<1> DEFINE present == {f \in Func : e.values[f] # 0}
<1>1. Cardinality(present) \in Nat
  BY FuncFinite
<1>2. MatchScore(e.values) \in Int
  BY MatchScoreType
<1> HIDE DEF present
<1>3. (IF present = Func THEN Mismatch ELSE GapPenalty * Cardinality(present)) \in Int
  BY <1>1 DEF Mismatch, MinScore, GapPenalty
<1>4. QED BY <1>2, <1>3 DEF EntryScore, present

LEMMA TotalScoreAppend ==
  ASSUME TypeOK, [Next]_vars, NEW c \in Column, alignment' = Append(alignment, c)
  PROVE  TotalScore' = TotalScore + EntryScore(c) /\ TotalScore \in Int
<1> DEFINE n == Len(alignment)
           g == [k \in DOMAIN alignment |-> EntryScore(alignment[k])]
           h == [k \in DOMAIN alignment' |-> EntryScore(alignment'[k])]
<1>1. /\ n \in Nat /\ DOMAIN alignment = 1 .. n /\ DOMAIN alignment' = 1 .. n + 1
      /\ \A k \in 1 .. n : alignment'[k] = alignment[k]
      /\ alignment'[n + 1] = c
  BY DEF TypeOK
<1>2. \A e : EntryScore(e)' = EntryScore(e)
  BY SimilarityConstant DEF EntryScore
<1>3. TotalScore = SumFunctionOnSet(g, 1 .. n)
  BY <1>1 DEF TotalScore, SumFunction
<1>4. TotalScore' = SumFunctionOnSet(h, 1 .. n + 1)
  <2>1. [k \in DOMAIN alignment |-> EntryScore(alignment[k])]' = h
    BY <1>2
  <2>2. DOMAIN h = 1 .. n + 1
    BY <1>1
  <2> HIDE DEF h
  <2>3. TotalScore' = SumFunction(h)
    BY <2>1 DEF TotalScore
  <2>4. QED BY <2>2, <2>3 DEF SumFunction
<1>5. \A k \in 1 .. n : g[k] = h[k] /\ g[k] \in Int
  BY <1>1, EntryScoreType
<1>6. h[n + 1] = EntryScore(c) /\ \A k \in 1 .. n + 1 : h[k] \in Int
  BY <1>1, EntryScoreType
<1> HIDE DEF n, g, h
<1>7. IsFiniteSet(1 .. n) /\ IsFiniteSet(1 .. n + 1)
  BY <1>1, FS_Interval
<1>8. n + 1 \in 1 .. n + 1 /\ (1 .. n + 1) \ {n + 1} = 1 .. n
  BY <1>1
<1>9. SumFunctionOnSet(h, 1 .. n + 1) = h[n + 1] + SumFunctionOnSet(h, 1 .. n)
  BY <1>6, <1>7, <1>8, SumProperties
<1>10. SumFunctionOnSet(g, 1 .. n) \in Int
           /\ SumFunctionOnSet(h, 1 .. n) = SumFunctionOnSet(g, 1 .. n)
  BY <1>5, <1>7, SumProperties
<1>11. EntryScore(c) \in Int
  BY EntryScoreType
<1>12. QED BY <1>3, <1>4, <1>6, <1>9, <1>10, <1>11

LEMMA ScoreInvNext ==
  ASSUME ScoresFit, TypeOK, ShapeInv, BehindCursor, BestInv, ScoreInv, [Next]_vars
  PROVE  ScoreInv'
<1>1. Corner' = Corner /\ seqs' = seqs
  BY SimilarityConstant, SeqsConstant
<1>2. CASE Reject \/ InitScoreTable \/ Fill
  BY <1>2 DEF ScoreInv, Reject, InitScoreTable, Fill, FillPoint
<1>3. CASE EndFill
  <2>1. alignment' = << >> /\ cursor' = Corner /\ table' = table
    BY <1>3 DEF EndFill, BehindCursor
  <2>2. TotalScore' = 0
    <3>1. DOMAIN alignment' = {}
      BY <2>1
    <3> DEFINE h == [k \in DOMAIN alignment' |-> EntryScore(alignment'[k])]
    <3>2. DOMAIN h = {} /\ \A k \in {} : h[k] \in Int
      BY <3>1
    <3>a. \A e : EntryScore(e)' = EntryScore(e)
      BY SimilarityConstant DEF EntryScore
    <3>b. [k \in DOMAIN alignment |-> EntryScore(alignment[k])]' = h
      BY <3>a
    <3> HIDE DEF h
    <3>3. TotalScore' = SumFunction(h)
      BY <3>b DEF TotalScore
    <3>4. IsFiniteSet({})
      BY FS_EmptySet
    <3>5. SumFunctionOnSet(h, {}) = 0
      BY <3>2, <3>4, SumProperties
    <3>6. QED BY <3>2, <3>3, <3>5 DEF SumFunction
  <2>3. table[Corner].score \in Int
    BY Lengths DEF TypeOK, Entry
  <2>4. QED BY <1>1, <2>1, <2>2, <2>3 DEF ScoreInv
<1>4. CASE TraceBack
  <2>1. PICK c \in Column :
           /\ alignment' = Append(alignment, c)
           /\ EntryScore(c) = table[cursor].score - table[cursor'].score
           /\ EntryScore(c) \in Int
    BY <1>4, TraceBackScore
  <2>2. TotalScore' = TotalScore + EntryScore(c) /\ TotalScore \in Int
    BY <2>1, TotalScoreAppend
  <2>3. TotalScore + table[cursor].score = table[Corner].score /\ table' = table
    BY <1>4 DEF ScoreInv, TraceBack
  <2>4. cursor \in Point /\ table[cursor].score \in Int
    BY DEF TypeOK, Entry
  <2>5. BestEntry(cursor) /\ cursor' = Minus(cursor, table[cursor].offset)
    BY <1>4 DEF TraceBack, BestInv, Computed, ShapeInv, TypeOK
  <2>6. cursor' \in Point
    BY <2>4, <2>5, MinusComesBefore DEF BestEntry
  <2>7. table[cursor'].score \in Int
    BY <2>6 DEF TypeOK, Entry
  <2>8. TotalScore' + table[cursor'].score = table[Corner].score
    BY <2>1, <2>2, <2>3, <2>4, <2>7
  <2>9. QED BY <1>1, <2>3, <2>8 DEF ScoreInv
<1>5. CASE EndTrace \/ UNCHANGED vars
  <2>1. alignment' = alignment /\ cursor' = cursor /\ table' = table
        /\ (pc' \in {"trace", "aligned"} => pc \in {"trace", "aligned"})
    BY <1>5 DEF EndTrace, vars
  <2>2. \A e : EntryScore(e)' = EntryScore(e)
    BY SimilarityConstant DEF EntryScore
  <2>3. TotalScore' = TotalScore
    BY <2>1, <2>2 DEF TotalScore
  <2>4. QED BY <1>1, <2>1, <2>3 DEF ScoreInv
<1>6. QED BY <1>2, <1>3, <1>4, <1>5 DEF Next

LEMMA InductiveScores ==
  ASSUME ScoresFit
  PROVE  Spec => [](IInv /\ BestInv /\ ScoreInv)
<1>1. Init => BestInv /\ ScoreInv
  BY DEF Init, BestInv, ScoreInv, Computed
<1>2. IInv /\ BestInv /\ ScoreInv /\ [Next]_vars => (BestInv /\ ScoreInv)'
  <2> SUFFICES ASSUME IInv, BestInv, ScoreInv, [Next]_vars PROVE (BestInv /\ ScoreInv)'
    OBVIOUS
  <2>1. BestInv'
    BY BestInvNext DEF IInv
  <2>2. ScoreInv'
    BY ScoreInvNext DEF IInv
  <2>3. QED BY <2>1, <2>2
<1>3. QED BY <1>1, <1>2, Inductive, PTL DEF Spec

(* The score that buildScoreTable computes is that of the best alignment,   *)
(* and buildAlignment returns an alignment with this score: none is better. *)
THEOREM AlignmentIsBest ==
  ASSUME ScoresFit
  PROVE  Spec => []AlignmentIsOptimal
<1>1. IInv /\ BestInv /\ ScoreInv => AlignmentIsOptimal
  <2> SUFFICES ASSUME IInv, BestInv, ScoreInv, pc = "aligned"
               PROVE  /\ \E C \in Chains : ChainScore(C) = TotalScore
                      /\ \A C \in Chains : ChainScore(C) <= TotalScore
    BY DEF AlignmentIsOptimal, TotalScore
  <2>1. TypeOK /\ cursor = Origin
    BY DEF IInv, BehindCursor
  <2>2. Corner \in Point /\ InShape(Corner)
    BY <2>1, Lengths
  <2>3. TotalScore = table[Corner].score
    <3>1. TotalScore + table[Origin].score = table[Corner].score /\ table[Origin].score = 0
      BY <2>1 DEF ScoreInv, BestInv
    <3>2. TotalScore \in Int
      <4> DEFINE g == [k \in DOMAIN alignment |-> EntryScore(alignment[k])]
      <4>1. DOMAIN alignment = 1 .. Len(alignment) /\ Len(alignment) \in Nat
        BY <2>1 DEF TypeOK
      <4>2. DOMAIN g = 1 .. Len(alignment) /\ \A k \in 1 .. Len(alignment) : g[k] \in Int
        BY <4>1, EntryScoreType
      <4>3. IsFiniteSet(1 .. Len(alignment))
        BY <4>1, FS_Interval
      <4>4. TotalScore = SumFunction(g)
        BY DEF TotalScore
      <4> HIDE DEF g
      <4>5. QED BY <4>2, <4>3, <4>4, SumProperties DEF SumFunction
    <3>3. QED BY <3>1, <3>2
  <2>4. \A C \in Chains : C \in ChainsUpTo(Corner)
    BY <2>1, ChainProperties DEF ChainsUpTo, InShape, Corner
  <2>5. ASSUME NEW C \in Chains PROVE ChainScore(C) = ScoreUpTo(C, Corner)
    <3> DEFINE profit == [p \in C |-> MatchScore(p)]
    <3>1. IsFiniteSet(C) /\ \A p \in C : p \in Point
      BY <2>1, ChainProperties
    <3>2. \A p \in C : profit[p] \in Int /\ Profits[p] = profit[p]
      BY <3>1, MatchScoreType DEF Profits
    <3>3. DOMAIN profit = C /\ DOMAIN Corner = Func
      BY DEF Corner
    <3>4. ChainScore(C) = SumFunction(profit)
            + GapPenalty * (SumFunction(Corner) - NumFunctions * Cardinality(C))
      BY DEF ChainScore
    <3> HIDE DEF profit
    <3>5. SumFunctionOnSet(Profits, C) = SumFunctionOnSet(profit, C)
      BY <3>1, <3>2, SumProperties
    <3>6. SumFunction(profit) = SumFunctionOnSet(Profits, C) /\ SumFunction(Corner) = Length(Corner)
      BY <3>3, <3>5 DEF SumFunction, Length
    <3>7. QED BY <3>4, <3>6 DEF ScoreUpTo
  <2>6. PICK C \in ChainsUpTo(Corner) : ScoreUpTo(C, Corner) = table[Corner].score
    BY <2>1, <2>2, SomeChainIsAsGood
  <2>7. C \in Chains
    BY DEF ChainsUpTo
  <2>8. \A D \in ChainsUpTo(Corner) : ScoreUpTo(D, Corner) <= table[Corner].score
    BY <2>1, <2>2, NoChainIsBetter
  <2>9. QED BY <2>3, <2>4, <2>5, <2>6, <2>7, <2>8
<1>2. QED BY <1>1, InductiveScores, PTL

(***************************************************************************)
(* The linear cursor                                                       *)
(***************************************************************************)
(* How far apart two points are in the array that differ by one in         *)
(* dimension h + 1.                                                        *)
Stride(h) == Product(Corner, 1 .. h)

LEMMA StrideProperties ==
  ASSUME TypeOK
  PROVE  /\ Stride(0) = 1
         /\ \A f \in Func : /\ Stride(f - 1) \in Nat
                            /\ Stride(f) = Stride(f - 1) + Len(seqs[f]) * Stride(f - 1)
<1>1. ASSUME NEW h \in 0 .. NumFunctions
      PROVE  IsFiniteSet(1 .. h) /\ \A f \in 1 .. h : Corner[f] \in Nat
  <2>1. h \in Nat /\ \A f \in 1 .. h : f \in Func
    BY NWAssumption DEF Func
  <2>2. IsFiniteSet(1 .. h)
    BY <2>1, FS_Interval
  <2>3. QED BY <2>1, <2>2, Lengths DEF Corner
<1>2. Stride(0) = 1
  <2>1. IsFiniteSet({})
    BY FS_EmptySet
  <2>2. Product(Corner, {}) = 1
    BY <2>1, ProductProperties
  <2>3. 1 .. 0 = {}
    OBVIOUS
  <2>4. QED BY <2>2, <2>3 DEF Stride
<1>3. ASSUME NEW f \in Func
      PROVE  Stride(f - 1) \in Nat /\ Stride(f) = Stride(f - 1) + Len(seqs[f]) * Stride(f - 1)
  <2> DEFINE g == f - 1
             s == Stride(g)
             l == Len(seqs[f])
  <2>1. g \in 0 .. NumFunctions /\ f \in 0 .. NumFunctions /\ f \in 1 .. f
        /\ (1 .. f) \ {f} = 1 .. g
    BY NWAssumption DEF Func
  <2> HIDE DEF g
  <2>2. s \in Nat
    BY <1>1, <2>1, ProductProperties DEF Stride
  <2>3. Product(Corner, 1 .. f) = (Corner[f] + 1) * Product(Corner, (1 .. f) \ {f})
    BY <1>1, <2>1, ProductProperties
  <2>4. Corner[f] = l /\ l \in Nat
    BY Lengths DEF Corner
  <2>5. Stride(f) = (l + 1) * s
    BY <2>1, <2>3, <2>4 DEF Stride
  <2> HIDE DEF s, l
  <2>6. (l + 1) * s = s + l * s
    BY <2>2, <2>4
  <2>7. s \in Nat /\ Stride(f) = s + l * s
    BY <2>2, <2>5, <2>6
  <2>8. QED BY <2>7 DEF s, l, g
<1>4. QED BY <1>2, <1>3

(* The index of a point in a table with this far corner. *)
IndexIn(p, corner) == SumFunction([f \in Func |-> p[f] * Product(corner, 1 .. f - 1)])

LEMMA LinearIndexIn == \A p : LinearIndex(p) = IndexIn(p, Corner)
BY DEF LinearIndex, IndexIn, Product

(* What the dimensions up to h contribute to an index. *)
Terms(p) == [f \in Func |-> p[f] * FoldFunctionOnSet(LAMBDA n, acc : (n + 1) * acc,
                                                     1, Corner, 1 .. f - 1)]
Partial(p, h) == SumFunctionOnSet(Terms(p), 1 .. h)

LEMMA PartialProperties ==
  ASSUME TypeOK, NEW p \in Point
  PROVE  /\ LinearIndex(p) = Partial(p, NumFunctions)
         /\ Partial(p, 0) = 0
         /\ \A f \in Func : /\ Partial(p, f - 1) \in Int
                            /\ Partial(p, f) = Partial(p, f - 1) + p[f] * Stride(f - 1)
<1> DEFINE t == Terms(p)
<1>1. ASSUME NEW f \in Func PROVE t[f] = p[f] * Stride(f - 1) /\ t[f] \in Int
  <2>1. t[f] = p[f] * Stride(f - 1)
    BY DEF Terms, Stride, Product
  <2>2. p[f] \in Int /\ Stride(f - 1) \in Int
    BY StrideProperties DEF Point
  <2> HIDE DEF t
  <2>3. QED BY <2>1, <2>2
<1>2. DOMAIN t = 1 .. NumFunctions /\ LinearIndex(p) = SumFunction(t)
  BY DEF LinearIndex, Terms, Func
<1> HIDE DEF t
<1>3. Partial(p, 0) = 0
  <2>1. IsFiniteSet({}) /\ 1 .. 0 = {}
    BY FS_EmptySet
  <2>2. SumFunctionOnSet(t, {}) = 0
    BY <2>1, SumProperties
  <2>3. QED BY <2>1, <2>2 DEF Partial, t
<1>4. ASSUME NEW f \in Func
      PROVE  /\ Partial(p, f - 1) \in Int
             /\ Partial(p, f) = Partial(p, f - 1) + p[f] * Stride(f - 1)
  <2> DEFINE g == f - 1
  <2>1. /\ g \in Nat /\ f \in Nat /\ f \in 1 .. f /\ (1 .. f) \ {f} = 1 .. g
        /\ 1 .. f \subseteq Func /\ 1 .. g \subseteq Func
    BY NWAssumption DEF Func
  <2> HIDE DEF g
  <2>2. IsFiniteSet(1 .. g) /\ IsFiniteSet(1 .. f)
    BY <2>1, FS_Interval
  <2>3. \A x \in 1 .. f : t[x] \in Int
    BY <1>1, <2>1
  <2>4. \A x \in 1 .. g : t[x] \in Int
    BY <1>1, <2>1
  <2>5. SumFunctionOnSet(t, 1 .. g) \in Int
    BY <2>2, <2>4, SumProperties
  <2>6. SumFunctionOnSet(t, 1 .. f) = t[f] + SumFunctionOnSet(t, (1 .. f) \ {f})
    BY <2>1, <2>2, <2>3, SumProperties
  <2>7. Partial(p, f) = t[f] + Partial(p, g) /\ Partial(p, g) \in Int
    BY <2>1, <2>5, <2>6 DEF Partial, t
  <2>8. t[f] \in Int /\ t[f] = p[f] * Stride(f - 1)
    BY <1>1
  <2>9. Partial(p, f) = Partial(p, g) + t[f]
    BY <2>7, <2>8
  <2>10. QED BY <2>7, <2>8, <2>9 DEF g
<1>5. LinearIndex(p) = Partial(p, NumFunctions)
  BY <1>2 DEF Partial, SumFunction, t
<1>6. QED BY <1>3, <1>4, <1>5

(* advancePointInShape moves to the next entry of the array. *)
LEMMA AdvancedIndex ==
  ASSUME TypeOK, ShapeInv, NEW f \in Func, CanAdvance(f)
  PROVE  LinearIndex(Advanced(f)) = LinearIndex(point) + 1
<1> DEFINE a == Advanced(f)
           Holds(h) == /\ h < f => Partial(a, h) = 0 /\ Partial(point, h) = Stride(h) - 1
                       /\ h >= f => Partial(a, h) = Partial(point, h) + 1
           T == {h \in Nat : h <= NumFunctions => Holds(h)}
<1>1. a \in Point /\ point \in Point
  BY AdvancedProperties DEF ShapeInv, TypeOK
<1>2. \A g \in Func : /\ a[g] = IF g < f THEN 0 ELSE IF g = f THEN point[g] + 1 ELSE point[g]
                      /\ point[g] \in Nat
                      /\ g < f => point[g] = Len(seqs[g])
  BY NWAssumption DEF Advanced, TypeOK, Point, CanAdvance, Func
<1>3. NumFunctions \in Nat /\ f \in 1 .. NumFunctions
  BY NWAssumption DEF Func
<1> HIDE DEF a
<1>4. 0 \in T
  <2>1. Partial(a, 0) = 0 /\ Partial(point, 0) = 0 /\ Stride(0) = 1
    BY <1>1, PartialProperties, StrideProperties
  <2>2. QED BY <1>3, <2>1
<1>5. ASSUME NEW n \in T PROVE n + 1 \in T
  <2> DEFINE h == n + 1
  <2> SUFFICES ASSUME h <= NumFunctions PROVE Holds(h)
    OBVIOUS
  <2>1. h \in Func /\ h - 1 = n /\ n \in Nat /\ h \in Nat
    BY <1>3 DEF Func
  <2>2. Holds(n)
    <3>1. n <= NumFunctions
      BY <1>3, <2>1
    <3>2. QED BY <3>1
  <2> HIDE DEF h
  <2>3. /\ Partial(a, h) = Partial(a, n) + a[h] * Stride(n) /\ Partial(a, n) \in Int
        /\ Partial(point, h) = Partial(point, n) + point[h] * Stride(n) /\ Partial(point, n) \in Int
        /\ Stride(n) \in Nat /\ Stride(h) = Stride(n) + Len(seqs[h]) * Stride(n)
    BY <1>1, <2>1, PartialProperties, StrideProperties
  <2> DEFINE s == Stride(n)
             x == point[h]
  <2>4. s \in Nat /\ x \in Nat /\ x * s \in Int
    BY <1>2, <2>1, <2>3
  <2>5. CASE h < f
    <3>1. a[h] = 0 /\ x = Len(seqs[h]) /\ n < f
      BY <1>2, <1>3, <2>1, <2>5
    <3>2. Partial(a, n) = 0 /\ Partial(point, n) = s - 1
      BY <2>2, <3>1
    <3>3. Partial(a, h) = 0 * s /\ Partial(point, h) = s - 1 + x * s /\ Stride(h) = s + x * s
      BY <2>3, <3>1, <3>2, <2>4
    <3> HIDE DEF s, x
    <3>4. Partial(a, h) = 0 /\ Partial(point, h) = Stride(h) - 1
      BY <2>4, <3>3
    <3>5. QED BY <1>3, <2>1, <2>5, <3>4
  <2>6. CASE h = f
    <3>1. a[h] = x + 1 /\ n < f /\ Partial(a, n) = 0 /\ Partial(point, n) = s - 1
      BY <1>2, <1>3, <2>1, <2>2, <2>6
    <3>2. Partial(a, h) = (x + 1) * s /\ Partial(point, h) = s - 1 + x * s
      BY <2>3, <2>4, <3>1
    <3> HIDE DEF s, x
    <3>3. (x + 1) * s = x * s + s
      BY <2>4
    <3>4. Partial(a, h) = Partial(point, h) + 1
      BY <2>4, <3>2, <3>3
    <3>5. QED BY <1>3, <2>1, <2>6, <3>4
  <2>7. CASE h > f
    <3>1. a[h] = x /\ n >= f
      BY <1>2, <1>3, <2>1, <2>7
    <3>2. Partial(a, n) = Partial(point, n) + 1
      BY <2>2, <3>1
    <3>3. Partial(a, h) = Partial(point, n) + 1 + x * s
              /\ Partial(point, h) = Partial(point, n) + x * s
      BY <2>3, <3>1, <3>2
    <3> HIDE DEF s, x
    <3>4. Partial(a, h) = Partial(point, h) + 1
      BY <2>3, <2>4, <3>3
    <3>5. QED BY <1>3, <2>1, <2>7, <3>4
  <2>8. QED BY <1>3, <2>1, <2>5, <2>6, <2>7
<1>6. T \in SUBSET Nat
  OBVIOUS
<1> HIDE DEF T
<1>7. T = Nat
  BY <1>4, <1>5, <1>6, NatSet
<1>8. Partial(a, NumFunctions) = Partial(point, NumFunctions) + 1
  BY <1>3, <1>7 DEF T
<1>9. QED BY <1>1, <1>8, PartialProperties DEF a

CursorInv == (pc = "linearized" => index = 0) /\ CursorMatchesPoint

LEMMA CursorInvNext ==
  ASSUME TypeOK, ShapeInv, VisitedInv, CursorInv, [Next]_vars
  PROVE  CursorInv'
<1>1. \A p : LinearIndex(p)' = LinearIndex(p)
  <2>1. (\A p : LinearIndex(p) = IndexIn(p, Corner))'
    BY LinearIndexIn, PTL
  <2>2. \A p : LinearIndex(p)' = IndexIn(p, Corner')
    BY <2>1
  <2>3. Corner' = Corner
    BY SimilarityConstant
  <2>4. QED BY <2>2, <2>3, LinearIndexIn
<1>2. CASE Reject \/ EndFill \/ TraceBack \/ EndTrace
  BY <1>2 DEF CursorInv, CursorMatchesPoint, Reject, EndFill, TraceBack, EndTrace
<1>3. CASE InitScoreTable
  <2>1. pc' = "fill" /\ point' = Origin /\ index' = 0
    BY <1>3 DEF InitScoreTable, VisitedInv, CursorInv
  <2>2. LinearIndex(Origin) = 0
    <3> DEFINE T == {h \in Nat : h <= NumFunctions => Partial(Origin, h) = 0}
    <3>1. Origin \in Point /\ NumFunctions \in Nat
      BY OriginProperties, NWAssumption
    <3>2. 0 \in T
      BY <3>1, PartialProperties
    <3>3. ASSUME NEW n \in T PROVE n + 1 \in T
      <4> SUFFICES ASSUME n + 1 <= NumFunctions PROVE Partial(Origin, n + 1) = 0
        OBVIOUS
      <4> DEFINE h == n + 1
      <4>1. h \in Func /\ h - 1 = n /\ Partial(Origin, n) = 0
        BY <3>1 DEF Func
      <4> HIDE DEF h
      <4>2. Partial(Origin, h) = Partial(Origin, n) + Origin[h] * Stride(n) /\ Stride(n) \in Nat
        BY <3>1, <4>1, PartialProperties, StrideProperties
      <4>3. Origin[h] = 0
        BY <4>1 DEF Origin
      <4>4. Partial(Origin, h) = 0
        BY <4>1, <4>2, <4>3
      <4>5. QED BY <4>4 DEF h
    <3>4. T \in SUBSET Nat
      OBVIOUS
    <3> HIDE DEF T
    <3>5. T = Nat
      BY <3>2, <3>3, <3>4, NatSet
    <3>6. Partial(Origin, NumFunctions) = 0
      BY <3>1, <3>5 DEF T
    <3>7. QED BY <3>1, <3>6, PartialProperties
  <2>3. LinearIndex(point)' = 0
    BY <1>1, <2>1, <2>2
  <2>4. QED BY <2>1, <2>3 DEF CursorInv, CursorMatchesPoint
<1>4. ASSUME NEW f \in Func, NEW o \in SUBSET Func, FillPoint(f, o)
      PROVE  CursorInv'
  <2>1. pc = "fill" /\ pc' = "fill" /\ CanAdvance(f) /\ point' = Advanced(f) /\ index' = index + 1
    BY <1>4 DEF FillPoint
  <2>2. LinearIndex(Advanced(f)) = LinearIndex(point) + 1 /\ index = LinearIndex(point)
    BY <2>1, AdvancedIndex DEF CursorInv, CursorMatchesPoint
  <2>3. LinearIndex(point)' = LinearIndex(Advanced(f))
    BY <1>1, <2>1
  <2>4. QED BY <2>1, <2>2, <2>3 DEF CursorInv, CursorMatchesPoint
<1>5. CASE UNCHANGED vars
  <2>1. pc' = pc /\ index' = index /\ point' = point
    BY <1>5 DEF vars
  <2>2. LinearIndex(point)' = LinearIndex(point)
    BY <1>1, <2>1
  <2>3. QED BY <2>1, <2>2 DEF CursorInv, CursorMatchesPoint
<1>6. QED BY <1>2, <1>3, <1>4, <1>5 DEF Next, Fill

(* buildScoreTable steps through the array with the cursor and through the  *)
(* table with the point: they stay together, so every score is written to  *)
(* the entry of the point it is computed for.                              *)
THEOREM CursorStaysAtPoint == Spec => []CursorMatchesPoint
<1>1. Init => CursorInv
  BY DEF Init, CursorInv, CursorMatchesPoint
<1>2. IInv /\ CursorInv /\ [Next]_vars => CursorInv'
  BY CursorInvNext DEF IInv
<1>3. CursorInv => CursorMatchesPoint
  BY DEF CursorInv
<1>4. QED BY <1>1, <1>2, <1>3, Inductive, PTL DEF Spec
=============================================================================
