----------------------------- MODULE NWAligner -----------------------------
(***************************************************************************)
(* NeedlemanWunschMultipleSequenceAligner: the linearized functions are    *)
(* aligned all at once.  A table with one dimension per function is filled *)
(* point by point with the best transition into each point, and the        *)
(* alignment is read off backwards from its far corner.                    *)
(*                                                                         *)
(* The points of the table are functions from Func to prefix lengths: p[f] *)
(* elements of function f are aligned at p.  A transition (FixedBitVector) *)
(* is the set of functions that take one element.                          *)
(***************************************************************************)
EXTENDS Integers, Sequences, FiniteSets, Functions

CONSTANTS
  NumFunctions,    \* number of functions to align
  Value,           \* the elements of a linearized function
  Matching,        \* pairs <<v, w>> with FunctionMerger::match(v, w)
  TypeOf,          \* the type of an element
  Linearizations,  \* the linearized functions that are aligned
  MaxLength,       \* bound on their length
  ShapeSizeLimit,  \* ShapeSizeLimit
  SizeModulus      \* 2^w for a size_t of w bits

ASSUME NWAssumption ==
  /\ NumFunctions \in Nat \ {0}
  /\ MaxLength \in Nat
  /\ Linearizations \subseteq Seq(Value)
  /\ \A s \in Linearizations : Len(s) <= MaxLength
  /\ ShapeSizeLimit \in Nat
  /\ SizeModulus \in Nat \ {0}

Func == 1 .. NumFunctions
Point == [Func -> 0 .. MaxLength]
Origin == [f \in Func |-> 0]

(* Scoring as MSAFunctionMerger::align sets it up, with the scores an       *)
(* OptionalScore can hold.                                                 *)
MinScore == -1073741824
MaxScore == 1073741823
GapPenalty == -1
MatchProfit == 2
Mismatch == MinScore

VARIABLES
  seqs,       \* InstrVecList
  table,      \* BestTransTable
  point,      \* the point buildScoreTable has reached
  index,      \* its TensorTableCursor
  cursor,     \* the Cursor of buildAlignment
  alignment,  \* Alignment; a value is a position in its function, 0 for none
  pc          \* "linearized", "fill", "trace", "aligned" or "rejected"

vars == <<seqs, table, point, index, cursor, alignment, pc>>

(***************************************************************************)
(* Operators over the current state.                                       *)
(***************************************************************************)
Corner == [f \in Func |-> Len(seqs[f])]
InShape(p) == \A f \in Func : p[f] <= Len(seqs[f])

(* The product of the dimensions, as a size_t. *)
ShapeSize ==
  FoldFunction(LAMBDA n, acc : ((n + 1) * acc) % SizeModulus, 1, Corner)

(* TensorTable::getIndex: dimension 1 varies fastest. *)
LinearIndex(p) ==
  SumFunction([f \in Func |->
    p[f] * FoldFunctionOnSet(LAMBDA n, acc : (n + 1) * acc, 1, Corner, 1 .. f - 1)])

(* TransitionEntry *)
Unvisited == [visited |-> FALSE, offset |-> {}, match |-> FALSE, score |-> 0]
Transition(o, m, s) == [visited |-> TRUE, offset |-> o, match |-> m, score |-> s]

(* addScore saturates. *)
AddScore(s, addend) ==
  IF addend > 0 /\ s >= MaxScore - addend THEN MaxScore
  ELSE IF addend < 0 /\ s <= MinScore - addend THEN MinScore
  ELSE s + addend

(* minusOffsetFromPoint *)
Minus(p, o) == [f \in Func |-> IF f \in o THEN p[f] - 1 ELSE p[f]]

(* Mutant: the count goes down to 0, the transition that stays in place. *)
OffsetsDownToZero(p) == {o \in SUBSET Func : \A f \in o : p[f] > 0}

(* The transitions computeBestTransition visits: the binary number of the   *)
(* offset counts down to 1, and those that leave the table are skipped.    *)
Offsets(p) == {o \in SUBSET Func : o # {} /\ \A f \in o : p[f] > 0}

(* o is the larger binary number; the first function is its leading bit. *)
VisitedBefore(o, q) ==
  \E f \in o \ q : \A g \in 1 .. f - 1 : g \in o <=> g \in q

(* matchInstructions, for the elements a diagonal transition into p takes. *)
IsMatch(p) ==
  \A f \in Func \ {1} : <<seqs[f][p[f]], seqs[1][p[1]]>> \in Matching

MatchScore(p) ==
  IF \A f \in Func \ {1} : TypeOf[seqs[f][p[f]]] = TypeOf[seqs[1][p[1]]]
  THEN MatchProfit ELSE MatchProfit \div 2

(* Mutant: a gap costs the same for any number of functions. *)
SimilarityOfOneGap(p, o) ==
  IF o # Func THEN GapPenalty
  ELSE IF IsMatch(p) THEN MatchScore(p)
  ELSE Mismatch

(* The score of a transition: a gap for each function that takes an element *)
(* alone, or the match of all functions.                                   *)
Similarity(p, o) ==
  IF o # Func THEN GapPenalty * Cardinality(o)
  ELSE IF IsMatch(p) THEN MatchScore(p)
  ELSE Mismatch

TransitionScore(p, o) == AddScore(table[Minus(p, o)].score, Similarity(p, o))

(* The first of the transitions with the greatest score. *)
IsBestTransition(p, o) ==
  /\ o \in Offsets(p)
  /\ \A q \in Offsets(p) \ {o} :
       \/ TransitionScore(p, q) < TransitionScore(p, o)
       \/ TransitionScore(p, q) = TransitionScore(p, o) /\ VisitedBefore(o, q)

-----------------------------------------------------------------------------
Init ==
  /\ seqs \in [Func -> Linearizations]
  /\ table = [p \in Point |-> Unvisited]
  /\ point = Origin
  /\ index = 0
  /\ cursor = Origin
  /\ alignment = << >>
  /\ pc = "linearized"

(* align gives up on functions whose table would be too large. *)
Reject ==
  /\ pc = "linearized"
  /\ ShapeSize > ShapeSizeLimit
  /\ pc' = "rejected"
  /\ UNCHANGED <<seqs, table, point, index, cursor, alignment>>

(* initScoreTable: the origin and the axes, where only one transition is    *)
(* possible.                                                               *)
InitScoreTable ==
  /\ pc = "linearized"
  /\ ShapeSize <= ShapeSizeLimit
  /\ table' = [p \in Point |->
       IF p = Origin THEN Transition({}, FALSE, 0)
       ELSE IF InShape(p) /\ \E f \in Func : \A g \in Func \ {f} : p[g] = 0
       THEN LET f == CHOOSE g \in Func : p[g] # 0
            IN Transition({f}, FALSE, GapPenalty * p[f])
       ELSE table[p]]
  /\ pc' = "fill"
  /\ UNCHANGED <<seqs, point, index, cursor, alignment>>

(* advancePointInShape by incrementing dimension f, the first that is not   *)
(* at its end; the dimensions before it start over.                        *)
CanAdvance(f) ==
  point[f] < Len(seqs[f]) /\ \A g \in 1 .. f - 1 : point[g] = Len(seqs[g])

(* Mutant: the dimensions before f do not start over. *)
AdvancedWithoutReset(f) == [point EXCEPT ![f] = @ + 1]

Advanced(f) ==
  [g \in Func |-> IF g < f THEN 0
                  ELSE IF g = f THEN point[g] + 1
                  ELSE point[g]]

(* Mutant: a transition is marked matched wherever the elements match. *)
FillPointMatchingAlways(f, o) ==
  /\ pc = "fill"
  /\ CanAdvance(f)
  /\ IsBestTransition(Advanced(f), o)
  /\ point' = Advanced(f)
  /\ index' = index + 1
  /\ table' = [table EXCEPT ![point'] =
       Transition(o, (\A g \in Func : point'[g] > 0) /\ IsMatch(point'),
                  TransitionScore(point', o))]
  /\ UNCHANGED <<seqs, cursor, alignment, pc>>

(* One round of buildScoreTable.  The entry is written through the linear   *)
(* cursor, which stands at the point by CursorMatchesPoint.                *)
FillPoint(f, o) ==
  /\ pc = "fill"
  /\ CanAdvance(f)
  /\ IsBestTransition(Advanced(f), o)
  /\ point' = Advanced(f)
  /\ index' = index + 1
  /\ table' = [table EXCEPT ![point'] =
       Transition(o, o = Func /\ IsMatch(point'), TransitionScore(point', o))]
  /\ UNCHANGED <<seqs, cursor, alignment, pc>>

Fill == \E f \in Func, o \in SUBSET Func : FillPoint(f, o)

(* Mutant: the way back starts one past the far corner. *)
EndFillPastCorner ==
  /\ pc = "fill"
  /\ \A f \in Func : point[f] = Len(seqs[f])
  /\ point' = Origin
  /\ cursor' = [f \in Func |-> Len(seqs[f]) + 1]
  /\ pc' = "trace"
  /\ UNCHANGED <<seqs, table, index, alignment>>

(* Mutant: the way back starts at the last element instead of behind it. *)
EndFillBeforeCorner ==
  /\ pc = "fill"
  /\ \A f \in Func : point[f] = Len(seqs[f])
  /\ point' = Origin
  /\ cursor' = [f \in Func |-> Len(seqs[f]) - 1]
  /\ pc' = "trace"
  /\ UNCHANGED <<seqs, table, index, alignment>>

(* advancePointInShape wraps around to the origin and returns false;        *)
(* buildAlignment starts at the far corner.                                *)
EndFill ==
  /\ pc = "fill"
  /\ \A f \in Func : point[f] = Len(seqs[f])
  /\ point' = Origin
  /\ cursor' = Corner
  /\ pc' = "trace"
  /\ UNCHANGED <<seqs, table, index, alignment>>

(* One round of buildAlignment: the entry takes an element of every         *)
(* function the transition advances.                                       *)
TraceBack ==
  LET entry == table[cursor] IN
  /\ pc = "trace"
  /\ cursor # Origin
  /\ alignment' = Append(alignment,
       [values |-> [f \in Func |-> IF f \in entry.offset THEN cursor[f] ELSE 0],
        match |-> entry.match])
  /\ cursor' = Minus(cursor, entry.offset)
  /\ UNCHANGED <<seqs, table, point, index, pc>>

EndTrace ==
  /\ pc = "trace"
  /\ cursor = Origin
  /\ pc' = "aligned"
  /\ UNCHANGED <<seqs, table, point, index, cursor, alignment>>

Next ==
  \/ Reject
  \/ InitScoreTable
  \/ Fill
  \/ EndFill
  \/ TraceBack
  \/ EndTrace

Spec == Init /\ [][Next]_vars

(***************************************************************************)
(* Properties                                                              *)
(***************************************************************************)
Entry == [visited : BOOLEAN, offset : SUBSET Func, match : BOOLEAN, score : Int]
Column == [values : [Func -> Nat], match : BOOLEAN]

(* The aligner's variables keep their types; no cursor leaves the table. *)
TypeOK ==
  /\ seqs \in [Func -> Linearizations]
  /\ table \in [Point -> Entry]
  /\ point \in Point
  /\ index \in Nat
  /\ cursor \in Point
  /\ alignment \in Seq(Column)
  /\ pc \in {"linearized", "fill", "trace", "aligned", "rejected"}

(* The asserts of computeBestTransition and buildAlignment: a point is only *)
(* computed from points that were visited before ("non-visited point"),    *)
(* and the way back follows visited entries, which move the cursor but     *)
(* never "to outside the table".                                           *)
AssertionsHold ==
  /\ pc = "fill" =>
       \A f \in Func : CanAdvance(f) =>
         \A o \in Offsets(Advanced(f)) : table[Minus(Advanced(f), o)].visited
  /\ pc = "trace" /\ cursor # Origin =>
       /\ table[cursor].visited
       /\ table[cursor].offset \in Offsets(cursor)

(* The linear cursor that buildScoreTable writes through is the index of    *)
(* the point it computes.                                                  *)
CursorMatchesPoint == pc = "fill" => index = LinearIndex(point)

(* The alignment holds every element of every function exactly once, in     *)
(* the reverse of the function's order.                                    *)
AlignsEveryInstruction ==
  \A f \in Func :
    /\ \A k, l \in DOMAIN alignment :
         k < l /\ alignment[k].values[f] # 0 =>
           alignment[l].values[f] < alignment[k].values[f]
    /\ pc = "aligned" =>
         \A i \in 1 .. Len(seqs[f]) :
           \E k \in DOMAIN alignment : alignment[k].values[f] = i

(* The code generator emits a matched entry once for all functions: it has  *)
(* an element of each, and they match.  Every entry has an element.        *)
MatchedEntriesMatch ==
  \A k \in DOMAIN alignment :
    /\ \E f \in Func : alignment[k].values[f] \in 1 .. Len(seqs[f])
    /\ alignment[k].match =>
         /\ \A f \in Func : alignment[k].values[f] \in 1 .. Len(seqs[f])
         /\ IsMatch(alignment[k].values)

(* What an entry of the alignment adds to its score. *)
EntryScore(e) ==
  LET present == {f \in Func : e.values[f] # 0} IN
  IF e.match THEN MatchScore(e.values)
  ELSE IF present = Func THEN Mismatch
  ELSE GapPenalty * Cardinality(present)

(* The score of the alignment that matches exactly the points of C, a chain *)
(* in which every function advances from point to point.                   *)
ChainScore(C) ==
  LET profit == [p \in C |-> MatchScore(p)]
  IN SumFunction(profit)
       + GapPenalty * (SumFunction(Corner) - NumFunctions * Cardinality(C))

Chains ==
  LET matches == {p \in Point : InShape(p) /\ (\A f \in Func : p[f] > 0) /\ IsMatch(p)}
  IN {C \in SUBSET matches :
        \A p, q \in C : p = q \/ (\A f \in Func : p[f] < q[f])
                              \/ (\A f \in Func : q[f] < p[f])}

(* No alignment of the functions scores better than the one returned. *)
AlignmentIsOptimal ==
  pc = "aligned" =>
    LET score == SumFunction([k \in DOMAIN alignment |-> EntryScore(alignment[k])])
    IN /\ \E C \in Chains : ChainScore(C) = score
       /\ \A C \in Chains : ChainScore(C) <= score

(* The limit on the shape bounds the table that is filled. *)
TableWithinLimit ==
  pc = "fill" =>
    FoldFunction(LAMBDA n, acc : (n + 1) * acc, 1, Corner) <= ShapeSizeLimit
=============================================================================
