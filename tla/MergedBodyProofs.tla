-------------------------- MODULE MergedBodyProofs --------------------------
(***************************************************************************)
(* For any functions, and any alignment of them that an aligner may return, *)
(* the merged function that MSAGenFunctionBody emits executes the elements *)
(* of the function it is called for, in their order: the blocks and the    *)
(* branches between them are those of the alignment (BodyInv), and control *)
(* is always on its way from the element executed last to the one that     *)
(* follows it (RunInv).                                                    *)
(***************************************************************************)
EXTENDS MergedBody, CommonLemmas

(* The groups are well formed: see MergedBodyAssumption. *)
IsGroup ==
  /\ IsFiniteSet(Func)
  /\ Func = 0 .. Cardinality(Func) - 1
  /\ Cardinality(Func) \in Nat /\ Cardinality(Func) >= 2
  /\ \A f \in Func : IsFunction(source[f])
  /\ OperationsAgree(source)

LEMMA SourceIsGroup ==
  ASSUME source \in Groups
  PROVE  IsGroup
  <1>1. IsFiniteSet(Func) /\ Func = 0 .. Cardinality(Func) - 1 /\ Cardinality(Func) >= 2
    BY MergedBodyAssumption DEF Func
  <1>2. Cardinality(Func) \in Nat
    BY <1>1, FS_CardinalityType
  <1>3. \A f \in Func : IsFunction(source[f])
    BY MergedBodyAssumption DEF Func
  <1>4. OperationsAgree(source)
    BY MergedBodyAssumption
  <1>5. QED BY <1>1, <1>2, <1>3, <1>4 DEF IsGroup

LEMMA BaseIsFunc ==
  ASSUME IsGroup
  PROVE  0 \in Func /\ 1 \in Func /\ Base \in Func /\ Func \subseteq Nat
  BY DEF IsGroup, Base

(* The blocks and the instructions of a function are numbered from 1. *)
LEMMA BlocksAreNumbered ==
  ASSUME IsGroup, NEW f \in Func
  PROVE  /\ \E n \in Nat \ {0} : Blocks(f) = 1 .. n
         /\ \A b \in Blocks(f) : /\ Len(source[f][b]) \in Nat \ {0}
                                 /\ DOMAIN source[f][b] = 1 .. Len(source[f][b])
  <1>1. IsFunction(source[f])
    BY DEF IsGroup
  <1>2. /\ source[f] \in Seq(Range(source[f])) /\ source[f] # << >>
        /\ \A b \in Blocks(f) : source[f][b] \in Seq(Range(source[f][b])) /\ source[f][b] # << >>
    BY <1>1 DEF IsFunction, Blocks
  <1>3. \A S : \A s \in Seq(S) : s # << >> => Len(s) \in Nat \ {0} /\ DOMAIN s = 1 .. Len(s)
    OBVIOUS
  <1>4. Len(source[f]) \in Nat \ {0} /\ DOMAIN source[f] = 1 .. Len(source[f])
    BY <1>2, <1>3, Zenon
  <1>5. \A b \in Blocks(f) : Len(source[f][b]) \in Nat \ {0} /\ DOMAIN source[f][b] = 1 .. Len(source[f][b])
    BY <1>2, <1>3, Zenon
  <1>6. QED BY <1>4, <1>5 DEF Blocks

(* A position is a block and a number up to its length. *)
LEMMA PositionsAre ==
  ASSUME IsGroup, NEW f \in Func
  PROVE  /\ \A b, i : <<b, i>> \in Positions(f) <=> b \in Blocks(f) /\ i \in 0 .. Len(source[f][b])
         /\ \A p \in Positions(f) : /\ p = <<p[1], p[2]>>
                                    /\ p[1] \in Blocks(f) /\ p[1] \in Nat
                                    /\ p[2] \in 0 .. Len(source[f][p[1]])
                                    /\ p[2] \in Nat
                                    /\ Len(source[f][p[1]]) \in Nat \ {0}
         /\ 1 \in Blocks(f)
  <1>1. PICK n \in Nat \ {0} : Blocks(f) = 1 .. n
    BY BlocksAreNumbered
  <1>2. \A b \in Blocks(f) : Len(source[f][b]) \in Nat \ {0} /\ b \in Nat
    BY <1>1, BlocksAreNumbered
  <1>3. Positions(f) = UNION {{<<b, i>> : i \in 0 .. Len(source[f][b])} : b \in Blocks(f)}
    BY DEF Positions
  <1>4. \A b, i : <<b, i>> \in Positions(f) <=> b \in Blocks(f) /\ i \in 0 .. Len(source[f][b])
    BY <1>3
  <1>5. ASSUME NEW p \in Positions(f)
        PROVE  \E b \in Blocks(f) : \E i \in 0 .. Len(source[f][b]) : p = <<b, i>>
    BY <1>3
  <1>6. ASSUME NEW p \in Positions(f)
        PROVE  /\ p = <<p[1], p[2]>> /\ p[1] \in Blocks(f)
               /\ p[2] \in 0 .. Len(source[f][p[1]])
    BY <1>5
  <1>7. QED BY <1>1, <1>2, <1>4, <1>6

(* Where control goes from a terminator is the label of a block; only the   *)
(* last instruction of a block has targets.                                *)
LEMMA TargetsAreBlocks ==
  ASSUME IsGroup, NEW f \in Func, NEW p \in Positions(f)
  PROVE  /\ Targets(f, p) \in Seq(Blocks(f))
         /\ ~ IsTerminator(f, p) => Targets(f, p) = << >>
         /\ \A k \in DOMAIN Targets(f, p) : /\ Targets(f, p)[k] \in Blocks(f)
                                            /\ <<Targets(f, p)[k], 0>> \in Positions(f)
         /\ ~ IsTerminator(f, p) => SuccessorPosition(p) \in Positions(f)
         /\ Targets(f, p) # << >> => DOMAIN Targets(f, p) # {}
         /\ 0 \notin DOMAIN Targets(f, p)
         /\ IsLabel(p) => ~ IsTerminator(f, p)
  <1>1. /\ p = <<p[1], p[2]>> /\ p[1] \in Blocks(f) /\ p[2] \in 0 .. Len(source[f][p[1]])
        /\ Len(source[f][p[1]]) \in Nat \ {0} /\ p[2] \in Nat
    BY PositionsAre
  <1>2. IsFunction(source[f])
    BY DEF IsGroup
  <1>3. ~ IsLabel(p) => p[2] \in DOMAIN source[f][p[1]]
    BY <1>1, BlocksAreNumbered DEF IsLabel
  <1>4. ~ IsLabel(p) => /\ Inst(f, p).to \in Seq(Blocks(f))
                        /\ p[2] < Len(source[f][p[1]]) => Inst(f, p).to = << >>
    BY <1>1, <1>2, <1>3 DEF IsFunction, Inst, Blocks
  <1>5. Targets(f, p) \in Seq(Blocks(f))
    BY <1>4 DEF Targets
  <1>6. ~ IsTerminator(f, p) => Targets(f, p) = << >>
    BY <1>1, <1>4 DEF Targets, IsTerminator
  <1>7. \A k \in DOMAIN Targets(f, p) : Targets(f, p)[k] \in Blocks(f)
    BY <1>5
  <1>8. \A b \in Blocks(f) : Len(source[f][b]) \in Nat \ {0}
    BY BlocksAreNumbered
  <1>9. \A b \in Blocks(f) : <<b, 0>> \in Positions(f)
    BY <1>8, PositionsAre
  <1>10. ~ IsTerminator(f, p) => SuccessorPosition(p) \in Positions(f)
    BY <1>1, PositionsAre DEF IsTerminator, SuccessorPosition
  <1>11. (Targets(f, p) # << >> => DOMAIN Targets(f, p) # {}) /\ 0 \notin DOMAIN Targets(f, p)
    <2>1. \A S : \A s \in Seq(S) : s # << >> => Len(s) \in Nat \ {0} /\ DOMAIN s = 1 .. Len(s)
      OBVIOUS
    <2>2. \A S : \A s \in Seq(S) : DOMAIN s = 1 .. Len(s) /\ Len(s) \in Nat
      OBVIOUS
    <2>3. Targets(f, p) # << >> => 1 \in DOMAIN Targets(f, p)
      BY <1>5, <2>1
    <2>4. 0 \notin DOMAIN Targets(f, p)
      BY <1>5, <2>2
    <2>5. QED BY <2>3, <2>4
  <1>12. IsLabel(p) => ~ IsTerminator(f, p)
    BY <1>1 DEF IsLabel, IsTerminator
  <1>13. QED BY <1>5, <1>6, <1>7, <1>9, <1>10, <1>11, <1>12

-----------------------------------------------------------------------------
(* The alignment: no element is matched twice. *)
IsAlignment ==
  /\ alignment \in Seq([Func -> UNION {Positions(f) : f \in Func}])
  /\ \A c \in DOMAIN alignment :
       /\ \A f \in Func : alignment[c][f] \in Positions(f)
       /\ IsMatch(alignment[c])
  /\ \A c, d \in DOMAIN alignment : \A f \in Func :
       alignment[c][f] = alignment[d][f] => c = d

LEMMA MatchedOnce ==
  ASSUME IsAlignment, NEW f \in Func, NEW c \in DOMAIN alignment
  PROVE  /\ IsMatched(f, alignment[c][f])
         /\ NodeOf(f, alignment[c][f]) = Merged(c)
  <1>1. MatchedColumns(f, alignment[c][f]) = {c}
    BY DEF IsAlignment, MatchedColumns
  <1>2. QED BY <1>1 DEF IsMatched, NodeOf

LEMMA MatchedNode ==
  ASSUME IsAlignment, NEW f \in Func, NEW p, IsMatched(f, p)
  PROVE  \E c \in DOMAIN alignment : /\ p = alignment[c][f]
                                     /\ NodeOf(f, p) = Merged(c)
  <1>1. PICK c \in DOMAIN alignment : alignment[c][f] = p
    BY DEF IsMatched, MatchedColumns
  <1>2. QED BY <1>1, MatchedOnce

(* Matched elements end their blocks alike, and have as many targets. *)
LEMMA MatchesAgree ==
  ASSUME IsGroup, IsAlignment, NEW c \in DOMAIN alignment, NEW f \in Func, NEW g \in Func
  PROVE  /\ DOMAIN Targets(f, alignment[c][f]) = DOMAIN Targets(g, alignment[c][g])
         /\ IsTerminator(f, alignment[c][f]) <=> IsTerminator(g, alignment[c][g])
         /\ IsLabel(alignment[c][f]) <=> IsLabel(alignment[c][g])
  <1> DEFINE p == alignment[c]
  <1>1. /\ p[f] \in Positions(f) /\ p[g] \in Positions(g) /\ p[Base] \in Positions(Base)
        /\ IsMatch(p) /\ Base \in Func
    BY BaseIsFunc DEF IsAlignment
  <1>2. CASE \A h \in Func : IsLabel(p[h])
    BY <1>1, <1>2, TargetsAreBlocks DEF Targets
  <1>3. CASE \A h \in Func :
               /\ ~ IsLabel(p[h]) /\ ~ IsLabel(p[Base])
               /\ Inst(h, p[h]).op = Inst(Base, p[Base]).op
               /\ Len(Inst(h, p[h]).to) = Len(Inst(Base, p[Base]).to)
    <2>1. ~ IsLabel(p[f]) /\ ~ IsLabel(p[g]) /\ ~ IsLabel(p[Base])
      BY <1>3
    <2>2. /\ Inst(f, p[f]).op = Inst(g, p[g]).op
          /\ Len(Inst(f, p[f]).to) = Len(Inst(g, p[g]).to)
      <3>1. /\ Inst(f, p[f]).op = Inst(Base, p[Base]).op
            /\ Len(Inst(f, p[f]).to) = Len(Inst(Base, p[Base]).to)
        BY <1>3, Zenon
      <3>2. /\ Inst(g, p[g]).op = Inst(Base, p[Base]).op
            /\ Len(Inst(g, p[g]).to) = Len(Inst(Base, p[Base]).to)
        BY <1>3, Zenon
      <3>3. QED BY <3>1, <3>2, Zenon
    <2>3. Targets(f, p[f]) = Inst(f, p[f]).to /\ Targets(g, p[g]) = Inst(g, p[g]).to
      BY <2>1 DEF Targets
    <2>4. Targets(f, p[f]) \in Seq(Blocks(f)) /\ Targets(g, p[g]) \in Seq(Blocks(g))
      BY <1>1, TargetsAreBlocks, Zenon
    <2>5. DOMAIN Targets(f, p[f]) = DOMAIN Targets(g, p[g])
      <3>1. \A S : \A s \in Seq(S) : DOMAIN s = 1 .. Len(s)
        OBVIOUS
      <3>2. /\ DOMAIN Targets(f, p[f]) = 1 .. Len(Targets(f, p[f]))
            /\ DOMAIN Targets(g, p[g]) = 1 .. Len(Targets(g, p[g]))
        BY <2>4, <3>1, Zenon
      <3>3. QED BY <2>2, <2>3, <3>2, Zenon
    <2>6. /\ p[f][1] \in DOMAIN source[f] /\ p[f][2] \in DOMAIN source[f][p[f][1]]
      BY <1>1, <2>1, PositionsAre, BlocksAreNumbered DEF IsLabel, Blocks
    <2>7. /\ p[g][1] \in DOMAIN source[g] /\ p[g][2] \in DOMAIN source[g][p[g][1]]
      BY <1>1, <2>1, PositionsAre, BlocksAreNumbered DEF IsLabel, Blocks
    <2>8. IsTerminator(f, p[f]) <=> IsTerminator(g, p[g])
      <3>1. f \in DOMAIN source /\ g \in DOMAIN source
        BY DEF Func
      <3>2. source[f][p[f][1]][p[f][2]].op = source[g][p[g][1]][p[g][2]].op
        BY <2>2 DEF Inst
      <3>3. OperationsAgree(source)
        BY DEF IsGroup
      <3>4. (p[f][2] = Len(source[f][p[f][1]]) <=> p[g][2] = Len(source[g][p[g][1]]))
        <4>1. \A b \in DOMAIN source[f], d \in DOMAIN source[g] :
                \A i \in DOMAIN source[f][b], j \in DOMAIN source[g][d] :
                  source[f][b][i].op = source[g][d][j].op
                    => (i = Len(source[f][b]) <=> j = Len(source[g][d]))
          BY <3>1, <3>3, Zenon DEF OperationsAgree
        <4>2. \A i \in DOMAIN source[f][p[f][1]], j \in DOMAIN source[g][p[g][1]] :
                source[f][p[f][1]][i].op = source[g][p[g][1]][j].op
                  => (i = Len(source[f][p[f][1]]) <=> j = Len(source[g][p[g][1]]))
          BY <2>6, <2>7, <4>1, Zenon
        <4>3. QED BY <2>6, <2>7, <3>2, <4>2, Zenon
      <3>5. QED BY <3>4 DEF IsTerminator
    <2>9. QED BY <2>1, <2>5, <2>8
  <1>4. QED BY <1>1, <1>2, <1>3, Zenon DEF IsMatch

-----------------------------------------------------------------------------
(* A run of unmatched elements of block b of f begins at i, and lasts to k. *)
Begins(f, b, i) == i > 0 => IsMatched(f, <<b, i - 1>>)
IsRun(f, b, i, k) == Begins(f, b, i) /\ \A j \in i .. k : ~ IsMatched(f, <<b, j>>)

LEMMA RunsAreUnique ==
  ASSUME NEW f, NEW b, NEW i \in Nat, NEW j \in Nat, NEW k \in Nat, NEW l \in Nat,
         i <= k, j <= l, j <= k, i <= l, IsRun(f, b, i, k), IsRun(f, b, j, l)
  PROVE  i = j
  <1>1. ~ i < j
    <2> SUFFICES ASSUME i < j PROVE FALSE
      OBVIOUS
    <2>1. IsMatched(f, <<b, j - 1>>)
      BY DEF IsRun, Begins
    <2>2. j - 1 \in i .. k
      OBVIOUS
    <2>3. QED BY <2>1, <2>2 DEF IsRun
  <1>2. ~ j < i
    <2> SUFFICES ASSUME j < i PROVE FALSE
      OBVIOUS
    <2>1. IsMatched(f, <<b, i - 1>>)
      BY DEF IsRun, Begins
    <2>2. i - 1 \in j .. l
      OBVIOUS
    <2>3. QED BY <2>1, <2>2 DEF IsRun
  <1>3. QED BY <1>1, <1>2

LEMMA OwnNodeOf ==
  ASSUME IsGroup, NEW f \in Func, NEW p \in Positions(f), ~ IsMatched(f, p)
  PROVE  \E i \in 0 .. p[2] : NodeOf(f, p) = <<"own", f, p[1], i>> /\ IsRun(f, p[1], i, p[2])
  <1>1. p = <<p[1], p[2]>> /\ p[2] \in Nat
    BY PositionsAre
  <1> DEFINE T == {i \in 0 .. p[2] : \A j \in i .. p[2] : ~ IsMatched(f, <<p[1], j>>)}
  <1>2. T \in SUBSET Nat /\ p[2] \in T
    BY <1>1
  <1>3. PICK m \in T : \A n \in T : m <= n
    <2> HIDE DEF T
    <2>1. QED BY <1>2, NatMin
  <1>4. m > 0 => IsMatched(f, <<p[1], m - 1>>)
    <2> SUFFICES ASSUME m > 0, ~ IsMatched(f, <<p[1], m - 1>>) PROVE FALSE
      OBVIOUS
    <2>1. m \in 0 .. p[2] /\ \A j \in m .. p[2] : ~ IsMatched(f, <<p[1], j>>)
      BY <1>3
    <2>2. \A j \in m - 1 .. p[2] : j = m - 1 \/ j \in m .. p[2]
      BY <1>1, <2>1
    <2>3. \A j \in m - 1 .. p[2] : ~ IsMatched(f, <<p[1], j>>)
      BY <2>1, <2>2
    <2>4. m - 1 \in T
      BY <1>1, <2>1, <2>3
    <2>5. QED BY <1>3, <2>1, <2>4
  <1> DEFINE Fit(i) == /\ \A j \in i .. p[2] : ~ IsMatched(f, <<p[1], j>>)
                       /\ i > 0 => IsMatched(f, <<p[1], i - 1>>)
             s == CHOOSE i \in 0 .. p[2] : Fit(i)
  <1>5. m \in 0 .. p[2] /\ Fit(m)
    BY <1>3, <1>4
  <1>6. s \in 0 .. p[2] /\ Fit(s)
    <2> HIDE DEF Fit
    <2>1. QED BY <1>5
  <1>7. NodeOf(f, p) = <<"own", f, p[1], s>>
    BY DEF NodeOf
  <1>8. IsRun(f, p[1], s, p[2])
    BY <1>6 DEF IsRun, Begins
  <1>9. QED BY <1>6, <1>7, <1>8

(* The elements of f in a block of the merged function: those of block b of *)
(* f from i to m.                                                          *)
IsInterval(f, n, b, i, m) ==
  /\ b \in Blocks(f) /\ i \in Nat /\ m \in Nat /\ i <= m /\ m <= Len(source[f][b])
  /\ \A p \in Positions(f) : NodeOf(f, p) = n <=> p[1] = b /\ p[2] \in i .. m

(* An element that is the first of its block. *)
Starts(f, q) == IsMatched(f, q) \/ Begins(f, q[1], q[2])

LEMMA NodeIsInterval ==
  ASSUME IsGroup, IsAlignment, NEW f \in Func, NEW q \in Positions(f)
  PROVE  \E i, m \in Nat : /\ IsInterval(f, NodeOf(f, q), q[1], i, m)
                           /\ q[2] \in i .. m
                           /\ Starts(f, q) => q[2] = i
                           /\ Starts(f, <<q[1], i>>)
                           /\ NodeOf(f, q)[1] = "merged" => i = m
                           /\ NodeOf(f, q)[1] # "merged" => NodeOf(f, q) = <<"own", f, q[1], i>>
  <1> DEFINE b == q[1]
             n == NodeOf(f, q)
             L == Len(source[f][b])
  <1>1. q = <<b, q[2]>> /\ b \in Blocks(f) /\ q[2] \in Nat /\ q[2] <= L /\ L \in Nat
    BY PositionsAre
  <1>2. CASE IsMatched(f, q)
    <2>1. PICK c \in DOMAIN alignment : q = alignment[c][f] /\ n = Merged(c)
      BY <1>2, MatchedNode
    <2>2. ASSUME NEW p \in Positions(f), NodeOf(f, p) = n PROVE p = q
      <3>1. IsMatched(f, p)
        <4> SUFFICES ASSUME ~ IsMatched(f, p) PROVE FALSE
          OBVIOUS
        <4>1. PICK i \in 0 .. p[2] : NodeOf(f, p) = <<"own", f, p[1], i>>
          BY OwnNodeOf
        <4>2. QED BY <2>1, <2>2, <4>1 DEF Merged
      <3>2. PICK d \in DOMAIN alignment : p = alignment[d][f] /\ NodeOf(f, p) = Merged(d)
        BY <3>1, MatchedNode
      <3>3. c = d
        BY <2>1, <2>2, <3>2 DEF Merged
      <3>4. QED BY <2>1, <3>2, <3>3
    <2>3. IsInterval(f, n, b, q[2], q[2])
      <3>1. ASSUME NEW p \in Positions(f), p[1] = b, p[2] \in q[2] .. q[2] PROVE p = q
        <4>1. p = <<p[1], p[2]>> /\ p[2] \in Nat
          BY PositionsAre
        <4>2. p[2] = q[2]
          BY <1>1, <3>1, <4>1
        <4>3. QED BY <1>1, <3>1, <4>1, <4>2
      <3>2. q[2] \in q[2] .. q[2]
        BY <1>1
      <3>3. QED BY <1>1, <2>2, <3>1, <3>2 DEF IsInterval
    <2>4. n[1] = "merged"
      BY <2>1 DEF Merged
    <2>5. q[2] \in q[2] .. q[2] /\ Starts(f, <<b, q[2]>>)
      BY <1>1, <1>2 DEF Starts
    <2>6. QED BY <1>1, <2>3, <2>4, <2>5
  <1>3. CASE ~ IsMatched(f, q)
    <2>1. PICK i \in 0 .. q[2] : n = <<"own", f, b, i>> /\ IsRun(f, b, i, q[2])
      BY <1>3, OwnNodeOf
    <2>2. i \in Nat /\ i <= q[2]
      BY <1>1, <2>1
    <2> DEFINE T == {j \in Nat : j >= i /\ (j > L \/ IsMatched(f, <<b, j>>))}
    <2>3. PICK t \in T : \A j \in T : t <= j
      <3>1. T \in SUBSET Nat /\ L + 1 \in T
        BY <1>1, <2>2
      <3> HIDE DEF T
      <3>2. QED BY <3>1, NatMin
    <2>4. t \in Nat /\ t > q[2] /\ t <= L + 1
      <3>1. t \in Nat /\ t >= i /\ (t > L \/ IsMatched(f, <<b, t>>))
        BY <2>3
      <3>2. t <= L + 1
        <4>1. L + 1 \in T
          BY <1>1, <2>2
        <4>2. QED BY <2>3, <4>1
      <3>3. ~ t <= q[2]
        <4> SUFFICES ASSUME t <= q[2] PROVE FALSE
          OBVIOUS
        <4>1. t \in i .. q[2]
          BY <1>1, <2>2, <3>1
        <4>2. ~ IsMatched(f, <<b, t>>)
          BY <2>1, <4>1 DEF IsRun
        <4>3. QED BY <1>1, <3>1, <4>2
      <3>4. QED BY <1>1, <3>1, <3>2, <3>3
    <2>5. \A j \in i .. t - 1 : ~ IsMatched(f, <<b, j>>)
      BY <1>1, <2>2, <2>3, <2>4
    <2>6. ASSUME NEW p \in Positions(f), p[1] = b, p[2] \in i .. t - 1
          PROVE  NodeOf(f, p) = n
      <3>1. p = <<b, p[2]>> /\ p[2] \in Nat
        BY <2>6, PositionsAre
      <3>2. ~ IsMatched(f, p)
        BY <2>5, <2>6, <3>1
      <3>3. PICK j \in 0 .. p[2] : NodeOf(f, p) = <<"own", f, b, j>> /\ IsRun(f, b, j, p[2])
        BY <2>6, <3>2, OwnNodeOf
      <3>4. IsRun(f, b, i, p[2])
        BY <1>1, <2>1, <2>2, <2>4, <2>5, <2>6, <3>1 DEF IsRun
      <3>5. j \in Nat /\ j <= p[2] /\ i <= p[2]
        BY <2>2, <2>4, <2>6, <3>1, <3>3
      <3>6. i = j
        BY <2>2, <3>1, <3>3, <3>4, <3>5, RunsAreUnique
      <3>7. QED BY <2>1, <3>3, <3>6
    <2>7. ASSUME NEW p \in Positions(f), NodeOf(f, p) = n
          PROVE  p[1] = b /\ p[2] \in i .. t - 1
      <3>1. ~ IsMatched(f, p)
        <4> SUFFICES ASSUME IsMatched(f, p) PROVE FALSE
          OBVIOUS
        <4>1. PICK c \in DOMAIN alignment : NodeOf(f, p) = Merged(c)
          BY MatchedNode
        <4>2. QED BY <2>1, <2>7, <4>1 DEF Merged
      <3>2. PICK j \in 0 .. p[2] : NodeOf(f, p) = <<"own", f, p[1], j>> /\ IsRun(f, p[1], j, p[2])
        BY <3>1, OwnNodeOf
      <3>3. p[1] = b /\ j = i
        BY <2>1, <2>7, <3>2
      <3>4. p[2] \in Nat /\ p[2] <= L
        BY <3>3, PositionsAre
      <3>5. ~ t <= p[2]
        <4> SUFFICES ASSUME t <= p[2] PROVE FALSE
          OBVIOUS
        <4>1. t \in i .. p[2]
          BY <1>1, <2>2, <2>4, <3>4
        <4>2. ~ IsMatched(f, <<b, t>>)
          BY <3>2, <3>3, <4>1 DEF IsRun
        <4>3. t > L \/ IsMatched(f, <<b, t>>)
          BY <2>3
        <4>4. QED BY <1>1, <2>4, <3>4, <4>2, <4>3
      <3>6. QED BY <2>2, <2>4, <3>2, <3>3, <3>4, <3>5
    <2>8. t - 1 \in Nat /\ q[2] \in i .. t - 1 /\ i <= t - 1 /\ t - 1 <= L
      BY <1>1, <2>2, <2>4
    <2>9. IsInterval(f, n, b, i, t - 1)
      BY <1>1, <2>2, <2>6, <2>7, <2>8 DEF IsInterval
    <2>10. Begins(f, b, i)
      BY <2>1 DEF IsRun
    <2>11. ASSUME Starts(f, q) PROVE q[2] = i
      <3>1. Begins(f, b, q[2])
        BY <1>3, <2>11 DEF Starts
      <3>2. IsRun(f, b, q[2], q[2])
        <4>1. \A j \in q[2] .. q[2] : j = q[2]
          BY <1>1
        <4>2. QED BY <1>1, <1>3, <3>1, <4>1 DEF IsRun
      <3>3. QED BY <1>1, <2>1, <2>2, <3>2, RunsAreUnique
    <2>12. Starts(f, <<b, i>>)
      BY <2>10 DEF Starts
    <2>13. n[1] # "merged" /\ n = <<"own", f, b, i>>
      BY <2>1
    <2>14. QED BY <2>2, <2>8, <2>9, <2>11, <2>12, <2>13
  <1>4. QED BY <1>2, <1>3

(* Control runs on into another block at that block's first element, and    *)
(* only from the last element of a block.                                  *)
LEMMA SuccessorStarts ==
  ASSUME IsGroup, IsAlignment, NEW f \in Func, NEW p \in Positions(f), ~ IsTerminator(f, p),
         NodeOf(f, p) # NodeOf(f, SuccessorPosition(p))
  PROVE  Starts(f, SuccessorPosition(p))
  <1> DEFINE q == SuccessorPosition(p)
  <1>1. /\ p = <<p[1], p[2]>> /\ p[2] \in Nat /\ q = <<p[1], p[2] + 1>>
        /\ q[1] = p[1] /\ q[2] = p[2] + 1
    BY PositionsAre DEF SuccessorPosition
  <1>2. q \in Positions(f)
    BY TargetsAreBlocks
  <1>3. Starts(f, q)
    <2> HIDE DEF q
    <2>1. CASE IsMatched(f, p)
      <3>1. IsMatched(f, <<q[1], q[2] - 1>>)
        BY <1>1, <2>1
      <3>2. QED BY <3>1 DEF Starts, Begins
    <2>2. CASE IsMatched(f, q)
      BY <2>2 DEF Starts
    <2>3. CASE ~ IsMatched(f, p) /\ ~ IsMatched(f, q)
      <3>1. PICK i \in 0 .. p[2] : NodeOf(f, p) = <<"own", f, p[1], i>> /\ IsRun(f, p[1], i, p[2])
        BY <2>3, OwnNodeOf
      <3>2. PICK j \in 0 .. q[2] : NodeOf(f, q) = <<"own", f, p[1], j>> /\ IsRun(f, p[1], j, q[2])
        BY <1>1, <1>2, <2>3, OwnNodeOf
      <3>3. CASE j = q[2]
        BY <1>1, <3>2, <3>3 DEF Starts, IsRun
      <3>4. CASE j # q[2]
        <4>1. i \in Nat /\ j \in Nat /\ i <= p[2] /\ j <= p[2] /\ j <= q[2] /\ i <= q[2] /\ q[2] \in Nat
          BY <1>1, <3>1, <3>2, <3>4
        <4>2. i = j
          BY <1>1, <3>1, <3>2, <4>1, RunsAreUnique
        <4>3. NodeOf(f, p) # NodeOf(f, q)
          BY DEF q
        <4>4. QED BY <3>1, <3>2, <4>2, <4>3
      <3>5. QED BY <3>3, <3>4
    <2>4. QED BY <2>1, <2>2, <2>3
  <1>4. QED BY <1>3 DEF q

(* The label of a block is the first element of its block.                  *)
LEMMA LabelStarts ==
  ASSUME NEW f, NEW b
  PROVE  Starts(f, <<b, 0>>)
  BY DEF Starts, Begins

-----------------------------------------------------------------------------
(* The elements executed in a block of the merged function.                 *)
Placed(f) == [p \in Positions(f) |-> NodeOf(f, p)]

LEMMA IntervalCardinality ==
  ASSUME NEW b, NEW i \in Nat, NEW m \in Nat, i <= m
  PROVE  Cardinality({<<b, j>> : j \in i .. m}) = m - i + 1
  <1> DEFINE S == {<<b, j>> : j \in i .. m}
             g == [j \in i .. m |-> <<b, j>>]
  <1>1. IsFiniteSet(i .. m) /\ Cardinality(i .. m) = m - i + 1
    BY FS_Interval
  <1>2. g \in Bijection(i .. m, S)
    <2>1. g \in [i .. m -> S]
      OBVIOUS
    <2>2. \A j, k \in i .. m : g[j] = g[k] => j = k
      OBVIOUS
    <2>3. \A s \in S : \E j \in i .. m : g[j] = s
      OBVIOUS
    <2> HIDE DEF g, S
    <2>4. QED BY <2>1, <2>2, <2>3, Fun_IsBij
  <1>3. ExistsBijection(i .. m, S)
    BY <1>2 DEF ExistsBijection
  <1>4. QED BY <1>1, <1>3, FS_Bijection

LEMMA PairAfter ==
  ASSUME NEW f, NEW b, NEW i
  PROVE  <<f>> \o <<b, i>> = <<f, b, i>>
  <1> DEFINE S == {f, b, i}
             s == <<f>>
             t == <<b, i>>
             u == <<f, b, i>>
  <1>1. /\ s \in Seq(S) /\ t \in Seq(S) /\ u \in Seq(S)
        /\ Len(s) = 1 /\ Len(t) = 2 /\ Len(u) = 3
        /\ s[1] = f /\ t[1] = b /\ t[2] = i /\ u[1] = f /\ u[2] = b /\ u[3] = i
    OBVIOUS
  <1> HIDE DEF S, s, t, u
  <1>2. /\ s \o t \in Seq(S)
        /\ Len(s \o t) = Len(s) + Len(t)
        /\ \A k \in 1 .. Len(s) + Len(t) : (s \o t)[k] = IF k <= Len(s) THEN s[k] ELSE t[k - Len(s)]
    BY <1>1, ConcatProperties, Zenon
  <1>3. Len(s \o t) = 3 /\ \A k \in 1 .. 3 : (s \o t)[k] = IF k <= 1 THEN s[k] ELSE t[k - 1]
    BY <1>1, <1>2
  <1>4. (s \o t)[1] = f /\ (s \o t)[2] = b /\ (s \o t)[3] = i
    BY <1>1, <1>3
  <1>5. \A k \in 1 .. 3 : k = 1 \/ k = 2 \/ k = 3
    OBVIOUS
  <1>6. \A k \in 1 .. Len(s \o t) : (s \o t)[k] = u[k]
    BY <1>1, <1>3, <1>4, <1>5
  <1>7. s \o t = u
    BY <1>1, <1>2, <1>3, <1>6, SeqEqual, Zenon
  <1>8. QED BY <1>7 DEF s, t, u

LEMMA CodeIs ==
  ASSUME IsGroup, IsAlignment, NEW f \in Func, NEW q \in Positions(f), vmap[f] = Placed(f),
         NEW i, NEW m, IsInterval(f, NodeOf(f, q), q[1], i, m),
         NodeOf(f, q)[1] = "merged" => i = m,
         NodeOf(f, q)[1] # "merged" => NodeOf(f, q) = <<"own", f, q[1], i>>
  PROVE  /\ Len(Code(NodeOf(f, q), f)) = m - i + 1
         /\ \A k \in 1 .. m - i + 1 :
              /\ Code(NodeOf(f, q), f)[k] = <<f, q[1], i + k - 1>>
              /\ <<q[1], i + k - 1>> \in Positions(f)
              /\ NodeOf(f, <<q[1], i + k - 1>>) = NodeOf(f, q)
  <1> DEFINE b == q[1]
             n == NodeOf(f, q)
  <1>1. /\ b \in Blocks(f) /\ i \in Nat /\ m \in Nat /\ i <= m /\ m <= Len(source[f][b])
        /\ \A p \in Positions(f) : NodeOf(f, p) = n <=> p[1] = b /\ p[2] \in i .. m
    BY DEF IsInterval
  <1>2. Len(source[f][b]) \in Nat
    BY <1>1, BlocksAreNumbered
  <1>3. \A j \in i .. m : <<b, j>> \in Positions(f) /\ NodeOf(f, <<b, j>>) = n
    <2> SUFFICES ASSUME NEW j \in i .. m PROVE <<b, j>> \in Positions(f) /\ NodeOf(f, <<b, j>>) = n
      OBVIOUS
    <2>1. <<b, j>> \in Positions(f)
      BY <1>1, <1>2, PositionsAre
    <2>2. QED BY <1>1, <2>1
  <1>4. \A k \in 1 .. m - i + 1 : <<b, i + k - 1>> \in Positions(f) /\ NodeOf(f, <<b, i + k - 1>>) = n
    BY <1>1, <1>3
  <1>5. q = <<b, q[2]>> /\ q[2] \in i .. m
    BY <1>1, PositionsAre
  <1>6. CASE n[1] = "merged"
    <2>1. i = m /\ q = <<b, i>>
      BY <1>1, <1>5, <1>6
    <2>2. IsMatched(f, q)
      <3> SUFFICES ASSUME ~ IsMatched(f, q) PROVE FALSE
        OBVIOUS
      <3>1. PICK j \in 0 .. q[2] : n = <<"own", f, b, j>>
        BY OwnNodeOf
      <3>2. QED BY <1>6, <3>1
    <2>3. PICK c \in DOMAIN alignment : q = alignment[c][f] /\ n = Merged(c)
      BY <2>2, MatchedNode
    <2>4. Code(n, f) = << <<f>> \o q >>
      BY <2>3 DEF Code, Merged
    <2>5. <<f>> \o q = <<f, b, i>>
      BY <2>1, PairAfter, Zenon
    <2>6. Len(Code(n, f)) = 1 /\ Code(n, f)[1] = <<f, b, i>>
      BY <2>4, <2>5
    <2>7. \A k \in 1 .. m - i + 1 : k = 1 /\ i + k - 1 = i
      BY <1>1, <2>1
    <2>8. m - i + 1 = 1
      BY <1>1, <2>1
    <2>9. QED BY <1>4, <2>6, <2>7, <2>8
  <1>7. CASE n[1] # "merged"
    <2>1. n = <<"own", f, b, i>>
      BY <1>7
    <2> DEFINE own == {p \in Positions(f) : vmap[f][p] = n}
    <2>2. own = {<<b, j>> : j \in i .. m}
      <3>1. \A p \in Positions(f) : vmap[f][p] = NodeOf(f, p) /\ p = <<p[1], p[2]>>
        BY PositionsAre DEF Placed
      <3>2. QED BY <1>1, <1>3, <3>1
    <2>3. Cardinality(own) = m - i + 1
      <3>1. Cardinality({<<b, j>> : j \in i .. m}) = m - i + 1
        BY <1>1, IntervalCardinality, Zenon
      <3>2. QED BY <2>2, <3>1, Zenon
    <2>4. Code(n, f) = [k \in 1 .. Cardinality(own) |-> <<f, b, i + k - 1>>]
      <3>1. n[1] = "own" /\ n[2] = f /\ n[3] = b /\ n[4] = i
        BY <2>1
      <3>2. n[1] # "merged"
        BY <1>7
      <3> HIDE DEF n, b
      <3>3. QED BY <3>1, <3>2 DEF Code
    <2>5. Code(n, f) = [k \in 1 .. m - i + 1 |-> <<f, b, i + k - 1>>]
      BY <2>3, <2>4
    <2>6. Len(Code(n, f)) = m - i + 1
      BY <1>1, <2>5
    <2>7. QED BY <1>4, <2>5, <2>6
  <1>8. QED BY <1>6, <1>7

-----------------------------------------------------------------------------
(* The body, as far as it has been built.                                   *)
Laid(f) == phase \in {"labels", "run"} \/ (phase = "chain" /\ f < step)
Assigned(c) == phase = "run" \/ (phase = "labels" /\ c < step)

(* The branches function f takes between blocks without a choice. *)
Edges(f) ==
  {[from |-> Entry, fn |-> f, to |-> NodeOf(f, <<1, 0>>)]}
    \cup {[from |-> NodeOf(f, p), fn |-> f, to |-> NodeOf(f, SuccessorPosition(p))] :
            p \in {q \in Positions(f) : /\ ~ IsTerminator(f, q)
                                        /\ NodeOf(f, q) # NodeOf(f, SuccessorPosition(q))}}

(* The operands of a terminator of f that is not matched, and those of      *)
(* matched entry c.                                                        *)
OwnEnds(f) == {p \in OwnPositions(f) : IsTerminator(f, p)}
OwnLabels(f, p) == [k \in DOMAIN Targets(f, p) |-> NodeOf(f, <<Targets(f, p)[k], 0>>)]
Goals(c, k) == [f \in Func |-> NodeOf(f, <<Targets(f, alignment[c][f])[k], 0>>)]
Label(c, k) ==
  IF \A f \in Func : Goals(c, k)[f] = Goals(c, k)[0] THEN Goals(c, k)[0] ELSE Select(Goals(c, k))
Labels(c) == [k \in DOMAIN Targets(Base, alignment[c][Base]) |-> Label(c, k)]

VmapInv ==
  \A f \in Func :
    vmap[f] = IF Laid(f) THEN Placed(f) ELSE [p \in Positions(f) \ OwnPositions(f) |-> NodeOf(f, p)]

ChainInv == chain = UNION {Edges(f) : f \in {g \in Func : Laid(g)}}

OperandsInv ==
  /\ \A n \in DOMAIN operands :
       \/ \E f \in Func : Laid(f) /\ \E p \in OwnEnds(f) : n = NodeOf(f, p)
       \/ \E c \in DOMAIN alignment : Assigned(c) /\ n = Merged(c)
  /\ \A f \in Func : Laid(f) => \A p \in OwnEnds(f) :
       NodeOf(f, p) \in DOMAIN operands /\ operands[NodeOf(f, p)] = OwnLabels(f, p)
  /\ \A c \in DOMAIN alignment : Assigned(c) =>
       Merged(c) \in DOMAIN operands /\ operands[Merged(c)] = Labels(c)

(* Where the source block of a block of the merged function is looked up.   *)
FinalOf(f) ==
  /\ \A n \in DOMAIN finalBB[f] :
       /\ finalBB[f][n] \in Blocks(f)
       /\ \/ IsSelect(n)
          \/ \E c \in DOMAIN alignment : n = Merged(c)
          \/ Laid(f) /\ \E p \in OwnPositions(f) : n = NodeOf(f, p)
  /\ \A c \in DOMAIN alignment : ~ IsLabel(alignment[c][f]) =>
       Merged(c) \in DOMAIN finalBB[f] /\ finalBB[f][Merged(c)] = alignment[c][f][1]
  /\ Laid(f) => \A p \in OwnPositions(f) :
       NodeOf(f, p) \in DOMAIN finalBB[f] /\ finalBB[f][NodeOf(f, p)] = p[1]
  /\ \A c \in DOMAIN alignment : Assigned(c) => \A k \in DOMAIN Labels(c) :
       IsSelect(Labels(c)[k]) =>
         /\ Labels(c)[k] \in DOMAIN finalBB[f]
         /\ \E d \in DOMAIN alignment :
              /\ Assigned(d) /\ \E l \in DOMAIN Labels(d) : Labels(d)[l] = Labels(c)[k]
              /\ finalBB[f][Labels(c)[k]] = alignment[d][f][1]

FinalInv ==
  /\ DOMAIN finalBB = Func
  /\ \A f \in Func : FinalOf(f)

BodyInv ==
  /\ step \in Nat /\ (phase = "labels" => step >= 1)
  /\ VmapInv /\ DOMAIN vmap = Func
  /\ ChainInv
  /\ OperandsInv
  /\ FinalInv

AlignInv ==
  /\ source \in Groups /\ aligner \in Aligners
  /\ IsGroup
  /\ IsAlignment
  /\ phase \in {"align", "chain", "labels", "run"}
  /\ phase = "align" =>
       /\ DOMAIN finalBB = Func /\ DOMAIN vmap = Func
       /\ \A f \in Func : vmap[f] = << >> /\ finalBB[f] = << >>
       /\ chain = {} /\ operands = << >>

-----------------------------------------------------------------------------
(* What depends on the source functions and the alignment stays.            *)
LEMMA SourceStays ==
  ASSUME UNCHANGED source
  PROVE  /\ Func' = Func /\ Base' = Base
         /\ IsGroup' <=> IsGroup
         /\ \A f : Positions(f)' = Positions(f) /\ Blocks(f)' = Blocks(f)
         /\ \A f, p : /\ Targets(f, p)' = Targets(f, p)
                      /\ IsTerminator(f, p)' <=> IsTerminator(f, p)
         /\ \A c : IsMatch(c)' <=> IsMatch(c)
  <1>1. Func' = Func /\ Base' = Base
    BY DEF Func, Base
  <1>2. IsGroup' <=> IsGroup
    BY <1>1 DEF IsGroup
  <1>3. \A f : Positions(f)' = Positions(f) /\ Blocks(f)' = Blocks(f)
    BY DEF Positions, Blocks
  <1>4. \A f, p : /\ Targets(f, p)' = Targets(f, p)
                  /\ IsTerminator(f, p)' <=> IsTerminator(f, p)
                  /\ Inst(f, p)' = Inst(f, p)
    BY DEF Targets, Inst, IsTerminator
  <1>5. \A c : IsMatch(c)' <=> IsMatch(c)
    BY DEF IsMatch, Inst, Func, Base, IsLabel
  <1>6. QED BY <1>1, <1>2, <1>3, <1>4, <1>5, Zenon

LEMMA AlignmentStays ==
  ASSUME UNCHANGED <<source, alignment>>
  PROVE  /\ IsAlignment' <=> IsAlignment
         /\ \A f, p : /\ NodeOf(f, p)' = NodeOf(f, p)
                      /\ IsMatched(f, p)' <=> IsMatched(f, p)
                      /\ OwnLabels(f, p)' = OwnLabels(f, p)
         /\ \A f : /\ OwnPositions(f)' = OwnPositions(f)
                   /\ OwnEnds(f)' = OwnEnds(f)
                   /\ Edges(f)' = Edges(f)
                   /\ Placed(f)' = Placed(f)
         /\ \A c : Labels(c)' = Labels(c)
  <1>1. /\ Func' = Func /\ Base' = Base
        /\ \A f : Positions(f)' = Positions(f) /\ Blocks(f)' = Blocks(f)
        /\ \A f, p : /\ Targets(f, p)' = Targets(f, p)
                     /\ IsTerminator(f, p)' <=> IsTerminator(f, p)
        /\ \A c : IsMatch(c)' <=> IsMatch(c)
    BY SourceStays
  <1>2. \A f, p : MatchedColumns(f, p)' = MatchedColumns(f, p)
    BY DEF MatchedColumns
  <1>3. \A f, p : IsMatched(f, p)' <=> IsMatched(f, p)
    BY <1>2 DEF IsMatched
  <1>4. \A f, p : NodeOf(f, p)' = NodeOf(f, p)
    BY DEF NodeOf, IsMatched, MatchedColumns, Merged
  <1>5. \A f : OwnPositions(f)' = OwnPositions(f)
    BY <1>1, <1>3 DEF OwnPositions
  <1>6. \A f : OwnEnds(f)' = OwnEnds(f)
    BY <1>1, <1>5 DEF OwnEnds
  <1>7. \A f, p : OwnLabels(f, p)' = OwnLabels(f, p)
    BY <1>1, <1>4 DEF OwnLabels
  <1>8. \A f : Edges(f)' = Edges(f)
    BY <1>1, <1>4 DEF Edges
  <1>9. \A f : Placed(f)' = Placed(f)
    BY <1>1, <1>4 DEF Placed
  <1>10. \A c, k : Goals(c, k)' = Goals(c, k)
    BY <1>1, <1>4 DEF Goals
  <1>11. \A c, k : Label(c, k)' = Label(c, k)
    BY <1>1, <1>10 DEF Label
  <1>12. \A c : Labels(c)' = Labels(c)
    BY <1>1, <1>11 DEF Labels
  <1>13. IsAlignment' <=> IsAlignment
    BY <1>1 DEF IsAlignment
  <1>14. QED BY <1>3, <1>4, <1>5, <1>6, <1>7, <1>8, <1>9, <1>12, <1>13

-----------------------------------------------------------------------------
(* The execution.  Control comes to q: it is the first element, or follows  *)
(* the element p executed last; where p chose, it came from the block of p  *)
(* or through the select block of p's matched entry.                       *)
Element(q) == <<fn, q[1], q[2]>>

GoesThrough(p, n) ==
  /\ IsSelect(n)
  /\ \E c \in DOMAIN alignment : /\ p = alignment[c][fn]
                                 /\ choice \in DOMAIN Labels(c)
                                 /\ n = Labels(c)[choice]

Continues(p, q) ==
  \/ choice = 0 /\ ~ IsTerminator(fn, p) /\ q = SuccessorPosition(p)
  \/ /\ choice \in DOMAIN Targets(fn, p)
     /\ q = <<Targets(fn, p)[choice], 0>>
     /\ from = NodeOf(fn, p) \/ GoesThrough(p, from)

AtEntry == at = Entry /\ pos = 0 /\ last = None /\ choice = 0

Before ==
  /\ pos = 0
  /\ \E q \in Positions(fn) :
       /\ at = NodeOf(fn, q) /\ Starts(fn, q)
       /\ \/ last = None /\ choice = 0 /\ q = <<1, 0>>
          \/ \E p \in Positions(fn) : last = Element(p) /\ Continues(p, q)

Within ==
  \E p \in Positions(fn) :
    /\ last = Element(p) /\ at = NodeOf(fn, p)
    /\ pos \in 1 .. Len(Code(at, fn)) /\ Code(at, fn)[pos] = last
    /\ choice \in IF Targets(fn, p) = << >> THEN {0} ELSE DOMAIN Targets(fn, p)

Selecting ==
  /\ pos = 0
  /\ \E p \in Positions(fn) :
       last = Element(p) /\ choice \in DOMAIN Targets(fn, p) /\ GoesThrough(p, at)

RunInv ==
  IF fn = None THEN AtEntry
  ELSE fn \in Func /\ (AtEntry \/ Before \/ Within \/ Selecting)

IInv ==
  /\ AlignInv
  /\ phase # "align" => BodyInv
  /\ phase # "run" => fn = None /\ AtEntry
  /\ phase = "run" => RunInv

-----------------------------------------------------------------------------
(* The alignment is made. *)
LEMMA InitHolds ==
  ASSUME Init
  PROVE  IInv
  <1>1. source \in Groups /\ aligner \in Aligners /\ alignment = << >> /\ phase = "align"
    BY DEF Init
  <1>2. IsGroup
    BY <1>1, SourceIsGroup
  <1>3. IsAlignment
    BY <1>1 DEF IsAlignment
  <1>4. AlignInv
    BY <1>1, <1>2, <1>3 DEF Init, AlignInv
  <1>5. QED BY <1>1, <1>4 DEF Init, IInv, AtEntry

LEMMA MatchStep ==
  ASSUME IInv, NEW c \in Columns(Head(rest)), MatchElement(c)
  PROVE  IInv'
  <1>1. /\ phase = "align" /\ phase' = "align" /\ UNCHANGED <<source, aligner, step>>
        /\ alignment' = Append(alignment, c) /\ IsMatch(c) /\ Fits(c)
        /\ UNCHANGED <<vmap, chain, operands, finalBB, fn, last, choice, at, from, pos, phi>>
    BY DEF MatchElement, bodyVars, runVars
  <1>2. AlignInv /\ fn = None /\ AtEntry
    BY <1>1 DEF IInv
  <1>3. IsGroup /\ IsAlignment
    BY <1>2 DEF AlignInv
  <1>4. /\ c \in [Func -> UNION {Positions(f) : f \in Func}]
        /\ \A f \in Func : c[f] \in Positions(f)
    BY DEF Columns
  <1> DEFINE n == Len(alignment)
             S == [Func -> UNION {Positions(f) : f \in Func}]
  <1>5. alignment \in Seq(S) /\ n \in Nat /\ DOMAIN alignment = 1 .. n
    BY <1>3 DEF IsAlignment
  <1>6. /\ alignment' \in Seq(S) /\ DOMAIN alignment' = 1 .. n + 1
        /\ alignment'[n + 1] = c
        /\ \A d \in 1 .. n : alignment'[d] = alignment[d]
    BY <1>1, <1>4, <1>5
  <1>7. \A d \in 1 .. n + 1 : d = n + 1 \/ d \in DOMAIN alignment
    BY <1>5
  <1>8. ASSUME NEW d \in DOMAIN alignment, NEW f \in Func
        PROVE  alignment[d][f] # c[f]
    <2>1. alignment[d] \in ToSet(alignment)
      BY DEF ToSet
    <2>2. /\ alignment[d][f] \in Positions(f) /\ c[f] \in Positions(f)
      BY <1>3, <1>4 DEF IsAlignment
    <2>3. c[f][1] \in Nat /\ c[f][2] \in Nat
      BY <1>3, <2>2, PositionsAre
    <2>4. CASE aligner = "NW"
      <3>1. Precedes(alignment[d][f], c[f])
        BY <1>1, <2>1, <2>4 DEF Fits
      <3>2. QED BY <2>3, <3>1 DEF Precedes
    <2>5. CASE aligner # "NW"
      <3>1. alignment[d][f][1] = c[f][1] => alignment[d][f][2] < c[f][2]
        BY <1>1, <2>1, <2>5 DEF Fits
      <3>2. QED BY <2>3, <3>1
    <2>6. QED BY <2>4, <2>5
  <1>9. IsAlignment'
    <2>1. Func' = Func /\ \A f : Positions(f)' = Positions(f)
      BY <1>1, SourceStays
    <2>2. \A d : IsMatch(d)' <=> IsMatch(d)
      BY <1>1, SourceStays
    <2>3. \A d \in DOMAIN alignment' :
            (\A f \in Func : alignment'[d][f] \in Positions(f)) /\ IsMatch(alignment'[d])
      BY <1>1, <1>3, <1>4, <1>5, <1>6, <1>7 DEF IsAlignment
    <2>4. ASSUME NEW d \in DOMAIN alignment', NEW e \in DOMAIN alignment', NEW f \in Func,
                 alignment'[d][f] = alignment'[e][f]
          PROVE  d = e
      <3>1. CASE d \in DOMAIN alignment /\ e \in DOMAIN alignment
        BY <1>3, <1>5, <1>6, <2>4, <3>1 DEF IsAlignment
      <3>2. CASE d \in DOMAIN alignment /\ e = n + 1
        BY <1>5, <1>6, <1>8, <2>4, <3>2
      <3>3. CASE d = n + 1 /\ e \in DOMAIN alignment
        BY <1>5, <1>6, <1>8, <2>4, <3>3
      <3>4. QED BY <1>6, <1>7, <3>1, <3>2, <3>3
    <2>5. alignment' \in Seq([Func' -> UNION {Positions(f)' : f \in Func'}])
      BY <1>6, <2>1
    <2>6. QED BY <2>1, <2>2, <2>3, <2>4, <2>5 DEF IsAlignment
  <1>10. IsGroup' /\ Func' = Func
    BY <1>1, <1>3, SourceStays
  <1>11. AlignInv'
    BY <1>1, <1>2, <1>9, <1>10 DEF AlignInv
  <1>12. fn' = None /\ AtEntry'
    BY <1>1, <1>2 DEF AtEntry
  <1>13. QED BY <1>1, <1>11, <1>12 DEF IInv

LEMMA LeaveStep ==
  ASSUME IInv, LeaveElement
  PROVE  IInv'
  <1>1. /\ phase = "align" /\ phase' = "align" /\ UNCHANGED <<source, aligner, alignment, step>>
        /\ UNCHANGED <<vmap, chain, operands, finalBB, fn, last, choice, at, from, pos, phi>>
    BY DEF LeaveElement, bodyVars, runVars
  <1>2. AlignInv /\ fn = None /\ AtEntry
    BY <1>1 DEF IInv
  <1>3. (IsGroup' <=> IsGroup) /\ Func' = Func /\ (IsAlignment' <=> IsAlignment)
    BY <1>1, SourceStays, AlignmentStays
  <1>4. AlignInv'
    BY <1>1, <1>2, <1>3 DEF AlignInv
  <1>5. fn' = None /\ AtEntry'
    BY <1>1, <1>2 DEF AtEntry
  <1>6. QED BY <1>1, <1>4, <1>5 DEF IInv

(* Every later step leaves the alignment as it is.                          *)
LEMMA AlignInvStays ==
  ASSUME AlignInv, UNCHANGED alignVars, phase' \in {"chain", "labels", "run"}
  PROVE  AlignInv'
  <1>1. UNCHANGED <<source, aligner, alignment>>
    BY DEF alignVars
  <1>2. (IsGroup' <=> IsGroup) /\ (IsAlignment' <=> IsAlignment)
    BY <1>1, SourceStays, AlignmentStays
  <1>3. QED BY <1>1, <1>2 DEF AlignInv

LEMMA SharedLayoutStep ==
  ASSUME IInv, LayoutSharedBasicBlocks
  PROVE  IInv'
  <1>1. /\ phase = "align" /\ phase' = "chain" /\ step' = 0
        /\ UNCHANGED <<source, alignment>> /\ UNCHANGED alignVars
        /\ UNCHANGED <<chain, operands, fn, last, choice, at, from, pos, phi>>
        /\ vmap' = [f \in Func |-> [p \in Positions(f) \ OwnPositions(f) |-> NodeOf(f, p)]]
        /\ finalBB' = [f \in Func |->
             [n \in {Merged(c) : c \in DOMAIN alignment} |-> alignment[n[2]][f][1]]]
    BY DEF LayoutSharedBasicBlocks, alignVars, runVars
  <1>2. AlignInv /\ fn = None /\ AtEntry
    BY <1>1 DEF IInv
  <1>3. IsGroup /\ IsAlignment /\ chain = {} /\ operands = << >>
    BY <1>1, <1>2 DEF AlignInv
  <1>4. AlignInv'
    BY <1>1, <1>2, AlignInvStays
  <1>5. /\ Func' = Func
        /\ \A f : Positions(f)' = Positions(f) /\ Blocks(f)' = Blocks(f)
        /\ \A f, p : NodeOf(f, p)' = NodeOf(f, p)
        /\ \A f : OwnPositions(f)' = OwnPositions(f) /\ Edges(f)' = Edges(f) /\ Placed(f)' = Placed(f)
    BY <1>1, SourceStays, AlignmentStays
  <1>6. (\A f \in Func : ~ Laid(f)') /\ \A c : ~ Assigned(c)'
    BY <1>1, <1>3, BaseIsFunc DEF Laid, Assigned
  <1>7. VmapInv' /\ DOMAIN vmap' = Func'
    BY <1>1, <1>5, <1>6 DEF VmapInv
  <1>8. ChainInv'
    BY <1>1, <1>3, <1>5, <1>6 DEF ChainInv
  <1>9. OperandsInv'
    BY <1>1, <1>3, <1>5, <1>6 DEF OperandsInv
  <1>10. ASSUME NEW f \in Func PROVE FinalOf(f)'
    <2> DEFINE F == [n \in {Merged(c) : c \in DOMAIN alignment} |-> alignment[n[2]][f][1]]
    <2>1. finalBB'[f] = F
      BY <1>1
    <2>2. \A c \in DOMAIN alignment : Merged(c) \in DOMAIN F /\ F[Merged(c)] = alignment[c][f][1]
      BY DEF Merged
    <2>3. \A n \in DOMAIN F : \E c \in DOMAIN alignment : n = Merged(c)
      OBVIOUS
    <2>4. \A c \in DOMAIN alignment : alignment[c][f][1] \in Blocks(f)
      BY <1>3, PositionsAre DEF IsAlignment
    <2>5. \A n \in DOMAIN F : F[n] \in Blocks(f)
      BY <2>2, <2>3, <2>4
    <2> HIDE DEF F
    <2>6. QED BY <1>1, <1>5, <1>6, <2>1, <2>2, <2>3, <2>5 DEF FinalOf
  <1>11. FinalInv'
    BY <1>1, <1>5, <1>10 DEF FinalInv
  <1>12. fn' = None /\ AtEntry'
    BY <1>1, <1>2 DEF AtEntry
  <1>13. BodyInv'
    BY <1>1, <1>7, <1>8, <1>9, <1>11 DEF BodyInv
  <1>14. QED BY <1>1, <1>4, <1>12, <1>13 DEF IInv

-----------------------------------------------------------------------------
(* Extend(f, g) is f, and g where f is not defined.                         *)
LEMMA ExtendProperties ==
  ASSUME NEW f, NEW g
  PROVE  /\ DOMAIN (Extend(f, g)) = DOMAIN f \cup DOMAIN g
         /\ \A x \in DOMAIN f : (Extend(f, g))[x] = f[x]
         /\ \A x \in DOMAIN g \ DOMAIN f : (Extend(f, g))[x] = g[x]
  BY DEF Extend

(* The blocks that are f's own: they are of no other function.              *)
LEMMA OwnNodes ==
  ASSUME IsGroup, NEW f \in Func, NEW p \in OwnPositions(f)
  PROVE  /\ p \in Positions(f)
         /\ \E i \in Nat : NodeOf(f, p) = <<"own", f, p[1], i>>
         /\ NodeOf(f, p)[1] = "own" /\ NodeOf(f, p)[2] = f /\ NodeOf(f, p)[3] = p[1]
         /\ ~ IsSelect(NodeOf(f, p))
         /\ \A c : NodeOf(f, p) # Merged(c)
  <1>1. p \in Positions(f) /\ ~ IsMatched(f, p)
    BY DEF OwnPositions
  <1>2. PICK i \in 0 .. p[2] : NodeOf(f, p) = <<"own", f, p[1], i>>
    BY <1>1, OwnNodeOf
  <1>3. p[2] \in Nat
    BY <1>1, PositionsAre
  <1>4. i \in Nat
    BY <1>2, <1>3
  <1>5. QED BY <1>1, <1>2, <1>4 DEF IsSelect, Merged

(* A block of f's own ends with one terminator at most.                     *)
LEMMA OneEnd ==
  ASSUME IsGroup, NEW f \in Func, NEW p \in OwnEnds(f), NEW q \in OwnEnds(f), NodeOf(f, p) = NodeOf(f, q)
  PROVE  p = q
  <1>1. p \in OwnPositions(f) /\ q \in OwnPositions(f) /\ IsTerminator(f, p) /\ IsTerminator(f, q)
    BY DEF OwnEnds
  <1>2. p[1] = q[1] /\ p \in Positions(f) /\ q \in Positions(f)
    BY <1>1, OwnNodes
  <1>3. p[2] = q[2]
    BY <1>1, <1>2 DEF IsTerminator
  <1>4. QED BY <1>2, <1>3, PositionsAre

LEMMA ChainStep ==
  ASSUME IInv, ChainBasicBlocks
  PROVE  IInv'
  <1>0. PICK f \in Func : f = step
    BY DEF ChainBasicBlocks
  <1> DEFINE ends == [n \in {NodeOf(f, p) : p \in OwnEnds(f)} |->
                        LET p == CHOOSE q \in OwnEnds(f) : NodeOf(f, q) = n
                        IN OwnLabels(f, p)]
             own == [n \in {NodeOf(f, p) : p \in OwnPositions(f)} |-> n[3]]
  <1>1. /\ phase = "chain" /\ phase' = "chain" /\ f \in Func /\ step' = step + 1
        /\ UNCHANGED <<source, alignment>> /\ UNCHANGED alignVars
        /\ UNCHANGED <<fn, last, choice, at, from, pos, phi>>
        /\ vmap' = [vmap EXCEPT ![f] = Placed(f)]
        /\ chain' = chain \cup Edges(f)
        /\ operands' = Extend(operands, ends)
        /\ finalBB' = [finalBB EXCEPT ![f] = Extend(own, @)]
    <2>1. phase = "chain" /\ phase' = phase /\ f \in Func /\ step' = step + 1
      BY <1>0 DEF ChainBasicBlocks
    <2>2. UNCHANGED <<source, alignment>> /\ UNCHANGED alignVars
      BY DEF ChainBasicBlocks, alignVars
    <2>3. UNCHANGED <<fn, last, choice, at, from, pos, phi>>
      BY DEF ChainBasicBlocks, runVars
    <2>4. vmap' = [vmap EXCEPT ![f] = Placed(f)]
      BY <1>0 DEF ChainBasicBlocks, Placed
    <2>5. chain' = chain \cup Edges(f)
      BY <1>0 DEF ChainBasicBlocks, Edges
    <2>6. operands' = Extend(operands, ends)
      BY <1>0, Zenon DEF ChainBasicBlocks, OwnEnds, OwnLabels
    <2>7. finalBB' = [finalBB EXCEPT ![f] = Extend(own, @)]
      BY <1>0, Zenon DEF ChainBasicBlocks
    <2>8. QED BY <2>1, <2>2, <2>3, <2>4, <2>5, <2>6, <2>7
  <1>2. AlignInv /\ BodyInv /\ fn = None /\ AtEntry
    BY <1>1 DEF IInv
  <1>3. IsGroup /\ IsAlignment /\ Func \subseteq Nat /\ step \in Nat
    BY <1>2, BaseIsFunc DEF AlignInv, BodyInv
  <1>4. AlignInv'
    BY <1>1, <1>2, AlignInvStays
  <1>5. /\ Func' = Func
        /\ \A g : Positions(g)' = Positions(g) /\ Blocks(g)' = Blocks(g)
        /\ \A g, p : NodeOf(g, p)' = NodeOf(g, p) /\ OwnLabels(g, p)' = OwnLabels(g, p)
        /\ \A g : /\ OwnPositions(g)' = OwnPositions(g) /\ OwnEnds(g)' = OwnEnds(g)
                  /\ Edges(g)' = Edges(g) /\ Placed(g)' = Placed(g)
    BY <1>1, SourceStays, AlignmentStays
  <1>6. /\ \A g \in Func : Laid(g)' <=> Laid(g) \/ g = f
        /\ ~ Laid(f)
        /\ \A c : ~ Assigned(c) /\ ~ Assigned(c)'
    BY <1>0, <1>1, <1>3 DEF Laid, Assigned
  <1> HIDE DEF ends, own
  <1>7. VmapInv' /\ DOMAIN vmap' = Func'
    BY <1>1, <1>2, <1>5, <1>6 DEF VmapInv, BodyInv
  <1>8. ChainInv'
    <2>1. (UNION {Edges(g) : g \in {h \in Func : Laid(h)}}) \cup Edges(f)
            = UNION {Edges(g) : g \in {h \in Func : Laid(h) \/ h = f}}
      BY <1>1
    <2>2. UNION {Edges(g) : g \in {h \in Func : Laid(h) \/ h = f}}
            = UNION {Edges(g)' : g \in {h \in Func' : Laid(h)'}}
      BY <1>5, <1>6
    <2>3. QED BY <1>1, <1>2, <2>1, <2>2 DEF ChainInv, BodyInv
  <1>9. OperandsInv'
    <2>1. DOMAIN operands' = DOMAIN operands \cup {NodeOf(f, p) : p \in OwnEnds(f)}
      BY <1>1, ExtendProperties DEF ends
    <2>2. ASSUME NEW p \in OwnEnds(f)
          PROVE  NodeOf(f, p) \notin DOMAIN operands
      <3>1. p \in OwnPositions(f)
        BY DEF OwnEnds
      <3>2. NodeOf(f, p)[2] = f /\ \A c : NodeOf(f, p) # Merged(c)
        BY <1>1, <1>3, <3>1, OwnNodes
      <3>3. \A g \in Func : \A q \in OwnEnds(g) : NodeOf(g, q)[2] = g
        BY <1>3, OwnNodes DEF OwnEnds
      <3>4. QED BY <1>2, <1>6, <3>2, <3>3 DEF BodyInv, OperandsInv
    <2>3. ASSUME NEW p \in OwnEnds(f)
          PROVE  /\ NodeOf(f, p) \in DOMAIN operands'
                 /\ operands'[NodeOf(f, p)] = OwnLabels(f, p)
      <3> DEFINE n == NodeOf(f, p)
                 r == CHOOSE q \in OwnEnds(f) : NodeOf(f, q) = n
      <3>1. r \in OwnEnds(f) /\ NodeOf(f, r) = n
        OBVIOUS
      <3>2. r = p
        BY <1>1, <1>3, <3>1, OneEnd
      <3>3. n \in DOMAIN ends /\ ends[n] = OwnLabels(f, r)
        BY DEF ends
      <3>4. n \notin DOMAIN operands
        BY <2>2
      <3> HIDE DEF n, r
      <3>5. operands'[n] = OwnLabels(f, p) /\ n \in DOMAIN operands'
        <4>1. /\ DOMAIN Extend(operands, ends) = DOMAIN operands \cup DOMAIN ends
              /\ Extend(operands, ends)[n] = ends[n]
          <5>1. n \in DOMAIN ends \ DOMAIN operands
            BY <3>3, <3>4
          <5>2. DOMAIN Extend(operands, ends) = DOMAIN operands \cup DOMAIN ends
            BY ExtendProperties, Zenon
          <5>3. \A x \in DOMAIN ends \ DOMAIN operands : Extend(operands, ends)[x] = ends[x]
            BY ExtendProperties, Zenon
          <5>4. QED BY <5>1, <5>2, <5>3, Zenon
        <4>2. QED BY <1>1, <3>2, <3>3, <4>1
      <3>6. QED BY <3>5 DEF n
    <2>4. \A n \in DOMAIN operands : operands'[n] = operands[n] /\ n \in DOMAIN operands'
      BY <1>1, ExtendProperties
    <2>5. \A n \in DOMAIN operands' :
            \/ \E g \in Func : (Laid(g) \/ g = f) /\ \E p \in OwnEnds(g) : n = NodeOf(g, p)
      BY <1>1, <1>2, <1>6, <2>1 DEF BodyInv, OperandsInv
    <2>6. \A g \in Func : Laid(g) \/ g = f => \A p \in OwnEnds(g) :
            NodeOf(g, p) \in DOMAIN operands' /\ operands'[NodeOf(g, p)] = OwnLabels(g, p)
      BY <1>2, <2>3, <2>4 DEF BodyInv, OperandsInv
    <2>7. QED BY <1>5, <1>6, <2>5, <2>6 DEF OperandsInv
  <1>10. ASSUME NEW g \in Func PROVE FinalOf(g)'
    <2>1. FinalOf(g)
      BY <1>2 DEF BodyInv, FinalInv
    <2>2. CASE g # f
      <3>1. finalBB'[g] = finalBB[g]
        BY <1>1, <1>2, <2>2 DEF BodyInv, FinalInv
      <3>2. Laid(g)' <=> Laid(g)
        BY <1>6, <2>2
      <3>3. QED BY <1>1, <1>5, <1>6, <2>1, <3>1, <3>2 DEF FinalOf
    <2>3. CASE g = f
      <3>1. finalBB'[f] = Extend(own, finalBB[f])
        BY <1>1, <1>2 DEF BodyInv, FinalInv
      <3>2. \A p \in OwnPositions(f) : NodeOf(f, p) \in DOMAIN own /\ own[NodeOf(f, p)] = p[1]
        <4>1. \A p \in OwnPositions(f) : NodeOf(f, p)[3] = p[1]
          BY <1>1, <1>3, OwnNodes
        <4>2. QED BY <4>1 DEF own
      <3>3. \A n \in DOMAIN own : \E p \in OwnPositions(f) : n = NodeOf(f, p) /\ own[n] = p[1]
        BY <3>2 DEF own
      <3>4. \A p \in OwnPositions(f) : p[1] \in Blocks(f) /\ \A c : NodeOf(f, p) # Merged(c)
        BY <1>1, <1>3, OwnNodes, PositionsAre
      <3>5. /\ DOMAIN finalBB'[f] = DOMAIN own \cup DOMAIN finalBB[f]
            /\ \A x \in DOMAIN own : finalBB'[f][x] = own[x]
            /\ \A x \in DOMAIN finalBB[f] \ DOMAIN own : finalBB'[f][x] = finalBB[f][x]
        <4>1. /\ DOMAIN Extend(own, finalBB[f]) = DOMAIN own \cup DOMAIN finalBB[f]
              /\ \A x \in DOMAIN own : Extend(own, finalBB[f])[x] = own[x]
              /\ \A x \in DOMAIN finalBB[f] \ DOMAIN own : Extend(own, finalBB[f])[x] = finalBB[f][x]
          BY ExtendProperties, Zenon
        <4>2. QED BY <3>1, <4>1, Zenon
      <3>6. Laid(f)' /\ ~ Laid(f)
        BY <1>1, <1>6
      <3>7. \A n \in DOMAIN finalBB'[f] :
              /\ finalBB'[f][n] \in Blocks(f)
              /\ \/ IsSelect(n)
                 \/ \E c \in DOMAIN alignment : n = Merged(c)
                 \/ \E p \in OwnPositions(f) : n = NodeOf(f, p)
        BY <2>1, <2>3, <3>3, <3>4, <3>5 DEF FinalOf
      <3>8. \A c \in DOMAIN alignment : ~ IsLabel(alignment[c][f]) =>
              Merged(c) \in DOMAIN finalBB'[f] /\ finalBB'[f][Merged(c)] = alignment[c][f][1]
        BY <2>1, <2>3, <3>3, <3>4, <3>5 DEF FinalOf
      <3>9. \A p \in OwnPositions(f) :
              NodeOf(f, p) \in DOMAIN finalBB'[f] /\ finalBB'[f][NodeOf(f, p)] = p[1]
        BY <3>2, <3>5
      <3>10. QED BY <1>1, <1>5, <1>6, <2>3, <3>6, <3>7, <3>8, <3>9 DEF FinalOf
    <2>4. QED BY <2>2, <2>3
  <1>11. FinalInv'
    BY <1>1, <1>2, <1>5, <1>10 DEF FinalInv, BodyInv
  <1>12. fn' = None /\ AtEntry'
    BY <1>1, <1>2 DEF AtEntry
  <1>13. BodyInv'
    BY <1>1, <1>3, <1>7, <1>8, <1>9, <1>11 DEF BodyInv
  <1>14. QED BY <1>1, <1>4, <1>12, <1>13 DEF IInv

(* When all functions have been laid out, nothing else has changed.         *)
LEMMA EndStep ==
  ASSUME IInv, EndChain \/ EndLabels
  PROVE  IInv'
  <1>1. \/ phase = "chain" /\ phase' = "labels" /\ step \notin Func /\ step' = 1
        \/ phase = "labels" /\ phase' = "run" /\ step \notin DOMAIN alignment /\ step' = step
    BY DEF EndChain, EndLabels
  <1>2. /\ UNCHANGED <<source, alignment>> /\ UNCHANGED alignVars
        /\ UNCHANGED <<vmap, chain, operands, finalBB, fn, last, choice, at, from, pos, phi>>
    BY DEF EndChain, EndLabels, alignVars, bodyVars, runVars
  <1>3. AlignInv /\ BodyInv /\ fn = None /\ AtEntry
    BY <1>1 DEF IInv
  <1>4. IsGroup /\ IsAlignment /\ Func \subseteq Nat /\ step \in Nat
    BY <1>3, BaseIsFunc DEF AlignInv, BodyInv
  <1>5. AlignInv'
    BY <1>1, <1>2, <1>3, AlignInvStays
  <1>6. /\ Func' = Func
        /\ \A g : Positions(g)' = Positions(g) /\ Blocks(g)' = Blocks(g)
        /\ \A g, p : NodeOf(g, p)' = NodeOf(g, p) /\ OwnLabels(g, p)' = OwnLabels(g, p)
        /\ \A g : /\ OwnPositions(g)' = OwnPositions(g) /\ OwnEnds(g)' = OwnEnds(g)
                  /\ Edges(g)' = Edges(g) /\ Placed(g)' = Placed(g)
        /\ \A c : Labels(c)' = Labels(c)
    BY <1>2, SourceStays, AlignmentStays
  <1>7. ASSUME NEW g \in Func PROVE Laid(g) /\ Laid(g)'
    <2>1. CASE phase = "labels"
      BY <1>1, <2>1 DEF Laid
    <2>2. CASE phase = "chain"
      <3>1. \A h \in 0 .. Cardinality(Func) - 1 : h \in Func
        BY <1>4 DEF IsGroup
      <3>2. Cardinality(Func) \in Nat /\ step \notin Func
        BY <1>1, <1>4, <2>2 DEF IsGroup
      <3>3. step >= Cardinality(Func)
        BY <1>4, <3>1, <3>2
      <3>4. g < step
        BY <1>4, <3>2, <3>3 DEF IsGroup
      <3>5. QED BY <1>1, <2>2, <3>4 DEF Laid
    <2>3. QED BY <1>1, <2>1, <2>2
  <1>8. \A c \in DOMAIN alignment : Assigned(c)' <=> Assigned(c)
    <2>1. DOMAIN alignment = 1 .. Len(alignment) /\ Len(alignment) \in Nat
      BY <1>4 DEF IsAlignment
    <2>2. CASE phase = "chain"
      BY <1>1, <2>1, <2>2 DEF Assigned
    <2>3. CASE phase = "labels"
      <3>1. step >= 1 /\ step \notin 1 .. Len(alignment)
        BY <1>1, <1>3, <2>1, <2>3 DEF BodyInv
      <3>2. step > Len(alignment)
        BY <1>4, <2>1, <3>1
      <3>3. QED BY <1>1, <1>4, <2>1, <2>3, <3>2 DEF Assigned
    <2>4. QED BY <1>1, <2>2, <2>3
  <1>9. VmapInv' /\ DOMAIN vmap' = Func'
    BY <1>2, <1>3, <1>6, <1>7 DEF VmapInv, BodyInv
  <1>10. ChainInv'
    BY <1>2, <1>3, <1>6, <1>7 DEF ChainInv, BodyInv
  <1>11. OperandsInv'
    BY <1>2, <1>3, <1>6, <1>7, <1>8 DEF OperandsInv, BodyInv
  <1>12. FinalInv'
    <2>1. ASSUME NEW f \in Func PROVE FinalOf(f)'
      BY <1>2, <1>3, <1>6, <1>7, <1>8 DEF FinalOf, FinalInv, BodyInv
    <2>2. QED BY <1>2, <1>3, <1>6, <2>1 DEF FinalInv, BodyInv
  <1>13. fn' = None /\ AtEntry'
    BY <1>2, <1>3 DEF AtEntry
  <1>14. BodyInv'
    BY <1>1, <1>4, <1>9, <1>10, <1>11, <1>12 DEF BodyInv
  <1>15. QED BY <1>1, <1>5, <1>13, <1>14 DEF IInv, RunInv

-----------------------------------------------------------------------------
(* Where the functions go from matched entry c with target k: all to one    *)
(* matched label, or through a select block.                               *)
LEMMA LabelIs ==
  ASSUME IsGroup, IsAlignment, NEW c \in DOMAIN alignment, NEW k \in DOMAIN Labels(c)
  PROVE  /\ Labels(c)[k] = Label(c, k)
         /\ \A f \in Func :
              /\ k \in DOMAIN Targets(f, alignment[c][f])
              /\ <<Targets(f, alignment[c][f])[k], 0>> \in Positions(f)
              /\ Goals(c, k)[f] = NodeOf(f, <<Targets(f, alignment[c][f])[k], 0>>)
         /\ \/ /\ \A f \in Func : Goals(c, k)[f] = Label(c, k)
               /\ \E d \in DOMAIN alignment : /\ Label(c, k) = Merged(d)
                                              /\ \A f \in Func : IsLabel(alignment[d][f])
            \/ Label(c, k) = Select(Goals(c, k))
  <1>1. 0 \in Func /\ 1 \in Func /\ Base \in Func
    BY BaseIsFunc
  <1>2. Labels(c)[k] = Label(c, k) /\ k \in DOMAIN Targets(Base, alignment[c][Base])
    BY DEF Labels
  <1>3. ASSUME NEW f \in Func
        PROVE  /\ k \in DOMAIN Targets(f, alignment[c][f])
               /\ <<Targets(f, alignment[c][f])[k], 0>> \in Positions(f)
               /\ Goals(c, k)[f] = NodeOf(f, <<Targets(f, alignment[c][f])[k], 0>>)
    <2>1. k \in DOMAIN Targets(f, alignment[c][f])
      BY <1>1, <1>2, MatchesAgree, Zenon
    <2>2. alignment[c][f] \in Positions(f)
      BY DEF IsAlignment
    <2>3. <<Targets(f, alignment[c][f])[k], 0>> \in Positions(f)
      BY <2>1, <2>2, TargetsAreBlocks
    <2>4. QED BY <2>1, <2>3 DEF Goals
  <1>4. CASE \A f \in Func : Goals(c, k)[f] = Goals(c, k)[0]
    <2> DEFINE p(f) == <<Targets(f, alignment[c][f])[k], 0>>
    <2>1. Label(c, k) = Goals(c, k)[0]
      BY <1>4 DEF Label
    <2>2. NodeOf(0, p(0)) = NodeOf(1, p(1))
      BY <1>1, <1>3, <1>4
    <2>3. p(0) \in Positions(0) /\ p(1) \in Positions(1)
      BY <1>1, <1>3
    <2>4. IsMatched(0, p(0))
      <3> SUFFICES ASSUME ~ IsMatched(0, p(0)) PROVE FALSE
        OBVIOUS
      <3>1. PICK i \in 0 .. p(0)[2] : NodeOf(0, p(0)) = <<"own", 0, p(0)[1], i>>
        BY <1>1, <2>3, OwnNodeOf
      <3>2. CASE IsMatched(1, p(1))
        <4>1. PICK d \in DOMAIN alignment : NodeOf(1, p(1)) = Merged(d)
          BY <1>1, <3>2, MatchedNode
        <4>2. QED BY <2>2, <3>1, <4>1 DEF Merged
      <3>3. CASE ~ IsMatched(1, p(1))
        <4>1. PICK j \in 0 .. p(1)[2] : NodeOf(1, p(1)) = <<"own", 1, p(1)[1], j>>
          BY <1>1, <2>3, <3>3, OwnNodeOf
        <4>2. <<"own", 0, p(0)[1], i>>[2] = <<"own", 1, p(1)[1], j>>[2]
          BY <2>2, <3>1, <4>1, Zenon
        <4>3. QED BY <4>2
      <3>4. QED BY <3>2, <3>3
    <2>5. PICK d \in DOMAIN alignment : p(0) = alignment[d][0] /\ NodeOf(0, p(0)) = Merged(d)
      BY <1>1, <2>4, MatchedNode
    <2>6. IsLabel(alignment[d][0])
      BY <2>5 DEF IsLabel
    <2>7. \A f \in Func : IsLabel(alignment[d][f])
      BY <1>1, <2>6, MatchesAgree
    <2>8. Label(c, k) = Merged(d)
      BY <1>1, <1>3, <2>1, <2>5
    <2>9. QED BY <1>2, <1>3, <1>4, <2>1, <2>7, <2>8
  <1>5. CASE ~ \A f \in Func : Goals(c, k)[f] = Goals(c, k)[0]
    BY <1>2, <1>3, <1>5 DEF Label
  <1>6. QED BY <1>4, <1>5

LEMMA LabelStep ==
  ASSUME IInv, AssignLabelOperands
  PROVE  IInv'
  <1>0. PICK c \in DOMAIN alignment : c = step
    BY DEF AssignLabelOperands
  <1>1. phase = "labels" /\ AlignInv /\ BodyInv /\ fn = None /\ AtEntry
    BY DEF AssignLabelOperands, IInv
  <1>2. IsGroup /\ IsAlignment /\ Func \subseteq Nat /\ step \in Nat /\ Base \in Func
    BY <1>1, BaseIsFunc DEF AlignInv, BodyInv
  <1>3. \A f \in Func : vmap[f] = Placed(f) /\ Laid(f)
    BY <1>1 DEF BodyInv, VmapInv, Laid
  <1> DEFINE to == DOMAIN Targets(Base, alignment[c][Base])
             named == [n \in {Merged(c)} |-> Labels(c)]
             places(f) == [n \in {Labels(c)[k] : k \in to} |-> alignment[c][f][1]]
  <1>4. DOMAIN Labels(c) = to
    BY DEF Labels
  <1>5. \A k \in to : MergeLabelOperands(c, k) = Label(c, k)
    <2> SUFFICES ASSUME NEW k \in to PROVE MergeLabelOperands(c, k) = Label(c, k)
      OBVIOUS
    <2>1. \A f \in Func : vmap[f][<<Targets(f, alignment[c][f])[k], 0>>]
                            = NodeOf(f, <<Targets(f, alignment[c][f])[k], 0>>)
      BY <1>2, <1>3, <1>4, LabelIs DEF Placed
    <2>2. [f \in Func |-> vmap[f][<<Targets(f, alignment[c][f])[k], 0>>]] = Goals(c, k)
      BY <2>1 DEF Goals
    <2>3. /\ 0 \in Func
          /\ \A f \in Func : Goals(c, k)[f] = vmap[f][<<Targets(f, alignment[c][f])[k], 0>>]
      BY <1>2, <2>1, BaseIsFunc DEF Goals
    <2>4. QED BY <2>2, <2>3 DEF MergeLabelOperands, Label
  <1>6. [k \in to |-> MergeLabelOperands(c, k)] = Labels(c)
    BY <1>5 DEF Labels
  <1>7. /\ phase' = "labels" /\ step' = step + 1
        /\ UNCHANGED <<source, alignment>> /\ UNCHANGED alignVars
        /\ UNCHANGED <<vmap, chain, fn, last, choice, at, from, pos, phi>>
        /\ operands' = Extend(operands, named)
        /\ finalBB' = [f \in Func |-> Extend(places(f), finalBB[f])]
    <2>1. phase' = "labels" /\ step' = step + 1
      BY <1>1 DEF AssignLabelOperands
    <2>2. /\ UNCHANGED <<source, alignment>> /\ UNCHANGED alignVars
          /\ UNCHANGED <<vmap, chain, fn, last, choice, at, from, pos, phi>>
      BY DEF AssignLabelOperands, alignVars, runVars
    <2>3. operands' = Extend(operands, [n \in {Merged(c)} |-> [k \in to |-> MergeLabelOperands(c, k)]])
      BY <1>0, Zenon DEF AssignLabelOperands
    <2>4. finalBB' = [f \in Func |->
            Extend([n \in {[l \in to |-> MergeLabelOperands(c, l)][k] : k \in to}
                      |-> alignment[c][f][1]], finalBB[f])]
      BY <1>0, Zenon DEF AssignLabelOperands
    <2>5. operands' = Extend(operands, named)
      BY <1>6, <2>3
    <2>6. \A f \in Func :
            [n \in {[l \in to |-> MergeLabelOperands(c, l)][k] : k \in to} |-> alignment[c][f][1]]
              = places(f)
      BY <1>6
    <2>7. finalBB' = [f \in Func |-> Extend(places(f), finalBB[f])]
      BY <2>4, <2>6
    <2>8. QED BY <2>1, <2>2, <2>5, <2>7
  <1>8. AlignInv'
    BY <1>1, <1>7, AlignInvStays
  <1>9. /\ Func' = Func
        /\ \A g : Positions(g)' = Positions(g) /\ Blocks(g)' = Blocks(g)
        /\ \A g, p : NodeOf(g, p)' = NodeOf(g, p) /\ OwnLabels(g, p)' = OwnLabels(g, p)
        /\ \A g : /\ OwnPositions(g)' = OwnPositions(g) /\ OwnEnds(g)' = OwnEnds(g)
                  /\ Edges(g)' = Edges(g) /\ Placed(g)' = Placed(g)
        /\ \A d : Labels(d)' = Labels(d)
    BY <1>7, SourceStays, AlignmentStays
  <1>10. \A f \in Func : Laid(f)'
    BY <1>7 DEF Laid
  <1>11. /\ \A d \in DOMAIN alignment : Assigned(d)' <=> Assigned(d) \/ d = c
         /\ ~ Assigned(c)
    <2>1. DOMAIN alignment = 1 .. Len(alignment) /\ Len(alignment) \in Nat
      BY <1>2 DEF IsAlignment
    <2>2. QED BY <1>0, <1>1, <1>2, <1>7, <2>1 DEF Assigned
  <1> HIDE DEF to, named, places
  <1>12. VmapInv' /\ DOMAIN vmap' = Func'
    BY <1>1, <1>3, <1>7, <1>9, <1>10 DEF VmapInv, BodyInv
  <1>13. ChainInv'
    BY <1>1, <1>3, <1>7, <1>9, <1>10 DEF ChainInv, BodyInv
  <1>14. OperandsInv'
    <2>1. DOMAIN named = {Merged(c)} /\ named[Merged(c)] = Labels(c)
      BY DEF named
    <2>2. Merged(c) \notin DOMAIN operands
      <3>1. \A f \in Func : \A p \in OwnEnds(f) : NodeOf(f, p) # Merged(c)
        BY <1>2, OwnNodes DEF OwnEnds
      <3>2. \A d \in DOMAIN alignment : Assigned(d) => Merged(d) # Merged(c)
        BY <1>11 DEF Merged
      <3>3. QED BY <1>1, <3>1, <3>2 DEF BodyInv, OperandsInv
    <2>3. /\ DOMAIN operands' = DOMAIN operands \cup {Merged(c)}
          /\ operands'[Merged(c)] = Labels(c)
          /\ \A n \in DOMAIN operands : operands'[n] = operands[n]
      <3>1. DOMAIN Extend(operands, named) = DOMAIN operands \cup DOMAIN named
        BY ExtendProperties, Zenon
      <3>2. \A n \in DOMAIN operands : Extend(operands, named)[n] = operands[n]
        BY ExtendProperties, Zenon
      <3>3. \A n \in DOMAIN named \ DOMAIN operands : Extend(operands, named)[n] = named[n]
        BY ExtendProperties, Zenon
      <3>4. QED BY <1>7, <2>1, <2>2, <3>1, <3>2, <3>3
    <2>4. QED BY <1>1, <1>3, <1>7, <1>9, <1>10, <1>11, <2>3 DEF OperandsInv, BodyInv
  <1>15. ASSUME NEW f \in Func PROVE FinalOf(f)'
    <2>1. FinalOf(f)
      BY <1>1 DEF BodyInv, FinalInv
    <2>2. finalBB'[f] = Extend(places(f), finalBB[f])
      BY <1>7
    <2>3. /\ DOMAIN places(f) = {Labels(c)[k] : k \in to}
          /\ \A n \in DOMAIN places(f) : places(f)[n] = alignment[c][f][1]
      BY DEF places
    <2>4. /\ DOMAIN finalBB'[f] = DOMAIN places(f) \cup DOMAIN finalBB[f]
          /\ \A n \in DOMAIN places(f) : finalBB'[f][n] = alignment[c][f][1]
          /\ \A n \in DOMAIN finalBB[f] \ DOMAIN places(f) : finalBB'[f][n] = finalBB[f][n]
      <3>1. DOMAIN Extend(places(f), finalBB[f]) = DOMAIN places(f) \cup DOMAIN finalBB[f]
        BY ExtendProperties, Zenon
      <3>2. \A n \in DOMAIN places(f) : Extend(places(f), finalBB[f])[n] = places(f)[n]
        BY ExtendProperties, Zenon
      <3>3. \A n \in DOMAIN finalBB[f] \ DOMAIN places(f) :
              Extend(places(f), finalBB[f])[n] = finalBB[f][n]
        BY ExtendProperties, Zenon
      <3>4. QED BY <2>2, <2>3, <3>1, <3>2, <3>3
    <2>5. \A n \in DOMAIN places(f) :
            \/ IsSelect(n)
            \/ \E d \in DOMAIN alignment : n = Merged(d) /\ IsLabel(alignment[d][f])
      <3> SUFFICES ASSUME NEW k \in to
                   PROVE  \/ IsSelect(Labels(c)[k])
                          \/ \E d \in DOMAIN alignment : /\ Labels(c)[k] = Merged(d)
                                                         /\ IsLabel(alignment[d][f])
        BY <2>3
      <3>1. \/ \E d \in DOMAIN alignment : /\ Labels(c)[k] = Merged(d)
                                           /\ \A g \in Func : IsLabel(alignment[d][g])
            \/ Labels(c)[k] = Select(Goals(c, k))
        BY <1>2, <1>4, LabelIs
      <3>2. QED BY <3>1 DEF IsSelect, Select
    <2>6. alignment[c][f][1] \in Blocks(f)
      BY <1>2, PositionsAre DEF IsAlignment
    <2>7. \A n \in DOMAIN finalBB'[f] :
            /\ finalBB'[f][n] \in Blocks(f)
            /\ \/ IsSelect(n)
               \/ \E d \in DOMAIN alignment : n = Merged(d)
               \/ \E p \in OwnPositions(f) : n = NodeOf(f, p)
      BY <2>1, <2>4, <2>5, <2>6 DEF FinalOf
    <2>8. \A d \in DOMAIN alignment : ~ IsLabel(alignment[d][f]) =>
            Merged(d) \in DOMAIN finalBB'[f] /\ finalBB'[f][Merged(d)] = alignment[d][f][1]
      <3> SUFFICES ASSUME NEW d \in DOMAIN alignment, ~ IsLabel(alignment[d][f])
                   PROVE  /\ Merged(d) \in DOMAIN finalBB'[f]
                          /\ finalBB'[f][Merged(d)] = alignment[d][f][1]
        OBVIOUS
      <3>1. Merged(d) \notin DOMAIN places(f)
        BY <2>5 DEF IsSelect, Merged
      <3>2. QED BY <2>1, <2>4, <3>1 DEF FinalOf
    <2>9. \A p \in OwnPositions(f) :
            NodeOf(f, p) \in DOMAIN finalBB'[f] /\ finalBB'[f][NodeOf(f, p)] = p[1]
      <3> SUFFICES ASSUME NEW p \in OwnPositions(f)
                   PROVE  /\ NodeOf(f, p) \in DOMAIN finalBB'[f]
                          /\ finalBB'[f][NodeOf(f, p)] = p[1]
        OBVIOUS
      <3>1. NodeOf(f, p) \notin DOMAIN places(f)
        BY <1>2, <2>5, OwnNodes
      <3>2. QED BY <1>3, <2>1, <2>4, <3>1 DEF FinalOf
    <2>10. ASSUME NEW d \in DOMAIN alignment, Assigned(d) \/ d = c,
                  NEW k \in DOMAIN Labels(d), IsSelect(Labels(d)[k])
           PROVE  /\ Labels(d)[k] \in DOMAIN finalBB'[f]
                  /\ \E e \in DOMAIN alignment :
                       /\ Assigned(e) \/ e = c
                       /\ \E l \in DOMAIN Labels(e) : Labels(e)[l] = Labels(d)[k]
                       /\ finalBB'[f][Labels(d)[k]] = alignment[e][f][1]
      <3>1. CASE Labels(d)[k] \in DOMAIN places(f)
        <4>1. \E l \in DOMAIN Labels(c) : Labels(c)[l] = Labels(d)[k]
          BY <1>4, <2>3, <3>1
        <4>2. finalBB'[f][Labels(d)[k]] = alignment[c][f][1]
          BY <2>4, <3>1
        <4>3. QED BY <2>4, <3>1, <4>1, <4>2
      <3>2. CASE Labels(d)[k] \notin DOMAIN places(f)
        <4>1. d # c
          BY <1>4, <2>3, <3>2
        <4>2. /\ Labels(d)[k] \in DOMAIN finalBB[f]
              /\ \E e \in DOMAIN alignment :
                   /\ Assigned(e) /\ \E l \in DOMAIN Labels(e) : Labels(e)[l] = Labels(d)[k]
                   /\ finalBB[f][Labels(d)[k]] = alignment[e][f][1]
          BY <2>1, <2>10, <4>1 DEF FinalOf
        <4>3. finalBB'[f][Labels(d)[k]] = finalBB[f][Labels(d)[k]]
          BY <2>4, <3>2, <4>2
        <4>4. QED BY <2>4, <4>2, <4>3
      <3>3. QED BY <3>1, <3>2
    <2>11. QED BY <1>7, <1>9, <1>10, <1>11, <2>7, <2>8, <2>9, <2>10 DEF FinalOf
  <1>16. FinalInv'
    <2>1. DOMAIN finalBB' = Func'
      BY <1>7, <1>9
    <2>2. QED BY <1>9, <1>15, <2>1 DEF FinalInv
  <1>17. fn' = None /\ AtEntry'
    BY <1>1, <1>7 DEF AtEntry
  <1>18. BodyInv'
    BY <1>2, <1>7, <1>12, <1>13, <1>14, <1>16 DEF BodyInv
  <1>19. QED BY <1>7, <1>8, <1>17, <1>18 DEF IInv

-----------------------------------------------------------------------------
(* The elements of f in the block of q, as they are executed.               *)
LEMMA InNode ==
  ASSUME IsGroup, IsAlignment, NEW f \in Func, NEW q \in Positions(f), vmap[f] = Placed(f)
  PROVE  \E i, m \in Nat :
           /\ q[2] \in i .. m /\ i <= m /\ m <= Len(source[f][q[1]])
           /\ Len(Code(NodeOf(f, q), f)) = m - i + 1
           /\ \A k \in 1 .. m - i + 1 :
                /\ Code(NodeOf(f, q), f)[k] = <<f, q[1], i + k - 1>>
                /\ <<q[1], i + k - 1>> \in Positions(f)
                /\ NodeOf(f, <<q[1], i + k - 1>>) = NodeOf(f, q)
           /\ \A p \in Positions(f) : NodeOf(f, p) = NodeOf(f, q) <=> p[1] = q[1] /\ p[2] \in i .. m
           /\ Starts(f, q) => q[2] = i
  <1>1. PICK i \in Nat, m \in Nat :
          /\ IsInterval(f, NodeOf(f, q), q[1], i, m)
          /\ q[2] \in i .. m
          /\ Starts(f, q) => q[2] = i
          /\ NodeOf(f, q)[1] = "merged" => i = m
          /\ NodeOf(f, q)[1] # "merged" => NodeOf(f, q) = <<"own", f, q[1], i>>
    BY NodeIsInterval
  <1>2. /\ Len(Code(NodeOf(f, q), f)) = m - i + 1
        /\ \A k \in 1 .. m - i + 1 :
             /\ Code(NodeOf(f, q), f)[k] = <<f, q[1], i + k - 1>>
             /\ <<q[1], i + k - 1>> \in Positions(f)
             /\ NodeOf(f, <<q[1], i + k - 1>>) = NodeOf(f, q)
    BY <1>1, CodeIs
  <1>3. /\ i <= m /\ m <= Len(source[f][q[1]])
        /\ \A p \in Positions(f) : NodeOf(f, p) = NodeOf(f, q) <=> p[1] = q[1] /\ p[2] \in i .. m
    BY <1>1 DEF IsInterval
  <1>4. QED BY <1>1, <1>2, <1>3, Zenon

(* A block of the merged function is left at its last element.              *)
LEMMA LastOfNode ==
  ASSUME IsGroup, IsAlignment, NEW f \in Func, NEW p \in Positions(f), NEW q \in Positions(f),
         NodeOf(f, p) = NodeOf(f, q),
         IsTerminator(f, p) \/ NodeOf(f, SuccessorPosition(p)) # NodeOf(f, p),
         IsTerminator(f, q) \/ NodeOf(f, SuccessorPosition(q)) # NodeOf(f, q)
  PROVE  p = q
  <1>1. PICK i \in Nat, m \in Nat : IsInterval(f, NodeOf(f, q), q[1], i, m)
    BY NodeIsInterval
  <1>2. /\ i <= m /\ m <= Len(source[f][q[1]])
        /\ \A r \in Positions(f) : NodeOf(f, r) = NodeOf(f, q) <=> r[1] = q[1] /\ r[2] \in i .. m
    BY <1>1 DEF IsInterval
  <1>3. ASSUME NEW r \in Positions(f), NodeOf(f, r) = NodeOf(f, q),
               IsTerminator(f, r) \/ NodeOf(f, SuccessorPosition(r)) # NodeOf(f, r)
        PROVE  r = <<q[1], m>>
    <2>1. /\ r = <<r[1], r[2]>> /\ r[1] = q[1] /\ r[2] \in i .. m /\ r[2] \in Nat
          /\ Len(source[f][r[1]]) \in Nat
      BY <1>2, <1>3, PositionsAre
    <2>2. r[2] = m
      <3> SUFFICES ASSUME r[2] < m PROVE FALSE
        BY <2>1
      <3>1. ~ IsTerminator(f, r)
        BY <1>2, <2>1 DEF IsTerminator
      <3>2. SuccessorPosition(r) \in Positions(f)
        BY <3>1, TargetsAreBlocks
      <3>3. SuccessorPosition(r)[1] = q[1] /\ SuccessorPosition(r)[2] = r[2] + 1
        BY <2>1 DEF SuccessorPosition
      <3>4. NodeOf(f, SuccessorPosition(r)) = NodeOf(f, q)
        BY <1>2, <2>1, <3>2, <3>3
      <3>5. QED BY <1>3, <3>1, <3>4
    <2>3. QED BY <2>1, <2>2
  <1>4. QED BY <1>3

LEMMA EdgeIs ==
  ASSUME NEW f, NEW e \in Edges(f)
  PROVE  /\ e.fn = f
         /\ \/ e.from = Entry /\ e.to = NodeOf(f, <<1, 0>>)
            \/ \E p \in Positions(f) : /\ ~ IsTerminator(f, p)
                                       /\ NodeOf(f, p) # NodeOf(f, SuccessorPosition(p))
                                       /\ e.from = NodeOf(f, p)
                                       /\ e.to = NodeOf(f, SuccessorPosition(p))
  BY DEF Edges

(* A block is either made for a matched entry, or of one function.          *)
LEMMA NodeKinds ==
  ASSUME IsGroup, IsAlignment, NEW f \in Func, NEW p \in Positions(f)
  PROVE  /\ NodeOf(f, p)[1] \in {"merged", "own"}
         /\ NodeOf(f, p) # Entry /\ ~ IsSelect(NodeOf(f, p))
         /\ NodeOf(f, p)[1] = "own" => NodeOf(f, p)[2] = f /\ p \in OwnPositions(f)
         /\ NodeOf(f, p)[1] = "merged" =>
              \E c \in DOMAIN alignment : p = alignment[c][f] /\ NodeOf(f, p) = Merged(c)
  <1>1. CASE IsMatched(f, p)
    <2>1. PICK c \in DOMAIN alignment : p = alignment[c][f] /\ NodeOf(f, p) = Merged(c)
      BY <1>1, MatchedNode
    <2>2. NodeOf(f, p)[1] = "merged"
      BY <2>1 DEF Merged
    <2>3. NodeOf(f, p) # Entry
      BY <2>2 DEF Entry
    <2>4. QED BY <2>1, <2>2, <2>3 DEF IsSelect
  <1>2. CASE ~ IsMatched(f, p)
    <2>1. p \in OwnPositions(f)
      BY <1>2 DEF OwnPositions
    <2>2. NodeOf(f, p)[1] = "own" /\ NodeOf(f, p)[2] = f
      BY <2>1, OwnNodes
    <2>3. NodeOf(f, p) # Entry
      BY <2>2 DEF Entry
    <2>4. QED BY <2>1, <2>2, <2>3 DEF IsSelect
  <1>3. QED BY <1>1, <1>2

(* A function leaves a block for one block.                                 *)
LEMMA OneExit ==
  ASSUME IsGroup, IsAlignment, NEW f \in Func, NEW d \in Edges(f), NEW e \in Edges(f), d.from = e.from
  PROVE  d.to = e.to
  <1>1. CASE d.from = Entry
    <2>1. \A p \in Positions(f) : NodeOf(f, p) # Entry
      BY NodeKinds
    <2>2. d.to = NodeOf(f, <<1, 0>>)
      BY <1>1, <2>1, EdgeIs
    <2>3. e.to = NodeOf(f, <<1, 0>>)
      <3>1. e.from = Entry
        BY <1>1
      <3>2. QED BY <2>1, <3>1, EdgeIs
    <2>4. QED BY <2>2, <2>3
  <1>2. CASE d.from # Entry
    <2>1. PICK p \in Positions(f) : /\ NodeOf(f, p) # NodeOf(f, SuccessorPosition(p))
                                    /\ d.from = NodeOf(f, p)
                                    /\ d.to = NodeOf(f, SuccessorPosition(p))
      BY <1>2, EdgeIs
    <2>2. PICK q \in Positions(f) : /\ NodeOf(f, q) # NodeOf(f, SuccessorPosition(q))
                                    /\ e.from = NodeOf(f, q)
                                    /\ e.to = NodeOf(f, SuccessorPosition(q))
      BY <1>2, EdgeIs
    <2>3. p = q
      BY <2>1, <2>2, LastOfNode
    <2>4. QED BY <2>1, <2>2, <2>3
  <1>3. QED BY <1>1, <1>2

(* The blocks control may go to without a choice, when the whole chain is   *)
(* made: that of fn's own edge, and none where fn has no edge.             *)
Exits(n) == {e \in chain : e.from = n}

LEMMA FollowsEdge ==
  ASSUME IsGroup, IsAlignment, chain = UNION {Edges(f) : f \in Func}, fn \in Func,
         ~ IsSelect(at), choice = 0, NEW e \in Edges(fn), e.from = at
  PROVE  Destinations = {e.to}
  <1> DEFINE T == {x.to : x \in Exits(at)}
             S == {x.fn : x \in Exits(at)}
             h == [f \in S |-> CHOOSE t \in T : \E x \in Exits(at) : x.fn = f /\ x.to = t]
  <1>1. e \in Exits(at) /\ e.fn = fn
    BY EdgeIs DEF Exits
  <1>2. \A x \in Exits(at) : x.fn \in Func /\ x \in Edges(x.fn)
    BY EdgeIs DEF Exits
  <1>3. \A x, y \in Exits(at) : x.fn = y.fn => x.to = y.to
    <2> SUFFICES ASSUME NEW x \in Exits(at), NEW y \in Exits(at), x.fn = y.fn PROVE x.to = y.to
      OBVIOUS
    <2>1. x \in Edges(x.fn) /\ y \in Edges(x.fn) /\ x.from = y.from /\ x.fn \in Func
      BY <1>2 DEF Exits
    <2>2. QED BY <2>1, OneExit
  <1>4. \A x \in Exits(at) : h[x.fn] = x.to
    <2> SUFFICES ASSUME NEW x \in Exits(at) PROVE h[x.fn] = x.to
      OBVIOUS
    <2>1. x.fn \in S /\ x.to \in T
      OBVIOUS
    <2> DEFINE t == CHOOSE t \in T : \E y \in Exits(at) : y.fn = x.fn /\ y.to = t
    <2>2. \E y \in Exits(at) : y.fn = x.fn /\ y.to = t
      <3> HIDE DEF T
      <3>1. QED BY <2>1
    <2>3. t = x.to
      BY <1>3, <2>2
    <2>4. h[x.fn] = t
      BY <2>1
    <2>5. QED BY <2>3, <2>4
  <1>5. IsFiniteSet(S)
    <2>1. S \in SUBSET Func
      BY <1>2
    <2>2. QED BY <2>1, FS_Subset DEF IsGroup
  <1>6. IsFiniteSet(T)
    <2>1. h \in [S -> T]
      <3>1. \A f \in S : h[f] \in T
        BY <1>4
      <3>2. QED BY <3>1
    <2>2. \A t \in T : \E f \in S : h[f] = t
      <3> SUFFICES ASSUME NEW t \in T PROVE \E f \in S : h[f] = t
        OBVIOUS
      <3>1. PICK x \in Exits(at) : t = x.to
        OBVIOUS
      <3>2. x.fn \in S /\ h[x.fn] = t
        BY <1>4, <3>1
      <3> HIDE DEF h, S
      <3>3. QED BY <3>2
    <2>3. h \in Surjection(S, T)
      <3> HIDE DEF h, S, T
      <3>1. QED BY <2>1, <2>2, Fun_IsSurj
    <2>4. QED BY <1>5, <2>3, FS_Surjection
  <1>7. e.to \in T
    BY <1>1
  <1>8. Cardinality(T) = 1 => T = {e.to}
    <2> HIDE DEF T
    <2>1. Cardinality(T) = 1 => \E x : T = {x}
      BY <1>6, FS_Singleton
    <2>2. QED BY <1>7, <2>1
  <1>9. {x.to : x \in {y \in Exits(at) : y.fn = fn}} = {e.to}
    BY <1>1, <1>3
  <1>10. Destinations = IF Cardinality(T) = 1 THEN T ELSE {x.to : x \in {y \in Exits(at) : y.fn = fn}}
    BY DEF Destinations, Exits
  <1> HIDE DEF T
  <1>11. QED BY <1>8, <1>9, <1>10

LEMMA NoEdgeToFollow ==
  ASSUME ~ IsSelect(at), choice = 0, Exits(at) = {}
  PROVE  Destinations = {}
  <1>1. {x.to : x \in Exits(at)} = {} /\ {x.to : x \in {y \in Exits(at) : y.fn = fn}} = {}
    OBVIOUS
  <1>2. Cardinality({}) # 1
    BY FS_EmptySet
  <1>3. QED BY <1>1, <1>2 DEF Destinations, Exits

(* From an element that is no terminator, control runs on.                  *)
LEMMA RunsOn ==
  ASSUME IsGroup, IsAlignment, chain = UNION {Edges(f) : f \in Func}, fn \in Func, choice = 0,
         NEW p \in Positions(fn), at = NodeOf(fn, p), ~ IsTerminator(fn, p),
         NodeOf(fn, SuccessorPosition(p)) # at
  PROVE  Destinations = {NodeOf(fn, SuccessorPosition(p))}
  <1> DEFINE e == [from |-> NodeOf(fn, p), fn |-> fn, to |-> NodeOf(fn, SuccessorPosition(p))]
  <1>1. e \in Edges(fn)
    BY DEF Edges
  <1>2. e.from = at /\ e.to = NodeOf(fn, SuccessorPosition(p))
    OBVIOUS
  <1>3. ~ IsSelect(at)
    BY NodeKinds
  <1> HIDE DEF e
  <1>4. QED BY <1>1, <1>2, <1>3, FollowsEdge

(* From a terminator without targets, it does not.                          *)
LEMMA RunEnds ==
  ASSUME IsGroup, IsAlignment, chain = UNION {Edges(f) : f \in Func}, fn \in Func, choice = 0,
         NEW p \in Positions(fn), at = NodeOf(fn, p), IsTerminator(fn, p)
  PROVE  Destinations = {}
  <1> SUFFICES ASSUME NEW e \in Exits(at) PROVE FALSE
    BY NodeKinds, NoEdgeToFollow
  <1>1. PICK f \in Func : e \in Edges(f)
    BY DEF Exits
  <1>2. e.from = at /\ at # Entry
    BY NodeKinds DEF Exits
  <1>3. PICK q \in Positions(f) : /\ ~ IsTerminator(f, q)
                                  /\ NodeOf(f, q) # NodeOf(f, SuccessorPosition(q))
                                  /\ NodeOf(f, q) = NodeOf(fn, p)
    BY <1>1, <1>2, EdgeIs
  <1>4. CASE NodeOf(fn, p)[1] = "own"
    <2>1. f = fn
      BY <1>3, <1>4, NodeKinds
    <2>2. p = q
      BY <1>3, <2>1, LastOfNode
    <2>3. QED BY <1>3, <2>1, <2>2
  <1>5. CASE NodeOf(fn, p)[1] = "merged"
    <2>1. PICK c \in DOMAIN alignment : p = alignment[c][fn] /\ NodeOf(fn, p) = Merged(c)
      BY <1>5, NodeKinds
    <2>2. PICK d \in DOMAIN alignment : q = alignment[d][f] /\ NodeOf(f, q) = Merged(d)
      BY <1>3, <1>5, NodeKinds
    <2>3. c = d
      BY <1>3, <2>1, <2>2 DEF Merged
    <2>4. QED BY <1>3, <2>1, <2>2, <2>3, MatchesAgree
  <1>6. QED BY <1>4, <1>5, NodeKinds

-----------------------------------------------------------------------------
(* The execution. *)
LEMMA WhileRunning ==
  ASSUME IInv, phase = "run"
  PROVE  /\ AlignInv /\ BodyInv /\ RunInv /\ IsGroup /\ IsAlignment
         /\ chain = UNION {Edges(f) : f \in Func}
         /\ \A f \in Func : vmap[f] = Placed(f) /\ Laid(f)
         /\ \A c : Assigned(c)
         /\ Code(Entry, fn) = << >>
         /\ \A n : IsSelect(n) => Code(n, fn) = << >>
         /\ None \notin Func /\ Func \subseteq Nat
  <1>1. AlignInv /\ BodyInv /\ RunInv
    BY DEF IInv
  <1>2. IsGroup /\ IsAlignment
    BY <1>1 DEF AlignInv
  <1>3. (\A f : Laid(f)) /\ \A c : Assigned(c)
    BY DEF Laid, Assigned
  <1>4. chain = UNION {Edges(f) : f \in Func}
    BY <1>1, <1>3 DEF BodyInv, ChainInv
  <1>5. \A f \in Func : vmap[f] = Placed(f)
    BY <1>1, <1>3 DEF BodyInv, VmapInv
  <1>6. Code(Entry, fn) = << >> /\ \A n : IsSelect(n) => Code(n, fn) = << >>
    BY DEF Code, Entry, IsSelect
  <1>7. None \notin Func /\ Func \subseteq Nat
    BY <1>2, BaseIsFunc, MergedBodyAssumption
  <1>8. QED BY <1>1, <1>2, <1>3, <1>4, <1>5, <1>6, <1>7

(* The element executed next is the first one, or follows the last one.     *)
LEMMA NextElement ==
  ASSUME IInv, phase = "run", fn # None, pos < Len(Code(at, fn))
  PROVE  \E q \in Positions(fn) :
           /\ Code(at, fn)[pos + 1] = Element(q) /\ at = NodeOf(fn, q)
           /\ pos + 1 \in 1 .. Len(Code(at, fn))
           /\ \/ last = None /\ choice = 0 /\ q = <<1, 0>>
              \/ \E p \in Positions(fn) : last = Element(p) /\ Continues(p, q)
  <1>1. /\ IsGroup /\ IsAlignment /\ RunInv
        /\ \A f \in Func : vmap[f] = Placed(f)
        /\ Code(Entry, fn) = << >> /\ \A n : IsSelect(n) => Code(n, fn) = << >>
    BY WhileRunning
  <1>2. fn \in Func /\ (AtEntry \/ Before \/ Within \/ Selecting)
    BY <1>1 DEF RunInv
  <1>3. Len(<< >>) = 0
    OBVIOUS
  <1>4. ~ AtEntry /\ ~ Selecting
    BY <1>1, <1>3 DEF AtEntry, Selecting, GoesThrough
  <1>5. CASE Before
    <2>1. PICK q \in Positions(fn) :
            /\ pos = 0 /\ at = NodeOf(fn, q) /\ Starts(fn, q)
            /\ \/ last = None /\ choice = 0 /\ q = <<1, 0>>
               \/ \E p \in Positions(fn) : last = Element(p) /\ Continues(p, q)
      BY <1>5 DEF Before
    <2>2. PICK i \in Nat, m \in Nat :
            /\ i <= m /\ Len(Code(at, fn)) = m - i + 1
            /\ \A k \in 1 .. m - i + 1 :
                 /\ Code(at, fn)[k] = <<fn, q[1], i + k - 1>>
                 /\ <<q[1], i + k - 1>> \in Positions(fn)
                 /\ NodeOf(fn, <<q[1], i + k - 1>>) = at
            /\ Starts(fn, q) => q[2] = i
      <3>1. vmap[fn] = Placed(fn)
        BY <1>1, <1>2
      <3>2. at = NodeOf(fn, q)
        BY <2>1
      <3>3. PICK i \in Nat, m \in Nat :
              /\ q[2] \in i .. m /\ i <= m /\ m <= Len(source[fn][q[1]])
              /\ Len(Code(NodeOf(fn, q), fn)) = m - i + 1
              /\ \A k \in 1 .. m - i + 1 :
                   /\ Code(NodeOf(fn, q), fn)[k] = <<fn, q[1], i + k - 1>>
                   /\ <<q[1], i + k - 1>> \in Positions(fn)
                   /\ NodeOf(fn, <<q[1], i + k - 1>>) = NodeOf(fn, q)
              /\ Starts(fn, q) => q[2] = i
        BY <1>1, <1>2, <3>1, InNode
      <3>4. QED BY <3>2, <3>3
    <2>3. q[2] = i /\ 1 \in 1 .. m - i + 1 /\ i + 1 - 1 = i
      BY <2>1, <2>2
    <2>4. Code(at, fn)[1] = Element(q)
      BY <2>2, <2>3 DEF Element
    <2>5. QED BY <2>1, <2>2, <2>3, <2>4
  <1>6. CASE Within
    <2>1. PICK p \in Positions(fn) :
            /\ last = Element(p) /\ at = NodeOf(fn, p)
            /\ pos \in 1 .. Len(Code(at, fn)) /\ Code(at, fn)[pos] = last
            /\ choice \in IF Targets(fn, p) = << >> THEN {0} ELSE DOMAIN Targets(fn, p)
      BY <1>6 DEF Within
    <2>2. PICK i \in Nat, m \in Nat :
            /\ i <= m /\ m <= Len(source[fn][p[1]]) /\ Len(Code(at, fn)) = m - i + 1
            /\ \A k \in 1 .. m - i + 1 :
                 /\ Code(at, fn)[k] = <<fn, p[1], i + k - 1>>
                 /\ <<p[1], i + k - 1>> \in Positions(fn)
                 /\ NodeOf(fn, <<p[1], i + k - 1>>) = at
      BY <1>1, <1>2, <2>1, InNode
    <2>3. pos \in 1 .. m - i + 1 /\ pos + 1 \in 1 .. m - i + 1
      BY <2>1, <2>2
    <2>4. /\ p = <<p[1], p[2]>> /\ p[2] \in Nat /\ p[1] \in Blocks(fn)
          /\ Len(source[fn][p[1]]) \in Nat
      BY <1>1, <1>2, PositionsAre
    <2>5. p[2] = i + pos - 1
      <3>1. <<fn, p[1], i + pos - 1>> = <<fn, p[1], p[2]>>
        BY <2>1, <2>2, <2>3 DEF Element
      <3>2. QED BY <3>1
    <2>6. ~ IsTerminator(fn, p)
      BY <2>2, <2>3, <2>4, <2>5 DEF IsTerminator
    <2>7. choice = 0
      BY <1>1, <1>2, <2>1, <2>6, TargetsAreBlocks
    <2>8. SuccessorPosition(p) = <<p[1], i + (pos + 1) - 1>>
      BY <2>2, <2>3, <2>5 DEF SuccessorPosition
    <2> DEFINE q == SuccessorPosition(p)
    <2>9. q \in Positions(fn) /\ at = NodeOf(fn, q) /\ Code(at, fn)[pos + 1] = <<fn, p[1], i + (pos + 1) - 1>>
      BY <2>2, <2>3, <2>8
    <2>10. Element(q) = <<fn, p[1], i + (pos + 1) - 1>>
      BY <2>8 DEF Element
    <2>11. Continues(p, q)
      BY <2>6, <2>7 DEF Continues
    <2>12. QED BY <2>1, <2>2, <2>3, <2>9, <2>10, <2>11
  <1>7. QED BY <1>2, <1>4, <1>5, <1>6

LEMMA RunStays ==
  ASSUME IInv, phase = "run", UNCHANGED <<alignVars, phase, step, bodyVars>>
  PROVE  /\ phase' = "run" /\ AlignInv' /\ BodyInv'
         /\ Func' = Func
         /\ \A f : Positions(f)' = Positions(f)
         /\ \A f, p : /\ Targets(f, p)' = Targets(f, p) /\ NodeOf(f, p)' = NodeOf(f, p)
                      /\ IsMatched(f, p)' <=> IsMatched(f, p)
                      /\ IsTerminator(f, p)' <=> IsTerminator(f, p)
                      /\ Starts(f, p)' <=> Starts(f, p)
         /\ \A c : Labels(c)' = Labels(c)
         /\ \A n, f : Code(n, f)' = Code(n, f)
         /\ alignment' = alignment
  <1>1. /\ AlignInv /\ BodyInv /\ UNCHANGED <<source, alignment>> /\ UNCHANGED alignVars
        /\ UNCHANGED <<phase, step, vmap, chain, operands, finalBB>>
    BY DEF IInv, alignVars, bodyVars
  <1>2. AlignInv'
    BY <1>1, AlignInvStays
  <1>3. /\ Func' = Func
        /\ \A f : Positions(f)' = Positions(f) /\ Blocks(f)' = Blocks(f)
        /\ \A f, p : Targets(f, p)' = Targets(f, p) /\ (IsTerminator(f, p)' <=> IsTerminator(f, p))
    BY <1>1, SourceStays
  <1>4. /\ \A f, p : /\ NodeOf(f, p)' = NodeOf(f, p) /\ OwnLabels(f, p)' = OwnLabels(f, p)
                     /\ IsMatched(f, p)' <=> IsMatched(f, p)
        /\ \A f : /\ OwnPositions(f)' = OwnPositions(f) /\ OwnEnds(f)' = OwnEnds(f)
                  /\ Edges(f)' = Edges(f) /\ Placed(f)' = Placed(f)
        /\ \A c : Labels(c)' = Labels(c)
    BY <1>1, AlignmentStays
  <1>5. (\A f : Laid(f)' <=> Laid(f)) /\ \A c : Assigned(c)' <=> Assigned(c)
    BY <1>1 DEF Laid, Assigned
  <1>6. \A f, p : Starts(f, p)' <=> Starts(f, p)
    BY <1>4 DEF Starts, Begins
  <1>7. \A n, f : Code(n, f)' = Code(n, f)
    BY <1>1, <1>3 DEF Code
  <1>8. VmapInv' /\ ChainInv' /\ DOMAIN vmap' = Func'
    BY <1>1, <1>3, <1>4, <1>5 DEF VmapInv, ChainInv, BodyInv
  <1>9. OperandsInv'
    BY <1>1, <1>3, <1>4, <1>5 DEF OperandsInv, BodyInv
  <1>10. FinalInv'
    <2>1. ASSUME NEW f \in Func PROVE FinalOf(f)'
      BY <1>1, <1>3, <1>4, <1>5 DEF FinalOf, FinalInv, BodyInv
    <2>2. QED BY <1>1, <1>3, <2>1 DEF FinalInv, BodyInv
  <1>11. BodyInv'
    BY <1>1, <1>8, <1>9, <1>10 DEF BodyInv
  <1>12. QED BY <1>1, <1>2, <1>3, <1>4, <1>6, <1>7, <1>11

(* What the elements are in the source functions.                           *)
LEMMA ElementIs ==
  ASSUME IsGroup, fn \in Func, NEW p \in Positions(fn)
  PROVE  /\ Source!Targets(Element(p)) = Targets(fn, p)
         /\ Source!IsReturn(Element(p)) <=> Targets(fn, p) = << >> /\ IsTerminator(fn, p)
         /\ Element(p) # None
         /\ p = <<p[1], p[2]>>
  <1>1. p = <<p[1], p[2]>> /\ p[1] \in Nat /\ p[2] \in Nat /\ fn \in Nat
    BY PositionsAre, BaseIsFunc
  <1>2. Element(p)[1] = fn /\ Element(p)[2] = p[1] /\ Element(p)[3] = p[2]
    BY DEF Element
  <1>3. Source!Targets(Element(p)) = Targets(fn, p)
    BY <1>2 DEF Source!Targets, Targets, IsLabel, Inst
  <1>4. Source!IsReturn(Element(p)) <=> Targets(fn, p) = << >> /\ IsTerminator(fn, p)
    BY <1>2, <1>3 DEF Source!IsReturn, IsTerminator
  <1>5. Element(p) \in Nat \X Nat \X Nat
    BY <1>1 DEF Element
  <1>6. QED BY <1>1, <1>3, <1>4, <1>5, MergedBodyAssumption

LEMMA ContinuesAsSource ==
  ASSUME IsGroup, fn \in Func, NEW p \in Positions(fn), NEW q, last = Element(p), Continues(p, q)
  PROVE  /\ ~ Source!IsReturn(last)
         /\ Source!Following(last, choice) = Element(q)
         /\ last # None
  <1>1. /\ Source!Targets(last) = Targets(fn, p) /\ last # None
        /\ Source!IsReturn(last) <=> Targets(fn, p) = << >> /\ IsTerminator(fn, p)
    BY ElementIs
  <1>2. last[1] = fn /\ last[2] = p[1] /\ last[3] = p[2]
    BY DEF Element
  <1>3. CASE choice = 0 /\ ~ IsTerminator(fn, p) /\ q = SuccessorPosition(p)
    <2>1. Source!Following(last, choice) = <<fn, p[1], p[2] + 1>>
      BY <1>2, <1>3 DEF Source!Following
    <2>2. Element(q) = <<fn, p[1], p[2] + 1>>
      BY <1>3 DEF Element, SuccessorPosition
    <2>3. QED BY <1>1, <1>3, <2>1, <2>2
  <1>4. CASE choice \in DOMAIN Targets(fn, p) /\ q = <<Targets(fn, p)[choice], 0>>
    <2>1. choice # 0 /\ Targets(fn, p) # << >>
      BY <1>4, TargetsAreBlocks
    <2>2. Source!Following(last, choice) = <<fn, Targets(fn, p)[choice], 0>>
      BY <1>1, <1>2, <2>1 DEF Source!Following
    <2>3. Element(q) = <<fn, Targets(fn, p)[choice], 0>>
      BY <1>4 DEF Element
    <2>4. QED BY <1>1, <2>1, <2>2, <2>3
  <1>5. QED BY <1>3, <1>4 DEF Continues

LEMMA CallStep ==
  ASSUME IInv, NEW d \in Func, Call(d)
  PROVE  IInv' /\ Source!Call(d)
  <1>1. /\ phase = "run" /\ fn = None /\ fn' = d
        /\ UNCHANGED <<alignVars, phase, step, bodyVars>>
        /\ UNCHANGED <<source, last, choice, at, pos>>
    BY DEF Call, alignVars
  <1>2. /\ phase' = "run" /\ AlignInv' /\ BodyInv' /\ Func' = Func
    BY <1>1, RunStays
  <1>3. AtEntry
    BY <1>1 DEF IInv, RunInv
  <1>4. AtEntry'
    BY <1>1, <1>3 DEF AtEntry
  <1>5. fn' \in Func' /\ fn' # None
    BY <1>1, <1>2, WhileRunning
  <1>6. RunInv'
    BY <1>4, <1>5 DEF RunInv
  <1>7. QED BY <1>1, <1>2, <1>6 DEF IInv, Source!Call

LEMMA ExecuteStep ==
  ASSUME IInv, Execute
  PROVE  IInv' /\ Source!Next
  <1> DEFINE e == Code(at, fn)[pos + 1]
             to == Targets(e[1], <<e[2], e[3]>>)
  <1>1. /\ fn # None /\ pos < Len(Code(at, fn))
        /\ last' = e /\ pos' = pos + 1
        /\ choice' \in (IF to = << >> THEN {0} ELSE DOMAIN to)
        /\ UNCHANGED <<alignVars, phase, step, bodyVars>>
        /\ UNCHANGED <<source, fn, at, from>>
    BY DEF Execute, alignVars
  <1>2. phase = "run"
    BY <1>1 DEF IInv
  <1>3. /\ phase' = "run" /\ AlignInv' /\ BodyInv' /\ Func' = Func
        /\ \A f : Positions(f)' = Positions(f)
        /\ \A f, p : Targets(f, p)' = Targets(f, p) /\ NodeOf(f, p)' = NodeOf(f, p)
        /\ \A n, f : Code(n, f)' = Code(n, f)
    BY <1>1, <1>2, RunStays
  <1>4. fn \in Func /\ IsGroup
    BY <1>1, <1>2, WhileRunning DEF RunInv
  <1>5. PICK q \in Positions(fn) :
          /\ Code(at, fn)[pos + 1] = Element(q) /\ at = NodeOf(fn, q)
          /\ pos + 1 \in 1 .. Len(Code(at, fn))
          /\ \/ last = None /\ choice = 0 /\ q = <<1, 0>>
             \/ \E p \in Positions(fn) : last = Element(p) /\ Continues(p, q)
    BY <1>1, <1>2, NextElement
  <1>6. last' = Element(q) /\ q = <<q[1], q[2]>>
    BY <1>1, <1>4, <1>5, ElementIs
  <1>7. to = Targets(fn, q)
    <2>1. e[1] = fn /\ e[2] = q[1] /\ e[3] = q[2]
      BY <1>5 DEF Element
    <2>2. QED BY <1>6, <2>1
  <1> HIDE DEF e, to
  <1>8. RunInv'
    <2>1. Element(q)' = Element(q)
      BY <1>1 DEF Element
    <2>2. Positions(fn)' = Positions(fn) /\ NodeOf(fn, q)' = NodeOf(fn, q)
      BY <1>1, <1>3
    <2>3. Targets(fn, q)' = Targets(fn, q) /\ Code(at, fn)' = Code(at, fn)
      BY <1>1, <1>3
    <2>4. Within'
      BY <1>1, <1>5, <1>6, <1>7, <2>1, <2>2, <2>3 DEF Within
    <2>5. QED BY <1>1, <1>3, <1>4, <2>4 DEF RunInv
  <1>9. Source!Next
    <2>1. choice' \in Source!Choices(Element(q))
      BY <1>1, <1>4, <1>7, ElementIs DEF Source!Choices
    <2>2. Source!Execute(Element(q))
      BY <1>1, <1>6, <2>1 DEF Source!Execute
    <2>3. CASE last = None /\ choice = 0 /\ q = <<1, 0>>
      <3>1. Element(q) = <<fn, 1, 0>>
        BY <2>3 DEF Element
      <3>2. QED BY <2>2, <2>3, <3>1 DEF Source!Next, Source!Enter
    <2>4. CASE \E p \in Positions(fn) : last = Element(p) /\ Continues(p, q)
      <3>1. /\ ~ Source!IsReturn(last) /\ Source!Following(last, choice) = Element(q)
            /\ last # None
        BY <1>4, <2>4, ContinuesAsSource
      <3>2. QED BY <2>2, <3>1 DEF Source!Next, Source!Continue
    <2>5. QED BY <1>5, <2>3, <2>4
  <1>10. QED BY <1>3, <1>8, <1>9 DEF IInv

(* Where control goes: to the block of the element that comes next, or      *)
(* through a select block to it.                                           *)
LEMMA WhereTo ==
  ASSUME IInv, phase = "run", fn # None, pos = Len(Code(at, fn)), NEW n \in Destinations
  PROVE  \/ \E q \in Positions(fn) :
              /\ n = NodeOf(fn, q) /\ Starts(fn, q)
              /\ \/ last = None /\ choice = 0 /\ q = <<1, 0>>
                 \/ \E p \in Positions(fn) :
                      /\ last = Element(p)
                      /\ \/ choice = 0 /\ ~ IsTerminator(fn, p) /\ q = SuccessorPosition(p)
                         \/ /\ choice \in DOMAIN Targets(fn, p)
                            /\ q = <<Targets(fn, p)[choice], 0>>
                            /\ at = NodeOf(fn, p) \/ GoesThrough(p, at)
         \/ \E p \in Positions(fn) :
              last = Element(p) /\ choice \in DOMAIN Targets(fn, p) /\ GoesThrough(p, n)
  <1>1. /\ IsGroup /\ IsAlignment /\ RunInv /\ BodyInv
        /\ chain = UNION {Edges(f) : f \in Func}
        /\ \A f \in Func : vmap[f] = Placed(f) /\ Laid(f)
        /\ \A c : Assigned(c)
        /\ Code(Entry, fn) = << >> /\ \A s : IsSelect(s) => Code(s, fn) = << >>
    BY WhileRunning
  <1>2. fn \in Func /\ (AtEntry \/ Before \/ Within \/ Selecting)
    BY <1>1 DEF RunInv
  <1>3. CASE AtEntry
    <2> DEFINE e == [from |-> Entry, fn |-> fn, to |-> NodeOf(fn, <<1, 0>>)]
    <2>1. e \in Edges(fn) /\ e.from = at /\ e.to = NodeOf(fn, <<1, 0>>)
      BY <1>3 DEF Edges, AtEntry
    <2>2. ~ IsSelect(at) /\ choice = 0 /\ last = None
      BY <1>3 DEF AtEntry, IsSelect, Entry
    <2> HIDE DEF e
    <2>3. Destinations = {NodeOf(fn, <<1, 0>>)}
      BY <1>1, <1>2, <2>1, <2>2, FollowsEdge
    <2>4. \A b \in Blocks(fn) : Len(source[fn][b]) \in Nat
      BY <1>1, <1>2, BlocksAreNumbered
    <2>5. <<1, 0>> \in Positions(fn) /\ Starts(fn, <<1, 0>>)
      BY <1>1, <1>2, <2>4, PositionsAre, LabelStarts
    <2>6. n = NodeOf(fn, <<1, 0>>)
      BY <2>3
    <2>7. \E q \in Positions(fn) : n = NodeOf(fn, q) /\ Starts(fn, q) /\ q = <<1, 0>>
      BY <2>5, <2>6
    <2>8. QED BY <2>2, <2>7
  <1>4. CASE Before
    <2>1. PICK q \in Positions(fn) : pos = 0 /\ at = NodeOf(fn, q)
      BY <1>4 DEF Before
    <2>2. vmap[fn] = Placed(fn)
      BY <1>1, <1>2
    <2>3. PICK i \in Nat, m \in Nat : i <= m /\ Len(Code(NodeOf(fn, q), fn)) = m - i + 1
      BY <1>1, <1>2, <2>2, InNode
    <2>4. Code(NodeOf(fn, q), fn) = Code(at, fn)
      BY <2>1
    <2>5. 0 = m - i + 1
      BY <2>1, <2>3, <2>4
    <2>6. QED BY <2>3, <2>5
  <1>5. CASE Selecting
    <2>1. PICK p \in Positions(fn) :
            last = Element(p) /\ choice \in DOMAIN Targets(fn, p) /\ GoesThrough(p, at)
      BY <1>5 DEF Selecting
    <2>2. PICK c \in DOMAIN alignment :
            p = alignment[c][fn] /\ choice \in DOMAIN Labels(c) /\ at = Labels(c)[choice]
      BY <2>1 DEF GoesThrough
    <2>3. IsSelect(at)
      BY <2>1 DEF GoesThrough
    <2> DEFINE q == <<Targets(fn, p)[choice], 0>>
    <2>4. /\ Labels(c)[choice] = Label(c, choice)
          /\ q \in Positions(fn) /\ Goals(c, choice)[fn] = NodeOf(fn, q)
          /\ \/ \E d \in DOMAIN alignment : Label(c, choice) = Merged(d)
             \/ Label(c, choice) = Select(Goals(c, choice))
      BY <1>1, <1>2, <2>2, LabelIs
    <2>5. at = Select(Goals(c, choice))
      BY <2>2, <2>3, <2>4 DEF IsSelect, Merged
    <2>6. at[2][fn] = NodeOf(fn, q)
      BY <2>4, <2>5 DEF Select
    <2>7. n = NodeOf(fn, q)
      BY <2>3, <2>6 DEF Destinations
    <2>8. Starts(fn, q)
      BY LabelStarts
    <2>9. q = <<Targets(fn, p)[choice], 0>>
      OBVIOUS
    <2> HIDE DEF q
    <2>10. QED BY <2>1, <2>4, <2>7, <2>8, <2>9
  <1>6. CASE Within
    <2>1. PICK p \in Positions(fn) :
            /\ last = Element(p) /\ at = NodeOf(fn, p)
            /\ pos \in 1 .. Len(Code(at, fn)) /\ Code(at, fn)[pos] = last
            /\ choice \in IF Targets(fn, p) = << >> THEN {0} ELSE DOMAIN Targets(fn, p)
      BY <1>6 DEF Within
    <2>2. ~ IsSelect(at)
      BY <1>1, <1>2, <2>1, NodeKinds
    <2>3. CASE Targets(fn, p) = << >> /\ IsTerminator(fn, p)
      <3>1. choice = 0
        BY <2>1, <2>3
      <3>2. Destinations = {}
        BY <1>1, <1>2, <2>1, <2>3, <3>1, RunEnds
      <3>3. QED BY <3>2
    <2>4. CASE ~ IsTerminator(fn, p)
      <3>1. choice = 0
        BY <1>1, <1>2, <2>1, <2>4, TargetsAreBlocks
      <3> DEFINE q == SuccessorPosition(p)
      <3>2. q \in Positions(fn)
        BY <1>1, <1>2, <2>4, TargetsAreBlocks
      <3>3. NodeOf(fn, q) # at
        <4>1. vmap[fn] = Placed(fn)
          BY <1>1, <1>2
        <4>2. PICK i \in Nat, m \in Nat :
                /\ i <= m
                /\ Len(Code(NodeOf(fn, p), fn)) = m - i + 1
                /\ \A k \in 1 .. m - i + 1 :
                     /\ Code(NodeOf(fn, p), fn)[k] = <<fn, p[1], i + k - 1>>
                     /\ <<p[1], i + k - 1>> \in Positions(fn)
                     /\ NodeOf(fn, <<p[1], i + k - 1>>) = NodeOf(fn, p)
                /\ \A r \in Positions(fn) :
                     NodeOf(fn, r) = NodeOf(fn, p) <=> r[1] = p[1] /\ r[2] \in i .. m
          BY <1>1, <1>2, <4>1, InNode
        <4>3. pos = m - i + 1 /\ pos \in 1 .. m - i + 1
          BY <2>1, <4>2
        <4>4. <<fn, p[1], i + pos - 1>> = <<fn, p[1], p[2]>>
          BY <2>1, <4>2, <4>3 DEF Element
        <4>5. p[2] = i + pos - 1
          BY <4>4
        <4>6. q[2] = m + 1
          BY <4>2, <4>3, <4>5 DEF SuccessorPosition
        <4>7. ~ (q[2] \in i .. m)
          BY <4>2, <4>6
        <4> HIDE DEF q
        <4>8. QED BY <2>1, <3>2, <4>2, <4>7
      <3>4. Destinations = {NodeOf(fn, q)}
        BY <1>1, <1>2, <2>1, <2>4, <3>1, <3>3, RunsOn
      <3>5. Starts(fn, q)
        BY <1>1, <1>2, <2>1, <2>4, <3>3, SuccessorStarts
      <3>6. n = NodeOf(fn, q)
        BY <3>4
      <3>7. QED BY <2>1, <2>4, <3>1, <3>2, <3>5, <3>6
    <2>5. CASE Targets(fn, p) # << >>
      <3>1. choice \in DOMAIN Targets(fn, p) /\ choice # 0
        BY <1>1, <1>2, <2>1, <2>5, TargetsAreBlocks
      <3>2. n = operands[at][choice]
        <4>1. pos > 0
          BY <2>1
        <4>2. QED BY <2>2, <3>1, <4>1 DEF Destinations
      <3> DEFINE q == <<Targets(fn, p)[choice], 0>>
      <3>3. q \in Positions(fn) /\ Starts(fn, q)
        BY <1>1, <1>2, <3>1, TargetsAreBlocks, LabelStarts
      <3>4. IsTerminator(fn, p)
        BY <1>1, <1>2, <2>5, TargetsAreBlocks
      <3>5. CASE p \in OwnPositions(fn)
        <4>1. p \in OwnEnds(fn)
          BY <3>4, <3>5 DEF OwnEnds
        <4>2. operands[at] = OwnLabels(fn, p)
          BY <1>1, <1>2, <2>1, <4>1 DEF BodyInv, OperandsInv
        <4>3. n = NodeOf(fn, q)
          BY <3>1, <3>2, <4>2 DEF OwnLabels
        <4>4. QED BY <2>1, <3>1, <3>3, <4>3
      <3>6. CASE p \notin OwnPositions(fn)
        <4>1. IsMatched(fn, p)
          BY <3>6 DEF OwnPositions
        <4>2. PICK c \in DOMAIN alignment : p = alignment[c][fn] /\ at = Merged(c)
          BY <1>1, <1>2, <2>1, <4>1, MatchedNode
        <4>3. operands[at] = Labels(c)
          BY <1>1, <4>2 DEF BodyInv, OperandsInv
        <4>4. choice \in DOMAIN Labels(c)
          <5>1. Base \in Func /\ DOMAIN Labels(c) = DOMAIN Targets(Base, alignment[c][Base])
            BY <1>1, BaseIsFunc DEF Labels
          <5>2. DOMAIN Targets(Base, alignment[c][Base]) = DOMAIN Targets(fn, alignment[c][fn])
            BY <1>1, <1>2, <5>1, MatchesAgree
          <5>3. QED BY <3>1, <4>2, <5>1, <5>2
        <4>5. /\ Labels(c)[choice] = Label(c, choice)
              /\ Goals(c, choice)[fn] = NodeOf(fn, q)
              /\ \/ \A f \in Func : Goals(c, choice)[f] = Label(c, choice)
                 \/ Label(c, choice) = Select(Goals(c, choice))
          BY <1>1, <1>2, <4>2, <4>4, LabelIs
        <4>6. n = Label(c, choice)
          BY <3>2, <4>3, <4>5
        <4>7. CASE \A f \in Func : Goals(c, choice)[f] = Label(c, choice)
          <5>1. n = NodeOf(fn, q)
            BY <1>2, <4>5, <4>6, <4>7
          <5>2. QED BY <2>1, <3>1, <3>3, <5>1
        <4>8. CASE Label(c, choice) = Select(Goals(c, choice))
          <5>1. IsSelect(n)
            BY <4>6, <4>8 DEF IsSelect, Select
          <5>2. GoesThrough(p, n)
            BY <4>2, <4>4, <4>5, <4>6, <5>1 DEF GoesThrough
          <5>3. QED BY <2>1, <3>1, <5>2
        <4>9. QED BY <4>5, <4>7, <4>8
      <3>7. QED BY <3>5, <3>6
    <2>6. QED BY <2>3, <2>4, <2>5
  <1>7. QED BY <1>2, <1>3, <1>4, <1>5, <1>6

LEMMA LeaveBlockStep ==
  ASSUME IInv, NEW n \in Destinations, Leave(n)
  PROVE  IInv'
  <1>1. /\ fn # None /\ pos = Len(Code(at, fn))
        /\ at' = n /\ from' = at /\ pos' = 0
        /\ UNCHANGED <<alignVars, phase, step, bodyVars>>
        /\ UNCHANGED <<fn, last, choice>>
    BY DEF Leave
  <1>2. phase = "run"
    BY <1>1 DEF IInv
  <1>3. /\ phase' = "run" /\ AlignInv' /\ BodyInv' /\ Func' = Func
        /\ \A f : Positions(f)' = Positions(f)
        /\ \A f, p : /\ Targets(f, p)' = Targets(f, p) /\ NodeOf(f, p)' = NodeOf(f, p)
                     /\ IsTerminator(f, p)' <=> IsTerminator(f, p)
                     /\ Starts(f, p)' <=> Starts(f, p)
        /\ \A c : Labels(c)' = Labels(c)
        /\ alignment' = alignment
    BY <1>1, <1>2, RunStays
  <1>4. fn \in Func
    BY <1>1, <1>2, WhileRunning DEF RunInv
  <1>5. \A p : Element(p)' = Element(p)
    BY <1>1 DEF Element
  <1>6. \A p, s : GoesThrough(p, s)' <=> GoesThrough(p, s)
    BY <1>1, <1>3 DEF GoesThrough
  <1>7. Positions(fn)' = Positions(fn)
    BY <1>1, <1>3
  <1>8. CASE \E q \in Positions(fn) :
               /\ n = NodeOf(fn, q) /\ Starts(fn, q)
               /\ \/ last = None /\ choice = 0 /\ q = <<1, 0>>
                  \/ \E p \in Positions(fn) :
                       /\ last = Element(p)
                       /\ \/ choice = 0 /\ ~ IsTerminator(fn, p) /\ q = SuccessorPosition(p)
                          \/ /\ choice \in DOMAIN Targets(fn, p)
                             /\ q = <<Targets(fn, p)[choice], 0>>
                             /\ at = NodeOf(fn, p) \/ GoesThrough(p, at)
    <2>1. PICK q \in Positions(fn) :
               /\ n = NodeOf(fn, q) /\ Starts(fn, q)
               /\ \/ last = None /\ choice = 0 /\ q = <<1, 0>>
                  \/ \E p \in Positions(fn) :
                       /\ last = Element(p)
                       /\ \/ choice = 0 /\ ~ IsTerminator(fn, p) /\ q = SuccessorPosition(p)
                          \/ /\ choice \in DOMAIN Targets(fn, p)
                             /\ q = <<Targets(fn, p)[choice], 0>>
                             /\ at = NodeOf(fn, p) \/ GoesThrough(p, at)
      BY <1>8
    <2>2. /\ NodeOf(fn, q)' = NodeOf(fn, q) /\ (Starts(fn, q)' <=> Starts(fn, q))
          /\ \A p : /\ NodeOf(fn, p)' = NodeOf(fn, p) /\ Targets(fn, p)' = Targets(fn, p)
                    /\ IsTerminator(fn, p)' <=> IsTerminator(fn, p)
      BY <1>1, <1>3
    <2>3. \A p : GoesThrough(p, from)' <=> GoesThrough(p, at)
      BY <1>1, <1>6
    <2>4. \A p : Continues(p, q)' <=>
                   \/ choice = 0 /\ ~ IsTerminator(fn, p) /\ q = SuccessorPosition(p)
                   \/ /\ choice \in DOMAIN Targets(fn, p)
                      /\ q = <<Targets(fn, p)[choice], 0>>
                      /\ at = NodeOf(fn, p) \/ GoesThrough(p, at)
      BY <1>1, <2>2, <2>3 DEF Continues, SuccessorPosition
    <2>5. Before'
      BY <1>1, <1>5, <1>7, <2>1, <2>2, <2>4 DEF Before
    <2>6. QED BY <1>1, <1>2, <1>3, <1>4, <2>5 DEF IInv, RunInv
  <1>9. CASE \E p \in Positions(fn) :
               last = Element(p) /\ choice \in DOMAIN Targets(fn, p) /\ GoesThrough(p, n)
    <2>1. PICK p \in Positions(fn) :
            last = Element(p) /\ choice \in DOMAIN Targets(fn, p) /\ GoesThrough(p, n)
      BY <1>9
    <2>2. Targets(fn, p)' = Targets(fn, p)
      BY <1>1, <1>3
    <2>3. GoesThrough(p, at)' <=> GoesThrough(p, n)
      BY <1>1, <1>6
    <2>4. Selecting'
      BY <1>1, <1>5, <1>7, <2>1, <2>2, <2>3 DEF Selecting
    <2>5. QED BY <1>1, <1>2, <1>3, <1>4, <2>4 DEF IInv, RunInv
  <1>10. QED BY <1>1, <1>2, <1>8, <1>9, WhereTo

-----------------------------------------------------------------------------
LEMMA NextKeepsIInv ==
  ASSUME IInv, [Next]_vars
  PROVE  IInv'
  <1>1. CASE \E c \in (IF rest = << >> THEN {} ELSE Columns(Head(rest))) : MatchElement(c)
    <2>1. PICK c \in (IF rest = << >> THEN {} ELSE Columns(Head(rest))) : MatchElement(c)
      BY <1>1
    <2>2. c \in Columns(Head(rest))
      BY <2>1
    <2>3. QED BY <2>1, <2>2, MatchStep
  <1>2. CASE LeaveElement
    BY <1>2, LeaveStep
  <1>3. CASE LayoutSharedBasicBlocks
    BY <1>3, SharedLayoutStep
  <1>4. CASE ChainBasicBlocks
    BY <1>4, ChainStep
  <1>5. CASE EndChain \/ EndLabels
    BY <1>5, EndStep
  <1>6. CASE AssignLabelOperands
    BY <1>6, LabelStep
  <1>7. CASE \E d \in Func : Call(d)
    BY <1>7, CallStep
  <1>8. CASE Execute
    BY <1>8, ExecuteStep
  <1>9. CASE \E n \in (IF fn = None THEN {} ELSE Destinations) : Leave(n)
    <2>1. PICK n \in (IF fn = None THEN {} ELSE Destinations) : Leave(n)
      BY <1>9
    <2>2. n \in Destinations
      BY <2>1
    <2>3. QED BY <2>1, <2>2, LeaveBlockStep
  <1>10. CASE UNCHANGED vars
    <2>1. UNCHANGED <<source, alignment>> /\ UNCHANGED <<alignVars, phase, step, bodyVars>>
      BY <1>10 DEF vars, alignVars
    <2>2. UNCHANGED <<fn, last, choice, at, from, pos>>
      BY <1>10 DEF vars, runVars
    <2>3. CASE phase = "run"
      <3>1. /\ phase' = "run" /\ AlignInv' /\ BodyInv' /\ Func' = Func
            /\ \A f : Positions(f)' = Positions(f)
            /\ \A f, p : /\ Targets(f, p)' = Targets(f, p) /\ NodeOf(f, p)' = NodeOf(f, p)
                         /\ IsTerminator(f, p)' <=> IsTerminator(f, p)
                         /\ Starts(f, p)' <=> Starts(f, p)
            /\ \A c : Labels(c)' = Labels(c)
            /\ \A n, f : Code(n, f)' = Code(n, f)
            /\ alignment' = alignment
        BY <2>1, <2>3, RunStays
      <3>2. \A p : Element(p)' = Element(p)
        BY <2>2 DEF Element
      <3>3. \A p, n : GoesThrough(p, n)' <=> GoesThrough(p, n)
        BY <2>2, <3>1 DEF GoesThrough
      <3>4. \A p, q : Continues(p, q)' <=> Continues(p, q)
        <4>1. \A p : GoesThrough(p, from)' <=> GoesThrough(p, from)
          BY <2>2, <3>3
        <4>2. \A p : /\ NodeOf(fn, p)' = NodeOf(fn, p) /\ Targets(fn, p)' = Targets(fn, p)
                     /\ IsTerminator(fn, p)' <=> IsTerminator(fn, p)
          BY <2>2, <3>1
        <4>3. QED BY <2>2, <4>1, <4>2 DEF Continues, SuccessorPosition
      <3>5. /\ Positions(fn)' = Positions(fn)
            /\ \A p : /\ NodeOf(fn, p)' = NodeOf(fn, p) /\ Targets(fn, p)' = Targets(fn, p)
                      /\ Starts(fn, p)' <=> Starts(fn, p)
            /\ Code(at, fn)' = Code(at, fn)
            /\ \A p : GoesThrough(p, at)' <=> GoesThrough(p, at)
        BY <2>2, <3>1, <3>3
      <3>6. AtEntry' <=> AtEntry
        BY <2>2 DEF AtEntry
      <3>7. Before' <=> Before
        BY <2>2, <3>2, <3>4, <3>5 DEF Before
      <3>8. Within' <=> Within
        BY <2>2, <3>2, <3>5 DEF Within
      <3>9. Selecting' <=> Selecting
        BY <2>2, <3>2, <3>5 DEF Selecting
      <3>10. RunInv' <=> RunInv
        BY <2>2, <3>1, <3>6, <3>7, <3>8, <3>9 DEF RunInv
      <3>11. QED BY <2>3, <3>1, <3>10 DEF IInv
    <2>4. CASE phase # "run"
      <3>1. /\ Func' = Func
            /\ \A g : Positions(g)' = Positions(g) /\ Blocks(g)' = Blocks(g)
            /\ \A g, p : NodeOf(g, p)' = NodeOf(g, p) /\ OwnLabels(g, p)' = OwnLabels(g, p)
            /\ \A g : /\ OwnPositions(g)' = OwnPositions(g) /\ OwnEnds(g)' = OwnEnds(g)
                      /\ Edges(g)' = Edges(g) /\ Placed(g)' = Placed(g)
            /\ \A d : Labels(d)' = Labels(d)
            /\ (IsGroup' <=> IsGroup) /\ (IsAlignment' <=> IsAlignment)
        BY <2>1, SourceStays, AlignmentStays
      <3>2. UNCHANGED <<aligner, phase, step, vmap, chain, operands, finalBB>> /\ alignment' = alignment
        BY <2>1 DEF alignVars, bodyVars
      <3>3. (\A f : Laid(f)' <=> Laid(f)) /\ \A c : Assigned(c)' <=> Assigned(c)
        BY <3>2 DEF Laid, Assigned
      <3>4. AlignInv'
        BY <2>1, <3>1, <3>2 DEF AlignInv, IInv
      <3>5. ASSUME BodyInv PROVE BodyInv'
        <4>1. VmapInv' /\ ChainInv' /\ DOMAIN vmap' = Func'
          BY <3>1, <3>2, <3>3, <3>5 DEF VmapInv, ChainInv, BodyInv
        <4>2. OperandsInv'
          BY <3>1, <3>2, <3>3, <3>5 DEF OperandsInv, BodyInv
        <4>3. FinalInv'
          <5>1. ASSUME NEW f \in Func PROVE FinalOf(f)'
            BY <3>1, <3>2, <3>3, <3>5 DEF FinalOf, FinalInv, BodyInv
          <5>2. QED BY <3>1, <3>2, <3>5, <5>1 DEF FinalInv, BodyInv
        <4>4. QED BY <3>2, <3>5, <4>1, <4>2, <4>3 DEF BodyInv
      <3>6. AtEntry' <=> AtEntry
        BY <2>2 DEF AtEntry
      <3>7. QED BY <2>2, <2>4, <3>2, <3>4, <3>5, <3>6 DEF IInv
    <2>5. QED BY <2>3, <2>4
  <1>11. QED BY <1>1, <1>2, <1>3, <1>4, <1>5, <1>6, <1>7, <1>8, <1>9, <1>10 DEF Next

(* The execution of the merged function stays where the alignment, the      *)
(* chain and the select blocks lead the function it was called for.         *)
THEOREM ExecutionIsOnItsWay ==
  Spec => []IInv
  <1>1. Init => IInv
    BY InitHolds
  <1>2. IInv /\ [Next]_vars => IInv'
    BY NextKeepsIInv
  <1>3. QED BY <1>1, <1>2, PTL DEF Spec

-----------------------------------------------------------------------------
LEMMA NodesAre ==
  ASSUME IInv, phase # "align"
  PROVE  /\ \A f \in Func : \A p \in Positions(f) : Laid(f) => NodeOf(f, p) \in Nodes
         /\ \A c \in DOMAIN alignment : Merged(c) \in Nodes
         /\ Entry \in Nodes
  <1>1. IsGroup /\ IsAlignment /\ VmapInv /\ 0 \in Func
    BY BaseIsFunc DEF IInv, AlignInv, BodyInv
  <1>2. ASSUME NEW f \in Func, NEW p \in DOMAIN vmap[f]
        PROVE  vmap[f][p] \in Nodes
    BY DEF Nodes
  <1>3. ASSUME NEW f \in Func, NEW p \in Positions(f), Laid(f) \/ IsMatched(f, p)
        PROVE  p \in DOMAIN vmap[f] /\ vmap[f][p] = NodeOf(f, p)
    <2>1. p \in Positions(f) \ OwnPositions(f) <=> IsMatched(f, p)
      BY DEF OwnPositions
    <2>2. QED BY <1>1, <1>3, <2>1 DEF VmapInv, Placed
  <1>4. ASSUME NEW c \in DOMAIN alignment PROVE Merged(c) \in Nodes
    <2>1. alignment[c][0] \in Positions(0)
      BY <1>1 DEF IsAlignment
    <2>2. IsMatched(0, alignment[c][0]) /\ NodeOf(0, alignment[c][0]) = Merged(c)
      BY <1>1, MatchedOnce
    <2>3. QED BY <1>1, <1>2, <1>3, <2>1, <2>2
  <1>5. Entry \in Nodes
    BY DEF Nodes
  <1>6. \A f \in Func : \A p \in Positions(f) : Laid(f) => NodeOf(f, p) \in Nodes
    <2> SUFFICES ASSUME NEW f \in Func, NEW p \in Positions(f), Laid(f) PROVE NodeOf(f, p) \in Nodes
      OBVIOUS
    <2>1. p \in DOMAIN vmap[f] /\ vmap[f][p] = NodeOf(f, p)
      BY <1>3
    <2>2. QED BY <1>2, <2>1
  <1>7. QED BY <1>4, <1>5, <1>6

LEMMA IInvIsTyped ==
  ASSUME IInv
  PROVE  TypeOK
  <1>1. AlignInv
    BY DEF IInv
  <1>2. ASSUME NEW f \in Func
        PROVE  /\ DOMAIN vmap[f] \subseteq Positions(f)
               /\ \A n \in DOMAIN finalBB[f] :
                    (n \in Nodes \/ IsSelect(n)) /\ finalBB[f][n] \in Blocks(f)
    <2>1. CASE phase = "align"
      BY <1>1, <2>1 DEF AlignInv
    <2>2. CASE phase # "align"
      <3>1. vmap[f] = (IF Laid(f) THEN Placed(f)
                       ELSE [p \in Positions(f) \ OwnPositions(f) |-> NodeOf(f, p)])
        BY <2>2 DEF IInv, BodyInv, VmapInv
      <3>2. DOMAIN vmap[f] \subseteq Positions(f)
        BY <3>1 DEF Placed
      <3>3. FinalOf(f)
        BY <2>2 DEF IInv, BodyInv, FinalInv
      <3>4. /\ \A p \in Positions(f) : Laid(f) => NodeOf(f, p) \in Nodes
            /\ \A c \in DOMAIN alignment : Merged(c) \in Nodes
        BY <2>2, NodesAre
      <3>5. QED BY <3>2, <3>3, <3>4 DEF FinalOf, OwnPositions
    <2>3. QED BY <2>1, <2>2
  <1>3. fn \in Func \cup {None}
    BY DEF IInv, AlignInv, RunInv
  <1>4. ASSUME phase = "run"
        PROVE  /\ at \in Nodes \/ (IsSelect(at) /\ \A f \in Func : at[2][f] \in Nodes)
               /\ fn # None => pos \in 0 .. Len(Code(at, fn))
    <2>1. /\ IsGroup /\ IsAlignment /\ RunInv
          /\ \A f \in Func : vmap[f] = Placed(f) /\ Laid(f)
          /\ Code(Entry, fn) = << >> /\ \A s : IsSelect(s) => Code(s, fn) = << >>
      BY <1>4, WhileRunning
    <2>2. /\ \A f \in Func : \A p \in Positions(f) : NodeOf(f, p) \in Nodes
          /\ Entry \in Nodes
          /\ \A c \in DOMAIN alignment : Merged(c) \in Nodes
      BY <1>4, <2>1, NodesAre
    <2>3. Len(<< >>) = 0
      OBVIOUS
    <2>4. CASE AtEntry
      BY <2>1, <2>2, <2>3, <2>4 DEF AtEntry
    <2>5. CASE fn \in Func /\ Before
      <3>1. PICK q \in Positions(fn) : pos = 0 /\ at = NodeOf(fn, q)
        BY <2>5 DEF Before
      <3>2. vmap[fn] = Placed(fn)
        BY <2>1, <2>5
      <3>3. PICK i \in Nat, m \in Nat : i <= m /\ Len(Code(NodeOf(fn, q), fn)) = m - i + 1
        BY <2>1, <2>5, <3>2, InNode
      <3>4. Code(NodeOf(fn, q), fn) = Code(at, fn)
        BY <3>1
      <3>5. Len(Code(at, fn)) = m - i + 1
        BY <3>3, <3>4
      <3>6. QED BY <2>2, <2>5, <3>1, <3>3, <3>5
    <2>6. CASE fn \in Func /\ Within
      BY <2>2, <2>6 DEF Within
    <2>7. CASE fn \in Func /\ Selecting
      <3>1. PICK p \in Positions(fn) :
              pos = 0 /\ GoesThrough(p, at)
        BY <2>7 DEF Selecting
      <3>2. PICK c \in DOMAIN alignment : choice \in DOMAIN Labels(c) /\ at = Labels(c)[choice]
        BY <3>1 DEF GoesThrough
      <3>3. IsSelect(at)
        BY <3>1 DEF GoesThrough
      <3>4. /\ Labels(c)[choice] = Label(c, choice)
            /\ \A f \in Func :
                 /\ <<Targets(f, alignment[c][f])[choice], 0>> \in Positions(f)
                 /\ Goals(c, choice)[f] = NodeOf(f, <<Targets(f, alignment[c][f])[choice], 0>>)
            /\ \/ \E d \in DOMAIN alignment : Label(c, choice) = Merged(d)
               \/ Label(c, choice) = Select(Goals(c, choice))
        BY <2>1, <3>2, LabelIs
      <3>5. at = Select(Goals(c, choice))
        BY <3>2, <3>3, <3>4 DEF IsSelect, Merged
      <3>6. at[2] = Goals(c, choice)
        BY <3>5 DEF Select
      <3>7. \A f \in Func : at[2][f] \in Nodes
        BY <2>2, <3>4, <3>6
      <3>8. QED BY <2>1, <2>3, <3>1, <3>3, <3>7
    <2>8. QED BY <2>1, <2>4, <2>5, <2>6, <2>7 DEF RunInv
  <1>5. QED BY <1>1, <1>2, <1>3, <1>4 DEF TypeOK, AlignInv

(* The maps the builder keeps are over the elements and the blocks they     *)
(* should be over, and control stays in the merged function, for any group  *)
(* of functions and any alignment an aligner may return.                   *)
THEOREM BodyIsTyped ==
  Spec => []TypeOK
  <1>1. IInv => TypeOK
    BY IInvIsTyped
  <1>2. QED BY <1>1, ExecutionIsOnItsWay, PTL


-----------------------------------------------------------------------------
(* The steps that do not execute an element leave the source's execution as *)
(* it is.                                                                  *)
LEMMA OtherStepsStutter ==
  ASSUME [Next]_vars, ~ Execute, \A d \in Func : ~ Call(d)
  PROVE  UNCHANGED <<source, fn, last, choice>>
  <1>1. CASE \E c \in (IF rest = << >> THEN {} ELSE Columns(Head(rest))) : MatchElement(c)
    BY <1>1 DEF MatchElement, runVars
  <1>2. CASE LeaveElement
    BY <1>2 DEF LeaveElement, runVars
  <1>3. CASE LayoutSharedBasicBlocks
    BY <1>3 DEF LayoutSharedBasicBlocks, alignVars, runVars
  <1>4. CASE ChainBasicBlocks
    BY <1>4 DEF ChainBasicBlocks, alignVars, runVars
  <1>5. CASE EndChain \/ EndLabels
    BY <1>5 DEF EndChain, EndLabels, alignVars, runVars
  <1>6. CASE AssignLabelOperands
    BY <1>6 DEF AssignLabelOperands, alignVars, runVars
  <1>7. CASE \E n \in (IF fn = None THEN {} ELSE Destinations) : Leave(n)
    BY <1>7 DEF Leave, alignVars
  <1>8. CASE UNCHANGED vars
    BY <1>8 DEF vars, alignVars, runVars
  <1>9. QED BY <1>1, <1>2, <1>3, <1>4, <1>5, <1>6, <1>7, <1>8 DEF Next

(* Called with discriminator d, the merged function executes element after  *)
(* element what function d executes, for any alignment: it implements the  *)
(* functions it was merged from, but for the promise to run on.            *)
THEOREM MergedBodyImplementsSource ==
  Spec => Source!Spec
  <1>1. Init => Source!Init
    BY DEF Init, Source!Init
  <1>2. IInv /\ [Next]_vars => [Source!Next]_(Source!vars)
    <2> SUFFICES ASSUME IInv, [Next]_vars PROVE [Source!Next]_(Source!vars)
      OBVIOUS
    <2>1. CASE \E d \in Func : Call(d)
      <3>1. PICK d \in Func : Call(d)
        BY <2>1
      <3>2. Source!Call(d)
        BY <3>1, CallStep
      <3>3. d \in Source!Func
        BY DEF Func, Source!Func
      <3>4. Source!Next
        BY <3>2, <3>3 DEF Source!Next
      <3>5. QED BY <3>4
    <2>2. CASE Execute
      BY <2>2, ExecuteStep
    <2>3. CASE ~ Execute /\ \A d \in Func : ~ Call(d)
      BY <2>3, OtherStepsStutter DEF Source!vars
    <2>4. QED BY <2>1, <2>2, <2>3
  <1>3. QED BY <1>1, <1>2, ExecutionIsOnItsWay, PTL DEF Spec, Source!Spec

-----------------------------------------------------------------------------
(* The block a function goes to from p sees p's block as a predecessor.     *)
LEMMA TerminatorIsPredecessor ==
  ASSUME IsGroup, NEW f \in Func, NEW p \in Positions(f), NEW k \in DOMAIN Targets(f, p)
  PROVE  /\ ~ IsLabel(p) /\ p[1] \in Blocks(f)
         /\ IsPredecessor(f, p[1], Targets(f, p)[k])
  <1>1. Targets(f, p) # << >>
    BY TargetsAreBlocks
  <1>2. ~ IsLabel(p)
    BY <1>1 DEF Targets
  <1>3. IsTerminator(f, p)
    BY <1>1, TargetsAreBlocks
  <1>4. Targets(f, p) = Last(source[f][p[1]]).to
    BY <1>2, <1>3 DEF Targets, Inst, IsTerminator, Last
  <1>5. p[1] \in Blocks(f)
    BY PositionsAre
  <1>6. QED BY <1>2, <1>4, <1>5 DEF IsPredecessor

(* What FinalBBToBB tells of the block control came from.                   *)
LEMMA FinalOfPredecessor ==
  ASSUME IInv, phase = "run", fn \in Func, ~ IsShared(from, fn), NEW p \in Positions(fn),
         choice \in DOMAIN Targets(fn, p), from = NodeOf(fn, p) \/ GoesThrough(p, from)
  PROVE  from \in DOMAIN finalBB[fn] /\ finalBB[fn][from] = p[1]
  <1>1. /\ IsGroup /\ IsAlignment /\ BodyInv
        /\ \A f \in Func : Laid(f)
        /\ \A c : Assigned(c)
    BY WhileRunning
  <1>2. FinalOf(fn) /\ OperandsInv
    BY <1>1 DEF BodyInv, FinalInv
  <1>3. ~ IsLabel(p)
    BY <1>1, TerminatorIsPredecessor
  <1>4. CASE from = NodeOf(fn, p) /\ IsMatched(fn, p)
    <2>1. PICK c \in DOMAIN alignment : p = alignment[c][fn] /\ NodeOf(fn, p) = Merged(c)
      BY <1>1, <1>4, MatchedNode
    <2>2. QED BY <1>2, <1>3, <1>4, <2>1 DEF FinalOf
  <1>5. CASE from = NodeOf(fn, p) /\ ~ IsMatched(fn, p)
    BY <1>1, <1>2, <1>5 DEF FinalOf, OwnPositions
  <1>6. CASE GoesThrough(p, from)
    <2>1. PICK c \in DOMAIN alignment : /\ p = alignment[c][fn] /\ choice \in DOMAIN Labels(c)
                                        /\ from = Labels(c)[choice]
      BY <1>6 DEF GoesThrough
    <2>2. IsSelect(from)
      BY <1>6 DEF GoesThrough
    <2>3. from \in DOMAIN finalBB[fn]
      BY <1>1, <1>2, <2>1, <2>2 DEF FinalOf
    <2>4. PICK d \in DOMAIN alignment :
            /\ \E l \in DOMAIN Labels(d) : Labels(d)[l] = from
            /\ finalBB[fn][from] = alignment[d][fn][1]
      BY <1>1, <1>2, <2>1, <2>2 DEF FinalOf
    <2>5. operands[Merged(c)] = Labels(c) /\ operands[Merged(d)] = Labels(d)
      BY <1>1, <1>2 DEF OperandsInv
    <2>6. from \in ToSet(Labels(c)) /\ from \in ToSet(Labels(d))
      BY <2>1, <2>4 DEF ToSet
    <2>7. from \in ToSet(operands[Merged(c)]) \cap ToSet(operands[Merged(d)])
      BY <2>5, <2>6
    <2>8. alignment[c][fn][1] = alignment[d][fn][1]
      BY <2>2, <2>7 DEF IsShared
    <2>9. QED BY <2>1, <2>3, <2>4, <2>8
  <1>7. QED BY <1>4, <1>5, <1>6

LEMMA PhisOfExecute ==
  ASSUME IInv, Execute, last # None, last'[3] = 0, ~ IsShared(from, fn)
  PROVE  phi' = last[2]
  <1> DEFINE e == Code(at, fn)[pos + 1]
  <1>1. /\ fn # None /\ pos < Len(Code(at, fn)) /\ last' = e
        /\ phi' = IF e[3] = 0 THEN Incoming(e) ELSE phi
    BY DEF Execute
  <1>2. phase = "run"
    BY <1>1 DEF IInv
  <1>3. fn \in Func /\ IsGroup
    BY <1>1, <1>2, WhileRunning DEF RunInv
  <1>4. PICK q \in Positions(fn), p \in Positions(fn) :
          /\ Code(at, fn)[pos + 1] = Element(q) /\ last = Element(p) /\ Continues(p, q)
    BY <1>1, <1>2, NextElement
  <1>5. e[1] = fn /\ e[2] = q[1] /\ e[3] = q[2] /\ last[2] = p[1]
    BY <1>4 DEF Element
  <1> HIDE DEF e
  <1>6. phi' = Incoming(e) /\ q[2] = 0
    BY <1>1, <1>5
  <1>7. p[2] \in Nat
    BY <1>3, PositionsAre
  <1>8. q # SuccessorPosition(p)
    BY <1>6, <1>7 DEF SuccessorPosition
  <1>9. /\ choice \in DOMAIN Targets(fn, p) /\ q = <<Targets(fn, p)[choice], 0>>
        /\ from = NodeOf(fn, p) \/ GoesThrough(p, from)
    BY <1>4, <1>8 DEF Continues
  <1>10. from \in DOMAIN finalBB[fn] /\ finalBB[fn][from] = p[1]
    BY <1>2, <1>3, <1>9, FinalOfPredecessor
  <1>11. p[1] \in Blocks(fn) /\ IsPredecessor(fn, p[1], q[1])
    BY <1>3, <1>9, TerminatorIsPredecessor
  <1>12. Incoming(e) = p[1]
    BY <1>5, <1>10, <1>11 DEF Incoming
  <1>13. QED BY <1>5, <1>6, <1>12

(* The PHI nodes of a block that is entered from another take the value     *)
(* they take in the source function, where no select block is shared.      *)
THEOREM PhisSeeTheirPredecessor ==
  Spec => PhisSeePredecessorUnlessShared
  <1>1. IInv /\ [Next]_vars
          => [last # None /\ last' # last /\ last'[3] = 0 /\ ~ IsShared(from, fn)
                => phi' = last[2]]_vars
    <2> SUFFICES ASSUME IInv, [Next]_vars, last # None, last' # last, last'[3] = 0,
                        ~ IsShared(from, fn)
                 PROVE  phi' = last[2]
      OBVIOUS
    <2>1. CASE Execute
      BY <2>1, PhisOfExecute
    <2>2. CASE \E d \in Func : Call(d)
      BY <2>2 DEF Call
    <2>3. CASE ~ Execute /\ \A d \in Func : ~ Call(d)
      BY <2>3, OtherStepsStutter
    <2>4. QED BY <2>1, <2>2, <2>3
  <1>2. QED BY <1>1, ExecutionIsOnItsWay, PTL DEF Spec, PhisSeePredecessorUnlessShared
=============================================================================
