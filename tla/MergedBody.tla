----------------------------- MODULE MergedBody -----------------------------
(***************************************************************************)
(* MSAGenFunctionBody::emit: the body of the merged function is built from *)
(* an alignment of the source functions, then called with a discriminator. *)
(*                                                                         *)
(* Every matched entry becomes a block of its own, shared by all           *)
(* functions.  The code in between is cloned per function, and the blocks  *)
(* are chained by branches on the discriminator.  Where matched            *)
(* terminators go to different blocks, a select block branches on the      *)
(* discriminator again.  A block of the merged function is one of          *)
(*   <<"entry">>             the block that dispatches to the entries,     *)
(*   <<"merged", c>>         that of matched entry c,                      *)
(*   <<"own", f, b, i>>      elements of block b of f from position i on,  *)
(*   <<"select", operands>>  that of LabelOperandMerger for the operands.  *)
(*                                                                         *)
(* Exception handling (landing pads) and value operands are not modelled;  *)
(* of a PHI node, the block its value comes from is.                       *)
(***************************************************************************)
EXTENDS Integers, Sequences, FiniteSets, SequencesExt

CONSTANTS
  Aligners,  \* "NW" and "HyFM", or one of them
  Groups,    \* the groups of functions to merge, as in SourceExecution
  None

(* A function is a sequence of blocks of instructions; the last one of a    *)
(* block, and no other, may branch, and only to blocks of the function.     *)
IsFunction(blocks) ==
  /\ blocks \in Seq(Range(blocks)) /\ blocks # << >>
  /\ \A b \in DOMAIN blocks :
       /\ blocks[b] \in Seq(Range(blocks[b])) /\ blocks[b] # << >>
       /\ \A i \in DOMAIN blocks[b] :
            /\ blocks[b][i].to \in Seq(DOMAIN blocks)
            /\ i < Len(blocks[b]) => blocks[b][i].to = << >>

(* Whether an instruction ends its block is a matter of its operation.      *)
OperationsAgree(group) ==
  \A f, g \in DOMAIN group : \A b \in DOMAIN group[f], c \in DOMAIN group[g] :
    \A i \in DOMAIN group[f][b], j \in DOMAIN group[g][c] :
      group[f][b][i].op = group[g][c][j].op
        => (i = Len(group[f][b]) <=> j = Len(group[g][c]))

ASSUME MergedBodyAssumption ==
  /\ Aligners \subseteq {"NW", "HyFM"}
  /\ None \notin Nat \cup (Nat \X Nat \X Nat)
  /\ \A group \in Groups :
       /\ IsFiniteSet(DOMAIN group)
       /\ DOMAIN group = 0 .. Cardinality(DOMAIN group) - 1
       /\ Cardinality(DOMAIN group) >= 2
       /\ \A f \in DOMAIN group : IsFunction(group[f])
       /\ OperationsAgree(group)

VARIABLES
  source,     \* the functions
  aligner,    \* "NW" or "HyFM": the aligner that produced the alignment
  rest,       \* elements of the base function that are still to be aligned
  alignment,  \* matched entries: the position <<block, index>> per function
  phase,      \* "align", "layout", "chain", "labels" or "run"
  step,       \* the function, or matched entry, the phase has come to
  vmap,       \* vmap[f]: the block each element of f was put into
  chain,      \* the branches between blocks, by the function that takes them
  operands,   \* label operands of the terminator a block ends with
  finalBB,    \* FinalBBToBB: source blocks, by function and block
  fn, last, choice,  \* the execution, see SourceExecution
  at,         \* the block that is executed
  from,       \* the block executed before it
  pos,        \* number of elements of block at that were executed
  phi         \* the source block whose value the last PHI nodes took

alignVars == <<source, aligner, rest, alignment>>
bodyVars == <<vmap, chain, operands, finalBB>>
runVars == <<fn, last, choice, at, from, pos, phi>>
vars == <<alignVars, phase, step, bodyVars, runVars>>

Func == DOMAIN source
Base == Cardinality(Func) - 1

(***************************************************************************)
(* The source functions                                                    *)
(***************************************************************************)
Blocks(f) == DOMAIN source[f]
Positions(f) ==
  UNION {{<<b, i>> : i \in 0 .. Len(source[f][b])} : b \in Blocks(f)}
Inst(f, p) == source[f][p[1]][p[2]]
IsLabel(p) == p[2] = 0
IsTerminator(f, p) == p[2] = Len(source[f][p[1]])
Targets(f, p) == IF IsLabel(p) THEN << >> ELSE Inst(f, p).to
SuccessorPosition(p) == <<p[1], p[2] + 1>>
Precedes(p, q) == p[1] < q[1] \/ (p[1] = q[1] /\ p[2] < q[2])

(* f, and g where f is not defined. *)
Extend(f, g) ==
  [x \in DOMAIN f \cup DOMAIN g |-> IF x \in DOMAIN f THEN f[x] ELSE g[x]]

(* The source block b of f is a predecessor of block t. *)
IsPredecessor(f, b, t) ==
  \E k \in DOMAIN Last(source[f][b]).to : Last(source[f][b]).to[k] = t

(***************************************************************************)
(* The alignment: any set of matches an aligner may return                 *)
(***************************************************************************)

(* FunctionMerger::match, for the elements of column c. *)
IsMatch(c) ==
  \/ \A f \in Func : IsLabel(c[f])
  \/ \A f \in Func :
       /\ ~ IsLabel(c[f]) /\ ~ IsLabel(c[Base])
       /\ Inst(f, c[f]).op = Inst(Base, c[Base]).op
       /\ Len(Inst(f, c[f]).to) = Len(Inst(Base, c[Base]).to)

(* The Needleman-Wunsch aligner matches the functions in their order; HyFM  *)
(* pairs up whole blocks, and matches in order within a block.             *)
Fits(c) ==
  IF aligner = "NW"
  THEN \A d \in ToSet(alignment), f \in Func : Precedes(d[f], c[f])
  ELSE /\ \A d \in ToSet(alignment), f \in Func :
            /\ d[f][1] = c[f][1] <=> d[Base][1] = c[Base][1]
            /\ d[f][1] = c[f][1] => d[f][2] < c[f][2]
       /\ ~ IsLabel(c[Base]) =>
            \E d \in ToSet(alignment) : d[Base] = <<c[Base][1], 0>>

Columns(p) ==
  {c \in [Func -> UNION {Positions(f) : f \in Func}] :
     (\A f \in Func : c[f] \in Positions(f)) /\ c[Base] = p}

(***************************************************************************)
(* The merged function                                                     *)
(***************************************************************************)
Entry == <<"entry">>
Merged(c) == <<"merged", c>>
Select(ops) == <<"select", ops>>
IsSelect(n) == n[1] = "select"

MatchedColumns(f, p) == {c \in DOMAIN alignment : alignment[c][f] = p}
IsMatched(f, p) == MatchedColumns(f, p) # {}

(* The block element p of f is put into: that of its matched entry, or one  *)
(* that begins with the unmatched elements before it.                      *)
NodeOf(f, p) ==
  IF IsMatched(f, p) THEN Merged(CHOOSE c \in MatchedColumns(f, p) : TRUE)
  ELSE <<"own", f, p[1],
         CHOOSE i \in 0 .. p[2] :
           /\ \A j \in i .. p[2] : ~ IsMatched(f, <<p[1], j>>)
           /\ i > 0 => IsMatched(f, <<p[1], i - 1>>)>>

OwnPositions(f) == {p \in Positions(f) : ~ IsMatched(f, p)}

(* The elements a block executes when it is entered for function f. *)
Code(n, f) ==
  IF n[1] = "merged" THEN << <<f>> \o alignment[n[2]][f] >>
  ELSE IF n[1] = "own"
  THEN LET own == {p \in Positions(n[2]) : vmap[n[2]][p] = n}
       IN [k \in 1 .. Cardinality(own) |-> <<n[2], n[3], n[4] + k - 1>>]
  ELSE << >>

-----------------------------------------------------------------------------
Init ==
  /\ source \in Groups
  /\ aligner \in Aligners
  /\ rest = FlattenSeq([b \in Blocks(Base) |->
                          [i \in 1 .. Len(source[Base][b]) + 1 |-> <<b, i - 1>>]])
  /\ alignment = << >>
  /\ phase = "align"
  /\ step = 0
  /\ vmap = [f \in Func |-> << >>]
  /\ chain = {}
  /\ operands = << >>
  /\ finalBB = [f \in Func |-> << >>]
  /\ fn = None
  /\ last = None
  /\ choice = 0
  /\ at = Entry
  /\ from = Entry
  /\ pos = 0
  /\ phi = None

(* The aligner matches the next element of the base function, or leaves it. *)
MatchElement(c) ==
  /\ phase = "align"
  /\ rest # << >>
  /\ c \in Columns(Head(rest))
  /\ IsMatch(c)
  /\ Fits(c)
  /\ alignment' = Append(alignment, c)
  /\ rest' = Tail(rest)
  /\ UNCHANGED <<source, aligner, phase, step, bodyVars, runVars>>

LeaveElement ==
  /\ phase = "align"
  /\ rest # << >>
  /\ rest' = Tail(rest)
  /\ UNCHANGED <<source, aligner, alignment, phase, step, bodyVars, runVars>>

(* Mutant: every function is given the base function's source block. *)
LayoutSharedBasicBlocksOfBase ==
  /\ phase = "align"
  /\ rest = << >>
  /\ vmap' = [f \in Func |->
       [p \in Positions(f) \ OwnPositions(f) |-> NodeOf(f, p)]]
  /\ finalBB' = [f \in Func |->
       [n \in {Merged(c) : c \in DOMAIN alignment} |-> alignment[n[2]][Base][1]]]
  /\ phase' = "chain"
  /\ step' = 0
  /\ UNCHANGED <<alignVars, chain, operands, runVars>>

(* layoutSharedBasicBlocks: a block for each matched entry. *)
LayoutSharedBasicBlocks ==
  /\ phase = "align"
  /\ rest = << >>
  /\ vmap' = [f \in Func |->
       [p \in Positions(f) \ OwnPositions(f) |-> NodeOf(f, p)]]
  /\ finalBB' = [f \in Func |->
       [n \in {Merged(c) : c \in DOMAIN alignment} |-> alignment[n[2]][f][1]]]
  /\ phase' = "chain"
  /\ step' = 0
  /\ UNCHANGED <<alignVars, chain, operands, runVars>>

(* chainBasicBlocks for function step: its unmatched elements are cloned,  *)
(* the blocks of its elements are chained and the clones of its            *)
(* terminators get their operands.                                         *)
ChainBasicBlocks ==
  LET f == step
      own == {p \in OwnPositions(f) : IsTerminator(f, p)}
  IN
  /\ phase = "chain"
  /\ f \in Func
  /\ vmap' = [vmap EXCEPT ![f] = [p \in Positions(f) |-> NodeOf(f, p)]]
  /\ chain' = chain
       \cup {[from |-> Entry, fn |-> f, to |-> NodeOf(f, <<1, 0>>)]}
       \cup {[from |-> NodeOf(f, p), fn |-> f, to |-> NodeOf(f, SuccessorPosition(p))] :
               p \in {q \in Positions(f) :
                        /\ ~ IsTerminator(f, q)
                        /\ NodeOf(f, q) # NodeOf(f, SuccessorPosition(q))}}
  /\ operands' = Extend(operands,
       [n \in {NodeOf(f, p) : p \in own} |->
          LET p == CHOOSE q \in own : NodeOf(f, q) = n
          IN [k \in DOMAIN Targets(f, p) |-> NodeOf(f, <<Targets(f, p)[k], 0>>)]])
  /\ finalBB' = [finalBB EXCEPT ![f] =
       Extend([n \in {NodeOf(f, p) : p \in OwnPositions(f)} |-> n[3]], @)]
  /\ step' = step + 1
  /\ UNCHANGED <<alignVars, phase, runVars>>

EndChain ==
  /\ phase = "chain"
  /\ step \notin Func
  /\ phase' = "labels"
  /\ step' = 1
  /\ UNCHANGED <<alignVars, bodyVars, runVars>>

(* Mutant: all functions go where the first one goes. *)
MergeLabelOperandsOfFirst(c, k) == vmap[0][<<Targets(0, alignment[c][0])[k], 0>>]

(* LabelOperandMerger::merge for operand k of matched entry c: the block    *)
(* all functions go to, or the select block for their blocks, which is     *)
(* shared by all operands that are equal.                                  *)
MergeLabelOperands(c, k) ==
  LET ops == [f \in Func |-> vmap[f][<<Targets(f, alignment[c][f])[k], 0>>]]
  IN IF \A f \in Func : ops[f] = ops[0] THEN ops[0] ELSE Select(ops)

(* Mutant: FinalBBToBB is not set for the merged operands. *)
AssignLabelOperandsOnly ==
  LET c == step
      to == DOMAIN Targets(Base, alignment[c][Base])
  IN
  /\ phase = "labels"
  /\ c \in DOMAIN alignment
  /\ operands' = Extend(operands, [n \in {Merged(c)} |-> [k \in to |-> MergeLabelOperands(c, k)]])
  /\ step' = step + 1
  /\ UNCHANGED <<alignVars, phase, vmap, chain, finalBB, runVars>>

(* assignLabelOperands for the instructions of matched entry step.          *)
AssignLabelOperands ==
  LET c == step
      to == DOMAIN Targets(Base, alignment[c][Base])
      labels == [k \in to |-> MergeLabelOperands(c, k)]
  IN
  /\ phase = "labels"
  /\ c \in DOMAIN alignment
  /\ operands' = Extend(operands, [n \in {Merged(c)} |-> labels])
  /\ finalBB' = [f \in Func |->
       Extend([n \in {labels[k] : k \in to} |-> alignment[c][f][1]], finalBB[f])]
  /\ step' = step + 1
  /\ UNCHANGED <<alignVars, phase, vmap, chain, runVars>>

EndLabels ==
  /\ phase = "labels"
  /\ step \notin DOMAIN alignment
  /\ phase' = "run"
  /\ UNCHANGED <<alignVars, step, bodyVars, runVars>>

(***************************************************************************)
(* The execution of the merged function                                    *)
(***************************************************************************)
Call(d) ==
  /\ phase = "run"
  /\ fn = None
  /\ fn' = d
  /\ UNCHANGED <<alignVars, phase, step, bodyVars, last, choice, at, from, pos, phi>>

(* The value a PHI node of element e takes, by assignPHIOperandsInBlock:    *)
(* that for the source block the executed predecessor stands for.          *)
Incoming(e) ==
  IF \E b \in Blocks(e[1]) : /\ from \in DOMAIN finalBB[e[1]]
                             /\ finalBB[e[1]][from] = b
                             /\ IsPredecessor(e[1], b, e[2])
  THEN finalBB[e[1]][from] ELSE None

(* The next element of the block. *)
Execute ==
  LET e == Code(at, fn)[pos + 1] IN
  /\ fn # None
  /\ pos < Len(Code(at, fn))
  /\ last' = e
  /\ choice' \in LET to == Targets(e[1], <<e[2], e[3]>>)
                 IN IF to = << >> THEN {0} ELSE DOMAIN to
  /\ phi' = IF e[3] = 0 THEN Incoming(e) ELSE phi
  /\ pos' = pos + 1
  /\ UNCHANGED <<alignVars, phase, step, bodyVars, fn, at, from>>

(* The blocks control may go to after block at: a select block and the      *)
(* chains made by SwitchChainer branch on the discriminator, unless there  *)
(* is one target for all; a terminator branches to its operand.            *)
Destinations ==
  IF IsSelect(at) THEN {at[2][fn]}
  ELSE IF choice # 0 /\ pos > 0 THEN {operands[at][choice]}
  ELSE LET exits == {e \in chain : e.from = at}
           targets == {e.to : e \in exits}
       IN IF Cardinality(targets) = 1 THEN targets
          ELSE {e.to : e \in {x \in exits : x.fn = fn}}

Leave(n) ==
  /\ fn # None
  /\ pos = Len(Code(at, fn))
  /\ n \in Destinations
  /\ at' = n
  /\ from' = at
  /\ pos' = 0
  /\ UNCHANGED <<alignVars, phase, step, bodyVars, fn, last, choice, phi>>

Next ==
  \/ \E c \in (IF rest = << >> THEN {} ELSE Columns(Head(rest))) : MatchElement(c)
  \/ LeaveElement
  \/ LayoutSharedBasicBlocks
  \/ ChainBasicBlocks
  \/ EndChain
  \/ AssignLabelOperands
  \/ EndLabels
  \/ \E d \in Func : Call(d)
  \/ Execute
  \/ \E n \in (IF fn = None THEN {} ELSE Destinations) : Leave(n)

Spec == Init /\ [][Next]_vars

(* Building the body, and executing it, is one thread that never waits. *)
FairSpec == Spec /\ WF_vars(Next)

(***************************************************************************)
(* Properties                                                              *)
(***************************************************************************)
Nodes == {Entry} \cup UNION {{vmap[f][p] : p \in DOMAIN vmap[f]} : f \in Func}

(* The builder's maps are over the elements of the source functions and the *)
(* blocks of the merged function, and control stays inside that function.  *)
TypeOK ==
  /\ source \in Groups
  /\ aligner \in Aligners
  /\ phase \in {"align", "chain", "labels", "run"}
  /\ \A f \in Func :
       /\ DOMAIN vmap[f] \subseteq Positions(f)
       /\ \A n \in DOMAIN finalBB[f] :
            (n \in Nodes \/ IsSelect(n)) /\ finalBB[f][n] \in Blocks(f)
  /\ fn \in Func \cup {None}
  /\ phase = "run" =>
       /\ at \in Nodes \/ (IsSelect(at) /\ \A f \in Func : at[2][f] \in Nodes)
       /\ fn # None => pos \in 0 .. Len(Code(at, fn))

(* Called with discriminator d, the merged function executes what function  *)
(* d executes, element by element, and runs on as long as it does.         *)
Source == INSTANCE SourceExecution
ImplementsSource == Source!FairSpec

(* The select blocks that matched terminators of different blocks of f      *)
(* share.                                                                  *)
IsShared(n, f) ==
  /\ IsSelect(n)
  /\ \E c, d \in DOMAIN alignment :
       /\ alignment[c][f][1] # alignment[d][f][1]
       /\ n \in ToSet(operands[Merged(c)]) \cap ToSet(operands[Merged(d)])

(* The PHI nodes of a block that is entered from another take the value     *)
(* they take in the source function, unless control came through a shared  *)
(* select block.                                                           *)
PhisSeePredecessorUnlessShared ==
  [][last # None /\ last' # last /\ last'[3] = 0 /\ ~ IsShared(from, fn)
       => phi' = last[2]]_vars

(* The PHI nodes of a block that is entered from another take the value     *)
(* they take in the source function.                                       *)
PhisSeePredecessor ==
  [][last # None /\ last' # last /\ last'[3] = 0 => phi' = last[2]]_vars
=============================================================================
