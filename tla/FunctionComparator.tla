------------------------- MODULE FunctionComparator -------------------------
(***************************************************************************)
(* Functions as MergeSimilarFunctions compares and rewrites them.  A       *)
(* module is [fns, data, casts, uses, next]: its functions by identity,    *)
(* the functions its data refers to, those that a constant casts to        *)
(* another type, the use list of every function (the instructions that     *)
(* refer to it, as [by, pos, role]), and the next identity.                *)
(*                                                                         *)
(* A function is [name, linkage, shape, type, blocks, codes].  The type is *)
(* that of its result, first, and of its parameters, all of them pointers: *)
(* functions whose types differ are compared, and a call of one in place   *)
(* of the other needs casts.  The shape is everything else that must agree *)
(* (attributes, calling convention, the rest of the type).  There is one   *)
(* code, or one for each value of the choice argument in a function that   *)
(* merged several, and none in a declaration; the return at its end is     *)
(* left out.                                                               *)
(*                                                                         *)
(* An instruction is [op, callee, cast, choice, arg]: the function it      *)
(* calls, whether that is cast first, the choice it passes on, and a       *)
(* function whose address it uses; callee and arg may be None.             *)
(***************************************************************************)
EXTENDS AscendingItems, Functions, FiniteSetsExt, SequencesExt

CONSTANTS
  MergeMinInsts,           \* a function of one block has as many instructions
  MergeDifferingMinInsts,  \* a function that differs has more instructions
  MergeMaxDiffering,       \* of which this many differ
  MergeMinSimilarity       \* and its metric is higher than this

None == 0
Merged == "__merged"   \* suffix of the name of a merged function

(* What the pass itself writes into a module is text.                      *)
ASSUME TextAssumption == {"forward", "cast", Merged} \subseteq STRING

Code(f) == IF f.codes = <<>> THEN <<>> ELSE f.codes[1]

(* The instructions of a thunk: a call of another function, and the cast of *)
(* its result, 1, or of an argument.                                       *)
Forward(callee, choice) ==
  [op |-> "forward", callee |-> callee, cast |-> FALSE, choice |-> choice, arg |-> None]
Cast(k) == [op |-> "cast", callee |-> None, cast |-> FALSE, choice |-> k, arg |-> None]

(* writeThunkBody, for a thunk of one type that calls a function of another: *)
(* the arguments cast (createCastIfNeeded), the call, its result cast.      *)
ArgumentCasts(from, to) ==
  LET differing == Ascending({k \in DOMAIN from \cap DOMAIN to : k > 1 /\ from[k] # to[k]})
  IN [n \in DOMAIN differing |-> Cast(differing[n])]

ThunkBody(from, to, callee, choice) ==
  ArgumentCasts(from, to) \o <<Forward(callee, choice)>>
    \o (IF from[1] # to[1] THEN <<Cast(1)>> ELSE <<>>)

(* A thunk in the place of f, for a callee of the type.                     *)
ThunkFor(f, type, callee, choice) ==
  [name |-> f.name, linkage |-> f.linkage, shape |-> f.shape, type |-> f.type, blocks |-> 1,
   codes |-> <<ThunkBody(f.type, type, callee, choice)>>]

IsInterposable(f) == f.linkage = "weak"
IsLocal(f) == f.linkage = "internal"

(* isComparisonCandidate: neither a declaration, nor a merged function, nor *)
(* a function of one block with fewer instructions, return included.        *)
IsTiny(f) == f.blocks = 1 /\ Len(Code(f)) + 1 < MergeMinInsts

IsComparisonCandidate(f) ==
  f.codes # <<>> /\ ~ IsTiny(f) /\ Merged \notin Range(f.name)

Strength(f) == IF IsInterposable(f) THEN "weak" ELSE "strong"

(* Bug: the hash covers the instructions. *)
HashOfCode(f) == <<f.shape, Strength(f), f.blocks, Code(f)>>

(* profileFunction: all pointer types are alike. *)
Hash(f) == <<f.shape, Strength(f), f.blocks, Len(f.type)>>

-----------------------------------------------------------------------------
(* FunctionComparator: functions f and g of a module, instruction by        *)
(* instruction.  A call of f in f is like a call of g in g, but other       *)
(* references to them are not, and a cast makes no difference to others.    *)
IsSelfCall(i, j, f, g) == i.callee = f /\ j.callee = g /\ ~ i.cast /\ ~ j.cast

IsSameInst(i, j, f, g) ==
  /\ i.op = j.op
  /\ i.choice = j.choice
  /\ i.arg = j.arg
  /\ i.callee = j.callee \/ IsSelfCall(i, j, f, g)

IsMergeable(mod, f, g) ==
  /\ Hash(mod.fns[f]) = Hash(mod.fns[g])
  /\ Len(Code(mod.fns[f])) = Len(Code(mod.fns[g]))

Comparison(mod, f, g) ==
  LET F == Code(mod.fns[f])
      G == Code(mod.fns[g])
      differing == {k \in DOMAIN F : ~ IsSameInst(F[k], G[k], f, g)}
  IN [f1 |-> f, f2 |-> g, differing |-> differing, count |-> Len(F),
      selfRefs |-> {k \in DOMAIN F \ differing : IsSelfCall(F[k], G[k], f, g)}]

SimilarityMetric(c) == ((c.count - Cardinality(c.differing)) * 10000) \div c.count

IsExactMatch(mod, f, g) == IsMergeable(mod, f, g) /\ Comparison(mod, f, g).differing = {}

IsMergeCandidate(mod, f, g) ==
  /\ IsMergeable(mod, f, g)
  /\ LET c == Comparison(mod, f, g)
     IN \/ c.differing = {}
        \/ /\ c.count > MergeDifferingMinInsts
           /\ Cardinality(c.differing) <= MergeMaxDiffering
           /\ SimilarityMetric(c) > MergeMinSimilarity
        \/ /\ c.count > 100
           /\ Cardinality(c.differing) <= 60
           /\ SimilarityMetric(c) > 90

-----------------------------------------------------------------------------
(* What an instruction itself refers to in one of the two roles: a function *)
(* that is cast is referred to by the constant.                            *)
Roles == {"callee", "arg"}
Referred(i, role) ==
  CASE role = "arg" -> i.arg
    [] role = "callee" /\ ~ i.cast -> i.callee
    [] OTHER -> None

UsesAs(mod, f, role) == Items(mod.uses[f], {k \in DOMAIN mod.uses[f] : mod.uses[f][k].role = role})
DirectCalls(mod, f) == UsesAs(mod, f, "callee")
OtherUses(mod, f) == UsesAs(mod, f, "arg")

(* The functions that call f through a cast. *)
CastUsers(mod, f) ==
  {h \in DOMAIN mod.fns : \E i \in Range(Code(mod.fns[h])) : i.callee = f /\ i.cast}

(* The functions with every reference to old replaced: by callee, cast or   *)
(* not, where it is called, by other where its address is used or cast.     *)
Replaced(i, old, callee, cast, other) ==
  [op |-> i.op,
   callee |-> IF i.callee # old THEN i.callee ELSE IF i.cast THEN other ELSE callee,
   cast |-> i.cast \/ (i.callee = old /\ cast),
   choice |-> i.choice, arg |-> IF i.arg = old THEN other ELSE i.arg]

ReplacedIn(f, old, callee, cast, other) ==
  [name |-> f.name, linkage |-> f.linkage, shape |-> f.shape, type |-> f.type, blocks |-> f.blocks,
   codes |-> [c \in DOMAIN f.codes |->
                [k \in DOMAIN f.codes[c] |-> Replaced(f.codes[c][k], old, callee, cast, other)]]]

(* replaceDirectCallers: a use that is set goes to the head of the use list *)
(* of the new function, or of the cast of it to the type of the old one,    *)
(* which is there even if there is no call.                                *)
RedirectCalls(mod, old, new) ==
  LET cast == mod.fns[old].type # mod.fns[new].type
  IN [fns  |-> [h \in DOMAIN mod.fns |-> ReplacedIn(mod.fns[h], old, new, cast, old)],
      data |-> mod.data,
      casts |-> mod.casts \cup (IF cast THEN {new} ELSE {}),
      uses |-> [h \in DOMAIN mod.fns |->
                  IF h = old THEN OtherUses(mod, old)
                  ELSE IF h = new /\ ~ cast THEN Reverse(DirectCalls(mod, old)) \o mod.uses[new]
                  ELSE mod.uses[h]],
      next |-> mod.next]

(* The uses of f by others than gone, which is erased.                      *)
UsesWithout(mod, f, gone) ==
  Items(mod.uses[f], {k \in DOMAIN mod.uses[f] : mod.uses[f][k].by # gone})

(* Nothing else refers to g, and it is erased.                              *)
Erased(mod, g) ==
  [fns  |-> [h \in DOMAIN mod.fns \ {g} |-> mod.fns[h]],
   data |-> mod.data,
   casts |-> mod.casts,
   uses |-> [h \in DOMAIN mod.fns \ {g} |-> UsesWithout(mod, h, g)],
   next |-> mod.next]

(* A new thunk that calls f takes the name and the uses of g, those of the  *)
(* data as given, and g is erased.                                         *)
Thunked(mod, f, g, data) ==
  LET new == mod.next
      G == mod.fns[g]
      F == mod.fns[f]
      call == [by |-> new, pos |-> Len(ArgumentCasts(G.type, F.type)) + 1, role |-> "callee"]
      rest == DOMAIN mod.fns \ {g}
  IN [fns  |-> [h \in rest \cup {new} |->
                  IF h = new THEN ThunkFor(G, F.type, f, 0)
                  ELSE ReplacedIn(mod.fns[h], g, new, FALSE, new)],
      data |-> data,
      casts |-> (mod.casts \ {g}) \cup (IF g \in mod.casts THEN {new} ELSE {}),
      uses |-> [h \in rest \cup {new} |->
                  IF h = new THEN Reverse(UsesWithout(mod, g, g))
                  ELSE (IF h = f THEN <<call>> ELSE <<>>) \o UsesWithout(mod, h, g)],
      next |-> new + 1]

(* Bug: the data still refers to the erased function. *)
WithThunkNotInData(mod, f, g) == Thunked(mod, f, g, mod.data)

WithThunk(mod, f, g) ==
  Thunked(mod, f, g, [s \in DOMAIN mod.data |-> IF mod.data[s] = g THEN mod.next ELSE mod.data[s]])

-----------------------------------------------------------------------------
(* rewriteRecursiveCall: a call of the function itself becomes a call of    *)
(* the merged one, unless the address of either is an argument.            *)
CanRewrite(i, comp) == i.arg \notin {comp.f1, comp.f2}

RecursiveCall(i, new, choice) ==
  [op |-> i.op, callee |-> new, cast |-> FALSE, choice |-> choice, arg |-> i.arg]

(* The instruction at a position of the merged function new for a choice: 0 *)
(* for the first function, k for the second function of comps[k], which has *)
(* its own instruction at the positions own[k].                             *)
InstFor(mod, comps, new, choice, pos, own) ==
  LET first == comps[1]
      F == Code(mod.fns[first.f1])
      rewritten == Len(comps) = 1 /\ pos \in first.selfRefs /\ CanRewrite(F[pos], first)
  IN CASE rewritten -> RecursiveCall(F[pos], new, choice)
       [] ~ rewritten /\ choice > 0 ->
            IF pos \in own[choice] THEN Code(mod.fns[comps[choice].f2])[pos] ELSE F[pos]
       [] OTHER -> F[pos]

(* Bug: with several functions, recursive calls stay as the first has them. *)
ChosenInstSelfRefsKept(mod, comps, new, choice, pos) ==
  InstFor(mod, comps, new, choice, pos, [k \in DOMAIN comps |-> comps[k].differing])

(* With several functions, recursive calls are told apart as well.          *)
ChosenInst(mod, comps, new, choice, pos) ==
  InstFor(mod, comps, new, choice, pos,
          [k \in DOMAIN comps |->
             comps[k].differing \cup (IF Len(comps) > 1 THEN comps[k].selfRefs ELSE {})])

(* cloneAndAddArgument, with the codes the clone ends up with; the choice   *)
(* is not counted among its parameters.                                    *)
CloneAndAddArgument(f, codes) ==
  [name |-> Append(f.name, Merged), linkage |-> "internal", shape |-> f.shape, type |-> f.type,
   blocks |-> f.blocks, codes |-> codes]

(* outlineAndMergeFunctions.  The use lists are not followed: nothing reads *)
(* them after the first merge of this kind.                                *)
OutlineAndMerge(mod, comps) ==
  LET f1 == comps[1].f1
      F1 == mod.fns[f1]
      new == mod.next
      parts == <<f1>> \o [k \in DOMAIN comps |-> comps[k].f2]
      codes == [c \in DOMAIN parts |->
                  [pos \in DOMAIN Code(F1) |-> ChosenInst(mod, comps, new, c - 1, pos)]]
      choice(f) == (CHOOSE c \in DOMAIN parts : parts[c] = f) - 1
  IN [fns  |-> [g \in DOMAIN mod.fns \cup {new} |->
                  IF g = new THEN CloneAndAddArgument(F1, codes)
                  ELSE IF g \in Range(parts) THEN ThunkFor(mod.fns[g], F1.type, new, choice(g))
                  ELSE mod.fns[g]],
      data |-> mod.data,
      casts |-> mod.casts,
      uses |-> mod.uses,
      next |-> new + 1]

-----------------------------------------------------------------------------
(* The functions and modules there are: a function has a body or is         *)
(* declared, a body is not empty, and what a module refers to exists.       *)
Instruction(ids) ==
  [op : STRING, callee : ids \cup {None}, cast : BOOLEAN, choice : Nat, arg : ids \cup {None}]

IsFunction(f, ids) ==
  /\ f \in [name : Seq(STRING), linkage : {"external", "weak", "internal"},
            shape : STRING, type : Seq(STRING) \ {<<>>}, blocks : Nat,
            codes : Seq(Seq(Instruction(ids)))]
  /\ \A c \in DOMAIN f.codes : f.codes[c] # <<>>

IsModule(m) ==
  /\ m.next \in Nat
  /\ DOMAIN m.fns \subseteq 1..m.next - 1
  /\ \A f \in DOMAIN m.fns : IsFunction(m.fns[f], DOMAIN m.fns)
  /\ m.data \in Seq(DOMAIN m.fns)
  /\ m.casts \subseteq DOMAIN m.fns

(* A use list names the instructions that refer to the function, all of     *)
(* them, and what is called through a cast is cast by a constant.           *)
UsesAreListed(m) ==
  \A f \in DOMAIN m.fns :
    /\ CastUsers(m, f) # {} => f \in m.casts
    /\ m.uses[f] \in Seq([by : DOMAIN m.fns, pos : Nat, role : Roles])
    /\ \A u \in Range(m.uses[f]) : /\ u.pos \in DOMAIN Code(m.fns[u.by])
                                  /\ Referred(Code(m.fns[u.by])[u.pos], u.role) = f
    /\ \A g \in DOMAIN m.fns : \A k \in DOMAIN Code(m.fns[g]) : \A role \in Roles :
         Referred(Code(m.fns[g])[k], role) = f =>
           [by |-> g, pos |-> k, role |-> role] \in Range(m.uses[f])
=============================================================================
