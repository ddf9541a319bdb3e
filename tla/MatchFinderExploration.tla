---------------------- MODULE MatchFinderExploration ----------------------
(***************************************************************************)
(* MatchFinderExploration (MultipleSequenceAlignment.cpp), the default     *)
(* exploration: the front candidate F1 of the matcher leaves it and is     *)
(* grouped with its matches in every way SetPartitions lists.  For each    *)
(* grouping the MergePlanner plans a merge of every group, keeps the       *)
(* grouping that saves the most and discards the others; the plans of the  *)
(* kept one are applied, one after the other, and every merged function    *)
(* becomes a candidate.                                                    *)
(***************************************************************************)
EXTENDS MatcherLSH, SetPartitions

CONSTANTS
  NumSources,  \* number of eligible functions of the module
  Gains        \* OriginalTotalSize - MergedSize - ThunkOverhead of a plan

ASSUME MatchFinderAssumption ==
  /\ NumSources \in Nat
  /\ 1 .. NumSources \subseteq Fn
  /\ Fn \subseteq Nat
  /\ IsFiniteSet(Fn)
  /\ Gains \subseteq Int

Source == 1 .. NumSources

VARIABLES
  indexed,    \* number of source functions added to the matcher
  functions,  \* F1 and its matches
  attempt,    \* number of calls of tryPlanMerge for them so far, plus one
  tried,      \* history: the groupings they were for
  best,       \* the plans of bestPlan that are not applied yet
  defined,    \* the functions that have a body: not erased and not a thunk
  absorbedBy  \* history: the merged function whose plan erased f, f if none

plannerVars == <<functions, attempt, tried, best>>
vars == <<matcherVars, plannerVars, indexed, defined, absorbedBy>>

(***************************************************************************)
(* Operators over the current state.                                       *)
(***************************************************************************)
Groupings == [n \in 1 .. ExplorationThreshold + 1 |-> Partitions(n)]

(* exploreProfitableSet tries every grouping twice: the second time only    *)
(* identical types are matched.                                            *)
Attempts ==
  IF functions = << >> THEN 0 ELSE 2 * Len(Groupings[Len(functions)])

Planning == attempt <= Attempts

(* The groups of the current attempt in the order of a std::set. *)
Groups ==
  LET groups == Groupings[Len(functions)][(attempt + 1) \div 2]
      firsts == {Min(g) : g \in groups}
  IN [i \in 1 .. Cardinality(firsts) |->
        CHOOSE g \in groups : Min(g) = Smallest(i, firsts)]

Total(plans) == FoldLeft(LAMBDA sum, p : sum + p.gain, 0, plans)

Merged(plans) == {plans[i].merged : i \in DOMAIN plans}

(* tryPlanMerge keeps the plans it made if they are profitable together     *)
(* and save more than the best ones so far.                                *)
IsKept(plans) == Total(plans) > 0 /\ (best # << >> => Total(plans) > Total(best))

(* Mutant: the plans that were the best are forgotten, not discarded. *)
DisposedOnlyIfWorse(plans) == IF IsKept(plans) THEN {} ELSE Merged(plans)

(* Mutant: always the new plans are discarded. *)
DisposedAlwaysNew(plans) == Merged(plans)

(* disposePlan: the merged functions that are erased again. *)
Disposed(plans) == IF IsKept(plans) THEN Merged(best) ELSE Merged(plans)

(* Names for merged functions: those of discarded ones are free again, not  *)
(* those of functions that were absorbed.  Fn bounds how many there are.   *)
Free == {f \in Fn \ (Source \cup defined) : absorbedBy[f] = f}

(* The plans for the groups at positions I, with these gains. *)
Plans(I, gain) ==
  [n \in 1 .. Cardinality(I) |->
     LET i == Smallest(n, I)
     IN [functions |-> {functions[x + 1] : x \in Groups[i]},
         merged |-> Smallest(n, Free), gain |-> gain[i]]]

-----------------------------------------------------------------------------
Init ==
  /\ MatcherInit
  /\ indexed = 0
  /\ functions = << >>
  /\ attempt = 1
  /\ tried = << >>
  /\ best = << >>
  /\ defined = Source
  /\ absorbedBy = [f \in Fn |-> f]

IndexSource ==
  /\ indexed < NumSources
  /\ indexed' = indexed + 1
  /\ \E h \in Fingerprints : IndexCandidate(indexed', h)
  /\ UNCHANGED <<plannerVars, defined, absorbedBy>>

Idle == indexed = NumSources /\ ~ Planning /\ best = << >>

(* Mutant: F1 stays in the matcher. *)
NextCandidateKept(f, ranked) ==
  /\ functions' = <<f>> \o Ascending(ranked)
  /\ attempt' = 1
  /\ tried' = << >>
  /\ UNCHANGED <<candidates, recent, bandHash, lsh, best, indexed, defined, absorbedBy>>

(* F1 leaves the matcher and its grouping with its matches begins.  The     *)
(* order of the matches only decides which of equally good groupings comes *)
(* first; they are taken in a fixed one.                                   *)
NextCandidate(f, ranked) ==
  /\ RemoveCandidate(f)
  /\ functions' = <<f>> \o Ascending(ranked)
  /\ attempt' = 1
  /\ tried' = << >>
  /\ UNCHANGED <<best, indexed, defined, absorbedBy>>

ProcessSimilarSet ==
  /\ Idle
  /\ \E f \in candidates :
       /\ IsFront(f)
       /\ \E seen \in SUBSET Colliding(f) : \E ranked \in SUBSET seen :
            UpdateMatches(f, seen, ranked) /\ NextCandidate(f, ranked)

(* One call of tryPlanMerge: planMerge succeeds for the groups at positions *)
(* I, and the plans that are not kept are discarded at once.               *)
TryPlanMerge(I, gain) ==
  LET plans == Plans(I, gain) IN
  /\ best' = IF IsKept(plans) THEN plans ELSE best
  /\ defined' = (defined \cup Merged(plans)) \ Disposed(plans)
  /\ tried' = Append(tried, ToSet(Groups))
  /\ attempt' = attempt + 1
  /\ UNCHANGED <<matcherVars, functions, indexed, absorbedBy>>

ExploreProfitableSet ==
  /\ Planning
  /\ \E I \in SUBSET DOMAIN Groups :
       /\ Cardinality(I) <= Cardinality(Free)
       /\ \E gain \in [I -> Gains] : TryPlanMerge(I, gain)

(* The next plan of bestPlan is applied: its functions leave the matcher    *)
(* (F1 has left it), its merged function enters it.                        *)
ApplyPlan(h) ==
  LET plan == Head(best) IN
  /\ ReplaceCandidates(plan.functions \ {Head(functions)}, plan.merged, h)
  /\ best' = Tail(best)
  /\ defined' = defined \ plan.functions
  /\ absorbedBy' = [f \in Fn |-> IF f \in plan.functions THEN plan.merged
                                 ELSE absorbedBy[f]]
  /\ UNCHANGED <<cache, matches, functions, attempt, tried, indexed>>

ApplyBestPlan ==
  /\ ~ Planning
  /\ best # << >>
  /\ \E h \in Fingerprints : ApplyPlan(h)

(* The matcher is empty and run() returns. *)
Return ==
  /\ Idle
  /\ candidates = {}
  /\ UNCHANGED vars

Next ==
  \/ IndexSource
  \/ ProcessSimilarSet
  \/ ExploreProfitableSet
  \/ ApplyBestPlan
  \/ Return

Spec == Init /\ [][Next]_vars

(***************************************************************************)
(* Properties                                                              *)
(***************************************************************************)
Plan == [functions : SUBSET Fn, merged : Fn, gain : Int]

(* The types of the exploration's variables; in particular a plan has a     *)
(* merged function of its own.                                             *)
TypeOK ==
  /\ MatcherTypeOK
  /\ indexed \in 0 .. NumSources
  /\ functions \in Seq(Fn)
  /\ attempt \in 1 .. Attempts + 1
  /\ tried \in Seq(SUBSET SUBSET Nat)
  /\ best \in Seq(Plan)
  /\ defined \in SUBSET Fn
  /\ absorbedBy \in [Fn -> Fn]

(* remove_candidate looks a function up in the cache that the last          *)
(* next_candidate filled, and asserts that it is there.  Whatever plans of *)
(* bestPlan have been applied meanwhile, the functions of those still to   *)
(* be applied are in the cache, their list nodes are not freed and no      *)
(* other plan takes them first.                                            *)
RemovalsFindCandidates ==
  \A i \in DOMAIN best :
    /\ best[i].functions \ {Head(functions)} \subseteq cache \cap candidates
    /\ \A j \in DOMAIN best : i # j => best[i].functions \cap best[j].functions = {}

(* The matcher holds pointers to functions, which applyMerge and discard    *)
(* erase: a candidate is a function that still has its body.               *)
CandidatesAreDefined == candidates \subseteq defined \ Merged(best)

(* The functions that are not erased are those that no merge absorbed and   *)
(* the merged functions of bestPlan: no discarded plan leaves its merged   *)
(* function behind, and none takes that of another plan with it.           *)
SpeculationIsAccounted ==
  LET unabsorbed == {f \in Fn : absorbedBy[f] = f}
      applied == {absorbedBy[f] : f \in Fn \ unabsorbed}
  IN defined = ((Source \cup applied) \cap unabsorbed) \cup Merged(best)

(* F1 is grouped with its matches in all the ways there are: into groups of *)
(* equal size, as many as fit, F1 in one of them.                          *)
AllGroupingsTried ==
  functions # << >> /\ ~ Planning => ToSet(tried) = AllGroupings(Len(functions))

(* "Allow merging functions that are not profitable" is off by default: no  *)
(* plan is applied that does not make the module smaller.                  *)
UnprofitableNotApplied ==
  ~ Planning => \A i \in DOMAIN best : best[i].gain > 0

(* Every function is absorbed at most once, by a merged function over       *)
(* functions that were standing on their own.                              *)
Forest == INSTANCE MergeForest
            WITH live <- defined \ Merged(best), into <- absorbedBy

ImplementsForest == Forest!ForestSpec

(* The loop of run() comes to an end although it adds candidates: every     *)
(* step decreases, in lexicographic order, the functions to be indexed,    *)
(* the candidates, the attempts that are left and the plans to be applied. *)
Remaining ==
  <<NumSources - indexed, Cardinality(candidates), Attempts + 1 - attempt, Len(best)>>

IsLess(s, t) ==
  \E i \in DOMAIN s : s[i] < t[i] /\ \A j \in 1 .. i - 1 : s[j] = t[j]

ComesToAnEnd == [][IsLess(Remaining', Remaining)]_vars
=============================================================================
