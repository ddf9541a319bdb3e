----------------------- MODULE ExhaustiveExploration -----------------------
(***************************************************************************)
(* ExhaustiveMergeExploration (MultipleSequenceAlignment.cpp): every       *)
(* eligible function is planned together with every combination of the     *)
(* candidates before it; profitable plans wait in a queue ordered by       *)
(* their score; the best live plan is applied, the plans that share a      *)
(* function with it are discarded, and the merged function is planned      *)
(* against the remaining candidates in turn.                               *)
(*                                                                         *)
(* Planning is speculative: planMerge leaves the merged function in the    *)
(* module, and discard() erases it again.  A plan is named by the merged   *)
(* function it would leave behind.                                         *)
(***************************************************************************)
EXTENDS Integers, Sequences, FiniteSets, SequencesExt

CONSTANTS
  NumSources,          \* number of eligible functions of the module
  MaxFunctions,        \* bound on the functions ever created (plans included)
  MaxMergeSize,        \* ExplorationThreshold + 1
  ExhaustiveThreshold, \* merges after which the exploration stops, 0: no limit
  Gains                \* OriginalTotalSize - MergedSize - ThunkOverhead of a plan

ASSUME ExhaustiveAssumption ==
  /\ NumSources \in Nat \ {0}
  /\ MaxFunctions \in Nat
  /\ NumSources <= MaxFunctions
  /\ MaxMergeSize \in Nat
  /\ ExhaustiveThreshold \in Nat
  /\ Gains \subseteq Int

Source == 1 .. NumSources
Fn == 1 .. MaxFunctions
None == 0

VARIABLES
  nextSource,   \* the source function run() looks at next
  candidates,   \* Candidates, as a set
  arrival,      \* arrival[f]: position at which f was pushed onto Candidates
  arrivals,     \* number of functions pushed so far
  queue,        \* SortedMergePlans, the best plan at the end
  parts,        \* parts[p]: Plan.getFunctions()
  gain,         \* gain[p]: the plan's Score
  dead,         \* plans with IsDead set
  dependents,   \* Dependents
  created,      \* the largest function created so far
  speculative,  \* merged functions in the module that no plan was applied for
  exploring,    \* NewFunction of the running tryPlanWithAllCandidates, or None
  worklist,     \* its WorkList
  tried,        \* history: the combinations it called tryPlanMerge with
  iteration,    \* Iteration
  absorbedBy,   \* history: the merged function whose plan erased f, f if none
  done          \* run() has returned

vars == <<nextSource, candidates, arrival, arrivals, queue, parts, gain, dead,
          dependents, created, speculative, exploring, worklist, tried,
          iteration, absorbedBy, done>>

planVars == <<queue, parts, gain, dead, dependents, created, speculative>>
candidateVars == <<candidates, arrival, arrivals>>

(***************************************************************************)
(* Operators over the current state.                                       *)
(***************************************************************************)

(* Score::isBetterThan compares what two plans save, rearranged so that no *)
(* subtraction is done in size_t.                                          *)
IsBetterThan(g, h) == g > h

(* Score::isProfitableMerge.  A plan over the limit on selections is        *)
(* discarded in the same way and counts as one that gains nothing.         *)
IsProfitable(g) == g > 0

Live(p) == p \in ToSet(queue) \ dead

(* The candidate the vector holds first among those in C. *)
IsFirst(c, C) == \A d \in C : arrival[c] <= arrival[d]

(* Mutant: the plans are ordered the other way round. *)
IsInsertPointReversed(i, g) ==
  /\ i \in 1 .. Len(queue) + 1
  /\ \A j \in 1 .. i - 1 : IsBetterThan(gain[queue[j]], g)
  /\ i <= Len(queue) => ~ IsBetterThan(gain[queue[i]], g)

(* Position at which insertMergePlan inserts a plan of gain g: before the   *)
(* first plan that is better.                                              *)
IsInsertPoint(i, g) ==
  /\ i \in 1 .. Len(queue) + 1
  /\ \A j \in 1 .. i - 1 : ~ IsBetterThan(gain[queue[j]], g)
  /\ i <= Len(queue) => IsBetterThan(gain[queue[i]], g)

(* Mutant: no plan is marked dead. *)
MarkDeadPlansNever(p) == {}

(* markDeadPlans(getFunctions(), p): the other plans that depend on one of  *)
(* the functions of p.                                                     *)
MarkDeadPlans(p) == (UNION {dependents[f] : f \in parts[p]}) \ {p}

-----------------------------------------------------------------------------
Init ==
  /\ nextSource = 1
  /\ candidates = {}
  /\ arrival = [f \in Fn |-> 0]
  /\ arrivals = 0
  /\ queue = << >>
  /\ parts = [p \in Fn |-> {}]
  /\ gain = [p \in Fn |-> 0]
  /\ dead = {}
  /\ dependents = [f \in Fn |-> {}]
  /\ created = NumSources
  /\ speculative = {}
  /\ exploring = None
  /\ worklist = << >>
  /\ tried = << >>
  /\ iteration = 0
  /\ absorbedBy = [f \in Fn |-> f]
  /\ done = FALSE

(***************************************************************************)
(* tryPlanWithAllCandidates                                                *)
(***************************************************************************)

(* Entered with NewFunction = f and the candidates C. *)
StartExploring(f, C) ==
  /\ exploring' = f
  /\ worklist' = << [functions |-> {f}, rest |-> C] >>
  /\ tried' = << >>

(* Mutant: the loop over the source functions runs past their end. *)
ExploreSourcePastEnd ==
  /\ ~ done
  /\ exploring = None
  /\ nextSource \in Fn
  /\ StartExploring(nextSource, candidates)
  /\ nextSource' = nextSource + 1
  /\ UNCHANGED <<candidateVars, planVars, iteration, absorbedBy, done>>

(* run() takes the next source function. *)
ExploreSource ==
  /\ ~ done
  /\ exploring = None
  /\ nextSource \in Source
  /\ StartExploring(nextSource, candidates)
  /\ nextSource' = nextSource + 1
  /\ UNCHANGED <<candidateVars, planVars, iteration, absorbedBy, done>>

(* The children of work item w: the item that does not pick the next       *)
(* candidate is pushed last and so popped first.                           *)
Branches(w) ==
  IF w.rest = {} \/ Cardinality(w.functions) >= MaxMergeSize
  THEN {<< >>}
  ELSE {<< [functions |-> w.functions \cup {c}, rest |-> w.rest \ {c}],
           [functions |-> w.functions, rest |-> w.rest \ {c}] >> :
          c \in {d \in w.rest : IsFirst(d, w.rest)}}

(* Mutant: the comparison with MaxMergeSize is off by one. *)
IsPlannedBelowSize(w) ==
  Cardinality(w.functions) < MaxMergeSize /\ Cardinality(w.functions) > 1

(* An item is planned before it branches if its size allows. *)
IsPlanned(w) ==
  Cardinality(w.functions) <= MaxMergeSize /\ Cardinality(w.functions) > 1

PopWork ==
  /\ exploring # None
  /\ worklist # << >>
  /\ \E b \in Branches(Last(worklist)) : worklist' = Front(worklist) \o b
  /\ tried' = IF IsPlanned(Last(worklist))
              THEN Append(tried, Last(worklist).functions) ELSE tried
  /\ UNCHANGED <<nextSource, candidateVars, exploring, iteration, absorbedBy, done>>

(* No plan is kept: the item is too small, planMerge fails, or the plan is  *)
(* not profitable and is discarded at once.                                *)
WorkWithoutPlan ==
  /\ PopWork
  /\ UNCHANGED planVars

(* planMerge succeeds with a profitable plan, which is queued. *)
WorkWithPlan(g, i) ==
  /\ PopWork
  /\ IsPlanned(Last(worklist))
  /\ IsProfitable(g)
  /\ IsInsertPoint(i, g)
  /\ created < MaxFunctions
  /\ created' = created + 1
  /\ parts' = [parts EXCEPT ![created'] = Last(worklist).functions]
  /\ gain' = [gain EXCEPT ![created'] = g]
  /\ speculative' = speculative \cup {created'}
  /\ dependents' = [f \in Fn |-> IF f \in Last(worklist).functions
                                 THEN dependents[f] \cup {created'}
                                 ELSE dependents[f]]
  /\ queue' = InsertAt(queue, i, created')
  /\ UNCHANGED dead

PlanWork == \E g \in Gains, i \in 1 .. Len(queue) + 1 : WorkWithPlan(g, i)

(* tryPlanWithAllCandidates returns and NewFunction becomes a candidate.   *)
(* After a merged function, run() also counts the iteration.               *)
FinishExploring ==
  /\ exploring # None
  /\ worklist = << >>
  /\ candidates' = candidates \cup {exploring}
  /\ arrivals' = arrivals + 1
  /\ arrival' = [arrival EXCEPT ![exploring] = arrivals']
  /\ exploring' = None
  /\ tried' = << >>
  /\ iteration' = IF exploring \in Source THEN iteration ELSE iteration + 1
  /\ done' = (ExhaustiveThreshold # 0 /\ iteration' >= ExhaustiveThreshold)
  /\ UNCHANGED <<nextSource, planVars, worklist, absorbedBy>>

(***************************************************************************)
(* The merge loop of run()                                                 *)
(***************************************************************************)
Picking ==
  /\ ~ done
  /\ exploring = None
  /\ nextSource \notin Source

(* Mutant: the plans over the functions of p stay alive. *)
ErasePlanSparingOthers(p) ==
  /\ queue' = Front(queue)
  /\ dependents' = [f \in Fn |-> IF f \in parts[p] THEN {} ELSE dependents[f]]
  /\ UNCHANGED <<dead, parts, gain, created>>

(* Mutant: Dependents keeps its pointers to the plan. *)
ErasePlanKeepingPointers(p) ==
  /\ queue' = Front(queue)
  /\ dead' = dead \cup MarkDeadPlans(p)
  /\ UNCHANGED <<dependents, parts, gain, created>>

(* erasePlan(p) for the plan just taken from the back of the queue: the     *)
(* plans that depend on one of its functions are marked dead, which        *)
(* discards those that were not dead yet.                                  *)
ErasePlan(p) ==
  /\ queue' = Front(queue)
  /\ dead' = dead \cup MarkDeadPlans(p)
  /\ dependents' = [f \in Fn |-> IF f \in parts[p] THEN {} ELSE dependents[f]]
  /\ UNCHANGED <<parts, gain, created>>

(* Mutant: a dead plan is discarded again, the plans it marks are not. *)
DropDeadPlanAlone ==
  /\ Picking
  /\ queue # << >>
  /\ Last(queue) \in dead
  /\ ErasePlan(Last(queue))
  /\ speculative' = speculative \ {Last(queue)}
  /\ UNCHANGED <<nextSource, candidateVars, exploring, worklist, tried,
                 iteration, absorbedBy, done>>

(* pickBestMergePlan drops a dead plan. *)
DropDeadPlan ==
  /\ Picking
  /\ queue # << >>
  /\ Last(queue) \in dead
  /\ ErasePlan(Last(queue))
  /\ speculative' = speculative \ (MarkDeadPlans(Last(queue)) \ dead)
  /\ UNCHANGED <<nextSource, candidateVars, exploring, worklist, tried,
                 iteration, absorbedBy, done>>

(* pickBestMergePlan returns a live plan: its functions leave Candidates,  *)
(* the plans over them die, the plan is applied and the merged function is *)
(* explored.                                                               *)
ApplyBestPlan ==
  LET p == Last(queue) IN
  /\ Picking
  /\ queue # << >>
  /\ p \notin dead
  /\ candidates' = candidates \ parts[p]
  /\ ErasePlan(p)
  /\ speculative' = speculative \ ({p} \cup (MarkDeadPlans(p) \ dead))
  /\ absorbedBy' = [f \in Fn |-> IF f \in parts[p] THEN p ELSE absorbedBy[f]]
  /\ StartExploring(p, candidates')
  /\ UNCHANGED <<nextSource, arrival, arrivals, iteration, done>>

(* Mutant: run() goes on when no plan is left. *)
StopExploringNever ==
  /\ Picking
  /\ queue = << >>
  /\ UNCHANGED vars

(* No plan is left. *)
StopExploring ==
  /\ Picking
  /\ queue = << >>
  /\ done' = TRUE
  /\ UNCHANGED <<nextSource, candidateVars, planVars, exploring, worklist,
                 tried, iteration, absorbedBy>>

Next ==
  \/ ExploreSource
  \/ WorkWithoutPlan
  \/ PlanWork
  \/ FinishExploring
  \/ DropDeadPlan
  \/ ApplyBestPlan
  \/ StopExploring

Spec == Init /\ [][Next]_vars

(* run() is one thread of straight-line code: it never waits. *)
FairSpec == Spec /\ WF_vars(Next)

(***************************************************************************)
(* Properties                                                              *)
(***************************************************************************)
Work == [functions : SUBSET Fn, rest : SUBSET Fn]

(* The types of the exploration's variables; in particular run() looks at   *)
(* no function beyond the source functions, and no plan beyond those made. *)
TypeOK ==
  /\ nextSource \in 1 .. NumSources + 1
  /\ candidates \in SUBSET Fn
  /\ arrival \in [Fn -> Nat]
  /\ arrivals \in Nat
  /\ queue \in Seq(Fn)
  /\ parts \in [Fn -> SUBSET Fn]
  /\ gain \in [Fn -> Int]
  /\ dead \in SUBSET Fn
  /\ dependents \in [Fn -> SUBSET Fn]
  /\ created \in Nat
  /\ created <= MaxFunctions
  /\ speculative \in SUBSET Fn
  /\ exploring \in Fn \cup {None}
  /\ worklist \in Seq(Work)
  /\ tried \in Seq(SUBSET Fn)
  /\ iteration \in Nat
  /\ absorbedBy \in [Fn -> Fn]
  /\ done \in BOOLEAN

(* The functions run() may still merge: the candidates, the function being *)
(* explored and the source functions it has not looked at yet.             *)
Mergeable ==
  candidates \cup ({exploring} \ {None}) \cup nextSource .. NumSources

(* applyMerge erases the plan's functions, so a plan over an erased         *)
(* function must never be applied: every live plan is over functions that  *)
(* are still candidates, or the one being explored.                        *)
LivePlansAreApplicable ==
  \A p \in Fn : Live(p) => parts[p] \subseteq candidates \cup {exploring}

(* Dependents holds raw pointers to plans the queue owns.  A plan taken     *)
(* from the queue is freed, so no pointer to it may be left behind; and a  *)
(* live plan is found under each of its functions, or it would not be      *)
(* marked dead when one of them is merged.                                 *)
DependentsMatchQueue ==
  \A f, p \in Fn :
    /\ p \in dependents[f] => p \in ToSet(queue) /\ f \in parts[p]
    /\ Live(p) /\ f \in parts[p] => p \in dependents[f]

(* The speculative merged functions in the module are those of the live     *)
(* plans: none is leaked by a plan that died, and none is erased while its *)
(* plan may still be applied.                                              *)
SpeculationIsAccounted == \A p \in Fn : p \in speculative <=> Live(p)

(* When tryPlanWithAllCandidates returns, "all combinations of existing     *)
(* candidates" with NewFunction were tried, up to MaxMergeSize functions.  *)
AllCombinationsTried ==
  exploring # None /\ worklist = << >> =>
    ToSet(tried) = {S \cup {exploring} :
                      S \in {T \in SUBSET candidates :
                               T # {} /\ Cardinality(T) < MaxMergeSize}}

(* The plan that is applied is one no live plan is better than. *)
AppliesTheBestPlan ==
  [][absorbedBy' # absorbedBy =>
       \A p \in Fn : Live(p) => ~ IsBetterThan(gain[p], gain[exploring'])]_vars

(* Every function is absorbed at most once, by a merged function over       *)
(* functions that were standing on their own.                              *)
Forest == INSTANCE MergeForest
            WITH live <- Mergeable, into <- absorbedBy

ImplementsForest == Forest!ForestSpec

(* run() returns. *)
Terminates == <>done

(* A plan dies only with one of its functions: a queued plan that is        *)
(* discarded has a function that was merged.                               *)
OnlyStalePlansDie ==
  \A p \in dead \cap ToSet(queue) : \E f \in parts[p] : absorbedBy[f] # f
=============================================================================
