# Verification of llvm-next-function-merging

TLA+ models, model-checking runs and machine-checked proofs for the function-merging
passes in `lib/Transforms/IPO`. Line numbers refer to the sources of this repository.

## 1. The system

The repository is an LLVM plugin. Its passes find functions of a module that look
alike, align their instructions, generate one merged function that is told by a
discriminator argument which of them to be, and replace the originals by calls of it or
by thunks. A pass is one thread without persistent state: what is hard is not concurrency
but long chains of legal steps over a module that changes under the pass - plans made
early and applied late, pointers to functions that another plan has erased, merged
functions that exist only speculatively, maps that are filled by one phase and read by
another, and the requirement that the generated code does what the sources did.

| component | state | operations | talks to |
|---|---|---|---|
| exploration strategies (`ExhaustiveMergeExploration`, `MatchFinderExploration`, `ManualMergeExploration`, `ReplayingMergeExploration`) | candidates, plan queue, dependents | `run`, `tryPlanWithAllCandidates`, `tryPlanMerge`, `pickBestMergePlan`, `erasePlan` | planner, matchers, `MSAMergePlan` |
| `MergePlanner`, `SetPartitions` | best plan so far; partitions seen | `exploreProfitableSet`, `tryPlanMerge`; `groupCombinationsRecursive` | `MSAFunctionMerger::planMerge` |
| merge planning (`planMerge`, `MSAMergePlan`, `MSAThunkFunction`, `MSACallReplacement`) | the module: merged functions, thunks, users of the sources | plan, `discard`, `applyMerge` | aligners, code generation |
| multiple sequence aligners (Needleman-Wunsch, HyFM) | score table, cursors; block pairs | `align`, `alignBasicBlocks` | `FunctionMerger::match` |
| code generation (`MSAGenFunction`, `MSAGenFunctionBody`, `SwitchChainer`, `LabelOperandMerger`) | value map, block maps, chains | `layoutSharedBasicBlocks`, `chainBasicBlocks`, `assignOperands`, `assignPHIOperandsInBlock`, `fixupCoalescingPHI` | alignment, LLVM IR |
| matchers (`MatcherFQ`, `MatcherManual`, `MatcherLSH`) | candidate list, hash buckets, cached matches | `add_candidate`, `remove_candidate`, `next_candidate`, `get_matches` | explorations, pairwise pass |
| pairwise pass (`FunctionMerging.cpp`, `SALSSACodeGen.cpp`) | worklist, call graph, thunks | `runImpl`, `merge`, `updateCallGraph` | matchers, pairwise aligners |
| pairwise aligners (`SequenceAlignment.h`, `SANeedlemanWunsch.h`, `SAHirschberg.h`, `SADiagonalWindows.h`) | score matrices | `getAlignment` | pairwise pass |
| older passes (`FMSA.cpp`, `FastFM.cpp`) | worklist, the module | `runOnModule`, `merge`, `updateCallGraph` | as the pairwise pass |
| `MergeSimilarFunctions.cpp` | registry: buckets, deferred functions, comparisons; use lists | `enqueue`, `remove`, `mergeBucket`, `mergeTwoFunctions`, `outlineAndMergeFunctions` | LLVM IR |

What makes each correct:

* explorations: no plan is applied over a function that no longer exists; every planned
  function ends up applied or erased; the best plan goes first; the exploration ends;
* planner: all groupings are considered once; the merged functions of all plans but the
  best are discarded, all together;
* planning: a discarded plan leaves no trace in the module; an applied plan leaves no
  use of a source function behind;
* the passes as a whole: every call runs the code it ran before, with the values it had,
  every address leads where it led, and the linker sees the symbols it saw;
* `MergeSimilarFunctions`: comparisons are up to date when they are used, no match is
  overlooked, and the rounds come to an end;
* aligners: every instruction once and in order, only matching ones together, the best
  score, a table no larger than the limit;
* code generation: called with discriminator `d`, the merged function executes what
  function `d` executes, and PHI nodes see the predecessor they would see there;
* matchers: candidates offered are candidates; a removed one is never offered again.

`PROJECT.json` lists the components with their status and, under `hazards`, the places
where each of these can go wrong.

## 2. Modules

| module | models | status |
|---|---|---|
| `MergeForest` | abstract: what every exploration promises about the module | proved, checked |
| `ExhaustiveExploration` | `ExhaustiveMergeExploration`, MultipleSequenceAlignment.cpp 2389-2582 | proved, checked |
| `CommonLemmas` | lemmas on induction, recursion, sequences, ascending lists, folds over sets, sums and products | proved |
| `ExhaustiveExplorationProofs` | its theorems | proved |
| `NWAligner` | `NeedlemanWunschMultipleSequenceAligner`, `TensorTable.h`, `FixedBitVector.h` | proved, checked |
| `NWAlignerProofs` | its theorems | proved |
| `SourceExecution` | abstract: executing source function `d` | |
| `MergedBody` | control flow made by `MSAGenFunctionBody`, and its execution | proved, checked |
| `MergedBodyProofs` | its theorems | proved |
| `AscendingItems` | the elements of a set of numbers in ascending order (`std::set`, `std::sort`) | |
| `MatcherLSH` | `MatcherLSH` (FunctionMerging.cpp 1918-2150), bands of `SearchStrategy.h` | proved, checked |
| `SetPartitions` | `fmutils::SetPartitions`, FunctionMergingUtils.cpp 133-195 | proved, checked |
| `MatchFinderExploration` | `MatchFinderExploration` and `MergePlanner`, MultipleSequenceAlignment.cpp 2102-2225 and 2292-2365; composes the two above | proved, checked |
| `MatchFinderExplorationProofs` | the lemmas and theorems about these three | proved |
| `ParameterLayout` | `layoutParameters` (MultipleSequenceAlignment.cpp 1564-1708), `MergeArguments` (FunctionMerging.cpp 1320-1408) | proved in part, checked |
| `ParameterLayoutProofs` | its theorems | proved |
| `ModuleFunctions` | the LLVM module: functions, callers, addresses, names; thunks and replacement of calls | checked |
| `FunctionMeaning` | abstract: the code a call ends up in, and the values it gets | |
| `MergePlan` | `planMerge`, `emit`, `applyMerge`, `discard` (MultipleSequenceAlignment.cpp 240-318, 1710-1985, 2069-2086) | checked |
| `PairwiseMerging` | merging two functions in FunctionMerging.cpp, FastFM.cpp, FMSA.cpp | checked |
| `MergingPasses` | the passes over all of these: any exploration, replay, manual merge, the three pairwise passes | proved in part, checked |
| `MergingPassesProofs` | its theorems | proved |
| `FunctionComparator` | comparing and rewriting in MergeSimilarFunctions.cpp | checked |
| `SimilarFunctions` | its registry, rounds and merges | proved in part, checked |
| `SimilarFunctionsProofs` | its theorems | proved |
| `MCExhaustiveExploration`, `MCNWAligner`, `MCMergedBody`, `MCMatchFinderExploration`, `MCMergingPasses`, `MCSimilarFunctions` | instances for TLC | |

### MergeForest and ExhaustiveExploration

`MergeForest` has two variables: the functions that stand on their own, and for every
function the one that absorbed it. Its only step absorbs several standing functions into
a new one. This is the contract of `MSAMergePlan::applyMerge`, which erases the source
functions.

`ExhaustiveExploration` has the state of the C++ class: `Candidates` (a set with the
order of arrival), `SortedMergePlans` (`queue`), `Dependents`, `IsDead`; the worklist of
`tryPlanWithAllCandidates`; and the merged functions that speculative planning left in
the module (`speculative`). A plan is named by its merged function. One action per
operation:

| action | code |
|---|---|
| `ExploreSource` | `run` takes the next eligible function |
| `WorkWithoutPlan`, `WorkWithPlan` | one item of the worklist: `planMerge` fails or is not profitable; or a plan is scored, registered under its functions and inserted |
| `FinishExploring` | `tryPlanWithAllCandidates` returns, the function becomes a candidate, the iteration is counted |
| `DropDeadPlan` | `pickBestMergePlan` drops a dead plan, with everything `erasePlan` marks |
| `ApplyBestPlan` | a live plan is taken, its functions leave the candidates, dependent plans die, the plan is applied and the merged function explored |
| `StopExploring` | no plan is left |

Whether planning succeeds, and with which gain, is nondeterministic. The comparison of
scores is modelled by the gain: the code rearranges the sums so that no subtraction can
wrap, and sizes are far from the width of `size_t`.

`absorbedBy` and `tried` are history variables; no guard reads them.

### NWAligner

Points of the table are functions from the source functions to prefix lengths; a
transition is a set of functions. The actions are the phases and loops of the code:
`Reject` and `InitScoreTable`, one `FillPoint` per round of `buildScoreTable`, `EndFill`,
one `TraceBack` per round of `buildAlignment`, `EndTrace`. Ties are resolved as in the
code: transitions are visited by counting the bit vector down, and the first of the best
wins. Scores saturate like `addScore`. The size of the table is computed modulo
`SizeModulus`.

### SourceExecution and MergedBody

`SourceExecution` executes one function element by element: the label of a block,
its instructions, a terminator that chooses a target. `MergedBody` lets an aligner match
elements of the functions (any in-order matching for Needleman-Wunsch; any pairing of
blocks with in-order matching inside for HyFM, so the alignments are a superset of those the
two aligners return), then builds the merged function as `MSAGenFunctionBody::emit` does
(`LayoutSharedBasicBlocks`, `ChainBasicBlocks` once per function, `AssignLabelOperands`
once per matched entry), and calls it with any discriminator. The states of the
execution are related to `SourceExecution` by the variables of the same names.

Of a PHI node the model has what decides its value: the source block that
`FinalBBToBB` gives for the predecessor control came from.

### MatcherLSH, SetPartitions and MatchFinderExploration

`MatcherLSH` has the members of the class: the candidate list (a set, and the order of those
added after the list was sorted), the hash buckets, the cache `remove_candidate` looks in, and
the matches. A fingerprint is what is read of it, with the tail that `generateBands` cut off
and the loops over the bands still read. A bucket is a sequence, because the loop that erases
from it skips an entry after each erase (`ErasePass`). Distances are left open: any collisions
may be of mergeable types, any of them may be the closest.

`SetPartitions` is the recursion over pick or not, as a recursive function, next to
`AllGroupings`, which says what it should enumerate: groups of equal size, as many
as fit, with index 0 in one of them. For up to four indices it gives the very lists of
`FunctionMergingUtilsTests.cpp`.

`MatchFinderExploration` has one action per step of the loop:

| action | code |
|---|---|
| `IndexSource` | an eligible function is added to the matcher |
| `ProcessSimilarSet` | `next_candidate`, `get_matches`, `remove_candidate(F1)` |
| `ExploreProfitableSet` | one call of `tryPlanMerge`: any of its groups may fail to be planned, any gain; the new plans or the former best are discarded, or none |
| `ApplyBestPlan` | one plan of `bestPlan` is applied, its functions leave the matcher, its merged function enters it |
| `Return` | the matcher is empty |

Merged functions that were discarded give their names to later ones, as the allocator may.

### ModuleFunctions, MergePlan, PairwiseMerging and MergingPasses

These model what `ExhaustiveExploration` and `MatchFinderExploration` leave abstract: what
planning, applying and discarding do to the module. A function is a set of paths, each
the code of one function of the original module, run when the discriminators have the
values it tests for; of an instruction there is what merging changes, calls with
their arguments and uses of addresses. Every call and address carries, as history,
what it was in the original module, and `FunctionMeaning` says what it comes to now,
through any number of thunks and merged functions. "internal" stands for private linkage
as well; sections, comdats and attributes are left out (a parameter type stands for its
attributes); the module is not the whole program (`HasWholeProgram` is false).

`PlanMerge` gives all outcomes of `planMerge`: a refusal that leaves nothing, a refusal after
the declaration was created (`EmitDeclaration`), or a plan, for every layout of the parameters
that some choice of reusable parameters gives. `ApplyMerge` and `DiscardPlan` are `applyMerge`
and `discard`.

`MergingPasses` runs a job, which names a pass and a module:

| action | code |
|---|---|
| `Plan`, `Discard`, `Apply` | an exploration: several plans are pending; one is applied when the plans that share functions with it are gone. The order in which it does so, which the exploration modules have, is left open |
| `PlanManually`, `ApplyManually` | `ManualMergeExploration::run`: two plans, the better is kept |
| `SkipRemark`, `StopReplay`, `ReplayRemark`, `ReplayMerge` | `ReplayingMergeExploration::run` and `replayMergeWithMaxN`, with the window in the arithmetic of `size_t` |
| `NextCandidate`, `OnlyCandidate` | a pairwise pass takes the next function and its matches |
| `RejectPair`, `AcceptPair` | one attempt; `updateCallGraph` and the worklist after a success |
| `Return` | nothing is left to do |

The differences between the passes are in `PairwiseMerging`: which pairs are valid, the
discriminator of each function, name and linkage of the merged function, whether a body
that is replaced stays internal, and which functions are erased.

### FunctionComparator and SimilarFunctions

A function is a sequence of instructions, or one for each choice when it merged several. An
instruction has what comparing and rewriting look at: an operation, the function it calls, the
choice it passes, a function whose address it uses. The use lists are modelled with their
order, because `replaceDirectCallers` and `removeUsers` defer functions in that order, until
the merging of similar functions begins, which no longer reads them. A weak function is taken
to run its own definition.

Functions whose parameters are pointers of different types are compared with each other, so a
function has a type, and a call that is redirected to a function of another type goes through a
cast. Two things depend on it. `ThunkBody` is what `writeThunkBody` emits: a cast for each argument
of another type, the call, a cast of the result. The number of instructions, with the return,
decides in `isComparisonCandidate` whether the thunk itself is compared (`IsTiny`, with
`MergeMinInsts` as in the code), so functions have a number of blocks as well. And a cast is a
constant that stands between a function and those who call it: it keeps the function from
being erased when its calls are gone (`casts`, `CanErase`), and `removeUsers` goes through it (`Noticed`).

`remove` looks buckets up by `operator[]`, which adds one if there is none (`Extended`). When that
happens while the buckets are walked, the vector may be reallocated under the iterator. What
follows is undefined; the model goes on as if the vector had stayed where it was.

| action | code |
|---|---|
| `Enqueue` | `MergeRegistry::enqueue` |
| `MergeExact` | `mergeBucket` finds an exact match: `remove`, `mergeTwoFunctions` (calls redirected, thunk, or erased), rescan |
| `RecordCandidates` | `mergeBucket` finds none: comparisons are noted, the function is marked |
| `NextBucket` | `doExhaustiveCompareMerge` goes on, to the weak buckets, to the next round, or to `doDiffMerge` |
| `DiffMerge` | one round of `doDiffMerge`, with `outlineAndMergeFunctions` |
| `Return` | `runOnModule` ends |

Behaviour is compared by a relation between the functions of the given module and those
of the module as it is, closed under calls.

## 3. Runs

| run | question | bounds |
|---|---|---|
| `exhaustive` | the safety, refinement and termination of the exhaustive exploration | 3 source functions, up to 9 functions, merges of up to 3, gains 0, 1, 2 |
| `exhaustive_overkill` | do only plans die whose functions were merged? No | merges of 2 |
| `nw_align` | asserts, cursors, completeness, consistency, optimality | all triples of six functions of up to 4 elements |
| `nw_overflow` | does the limit bound the table? No | a 6-bit size |
| `merged_body` | execution and PHI nodes, both aligners | all pairs of a diamond, a straight line and a loop; all triples of two small graphs |
| `match_finder` | matcher, planner, refinement and end of the match-finder exploration | 4 source functions, up to 3 matches, 3 bands over 2 hashes, gains -1, 1, 2 |
| `match_finder_unprofitable` | is every applied merge profitable? No | as above |
| `match_finder_buckets` | is a function once in a bucket? No | as above |
| `merging_passes` | meaning of calls and addresses, symbols, pending plans, layouts, replay window, end | four modules of up to five functions, 33 jobs; two plans (three in the smallest module) with merges of up to three; remark files of four entries, windows whose end wraps around and others, 3-bit `size_t` |
| `similar_functions` | behaviour, registry, completeness, iterators, end | 2320 modules of two to seven functions; thunks with up to three casts, of which those with two or three are compared; at least 2 instructions to differ, at most 2 differing, similarity 70 |
| `similar_functions_endless` | does the pass always return? No | two weak functions |
| `merged_body_shared` | do PHI nodes always see their predecessor? No | two diamonds, HyFM |

Why the bounds are enough. Three source functions with merges of up to three give plans
that overlap in one function, in two, and not at all, dead plans below and above live
ones in the queue, and merged functions merged again; nine functions leave room for six
plans. Three gains give ties and both orders. Three dimensions are the fewest where a
transition is neither diagonal nor along an axis; the six functions contain matches
with equal and different types, crossing matches, a block label in the middle and
functions of different length. The diamond has a join with PHI nodes, the loop a back
edge and a block that may be entered from two blocks; aligned with each other and with
the straight line they make matched terminators with equal and different targets,
unmatched code before, between and after matches, and shared select blocks.

Four functions are the fewest with a grouping of two groups, so that two plans are planned,
compared, discarded and applied together; merged functions meet again with what is left. The
eight function names are enough for the plans that exist at one time and the merges before.
Three bands over two hashes make functions with equal, partly equal and different bands, and
buckets with one to three entries of a function, which needs up to two passes to be erased. A
bucket never reaches `BucketSizeCap`; `seen` takes any subset of the collisions.

The modules of `merging_passes` have two functions that call each other and themselves, an
address in data and one in code, a linkonce function, a declaration, `main`, return types and
personalities that do not agree, and a parameter of the discriminator's type. Two plans are
the fewest that can be pending over disjoint functions while one is applied, and three make
plans over merged functions. Windows begin at the first, second and third merge, before and
after the end, and include the default count, with which the end of every window that does not
start at 0 wraps around. `func-merging` tries
one match per function, its default, the others two, of which they stop at the first success.

The modules of `similar_functions` are all pairs and triples of two-instruction functions over
the linkages, calls and addresses listed in `MCSimilarFunctions`, and samples in which a merge
makes others possible, functions are similar to several others, recursive, mutually recursive,
and passed in data. In the family `Casts` four functions match, the second of another type;
their callees match too, so that the thunks the first round makes have a callee that is merged
in the second, for six choices of linkages, with and without casts of the result, and with a
bucket that thunks share with other functions or not. `MergeMinInsts` is 4, the default of the code. Up to two instructions may differ (in the code eight, in functions
of more than fifteen): the thresholds are scaled to functions of two to four instructions. Modules where a weak function
calls another weak one are left to `similar_functions_endless`.

Deadlock is checked for `match_finder`, `merging_passes` and `similar_functions`, where only
`Return` or `Done` has no other step; the other models stop when the pass returns, and
`Terminates` says that they do.

Fairness. `FairSpec` assumes that the next step is taken: a pass is one thread that never
waits, and so is the execution of the merged function. It is used for `Terminates`, and in
`ImplementsSource`, whose abstract specification has the same assumption: the merged function
must not hang where the source function goes on. `MatchFinderExploration` needs no fairness:
`ComesToAnEnd`, which is proved, says that every step decreases a lexicographic measure, so that with no
deadlock but `Return` every run ends; `WorkShrinks` says the same of `MergingPasses`.
`SimilarFunctions` has no such measure, as its violation shows: `Finishes` is a liveness
property under weak fairness of the whole step, the pass being one thread that runs until it
returns.

### What the six violations show

* `pickBestMergePlan` (2575) drops a dead plan through `erasePlan`, which marks as dead
  all plans over any function of the dead one. Profitable plans over functions that are
  still standing are lost.
* `tryPlanMerge` (2191) scores the plans of a grouping together, so a merge that makes the
  module larger is applied when another group of the grouping saves more, although
  unprofitable merges are off by default.
* the bands of a fingerprint are deduplicated but the loops over them still count to the
  full number (FunctionMerging.cpp 1956): they read past the end of the vector, where the
  duplicates still are. `BucketsHoldCandidates` shows that adding and removing agree
  nevertheless, as long as what is read there does not change.
* the size of the score table wraps around before it is compared with the limit
  (NeedlemanWunschMultipleSequenceAligner.cpp 327).
* two weak functions that both call the second of them match exactly; their calls are
  redirected to the first, which changes both, so both are compared again, now with the
  roles exchanged, and the loop of `runOnModule` (MergeSimilarFunctions.cpp 1368-1376)
  never ends. The comment at 700-702 forbids such a match; `V1 == V2` at 707 admits it.
* a select block that two matched terminators of different source blocks share has one
  entry in `FinalBBToBB` (829); the PHI nodes behind it take one predecessor's value for
  both. `PhisSeePredecessorUnlessShared` shows that this is the only way in which the
  predecessors go wrong.

### Where exceptions are needed

Three more configurations, with an instance of one or a few modules each, show where the code
breaks a property of a passing run, or one without its exception. They are kept beside the runs; each ends with
a counterexample.

| configuration | property that fails | what it shows |
|---|---|---|
| `MergingPassesWindow.cfg` (`MCDefaultCount`) | `WindowIsReplayed` | a replay with a start that is not 0 and the default count, the greatest `size_t`, stops before its first merge |
| `SimilarFunctionsThunks.cfg` (`MCThunks`) | `ThunksAreNotVisited` | a thunk with two casts is put into a bucket and compared |
| `SimilarFunctionsSelfRef.cfg` (`MCSelfRef`) | `BehaviourIsKept` | a recursive call that passes its own address is lost |

* The end of the replayed window is the sum of start and count in `size_t`
  (MultipleSequenceAlignment.cpp 2644), which wraps around, although the options (121-132) promise
  the rest of the file. `WindowIsReplayedUnlessWrapped` says that nothing is replayed then, and
  that this is the only way to miss a merge of the window.
* A thunk with two casts or more has at least four instructions and may be compared
  (MergeSimilarFunctions.cpp 1159). When its callee is merged, `remove` is called for it: its hash is
  looked up in the vector that is being walked, which gets a new bucket if none has that hash
  (1222), the iterators at 2157 and 2175 notwithstanding; then it is deferred, put into a bucket
  and compared. The comment at 1311-1313 says of a function that was merged that it is deleted or
  converted into a thunk and in either case "should never be visited again".
  `OnlyThunksAddBuckets` shows that nothing but such thunks adds a bucket at the wrong time.
* A recursive call of a similar function that passes the function's own address is added to the
  differing instructions after these were collected (MergeSimilarFunctions.cpp 1984), so no
  conditional is inserted for it, and the merged function makes the call of the first function
  for the second as well.

### Other observations

Met while modelling; each is outside what a run covers, for the reason given.

* With two matches per function, `func-merging` goes on with a function that was merged
  (FunctionMerging.cpp 3480); `AttemptsAreLive` fails then.
* The similarity metric is scaled by 10000 (415) but compared with a percentage
  (`mergesimilarfunc-min-similarity`, 73), so the threshold is hardly ever the one that decides.
* `getMaxSimilarity` (2238) looks at the comparisons whose first function is the candidate
  only, so a better partner that comes first in the bucket is not seen.
* FMSA and FastFM delete bodies without restoring the linkage, so internal functions they
  merge become external (FastFM.cpp 1583, FMSA.cpp 2889); `SymbolsAreKept`
  exempts them from its second half.
* `ManualMergeExploration` reads `Functions[0]` when no function was found (2277).

## 4. Proofs

The theorems hold for all constants that satisfy the named assumptions
(`ExhaustiveAssumption`, `NWAssumption`, `MergedBodyAssumption`, `MatcherAssumption`,
`MatchFinderAssumption`, `MergingPassesAssumption`, `SimilarAssumption`, `TextAssumption`;
`PartitionsAreAllGroupings` and `ParameterLayoutProofs` need none), which TLC
evaluates for the instances. They bound nothing but what is finite in the code anyway:
there are finitely many functions, names of functions are numbers, counts and limits are
natural or positive. `MergedBodyAssumption` says of the source functions what LLVM's verifier
does: a block has instructions, the last of them and no other branches, and only to
blocks of its function (`IsFunction`); and an operation ends a block wherever it occurs
(`OperationsAgree`). `SimilarAssumption` says of a module given to `MergeSimilarFunctions` that
what it refers to exists, that use lists are those of its instructions, and that no function
has several codes yet; `TextAssumption` only that the names the pass writes are strings.

`ExhaustiveExplorationProofs`
: `TypeCorrect`, `Safety` (`LivePlansAreApplicable`), `PointersAreValid`
  (`DependentsMatchQueue`), `NothingLeaks` (`SpeculationIsAccounted`), `Refinement`
  (`ImplementsForest`), `BestPlanFirst` (`AppliesTheBestPlan`). The safety properties are
  not inductive: that a live plan is over candidates needs that work items are made of
  candidates (`WorklistInv`), that the queue holds a plan once and under a name that may
  not be merged itself (`QueueInv`), and that what may be merged was not absorbed
  (`ForestInv`). `IInv` is their conjunction. For `BestPlanFirst` the queue is also
  sorted (`SortedInv`). `ExplorationIsComplete` (`AllCombinationsTried`): before it returns,
  the exploration has offered every combination of up to `MaxNumSelection` functions to the
  planner, unless it had stopped at its limit. `CombinationsInv` says it of the moments
  between: of the combinations of the current function with candidates, those not tried yet
  extend an item of the worklist. `FunctionsAreAbsorbedOnce`: a function that was absorbed
  keeps the function that absorbed it, so no function is ever erased twice.

`NWAlignerProofs`
: `TypeCorrect`, `NoAssertFails`, `AlignmentIsComplete` (`AlignsEveryInstruction`),
  `MatchesAreTrue` (`MatchedEntriesMatch`). The invariant says that every point up to the
  one reached in the order of `advancePointInShape`, and every point on an axis, is
  visited (`VisitedInv`); that an entry's transition stays in the table (`TableInv`); that
  the alignment holds exactly the elements behind the cursor (`BehindCursor`), in order
  (`InOrder`).
  `AlignmentIsBest` (`AlignmentIsOptimal`): no other alignment of the functions scores more.
  A chain is a way to a point through matches and gaps; by induction over the points, the
  computed entry of a point is the best score of a chain that leads there (`BestInv`, with
  `NoChainIsBetter` and `SomeChainIsAsGood`), and tracing back keeps the sum of what is aligned
  and what is left (`ScoreInv`). Its hypothesis `ScoresFit` says that four times the number of
  instructions of the functions is below `MaxScore`: sums of scores saturate there, and the
  best score is lost. With its 2^30 - 1 that leaves room for functions of a quarter of a
  billion instructions together.
  `CursorStaysAtPoint` (`CursorMatchesPoint`): the linear index that `advancePointInShape`
  carries along is that of the point, for any number of functions of any lengths. The stride of a
  function is the product of the lengths before it (`StrideProperties`), and resetting the
  coordinates up to one of them takes off what carrying adds (`AdvancedIndex`).

`MergedBodyProofs`
: `MergedBodyImplementsSource`: called with discriminator `d`, the merged function executes what
  function `d` executes, element by element, for every group of functions and every alignment of
  them that `MatchElement` may put together. This is `ImplementsSource` without its fairness.
  The inductive invariant (`ExecutionIsOnItsWay`) has three parts. `AlignInv`: no element is matched
  twice, and what is matched has as many targets. `BodyInv` says what the three passes over
  the alignment have made so far: an element is in the block of its matched entry, or in one that begins
  with the run of unmatched elements it is in (`NodeIsInterval`), so the elements of a function in a
  block are an interval of one source block, and the block executes that interval (`CodeIs`);
  the branches between blocks, the operands of the terminators and `FinalBBToBB` are functions of
  the alignment. `RunInv` says where control is: about to enter the block of the element that
  follows the last one (`Before`), in it (`Within`), or in a select block on the way (`Selecting`). The
  step of `Leave` rests on `OneExit` and `FollowsEdge` (a function has one branch
  out of a block, so it is taken whether or not `SwitchChainer` needs a switch), and on
  `RunEnds`: a matched return has no branch of any function, because matched elements end their
  blocks alike (`MatchesAgree`).
  `BodyIsTyped` (`TypeOK`) follows from it, and so does `PhisSeeTheirPredecessor`
  (`PhisSeePredecessorUnlessShared`): `FinalBBToBB` gives for the block control came from the source
  block of the terminator that chose, unless that block is a select block which terminators of
  different source blocks share. Without the exception the statement is false, as noted above.

`MatchFinderExplorationProofs`, on `SetPartitions`
: `PartitionsAreAllGroupings`: for every `n` the recursion of `SetPartitions` lists exactly the
  groupings of `n` functions that `AllGroupings` describes. Picked and skipped indices, and the
  groups made so far, are followed through the recursion (`PickLists`, `GroupLists`), by
  induction on what is left to decide.

`MatchFinderExplorationProofs`, on `MatcherLSH`
: the lemmas on the hash buckets: `remove_candidate` erases, although its loop skips an entry after
  each erase, every entry of a function from every bucket its bands lead to (a pass that
  leaves entries leaves fewer, and the matcher makes one per band), and none of any other.

`MatchFinderExplorationProofs`
: `TypeCorrect`, `MatcherFindsCandidates` (`BucketsHoldCandidates`), `RemovalsAreSafe`
  (`RemovalsFindCandidates`), `NoCandidateIsErased` (`CandidatesAreDefined`),
  `NoPlanIsForgotten` (`SpeculationIsAccounted`), `ExplorationIsExhaustive`
  (`AllGroupingsTried`), `MatchFinderImplementsForest` (`ImplementsForest`),
  `FunctionsAreAbsorbedOnce` and
  `MatchFinderComesToAnEnd` (`ComesToAnEnd`, and that its measure is of naturals). None is
  inductive alone. That the functions of a plan are still candidates when it is
  applied needs that they were live and cached while the grouping was explored
  (`FunctionsAreLive`), that F1 and its matches are different, so that the groups of positions
  are disjoint groups of functions (`FunctionsAreDistinct`), and that the merged function of
  a pending plan is no function that a plan is over (`PlansAreSound`). The measure
  decreases when a plan is applied because every plan takes two functions or more, one of them a
  candidate, and adds one. `TriedInOrder` ties the attempts to the list of groupings, of which
  `PartitionsAreAllGroupings` says that it is complete.

`ParameterLayoutProofs`
: `PlacementKeepsLayout`: one step of the loop of `layoutParameters`, whichever free parameter
  it takes, keeps the rows laid out before and adds a fitting place to the current one.
  `PairsReuseAsMany`: the narrower loop of `MergeArguments` finds the same free parameters.
  `LayoutsFit`: every layout of any number of functions with any parameters has a place for
  each parameter and as few parameters as can serve all the functions. A fold is followed through its
  prefixes (`IsLeftFold` of `CommonLemmas`); after each parameter, of every type, the merged function
  has as many as the larger of what it had and what the function has shown so far
  (`IsPlaced`), and after each function as many as the function with the most (`IsLaidOut`).
  `PairsAreLaidOutAlike`: `MergeArguments` and `layoutParameters` have, for two functions,
  exactly the same layouts to choose from.

`MergingPassesProofs`
: `TypeCorrect` (`TypeOK`), about every operation on the module that `ModuleFunctions`,
  `MergePlan` and `PairwiseMerging` define: emitting merged functions and thunks, redirecting
  the calls, erasing. `TypeOK` says less than the operations need: planning looks up parts in
  the module, a remark names functions, the layout has a row per part, the merged function is new.
  `WorkInv` says it of the candidates, the front of the worklist and the ranks; `RemarksInv`
  of the job.
  `WindowIsReplayedInFull` (`WindowIsReplayedUnlessWrapped`): of the remarks of the window, the
  replay carries out every one that says that there was a merge, in order, up to the end it has
  computed (`WindowInv`). That is the end of the window unless the sum wraps around; then it is not
  after the start, and nothing is replayed (`ReplayEndProperties`). The theorem has no hypothesis.
  `EveryStepLeavesLess` and `WorkIsNatural`: every step leaves less work, counted in naturals
  (`WorkLeft`), so a pass comes to an end whatever is planned or merged. An attempt to merge pairs may
  give back the merged function, so functions and attempts count together.
  `ErasedFunctionsAreOnlyCalled` (`OnlyCallsAreReplaced`): `canReplaceCalls` looks at the uses of a
  function when a plan is made, and the function is erased when the plan is applied, with other
  plans made, applied and given up in between. `IsSound` says what the module is like meanwhile:
  no plan is over what another plan has created, the functions of a plan and what it created are
  in the module, nobody takes the address of a function that is to be erased, thunks
  belong to pending plans, and the only declarations that were not there before are what `emit` leaves
  when personalities differ (merged functions without uses). For each operation of `MergePlan` a lemma
  says what it does to the functions that are called and whose address is taken (`Called`, `Taken`),
  and from it that the module stays sound (`SoundAfterPlan`, `SoundAfterDiscard`,
  `SoundAfterApply`). That a plan is not over what another created needs, in an exploration, that
  candidates are no pending merged functions (`ExploreInv`), in a replay, that the front of `Sources`
  is what the plan before made (`ReplayInv`), and in a manual exploration, that both plans are over the
  same functions by name, which are no thunks (`ManualInv`).
  `AttemptsAreOnLiveFunctions` (`AttemptsAreLive`): a pairwise pass attempts to merge functions that
  exist and have code of their own. `PairwiseInv` says it of the candidates as well; a merge
  empties or erases two functions, neither of which stays a candidate, and leaves the others as they
  were but for whom they call, with their parameters (`AfterPair`). Its hypothesis `TriesOnce` says that
  `func-merging` tries one match per function, as it does by default; with two the statement is
  false, as noted above. `NothingStaysBehind` (`NothingIsLeftBehind`) follows from the invariants
  of both kinds of passes, with the same hypothesis.
  `PlansAreLaidOut` (`LayoutsAreSound`): as long as a plan is pending, its merged function and its
  parts keep the parameters `LayoutsFit` speaks of, whatever else is planned, applied or given
  up (`StaysLaidOut`); the signatures of all functions, merged ones and thunks as well, are
  sequences (`HasSignatures`), so whatever is merged next has layouts. It has the hypothesis `TriesOnce`
  because a pair is laid out by the signatures of functions that must still exist.
  `SymbolsStay` (`SymbolsAreKept`): the linker finds an external function under the name of every
  one there was, and no function that was local becomes visible, but for the thunks of pending plans. A
  plan prepares at planning time what applying it needs (`LinksAsParts`): the merged function is
  internal, a thunk is linked as its function is, and a function that will be erased without
  a thunk is not external. `PlanLinks` says that planning establishes this and `LinksStay` that what
  happens to other plans leaves it so; then applying the plan hands each symbol from the function to
  its thunk (`SymbolsAfterApply`), and a pairwise pass leaves external functions where they are.
  The hypothesis is again `TriesOnce`.

`SimilarFunctionsProofs`
: `RegistryIsTyped` (`TypeOK`), `RegistryStaysSound` (`RegistryIsSound`), `NothingWasMissed`
  (`NothingIsMissed`) and `NewBucketsAreForThunks` (`OnlyThunksAddBuckets`), for every module,
  whatever the limits on similarity and size, whatever types are cast, and whether or not the
  rounds end. `NothingIsMissed` speaks of the end of the rounds; what makes it true there is spread over the moments before, and `IInv` (`RegistryInvariant`) says it of
  those. `BucketsAreSound` and `ComparisonsAreSound`: entries have the hash of their bucket, no
  function is twice in the buckets or in a bucket and deferred, and comparisons are those that
  would be made now, all but for functions that were merged as similar ones. `ComparedAreKnown`:
  an entry that was compared matches no entry behind it exactly, and is noted with those it is similar
  to; so what comes back has to come back at the front, which is what `EnqueueKeeps` rests on.
  `PassedAreSettled`: of the buckets the walk has passed, none has anything left to
  compare, unless one entry is left; it is what
  the last round hands to `doDiffMerge`. `HashesAreKnown`: every function of the given module that
  may be compared has a bucket of its hash or is deferred while the queue is emptied. It is why
  `remove` adds no bucket for one while an iterator is inside the vector: a merge changes the
  instructions of functions, but no hash (`SameKind`). Nothing of the kind holds of the thunks it
  makes, which have identities of their own (`GivenIsOlder`). `StrongAreKnown`: no function of the
  given module that is strong and may be compared is lost, it is in a bucket or deferred; and
  nothing is deferred when the rounds have ended (`QueueIsEmpty`). `MergeKeeps` says of any step that changes only
  functions it takes out of the registry that it keeps all of this; `MergeEffect` and
  `WithdrawEffect`, that `mergeTwoFunctions` with `remove` is such a step in each of its three
  cases. That needs the use lists: the functions whose code changes are those the use list of
  the replaced function names (`UsesListed`, `RedirectedModule`, `ErasedModule`, `ThunkedModule`).
  `OutlinedModule` says of `outlineAndMergeFunctions` that the merged function and the thunks are
  well-formed and that only the functions it merges change, `ByMetricProperties` that
  sorting by `SimilarityMetric` and place loses no comparison, and `ChosenProperties` that
  no function is chosen that was merged before.

Induction over data is done with what the provers have: a set of naturals that is not empty
has a least element (`CommonLemmas`), so a statement about all `n` has no least
counterexample. The recursive functions of the models are characterised once by their
defining equation and used through that.

Only model-checked: `Terminates`, `Finishes` and the fairness part of
`ImplementsSource` (liveness; `Finishes` holds only as long as no weak function calls another, as
`similar_functions_endless` shows), of `SimilarFunctions` what the
functions do (`BehaviourIsKept`), and of `MergingPasses` what follows calls, addresses and
symbols through chains of thunks and merged functions (`UsesKeepTheirMeaning`). That `tryPlanWithAllCandidates` (2506) plans a combination of two again
for every candidate it decides not to pick, when merges may have three functions, is a cost
and no property.

## 5. Not modelled

* Instructions: value operands of merged instructions other than calls and addresses,
  landing pads, coalescing of PHI nodes, the code generation of SALSSA and of the older
  passes. They are long case distinctions over LLVM's instruction set, without state of
  their own; `MergedBody` has their control flow.
* Distances: fingerprints and how they rank the matches. The models take any.
* The choice of block pairs by HyFM (`MergedBody` takes any), FMSA's brute-force option.
* The pairwise sequence aligners, planned.
* Cost estimation (any gain is allowed), remarks, options and registration.
* In `MergeSimilarFunctions`: PHI nodes, landing pads, invokes, global aliases; casts of integers
  and of structures, and of addresses that are passed; what a thunk's casts take and give (that a
  thunk with casts does what its callee does is assumed); functions of
  different kinds whose hashes collide; a vector of buckets that moves while it is walked. That no function is
  lost is said of the strong functions of the given module: of two weak functions that match one
  leaves the registry, and a thunk enters it only by way of `remove`.
* `tools/x/*/FunctionMerging.cpp` are copies of other projects' passes fetched by
  `tools/x/Makefile` for comparison. They are not built (`lib/CMakeLists.txt`), and are 15900
  of the 44000 lines of the repository; with the vendored hash table and the cost and printing
  code another large part has no behaviour of its own to state properties of.

## 6. Plan

Done since the first plan: `planMerge` with thunks and call replacement, replay and manual
exploration, the pairwise passes, `MergeSimilarFunctions`, the proofs about `MatchFinderExploration`, the proof that
`MergedBody` executes the source functions, the registry of `SimilarFunctions`, types,
replay, measure, pending plans, pairs, parameter layouts and symbols of `MergingPasses`. What is left, in this order:

1. Proofs about `MergePlan` and `MergingPasses`: `UsesKeepTheirMeaning`,
   from an order of the forwarding paths in which calls go down
   (of the paths and not of the functions: a thunk may be merged with the function it calls).
2. `BehaviourIsKept` of `SimilarFunctions`, by a relation between codes that every merge keeps.
3. HyFM: choice of block pairs, shown to give alignments `MergedBody` admits.
4. The pairwise aligners against optimal references.
