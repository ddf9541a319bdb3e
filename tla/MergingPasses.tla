--------------------------- MODULE MergingPasses ---------------------------
(***************************************************************************)
(* The passes that merge functions, as far as the module they leave behind *)
(* is concerned.  Each takes candidates in an order of its own, merges     *)
(* some of them, and offers the merged function as a candidate again:      *)
(*   "explore"       an exploration of the multiple merge, several plans   *)
(*                   pending at a time (their order is the subject of      *)
(*                   ExhaustiveExploration and MatchFinderExploration)     *)
(*   "replay"        ReplayingMergeExploration: the merges of a remark     *)
(*                   file, a window of it                                  *)
(*   "manual"        ManualMergeExploration: the functions named on the    *)
(*                   command line, planned twice                           *)
(*   "func-merging"  FunctionMerging with MatcherFQ                        *)
(*   "only"          FunctionMerging with MatcherManual                    *)
(*   "fastfm", "fmsa"                                                      *)
(***************************************************************************)
EXTENDS PairwiseMerging, FunctionMeaning, AscendingItems

CONSTANTS
  Jobs,  \* what to run: records [pass, mod, plans, names, remarks, start, count],
         \* plans a bound on those an exploration makes
  MaxMergeSize,          \* ExplorationThreshold + 1 of the multiple merge
  ExplorationThreshold,  \* matches a pairwise pass tries, by pass
  SizeWidth   \* width of size_t in bits

Passes == {"explore", "replay", "manual", "func-merging", "only", "fastfm", "fmsa"}
PairwisePasses == {"func-merging", "only", "fastfm", "fmsa"}

(* The names of the functions that merging creates start with these. *)
ThunkPrefix == <<"__mf_thunk">>
MergePrefix == <<"__mf_merge">>

(* Names are of different functions, and of none without a body. *)
AreNames(m, names) ==
  /\ names \in Seq(Seq(STRING))
  /\ \A i, j \in DOMAIN names : names[i] = names[j] => i = j
  /\ \A f \in DOMAIN m.fns : m.fns[f].name \in Range(names) => ~ IsDeclaration(m.fns[f])

(* A pass over given functions has some, by the names they have in the file. *)
IsJob(j) ==
  /\ j.pass \in Passes
  /\ IsModule(j.mod)
  /\ \A f \in DOMAIN j.mod.fns : ~ IsPrefix(ThunkPrefix, j.mod.fns[f].name)
  /\ j.plans \in Nat
  /\ j.start \in 0 .. 2^SizeWidth - 1 /\ j.count \in 0 .. 2^SizeWidth - 1
  /\ AreNames(j.mod, j.names)
  /\ j.pass = "only" => \E i \in DOMAIN j.names : Named(j.mod, j.names[i]) # {}
  /\ \A i \in DOMAIN j.names : /\ ~ IsPrefix(ThunkPrefix, j.names[i])
                              /\ ~ IsPrefix(MergePrefix, j.names[i])
  /\ j.remarks \in Seq([names : Seq(Seq(STRING)), denied : BOOLEAN, isMerge : BOOLEAN])
  /\ \A i \in DOMAIN j.remarks : AreNames(j.mod, j.remarks[i].names)

ASSUME MergingPassesAssumption ==
  /\ \A j \in Jobs : IsJob(j)
  /\ MaxMergeSize \in Nat \ {0, 1}
  /\ ExplorationThreshold \in [PairwisePasses -> Nat]
  /\ SizeWidth \in Nat /\ 2^SizeWidth \in Nat \ {0}

VARIABLES
  job,         \* the job at hand
  mod,         \* the module
  plans,       \* plans made and neither applied nor discarded
  planned,     \* number of plans made so far
  candidates,  \* functions that may still be merged
  front,       \* merged functions at the front of the worklist; Sources of a replay
  current,     \* F1 of a pairwise pass
  rank,        \* its matches, the next one to try at the end
  trials,      \* MergingTrialsCount
  remarks,     \* remarks of the file not read yet
  count,       \* RemarksCount
  replayed     \* history: the remarks replayed, by their index among the merges

vars == <<job, mod, plans, planned, candidates, front, current, rank, trials,
          remarks, count, replayed>>

replayVars == <<remarks, count, replayed>>
pairVars == <<current, rank, trials>>

Pass == job.pass
IsPairwise == Pass \in PairwisePasses
PairPass == IF Pass = "only" THEN "func-merging" ELSE Pass

Definitions(m) == {f \in DOMAIN m.fns : ~ IsDeclaration(m.fns[f])}

(* The functions of the given names that are in the module. *)
Found(names) ==
  LET there == Items(names, {i \in DOMAIN names : Named(mod, names[i]) # {}})
  IN [i \in DOMAIN there |-> GetFunction(mod, there[i])]

Init ==
  /\ job \in Jobs
  /\ mod = job.mod
  /\ plans = {}
  /\ planned = 0
  /\ candidates = Definitions(job.mod)
  /\ front = <<>>
  /\ current = None
  /\ rank = <<>>
  /\ trials = 0
  /\ remarks = job.remarks
  /\ count = 0
  /\ replayed = {}

-----------------------------------------------------------------------------
(* An exploration plans a merge of some candidates. *)
Plan ==
  /\ Pass = "explore"
  /\ planned < job.plans
  /\ \E S \in {S \in SUBSET candidates : Cardinality(S) \in 2 .. MaxMergeSize} :
       \E parts \in SetToSeqs(S) : \E o \in PlanMerge(mod, parts) :
         /\ mod' = o.mod
         /\ plans' = IF o.plan = NoPlan THEN plans ELSE plans \cup {o.plan}
  /\ planned' = planned + 1
  /\ UNCHANGED <<job, candidates, front, pairVars, replayVars>>

(* It gives a plan up, because it does not pay or shares a function. *)
Discard ==
  /\ Pass = "explore"
  /\ \E p \in plans :
       /\ mod' = DiscardPlan(mod, p)
       /\ plans' = plans \ {p}
  /\ UNCHANGED <<job, planned, candidates, front, pairVars, replayVars>>

(* A plan may be applied: those that share a function with it are gone. *)
IsUncontested(p) == \A q \in plans \ {p} : Parts(q) \cap Parts(p) = {}

(* It applies a plan; the merged function becomes a candidate. *)
Apply ==
  /\ Pass = "explore"
  /\ \E p \in plans :
       /\ IsUncontested(p)
       /\ mod' = ApplyMerge(mod, p)
       /\ plans' = plans \ {p}
       /\ candidates' = (candidates \ Parts(p)) \cup {p.merged}
  /\ UNCHANGED <<job, planned, front, pairVars, replayVars>>

-----------------------------------------------------------------------------
(* ManualMergeExploration plans the functions twice, with different types   *)
(* allowed to match and without, and keeps the better of the two plans.    *)
PlanManually ==
  /\ Pass = "manual"
  /\ planned < job.plans
  /\ \E o \in PlanMerge(mod, Found(job.names)) :
       \/ /\ mod' = o.mod
          /\ plans = {} \/ o.plan = NoPlan
          /\ plans' = IF o.plan = NoPlan THEN plans ELSE {o.plan}
       \/ \E worse \in plans \cup {o.plan} :
            /\ plans # {} /\ o.plan # NoPlan
            /\ mod' = DiscardPlan(o.mod, worse)
            /\ plans' = (plans \cup {o.plan}) \ {worse}
  /\ planned' = planned + 1
  /\ UNCHANGED <<job, candidates, front, pairVars, replayVars>>

ApplyManually ==
  /\ Pass = "manual"
  /\ planned = job.plans
  /\ \E p \in plans : mod' = ApplyMerge(mod, p)
  /\ plans' = {}
  /\ UNCHANGED <<job, planned, candidates, front, pairVars, replayVars>>

-----------------------------------------------------------------------------
(* Bug: the count is taken for the index past the last remark. *)
ReplayEndIgnoresStart == job.count % 2^SizeWidth

(* The index past the last remark to replay, in the arithmetic of size_t. *)
ReplayEnd == (job.start + job.count) % 2^SizeWidth

(* ReplayingMergeExploration::run: the next remark of the file.  A remark   *)
(* is [names, denied, isMerge].                                            *)
SkipRemark ==
  /\ Pass = "replay" /\ Len(front) < 2 /\ remarks # <<>>
  /\ \/ ~ Head(remarks).isMerge /\ count' = count
     \/ Head(remarks).isMerge /\ count < job.start /\ count' = count + 1
  /\ remarks' = Tail(remarks)
  /\ UNCHANGED <<job, mod, plans, planned, candidates, front, pairVars, replayed>>

StopReplay ==
  /\ Pass = "replay" /\ Len(front) < 2 /\ remarks # <<>>
  /\ Head(remarks).isMerge /\ count >= job.start /\ count >= ReplayEnd
  /\ remarks' = <<>>
  /\ UNCHANGED <<job, mod, plans, planned, candidates, front, pairVars, count, replayed>>

ReplayRemark ==
  /\ Pass = "replay" /\ Len(front) < 2 /\ remarks # <<>>
  /\ Head(remarks).isMerge /\ count >= job.start /\ count < ReplayEnd
  /\ remarks' = Tail(remarks)
  /\ count' = count + 1
  /\ replayed' = replayed \cup {count}
  /\ LET found == Found(Head(remarks).names)
     IN front' = IF Head(remarks).denied \/ Len(found) < 2 THEN <<>> ELSE Reverse(found)
  /\ UNCHANGED <<job, mod, plans, planned, candidates, pairVars>>

(* replayMergeWithMaxN: the last functions of Sources are merged, and the   *)
(* merged function takes their place; they are dropped if that fails.      *)
ReplayMerge ==
  /\ Pass = "replay" /\ Len(front) >= 2
  /\ LET n == IF MaxMergeSize < Len(front) THEN MaxMergeSize ELSE Len(front)
         left == SubSeq(front, 1, Len(front) - n)
         taken == Reverse(SubSeq(front, Len(front) - n + 1, Len(front)))
     IN \E o \in PlanMerge(mod, taken) :
          IF o.plan = NoPlan
          THEN mod' = o.mod /\ front' = left
          ELSE mod' = ApplyMerge(o.mod, o.plan) /\ front' = Append(left, o.plan.merged)
  /\ UNCHANGED <<job, plans, planned, candidates, pairVars, replayVars>>

-----------------------------------------------------------------------------
(* The functions F1 may be merged with, by what the ranking asks of them. *)
Matches(f1, others) ==
  {f2 \in others : /\ ValidMergePair(PairPass, mod.fns[f1], mod.fns[f2])
                   /\ ValidMergeTypes(mod.fns[f1], mod.fns[f2])}

(* The next function of the worklist: a merged function, or any of those    *)
(* that are left of the original module, as they were sorted by data the   *)
(* model leaves out.                                                       *)
NextCandidate ==
  /\ Pass \in {"func-merging", "fastfm", "fmsa"}
  /\ rank = <<>>
  /\ candidates # {}
  /\ \E f1 \in IF front = <<>> THEN candidates ELSE {Head(front)} :
       LET matches == Matches(f1, candidates \ {f1})
       IN /\ current' = f1
          /\ candidates' = candidates \ {f1}
          /\ \E S \in SUBSET matches :
               /\ Cardinality(S) <= ExplorationThreshold[Pass]
               /\ rank' \in SetToSeqs(S)
  /\ front' = IF front = <<>> THEN front ELSE Tail(front)
  /\ trials' = 0
  /\ UNCHANGED <<job, mod, plans, planned, replayVars>>

(* MatcherManual hands out the first named function, once. *)
OnlyCandidate ==
  /\ Pass = "only"
  /\ current = None
  /\ current' = Head(Found(job.names))
  /\ rank' = Tail(Found(job.names))
  /\ UNCHANGED <<job, mod, plans, planned, candidates, front, trials, replayVars>>

(* Bug: fastfm and fmsa go on after a success. *)
RankAfterAnyway(success) ==
  IF trials + 1 >= ExplorationThreshold[Pass] THEN <<>> ELSE Front(rank)

(* Trials go on up to the threshold; fastfm and fmsa stop at a success. *)
RankAfter(success) ==
  IF \/ trials + 1 >= ExplorationThreshold[Pass]
     \/ success /\ Pass \in {"fastfm", "fmsa"}
  THEN <<>> ELSE Front(rank)

(* The pair does not merge: it is not valid, not profitable, or its merged  *)
(* function does not emit or verify.                                       *)
RejectPair ==
  /\ IsPairwise
  /\ rank # <<>>
  /\ trials' = trials + 1
  /\ rank' = RankAfter(FALSE)
  /\ UNCHANGED <<job, mod, plans, planned, candidates, front, current, replayVars>>

(* Bug: the second function stays a candidate. *)
RequeueKept(f2) == candidates \cup {mod.next}

(* The candidates after the current function was merged with f2. *)
Requeue(f2) == (candidates \ {f2}) \cup {mod.next}

(* The pair is merged, and the merged function goes to the front of the     *)
(* worklist.                                                               *)
AcceptPair ==
  /\ IsPairwise
  /\ rank # <<>>
  /\ mod' \in MergePair(PairPass, mod, current, Last(rank))
  /\ trials' = trials + 1
  /\ rank' = RankAfter(TRUE)
  /\ IF Pass = "only" THEN UNCHANGED <<candidates, front>>
     ELSE /\ candidates' = Requeue(Last(rank))
          /\ front' = <<mod.next>> \o Items(front, {i \in DOMAIN front : front[i] # Last(rank)})
  /\ UNCHANGED <<job, plans, planned, current, replayVars>>

-----------------------------------------------------------------------------
(* The pass has nothing left to do. *)
Done ==
  CASE Pass = "explore" ->
         plans = {} /\ (planned = job.plans \/ Cardinality(candidates) < 2)
    [] Pass = "manual" -> planned = job.plans /\ plans = {}
    [] Pass = "replay" -> remarks = <<>> /\ Len(front) < 2
    [] Pass = "only" -> current # None /\ rank = <<>>
    [] OTHER -> candidates = {} /\ rank = <<>>

Return == Done /\ UNCHANGED vars

Next ==
  \/ Plan \/ Discard \/ Apply
  \/ PlanManually \/ ApplyManually
  \/ SkipRemark \/ StopReplay \/ ReplayRemark \/ ReplayMerge
  \/ NextCandidate \/ OnlyCandidate \/ RejectPair \/ AcceptPair
  \/ Return

Spec == Init /\ [][Next]_vars

-----------------------------------------------------------------------------
Original == job.mod.fns

TypeOK ==
  /\ job \in Jobs
  /\ DOMAIN mod.fns \subseteq 1 .. mod.next - 1
  /\ planned \in 0 .. job.plans
  /\ candidates \subseteq 1 .. mod.next - 1
  /\ Range(front) \subseteq 1 .. mod.next - 1
  /\ current \in 0 .. mod.next - 1
  /\ count \in 0 .. Len(job.remarks)

(* Whatever was merged, and whatever is only planned: every call runs the   *)
(* code it ran in the original module with the values it had there, every   *)
(* address leads to the code it led to, and so does what the linker finds   *)
(* under the name of an external function.                                  *)
UsesKeepTheirMeaning ==
  /\ \A s \in Sites(mod) : SiteKeepsItsMeaning(mod, s)
  /\ \A r \in Refs(mod) : LeadsTo(mod, r.is, r.was, Original[r.was].sig)
  /\ \A f \in DOMAIN Original : Original[f].linkage = "external" =>
       \E g \in Named(mod, Original[f].name) :
         mod.fns[g].linkage = "external" /\ LeadsTo(mod, g, f, Original[f].sig)

PendingThunks == UNION {Range(p.thunks) : p \in plans}

(* The linker finds every external function under its name; and no other    *)
(* function of the module becomes visible to it, but for the thunks of      *)
(* plans.  (fastfm and fmsa export what they merge.)                        *)
SymbolsAreKept ==
  /\ \A f \in DOMAIN Original : Original[f].linkage = "external" =>
       \E g \in Named(mod, Original[f].name) : mod.fns[g].linkage = "external"
  /\ Pass \notin {"fastfm", "fmsa"} =>
       \A g \in DOMAIN mod.fns \ PendingThunks : ~ IsLocal(mod.fns[g]) =>
         \E f \in DOMAIN Original : /\ Original[f].name = mod.fns[g].name
                                   /\ Original[f].linkage = mod.fns[g].linkage

(* When a plan that erases a function is applied, calls are the only uses   *)
(* of it, as they were when the plan was made.                             *)
OnlyCallsAreReplaced ==
  \A p \in plans : \A f \in ReplacedParts(p) : ~ HasAddressTaken(mod, f)

(* A pairwise pass attempts to merge functions that exist and that no merge *)
(* has emptied yet.                                                        *)
AttemptsAreLive ==
  IsPairwise /\ rank # <<>> =>
    \A f \in Range(rank) \cup {current} :
      f \in DOMAIN mod.fns /\ \E p \in mod.fns[f].body : p.source # None

(* The merged function of a plan has the fewest parameters that serve all   *)
(* its parts, and each parameter of a part has a place of its own; the     *)
(* layouts of a pairwise pass are those the multiple merge chooses from.   *)
LayoutsAreSound ==
  LET sig(f) == mod.fns[f].sig
      sigs(p) == [k \in DOMAIN p.parts |-> sig(p.parts[k])]
  IN /\ \A p \in plans :
          /\ Len(sig(p.merged)) = FewestParameters(sigs(p))
          /\ \A k \in DOMAIN p.parts : RowFits(sig(p.merged), sigs(p)[k], p.rows[k])
     /\ IsPairwise => \A f, g \in DOMAIN mod.fns :
                        PairLayouts(sig(f), sig(g)) = Layouts(<<sig(f), sig(g)>>)

(* Plans come and go without a trace: a thunk is gone, or has taken the     *)
(* name of its function; what a refusal leaves is a declaration nobody     *)
(* uses.                                                                   *)
NothingIsLeftBehind ==
  \A f \in DOMAIN mod.fns \ DOMAIN Original :
    /\ IsPrefix(ThunkPrefix, mod.fns[f].name) => f \in PendingThunks
    /\ IsDeclaration(mod.fns[f]) => Unused(mod, f)

(* A replay that is over has replayed the merges from the start-th on, as   *)
(* many as it was asked for.                                               *)
WindowIsReplayed ==
  Pass = "replay" /\ Done =>
    LET merges == Cardinality({r \in DOMAIN job.remarks : job.remarks[r].isMerge})
    IN replayed = {i \in 0 .. merges - 1 : job.start <= i /\ i < job.start + job.count}

(* It has, unless the end of the window does not fit in a size_t; then it    *)
(* has replayed none.                                                      *)
WindowWraps == job.start + job.count >= 2^SizeWidth

WindowIsReplayedUnlessWrapped ==
  IF WindowWraps THEN replayed = {} ELSE WindowIsReplayed

(* Every step leaves less to do, so a pass comes to its end. *)
Less(a, b) == \E i \in DOMAIN a : a[i] < b[i] /\ \A j \in 1 .. i - 1 : a[j] = b[j]

WorkLeft ==
  <<IF current = None THEN 1 ELSE 0, Len(remarks),
    IF Pass = "replay" THEN Len(front) ELSE Cardinality(candidates),
    Len(rank), job.plans - planned, Cardinality(plans)>>

WorkShrinks == [][Less(WorkLeft', WorkLeft)]_vars
=============================================================================
