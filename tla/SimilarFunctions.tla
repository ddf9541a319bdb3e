-------------------------- MODULE SimilarFunctions --------------------------
(***************************************************************************)
(* MergeSimilarFunctions on one module.  The registry puts the functions    *)
(* into buckets by their hash; exact matches of a bucket are merged at      *)
(* once, similar functions are noted, and every function whose code a       *)
(* merge changes goes back to the queue.  When the queue is empty the       *)
(* similar functions are merged, most similar first.                       *)
(*                                                                         *)
(* The pass is one thread: an action is the handling of one function of     *)
(* one bucket, or of one noted comparison.                                  *)
(***************************************************************************)
EXTENDS FunctionComparator

CONSTANT Given   \* the modules the pass may be given

(* A module as it is read: no function has several codes yet.               *)
ASSUME SimilarAssumption ==
  \A m \in Given : /\ IsModule(m)
                  /\ UsesAreListed(m)
                  /\ \A f \in DOMAIN m.fns : Len(m.fns[f].codes) <= 1

VARIABLES
  given,    \* the module the pass was given
  mod,      \* the module as it is now
  buckets,  \* FunctionsToCompare: <<[hash, fns]>>, fns a list of [f, state]
  deferred, \* Deferred
  comps,    \* FunctionsToMerge, in the order of insertion until it is sorted
  phase,    \* where runOnModule is
  at,       \* the bucket, or the comparison, it is at
  merged    \* MergedFns

vars == <<given, mod, buckets, deferred, comps, phase, at, merged>>

-----------------------------------------------------------------------------
Hashes == {b.hash : b \in Range(buckets)}

(* The buckets, with one for every hash that the functions fs bring         *)
(* (FunctionsToCompare[Hash]).                                             *)
Extended(fs) ==
  LET missing == {n \in DOMAIN fs :
                    /\ Hash(mod.fns[fs[n]]) \notin Hashes
                    /\ \A m \in 1..n - 1 : Hash(mod.fns[fs[m]]) # Hash(mod.fns[fs[n]])}
      added == Items(fs, missing)
  IN buckets \o [n \in DOMAIN added |-> [hash |-> Hash(mod.fns[added[n]]), fns |-> <<>>]]

Touches(comp, f) == f \in {comp.f1, comp.f2}
Partner(comp, f) == IF comp.f1 = f THEN comp.f2 ELSE comp.f1

(* MergeRegistry::remove for each of the functions fs in turn: those at the *)
(* indices again are to be analyzed again, and the comparisons kept stay.   *)
(* The other function of a comparison is deferred for the first of the fs   *)
(* that the comparison is about.  A bucket that is added may move the       *)
(* vector that is being walked; the walk is taken to go on as if it had     *)
(* not.                                                                    *)
Removal(fs, again, kept) ==
  \E gone \in {{f \in Range(fs) : IsComparisonCandidate(mod.fns[f])}} :
  \E bs \in {Extended(Items(fs, {k \in DOMAIN fs : fs[k] \in gone}))} :
    LET first(k) == {n \in DOMAIN comps :
                       /\ Touches(comps[n], fs[k])
                       /\ \A j \in 1..k - 1 : fs[j] \in gone => ~ Touches(comps[n], fs[j])}
        others(k) == LET stale == Items(comps, first(k))
                     IN [j \in DOMAIN stale |-> Partner(stale[j], fs[k])]
        put(k) == IF fs[k] \notin gone THEN <<>>
                  ELSE (IF k \in again THEN <<fs[k]>> ELSE <<>>) \o others(k)
        partners == {Partner(p[1], p[2]) :
                       p \in {q \in Range(comps) \X gone : Touches(q[1], q[2])}}
        left(entries) == Items(entries, {k \in DOMAIN entries : entries[k].f \notin gone \cup partners})
    IN /\ buckets' = [b \in DOMAIN bs |-> [hash |-> bs[b].hash, fns |-> left(bs[b].fns)]]
       /\ deferred' = deferred \o FlattenSeq([k \in DOMAIN fs |-> put(k)])
       /\ comps' = Items(comps, {n \in DOMAIN comps : comps[n] \in kept})

(* The comparisons that are about none of the functions removed. *)
Untouched(fs) ==
  {c \in Range(comps) :
     \A f \in Range(fs) : IsComparisonCandidate(mod.fns[f]) => ~ Touches(c, f)}

(* Bug: comparisons outlive a change of their functions. *)
WithdrawKeepingComparisons(fs) == Removal(fs, 2 .. Len(fs), Range(comps))

(* Bug: a merged function is analyzed again. *)
WithdrawAndReanalyze(fs) == Removal(fs, DOMAIN fs, Untouched(fs))

(* The first of the fs was merged into; the others are its users, whose     *)
(* calls were redirected and who are to be analyzed again.                  *)
Withdraw(fs) == Removal(fs, 2 .. Len(fs), Untouched(fs))

-----------------------------------------------------------------------------
Init ==
  /\ given \in Given
  /\ mod = given
  /\ buckets = <<>>
  /\ deferred = Ascending({f \in DOMAIN given.fns : IsComparisonCandidate(given.fns[f])})
  /\ comps = <<>>
  /\ phase = "enqueue"
  /\ at = 1
  /\ merged = {}

(* The deferred functions that are still there, in the order of their last  *)
(* mentions, the last one first.                                           *)
Waiting ==
  Reverse(Items(deferred,
    {k \in DOMAIN deferred :
       /\ deferred[k] \in DOMAIN mod.fns
       /\ IsComparisonCandidate(mod.fns[deferred[k]])
       /\ \A j \in k + 1..Len(deferred) : deferred[j] # deferred[k]}))

(* Those of the functions fs that have the hash, the last one first, as new *)
(* entries of a bucket.                                                    *)
Arriving(fs, hash) ==
  LET own == {n \in DOMAIN fs : Hash(mod.fns[fs[n]]) = hash}
  IN [k \in 1..Cardinality(own) |-> [f |-> Reverse(Items(fs, own))[k], state |-> "new"]]

(* Bug: functions are put behind those compared before. *)
EnqueueAtBack ==
  /\ phase = "enqueue"
  /\ \E fs \in {Waiting} : \E bs \in {Extended(fs)} :
       buckets' = [b \in DOMAIN bs |->
                     [hash |-> bs[b].hash, fns |-> bs[b].fns \o Arriving(fs, bs[b].hash)]]
  /\ deferred' = <<>>
  /\ phase' = "strong"
  /\ at' = 1
  /\ UNCHANGED <<given, mod, comps, merged>>

(* MergeRegistry::enqueue: each in front of its bucket.                     *)
Enqueue ==
  /\ phase = "enqueue"
  /\ \E fs \in {Waiting} : \E bs \in {Extended(fs)} :
       buckets' = [b \in DOMAIN bs |->
                     [hash |-> bs[b].hash, fns |-> Arriving(fs, bs[b].hash) \o bs[b].fns]]
  /\ deferred' = <<>>
  /\ phase' = "strong"
  /\ at' = 1
  /\ UNCHANGED <<given, mod, comps, merged>>

(* The bucket the pass is at, if it is to be processed in this phase.       *)
Bucket == buckets[at].fns

Processing ==
  /\ phase \in {"strong", "weak"}
  /\ at \in DOMAIN buckets
  /\ Len(Bucket) >= 2
  /\ Strength(mod.fns[Bucket[1].f]) = phase

(* The first function of the bucket that has not been compared yet, and the *)
(* functions after it.                                                     *)
Fresh == {k \in DOMAIN Bucket : Bucket[k].state = "new"}
New == Min(Fresh)
Later == {k \in DOMAIN Bucket : k > New}
Exact == {k \in Later : IsExactMatch(mod, Bucket[New].f, Bucket[k].f)}

(* removeUsers goes from a constant that casts g to the instructions that   *)
(* call it and then to theirs: it notices those of the functions, in any    *)
(* order, that use what a call returns.                                    *)
Noticed(g) == UNION {SetToSeqs(some) : some \in SUBSET CastUsers(mod, g)}

(* mergeTwoFunctions: f takes the place of g, its exact match.              *)
Users(uses) == [k \in DOMAIN uses |-> uses[k].by]

(* writeThunk: g can be erased once its calls are redirected. *)
CanErase(g) ==
  /\ IsLocal(mod.fns[g])
  /\ OtherUses(mod, g) = <<>>
  /\ g \notin Range(mod.data) \cup mod.casts

EquivMerge(f, g) ==
  \E callers \in {Users(DirectCalls(mod, g))} : \E others \in {Users(OtherUses(mod, g))} :
  \E redirected \in {RedirectCalls(mod, g, f)} :
     \/ /\ IsInterposable(mod.fns[f])   \* both stay, and only f is called
        /\ mod' = redirected
        /\ Withdraw(<<g>> \o callers)
     \/ /\ ~ IsInterposable(mod.fns[f])
        /\ CanErase(g)
        /\ mod' = Erased(redirected, g)
        /\ Withdraw(<<g>> \o callers)
     \/ /\ ~ IsInterposable(mod.fns[f])
        /\ ~ CanErase(g)
        /\ mod' = WithThunk(redirected, f, g)
        /\ \E noticed \in Noticed(g) : Withdraw(<<g>> \o callers \o others \o noticed)

MergeExact ==
  /\ Processing
  /\ Fresh # {}
  /\ Exact # {}
  /\ \E f \in {Bucket[New].f} : \E g \in {Bucket[Min(Exact)].f} : EquivMerge(f, g)
  /\ UNCHANGED <<given, phase, at, merged>>

RecordCandidates ==
  /\ Processing
  /\ Fresh # {}
  /\ Exact = {}
  /\ LET f == Bucket[New].f
         similar == Ascending({k \in Later : IsMergeCandidate(mod, f, Bucket[k].f)})
     IN comps' = comps \o [n \in DOMAIN similar |-> Comparison(mod, f, Bucket[similar[n]].f)]
  /\ buckets' = [buckets EXCEPT ![at] =
                   [hash |-> @.hash,
                    fns |-> [Bucket EXCEPT ![New] = [f |-> Bucket[New].f, state |-> "compared"]]]]
  /\ UNCHANGED <<given, mod, deferred, phase, at, merged>>

(* The comparisons at the positions I, the most similar first, and those    *)
(* with the same metric by the place of their positions.                    *)
ByMetric(I, place) ==
  LET metric(k) == SimilarityMetric(comps[k])
      before(j, k) == \/ metric(j) > metric(k)
                      \/ metric(j) = metric(k) /\ place[j] < place[k]
  IN [n \in 1..Cardinality(I) |->
        comps[CHOOSE k \in I : Cardinality({j \in I : before(j, k)}) = n - 1]]

(* The list of comparisons is sorted when the last round has ended.         *)
NextBucket ==
  /\ phase \in {"strong", "weak"}
  /\ ~ (Processing /\ Fresh # {})
  /\ IF at < Len(buckets) THEN at' = at + 1 /\ UNCHANGED <<comps, phase>>
     ELSE /\ at' = 1
          /\ phase' = CASE phase = "strong" -> "weak"
                        [] phase = "weak" /\ deferred # <<>> -> "enqueue"
                        [] OTHER -> "diff"
          /\ comps' = IF phase' = "diff" THEN ByMetric(DOMAIN comps, [k \in DOMAIN comps |-> k])
                                         ELSE comps
  /\ UNCHANGED <<given, mod, buckets, deferred, merged>>

-----------------------------------------------------------------------------
(* SimilarFunctions[f]: the comparisons of f with others, the most similar  *)
(* first, and of two the one that was made later.                          *)
SimilarTo(f) ==
  ByMetric({k \in DOMAIN comps : comps[k].f1 = f}, [k \in DOMAIN comps |-> - k])

MaxSimilarity(f, ignore) ==
  LET similar == SimilarTo(f)
      open == {k \in DOMAIN similar : similar[k].f2 \notin ignore}
  IN IF open = {} THEN 0 ELSE SimilarityMetric(similar[Min(open)])

(* Those of the comparisons cs of one function that it is merged by; those  *)
(* that are done grow as they are chosen.                                  *)
Chosen(cs) ==
  LET upto[n \in 0..Len(cs)] ==
        IF n = 0 THEN <<>>
        ELSE LET taken == upto[n - 1]
                 done == merged \cup {c.f2 : c \in Range(taken)}
             IN IF cs[n].f2 \in done \/ MaxSimilarity(cs[n].f2, done) > SimilarityMetric(cs[n])
                THEN taken ELSE Append(taken, cs[n])
  IN upto[Len(cs)]

DiffMerge ==
  /\ phase = "diff"
  /\ at \in DOMAIN comps
  /\ \E comp \in {comps[at]} : \E similar \in {SimilarTo(comp.f1)} : \E chosen \in {Chosen(similar)} :
        IF {comp.f1, comp.f2} \cap merged # {} \/ chosen = <<>>
        THEN UNCHANGED <<mod, merged>>
        ELSE /\ mod' = OutlineAndMerge(mod, chosen)
             /\ merged' = merged \cup {comp.f1} \cup {c.f2 : c \in Range(chosen)}
  /\ at' = at + 1
  /\ UNCHANGED <<given, buckets, deferred, comps, phase>>

Return ==
  /\ phase = "diff"
  /\ at \notin DOMAIN comps
  /\ phase' = "done"
  /\ UNCHANGED <<given, mod, buckets, deferred, comps, at, merged>>

Done == phase = "done" /\ UNCHANGED vars

Next == Enqueue \/ MergeExact \/ RecordCandidates \/ NextBucket \/ DiffMerge \/ Return \/ Done

(* The pass is called once and runs until it returns.                       *)
Spec == Init /\ [][Next]_vars /\ WF_vars(Next)

-----------------------------------------------------------------------------
(* The module refers to functions that exist, its use lists, as long as     *)
(* they are followed, to the instructions that do refer to them, and the    *)
(* buckets and the set of merged functions to functions that exist.  What   *)
(* is deferred may have been erased since (WeakVH).                        *)
TypeOK ==
  /\ IsModule(mod)
  /\ phase \in {"diff", "done"} \/ UsesAreListed(mod)
  /\ \A b \in Range(buckets) : \A e \in Range(b.fns) :
       e.f \in DOMAIN mod.fns /\ e.state \in {"new", "compared"}
  /\ Range(deferred) \subseteq 1..mod.next - 1
  /\ merged \subseteq DOMAIN mod.fns
  /\ phase \in {"enqueue", "strong", "weak", "diff", "done"}

(***************************************************************************)
(* What the functions do.  An entry of a module is a function and a choice; *)
(* thunks are seen through.  An entry of the given module and one of the    *)
(* module as it is now behave alike if they are related by a relation that  *)
(* related instructions keep: same operation, the same symbol where an      *)
(* address is passed, related functions where one is called.               *)
(***************************************************************************)
Calls(code) == {i \in Range(code) : i.op = "forward"}
IsForward(code) == Cardinality(Calls(code)) = 1 /\ \A i \in Range(code) : i.op \in {"forward", "cast"}
ForwardedTo(code) == CHOOSE i \in Calls(code) : TRUE

EntryCode(m, e) == IF e[2] + 1 \in DOMAIN m.fns[e[1]].codes
                   THEN m.fns[e[1]].codes[e[2] + 1] ELSE <<>>

Resolve(m, entry) ==
  LET through[n \in 0..Cardinality(DOMAIN m.fns)] ==
        IF n = 0 THEN entry
        ELSE LET e == through[n - 1]
                 code == EntryCode(m, e)
             IN IF IsForward(code) THEN <<ForwardedTo(code).callee, ForwardedTo(code).choice>> ELSE e
  IN through[Cardinality(DOMAIN m.fns)]

Callees(p) ==
  LET G == EntryCode(given, p[1])
      M == EntryCode(mod, p[2])
  IN UNION {{<<Resolve(given, <<G[k].callee, 0>>), Resolve(mod, <<M[k].callee, M[k].choice>>)>>
               : x \in IF None \in {G[k].callee, M[k].callee} THEN {} ELSE {1}}
             \cup {<<Resolve(given, <<G[k].arg, 0>>), Resolve(mod, <<M[k].arg, 0>>)>>
               : x \in IF None \in {G[k].arg, M[k].arg} THEN {} ELSE {1}}
             : k \in DOMAIN G \cap DOMAIN M}

(* The pairs reached from the given ones through any calls. *)
Reached(ps) ==
  LET most == Cardinality(DOMAIN given.fns) * Cardinality(DOMAIN mod.fns)
      within[n \in 0..most] ==
        IF n = 0 THEN ps
        ELSE UNION {{p} \cup Callees(p) : p \in within[n - 1]}
  IN within[most]

SymbolName(m, f) == IF f = None THEN <<>> ELSE m.fns[f].name

ActAlike(p) ==
  LET G == EntryCode(given, p[1])
      M == EntryCode(mod, p[2])
  IN /\ Len(G) = Len(M)
     /\ \A k \in DOMAIN G :
          /\ G[k].op = M[k].op
          /\ (G[k].callee = None) = (M[k].callee = None)
          /\ SymbolName(given, G[k].arg) = SymbolName(mod, M[k].arg)

(* What the outside can name: functions that are not internal, by name, and *)
(* what the data refers to.                                                *)
Visible == {f \in DOMAIN given.fns : ~ IsLocal(given.fns[f])} \cup Range(given.data)
Now(f) == {g \in DOMAIN mod.fns : mod.fns[g].name = given.fns[f].name}

(* Whatever is merged into whatever, in whichever order: every symbol and   *)
(* every function whose address the data holds still exists, under its      *)
(* name and linkage, and does what it did, through all the functions it     *)
(* calls (mergeTwoFunctions, outlineAndMergeFunctions).                     *)
BehaviourIsKept ==
  /\ \A f \in Visible : \E g \in Now(f) : mod.fns[g].linkage = given.fns[f].linkage
  /\ \A s \in DOMAIN given.data : mod.data[s] \in Now(given.data[s])
  /\ LET roots == {<<Resolve(given, <<q[1], 0>>), Resolve(mod, <<q[2], 0>>)>>
                     : q \in {r \in Visible \X DOMAIN mod.fns : r[2] \in Now(r[1])}}
     IN \A p \in Reached(roots) : ActAlike(p)

(* A function of the given module that can be merged into a thunk.  Of      *)
(* weak functions that match, one is given up, and thunks are registered    *)
(* only if a later merge rewrites them.                                    *)
IsStrongCandidate(f) ==
  /\ f \in DOMAIN given.fns \cap DOMAIN mod.fns
  /\ IsComparisonCandidate(mod.fns[f]) /\ ~ IsInterposable(mod.fns[f])

Registered == {e.f : e \in UNION {Range(b.fns) : b \in Range(buckets)}}

(* The registry speaks of the functions as they are: a bucket holds         *)
(* existing functions of its hash; no function waits twice in the buckets,  *)
(* or is compared with others when it waits to be compared again, and no    *)
(* strong one is lost from both; and a noted comparison is what comparing   *)
(* the two would give now, or a merge would copy instructions that are gone *)
(* (MergeRegistry::remove).                                                *)
RegistryIsSound ==
  /\ \A a, b \in DOMAIN buckets : a # b => buckets[a].hash # buckets[b].hash
  /\ \A b \in Range(buckets) :
       /\ \A e \in Range(b.fns) : /\ IsComparisonCandidate(mod.fns[e.f]) \/ e.f \in merged
                                  /\ Hash(mod.fns[e.f]) = b.hash \/ e.f \in merged
       /\ \A j, k \in DOMAIN b.fns : j # k => b.fns[j].f # b.fns[k].f
       /\ \A e \in Range(b.fns) : e.f \notin Range(deferred)
  /\ \A f \in DOMAIN mod.fns : IsStrongCandidate(f) => f \in Registered \cup Range(deferred)
  /\ \A c \in Range(comps) :
       \/ {c.f1, c.f2} \cap merged # {}
       \/ /\ {c.f1, c.f2} \subseteq DOMAIN mod.fns
          /\ c = Comparison(mod, c.f1, c.f2)

(* When the merging of similar functions begins, nothing was overlooked:    *)
(* every strong function is in a bucket, no two functions of a bucket match *)
(* exactly, and every two that are similar have been noted (mergeBucket     *)
(* marks functions as compared, and remove and enqueue bring back those     *)
(* that changed).                                                          *)
NothingIsMissed ==
  phase = "diff" /\ merged = {} =>
    /\ \A f \in DOMAIN mod.fns : IsStrongCandidate(f) => f \in Registered
    /\ \A b \in Range(buckets) : \A j, k \in DOMAIN b.fns :
         j < k => LET f == b.fns[j].f
                      g == b.fns[k].f
                  IN /\ ~ IsExactMatch(mod, f, g)
                     /\ IsMergeCandidate(mod, f, g) => \E c \in Range(comps) : {c.f1, c.f2} = {f, g}

(* The buckets are walked by an iterator of a vector: while they are,       *)
(* remove, which looks a bucket up by operator[], adds none on behalf of    *)
(* the functions the pass was given, however their calls are rewritten; a   *)
(* bucket that is added is that of a thunk with enough casts                *)
(* (doExhaustiveCompareMerge, profileFunction).                             *)
OnlyThunksAddBuckets ==
  [][phase # "enqueue" =>
       \A b \in DOMAIN buckets' \ DOMAIN buckets :
         \E f \in DOMAIN mod.fns \ DOMAIN given.fns : Hash(mod.fns[f]) = buckets'[b].hash]_vars

(* "G may be deleted, or may be converted into a thunk. In either case, it   *)
(* should never be visited again": no thunk is ever in a bucket             *)
(* (mergeTwoFunctions).                                                    *)
ThunksAreNotVisited ==
  \A b \in Range(buckets) : \A e \in Range(b.fns) : e.f \in DOMAIN given.fns

(* The pass returns: functions that go back to the queue because a merge    *)
(* changed them do not keep each other there for ever (runOnModule).        *)
Finishes == <>(phase = "done")
=============================================================================
