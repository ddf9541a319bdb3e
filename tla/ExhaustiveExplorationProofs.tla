-------------------- MODULE ExhaustiveExplorationProofs --------------------
(***************************************************************************)
(* Proofs about ExhaustiveExploration for every number of functions, every *)
(* merge size, every threshold and every set of gains.                     *)
(***************************************************************************)
EXTENDS ExhaustiveExploration, CommonLemmas

(***************************************************************************)
(* The inductive invariant.                                                *)
(***************************************************************************)

(* Nothing is under way between two explorations, and what is explored is  *)
(* built from the new function and the candidates.                         *)
WorklistInv ==
  /\ exploring = None => worklist = << >>
  /\ candidates \subseteq 1 .. created
  /\ exploring # None => exploring \in 1 .. created
  /\ \A k \in DOMAIN worklist :
       /\ worklist[k].functions \subseteq candidates \cup {exploring}
       /\ worklist[k].rest \subseteq candidates

(* The queue holds every plan once.  A plan merges several functions, and  *)
(* its merged function is not a function that may still be merged: the     *)
(* pass has not seen it yet.                                               *)
QueueInv ==
  /\ NumSources <= created
  /\ \A i, j \in DOMAIN queue : queue[i] = queue[j] => i = j
  /\ \A p \in ToSet(queue) :
       /\ p \in 1 .. created
       /\ p \notin Mergeable
       /\ Cardinality(parts[p]) > 1

(* What may still be merged has not been absorbed; neither have the        *)
(* functions of queued plans, nor those that do not exist yet.             *)
ForestInv ==
  /\ \A f \in Mergeable : absorbedBy[f] = f
  /\ \A p \in ToSet(queue) : absorbedBy[p] = p
  /\ \A f \in Fn : f > created => absorbedBy[f] = f

(* A plan is marked dead after it was created. *)
DeadInv == dead \subseteq 1 .. created

IInv ==
  /\ TypeOK
  /\ WorklistInv
  /\ QueueInv
  /\ LivePlansAreApplicable
  /\ DependentsMatchQueue
  /\ SpeculationIsAccounted
  /\ ForestInv
  /\ DeadInv

-----------------------------------------------------------------------------
(***************************************************************************)
(* Type correctness                                                        *)
(***************************************************************************)
LEMMA Constants ==
  /\ Source \subseteq Fn
  /\ None \notin Fn
  /\ NumSources \in Fn
  /\ NumSources \in Nat /\ MaxFunctions \in Nat
  BY ExhaustiveAssumption DEF Source, Fn, None

LEMMA TypeInit == Init => TypeOK
  <1>1. << >> \in Seq(Fn) /\ << >> \in Seq(Work) /\ << >> \in Seq(SUBSET Fn)
    OBVIOUS
  <1>2. 1 \in 1 .. NumSources + 1 /\ NumSources \in Nat /\ NumSources <= MaxFunctions
    BY ExhaustiveAssumption
  <1> SUFFICES ASSUME Init PROVE TypeOK
    OBVIOUS
  <1>3. /\ nextSource \in 1 .. NumSources + 1
        /\ created \in Nat /\ created <= MaxFunctions
        /\ arrivals \in Nat /\ iteration \in Nat /\ done \in BOOLEAN
    BY <1>2 DEF Init
  <1>4. queue \in Seq(Fn) /\ worklist \in Seq(Work) /\ tried \in Seq(SUBSET Fn)
    BY <1>1 DEF Init
  <1>5. /\ arrival \in [Fn -> Nat]
        /\ parts \in [Fn -> SUBSET Fn]
        /\ gain \in [Fn -> Int]
        /\ dependents \in [Fn -> SUBSET Fn]
        /\ absorbedBy \in [Fn -> Fn]
    BY DEF Init
  <1>6. /\ candidates \in SUBSET Fn
        /\ dead \in SUBSET Fn
        /\ speculative \in SUBSET Fn
        /\ exploring \in Fn \cup {None}
    BY DEF Init
  <1>7. QED BY <1>3, <1>4, <1>5, <1>6 DEF TypeOK

(* A work list of one item, and of an item's children. *)
LEMMA StartIsTyped ==
  ASSUME NEW f \in Fn, NEW C \in SUBSET Fn
  PROVE  << [functions |-> {f}, rest |-> C] >> \in Seq(Work)
  BY DEF Work

LEMMA BranchesTyped ==
  ASSUME NEW w \in Work, NEW b \in Branches(w)
  PROVE  b \in Seq(Work)
  <1>1. CASE b = << >>
    BY <1>1
  <1>2. ASSUME NEW c \in w.rest,
               b = << [functions |-> w.functions \cup {c}, rest |-> w.rest \ {c}],
                      [functions |-> w.functions, rest |-> w.rest \ {c}] >>
        PROVE  b \in Seq(Work)
    <2>1. [functions |-> w.functions \cup {c}, rest |-> w.rest \ {c}] \in Work
      BY DEF Work
    <2>2. [functions |-> w.functions, rest |-> w.rest \ {c}] \in Work
      BY DEF Work
    <2>3. QED BY <1>2, <2>1, <2>2
  <1>3. QED BY <1>1, <1>2 DEF Branches

LEMMA PopWorkTyped ==
  ASSUME TypeOK, PopWork
  PROVE  /\ worklist' \in Seq(Work)
         /\ tried' \in Seq(SUBSET Fn)
         /\ Last(worklist) \in Work
         /\ Last(worklist).functions \in SUBSET Fn
  <1>1. worklist \in Seq(Work) /\ worklist # << >> /\ tried \in Seq(SUBSET Fn)
    BY DEF TypeOK, PopWork
  <1>2. Last(worklist) \in Work /\ Front(worklist) \in Seq(Work)
    BY <1>1, FrontProperties
  <1>3. Last(worklist).functions \in SUBSET Fn
    BY <1>2 DEF Work
  <1>4. PICK b \in Branches(Last(worklist)) : worklist' = Front(worklist) \o b
    BY DEF PopWork
  <1>5. b \in Seq(Work)
    BY <1>2, BranchesTyped
  <1>6. worklist' \in Seq(Work)
    BY <1>2, <1>4, <1>5, ConcatProperties
  <1>7. tried' \in Seq(SUBSET Fn)
    BY <1>1, <1>3, AppendProperties DEF PopWork
  <1>8. QED BY <1>2, <1>3, <1>6, <1>7

LEMMA ErasePlanTyped ==
  ASSUME TypeOK, queue # << >>, ErasePlan(Last(queue))
  PROVE  /\ queue' \in Seq(Fn)
         /\ dead' \in SUBSET Fn
         /\ dependents' \in [Fn -> SUBSET Fn]
         /\ Last(queue) \in Fn
         /\ MarkDeadPlans(Last(queue)) \in SUBSET Fn
  <1>1. Last(queue) \in Fn /\ Front(queue) \in Seq(Fn)
    BY FrontProperties DEF TypeOK
  <1>2. parts[Last(queue)] \in SUBSET Fn
    BY <1>1 DEF TypeOK
  <1>3. MarkDeadPlans(Last(queue)) \in SUBSET Fn
    BY <1>2 DEF TypeOK, MarkDeadPlans
  <1>4. QED BY <1>1, <1>3 DEF ErasePlan, TypeOK

LEMMA TypeNext == TypeOK /\ [Next]_vars => TypeOK'
  <1> SUFFICES ASSUME TypeOK, [Next]_vars PROVE TypeOK'
    OBVIOUS
  <1>1. CASE ExploreSource
    <2>1. nextSource \in Fn /\ candidates \in SUBSET Fn
      BY <1>1, Constants DEF ExploreSource, TypeOK
    <2>2. worklist' \in Seq(Work) /\ tried' \in Seq(SUBSET Fn) /\ exploring' \in Fn
      BY <1>1, <2>1, StartIsTyped DEF ExploreSource, StartExploring
    <2>3. nextSource' \in 1 .. NumSources + 1
      BY <1>1, Constants DEF ExploreSource, Source
    <2>4. QED
      BY <1>1, <2>2, <2>3 DEF ExploreSource, TypeOK, candidateVars, planVars
  <1>2. CASE WorkWithoutPlan
    <2>1. PopWork /\ UNCHANGED planVars
      BY <1>2 DEF WorkWithoutPlan
    <2>2. QED
      BY <2>1, PopWorkTyped DEF PopWork, TypeOK, candidateVars, planVars
  <1>3. CASE PlanWork
    <2>1. PICK g \in Gains, i \in 1 .. Len(queue) + 1 : WorkWithPlan(g, i)
      BY <1>3 DEF PlanWork
    <2>2. PopWork
      BY <2>1 DEF WorkWithPlan
    <2>3. created' \in Fn /\ created' \in Nat /\ created' <= MaxFunctions
      BY <2>1, Constants DEF WorkWithPlan, TypeOK, Fn
    <2>4. queue' \in Seq(Fn)
      BY <2>1, <2>3, InsertAtProperties DEF WorkWithPlan, TypeOK
    <2>5. gain' \in [Fn -> Int]
      BY <2>1, <2>3, ExhaustiveAssumption DEF WorkWithPlan, TypeOK
    <2>6. parts' \in [Fn -> SUBSET Fn]
      BY <2>1, <2>2, <2>3, PopWorkTyped DEF WorkWithPlan, TypeOK
    <2>7. dependents' \in [Fn -> SUBSET Fn] /\ speculative' \in SUBSET Fn
      BY <2>1, <2>3 DEF WorkWithPlan, TypeOK
    <2>8. QED
      BY <2>1, <2>2, <2>3, <2>4, <2>5, <2>6, <2>7, PopWorkTyped
      DEF WorkWithPlan, PopWork, TypeOK, candidateVars
  <1>4. CASE FinishExploring
    <2>1. exploring \in Fn
      BY <1>4 DEF FinishExploring, TypeOK
    <2>2. /\ candidates' \in SUBSET Fn
          /\ arrivals' \in Nat
          /\ arrival' \in [Fn -> Nat]
          /\ exploring' \in Fn \cup {None}
          /\ iteration' \in Nat
          /\ done' \in BOOLEAN
      BY <1>4, <2>1 DEF FinishExploring, TypeOK
    <2>3. tried' \in Seq(SUBSET Fn)
      BY <1>4 DEF FinishExploring
    <2>4. QED BY <1>4, <2>2, <2>3 DEF FinishExploring, TypeOK, planVars
  <1>5. CASE DropDeadPlan
    <2>1. queue # << >> /\ ErasePlan(Last(queue))
      BY <1>5 DEF DropDeadPlan
    <2>2. speculative' \in SUBSET Fn
      BY <1>5 DEF DropDeadPlan, TypeOK
    <2>3. UNCHANGED <<parts, gain, created>>
      BY <2>1 DEF ErasePlan
    <2>4. QED
      BY <1>5, <2>1, <2>2, <2>3, ErasePlanTyped DEF DropDeadPlan, TypeOK, candidateVars
  <1>6. CASE ApplyBestPlan
    <2>1. queue # << >> /\ ErasePlan(Last(queue))
      BY <1>6 DEF ApplyBestPlan
    <2>2. /\ speculative' \in SUBSET Fn
          /\ candidates' \in SUBSET Fn
          /\ absorbedBy' \in [Fn -> Fn]
      BY <1>6, <2>1, ErasePlanTyped DEF ApplyBestPlan, TypeOK
    <2>3. UNCHANGED <<parts, gain, created>>
      BY <2>1 DEF ErasePlan
    <2>4. worklist' \in Seq(Work) /\ tried' \in Seq(SUBSET Fn) /\ exploring' \in Fn
      BY <1>6, <2>1, <2>2, ErasePlanTyped, StartIsTyped DEF ApplyBestPlan, StartExploring
    <2>5. QED
      BY <1>6, <2>1, <2>2, <2>3, <2>4, ErasePlanTyped DEF ApplyBestPlan, TypeOK
  <1>7. CASE StopExploring
    BY <1>7 DEF StopExploring, TypeOK, candidateVars, planVars
  <1>8. CASE UNCHANGED vars
    BY <1>8 DEF vars, TypeOK
  <1>9. QED
    BY <1>1, <1>2, <1>3, <1>4, <1>5, <1>6, <1>7, <1>8 DEF Next

(* The state of the exploration is well formed in every reachable state. *)
THEOREM TypeCorrect == Spec => []TypeOK
  BY TypeInit, TypeNext, PTL DEF Spec

-----------------------------------------------------------------------------
(***************************************************************************)
(* The inductive invariant                                                 *)
(***************************************************************************)
LEMMA InvInit == Init => IInv
  <1> SUFFICES ASSUME Init PROVE IInv
    OBVIOUS
  <1>1. TypeOK
    BY TypeInit
  <1>2. ToSet(queue) = {} /\ DOMAIN queue = {} /\ DOMAIN worklist = {}
    BY DEF Init, ToSet
  <1>3. Mergeable = 1 .. NumSources
    BY DEF Init, Mergeable, None
  <1>4. WorklistInv /\ QueueInv
    BY <1>2, Constants DEF Init, WorklistInv, QueueInv
  <1>5. ForestInv
    BY <1>2, <1>3, Constants DEF Init, ForestInv, Source
  <1>6. LivePlansAreApplicable /\ DependentsMatchQueue /\ SpeculationIsAccounted
    BY <1>2 DEF Init, LivePlansAreApplicable, DependentsMatchQueue,
                SpeculationIsAccounted, Live
  <1>7. DeadInv
    BY DEF Init, DeadInv
  <1>8. QED BY <1>1, <1>4, <1>5, <1>6, <1>7 DEF IInv

(* A popped item, and the items it is replaced by, are built from what the *)
(* item was built from.                                                    *)
LEMMA PopWorkInv ==
  ASSUME TypeOK, WorklistInv, PopWork
  PROVE  /\ Last(worklist).functions \subseteq candidates \cup {exploring}
         /\ \A k \in DOMAIN worklist' :
              /\ worklist'[k].functions \subseteq candidates \cup {exploring}
              /\ worklist'[k].rest \subseteq candidates
  <1> DEFINE Good(w) == /\ w.functions \subseteq candidates \cup {exploring}
                        /\ w.rest \subseteq candidates
             w == Last(worklist)
  <1>1. worklist \in Seq(Work) /\ worklist # << >>
    BY DEF TypeOK, PopWork
  <1>2. /\ Front(worklist) \in Seq(Work)
        /\ Len(Front(worklist)) = Len(worklist) - 1
        /\ \A k \in 1 .. Len(worklist) - 1 : Front(worklist)[k] = worklist[k]
        /\ Len(worklist) \in Nat \ {0}
        /\ DOMAIN worklist = 1 .. Len(worklist)
        /\ w = worklist[Len(worklist)]
        /\ w \in Work
    BY <1>1, FrontProperties, LenProperties
  <1>3. Good(w)
    BY <1>2 DEF WorklistInv
  <1>4. PICK b \in Branches(w) : worklist' = Front(worklist) \o b
    BY DEF PopWork
  <1>5. b \in Seq(Work)
    BY <1>2, <1>4, BranchesTyped
  <1>6. \A k \in 1 .. Len(b) : Good(b[k])
    <2>1. CASE b = << >>
      BY <2>1
    <2>2. ASSUME NEW c \in w.rest,
                 b = << [functions |-> w.functions \cup {c}, rest |-> w.rest \ {c}],
                        [functions |-> w.functions, rest |-> w.rest \ {c}] >>
          PROVE  \A k \in 1 .. Len(b) : Good(b[k])
      <3>1. Len(b) = 2
        BY <2>2
      <3>2. Good(b[1]) /\ Good(b[2])
        BY <1>3, <2>2
      <3>3. QED BY <3>1, <3>2
    <2>3. QED BY <1>4, <2>1, <2>2 DEF Branches
  <1>7. /\ DOMAIN worklist' = 1 .. Len(Front(worklist)) + Len(b)
        /\ \A k \in 1 .. Len(Front(worklist)) + Len(b) :
             worklist'[k] = IF k <= Len(Front(worklist)) THEN Front(worklist)[k]
                            ELSE b[k - Len(Front(worklist))]
        /\ Len(b) \in Nat
    <2>1. worklist' \in Seq(Work) /\ Len(worklist') = Len(Front(worklist)) + Len(b)
      BY <1>2, <1>4, <1>5, ConcatProperties
    <2>2. QED BY <1>2, <1>4, <1>5, <2>1, ConcatProperties, LenProperties
  <1> HIDE DEF w
  <1>8. \A k \in 1 .. Len(worklist) - 1 : Good(worklist[k])
    BY <1>2 DEF WorklistInv
  <1> HIDE DEF Good
  <1>9. \A k \in DOMAIN worklist' : Good(worklist'[k])
    <2> SUFFICES ASSUME NEW k \in DOMAIN worklist' PROVE Good(worklist'[k])
      OBVIOUS
    <2>1. CASE k <= Len(Front(worklist))
      BY <1>2, <1>7, <1>8, <2>1
    <2>2. CASE k > Len(Front(worklist))
      <3>1. k - Len(Front(worklist)) \in 1 .. Len(b)
        BY <1>2, <1>7, <2>2
      <3>2. QED BY <1>2, <1>6, <1>7, <2>2, <3>1
    <2>3. QED BY <1>2, <1>7, <2>1, <2>2
  <1>10. QED BY <1>3, <1>9 DEF Good, w

(* Only plans in the queue are marked dead. *)
LEMMA MarkedAreCreated ==
  ASSUME IInv, queue # << >>
  PROVE  MarkDeadPlans(Last(queue)) \subseteq 1 .. created
  <1>1. Last(queue) \in Fn
    BY FrontProperties DEF IInv, TypeOK
  <1>2. \A f \in parts[Last(queue)] : f \in Fn
    BY <1>1 DEF IInv, TypeOK
  <1>3. \A f \in Fn : dependents[f] \subseteq ToSet(queue)
    BY DEF IInv, TypeOK, DependentsMatchQueue
  <1>4. QED BY <1>2, <1>3 DEF MarkDeadPlans, IInv, QueueInv

(* erasePlan(p): the plans that stay live share no function with p, and     *)
(* Dependents and the queue still agree.                                   *)
LEMMA ErasePlanInv ==
  ASSUME IInv, queue # << >>, ErasePlan(Last(queue))
  PROVE  /\ ToSet(queue') = ToSet(queue) \ {Last(queue)}
         /\ \A i, j \in DOMAIN queue' : queue'[i] = queue'[j] => i = j
         /\ \A q \in Fn : Live(q)' <=>
              /\ Live(q)
              /\ q # Last(queue)
              /\ q \notin MarkDeadPlans(Last(queue))
         /\ \A q \in Fn : Live(q)' => parts[q] \cap parts[Last(queue)] = {}
         /\ DependentsMatchQueue'
  <1> DEFINE p == Last(queue)
  <1>1. queue \in Seq(Fn) /\ p \in Fn
    BY FrontProperties DEF IInv, TypeOK
  <1>2. /\ ToSet(Front(queue)) = ToSet(queue) \ {p}
        /\ \A i, j \in DOMAIN Front(queue) : Front(queue)[i] = Front(queue)[j] => i = j
    BY <1>1, FrontOfInjective DEF IInv, QueueInv
  <1>3. queue' = Front(queue) /\ dead' = dead \cup MarkDeadPlans(p) /\ parts' = parts
    BY DEF ErasePlan
  <1>4. ToSet(queue') = ToSet(queue) \ {p}
    BY <1>2, <1>3
  <1>5. \A q \in Fn : Live(q)' <=> Live(q) /\ q # p /\ q \notin MarkDeadPlans(p)
    BY <1>3, <1>4 DEF Live
  <1> HIDE DEF p
  <1>6. ASSUME NEW q \in Fn, Live(q)' PROVE parts[q] \cap parts[p] = {}
    <2>1. Live(q) /\ q # p /\ q \notin MarkDeadPlans(p)
      BY <1>5, <1>6
    <2>2. ASSUME NEW f \in parts[q], f \in parts[p] PROVE FALSE
      <3>1. f \in Fn
        BY <1>1, <2>2 DEF IInv, TypeOK
      <3>2. q \in dependents[f]
        BY <2>1, <2>2, <3>1 DEF IInv, DependentsMatchQueue
      <3>3. q \in MarkDeadPlans(p)
        BY <2>1, <2>2, <3>2 DEF MarkDeadPlans
      <3>4. QED BY <2>1, <3>3
    <2>3. QED BY <2>2
  <1>7. DependentsMatchQueue'
    <2> SUFFICES ASSUME NEW f \in Fn, NEW q \in Fn
                 PROVE  /\ q \in dependents'[f] => q \in ToSet(queue') /\ f \in parts'[q]
                        /\ Live(q)' /\ f \in parts'[q] => q \in dependents'[f]
      BY DEF DependentsMatchQueue
    <2>1. dependents'[f] = IF f \in parts[p] THEN {} ELSE dependents[f]
      BY DEF ErasePlan, p
    <2>2. ASSUME q \in dependents'[f]
          PROVE  q \in ToSet(queue') /\ f \in parts'[q]
      <3>1. f \notin parts[p] /\ q \in dependents[f]
        BY <2>1, <2>2
      <3>2. q \in ToSet(queue) /\ f \in parts[q]
        BY <3>1 DEF IInv, DependentsMatchQueue
      <3>3. QED BY <1>3, <1>4, <3>1, <3>2
    <2>3. ASSUME Live(q)', f \in parts'[q]
          PROVE  q \in dependents'[f]
      <3>1. f \notin parts[p]
        BY <1>3, <1>6, <2>3
      <3>2. q \in dependents[f]
        BY <1>3, <1>5, <2>3 DEF IInv, DependentsMatchQueue
      <3>3. QED BY <2>1, <3>1, <3>2
    <2>4. QED BY <2>2, <2>3
  <1>8. QED BY <1>2, <1>3, <1>4, <1>5, <1>6, <1>7 DEF p

LEMMA ExploreSourceInv == IInv /\ TypeOK' /\ ExploreSource => IInv'
  <1> SUFFICES ASSUME IInv, TypeOK', ExploreSource PROVE IInv'
    OBVIOUS
  <1>1. /\ exploring = None /\ exploring' = nextSource
        /\ nextSource \in 1 .. NumSources /\ nextSource' = nextSource + 1
        /\ UNCHANGED <<candidates, queue, parts, gain, dead, dependents,
                       created, speculative, absorbedBy>>
    BY DEF ExploreSource, StartExploring, candidateVars, planVars, Source
  <1>2. Mergeable' = Mergeable
    BY <1>1, Constants DEF Mergeable, None
  <1>3. exploring' # None /\ exploring' \in 1 .. created
    BY <1>1, Constants DEF IInv, QueueInv, TypeOK, None
  <1>4. worklist' = << [functions |-> {nextSource}, rest |-> candidates] >>
    BY DEF ExploreSource, StartExploring
  <1>5. WorklistInv'
    BY <1>1, <1>3, <1>4 DEF IInv, WorklistInv
  <1>6. QueueInv' /\ ForestInv'
    BY <1>1, <1>2 DEF IInv, QueueInv, ForestInv
  <1>7. \A p \in Fn : Live(p)' <=> Live(p)
    BY <1>1 DEF Live
  <1>8. ASSUME NEW p \in Fn, Live(p)' PROVE parts'[p] \subseteq candidates' \cup {exploring'}
    <2>1. parts[p] \subseteq candidates \cup {None} /\ parts[p] \subseteq Fn
      BY <1>1, <1>7, <1>8 DEF IInv, LivePlansAreApplicable, TypeOK
    <2>2. QED BY <1>1, <2>1, Constants
  <1>9. DependentsMatchQueue' /\ SpeculationIsAccounted' /\ DeadInv'
    BY <1>1, <1>7 DEF IInv, DependentsMatchQueue, SpeculationIsAccounted, DeadInv
  <1>10. QED BY <1>5, <1>6, <1>8, <1>9 DEF IInv, LivePlansAreApplicable

LEMMA WorkWithoutPlanInv == IInv /\ TypeOK' /\ WorkWithoutPlan => IInv'
  <1> SUFFICES ASSUME IInv, TypeOK', WorkWithoutPlan PROVE IInv'
    OBVIOUS
  <1>1. /\ PopWork /\ exploring # None
        /\ UNCHANGED <<nextSource, candidates, exploring, queue, parts, gain,
                       dead, dependents, created, speculative, absorbedBy>>
    BY DEF WorkWithoutPlan, PopWork, candidateVars, planVars
  <1>2. WorklistInv'
    BY <1>1, PopWorkInv DEF IInv, WorklistInv
  <1>3. Mergeable' = Mergeable
    BY <1>1 DEF Mergeable
  <1>4. QueueInv' /\ ForestInv'
    BY <1>1, <1>3 DEF IInv, QueueInv, ForestInv
  <1>5. LivePlansAreApplicable' /\ DependentsMatchQueue' /\ SpeculationIsAccounted'
    BY <1>1 DEF IInv, LivePlansAreApplicable, DependentsMatchQueue,
                SpeculationIsAccounted, Live
  <1>6. DeadInv'
    BY <1>1 DEF IInv, DeadInv
  <1>7. QED BY <1>2, <1>4, <1>5, <1>6 DEF IInv

LEMMA WorkWithPlanInv ==
  ASSUME NEW g \in Gains, NEW i \in 1 .. Len(queue) + 1,
         IInv, TypeOK', WorkWithPlan(g, i)
  PROVE  IInv'
  <1> DEFINE p == created + 1
             W == Last(worklist).functions
  <1>1. /\ PopWork /\ exploring # None
        /\ UNCHANGED <<nextSource, candidates, exploring, dead, absorbedBy>>
        /\ Cardinality(W) > 1
        /\ created' = p
        /\ queue' = InsertAt(queue, i, p)
        /\ parts' = [parts EXCEPT ![p] = W]
        /\ speculative' = speculative \cup {p}
        /\ dependents' = [f \in Fn |-> IF f \in W THEN dependents[f] \cup {p}
                                       ELSE dependents[f]]
    BY DEF WorkWithPlan, PopWork, candidateVars, IsPlanned
  <1>2. created \in Nat /\ p \in Nat /\ p > created
    BY DEF IInv, TypeOK
  <1>3. p \in Fn
    BY <1>2, Constants DEF WorkWithPlan, Fn
  <1>4. queue \in Seq(Fn)
    BY DEF IInv, TypeOK
  <1>5. /\ W \subseteq candidates \cup {exploring}
        /\ W \in SUBSET Fn
        /\ \A k \in DOMAIN worklist' :
              /\ worklist'[k].functions \subseteq candidates \cup {exploring}
              /\ worklist'[k].rest \subseteq candidates
    BY <1>1, PopWorkInv, PopWorkTyped DEF IInv
  <1> HIDE DEF W
  <1>6. p \notin ToSet(queue)
    BY <1>1, <1>2, <1>3, <1>4 DEF IInv, QueueInv
  <1>7. ToSet(queue') = ToSet(queue) \cup {p}
    BY <1>1, <1>2, <1>3, <1>4, InsertAtToSet
  <1>8. \A j, k \in DOMAIN queue' : queue'[j] = queue'[k] => j = k
    BY <1>1, <1>2, <1>3, <1>4, <1>6, InsertAtInjective DEF IInv, QueueInv
  <1>9. WorklistInv'
    BY <1>1, <1>2, <1>3, <1>4, <1>5 DEF IInv, WorklistInv
  <1>10. Mergeable' = Mergeable /\ Mergeable \subseteq 1 .. created
    <2>1. nextSource .. NumSources \subseteq 1 .. created
      BY Constants DEF IInv, TypeOK, QueueInv
    <2>2. QED BY <1>1, <1>2, <1>3, <1>4, <2>1 DEF IInv, WorklistInv, Mergeable
  <1>11. p \notin Mergeable
    BY <1>1, <1>2, <1>3, <1>4, <1>10
  <1>12. \A q \in ToSet(queue) : q \in Fn /\ q # p /\ q \in 1 .. created
    BY <1>1, <1>2, <1>3, <1>4, <1>6 DEF IInv, QueueInv, ToSet
  <1>13. \A q \in Fn : parts'[q] = IF q = p THEN W ELSE parts[q]
    BY <1>1, <1>2, <1>3, <1>4 DEF IInv, TypeOK
  <1>14. QueueInv'
    <2>1. NumSources <= created'
      BY <1>1, <1>2, <1>3, <1>4, Constants DEF IInv, QueueInv
    <2>2. ASSUME NEW q \in ToSet(queue')
          PROVE  q \in 1 .. created' /\ q \notin Mergeable' /\ Cardinality(parts'[q]) > 1
      <3>1. CASE q = p
        <4>1. p \in 1 .. created'
          BY <1>1, <1>2, <1>3, <1>4
        <4>2. Cardinality(parts'[p]) > 1
          BY <1>1, <1>2, <1>3, <1>4, <1>13
        <4>3. QED BY <1>10, <1>11, <3>1, <4>1, <4>2
      <3>2. CASE q \in ToSet(queue)
        <4>1. q \in 1 .. created' /\ parts'[q] = parts[q]
          BY <1>1, <1>2, <1>3, <1>4, <1>12, <1>13, <3>2
        <4>2. QED BY <1>10, <3>2, <4>1 DEF IInv, QueueInv
      <3>3. QED BY <1>7, <3>1, <3>2
    <2>3. QED BY <1>8, <2>1, <2>2 DEF QueueInv
  <1>15. ForestInv'
    <2>1. absorbedBy[p] = p
      BY <1>1, <1>2, <1>3, <1>4 DEF IInv, ForestInv
    <2>2. \A f \in Fn : f > created' => f > created
      BY <1>1, <1>2, <1>3, <1>4 DEF Fn
    <2>3. QED BY <1>1, <1>2, <1>3, <1>4, <1>7, <1>10, <2>1, <2>2 DEF IInv, ForestInv
  <1>16. \A q \in Fn : Live(q)' <=> Live(q) \/ (q = p /\ p \notin dead)
    BY <1>1, <1>2, <1>3, <1>4, <1>6, <1>7 DEF Live
  <1>17. p \notin dead
    BY <1>1, <1>2, <1>3, <1>4 DEF IInv, DeadInv
  <1>18. LivePlansAreApplicable'
    BY <1>1, <1>2, <1>3, <1>4, <1>5, <1>13, <1>16 DEF IInv, LivePlansAreApplicable
  <1>19. SpeculationIsAccounted'
    BY <1>1, <1>2, <1>3, <1>4, <1>16, <1>17 DEF IInv, SpeculationIsAccounted
  <1>20. DependentsMatchQueue'
    <2> SUFFICES ASSUME NEW f \in Fn, NEW q \in Fn
                 PROVE  /\ q \in dependents'[f] => q \in ToSet(queue') /\ f \in parts'[q]
                        /\ Live(q)' /\ f \in parts'[q] => q \in dependents'[f]
      BY DEF DependentsMatchQueue
    <2>1. dependents'[f] = IF f \in W THEN dependents[f] \cup {p} ELSE dependents[f]
      BY <1>1, <1>2, <1>3, <1>4
    <2>2. p \notin dependents[f]
      BY <1>1, <1>2, <1>3, <1>4, <1>6 DEF IInv, DependentsMatchQueue
    <2>3. CASE q = p
      BY <1>7, <1>13, <2>1, <2>2, <2>3
    <2>4. CASE q # p
      BY <1>7, <1>13, <1>16, <2>1, <2>4 DEF IInv, DependentsMatchQueue
    <2>5. QED BY <2>3, <2>4
  <1>21. DeadInv'
    BY <1>1, <1>2, <1>3, <1>4 DEF IInv, DeadInv
  <1>22. QED
    BY <1>9, <1>14, <1>15, <1>18, <1>19, <1>20, <1>21 DEF IInv

LEMMA FinishExploringInv == IInv /\ TypeOK' /\ FinishExploring => IInv'
  <1> SUFFICES ASSUME IInv, TypeOK', FinishExploring PROVE IInv'
    OBVIOUS
  <1>1. /\ exploring # None /\ exploring' = None
        /\ candidates' = candidates \cup {exploring}
        /\ worklist = << >> /\ worklist' = << >>
        /\ UNCHANGED <<nextSource, queue, parts, gain, dead, dependents,
                       created, speculative, absorbedBy>>
    BY DEF FinishExploring, planVars
  <1>2. Mergeable' = Mergeable
    BY <1>1 DEF Mergeable
  <1>3. DOMAIN worklist' = {}
    BY <1>1
  <1>4. WorklistInv'
    BY <1>1, <1>3 DEF IInv, WorklistInv
  <1>5. QueueInv' /\ ForestInv'
    BY <1>1, <1>2 DEF IInv, QueueInv, ForestInv
  <1>6. LivePlansAreApplicable' /\ DependentsMatchQueue' /\ SpeculationIsAccounted'
    BY <1>1 DEF IInv, LivePlansAreApplicable, DependentsMatchQueue,
                SpeculationIsAccounted, Live
  <1>7. DeadInv'
    BY <1>1 DEF IInv, DeadInv
  <1>8. QED BY <1>4, <1>5, <1>6, <1>7 DEF IInv

LEMMA DropDeadPlanInv == IInv /\ TypeOK' /\ DropDeadPlan => IInv'
  <1> SUFFICES ASSUME IInv, TypeOK', DropDeadPlan PROVE IInv'
    OBVIOUS
  <1> DEFINE p == Last(queue)
  <1>1. /\ queue # << >> /\ p \in dead /\ ErasePlan(p)
        /\ speculative' = speculative \ (MarkDeadPlans(p) \ dead)
        /\ UNCHANGED <<nextSource, candidates, exploring, worklist, parts, gain,
                       created, absorbedBy>>
    BY DEF DropDeadPlan, candidateVars, ErasePlan
  <1>2. Mergeable' = Mergeable
    BY <1>1 DEF Mergeable
  <1>3. WorklistInv'
    BY <1>1 DEF IInv, WorklistInv
  <1>4. QueueInv' /\ ForestInv'
    BY <1>1, <1>2, ErasePlanInv DEF IInv, QueueInv, ForestInv
  <1>5. \A q \in Fn : Live(q)' <=> Live(q) /\ q # p /\ q \notin MarkDeadPlans(p)
    BY <1>1, ErasePlanInv
  <1>6. LivePlansAreApplicable'
    BY <1>1, <1>5 DEF IInv, LivePlansAreApplicable
  <1>7. SpeculationIsAccounted'
    <2>1. \A q \in Fn : Live(q) => q # p /\ q \notin dead
      BY <1>1 DEF Live
    <2> HIDE DEF p
    <2>2. QED BY <1>1, <1>5, <2>1 DEF IInv, SpeculationIsAccounted
  <1>8. DependentsMatchQueue'
    BY <1>1, ErasePlanInv
  <1>9. DeadInv'
    BY <1>1, MarkedAreCreated DEF IInv, DeadInv, ErasePlan
  <1>10. QED BY <1>3, <1>4, <1>6, <1>7, <1>8, <1>9 DEF IInv

LEMMA ApplyBestPlanInv == IInv /\ TypeOK' /\ ApplyBestPlan => IInv'
  <1> SUFFICES ASSUME IInv, TypeOK', ApplyBestPlan PROVE IInv'
    OBVIOUS
  <1> DEFINE p == Last(queue)
  <1>1. /\ queue # << >> /\ p \notin dead /\ ErasePlan(p)
        /\ exploring = None /\ exploring' = p /\ nextSource \notin Source
        /\ candidates' = candidates \ parts[p]
        /\ worklist' = << [functions |-> {p}, rest |-> candidates'] >>
        /\ speculative' = speculative \ ({p} \cup (MarkDeadPlans(p) \ dead))
        /\ absorbedBy' = [f \in Fn |-> IF f \in parts[p] THEN p ELSE absorbedBy[f]]
        /\ UNCHANGED <<nextSource, parts, gain, created>>
    BY DEF ApplyBestPlan, StartExploring, Picking, ErasePlan
  <1>2. /\ p \in ToSet(queue) /\ p \in Fn /\ p \in 1 .. created
        /\ p \notin Mergeable /\ p # None /\ absorbedBy[p] = p
    BY <1>1, FrontProperties, Constants DEF IInv, TypeOK, QueueInv, ForestInv
  <1> HIDE DEF p
  <1>3. parts[p] \subseteq candidates
    <2>1. Live(p)
      BY <1>1, <1>2 DEF Live
    <2>2. parts[p] \subseteq Fn /\ parts[p] \subseteq candidates \cup {None}
      BY <1>1, <1>2, <2>1 DEF IInv, TypeOK, LivePlansAreApplicable
    <2>3. QED BY <2>2, Constants
  <1>4. nextSource .. NumSources = {}
    BY <1>1, Constants DEF Source, IInv, TypeOK
  <1>5. Mergeable = candidates /\ Mergeable' = (candidates \ parts[p]) \cup {p}
    BY <1>1, <1>2, <1>4 DEF Mergeable
  <1>6. WorklistInv'
    <2>1. /\ DOMAIN worklist' = {1}
          /\ worklist'[1].functions = {p} /\ worklist'[1].rest = candidates'
      BY <1>1
    <2>2. candidates' \subseteq 1 .. created' /\ p \in 1 .. created'
      BY <1>1, <1>2 DEF IInv, WorklistInv
    <2>3. QED BY <1>1, <1>2, <2>1, <2>2 DEF WorklistInv
  <1>7. /\ ToSet(queue') = ToSet(queue) \ {p}
        /\ \A i, j \in DOMAIN queue' : queue'[i] = queue'[j] => i = j
        /\ \A q \in Fn : Live(q)' <=> Live(q) /\ q # p /\ q \notin MarkDeadPlans(p)
        /\ \A q \in Fn : Live(q)' => parts[q] \cap parts[p] = {}
        /\ DependentsMatchQueue'
    BY <1>1, ErasePlanInv DEF p
  <1>8. QueueInv'
    BY <1>1, <1>5, <1>7 DEF IInv, QueueInv
  <1>9. parts[p] \subseteq 1 .. created
    BY <1>3 DEF IInv, WorklistInv
  <1>10. ForestInv'
    <2>1. \A f \in Fn : absorbedBy'[f] = IF f \in parts[p] THEN p ELSE absorbedBy[f]
      BY <1>1
    <2>2. \A f \in Mergeable' : f \in Fn /\ absorbedBy'[f] = f
      <3>1. \A f \in candidates : f \in Fn /\ absorbedBy[f] = f
        BY <1>5 DEF IInv, ForestInv, TypeOK
      <3>2. p \notin parts[p]
        BY <1>2, <1>3, <1>5
      <3>3. QED BY <1>2, <1>5, <2>1, <3>1, <3>2
    <2>3. \A q \in ToSet(queue') : q \in Fn /\ q \notin parts[p] /\ absorbedBy[q] = q
      <3>1. queue \in Seq(Fn)
        BY DEF IInv, TypeOK
      <3>2. \A q \in ToSet(queue) : q \in Fn
        BY <3>1, LenProperties DEF ToSet
      <3>3. \A q \in ToSet(queue) : q \notin candidates /\ absorbedBy[q] = q
        BY <1>5 DEF IInv, QueueInv, ForestInv
      <3>4. QED BY <1>3, <1>7, <3>2, <3>3
    <2>4. \A f \in Fn : f > created => f \notin parts[p] /\ absorbedBy[f] = f
      <3>1. created \in Nat /\ \A f \in Fn : f \in Nat
        BY DEF IInv, TypeOK, Fn
      <3>2. \A f \in Fn : f > created => absorbedBy[f] = f
        BY DEF IInv, ForestInv
      <3>3. QED BY <1>9, <3>1, <3>2
    <2>5. QED BY <1>1, <2>1, <2>2, <2>3, <2>4 DEF ForestInv
  <1>11. LivePlansAreApplicable'
    <2>1. ASSUME NEW q \in Fn, Live(q)' PROVE parts[q] \subseteq candidates \ parts[p]
      <3>1. parts[q] \subseteq Fn /\ parts[q] \subseteq candidates \cup {None}
        BY <1>1, <1>7, <2>1 DEF IInv, TypeOK, LivePlansAreApplicable
      <3>2. QED BY <1>7, <2>1, <3>1, Constants
    <2>2. QED BY <1>1, <2>1 DEF LivePlansAreApplicable
  <1>12. SpeculationIsAccounted'
    <2>1. \A q \in Fn : Live(q) => q \notin dead
      BY DEF Live
    <2>2. QED BY <1>1, <1>7, <2>1 DEF IInv, SpeculationIsAccounted
  <1>13. DeadInv'
    BY <1>1, MarkedAreCreated DEF IInv, DeadInv, ErasePlan, p
  <1>14. QED
    BY <1>6, <1>7, <1>8, <1>10, <1>11, <1>12, <1>13 DEF IInv

LEMMA InvNext == IInv /\ [Next]_vars => IInv'
  <1> SUFFICES ASSUME IInv, [Next]_vars PROVE IInv'
    OBVIOUS
  <1>1. TypeOK'
    BY TypeNext DEF IInv
  <1>2. ASSUME UNCHANGED <<nextSource, candidates, exploring, worklist, queue, parts,
                           gain, dead, dependents, created, speculative, absorbedBy>>
        PROVE  IInv'
    <2>1. Mergeable' = Mergeable /\ \A p : Live(p)' <=> Live(p)
      BY <1>2 DEF Mergeable, Live
    <2>2. WorklistInv' /\ QueueInv' /\ ForestInv' /\ DeadInv'
      BY <1>2, <2>1 DEF IInv, WorklistInv, QueueInv, ForestInv, DeadInv
    <2>3. LivePlansAreApplicable' /\ DependentsMatchQueue' /\ SpeculationIsAccounted'
      BY <1>2, <2>1 DEF IInv, LivePlansAreApplicable, DependentsMatchQueue,
                        SpeculationIsAccounted
    <2>4. QED BY <1>1, <2>2, <2>3 DEF IInv
  <1>3. CASE PlanWork
    BY <1>1, <1>3, WorkWithPlanInv DEF PlanWork
  <1>4. CASE StopExploring
    BY <1>2, <1>4 DEF StopExploring, candidateVars, planVars
  <1>5. CASE UNCHANGED vars
    BY <1>2, <1>5 DEF vars
  <1>6. QED
    BY <1>1, <1>3, <1>4, <1>5, ExploreSourceInv, WorkWithoutPlanInv,
       FinishExploringInv, DropDeadPlanInv, ApplyBestPlanInv DEF Next

(* A plan that has not died is over functions that may still be merged, so  *)
(* applyMerge never erases a function twice.                               *)
THEOREM Safety == Spec => []LivePlansAreApplicable
  <1>1. IInv => LivePlansAreApplicable
    BY DEF IInv
  <1>2. QED BY <1>1, InvInit, InvNext, PTL DEF Spec

(* Dependents never points to a plan that erasePlan has freed.              *)
THEOREM PointersAreValid == Spec => []DependentsMatchQueue
  <1>1. IInv => DependentsMatchQueue
    BY DEF IInv
  <1>2. QED BY <1>1, InvInit, InvNext, PTL DEF Spec

(* No speculative function leaks, and none is erased twice, while plans     *)
(* come and go (tryPlanMerge, markDeadPlans).                              *)
THEOREM NothingLeaks == Spec => []SpeculationIsAccounted
  <1>1. IInv => SpeculationIsAccounted
    BY DEF IInv
  <1>2. QED BY <1>1, InvInit, InvNext, PTL DEF Spec

-----------------------------------------------------------------------------
(***************************************************************************)
(* The exploration implements the merge forest                             *)
(***************************************************************************)
LEMMA ForestInitStep == Init => Forest!ForestInit
  <1>1. Init => Mergeable = 1 .. NumSources
    BY DEF Init, Mergeable, None
  <1>2. QED BY <1>1 DEF Init, Forest!ForestInit, Source

LEMMA ApplyIsAbsorb == IInv /\ ApplyBestPlan => Forest!ForestNext
  <1> SUFFICES ASSUME IInv, ApplyBestPlan PROVE Forest!ForestNext
    OBVIOUS
  <1> DEFINE p == Last(queue)
             S == parts[p]
  <1>1. /\ queue # << >> /\ p \notin dead
        /\ exploring = None /\ exploring' = p /\ nextSource \notin Source
        /\ candidates' = candidates \ S
        /\ absorbedBy' = [f \in Fn |-> IF f \in S THEN p ELSE absorbedBy[f]]
        /\ UNCHANGED nextSource
    BY DEF ApplyBestPlan, StartExploring, Picking
  <1>2. /\ p \in ToSet(queue) /\ p \in Fn /\ p # None
        /\ p \notin Mergeable /\ absorbedBy[p] = p /\ Cardinality(S) > 1
    BY <1>1, FrontProperties, Constants DEF IInv, TypeOK, QueueInv, ForestInv
  <1> HIDE DEF p
  <1>3. S \subseteq candidates
    <2>1. Live(p)
      BY <1>1, <1>2 DEF Live
    <2>2. S \subseteq Fn /\ S \subseteq candidates \cup {None}
      BY <1>1, <1>2, <2>1 DEF IInv, TypeOK, LivePlansAreApplicable
    <2>3. QED BY <2>2, Constants
  <1> HIDE DEF S
  <1>4. nextSource .. NumSources = {}
    BY <1>1, Constants DEF Source, IInv, TypeOK
  <1>5. Mergeable = candidates /\ Mergeable' = (candidates \ S) \cup {p}
    BY <1>1, <1>2, <1>4 DEF Mergeable
  <1>6. Forest!Fresh(p)
    BY <1>2 DEF Forest!Fresh, Forest!Unabsorbed
  <1>7. Forest!Absorb(S, p)
    <2>1. Forest!Cardinality(S) > 1
      BY <1>2 DEF Cardinality, Forest!Cardinality
    <2>2. QED BY <1>1, <1>3, <1>5, <1>6, <2>1 DEF Forest!Absorb
  <1>8. QED BY <1>2, <1>3, <1>5, <1>7 DEF Forest!ForestNext

LEMMA ForestStep == IInv /\ [Next]_vars => [Forest!ForestNext]_(Forest!forestVars)
  <1> SUFFICES ASSUME IInv, [Next]_vars
               PROVE  Forest!ForestNext \/ UNCHANGED <<Mergeable, absorbedBy>>
    BY DEF Forest!forestVars
  <1>1. CASE ExploreSource
    <2>1. /\ exploring = None /\ exploring' = nextSource
          /\ nextSource \in 1 .. NumSources /\ nextSource' = nextSource + 1
          /\ UNCHANGED <<candidates, absorbedBy>>
      BY <1>1 DEF ExploreSource, StartExploring, candidateVars, Source
    <2>2. Mergeable' = Mergeable
      BY <2>1, Constants DEF Mergeable, None
    <2>3. QED BY <2>1, <2>2
  <1>2. CASE WorkWithoutPlan \/ PlanWork
    <2>1. PopWork
      BY <1>2 DEF WorkWithoutPlan, PlanWork, WorkWithPlan
    <2>2. UNCHANGED <<nextSource, candidates, exploring, absorbedBy>>
      BY <2>1 DEF PopWork, candidateVars
    <2>3. QED BY <2>2 DEF Mergeable
  <1>3. CASE FinishExploring
    BY <1>3 DEF FinishExploring, Mergeable
  <1>4. CASE DropDeadPlan \/ StopExploring
    BY <1>4 DEF DropDeadPlan, StopExploring, candidateVars, Mergeable
  <1>5. CASE ApplyBestPlan
    BY <1>5, ApplyIsAbsorb
  <1>6. CASE UNCHANGED vars
    BY <1>6 DEF vars, Mergeable
  <1>7. QED BY <1>1, <1>2, <1>3, <1>4, <1>5, <1>6 DEF Next

(* Whatever the plans gain and in whatever order they come, the exploration *)
(* only absorbs functions that stand on their own, each of them once.      *)
THEOREM Refinement == Spec => ImplementsForest
  BY ForestInitStep, ForestStep, InvInit, InvNext, PTL
  DEF Spec, ImplementsForest, Forest!ForestSpec

(* A function that was absorbed stays absorbed by the same function:        *)
(* applyMerge never erases a function a second time.                       *)
THEOREM FunctionsAreAbsorbedOnce == Spec => Forest!AbsorbedOnce
  <1> DEFINE Inv == Forest!LiveAreUnabsorbed /\ Mergeable \subseteq Fn
  <1>1. Forest!ForestInit => Inv
    <2>1. Source \subseteq Fn
      BY Constants
    <2>2. QED BY <2>1 DEF Forest!ForestInit, Forest!LiveAreUnabsorbed, Forest!Unabsorbed
  <1>2. Inv /\ [Forest!ForestNext]_(Forest!forestVars) => Inv'
    <2> SUFFICES ASSUME Inv, [Forest!ForestNext]_(Forest!forestVars) PROVE Inv'
      OBVIOUS
    <2>1. ASSUME NEW S \in SUBSET Mergeable, NEW m \in Fn, Forest!Absorb(S, m) PROVE Inv'
      BY <2>1 DEF Forest!Absorb, Forest!Fresh, Forest!Unabsorbed, Forest!LiveAreUnabsorbed
    <2>2. CASE UNCHANGED Forest!forestVars
      BY <2>2 DEF Forest!forestVars, Forest!LiveAreUnabsorbed, Forest!Unabsorbed
    <2>3. QED BY <2>1, <2>2 DEF Forest!ForestNext
  <1>3. Inv /\ [Forest!ForestNext]_(Forest!forestVars)
          => [\A f \in Fn : ~ Forest!Unabsorbed(f)
              => absorbedBy'[f] = absorbedBy[f]]_(Forest!forestVars)
    BY DEF Forest!ForestNext, Forest!Absorb, Forest!LiveAreUnabsorbed, Forest!Unabsorbed,
           Forest!forestVars
  <1>4. QED BY <1>1, <1>2, <1>3, Refinement, PTL
            DEF ImplementsForest, Forest!ForestSpec, Forest!AbsorbedOnce

-----------------------------------------------------------------------------
(***************************************************************************)
(* The queue is sorted, so the plan at its end is a best one               *)
(***************************************************************************)
SortedInv ==
  \A i, j \in DOMAIN queue : i < j => ~ IsBetterThan(gain[queue[i]], gain[queue[j]])

LEMMA InsertKeepsOrder ==
  ASSUME TypeOK, SortedInv, QueueInv, NEW g \in Gains, NEW i \in 1 .. Len(queue) + 1,
         WorkWithPlan(g, i)
  PROVE  SortedInv'
  <1> DEFINE p == created + 1
             q == InsertAt(queue, i, p)
             n == Len(queue)
             key(f) == gain'[f]
  <1>1. /\ queue' = q /\ gain' = [gain EXCEPT ![p] = g]
        /\ IsInsertPoint(i, g) /\ p \in Fn /\ g \in Int
    <2>1. /\ created' = p /\ created < MaxFunctions /\ queue' = q
          /\ gain' = [gain EXCEPT ![created'] = g] /\ IsInsertPoint(i, g)
      BY DEF WorkWithPlan
    <2>2. created \in Nat /\ g \in Int
      BY ExhaustiveAssumption DEF TypeOK
    <2>3. p \in Fn
      BY <2>1, <2>2, Constants DEF Fn
    <2>4. QED BY <2>1, <2>2, <2>3
  <1>2. /\ queue \in Seq(Fn) /\ n \in Nat /\ DOMAIN queue = 1 .. n
        /\ \A j \in 1 .. n : queue[j] \in Fn /\ queue[j] # p
    <2>1. queue \in Seq(Fn)
      BY DEF TypeOK
    <2>2. n \in Nat /\ DOMAIN queue = 1 .. n /\ \A j \in 1 .. n : queue[j] \in Fn
      BY <2>1, LenProperties
    <2>3. ASSUME NEW j \in 1 .. n PROVE queue[j] # p
      <3>1. queue[j] \in 1 .. created
        BY <2>2 DEF QueueInv, ToSet
      <3>2. QED BY <3>1 DEF TypeOK
    <2>4. QED BY <2>1, <2>2, <2>3
  <1>3. /\ DOMAIN q = 1 .. n + 1
        /\ \A j \in 1 .. n + 1 :
             q[j] = IF j < i THEN queue[j] ELSE IF j = i THEN p ELSE queue[j - 1]
    <2>1. /\ q \in Seq(Fn) /\ Len(q) = n + 1
          /\ \A j \in 1 .. n + 1 :
               q[j] = IF j < i THEN queue[j] ELSE IF j = i THEN p ELSE queue[j - 1]
      <3> HIDE DEF p
      <3>1. queue \in Seq(Fn) /\ p \in Fn /\ i \in 1 .. Len(queue) + 1
        BY <1>1, <1>2
      <3> HIDE DEF n, q
      <3>2. /\ InsertAt(queue, i, p) \in Seq(Fn)
            /\ Len(InsertAt(queue, i, p)) = Len(queue) + 1
            /\ \A j \in 1 .. Len(queue) + 1 :
                 InsertAt(queue, i, p)[j] =
                   IF j < i THEN queue[j] ELSE IF j = i THEN p ELSE queue[j - 1]
        BY <3>1, InsertAtProperties, SMTT(30)
      <3>3. QED BY <3>2 DEF q, n
    <2> HIDE DEF q, p, n
    <2>2. DOMAIN q = 1 .. n + 1
      BY <2>1, LenProperties
    <2>3. QED BY <2>1, <2>2
  <1>4. gain'[p] = g /\ \A j \in 1 .. n : gain'[queue[j]] = gain[queue[j]]
    BY <1>1, <1>2 DEF TypeOK
  <1>5. \A j \in 1 .. n : gain[queue[j]] \in Int
    BY <1>2 DEF TypeOK
  <1>6. \A j, k \in 1 .. n : j < k => gain[queue[j]] <= gain[queue[k]]
    BY <1>2, <1>5 DEF SortedInv, IsBetterThan
  <1>7. \A j \in 1 .. n : j < i => gain[queue[j]] <= g
    BY <1>1, <1>2, <1>5 DEF IsInsertPoint, IsBetterThan
  <1>8. \A j \in 1 .. n : j >= i => g <= gain[queue[j]]
    <2>1. i <= n => gain[queue[i]] > g
      BY <1>1, <1>2 DEF IsInsertPoint, IsBetterThan
    <2>2. QED BY <1>1, <1>2, <1>5, <1>6, <2>1
  <1>9. \A j \in 1 .. n + 1 :
          gain'[q[j]] = IF j < i THEN gain[queue[j]]
                        ELSE IF j = i THEN g ELSE gain[queue[j - 1]]
    BY <1>2, <1>3, <1>4
  <1> HIDE DEF p, q, n
  <1>10. ASSUME NEW j \in 1 .. n + 1, NEW k \in 1 .. n + 1, j < k
         PROVE  gain'[q[j]] <= gain'[q[k]]
    <2>1. CASE k < i
      BY <1>2, <1>5, <1>6, <1>9, <1>10, <2>1
    <2>2. CASE k = i
      BY <1>2, <1>5, <1>7, <1>9, <1>10, <2>2
    <2>3. CASE k > i /\ j < i
      BY <1>1, <1>2, <1>5, <1>6, <1>9, <1>10, <2>3
    <2>4. CASE k > i /\ j = i
      BY <1>1, <1>2, <1>5, <1>8, <1>9, <1>10, <2>4
    <2>5. CASE j > i
      BY <1>2, <1>5, <1>6, <1>9, <1>10, <2>5
    <2>6. QED BY <2>1, <2>2, <2>3, <2>4, <2>5
  <1>11. \A j \in 1 .. n + 1 : gain'[q[j]] \in Int
    BY <1>1, <1>2, <1>5, <1>9
  <1>12. QED BY <1>1, <1>3, <1>10, <1>11 DEF SortedInv, IsBetterThan

LEMMA SortedNext == IInv /\ SortedInv /\ [Next]_vars => SortedInv'
  <1> SUFFICES ASSUME IInv, SortedInv, [Next]_vars PROVE SortedInv'
    OBVIOUS
  <1>1. ASSUME UNCHANGED <<queue, gain>> PROVE SortedInv'
    BY <1>1 DEF SortedInv
  <1>2. ASSUME queue # << >>, ErasePlan(Last(queue)) PROVE SortedInv'
    <2>1. queue \in Seq(Fn)
      BY DEF IInv, TypeOK
    <2>2. /\ Len(queue) \in Nat /\ DOMAIN queue = 1 .. Len(queue)
          /\ DOMAIN Front(queue) = 1 .. Len(queue) - 1
          /\ \A i \in 1 .. Len(queue) - 1 : Front(queue)[i] = queue[i]
      BY <1>2, <2>1, FrontProperties, LenProperties
    <2>3. queue' = Front(queue) /\ gain' = gain
      BY <1>2 DEF ErasePlan
    <2>4. QED BY <2>2, <2>3 DEF SortedInv
  <1>3. CASE PlanWork
    BY <1>3, InsertKeepsOrder DEF PlanWork, IInv
  <1>4. CASE DropDeadPlan \/ ApplyBestPlan
    BY <1>2, <1>4 DEF DropDeadPlan, ApplyBestPlan
  <1>5. CASE ExploreSource \/ WorkWithoutPlan \/ FinishExploring \/ StopExploring
    BY <1>1, <1>5 DEF ExploreSource, WorkWithoutPlan, FinishExploring,
                      StopExploring, planVars
  <1>6. CASE UNCHANGED vars
    BY <1>1, <1>6 DEF vars
  <1>7. QED BY <1>3, <1>4, <1>5, <1>6 DEF Next

(* Every merge that is applied is one no queued live plan is better than,  *)
(* although plans keep arriving and dying between two merges.              *)
THEOREM BestPlanFirst == Spec => AppliesTheBestPlan
  <1> DEFINE Best == absorbedBy' # absorbedBy =>
               \A p \in Fn : Live(p) => ~ IsBetterThan(gain[p], gain[exploring'])
  <1>1. IInv /\ SortedInv /\ [Next]_vars => [Best]_vars
    <2> SUFFICES ASSUME IInv, SortedInv, Next, absorbedBy' # absorbedBy,
                        NEW p \in Fn, Live(p)
                 PROVE  ~ IsBetterThan(gain[p], gain[exploring'])
      OBVIOUS
    <2>1. ApplyBestPlan
      BY DEF Next, ExploreSource, WorkWithoutPlan, PlanWork, WorkWithPlan, PopWork,
             FinishExploring, DropDeadPlan, StopExploring
    <2>2. queue # << >> /\ exploring' = Last(queue) /\ queue \in Seq(Fn)
      BY <2>1 DEF ApplyBestPlan, StartExploring, IInv, TypeOK
    <2>3. /\ exploring' = queue[Len(queue)] /\ Len(queue) \in Nat \ {0}
          /\ DOMAIN queue = 1 .. Len(queue) /\ exploring' \in Fn
      BY <2>2, FrontProperties, LenProperties
    <2>4. PICK i \in 1 .. Len(queue) : queue[i] = p
      BY <2>3 DEF Live, ToSet
    <2>5. CASE i < Len(queue)
      BY <2>3, <2>4, <2>5 DEF SortedInv
    <2>6. CASE i = Len(queue)
      <3>1. gain[p] \in Int
        BY DEF IInv, TypeOK
      <3>2. p = exploring'
        BY <2>3, <2>4, <2>6
      <3>3. QED BY <3>1, <3>2 DEF IsBetterThan
    <2>7. i < Len(queue) \/ i = Len(queue)
      <3>1. Len(queue) \in Nat
        BY <2>3
      <3>2. QED BY <3>1
    <2>8. QED BY <2>5, <2>6, <2>7
  <1>2. Init => SortedInv
    BY DEF Init, SortedInv
  <1>3. QED
    BY <1>1, <1>2, InvInit, InvNext, SortedNext, PTL DEF Spec, AppliesTheBestPlan

(***************************************************************************)
(* Completeness of an exploration                                          *)
(***************************************************************************)
IsSize(n) == n > 1 /\ n <= MaxMergeSize

(* The combinations that are planned when work item w and the items it      *)
(* branches into are popped.                                               *)
Reached(w) ==
  {U \in SUBSET (w.functions \cup w.rest) :
     w.functions \subseteq U /\ IsSize(Cardinality(U))}

AllReached(items) == UNION {Reached(w) : w \in ToSet(items)}

(* Every combination of the function that is explored with candidates was  *)
(* tried or will be reached.                                               *)
CombinationsInv ==
  /\ candidates \cap nextSource .. NumSources = {}
  /\ exploring \notin candidates \cup nextSource .. NumSources
  /\ exploring # None =>
       /\ \A w \in ToSet(worklist) : exploring \in w.functions
       /\ ToSet(tried) \cup AllReached(worklist)
            = Reached([functions |-> {exploring}, rest |-> candidates])

LEMMA FiniteSetsOfFunctions ==
  \A S \in SUBSET Fn : IsFiniteSet(S) /\ Cardinality(S) \in Nat
  <1> TAKE S \in SUBSET Fn
  <1>1. MaxFunctions \in Int /\ 1 \in Int
    BY ExhaustiveAssumption
  <1>2. IsFiniteSet(Fn)
    BY <1>1, FS_Interval DEF Fn
  <1>3. QED BY <1>2, FS_Subset, FS_CardinalityType

LEMMA ReachedConcat ==
  ASSUME NEW s \in Seq(Work), NEW t \in Seq(Work)
  PROVE  AllReached(s \o t) = AllReached(s) \cup AllReached(t)
  <1>1. ToSet(s \o t) = ToSet(s) \cup ToSet(t)
    BY ConcatToSet
  <1> DEFINE A == ToSet(s)
             B == ToSet(t)
             C == ToSet(s \o t)
  <1> HIDE DEF A, B, C
  <1>2. C = A \cup B
    BY <1>1 DEF A, B, C
  <1>3. UNION {Reached(w) : w \in C}
          = (UNION {Reached(w) : w \in A}) \cup (UNION {Reached(w) : w \in B})
    BY <1>2
  <1>4. QED BY <1>3 DEF AllReached, A, B, C

(* Popping an item loses no combination: it is planned itself, and its      *)
(* branches reach the others.                                              *)
LEMMA BranchesReach ==
  ASSUME NEW w \in Work, NEW b \in Branches(w)
  PROVE  /\ \A v \in ToSet(b) : w.functions \subseteq v.functions
         /\ AllReached(b) \cup (IF IsPlanned(w) THEN {w.functions} ELSE {}) = Reached(w)
  <1> DEFINE F == w.functions
             R == w.rest
             n == Cardinality(F)
             own == IF IsPlanned(w) THEN {w.functions} ELSE {}
  <1>1. F \in SUBSET Fn /\ R \in SUBSET Fn /\ n \in Nat /\ IsFiniteSet(F) /\ MaxMergeSize \in Nat
    BY FiniteSetsOfFunctions, ExhaustiveAssumption DEF Work
  <1>2. own \subseteq Reached(w)
    BY DEF IsPlanned, Reached, IsSize
  <1>3. CASE R = {} \/ n >= MaxMergeSize
    <2>1. b = << >>
      BY <1>3 DEF Branches
    <2>2. ToSet(b) = {} /\ AllReached(b) = {}
      BY <2>1 DEF ToSet, AllReached
    <2>3. ASSUME NEW U \in Reached(w) PROVE U \in own
      <3>1. U \in SUBSET (F \cup R) /\ F \subseteq U /\ IsSize(Cardinality(U))
        BY DEF Reached
      <3>2. IsFiniteSet(U) /\ Cardinality(U) \in Nat
        BY <1>1, <3>1, FiniteSetsOfFunctions
      <3>3. U = F
        <4>1. CASE R = {}
          BY <3>1, <4>1
        <4>2. CASE n >= MaxMergeSize
          <5>1. n <= Cardinality(U) /\ (n = Cardinality(U) => F = U)
            BY <3>1, <3>2, FS_Subset
          <5>2. n = Cardinality(U)
            BY <1>1, <3>1, <3>2, <4>2, <5>1 DEF IsSize
          <5>3. QED BY <5>1, <5>2
        <4>3. QED BY <1>3, <4>1, <4>2
      <3>4. QED BY <3>1, <3>3 DEF IsSize, IsPlanned
    <2>4. QED BY <1>2, <2>2, <2>3
  <1>4. CASE ~ (R = {} \/ n >= MaxMergeSize)
    <2>1. PICK c \in R :
            b = << [functions |-> F \cup {c}, rest |-> R \ {c}],
                   [functions |-> F, rest |-> R \ {c}] >>
      BY <1>4 DEF Branches
    <2> DEFINE v1 == [functions |-> F \cup {c}, rest |-> R \ {c}]
               v2 == [functions |-> F, rest |-> R \ {c}]
    <2>2. ToSet(b) = {v1, v2}
      <3>1. DOMAIN b = {1, 2} /\ b[1] = v1 /\ b[2] = v2
        BY <2>1
      <3> HIDE DEF v1, v2
      <3>2. QED BY <3>1 DEF ToSet
    <2>9. F \subseteq v1.functions /\ F \subseteq v2.functions
      OBVIOUS
    <2>3. AllReached(b) = Reached(v1) \cup Reached(v2)
      BY <2>2 DEF AllReached
    <2>4. Reached(v1) \subseteq Reached(w) /\ Reached(v2) \subseteq Reached(w)
      BY DEF Reached
    <2>5. ASSUME NEW U \in Reached(w) PROVE U \in Reached(v1) \cup Reached(v2)
      <3>1. U \in SUBSET (F \cup R) /\ F \subseteq U /\ IsSize(Cardinality(U))
        BY DEF Reached
      <3>2. CASE c \in U
        BY <3>1, <3>2 DEF Reached
      <3>3. CASE c \notin U
        BY <3>1, <3>3 DEF Reached
      <3>4. QED BY <3>2, <3>3
    <2> HIDE DEF v1, v2
    <2>6. \A v \in ToSet(b) : F \subseteq v.functions
      BY <2>2, <2>9
    <2>7. own \cup AllReached(b) = Reached(w)
      <3> HIDE DEF own
      <3>1. QED BY <1>2, <2>3, <2>4, <2>5
    <2>8. QED BY <2>6, <2>7
  <1>5. QED BY <1>3, <1>4

LEMMA PopWorkReaches ==
  ASSUME TypeOK, CombinationsInv, PopWork
  PROVE  CombinationsInv'
  <1> DEFINE w == Last(worklist)
             front == Front(worklist)
             own == IF IsPlanned(w) THEN {w.functions} ELSE {}
  <1>1. worklist \in Seq(Work) /\ worklist # << >> /\ tried \in Seq(SUBSET Fn)
    BY DEF TypeOK, PopWork
  <1>2. front \in Seq(Work) /\ w \in Work /\ worklist = front \o <<w>>
    BY <1>1, FrontProperties
  <1>3. PICK b \in Branches(w) : worklist' = front \o b
    BY DEF PopWork
  <1>4. b \in Seq(Work)
    BY <1>2, <1>3, BranchesTyped
  <1>5. /\ exploring # None /\ exploring' = exploring /\ candidates' = candidates
        /\ nextSource' = nextSource
        /\ tried' = IF IsPlanned(w) THEN Append(tried, w.functions) ELSE tried
    BY DEF PopWork, candidateVars
  <1>6. ToSet(tried') = ToSet(tried) \cup own
    <2>1. CASE IsPlanned(w)
      <3>1. w.functions \in SUBSET Fn
        BY <1>2 DEF Work
      <3>2. Append(tried, w.functions) = tried \o <<w.functions>>
        BY <1>1, <3>1
      <3>3. ToSet(<<w.functions>>) = {w.functions} /\ <<w.functions>> \in Seq(SUBSET Fn)
        BY <3>1 DEF ToSet
      <3>4. own = {w.functions} /\ tried' = tried \o <<w.functions>>
        BY <1>5, <2>1, <3>2
      <3> DEFINE last == <<w.functions>>
      <3>5. last \in Seq(SUBSET Fn) /\ ToSet(last) = {w.functions} /\ tried' = tried \o last
        BY <3>3, <3>4
      <3> HIDE DEF w, own, last
      <3>6. ToSet(tried \o last) = ToSet(tried) \cup ToSet(last)
        BY <1>1, <3>5, ConcatToSet
      <3>7. QED BY <3>4, <3>5, <3>6
    <2>2. CASE ~ IsPlanned(w)
      BY <1>5, <2>2
    <2>3. QED BY <2>1, <2>2
  <1> HIDE DEF w, front, own
  <1>7. ToSet(<<w>>) = {w} /\ <<w>> \in Seq(Work)
    BY <1>2 DEF ToSet
  <1>8. AllReached(worklist) = AllReached(front) \cup Reached(w)
    <2>1. AllReached(<<w>>) = Reached(w)
      BY <1>7 DEF AllReached
    <2>2. QED BY <1>2, <1>7, <2>1, ReachedConcat
  <1>9. AllReached(worklist') = AllReached(front) \cup AllReached(b)
    BY <1>2, <1>3, <1>4, ReachedConcat
  <1>10. /\ \A v \in ToSet(b) : w.functions \subseteq v.functions
         /\ AllReached(b) \cup own = Reached(w)
    BY <1>2, <1>3, BranchesReach DEF own
  <1>11. ToSet(tried') \cup AllReached(worklist') = ToSet(tried) \cup AllReached(worklist)
    BY <1>6, <1>8, <1>9, <1>10
  <1>12. \A v \in ToSet(worklist') : exploring \in v.functions
    <2>1. ToSet(worklist') = ToSet(front) \cup ToSet(b)
      BY <1>2, <1>3, <1>4, ConcatToSet
    <2>2. ToSet(worklist) = ToSet(front) \cup {w}
      <3>1. ToSet(front \o <<w>>) = ToSet(front) \cup ToSet(<<w>>)
        BY <1>2, <1>7, ConcatToSet
      <3>2. QED BY <1>2, <1>7, <3>1
    <2>3. \A v \in ToSet(worklist) : exploring \in v.functions
      BY <1>5 DEF CombinationsInv
    <2>4. QED BY <1>10, <2>1, <2>2, <2>3
  <1>13. QED BY <1>5, <1>11, <1>12 DEF CombinationsInv

LEMMA StartReaches ==
  ASSUME NEW f, NEW C, StartExploring(f, C)
  PROVE  /\ exploring' = f
         /\ \A w \in ToSet(worklist') : f \in w.functions
         /\ ToSet(tried') \cup AllReached(worklist') = Reached([functions |-> {f}, rest |-> C])
  <1> DEFINE w == [functions |-> {f}, rest |-> C]
  <1>1. worklist' = <<w>> /\ tried' = << >> /\ exploring' = f
    BY DEF StartExploring
  <1>2. ToSet(worklist') = {w} /\ ToSet(tried') = {}
    <2> HIDE DEF w
    <2>1. QED BY <1>1 DEF ToSet
  <1>3. f \in w.functions
    OBVIOUS
  <1> HIDE DEF w
  <1>4. QED BY <1>1, <1>2, <1>3 DEF AllReached, w

LEMMA CombinationsNext == IInv /\ CombinationsInv /\ [Next]_vars => CombinationsInv'
  <1> SUFFICES ASSUME IInv, CombinationsInv, [Next]_vars PROVE CombinationsInv'
    OBVIOUS
  <1>1. CASE ExploreSource
    <2>1. /\ exploring = None /\ StartExploring(nextSource, candidates)
          /\ nextSource \in 1 .. NumSources /\ nextSource' = nextSource + 1
          /\ candidates' = candidates /\ NumSources \in Nat
      BY <1>1, ExhaustiveAssumption DEF ExploreSource, candidateVars, Source
    <2>2. nextSource' .. NumSources = (nextSource .. NumSources) \ {nextSource}
          /\ nextSource \in nextSource .. NumSources
      BY <2>1
    <2>3. QED BY <2>1, <2>2, StartReaches DEF CombinationsInv
  <1>2. CASE WorkWithoutPlan \/ PlanWork
    BY <1>2, PopWorkReaches DEF WorkWithoutPlan, PlanWork, WorkWithPlan, IInv
  <1>3. CASE FinishExploring
    <2>1. /\ candidates' = candidates \cup {exploring} /\ exploring' = None
          /\ nextSource' = nextSource
      BY <1>3 DEF FinishExploring
    <2>2. /\ candidates \in SUBSET Fn /\ exploring \in Fn /\ nextSource \in Nat /\ nextSource # 0
      BY <1>3 DEF FinishExploring, IInv, TypeOK
    <2>3. None \notin candidates' \cup nextSource' .. NumSources
      BY <2>1, <2>2, Constants DEF None
    <2>4. QED BY <2>1, <2>3 DEF CombinationsInv
  <1>4. CASE ApplyBestPlan
    <2>1. /\ StartExploring(Last(queue), candidates') /\ candidates' \subseteq candidates
          /\ nextSource' = nextSource /\ nextSource \notin Source /\ queue # << >>
      BY <1>4 DEF ApplyBestPlan, Picking
    <2>2. nextSource .. NumSources = {}
      BY <2>1, ExhaustiveAssumption DEF IInv, TypeOK, Source
    <2>3. Last(queue) \notin candidates
      <3>1. queue \in Seq(Fn)
        BY DEF IInv, TypeOK
      <3>2. Last(queue) \in ToSet(queue)
        BY <2>1, <3>1, FrontProperties, LenProperties DEF ToSet
      <3>3. QED BY <3>2 DEF IInv, QueueInv, Mergeable
    <2>4. QED BY <2>1, <2>2, <2>3, StartReaches DEF CombinationsInv
  <1>5. CASE DropDeadPlan \/ StopExploring
    BY <1>5 DEF DropDeadPlan, StopExploring, candidateVars, Picking, CombinationsInv
  <1>6. CASE UNCHANGED vars
    BY <1>6 DEF vars, CombinationsInv
  <1>7. QED BY <1>1, <1>2, <1>3, <1>4, <1>5, <1>6 DEF Next

(* When tryPlanWithAllCandidates has emptied its worklist, it has planned  *)
(* the new function with every combination of candidates that a merge may  *)
(* have: the branching over them leaves out none.                          *)
THEOREM ExplorationIsComplete == Spec => []AllCombinationsTried
  <1>1. Init => CombinationsInv
    BY Constants DEF Init, CombinationsInv, Source
  <1>2. IInv /\ CombinationsInv => AllCombinationsTried
    <2> SUFFICES ASSUME IInv, CombinationsInv, exploring # None, worklist = << >>
                 PROVE  ToSet(tried) = {S \cup {exploring} :
                            S \in {T \in SUBSET candidates :
                                     T # {} /\ Cardinality(T) < MaxMergeSize}}
      BY DEF AllCombinationsTried
    <2>1. AllReached(worklist) = {}
      BY DEF AllReached, ToSet
    <2> DEFINE A == {T \in SUBSET candidates : T # {} /\ Cardinality(T) < MaxMergeSize}
               w == [functions |-> {exploring}, rest |-> candidates]
    <2>2. ToSet(tried) = Reached(w)
      BY <2>1 DEF CombinationsInv
    <2>3. exploring \notin candidates /\ candidates \in SUBSET Fn /\ MaxMergeSize \in Nat
      BY ExhaustiveAssumption DEF CombinationsInv, IInv, TypeOK
    <2>4. ASSUME NEW T \in SUBSET candidates
          PROVE  /\ IsFiniteSet(T) /\ Cardinality(T) \in Nat
                 /\ Cardinality(T \cup {exploring}) = Cardinality(T) + 1
                 /\ T # {} <=> Cardinality(T) > 0
      <3>1. IsFiniteSet(T) /\ Cardinality(T) \in Nat
        BY <2>3, FiniteSetsOfFunctions
      <3>2. Cardinality(T \cup {exploring}) = Cardinality(T) + 1
        BY <2>3, <3>1, FS_AddElement
      <3>3. QED BY <3>1, <3>2, FS_EmptySet
    <2>5. ASSUME NEW T \in A PROVE T \cup {exploring} \in Reached(w)
      <3>1. T \in SUBSET candidates /\ T # {} /\ Cardinality(T) < MaxMergeSize
        OBVIOUS
      <3> HIDE DEF A, w
      <3>2. IsSize(Cardinality(T \cup {exploring}))
        <4>1. /\ Cardinality(T) \in Nat /\ Cardinality(T) > 0
              /\ Cardinality(T \cup {exploring}) = Cardinality(T) + 1
          BY <2>4, <3>1
        <4>2. QED BY <2>3, <3>1, <4>1 DEF IsSize
      <3>3. QED BY <3>1, <3>2 DEF Reached, w
    <2>6. ASSUME NEW U \in Reached(w) PROVE \E T \in A : U = T \cup {exploring}
      <3> DEFINE T == U \ {exploring}
      <3>1. /\ U \in SUBSET (candidates \cup {exploring}) /\ exploring \in U
            /\ IsSize(Cardinality(U))
        BY DEF Reached
      <3>2. T \in SUBSET candidates /\ U = T \cup {exploring}
        BY <3>1
      <3> HIDE DEF T
      <3>3. T # {} /\ Cardinality(T) < MaxMergeSize
        <4>1. /\ Cardinality(T) \in Nat /\ Cardinality(U) = Cardinality(T) + 1
              /\ T # {} <=> Cardinality(T) > 0
          BY <2>4, <3>2
        <4>2. QED BY <2>3, <3>1, <4>1 DEF IsSize
      <3>4. QED BY <3>2, <3>3
    <2> HIDE DEF A, w
    <2>7. Reached(w) = {S \cup {exploring} : S \in A}
      BY <2>5, <2>6
    <2>8. QED BY <2>2, <2>7 DEF A
  <1>3. QED BY <1>1, <1>2, InvInit, InvNext, CombinationsNext, PTL DEF Spec
=============================================================================
