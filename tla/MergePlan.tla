----------------------------- MODULE MergePlan -----------------------------
(***************************************************************************)
(* One merge of several functions, from the plan to its application        *)
(* (MSAFunctionMerger::planMerge, MSAMergePlan).  A plan is speculative:   *)
(* its merged function and its thunks are in the module as soon as it is   *)
(* made, while everything still uses the functions it would replace.       *)
(*                                                                         *)
(* A plan is [merged, parts, rows, thunks]: the merged function, the       *)
(* functions it merges, the parameter layout, and for each part its thunk, *)
(* or None if the part's calls are to be replaced and the part erased.     *)
(***************************************************************************)
EXTENDS ModuleFunctions, ParameterLayout

NoPlan == [merged |-> None, parts |-> <<>>, rows |-> <<>>, thunks |-> <<>>]

Main == <<"main">>

(* Bug: the callees need not agree. *)
MatchCallsAlways(s, t) == TRUE

(* Two calls may become one instruction of the merged function. *)
MatchCalls(s, t) == s.callee = t.callee

(* A call whose callee depends on the discriminator selects among the       *)
(* addresses of the callees.                                               *)
SelectedCallees(bodies) ==
  LET calls(k) == UNION {p.sites : p \in bodies[k]}
      unmatched(j, k) == {s \in calls(j) : \E t \in calls(k) :
                            j # k /\ MatchCalls(s, t) /\ s.callee # t.callee}
  IN {[is |-> s.callee, was |-> s.was] :
        s \in UNION {unmatched(j, k) : j, k \in DOMAIN bodies}}

(* A path of a part inside the merged function: its parameters are where    *)
(* the layout put them, and it runs for the part's discriminator only.     *)
MergedPath(p, id, row) ==
  LET value(v) == IF v[1] = "arg" THEN Arg(row[v[2]]) ELSE v
      values(vs) == [k \in DOMAIN vs |-> value(vs[k])]
  IN [tests  |-> {<<1, id>>} \cup {<<row[t[1]], t[2]>> : t \in p.tests},
      source |-> p.source,
      env    |-> [i \in DOMAIN p.env |-> row[p.env[i]]],
      sites  |-> {[s EXCEPT !.args = values(@), !.wasArgs = values(@)] : s \in p.sites},
      refs   |-> p.refs]

MergedBody(bodies, ids, rows) ==
  LET selected == SelectedCallees(bodies)
  IN {[p EXCEPT !.refs = @ \cup selected] :
        p \in UNION {{MergedPath(p, ids[k], rows[k]) : p \in bodies[k]} :
                       k \in DOMAIN bodies}}

(* layoutReturnType: void does not count. *)
ReturnTypes(fs) == {fs[k].ret : k \in DOMAIN fs} \ {"void"}
ReturnType(fs) ==
  IF ReturnTypes(fs) = {} THEN "void" ELSE CHOOSE t \in ReturnTypes(fs) : TRUE

(* computePersonalityFn: a function without one does not count. *)
Personalities(fs) == {fs[k].pers : k \in DOMAIN fs} \ {"none"}
PersonalityFn(fs) ==
  IF Personalities(fs) = {} THEN "none" ELSE CHOOSE p \in Personalities(fs) : TRUE

(* getFunctionName *)
FunctionName(fs) == <<"__mf_merge">> \o FlattenSeq([k \in DOMAIN fs |-> fs[k].name])

(* emit: the merged function of parts fs in a module. *)
Emit(mod, fs, layout) ==
  [name    |-> UniqueName(mod, FunctionName(fs)),
   linkage |-> "internal",
   sig     |-> layout.params,
   ret     |-> ReturnType(fs),
   pers    |-> PersonalityFn(fs),
   body    |-> MergedBody([k \in DOMAIN fs |-> fs[k].body],
                          [k \in DOMAIN fs |-> k - 1], layout.rows)]

(* What emit leaves behind when the personalities differ. *)
EmitDeclaration(mod, fs, layout) ==
  [Emit(mod, fs, layout) EXCEPT !.body = {}, !.pers = "none"]

(* MSAThunkFunction::create *)
Thunk(mod, f, m, params, id, row) ==
  [f EXCEPT !.name = UniqueName(mod, <<"__mf_thunk">> \o @),
            !.body = {Forward(m, params, id, row)}]

(* Nothing but the module itself can name the function. *)
CanReplaceCalls(mod, f) ==
  /\ ~ HasAddressTaken(mod, f)
  /\ mod.fns[f].name # Main
  /\ IsDiscardableIfUnused(mod.fns[f])

Planned(mod, parts, layout) ==
  LET m == mod.next
      fs == [k \in DOMAIN parts |-> mod.fns[parts[k]]]
      merged == AddFunction(mod, Emit(mod, fs, layout))
      thunked == {k \in DOMAIN parts : ~ CanReplaceCalls(merged, parts[k])}
      thunks == [k \in DOMAIN parts |->
                   IF k \in thunked THEN m + Cardinality({j \in thunked : j <= k}) ELSE None]
      part(g) == CHOOSE k \in thunked : thunks[k] = g
      created == (m + 1) .. (m + Cardinality(thunked))
  IN [plan |-> [merged |-> m, parts |-> parts, rows |-> layout.rows, thunks |-> thunks],
      mod  |-> [merged EXCEPT
                  !.fns = [g \in DOMAIN @ \cup created |->
                             IF g \in created
                             THEN Thunk(merged, fs[part(g)], m, layout.params,
                                        part(g) - 1, layout.rows[part(g)])
                             ELSE @[g]],
                  !.next = m + Cardinality(thunked) + 1]]

(* planMerge: [mod, plan] of each of its outcomes.  The functions may not   *)
(* align, not be profitable, be denied, fail to emit or to verify.         *)
PlanMerge(mod, parts) ==
  LET fs == [k \in DOMAIN parts |-> mod.fns[parts[k]]]
      layouts == Layouts([k \in DOMAIN parts |-> fs[k].sig])
      refused == [mod |-> mod, plan |-> NoPlan]
      left(l) == [mod |-> AddFunction(mod, EmitDeclaration(mod, fs, l)), plan |-> NoPlan]
  IN {refused} \cup
     CASE Cardinality(ReturnTypes(fs)) > 1 -> {}
       [] Cardinality(ReturnTypes(fs)) <= 1 /\ Cardinality(Personalities(fs)) > 1 ->
            {left(l) : l \in layouts}
       [] OTHER -> {Planned(mod, parts, l) : l \in layouts}

-----------------------------------------------------------------------------
Parts(plan) == Range(plan.parts)
ReplacedParts(plan) == {plan.parts[k] : k \in {k \in DOMAIN plan.parts : plan.thunks[k] = None}}

(* applyMerge: the calls of the replaced parts first, then the thunks.  The *)
(* parts differ, so the order among them does not show.                    *)
ApplyCallReplacements(mod, plan) ==
  LET part(f) == CHOOSE k \in DOMAIN plan.parts : plan.parts[k] = f
      site == [s \in Sites(mod) |->
                 IF s.callee \in ReplacedParts(plan)
                 THEN CallMerged(s, plan.merged, mod.fns[plan.merged].sig,
                                 part(s.callee) - 1, plan.rows[part(s.callee)])
                 ELSE s]
  IN Erase(MapUses(mod, site, [r \in Refs(mod) |-> r]), ReplacedParts(plan))

ThunkedParts(plan) == Parts(plan) \ ReplacedParts(plan)
ThunkOf(plan, f) == plan.thunks[CHOOSE k \in DOMAIN plan.parts : plan.parts[k] = f]

(* Bug: the thunks keep their names. *)
WithNamesKept(mod, plan) == mod

(* Every thunk takes the name of its function. *)
WithNamesTaken(mod, plan) ==
  [mod EXCEPT !.fns =
     [g \in DOMAIN @ |->
        IF \E f \in ThunkedParts(plan) : ThunkOf(plan, f) = g
        THEN [@[g] EXCEPT !.name =
                mod.fns[CHOOSE f \in ThunkedParts(plan) : ThunkOf(plan, f) = g].name]
        ELSE @[g]]]

(* Every use of a thunked part goes to its thunk, which takes its name. *)
ApplyThunks(mod, plan) ==
  LET to(f) == IF f \in ThunkedParts(plan) THEN ThunkOf(plan, f) ELSE f
      site == [s \in Sites(mod) |-> [s EXCEPT !.callee = to(@)]]
      ref == [r \in Refs(mod) |-> [r EXCEPT !.is = to(@)]]
  IN Erase(MapUses(WithNamesTaken(mod, plan), site, ref), ThunkedParts(plan))

ApplyMerge(mod, plan) == ApplyThunks(ApplyCallReplacements(mod, plan), plan)

(* Bug: the thunks stay. *)
DiscardPlanPartly(mod, plan) == Erase(mod, {plan.merged})

(* MSAMergePlan::discard *)
DiscardPlan(mod, plan) == Erase(mod, {plan.merged} \cup (Range(plan.thunks) \ {None}))
=============================================================================
