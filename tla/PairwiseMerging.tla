-------------------------- MODULE PairwiseMerging --------------------------
(***************************************************************************)
(* One merge of two functions by a pairwise pass: "func-merging"           *)
(* (FunctionMerging.cpp), "fastfm" (FastFM.cpp) or "fmsa" (FMSA.cpp).      *)
(* Nothing is speculative here: a merged function that is not wanted is    *)
(* erased before anything else happens, and the bodies of the merged       *)
(* functions become calls of the merged function in place.                 *)
(***************************************************************************)
EXTENDS MergePlan

(* The discriminator of each function of a pair: the code asks whether it   *)
(* is the second function in func-merging, the first one elsewhere.        *)
PairIds(pass) == IF pass = "func-merging" THEN <<0, 1>> ELSE <<1, 0>>

(* validMergePair, filterMergePair in FMSA *)
ValidMergePair(pass, f1, f2) ==
  IF pass = "fmsa"
  THEN f1.pers = "none" \/ f2.pers = "none" \/ f1.pers = f2.pers
  ELSE f1.linkage # "linkonce" /\ f2.linkage # "linkonce" /\ f1.pers = f2.pers

(* validMergeTypes *)
ValidMergeTypes(f1, f2) == f1.ret = "void" \/ f2.ret = "void" \/ f1.ret = f2.ret

(* The merged function is named after its functions in func-merging, after  *)
(* their number in fastfm, and has no name in fmsa.                        *)
PairName(pass, f1, f2) ==
  CASE pass = "func-merging" -> <<"__fm_merge">> \o f1.name \o f2.name
    [] pass = "fastfm" -> <<".m.f">>
    [] pass = "fmsa" -> <<>>

(* In fmsa the merged function has the linkage its functions have in common. *)
PairLinkage(pass, f1, f2) ==
  IF pass = "fmsa" /\ f1.linkage = f2.linkage THEN f1.linkage ELSE "internal"

MergedPair(pass, mod, f1, f2, layout) ==
  [Emit(mod, <<f1, f2>>, layout) EXCEPT
     !.name = UniqueName(mod, PairName(pass, f1, f2)),
     !.linkage = PairLinkage(pass, f1, f2),
     !.body = MergedBody(<<f1.body, f2.body>>, PairIds(pass), layout.rows)]

(* replaceByCall: the body becomes a call of the merged function.  Deleting *)
(* a body makes the function external; only func-merging undoes that.      *)
ReplaceByCall(pass, mod, f, m, id, row) ==
  [mod EXCEPT !.fns[f].body = {Forward(m, mod.fns[m].sig, id, row)},
              !.fns[f].linkage = IF pass = "func-merging" THEN @ ELSE "external"]

(* replaceCallsWith, if calls are the only uses. *)
ReplaceCallsWith(mod, f, m, id, row) ==
  LET site == [s \in Sites(mod) |->
                 IF s.callee = f THEN CallMerged(s, m, mod.fns[m].sig, id, row) ELSE s]
  IN IF HasAddressTaken(mod, f) THEN mod ELSE MapUses(mod, site, [r \in Refs(mod) |-> r])

EraseIfUnused(mod, f, linkages) ==
  IF Unused(mod, f) /\ mod.fns[f].linkage \in linkages /\ mod.fns[f].name # Main
  THEN Erase(mod, {f}) ELSE mod

(* RequiresOriginalInterface *)
RequiresOriginalInterface(mod, f) == ~ CanReplaceCalls(mod, f)

(* updateCallGraph of func-merging and fastfm, for one of the functions. *)
UpdateCallGraphOf(pass, mod, f, m, id, row) ==
  LET called == ReplaceByCall(pass, mod, f, m, id, row)
  IN IF RequiresOriginalInterface(called, f) THEN called
     ELSE EraseIfUnused(ReplaceCallsWith(called, f, m, id, row), f, {"internal", "linkonce"})

(* UpdateCallGraph of fmsa: both bodies first, then all calls. *)
UpdateCallGraphOfBoth(mod, f1, f2, m, rows) ==
  LET ids == PairIds("fmsa")
      bodies == ReplaceByCall("fmsa", ReplaceByCall("fmsa", mod, f1, m, ids[1], rows[1]),
                              f2, m, ids[2], rows[2])
      calls == ReplaceCallsWith(ReplaceCallsWith(bodies, f1, m, ids[1], rows[1]),
                                f2, m, ids[2], rows[2])
  IN EraseIfUnused(EraseIfUnused(calls, f1, {"internal"}), f2, {"internal"})

UpdateCallGraph(pass, mod, f1, f2, m, rows) ==
  IF pass = "fmsa" THEN UpdateCallGraphOfBoth(mod, f1, f2, m, rows)
  ELSE LET ids == PairIds(pass)
           first == UpdateCallGraphOf(pass, mod, f1, m, ids[1], rows[1])
       IN UpdateCallGraphOf(pass, first, f2, m, ids[2], rows[2])

(* The module after functions f1 and f2 were merged, for every layout. *)
MergePair(pass, mod, f1, f2) ==
  LET F1 == mod.fns[f1]
      F2 == mod.fns[f2]
      merged(l) == AddFunction(mod, MergedPair(pass, mod, F1, F2, l))
  IN IF ~ ValidMergePair(pass, F1, F2) \/ ~ ValidMergeTypes(F1, F2) THEN {}
     ELSE {UpdateCallGraph(pass, merged(l), f1, f2, mod.next, l.rows) :
             l \in PairLayouts(F1.sig, F2.sig)}
=============================================================================
