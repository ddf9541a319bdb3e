------------------------ MODULE MCSimilarFunctions ------------------------
(***************************************************************************)
(* Small modules for MergeSimilarFunctions, each with every order of the    *)
(* use lists it may be read with.                                          *)
(***************************************************************************)
EXTENDS SimilarFunctions

Op(op) == [op |-> op, callee |-> None, cast |-> FALSE, choice |-> 0, arg |-> None]
Call(f) == [Op("call") EXCEPT !.callee = f]
CallPassing(f, g) == [Call(f) EXCEPT !.arg = g]
Pass(f) == [Op("pass") EXCEPT !.arg = f]
FnOf(type, name, linkage, shape, code) ==
  [name |-> <<name>>, linkage |-> linkage, shape |-> shape, type |-> type, blocks |-> 2,
   codes |-> <<code>>]
Fn(name, linkage, shape, code) == FnOf(<<"p">>, name, linkage, shape, code)

OfOneBlock(f) == [f EXCEPT !.blocks = 1]
Declaration(name) == [Fn(name, "external", "leaf", <<>>) EXCEPT !.codes = <<>>]

UsesOf(fns, f) ==
  UNION {UNION {{[by |-> g, pos |-> k, role |-> role] :
                   role \in {r \in Roles : Referred(Code(fns[g])[k], r) = f}}
                : k \in DOMAIN Code(fns[g])} : g \in DOMAIN fns}

CastBefore(fns) ==
  {f \in DOMAIN fns : \E g \in DOMAIN fns : \E i \in Range(Code(fns[g])) : i.callee = f /\ i.cast}

UseLists(fns) ==
  LET upto[n \in 0..Len(fns)] ==
        IF n = 0 THEN {<<>>}
        ELSE {Append(lists, uses) : lists \in upto[n - 1], uses \in SetToSeqs(UsesOf(fns, n))}
  IN upto[Len(fns)]

Modules(fns, data) ==
  {[fns |-> fns, data |-> data, casts |-> CastBefore(fns), uses |-> uses, next |-> Len(fns) + 1] :
     uses \in UseLists(fns)}

(* Two leaves that match, one of them in a table; their callers match once  *)
(* the calls have been redirected.                                         *)
Twins ==
  Modules(<<Fn("f", "external", "caller", <<Op("a"), Call(3)>>),
            Fn("g", "external", "caller", <<Op("a"), Call(4)>>),
            Fn("u", "internal", "leaf", <<Op("a"), Op("b")>>),
            Fn("v", "internal", "leaf", <<Op("a"), Op("b")>>),
            Fn("w", "internal", "leaf", <<Op("a"), Op("b")>>)>>, <<5>>)

(* The address of a function that matches another is passed on.            *)
Passed ==
  Modules(<<Fn("f", "external", "caller", <<Op("a"), Pass(3)>>),
            Fn("u", "external", "leaf", <<Op("a"), Op("b")>>),
            Fn("v", "internal", "leaf", <<Op("a"), Op("b")>>),
            OfOneBlock(Fn("t", "external", "leaf", <<Call(3)>>))>>, <<>>)

(* Four functions, of which the first is most like the second, and the      *)
(* third most like the fourth.                                             *)
Similar ==
  Modules(<<Fn("f", "external", "s", <<Op("a"), Op("b"), Op("c"), Op("d")>>),
            Fn("g", "external", "s", <<Op("a"), Op("b"), Op("c"), Op("e")>>),
            Fn("h", "internal", "s", <<Op("a"), Op("b"), Op("x"), Op("y")>>),
            Fn("i", "weak", "s", <<Op("a"), Op("b"), Op("x"), Op("z")>>),
            Fn("j", "external", "s", <<Op("a"), Op("b"), Op("x"), Op("z")>>),
            Fn("k", "external", "top", <<Call(3), Call(4)>>)>>, <<>>)

(* Recursive functions with a difference: two, and three.                   *)
Recursive ==
  Modules(<<Fn("f", "external", "s", <<Op("a"), Call(1), Op("c")>>),
            Fn("g", "internal", "s", <<Op("a"), Call(2), Op("d")>>),
            Fn("h", "external", "top", <<Call(2), Op("a")>>)>>, <<>>)
  \cup
  Modules(<<Fn("f", "external", "s", <<Op("a"), Call(1), Op("c")>>),
            Fn("g", "internal", "s", <<Op("a"), Call(2), Op("d")>>),
            Fn("h", "external", "s", <<Op("a"), Call(3), Op("e")>>),
            Fn("i", "external", "top", <<Call(2), Op("a")>>)>>, <<>>)

(* Two functions that call each other, and two that are only declared.      *)
Mutual ==
  Modules(<<Fn("f", "external", "s", <<Op("a"), Call(2), Call(3)>>),
            Fn("g", "internal", "s", <<Op("a"), Call(1), Call(3)>>),
            Declaration("h"), Declaration("i")>>, <<1>>)

(* Weak functions that match: called, and recursive.                        *)
Weak ==
  Modules(<<Fn("f", "external", "caller", <<Op("a"), Call(3)>>),
            Fn("g", "external", "caller", <<Op("a"), Call(4)>>),
            Fn("u", "weak", "leaf", <<Op("a"), Op("b")>>),
            Fn("v", "weak", "leaf", <<Op("a"), Op("b")>>)>>, <<>>)
  \cup
  Modules(<<Fn("u", "weak", "leaf", <<Op("a"), Call(1)>>),
            Fn("v", "weak", "leaf", <<Op("a"), Call(2)>>)>>, <<>>)

(* Every module of functions of one shape, with these linkages, of two      *)
(* instructions each: the first is one of those given, the second may       *)
(* differ.                                                                 *)
Family(linkages, firsts) ==
  LET codes == {<<i, Op(op)>> : i \in firsts, op \in {"b", "c"}}
  IN UNION {Modules([f \in DOMAIN linkages |-> Fn(ToString(f), linkages[f], "s", code[f])], <<2>>) :
              code \in [DOMAIN linkages -> codes]}

Pairs ==
  UNION {Family(linkages, {Op("a"), Pass(1), Pass(2), Call(1), Call(2)}) :
           linkages \in {"external", "internal", "weak"} \X {"internal", "weak"}}
Triples ==
  UNION {Family(linkages, {Op("a"), Call(1), Call(2), Call(3)}) :
           linkages \in {<<"external", "internal", "internal">>, <<"internal", "weak", "weak">>}}

(* Functions that match, one of them of another type; their callees match   *)
(* too and are merged first.  The first function is compared again when the *)
(* others have become thunks that call the second, and takes its place.     *)
Casting(linkages, type, blocks) ==
  LET fn(k, name, callee) ==
        [FnOf(IF k = 2 THEN type ELSE <<"p", "p", "p">>, name, linkages[k], "s",
              <<Op("a"), Call(callee), Op("b")>>) EXCEPT !.blocks = blocks]
  IN Modules(<<fn(1, "e", 6), fn(2, "f", 5), fn(3, "g", 5), fn(4, "h", 5),
               Fn("u", "internal", "leaf", <<Op("a"), Op("b")>>),
               Fn("v", "internal", "leaf", <<Op("a"), Op("b")>>),
               Fn("x", "external", "top", <<Call(3), Op("a"), Call(4)>>)>>, <<4>>)

(* The linkages of the four, the types of the second, and its blocks: the    *)
(* thunks have up to three casts, and a bucket of their own or not.         *)
Casts ==
  UNION {Casting(linkages, type, blocks) :
           linkages \in {<<"external", "external", "external", "external">>,
                         <<"external", "external", "internal", "external">>,
                         <<"external", "internal", "external", "external">>,
                         <<"external", "internal", "internal", "internal">>,
                         <<"external", "weak", "external", "external">>,
                         <<"weak", "weak", "weak", "weak">>},
           type \in {<<"p", "p", "p">>, <<"q", "q", "q">>, <<"p", "q", "q">>, <<"p", "q", "p">>},
           blocks \in {1, 2}}

(* A weak function that calls another weak function may keep the pass from   *)
(* returning.                                                              *)
CallsWeak(m) == \E f \in DOMAIN m.fns : \E i \in Range(Code(m.fns[f])) :
                  /\ i.callee \notin {None, f}
                  /\ IsInterposable(m.fns[f]) /\ IsInterposable(m.fns[i.callee])

MCGiven == {m \in Pairs \cup Triples \cup Twins \cup Passed \cup Similar \cup Recursive \cup Mutual
                   \cup Weak \cup Casts : ~ CallsWeak(m)}

(* One whose thunks have two casts and go back to the queue.                 *)
MCThunks == Casting(<<"external", "external", "external", "external">>, <<"p", "q", "q">>, 1)

(* Two weak functions that match and call the second.                        *)
MCEndless ==
  Modules(<<Fn("u", "weak", "leaf", <<Op("a"), Call(2)>>),
            Fn("v", "weak", "leaf", <<Op("a"), Call(2)>>)>>, <<>>)

(* Two that pass the address of the first in their recursive call.          *)
MCSelfRef ==
  Modules(<<Fn("f", "external", "s", <<Op("a"), CallPassing(1, 1), Op("c")>>),
            Fn("g", "external", "s", <<Op("a"), CallPassing(2, 1), Op("d")>>)>>, <<>>)
=============================================================================
