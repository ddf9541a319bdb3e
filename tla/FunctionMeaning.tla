-------------------------- MODULE FunctionMeaning --------------------------
(***************************************************************************)
(* What a call comes to: the code of the original module it ends up in,    *)
(* and the values that code's parameters then have, whatever thunks and    *)
(* merged functions lie in between.                                        *)
(***************************************************************************)
EXTENDS ModuleFunctions

(* The path that runs in f for these arguments. *)
Running(f, args) ==
  {p \in f.body : \A t \in p.tests : args[t[1]] = Id(t[2])}

(* Where a call of f is after one more function: at code of the original     *)
(* module, where it stays, or at the calls of a path that only forwards; at *)
(* nothing if f is gone or does not take the arguments.                     *)
Through(mod, call) ==
  LET f == call.f
      args == call.args
  IN CASE call.there -> {call}
       [] ~ call.there /\ (f \notin DOMAIN mod.fns \/ Len(args) # Len(mod.fns[f].sig)) -> {}
       [] ~ call.there /\ f \in DOMAIN mod.fns /\ Len(args) = Len(mod.fns[f].sig) ->
            IF IsDeclaration(mod.fns[f]) THEN {[call EXCEPT !.there = TRUE]}
            ELSE UNION {IF p.source # None
                        THEN {[f |-> p.source, there |-> TRUE,
                               args |-> [i \in DOMAIN p.env |-> args[p.env[i]]]]}
                        ELSE {[f |-> s.callee, there |-> FALSE,
                               args |-> [k \in DOMAIN s.args |-> Substitute(s.args[k], args)]] :
                                s \in p.sites} :
                          p \in Running(mod.fns[f], args)}

(* <<function of the original module, its arguments>> for every path a call *)
(* of f may take.  It takes every path that only forwards once at most.     *)
Meaning(mod, f, args) ==
  LET paths == UNION {{g} \X mod.fns[g].body : g \in DOMAIN mod.fns}
      forwarding == {path \in paths : path[2].source = None}
      most == 1 + Cardinality(forwarding)
      reached[n \in 0 .. most] ==
        IF n = 0 THEN {[f |-> f, args |-> args, there |-> FALSE]}
        ELSE UNION {Through(mod, call) : call \in reached[n - 1]}
  IN {<<call.f, call.args>> : call \in {call \in reached[most] : call.there}}

(* The values a function is entered with, none of them known. *)
Parameters(sig) == [i \in DOMAIN sig |-> Arg(i)]

(* A call still runs the code, with the values, it ran in the original      *)
(* module.  (A forwarding call is judged by those who reach it.)           *)
SiteKeepsItsMeaning(mod, s) ==
  s.was # None => Meaning(mod, s.callee, s.args) = {<<s.was, s.wasArgs>>}

(* An address still leads to the code it led to. *)
LeadsTo(mod, f, was, sig) ==
  Meaning(mod, f, Parameters(sig)) = {<<was, Parameters(sig)>>}
=============================================================================
