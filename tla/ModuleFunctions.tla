-------------------------- MODULE ModuleFunctions --------------------------
(***************************************************************************)
(* The LLVM module as a merging pass changes it: its functions, who calls  *)
(* whom with which arguments, whose address is taken, and the names the    *)
(* linker sees.  A module is a record [fns, globals, next]: its functions  *)
(* by identity (a number never used again, as a pointer that may dangle),  *)
(* the functions its data refers to, and the next identity.                *)
(*                                                                         *)
(* A function is [name, linkage, sig, ret, pers, body].  Its body is a set *)
(* of paths; a path runs when the parameters it tests have the values it   *)
(* tests for.  A path is                                                   *)
(*   tests   pairs <<parameter, discriminator value>>                      *)
(*   source  the function of the original module whose code it is, or None *)
(*           if it only forwards to another function                       *)
(*   env     where the parameters of that function are                     *)
(*   sites   its calls: [callee, args], and what the original module       *)
(*           called there, [was, wasArgs]                                  *)
(*   refs    the functions it takes the address of: [is, was]              *)
(* A function without a body is a declaration.                             *)
(*                                                                         *)
(* A value is a pair: <<"arg", i>>, a parameter; <<"id", d>>, a constant   *)
(* discriminator; <<"local", n>>, any other value; <<"undef", 0>>.         *)
(***************************************************************************)
EXTENDS Integers, Sequences, FiniteSets, Functions, FiniteSetsExt, SequencesExt

None == 0

Value == {"arg", "id", "local", "undef"} \X Nat
Site == [callee : Nat, args : Seq(Value), was : Nat, wasArgs : Seq(Value)]
Ref == [is : Nat, was : Nat]
Path == [tests : SUBSET (Nat \X Nat), source : Nat, env : Seq(Nat),
         sites : SUBSET Site, refs : SUBSET Ref]
FunctionRecord == [name : Seq(STRING), linkage : STRING, sig : Seq(Nat), ret : STRING,
                   pers : STRING, body : SUBSET Path]

Undef == <<"undef", 0>>
Arg(i) == <<"arg", i>>
Id(d) == <<"id", d>>

IsDeclaration(f) == f.body = {}
IsLocal(f) == f.linkage = "internal"
IsDiscardableIfUnused(f) == f.linkage \in {"internal", "linkonce"}

(* A value of a callee in terms of the values it was called with. *)
Substitute(value, args) == IF value[1] = "arg" THEN args[value[2]] ELSE value

(* The operands of a call to the merged function: the discriminator, the    *)
(* arguments in their places, and anything in the rest.                    *)
MergedArgs(params, id, row, args) ==
  [k \in 1 .. Len(params) |->
     IF k = 1 THEN Id(id)
     ELSE IF \E i \in DOMAIN row : row[i] = k
          THEN args[CHOOSE i \in DOMAIN row : row[i] = k]
          ELSE Undef]

(* A path whose only action is to forward to function m. *)
Forward(m, params, id, row) ==
  [tests |-> {}, source |-> None, env |-> <<>>, refs |-> {},
   sites |-> {[callee |-> m, was |-> None, wasArgs |-> <<>>,
               args |-> MergedArgs(params, id, row,
                                   [i \in 1 .. Len(row) |-> Arg(i)])]}]

-----------------------------------------------------------------------------
Refs(mod) == mod.globals \cup UNION {p.refs : p \in UNION {mod.fns[f].body : f \in DOMAIN mod.fns}}

Sites(mod) == UNION {p.sites : p \in UNION {mod.fns[f].body : f \in DOMAIN mod.fns}}

(* Rewrites every use of a function, wherever it is: calls and addresses to  *)
(* what the functions site and ref make of them.                           *)
MapUses(mod, site, ref) ==
  LET path(p) == [p EXCEPT !.sites = {site[s] : s \in @}, !.refs = {ref[r] : r \in @}]
  IN [mod EXCEPT
        !.fns = [f \in DOMAIN @ |-> [mod.fns[f] EXCEPT !.body = {path(p) : p \in @}]],
        !.globals = {ref[r] : r \in @}]

(* The functions a module refers to. *)
Used(mod) == {s.callee : s \in Sites(mod)} \cup {r.is : r \in Refs(mod)}

(* Modules as they come from the compiler: everything they use is there,    *)
(* and the code of a function is its own.                                  *)
IsModule(mod) ==
  /\ mod = [fns |-> mod.fns, globals |-> mod.globals, next |-> mod.next]
  /\ mod.next \in Nat \ {0} /\ DOMAIN mod.fns \subseteq 1 .. mod.next - 1
  /\ mod.fns \in [DOMAIN mod.fns -> FunctionRecord]
  /\ mod.globals \subseteq Ref
  /\ Used(mod) \subseteq DOMAIN mod.fns
  /\ \A f \in DOMAIN mod.fns : \A p \in mod.fns[f].body : p.source = f

(* Function::hasAddressTaken: a user other than a call of the function. *)
HasAddressTaken(mod, f) == \E r \in Refs(mod) : r.is = f

Unused(mod, f) == ~ HasAddressTaken(mod, f) /\ \A s \in Sites(mod) : s.callee # f

(* Bug: the arguments keep their order. *)
CallMergedInOrder(site, m, params, id, row) ==
  [site EXCEPT !.callee = m,
               !.args = MergedArgs(params, id, [i \in DOMAIN row |-> i + 1], @)]

(* A call of a function that was merged becomes a call of the merged one. *)
CallMerged(site, m, params, id, row) ==
  [site EXCEPT !.callee = m, !.args = MergedArgs(params, id, row, @)]

Erase(mod, F) == [mod EXCEPT !.fns = RestrictDomain(@, LAMBDA f : f \notin F)]

(* Bug: the identity of the new function is given out again. *)
AddFunctionOver(mod, f) ==
  [mod EXCEPT !.fns = [g \in DOMAIN @ \cup {mod.next} |-> IF g = mod.next THEN f ELSE @[g]]]

AddFunction(mod, f) ==
  [mod EXCEPT !.fns = [g \in DOMAIN @ \cup {mod.next} |-> IF g = mod.next THEN f ELSE @[g]],
              !.next = @ + 1]

(* A name in use gets a suffix; a function may have no name. *)
UniqueName(mod, name) ==
  LET taken == {mod.fns[f].name : f \in DOMAIN mod.fns}
      suffixed(k) == Append(name, "." \o ToString(k))
  IN IF name = <<>> \/ name \notin taken THEN name
     ELSE suffixed(CHOOSE k \in 1 .. Cardinality(taken) :
                     suffixed(k) \notin taken
                     /\ \A j \in 1 .. k - 1 : suffixed(j) \in taken)

Named(mod, name) == {f \in DOMAIN mod.fns : mod.fns[f].name = name}

(* Module::getFunction *)
GetFunction(mod, name) == CHOOSE f \in Named(mod, name) : TRUE
=============================================================================
