-------------------------- MODULE MCMergingPasses --------------------------
(***************************************************************************)
(* Modules to merge, as small as their difficulties allow: functions that  *)
(* call each other and themselves, addresses taken by data and by code,    *)
(* a flag that can share a parameter with a discriminator, functions of    *)
(* every linkage, "main", return types and personalities that differ.      *)
(***************************************************************************)
EXTENDS MergingPasses

Call(f, args) == [callee |-> f, was |-> f, args |-> args, wasArgs |-> args]
Address(f) == [is |-> f, was |-> f]

(* The f-th function of a module. *)
Function(f, name, linkage, sig, ret, pers, calls, refs) ==
  [name |-> <<name>>, linkage |-> linkage, sig |-> sig, ret |-> ret, pers |-> pers,
   body |-> {[tests |-> {}, source |-> f, env |-> [i \in 1 .. Len(sig) |-> i],
              sites |-> calls, refs |-> refs]}]

Module(fns, globals) == [fns |-> fns, globals |-> globals, next |-> Len(fns) + 1]

Local(n) == <<"local", n>>

(* a and b call each other, b calls itself, main calls b. *)
Mutual == Module(<<
  Function(1, "a", "internal", <<32, 1>>, "int", "none", {Call(2, <<Arg(2), Arg(1)>>)}, {}),
  Function(2, "b", "internal", <<1, 32>>, "void", "none",
           {Call(1, <<Arg(2), Arg(1)>>), Call(2, <<Arg(1), Local(1)>>)}, {}),
  Function(3, "main", "external", <<>>, "int", "none",
           {Call(2, <<Local(2), Local(3)>>)}, {}),
  Function(4, "c", "external", <<32, 32>>, "int", "none",
           {Call(1, <<Arg(1), Local(4)>>)}, {})>>,
  {})

(* The address of a is in data, that of b in the code of c; d may be        *)
(* dropped, and calls a declared function.                                 *)
Addressed == Module(<<
  Function(1, "a", "internal", <<32>>, "int", "none", {Call(4, <<Arg(1)>>)}, {}),
  Function(2, "b", "internal", <<32>>, "int", "none", {Call(4, <<Local(1)>>)}, {}),
  Function(3, "c", "external", <<32, 32>>, "int", "none", {Call(4, <<Arg(2)>>)}, {Address(2)}),
  Function(4, "d", "linkonce", <<32>>, "int", "none", {Call(5, <<Arg(1), Arg(1)>>)}, {}),
  [Function(5, "puts", "external", <<32, 32>>, "int", "none", {}, {}) EXCEPT !.body = {}]>>,
  {Address(1)})

(* Functions whose personalities and return types do not all agree. *)
Landing == Module(<<
  Function(1, "a", "internal", <<1>>, "int", "p", {Call(3, <<Arg(1)>>)}, {}),
  Function(2, "b", "external", <<32, 1>>, "int", "q", {Call(1, <<Arg(2)>>)}, {}),
  Function(3, "c", "internal", <<1>>, "void", "p", {}, {}),
  Function(4, "d", "external", <<1>>, "ptr", "none", {Call(3, <<Local(1)>>)}, {})>>,
  {})

(* Three functions, for more plans at a time. *)
Three == Module(<<
  Function(1, "a", "internal", <<32>>, "int", "none", {Call(2, <<Arg(1)>>)}, {}),
  Function(2, "b", "internal", <<32>>, "int", "none", {Call(3, <<>>)}, {}),
  Function(3, "c", "external", <<>>, "void", "none", {Call(1, <<Local(1)>>)}, {})>>,
  {Address(2)})

Samples == {Mutual, Addressed, Landing}

NoNames == <<>>
Job(pass, m, most, names, rs, start, n) ==
  [pass |-> pass, mod |-> m, plans |-> most, names |-> names, remarks |-> rs, start |-> start, count |-> n]

Remark(names) == [names |-> names, denied |-> FALSE, isMerge |-> TRUE]
Denied(names) == [names |-> names, denied |-> TRUE, isMerge |-> TRUE]
Missed == [names |-> <<>>, denied |-> FALSE, isMerge |-> FALSE]

(* A remark file of Mutual: a merge of three, one that was denied, and one  *)
(* of the function the first leaves behind.                                *)
MergeOfThree == <<"__mf_merge", "a", "b", "c">>
File == <<Remark(<<<<"a">>, <<"b">>, <<"c">>>>), Missed,
          Denied(<<<<"a">>, <<"b">>>>),
          Remark(<<MergeOfThree, <<"main">>, <<"gone">>>>)>>

(* The default is to replay everything: the greatest size_t.                *)
MaxCount == 7

MCWindows == {<<0, 3>>, <<1, 2>>, <<0, 1>>, <<2, 1>>, <<7, 0>>, <<0, MaxCount>>, <<1, MaxCount>>, <<3, 6>>}

MCJobs ==
  {Job("explore", m, 2, NoNames, <<>>, 0, 0) : m \in Samples}
  \cup {Job("explore", Three, 3, NoNames, <<>>, 0, 0)}
  \cup {Job(pass, m, 0, NoNames, <<>>, 0, 0) : pass \in {"func-merging", "fastfm", "fmsa"},
                                              m \in Samples}
  \cup {Job(pass, m, 2, names, <<>>, 0, 0) : pass \in {"manual", "only"}, m \in Samples,
           names \in {<<<<"a">>, <<"gone">>, <<"c">>, <<"b">>>>, <<<<"b">>, <<"a">>>>}}
  \cup {Job("replay", Mutual, 0, NoNames, File, w[1], w[2]) : w \in MCWindows}

(* From the second merge on, as many as there are. *)
MCDefaultCount == {Job("replay", Mutual, 0, NoNames, File, 1, MaxCount)}

MCExplorationThreshold ==
  [p \in {"func-merging", "only", "fastfm", "fmsa"} |-> IF p \in {"fastfm", "fmsa"} THEN 2 ELSE 1]
=============================================================================
