---------------------------- MODULE MCNWAligner ----------------------------
(* Instances of NWAligner for TLC: a block label, two instructions that     *)
(* match although their types differ, and two terminators.                 *)
EXTENDS NWAligner

MCValue == {"bb", "add32", "add64", "br", "ret"}

MCTypeOf ==
  [v \in MCValue |-> CASE v = "bb" -> "label"
                       [] v = "add32" -> "i32"
                       [] v = "add64" -> "i64"
                       [] v \in {"br", "ret"} -> "void"]

MCMatching ==
  {<<v, v>> : v \in MCValue} \cup {<<"add32", "add64">>, <<"add64", "add32">>}

(* Straight-line functions, and one of two blocks. *)
MCLinearizations ==
  {<<"bb", "ret">>, <<"bb", "add32", "ret">>, <<"bb", "add64", "ret">>,
   <<"bb", "add32", "add64", "ret">>, <<"bb", "add64", "add32", "ret">>,
   <<"bb", "br", "bb", "ret">>}

=============================================================================
