---------------------------- MODULE MCMergedBody ----------------------------
(* Instances of MergedBody for TLC.                                        *)
EXTENDS MergedBody

Op(op, to) == [op |-> op, to |-> to]

(* if/else whose branches join in block 4, which has the PHI nodes. *)
Diamond ==
  << <<Op("condbr", <<2, 3>>)>>, <<Op("br", <<4>>)>>, <<Op("br", <<4>>)>>,
     <<Op("ret", << >>)>> >>

Straight == << <<Op("add", << >>), Op("sub", << >>), Op("ret", << >>)>> >>

(* The header of the loop is block 2; an instruction of its body is also in *)
(* Straight.                                                               *)
Loop ==
  << <<Op("br", <<2>>)>>, <<Op("add", << >>), Op("condbr", <<2, 3>>)>>,
     <<Op("ret", << >>)>> >>

Branch == << <<Op("condbr", <<2, 2>>)>>, <<Op("ret", << >>)>> >>
Choice ==
  << <<Op("condbr", <<2, 3>>)>>, <<Op("ret", << >>)>>, <<Op("ret", << >>)>> >>

MCAligners == {"NW", "HyFM"}
MCHyFM == {"HyFM"}

(* Two or three functions each.                                             *)
MCGroups ==
  [0 .. 1 -> {Diamond, Straight, Loop}] \cup [0 .. 2 -> {Choice, Branch}]
MCDiamonds == [0 .. 1 -> {Diamond}]
=============================================================================
