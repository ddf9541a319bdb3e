---------------------- MODULE MCExhaustiveExploration ----------------------
(* Instances of ExhaustiveExploration for TLC.                             *)
EXTENDS ExhaustiveExploration

(* One plan that is not profitable and two different savings. *)
MCGains == {0, 1, 2}
=============================================================================
