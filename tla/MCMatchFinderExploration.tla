---------------------- MODULE MCMatchFinderExploration ----------------------
(* Values of the constants of MatchFinderExploration for TLC. *)
EXTENDS MatchFinderExploration

MCFn == 1 .. 8
MCKey == {1, 2}
MCGains == {-1, 1, 2}
=============================================================================
