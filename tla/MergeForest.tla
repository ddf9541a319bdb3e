---------------------------- MODULE MergeForest ----------------------------
(***************************************************************************)
(* What an exploration strategy of the multiple-function-merging pass      *)
(* promises to its module, whatever order it explores in.                  *)
(*                                                                         *)
(* Functions are absorbed into merged functions, several at a time.  A     *)
(* function is absorbed at most once, a merge only ever absorbs functions  *)
(* that are still standing on their own, and the merged function is new    *)
(* and stands on its own in turn.  The absorption relation is therefore a  *)
(* forest whose leaves are the source functions.                           *)
(*                                                                         *)
(* In the code this is the contract of MSAMergePlan::applyMerge: it erases *)
(* the source functions (or leaves thunks in their place), so a plan must  *)
(* never be applied over a function that another plan has already erased.  *)
(***************************************************************************)
EXTENDS Naturals, FiniteSets

CONSTANTS
  Fn,      \* every function that may ever exist in the module
  Source   \* the functions the module defines before the pass runs

VARIABLES
  live,    \* functions that stand on their own
  into     \* into[f] is the merged function that absorbed f, f itself if none

forestVars == <<live, into>>

Unabsorbed(f) == into[f] = f

(* A function that has never been part of the module. *)
Fresh(m) == m \in Fn \ live /\ Unabsorbed(m)

ForestInit ==
  /\ live = Source
  /\ into = [f \in Fn |-> f]

(* Functions S are absorbed by the new function m. *)
Absorb(S, m) ==
  /\ S \subseteq live
  /\ Cardinality(S) > 1
  /\ Fresh(m)
  /\ live' = (live \ S) \cup {m}
  /\ into' = [f \in Fn |-> IF f \in S THEN m ELSE into[f]]

ForestNext == \E S \in SUBSET live, m \in Fn : Absorb(S, m)

ForestSpec == ForestInit /\ [][ForestNext]_forestVars

ForestTypeOK ==
  /\ live \in SUBSET Fn
  /\ into \in [Fn -> Fn]

(* A live function has not been absorbed. *)
LiveAreUnabsorbed == \A f \in live : Unabsorbed(f)

(* Once absorbed, always absorbed by the same function. *)
AbsorbedOnce == [][\A f \in Fn : ~ Unabsorbed(f) => into'[f] = into[f]]_forestVars
=============================================================================
