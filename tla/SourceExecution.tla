-------------------------- MODULE SourceExecution --------------------------
(***************************************************************************)
(* What a merged function promises: called with discriminator d it does    *)
(* what source function d does.  A function is executed element by         *)
(* element: the label of a block, then its instructions; the terminator    *)
(* chooses one of its targets.                                             *)
(*                                                                         *)
(* source[f][b] is the sequence of instructions of block b of function f;  *)
(* block 1 is the entry.  An instruction has the blocks it may branch to.  *)
(* An element is <<function, block, position>>, the label at position 0.   *)
(***************************************************************************)
EXTENDS Integers, Sequences

CONSTANT None

VARIABLES
  source,  \* the source functions
  fn,      \* the function that is executed, or None
  last,    \* the element executed last, or None
  choice   \* the target the last element chose, 0 if it has none

vars == <<source, fn, last, choice>>

Func == DOMAIN source

(* The targets of an element. *)
Targets(e) == IF e[3] = 0 THEN << >> ELSE source[e[1]][e[2]][e[3]].to

(* The element executed after e when e chose target k. *)
Following(e, k) ==
  IF k = 0 THEN <<e[1], e[2], e[3] + 1>> ELSE <<e[1], Targets(e)[k], 0>>

IsReturn(e) == Targets(e) = << >> /\ e[3] = Len(source[e[1]][e[2]])

Choices(e) == IF Targets(e) = << >> THEN {0} ELSE DOMAIN Targets(e)

Init ==
  /\ fn = None
  /\ last = None
  /\ choice = 0

Call(d) ==
  /\ fn = None
  /\ fn' = d
  /\ UNCHANGED <<source, last, choice>>

Execute(e) ==
  /\ fn # None
  /\ last' = e
  /\ choice' \in Choices(e)
  /\ UNCHANGED <<source, fn>>

Enter == last = None /\ Execute(<<fn, 1, 0>>)

Continue ==
  /\ last # None
  /\ ~ IsReturn(last)
  /\ Execute(Following(last, choice))

Next == (\E d \in Func : Call(d)) \/ Enter \/ Continue

(* The functions are fixed while the merged function is built and called. *)
Spec == Init /\ [][Next]_vars

(* A call is made, and it runs until it returns. *)
FairSpec == Spec /\ WF_vars(Next)
=============================================================================
