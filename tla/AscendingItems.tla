--------------------------- MODULE AscendingItems ---------------------------
(* Sets of integers in ascending order, and the items of a sequence at the  *)
(* positions in such a set.                                                *)
EXTENDS Integers, Sequences, FiniteSets

(* The i-th smallest element of S. *)
Smallest(i, S) == CHOOSE x \in S : Cardinality({y \in S : y <= x}) = i

Ascending(S) == [i \in 1 .. Cardinality(S) |-> Smallest(i, S)]

(* The items of s whose positions are in I, in their order. *)
Items(s, I) ==
  LET upto[n \in 0 .. Len(s)] == IF n = 0 THEN <<>>
                                 ELSE IF n \in I THEN Append(upto[n - 1], s[n])
                                 ELSE upto[n - 1]
  IN upto[Len(s)]
=============================================================================
