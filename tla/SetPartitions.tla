--------------------------- MODULE SetPartitions ---------------------------
(***************************************************************************)
(* fmutils::SetPartitions (FunctionMergingUtils.cpp): the ways to split    *)
(* 0 .. n-1 into as many groups of equal size as there are, the remainder  *)
(* left over, such that 0 is in a group.                                   *)
(***************************************************************************)
EXTENDS Integers, Sequences, FiniteSets, SequencesExt, FiniteSetsExt, AscendingItems

(* A call of groupCombinationsRecursive: the indices it picks from, those of *)
(* them from position I on, the group it is filling and the full groups.  It *)
(* is never called with I behind the last index.                            *)
Call(n) ==
  {c \in [items : SUBSET (0 .. n - 1), rest : SUBSET (0 .. n - 1),
           group : SUBSET (0 .. n - 1), groups : SUBSET SUBSET (0 .. n - 1),
           pick : BOOLEAN] :
     c.rest # {} /\ c.rest \subseteq c.items}

(* Mutant: only the first index of a full group is taken out. *)
NewItemsKept(items, group) == items \ {Min(group)}

(* The indices that are left for the next group when one is full. *)
NewItems(items, group) == items \ group

(* groupCombinationsN: the sets of groups of the given size that the calls   *)
(* of groupCombinationsRecursive complete, in order and with repetitions.   *)
GroupCombinations(n, size) ==
  LET combine[c \in Call(n)] ==
        LET group == IF c.pick THEN c.group \cup {Min(c.rest)} ELSE c.group
            groups == c.groups \cup {group}
            others == NewItems(c.items, group)
            Branch(items, rest, g, gs) ==
              combine[[items |-> items, rest |-> rest, group |-> g,
                       groups |-> gs, pick |-> TRUE]]
                \o combine[[items |-> items, rest |-> rest, group |-> g,
                            groups |-> gs, pick |-> FALSE]]
        IN IF c.pick /\ Cardinality(group) = size
           THEN IF Cardinality(groups) = n \div size THEN << groups >>
                ELSE IF Cardinality(others) < size THEN << >>
                ELSE Branch(others, others, {}, groups)
           ELSE IF Cardinality(c.rest) <= 1 THEN << >>
           ELSE Branch(c.items, c.rest \ {Min(c.rest)}, group, c.groups)
  IN combine[[items |-> 0 .. n - 1, rest |-> 0 .. n - 1, group |-> {},
              groups |-> {}, pick |-> TRUE]]

(* SeenPartitionSet: the first of equal sets of groups. *)
WithoutRepetitions(s) ==
  Items(s, {i \in DOMAIN s : \A j \in 1 .. i - 1 : s[j] # s[i]})

(* Mutant: groups of all the functions are left out. *)
PartitionsBelowSize(n) ==
  WithoutRepetitions(FlattenSeq([k \in 1 .. n - 1 |->
    IF k + 1 < n THEN GroupCombinations(n, k + 1) ELSE << >>]))

(* iterateOverPartitions: what the callback is given, in order. *)
Partitions(n) ==
  WithoutRepetitions(FlattenSeq([k \in 1 .. n - 1 |-> GroupCombinations(n, k + 1)]))

(***************************************************************************)
(* Reference definition                                                    *)
(***************************************************************************)
IsGrouping(groups) ==
  /\ 0 \in UNION groups
  /\ \A g, h \in groups : g = h \/ g \cap h = {}

AllGroupings(n) ==
  UNION {{groups \in kSubset(n \div k, kSubset(k, 0 .. n - 1)) : IsGrouping(groups)} :
           k \in 2 .. n}
=============================================================================
