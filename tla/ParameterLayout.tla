-------------------------- MODULE ParameterLayout --------------------------
(***************************************************************************)
(* Where the parameters of several functions go in their merged function.  *)
(*                                                                         *)
(* The first parameter is the discriminator that selects the body; every   *)
(* other parameter may serve one parameter of each function, of the same   *)
(* type.  A type is its width in bits, and stands for the parameter's      *)
(* attributes as well.  Which of several free parameters is reused depends *)
(* on the instructions that use them: any of them.                         *)
(***************************************************************************)
EXTENDS Integers, Sequences, FiniteSets, Functions, Folds, SequencesExt

(* Bits of a discriminator that tells n functions apart. *)
DiscriminatorWidth(n) ==
  CHOOSE w \in 0 .. n : 2^w >= n /\ \A v \in 0 .. w - 1 : 2^v < n

(* The parameters a parameter of the given type can share: past the         *)
(* discriminator, and not used by its own function yet.                    *)
Reusable(params, row, type) ==
  {i \in 2 .. Len(params) : params[i] = type /\ i \notin Range(row)}

(* A parameter takes one of the free ones, or a new one at the end. *)
PlaceParameter(params, row, type, free) ==
  IF free # {}
  THEN {[params |-> params, row |-> Append(row, i)] : i \in free}
  ELSE {[params |-> Append(params, type), row |-> Append(row, Len(params) + 1)]}

(* The layouts the parameters of one function lead to. *)
PlaceFunction(params, sig) ==
  FoldLeft(LAMBDA S, type :
             UNION {PlaceParameter(s.params, s.row, type,
                                   Reusable(s.params, s.row, type)) : s \in S},
           {[params |-> params, row |-> <<>>]}, sig)

(* layoutParameters: [params: the merged signature, rows: for each function, *)
(* the merged parameter of each of its parameters].                        *)
Layouts(sigs) ==
  FoldLeft(LAMBDA S, sig :
             UNION {{[params |-> a.params, rows |-> Append(s.rows, a.row)] :
                       a \in PlaceFunction(s.params, sig)} : s \in S},
           {[params |-> <<DiscriminatorWidth(Len(sigs))>>, rows |-> <<>>]}, sigs)

(* Bug: no check that the parameter is used already. *)
PairReusableTwice(params, sig1, row, type) ==
  {i \in 2 .. Len(sig1) + 1 : params[i] = type}

(* MergeArguments of the pairwise passes: the first function's parameters   *)
(* follow the discriminator, the second's share those or are appended.     *)
PairReusable(params, sig1, row, type) ==
  {i \in 2 .. Len(sig1) + 1 : params[i] = type /\ i \notin Range(row)}

PairLayouts(sig1, sig2) ==
  LET first == [i \in 1 .. Len(sig1) |-> i + 1]
      seconds ==
        FoldLeft(LAMBDA S, type :
                   UNION {PlaceParameter(s.params, s.row, type,
                            PairReusable(s.params, sig1, s.row, type)) : s \in S},
                 {[params |-> <<1>> \o sig1, row |-> <<>>]}, sig2)
  IN {[params |-> s.params, rows |-> <<first, s.row>>] : s \in seconds}

-----------------------------------------------------------------------------
(* Count of the parameters of one type. *)
OfType(sig, type) == Cardinality({i \in DOMAIN sig : sig[i] = type})

(* The fewest parameters that can serve every function: for each type, as   *)
(* many as the function with the most of that type has.                    *)
FewestParameters(sigs) ==
  LET types == UNION {Range(sigs[k]) : k \in DOMAIN sigs}
      most(type) == CHOOSE n \in {OfType(sigs[k], type) : k \in DOMAIN sigs} :
                      \A k \in DOMAIN sigs : OfType(sigs[k], type) <= n
  IN 1 + FoldSet(LAMBDA type, n : n + most(type), 0, types)

(* Each parameter has a place of its own and of its type, which is not the  *)
(* discriminator's.                                                        *)
RowFits(params, sig, row) ==
  /\ Len(row) = Len(sig)
  /\ \A i \in DOMAIN sig : row[i] \in 2 .. Len(params) /\ params[row[i]] = sig[i]
  /\ \A i, j \in DOMAIN sig : row[i] = row[j] => i = j
=============================================================================
