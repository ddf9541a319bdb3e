----------------------- MODULE SimilarFunctionsProofs -----------------------
(***************************************************************************)
(* What holds of MergeSimilarFunctions for every module it is given and     *)
(* every setting of its thresholds: the module stays well-formed, with use  *)
(* lists that are complete, the registry speaks of the functions as they    *)
(* are, and no pair that could be merged is overlooked.                     *)
(***************************************************************************)
EXTENDS SimilarFunctions, CommonLemmas

SingleCodes(m) == \A f \in DOMAIN m.fns : Len(m.fns[f].codes) <= 1

-----------------------------------------------------------------------------
(***************************************************************************)
(* Sequences.                                                              *)
(***************************************************************************)

(* The items that are kept are those at increasing positions. *)
LEMMA ItemsPositions ==
  ASSUME NEW E, NEW s \in Seq(E), NEW I \in SUBSET DOMAIN s
  PROVE  /\ Items(s, I) \in Seq(E)
         /\ Range(Items(s, I)) = {s[i] : i \in I}
         /\ DOMAIN Items(s, I) = 1 .. Len(Items(s, I)) /\ Len(Items(s, I)) \in Nat
         /\ Len(Items(s, I)) <= Len(s)
         /\ \E p \in [DOMAIN Items(s, I) -> I] :
              /\ \A n \in DOMAIN Items(s, I) : Items(s, I)[n] = s[p[n]]
              /\ \A m, n \in DOMAIN Items(s, I) : m < n => p[m] < p[n]
  <1>1. /\ Items(s, I) \in Seq(E) /\ ToSet(Items(s, I)) = {s[i] : i \in I}
        /\ Len(Items(s, I)) = Cardinality(I) /\ IsFiniteSet(I)
    BY ItemsProperties
  <1>2. DOMAIN s = 1 .. Len(s) /\ Len(s) \in Nat
    BY LenProperties
  <1>3. I \in SUBSET Nat /\ I \in SUBSET (1 .. Len(s))
    BY <1>2
  <1>4. /\ Cardinality(I) \in Nat
        /\ \A i \in 1 .. Cardinality(I) : Smallest(i, I) \in I
        /\ \A i, j \in 1 .. Cardinality(I) : i < j => Smallest(i, I) < Smallest(j, I)
    BY <1>1, <1>3, SmallestProperties
  <1>5. Cardinality(I) <= Len(s)
    <2>0. ASSUME NEW n \in Nat PROVE IsFiniteSet(1 .. n) /\ Cardinality(1 .. n) = n
      BY FS_Interval
    <2>1. IsFiniteSet(1 .. Len(s)) /\ Cardinality(1 .. Len(s)) = Len(s)
      BY <1>2, <2>0
    <2> QED BY <1>3, <2>1, FS_Subset
  <1>6. Items(s, I) = [i \in 1 .. Cardinality(I) |-> s[Smallest(i, I)]]
    BY ItemsInOrder
  <1> DEFINE p == [n \in 1 .. Cardinality(I) |-> Smallest(n, I)]
  <1>7. p \in [1 .. Cardinality(I) -> I]
    BY <1>4
  <1>8. \A n \in 1 .. Cardinality(I) : Items(s, I)[n] = s[p[n]]
    BY <1>6
  <1>9. \A m, n \in 1 .. Cardinality(I) : m < n => p[m] < p[n]
    BY <1>4
  <1>10. DOMAIN Items(s, I) = 1 .. Cardinality(I)
    BY <1>6
  <1>11. Range(Items(s, I)) = {s[i] : i \in I}
    BY <1>1 DEF ToSet, Range
  <1> HIDE DEF p
  <1> QED BY <1>1, <1>4, <1>5, <1>7, <1>8, <1>9, <1>10, <1>11

(* What a sequence has, and the two parts of one. *)
LEMMA ConcatRange ==
  ASSUME NEW E, NEW s \in Seq(E), NEW t \in Seq(E)
  PROVE  s \o t \in Seq(E) /\ Range(s \o t) = Range(s) \cup Range(t)
  <1>1. \A u : Range(u) = ToSet(u)
    BY DEF Range, ToSet
  <1> QED BY <1>1, ConcatToSet

LEMMA ItemsOfSeq ==
  ASSUME NEW E, NEW s \in Seq(E)
  PROVE  /\ Range(s) \subseteq E
         /\ \A x : x \in Range(s) <=> \E n \in DOMAIN s : s[n] = x
         /\ DOMAIN s = 1 .. Len(s) /\ Len(s) \in Nat
         /\ \A n \in DOMAIN s : s[n] \in E
  <1>1. DOMAIN s = 1 .. Len(s) /\ Len(s) \in Nat /\ \A n \in DOMAIN s : s[n] \in E
    BY LenProperties
  <1>2. \A x : x \in Range(s) <=> \E n \in DOMAIN s : s[n] = x
    BY DEF Range
  <1> QED BY <1>1, <1>2

(* A sequence of what it has. *)
LEMMA SeqWithin ==
  ASSUME NEW E, NEW s \in Seq(E), NEW T, Range(s) \cap E \subseteq T
  PROVE  s \in Seq(T)
  <1>1. DOMAIN s = 1 .. Len(s) /\ Len(s) \in Nat /\ \A n \in DOMAIN s : s[n] \in E
    BY ItemsOfSeq
  <1>2. s = [n \in 1 .. Len(s) |-> s[n]]
    BY LenProperties
  <1>3. \A n \in 1 .. Len(s) : s[n] \in T
    BY <1>1 DEF Range
  <1> QED BY <1>1, <1>2, <1>3

LEMMA OneItem ==
  ASSUME NEW E, NEW x \in E
  PROVE  <<x>> \in Seq(E) /\ Range(<<x>>) = {x}
  <1> DEFINE s == <<x>>
  <1>1. s \in Seq(E) /\ DOMAIN s = {1} /\ s[1] = x
    OBVIOUS
  <1>2. Range(s) = {x}
    <2> HIDE DEF s
    <2> QED BY <1>1 DEF Range
  <1> QED BY <1>1, <1>2

LEMMA Segment ==
  ASSUME NEW n \in Nat
  PROVE  IsFiniteSet(1 .. n) /\ Cardinality(1 .. n) = n
  BY FS_Interval

-----------------------------------------------------------------------------
(***************************************************************************)
(* Modules: what changing references and use lists keeps.                   *)
(***************************************************************************)

(* A function that is declared has no code, another one the first of its    *)
(* codes.                                                                  *)
LEMMA CodeProperties ==
  ASSUME NEW f, NEW ids, IsFunction(f, ids)
  PROVE  /\ Code(f) \in Seq(Instruction(ids))
         /\ DOMAIN Code(f) = 1 .. Len(Code(f)) /\ Len(Code(f)) \in Nat
         /\ f.codes # <<>> => 1 \in DOMAIN f.codes /\ Code(f) = f.codes[1] /\ Code(f) # <<>>
         /\ \A k \in DOMAIN Code(f) : Code(f)[k] \in Instruction(ids)
  <1>1. f.codes \in Seq(Seq(Instruction(ids))) /\ \A c \in DOMAIN f.codes : f.codes[c] # <<>>
    BY DEF IsFunction
  <1>2. f.codes # <<>> => 1 \in DOMAIN f.codes
    BY <1>1, EmptySeq, LenProperties
  <1>3. Code(f) \in Seq(Instruction(ids))
    BY <1>1, <1>2 DEF Code
  <1> QED BY <1>1, <1>2, <1>3, LenProperties DEF Code

(* Functions that the registry treats alike, but for their instructions.    *)
SameKind(g, f) ==
  /\ Hash(g) = Hash(f) /\ g.linkage = f.linkage
  /\ IsComparisonCandidate(g) <=> IsComparisonCandidate(f)
  /\ Len(g.codes) = Len(f.codes)

(* A function whose references are replaced by others that exist. *)
ReplacedCode(g, f, old, callee, cast, other) ==
  /\ DOMAIN Code(g) = DOMAIN Code(f) /\ g.type = f.type
  /\ \A k \in DOMAIN Code(f) : Code(g)[k] = Replaced(Code(f)[k], old, callee, cast, other)

LEMMA ReplacedFunction ==
  ASSUME NEW f, NEW ids, IsFunction(f, ids), NEW old, NEW more, ids \ {old} \subseteq more,
         NEW callee, callee \in more, NEW cast \in BOOLEAN, NEW other, other \in more,
         NEW g, g = ReplacedIn(f, old, callee, cast, other)
  PROVE  IsFunction(g, more) /\ SameKind(g, f) /\ ReplacedCode(g, f, old, callee, cast, other)
  <1> DEFINE code(c) == [k \in DOMAIN f.codes[c] |-> Replaced(f.codes[c][k], old, callee, cast, other)]
  <1>1. /\ f \in [name : Seq(STRING), linkage : {"external", "weak", "internal"},
                  shape : STRING, type : Seq(STRING) \ {<<>>}, blocks : Nat,
                  codes : Seq(Seq(Instruction(ids)))]
        /\ \A c \in DOMAIN f.codes : f.codes[c] # <<>>
    BY DEF IsFunction
  <1>2. /\ g = [name |-> f.name, linkage |-> f.linkage, shape |-> f.shape, type |-> f.type,
               blocks |-> f.blocks, codes |-> g.codes]
        /\ g.codes = [c \in DOMAIN f.codes |-> code(c)]
    BY DEF ReplacedIn
  <1>3. DOMAIN f.codes = 1 .. Len(f.codes) /\ Len(f.codes) \in Nat
    BY <1>1, LenProperties
  <1>4. ASSUME NEW i \in Instruction(ids) PROVE Replaced(i, old, callee, cast, other) \in Instruction(more)
    BY DEF Instruction, Replaced
  <1>5. ASSUME NEW c \in DOMAIN f.codes
        PROVE  code(c) \in Seq(Instruction(more)) /\ code(c) # <<>> /\ DOMAIN code(c) = DOMAIN f.codes[c]
    <2>1. f.codes[c] \in Seq(Instruction(ids)) /\ f.codes[c] # <<>>
      BY <1>1
    <2>2. /\ DOMAIN f.codes[c] = 1 .. Len(f.codes[c]) /\ Len(f.codes[c]) \in Nat
          /\ \A k \in DOMAIN f.codes[c] : f.codes[c][k] \in Instruction(ids)
          /\ 1 \in DOMAIN f.codes[c]
      BY <2>1, EmptySeq, LenProperties
    <2>3. code(c) \in [1 .. Len(f.codes[c]) -> Instruction(more)]
      BY <1>4, <2>2
    <2>4. code(c) \in Seq(Instruction(more)) /\ DOMAIN code(c) = DOMAIN f.codes[c]
      BY <2>2, <2>3
    <2> QED BY <2>2, <2>4
  <1>6. g.codes \in [1 .. Len(f.codes) -> Seq(Instruction(more))]
    <2> HIDE DEF code
    <2> QED BY <1>2, <1>3, <1>5
  <1>7. g.codes \in Seq(Seq(Instruction(more))) /\ Len(g.codes) = Len(f.codes)
        /\ DOMAIN g.codes = DOMAIN f.codes
    BY <1>3, <1>6
  <1>8. \A c \in DOMAIN g.codes : g.codes[c] = code(c)
    <2> HIDE DEF code
    <2> QED BY <1>2, <1>7
  <1>9. IsFunction(g, more)
    <2>1. g \in [name : Seq(STRING), linkage : {"external", "weak", "internal"},
                shape : STRING, type : Seq(STRING) \ {<<>>}, blocks : Nat,
                codes : Seq(Seq(Instruction(more)))]
      <3>1. f.name \in Seq(STRING) /\ f.linkage \in {"external", "weak", "internal"} /\ f.shape \in STRING
            /\ f.type \in Seq(STRING) \ {<<>>} /\ f.blocks \in Nat
        BY <1>1
      <3> HIDE DEF code
      <3> DEFINE cs == g.codes
      <3>2. cs \in Seq(Seq(Instruction(more)))
            /\ g = [name |-> f.name, linkage |-> f.linkage, shape |-> f.shape, type |-> f.type,
                    blocks |-> f.blocks, codes |-> cs]
        BY <1>2, <1>7
      <3> HIDE DEF cs
      <3> QED BY <3>1, <3>2
    <2> HIDE DEF code
    <2> QED BY <1>5, <1>7, <1>8, <2>1 DEF IsFunction
  <1>10. /\ g.name = f.name /\ g.linkage = f.linkage /\ g.shape = f.shape
         /\ g.type = f.type /\ g.blocks = f.blocks
    BY <1>2
  <1>11. g.codes = <<>> <=> f.codes = <<>>
    BY <1>1, <1>7, EmptySeq
  <1>12. /\ DOMAIN Code(g) = DOMAIN Code(f)
         /\ \A k \in DOMAIN Code(f) : Code(g)[k] = Replaced(Code(f)[k], old, callee, cast, other)
    <2>1. CASE f.codes = <<>>
      BY <1>11, <2>1 DEF Code
    <2>2. CASE f.codes # <<>>
      <3>1. 1 \in DOMAIN f.codes /\ Code(f) = f.codes[1]
        BY <2>2, CodeProperties
      <3>2. Code(g) = code(1)
        <4> HIDE DEF code
        <4> QED BY <1>7, <1>8, <1>11, <2>2, <3>1 DEF Code
      <3> QED BY <3>1, <3>2
    <2> QED BY <2>1, <2>2
  <1>13. IsComparisonCandidate(g) <=> IsComparisonCandidate(f)
    <2>1. Len(Code(g)) = Len(Code(f))
      BY <1>9, <1>12, CodeProperties
    <2> QED BY <1>10, <1>11, <2>1 DEF IsComparisonCandidate, IsTiny
  <1>14. Hash(g) = Hash(f)
    BY <1>10 DEF Hash, Strength, IsInterposable
  <1> QED BY <1>7, <1>9, <1>10, <1>12, <1>13, <1>14 DEF SameKind, ReplacedCode

(* A use, the instruction that it is of, and whether it refers to f.        *)
Uses(m) == [by : DOMAIN m.fns, pos : Nat, role : Roles]
UsedIn(m, u) == Code(m.fns[u.by])[u.pos]
RefersTo(m, u, f) == u.pos \in DOMAIN Code(m.fns[u.by]) /\ Referred(UsedIn(m, u), u.role) = f

CastsAreListed(m) == \A f \in DOMAIN m.fns : CastUsers(m, f) # {} => f \in m.casts

LEMMA UsesListed ==
  ASSUME NEW m, IsModule(m)
  PROVE  UsesAreListed(m) <=>
           /\ CastsAreListed(m)
           /\ \A f \in DOMAIN m.fns : /\ m.uses[f] \in Seq(Uses(m))
                                     /\ \A u \in Uses(m) : u \in Range(m.uses[f]) <=> RefersTo(m, u, f)
  <1>0. ASSUME NEW f \in DOMAIN m.fns, m.uses[f] \in Seq(Uses(m))
        PROVE  Range(m.uses[f]) \subseteq Uses(m)
    BY <1>0, ItemsOfSeq
  <1>1. ASSUME UsesAreListed(m), NEW f \in DOMAIN m.fns
        PROVE  /\ m.uses[f] \in Seq(Uses(m))
               /\ \A u \in Uses(m) : u \in Range(m.uses[f]) <=> RefersTo(m, u, f)
    <2>1. m.uses[f] \in Seq(Uses(m))
      BY <1>1 DEF UsesAreListed, Uses
    <2>2. ASSUME NEW u \in Uses(m), RefersTo(m, u, f) PROVE u \in Range(m.uses[f])
      <3>1. /\ u = [by |-> u.by, pos |-> u.pos, role |-> u.role]
            /\ u.by \in DOMAIN m.fns /\ u.role \in Roles
        BY <2>2 DEF Uses
      <3>2. [by |-> u.by, pos |-> u.pos, role |-> u.role] \in Range(m.uses[f])
        BY <1>1, <2>2, <3>1 DEF UsesAreListed, RefersTo, UsedIn
      <3> QED BY <3>1, <3>2
    <2>3. ASSUME NEW u \in Uses(m), u \in Range(m.uses[f]) PROVE RefersTo(m, u, f)
      BY <1>1, <2>3 DEF UsesAreListed, RefersTo, UsedIn
    <2> QED BY <2>1, <2>2, <2>3
  <1>2. ASSUME CastsAreListed(m),
               \A f \in DOMAIN m.fns :
                 /\ m.uses[f] \in Seq(Uses(m))
                 /\ \A u \in Uses(m) : u \in Range(m.uses[f]) <=> RefersTo(m, u, f)
        PROVE  UsesAreListed(m)
    <2> SUFFICES ASSUME NEW f \in DOMAIN m.fns
                 PROVE  /\ CastUsers(m, f) # {} => f \in m.casts
                        /\ m.uses[f] \in Seq([by : DOMAIN m.fns, pos : Nat, role : Roles])
                        /\ \A u \in Range(m.uses[f]) :
                             /\ u.pos \in DOMAIN Code(m.fns[u.by])
                             /\ Referred(Code(m.fns[u.by])[u.pos], u.role) = f
                        /\ \A g \in DOMAIN m.fns : \A k \in DOMAIN Code(m.fns[g]) : \A role \in Roles :
                             Referred(Code(m.fns[g])[k], role) = f =>
                               [by |-> g, pos |-> k, role |-> role] \in Range(m.uses[f])
      BY DEF UsesAreListed
    <2>1. m.uses[f] \in Seq([by : DOMAIN m.fns, pos : Nat, role : Roles])
      BY <1>2 DEF Uses
    <2>2. ASSUME NEW u \in Range(m.uses[f])
          PROVE  /\ u.pos \in DOMAIN Code(m.fns[u.by])
                 /\ Referred(Code(m.fns[u.by])[u.pos], u.role) = f
      <3>1. u \in Uses(m)
        BY <1>0, <1>2
      <3> QED BY <1>2, <3>1 DEF RefersTo, UsedIn
    <2>3. ASSUME NEW g \in DOMAIN m.fns, NEW k \in DOMAIN Code(m.fns[g]), NEW role \in Roles,
                 Referred(Code(m.fns[g])[k], role) = f
          PROVE  [by |-> g, pos |-> k, role |-> role] \in Range(m.uses[f])
      <3> DEFINE u == [by |-> g, pos |-> k, role |-> role]
      <3>1. k \in Nat
        <4>1. IsFunction(m.fns[g], DOMAIN m.fns)
          BY DEF IsModule
        <4>2. DOMAIN Code(m.fns[g]) = 1 .. Len(Code(m.fns[g])) /\ Len(Code(m.fns[g])) \in Nat
          BY <4>1, CodeProperties
        <4> QED BY <4>2
      <3>2. u \in Uses(m) /\ RefersTo(m, u, f)
        BY <2>3, <3>1 DEF Uses, RefersTo, UsedIn
      <3> QED BY <1>2, <3>2
    <2> QED BY <1>2, <2>1, <2>2, <2>3 DEF CastsAreListed
  <1>3. UsesAreListed(m) => CastsAreListed(m)
    BY DEF UsesAreListed, CastsAreListed
  <1> QED BY <1>1, <1>2, <1>3

(* The uses that are left when some are taken out of a list. *)
LEMMA SomeUses ==
  ASSUME NEW m, NEW f \in DOMAIN m.fns, m.uses[f] \in Seq(Uses(m))
  PROVE  /\ \A role : /\ UsesAs(m, f, role) \in Seq(Uses(m))
                      /\ Range(UsesAs(m, f, role)) = {u \in Range(m.uses[f]) : u.role = role}
         /\ \A g : /\ UsesWithout(m, f, g) \in Seq(Uses(m))
                   /\ Range(UsesWithout(m, f, g)) = {u \in Range(m.uses[f]) : u.by # g}
  <1> DEFINE s == m.uses[f]
  <1>1. ASSUME NEW I \in SUBSET DOMAIN s
        PROVE  Items(s, I) \in Seq(Uses(m)) /\ Range(Items(s, I)) = {s[i] : i \in I}
    BY <1>1, ItemsPositions
  <1>2. ASSUME NEW role
        PROVE  /\ UsesAs(m, f, role) \in Seq(Uses(m))
               /\ Range(UsesAs(m, f, role)) = {u \in Range(s) : u.role = role}
    <2> DEFINE I == {k \in DOMAIN s : s[k].role = role}
    <2>1. Items(s, I) \in Seq(Uses(m)) /\ Range(Items(s, I)) = {s[i] : i \in I}
      BY <1>1
    <2>2. {s[i] : i \in I} = {u \in Range(s) : u.role = role}
      BY DEF Range
    <2> QED BY <2>1, <2>2 DEF UsesAs
  <1>3. ASSUME NEW g
        PROVE  /\ UsesWithout(m, f, g) \in Seq(Uses(m))
               /\ Range(UsesWithout(m, f, g)) = {u \in Range(s) : u.by # g}
    <2> DEFINE I == {k \in DOMAIN s : s[k].by # g}
    <2>1. Items(s, I) \in Seq(Uses(m)) /\ Range(Items(s, I)) = {s[i] : i \in I}
      BY <1>1
    <2>2. {s[i] : i \in I} = {u \in Range(s) : u.by # g}
      BY DEF Range
    <2> QED BY <2>1, <2>2 DEF UsesWithout
  <1> QED BY <1>2, <1>3

(* A function none of whose instructions is changed by a replacement. *)
LEMMA NothingReplaced ==
  ASSUME NEW f, NEW ids, IsFunction(f, ids), Len(f.codes) <= 1, NEW old, NEW callee, NEW cast, NEW other,
         \A k \in DOMAIN Code(f) : Replaced(Code(f)[k], old, callee, cast, other) = Code(f)[k]
  PROVE  ReplacedIn(f, old, callee, cast, other) = f
  <1> DEFINE code(c) == [k \in DOMAIN f.codes[c] |-> Replaced(f.codes[c][k], old, callee, cast, other)]
  <1>1. /\ f.codes \in Seq(Seq(Instruction(ids)))
        /\ f = [name |-> f.name, linkage |-> f.linkage, shape |-> f.shape, type |-> f.type,
               blocks |-> f.blocks, codes |-> f.codes]
    BY DEF IsFunction
  <1>2. f.codes = [c \in DOMAIN f.codes |-> f.codes[c]] /\ DOMAIN f.codes = 1 .. Len(f.codes)
        /\ Len(f.codes) \in Nat
    BY <1>1, LenProperties
  <1>3. ASSUME NEW c \in DOMAIN f.codes PROVE code(c) = f.codes[c]
    <2>1. c = 1 /\ f.codes # <<>>
      BY <1>2, <1>3
    <2>2. f.codes[c] = Code(f)
      BY <2>1, CodeProperties
    <2>3. f.codes[c] \in Seq(Instruction(ids))
      BY <1>1, <1>3, ElementOfSeq, LenProperties
    <2>4. f.codes[c] = [k \in DOMAIN f.codes[c] |-> f.codes[c][k]]
      BY <2>3, LenProperties
    <2>5. \A k \in DOMAIN f.codes[c] : Replaced(f.codes[c][k], old, callee, cast, other) = f.codes[c][k]
      BY <2>2
    <2> QED BY <2>4, <2>5
  <1>4. [c \in DOMAIN f.codes |-> code(c)] = f.codes
    <2> HIDE DEF code
    <2> QED BY <1>2, <1>3
  <1>5. ReplacedIn(f, old, callee, cast, other)
          = [name |-> f.name, linkage |-> f.linkage, shape |-> f.shape, type |-> f.type,
             blocks |-> f.blocks, codes |-> [c \in DOMAIN f.codes |-> code(c)]]
    BY DEF ReplacedIn
  <1> HIDE DEF code
  <1> QED BY <1>1, <1>4, <1>5

(* The functions that uses are by. *)
LEMMA UsersProperties ==
  ASSUME NEW m, NEW us \in Seq(Uses(m))
  PROVE  Users(us) \in Seq(DOMAIN m.fns) /\ Range(Users(us)) = {u.by : u \in Range(us)}
  <1>1. DOMAIN us = 1 .. Len(us) /\ Len(us) \in Nat /\ \A k \in DOMAIN us : us[k] \in Uses(m)
    BY ItemsOfSeq
  <1>2. \A k \in DOMAIN us : us[k].by \in DOMAIN m.fns
    BY <1>1 DEF Uses
  <1>3. Users(us) \in [1 .. Len(us) -> DOMAIN m.fns]
    BY <1>1, <1>2 DEF Users
  <1>4. Users(us) \in Seq(DOMAIN m.fns)
    BY <1>1, <1>3
  <1>5. Range(Users(us)) = {u.by : u \in Range(us)}
    BY DEF Range, Users
  <1> QED BY <1>4, <1>5

(* Calls that are redirected: the module stays well-formed, its use lists    *)
(* complete, and only callers are changed.                                 *)
LEMMA RedirectedModule ==
  ASSUME NEW m, IsModule(m), UsesAreListed(m), SingleCodes(m),
         NEW old \in DOMAIN m.fns, NEW new \in DOMAIN m.fns, old # new,
         NEW r, r = RedirectCalls(m, old, new)
  PROVE  /\ IsModule(r) /\ UsesAreListed(r) /\ SingleCodes(r)
         /\ DOMAIN r.fns = DOMAIN m.fns /\ r.next = m.next /\ r.data = m.data
         /\ r.uses[old] = OtherUses(m, old) /\ (old \in r.casts <=> old \in m.casts)
         /\ CastUsers(r, old) = CastUsers(m, old)
         /\ \A h \in DOMAIN m.fns :
              /\ SameKind(r.fns[h], m.fns[h])
              /\ h \notin Range(Users(DirectCalls(m, old))) => r.fns[h] = m.fns[h]
  <1> DEFINE D == DOMAIN m.fns
             cast == m.fns[old].type # m.fns[new].type
  <1>1. /\ m.next \in Nat /\ D \subseteq 1..m.next - 1 /\ m.data \in Seq(D)
        /\ m.casts \subseteq D
        /\ \A h \in D : IsFunction(m.fns[h], D)
    BY DEF IsModule
  <1>2. /\ DOMAIN r.fns = D /\ r.next = m.next /\ r.data = m.data
        /\ \A h \in D : r.fns[h] = ReplacedIn(m.fns[h], old, new, cast, old)
        /\ \A h \in D : r.uses[h] = IF h = old THEN OtherUses(m, old)
                                   ELSE IF h = new /\ ~ cast
                                   THEN Reverse(DirectCalls(m, old)) \o m.uses[new]
                                   ELSE m.uses[h]
        /\ r.casts = m.casts \cup (IF cast THEN {new} ELSE {})
    BY DEF RedirectCalls
  <1>3. ASSUME NEW h \in D
        PROVE  /\ IsFunction(r.fns[h], D) /\ SameKind(r.fns[h], m.fns[h])
               /\ ReplacedCode(r.fns[h], m.fns[h], old, new, cast, old)
    <2>1. D \ {old} \subseteq D /\ new \in D /\ old \in D /\ cast \in BOOLEAN
      OBVIOUS
    <2>2. IsFunction(m.fns[h], D) /\ r.fns[h] = ReplacedIn(m.fns[h], old, new, cast, old)
      BY <1>1, <1>2
    <2> HIDE DEF D, cast
    <2> QED BY <2>1, <2>2, ReplacedFunction
  <1>4. IsModule(r) /\ SingleCodes(r)
    BY <1>1, <1>2, <1>3 DEF IsModule, SingleCodes, SameKind
  <1>5. \A h \in D : /\ m.uses[h] \in Seq(Uses(m))
                    /\ \A u \in Uses(m) : u \in Range(m.uses[h]) <=> RefersTo(m, u, h)
    BY UsesListed
  <1>6. Uses(r) = Uses(m)
    BY <1>2 DEF Uses
  <1>7. ASSUME NEW u \in Uses(m)
        PROVE  \A h : RefersTo(r, u, h)
                  <=> /\ u.pos \in DOMAIN Code(m.fns[u.by])
                      /\ h = IF u.role = "callee" /\ Referred(UsedIn(m, u), "callee") = old
                            THEN IF cast THEN None ELSE new
                            ELSE Referred(UsedIn(m, u), u.role)
    <2>1. u.by \in D /\ u.role \in {"callee", "arg"}
      BY <1>7 DEF Uses, Roles
    <2>2. DOMAIN Code(r.fns[u.by]) = DOMAIN Code(m.fns[u.by])
      BY <1>3, <2>1 DEF ReplacedCode
    <2>3. u.pos \in DOMAIN Code(m.fns[u.by])
            => UsedIn(r, u) = Replaced(UsedIn(m, u), old, new, cast, old)
      BY <1>3, <2>1 DEF UsedIn, ReplacedCode
    <2>4. cast \in BOOLEAN /\ old # None /\ new # None
      BY <1>1 DEF None
    <2>5. u.pos \in DOMAIN Code(m.fns[u.by]) => UsedIn(m, u).cast \in BOOLEAN
      <3>1. IsFunction(m.fns[u.by], D)
        BY <1>1, <2>1
      <3>2. u.pos \in DOMAIN Code(m.fns[u.by]) => UsedIn(m, u) \in Instruction(D)
        <4> HIDE DEF D
        <4> QED BY <3>1, CodeProperties DEF UsedIn
      <3> QED BY <3>2 DEF Instruction
    <2> HIDE DEF cast, D
    <2> QED BY <2>1, <2>2, <2>3, <2>4, <2>5 DEF RefersTo, Referred, Replaced
  <1>8. /\ DirectCalls(m, old) \in Seq(Uses(m))
        /\ Range(DirectCalls(m, old)) = {u \in Range(m.uses[old]) : u.role = "callee"}
        /\ OtherUses(m, old) \in Seq(Uses(m))
        /\ Range(OtherUses(m, old)) = {u \in Range(m.uses[old]) : u.role = "arg"}
    BY <1>5, SomeUses DEF DirectCalls, OtherUses
  <1>9. ASSUME NEW h \in D
        PROVE  /\ r.uses[h] \in Seq(Uses(r))
               /\ \A u \in Uses(r) : u \in Range(r.uses[h]) <=> RefersTo(r, u, h)
    <2>0. \A u \in Uses(m) : u.role \in {"callee", "arg"}
      BY DEF Uses, Roles
    <2>1. CASE h = old
      <3>1. r.uses[h] = OtherUses(m, old)
        BY <1>2, <2>1
      <3>2. \A u \in Uses(m) : RefersTo(r, u, h) <=> RefersTo(m, u, h) /\ u.role = "arg"
        <4>1. h # None
          BY <1>1 DEF None
        <4> HIDE DEF cast
        <4> QED BY <1>7, <2>0, <2>1, <4>1 DEF RefersTo
      <3> QED BY <1>5, <1>6, <1>8, <2>1, <3>1, <3>2
    <2>2. CASE h = new /\ ~ cast
      <3>1. r.uses[h] = Reverse(DirectCalls(m, old)) \o m.uses[new]
        BY <1>2, <2>2
      <3>2. /\ Reverse(DirectCalls(m, old)) \in Seq(Uses(m))
            /\ Range(Reverse(DirectCalls(m, old))) = Range(DirectCalls(m, old))
        BY <1>8, ReverseProperties
      <3>3. /\ r.uses[h] \in Seq(Uses(m))
            /\ Range(r.uses[h]) = Range(DirectCalls(m, old)) \cup Range(m.uses[new])
        BY <1>5, <3>1, <3>2, ConcatRange
      <3>4. \A u \in Uses(m) : RefersTo(r, u, h)
              <=> RefersTo(m, u, new) \/ (RefersTo(m, u, old) /\ u.role = "callee")
        <4> HIDE DEF cast
        <4> QED BY <1>7, <2>0, <2>2 DEF RefersTo
      <3> QED BY <1>5, <1>6, <1>8, <2>2, <3>3, <3>4
    <2>3. CASE h # old /\ (h # new \/ cast)
      <3>1. r.uses[h] = m.uses[h]
        BY <1>2, <2>3
      <3>2. \A u \in Uses(m) : RefersTo(r, u, h) <=> RefersTo(m, u, h)
        <4>1. h # None
          BY <1>1 DEF None
        <4> HIDE DEF cast
        <4> QED BY <1>7, <2>0, <2>3, <4>1 DEF RefersTo
      <3> QED BY <1>5, <1>6, <3>1, <3>2
    <2> QED BY <2>1, <2>2, <2>3
  <1>12. ASSUME NEW h \in D, h # new \/ ~ cast
         PROVE  CastUsers(r, h) \subseteq CastUsers(m, h)
    <2>1. ASSUME NEW x \in D, NEW k \in DOMAIN Code(r.fns[x]),
                 Code(r.fns[x])[k].callee = h, Code(r.fns[x])[k].cast
          PROVE  Code(m.fns[x])[k].callee = h /\ Code(m.fns[x])[k].cast /\ k \in DOMAIN Code(m.fns[x])
      <3>1. /\ k \in DOMAIN Code(m.fns[x])
            /\ Code(r.fns[x])[k] = Replaced(Code(m.fns[x])[k], old, new, cast, old)
        BY <1>3, <2>1 DEF ReplacedCode
      <3>2. Code(m.fns[x])[k].cast \in BOOLEAN
        <4>1. IsFunction(m.fns[x], D)
          BY <1>1
        <4>2. Code(m.fns[x])[k] \in Instruction(D)
          <5> HIDE DEF D
          <5> QED BY <3>1, <4>1, CodeProperties
        <4> QED BY <4>2 DEF Instruction
      <3> HIDE DEF cast
      <3> QED BY <1>12, <2>1, <3>1, <3>2 DEF Replaced
    <2> QED BY <1>2, <2>1 DEF CastUsers, Range
  <1>13. CastUsers(m, old) \subseteq CastUsers(r, old)
    <2>1. ASSUME NEW x \in D, NEW k \in DOMAIN Code(m.fns[x]),
                 Code(m.fns[x])[k].callee = old, Code(m.fns[x])[k].cast
          PROVE  Code(r.fns[x])[k].callee = old /\ Code(r.fns[x])[k].cast /\ k \in DOMAIN Code(r.fns[x])
      <3>1. /\ k \in DOMAIN Code(r.fns[x])
            /\ Code(r.fns[x])[k] = Replaced(Code(m.fns[x])[k], old, new, cast, old)
        BY <1>3 DEF ReplacedCode
      <3>2. Code(m.fns[x])[k].cast \in BOOLEAN
        <4>1. IsFunction(m.fns[x], D)
          BY <1>1
        <4>2. Code(m.fns[x])[k] \in Instruction(D)
          <5> HIDE DEF D
          <5> QED BY <4>1, CodeProperties
        <4> QED BY <4>2 DEF Instruction
      <3> DEFINE i == Code(m.fns[x])[k]
      <3>3. i.cast = TRUE /\ i.callee = old
        BY <2>1, <3>2
      <3>4. Replaced(i, old, new, cast, old).callee = old
        <4> HIDE DEF cast, i
        <4> QED BY <3>3 DEF Replaced
      <3>5. Replaced(i, old, new, cast, old).cast = TRUE
        <4> HIDE DEF cast, i
        <4>1. (i.cast \/ (i.callee = old /\ cast)) = TRUE
          BY <3>3
        <4> QED BY <4>1 DEF Replaced
      <3> QED BY <3>1, <3>4, <3>5
    <2> QED BY <1>2, <2>1 DEF CastUsers, Range
  <1>14. CastsAreListed(r)
    <2>1. CastsAreListed(m)
      BY UsesListed
    <2>2. ASSUME NEW h \in D, CastUsers(r, h) # {} PROVE h \in r.casts
      <3>1. CASE h = new /\ cast
        BY <1>2, <3>1
      <3>2. CASE h # new \/ ~ cast
        BY <1>2, <1>12, <2>1, <2>2, <3>2 DEF CastsAreListed
      <3> QED BY <3>1, <3>2
    <2> QED BY <1>2, <2>2 DEF CastsAreListed
  <1>10. UsesAreListed(r)
    BY <1>2, <1>4, <1>9, <1>14, UsesListed
  <1>11. ASSUME NEW h \in D, h \notin Range(Users(DirectCalls(m, old)))
         PROVE  r.fns[h] = m.fns[h]
    <2>1. ASSUME NEW k \in DOMAIN Code(m.fns[h])
          PROVE  Replaced(Code(m.fns[h])[k], old, new, cast, old) = Code(m.fns[h])[k]
      <3> DEFINE u == [by |-> h, pos |-> k, role |-> "callee"]
      <3>1. k \in Nat /\ Code(m.fns[h])[k] \in Instruction(D)
        BY <1>1, CodeProperties
      <3>2. u \in Uses(m) /\ u.by = h
        BY <3>1 DEF Uses, Roles
      <3>3. u \notin Range(DirectCalls(m, old))
        BY <1>8, <1>11, <3>2, UsersProperties
      <3>4. ~ RefersTo(m, u, old)
        BY <1>5, <1>8, <3>2, <3>3
      <3>5. Code(m.fns[h])[k].callee # old \/ Code(m.fns[h])[k].cast
        BY <3>4 DEF RefersTo, UsedIn, Referred
      <3> DEFINE i == Code(m.fns[h])[k]
      <3>6. /\ i = [op |-> i.op, callee |-> i.callee, cast |-> i.cast, choice |-> i.choice, arg |-> i.arg]
            /\ i.cast \in BOOLEAN
        BY <3>1 DEF Instruction
      <3>7. Replaced(i, old, new, cast, old)
              = [op |-> i.op, callee |-> i.callee, cast |-> i.cast, choice |-> i.choice, arg |-> i.arg]
        <4> HIDE DEF i, cast
        <4> QED BY <3>5, <3>6 DEF Replaced, i
      <3> QED BY <3>6, <3>7
    <2>2. IsFunction(m.fns[h], D) /\ Len(m.fns[h].codes) <= 1
      BY <1>1 DEF SingleCodes
    <2> HIDE DEF D, cast
    <2>3. ReplacedIn(m.fns[h], old, new, cast, old) = m.fns[h]
      BY <2>1, <2>2, NothingReplaced
    <2> QED BY <1>2, <2>3
  <1> QED BY <1>2, <1>3, <1>4, <1>10, <1>11, <1>12, <1>13

(* A function that refers to other functions that exist. *)
LEMMA FunctionAmong ==
  ASSUME NEW f, NEW ids, IsFunction(f, ids), Len(f.codes) <= 1, NEW less,
         \A k \in DOMAIN Code(f) : {Code(f)[k].callee, Code(f)[k].arg} \subseteq less \cup {None}
  PROVE  IsFunction(f, less)
  <1>1. /\ f \in [name : Seq(STRING), linkage : {"external", "weak", "internal"},
                  shape : STRING, type : Seq(STRING) \ {<<>>}, blocks : Nat,
                  codes : Seq(Seq(Instruction(ids)))]
        /\ \A c \in DOMAIN f.codes : f.codes[c] # <<>>
    BY DEF IsFunction
  <1>2. DOMAIN f.codes = 1 .. Len(f.codes) /\ Len(f.codes) \in Nat
    BY <1>1, LenProperties
  <1>3. ASSUME NEW c \in DOMAIN f.codes PROVE f.codes[c] \in Seq(Instruction(less))
    <2>1. c = 1 /\ f.codes # <<>>
      BY <1>2, <1>3
    <2>2. f.codes[c] = Code(f)
      BY <2>1, CodeProperties
    <2>3. /\ DOMAIN Code(f) = 1 .. Len(Code(f)) /\ Len(Code(f)) \in Nat
          /\ \A k \in DOMAIN Code(f) : Code(f)[k] \in Instruction(ids)
      BY CodeProperties
    <2>4. \A k \in DOMAIN Code(f) : Code(f)[k] \in Instruction(less)
      BY <2>3 DEF Instruction
    <2>5. Code(f) = [k \in 1 .. Len(Code(f)) |-> Code(f)[k]]
      BY <2>2, <1>1, <1>3, ElementOfSeq, LenProperties
    <2> QED BY <2>2, <2>3, <2>4, <2>5
  <1>4. f.codes \in Seq(Seq(Instruction(less)))
    BY <1>1, <1>2, <1>3
  <1> DEFINE cs == f.codes
  <1>5. /\ f = [name |-> f.name, linkage |-> f.linkage, shape |-> f.shape, type |-> f.type,
             blocks |-> f.blocks, codes |-> cs]
        /\ f.name \in Seq(STRING) /\ f.linkage \in {"external", "weak", "internal"}
        /\ f.shape \in STRING /\ f.type \in Seq(STRING) \ {<<>>} /\ f.blocks \in Nat
        /\ cs \in Seq(Seq(Instruction(less)))
    BY <1>1, <1>4
  <1>6. f \in [name : Seq(STRING), linkage : {"external", "weak", "internal"},
               shape : STRING, type : Seq(STRING) \ {<<>>}, blocks : Nat,
               codes : Seq(Seq(Instruction(less)))]
    <2> HIDE DEF cs
    <2> QED BY <1>5
  <1> QED BY <1>1, <1>6 DEF IsFunction

(* A function that nothing refers to is erased. *)
LEMMA ErasedModule ==
  ASSUME NEW m, IsModule(m), UsesAreListed(m), SingleCodes(m),
         NEW g \in DOMAIN m.fns, m.uses[g] = <<>>, g \notin Range(m.data), g \notin m.casts,
         NEW r, r = Erased(m, g)
  PROVE  /\ IsModule(r) /\ UsesAreListed(r) /\ SingleCodes(r)
         /\ DOMAIN r.fns = DOMAIN m.fns \ {g} /\ r.next = m.next
         /\ \A h \in DOMAIN r.fns : r.fns[h] = m.fns[h]
  <1> DEFINE D == DOMAIN m.fns
             rest == D \ {g}
  <1>1. /\ m.next \in Nat /\ D \subseteq 1..m.next - 1 /\ m.data \in Seq(D)
        /\ m.casts \subseteq D
        /\ \A h \in D : IsFunction(m.fns[h], D)
    BY DEF IsModule
  <1>2. /\ DOMAIN r.fns = rest /\ r.next = m.next /\ r.data = m.data /\ r.casts = m.casts
        /\ \A h \in rest : r.fns[h] = m.fns[h] /\ r.uses[h] = UsesWithout(m, h, g)
    BY DEF Erased
  <1>3. \A h \in D : /\ m.uses[h] \in Seq(Uses(m))
                    /\ \A u \in Uses(m) : u \in Range(m.uses[h]) <=> RefersTo(m, u, h)
    BY UsesListed
  <1>4. \A u \in Uses(m) : ~ RefersTo(m, u, g)
    BY <1>3 DEF Range
  <1>5. ASSUME NEW h \in rest PROVE IsFunction(r.fns[h], rest)
    <2>1. IsFunction(m.fns[h], D) /\ Len(m.fns[h].codes) <= 1
      BY <1>1 DEF SingleCodes
    <2>2. ASSUME NEW k \in DOMAIN Code(m.fns[h])
          PROVE  {Code(m.fns[h])[k].callee, Code(m.fns[h])[k].arg} \subseteq rest \cup {None}
      <3>1. k \in Nat /\ Code(m.fns[h])[k] \in Instruction(D)
        BY <2>1, CodeProperties
      <3>2. ASSUME NEW role \in Roles PROVE Referred(Code(m.fns[h])[k], role) # g
        <4> DEFINE u == [by |-> h, pos |-> k, role |-> role]
        <4>1. u \in Uses(m)
          BY <3>1 DEF Uses
        <4> QED BY <1>4, <4>1 DEF RefersTo, UsedIn
      <3>3. Code(m.fns[h])[k].callee # g /\ Code(m.fns[h])[k].arg # g
        <4>1. CASE Code(m.fns[h])[k].cast
          <5>1. CastUsers(m, g) = {}
            BY UsesListed DEF CastsAreListed
          <5>2. Code(m.fns[h])[k] \in Range(Code(m.fns[h]))
            BY DEF Range
          <5>3. Code(m.fns[h])[k].callee # g
            BY <4>1, <5>1, <5>2 DEF CastUsers
          <5> QED BY <3>2, <5>3 DEF Referred, Roles
        <4>2. CASE ~ Code(m.fns[h])[k].cast
          BY <3>2, <4>2 DEF Referred, Roles
        <4> QED BY <4>1, <4>2
      <3> QED BY <3>1, <3>3 DEF Instruction
    <2> HIDE DEF D, rest
    <2>3. IsFunction(m.fns[h], rest)
      BY <2>1, <2>2, FunctionAmong
    <2> QED BY <1>2, <2>3
  <1>6. m.data \in Seq(rest)
    <2>1. Range(m.data) \cap D \subseteq rest
      OBVIOUS
    <2> HIDE DEF D, rest
    <2> QED BY <1>1, <2>1, SeqWithin
  <1>7. IsModule(r) /\ SingleCodes(r)
    BY <1>1, <1>2, <1>5, <1>6 DEF IsModule, SingleCodes
  <1>8. Uses(r) = {u \in Uses(m) : u.by # g}
    BY <1>2 DEF Uses
  <1>9. ASSUME NEW u \in Uses(r) PROVE \A h : RefersTo(r, u, h) <=> RefersTo(m, u, h)
    <2>1. r.fns[u.by] = m.fns[u.by]
      BY <1>2 DEF Uses
    <2> QED BY <2>1 DEF RefersTo, UsedIn
  <1>10. ASSUME NEW h \in rest
         PROVE  /\ r.uses[h] \in Seq(Uses(r))
                /\ \A u \in Uses(r) : u \in Range(r.uses[h]) <=> RefersTo(r, u, h)
    <2>1. /\ r.uses[h] \in Seq(Uses(m))
          /\ Range(r.uses[h]) = {u \in Range(m.uses[h]) : u.by # g}
      BY <1>2, <1>3, SomeUses
    <2>2. r.uses[h] \in Seq(Uses(r))
      BY <1>8, <2>1, SeqWithin
    <2> QED BY <1>3, <1>8, <1>9, <2>1, <2>2
  <1>12. CastsAreListed(r)
    <2>1. CastsAreListed(m)
      BY UsesListed
    <2>2. \A h \in rest : CastUsers(r, h) \subseteq CastUsers(m, h)
      BY <1>2 DEF CastUsers
    <2> QED BY <1>2, <2>1, <2>2 DEF CastsAreListed
  <1>11. UsesAreListed(r)
    BY <1>2, <1>7, <1>10, <1>12, UsesListed
  <1> QED BY <1>2, <1>7, <1>11

(* The instructions of a thunk: of those only the call, which is not cast,    *)
(* refers to a function.                                                   *)
CallAt(from, to) == Len(ArgumentCasts(from, to)) + 1

IsThunkCode(body, call, forward, ids) ==
  /\ body \in Seq(Instruction(ids)) /\ call \in DOMAIN body /\ call \in Nat
  /\ body[call] = forward
  /\ \A k \in DOMAIN body : /\ ~ body[k].cast
                            /\ k # call => body[k].callee = None /\ body[k].arg = None

LEMMA ThunkCode ==
  ASSUME NEW from \in Seq(STRING), NEW to \in Seq(STRING), NEW ids, NEW callee \in ids,
         NEW choice \in Nat
  PROVE  IsThunkCode(ThunkBody(from, to, callee, choice), CallAt(from, to), Forward(callee, choice), ids)
  <1> DEFINE body == ThunkBody(from, to, callee, choice)
             call == CallAt(from, to)
             differing == {k \in DOMAIN from \cap DOMAIN to : k > 1 /\ from[k] # to[k]}
             order == Ascending(differing)
             Plain == {i \in Instruction(ids) : i.callee = None /\ i.arg = None /\ i.cast = FALSE}
             casts == ArgumentCasts(from, to)
             forward == <<Forward(callee, choice)>>
             last == IF from[1] # to[1] THEN <<Cast(1)>> ELSE <<>>
  <1>1. DOMAIN from = 1 .. Len(from) /\ Len(from) \in Nat
    BY LenProperties
  <1>2. differing \in SUBSET Nat /\ IsFiniteSet(differing)
    <2>1. differing \subseteq 1 .. Len(from)
      BY <1>1
    <2>2. IsFiniteSet(1 .. Len(from))
      BY <1>1, Segment
    <2>3. 1 .. Len(from) \subseteq Nat
      BY <1>1
    <2> HIDE DEF differing
    <2>4. IsFiniteSet(differing)
      BY <2>1, <2>2, FS_Subset
    <2> QED BY <2>1, <2>3, <2>4
  <1>3. /\ DOMAIN order = 1 .. Cardinality(differing) /\ Cardinality(differing) \in Nat
        /\ \A n \in DOMAIN order : order[n] \in Nat
    <2> HIDE DEF differing
    <2>1. /\ order \in Seq(differing) /\ Cardinality(differing) \in Nat
          /\ DOMAIN order = 1 .. Cardinality(differing)
      BY <1>2, AscendingProperties
    <2> HIDE DEF order
    <2> QED BY <1>2, <2>1, ItemsOfSeq
  <1>4. \A k \in Nat : Cast(k) \in Plain
    BY TextAssumption DEF Cast, Instruction
  <1>5. casts \in Seq(Plain)
    <2>1. casts = [n \in DOMAIN order |-> Cast(order[n])]
      BY DEF ArgumentCasts
    <2> HIDE DEF Plain, order, casts, differing
    <2>2. casts \in [1 .. Cardinality(differing) -> Plain]
      BY <1>3, <1>4, <2>1
    <2> QED BY <1>3, <2>2
  <1>6. /\ forward \in Seq(Instruction(ids)) /\ Len(forward) = 1
        /\ forward[1] = Forward(callee, choice)
    BY TextAssumption DEF Forward, Instruction
  <1>7. last \in Seq(Plain)
    <2>1. Cast(1) \in Plain
      BY <1>4
    <2> HIDE DEF Plain
    <2> QED BY <2>1
  <1>8. body = (casts \o forward) \o last /\ call = Len(casts) + 1
    BY DEF ThunkBody, CallAt
  <1>9. Plain \subseteq Instruction(ids) /\ Seq(Plain) \subseteq Seq(Instruction(ids))
    <2>1. Plain \subseteq Instruction(ids)
      OBVIOUS
    <2> HIDE DEF Plain
    <2> QED BY <2>1
  <1> HIDE DEF casts, forward, last, Plain, body, call
  <1> DEFINE start == casts \o forward
             All == Instruction(ids)
  <1>20. casts \in Seq(All) /\ forward \in Seq(All) /\ last \in Seq(All)
    BY <1>5, <1>6, <1>7, <1>9
  <1>21. Len(casts) \in Nat /\ Len(forward) = 1 /\ Len(last) \in Nat
    BY <1>6, <1>20, LenProperties
  <1>10. /\ start \in Seq(Instruction(ids)) /\ Len(start) = Len(casts) + 1
         /\ \A k \in 1 .. Len(casts) + 1 : start[k] = IF k <= Len(casts) THEN casts[k] ELSE forward[k - Len(casts)]
    <2> HIDE DEF All
    <2>1. /\ casts \o forward \in Seq(All) /\ Len(casts \o forward) = Len(casts) + Len(forward)
          /\ \A k \in 1 .. Len(casts) + Len(forward) :
               (casts \o forward)[k] = IF k <= Len(casts) THEN casts[k] ELSE forward[k - Len(casts)]
      BY <1>20, ConcatProperties
    <2> QED BY <1>21, <2>1 DEF All
  <1> HIDE DEF start
  <1>11. /\ body \in Seq(Instruction(ids)) /\ Len(body) = Len(start) + Len(last)
         /\ \A k \in 1 .. Len(start) + Len(last) : body[k] = IF k <= Len(start) THEN start[k] ELSE last[k - Len(start)]
    <2>1. start \in Seq(All)
      BY <1>10
    <2> HIDE DEF All
    <2>2. /\ start \o last \in Seq(All) /\ Len(start \o last) = Len(start) + Len(last)
          /\ \A k \in 1 .. Len(start) + Len(last) :
               (start \o last)[k] = IF k <= Len(start) THEN start[k] ELSE last[k - Len(start)]
      BY <1>20, <2>1, ConcatProperties
    <2>3. body = start \o last
      BY <1>8 DEF start
    <2> QED BY <2>2, <2>3 DEF All
  <1>12. /\ Len(casts) \in Nat /\ Len(last) \in Nat /\ DOMAIN body = 1 .. Len(body)
         /\ \A k \in 1 .. Len(casts) : casts[k] \in Plain
         /\ \A k \in 1 .. Len(last) : last[k] \in Plain
    BY <1>5, <1>7, <1>11, LenProperties
  <1>13. call \in DOMAIN body /\ call \in Nat /\ body[call] = Forward(callee, choice)
    BY <1>6, <1>8, <1>10, <1>11, <1>12
  <1>14. ASSUME NEW k \in DOMAIN body, k # call PROVE body[k] \in Plain
    <2>1. CASE k <= Len(casts)
      BY <1>8, <1>10, <1>11, <1>12, <2>1
    <2>2. CASE k > Len(casts)
      <3>1. k - Len(start) \in 1 .. Len(last) /\ k > Len(start) /\ k \in 1 .. Len(start) + Len(last)
        BY <1>8, <1>10, <1>11, <1>12, <1>14, <2>2
      <3>2. body[k] = last[k - Len(start)]
        <4>1. ~ (k <= Len(start))
          BY <1>10, <1>12, <3>1
        <4> QED BY <1>11, <3>1, <4>1
      <3> QED BY <1>12, <3>1, <3>2
    <2> QED BY <1>12, <2>1, <2>2
  <1>15. \A k \in DOMAIN body \ {call} : body[k].callee = None /\ body[k].arg = None /\ ~ body[k].cast
    BY <1>14 DEF Plain
  <1>16. ~ body[call].cast
    BY <1>13 DEF Forward
  <1>17. IsThunkCode(body, call, Forward(callee, choice), ids)
    BY <1>11, <1>13, <1>15, <1>16 DEF IsThunkCode
  <1> QED BY <1>17 DEF body, call

LEMMA ThunkFunction ==
  ASSUME NEW f, NEW ids, IsFunction(f, ids), NEW type \in Seq(STRING), NEW more,
         NEW callee \in more, NEW choice \in Nat
  PROVE  /\ IsFunction(ThunkFor(f, type, callee, choice), more)
         /\ Len(ThunkFor(f, type, callee, choice).codes) = 1
         /\ ThunkFor(f, type, callee, choice).linkage = f.linkage
         /\ Code(ThunkFor(f, type, callee, choice)) = ThunkBody(f.type, type, callee, choice)
  <1> DEFINE g == ThunkFor(f, type, callee, choice)
              code == ThunkBody(f.type, type, callee, choice)
             cs == <<code>>
  <1>1. /\ f.name \in Seq(STRING) /\ f.linkage \in {"external", "weak", "internal"}
        /\ f.shape \in STRING /\ f.type \in Seq(STRING) /\ f.type # <<>>
    BY DEF IsFunction
  <1>2. code \in Seq(Instruction(more)) /\ CallAt(f.type, type) \in DOMAIN code
    <2>1. IsThunkCode(code, CallAt(f.type, type), Forward(callee, choice), more)
      BY <1>1, ThunkCode
    <2> HIDE DEF code
    <2> QED BY <2>1 DEF IsThunkCode
  <1>3. code # <<>>
    <2> HIDE DEF code
    <2> QED BY <1>2
  <1>4. g = [name |-> f.name, linkage |-> f.linkage, shape |-> f.shape, type |-> f.type,
             blocks |-> 1, codes |-> cs]
    BY DEF ThunkFor
  <1> HIDE DEF code, g
  <1>5. /\ cs \in Seq(Seq(Instruction(more))) /\ \A c \in DOMAIN cs : cs[c] # <<>>
        /\ Len(cs) = 1 /\ cs # <<>> /\ cs[1] = code
    BY <1>2, <1>3
  <1> HIDE DEF cs
  <1>6. IsFunction(g, more)
    BY <1>1, <1>4, <1>5 DEF IsFunction
  <1>7. Code(g) = code
    BY <1>4, <1>5 DEF Code
  <1> QED BY <1>4, <1>5, <1>6, <1>7 DEF code, g

(* A thunk takes the place of a function. *)
LEMMA ThunkedModule ==
  ASSUME NEW m, IsModule(m), UsesAreListed(m), SingleCodes(m),
         NEW f \in DOMAIN m.fns, NEW g \in DOMAIN m.fns, f # g,
         NEW r, r = WithThunk(m, f, g)
  PROVE  /\ IsModule(r) /\ UsesAreListed(r) /\ SingleCodes(r)
         /\ DOMAIN r.fns = (DOMAIN m.fns \ {g}) \cup {m.next} /\ r.next = m.next + 1
         /\ \A h \in DOMAIN m.fns \ {g} :
              /\ SameKind(r.fns[h], m.fns[h])
              /\ ReplacedCode(r.fns[h], m.fns[h], g, m.next, FALSE, m.next)
  <1> DEFINE D == DOMAIN m.fns
             rest == D \ {g}
             new == m.next
             N == rest \cup {new}
             place == CallAt(m.fns[g].type, m.fns[f].type)
             call == [by |-> new, pos |-> place, role |-> "callee"]
             data == [s \in DOMAIN m.data |-> IF m.data[s] = g THEN new ELSE m.data[s]]
             before(h) == IF h = f THEN <<call>> ELSE <<>>
  <1>1. /\ m.next \in Nat /\ D \subseteq 1..m.next - 1 /\ m.data \in Seq(D)
        /\ m.casts \subseteq D
        /\ \A h \in D : IsFunction(m.fns[h], D)
    BY DEF IsModule
  <1>2. new \notin D /\ new # None /\ None \notin D
    BY <1>1 DEF None
  <1>3. /\ DOMAIN r.fns = N /\ r.next = new + 1 /\ r.data = data
        /\ r.casts = (m.casts \ {g}) \cup (IF g \in m.casts THEN {new} ELSE {})
        /\ r.fns[new] = ThunkFor(m.fns[g], m.fns[f].type, f, 0)
        /\ r.uses[new] = Reverse(UsesWithout(m, g, g))
        /\ \A h \in rest : /\ r.fns[h] = ReplacedIn(m.fns[h], g, new, FALSE, new)
                          /\ r.uses[h] = before(h) \o UsesWithout(m, h, g)
    <2>1. r = Thunked(m, f, g, data)
      BY DEF WithThunk
    <2> HIDE DEF data
    <2> DEFINE fns == [h \in N |-> IF h = new THEN ThunkFor(m.fns[g], m.fns[f].type, f, 0)
                                   ELSE ReplacedIn(m.fns[h], g, new, FALSE, new)]
               uses == [h \in N |-> IF h = new THEN Reverse(UsesWithout(m, g, g))
                                    ELSE before(h) \o UsesWithout(m, h, g)]
               casts == (m.casts \ {g}) \cup (IF g \in m.casts THEN {new} ELSE {})
    <2>2. Thunked(m, f, g, data) = [fns |-> fns, data |-> data, casts |-> casts, uses |-> uses, next |-> new + 1]
      BY DEF Thunked, CallAt
    <2>3. /\ r.fns = fns /\ r.data = data /\ r.casts = casts /\ r.uses = uses /\ r.next = new + 1
      <3> HIDE DEF fns, casts, uses, new
      <3> QED BY <2>1, <2>2
    <2>4. /\ DOMAIN fns = N /\ fns[new] = ThunkFor(m.fns[g], m.fns[f].type, f, 0)
          /\ \A h \in rest : fns[h] = ReplacedIn(m.fns[h], g, new, FALSE, new)
      <3> HIDE DEF new, D
      <3> QED BY <1>2
    <2>5. /\ uses[new] = Reverse(UsesWithout(m, g, g))
          /\ \A h \in rest : uses[h] = before(h) \o UsesWithout(m, h, g)
      <3> HIDE DEF new, D, before
      <3> QED BY <1>2
    <2> HIDE DEF fns, uses, casts, before, new, N, rest
    <2> QED BY <2>3, <2>4, <2>5 DEF casts
  <1>4. \A h \in D : /\ m.uses[h] \in Seq(Uses(m))
                    /\ \A u \in Uses(m) : u \in Range(m.uses[h]) <=> RefersTo(m, u, h)
    BY UsesListed
  <1>5. ASSUME NEW h \in rest
        PROVE  /\ IsFunction(r.fns[h], N) /\ SameKind(r.fns[h], m.fns[h])
               /\ ReplacedCode(r.fns[h], m.fns[h], g, new, FALSE, new)
    <2>1. D \ {g} \subseteq N /\ new \in N
      OBVIOUS
    <2>2. IsFunction(m.fns[h], D) /\ r.fns[h] = ReplacedIn(m.fns[h], g, new, FALSE, new)
      BY <1>1, <1>3
    <2> HIDE DEF D, N, new
    <2> QED BY <2>1, <2>2, ReplacedFunction
  <1>6. /\ IsFunction(r.fns[new], N) /\ Len(r.fns[new].codes) = 1
        /\ place \in DOMAIN Code(r.fns[new]) /\ place \in Nat
        /\ Code(r.fns[new])[place] = Forward(f, 0)
        /\ \A k \in DOMAIN Code(r.fns[new]) \ {place} :
             Code(r.fns[new])[k].callee = None /\ Code(r.fns[new])[k].arg = None
        /\ \A k \in DOMAIN Code(r.fns[new]) : ~ Code(r.fns[new])[k].cast
    <2>1. /\ IsFunction(m.fns[g], D) /\ IsFunction(m.fns[f], D) /\ f \in N
          /\ r.fns[new] = ThunkFor(m.fns[g], m.fns[f].type, f, 0)
      BY <1>1, <1>3
    <2> DEFINE old == m.fns[g]
               to == m.fns[f].type
               thunk == r.fns[new]
               first == 0
    <2>2. old.type \in Seq(STRING) /\ to \in Seq(STRING)
      BY <2>1 DEF IsFunction
    <2>3. thunk = ThunkFor(old, to, f, first) /\ IsFunction(old, D) /\ f \in N /\ first \in Nat
      BY <2>1
    <2>4. place = CallAt(old.type, to)
      OBVIOUS
    <2> HIDE DEF N, D, new, to, old, thunk, place, first
    <2>5. /\ IsFunction(thunk, N) /\ Len(thunk.codes) = 1
          /\ Code(thunk) = ThunkBody(old.type, to, f, first)
      <3>1. /\ IsFunction(ThunkFor(old, to, f, first), N) /\ Len(ThunkFor(old, to, f, first).codes) = 1
            /\ Code(ThunkFor(old, to, f, first)) = ThunkBody(old.type, to, f, first)
        BY <2>2, <2>3, ThunkFunction
      <3> QED BY <2>3, <3>1
    <2> DEFINE body == Code(thunk)
    <2>6. body = ThunkBody(old.type, to, f, first)
      BY <2>5
    <2> HIDE DEF body
    <2>7. /\ place \in DOMAIN body /\ place \in Nat /\ body[place] = Forward(f, first)
          /\ \A k \in DOMAIN body \ {place} : body[k].callee = None /\ body[k].arg = None
          /\ \A k \in DOMAIN body : ~ body[k].cast
      <3>1. IsThunkCode(ThunkBody(old.type, to, f, first), CallAt(old.type, to), Forward(f, first), N)
        BY <2>2, <2>3, ThunkCode
      <3>2. IsThunkCode(body, place, Forward(f, first), N)
        BY <2>4, <2>6, <3>1
      <3> QED BY <3>2 DEF IsThunkCode
    <2> QED BY <2>5, <2>7 DEF body, thunk, first
  <1>7. data \in Seq(N)
    <2>1. DOMAIN m.data = 1 .. Len(m.data) /\ Len(m.data) \in Nat
          /\ \A k \in DOMAIN m.data : m.data[k] \in D
      BY <1>1, ItemsOfSeq
    <2>2. data \in [1 .. Len(m.data) -> N]
      BY <2>1
    <2> HIDE DEF data, N
    <2> QED BY <2>1, <2>2
  <1>8. IsModule(r) /\ SingleCodes(r)
    <2>1. r.next \in Nat /\ N \subseteq 1..r.next - 1
      BY <1>1, <1>3
    <2>4. r.casts \subseteq N
      BY <1>1, <1>3
    <2>2. \A h \in N : IsFunction(r.fns[h], N)
      BY <1>5, <1>6
    <2>3. ASSUME NEW h \in N PROVE Len(r.fns[h].codes) <= 1
      <3>1. CASE h = new
        <4>1. Len(r.fns[h].codes) = 1
          BY <1>6, <3>1
        <4> QED BY <4>1
      <3>2. CASE h # new
        BY <1>5, <3>2 DEF SameKind, SingleCodes
      <3> QED BY <3>1, <3>2
    <2> HIDE DEF N, data
    <2> QED BY <1>3, <1>7, <2>1, <2>2, <2>3, <2>4 DEF IsModule, SingleCodes
  <1>9. Uses(r) = {u \in Uses(m) : u.by # g} \cup {u \in Uses(r) : u.by = new}
    BY <1>2, <1>3 DEF Uses
  <1>10. ASSUME NEW u \in Uses(m), u.by # g
         PROVE  \A h : RefersTo(r, u, h)
                  <=> /\ u.pos \in DOMAIN Code(m.fns[u.by])
                      /\ h = IF Referred(UsedIn(m, u), u.role) = g
                            THEN new ELSE Referred(UsedIn(m, u), u.role)
    <2>1. u.by \in rest /\ u.role \in {"callee", "arg"}
      BY <1>10 DEF Uses, Roles
    <2>2. DOMAIN Code(r.fns[u.by]) = DOMAIN Code(m.fns[u.by])
      BY <1>5, <2>1 DEF ReplacedCode
    <2>3. u.pos \in DOMAIN Code(m.fns[u.by])
            => UsedIn(r, u) = Replaced(UsedIn(m, u), g, new, FALSE, new)
      BY <1>5, <2>1 DEF UsedIn, ReplacedCode
    <2>4. u.pos \in DOMAIN Code(m.fns[u.by]) => UsedIn(m, u).cast \in BOOLEAN
      <3>1. IsFunction(m.fns[u.by], D)
        BY <1>1, <2>1
      <3>2. u.pos \in DOMAIN Code(m.fns[u.by]) => UsedIn(m, u) \in Instruction(D)
        <4> HIDE DEF D
        <4> QED BY <3>1, CodeProperties DEF UsedIn
      <3> QED BY <3>2 DEF Instruction
    <2>5. g # None
      BY <1>2
    <2> HIDE DEF new, D
    <2> QED BY <2>1, <2>2, <2>3, <2>4, <2>5 DEF RefersTo, Referred, Replaced
  <1>11. ASSUME NEW u \in Uses(m), u.pos \in DOMAIN Code(m.fns[u.by])
         PROVE  Referred(UsedIn(m, u), u.role) # new
    <2>1. u.by \in D
      BY DEF Uses
    <2>2. IsFunction(m.fns[u.by], D)
      BY <1>1, <2>1
    <2> HIDE DEF D, new
    <2>3. UsedIn(m, u) \in Instruction(D)
      BY <1>11, <2>2, CodeProperties DEF UsedIn
    <2> QED BY <1>2, <2>3 DEF Instruction, Referred, D
  <1>12. ASSUME NEW u \in Uses(r), u.by = new
         PROVE  \A h \in N : RefersTo(r, u, h) <=> u = call /\ h = f
    <2>2. u = [by |-> new, pos |-> u.pos, role |-> u.role] /\ u.role \in {"callee", "arg"}
      BY <1>12 DEF Uses, Roles
    <2>3. None \notin N
      BY <1>2
    <2> HIDE DEF place
    <2>4. \A h \in N : RefersTo(r, u, h) <=> u.pos = place /\ u.role = "callee" /\ h = f
      <3> HIDE DEF N, D
      <3>1. CASE u.pos = place
        BY <1>6, <1>12, <2>2, <2>3, <3>1 DEF RefersTo, UsedIn, Referred, Forward
      <3>2. CASE u.pos # place
        BY <1>6, <1>12, <2>2, <2>3, <3>2 DEF RefersTo, UsedIn, Referred
      <3> QED BY <3>1, <3>2
    <2>5. u = call <=> u.pos = place /\ u.role = "callee"
      BY <2>2
    <2> HIDE DEF call, N
    <2> QED BY <2>4, <2>5
  <1>13. call \in Uses(r)
    BY <1>3, <1>6 DEF Uses, Roles
  <1>14. \A h \in D : /\ UsesWithout(m, h, g) \in Seq(Uses(r))
                     /\ Range(UsesWithout(m, h, g)) = {u \in Range(m.uses[h]) : u.by # g}
    <2> TAKE h \in D
    <2>1. /\ UsesWithout(m, h, g) \in Seq(Uses(m))
          /\ Range(UsesWithout(m, h, g)) = {u \in Range(m.uses[h]) : u.by # g}
      BY <1>4, SomeUses
    <2>2. Range(UsesWithout(m, h, g)) \cap Uses(m) \subseteq Uses(r)
      BY <1>9, <2>1
    <2> QED BY <2>1, <2>2, SeqWithin
  <1>15. ASSUME NEW h \in N
         PROVE  /\ r.uses[h] \in Seq(Uses(r))
                /\ \A u \in Uses(r) : u \in Range(r.uses[h]) <=> RefersTo(r, u, h)
    <2>1. CASE h = new
      <3>1. /\ r.uses[h] \in Seq(Uses(r))
            /\ Range(r.uses[h]) = {u \in Range(m.uses[g]) : u.by # g}
        BY <1>3, <1>14, <2>1, ReverseProperties
      <3>2. ASSUME NEW u \in Uses(r) PROVE u \in Range(r.uses[h]) <=> RefersTo(r, u, h)
        <4>1. CASE u.by = new
          <5>1. ~ RefersTo(r, u, h)
            BY <1>2, <1>12, <2>1, <4>1
          <5>2. u \notin Uses(m)
            BY <1>2, <4>1 DEF Uses
          <5>3. Range(m.uses[g]) \subseteq Uses(m)
            BY <1>4, ItemsOfSeq
          <5> QED BY <3>1, <5>1, <5>2, <5>3
        <4>2. CASE u.by # new
          <5>1. u \in Uses(m) /\ u.by # g
            BY <1>9, <4>2
          <5>2. RefersTo(r, u, h) <=> RefersTo(m, u, g)
            BY <1>10, <1>11, <2>1, <5>1 DEF RefersTo
          <5> QED BY <1>4, <3>1, <5>1, <5>2
        <4> QED BY <4>1, <4>2
      <3> QED BY <3>1, <3>2
    <2>2. CASE h # new
      <3>1. h \in rest /\ r.uses[h] = before(h) \o UsesWithout(m, h, g)
        BY <1>3, <2>2
      <3>2. before(h) \in Seq(Uses(r)) /\ Range(before(h)) = IF h = f THEN {call} ELSE {}
        <4> HIDE DEF call
        <4> QED BY <1>13 DEF Range
      <3>3. /\ r.uses[h] \in Seq(Uses(r))
            /\ Range(r.uses[h]) = (IF h = f THEN {call} ELSE {})
                                  \cup {u \in Range(m.uses[h]) : u.by # g}
        <4> HIDE DEF call, before
        <4> QED BY <1>14, <3>1, <3>2, ConcatRange
      <3>4. ASSUME NEW u \in Uses(r) PROVE u \in Range(r.uses[h]) <=> RefersTo(r, u, h)
        <4>0. Range(m.uses[h]) \subseteq Uses(m)
          BY <1>4, <3>1, ItemsOfSeq
        <4>1. CASE u.by = new
          <5>1. u \notin Uses(m)
            BY <1>2, <4>1 DEF Uses
          <5>2. RefersTo(r, u, h) <=> u = call /\ h = f
            BY <1>12, <4>1
          <5> HIDE DEF call
          <5> QED BY <3>3, <4>0, <5>1, <5>2
        <4>2. CASE u.by # new
          <5>1. u \in Uses(m) /\ u.by # g /\ u # call
            BY <1>9, <4>2
          <5>2. RefersTo(r, u, h) <=> RefersTo(m, u, h)
            BY <1>10, <1>11, <2>2, <3>1, <5>1 DEF RefersTo
          <5> HIDE DEF call
          <5> QED BY <1>4, <3>1, <3>3, <5>1, <5>2
        <4> QED BY <4>1, <4>2
      <3> QED BY <3>3, <3>4
    <2> QED BY <2>1, <2>2
  <1>17. CastsAreListed(r)
    <2>1. CastsAreListed(m)
      BY UsesListed
    <2>2. ASSUME NEW h \in N, NEW x \in N, NEW k \in DOMAIN Code(r.fns[x]),
                 Code(r.fns[x])[k].callee = h, Code(r.fns[x])[k].cast
          PROVE  h \in r.casts
      <3>1. x # new
        BY <1>6, <2>2
      <3>2. /\ x \in rest /\ k \in DOMAIN Code(m.fns[x])
            /\ Code(r.fns[x])[k] = Replaced(Code(m.fns[x])[k], g, new, FALSE, new)
        BY <1>5, <2>2, <3>1 DEF ReplacedCode
      <3> DEFINE i == Code(m.fns[x])[k]
      <3>3. i \in Instruction(D)
        <4>1. IsFunction(m.fns[x], D)
          BY <1>1, <3>2
        <4> HIDE DEF D
        <4> QED BY <3>2, <4>1, CodeProperties
      <3>4. i.cast /\ h = IF i.callee = g THEN new ELSE i.callee
        <4>1. i.cast \in BOOLEAN
          BY <3>3 DEF Instruction
        <4> HIDE DEF i, new
        <4> QED BY <2>2, <3>2, <4>1 DEF Replaced, i
      <3>5. i.callee \in D
        <4>1. i.callee \in D \cup {None}
          BY <3>3 DEF Instruction
        <4> HIDE DEF i
        <4> QED BY <1>2, <2>2, <3>4, <4>1
      <3>6. x \in CastUsers(m, i.callee)
        <4>1. i \in Range(Code(m.fns[x]))
          BY <3>2 DEF Range
        <4> HIDE DEF i
        <4> QED BY <3>2, <3>4, <4>1 DEF CastUsers
      <3>7. i.callee \in m.casts
        <4> HIDE DEF i
        <4> QED BY <2>1, <3>5, <3>6 DEF CastsAreListed
      <3> HIDE DEF i, new
      <3> QED BY <1>3, <3>4, <3>7
    <2> HIDE DEF N
    <2> QED BY <1>3, <2>2 DEF CastsAreListed, CastUsers, Range
  <1>16. UsesAreListed(r)
    BY <1>3, <1>8, <1>15, <1>17, UsesListed
  <1> QED BY <1>3, <1>5, <1>8, <1>16

-----------------------------------------------------------------------------
(***************************************************************************)
(* The inductive invariant.                                                *)
(***************************************************************************)
Strengths == {"strong", "weak"}
States == {"new", "compared"}
Entry == [f : Nat, state : States]
BucketType == [hash : STRING \X Strengths \X Nat \X Nat, fns : Seq(Entry)]
ComparisonType ==
  [f1 : Nat, f2 : Nat, differing : SUBSET Nat, count : Nat, selfRefs : SUBSET Nat]

Merging == phase \in {"enqueue", "strong", "weak"}

Types ==
  /\ IsModule(mod)
  /\ buckets \in Seq(BucketType)
  /\ deferred \in Seq(1..mod.next - 1)
  /\ comps \in Seq(ComparisonType)
  /\ phase \in {"enqueue", "strong", "weak", "diff", "done"}
  /\ at \in Nat \ {0}
  /\ merged \subseteq DOMAIN mod.fns
  /\ Merging => merged = {} /\ UsesAreListed(mod) /\ SingleCodes(mod)

IsCandidate(f) == IsComparisonCandidate(mod.fns[f])

(* The buckets differ in their hashes, and have functions of their hash, no *)
(* function twice and none that is deferred.                               *)
BucketsAreSound ==
  /\ \A a, b \in DOMAIN buckets : buckets[a].hash = buckets[b].hash => a = b
  /\ \A b \in DOMAIN buckets :
       /\ \A k \in DOMAIN buckets[b].fns :
            LET f == buckets[b].fns[k].f
            IN /\ f \in DOMAIN mod.fns /\ f \notin Range(deferred)
               /\ f \in merged \/ (IsCandidate(f) /\ Hash(mod.fns[f]) = buckets[b].hash)
       /\ \A j, k \in DOMAIN buckets[b].fns :
            buckets[b].fns[j].f = buckets[b].fns[k].f => j = k

(* A noted comparison is what comparing its functions gives now, until one  *)
(* of them is merged.                                                      *)
ComparisonsAreSound ==
  \A c \in Range(comps) :
    /\ c.f1 \in DOMAIN mod.fns /\ c.f2 \in DOMAIN mod.fns /\ c.f1 # c.f2
    /\ c.count > 0 /\ c.differing \subseteq 1..c.count
    /\ \/ c.f1 \in merged \/ c.f2 \in merged
       \/ /\ IsCandidate(c.f1) /\ IsCandidate(c.f2)
          /\ IsMergeable(mod, c.f1, c.f2)
          /\ c = Comparison(mod, c.f1, c.f2)

(* What the pass adds to a module has identities that the given one had not.*)
GivenIsOlder == IsModule(given) /\ given.next <= mod.next

(* A candidate of the given module has a bucket for its hash, or will get   *)
(* one; thunks may have none.                                              *)
HashesAreKnown ==
  Merging => \A f \in DOMAIN mod.fns \cap DOMAIN given.fns : IsCandidate(f) =>
               \/ Hash(mod.fns[f]) \in Hashes
               \/ phase = "enqueue" /\ f \in Range(deferred)

(* A strong candidate of the given module waits in a bucket or the queue,   *)
(* and the pass does not go on to similar functions with a queue.          *)
StrongAreKnown ==
  \A f \in DOMAIN mod.fns : IsStrongCandidate(f) => f \in Registered \cup Range(deferred)

QueueIsEmpty == phase \in {"diff", "done"} => deferred = <<>>

(* What the pass knows of two functions of a bucket once it has compared    *)
(* the first with those behind it.                                         *)
Noted(f, g) == \E c \in Range(comps) : {c.f1, c.f2} = {f, g}
Known(f, g) == ~ IsExactMatch(mod, f, g) /\ (IsMergeCandidate(mod, f, g) => Noted(f, g))

ComparedAreKnown ==
  merged = {} =>
    \A b \in DOMAIN buckets : \A j, k \in DOMAIN buckets[b].fns :
      j < k /\ buckets[b].fns[j].state = "compared"
        => Known(buckets[b].fns[j].f, buckets[b].fns[k].f)

(* A bucket in which nothing is left to compare, and the buckets that the   *)
(* pass has gone through since it last emptied the queue.                   *)
Settled(b) == \/ Len(buckets[b].fns) < 2
              \/ \A k \in DOMAIN buckets[b].fns : buckets[b].fns[k].state = "compared"

PassedAreSettled ==
  \A b \in DOMAIN buckets :
    \/ phase = "strong" /\ b < at /\ buckets[b].hash[2] = "strong"
    \/ phase = "weak" /\ (b < at \/ buckets[b].hash[2] = "strong")
    \/ phase = "diff"
    => Settled(b)

IInv == /\ Types /\ GivenIsOlder /\ BucketsAreSound /\ ComparisonsAreSound /\ HashesAreKnown
        /\ StrongAreKnown /\ QueueIsEmpty /\ ComparedAreKnown /\ PassedAreSettled

-----------------------------------------------------------------------------
(***************************************************************************)
(* FunctionsToCompare: a bucket for every hash that is looked up.          *)
(***************************************************************************)
LEMMA HashProperties ==
  ASSUME IsModule(mod), NEW f \in DOMAIN mod.fns
  PROVE  Hash(mod.fns[f]) \in STRING \X Strengths \X Nat \X Nat
  <1>1. mod.fns[f].shape \in STRING /\ mod.fns[f].blocks \in Nat /\ Len(mod.fns[f].type) \in Nat
    <2>1. IsFunction(mod.fns[f], DOMAIN mod.fns)
      BY DEF IsModule
    <2>2. /\ mod.fns[f].shape \in STRING /\ mod.fns[f].blocks \in Nat
          /\ mod.fns[f].type \in Seq(STRING)
      BY <2>1 DEF IsFunction
    <2> QED BY <2>2, LenProperties
  <1>2. Strength(mod.fns[f]) \in Strengths
    BY DEF Strength, Strengths
  <1> QED BY <1>1, <1>2 DEF Hash

(* The buckets that are added are empty, and have the hashes that were      *)
(* missing.                                                                *)
LEMMA ExtendedProperties ==
  ASSUME IsModule(mod), buckets \in Seq(BucketType),
         \A a, b \in DOMAIN buckets : buckets[a].hash = buckets[b].hash => a = b,
         NEW fs \in Seq(DOMAIN mod.fns), NEW bs, bs = Extended(fs)
  PROVE  /\ bs \in Seq(BucketType)
         /\ \A b \in DOMAIN buckets : b \in DOMAIN bs /\ bs[b] = buckets[b]
         /\ \A b \in DOMAIN bs \ DOMAIN buckets :
              /\ bs[b].fns = <<>> /\ bs[b].hash \notin Hashes
              /\ \E f \in Range(fs) : bs[b].hash = Hash(mod.fns[f])
         /\ \A a, b \in DOMAIN bs : bs[a].hash = bs[b].hash => a = b
         /\ \A h \in Hashes : \E b \in DOMAIN bs : bs[b].hash = h
         /\ \A f \in Range(fs) : \E b \in DOMAIN bs : bs[b].hash = Hash(mod.fns[f])
  <1> DEFINE H(n) == Hash(mod.fns[fs[n]])
             missing == {n \in DOMAIN fs : H(n) \notin Hashes /\ \A m \in 1..n - 1 : H(m) # H(n)}
             added == Items(fs, missing)
             new == [n \in DOMAIN added |-> [hash |-> Hash(mod.fns[added[n]]), fns |-> <<>>]]
             L == Len(buckets)
  <1>1. bs = buckets \o new
    BY DEF Extended
  <1>2. missing \in SUBSET DOMAIN fs /\ DOMAIN fs = 1 .. Len(fs) /\ Len(fs) \in Nat
        /\ \A n \in DOMAIN fs : fs[n] \in DOMAIN mod.fns
    BY ItemsOfSeq
  <1>3. /\ added \in Seq(DOMAIN mod.fns) /\ Range(added) = {fs[n] : n \in missing}
        /\ DOMAIN added = 1 .. Len(added) /\ Len(added) \in Nat
        /\ \A n \in DOMAIN added : added[n] \in DOMAIN mod.fns
    <2> HIDE DEF missing
    <2>1. /\ added \in Seq(DOMAIN mod.fns) /\ Range(added) = {fs[n] : n \in missing}
          /\ DOMAIN added = 1 .. Len(added) /\ Len(added) \in Nat
      BY <1>2, ItemsPositions
    <2> HIDE DEF added
    <2> QED BY <2>1, ItemsOfSeq
  <1>4. PICK p \in [DOMAIN added -> missing] :
          /\ \A n \in DOMAIN added : added[n] = fs[p[n]]
          /\ \A m, n \in DOMAIN added : m < n => p[m] < p[n]
    <2> HIDE DEF missing
    <2> QED BY <1>2, ItemsPositions
  <1>5. /\ new \in Seq(BucketType) /\ DOMAIN new = DOMAIN added /\ Len(new) = Len(added)
        /\ \A n \in DOMAIN added : new[n].hash = Hash(mod.fns[added[n]]) /\ new[n].fns = <<>>
    <2> HIDE DEF added
    <2>1. ASSUME NEW n \in DOMAIN added
          PROVE  [hash |-> Hash(mod.fns[added[n]]), fns |-> <<>>] \in BucketType
      <3>1. Hash(mod.fns[added[n]]) \in STRING \X Strengths \X Nat \X Nat
        BY <1>3, HashProperties
      <3>2. <<>> \in Seq(Entry)
        OBVIOUS
      <3> QED BY <3>1, <3>2 DEF BucketType
    <2>2. new \in [1 .. Len(added) -> BucketType]
      BY <1>3, <2>1
    <2>3. \A n \in DOMAIN added : new[n].hash = Hash(mod.fns[added[n]]) /\ new[n].fns = <<>>
      OBVIOUS
    <2> HIDE DEF new
    <2> QED BY <1>3, <2>2, <2>3
  <1>6. ASSUME NEW n \in DOMAIN added
        PROVE  /\ new[n].hash \notin Hashes
               /\ \A m \in DOMAIN added : m < n => new[m].hash # new[n].hash
    <2>1. p[n] \in missing /\ new[n].hash = H(p[n])
      BY <1>4, <1>5
    <2>2. ASSUME NEW m \in DOMAIN added, m < n PROVE new[m].hash # new[n].hash
      <3>1. p[m] \in missing /\ new[m].hash = H(p[m]) /\ p[m] < p[n]
        BY <1>4, <1>5, <2>2
      <3>2. p[m] \in 1..p[n] - 1
        <4>1. p[m] \in 1..Len(fs) /\ p[n] \in 1..Len(fs)
          BY <1>2, <2>1, <3>1
        <4> HIDE DEF missing, new, added, H
        <4> QED BY <1>2, <3>1, <4>1
      <3> HIDE DEF new, added
      <3> QED BY <2>1, <3>1, <3>2
    <2> QED BY <2>1, <2>2
  <1> HIDE DEF new, added
  <1>7. /\ bs \in Seq(BucketType) /\ L \in Nat /\ DOMAIN buckets = 1 .. L
        /\ DOMAIN bs = 1 .. L + Len(added)
        /\ \A b \in 1 .. L : bs[b] = buckets[b]
        /\ \A n \in DOMAIN added : L + n \in DOMAIN bs /\ bs[L + n] = new[n]
        /\ \A b \in DOMAIN bs : b \notin 1 .. L => b - L \in DOMAIN added
    <2>1. /\ bs \in Seq(BucketType) /\ Len(bs) = L + Len(added)
          /\ \A i \in 1 .. L + Len(added) : bs[i] = IF i <= L THEN buckets[i] ELSE new[i - L]
      BY <1>1, <1>5, ConcatProperties
    <2>2. DOMAIN bs = 1 .. Len(bs) /\ DOMAIN buckets = 1 .. L /\ L \in Nat
      BY <2>1, LenProperties
    <2>3. \A b \in 1 .. L : bs[b] = buckets[b]
      BY <1>3, <2>1, <2>2
    <2>4. ASSUME NEW n \in DOMAIN added PROVE L + n \in DOMAIN bs /\ bs[L + n] = new[n]
      <3>1. n \in 1 .. Len(added) /\ L + n \in 1 .. L + Len(added) /\ ~ (L + n <= L) /\ (L + n) - L = n
        BY <1>3, <2>2
      <3> QED BY <2>1, <2>2, <3>1
    <2>5. \A b \in DOMAIN bs : b \notin 1 .. L => b - L \in DOMAIN added
      BY <1>3, <2>1, <2>2
    <2> QED BY <2>1, <2>2, <2>3, <2>4, <2>5
  <1> HIDE DEF L
  <1>8. ASSUME NEW b \in DOMAIN bs, b \notin 1 .. L
        PROVE  b - L \in DOMAIN added /\ bs[b] = new[b - L]
    <2>1. b - L \in DOMAIN added /\ L + (b - L) = b
      BY <1>7, <1>8
    <2> QED BY <1>7, <2>1
  <1>9. /\ \A b \in DOMAIN buckets : b \in DOMAIN bs /\ bs[b] = buckets[b]
        /\ \A b \in DOMAIN bs \ DOMAIN buckets :
             /\ bs[b].fns = <<>> /\ bs[b].hash \notin Hashes
             /\ \E f \in Range(fs) : bs[b].hash = Hash(mod.fns[f])
    <2>1. ASSUME NEW b \in DOMAIN buckets PROVE b \in DOMAIN bs /\ bs[b] = buckets[b]
      BY <1>3, <1>7
    <2>2. ASSUME NEW b \in DOMAIN bs \ DOMAIN buckets
          PROVE  /\ bs[b].fns = <<>> /\ bs[b].hash \notin Hashes
                 /\ \E f \in Range(fs) : bs[b].hash = Hash(mod.fns[f])
      <3>1. b - L \in DOMAIN added /\ bs[b] = new[b - L]
        BY <1>7, <1>8, <2>2
      <3>2. added[b - L] \in Range(fs)
        BY <1>2, <1>4, <3>1 DEF Range
      <3> QED BY <1>5, <1>6, <3>1, <3>2
    <2> QED BY <2>1, <2>2
  <1>10. ASSUME NEW a \in DOMAIN bs, NEW b \in DOMAIN bs, a < b PROVE bs[a].hash # bs[b].hash
    <2>1. CASE b \in 1 .. L
      <3>1. a \in 1 .. L
        BY <1>7, <1>10, <2>1
      <3>2. bs[a] = buckets[a] /\ bs[b] = buckets[b] /\ a # b
        BY <1>7, <1>10, <2>1, <3>1
      <3> QED BY <1>7, <2>1, <3>1, <3>2
    <2>2. CASE b \notin 1 .. L /\ a \in 1 .. L
      <3>1. bs[a].hash \in Hashes
        BY <1>7, <2>2 DEF Hashes, Range
      <3> QED BY <1>6, <1>8, <2>2, <3>1
    <2>3. CASE b \notin 1 .. L /\ a \notin 1 .. L
      <3>1. a - L < b - L
        BY <1>7, <1>10
      <3> QED BY <1>6, <1>8, <2>3, <3>1
    <2> QED BY <2>1, <2>2, <2>3
  <1>11. \A a, b \in DOMAIN bs : bs[a].hash = bs[b].hash => a = b
    <2>1. DOMAIN bs \subseteq Int
      BY <1>7
    <2> QED BY <1>10, <2>1
  <1>12. ASSUME NEW h \in Hashes PROVE \E b \in DOMAIN bs : bs[b].hash = h
    <2>1. PICK b \in DOMAIN buckets : buckets[b].hash = h
      BY DEF Hashes, Range
    <2>2. b \in DOMAIN bs /\ bs[b] = buckets[b]
      BY <1>3, <1>7
    <2> QED BY <2>1, <2>2
  <1>13. ASSUME NEW f \in Range(fs) PROVE \E b \in DOMAIN bs : bs[b].hash = Hash(mod.fns[f])
    <2> DEFINE h == Hash(mod.fns[f])
               T == {n \in DOMAIN fs : H(n) = h}
    <2>1. CASE h \in Hashes
      BY <1>12, <2>1
    <2>2. CASE h \notin Hashes
      <3>1. T \in SUBSET Nat /\ T # {}
        BY <1>2 DEF Range
      <3>2. PICK n \in T : \A m \in T : n <= m
        <4> HIDE DEF T
        <4> QED BY <3>1, NatMin
      <3>3. n \in missing
        <4>1. n \in DOMAIN fs /\ H(n) = h
          BY <3>2
        <4>2. ASSUME NEW m \in 1..n - 1 PROVE H(m) # H(n)
          <5>1. m \in DOMAIN fs /\ m < n /\ m \in Nat /\ n \in Nat
            BY <1>2, <4>1
          <5> QED BY <3>2, <4>1, <5>1
        <4> QED BY <2>2, <4>1, <4>2
      <3>4. fs[n] \in Range(added)
        <4> HIDE DEF missing
        <4> QED BY <1>3, <3>3
      <3>5. PICK k \in DOMAIN added : added[k] = fs[n]
        BY <3>4 DEF Range
      <3>6. bs[L + k].hash = h /\ L + k \in DOMAIN bs
        <4>1. H(n) = h
          BY <3>2
        <4> HIDE DEF h
        <4> QED BY <1>5, <1>7, <3>5, <4>1
      <3> QED BY <3>6
    <2> QED BY <2>1, <2>2
  <1> QED BY <1>7, <1>9, <1>11, <1>12, <1>13

-----------------------------------------------------------------------------
(***************************************************************************)
(* MergeRegistry::remove.                                                  *)
(***************************************************************************)

(* The candidates among fs are among the functions taken out of the buckets, *)
(* and what is taken out is deferred, except for the first of fs; buckets   *)
(* that are added are empty and for candidates among fs; the comparisons    *)
(* that are kept have no candidate among fs.                               *)
Left(b, out) ==
  Items(buckets[b].fns, {k \in DOMAIN buckets[b].fns : buckets[b].fns[k].f \notin out})

TakenOut(fs, out) ==
  /\ {f \in Range(fs) : IsCandidate(f)} \subseteq out
  /\ buckets' \in Seq(BucketType) /\ DOMAIN buckets \subseteq DOMAIN buckets'
  /\ \A b \in DOMAIN buckets : buckets'[b] = [hash |-> buckets[b].hash, fns |-> Left(b, out)]
  /\ \A b \in DOMAIN buckets' \ DOMAIN buckets :
       /\ buckets'[b].fns = <<>> /\ buckets'[b].hash \notin Hashes
       /\ \E f \in Range(fs) : IsCandidate(f) /\ buckets'[b].hash = Hash(mod.fns[f])
  /\ \A a, b \in DOMAIN buckets' : buckets'[a].hash = buckets'[b].hash => a = b
  /\ deferred' \in Seq(1..mod.next - 1)
  /\ Range(deferred) \subseteq Range(deferred')
  /\ Range(deferred') \subseteq Range(deferred) \cup out
  /\ out \subseteq Range(deferred') \cup {fs[1]}
  /\ comps' = Items(comps, {n \in DOMAIN comps : comps[n] \in Untouched(fs)})

(* t has items of s, in their order. *)
Follows(p, t, s) ==
  /\ p \in [DOMAIN t -> DOMAIN s]
  /\ \A n \in DOMAIN t : t[n] = s[p[n]]
  /\ \A m, n \in DOMAIN t : m < n => p[m] < p[n]

LEMMA LeftProperties ==
  ASSUME Types, NEW b \in DOMAIN buckets, NEW out
  PROVE  /\ Left(b, out) \in Seq(Entry) /\ Len(Left(b, out)) <= Len(buckets[b].fns)
         /\ Len(Left(b, out)) \in Nat /\ Len(buckets[b].fns) \in Nat
         /\ [hash |-> buckets[b].hash, fns |-> Left(b, out)] \in BucketType
         /\ \A n \in DOMAIN Left(b, out) : Left(b, out)[n].f \notin out
         /\ \E p : Follows(p, Left(b, out), buckets[b].fns)
  <1> DEFINE s == buckets[b].fns
             I == {k \in DOMAIN s : s[k].f \notin out}
  <1>1. s \in Seq(Entry) /\ buckets[b].hash \in STRING \X Strengths \X Nat \X Nat
    <2>1. buckets[b] \in BucketType
      BY ItemsOfSeq DEF Types
    <2> QED BY <2>1 DEF BucketType
  <1>2. Len(s) \in Nat
    BY <1>1, LenProperties
  <1>3. I \in SUBSET DOMAIN s
    OBVIOUS
  <1> HIDE DEF s
  <1>4. /\ Items(s, I) \in Seq(Entry) /\ Len(Items(s, I)) \in Nat /\ Len(Items(s, I)) <= Len(s)
        /\ \E p \in [DOMAIN Items(s, I) -> I] :
             /\ \A n \in DOMAIN Items(s, I) : Items(s, I)[n] = s[p[n]]
             /\ \A m, n \in DOMAIN Items(s, I) : m < n => p[m] < p[n]
    <2> HIDE DEF I
    <2> QED BY <1>1, <1>3, ItemsPositions
  <1>5. Left(b, out) = Items(s, I)
    BY DEF Left, s
  <1>6. [hash |-> buckets[b].hash, fns |-> Items(s, I)] \in BucketType
    BY <1>1, <1>4 DEF BucketType
  <1>7. /\ \E p : Follows(p, Items(s, I), s)
        /\ \A n \in DOMAIN Items(s, I) : Items(s, I)[n].f \notin out
    <2>1. PICK p \in [DOMAIN Items(s, I) -> I] :
            /\ \A n \in DOMAIN Items(s, I) : Items(s, I)[n] = s[p[n]]
            /\ \A m, n \in DOMAIN Items(s, I) : m < n => p[m] < p[n]
      BY <1>4
    <2>2. p \in [DOMAIN Items(s, I) -> DOMAIN s]
      BY <2>1
    <2>3. \A n \in DOMAIN Items(s, I) : p[n] \in I
      BY <2>1
    <2>4. Follows(p, Items(s, I), s)
      BY <2>1, <2>2 DEF Follows
    <2> QED BY <2>1, <2>3, <2>4
  <1> QED BY <1>2, <1>4, <1>5, <1>6, <1>7 DEF s

LEMMA WithdrawEffect ==
  ASSUME Types, BucketsAreSound, ComparisonsAreSound,
         NEW fs \in Seq(DOMAIN mod.fns), Withdraw(fs)
  PROVE  \E out : TakenOut(fs, out)
  <1> DEFINE D == DOMAIN mod.fns
             E == 1..mod.next - 1
             gone == {f \in Range(fs) : IsComparisonCandidate(mod.fns[f])}
             theirs == Items(fs, {k \in DOMAIN fs : fs[k] \in gone})
             bs == Extended(theirs)
             again == 2 .. Len(fs)
             first(k) == {n \in DOMAIN comps :
                            /\ Touches(comps[n], fs[k])
                            /\ \A j \in 1..k - 1 : fs[j] \in gone => ~ Touches(comps[n], fs[j])}
             others(k) == LET stale == Items(comps, first(k))
                          IN [j \in DOMAIN stale |-> Partner(stale[j], fs[k])]
             put(k) == IF fs[k] \notin gone THEN <<>>
                       ELSE (IF k \in again THEN <<fs[k]>> ELSE <<>>) \o others(k)
             partners == {Partner(p[1], p[2]) :
                            p \in {q \in Range(comps) \X gone : Touches(q[1], q[2])}}
             out == gone \cup partners
             left(entries) == Items(entries, {k \in DOMAIN entries : entries[k].f \notin out})
             puts == [k \in DOMAIN fs |-> put(k)]
             P(k) == {Partner(comps[n], fs[k]) : n \in first(k)}
  <1>1. /\ buckets' = [b \in DOMAIN bs |-> [hash |-> bs[b].hash, fns |-> left(bs[b].fns)]]
        /\ deferred' = deferred \o FlattenSeq(puts)
        /\ comps' = Items(comps, {n \in DOMAIN comps : comps[n] \in Untouched(fs)})
    <2> DEFINE firstOf(k, g) == {n \in DOMAIN comps :
                                  /\ Touches(comps[n], fs[k])
                                  /\ \A j \in 1..k - 1 : fs[j] \in g => ~ Touches(comps[n], fs[j])}
               othersOf(k, g) == LET stale == Items(comps, firstOf(k, g))
                                 IN [j \in DOMAIN stale |-> Partner(stale[j], fs[k])]
               putOf(k, g) == IF fs[k] \notin g THEN <<>>
                              ELSE (IF k \in again THEN <<fs[k]>> ELSE <<>>) \o othersOf(k, g)
               partnersOf(g) == {Partner(p[1], p[2]) :
                                   p \in {q \in Range(comps) \X g : Touches(q[1], q[2])}}
               leftOf(entries, g) ==
                 Items(entries, {k \in DOMAIN entries : entries[k].f \notin g \cup partnersOf(g)})
               Taken(g, x) ==
                 /\ buckets' = [b \in DOMAIN x |-> [hash |-> x[b].hash, fns |-> leftOf(x[b].fns, g)]]
                 /\ deferred' = deferred \o FlattenSeq([k \in DOMAIN fs |-> putOf(k, g)])
                 /\ comps' = Items(comps, {n \in DOMAIN comps : comps[n] \in Untouched(fs)})
    <2>1. \E g \in {gone} : \E x \in {Extended(Items(fs, {k \in DOMAIN fs : fs[k] \in g}))} : Taken(g, x)
      BY DEF Withdraw, Removal
    <2>2. Taken(gone, bs)
      <3> HIDE DEF Taken, gone
      <3> QED BY <2>1
    <2> QED BY <2>2
  <1>2. D \subseteq E /\ buckets \in Seq(BucketType) /\ deferred \in Seq(E)
        /\ comps \in Seq(ComparisonType) /\ IsModule(mod)
    BY DEF Types, IsModule
  <1>3. gone \subseteq D /\ DOMAIN fs = 1 .. Len(fs) /\ Len(fs) \in Nat
        /\ \A k \in DOMAIN fs : fs[k] \in D
    BY ItemsOfSeq
  <1>4. theirs \in Seq(D) /\ Range(theirs) = gone
    <2> DEFINE K == {k \in DOMAIN fs : fs[k] \in gone}
    <2>1. K \in SUBSET DOMAIN fs
      OBVIOUS
    <2>2. Items(fs, K) \in Seq(D) /\ Range(Items(fs, K)) = {fs[k] : k \in K}
      <3> HIDE DEF K
      <3> QED BY <2>1, ItemsPositions
    <2>3. {fs[k] : k \in K} = gone
      BY DEF Range
    <2> QED BY <2>2, <2>3
  <1>5. /\ bs \in Seq(BucketType)
        /\ \A b \in DOMAIN buckets : b \in DOMAIN bs /\ bs[b] = buckets[b]
        /\ \A b \in DOMAIN bs \ DOMAIN buckets :
             /\ bs[b].fns = <<>> /\ bs[b].hash \notin Hashes
             /\ \E f \in gone : bs[b].hash = Hash(mod.fns[f])
        /\ \A a, b \in DOMAIN bs : bs[a].hash = bs[b].hash => a = b
    <2> HIDE DEF bs, gone, theirs
    <2>1. bs = Extended(theirs)
      BY DEF bs
    <2>2. \A a, b \in DOMAIN buckets : buckets[a].hash = buckets[b].hash => a = b
      BY DEF BucketsAreSound
    <2> QED BY <1>2, <1>4, <2>1, <2>2, ExtendedProperties
  <1>6. /\ buckets' \in Seq(BucketType) /\ DOMAIN buckets \subseteq DOMAIN buckets'
        /\ \A b \in DOMAIN buckets : buckets'[b] = [hash |-> buckets[b].hash, fns |-> Left(b, out)]
        /\ \A b \in DOMAIN buckets' \ DOMAIN buckets :
             /\ buckets'[b].fns = <<>> /\ buckets'[b].hash \notin Hashes
             /\ \E f \in Range(fs) : IsCandidate(f) /\ buckets'[b].hash = Hash(mod.fns[f])
        /\ \A a, b \in DOMAIN buckets' : buckets'[a].hash = buckets'[b].hash => a = b
    <2>1. \A f \in gone : f \in Range(fs) /\ IsCandidate(f)
      BY DEF IsCandidate
    <2> HIDE DEF bs, gone, partners, theirs, puts, out
    <2>2. buckets' = [b \in DOMAIN bs |-> [hash |-> bs[b].hash, fns |-> left(bs[b].fns)]]
      BY <1>1
    <2>3. DOMAIN bs = 1 .. Len(bs) /\ Len(bs) \in Nat
      BY <1>5, LenProperties
    <2>4. DOMAIN buckets' = DOMAIN bs /\ \A b \in DOMAIN bs : buckets'[b].hash = bs[b].hash
      BY <2>2
    <2>5. ASSUME NEW b \in DOMAIN buckets
          PROVE  buckets'[b] = [hash |-> buckets[b].hash, fns |-> Left(b, out)]
      BY <1>5, <2>2 DEF Left
    <2>6. ASSUME NEW b \in DOMAIN bs \ DOMAIN buckets PROVE buckets'[b].fns = <<>>
      <3>1. buckets'[b].fns = left(<<>>)
        BY <1>5, <2>2
      <3>2. <<>> \in Seq(Entry) /\ {k \in DOMAIN <<>> : <<>>[k].f \notin out} = {}
        OBVIOUS
      <3>3. Items(<<>>, {}) \in Seq(Entry) /\ Len(Items(<<>>, {})) <= Len(<<>>)
            /\ Len(Items(<<>>, {})) \in Nat
        BY <3>2, ItemsPositions
      <3>4. Len(Items(<<>>, {})) = 0
        BY <3>3, EmptySeq
      <3>5. Items(<<>>, {}) = <<>>
        BY <3>3, <3>4, EmptySeq
      <3> QED BY <3>1, <3>2, <3>5
    <2>7. buckets' \in Seq(BucketType)
      <3>1. ASSUME NEW b \in DOMAIN bs PROVE buckets'[b] \in BucketType
        <4>1. CASE b \in DOMAIN buckets
          BY <2>5, <4>1, LeftProperties
        <4>2. CASE b \notin DOMAIN buckets
          <5>1. bs[b] \in BucketType
            BY <1>5, ItemsOfSeq
          <5>2. bs[b].hash \in STRING \X Strengths \X Nat \X Nat /\ <<>> \in Seq(Entry)
            BY <5>1 DEF BucketType
          <5>3. buckets'[b] = [hash |-> bs[b].hash, fns |-> <<>>]
            BY <2>2, <2>6, <4>2
          <5> QED BY <5>2, <5>3 DEF BucketType
        <4> QED BY <4>1, <4>2
      <3>2. buckets' \in [1 .. Len(bs) -> BucketType]
        BY <2>2, <2>3, <3>1
      <3> QED BY <2>3, <3>2
    <2> QED BY <1>5, <2>1, <2>4, <2>5, <2>6, <2>7
  <1>7. ASSUME NEW k \in DOMAIN fs
        PROVE  /\ put(k) \in Seq(E \cap out)
               /\ fs[k] \in gone => /\ P(k) \subseteq Range(put(k))
                                    /\ (k # 1 => fs[k] \in Range(put(k)))
    <2>1. CASE fs[k] \notin gone
      BY <2>1
    <2>2. CASE fs[k] \in gone
      <3> DEFINE stale == Items(comps, first(k))
                 mine == IF k \in again THEN <<fs[k]>> ELSE <<>>
      <3>1. first(k) \in SUBSET DOMAIN comps
        OBVIOUS
      <3>2. /\ stale \in Seq(ComparisonType) /\ Range(stale) = {comps[n] : n \in first(k)}
            /\ DOMAIN stale = 1 .. Len(stale) /\ Len(stale) \in Nat
        <4> HIDE DEF first, gone, partners
        <4> QED BY <1>2, <3>1, ItemsPositions
      <3>3. ASSUME NEW j \in DOMAIN stale PROVE Partner(stale[j], fs[k]) \in E \cap out
        <4>1. PICK n \in first(k) : stale[j] = comps[n]
          <5>1. stale[j] \in Range(stale)
            BY DEF Range
          <5> HIDE DEF first, stale
          <5> QED BY <3>2, <5>1
        <4>2. Touches(comps[n], fs[k]) /\ comps[n] \in Range(comps) /\ n \in DOMAIN comps
          BY <4>1 DEF Range
        <4>3. Partner(comps[n], fs[k]) \in partners
          <5> DEFINE p == <<comps[n], fs[k]>>
          <5>1. p \in Range(comps) \X gone /\ p[1] = comps[n] /\ p[2] = fs[k]
            BY <2>2, <4>2
          <5> HIDE DEF gone, p
          <5> QED BY <4>2, <5>1
        <4>4. Partner(comps[n], fs[k]) \in D
          BY <4>2 DEF Partner, ComparisonsAreSound
        <4> HIDE DEF stale, partners, gone, first
        <4> QED BY <1>2, <4>1, <4>3, <4>4
      <3>4. others(k) \in [1 .. Len(stale) -> E \cap out]
        <4> HIDE DEF stale, out
        <4>1. others(k) = [j \in DOMAIN stale |-> Partner(stale[j], fs[k])]
          BY DEF stale
        <4> QED BY <3>2, <3>3, <4>1
      <3>5. others(k) \in Seq(E \cap out)
        <4> HIDE DEF others, out, stale
        <4> QED BY <3>2, <3>4
      <3>6. mine \in Seq(E \cap out) /\ (k # 1 => fs[k] \in Range(mine))
        <4>1. fs[k] \in E \cap out
          BY <1>2, <1>3, <2>2
        <4>2. k # 1 => mine = <<fs[k]>>
          BY <1>3
        <4>3. mine = <<fs[k]>> \/ mine = <<>>
          OBVIOUS
        <4> HIDE DEF out, mine
        <4>4. <<fs[k]>> \in Seq(E \cap out) /\ Range(<<fs[k]>>) = {fs[k]}
          BY <4>1, OneItem
        <4>5. <<>> \in Seq(E \cap out)
          OBVIOUS
        <4> QED BY <4>2, <4>3, <4>4, <4>5
      <3>7. put(k) = mine \o others(k)
        BY <2>2
      <3>8. ASSUME NEW n \in first(k) PROVE Partner(comps[n], fs[k]) \in Range(others(k))
        <4>1. PICK j \in DOMAIN stale : stale[j] = comps[n]
          <5>1. comps[n] \in Range(stale)
            <6> HIDE DEF first, stale
            <6> QED BY <3>2
          <5> HIDE DEF first, stale
          <5> QED BY <5>1 DEF Range
        <4>2. others(k) = [i \in DOMAIN stale |-> Partner(stale[i], fs[k])]
          OBVIOUS
        <4> HIDE DEF stale, others, first, gone
        <4>3. j \in DOMAIN others(k) /\ others(k)[j] = Partner(comps[n], fs[k])
          BY <4>1, <4>2
        <4> QED BY <4>3 DEF Range
      <3>9. put(k) \in Seq(E \cap out) /\ Range(put(k)) = Range(mine) \cup Range(others(k))
        <4> DEFINE a == mine
                   o == others(k)
        <4>1. a \in Seq(E \cap out) /\ o \in Seq(E \cap out) /\ put(k) = a \o o
          BY <3>5, <3>6, <3>7
        <4> HIDE DEF a, o, put, out, E
        <4>2. put(k) \in Seq(E \cap out) /\ Range(put(k)) = Range(a) \cup Range(o)
          BY <4>1, ConcatRange
        <4> QED BY <4>2 DEF a, o
      <3> HIDE DEF put, mine, others, out, first, gone
      <3> QED BY <3>6, <3>8, <3>9
    <2> QED BY <2>1, <2>2
  <1>8. puts \in Seq(Seq(E \cap out)) /\ DOMAIN puts = DOMAIN fs /\ \A k \in DOMAIN fs : puts[k] = put(k)
    <2>1. puts \in [1 .. Len(fs) -> Seq(E \cap out)]
      <3> HIDE DEF put, out, P, gone
      <3> QED BY <1>3, <1>7
    <2>2. DOMAIN puts = DOMAIN fs /\ \A k \in DOMAIN fs : puts[k] = put(k)
      <3> HIDE DEF put, out, P, gone
      <3> QED OBVIOUS
    <2> HIDE DEF puts, out, put, gone
    <2> QED BY <1>3, <2>1, <2>2
  <1> DEFINE t == FlattenSeq(puts)
  <1>9. /\ t \in Seq(E \cap out) /\ t \in Seq(E) /\ Range(t) \subseteq out
        /\ \A k \in DOMAIN fs : Range(put(k)) \subseteq Range(t)
    <2> HIDE DEF puts, out, put, E, D, gone
    <2>1. t \in Seq(E \cap out) /\ ToSet(t) = UNION {ToSet(puts[i]) : i \in DOMAIN puts}
      BY <1>8, FlattenSeqProperties
    <2>2. \A s : ToSet(s) = Range(s)
      BY DEF ToSet, Range
    <2> HIDE DEF t
    <2>3. Range(t) \subseteq E \cap out
      BY <2>1, ItemsOfSeq
    <2>4. t \in Seq(E)
      BY <2>1, <2>3, SeqWithin
    <2>5. ASSUME NEW k \in DOMAIN fs PROVE Range(put(k)) \subseteq Range(t)
      BY <1>8, <2>1, <2>2
    <2> QED BY <2>1, <2>3, <2>4, <2>5
  <1>10. /\ deferred' \in Seq(E) /\ Range(deferred') = Range(deferred) \cup Range(t)
    <2>1. deferred' = deferred \o t
      BY <1>1
    <2> HIDE DEF t, E
    <2> QED BY <1>2, <1>9, <2>1, ConcatRange
  <1>11. ASSUME NEW f \in gone PROVE f \in Range(t) \cup {fs[1]}
    <2>1. PICK k \in DOMAIN fs : fs[k] = f
      BY DEF Range
    <2> HIDE DEF t, gone, put, out, P
    <2> QED BY <1>7, <1>9, <2>1
  <1>12. ASSUME NEW c \in Range(comps), NEW h \in gone, Touches(c, h)
         PROVE  Partner(c, h) \in Range(t) \cup {fs[1]}
    <2> DEFINE K == {k \in DOMAIN fs : fs[k] \in gone /\ Touches(c, fs[k])}
    <2>1. PICK n \in DOMAIN comps : comps[n] = c
      BY DEF Range
    <2>2. K \in SUBSET Nat /\ K # {}
      <3>1. PICK k \in DOMAIN fs : fs[k] = h
        BY DEF Range
      <3> HIDE DEF gone
      <3> QED BY <1>3, <1>12, <3>1
    <2>3. PICK k \in K : \A j \in K : k <= j
      <3> HIDE DEF K
      <3> QED BY <2>2, NatMin
    <2>4. k \in DOMAIN fs /\ fs[k] \in gone /\ Touches(c, fs[k]) /\ k \in Nat
      BY <2>2, <2>3
    <2>5. n \in first(k)
      <3>1. ASSUME NEW j \in 1..k - 1, fs[j] \in gone PROVE ~ Touches(c, fs[j])
        <4>1. j \in DOMAIN fs /\ j < k /\ j \in Nat
          BY <1>3, <2>4
        <4> HIDE DEF gone
        <4> QED BY <2>3, <2>4, <3>1, <4>1
      <3> HIDE DEF gone, K
      <3> QED BY <2>1, <2>4, <3>1
    <2>6. Partner(c, fs[k]) \in Range(t)
      <3>1. Partner(c, fs[k]) \in P(k)
        <4> HIDE DEF first
        <4> QED BY <2>1, <2>5
      <3> HIDE DEF t, gone, put, out, P, K
      <3> QED BY <1>7, <1>9, <2>4, <3>1
    <2>7. CASE fs[k] = h
      BY <2>6, <2>7
    <2>8. CASE fs[k] # h
      <3>1. Partner(c, h) = fs[k]
        BY <1>12, <2>4, <2>8 DEF Touches, Partner
      <3> HIDE DEF t, gone, K
      <3> QED BY <1>11, <2>4, <3>1
    <2> QED BY <2>7, <2>8
  <1>13. out \subseteq Range(deferred') \cup {fs[1]}
    <2>1. ASSUME NEW f \in partners PROVE f \in Range(t) \cup {fs[1]}
      <3>1. PICK p \in {q \in Range(comps) \X gone : Touches(q[1], q[2])} : f = Partner(p[1], p[2])
        OBVIOUS
      <3>2. p[1] \in Range(comps) /\ p[2] \in gone /\ Touches(p[1], p[2])
        <4> HIDE DEF gone
        <4> QED BY <3>1
      <3> HIDE DEF t, gone, partners
      <3> QED BY <1>12, <3>1, <3>2
    <2> HIDE DEF t, gone, partners
    <2> QED BY <1>10, <1>11, <2>1
  <1>14. {f \in Range(fs) : IsCandidate(f)} \subseteq out
    BY DEF IsCandidate
  <1>15. TakenOut(fs, out)
    <2> HIDE DEF out, puts, partners, gone, t
    <2> QED BY <1>1, <1>6, <1>9, <1>10, <1>13, <1>14 DEF TakenOut
  <1> QED BY <1>15

-----------------------------------------------------------------------------
(***************************************************************************)
(* mergeTwoFunctions.                                                      *)
(***************************************************************************)

(* Two functions are compared in r as they are in m.                        *)
SameComparison(r, m, f, g) ==
  /\ IsMergeable(r, f, g) <=> IsMergeable(m, f, g)
  /\ IsMergeable(m, f, g) => Comparison(r, f, g) = Comparison(m, f, g)

(* Functions other than fs are compared with each other as before, and the   *)
(* first of fs is erased, unless it can be interposed.                     *)
OnlyChanges(fs) ==
  /\ IsModule(mod') /\ UsesAreListed(mod') /\ SingleCodes(mod')
  /\ mod.next <= mod'.next
  /\ DOMAIN mod'.fns \subseteq DOMAIN mod.fns \cup {mod.next}
  /\ DOMAIN mod.fns \ Range(fs) \subseteq DOMAIN mod'.fns
  /\ \A h \in DOMAIN mod.fns \cap DOMAIN mod'.fns : SameKind(mod'.fns[h], mod.fns[h])
  /\ \A h1, h2 \in DOMAIN mod.fns \ Range(fs) : SameComparison(mod', mod, h1, h2)
  /\ fs[1] \in DOMAIN mod'.fns => IsInterposable(mod.fns[fs[1]])

LEMMA SameFunctions ==
  ASSUME NEW m, NEW r, NEW f, NEW g, r.fns[f] = m.fns[f], r.fns[g] = m.fns[g]
  PROVE  SameComparison(r, m, f, g)
  BY DEF SameComparison, IsMergeable, Comparison

LEMMA SameMatches ==
  ASSUME NEW m, NEW r, NEW f, NEW g, SameComparison(r, m, f, g)
  PROVE  /\ IsExactMatch(r, f, g) <=> IsExactMatch(m, f, g)
         /\ IsMergeCandidate(r, f, g) <=> IsMergeCandidate(m, f, g)
  BY DEF SameComparison, IsExactMatch, IsMergeCandidate

(* A new name for a third function makes no difference.                      *)
LEMMA RenamedComparison ==
  ASSUME NEW m, IsModule(m), NEW f1 \in DOMAIN m.fns, NEW f2 \in DOMAIN m.fns,
         NEW g \in DOMAIN m.fns, f1 # g, f2 # g, NEW r,
         \A h \in DOMAIN m.fns \ {g} :
           /\ SameKind(r.fns[h], m.fns[h])
           /\ ReplacedCode(r.fns[h], m.fns[h], g, m.next, FALSE, m.next)
  PROVE  SameComparison(r, m, f1, f2)
  <1> DEFINE new == m.next
             ids == DOMAIN m.fns \cup {None}
             F1 == Code(m.fns[f1])
             F2 == Code(m.fns[f2])
             R1 == Code(r.fns[f1])
             R2 == Code(r.fns[f2])
  <1>1. new \notin ids /\ g \notin {f1, f2, None}
    BY DEF IsModule, None
  <1>2. /\ IsFunction(m.fns[f1], DOMAIN m.fns) /\ IsFunction(m.fns[f2], DOMAIN m.fns)
    BY DEF IsModule
  <1>3. /\ DOMAIN R1 = DOMAIN F1 /\ DOMAIN R2 = DOMAIN F2
        /\ \A k \in DOMAIN F1 : R1[k] = Replaced(F1[k], g, new, FALSE, new)
        /\ \A k \in DOMAIN F2 : R2[k] = Replaced(F2[k], g, new, FALSE, new)
        /\ Hash(r.fns[f1]) = Hash(m.fns[f1]) /\ Hash(r.fns[f2]) = Hash(m.fns[f2])
    BY DEF ReplacedCode, SameKind
  <1>4. /\ \A k \in DOMAIN F1 : F1[k] \in Instruction(DOMAIN m.fns)
        /\ \A k \in DOMAIN F2 : F2[k] \in Instruction(DOMAIN m.fns)
        /\ DOMAIN F1 = 1 .. Len(F1) /\ Len(F1) \in Nat
        /\ DOMAIN F2 = 1 .. Len(F2) /\ Len(F2) \in Nat
    BY <1>2, CodeProperties
  <1>5. Len(R1) = Len(F1) /\ Len(R2) = Len(F2)
    BY <1>3, <1>4
  <1>6. ASSUME NEW k \in DOMAIN F1, k \in DOMAIN F2
        PROVE  /\ IsSelfCall(R1[k], R2[k], f1, f2) <=> IsSelfCall(F1[k], F2[k], f1, f2)
               /\ IsSameInst(R1[k], R2[k], f1, f2) <=> IsSameInst(F1[k], F2[k], f1, f2)
    <2> DEFINE i == F1[k]
               j == F2[k]
               p == R1[k]
               q == R2[k]
    <2>0. /\ i \in Instruction(DOMAIN m.fns) /\ j \in Instruction(DOMAIN m.fns)
          /\ p = Replaced(i, g, new, FALSE, new) /\ q = Replaced(j, g, new, FALSE, new)
      BY <1>3, <1>4, <1>6
    <2> HIDE DEF i, j, p, q
    <2>1. /\ i.callee \in ids /\ i.arg \in ids /\ j.callee \in ids /\ j.arg \in ids
          /\ i.cast \in BOOLEAN /\ j.cast \in BOOLEAN
      BY <2>0 DEF Instruction
    <2>2. /\ p.op = i.op /\ p.choice = i.choice /\ (p.cast <=> i.cast)
          /\ p.callee = IF i.callee = g THEN new ELSE i.callee
          /\ p.arg = IF i.arg = g THEN new ELSE i.arg
      BY <2>0, <2>1 DEF Replaced
    <2>3. /\ q.op = j.op /\ q.choice = j.choice /\ (q.cast <=> j.cast)
          /\ q.callee = IF j.callee = g THEN new ELSE j.callee
          /\ q.arg = IF j.arg = g THEN new ELSE j.arg
      BY <2>0, <2>1 DEF Replaced
    <2>4. /\ p.callee = q.callee <=> i.callee = j.callee
          /\ p.arg = q.arg <=> i.arg = j.arg
          /\ p.callee = f1 <=> i.callee = f1
          /\ q.callee = f2 <=> j.callee = f2
      <3> HIDE DEF ids
      <3> QED BY <1>1, <2>1, <2>2, <2>3 DEF ids
    <2>5. IsSelfCall(p, q, f1, f2) <=> IsSelfCall(i, j, f1, f2)
      BY <2>2, <2>3, <2>4 DEF IsSelfCall
    <2>6. IsSameInst(p, q, f1, f2) <=> IsSameInst(i, j, f1, f2)
      BY <2>2, <2>3, <2>4, <2>5 DEF IsSameInst
    <2> QED BY <2>5, <2>6 DEF i, j, p, q
  <1>7. IsMergeable(r, f1, f2) <=> IsMergeable(m, f1, f2)
    BY <1>3, <1>5 DEF IsMergeable
  <1>8. ASSUME IsMergeable(m, f1, f2) PROVE Comparison(r, f1, f2) = Comparison(m, f1, f2)
    <2> DEFINE differing == {k \in DOMAIN F1 : ~ IsSameInst(F1[k], F2[k], f1, f2)}
               differs == {k \in DOMAIN R1 : ~ IsSameInst(R1[k], R2[k], f1, f2)}
    <2>1. DOMAIN F1 = DOMAIN F2
      BY <1>4, <1>8 DEF IsMergeable
    <2>2. \A k \in DOMAIN F1 :
            /\ IsSelfCall(R1[k], R2[k], f1, f2) <=> IsSelfCall(F1[k], F2[k], f1, f2)
            /\ IsSameInst(R1[k], R2[k], f1, f2) <=> IsSameInst(F1[k], F2[k], f1, f2)
      BY <1>6, <2>1
    <2> HIDE DEF F1, F2, R1, R2
    <2>3. differs = differing
      BY <1>3, <2>2
    <2>4. {k \in DOMAIN R1 \ differs : IsSelfCall(R1[k], R2[k], f1, f2)}
            = {k \in DOMAIN F1 \ differing : IsSelfCall(F1[k], F2[k], f1, f2)}
      <3> HIDE DEF differs, differing
      <3> QED BY <1>3, <2>2, <2>3
    <2> QED BY <1>5, <2>3, <2>4 DEF Comparison, F1, F2, R1, R2
  <1> QED BY <1>7, <1>8 DEF SameComparison

LEMMA NoticedProperties ==
  ASSUME IsModule(mod), NEW g, NEW noticed \in Noticed(g)
  PROVE  noticed \in Seq(DOMAIN mod.fns)
  <1>1. PICK some \in SUBSET CastUsers(mod, g) : noticed \in SetToSeqs(some)
    BY DEF Noticed
  <1>2. some \subseteq DOMAIN mod.fns /\ some \subseteq 1 .. mod.next - 1 /\ mod.next \in Nat
    BY DEF CastUsers, IsModule
  <1>3. IsFiniteSet(1 .. mod.next - 1)
    BY <1>2, FS_Interval
  <1>4. IsFiniteSet(some) /\ Cardinality(some) \in Nat
    BY <1>2, <1>3, FS_Subset, FS_CardinalityType
  <1>5. noticed \in [1 .. Cardinality(some) -> some]
    BY <1>1 DEF SetToSeqs
  <1>6. noticed \in [1 .. Cardinality(some) -> DOMAIN mod.fns]
    BY <1>2, <1>5
  <1> QED BY <1>4, <1>6

LEMMA WithFirst ==
  ASSUME NEW E, NEW x \in E, NEW s \in Seq(E)
  PROVE  <<x>> \o s \in Seq(E) /\ Range(<<x>> \o s) = {x} \cup Range(s) /\ (<<x>> \o s)[1] = x
  <1> DEFINE o == <<x>>
  <1>1. o \in Seq(E) /\ Range(o) = {x} /\ Len(o) = 1 /\ o[1] = x
    BY OneItem
  <1> HIDE DEF o
  <1>2. (o \o s)[1] = x
    <2>1. Len(s) \in Nat
      BY LenProperties
    <2>2. 1 \in 1 .. Len(o) + Len(s) /\ 1 <= Len(o)
      BY <1>1, <2>1
    <2> QED BY <1>1, <2>2, ConcatProperties
  <1>3. o \o s \in Seq(E) /\ Range(o \o s) = {x} \cup Range(s)
    BY <1>1, ConcatRange
  <1> QED BY <1>2, <1>3 DEF o

LEMMA MergeEffect ==
  ASSUME IsModule(mod), UsesAreListed(mod), SingleCodes(mod),
         NEW f \in DOMAIN mod.fns, NEW g \in DOMAIN mod.fns, f # g,
         Hash(mod.fns[f]) = Hash(mod.fns[g]), EquivMerge(f, g)
  PROVE  \E fs \in Seq(DOMAIN mod.fns) : fs[1] = g /\ Withdraw(fs) /\ OnlyChanges(fs)
  <1> DEFINE D == DOMAIN mod.fns
             callers == Users(DirectCalls(mod, g))
             others == Users(OtherUses(mod, g))
             r == RedirectCalls(mod, g, f)
             some == <<g>> \o callers
             all(noticed) == <<g>> \o callers \o others \o noticed
  <1>1. mod.next \in Nat /\ D \subseteq 1..mod.next - 1 /\ mod.next \notin D
    BY DEF IsModule
  <1>2. /\ DirectCalls(mod, g) \in Seq(Uses(mod)) /\ OtherUses(mod, g) \in Seq(Uses(mod))
    BY UsesListed, SomeUses DEF DirectCalls, OtherUses
  <1>3. callers \in Seq(D) /\ others \in Seq(D)
    BY <1>2, UsersProperties
  <1>4. some \in Seq(D) /\ Range(some) = {g} \cup Range(callers) /\ some[1] = g
    <2> HIDE DEF callers, D
    <2>1. g \in D
      BY DEF D
    <2> QED BY <1>3, <2>1, WithFirst
  <1>5. ASSUME NEW noticed \in Seq(D)
        PROVE  /\ all(noticed) \in Seq(D) /\ all(noticed)[1] = g
               /\ Range(all(noticed)) = {g} \cup Range(callers) \cup Range(others) \cup Range(noticed)
    <2> DEFINE t == callers \o others \o noticed
    <2> HIDE DEF callers, others, D
    <2>1. g \in D
      BY DEF D
    <2>2. callers \o others \in Seq(D) /\ Range(callers \o others) = Range(callers) \cup Range(others)
      BY <1>3, ConcatRange
    <2>3. t \in Seq(D) /\ Range(t) = Range(callers) \cup Range(others) \cup Range(noticed)
      <3> DEFINE c == callers \o others
      <3>0. c \in Seq(D)
        BY <2>2
      <3> HIDE DEF c
      <3>1. c \o noticed \in Seq(D) /\ Range(c \o noticed) = Range(c) \cup Range(noticed)
        BY <3>0, ConcatRange
      <3> QED BY <2>2, <3>1 DEF c
    <2>4. all(noticed) = <<g>> \o t
      <3>1. <<g>> \in Seq(D)
        BY <2>1
      <3> DEFINE o == <<g>>
      <3> HIDE DEF o
      <3>2. (o \o callers) \o others = o \o (callers \o others)
        BY <1>3, <3>1, ConcatAssociative DEF o
      <3>3. (o \o (callers \o others)) \o noticed = o \o ((callers \o others) \o noticed)
        BY <2>2, <3>1, ConcatAssociative DEF o
      <3> QED BY <3>2, <3>3 DEF o
    <2>5. <<g>> \o t \in Seq(D) /\ Range(<<g>> \o t) = {g} \cup Range(t) /\ (<<g>> \o t)[1] = g
      <3> HIDE DEF t
      <3> QED BY <2>1, <2>3, WithFirst
    <2> HIDE DEF t
    <2> QED BY <2>3, <2>4, <2>5
  <1>6. /\ IsModule(r) /\ UsesAreListed(r) /\ SingleCodes(r)
        /\ DOMAIN r.fns = D /\ r.next = mod.next /\ r.data = mod.data
        /\ r.uses[g] = OtherUses(mod, g) /\ (g \in r.casts <=> g \in mod.casts)
        /\ \A h \in D : SameKind(r.fns[h], mod.fns[h])
        /\ \A h \in D \ Range(callers) : r.fns[h] = mod.fns[h]
    <2> HIDE DEF r
    <2>1. r = RedirectCalls(mod, g, f)
      BY DEF r
    <2> QED BY <2>1, RedirectedModule
  <1> HIDE DEF r
  <1>7. \/ IsInterposable(mod.fns[f]) /\ mod' = r /\ Withdraw(some)
        \/ mod' = Erased(r, g) /\ CanErase(g) /\ Withdraw(some)
        \/ mod' = WithThunk(r, f, g) /\ \E noticed \in Noticed(g) : Withdraw(all(noticed))
    <2> DEFINE Body(cs, os, m) ==
                 \/ IsInterposable(mod.fns[f]) /\ mod' = m /\ Withdraw(<<g>> \o cs)
                 \/ mod' = Erased(m, g) /\ CanErase(g) /\ Withdraw(<<g>> \o cs)
                 \/ /\ mod' = WithThunk(m, f, g)
                    /\ \E noticed \in Noticed(g) : Withdraw(<<g>> \o cs \o os \o noticed)
    <2>1. \E cs \in {callers} : \E os \in {others} : \E m \in {r} : Body(cs, os, m)
      BY DEF EquivMerge, r
    <2>2. Body(callers, others, r)
      <3> HIDE DEF Body, callers, others
      <3> QED BY <2>1
    <2> QED BY <2>2
  <1>8. ASSUME NEW h1 \in D \ ({g} \cup Range(callers)), NEW h2 \in D \ ({g} \cup Range(callers))
        PROVE  SameComparison(r, mod, h1, h2)
    <2>1. r.fns[h1] = mod.fns[h1] /\ r.fns[h2] = mod.fns[h2]
      BY <1>6
    <2> QED BY <2>1, SameFunctions
  <1> HIDE DEF callers, some, all, others
  <1>9. CASE IsInterposable(mod.fns[f]) /\ mod' = r /\ Withdraw(some)
    <2>1. IsInterposable(mod.fns[g])
      BY <1>9 DEF Hash, Strength
    <2>2. mod.next <= r.next
      BY <1>1, <1>6
    <2>3. OnlyChanges(some)
      BY <1>4, <1>6, <1>8, <1>9, <2>1, <2>2 DEF OnlyChanges
    <2> QED BY <1>4, <1>9, <2>3
  <1>10. CASE mod' = Erased(r, g) /\ CanErase(g) /\ Withdraw(some)
    <2>1. r.uses[g] = <<>> /\ g \notin Range(r.data) /\ g \notin r.casts
      BY <1>6, <1>10 DEF CanErase
    <2> DEFINE e == mod'
    <2>2. e = Erased(r, g)
      BY <1>10
    <2>3. /\ IsModule(e) /\ UsesAreListed(e) /\ SingleCodes(e)
          /\ DOMAIN e.fns = D \ {g} /\ e.next = mod.next
          /\ \A h \in D \ {g} : e.fns[h] = r.fns[h]
      <3> HIDE DEF e
      <3> QED BY <1>6, <2>1, <2>2, ErasedModule
    <2>4. ASSUME NEW h1 \in D \ Range(some), NEW h2 \in D \ Range(some)
          PROVE  SameComparison(e, mod, h1, h2)
      <3>1. e.fns[h1] = mod.fns[h1] /\ e.fns[h2] = mod.fns[h2]
        <4> HIDE DEF e
        <4> QED BY <1>4, <1>6, <2>3
      <3> QED BY <3>1, SameFunctions
    <2>5. mod.next <= e.next
      BY <1>1, <2>3
    <2>6. \A h \in D \cap DOMAIN e.fns : SameKind(e.fns[h], mod.fns[h])
      <3> HIDE DEF e
      <3> QED BY <1>6, <2>3
    <2>7. OnlyChanges(some)
      BY <1>4, <2>3, <2>4, <2>5, <2>6 DEF OnlyChanges
    <2> QED BY <1>4, <1>10, <2>7
  <1>11. CASE mod' = WithThunk(r, f, g) /\ \E noticed \in Noticed(g) : Withdraw(all(noticed))
    <2>1. PICK noticed \in Noticed(g) : Withdraw(all(noticed))
      BY <1>11
    <2>2. noticed \in Seq(D)
      BY NoticedProperties
    <2> DEFINE e == mod'
               fs == all(noticed)
    <2>3. e = WithThunk(r, f, g)
      BY <1>11
    <2>4. /\ IsModule(e) /\ UsesAreListed(e) /\ SingleCodes(e)
          /\ DOMAIN e.fns = (D \ {g}) \cup {mod.next} /\ e.next = mod.next + 1
          /\ \A h \in D \ {g} : /\ SameKind(e.fns[h], r.fns[h])
                               /\ ReplacedCode(e.fns[h], r.fns[h], g, r.next, FALSE, r.next)
      <3> HIDE DEF e
      <3>1. /\ IsModule(e) /\ UsesAreListed(e) /\ SingleCodes(e)
            /\ DOMAIN e.fns = (DOMAIN r.fns \ {g}) \cup {r.next} /\ e.next = r.next + 1
            /\ \A h \in DOMAIN r.fns \ {g} :
                 /\ SameKind(e.fns[h], r.fns[h])
                 /\ ReplacedCode(e.fns[h], r.fns[h], g, r.next, FALSE, r.next)
        <4>1. f \in DOMAIN r.fns /\ g \in DOMAIN r.fns /\ f # g
          BY <1>6
        <4>2. IsModule(r) /\ UsesAreListed(r) /\ SingleCodes(r)
          BY <1>6
        <4> QED BY <2>3, <4>1, <4>2, ThunkedModule
      <3> QED BY <1>6, <3>1
    <2>5. /\ fs \in Seq(D) /\ fs[1] = g
          /\ {g} \cup Range(callers) \subseteq Range(fs)
      BY <1>5, <2>2
    <2>6. ASSUME NEW h \in D \cap DOMAIN e.fns PROVE SameKind(e.fns[h], mod.fns[h])
      <3>1. SameKind(e.fns[h], r.fns[h]) /\ SameKind(r.fns[h], mod.fns[h])
        <4> HIDE DEF e
        <4> QED BY <1>1, <1>6, <2>4
      <3> HIDE DEF e
      <3> QED BY <3>1 DEF SameKind
    <2>7. ASSUME NEW h1 \in D \ Range(fs), NEW h2 \in D \ Range(fs)
          PROVE  SameComparison(e, mod, h1, h2)
      <3> HIDE DEF e, fs
      <3>1. h1 \in DOMAIN r.fns /\ h2 \in DOMAIN r.fns /\ h1 # g /\ h2 # g /\ g \in DOMAIN r.fns
        BY <1>6, <2>5
      <3>2. SameComparison(e, r, h1, h2)
        BY <1>6, <2>4, <3>1, RenamedComparison
      <3>3. SameComparison(r, mod, h1, h2)
        BY <1>8, <2>5
      <3> QED BY <3>2, <3>3 DEF SameComparison
    <2>8. mod.next <= e.next
      <3> HIDE DEF e
      <3> QED BY <1>1, <2>4
    <2>9. DOMAIN e.fns \subseteq D \cup {mod.next} /\ D \ Range(fs) \subseteq DOMAIN e.fns
          /\ g \notin DOMAIN e.fns
      <3> HIDE DEF e, fs
      <3> QED BY <1>1, <2>4, <2>5
    <2>10. OnlyChanges(fs)
      <3> HIDE DEF fs
      <3> QED BY <2>4, <2>5, <2>6, <2>7, <2>8, <2>9 DEF OnlyChanges
    <2> QED BY <2>1, <2>5, <2>10
  <1> QED BY <1>7, <1>9, <1>10, <1>11

(* A merge keeps the invariant: whatever the pass knows is about functions   *)
(* that the merge made no difference to, and the rest is deferred.         *)
LEMMA MergeKeeps ==
  ASSUME IInv, phase \in {"strong", "weak"}, NEW fs \in Seq(DOMAIN mod.fns), NEW out,
         TakenOut(fs, out), OnlyChanges(fs), UNCHANGED <<given, phase, at, merged>>
  PROVE  IInv'
  <1> DEFINE D == DOMAIN mod.fns
             I == {n \in DOMAIN comps : comps[n] \in Untouched(fs)}
             Same(f) == /\ f \in D \ Range(fs) /\ f \in DOMAIN mod'.fns
                        /\ SameKind(mod'.fns[f], mod.fns[f])
  <1>1. /\ Types /\ GivenIsOlder /\ BucketsAreSound /\ ComparisonsAreSound /\ HashesAreKnown
        /\ StrongAreKnown /\ QueueIsEmpty /\ ComparedAreKnown /\ PassedAreSettled
    BY DEF IInv
  <1>2. /\ Merging /\ merged = {} /\ merged' = {} /\ phase' = phase /\ at' = at /\ given' = given
        /\ Merging'
    BY <1>1 DEF Types, Merging
  <1>3. /\ DOMAIN buckets \subseteq DOMAIN buckets' /\ buckets' \in Seq(BucketType)
        /\ \A b \in DOMAIN buckets : /\ buckets'[b].hash = buckets[b].hash
                                    /\ buckets'[b].fns = Left(b, out)
        /\ \A b \in DOMAIN buckets' \ DOMAIN buckets : buckets'[b].fns = <<>>
    <2>1. DOMAIN buckets \subseteq DOMAIN buckets' /\ buckets' \in Seq(BucketType)
      BY DEF TakenOut
    <2>2. \A b \in DOMAIN buckets : buckets'[b] = [hash |-> buckets[b].hash, fns |-> Left(b, out)]
      BY DEF TakenOut
    <2>3. \A b \in DOMAIN buckets' \ DOMAIN buckets : buckets'[b].fns = <<>>
      BY DEF TakenOut
    <2>4. ASSUME NEW b \in DOMAIN buckets
          PROVE  buckets'[b].hash = buckets[b].hash /\ buckets'[b].fns = Left(b, out)
      <3>1. buckets'[b] = [hash |-> buckets[b].hash, fns |-> Left(b, out)]
        BY <2>2
      <3> QED BY <3>1
    <2> QED BY <2>1, <2>3, <2>4
  <1>4. ASSUME NEW b \in DOMAIN buckets, NEW k \in DOMAIN Left(b, out)
        PROVE  LET f == Left(b, out)[k].f
               IN Same(f) /\ f \notin Range(deferred')
                  /\ IsCandidate(f) /\ Hash(mod.fns[f]) = buckets[b].hash
    <2> DEFINE f == Left(b, out)[k].f
    <2>1. /\ Left(b, out)[k].f \notin out
          /\ \E j \in DOMAIN buckets[b].fns : Left(b, out)[k] = buckets[b].fns[j]
      <3>1. PICK p : Follows(p, Left(b, out), buckets[b].fns)
        BY <1>1, LeftProperties
      <3>2. p[k] \in DOMAIN buckets[b].fns /\ Left(b, out)[k] = buckets[b].fns[p[k]]
        BY <3>1 DEF Follows
      <3>3. Left(b, out)[k].f \notin out
        BY <1>1, LeftProperties
      <3> QED BY <3>2, <3>3
    <2>2. /\ f \in D /\ f \notin Range(deferred) /\ f \notin out
          /\ IsCandidate(f) /\ Hash(mod.fns[f]) = buckets[b].hash
      BY <1>1, <1>2, <2>1 DEF BucketsAreSound
    <2> HIDE DEF f
    <2>3. f \notin Range(fs) /\ f \notin Range(deferred')
      BY <2>2 DEF TakenOut
    <2>4. Same(f)
      BY <2>2, <2>3 DEF OnlyChanges
    <2> QED BY <2>2, <2>3, <2>4 DEF f
  <1>5. /\ comps \in Seq(ComparisonType) /\ I \in SUBSET DOMAIN comps
        /\ comps' = Items(comps, I)
    BY <1>1 DEF Types, TakenOut
  <1>6. comps' \in Seq(ComparisonType) /\ Range(comps') = {comps[n] : n \in I}
    <2>1. /\ Items(comps, I) \in Seq(ComparisonType) /\ Range(Items(comps, I)) = {comps[n] : n \in I}
      <3> HIDE DEF I
      <3> QED BY <1>5, ItemsPositions
    <2> HIDE DEF I
    <2> QED BY <1>5, <2>1
  <1>7. ASSUME NEW c \in Range(comps')
        PROVE  /\ Same(c.f1) /\ Same(c.f2) /\ c.f1 # c.f2
               /\ c.count > 0 /\ c.differing \subseteq 1..c.count
               /\ IsCandidate(c.f1) /\ IsCandidate(c.f2)
               /\ IsMergeable(mod, c.f1, c.f2) /\ c = Comparison(mod, c.f1, c.f2)
    <2>1. c \in Range(comps) /\ c \in Untouched(fs)
      BY <1>6 DEF Range
    <2>2. /\ c.f1 \in D /\ c.f2 \in D /\ c.f1 # c.f2
          /\ c.count > 0 /\ c.differing \subseteq 1..c.count
          /\ IsCandidate(c.f1) /\ IsCandidate(c.f2)
          /\ IsMergeable(mod, c.f1, c.f2) /\ c = Comparison(mod, c.f1, c.f2)
      BY <1>1, <1>2, <2>1 DEF ComparisonsAreSound
    <2>3. c.f1 \notin Range(fs) /\ c.f2 \notin Range(fs)
      BY <2>1, <2>2 DEF Untouched, Touches, IsCandidate
    <2> QED BY <2>2, <2>3 DEF OnlyChanges
  <1>8. ASSUME NEW f \in DOMAIN mod'.fns, f \in DOMAIN given.fns
        PROVE  f \in D /\ SameKind(mod'.fns[f], mod.fns[f])
    <2>1. f \in Nat /\ f < mod.next /\ mod.next \in Nat
      BY <1>1, <1>8 DEF GivenIsOlder, IsModule, Types
    <2>2. f \in D
      BY <2>1 DEF OnlyChanges
    <2> QED BY <2>2 DEF OnlyChanges
  <1>9. Types'
    <2>1. /\ IsModule(mod') /\ UsesAreListed(mod') /\ SingleCodes(mod')
      BY DEF OnlyChanges
    <2>2. deferred' \in Seq(1..mod'.next - 1)
      <3>1. mod.next \in Nat /\ mod'.next \in Nat /\ mod.next <= mod'.next
        BY <1>1, <2>1 DEF Types, IsModule, OnlyChanges
      <3>2. 1..mod.next - 1 \subseteq 1..mod'.next - 1
        BY <3>1
      <3>3. deferred' \in Seq(1..mod.next - 1)
        BY DEF TakenOut
      <3>4. Range(deferred') \cap (1..mod.next - 1) \subseteq 1..mod'.next - 1
        BY <3>2
      <3> QED BY <3>3, <3>4, SeqWithin
    <2>3. phase' \in {"enqueue", "strong", "weak", "diff", "done"} /\ at' \in Nat \ {0}
      BY <1>1, <1>2 DEF Types
    <2> QED BY <1>2, <1>3, <1>6, <2>1, <2>2, <2>3 DEF Types
  <1>10. BucketsAreSound'
    <2>1. \A a, b \in DOMAIN buckets' : buckets'[a].hash = buckets'[b].hash => a = b
      BY DEF TakenOut
    <2>2. ASSUME NEW b \in DOMAIN buckets', NEW k \in DOMAIN buckets'[b].fns
          PROVE  LET f == buckets'[b].fns[k].f
                 IN /\ b \in DOMAIN buckets /\ k \in DOMAIN Left(b, out)
                    /\ f \in DOMAIN mod'.fns /\ f \notin Range(deferred')
                    /\ IsComparisonCandidate(mod'.fns[f])
                    /\ Hash(mod'.fns[f]) = buckets'[b].hash
      <3>1. b \in DOMAIN buckets
        BY <1>3, <2>2
      <3> QED BY <1>3, <1>4, <2>2, <3>1 DEF IsCandidate, SameKind
    <2>3. ASSUME NEW b \in DOMAIN buckets', NEW j \in DOMAIN buckets'[b].fns,
                 NEW k \in DOMAIN buckets'[b].fns, buckets'[b].fns[j].f = buckets'[b].fns[k].f
          PROVE  j = k
      <3>1. b \in DOMAIN buckets /\ buckets'[b].fns = Left(b, out)
        BY <1>3, <2>2
      <3>2. PICK p : Follows(p, Left(b, out), buckets[b].fns)
        BY <1>1, <3>1, LeftProperties
      <3>3. p[j] = p[k] /\ p[j] \in DOMAIN buckets[b].fns
        <4>1. /\ p[j] \in DOMAIN buckets[b].fns /\ p[k] \in DOMAIN buckets[b].fns
              /\ buckets[b].fns[p[j]].f = buckets[b].fns[p[k]].f
          BY <2>3, <3>1, <3>2 DEF Follows
        <4> QED BY <1>1, <3>1, <4>1 DEF BucketsAreSound
      <3>4. p[j] \in Nat
        <4>1. buckets[b] \in BucketType
          BY <1>1, <3>1, ItemsOfSeq DEF Types
        <4>2. DOMAIN buckets[b].fns \subseteq Nat
          BY <4>1, LenProperties DEF BucketType
        <4> QED BY <3>3, <4>2
      <3>5. j \in Int /\ k \in Int
        <4>1. Left(b, out) \in Seq(Entry)
          BY <1>1, <3>1, LeftProperties
        <4>2. DOMAIN Left(b, out) \subseteq Int
          BY <4>1, LenProperties
        <4> QED BY <3>1, <4>2
      <3> QED BY <3>1, <3>2, <3>3, <3>4, <3>5 DEF Follows
    <2> QED BY <2>1, <2>2, <2>3 DEF BucketsAreSound, IsCandidate
  <1>11. ComparisonsAreSound'
    <2>1. ASSUME NEW c \in Range(comps')
          PROVE  /\ c.f1 \in DOMAIN mod'.fns /\ c.f2 \in DOMAIN mod'.fns /\ c.f1 # c.f2
                 /\ c.count > 0 /\ c.differing \subseteq 1..c.count
                 /\ IsComparisonCandidate(mod'.fns[c.f1]) /\ IsComparisonCandidate(mod'.fns[c.f2])
                 /\ IsMergeable(mod', c.f1, c.f2)
                 /\ c = Comparison(mod', c.f1, c.f2)
      <3>1. /\ Same(c.f1) /\ Same(c.f2) /\ c.f1 # c.f2
            /\ c.count > 0 /\ c.differing \subseteq 1..c.count
            /\ IsCandidate(c.f1) /\ IsCandidate(c.f2)
            /\ IsMergeable(mod, c.f1, c.f2) /\ c = Comparison(mod, c.f1, c.f2)
        BY <1>7
      <3>2. SameComparison(mod', mod, c.f1, c.f2)
        BY <3>1 DEF OnlyChanges
      <3>3. IsMergeable(mod', c.f1, c.f2) /\ c = Comparison(mod', c.f1, c.f2)
        BY <3>1, <3>2 DEF SameComparison
      <3> QED BY <3>1, <3>3 DEF IsCandidate, SameKind
    <2> QED BY <2>1 DEF ComparisonsAreSound, IsCandidate
  <1>12. Hashes \subseteq Hashes'
    <2>1. ASSUME NEW b \in DOMAIN buckets PROVE buckets[b].hash \in Hashes'
      <3>1. b \in DOMAIN buckets' /\ buckets'[b].hash = buckets[b].hash
        BY <1>3
      <3> QED BY <3>1 DEF Hashes, Range
    <2> QED BY <2>1 DEF Hashes, Range
  <1>13. HashesAreKnown'
    <2>1. ASSUME NEW f \in DOMAIN mod'.fns \cap DOMAIN given.fns, IsComparisonCandidate(mod'.fns[f])
          PROVE  Hash(mod'.fns[f]) \in Hashes
      <3>1. f \in D \cap DOMAIN given.fns /\ IsCandidate(f) /\ Hash(mod'.fns[f]) = Hash(mod.fns[f])
        BY <1>8, <2>1 DEF SameKind, IsCandidate
      <3> QED BY <1>1, <1>2, <3>1 DEF HashesAreKnown
    <2> QED BY <1>2, <1>12, <2>1 DEF HashesAreKnown, IsCandidate
  <1>14. GivenIsOlder'
    <2>1. mod.next \in Nat /\ mod'.next \in Nat /\ mod.next <= mod'.next /\ given.next \in Nat
      BY <1>1, <1>9 DEF Types, IsModule, OnlyChanges, GivenIsOlder
    <2>2. given.next <= mod.next /\ IsModule(given)
      BY <1>1 DEF GivenIsOlder
    <2>3. given.next <= mod'.next
      BY <2>1, <2>2
    <2> QED BY <1>2, <2>2, <2>3 DEF GivenIsOlder
  <1>15. StrongAreKnown'
    <2>1. ASSUME NEW f \in DOMAIN mod'.fns, f \in DOMAIN given.fns,
                 IsComparisonCandidate(mod'.fns[f]), ~ IsInterposable(mod'.fns[f])
          PROVE  f \in Registered' \cup Range(deferred')
      <3>1. /\ f \in D /\ IsStrongCandidate(f) /\ ~ IsInterposable(mod.fns[f])
        BY <1>8, <2>1 DEF SameKind, IsCandidate, IsStrongCandidate, IsInterposable
      <3>2. CASE f \in Range(deferred)
        BY <3>2 DEF TakenOut
      <3>3. CASE f \in out
        BY <2>1, <3>1, <3>3 DEF TakenOut, OnlyChanges
      <3>4. CASE f \in Registered /\ f \notin out
        <4>1. PICK b \in DOMAIN buckets : \E k \in DOMAIN buckets[b].fns : buckets[b].fns[k].f = f
          BY <3>4 DEF Registered, Range
        <4>2. PICK k \in DOMAIN buckets[b].fns : buckets[b].fns[k].f = f
          BY <4>1
        <4> DEFINE s == buckets[b].fns
                   K == {i \in DOMAIN s : s[i].f \notin out}
        <4>3. s \in Seq(Entry) /\ K \in SUBSET DOMAIN s
          <5>1. buckets[b] \in BucketType
            BY <1>1, ItemsOfSeq DEF Types
          <5> QED BY <5>1 DEF BucketType
        <4>4. Range(Items(s, K)) = {s[i] : i \in K}
          <5> HIDE DEF s, K
          <5> QED BY <4>3, ItemsPositions
        <4>5. k \in K
          BY <3>4, <4>2
        <4>6. s[k] \in Range(Left(b, out))
          BY <4>4, <4>5 DEF Left
        <4>7. b \in DOMAIN buckets' /\ buckets'[b].fns = Left(b, out)
          BY <1>3
        <4>8. buckets'[b] \in Range(buckets')
          BY <4>7 DEF Range
        <4> QED BY <4>2, <4>6, <4>7, <4>8 DEF Registered
      <3> QED BY <1>1, <3>1, <3>2, <3>3, <3>4 DEF StrongAreKnown
    <2> QED BY <1>2, <2>1 DEF StrongAreKnown, IsStrongCandidate
  <1>16. QueueIsEmpty'
    BY <1>2 DEF QueueIsEmpty
  <1>17. ComparedAreKnown'
    <2> DEFINE KnownThen(f, g) ==
                 /\ ~ IsExactMatch(mod', f, g)
                 /\ IsMergeCandidate(mod', f, g)
                      => \E c \in Range(comps') : {c.f1, c.f2} = {f, g}
    <2>1. ASSUME NEW b \in DOMAIN buckets, NEW s, s = Left(b, out),
                 NEW j \in DOMAIN s, NEW k \in DOMAIN s, j < k, s[j].state = "compared"
          PROVE  KnownThen(s[j].f, s[k].f)
      <3> DEFINE f == s[j].f
                 g == s[k].f
      <3>1. Known(f, g)
        <4>1. PICK p : Follows(p, s, buckets[b].fns)
          BY <1>1, <2>1, LeftProperties
        <4>2. p[j] \in DOMAIN buckets[b].fns /\ p[k] \in DOMAIN buckets[b].fns /\ p[j] < p[k]
              /\ s[j] = buckets[b].fns[p[j]] /\ s[k] = buckets[b].fns[p[k]]
          BY <2>1, <4>1 DEF Follows
        <4> QED BY <1>1, <1>2, <2>1, <4>2 DEF ComparedAreKnown
      <3>2. Same(f) /\ Same(g)
        BY <1>4, <2>1
      <3> HIDE DEF f, g
      <3>3. /\ IsExactMatch(mod', f, g) <=> IsExactMatch(mod, f, g)
            /\ IsMergeCandidate(mod', f, g) <=> IsMergeCandidate(mod, f, g)
        <4>1. SameComparison(mod', mod, f, g)
          BY <3>2 DEF OnlyChanges
        <4> QED BY <4>1, SameMatches
      <3>4. ASSUME NEW c \in Range(comps), {c.f1, c.f2} = {f, g} PROVE c \in Range(comps')
        <4>1. c \in Untouched(fs)
          BY <3>2, <3>4 DEF Untouched, Touches
        <4> QED BY <1>6, <4>1 DEF Range
      <3> QED BY <3>1, <3>3, <3>4 DEF Known, Noted, f, g
    <2>2. ASSUME NEW b \in DOMAIN buckets', NEW j \in DOMAIN buckets'[b].fns,
                 NEW k \in DOMAIN buckets'[b].fns, j < k, buckets'[b].fns[j].state = "compared"
          PROVE  KnownThen(buckets'[b].fns[j].f, buckets'[b].fns[k].f)
      <3>1. b \in DOMAIN buckets
        BY <1>3, <2>2
      <3> HIDE DEF KnownThen
      <3> QED BY <1>3, <2>1, <2>2, <3>1
    <2> QED BY <2>2 DEF ComparedAreKnown, Known, Noted
  <1>18. PassedAreSettled'
    <2>1. ASSUME NEW b \in DOMAIN buckets, Settled(b) PROVE Settled(b)'
      <3> DEFINE s == Left(b, out)
      <3>1. /\ s \in Seq(Entry) /\ Len(s) \in Nat /\ Len(s) <= Len(buckets[b].fns)
            /\ Len(buckets[b].fns) \in Nat
        BY <1>1, LeftProperties
      <3>6. PICK p : Follows(p, s, buckets[b].fns)
        BY <1>1, LeftProperties
      <3>2. buckets'[b].fns = s
        BY <1>3
      <3> HIDE DEF s
      <3>3. CASE Len(buckets[b].fns) < 2
        BY <3>1, <3>2, <3>3 DEF Settled
      <3>4. CASE \A k \in DOMAIN buckets[b].fns : buckets[b].fns[k].state = "compared"
        BY <3>2, <3>4, <3>6 DEF Settled, Follows
      <3> QED BY <2>1, <3>3, <3>4 DEF Settled
    <2>2. ASSUME NEW b \in DOMAIN buckets' \ DOMAIN buckets PROVE Settled(b)'
      <3>1. Len(buckets'[b].fns) = 0
        BY <1>3, EmptySeq
      <3> QED BY <3>1 DEF Settled
    <2> QED BY <1>1, <1>2, <1>3, <2>1, <2>2 DEF PassedAreSettled
  <1> QED BY <1>9, <1>10, <1>11, <1>13, <1>14, <1>15, <1>16, <1>17, <1>18 DEF IInv

-----------------------------------------------------------------------------
(***************************************************************************)
(* mergeBucket and doExhaustiveCompareMerge.                               *)
(***************************************************************************)

(* The bucket that is processed: its functions before the first new one      *)
(* have been compared.                                                     *)
LEMMA BucketProperties ==
  ASSUME IInv, phase \in {"strong", "weak"}, at \in DOMAIN buckets
  PROVE  /\ Merging /\ merged = {}
         /\ Bucket \in Seq(Entry) /\ DOMAIN Bucket = 1 .. Len(Bucket) /\ Len(Bucket) \in Nat
         /\ \A k \in DOMAIN Bucket : /\ Bucket[k].state \in States
                                    /\ Bucket[k].f \in DOMAIN mod.fns /\ IsCandidate(Bucket[k].f)
                                    /\ Hash(mod.fns[Bucket[k].f]) = buckets[at].hash
         /\ \A j, k \in DOMAIN Bucket : Bucket[j].f = Bucket[k].f => j = k
  <1>1. Types /\ BucketsAreSound
    BY DEF IInv
  <1>2. Merging /\ merged = {}
    BY <1>1 DEF Types, Merging
  <1>3. Bucket \in Seq(Entry)
    <2>1. buckets[at] \in BucketType
      BY <1>1, ItemsOfSeq DEF Types
    <2> QED BY <2>1 DEF BucketType, Bucket
  <1>4. DOMAIN Bucket = 1 .. Len(Bucket) /\ Len(Bucket) \in Nat /\ \A k \in DOMAIN Bucket : Bucket[k] \in Entry
    BY <1>3, LenProperties
  <1>5. \A k \in DOMAIN Bucket : Bucket[k].state \in States
    BY <1>4 DEF Entry
  <1>6. \A k \in DOMAIN Bucket : /\ Bucket[k].f \in DOMAIN mod.fns /\ IsCandidate(Bucket[k].f)
                                /\ Hash(mod.fns[Bucket[k].f]) = buckets[at].hash
    BY <1>1, <1>2 DEF BucketsAreSound, Bucket
  <1>7. \A j, k \in DOMAIN Bucket : Bucket[j].f = Bucket[k].f => j = k
    BY <1>1 DEF BucketsAreSound, Bucket
  <1> QED BY <1>2, <1>3, <1>4, <1>5, <1>6, <1>7

LEMMA NewProperties ==
  ASSUME IInv, phase \in {"strong", "weak"}, at \in DOMAIN buckets, Fresh # {}
  PROVE  /\ New \in DOMAIN Bucket /\ New \in Nat /\ Bucket[New].state = "new"
         /\ \A k \in DOMAIN Bucket : k < New => Bucket[k].state = "compared"
  <1>1. DOMAIN Bucket = 1 .. Len(Bucket) /\ Len(Bucket) \in Nat
        /\ \A k \in DOMAIN Bucket : Bucket[k].state \in States
    BY BucketProperties
  <1>2. Fresh \in SUBSET Nat /\ Fresh \subseteq DOMAIN Bucket
    BY <1>1 DEF Fresh
  <1>3. New \in Fresh /\ \A x \in Fresh : New <= x
    BY <1>2, MinProperties DEF New
  <1>4. ASSUME NEW k \in DOMAIN Bucket, k < New PROVE Bucket[k].state = "compared"
    <2>1. k \notin Fresh
      BY <1>1, <1>2, <1>3, <1>4
    <2> QED BY <1>1, <2>1 DEF Fresh, States
  <1> QED BY <1>2, <1>3, <1>4 DEF Fresh

(* An exact match takes functions out of the buckets, and adds buckets for   *)
(* candidates among them at most.                                          *)
LEMMA MergeExactKeeps ==
  ASSUME IInv, MergeExact
  PROVE  /\ IInv'
         /\ \A b \in DOMAIN buckets' \ DOMAIN buckets :
              /\ buckets'[b].hash \notin Hashes
              /\ \E f \in DOMAIN mod.fns : IsCandidate(f) /\ Hash(mod.fns[f]) = buckets'[b].hash
  <1>1. /\ phase \in {"strong", "weak"} /\ at \in DOMAIN buckets /\ Fresh # {} /\ Exact # {}
        /\ UNCHANGED <<given, phase, at, merged>>
        /\ EquivMerge(Bucket[New].f, Bucket[Min(Exact)].f)
    BY DEF MergeExact, Processing
  <1> DEFINE f == Bucket[New].f
             g == Bucket[Min(Exact)].f
  <1>2. /\ DOMAIN Bucket = 1 .. Len(Bucket) /\ Len(Bucket) \in Nat /\ New \in DOMAIN Bucket /\ New \in Nat
    BY <1>1, BucketProperties, NewProperties
  <1>3. Min(Exact) \in DOMAIN Bucket /\ Min(Exact) > New /\ Min(Exact) \in Exact
    <2>1. Exact \in SUBSET Nat /\ Exact \subseteq DOMAIN Bucket /\ \A k \in Exact : k > New
      BY <1>2 DEF Exact, Later
    <2> QED BY <1>1, <2>1, MinProperties
  <1>4. f \in DOMAIN mod.fns /\ g \in DOMAIN mod.fns /\ f # g
    <2>1. Min(Exact) # New
      BY <1>2, <1>3
    <2> QED BY <1>1, <1>2, <1>3, <2>1, BucketProperties
  <1>5. EquivMerge(f, g) /\ Hash(mod.fns[f]) = Hash(mod.fns[g])
    BY <1>1, <1>3 DEF Exact, IsExactMatch, IsMergeable
  <1>6. /\ Types /\ BucketsAreSound /\ ComparisonsAreSound
        /\ IsModule(mod) /\ UsesAreListed(mod) /\ SingleCodes(mod)
    BY <1>1, BucketProperties DEF IInv, Types
  <1> HIDE DEF f, g
  <1>7. PICK fs \in Seq(DOMAIN mod.fns) : Withdraw(fs) /\ OnlyChanges(fs)
    BY <1>4, <1>5, <1>6, MergeEffect
  <1>8. PICK out : TakenOut(fs, out)
    BY <1>6, <1>7, WithdrawEffect
  <1>9. IInv'
    BY <1>1, <1>7, <1>8, MergeKeeps
  <1>10. Range(fs) \subseteq DOMAIN mod.fns
    BY <1>7, ItemsOfSeq
  <1>11. ASSUME NEW b \in DOMAIN buckets' \ DOMAIN buckets
         PROVE  /\ buckets'[b].hash \notin Hashes
                /\ \E h \in DOMAIN mod.fns : IsCandidate(h) /\ Hash(mod.fns[h]) = buckets'[b].hash
    BY <1>8, <1>10 DEF TakenOut
  <1> QED BY <1>9, <1>11

(* The functions that the buckets hold. *)
FunctionsIn(bs) == {e.f : e \in UNION {Range(b.fns) : b \in Range(bs)}}

LEMMA RegisteredIn ==
  ASSUME NEW bs, NEW f
  PROVE  f \in FunctionsIn(bs)
           <=> \E b \in DOMAIN bs : \E k \in DOMAIN bs[b].fns : bs[b].fns[k].f = f
  <1>1. ASSUME NEW b \in DOMAIN bs, NEW k \in DOMAIN bs[b].fns, bs[b].fns[k].f = f
        PROVE  f \in FunctionsIn(bs)
    <2>1. bs[b] \in Range(bs) /\ bs[b].fns[k] \in Range(bs[b].fns)
      BY DEF Range
    <2> QED BY <1>1, <2>1 DEF FunctionsIn
  <1>2. ASSUME f \in FunctionsIn(bs)
        PROVE  \E b \in DOMAIN bs : \E k \in DOMAIN bs[b].fns : bs[b].fns[k].f = f
    <2>1. PICK x \in Range(bs) : \E e \in Range(x.fns) : e.f = f
      BY <1>2 DEF FunctionsIn
    <2>2. PICK e \in Range(x.fns) : e.f = f
      BY <2>1
    <2> QED BY <2>1, <2>2 DEF Range
  <1> QED BY <1>1, <1>2

(* What comparing two functions of a bucket gives.                         *)
LEMMA ComparisonProperties ==
  ASSUME IsModule(mod), NEW f \in DOMAIN mod.fns, NEW g \in DOMAIN mod.fns, IsCandidate(f)
  PROVE  LET c == Comparison(mod, f, g)
         IN /\ c \in ComparisonType /\ c.f1 = f /\ c.f2 = g
            /\ c.count > 0 /\ c.differing \subseteq 1..c.count
  <1> DEFINE F == Code(mod.fns[f])
             c == Comparison(mod, f, g)
  <1>1. IsFunction(mod.fns[f], DOMAIN mod.fns) /\ f \in Nat /\ g \in Nat
    BY DEF IsModule
  <1>2. mod.fns[f].codes # <<>>
    BY DEF IsCandidate, IsComparisonCandidate
  <1>3. /\ F \in Seq(Instruction(DOMAIN mod.fns)) /\ F # <<>>
        /\ DOMAIN F = 1 .. Len(F) /\ Len(F) \in Nat
    BY <1>1, <1>2, CodeProperties
  <1>4. Len(F) > 0
    BY <1>3, EmptySeq
  <1>5. /\ c.f1 = f /\ c.f2 = g /\ c.count = Len(F)
        /\ c.differing \subseteq DOMAIN F /\ c.selfRefs \subseteq DOMAIN F
        /\ c = [f1 |-> c.f1, f2 |-> c.f2, differing |-> c.differing, count |-> c.count,
                selfRefs |-> c.selfRefs]
    BY DEF Comparison
  <1> HIDE DEF F, c
  <1>6. c \in ComparisonType
    BY <1>1, <1>3, <1>5 DEF ComparisonType
  <1> QED BY <1>3, <1>4, <1>5, <1>6 DEF c

LEMMA RecordCandidatesKeeps ==
  ASSUME IInv, RecordCandidates
  PROVE  IInv'
  <1> DEFINE f == Bucket[New].f
             S == {k \in Later : IsMergeCandidate(mod, f, Bucket[k].f)}
             similar == Ascending(S)
             added == [n \in DOMAIN similar |-> Comparison(mod, f, Bucket[similar[n]].f)]
             fns == [Bucket EXCEPT ![New] = [f |-> f, state |-> "compared"]]
             new == [hash |-> buckets[at].hash, fns |-> fns]
  <1>1. /\ phase \in {"strong", "weak"} /\ at \in DOMAIN buckets /\ Fresh # {} /\ Exact = {}
        /\ Len(Bucket) >= 2 /\ UNCHANGED <<given, mod, deferred, phase, at, merged>>
    BY DEF RecordCandidates, Processing
  <1>2. comps' = comps \o added
    BY DEF RecordCandidates
  <1>3. buckets' = [buckets EXCEPT ![at] = new]
    BY DEF RecordCandidates
  <1>4. /\ Types /\ GivenIsOlder /\ BucketsAreSound /\ ComparisonsAreSound /\ HashesAreKnown
        /\ StrongAreKnown /\ QueueIsEmpty /\ ComparedAreKnown /\ PassedAreSettled
    BY DEF IInv
  <1>5. /\ Merging /\ merged = {}
        /\ Bucket \in Seq(Entry) /\ DOMAIN Bucket = 1 .. Len(Bucket) /\ Len(Bucket) \in Nat
        /\ New \in DOMAIN Bucket /\ New \in Nat /\ Bucket[New].state = "new"
        /\ \A k \in DOMAIN Bucket : Bucket[k].f \in DOMAIN mod.fns /\ IsCandidate(Bucket[k].f)
        /\ \A j, k \in DOMAIN Bucket : Bucket[j].f = Bucket[k].f => j = k
    BY <1>1, BucketProperties, NewProperties
  <1>6. /\ IsModule(mod) /\ buckets \in Seq(BucketType) /\ comps \in Seq(ComparisonType)
        /\ buckets[at] \in BucketType
    BY <1>1, <1>4, ItemsOfSeq DEF Types
  <1>7. f \in DOMAIN mod.fns /\ IsCandidate(f)
    BY <1>5
  <1>8. /\ added \in Seq(ComparisonType)
        /\ Range(added) = {Comparison(mod, f, Bucket[k].f) : k \in S}
    <2>1. S \subseteq DOMAIN Bucket /\ S \in SUBSET Nat
      BY <1>5 DEF Later
    <2>2. IsFiniteSet(S)
      <3>0. ASSUME NEW n \in Nat PROVE IsFiniteSet(1 .. n)
        BY FS_Interval
      <3>1. IsFiniteSet(DOMAIN Bucket)
        BY <1>5, <3>0
      <3> QED BY <2>1, <3>1, FS_Subset
    <2>3. similar \in Seq(S) /\ Range(similar) = S
      <3> HIDE DEF S
      <3> QED BY <2>1, <2>2, AscendingProperties DEF ToSet, Range
    <2>4. DOMAIN similar = 1 .. Len(similar) /\ Len(similar) \in Nat /\ \A n \in DOMAIN similar : similar[n] \in S
      <3> HIDE DEF S, similar
      <3> QED BY <2>3, LenProperties
    <2>5. ASSUME NEW k \in S PROVE Comparison(mod, f, Bucket[k].f) \in ComparisonType
      <3>1. Bucket[k].f \in DOMAIN mod.fns
        BY <1>5, <2>1
      <3> HIDE DEF f
      <3> QED BY <1>6, <1>7, <3>1, ComparisonProperties
    <2>6. added \in [1 .. Len(similar) -> ComparisonType]
      <3> HIDE DEF S, similar, f
      <3> QED BY <2>4, <2>5
    <2>7. Range(added) = {Comparison(mod, f, Bucket[k].f) : k \in S}
      <3> HIDE DEF S, similar, f
      <3> QED BY <2>3, <2>4 DEF Range
    <2> HIDE DEF added, similar
    <2> QED BY <2>4, <2>6, <2>7
  <1>9. comps' \in Seq(ComparisonType) /\ Range(comps') = Range(comps) \cup Range(added)
    <2> HIDE DEF added
    <2> QED BY <1>2, <1>6, <1>8, ConcatRange
  <1>10. /\ fns \in Seq(Entry) /\ DOMAIN fns = DOMAIN Bucket /\ Len(fns) = Len(Bucket)
         /\ \A k \in DOMAIN Bucket : fns[k].f = Bucket[k].f
         /\ \A k \in DOMAIN Bucket : k # New => fns[k] = Bucket[k]
         /\ fns[New].state = "compared"
    <2>1. Bucket[New] \in Entry
      BY <1>5, ItemsOfSeq
    <2>2. [f |-> f, state |-> "compared"] \in Entry
      BY <2>1 DEF Entry, States
    <2> HIDE DEF f
    <2>3. /\ fns \in [1 .. Len(Bucket) -> Entry] /\ fns[New] = [f |-> f, state |-> "compared"]
          /\ \A k \in DOMAIN Bucket : k # New => fns[k] = Bucket[k]
      BY <1>5, <2>2
    <2> HIDE DEF fns
    <2>4. fns \in Seq(Entry) /\ DOMAIN fns = DOMAIN Bucket /\ Len(fns) = Len(Bucket)
      BY <1>5, <2>3
    <2>5. \A k \in DOMAIN Bucket : fns[k].f = Bucket[k].f
      BY <2>3 DEF f
    <2> QED BY <2>3, <2>4, <2>5
  <1> HIDE DEF fns
  <1>11. /\ buckets' \in Seq(BucketType) /\ DOMAIN buckets' = DOMAIN buckets
         /\ buckets'[at].hash = buckets[at].hash /\ buckets'[at].fns = fns
         /\ \A b \in DOMAIN buckets : b # at => buckets'[b] = buckets[b]
    <2>1. new \in BucketType
      BY <1>6, <1>10 DEF BucketType
    <2>2. DOMAIN buckets = 1 .. Len(buckets) /\ Len(buckets) \in Nat
      BY <1>6, LenProperties
    <2>3. /\ buckets' \in [1 .. Len(buckets) -> BucketType] /\ buckets'[at] = new
          /\ \A b \in DOMAIN buckets : b # at => buckets'[b] = buckets[b]
      <3>1. \A b \in DOMAIN buckets : buckets[b] \in BucketType
        BY <1>6, ItemsOfSeq
      <3> HIDE DEF new
      <3> QED BY <1>1, <1>3, <2>1, <2>2, <3>1
    <2> QED BY <2>2, <2>3
  <1> HIDE DEF new
  <1>12. \A b \in DOMAIN buckets : /\ buckets'[b].hash = buckets[b].hash
                                  /\ DOMAIN buckets'[b].fns = DOMAIN buckets[b].fns
                                  /\ Len(buckets'[b].fns) = Len(buckets[b].fns)
                                  /\ \A k \in DOMAIN buckets[b].fns :
                                       buckets'[b].fns[k].f = buckets[b].fns[k].f
    BY <1>10, <1>11 DEF Bucket
  <1>13. Types'
    BY <1>1, <1>4, <1>9, <1>11 DEF Types, Merging
  <1>14. BucketsAreSound'
    <2>1. \A b, c \in DOMAIN buckets' : buckets'[b].hash = buckets'[c].hash => b = c
      BY <1>4, <1>11, <1>12 DEF BucketsAreSound
    <2>2. ASSUME NEW b \in DOMAIN buckets', NEW k \in DOMAIN buckets'[b].fns, NEW g,
                 g = buckets'[b].fns[k].f
          PROVE  /\ g \in DOMAIN mod'.fns /\ g \notin Range(deferred')
                 /\ g \in merged' \/ (IsCandidate(g)' /\ Hash(mod'.fns[g]) = buckets'[b].hash)
      <3>1. b \in DOMAIN buckets /\ k \in DOMAIN buckets[b].fns /\ g = buckets[b].fns[k].f
        BY <1>11, <1>12, <2>2
      <3>2. /\ g \in DOMAIN mod.fns /\ g \notin Range(deferred)
            /\ g \in merged \/ (IsCandidate(g) /\ Hash(mod.fns[g]) = buckets[b].hash)
        BY <1>4, <3>1 DEF BucketsAreSound
      <3> QED BY <1>1, <1>4, <1>12, <3>1, <3>2 DEF IsCandidate
    <2>3. \A b \in DOMAIN buckets' : \A j, k \in DOMAIN buckets'[b].fns :
            buckets'[b].fns[j].f = buckets'[b].fns[k].f => j = k
      BY <1>4, <1>11, <1>12 DEF BucketsAreSound
    <2> QED BY <2>1, <2>2, <2>3 DEF BucketsAreSound
  <1>15. ComparisonsAreSound'
    <2>1. ASSUME NEW c \in Range(added)
          PROVE  /\ c.f1 \in DOMAIN mod.fns /\ c.f2 \in DOMAIN mod.fns /\ c.f1 # c.f2
                 /\ c.count > 0 /\ c.differing \subseteq 1..c.count
                 /\ IsCandidate(c.f1) /\ IsCandidate(c.f2)
                 /\ IsMergeable(mod, c.f1, c.f2)
                 /\ c = Comparison(mod, c.f1, c.f2)
      <3>1. PICK k \in S : c = Comparison(mod, f, Bucket[k].f)
        BY <1>8
      <3>2. k \in DOMAIN Bucket /\ k > New /\ IsMergeCandidate(mod, f, Bucket[k].f)
        BY <3>1 DEF Later
      <3> DEFINE g == Bucket[k].f
      <3>3. g \in DOMAIN mod.fns /\ IsCandidate(g) /\ f # g
        BY <1>5, <3>2
      <3>4. IsMergeable(mod, f, g)
        BY <3>2 DEF IsMergeCandidate
      <3>5. c = Comparison(mod, f, g)
        BY <3>1
      <3> HIDE DEF f, g
      <3>6. c.f1 = f /\ c.f2 = g /\ c.count > 0 /\ c.differing \subseteq 1..c.count
        BY <1>6, <1>7, <3>3, <3>5, ComparisonProperties
      <3> QED BY <1>7, <3>3, <3>4, <3>5, <3>6
    <2> HIDE DEF added
    <2> QED BY <1>1, <1>4, <1>9, <2>1 DEF ComparisonsAreSound, IsCandidate
  <1>16. HashesAreKnown'
    <2>1. Hashes' = Hashes
      BY <1>11, <1>12 DEF Hashes, Range
    <2> QED BY <1>1, <1>4, <2>1 DEF HashesAreKnown, Merging, IsCandidate
  <1>17. ComparedAreKnown'
    <2> DEFINE KnownThen(x, y) ==
                 /\ ~ IsExactMatch(mod, x, y)
                 /\ IsMergeCandidate(mod, x, y)
                      => \E c \in Range(comps') : {c.f1, c.f2} = {x, y}
    <2>1. ASSUME NEW x, NEW y, Known(x, y) PROVE KnownThen(x, y)
      <3> HIDE DEF added
      <3> QED BY <1>9, <2>1 DEF Known, Noted
    <2>2. ASSUME NEW k \in DOMAIN Bucket, New < k PROVE KnownThen(f, Bucket[k].f)
      <3> DEFINE g == Bucket[k].f
      <3>1. ~ IsExactMatch(mod, f, g)
        BY <1>1, <2>2 DEF Exact, Later
      <3>2. ASSUME IsMergeCandidate(mod, f, g)
            PROVE  \E c \in Range(comps') : {c.f1, c.f2} = {f, g}
        <4>1. k \in S
          BY <1>5, <2>2, <3>2 DEF Later
        <4>2. Comparison(mod, f, g) \in Range(comps')
          <5> HIDE DEF added, S
          <5> QED BY <1>8, <1>9, <4>1
        <4>3. Comparison(mod, f, g).f1 = f /\ Comparison(mod, f, g).f2 = g
          BY DEF Comparison
        <4> HIDE DEF f, g
        <4> QED BY <4>2, <4>3
      <3> QED BY <3>1, <3>2
    <2>3. ASSUME NEW b \in DOMAIN buckets, NEW j \in DOMAIN buckets[b].fns,
                 NEW k \in DOMAIN buckets[b].fns, j < k, buckets'[b].fns[j].state = "compared"
          PROVE  KnownThen(buckets[b].fns[j].f, buckets[b].fns[k].f)
      <3> HIDE DEF KnownThen
      <3>1. CASE b = at /\ j = New
        BY <2>2, <2>3, <3>1 DEF Bucket
      <3>2. CASE ~ (b = at /\ j = New)
        <4>1. buckets[b].fns[j].state = "compared"
          BY <1>10, <1>11, <2>3, <3>2 DEF Bucket
        <4>2. Known(buckets[b].fns[j].f, buckets[b].fns[k].f)
          BY <1>4, <1>5, <2>3, <4>1 DEF ComparedAreKnown
        <4> QED BY <2>1, <4>2
      <3> QED BY <3>1, <3>2
    <2>4. ASSUME NEW b \in DOMAIN buckets', NEW j \in DOMAIN buckets'[b].fns,
                 NEW k \in DOMAIN buckets'[b].fns, j < k, buckets'[b].fns[j].state = "compared"
          PROVE  KnownThen(buckets'[b].fns[j].f, buckets'[b].fns[k].f)
      <3> HIDE DEF KnownThen
      <3>1. b \in DOMAIN buckets /\ j \in DOMAIN buckets[b].fns /\ k \in DOMAIN buckets[b].fns
        BY <1>11, <1>12
      <3>2. /\ buckets'[b].fns[j].f = buckets[b].fns[j].f
            /\ buckets'[b].fns[k].f = buckets[b].fns[k].f
        BY <1>12, <3>1
      <3> QED BY <2>3, <2>4, <3>1, <3>2
    <2> QED BY <1>1, <2>4 DEF ComparedAreKnown, Known, Noted
  <1>18. PassedAreSettled'
    <2>1. ~ Settled(at)
      BY <1>1, <1>5 DEF Settled, Bucket
    <2>2. \A b \in DOMAIN buckets : b # at => (Settled(b) => Settled(b)')
      BY <1>11 DEF Settled
    <2> QED BY <1>1, <1>4, <1>11, <1>12, <2>1, <2>2 DEF PassedAreSettled
  <1>19. GivenIsOlder' /\ QueueIsEmpty'
    BY <1>1, <1>4 DEF GivenIsOlder, QueueIsEmpty
  <1>20. StrongAreKnown'
    <2>1. ASSUME NEW g \in Registered PROVE g \in Registered'
      <3>0. g \in FunctionsIn(buckets)
        BY DEF Registered, FunctionsIn
      <3>1. PICK b \in DOMAIN buckets : \E k \in DOMAIN buckets[b].fns : buckets[b].fns[k].f = g
        BY <3>0, RegisteredIn
      <3>2. PICK k \in DOMAIN buckets[b].fns : buckets[b].fns[k].f = g
        BY <3>1
      <3>3. b \in DOMAIN buckets' /\ k \in DOMAIN buckets'[b].fns /\ buckets'[b].fns[k].f = g
        BY <1>11, <1>12, <3>2
      <3>4. g \in FunctionsIn(buckets')
        BY <3>3, RegisteredIn
      <3> QED BY <3>4 DEF Registered, FunctionsIn
    <2> QED BY <1>1, <1>4, <2>1 DEF StrongAreKnown, IsStrongCandidate
  <1> QED BY <1>13, <1>14, <1>15, <1>16, <1>17, <1>18, <1>19, <1>20 DEF IInv

-----------------------------------------------------------------------------
(***************************************************************************)
(* The order of comparisons by their metric.                               *)
(***************************************************************************)
IsStrictOrder(R, I) ==
  /\ \A x \in I : <<x, x>> \notin R
  /\ \A x, y, z \in I : <<x, y>> \in R /\ <<y, z>> \in R => <<x, z>> \in R
  /\ \A x, y \in I : x # y => <<x, y>> \in R \/ <<y, x>> \in R

Earlier(R, I, x) == Cardinality({y \in I : <<y, x>> \in R})

(* How many come before an element tells its place.                        *)
LEMMA Places ==
  ASSUME NEW I, IsFiniteSet(I), NEW R, IsStrictOrder(R, I)
  PROVE  /\ Cardinality(I) \in Nat
         /\ \A x \in I : Earlier(R, I, x) + 1 \in 1 .. Cardinality(I)
         /\ \A x, y \in I : Earlier(R, I, x) = Earlier(R, I, y) => x = y
         /\ \A i \in 1 .. Cardinality(I) : \E x \in I : Earlier(R, I, x) = i - 1
  <1> DEFINE n == Cardinality(I)
             Before(x) == {y \in I : <<y, x>> \in R}
             rank == [x \in I |-> Cardinality(Before(x)) + 1]
  <1>1. n \in Nat /\ IsFiniteSet(1 .. n) /\ Cardinality(1 .. n) = n
    BY FS_CardinalityType, FS_Interval
  <1>2. ASSUME NEW x \in I
        PROVE  /\ IsFiniteSet(Before(x)) /\ Cardinality(Before(x)) \in Nat
               /\ Cardinality(Before(x)) <= n /\ Cardinality(Before(x)) # n
    <2>1. Before(x) \in SUBSET I /\ x \notin Before(x)
      BY DEF IsStrictOrder
    <2>2. Before(x) # I
      BY <2>1
    <2> HIDE DEF Before
    <2> QED BY <2>1, <2>2, FS_Subset, FS_CardinalityType
  <1>3. ASSUME NEW x \in I, NEW y \in I, <<x, y>> \in R
        PROVE  Cardinality(Before(x)) # Cardinality(Before(y))
    <2>1. Before(x) \in SUBSET Before(y)
      BY <1>3 DEF IsStrictOrder
    <2>2. x \in Before(y) /\ x \notin Before(x)
      BY <1>3 DEF IsStrictOrder
    <2>3. IsFiniteSet(Before(y)) /\ Before(x) # Before(y)
      BY <1>2, <2>2
    <2> HIDE DEF Before
    <2> QED BY <2>1, <2>3, FS_Subset
  <1>4. \A x, y \in I : Cardinality(Before(x)) = Cardinality(Before(y)) => x = y
    <2> SUFFICES ASSUME NEW x \in I, NEW y \in I, x # y
                 PROVE  Cardinality(Before(x)) # Cardinality(Before(y))
      OBVIOUS
    <2>1. <<x, y>> \in R \/ <<y, x>> \in R
      BY DEF IsStrictOrder
    <2> HIDE DEF Before
    <2> QED BY <1>3, <2>1
  <1>5. \A x \in I : rank[x] \in 1 .. n
    <2> HIDE DEF Before, n
    <2> QED BY <1>1, <1>2
  <1>6. \A x, y \in I : rank[x] = rank[y] => x = y
    <2> HIDE DEF Before
    <2> QED BY <1>2, <1>4
  <1>7. \A i \in 1 .. n : \E x \in I : rank[x] = i
    <2>1. rank \in Injection(I, 1 .. n)
      <3>1. rank \in [I -> 1 .. n]
        BY <1>5
      <3> HIDE DEF rank
      <3> QED BY <3>1, <1>6 DEF Injection, IsInjective
    <2> HIDE DEF rank
    <2>2. rank \in Surjection(I, 1 .. n)
      BY <1>1, <2>1, FS_Injection
    <2> QED BY <2>2 DEF Surjection
  <1>8. \A i \in 1 .. n : \E x \in I : Cardinality(Before(x)) = i - 1
    <2> TAKE i \in 1 .. n
    <2>1. PICK x \in I : rank[x] = i
      BY <1>7
    <2>2. Cardinality(Before(x)) + 1 = i
      <3> HIDE DEF Before
      <3> QED BY <2>1
    <2> HIDE DEF Before
    <2> QED BY <1>1, <1>2, <2>2
  <1>9. \A x \in I : Cardinality(Before(x)) + 1 \in 1 .. n
    <2> HIDE DEF Before
    <2> QED BY <1>5
  <1>10. \A x \in I : Earlier(R, I, x) = Cardinality(Before(x))
    BY DEF Earlier
  <1> HIDE DEF Before
  <1> QED BY <1>1, <1>4, <1>8, <1>9, <1>10

(* Sorting comparisons keeps them.                                         *)
LEMMA ByMetricProperties ==
  ASSUME comps \in Seq(ComparisonType), ComparisonsAreSound,
         NEW I \in SUBSET DOMAIN comps, NEW place, \A k \in I : place[k] \in Int,
         \A j, k \in I : place[j] = place[k] => j = k
  PROVE  /\ ByMetric(I, place) \in Seq(ComparisonType)
         /\ Range(ByMetric(I, place)) = {comps[k] : k \in I}
  <1> DEFINE metric(k) == SimilarityMetric(comps[k])
             before(j, k) == \/ metric(j) > metric(k)
                             \/ metric(j) = metric(k) /\ place[j] < place[k]
             R == {p \in I \X I : before(p[1], p[2])}
             N == Cardinality(I)
             kth(n) == CHOOSE k \in I : Cardinality({j \in I : before(j, k)}) = n - 1
             sorted == [n \in 1 .. N |-> comps[kth(n)]]
  <1>1. DOMAIN comps = 1 .. Len(comps) /\ Len(comps) \in Nat
        /\ \A k \in DOMAIN comps : comps[k] \in ComparisonType /\ comps[k] \in Range(comps)
    BY ItemsOfSeq DEF Range
  <1>2. IsFiniteSet(I)
    BY ItemsProperties
  <1>3. ASSUME NEW k \in I PROVE metric(k) \in Int
    <2> DEFINE c == comps[k]
               d == Cardinality(c.differing)
    <2>1. c \in ComparisonType /\ c \in Range(comps)
      BY <1>1
    <2>2. c.count \in Nat /\ c.count > 0 /\ c.differing \subseteq 1..c.count
      BY <2>1 DEF ComparisonType, ComparisonsAreSound
    <2>3. d \in Nat
      <3> HIDE DEF c
      <3>1. IsFiniteSet(1..c.count)
        BY <2>2, Segment
      <3> QED BY <2>2, <3>1, FS_Subset, FS_CardinalityType
    <2> HIDE DEF c, d
    <2>4. SimilarityMetric(c) = ((c.count - d) * 10000) \div c.count
      BY DEF SimilarityMetric, d
    <2>5. (c.count - d) * 10000 \in Int
      BY <2>2, <2>3
    <2> DEFINE x == (c.count - d) * 10000
               y == c.count
    <2>6. x \in Int /\ y \in Nat /\ y > 0 /\ SimilarityMetric(c) = x \div y
      BY <2>2, <2>4, <2>5
    <2> HIDE DEF x, y
    <2>7. SimilarityMetric(c) \in Int
      BY <2>6
    <2> QED BY <2>7 DEF c
  <1> HIDE DEF metric
  <1>4. \A j, k \in I : <<j, k>> \in R <=> before(j, k)
    OBVIOUS
  <1>5. IsStrictOrder(R, I)
    <2>1. \A x \in I : ~ before(x, x)
      BY <1>3
    <2>2. ASSUME NEW x \in I, NEW y \in I, NEW z \in I, before(x, y), before(y, z)
          PROVE  before(x, z)
      BY <1>3, <2>2
    <2>3. ASSUME NEW x \in I, NEW y \in I, x # y PROVE before(x, y) \/ before(y, x)
      <3>1. place[x] # place[y] /\ place[x] \in Int /\ place[y] \in Int
        BY <2>3
      <3> QED BY <1>3, <3>1
    <2> HIDE DEF before, R
    <2> QED BY <1>4, <2>1, <2>2, <2>3 DEF IsStrictOrder
  <1>6. ASSUME NEW k \in I PROVE {j \in I : before(j, k)} = {j \in I : <<j, k>> \in R}
    <2> HIDE DEF R, before
    <2> QED BY <1>4
  <1> HIDE DEF before, R
  <1>7. /\ N \in Nat
        /\ \A x \in I : Cardinality({j \in I : before(j, x)}) + 1 \in 1 .. N
        /\ \A x, y \in I : Cardinality({j \in I : before(j, x)})
                             = Cardinality({j \in I : before(j, y)}) => x = y
        /\ \A i \in 1 .. N : \E x \in I : Cardinality({j \in I : before(j, x)}) = i - 1
    <2> DEFINE place1(x) == Cardinality({j \in I : before(j, x)})
               place2(x) == Earlier(R, I, x)
    <2>1. \A x \in I : place1(x) = place2(x)
      BY <1>6 DEF Earlier
    <2>2. /\ N \in Nat
          /\ \A x \in I : place2(x) + 1 \in 1 .. N
          /\ \A x, y \in I : place2(x) = place2(y) => x = y
          /\ \A i \in 1 .. N : \E x \in I : place2(x) = i - 1
      BY <1>2, <1>5, Places
    <2> HIDE DEF place1, place2
    <2>3. /\ \A x \in I : place1(x) + 1 \in 1 .. N
          /\ \A x, y \in I : place1(x) = place1(y) => x = y
          /\ \A i \in 1 .. N : \E x \in I : place1(x) = i - 1
      BY <2>1, <2>2
    <2> QED BY <2>2, <2>3 DEF place1
  <1>8. ASSUME NEW i \in 1 .. N
        PROVE  kth(i) \in I /\ Cardinality({j \in I : before(j, kth(i))}) = i - 1
    BY <1>7
  <1>9. ASSUME NEW k \in I PROVE \E i \in 1 .. N : kth(i) = k
    <2> DEFINE c == Cardinality({j \in I : before(j, k)})
               i == c + 1
    <2>1. i \in 1 .. N
      BY <1>7
    <2>2. i - 1 = c
      <3> HIDE DEF c
      <3>1. c + 1 \in Int /\ c = c
        BY <2>1
      <3>2. c \in Int
        BY FS_Subset, FS_CardinalityType, <1>2 DEF c
      <3> QED BY <3>2
    <2>3. kth(i) \in I /\ Cardinality({j \in I : before(j, kth(i))}) = i - 1
      <3> HIDE DEF i, kth, N
      <3> QED BY <1>8, <2>1
    <2>4. kth(i) = k
      <3> HIDE DEF i, kth
      <3> QED BY <1>7, <2>2, <2>3
    <2> QED BY <2>1, <2>4
  <1>10. ByMetric(I, place) = sorted
    BY DEF ByMetric, before, metric
  <1> HIDE DEF kth
  <1>11. sorted \in Seq(ComparisonType) /\ DOMAIN sorted = 1 .. N
    <2>1. sorted \in [1 .. N -> ComparisonType]
      <3>1. \A i \in 1 .. N : comps[kth(i)] \in ComparisonType
        BY <1>1, <1>8
      <3> HIDE DEF N
      <3> QED BY <3>1
    <2> HIDE DEF sorted, N
    <2>2. N \in Nat
      BY <1>7
    <2> QED BY <2>1, <2>2
  <1>12. Range(sorted) = {comps[k] : k \in I}
    <2>1. ASSUME NEW k \in I PROVE comps[k] \in Range(sorted)
      <3>1. PICK i \in 1 .. N : kth(i) = k
        BY <1>9
      <3>2. sorted[i] = comps[k]
        BY <3>1
      <3> HIDE DEF sorted
      <3> QED BY <1>11, <3>2 DEF Range
    <2>2. ASSUME NEW x \in Range(sorted) PROVE \E k \in I : x = comps[k]
      <3>1. PICK i \in 1 .. N : x = sorted[i]
        BY <1>11 DEF Range
      <3>2. sorted[i] = comps[kth(i)] /\ kth(i) \in I
        BY <1>8
      <3> QED BY <3>1, <3>2
    <2> HIDE DEF sorted
    <2> QED BY <2>1, <2>2
  <1> QED BY <1>10, <1>11, <1>12

LEMMA PassedBucket ==
  ASSUME IInv, phase \in {"strong", "weak"}, at \in DOMAIN buckets,
         ~ (Processing /\ Fresh # {}), buckets[at].hash[2] = phase
  PROVE  Settled(at)
  <1> SUFFICES ASSUME ~ (Len(Bucket) < 2)
               PROVE  \A k \in DOMAIN Bucket : Bucket[k].state = "compared"
    BY DEF Settled, Bucket
  <1>1. DOMAIN Bucket = 1 .. Len(Bucket) /\ Len(Bucket) \in Nat
        /\ \A k \in DOMAIN Bucket : /\ Bucket[k].state \in States
                                   /\ Hash(mod.fns[Bucket[k].f]) = buckets[at].hash
    BY BucketProperties
  <1>2. 1 \in DOMAIN Bucket /\ Len(Bucket) >= 2
    BY <1>1
  <1>3. Strength(mod.fns[Bucket[1].f]) = phase
    BY <1>1, <1>2 DEF Hash
  <1>4. Fresh = {}
    BY <1>2, <1>3 DEF Processing
  <1> QED BY <1>1, <1>4 DEF Fresh, States

(* When functions, buckets and comparisons stay, so does what is known.      *)
LEMMA NothingForgotten ==
  ASSUME ComparedAreKnown, UNCHANGED <<mod, buckets, merged>>, Range(comps') = Range(comps)
  PROVE  ComparedAreKnown'
  <1>1. UNCHANGED <<mod, buckets, merged>>
    OBVIOUS
  <1> DEFINE NotedThen(f, g) == \E c \in Range(comps') : {c.f1, c.f2} = {f, g}
  <1>2. \A f, g : Noted(f, g) => NotedThen(f, g)
    BY DEF Noted
  <1> HIDE DEF NotedThen
  <1>3. ASSUME merged = {}, NEW b \in DOMAIN buckets, NEW j \in DOMAIN buckets[b].fns,
               NEW k \in DOMAIN buckets[b].fns, j < k, buckets[b].fns[j].state = "compared"
        PROVE  LET f == buckets[b].fns[j].f
                   g == buckets[b].fns[k].f
               IN ~ IsExactMatch(mod, f, g) /\ (IsMergeCandidate(mod, f, g) => NotedThen(f, g))
    BY <1>2, <1>3 DEF ComparedAreKnown, Known
  <1> QED BY <1>1, <1>3 DEF ComparedAreKnown, Known, Noted, NotedThen

LEMMA NextBucketKeeps ==
  ASSUME IInv, NextBucket
  PROVE  IInv'
  <1>1. /\ phase \in {"strong", "weak"} /\ ~ (Processing /\ Fresh # {})
        /\ UNCHANGED <<given, mod, buckets, deferred, merged>>
    BY DEF NextBucket
  <1>2. /\ Types /\ GivenIsOlder /\ BucketsAreSound /\ ComparisonsAreSound /\ HashesAreKnown
        /\ StrongAreKnown /\ QueueIsEmpty /\ ComparedAreKnown /\ PassedAreSettled
    BY DEF IInv
  <1>3. /\ merged = {} /\ at \in Nat \ {0} /\ buckets \in Seq(BucketType)
        /\ comps \in Seq(ComparisonType)
        /\ DOMAIN buckets = 1 .. Len(buckets) /\ Len(buckets) \in Nat
        /\ \A b \in DOMAIN buckets : buckets[b].hash[2] \in Strengths
    <2>1. buckets \in Seq(BucketType)
      BY <1>2 DEF Types
    <2>2. \A b \in DOMAIN buckets : buckets[b] \in BucketType
      BY <2>1, ItemsOfSeq
    <2>3. \A b \in DOMAIN buckets : buckets[b].hash[2] \in Strengths
      BY <2>2 DEF BucketType
    <2> QED BY <1>1, <1>2, <2>1, <2>3, LenProperties DEF Types, Merging
  <1>4. at \in DOMAIN buckets /\ buckets[at].hash[2] = phase => Settled(at)
    BY <1>1, PassedBucket
  <1>5. \A b \in DOMAIN buckets : Settled(b)' <=> Settled(b)
    BY <1>1 DEF Settled
  <1>6. BucketsAreSound'
    BY <1>1, <1>2 DEF BucketsAreSound, IsCandidate
  <1>7. GivenIsOlder' /\ StrongAreKnown'
    BY <1>1, <1>2 DEF GivenIsOlder, StrongAreKnown, IsStrongCandidate, Registered
  <1>8. CASE at < Len(buckets)
    <2>1. at' = at + 1 /\ UNCHANGED <<comps, phase>>
      BY <1>8 DEF NextBucket
    <2>2. Types'
      BY <1>1, <1>2, <1>3, <2>1 DEF Types, Merging
    <2>3. ComparisonsAreSound'
      BY <1>1, <1>2, <2>1 DEF ComparisonsAreSound, IsCandidate
    <2>4. HashesAreKnown'
      BY <1>1, <1>2, <2>1 DEF HashesAreKnown, Merging, Hashes, IsCandidate
    <2>5. ComparedAreKnown'
      BY <1>1, <1>2, <2>1, NothingForgotten
    <2>6. ASSUME NEW b \in DOMAIN buckets,
                 \/ phase = "strong" /\ b < at + 1 /\ buckets[b].hash[2] = "strong"
                 \/ phase = "weak" /\ (b < at + 1 \/ buckets[b].hash[2] = "strong")
          PROVE  Settled(b)
      <3>1. CASE b = at
        BY <1>2, <1>3, <1>4, <2>6, <3>1 DEF PassedAreSettled, Strengths
      <3>2. CASE b # at
        <4>1. b < at + 1 => b < at
          BY <1>3, <3>2
        <4> QED BY <1>2, <2>6, <4>1 DEF PassedAreSettled
      <3> QED BY <3>1, <3>2
    <2>7. PassedAreSettled'
      BY <1>1, <1>5, <2>1, <2>6 DEF PassedAreSettled
    <2>8. QueueIsEmpty'
      BY <1>1, <2>1 DEF QueueIsEmpty
    <2> QED BY <1>6, <1>7, <2>2, <2>3, <2>4, <2>5, <2>7, <2>8 DEF IInv
  <1>9. CASE ~ (at < Len(buckets))
    <2>1. /\ at' = 1
          /\ phase' = CASE phase = "strong" -> "weak"
                        [] phase = "weak" /\ deferred # <<>> -> "enqueue"
                        [] OTHER -> "diff"
          /\ comps' = IF phase' = "diff" THEN ByMetric(DOMAIN comps, [k \in DOMAIN comps |-> k])
                                         ELSE comps
      BY <1>9 DEF NextBucket
    <2>2. \/ phase = "strong" /\ phase' = "weak" /\ comps' = comps
          \/ phase = "weak" /\ phase' = "enqueue" /\ comps' = comps
          \/ phase = "weak" /\ phase' = "diff" /\ deferred = <<>>
      BY <1>1, <2>1
    <2>3. comps' \in Seq(ComparisonType) /\ Range(comps') = Range(comps)
      <3>1. CASE phase' # "diff"
        BY <1>3, <2>1, <3>1
      <3>2. CASE phase' = "diff"
        <4> DEFINE place == [k \in DOMAIN comps |-> k]
        <4>1. DOMAIN comps \subseteq Int
          BY <1>3, LenProperties
        <4>2. /\ \A k \in DOMAIN comps : place[k] \in Int
              /\ \A j, k \in DOMAIN comps : place[j] = place[k] => j = k
          BY <4>1
        <4>3. comps' = ByMetric(DOMAIN comps, place)
          BY <2>1, <3>2
        <4> HIDE DEF place
        <4>4. /\ comps' \in Seq(ComparisonType)
              /\ Range(comps') = {comps[k] : k \in DOMAIN comps}
          BY <1>2, <1>3, <4>2, <4>3, ByMetricProperties
        <4> QED BY <4>4 DEF Range
      <3> QED BY <3>1, <3>2
    <2>4. Types'
      BY <1>1, <1>2, <1>3, <2>1, <2>2, <2>3 DEF Types, Merging
    <2>5. ComparisonsAreSound'
      BY <1>1, <1>2, <2>3 DEF ComparisonsAreSound, IsCandidate
    <2>6. HashesAreKnown'
      <3>1. Hashes' = Hashes
        BY <1>1 DEF Hashes
      <3>2. \A f \in DOMAIN mod.fns \cap DOMAIN given.fns : IsCandidate(f) => Hash(mod.fns[f]) \in Hashes
        BY <1>1, <1>2 DEF HashesAreKnown, Merging
      <3> QED BY <1>1, <3>1, <3>2 DEF HashesAreKnown, IsCandidate
    <2>7. ComparedAreKnown'
      BY <1>1, <1>2, <2>3, NothingForgotten
    <2>8. ASSUME NEW b \in DOMAIN buckets, buckets[b].hash[2] = phase
          PROVE  Settled(b)
      <3>1. b <= at /\ b \in Int
        BY <1>3, <1>9
      <3>2. CASE b = at
        BY <1>4, <2>8, <3>2
      <3>3. CASE b < at
        BY <1>1, <1>2, <2>8, <3>3 DEF PassedAreSettled
      <3> QED BY <1>3, <3>1, <3>2, <3>3
    <2>9. ASSUME NEW b \in DOMAIN buckets,
                 phase = "weak" \/ buckets[b].hash[2] = "strong"
          PROVE  Settled(b)
      BY <1>1, <1>2, <1>3, <2>8, <2>9 DEF PassedAreSettled, Strengths
    <2>10. PassedAreSettled'
      <3>1. \A b \in DOMAIN buckets : ~ (b < 1)
        BY <1>3
      <3> QED BY <1>1, <1>5, <2>1, <2>2, <2>9, <3>1 DEF PassedAreSettled
    <2>11. QueueIsEmpty'
      BY <1>1, <2>2 DEF QueueIsEmpty
    <2> QED BY <1>6, <1>7, <2>4, <2>5, <2>6, <2>7, <2>10, <2>11 DEF IInv
  <1> QED BY <1>8, <1>9

LEMMA ReturnKeeps ==
  ASSUME IInv, Return \/ UNCHANGED vars
  PROVE  IInv'
  <1>1. /\ UNCHANGED <<given, mod, buckets, deferred, comps, at, merged>>
        /\ phase' = phase \/ (phase = "diff" /\ phase' = "done")
    BY DEF Return, vars
  <1>2. /\ Types /\ GivenIsOlder /\ BucketsAreSound /\ ComparisonsAreSound /\ HashesAreKnown
        /\ StrongAreKnown /\ QueueIsEmpty /\ ComparedAreKnown /\ PassedAreSettled
    BY DEF IInv
  <1>3. Types'
    BY <1>1, <1>2 DEF Types, Merging
  <1>4. BucketsAreSound' /\ ComparisonsAreSound'
    BY <1>1, <1>2 DEF BucketsAreSound, ComparisonsAreSound, IsCandidate
  <1>5. HashesAreKnown'
    <2>1. Hashes' = Hashes
      BY <1>1 DEF Hashes
    <2> QED BY <1>1, <1>2, <2>1 DEF HashesAreKnown, Merging, IsCandidate
  <1>6. ComparedAreKnown'
    BY <1>1, <1>2, NothingForgotten
  <1>7. PassedAreSettled'
    <2>1. \A b \in DOMAIN buckets : Settled(b)' <=> Settled(b)
      BY <1>1 DEF Settled
    <2> QED BY <1>1, <1>2, <2>1 DEF PassedAreSettled
  <1>8. GivenIsOlder' /\ StrongAreKnown' /\ QueueIsEmpty'
    BY <1>1, <1>2 DEF GivenIsOlder, StrongAreKnown, IsStrongCandidate, Registered, QueueIsEmpty
  <1> QED BY <1>3, <1>4, <1>5, <1>6, <1>7, <1>8 DEF IInv

-----------------------------------------------------------------------------
(***************************************************************************)
(* MergeRegistry::enqueue.                                                 *)
(***************************************************************************)
LEMMA GreatestBelow ==
  ASSUME NEW n \in Nat, NEW T \in SUBSET (1 .. n), T # {}
  PROVE  \E m \in T : \A k \in T : k <= m
  <1> DEFINE U == {n - k : k \in T}
  <1>1. U \in SUBSET Nat /\ U # {}
    <2>1. \A k \in T : n - k \in Nat
      OBVIOUS
    <2>2. PICK k \in T : TRUE
      OBVIOUS
    <2>3. n - k \in U
      BY <2>2
    <2> QED BY <2>1, <2>3
  <1> HIDE DEF U
  <1>2. PICK u \in U : \A v \in U : u <= v
    BY <1>1, NatMin
  <1> QED BY <1>2 DEF U

(* Every candidate that is deferred waits once.                            *)
LEMMA WaitingProperties ==
  ASSUME Types
  PROVE  /\ Waiting \in Seq(DOMAIN mod.fns) /\ Distinct(Waiting)
         /\ Range(Waiting) = {f \in Range(deferred) : f \in DOMAIN mod.fns /\ IsCandidate(f)}
  <1> DEFINE s == deferred
             Wanted(f) == f \in DOMAIN mod.fns /\ IsComparisonCandidate(mod.fns[f])
             LastOf(k) == \A j \in k + 1..Len(s) : s[j] # s[k]
             I == {k \in DOMAIN s : Wanted(s[k]) /\ LastOf(k)}
             t == Items(s, I)
             E == 1..mod.next - 1
  <1>1. s \in Seq(E) /\ DOMAIN s = 1 .. Len(s) /\ Len(s) \in Nat
    BY ItemsOfSeq DEF Types
  <1>2. Waiting = Reverse(t)
    BY DEF Waiting
  <1>3. I \in SUBSET DOMAIN s
    OBVIOUS
  <1> HIDE DEF s
  <1>4. /\ t \in Seq(E) /\ Range(t) = {s[i] : i \in I}
        /\ DOMAIN t = 1 .. Len(t) /\ Len(t) \in Nat
    <2> HIDE DEF I
    <2> QED BY <1>1, <1>3, ItemsPositions
  <1>5. PICK p \in [DOMAIN t -> I] :
          /\ \A n \in DOMAIN t : t[n] = s[p[n]]
          /\ \A m, n \in DOMAIN t : m < n => p[m] < p[n]
    <2> HIDE DEF I
    <2> QED BY <1>1, <1>3, ItemsPositions
  <1>6. Distinct(t)
    <2>1. ASSUME NEW m \in DOMAIN t, NEW n \in DOMAIN t, m < n PROVE t[m] # t[n]
      <3>1. p[m] \in I /\ p[n] \in I /\ p[m] < p[n] /\ t[m] = s[p[m]] /\ t[n] = s[p[n]]
        BY <1>5, <2>1
      <3>2. p[m] \in Nat /\ p[n] \in Nat /\ p[n] <= Len(s)
        BY <1>1, <3>1
      <3>3. p[n] \in p[m] + 1..Len(s)
        BY <1>1, <3>1, <3>2
      <3>4. LastOf(p[m])
        BY <3>1
      <3> QED BY <3>1, <3>3, <3>4
    <2> HIDE DEF t
    <2>2. \A m, n \in DOMAIN t : t[m] = t[n] => ~ (m < n) /\ ~ (n < m) /\ m \in Int /\ n \in Int
      BY <1>4, <2>1
    <2> QED BY <2>2 DEF Distinct
  <1>7. Range(t) = {f \in Range(s) : Wanted(f)}
    <2>1. ASSUME NEW f \in Range(s), Wanted(f) PROVE f \in Range(t)
      <3> DEFINE T == {k \in DOMAIN s : s[k] = f}
      <3>1. T \in SUBSET (1 .. Len(s)) /\ T # {}
        BY <1>1 DEF Range
      <3>2. PICK m \in T : \A k \in T : k <= m
        <4> HIDE DEF T
        <4> QED BY <1>1, <3>1, GreatestBelow
      <3>3. m \in Nat /\ m <= Len(s) /\ s[m] = f /\ m \in DOMAIN s
        BY <1>1, <3>2
      <3>4. LastOf(m)
        <4> SUFFICES ASSUME NEW j \in m + 1..Len(s), s[j] = s[m] PROVE FALSE
          OBVIOUS
        <4>1. j \in Nat /\ j > m /\ j \in 1 .. Len(s)
          BY <1>1, <3>3
        <4>2. j \in T
          BY <1>1, <3>3, <4>1
        <4> QED BY <3>2, <3>3, <4>1, <4>2
      <3>5. m \in I
        BY <2>1, <3>3, <3>4
      <3> HIDE DEF I, t
      <3> QED BY <1>4, <3>3, <3>5
    <2>2. ASSUME NEW i \in I PROVE s[i] \in Range(s) /\ Wanted(s[i])
      BY DEF Range
    <2> HIDE DEF Wanted, I, t
    <2> QED BY <1>4, <2>1, <2>2
  <1>8. Range(t) \subseteq DOMAIN mod.fns
    BY <1>7
  <1> HIDE DEF t
  <1>9. t \in Seq(DOMAIN mod.fns)
    BY <1>4, <1>8, SeqWithin
  <1>10. Reverse(t) \in Seq(DOMAIN mod.fns) /\ Distinct(Reverse(t)) /\ Range(Reverse(t)) = Range(t)
    BY <1>6, <1>9, ReverseProperties
  <1> QED BY <1>2, <1>7, <1>10 DEF s, IsCandidate

LEMMA ArrivingProperties ==
  ASSUME IsModule(mod), NEW fs \in Seq(DOMAIN mod.fns), Distinct(fs), NEW hash
  PROVE  LET new == Arriving(fs, hash)
         IN /\ new \in Seq(Entry)
            /\ \A k \in DOMAIN new : /\ new[k].state = "new" /\ new[k].f \in Range(fs)
                                    /\ new[k].f \in DOMAIN mod.fns
                                    /\ Hash(mod.fns[new[k].f]) = hash
            /\ \A j, k \in DOMAIN new : new[j].f = new[k].f => j = k
            /\ \A f \in Range(fs) : Hash(mod.fns[f]) = hash => \E k \in DOMAIN new : new[k].f = f
  <1> DEFINE own == {n \in DOMAIN fs : Hash(mod.fns[fs[n]]) = hash}
             t == Items(fs, own)
             s == Reverse(t)
             N == Cardinality(own)
             new == [k \in 1..N |-> [f |-> s[k], state |-> "new"]]
  <1>1. Arriving(fs, hash) = new
    BY DEF Arriving
  <1>2. own \in SUBSET DOMAIN fs
    OBVIOUS
  <1>3. t \in Seq(DOMAIN mod.fns) /\ Range(t) = {fs[n] : n \in own} /\ Len(t) = N /\ Distinct(t)
    <2> HIDE DEF own
    <2>1. t \in Seq(DOMAIN mod.fns) /\ Range(t) = {fs[n] : n \in own}
      BY <1>2, ItemsPositions
    <2>2. Len(t) = N
      BY <1>2, ItemsProperties
    <2>3. Distinct(t)
      BY <1>2, ItemsDistinct
    <2> QED BY <2>1, <2>2, <2>3
  <1>4. s \in Seq(DOMAIN mod.fns) /\ Range(s) = Range(t) /\ Len(s) = N /\ Distinct(s)
    <2> HIDE DEF t, own
    <2> QED BY <1>3, ReverseProperties
  <1>5. DOMAIN s = 1 .. N /\ N \in Nat /\ \A k \in DOMAIN s : s[k] \in DOMAIN mod.fns
    <2> HIDE DEF s, own
    <2> QED BY <1>4, ItemsOfSeq
  <1>6. ASSUME NEW k \in DOMAIN s PROVE s[k] \in Range(fs) /\ Hash(mod.fns[s[k]]) = hash
    <2>1. s[k] \in Range(t)
      <3>1. s[k] \in Range(s)
        BY DEF Range
      <3> HIDE DEF s, t
      <3> QED BY <1>4, <3>1
    <2>2. PICK n \in own : s[k] = fs[n]
      <3> HIDE DEF s, t, own
      <3> QED BY <1>3, <2>1
    <2> QED BY <2>2 DEF Range
  <1>7. ASSUME NEW f \in Range(fs), Hash(mod.fns[f]) = hash
        PROVE  \E k \in DOMAIN s : s[k] = f
    <2>1. PICK n \in DOMAIN fs : fs[n] = f
      BY DEF Range
    <2>2. n \in own
      BY <1>7, <2>1
    <2>3. f \in Range(s)
      <3> HIDE DEF s, t, own
      <3> QED BY <1>3, <1>4, <2>1, <2>2
    <2> HIDE DEF s
    <2> QED BY <2>3 DEF Range
  <1> HIDE DEF s, N
  <1>8. new \in Seq(Entry)
    <2>1. ASSUME NEW k \in 1..N PROVE [f |-> s[k], state |-> "new"] \in Entry
      <3>1. DOMAIN mod.fns \subseteq Nat
        BY DEF IsModule
      <3>2. s[k] \in DOMAIN mod.fns
        BY <1>5
      <3>3. s[k] \in Nat
        BY <3>1, <3>2
      <3> HIDE DEF Arriving
      <3> QED BY <3>3 DEF Entry, States
    <2>2. new \in [1 .. N -> Entry]
      BY <2>1
    <2> HIDE DEF new
    <2> QED BY <1>5, <2>2
  <1>9. DOMAIN new = 1..N /\ \A k \in 1..N : new[k].f = s[k] /\ new[k].state = "new"
    OBVIOUS
  <1>10. \A j, k \in DOMAIN new : new[j].f = new[k].f => j = k
    <2> HIDE DEF new
    <2> QED BY <1>4, <1>5, <1>9 DEF Distinct
  <1>11. ASSUME NEW f \in Range(fs), Hash(mod.fns[f]) = hash
         PROVE  \E k \in DOMAIN new : new[k].f = f
    <2> HIDE DEF new
    <2> QED BY <1>5, <1>7, <1>9, <1>11
  <1> HIDE DEF new
  <1> QED BY <1>1, <1>5, <1>6, <1>8, <1>9, <1>10, <1>11

LEMMA EnqueueKeeps ==
  ASSUME IInv, Enqueue
  PROVE  IInv'
  <1>1. /\ phase = "enqueue" /\ phase' = "strong" /\ at' = 1 /\ deferred' = <<>>
        /\ UNCHANGED <<given, mod, comps, merged>>
    BY DEF Enqueue
  <1>2. /\ Types /\ GivenIsOlder /\ BucketsAreSound /\ ComparisonsAreSound /\ HashesAreKnown
        /\ StrongAreKnown /\ ComparedAreKnown
    BY DEF IInv
  <1>3. /\ IsModule(mod) /\ buckets \in Seq(BucketType) /\ merged = {} /\ Merging /\ Merging'
        /\ DOMAIN buckets = 1 .. Len(buckets) /\ Len(buckets) \in Nat
    BY <1>1, <1>2, LenProperties DEF Types, Merging
  <1> DEFINE fs == Waiting
             bs == Extended(fs)
             new(b) == Arriving(fs, bs[b].hash)
             M(b) == Len(new(b))
  <1>4. buckets' = [b \in DOMAIN bs |-> [hash |-> bs[b].hash, fns |-> new(b) \o bs[b].fns]]
    <2> DEFINE Body(x, y) ==
                 buckets' = [b \in DOMAIN y |->
                               [hash |-> y[b].hash, fns |-> Arriving(x, y[b].hash) \o y[b].fns]]
    <2>1. \E x \in {Waiting} : \E y \in {Extended(x)} : Body(x, y)
      BY DEF Enqueue
    <2>2. Body(fs, bs)
      <3> HIDE DEF Body
      <3> QED BY <2>1
    <2> QED BY <2>2
  <1>5. /\ fs \in Seq(DOMAIN mod.fns) /\ Distinct(fs)
        /\ Range(fs) = {f \in Range(deferred) : f \in DOMAIN mod.fns /\ IsCandidate(f)}
    BY <1>2, WaitingProperties
  <1>6. \A a, b \in DOMAIN buckets : buckets[a].hash = buckets[b].hash => a = b
    BY <1>2 DEF BucketsAreSound
  <1>7. /\ bs \in Seq(BucketType)
        /\ \A b \in DOMAIN buckets : b \in DOMAIN bs /\ bs[b] = buckets[b]
        /\ \A b \in DOMAIN bs \ DOMAIN buckets : bs[b].fns = <<>>
        /\ \A a, b \in DOMAIN bs : bs[a].hash = bs[b].hash => a = b
        /\ \A h \in Hashes : \E b \in DOMAIN bs : bs[b].hash = h
        /\ \A f \in Range(fs) : \E b \in DOMAIN bs : bs[b].hash = Hash(mod.fns[f])
    <2> HIDE DEF fs
    <2>1. \E x : x = bs
      OBVIOUS
    <2> QED BY <1>3, <1>5, <1>6, ExtendedProperties
  <1>8. ASSUME NEW b \in DOMAIN bs
        PROVE  /\ new(b) \in Seq(Entry)
               /\ \A k \in DOMAIN new(b) :
                    /\ new(b)[k].state = "new" /\ new(b)[k].f \in Range(fs)
                    /\ new(b)[k].f \in DOMAIN mod.fns
                    /\ Hash(mod.fns[new(b)[k].f]) = bs[b].hash
               /\ \A j, k \in DOMAIN new(b) : new(b)[j].f = new(b)[k].f => j = k
               /\ \A f \in Range(fs) : Hash(mod.fns[f]) = bs[b].hash =>
                    \E k \in DOMAIN new(b) : new(b)[k].f = f
    <2> HIDE DEF fs, bs
    <2> QED BY <1>3, <1>5, ArrivingProperties
  <1> HIDE DEF fs, bs, new
  <1>9. ASSUME NEW b \in DOMAIN bs
        PROVE  /\ bs[b] \in BucketType /\ bs[b].fns \in Seq(Entry)
               /\ bs[b].hash \in STRING \X Strengths \X Nat \X Nat
               /\ DOMAIN bs[b].fns = 1 .. Len(bs[b].fns) /\ Len(bs[b].fns) \in Nat
    <2>1. bs[b] \in BucketType
      BY <1>7, ItemsOfSeq
    <2>2. bs[b].fns \in Seq(Entry) /\ bs[b].hash \in STRING \X Strengths \X Nat \X Nat
      BY <2>1 DEF BucketType
    <2> QED BY <2>1, <2>2, LenProperties
  (* An entry of a bucket is an arriving one, or the old one further on. *)
  <1>10. ASSUME NEW b \in DOMAIN bs
         PROVE  /\ M(b) \in Nat /\ DOMAIN new(b) = 1 .. M(b)
                /\ new(b) \o bs[b].fns \in Seq(Entry)
                /\ DOMAIN (new(b) \o bs[b].fns) = 1 .. M(b) + Len(bs[b].fns)
                /\ \A k \in 1 .. M(b) : (new(b) \o bs[b].fns)[k] = new(b)[k]
                /\ \A k \in DOMAIN (new(b) \o bs[b].fns) : k \notin 1 .. M(b) =>
                     /\ k - M(b) \in DOMAIN bs[b].fns
                     /\ (new(b) \o bs[b].fns)[k] = bs[b].fns[k - M(b)]
                /\ \A k \in DOMAIN bs[b].fns :
                     /\ M(b) + k \in DOMAIN (new(b) \o bs[b].fns)
                     /\ (new(b) \o bs[b].fns)[M(b) + k] = bs[b].fns[k]
    <2> DEFINE t == new(b)
               u == bs[b].fns
    <2>1. t \in Seq(Entry) /\ u \in Seq(Entry)
      BY <1>8, <1>9
    <2>2. M(b) = Len(t)
      OBVIOUS
    <2> HIDE DEF t, u, M
    <2>3. /\ t \o u \in Seq(Entry) /\ Len(t \o u) = Len(t) + Len(u)
          /\ \A i \in 1 .. Len(t) + Len(u) : (t \o u)[i] = IF i <= Len(t) THEN t[i] ELSE u[i - Len(t)]
      BY <2>1, ConcatProperties
    <2>4. /\ DOMAIN t = 1 .. Len(t) /\ DOMAIN u = 1 .. Len(u) /\ Len(t) \in Nat /\ Len(u) \in Nat
          /\ DOMAIN (t \o u) = 1 .. Len(t \o u)
      BY <2>1, <2>3, LenProperties
    <2>5. ASSUME NEW k \in DOMAIN (t \o u), k \notin 1 .. Len(t)
          PROVE  k - Len(t) \in DOMAIN u /\ (t \o u)[k] = u[k - Len(t)]
      <3>1. k \in 1 .. Len(t) + Len(u) /\ ~ (k <= Len(t)) /\ k - Len(t) \in 1 .. Len(u)
        BY <2>3, <2>4, <2>5
      <3> QED BY <2>3, <2>4, <3>1
    <2>6. \A k \in 1 .. Len(t) : (t \o u)[k] = t[k]
      BY <2>3, <2>4
    <2>7. ASSUME NEW k \in DOMAIN u
          PROVE  Len(t) + k \in DOMAIN (t \o u) /\ (t \o u)[Len(t) + k] = u[k]
      <3>1. k \in 1 .. Len(u) /\ Len(t) + k \in 1 .. Len(t) + Len(u) /\ ~ (Len(t) + k <= Len(t))
            /\ (Len(t) + k) - Len(t) = k
        BY <2>4, <2>7
      <3> QED BY <2>3, <2>4, <3>1
    <2> QED BY <2>2, <2>3, <2>4, <2>5, <2>6, <2>7 DEF t, u
  <1>11. /\ DOMAIN buckets' = DOMAIN bs
         /\ \A b \in DOMAIN bs : /\ buckets'[b].hash = bs[b].hash
                                /\ buckets'[b].fns = new(b) \o bs[b].fns
    BY <1>4
  <1> DEFINE Old(b, k) == k \notin 1 .. M(b)
             G(b, k) == buckets'[b].fns[k].f
  <1> HIDE DEF M
  <1>12. ASSUME NEW b \in DOMAIN bs, NEW k \in DOMAIN buckets'[b].fns
         PROVE  \/ /\ k \in DOMAIN new(b) /\ ~ Old(b, k)
                   /\ buckets'[b].fns[k] = new(b)[k]
                \/ /\ Old(b, k) /\ b \in DOMAIN buckets /\ bs[b] = buckets[b]
                   /\ k - M(b) \in DOMAIN buckets[b].fns
                   /\ buckets'[b].fns[k] = buckets[b].fns[k - M(b)]
    <2>1. /\ DOMAIN new(b) = 1 .. M(b)
          /\ \A i \in 1 .. M(b) : buckets'[b].fns[i] = new(b)[i]
          /\ \A i \in DOMAIN buckets'[b].fns : i \notin 1 .. M(b) =>
               /\ i - M(b) \in DOMAIN bs[b].fns
               /\ buckets'[b].fns[i] = bs[b].fns[i - M(b)]
      <3> DEFINE u == bs[b].fns
                 w == buckets'[b].fns
                 n == new(b)
      <3>1. w = n \o u
        BY <1>11
      <3>2. /\ DOMAIN n = 1 .. M(b) /\ \A i \in 1 .. M(b) : (n \o u)[i] = n[i]
            /\ \A i \in DOMAIN (n \o u) : i \notin 1 .. M(b) =>
                 i - M(b) \in DOMAIN u /\ (n \o u)[i] = u[i - M(b)]
        BY <1>10
      <3> HIDE DEF w, u, n
      <3>3. /\ DOMAIN n = 1 .. M(b) /\ \A i \in 1 .. M(b) : w[i] = n[i]
            /\ \A i \in DOMAIN w : i \notin 1 .. M(b) =>
                 i - M(b) \in DOMAIN u /\ w[i] = u[i - M(b)]
        BY <3>1, <3>2
      <3> QED BY <3>3 DEF w, u, n
    <2>2. CASE k \in 1 .. M(b)
      BY <2>1, <2>2
    <2>3. CASE k \notin 1 .. M(b)
      <3>1. k - M(b) \in DOMAIN bs[b].fns /\ buckets'[b].fns[k] = bs[b].fns[k - M(b)]
        BY <2>1, <2>3
      <3>2. bs[b].fns # <<>>
        <4> SUFFICES ASSUME bs[b].fns = <<>> PROVE FALSE
          OBVIOUS
        <4>1. DOMAIN bs[b].fns = {}
          BY EmptySeq
        <4> QED BY <3>1, <4>1
      <3>3. b \in DOMAIN buckets /\ bs[b] = buckets[b]
        BY <1>7, <3>2
      <3> QED BY <2>3, <3>1, <3>3
    <2> QED BY <2>2, <2>3
  <1>13. ASSUME NEW b \in DOMAIN bs, NEW k \in DOMAIN new(b)
         PROVE  /\ new(b)[k].state = "new" /\ new(b)[k].f \in Range(deferred)
                /\ new(b)[k].f \in DOMAIN mod.fns /\ IsCandidate(new(b)[k].f)
                /\ Hash(mod.fns[new(b)[k].f]) = bs[b].hash
    BY <1>5, <1>8
  <1>14. Types'
    <2>1. ASSUME NEW b \in DOMAIN bs
          PROVE  [hash |-> bs[b].hash, fns |-> new(b) \o bs[b].fns] \in BucketType
      BY <1>9, <1>10 DEF BucketType
    <2>2. buckets' \in [1 .. Len(bs) -> BucketType] /\ Len(bs) \in Nat
      <3>1. DOMAIN bs = 1 .. Len(bs) /\ Len(bs) \in Nat
        BY <1>7, LenProperties
      <3> QED BY <1>4, <2>1, <3>1
    <2>3. buckets' \in Seq(BucketType)
      BY <2>2
    <2>4. deferred' \in Seq(1 .. mod'.next - 1)
      BY <1>1
    <2> QED BY <1>1, <1>2, <1>3, <2>3, <2>4 DEF Types
  <1>15. \A b \in DOMAIN buckets : \A k \in DOMAIN buckets[b].fns :
           LET f == buckets[b].fns[k].f
           IN /\ f \in DOMAIN mod.fns /\ f \notin Range(deferred)
              /\ IsCandidate(f) /\ Hash(mod.fns[f]) = buckets[b].hash
    BY <1>2, <1>3 DEF BucketsAreSound
  <1>16. BucketsAreSound'
    <2>1. ASSUME NEW b \in DOMAIN bs, NEW k \in DOMAIN buckets'[b].fns
          PROVE  /\ G(b, k) \in DOMAIN mod.fns /\ IsCandidate(G(b, k))
                 /\ Hash(mod.fns[G(b, k)]) = bs[b].hash
                 /\ Old(b, k) => G(b, k) \notin Range(deferred)
                 /\ ~ Old(b, k) => G(b, k) \in Range(deferred)
      <3>1. CASE k \in DOMAIN new(b) /\ ~ Old(b, k) /\ buckets'[b].fns[k] = new(b)[k]
        <4>1. G(b, k) = new(b)[k].f
          BY <3>1
        <4> HIDE DEF G, Old
        <4> QED BY <1>13, <3>1, <4>1
      <3>2. CASE /\ Old(b, k) /\ b \in DOMAIN buckets /\ bs[b] = buckets[b]
                 /\ k - M(b) \in DOMAIN buckets[b].fns
                 /\ buckets'[b].fns[k] = buckets[b].fns[k - M(b)]
        <4>1. G(b, k) = buckets[b].fns[k - M(b)].f
          BY <3>2
        <4> HIDE DEF G, Old
        <4> QED BY <1>15, <3>2, <4>1
      <3> HIDE DEF G, Old
      <3> QED BY <1>12, <3>1, <3>2 DEF Old
    <2>2. Range(deferred') = {}
      BY <1>1 DEF Range
    <2>3. ASSUME NEW b \in DOMAIN bs, NEW j \in DOMAIN buckets'[b].fns,
                 NEW k \in DOMAIN buckets'[b].fns, G(b, j) = G(b, k)
          PROVE  j = k
      <3> HIDE DEF G
      <3>1. Old(b, j) <=> Old(b, k)
        BY <2>1, <2>3
      <3>2. CASE ~ Old(b, j)
        <4>1. /\ j \in DOMAIN new(b) /\ buckets'[b].fns[j] = new(b)[j]
              /\ k \in DOMAIN new(b) /\ buckets'[b].fns[k] = new(b)[k]
          BY <1>12, <3>1, <3>2
        <4>2. new(b)[j].f = new(b)[k].f
          BY <2>3, <4>1 DEF G
        <4> QED BY <1>8, <4>1, <4>2
      <3>3. CASE Old(b, j)
        <4>1. /\ b \in DOMAIN buckets
              /\ j - M(b) \in DOMAIN buckets[b].fns
              /\ buckets'[b].fns[j] = buckets[b].fns[j - M(b)]
              /\ k - M(b) \in DOMAIN buckets[b].fns
              /\ buckets'[b].fns[k] = buckets[b].fns[k - M(b)]
          BY <1>12, <3>1, <3>3
        <4>2. buckets[b].fns[j - M(b)].f = buckets[b].fns[k - M(b)].f
          BY <2>3, <4>1 DEF G
        <4>3. j - M(b) = k - M(b)
          BY <1>2, <4>1, <4>2 DEF BucketsAreSound
        <4>4. j \in Int /\ k \in Int /\ M(b) \in Nat
          BY <1>9, <1>10, <1>11
        <4> QED BY <4>3, <4>4
      <3> QED BY <3>2, <3>3
    <2>4. \A a, b \in DOMAIN buckets' : buckets'[a].hash = buckets'[b].hash => a = b
      BY <1>7, <1>11
    <2>5. \A b \in DOMAIN buckets' : \A k \in DOMAIN buckets'[b].fns :
            /\ buckets'[b].fns[k].f \in DOMAIN mod.fns /\ buckets'[b].fns[k].f \notin Range(deferred')
            /\ IsCandidate(buckets'[b].fns[k].f)
            /\ Hash(mod.fns[buckets'[b].fns[k].f]) = buckets'[b].hash
      BY <1>11, <2>1, <2>2
    <2>6. \A b \in DOMAIN buckets' : \A j, k \in DOMAIN buckets'[b].fns :
            buckets'[b].fns[j].f = buckets'[b].fns[k].f => j = k
      BY <1>11, <2>3
    <2> QED BY <1>1, <2>4, <2>5, <2>6 DEF BucketsAreSound, IsCandidate
  <1>17. ComparisonsAreSound'
    BY <1>1, <1>2 DEF ComparisonsAreSound, IsCandidate
  <1>18. HashesAreKnown'
    <2>1. ASSUME NEW b \in DOMAIN bs PROVE bs[b].hash \in Hashes'
      <3>1. buckets'[b] \in Range(buckets')
        BY <1>11 DEF Range
      <3> QED BY <1>11, <3>1 DEF Hashes
    <2>2. ASSUME NEW f \in DOMAIN mod.fns \cap DOMAIN given.fns, IsCandidate(f)
          PROVE  Hash(mod.fns[f]) \in Hashes'
      <3>1. \E b \in DOMAIN bs : bs[b].hash = Hash(mod.fns[f])
        <4>1. CASE Hash(mod.fns[f]) \in Hashes
          BY <1>7, <4>1
        <4>2. CASE f \in Range(deferred)
          <5>1. f \in Range(fs)
            BY <1>5, <2>2, <4>2
          <5> QED BY <1>7, <5>1
        <4> QED BY <1>2, <1>3, <2>2, <4>1, <4>2 DEF HashesAreKnown
      <3> QED BY <2>1, <3>1
    <2> QED BY <1>1, <2>2 DEF HashesAreKnown, IsCandidate
  <1>19. ComparedAreKnown'
    <2>1. ASSUME NEW b \in DOMAIN bs, NEW j \in DOMAIN buckets'[b].fns,
                 NEW k \in DOMAIN buckets'[b].fns, j < k, buckets'[b].fns[j].state = "compared"
          PROVE  Known(buckets'[b].fns[j].f, buckets'[b].fns[k].f)
      <3>1. Old(b, j)
        <4> SUFFICES ASSUME ~ Old(b, j) PROVE FALSE
          OBVIOUS
        <4>1. j \in DOMAIN new(b) /\ buckets'[b].fns[j] = new(b)[j]
          BY <1>12
        <4> QED BY <1>13, <2>1, <4>1
      <3>2. j \in Nat /\ k \in Nat /\ M(b) \in Nat /\ j >= 1
        <4>1. DOMAIN buckets'[b].fns = 1 .. M(b) + Len(bs[b].fns) /\ M(b) \in Nat
          BY <1>10, <1>11
        <4> QED BY <1>9, <4>1
      <3>3. Old(b, k)
        BY <2>1, <3>1, <3>2
      <3>4. /\ b \in DOMAIN buckets
            /\ j - M(b) \in DOMAIN buckets[b].fns /\ k - M(b) \in DOMAIN buckets[b].fns
            /\ buckets'[b].fns[j] = buckets[b].fns[j - M(b)]
            /\ buckets'[b].fns[k] = buckets[b].fns[k - M(b)]
        BY <1>12, <3>1, <3>3
      <3>5. j - M(b) < k - M(b)
        BY <2>1, <3>2
      <3>6. buckets[b].fns[j - M(b)].state = "compared"
        BY <2>1, <3>4
      <3>7. Known(buckets[b].fns[j - M(b)].f, buckets[b].fns[k - M(b)].f)
        BY <1>2, <1>3, <3>4, <3>5, <3>6 DEF ComparedAreKnown
      <3> QED BY <3>4, <3>7
    <2>2. \A b \in DOMAIN buckets' : \A j, k \in DOMAIN buckets'[b].fns :
            j < k /\ buckets'[b].fns[j].state = "compared"
              => Known(buckets'[b].fns[j].f, buckets'[b].fns[k].f)
      BY <1>11, <2>1
    <2> QED BY <1>1, <2>2 DEF ComparedAreKnown, Known, Noted
  <1>20. PassedAreSettled'
    <2>1. \A b \in DOMAIN buckets' : ~ (b < 1)
      <3>1. DOMAIN bs = 1 .. Len(bs)
        BY <1>7, LenProperties
      <3> QED BY <1>11, <3>1
    <2> QED BY <1>1, <2>1 DEF PassedAreSettled
  <1>21. GivenIsOlder' /\ QueueIsEmpty'
    BY <1>1, <1>2 DEF GivenIsOlder, QueueIsEmpty
  <1>22. StrongAreKnown'
    <2>1. ASSUME NEW b \in DOMAIN bs, NEW k \in DOMAIN buckets'[b].fns
          PROVE  buckets'[b].fns[k].f \in Registered'
      <3>1. b \in DOMAIN buckets'
        BY <1>11
      <3>2. buckets'[b].fns[k].f \in FunctionsIn(buckets')
        BY <3>1, RegisteredIn
      <3> QED BY <3>2 DEF Registered, FunctionsIn
    <2>2. ASSUME NEW f \in Registered PROVE f \in Registered'
      <3>0. f \in FunctionsIn(buckets)
        BY DEF Registered, FunctionsIn
      <3>1. PICK b \in DOMAIN buckets : \E k \in DOMAIN buckets[b].fns : buckets[b].fns[k].f = f
        BY <3>0, RegisteredIn
      <3>2. PICK k \in DOMAIN buckets[b].fns : buckets[b].fns[k].f = f
        BY <3>1
      <3>3. b \in DOMAIN bs /\ bs[b] = buckets[b]
        BY <1>7
      <3>4. M(b) + k \in DOMAIN buckets'[b].fns /\ buckets'[b].fns[M(b) + k] = buckets[b].fns[k]
        <4>1. k \in DOMAIN bs[b].fns /\ bs[b].fns[k] = buckets[b].fns[k]
          BY <3>2, <3>3
        <4>2. /\ M(b) + k \in DOMAIN (new(b) \o bs[b].fns)
              /\ (new(b) \o bs[b].fns)[M(b) + k] = bs[b].fns[k]
          BY <1>10, <3>3, <4>1
        <4>3. buckets'[b].fns = new(b) \o bs[b].fns
          BY <1>11, <3>3
        <4> QED BY <4>1, <4>2, <4>3
      <3> QED BY <2>1, <3>2, <3>3, <3>4
    <2>3. ASSUME NEW f \in DOMAIN mod.fns, IsCandidate(f), f \in Range(deferred)
          PROVE  f \in Registered'
      <3>1. f \in Range(fs)
        BY <1>5, <2>3
      <3>2. PICK b \in DOMAIN bs : bs[b].hash = Hash(mod.fns[f])
        BY <1>7, <3>1
      <3>3. PICK k \in DOMAIN new(b) : new(b)[k].f = f
        BY <1>8, <3>1, <3>2
      <3>4. k \in DOMAIN buckets'[b].fns /\ buckets'[b].fns[k] = new(b)[k]
        <4>1. Len(bs[b].fns) \in Nat /\ M(b) \in Nat /\ k \in 1 .. M(b)
          BY <1>9, <1>10, <3>3
        <4>2. k \in 1 .. M(b) + Len(bs[b].fns)
          BY <4>1
        <4> QED BY <1>10, <1>11, <4>1, <4>2
      <3> QED BY <2>1, <3>3, <3>4
    <2>4. \A f \in DOMAIN mod.fns : IsStrongCandidate(f) => IsCandidate(f)
      BY DEF IsStrongCandidate, IsCandidate
    <2>5. \A f \in DOMAIN mod.fns : IsStrongCandidate(f) => f \in Registered'
      BY <1>2, <2>2, <2>3, <2>4 DEF StrongAreKnown
    <2> QED BY <1>1, <2>5 DEF StrongAreKnown, IsStrongCandidate
  <1> QED BY <1>14, <1>16, <1>17, <1>18, <1>19, <1>20, <1>21, <1>22 DEF IInv

-----------------------------------------------------------------------------
(***************************************************************************)
(* outlineAndMergeFunctions.                                               *)
(***************************************************************************)

(* The comparisons chosen are about second functions that are not merged.   *)
LEMMA ChosenProperties ==
  ASSUME NEW E, NEW cs \in Seq(E)
  PROVE  Chosen(cs) \in Seq({c \in Range(cs) : c.f2 \notin merged})
  <1> DEFINE N == Len(cs)
             Open == {c \in Range(cs) : c.f2 \notin merged}
             V == Seq(Open)
             Taken(taken) == merged \cup {c.f2 : c \in Range(taken)}
             extend(n, taken) ==
               IF cs[n].f2 \in Taken(taken)
                  \/ MaxSimilarity(cs[n].f2, Taken(taken)) > SimilarityMetric(cs[n])
               THEN taken ELSE Append(taken, cs[n])
             body(u, n) == IF n = 0 THEN <<>> ELSE extend(n, u[n - 1])
             upto == CHOOSE u : u = [n \in 0..N |-> body(u, n)]
             op == [p \in (1 .. N) \X V |-> extend(p[1], p[2])]
  <1>1. Chosen(cs) = upto[N]
    BY DEF Chosen
  <1>2. N \in Nat /\ DOMAIN cs = 1 .. N
    BY ItemsOfSeq
  <1>3. ASSUME NEW n \in 1 .. N, NEW taken \in V PROVE extend(n, taken) \in V
    <2>1. CASE cs[n].f2 \in Taken(taken)
      BY <2>1
    <2>2. CASE cs[n].f2 \notin Taken(taken)
      <3>1. cs[n] \in Open
        BY <1>2, <2>2 DEF Range
      <3> HIDE DEF Open
      <3>2. Append(taken, cs[n]) \in V
        BY <3>1
      <3> HIDE DEF V
      <3> QED BY <3>2
    <2> QED BY <2>1, <2>2
  <1> HIDE DEF extend
  <1>4. op \in [(1 .. N) \X V -> V] /\ \A i \in 1 .. N, t \in V : op[<<i, t>>] = extend(i, t)
    <2> HIDE DEF V, N
    <2> QED BY <1>3
  <1>5. <<>> \in V
    <2> HIDE DEF Open
    <2> QED OBVIOUS
  <1> HIDE DEF op, V
  <1>6. PICK e : IsChain(e, N, V, <<>>, op)
    <2> HIDE DEF N
    <2> QED BY <1>2, <1>4, <1>5, ChainRecursion
  <1>7. /\ e \in [0 .. N -> V] /\ e[0] = <<>>
        /\ \A i \in 1 .. N : e[i] = op[<<i, e[i - 1]>>]
    BY <1>6 DEF IsChain
  <1>8. ASSUME NEW i \in 0 .. N PROVE e[i] = body(e, i)
    <2>1. CASE i # 0
      <3>1. i \in 1 .. N /\ i - 1 \in 0 .. N
        BY <1>2, <2>1
      <3>2. e[i] = op[<<i, e[i - 1]>>] /\ e[i - 1] \in V
        BY <1>7, <3>1
      <3> QED BY <1>4, <2>1, <3>1, <3>2
    <2> QED BY <1>7, <2>1
  <1>9. e = [i \in 0 .. N |-> body(e, i)]
    <2> HIDE DEF body
    <2> QED BY <1>7, <1>8
  <1>10. upto = [i \in 0 .. N |-> body(upto, i)]
    <2> HIDE DEF body
    <2> QED BY <1>9
  <1> HIDE DEF upto
  <1>11. /\ upto[0] = <<>>
         /\ \A i \in 1 .. N : upto[i] = extend(i, upto[i - 1])
    BY <1>2, <1>10
  <1> DEFINE T == {i \in Nat : i <= N => upto[i] \in V}
  <1>12. 0 \in T
    BY <1>5, <1>11
  <1>13. ASSUME NEW i \in T PROVE i + 1 \in T
    <2>1. SUFFICES ASSUME i + 1 <= N PROVE upto[i + 1] \in V
      OBVIOUS
    <2>2. i \in Nat /\ i <= N /\ i + 1 \in 1 .. N /\ (i + 1) - 1 = i
      BY <1>2, <2>1
    <2>3. upto[i] \in V
      BY <2>2
    <2>4. upto[i + 1] = extend(i + 1, upto[i])
      BY <1>11, <2>2
    <2> QED BY <1>3, <2>2, <2>3, <2>4
  <1>14. N \in T
    <2> HIDE DEF T
    <2>1. T \subseteq Nat
      BY DEF T
    <2> QED BY <1>2, <1>12, <1>13, <2>1, NatSet
  <1> QED BY <1>1, <1>2, <1>14 DEF V

LEMMA FunctionMore ==
  ASSUME NEW f, NEW ids, IsFunction(f, ids), NEW more, ids \subseteq more
  PROVE  IsFunction(f, more)
  <1> DEFINE A == Instruction(ids)
             B == Instruction(more)
             cs == f.codes
  <1>1. /\ f = [name |-> f.name, linkage |-> f.linkage, shape |-> f.shape, type |-> f.type,
                blocks |-> f.blocks, codes |-> cs]
        /\ f.name \in Seq(STRING) /\ f.linkage \in {"external", "weak", "internal"}
        /\ f.shape \in STRING /\ f.type \in Seq(STRING) \ {<<>>} /\ f.blocks \in Nat
        /\ cs \in Seq(Seq(A))
        /\ \A c \in DOMAIN cs : cs[c] # <<>>
    BY DEF IsFunction
  <1>2. A \subseteq B
    BY DEF Instruction
  <1> HIDE DEF A, B, cs
  <1>3. ASSUME NEW code \in Seq(A) PROVE code \in Seq(B)
    BY <1>2, SeqWithin
  <1>4. cs \in Seq(Seq(B))
    <2>1. Range(cs) \cap Seq(A) \subseteq Seq(B)
      BY <1>3
    <2> QED BY <1>1, <2>1, SeqWithin
  <1> QED BY <1>1, <1>4 DEF IsFunction, B

(* Functions of one length are merged into a new one.                      *)
LEMMA OutlinedModule ==
  ASSUME NEW m, IsModule(m), NEW f \in DOMAIN m.fns, Code(m.fns[f]) # <<>>,
         NEW E, NEW cs \in Seq(E), cs # <<>>,
         \A c \in E : /\ c.f1 = f /\ c.f2 \in DOMAIN m.fns
                      /\ Len(Code(m.fns[c.f2])) = Len(Code(m.fns[f])),
         NEW r, r = OutlineAndMerge(m, cs)
  PROVE  /\ IsModule(r) /\ DOMAIN r.fns = DOMAIN m.fns \cup {m.next} /\ r.next = m.next + 1
         /\ \A h \in DOMAIN m.fns : r.fns[h].linkage = m.fns[h].linkage
         /\ \A h \in DOMAIN m.fns \ ({f} \cup {c.f2 : c \in Range(cs)}) : r.fns[h] = m.fns[h]
  <1> DEFINE D == DOMAIN m.fns
             new == m.next
             N == D \cup {new}
             F == Code(m.fns[f])
             seconds == [k \in DOMAIN cs |-> cs[k].f2]
             parts == <<f>> \o seconds
             inst(c, pos) == ChosenInst(m, cs, new, c - 1, pos)
             codes == [c \in DOMAIN parts |-> [pos \in DOMAIN F |-> inst(c, pos)]]
             choice(h) == (CHOOSE c \in DOMAIN parts : parts[c] = h) - 1
  <1>1. /\ new \in Nat /\ D \subseteq 1..new - 1 /\ m.data \in Seq(D) /\ m.casts \subseteq D
        /\ \A h \in D : IsFunction(m.fns[h], D)
    BY DEF IsModule
  <1>2. new \notin D
    BY <1>1
  <1>3. /\ DOMAIN cs = 1 .. Len(cs) /\ Len(cs) \in Nat /\ 1 \in DOMAIN cs
        /\ \A k \in DOMAIN cs : /\ cs[k].f1 = f /\ cs[k].f2 \in D
                                /\ Len(Code(m.fns[cs[k].f2])) = Len(F)
    <2>1. DOMAIN cs = 1 .. Len(cs) /\ Len(cs) \in Nat /\ \A k \in DOMAIN cs : cs[k] \in E
      BY ItemsOfSeq
    <2>2. Len(cs) # 0
      BY EmptySeq
    <2> QED BY <2>1, <2>2
  <1>4. /\ seconds \in Seq(D) /\ Len(seconds) = Len(cs)
        /\ \A k \in DOMAIN cs : seconds[k] = cs[k].f2
    <2>1. seconds \in [1 .. Len(cs) -> D] /\ \A k \in DOMAIN cs : seconds[k] = cs[k].f2
      BY <1>3
    <2> HIDE DEF seconds, D
    <2> QED BY <1>3, <2>1
  <1>5. Range(seconds) = {c.f2 : c \in Range(cs)}
    <2>1. DOMAIN seconds = DOMAIN cs
      OBVIOUS
    <2> HIDE DEF seconds
    <2> QED BY <1>4, <2>1 DEF Range
  <1>6. /\ parts \in Seq(D) /\ DOMAIN parts = 1 .. Len(cs) + 1
        /\ Range(parts) = {f} \cup {c.f2 : c \in Range(cs)}
    <2>1. <<f>> \in Seq(D) /\ Range(<<f>>) = {f} /\ Len(<<f>>) = 1
      BY OneItem
    <2> DEFINE first == <<f>>
    <2> HIDE DEF first, seconds, D
    <2>2. first \in Seq(D) /\ Range(first) = {f} /\ Len(first) = 1
      BY <2>1 DEF first
    <2>3. first \o seconds \in Seq(D) /\ Range(first \o seconds) = {f} \cup Range(seconds)
      BY <1>4, <2>2, ConcatRange
    <2>4. Len(first \o seconds) = Len(cs) + 1
      <3>1. Len(first \o seconds) = Len(first) + Len(seconds)
        BY <1>4, <2>2, ConcatProperties
      <3> QED BY <1>3, <1>4, <2>2, <3>1
    <2>5. DOMAIN (first \o seconds) = 1 .. Len(first \o seconds)
      BY <2>3, LenProperties
    <2> QED BY <1>5, <2>3, <2>4, <2>5 DEF first
  <1>7. /\ DOMAIN r.fns = N /\ r.data = m.data /\ r.casts = m.casts /\ r.next = new + 1
        /\ r.fns[new] = CloneAndAddArgument(m.fns[f], codes)
        /\ \A h \in D : r.fns[h] = IF h \in Range(parts)
                                   THEN ThunkFor(m.fns[h], m.fns[f].type, new, choice(h))
                                   ELSE m.fns[h]
    <2> DEFINE all(x) == <<x>> \o [k \in DOMAIN cs |-> cs[k].f2]
               merge(x) ==
                 [fns  |-> [h \in D \cup {new} |->
                     IF h = new
                     THEN CloneAndAddArgument(m.fns[x],
                            [c \in DOMAIN all(x) |->
                               [pos \in DOMAIN Code(m.fns[x]) |-> ChosenInst(m, cs, new, c - 1, pos)]])
                     ELSE IF h \in Range(all(x))
                     THEN ThunkFor(m.fns[h], m.fns[x].type, new,
                                   (CHOOSE c \in DOMAIN all(x) : all(x)[c] = h) - 1)
                     ELSE m.fns[h]],
                  data |-> m.data, casts |-> m.casts, uses |-> m.uses, next |-> new + 1]
    <2>1. r = merge(cs[1].f1)
      BY DEF OutlineAndMerge
    <2>2. r = merge(f)
      <3> HIDE DEF merge
      <3> QED BY <1>3, <2>1
    <2>3. r = [fns  |-> [h \in N |->
                 IF h = new THEN CloneAndAddArgument(m.fns[f], codes)
                 ELSE IF h \in Range(parts) THEN ThunkFor(m.fns[h], m.fns[f].type, new, choice(h))
                 ELSE m.fns[h]],
               data |-> m.data, casts |-> m.casts, uses |-> m.uses, next |-> new + 1]
      BY <2>2
    <2> HIDE DEF codes, parts, choice, new, D
    <2> QED BY <1>2, <2>3
  <1> HIDE DEF seconds
  <1>8. /\ F \in Seq(Instruction(D)) /\ DOMAIN F = 1 .. Len(F) /\ Len(F) \in Nat
        /\ \A pos \in DOMAIN F : F[pos] \in Instruction(D)
    BY <1>1, CodeProperties
  <1>9. ASSUME NEW k \in DOMAIN cs, NEW pos \in DOMAIN F
        PROVE  Code(m.fns[cs[k].f2])[pos] \in Instruction(D)
    <2> DEFINE g == m.fns[cs[k].f2]
    <2>1. IsFunction(g, D) /\ Len(Code(g)) = Len(F)
      BY <1>1, <1>3
    <2> HIDE DEF g, D, F
    <2>2. /\ DOMAIN Code(g) = 1 .. Len(Code(g)) /\ \A p \in DOMAIN Code(g) : Code(g)[p] \in Instruction(D)
      BY <2>1, CodeProperties
    <2>3. Code(g)[pos] \in Instruction(D)
      BY <1>8, <2>1, <2>2
    <2> QED BY <2>3 DEF g
  <1> HIDE DEF F
  <1>10. Instruction(D) \subseteq Instruction(N)
    BY DEF Instruction
  <1>11. ASSUME NEW c \in DOMAIN parts, NEW pos \in DOMAIN F
         PROVE  inst(c, pos) \in Instruction(N)
    <2> DEFINE own == [k \in DOMAIN cs |->
                         cs[k].differing \cup (IF Len(cs) > 1 THEN cs[k].selfRefs ELSE {})]
    <2>1. inst(c, pos) = InstFor(m, cs, new, c - 1, pos, own)
      BY DEF ChosenInst
    <2>2. c - 1 \in Nat /\ (c - 1 > 0 => c - 1 \in DOMAIN cs)
      BY <1>3, <1>6
    <2> HIDE DEF own, parts
    <2>3. cs[1].f1 = f
      BY <1>3
    <2>4. \/ inst(c, pos) = RecursiveCall(F[pos], new, c - 1)
          \/ c - 1 > 0 /\ inst(c, pos) = Code(m.fns[cs[c - 1].f2])[pos]
          \/ inst(c, pos) = F[pos]
      <3> DEFINE rewritten == Len(cs) = 1 /\ pos \in cs[1].selfRefs /\ CanRewrite(F[pos], cs[1])
      <3>1. inst(c, pos) =
              CASE rewritten -> RecursiveCall(F[pos], new, c - 1)
                [] ~ rewritten /\ c - 1 > 0 ->
                     IF pos \in own[c - 1] THEN Code(m.fns[cs[c - 1].f2])[pos] ELSE F[pos]
                [] OTHER -> F[pos]
        BY <2>1, <2>3 DEF InstFor, F
      <3> HIDE DEF rewritten, inst
      <3> QED BY <3>1
    <2>5. RecursiveCall(F[pos], new, c - 1) \in Instruction(N)
      BY <1>8, <2>2 DEF RecursiveCall, Instruction
    <2> HIDE DEF inst, D, N
    <2> QED BY <1>8, <1>9, <1>10, <2>2, <2>4, <2>5
  <1> HIDE DEF inst
  <1>12. /\ codes \in Seq(Seq(Instruction(N))) /\ codes # <<>>
         /\ \A c \in DOMAIN codes : codes[c] # <<>>
    <2> DEFINE code(c) == [pos \in DOMAIN F |-> inst(c, pos)]
    <2>1. ASSUME NEW c \in DOMAIN parts
          PROVE  code(c) \in Seq(Instruction(N)) /\ code(c) # <<>>
      <3> DEFINE t == code(c)
      <3>1. t \in [1 .. Len(F) -> Instruction(N)]
        BY <1>8, <1>11
      <3>2. Len(F) # 0
        BY <1>8, EmptySeq DEF F
      <3> HIDE DEF t, N
      <3>3. t \in Seq(Instruction(N)) /\ DOMAIN t = 1 .. Len(F) /\ 1 \in DOMAIN t
        BY <1>8, <3>1, <3>2
      <3>4. t # <<>>
        BY <3>3, EmptySeq
      <3> QED BY <3>3, <3>4 DEF t
    <2>2. codes = [c \in DOMAIN parts |-> code(c)]
      OBVIOUS
    <2> HIDE DEF code, codes, parts, N
    <2>3. codes \in [1 .. Len(cs) + 1 -> Seq(Instruction(N))] /\ Len(cs) + 1 \in Nat
      BY <1>3, <1>6, <2>1, <2>2
    <2>4. codes \in Seq(Seq(Instruction(N))) /\ \A c \in DOMAIN codes : codes[c] # <<>>
      BY <1>6, <2>1, <2>2, <2>3
    <2>5. 1 \in DOMAIN codes
      BY <1>3, <2>3
    <2> QED BY <2>4, <2>5, EmptySeq
  <1> HIDE DEF codes
  <1>13. IsFunction(r.fns[new], N)
    <2> DEFINE name == Append(m.fns[f].name, Merged)
    <2>1. IsFunction(m.fns[f], D)
      BY <1>1
    <2>2. /\ m.fns[f].name \in Seq(STRING) /\ m.fns[f].shape \in STRING
          /\ m.fns[f].type \in Seq(STRING) \ {<<>>} /\ m.fns[f].blocks \in Nat
      BY <2>1 DEF IsFunction
    <2>3. name \in Seq(STRING)
      BY <2>2, TextAssumption
    <2>4. r.fns[new] = [name |-> name, linkage |-> "internal", shape |-> m.fns[f].shape,
                         type |-> m.fns[f].type, blocks |-> m.fns[f].blocks, codes |-> codes]
      BY <1>7 DEF CloneAndAddArgument
    <2> HIDE DEF name, N, new
    <2> QED BY <1>12, <2>2, <2>3, <2>4 DEF IsFunction
  <1>14. ASSUME NEW h \in D PROVE IsFunction(r.fns[h], N) /\ r.fns[h].linkage = m.fns[h].linkage
    <2>1. IsFunction(m.fns[h], D) /\ D \subseteq N /\ new \in N
      BY <1>1
    <2>0. m.fns[f].type \in Seq(STRING)
      <3>1. IsFunction(m.fns[f], D)
        BY <1>1
      <3> QED BY <3>1 DEF IsFunction
    <2>2. CASE h \in Range(parts)
      <3>1. PICK c \in DOMAIN parts : parts[c] = h
        BY <2>2 DEF Range
      <3>2. (CHOOSE x \in DOMAIN parts : parts[x] = h) \in DOMAIN parts
        <4> HIDE DEF parts
        <4> QED BY <3>1
      <3>3. choice(h) \in Nat
        <4> HIDE DEF parts
        <4> QED BY <1>3, <1>6, <3>2
      <3> DEFINE way == choice(h)
                 old == m.fns[h]
                 type == m.fns[f].type
      <3> HIDE DEF choice, D, N, new, parts
      <3>4. r.fns[h] = ThunkFor(old, type, new, way)
        BY <1>7, <2>2
      <3>5. IsFunction(old, D) /\ way \in Nat /\ type \in Seq(STRING)
        BY <2>0, <2>1, <3>3
      <3> HIDE DEF way, old, type
      <3>6. /\ IsFunction(ThunkFor(old, type, new, way), N)
            /\ ThunkFor(old, type, new, way).linkage = old.linkage
        BY <2>1, <3>5, ThunkFunction
      <3> QED BY <3>4, <3>6 DEF old
    <2>3. CASE h \notin Range(parts)
      <3> HIDE DEF choice, D, N, new, parts
      <3> QED BY <1>7, <2>1, <2>3, FunctionMore
    <2> QED BY <2>2, <2>3
  <1>15. m.data \in Seq(N)
    <2>1. Range(m.data) \cap D \subseteq N
      OBVIOUS
    <2> HIDE DEF D, N
    <2> QED BY <1>1, <2>1, SeqWithin
  <1>16. IsModule(r)
    <2>1. \A h \in N : IsFunction(r.fns[h], N)
      BY <1>13, <1>14
    <2>2. N \subseteq 1 .. (new + 1) - 1 /\ new + 1 \in Nat
      BY <1>1
    <2>3. DOMAIN r.fns = N /\ r.data = m.data /\ r.casts = m.casts /\ r.next = new + 1
      BY <1>7
    <2>4. m.casts \subseteq N
      BY <1>1
    <2> HIDE DEF D, N, new, parts, choice
    <2> QED BY <1>15, <2>1, <2>2, <2>3, <2>4 DEF IsModule
  <1>17. \A h \in D \ ({f} \cup {c.f2 : c \in Range(cs)}) : r.fns[h] = m.fns[h]
    <2> HIDE DEF parts, choice
    <2> QED BY <1>6, <1>7
  <1> QED BY <1>7, <1>14, <1>16, <1>17

(* The list of similar functions has comparisons of the function.           *)
LEMMA SimilarProperties ==
  ASSUME Types, ComparisonsAreSound, NEW f
  PROVE  /\ SimilarTo(f) \in Seq(ComparisonType)
         /\ Range(SimilarTo(f)) \subseteq {c \in Range(comps) : c.f1 = f}
  <1> DEFINE I == {k \in DOMAIN comps : comps[k].f1 = f}
             place == [k \in DOMAIN comps |-> - k]
  <1>1. SimilarTo(f) = ByMetric(I, place)
    BY DEF SimilarTo
  <1>2. comps \in Seq(ComparisonType) /\ DOMAIN comps \subseteq Int
    BY LenProperties DEF Types
  <1>3. /\ \A k \in I : place[k] \in Int
        /\ \A j, k \in I : place[j] = place[k] => j = k
    BY <1>2
  <1>4. I \in SUBSET DOMAIN comps
    OBVIOUS
  <1>5. {comps[k] : k \in I} \subseteq {c \in Range(comps) : c.f1 = f}
    BY DEF Range
  <1> HIDE DEF I, place
  <1>6. /\ ByMetric(I, place) \in Seq(ComparisonType)
        /\ Range(ByMetric(I, place)) = {comps[k] : k \in I}
    BY <1>2, <1>3, <1>4, ByMetricProperties
  <1> QED BY <1>1, <1>5, <1>6

(* The functions merged are marked, and no others change.                   *)
LEMMA DiffMergeEffect ==
  ASSUME IInv, DiffMerge
  PROVE  \/ UNCHANGED <<mod, merged>>
         \/ /\ IsModule(mod') /\ mod'.next = mod.next + 1
            /\ DOMAIN mod'.fns = DOMAIN mod.fns \cup {mod.next}
            /\ \A h \in DOMAIN mod.fns : mod'.fns[h].linkage = mod.fns[h].linkage
            /\ \E fs \in SUBSET DOMAIN mod.fns :
                 /\ fs # {} /\ merged' = merged \cup fs
                 /\ \A h \in DOMAIN mod.fns \ fs : mod'.fns[h] = mod.fns[h]
                 /\ \A h \in fs : IsCandidate(h)
  <1> DEFINE f == comps[at].f1
             similar == SimilarTo(f)
             chosen == Chosen(similar)
             Open == {c \in Range(similar) : c.f2 \notin merged}
             fs == {f} \cup {c.f2 : c \in Range(chosen)}
             D == DOMAIN mod.fns
  <1>1. Types /\ ComparisonsAreSound /\ IsModule(mod) /\ comps \in Seq(ComparisonType)
    BY DEF IInv, Types
  <1>2. /\ at \in DOMAIN comps
        /\ IF {f, comps[at].f2} \cap merged # {} \/ chosen = <<>>
           THEN UNCHANGED <<mod, merged>>
           ELSE /\ mod' = OutlineAndMerge(mod, chosen)
                /\ merged' = merged \cup fs
    <2>1. merged' = merged \cup {f} \cup {c.f2 : c \in Range(chosen)}
          => merged' = merged \cup fs
      OBVIOUS
    <2> HIDE DEF fs
    <2> QED BY <2>1 DEF DiffMerge
  <1>3. comps[at] \in Range(comps)
    BY <1>2 DEF Range
  <1> SUFFICES ASSUME f \notin merged, chosen # <<>>,
                      mod' = OutlineAndMerge(mod, chosen), merged' = merged \cup fs
               PROVE  /\ IsModule(mod') /\ mod'.next = mod.next + 1
                      /\ DOMAIN mod'.fns = D \cup {mod.next}
                      /\ \A h \in D : mod'.fns[h].linkage = mod.fns[h].linkage
                      /\ \E gs \in SUBSET D :
                           /\ gs # {} /\ merged' = merged \cup gs
                           /\ \A h \in D \ gs : mod'.fns[h] = mod.fns[h]
                           /\ \A h \in gs : IsCandidate(h)
    <2> HIDE DEF f, chosen, fs, D
    <2> QED BY <1>2 DEF D
  <1>4. f \in D
    BY <1>1, <1>3 DEF ComparisonsAreSound
  <1> HIDE DEF f
  <1>5. /\ similar \in Seq(ComparisonType)
        /\ Range(similar) \subseteq {c \in Range(comps) : c.f1 = f}
    BY <1>1, SimilarProperties
  <1> HIDE DEF similar
  <1>6. chosen \in Seq(Open)
    BY <1>5, ChosenProperties
  <1> HIDE DEF chosen
  <1>7. ASSUME NEW c \in Open
        PROVE  /\ c.f1 = f /\ c.f2 \in D /\ IsCandidate(f) /\ IsCandidate(c.f2)
               /\ Len(Code(mod.fns[c.f2])) = Len(Code(mod.fns[f]))
    <2>1. c \in Range(comps) /\ c.f1 = f /\ c.f2 \notin merged
      BY <1>5
    <2>2. c.f2 \in D /\ IsCandidate(f) /\ IsCandidate(c.f2) /\ IsMergeable(mod, f, c.f2)
      BY <1>1, <2>1 DEF ComparisonsAreSound
    <2> QED BY <2>1, <2>2 DEF IsMergeable
  <1> HIDE DEF Open
  <1>8. Range(chosen) \subseteq Open /\ \E c \in Open : TRUE
    <2>1. Range(chosen) \subseteq Open /\ DOMAIN chosen = 1 .. Len(chosen)
          /\ Len(chosen) \in Nat /\ \A n \in DOMAIN chosen : chosen[n] \in Open
      BY <1>6, ItemsOfSeq
    <2>2. Len(chosen) # 0
      BY <1>6, EmptySeq
    <2>3. 1 \in DOMAIN chosen
      BY <2>1, <2>2
    <2> QED BY <2>1, <2>3
  <1>9. Code(mod.fns[f]) # <<>>
    <2>1. IsFunction(mod.fns[f], D)
      BY <1>1, <1>4 DEF IsModule
    <2>2. mod.fns[f].codes # <<>>
      BY <1>7, <1>8 DEF IsCandidate, IsComparisonCandidate
    <2> HIDE DEF D
    <2> QED BY <2>1, <2>2, CodeProperties
  <1>10. /\ IsModule(mod') /\ DOMAIN mod'.fns = D \cup {mod.next} /\ mod'.next = mod.next + 1
         /\ \A h \in D : mod'.fns[h].linkage = mod.fns[h].linkage
         /\ \A h \in D \ ({f} \cup {c.f2 : c \in Range(chosen)}) : mod'.fns[h] = mod.fns[h]
    <2>1. \E r : r = mod'
      OBVIOUS
    <2>2. PICK r : r = mod'
      BY <2>1
    <2>3. r = OutlineAndMerge(mod, chosen)
      BY <2>2
    <2>4. /\ IsModule(r) /\ DOMAIN r.fns = D \cup {mod.next} /\ r.next = mod.next + 1
          /\ \A h \in D : r.fns[h].linkage = mod.fns[h].linkage
          /\ \A h \in D \ ({f} \cup {c.f2 : c \in Range(chosen)}) : r.fns[h] = mod.fns[h]
      BY <1>1, <1>4, <1>6, <1>7, <1>9, <2>3, OutlinedModule
    <2> QED BY <2>2, <2>4
  <1>11. fs \in SUBSET D /\ fs # {} /\ \A h \in fs : IsCandidate(h)
    BY <1>4, <1>7, <1>8
  <1>12. \A h \in D \ fs : mod'.fns[h] = mod.fns[h]
    BY <1>10
  <1> HIDE DEF fs
  <1> QED BY <1>10, <1>11, <1>12

LEMMA DiffMergeKeeps ==
  ASSUME IInv, DiffMerge
  PROVE  IInv'
  <1>1. /\ phase = "diff" /\ at' = at + 1
        /\ UNCHANGED <<given, buckets, deferred, comps, phase>>
    BY DEF DiffMerge
  <1>2. /\ Types /\ GivenIsOlder /\ BucketsAreSound /\ ComparisonsAreSound /\ HashesAreKnown
        /\ StrongAreKnown /\ QueueIsEmpty /\ ComparedAreKnown /\ PassedAreSettled
    BY DEF IInv
  <1>3. HashesAreKnown' /\ QueueIsEmpty' /\ Registered' = Registered
    BY <1>1, <1>2 DEF HashesAreKnown, Merging, QueueIsEmpty, Registered
  <1>4. PassedAreSettled'
    <2>1. \A b \in DOMAIN buckets : Settled(b)' <=> Settled(b)
      BY <1>1 DEF Settled
    <2> QED BY <1>1, <1>2, <2>1 DEF PassedAreSettled
  <1>5. at' \in Nat \ {0}
    BY <1>1, <1>2 DEF Types
  <1>6. CASE UNCHANGED <<mod, merged>>
    <2>1. Types'
      BY <1>1, <1>2, <1>5, <1>6 DEF Types, Merging
    <2>2. BucketsAreSound' /\ ComparisonsAreSound'
      BY <1>1, <1>2, <1>6 DEF BucketsAreSound, ComparisonsAreSound, IsCandidate
    <2>3. ComparedAreKnown'
      BY <1>1, <1>2, <1>6, NothingForgotten
    <2>4. GivenIsOlder' /\ StrongAreKnown'
      BY <1>1, <1>2, <1>3, <1>6 DEF GivenIsOlder, StrongAreKnown, IsStrongCandidate
    <2> QED BY <1>3, <1>4, <2>1, <2>2, <2>3, <2>4 DEF IInv
  <1>7. ASSUME NEW fs \in SUBSET DOMAIN mod.fns,
               IsModule(mod'), mod'.next = mod.next + 1,
               DOMAIN mod'.fns = DOMAIN mod.fns \cup {mod.next},
               \A h \in DOMAIN mod.fns : mod'.fns[h].linkage = mod.fns[h].linkage,
               fs # {}, merged' = merged \cup fs,
               \A h \in DOMAIN mod.fns \ fs : mod'.fns[h] = mod.fns[h],
               \A h \in fs : IsCandidate(h)
        PROVE  IInv'
    <2>1. Types'
      <3>1. deferred \in Seq(1..mod.next - 1) /\ mod.next \in Nat /\ merged \subseteq DOMAIN mod.fns
        BY <1>2 DEF Types, IsModule
      <3>2. Range(deferred) \cap (1..mod.next - 1) \subseteq 1..mod'.next - 1
        BY <1>7, <3>1
      <3>3. deferred' \in Seq(1..mod'.next - 1)
        BY <1>1, <3>1, <3>2, SeqWithin
      <3> QED BY <1>1, <1>2, <1>5, <1>7, <3>1, <3>3 DEF Types, Merging
    <2>2. \A h \in DOMAIN mod.fns : h \notin fs => IsCandidate(h)' = IsCandidate(h)
      BY <1>7 DEF IsCandidate
    <2>3. BucketsAreSound'
      <3>1. \A a, b \in DOMAIN buckets' : buckets'[a].hash = buckets'[b].hash => a = b
        BY <1>1, <1>2 DEF BucketsAreSound
      <3>2. ASSUME NEW b \in DOMAIN buckets, NEW k \in DOMAIN buckets[b].fns, NEW g,
                   g = buckets[b].fns[k].f
            PROVE  /\ g \in DOMAIN mod'.fns /\ g \notin Range(deferred)
                   /\ \/ g \in merged'
                      \/ IsComparisonCandidate(mod'.fns[g]) /\ Hash(mod'.fns[g]) = buckets[b].hash
        <4>1. /\ g \in DOMAIN mod.fns /\ g \notin Range(deferred)
              /\ g \in merged \/ (IsCandidate(g) /\ Hash(mod.fns[g]) = buckets[b].hash)
          BY <1>2, <3>2 DEF BucketsAreSound
        <4>2. CASE g \in merged \cup fs
          BY <1>7, <4>1, <4>2
        <4>3. CASE g \notin merged \cup fs
          <5>1. mod'.fns[g] = mod.fns[g]
            BY <1>7, <4>1, <4>3
          <5> QED BY <1>7, <4>1, <4>3, <5>1 DEF IsCandidate
        <4> QED BY <4>2, <4>3
      <3>3. \A b \in DOMAIN buckets : \A j, k \in DOMAIN buckets[b].fns :
              buckets[b].fns[j].f = buckets[b].fns[k].f => j = k
        BY <1>2 DEF BucketsAreSound
      <3> QED BY <1>1, <3>1, <3>2, <3>3 DEF BucketsAreSound, IsCandidate
    <2>4. ComparisonsAreSound'
      <3>1. ASSUME NEW c \in Range(comps)
            PROVE  /\ c.f1 \in DOMAIN mod'.fns /\ c.f2 \in DOMAIN mod'.fns /\ c.f1 # c.f2
                   /\ c.count > 0 /\ c.differing \subseteq 1..c.count
                   /\ \/ c.f1 \in merged' \/ c.f2 \in merged'
                      \/ /\ IsComparisonCandidate(mod'.fns[c.f1])
                         /\ IsComparisonCandidate(mod'.fns[c.f2])
                         /\ IsMergeable(mod', c.f1, c.f2)
                         /\ c = Comparison(mod', c.f1, c.f2)
        <4>1. /\ c.f1 \in DOMAIN mod.fns /\ c.f2 \in DOMAIN mod.fns /\ c.f1 # c.f2
              /\ c.count > 0 /\ c.differing \subseteq 1..c.count
              /\ \/ c.f1 \in merged \/ c.f2 \in merged
                 \/ /\ IsCandidate(c.f1) /\ IsCandidate(c.f2)
                    /\ IsMergeable(mod, c.f1, c.f2)
                    /\ c = Comparison(mod, c.f1, c.f2)
          BY <1>2, <3>1 DEF ComparisonsAreSound
        <4>2. CASE c.f1 \in merged \cup fs \/ c.f2 \in merged \cup fs
          BY <1>7, <4>1, <4>2
        <4>3. CASE c.f1 \notin merged \cup fs /\ c.f2 \notin merged \cup fs
          <5>1. mod'.fns[c.f1] = mod.fns[c.f1] /\ mod'.fns[c.f2] = mod.fns[c.f2]
            BY <1>7, <4>1, <4>3
          <5>2. SameComparison(mod', mod, c.f1, c.f2)
            <6>1. PICK r : r = mod'
              OBVIOUS
            <6>2. SameComparison(r, mod, c.f1, c.f2)
              BY <5>1, <6>1, SameFunctions
            <6> QED BY <6>1, <6>2
          <5>3. /\ IsCandidate(c.f1) /\ IsCandidate(c.f2) /\ IsMergeable(mod, c.f1, c.f2)
                /\ c = Comparison(mod, c.f1, c.f2)
            BY <4>1, <4>3
          <5>4. IsMergeable(mod', c.f1, c.f2) /\ Comparison(mod', c.f1, c.f2) = c
            BY <5>2, <5>3 DEF SameComparison
          <5> QED BY <1>7, <4>1, <4>3, <5>1, <5>3, <5>4 DEF IsCandidate
        <4> QED BY <4>2, <4>3
      <3> QED BY <1>1, <3>1 DEF ComparisonsAreSound, IsCandidate
    <2>5. ComparedAreKnown'
      BY <1>7 DEF ComparedAreKnown
    <2>6. GivenIsOlder'
      <3>1. mod.next \in Nat /\ given.next \in Nat /\ given.next <= mod.next /\ IsModule(given)
        BY <1>2 DEF GivenIsOlder, IsModule, Types
      <3>2. given.next <= mod'.next
        BY <1>7, <3>1
      <3> QED BY <1>1, <3>1, <3>2 DEF GivenIsOlder
    (* What is merged is a thunk of the same linkage and was a candidate.   *)
    <2>7. StrongAreKnown'
      <3>1. mod.next \notin DOMAIN given.fns
        BY <1>2 DEF GivenIsOlder, IsModule, Types
      <3>2. ASSUME NEW h \in DOMAIN mod'.fns,
                   h \in DOMAIN given.fns, IsComparisonCandidate(mod'.fns[h]),
                   ~ IsInterposable(mod'.fns[h])
            PROVE  h \in Registered \cup Range(deferred)
        <4>1. h \in DOMAIN mod.fns
          BY <1>7, <3>1, <3>2
        <4>2. mod'.fns[h].linkage = mod.fns[h].linkage
          BY <1>7, <4>1
        <4>3. ~ IsInterposable(mod.fns[h])
          BY <3>2, <4>2 DEF IsInterposable
        <4>4. CASE h \in fs
          BY <1>2, <1>7, <3>2, <4>1, <4>3, <4>4 DEF StrongAreKnown, IsStrongCandidate, IsCandidate
        <4>5. CASE h \notin fs
          <5>1. mod'.fns[h] = mod.fns[h]
            BY <1>7, <4>1, <4>5
          <5> QED BY <1>2, <3>2, <4>1, <4>3, <5>1 DEF StrongAreKnown, IsStrongCandidate
        <4> QED BY <4>4, <4>5
      <3>3. \A h \in DOMAIN mod'.fns :
              h \in DOMAIN given.fns /\ IsComparisonCandidate(mod'.fns[h]) /\ ~ IsInterposable(mod'.fns[h])
                => h \in Registered \cup Range(deferred)
        BY <3>2
      <3> QED BY <1>1, <1>3, <3>3 DEF StrongAreKnown, IsStrongCandidate
    <2> QED BY <1>3, <1>4, <2>1, <2>3, <2>4, <2>5, <2>6, <2>7 DEF IInv
  <1>8. CASE UNCHANGED <<mod, merged>>
    BY <1>6, <1>8
  <1>9. CASE /\ IsModule(mod') /\ mod'.next = mod.next + 1
             /\ DOMAIN mod'.fns = DOMAIN mod.fns \cup {mod.next}
             /\ \A h \in DOMAIN mod.fns : mod'.fns[h].linkage = mod.fns[h].linkage
             /\ \E fs \in SUBSET DOMAIN mod.fns :
                  /\ fs # {} /\ merged' = merged \cup fs
                  /\ \A h \in DOMAIN mod.fns \ fs : mod'.fns[h] = mod.fns[h]
                  /\ \A h \in fs : IsCandidate(h)
    <2>1. PICK fs \in SUBSET DOMAIN mod.fns :
            /\ fs # {} /\ merged' = merged \cup fs
            /\ \A h \in DOMAIN mod.fns \ fs : mod'.fns[h] = mod.fns[h]
            /\ \A h \in fs : IsCandidate(h)
      BY <1>9
    <2> QED BY <1>7, <1>9, <2>1
  <1> QED BY <1>8, <1>9, DiffMergeEffect

-----------------------------------------------------------------------------
(***************************************************************************)
(* The theorems.                                                           *)
(***************************************************************************)
LEMMA InitIsSound ==
  ASSUME Init
  PROVE  IInv
  <1> DEFINE S == {f \in DOMAIN given.fns : IsComparisonCandidate(given.fns[f])}
  <1>1. /\ given \in Given /\ mod = given /\ buckets = <<>> /\ comps = <<>>
        /\ deferred = Ascending(S) /\ phase = "enqueue" /\ at = 1 /\ merged = {}
    BY DEF Init
  <1>2. IsModule(mod) /\ UsesAreListed(mod) /\ SingleCodes(mod)
    BY <1>1, SimilarAssumption DEF SingleCodes
  <1>3. mod.next \in Nat /\ S \subseteq 1..mod.next - 1
    BY <1>1, <1>2 DEF IsModule
  <1>4. deferred \in Seq(1..mod.next - 1) /\ Range(deferred) = S
    <2> HIDE DEF S
    <2>1. S \in SUBSET Nat
      BY <1>3
    <2>2. IsFiniteSet(S)
      <3>1. IsFiniteSet(1..mod.next - 1)
        BY <1>3, FS_Interval
      <3> QED BY <1>3, <3>1, FS_Subset
    <2>3. Ascending(S) \in Seq(S) /\ ToSet(Ascending(S)) = S
      BY <2>1, <2>2, AscendingProperties
    <2>4. Range(deferred) = S
      BY <1>1, <2>3 DEF ToSet, Range
    <2>5. Range(deferred) \cap S \subseteq 1..mod.next - 1
      BY <1>3
    <2> QED BY <1>1, <2>3, <2>4, <2>5, SeqWithin
  <1>5. \A s : s = <<>> => DOMAIN s = {} /\ Range(s) = {}
    BY DEF Range
  <1>6. buckets \in Seq(BucketType) /\ comps \in Seq(ComparisonType)
    BY <1>1
  <1>7. Types
    BY <1>1, <1>2, <1>4, <1>6 DEF Types
  <1>8. BucketsAreSound /\ ComparisonsAreSound /\ ComparedAreKnown /\ PassedAreSettled
    BY <1>1, <1>5 DEF BucketsAreSound, ComparisonsAreSound, ComparedAreKnown, PassedAreSettled
  <1>9. HashesAreKnown
    BY <1>1, <1>4 DEF HashesAreKnown, IsCandidate
  <1>10. GivenIsOlder
    BY <1>1, <1>2, <1>3 DEF GivenIsOlder
  <1>11. StrongAreKnown /\ QueueIsEmpty
    BY <1>1, <1>4 DEF StrongAreKnown, IsStrongCandidate, QueueIsEmpty
  <1> QED BY <1>7, <1>8, <1>9, <1>10, <1>11 DEF IInv

LEMMA StepIsSound ==
  ASSUME IInv, [Next]_vars
  PROVE  IInv'
  <1>1. CASE Enqueue
    BY <1>1, EnqueueKeeps
  <1>2. CASE MergeExact
    BY <1>2, MergeExactKeeps
  <1>3. CASE RecordCandidates
    BY <1>3, RecordCandidatesKeeps
  <1>4. CASE NextBucket
    BY <1>4, NextBucketKeeps
  <1>5. CASE DiffMerge
    BY <1>5, DiffMergeKeeps
  <1>6. CASE Return \/ Done \/ UNCHANGED vars
    BY <1>6, ReturnKeeps DEF Done
  <1> QED BY <1>1, <1>2, <1>3, <1>4, <1>5, <1>6 DEF Next

(* Whatever the module and the limits: while the registry is filled and     *)
(* emptied, buckets, queue and comparisons stay consistent with the module, *)
(* no strong candidate of the given module is lost, each of its candidates  *)
(* finds a bucket for its hash, and what was compared is known              *)
(* (runOnModule, MergeRegistry).                                           *)
THEOREM RegistryInvariant == Spec => []IInv
  <1>1. Init => IInv
    BY InitIsSound
  <1>2. IInv /\ [Next]_vars => IInv'
    BY StepIsSound
  <1> QED BY <1>1, <1>2, PTL DEF Spec

(* The module refers to functions that exist, its use lists are right until *)
(* similar functions are merged, and the buckets name functions that exist; *)
(* the queue names functions that exist or existed (MergeRegistry,          *)
(* replaceDirectCallers, outlineAndMergeFunctions).                         *)
THEOREM RegistryIsTyped == Spec => []TypeOK
  <1>1. IInv => TypeOK
    <2> SUFFICES ASSUME IInv PROVE TypeOK
      OBVIOUS
    <2>1. Types /\ BucketsAreSound
      BY DEF IInv
    <2>2. /\ IsModule(mod) /\ merged \subseteq DOMAIN mod.fns
          /\ DOMAIN mod.fns \subseteq 1..mod.next - 1
          /\ phase \in {"enqueue", "strong", "weak", "diff", "done"}
          /\ phase \in {"diff", "done"} \/ UsesAreListed(mod)
      BY <2>1 DEF Types, Merging, IsModule
    <2>3. Range(deferred) \subseteq 1..mod.next - 1
      BY <2>1, ItemsOfSeq DEF Types
    <2>4. ASSUME NEW b \in Range(buckets), NEW e \in Range(b.fns)
          PROVE  e.f \in DOMAIN mod.fns /\ e.state \in {"new", "compared"}
      <3>1. PICK i \in DOMAIN buckets : buckets[i] = b
        BY DEF Range
      <3>2. PICK k \in DOMAIN b.fns : b.fns[k] = e
        BY DEF Range
      <3>3. b.fns \in Seq(Entry)
        <4>1. b \in BucketType
          BY <2>1, <3>1, ItemsOfSeq DEF Types
        <4> QED BY <4>1 DEF BucketType
      <3>4. e \in Entry
        BY <3>2, <3>3, ItemsOfSeq
      <3>5. e.f \in DOMAIN mod.fns
        BY <2>1, <3>1, <3>2 DEF BucketsAreSound
      <3> QED BY <3>4, <3>5 DEF Entry, States
    <2> QED BY <2>2, <2>3, <2>4 DEF TypeOK
  <1> QED BY <1>1, RegistryInvariant, PTL

(* No function waits twice or in the wrong bucket, no strong candidate is   *)
(* lost, and a noted comparison is what comparing its functions would give  *)
(* now (MergeRegistry::remove).                                            *)
THEOREM RegistryStaysSound == Spec => []RegistryIsSound
  <1>1. IInv => RegistryIsSound
    <2> SUFFICES ASSUME IInv PROVE RegistryIsSound
      OBVIOUS
    <2>1. BucketsAreSound /\ ComparisonsAreSound /\ Types
      BY DEF IInv
    <2>2. \A a, b \in DOMAIN buckets : a # b => buckets[a].hash # buckets[b].hash
      BY <2>1 DEF BucketsAreSound
    <2>3. ASSUME NEW b \in Range(buckets)
          PROVE  /\ \A e \in Range(b.fns) :
                      /\ (IsComparisonCandidate(mod.fns[e.f]) \/ e.f \in merged)
                      /\ (Hash(mod.fns[e.f]) = b.hash \/ e.f \in merged)
                 /\ \A j, k \in DOMAIN b.fns : j # k => b.fns[j].f # b.fns[k].f
                 /\ \A e \in Range(b.fns) : e.f \notin Range(deferred)
      <3>1. PICK i \in DOMAIN buckets : buckets[i] = b
        BY DEF Range
      <3>2. \A j, k \in DOMAIN b.fns : j # k => b.fns[j].f # b.fns[k].f
        BY <2>1, <3>1 DEF BucketsAreSound
      <3>3. ASSUME NEW e \in Range(b.fns)
            PROVE  /\ (IsComparisonCandidate(mod.fns[e.f]) \/ e.f \in merged)
                   /\ (Hash(mod.fns[e.f]) = b.hash \/ e.f \in merged)
                   /\ e.f \notin Range(deferred)
        <4>1. PICK k \in DOMAIN b.fns : b.fns[k] = e
          BY DEF Range
        <4> QED BY <2>1, <3>1, <4>1 DEF BucketsAreSound, IsCandidate
      <3> QED BY <3>2, <3>3
    <2>4. ASSUME NEW c \in Range(comps)
          PROVE  \/ {c.f1, c.f2} \cap merged # {}
                 \/ /\ {c.f1, c.f2} \subseteq DOMAIN mod.fns
                    /\ c = Comparison(mod, c.f1, c.f2)
      BY <2>1 DEF ComparisonsAreSound
    <2>5. \A f \in DOMAIN mod.fns : IsStrongCandidate(f) => f \in Registered \cup Range(deferred)
      BY DEF IInv, StrongAreKnown
    <2> QED BY <2>2, <2>3, <2>4, <2>5 DEF RegistryIsSound
  <1> QED BY <1>1, RegistryInvariant, PTL

(* When similar functions start to be merged, every strong candidate is in  *)
(* a bucket, and no exact match of one bucket and no pair of similar        *)
(* functions was overlooked (runOnModule).                                 *)
THEOREM NothingWasMissed == Spec => []NothingIsMissed
  <1>1. IInv => NothingIsMissed
    <2> SUFFICES ASSUME IInv, phase = "diff", merged = {}
                 PROVE  /\ \A f \in DOMAIN mod.fns : IsStrongCandidate(f) => f \in Registered
                        /\ \A b \in Range(buckets) : \A j, k \in DOMAIN b.fns :
                             j < k => Known(b.fns[j].f, b.fns[k].f)
      BY DEF NothingIsMissed, Known, Noted
    <2>1. Types /\ StrongAreKnown /\ QueueIsEmpty /\ ComparedAreKnown /\ PassedAreSettled
      BY DEF IInv
    <2>2. Range(deferred) = {}
      BY <2>1 DEF QueueIsEmpty, Range
    <2>3. ASSUME NEW b \in Range(buckets), NEW j \in DOMAIN b.fns, NEW k \in DOMAIN b.fns, j < k
          PROVE  Known(b.fns[j].f, b.fns[k].f)
      <3>1. PICK i \in DOMAIN buckets : buckets[i] = b
        BY DEF Range
      <3>2. /\ DOMAIN b.fns = 1 .. Len(b.fns) /\ Len(b.fns) \in Nat
        <4>1. b \in BucketType
          BY <2>1, <3>1, ItemsOfSeq DEF Types
        <4>2. b.fns \in Seq(Entry)
          BY <4>1 DEF BucketType
        <4> QED BY <4>2, LenProperties
      <3>3. ~ (Len(b.fns) < 2)
        BY <2>3, <3>2
      <3>4. b.fns[j].state = "compared"
        BY <2>1, <3>1, <3>3 DEF PassedAreSettled, Settled
      <3> QED BY <2>1, <2>3, <3>1, <3>4 DEF ComparedAreKnown
    <2> QED BY <2>1, <2>2, <2>3 DEF StrongAreKnown
  <1> QED BY <1>1, RegistryInvariant, PTL

(* While the buckets are walked, none is added on behalf of a function the  *)
(* pass was given: the candidate a new bucket is for is a thunk             *)
(* (doExhaustiveCompareMerge, MergeRegistry::remove).                       *)
THEOREM NewBucketsAreForThunks == Spec => OnlyThunksAddBuckets
  <1> DEFINE ForThunks ==
               phase # "enqueue" =>
                 \A b \in DOMAIN buckets' \ DOMAIN buckets :
                   \E f \in DOMAIN mod.fns \ DOMAIN given.fns : Hash(mod.fns[f]) = buckets'[b].hash
  <1>1. IInv /\ [Next]_vars => [ForThunks]_vars
    <2> SUFFICES ASSUME IInv, Next, phase # "enqueue", NEW b \in DOMAIN buckets' \ DOMAIN buckets
                 PROVE  \E f \in DOMAIN mod.fns \ DOMAIN given.fns :
                          Hash(mod.fns[f]) = buckets'[b].hash
      OBVIOUS
    <2>1. CASE MergeExact
      <3>1. buckets'[b].hash \notin Hashes
        BY <2>1, MergeExactKeeps
      <3>2. PICK f \in DOMAIN mod.fns : IsCandidate(f) /\ Hash(mod.fns[f]) = buckets'[b].hash
        BY <2>1, MergeExactKeeps
      <3>3. Merging
        BY <2>1 DEF MergeExact, Processing, Merging
      <3>4. f \notin DOMAIN given.fns
        BY <3>1, <3>2, <3>3 DEF IInv, HashesAreKnown
      <3> QED BY <3>2, <3>4
    <2>2. CASE RecordCandidates \/ NextBucket \/ DiffMerge \/ Return \/ Done
      <3>1. DOMAIN buckets' = DOMAIN buckets
        BY <2>2 DEF RecordCandidates, NextBucket, DiffMerge, Return, Done, vars
      <3> QED BY <3>1
    <2> QED BY <2>1, <2>2 DEF Next, Enqueue
  <1> HIDE DEF ForThunks
  <1>2. Spec => [][ForThunks]_vars
    BY <1>1, RegistryInvariant, PTL DEF Spec
  <1> QED BY <1>2 DEF OnlyThunksAddBuckets, ForThunks

=============================================================================
