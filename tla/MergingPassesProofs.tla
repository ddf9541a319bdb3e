------------------------ MODULE MergingPassesProofs ------------------------
(***************************************************************************)
(* Proofs about the passes that merge functions.  The first half says what *)
(* each operation on a module does to the functions that are there, their  *)
(* names, and what they call and take the address of; the second half is   *)
(* about the passes.                                                       *)
(***************************************************************************)
EXTENDS MergingPasses, CommonLemmas, ParameterLayoutProofs

(***************************************************************************)
(* Functions and modules, as far as the proofs look at them.               *)
(***************************************************************************)
IsSequence(s) == s \in Seq(Range(s))

IsSite(s) == DOMAIN s = {"callee", "args", "was", "wasArgs"}
IsRef(r) == DOMAIN r = {"is", "was"}

IsPath(p) ==
  /\ DOMAIN p = {"tests", "source", "env", "sites", "refs"}
  /\ \A s \in p.sites : IsSite(s)
  /\ \A r \in p.refs : IsRef(r)

IsFunction(f) ==
  /\ DOMAIN f = {"name", "linkage", "sig", "ret", "pers", "body"}
  /\ IsSequence(f.name)
  /\ \A p \in f.body : IsPath(p)

(* What a body calls and takes the address of. *)
Calls(body) == UNION {{s.callee : s \in p.sites} : p \in body}
Takes(body) == UNION {{r.is : r \in p.refs} : p \in body}

(* It has code of the original module. *)
HasCode(body) == \E p \in body : p.source # None

TakenByData(m) == {r.is : r \in m.globals}

WellFormed(m) ==
  /\ DOMAIN m = {"fns", "globals", "next"}
  /\ m.next \in Nat \ {0} /\ DOMAIN m.fns \subseteq 1 .. m.next - 1
  /\ \A f \in DOMAIN m.fns : IsFunction(m.fns[f])
  /\ \A r \in m.globals : IsRef(r)
  /\ Used(m) \subseteq 1 .. m.next - 1

Called(m) == UNION {Calls(m.fns[f].body) : f \in DOMAIN m.fns}
Taken(m) == TakenByData(m) \cup UNION {Takes(m.fns[f].body) : f \in DOMAIN m.fns}

(* Membership in what a module calls and refers to. *)
LEMMA UsesAre ==
  ASSUME NEW m
  PROVE  /\ \A s : s \in Sites(m) <=> \E f \in DOMAIN m.fns : \E p \in m.fns[f].body : s \in p.sites
         /\ \A r : r \in Refs(m) <=> \/ r \in m.globals
                                   \/ \E f \in DOMAIN m.fns : \E p \in m.fns[f].body : r \in p.refs
         /\ \A body, x : x \in Calls(body) <=> \E p \in body : \E s \in p.sites : x = s.callee
         /\ \A body, x : x \in Takes(body) <=> \E p \in body : \E r \in p.refs : x = r.is
         /\ \A x : x \in Called(m) <=> \E f \in DOMAIN m.fns : x \in Calls(m.fns[f].body)
         /\ \A x : x \in Taken(m) <=> \/ \E r \in m.globals : x = r.is
                                   \/ \E f \in DOMAIN m.fns : x \in Takes(m.fns[f].body)
  <1> DEFINE P == UNION {m.fns[f].body : f \in DOMAIN m.fns}
  <1>1. \A p : p \in P <=> \E f \in DOMAIN m.fns : p \in m.fns[f].body
    BY Zenon
  <1>2. /\ Sites(m) = UNION {p.sites : p \in P}
        /\ Refs(m) = m.globals \cup UNION {p.refs : p \in P}
    BY DEF Sites, Refs
  <1> HIDE DEF P
  <1>3. \A s : s \in Sites(m) <=> \E p \in P : s \in p.sites
    BY <1>2, Zenon
  <1>4. \A r : r \in Refs(m) <=> r \in m.globals \/ \E p \in P : r \in p.refs
    BY <1>2, Zenon
  <1>5. \A body, x : x \in Calls(body) <=> \E p \in body : \E s \in p.sites : x = s.callee
    <2>1. ASSUME NEW body, NEW x
          PROVE  x \in Calls(body) <=> \E p \in body : \E s \in p.sites : x = s.callee
      BY DEF Calls
    <2>2. QED BY <2>1
  <1>6. \A body, x : x \in Takes(body) <=> \E p \in body : \E r \in p.refs : x = r.is
    <2>1. ASSUME NEW body, NEW x
          PROVE  x \in Takes(body) <=> \E p \in body : \E r \in p.refs : x = r.is
      BY DEF Takes
    <2>2. QED BY <2>1
  <1>7. \A x : x \in Called(m) <=> \E f \in DOMAIN m.fns : x \in Calls(m.fns[f].body)
    BY Zenon DEF Called
  <1>8. \A x : x \in Taken(m) <=> \/ \E r \in m.globals : x = r.is
                                \/ \E f \in DOMAIN m.fns : x \in Takes(m.fns[f].body)
    BY Zenon DEF Taken, TakenByData
  <1>9. \A s : s \in Sites(m) <=> \E f \in DOMAIN m.fns : \E p \in m.fns[f].body : s \in p.sites
    BY <1>1, <1>3, Zenon
  <1>10. \A r : r \in Refs(m) <=> \/ r \in m.globals
                                \/ \E f \in DOMAIN m.fns : \E p \in m.fns[f].body : r \in p.refs
    BY <1>1, <1>4, Zenon
  <1>11. QED BY <1>5, <1>6, <1>7, <1>8, <1>9, <1>10

LEMMA UsesOfModule ==
  ASSUME NEW m
  PROVE  /\ Used(m) = Called(m) \cup Taken(m)
         /\ Called(m) = {s.callee : s \in Sites(m)}
         /\ Taken(m) = {r.is : r \in Refs(m)}
         /\ \A f : HasAddressTaken(m, f) <=> f \in Taken(m)
         /\ \A f : Unused(m, f) <=> f \notin Used(m)
  <1>1. Called(m) = {s.callee : s \in Sites(m)}
    <2>1. \A x : x \in Called(m) <=> \E s \in Sites(m) : x = s.callee
      BY UsesAre
    <2>2. QED BY <2>1, Zenon
  <1>2. Taken(m) = {r.is : r \in Refs(m)}
    <2>1. \A x : x \in Taken(m) <=> \E r \in Refs(m) : x = r.is
      BY UsesAre
    <2>2. QED BY <2>1, Zenon
  <1>3. Used(m) = Called(m) \cup Taken(m)
    BY <1>1, <1>2, Zenon DEF Used
  <1>4. \A f : HasAddressTaken(m, f) <=> f \in Taken(m)
    BY <1>2, Zenon DEF HasAddressTaken
  <1>5. \A f : Unused(m, f) <=> f \notin Used(m)
    BY <1>1, <1>3, <1>4, Zenon DEF Unused
  <1>6. QED BY <1>1, <1>2, <1>3, <1>4, <1>5

(* The modules a job is given are well-formed. *)
LEMMA GivenModules ==
  ASSUME NEW m, IsModule(m)
  PROVE  WellFormed(m)
  <1>1. ASSUME NEW f \in DOMAIN m.fns PROVE IsFunction(m.fns[f])
    <2>1. m.fns[f] \in FunctionRecord
      BY DEF IsModule
    <2>2. ASSUME NEW p \in m.fns[f].body PROVE IsPath(p)
      <3>1. p \in Path
        BY <2>1 DEF FunctionRecord
      <3>2. QED BY <3>1 DEF Path, IsPath, Site, Ref, IsSite, IsRef
    <2>3. IsSequence(m.fns[f].name)
      <3>1. m.fns[f].name \in Seq(STRING)
        BY <2>1 DEF FunctionRecord
      <3>2. QED BY <3>1 DEF IsSequence, Range
    <2>4. QED BY <2>1, <2>2, <2>3 DEF IsFunction, FunctionRecord
  <1>2. \A r \in m.globals : IsRef(r)
    BY DEF IsModule, Ref, IsRef
  <1>3. Used(m) \subseteq 1 .. m.next - 1
    BY DEF IsModule
  <1>4. QED BY <1>1, <1>2, <1>3 DEF IsModule, WellFormed

-----------------------------------------------------------------------------
(***************************************************************************)
(* Operations on modules.                                                  *)
(***************************************************************************)
(* The module n is m without the functions F. *)
IsWithout(n, m, F) ==
  /\ WellFormed(n)
  /\ n.next = m.next /\ n.globals = m.globals
  /\ DOMAIN n.fns = DOMAIN m.fns \ F
  /\ \A f \in DOMAIN m.fns \ F : n.fns[f] = m.fns[f]
  /\ Called(n) \subseteq Called(m) /\ Taken(n) \subseteq Taken(m)

LEMMA EraseProperties ==
  ASSUME NEW m, WellFormed(m), NEW F
  PROVE  IsWithout(Erase(m, F), m, F)
  <1> DEFINE n == Erase(m, F)
  <1>1. /\ n.next = m.next /\ n.globals = m.globals
        /\ n.fns = [f \in DOMAIN m.fns \ F |-> m.fns[f]]
        /\ DOMAIN n = {"fns", "globals", "next"}
    BY DEF Erase, WellFormed, RestrictDomain, Restrict
  <1> HIDE DEF n
  <1>2. DOMAIN n.fns = DOMAIN m.fns \ F /\ \A f \in DOMAIN m.fns \ F : n.fns[f] = m.fns[f]
    BY <1>1
  <1>3. Called(n) \subseteq Called(m)
    <2>1. ASSUME NEW x \in Called(n) PROVE x \in Called(m)
      <3>1. PICK f \in DOMAIN n.fns : x \in Calls(n.fns[f].body)
        BY UsesAre
      <3>2. QED BY <1>2, <3>1, UsesAre
    <2>2. QED BY <2>1
  <1>4. Taken(n) \subseteq Taken(m)
    <2>1. ASSUME NEW x \in Taken(n) PROVE x \in Taken(m)
      <3>1. CASE \E r \in n.globals : x = r.is
        BY <1>1, <3>1, UsesAre
      <3>2. CASE \E f \in DOMAIN n.fns : x \in Takes(n.fns[f].body)
        <4>1. PICK f \in DOMAIN n.fns : x \in Takes(n.fns[f].body)
          BY <3>2
        <4>2. QED BY <1>2, <4>1, UsesAre
      <3>3. QED BY <2>1, <3>1, <3>2, UsesAre
    <2>2. QED BY <2>1
  <1>5. Used(n) \subseteq Used(m)
    BY <1>3, <1>4, UsesOfModule
  <1>6. WellFormed(n)
    BY <1>1, <1>2, <1>5 DEF WellFormed
  <1>7. QED BY <1>1, <1>2, <1>3, <1>4, <1>6 DEF IsWithout, n

(* The module n is m with function f. *)
HasFunction(n, m, f) ==
  /\ WellFormed(n)
  /\ n.next = m.next + 1 /\ n.globals = m.globals
  /\ DOMAIN n.fns = DOMAIN m.fns \cup {m.next}
  /\ n.fns[m.next] = f
  /\ \A g \in DOMAIN m.fns : n.fns[g] = m.fns[g] /\ g # m.next
  /\ Called(n) = Called(m) \cup Calls(f.body)
  /\ Taken(n) = Taken(m) \cup Takes(f.body)

LEMMA AddFunctionProperties ==
  ASSUME NEW m, WellFormed(m), NEW f, IsFunction(f),
         Calls(f.body) \subseteq 1 .. m.next, Takes(f.body) \subseteq 1 .. m.next
  PROVE  HasFunction(AddFunction(m, f), m, f)
  <1> DEFINE n == AddFunction(m, f)
  <1>1. /\ n.next = m.next + 1 /\ n.globals = m.globals
        /\ n.fns = [g \in DOMAIN m.fns \cup {m.next} |-> IF g = m.next THEN f ELSE m.fns[g]]
        /\ DOMAIN n = {"fns", "globals", "next"}
    BY DEF AddFunction, WellFormed
  <1>2. \A g \in DOMAIN m.fns : g # m.next
    BY DEF WellFormed
  <1> HIDE DEF n
  <1>3. /\ DOMAIN n.fns = DOMAIN m.fns \cup {m.next}
        /\ n.fns[m.next] = f
        /\ \A g \in DOMAIN m.fns : n.fns[g] = m.fns[g]
    BY <1>1, <1>2
  <1>4. Called(n) = Called(m) \cup Calls(f.body)
    <2>1. \A x : x \in Called(n) <=> x \in Called(m) \/ x \in Calls(f.body)
      BY <1>3, UsesAre
    <2>2. QED BY <2>1
  <1>5. Taken(n) = Taken(m) \cup Takes(f.body)
    <2>1. \A x : x \in TakenByData(n) <=> x \in TakenByData(m)
      BY <1>1 DEF TakenByData
    <2>2. \A x : (\E g \in DOMAIN n.fns : x \in Takes(n.fns[g].body))
                  <=> x \in Takes(f.body) \/ \E g \in DOMAIN m.fns : x \in Takes(m.fns[g].body)
      BY <1>3
    <2>3. \A x : x \in Taken(n) <=> x \in Taken(m) \/ x \in Takes(f.body)
      BY <2>1, <2>2, Zenon DEF Taken
    <2>4. QED BY <2>3
  <1>6. Used(n) \subseteq 1 .. n.next - 1
    <2>1. Used(m) \subseteq 1 .. m.next - 1 /\ m.next \in Nat
      BY DEF WellFormed
    <2>2. Called(m) \subseteq 1 .. m.next /\ Taken(m) \subseteq 1 .. m.next
      BY <2>1, UsesOfModule
    <2>3. Used(n) \subseteq 1 .. m.next
      BY <1>4, <1>5, <2>2, UsesOfModule
    <2>4. QED BY <1>1, <2>1, <2>3
  <1>7. WellFormed(n)
    <2>1. n.next \in Nat \ {0} /\ DOMAIN n.fns \subseteq 1 .. n.next - 1
      BY <1>1, <1>3 DEF WellFormed
    <2>3. \A g \in DOMAIN n.fns : IsFunction(n.fns[g])
      BY <1>3 DEF WellFormed
    <2>4. \A r \in n.globals : IsRef(r)
      BY <1>1 DEF WellFormed
    <2>5. QED BY <1>1, <1>6, <2>1, <2>3, <2>4 DEF WellFormed
  <1>8. QED BY <1>1, <1>2, <1>3, <1>4, <1>5, <1>7 DEF HasFunction, n

(* The function is the same but for what it calls and takes. *)
IsAlike(g, f) ==
  /\ g.linkage = f.linkage /\ g.sig = f.sig
  /\ IsDeclaration(g) <=> IsDeclaration(f)
  /\ HasCode(g.body) <=> HasCode(f.body)

IsLike(g, f) == g.name = f.name /\ IsAlike(g, f)

(* The uses of functions in m are rewritten. *)
IsRewritten(n, m, site, ref) ==
  /\ WellFormed(n)
  /\ n.next = m.next
  /\ DOMAIN n.fns = DOMAIN m.fns
  /\ \A f \in DOMAIN m.fns : IsLike(n.fns[f], m.fns[f])
  /\ Called(n) = {site[s].callee : s \in Sites(m)}
  /\ Taken(n) = {ref[r].is : r \in Refs(m)}

LEMMA MapUsesProperties ==
  ASSUME NEW m, WellFormed(m), NEW site, NEW ref,
         \A s \in Sites(m) : IsSite(site[s]),
         \A r \in Refs(m) : IsRef(ref[r]),
         \A s \in Sites(m) : site[s].callee \in 1 .. m.next - 1,
         \A r \in Refs(m) : ref[r].is \in 1 .. m.next - 1
  PROVE  IsRewritten(MapUses(m, site, ref), m, site, ref)
  <1> DEFINE n == MapUses(m, site, ref)
             path(p) == [p EXCEPT !.sites = {site[s] : s \in @}, !.refs = {ref[r] : r \in @}]
             body(f) == {path(p) : p \in m.fns[f].body}
  <1>1. /\ n.next = m.next
        /\ n.globals = {ref[r] : r \in m.globals}
        /\ n.fns = [f \in DOMAIN m.fns |-> [m.fns[f] EXCEPT !.body = body(f)]]
        /\ DOMAIN n = {"fns", "globals", "next"}
    BY DEF MapUses, WellFormed
  <1>2. \A f \in DOMAIN m.fns : \A p \in m.fns[f].body : IsPath(p)
    BY DEF WellFormed, IsFunction
  <1>3. ASSUME NEW f \in DOMAIN m.fns, NEW p \in m.fns[f].body
        PROVE  /\ path(p).tests = p.tests /\ path(p).source = p.source /\ path(p).env = p.env
               /\ path(p).sites = {site[s] : s \in p.sites}
               /\ path(p).refs = {ref[r] : r \in p.refs}
               /\ IsPath(path(p))
    <2>1. /\ path(p).tests = p.tests /\ path(p).source = p.source /\ path(p).env = p.env
          /\ path(p).sites = {site[s] : s \in p.sites}
          /\ path(p).refs = {ref[r] : r \in p.refs}
          /\ DOMAIN path(p) = {"tests", "source", "env", "sites", "refs"}
      BY <1>2 DEF IsPath
    <2>2. p.sites \subseteq Sites(m) /\ p.refs \subseteq Refs(m)
      BY UsesAre
    <2> HIDE DEF path
    <2>3. \A s \in path(p).sites : IsSite(s)
      BY <2>1, <2>2
    <2>4. \A r \in path(p).refs : IsRef(r)
      BY <2>1, <2>2
    <2>5. QED BY <2>1, <2>3, <2>4 DEF IsPath
  <1> HIDE DEF n, path
  <1>4. ASSUME NEW f \in DOMAIN m.fns
        PROVE  /\ IsFunction(n.fns[f])
               /\ n.fns[f].body = body(f)
               /\ IsLike(n.fns[f], m.fns[f])
    <2>1. IsFunction(m.fns[f])
      BY DEF WellFormed
    <2> DEFINE g == n.fns[f]
    <2>2. g = [m.fns[f] EXCEPT !.body = body(f)]
      BY <1>1
    <2>3. /\ g.name = m.fns[f].name /\ g.linkage = m.fns[f].linkage /\ g.sig = m.fns[f].sig
          /\ g.body = body(f)
          /\ DOMAIN g = {"name", "linkage", "sig", "ret", "pers", "body"}
      BY <2>1, <2>2 DEF IsFunction
    <2> HIDE DEF g
    <2>4. \A p \in body(f) : IsPath(p)
      BY <1>3
    <2>5. body(f) = {} <=> m.fns[f].body = {}
      OBVIOUS
    <2>6. HasCode(body(f)) <=> HasCode(m.fns[f].body)
      BY <1>3 DEF HasCode
    <2>7. QED BY <2>1, <2>3, <2>4, <2>5, <2>6 DEF IsFunction, IsLike, IsAlike, IsDeclaration, g
  <1>5. Called(n) = {site[s].callee : s \in Sites(m)}
    <2>1. ASSUME NEW x \in Called(n) PROVE \E s \in Sites(m) : x = site[s].callee
      <3>1. PICK f \in DOMAIN m.fns : x \in Calls(n.fns[f].body)
        BY <1>1, UsesAre
      <3>2. PICK p \in m.fns[f].body : \E t \in path(p).sites : x = t.callee
        BY <1>4, <3>1, UsesAre
      <3>3. PICK s \in p.sites : x = site[s].callee
        BY <1>3, <3>2
      <3>4. QED BY <3>3, UsesAre
    <2>2. ASSUME NEW s \in Sites(m) PROVE site[s].callee \in Called(n)
      <3>1. PICK f \in DOMAIN m.fns : \E p \in m.fns[f].body : s \in p.sites
        BY UsesAre
      <3>4. PICK p \in m.fns[f].body : s \in p.sites
        BY <3>1
      <3>2. path(p) \in n.fns[f].body /\ site[s] \in path(p).sites
        BY <1>3, <1>4, <3>4
      <3>3. QED BY <1>1, <3>4, <3>2, UsesAre
    <2>3. QED BY <2>1, <2>2
  <1>6. Taken(n) = {ref[r].is : r \in Refs(m)}
    <2>1. ASSUME NEW x \in Taken(n) PROVE \E r \in Refs(m) : x = ref[r].is
      <3>1. CASE \E r \in n.globals : x = r.is
        BY <1>1, <3>1, UsesAre
      <3>2. CASE \E f \in DOMAIN n.fns : x \in Takes(n.fns[f].body)
        <4>1. PICK f \in DOMAIN m.fns : x \in Takes(n.fns[f].body)
          BY <1>1, <3>2
        <4>2. PICK p \in m.fns[f].body : \E t \in path(p).refs : x = t.is
          BY <1>4, <4>1, UsesAre
        <4>3. PICK r \in p.refs : x = ref[r].is
          BY <1>3, <4>2
        <4>4. QED BY <4>3, UsesAre
      <3>3. QED BY <2>1, <3>1, <3>2, UsesAre
    <2>2. ASSUME NEW r \in Refs(m) PROVE ref[r].is \in Taken(n)
      <3>1. CASE r \in m.globals
        BY <1>1, <3>1, UsesAre
      <3>2. CASE \E f \in DOMAIN m.fns : \E p \in m.fns[f].body : r \in p.refs
        <4>1. PICK f \in DOMAIN m.fns : \E p \in m.fns[f].body : r \in p.refs
          BY <3>2
        <4>4. PICK p \in m.fns[f].body : r \in p.refs
          BY <4>1
        <4>2. path(p) \in n.fns[f].body /\ ref[r] \in path(p).refs
          BY <1>3, <1>4, <4>4
        <4>3. QED BY <1>1, <4>4, <4>2, UsesAre
      <3>3. QED BY <2>2, <3>1, <3>2, UsesAre
    <2>3. QED BY <2>1, <2>2
  <1>7. WellFormed(n)
    <2>1. \A r \in n.globals : IsRef(r)
      BY <1>1, UsesAre
    <2>2. Used(n) \subseteq 1 .. n.next - 1
      BY <1>1, <1>5, <1>6, UsesOfModule
    <2>3. DOMAIN n.fns = DOMAIN m.fns
      BY <1>1
    <2>4. n.next \in Nat \ {0} /\ DOMAIN n.fns \subseteq 1 .. n.next - 1
      BY <1>1, <2>3 DEF WellFormed
    <2>5. QED BY <1>1, <1>4, <2>1, <2>2, <2>3, <2>4 DEF WellFormed
  <1>8. QED BY <1>1, <1>4, <1>5, <1>6, <1>7 DEF IsRewritten, n

-----------------------------------------------------------------------------
(***************************************************************************)
(* Names and merged functions.                                             *)
(***************************************************************************)
LEMMA PrefixIsFirst ==
  ASSUME NEW a, NEW t, IsSequence(t)
  PROVE  IsPrefix(<<a>>, t) <=> t # <<>> /\ t[1] = a
  <1>1. t \in Seq(Range(t)) /\ Len(t) \in Nat
    BY DEF IsSequence
  <1>6. ASSUME NEW S, NEW u \in Seq(S), u # <<>> PROVE SubSeq(u, 1, 1) = <<u[1]>>
    <2>1. u[1] \in S
      BY <1>6
    <2>2. /\ SubSeq(u, 1, 1) \in Seq(S) /\ Len(SubSeq(u, 1, 1)) = 1
          /\ SubSeq(u, 1, 1)[1] = u[1]
      BY <2>1, SubSeqProperties
    <2>3. <<u[1]>> \in Seq(S) /\ Len(<<u[1]>>) = 1 /\ <<u[1]>>[1] = u[1]
      BY <2>1
    <2>4. \A i \in 1 .. 1 : SubSeq(u, 1, 1)[i] = <<u[1]>>[i]
      BY <2>2, <2>3
    <2>5. QED BY <2>2, <2>3, <2>4, SeqEqual
  <1>2. Len(<<a>>) = 1 /\ SubSeq(<<a>>, 1, 1) = <<a>>
    <2>1. <<a>> \in Seq({a}) /\ <<a>> # <<>> /\ <<a>>[1] = a
      OBVIOUS
    <2>2. QED BY <1>6, <2>1
  <1>3. CASE t = <<>>
    BY <1>2, <1>3 DEF IsPrefix
  <1>4. CASE t # <<>>
    <2>1. Len(t) >= 1 /\ SubSeq(t, 1, 1) = <<t[1]>>
      BY <1>1, <1>4, <1>6
    <2>2. QED BY <1>2, <1>4, <2>1 DEF IsPrefix
  <1>5. QED BY <1>3, <1>4

LEMMA SequencesOf ==
  ASSUME NEW E, NEW s \in Seq(E)
  PROVE  IsSequence(s)
  BY DEF IsSequence, Range

(* A name with a suffix begins as it did. *)
LEMMA UniqueNames ==
  ASSUME NEW m, NEW name, IsSequence(name)
  PROVE  /\ IsSequence(UniqueName(m, name))
         /\ name # <<>> => UniqueName(m, name) # <<>> /\ UniqueName(m, name)[1] = name[1]
         /\ name = <<>> => UniqueName(m, name) = <<>>
  <1>1. CASE UniqueName(m, name) = name
    BY <1>1
  <1>2. CASE UniqueName(m, name) # name
    <2>1. PICK x : UniqueName(m, name) = Append(name, x) /\ name # <<>>
      BY <1>2, Zenon DEF UniqueName
    <2> DEFINE E == Range(name) \cup {x}
    <2>2. name \in Seq(E)
      BY DEF IsSequence
    <2>3. x \in E
      OBVIOUS
    <2> HIDE DEF E
    <2>4. /\ Append(name, x) \in Seq(E) /\ Append(name, x) # <<>>
          /\ Append(name, x)[1] = name[1]
      BY <2>1, <2>2, <2>3
    <2>5. QED BY <2>1, <2>4, SequencesOf
  <1>3. QED BY <1>1, <1>2

(* Of two calls that become one, no address has to be selected. *)
LEMMA NothingIsSelected ==
  ASSUME NEW bodies
  PROVE  SelectedCallees(bodies) = {}
  BY DEF SelectedCallees, MatchCalls

(* Merging paths changes arguments, and nothing else the proofs look at. *)
LEMMA MergedPaths ==
  ASSUME NEW p, IsPath(p), NEW id, NEW row
  PROVE  LET q == MergedPath(p, id, row) IN
         /\ IsPath(q) /\ q.source = p.source /\ q.refs = p.refs
         /\ {s.callee : s \in q.sites} = {s.callee : s \in p.sites}
  <1> DEFINE q == MergedPath(p, id, row)
             value(v) == IF v[1] = "arg" THEN Arg(row[v[2]]) ELSE v
             values(vs) == [k \in DOMAIN vs |-> value(vs[k])]
             site(s) == [s EXCEPT !.args = values(@), !.wasArgs = values(@)]
  <1>1. /\ q.source = p.source /\ q.refs = p.refs /\ q.sites = {site(s) : s \in p.sites}
        /\ DOMAIN q = {"tests", "source", "env", "sites", "refs"}
    BY DEF MergedPath
  <1> HIDE DEF q
  <1>2. ASSUME NEW s \in p.sites PROVE IsSite(site(s)) /\ site(s).callee = s.callee
    <2>1. DOMAIN s = {"callee", "args", "was", "wasArgs"}
      BY DEF IsPath, IsSite
    <2> HIDE DEF values
    <2>2. QED BY <2>1 DEF IsSite
  <1> HIDE DEF site
  <1>3. \A s \in q.sites : IsSite(s)
    BY <1>1, <1>2
  <1>4. {s.callee : s \in q.sites} = {s.callee : s \in p.sites}
    <2>1. \A x : (\E s \in q.sites : x = s.callee) <=> \E s \in p.sites : x = s.callee
      <3>1. ASSUME NEW x, NEW s \in p.sites, x = s.callee PROVE \E t \in q.sites : x = t.callee
        <4>1. site(s) \in q.sites
          BY <1>1
        <4>2. QED BY <1>2, <3>1, <4>1
      <3>2. ASSUME NEW x, NEW t \in q.sites, x = t.callee PROVE \E s \in p.sites : x = s.callee
        <4>1. PICK s \in p.sites : t = site(s)
          BY <1>1
        <4>2. QED BY <1>2, <3>2, <4>1
      <3>3. QED BY <3>1, <3>2
    <2> DEFINE A == {s.callee : s \in q.sites}
               B == {s.callee : s \in p.sites}
    <2>2. \A x : x \in A <=> \E s \in q.sites : x = s.callee
      BY Zenon
    <2>3. \A x : x \in B <=> \E s \in p.sites : x = s.callee
      BY Zenon
    <2> HIDE DEF A, B
    <2>4. A = B
      BY <2>1, <2>2, <2>3
    <2>5. QED BY <2>4 DEF A, B
  <1>5. IsPath(q)
    BY <1>1, <1>3 DEF IsPath
  <1>6. QED BY <1>1, <1>4, <1>5 DEF q

LEMMA MergedBodies ==
  ASSUME NEW bodies, NEW ids, NEW rows,
         \A k \in DOMAIN bodies : \A p \in bodies[k] : IsPath(p)
  PROVE  LET b == MergedBody(bodies, ids, rows) IN
         /\ \A p \in b : IsPath(p)
         /\ \A x : x \in Calls(b) <=> \E k \in DOMAIN bodies : x \in Calls(bodies[k])
         /\ \A x : x \in Takes(b) <=> \E k \in DOMAIN bodies : x \in Takes(bodies[k])
         /\ b = {} <=> \A k \in DOMAIN bodies : bodies[k] = {}
         /\ HasCode(b) <=> \E k \in DOMAIN bodies : HasCode(bodies[k])
  <1> DEFINE b == MergedBody(bodies, ids, rows)
             mp(k, p) == MergedPath(p, ids[k], rows[k])
             M == UNION {{mp(k, p) : p \in bodies[k]} : k \in DOMAIN bodies}
  <1>1. b = {[p EXCEPT !.refs = @ \cup {}] : p \in M}
    BY NothingIsSelected DEF MergedBody
  <1> HIDE DEF mp
  <1>2. \A q : q \in M <=> \E k \in DOMAIN bodies : \E p \in bodies[k] : q = mp(k, p)
    OBVIOUS
  <1>3. ASSUME NEW k \in DOMAIN bodies, NEW p \in bodies[k]
        PROVE  /\ IsPath(mp(k, p)) /\ mp(k, p).source = p.source /\ mp(k, p).refs = p.refs
               /\ {s.callee : s \in mp(k, p).sites} = {s.callee : s \in p.sites}
    BY MergedPaths DEF mp
  <1> HIDE DEF M, b
  <1>4. ASSUME NEW q \in M
        PROVE  LET r == [q EXCEPT !.refs = @ \cup {}] IN
               /\ IsPath(r) /\ r.source = q.source /\ r.refs = q.refs /\ r.sites = q.sites
    <2>1. IsPath(q)
      BY <1>2, <1>3
    <2>2. QED BY <2>1 DEF IsPath
  <1>5. /\ \A r \in b : \E k \in DOMAIN bodies : \E p \in bodies[k] :
             /\ IsPath(r) /\ r.source = p.source /\ r.refs = p.refs
             /\ {s.callee : s \in r.sites} = {s.callee : s \in p.sites}
        /\ \A k \in DOMAIN bodies : \A p \in bodies[k] : \E r \in b :
             /\ r.source = p.source /\ r.refs = p.refs
             /\ {s.callee : s \in r.sites} = {s.callee : s \in p.sites}
    <2>1. ASSUME NEW r \in b
          PROVE  \E k \in DOMAIN bodies : \E p \in bodies[k] :
                   /\ IsPath(r) /\ r.source = p.source /\ r.refs = p.refs
                   /\ {s.callee : s \in r.sites} = {s.callee : s \in p.sites}
      <3>1. PICK q \in M : r = [q EXCEPT !.refs = @ \cup {}]
        BY <1>1
      <3>2. PICK k \in DOMAIN bodies : \E p \in bodies[k] : q = mp(k, p)
        BY <1>2
      <3>3. PICK p \in bodies[k] : q = mp(k, p)
        BY <3>2
      <3>4. IsPath(r) /\ r.source = q.source /\ r.refs = q.refs /\ r.sites = q.sites
        BY <1>4, <3>1
      <3>5. QED BY <1>3, <3>3, <3>4
    <2>2. ASSUME NEW k \in DOMAIN bodies, NEW p \in bodies[k]
          PROVE  \E r \in b : /\ r.source = p.source /\ r.refs = p.refs
                              /\ {s.callee : s \in r.sites} = {s.callee : s \in p.sites}
      <3>1. mp(k, p) \in M
        BY <1>2
      <3> DEFINE r == [mp(k, p) EXCEPT !.refs = @ \cup {}]
      <3>2. r \in b
        BY <1>1, <3>1
      <3>3. r.source = mp(k, p).source /\ r.refs = mp(k, p).refs /\ r.sites = mp(k, p).sites
        BY <1>4, <3>1
      <3> HIDE DEF r
      <3>4. QED BY <1>3, <3>2, <3>3
    <2>3. QED BY <2>1, <2>2
  <1>6. \A p \in b : IsPath(p)
    BY <1>5
  <1>7. \A x : x \in Calls(b) <=> \E k \in DOMAIN bodies : x \in Calls(bodies[k])
    <2>1. ASSUME NEW x
          PROVE  (\E r \in b : x \in {s.callee : s \in r.sites})
                  <=> \E k \in DOMAIN bodies : \E p \in bodies[k] : x \in {s.callee : s \in p.sites}
      BY <1>5
    <2>2. \A c, x : x \in Calls(c) <=> \E p \in c : x \in {s.callee : s \in p.sites}
      BY UsesAre
    <2>3. QED BY <2>1, <2>2
  <1>8. \A x : x \in Takes(b) <=> \E k \in DOMAIN bodies : x \in Takes(bodies[k])
    <2>1. ASSUME NEW x
          PROVE  (\E r \in b : x \in {s.is : s \in r.refs})
                  <=> \E k \in DOMAIN bodies : \E p \in bodies[k] : x \in {s.is : s \in p.refs}
      BY <1>5
    <2>2. \A c, x : x \in Takes(c) <=> \E p \in c : x \in {s.is : s \in p.refs}
      BY UsesAre
    <2>3. QED BY <2>1, <2>2
  <1>9. b = {} <=> \A k \in DOMAIN bodies : bodies[k] = {}
    BY <1>5
  <1>10. HasCode(b) <=> \E k \in DOMAIN bodies : HasCode(bodies[k])
    BY <1>5 DEF HasCode
  <1>11. QED BY <1>6, <1>7, <1>8, <1>9, <1>10 DEF b

LEMMA MergedNames ==
  ASSUME NEW fs, IsSequence(fs), \A k \in DOMAIN fs : IsSequence(fs[k].name), NEW m
  PROVE  LET name == UniqueName(m, FunctionName(fs)) IN
         IsSequence(name) /\ name # <<>> /\ name[1] = "__mf_merge"
  <1> DEFINE ss == [k \in DOMAIN fs |-> fs[k].name]
             E == UNION {Range(fs[k].name) : k \in DOMAIN fs}
             F == E \cup {"__mf_merge"}
  <1>1. ss \in Seq(Seq(E))
    <2>1. \A k \in DOMAIN fs : fs[k].name \in Seq(Range(fs[k].name))
              /\ Range(fs[k].name) \subseteq E
      BY DEF IsSequence
    <2>2. \A k \in DOMAIN fs : fs[k].name \in Seq(E)
      BY <2>1
    <2>3. Len(fs) \in Nat /\ DOMAIN fs = 1 .. Len(fs)
      BY DEF IsSequence
    <2> HIDE DEF E
    <2>4. QED BY <2>2, <2>3
  <1>2. FlattenSeq(ss) \in Seq(E)
    BY <1>1, FlattenSeqProperties
  <1> HIDE DEF E
  <1>3. FlattenSeq(ss) \in Seq(F) /\ MergePrefix \in Seq(F)
    BY <1>2 DEF MergePrefix
  <1>4. FunctionName(fs) = MergePrefix \o FlattenSeq(ss)
    BY DEF FunctionName, MergePrefix
  <1> HIDE DEF ss, F
  <1>5. /\ FunctionName(fs) \in Seq(F) /\ FunctionName(fs) # <<>>
        /\ FunctionName(fs)[1] = "__mf_merge"
    <2> DEFINE t == FlattenSeq(ss)
    <2>1. /\ MergePrefix \o t \in Seq(F) /\ Len(MergePrefix \o t) = 1 + Len(t) /\ Len(t) \in Nat
          /\ (MergePrefix \o t)[1] = MergePrefix[1]
      BY <1>3 DEF MergePrefix
    <2>2. QED BY <1>4, <2>1 DEF MergePrefix
  <1>6. QED BY <1>5, SequencesOf, UniqueNames

(* The merged function does what its parts do. *)
DoesWhat(body, fs) ==
  /\ \A x : x \in Calls(body) <=> \E k \in DOMAIN fs : x \in Calls(fs[k].body)
  /\ \A x : x \in Takes(body) <=> \E k \in DOMAIN fs : x \in Takes(fs[k].body)
  /\ body = {} <=> \A k \in DOMAIN fs : fs[k].body = {}
  /\ HasCode(body) <=> \E k \in DOMAIN fs : HasCode(fs[k].body)

AreEmitted(m, fs, layout) ==
  LET e == Emit(m, fs, layout)
      d == EmitDeclaration(m, fs, layout)
  IN /\ IsFunction(e) /\ e.name # <<>> /\ e.name[1] = "__mf_merge"
     /\ e.linkage = "internal" /\ DoesWhat(e.body, fs)
     /\ IsFunction(d) /\ d.name # <<>> /\ d.name[1] = "__mf_merge"
     /\ d.linkage = "internal" /\ d.body = {}
     /\ e.sig = layout.params /\ d.sig = layout.params

LEMMA EmittedFunctions ==
  ASSUME NEW m, NEW fs, IsSequence(fs), \A k \in DOMAIN fs : IsFunction(fs[k]), NEW layout
  PROVE  AreEmitted(m, fs, layout)
  <1> DEFINE e == Emit(m, fs, layout)
             d == EmitDeclaration(m, fs, layout)
             bodies == [k \in DOMAIN fs |-> fs[k].body]
  <1>1. /\ DOMAIN e = {"name", "linkage", "sig", "ret", "pers", "body"}
        /\ e.name = UniqueName(m, FunctionName(fs)) /\ e.linkage = "internal"
        /\ e.sig = layout.params
        /\ e.body = MergedBody(bodies, [k \in DOMAIN fs |-> k - 1], layout.rows)
    BY DEF Emit
  <1>2. /\ DOMAIN d = {"name", "linkage", "sig", "ret", "pers", "body"}
        /\ d.name = e.name /\ d.linkage = e.linkage /\ d.body = {} /\ d.sig = e.sig
    <2> HIDE DEF e
    <2>1. d = [e EXCEPT !.body = {}, !.pers = "none"]
      BY DEF EmitDeclaration, e
    <2> HIDE DEF d
    <2>2. QED BY <1>1, <2>1
  <1> HIDE DEF e, d
  <1>3. IsSequence(e.name) /\ e.name # <<>> /\ e.name[1] = "__mf_merge"
    <2>1. \A k \in DOMAIN fs : IsSequence(fs[k].name)
      BY DEF IsFunction
    <2>2. QED BY <1>1, <2>1, MergedNames
  <1>4. /\ DOMAIN bodies = DOMAIN fs
        /\ \A k \in DOMAIN bodies : bodies[k] = fs[k].body /\ \A p \in bodies[k] : IsPath(p)
    BY DEF IsFunction
  <1> HIDE DEF bodies
  <1>5. (\A p \in e.body : IsPath(p)) /\ DoesWhat(e.body, fs)
    BY <1>1, <1>4, MergedBodies DEF DoesWhat
  <1>6. IsFunction(e) /\ IsFunction(d)
    BY <1>1, <1>2, <1>3, <1>5 DEF IsFunction
  <1>7. QED BY <1>1, <1>2, <1>3, <1>5, <1>6 DEF AreEmitted, e, d

(* A body that forwards to a function calls it and nothing else. *)
OnlyForwards(body, m) ==
  /\ \A p \in body : IsPath(p)
  /\ Calls(body) = {m} /\ Takes(body) = {} /\ body # {} /\ ~ HasCode(body)

LEMMA Forwarding ==
  ASSUME NEW m, NEW params, NEW id, NEW row
  PROVE  OnlyForwards({Forward(m, params, id, row)}, m)
  <1> DEFINE p == Forward(m, params, id, row)
             s == [callee |-> m, was |-> None, wasArgs |-> <<>>,
                   args |-> MergedArgs(params, id, row, [i \in 1 .. Len(row) |-> Arg(i)])]
  <1>1. /\ DOMAIN p = {"tests", "source", "env", "sites", "refs"}
        /\ p.sites = {s} /\ p.refs = {} /\ p.source = None
    BY DEF Forward
  <1>2. IsSite(s) /\ s.callee = m
    BY DEF IsSite
  <1> HIDE DEF p, s
  <1>3. IsPath(p)
    BY <1>1, <1>2 DEF IsPath
  <1>4. Calls({p}) = {m} /\ Takes({p}) = {}
    <2>1. \A x : x \in Calls({p}) <=> x = m
      BY <1>1, <1>2, UsesAre
    <2>2. \A x : x \notin Takes({p})
      BY <1>1, UsesAre
    <2>3. QED BY <2>1, <2>2
  <1>5. QED BY <1>1, <1>3, <1>4 DEF OnlyForwards, HasCode, p

ForwardsTo(t, f, m) ==
  /\ IsFunction(t)
  /\ t.name # <<>> /\ t.name[1] = "__mf_thunk" /\ t.linkage = f.linkage /\ t.sig = f.sig
  /\ Calls(t.body) = {m} /\ Takes(t.body) = {} /\ t.body # {} /\ ~ HasCode(t.body)

LEMMA Thunks ==
  ASSUME NEW k, NEW f, IsFunction(f), NEW m, NEW params, NEW id, NEW row
  PROVE  ForwardsTo(Thunk(k, f, m, params, id, row), f, m)
  <1> DEFINE t == Thunk(k, f, m, params, id, row)
             body == {Forward(m, params, id, row)}
             name == UniqueName(k, ThunkPrefix \o f.name)
  <1>1. /\ DOMAIN t = {"name", "linkage", "sig", "ret", "pers", "body"}
        /\ t.name = name /\ t.body = body /\ t.linkage = f.linkage /\ t.sig = f.sig
    <2>1. t = [f EXCEPT !.name = name, !.body = body]
      BY DEF Thunk, ThunkPrefix
    <2> HIDE DEF t, name, body
    <2>2. QED BY <2>1 DEF IsFunction
  <1>2. /\ \A p \in body : IsPath(p)
        /\ Calls(body) = {m} /\ Takes(body) = {} /\ body # {} /\ ~ HasCode(body)
    <2>1. OnlyForwards(body, m)
      BY Forwarding, Zenon
    <2> HIDE DEF body
    <2>2. QED BY <2>1 DEF OnlyForwards
  <1>3. IsSequence(name) /\ name # <<>> /\ name[1] = "__mf_thunk"
    <2> DEFINE E == Range(f.name) \cup {"__mf_thunk"}
               u == ThunkPrefix \o f.name
    <2>1. f.name \in Seq(E) /\ ThunkPrefix \in Seq(E)
      BY DEF IsFunction, IsSequence, ThunkPrefix
    <2> HIDE DEF E
    <2>2. u \in Seq(E) /\ u # <<>> /\ u[1] = "__mf_thunk"
      BY <2>1 DEF ThunkPrefix
    <2>3. name = UniqueName(k, u)
      OBVIOUS
    <2> HIDE DEF u, name
    <2>4. IsSequence(u)
      BY <2>2, SequencesOf
    <2>5. QED BY <2>2, <2>3, <2>4, UniqueNames
  <1> HIDE DEF t, name, body
  <1>4. QED BY <1>1, <1>2, <1>3 DEF IsFunction, ForwardsTo, t

-----------------------------------------------------------------------------
(***************************************************************************)
(* The identities of functions, whatever the functions are: every          *)
(* operation gives out new ones, and takes none that may be in use.        *)
(***************************************************************************)
Shaped(m) ==
  /\ DOMAIN m = {"fns", "globals", "next"}
  /\ m.next \in Nat \ {0} /\ DOMAIN m.fns \subseteq 1 .. m.next - 1

Follows(n, m) == Shaped(n) /\ n.next >= m.next

LEMMA ShapesAfterOperations ==
  ASSUME NEW m, Shaped(m)
  PROVE  /\ \A F : Follows(Erase(m, F), m) /\ Erase(m, F).next = m.next
         /\ \A f : Follows(AddFunction(m, f), m) /\ AddFunction(m, f).next = m.next + 1
         /\ \A s, r : Follows(MapUses(m, s, r), m) /\ MapUses(m, s, r).next = m.next
         /\ \A p : Follows(WithNamesTaken(m, p), m) /\ WithNamesTaken(m, p).next = m.next
  <1>1. ASSUME NEW F PROVE Follows(Erase(m, F), m) /\ Erase(m, F).next = m.next
    <2> DEFINE n == Erase(m, F)
    <2>1. /\ n.next = m.next /\ DOMAIN n = DOMAIN m
          /\ n.fns = [f \in DOMAIN m.fns \ F |-> m.fns[f]]
      BY DEF Erase, Shaped, RestrictDomain, Restrict
    <2> HIDE DEF n
    <2>2. QED BY <2>1 DEF Shaped, Follows, n
  <1>2. ASSUME NEW f PROVE Follows(AddFunction(m, f), m) /\ AddFunction(m, f).next = m.next + 1
    <2> DEFINE n == AddFunction(m, f)
    <2>1. /\ n.next = m.next + 1 /\ DOMAIN n = DOMAIN m
          /\ n.fns = [g \in DOMAIN m.fns \cup {m.next} |-> IF g = m.next THEN f ELSE m.fns[g]]
      BY DEF AddFunction, Shaped
    <2> HIDE DEF n
    <2>2. QED BY <2>1 DEF Shaped, Follows, n
  <1>3. ASSUME NEW s, NEW r
        PROVE  Follows(MapUses(m, s, r), m) /\ MapUses(m, s, r).next = m.next
    <2> DEFINE n == MapUses(m, s, r)
    <2>1. n.next = m.next /\ DOMAIN n = DOMAIN m /\ DOMAIN n.fns = DOMAIN m.fns
      BY DEF MapUses, Shaped
    <2> HIDE DEF n
    <2>2. QED BY <2>1 DEF Shaped, Follows, n
  <1>4. ASSUME NEW p
        PROVE  Follows(WithNamesTaken(m, p), m) /\ WithNamesTaken(m, p).next = m.next
    <2> DEFINE n == WithNamesTaken(m, p)
    <2>1. n.next = m.next /\ DOMAIN n = DOMAIN m /\ DOMAIN n.fns = DOMAIN m.fns
      BY DEF WithNamesTaken, Shaped
    <2> HIDE DEF n
    <2>2. QED BY <2>1 DEF Shaped, Follows, n
  <1>5. QED BY <1>1, <1>2, <1>3, <1>4

LEMMA ShapesAfterMerges ==
  ASSUME NEW m, Shaped(m), NEW p
  PROVE  /\ Follows(ApplyMerge(m, p), m) /\ ApplyMerge(m, p).next = m.next
         /\ Follows(DiscardPlan(m, p), m) /\ DiscardPlan(m, p).next = m.next
  <1>1. ASSUME NEW k, Shaped(k)
        PROVE  /\ Follows(ApplyCallReplacements(k, p), k)
               /\ ApplyCallReplacements(k, p).next = k.next
    <2>1. PICK s, r, F : ApplyCallReplacements(k, p) = Erase(MapUses(k, s, r), F)
      BY DEF ApplyCallReplacements
    <2> DEFINE k1 == MapUses(k, s, r)
    <2>2. Shaped(k1) /\ k1.next = k.next
      BY <1>1, ShapesAfterOperations DEF Follows
    <2> HIDE DEF k1
    <2>3. Shaped(Erase(k1, F)) /\ Erase(k1, F).next = k1.next
      BY <2>2, ShapesAfterOperations DEF Follows
    <2>4. QED BY <1>1, <2>1, <2>2, <2>3 DEF Follows, Shaped, k1
  <1>2. ASSUME NEW k, Shaped(k)
        PROVE  Follows(ApplyThunks(k, p), k) /\ ApplyThunks(k, p).next = k.next
    <2>1. PICK s, r, F : ApplyThunks(k, p) = Erase(MapUses(WithNamesTaken(k, p), s, r), F)
      BY DEF ApplyThunks
    <2> DEFINE k1 == WithNamesTaken(k, p)
               k2 == MapUses(k1, s, r)
    <2>2. Shaped(k1) /\ k1.next = k.next
      BY <1>2, ShapesAfterOperations DEF Follows
    <2> HIDE DEF k1
    <2>3. Shaped(k2) /\ k2.next = k1.next
      BY <2>2, ShapesAfterOperations DEF Follows
    <2> HIDE DEF k2
    <2>4. Shaped(Erase(k2, F)) /\ Erase(k2, F).next = k2.next
      BY <2>3, ShapesAfterOperations DEF Follows
    <2>5. QED BY <1>2, <2>1, <2>2, <2>3, <2>4 DEF Follows, Shaped, k1, k2
  <1>3. Follows(ApplyMerge(m, p), m) /\ ApplyMerge(m, p).next = m.next
    <2> DEFINE k == ApplyCallReplacements(m, p)
    <2>1. Shaped(k) /\ k.next = m.next
      BY <1>1 DEF Follows
    <2>2. ApplyMerge(m, p) = ApplyThunks(k, p)
      BY DEF ApplyMerge
    <2> HIDE DEF k
    <2>3. QED BY <1>2, <2>1, <2>2 DEF Follows
  <1>4. Follows(DiscardPlan(m, p), m) /\ DiscardPlan(m, p).next = m.next
    BY ShapesAfterOperations DEF DiscardPlan
  <1>5. QED BY <1>3, <1>4

(* The outcomes of planning. *)
LEMMA PlanMergeOutcomes ==
  ASSUME NEW m, NEW parts, NEW o \in PlanMerge(m, parts)
  PROVE  LET fs == [k \in DOMAIN parts |-> m.fns[parts[k]]]
             layouts == Layouts([k \in DOMAIN parts |-> fs[k].sig])
         IN \/ o.mod = m /\ o.plan = NoPlan
            \/ \E l \in layouts :
                 o.mod = AddFunction(m, EmitDeclaration(m, fs, l)) /\ o.plan = NoPlan
            \/ \E l \in layouts : o = Planned(m, parts, l)
  <1> DEFINE fs == [k \in DOMAIN parts |-> m.fns[parts[k]]]
             layouts == Layouts([k \in DOMAIN parts |-> fs[k].sig])
             refused == [mod |-> m, plan |-> NoPlan]
             left(l) == [mod |-> AddFunction(m, EmitDeclaration(m, fs, l)), plan |-> NoPlan]
             A == Cardinality(ReturnTypes(fs)) > 1
             B == Cardinality(ReturnTypes(fs)) <= 1 /\ Cardinality(Personalities(fs)) > 1
             L == {left(l) : l \in layouts}
             P == {Planned(m, parts, l) : l \in layouts}
             C == CASE A -> {} [] B -> L [] OTHER -> P
  <1>1. o = refused \/ o \in C
    BY Zenon DEF PlanMerge
  <1>2. o \in C => o \in L \/ o \in P
    <2> HIDE DEF A, B, L, P
    <2>1. C = {} \/ C = L \/ C = P
      OBVIOUS
    <2>2. QED BY <2>1
  <1> HIDE DEF C
  <1>3. CASE o = refused
    BY <1>3
  <1>4. CASE o \in L
    <2>1. PICK l \in layouts : o = left(l)
      BY <1>4, Zenon
    <2>2. QED BY <2>1
  <1>5. CASE o \in P
    BY <1>5, Zenon
  <1>6. QED BY <1>1, <1>2, <1>3, <1>4, <1>5


(* A successful plan: the merged function is new, and after it comes one    *)
(* thunk for every part whose calls cannot all be replaced.                *)
IsPlanned(m, parts, layout) ==
  LET n == Planned(m, parts, layout).mod
      p == Planned(m, parts, layout).plan
      fs == [k \in DOMAIN parts |-> m.fns[parts[k]]]
      merged == AddFunction(m, Emit(m, fs, layout))
  IN /\ Follows(n, m) /\ n.next > m.next /\ n.globals = m.globals
     /\ DOMAIN n.fns = DOMAIN m.fns \cup m.next .. n.next - 1
     /\ \A f \in DOMAIN m.fns : n.fns[f] = m.fns[f]
     /\ p.parts = parts /\ p.merged = m.next /\ p # NoPlan /\ p.rows = layout.rows
     /\ n.fns[m.next] = Emit(m, fs, layout)
     /\ DOMAIN p.thunks = DOMAIN parts
     /\ \A k \in DOMAIN parts :
          /\ p.thunks[k] = None <=> CanReplaceCalls(merged, parts[k])
          /\ p.thunks[k] # None =>
               /\ p.thunks[k] \in m.next + 1 .. n.next - 1
               /\ \E row : n.fns[p.thunks[k]]
                             = Thunk(merged, fs[k], m.next, layout.params, k - 1, row)
     /\ \A j, k \in DOMAIN parts :
          p.thunks[j] = p.thunks[k] /\ p.thunks[j] # None => j = k
     /\ \A g \in m.next + 1 .. n.next - 1 : \E k \in DOMAIN parts : p.thunks[k] = g

LEMMA PlannedFunctions ==
  ASSUME NEW m, Shaped(m), NEW parts, IsSequence(parts), NEW layout
  PROVE  IsPlanned(m, parts, layout)
  <1> DEFINE o == Planned(m, parts, layout)
             n == o.mod
             p == o.plan
             fs == [k \in DOMAIN parts |-> m.fns[parts[k]]]
             merged == AddFunction(m, Emit(m, fs, layout))
             M == m.next
             thunked == {k \in DOMAIN parts : ~ CanReplaceCalls(merged, parts[k])}
             upTo(k) == Cardinality({j \in thunked : j <= k})
             thunks == [k \in DOMAIN parts |-> IF k \in thunked THEN M + upTo(k) ELSE None]
             part(g) == CHOOSE k \in thunked : thunks[k] = g
             created == (M + 1) .. (M + Cardinality(thunked))
             thunk(g) == Thunk(merged, fs[part(g)], M, layout.params,
                               part(g) - 1, layout.rows[part(g)])
  <1>1. M \in Nat \ {0} /\ DOMAIN m.fns \subseteq 1 .. M - 1
    BY DEF Shaped
  <1>2. /\ merged.next = M + 1 /\ merged.globals = m.globals
        /\ DOMAIN merged = {"fns", "globals", "next"}
        /\ merged.fns = [g \in DOMAIN m.fns \cup {M} |->
                           IF g = M THEN Emit(m, fs, layout) ELSE m.fns[g]]
    BY DEF AddFunction, Shaped
  <1>3. /\ p = [merged |-> M, parts |-> parts, rows |-> layout.rows, thunks |-> thunks]
        /\ n = [merged EXCEPT
                  !.fns = [g \in DOMAIN @ \cup created |->
                             IF g \in created THEN thunk(g) ELSE @[g]],
                  !.next = M + Cardinality(thunked) + 1]
    BY DEF Planned
  <1> HIDE DEF o, merged, created, thunk
  <1>4. thunked \in SUBSET Nat /\ IsFiniteSet(thunked)
    <2>1. DOMAIN parts = 1 .. Len(parts) /\ Len(parts) \in Nat
      BY DEF IsSequence
    <2>2. IsFiniteSet(1 .. Len(parts)) /\ thunked \in SUBSET (1 .. Len(parts))
      BY <2>1, FS_Interval
    <2> HIDE DEF thunked
    <2>3. thunked \in SUBSET Nat
      BY <2>1, <2>2
    <2>4. QED BY <2>2, <2>3, FS_Subset
  <1>5. /\ Cardinality(thunked) \in Nat
        /\ \A k \in thunked : upTo(k) \in 1 .. Cardinality(thunked)
        /\ \A j, k \in thunked : upTo(j) = upTo(k) => j = k
        /\ \A i \in 1 .. Cardinality(thunked) : \E k \in thunked : upTo(k) = i
    <2> HIDE DEF thunked
    <2>1. QED BY <1>4, RankProperties
  <1>6. \A k \in DOMAIN parts : k \in thunked <=> ~ CanReplaceCalls(merged, parts[k])
    OBVIOUS
  <1>7. thunked \subseteq DOMAIN parts
    OBVIOUS
  <1> HIDE DEF thunked, upTo
  <1>8. /\ DOMAIN thunks = DOMAIN parts
        /\ \A k \in thunked : thunks[k] = M + upTo(k)
        /\ \A k \in DOMAIN parts \ thunked : thunks[k] = None
    BY <1>7
  <1> HIDE DEF thunks
  <1>9. \A k \in thunked : thunks[k] \in created /\ thunks[k] # None
    BY <1>1, <1>5, <1>8 DEF created, None
  <1>10. ASSUME NEW j \in thunked, NEW k \in thunked, thunks[j] = thunks[k] PROVE j = k
    BY <1>1, <1>5, <1>8, <1>10
  <1>11. ASSUME NEW g \in created PROVE \E k \in thunked : thunks[k] = g
    <2>1. g - M \in 1 .. Cardinality(thunked)
      BY <1>1, <1>5 DEF created
    <2>2. PICK k \in thunked : upTo(k) = g - M
      BY <1>5, <2>1
    <2>3. thunks[k] = g
      BY <1>1, <1>8, <2>2 DEF created
    <2>4. QED BY <2>3
  <1>12. /\ n.next = M + Cardinality(thunked) + 1 /\ n.globals = m.globals
         /\ DOMAIN n = {"fns", "globals", "next"}
         /\ n.fns = [g \in DOMAIN m.fns \cup {M} \cup created |->
                       IF g \in created THEN thunk(g) ELSE merged.fns[g]]
    BY <1>2, <1>3
  <1>13. created = M + 1 .. n.next - 1
    BY <1>1, <1>5, <1>12 DEF created
  <1>14. /\ p.parts = parts /\ p.merged = M /\ p.thunks = thunks /\ p # NoPlan
         /\ p.rows = layout.rows
    BY <1>1, <1>3 DEF NoPlan, None
  <1> HIDE DEF n, p
  <1>15. n.next \in Nat /\ n.next > M
    BY <1>1, <1>5, <1>12
  <1>16. DOMAIN n.fns = DOMAIN m.fns \cup M .. n.next - 1
    BY <1>1, <1>12, <1>13, <1>15
  <1>17. /\ \A f \in DOMAIN m.fns : n.fns[f] = m.fns[f]
         /\ n.fns[M] = Emit(m, fs, layout)
    <2>1. \A f \in DOMAIN m.fns \cup {M} : f \notin created
      BY <1>1, <1>13, <1>15
    <2>2. M \notin DOMAIN m.fns
      BY <1>1
    <2>3. QED BY <1>2, <1>12, <2>1, <2>2
  <1>18. ASSUME NEW k \in thunked
         PROVE  n.fns[thunks[k]] = Thunk(merged, fs[k], M, layout.params, k - 1, layout.rows[k])
    <2>1. part(thunks[k]) \in thunked /\ thunks[part(thunks[k])] = thunks[k]
      OBVIOUS
    <2>2. part(thunks[k]) = k
      BY <1>10, <2>1
    <2> HIDE DEF part
    <2>3. thunk(thunks[k]) = Thunk(merged, fs[k], M, layout.params, k - 1, layout.rows[k])
      BY <2>2 DEF thunk
    <2>4. thunks[k] \in created
      BY <1>9
    <2>5. QED BY <1>12, <2>3, <2>4
  <1>19. Follows(n, m)
    BY <1>1, <1>12, <1>15, <1>16 DEF Follows, Shaped
  <1>20. \A k \in DOMAIN parts :
           /\ thunks[k] = None <=> CanReplaceCalls(merged, parts[k])
           /\ thunks[k] # None =>
                /\ thunks[k] \in M + 1 .. n.next - 1
                /\ \E row : n.fns[thunks[k]] = Thunk(merged, fs[k], M, layout.params, k - 1, row)
    <2> TAKE k \in DOMAIN parts
    <2>1. CASE k \in thunked
      <3>1. thunks[k] # None /\ thunks[k] \in M + 1 .. n.next - 1
        BY <1>9, <1>13, <2>1
      <3>2. ~ CanReplaceCalls(merged, parts[k])
        BY <1>6, <2>1
      <3> HIDE DEF fs
      <3>3. QED BY <1>18, <2>1, <3>1, <3>2, Zenon
    <2>2. CASE k \notin thunked
      BY <1>6, <1>8, <2>2
    <2>3. QED BY <2>1, <2>2
  <1>21. \A j, k \in DOMAIN parts : thunks[j] = thunks[k] /\ thunks[j] # None => j = k
    BY <1>8, <1>10
  <1>22. \A g \in M + 1 .. n.next - 1 : \E k \in DOMAIN parts : thunks[k] = g
    BY <1>7, <1>11, <1>13
  <1>23. /\ \A k \in DOMAIN parts :
              /\ p.thunks[k] = None <=> CanReplaceCalls(merged, parts[k])
              /\ p.thunks[k] # None =>
                   /\ p.thunks[k] \in M + 1 .. n.next - 1
                   /\ \E row : n.fns[p.thunks[k]]
                                 = Thunk(merged, fs[k], M, layout.params, k - 1, row)
         /\ \A j, k \in DOMAIN parts :
              p.thunks[j] = p.thunks[k] /\ p.thunks[j] # None => j = k
         /\ \A g \in M + 1 .. n.next - 1 : \E k \in DOMAIN parts : p.thunks[k] = g
         /\ DOMAIN p.thunks = DOMAIN parts
    <2> HIDE DEF fs, M
    <2>1. QED BY <1>8, <1>14, <1>20, <1>21, <1>22
  <1>24. n.globals = m.globals /\ n.next > m.next
    BY <1>12, <1>15
  <1> USE DEF n, p, o, merged
  <1>25. QED BY <1>14, <1>16, <1>17, <1>19, <1>23, <1>24, Zenon DEF IsPlanned


LEMMA ShapesAfterPlans ==
  ASSUME NEW m, Shaped(m), NEW parts, IsSequence(parts), NEW o \in PlanMerge(m, parts)
  PROVE  /\ Follows(o.mod, m)
         /\ o.plan # NoPlan => o.plan.parts = parts /\ o.plan.merged \in m.next .. o.mod.next - 1
  <1>1. m.next \in Nat
    BY DEF Shaped
  <1>2. CASE o.mod = m /\ o.plan = NoPlan
    BY <1>1, <1>2 DEF Follows
  <1>3. ASSUME NEW f, o.mod = AddFunction(m, f), o.plan = NoPlan PROVE Follows(o.mod, m)
    BY <1>3, ShapesAfterOperations
  <1>4. ASSUME NEW l, o = Planned(m, parts, l)
        PROVE  /\ Follows(o.mod, m) /\ o.mod.next > m.next
               /\ o.plan.parts = parts /\ o.plan.merged = m.next
    <2>1. IsPlanned(m, parts, l)
      BY PlannedFunctions
    <2>2. QED BY <1>4, <2>1, Zenon DEF IsPlanned
  <1>5. QED
    <2>1. CASE \E l : o = Planned(m, parts, l)
      <3>1. /\ Follows(o.mod, m) /\ o.mod.next > m.next
            /\ o.plan.parts = parts /\ o.plan.merged = m.next
        BY <1>4, <2>1
      <3>2. QED BY <1>1, <3>1 DEF Follows, Shaped
    <2>2. CASE \E f : o.mod = AddFunction(m, f) /\ o.plan = NoPlan
      BY <1>3, <2>2
    <2>3. QED BY <1>2, <2>1, <2>2, PlanMergeOutcomes

LEMMA ShapesAfterPairs ==
  ASSUME NEW m, Shaped(m), NEW pass, NEW f1, NEW f2, NEW n \in MergePair(pass, m, f1, f2)
  PROVE  Follows(n, m) /\ n.next = m.next + 1
  <1> DEFINE Same(k, j) == Shaped(k) /\ k.next = j.next
  <1>1. ASSUME NEW k, Shaped(k), NEW f, NEW t, NEW id, NEW row
        PROVE  Same(ReplaceByCall(pass, k, f, t, id, row), k)
    <2> DEFINE j == ReplaceByCall(pass, k, f, t, id, row)
    <2>1. j.next = k.next /\ DOMAIN j = DOMAIN k /\ DOMAIN j.fns = DOMAIN k.fns
      BY <1>1 DEF ReplaceByCall, Shaped
    <2> HIDE DEF j
    <2>2. QED BY <1>1, <2>1 DEF Shaped, j
  <1>2. ASSUME NEW k, Shaped(k), NEW f, NEW t, NEW id, NEW row
        PROVE  Same(ReplaceCallsWith(k, f, t, id, row), k)
    <2>1. \/ ReplaceCallsWith(k, f, t, id, row) = k
          \/ \E s, r : ReplaceCallsWith(k, f, t, id, row) = MapUses(k, s, r)
      BY Zenon DEF ReplaceCallsWith
    <2>2. QED BY <1>2, <2>1, ShapesAfterOperations DEF Follows
  <1>3. ASSUME NEW k, Shaped(k), NEW f, NEW L PROVE Same(EraseIfUnused(k, f, L), k)
    BY <1>3, ShapesAfterOperations DEF EraseIfUnused, Follows
  <1>4. ASSUME NEW k, Shaped(k), NEW f, NEW t, NEW id, NEW row
        PROVE  Same(UpdateCallGraphOf(pass, k, f, t, id, row), k)
    <2> DEFINE k1 == ReplaceByCall(pass, k, f, t, id, row)
               k2 == ReplaceCallsWith(k1, f, t, id, row)
               k3 == EraseIfUnused(k2, f, {"internal", "linkonce"})
    <2>1. Same(k1, k)
      BY <1>1, <1>4
    <2>2. Same(k2, k1)
      <3> HIDE DEF k1
      <3>1. QED BY <1>2, <2>1
    <2>3. Same(k3, k2)
      <3> HIDE DEF k2
      <3>1. QED BY <1>3, <2>2
    <2>4. UpdateCallGraphOf(pass, k, f, t, id, row)
              = IF RequiresOriginalInterface(k1, f) THEN k1 ELSE k3
      BY DEF UpdateCallGraphOf
    <2> HIDE DEF k1, k2, k3
    <2>5. QED BY <2>1, <2>2, <2>3, <2>4
  <1>5. ASSUME NEW k, Shaped(k), NEW t, NEW rows
        PROVE  Same(UpdateCallGraphOfBoth(k, f1, f2, t, rows), k)
    <2> DEFINE ids == PairIds("fmsa")
               k1 == ReplaceByCall("fmsa", k, f1, t, ids[1], rows[1])
               k2 == ReplaceByCall("fmsa", k1, f2, t, ids[2], rows[2])
               k3 == ReplaceCallsWith(k2, f1, t, ids[1], rows[1])
               k4 == ReplaceCallsWith(k3, f2, t, ids[2], rows[2])
               k5 == EraseIfUnused(k4, f1, {"internal"})
               k6 == EraseIfUnused(k5, f2, {"internal"})
    <2>0. ASSUME NEW j, Shaped(j), NEW f, NEW id, NEW row
          PROVE  Same(ReplaceByCall("fmsa", j, f, t, id, row), j)
      <3> DEFINE i == ReplaceByCall("fmsa", j, f, t, id, row)
      <3>1. i.next = j.next /\ DOMAIN i = DOMAIN j /\ DOMAIN i.fns = DOMAIN j.fns
        BY <2>0 DEF ReplaceByCall, Shaped
      <3> HIDE DEF i
      <3>2. QED BY <2>0, <3>1 DEF Shaped, i
    <2>1. Same(k1, k)
      BY <1>5, <2>0
    <2>2. Same(k2, k1)
      <3> HIDE DEF k1, ids
      <3>1. QED BY <2>0, <2>1
    <2>3. Same(k3, k2)
      <3> HIDE DEF k2, ids
      <3>1. QED BY <1>2, <2>2
    <2>4. Same(k4, k3)
      <3> HIDE DEF k3, ids
      <3>1. QED BY <1>2, <2>3
    <2>5. Same(k5, k4)
      <3> HIDE DEF k4
      <3>1. QED BY <1>3, <2>4
    <2>6. Same(k6, k5)
      <3> HIDE DEF k5
      <3>1. QED BY <1>3, <2>5
    <2>7. UpdateCallGraphOfBoth(k, f1, f2, t, rows) = k6
      BY DEF UpdateCallGraphOfBoth
    <2> HIDE DEF k1, k2, k3, k4, k5, k6
    <2>8. QED BY <2>1, <2>2, <2>3, <2>4, <2>5, <2>6, <2>7
  <1>6. ASSUME NEW k, Shaped(k), NEW t, NEW rows
        PROVE  Same(UpdateCallGraph(pass, k, f1, f2, t, rows), k)
    <2> DEFINE ids == PairIds(pass)
               k1 == UpdateCallGraphOf(pass, k, f1, t, ids[1], rows[1])
               k2 == UpdateCallGraphOf(pass, k1, f2, t, ids[2], rows[2])
    <2>1. Same(k1, k)
      BY <1>4, <1>6
    <2>2. Same(k2, k1)
      <3> HIDE DEF k1, ids
      <3>1. QED BY <1>4, <2>1
    <2>3. UpdateCallGraph(pass, k, f1, f2, t, rows)
            = IF pass = "fmsa" THEN UpdateCallGraphOfBoth(k, f1, f2, t, rows) ELSE k2
      BY DEF UpdateCallGraph
    <2>4. Same(UpdateCallGraphOfBoth(k, f1, f2, t, rows), k)
      BY <1>5, <1>6
    <2> HIDE DEF k1, k2
    <2>5. QED BY <2>1, <2>2, <2>3, <2>4
  <1>7. PICK f, rows : n = UpdateCallGraph(pass, AddFunction(m, f), f1, f2, m.next, rows)
    BY Zenon DEF MergePair
  <1>8. Shaped(AddFunction(m, f)) /\ AddFunction(m, f).next = m.next + 1
    BY ShapesAfterOperations DEF Follows
  <1>9. Shaped(n) /\ n.next = m.next + 1
    BY <1>6, <1>7, <1>8
  <1>10. QED BY <1>9 DEF Follows, Shaped


-----------------------------------------------------------------------------
(***************************************************************************)
(* Sequences of functions.                                                 *)
(***************************************************************************)
LEMMA PermutationProperties ==
  ASSUME NEW S, IsFiniteSet(S), NEW s \in SetToSeqs(S)
  PROVE  s \in Seq(S) /\ Len(s) = Cardinality(S) /\ Distinct(s) /\ Range(s) = S
  <1> DEFINE n == Cardinality(S)
  <1>1. n \in Nat /\ IsFiniteSet(1 .. n) /\ Cardinality(1 .. n) = n
    BY FS_CardinalityType, FS_Interval
  <1>2. s \in [1 .. n -> S] /\ \A i, j \in 1 .. n : i # j => s[i] # s[j]
    BY DEF SetToSeqs
  <1>3. s \in Injection(1 .. n, S)
    BY <1>2 DEF Injection, IsInjective
  <1>4. s \in Surjection(1 .. n, S)
    <2> HIDE DEF n
    <2>1. Cardinality(1 .. n) = Cardinality(S)
      BY <1>1 DEF n
    <2>2. QED BY <1>1, <1>3, <2>1, FS_Injection
  <1>5. Range(s) = S
    BY <1>2, <1>4 DEF Surjection, Range
  <1>6. s \in Seq(S) /\ Len(s) = n
    <2> HIDE DEF n
    <2>1. QED BY <1>1, <1>2
  <1>7. QED BY <1>2, <1>5, <1>6 DEF Distinct

(* The functions found by different names are different functions. *)
LEMMA FoundProperties ==
  ASSUME NEW N, NEW names \in Seq(N), Distinct(names)
  PROVE  /\ Found(names) \in Seq(DOMAIN mod.fns) /\ Distinct(Found(names))
         /\ \A f \in Range(Found(names)) : mod.fns[f].name \in Range(names)
         /\ (\E i \in DOMAIN names : Named(mod, names[i]) # {}) => Found(names) # <<>>
  <1> DEFINE I == {i \in DOMAIN names : Named(mod, names[i]) # {}}
             there == Items(names, I)
             found == [i \in DOMAIN there |-> GetFunction(mod, there[i])]
  <1>1. Found(names) = found
    BY DEF Found
  <1>2. /\ there \in Seq({names[i] : i \in I}) /\ there \in Seq(N) /\ Distinct(there)
        /\ Len(there) = Cardinality(I) /\ IsFiniteSet(I)
    <2>1. I \in SUBSET DOMAIN names
      OBVIOUS
    <2> HIDE DEF I
    <2>2. QED BY <2>1, ItemsProperties, ItemsDistinct
  <1>3. \A i \in I : Named(mod, names[i]) # {} /\ names[i] \in Range(names)
    BY DEF Range
  <1>4. DOMAIN there = 1 .. Len(there) /\ Len(there) \in Nat
    <2> HIDE DEF I, there
    <2>1. QED BY <1>2, LenProperties
  <1>5. ASSUME NEW k \in DOMAIN there
        PROVE  /\ found[k] \in DOMAIN mod.fns /\ mod.fns[found[k]].name = there[k]
               /\ there[k] \in Range(names)
    <2>1. \E i \in I : there[k] = names[i]
      <3>1. there[k] \in {names[i] : i \in I}
        <4> HIDE DEF I, there
        <4>1. QED BY <1>2, <1>4, ElementOfSeq
      <3>2. QED BY <3>1
    <2>2. Named(mod, there[k]) # {} /\ there[k] \in Range(names)
      <3> HIDE DEF I, there
      <3>1. QED BY <1>3, <2>1
    <2>3. GetFunction(mod, there[k]) \in Named(mod, there[k])
      <3> HIDE DEF there
      <3>1. QED BY <2>2, Zenon DEF GetFunction
    <2>4. found[k] = GetFunction(mod, there[k])
      OBVIOUS
    <2> HIDE DEF found, there, I
    <2>5. QED BY <2>2, <2>3, <2>4 DEF Named
  <1>6. I # {} => there # <<>>
    <2> HIDE DEF I
    <2>1. ASSUME I # {} PROVE Cardinality(I) # 0
      BY <1>2, <2>1, FS_EmptySet
    <2> HIDE DEF there
    <2>2. QED BY <1>2, <2>1
  <1>7. DOMAIN found = DOMAIN there
    OBVIOUS
  <1>14. found = [i \in DOMAIN there |-> found[i]]
    OBVIOUS
  <1>8. (\E i \in DOMAIN names : Named(mod, names[i]) # {}) => I # {}
    OBVIOUS
  <1> HIDE DEF I, there, found
  <1>9. found \in Seq(DOMAIN mod.fns)
    <2>1. found \in [1 .. Len(there) -> DOMAIN mod.fns]
      BY <1>4, <1>5, <1>14
    <2>2. QED BY <1>4, <2>1
  <1>10. Distinct(found)
    BY <1>2, <1>5, <1>7 DEF Distinct
  <1>11. found = <<>> => there = <<>>
    BY <1>2, <1>4, <1>7
  <1>12. \A f \in Range(found) : mod.fns[f].name \in Range(names)
    BY <1>5, <1>7 DEF Range
  <1>13. QED BY <1>1, <1>6, <1>8, <1>9, <1>10, <1>11, <1>12


-----------------------------------------------------------------------------
(***************************************************************************)
(* Every step leaves less to do.                                           *)
(***************************************************************************)
Ids(m) == 1 .. m.next - 1

JobInv == job \in Jobs /\ planned \in 0 .. job.plans

IdsInv ==
  /\ Shaped(mod)
  /\ candidates \subseteq Ids(mod)
  /\ front \in Seq(Ids(mod)) /\ rank \in Seq(Ids(mod))
  /\ current \in Ids(mod) \cup {None}
  /\ \A p \in plans : p.merged \in Ids(mod)

(* The worklist and the matches at hand are candidates. *)
WorklistInv ==
  Pass \in {"func-merging", "fastfm", "fmsa"} =>
    /\ front \in Seq(candidates) /\ Distinct(front)
    /\ rank \in Seq(candidates) /\ Distinct(rank)

(* MatcherManual looks up its names in the module as it was. *)
OnlyInv == Pass = "only" /\ current = None => mod = job.mod /\ rank = <<>>

(* A plan of an exploration takes at least two candidates. *)
PendingInv ==
  /\ IsFiniteSet(plans)
  /\ Pass = "explore" =>
       \A p \in plans : /\ Parts(p) \subseteq candidates
                        /\ \E f, g \in Parts(p) : f # g

WorkInv == JobInv /\ IdsInv /\ WorklistInv /\ OnlyInv /\ PendingInv


LEMMA IdsGrow ==
  ASSUME NEW m, Shaped(m), NEW n, Follows(n, m)
  PROVE  Ids(m) \subseteq Ids(n) /\ Seq(Ids(m)) \subseteq Seq(Ids(n)) /\ Shaped(n)
  <1>1. Ids(m) \subseteq Ids(n) /\ Shaped(n)
    BY DEF Ids, Follows, Shaped
  <1>2. QED BY <1>1, SeqMonotonic

LEMMA JobFacts ==
  ASSUME NEW j \in Jobs
  PROVE  /\ j.pass \in Passes /\ j.plans \in Nat /\ Shaped(j.mod) /\ WellFormed(j.mod)
         /\ j.names \in Seq(Seq(STRING)) /\ Distinct(j.names)
  <1>1. IsJob(j)
    BY MergingPassesAssumption
  <1>2. WellFormed(j.mod)
    BY <1>1, GivenModules DEF IsJob
  <1>3. Shaped(j.mod)
    BY <1>2 DEF WellFormed, Shaped
  <1>4. QED BY <1>1, <1>2, <1>3 DEF IsJob, AreNames, Distinct

LEMMA FiniteIds ==
  ASSUME NEW m, Shaped(m), NEW S, S \subseteq Ids(m)
  PROVE  IsFiniteSet(S) /\ Cardinality(S) \in Nat /\ \A f \in S : f \in Nat /\ f # None
             /\ f # m.next
  <1>1. IsFiniteSet(Ids(m))
    BY FS_Interval DEF Ids, Shaped
  <1>2. \A f \in Ids(m) : f \in Nat /\ f # None /\ f # m.next
    BY DEF Ids, Shaped, None
  <1> HIDE DEF Ids
  <1>3. IsFiniteSet(S) /\ Cardinality(S) \in Nat
    BY <1>1, FS_Subset, FS_CardinalityType
  <1>4. QED BY <1>2, <1>3

LEMMA WorkInit == Init => WorkInv
  <1> SUFFICES ASSUME Init PROVE WorkInv
    OBVIOUS
  <1>1. /\ job \in Jobs /\ mod = job.mod /\ plans = {} /\ planned = 0 /\ front = <<>>
        /\ current = None /\ rank = <<>> /\ candidates = Definitions(job.mod)
    BY DEF Init
  <1>2. Shaped(job.mod) /\ job.plans \in Nat
    BY <1>1, JobFacts
  <1>3. candidates \subseteq Ids(mod)
    BY <1>1, <1>2 DEF Definitions, Shaped, Ids
  <1>4. \A S : <<>> \in Seq(S)
    OBVIOUS
  <1>5. JobInv /\ IdsInv
    BY <1>1, <1>2, <1>3, <1>4 DEF JobInv, IdsInv
  <1>6. WorklistInv /\ OnlyInv
    BY <1>1, <1>4 DEF WorklistInv, OnlyInv, Distinct
  <1>7. PendingInv
    BY <1>1, FS_EmptySet DEF PendingInv
  <1>8. QED BY <1>5, <1>6, <1>7 DEF WorkInv

(* A plan of an exploration. *)
LEMMA PlansOfCandidates ==
  ASSUME WorkInv, NEW S \in SUBSET candidates, Cardinality(S) \in 2 .. MaxMergeSize,
         NEW parts \in SetToSeqs(S)
  PROVE  IsSequence(parts) /\ Range(parts) = S /\ \E f, g \in S : f # g
  <1>1. IsFiniteSet(S)
    BY FiniteIds DEF WorkInv, IdsInv
  <1>2. parts \in Seq(S) /\ Range(parts) = S
    BY <1>1, PermutationProperties
  <1>3. Cardinality(S) > 1 /\ Cardinality(S) \in Nat
    BY <1>1, FS_CardinalityType
  <1>4. PICK f \in S, g \in S : f # g
    BY <1>1, <1>3, TwoElements
  <1>5. QED BY <1>2, <1>4, SequencesOf

LEMMA WorkAfterPlan == WorkInv /\ Plan => WorkInv'
  <1> SUFFICES ASSUME WorkInv, Plan PROVE WorkInv'
    OBVIOUS
  <1>1. PICK S \in SUBSET candidates : 
          /\ Cardinality(S) \in 2 .. MaxMergeSize
          /\ \E parts \in SetToSeqs(S) : \E o \in PlanMerge(mod, parts) :
               /\ mod' = o.mod
               /\ plans' = IF o.plan = NoPlan THEN plans ELSE plans \cup {o.plan}
    BY DEF Plan
  <1>2. PICK parts \in SetToSeqs(S) : \E o \in PlanMerge(mod, parts) :
               /\ mod' = o.mod
               /\ plans' = IF o.plan = NoPlan THEN plans ELSE plans \cup {o.plan}
    BY <1>1
  <1>3. PICK o \in PlanMerge(mod, parts) :
               /\ mod' = o.mod
               /\ plans' = IF o.plan = NoPlan THEN plans ELSE plans \cup {o.plan}
    BY <1>2
  <1>4. /\ planned < job.plans /\ planned' = planned + 1 /\ Pass = "explore"
        /\ UNCHANGED <<job, candidates, front, current, rank>>
    BY DEF Plan, pairVars
  <1>5. IsSequence(parts) /\ Range(parts) = S /\ \E f, g \in S : f # g
    BY <1>1, PlansOfCandidates
  <1>6. Shaped(mod)
    BY DEF WorkInv, IdsInv
  <1>7. /\ Follows(mod', mod)
        /\ o.plan # NoPlan => o.plan.parts = parts /\ o.plan.merged \in Ids(mod')
    <2>1. /\ Follows(o.mod, mod)
          /\ o.plan # NoPlan => o.plan.parts = parts /\ o.plan.merged \in mod.next .. o.mod.next - 1
      BY <1>5, <1>6, ShapesAfterPlans
    <2>2. QED BY <1>3, <1>6, <2>1 DEF Ids, Shaped
  <1>8. JobInv'
    BY <1>4, JobFacts DEF JobInv, WorkInv
  <1>9. IdsInv'
    BY <1>3, <1>4, <1>6, <1>7, IdsGrow DEF IdsInv, WorkInv
  <1>10. WorklistInv' /\ OnlyInv'
    BY <1>4 DEF WorkInv, WorklistInv, OnlyInv, Pass
  <1>11. PendingInv'
    BY <1>3, <1>4, <1>5, <1>7, FS_AddElement DEF WorkInv, PendingInv, Pass, Parts
  <1>12. QED BY <1>8, <1>9, <1>10, <1>11 DEF WorkInv

LEMMA WorkAfterDiscard == WorkInv /\ Discard => WorkInv'
  <1> SUFFICES ASSUME WorkInv, Discard PROVE WorkInv'
    OBVIOUS
  <1>1. PICK p \in plans : mod' = DiscardPlan(mod, p) /\ plans' = plans \ {p}
    BY DEF Discard
  <1>2. Pass = "explore" /\ UNCHANGED <<job, planned, candidates, front, current, rank>>
    BY DEF Discard, pairVars
  <1>3. Shaped(mod) /\ Follows(mod', mod)
    BY <1>1, ShapesAfterMerges DEF WorkInv, IdsInv
  <1>4. JobInv' /\ IdsInv'
    BY <1>1, <1>2, <1>3, IdsGrow DEF IdsInv, JobInv, WorkInv
  <1>5. WorklistInv' /\ OnlyInv'
    BY <1>2 DEF WorkInv, WorklistInv, OnlyInv, Pass
  <1>6. PendingInv'
    BY <1>1, <1>2, FS_RemoveElement DEF WorkInv, PendingInv, Pass, Parts
  <1>7. QED BY <1>4, <1>5, <1>6 DEF WorkInv

LEMMA WorkAfterApply == WorkInv /\ Apply => WorkInv'
  <1> SUFFICES ASSUME WorkInv, Apply PROVE WorkInv'
    OBVIOUS
  <1>1. PICK p \in plans : /\ IsUncontested(p)
                           /\ mod' = ApplyMerge(mod, p) /\ plans' = plans \ {p}
                           /\ candidates' = (candidates \ Parts(p)) \cup {p.merged}
    BY DEF Apply
  <1>2. Pass = "explore" /\ UNCHANGED <<job, planned, front, current, rank>>
    BY DEF Apply, pairVars
  <1>3. Shaped(mod) /\ Follows(mod', mod)
    BY <1>1, ShapesAfterMerges DEF WorkInv, IdsInv
  <1>4. JobInv' /\ IdsInv'
    BY <1>1, <1>2, <1>3, IdsGrow DEF IdsInv, JobInv, WorkInv
  <1>5. WorklistInv' /\ OnlyInv'
    BY <1>2 DEF WorkInv, WorklistInv, OnlyInv, Pass
  <1>6. PendingInv'
    <2>1. IsFiniteSet(plans')
      BY <1>1, FS_RemoveElement DEF WorkInv, PendingInv
    <2>2. ASSUME NEW q \in plans'
          PROVE  Parts(q) \subseteq candidates' /\ \E f, g \in Parts(q) : f # g
      <3>1. Parts(q) \cap Parts(p) = {} /\ q \in plans
        BY <1>1 DEF IsUncontested
      <3>2. Parts(q) \subseteq candidates /\ \E f, g \in Parts(q) : f # g
        BY <1>2, <3>1 DEF WorkInv, PendingInv
      <3>3. QED BY <1>1, <3>1, <3>2
    <2>3. (\A q \in plans : Parts(q) \subseteq candidates /\ \E f, g \in Parts(q) : f # g)'
      BY <2>2 DEF Parts
    <2>4. QED BY <2>1, <2>3 DEF PendingInv, Parts
  <1>7. QED BY <1>4, <1>5, <1>6 DEF WorkInv


LEMMA FoundIsSequence ==
  ASSUME NEW N, NEW names \in Seq(N), Distinct(names)
  PROVE  IsSequence(Found(names)) /\ Found(names) \in Seq(DOMAIN mod.fns)
  BY FoundProperties, SequencesOf

LEMMA WorkAfterPlanManually == WorkInv /\ PlanManually => WorkInv'
  <1> SUFFICES ASSUME WorkInv, PlanManually PROVE WorkInv'
    OBVIOUS
  <1>1. PICK o \in PlanMerge(mod, Found(job.names)) :
          \/ mod' = o.mod /\ plans' = IF o.plan = NoPlan THEN plans ELSE {o.plan}
          \/ \E worse \in plans \cup {o.plan} :
               /\ o.plan # NoPlan /\ mod' = DiscardPlan(o.mod, worse)
               /\ plans' = (plans \cup {o.plan}) \ {worse}
    BY DEF PlanManually
  <1>2. /\ planned < job.plans /\ planned' = planned + 1 /\ Pass = "manual"
        /\ UNCHANGED <<job, candidates, front, current, rank>>
    BY DEF PlanManually, pairVars
  <1>3. Shaped(mod) /\ job \in Jobs
    BY DEF WorkInv, IdsInv, JobInv
  <1>4. IsSequence(Found(job.names))
    BY <1>3, JobFacts, FoundIsSequence
  <1>5. /\ Follows(o.mod, mod)
        /\ o.plan # NoPlan => o.plan.merged \in Ids(o.mod)
    <2>1. /\ Follows(o.mod, mod)
          /\ o.plan # NoPlan => o.plan.merged \in mod.next .. o.mod.next - 1
      BY <1>3, <1>4, ShapesAfterPlans
    <2>2. QED BY <1>3, <2>1 DEF Ids, Shaped
  <1>6. Follows(mod', o.mod) /\ plans' \subseteq plans \cup {o.plan}
        /\ (o.plan = NoPlan => plans' \subseteq plans)
    <2>1. Shaped(o.mod) /\ Follows(o.mod, o.mod)
      BY <1>5 DEF Follows, Shaped
    <2>2. \A worse : Follows(DiscardPlan(o.mod, worse), o.mod)
      BY <2>1, ShapesAfterMerges
    <2>3. QED BY <1>1, <2>1, <2>2
  <1>7. Follows(mod', mod) /\ Ids(o.mod) \subseteq Ids(mod')
    <2>1. Shaped(o.mod)
      BY <1>5 DEF Follows
    <2>2. Follows(mod', mod)
      BY <1>3, <1>5, <1>6, <2>1 DEF Follows, Shaped
    <2>3. QED BY <1>6, <2>1, <2>2, IdsGrow
  <1>8. JobInv'
    BY <1>2, JobFacts DEF JobInv, WorkInv
  <1>9. IdsInv'
    <2>1. \A p \in plans' : p.merged \in Ids(mod')
      BY <1>3, <1>5, <1>6, <1>7, IdsGrow DEF WorkInv, IdsInv
    <2>2. QED BY <1>2, <1>3, <1>7, <2>1, IdsGrow DEF IdsInv, WorkInv
  <1>10. WorklistInv' /\ OnlyInv'
    BY <1>2 DEF WorkInv, WorklistInv, OnlyInv, Pass
  <1>11. PendingInv'
    <2>1. IsFiniteSet(plans \cup {o.plan})
      BY FS_AddElement DEF WorkInv, PendingInv
    <2>2. IsFiniteSet(plans')
      BY <1>6, <2>1, FS_Subset
    <2>3. QED BY <1>2, <2>2 DEF PendingInv, Pass
  <1>12. QED BY <1>8, <1>9, <1>10, <1>11 DEF WorkInv

LEMMA WorkAfterApplyManually == WorkInv /\ ApplyManually => WorkInv'
  <1> SUFFICES ASSUME WorkInv, ApplyManually PROVE WorkInv'
    OBVIOUS
  <1>1. PICK p \in plans : mod' = ApplyMerge(mod, p)
    BY DEF ApplyManually
  <1>2. /\ Pass = "manual" /\ plans' = {}
        /\ UNCHANGED <<job, planned, candidates, front, current, rank>>
    BY DEF ApplyManually, pairVars
  <1>3. Shaped(mod) /\ Follows(mod', mod)
    BY <1>1, ShapesAfterMerges DEF WorkInv, IdsInv
  <1>4. JobInv' /\ IdsInv'
    BY <1>2, <1>3, IdsGrow DEF IdsInv, JobInv, WorkInv
  <1>5. WorklistInv' /\ OnlyInv' /\ PendingInv'
    BY <1>2, FS_EmptySet DEF WorkInv, WorklistInv, OnlyInv, Pass, PendingInv
  <1>6. QED BY <1>4, <1>5 DEF WorkInv


-----------------------------------------------------------------------------
(***************************************************************************)
(* The window of a replay.                                                 *)
(***************************************************************************)
MergesUpTo(k) == Cardinality({i \in 1 .. k : job.remarks[i].isMerge})

(* The remarks left are the rest of the file, after k of them, or the       *)
(* replay has stopped; the merges among those k have been counted.         *)
RemarksInv ==
  /\ remarks \in Seq(Range(job.remarks))
  /\ \E k \in 0 .. Len(job.remarks) :
       /\ count = MergesUpTo(k)
       /\ \/ /\ Len(remarks) = Len(job.remarks) - k
             /\ \A i \in 1 .. Len(remarks) : remarks[i] = job.remarks[k + i]
          \/ remarks = <<>> /\ count >= ReplayEnd

(* The merges counted were replayed if they are in the window. *)
WindowInv == replayed = {i \in 0 .. count - 1 : job.start <= i /\ i < ReplayEnd}

LEMMA MergesProperties ==
  ASSUME job \in Jobs
  PROVE  /\ Len(job.remarks) \in Nat /\ job.remarks \in Seq(Range(job.remarks))
         /\ MergesUpTo(0) = 0
         /\ \A k \in 0 .. Len(job.remarks) :
              /\ MergesUpTo(k) \in 0 .. Len(job.remarks)
              /\ MergesUpTo(k) <= MergesUpTo(Len(job.remarks))
              /\ k < Len(job.remarks) =>
                   MergesUpTo(k + 1) = IF job.remarks[k + 1].isMerge THEN MergesUpTo(k) + 1
                                       ELSE MergesUpTo(k)
  <1> DEFINE M(k) == {i \in 1 .. k : job.remarks[i].isMerge}
             n == Len(job.remarks)
  <1>1. n \in Nat /\ job.remarks \in Seq(Range(job.remarks))
    <2>1. PICK R : job.remarks \in Seq(R)
      BY MergingPassesAssumption DEF IsJob
    <2>2. QED BY <2>1 DEF Range
  <1> HIDE DEF n
  <1>2. M(0) = {}
    OBVIOUS
  <1>3. ASSUME NEW k \in 0 .. n
        PROVE  /\ IsFiniteSet(M(k)) /\ Cardinality(M(k)) \in 0 .. n
               /\ Cardinality(M(k)) <= Cardinality(M(n))
               /\ k < n => M(k + 1)
                      = (IF job.remarks[k + 1].isMerge THEN M(k) \cup {k + 1} ELSE M(k))
               /\ k + 1 \notin M(k)
    <2>1. M(k) \subseteq M(n) /\ M(n) \subseteq 1 .. n /\ M(k) \subseteq 1 .. n
      BY <1>1
    <2>2. IsFiniteSet(1 .. n) /\ Cardinality(1 .. n) = n
      BY <1>1, FS_Interval
    <2>3. k < n => M(k + 1) = (IF job.remarks[k + 1].isMerge THEN M(k) \cup {k + 1} ELSE M(k))
      BY <1>1
    <2>4. k + 1 \notin M(k)
      BY <1>1
    <2> HIDE DEF M
    <2>5. IsFiniteSet(M(k)) /\ IsFiniteSet(M(n)) /\ Cardinality(M(k)) <= n
      BY <2>1, <2>2, FS_Subset
    <2>6. Cardinality(M(k)) \in Nat /\ Cardinality(M(k)) <= Cardinality(M(n))
      BY <2>1, <2>5, FS_Subset, FS_CardinalityType
    <2>7. QED BY <1>1, <2>3, <2>4, <2>5, <2>6
  <1>4. \A k : MergesUpTo(k) = Cardinality(M(k))
    BY DEF MergesUpTo
  <1> HIDE DEF M
  <1>5. MergesUpTo(0) = 0
    BY <1>2, <1>4, FS_EmptySet
  <1>6. ASSUME NEW k \in 0 .. n, k < n
        PROVE  MergesUpTo(k + 1) = IF job.remarks[k + 1].isMerge THEN MergesUpTo(k) + 1
                                   ELSE MergesUpTo(k)
    <2>1. /\ IsFiniteSet(M(k)) /\ k + 1 \notin M(k)
          /\ M(k + 1) = IF job.remarks[k + 1].isMerge THEN M(k) \cup {k + 1} ELSE M(k)
      BY <1>3, <1>6
    <2>2. Cardinality(M(k) \cup {k + 1}) = Cardinality(M(k)) + 1
      BY <2>1, FS_AddElement
    <2>3. MergesUpTo(k) = Cardinality(M(k)) /\ MergesUpTo(k + 1) = Cardinality(M(k + 1))
      BY <1>4
    <2>4. QED BY <2>1, <2>2, <2>3
  <1>7. QED BY <1>1, <1>3, <1>4, <1>5, <1>6 DEF n

(* The next remark is read. *)
LEMMA RemarkIsRead ==
  ASSUME job \in Jobs, RemarksInv, remarks # <<>>, job' = job, remarks' = Tail(remarks),
         count' = IF Head(remarks).isMerge THEN count + 1 ELSE count
  PROVE  RemarksInv' /\ Head(remarks) \in Range(job.remarks) /\ count \in Nat
  <1>1. PICK k \in 0 .. Len(job.remarks) :
          /\ count = MergesUpTo(k)
          /\ Len(remarks) = Len(job.remarks) - k
          /\ \A i \in 1 .. Len(remarks) : remarks[i] = job.remarks[k + i]
    BY DEF RemarksInv
  <1>2. /\ remarks \in Seq(Range(job.remarks)) /\ Len(remarks) \in Nat \ {0}
        /\ Head(remarks) = remarks[1] /\ remarks[1] \in Range(job.remarks)
        /\ Tail(remarks) \in Seq(Range(job.remarks)) /\ Len(Tail(remarks)) = Len(remarks) - 1
        /\ \A i \in 1 .. Len(remarks) - 1 : Tail(remarks)[i] = remarks[i + 1]
    BY DEF RemarksInv
  <1>3. Head(remarks) = job.remarks[k + 1] /\ k + 1 \in 0 .. Len(job.remarks)
    <2>1. Len(job.remarks) \in Nat
      BY MergesProperties
    <2>2. 1 \in 1 .. Len(remarks)
      BY <1>2
    <2>3. Head(remarks) = job.remarks[k + 1]
      BY <1>1, <1>2, <2>2
    <2>4. QED BY <1>1, <1>2, <2>1, <2>3
  <1>4. MergesUpTo(k) \in Nat /\ MergesUpTo(k + 1) = count'
    <2>1. k < Len(job.remarks) /\ Len(job.remarks) \in Nat
      BY <1>3, MergesProperties
    <2>2. /\ MergesUpTo(k) \in 0 .. Len(job.remarks)
          /\ MergesUpTo(k + 1) = IF job.remarks[k + 1].isMerge THEN MergesUpTo(k) + 1
                                 ELSE MergesUpTo(k)
      BY <2>1, MergesProperties
    <2>3. QED BY <1>1, <1>3, <2>1, <2>2
  <1>5. /\ Len(remarks') = Len(job.remarks) - (k + 1)
        /\ \A i \in 1 .. Len(remarks') : remarks'[i] = job.remarks[(k + 1) + i]
    BY <1>1, <1>2, MergesProperties
  <1>6. RemarksInv'
    <2>1. MergesUpTo(k + 1)' = MergesUpTo(k + 1)
      BY DEF MergesUpTo
    <2>2. QED BY <1>2, <1>3, <1>4, <1>5, <2>1 DEF RemarksInv
  <1>7. QED BY <1>1, <1>2, <1>4, <1>6


LEMMA RemarksNext == job \in Jobs /\ RemarksInv /\ [Next]_vars => RemarksInv'
  <1> SUFFICES ASSUME job \in Jobs, RemarksInv, [Next]_vars PROVE RemarksInv'
    OBVIOUS
  <1>1. CASE UNCHANGED <<job, remarks, count>>
    BY <1>1 DEF RemarksInv, MergesUpTo, ReplayEnd
  <1>2. CASE SkipRemark \/ ReplayRemark
    <2>1. /\ remarks # <<>> /\ job' = job /\ remarks' = Tail(remarks)
          /\ count' = IF Head(remarks).isMerge THEN count + 1 ELSE count
      BY <1>2 DEF SkipRemark, ReplayRemark
    <2>2. QED BY <2>1, RemarkIsRead
  <1>3. CASE StopReplay
    <2>1. remarks' = <<>> /\ count >= ReplayEnd /\ UNCHANGED <<job, count>>
      BY <1>3 DEF StopReplay
    <2>2. PICK k \in 0 .. Len(job.remarks) : count = MergesUpTo(k)
      BY DEF RemarksInv
    <2>3. MergesUpTo(k)' = MergesUpTo(k) /\ ReplayEnd' = ReplayEnd
      BY <2>1 DEF MergesUpTo, ReplayEnd
    <2>4. remarks' \in Seq(Range(job'.remarks))
      BY <2>1
    <2>5. QED BY <2>1, <2>2, <2>3, <2>4 DEF RemarksInv
  <1>4. CASE Next /\ ~ (SkipRemark \/ ReplayRemark \/ StopReplay)
    <2>1. UNCHANGED <<job, remarks, count>>
      BY <1>4 DEF Next, Plan, Discard, Apply, PlanManually, ApplyManually, ReplayMerge,
                  NextCandidate, OnlyCandidate, RejectPair, AcceptPair, Return, vars, replayVars
    <2>2. QED BY <1>1, <2>1
  <1>5. QED BY <1>1, <1>2, <1>3, <1>4 DEF vars

LEMMA RemarksInit == Init => RemarksInv /\ WindowInv
  <1> SUFFICES ASSUME Init PROVE RemarksInv /\ WindowInv
    OBVIOUS
  <1>1. job \in Jobs /\ remarks = job.remarks /\ count = 0 /\ replayed = {}
    BY DEF Init
  <1>2. /\ Len(job.remarks) \in Nat /\ job.remarks \in Seq(Range(job.remarks))
        /\ MergesUpTo(0) = 0
    BY <1>1, MergesProperties
  <1>3. RemarksInv
    <2>1. \A i \in 1 .. Len(remarks) : remarks[i] = job.remarks[0 + i]
      BY <1>1, <1>2
    <2>2. 0 \in 0 .. Len(job.remarks) /\ Len(remarks) = Len(job.remarks) - 0
      BY <1>1, <1>2
    <2>3. QED BY <1>1, <1>2, <2>1, <2>2, Zenon DEF RemarksInv
  <1>4. WindowInv
    BY <1>1 DEF WindowInv
  <1>5. QED BY <1>3, <1>4

LEMMA ReplayEndProperties ==
  ASSUME job \in Jobs
  PROVE  /\ job.start \in Nat /\ job.count \in Nat /\ ReplayEnd \in Nat
         /\ WindowWraps => ReplayEnd <= job.start
         /\ ~ WindowWraps => ReplayEnd = job.start + job.count
  <1> DEFINE n == 2^SizeWidth
  <1>1. /\ n \in Nat /\ n > 0
        /\ job.start \in 0 .. n - 1 /\ job.count \in 0 .. n - 1
    BY MergingPassesAssumption DEF IsJob
  <1>2. ReplayEnd = (job.start + job.count) % n /\ (WindowWraps <=> job.start + job.count >= n)
    BY DEF ReplayEnd, WindowWraps
  <1> HIDE DEF n
  <1>3. QED BY <1>1, <1>2

LEMMA WindowNext ==
  job \in Jobs /\ RemarksInv /\ WindowInv /\ [Next]_vars => WindowInv'
  <1> SUFFICES ASSUME job \in Jobs, RemarksInv, WindowInv, [Next]_vars PROVE WindowInv'
    OBVIOUS
  <1>0. ReplayEnd \in Nat /\ job.start \in Nat /\ count \in Nat
    BY MergesProperties, ReplayEndProperties DEF RemarksInv
  <1>1. CASE UNCHANGED <<job, count, replayed>>
    BY <1>1 DEF WindowInv, ReplayEnd
  <1>2. CASE SkipRemark
    <2>1. job' = job /\ replayed' = replayed
      BY <1>2 DEF SkipRemark, replayVars
    <2>2. CASE count' = count
      BY <1>1, <2>1, <2>2
    <2>3. CASE count < job.start /\ count' = count + 1
      BY <1>0, <2>1, <2>3 DEF WindowInv, ReplayEnd
    <2>4. QED BY <1>2, <2>2, <2>3 DEF SkipRemark
  <1>3. CASE ReplayRemark
    <2>1. /\ job' = job /\ replayed' = replayed \cup {count} /\ count' = count + 1
          /\ job.start <= count /\ count < ReplayEnd /\ ReplayEnd' = ReplayEnd
      BY <1>0, <1>3 DEF ReplayRemark, ReplayEnd
    <2>2. QED BY <1>0, <2>1 DEF WindowInv
  <1>4. CASE Next /\ ~ (SkipRemark \/ ReplayRemark)
    <2>1. UNCHANGED <<job, count, replayed>>
      BY <1>4 DEF Next, Plan, Discard, Apply, PlanManually, ApplyManually, ReplayMerge, StopReplay,
                  NextCandidate, OnlyCandidate, RejectPair, AcceptPair, Return, vars, replayVars
    <2>2. QED BY <1>1, <2>1
  <1>5. QED BY <1>1, <1>2, <1>3, <1>4 DEF vars

LEMMA WindowIsSeen ==
  ASSUME job \in Jobs, RemarksInv, WindowInv, Pass = "replay", Done
  PROVE  replayed = {i \in 0 .. Cardinality({r \in DOMAIN job.remarks : job.remarks[r].isMerge}) - 1 :
                       job.start <= i /\ i < ReplayEnd}
  <1> DEFINE n == Len(job.remarks)
             Seen(merges) == {i \in 0 .. merges - 1 : job.start <= i /\ i < ReplayEnd}
             all == Cardinality({r \in DOMAIN job.remarks : job.remarks[r].isMerge})
  <1> SUFFICES replayed = Seen(all)
    OBVIOUS
  <1>1. ReplayEnd \in Nat /\ job.start \in Nat
    BY ReplayEndProperties
  <1>2. remarks = <<>>
    BY DEF Done
  <1>3. n \in Nat /\ all = MergesUpTo(n)
    <2>1. Len(job.remarks) \in Nat /\ job.remarks \in Seq(Range(job.remarks))
      BY MergesProperties
    <2>2. DOMAIN job.remarks = 1 .. Len(job.remarks)
      BY <2>1, LenProperties
    <2>3. QED BY <2>1, <2>2 DEF MergesUpTo
  <1>4. PICK k \in 0 .. n :
          /\ count = MergesUpTo(k)
          /\ Len(remarks) = n - k \/ count >= ReplayEnd
    BY DEF RemarksInv
  <1>5. count \in Nat /\ all \in Nat /\ count <= all
    <2> HIDE DEF all
    <2>1. QED BY <1>3, <1>4, MergesProperties
  <1>0. replayed = Seen(count)
    BY DEF WindowInv
  <1> HIDE DEF all, n
  <1>6. CASE Len(remarks) = n - k
    <2>1. k = n
      BY <1>2, <1>3, <1>4, <1>6
    <2>2. QED BY <1>0, <1>3, <1>4, <2>1
  <1>7. CASE count >= ReplayEnd
    BY <1>0, <1>1, <1>5, <1>7
  <1>8. QED BY <1>4, <1>6, <1>7

LEMMA WindowIsComplete ==
  job \in Jobs /\ RemarksInv /\ WindowInv => WindowIsReplayedUnlessWrapped
  <1> SUFFICES ASSUME job \in Jobs, RemarksInv, WindowInv PROVE WindowIsReplayedUnlessWrapped
    OBVIOUS
  <1>1. CASE WindowWraps
    BY <1>1, ReplayEndProperties DEF WindowInv, WindowIsReplayedUnlessWrapped
  <1>2. CASE ~ WindowWraps
    <2>1. ReplayEnd = job.start + job.count
      BY <1>2, ReplayEndProperties
    <2>2. QED BY <1>2, <2>1, WindowIsSeen DEF WindowIsReplayedUnlessWrapped, WindowIsReplayed
  <1>3. QED BY <1>1, <1>2


-----------------------------------------------------------------------------
(***************************************************************************)
(* The other actions of a pass, and the measure they lower.                *)
(***************************************************************************)
LEMMA WorkUnchanged ==
  WorkInv /\ UNCHANGED <<job, mod, plans, planned, candidates, front, current, rank>> => WorkInv'
  BY DEF WorkInv, JobInv, IdsInv, WorklistInv, OnlyInv, PendingInv, Pass

(* The names of a remark. *)
LEMMA RemarkNames ==
  ASSUME job \in Jobs, NEW r \in Range(job.remarks)
  PROVE  /\ r.names \in Seq(Seq(STRING)) /\ Distinct(r.names)
         /\ AreNames(job.mod, r.names)
  <1>1. \A i \in DOMAIN job.remarks : AreNames(job.mod, job.remarks[i].names)
    BY MergingPassesAssumption DEF IsJob
  <1>2. AreNames(job.mod, r.names)
    BY <1>1 DEF Range
  <1>3. QED BY <1>2 DEF AreNames, Distinct

LEMMA SourcesOfRemark ==
  ASSUME job \in Jobs, RemarksInv, ReplayRemark
  PROVE  /\ front' = <<>> \/ front' = Reverse(Found(Head(remarks).names))
         /\ Head(remarks) \in Range(job.remarks)
         /\ front' \in Seq(DOMAIN mod.fns) /\ Distinct(front')
  <1>1. Head(remarks) \in Range(job.remarks)
    <2>1. remarks # <<>> /\ remarks \in Seq(Range(job.remarks))
      BY DEF ReplayRemark, RemarksInv
    <2>2. QED BY <2>1
  <1>2. front' = <<>> \/ front' = Reverse(Found(Head(remarks).names))
    BY DEF ReplayRemark
  <1>3. /\ Found(Head(remarks).names) \in Seq(DOMAIN mod.fns)
        /\ Distinct(Found(Head(remarks).names))
    BY <1>1, RemarkNames, FoundProperties
  <1>4. <<>> \in Seq(DOMAIN mod.fns) /\ Distinct(<<>>)
    BY DEF Distinct
  <1>5. QED BY <1>1, <1>2, <1>3, <1>4, ReverseProperties

LEMMA WorkAfterReplayRemark == WorkInv /\ RemarksInv /\ ReplayRemark => WorkInv'
  <1> SUFFICES ASSUME WorkInv, RemarksInv, ReplayRemark PROVE WorkInv'
    OBVIOUS
  <1>1. Pass = "replay" /\ UNCHANGED <<job, mod, plans, planned, candidates, current, rank>>
    BY DEF ReplayRemark, pairVars
  <1>2. front' \in Seq(Ids(mod))
    <2>1. front' \in Seq(DOMAIN mod.fns)
      BY SourcesOfRemark DEF WorkInv, JobInv
    <2>2. DOMAIN mod.fns \subseteq Ids(mod)
      BY DEF WorkInv, IdsInv, Shaped, Ids
    <2>3. QED BY <2>1, <2>2, SeqMonotonic
  <1>3. QED BY <1>1, <1>2 DEF WorkInv, JobInv, IdsInv, WorklistInv, OnlyInv, PendingInv, Pass

(* What replayMergeWithMaxN takes off the end of Sources, and what it leaves. *)
Count == IF MaxMergeSize < Len(front) THEN MaxMergeSize ELSE Len(front)
LeftSources == SubSeq(front, 1, Len(front) - Count)
TakenSources == Reverse(SubSeq(front, Len(front) - Count + 1, Len(front)))

LEMMA SourcesAreSplit ==
  ASSUME NEW S, front \in Seq(S), Len(front) >= 2
  PROVE  /\ Count \in 2 .. Len(front)
         /\ LeftSources \in Seq(S) /\ Len(LeftSources) = Len(front) - Count
         /\ \A i \in 1 .. Len(front) - Count : LeftSources[i] = front[i]
         /\ TakenSources \in Seq(S) /\ Len(TakenSources) = Count
         /\ \A i \in 1 .. Count : TakenSources[i] = front[Len(front) - i + 1]
  <1>1. Count \in 2 .. Len(front) /\ Len(front) \in Nat
    BY MergingPassesAssumption DEF Count
  <1>2. /\ LeftSources \in Seq(S) /\ Len(LeftSources) = Len(front) - Count
        /\ \A i \in 1 .. Len(front) - Count : LeftSources[i] = front[i]
    <2>1. SubSeq(front, 1, Len(front) - Count) \in Seq(S)
      BY <1>1
    <2>2. QED BY <1>1, <2>1, SubSeqProperties DEF LeftSources
  <1> DEFINE last == SubSeq(front, Len(front) - Count + 1, Len(front))
  <1>3. /\ last \in Seq(S) /\ Len(last) = Count
        /\ \A i \in 1 .. Count : last[i] = front[Len(front) - Count + i]
    <2>1. last \in Seq(S)
      BY <1>1
    <2>2. /\ Len(front) - (Len(front) - Count + 1) + 1 = Count
          /\ \A i \in 1 .. Count : Len(front) - Count + 1 + i - 1 = Len(front) - Count + i
      BY <1>1
    <2>3. QED BY <1>1, <2>1, <2>2, SubSeqProperties
  <1> HIDE DEF last
  <1>4. TakenSources \in Seq(S) /\ Len(TakenSources) = Count
    BY <1>3, ReverseProperties DEF TakenSources, last
  <1>5. ASSUME NEW i \in 1 .. Count
        PROVE  TakenSources[i] = front[Len(front) - i + 1]
    <2>1. TakenSources = [j \in 1 .. Len(last) |-> last[(Len(last) - j) + 1]]
      BY DEF TakenSources, last, Reverse
    <2>2. (Count - i) + 1 \in 1 .. Count
          /\ Len(front) - Count + ((Count - i) + 1) = Len(front) - i + 1
      BY <1>1
    <2>3. QED BY <1>3, <2>1, <2>2
  <1>6. QED BY <1>1, <1>2, <1>4, <1>5

LEMMA WorkAfterReplayMerge == WorkInv /\ ReplayMerge => WorkInv'
  <1> SUFFICES ASSUME WorkInv, ReplayMerge PROVE WorkInv'
    OBVIOUS
  <1>1. Pass = "replay" /\ UNCHANGED <<job, plans, planned, candidates, current, rank>>
        /\ Len(front) >= 2
    BY DEF ReplayMerge, pairVars
  <1>2. PICK o \in PlanMerge(mod, TakenSources) :
          IF o.plan = NoPlan THEN mod' = o.mod /\ front' = LeftSources
          ELSE mod' = ApplyMerge(o.mod, o.plan) /\ front' = Append(LeftSources, o.plan.merged)
    BY DEF ReplayMerge, LeftSources, TakenSources, Count
  <1>3. Shaped(mod) /\ LeftSources \in Seq(Ids(mod)) /\ IsSequence(TakenSources)
    BY <1>1, SourcesAreSplit, SequencesOf DEF WorkInv, IdsInv
  <1>4. /\ Follows(o.mod, mod)
        /\ o.plan # NoPlan => o.plan.merged \in mod.next .. o.mod.next - 1
    BY <1>3, ShapesAfterPlans
  <1>5. /\ Follows(mod', mod) /\ mod'.next = o.mod.next
    BY <1>2, <1>4, ShapesAfterMerges DEF Follows
  <1>6. front' \in Seq(Ids(mod'))
    <2>1. LeftSources \in Seq(Ids(mod'))
      BY <1>3, <1>5, IdsGrow
    <2>2. o.plan # NoPlan => o.plan.merged \in Ids(mod')
      BY <1>3, <1>4, <1>5 DEF Ids, Shaped
    <2>3. QED BY <1>2, <2>1, <2>2
  <1>7. QED BY <1>1, <1>3, <1>5, <1>6, IdsGrow
            DEF WorkInv, JobInv, IdsInv, WorklistInv, OnlyInv, PendingInv, Pass


(* The matches left after a trial. *)
LEMMA TrialShortensRank ==
  ASSUME NEW S, rank \in Seq(S), rank # <<>>, NEW success, rank' = RankAfter(success)
  PROVE  /\ rank' \in Seq(S) /\ Len(rank') < Len(rank) /\ Len(rank) \in Nat
         /\ Len(rank') \in Nat
         /\ Range(rank') \subseteq Range(rank) /\ Last(rank) \in S /\ Last(rank) \in Range(rank)
         /\ Distinct(rank) => Distinct(rank') /\ rank' \in Seq(S \ {Last(rank)})
  <1>1. rank' = <<>> \/ rank' = Front(rank)
    BY DEF RankAfter
  <1>2. /\ Front(rank) \in Seq(S) /\ Len(rank) \in Nat \ {0} /\ Len(Front(rank)) = Len(rank) - 1
        /\ Last(rank) \in S /\ Last(rank) \in ToSet(rank)
               /\ ToSet(Front(rank)) \subseteq ToSet(rank)
    BY FrontProperties
  <1>3. /\ Len(<<>>) = 0 /\ \A T : <<>> \in Seq(T)
        /\ DOMAIN <<>> = {} /\ Range(<<>>) = {} /\ Distinct(<<>>)
    BY DEF Range, Distinct
  <1>4. ASSUME Distinct(rank)
        PROVE  Distinct(Front(rank)) /\ Front(rank) \in Seq(S \ {Last(rank)})
    <2>1. ToSet(Front(rank)) = ToSet(rank) \ {Last(rank)} /\ Distinct(Front(rank))
      BY <1>4, FrontOfInjective DEF Distinct
    <2>2. Front(rank) \in Seq(ToSet(Front(rank)))
      BY <1>2 DEF ToSet
    <2>3. ToSet(rank) \subseteq S
      BY DEF ToSet
    <2>4. QED BY <2>1, <2>2, <2>3, SeqMonotonic
  <1>5. ToSet(rank) = Range(rank) /\ ToSet(Front(rank)) = Range(Front(rank))
    BY DEF ToSet, Range
  <1>6. CASE rank' = <<>>
    BY <1>2, <1>3, <1>5, <1>6
  <1>7. CASE rank' = Front(rank)
    <2> HIDE DEF Distinct
    <2>1. Len(rank') < Len(rank) /\ Len(rank') \in Nat
      BY <1>2, <1>7
    <2>2. QED BY <1>2, <1>4, <1>5, <1>7, <2>1
  <1>8. QED BY <1>1, <1>6, <1>7

LEMMA WorkAfterRejectPair == WorkInv /\ RejectPair => WorkInv'
  <1> SUFFICES ASSUME WorkInv, RejectPair PROVE WorkInv'
    OBVIOUS
  <1>1. /\ rank # <<>> /\ rank' = RankAfter(FALSE)
        /\ UNCHANGED <<job, mod, plans, planned, candidates, front, current>>
    BY DEF RejectPair
  <1>2. rank \in Seq(Ids(mod))
    BY DEF WorkInv, IdsInv
  <1>3. rank' \in Seq(Ids(mod))
    BY <1>1, <1>2, TrialShortensRank
  <1>4. WorklistInv'
    <2>1. ASSUME Pass \in {"func-merging", "fastfm", "fmsa"}
          PROVE  rank' \in Seq(candidates) /\ Distinct(rank')
      <3>1. rank \in Seq(candidates) /\ Distinct(rank)
        BY <2>1 DEF WorkInv, WorklistInv
      <3>2. QED BY <1>1, <3>1, TrialShortensRank
    <2>2. QED BY <1>1, <2>1 DEF WorkInv, WorklistInv, Pass, Distinct
  <1>5. OnlyInv'
    BY <1>1 DEF WorkInv, OnlyInv, Pass
  <1>6. QED BY <1>1, <1>3, <1>4, <1>5 DEF WorkInv, JobInv, IdsInv, PendingInv, Pass

LEMMA WorkAfterAcceptPair == WorkInv /\ AcceptPair => WorkInv'
  <1> SUFFICES ASSUME WorkInv, AcceptPair PROVE WorkInv'
    OBVIOUS
  <1>1. /\ rank # <<>> /\ rank' = RankAfter(TRUE) /\ IsPairwise
        /\ mod' \in MergePair(PairPass, mod, current, Last(rank))
        /\ IF Pass = "only" THEN UNCHANGED <<candidates, front>>
           ELSE /\ candidates' = Requeue(Last(rank))
                /\ front' = <<mod.next>>
                             \o Items(front, {i \in DOMAIN front : front[i] # Last(rank)})
        /\ UNCHANGED <<job, plans, planned, current>>
    BY DEF AcceptPair
  <1>2. /\ Shaped(mod) /\ rank \in Seq(Ids(mod)) /\ front \in Seq(Ids(mod))
        /\ candidates \subseteq Ids(mod) /\ mod.next \in Nat \ {0}
    BY DEF WorkInv, IdsInv, Shaped
  <1>3. Follows(mod', mod) /\ mod'.next = mod.next + 1
    BY <1>1, <1>2, ShapesAfterPairs
  <1>4. Ids(mod) \subseteq Ids(mod') /\ mod.next \in Ids(mod') /\ mod.next \notin Ids(mod)
    BY <1>2, <1>3, IdsGrow DEF Ids
  <1>5. rank' \in Seq(Ids(mod'))
    <2>1. rank' \in Seq(Ids(mod))
      BY <1>1, <1>2, TrialShortensRank
    <2>2. QED BY <1>4, <2>1, SeqMonotonic
  <1> DEFINE f2 == Last(rank)
             I == {i \in DOMAIN front : front[i] # f2}
             rest == Items(front, I)
  <1>6. ASSUME NEW T, front \in Seq(T)
        PROVE  /\ rest \in Seq(T \ {f2})
               /\ Distinct(front) => Distinct(rest)
               /\ <<mod.next>> \o rest \in Seq((T \ {f2}) \cup {mod.next})
    <2>1. I \in SUBSET DOMAIN front /\ {front[i] : i \in I} \subseteq T \ {f2}
      BY <1>6
    <2>2. rest \in Seq({front[i] : i \in I})
      <3> HIDE DEF I
      <3>1. QED BY <1>6, <2>1, ItemsProperties
    <2>3. Distinct(front) => Distinct(rest)
      <3> HIDE DEF I
      <3>1. QED BY <1>6, <2>1, ItemsDistinct
    <2>4. rest \in Seq(T \ {f2})
      <3> HIDE DEF I, rest
      <3>1. QED BY <2>1, <2>2, SeqMonotonic
    <2>5. rest \in Seq((T \ {f2}) \cup {mod.next})
              /\ <<mod.next>> \in Seq((T \ {f2}) \cup {mod.next})
      <3> HIDE DEF rest, f2
      <3>1. rest \in Seq((T \ {f2}) \cup {mod.next})
        BY <2>4, SeqMonotonic
      <3>2. QED BY <3>1
    <2> HIDE DEF rest, f2
    <2>6. QED BY <2>3, <2>4, <2>5
  <1>7. IdsInv'
    <2>1. front' \in Seq(Ids(mod'))
      <3>1. <<mod.next>> \o rest \in Seq((Ids(mod) \ {f2}) \cup {mod.next})
        BY <1>2, <1>6
      <3>2. (Ids(mod) \ {f2}) \cup {mod.next} \subseteq Ids(mod')
        BY <1>4
      <3> HIDE DEF f2, rest
      <3>3. <<mod.next>> \o rest \in Seq(Ids(mod'))
        BY <3>1, <3>2, SeqMonotonic
      <3>4. QED BY <1>1, <1>2, <1>4, <3>3, SeqMonotonic DEF rest, f2
    <2>2. candidates' \subseteq Ids(mod')
      BY <1>1, <1>2, <1>4 DEF Requeue
    <2>3. QED BY <1>1, <1>3, <1>4, <1>5, <2>1, <2>2 DEF WorkInv, IdsInv, Follows
  <1>8. WorklistInv'
    <2> SUFFICES ASSUME Pass \in {"func-merging", "fastfm", "fmsa"}
                 PROVE  /\ front' \in Seq(candidates') /\ Distinct(front')
                        /\ rank' \in Seq(candidates') /\ Distinct(rank')
      BY <1>1 DEF WorklistInv, Pass, Distinct
    <2>1. /\ front \in Seq(candidates) /\ Distinct(front)
          /\ rank \in Seq(candidates) /\ Distinct(rank)
      BY DEF WorkInv, WorklistInv
    <2>2. candidates' = (candidates \ {f2}) \cup {mod.next} /\ front' = <<mod.next>> \o rest
      BY <1>1 DEF Requeue
    <2>3. /\ rest \in Seq(candidates \ {f2}) /\ Distinct(rest)
          /\ front' \in Seq(candidates')
      <3> HIDE DEF rest, f2
      <3>1. /\ rest \in Seq(candidates \ {f2}) /\ Distinct(rest)
            /\ <<mod.next>> \o rest \in Seq((candidates \ {f2}) \cup {mod.next})
        BY <1>6, <2>1
      <3>2. QED BY <2>2, <3>1
    <2>4. Distinct(rank') /\ rank' \in Seq(candidates')
      <3>1. Distinct(rank') /\ rank' \in Seq(candidates \ {f2})
        BY <1>1, <2>1, TrialShortensRank
      <3> HIDE DEF f2
      <3>2. QED BY <2>2, <3>1, SeqMonotonic
    <2>5. Distinct(<<mod.next>> \o rest)
      <3> HIDE DEF rest, f2
      <3>1. /\ Len(rest) \in Nat /\ DOMAIN rest = 1 .. Len(rest)
            /\ \A i \in 1 .. Len(rest) : rest[i] # mod.next
        <4>1. Len(rest) \in Nat /\ DOMAIN rest = 1 .. Len(rest)
          BY <2>3, LenProperties
        <4>2. \A i \in 1 .. Len(rest) : rest[i] \in candidates
          BY <2>3
        <4>3. QED BY <1>2, <1>4, <4>1, <4>2
      <3> DEFINE s == <<mod.next>> \o rest
      <3>2. /\ DOMAIN s = 1 .. Len(rest) + 1 /\ s[1] = mod.next
            /\ \A i \in 2 .. Len(rest) + 1 : i - 1 \in 1 .. Len(rest) /\ s[i] = rest[i - 1]
        BY <2>3, <3>1
      <3> HIDE DEF s
      <3>3. ASSUME NEW i \in DOMAIN s, NEW j \in DOMAIN s, s[i] = s[j] PROVE i = j
        <4>1. CASE i = 1 \/ j = 1
          BY <3>1, <3>2, <3>3, <4>1
        <4>2. CASE i # 1 /\ j # 1
          <5>1. i \in 2 .. Len(rest) + 1 /\ j \in 2 .. Len(rest) + 1
            BY <3>1, <3>2, <4>2
          <5>2. i - 1 = j - 1
            BY <2>3, <3>1, <3>2, <3>3, <5>1 DEF Distinct
          <5>3. QED BY <5>1, <5>2
        <4>3. QED BY <4>1, <4>2
      <3>4. QED BY <3>3 DEF Distinct, s
    <2>6. Distinct(front')
      BY <2>2, <2>5
    <2>7. QED BY <2>3, <2>4, <2>6
  <1>9. OnlyInv'
    <2>1. ~ (Pass = "only" /\ current = None)
      BY <1>1 DEF WorkInv, OnlyInv
    <2>2. QED BY <1>1, <2>1 DEF OnlyInv, Pass
  <1>10. Pass # "explore"
    BY <1>1 DEF IsPairwise, PairwisePasses
  <1>11. JobInv' /\ PendingInv'
    BY <1>1, <1>10 DEF WorkInv, JobInv, PendingInv, Pass
  <1>12. QED BY <1>7, <1>8, <1>9, <1>11 DEF WorkInv


LEMMA WorkAfterNextCandidate == WorkInv /\ NextCandidate => WorkInv'
  <1> SUFFICES ASSUME WorkInv, NextCandidate PROVE WorkInv'
    OBVIOUS
  <1>1. /\ Pass \in {"func-merging", "fastfm", "fmsa"}
        /\ candidates # {} /\ UNCHANGED <<job, mod, plans, planned>>
        /\ front' = IF front = <<>> THEN front ELSE Tail(front)
    BY DEF NextCandidate
  <1>2. PICK f1 \in (IF front = <<>> THEN candidates ELSE {Head(front)}) :
          /\ current' = f1 /\ candidates' = candidates \ {f1}
          /\ \E S \in SUBSET Matches(f1, candidates \ {f1}) : rank' \in SetToSeqs(S)
    BY DEF NextCandidate
  <1>3. PICK S \in SUBSET Matches(f1, candidates \ {f1}) : rank' \in SetToSeqs(S)
    BY <1>2
  <1>4. /\ Shaped(mod) /\ candidates \subseteq Ids(mod)
        /\ front \in Seq(candidates) /\ Distinct(front)
    BY <1>1 DEF WorkInv, IdsInv, WorklistInv
  <1>5. f1 \in candidates /\ S \subseteq candidates \ {f1} /\ S \subseteq Ids(mod)
    BY <1>2, <1>4 DEF Matches
  <1>6. rank' \in Seq(S) /\ Distinct(rank')
    BY <1>3, <1>4, <1>5, FiniteIds, PermutationProperties
  <1>7. rank' \in Seq(candidates') /\ rank' \in Seq(Ids(mod))
    BY <1>2, <1>5, <1>6, SeqMonotonic
  <1>8. front' \in Seq(candidates') /\ Distinct(front')
    <2>1. CASE front = <<>>
      BY <1>1, <1>4, <2>1
    <2>2. CASE front # <<>>
      <3>1. front' = Tail(front) /\ f1 = front[1] /\ Len(front) \in Nat \ {0}
        BY <1>1, <1>2, <1>4, <2>2
      <3>2. /\ DOMAIN front' = 1 .. Len(front) - 1 /\ Len(front') = Len(front) - 1
            /\ \A i \in 1 .. Len(front) - 1 : front'[i] = front[i + 1]
            /\ front' \in Seq(candidates)
        BY <1>4, <2>2, <3>1
      <3>3. \A i \in 1 .. Len(front') : front'[i] \in candidates'
        BY <1>2, <1>4, <3>1, <3>2 DEF Distinct
      <3>4. front' \in Seq(candidates')
        BY <3>2, <3>3
      <3>5. Distinct(front')
        BY <1>4, <3>1, <3>2 DEF Distinct
      <3>6. QED BY <3>4, <3>5
    <2>3. QED BY <2>1, <2>2
  <1>9. front' \in Seq(Ids(mod)) /\ candidates' \subseteq Ids(mod)
    BY <1>2, <1>4, <1>8, SeqMonotonic
  <1>10. WorklistInv'
    BY <1>6, <1>7, <1>8 DEF WorklistInv, Distinct
  <1>11. IdsInv' /\ JobInv' /\ OnlyInv' /\ PendingInv'
    BY <1>1, <1>2, <1>4, <1>5, <1>7, <1>9
       DEF WorkInv, IdsInv, JobInv, OnlyInv, PendingInv, Pass
  <1>12. QED BY <1>10, <1>11 DEF WorkInv

(* MatcherManual finds the functions that are named. *)
LEMMA OnlyFindsSome ==
  ASSUME WorkInv, OnlyCandidate
  PROVE  /\ Found(job.names) \in Seq(DOMAIN mod.fns) /\ Distinct(Found(job.names))
         /\ Found(job.names) # <<>>
  <1>1. Pass = "only" /\ current = None /\ job \in Jobs
    BY DEF OnlyCandidate, WorkInv, JobInv
  <1>2. mod = job.mod
    BY <1>1 DEF WorkInv, OnlyInv
  <1>3. \E i \in DOMAIN job.names : Named(mod, job.names[i]) # {}
    BY <1>1, <1>2, MergingPassesAssumption DEF IsJob, Pass
  <1>4. job.names \in Seq(Seq(STRING)) /\ Distinct(job.names)
    BY <1>1, JobFacts
  <1>5. QED BY <1>3, <1>4, FoundProperties

LEMMA WorkAfterOnlyCandidate == WorkInv /\ OnlyCandidate => WorkInv'
  <1> SUFFICES ASSUME WorkInv, OnlyCandidate PROVE WorkInv'
    OBVIOUS
  <1>1. /\ Pass = "only" /\ UNCHANGED <<job, mod, plans, planned, candidates, front>>
        /\ current' = Head(Found(job.names)) /\ rank' = Tail(Found(job.names))
    BY DEF OnlyCandidate
  <1>2. DOMAIN mod.fns \subseteq Ids(mod) /\ Shaped(mod)
    BY DEF WorkInv, IdsInv, Shaped, Ids
  <1>3. Found(job.names) \in Seq(Ids(mod)) /\ Found(job.names) # <<>>
    BY <1>2, OnlyFindsSome, SeqMonotonic
  <1>4. current' \in Ids(mod) /\ rank' \in Seq(Ids(mod)) /\ current' # None
    <2>1. current' \in Ids(mod) /\ rank' \in Seq(Ids(mod))
      BY <1>1, <1>3
    <2>2. QED BY <1>2, <2>1, FiniteIds
  <1>5. QED BY <1>1, <1>4
            DEF WorkInv, IdsInv, JobInv, WorklistInv, OnlyInv, PendingInv, Pass

LEMMA WorkNext == WorkInv /\ RemarksInv /\ [Next]_vars => WorkInv'
  <1> SUFFICES ASSUME WorkInv, RemarksInv, [Next]_vars PROVE WorkInv'
    OBVIOUS
  <1>1. CASE SkipRemark \/ StopReplay \/ Return \/ UNCHANGED vars
    BY <1>1, WorkUnchanged DEF SkipRemark, StopReplay, Return, vars, pairVars
  <1>2. CASE Plan \/ Discard \/ Apply
    BY <1>2, WorkAfterPlan, WorkAfterDiscard, WorkAfterApply
  <1>3. CASE PlanManually \/ ApplyManually
    BY <1>3, WorkAfterPlanManually, WorkAfterApplyManually
  <1>4. CASE ReplayRemark \/ ReplayMerge
    BY <1>4, WorkAfterReplayRemark, WorkAfterReplayMerge
  <1>5. CASE NextCandidate \/ OnlyCandidate
    BY <1>5, WorkAfterNextCandidate, WorkAfterOnlyCandidate
  <1>6. CASE RejectPair \/ AcceptPair
    BY <1>6, WorkAfterRejectPair, WorkAfterAcceptPair
  <1>7. QED BY <1>1, <1>2, <1>3, <1>4, <1>5, <1>6 DEF Next

LEMMA WorkIsKept == Spec => [](WorkInv /\ RemarksInv)
  <1>1. WorkInv => job \in Jobs
    BY DEF WorkInv, JobInv
  <1>2. WorkInv /\ RemarksInv /\ [Next]_vars => (WorkInv /\ RemarksInv)'
    BY <1>1, WorkNext, RemarksNext
  <1>3. QED BY <1>2, WorkInit, RemarksInit, PTL DEF Spec

(* All identities are of functions the module has or had, and the counts    *)
(* are within their bounds.                                                *)
THEOREM TypeCorrect == Spec => []TypeOK
  <1>1. WorkInv /\ RemarksInv => TypeOK
    <2> SUFFICES ASSUME WorkInv, RemarksInv PROVE TypeOK
      OBVIOUS
    <2>1. job \in Jobs /\ planned \in 0 .. job.plans
      BY DEF WorkInv, JobInv
    <2>2. /\ mod.next \in Nat \ {0} /\ DOMAIN mod.fns \subseteq 1 .. mod.next - 1
          /\ candidates \subseteq 1 .. mod.next - 1
          /\ front \in Seq(1 .. mod.next - 1)
          /\ current \in (1 .. mod.next - 1) \cup {None}
      BY DEF WorkInv, IdsInv, Shaped, Ids
    <2>3. Range(front) \subseteq 1 .. mod.next - 1
      BY <2>2 DEF Range
    <2>4. current \in 0 .. mod.next - 1
      BY <2>2 DEF None
    <2>5. count \in 0 .. Len(job.remarks)
      BY <2>1, MergesProperties DEF RemarksInv
    <2>6. QED BY <2>1, <2>2, <2>3, <2>4, <2>5 DEF TypeOK
  <1>2. QED BY <1>1, WorkIsKept, PTL

(* A replay that is over has replayed the merges from the start-th on, as   *)
(* many as it was asked for, or none at all if the end of the window is     *)
(* beyond the greatest size_t (ReplayingMergeExploration::run).            *)
THEOREM WindowIsReplayedInFull == Spec => []WindowIsReplayedUnlessWrapped
  <1>1. WorkInv => job \in Jobs
    BY DEF WorkInv, JobInv
  <1>2. (WorkInv /\ RemarksInv) /\ WindowInv /\ [Next]_vars => WindowInv'
    BY <1>1, WindowNext
  <1>3. WorkInv /\ RemarksInv /\ WindowInv => WindowIsReplayedUnlessWrapped
    BY <1>1, WindowIsComplete
  <1>4. Init => WindowInv
    BY RemarksInit
  <1>5. QED BY <1>2, <1>3, <1>4, WorkIsKept, PTL DEF Spec


(* One tuple of six numbers is below another if the first in which they     *)
(* differ is.                                                              *)
LEMMA LexicographicallyLess ==
  ASSUME NEW s, NEW t,
         NEW s1, NEW s2, NEW s3, NEW s4, NEW s5, NEW s6,
         NEW t1, NEW t2, NEW t3, NEW t4, NEW t5, NEW t6,
         s = <<s1, s2, s3, s4, s5, s6>>, t = <<t1, t2, t3, t4, t5, t6>>,
         \/ s1 < t1
         \/ s1 = t1 /\ s2 < t2
         \/ s1 = t1 /\ s2 = t2 /\ s3 < t3
         \/ s1 = t1 /\ s2 = t2 /\ s3 = t3 /\ s4 < t4
         \/ s1 = t1 /\ s2 = t2 /\ s3 = t3 /\ s4 = t4 /\ s5 < t5
         \/ s1 = t1 /\ s2 = t2 /\ s3 = t3 /\ s4 = t4 /\ s5 = t5 /\ s6 < t6
  PROVE  Less(s, t)
  <1>1. /\ DOMAIN s = 1 .. 6
        /\ s[1] = s1 /\ s[2] = s2 /\ s[3] = s3 /\ s[4] = s4 /\ s[5] = s5 /\ s[6] = s6
        /\ t[1] = t1 /\ t[2] = t2 /\ t[3] = t3 /\ t[4] = t4 /\ t[5] = t5 /\ t[6] = t6
    OBVIOUS
  <1>2. PICK i \in 1 .. 6 : s[i] < t[i] /\ \A j \in 1 .. i - 1 : s[j] = t[j]
    <2>1. CASE s1 < t1
      <3>1. s[1] < t[1] /\ \A j \in 1 .. 1 - 1 : s[j] = t[j]
        BY <1>1, <2>1
      <3>2. QED BY <3>1
    <2>2. CASE s1 = t1 /\ s2 < t2
      <3>1. \A j \in 1 .. 2 - 1 : j = 1
        OBVIOUS
      <3>2. s[2] < t[2] /\ \A j \in 1 .. 2 - 1 : s[j] = t[j]
        BY <1>1, <2>2, <3>1
      <3>3. QED BY <3>2
    <2>3. CASE s1 = t1 /\ s2 = t2 /\ s3 < t3
      <3>1. \A j \in 1 .. 3 - 1 : j = 1 \/ j = 2
        OBVIOUS
      <3>2. s[3] < t[3] /\ \A j \in 1 .. 3 - 1 : s[j] = t[j]
        BY <1>1, <2>3, <3>1
      <3>3. QED BY <3>2
    <2>4. CASE s1 = t1 /\ s2 = t2 /\ s3 = t3 /\ s4 < t4
      <3>1. \A j \in 1 .. 4 - 1 : j = 1 \/ j = 2 \/ j = 3
        OBVIOUS
      <3>2. s[4] < t[4] /\ \A j \in 1 .. 4 - 1 : s[j] = t[j]
        BY <1>1, <2>4, <3>1
      <3>3. QED BY <3>2
    <2>5. CASE s1 = t1 /\ s2 = t2 /\ s3 = t3 /\ s4 = t4 /\ s5 < t5
      <3>1. \A j \in 1 .. 5 - 1 : j = 1 \/ j = 2 \/ j = 3 \/ j = 4
        OBVIOUS
      <3>2. s[5] < t[5] /\ \A j \in 1 .. 5 - 1 : s[j] = t[j]
        BY <1>1, <2>5, <3>1
      <3>3. QED BY <3>2
    <2>6. CASE s1 = t1 /\ s2 = t2 /\ s3 = t3 /\ s4 = t4 /\ s5 = t5 /\ s6 < t6
      <3>1. \A j \in 1 .. 6 - 1 : j = 1 \/ j = 2 \/ j = 3 \/ j = 4 \/ j = 5
        OBVIOUS
      <3>2. s[6] < t[6] /\ \A j \in 1 .. 6 - 1 : s[j] = t[j]
        BY <1>1, <2>6, <3>1
      <3>3. QED BY <3>2
    <2>7. QED BY <2>1, <2>2, <2>3, <2>4, <2>5, <2>6
  <1>3. QED BY <1>1, <1>2 DEF Less

(* The parts of the measure. *)
NotStarted == IF current = None THEN 1 ELSE 0
Waiting == IF Pass = "replay" THEN Len(front) ELSE Cardinality(candidates)

LEMMA WorkParts ==
  ASSUME WorkInv
  PROVE  /\ IsFiniteSet(candidates) /\ Cardinality(candidates) \in Nat
         /\ IsFiniteSet(plans) /\ Cardinality(plans) \in Nat
         /\ Len(front) \in Nat /\ Len(rank) \in Nat /\ job.plans - planned \in Nat
         /\ Waiting \in Nat
  <1>1. Shaped(mod) /\ candidates \subseteq Ids(mod) /\ front \in Seq(Ids(mod))
            /\ rank \in Seq(Ids(mod))
    BY DEF WorkInv, IdsInv
  <1>2. IsFiniteSet(candidates) /\ Cardinality(candidates) \in Nat
    BY <1>1, FiniteIds
  <1>3. IsFiniteSet(plans) /\ Cardinality(plans) \in Nat
    BY FS_CardinalityType DEF WorkInv, PendingInv
  <1>4. job.plans - planned \in Nat
    BY JobFacts DEF WorkInv, JobInv
  <1>5. Len(front) \in Nat /\ Len(rank) \in Nat
    BY <1>1
  <1>6. QED BY <1>2, <1>3, <1>4, <1>5 DEF Waiting

(* A merge of an exploration leaves fewer candidates. *)
LEMMA ApplyTakesCandidates ==
  ASSUME WorkInv, Apply
  PROVE  Cardinality(candidates') < Cardinality(candidates)
  <1>1. PICK p \in plans : candidates' = (candidates \ Parts(p)) \cup {p.merged}
    BY DEF Apply
  <1>2. PICK f \in Parts(p), g \in Parts(p) : f # g
    BY DEF WorkInv, PendingInv, Apply
  <1>3. Parts(p) \subseteq candidates
    BY DEF WorkInv, PendingInv, Apply
  <1>4. IsFiniteSet(candidates) /\ Cardinality(candidates) \in Nat
    BY WorkParts
  <1> DEFINE A == candidates \ {f}
             B == A \ {g}
  <1>5. IsFiniteSet(A) /\ Cardinality(A) = Cardinality(candidates) - 1
    BY <1>2, <1>3, <1>4, FS_RemoveElement
  <1>6. IsFiniteSet(B) /\ Cardinality(B) = Cardinality(candidates) - 2
    <2>1. g \in A
      BY <1>2, <1>3
    <2> HIDE DEF A
    <2>2. IsFiniteSet(B) /\ Cardinality(B) = Cardinality(A) - 1
      BY <1>5, <2>1, FS_RemoveElement
    <2>3. QED BY <1>4, <1>5, <2>2
  <1>7. candidates' \subseteq B \cup {p.merged}
    BY <1>1, <1>2
  <1> HIDE DEF A, B
  <1>8. /\ IsFiniteSet(B \cup {p.merged})
        /\ Cardinality(B \cup {p.merged}) <= Cardinality(candidates) - 1
    <2>1. /\ IsFiniteSet(B \cup {p.merged})
          /\ Cardinality(B \cup {p.merged})
               = (IF p.merged \in B THEN Cardinality(B) ELSE Cardinality(B) + 1)
      BY <1>6, FS_AddElement
    <2>2. QED BY <1>4, <1>6, <2>1
  <1>9. Cardinality(candidates') <= Cardinality(B \cup {p.merged}) /\ IsFiniteSet(candidates')
    BY <1>7, <1>8, FS_Subset
  <1>10. Cardinality(candidates') \in Nat /\ Cardinality(B \cup {p.merged}) \in Nat
    BY <1>8, <1>9, FS_CardinalityType
  <1>11. QED BY <1>4, <1>8, <1>9, <1>10

(* A merge of a pairwise pass takes a candidate and gives one. *)
LEMMA AcceptKeepsCandidates ==
  ASSUME WorkInv, AcceptPair
  PROVE  Cardinality(candidates') = Cardinality(candidates)
  <1>1. CASE Pass = "only"
    BY <1>1 DEF AcceptPair
  <1>2. CASE Pass # "only"
    <2>1. /\ Pass \in {"func-merging", "fastfm", "fmsa"} /\ rank # <<>>
          /\ candidates' = (candidates \ {Last(rank)}) \cup {mod.next}
      BY <1>2 DEF AcceptPair, Requeue, IsPairwise, PairwisePasses
    <2>2. Last(rank) \in candidates
      <3>1. rank \in Seq(candidates)
        BY <2>1 DEF WorkInv, WorklistInv
      <3>2. QED BY <2>1, <3>1, FrontProperties
    <2>3. mod.next \notin candidates
      BY FiniteIds DEF WorkInv, IdsInv
    <2>4. IsFiniteSet(candidates) /\ Cardinality(candidates) \in Nat
      BY WorkParts
    <2> DEFINE C == candidates \ {Last(rank)}
    <2>5. IsFiniteSet(C) /\ Cardinality(C) = Cardinality(candidates) - 1 /\ mod.next \notin C
      BY <2>2, <2>3, <2>4, FS_RemoveElement
    <2> HIDE DEF C
    <2>6. Cardinality(C \cup {mod.next}) = Cardinality(C) + 1
      BY <2>5, FS_AddElement
    <2>7. QED BY <2>1, <2>4, <2>5, <2>6 DEF C
  <1>3. QED BY <1>1, <1>2

LEMMA ReplayTakesSources ==
  ASSUME WorkInv, ReplayMerge
  PROVE  Len(front') < Len(front)
  <1>1. /\ front \in Seq(Ids(mod)) /\ Len(front) >= 2
    BY DEF WorkInv, IdsInv, ReplayMerge
  <1>2. front' = LeftSources \/ \E f : front' = Append(LeftSources, f)
    BY DEF ReplayMerge, LeftSources, Count
  <1>3. /\ Count \in 2 .. Len(front) /\ LeftSources \in Seq(Ids(mod))
        /\ Len(LeftSources) = Len(front) - Count /\ Len(front) \in Nat
    BY <1>1, SourcesAreSplit
  <1>4. \A f : Len(Append(LeftSources, f)) = Len(LeftSources) + 1
    BY <1>3
  <1>5. QED BY <1>2, <1>3, <1>4

LEMMA WorkDecreases ==
  ASSUME WorkInv, RemarksInv, Next, ~ Return
  PROVE  Less(WorkLeft', WorkLeft)
  <1> DEFINE toPlan == job.plans - planned
  <1>1. /\ WorkLeft = <<NotStarted, Len(remarks), Waiting, Len(rank), toPlan, Cardinality(plans)>>
        /\ WorkLeft' = <<NotStarted', Len(remarks'), Waiting', Len(rank'), toPlan',
                         Cardinality(plans')>>
    BY DEF WorkLeft, NotStarted, Waiting
  <1>2. /\ IsFiniteSet(candidates) /\ Cardinality(candidates) \in Nat
        /\ IsFiniteSet(plans) /\ Cardinality(plans) \in Nat
        /\ Len(front) \in Nat /\ Len(rank) \in Nat /\ toPlan \in Nat /\ Waiting \in Nat
    BY WorkParts
  <1>3. CASE Plan \/ PlanManually
    <2>1. /\ NotStarted' = NotStarted /\ Len(remarks') = Len(remarks) /\ Waiting' = Waiting
          /\ Len(rank') = Len(rank)
      BY <1>3 DEF Plan, PlanManually, NotStarted, Waiting, Pass, pairVars, replayVars
    <2>2. toPlan' < toPlan
      <3>1. job' = job /\ planned' = planned + 1
        BY <1>3 DEF Plan, PlanManually
      <3>2. planned \in Nat /\ job.plans \in Nat
        BY JobFacts DEF WorkInv, JobInv
      <3>3. QED BY <3>1, <3>2
    <2> HIDE DEF toPlan
    <2>3. QED BY <1>1, <2>1, <2>2, LexicographicallyLess
  <1>4. CASE Discard \/ ApplyManually
    <2>1. /\ NotStarted' = NotStarted /\ Len(remarks') = Len(remarks) /\ Waiting' = Waiting
          /\ Len(rank') = Len(rank) /\ toPlan' = toPlan
      BY <1>4 DEF Discard, ApplyManually, NotStarted, Waiting, Pass, pairVars, replayVars
    <2>2. PICK p \in plans : plans' = plans \ {p} \/ plans' = {}
      BY <1>4 DEF Discard, ApplyManually
    <2>3. Cardinality(plans \ {p}) = Cardinality(plans) - 1
      BY <1>2, FS_RemoveElement
    <2>4. Cardinality({}) = 0 /\ Cardinality(plans) # 0
      BY <1>2, FS_EmptySet
    <2>5. Cardinality(plans') < Cardinality(plans)
      <3>1. CASE plans' = plans \ {p}
        BY <1>2, <2>3, <3>1
      <3>2. CASE plans' = {}
        BY <1>2, <2>4, <3>2
      <3>3. QED BY <2>2, <3>1, <3>2
    <2> HIDE DEF toPlan
    <2>6. QED BY <1>1, <2>1, <2>5, LexicographicallyLess
  <1>5. CASE Apply
    <2>1. NotStarted' = NotStarted /\ Len(remarks') = Len(remarks)
      BY <1>5 DEF Apply, NotStarted, pairVars, replayVars
    <2>2. Waiting' < Waiting
      <3>1. Cardinality(candidates') < Cardinality(candidates)
        BY <1>5, ApplyTakesCandidates
      <3>2. Pass = "explore" /\ Pass' = Pass
        BY <1>5 DEF Apply, Pass
      <3>3. QED BY <3>1, <3>2 DEF Waiting
    <2> HIDE DEF toPlan
    <2>3. QED BY <1>1, <2>1, <2>2, LexicographicallyLess
  <1>6. CASE SkipRemark \/ StopReplay \/ ReplayRemark
    <2>1. /\ NotStarted' = NotStarted /\ remarks # <<>>
          /\ remarks' = <<>> \/ remarks' = Tail(remarks)
      BY <1>6 DEF SkipRemark, StopReplay, ReplayRemark, NotStarted, pairVars
    <2>2. remarks \in Seq(Range(job.remarks))
      BY DEF RemarksInv
    <2>3. Len(remarks') < Len(remarks)
      BY <2>1, <2>2
    <2> HIDE DEF toPlan
    <2>4. QED BY <1>1, <2>1, <2>3, LexicographicallyLess
  <1>7. CASE ReplayMerge
    <2>1. NotStarted' = NotStarted /\ Len(remarks') = Len(remarks)
      BY <1>7 DEF ReplayMerge, NotStarted, pairVars, replayVars
    <2>2. Waiting' < Waiting
      BY <1>7, ReplayTakesSources DEF ReplayMerge, Waiting, Pass
    <2> HIDE DEF toPlan
    <2>3. QED BY <1>1, <2>1, <2>2, LexicographicallyLess
  <1>8. CASE NextCandidate
    <2>1. PICK f1 \in candidates : current' = f1 /\ candidates' = candidates \ {f1}
      <3>1. front \in Seq(candidates)
        BY <1>8 DEF NextCandidate, WorkInv, WorklistInv
      <3>2. PICK f1 \in (IF front = <<>> THEN candidates ELSE {Head(front)}) :
              current' = f1 /\ candidates' = candidates \ {f1}
        BY <1>8 DEF NextCandidate
      <3>3. front # <<>> => Head(front) \in candidates
        BY <3>1
      <3>4. QED BY <3>2, <3>3
    <2>2. Waiting' < Waiting /\ Len(remarks') = Len(remarks)
      <3>1. Cardinality(candidates') = Cardinality(candidates) - 1
        BY <1>2, <2>1, FS_RemoveElement
      <3>2. Pass # "replay" /\ Pass' = Pass /\ remarks' = remarks
        BY <1>8 DEF NextCandidate, Pass, replayVars
      <3>3. QED BY <1>2, <3>1, <3>2 DEF Waiting
    <2>3. NotStarted' = NotStarted \/ NotStarted' < NotStarted
      <3>1. f1 # None
        BY <2>1, FiniteIds DEF WorkInv, IdsInv
      <3>2. QED BY <2>1, <3>1 DEF NotStarted
    <2> HIDE DEF toPlan
    <2>4. CASE NotStarted' < NotStarted
      BY <1>1, <2>4, LexicographicallyLess
    <2>5. CASE NotStarted' = NotStarted
      BY <1>1, <2>2, <2>5, LexicographicallyLess
    <2>6. QED BY <2>3, <2>4, <2>5
  <1>9. CASE OnlyCandidate
    <2>1. NotStarted' < NotStarted
      <3>1. current = None /\ current' = Head(Found(job.names))
        BY <1>9 DEF OnlyCandidate
      <3>2. Head(Found(job.names)) \in DOMAIN mod.fns
        BY <1>9, OnlyFindsSome
      <3>3. Head(Found(job.names)) # None
        <4>1. Shaped(mod)
          BY DEF WorkInv, IdsInv
        <4>2. DOMAIN mod.fns \subseteq Ids(mod)
          BY <4>1 DEF Shaped, Ids
        <4>3. QED BY <3>2, <4>1, <4>2, FiniteIds
      <3>4. QED BY <3>1, <3>3 DEF NotStarted
    <2> HIDE DEF toPlan
    <2>2. QED BY <1>1, <2>1, LexicographicallyLess
  <1>10. CASE RejectPair \/ AcceptPair
    <2>1. NotStarted' = NotStarted /\ Len(remarks') = Len(remarks)
      BY <1>10 DEF RejectPair, AcceptPair, NotStarted, replayVars
    <2>2. Waiting' = Waiting
      <3>1. Cardinality(candidates') = Cardinality(candidates)
        BY <1>10, AcceptKeepsCandidates DEF RejectPair
      <3>2. Pass # "replay" /\ Pass' = Pass
        BY <1>10 DEF RejectPair, AcceptPair, IsPairwise, PairwisePasses, Pass
      <3>3. QED BY <3>1, <3>2 DEF Waiting
    <2>3. Len(rank') < Len(rank)
      <3>1. /\ rank # <<>> /\ rank \in Seq(Ids(mod))
            /\ \E success \in BOOLEAN : rank' = RankAfter(success)
        BY <1>10 DEF RejectPair, AcceptPair, WorkInv, IdsInv
      <3>2. QED BY <3>1, TrialShortensRank
    <2> HIDE DEF toPlan
    <2>4. QED BY <1>1, <2>1, <2>2, <2>3, LexicographicallyLess
  <1>11. QED BY <1>3, <1>4, <1>5, <1>6, <1>7, <1>8, <1>9, <1>10 DEF Next

(* Every step of a pass leaves less to do, and what is left to do is six    *)
(* numbers: no pass, with any module, plans, thresholds and remarks, goes  *)
(* on forever.                                                             *)
THEOREM EveryStepLeavesLess == Spec => WorkShrinks
  <1>1. WorkInv /\ RemarksInv /\ [Next]_vars => [Less(WorkLeft', WorkLeft)]_vars
    <2> SUFFICES ASSUME WorkInv, RemarksInv, Next, ~ UNCHANGED vars
                 PROVE  Less(WorkLeft', WorkLeft)
      OBVIOUS
    <2>1. ~ Return
      BY DEF Return
    <2>2. QED BY <2>1, WorkDecreases
  <1>2. QED BY <1>1, WorkIsKept, PTL DEF Spec, WorkShrinks

(* The numbers of the measure are natural. *)
THEOREM WorkIsNatural == Spec => [](WorkLeft \in Nat \X Nat \X Nat \X Nat \X Nat \X Nat)
  <1>1. WorkInv /\ RemarksInv => WorkLeft \in Nat \X Nat \X Nat \X Nat \X Nat \X Nat
    <2> SUFFICES ASSUME WorkInv, RemarksInv
                 PROVE  WorkLeft \in Nat \X Nat \X Nat \X Nat \X Nat \X Nat
      OBVIOUS
    <2>1. WorkLeft = <<NotStarted, Len(remarks), Waiting, Len(rank), job.plans - planned,
                       Cardinality(plans)>>
      BY DEF WorkLeft, NotStarted, Waiting
    <2>2. /\ Waiting \in Nat /\ Len(rank) \in Nat /\ job.plans - planned \in Nat
          /\ Cardinality(plans) \in Nat
      BY WorkParts
    <2>3. Len(remarks) \in Nat /\ NotStarted \in Nat
      BY DEF RemarksInv, NotStarted
    <2>4. QED BY <2>1, <2>2, <2>3
  <1>2. QED BY <1>1, WorkIsKept, PTL


-----------------------------------------------------------------------------
(***************************************************************************)
(* What a module looks like while plans are pending.                       *)
(***************************************************************************)
IsMerged(m, f) == IsPrefix(MergePrefix, m.fns[f].name)
IsThunk(m, f) == IsPrefix(ThunkPrefix, m.fns[f].name)

(* The functions a plan adds to the module when it is made. *)
ThunksOf(p) == Range(p.thunks) \ {None}
Created(p) == {p.merged} \cup ThunksOf(p)

(* A declaration that a refused merge left, and nobody uses. *)
IsLeftover(m, f) ==
  IsDeclaration(m.fns[f]) /\ Unused(m, f) /\ m.fns[f].linkage = "internal" /\ IsMerged(m, f)

MayBePlanned(m, f) == f \in DOMAIN m.fns /\ (IsDeclaration(m.fns[f]) => IsLeftover(m, f))

(* The functions of a plan are there, and will not be missed. *)
IsPlanIn(m, p) ==
  /\ IsSequence(p.parts) /\ Distinct(p.parts) /\ DOMAIN p.thunks = DOMAIN p.parts
  /\ Parts(p) \cup Created(p) \subseteq DOMAIN m.fns
  /\ IsMerged(m, p.merged) /\ p.merged # None /\ p.merged \notin ThunksOf(p)
  /\ IsDeclaration(m.fns[p.merged]) => \A f \in Parts(p) : Unused(m, f)
  /\ \A t \in ThunksOf(p) : IsThunk(m, t) /\ ~ IsDeclaration(m.fns[t])
  /\ \A j, k \in DOMAIN p.thunks : p.thunks[j] = p.thunks[k] /\ p.thunks[j] # None => j = k
  /\ \A f \in ReplacedParts(p) : f \notin Taken(m)

(* Plans do not take what others have made. *)
ArePlansIn(m, P) ==
  /\ \A p \in P : IsPlanIn(m, p)
  /\ \A p, q \in P : Created(p) \cap Parts(q) = {} /\ (p # q => Created(p) \cap Created(q) = {})

(* The module m, made from the module o, while plans P are pending. *)
IsSound(o, m, P) ==
  /\ WellFormed(m) /\ o.next <= m.next
  /\ ArePlansIn(m, P)
  /\ \A f \in DOMAIN m.fns : IsThunk(m, f) => \E p \in P : f \in ThunksOf(p)
  /\ \A f \in DOMAIN m.fns : IsDeclaration(m.fns[f]) =>
       \/ f \in DOMAIN o.fns /\ IsDeclaration(o.fns[f]) /\ m.fns[f].name = o.fns[f].name
       \/ f \notin DOMAIN o.fns /\ IsLeftover(m, f)

(* The functions an exploration may plan with stand on their own. *)
ExploreInv ==
  Pass = "explore" =>
    /\ \A f \in candidates : f \in DOMAIN mod.fns /\ ~ IsDeclaration(mod.fns[f])
    /\ \A p \in plans : Created(p) \cap candidates = {} /\ ~ IsDeclaration(mod.fns[p.merged])

ManualInv == Pass = "manual" => \A p, q \in plans : p = q

ReplayInv ==
  Pass = "replay" => plans = {} /\ Distinct(front) /\ \A f \in Range(front) : MayBePlanned(mod, f)

SpeculationInv ==
  /\ ~ IsPairwise => IsSound(job.mod, mod, plans)
  /\ IsPairwise => plans = {}
  /\ ExploreInv /\ ManualInv /\ ReplayInv

(* A function that has code of the original module. *)
IsLive(m, f) == f \in DOMAIN m.fns /\ HasCode(m.fns[f].body)

PairwiseInv ==
  IsPairwise =>
    /\ IsSound(job.mod, mod, {})
    /\ trials \in Nat
    /\ Pass # "only" => /\ \A f \in candidates : IsLive(mod, f)
                        /\ current \notin candidates
    /\ rank # <<>> => /\ IsLive(mod, current) /\ current \notin Range(rank)
                      /\ \A f \in Range(rank) : IsLive(mod, f)


(* The module n is m with more functions, which use nothing m did not use. *)
Extends(n, m) ==
  /\ WellFormed(n) /\ n.next >= m.next
  /\ DOMAIN m.fns \subseteq DOMAIN n.fns
  /\ DOMAIN n.fns \subseteq DOMAIN m.fns \cup m.next .. n.next - 1
  /\ \A f \in DOMAIN m.fns : n.fns[f] = m.fns[f]
  /\ Taken(n) \subseteq Taken(m)
  /\ \A f \in Ids(m) : f \in Called(n) => f \in Called(m)

(* What is known of a plan that was just made. *)
IsNewPlan(n, p, m) ==
  /\ IsPlanIn(n, p)
  /\ DOMAIN n.fns = DOMAIN m.fns \cup Created(p)
  /\ Created(p) \subseteq m.next .. n.next - 1
  /\ IsDeclaration(n.fns[p.merged]) =>
       IsLeftover(n, p.merged) /\ \A f \in Parts(p) : IsDeclaration(m.fns[f])

(* Functions of a module that may be planned together. *)
ArePlannable(m, parts) ==
  IsSequence(parts) /\ Distinct(parts) /\ \A f \in Range(parts) : MayBePlanned(m, f)

LEMMA WellFormedIsShaped ==
  ASSUME NEW m, WellFormed(m)
  PROVE  /\ Shaped(m) /\ m.next \in Nat \ {0} /\ DOMAIN m.fns \subseteq Ids(m)
         /\ Called(m) \subseteq Ids(m) /\ Taken(m) \subseteq Ids(m)
         /\ \A f \in Ids(m) : f \in Nat /\ f # None /\ f < m.next
  <1>1. Used(m) = Called(m) \cup Taken(m)
    BY UsesOfModule
  <1>2. Shaped(m) /\ m.next \in Nat \ {0} /\ DOMAIN m.fns \subseteq Ids(m)
    BY DEF WellFormed, Shaped, Ids
  <1>3. \A f \in Ids(m) : f \in Nat /\ f # None /\ f < m.next
    BY <1>2 DEF Ids, None
  <1>4. Called(m) \subseteq Ids(m) /\ Taken(m) \subseteq Ids(m)
    BY <1>1 DEF WellFormed, Ids
  <1>5. QED BY <1>2, <1>3, <1>4

LEMMA NamesAreDifferent ==
  ASSUME NEW m, NEW f, IsSequence(m.fns[f].name)
  PROVE  /\ IsMerged(m, f) <=> m.fns[f].name # <<>> /\ m.fns[f].name[1] = "__mf_merge"
         /\ IsThunk(m, f) <=> m.fns[f].name # <<>> /\ m.fns[f].name[1] = "__mf_thunk"
         /\ IsMerged(m, f) => m.fns[f].name # Main /\ ~ IsThunk(m, f)
  <1> DEFINE name == m.fns[f].name
  <1>1. IsPrefix(<<"__mf_merge">>, name) <=> name # <<>> /\ name[1] = "__mf_merge"
    BY PrefixIsFirst
  <1>2. IsPrefix(<<"__mf_thunk">>, name) <=> name # <<>> /\ name[1] = "__mf_thunk"
    BY PrefixIsFirst
  <1>3. Main[1] = "main"
    BY DEF Main
  <1>4. QED BY <1>1, <1>2, <1>3 DEF IsMerged, IsThunk, MergePrefix, ThunkPrefix

(* What the parts of a plan do, the merged function does. *)
LEMMA MergedFunctionFacts ==
  ASSUME NEW m, WellFormed(m), NEW parts, IsSequence(parts), Range(parts) \subseteq DOMAIN m.fns,
         NEW layout
  PROVE  LET fs == [k \in DOMAIN parts |-> m.fns[parts[k]]]
             e == Emit(m, fs, layout)
             d == EmitDeclaration(m, fs, layout)
         IN /\ IsFunction(e) /\ e.name # <<>> /\ e.name[1] = "__mf_merge" /\ e.linkage = "internal"
            /\ IsFunction(d) /\ d.name # <<>> /\ d.name[1] = "__mf_merge" /\ d.linkage = "internal"
            /\ d.body = {}
            /\ Calls(e.body) \subseteq Called(m) /\ Takes(e.body) \subseteq Taken(m)
            /\ e.body = {} => \A k \in DOMAIN parts : IsDeclaration(m.fns[parts[k]])
            /\ HasCode(e.body) <=> \E k \in DOMAIN parts : HasCode(m.fns[parts[k]].body)
            /\ \A k \in DOMAIN parts : parts[k] \in DOMAIN m.fns /\ IsFunction(fs[k])
  <1> DEFINE fs == [k \in DOMAIN parts |-> m.fns[parts[k]]]
             e == Emit(m, fs, layout)
             d == EmitDeclaration(m, fs, layout)
  <1>1. \A k \in DOMAIN parts : parts[k] \in DOMAIN m.fns
    BY DEF Range
  <1>2. DOMAIN fs = DOMAIN parts /\ \A k \in DOMAIN fs : fs[k] = m.fns[parts[k]]
            /\ IsFunction(fs[k])
    BY <1>1 DEF WellFormed
  <1>3. IsSequence(fs)
    <2>1. /\ DOMAIN parts = 1 .. Len(parts) /\ Len(parts) \in Nat
      BY LenProperties DEF IsSequence
    <2>2. fs = [k \in DOMAIN parts |-> fs[k]] /\ \A k \in DOMAIN parts : fs[k] \in Range(fs)
      BY DEF Range
    <2> HIDE DEF fs
    <2>3. fs \in [1 .. Len(parts) -> Range(fs)]
      BY <2>1, <2>2
    <2>4. fs \in Seq(Range(fs))
      BY <2>1, <2>3
    <2>5. QED BY <2>4 DEF IsSequence
  <1>4. /\ IsFunction(e) /\ e.name # <<>> /\ e.name[1] = "__mf_merge" /\ e.linkage = "internal"
        /\ IsFunction(d) /\ d.name # <<>> /\ d.name[1] = "__mf_merge" /\ d.linkage = "internal"
        /\ d.body = {} /\ DoesWhat(e.body, fs)
    <2>1. \A k \in DOMAIN fs : IsFunction(fs[k])
      BY <1>2
    <2> HIDE DEF fs
    <2>2. AreEmitted(m, fs, layout)
      BY <1>3, <2>1, EmittedFunctions, Zenon
    <2>3. QED BY <2>2 DEF AreEmitted
  <1> HIDE DEF e, d, fs
  <1>5. Calls(e.body) \subseteq Called(m) /\ Takes(e.body) \subseteq Taken(m)
    BY <1>1, <1>2, <1>4, UsesAre DEF DoesWhat
  <1>6. /\ e.body = {} => \A k \in DOMAIN parts : IsDeclaration(m.fns[parts[k]])
        /\ HasCode(e.body) <=> \E k \in DOMAIN parts : HasCode(m.fns[parts[k]].body)
    BY <1>2, <1>4 DEF DoesWhat, IsDeclaration
  <1>7. QED BY <1>1, <1>2, <1>4, <1>5, <1>6 DEF e, d, fs


(* The functions of a module a plan was just made in. *)
AddsPlan(n, p, m, parts) ==
  /\ Extends(n, m) /\ p.parts = parts /\ DOMAIN p.thunks = DOMAIN parts
  /\ DOMAIN n.fns = DOMAIN m.fns \cup Created(p) /\ Created(p) \subseteq m.next .. n.next - 1
  /\ p.merged = m.next /\ p.merged \notin ThunksOf(p) /\ p # NoPlan
  /\ IsMerged(n, p.merged) /\ n.fns[p.merged].linkage = "internal"
  /\ \A t \in ThunksOf(p) : IsThunk(n, t) /\ ~ IsDeclaration(n.fns[t])
  /\ \A j, k \in DOMAIN parts : p.thunks[j] = p.thunks[k] /\ p.thunks[j] # None => j = k
  /\ \A f \in ReplacedParts(p) : f \notin Taken(n)
  /\ IsDeclaration(n.fns[p.merged]) => ThunksOf(p) = {}
  /\ \A f \in Called(n) : f \in Called(m) \/ (f = p.merged /\ ThunksOf(p) # {})
  /\ IsDeclaration(n.fns[p.merged]) => \A f \in Range(parts) : IsDeclaration(m.fns[f])

LEMMA FunctionsAfterPlan ==
  ASSUME NEW m, WellFormed(m), NEW parts, ArePlannable(m, parts), NEW layout
  PROVE  AddsPlan(Planned(m, parts, layout).mod, Planned(m, parts, layout).plan, m, parts)
  <1> DEFINE n == Planned(m, parts, layout).mod
             p == Planned(m, parts, layout).plan
             fs == [k \in DOMAIN parts |-> m.fns[parts[k]]]
             e == Emit(m, fs, layout)
             merged == AddFunction(m, e)
             M == m.next
  <1>1. Shaped(m) /\ IsSequence(parts) /\ Range(parts) \subseteq DOMAIN m.fns
    BY WellFormedIsShaped DEF ArePlannable, MayBePlanned
  <1>2. IsPlanned(m, parts, layout)
    BY <1>1, PlannedFunctions
  <1>3. /\ Follows(n, m) /\ n.next > m.next /\ n.globals = m.globals
        /\ DOMAIN n.fns = DOMAIN m.fns \cup m.next .. n.next - 1
        /\ \A f \in DOMAIN m.fns : n.fns[f] = m.fns[f]
        /\ p.parts = parts /\ p.merged = m.next /\ p # NoPlan
        /\ n.fns[m.next] = e
        /\ DOMAIN p.thunks = DOMAIN parts
    BY <1>2 DEF IsPlanned
  <1>4. /\ \A k \in DOMAIN parts :
              /\ p.thunks[k] = None <=> CanReplaceCalls(merged, parts[k])
              /\ p.thunks[k] # None =>
                   /\ p.thunks[k] \in M + 1 .. n.next - 1
                   /\ \E row : n.fns[p.thunks[k]]
                                 = Thunk(merged, fs[k], M, layout.params, k - 1, row)
        /\ \A j, k \in DOMAIN parts :
             p.thunks[j] = p.thunks[k] /\ p.thunks[j] # None => j = k
        /\ \A g \in M + 1 .. n.next - 1 : \E k \in DOMAIN parts : p.thunks[k] = g
    BY <1>2 DEF IsPlanned
  <1>5. /\ IsFunction(e) /\ e.name # <<>> /\ e.name[1] = "__mf_merge" /\ e.linkage = "internal"
        /\ Calls(e.body) \subseteq Called(m) /\ Takes(e.body) \subseteq Taken(m)
        /\ e.body = {} => \A k \in DOMAIN parts : IsDeclaration(m.fns[parts[k]])
        /\ \A k \in DOMAIN parts : parts[k] \in DOMAIN m.fns /\ IsFunction(fs[k])
    <2> HIDE DEF n, p, merged
    <2>1. QED BY <1>1, MergedFunctionFacts
  <1> HIDE DEF n, p, e, fs
  <1>6. /\ M \in Nat \ {0} /\ DOMAIN m.fns \subseteq Ids(m) /\ M \notin DOMAIN m.fns
        /\ Called(m) \subseteq Ids(m) /\ Taken(m) \subseteq Ids(m)
        /\ n.next \in Nat /\ n.next > M /\ Shaped(n)
        /\ \A f \in Ids(m) : f \in 1 .. M - 1
    <2>1. \A f \in Ids(m) : f < m.next /\ f \in Nat
      BY WellFormedIsShaped
    <2>2. m.next \notin DOMAIN m.fns
      BY <2>1, WellFormedIsShaped
    <2>3. n.next \in Nat /\ Shaped(n)
      BY <1>3 DEF Follows, Shaped
    <2>4. QED BY <1>3, <2>2, <2>3, WellFormedIsShaped DEF Ids
  <1>7. /\ Taken(merged) = Taken(m) /\ \A g \in DOMAIN m.fns : merged.fns[g] = m.fns[g]
    <2>1. Calls(e.body) \subseteq 1 .. m.next /\ Takes(e.body) \subseteq 1 .. m.next
      BY <1>5, <1>6 DEF Ids
    <2>2. /\ Taken(merged) = Taken(m) \cup Takes(e.body)
          /\ \A g \in DOMAIN m.fns : merged.fns[g] = m.fns[g]
      <3>1. HasFunction(merged, m, e)
        BY <1>5, <2>1, AddFunctionProperties, Zenon
      <3>2. QED BY <3>1 DEF HasFunction
    <2>3. QED BY <1>5, <2>2
  (* The thunks. *)
  <1>8. ASSUME NEW g \in M + 1 .. n.next - 1
        PROVE  /\ IsFunction(n.fns[g]) /\ n.fns[g].name # <<>> /\ n.fns[g].name[1] = "__mf_thunk"
               /\ Calls(n.fns[g].body) = {M} /\ Takes(n.fns[g].body) = {} /\ n.fns[g].body # {}
    <2>1. PICK k \in DOMAIN parts : p.thunks[k] = g
      BY <1>4, <1>8
    <2>2. g # None
      BY <1>6, <1>8 DEF None
    <2>3. PICK row : n.fns[g] = Thunk(merged, fs[k], M, layout.params, k - 1, row)
      BY <1>4, <2>1, <2>2
    <2>4. IsFunction(fs[k])
      BY <1>5
    <2> HIDE DEF merged, M
    <2>5. ForwardsTo(n.fns[g], fs[k], M)
      BY <2>3, <2>4, Thunks, Zenon
    <2>6. QED BY <2>5 DEF ForwardsTo
  <1>9. ThunksOf(p) = M + 1 .. n.next - 1
    <2>1. ASSUME NEW t \in ThunksOf(p) PROVE t \in M + 1 .. n.next - 1
      <3>1. PICK k \in DOMAIN parts : t = p.thunks[k] /\ t # None
        BY <1>3, <2>1 DEF ThunksOf, Range
      <3>2. QED BY <1>4, <3>1
    <2>2. ASSUME NEW t \in M + 1 .. n.next - 1 PROVE t \in ThunksOf(p)
      <3>1. PICK k \in DOMAIN parts : p.thunks[k] = t
        BY <1>4, <2>2
      <3>2. t # None
        BY <1>6, <2>2 DEF None
      <3>3. QED BY <1>3, <3>1, <3>2 DEF ThunksOf, Range
    <2>3. QED BY <2>1, <2>2
  <1>10. /\ Created(p) = M .. n.next - 1 /\ p.merged \notin ThunksOf(p)
    BY <1>3, <1>6, <1>9 DEF Created
  <1>11. DOMAIN n.fns = DOMAIN m.fns \cup Created(p)
    BY <1>3, <1>10
  <1>12. ASSUME NEW g \in DOMAIN n.fns
         PROVE  /\ IsFunction(n.fns[g])
                /\ \A x \in Calls(n.fns[g].body) : x \in Called(m) \/ (x = M /\ ThunksOf(p) # {})
                /\ Takes(n.fns[g].body) \subseteq Taken(m)
    <2>1. CASE g \in DOMAIN m.fns
      <3>1. n.fns[g] = m.fns[g] /\ IsFunction(m.fns[g])
        BY <1>3, <2>1 DEF WellFormed
      <3>2. QED BY <2>1, <3>1, UsesAre
    <2>2. CASE g = M
      BY <1>3, <1>5, <2>2
    <2>3. CASE g \in ThunksOf(p)
      BY <1>8, <1>9, <2>3
    <2>4. QED BY <1>3, <1>11, <2>1, <2>2, <2>3 DEF Created
  <1>13. /\ \A x \in Called(n) : x \in Called(m) \/ (x = M /\ ThunksOf(p) # {})
         /\ Taken(n) \subseteq Taken(m)
    <2>1. \A x \in Called(n) : x \in Called(m) \/ (x = M /\ ThunksOf(p) # {})
      BY <1>12, UsesAre
    <2>2. \A x \in Taken(n) : x \in Taken(m)
      <3>1. \A x \in Taken(n) : \/ \E r \in n.globals : x = r.is
                               \/ \E f \in DOMAIN n.fns : x \in Takes(n.fns[f].body)
        BY UsesAre
      <3>2. \A x : (\E r \in m.globals : x = r.is) => x \in Taken(m)
        BY UsesAre
      <3>3. QED BY <1>3, <1>12, <3>1, <3>2
    <2>3. QED BY <2>1, <2>2
  <1>14. WellFormed(n)
    <2>1. Used(n) \subseteq 1 .. n.next - 1
      <3>1. Used(n) = Called(n) \cup Taken(n)
        BY UsesOfModule
      <3>2. Ids(m) \subseteq 1 .. n.next - 1 /\ M \in 1 .. n.next - 1
        BY <1>6 DEF Ids
      <3>3. QED BY <1>6, <1>13, <3>1, <3>2
    <2>2. \A r \in n.globals : IsRef(r)
      BY <1>3 DEF WellFormed
    <2>3. QED BY <1>6, <1>12, <2>1, <2>2 DEF WellFormed, Shaped
  <1>15. Extends(n, m)
    <2>1. \A f \in Ids(m) : f \in Called(n) => f \in Called(m)
      <3>1. \A f \in Ids(m) : f # M
        BY <1>6
      <3>2. QED BY <1>13, <3>1
    <2>2. n.next >= m.next
      BY <1>6
    <2>3. QED BY <1>3, <1>13, <1>14, <2>1, <2>2 DEF Extends
  <1>16. IsMerged(n, p.merged) /\ n.fns[p.merged].linkage = "internal"
    <2>1. IsSequence(n.fns[p.merged].name)
      BY <1>3, <1>5 DEF IsFunction
    <2>2. QED BY <1>3, <1>5, <2>1, NamesAreDifferent
  <1>17. \A t \in ThunksOf(p) : IsThunk(n, t) /\ ~ IsDeclaration(n.fns[t])
    <2>1. ASSUME NEW t \in ThunksOf(p) PROVE IsThunk(n, t) /\ ~ IsDeclaration(n.fns[t])
      <3>1. /\ IsFunction(n.fns[t]) /\ n.fns[t].name # <<>> /\ n.fns[t].name[1] = "__mf_thunk"
            /\ n.fns[t].body # {}
        BY <1>8, <1>9
      <3>2. IsSequence(n.fns[t].name)
        BY <3>1 DEF IsFunction
      <3>3. QED BY <3>1, <3>2, NamesAreDifferent DEF IsDeclaration
    <2>2. QED BY <2>1
  <1>18. \A f \in ReplacedParts(p) : f \notin Taken(n)
    <2>1. ASSUME NEW k \in DOMAIN parts, p.thunks[k] = None PROVE parts[k] \notin Taken(n)
      <3>1. CanReplaceCalls(merged, parts[k])
        BY <1>4, <2>1
      <3>2. parts[k] \notin Taken(merged)
        BY <3>1, UsesOfModule DEF CanReplaceCalls
      <3>3. QED BY <1>7, <1>13, <3>2
    <2>2. QED BY <1>3, <2>1 DEF ReplacedParts
  <1>19. IsDeclaration(n.fns[p.merged]) => \A k \in DOMAIN parts : IsDeclaration(m.fns[parts[k]])
    BY <1>3, <1>5 DEF IsDeclaration
  <1>20. ASSUME IsDeclaration(n.fns[p.merged]) PROVE ThunksOf(p) = {}
    <2>1. ASSUME NEW k \in DOMAIN parts PROVE p.thunks[k] = None
      <3> DEFINE f == parts[k]
      <3>1. f \in DOMAIN m.fns /\ IsLeftover(m, f)
        BY <1>19, <1>20 DEF ArePlannable, MayBePlanned, Range
      <3>2. f \notin Taken(m) /\ m.fns[f].linkage = "internal" /\ IsMerged(m, f)
        BY <3>1, UsesOfModule DEF IsLeftover, Unused
      <3>3. m.fns[f].name # Main
        <4>1. IsSequence(m.fns[f].name)
          BY <3>1 DEF WellFormed, IsFunction
        <4>2. QED BY <3>2, <4>1, NamesAreDifferent
      <3>4. ~ HasAddressTaken(merged, f)
        BY <1>7, <3>2, UsesOfModule
      <3>5. CanReplaceCalls(merged, f)
        BY <1>7, <3>1, <3>2, <3>3, <3>4 DEF CanReplaceCalls, IsDiscardableIfUnused
      <3>6. QED BY <1>4, <3>5
    <2>2. QED BY <1>3, <2>1 DEF ThunksOf, Range
  <1>21. IsDeclaration(n.fns[p.merged]) => \A f \in Range(parts) : IsDeclaration(m.fns[f])
    BY <1>19 DEF Range
  <1> HIDE DEF merged, M
  <1>22. QED BY <1>3, <1>4, <1>10, <1>11, <1>13, <1>15, <1>16, <1>17, <1>18, <1>20, <1>21
             DEF AddsPlan, n, p, M


LEMMA UnusedStays ==
  ASSUME NEW n, NEW m, Extends(n, m), NEW f \in Ids(m), Unused(m, f)
  PROVE  Unused(n, f)
  <1>1. f \notin Called(m) /\ f \notin Taken(m)
    BY UsesOfModule
  <1>2. f \notin Called(n) /\ f \notin Taken(n)
    BY <1>1 DEF Extends
  <1>3. QED BY <1>2, UsesOfModule

(* Every outcome of planMerge leaves the module as it was, but for what it  *)
(* adds: a plan, or a declaration nobody uses, or nothing.                 *)
LEMMA PlanMergeAdds ==
  ASSUME NEW m, WellFormed(m), NEW parts, ArePlannable(m, parts), NEW o \in PlanMerge(m, parts)
  PROVE  /\ Extends(o.mod, m)
         /\ o.plan # NoPlan => o.plan.parts = parts /\ IsNewPlan(o.mod, o.plan, m)
         /\ o.plan = NoPlan =>
              \A f \in DOMAIN o.mod.fns \ DOMAIN m.fns : IsLeftover(o.mod, f)
                  /\ f \in m.next .. o.mod.next - 1
  <1> DEFINE fs == [k \in DOMAIN parts |-> m.fns[parts[k]]]
  <1>1. /\ m.next \in Nat \ {0} /\ DOMAIN m.fns \subseteq Ids(m)
        /\ Called(m) \subseteq Ids(m) /\ Taken(m) \subseteq Ids(m)
        /\ \A f \in Ids(m) : f < m.next
    BY WellFormedIsShaped
  <1>2. CASE o.mod = m /\ o.plan = NoPlan
    BY <1>1, <1>2 DEF Extends
  <1>3. ASSUME NEW l, o.mod = AddFunction(m, EmitDeclaration(m, fs, l)), o.plan = NoPlan
        PROVE  /\ Extends(o.mod, m)
               /\ \A f \in DOMAIN o.mod.fns \ DOMAIN m.fns :
                    IsLeftover(o.mod, f) /\ f \in m.next .. o.mod.next - 1
    <2> DEFINE d == EmitDeclaration(m, fs, l)
               n == AddFunction(m, d)
    <2>1. IsFunction(d) /\ d.name # <<>> /\ d.name[1] = "__mf_merge" /\ d.linkage = "internal"
              /\ d.body = {}
      <3>1. IsSequence(parts) /\ Range(parts) \subseteq DOMAIN m.fns
        BY DEF ArePlannable, MayBePlanned
      <3>2. QED BY <3>1, MergedFunctionFacts
    <2> HIDE DEF d
    <2>2. Calls(d.body) = {} /\ Takes(d.body) = {}
      BY <2>1, UsesAre
    <2>3. /\ WellFormed(n) /\ n.next = m.next + 1
          /\ DOMAIN n.fns = DOMAIN m.fns \cup {m.next} /\ n.fns[m.next] = d
          /\ \A g \in DOMAIN m.fns : n.fns[g] = m.fns[g]
          /\ Called(n) = Called(m) /\ Taken(n) = Taken(m)
      <3>1. Calls(d.body) \subseteq 1 .. m.next /\ Takes(d.body) \subseteq 1 .. m.next
        BY <2>2
      <3>2. /\ Called(n) = Called(m) \cup Calls(d.body) /\ Taken(n) = Taken(m) \cup Takes(d.body)
            /\ WellFormed(n) /\ n.next = m.next + 1
            /\ DOMAIN n.fns = DOMAIN m.fns \cup {m.next} /\ n.fns[m.next] = d
            /\ \A g \in DOMAIN m.fns : n.fns[g] = m.fns[g]
        <4>1. HasFunction(AddFunction(m, d), m, d)
          BY <2>1, <3>1, AddFunctionProperties, Zenon
        <4>2. QED BY <4>1 DEF HasFunction, n
      <3>3. QED BY <2>2, <3>2
    <2> HIDE DEF n
    <2>4. Extends(n, m)
      BY <1>1, <2>3 DEF Extends
    <2>5. IsLeftover(n, m.next)
      <3>1. m.next \notin Called(n) /\ m.next \notin Taken(n)
        BY <1>1, <2>3
      <3>2. Unused(n, m.next)
        BY <3>1, UsesOfModule
      <3>3. IsMerged(n, m.next)
        <4>1. IsSequence(n.fns[m.next].name)
          BY <2>1, <2>3 DEF IsFunction
        <4>2. QED BY <2>1, <2>3, <4>1, NamesAreDifferent
      <3>4. QED BY <2>1, <2>3, <3>2, <3>3 DEF IsLeftover, IsDeclaration
    <2>6. n = o.mod
      BY <1>3 DEF n, d
    <2>7. QED BY <1>1, <2>3, <2>4, <2>5, <2>6
  <1>4. ASSUME NEW l, o = Planned(m, parts, l)
        PROVE  Extends(o.mod, m) /\ o.plan.parts = parts /\ o.plan # NoPlan
                   /\ IsNewPlan(o.mod, o.plan, m)
    <2> DEFINE n == o.mod
               p == o.plan
    <2>5. AddsPlan(Planned(m, parts, l).mod, Planned(m, parts, l).plan, m, parts)
      BY FunctionsAfterPlan, Zenon
    <2>1. AddsPlan(n, p, m, parts)
      BY <1>4, <2>5
    <2> USE DEF AddsPlan
    <2> HIDE DEF n, p
    <2>2. ASSUME IsDeclaration(n.fns[p.merged])
          PROVE  IsLeftover(n, p.merged) /\ \A f \in Parts(p) : Unused(n, f)
      <3>1. m.next \notin Called(n)
        BY <1>1, <2>1, <2>2
      <3>2. m.next \notin Taken(n)
        BY <1>1, <2>1 DEF Extends
      <3>3. Unused(n, p.merged)
        BY <2>1, <3>1, <3>2, UsesOfModule
      <3>4. ASSUME NEW f \in Parts(p) PROVE Unused(n, f)
        <4>1. f \in DOMAIN m.fns /\ IsLeftover(m, f)
          BY <2>1, <2>2, <3>4 DEF Parts, ArePlannable, MayBePlanned
        <4>2. QED BY <1>1, <2>1, <4>1, UnusedStays DEF IsLeftover
      <3>5. QED BY <2>1, <2>2, <3>3, <3>4 DEF IsLeftover
    <2>3. IsPlanIn(n, p)
      <3>1. Parts(p) \subseteq DOMAIN m.fns /\ IsSequence(parts) /\ Distinct(parts)
        BY <2>1 DEF Parts, ArePlannable, MayBePlanned
      <3>2. p.merged # None
        BY <1>1, <2>1 DEF None
      <3>3. QED BY <2>1, <2>2, <3>1, <3>2 DEF IsPlanIn
    <2>4. IsNewPlan(n, p, m)
      BY <2>1, <2>2, <2>3 DEF IsNewPlan, Parts
    <2>6. QED BY <2>1, <2>4 DEF n, p
  <1>5. \/ o.mod = m /\ o.plan = NoPlan
        \/ \E l : o.mod = AddFunction(m, EmitDeclaration(m, fs, l)) /\ o.plan = NoPlan
        \/ \E l : o = Planned(m, parts, l)
    BY PlanMergeOutcomes, Zenon
  <1> HIDE DEF fs
  <1>6. QED BY <1>2, <1>3, <1>4, <1>5


LEMMA NameOf ==
  ASSUME NEW m, WellFormed(m), NEW f \in DOMAIN m.fns
  PROVE  IsFunction(m.fns[f]) /\ (IsMerged(m, f) => ~ IsThunk(m, f) /\ m.fns[f].name # Main)
  <1>1. IsFunction(m.fns[f])
    BY DEF WellFormed
  <1>2. IsSequence(m.fns[f].name)
    BY <1>1 DEF IsFunction
  <1>3. QED BY <1>1, <1>2, NamesAreDifferent

(* A pending plan does not mind functions that are added. *)
LEMMA PlanStays ==
  ASSUME NEW n, NEW m, WellFormed(m), Extends(n, m), NEW p, IsPlanIn(m, p)
  PROVE  IsPlanIn(n, p)
  <1>1. Parts(p) \cup Created(p) \subseteq DOMAIN m.fns
    BY DEF IsPlanIn
  <1>2. \A f \in DOMAIN m.fns : f \in DOMAIN n.fns /\ n.fns[f] = m.fns[f] /\ f \in Ids(m)
    BY WellFormedIsShaped DEF Extends
  <1>3. \A f \in Parts(p) : Unused(m, f) => Unused(n, f)
    BY <1>1, <1>2, UnusedStays
  <1>4. p.merged \in Created(p) /\ ThunksOf(p) \subseteq Created(p)
    BY DEF Created
  <1>5. IsMerged(n, p.merged) /\ n.fns[p.merged] = m.fns[p.merged]
    BY <1>1, <1>2, <1>4 DEF IsPlanIn, IsMerged
  <1>6. IsDeclaration(n.fns[p.merged]) => \A f \in Parts(p) : Unused(n, f)
    BY <1>3, <1>5 DEF IsPlanIn
  <1>7. \A t \in ThunksOf(p) : IsThunk(n, t) /\ ~ IsDeclaration(n.fns[t])
    BY <1>1, <1>2, <1>4 DEF IsPlanIn, IsThunk
  <1>8. \A f \in ReplacedParts(p) : f \notin Taken(n)
    BY DEF IsPlanIn, Extends
  <1>9. Parts(p) \cup Created(p) \subseteq DOMAIN n.fns
    BY <1>1, <1>2
  <1>10. QED BY <1>5, <1>6, <1>7, <1>8, <1>9 DEF IsPlanIn

(* A leftover stays one. *)
LEMMA LeftoverStays ==
  ASSUME NEW n, NEW m, WellFormed(m), Extends(n, m), NEW f \in DOMAIN m.fns, IsLeftover(m, f)
  PROVE  IsLeftover(n, f)
  <1>1. f \in DOMAIN n.fns /\ n.fns[f] = m.fns[f] /\ f \in Ids(m)
    BY WellFormedIsShaped DEF Extends
  <1>2. Unused(n, f)
    BY <1>1, UnusedStays DEF IsLeftover
  <1>3. QED BY <1>1, <1>2 DEF IsLeftover, IsMerged

WithPlan(P, o) == IF o.plan = NoPlan THEN P ELSE P \cup {o.plan}

(* Planning keeps a module sound. *)
LEMMA SoundAfterPlan ==
  ASSUME NEW orig, WellFormed(orig), NEW m, NEW P, IsSound(orig, m, P),
         NEW parts, ArePlannable(m, parts), \A p \in P : Created(p) \cap Range(parts) = {},
         NEW o \in PlanMerge(m, parts)
  PROVE  IsSound(orig, o.mod, WithPlan(P, o))
  <1> DEFINE n == o.mod
             Q == WithPlan(P, o)
             New == DOMAIN n.fns \ DOMAIN m.fns
  <1>1. /\ WellFormed(m) /\ m.next \in Nat /\ orig.next \in Nat /\ orig.next <= m.next
        /\ DOMAIN m.fns \subseteq Ids(m) /\ DOMAIN orig.fns \subseteq Ids(orig)
    BY WellFormedIsShaped DEF IsSound
  <1>2. /\ Extends(n, m)
        /\ o.plan # NoPlan => o.plan.parts = parts /\ IsNewPlan(n, o.plan, m)
        /\ o.plan = NoPlan => \A f \in New : IsLeftover(n, f) /\ f \in m.next .. n.next - 1
    BY <1>1, PlanMergeAdds
  <1> HIDE DEF n
  <1>3. /\ WellFormed(n) /\ n.next >= m.next /\ n.next \in Nat
        /\ \A f \in DOMAIN m.fns : f \in DOMAIN n.fns /\ n.fns[f] = m.fns[f]
    BY <1>2, WellFormedIsShaped DEF Extends
  <1>4. \A p \in P : IsPlanIn(n, p)
    <2>1. \A p \in P : IsPlanIn(m, p)
      BY DEF IsSound, ArePlansIn
    <2>2. QED BY <1>1, <1>2, <2>1, PlanStays
  <1>5. \A f \in New : /\ f \notin Ids(m) /\ f \notin DOMAIN orig.fns
                       /\ IsDeclaration(n.fns[f]) => IsLeftover(n, f)
                       /\ IsThunk(n, f) => o.plan # NoPlan /\ f \in ThunksOf(o.plan)
    <2>1. ASSUME NEW f \in m.next .. n.next - 1
          PROVE  f \notin Ids(m) /\ f \notin DOMAIN orig.fns
      BY <1>1, <1>3 DEF Ids
    <2>2. CASE o.plan = NoPlan
      <3>1. \A f \in New : IsMerged(n, f)
        BY <1>2, <2>2 DEF IsLeftover
      <3>2. \A f \in New : ~ IsThunk(n, f)
        BY <1>3, <3>1, NameOf
      <3>3. QED BY <1>2, <2>1, <2>2, <3>2
    <2>3. CASE o.plan # NoPlan
      <3>1. IsNewPlan(n, o.plan, m)
        BY <1>2, <2>3
      <3>2. \A f \in New : f = o.plan.merged \/ f \in ThunksOf(o.plan)
        BY <3>1 DEF IsNewPlan, Created
      <3>3. New \subseteq m.next .. n.next - 1
        BY <3>1 DEF IsNewPlan
      <3>4. o.plan.merged \in DOMAIN n.fns /\ IsMerged(n, o.plan.merged)
        BY <3>1 DEF IsNewPlan, IsPlanIn, Created
      <3>5. ~ IsThunk(n, o.plan.merged)
        BY <1>3, <3>4, NameOf
      <3>6. \A f \in New : IsDeclaration(n.fns[f]) => IsLeftover(n, f)
        BY <3>1, <3>2 DEF IsNewPlan, IsPlanIn
      <3>7. QED BY <2>1, <2>3, <3>2, <3>3, <3>5, <3>6
    <2>4. QED BY <2>2, <2>3
  <1>6. ArePlansIn(n, Q)
    <2>1. CASE o.plan = NoPlan
      <3>1. Q = P
        BY <2>1 DEF WithPlan
      <3>2. QED BY <1>4, <3>1 DEF ArePlansIn, IsSound
    <2>2. CASE o.plan # NoPlan
      <3> DEFINE r == o.plan
      <3>1. Q = P \cup {r}
        BY <2>2 DEF WithPlan
      <3>2. IsPlanIn(n, r) /\ Parts(r) = Range(parts) /\ Created(r) \subseteq m.next .. n.next - 1
        BY <1>2, <2>2 DEF IsNewPlan, Parts
      <3>3. Parts(r) \subseteq Ids(m)
        BY <1>1, <3>2 DEF ArePlannable, MayBePlanned
      <3>4. \A p \in P : Parts(p) \subseteq Ids(m) /\ Created(p) \subseteq Ids(m)
        BY <1>1 DEF IsSound, ArePlansIn, IsPlanIn
      <3>5. \A f \in Ids(m) : f \notin m.next .. n.next - 1
        BY <1>1 DEF Ids
      <3> HIDE DEF r, Q
      <3>6. \A p \in P : /\ Created(r) \cap Parts(p) = {} /\ Created(p) \cap Parts(r) = {}
                         /\ Created(r) \cap Created(p) = {}
        BY <3>2, <3>4, <3>5
      <3>7. Created(r) \cap Parts(r) = {}
        BY <3>2, <3>3, <3>5
      <3>8. \A p, q \in P : /\ Created(p) \cap Parts(q) = {}
                            /\ p # q => Created(p) \cap Created(q) = {}
        BY DEF IsSound, ArePlansIn
      <3>9. ASSUME NEW p \in Q, NEW q \in Q
            PROVE  Created(p) \cap Parts(q) = {} /\ (p # q => Created(p) \cap Created(q) = {})
        <4>1. (p \in P \/ p = r) /\ (q \in P \/ q = r)
          BY <3>1
        <4>2. QED BY <3>6, <3>7, <3>8, <4>1
      <3>10. \A p \in Q : IsPlanIn(n, p)
        BY <1>4, <3>1, <3>2
      <3>11. QED BY <3>9, <3>10 DEF ArePlansIn
    <2>3. QED BY <2>1, <2>2
  <1>7. ASSUME NEW f \in DOMAIN n.fns, IsThunk(n, f) PROVE \E p \in Q : f \in ThunksOf(p)
    <2>1. CASE f \in DOMAIN m.fns
      <3>1. IsThunk(m, f)
        BY <1>3, <1>7, <2>1 DEF IsThunk
      <3>2. PICK p \in P : f \in ThunksOf(p)
        BY <2>1, <3>1 DEF IsSound
      <3>3. QED BY <3>2 DEF WithPlan
    <2>2. CASE f \in New
      BY <1>5, <1>7, <2>2 DEF WithPlan
    <2>3. QED BY <2>1, <2>2
  <1>8. ASSUME NEW f \in DOMAIN n.fns, IsDeclaration(n.fns[f])
        PROVE  \/ f \in DOMAIN orig.fns /\ IsDeclaration(orig.fns[f])
                      /\ n.fns[f].name = orig.fns[f].name
               \/ f \notin DOMAIN orig.fns /\ IsLeftover(n, f)
    <2>1. CASE f \in DOMAIN m.fns
      <3>1. n.fns[f] = m.fns[f]
        BY <1>3, <2>1
      <3>2. CASE f \in DOMAIN orig.fns /\ IsDeclaration(orig.fns[f])
                     /\ m.fns[f].name = orig.fns[f].name
        BY <3>1, <3>2
      <3>3. CASE f \notin DOMAIN orig.fns /\ IsLeftover(m, f)
        BY <1>1, <1>2, <2>1, <3>3, LeftoverStays
      <3>4. QED BY <1>8, <2>1, <3>1, <3>2, <3>3 DEF IsSound
    <2>2. CASE f \in New
      BY <1>5, <1>8, <2>2
    <2>3. QED BY <2>1, <2>2
  <1>9. orig.next <= n.next
    BY <1>1, <1>3
  <1> HIDE DEF Q
  <1>10. IsSound(orig, n, Q)
    BY <1>3, <1>6, <1>7, <1>8, <1>9 DEF IsSound
  <1>11. QED BY <1>10 DEF n, Q


(* A plan does not mind changes to the functions of others. *)
LEMMA PlanIsKept ==
  ASSUME NEW n, NEW m, NEW p, IsPlanIn(m, p),
         \A f \in Parts(p) \cup Created(p) : f \in DOMAIN n.fns,
         \A f \in Created(p) : n.fns[f].name = m.fns[f].name
                               /\ (IsDeclaration(n.fns[f]) <=> IsDeclaration(m.fns[f])),
         \A f \in Parts(p) : /\ f \in Called(n) => f \in Called(m)
                             /\ f \in Taken(n) => f \in Taken(m)
  PROVE  IsPlanIn(n, p)
  <1>1. p.merged \in Created(p) /\ ThunksOf(p) \subseteq Created(p)
    BY DEF Created
  <1>2. \A f \in Parts(p) : Unused(m, f) => Unused(n, f)
    BY UsesOfModule
  <1>3. IsMerged(n, p.merged) /\ \A t \in ThunksOf(p) : IsThunk(n, t) /\ ~ IsDeclaration(n.fns[t])
    BY <1>1 DEF IsPlanIn, IsMerged, IsThunk
  <1>4. ReplacedParts(p) \subseteq Parts(p)
    BY DEF ReplacedParts, Parts, Range
  <1>5. IsDeclaration(n.fns[p.merged]) => \A f \in Parts(p) : Unused(n, f)
    BY <1>1, <1>2 DEF IsPlanIn
  <1>6. \A f \in ReplacedParts(p) : f \notin Taken(n)
    BY <1>4 DEF IsPlanIn
  <1>7. Parts(p) \cup Created(p) \subseteq DOMAIN n.fns
    OBVIOUS
  <1>8. QED BY <1>3, <1>5, <1>6, <1>7 DEF IsPlanIn

(* Discarding a plan keeps a module sound. *)
LEMMA SoundAfterDiscard ==
  ASSUME NEW orig, NEW m, NEW P, IsSound(orig, m, P), NEW p \in P
  PROVE  IsSound(orig, DiscardPlan(m, p), P \ {p})
  <1> DEFINE n == DiscardPlan(m, p)
             Q == P \ {p}
  <1>1. /\ WellFormed(m) /\ orig.next <= m.next /\ ArePlansIn(m, P)
    BY DEF IsSound
  <1>2. IsWithout(n, m, Created(p))
    <2>1. n = Erase(m, Created(p))
      BY DEF DiscardPlan, Created, ThunksOf
    <2> HIDE DEF n
    <2>2. IsWithout(Erase(m, Created(p)), m, Created(p))
      BY <1>1, EraseProperties, Zenon
    <2>3. QED BY <2>1, <2>2
  <1> HIDE DEF n
  <1>3. \A f \in DOMAIN n.fns : f \in DOMAIN m.fns /\ n.fns[f] = m.fns[f] /\ f \notin Created(p)
    BY <1>2 DEF IsWithout
  <1>4. ASSUME NEW q \in Q PROVE IsPlanIn(n, q)
    <2>1. q \in P /\ q # p /\ IsPlanIn(m, q)
      BY <1>1 DEF ArePlansIn
    <2>2. Created(p) \cap Parts(q) = {} /\ Created(p) \cap Created(q) = {}
      BY <1>1, <2>1 DEF ArePlansIn
    <2>3. \A f \in Parts(q) \cup Created(q) : f \in DOMAIN n.fns /\ n.fns[f] = m.fns[f]
      BY <1>2, <2>1, <2>2 DEF IsWithout, IsPlanIn
    <2>4. Called(n) \subseteq Called(m) /\ Taken(n) \subseteq Taken(m)
      BY <1>2 DEF IsWithout
    <2>5. QED BY <2>1, <2>3, <2>4, PlanIsKept
  <1>5. ArePlansIn(n, Q)
    BY <1>1, <1>4 DEF ArePlansIn
  <1>6. ASSUME NEW f \in DOMAIN n.fns, IsThunk(n, f) PROVE \E q \in Q : f \in ThunksOf(q)
    <2>1. IsThunk(m, f) /\ f \in DOMAIN m.fns
      BY <1>3, <1>6 DEF IsThunk
    <2>2. PICK q \in P : f \in ThunksOf(q)
      BY <2>1 DEF IsSound
    <2>3. q # p
      BY <1>3, <2>2 DEF Created
    <2>4. QED BY <2>2, <2>3
  <1>7. ASSUME NEW f \in DOMAIN n.fns, IsLeftover(m, f) PROVE IsLeftover(n, f)
    <2>1. Unused(n, f)
      BY <1>2, <1>7, UsesOfModule DEF IsWithout, IsLeftover
    <2>2. QED BY <1>3, <1>7, <2>1 DEF IsLeftover, IsMerged
  <1>8. ASSUME NEW f \in DOMAIN n.fns, IsDeclaration(n.fns[f])
        PROVE  \/ f \in DOMAIN orig.fns /\ IsDeclaration(orig.fns[f])
                      /\ n.fns[f].name = orig.fns[f].name
               \/ f \notin DOMAIN orig.fns /\ IsLeftover(n, f)
    <2>1. f \in DOMAIN m.fns /\ n.fns[f] = m.fns[f]
      BY <1>3
    <2>2. \/ f \in DOMAIN orig.fns /\ IsDeclaration(orig.fns[f]) /\ m.fns[f].name = orig.fns[f].name
          \/ f \notin DOMAIN orig.fns /\ IsLeftover(m, f)
      BY <1>8, <2>1 DEF IsSound
    <2>3. QED BY <1>7, <2>1, <2>2
  <1>9. WellFormed(n) /\ orig.next <= n.next
    BY <1>1, <1>2 DEF IsWithout
  <1> HIDE DEF Q
  <1>10. IsSound(orig, n, Q)
    BY <1>5, <1>6, <1>8, <1>9 DEF IsSound
  <1>11. QED BY <1>10 DEF n, Q


LEMMA SitesAndRefs ==
  ASSUME NEW m, WellFormed(m)
  PROVE  /\ \A s \in Sites(m) : IsSite(s) /\ s.callee \in Called(m) /\ s.callee \in Ids(m)
         /\ \A r \in Refs(m) : IsRef(r) /\ r.is \in Taken(m) /\ r.is \in Ids(m)
  <1>1. Called(m) \subseteq Ids(m) /\ Taken(m) \subseteq Ids(m)
    BY WellFormedIsShaped
  <1>2. ASSUME NEW s \in Sites(m) PROVE IsSite(s) /\ s.callee \in Called(m)
    <2>1. PICK f \in DOMAIN m.fns : \E q \in m.fns[f].body : s \in q.sites
      BY UsesAre
    <2>2. PICK q \in m.fns[f].body : s \in q.sites
      BY <2>1
    <2>3. IsPath(q)
      BY DEF WellFormed, IsFunction
    <2>4. QED BY <2>2, <2>3, UsesOfModule DEF IsPath
  <1>3. ASSUME NEW r \in Refs(m) PROVE IsRef(r) /\ r.is \in Taken(m)
    <2>1. IsRef(r)
      <3>1. CASE r \in m.globals
        BY <3>1 DEF WellFormed
      <3>2. CASE \E f \in DOMAIN m.fns : \E q \in m.fns[f].body : r \in q.refs
        <4>1. PICK f \in DOMAIN m.fns : \E q \in m.fns[f].body : r \in q.refs
          BY <3>2
        <4>2. PICK q \in m.fns[f].body : r \in q.refs
          BY <4>1
        <4>3. IsPath(q)
          BY DEF WellFormed, IsFunction
        <4>4. QED BY <4>2, <4>3 DEF IsPath
      <3>3. QED BY <3>1, <3>2, UsesAre
    <2>2. QED BY <2>1, UsesOfModule
  <1>4. QED BY <1>1, <1>2, <1>3

(* What applyCallReplacements leaves. *)
CallsReplaced(n, m, p) ==
  /\ WellFormed(n) /\ n.next = m.next
  /\ DOMAIN n.fns = DOMAIN m.fns \ ReplacedParts(p)
  /\ \A f \in DOMAIN n.fns : IsLike(n.fns[f], m.fns[f])
  /\ Taken(n) \subseteq Taken(m)
  /\ \A x \in Called(n) : \/ x \in Called(m)
                            \/ (x = p.merged /\ \E f \in ReplacedParts(p) : f \in Called(m))

LEMMA AppliedCalls ==
  ASSUME NEW m, WellFormed(m), NEW p, p.merged \in Ids(m)
  PROVE  CallsReplaced(ApplyCallReplacements(m, p), m, p)
  <1> DEFINE part(f) == CHOOSE k \in DOMAIN p.parts : p.parts[k] = f
             new(s) == CallMerged(s, p.merged, m.fns[p.merged].sig,
                                  part(s.callee) - 1, p.rows[part(s.callee)])
             site == [s \in Sites(m) |-> IF s.callee \in ReplacedParts(p) THEN new(s) ELSE s]
             ref == [r \in Refs(m) |-> r]
             k1 == MapUses(m, site, ref)
             n == Erase(k1, ReplacedParts(p))
  <1>1. Ids(m) = 1 .. m.next - 1 /\ Called(m) \subseteq Ids(m) /\ Taken(m) \subseteq Ids(m)
    BY WellFormedIsShaped DEF Ids
  <1>2. \A s \in Sites(m) : IsSite(s) /\ s.callee \in Called(m)
    BY SitesAndRefs
  <1>3. \A r \in Refs(m) : IsRef(r) /\ r.is \in Taken(m)
    BY SitesAndRefs
  <1>4. ASSUME NEW s \in Sites(m)
        PROVE  /\ IsSite(site[s])
               /\ site[s].callee = IF s.callee \in ReplacedParts(p) THEN p.merged ELSE s.callee
    <2>1. IsSite(new(s)) /\ new(s).callee = p.merged
      BY <1>2 DEF IsSite, CallMerged
    <2> HIDE DEF new
    <2>2. site[s] = IF s.callee \in ReplacedParts(p) THEN new(s) ELSE s
      OBVIOUS
    <2>3. QED BY <1>2, <2>1, <2>2
  <1>5. \A r \in Refs(m) : ref[r] = r
    OBVIOUS
  <1>6. n = ApplyCallReplacements(m, p)
    BY DEF ApplyCallReplacements
  <1> HIDE DEF site, ref, k1, n
  <1>7. IsRewritten(k1, m, site, ref)
    <2>1. /\ \A s \in Sites(m) : IsSite(site[s])
          /\ \A r \in Refs(m) : IsRef(ref[r])
          /\ \A s \in Sites(m) : site[s].callee \in 1 .. m.next - 1
          /\ \A r \in Refs(m) : ref[r].is \in 1 .. m.next - 1
      BY <1>1, <1>2, <1>3, <1>4, <1>5
    <2>2. IsRewritten(MapUses(m, site, ref), m, site, ref)
      BY <2>1, MapUsesProperties, Zenon
    <2>3. QED BY <2>2 DEF k1
  <1>8. IsWithout(n, k1, ReplacedParts(p))
    <2>1. WellFormed(k1)
      BY <1>7 DEF IsRewritten
    <2>2. IsWithout(Erase(k1, ReplacedParts(p)), k1, ReplacedParts(p))
      BY <2>1, EraseProperties, Zenon
    <2>3. QED BY <2>2 DEF n
  <1>9. /\ WellFormed(n) /\ n.next = m.next
        /\ DOMAIN n.fns = DOMAIN m.fns \ ReplacedParts(p)
        /\ \A f \in DOMAIN n.fns : IsLike(n.fns[f], m.fns[f])
    BY <1>7, <1>8 DEF IsRewritten, IsWithout
  <1>10. Taken(n) \subseteq Taken(m)
    <2>1. Taken(n) \subseteq {ref[r].is : r \in Refs(m)}
      BY <1>7, <1>8 DEF IsRewritten, IsWithout
    <2>2. QED BY <1>3, <1>5, <2>1
  <1>11. ASSUME NEW x \in Called(n)
         PROVE  x \in Called(m) \/ (x = p.merged /\ \E f \in ReplacedParts(p) : f \in Called(m))
    <2>1. PICK s \in Sites(m) : x = site[s].callee
      <3>1. Called(n) \subseteq {site[s].callee : s \in Sites(m)}
        BY <1>7, <1>8 DEF IsRewritten, IsWithout
      <3>2. QED BY <3>1
    <2>2. QED BY <1>2, <1>4, <2>1
  <1>12. CallsReplaced(n, m, p)
    BY <1>9, <1>10, <1>11 DEF CallsReplaced
  <1>13. QED BY <1>6, <1>12

(* What applying the thunks leaves: each has taken the name of its function. *)
IsRenamed(n, m, p) ==
  \A g \in DOMAIN n.fns :
    /\ IsAlike(n.fns[g], m.fns[g])
    /\ IF \E f \in ThunkedParts(p) : ThunkOf(p, f) = g
       THEN \E f \in ThunkedParts(p) : ThunkOf(p, f) = g /\ n.fns[g].name = m.fns[f].name
       ELSE n.fns[g].name = m.fns[g].name

ThunksApplied(n, m, p) ==
  /\ WellFormed(n) /\ n.next = m.next
  /\ DOMAIN n.fns = DOMAIN m.fns \ ThunkedParts(p)
  /\ IsRenamed(n, m, p)
  /\ \A x \in Called(n) : x \in Called(m) \/ \E f \in ThunkedParts(p) : x = ThunkOf(p, f)
  /\ \A x \in Taken(n) : x \in Taken(m) \/ \E f \in ThunkedParts(p) : x = ThunkOf(p, f)

LEMMA NamesTaken ==
  ASSUME NEW m, WellFormed(m), NEW p, ThunkedParts(p) \subseteq DOMAIN m.fns
  PROVE  /\ WellFormed(WithNamesTaken(m, p)) /\ WithNamesTaken(m, p).next = m.next
         /\ DOMAIN WithNamesTaken(m, p).fns = DOMAIN m.fns
         /\ IsRenamed(WithNamesTaken(m, p), m, p)
         /\ Called(WithNamesTaken(m, p)) = Called(m) /\ Taken(WithNamesTaken(m, p)) = Taken(m)
  <1> DEFINE n == WithNamesTaken(m, p)
             Takes2(g) == \E f \in ThunkedParts(p) : ThunkOf(p, f) = g
             of(g) == CHOOSE f \in ThunkedParts(p) : ThunkOf(p, f) = g
             named(g) == [m.fns[g] EXCEPT !.name = m.fns[of(g)].name]
  <1>1. /\ n.next = m.next /\ n.globals = m.globals /\ DOMAIN n = {"fns", "globals", "next"}
        /\ n.fns = [g \in DOMAIN m.fns |-> IF Takes2(g) THEN named(g) ELSE m.fns[g]]
    BY DEF WithNamesTaken, WellFormed
  <1> HIDE DEF n
  <1>2. ASSUME NEW g \in DOMAIN m.fns
        PROVE  /\ IsFunction(n.fns[g]) /\ n.fns[g].body = m.fns[g].body
               /\ IsAlike(n.fns[g], m.fns[g])
               /\ IF Takes2(g)
                  THEN \E f \in ThunkedParts(p) : ThunkOf(p, f) = g
                                                 /\ n.fns[g].name = m.fns[f].name
                  ELSE n.fns[g].name = m.fns[g].name
    <2>1. IsFunction(m.fns[g])
      BY DEF WellFormed
    <2>2. CASE ~ Takes2(g)
      <3>1. n.fns[g] = m.fns[g]
        BY <1>1, <2>2
      <3>2. QED BY <2>1, <2>2, <3>1 DEF IsAlike
    <2>3. CASE Takes2(g)
      <3>1. of(g) \in ThunkedParts(p) /\ ThunkOf(p, of(g)) = g
        BY <2>3
      <3>2. IsFunction(m.fns[of(g)])
        BY <3>1 DEF WellFormed
      <3> HIDE DEF of
      <3>3. n.fns[g] = [m.fns[g] EXCEPT !.name = m.fns[of(g)].name]
        BY <1>1, <2>3
      <3>4. /\ n.fns[g].name = m.fns[of(g)].name /\ n.fns[g].body = m.fns[g].body
            /\ n.fns[g].linkage = m.fns[g].linkage /\ n.fns[g].sig = m.fns[g].sig
            /\ DOMAIN n.fns[g] = {"name", "linkage", "sig", "ret", "pers", "body"}
        BY <2>1, <3>3 DEF IsFunction
      <3>5. IsFunction(n.fns[g]) /\ IsAlike(n.fns[g], m.fns[g])
        BY <2>1, <3>2, <3>4 DEF IsFunction, IsAlike, IsDeclaration
      <3>6. QED BY <2>3, <3>1, <3>4, <3>5
    <2>4. QED BY <2>2, <2>3
  <1>3. DOMAIN n.fns = DOMAIN m.fns
    BY <1>1
  <1>4. Called(n) = Called(m)
    <2>1. \A x : x \in Called(n) <=> x \in Called(m)
      BY <1>2, <1>3, UsesAre
    <2>2. QED BY <2>1
  <1>5. Taken(n) = Taken(m)
    <2>1. \A x : x \in Taken(n) <=> x \in Taken(m)
      <3>1. \A x : x \in Taken(n) <=> \/ \E r \in n.globals : x = r.is
                                      \/ \E f \in DOMAIN n.fns : x \in Takes(n.fns[f].body)
        BY UsesAre
      <3>2. \A x : x \in Taken(m) <=> \/ \E r \in m.globals : x = r.is
                                      \/ \E f \in DOMAIN m.fns : x \in Takes(m.fns[f].body)
        BY UsesAre
      <3>3. \A x : (\E f \in DOMAIN n.fns : x \in Takes(n.fns[f].body))
                    <=> \E f \in DOMAIN m.fns : x \in Takes(m.fns[f].body)
        BY <1>2, <1>3
      <3>4. QED BY <1>1, <3>1, <3>2, <3>3
    <2>2. QED BY <2>1
  <1>6. IsRenamed(n, m, p)
    BY <1>2, <1>3, Zenon DEF IsRenamed
  <1>7. WellFormed(n)
    <2>1. Used(n) = Used(m)
      BY <1>4, <1>5, UsesOfModule
    <2>2. \A f \in DOMAIN n.fns : IsFunction(n.fns[f])
      BY <1>2, <1>3
    <2>3. QED BY <1>1, <1>3, <2>1, <2>2 DEF WellFormed
  <1>8. QED BY <1>1, <1>3, <1>4, <1>5, <1>6, <1>7 DEF n


LEMMA AppliedThunks ==
  ASSUME NEW m, WellFormed(m), NEW p, ThunkedParts(p) \subseteq DOMAIN m.fns,
         \A f \in ThunkedParts(p) : ThunkOf(p, f) \in Ids(m)
  PROVE  ThunksApplied(ApplyThunks(m, p), m, p)
  <1> DEFINE to(f) == IF f \in ThunkedParts(p) THEN ThunkOf(p, f) ELSE f
             k1 == WithNamesTaken(m, p)
             site == [s \in Sites(m) |-> [s EXCEPT !.callee = to(@)]]
             ref == [r \in Refs(m) |-> [r EXCEPT !.is = to(@)]]
             k2 == MapUses(k1, site, ref)
             n == Erase(k2, ThunkedParts(p))
  <1>1. /\ WellFormed(k1) /\ k1.next = m.next /\ DOMAIN k1.fns = DOMAIN m.fns
        /\ IsRenamed(k1, m, p) /\ Called(k1) = Called(m) /\ Taken(k1) = Taken(m)
    BY NamesTaken
  <1>2. Ids(m) = 1 .. m.next - 1 /\ \A f \in Ids(m) : to(f) \in Ids(m)
    BY DEF Ids
  <1>3. ASSUME NEW s \in Sites(m) PROVE IsSite(site[s]) /\ site[s].callee = to(s.callee)
    <2>1. IsSite(s)
      BY SitesAndRefs
    <2> HIDE DEF to
    <2>2. QED BY <2>1 DEF IsSite
  <1>4. ASSUME NEW r \in Refs(m) PROVE IsRef(ref[r]) /\ ref[r].is = to(r.is)
    <2>1. IsRef(r)
      BY SitesAndRefs
    <2> HIDE DEF to
    <2>2. QED BY <2>1 DEF IsRef
  <1>5. Sites(k1) = Sites(m) /\ Refs(k1) = Refs(m)
    <2>1. k1.globals = m.globals /\ \A g \in DOMAIN m.fns : k1.fns[g].body = m.fns[g].body
      <3>1. /\ k1.globals = m.globals
            /\ DOMAIN k1.fns = DOMAIN m.fns
        BY DEF WithNamesTaken, WellFormed
      <3>2. ASSUME NEW g \in DOMAIN m.fns PROVE k1.fns[g].body = m.fns[g].body
        <4>1. IsFunction(m.fns[g])
          BY DEF WellFormed
        <4>2. k1.fns[g] = m.fns[g] \/ \E x : k1.fns[g] = [m.fns[g] EXCEPT !.name = x]
          BY DEF WithNamesTaken, WellFormed
        <4> HIDE DEF k1
        <4>3. QED BY <4>1, <4>2 DEF IsFunction
      <3>3. QED BY <3>1, <3>2
    <2> HIDE DEF k1
    <2>2. \A s : s \in Sites(k1) <=> s \in Sites(m)
      BY <1>1, <2>1, UsesAre
    <2>3. \A r : r \in Refs(k1) <=> r \in Refs(m)
      BY <1>1, <2>1, UsesAre
    <2>4. QED BY <2>2, <2>3
  <1>6. n = ApplyThunks(m, p)
    BY DEF ApplyThunks
  <1> HIDE DEF to, site, ref, k1, k2, n
  <1>7. IsRewritten(k2, k1, site, ref)
    <2>1. /\ \A s \in Sites(k1) : IsSite(site[s])
          /\ \A r \in Refs(k1) : IsRef(ref[r])
          /\ \A s \in Sites(k1) : site[s].callee \in 1 .. k1.next - 1
          /\ \A r \in Refs(k1) : ref[r].is \in 1 .. k1.next - 1
      BY <1>1, <1>2, <1>3, <1>4, <1>5, SitesAndRefs
    <2>2. IsRewritten(MapUses(k1, site, ref), k1, site, ref)
      BY <1>1, <2>1, MapUsesProperties, Zenon
    <2>3. QED BY <2>2 DEF k2
  <1>8. IsWithout(n, k2, ThunkedParts(p))
    <2>1. WellFormed(k2)
      BY <1>7 DEF IsRewritten
    <2>2. IsWithout(Erase(k2, ThunkedParts(p)), k2, ThunkedParts(p))
      BY <2>1, EraseProperties, Zenon
    <2>3. QED BY <2>2 DEF n
  <1>9. /\ WellFormed(n) /\ n.next = m.next
        /\ DOMAIN n.fns = DOMAIN m.fns \ ThunkedParts(p)
        /\ \A f \in DOMAIN n.fns : IsLike(n.fns[f], k1.fns[f])
    BY <1>1, <1>7, <1>8 DEF IsRewritten, IsWithout
  <1>10. IsRenamed(n, m, p)
    <2>1. ASSUME NEW g \in DOMAIN n.fns
          PROVE  n.fns[g].name = k1.fns[g].name /\ IsAlike(n.fns[g], m.fns[g])
                     /\ g \in DOMAIN k1.fns
      <3>1. IsAlike(k1.fns[g], m.fns[g]) /\ g \in DOMAIN k1.fns
        BY <1>1, <1>9 DEF IsRenamed
      <3>2. QED BY <1>9, <3>1 DEF IsLike, IsAlike
    <2>2. ASSUME NEW g \in DOMAIN n.fns
          PROVE  IF \E f \in ThunkedParts(p) : ThunkOf(p, f) = g
                 THEN \E f \in ThunkedParts(p) : ThunkOf(p, f) = g
                                                /\ n.fns[g].name = m.fns[f].name
                 ELSE n.fns[g].name = m.fns[g].name
      <3>1. IF \E f \in ThunkedParts(p) : ThunkOf(p, f) = g
            THEN \E f \in ThunkedParts(p) : ThunkOf(p, f) = g
                                           /\ k1.fns[g].name = m.fns[f].name
            ELSE k1.fns[g].name = m.fns[g].name
        BY <1>1, <2>1, Zenon DEF IsRenamed
      <3>2. QED BY <2>1, <3>1
    <2>3. QED BY <2>1, <2>2, Zenon DEF IsRenamed
  <1>11. ASSUME NEW x \in Called(n)
         PROVE  x \in Called(m) \/ \E f \in ThunkedParts(p) : x = ThunkOf(p, f)
    <2>1. Called(n) \subseteq {site[s].callee : s \in Sites(m)}
      BY <1>5, <1>7, <1>8 DEF IsRewritten, IsWithout
    <2>2. PICK s \in Sites(m) : x = site[s].callee
      BY <2>1
    <2>3. QED BY <1>3, <2>2, SitesAndRefs DEF to
  <1>12. ASSUME NEW x \in Taken(n)
         PROVE  x \in Taken(m) \/ \E f \in ThunkedParts(p) : x = ThunkOf(p, f)
    <2>1. Taken(n) \subseteq {ref[r].is : r \in Refs(m)}
      BY <1>5, <1>7, <1>8 DEF IsRewritten, IsWithout
    <2>2. PICK r \in Refs(m) : x = ref[r].is
      BY <2>1
    <2>3. QED BY <1>4, <2>2, SitesAndRefs DEF to
  <1>13. ThunksApplied(n, m, p)
    BY <1>9, <1>10, <1>11, <1>12 DEF ThunksApplied
  <1>14. QED BY <1>6, <1>13


LEMMA ThunksOfParts ==
  ASSUME NEW m, NEW p, IsPlanIn(m, p)
  PROVE  /\ \A f \in ThunkedParts(p) : ThunkOf(p, f) \in ThunksOf(p)
         /\ \A t \in ThunksOf(p) : \E f \in ThunkedParts(p) : ThunkOf(p, f) = t
         /\ ReplacedParts(p) \subseteq Parts(p) /\ ThunkedParts(p) = Parts(p) \ ReplacedParts(p)
  <1> DEFINE at(f) == CHOOSE k \in DOMAIN p.parts : p.parts[k] = f
  <1>1. DOMAIN p.thunks = DOMAIN p.parts /\ Distinct(p.parts)
    BY DEF IsPlanIn
  <1>2. \A f \in Parts(p) : at(f) \in DOMAIN p.parts /\ p.parts[at(f)] = f
    BY DEF Parts, Range
  <1>3. \A f : ThunkOf(p, f) = p.thunks[at(f)]
    BY DEF ThunkOf
  <1> HIDE DEF at
  <1>4. ASSUME NEW f \in ThunkedParts(p) PROVE ThunkOf(p, f) \in ThunksOf(p)
    <2>1. f \in Parts(p) /\ f \notin ReplacedParts(p)
      BY DEF ThunkedParts
    <2>2. p.thunks[at(f)] # None
      BY <1>2, <2>1 DEF ReplacedParts
    <2>3. QED BY <1>1, <1>2, <1>3, <2>1, <2>2 DEF ThunksOf, Range
  <1>5. ASSUME NEW t \in ThunksOf(p) PROVE \E f \in ThunkedParts(p) : ThunkOf(p, f) = t
    <2>1. PICK k \in DOMAIN p.parts : p.thunks[k] = t /\ t # None
      BY <1>1 DEF ThunksOf, Range
    <2> DEFINE f == p.parts[k]
    <2>2. f \in Parts(p)
      BY DEF Parts, Range
    <2>3. \A j \in DOMAIN p.parts : p.parts[j] = f => j = k
      BY <1>1 DEF Distinct
    <2>4. f \notin ReplacedParts(p)
      BY <2>1, <2>3 DEF ReplacedParts
    <2>5. at(f) = k
      BY <1>2, <2>2, <2>3
    <2>6. QED BY <1>3, <2>1, <2>2, <2>4, <2>5 DEF ThunkedParts
  <1>6. ReplacedParts(p) \subseteq Parts(p)
    BY DEF ReplacedParts, Parts, Range
  <1>7. QED BY <1>4, <1>5, <1>6 DEF ThunkedParts

(* What applyMerge leaves. *)
MergeApplied(n, m, p) ==
  /\ WellFormed(n) /\ n.next = m.next
  /\ DOMAIN n.fns = DOMAIN m.fns \ Parts(p)
  /\ \A g \in DOMAIN n.fns :
       /\ IsAlike(n.fns[g], m.fns[g])
       /\ g \in ThunksOf(p) =>
            \E f \in ThunkedParts(p) : ThunkOf(p, f) = g /\ n.fns[g].name = m.fns[f].name
       /\ g \notin ThunksOf(p) => n.fns[g].name = m.fns[g].name
  /\ \A x \in Called(n) : \/ x \in Called(m) \/ x \in ThunksOf(p)
                          \/ (x = p.merged /\ \E f \in ReplacedParts(p) : f \in Called(m))
  /\ \A x \in Taken(n) : x \in Taken(m) \/ x \in ThunksOf(p)

LEMMA AppliedMerges ==
  ASSUME NEW m, WellFormed(m), NEW p, IsPlanIn(m, p)
  PROVE  MergeApplied(ApplyMerge(m, p), m, p)
  <1> DEFINE k == ApplyCallReplacements(m, p)
             n == ApplyThunks(k, p)
  <1>1. /\ Parts(p) \cup Created(p) \subseteq DOMAIN m.fns /\ DOMAIN m.fns \subseteq Ids(m)
        /\ p.merged \in Created(p) /\ ThunksOf(p) \subseteq Created(p)
    BY WellFormedIsShaped DEF IsPlanIn, Created
  <1>2. /\ \A f \in ThunkedParts(p) : ThunkOf(p, f) \in ThunksOf(p)
        /\ \A t \in ThunksOf(p) : \E f \in ThunkedParts(p) : ThunkOf(p, f) = t
        /\ ReplacedParts(p) \subseteq Parts(p) /\ ThunkedParts(p) = Parts(p) \ ReplacedParts(p)
    BY ThunksOfParts
  <1>3. CallsReplaced(k, m, p)
    BY <1>1, AppliedCalls
  <1>4. n = ApplyMerge(m, p)
    BY DEF ApplyMerge
  <1> HIDE DEF k
  <1>5. /\ WellFormed(k) /\ k.next = m.next
        /\ DOMAIN k.fns = DOMAIN m.fns \ ReplacedParts(p)
        /\ \A f \in DOMAIN k.fns : IsLike(k.fns[f], m.fns[f])
        /\ Taken(k) \subseteq Taken(m)
        /\ \A x \in Called(k) : \/ x \in Called(m)
                                \/ (x = p.merged /\ \E f \in ReplacedParts(p) : f \in Called(m))
    BY <1>3 DEF CallsReplaced
  <1>6. ThunksApplied(n, k, p)
    <2>1. ThunkedParts(p) \subseteq DOMAIN k.fns
      BY <1>1, <1>2, <1>5
    <2>2. \A f \in ThunkedParts(p) : ThunkOf(p, f) \in Ids(k)
      BY <1>1, <1>2, <1>5 DEF Ids
    <2>3. QED BY <1>5, <2>1, <2>2, AppliedThunks, Zenon
  <1> HIDE DEF n
  <1>7. DOMAIN n.fns = DOMAIN m.fns \ Parts(p)
    BY <1>2, <1>5, <1>6 DEF ThunksApplied
  <1>8. ASSUME NEW g \in DOMAIN n.fns
        PROVE  /\ IsAlike(n.fns[g], m.fns[g])
               /\ g \in ThunksOf(p) =>
                    \E f \in ThunkedParts(p) : ThunkOf(p, f) = g /\ n.fns[g].name = m.fns[f].name
               /\ g \notin ThunksOf(p) => n.fns[g].name = m.fns[g].name
    <2>1. g \in DOMAIN k.fns /\ IsLike(k.fns[g], m.fns[g])
      BY <1>5, <1>6 DEF ThunksApplied
    <2>2. /\ IsAlike(n.fns[g], k.fns[g])
          /\ IF \E f \in ThunkedParts(p) : ThunkOf(p, f) = g
             THEN \E f \in ThunkedParts(p) : ThunkOf(p, f) = g /\ n.fns[g].name = k.fns[f].name
             ELSE n.fns[g].name = k.fns[g].name
      <3>1. IsRenamed(n, k, p)
        BY <1>6 DEF ThunksApplied
      <3>2. QED BY <3>1, Zenon DEF IsRenamed
    <2>3. IsAlike(n.fns[g], m.fns[g])
      BY <2>1, <2>2 DEF IsLike, IsAlike
    <2>4. ASSUME g \in ThunksOf(p)
          PROVE  \E f \in ThunkedParts(p) : ThunkOf(p, f) = g /\ n.fns[g].name = m.fns[f].name
      <3>1. PICK f \in ThunkedParts(p) : ThunkOf(p, f) = g /\ n.fns[g].name = k.fns[f].name
        BY <1>2, <2>2, <2>4
      <3>2. f \in Parts(p) /\ f \in DOMAIN k.fns
        BY <1>1, <1>2, <1>5
      <3>3. k.fns[f].name = m.fns[f].name
        BY <1>5, <3>2 DEF IsLike
      <3>4. QED BY <3>1, <3>2, <3>3
    <2>5. ASSUME g \notin ThunksOf(p) PROVE n.fns[g].name = m.fns[g].name
      <3>1. n.fns[g].name = k.fns[g].name
        BY <1>2, <2>2, <2>5
      <3>2. QED BY <2>1, <3>1 DEF IsLike
    <2>6. QED BY <2>3, <2>4, <2>5
  <1>9. ASSUME NEW x \in Called(n)
        PROVE  \/ x \in Called(m) \/ x \in ThunksOf(p)
               \/ (x = p.merged /\ \E f \in ReplacedParts(p) : f \in Called(m))
    <2>1. x \in Called(k) \/ x \in ThunksOf(p)
      BY <1>2, <1>6 DEF ThunksApplied
    <2>2. QED BY <1>5, <2>1
  <1>10. ASSUME NEW x \in Taken(n) PROVE x \in Taken(m) \/ x \in ThunksOf(p)
    <2>1. x \in Taken(k) \/ x \in ThunksOf(p)
      BY <1>2, <1>6 DEF ThunksApplied
    <2>2. QED BY <1>5, <2>1
  <1>11. WellFormed(n) /\ n.next = m.next
    BY <1>5, <1>6 DEF ThunksApplied
  <1>12. MergeApplied(n, m, p)
    BY <1>7, <1>8, <1>9, <1>10, <1>11 DEF MergeApplied
  <1>13. QED BY <1>4, <1>12

(* Applying a plan does not use a leftover. *)
LEMMA LeftoverAfterApply ==
  ASSUME NEW m, WellFormed(m), NEW p, IsPlanIn(m, p),
         NEW f \in DOMAIN ApplyMerge(m, p).fns, IsLeftover(m, f)
  PROVE  IsLeftover(ApplyMerge(m, p), f)
  <1> DEFINE n == ApplyMerge(m, p)
  <1>1. MergeApplied(n, m, p)
    BY AppliedMerges
  <1> HIDE DEF n
  <1>2. f \notin ThunksOf(p)
    <2>1. \A t \in ThunksOf(p) : ~ IsDeclaration(m.fns[t])
      BY DEF IsPlanIn
    <2>2. QED BY <2>1 DEF IsLeftover
  <1>3. f \in DOMAIN n.fns
    BY DEF n
  <1>4. n.fns[f].name = m.fns[f].name /\ IsAlike(n.fns[f], m.fns[f])
    BY <1>1, <1>2, <1>3 DEF MergeApplied
  <1>5. f \notin Called(m) /\ f \notin Taken(m)
    BY UsesOfModule DEF IsLeftover
  <1>6. f = p.merged => \A g \in ReplacedParts(p) : g \notin Called(m)
    <2>1. f = p.merged => \A g \in Parts(p) : Unused(m, g)
      BY DEF IsLeftover, IsPlanIn
    <2>2. ReplacedParts(p) \subseteq Parts(p)
      BY ThunksOfParts
    <2>3. QED BY <2>1, <2>2, UsesOfModule
  <1>7. f \notin Called(n) /\ f \notin Taken(n)
    BY <1>1, <1>2, <1>5, <1>6 DEF MergeApplied
  <1>8. Unused(n, f)
    BY <1>7, UsesOfModule
  <1>9. IsLeftover(n, f)
    BY <1>4, <1>8 DEF IsLeftover, IsMerged, IsAlike
  <1>10. QED BY <1>9 DEF n

(* Applying a plan that shares no function with another keeps a module      *)
(* sound.                                                                  *)
LEMMA SoundAfterApply ==
  ASSUME NEW orig, NEW m, NEW P, IsSound(orig, m, P), NEW p \in P,
         \A q \in P \ {p} : Parts(q) \cap Parts(p) = {}
  PROVE  IsSound(orig, ApplyMerge(m, p), P \ {p})
  <1> DEFINE n == ApplyMerge(m, p)
             Q == P \ {p}
  <1>1. /\ WellFormed(m) /\ orig.next <= m.next /\ ArePlansIn(m, P) /\ IsPlanIn(m, p)
    BY DEF IsSound, ArePlansIn
  <1>2. MergeApplied(n, m, p)
    BY <1>1, AppliedMerges
  <1> HIDE DEF n
  <1>3. /\ WellFormed(n) /\ n.next = m.next
        /\ DOMAIN n.fns = DOMAIN m.fns \ Parts(p)
        /\ \A g \in DOMAIN n.fns : /\ IsAlike(n.fns[g], m.fns[g])
                                   /\ g \notin ThunksOf(p) => n.fns[g].name = m.fns[g].name
    BY <1>2 DEF MergeApplied
  <1>4. ASSUME NEW q \in Q PROVE IsPlanIn(n, q)
    <2>1. q \in P /\ q # p /\ IsPlanIn(m, q)
      BY <1>1 DEF ArePlansIn
    <2>2. /\ Created(p) \cap Parts(q) = {} /\ Created(p) \cap Created(q) = {}
          /\ Created(q) \cap Parts(p) = {} /\ Parts(q) \cap Parts(p) = {}
          /\ p.merged \in Created(p) /\ ThunksOf(p) \subseteq Created(p)
      BY <1>1, <2>1 DEF ArePlansIn, Created
    <2>3. \A f \in Parts(q) \cup Created(q) : f \in DOMAIN n.fns
      BY <1>3, <2>1, <2>2 DEF IsPlanIn
    <2>4. \A f \in Created(q) : /\ n.fns[f].name = m.fns[f].name
                                /\ (IsDeclaration(n.fns[f]) <=> IsDeclaration(m.fns[f]))
      BY <1>3, <2>2, <2>3 DEF IsAlike
    <2>5. \A f \in Parts(q) : /\ f \in Called(n) => f \in Called(m)
                              /\ f \in Taken(n) => f \in Taken(m)
      BY <1>2, <2>2 DEF MergeApplied
    <2>6. QED BY <2>1, <2>3, <2>4, <2>5, PlanIsKept
  <1>5. ArePlansIn(n, Q)
    BY <1>1, <1>4 DEF ArePlansIn
  <1>6. ASSUME NEW f \in DOMAIN n.fns, IsThunk(n, f) PROVE \E q \in Q : f \in ThunksOf(q)
    <2>1. CASE f \in ThunksOf(p)
      <3>1. PICK g \in Parts(p) : n.fns[f].name = m.fns[g].name
        BY <1>2, <2>1 DEF MergeApplied, ThunkedParts
      <3>2. IsThunk(m, g) /\ g \in DOMAIN m.fns
        BY <1>1, <1>6, <3>1 DEF IsThunk, IsPlanIn
      <3>3. PICK q \in P : g \in ThunksOf(q)
        BY <3>2 DEF IsSound
      <3>4. Created(q) \cap Parts(p) = {} /\ g \in Created(q)
        BY <1>1, <3>3 DEF ArePlansIn, Created
      <3>5. QED BY <3>1, <3>4
    <2>2. CASE f \notin ThunksOf(p)
      <3>1. IsThunk(m, f) /\ f \in DOMAIN m.fns
        BY <1>3, <1>6, <2>2 DEF IsThunk
      <3>2. PICK q \in P : f \in ThunksOf(q)
        BY <3>1 DEF IsSound
      <3>3. QED BY <2>2, <3>2
    <2>3. QED BY <2>1, <2>2
  <1>7. \A t \in ThunksOf(p) : t \in DOMAIN m.fns /\ ~ IsDeclaration(m.fns[t])
    BY <1>1 DEF IsPlanIn, Created
  <1>8. ASSUME NEW f \in DOMAIN n.fns, IsLeftover(m, f) PROVE IsLeftover(n, f)
    BY <1>1, <1>8, LeftoverAfterApply DEF n
  <1>9. ASSUME NEW f \in DOMAIN n.fns, IsDeclaration(n.fns[f])
        PROVE  \/ f \in DOMAIN orig.fns /\ IsDeclaration(orig.fns[f])
                      /\ n.fns[f].name = orig.fns[f].name
               \/ f \notin DOMAIN orig.fns /\ IsLeftover(n, f)
    <2>1. f \in DOMAIN m.fns /\ IsDeclaration(m.fns[f])
      BY <1>3, <1>9 DEF IsAlike
    <2>2. f \notin ThunksOf(p)
      BY <1>7, <2>1
    <2>3. n.fns[f].name = m.fns[f].name
      BY <1>3, <2>2
    <2>4. \/ f \in DOMAIN orig.fns /\ IsDeclaration(orig.fns[f]) /\ m.fns[f].name = orig.fns[f].name
          \/ f \notin DOMAIN orig.fns /\ IsLeftover(m, f)
      BY <2>1 DEF IsSound
    <2>5. QED BY <1>8, <2>2, <2>3, <2>4
  <1>10. orig.next <= n.next
    BY <1>1, <1>3
  <1> HIDE DEF Q
  <1>11. IsSound(orig, n, Q)
    BY <1>3, <1>5, <1>6, <1>9, <1>10 DEF IsSound
  <1>12. QED BY <1>11 DEF n, Q


-----------------------------------------------------------------------------
(***************************************************************************)
(* The steps of an exploration, a manual merge and a replay.               *)
(***************************************************************************)
LEMMA GivenIsSound ==
  ASSUME NEW j \in Jobs
  PROVE  IsSound(j.mod, j.mod, {})
  <1>1. WellFormed(j.mod)
    BY JobFacts
  <1>2. \A f \in DOMAIN j.mod.fns : ~ IsThunk(j.mod, f)
    BY MergingPassesAssumption DEF IsJob, IsThunk
  <1>3. j.mod.next <= j.mod.next
    BY <1>1 DEF WellFormed
  <1>4. ArePlansIn(j.mod, {})
    BY DEF ArePlansIn
  <1>5. QED BY <1>1, <1>2, <1>3, <1>4 DEF IsSound

LEMMA SpeculationInit == Init => SpeculationInv
  <1> SUFFICES ASSUME Init PROVE SpeculationInv
    OBVIOUS
  <1>1. /\ job \in Jobs /\ mod = job.mod /\ plans = {} /\ front = <<>>
        /\ candidates = Definitions(job.mod)
    BY DEF Init
  <1>2. IsSound(job.mod, mod, plans)
    BY <1>1, GivenIsSound
  <1>3. ExploreInv
    BY <1>1 DEF ExploreInv, Definitions
  <1>4. ReplayInv
    BY <1>1 DEF ReplayInv, Distinct, Range
  <1>5. QED BY <1>1, <1>2, <1>3, <1>4 DEF SpeculationInv, ManualInv

(* What PlanMerge makes of a module, as far as the pass is concerned. *)
LEMMA PlanOutcome ==
  ASSUME job \in Jobs, ~ IsPairwise, SpeculationInv, NEW parts, ArePlannable(mod, parts),
         \A p \in plans : Created(p) \cap Range(parts) = {}, NEW o \in PlanMerge(mod, parts)
  PROVE  /\ IsSound(job.mod, o.mod, WithPlan(plans, o))
         /\ WellFormed(mod) /\ Extends(o.mod, mod)
         /\ o.plan # NoPlan => o.plan.parts = parts /\ IsNewPlan(o.mod, o.plan, mod)
  <1>1. IsSound(job.mod, mod, plans) /\ WellFormed(job.mod)
    BY JobFacts DEF SpeculationInv
  <1>2. WellFormed(mod)
    BY <1>1 DEF IsSound
  <1>3. IsSound(job.mod, o.mod, WithPlan(plans, o))
    BY <1>1, SoundAfterPlan
  <1>4. QED BY <1>2, <1>3, PlanMergeAdds

LEMMA SpeculationAfterPlan == WorkInv /\ SpeculationInv /\ Plan => SpeculationInv'
  <1> SUFFICES ASSUME WorkInv, SpeculationInv, Plan PROVE SpeculationInv'
    OBVIOUS
  <1>1. PICK S \in SUBSET candidates :
          /\ Cardinality(S) \in 2 .. MaxMergeSize
          /\ \E parts \in SetToSeqs(S) : \E o \in PlanMerge(mod, parts) :
               /\ mod' = o.mod
               /\ plans' = IF o.plan = NoPlan THEN plans ELSE plans \cup {o.plan}
    BY DEF Plan
  <1>2. PICK parts \in SetToSeqs(S) : \E o \in PlanMerge(mod, parts) :
               /\ mod' = o.mod
               /\ plans' = IF o.plan = NoPlan THEN plans ELSE plans \cup {o.plan}
    BY <1>1
  <1>3. PICK o \in PlanMerge(mod, parts) :
               /\ mod' = o.mod
               /\ plans' = IF o.plan = NoPlan THEN plans ELSE plans \cup {o.plan}
    BY <1>2
  <1>4. Pass = "explore" /\ UNCHANGED <<job, candidates, front>> /\ job \in Jobs /\ ~ IsPairwise
    BY DEF Plan, IsPairwise, PairwisePasses, Pass, WorkInv, JobInv
  <1>5. /\ \A f \in candidates : f \in DOMAIN mod.fns /\ ~ IsDeclaration(mod.fns[f])
        /\ \A p \in plans : Created(p) \cap candidates = {} /\ ~ IsDeclaration(mod.fns[p.merged])
    BY <1>4 DEF SpeculationInv, ExploreInv
  <1>6. IsSequence(parts) /\ Distinct(parts) /\ Range(parts) = S /\ \E f, g \in S : f # g
    <2>1. IsFiniteSet(S)
      BY FiniteIds DEF WorkInv, IdsInv
    <2>2. QED BY <1>1, <2>1, PlansOfCandidates, PermutationProperties
  <1>7. ArePlannable(mod, parts) /\ \A p \in plans : Created(p) \cap Range(parts) = {}
    BY <1>5, <1>6 DEF ArePlannable, MayBePlanned
  <1>8. /\ IsSound(job.mod, o.mod, WithPlan(plans, o))
        /\ WellFormed(mod) /\ Extends(o.mod, mod)
        /\ o.plan # NoPlan => o.plan.parts = parts /\ IsNewPlan(o.mod, o.plan, mod)
    BY <1>4, <1>7, PlanOutcome
  <1>9. plans' = WithPlan(plans, o)
    BY <1>3 DEF WithPlan
  <1>10. IsSound(job.mod, mod', plans')
    BY <1>3, <1>8, <1>9
  <1>11. \A f \in DOMAIN mod.fns : f \in DOMAIN mod'.fns /\ mod'.fns[f] = mod.fns[f]
    BY <1>3, <1>8 DEF Extends
  <1>12. \A f \in candidates : f \in DOMAIN mod'.fns /\ ~ IsDeclaration(mod'.fns[f])
    BY <1>5, <1>11
  <1>13. ASSUME NEW p \in plans'
         PROVE  Created(p) \cap candidates = {} /\ ~ IsDeclaration(mod'.fns[p.merged])
    <2>1. CASE p \in plans
      <3>1. p.merged \in DOMAIN mod.fns
        BY <1>4, <2>1 DEF SpeculationInv, IsSound, ArePlansIn, IsPlanIn, Created
      <3>2. QED BY <1>5, <1>11, <2>1, <3>1
    <2>2. CASE p = o.plan /\ o.plan # NoPlan
      <3>1. IsNewPlan(o.mod, p, mod) /\ Parts(p) = S
        BY <1>6, <1>8, <2>2 DEF Parts
      <3>2. candidates \subseteq Ids(mod) /\ mod.next \in Nat /\ o.mod.next \in Nat
        BY <1>8, WellFormedIsShaped DEF WorkInv, IdsInv, Extends
      <3>3. \A f \in Ids(mod) : f \notin mod.next .. o.mod.next - 1
        BY <3>2 DEF Ids
      <3>4. Created(p) \cap candidates = {}
        BY <3>1, <3>2, <3>3 DEF IsNewPlan
      <3>5. ~ IsDeclaration(o.mod.fns[p.merged])
        BY <1>5, <1>6, <3>1 DEF IsNewPlan
      <3>6. QED BY <1>3, <3>4, <3>5
    <2>3. QED BY <1>9, <2>1, <2>2 DEF WithPlan
  <1>14. ExploreInv'
    BY <1>4, <1>12, <1>13 DEF ExploreInv
  <1>15. Pass' = "explore" /\ ~ IsPairwise'
    BY <1>4 DEF Pass, IsPairwise
  <1>16. QED BY <1>4, <1>10, <1>14, <1>15 DEF SpeculationInv, ManualInv, ReplayInv


LEMMA SpeculationAfterDiscard == WorkInv /\ SpeculationInv /\ Discard => SpeculationInv'
  <1> SUFFICES ASSUME WorkInv, SpeculationInv, Discard PROVE SpeculationInv'
    OBVIOUS
  <1>1. PICK p \in plans : mod' = DiscardPlan(mod, p) /\ plans' = plans \ {p}
    BY DEF Discard
  <1>2. Pass = "explore" /\ UNCHANGED <<job, candidates, front>> /\ ~ IsPairwise
    BY DEF Discard, IsPairwise, PairwisePasses, Pass
  <1>3. IsSound(job.mod, mod, plans)
    BY <1>2 DEF SpeculationInv
  <1>4. IsSound(job.mod, mod', plans')
    BY <1>1, <1>3, SoundAfterDiscard
  <1>5. IsWithout(mod', mod, Created(p))
    <2>1. mod' = Erase(mod, Created(p)) /\ WellFormed(mod)
      BY <1>1, <1>3 DEF DiscardPlan, Created, ThunksOf, IsSound
    <2>2. IsWithout(Erase(mod, Created(p)), mod, Created(p))
      BY <2>1, EraseProperties, Zenon
    <2>3. QED BY <2>1, <2>2
  <1>6. /\ \A f \in candidates : f \in DOMAIN mod.fns /\ ~ IsDeclaration(mod.fns[f])
        /\ \A q \in plans : Created(q) \cap candidates = {} /\ ~ IsDeclaration(mod.fns[q.merged])
    BY <1>2 DEF SpeculationInv, ExploreInv
  <1>7. \A f \in candidates : f \in DOMAIN mod'.fns /\ ~ IsDeclaration(mod'.fns[f])
    BY <1>5, <1>6 DEF IsWithout
  <1>8. ASSUME NEW q \in plans'
        PROVE  Created(q) \cap candidates = {} /\ ~ IsDeclaration(mod'.fns[q.merged])
    <2>1. q \in plans /\ q # p
      BY <1>1
    <2>2. q.merged \in DOMAIN mod.fns /\ q.merged \notin Created(p)
      BY <1>3, <2>1 DEF IsSound, ArePlansIn, IsPlanIn, Created
    <2>3. QED BY <1>5, <1>6, <2>1, <2>2 DEF IsWithout
  <1>9. ExploreInv'
    BY <1>2, <1>7, <1>8 DEF ExploreInv
  <1>10. Pass' = "explore" /\ ~ IsPairwise'
    BY <1>2 DEF Pass, IsPairwise
  <1>11. QED BY <1>2, <1>4, <1>9, <1>10 DEF SpeculationInv, ManualInv, ReplayInv

LEMMA SpeculationAfterApply == WorkInv /\ SpeculationInv /\ Apply => SpeculationInv'
  <1> SUFFICES ASSUME WorkInv, SpeculationInv, Apply PROVE SpeculationInv'
    OBVIOUS
  <1>1. PICK p \in plans :
          /\ \A q \in plans \ {p} : Parts(q) \cap Parts(p) = {}
          /\ mod' = ApplyMerge(mod, p)
          /\ plans' = plans \ {p}
          /\ candidates' = (candidates \ Parts(p)) \cup {p.merged}
    BY DEF Apply, IsUncontested
  <1>2. Pass = "explore" /\ UNCHANGED <<job, front>> /\ ~ IsPairwise
    BY DEF Apply, IsPairwise, PairwisePasses, Pass
  <1>3. IsSound(job.mod, mod, plans) /\ WellFormed(mod) /\ ArePlansIn(mod, plans)
            /\ IsPlanIn(mod, p)
    BY <1>2 DEF SpeculationInv, IsSound, ArePlansIn
  <1>4. IsSound(job.mod, mod', plans')
    BY <1>1, <1>3, SoundAfterApply
  <1>5. MergeApplied(mod', mod, p)
    BY <1>1, <1>3, AppliedMerges
  <1>6. /\ \A f \in candidates : f \in DOMAIN mod.fns /\ ~ IsDeclaration(mod.fns[f])
        /\ \A q \in plans : Created(q) \cap candidates = {} /\ ~ IsDeclaration(mod.fns[q.merged])
    BY <1>2 DEF SpeculationInv, ExploreInv
  <1>7. \A f \in DOMAIN mod.fns \ Parts(p) :
          f \in DOMAIN mod'.fns /\ (IsDeclaration(mod'.fns[f]) <=> IsDeclaration(mod.fns[f]))
    BY <1>5 DEF MergeApplied, IsAlike
  <1>8. p.merged \in DOMAIN mod.fns /\ p.merged \notin Parts(p) /\ p.merged \in Created(p)
    BY <1>3 DEF ArePlansIn, IsPlanIn, Created
  <1>9. \A f \in candidates' : f \in DOMAIN mod'.fns /\ ~ IsDeclaration(mod'.fns[f])
    BY <1>1, <1>6, <1>7, <1>8
  <1>10. ASSUME NEW q \in plans'
         PROVE  Created(q) \cap candidates' = {} /\ ~ IsDeclaration(mod'.fns[q.merged])
    <2>1. q \in plans /\ q # p
      BY <1>1
    <2>2. /\ q.merged \in DOMAIN mod.fns /\ q.merged \in Created(q)
          /\ Created(q) \cap Created(p) = {} /\ Created(q) \cap Parts(p) = {}
      BY <1>3, <2>1 DEF ArePlansIn, IsPlanIn, Created
    <2>3. QED BY <1>1, <1>6, <1>7, <1>8, <2>1, <2>2
  <1>11. ExploreInv'
    BY <1>2, <1>9, <1>10 DEF ExploreInv
  <1>12. Pass' = "explore" /\ ~ IsPairwise'
    BY <1>2 DEF Pass, IsPairwise
  <1>13. QED BY <1>2, <1>4, <1>11, <1>12 DEF SpeculationInv, ManualInv, ReplayInv

(* Functions that are looked up by name have code, but for leftovers.       *)
LEMMA FoundMayBePlanned ==
  ASSUME job \in Jobs, ~ IsPairwise, SpeculationInv, NEW names, AreNames(job.mod, names),
         Distinct(names)
  PROVE  /\ Found(names) \in Seq(DOMAIN mod.fns) /\ IsSequence(Found(names))
                /\ Distinct(Found(names))
         /\ \A f \in Range(Found(names)) : MayBePlanned(mod, f) /\ mod.fns[f].name \in Range(names)
  <1>1. names \in Seq(Seq(STRING))
    BY DEF AreNames
  <1>2. /\ Found(names) \in Seq(DOMAIN mod.fns) /\ Distinct(Found(names))
        /\ \A f \in Range(Found(names)) : mod.fns[f].name \in Range(names)
    BY <1>1, FoundProperties
  <1>3. IsSequence(Found(names)) /\ Range(Found(names)) \subseteq DOMAIN mod.fns
    <2> DEFINE found == Found(names)
    <2>1. found \in Seq(DOMAIN mod.fns)
      BY <1>2
    <2> HIDE DEF found
    <2>2. IsSequence(found)
      BY <2>1, SequencesOf
    <2>4. Range(found) \subseteq DOMAIN mod.fns
      BY <2>1, ElementOfSeq DEF Range
    <2>3. QED BY <2>2, <2>4 DEF found
  <1>4. ASSUME NEW f \in Range(Found(names)) PROVE MayBePlanned(mod, f)
    <2>1. f \in DOMAIN mod.fns /\ mod.fns[f].name \in Range(names)
      BY <1>2, <1>3
    <2>2. ASSUME IsDeclaration(mod.fns[f]) PROVE IsLeftover(mod, f)
      <3>1. \/ /\ f \in DOMAIN job.mod.fns /\ IsDeclaration(job.mod.fns[f])
               /\ mod.fns[f].name = job.mod.fns[f].name
            \/ IsLeftover(mod, f)
        BY <2>1, <2>2 DEF SpeculationInv, IsSound
      <3>2. f \in DOMAIN job.mod.fns /\ job.mod.fns[f].name \in Range(names)
              => ~ IsDeclaration(job.mod.fns[f])
        BY DEF AreNames
      <3>3. QED BY <2>1, <3>1, <3>2
    <2>3. QED BY <2>1, <2>2 DEF MayBePlanned
  <1>5. QED BY <1>2, <1>3, <1>4

LEMMA SpeculationAfterPlanManually == WorkInv /\ SpeculationInv /\ PlanManually => SpeculationInv'
  <1> SUFFICES ASSUME WorkInv, SpeculationInv, PlanManually PROVE SpeculationInv'
    OBVIOUS
  <1> DEFINE parts == Found(job.names)
  <1>1. Pass = "manual" /\ UNCHANGED <<job, front>> /\ ~ IsPairwise /\ job \in Jobs
    BY DEF PlanManually, IsPairwise, PairwisePasses, Pass, WorkInv, JobInv
  <1>2. PICK o \in PlanMerge(mod, parts) :
          \/ /\ mod' = o.mod
             /\ plans = {} \/ o.plan = NoPlan
             /\ plans' = IF o.plan = NoPlan THEN plans ELSE {o.plan}
          \/ \E worse \in plans \cup {o.plan} :
               /\ plans # {} /\ o.plan # NoPlan
               /\ mod' = DiscardPlan(o.mod, worse)
               /\ plans' = (plans \cup {o.plan}) \ {worse}
    BY DEF PlanManually
  <1> HIDE DEF parts
  <1>3. \A i \in DOMAIN job.names : /\ ~ IsPrefix(ThunkPrefix, job.names[i])
                                    /\ ~ IsPrefix(MergePrefix, job.names[i])
    BY <1>1, MergingPassesAssumption DEF IsJob
  <1>4. /\ IsSequence(parts) /\ Distinct(parts)
        /\ \A f \in Range(parts) : MayBePlanned(mod, f) /\ mod.fns[f].name \in Range(job.names)
    <2>1. AreNames(job.mod, job.names)
      BY <1>1, MergingPassesAssumption DEF IsJob
    <2>2. Distinct(job.names)
      BY <2>1 DEF AreNames, Distinct
    <2>3. QED BY <1>1, <2>1, <2>2, FoundMayBePlanned DEF parts
  <1>5. ASSUME NEW p \in plans PROVE Created(p) \cap Range(parts) = {}
    <2>1. \A f \in Created(p) : IsMerged(mod, f) \/ IsThunk(mod, f)
      BY <1>1 DEF SpeculationInv, IsSound, ArePlansIn, IsPlanIn, Created
    <2>2. \A f \in Range(parts) : ~ IsMerged(mod, f) /\ ~ IsThunk(mod, f)
      BY <1>3, <1>4 DEF Range, IsMerged, IsThunk
    <2>3. QED BY <2>1, <2>2
  <1>6. IsSound(job.mod, o.mod, WithPlan(plans, o))
    BY <1>1, <1>4, <1>5, PlanOutcome DEF ArePlannable
  <1>7. IsSound(job.mod, mod', plans') /\ \A p, q \in plans' : p = q
    <2>1. \A p, q \in plans : p = q
      BY <1>1 DEF SpeculationInv, ManualInv
    <2>2. CASE /\ mod' = o.mod
               /\ plans = {} \/ o.plan = NoPlan
               /\ plans' = IF o.plan = NoPlan THEN plans ELSE {o.plan}
      <3>1. plans' = WithPlan(plans, o)
        BY <2>2 DEF WithPlan
      <3>2. QED BY <1>6, <2>1, <2>2, <3>1
    <2>3. CASE \E worse \in plans \cup {o.plan} :
                 /\ plans # {} /\ o.plan # NoPlan
                 /\ mod' = DiscardPlan(o.mod, worse)
                 /\ plans' = (plans \cup {o.plan}) \ {worse}
      <3>1. PICK worse \in plans \cup {o.plan} :
                 /\ plans # {} /\ o.plan # NoPlan
                 /\ mod' = DiscardPlan(o.mod, worse)
                 /\ plans' = (plans \cup {o.plan}) \ {worse}
        BY <2>3
      <3>2. WithPlan(plans, o) = plans \cup {o.plan}
        BY <3>1 DEF WithPlan
      <3>3. IsSound(job.mod, mod', plans')
        BY <1>6, <3>1, <3>2, SoundAfterDiscard
      <3>4. QED BY <2>1, <3>1, <3>3
    <2>4. QED BY <1>2, <2>2, <2>3
  <1>8. Pass' = "manual" /\ ~ IsPairwise'
    BY <1>1 DEF Pass, IsPairwise
  <1>9. QED BY <1>1, <1>7, <1>8 DEF SpeculationInv, ExploreInv, ManualInv, ReplayInv

LEMMA SpeculationAfterApplyManually == WorkInv /\ SpeculationInv /\ ApplyManually => SpeculationInv'
  <1> SUFFICES ASSUME WorkInv, SpeculationInv, ApplyManually PROVE SpeculationInv'
    OBVIOUS
  <1>1. Pass = "manual" /\ UNCHANGED job /\ ~ IsPairwise /\ plans' = {}
    BY DEF ApplyManually, IsPairwise, PairwisePasses, Pass
  <1>2. PICK p \in plans : mod' = ApplyMerge(mod, p)
    BY DEF ApplyManually
  <1>3. plans \ {p} = {} /\ IsSound(job.mod, mod, plans)
    BY <1>1 DEF SpeculationInv, ManualInv
  <1>4. IsSound(job.mod, mod', plans')
    BY <1>1, <1>2, <1>3, SoundAfterApply
  <1>5. Pass' = "manual" /\ ~ IsPairwise'
    BY <1>1 DEF Pass, IsPairwise
  <1>6. QED BY <1>1, <1>4, <1>5 DEF SpeculationInv, ExploreInv, ManualInv, ReplayInv


LEMMA SpeculationAfterReplayRemark ==
  WorkInv /\ RemarksInv /\ SpeculationInv /\ ReplayRemark => SpeculationInv'
  <1> SUFFICES ASSUME WorkInv, RemarksInv, SpeculationInv, ReplayRemark PROVE SpeculationInv'
    OBVIOUS
  <1>1. Pass = "replay" /\ UNCHANGED <<job, mod, plans>> /\ ~ IsPairwise /\ job \in Jobs
    BY DEF ReplayRemark, IsPairwise, PairwisePasses, Pass, WorkInv, JobInv
  <1> DEFINE names == Head(remarks).names
             found == Found(names)
  <1>2. /\ front' = <<>> \/ front' = Reverse(found)
        /\ Head(remarks) \in Range(job.remarks) /\ Distinct(front')
    BY <1>1, SourcesOfRemark
  <1>3. found \in Seq(DOMAIN mod.fns) /\ \A f \in Range(found) : MayBePlanned(mod, f)
    <2>1. Distinct(names) /\ AreNames(job.mod, names)
      BY <1>1, <1>2, RemarkNames
    <2> HIDE DEF names
    <2>2. QED BY <1>1, <2>1, FoundMayBePlanned
  <1> HIDE DEF found
  <1>4. \A f \in Range(front') : f \in Range(found)
    <2>1. Range(Reverse(found)) = Range(found)
      BY <1>3, ReverseProperties
    <2>2. Range(<<>>) = {}
      BY DEF Range
    <2>3. QED BY <1>2, <2>1, <2>2
  <1>5. plans' = {} /\ \A f \in Range(front') : MayBePlanned(mod', f)
    <2>1. plans = {} /\ mod' = mod
      BY <1>1 DEF SpeculationInv, ReplayInv
    <2>2. QED BY <1>1, <1>3, <1>4, <2>1
  <1>6. Pass' = "replay" /\ ~ IsPairwise'
    BY <1>1 DEF Pass, IsPairwise
  <1>7. IsSound(job.mod, mod, plans)' 
    BY <1>1 DEF SpeculationInv
  <1>8. QED BY <1>2, <1>5, <1>6, <1>7 DEF SpeculationInv, ExploreInv, ManualInv, ReplayInv

(* A function that may be planned still may when others were added, or      *)
(* merged.                                                                 *)
LEMMA MayStillBePlanned ==
  ASSUME NEW m, WellFormed(m), NEW f, MayBePlanned(m, f)
  PROVE  /\ \A n : Extends(n, m) => MayBePlanned(n, f)
         /\ \A p : IsPlanIn(m, p) /\ f \notin Parts(p) => MayBePlanned(ApplyMerge(m, p), f)
  <1>1. ASSUME NEW n, Extends(n, m) PROVE MayBePlanned(n, f)
    <2>1. f \in DOMAIN m.fns /\ f \in DOMAIN n.fns /\ n.fns[f] = m.fns[f]
      BY <1>1 DEF Extends, MayBePlanned
    <2>2. IsDeclaration(m.fns[f]) => IsLeftover(n, f)
      BY <1>1, <2>1, LeftoverStays DEF MayBePlanned
    <2>3. QED BY <2>1, <2>2 DEF MayBePlanned
  <1>2. ASSUME NEW p, IsPlanIn(m, p), f \notin Parts(p) PROVE MayBePlanned(ApplyMerge(m, p), f)
    <2> DEFINE n == ApplyMerge(m, p)
    <2>1. MergeApplied(n, m, p)
      BY <1>2, AppliedMerges
    <2> HIDE DEF n
    <2>2. f \in DOMAIN n.fns /\ IsAlike(n.fns[f], m.fns[f])
      BY <1>2, <2>1 DEF MergeApplied, MayBePlanned
    <2>3. IsLeftover(m, f) => IsLeftover(n, f)
      BY <1>2, <2>2, LeftoverAfterApply DEF n
    <2>4. MayBePlanned(n, f)
      BY <2>2, <2>3 DEF MayBePlanned, IsAlike
    <2>5. QED BY <2>4 DEF n
  <1>3. QED BY <1>1, <1>2

LEMMA SourcesAreApart ==
  ASSUME NEW S, front \in Seq(S), Len(front) >= 2, Distinct(front)
  PROVE  /\ LeftSources \in Seq(S) /\ Distinct(LeftSources)
                /\ Range(LeftSources) \subseteq Range(front)
         /\ TakenSources \in Seq(S) /\ Distinct(TakenSources)
                /\ Range(TakenSources) \subseteq Range(front)
         /\ Range(LeftSources) \cap Range(TakenSources) = {}
  <1>1. /\ Count \in 2 .. Len(front) /\ Len(front) \in Nat /\ DOMAIN front = 1 .. Len(front)
        /\ LeftSources \in Seq(S) /\ DOMAIN LeftSources = 1 .. Len(front) - Count
        /\ \A i \in 1 .. Len(front) - Count : LeftSources[i] = front[i]
        /\ TakenSources \in Seq(S) /\ DOMAIN TakenSources = 1 .. Count
        /\ \A i \in 1 .. Count : TakenSources[i] = front[Len(front) - i + 1]
    BY SourcesAreSplit, LenProperties
  <1>2. \A i \in DOMAIN LeftSources : i \in DOMAIN front /\ LeftSources[i] = front[i]
    BY <1>1
  <1>3. \A i \in DOMAIN TakenSources : /\ Len(front) - i + 1 \in DOMAIN front
                                       /\ Len(front) - i + 1 > Len(front) - Count
                                       /\ TakenSources[i] = front[Len(front) - i + 1]
    BY <1>1
  <1>4. Distinct(LeftSources) /\ Range(LeftSources) \subseteq Range(front)
    BY <1>2 DEF Distinct, Range
  <1>5. Distinct(TakenSources)
    <2>1. ASSUME NEW i \in DOMAIN TakenSources, NEW j \in DOMAIN TakenSources,
                 TakenSources[i] = TakenSources[j]
          PROVE  i = j
      <3>1. Len(front) - i + 1 = Len(front) - j + 1
        BY <1>3, <2>1 DEF Distinct
      <3>2. QED BY <1>1, <3>1
    <2>2. QED BY <2>1 DEF Distinct
  <1>6. Range(TakenSources) \subseteq Range(front)
    BY <1>3 DEF Range
  <1>7. ASSUME NEW i \in DOMAIN LeftSources, NEW j \in DOMAIN TakenSources
        PROVE  LeftSources[i] # TakenSources[j]
    <2>1. i # Len(front) - j + 1
      BY <1>1, <1>3
    <2>2. QED BY <1>2, <1>3, <2>1 DEF Distinct
  <1>8. Range(LeftSources) \cap Range(TakenSources) = {}
    BY <1>7 DEF Range
  <1>9. QED BY <1>1, <1>4, <1>5, <1>6, <1>8

LEMMA SpeculationAfterReplayMerge == WorkInv /\ SpeculationInv /\ ReplayMerge => SpeculationInv'
  <1> SUFFICES ASSUME WorkInv, SpeculationInv, ReplayMerge PROVE SpeculationInv'
    OBVIOUS
  <1>1. Pass = "replay" /\ UNCHANGED <<job, plans>> /\ ~ IsPairwise /\ job \in Jobs
    BY DEF ReplayMerge, IsPairwise, PairwisePasses, Pass, WorkInv, JobInv
  <1>2. PICK o \in PlanMerge(mod, TakenSources) :
          IF o.plan = NoPlan
          THEN mod' = o.mod /\ front' = LeftSources
          ELSE mod' = ApplyMerge(o.mod, o.plan) /\ front' = Append(LeftSources, o.plan.merged)
    BY DEF ReplayMerge, Count, LeftSources, TakenSources
  <1>3. plans = {} /\ Distinct(front) /\ \A f \in Range(front) : MayBePlanned(mod, f)
    BY <1>1 DEF SpeculationInv, ReplayInv
  <1>4. front \in Seq(Ids(mod)) /\ Len(front) >= 2
    BY DEF WorkInv, IdsInv, ReplayMerge
  <1>5. /\ LeftSources \in Seq(Ids(mod)) /\ Distinct(LeftSources)
        /\ Range(LeftSources) \subseteq Range(front)
        /\ TakenSources \in Seq(Ids(mod)) /\ Distinct(TakenSources)
        /\ Range(TakenSources) \subseteq Range(front)
        /\ Range(LeftSources) \cap Range(TakenSources) = {}
    BY <1>3, <1>4, SourcesAreApart
  <1>6. ArePlannable(mod, TakenSources)
    <2>1. IsSequence(TakenSources)
      BY <1>5, SequencesOf
    <2>2. QED BY <1>3, <1>5, <2>1 DEF ArePlannable
  <1>7. /\ IsSound(job.mod, o.mod, WithPlan({}, o))
        /\ WellFormed(mod) /\ Extends(o.mod, mod)
        /\ o.plan # NoPlan => o.plan.parts = TakenSources /\ IsNewPlan(o.mod, o.plan, mod)
    BY <1>1, <1>3, <1>6, PlanOutcome
  <1>8. \A f \in Range(LeftSources) : MayBePlanned(o.mod, f)
    BY <1>3, <1>5, <1>7, MayStillBePlanned
  <1>9. IsSound(job.mod, mod', {}) /\ Distinct(front')
            /\ \A f \in Range(front') : MayBePlanned(mod', f)
    <2>1. CASE o.plan = NoPlan
      BY <1>2, <1>5, <1>7, <1>8, <2>1 DEF WithPlan
    <2>2. CASE o.plan # NoPlan
      <3> DEFINE p == o.plan
      <3>1. /\ mod' = ApplyMerge(o.mod, p) /\ front' = Append(LeftSources, p.merged)
            /\ WithPlan({}, o) = {p} /\ Parts(p) = Range(TakenSources) /\ IsNewPlan(o.mod, p, mod)
        BY <1>2, <1>7, <2>2 DEF WithPlan, Parts
      <3> HIDE DEF p
      <3>2. IsSound(job.mod, mod', {})
        <4>1. IsSound(job.mod, ApplyMerge(o.mod, p), {p} \ {p})
          BY <1>7, <3>1, SoundAfterApply
        <4>2. QED BY <3>1, <4>1
      <3>3. WellFormed(o.mod) /\ IsPlanIn(o.mod, p)
        BY <1>7, <3>1 DEF IsNewPlan, IsSound
      <3>4. \A f \in Range(LeftSources) : MayBePlanned(mod', f)
        BY <1>5, <1>8, <3>1, <3>3, MayStillBePlanned
      <3>5. MayBePlanned(mod', p.merged)
        <4>1. p.merged \in DOMAIN o.mod.fns /\ p.merged \notin Parts(p)
          BY <1>7, <3>1, <3>3 DEF IsSound, ArePlansIn, IsPlanIn, Created
        <4>2. MayBePlanned(o.mod, p.merged)
          BY <3>1, <4>1 DEF IsNewPlan, MayBePlanned
        <4>3. QED BY <3>1, <3>3, <4>1, <4>2, MayStillBePlanned
      <3>6. p.merged \notin Range(LeftSources)
        <4>1. p.merged \in mod.next .. o.mod.next - 1
          BY <3>1 DEF IsNewPlan, Created
        <4>2. \A f \in Range(LeftSources) : f < mod.next /\ f \in Nat
          <5>1. \A f \in Range(LeftSources) : f \in Ids(mod)
            BY <1>5, ElementOfSeq DEF Range
          <5>2. QED BY <1>7, <5>1, WellFormedIsShaped
        <4>3. mod.next \in Nat /\ o.mod.next \in Nat
          BY <1>7, <3>3, WellFormedIsShaped
        <4>4. QED BY <4>1, <4>2, <4>3
      <3>7. /\ DOMAIN front' = 1 .. Len(LeftSources) + 1
                   /\ DOMAIN LeftSources = 1 .. Len(LeftSources)
            /\ Len(LeftSources) \in Nat
            /\ front'[Len(LeftSources) + 1] = p.merged
            /\ \A i \in 1 .. Len(LeftSources) : front'[i] = LeftSources[i]
        <4>1. LeftSources \in Seq(Range(LeftSources) \cup {p.merged})
          <5>1. IsSequence(LeftSources)
            BY <1>5, SequencesOf
          <5>2. QED BY <5>1, SeqMonotonic DEF IsSequence
        <4>2. QED BY <3>1, <4>1, AppendProperties, LenProperties
      <3>8. Distinct(front') /\ \A f \in Range(front') : f \in Range(LeftSources) \/ f = p.merged
        <4>1. \A i \in DOMAIN front' : i \in DOMAIN LeftSources \/ i = Len(LeftSources) + 1
          BY <3>7
        <4>2. \A f \in Range(front') : f \in Range(LeftSources) \/ f = p.merged
          BY <3>7, <4>1 DEF Range
        <4>3. ASSUME NEW i \in DOMAIN front', NEW j \in DOMAIN front', front'[i] = front'[j]
              PROVE  i = j
          <5>1. \A k \in DOMAIN LeftSources : front'[k] = LeftSources[k] /\ front'[k] # p.merged
            BY <3>6, <3>7 DEF Range
          <5>2. QED BY <1>5, <3>7, <4>1, <4>3, <5>1 DEF Distinct
        <4>4. QED BY <4>2, <4>3 DEF Distinct
      <3>9. QED BY <3>2, <3>4, <3>5, <3>8
    <2>3. QED BY <2>1, <2>2
  <1>10. Pass' = "replay" /\ ~ IsPairwise' /\ plans' = {} /\ job' = job
    BY <1>1, <1>3 DEF Pass, IsPairwise
  <1>11. QED BY <1>9, <1>10 DEF SpeculationInv, ExploreInv, ManualInv, ReplayInv


LEMMA SpeculationNext ==
  WorkInv /\ RemarksInv /\ SpeculationInv /\ [Next]_vars => SpeculationInv'
  <1> SUFFICES ASSUME WorkInv, RemarksInv, SpeculationInv, [Next]_vars PROVE SpeculationInv'
    OBVIOUS
  <1>1. CASE UNCHANGED <<job, mod, plans, candidates, front>>
    BY <1>1 DEF SpeculationInv, ExploreInv, ManualInv, ReplayInv, IsPairwise, Pass
  <1>2. CASE NextCandidate \/ OnlyCandidate \/ RejectPair \/ AcceptPair
    <2>1. IsPairwise /\ job' = job /\ plans' = plans
      BY <1>2 DEF NextCandidate, OnlyCandidate, RejectPair, AcceptPair, IsPairwise, PairwisePasses
    <2>2. IsPairwise' /\ Pass' = Pass /\ plans' = {}
      BY <2>1 DEF SpeculationInv, IsPairwise, Pass
    <2>3. Pass \notin {"explore", "manual", "replay"}
      BY <2>1 DEF IsPairwise, PairwisePasses
    <2>4. QED BY <2>2, <2>3 DEF SpeculationInv, ExploreInv, ManualInv, ReplayInv
  <1>3. CASE SkipRemark \/ StopReplay \/ Return \/ UNCHANGED vars
    BY <1>1, <1>3 DEF SkipRemark, StopReplay, Return, vars
  <1>4. QED BY <1>2, <1>3, SpeculationAfterPlan, SpeculationAfterDiscard, SpeculationAfterApply,
               SpeculationAfterPlanManually, SpeculationAfterApplyManually,
               SpeculationAfterReplayRemark, SpeculationAfterReplayMerge DEF Next

LEMMA SpeculationIsKept == Spec => []SpeculationInv
  BY SpeculationInit, SpeculationNext, WorkIsKept, PTL DEF Spec

(* When a plan is applied, calls are the only uses of the functions it     *)
(* erases (applyCallReplacements), though plans were made and applied, and *)
(* functions redirected to thunks, since canReplaceCalls looked.           *)
THEOREM ErasedFunctionsAreOnlyCalled == Spec => []OnlyCallsAreReplaced
  <1>1. SpeculationInv => OnlyCallsAreReplaced
    <2> SUFFICES ASSUME SpeculationInv, NEW p \in plans, NEW f \in ReplacedParts(p)
                 PROVE  ~ HasAddressTaken(mod, f)
      BY DEF OnlyCallsAreReplaced
    <2>1. IsPlanIn(mod, p)
      BY DEF SpeculationInv, IsSound, ArePlansIn
    <2>2. f \notin Taken(mod)
      BY <2>1 DEF IsPlanIn
    <2>3. QED BY <2>2, UsesOfModule
  <1>2. QED BY <1>1, SpeculationIsKept, PTL

-----------------------------------------------------------------------------
(***************************************************************************)
(* Merging pairs.                                                          *)
(***************************************************************************)
(* What the steps of updating the call graph may do to functions F, whose  *)
(* calls become calls of t.                                                *)
IsUpdated(n, k, F, t, pass) ==
  /\ WellFormed(n) /\ n.next = k.next
  /\ DOMAIN n.fns \subseteq DOMAIN k.fns /\ DOMAIN k.fns \ F \subseteq DOMAIN n.fns
  /\ \A g \in DOMAIN n.fns : /\ n.fns[g].name = k.fns[g].name /\ n.fns[g].sig = k.fns[g].sig
                             /\ IsDeclaration(n.fns[g]) => IsDeclaration(k.fns[g])
                             /\ g \notin F => IsLike(n.fns[g], k.fns[g])
                             /\ pass = "func-merging" => n.fns[g].linkage = k.fns[g].linkage
  /\ \A g \in DOMAIN k.fns :
       k.fns[g].linkage = "external" => g \in DOMAIN n.fns /\ n.fns[g].linkage = "external"
  /\ \A x \in Called(n) : x \in Called(k) \/ x = t
  /\ Taken(n) \subseteq Taken(k)

LEMMA UpdatesCompose ==
  ASSUME NEW n, NEW k, NEW m, NEW F, NEW G, NEW H, NEW t, NEW pass,
         IsUpdated(n, k, F, t, pass), IsUpdated(k, m, G, t, pass), F \subseteq H, G \subseteq H
  PROVE  IsUpdated(n, m, H, t, pass)
  <1>1. /\ WellFormed(n) /\ n.next = m.next
        /\ DOMAIN n.fns \subseteq DOMAIN m.fns /\ DOMAIN m.fns \ H \subseteq DOMAIN n.fns
    BY DEF IsUpdated
  <1>2. ASSUME NEW g \in DOMAIN n.fns
        PROVE  /\ n.fns[g].name = m.fns[g].name /\ n.fns[g].sig = m.fns[g].sig
               /\ IsDeclaration(n.fns[g]) => IsDeclaration(m.fns[g])
               /\ g \notin H => IsLike(n.fns[g], m.fns[g])
               /\ pass = "func-merging" => n.fns[g].linkage = m.fns[g].linkage
    <2>1. g \in DOMAIN k.fns
      BY DEF IsUpdated
    <2>2. /\ n.fns[g].name = k.fns[g].name /\ n.fns[g].sig = k.fns[g].sig
          /\ IsDeclaration(n.fns[g]) => IsDeclaration(k.fns[g])
          /\ g \notin F => IsLike(n.fns[g], k.fns[g])
          /\ pass = "func-merging" => n.fns[g].linkage = k.fns[g].linkage
      BY DEF IsUpdated
    <2>3. /\ k.fns[g].name = m.fns[g].name /\ k.fns[g].sig = m.fns[g].sig
          /\ IsDeclaration(k.fns[g]) => IsDeclaration(m.fns[g])
          /\ g \notin G => IsLike(k.fns[g], m.fns[g])
          /\ pass = "func-merging" => k.fns[g].linkage = m.fns[g].linkage
      BY <2>1 DEF IsUpdated
    <2>4. QED BY <2>2, <2>3 DEF IsLike, IsAlike
  <1>3. \A x \in Called(n) : x \in Called(m) \/ x = t
    BY DEF IsUpdated
  <1>4. Taken(n) \subseteq Taken(m)
    BY DEF IsUpdated
  <1>5. \A g \in DOMAIN m.fns :
          m.fns[g].linkage = "external" => g \in DOMAIN n.fns /\ n.fns[g].linkage = "external"
    BY DEF IsUpdated
  <1>6. QED BY <1>1, <1>2, <1>3, <1>4, <1>5 DEF IsUpdated

LEMMA NothingIsUpdated ==
  ASSUME NEW k, WellFormed(k), NEW F, NEW t, NEW pass
  PROVE  IsUpdated(k, k, F, t, pass)
  BY DEF IsUpdated, IsLike, IsAlike

LEMMA BodyIsReplaced ==
  ASSUME NEW k, WellFormed(k), NEW f \in DOMAIN k.fns, NEW t \in Ids(k), NEW pass, NEW id, NEW row
  PROVE  IsUpdated(ReplaceByCall(pass, k, f, t, id, row), k, {f}, t, pass)
  <1> DEFINE n == ReplaceByCall(pass, k, f, t, id, row)
             body == {Forward(t, k.fns[t].sig, id, row)}
             linkage == IF pass = "func-merging" THEN k.fns[f].linkage ELSE "external"
  <1>1. /\ DOMAIN n = {"fns", "globals", "next"} /\ n.next = k.next /\ n.globals = k.globals
        /\ DOMAIN n.fns = DOMAIN k.fns
        /\ \A g \in DOMAIN k.fns \ {f} : n.fns[g] = k.fns[g]
        /\ n.fns[f] = [[k.fns[f] EXCEPT !.body = body] EXCEPT !.linkage = linkage]
    <2>1. DOMAIN k = {"fns", "globals", "next"}
      BY DEF WellFormed
    <2>2. IsFunction(k.fns[f])
      BY DEF WellFormed
    <2> HIDE DEF body
    <2>3. QED BY <2>1, <2>2 DEF ReplaceByCall, body, IsFunction
  <1>2. IsFunction(k.fns[f])
    BY DEF WellFormed
  <1>3. /\ \A p \in body : IsPath(p)
        /\ Calls(body) = {t} /\ Takes(body) = {} /\ body # {}
    <2>1. OnlyForwards(body, t)
      BY Forwarding, Zenon
    <2> HIDE DEF body
    <2>2. QED BY <2>1 DEF OnlyForwards
  <1> HIDE DEF n, body, linkage
  <1>4. /\ DOMAIN n.fns[f] = {"name", "linkage", "sig", "ret", "pers", "body"}
        /\ n.fns[f].name = k.fns[f].name /\ n.fns[f].sig = k.fns[f].sig /\ n.fns[f].body = body
        /\ n.fns[f].linkage = linkage
    BY <1>1, <1>2 DEF IsFunction
  <1>5. IsFunction(n.fns[f]) /\ ~ IsDeclaration(n.fns[f])
    BY <1>2, <1>3, <1>4 DEF IsFunction, IsDeclaration
  <1>6. ASSUME NEW x \in Called(n) PROVE x \in Called(k) \/ x = t
    <2>1. PICK g \in DOMAIN n.fns : x \in Calls(n.fns[g].body)
      BY UsesAre
    <2>2. CASE g = f
      BY <1>3, <1>4, <2>1, <2>2
    <2>3. CASE g # f
      BY <1>1, <2>1, <2>3, UsesAre
    <2>4. QED BY <2>2, <2>3
  <1>7. ASSUME NEW x \in Taken(n) PROVE x \in Taken(k)
    <2>1. CASE \E r \in n.globals : x = r.is
      BY <1>1, <2>1, UsesAre
    <2>2. CASE \E g \in DOMAIN n.fns : x \in Takes(n.fns[g].body)
      <3>1. PICK g \in DOMAIN n.fns : x \in Takes(n.fns[g].body)
        BY <2>2
      <3>2. g # f
        BY <1>3, <1>4, <3>1
      <3>3. QED BY <1>1, <3>1, <3>2, UsesAre
    <2>3. QED BY <1>7, <2>1, <2>2, UsesAre
  <1>8. WellFormed(n)
    <2>1. /\ k.next \in Nat \ {0} /\ DOMAIN k.fns \subseteq 1 .. k.next - 1
          /\ Used(k) \subseteq 1 .. k.next - 1 /\ t \in 1 .. k.next - 1
      BY DEF WellFormed, Ids
    <2>2. Used(n) \subseteq 1 .. n.next - 1
      BY <1>1, <1>6, <1>7, <2>1, UsesOfModule
    <2>3. \A g \in DOMAIN n.fns : IsFunction(n.fns[g])
      BY <1>1, <1>5 DEF WellFormed
    <2>4. \A r \in n.globals : IsRef(r)
      BY <1>1 DEF WellFormed
    <2>5. QED BY <1>1, <2>1, <2>2, <2>3, <2>4 DEF WellFormed
  <1>9. \A g \in DOMAIN n.fns : /\ n.fns[g].name = k.fns[g].name /\ n.fns[g].sig = k.fns[g].sig
                                /\ IsDeclaration(n.fns[g]) => IsDeclaration(k.fns[g])
                                /\ g \notin {f} => IsLike(n.fns[g], k.fns[g])
                                /\ pass = "func-merging" => n.fns[g].linkage = k.fns[g].linkage
    BY <1>1, <1>4, <1>5 DEF IsLike, IsAlike, linkage
  <1>10. \A g \in DOMAIN k.fns :
           k.fns[g].linkage = "external" => g \in DOMAIN n.fns /\ n.fns[g].linkage = "external"
    BY <1>1, <1>4 DEF linkage
  <1>11. IsUpdated(n, k, {f}, t, pass)
    BY <1>1, <1>6, <1>7, <1>8, <1>9, <1>10 DEF IsUpdated
  <1>12. QED BY <1>11 DEF n

LEMMA CallsAreReplaced ==
  ASSUME NEW k, WellFormed(k), NEW f, NEW t \in Ids(k), NEW id, NEW row, NEW pass
  PROVE  IsUpdated(ReplaceCallsWith(k, f, t, id, row), k, {f}, t, pass)
  <1> DEFINE new(s) == CallMerged(s, t, k.fns[t].sig, id, row)
             site == [s \in Sites(k) |-> IF s.callee = f THEN new(s) ELSE s]
             ref == [r \in Refs(k) |-> r]
             n == MapUses(k, site, ref)
  <1>1. ReplaceCallsWith(k, f, t, id, row) = IF HasAddressTaken(k, f) THEN k ELSE n
    BY DEF ReplaceCallsWith
  <1>2. \A s \in Sites(k) : IsSite(s) /\ s.callee \in Called(k) /\ s.callee \in Ids(k)
    BY SitesAndRefs
  <1>3. \A r \in Refs(k) : IsRef(r) /\ r.is \in Taken(k) /\ r.is \in Ids(k)
    BY SitesAndRefs
  <1>4. ASSUME NEW s \in Sites(k)
        PROVE  IsSite(site[s]) /\ site[s].callee = IF s.callee = f THEN t ELSE s.callee
    <2>1. IsSite(new(s)) /\ new(s).callee = t
      BY <1>2 DEF IsSite, CallMerged
    <2> HIDE DEF new
    <2>2. site[s] = IF s.callee = f THEN new(s) ELSE s
      OBVIOUS
    <2>3. QED BY <1>2, <2>1, <2>2
  <1>5. \A r \in Refs(k) : ref[r] = r
    OBVIOUS
  <1> HIDE DEF site, ref, n
  <1>6. IsRewritten(n, k, site, ref)
    <2>1. /\ \A s \in Sites(k) : IsSite(site[s])
          /\ \A r \in Refs(k) : IsRef(ref[r])
          /\ \A s \in Sites(k) : site[s].callee \in 1 .. k.next - 1
          /\ \A r \in Refs(k) : ref[r].is \in 1 .. k.next - 1
      BY <1>2, <1>3, <1>4, <1>5 DEF Ids
    <2>2. IsRewritten(MapUses(k, site, ref), k, site, ref)
      BY <2>1, MapUsesProperties, Zenon
    <2>3. QED BY <2>2 DEF n
  <1>7. IsUpdated(n, k, {f}, t, pass)
    <2>1. \A x \in Called(n) : x \in Called(k) \/ x = t
      <3>1. Called(n) = {site[s].callee : s \in Sites(k)}
        BY <1>6 DEF IsRewritten
      <3>2. QED BY <1>2, <1>4, <3>1
    <2>2. Taken(n) \subseteq Taken(k)
      <3>1. Taken(n) = {ref[r].is : r \in Refs(k)}
        BY <1>6 DEF IsRewritten
      <3>2. QED BY <1>3, <1>5, <3>1
    <2>3. \A g \in DOMAIN k.fns : IsLike(n.fns[g], k.fns[g])
      BY <1>6 DEF IsRewritten
    <2>4. QED BY <1>6, <2>1, <2>2, <2>3 DEF IsUpdated, IsRewritten, IsLike, IsAlike
  <1>8. QED BY <1>1, <1>7, NothingIsUpdated


LEMMA ErasedIfUnused ==
  ASSUME NEW k, WellFormed(k), NEW f, NEW t, NEW L, "external" \notin L, NEW pass
  PROVE  IsUpdated(EraseIfUnused(k, f, L), k, {f}, t, pass)
  <1> DEFINE n == Erase(k, {f})
  <1>1. \/ EraseIfUnused(k, f, L) = n /\ k.fns[f].linkage \in L
        \/ EraseIfUnused(k, f, L) = k
    BY DEF EraseIfUnused
  <1>2. IsWithout(n, k, {f})
    BY EraseProperties, Zenon
  <1> HIDE DEF n
  <1>3. ASSUME k.fns[f].linkage \in L PROVE IsUpdated(n, k, {f}, t, pass)
    <2>1. \A g \in DOMAIN n.fns : n.fns[g] = k.fns[g]
      BY <1>2 DEF IsWithout
    <2>2. \A g \in DOMAIN n.fns : IsLike(n.fns[g], k.fns[g])
      BY <2>1 DEF IsLike, IsAlike
    <2>3. \A g \in DOMAIN k.fns : k.fns[g].linkage = "external" => g \in DOMAIN n.fns
      BY <1>2, <1>3 DEF IsWithout
    <2>4. QED BY <1>2, <2>1, <2>2, <2>3 DEF IsUpdated, IsWithout
  <1>4. QED BY <1>1, <1>3, NothingIsUpdated

LEMMA UpdatedIsWellFormed ==
  ASSUME NEW n, NEW k, NEW F, NEW t \in Ids(k), NEW pass, IsUpdated(n, k, F, t, pass)
  PROVE  WellFormed(n) /\ t \in Ids(n) /\ \A f \in DOMAIN k.fns : f \notin F => f \in DOMAIN n.fns
  BY DEF IsUpdated, Ids

(* updateCallGraph for one function of the pair. *)
LEMMA CallGraphOfOne ==
  ASSUME NEW k, WellFormed(k), NEW f \in DOMAIN k.fns, NEW t \in Ids(k), NEW pass, NEW id, NEW row
  PROVE  IsUpdated(UpdateCallGraphOf(pass, k, f, t, id, row), k, {f}, t, pass)
  <1> DEFINE k1 == ReplaceByCall(pass, k, f, t, id, row)
             k2 == ReplaceCallsWith(k1, f, t, id, row)
             k3 == EraseIfUnused(k2, f, {"internal", "linkonce"})
  <1>1. UpdateCallGraphOf(pass, k, f, t, id, row)
          = IF RequiresOriginalInterface(k1, f) THEN k1 ELSE k3
    BY DEF UpdateCallGraphOf
  <1>2. IsUpdated(k1, k, {f}, t, pass)
    BY BodyIsReplaced
  <1>3. IsUpdated(k2, k1, {f}, t, pass)
    <2> HIDE DEF k1
    <2>1. WellFormed(k1) /\ t \in Ids(k1)
      BY <1>2, UpdatedIsWellFormed
    <2>2. QED BY <2>1, CallsAreReplaced
  <1>4. IsUpdated(k3, k2, {f}, t, pass)
    <2> HIDE DEF k2
    <2>1. WellFormed(k2)
      BY <1>3 DEF IsUpdated
    <2>2. QED BY <2>1, ErasedIfUnused
  <1> HIDE DEF k1, k2, k3
  <1>5. IsUpdated(k2, k, {f}, t, pass)
    BY <1>2, <1>3, UpdatesCompose
  <1>6. IsUpdated(k3, k, {f}, t, pass)
    BY <1>4, <1>5, UpdatesCompose
  <1>7. QED BY <1>1, <1>2, <1>6

LEMMA CallGraphOfPair ==
  ASSUME NEW k, WellFormed(k), NEW f1 \in DOMAIN k.fns, NEW f2 \in DOMAIN k.fns, f1 # f2,
         NEW t \in Ids(k), NEW pass, NEW rows
  PROVE  IsUpdated(UpdateCallGraph(pass, k, f1, f2, t, rows), k, {f1, f2}, t, pass)
  <1>1. IsUpdated(UpdateCallGraphOfBoth(k, f1, f2, t, rows), k, {f1, f2}, t, "fmsa")
    <2> DEFINE ids == PairIds("fmsa")
               k1 == ReplaceByCall("fmsa", k, f1, t, ids[1], rows[1])
               k2 == ReplaceByCall("fmsa", k1, f2, t, ids[2], rows[2])
               k3 == ReplaceCallsWith(k2, f1, t, ids[1], rows[1])
               k4 == ReplaceCallsWith(k3, f2, t, ids[2], rows[2])
               k5 == EraseIfUnused(k4, f1, {"internal"})
               k6 == EraseIfUnused(k5, f2, {"internal"})
    <2>1. UpdateCallGraphOfBoth(k, f1, f2, t, rows) = k6
      BY DEF UpdateCallGraphOfBoth
    <2> HIDE DEF ids
    <2>2. IsUpdated(k1, k, {f1}, t, "fmsa")
      BY BodyIsReplaced
    <2>3. IsUpdated(k2, k1, {f2}, t, "fmsa")
      <3> HIDE DEF k1
      <3>1. WellFormed(k1) /\ t \in Ids(k1)
                /\ \A f \in DOMAIN k.fns : f \notin {f1} => f \in DOMAIN k1.fns
        BY <2>2, UpdatedIsWellFormed, Zenon
      <3>2. f2 \in DOMAIN k1.fns
        BY <3>1
      <3>3. QED BY <3>1, <3>2, BodyIsReplaced
    <2> HIDE DEF k1
    <2>4. IsUpdated(k2, k, {f1, f2}, t, "fmsa")
      <3> HIDE DEF k2
      <3>1. QED BY <2>2, <2>3, UpdatesCompose
    <2>5. IsUpdated(k3, k2, {f1}, t, "fmsa")
      <3> HIDE DEF k2
      <3>1. WellFormed(k2) /\ t \in Ids(k2)
        BY <2>4, UpdatedIsWellFormed
      <3>2. QED BY <3>1, CallsAreReplaced
    <2> HIDE DEF k2
    <2>6. IsUpdated(k3, k, {f1, f2}, t, "fmsa")
      <3> HIDE DEF k3
      <3>1. QED BY <2>4, <2>5, UpdatesCompose
    <2>7. IsUpdated(k4, k3, {f2}, t, "fmsa")
      <3> HIDE DEF k3
      <3>1. WellFormed(k3) /\ t \in Ids(k3)
        BY <2>6, UpdatedIsWellFormed
      <3>2. QED BY <3>1, CallsAreReplaced
    <2> HIDE DEF k3
    <2>8. IsUpdated(k4, k, {f1, f2}, t, "fmsa")
      <3> HIDE DEF k4
      <3>1. QED BY <2>6, <2>7, UpdatesCompose
    <2>9. IsUpdated(k5, k4, {f1}, t, "fmsa")
      <3> HIDE DEF k4
      <3>1. WellFormed(k4)
        BY <2>8, UpdatedIsWellFormed
      <3>2. QED BY <3>1, ErasedIfUnused
    <2> HIDE DEF k4
    <2>10. IsUpdated(k5, k, {f1, f2}, t, "fmsa")
      <3> HIDE DEF k5
      <3>1. QED BY <2>8, <2>9, UpdatesCompose
    <2>11. IsUpdated(k6, k5, {f2}, t, "fmsa")
      <3> HIDE DEF k5
      <3>1. WellFormed(k5)
        BY <2>10, UpdatedIsWellFormed
      <3>2. QED BY <3>1, ErasedIfUnused
    <2> HIDE DEF k5, k6
    <2>12. IsUpdated(k6, k, {f1, f2}, t, "fmsa")
      BY <2>10, <2>11, UpdatesCompose
    <2>13. QED BY <2>1, <2>12
  <1> DEFINE ids == PairIds(pass)
             k1 == UpdateCallGraphOf(pass, k, f1, t, ids[1], rows[1])
             k2 == UpdateCallGraphOf(pass, k1, f2, t, ids[2], rows[2])
  <1>2. UpdateCallGraph(pass, k, f1, f2, t, rows)
          = IF pass = "fmsa" THEN UpdateCallGraphOfBoth(k, f1, f2, t, rows) ELSE k2
    BY DEF UpdateCallGraph
  <1> HIDE DEF ids
  <1>3. IsUpdated(k1, k, {f1}, t, pass)
    BY CallGraphOfOne
  <1>4. IsUpdated(k2, k1, {f2}, t, pass)
    <2> HIDE DEF k1
    <2>1. WellFormed(k1) /\ t \in Ids(k1)
              /\ \A f \in DOMAIN k.fns : f \notin {f1} => f \in DOMAIN k1.fns
      BY <1>3, UpdatedIsWellFormed, Zenon
    <2>2. f2 \in DOMAIN k1.fns
      BY <2>1
    <2>3. QED BY <2>1, <2>2, CallGraphOfOne
  <1> HIDE DEF k1, k2
  <1>5. IsUpdated(k2, k, {f1, f2}, t, pass)
    BY <1>3, <1>4, UpdatesCompose
  <1>6. CASE pass = "fmsa"
    BY <1>1, <1>2, <1>6
  <1>7. QED BY <1>2, <1>5, <1>6

(* The merged function of a pair does what its functions do. *)
IsPairOf(e, f1, f2) ==
  /\ IsFunction(e)
  /\ e.name # <<>> => e.name[1] # "__mf_thunk"
  /\ DoesWhat(e.body, <<f1, f2>>)

LEMMA PairNames ==
  ASSUME NEW m, NEW pass \in {"func-merging", "fastfm", "fmsa"}, NEW f1, NEW f2,
         IsFunction(f1), IsFunction(f2)
  PROVE  LET name == UniqueName(m, PairName(pass, f1, f2)) IN
         IsSequence(name) /\ (name # <<>> => name[1] # "__mf_thunk")
  <1> DEFINE u == PairName(pass, f1, f2)
  <1>1. IsSequence(u) /\ (u # <<>> => u[1] # "__mf_thunk")
    <2>1. CASE pass = "func-merging"
      <3> DEFINE E == Range(f1.name) \cup Range(f2.name) \cup {"__fm_merge"}
                 v == <<"__fm_merge">> \o f1.name
      <3>1. u = v \o f2.name
        BY <2>1 DEF PairName
      <3>2. f1.name \in Seq(E) /\ f2.name \in Seq(E) /\ <<"__fm_merge">> \in Seq(E)
        BY DEF IsFunction, IsSequence
      <3> HIDE DEF E, u
      <3>3. v \in Seq(E) /\ Len(v) >= 1 /\ v[1] = "__fm_merge"
        BY <3>2
      <3> HIDE DEF v
      <3>4. u \in Seq(E) /\ u[1] = "__fm_merge"
        BY <3>1, <3>2, <3>3
      <3>5. QED BY <3>4, SequencesOf
    <2>2. CASE pass = "fastfm"
      <3>1. u = <<".m.f">> /\ <<".m.f">> \in Seq({".m.f"}) /\ <<".m.f">>[1] = ".m.f"
        BY <2>2 DEF PairName
      <3> HIDE DEF u
      <3>2. QED BY <3>1, SequencesOf
    <2>3. CASE pass = "fmsa"
      <3>1. u = <<>> /\ <<>> \in Seq({1})
        BY <2>3 DEF PairName
      <3> HIDE DEF u
      <3>2. QED BY <3>1, SequencesOf
    <2>4. QED BY <2>1, <2>2, <2>3
  <1> HIDE DEF u
  <1>2. /\ IsSequence(UniqueName(m, u))
        /\ UniqueName(m, u) # <<>> => UniqueName(m, u)[1] # "__mf_thunk"
    BY <1>1, UniqueNames
  <1>3. QED BY <1>2 DEF u

LEMMA MergedPairs ==
  ASSUME NEW m, NEW pass \in {"func-merging", "fastfm", "fmsa"}, NEW f1, NEW f2,
         IsFunction(f1), IsFunction(f2), NEW layout
  PROVE  /\ IsPairOf(MergedPair(pass, m, f1, f2, layout), f1, f2)
         /\ MergedPair(pass, m, f1, f2, layout).sig = layout.params
         /\ pass = "func-merging" => MergedPair(pass, m, f1, f2, layout).linkage = "internal"
  <1> DEFINE fs == <<f1, f2>>
             bodies == <<f1.body, f2.body>>
             emitted == Emit(m, fs, layout)
             name == UniqueName(m, PairName(pass, f1, f2))
             linkage == PairLinkage(pass, f1, f2)
             body == MergedBody(bodies, PairIds(pass), layout.rows)
             e == MergedPair(pass, m, f1, f2, layout)
  <1>1. e = [[[emitted EXCEPT !.name = name] EXCEPT !.linkage = linkage] EXCEPT !.body = body]
    BY DEF MergedPair
  <1>2. /\ DOMAIN emitted = {"name", "linkage", "sig", "ret", "pers", "body"}
        /\ emitted.sig = layout.params
    BY DEF Emit
  <1>3. IsSequence(name) /\ (name # <<>> => name[1] # "__mf_thunk")
    BY PairNames
  <1>4. /\ DOMAIN bodies = {1, 2} /\ DOMAIN fs = {1, 2}
        /\ \A k \in {1, 2} : bodies[k] = fs[k].body
    OBVIOUS
  <1>5. \A k \in DOMAIN bodies : \A p \in bodies[k] : IsPath(p)
    BY DEF IsFunction
  <1> HIDE DEF emitted, name, linkage, bodies, fs
  <1>6. /\ \A p \in body : IsPath(p)
        /\ \A x : x \in Calls(body) <=> \E k \in DOMAIN bodies : x \in Calls(bodies[k])
        /\ \A x : x \in Takes(body) <=> \E k \in DOMAIN bodies : x \in Takes(bodies[k])
        /\ body = {} <=> \A k \in DOMAIN bodies : bodies[k] = {}
        /\ HasCode(body) <=> \E k \in DOMAIN bodies : HasCode(bodies[k])
    BY <1>5, MergedBodies
  <1> HIDE DEF body, e
  <1>7. DoesWhat(body, fs)
    BY <1>4, <1>6 DEF DoesWhat
  <1>8. /\ DOMAIN e = {"name", "linkage", "sig", "ret", "pers", "body"}
        /\ e.name = name /\ e.body = body /\ e.sig = layout.params /\ e.linkage = linkage
    BY <1>1, <1>2
  <1>9. IsFunction(e)
    BY <1>3, <1>6, <1>8 DEF IsFunction
  <1>10. pass = "func-merging" => linkage = "internal"
    BY DEF linkage, PairLinkage
  <1>11. QED BY <1>3, <1>7, <1>8, <1>9, <1>10 DEF IsPairOf, e, fs


(* The module n is m after functions f1 and f2 were merged. *)
IsMergedPair(n, m, f1, f2, pass) ==
  /\ WellFormed(n) /\ n.next = m.next + 1
  /\ IsLive(n, m.next) /\ m.next \notin DOMAIN m.fns /\ ~ IsThunk(n, m.next)
  /\ DOMAIN n.fns \subseteq DOMAIN m.fns \cup {m.next}
  /\ \A g \in DOMAIN m.fns \ {f1, f2} : g \in DOMAIN n.fns /\ IsLike(n.fns[g], m.fns[g])
  /\ \A g \in DOMAIN m.fns \cap DOMAIN n.fns :
       /\ n.fns[g].name = m.fns[g].name /\ n.fns[g].sig = m.fns[g].sig
       /\ IsDeclaration(n.fns[g]) => IsDeclaration(m.fns[g])
       /\ pass = "func-merging" => n.fns[g].linkage = m.fns[g].linkage
  /\ \A g \in DOMAIN m.fns :
       m.fns[g].linkage = "external" => g \in DOMAIN n.fns /\ n.fns[g].linkage = "external"
  /\ pass = "func-merging" => n.fns[m.next].linkage = "internal"
  /\ \E l \in PairLayouts(m.fns[f1].sig, m.fns[f2].sig) : n.fns[m.next].sig = l.params
  /\ \A x \in Called(n) : x \in Called(m) \/ x = m.next
  /\ Taken(n) \subseteq Taken(m)

LEMMA AfterPair ==
  ASSUME NEW m, WellFormed(m), NEW f1, NEW f2, f1 # f2, IsLive(m, f1), f2 \in DOMAIN m.fns,
         NEW pass \in {"func-merging", "fastfm", "fmsa"}, NEW n \in MergePair(pass, m, f1, f2)
  PROVE  IsMergedPair(n, m, f1, f2, pass)
  <1> DEFINE F1 == m.fns[f1]
             F2 == m.fns[f2]
             t == m.next
             e(l) == MergedPair(pass, m, F1, F2, l)
  <1>1. PICK l \in PairLayouts(F1.sig, F2.sig) :
          n = UpdateCallGraph(pass, AddFunction(m, e(l)), f1, f2, t, l.rows)
    BY Zenon DEF MergePair
  <1>2. f1 \in DOMAIN m.fns /\ IsFunction(F1) /\ IsFunction(F2) /\ HasCode(F1.body)
    BY DEF IsLive, WellFormed
  <1>3. /\ IsPairOf(e(l), F1, F2) /\ e(l).sig = l.params
        /\ pass = "func-merging" => e(l).linkage = "internal"
    BY <1>2, MergedPairs
  <1> DEFINE g == e(l)
             k == AddFunction(m, g)
             fs == <<F1, F2>>
  <1>4. /\ t \in Nat \ {0} /\ t \notin DOMAIN m.fns /\ f1 # t /\ f2 # t
        /\ Called(m) \subseteq Ids(m) /\ Taken(m) \subseteq Ids(m)
    BY <1>2, WellFormedIsShaped DEF WellFormed
  <1> HIDE DEF g
  <1>5. /\ IsFunction(g) /\ (g.name # <<>> => g.name[1] # "__mf_thunk") /\ DoesWhat(g.body, fs)
        /\ g.sig = l.params
        /\ pass = "func-merging" => g.linkage = "internal"
    BY <1>3 DEF IsPairOf, g
  <1>6. DOMAIN fs = {1, 2} /\ fs[1] = F1 /\ fs[2] = F2
    OBVIOUS
  <1> HIDE DEF fs
  <1>7. /\ Calls(g.body) \subseteq Called(m) /\ Takes(g.body) \subseteq Taken(m)
        /\ HasCode(g.body)
    BY <1>2, <1>5, <1>6, UsesAre DEF DoesWhat
  <1>8. HasFunction(k, m, g)
    <2>1. Calls(g.body) \subseteq 1 .. m.next /\ Takes(g.body) \subseteq 1 .. m.next
      BY <1>4, <1>7 DEF Ids
    <2>2. QED BY <1>5, <2>1, AddFunctionProperties
  <1> HIDE DEF k
  <1>9. /\ WellFormed(k) /\ k.next = t + 1 /\ DOMAIN k.fns = DOMAIN m.fns \cup {t} /\ k.fns[t] = g
        /\ \A x \in DOMAIN m.fns : k.fns[x] = m.fns[x]
        /\ Called(k) \subseteq Called(m) /\ Taken(k) \subseteq Taken(m)
    BY <1>7, <1>8 DEF HasFunction
  <1>10. t \in Ids(k) /\ f1 \in DOMAIN k.fns /\ f2 \in DOMAIN k.fns
    BY <1>2, <1>4, <1>9 DEF Ids
  <1>11. IsUpdated(n, k, {f1, f2}, t, pass)
    <2> DEFINE rows == l.rows
    <2>1. n = UpdateCallGraph(pass, k, f1, f2, t, rows)
      BY <1>1 DEF k, g
    <2> HIDE DEF t, rows
    <2>2. QED BY <1>9, <1>10, <2>1, CallGraphOfPair
  <1>12. /\ WellFormed(n) /\ n.next = t + 1 /\ DOMAIN n.fns \subseteq DOMAIN m.fns \cup {t}
         /\ \A x \in DOMAIN m.fns \ {f1, f2} : x \in DOMAIN n.fns /\ IsLike(n.fns[x], m.fns[x])
         /\ \A x \in DOMAIN m.fns \cap DOMAIN n.fns :
              /\ n.fns[x].name = m.fns[x].name /\ n.fns[x].sig = m.fns[x].sig
              /\ IsDeclaration(n.fns[x]) => IsDeclaration(m.fns[x])
              /\ pass = "func-merging" => n.fns[x].linkage = m.fns[x].linkage
         /\ \A x \in DOMAIN m.fns :
              m.fns[x].linkage = "external" => x \in DOMAIN n.fns /\ n.fns[x].linkage = "external"
    BY <1>9, <1>11 DEF IsUpdated
  <1>13. /\ t \in DOMAIN n.fns /\ IsLike(n.fns[t], g)
    BY <1>4, <1>9, <1>11 DEF IsUpdated
  <1>14. IsLive(n, t)
    BY <1>7, <1>13 DEF IsLive, IsLike, IsAlike
  <1>15. ~ IsThunk(n, t)
    <2>1. IsFunction(n.fns[t]) /\ n.fns[t].name = g.name
      BY <1>12, <1>13 DEF WellFormed, IsLike
    <2>2. IsSequence(n.fns[t].name)
      BY <2>1 DEF IsFunction
    <2>3. IsThunk(n, t) <=> n.fns[t].name # <<>> /\ n.fns[t].name[1] = "__mf_thunk"
      BY <2>2, NamesAreDifferent
    <2>4. QED BY <1>5, <2>1, <2>3
  <1>16. (\A x \in Called(n) : x \in Called(m) \/ x = t) /\ Taken(n) \subseteq Taken(m)
    BY <1>9, <1>11 DEF IsUpdated
  <1>17. \E k0 \in PairLayouts(F1.sig, F2.sig) : n.fns[t].sig = k0.params
    BY <1>5, <1>13 DEF IsLike, IsAlike
  <1>18. pass = "func-merging" => n.fns[t].linkage = "internal"
    BY <1>5, <1>13 DEF IsLike, IsAlike
  <1>19. QED BY <1>4, <1>12, <1>14, <1>15, <1>16, <1>17, <1>18 DEF IsMergedPair

(* Merging a pair keeps a module sound, and the other functions live. *)
LEMMA SoundAfterPair ==
  ASSUME NEW orig, WellFormed(orig), NEW m, IsSound(orig, m, {}),
         NEW f1, NEW f2, f1 # f2, IsLive(m, f1), IsLive(m, f2),
         NEW pass \in {"func-merging", "fastfm", "fmsa"}, NEW n \in MergePair(pass, m, f1, f2)
  PROVE  /\ IsSound(orig, n, {})
         /\ IsLive(n, m.next)
         /\ \A g : IsLive(m, g) /\ g \notin {f1, f2} => IsLive(n, g)
  <1>1. /\ WellFormed(m) /\ m.next \in Nat /\ orig.next \in Nat /\ orig.next <= m.next
        /\ DOMAIN orig.fns \subseteq Ids(orig)
    BY WellFormedIsShaped DEF IsSound
  <1>2. IsMergedPair(n, m, f1, f2, pass)
    BY <1>1, AfterPair DEF IsLive
  <1>3. \A g : IsLive(m, g) /\ g \notin {f1, f2} => IsLive(n, g)
    BY <1>2 DEF IsMergedPair, IsLive, IsLike, IsAlike
  <1>4. IsLive(n, m.next)
    BY <1>2 DEF IsMergedPair
  <1>5. ~ IsDeclaration(n.fns[m.next]) /\ ~ IsDeclaration(m.fns[f1]) /\ ~ IsDeclaration(m.fns[f2])
    BY <1>4 DEF IsLive, HasCode, IsDeclaration
  <1>6. ASSUME NEW f \in DOMAIN n.fns PROVE ~ IsThunk(n, f)
    <2>1. CASE f = m.next
      BY <1>2, <2>1 DEF IsMergedPair
    <2>2. CASE f \in DOMAIN m.fns
      <3>1. n.fns[f].name = m.fns[f].name
        BY <1>2, <2>2 DEF IsMergedPair
      <3>2. ~ IsThunk(m, f)
        BY <2>2 DEF IsSound
      <3>3. QED BY <3>1, <3>2 DEF IsThunk
    <2>3. QED BY <1>2, <2>1, <2>2 DEF IsMergedPair
  <1>7. ASSUME NEW f \in DOMAIN n.fns, IsDeclaration(n.fns[f])
        PROVE  \/ f \in DOMAIN orig.fns /\ IsDeclaration(orig.fns[f])
                      /\ n.fns[f].name = orig.fns[f].name
               \/ f \notin DOMAIN orig.fns /\ IsLeftover(n, f)
    <2>1. f \in DOMAIN m.fns /\ f # m.next
      BY <1>2, <1>5, <1>7 DEF IsMergedPair
    <2>2. n.fns[f].name = m.fns[f].name /\ IsDeclaration(m.fns[f])
      BY <1>2, <1>7, <2>1 DEF IsMergedPair
    <2>3. f \notin {f1, f2}
      BY <1>5, <2>2
    <2>4. IsLike(n.fns[f], m.fns[f])
      BY <1>2, <2>1, <2>3 DEF IsMergedPair
    <2>5. CASE f \in DOMAIN orig.fns /\ IsDeclaration(orig.fns[f])
                   /\ m.fns[f].name = orig.fns[f].name
      BY <2>2, <2>5
    <2>6. CASE f \notin DOMAIN orig.fns /\ IsLeftover(m, f)
      <3>1. f \notin Called(m) /\ f \notin Taken(m)
        BY <2>6, UsesOfModule DEF IsLeftover
      <3>2. f \notin Called(n) /\ f \notin Taken(n)
        BY <1>2, <2>1, <3>1 DEF IsMergedPair
      <3>3. Unused(n, f)
        BY <3>2, UsesOfModule
      <3>4. IsLeftover(n, f)
        BY <1>7, <2>2, <2>4, <2>6, <3>3 DEF IsLeftover, IsMerged, IsLike, IsAlike
      <3>5. QED BY <2>6, <3>4
    <2>7. QED BY <2>1, <2>2, <2>5, <2>6 DEF IsSound
  <1>8. WellFormed(n) /\ orig.next <= n.next
    BY <1>1, <1>2 DEF IsMergedPair
  <1>9. ArePlansIn(n, {})
    BY DEF ArePlansIn
  <1>10. IsSound(orig, n, {})
    BY <1>6, <1>7, <1>8, <1>9 DEF IsSound
  <1>11. QED BY <1>3, <1>4, <1>10


(***************************************************************************)
(* The matches a pairwise pass goes on to try after a success may have been *)
(* emptied by it, unless it tries one match only, as it does by default     *)
(* (ExplorationThreshold of FunctionMerging.cpp).                          *)
(***************************************************************************)
TriesOnce ==
  ExplorationThreshold["func-merging"] <= 1 /\ ExplorationThreshold["only"] <= 1

LEMMA GivenFunctionsAreLive ==
  ASSUME NEW j \in Jobs, NEW f \in DOMAIN j.mod.fns, ~ IsDeclaration(j.mod.fns[f])
  PROVE  IsLive(j.mod, f)
  <1>1. IsModule(j.mod)
    BY MergingPassesAssumption DEF IsJob
  <1>2. PICK p \in j.mod.fns[f].body : p.source = f
    BY <1>1 DEF IsModule, IsDeclaration
  <1>3. f # None
    BY <1>1 DEF IsModule, None
  <1>4. QED BY <1>2, <1>3 DEF IsLive, HasCode

LEMMA PairwiseInit == Init => PairwiseInv
  <1> SUFFICES ASSUME Init, IsPairwise PROVE PairwiseInv
    BY DEF PairwiseInv
  <1>1. /\ job \in Jobs /\ mod = job.mod /\ rank = <<>> /\ current = None /\ trials = 0
        /\ candidates = Definitions(job.mod)
    BY DEF Init
  <1>2. IsSound(job.mod, mod, {})
    BY <1>1, GivenIsSound
  <1>3. \A f \in candidates : IsLive(mod, f)
    BY <1>1, GivenFunctionsAreLive DEF Definitions
  <1>4. current \notin candidates
    <2>1. DOMAIN job.mod.fns \subseteq Ids(job.mod)
      BY <1>1, JobFacts, WellFormedIsShaped
    <2>2. None \notin Ids(job.mod)
      BY <1>1, JobFacts, WellFormedIsShaped
    <2>3. QED BY <1>1, <2>1, <2>2 DEF Definitions
  <1>5. QED BY <1>1, <1>2, <1>3, <1>4 DEF PairwiseInv

LEMMA PairwiseAfterNextCandidate == WorkInv /\ PairwiseInv /\ NextCandidate => PairwiseInv'
  <1> SUFFICES ASSUME WorkInv, PairwiseInv, NextCandidate PROVE PairwiseInv'
    OBVIOUS
  <1>1. /\ Pass \in {"func-merging", "fastfm", "fmsa"}
        /\ candidates # {} /\ trials' = 0 /\ UNCHANGED <<job, mod>>
    BY DEF NextCandidate
  <1>2. PICK f1 \in (IF front = <<>> THEN candidates ELSE {Head(front)}) :
          /\ current' = f1 /\ candidates' = candidates \ {f1}
          /\ \E S \in SUBSET Matches(f1, candidates \ {f1}) : rank' \in SetToSeqs(S)
    BY DEF NextCandidate
  <1>3. PICK S \in SUBSET Matches(f1, candidates \ {f1}) : rank' \in SetToSeqs(S)
    BY <1>2
  <1>4. Shaped(mod) /\ candidates \subseteq Ids(mod) /\ front \in Seq(candidates)
    BY <1>1 DEF WorkInv, IdsInv, WorklistInv
  <1>5. f1 \in candidates /\ S \subseteq candidates \ {f1} /\ S \subseteq Ids(mod)
    BY <1>2, <1>4 DEF Matches
  <1>6. Range(rank') = S
    BY <1>3, <1>4, <1>5, FiniteIds, PermutationProperties
  <1>7. IsPairwise /\ Pass # "only"
    BY <1>1 DEF IsPairwise, PairwisePasses
  <1>8. IsSound(job.mod, mod, {}) /\ \A f \in candidates : IsLive(mod, f)
    BY <1>7 DEF PairwiseInv
  <1>9. /\ IsSound(job'.mod, mod', {}) /\ trials' \in Nat
        /\ \A f \in candidates' : IsLive(mod', f)
        /\ current' \notin candidates' /\ IsLive(mod', current')
        /\ current' \notin Range(rank') /\ \A f \in Range(rank') : IsLive(mod', f)
    BY <1>1, <1>2, <1>5, <1>6, <1>8
  <1>10. QED BY <1>9 DEF PairwiseInv

LEMMA PairwiseAfterOnlyCandidate == WorkInv /\ PairwiseInv /\ OnlyCandidate => PairwiseInv'
  <1> SUFFICES ASSUME WorkInv, PairwiseInv, OnlyCandidate PROVE PairwiseInv'
    OBVIOUS
  <1> DEFINE found == Found(job.names)
  <1>1. /\ Pass = "only" /\ current = None /\ UNCHANGED <<job, mod, trials>>
        /\ current' = Head(found) /\ rank' = Tail(found)
    BY DEF OnlyCandidate
  <1>2. job \in Jobs /\ mod = job.mod
    BY <1>1 DEF WorkInv, JobInv, OnlyInv
  <1>3. AreNames(job.mod, job.names) /\ job.names \in Seq(Seq(STRING)) /\ Distinct(job.names)
    BY <1>2, JobFacts, MergingPassesAssumption DEF IsJob
  <1>4. /\ found \in Seq(DOMAIN mod.fns) /\ Distinct(found) /\ found # <<>>
        /\ \A f \in Range(found) : mod.fns[f].name \in Range(job.names)
    BY <1>3, OnlyFindsSome, FoundProperties
  <1> HIDE DEF found
  <1>5. \A f \in Range(found) : f \in DOMAIN mod.fns
    BY <1>4, ElementOfSeq DEF Range
  <1>6. \A f \in Range(found) : IsLive(mod, f)
    <2>1. \A f \in Range(found) : ~ IsDeclaration(mod.fns[f])
      BY <1>2, <1>3, <1>4, <1>5 DEF AreNames
    <2>2. QED BY <1>2, <1>5, <2>1, GivenFunctionsAreLive
  <1>7. /\ current' = found[1] /\ DOMAIN found = 1 .. Len(found) /\ Len(found) \in Nat \ {0}
        /\ DOMAIN rank' = 1 .. Len(found) - 1
        /\ \A i \in 1 .. Len(found) - 1 : rank'[i] = found[i + 1]
    BY <1>1, <1>4
  <1>8. current' \in Range(found) /\ Range(rank') \subseteq Range(found)
    BY <1>7 DEF Range
  <1>9. current' \notin Range(rank')
    BY <1>4, <1>7 DEF Distinct, Range
  <1>10. IsSound(job.mod, mod, {}) /\ trials \in Nat
    BY <1>1 DEF PairwiseInv, IsPairwise, PairwisePasses
  <1>11. /\ IsSound(job'.mod, mod', {}) /\ trials' \in Nat
         /\ \A f \in Range(found) : IsLive(mod', f)
    BY <1>1, <1>6, <1>10
  <1>12. Pass' = "only"
    BY <1>1 DEF Pass
  <1>13. QED BY <1>8, <1>9, <1>11, <1>12 DEF PairwiseInv

LEMMA PairwiseAfterRejectPair == WorkInv /\ PairwiseInv /\ RejectPair => PairwiseInv'
  <1> SUFFICES ASSUME WorkInv, PairwiseInv, RejectPair PROVE PairwiseInv'
    OBVIOUS
  <1>1. /\ IsPairwise /\ rank # <<>> /\ rank' = RankAfter(FALSE) /\ trials' = trials + 1
        /\ UNCHANGED <<job, mod, candidates, current>>
    BY DEF RejectPair
  <1>2. rank \in Seq(Ids(mod))
    BY DEF WorkInv, IdsInv
  <1>3. Range(rank') \subseteq Range(rank)
    BY <1>1, <1>2, TrialShortensRank
  <1>4. Pass' = Pass
    BY <1>1 DEF Pass
  <1>5. /\ IsSound(job'.mod, mod', {}) /\ trials' \in Nat
        /\ Pass # "only" => /\ \A f \in candidates' : IsLive(mod', f)
                            /\ current' \notin candidates'
        /\ IsLive(mod', current') /\ current' \notin Range(rank)
        /\ \A f \in Range(rank) : IsLive(mod', f)
    BY <1>1 DEF PairwiseInv
  <1>6. current' \notin Range(rank') /\ \A f \in Range(rank') : IsLive(mod', f)
    BY <1>3, <1>5
  <1>7. QED BY <1>4, <1>5, <1>6 DEF PairwiseInv

LEMMA PairwiseAfterAcceptPair ==
  TriesOnce /\ WorkInv /\ PairwiseInv /\ AcceptPair => PairwiseInv'
  <1> SUFFICES ASSUME TriesOnce, WorkInv, PairwiseInv, AcceptPair PROVE PairwiseInv'
    OBVIOUS
  <1> DEFINE f2 == Last(rank)
  <1>1. /\ IsPairwise /\ rank # <<>> /\ rank' = RankAfter(TRUE) /\ trials' = trials + 1
        /\ mod' \in MergePair(PairPass, mod, current, f2)
        /\ Pass # "only" => candidates' = Requeue(f2)
        /\ job' = job /\ current' = current
    BY DEF AcceptPair
  <1>2. rank \in Seq(Ids(mod)) /\ current \in Ids(mod) \cup {None} /\ Shaped(mod) /\ job \in Jobs
    BY DEF WorkInv, IdsInv, JobInv
  <1>3. f2 \in Range(rank)
    BY <1>1, <1>2, TrialShortensRank
  <1> HIDE DEF f2
  <1>4. /\ IsSound(job.mod, mod, {}) /\ trials \in Nat
        /\ IsLive(mod, current) /\ IsLive(mod, f2) /\ current # f2
        /\ Pass # "only" => (\A f \in candidates : IsLive(mod, f)) /\ current \notin candidates
    BY <1>1, <1>3 DEF PairwiseInv
  <1>5. PairPass \in {"func-merging", "fastfm", "fmsa"}
    BY <1>1 DEF PairPass, IsPairwise, PairwisePasses
  <1>6. WellFormed(job.mod)
    BY <1>2, JobFacts
  <1>7. /\ IsSound(job.mod, mod', {}) /\ IsLive(mod', mod.next)
        /\ \A g : IsLive(mod, g) /\ g \notin {current, f2} => IsLive(mod', g)
    BY <1>1, <1>4, <1>5, <1>6, SoundAfterPair
  <1>8. rank' = <<>>
    <2>1. CASE Pass \in {"fastfm", "fmsa"}
      BY <1>1, <2>1 DEF RankAfter
    <2>2. CASE Pass \in {"func-merging", "only"}
      <3>1. ExplorationThreshold[Pass] \in Nat /\ ExplorationThreshold[Pass] <= 1
        BY <2>2, MergingPassesAssumption DEF TriesOnce, PairwisePasses
      <3>2. trials + 1 >= ExplorationThreshold[Pass]
        BY <1>4, <3>1
      <3>3. QED BY <1>1, <3>2 DEF RankAfter
    <2>3. QED BY <1>1, <2>1, <2>2 DEF IsPairwise, PairwisePasses
  <1>9. ASSUME Pass # "only"
        PROVE  (\A f \in candidates' : IsLive(mod', f)) /\ current \notin candidates'
    <2>1. candidates' = (candidates \ {f2}) \cup {mod.next}
      BY <1>1, <1>9 DEF Requeue
    <2>2. current # mod.next
      BY <1>2 DEF Ids, None, Shaped
    <2>3. QED BY <1>4, <1>7, <1>9, <2>1, <2>2
  <1>10. Pass' = Pass /\ trials' \in Nat
    BY <1>1, <1>4 DEF Pass
  <1>11. QED BY <1>1, <1>7, <1>8, <1>9, <1>10 DEF PairwiseInv


LEMMA PairwiseNext ==
  TriesOnce /\ WorkInv /\ PairwiseInv /\ [Next]_vars => PairwiseInv'
  <1> SUFFICES ASSUME TriesOnce, WorkInv, PairwiseInv, [Next]_vars PROVE PairwiseInv'
    OBVIOUS
  <1>1. CASE UNCHANGED vars
    BY <1>1 DEF vars, PairwiseInv, IsPairwise, Pass
  <1>2. CASE ~ IsPairwise
    <2>1. job' = job
      BY DEF Next, vars, Plan, Discard, Apply, PlanManually, ApplyManually, SkipRemark, StopReplay,
             ReplayRemark, ReplayMerge, NextCandidate, OnlyCandidate, RejectPair, AcceptPair, Return
    <2>2. ~ IsPairwise'
      BY <1>2, <2>1 DEF IsPairwise, Pass
    <2>3. QED BY <2>2 DEF PairwiseInv
  <1>3. CASE IsPairwise /\ (Plan \/ Discard \/ Apply \/ PlanManually \/ ApplyManually
                             \/ SkipRemark \/ StopReplay \/ ReplayRemark \/ ReplayMerge)
    BY <1>3 DEF IsPairwise, PairwisePasses, Plan, Discard, Apply, PlanManually, ApplyManually,
                SkipRemark, StopReplay, ReplayRemark, ReplayMerge
  <1>4. CASE Return
    BY <1>1, <1>4 DEF Return
  <1>5. QED BY <1>1, <1>2, <1>3, <1>4, PairwiseAfterNextCandidate, PairwiseAfterOnlyCandidate,
               PairwiseAfterRejectPair, PairwiseAfterAcceptPair DEF Next

LEMMA PairwiseIsKept == TriesOnce => (Spec => []PairwiseInv)
  <1> SUFFICES ASSUME TriesOnce PROVE Spec => []PairwiseInv
    OBVIOUS
  <1>1. WorkInv /\ PairwiseInv /\ [Next]_vars => PairwiseInv'
    BY PairwiseNext
  <1>2. QED BY <1>1, PairwiseInit, WorkIsKept, PTL DEF Spec

(* A pairwise pass attempts to merge functions that exist and have code of  *)
(* their own (replaceByCall empties a function, updateCallGraph may erase   *)
(* it), provided it tries one match, as func-merging does by default.      *)
THEOREM AttemptsAreOnLiveFunctions == TriesOnce => (Spec => []AttemptsAreLive)
  <1> SUFFICES ASSUME TriesOnce PROVE Spec => []AttemptsAreLive
    OBVIOUS
  <1>1. PairwiseInv => AttemptsAreLive
    BY DEF PairwiseInv, AttemptsAreLive, IsLive, HasCode
  <1>2. QED BY <1>1, PairwiseIsKept, PTL

LEMMA SoundLeavesNothing ==
  ASSUME NEW P, IsSound(job.mod, mod, P), NEW f \in DOMAIN mod.fns \ DOMAIN Original
  PROVE  /\ IsPrefix(ThunkPrefix, mod.fns[f].name) => \E p \in P : f \in ThunksOf(p)
         /\ IsDeclaration(mod.fns[f]) => Unused(mod, f)
  <1>1. IsPrefix(ThunkPrefix, mod.fns[f].name) => \E p \in P : f \in ThunksOf(p)
    BY DEF IsSound, IsThunk
  <1>2. IsDeclaration(mod.fns[f]) => Unused(mod, f)
    BY DEF IsSound, IsLeftover, Original
  <1>3. QED BY <1>1, <1>2

(* Plans come and go without a trace, whatever pass makes them: every thunk *)
(* that still has its name belongs to a pending plan, and a declaration    *)
(* that was not there before is one nobody uses (MSAMergePlan::discard and  *)
(* applyMerge, and what emit leaves when the personalities differ).        *)
THEOREM NothingStaysBehind == TriesOnce => (Spec => []NothingIsLeftBehind)
  <1> SUFFICES ASSUME TriesOnce PROVE Spec => []NothingIsLeftBehind
    OBVIOUS
  <1>1. SpeculationInv /\ PairwiseInv => NothingIsLeftBehind
    <2> SUFFICES ASSUME SpeculationInv, PairwiseInv, NEW f \in DOMAIN mod.fns \ DOMAIN Original
                 PROVE  /\ IsPrefix(ThunkPrefix, mod.fns[f].name) => f \in PendingThunks
                        /\ IsDeclaration(mod.fns[f]) => Unused(mod, f)
      BY DEF NothingIsLeftBehind
    <2>1. IsSound(job.mod, mod, plans)
      BY DEF SpeculationInv, PairwiseInv
    <2>2. /\ IsPrefix(ThunkPrefix, mod.fns[f].name) => \E p \in plans : f \in ThunksOf(p)
          /\ IsDeclaration(mod.fns[f]) => Unused(mod, f)
      BY <2>1, SoundLeavesNothing
    <2>3. \A p \in plans : f \in ThunksOf(p) => f \in PendingThunks
      BY DEF ThunksOf, PendingThunks
    <2>4. QED BY <2>2, <2>3
  <1>2. QED BY <1>1, SpeculationIsKept, PairwiseIsKept, PTL


-----------------------------------------------------------------------------
(***************************************************************************)
(* Signatures, and the layouts of pending plans.                           *)
(***************************************************************************)
HasSignatures(m) == \A f \in DOMAIN m.fns : IsSequence(m.fns[f].sig)

(* Functions of m that are still there in n have the same parameters. *)
KeepsSignatures(n, m) ==
  \A f \in DOMAIN n.fns : f \in DOMAIN m.fns => n.fns[f].sig = m.fns[f].sig

SigsOf(m, parts) == [k \in DOMAIN parts |-> m.fns[parts[k]].sig]

(* The merged function of a plan serves its parts. *)
IsLaidOutIn(m, p) ==
  LET params == m.fns[p.merged].sig
      sigs == SigsOf(m, p.parts)
  IN /\ Len(params) = FewestParameters(sigs)
     /\ \A k \in DOMAIN p.parts : RowFits(params, sigs[k], p.rows[k])

LayoutsInv == HasSignatures(mod) /\ \A p \in plans : IsLaidOutIn(mod, p)

(* Any type the signatures of a module can be over. *)
Widths(m) == UNION {Range(m.fns[f].sig) : f \in DOMAIN m.fns}

LEMMA SignaturesOf ==
  ASSUME NEW m, HasSignatures(m), NEW parts, IsSequence(parts), Range(parts) \subseteq DOMAIN m.fns
  PROVE  /\ \A f \in DOMAIN m.fns : m.fns[f].sig \in Seq(Widths(m))
         /\ SigsOf(m, parts) \in Seq(Seq(Widths(m)))
  <1> DEFINE W == Widths(m)
  <1>1. ASSUME NEW f \in DOMAIN m.fns PROVE m.fns[f].sig \in Seq(W)
    <2>1. Range(m.fns[f].sig) \subseteq W
      BY DEF Widths
    <2>2. m.fns[f].sig \in Seq(Range(m.fns[f].sig))
      BY DEF HasSignatures, IsSequence
    <2> HIDE DEF W
    <2>3. QED BY <2>1, <2>2, SeqMonotonic
  <1> HIDE DEF W
  <1>2. DOMAIN parts = 1 .. Len(parts) /\ Len(parts) \in Nat
    BY DEF IsSequence
  <1>3. \A k \in DOMAIN parts : m.fns[parts[k]].sig \in Seq(W)
    BY <1>1 DEF Range
  <1>4. SigsOf(m, parts) \in Seq(Seq(W))
    BY <1>2, <1>3 DEF SigsOf
  <1>5. QED BY <1>1, <1>4 DEF W

LEMMA LayoutParameters ==
  ASSUME NEW Type, NEW sigs \in Seq(Seq(Type)), NEW l \in Layouts(sigs)
  PROVE  IsSequence(l.params)
  <1> DEFINE All == Type \cup {DiscriminatorWidth(Len(sigs))}
  <1>1. sigs \in Seq(Seq(All)) /\ DiscriminatorWidth(Len(sigs)) \in All
    <2>1. Seq(Type) \subseteq Seq(All)
      BY SeqMonotonic
    <2> HIDE DEF All
    <2>2. sigs \in Seq(Seq(All))
      BY <2>1, SeqMonotonic
    <2>3. QED BY <2>2 DEF All
  <1> HIDE DEF All
  <1>2. IsLaidOut(All, sigs, Len(sigs), l)
    BY <1>1, LayoutIsLaidOut
  <1>3. l.params \in Seq(All)
    BY <1>2 DEF IsLaidOut, LayoutsOf
  <1>4. QED BY <1>3, SequencesOf

(* A plan does not mind that others come and go. *)
LEMMA StaysLaidOut ==
  ASSUME NEW n, NEW m, KeepsSignatures(n, m), NEW p, IsPlanIn(m, p), IsPlanIn(n, p),
         IsLaidOutIn(m, p)
  PROVE  IsLaidOutIn(n, p)
  <1>1. p.merged \in DOMAIN m.fns /\ p.merged \in DOMAIN n.fns
    BY DEF IsPlanIn, Created
  <1>2. \A k \in DOMAIN p.parts : p.parts[k] \in DOMAIN m.fns /\ p.parts[k] \in DOMAIN n.fns
    BY DEF IsPlanIn, Parts, Range
  <1>3. n.fns[p.merged].sig = m.fns[p.merged].sig
    BY <1>1 DEF KeepsSignatures
  <1>4. SigsOf(n, p.parts) = SigsOf(m, p.parts)
    BY <1>2 DEF KeepsSignatures, SigsOf
  <1>5. QED BY <1>3, <1>4 DEF IsLaidOutIn

(* What planMerge makes is laid out, and everything else keeps its          *)
(* parameters.                                                             *)
LEMMA PlanMergeLaysOut ==
  ASSUME NEW m, WellFormed(m), HasSignatures(m), NEW parts, ArePlannable(m, parts),
         NEW o \in PlanMerge(m, parts)
  PROVE  /\ HasSignatures(o.mod) /\ KeepsSignatures(o.mod, m)
         /\ o.plan # NoPlan => IsLaidOutIn(o.mod, o.plan)
  <1> DEFINE fs == [k \in DOMAIN parts |-> m.fns[parts[k]]]
             sigs == [k \in DOMAIN parts |-> fs[k].sig]
             W == Widths(m)
  <1>1. /\ IsSequence(parts) /\ Range(parts) \subseteq DOMAIN m.fns /\ Shaped(m)
        /\ \A k \in DOMAIN parts : parts[k] \in DOMAIN m.fns /\ fs[k] = m.fns[parts[k]]
        /\ IsSequence(fs) /\ DOMAIN fs = DOMAIN parts
        /\ \A k \in DOMAIN parts : IsFunction(fs[k])
    <2>1. IsSequence(parts) /\ Range(parts) \subseteq DOMAIN m.fns
      BY DEF ArePlannable, MayBePlanned
    <2>2. \A k \in DOMAIN parts : parts[k] \in DOMAIN m.fns /\ IsFunction(fs[k])
      BY <2>1 DEF Range, WellFormed
    <2>3. DOMAIN parts = 1 .. Len(parts) /\ Len(parts) \in Nat
      BY <2>1 DEF IsSequence
    <2>4. IsSequence(fs)
      BY <2>3 DEF IsSequence, Range
    <2>5. QED BY <2>1, <2>2, <2>4, WellFormedIsShaped
  <1>2. sigs = SigsOf(m, parts)
    BY <1>1 DEF SigsOf
  <1>3. sigs \in Seq(Seq(W)) /\ DOMAIN sigs = DOMAIN parts
    BY <1>1, <1>2, SignaturesOf
  <1> HIDE DEF sigs, W, fs
  <1>4. \A l \in Layouts(sigs) :
          /\ IsSequence(l.params) /\ Len(l.params) = FewestParameters(sigs)
          /\ \A k \in DOMAIN parts : RowFits(l.params, sigs[k], l.rows[k])
    BY <1>3, LayoutParameters, LayoutsFit
  <1>5. CASE o.mod = m /\ o.plan = NoPlan
    BY <1>5 DEF KeepsSignatures
  <1>6. ASSUME NEW l \in Layouts(sigs),
               o.mod = AddFunction(m, EmitDeclaration(m, fs, l)), o.plan = NoPlan
        PROVE  HasSignatures(o.mod) /\ KeepsSignatures(o.mod, m)
    <2> DEFINE d == EmitDeclaration(m, fs, l)
    <2>1. d.sig = l.params
      <3>1. AreEmitted(m, fs, l)
        BY <1>1, EmittedFunctions
      <3>2. QED BY <3>1 DEF AreEmitted
    <2> HIDE DEF d
    <2>2. o.mod.fns = [g \in DOMAIN m.fns \cup {m.next} |-> IF g = m.next THEN d ELSE m.fns[g]]
      BY <1>6 DEF AddFunction, d, WellFormed
    <2>3. m.next \notin DOMAIN m.fns
      BY DEF WellFormed
    <2>4. QED BY <1>4, <2>1, <2>2, <2>3 DEF HasSignatures, KeepsSignatures
  <1>7. ASSUME NEW l \in Layouts(sigs), o = Planned(m, parts, l)
        PROVE  /\ HasSignatures(o.mod) /\ KeepsSignatures(o.mod, m)
               /\ IsLaidOutIn(o.mod, o.plan)
    <2> DEFINE n == o.mod
               p == o.plan
               merged == AddFunction(m, Emit(m, fs, l))
    <2>1. IsPlanned(m, parts, l)
      BY <1>1, PlannedFunctions
    <2>2. /\ n.next > m.next
          /\ DOMAIN n.fns = DOMAIN m.fns \cup m.next .. n.next - 1
          /\ \A f \in DOMAIN m.fns : n.fns[f] = m.fns[f]
          /\ p.parts = parts /\ p.merged = m.next /\ p.rows = l.rows
          /\ n.fns[m.next] = Emit(m, fs, l)
          /\ \A k \in DOMAIN parts : p.thunks[k] # None =>
               \E row : n.fns[p.thunks[k]]
                          = Thunk(merged, fs[k], m.next, l.params, k - 1, row)
          /\ \A g \in m.next + 1 .. n.next - 1 : \E k \in DOMAIN parts : p.thunks[k] = g
      BY <1>7, <2>1 DEF IsPlanned, fs
    <2>3. Emit(m, fs, l).sig = l.params
      <3>1. AreEmitted(m, fs, l)
        BY <1>1, EmittedFunctions
      <3>2. QED BY <3>1 DEF AreEmitted
    <2>4. m.next \in Nat /\ m.next # 0
      BY DEF WellFormed
    <2> HIDE DEF n, p, merged
    <2>5. ASSUME NEW g \in m.next + 1 .. n.next - 1 PROVE IsSequence(n.fns[g].sig)
      <3>1. PICK k \in DOMAIN parts : p.thunks[k] = g
        BY <2>2
      <3>2. g # None
        BY <2>4 DEF None
      <3>3. PICK row : n.fns[g] = Thunk(merged, fs[k], m.next, l.params, k - 1, row)
        BY <2>2, <3>1, <3>2
      <3>4. IsFunction(fs[k])
        BY <1>1
      <3>5. ForwardsTo(n.fns[g], fs[k], m.next)
        BY <3>3, <3>4, Thunks, Zenon
      <3>6. n.fns[g].sig = m.fns[parts[k]].sig
        BY <1>1, <3>5 DEF ForwardsTo
      <3>7. QED BY <1>1, <3>6 DEF HasSignatures
    <2>6. \A g \in DOMAIN n.fns :
            g \in DOMAIN m.fns \/ g = m.next \/ g \in m.next + 1 .. n.next - 1
      BY <2>2, <2>4
    <2>7. HasSignatures(n)
      BY <1>4, <2>2, <2>3, <2>5, <2>6 DEF HasSignatures
    <2>8. KeepsSignatures(n, m)
      BY <2>2 DEF KeepsSignatures
    <2>9. SigsOf(n, parts) = sigs
      BY <1>1, <1>2, <2>2 DEF SigsOf
    <2>10. IsLaidOutIn(n, p)
      BY <1>4, <2>2, <2>3, <2>9 DEF IsLaidOutIn
    <2>11. QED BY <2>7, <2>8, <2>10 DEF n, p
  <1>8. \/ o.mod = m /\ o.plan = NoPlan
        \/ \E l \in Layouts(sigs) :
             o.mod = AddFunction(m, EmitDeclaration(m, fs, l)) /\ o.plan = NoPlan
        \/ \E l \in Layouts(sigs) : o = Planned(m, parts, l)
    BY PlanMergeOutcomes, Zenon DEF sigs, fs
  <1>9. QED BY <1>5, <1>6, <1>7, <1>8

(* Discarding and applying plans keeps parameters. *)
LEMMA SignaturesStay ==
  ASSUME NEW m, WellFormed(m), HasSignatures(m), NEW p
  PROVE  /\ HasSignatures(DiscardPlan(m, p)) /\ KeepsSignatures(DiscardPlan(m, p), m)
         /\ IsPlanIn(m, p) => /\ HasSignatures(ApplyMerge(m, p))
                              /\ KeepsSignatures(ApplyMerge(m, p), m)
  <1>1. HasSignatures(DiscardPlan(m, p)) /\ KeepsSignatures(DiscardPlan(m, p), m)
    <2> DEFINE n == DiscardPlan(m, p)
    <2>1. n = Erase(m, Created(p))
      BY DEF DiscardPlan, Created, ThunksOf
    <2>2. IsWithout(Erase(m, Created(p)), m, Created(p))
      BY EraseProperties, Zenon
    <2> HIDE DEF n
    <2>3. IsWithout(n, m, Created(p))
      BY <2>1, <2>2
    <2>4. HasSignatures(n) /\ KeepsSignatures(n, m)
      BY <2>3 DEF IsWithout, HasSignatures, KeepsSignatures
    <2>5. QED BY <2>4 DEF n
  <1>2. ASSUME IsPlanIn(m, p)
        PROVE  HasSignatures(ApplyMerge(m, p)) /\ KeepsSignatures(ApplyMerge(m, p), m)
    <2> DEFINE n == ApplyMerge(m, p)
    <2>1. MergeApplied(n, m, p)
      BY <1>2, AppliedMerges
    <2> HIDE DEF n
    <2>2. HasSignatures(n) /\ KeepsSignatures(n, m)
      BY <2>1 DEF MergeApplied, IsAlike, HasSignatures, KeepsSignatures
    <2>3. QED BY <2>2 DEF n
  <1>3. QED BY <1>1, <1>2

(* The step leaves the plans that were there as they were. *)
LEMMA LayoutsStay ==
  ASSUME ~ IsPairwise, ~ IsPairwise', SpeculationInv, SpeculationInv', LayoutsInv,
         HasSignatures(mod'), KeepsSignatures(mod', mod),
         \A p \in plans' : p \in plans \/ IsLaidOutIn(mod', p)
  PROVE  LayoutsInv'
  <1>1. \A p \in plans : IsPlanIn(mod, p)
    BY DEF SpeculationInv, IsSound, ArePlansIn
  <1>2. IsSound(job'.mod, mod', plans')
    BY DEF SpeculationInv
  <1>3. \A p \in plans' : IsPlanIn(mod', p)
    BY <1>2 DEF IsSound, ArePlansIn
  <1>4. \A p \in plans' : IsLaidOutIn(mod', p)
    BY <1>1, <1>3, StaysLaidOut DEF LayoutsInv
  <1>5. QED BY <1>4 DEF LayoutsInv


LEMMA LayoutsInit == Init => LayoutsInv
  <1> SUFFICES ASSUME Init PROVE LayoutsInv
    OBVIOUS
  <1>1. mod = job.mod /\ plans = {} /\ IsModule(job.mod)
    BY MergingPassesAssumption DEF Init, IsJob
  <1>2. ASSUME NEW f \in DOMAIN mod.fns PROVE IsSequence(mod.fns[f].sig)
    <2>1. mod.fns[f] \in FunctionRecord
      BY <1>1 DEF IsModule
    <2>2. mod.fns[f].sig \in Seq(Nat)
      BY <2>1 DEF FunctionRecord
    <2>3. QED BY <2>2, SequencesOf
  <1>3. QED BY <1>1, <1>2 DEF LayoutsInv, HasSignatures

LEMMA LayoutsAfterPlan ==
  WorkInv /\ SpeculationInv /\ SpeculationInv' /\ LayoutsInv /\ Plan => LayoutsInv'
  <1> SUFFICES ASSUME WorkInv, SpeculationInv, SpeculationInv', LayoutsInv, Plan PROVE LayoutsInv'
    OBVIOUS
  <1>1. PICK S \in SUBSET candidates :
          /\ Cardinality(S) \in 2 .. MaxMergeSize
          /\ \E parts \in SetToSeqs(S) : \E o \in PlanMerge(mod, parts) :
               /\ mod' = o.mod
               /\ plans' = IF o.plan = NoPlan THEN plans ELSE plans \cup {o.plan}
    BY DEF Plan
  <1>2. PICK parts \in SetToSeqs(S) : \E o \in PlanMerge(mod, parts) :
               /\ mod' = o.mod
               /\ plans' = IF o.plan = NoPlan THEN plans ELSE plans \cup {o.plan}
    BY <1>1
  <1>3. PICK o \in PlanMerge(mod, parts) :
               /\ mod' = o.mod
               /\ plans' = IF o.plan = NoPlan THEN plans ELSE plans \cup {o.plan}
    BY <1>2
  <1>4. Pass = "explore" /\ job' = job /\ ~ IsPairwise /\ ~ IsPairwise'
    BY DEF Plan, IsPairwise, PairwisePasses, Pass
  <1>5. /\ \A f \in candidates : f \in DOMAIN mod.fns /\ ~ IsDeclaration(mod.fns[f])
        /\ WellFormed(mod)
    BY <1>4 DEF SpeculationInv, ExploreInv, IsSound
  <1>6. IsSequence(parts) /\ Distinct(parts) /\ Range(parts) = S
    <2>1. IsFiniteSet(S)
      BY FiniteIds DEF WorkInv, IdsInv
    <2>2. QED BY <1>1, <2>1, PlansOfCandidates, PermutationProperties
  <1>7. ArePlannable(mod, parts)
    BY <1>5, <1>6 DEF ArePlannable, MayBePlanned
  <1>8. /\ HasSignatures(mod') /\ KeepsSignatures(mod', mod)
        /\ o.plan # NoPlan => IsLaidOutIn(mod', o.plan)
    BY <1>3, <1>5, <1>7, PlanMergeLaysOut DEF LayoutsInv
  <1>9. \A p \in plans' : p \in plans \/ IsLaidOutIn(mod', p)
    BY <1>3, <1>8
  <1>10. QED BY <1>4, <1>8, <1>9, LayoutsStay

LEMMA LayoutsAfterDiscard ==
  SpeculationInv /\ SpeculationInv' /\ LayoutsInv /\ (Discard \/ Apply) => LayoutsInv'
  <1> SUFFICES ASSUME SpeculationInv, SpeculationInv', LayoutsInv, Discard \/ Apply
               PROVE  LayoutsInv'
    OBVIOUS
  <1>1. Pass = "explore" /\ job' = job /\ ~ IsPairwise /\ ~ IsPairwise'
    BY DEF Discard, Apply, IsPairwise, PairwisePasses, Pass
  <1>2. PICK p \in plans :
          (mod' = DiscardPlan(mod, p) \/ mod' = ApplyMerge(mod, p)) /\ plans' = plans \ {p}
    BY DEF Discard, Apply
  <1>3. WellFormed(mod) /\ IsPlanIn(mod, p)
    BY <1>1 DEF SpeculationInv, IsSound, ArePlansIn
  <1>4. HasSignatures(mod') /\ KeepsSignatures(mod', mod)
    BY <1>2, <1>3, SignaturesStay DEF LayoutsInv
  <1>5. \A q \in plans' : q \in plans
    BY <1>2
  <1>6. QED BY <1>1, <1>4, <1>5, LayoutsStay


LEMMA LayoutsAfterPlanManually ==
  WorkInv /\ SpeculationInv /\ SpeculationInv' /\ LayoutsInv /\ PlanManually => LayoutsInv'
  <1> SUFFICES ASSUME WorkInv, SpeculationInv, SpeculationInv', LayoutsInv, PlanManually
               PROVE  LayoutsInv'
    OBVIOUS
  <1> DEFINE parts == Found(job.names)
  <1>1. Pass = "manual" /\ job' = job /\ ~ IsPairwise /\ ~ IsPairwise' /\ job \in Jobs
    BY DEF PlanManually, IsPairwise, PairwisePasses, Pass, WorkInv, JobInv
  <1>2. PICK o \in PlanMerge(mod, parts) :
          \/ /\ mod' = o.mod
             /\ plans = {} \/ o.plan = NoPlan
             /\ plans' = IF o.plan = NoPlan THEN plans ELSE {o.plan}
          \/ \E worse \in plans \cup {o.plan} :
               /\ plans # {} /\ o.plan # NoPlan
               /\ mod' = DiscardPlan(o.mod, worse)
               /\ plans' = (plans \cup {o.plan}) \ {worse}
    BY DEF PlanManually
  <1> HIDE DEF parts
  <1>3. ArePlannable(mod, parts) /\ WellFormed(mod)
    <2>1. AreNames(job.mod, job.names)
      BY <1>1, MergingPassesAssumption DEF IsJob
    <2>2. Distinct(job.names)
      BY <2>1 DEF AreNames, Distinct
    <2>3. IsSequence(parts) /\ Distinct(parts) /\ \A f \in Range(parts) : MayBePlanned(mod, f)
      BY <1>1, <2>1, <2>2, FoundMayBePlanned DEF parts
    <2>4. QED BY <1>1, <2>3 DEF ArePlannable, SpeculationInv, IsSound
  <1>4. /\ HasSignatures(o.mod) /\ KeepsSignatures(o.mod, mod)
        /\ o.plan # NoPlan => IsLaidOutIn(o.mod, o.plan)
    BY <1>3, PlanMergeLaysOut DEF LayoutsInv
  <1>5. /\ Extends(o.mod, mod) /\ WellFormed(o.mod)
        /\ o.plan # NoPlan => IsPlanIn(o.mod, o.plan)
    BY <1>3, PlanMergeAdds DEF Extends, IsNewPlan
  <1>6. CASE mod' = o.mod /\ (plans' = plans \/ (o.plan # NoPlan /\ plans' = {o.plan}))
    <2>1. \A p \in plans' : p \in plans \/ IsLaidOutIn(mod', p)
      BY <1>4, <1>6
    <2>2. QED BY <1>1, <1>4, <1>6, <2>1, LayoutsStay
  <1>7. ASSUME NEW worse \in plans \cup {o.plan}, o.plan # NoPlan,
               mod' = DiscardPlan(o.mod, worse), plans' = (plans \cup {o.plan}) \ {worse}
        PROVE  LayoutsInv'
    <2>1. HasSignatures(mod') /\ KeepsSignatures(mod', o.mod)
      BY <1>4, <1>5, <1>7, SignaturesStay
    <2>2. KeepsSignatures(mod', mod)
      BY <1>4, <1>5, <2>1 DEF KeepsSignatures, Extends
    <2>3. \A p \in plans' : IsPlanIn(mod', p)
      <3>1. IsSound(job'.mod, mod', plans')
        BY <1>1 DEF SpeculationInv
      <3>2. QED BY <3>1 DEF IsSound, ArePlansIn
    <2>4. ASSUME NEW p \in plans' PROVE p \in plans \/ IsLaidOutIn(mod', p)
      BY <1>4, <1>5, <1>7, <2>1, <2>3, StaysLaidOut
    <2>5. QED BY <1>1, <2>1, <2>2, <2>4, LayoutsStay
  <1>8. QED
    <2>1. CASE \E worse \in plans \cup {o.plan} :
                 /\ plans # {} /\ o.plan # NoPlan
                 /\ mod' = DiscardPlan(o.mod, worse)
                 /\ plans' = (plans \cup {o.plan}) \ {worse}
      BY <1>7, <2>1
    <2>2. CASE /\ mod' = o.mod
               /\ plans = {} \/ o.plan = NoPlan
               /\ plans' = IF o.plan = NoPlan THEN plans ELSE {o.plan}
      <3>1. plans' = plans \/ (o.plan # NoPlan /\ plans' = {o.plan})
        BY <2>2
      <3>2. QED BY <1>6, <2>2, <3>1, Zenon
    <2>3. QED BY <1>2, <2>1, <2>2

LEMMA LayoutsAfterApplyManually ==
  SpeculationInv /\ LayoutsInv /\ ApplyManually => LayoutsInv'
  <1> SUFFICES ASSUME SpeculationInv, LayoutsInv, ApplyManually PROVE LayoutsInv'
    OBVIOUS
  <1>1. Pass = "manual" /\ ~ IsPairwise /\ plans' = {}
    BY DEF ApplyManually, IsPairwise, PairwisePasses, Pass
  <1>2. PICK p \in plans : mod' = ApplyMerge(mod, p)
    BY DEF ApplyManually
  <1>3. WellFormed(mod) /\ IsPlanIn(mod, p)
    BY <1>1 DEF SpeculationInv, IsSound, ArePlansIn
  <1>4. HasSignatures(mod')
    BY <1>2, <1>3, SignaturesStay DEF LayoutsInv
  <1>5. QED BY <1>1, <1>4 DEF LayoutsInv

LEMMA LayoutsAfterReplayMerge ==
  WorkInv /\ SpeculationInv /\ LayoutsInv /\ ReplayMerge => LayoutsInv'
  <1> SUFFICES ASSUME WorkInv, SpeculationInv, LayoutsInv, ReplayMerge PROVE LayoutsInv'
    OBVIOUS
  <1>1. Pass = "replay" /\ plans' = plans /\ ~ IsPairwise
    BY DEF ReplayMerge, IsPairwise, PairwisePasses, Pass
  <1>2. PICK o \in PlanMerge(mod, TakenSources) :
          mod' = IF o.plan = NoPlan THEN o.mod ELSE ApplyMerge(o.mod, o.plan)
    BY DEF ReplayMerge, Count, LeftSources, TakenSources
  <1>3. /\ plans = {} /\ Distinct(front) /\ \A f \in Range(front) : MayBePlanned(mod, f)
        /\ WellFormed(mod)
    BY <1>1 DEF SpeculationInv, ReplayInv, IsSound
  <1>4. front \in Seq(Ids(mod)) /\ Len(front) >= 2
    BY DEF WorkInv, IdsInv, ReplayMerge
  <1>5. /\ TakenSources \in Seq(Ids(mod)) /\ Distinct(TakenSources)
        /\ Range(TakenSources) \subseteq Range(front)
    BY <1>3, <1>4, SourcesAreApart
  <1>6. ArePlannable(mod, TakenSources)
    <2>1. IsSequence(TakenSources)
      BY <1>5, SequencesOf
    <2>2. QED BY <1>3, <1>5, <2>1 DEF ArePlannable
  <1>7. /\ HasSignatures(o.mod) /\ WellFormed(o.mod)
        /\ o.plan # NoPlan => IsPlanIn(o.mod, o.plan)
    BY <1>3, <1>6, PlanMergeLaysOut, PlanMergeAdds DEF LayoutsInv, Extends, IsNewPlan
  <1>8. HasSignatures(mod')
    BY <1>2, <1>7, SignaturesStay
  <1>9. QED BY <1>1, <1>3, <1>8 DEF LayoutsInv

LEMMA LayoutsAfterAcceptPair ==
  WorkInv /\ SpeculationInv /\ PairwiseInv /\ LayoutsInv /\ AcceptPair => LayoutsInv'
  <1> SUFFICES ASSUME WorkInv, SpeculationInv, PairwiseInv, LayoutsInv, AcceptPair
               PROVE  LayoutsInv'
    OBVIOUS
  <1> DEFINE f2 == Last(rank)
  <1>1. /\ IsPairwise /\ rank # <<>> /\ rank' = RankAfter(TRUE) /\ plans' = plans
        /\ mod' \in MergePair(PairPass, mod, current, f2)
    BY DEF AcceptPair
  <1>2. f2 \in Range(rank)
    <2>1. rank \in Seq(Ids(mod))
      BY DEF WorkInv, IdsInv
    <2>2. QED BY <1>1, <2>1, TrialShortensRank
  <1> HIDE DEF f2
  <1>3. /\ WellFormed(mod) /\ IsLive(mod, current) /\ f2 \in DOMAIN mod.fns /\ current # f2
        /\ plans = {}
    BY <1>1, <1>2 DEF PairwiseInv, SpeculationInv, IsSound, IsLive
  <1>4. PairPass \in {"func-merging", "fastfm", "fmsa"}
    BY <1>1 DEF PairPass, IsPairwise, PairwisePasses
  <1>5. IsMergedPair(mod', mod, current, f2, PairPass)
    BY <1>1, <1>3, <1>4, AfterPair
  <1> DEFINE s1 == mod.fns[current].sig
             s2 == mod.fns[f2].sig
             W == Range(s1) \cup Range(s2)
  <1>6. PICK l \in PairLayouts(s1, s2) : mod'.fns[mod.next].sig = l.params
    BY <1>5 DEF IsMergedPair
  <1>7. s1 \in Seq(W) /\ s2 \in Seq(W)
    <2>1. s1 \in Seq(Range(s1)) /\ s2 \in Seq(Range(s2))
      BY <1>3 DEF LayoutsInv, HasSignatures, IsSequence, IsLive
    <2>2. Range(s1) \subseteq W /\ Range(s2) \subseteq W
      OBVIOUS
    <2> HIDE DEF s1, s2, W
    <2>3. QED BY <2>1, <2>2, SeqMonotonic
  <1> HIDE DEF s1, s2, W
  <1>8. IsSequence(l.params)
    <2>1. l \in Layouts(<<s1, s2>>)
      BY <1>6, <1>7, PairsAreLaidOutAlike
    <2>2. <<s1, s2>> \in Seq(Seq(W))
      BY <1>7
    <2>3. QED BY <2>1, <2>2, LayoutParameters
  <1>9. HasSignatures(mod')
    <2>1. \A f \in DOMAIN mod'.fns : f = mod.next \/ (f \in DOMAIN mod.fns
                                                       /\ mod'.fns[f].sig = mod.fns[f].sig)
      BY <1>5 DEF IsMergedPair
    <2>2. QED BY <1>6, <1>8, <2>1 DEF LayoutsInv, HasSignatures
  <1>10. QED BY <1>1, <1>3, <1>9 DEF LayoutsInv

LEMMA LayoutsNext ==
  WorkInv /\ SpeculationInv /\ SpeculationInv' /\ PairwiseInv /\ LayoutsInv /\ [Next]_vars
    => LayoutsInv'
  <1> SUFFICES ASSUME WorkInv, SpeculationInv, SpeculationInv', PairwiseInv, LayoutsInv,
                      [Next]_vars
               PROVE  LayoutsInv'
    OBVIOUS
  <1>1. CASE UNCHANGED <<mod, plans>>
    BY <1>1 DEF LayoutsInv
  <1>2. CASE \/ SkipRemark \/ StopReplay \/ ReplayRemark \/ NextCandidate \/ OnlyCandidate
             \/ RejectPair \/ Return \/ UNCHANGED vars
    BY <1>1, <1>2 DEF SkipRemark, StopReplay, ReplayRemark, NextCandidate, OnlyCandidate,
                      RejectPair, Return, vars
  <1>3. QED BY <1>2, LayoutsAfterPlan, LayoutsAfterDiscard, LayoutsAfterPlanManually,
               LayoutsAfterApplyManually, LayoutsAfterReplayMerge, LayoutsAfterAcceptPair DEF Next

(* The merged function of every pending plan has the fewest parameters that *)
(* serve its parts, whose parameters all have places of their own, however  *)
(* the module has changed since layoutParameters chose it; and what         *)
(* MergeArguments of the pairwise passes chooses from is the same.         *)
THEOREM PlansAreLaidOut == TriesOnce => (Spec => []LayoutsAreSound)
  <1> SUFFICES ASSUME TriesOnce PROVE Spec => []LayoutsAreSound
    OBVIOUS
  <1>1. LayoutsInv => LayoutsAreSound
    <2> SUFFICES ASSUME LayoutsInv PROVE LayoutsAreSound
      OBVIOUS
    <2>1. ASSUME NEW p \in plans
          PROVE  /\ Len(mod.fns[p.merged].sig) = FewestParameters(SigsOf(mod, p.parts))
                 /\ \A k \in DOMAIN p.parts :
                      RowFits(mod.fns[p.merged].sig, SigsOf(mod, p.parts)[k], p.rows[k])
      BY DEF LayoutsInv, IsLaidOutIn
    <2>2. ASSUME NEW f \in DOMAIN mod.fns, NEW g \in DOMAIN mod.fns
          PROVE  PairLayouts(mod.fns[f].sig, mod.fns[g].sig)
                   = Layouts(<<mod.fns[f].sig, mod.fns[g].sig>>)
      <3> DEFINE s1 == mod.fns[f].sig
                 s2 == mod.fns[g].sig
                 W == Range(s1) \cup Range(s2)
      <3>1. s1 \in Seq(Range(s1)) /\ s2 \in Seq(Range(s2))
        BY DEF LayoutsInv, HasSignatures, IsSequence
      <3>2. Range(s1) \subseteq W /\ Range(s2) \subseteq W
        OBVIOUS
      <3> HIDE DEF s1, s2, W
      <3>3. s1 \in Seq(W) /\ s2 \in Seq(W)
        BY <3>1, <3>2, SeqMonotonic
      <3>4. PairLayouts(s1, s2) = Layouts(<<s1, s2>>)
        BY <3>3, PairsAreLaidOutAlike
      <3>5. QED BY <3>4 DEF s1, s2
    <2>3. QED BY <2>1, <2>2, Zenon DEF LayoutsAreSound, SigsOf
  <1>2. WorkInv /\ SpeculationInv /\ SpeculationInv' /\ PairwiseInv /\ LayoutsInv /\ [Next]_vars
          => LayoutsInv'
    BY LayoutsNext
  <1>3. Spec => []LayoutsInv
    BY <1>2, LayoutsInit, WorkIsKept, SpeculationIsKept, PairwiseIsKept, PTL DEF Spec
  <1>4. QED BY <1>1, <1>3, PTL

-----------------------------------------------------------------------------
(***************************************************************************)
(* The names and linkages of the functions.  A pending plan prepares what  *)
(* it will need: a thunk is linked as its function is, and the functions   *)
(* that will be erased are not external.                                   *)
(***************************************************************************)
(* m has the external symbols of o. *)
KeepsSymbols(o, m) ==
  \A f \in DOMAIN o.fns : o.fns[f].linkage = "external" =>
    \E g \in DOMAIN m.fns : m.fns[g].name = o.fns[f].name /\ m.fns[g].linkage = "external"

(* A function is local, or o has its symbol. *)
IsSymbolOf(o, h) ==
  \/ h.linkage = "internal"
  \/ \E f \in DOMAIN o.fns : o.fns[f].name = h.name /\ o.fns[f].linkage = h.linkage

AddsNoSymbol(o, m, P) ==
  \A g \in DOMAIN m.fns : (\A p \in P : g \notin ThunksOf(p)) => IsSymbolOf(o, m.fns[g])

LinksAsParts(m, p) ==
  /\ m.fns[p.merged].linkage = "internal"
  /\ \A f \in ThunkedParts(p) : m.fns[ThunkOf(p, f)].linkage = m.fns[f].linkage
  /\ \A f \in ReplacedParts(p) : m.fns[f].linkage # "external"

IsLinked(o, m, P) ==
  KeepsSymbols(o, m) /\ AddsNoSymbol(o, m, P) /\ \A p \in P : LinksAsParts(m, p)

SymbolsInv ==
  /\ KeepsSymbols(job.mod, mod)
  /\ Pass \notin {"fastfm", "fmsa"} => AddsNoSymbol(job.mod, mod, plans)
  /\ \A p \in plans : LinksAsParts(mod, p)

(* The functions a plan creates, as planMerge leaves them. *)
LEMMA PlanLinks ==
  ASSUME NEW m, WellFormed(m), NEW parts, ArePlannable(m, parts), NEW layout
  PROVE  LinksAsParts(Planned(m, parts, layout).mod, Planned(m, parts, layout).plan)
  <1> DEFINE n == Planned(m, parts, layout).mod
             p == Planned(m, parts, layout).plan
             fs == [k \in DOMAIN parts |-> m.fns[parts[k]]]
             e == Emit(m, fs, layout)
             merged == AddFunction(m, e)
  <1>1. Shaped(m) /\ IsSequence(parts) /\ Range(parts) \subseteq DOMAIN m.fns /\ Distinct(parts)
    BY WellFormedIsShaped DEF ArePlannable, MayBePlanned
  <1>2. IsPlanned(m, parts, layout)
    BY <1>1, PlannedFunctions
  <1>3. /\ \A f \in DOMAIN m.fns : n.fns[f] = m.fns[f]
        /\ p.parts = parts /\ p.merged = m.next
        /\ n.fns[m.next] = e
        /\ DOMAIN p.thunks = DOMAIN parts
        /\ \A k \in DOMAIN parts :
             /\ p.thunks[k] = None <=> CanReplaceCalls(merged, parts[k])
             /\ p.thunks[k] # None =>
                  \E row : n.fns[p.thunks[k]]
                             = Thunk(merged, fs[k], m.next, layout.params, k - 1, row)
    BY <1>2 DEF IsPlanned
  <1>4. e.linkage = "internal"
    BY <1>1, MergedFunctionFacts
  <1>5. \A k \in DOMAIN parts : /\ parts[k] \in DOMAIN m.fns /\ fs[k] = m.fns[parts[k]]
                                /\ IsFunction(fs[k])
    BY <1>1 DEF Range, WellFormed
  <1>6. \A f \in DOMAIN m.fns : merged.fns[f] = m.fns[f]
    BY <1>1 DEF AddFunction, Shaped
  <1> HIDE DEF e, merged, n, p, fs
  <1>7. ASSUME NEW f \in ThunkedParts(p)
        PROVE  n.fns[ThunkOf(p, f)].linkage = n.fns[f].linkage
    <2> DEFINE k == CHOOSE k \in DOMAIN p.parts : p.parts[k] = f
    <2>1. k \in DOMAIN parts /\ parts[k] = f
      BY <1>3 DEF ThunkedParts, Parts, Range
    <2>2. ThunkOf(p, f) = p.thunks[k]
      BY DEF ThunkOf
    <2> HIDE DEF k
    <2>3. p.thunks[k] # None
      BY <1>3, <2>1 DEF ThunkedParts, ReplacedParts
    <2>4. PICK row : n.fns[p.thunks[k]]
                       = Thunk(merged, fs[k], m.next, layout.params, k - 1, row)
      BY <1>3, <2>1, <2>3
    <2>5. n.fns[p.thunks[k]].linkage = fs[k].linkage
      <3>1. IsFunction(fs[k])
        BY <1>5, <2>1
      <3>2. ForwardsTo(Thunk(merged, fs[k], m.next, layout.params, k - 1, row), fs[k], m.next)
        BY <3>1, Thunks, Zenon
      <3>3. QED BY <2>4, <3>2 DEF ForwardsTo
    <2>6. QED BY <1>3, <1>5, <2>1, <2>2, <2>5
  <1>8. ASSUME NEW f \in ReplacedParts(p) PROVE n.fns[f].linkage # "external"
    <2>1. PICK k \in DOMAIN parts : parts[k] = f /\ p.thunks[k] = None
      BY <1>3 DEF ReplacedParts
    <2>2. CanReplaceCalls(merged, f)
      BY <1>3, <2>1
    <2>3. IsDiscardableIfUnused(m.fns[f])
      BY <1>5, <1>6, <2>1, <2>2 DEF CanReplaceCalls
    <2>4. QED BY <1>3, <1>5, <2>1, <2>3 DEF IsDiscardableIfUnused
  <1>9. LinksAsParts(n, p)
    BY <1>3, <1>4, <1>7, <1>8 DEF LinksAsParts
  <1>10. QED BY <1>9 DEF n, p

(* A plan keeps its links when nothing happens to its functions. *)
LEMMA LinksStay ==
  ASSUME NEW n, NEW m, NEW p, IsPlanIn(m, p), LinksAsParts(m, p),
         \A f \in Parts(p) \cup Created(p) : n.fns[f].linkage = m.fns[f].linkage
  PROVE  LinksAsParts(n, p)
  <1>1. /\ p.merged \in Created(p) /\ ReplacedParts(p) \subseteq Parts(p)
        /\ \A f \in ThunkedParts(p) : f \in Parts(p) /\ ThunkOf(p, f) \in Created(p)
    BY ThunksOfParts DEF Created
  <1>2. QED BY <1>1 DEF LinksAsParts

(* planMerge adds symbols for its thunks only. *)
LEMMA LinkedAfterPlan ==
  ASSUME NEW orig, NEW m, NEW P, IsSound(orig, m, P), IsLinked(orig, m, P),
         NEW parts, ArePlannable(m, parts), NEW o \in PlanMerge(m, parts)
  PROVE  IsLinked(orig, o.mod, WithPlan(P, o))
  <1> DEFINE n == o.mod
             Q == WithPlan(P, o)
  <1>1. WellFormed(m) /\ \A p \in P : IsPlanIn(m, p)
    BY DEF IsSound, ArePlansIn
  <1>2. /\ Extends(n, m)
        /\ o.plan # NoPlan => IsNewPlan(n, o.plan, m)
        /\ o.plan = NoPlan => \A f \in DOMAIN n.fns \ DOMAIN m.fns : IsLeftover(n, f)
    BY <1>1, PlanMergeAdds
  <1>3. o.plan # NoPlan => LinksAsParts(n, o.plan)
    <2>1. ASSUME o.plan # NoPlan PROVE \E l : o = Planned(m, parts, l)
      BY <2>1, PlanMergeOutcomes, Zenon
    <2>2. \A l : LinksAsParts(Planned(m, parts, l).mod, Planned(m, parts, l).plan)
      BY <1>1, PlanLinks, Zenon
    <2>3. QED BY <2>1, <2>2
  <1> HIDE DEF n
  <1>4. \A f \in DOMAIN m.fns : f \in DOMAIN n.fns /\ n.fns[f] = m.fns[f]
    BY <1>2 DEF Extends
  <1>5. KeepsSymbols(orig, n)
    BY <1>4 DEF IsLinked, KeepsSymbols
  <1>6. ASSUME NEW g \in DOMAIN n.fns, \A p \in Q : g \notin ThunksOf(p)
        PROVE  IsSymbolOf(orig, n.fns[g])
    <2>1. CASE g \in DOMAIN m.fns
      <3>1. \A p \in P : g \notin ThunksOf(p)
        BY <1>6 DEF WithPlan
      <3>2. QED BY <1>4, <2>1, <3>1 DEF IsLinked, AddsNoSymbol
    <2>2. CASE g \notin DOMAIN m.fns
      <3>1. CASE o.plan = NoPlan
        BY <1>2, <2>2, <3>1 DEF IsLeftover, IsSymbolOf
      <3>2. CASE o.plan # NoPlan
        <4>1. g \in Created(o.plan) /\ g \notin ThunksOf(o.plan)
          BY <1>2, <1>6, <2>2, <3>2 DEF IsNewPlan, WithPlan
        <4>2. QED BY <1>3, <3>2, <4>1 DEF Created, LinksAsParts, IsSymbolOf
      <3>3. QED BY <3>1, <3>2
    <2>3. QED BY <2>1, <2>2
  <1>7. ASSUME NEW p \in P PROVE LinksAsParts(n, p)
    <2>1. \A f \in Parts(p) \cup Created(p) : f \in DOMAIN m.fns
      BY <1>1 DEF IsPlanIn
    <2>2. LinksAsParts(m, p)
      BY DEF IsLinked
    <2>3. QED BY <1>1, <1>4, <2>1, <2>2, LinksStay
  <1>8. \A p \in Q : LinksAsParts(n, p)
    BY <1>3, <1>7 DEF WithPlan
  <1> HIDE DEF Q
  <1>9. QED BY <1>5, <1>6, <1>8, Zenon DEF IsLinked, AddsNoSymbol, n, Q


(* MSAMergePlan::discard takes symbols of thunks only. *)
LEMMA LinkedAfterDiscard ==
  ASSUME NEW orig, NEW m, NEW P, IsSound(orig, m, P), IsLinked(orig, m, P), NEW p \in P,
         \A f \in DOMAIN orig.fns : ~ IsThunk(orig, f)
  PROVE  IsLinked(orig, DiscardPlan(m, p), P \ {p})
  <1> DEFINE n == DiscardPlan(m, p)
             Q == P \ {p}
  <1>1. WellFormed(m) /\ ArePlansIn(m, P) /\ IsPlanIn(m, p) /\ LinksAsParts(m, p)
    BY DEF IsSound, ArePlansIn, IsLinked
  <1>2. IsWithout(n, m, Created(p))
    <2>1. n = Erase(m, Created(p))
      BY DEF DiscardPlan, Created, ThunksOf
    <2>2. QED BY <1>1, <2>1, EraseProperties
  <1> HIDE DEF n
  <1>3. /\ DOMAIN n.fns = DOMAIN m.fns \ Created(p)
        /\ \A f \in DOMAIN n.fns : n.fns[f] = m.fns[f]
    BY <1>2 DEF IsWithout
  <1>4. ASSUME NEW f \in DOMAIN orig.fns, orig.fns[f].linkage = "external"
        PROVE  \E g \in DOMAIN n.fns :
                 n.fns[g].name = orig.fns[f].name /\ n.fns[g].linkage = "external"
    <2>1. PICK g \in DOMAIN m.fns : m.fns[g].name = orig.fns[f].name
                                    /\ m.fns[g].linkage = "external"
      BY <1>4 DEF IsLinked, KeepsSymbols
    <2>2. g # p.merged
      BY <1>1, <2>1 DEF LinksAsParts
    <2>3. g \notin ThunksOf(p)
      BY <1>1, <2>1 DEF IsPlanIn, IsThunk
    <2>4. QED BY <1>3, <2>1, <2>2, <2>3 DEF Created
  <1>5. ASSUME NEW g \in DOMAIN n.fns, \A q \in Q : g \notin ThunksOf(q)
        PROVE  IsSymbolOf(orig, n.fns[g])
    <2>1. \A q \in P : g \notin ThunksOf(q)
      BY <1>3, <1>5 DEF Created
    <2>2. QED BY <1>3, <2>1 DEF IsLinked, AddsNoSymbol
  <1>6. ASSUME NEW q \in Q PROVE LinksAsParts(n, q)
    <2>1. q \in P /\ q # p /\ IsPlanIn(m, q) /\ LinksAsParts(m, q)
      BY <1>1 DEF ArePlansIn, IsLinked
    <2>2. Created(p) \cap Parts(q) = {} /\ Created(p) \cap Created(q) = {}
      BY <1>1, <2>1 DEF ArePlansIn
    <2>3. \A f \in Parts(q) \cup Created(q) : n.fns[f] = m.fns[f]
      BY <1>3, <2>1, <2>2 DEF IsPlanIn
    <2>4. QED BY <2>1, <2>3, LinksStay
  <1>7. KeepsSymbols(orig, n)
    BY <1>4, Zenon DEF KeepsSymbols
  <1> HIDE DEF Q
  <1>8. QED BY <1>5, <1>6, <1>7, Zenon DEF IsLinked, AddsNoSymbol, n, Q

(* applyMerge hands the symbol of each thunked function on to its thunk. *)
LEMMA LinkedAfterApply ==
  ASSUME NEW orig, NEW m, NEW P, IsSound(orig, m, P), IsLinked(orig, m, P), NEW p \in P,
         \A q \in P \ {p} : Parts(q) \cap Parts(p) = {},
         \A f \in DOMAIN orig.fns : ~ IsThunk(orig, f)
  PROVE  IsLinked(orig, ApplyMerge(m, p), P \ {p})
  <1> DEFINE n == ApplyMerge(m, p)
             Q == P \ {p}
  <1>1. /\ WellFormed(m) /\ ArePlansIn(m, P) /\ IsPlanIn(m, p) /\ LinksAsParts(m, p)
        /\ Parts(p) \cup Created(p) \subseteq DOMAIN m.fns
        /\ Created(p) \cap Parts(p) = {} /\ ThunksOf(p) \subseteq Created(p)
    BY DEF IsSound, ArePlansIn, IsLinked, IsPlanIn, Created
  <1>2. MergeApplied(n, m, p)
    BY <1>1, AppliedMerges
  <1> HIDE DEF n
  <1>3. /\ DOMAIN n.fns = DOMAIN m.fns \ Parts(p)
        /\ \A g \in DOMAIN n.fns :
             /\ n.fns[g].linkage = m.fns[g].linkage
             /\ g \in ThunksOf(p) =>
                  \E f \in ThunkedParts(p) : ThunkOf(p, f) = g /\ n.fns[g].name = m.fns[f].name
             /\ g \notin ThunksOf(p) => n.fns[g].name = m.fns[g].name
    BY <1>2 DEF MergeApplied, IsAlike
  <1>4. /\ \A f \in ThunkedParts(p) : f \in Parts(p) /\ ThunkOf(p, f) \in ThunksOf(p)
        /\ \A f \in Parts(p) : f \in ThunkedParts(p) \/ f \in ReplacedParts(p)
        /\ \A f, g \in ThunkedParts(p) : ThunkOf(p, f) = ThunkOf(p, g) => f = g
    <2> DEFINE at(f) == CHOOSE k \in DOMAIN p.parts : p.parts[k] = f
    <2>1. ASSUME NEW f \in ThunkedParts(p)
          PROVE  /\ at(f) \in DOMAIN p.thunks /\ p.parts[at(f)] = f
                 /\ ThunkOf(p, f) = p.thunks[at(f)] /\ ThunkOf(p, f) # None
      <3>1. at(f) \in DOMAIN p.parts /\ p.parts[at(f)] = f
        BY DEF ThunkedParts, Parts, Range
      <3>2. ThunkOf(p, f) \in ThunksOf(p)
        BY <1>1, ThunksOfParts
      <3>3. ThunkOf(p, f) = p.thunks[at(f)]
        BY DEF ThunkOf
      <3>4. QED BY <1>1, <3>1, <3>2, <3>3 DEF IsPlanIn, ThunksOf
    <2> HIDE DEF at
    <2>2. \A f, g \in ThunkedParts(p) : ThunkOf(p, f) = ThunkOf(p, g) => f = g
      <3>1. \A j, k \in DOMAIN p.thunks : p.thunks[j] = p.thunks[k] /\ p.thunks[j] # None => j = k
        BY <1>1 DEF IsPlanIn
      <3>2. QED BY <2>1, <3>1
    <2>3. QED BY <1>1, <2>2, ThunksOfParts
  <1>5. ASSUME NEW f \in DOMAIN orig.fns, orig.fns[f].linkage = "external"
        PROVE  \E g \in DOMAIN n.fns :
                 n.fns[g].name = orig.fns[f].name /\ n.fns[g].linkage = "external"
    <2>1. PICK g \in DOMAIN m.fns : m.fns[g].name = orig.fns[f].name
                                    /\ m.fns[g].linkage = "external"
      BY <1>5 DEF IsLinked, KeepsSymbols
    <2>2. g \notin ThunksOf(p)
      BY <1>1, <2>1 DEF IsPlanIn, IsThunk
    <2>3. CASE g \in Parts(p)
      <3>1. g \in ThunkedParts(p)
        BY <1>1, <1>4, <2>1, <2>3 DEF LinksAsParts
      <3> DEFINE t == ThunkOf(p, g)
      <3>2. t \in ThunksOf(p) /\ t \in DOMAIN n.fns /\ m.fns[t].linkage = m.fns[g].linkage
        BY <1>1, <1>3, <1>4, <3>1 DEF LinksAsParts
      <3> HIDE DEF t
      <3>3. PICK h \in ThunkedParts(p) : ThunkOf(p, h) = t /\ n.fns[t].name = m.fns[h].name
        BY <1>3, <3>2
      <3>4. h = g
        BY <1>4, <3>1, <3>3 DEF t
      <3>5. QED BY <1>3, <2>1, <3>2, <3>3, <3>4
    <2>4. CASE g \notin Parts(p)
      BY <1>3, <2>1, <2>2, <2>4
    <2>5. QED BY <2>3, <2>4
  <1>6. ASSUME AddsNoSymbol(orig, m, P), NEW g \in DOMAIN n.fns, \A q \in Q : g \notin ThunksOf(q)
        PROVE  IsSymbolOf(orig, n.fns[g])
    <2>1. CASE g \in ThunksOf(p)
      <3>1. PICK f \in ThunkedParts(p) : ThunkOf(p, f) = g /\ n.fns[g].name = m.fns[f].name
        BY <1>3, <2>1
      <3>2. f \in DOMAIN m.fns /\ n.fns[g].linkage = m.fns[f].linkage
        BY <1>1, <1>3, <1>4, <3>1 DEF LinksAsParts
      <3>3. \A q \in P : f \notin ThunksOf(q)
        BY <1>1, <1>4 DEF ArePlansIn, Created
      <3>4. IsSymbolOf(orig, m.fns[f])
        BY <1>6, <3>2, <3>3 DEF AddsNoSymbol
      <3>5. QED BY <3>1, <3>2, <3>4 DEF IsSymbolOf
    <2>2. CASE g \notin ThunksOf(p)
      <3>1. g \in DOMAIN m.fns /\ \A q \in P : g \notin ThunksOf(q)
        BY <1>3, <1>6, <2>2
      <3>2. IsSymbolOf(orig, m.fns[g])
        BY <1>6, <3>1 DEF AddsNoSymbol
      <3>3. QED BY <1>3, <2>2, <3>2 DEF IsSymbolOf
    <2>3. QED BY <2>1, <2>2
  <1>7. ASSUME NEW q \in Q PROVE LinksAsParts(n, q)
    <2>1. q \in P /\ q # p /\ IsPlanIn(m, q) /\ LinksAsParts(m, q)
      BY <1>1 DEF ArePlansIn, IsLinked
    <2>2. Created(q) \cap Parts(p) = {} /\ Parts(q) \cap Parts(p) = {}
      BY <1>1, <2>1 DEF ArePlansIn
    <2>3. \A f \in Parts(q) \cup Created(q) : n.fns[f].linkage = m.fns[f].linkage
      BY <1>3, <2>1, <2>2 DEF IsPlanIn
    <2>4. QED BY <2>1, <2>3, LinksStay
  <1>8. KeepsSymbols(orig, n)
    BY <1>5, Zenon DEF KeepsSymbols
  <1>9. AddsNoSymbol(orig, m, P)
    BY DEF IsLinked
  <1> HIDE DEF Q
  <1>10. QED BY <1>6, <1>7, <1>8, <1>9, Zenon DEF IsLinked, AddsNoSymbol, n, Q


(* The steps of an exploration, a manual merge and a replay. *)
LEMMA SymbolsInit == Init => SymbolsInv
  BY DEF Init, SymbolsInv, KeepsSymbols, AddsNoSymbol, IsSymbolOf

LEMMA LinkedIsInv ==
  ASSUME job' = job, IsLinked(job.mod, mod', plans')
  PROVE  SymbolsInv'
  BY DEF SymbolsInv, IsLinked, Pass

LEMMA InvIsLinked ==
  ASSUME job \in Jobs, ~ IsPairwise, SpeculationInv, SymbolsInv
  PROVE  /\ IsSound(job.mod, mod, plans) /\ IsLinked(job.mod, mod, plans)
         /\ WellFormed(mod) /\ WellFormed(job.mod)
         /\ \A f \in DOMAIN job.mod.fns : ~ IsThunk(job.mod, f)
  <1>1. IsSound(job.mod, mod, plans) /\ WellFormed(job.mod)
    BY JobFacts DEF SpeculationInv
  <1>2. Pass \notin {"fastfm", "fmsa"}
    BY DEF IsPairwise, PairwisePasses
  <1>3. IsLinked(job.mod, mod, plans)
    BY <1>2 DEF SymbolsInv, IsLinked
  <1>4. \A f \in DOMAIN job.mod.fns : ~ IsThunk(job.mod, f)
    BY MergingPassesAssumption DEF IsJob, IsThunk
  <1>5. QED BY <1>1, <1>3, <1>4 DEF IsSound

LEMMA SymbolsAfterPlan ==
  WorkInv /\ SpeculationInv /\ SymbolsInv /\ Plan => SymbolsInv'
  <1> SUFFICES ASSUME WorkInv, SpeculationInv, SymbolsInv, Plan PROVE SymbolsInv'
    OBVIOUS
  <1>1. PICK S \in SUBSET candidates :
          /\ Cardinality(S) \in 2 .. MaxMergeSize
          /\ \E parts \in SetToSeqs(S) : \E o \in PlanMerge(mod, parts) :
               /\ mod' = o.mod
               /\ plans' = IF o.plan = NoPlan THEN plans ELSE plans \cup {o.plan}
    BY DEF Plan
  <1>2. PICK parts \in SetToSeqs(S) : \E o \in PlanMerge(mod, parts) :
               /\ mod' = o.mod
               /\ plans' = IF o.plan = NoPlan THEN plans ELSE plans \cup {o.plan}
    BY <1>1
  <1>3. PICK o \in PlanMerge(mod, parts) : mod' = o.mod /\ plans' = WithPlan(plans, o)
    BY <1>2 DEF WithPlan
  <1>4. Pass = "explore" /\ job' = job /\ job \in Jobs /\ ~ IsPairwise
    BY DEF Plan, IsPairwise, PairwisePasses, Pass, WorkInv, JobInv
  <1>5. IsSequence(parts) /\ Distinct(parts) /\ Range(parts) = S
    <2>1. IsFiniteSet(S)
      BY FiniteIds DEF WorkInv, IdsInv
    <2>2. QED BY <1>1, <2>1, PlansOfCandidates, PermutationProperties
  <1>6. ArePlannable(mod, parts)
    BY <1>4, <1>5 DEF ArePlannable, MayBePlanned, SpeculationInv, ExploreInv
  <1>7. IsLinked(job.mod, o.mod, WithPlan(plans, o))
    BY <1>4, <1>6, InvIsLinked, LinkedAfterPlan
  <1>8. QED BY <1>3, <1>4, <1>7, LinkedIsInv

LEMMA SymbolsAfterDiscard ==
  WorkInv /\ SpeculationInv /\ SymbolsInv /\ (Discard \/ Apply) => SymbolsInv'
  <1> SUFFICES ASSUME WorkInv, SpeculationInv, SymbolsInv, Discard \/ Apply PROVE SymbolsInv'
    OBVIOUS
  <1>1. Pass = "explore" /\ job' = job /\ job \in Jobs /\ ~ IsPairwise
    BY DEF Discard, Apply, IsPairwise, PairwisePasses, Pass, WorkInv, JobInv
  <1>2. PICK p \in plans :
          /\ \/ mod' = DiscardPlan(mod, p)
             \/ mod' = ApplyMerge(mod, p) /\ \A q \in plans \ {p} : Parts(q) \cap Parts(p) = {}
          /\ plans' = plans \ {p}
    BY DEF Discard, Apply, IsUncontested
  <1>3. /\ IsSound(job.mod, mod, plans) /\ IsLinked(job.mod, mod, plans)
        /\ \A f \in DOMAIN job.mod.fns : ~ IsThunk(job.mod, f)
    BY <1>1, InvIsLinked
  <1>4. IsLinked(job.mod, mod', plans')
    BY <1>2, <1>3, LinkedAfterDiscard, LinkedAfterApply
  <1>5. QED BY <1>1, <1>4, LinkedIsInv

LEMMA SymbolsAfterPlanManually ==
  WorkInv /\ SpeculationInv /\ SymbolsInv /\ PlanManually => SymbolsInv'
  <1> SUFFICES ASSUME WorkInv, SpeculationInv, SymbolsInv, PlanManually PROVE SymbolsInv'
    OBVIOUS
  <1> DEFINE parts == Found(job.names)
  <1>1. Pass = "manual" /\ job' = job /\ ~ IsPairwise /\ job \in Jobs
    BY DEF PlanManually, IsPairwise, PairwisePasses, Pass, WorkInv, JobInv
  <1>2. PICK o \in PlanMerge(mod, parts) :
          \/ /\ mod' = o.mod
             /\ plans = {} \/ o.plan = NoPlan
             /\ plans' = IF o.plan = NoPlan THEN plans ELSE {o.plan}
          \/ \E worse \in plans \cup {o.plan} :
               /\ plans # {} /\ o.plan # NoPlan
               /\ mod' = DiscardPlan(o.mod, worse)
               /\ plans' = (plans \cup {o.plan}) \ {worse}
    BY DEF PlanManually
  <1> HIDE DEF parts
  <1>3. AreNames(job.mod, job.names) /\ Distinct(job.names)
    BY <1>1, MergingPassesAssumption DEF IsJob, AreNames, Distinct
  <1>4. ArePlannable(mod, parts)
    BY <1>1, <1>3, FoundMayBePlanned DEF parts, ArePlannable
  <1>5. ASSUME NEW p \in plans PROVE Created(p) \cap Range(parts) = {}
    <2>1. \A f \in Created(p) : IsMerged(mod, f) \/ IsThunk(mod, f)
      BY <1>1 DEF SpeculationInv, IsSound, ArePlansIn, IsPlanIn, Created
    <2>2. \A i \in DOMAIN job.names : /\ ~ IsPrefix(ThunkPrefix, job.names[i])
                                      /\ ~ IsPrefix(MergePrefix, job.names[i])
      BY <1>1, MergingPassesAssumption DEF IsJob
    <2>3. \A f \in Range(parts) : mod.fns[f].name \in Range(job.names)
      BY <1>1, <1>3, FoundMayBePlanned DEF parts
    <2>4. \A f \in Range(parts) : ~ IsMerged(mod, f) /\ ~ IsThunk(mod, f)
      BY <2>2, <2>3 DEF Range, IsMerged, IsThunk
    <2>5. QED BY <2>1, <2>4
  <1>6. /\ IsSound(job.mod, o.mod, WithPlan(plans, o))
        /\ IsLinked(job.mod, o.mod, WithPlan(plans, o))
        /\ \A f \in DOMAIN job.mod.fns : ~ IsThunk(job.mod, f)
    BY <1>1, <1>4, <1>5, PlanOutcome, InvIsLinked, LinkedAfterPlan
  <1>7. CASE /\ mod' = o.mod
             /\ plans = {} \/ o.plan = NoPlan
             /\ plans' = IF o.plan = NoPlan THEN plans ELSE {o.plan}
    <2>1. plans' = WithPlan(plans, o)
      BY <1>7 DEF WithPlan
    <2>2. QED BY <1>1, <1>6, <1>7, <2>1, LinkedIsInv
  <1>8. CASE \E worse \in plans \cup {o.plan} :
               /\ plans # {} /\ o.plan # NoPlan
               /\ mod' = DiscardPlan(o.mod, worse)
               /\ plans' = (plans \cup {o.plan}) \ {worse}
    <2>1. PICK worse \in plans \cup {o.plan} :
               /\ o.plan # NoPlan
               /\ mod' = DiscardPlan(o.mod, worse)
               /\ plans' = (plans \cup {o.plan}) \ {worse}
      BY <1>8
    <2>2. WithPlan(plans, o) = plans \cup {o.plan}
      BY <2>1 DEF WithPlan
    <2>3. IsLinked(job.mod, mod', plans')
      BY <1>6, <2>1, <2>2, LinkedAfterDiscard
    <2>4. QED BY <1>1, <2>3, LinkedIsInv
  <1>9. QED BY <1>2, <1>7, <1>8

LEMMA SymbolsAfterApplyManually ==
  WorkInv /\ SpeculationInv /\ SymbolsInv /\ ApplyManually => SymbolsInv'
  <1> SUFFICES ASSUME WorkInv, SpeculationInv, SymbolsInv, ApplyManually PROVE SymbolsInv'
    OBVIOUS
  <1>1. Pass = "manual" /\ job' = job /\ job \in Jobs /\ ~ IsPairwise /\ plans' = {}
    BY DEF ApplyManually, IsPairwise, PairwisePasses, Pass, WorkInv, JobInv
  <1>2. PICK p \in plans : mod' = ApplyMerge(mod, p)
    BY DEF ApplyManually
  <1>3. plans \ {p} = {}
    BY <1>1 DEF SpeculationInv, ManualInv
  <1>4. /\ IsSound(job.mod, mod, plans) /\ IsLinked(job.mod, mod, plans)
        /\ \A f \in DOMAIN job.mod.fns : ~ IsThunk(job.mod, f)
    BY <1>1, InvIsLinked
  <1>5. IsLinked(job.mod, mod', plans')
    BY <1>1, <1>2, <1>3, <1>4, LinkedAfterApply
  <1>6. QED BY <1>1, <1>5, LinkedIsInv

LEMMA SymbolsAfterReplayMerge ==
  WorkInv /\ SpeculationInv /\ SymbolsInv /\ ReplayMerge => SymbolsInv'
  <1> SUFFICES ASSUME WorkInv, SpeculationInv, SymbolsInv, ReplayMerge PROVE SymbolsInv'
    OBVIOUS
  <1>1. Pass = "replay" /\ UNCHANGED <<job, plans>> /\ ~ IsPairwise /\ job \in Jobs
    BY DEF ReplayMerge, IsPairwise, PairwisePasses, Pass, WorkInv, JobInv
  <1>2. PICK o \in PlanMerge(mod, TakenSources) :
          IF o.plan = NoPlan THEN mod' = o.mod ELSE mod' = ApplyMerge(o.mod, o.plan)
    BY DEF ReplayMerge, Count, LeftSources, TakenSources
  <1>3. plans = {} /\ Distinct(front) /\ \A f \in Range(front) : MayBePlanned(mod, f)
    BY <1>1 DEF SpeculationInv, ReplayInv
  <1>4. front \in Seq(Ids(mod)) /\ Len(front) >= 2
    BY DEF WorkInv, IdsInv, ReplayMerge
  <1>5. ArePlannable(mod, TakenSources)
    <2>1. /\ TakenSources \in Seq(Ids(mod)) /\ Distinct(TakenSources)
          /\ Range(TakenSources) \subseteq Range(front)
      BY <1>3, <1>4, SourcesAreApart
    <2>2. IsSequence(TakenSources)
      BY <2>1, SequencesOf
    <2>3. QED BY <1>3, <2>1, <2>2 DEF ArePlannable
  <1>6. /\ IsSound(job.mod, o.mod, WithPlan({}, o))
        /\ IsLinked(job.mod, o.mod, WithPlan({}, o))
        /\ \A f \in DOMAIN job.mod.fns : ~ IsThunk(job.mod, f)
    BY <1>1, <1>3, <1>5, PlanOutcome, InvIsLinked, LinkedAfterPlan
  <1>7. IsLinked(job.mod, mod', {})
    <2>1. CASE o.plan = NoPlan
      BY <1>2, <1>6, <2>1 DEF WithPlan
    <2>2. CASE o.plan # NoPlan
      <3>1. WithPlan({}, o) = {o.plan} /\ mod' = ApplyMerge(o.mod, o.plan)
        BY <1>2, <2>2 DEF WithPlan
      <3>2. IsLinked(job.mod, mod', {o.plan} \ {o.plan})
        BY <1>6, <3>1, LinkedAfterApply
      <3>3. QED BY <3>2
    <2>3. QED BY <2>1, <2>2
  <1>8. QED BY <1>1, <1>3, <1>7, LinkedIsInv

(* A pairwise pass keeps every external function where it is; func-merging  *)
(* keeps every linkage.                                                    *)
LEMMA SymbolsAfterAcceptPair ==
  WorkInv /\ SpeculationInv /\ PairwiseInv /\ SymbolsInv /\ AcceptPair => SymbolsInv'
  <1> SUFFICES ASSUME WorkInv, SpeculationInv, PairwiseInv, SymbolsInv, AcceptPair
               PROVE  SymbolsInv'
    OBVIOUS
  <1> DEFINE f2 == Last(rank)
  <1>1. /\ IsPairwise /\ rank # <<>> /\ rank' = RankAfter(TRUE) /\ plans' = plans /\ job' = job
        /\ mod' \in MergePair(PairPass, mod, current, f2)
    BY DEF AcceptPair
  <1>2. f2 \in Range(rank)
    <2>1. rank \in Seq(Ids(mod))
      BY DEF WorkInv, IdsInv
    <2>2. QED BY <1>1, <2>1, TrialShortensRank
  <1> HIDE DEF f2
  <1>3. /\ WellFormed(mod) /\ IsLive(mod, current) /\ f2 \in DOMAIN mod.fns /\ current # f2
        /\ plans = {}
    BY <1>1, <1>2 DEF PairwiseInv, SpeculationInv, IsSound, IsLive
  <1>4. PairPass \in {"func-merging", "fastfm", "fmsa"}
    BY <1>1 DEF PairPass, IsPairwise, PairwisePasses
  <1>5. IsMergedPair(mod', mod, current, f2, PairPass)
    BY <1>1, <1>3, <1>4, AfterPair
  <1>6. KeepsSymbols(job.mod, mod')
    <2>1. \A g \in DOMAIN mod.fns : mod.fns[g].linkage = "external" =>
            g \in DOMAIN mod'.fns /\ mod'.fns[g].linkage = "external"
                                  /\ mod'.fns[g].name = mod.fns[g].name
      BY <1>5 DEF IsMergedPair
    <2>2. QED BY <2>1 DEF SymbolsInv, KeepsSymbols
  <1>7. ASSUME Pass \notin {"fastfm", "fmsa"} PROVE AddsNoSymbol(job.mod, mod', {})
    <2>1. PairPass = "func-merging"
      BY <1>1, <1>7 DEF PairPass, IsPairwise, PairwisePasses
    <2>2. \A g \in DOMAIN mod'.fns :
            \/ mod'.fns[g].linkage = "internal"
            \/ /\ g \in DOMAIN mod.fns /\ mod'.fns[g].name = mod.fns[g].name
               /\ mod'.fns[g].linkage = mod.fns[g].linkage
      BY <1>5, <2>1 DEF IsMergedPair
    <2>3. \A g \in DOMAIN mod.fns : IsSymbolOf(job.mod, mod.fns[g])
      BY <1>3, <1>7 DEF SymbolsInv, AddsNoSymbol
    <2>4. ASSUME NEW g \in DOMAIN mod'.fns PROVE IsSymbolOf(job.mod, mod'.fns[g])
      BY <2>2, <2>3 DEF IsSymbolOf
    <2>5. QED BY <2>4, Zenon DEF AddsNoSymbol
  <1>8. QED BY <1>1, <1>3, <1>6, <1>7 DEF SymbolsInv, Pass

LEMMA SymbolsNext ==
  WorkInv /\ SpeculationInv /\ PairwiseInv /\ SymbolsInv /\ [Next]_vars => SymbolsInv'
  <1> SUFFICES ASSUME WorkInv, SpeculationInv, PairwiseInv, SymbolsInv, [Next]_vars
               PROVE  SymbolsInv'
    OBVIOUS
  <1>1. CASE UNCHANGED <<job, mod, plans>>
    BY <1>1 DEF SymbolsInv, Pass
  <1>2. CASE \/ SkipRemark \/ StopReplay \/ ReplayRemark \/ NextCandidate \/ OnlyCandidate
             \/ RejectPair \/ Return \/ UNCHANGED vars
    BY <1>1, <1>2 DEF SkipRemark, StopReplay, ReplayRemark, NextCandidate, OnlyCandidate,
                      RejectPair, Return, vars
  <1>3. QED BY <1>2, SymbolsAfterPlan, SymbolsAfterDiscard, SymbolsAfterPlanManually,
               SymbolsAfterApplyManually, SymbolsAfterReplayMerge, SymbolsAfterAcceptPair DEF Next

(* Whatever was merged, planned or given up, the linker finds an external   *)
(* function under the name of each there was: applyMerge lets a thunk take  *)
(* the name when it erases the function (MSAThunkFunction), and a pairwise  *)
(* pass leaves the function where it is.  No function becomes visible that  *)
(* was not, but for the thunks of pending plans, and in fastfm and fmsa,    *)
(* which export what they merge.                                           *)
THEOREM SymbolsStay == TriesOnce => (Spec => []SymbolsAreKept)
  <1> SUFFICES ASSUME TriesOnce PROVE Spec => []SymbolsAreKept
    OBVIOUS
  <1>1. SymbolsInv => SymbolsAreKept
    <2> SUFFICES ASSUME SymbolsInv PROVE SymbolsAreKept
      OBVIOUS
    <2>1. ASSUME NEW f \in DOMAIN Original, Original[f].linkage = "external"
          PROVE  \E g \in Named(mod, Original[f].name) : mod.fns[g].linkage = "external"
      BY <2>1 DEF SymbolsInv, KeepsSymbols, Original, Named
    <2>2. ASSUME Pass \notin {"fastfm", "fmsa"}, NEW g \in DOMAIN mod.fns \ PendingThunks,
                 ~ IsLocal(mod.fns[g])
          PROVE  \E f \in DOMAIN Original : /\ Original[f].name = mod.fns[g].name
                                           /\ Original[f].linkage = mod.fns[g].linkage
      <3>1. \A p \in plans : g \notin ThunksOf(p)
        BY DEF ThunksOf, PendingThunks
      <3>2. IsSymbolOf(job.mod, mod.fns[g])
        BY <2>2, <3>1 DEF SymbolsInv, AddsNoSymbol
      <3>3. QED BY <2>2, <3>2 DEF IsSymbolOf, IsLocal, Original
    <2>3. QED BY <2>1, <2>2, Zenon DEF SymbolsAreKept
  <1>2. Spec => []SymbolsInv
    BY SymbolsNext, SymbolsInit, WorkIsKept, SpeculationIsKept, PairwiseIsKept, PTL DEF Spec
  <1>3. QED BY <1>1, <1>2, PTL

=============================================================================
