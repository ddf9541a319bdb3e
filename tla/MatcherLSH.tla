---------------------------- MODULE MatcherLSH ----------------------------
(***************************************************************************)
(* MatcherLSH (FunctionMerging.cpp): the candidates for merging, and a     *)
(* hash table whose buckets hold, for every band of its fingerprint, the   *)
(* candidates that share it.  Functions that share a bucket with a         *)
(* candidate are its matches.                                              *)
(*                                                                         *)
(* generateBands removes repeated bands from a fingerprint, but the loops  *)
(* over the bands still count to their full number and read past the end   *)
(* of the vector, where std::unique left the values that were there.       *)
(*                                                                         *)
(* The module has the operations of the matcher, of which                  *)
(* MatchFinderExploration makes its actions.                               *)
(***************************************************************************)
EXTENDS Integers, Sequences, FiniteSets, SequencesExt, FiniteSetsExt, AscendingItems

CONSTANTS
  Fn,                   \* the functions that may be candidates
  Key,                  \* the band hashes, naturals
  Bands,                \* number of bands
  BucketSizeCap,        \* the functions of a bucket that are looked at
  ExplorationThreshold  \* the matches that are returned

ASSUME MatcherAssumption ==
  /\ Key \subseteq Nat /\ Key # {}
  /\ Bands \in Nat \ {0}
  /\ BucketSizeCap \in Nat
  /\ ExplorationThreshold \in Nat \ {0}

VARIABLES
  candidates,  \* the candidates in the list
  recent,      \* those added since the list was sorted, the newest first
  bandHash,    \* bandHash[f]: the bands of f that are read
  lsh,         \* the buckets
  cache,       \* candidates remove_candidate can find
  matches      \* the matches of the candidate returned last

matcherVars == <<candidates, recent, bandHash, lsh, cache, matches>>

Count(k, s) == Cardinality({i \in DOMAIN s : s[i] = k})

(* The bands that are read: the sorted hashes without repeated ones, and    *)
(* behind them, where std::unique leaves it, the tail of the sorted vector. *)
Uniqued(s) ==
  LET distinct == Ascending(ToSet(s))
  IN distinct \o SubSeq(s, Len(distinct) + 1, Bands)

Fingerprints ==
  {Uniqued(s) : s \in {t \in [1 .. Bands -> Key] :
                         \A i \in 1 .. Bands - 1 : t[i] <= t[i + 1]}}

MatcherInit ==
  /\ candidates = {}
  /\ recent = << >>
  /\ bandHash = [f \in Fn |-> << >>]
  /\ lsh = [k \in Key |-> << >>]
  /\ cache = {}
  /\ matches = {}

(* The buckets after f with bands h is pushed to the bucket of each band.  *)
Pushed(buckets, f, h) ==
  [k \in Key |-> buckets[k] \o [i \in 1 .. Count(k, h) |-> f]]

(* One pass of remove_candidate over a bucket: after an erase the loop's    *)
(* index moves on, so the element that took the place is not looked at.    *)
ErasePass(bucket, f) ==
  LET erased[i \in 0 .. Len(bucket)] ==
        i > 0 /\ bucket[i] = f /\ ~ erased[i - 1]
  IN Items(bucket, {i \in DOMAIN bucket : ~ erased[i]})

(* Mutant: one pass over a bucket, however often f was pushed to it. *)
ErasedOncePerBucket(buckets, f) ==
  [k \in Key |-> IF k \in ToSet(bandHash[f]) THEN ErasePass(buckets[k], f)
                 ELSE buckets[k]]

(* The buckets after remove_candidate(f): one pass for every band of f. *)
Erased(buckets, f) ==
  [k \in Key |->
     LET passes == Count(k, bandHash[f])
         after[i \in 0 .. passes] ==
           IF i = 0 THEN buckets[k] ELSE ErasePass(after[i - 1], f)
     IN after[passes]]

(* remove_candidate(f) for F1. *)
RemoveCandidate(f) ==
  /\ candidates' = candidates \ {f}
  /\ recent' = Items(recent, {i \in DOMAIN recent : recent[i] # f})
  /\ bandHash' = [bandHash EXCEPT ![f] = << >>]
  /\ lsh' = Erased(lsh, f)

(* Mutant: the functions in R stay in the matcher. *)
ReplaceCandidatesNot(R, f, h) ==
  /\ candidates' = candidates \cup {f}
  /\ recent' = <<f>> \o recent
  /\ bandHash' = [bandHash EXCEPT ![f] = h]
  /\ lsh' = Pushed(lsh, f, h)

(* remove_candidate for the functions in R, then add_candidate for f, whose *)
(* bands are h.                                                            *)
ReplaceCandidates(R, f, h) ==
  /\ candidates' = (candidates \ R) \cup {f}
  /\ recent' = <<f>> \o Items(recent, {i \in DOMAIN recent : recent[i] \notin R})
  /\ bandHash' = [g \in Fn |-> IF g = f THEN h
                               ELSE IF g \in R THEN << >> ELSE bandHash[g]]
  /\ lsh' = Pushed(FoldSet(LAMBDA g, b : Erased(b, g), lsh, R), f, h)

(* add_candidate(f) before the first next_candidate, which sorts the list. *)
IndexCandidate(f, h) ==
  /\ candidates' = candidates \cup {f}
  /\ bandHash' = [bandHash EXCEPT ![f] = h]
  /\ lsh' = Pushed(lsh, f, h)
  /\ UNCHANGED <<recent, cache, matches>>

(* Other candidates among the first BucketSizeCap of the buckets of f. *)
Colliding(f) ==
  (UNION {{lsh[k][j] : j \in {i \in DOMAIN lsh[k] : i <= BucketSizeCap}} :
            k \in ToSet(bandHash[f])}) \ {f}

(* next_candidate: the front of the list.  The sources were sorted by the   *)
(* magnitude of their fingerprints, in an order that is left open.         *)
IsFront(f) ==
  IF recent # << >> THEN f = Head(recent) ELSE f \in candidates

(* Mutant: the matches are not put in the cache. *)
CachedAlone(f, seen) == {f}

(* What update_matches puts in the cache. *)
Cached(f, seen) == {f} \cup seen

(* The matches of f in update_matches.  Those colliding candidates are seen *)
(* whose types can be merged with f's, until the ranking threshold; the    *)
(* matches are the closest of those within the ranking distance.           *)
UpdateMatches(f, seen, ranked) ==
  /\ seen \subseteq Colliding(f)
  /\ ranked \subseteq seen
  /\ Cardinality(ranked) <= ExplorationThreshold
  /\ cache' = Cached(f, seen)
  /\ matches' = ranked

(***************************************************************************)
(* Properties                                                              *)
(***************************************************************************)
MatcherTypeOK ==
  /\ candidates \in SUBSET Fn
  /\ recent \in Seq(candidates)
  /\ bandHash \in [Fn -> Seq(Key)]
  /\ lsh \in [Key -> Seq(Fn)]
  /\ cache \in SUBSET Fn
  /\ matches \in SUBSET cache

(* The buckets hold iterators into the list.  A candidate is in the bucket  *)
(* of every band as often as the band occurs, and a function that is not a *)
(* candidate any more is in none: its list node is freed.                  *)
BucketsHoldCandidates ==
  \A f \in Fn, k \in Key :
    Count(f, lsh[k]) = IF f \in candidates THEN Count(k, bandHash[f]) ELSE 0

(* "no need to place twice in the same bucket" *)
NotTwiceInABucket == \A k \in Key : IsInjective(lsh[k])
=============================================================================
