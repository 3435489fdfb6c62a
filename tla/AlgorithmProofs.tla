--------------------------- MODULE AlgorithmProofs --------------------------
(***************************************************************************)
(* Proofs about the pure algorithms: Fleet, for any configuration,         *)
(* account, hash and number of processes; ParallelRead, for any segment    *)
(* length, number of reads and whatever each of them sees; and Pacing, for *)
(* every polling policy.                                                   *)
(***************************************************************************)
EXTENDS Fleet, ParallelRead, Pacing,
        FiniteSetTheorems, WellFoundedInduction, NaturalsInduction, TLAPS

-----------------------------------------------------------------------------
(* Fleet: shards split a fleet, and each instance is read one way.         *)

(* A nonempty set of naturals has a least element.                         *)
LEMMA LeastExists ==
    ASSUME NEW S \in SUBSET Nat, S # {}
    PROVE  \E x \in S : \A y \in S : x <= y
<1>1. PICK x \in S : \A y \in S : <<y, x>> \notin OpToRel(<, Nat)
  BY NatLessThanWellFounded, WFMin, Zenon
<1>2. \A y \in S : ~(y < x)
  BY <1>1, Zenon DEF OpToRel
<1>3. \A y \in S : x <= y
  BY <1>2
<1> QED
  BY <1>3

Weights(n, top) == [1 .. n -> 0 .. top]

Wins(w, n, j) ==
    /\ \A k \in 1 .. n : w[k] <= w[j]
    /\ \A k \in 1 .. (j - 1) : w[k] < w[j]

LEMMA SomeoneWins ==
    ASSUME NEW n \in Nat \ {0}, NEW top \in Nat, NEW w \in Weights(n, top)
    PROVE  \E j \in 1 .. n : Wins(w, n, j)
<1> DEFINE gaps == {top - w[k] : k \in 1 .. n}
<1>1. \A k \in 1 .. n : w[k] \in 0 .. top
  BY DEF Weights
<1>2. gaps \in SUBSET Nat /\ gaps # {}
  <2>1. 1 \in 1 .. n
    OBVIOUS
  <2> QED
    BY <1>1, <2>1
<1>3. PICK g \in gaps : \A y \in gaps : g <= y
  BY <1>2, LeastExists
<1> DEFINE best == {k \in 1 .. n : top - w[k] = g}
<1>4. best \in SUBSET Nat /\ best # {}
  BY <1>3
<1>5. PICK j \in best : \A k \in best : j <= k
  BY <1>4, LeastExists
<1>6. \A k \in 1 .. n : w[k] <= w[j]
  <2> SUFFICES ASSUME NEW k \in 1 .. n PROVE w[k] <= w[j]
    OBVIOUS
  <2>1. g <= top - w[k] /\ g = top - w[j]
    BY <1>3, <1>5
  <2> QED
    BY <1>1, <1>5, <2>1
<1>7. \A k \in 1 .. (j - 1) : w[k] < w[j]
  <2> SUFFICES ASSUME NEW k \in 1 .. (j - 1) PROVE w[k] < w[j]
    OBVIOUS
  <2>1. k \in 1 .. n /\ k \notin best
    BY <1>5
  <2>2. w[k] # w[j]
    BY <1>1, <1>5, <2>1
  <2> QED
    BY <1>1, <1>5, <1>6, <2>1, <2>2
<1> QED
  BY <1>5, <1>6, <1>7 DEF Wins

LEMMA OneWins ==
    ASSUME NEW n \in Nat, NEW top \in Nat, NEW w \in Weights(n, top),
           NEW i \in 1 .. n, Wins(w, n, i), NEW j \in 1 .. n, Wins(w, n, j)
    PROVE  i = j
<1>1. w[i] \in Int /\ w[j] \in Int /\ w[i] = w[j]
  BY DEF Wins, Weights
<1>2. ~(i < j) /\ ~(j < i)
  BY <1>1 DEF Wins
<1> QED
  BY <1>2

LEMMA WinnerWins ==
    ASSUME NEW n \in Nat \ {0}, NEW top \in Nat, NEW w \in Weights(n, top)
    PROVE  Winner(w, n) \in 1 .. n /\ Wins(w, n, Winner(w, n))
<1>1. \E j \in 1 .. n : Wins(w, n, j)
  BY SomeoneWins
<1>2. Winner(w, n) = CHOOSE j \in 1 .. n : Wins(w, n, j)
  BY DEF Winner, Wins
<1> QED
  BY <1>1, <1>2

(* Adding a process moves instances to it only (shard.go:4-5), for any     *)
(* hash.                                                                   *)
THEOREM NewcomerTakes ==
    ASSUME NEW n \in Nat \ {0}, NEW top \in Nat, NEW w \in Weights(n + 1, top)
    PROVE  OnlyTheNewcomerTakes(n, w)
<1> DEFINE v == Winner(w, n + 1)
<1>1. v \in 1 .. (n + 1) /\ Wins(w, n + 1, v)
  BY WinnerWins
<1>2. CASE v = n + 1
  BY <1>2 DEF OnlyTheNewcomerTakes
<1>3. CASE v # n + 1
  <2>1. v \in 1 .. n
    BY <1>1, <1>3
  <2>2. Wins(w, n, v)
    BY <1>1 DEF Wins
  <2>3. [k \in 1 .. n |-> w[k]] \in Weights(n, top)
    BY DEF Weights
  <2> DEFINE u == [k \in 1 .. n |-> w[k]]
  <2>4. ASSUME NEW j \in 1 .. n PROVE Wins(u, n, j) <=> Wins(w, n, j)
    <3>1. \A k \in 1 .. n : u[k] = w[k]
      OBVIOUS
    <3>2. 1 .. (j - 1) \subseteq 1 .. n
      OBVIOUS
    <3> HIDE DEF u
    <3> QED
      BY <3>1, <3>2 DEF Wins
  <2>5. Winner(w, n) = CHOOSE j \in 1 .. n : Wins(w, n, j)
    BY DEF Winner, Wins
  <2>6. Winner(w, n) \in 1 .. n /\ Wins(w, n, Winner(w, n))
    BY <2>1, <2>2, <2>5
  <2>7. Winner(w, n) = v
    BY <2>1, <2>2, <2>3, <2>4, <2>6, OneWins
  <2> QED
    BY <2>7 DEF OnlyTheNewcomerTakes
<1> QED
  BY <1>2, <1>3

-----------------------------------------------------------------------------
(* n processes ingest disjoint parts of what one unsharded process would,  *)
(* and all of it (config.go, Runtime.Shard), for any hash of the keys.     *)
THEOREM ShardsSplitTheFleet ==
    ASSUME NEW rds, NEW sources, NEW n \in 1 .. MaxShards, NEW top \in Nat, NEW Keys,
           IsFiniteSet(UNION {Taken(rds, sources, i) : i \in DOMAIN sources}),
           \A i \in DOMAIN sources : \A s \in Taken(rds, sources, i) : Key(s) \in Keys,
           NEW weigh \in [Keys -> Weights(n, top)]
    PROVE  SharesTile(rds, sources, n, weigh)
<1> DEFINE all      == UNION {Taken(rds, sources, i) : i \in DOMAIN sources}
           shard(i) == [index |-> i, count |-> n]
<1>0. n \in Nat \ {0}
  BY DEF MaxShards
<1>1. \A s \in all : weigh[Key(s)] \in Weights(n, top)
  OBVIOUS
<1>2. ASSUME NEW s \in all, NEW i \in 1 .. n
      PROVE  Owns(shard(i), weigh[Key(s)]) <=> Winner(weigh[Key(s)], n) = i
  <2>1. Winner(weigh[Key(s)], n) \in 1 .. n
    BY <1>0, <1>1, <1>2, WinnerWins
  <2> HIDE DEF all
  <2> QED
    BY <1>0, <1>2, <2>1 DEF Owns
<1>3. ASSUME NEW s \in all PROVE Owns(AllOfIt, weigh[Key(s)])
  BY DEF Owns, AllOfIt
<1>4. \A i \in 1 .. n :
        Share(rds, sources, shard(i), weigh) = {s \in all : Winner(weigh[Key(s)], n) = i}
  BY <1>2, Zenon DEF Share
<1>5. Share(rds, sources, AllOfIt, weigh) = all
  BY <1>3, Zenon DEF Share
<1>6. \A s \in all : Winner(weigh[Key(s)], n) \in 1 .. n
  BY <1>0, <1>1, WinnerWins
<1> HIDE DEF all
<1>7. \A i, j \in 1 .. n : i # j =>
        Share(rds, sources, shard(i), weigh) \intersect Share(rds, sources, shard(j), weigh) = {}
  BY <1>4
<1>8. UNION {Share(rds, sources, shard(i), weigh) : i \in 1 .. n} = all
  <2>1. ASSUME NEW s \in all
        PROVE  \E i \in 1 .. n : s \in Share(rds, sources, shard(i), weigh)
    BY <1>4, <1>6
  <2>2. \A i \in 1 .. n : Share(rds, sources, shard(i), weigh) \subseteq all
    BY <1>4
  <2> HIDE DEF shard
  <2> QED
    BY <2>1, <2>2, Zenon
<1>9. ASSUME Resolves(rds, sources, AllOfIt, weigh), NEW i \in 1 .. n
      PROVE  Resolves(rds, sources, shard(i), weigh)
  <2>1. /\ Cardinality(Share(rds, sources, shard(i), weigh)) <= Cardinality(all)
        /\ Cardinality(Share(rds, sources, shard(i), weigh)) \in Nat
        /\ Cardinality(all) \in Nat /\ Cardinality(all) <= MaxInstances
    <3>1. Share(rds, sources, shard(i), weigh) \subseteq all
      BY <1>4
    <3>2. IsFiniteSet(all)
      BY DEF all
    <3> QED
      BY <1>5, <1>9, <3>1, <3>2, FS_Subset, FS_CardinalityType DEF Resolves
  <2>2. IsShard(shard(i))
    BY DEF IsShard, MaxShards
  <2> HIDE DEF shard
  <2> QED
    BY <1>9, <2>1, <2>2 DEF Resolves, MaxInstances
<1> QED
  BY <1>5, <1>7, <1>8, <1>9, Zenon DEF SharesTile

LEMMA OffersOnce ==
    ASSUME NEW rds, NEW src,
           \A a, b \in rds[src.role] : a.region = b.region /\ a.id = b.id => a = b,
           NEW s \in Offers(rds, src), NEW t \in Offers(rds, src), Key(s) = Key(t)
    PROVE  s = t
<1>1. s.id = t.id
  BY DEF Key
<1>2. CASE s.id \in src.instances
  <2>1. s \in Listed(rds, src) /\ t \in Listed(rds, src)
    BY <1>1, <1>2 DEF Offers
  <2> QED
    BY <1>1, <2>1 DEF Listed, InstanceSpec
<1>3. CASE s.id \notin src.instances
  <2> DEFINE found == ListInstances(rds[src.role], src.region, src.engine,
                                    src.discover.tags, src.discover.exclude)
  <2>1. s \in Discovered(rds, src) /\ t \in Discovered(rds, src)
    BY <1>1, <1>3 DEF Offers, Listed, InstanceSpec
  <2>2. PICK a \in found : s = InstanceSpec(src, a.id, NormalizeEngine(a.api))
    BY <2>1 DEF Discovered
  <2>3. PICK b \in found : t = InstanceSpec(src, b.id, NormalizeEngine(b.api))
    BY <2>1 DEF Discovered
  <2>4. \A db \in found : db \in rds[src.role] /\ db.region = src.region
    BY DEF ListInstances
  <2>5. a.id = s.id /\ b.id = t.id
    BY <2>2, <2>3 DEF InstanceSpec
  <2> QED
    BY <1>1, <2>2, <2>3, <2>4, <2>5
<1> QED
  BY <1>2, <1>3

(* Each instance is ingested once, read the way the first source that      *)
(* offers it says, if no account has an id twice in a region.              *)
THEOREM InstancesAreReadOnce ==
    ASSUME NEW rds, NEW sources, DOMAIN sources \subseteq Nat \ {0}, NEW shard, NEW weigh,
           \A i \in DOMAIN sources : \A a, b \in rds[sources[i].role] :
              a.region = b.region /\ a.id = b.id => a = b
    PROVE  OneSpecPerInstance(rds, sources, shard, weigh)
<1> SUFFICES ASSUME NEW s \in Share(rds, sources, shard, weigh),
                    NEW t \in Share(rds, sources, shard, weigh), Key(s) = Key(t)
             PROVE  s = t
  BY DEF OneSpecPerInstance
<1>1. PICK i \in DOMAIN sources : s \in Taken(rds, sources, i)
  BY DEF Share
<1>2. PICK j \in DOMAIN sources : t \in Taken(rds, sources, j)
  BY DEF Share
<1>3. s \in Offers(rds, sources[i]) /\ t \in Offers(rds, sources[j])
  BY <1>1, <1>2 DEF Taken
<1>4. ~(i < j) /\ ~(j < i)
  <2>1. i \in Nat \ {0} /\ j \in Nat \ {0}
    OBVIOUS
  <2>2. ASSUME i < j PROVE FALSE
    <3>1. i \in 1 .. (j - 1)
      BY <2>1, <2>2
    <3> QED
      BY <1>2, <1>3, <3>1 DEF Taken
  <2>3. ASSUME j < i PROVE FALSE
    <3>1. j \in 1 .. (i - 1)
      BY <2>1, <2>3
    <3> QED
      BY <1>1, <1>3, <3>1 DEF Taken
  <2> QED
    BY <2>2, <2>3
<1>5. i = j
  BY <1>4
<1> QED
  BY <1>3, <1>5, OffersOnce

-----------------------------------------------------------------------------
(* ParallelRead: adjacent range reads of a growing file neither share a    *)
(* line nor leave one out.                                                 *)

LEMMA FirstIsLeast ==
    ASSUME NEW S \in SUBSET Nat, S # {}
    PROVE  First(S) \in S /\ \A y \in S : First(S) <= y
BY LeastExists DEF First

LEMMA NewlinesFrom ==
    ASSUME NEW nl \in SUBSET Nat, NEW v \in Int, NEW p \in Int, NEW q \in Int, p <= q
    PROVE  /\ Newlines(nl, v, q) \subseteq Newlines(nl, v, p)
           /\ Newlines(nl, v, p) \in SUBSET Nat
<1>1. ASSUME NEW x \in Newlines(nl, v, q) PROVE x \in Newlines(nl, v, p)
  <2>1. x \in Nat /\ x \in nl /\ q <= x /\ x < v
    BY DEF Newlines
  <2> QED
    BY <2>1 DEF Newlines
<1>2. Newlines(nl, v, p) \subseteq Nat
  BY DEF Newlines
<1> QED
  BY <1>1, <1>2

\* The first newline from p on is the same one to every read that sees any.
LEMMA SameFirst ==
    ASSUME NEW nl \in SUBSET Nat, NEW p \in Int, NEW v \in Int, NEW w \in Int,
           Newlines(nl, v, p) # {}, Newlines(nl, w, p) # {}
    PROVE  /\ First(Newlines(nl, v, p)) = First(Newlines(nl, w, p))
           /\ First(Newlines(nl, v, p)) \in Nat
           /\ p <= First(Newlines(nl, v, p))
<1>1. /\ Newlines(nl, v, p) \in SUBSET Nat
      /\ Newlines(nl, w, p) \in SUBSET Nat
  BY DEF Newlines
<1> DEFINE a == First(Newlines(nl, v, p))
           b == First(Newlines(nl, w, p))
<1>2. a \in Newlines(nl, v, p) /\ \A y \in Newlines(nl, v, p) : a <= y
  BY <1>1, FirstIsLeast
<1>3. b \in Newlines(nl, w, p) /\ \A y \in Newlines(nl, w, p) : b <= y
  BY <1>1, FirstIsLeast
<1>4. a \in nl /\ b \in nl /\ a \in Nat /\ b \in Nat /\ p <= a /\ p <= b /\ a < v /\ b < w
  BY <1>2, <1>3 DEF Newlines
<1>5. b < v => b \in Newlines(nl, v, p)
  BY <1>4 DEF Newlines
<1>6. a < w => a \in Newlines(nl, w, p)
  BY <1>4 DEF Newlines
<1> HIDE DEF a, b
<1>7. a = b
  BY <1>2, <1>3, <1>4, <1>5, <1>6
<1> QED
  BY <1>4, <1>7 DEF a, b

\* A range that sees the line end that closes it goes to the next line start.
LEMMA RangeEnds ==
    ASSUME NEW nl \in SUBSET Nat, NEW v \in Int, NEW start \in Nat, NEW end \in Nat,
           start < end, NEW lineStart \in BOOLEAN,
           Newlines(nl, v, end - 1) # {}
    PROVE  ReadRange(nl, v, start, end, lineStart).to = First(Newlines(nl, v, end - 1)) + 1
<1> DEFINE bufStart == IF lineStart THEN start ELSE start - 1
           seen == Newlines(nl, v, bufStart)
           closing == Newlines(nl, v, end - 1)
<1>1. Closing(nl, v, bufStart, end) = closing
  BY DEF Closing, Larger
<1>2. First(closing) \in Nat /\ end - 1 <= First(closing) /\ First(closing) \in closing
  BY SameFirst, FirstIsLeast DEF Newlines
<1>3. closing \subseteq seen /\ seen \in SUBSET Nat /\ seen # {}
  <2>1. bufStart \in Int /\ bufStart <= end - 1 /\ end - 1 \in Int
    OBVIOUS
  <2>2. closing \subseteq seen /\ seen \in SUBSET Nat
    BY <2>1, NewlinesFrom
  <2> QED
    BY <2>2
<1>4. First(seen) \in Nat /\ First(seen) <= First(closing)
  BY <1>2, <1>3, FirstIsLeast
<1> HIDE DEF bufStart, seen, closing
<1>5. ReadRange(nl, v, start, end, lineStart).to
        = Larger(IF lineStart THEN start ELSE First(seen) + 1, First(closing) + 1)
  BY <1>1, <1>2, <1>3 DEF ReadRange, bufStart, seen
<1>6. ReadRange(nl, v, start, end, lineStart).to = First(closing) + 1
  BY <1>2, <1>4, <1>5 DEF Larger
<1> QED
  BY <1>6 DEF closing

\* Of a range of a wave.
LEMMA SegmentBounds ==
    ASSUME NEW off \in Nat, NEW i \in Nat
    PROVE  /\ Start(off, i) \in Nat
           /\ Start(off, i + 1) = Start(off, i) + Segment
           /\ Start(off, 0) = off
<1>1. i * Segment \in Nat
  BY ParallelReadAssumption
<1>2. (i + 1) * Segment = i * Segment + Segment
  BY ParallelReadAssumption
<1>3. 0 * Segment = 0
  BY ParallelReadAssumption
<1> QED
  BY <1>1, <1>2, <1>3, ParallelReadAssumption DEF Start

(* The answers of a wave tile the file: when every read saw the line end   *)
(* that closes its range, parallelDrain (worker.go:1177-1195) joins them   *)
(* and does not fall back, however the file grew between the reads.        *)
THEOREM ConcurrentReadsTile ==
    ASSUME NEW nl \in SUBSET Nat, NEW off \in Nat, NEW size \in Nat,
           NEW vis \in [Segments(off, size) -> Nat]
    PROVE  WavesTile(nl, vis, Answers(nl, vis, off, size), off, size)
<1> DEFINE answers == Answers(nl, vis, off, size)
           Needed(i) == IF End(off, size, i) >= 0 THEN End(off, size, i) ELSE Start(off, i)
<1>1. DOMAIN answers = Segments(off, size)
  BY DEF Answers
<1>2. SUFFICES ASSUME \A i \in Segments(off, size) : Newlines(nl, vis[i], Needed(i) - 1) # {},
                      NEW i \in Segments(off, size)
               PROVE  answers[i].from = IF i = 0 THEN off ELSE answers[i - 1].to
  BY <1>1 DEF WavesTile, Tile
<1>3. i \in Nat /\ i < Reads /\ Start(off, i) < size /\ vis[i] \in Nat
  BY ParallelReadAssumption DEF Segments
<1>4. answers[i] = ReadRange(nl, vis[i], Start(off, i), End(off, size, i), i = 0)
  BY DEF Answers
<1>5. CASE i = 0
  <2>1. answers[i] = ReadRange(nl, vis[i], off, End(off, size, i), TRUE)
    BY <1>4, <1>5, SegmentBounds
  <2> QED
    BY <1>5, <2>1 DEF ReadRange
<1>6. CASE i # 0
  <2> DEFINE b == Start(off, i)
             a == Start(off, i - 1)
  <2>1. /\ i - 1 \in Nat /\ a \in Nat /\ b = a + Segment /\ b \in Nat /\ a < b
        /\ Start(off, i + 1) = b + Segment /\ Start(off, i + 1) \in Nat
    <3>1. i - 1 \in Nat /\ (i - 1) + 1 = i
      BY <1>3, <1>6
    <3>2. a \in Nat /\ b = a + Segment
      BY <3>1, SegmentBounds
    <3>3. Start(off, i + 1) = b + Segment /\ b \in Nat /\ Start(off, i + 1) \in Nat
      <4>1. i + 1 \in Nat
        BY <1>3
      <4> QED
        BY <1>3, <4>1, SegmentBounds
    <3> QED
      BY <3>1, <3>2, <3>3, ParallelReadAssumption
  <2> HIDE DEF a, b
  <2>2. i - 1 \in Segments(off, size) /\ vis[i - 1] \in Nat
    BY <1>3, <2>1, ParallelReadAssumption DEF Segments, a, b
  <2>3. End(off, size, i - 1) = b
    <3>1. (i - 1) + 1 = i
      BY <1>3
    <3> QED
      BY <1>3, <3>1, <2>1 DEF End, b
  <2>4. answers[i - 1] = ReadRange(nl, vis[i - 1], a, b, i - 1 = 0)
    BY <2>2, <2>3 DEF Answers, a
  <2>5. Newlines(nl, vis[i - 1], b - 1) # {}
    BY <1>2, <2>1, <2>2, <2>3
  <2>6. answers[i - 1].to = First(Newlines(nl, vis[i - 1], b - 1)) + 1
    <3> DEFINE lineStart == i - 1 = 0
    <3>1. lineStart \in BOOLEAN
      OBVIOUS
    <3> HIDE DEF lineStart
    <3>2. answers[i - 1] = ReadRange(nl, vis[i - 1], a, b, lineStart)
      BY <2>4 DEF lineStart
    <3>3. ReadRange(nl, vis[i - 1], a, b, lineStart).to
            = First(Newlines(nl, vis[i - 1], b - 1)) + 1
      BY <2>1, <2>2, <2>5, <3>1, RangeEnds
    <3> QED
      BY <3>2, <3>3
  <2>7. Newlines(nl, vis[i], b - 1) # {}
    <3>1. Needed(i) >= b /\ Needed(i) \in Nat
      BY <2>1, ParallelReadAssumption DEF End, b
    <3>2. Newlines(nl, vis[i], Needed(i) - 1) \subseteq Newlines(nl, vis[i], b - 1)
      BY <3>1, <2>1, <1>3, NewlinesFrom
    <3> QED
      BY <1>2, <3>2
  <2>8. End(off, size, i) \in Int
    BY <2>1 DEF End
  <2>9. answers[i].from = First(Newlines(nl, vis[i], b - 1)) + 1
    <3>1. answers[i] = ReadRange(nl, vis[i], b, End(off, size, i), FALSE)
      BY <1>4, <1>6 DEF b
    <3> QED
      BY <3>1, <2>7 DEF ReadRange
  <2>10. First(Newlines(nl, vis[i], b - 1)) = First(Newlines(nl, vis[i - 1], b - 1))
    BY <1>3, <2>1, <2>2, <2>5, <2>7, SameFirst
  <2> QED
    BY <1>6, <2>6, <2>9, <2>10
<1> QED
  BY <1>5, <1>6

(* ReadRange holds exactly the lines that start in [start, end), as its    *)
(* comment says (fetcher.go:307-310): a line that starts at s, after the   *)
(* newline of the line before, is in the text of that range and of no      *)
(* other, also when it runs past the range's end or a range holds no line  *)
(* start at all.                                                           *)
THEOREM RangeOwnsItsLines ==
    ASSUME NEW nl \in SUBSET Nat, NEW v \in Int, NEW start \in Nat \ {0}, NEW end \in Nat,
           start < end, Newlines(nl, v, end - 1) # {},
           NEW s \in Nat, s - 1 \in nl
    PROVE  LET text == ReadRange(nl, v, start, end, FALSE)
           IN  (text.from <= s /\ s < text.to) <=> (start <= s /\ s < end)
<1> DEFINE text == ReadRange(nl, v, start, end, FALSE)
           seen == Newlines(nl, v, start - 1)
           closing == Newlines(nl, v, end - 1)
<1>1. closing \subseteq seen /\ seen \in SUBSET Nat /\ closing \in SUBSET Nat /\ seen # {}
  <2>1. start - 1 \in Int /\ start - 1 <= end - 1 /\ end - 1 \in Int
    OBVIOUS
  <2>2. closing \subseteq seen /\ seen \in SUBSET Nat
    BY <2>1, NewlinesFrom
  <2> QED
    BY <2>2
<1>2. text.to = First(closing) + 1
  BY RangeEnds
<1>3. text.from = First(seen) + 1
  BY <1>1 DEF ReadRange
<1>4. /\ First(seen) \in seen /\ \A y \in seen : First(seen) <= y
      /\ First(closing) \in closing /\ \A y \in closing : First(closing) <= y
  BY <1>1, FirstIsLeast
<1>5. /\ First(seen) \in Nat /\ First(closing) \in Nat
      /\ start - 1 <= First(seen) /\ end - 1 <= First(closing) /\ First(closing) < v
  BY <1>4 DEF Newlines
<1>6. s - 1 < v /\ start - 1 <= s - 1 => First(seen) <= s - 1
  BY <1>4 DEF Newlines
<1>7. s - 1 < v /\ end - 1 <= s - 1 => First(closing) <= s - 1
  BY <1>4 DEF Newlines
<1> HIDE DEF seen, closing, text
<1>8. start <= s /\ s < end => text.from <= s /\ s < text.to
  BY <1>2, <1>3, <1>5, <1>6
<1>9. text.from <= s /\ s < text.to => start <= s /\ s < end
  BY <1>2, <1>3, <1>5, <1>7
<1> QED
  BY <1>8, <1>9 DEF text

-----------------------------------------------------------------------------
(* Pacing: when a worker keeps to poll_interval.                           *)

LEMMA JitterBounds ==
    ASSUME NEW d \in Nat, NEW x \in Jittered(d)
    PROVE  x \in Nat /\ 5 * x > 4 * d - 5 /\ 5 * x < 6 * d
BY DEF Jittered

LEMMA CeilingType ==
    ASSUME NEW p \in PollPolicies
    PROVE  /\ Ceiling(p) \in Nat \ {0}
           /\ p.max <= Ceiling(p)
           /\ p.poll \in Nat /\ p.max \in Nat
           /\ Multiplier(p) \in Nat /\ Multiplier(p) > 10
BY DEF PollPolicies, Ceiling, AtLeast, Multiplier

(* Growing a delay by the multiplier never shrinks it.                     *)
LEMMA GrowthGrows ==
    ASSUME NEW c \in Nat, NEW k \in Nat, k > 10
    PROVE  (c * k) \div 10 \in Nat /\ (c * k) \div 10 >= c
<1>1. PICK j \in Nat : k = 10 + j
  <2>1. k - 10 \in Nat /\ k = 10 + (k - 10)  OBVIOUS
  <2> QED  BY <2>1
<1>2. c * k = 10 * c + c * j /\ c * j \in Nat
  BY <1>1
<1>3. (c * k) \div 10 = c + (c * j) \div 10 /\ (c * j) \div 10 \in Nat
  BY <1>2
<1> QED  BY <1>3

(* Without throttling, poll_interval is kept by every valid policy.        *)
LEMMA UnthrottledIsPaced ==
    ASSUME NEW p \in PollPolicies, ValidPolls(p), NEW c \in Paced(p), NEW a \in BOOLEAN
    PROVE  Unthrottled(p, c, a) \in Paced(p)
<1>1. /\ Ceiling(p) \in Nat \ {0} /\ p.max <= Ceiling(p) /\ p.poll \in Nat /\ p.max \in Nat
      /\ Multiplier(p) \in Nat /\ Multiplier(p) > 10
  BY CeilingType
<1>2. c \in Nat /\ c >= p.poll
  BY <1>1 DEF Paced
<1>3. (c * Multiplier(p)) \div 10 \in Nat /\ (c * Multiplier(p)) \div 10 >= c
  BY <1>1, <1>2, GrowthGrows
<1> DEFINE grown == (c * Multiplier(p)) \div 10
<1>4. grown \in Nat /\ grown >= p.poll
  BY <1>1, <1>2, <1>3
<1>5. p.max # 0 => p.max >= p.poll
  BY DEF ValidPolls
<1>6. Unthrottled(p, c, a) = IF p.max <= 0 \/ a THEN p.poll ELSE AtMost(grown, p.max)
  BY DEF Unthrottled
<1> HIDE DEF grown
<1> QED  BY <1>1, <1>4, <1>5, <1>6 DEF Paced, AtMost, AtLeast

LEMMA ThrottledIsPaced ==
    ASSUME NEW p \in PollPolicies, ValidPolls(p), 5 * p.poll <= 4 * Ceiling(p),
           NEW c \in Paced(p), NEW x \in Throttled(p, c)
    PROVE  x \in Paced(p)
<1>1. Ceiling(p) \in Nat \ {0} /\ p.poll \in Nat /\ p.poll >= 1
  BY CeilingType DEF ValidPolls
<1>2. c \in Nat /\ c >= p.poll
  BY <1>1 DEF Paced
<1> DEFINE d == AtMost(2 * AtLeast(c, p.poll), Ceiling(p))
<1>3. d \in Nat /\ d <= Ceiling(p) /\ (d = Ceiling(p) \/ d >= 2 * p.poll)
  BY <1>1, <1>2 DEF AtMost, AtLeast
<1>4. x \in Nat /\ 5 * x > 4 * d - 5 /\ 5 * x < 6 * d
  BY <1>3, JitterBounds DEF Throttled
<1> HIDE DEF d
<1>5. x >= p.poll
  <2>1. 4 * d >= 5 * p.poll
    BY <1>1, <1>3
  <2> QED  BY <1>1, <1>3, <1>4, <2>1
<1>6. x <= 2 * Ceiling(p)
  BY <1>1, <1>3, <1>4
<1> QED  BY <1>1, <1>4, <1>5, <1>6 DEF Paced, AtLeast

(* A poll_interval above four fifths of the ceiling is what fails: a       *)
(* throttled worker then polls sooner than an unthrottled one.             *)
LEMMA ThrottledTooSoon ==
    ASSUME NEW p \in PollPolicies, ValidPolls(p), 5 * p.poll > 4 * Ceiling(p)
    PROVE  \E x \in Throttled(p, p.poll) : x < p.poll
<1> DEFINE C == Ceiling(p)  x == (4 * C) \div 5
<1>1. C \in Nat \ {0} /\ p.poll \in Nat /\ p.poll >= 1
  BY CeilingType DEF ValidPolls
<1>2. AtMost(2 * AtLeast(p.poll, p.poll), Ceiling(p)) = C
  BY <1>1 DEF AtMost, AtLeast
<1> HIDE DEF C
<1>3. x \in Nat /\ 5 * x <= 4 * C /\ 5 * x > 4 * C - 5
  BY <1>1
<1>4. 5 * p.poll > 4 * C
  BY DEF C
<1> HIDE DEF x
<1>5. x \in 0 .. (2 * C) /\ 5 * x < 6 * C /\ x < p.poll
  BY <1>1, <1>3, <1>4
<1>6. x \in Jittered(C)
  BY <1>3, <1>5 DEF Jittered
<1> QED  BY <1>2, <1>5, <1>6 DEF Throttled

(* A worker keeps to poll_interval exactly when poll_interval is at most   *)
(* four fifths of the larger of throttleMaxDelay and poll_interval_max     *)
(* (worker.go:288-297); Validate demands no such thing.                    *)
THEOREM PacedWhen ==
    ASSUME NEW p \in PollPolicies, ValidPolls(p)
    PROVE  NeverFaster(p) <=> 5 * p.poll <= 4 * Ceiling(p)
<1>1. Ceiling(p) \in Nat \ {0} /\ p.poll \in Nat
  BY CeilingType
<1>2. ASSUME 5 * p.poll <= 4 * Ceiling(p)  PROVE NeverFaster(p)
  <2>1. SUFFICES ASSUME NEW c \in Paced(p), NEW a \in BOOLEAN, NEW t \in BOOLEAN,
                        NEW x \in NextPollDelay(p, c, a, t)
                 PROVE  x \in Paced(p)
    BY DEF NeverFaster
  <2>3. CASE t
    BY <1>2, <2>1, <2>3, ThrottledIsPaced DEF NextPollDelay
  <2>4. CASE ~t
    BY <2>1, <2>4, UnthrottledIsPaced DEF NextPollDelay
  <2> QED  BY <2>3, <2>4
<1>3. ASSUME ~(5 * p.poll <= 4 * Ceiling(p))  PROVE ~NeverFaster(p)
  <2>1. PICK x \in Throttled(p, p.poll) : x < p.poll
    BY <1>1, <1>3, ThrottledTooSoon
  <2>2. p.poll \in Paced(p) /\ x \notin Paced(p)
    BY <1>1, <2>1 DEF Paced, AtLeast
  <2>3. x \in NextPollDelay(p, p.poll, FALSE, TRUE)
    BY <2>1 DEF NextPollDelay
  <2> QED
    <3>1. FALSE \in BOOLEAN /\ TRUE \in BOOLEAN  OBVIOUS
    <3> QED  BY <2>2, <2>3, <3>1 DEF NeverFaster
<1> QED  BY <1>2, <1>3
=============================================================================
