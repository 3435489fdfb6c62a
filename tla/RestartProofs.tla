---------------------------- MODULE RestartProofs -----------------------------
(***************************************************************************)
(* Proofs about Restart for any number of lines, restarts, failures and    *)
(* ticks, any texts and any sizes of the chunk, the ring and the rewind:   *)
(* its types, that a restart is counted once however often it is           *)
(* announced, that no line the file keeps is missed, and that none is      *)
(* shipped twice without a failure; the last two for lines that differ.    *)
(***************************************************************************)
EXTENDS Restart, FiniteSetTheorems, SequenceTheorems, WellFoundedInduction, TLAPS

Records == [id : Ids, text : Texts, at : Ticks, banner : BOOLEAN]

\* A report of this date may be about a start of the server at r.
Of(at, r) == r <= at + EventLead /\ at <= r + EventLag

\* What events and notices may be dated.
Dates == {t \in Ticks : (\E r \in downs : Of(t, r)) \/ t = shutdown}

\* A banner is from a restart.
Genuine == {r \in Records : r.banner => r.at \in downs}

\* No two notices counted are of one restart.
Apart == \A i, j \in DOMAIN restarts :
            i # j => restarts[i] - restarts[j] \notin (1 - DedupWindow) .. (DedupWindow - 1)

\* A shutdown is not forgotten before the server may start.
Announced == shutdown # None => shutdown <= clock /\ clock <= shutdown + EventLead

Reported == restarts \in Seq(Dates) /\ events \subseteq Dates /\ Announced

IInv ==
    /\ TypeOK
    /\ Len(log) <= nextId - 1
    /\ log \in Seq(Genuine)
    /\ Apart
    /\ Reported
    /\ Cardinality(downs) <= MaxRestarts

-----------------------------------------------------------------------------
(* Lemmas about the operators.                                             *)

LEMMA Constants ==
    /\ MaxLines \in Nat /\ ChunkLines \in Nat /\ RewindLines \in Nat /\ RingLines \in Nat
    /\ 0 < ChunkLines /\ 0 < RewindLines /\ 0 < RingLines
    /\ DedupWindow \in Nat /\ 0 < DedupWindow
    /\ MaxClock \in Nat /\ MaxFaults \in Nat /\ TailLines \in Nat
    /\ EventLead \in Nat /\ EventLag \in Nat /\ MaxRestarts \in Nat
    /\ 0 \in Ticks /\ 0 \in Positions /\ \A t \in Ticks : t \in Nat
    /\ \A p \in Positions : p \in Nat /\ p <= MaxLines
    /\ None \notin Ticks /\ None \notin Positions
    /\ \A i \in Ids : i \in Nat /\ 0 < i /\ i <= MaxLines /\ Text[i] \in Texts
<1>1. /\ MaxLines \in Nat /\ ChunkLines \in Nat /\ RewindLines \in Nat /\ RingLines \in Nat
      /\ 0 < ChunkLines /\ 0 < RewindLines /\ 0 < RingLines
      /\ DedupWindow \in Nat /\ 0 < DedupWindow
      /\ MaxClock \in Nat /\ MaxFaults \in Nat
      /\ EventLead \in Nat /\ EventLag \in Nat /\ MaxRestarts \in Nat
  BY RestartAssumption
<1>2. TailLines \in Nat
  BY <1>1, RestartAssumption
<1>3. 0 \in Ticks /\ (\A t \in Ticks : t \in Nat) /\ None \notin Ticks
  BY <1>1 DEF Ticks, None
<1>4. /\ 0 \in Positions /\ None \notin Positions
      /\ \A p \in Positions : p \in Nat /\ p <= MaxLines
  BY <1>1 DEF Positions, None
<1>5. \A i \in Ids : i \in Nat /\ 0 < i /\ i <= MaxLines /\ Text[i] \in Texts
  BY <1>1 DEF Ids, Texts
<1> QED
  BY <1>1, <1>2, <1>3, <1>4, <1>5

LEMMA Least ==
    ASSUME NEW S \in SUBSET Nat, S # {}
    PROVE  \E x \in S : \A y \in S : x <= y
<1>1. PICK x \in S : \A y \in S : <<y, x>> \notin OpToRel(<, Nat)
  BY NatLessThanWellFounded, WFMin, Zenon
<1>2. \A y \in S : ~(y < x)
  BY <1>1, Zenon DEF OpToRel
<1>3. \A y \in S : x <= y
  BY <1>2
<1> QED
  BY <1>3

LEMMA Greatest ==
    ASSUME NEW S \in SUBSET Nat, S # {}, NEW b \in Nat, \A x \in S : x <= b
    PROVE  \E x \in S : \A y \in S : y <= x
<1> DEFINE D == {b - x : x \in S}
<1>1. D \in SUBSET Nat /\ D # {}
  <2>1. \A x \in S : b - x \in Nat
    OBVIOUS
  <2> QED
    BY <2>1
<1>2. PICK d \in D : \A e \in D : d <= e
  BY <1>1, Least, Zenon
<1>3. PICK x \in S : d = b - x
  OBVIOUS
<1>4. ASSUME NEW y \in S PROVE y <= x
  <2>1. b - x <= b - y
    BY <1>2, <1>3
  <2> HIDE DEF D
  <2>2. x \in Int /\ y \in Int /\ b \in Int
    BY <1>3, <1>4
  <2> QED
    BY <2>1, <2>2
<1> QED
  BY <1>4

\* Nth numbers the elements of a set of positions.
LEMMA NthElement ==
    ASSUME NEW n \in Nat, NEW S \in SUBSET (1 .. n), NEW i \in 1 .. Cardinality(S)
    PROVE  Nth(S, i) \in S /\ Cardinality({j \in S : j <= Nth(S, i)}) = i
<1> DEFINE Below(k) == {j \in S : j <= k}
           T == {k \in 1 .. n : i <= Cardinality(Below(k))}
<1>0. \A j \in S : j \in Nat /\ 1 <= j /\ j <= n
  OBVIOUS
<1>1. IsFiniteSet(S) /\ \A k : IsFiniteSet(Below(k)) /\ Cardinality(Below(k)) \in Nat
  <2>1. IsFiniteSet(1 .. n)
    BY FS_Interval
  <2>2. \A U : U \subseteq 1 .. n => IsFiniteSet(U) /\ Cardinality(U) \in Nat
    BY <2>1, FS_Subset, FS_CardinalityType
  <2>3. \A k : Below(k) \subseteq 1 .. n
    OBVIOUS
  <2> QED
    BY <2>2, <2>3
<1>2. Below(0) = {} /\ Cardinality(Below(0)) = 0
  <2>1. Below(0) = {}
    <3>1. \A j \in S : ~(j <= 0)
      BY <1>0
    <3> QED
      BY <3>1
  <2> QED
    BY <2>1, FS_EmptySet, Zenon
<1>3. T # {}
  <2>1. Below(n) = S
    BY <1>0
  <2>2. n # 0
    BY <1>2, <2>1
  <2>3. n \in T
    BY <2>1, <2>2
  <2> QED
    BY <2>3
<1>4. PICK m \in T : \A k \in T : m <= k
  <2>1. T \in SUBSET Nat
    OBVIOUS
  <2> HIDE DEF T
  <2> QED
    BY <1>3, <2>1, Least
<1>5. Cardinality(Below(m - 1)) < i
  <2>1. CASE m = 1
    BY <1>2, <2>1
  <2>2. CASE m # 1
    <3>1. m - 1 \in 1 .. n /\ ~(m <= m - 1)
      BY <2>2
    <3>2. m - 1 \notin T
      BY <1>4, <3>1
    <3>3. ~(i <= Cardinality(Below(m - 1)))
      BY <3>1, <3>2
    <3> HIDE DEF Below
    <3>4. Cardinality(Below(m - 1)) \in Nat /\ i \in Int
      BY <1>1
    <3> QED
      BY <3>3, <3>4
  <2> QED
    BY <2>1, <2>2
<1>6. i <= Cardinality(Below(m)) /\ m \in 1 .. n
  OBVIOUS
<1>7. Below(m) = Below(m - 1) \union (IF m \in S THEN {m} ELSE {})
  <2>1. \A j \in S : j <= m <=> j <= m - 1 \/ j = m
    BY <1>0, <1>6
  <2>2. m <= m
    BY <1>6
  <2> HIDE DEF T
  <2> QED
    BY <2>1, <2>2
<1> HIDE DEF Below, T
<1>8. m \in S
  <2> SUFFICES ASSUME m \notin S PROVE FALSE
    OBVIOUS
  <2>1. Below(m) = Below(m - 1)
    BY <1>7
  <2> QED
    BY <1>1, <1>5, <1>6, <2>1
<1>9. Cardinality(Below(m)) <= Cardinality(Below(m - 1)) + 1
  <2>1. Below(m) = Below(m - 1) \union {m}
    BY <1>7, <1>8
  <2>2. \/ Cardinality(Below(m - 1) \union {m}) = Cardinality(Below(m - 1))
        \/ Cardinality(Below(m - 1) \union {m}) = Cardinality(Below(m - 1)) + 1
    BY <1>1, FS_AddElement
  <2> QED
    BY <1>1, <2>1, <2>2
<1>10. Cardinality(Below(m)) = i
  BY <1>1, <1>5, <1>6, <1>9
<1> QED
  BY <1>8, <1>10, Zenon DEF Nth, Below

\* Each element has its number.
LEMMA NthOnto ==
    ASSUME NEW n \in Nat, NEW S \in SUBSET (1 .. n), NEW k \in S
    PROVE  \E i \in 1 .. Cardinality(S) : Nth(S, i) = k
<1> DEFINE Below(e) == {j \in S : j <= e}
           i == Cardinality(Below(k))
<1>1. /\ IsFiniteSet(S) /\ Cardinality(S) \in Nat
      /\ \A e : IsFiniteSet(Below(e)) /\ Cardinality(Below(e)) \in Nat
  <2>1. IsFiniteSet(1 .. n)
    BY FS_Interval
  <2>2. \A U : U \subseteq 1 .. n => IsFiniteSet(U) /\ Cardinality(U) \in Nat
    BY <2>1, FS_Subset, FS_CardinalityType
  <2>3. \A e : Below(e) \subseteq 1 .. n
    OBVIOUS
  <2> QED
    BY <2>2, <2>3
<1>2. i \in 1 .. Cardinality(S)
  <2>1. k \in Below(k) /\ Below(k) \subseteq S
    OBVIOUS
  <2>2. Below(k) # {}
    BY <2>1
  <2> HIDE DEF Below
  <2>3. Cardinality(Below(k)) # 0
    BY <1>1, <2>2, FS_EmptySet
  <2>4. Cardinality(Below(k)) <= Cardinality(S)
    BY <1>1, <2>1, FS_Subset
  <2> QED
    BY <1>1, <2>3, <2>4
<1>3. Nth(S, i) \in S /\ Cardinality(Below(Nth(S, i))) = i
  <2>1. PICK c \in 1 .. Cardinality(S) : c = i
    BY <1>2
  <2>2. Nth(S, c) \in S /\ Cardinality({j \in S : j <= Nth(S, c)}) = c
    BY NthElement
  <2> HIDE DEF i
  <2> QED
    BY <2>1, <2>2
<1>4. ASSUME NEW a \in S, NEW b \in S, a < b PROVE Cardinality(Below(a)) < Cardinality(Below(b))
  <2>1. Below(a) \subseteq Below(b) /\ b \in Below(b) /\ b \notin Below(a)
    <3>1. \A j \in S : j \in Int
      OBVIOUS
    <3>2. \A j \in S : j <= a => j <= b
      BY <1>4, <3>1
    <3>3. b <= b /\ ~(b <= a)
      BY <1>4, <3>1
    <3> QED
      BY <3>2, <3>3
  <2>2. Below(a) # Below(b)
    BY <2>1
  <2> HIDE DEF Below
  <2> QED
    BY <1>1, <2>1, <2>2, FS_Subset
<1>5. Nth(S, i) = k
  <2>1. PICK e \in S : e = Nth(S, i) /\ Cardinality(Below(e)) = i
    BY <1>3
  <2>2. ~(e < k) /\ ~(k < e)
    <3> HIDE DEF Below
    <3>1. Cardinality(Below(e)) = Cardinality(Below(k)) /\ Cardinality(Below(k)) \in Nat
      BY <1>1, <2>1
    <3> QED
      BY <1>4, <3>1
  <2> QED
    BY <2>1, <2>2
<1> QED
  BY <1>2, <1>5

LEMMA KeptLines ==
    ASSUME NEW R, NEW recs \in Seq(R)
    PROVE  dropAlreadyShipped(recs) \in Seq(R)
<1> DEFINE kept == {k \in DOMAIN recs : ~AlreadyShipped(recs, k)}
           n == Cardinality(kept)
<1>1. DOMAIN recs = 1 .. Len(recs) /\ Len(recs) \in Nat
  OBVIOUS
<1>2. kept \in SUBSET (1 .. Len(recs))
  BY <1>1
<1> HIDE DEF kept
<1>3. n \in Nat
  <2>1. IsFiniteSet(1 .. Len(recs))
    BY <1>1, FS_Interval
  <2> QED
    BY <1>2, <2>1, FS_Subset, FS_CardinalityType
<1>4. ASSUME NEW i \in 1 .. n PROVE recs[Nth(kept, i)] \in R
  <2>1. Nth(kept, i) \in kept
    BY <1>1, <1>2, NthElement
  <2> QED
    BY <1>1, <1>2, <2>1, ElementOfSeq
<1>5. dropAlreadyShipped(recs) = [i \in 1 .. n |-> recs[Nth(kept, i)]]
  BY DEF dropAlreadyShipped, kept
<1> QED
  BY <1>3, <1>4, <1>5

\* A position worked out from the marks is one of the file.
LEMMA MarkPositions ==
    ASSUME IInv, NEW t
    PROVE  markBefore(t) \in Positions \union {None}
<1> DEFINE before == {u \in Ticks : u <= t /\ marks[u] # None}
<1>1. CASE before = {}
  BY <1>1 DEF markBefore, IInv, TypeOK
<1>2. CASE before # {}
  <2>1. before \in SUBSET Nat /\ \A u \in before : u \in Ticks /\ u <= MaxClock
    BY Constants DEF Ticks
  <2> HIDE DEF before
  <2>2. \E u \in before : \A v \in before : v <= u
    BY <1>2, <2>1, Constants, Greatest
  <2>3. (CHOOSE u \in before : \A v \in before : v <= u) \in before
    BY <2>2, Zenon
  <2>4. marks[CHOOSE u \in before : \A v \in before : v <= u] \in Positions \union {None}
    BY <2>1, <2>3 DEF IInv, TypeOK
  <2>5. markBefore(t) = marks[CHOOSE u \in before : \A v \in before : v <= u]
    BY <1>2, Zenon DEF markBefore, before
  <2> QED
    BY <2>4, <2>5
<1> QED
  BY <1>1, <1>2

Drains == [marker : Positions, pending : Seq(Texts), gen : Nat, dedupe : BOOLEAN,
           until : Positions \union {None}, dropFirst : BOOLEAN,
           consumed : [Texts -> Nat], atEnd : BOOLEAN]

LEMMA FreshDrain == NoDrain \in Drains
BY Constants DEF NoDrain, Drains

LEMMA RewindTypes ==
    ASSUME IInv, NEW restarted \in BOOLEAN
    PROVE  RewoundDrain(restarted) \in Drains /\ RewoundDrain(restarted).gen <= RestartGen
<1>1. RewindFrom(restarted) \in Positions
  BY MarkPositions DEF RewindFrom, IInv, TypeOK
<1>2. listing.size \in Positions
  BY DEF IInv, TypeOK
<1> DEFINE start == Lesser(RewindFrom(restarted), listing.size) - RewindLines
<1>3. start \in Int /\ (start > 0 => start \in Positions)
  BY <1>1, <1>2, Constants DEF Lesser, Positions
<1>4. RestartGen \in Nat
  BY DEF RestartGen, IInv, TypeOK
<1>5. ckpt.marker \in Positions
  BY DEF IInv, TypeOK
<1> HIDE DEF start
<1>6. RewoundDrain(restarted) =
        [NoDrain EXCEPT !.marker = IF start > 0 THEN start ELSE 0,
                        !.gen = IF restarted THEN RestartGen ELSE 0,
                        !.dedupe = TRUE,
                        !.until = IF ckpt.marker > 0 THEN ckpt.marker ELSE None,
                        !.dropFirst = start > 0]
  BY DEF RewoundDrain, start
<1>7. (start > 0) \in BOOLEAN
  BY <1>3
<1>8. RewoundDrain(restarted) =
        [marker |-> IF start > 0 THEN start ELSE 0, pending |-> << >>,
         gen |-> IF restarted THEN RestartGen ELSE 0, dedupe |-> TRUE,
         until |-> IF ckpt.marker > 0 THEN ckpt.marker ELSE None, dropFirst |-> start > 0,
         consumed |-> [x \in Texts |-> 0], atEnd |-> FALSE]
  BY <1>6 DEF NoDrain
<1>9. PICK m \in Positions : m = IF start > 0 THEN start ELSE 0
  BY <1>3, Constants
<1>10. PICK g \in 0 .. RestartGen : g = IF restarted THEN RestartGen ELSE 0
  BY <1>4
<1>11. PICK u \in Positions \union {None} : u = IF ckpt.marker > 0 THEN ckpt.marker ELSE None
  BY <1>5
<1>12. PICK d \in BOOLEAN : d = (start > 0)
  BY <1>7
<1>13. PICK p \in Seq(Texts) : p = << >>
  BY EmptySeq
<1>14. PICK c \in [Texts -> Nat] : c = [x \in Texts |-> 0]
  OBVIOUS
<1>15. RewoundDrain(restarted) =
         [marker |-> m, pending |-> p, gen |-> g, dedupe |-> TRUE, until |-> u,
          dropFirst |-> d, consumed |-> c, atEnd |-> FALSE]
  BY <1>8, <1>9, <1>10, <1>11, <1>12, <1>13, <1>14, Zenon
<1>16. g \in Nat /\ g <= RestartGen
  BY <1>4
<1> DEFINE r == [marker |-> m, pending |-> p, gen |-> g, dedupe |-> TRUE, until |-> u,
                 dropFirst |-> d, consumed |-> c, atEnd |-> FALSE]
<1>17. r \in Drains
  BY <1>16, Zenon DEF Drains
<1>18. r.gen = g
  OBVIOUS
<1> HIDE DEF r
<1>19. RewoundDrain(restarted) = r
  BY <1>15 DEF r
<1> QED
  BY <1>16, <1>17, <1>18, <1>19, Zenon

\* What a chunk holds of the file, and where it ends.
LEMMA ChunkTypes ==
    ASSUME IInv, NEW m \in Positions
    PROVE  /\ Chunk(m) \in Seq(Genuine)
           /\ Chunk(m) # << >> => Tail(Chunk(m)) \in Seq(Genuine)
           /\ NextMarkers(m) \subseteq Positions
<1>1. /\ Len(log) \in Nat /\ \A i \in 1 .. Len(log) : log[i] \in Genuine
      /\ m \in Nat /\ Len(log) \in Positions
  <2>1. /\ log \in Seq(Genuine) /\ Len(log) <= nextId - 1
        /\ nextId \in 1 .. (MaxLines + 1)
    BY DEF IInv, TypeOK
  <2>2. Len(log) \in Nat
    BY <2>1
  <2>3. \A i \in 1 .. Len(log) : log[i] \in Genuine
    BY <2>1, ElementOfSeq
  <2>4. Len(log) \in Positions
    BY <2>1, <2>2, Constants DEF Positions
  <2> QED
    BY <2>2, <2>3, <2>4, Constants
<1> DEFINE last == Lesser(m + ChunkLines, Len(log))
<1>2. last \in Nat /\ last <= Len(log) /\ (m < Len(log) => m < last)
  BY <1>1, Constants DEF Lesser
<1> HIDE DEF last
<1>3. CASE m < Len(log)
  <2>1. \A i \in m + 1 .. last : log[i] \in Genuine
    BY <1>1, <1>2
  <2>2. /\ SubSeq(log, m + 1, last) \in Seq(Genuine)
        /\ Len(SubSeq(log, m + 1, last)) = last - m
    BY <1>1, <1>2, <1>3, <2>1, SubSeqProperties, m + 1 \in Int, last \in Int
  <2>3. Chunk(m) = SubSeq(log, m + 1, last)
    BY <1>3 DEF Chunk, last
  <2>4. NextMarkers(m) = {last}
    BY <1>1, <1>2, <1>3, <2>2, <2>3 DEF NextMarkers
  <2>5. last \in Positions
    BY <1>1, <1>2, Constants DEF Positions
  <2> QED
    BY <2>2, <2>3, <2>4, <2>5, HeadTailProperties
<1>4. CASE ~(m < Len(log))
  BY <1>1, <1>4 DEF Chunk, NextMarkers
<1> QED
  BY <1>3, <1>4

LEMMA ConsumedTypes ==
    ASSUME IInv, NEW recs \in Seq(Genuine)
    PROVE  Consumed(recs) \in [Texts -> Nat]
<1> DEFINE Dropped(x) == {k \in DOMAIN recs : recs[k].text = x /\ AlreadyShipped(recs, k)}
<1>1. IsFiniteSet(1 .. Len(recs)) /\ DOMAIN recs = 1 .. Len(recs)
  BY FS_Interval
<1>2. \A U \in SUBSET DOMAIN recs : Cardinality(U) \in Nat
  BY <1>1, FS_Subset, FS_CardinalityType
<1>3. \A x : Cardinality(Dropped(x)) \in Nat
  BY <1>2
<1>4. drain.consumed \in [Texts -> Nat]
  BY DEF IInv, TypeOK
<1>5. Consumed(recs) = [x \in Texts |-> drain.consumed[x] + Cardinality(Dropped(x))]
  BY Zenon DEF Consumed
<1> HIDE DEF Dropped
<1> QED
  BY <1>3, <1>4, <1>5

LEMMA CountTypes ==
    ASSUME NEW lines \in Seq(Texts), NEW x
    PROVE  Count(lines, x) \in Nat
<1>1. IsFiniteSet(1 .. Len(lines)) /\ DOMAIN lines = 1 .. Len(lines)
  BY FS_Interval
<1> QED
  BY <1>1, FS_Subset, FS_CardinalityType DEF Count

LEMMA RingTypes ==
    ASSUME IInv, NEW lines \in Seq(Texts)
    PROVE  /\ rememberShipped(lines) \in Seq(Texts)
           /\ Len(rememberShipped(lines)) <= RingLines
<1> DEFINE all == ring \o lines
<1>1. all \in Seq(Texts) /\ Len(all) \in Nat
  BY ConcatProperties DEF IInv, TypeOK
<1> HIDE DEF all
<1>2. CASE Len(all) > RingLines
  <2>1. \A i \in (Len(all) - RingLines + 1) .. Len(all) : all[i] \in Texts
    BY <1>1, <1>2, Constants, ElementOfSeq
  <2>2. Len(all) - RingLines + 1 \in Int /\ Len(all) \in Int
    BY <1>1, Constants
  <2>3. /\ SubSeq(all, Len(all) - RingLines + 1, Len(all)) \in Seq(Texts)
        /\ Len(SubSeq(all, Len(all) - RingLines + 1, Len(all))) <= RingLines
    BY <1>1, <1>2, <2>1, <2>2, SubSeqProperties, Constants
  <2> QED
    BY <1>2, <2>3 DEF rememberShipped, all
<1>3. CASE ~(Len(all) > RingLines)
  BY <1>1, <1>3, Constants DEF rememberShipped, all
<1> QED
  BY <1>2, <1>3

\* Restarts are few, so that the numbers of those told of are.
LEMMA Numbers ==
    ASSUME IInv, NEW at
    PROVE  NumberOf(at) \in 1 .. (MaxRestarts + 1) /\ IsFiniteSet(downs)
<1> DEFINE before == {d \in downs : d + EventLag < at}
<1>1. IsFiniteSet(downs)
  <2>1. IsFiniteSet(Ticks)
    BY Constants, FS_Interval DEF Ticks
  <2> QED
    BY <2>1, FS_Subset DEF IInv, TypeOK
<1>2. before \subseteq downs
  OBVIOUS
<1>3. Cardinality(before) <= Cardinality(downs) /\ IsFiniteSet(before)
  BY <1>1, <1>2, FS_Subset
<1>4. Cardinality(before) \in Nat /\ Cardinality(downs) \in Nat
  BY <1>1, <1>3, FS_CardinalityType
<1>5. NumberOf(at) = Cardinality(before) + 1
  BY DEF NumberOf
<1>6. Cardinality(downs) <= MaxRestarts
  BY DEF IInv
<1> HIDE DEF before
<1> QED
  BY <1>1, <1>3, <1>4, <1>5, <1>6, Constants

\* A banner is dated like a report of its restart.
LEMMA DownDates ==
    ASSUME IInv, NEW d \in downs
    PROVE  d \in Dates
<1>1. d \in Ticks /\ d \in Nat /\ EventLead \in Nat /\ EventLag \in Nat
  BY Constants DEF IInv, TypeOK
<1>2. Of(d, d)
  BY <1>1 DEF Of
<1> QED
  BY <1>1, <1>2 DEF Dates

\* A notice is counted if it is of a restart not counted yet.
LEMMA NoticeTypes ==
    ASSUME IInv, NEW at \in Dates, NotifyRestart(at)
    PROVE  /\ restarts' \in Seq(Dates) /\ Len(restarts) <= Len(restarts') /\ Apart'
           /\ told' \subseteq 1 .. (MaxRestarts + 1)
<1>1. restarts \in Seq(Dates) /\ Len(restarts) \in Nat /\ DOMAIN restarts = 1 .. Len(restarts)
  BY DEF IInv, Reported
<1>2. \A d \in Dates : d \in Nat
  BY Constants DEF Dates
<1>5. told' \subseteq 1 .. (MaxRestarts + 1)
  BY Numbers DEF NotifyRestart, IInv, TypeOK
<1>3. CASE UNCHANGED restarts
  BY <1>1, <1>3, <1>5 DEF IInv, Apart
<1>4. CASE /\ restarts' = Append(restarts, at)
           /\ \A i \in DOMAIN restarts : at - restarts[i] \notin (1 - DedupWindow) .. (DedupWindow - 1)
  <2>1. /\ restarts' \in Seq(Dates) /\ Len(restarts') = Len(restarts) + 1
        /\ \A i \in 1 .. Len(restarts) : restarts'[i] = restarts[i]
        /\ restarts'[Len(restarts) + 1] = at
    BY <1>1, <1>4, AppendProperties
  <2>2. ASSUME NEW i \in 1 .. Len(restarts)
        PROVE  /\ restarts'[i] = restarts[i]
               /\ at - restarts[i] \notin (1 - DedupWindow) .. (DedupWindow - 1)
               /\ restarts[i] - at \notin (1 - DedupWindow) .. (DedupWindow - 1)
    <3>1. restarts[i] \in Nat /\ at \in Nat
      BY <1>1, <1>2, ElementOfSeq
    <3>2. /\ restarts'[i] = restarts[i]
          /\ at - restarts[i] \notin (1 - DedupWindow) .. (DedupWindow - 1)
      BY <1>1, <1>4, <2>1
    <3> QED
      BY <3>1, <3>2, Constants
  <2>3. ASSUME NEW i \in 1 .. Len(restarts) + 1, NEW j \in 1 .. Len(restarts) + 1, i # j
        PROVE  restarts'[i] - restarts'[j] \notin (1 - DedupWindow) .. (DedupWindow - 1)
    <3>1. CASE i \in 1 .. Len(restarts) /\ j \in 1 .. Len(restarts)
      BY <1>1, <2>2, <2>3, <3>1 DEF IInv, Apart
    <3>2. CASE i = Len(restarts) + 1
      <4>1. j \in 1 .. Len(restarts)
        BY <1>1, <2>3, <3>2
      <4> QED
        BY <2>1, <2>2, <3>2, <4>1
    <3>3. CASE j = Len(restarts) + 1
      <4>1. i \in 1 .. Len(restarts)
        BY <1>1, <2>3, <3>3
      <4> QED
        BY <2>1, <2>2, <3>3, <4>1
    <3> QED
      BY <1>1, <3>1, <3>2, <3>3
  <2>4. DOMAIN restarts' = 1 .. Len(restarts) + 1
    BY <2>1
  <2> QED
    BY <1>1, <1>5, <2>1, <2>3, <2>4 DEF Apart
<1> QED
  BY <1>1, <1>3, <1>4 DEF NotifyRestart, Folds, RestartGen

LEMMA BannerTypes ==
    ASSUME IInv, NEW kept \in Seq(Genuine), noteServerStart(kept)
    PROVE  /\ restarts' \in Seq(Dates) /\ Len(restarts) <= Len(restarts') /\ Apart'
           /\ told' \subseteq 1 .. (MaxRestarts + 1)
<1> DEFINE banners == {k \in DOMAIN kept : kept[k].banner /\ kept[k].at > floor}
<1>1. CASE banners = {}
  <2>1. UNCHANGED <<restarts, told>>
    BY <1>1 DEF noteServerStart
  <2> QED
    BY <2>1 DEF IInv, TypeOK, Apart, Reported
<1>2. CASE banners # {}
  <2> DEFINE first == CHOOSE k \in banners : \A j \in banners : k <= j
  <2>1. banners \in SUBSET Nat
    OBVIOUS
  <2>2. \A k \in banners : kept[k].at \in Dates
    <3>1. \A k \in DOMAIN kept : kept[k] \in Genuine
      BY ElementOfSeq
    <3>2. \A d \in downs : d \in Dates
      BY DownDates
    <3> QED
      BY <3>1, <3>2 DEF Genuine
  <2>3. NotifyRestart(kept[first].at)
    BY <1>2, Zenon DEF noteServerStart
  <2> HIDE DEF banners
  <2>4. first \in banners
    BY <1>2, <2>1, Least, Zenon
  <2> HIDE DEF first
  <2> QED
    BY <2>2, <2>3, <2>4, NoticeTypes
<1> QED
  BY <1>1, <1>2

-----------------------------------------------------------------------------
(* Each action keeps the types.                                            *)

\* What is left of a file drain that ends.
LEMMA EndTypes ==
    ASSUME IInv, EndPoll
    PROVE  /\ pc' \in {"idle", "listed", "pull", "flush"}
           /\ listing' \in [size : Positions, lastWritten : Ticks]
           /\ drain' \in Drains /\ drain'.gen = 0
BY FreshDrain, Constants DEF EndPoll, NoListing, NoDrain

LEMMA InitOK == Init => IInv
<1> SUFFICES ASSUME Init PROVE IInv
  OBVIOUS
<1>1. NoDrain \in Drains /\ NoDrain.gen = 0
  BY FreshDrain DEF NoDrain
<1>2. /\ << >> \in Seq(Genuine) /\ << >> \in Seq(Records) /\ << >> \in Seq(Texts)
      /\ << >> \in Seq(Ticks) /\ << >> \in Seq(Dates) /\ Len(<< >>) = 0
  BY EmptySeq
<1>3. /\ drain \in Drains /\ drain.gen = 0 /\ RestartGen = 0
      /\ log = << >> /\ ring = << >> /\ restarts = << >> /\ log \in Seq(Genuine)
  BY <1>1, <1>2 DEF Init, RestartGen
<1>4. nextId = 1 /\ nextId \in 1 .. (MaxLines + 1) /\ Len(log) <= nextId - 1
  BY <1>2, <1>3, Constants DEF Init
<1>5. Apart
  BY <1>3 DEF Apart
<1>6. ring \in Seq(Texts) /\ Len(ring) <= RingLines
  BY <1>2, <1>3, Constants
<1>7. /\ ckpt \in [found : BOOLEAN, marker : Positions, size : Positions, lastWritten : Ticks]
      /\ listing \in [size : Positions, lastWritten : Ticks]
  BY Constants DEF Init, NoListing
<1>8. /\ marks \in [Ticks -> Positions \union {None}] /\ oldestMark \in Positions \union {None}
      /\ sunk \in [Texts -> Nat]
  BY DEF Init
<1>9. /\ log \in Seq(Records) /\ restarts \in Seq(Ticks)
      /\ handledGen \in 0 .. RestartGen /\ faults \in 0 .. MaxFaults
  BY <1>2, <1>3, Constants DEF Init
<1>10. /\ clock \in Ticks /\ downs \subseteq Ticks /\ floor \in Ticks
       /\ shutdown \in Ticks \union {None} /\ events \subseteq Ticks /\ untold \subseteq events
       /\ pc \in {"idle", "listed", "pull", "flush"} /\ unmarked \in BOOLEAN
       /\ overshot \in BOOLEAN /\ forestalled \in BOOLEAN /\ shippedHere \subseteq Texts
       /\ told \subseteq 1 .. (MaxRestarts + 1)
  BY Constants DEF Init
<1>11. drain.gen <= RestartGen
  BY <1>3
<1>12. Reported
  BY <1>2, <1>3 DEF Init, Reported, Announced
<1>13. Cardinality(downs) <= MaxRestarts
  BY FS_EmptySet, Constants DEF Init
<1> QED
  BY <1>3, <1>4, <1>5, <1>6, <1>7, <1>8, <1>9, <1>10, <1>11, <1>12, <1>13
  DEF IInv, TypeOK, Records, Drains

\* What is dated so stays so while no restart comes and none is called off.
LEMMA DatesKept ==
    ASSUME IInv, UNCHANGED <<downs, restarts, events>>, shutdown = None \/ UNCHANGED shutdown
    PROVE  restarts' \in Seq(Dates') /\ events' \subseteq Dates'
<1>1. Dates \subseteq Dates'
  BY Constants DEF Dates
<1>2. restarts \in Seq(Dates) /\ events \subseteq Dates
  BY DEF IInv, Reported
<1>3. restarts \in Seq(Dates')
  BY <1>1, <1>2
<1> QED
  BY <1>1, <1>2, <1>3

LEMMA LineTypes ==
    ASSUME IInv, nextId <= MaxLines, NEW b \in BOOLEAN
    PROVE  Line(b) \in Records /\ Line(b).at = clock /\ Line(b).banner = b
<1>1. nextId \in Ids /\ clock \in Ticks
  BY DEF IInv, TypeOK, Ids
<1>2. Text[nextId] \in Texts
  BY <1>1, Constants
<1> QED
  BY <1>1, <1>2 DEF Line, Records

LEMMA ServerTypes ==
    ASSUME IInv, Server
    PROVE  IInv'
<1>1. CASE Tick
  <2>1. clock' \in Ticks
    BY <1>1, Constants DEF Tick, IInv, TypeOK, Ticks
  <2>2. UNCHANGED <<log, nextId, downs, shutdown, events, untold, ckpt, memVars, pollVars, histVars>>
    BY <1>1 DEF Tick
  <2>3. Announced'
    <3>1. shutdown' = shutdown /\ clock' = clock + 1 /\ (shutdown # None => clock < shutdown + EventLead)
      BY <1>1 DEF Tick
    <3>2. clock \in Nat /\ (shutdown # None => shutdown \in Nat)
      BY Constants DEF IInv, TypeOK
    <3> QED
      BY <3>1, <3>2, Constants DEF IInv, Reported, Announced
  <2>4. Reported'
    BY <2>2, <2>3, DatesKept DEF Reported, memVars
  <2>5. TypeOK'
    BY <2>1, <2>2 DEF IInv, TypeOK, RestartGen, memVars, pollVars, histVars
  <2>6. (Len(log) <= nextId - 1 /\ log \in Seq(Genuine) /\ Apart /\ Cardinality(downs) <= MaxRestarts)'
    BY <2>2 DEF IInv, Apart, Genuine, memVars
  <2> QED
    BY <2>4, <2>5, <2>6 DEF IInv
<1>2. CASE WriteLine
  <2>1. Line(FALSE) \in Genuine /\ Line(FALSE) \in Records
    BY <1>2, LineTypes DEF WriteLine, Genuine
  <2>2. log \in Seq(Genuine) /\ log \in Seq(Records) /\ Len(log) \in Nat /\ Len(log) <= nextId - 1
    BY DEF IInv, TypeOK, Records
  <2>3. log' \in Seq(Genuine) /\ log' \in Seq(Records) /\ Len(log') = Len(log) + 1
    BY <1>2, <2>1, <2>2, AppendProperties DEF WriteLine
  <2>4. nextId' \in 1 .. (MaxLines + 1) /\ nextId' = nextId + 1
    BY <1>2, Constants DEF WriteLine, IInv, TypeOK
  <2>5. Len(log') <= nextId' - 1
    BY <2>2, <2>3, <2>4 DEF IInv, TypeOK
  <2>6. Genuine' = Genuine
    BY <1>2 DEF WriteLine, Genuine, Records
  <2>7. UNCHANGED <<clock, downs, shutdown, events, untold, ckpt, memVars, pollVars, histVars>>
    BY <1>2 DEF WriteLine
  <2>8. TypeOK'
    <3>1. log' \in Seq([id : Ids, text : Texts, at : Ticks, banner : BOOLEAN])
      BY <2>3 DEF Records
    <3>2. TypeOK
      BY DEF IInv
    <3> QED
      BY <2>4, <2>7, <3>1, <3>2 DEF TypeOK, RestartGen, memVars, pollVars, histVars
  <2>9. Apart'
    BY <2>7 DEF IInv, Apart, memVars
  <2>10. Reported'
    BY <2>7, DatesKept DEF IInv, Reported, Announced, memVars
  <2>11. (Cardinality(downs) <= MaxRestarts)'
    BY <2>7 DEF IInv
  <2> QED
    BY <2>3, <2>5, <2>6, <2>8, <2>9, <2>10, <2>11 DEF IInv
<1>4. CASE ServerShutdown
  <2>1. UNCHANGED <<clock, log, nextId, downs, ckpt, memVars, pollVars, histVars>>
    BY <1>4 DEF ServerShutdown
  <2>2. /\ shutdown = None /\ shutdown' = clock
        /\ events' = events \union {clock} /\ untold' = untold \union {clock}
    BY <1>4 DEF ServerShutdown
  <2>3. clock \in Ticks /\ clock \in Nat
    BY Constants DEF IInv, TypeOK
  <2>4. Dates \subseteq Dates' /\ clock \in Dates'
    BY <2>1, <2>2, <2>3, Constants DEF Dates
  <2>5. restarts' \in Seq(Dates') /\ events' \subseteq Dates'
    <3>1. restarts \in Seq(Dates) /\ events \subseteq Dates /\ restarts' = restarts
      BY <2>1 DEF IInv, Reported, memVars
    <3>2. restarts \in Seq(Dates')
      BY <2>4, <3>1
    <3> QED
      BY <2>2, <2>4, <3>1, <3>2
  <2>6. Announced'
    BY <2>1, <2>2, <2>3, Constants DEF Announced
  <2>7. TypeOK'
    <3>1. /\ shutdown' \in Ticks \union {None} /\ events' \subseteq Ticks
          /\ untold' \subseteq events'
      BY <2>2, <2>3 DEF IInv, TypeOK
    <3>2. TypeOK
      BY DEF IInv
    <3> QED
      BY <2>1, <3>1, <3>2 DEF TypeOK, RestartGen, memVars, pollVars, histVars
  <2>8. (Len(log) <= nextId - 1 /\ log \in Seq(Genuine) /\ Apart /\ Cardinality(downs) <= MaxRestarts)'
    BY <2>1 DEF IInv, Apart, Genuine, memVars
  <2> QED
    BY <2>5, <2>6, <2>7, <2>8 DEF IInv, Reported
<1>3. CASE ServerRestart
  <2>1. PICK k \in 0 .. Lesser(TailLines, Len(log)) :
          log' = Append(SubSeq(log, 1, Len(log) - k), Line(TRUE))
    BY <1>3 DEF ServerRestart
  <2>2. downs' = downs \union {clock} /\ downs' \subseteq Ticks
    BY <1>3 DEF ServerRestart, IInv, TypeOK
  <2>3. Line(TRUE) \in Genuine' /\ Line(TRUE) \in Records
    BY <1>3, <2>2, LineTypes DEF ServerRestart, Genuine, Records
  <2>4. log \in Seq(Genuine) /\ Len(log) \in Nat /\ Len(log) <= nextId - 1
    BY DEF IInv, TypeOK
  <2>5. k \in Nat /\ k <= Len(log)
    BY <2>4, Constants DEF Lesser
  <2>6. Genuine \subseteq Genuine' /\ Genuine' \subseteq Records
    BY <2>2 DEF Genuine, Records
  <2>7. \A i \in 1 .. (Len(log) - k) : log[i] \in Genuine'
    BY <2>4, <2>5, <2>6, ElementOfSeq
  <2>8. /\ SubSeq(log, 1, Len(log) - k) \in Seq(Genuine')
        /\ Len(SubSeq(log, 1, Len(log) - k)) = Len(log) - k
    <3>1. 1 \in Int /\ Len(log) - k \in Int
      BY <2>4, <2>5
    <3>2. /\ SubSeq(log, 1, Len(log) - k) \in Seq(Genuine')
          /\ Len(SubSeq(log, 1, Len(log) - k)) = IF 1 <= Len(log) - k THEN Len(log) - k - 1 + 1 ELSE 0
      BY <2>7, <3>1, SubSeqProperties
    <3> QED
      BY <2>4, <2>5, <3>2
  <2>9. log' \in Seq(Genuine') /\ Len(log') = Len(log) - k + 1
    <3>1. PICK G : G = Genuine'
      OBVIOUS
    <3>2. SubSeq(log, 1, Len(log) - k) \in Seq(G) /\ Line(TRUE) \in G
      BY <2>3, <2>8, <3>1
    <3>3. PICK S : S = SubSeq(log, 1, Len(log) - k)
      OBVIOUS
    <3>4. PICK l : l = Line(TRUE)
      OBVIOUS
    <3>5. S \in Seq(G) /\ l \in G /\ Len(S) = Len(log) - k
      BY <2>8, <3>2, <3>3, <3>4
    <3>6. Append(S, l) \in Seq(G) /\ Len(Append(S, l)) = Len(S) + 1
      BY <3>5, AppendProperties
    <3>7. log' = Append(S, l)
      BY <2>1, <3>3, <3>4
    <3> QED
      BY <3>1, <3>5, <3>6, <3>7
  <2>10. log' \in Seq(Records)
    BY <2>6, <2>9
  <2>11. nextId' \in 1 .. (MaxLines + 1) /\ nextId' = nextId + 1
    <3>1. nextId \in 1 .. (MaxLines + 1)
      BY DEF IInv, TypeOK
    <3>2. nextId <= MaxLines /\ nextId' = nextId + 1
      BY <1>3 DEF ServerRestart
    <3> QED
      BY <3>1, <3>2, Constants
  <2>12. Len(log') <= nextId' - 1
    BY <2>4, <2>5, <2>9, <2>11 DEF IInv, TypeOK
  <2>13. PICK late \in SUBSET (clock .. Lesser(clock + EventLag, MaxClock)) :
           events' = events \union late /\ untold' = untold \union late
    BY <1>3 DEF ServerRestart
  <2>14. \A at \in late : at \in Ticks /\ Of(at, clock)
    <3>1. clock \in Nat
      BY Constants DEF IInv, TypeOK
    <3> QED
      BY <3>1, Constants DEF Lesser, Ticks, Of
  <2>15. Dates \subseteq Dates' /\ late \subseteq Dates'
    <3>1. clock \in downs' /\ downs \subseteq downs'
      BY <2>2
    <3>2. ASSUME shutdown \in Ticks PROVE Of(shutdown, clock)
      <4>1. shutdown \in Nat /\ clock \in Nat /\ shutdown # None
        BY <3>2, Constants DEF IInv, TypeOK
      <4>2. shutdown <= clock /\ clock <= shutdown + EventLead
        BY <4>1 DEF IInv, Reported, Announced
      <4> QED
        BY <4>1, <4>2, Constants DEF Of
    <3>3. late \subseteq Dates'
      BY <2>14, <3>1 DEF Dates
    <3>4. ASSUME NEW t \in Dates PROVE t \in Dates'
      BY <3>1, <3>2 DEF Dates
    <3> QED
      BY <3>3, <3>4
  <2>16. UNCHANGED <<clock, ckpt, memVars, pollVars, sunk, shippedHere, told, overshot, faults>>
    BY <1>3 DEF ServerRestart
  <2>17. shutdown' = None /\ unmarked' \in BOOLEAN /\ forestalled' \in BOOLEAN
    BY <1>3 DEF ServerRestart, IInv, TypeOK
  <2>18. Reported'
    <3>1. restarts \in Seq(Dates) /\ events \subseteq Dates /\ restarts' = restarts
      BY <2>16 DEF IInv, Reported, memVars
    <3>2. restarts \in Seq(Dates')
      <4>1. PICK E : E = Dates'
        OBVIOUS
      <4>2. Dates \subseteq E
        BY <2>15, <4>1
      <4>3. restarts \in Seq(E)
        BY <3>1, <4>2
      <4> QED
        BY <4>1, <4>3
    <3> QED
      BY <2>13, <2>15, <2>17, <3>1, <3>2 DEF Reported, Announced
  <2>19. TypeOK'
    <3>1. late \subseteq Ticks
      BY <2>14
    <3> QED
      BY <2>2, <2>10, <2>11, <2>13, <2>16, <2>17, <3>1
      DEF IInv, TypeOK, Records, RestartGen, memVars, pollVars
  <2>20. Apart'
    BY <2>16 DEF IInv, Apart, memVars
  <2>21. (Cardinality(downs) <= MaxRestarts)'
    <3>1. IsFiniteSet(downs)
      BY Numbers
    <3>5. Cardinality(downs) \in Nat
      BY <3>1, FS_CardinalityType
    <3>6. \/ Cardinality(downs \union {clock}) = Cardinality(downs)
          \/ Cardinality(downs \union {clock}) = Cardinality(downs) + 1
      BY <3>1, FS_AddElement
    <3>2. Cardinality(downs) \in Nat /\ Cardinality(downs') <= Cardinality(downs) + 1
      BY <2>2, <3>5, <3>6
    <3>3. Cardinality(downs) < MaxRestarts
      BY <1>3 DEF ServerRestart
    <3>4. Cardinality(downs') \in Nat
      BY <2>2, <3>1, FS_AddElement, FS_CardinalityType
    <3> QED
      BY <3>2, <3>3, <3>4, Constants
  <2> QED
    BY <2>9, <2>12, <2>18, <2>19, <2>20, <2>21 DEF IInv
<1> QED
  BY <1>1, <1>2, <1>3, <1>4 DEF Server

\* A restart counted more leaves what was handled a restart counted before.
LEMMA TellTypes ==
    ASSUME IInv, TellRestart
    PROVE  IInv'
<1>1. PICK at \in untold : untold' = untold \ {at} /\ NotifyRestart(at)
  BY DEF TellRestart
<1>2. /\ restarts' \in Seq(Dates) /\ Len(restarts) <= Len(restarts') /\ Apart'
      /\ told' \subseteq 1 .. (MaxRestarts + 1)
  BY <1>1, NoticeTypes DEF IInv, TypeOK, Reported
<1>3. Len(restarts) \in Nat /\ Len(restarts') \in Nat
  BY <1>2 DEF IInv, TypeOK
<1>4. handledGen \in 0 .. Len(restarts') /\ drain.gen <= Len(restarts')
  BY <1>2, <1>3 DEF IInv, TypeOK, RestartGen
<1>5. UNCHANGED <<serverVars, ckpt, floor, ring, marks, oldestMark, handledGen,
                  pollVars, sunk, shippedHere, forestalled, unmarked, overshot, faults>>
  BY DEF TellRestart
<1>6. restarts' \in Seq(Ticks)
  BY <1>2 DEF Dates
<1>7. Reported'
  BY <1>2, <1>5 DEF IInv, Reported, Announced, Dates, serverVars
<1>8. TypeOK'
  BY <1>1, <1>2, <1>3, <1>4, <1>5, <1>6 DEF IInv, TypeOK, RestartGen, serverVars, pollVars
<1> QED
  BY <1>2, <1>5, <1>7, <1>8 DEF IInv, Genuine, serverVars

LEMMA ListTypes ==
    ASSUME IInv, List
    PROVE  IInv'
<1>1. Len(log) \in 1 .. Len(log) /\ Len(log) \in Positions
  <2>1. Len(log) \in Nat /\ 0 < Len(log)
    BY DEF List, IInv, TypeOK
  <2>2. nextId \in 1 .. (MaxLines + 1) /\ Len(log) <= nextId - 1
    BY DEF IInv, TypeOK
  <2> QED
    BY <2>1, <2>2, Constants DEF Positions
<1>2. log[Len(log)].at \in Ticks
  <2>1. log \in Seq(Genuine)
    BY DEF IInv
  <2>2. log[Len(log)] \in Genuine
    BY <1>1, <2>1, ElementOfSeq
  <2> QED
    BY <2>2 DEF Genuine, Records
<1>3. listing' \in [size : Positions, lastWritten : Ticks]
  BY <1>1, <1>2 DEF List
<1>4. UNCHANGED <<serverVars, untold, ckpt, memVars, drain, histVars>> /\ pc' = "listed"
  BY DEF List
<1>5. Reported'
  BY <1>4, DatesKept DEF IInv, Reported, Announced, serverVars, memVars
<1>6. TypeOK'
  BY <1>3, <1>4 DEF IInv, TypeOK, RestartGen, serverVars, memVars, histVars
<1> QED
  BY <1>4, <1>5, <1>6 DEF IInv, Apart, Genuine, serverVars, memVars

LEMMA BeginTypes ==
    ASSUME IInv, BeginDrain
    PROVE  IInv'
<1>1. drain' \in Drains /\ drain'.gen <= RestartGen
  <2>1. PICK restarted \in BOOLEAN :
          drain' = IF ckpt.found /\ (Shrank \/ restarted) THEN RewoundDrain(restarted)
                   ELSE [NoDrain EXCEPT !.marker = ckpt.marker]
    <3>1. (ckpt.found /\ Unhandled # {} /\ ~Idle(PendingAt)) \in BOOLEAN
      BY DEF Idle
    <3> QED
      BY <3>1 DEF BeginDrain
  <2>2. ckpt.marker \in Positions /\ RestartGen \in Nat
    BY DEF IInv, TypeOK, RestartGen
  <2>3. /\ [NoDrain EXCEPT !.marker = ckpt.marker] \in Drains
        /\ [NoDrain EXCEPT !.marker = ckpt.marker].gen = 0
    BY <2>2, FreshDrain DEF Drains, NoDrain
  <2> QED
    BY <2>1, <2>2, <2>3, RewindTypes
<1>2. handledGen' \in 0 .. RestartGen
  BY DEF BeginDrain, markRestartHandled, IInv, TypeOK, RestartGen
<1>3. overshot' \in BOOLEAN
  BY DEF BeginDrain, IInv, TypeOK
<1>4. /\ UNCHANGED <<serverVars, untold, ckpt, floor, ring, marks, oldestMark, restarts,
                      listing, sunk, shippedHere, told, forestalled, unmarked, faults>>
      /\ pc' = "pull"
  BY DEF BeginDrain
<1>5. Reported'
  BY <1>4, DatesKept DEF IInv, Reported, Announced, serverVars
<1>6. TypeOK'
  BY <1>1, <1>2, <1>3, <1>4 DEF IInv, TypeOK, RestartGen, Drains, serverVars
<1> QED
  BY <1>4, <1>5, <1>6 DEF IInv, Apart, Genuine, serverVars

LEMMA PullTypes ==
    ASSUME IInv, Pull
    PROVE  IInv'
<1>1. PICK m \in NextMarkers(drain.marker) :
       LET read == Chunk(drain.marker)
           recs == IF drain.dropFirst /\ read # << >> THEN Tail(read) ELSE read
           kept == IF drain.dedupe THEN dropAlreadyShipped(recs) ELSE recs
           ended == m >= Len(log)
       IN  /\ noteServerStart(kept)
           /\ drain' = [drain EXCEPT
                 !.marker = m,
                 !.pending = @ \o [k \in DOMAIN kept |-> kept[k].text],
                 !.dropFirst = @ /\ read = << >>,
                 !.dedupe = @ /\ (m = 0 \/ drain.until = None \/ m < drain.until),
                 !.consumed = IF drain.dedupe THEN Consumed(recs) ELSE @,
                 !.atEnd = ended]
           /\ pc' \in IF ended THEN {"flush"} ELSE {"pull", "flush"}
  BY DEF Pull
<1> DEFINE read == Chunk(drain.marker)
           recs == IF drain.dropFirst /\ read # << >> THEN Tail(read) ELSE read
           kept == IF drain.dedupe THEN dropAlreadyShipped(recs) ELSE recs
           texts == [k \in DOMAIN kept |-> kept[k].text]
<1>2. drain \in Drains /\ drain.marker \in Positions
  BY DEF IInv, TypeOK, Drains
<1>3. read \in Seq(Genuine) /\ (read # << >> => Tail(read) \in Seq(Genuine)) /\ m \in Positions
  BY <1>2, ChunkTypes
<1>4. recs \in Seq(Genuine)
  BY <1>3
<1>5. kept \in Seq(Genuine)
  BY <1>4, KeptLines
<1>6. Consumed(recs) \in [Texts -> Nat]
  BY <1>4, ConsumedTypes
<1>7. /\ noteServerStart(kept)
      /\ drain' = [drain EXCEPT
            !.marker = m,
            !.pending = @ \o texts,
            !.dropFirst = @ /\ read = << >>,
            !.dedupe = @ /\ (m = 0 \/ drain.until = None \/ m < drain.until),
            !.consumed = IF drain.dedupe THEN Consumed(recs) ELSE @,
            !.atEnd = m >= Len(log)]
      /\ pc' \in {"pull", "flush"}
  BY <1>1
<1> HIDE DEF read, recs, kept
<1>8. texts \in Seq(Texts)
  <2>1. \A k \in 1 .. Len(kept) : kept[k].text \in Texts
    BY <1>5, ElementOfSeq DEF Genuine, Records
  <2>2. DOMAIN kept = 1 .. Len(kept) /\ Len(kept) \in Nat
    BY <1>5
  <2> QED
    BY <2>1, <2>2
<1> HIDE DEF texts
<1>9. drain.pending \o texts \in Seq(Texts)
  BY <1>2, <1>8, ConcatProperties DEF Drains
<1>10. /\ (drain.dropFirst /\ read = << >>) \in BOOLEAN
       /\ (drain.dedupe /\ (m = 0 \/ drain.until = None \/ m < drain.until)) \in BOOLEAN
       /\ (m >= Len(log)) \in BOOLEAN
  BY <1>2, <1>3, Constants DEF Drains, IInv, TypeOK
<1>11. drain' \in Drains /\ drain'.gen = drain.gen
  BY <1>2, <1>3, <1>6, <1>7, <1>9, <1>10 DEF Drains
<1>12. /\ restarts' \in Seq(Dates) /\ Len(restarts) <= Len(restarts') /\ Apart'
       /\ told' \subseteq 1 .. (MaxRestarts + 1)
  BY <1>5, <1>7, BannerTypes
<1>13. Len(restarts) \in Nat /\ Len(restarts') \in Nat
  BY <1>12 DEF IInv, TypeOK
<1>14. handledGen \in 0 .. Len(restarts') /\ drain'.gen <= Len(restarts')
  BY <1>11, <1>12, <1>13 DEF IInv, TypeOK, RestartGen
<1>15. UNCHANGED <<serverVars, untold, ckpt, floor, ring, marks, oldestMark, handledGen,
                   listing, sunk, shippedHere, forestalled, unmarked, overshot, faults>>
  BY DEF Pull
<1>16. restarts' \in Seq(Ticks)
  BY <1>12 DEF Dates
<1>17. Reported'
  BY <1>12, <1>15 DEF IInv, Reported, Announced, Dates, serverVars
<1>18. TypeOK'
  BY <1>7, <1>11, <1>12, <1>13, <1>14, <1>15, <1>16
  DEF IInv, TypeOK, RestartGen, Drains, serverVars
<1> QED
  BY <1>12, <1>15, <1>17, <1>18 DEF IInv, Genuine, serverVars

LEMMA DeliverTypes ==
    ASSUME IInv, NEW lines \in Seq(Texts), Deliver(lines)
    PROVE  sunk' \in [Texts -> Nat]
BY CountTypes DEF Deliver, IInv, TypeOK

LEMMA ShippedTypes ==
    ASSUME IInv
    PROVE  shippedHere \union {drain.pending[i] : i \in DOMAIN drain.pending} \subseteq Texts
<1>1. drain.pending \in Seq(Texts) /\ shippedHere \subseteq Texts
  BY DEF IInv, TypeOK
<1>2. \A i \in DOMAIN drain.pending : drain.pending[i] \in Texts
  BY <1>1
<1> QED
  BY <1>1, <1>2

LEMMA FlushTypes ==
    ASSUME IInv, Flush
    PROVE  IInv'
<1>1. drain \in Drains /\ drain.pending \in Seq(Texts) /\ drain.marker \in Positions
  BY DEF IInv, TypeOK, Drains
<1>2. sunk' \in [Texts -> Nat]
  BY <1>1, DeliverTypes DEF Flush
<1>3. ring' \in Seq(Texts) /\ Len(ring') <= RingLines
  BY <1>1, RingTypes DEF Flush
<1>4. ckpt' \in [found : BOOLEAN, marker : Positions, size : Positions, lastWritten : Ticks]
  BY <1>1 DEF Flush, NextCheckpoint, IInv, TypeOK
<1>5. /\ marks' \in [Ticks -> Positions \union {None}]
      /\ oldestMark' \in Positions \union {None}
  BY <1>1 DEF Flush, recordMark, IInv, TypeOK
<1>6. handledGen' \in 0 .. RestartGen
  BY DEF Flush, markRestartHandled, IInv, TypeOK, RestartGen
<1>7. /\ pc' \in {"idle", "listed", "pull", "flush"}
      /\ listing' \in [size : Positions, lastWritten : Ticks]
      /\ drain' \in Drains /\ drain'.gen = 0
  <2>1. CASE drain.atEnd
    BY <2>1, EndTypes DEF Flush
  <2>2. CASE ~drain.atEnd
    <3>1. drain' = [drain EXCEPT !.gen = 0, !.pending = << >>]
      BY <2>2 DEF Flush
    <3>2. << >> \in Seq(Texts)
      BY EmptySeq
    <3>3. drain' \in Drains /\ drain'.gen = 0
      BY <1>1, <3>1, <3>2 DEF Drains
    <3> QED
      BY <2>2, <3>3 DEF Flush, IInv, TypeOK
  <2> QED
    BY <2>1, <2>2
<1>8. UNCHANGED <<serverVars, clock, log, nextId, downs, shutdown, events, untold, floor, restarts,
                  told, forestalled, unmarked, overshot, faults>>
  BY DEF Flush, serverVars
<1>9. RestartGen' = RestartGen /\ RestartGen \in Nat
  BY <1>8 DEF RestartGen, IInv, TypeOK
<1>10. drain'.gen <= RestartGen'
  BY <1>7, <1>9
<1>11. shippedHere' \subseteq Texts
  BY ShippedTypes DEF Flush
<1>12. (Len(log) <= nextId - 1 /\ log \in Seq(Genuine) /\ Apart)'
  BY <1>8 DEF IInv, Apart, Genuine
<1>13. TypeOK'
  BY <1>2, <1>3, <1>4, <1>5, <1>6, <1>7, <1>8, <1>9, <1>10, <1>11 DEF IInv, TypeOK, Drains
<1>14. Reported'
  BY <1>8, DatesKept DEF IInv, Reported, Announced
<1> QED
  BY <1>8, <1>12, <1>13, <1>14 DEF IInv

LEMMA FailureTypes ==
    ASSUME IInv, Failure
    PROVE  IInv'
<1>1. drain.pending \in Seq(Texts) /\ drain.marker \in Positions
  BY DEF IInv, TypeOK
<1>2. EndPoll /\ Fault
  BY DEF Failure, PullFail, WriteFail, SetFail, Crash
<1>3. /\ pc' \in {"idle", "listed", "pull", "flush"}
      /\ listing' \in [size : Positions, lastWritten : Ticks]
      /\ drain' \in Drains /\ drain'.gen = 0
  BY <1>2, EndTypes
<1>4. faults' \in 0 .. MaxFaults
  BY <1>2, Constants DEF Fault, IInv, TypeOK
<1>5. sunk' \in [Texts -> Nat]
  <2>1. Deliver(drain.pending) \/ UNCHANGED sunk
    BY DEF Failure, PullFail, WriteFail, SetFail, Crash
  <2> QED
    BY <1>1, <2>1, DeliverTypes DEF IInv, TypeOK
<1>6. UNCHANGED <<clock, log, nextId, downs, shutdown, events, forestalled, overshot>>
  BY DEF Failure, PullFail, WriteFail, SetFail, Crash, serverVars
<1>7. ckpt' \in [found : BOOLEAN, marker : Positions, size : Positions, lastWritten : Ticks]
  <2>1. ckpt' \in {ckpt, NextCheckpoint}
    BY DEF Failure, PullFail, WriteFail, SetFail, Crash
  <2>2. ckpt \in [found : BOOLEAN, marker : Positions, size : Positions, lastWritten : Ticks]
    BY DEF IInv, TypeOK
  <2>3. NextCheckpoint \in [found : BOOLEAN, marker : Positions, size : Positions, lastWritten : Ticks]
    BY <1>1 DEF NextCheckpoint, IInv, TypeOK
  <2> QED
    BY <2>1, <2>2, <2>3
<1>8. ring' \in Seq(Texts) /\ Len(ring') <= RingLines
  <2>1. ring' = ring \/ ring' = rememberShipped(drain.pending) \/ ring' = << >>
    BY DEF Failure, PullFail, WriteFail, SetFail, Crash, memVars
  <2>2. << >> \in Seq(Texts) /\ Len(<< >>) <= RingLines
    BY EmptySeq, Constants
  <2> QED
    BY <1>1, <2>1, <2>2, RingTypes DEF IInv, TypeOK
<1>11. shippedHere' \subseteq Texts
  <2>1. \/ shippedHere' = shippedHere
        \/ shippedHere' = shippedHere \union {drain.pending[i] : i \in DOMAIN drain.pending}
        \/ shippedHere' = {}
    BY DEF Failure, PullFail, WriteFail, SetFail, Crash
  <2> QED
    BY <2>1, ShippedTypes DEF IInv, TypeOK
<1>9. CASE Crash
  <2>1. untold' \subseteq events' /\ told' = {}
    BY <1>6, <1>9 DEF Crash, IInv, TypeOK
  <2>2. floor' \in Ticks
    BY <1>9, Constants DEF Crash, Lesser, IInv, TypeOK
  <2>3. /\ marks' \in [Ticks -> Positions \union {None}] /\ oldestMark' \in Positions \union {None}
    BY <1>9 DEF Crash
  <2>4. restarts' = << >> /\ RestartGen' = 0 /\ handledGen' = 0 /\ restarts' \in Seq(Dates') /\ restarts' \in Seq(Ticks)
    <3>1. restarts' = << >> /\ handledGen' = 0
      BY <1>9 DEF Crash
    <3>2. << >> \in Seq(Dates') /\ << >> \in Seq(Ticks) /\ Len(<< >>) = 0
      BY EmptySeq
    <3> QED
      BY <3>1, <3>2 DEF RestartGen
  <2>5. Apart'
    BY <2>4 DEF Apart
  <2>6. unmarked' \in BOOLEAN
    BY <1>9 DEF Crash, RewindDue, IInv, TypeOK
  <2>7. Reported'
    BY <1>6, <2>4 DEF IInv, Reported, Announced, Dates
  <2>8. TypeOK'
    BY <1>3, <1>4, <1>5, <1>6, <1>7, <1>8, <1>11, <2>1, <2>2, <2>3, <2>4, <2>6
    DEF IInv, TypeOK, Drains
  <2> QED
    BY <1>6, <2>5, <2>7, <2>8 DEF IInv, Genuine
<1>10. CASE PullFail \/ WriteFail \/ SetFail
  <2>1. UNCHANGED <<untold, floor, marks, oldestMark, restarts, handledGen, told, unmarked>>
    BY <1>10 DEF PullFail, WriteFail, SetFail, memVars
  <2>2. RestartGen' = RestartGen /\ RestartGen \in Nat
    BY <2>1 DEF RestartGen, IInv, TypeOK
  <2>3. Reported'
    BY <1>6, <2>1, DatesKept DEF IInv, Reported, Announced
  <2>4. TypeOK'
    BY <1>3, <1>4, <1>5, <1>6, <1>7, <1>8, <1>11, <2>1, <2>2 DEF IInv, TypeOK, Drains
  <2> QED
    BY <1>6, <2>1, <2>3, <2>4 DEF IInv, Apart, Genuine
<1> QED
  BY <1>9, <1>10 DEF Failure

LEMMA StepOK == IInv /\ [Next]_vars => IInv'
<1> SUFFICES ASSUME IInv, [Next]_vars PROVE IInv'
  OBVIOUS
<1>1. CASE Server
  BY <1>1, ServerTypes
<1>2. CASE TellRestart
  BY <1>2, TellTypes
<1>3. CASE Worker
  BY <1>3, ListTypes, BeginTypes, PullTypes, FlushTypes DEF Worker
<1>4. CASE Failure
  BY <1>4, FailureTypes
<1>5. CASE UNCHANGED vars
  <2>1. Reported'
    BY <1>5, DatesKept DEF IInv, Reported, Announced, vars, serverVars, memVars
  <2>2. TypeOK'
    BY <1>5 DEF vars, serverVars, memVars, pollVars, histVars, IInv, TypeOK, RestartGen
  <2> QED
    BY <1>5, <2>1, <2>2 DEF IInv, Apart, Genuine, vars, serverVars, memVars
<1> QED
  BY <1>1, <1>2, <1>3, <1>4, <1>5 DEF Next

LEMMA AlwaysIInv == Spec => []IInv
BY InitOK, StepOK, PTL DEF Spec

-----------------------------------------------------------------------------
(* The theorems.                                                           *)

(* Every variable keeps its type: above all a rewind starts at a position  *)
(* of the file whatever mark or listing it is worked out from, what is     *)
(* read again after the ring has dropped lines is made of lines of the     *)
(* file, and no generation a drain or the worker calls handled is ahead of *)
(* the restarts counted (drainFile, markBefore, dropAlreadyShipped,        *)
(* markRestartHandled).                                                    *)
THEOREM RestartTyping == Spec => []TypeOK
<1>1. IInv => TypeOK
  BY DEF IInv
<1> QED
  BY <1>1, AlwaysIInv, PTL

-----------------------------------------------------------------------------
(* No line the file keeps is missed.                                       *)

\* No two lines the server writes say the same.
AllUnlike == \A i, j \in Ids : Text[i] = Text[j] => i = j

\* Reports of two restarts never lie within a window.
Spaced == RestartGap >= DedupWindow + EventLead + EventLag

DownsApart ==
    /\ \A d \in downs : d <= clock
    /\ \A d, e \in downs : d < e => e - d >= RestartGap
    /\ shutdown # None => \A d \in downs : shutdown + EventLead - d >= RestartGap

\* The lines of the file are in the order they were written.
InOrder ==
    /\ \A i \in 1 .. Len(log) : log[i].at <= clock
    /\ \A i, j \in 1 .. Len(log) : i <= j => log[i].at <= log[j].at

Numbered ==
    /\ \A i \in 1 .. Len(log) : log[i].id < nextId /\ log[i].text = Text[log[i].id]
    /\ \A i, j \in 1 .. Len(log) : i < j => log[i].id < log[j].id

RingSunk == \A i \in DOMAIN ring : sunk[ring[i]] > 0

Reading == pc \in {"pull", "flush"}

Polling ==
    /\ pc # "idle" => Len(log) > 0
    /\ Reading /\ drain.dropFirst => drain.marker > 0

Facts == DownsApart /\ InOrder /\ Numbered /\ RingSunk /\ Polling

\* The restarts still to be handled by a process that has handled those up to g.
Open(g) == {restarts[i] : i \in (g + 1) .. RestartGen}

\* The dates of notices and events that a process which has handled the first
\* g restarts still rewinds for, or will count as another restart.
Due(g) == Open(g) \union {e \in untold : ~Folds(e, RestartGen)}

\* The rewind for the restart at r is still to come.
Awaited(r, g) == \E d \in Due(g) : Of(d, r)

\* Whatever mark a rewind for d, or for an earlier restart, takes, it reads
\* again from before position b.
Ahead(b, d) ==
    /\ oldestMark # None
    /\ oldestMark - RewindLines + 1 < b
    /\ \A u \in Ticks : u <= d - Margin /\ marks[u] # None => marks[u] - RewindLines + 1 < b

\* The banner at b is of a restart whose rewind is still to come and will
\* read it again.
Reopens(b, g) ==
    /\ b \in 1 .. Len(log) /\ log[b].banner
    /\ Awaited(log[b].at, g) /\ Ahead(b, log[b].at + EventLag)

InSink(p) == p \in 1 .. Len(log) /\ sunk[log[p].text] > 0
InBatch(p) ==
    p \in 1 .. Len(log) /\ \E i \in DOMAIN drain.pending : drain.pending[i] = log[p].text

Later(a, b) == IF a < b THEN b ELSE a
ReadTo == IF drain.dropFirst THEN drain.marker + 1 ELSE drain.marker

Saved == \A p \in 1 .. ckpt.marker : InSink(p) \/ \E b \in 1 .. p : Reopens(b, handledGen)

Read ==
    Reading => \A p \in 1 .. ReadTo :
        InSink(p) \/ InBatch(p) \/ \E b \in 1 .. p : Reopens(b, Later(handledGen, drain.gen))

\* What a poll that has listed the file may think of as untouched by a restart.
Listed ==
    pc = "listed" => \A p \in 1 .. ckpt.marker :
        \/ p <= listing.size /\ p <= Len(log) /\ log[p].at <= listing.lastWritten
        \/ \E b \in 1 .. p :
              Reopens(b, handledGen) /\ log[b].at + EventLag < listing.lastWritten + Margin

Answered == Saved /\ Read /\ Listed

MInv == IInv /\ Facts /\ (~unmarked /\ ~overshot /\ ~forestalled => Answered)

-----------------------------------------------------------------------------
LEMMA Spacing ==
    /\ Margin \in Nat /\ 0 < Margin /\ RestartGap \in Nat /\ 0 < RestartGap
    /\ EventLead \in Nat /\ EventLag \in Nat /\ EventLag < Margin
    /\ RewindLines \in Nat /\ TailLines < RewindLines
    /\ Spaced => Margin <= RestartGap /\ DedupWindow + EventLead + EventLag <= RestartGap
<1>1. /\ Margin \in Nat /\ 0 < Margin /\ RestartGap \in Nat /\ 0 < RestartGap
      /\ EventLead \in Nat /\ EventLag \in Nat /\ EventLag < Margin
      /\ DedupWindow \in Nat /\ Margin <= DedupWindow
  BY RestartAssumption
<1>2. RewindLines \in Nat /\ TailLines < RewindLines
  BY RestartAssumption
<1> QED
  BY <1>1, <1>2 DEF Spaced

\* The parts of the types that the rest is about.
LEMMA Shapes ==
    ASSUME IInv
    PROVE  /\ clock \in Nat /\ clock \in Ticks /\ clock <= MaxClock
           /\ log \in Seq(Genuine) /\ Len(log) \in Nat /\ DOMAIN log = 1 .. Len(log)
           /\ \A p \in 1 .. Len(log) : /\ log[p] \in Records
                                       /\ log[p].id \in Nat /\ log[p].id \in Ids
                                       /\ log[p].text \in Texts /\ log[p].at \in Nat
                                       /\ log[p].banner => log[p].at \in downs
           /\ nextId \in Nat /\ nextId > 0
           /\ \A d \in downs : d \in Nat
           /\ \A d \in Dates : d \in Nat
           /\ untold \subseteq Dates /\ shutdown \in Nat \union {None}
           /\ Len(restarts) \in Nat /\ DOMAIN restarts = 1 .. Len(restarts)
           /\ \A i \in DOMAIN restarts : restarts[i] \in Dates /\ restarts[i] \in Nat
           /\ RestartGen = Len(restarts)
           /\ handledGen \in Nat /\ handledGen <= Len(restarts)
           /\ drain.gen \in Nat /\ drain.gen <= Len(restarts)
           /\ drain.marker \in Nat /\ ckpt.marker \in Nat
           /\ drain.pending \in Seq(Texts) /\ ring \in Seq(Texts)
           /\ sunk \in [Texts -> Nat] /\ marks \in [Ticks -> Positions \union {None}]
           /\ oldestMark \in Positions \union {None}
           /\ oldestMark \in Int /\ \A u \in Ticks : marks[u] \in Int
           /\ listing.size \in Nat /\ listing.lastWritten \in Nat
<1>1. /\ clock \in Nat /\ clock \in Ticks /\ clock <= MaxClock
  BY Constants DEF IInv, TypeOK, Ticks
<1>2. log \in Seq(Genuine) /\ Len(log) \in Nat /\ DOMAIN log = 1 .. Len(log)
  BY DEF IInv
<1>3. \A r \in Genuine : /\ r \in Records /\ r.id \in Nat /\ r.id \in Ids /\ r.text \in Texts
                         /\ r.at \in Nat /\ (r.banner => r.at \in downs)
  BY Constants DEF Genuine, Records
<1>4. \A p \in 1 .. Len(log) : log[p] \in Genuine
  BY <1>2, ElementOfSeq
<1>5. nextId \in Nat /\ nextId > 0
  BY Constants DEF IInv, TypeOK
<1>6. /\ \A d \in downs : d \in Nat
      /\ \A d \in Dates : d \in Nat
      /\ untold \subseteq Dates /\ shutdown \in Nat \union {None}
  BY Constants DEF IInv, TypeOK, Reported, Dates
<1>7. /\ restarts \in Seq(Dates)
      /\ Len(restarts) \in Nat /\ DOMAIN restarts = 1 .. Len(restarts)
      /\ RestartGen = Len(restarts)
  BY DEF IInv, Reported, RestartGen
<1>8. \A i \in DOMAIN restarts : restarts[i] \in Dates /\ restarts[i] \in Nat
  BY <1>6, <1>7, ElementOfSeq
<1>9. /\ handledGen \in Nat /\ handledGen <= Len(restarts)
      /\ drain.gen \in Nat /\ drain.gen <= Len(restarts)
  BY <1>7 DEF IInv, TypeOK
<1>10. /\ drain.marker \in Nat /\ ckpt.marker \in Nat
       /\ listing.size \in Nat /\ listing.lastWritten \in Nat
  BY Constants DEF IInv, TypeOK
<1>11. /\ drain.pending \in Seq(Texts) /\ ring \in Seq(Texts)
       /\ sunk \in [Texts -> Nat] /\ marks \in [Ticks -> Positions \union {None}]
       /\ oldestMark \in Positions \union {None}
  BY DEF IInv, TypeOK
<1>12. oldestMark \in Int /\ \A u \in Ticks : marks[u] \in Int
  BY <1>11, Constants DEF None
<1> QED
  BY <1>1, <1>2, <1>3, <1>4, <1>5, <1>6, <1>7, <1>8, <1>9, <1>10, <1>11, <1>12

\* A step that leaves the file alone.
LEMMA QuietFacts ==
    ASSUME IInv, DownsApart, InOrder, Numbered, UNCHANGED <<log, nextId, downs>>, clock <= clock', clock' \in Nat,
           \/ UNCHANGED shutdown
           \/ \A d \in downs : shutdown' + EventLead - d >= RestartGap
    PROVE  (DownsApart /\ InOrder /\ Numbered)'
<1>1. DownsApart'
  <2>1. \A d \in downs : d <= clock'
    BY Shapes DEF DownsApart
  <2> QED
    BY <2>1 DEF DownsApart
<1>2. InOrder'
  <2>1. clock \in Nat /\ \A i \in 1 .. Len(log) : log[i].at \in Nat
    BY Shapes
  <2>2. \A i \in 1 .. Len(log) : log[i].at <= clock
    BY DEF InOrder
  <2>3. \A i \in 1 .. Len(log) : log[i].at <= clock'
    BY <2>1, <2>2
  <2> QED
    BY <2>3 DEF InOrder
<1>3. Numbered'
  BY DEF Numbered
<1> QED
  BY <1>1, <1>2, <1>3

\* A new line goes after the n first lines.
LEMMA NewLine ==
    ASSUME IInv, Facts, nextId <= MaxLines, NEW n \in 0 .. Len(log), NEW banner \in BOOLEAN,
           log' = Append(SubSeq(log, 1, n), Line(banner)), nextId' = nextId + 1, clock' = clock
    PROVE  /\ Len(log') = n + 1
           /\ \A p \in 1 .. n : log'[p] = log[p]
           /\ log'[n + 1] = Line(banner)
           /\ InOrder' /\ Numbered'
<1>1. /\ n \in Nat /\ n <= Len(log) /\ Len(log) \in Nat
  BY Shapes
<1>2. /\ Len(SubSeq(log, 1, n)) = n /\ \A p \in 1 .. n : SubSeq(log, 1, n)[p] = log[p]
      /\ SubSeq(log, 1, n) \in Seq(Genuine)
  <2>1. log \in Seq(Genuine)
    BY Shapes
  <2>2. \A p \in 1 .. n : log[p] \in Genuine
    BY <1>1, <2>1, ElementOfSeq
  <2> QED
    BY <1>1, <2>2, SubSeqProperties, 1 \in Int, n \in Int
<1>3. /\ Len(log') = n + 1 /\ log'[n + 1] = Line(banner)
      /\ \A p \in 1 .. n : log'[p] = log[p]
  <2>1. PICK S : S = SubSeq(log, 1, n)
    OBVIOUS
  <2>2. PICK l : l = Line(banner)
    OBVIOUS
  <2>3. S \in Seq(Genuine \union {l}) /\ Len(S) = n /\ \A p \in 1 .. n : S[p] = log[p]
    BY <1>2, <2>1
  <2>4. log' = Append(S, l)
    BY <2>1, <2>2
  <2>5. /\ Len(Append(S, l)) = n + 1 /\ Append(S, l)[n + 1] = l
        /\ \A p \in 1 .. n : Append(S, l)[p] = S[p]
    BY <1>1, <2>3, AppendProperties
  <2> QED
    BY <2>2, <2>3, <2>4, <2>5
<1>4. /\ Line(banner).at = clock /\ Line(banner).id = nextId /\ Line(banner).text = Text[nextId]
  BY DEF Line
<1>5. InOrder'
  <2>1. ASSUME NEW i \in 1 .. n + 1 PROVE log'[i].at <= clock /\ log'[i].at \in Nat
    <3>1. CASE i = n + 1
      BY <1>3, <1>4, <3>1, Shapes
    <3>2. CASE i # n + 1
      <4>1. i \in 1 .. n /\ i \in 1 .. Len(log)
        BY <1>1, <3>2
      <4> QED
        BY <1>3, <4>1, Shapes DEF Facts, InOrder
    <3> QED
      BY <3>1, <3>2
  <2>2. ASSUME NEW i \in 1 .. n + 1, NEW j \in 1 .. n + 1, i <= j
        PROVE  log'[i].at <= log'[j].at
    <3>1. CASE j = n + 1
      <4>1. log'[j].at = clock
        BY <1>3, <1>4, <3>1
      <4> QED
        BY <2>1, <4>1
    <3>2. CASE j # n + 1
      <4>1. i \in 1 .. n /\ j \in 1 .. n /\ i \in 1 .. Len(log) /\ j \in 1 .. Len(log)
        BY <1>1, <2>2, <3>2
      <4> QED
        BY <1>3, <2>2, <4>1 DEF Facts, InOrder
    <3> QED
      BY <3>1, <3>2
  <2> QED
    BY <1>3, <2>1, <2>2 DEF InOrder
<1>6. Numbered'
  <2>1. nextId \in Nat
    BY Shapes
  <2>2. ASSUME NEW i \in 1 .. n + 1
        PROVE  log'[i].id < nextId + 1 /\ log'[i].text = Text[log'[i].id]
    <3>1. CASE i = n + 1
      BY <1>3, <1>4, <2>1, <3>1
    <3>2. CASE i # n + 1
      <4>1. i \in 1 .. n /\ i \in 1 .. Len(log)
        BY <1>1, <3>2
      <4>2. log[i].id \in Nat /\ log[i].id < nextId /\ log[i].text = Text[log[i].id]
        BY <4>1, Shapes DEF Facts, Numbered
      <4> QED
        BY <1>3, <2>1, <4>1, <4>2
    <3> QED
      BY <3>1, <3>2
  <2>3. ASSUME NEW i \in 1 .. n + 1, NEW j \in 1 .. n + 1, i < j
        PROVE  log'[i].id < log'[j].id
    <3>1. i \in 1 .. n /\ i \in 1 .. Len(log)
      BY <1>1, <2>3
    <3>2. log'[i].id < nextId
      BY <1>3, <3>1 DEF Facts, Numbered
    <3>3. CASE j = n + 1
      BY <1>3, <1>4, <3>2, <3>3
    <3>4. CASE j # n + 1
      <4>1. j \in 1 .. n /\ j \in 1 .. Len(log)
        BY <1>1, <3>4
      <4> QED
        BY <1>3, <2>3, <3>1, <4>1 DEF Facts, Numbered
    <3> QED
      BY <3>3, <3>4
  <2> QED
    BY <1>3, <2>2, <2>3 DEF Numbered
<1> QED
  BY <1>3, <1>5, <1>6

\* The sink keeps what it has, and has the lines that are written to it.
LEMMA SinkGrows ==
    ASSUME IInv, NEW lines \in Seq(Texts), Deliver(lines)
    PROVE  /\ \A x \in Texts : sunk[x] <= sunk'[x]
           /\ \A i \in DOMAIN lines : sunk'[lines[i]] > 0
<1>1. sunk \in [Texts -> Nat] /\ \A x \in Texts : Count(lines, x) \in Nat
  BY Shapes, CountTypes
<1>2. \A x \in Texts : sunk'[x] = sunk[x] + Count(lines, x)
  BY DEF Deliver
<1>3. ASSUME NEW i \in DOMAIN lines PROVE lines[i] \in Texts /\ Count(lines, lines[i]) > 0
  <2>1. lines[i] \in Texts
    BY ElementOfSeq
  <2> DEFINE S == {j \in DOMAIN lines : lines[j] = lines[i]}
  <2>2. IsFiniteSet(S)
    <3>1. IsFiniteSet(1 .. Len(lines)) /\ DOMAIN lines = 1 .. Len(lines)
      BY FS_Interval
    <3> QED
      BY <3>1, FS_Subset
  <2>3. i \in S
    OBVIOUS
  <2>4. Cardinality(S) # 0
    BY <2>2, <2>3, FS_EmptySet
  <2>5. Count(lines, lines[i]) = Cardinality(S)
    BY DEF Count
  <2> QED
    BY <1>1, <2>1, <2>4, <2>5
<1> QED
  BY <1>1, <1>2, <1>3

\* What the ring remembers is what it remembered or what is added.
LEMMA RingKeeps ==
    ASSUME IInv, NEW lines \in Seq(Texts), NEW i \in DOMAIN rememberShipped(lines)
    PROVE  \/ \E j \in DOMAIN ring : rememberShipped(lines)[i] = ring[j]
           \/ \E j \in DOMAIN lines : rememberShipped(lines)[i] = lines[j]
<1> DEFINE all == ring \o lines
           back == Len(all) - RingLines
<1>1. /\ ring \in Seq(Texts) /\ all \in Seq(Texts) /\ Len(all) = Len(ring) + Len(lines)
      /\ \A k \in 1 .. Len(all) : all[k] = IF k <= Len(ring) THEN ring[k] ELSE lines[k - Len(ring)]
  BY Shapes, ConcatProperties
<1>2. Len(ring) \in Nat /\ Len(lines) \in Nat /\ RingLines \in Nat /\ DOMAIN ring = 1 .. Len(ring)
      /\ DOMAIN lines = 1 .. Len(lines)
  BY <1>1, Constants
<1>3. PICK k \in 1 .. Len(all) : rememberShipped(lines)[i] = all[k]
  <2>1. CASE Len(all) > RingLines
    <3>1. rememberShipped(lines) = SubSeq(all, back + 1, Len(all))
      BY <2>1 DEF rememberShipped
    <3>2. \A k \in back + 1 .. Len(all) : all[k] \in Texts
      BY <1>1, <1>2, <2>1, ElementOfSeq
    <3>3. back + 1 \in Int /\ Len(all) \in Int /\ back \in Nat
      BY <1>1, <1>2, <2>1
    <3> HIDE DEF all
    <3>4. /\ Len(SubSeq(all, back + 1, Len(all))) = RingLines
          /\ \A k \in 1 .. RingLines : SubSeq(all, back + 1, Len(all))[k] = all[back + k]
          /\ SubSeq(all, back + 1, Len(all)) \in Seq(Texts)
      BY <1>1, <1>2, <2>1, <3>2, <3>3, SubSeqProperties
    <3>5. i \in 1 .. RingLines /\ rememberShipped(lines)[i] = all[back + i]
      BY <3>1, <3>4
    <3>6. back + i \in 1 .. Len(all)
      BY <1>2, <3>3, <3>5
    <3> QED
      BY <3>5, <3>6
  <2>2. CASE ~(Len(all) > RingLines)
    <3>1. rememberShipped(lines) = all
      BY <2>2 DEF rememberShipped
    <3>2. i \in 1 .. Len(all)
      BY <1>1, <3>1
    <3> QED
      BY <3>1, <3>2
  <2> QED
    BY <2>1, <2>2
<1>4. CASE k <= Len(ring)
  BY <1>1, <1>2, <1>3, <1>4
<1>5. CASE ~(k <= Len(ring))
  <2>1. k - Len(ring) \in DOMAIN lines /\ all[k] = lines[k - Len(ring)]
    BY <1>1, <1>2, <1>5
  <2> QED
    BY <1>3, <2>1
<1> QED
  BY <1>4, <1>5

LEMMA RingFacts ==
    ASSUME IInv, RingSunk, [Next]_vars
    PROVE  RingSunk' /\ \A x \in Texts : sunk[x] <= sunk'[x]
<1>1. /\ sunk \in [Texts -> Nat] /\ drain.pending \in Seq(Texts) /\ ring \in Seq(Texts)
      /\ \A i \in DOMAIN ring : ring[i] \in Texts
  BY Shapes, ElementOfSeq
<1>2. CASE UNCHANGED <<ring, sunk>>
  BY <1>1, <1>2 DEF RingSunk
<1>3. \/ UNCHANGED <<ring, sunk>>
      \/ Deliver(drain.pending) /\ ring' = rememberShipped(drain.pending)
      \/ (Deliver(drain.pending) \/ UNCHANGED sunk) /\ (UNCHANGED ring \/ ring' = << >>)
  BY DEF Next, Server, Tick, WriteLine, ServerShutdown, ServerRestart, TellRestart, Worker, List,
         BeginDrain, Pull, Flush, Failure, PullFail, WriteFail, SetFail, Crash, vars, memVars, histVars
<1>4. CASE Deliver(drain.pending) /\ ring' = rememberShipped(drain.pending)
  <2>1. /\ \A x \in Texts : sunk[x] <= sunk'[x]
        /\ \A i \in DOMAIN drain.pending : sunk'[drain.pending[i]] > 0
    BY <1>1, <1>4, SinkGrows
  <2>2. \A i \in DOMAIN ring : sunk'[ring[i]] > 0
    <3>1. \A i \in DOMAIN ring : ring[i] \in Texts /\ sunk[ring[i]] > 0 /\ sunk[ring[i]] \in Nat
      BY <1>1 DEF RingSunk
    <3>2. \A x \in Texts : sunk'[x] \in Nat
      BY <1>1, <1>4, DeliverTypes
    <3> QED
      BY <2>1, <3>1, <3>2
  <2>3. ASSUME NEW i \in DOMAIN ring' PROVE sunk'[ring'[i]] > 0
    BY <1>1, <1>4, <2>1, <2>2, <2>3, RingKeeps
  <2> QED
    BY <2>1, <2>3 DEF RingSunk
<1>5. CASE (Deliver(drain.pending) \/ UNCHANGED sunk) /\ (UNCHANGED ring \/ ring' = << >>)
  <2>1. \A x \in Texts : sunk[x] <= sunk'[x] /\ sunk'[x] \in Nat
    BY <1>1, <1>5, SinkGrows, DeliverTypes
  <2>2. CASE UNCHANGED ring
    <3>1. \A i \in DOMAIN ring : ring[i] \in Texts /\ sunk[ring[i]] > 0 /\ sunk[ring[i]] \in Nat
      BY <1>1 DEF RingSunk
    <3> QED
      BY <2>1, <2>2, <3>1 DEF RingSunk
  <2>3. CASE ring' = << >>
    BY <2>1, <2>3 DEF RingSunk
  <2> QED
    BY <1>5, <2>2, <2>3, <2>1
<1> QED
  BY <1>2, <1>3, <1>4, <1>5

LEMMA WholeFile ==
    ASSUME IInv
    PROVE  SubSeq(log, 1, Len(log)) = log
<1>1. log \in Seq(Genuine)
  BY Shapes
<1> QED
  BY <1>1

\* A restart keeps the first n lines of the file.
LEMMA RestartCuts ==
    ASSUME IInv, Facts, ServerRestart
    PROVE  \E n \in 0 .. Len(log) :
              /\ Len(log) - n <= TailLines
              /\ \A i \in n + 1 .. Len(log) : log[i].at > clock + EventLag - Margin
              /\ Len(log') = n + 1
              /\ \A p \in 1 .. n : log'[p] = log[p]
              /\ log'[n + 1].at = clock /\ log'[n + 1].banner
              /\ InOrder' /\ Numbered'
<1>1. PICK k \in 0 .. Lesser(TailLines, Len(log)) :
          /\ \A i \in (Len(log) - k + 1) .. Len(log) : log[i].at > clock + EventLag - Margin
          /\ log' = Append(SubSeq(log, 1, Len(log) - k), Line(TRUE))
  BY DEF ServerRestart
<1>2. /\ Len(log) \in Nat /\ TailLines \in Nat /\ k \in Nat /\ k <= TailLines /\ k <= Len(log)
  <2>1. Len(log) \in Nat /\ TailLines \in Nat
    BY Shapes, Constants
  <2> QED
    BY <1>1, <2>1 DEF Lesser
<1> DEFINE n == Len(log) - k
<1>3. n \in 0 .. Len(log) /\ Len(log) - n <= TailLines
  BY <1>2
<1>4. \A i \in n + 1 .. Len(log) : log[i].at > clock + EventLag - Margin
  BY <1>1
<1>5. nextId <= MaxLines /\ nextId' = nextId + 1 /\ clock' = clock
  BY DEF ServerRestart
<1>6. log' = Append(SubSeq(log, 1, n), Line(TRUE))
  BY <1>1
<1> HIDE DEF n
<1>7. /\ Len(log') = n + 1
      /\ \A p \in 1 .. n : log'[p] = log[p]
      /\ log'[n + 1] = Line(TRUE)
      /\ InOrder' /\ Numbered'
  BY <1>3, <1>5, <1>6, NewLine, TRUE \in BOOLEAN
<1>8. Line(TRUE).at = clock /\ Line(TRUE).banner
  BY DEF Line
<1> QED
  BY <1>3, <1>4, <1>7, <1>8

LEMMA WriteAppends ==
    ASSUME IInv, Facts, WriteLine
    PROVE  /\ Len(log') = Len(log) + 1
           /\ \A p \in 1 .. Len(log) : log'[p] = log[p]
           /\ InOrder' /\ Numbered'
<1>1. /\ nextId <= MaxLines /\ nextId' = nextId + 1 /\ clock' = clock
      /\ log' = Append(SubSeq(log, 1, Len(log)), Line(FALSE))
  BY WholeFile DEF WriteLine
<1>2. Len(log) \in 0 .. Len(log)
  BY Shapes
<1> QED
  BY <1>1, <1>2, NewLine, FALSE \in BOOLEAN

LEMMA ServerFacts ==
    ASSUME IInv, Facts, [Next]_vars
    PROVE  (DownsApart /\ InOrder /\ Numbered)'
<1>1. CASE WriteLine
  <2>1. UNCHANGED <<clock, downs, shutdown>>
    BY <1>1 DEF WriteLine
  <2> QED
    BY <1>1, <2>1, WriteAppends DEF Facts, DownsApart
<1>2. CASE ServerRestart
  <2>1. clock' = clock /\ downs' = downs \union {clock} /\ shutdown' = None
        /\ \A d \in downs : clock - d >= RestartGap
    BY <1>2 DEF ServerRestart
  <2>2. clock \in Nat /\ \A d \in downs : d \in Nat /\ d <= clock
    BY Shapes DEF Facts, DownsApart
  <2>3. DownsApart'
    <3>1. \A d \in downs' : d <= clock
      BY <2>1, <2>2
    <3>2. ASSUME NEW d \in downs', NEW e \in downs', d < e PROVE e - d >= RestartGap
      <4>1. d \in downs
        BY <2>1, <2>2, <3>1, <3>2
      <4>2. CASE e = clock
        BY <2>1, <4>1, <4>2
      <4>3. CASE e # clock
        BY <2>1, <3>2, <4>1, <4>3 DEF Facts, DownsApart
      <4> QED
        BY <4>2, <4>3
    <3> QED
      BY <2>1, <3>1, <3>2 DEF DownsApart
  <2> QED
    BY <1>2, <2>3, RestartCuts
<1>4. CASE ServerShutdown
  <2>1. UNCHANGED <<log, nextId, downs, clock>> /\ shutdown' = clock
        /\ \A d \in downs : clock + EventLead - d >= RestartGap
    BY <1>4 DEF ServerShutdown
  <2>2. clock' <= clock /\ clock <= clock' /\ clock' \in Nat
    BY <2>1, Shapes
  <2> QED
    BY <2>1, <2>2, QuietFacts DEF Facts
<1>3. CASE ~WriteLine /\ ~ServerRestart /\ ~ServerShutdown
  <2>1. UNCHANGED <<log, nextId, downs, shutdown>> /\ (clock' = clock \/ clock' = clock + 1)
    BY <1>3 DEF Next, Server, Tick, ServerShutdown, TellRestart, Worker, List, BeginDrain, Pull,
         Flush, Failure, PullFail, WriteFail, SetFail, Crash, vars, serverVars
  <2>2. clock <= clock' /\ clock' \in Nat
    BY <2>1, Shapes
  <2> QED
    BY <2>1, <2>2, QuietFacts DEF Facts
<1> QED
  BY <1>1, <1>2, <1>3, <1>4

LEMMA RewoundFrom ==
    ASSUME IInv, NEW restarted \in BOOLEAN
    PROVE  /\ RewindFrom(restarted) \in Positions
           /\ LET start == Lesser(RewindFrom(restarted), listing.size) - RewindLines
              IN  /\ RewoundDrain(restarted).marker = IF start > 0 THEN start ELSE 0
                  /\ RewoundDrain(restarted).dropFirst = (start > 0)
           /\ RewoundDrain(restarted).gen = IF restarted THEN RestartGen ELSE 0
           /\ RewoundDrain(restarted).pending = << >>
<1>1. RewindFrom(restarted) \in Positions
  BY MarkPositions DEF RewindFrom, IInv, TypeOK
<1> QED
  BY <1>1 DEF RewoundDrain, NoDrain

LEMMA PollingFacts ==
    ASSUME IInv, Facts, [Next]_vars
    PROVE  Polling'
<1>1. Len(log) \in Nat /\ drain.marker \in Nat /\ ckpt.marker \in Nat
  BY Shapes
<1>2. Len(log) > 0 => Len(log') > 0
  <2>1. CASE WriteLine
    BY <1>1, <2>1, WriteAppends
  <2>2. CASE ServerRestart
    <3>1. \E n \in 0 .. Len(log) : Len(log') = n + 1
      BY <2>2, RestartCuts
    <3> QED
      BY <1>1, <3>1
  <2>3. CASE ~WriteLine /\ ~ServerRestart
    BY <2>3 DEF Next, Server, Tick, ServerShutdown, TellRestart, Worker, List, BeginDrain, Pull,
         Flush, Failure, PullFail, WriteFail, SetFail, Crash, vars, serverVars
  <2> QED
    BY <2>1, <2>2, <2>3
<1>3. pc' # "idle" => Len(log) > 0
  BY DEF Facts, Polling, Next, Server, Tick, WriteLine, ServerShutdown, ServerRestart, TellRestart, Worker, List,
         BeginDrain, Pull, Flush, Failure, PullFail, WriteFail, SetFail, Crash, EndPoll, vars,
         pollVars
<1>4. ASSUME Reading', drain'.dropFirst PROVE drain'.marker > 0
  <2>1. CASE BeginDrain
    <3>1. PICK restarted \in BOOLEAN :
            drain' = IF ckpt.found /\ (Shrank \/ restarted) THEN RewoundDrain(restarted)
                     ELSE [NoDrain EXCEPT !.marker = ckpt.marker]
      <4>1. (ckpt.found /\ Unhandled # {} /\ ~Idle(PendingAt)) \in BOOLEAN
        BY DEF Idle
      <4> QED
        BY <2>1, <4>1 DEF BeginDrain
    <3>2. CASE drain' = RewoundDrain(restarted)
      BY <1>4, <3>2, RewoundFrom
    <3>3. CASE drain' = [NoDrain EXCEPT !.marker = ckpt.marker]
      BY <1>4, <3>3 DEF NoDrain
    <3> QED
      BY <3>1, <3>2, <3>3
  <2>2. CASE Pull
    <3>1. PICK m \in NextMarkers(drain.marker) :
            /\ drain'.marker = m
            /\ drain'.dropFirst = (drain.dropFirst /\ Chunk(drain.marker) = << >>)
      <4>1. drain \in Drains
        BY DEF IInv, TypeOK, Drains
      <4> QED
        BY <2>2, <4>1 DEF Pull, Drains
    <3>2. drain.dropFirst /\ Reading /\ Chunk(drain.marker) = << >>
      BY <1>4, <2>2, <3>1 DEF Pull, Reading
    <3>3. drain.marker > 0 /\ Len(log) > 0
      BY <2>2, <3>2 DEF Facts, Polling, Pull
    <3>4. CASE drain.marker < Len(log)
      <4>1. Chunk(drain.marker) = SubSeq(log, drain.marker + 1, Lesser(drain.marker + ChunkLines, Len(log)))
        BY <3>4 DEF Chunk
      <4>2. NextMarkers(drain.marker) = {drain.marker + Len(Chunk(drain.marker))}
        BY <3>4 DEF NextMarkers
      <4>3. Len(Chunk(drain.marker)) = 0
        BY <3>2
      <4> QED
        BY <1>1, <3>1, <3>3, <4>2, <4>3
    <3>5. CASE ~(drain.marker < Len(log))
      BY <3>1, <3>3, <3>5 DEF NextMarkers
    <3> QED
      BY <3>4, <3>5
  <2>3. CASE Flush
    <3>1. CASE drain.atEnd
      BY <1>4, <2>3, <3>1 DEF Flush, EndPoll, NoDrain
    <3>2. CASE ~drain.atEnd
      <4>1. drain' = [drain EXCEPT !.gen = 0, !.pending = << >>]
        BY <2>3, <3>2 DEF Flush
      <4>2. drain \in Drains
        BY DEF IInv, TypeOK, Drains
      <4>3. drain'.marker = drain.marker /\ drain'.dropFirst = drain.dropFirst
        BY <4>1, <4>2 DEF Drains
      <4> QED
        BY <1>4, <2>3, <4>3 DEF Flush, Facts, Polling, Reading
    <3> QED
      BY <3>1, <3>2
  <2>4. CASE ~BeginDrain /\ ~Pull /\ ~Flush
    <3>1. \/ UNCHANGED <<pc, drain>> \/ pc' \in {"idle", "listed"}
      BY <2>4 DEF Next, Server, Tick, WriteLine, ServerShutdown, ServerRestart, TellRestart, Worker, List,
           Failure, PullFail, WriteFail, SetFail, Crash, EndPoll, vars, pollVars
    <3> QED
      BY <1>4, <3>1 DEF Facts, Polling, Reading
  <2> QED
    BY <2>1, <2>2, <2>3, <2>4
<1> QED
  BY <1>2, <1>3, <1>4 DEF Polling

LEMMA FactsOK ==
    ASSUME IInv, Facts, [Next]_vars
    PROVE  Facts'
BY ServerFacts, RingFacts, PollingFacts DEF Facts

\* The batch that a turn of the loop adds to comes from lines of the file.
LEMMA PulledLines ==
    ASSUME IInv
    PROVE  LET read == Chunk(drain.marker)
               recs == IF drain.dropFirst /\ read # << >> THEN Tail(read) ELSE read
               kept == IF drain.dedupe THEN dropAlreadyShipped(recs) ELSE recs
           IN  recs \in Seq(Genuine) /\ kept \in Seq(Genuine)
<1>1. drain.marker \in Positions
  BY DEF IInv, TypeOK
<1> DEFINE read == Chunk(drain.marker)
           recs == IF drain.dropFirst /\ read # << >> THEN Tail(read) ELSE read
<1>2. recs \in Seq(Genuine)
  BY <1>1, ChunkTypes
<1> HIDE DEF recs
<1>3. dropAlreadyShipped(recs) \in Seq(Genuine)
  BY <1>2, KeptLines
<1> QED
  BY <1>2, <1>3 DEF recs

-----------------------------------------------------------------------------
(* A restart is counted once.                                              *)

\* The reports of one restart lie within a window.
Brief == EventLead + EventLag < DedupWindow

\* The restarts counted are those this process was told of.
Notified ==
    /\ \A i \in DOMAIN restarts : restarts[i] <= clock /\ NumberOf(restarts[i]) \in told
    /\ \A k \in told : \E i \in DOMAIN restarts : NumberOf(restarts[i]) = k

\* The restarts over when a report of this date is of the next one.
Over(at) == {d \in downs : d + EventLag < at}

LEMMA OverIs ==
    ASSUME IInv, NEW a
    PROVE  /\ IsFiniteSet(Over(a)) /\ Cardinality(Over(a)) \in Nat
           /\ NumberOf(a) = Cardinality(Over(a)) + 1
<1>1. IsFiniteSet(downs)
  BY Numbers
<1>2. IsFiniteSet(Over(a))
  BY <1>1, FS_Subset DEF Over
<1> QED
  BY <1>2, FS_CardinalityType DEF NumberOf, Over

\* Reports within a window are of one restart ...
LEMMA OverTogether ==
    ASSUME IInv, DownsApart, Spaced, NEW a \in Dates, NEW b \in Dates,
           a - b \in (1 - DedupWindow) .. (DedupWindow - 1)
    PROVE  Over(a) \subseteq Over(b)
<1>1. /\ EventLead \in Nat /\ EventLag \in Nat /\ DedupWindow \in Nat /\ RestartGap \in Nat
      /\ DedupWindow + EventLead + EventLag <= RestartGap
      /\ a \in Nat /\ b \in Nat
  BY Spacing, Constants, Shapes
<1> SUFFICES ASSUME NEW d \in downs, d + EventLag < a PROVE d + EventLag < b
  BY DEF Over
<1>2. d \in Nat /\ a < b + DedupWindow
  <2>1. d \in Nat
    BY Shapes
  <2> QED
    BY <1>1, <2>1
<1>3. CASE a = shutdown
  <2>1. shutdown # None
    BY <1>1, <1>3 DEF None
  <2>2. a + EventLead - d >= RestartGap
    BY <1>3, <2>1 DEF DownsApart
  <2> QED
    BY <1>1, <1>2, <2>2
<1>4. CASE a # shutdown
  <2>1. PICK q \in downs : Of(a, q)
    BY <1>4 DEF Dates
  <2>2. q \in Nat /\ q <= a + EventLead /\ a <= q + EventLag
    BY <2>1, Shapes DEF Of
  <2>3. d < q
    BY <1>1, <1>2, <2>2
  <2>4. q - d >= RestartGap
    BY <2>1, <2>3 DEF DownsApart
  <2> QED
    BY <1>1, <1>2, <2>2, <2>4
<1> QED
  BY <1>3, <1>4

LEMMA WithinIsSame ==
    ASSUME IInv, DownsApart, Spaced, NEW a \in Dates, NEW b \in Dates,
           a - b \in (1 - DedupWindow) .. (DedupWindow - 1)
    PROVE  NumberOf(a) = NumberOf(b)
<1>1. a \in Nat /\ b \in Nat /\ DedupWindow \in Nat
  BY Shapes, Constants
<1>2. b - a \in (1 - DedupWindow) .. (DedupWindow - 1)
  BY <1>1
<1>3. Over(a) \subseteq Over(b)
  BY OverTogether
<1>4. Over(b) \subseteq Over(a)
  BY <1>2, OverTogether
<1>5. Over(a) = Over(b)
  BY <1>3, <1>4
<1> QED
  BY <1>5, OverIs

\* ... and others are not.
LEMMA OverApart ==
    ASSUME IInv, DownsApart, Spaced, Brief, NEW a \in Dates, NEW b \in Dates,
           b - a >= DedupWindow
    PROVE  NumberOf(a) # NumberOf(b)
<1>1. /\ EventLead \in Nat /\ EventLag \in Nat /\ DedupWindow \in Nat /\ RestartGap \in Nat
      /\ DedupWindow + EventLead + EventLag <= RestartGap
      /\ EventLead + EventLag < DedupWindow
      /\ a \in Nat /\ b \in Nat
  BY Spacing, Constants, Shapes DEF Brief
<1>2. Over(a) \subseteq Over(b)
  <2>1. \A d \in downs : d \in Nat
    BY Shapes
  <2>2. \A d \in downs : d + EventLag < a => d + EventLag < b
    BY <1>1, <2>1
  <2> QED
    BY <2>2 DEF Over
<1>3. ASSUME NEW q \in downs, q + EventLag < b, a <= q + EventLag PROVE NumberOf(a) # NumberOf(b)
  <2>1. q \in Over(b) /\ q \notin Over(a)
    BY <1>1, <1>3, Shapes DEF Over
  <2>2. Cardinality(Over(a)) # Cardinality(Over(b))
    BY <1>2, <2>1, OverIs, FS_Subset
  <2> QED
    BY <2>2, OverIs
<1>4. CASE \E q \in downs : Of(a, q)
  <2>1. PICK q \in downs : q <= a + EventLead /\ a <= q + EventLag
    BY <1>4 DEF Of
  <2>2. q \in Nat
    BY <2>1, Shapes
  <2> QED
    BY <1>1, <1>3, <2>1, <2>2
<1>5. CASE a = shutdown
  <2>1. shutdown # None /\ b # shutdown
    BY <1>1, <1>5 DEF None
  <2>2. PICK q \in downs : q <= b + EventLead /\ b <= q + EventLag
    BY <2>1 DEF Dates, Of
  <2>3. q \in Nat /\ a + EventLead - q >= RestartGap
    BY <1>5, <2>1, <2>2, Shapes DEF DownsApart
  <2> QED
    BY <1>1, <2>2, <2>3
<1> QED
  BY <1>4, <1>5 DEF Dates

LEMMA NoticeNotified ==
    ASSUME IInv, DownsApart, Spaced, Notified, NEW at \in Dates, at <= clock, NotifyRestart(at),
           UNCHANGED <<clock, downs>>
    PROVE  Notified'
<1>1. /\ restarts \in Seq(Dates) /\ Len(restarts) \in Nat /\ DOMAIN restarts = 1 .. Len(restarts)
      /\ RestartGen = Len(restarts)
      /\ \A i \in DOMAIN restarts : restarts[i] \in Dates
  BY Shapes DEF IInv, Reported
<1>2. told' = told \union {NumberOf(at)} /\ \A d : NumberOf(d)' = NumberOf(d)
  BY DEF NotifyRestart, NumberOf
<1>3. CASE Folds(at, RestartGen)
  <2>1. restarts' = restarts
    BY <1>3 DEF NotifyRestart
  <2>2. PICK i \in DOMAIN restarts : at - restarts[i] \in (1 - DedupWindow) .. (DedupWindow - 1)
    BY <1>1, <1>3 DEF Folds
  <2>3. NumberOf(restarts[i]) = NumberOf(at)
    BY <1>1, <2>2, WithinIsSame
  <2> QED
    BY <1>2, <2>1, <2>2, <2>3 DEF Notified
<1>4. CASE ~Folds(at, RestartGen)
  <2>1. restarts' = Append(restarts, at)
    BY <1>4 DEF NotifyRestart
  <2>2. /\ DOMAIN restarts' = 1 .. (Len(restarts) + 1)
        /\ \A i \in 1 .. Len(restarts) : restarts'[i] = restarts[i]
        /\ restarts'[Len(restarts) + 1] = at
    BY <1>1, <2>1, AppendProperties
  <2>3. ASSUME NEW i \in 1 .. (Len(restarts) + 1)
        PROVE  restarts'[i] <= clock /\ NumberOf(restarts'[i]) \in told'
    <3>1. CASE i = Len(restarts) + 1
      BY <1>2, <2>2, <3>1
    <3>2. CASE i # Len(restarts) + 1
      <4>1. i \in 1 .. Len(restarts)
        BY <1>1, <3>2
      <4> QED
        BY <1>1, <1>2, <2>2, <4>1 DEF Notified
    <3> QED
      BY <3>1, <3>2
  <2>4. ASSUME NEW k \in told' PROVE \E i \in 1 .. (Len(restarts) + 1) : NumberOf(restarts'[i]) = k
    <3>1. CASE k = NumberOf(at)
      <4>1. Len(restarts) + 1 \in 1 .. (Len(restarts) + 1)
        BY <1>1
      <4> QED
        BY <2>2, <3>1, <4>1
    <3>2. CASE k # NumberOf(at)
      <4>1. PICK i \in 1 .. Len(restarts) : NumberOf(restarts[i]) = k
        BY <1>1, <1>2, <2>4, <3>2 DEF Notified
      <4>2. i \in 1 .. (Len(restarts) + 1)
        BY <1>1, <4>1
      <4> QED
        BY <2>2, <4>1, <4>2
    <3> QED
      BY <3>1, <3>2
  <2> QED
    BY <1>2, <2>2, <2>3, <2>4 DEF Notified
<1> QED
  BY <1>3, <1>4

LEMMA BannerNotified ==
    ASSUME IInv, DownsApart, Spaced, Notified, NEW kept \in Seq(Genuine), noteServerStart(kept),
           UNCHANGED <<clock, downs>>
    PROVE  Notified'
<1> DEFINE banners == {k \in DOMAIN kept : kept[k].banner /\ kept[k].at > floor}
<1>1. CASE banners = {}
  <2>1. UNCHANGED <<restarts, told>>
    BY <1>1 DEF noteServerStart
  <2> QED
    BY <2>1 DEF Notified, NumberOf
<1>2. CASE banners # {}
  <2> DEFINE first == CHOOSE k \in banners : \A j \in banners : k <= j
  <2>1. banners \in SUBSET Nat
    OBVIOUS
  <2>2. \A k \in banners : kept[k].at \in Dates /\ kept[k].at <= clock
    <3>1. \A k \in DOMAIN kept : kept[k] \in Genuine
      BY ElementOfSeq
    <3>2. \A d \in downs : d \in Dates /\ d <= clock
      BY DownDates DEF DownsApart
    <3> QED
      BY <3>1, <3>2 DEF Genuine
  <2>3. NotifyRestart(kept[first].at)
    BY <1>2, Zenon DEF noteServerStart
  <2> HIDE DEF banners
  <2>4. first \in banners
    BY <1>2, <2>1, Least, Zenon
  <2> HIDE DEF first
  <2>5. PICK at \in Dates : at = kept[first].at /\ at <= clock
    BY <2>2, <2>4
  <2>6. NotifyRestart(at)
    BY <2>3, <2>5
  <2> QED
    BY <2>5, <2>6, NoticeNotified
<1> QED
  BY <1>1, <1>2

LEMMA NotifiedOK ==
    ASSUME IInv, Facts, Spaced, Notified, [Next]_vars
    PROVE  Notified'
<1>1. \A i \in DOMAIN restarts : restarts[i] \in Dates /\ restarts[i] \in Nat
  BY Shapes
<1>2. CASE TellRestart
  <2>1. PICK at \in untold : at <= clock /\ NotifyRestart(at)
    BY <1>2 DEF TellRestart
  <2>2. at \in Dates /\ UNCHANGED <<clock, downs>>
    BY <1>2, <2>1, Shapes DEF TellRestart, serverVars
  <2> QED
    BY <2>1, <2>2, NoticeNotified DEF Facts
<1>3. CASE Pull
  <2> DEFINE read == Chunk(drain.marker)
             recs == IF drain.dropFirst /\ read # << >> THEN Tail(read) ELSE read
             kept == IF drain.dedupe THEN dropAlreadyShipped(recs) ELSE recs
  <2>1. noteServerStart(kept) /\ UNCHANGED <<clock, downs>>
    BY <1>3 DEF Pull, serverVars
  <2>2. kept \in Seq(Genuine)
    BY PulledLines
  <2> HIDE DEF kept
  <2> QED
    BY <2>1, <2>2, BannerNotified DEF Facts
<1>4. CASE ServerRestart
  <2>1. UNCHANGED <<clock, restarts, told>> /\ downs' = downs \union {clock}
    BY <1>4 DEF ServerRestart, memVars
  <2>2. ASSUME NEW i \in DOMAIN restarts PROVE NumberOf(restarts[i])' = NumberOf(restarts[i])
    <3>1. restarts[i] <= clock /\ restarts[i] \in Nat /\ clock \in Nat
      BY <1>1, Shapes DEF Notified
    <3>2. ~(clock + EventLag < restarts[i])
      BY <3>1, Spacing
    <3>3. {d \in downs' : d + EventLag < restarts[i]} = {d \in downs : d + EventLag < restarts[i]}
      BY <2>1, <3>2
    <3> QED
      BY <2>1, <3>3 DEF NumberOf
  <2> QED
    BY <2>1, <2>2 DEF Notified
<1>5. CASE Crash
  <2>1. restarts' = << >> /\ told' = {}
    BY <1>5 DEF Crash
  <2> QED
    BY <2>1 DEF Notified
<1>6. CASE Tick
  <2>1. UNCHANGED <<restarts, told, downs>> /\ clock' = clock + 1 /\ clock \in Nat
    BY <1>6, Shapes DEF Tick, memVars, histVars
  <2>2. \A i \in DOMAIN restarts : restarts[i] <= clock'
    BY <1>1, <2>1 DEF Notified
  <2> QED
    BY <2>1, <2>2 DEF Notified, NumberOf
<1>7. CASE ~TellRestart /\ ~Pull /\ ~ServerRestart /\ ~Crash /\ ~Tick
  <2>1. UNCHANGED <<restarts, told, downs, clock>>
    BY <1>7 DEF Next, Server, WriteLine, ServerShutdown, Worker, List, BeginDrain, Flush,
         Failure, PullFail, WriteFail, SetFail, vars, serverVars, memVars, histVars
  <2> QED
    BY <2>1 DEF Notified, NumberOf
<1> QED
  BY <1>2, <1>3, <1>4, <1>5, <1>6, <1>7

LEMMA CountedOnce == Spaced /\ Brief /\ IInv /\ Facts /\ Notified => OneNoticePerRestart
<1> SUFFICES ASSUME Spaced, Brief, IInv, Facts, Notified PROVE OneNoticePerRestart
  OBVIOUS
<1> DEFINE n == Len(restarts)
           number == [i \in 1 .. n |-> NumberOf(restarts[i])]
<1>1. /\ n \in Nat /\ DOMAIN restarts = 1 .. n
      /\ \A i \in 1 .. n : restarts[i] \in Dates /\ restarts[i] \in Nat
  BY Shapes
<1>2. number \in [1 .. n -> told]
  BY <1>1 DEF Notified
<1>3. ASSUME NEW i \in 1 .. n, NEW j \in 1 .. n, i # j PROVE number[i] # number[j]
  <2>1. restarts[i] - restarts[j] \notin (1 - DedupWindow) .. (DedupWindow - 1)
    BY <1>1, <1>3 DEF IInv, Apart
  <2>2. restarts[i] - restarts[j] >= DedupWindow \/ restarts[j] - restarts[i] >= DedupWindow
    BY <1>1, <2>1, Constants
  <2>3. NumberOf(restarts[i]) # NumberOf(restarts[j])
    BY <1>1, <2>2, OverApart DEF Facts
  <2> QED
    BY <2>3
<1>4. \A k \in told : \E i \in 1 .. n : number[i] = k
  BY <1>1 DEF Notified
<1> HIDE DEF number
<1>5. number \in Bijection(1 .. n, told)
  BY <1>2, <1>3, <1>4 DEF Bijection, Injection, Surjection, IsInjective
<1>6. IsFiniteSet(1 .. n) /\ Cardinality(1 .. n) = n
  BY <1>1, FS_Interval
<1>7. Cardinality(told) = n
  BY <1>5, <1>6, FS_Bijection DEF ExistsBijection
<1> QED
  BY <1>7 DEF OneNoticePerRestart, RestartGen

LEMMA InitFacts == Init => Facts /\ Notified
<1> SUFFICES ASSUME Init PROVE Facts /\ Notified
  OBVIOUS
<1>1. /\ clock = 0 /\ downs = {} /\ log = << >> /\ ring = << >> /\ pc = "idle"
      /\ shutdown = None /\ restarts = << >> /\ told = {}
  BY DEF Init
<1>2. DownsApart /\ RingSunk /\ Polling
  BY <1>1 DEF DownsApart, RingSunk, Polling, Reading
<1>3. Len(log) = 0 /\ 1 .. 0 = {}
  BY <1>1
<1>4. InOrder /\ Numbered /\ Notified
  BY <1>1, <1>3 DEF InOrder, Numbered, Notified
<1> QED
  BY <1>2, <1>4 DEF Facts

(* RDS reports one restart at several dates, from its shutdown to the end  *)
(* of the failover, the log has a banner with yet another, and both are    *)
(* told again when the log and the events are read again: in whatever      *)
(* order they come, the restarts that a process counts are as many as      *)
(* those it was told of, none twice and no two as one (NotifyRestart,      *)
(* noteServerStart, watchRestarts).  It takes that the reports of one      *)
(* restart lie within restartDedupWindow and those of two do not; it needs *)
(* both, since a report beyond the window is another restart to the code   *)
(* and two restarts within it are one.                                     *)
THEOREM OneRestartOneNotice ==
    ASSUME Spaced, Brief
    PROVE  Spec => []OneNoticePerRestart
<1> DEFINE Counted == IInv /\ Facts /\ Notified
<1>1. Init => Counted
  BY InitOK, InitFacts
<1>2. Counted /\ [Next]_vars => Counted'
  BY StepOK, FactsOK, NotifiedOK
<1>3. Counted => OneNoticePerRestart
  BY CountedOnce
<1> QED
  BY <1>1, <1>2, <1>3, PTL DEF Spec

-----------------------------------------------------------------------------
(* What is due stays due until a rewind for it is saved.                   *)

\* Two reports within a window are of one restart.
LEMMA SameRestart ==
    ASSUME IInv, DownsApart, Spaced, NEW r \in downs, NEW d \in Nat, Of(d, r), NEW e \in Dates,
           e - d \in (1 - DedupWindow) .. (DedupWindow - 1)
    PROVE  Of(e, r)
<1>1. /\ EventLead \in Nat /\ EventLag \in Nat /\ DedupWindow \in Nat /\ RestartGap \in Nat
      /\ DedupWindow + EventLead + EventLag <= RestartGap
      /\ e \in Nat /\ r \in Nat
  BY Spacing, Constants, Shapes
<1>2. e < d + DedupWindow /\ d < e + DedupWindow
  BY <1>1
<1>3. r <= d + EventLead /\ d <= r + EventLag
  BY DEF Of
<1>4. CASE e = shutdown
  <2>1. shutdown # None
    BY <1>1, <1>4 DEF None
  <2>2. e + EventLead - r >= RestartGap
    BY <1>4, <2>1 DEF DownsApart
  <2> QED
    BY <1>1, <1>2, <1>3, <2>2
<1>5. CASE e # shutdown
  <2>1. PICK q \in downs : Of(e, q)
    BY <1>5 DEF Dates
  <2>2. q \in Nat /\ q <= e + EventLead /\ e <= q + EventLag
    BY <2>1, Shapes DEF Of
  <2>3. q = r
    <3>1. (q < r => r - q >= RestartGap) /\ (r < q => q - r >= RestartGap)
      BY DEF DownsApart
    <3> QED
      BY <1>1, <1>2, <1>3, <2>2, <3>1
  <2> QED
    BY <2>1, <2>3
<1> QED
  BY <1>4, <1>5

\* A notice leaves every restart to be rewound for so: where it takes the
\* place of an event to come, it is of the same restart.
LEMMA NoticeKeepsDue ==
    ASSUME IInv, DownsApart, Spaced, NEW at \in Dates, NotifyRestart(at),
           untold \ {at} \subseteq untold', NEW g \in 0 .. RestartGen,
           NEW r \in downs, Awaited(r, g)
    PROVE  Awaited(r, g)'
<1>1. /\ Len(restarts) \in Nat /\ DOMAIN restarts = 1 .. Len(restarts) /\ RestartGen = Len(restarts)
      /\ \A d \in Dates : d \in Nat
      /\ untold \subseteq Dates
  BY Shapes
<1>2. PICK d \in Due(g) : Of(d, r)
  BY DEF Awaited
<1>3. CASE Folds(at, RestartGen)
  <2>1. restarts' = restarts /\ RestartGen' = RestartGen
    BY <1>3 DEF NotifyRestart, RestartGen
  <2>2. Open(g)' = Open(g)
    BY <2>1 DEF Open
  <2>3. ASSUME NEW e \in untold, ~Folds(e, RestartGen) PROVE e \in untold' /\ ~Folds(e, RestartGen)'
    <3>1. e # at
      BY <1>3, <2>3
    <3> QED
      BY <2>1, <2>3, <3>1 DEF Folds
  <2>4. d \in Due(g)'
    BY <1>2, <2>2, <2>3 DEF Due
  <2> QED
    BY <1>2, <2>4 DEF Awaited, Of
<1>4. CASE ~Folds(at, RestartGen)
  <2>1. /\ RestartGen' = Len(restarts) + 1
        /\ \A i \in 1 .. Len(restarts) : restarts'[i] = restarts[i]
        /\ restarts'[Len(restarts) + 1] = at
    <3>1. restarts \in Seq(Dates) /\ restarts' = Append(restarts, at)
      BY <1>4 DEF IInv, Reported, NotifyRestart
    <3> QED
      BY <1>1, <3>1, AppendProperties DEF RestartGen
  <2>2. Open(g) \subseteq Open(g)'
    <3> SUFFICES ASSUME NEW i \in (g + 1) .. RestartGen PROVE restarts[i] \in Open(g)'
      BY DEF Open
    <3>1. i \in (g + 1) .. RestartGen' /\ i \in 1 .. Len(restarts)
      BY <1>1, <2>1
    <3> QED
      BY <2>1, <3>1 DEF Open
  <2>3. at \in Due(g)'
    <3>1. Len(restarts) + 1 \in (g + 1) .. RestartGen'
      BY <1>1, <2>1
    <3> QED
      BY <2>1, <3>1 DEF Open, Due
  <2>4. CASE d \in Open(g)
    <3>1. d \in Due(g)'
      BY <2>2, <2>4 DEF Due
    <3> QED
      BY <1>2, <3>1 DEF Awaited, Of
  <2>5. CASE d = at
    BY <1>2, <2>3, <2>5 DEF Awaited, Of
  <2>6. CASE d \notin Open(g) /\ d # at
    <3>1. d \in untold /\ ~Folds(d, RestartGen) /\ d \in untold' /\ d \in Nat
      BY <1>1, <1>2, <2>6 DEF Due
    <3>2. CASE d - at \in (1 - DedupWindow) .. (DedupWindow - 1)
      <4>1. at - d \in (1 - DedupWindow) .. (DedupWindow - 1)
        BY <1>1, <3>1, <3>2, Constants
      <4>2. Of(at, r)
        BY <1>2, <3>1, <4>1, SameRestart
      <4> QED
        BY <2>3, <4>2 DEF Awaited, Of
    <3>3. CASE d - at \notin (1 - DedupWindow) .. (DedupWindow - 1)
      <4>1. ASSUME NEW i \in 1 .. (Len(restarts) + 1)
            PROVE  d - restarts'[i] \notin (1 - DedupWindow) .. (DedupWindow - 1)
        <5>1. CASE i = Len(restarts) + 1
          BY <2>1, <3>3, <5>1
        <5>2. CASE i # Len(restarts) + 1
          <6>1. i \in 1 .. Len(restarts)
            BY <1>1, <5>2
          <6> QED
            BY <1>1, <2>1, <3>1, <6>1 DEF Folds
        <5> QED
          BY <5>1, <5>2
      <4>2. ~Folds(d, RestartGen)'
        BY <2>1, <4>1 DEF Folds
      <4>3. d \in Due(g)'
        BY <3>1, <4>2 DEF Due
      <4> QED
        BY <1>2, <4>3 DEF Awaited, Of
    <3> QED
      BY <3>2, <3>3
  <2> QED
    BY <2>4, <2>5, <2>6
<1> QED
  BY <1>3, <1>4

LEMMA BannerKeepsDue ==
    ASSUME IInv, DownsApart, Spaced, NEW kept \in Seq(Genuine), noteServerStart(kept),
           untold' = untold, NEW g \in 0 .. RestartGen, NEW r \in downs, Awaited(r, g)
    PROVE  Awaited(r, g)'
<1> DEFINE banners == {k \in DOMAIN kept : kept[k].banner /\ kept[k].at > floor}
<1>1. CASE banners = {}
  <2>1. UNCHANGED restarts
    BY <1>1 DEF noteServerStart
  <2> QED
    BY <2>1 DEF Awaited, Due, Open, Folds, RestartGen
<1>2. CASE banners # {}
  <2> DEFINE first == CHOOSE k \in banners : \A j \in banners : k <= j
  <2>1. banners \in SUBSET Nat
    OBVIOUS
  <2>2. \A k \in banners : kept[k].at \in Dates
    <3>1. \A k \in DOMAIN kept : kept[k] \in Genuine
      BY ElementOfSeq
    <3>2. \A d \in downs : d \in Dates
      BY DownDates
    <3> QED
      BY <3>1, <3>2 DEF Genuine
  <2>3. NotifyRestart(kept[first].at)
    BY <1>2, Zenon DEF noteServerStart
  <2> HIDE DEF banners
  <2>4. first \in banners
    BY <1>2, <2>1, Least, Zenon
  <2> HIDE DEF first
  <2>5. kept[first].at \in Dates
    BY <2>2, <2>4
  <2>6. PICK at \in Dates : at = kept[first].at
    BY <2>5
  <2>7. NotifyRestart(at) /\ untold \ {at} \subseteq untold'
    BY <2>3, <2>6
  <2> QED
    BY <2>7, NoticeKeepsDue
<1> QED
  BY <1>1, <1>2

\* All that a step which neither restarts the server nor ends the process
\* does to the file, the sink, the marks and the restarts due.
Keeps ==
    /\ Len(log) <= Len(log') /\ \A p \in 1 .. Len(log) : log'[p] = log[p]
    /\ \A x \in Texts : sunk[x] <= sunk'[x]
    /\ oldestMark # None => oldestMark' = oldestMark
    /\ \A u \in Ticks : u < clock => marks'[u] = marks[u]
    /\ \A g \in 0 .. RestartGen, r \in downs : Awaited(r, g) => Awaited(r, g)'

Steady ==
    Tick \/ WriteLine \/ ServerShutdown \/ TellRestart \/ Worker \/ PullFail \/ WriteFail \/ SetFail \/ UNCHANGED vars

LEMMA KeepsOK ==
    ASSUME IInv, Facts, Spaced, Steady
    PROVE  Keeps
<1>1. Len(log) <= Len(log') /\ \A p \in 1 .. Len(log) : log'[p] = log[p]
  <2>1. CASE WriteLine
    BY <2>1, WriteAppends, Shapes
  <2>2. CASE ~WriteLine
    <3>1. log' = log
      BY <2>2 DEF Steady, Tick, ServerShutdown, TellRestart, Worker, List, BeginDrain, Pull, Flush,
           PullFail, WriteFail, SetFail, vars, serverVars
    <3> QED
      BY <3>1, Shapes
  <2> QED
    BY <2>1, <2>2
<1>2. \A x \in Texts : sunk[x] <= sunk'[x]
  BY RingFacts DEF Facts, Steady, Next, Server, Failure
<1>3. /\ oldestMark # None => oldestMark' = oldestMark
      /\ \A u \in Ticks : u < clock => marks'[u] = marks[u]
  <2>1. CASE Flush
    <3>1. recordMark(drain.marker)
      BY <2>1 DEF Flush
    <3>2. \A u \in Ticks : u < clock => marks'[u] = marks[u]
      BY <3>1, Shapes DEF recordMark
    <3> QED
      BY <3>1, <3>2 DEF recordMark
  <2>2. CASE ~Flush
    BY <2>2 DEF Steady, Tick, WriteLine, ServerShutdown, TellRestart, Worker, List, BeginDrain, Pull,
         PullFail, WriteFail, SetFail, vars, memVars
  <2> QED
    BY <2>1, <2>2
<1>4. ASSUME NEW g \in 0 .. RestartGen, NEW r \in downs, Awaited(r, g) PROVE Awaited(r, g)'
  <2>1. CASE TellRestart
    <3>1. PICK at \in untold : untold' = untold \ {at} /\ NotifyRestart(at)
      BY <2>1 DEF TellRestart
    <3>2. at \in Dates /\ untold \ {at} \subseteq untold'
      BY <3>1, Shapes
    <3> QED
      BY <1>4, <3>1, <3>2, NoticeKeepsDue DEF Facts
  <2>2. CASE Pull
    <3> DEFINE read == Chunk(drain.marker)
               recs == IF drain.dropFirst /\ read # << >> THEN Tail(read) ELSE read
               kept == IF drain.dedupe THEN dropAlreadyShipped(recs) ELSE recs
    <3>1. noteServerStart(kept) /\ untold' = untold
      BY <2>2 DEF Pull
    <3>2. kept \in Seq(Genuine)
      BY PulledLines
    <3> HIDE DEF kept
    <3> QED
      BY <1>4, <3>1, <3>2, BannerKeepsDue DEF Facts
  <2>3. CASE ServerShutdown
    <3>1. untold \subseteq untold' /\ restarts' = restarts
      BY <2>3 DEF ServerShutdown, memVars
    <3>2. Due(g) \subseteq Due(g)'
      BY <3>1 DEF Due, Open, Folds, RestartGen
    <3> QED
      BY <1>4, <3>2 DEF Awaited, Of
  <2>4. CASE ~TellRestart /\ ~Pull /\ ~ServerShutdown
    <3>1. UNCHANGED <<untold, restarts>>
      BY <2>4 DEF Steady, Tick, WriteLine, Worker, List, BeginDrain, Flush,
           PullFail, WriteFail, SetFail, vars, memVars
    <3> QED
      BY <1>4, <3>1 DEF Awaited, Due, Open, Folds, RestartGen
  <2> QED
    BY <2>1, <2>2, <2>3, <2>4
<1> QED
  BY <1>1, <1>2, <1>3, <1>4 DEF Keeps

LEMMA MoreDue ==
    ASSUME IInv, NEW g \in 0 .. RestartGen, NEW h \in 0 .. RestartGen, g <= h
    PROVE  Due(h) \subseteq Due(g)
<1>1. Open(h) \subseteq Open(g)
  <2> SUFFICES ASSUME NEW i \in (h + 1) .. RestartGen PROVE restarts[i] \in Open(g)
    BY DEF Open
  <2>1. RestartGen \in Nat
    BY Shapes
  <2>2. i \in (g + 1) .. RestartGen
    BY <2>1
  <2> QED
    BY <2>2 DEF Open
<1> QED
  BY <1>1 DEF Due

\* A banner that promises a rewind goes on doing so.
LEMMA ReopensKept ==
    ASSUME IInv, Facts, Keeps, NEW g \in 0 .. RestartGen, NEW h, Due(g)' \subseteq Due(h)',
           NEW b, Reopens(b, g)
    PROVE  Reopens(b, h)' /\ log'[b].at = log[b].at
<1>1. b \in 1 .. Len(log) /\ log[b].banner /\ Awaited(log[b].at, g)
  BY DEF Reopens
<1>2. Len(log) \in Nat /\ Len(log) <= Len(log') /\ log'[b] = log[b]
  BY <1>1, Shapes DEF Keeps
<1>3. PICK r \in downs : r = log[b].at
  BY <1>1, Shapes
<1>4. r \in Nat /\ r <= clock /\ clock \in Nat
  BY <1>3, Shapes DEF Facts, DownsApart
<1>5. Awaited(r, h)'
  <2>1. Awaited(r, g)'
    BY <1>1, <1>3 DEF Keeps
  <2> QED
    BY <2>1 DEF Awaited
<1>6. Ahead(b, r + EventLag)'
  <2>1. PICK d \in Nat : d = r + EventLag
    BY <1>4, Spacing
  <2>2. \A u \in Ticks : u <= d - Margin => u < clock
    BY <1>4, <2>1, Spacing, Constants
  <2>3. Ahead(b, d)
    BY <1>3, <2>1 DEF Reopens
  <2>4. Ahead(b, d)'
    BY <2>2, <2>3 DEF Keeps, Ahead
  <2> QED
    BY <2>1, <2>4
<1>7. b \in 1 .. Len(log')
  BY <1>1, <1>2
<1> QED
  BY <1>1, <1>2, <1>3, <1>5, <1>6, <1>7 DEF Reopens

LEMMA InSinkKept ==
    ASSUME IInv, Keeps, NEW p, InSink(p), sunk' \in [Texts -> Nat]
    PROVE  InSink(p)'
<1>1. p \in 1 .. Len(log) /\ sunk[log[p].text] > 0 /\ log[p].text \in Texts
  BY Shapes DEF InSink
<1>2. log'[p] = log[p] /\ Len(log) \in Nat /\ Len(log) <= Len(log')
  BY <1>1, Shapes DEF Keeps
<1>3. sunk[log[p].text] \in Nat /\ sunk'[log[p].text] \in Nat
      /\ sunk[log[p].text] <= sunk'[log[p].text]
  BY <1>1, Shapes DEF Keeps
<1>4. p \in 1 .. Len(log')
  BY <1>1, <1>2
<1> QED
  BY <1>1, <1>2, <1>3, <1>4 DEF InSink

\* A step that leaves the checkpoint and what was handled alone.
LEMMA SavedKept ==
    ASSUME IInv, Facts, Keeps, Saved, sunk' \in [Texts -> Nat],
           ckpt'.marker = ckpt.marker, handledGen' = handledGen
    PROVE  Saved'
<1> SUFFICES ASSUME NEW p \in 1 .. ckpt.marker
             PROVE  InSink(p)' \/ \E b \in 1 .. p : Reopens(b, handledGen)'
  BY DEF Saved
<1>1. CASE InSink(p)
  BY <1>1, InSinkKept
<1>2. CASE ~InSink(p)
  <2>1. PICK b \in 1 .. p : Reopens(b, handledGen)
    BY <1>2 DEF Saved
  <2>2. handledGen \in 0 .. RestartGen
    BY Shapes
  <2> QED
    BY <2>1, <2>2, ReopensKept
<1> QED
  BY <1>1, <1>2

\* The same while a drain goes on.
LEMMA ReadKept ==
    ASSUME IInv, Facts, Keeps, Read, sunk' \in [Texts -> Nat],
           UNCHANGED <<pc, drain, handledGen>>
    PROVE  Read'
<1> SUFFICES ASSUME Reading, NEW p \in 1 .. ReadTo
             PROVE  \/ InSink(p)' \/ InBatch(p)'
                    \/ \E b \in 1 .. p : Reopens(b, Later(handledGen, drain.gen))'
  BY DEF Read, Reading, ReadTo, Later
<1> DEFINE g == Later(handledGen, drain.gen)
<1>1. g \in 0 .. RestartGen
  BY Shapes DEF Later
<1>2. CASE InSink(p)
  BY <1>2, InSinkKept
<1>3. CASE InBatch(p)
  <2>1. p \in 1 .. Len(log) /\ \E i \in DOMAIN drain.pending : drain.pending[i] = log[p].text
    BY <1>3 DEF InBatch
  <2>2. log'[p] = log[p] /\ p \in 1 .. Len(log')
    BY <2>1, Shapes DEF Keeps
  <2> QED
    BY <2>1, <2>2 DEF InBatch
<1>4. CASE ~InSink(p) /\ ~InBatch(p)
  <2>1. PICK b \in 1 .. p : Reopens(b, g)
    BY <1>4 DEF Read
  <2>2. Reopens(b, g)'
    BY <1>1, <2>1, ReopensKept
  <2>3. g' = g
    BY DEF Later
  <2> QED
    BY <2>2, <2>3
<1> QED
  BY <1>2, <1>3, <1>4

LEMMA ListedKept ==
    ASSUME IInv, Facts, Keeps, Listed, UNCHANGED <<pc, listing, handledGen>>,
           ckpt'.marker = ckpt.marker
    PROVE  Listed'
<1> SUFFICES ASSUME pc = "listed", NEW p \in 1 .. ckpt.marker
             PROVE  \/ p <= listing.size /\ p <= Len(log') /\ log'[p].at <= listing.lastWritten
                    \/ \E b \in 1 .. p :
                          Reopens(b, handledGen)' /\ log'[b].at + EventLag < listing.lastWritten + Margin
  BY DEF Listed
<1>1. CASE p <= listing.size /\ p <= Len(log) /\ log[p].at <= listing.lastWritten
  <2>1. p \in 1 .. Len(log) /\ p \in Nat
    BY <1>1, Shapes
  <2>2. log'[p] = log[p] /\ p <= Len(log')
    <3>1. /\ Len(log) \in Nat /\ Len(log) <= Len(log')
          /\ \A q \in 1 .. Len(log) : log'[q] = log[q]
      BY Shapes DEF Keeps
    <3> QED
      BY <2>1, <3>1
  <2> QED
    BY <1>1, <2>2
<1>2. CASE ~(p <= listing.size /\ p <= Len(log) /\ log[p].at <= listing.lastWritten)
  <2>1. PICK b \in 1 .. p : Reopens(b, handledGen) /\ log[b].at + EventLag < listing.lastWritten + Margin
    BY <1>2 DEF Listed
  <2>2. handledGen \in 0 .. RestartGen
    BY Shapes
  <2>3. Reopens(b, handledGen)' /\ log'[b].at = log[b].at
    BY <2>1, <2>2, ReopensKept
  <2> QED
    BY <2>1, <2>3
<1> QED
  BY <1>1, <1>2

LEMMA BystanderAnswered ==
    ASSUME IInv, IInv', Facts, Spaced, Answered,
           Tick \/ WriteLine \/ ServerShutdown \/ TellRestart \/ UNCHANGED vars
    PROVE  Answered'
<1>1. Keeps
  BY KeepsOK DEF Steady
<1>2. UNCHANGED <<pc, drain, listing, handledGen, ckpt>>
  BY DEF Tick, WriteLine, ServerShutdown, TellRestart, vars, memVars, pollVars
<1>3. sunk' \in [Texts -> Nat]
  BY DEF IInv, TypeOK
<1> QED
  BY <1>1, <1>2, <1>3, SavedKept, ReadKept, ListedKept DEF Answered

\* A listing shows the last write to a file none of whose lines is later.
LEMMA ListAnswered ==
    ASSUME IInv, IInv', Facts, Spaced, Answered, List
    PROVE  Answered'
<1>1. Keeps
  BY KeepsOK DEF Steady, Worker
<1>2. /\ UNCHANGED <<handledGen, ckpt, log>> /\ pc' = "listed"
      /\ listing'.size = Len(log) /\ listing'.lastWritten = log[Len(log)].at
      /\ Len(log) > 0
  BY DEF List, memVars, serverVars
<1>3. sunk' \in [Texts -> Nat]
  BY DEF IInv, TypeOK
<1>4. Saved'
  BY <1>1, <1>2, <1>3, SavedKept DEF Answered
<1>5. Read'
  BY <1>2 DEF Read, Reading
<1>6. ASSUME NEW p \in 1 .. ckpt.marker
      PROVE  \/ p <= Len(log) /\ log[p].at <= log[Len(log)].at
             \/ \E b \in 1 .. p :
                   Reopens(b, handledGen)' /\ log[b].at + EventLag < log[Len(log)].at + Margin
  <2>1. Len(log) \in Nat /\ Len(log) \in 1 .. Len(log) /\ ckpt.marker \in Nat
    BY <1>2, Shapes
  <2>2. CASE p <= Len(log)
    <3>1. p \in 1 .. Len(log)
      BY <2>1, <2>2
    <3> QED
      BY <2>1, <2>2, <3>1 DEF Facts, InOrder
  <2>3. CASE ~(p <= Len(log))
    <3>1. PICK b \in 1 .. p : Reopens(b, handledGen)
      BY <2>3 DEF Answered, Saved, InSink
    <3>2. handledGen \in 0 .. RestartGen
      BY Shapes
    <3>3. Reopens(b, handledGen)'
      BY <1>1, <1>2, <3>1, <3>2, ReopensKept
    <3>4. b \in 1 .. Len(log)
      BY <3>1 DEF Reopens
    <3>5. log[b].at <= log[Len(log)].at /\ log[b].at \in Nat /\ log[Len(log)].at \in Nat
      BY <2>1, <3>4, Shapes DEF Facts, InOrder
    <3>6. \A x, y \in Nat : x <= y => x + EventLag < y + Margin
      BY Spacing
    <3>7. log[b].at + EventLag < log[Len(log)].at + Margin
      BY <3>5, <3>6
    <3> QED
      BY <3>1, <3>3, <3>7
  <2> QED
    BY <2>2, <2>3
<1>7. Listed'
  BY <1>2, <1>6 DEF Listed
<1> QED
  BY <1>4, <1>5, <1>7 DEF Answered

\* What a drain has read and given to the sink may be saved.
LEMMA BatchSaved ==
    ASSUME IInv, IInv', Facts, Keeps, Read, Reading,
           NEW g, g = Later(handledGen, drain.gen), NEW h, Due(g)' \subseteq Due(h)',
           \A i \in DOMAIN drain.pending : sunk'[drain.pending[i]] > 0,
           NEW p \in 1 .. ReadTo
    PROVE  InSink(p)' \/ \E b \in 1 .. p : Reopens(b, h)'
<1>1. g \in 0 .. RestartGen
  BY Shapes DEF Later
<1>2. CASE InSink(p)
  BY <1>2, InSinkKept DEF IInv, TypeOK
<1>3. CASE InBatch(p)
  <2>1. p \in 1 .. Len(log) /\ \E i \in DOMAIN drain.pending : drain.pending[i] = log[p].text
    BY <1>3 DEF InBatch
  <2>2. log'[p] = log[p] /\ p \in 1 .. Len(log')
    BY <2>1, Shapes DEF Keeps
  <2> QED
    BY <2>1, <2>2 DEF InSink
<1>4. CASE ~InSink(p) /\ ~InBatch(p)
  <2>1. PICK b \in 1 .. p : Reopens(b, g)
    BY <1>4 DEF Read
  <2> QED
    BY <1>1, <2>1, ReopensKept
<1> QED
  BY <1>2, <1>3, <1>4

LEMMA FlushAnswered ==
    ASSUME IInv, IInv', Facts, Spaced, Answered, Flush
    PROVE  Answered'
<1>1. Keeps
  BY KeepsOK DEF Steady, Worker
<1> PICK g : g = Later(handledGen, drain.gen)
  OBVIOUS
<1>2. /\ UNCHANGED <<log, restarts, untold>> /\ pc = "flush" /\ ckpt'.marker = drain.marker
      /\ handledGen' = g
  BY DEF Flush, NextCheckpoint, serverVars, markRestartHandled, Later
<1>3. \A i \in DOMAIN drain.pending : sunk'[drain.pending[i]] > 0
  BY Shapes, SinkGrows DEF Flush
<1>4. Reading /\ Read
  BY <1>2 DEF Reading, Answered
<1>5. ASSUME NEW p \in 1 .. ReadTo
      PROVE  InSink(p)' \/ \E b \in 1 .. p : Reopens(b, g)'
  <2>1. Due(g)' \subseteq Due(g)'
    OBVIOUS
  <2> QED
    BY <1>1, <1>3, <1>4, <2>1, BatchSaved
<1>6. ASSUME NEW p, NEW b, Reopens(b, g)' PROVE Reopens(b, handledGen)'
  BY <1>2, <1>6
<1>7. Saved'
  <2>1. drain.marker \in Nat /\ (ReadTo = drain.marker \/ ReadTo = drain.marker + 1)
    BY Shapes DEF ReadTo
  <2>2. \A p \in 1 .. drain.marker : p \in 1 .. ReadTo
    BY <2>1
  <2> QED
    BY <1>2, <1>5, <1>6, <2>2 DEF Saved
<1>8. CASE drain.atEnd
  <2>1. pc' = "idle"
    BY <1>8 DEF Flush, EndPoll
  <2> QED
    BY <1>7, <2>1 DEF Answered, Read, Reading, Listed
<1>9. CASE ~drain.atEnd
  <2>1. pc' = "pull" /\ drain' = [drain EXCEPT !.gen = 0, !.pending = << >>]
    BY <1>9 DEF Flush
  <2>2. drain \in Drains
    BY DEF IInv, TypeOK, Drains
  <2>3. drain'.marker = drain.marker /\ drain'.dropFirst = drain.dropFirst /\ drain'.gen = 0
    BY <2>1, <2>2 DEF Drains
  <2>4. g \in Nat
    BY Shapes DEF Later
  <2>5. ReadTo' = ReadTo /\ Later(handledGen, drain.gen)' = g
    BY <1>2, <2>3, <2>4 DEF ReadTo, Later
  <2>6. Read'
    BY <1>5, <2>5 DEF Read
  <2> QED
    BY <1>7, <2>1, <2>6 DEF Answered, Listed
<1> QED
  BY <1>8, <1>9

LEMMA FailAnswered ==
    ASSUME IInv, IInv', Facts, Spaced, Answered, PullFail \/ WriteFail \/ SetFail
    PROVE  Answered'
<1>1. Keeps
  BY KeepsOK DEF Steady
<1>2. pc' = "idle" /\ UNCHANGED <<log, restarts, untold, handledGen>>
  BY DEF PullFail, WriteFail, SetFail, EndPoll, serverVars, memVars
<1>3. Saved'
  <2>1. CASE ckpt' = ckpt
    BY <1>1, <1>2, <2>1, SavedKept DEF Answered, IInv, TypeOK
  <2>2. CASE ckpt' # ckpt
    <3>1. /\ SetFail /\ pc = "flush" /\ Deliver(drain.pending) /\ ckpt'.marker = drain.marker
      BY <2>2 DEF PullFail, WriteFail, SetFail, NextCheckpoint
    <3>2. Reading /\ Read
      BY <3>1 DEF Reading, Answered
    <3>3. \A i \in DOMAIN drain.pending : sunk'[drain.pending[i]] > 0
      BY <3>1, Shapes, SinkGrows
    <3>4. PICK g : g = Later(handledGen, drain.gen)
      OBVIOUS
    <3>5. PICK h : h = handledGen
      OBVIOUS
    <3>6. Due(g)' \subseteq Due(h)'
      <4>1. g \in 0 .. RestartGen /\ h \in 0 .. RestartGen /\ h <= g
        BY <3>4, <3>5, Shapes DEF Later
      <4>2. Due(g) \subseteq Due(h)
        BY <4>1, MoreDue
      <4>3. RestartGen' = RestartGen /\ untold' = untold /\ restarts' = restarts
        BY <1>2 DEF RestartGen
      <4>4. \A e : Folds(e, RestartGen)' <=> Folds(e, RestartGen)
        BY <4>3 DEF Folds
      <4>5. Open(g)' = Open(g) /\ Open(h)' = Open(h)
        BY <4>3 DEF Open
      <4>6. Due(g)' = Due(g) /\ Due(h)' = Due(h)
        BY <4>3, <4>4, <4>5 DEF Due
      <4> QED
        BY <4>2, <4>6
    <3>7. ASSUME NEW p \in 1 .. drain.marker
          PROVE  InSink(p)' \/ \E b \in 1 .. p : Reopens(b, h)'
      <4>1. p \in 1 .. ReadTo
        BY Shapes DEF ReadTo
      <4> QED
        BY <1>1, <3>2, <3>3, <3>4, <3>6, <4>1, BatchSaved
    <3> QED
      BY <1>2, <3>1, <3>5, <3>7 DEF Saved
  <2> QED
    BY <2>1, <2>2
<1> QED
  BY <1>2, <1>3 DEF Answered, Read, Reading, Listed

-----------------------------------------------------------------------------
(* The start of a drain.                                                   *)

LEMMA Earliest ==
    ASSUME IInv, Unhandled # {}
    PROVE  /\ PendingAt \in Unhandled /\ PendingAt \in Nat
           /\ \A d \in Unhandled : d \in Nat /\ PendingAt <= d
<1>1. Unhandled = {restarts[i] : i \in (handledGen + 1) .. RestartGen}
  BY DEF Unhandled
<1>2. \A i \in (handledGen + 1) .. RestartGen : restarts[i] \in Nat
  <2>1. /\ handledGen \in Nat /\ RestartGen = Len(restarts) /\ Len(restarts) \in Nat
        /\ DOMAIN restarts = 1 .. Len(restarts)
        /\ \A i \in DOMAIN restarts : restarts[i] \in Nat
    BY Shapes
  <2> QED
    BY <2>1
<1>3. Unhandled \in SUBSET Nat
  BY <1>1, <1>2
<1>4. PICK t \in Unhandled : \A u \in Unhandled : t <= u
  BY <1>3, Least
<1>5. PendingAt \in Unhandled /\ \A u \in Unhandled : PendingAt <= u
  BY <1>4, Zenon DEF PendingAt
<1> QED
  BY <1>3, <1>5

LEMMA UnhandledOpen == Unhandled = Open(handledGen)
BY DEF Unhandled, Open

\* With all restarts counted handled, those not counted are still due.
LEMMA StillDue ==
    ASSUME IInv, NEW b, Reopens(b, handledGen), \A d \in Unhandled : ~Of(d, log[b].at)
    PROVE  Reopens(b, RestartGen)
<1>1. PICK d \in Due(handledGen) : Of(d, log[b].at)
  BY DEF Reopens, Awaited
<1>2. d \notin Open(handledGen)
  BY <1>1, UnhandledOpen
<1>3. d \in Due(RestartGen)
  BY <1>1, <1>2 DEF Due
<1> QED
  BY <1>1, <1>3 DEF Reopens, Awaited

\* A file not written since before the restart has no line the server lost:
\* what is missing is due to a restart not counted yet.
LEMMA IdleSound ==
    ASSUME IInv, Facts, Saved, Listed, pc = "listed", Unhandled # {}, Idle(PendingAt),
           NEW p \in 1 .. ckpt.marker
    PROVE  InSink(p) \/ \E b \in 1 .. p : Reopens(b, RestartGen)
<1> SUFFICES ASSUME ~InSink(p) PROVE \E b \in 1 .. p : Reopens(b, RestartGen)
  OBVIOUS
<1>1. PICK b \in 1 .. p : Reopens(b, handledGen)
  BY DEF Saved
<1>2. CASE \A d \in Unhandled : ~Of(d, log[b].at)
  BY <1>1, <1>2, StillDue
<1>3. CASE \E d \in Unhandled : Of(d, log[b].at)
  <2>1. b \in 1 .. ckpt.marker /\ b \in Nat /\ b \in 1 .. Len(log)
    BY <1>1, Shapes DEF Reopens
  <2>2. listing.lastWritten < PendingAt - Margin /\ listing.lastWritten \in Nat
    BY Shapes DEF Idle
  <2>3. PendingAt \in Nat /\ \A d \in Unhandled : d \in Nat /\ PendingAt <= d
    BY Earliest
  <2>4. log[b].at \in Nat /\ PendingAt <= log[b].at + EventLag
    <3>1. PICK d \in Unhandled : d <= log[b].at + EventLag
      BY <1>3 DEF Of
    <3>2. log[b].at \in Nat /\ EventLag \in Nat
      BY <2>1, Shapes, Spacing
    <3> QED
      BY <2>3, <3>1, <3>2
  <2>5. ~(log[b].at <= listing.lastWritten)
    BY <2>2, <2>3, <2>4, Spacing
  <2>6. PICK c \in 1 .. b :
          Reopens(c, handledGen) /\ log[c].at + EventLag < listing.lastWritten + Margin
    BY <2>1, <2>5 DEF Listed
  <2>7. log[c].at \in Nat
    BY <2>6, Shapes DEF Reopens
  <2>8. \A d \in Unhandled : ~Of(d, log[c].at)
    BY <2>2, <2>3, <2>6, <2>7, Spacing DEF Of
  <2>9. Reopens(c, RestartGen)
    BY <2>6, <2>8, StillDue
  <2> QED
    BY <1>1, <2>1, <2>6, <2>9
<1> QED
  BY <1>2, <1>3

LEMMA CutShort ==
    ASSUME NEW r \in Nat, NEW size \in Nat, NEW b \in Nat, r - RewindLines + 1 < b
    PROVE  Lesser(r, size) - RewindLines + 1 < b
<1>1. Lesser(r, size) \in Nat /\ Lesser(r, size) <= r
  BY DEF Lesser
<1> QED
  BY <1>1, Spacing

\* A mark old enough to be taken for the earliest of several restarts is old
\* enough for each.
LEMMA RewindReaches ==
    ASSUME IInv, Facts, NEW b, Reopens(b, handledGen), NEW e \in Unhandled, Of(e, log[b].at),
           NEW r, r = RewindFrom(TRUE)
    PROVE  Lesser(r, listing.size) - RewindLines + 1 < b
<1> DEFINE t == PendingAt - Margin
           d == log[b].at + EventLag
           before == {u \in Ticks : u <= t /\ marks[u] # None}
<1>1. Ahead(b, d) /\ b \in Nat
  BY Shapes DEF Reopens
<1>2. PendingAt \in Nat /\ d \in Nat /\ PendingAt <= d
  <2>1. log[b].at \in Nat
    BY Shapes DEF Reopens
  <2>2. PendingAt \in Nat /\ e \in Nat /\ PendingAt <= e
    BY Earliest
  <2> QED
    BY <2>1, <2>2, Spacing DEF Of
<1>3. markBefore(t) # None /\ markBefore(t) - RewindLines + 1 < b
  <2>1. CASE before = {}
    BY <1>1, <2>1 DEF markBefore, Ahead
  <2>2. CASE before # {}
    <3>1. before \in SUBSET Nat /\ \A u \in before : u \in Ticks /\ u <= MaxClock
      BY Constants DEF Ticks
    <3>2. \A u \in before : u <= t /\ marks[u] # None
      OBVIOUS
    <3> HIDE DEF before
    <3>3. \E u \in before : \A v \in before : v <= u
      BY <2>2, <3>1, Constants, Greatest
    <3>4. PICK u \in before : u = CHOOSE v \in before : \A w \in before : w <= v
      BY <3>3, Zenon
    <3>5. markBefore(t) = marks[u]
      BY <2>2, <3>4, Zenon DEF markBefore, before
    <3>6. u \in Ticks /\ u \in Nat /\ u <= t /\ marks[u] # None
      BY <3>1, <3>2, <3>4
    <3>7. u <= d - Margin
      BY <1>2, <3>6, Spacing
    <3> QED
      BY <1>1, <3>5, <3>6, <3>7 DEF Ahead
  <2> QED
    BY <2>1, <2>2
<1>4. RewindFrom(TRUE) = markBefore(t)
  BY <1>3, Zenon DEF RewindFrom
<1>5. RewindFrom(TRUE) \in Nat /\ listing.size \in Nat
  BY RewoundFrom, Shapes, Constants, TRUE \in BOOLEAN
<1>8. r \in Nat /\ r - RewindLines + 1 < b
  BY <1>3, <1>4, <1>5, Zenon
<1>9. b \in Nat /\ listing.size \in Nat
  BY <1>1, <1>5, Zenon
<1>10. Lesser(r, listing.size) - RewindLines + 1 < b
  BY <1>8, <1>9, CutShort, Zenon
<1> QED
  BY <1>10

\* A drain that starts no further than the checkpoint has nothing to answer
\* for that the checkpoint has not.
LEMMA StartRead ==
    ASSUME IInv, IInv', Facts, Keeps, UNCHANGED <<log, restarts>>,
           NEW g \in 0 .. RestartGen, g = Later(handledGen', drain'.gen),
           NEW n \in Nat, n = ReadTo',
           \A p \in 1 .. n : InSink(p) \/ \E b \in 1 .. p : Reopens(b, g)
    PROVE  Read'
<1>1. ASSUME NEW p \in 1 .. n PROVE InSink(p)' \/ \E b \in 1 .. p : Reopens(b, g)'
  <2>1. CASE InSink(p)
    BY <2>1, InSinkKept DEF IInv, TypeOK
  <2>2. CASE ~InSink(p)
    <3>1. PICK b \in 1 .. p : Reopens(b, g)
      BY <2>2
    <3> QED
      BY <3>1, ReopensKept
  <2> QED
    BY <2>1, <2>2
<1> QED
  BY <1>1 DEF Read

LEMMA RewoundTo ==
    ASSUME IInv, NEW flag \in BOOLEAN
    PROVE  \E r \in Nat, start \in Int :
              /\ r = RewindFrom(flag)
              /\ start = Lesser(r, listing.size) - RewindLines
              /\ start + 1 <= r
              /\ RewoundDrain(flag).marker = (IF start > 0 THEN start ELSE 0)
              /\ RewoundDrain(flag).dropFirst = (start > 0)
              /\ RewoundDrain(flag).gen = (IF flag THEN RestartGen ELSE 0)
<1>1. PICK r : r = RewindFrom(flag)
  OBVIOUS
<1>2. r \in Nat
  BY <1>1, RewoundFrom, Constants
<1> DEFINE start == Lesser(r, listing.size) - RewindLines
<1>3. start \in Int /\ start + 1 <= r
  <2>1. listing.size \in Nat /\ RewindLines \in Nat /\ 0 < RewindLines
    BY Shapes, Constants
  <2>2. Lesser(r, listing.size) \in Nat /\ Lesser(r, listing.size) <= r
    BY <1>2, <2>1 DEF Lesser
  <2> QED
    BY <1>2, <2>1, <2>2
<1>4. /\ RewoundDrain(flag).marker = IF start > 0 THEN start ELSE 0
      /\ RewoundDrain(flag).dropFirst = (start > 0)
      /\ RewoundDrain(flag).gen = IF flag THEN RestartGen ELSE 0
  BY <1>1, RewoundFrom
<1> QED
  BY <1>1, <1>2, <1>3, <1>4

LEMMA BeginAnswered ==
    ASSUME IInv, IInv', Facts, Spaced, Answered, BeginDrain, ~overshot'
    PROVE  Answered'
<1> DEFINE restarted == ckpt.found /\ Unhandled # {} /\ ~Idle(PendingAt)
           untouched == ckpt.found /\ Unhandled # {} /\ Idle(PendingAt)
<1>1. Keeps
  BY KeepsOK DEF Steady, Worker
<1>2. /\ UNCHANGED <<log, restarts, untold, ckpt, RestartGen>> /\ pc = "listed" /\ pc' = "pull"
      /\ handledGen' = IF untouched THEN RestartGen ELSE handledGen
      /\ drain' = IF ckpt.found /\ (Shrank \/ restarted) THEN RewoundDrain(restarted)
                  ELSE [NoDrain EXCEPT !.marker = ckpt.marker]
      /\ restarted => ~(RewindFrom(TRUE) > ckpt.marker)
      /\ restarted => ckpt.found
  <2>1. handledGen \in Nat /\ RestartGen \in Nat /\ handledGen <= RestartGen
    BY Shapes
  <2>2. markRestartHandled(RestartGen) => handledGen' = RestartGen
    BY <2>1 DEF markRestartHandled
  <2> QED
    BY <2>2 DEF BeginDrain, serverVars, RestartGen
<1>3. restarted \in BOOLEAN /\ untouched \in BOOLEAN /\ ~(restarted /\ untouched)
  BY DEF Idle
<1> HIDE DEF restarted, untouched
<1>4. /\ ckpt.marker \in Nat /\ handledGen \in 0 .. RestartGen /\ RestartGen \in 0 .. RestartGen
      /\ RestartGen \in Nat /\ handledGen \in Nat
  BY Shapes
<1>5. PICK h \in 0 .. RestartGen : h = handledGen' /\ (untouched => h = RestartGen)
                                   /\ (~untouched => h = handledGen)
  BY <1>2, <1>3, <1>4
<1>6. ASSUME NEW p \in 1 .. ckpt.marker
      PROVE  InSink(p) \/ \E b \in 1 .. p : Reopens(b, h)
  <2>1. CASE untouched
    BY <1>2, <1>5, <2>1, IdleSound DEF Answered, untouched
  <2>2. CASE ~untouched
    BY <1>5, <2>2 DEF Answered, Saved
  <2> QED
    BY <1>3, <2>1, <2>2
<1>7. Saved'
  <2>1. ASSUME NEW p \in 1 .. ckpt.marker
        PROVE  InSink(p)' \/ \E b \in 1 .. p : Reopens(b, h)'
    <3>1. CASE InSink(p)
      BY <1>1, <3>1, InSinkKept DEF IInv, TypeOK
    <3>2. CASE ~InSink(p)
      <4>1. PICK b \in 1 .. p : Reopens(b, h)
        BY <1>6, <3>2
      <4> QED
        BY <1>1, <4>1, ReopensKept
    <3> QED
      BY <3>1, <3>2
  <2> QED
    BY <1>2, <1>5, <2>1 DEF Saved
<1>8. CASE restarted
  <2>0. restarted = TRUE
    BY <1>3, <1>8
  <2>1. drain' = RewoundDrain(TRUE)
    BY <1>2, <1>8, <2>0, Zenon
  <2>2. PICK r \in Nat, start \in Int :
          /\ r = RewindFrom(TRUE)
          /\ start = Lesser(r, listing.size) - RewindLines
          /\ start + 1 <= r
          /\ drain'.marker = (IF start > 0 THEN start ELSE 0)
          /\ drain'.dropFirst = (start > 0)
          /\ drain'.gen = RestartGen
    BY <2>1, RewoundTo, TRUE \in BOOLEAN
  <2>10. /\ r \in Nat /\ start \in Int /\ start + 1 <= r
         /\ drain'.marker = (IF start > 0 THEN start ELSE 0)
         /\ drain'.dropFirst = (start > 0)
         /\ drain'.gen = RestartGen
    BY <2>2, Zenon
  <2>3. ASSUME NEW b, Reopens(b, handledGen), NEW e \in Unhandled, Of(e, log[b].at)
        PROVE  start + 1 < b
    <3>2. Lesser(r, listing.size) - RewindLines + 1 < b
      BY <2>2, <2>3, RewindReaches, Zenon
    <3> QED
      BY <2>2, <3>2, Zenon
  <2>4. start + 1 <= ckpt.marker
    <3>1. ~(r > ckpt.marker)
      BY <1>2, <1>8, <2>2, Zenon
    <3> QED
      BY <1>4, <2>10, <3>1
  <2>9. PICK n \in Nat : n = ReadTo' /\ n = IF start > 0 THEN start + 1 ELSE 0
    <3>1. ReadTo' = IF start > 0 THEN start + 1 ELSE 0
      BY <2>10 DEF ReadTo
    <3> QED
      BY <2>10, <3>1
  <2>5. ASSUME NEW p \in 1 .. n
        PROVE  InSink(p) \/ \E b \in 1 .. p : Reopens(b, RestartGen)
    <3> SUFFICES ASSUME ~InSink(p) PROVE \E b \in 1 .. p : Reopens(b, RestartGen)
      OBVIOUS
    <3>1. p \in 1 .. ckpt.marker /\ p \in Nat /\ p <= start + 1
      BY <1>4, <2>4, <2>9
    <3>2. PICK b \in 1 .. p : Reopens(b, handledGen)
      BY <3>1 DEF Answered, Saved
    <3>3. \A e \in Unhandled : ~Of(e, log[b].at)
      BY <2>10, <2>3, <3>1, <3>2
    <3> QED
      BY <3>2, <3>3, StillDue
  <2>6. RestartGen = Later(handledGen', drain'.gen)
    <3>1. handledGen' \in 0 .. RestartGen
      BY <1>5
    <3> QED
      BY <1>4, <2>10, <3>1 DEF Later
  <2>7. PICK g \in 0 .. RestartGen : g = RestartGen
    BY <1>4
  <2>8. Read'
    BY <1>1, <1>2, <2>5, <2>6, <2>7, <2>9, StartRead
  <2> QED
    BY <1>2, <1>7, <2>8 DEF Answered, Listed
<1>9. CASE ~restarted
  <2>1. drain'.gen = 0 /\ ReadTo' \in Nat /\ ReadTo' <= ckpt.marker
    <3>1. CASE ckpt.found /\ Shrank
      <4>0. restarted = FALSE
        BY <1>3, <1>9
      <4>1. drain' = RewoundDrain(FALSE)
        BY <1>2, <3>1, <4>0, Zenon
      <4>2. PICK r \in Nat, start \in Int :
              /\ r = RewindFrom(FALSE) /\ start + 1 <= r
              /\ drain'.marker = (IF start > 0 THEN start ELSE 0)
              /\ drain'.dropFirst = (start > 0) /\ drain'.gen = 0
        BY <4>1, RewoundTo, FALSE \in BOOLEAN
      <4>3. r = ckpt.marker
        BY <4>2, Zenon DEF RewindFrom
      <4>4. /\ start \in Int /\ start + 1 <= r
            /\ drain'.marker = (IF start > 0 THEN start ELSE 0)
            /\ drain'.dropFirst = (start > 0) /\ drain'.gen = 0
        BY <4>2, Zenon
      <4>5. ReadTo' = IF start > 0 THEN start + 1 ELSE 0
        BY <4>4 DEF ReadTo
      <4> QED
        BY <1>4, <4>3, <4>4, <4>5
    <3>2. CASE ~(ckpt.found /\ Shrank)
      <4>1. drain' = [NoDrain EXCEPT !.marker = ckpt.marker]
        BY <1>2, <1>9, <3>2
      <4>2. drain'.marker = ckpt.marker /\ ~drain'.dropFirst /\ drain'.gen = 0
        BY <4>1 DEF NoDrain
      <4> QED
        BY <1>4, <4>2 DEF ReadTo
    <3> QED
      BY <3>1, <3>2
  <2>2. h = Later(handledGen', drain'.gen)
    BY <1>4, <1>5, <2>1 DEF Later
  <2>3. PICK n \in Nat : n = ReadTo' /\ n <= ckpt.marker
    BY <2>1
  <2>4. \A p \in 1 .. n : p \in 1 .. ckpt.marker
    BY <1>4, <2>3
  <2>5. Read'
    BY <1>1, <1>2, <1>6, <2>2, <2>3, <2>4, StartRead
  <2> QED
    BY <1>2, <1>7, <2>5 DEF Answered, Listed
<1> QED
  BY <1>3, <1>8, <1>9

-----------------------------------------------------------------------------
(* A restart of the server, and the end of the process.                    *)

LEMMA RestartMarked ==
    ASSUME IInv, Marked, NEW n \in 0 .. Len(log), Len(log) - n <= TailLines
    PROVE  Ahead(n + 1, clock + EventLag)
<1> PICK d : d = clock + EventLag
  OBVIOUS
<1>1. /\ Len(log) \in Nat /\ n \in Nat /\ TailLines \in Nat /\ TailLines < RewindLines
      /\ RewindLines \in Nat
  BY Shapes, Constants, Spacing
<1>2. ASSUME NEW m \in Int, m <= Len(log) PROVE m - RewindLines + 1 < n + 1
  BY <1>1, <1>2
<1>3. oldestMark \in Int /\ oldestMark <= Len(log) /\ oldestMark # None
  BY Shapes DEF Marked
<1>4. ASSUME NEW u \in Ticks, u <= d - Margin PROVE marks[u] - RewindLines + 1 < n + 1
  <2>3. u \in {v \in Ticks : v <= clock + EventLag - Margin}
    <3>1. u \in Nat /\ clock \in Nat /\ EventLag \in Nat /\ Margin \in Nat
      BY Shapes, Spacing, Constants
    <3> QED
      BY <1>4, <3>1
  <2>1. marks[u] \in {oldestMark} \union {marks[t] : t \in {v \in Ticks : v <= clock + EventLag - Margin}}
    BY <2>3
  <2>2. marks[u] \in Int /\ marks[u] <= Len(log)
    BY <2>1, Shapes DEF Marked
  <2> QED
    BY <1>2, <2>2
<1>5. Ahead(n + 1, d)
  BY <1>2, <1>3, <1>4 DEF Ahead
<1> QED
  BY <1>5

LEMMA RestartAnswered ==
    ASSUME IInv, IInv', Facts, Spaced, Answered, ServerRestart, ~unmarked', ~forestalled'
    PROVE  Answered'
<1>1. PICK n \in 0 .. Len(log) :
          /\ Len(log) - n <= TailLines
          /\ \A i \in n + 1 .. Len(log) : log[i].at > clock + EventLag - Margin
          /\ Len(log') = n + 1
          /\ \A p \in 1 .. n : log'[p] = log[p]
          /\ log'[n + 1].at = clock /\ log'[n + 1].banner
  BY RestartCuts
<1>2. /\ UNCHANGED <<clock, marks, oldestMark, restarts, handledGen, ckpt, sunk, pc, drain, listing>>
      /\ ckpt.marker + drain.marker > 0 => Marked
      /\ \A d \in downs : clock - d >= RestartGap
  BY DEF ServerRestart, memVars, pollVars
<1>3. /\ n \in Nat /\ Len(log) \in Nat /\ n <= Len(log) /\ clock \in Nat
      /\ ckpt.marker \in Nat /\ drain.marker \in Nat
  BY Shapes
<1>9. PICK g : g = Later(handledGen, drain.gen)
  OBVIOUS
<1>10. /\ g \in 0 .. RestartGen /\ handledGen \in 0 .. RestartGen /\ handledGen <= g
       /\ g = Handling /\ RestartGen \in Nat
  BY <1>9, Shapes DEF Later, Handling
<1>11. PICK e : e \in untold' /\ Of(e, clock) /\ ~Folds(e, g) /\ e \in Nat
  <2>1. PICK late \in (SUBSET (clock .. Lesser(clock + EventLag, MaxClock))) \ {{}} :
          /\ untold' = untold \union late
          /\ forestalled' = (forestalled \/ \A at \in late : Folds(at, Handling))
    BY DEF ServerRestart
  <2>2. PICK e \in late : ~Folds(e, Handling)
    BY <2>1
  <2>3. e \in clock .. Lesser(clock + EventLag, MaxClock) /\ e \in untold'
    BY <2>1, <2>2
  <2>4. e \in Nat /\ Of(e, clock)
    BY <1>3, <2>3, Spacing, Constants DEF Lesser, Of
  <2> QED
    BY <1>10, <2>2, <2>3, <2>4
<1>4. ASSUME NEW h \in 0 .. RestartGen, h <= g PROVE Awaited(clock, h)'
  <2>1. RestartGen' = RestartGen /\ Open(h)' = Open(h)
    BY <1>2 DEF Open, RestartGen
  <2>2. CASE ~Folds(e, RestartGen)
    <3>1. ~Folds(e, RestartGen)'
      BY <1>2, <2>1, <2>2 DEF Folds
    <3>2. e \in Due(h)'
      BY <1>11, <3>1 DEF Due
    <3> QED
      BY <1>2, <1>11, <3>2 DEF Awaited
  <2>3. CASE Folds(e, RestartGen)
    <3>1. PICK i \in 1 .. RestartGen : e - restarts[i] \in (1 - DedupWindow) .. (DedupWindow - 1)
      BY <2>3 DEF Folds
    <3>2. i \notin 1 .. g
      BY <1>11, <3>1 DEF Folds
    <3>3. i \in (h + 1) .. RestartGen
      BY <1>4, <1>10, <3>1, <3>2
    <3>4. restarts[i] \in Dates /\ restarts[i] \in Nat
      BY <3>1, Shapes
    <3>5. restarts[i] \in Due(h)'
      BY <1>2, <2>1, <3>3 DEF Due, Open
    <3>6. Of(restarts[i], clock)
      <4>1. restarts[i] < e + DedupWindow /\ e < restarts[i] + DedupWindow
        BY <1>11, <3>1, <3>4, Constants
      <4>2. CASE restarts[i] = shutdown
        <5>1. shutdown # None /\ restarts[i] <= clock /\ clock <= restarts[i] + EventLead
          BY <3>4, <4>2, Constants DEF IInv, Reported, Announced, Dates
        <5> QED
          BY <1>3, <3>4, <5>1, Spacing DEF Of
      <4>3. CASE restarts[i] # shutdown
        <5>1. PICK q \in downs : Of(restarts[i], q)
          BY <3>4, <4>3 DEF Dates
        <5>2. q \in Nat /\ clock - q >= RestartGap
          BY <1>2, Shapes
        <5> QED
          BY <1>3, <1>11, <3>4, <4>1, <5>1, <5>2, Spacing, Constants DEF Of
      <4> QED
        BY <4>2, <4>3
    <3> QED
      BY <1>2, <3>5, <3>6 DEF Awaited
  <2> QED
    BY <2>2, <2>3
<1>12. ASSUME NEW h, NEW r, Awaited(r, h) PROVE Awaited(r, h)'
  <2>1. untold \subseteq untold' /\ RestartGen' = RestartGen
    BY <1>2 DEF ServerRestart, RestartGen
  <2>2. Due(h) \subseteq Due(h)'
    BY <1>2, <2>1 DEF Due, Open, Folds
  <2> QED
    BY <1>12, <2>2 DEF Awaited
<1>5. ASSUME NEW b \in 1 .. n, NEW h, Reopens(b, h)
      PROVE  Reopens(b, h)' /\ log'[b].at = log[b].at
  <2>1. b \in 1 .. Len(log') /\ log'[b] = log[b]
    BY <1>1, <1>3
  <2>2. PICK r : r = log[b].at
    OBVIOUS
  <2>3. log[b].banner /\ Awaited(r, h)' /\ Ahead(b, r + EventLag)
    BY <1>5, <1>12, <2>2 DEF Reopens
  <2>4. Ahead(b, r + EventLag)'
    BY <1>2, <2>3 DEF Ahead
  <2> QED
    BY <2>1, <2>2, <2>3, <2>4 DEF Reopens
<1>6. ASSUME NEW p \in 1 .. n PROVE p \in 1 .. Len(log) /\ p \in 1 .. Len(log') /\ log'[p] = log[p]
  BY <1>1, <1>3
<1>7. CASE ckpt.marker + drain.marker = 0
  <2>1. ckpt.marker = 0 /\ drain.marker = 0
    BY <1>3, <1>7
  <2>2. Reading => ReadTo = 0
    BY <2>1 DEF Facts, Polling, ReadTo
  <2>3. 1 .. 0 = {}
    OBVIOUS
  <2>4. Saved' /\ Listed'
    BY <1>2, <2>1, <2>3 DEF Saved, Listed
  <2>5. Read'
    BY <1>2, <2>2, <2>3 DEF Read, Reading, ReadTo
  <2> QED
    BY <2>4, <2>5 DEF Answered
<1>8. CASE ckpt.marker + drain.marker # 0
  <2>1. Ahead(n + 1, clock + EventLag)
    <3>1. ckpt.marker + drain.marker > 0
      BY <1>3, <1>8
    <3> QED
      BY <1>1, <1>2, <3>1, RestartMarked
  <2>2. ASSUME NEW h \in 0 .. RestartGen, h <= g PROVE Reopens(n + 1, h)'
    <3>1. n + 1 \in 1 .. Len(log')
      BY <1>1, <1>3
    <3>2. PICK r : r = clock
      OBVIOUS
    <3>3. Ahead(n + 1, r + EventLag)'
      BY <1>2, <2>1, <3>2 DEF Ahead
    <3>4. Awaited(r, h)'
      BY <1>2, <1>4, <2>2, <3>2
    <3>5. log'[n + 1].at = r /\ log'[n + 1].banner
      BY <1>1, <3>2
    <3> QED
      BY <3>1, <3>3, <3>4, <3>5 DEF Reopens
  <2>6. Reopens(n + 1, handledGen)' /\ Reopens(n + 1, Later(handledGen, drain.gen))'
    <3>1. g <= g /\ handledGen' = handledGen /\ Later(handledGen, drain.gen)' = g
      BY <1>2, <1>9, <1>10 DEF Later
    <3> QED
      BY <1>10, <2>2, <3>1
  <2>3. Saved'
    <3> SUFFICES ASSUME NEW p \in 1 .. ckpt.marker
                 PROVE  InSink(p)' \/ \E b \in 1 .. p : Reopens(b, handledGen)'
      BY <1>2 DEF Saved
    <3>1. CASE p \in 1 .. n
      <4>1. InSink(p) => InSink(p)'
        BY <1>2, <1>6, <3>1 DEF InSink
      <4>2. ASSUME NEW b \in 1 .. p, Reopens(b, handledGen) PROVE Reopens(b, handledGen)'
        <5>1. b \in 1 .. n
          BY <1>3, <3>1
        <5> QED
          BY <1>2, <1>5, <4>2, <5>1
      <4> QED
        BY <4>1, <4>2 DEF Answered, Saved
    <3>2. CASE p \notin 1 .. n
      <4>1. n + 1 \in 1 .. p
        BY <1>3, <3>2, Shapes
      <4> QED
        BY <2>6, <4>1
    <3> QED
      BY <3>1, <3>2
  <2>4. Read'
    <3> SUFFICES ASSUME Reading, NEW p \in 1 .. ReadTo
                 PROVE  \/ InSink(p)' \/ InBatch(p)'
                        \/ \E b \in 1 .. p : Reopens(b, Later(handledGen, drain.gen))'
      BY <1>2 DEF Read, Reading, ReadTo, Later
    <3>1. CASE p \in 1 .. n
      <4>1. (InSink(p) => InSink(p)') /\ (InBatch(p) => InBatch(p)')
        BY <1>2, <1>6, <3>1 DEF InSink, InBatch
      <4>2. ASSUME NEW b \in 1 .. p, Reopens(b, Later(handledGen, drain.gen))
            PROVE  Reopens(b, Later(handledGen, drain.gen))'
        <5>1. b \in 1 .. n
          BY <1>3, <3>1
        <5>2. Later(handledGen, drain.gen)' = Later(handledGen, drain.gen)
          BY <1>2 DEF Later
        <5> QED
          BY <1>5, <4>2, <5>1, <5>2
      <4> QED
        BY <4>1, <4>2 DEF Answered, Read
    <3>2. CASE p \notin 1 .. n
      <4>1. n + 1 \in 1 .. p
        BY <1>3, <3>2, Shapes DEF ReadTo
      <4> QED
        BY <2>6, <4>1
    <3> QED
      BY <3>1, <3>2
  <2>5. Listed'
    <3> SUFFICES ASSUME pc = "listed", NEW p \in 1 .. ckpt.marker
                 PROVE  \/ p <= listing.size /\ p <= Len(log') /\ log'[p].at <= listing.lastWritten
                        \/ \E b \in 1 .. p :
                             Reopens(b, handledGen)' /\ log'[b].at + EventLag < listing.lastWritten + Margin
      BY <1>2 DEF Listed
    <3>1. CASE p <= listing.size /\ p <= Len(log) /\ log[p].at <= listing.lastWritten
      <4>1. CASE p \in 1 .. n
        BY <1>6, <1>1, <1>3, <3>1, <4>1
      <4>2. CASE p \notin 1 .. n
        <5>1. n + 1 \in 1 .. p /\ p \in n + 1 .. Len(log) /\ p \in 1 .. Len(log)
          BY <1>3, <3>1, <4>2, Shapes
        <5>2. log[p].at > clock + EventLag - Margin /\ log[p].at \in Nat /\ listing.lastWritten \in Nat
          BY <1>1, <5>1, Shapes
        <5>3. log'[n + 1].at + EventLag < listing.lastWritten + Margin
          <6>1. log[p].at <= listing.lastWritten /\ log'[n + 1].at = clock
            BY <1>1, <3>1
          <6>2. clock \in Nat /\ EventLag \in Nat /\ Margin \in Nat
            BY <1>3, Spacing
          <6>3. clock + EventLag < listing.lastWritten + Margin
            BY <5>2, <6>1, <6>2
          <6> QED
            BY <6>1, <6>3
        <5> QED
          BY <2>6, <5>1, <5>3
      <4> QED
        BY <4>1, <4>2
    <3>2. ASSUME NEW b \in 1 .. p, Reopens(b, handledGen),
                 log[b].at + EventLag < listing.lastWritten + Margin
          PROVE  Reopens(b, handledGen)' /\ log'[b].at + EventLag < listing.lastWritten + Margin
      <4>1. CASE b \in 1 .. n
        BY <1>2, <1>5, <3>2, <4>1
      <4>2. CASE b \notin 1 .. n
        <5>1. b \in 1 .. Len(log) /\ log[b].banner
          BY <3>2 DEF Reopens
        <5>2. b \in n + 1 .. Len(log)
          BY <1>3, <4>2, <5>1
        <5>3. log[b].at > clock + EventLag - Margin /\ log[b].at \in Nat /\ log[b].at \in downs
          BY <1>1, <5>1, <5>2, Shapes
        <5>4. clock - log[b].at >= RestartGap
          BY <1>2, <5>3
        <5> QED
          BY <1>3, <5>3, <5>4, Spacing
      <4> QED
        BY <4>1, <4>2
    <3> QED
      BY <3>1, <3>2 DEF Answered, Listed
  <2> QED
    BY <2>3, <2>4, <2>5 DEF Answered
<1> QED
  BY <1>7, <1>8

\* A process that dies with no rewind to come leaves nothing missing.
LEMMA CrashAnswered ==
    ASSUME IInv, IInv', Facts, Answered, Crash, ~unmarked'
    PROVE  Answered'
<1>1. ~RewindDue /\ pc' = "idle" /\ UNCHANGED <<log, ckpt>>
  BY DEF Crash, EndPoll, serverVars
<1>2. Due(handledGen) = {}
  BY <1>1, UnhandledOpen DEF RewindDue, Due
<1>3. \A p \in 1 .. ckpt.marker : InSink(p)
  BY <1>2 DEF Answered, Saved, Reopens, Awaited
<1>4. \A x \in Texts : sunk[x] <= sunk'[x]
  BY RingFacts DEF Next, Failure, Facts
<1>5. ASSUME NEW p, InSink(p) PROVE InSink(p)'
  <2>1. p \in 1 .. Len(log) /\ sunk[log[p].text] > 0 /\ log[p].text \in Texts
    BY <1>5, Shapes DEF InSink
  <2>2. sunk[log[p].text] \in Nat /\ sunk'[log[p].text] \in Nat
    BY <2>1, Shapes DEF IInv, TypeOK
  <2> QED
    BY <1>1, <1>4, <2>1, <2>2 DEF InSink
<1>6. Saved'
  BY <1>1, <1>3, <1>5 DEF Saved
<1> QED
  BY <1>1, <1>6 DEF Answered, Read, Reading, Listed

-----------------------------------------------------------------------------
(* A turn of the loop.                                                     *)

\* A chunk is the lines after the marker, and the next marker is after it or,
\* when there are none, no further than the old one.
LEMMA ChunkLinesAre ==
    ASSUME IInv, NEW f \in Positions, NEW m \in NextMarkers(f)
    PROVE  \/ /\ Chunk(f) # << >> /\ Len(Chunk(f)) \in Nat /\ m = f + Len(Chunk(f)) /\ m <= Len(log)
              /\ 0 < Len(Chunk(f))
              /\ \A k \in 1 .. Len(Chunk(f)) : Chunk(f)[k] = log[f + k]
           \/ Chunk(f) = << >> /\ m <= f /\ m \in Nat
<1>1. /\ Len(log) \in Nat /\ f \in Nat /\ ChunkLines \in Nat /\ 0 < ChunkLines
      /\ log \in Seq(Genuine)
  BY Shapes, Constants
<1> DEFINE last == Lesser(f + ChunkLines, Len(log))
<1>2. last \in Nat /\ last <= Len(log) /\ (f < Len(log) => f < last)
  BY <1>1 DEF Lesser
<1> HIDE DEF last
<1>3. CASE f < Len(log)
  <2>1. \A i \in f + 1 .. last : log[i] \in Genuine
    BY <1>1, <1>2, ElementOfSeq
  <2>2. /\ Len(SubSeq(log, f + 1, last)) = last - f
        /\ \A k \in 1 .. (last - f) : SubSeq(log, f + 1, last)[k] = log[f + k]
    <3>1. f + 1 \in Int /\ last \in Int /\ f + 1 <= last
      BY <1>1, <1>2, <1>3
    <3>2. /\ Len(SubSeq(log, f + 1, last)) = last - (f + 1) + 1
          /\ \A k \in 1 .. last - (f + 1) + 1 :
                SubSeq(log, f + 1, last)[k] = log[(f + 1) + k - 1]
      BY <2>1, <3>1, SubSeqProperties
    <3>3. last - (f + 1) + 1 = last - f
      BY <1>1, <1>2
    <3>4. \A k \in 1 .. (last - f) : (f + 1) + k - 1 = f + k
      BY <1>1, <1>2
    <3> QED
      BY <3>2, <3>3, <3>4
  <2>3. Chunk(f) = SubSeq(log, f + 1, last)
    BY <1>3 DEF Chunk, last
  <2>4. NextMarkers(f) = {f + Len(Chunk(f))}
    BY <1>3 DEF NextMarkers
  <2>5. PICK c : c = Chunk(f)
    OBVIOUS
  <2>6. Len(c) = last - f /\ \A k \in 1 .. Len(c) : c[k] = log[f + k]
    BY <2>2, <2>3, <2>5
  <2>7. Len(c) \in Nat /\ 0 < Len(c) /\ f + Len(c) <= Len(log)
    BY <1>1, <1>2, <1>3, <2>6
  <2>8. c # << >>
    BY <2>7
  <2>9. m = f + Len(c)
    BY <2>4, <2>5
  <2> QED
    BY <2>5, <2>6, <2>7, <2>8, <2>9
<1>4. CASE ~(f < Len(log))
  <2>1. Chunk(f) = << >> /\ (m = f \/ m = Len(log))
    BY <1>4 DEF Chunk, NextMarkers
  <2> QED
    BY <1>1, <1>4, <2>1
<1> QED
  BY <1>3, <1>4

\* A line is dropped as shipped only if the sink has it.
LEMMA DroppedSunk ==
    ASSUME IInv, RingSunk, NEW recs \in Seq(Genuine), NEW k \in DOMAIN recs, AlreadyShipped(recs, k)
    PROVE  sunk[recs[k].text] > 0
<1> DEFINE x == recs[k].text
           Same == {j \in 1 .. k : recs[j].text = x}
           Held == {i \in DOMAIN ring : ring[i] = x}
<1>1. k \in Nat /\ k \in 1 .. k
  OBVIOUS
<1>2. Cardinality(Same) \in Nat /\ Cardinality(Same) # 0
  <2>1. IsFiniteSet(Same)
    <3>1. IsFiniteSet(1 .. k)
      BY <1>1, FS_Interval
    <3> QED
      BY <3>1, FS_Subset
  <2>2. k \in Same
    BY <1>1
  <2> HIDE DEF Same
  <2> QED
    BY <2>1, <2>2, FS_EmptySet, FS_CardinalityType
<1>3. x \in Texts
  <2>1. recs[k] \in Genuine
    BY ElementOfSeq
  <2> QED
    BY <2>1 DEF Genuine, Records
<1>4. drain.consumed[x] \in Nat
  BY <1>3 DEF IInv, TypeOK
<1>5. drain.consumed[x] + Cardinality(Same) <= Cardinality(Held)
  BY DEF AlreadyShipped, Count
<1>6. Held # {}
  <2> SUFFICES ASSUME Held = {} PROVE FALSE
    OBVIOUS
  <2>1. Cardinality(Held) = 0
    BY FS_EmptySet
  <2> HIDE DEF Held, Same, x
  <2> QED
    BY <1>2, <1>4, <1>5, <2>1
<1>7. PICK i \in DOMAIN ring : ring[i] = x
  BY <1>6
<1> QED
  BY <1>7 DEF RingSunk

\* A line is kept unless it is dropped as shipped.
LEMMA KeptUnlessSunk ==
    ASSUME IInv, RingSunk, NEW recs \in Seq(Genuine), NEW k \in DOMAIN recs
    PROVE  \/ sunk[recs[k].text] > 0
           \/ \E i \in DOMAIN dropAlreadyShipped(recs) : dropAlreadyShipped(recs)[i] = recs[k]
<1> SUFFICES ASSUME ~AlreadyShipped(recs, k)
             PROVE  \E i \in DOMAIN dropAlreadyShipped(recs) : dropAlreadyShipped(recs)[i] = recs[k]
  BY DroppedSunk
<1> DEFINE kept == {j \in DOMAIN recs : ~AlreadyShipped(recs, j)}
           n == Cardinality(kept)
<1>1. DOMAIN recs = 1 .. Len(recs) /\ Len(recs) \in Nat
  OBVIOUS
<1>2. kept \in SUBSET (1 .. Len(recs)) /\ k \in kept
  BY <1>1
<1> HIDE DEF kept
<1>3. PICK i \in 1 .. n : Nth(kept, i) = k
  BY <1>1, <1>2, NthOnto
<1>4. dropAlreadyShipped(recs) = [j \in 1 .. n |-> recs[Nth(kept, j)]]
  BY DEF dropAlreadyShipped, kept
<1> HIDE DEF n
<1> QED
  BY <1>3, <1>4

LEMMA PullAnswered ==
    ASSUME IInv, IInv', Facts, Spaced, Answered, Pull
    PROVE  Answered'
<1> DEFINE read == Chunk(drain.marker)
           recs == IF drain.dropFirst /\ read # << >> THEN Tail(read) ELSE read
           kept == IF drain.dedupe THEN dropAlreadyShipped(recs) ELSE recs
           texts == [k \in DOMAIN kept |-> kept[k].text]
           old == IF drain.dropFirst THEN 1 ELSE 0
<1>1. Keeps
  BY KeepsOK DEF Steady, Worker
<1>2. PICK m \in NextMarkers(drain.marker) :
        /\ drain'.marker = m /\ drain'.gen = drain.gen
        /\ drain'.pending = drain.pending \o texts
        /\ drain'.dropFirst = (drain.dropFirst /\ read = << >>)
  <2>1. drain \in Drains
    BY DEF IInv, TypeOK, Drains
  <2>2. PICK m \in NextMarkers(drain.marker) :
          drain' = [drain EXCEPT
            !.marker = m,
            !.pending = @ \o texts,
            !.dropFirst = @ /\ read = << >>,
            !.dedupe = @ /\ (m = 0 \/ drain.until = None \/ m < drain.until),
            !.consumed = IF drain.dedupe THEN Consumed(recs) ELSE @,
            !.atEnd = m >= Len(log)]
    BY Zenon DEF Pull
  <2> HIDE DEF texts, recs, read
  <2> QED
    BY <2>1, <2>2 DEF Drains
<1>3. /\ UNCHANGED <<log, sunk, ring, ckpt, handledGen, listing>> /\ pc = "pull"
      /\ pc' \in {"pull", "flush"}
  BY DEF Pull, serverVars
<1>4. /\ drain.marker \in Positions /\ drain.marker \in Nat /\ Len(log) \in Nat
      /\ drain.pending \in Seq(Texts) /\ RingSunk
  BY Shapes DEF IInv, TypeOK, Facts
<1>5. recs \in Seq(Genuine) /\ kept \in Seq(Genuine)
  BY PulledLines
<1>6. texts \in Seq(Texts) /\ DOMAIN texts = DOMAIN kept /\ \A k \in DOMAIN kept : texts[k] = kept[k].text
  <2> HIDE DEF kept
  <2>1. \A k \in 1 .. Len(kept) : kept[k].text \in Texts
    BY <1>5, ElementOfSeq DEF Genuine, Records
  <2>2. DOMAIN kept = 1 .. Len(kept) /\ Len(kept) \in Nat
    BY <1>5
  <2> QED
    BY <2>1, <2>2
<1>7. ASSUME NEW k \in DOMAIN recs
      PROVE  sunk[recs[k].text] > 0 \/ \E i \in DOMAIN kept : kept[i] = recs[k]
  <2>1. CASE drain.dedupe
    <3> HIDE DEF recs
    <3>1. kept = dropAlreadyShipped(recs)
      BY <2>1
    <3> QED
      BY <1>4, <1>5, <1>7, <3>1, KeptUnlessSunk
  <2>2. CASE ~drain.dedupe
    <3> HIDE DEF recs
    <3> QED
      BY <1>7, <2>2
  <2> QED
    BY <2>1, <2>2
<1> HIDE DEF kept
<1>8. \A i \in DOMAIN drain.pending : /\ i \in DOMAIN drain'.pending
                                      /\ drain'.pending[i] = drain.pending[i]
  <2> HIDE DEF texts
  <2>1. /\ Len(drain.pending \o texts) = Len(drain.pending) + Len(texts)
        /\ \A i \in 1 .. Len(drain.pending \o texts) :
             (drain.pending \o texts)[i] = IF i <= Len(drain.pending) THEN drain.pending[i]
                                           ELSE texts[i - Len(drain.pending)]
        /\ drain.pending \o texts \in Seq(Texts)
    BY <1>4, <1>6, ConcatProperties
  <2>2. Len(drain.pending) \in Nat /\ Len(texts) \in Nat /\ DOMAIN drain.pending = 1 .. Len(drain.pending)
    BY <1>4, <1>6
  <2> QED
    BY <1>2, <2>1, <2>2
<1>9. \A k \in DOMAIN kept : \E i \in DOMAIN drain'.pending : drain'.pending[i] = kept[k].text
  <2> HIDE DEF texts
  <2>1. /\ Len(drain.pending \o texts) = Len(drain.pending) + Len(texts)
        /\ \A i \in 1 .. Len(drain.pending \o texts) :
             (drain.pending \o texts)[i] = IF i <= Len(drain.pending) THEN drain.pending[i]
                                           ELSE texts[i - Len(drain.pending)]
        /\ drain.pending \o texts \in Seq(Texts)
    BY <1>4, <1>6, ConcatProperties
  <2>2. /\ Len(drain.pending) \in Nat /\ Len(texts) \in Nat
        /\ DOMAIN (drain.pending \o texts) = 1 .. Len(drain.pending \o texts)
        /\ DOMAIN texts = 1 .. Len(texts)
    BY <1>4, <1>6, <2>1
  <2>3. ASSUME NEW k \in DOMAIN texts
        PROVE  \E i \in DOMAIN (drain.pending \o texts) : (drain.pending \o texts)[i] = texts[k]
    <3>1. /\ Len(drain.pending) + k \in 1 .. Len(drain.pending \o texts)
          /\ ~(Len(drain.pending) + k <= Len(drain.pending))
          /\ Len(drain.pending) + k - Len(drain.pending) = k
      BY <2>1, <2>2
    <3>2. PICK j \in 1 .. Len(drain.pending \o texts) :
            j = Len(drain.pending) + k /\ ~(j <= Len(drain.pending)) /\ j - Len(drain.pending) = k
      BY <3>1
    <3>3. (drain.pending \o texts)[j] = texts[k]
      BY <2>1, <3>2
    <3> QED
      BY <2>2, <3>3
  <2> QED
    BY <1>2, <1>6, <2>3
<1>10. ASSUME NEW p \in 1 .. ReadTo', p \notin 1 .. ReadTo
       PROVE  p \in 1 .. Len(log) /\ \E k \in DOMAIN recs : recs[k] = log[p]
  <2>1. ReadTo = drain.marker + old /\ old \in {0, 1}
    BY <1>4 DEF ReadTo
  <2>2. \/ /\ read # << >> /\ Len(read) \in Nat /\ m = drain.marker + Len(read) /\ m <= Len(log)
           /\ 0 < Len(read)
           /\ \A k \in 1 .. Len(read) : read[k] = log[drain.marker + k]
        \/ read = << >> /\ m <= drain.marker /\ m \in Nat
    BY <1>4, <1>2, ChunkLinesAre
  <2>3. CASE read = << >>
    <3>1. m <= drain.marker /\ m \in Nat
      BY <2>2, <2>3
    <3>2. ReadTo' = m + old
      <4>1. drain'.marker = m /\ (drain'.dropFirst <=> drain.dropFirst)
        BY <1>2, <2>3, Zenon
      <4>2. ReadTo' = IF drain.dropFirst THEN m + 1 ELSE m
        BY <4>1, Zenon DEF ReadTo
      <4> QED
        BY <3>1, <4>2
    <3>3. ReadTo' <= ReadTo /\ ReadTo \in Nat /\ ReadTo' \in Nat
      BY <1>4, <2>1, <3>1, <3>2
    <3> QED
      BY <1>10, <3>3
  <2>4. CASE read # << >>
    <3>1. /\ Len(read) \in Nat /\ m = drain.marker + Len(read) /\ m <= Len(log)
          /\ 0 < Len(read)
          /\ \A k \in 1 .. Len(read) : read[k] = log[drain.marker + k]
      BY <2>2, <2>4
    <3>2. ReadTo' = m
      BY <1>2, <2>4 DEF ReadTo
    <3>3. p \in drain.marker + old + 1 .. m /\ p \in 1 .. Len(log) /\ p \in Nat
      BY <1>4, <1>10, <2>1, <3>1, <3>2
    <3> DEFINE k == p - drain.marker - old
    <3>4. k \in 1 .. (Len(read) - old) /\ k + old \in 1 .. Len(read)
          /\ drain.marker + (k + old) = p
      <4>1. PICK f \in Nat : f = drain.marker
        BY <1>4
      <4>2. PICK c \in Nat : c = Len(read)
        BY <3>1
      <4>3. PICK o \in {0, 1} : o = old
        BY <2>1
      <4>4. p \in Nat /\ f + o + 1 <= p /\ p <= f + c
        BY <3>1, <3>3, <4>1, <4>2, <4>3
      <4>5. p - f - o \in 1 .. (c - o) /\ (p - f - o) + o \in 1 .. c /\ f + ((p - f - o) + o) = p
        BY <4>4
      <4> QED
        BY <4>1, <4>2, <4>3, <4>5
    <3>5. read[k + old] = log[p]
      BY <3>1, <3>4
    <3>6. read \in Seq(Genuine)
      BY <1>4, ChunkTypes
    <3> HIDE DEF k
    <3>7. k \in DOMAIN recs /\ recs[k] = read[k + old]
      <4>1. CASE drain.dropFirst
        <5>1. old = 1 /\ recs = Tail(read)
          BY <2>4, <4>1
        <5>2. PICK r : r = read
          OBVIOUS
        <5>3. /\ r \in Seq(Genuine) /\ r # << >> /\ k \in 1 .. (Len(r) - 1)
          BY <2>4, <3>4, <3>6, <5>1, <5>2
        <5>4. Len(Tail(r)) = Len(r) - 1 /\ \A j \in 1 .. (Len(r) - 1) : Tail(r)[j] = r[j + 1]
          BY <5>3, HeadTailProperties
        <5>5. Tail(r) \in Seq(Genuine) /\ DOMAIN Tail(r) = 1 .. Len(Tail(r))
          BY <5>3, HeadTailProperties
        <5> QED
          BY <5>1, <5>2, <5>3, <5>4, <5>5
      <4>2. CASE ~drain.dropFirst
        <5>1. old = 0 /\ recs = read
          BY <4>2
        <5>2. k + old = k /\ k \in 1 .. Len(read)
          BY <3>4, <5>1
        <5> QED
          BY <3>6, <5>1, <5>2
      <4> QED
        BY <4>1, <4>2
    <3> QED
      BY <3>3, <3>5, <3>7
  <2> QED
    BY <2>3, <2>4
<1> HIDE DEF recs, texts, old
<1>11. Read'
  <2> SUFFICES ASSUME NEW p \in 1 .. ReadTo'
               PROVE  \/ InSink(p)' \/ InBatch(p)'
                      \/ \E b \in 1 .. p : Reopens(b, Later(handledGen, drain.gen))'
    BY DEF Read
  <2>1. CASE p \notin 1 .. ReadTo
    <3>1. PICK k \in DOMAIN recs : recs[k] = log[p] /\ p \in 1 .. Len(log)
      BY <1>10, <2>1
    <3>2. CASE sunk[recs[k].text] > 0
      BY <1>3, <3>1, <3>2 DEF InSink
    <3>3. CASE \E i \in DOMAIN kept : kept[i] = recs[k]
      <4>1. \E i \in DOMAIN drain'.pending : drain'.pending[i] = log[p].text
        BY <1>9, <3>1, <3>3
      <4> QED
        BY <1>3, <3>1, <4>1 DEF InBatch
    <3> QED
      BY <1>7, <3>2, <3>3
  <2>2. CASE p \in 1 .. ReadTo
    <3>1. Reading
      BY <1>3 DEF Reading
    <3>2. CASE InSink(p)
      BY <1>3, <3>2 DEF InSink
    <3>3. CASE InBatch(p)
      BY <1>3, <1>8, <3>3 DEF InBatch
    <3>4. CASE ~InSink(p) /\ ~InBatch(p)
      <4>1. PICK g : g = Later(handledGen, drain.gen)
        OBVIOUS
      <4>2. g \in 0 .. RestartGen
        BY <4>1, Shapes DEF Later
      <4>3. PICK b \in 1 .. p : Reopens(b, g)
        BY <2>2, <3>1, <3>4, <4>1 DEF Answered, Read
      <4>4. Reopens(b, g)'
        BY <1>1, <4>2, <4>3, ReopensKept
      <4>5. Later(handledGen, drain.gen)' = g
        BY <1>2, <1>3, <4>1 DEF Later
      <4> QED
        BY <4>4, <4>5
    <3> QED
      BY <3>2, <3>3, <3>4
  <2> QED
    BY <2>1, <2>2
<1>12. Saved'
  BY <1>1, <1>3, SavedKept DEF Answered, IInv, TypeOK
<1> QED
  BY <1>3, <1>11, <1>12 DEF Answered, Listed

-----------------------------------------------------------------------------
LEMMA InitAnswered == Init => Facts /\ Answered
<1> SUFFICES ASSUME Init PROVE Facts /\ Answered
  OBVIOUS
<1>1. log = << >> /\ pc = "idle" /\ ckpt.marker = 0
  BY DEF Init
<1>2. 1 .. 0 = {}
  OBVIOUS
<1>3. Answered
  BY <1>1, <1>2 DEF Answered, Saved, Read, Reading, Listed
<1> QED
  BY <1>3, InitFacts

LEMMA StepAnswered == Spaced /\ MInv /\ [Next]_vars => MInv'
<1> SUFFICES ASSUME Spaced, MInv, [Next]_vars PROVE MInv'
  OBVIOUS
<1>1. IInv /\ IInv' /\ Facts /\ Facts'
  BY StepOK, FactsOK DEF MInv
<1>2. (unmarked => unmarked') /\ (overshot => overshot') /\ (forestalled => forestalled')
  <2>1. CASE ServerRestart
    <3>1. /\ unmarked => unmarked'
          /\ forestalled => forestalled'
          /\ UNCHANGED overshot
      BY <2>1, Zenon DEF ServerRestart
    <3> QED
      BY <3>1, Zenon
  <2>2. CASE BeginDrain
    <3>1. (overshot => overshot') /\ UNCHANGED <<unmarked, forestalled>>
      BY <2>2, Zenon DEF BeginDrain
    <3> QED
      BY <3>1, Zenon
  <2>3. CASE Crash
    <3>1. (unmarked => unmarked') /\ UNCHANGED <<overshot, forestalled>>
      BY <2>3, Zenon DEF Crash
    <3> QED
      BY <3>1, Zenon
  <2>4. CASE ~ServerRestart /\ ~BeginDrain /\ ~Crash
    <3>1. UNCHANGED <<unmarked, overshot, forestalled>>
      BY <2>4 DEF Next, Server, Tick, WriteLine, ServerShutdown, TellRestart, Worker, List,
         Pull, Flush, Failure, PullFail, WriteFail, SetFail, vars, histVars
    <3> QED
      BY <3>1, Zenon
  <2> QED
    BY <2>1, <2>2, <2>3, <2>4
<1>3. ASSUME ~unmarked', ~overshot', ~forestalled' PROVE Answered'
  <2>1. Answered
    BY <1>2, <1>3 DEF MInv
  <2>2. CASE Tick \/ WriteLine \/ ServerShutdown \/ TellRestart \/ UNCHANGED vars
    BY <1>1, <2>1, <2>2, BystanderAnswered
  <2>3. CASE ServerRestart
    BY <1>1, <1>3, <2>1, <2>3, RestartAnswered
  <2>4. CASE List
    BY <1>1, <2>1, <2>4, ListAnswered
  <2>5. CASE BeginDrain
    BY <1>1, <1>3, <2>1, <2>5, BeginAnswered
  <2>6. CASE Pull
    BY <1>1, <2>1, <2>6, PullAnswered
  <2>7. CASE Flush
    BY <1>1, <2>1, <2>7, FlushAnswered
  <2>8. CASE PullFail \/ WriteFail \/ SetFail
    BY <1>1, <2>1, <2>8, FailAnswered
  <2>9. CASE Crash
    BY <1>1, <1>3, <2>1, <2>9, CrashAnswered
  <2> QED
    BY <2>2, <2>3, <2>4, <2>5, <2>6, <2>7, <2>8, <2>9 DEF Next, Server, Worker, Failure
<1> QED
  BY <1>1, <1>3 DEF MInv

\* No two lines of the file say the same.
LEMMA OnePlace ==
    ASSUME AllUnlike, IInv, Numbered, NEW p \in 1 .. Len(log), NEW q \in 1 .. Len(log),
           log[p].text = log[q].text
    PROVE  p = q
<1>1. log[p].id \in Ids /\ log[q].id \in Ids /\ log[p].id \in Nat /\ log[q].id \in Nat
  BY Shapes
<1>2. log[p].id = log[q].id
  BY <1>1 DEF AllUnlike, Numbered
<1>3. ~(p < q) /\ ~(q < p)
  BY <1>1, <1>2 DEF Numbered
<1> QED
  BY <1>3, Shapes

\* A file keeps a line once.
LEMMA KeptOnce ==
    ASSUME AllUnlike, IInv, Facts, NEW n \in 0 .. Len(log), NEW x \in Texts,
           \A p \in 1 .. n : InSink(p)
    PROVE  sunk[x] >= Kept(n, x)
<1> DEFINE S == {i \in 1 .. n : log[i].text = x}
<1>1. sunk[x] \in Nat /\ Kept(n, x) = Cardinality(S)
  BY Shapes DEF Kept
<1>2. CASE S = {}
  <2>1. Cardinality(S) = 0
    BY <1>2, FS_EmptySet
  <2> QED
    BY <1>1, <2>1
<1>3. CASE S # {}
  <2>1. PICK i \in 1 .. n : log[i].text = x
    BY <1>3
  <2>2. ASSUME NEW j \in S PROVE j = i
    <3>1. Len(log) \in Nat /\ n <= Len(log) /\ n \in Nat
      BY Shapes
    <3>2. /\ i \in 1 .. Len(log) /\ j \in 1 .. Len(log) /\ log[j].text = log[i].text
      BY <2>1, <3>1
    <3> QED
      BY <3>2, OnePlace DEF Facts
  <2>3. S = {i}
    BY <2>1, <2>2
  <2>4. Cardinality(S) = 1
    BY <2>3, FS_Singleton
  <2>5. sunk[x] > 0
    BY <2>1 DEF InSink
  <2> QED
    BY <1>1, <2>4, <2>5
<1> QED
  BY <1>2, <1>3

LEMMA NothingMissed == AllUnlike /\ MInv => NoKeptLineMissedIfMarked
<1> SUFFICES ASSUME AllUnlike, MInv, ~unmarked, ~overshot, ~forestalled, ~RewindDue
             PROVE  Delivered(Lesser(ckpt.marker, Len(log)))
  BY DEF NoKeptLineMissedIfMarked, NoKeptLineMissed
<1>1. IInv /\ Facts /\ Saved
  BY DEF MInv, Answered
<1>2. Due(handledGen) = {}
  BY UnhandledOpen DEF RewindDue, Due
<1>3. \A p \in 1 .. ckpt.marker : InSink(p)
  BY <1>1, <1>2 DEF Saved, Reopens, Awaited
<1>4. ckpt.marker \in Nat /\ Len(log) \in Nat
  BY <1>1, Shapes
<1>5. PICK n \in 0 .. Len(log) : n = Lesser(ckpt.marker, Len(log)) /\ n <= ckpt.marker
  BY <1>4 DEF Lesser
<1>6. \A p \in 1 .. n : InSink(p)
  BY <1>3, <1>4, <1>5
<1>7. ASSUME NEW x \in Texts PROVE sunk[x] >= Kept(n, x)
  BY <1>1, <1>6, KeptOnce
<1> QED
  BY <1>5, <1>7 DEF Delivered

(* README.md:608, "no line RDS kept is missed": behind the checkpoint the  *)
(* sink has every line the file still keeps, however the server's          *)
(* restarts, their notices, the polls and the failures fall, once no       *)
(* restart is left to be told or rewound for.  The saved mark that         *)
(* markBefore finds is from before the cut, so that drainFile's rewind     *)
(* reads again what replaced the lost tail; what dropAlreadyShipped then   *)
(* leaves out is in the sink; and flush calls markRestartHandled only      *)
(* after the checkpoint is saved.  It takes that no two lines say the same *)
(* and that NotifyRestart's window never makes one restart of two; left    *)
(* out are the three ways that NoKeptLineMissedIfMarked names.             *)
THEOREM NoLineMissed ==
    ASSUME AllUnlike, Spaced
    PROVE  Spec => []NoKeptLineMissedIfMarked
<1>1. Init => MInv
  BY InitOK, InitAnswered DEF MInv
<1>2. MInv /\ [Next]_vars => MInv'
  BY StepAnswered
<1>3. MInv => NoKeptLineMissedIfMarked
  BY NothingMissed
<1> QED
  BY <1>1, <1>2, <1>3, PTL DEF Spec
-----------------------------------------------------------------------------
(* A rewind ships nothing twice.                                           *)

\* What a rewind reads again and this process has shipped is still in the ring.
RingReaches ==
    Reading /\ drain.dedupe => \A p \in 1 .. Len(log) :
        p > drain.marker /\ p <= drain.until /\ log[p].text \in shippedHere
            => \E i \in DOMAIN ring : ring[i] = log[p].text

Carried(x) == \E i \in DOMAIN drain.pending : drain.pending[i] = x

Resting == ~Reading => drain = NoDrain

Unwritten ==
    \A l \in Ids : l >= nextId =>
        /\ sunk[Text[l]] = 0 /\ Text[l] \notin shippedHere
        /\ ~Carried(Text[l]) /\ drain.consumed[Text[l]] = 0

CarriedOnce == \A i, j \in DOMAIN drain.pending : drain.pending[i] = drain.pending[j] => i = j

\* What lies after the marker of a drain it has not met.
Unread ==
    Reading => \A p \in 1 .. Len(log) : p > drain.marker =>
        /\ ~Carried(log[p].text) /\ drain.consumed[log[p].text] = 0
        /\ drain.atEnd => log[p].text \notin shippedHere

AtTheEnd == drain.atEnd => pc = "flush"

\* Whoever reads on reads from here.
Front == IF Reading THEN drain.marker ELSE ckpt.marker

\* The line at p was shipped by this process, and will not be read again or
\* will be dropped then.
Spared(p) == log[p].text \in shippedHere /\ (p <= Front \/ (drain.dedupe /\ p <= drain.until))

\* The sink may still get x without another failure.
ToCome(x) == Carried(x) \/ \E p \in 1 .. Len(log) : log[p].text = x /\ ~Spared(p)

Debt == \A x \in Texts : sunk[x] + (IF ToCome(x) THEN 1 ELSE 0) <= 1 + faults

Books == Resting /\ Unwritten /\ CarriedOnce /\ Unread /\ AtTheEnd /\ Debt

-----------------------------------------------------------------------------
\* Parts of the types that the rest is about.
LEMMA BookTypes ==
    ASSUME IInv
    PROVE  /\ sunk \in [Texts -> Nat] /\ faults \in Nat /\ shippedHere \subseteq Texts
           /\ drain.pending \in Seq(Texts) /\ DOMAIN drain.pending = 1 .. Len(drain.pending)
           /\ Len(drain.pending) \in Nat
           /\ \A i \in DOMAIN drain.pending : drain.pending[i] \in Texts
           /\ drain.consumed \in [Texts -> Nat] /\ drain.until \in Int /\ drain \in Drains
<1>1. /\ sunk \in [Texts -> Nat] /\ faults \in Nat /\ shippedHere \subseteq Texts
      /\ drain.pending \in Seq(Texts) /\ drain.consumed \in [Texts -> Nat] /\ drain \in Drains
  <2>1. faults \in Nat
    BY Constants DEF IInv, TypeOK
  <2>2. sunk \in [Texts -> Nat] /\ shippedHere \subseteq Texts /\ drain \in Drains
    BY DEF IInv, TypeOK, Drains
  <2> QED
    BY <2>1, <2>2 DEF Drains
<1>2. drain.until \in Int
  BY Constants DEF IInv, TypeOK, None
<1>3. /\ DOMAIN drain.pending = 1 .. Len(drain.pending) /\ Len(drain.pending) \in Nat
      /\ \A i \in DOMAIN drain.pending : drain.pending[i] \in Texts
  BY <1>1, ElementOfSeq
<1> QED
  BY <1>1, <1>2, <1>3

LEMMA CarriedCount ==
    ASSUME IInv, CarriedOnce, NEW x
    PROVE  Count(drain.pending, x) = IF Carried(x) THEN 1 ELSE 0
<1> DEFINE S == {i \in DOMAIN drain.pending : drain.pending[i] = x}
<1>1. Count(drain.pending, x) = Cardinality(S)
  BY DEF Count
<1>2. CASE Carried(x)
  <2>1. PICK i \in DOMAIN drain.pending : drain.pending[i] = x
    BY <1>2 DEF Carried
  <2>2. S = {i}
    BY <2>1 DEF CarriedOnce
  <2> QED
    BY <1>1, <1>2, <2>2, FS_Singleton
<1>3. CASE ~Carried(x)
  <2>1. S = {}
    BY <1>3 DEF Carried
  <2> QED
    BY <1>1, <1>3, <2>1, FS_EmptySet
<1> QED
  BY <1>2, <1>3

LEMMA BooksInit == Init => Books
<1> SUFFICES ASSUME Init PROVE Books
  OBVIOUS
<1>1. DOMAIN drain.pending = {} /\ drain.consumed = [x \in Texts |-> 0] /\ ~drain.atEnd /\ drain = NoDrain
  BY EmptySeq DEF Init, NoDrain
<1>2. /\ Len(log) = 0 /\ ~Reading /\ sunk = [x \in Texts |-> 0] /\ shippedHere = {} /\ faults = 0
  BY EmptySeq DEF Init, Reading
<1>3. \A x : ~Carried(x)
  BY <1>1 DEF Carried
<1>4. Unwritten
  BY <1>1, <1>2, <1>3, Constants DEF Unwritten
<1>5. Debt
  BY <1>2, <1>3 DEF Debt, ToCome
<1> QED
  BY <1>1, <1>2, <1>4, <1>5 DEF Books, Resting, CarriedOnce, Unread, AtTheEnd

\* A step that owes the sink nothing new.
LEMMA DebtKept ==
    ASSUME IInv, IInv', Debt, UNCHANGED <<sunk, faults>>,
           \A x \in Texts : ToCome(x)' => ToCome(x) \/ sunk[x] = 0
    PROVE  Debt'
<1>1. \A x \in Texts : sunk[x] \in Nat /\ sunk'[x] = sunk[x]
  BY BookTypes
<1>2. faults' = faults /\ faults \in Nat
  BY BookTypes
<1>3. \A x \in Texts : sunk[x] + (IF ToCome(x) THEN 1 ELSE 0) <= 1 + faults
  BY DEF Debt
<1>4. ASSUME NEW x \in Texts PROVE sunk'[x] + (IF ToCome(x)' THEN 1 ELSE 0) <= 1 + faults'
  <2>1. CASE ToCome(x)'
    BY <1>1, <1>2, <1>3, <2>1
  <2>2. CASE ~ToCome(x)'
    BY <1>1, <1>2, <1>3, <2>2
  <2> QED
    BY <2>1, <2>2
<1> QED
  BY <1>4 DEF Debt

\* A failure pays for all it makes the worker read again.
LEMMA DebtPaid ==
    ASSUME IInv, IInv', Debt, CarriedOnce, faults' = faults + 1,
           Deliver(drain.pending) \/ UNCHANGED sunk
    PROVE  Debt'
<1>1. \A x \in Texts : sunk[x] \in Nat /\ sunk'[x] \in Nat
  BY BookTypes DEF IInv, TypeOK
<1>2. faults \in Nat
  BY BookTypes
<1>3. ASSUME NEW x \in Texts PROVE sunk'[x] <= 1 + faults
  <2>1. sunk[x] + (IF ToCome(x) THEN 1 ELSE 0) <= 1 + faults
    BY DEF Debt
  <2>2. Carried(x) => ToCome(x)
    BY DEF ToCome
  <2>3. sunk'[x] = sunk[x] + (IF Carried(x) THEN 1 ELSE 0) \/ sunk'[x] = sunk[x]
    BY CarriedCount DEF Deliver
  <2> QED
    BY <1>1, <1>2, <2>1, <2>2, <2>3
<1>4. ASSUME NEW x \in Texts PROVE sunk'[x] + (IF ToCome(x)' THEN 1 ELSE 0) <= 1 + faults'
  BY <1>1, <1>2, <1>3
<1> QED
  BY <1>4 DEF Debt

LEMMA BystanderBooks ==
    ASSUME IInv, IInv', Books, Tick \/ ServerShutdown \/ TellRestart \/ List \/ UNCHANGED vars
    PROVE  Books'
<1>1. UNCHANGED <<log, nextId, ckpt, drain, sunk, shippedHere, faults>>
  BY DEF Tick, ServerShutdown, TellRestart, List, vars, serverVars, pollVars, histVars
<1>2. (Reading' <=> Reading) /\ (pc = "flush" => pc' = "flush")
  BY DEF Tick, ServerShutdown, TellRestart, List, vars, pollVars, Reading
<1>3. \A x : Carried(x)' <=> Carried(x)
  BY <1>1 DEF Carried
<1>4. \A p : Spared(p)' <=> Spared(p)
  BY <1>1, <1>2 DEF Spared, Front
<1>5. \A x \in Texts : ToCome(x)' => ToCome(x)
  BY <1>1, <1>3, <1>4 DEF ToCome
<1>6. Debt'
  BY <1>1, <1>5, DebtKept DEF Books
<1>7. Unwritten'
  BY <1>1, <1>3 DEF Books, Unwritten
<1>8. Unread'
  BY <1>1, <1>2, <1>3 DEF Books, Unread
<1> QED
  BY <1>1, <1>2, <1>6, <1>7, <1>8 DEF Books, Resting, CarriedOnce, AtTheEnd

\* The server cuts the file to its n first lines, or to all, and writes one.
LEMMA WrittenBooks ==
    ASSUME IInv, IInv', Books, NEW n \in 0 .. Len(log), nextId <= MaxLines, nextId' = nextId + 1,
           Len(log') = n + 1, \A p \in 1 .. n : log'[p] = log[p], log'[n + 1].text = Text[nextId],
           UNCHANGED <<pc, ckpt, drain, sunk, shippedHere, faults>>
    PROVE  Books'
<1>1. nextId \in Ids /\ nextId \in Nat /\ n \in Nat /\ n <= Len(log) /\ Len(log) \in Nat
  <2>1. nextId \in Nat /\ nextId > 0 /\ Len(log) \in Nat
    BY Shapes
  <2> QED
    BY <2>1, Constants DEF Ids
<1>2. /\ sunk[Text[nextId]] = 0 /\ Text[nextId] \notin shippedHere
      /\ ~Carried(Text[nextId]) /\ drain.consumed[Text[nextId]] = 0
  BY <1>1 DEF Books, Unwritten
<1>3. (Reading' <=> Reading) /\ (\A x : Carried(x)' <=> Carried(x)) /\ Front' = Front
  BY DEF Reading, Carried, Front
<1>4. \A p \in 1 .. Len(log') : (p \in 1 .. n /\ p \in 1 .. Len(log)) \/ p = n + 1
  BY <1>1
<1>5. \A p \in 1 .. n : Spared(p)' <=> Spared(p)
  BY <1>3 DEF Spared
<1>6. ASSUME NEW x \in Texts, ToCome(x)' PROVE ToCome(x) \/ sunk[x] = 0
  <2>1. CASE Carried(x)'
    BY <1>3, <2>1 DEF ToCome
  <2>2. CASE ~Carried(x)'
    <3>1. PICK p \in 1 .. Len(log') : log'[p].text = x /\ ~Spared(p)'
      BY <1>6, <2>2 DEF ToCome
    <3>2. CASE p = n + 1
      BY <1>2, <3>1, <3>2
    <3>3. CASE p # n + 1
      BY <1>4, <1>5, <3>1, <3>3 DEF ToCome
    <3> QED
      BY <3>2, <3>3
  <2> QED
    BY <2>1, <2>2
<1>7. Debt'
  BY <1>6, DebtKept DEF Books
<1>8. Unwritten'
  <2> SUFFICES ASSUME NEW l \in Ids, l >= nextId' PROVE /\ sunk[Text[l]] = 0 /\ Text[l] \notin shippedHere
                                           /\ ~Carried(Text[l]) /\ drain.consumed[Text[l]] = 0
    BY <1>3 DEF Unwritten
  <2>1. l >= nextId
    BY <1>1, Constants
  <2> QED
    BY <2>1 DEF Books, Unwritten
<1>9. Unread'
  <2> SUFFICES ASSUME Reading, NEW p \in 1 .. Len(log'), p > drain.marker
               PROVE  /\ ~Carried(log'[p].text) /\ drain.consumed[log'[p].text] = 0
                      /\ drain.atEnd => log'[p].text \notin shippedHere
    BY <1>3 DEF Unread
  <2>1. CASE p = n + 1
    BY <1>2, <2>1
  <2>2. CASE p # n + 1
    BY <1>4, <2>2 DEF Books, Unread
  <2> QED
    BY <2>1, <2>2
<1> QED
  BY <1>3, <1>7, <1>8, <1>9 DEF Books, Resting, CarriedOnce, AtTheEnd

LEMMA ServerBooks ==
    ASSUME IInv, IInv', Facts, Books, WriteLine \/ ServerRestart
    PROVE  Books'
<1>1. /\ UNCHANGED <<pc, ckpt, drain, sunk, shippedHere, faults>>
      /\ nextId <= MaxLines /\ nextId' = nextId + 1 /\ clock' = clock
  BY DEF WriteLine, ServerRestart, pollVars, histVars
<1>2. PICK n \in 0 .. Len(log), banner \in BOOLEAN : log' = Append(SubSeq(log, 1, n), Line(banner))
  <2>1. CASE WriteLine
    <3>1. log' = Append(log, Line(FALSE)) /\ Len(log) \in 0 .. Len(log)
      BY <2>1, Shapes DEF WriteLine
    <3>2. SubSeq(log, 1, Len(log)) = log
      BY WholeFile
    <3> QED
      BY <3>1, <3>2
  <2>2. CASE ServerRestart
    <3>1. PICK k \in 0 .. Lesser(TailLines, Len(log)) :
             log' = Append(SubSeq(log, 1, Len(log) - k), Line(TRUE))
      BY <2>2 DEF ServerRestart
    <3>2. Len(log) \in Nat /\ TailLines \in Nat
      BY Shapes, Constants
    <3>3. Len(log) - k \in 0 .. Len(log)
      BY <3>2 DEF Lesser
    <3> QED
      BY <3>1, <3>3
  <2> QED
    BY <2>1, <2>2
<1>3. /\ Len(log') = n + 1 /\ \A p \in 1 .. n : log'[p] = log[p]
      /\ log'[n + 1] = Line(banner)
  BY <1>1, <1>2, NewLine
<1>4. log'[n + 1].text = Text[nextId]
  BY <1>3 DEF Line
<1> QED
  BY <1>1, <1>3, <1>4, WrittenBooks

LEMMA BeginBooks ==
    ASSUME IInv, IInv', Books, BeginDrain
    PROVE  Books'
<1>1. /\ UNCHANGED <<log, nextId, ckpt, sunk, shippedHere, faults>>
      /\ pc = "listed" /\ pc' = "pull" /\ ~Reading /\ Reading'
  BY DEF BeginDrain, serverVars, Reading
<1>2. drain = NoDrain
  BY <1>1 DEF Books, Resting
<1>3. PICK d \in Drains :
         /\ drain' = d
         /\ d.pending = << >> /\ d.consumed = [x \in Texts |-> 0] /\ ~d.atEnd
         /\ d.marker = ckpt.marker \/ (d.dedupe /\ d.until = IF ckpt.marker > 0 THEN ckpt.marker ELSE None)
  <2>1. drain' \in Drains
    BY DEF IInv, TypeOK, Drains
  <2>2. CASE drain' = [NoDrain EXCEPT !.marker = ckpt.marker]
    BY <2>1, <2>2 DEF NoDrain
  <2>3. CASE \E flag \in BOOLEAN : drain' = RewoundDrain(flag)
    <3>1. PICK flag \in BOOLEAN : drain' = RewoundDrain(flag)
      BY <2>3
    <3> QED
      BY <2>1, <3>1, Zenon DEF RewoundDrain, NoDrain
  <2>4. \/ drain' = [NoDrain EXCEPT !.marker = ckpt.marker]
        \/ \E flag \in BOOLEAN : drain' = RewoundDrain(flag)
    <3>1. (ckpt.found /\ Unhandled # {} /\ ~Idle(PendingAt)) \in BOOLEAN
      BY DEF Idle
    <3> QED
      BY <3>1 DEF BeginDrain
  <2> QED
    BY <2>2, <2>3, <2>4
<1>4. DOMAIN d.pending = {} /\ \A x : ~Carried(x)'
  BY <1>3, EmptySeq DEF Carried
<1>5. ASSUME NEW x \in Texts, ToCome(x)' PROVE ToCome(x)
  <2>1. PICK p \in 1 .. Len(log) : log[p].text = x /\ ~Spared(p)'
    BY <1>1, <1>4, <1>5 DEF ToCome
  <2>2. log[p].text \notin shippedHere \/ (~(p <= d.marker) /\ ~(d.dedupe /\ p <= d.until))
    BY <1>1, <1>3, <2>1 DEF Spared, Front
  <2>3. ~drain.dedupe /\ Front = ckpt.marker
    BY <1>1, <1>2 DEF NoDrain, Front
  <2>4. ckpt.marker \in Nat /\ p \in Nat /\ p > 0
    BY Shapes
  <2>5. log[p].text \notin shippedHere \/ ~(p <= ckpt.marker)
    <3>1. CASE d.marker = ckpt.marker
      BY <2>2, <3>1
    <3>2. CASE d.dedupe /\ ckpt.marker > 0 /\ d.until = ckpt.marker
      BY <2>2, <3>2
    <3>3. CASE ~(ckpt.marker > 0)
      BY <2>4, <3>3
    <3> QED
      BY <1>3, <3>1, <3>2, <3>3
  <2> QED
    BY <2>1, <2>3, <2>5 DEF ToCome, Spared
<1>6. Debt'
  BY <1>1, <1>5, DebtKept DEF Books
<1>7. Unwritten'
  <2>1. \A l \in Ids : d.consumed[Text[l]] = 0
    BY <1>3, Constants
  <2> QED
    BY <1>1, <1>3, <1>4, <2>1 DEF Books, Unwritten
<1>8. Unread'
  <2>1. \A p \in 1 .. Len(log) : d.consumed[log[p].text] = 0
    BY <1>3, Shapes
  <2> QED
    BY <1>1, <1>3, <1>4, <2>1 DEF Unread
<1> QED
  BY <1>1, <1>3, <1>4, <1>6, <1>7, <1>8 DEF Books, Resting, CarriedOnce, AtTheEnd

LEMMA FailureBooks ==
    ASSUME IInv, IInv', Books, Failure
    PROVE  Books'
<1>1. EndPoll /\ Fault
  BY DEF Failure, PullFail, WriteFail, SetFail, Crash
<1>2. /\ pc' = "idle" /\ drain' = NoDrain /\ ~Reading' /\ faults' = faults + 1
  BY <1>1 DEF EndPoll, Fault, Reading
<1>3. Deliver(drain.pending) \/ UNCHANGED sunk
  BY DEF Failure, PullFail, WriteFail, SetFail, Crash
<1>4. Debt'
  BY <1>2, <1>3, DebtPaid DEF Books
<1>5. DOMAIN drain'.pending = {} /\ drain'.consumed = [x \in Texts |-> 0] /\ ~drain'.atEnd
  BY <1>2, EmptySeq DEF NoDrain
<1>6. Unwritten'
  <2>1. UNCHANGED nextId /\ shippedHere' \subseteq shippedHere \union {drain.pending[i] : i \in DOMAIN drain.pending}
    BY DEF Failure, PullFail, WriteFail, SetFail, Crash, serverVars
  <2> SUFFICES ASSUME NEW l \in Ids, l >= nextId
               PROVE  sunk'[Text[l]] = 0 /\ Text[l] \notin shippedHere'
    BY <1>5, <2>1, Constants DEF Unwritten, Carried
  <2>2. sunk[Text[l]] = 0 /\ Text[l] \notin shippedHere /\ ~Carried(Text[l])
    BY DEF Books, Unwritten
  <2>3. Text[l] \notin shippedHere'
    BY <2>1, <2>2 DEF Carried
  <2>4. sunk'[Text[l]] = 0
    <3>1. Text[l] \in Texts /\ Count(drain.pending, Text[l]) = 0
      BY <2>2, CarriedCount, Constants DEF Books
    <3> QED
      BY <1>3, <2>2, <3>1 DEF Deliver
  <2> QED
    BY <2>3, <2>4
<1> QED
  BY <1>2, <1>4, <1>5, <1>6 DEF Books, Resting, CarriedOnce, Unread, AtTheEnd

LEMMA FlushBooks ==
    ASSUME IInv, IInv', Books, Flush
    PROVE  Books'
<1>1. /\ UNCHANGED <<log, nextId, faults>> /\ pc = "flush" /\ Reading
      /\ Deliver(drain.pending) /\ ckpt'.marker = drain.marker
      /\ shippedHere' = shippedHere \union {drain.pending[i] : i \in DOMAIN drain.pending}
  BY DEF Flush, serverVars, Reading, NextCheckpoint
<1>2. /\ drain.atEnd => drain' = NoDrain /\ ~Reading' /\ pc' = "idle"
      /\ ~drain.atEnd => /\ drain'.marker = drain.marker /\ drain'.consumed = drain.consumed
                         /\ drain'.dedupe = drain.dedupe /\ drain'.until = drain.until
                         /\ ~drain'.atEnd /\ Reading' /\ pc' = "pull"
      /\ drain'.pending = << >>
  <2>1. CASE drain.atEnd
    BY <2>1 DEF Flush, EndPoll, Reading, NoDrain
  <2>2. CASE ~drain.atEnd
    <3>1. drain' = [drain EXCEPT !.gen = 0, !.pending = << >>] /\ pc' = "pull"
      BY <2>2 DEF Flush
    <3>2. drain \in Drains
      BY BookTypes
    <3> QED
      BY <2>2, <3>1, <3>2 DEF Drains, Reading
  <2> QED
    BY <2>1, <2>2
<1>3. Front' = drain.marker /\ Front = drain.marker
  BY <1>1, <1>2 DEF Front
<1>4. DOMAIN drain'.pending = {} /\ \A x : ~Carried(x)'
  BY <1>2, EmptySeq DEF Carried
<1>5. \A x : x \in shippedHere' <=> x \in shippedHere \/ Carried(x)
  BY <1>1 DEF Carried
<1>6. ASSUME NEW x \in Texts, ToCome(x)' PROVE ToCome(x) /\ ~Carried(x)
  <2>1. PICK p \in 1 .. Len(log) : log[p].text = x /\ ~Spared(p)'
    BY <1>1, <1>4, <1>6 DEF ToCome
  <2>2. drain.marker \in Nat /\ p \in Nat
    BY Shapes
  <2>3. x \in shippedHere' => p > drain.marker
    BY <1>1, <1>3, <2>1, <2>2 DEF Spared
  <2>4. ~Carried(x)
    BY <1>1, <1>5, <2>1, <2>3 DEF Books, Unread
  <2>5. ~Spared(p)
    <3> SUFFICES ASSUME Spared(p) PROVE FALSE
      OBVIOUS
    <3>1. x \in shippedHere /\ x \in shippedHere' /\ p > drain.marker /\ ~(p <= drain.marker)
      BY <1>5, <2>1, <2>2, <2>3 DEF Spared
    <3>2. drain.dedupe /\ p <= drain.until
      BY <1>3, <3>1 DEF Spared
    <3>3. ~drain.atEnd
      BY <1>1, <2>1, <3>1 DEF Books, Unread
    <3>4. drain'.dedupe /\ p <= drain'.until
      BY <1>2, <3>2, <3>3
    <3> QED
      BY <1>1, <2>1, <3>1, <3>4 DEF Spared
  <2> QED
    BY <2>1, <2>4, <2>5 DEF ToCome
<1>7. Debt'
  <2> SUFFICES ASSUME NEW x \in Texts PROVE sunk'[x] + (IF ToCome(x)' THEN 1 ELSE 0) <= 1 + faults
    BY <1>1 DEF Debt
  <2>1. sunk[x] \in Nat /\ faults \in Nat
    BY BookTypes
  <2>2. sunk[x] + (IF ToCome(x) THEN 1 ELSE 0) <= 1 + faults
    BY DEF Books, Debt
  <2>3. sunk'[x] = sunk[x] + (IF Carried(x) THEN 1 ELSE 0)
    BY <1>1, CarriedCount DEF Deliver, Books
  <2>4. Carried(x) => ToCome(x)
    BY DEF ToCome
  <2>5. ToCome(x)' => ToCome(x) /\ ~Carried(x)
    BY <1>6
  <2> QED
    BY <2>1, <2>2, <2>3, <2>4, <2>5
<1>8. Unwritten'
  <2> SUFFICES ASSUME NEW l \in Ids, l >= nextId
               PROVE  sunk'[Text[l]] = 0 /\ Text[l] \notin shippedHere' /\ drain'.consumed[Text[l]] = 0
    BY <1>1, <1>4 DEF Unwritten
  <2>1. /\ sunk[Text[l]] = 0 /\ Text[l] \notin shippedHere /\ ~Carried(Text[l])
        /\ drain.consumed[Text[l]] = 0 /\ Text[l] \in Texts
    BY Constants DEF Books, Unwritten
  <2>2. sunk'[Text[l]] = 0
    BY <1>1, <2>1, CarriedCount DEF Deliver, Books
  <2>3. drain'.consumed[Text[l]] = 0
    BY <1>2, <2>1 DEF NoDrain
  <2> QED
    BY <1>5, <2>1, <2>2, <2>3
<1>9. Unread'
  <2> SUFFICES ASSUME Reading', NEW p \in 1 .. Len(log), p > drain'.marker
               PROVE  drain'.consumed[log[p].text] = 0 /\ ~drain'.atEnd
    BY <1>1, <1>4 DEF Unread
  <2>1. ~drain.atEnd
    BY <1>2
  <2>2. drain.consumed[log[p].text] = 0
    BY <1>1, <1>2, <2>1 DEF Books, Unread
  <2> QED
    BY <1>2, <2>1, <2>2
<1>10. Resting' /\ AtTheEnd'
  BY <1>2 DEF Resting, AtTheEnd, NoDrain
<1> QED
  BY <1>4, <1>7, <1>8, <1>9, <1>10 DEF Books, CarriedOnce

-----------------------------------------------------------------------------
\* The lines of a turn of the loop, by their positions in the file.
LEMMA ReadAt ==
    ASSUME IInv, NEW m \in NextMarkers(drain.marker)
    PROVE  LET read == Chunk(drain.marker)
               recs == IF drain.dropFirst /\ read # << >> THEN Tail(read) ELSE read
           IN  \E o \in Nat : \A k \in DOMAIN recs :
                  /\ drain.marker + o + k \in 1 .. Len(log) /\ drain.marker + o + k <= m
                  /\ drain.marker < drain.marker + o + k
                  /\ recs[k] = log[drain.marker + o + k]
<1>0. PICK r : r = Chunk(drain.marker)
  OBVIOUS
<1> DEFINE recs == IF drain.dropFirst /\ r # << >> THEN Tail(r) ELSE r
<1> SUFFICES \E o \in Nat : \A k \in DOMAIN recs :
                  /\ drain.marker + o + k \in 1 .. Len(log) /\ drain.marker + o + k <= m
                  /\ drain.marker < drain.marker + o + k
                  /\ recs[k] = log[drain.marker + o + k]
  BY <1>0
<1>1. /\ drain.marker \in Positions /\ drain.marker \in Nat /\ Len(log) \in Nat
      /\ r \in Seq(Genuine)
  BY <1>0, Shapes, ChunkTypes DEF IInv, TypeOK
<1>2. PICK f \in Nat : f = drain.marker
  BY <1>1
<1>3. CASE r = << >>
  <2>1. DOMAIN recs = {}
    BY <1>3, EmptySeq
  <2> QED
    BY <2>1
<1>4. CASE r # << >>
  <2>1. /\ Len(r) \in Nat /\ m = f + Len(r) /\ m <= Len(log)
        /\ \A k \in 1 .. Len(r) : r[k] = log[f + k]
    BY <1>0, <1>1, <1>2, <1>4, ChunkLinesAre
  <2>2. CASE drain.dropFirst
    <3>1. recs = Tail(r)
      BY <1>4, <2>2
    <3>2. /\ Len(Tail(r)) = Len(r) - 1 /\ DOMAIN Tail(r) = 1 .. Len(Tail(r))
          /\ \A j \in 1 .. (Len(r) - 1) : Tail(r)[j] = r[j + 1]
      BY <1>1, <1>4, HeadTailProperties
    <3>3. \A k \in DOMAIN recs : k \in 1 .. (Len(r) - 1) /\ k + 1 \in 1 .. Len(r) /\ recs[k] = r[k + 1]
      BY <2>1, <3>1, <3>2
    <3>4. ASSUME NEW k \in DOMAIN recs
          PROVE  /\ f + 1 + k \in 1 .. Len(log) /\ f + 1 + k <= m /\ f < f + 1 + k
                 /\ recs[k] = log[f + 1 + k]
      <4>1. k \in Nat /\ k + 1 <= Len(r) /\ k + 1 \in 1 .. Len(r) /\ recs[k] = r[k + 1]
        BY <2>1, <3>3
      <4>2. r[k + 1] = log[f + (k + 1)]
        BY <2>1, <4>1
      <4>3. f + (k + 1) = f + 1 + k
        BY <4>1
      <4> QED
        BY <1>1, <2>1, <4>1, <4>2, <4>3
    <3> QED
      BY <1>2, <3>4
  <2>3. CASE ~drain.dropFirst
    <3>1. recs = r /\ DOMAIN recs = 1 .. Len(r)
      BY <1>1, <2>3
    <3>2. ASSUME NEW k \in DOMAIN recs
          PROVE  /\ f + 0 + k \in 1 .. Len(log) /\ f + 0 + k <= m /\ f < f + 0 + k
                 /\ recs[k] = log[f + 0 + k]
      <4>1. k \in Nat /\ 0 < k /\ k <= Len(r) /\ k \in 1 .. Len(r)
        BY <2>1, <3>1
      <4>2. recs[k] = log[f + k]
        BY <2>1, <3>1, <4>1
      <4>3. f + k = f + 0 + k
        BY <1>1, <2>1, <4>1
      <4> QED
        BY <1>1, <2>1, <4>1, <4>2, <4>3
    <3> QED
      BY <1>2, <3>2
  <2> QED
    BY <2>2, <2>3
<1> QED
  BY <1>3, <1>4

\* What dropAlreadyShipped keeps it keeps once.
LEMMA KeptFrom ==
    ASSUME NEW recs \in Seq(Genuine), NEW kept, kept = dropAlreadyShipped(recs)
    PROVE  \E from \in [DOMAIN kept -> DOMAIN recs] :
              /\ \A i \in DOMAIN kept : kept[i] = recs[from[i]] /\ ~AlreadyShipped(recs, from[i])
              /\ \A i, j \in DOMAIN kept : from[i] = from[j] => i = j
<1> DEFINE K == {k \in DOMAIN recs : ~AlreadyShipped(recs, k)}
           n == Cardinality(K)
           Upto(k) == Cardinality({j \in K : j <= k})
           from == [i \in 1 .. n |-> Nth(K, i)]
<1>1. DOMAIN recs = 1 .. Len(recs) /\ Len(recs) \in Nat
  OBVIOUS
<1>2. K \in SUBSET (1 .. Len(recs)) /\ \A k \in K : k \in DOMAIN recs /\ ~AlreadyShipped(recs, k)
  BY <1>1
<1>3. kept = [i \in 1 .. n |-> recs[Nth(K, i)]]
  BY DEF dropAlreadyShipped
<1> HIDE DEF K
<1>4. \A i \in 1 .. n : Nth(K, i) \in K /\ Upto(Nth(K, i)) = i
  BY <1>1, <1>2, NthElement
<1>5. DOMAIN kept = 1 .. n /\ \A i \in 1 .. n : kept[i] = recs[Nth(K, i)]
  BY <1>3
<1>6. from \in [DOMAIN kept -> DOMAIN recs]
  BY <1>2, <1>4, <1>5
<1>7. \A i \in DOMAIN kept : kept[i] = recs[from[i]] /\ ~AlreadyShipped(recs, from[i])
  BY <1>2, <1>4, <1>5
<1> HIDE DEF Upto
<1>8. \A i, j \in DOMAIN kept : from[i] = from[j] => i = j
  <2> SUFFICES ASSUME NEW i \in 1 .. n, NEW j \in 1 .. n, Nth(K, i) = Nth(K, j) PROVE i = j
    BY <1>5
  <2>1. i = Upto(Nth(K, i)) /\ j = Upto(Nth(K, j))
    BY <1>4
  <2> QED
    BY <2>1
<1> QED
  BY <1>6, <1>7, <1>8

LEMMA DroppedIfHeld ==
    ASSUME IInv, NEW recs \in Seq(Genuine), NEW k \in DOMAIN recs,
           \A j \in DOMAIN recs : recs[j].text = recs[k].text => j = k,
           drain.consumed[recs[k].text] = 0,
           \E i \in DOMAIN ring : ring[i] = recs[k].text
    PROVE  AlreadyShipped(recs, k)
<1>1. PICK x : x = recs[k].text
  OBVIOUS
<1> DEFINE S == {j \in 1 .. k : recs[j].text = x}
           R == {i \in DOMAIN ring : ring[i] = x}
<1>2. DOMAIN recs = 1 .. Len(recs) /\ Len(recs) \in Nat /\ k \in Nat
  OBVIOUS
<1>3. Cardinality(S) = 1
  <2>1. S = {k}
    BY <1>1, <1>2
  <2> QED
    BY <2>1, FS_Singleton
<1>4. Cardinality(R) \in Nat /\ 1 <= Cardinality(R)
  <2>1. ring \in Seq(Texts) /\ DOMAIN ring = 1 .. Len(ring)
    BY Shapes
  <2>2. IsFiniteSet(R)
    BY <2>1, FS_Interval, FS_Subset
  <2>3. R # {}
    BY <1>1
  <2>4. Cardinality(R) # 0 /\ Cardinality(R) \in Nat
    BY <2>2, <2>3, FS_EmptySet, FS_CardinalityType
  <2> QED
    BY <2>4
<1>5. Count(ring, x) = Cardinality(R)
  BY DEF Count
<1>6. drain.consumed[x] + Cardinality(S) <= Count(ring, x)
  BY <1>1, <1>3, <1>4, <1>5
<1> QED
  BY <1>1, <1>6, Zenon DEF AlreadyShipped

LEMMA ConsumedElsewhere ==
    ASSUME IInv, NEW recs \in Seq(Genuine), NEW x \in Texts, \A k \in DOMAIN recs : recs[k].text # x
    PROVE  Consumed(recs)[x] = drain.consumed[x]
<1> DEFINE D == {k \in DOMAIN recs : recs[k].text = x /\ AlreadyShipped(recs, k)}
<1>1. Consumed(recs)[x] = drain.consumed[x] + Cardinality(D)
  BY Zenon DEF Consumed
<1>2. D = {}
  OBVIOUS
<1>3. Cardinality(D) = 0
  BY <1>2, FS_EmptySet
<1>4. drain.consumed[x] \in Nat
  BY BookTypes
<1> QED
  BY <1>1, <1>3, <1>4

LEMMA NotYet ==
    ASSUME AllUnlike, IInv, Numbered, NEW l \in Ids, l >= nextId, NEW q \in 1 .. Len(log)
    PROVE  log[q].text # Text[l]
<1>1. log[q].id \in Ids /\ log[q].id \in Nat /\ log[q].id < nextId /\ log[q].text = Text[log[q].id]
  BY Shapes DEF Numbered
<1>2. l \in Nat /\ nextId \in Nat
  BY Constants, Shapes
<1>3. log[q].id # l
  BY <1>1, <1>2
<1> QED
  BY <1>1, <1>3 DEF AllUnlike

\* The marker passes over no line without reading it.
LEMMA BehindNext ==
    ASSUME IInv, NEW m \in NextMarkers(drain.marker), NEW p \in 1 .. Len(log), p > m
    PROVE  p > drain.marker
<1>1. drain.marker \in Nat /\ Len(log) \in Nat /\ p \in Nat /\ drain.marker \in Positions
  <2>1. drain.marker \in Positions
    BY DEF IInv, TypeOK
  <2> QED
    BY <2>1, Shapes
<1>2. CASE drain.marker < Len(log)
  <2>1. Chunk(drain.marker) \in Seq(Genuine)
    BY <1>1, ChunkTypes
  <2>2. m = drain.marker + Len(Chunk(drain.marker)) /\ Len(Chunk(drain.marker)) \in Nat
    BY <1>2, <2>1 DEF NextMarkers
  <2> QED
    BY <1>1, <2>2
<1>3. CASE ~(drain.marker < Len(log))
  <2>1. m = drain.marker \/ m = Len(log)
    BY <1>3 DEF NextMarkers
  <2> QED
    BY <1>1, <2>1
<1> QED
  BY <1>2, <1>3

LEMMA PullBooks ==
    ASSUME AllUnlike, IInv, IInv', Facts, Books, RingReaches, Pull
    PROVE  Books'
<1> DEFINE read == Chunk(drain.marker)
           recs == IF drain.dropFirst /\ read # << >> THEN Tail(read) ELSE read
           kept == IF drain.dedupe THEN dropAlreadyShipped(recs) ELSE recs
           texts == [k \in DOMAIN kept |-> kept[k].text]
           old == Len(drain.pending)
<1>1. PICK m \in NextMarkers(drain.marker) :
        /\ drain'.marker = m
        /\ drain'.pending = drain.pending \o texts
        /\ drain'.dedupe = (drain.dedupe /\ (m = 0 \/ drain.until = None \/ m < drain.until))
        /\ drain'.until = drain.until
        /\ drain'.consumed = IF drain.dedupe THEN Consumed(recs) ELSE drain.consumed
        /\ drain'.atEnd = (m >= Len(log))
        /\ pc' \in IF m >= Len(log) THEN {"flush"} ELSE {"pull", "flush"}
  <2>1. drain \in Drains
    BY BookTypes
  <2>2. PICK m \in NextMarkers(drain.marker) :
          /\ drain' = [drain EXCEPT
               !.marker = m,
               !.pending = @ \o texts,
               !.dropFirst = @ /\ read = << >>,
               !.dedupe = @ /\ (m = 0 \/ drain.until = None \/ m < drain.until),
               !.consumed = IF drain.dedupe THEN Consumed(recs) ELSE @,
               !.atEnd = m >= Len(log)]
          /\ pc' \in IF m >= Len(log) THEN {"flush"} ELSE {"pull", "flush"}
    BY Zenon DEF Pull
  <2> HIDE DEF texts, recs, read
  <2> QED
    BY <2>1, <2>2 DEF Drains
<1>2. /\ UNCHANGED <<log, nextId, ckpt, sunk, ring, shippedHere, faults>> /\ pc = "pull"
      /\ pc' \in {"pull", "flush"} /\ Reading /\ Reading'
  BY <1>1 DEF Pull, serverVars, histVars, Reading
<1>3. /\ drain.marker \in Nat /\ Len(log) \in Nat /\ drain.until \in Int
      /\ drain.pending \in Seq(Texts) /\ old \in Nat /\ DOMAIN drain.pending = 1 .. old
      /\ m \in Positions /\ m \in Nat
  <2>1. drain.marker \in Positions
    BY DEF IInv, TypeOK
  <2>2. m \in Positions
    BY <2>1, ChunkTypes
  <2> QED
    BY <2>2, BookTypes, Shapes, Constants
<1>4. recs \in Seq(Genuine) /\ kept \in Seq(Genuine)
  BY PulledLines
<1>5. PICK o \in Nat : \A k \in DOMAIN recs :
         /\ drain.marker + o + k \in 1 .. Len(log) /\ drain.marker + o + k <= m
         /\ drain.marker < drain.marker + o + k
         /\ recs[k] = log[drain.marker + o + k]
  BY ReadAt
<1>6. \A j, k \in DOMAIN recs : recs[j].text = recs[k].text => j = k
  <2> SUFFICES ASSUME NEW j \in DOMAIN recs, NEW k \in DOMAIN recs, recs[j].text = recs[k].text
               PROVE  j = k
    OBVIOUS
  <2> HIDE DEF recs
  <2>1. PICK p \in 1 .. Len(log), q \in 1 .. Len(log) :
           /\ p = drain.marker + o + j /\ q = drain.marker + o + k
           /\ recs[j] = log[p] /\ recs[k] = log[q]
    BY <1>5
  <2>2. p = q
    BY <2>1, OnePlace DEF Facts
  <2>3. j \in Nat /\ k \in Nat
    BY <1>4
  <2> QED
    BY <1>3, <2>1, <2>2, <2>3
<1>7. PICK from \in [DOMAIN kept -> DOMAIN recs] :
         /\ \A i \in DOMAIN kept : /\ kept[i] = recs[from[i]]
                                   /\ drain.dedupe => ~AlreadyShipped(recs, from[i])
         /\ \A i, j \in DOMAIN kept : from[i] = from[j] => i = j
  <2> HIDE DEF recs
  <2>1. CASE drain.dedupe
    <3>1. kept = dropAlreadyShipped(recs)
      BY <2>1
    <3> HIDE DEF kept
    <3> QED
      BY <1>4, <3>1, KeptFrom
  <2>2. CASE ~drain.dedupe
    <3>1. kept = recs
      BY <2>2
    <3> HIDE DEF kept
    <3>2. [i \in DOMAIN kept |-> i] \in [DOMAIN kept -> DOMAIN recs]
      BY <3>1
    <3> QED
      BY <2>2, <3>1, <3>2
  <2> QED
    BY <2>1, <2>2
<1>8. texts \in Seq(Texts) /\ DOMAIN texts = DOMAIN kept /\ \A k \in DOMAIN kept : texts[k] = kept[k].text
  <2> HIDE DEF kept
  <2>1. \A k \in 1 .. Len(kept) : kept[k].text \in Texts
    BY <1>4, ElementOfSeq DEF Genuine, Records
  <2>2. DOMAIN kept = 1 .. Len(kept) /\ Len(kept) \in Nat
    BY <1>4
  <2> QED
    BY <2>1, <2>2
<1> HIDE DEF recs, kept, texts, read
<1>9. \A i \in DOMAIN drain'.pending :
         \/ i \in DOMAIN drain.pending /\ drain'.pending[i] = drain.pending[i]
         \/ ~(i \in DOMAIN drain.pending) /\ i - old \in DOMAIN kept /\ i \in Nat
              /\ drain'.pending[i] = kept[i - old].text
  <2>1. /\ Len(drain.pending \o texts) = old + Len(texts)
        /\ \A i \in 1 .. Len(drain.pending \o texts) :
             (drain.pending \o texts)[i] = IF i <= old THEN drain.pending[i] ELSE texts[i - old]
        /\ drain.pending \o texts \in Seq(Texts)
    BY <1>3, <1>8, ConcatProperties
  <2>2. /\ Len(texts) \in Nat /\ DOMAIN texts = 1 .. Len(texts)
        /\ DOMAIN drain'.pending = 1 .. (old + Len(texts))
    BY <1>1, <1>8, <2>1
  <2> SUFFICES ASSUME NEW i \in DOMAIN drain'.pending
               PROVE  \/ i \in DOMAIN drain.pending /\ drain'.pending[i] = drain.pending[i]
                      \/ ~(i \in DOMAIN drain.pending) /\ i - old \in DOMAIN kept /\ i \in Nat
                           /\ drain'.pending[i] = kept[i - old].text
    OBVIOUS
  <2>3. i \in 1 .. (old + Len(texts)) /\ i \in Nat
    BY <2>2
  <2>4. drain'.pending[i] = IF i <= old THEN drain.pending[i] ELSE texts[i - old]
    BY <1>1, <2>1, <2>3
  <2>5. CASE i <= old
    BY <1>3, <2>3, <2>4, <2>5
  <2>6. CASE ~(i <= old)
    <3>1. i - old \in 1 .. Len(texts) /\ ~(i \in 1 .. old)
      BY <1>3, <2>2, <2>3, <2>6
    <3> QED
      BY <1>3, <1>8, <2>2, <2>3, <2>4, <2>6, <3>1
  <2> QED
    BY <2>5, <2>6
<1>10. ASSUME NEW i \in DOMAIN kept
       PROVE  \E q \in 1 .. Len(log) : /\ q > drain.marker /\ q <= m
                                       /\ kept[i] = log[q] /\ recs[from[i]] = log[q]
  <2>1. from[i] \in DOMAIN recs /\ kept[i] = recs[from[i]]
    BY <1>7
  <2>2. PICK q \in 1 .. Len(log) : q = drain.marker + o + from[i] /\ recs[from[i]] = log[q]
    BY <1>5, <2>1
  <2>3. q > drain.marker /\ q <= m
    BY <1>3, <1>5, <2>1, <2>2
  <2> QED
    BY <2>1, <2>2, <2>3
<1>11. \A x : Carried(x)' => Carried(x) \/ \E i \in DOMAIN kept : kept[i].text = x
  BY <1>9 DEF Carried
<1>12. CarriedOnce'
  <2> SUFFICES ASSUME NEW i \in DOMAIN drain'.pending, NEW j \in DOMAIN drain'.pending,
                      drain'.pending[i] = drain'.pending[j]
               PROVE  i = j
    BY DEF CarriedOnce
  <2>1. \A k \in DOMAIN kept : ~Carried(kept[k].text)
    BY <1>2, <1>10 DEF Books, Unread
  <2>2. CASE i \in DOMAIN drain.pending /\ j \in DOMAIN drain.pending
    BY <1>9, <2>2 DEF Books, CarriedOnce
  <2>3. CASE ~(i \in DOMAIN drain.pending) /\ ~(j \in DOMAIN drain.pending)
    <3>1. /\ i - old \in DOMAIN kept /\ j - old \in DOMAIN kept /\ i \in Nat /\ j \in Nat
          /\ kept[i - old].text = kept[j - old].text
      BY <1>9, <2>3
    <3>2. PICK a \in DOMAIN kept, b \in DOMAIN kept : a = i - old /\ b = j - old /\ kept[a].text = kept[b].text
      BY <3>1
    <3>3. from[a] = from[b]
      BY <1>6, <1>7, <3>2
    <3>4. a = b
      BY <1>7, <3>3
    <3> QED
      BY <1>3, <3>1, <3>2, <3>4
  <2>4. CASE i \in DOMAIN drain.pending /\ ~(j \in DOMAIN drain.pending)
    BY <1>9, <2>1, <2>4 DEF Carried
  <2>5. CASE ~(i \in DOMAIN drain.pending) /\ j \in DOMAIN drain.pending
    BY <1>9, <2>1, <2>5 DEF Carried
  <2> QED
    BY <2>2, <2>3, <2>4, <2>5
<1>13. ASSUME NEW x \in Texts, drain.consumed[x] = 0, \A k \in DOMAIN recs : recs[k].text # x
       PROVE  drain'.consumed[x] = 0
  <2>1. CASE drain.dedupe
    BY <1>1, <1>4, <1>13, <2>1, ConsumedElsewhere
  <2>2. CASE ~drain.dedupe
    BY <1>1, <1>13, <2>2
  <2> QED
    BY <2>1, <2>2
<1>14. Unwritten'
  <2> SUFFICES ASSUME NEW l \in Ids, l >= nextId
               PROVE  ~Carried(Text[l])' /\ drain'.consumed[Text[l]] = 0
    BY <1>2 DEF Books, Unwritten
  <2>1. \A q \in 1 .. Len(log) : log[q].text # Text[l]
    BY NotYet DEF Facts
  <2>2. ~Carried(Text[l]) /\ drain.consumed[Text[l]] = 0 /\ Text[l] \in Texts
    BY Constants DEF Books, Unwritten
  <2>3. ~Carried(Text[l])'
    BY <1>10, <1>11, <2>1, <2>2
  <2>4. \A k \in DOMAIN recs : recs[k].text # Text[l]
    BY <1>5, <2>1
  <2> QED
    BY <1>13, <2>2, <2>3, <2>4
<1>15. Unread'
  <2> SUFFICES ASSUME NEW p \in 1 .. Len(log), p > m
               PROVE  ~Carried(log[p].text)' /\ drain'.consumed[log[p].text] = 0 /\ ~drain'.atEnd
    BY <1>1, <1>2 DEF Unread
  <2>1. p > drain.marker
    BY BehindNext
  <2>2. ~Carried(log[p].text) /\ drain.consumed[log[p].text] = 0 /\ log[p].text \in Texts /\ p \in Nat
    BY <1>2, <2>1, Shapes DEF Books, Unread
  <2>3. \A q \in 1 .. Len(log) : q <= m => log[q].text # log[p].text
    <3> SUFFICES ASSUME NEW q \in 1 .. Len(log), q <= m, log[q].text = log[p].text PROVE FALSE
      OBVIOUS
    <3>1. q = p
      BY OnePlace DEF Facts
    <3> QED
      BY <1>3, <2>2, <3>1
  <2>4. ~Carried(log[p].text)'
    <3>1. ~\E i \in DOMAIN kept : kept[i].text = log[p].text
      BY <1>10, <2>3
    <3>2. PICK x : x = log[p].text
      OBVIOUS
    <3>3. ~Carried(x)'
      BY <1>11, <2>2, <3>1, <3>2
    <3> QED
      BY <1>2, <3>2, <3>3 DEF Carried
  <2>5. \A k \in DOMAIN recs : recs[k].text # log[p].text
    BY <1>5, <2>3
  <2>6. ~(m >= Len(log))
    BY <1>3, <2>2
  <2> QED
    BY <1>1, <1>13, <2>2, <2>4, <2>5, <2>6
<1>16. Front = drain.marker /\ Front' = m
  BY <1>1, <1>2 DEF Front
<1>17. ASSUME NEW i \in DOMAIN kept PROVE ToCome(kept[i].text)
  <2>1. PICK q \in 1 .. Len(log) : /\ q > drain.marker /\ q <= m
                                   /\ kept[i] = log[q] /\ recs[from[i]] = log[q]
    BY <1>10
  <2>2. ~Spared(q)
    <3> SUFFICES ASSUME Spared(q) PROVE FALSE
      OBVIOUS
    <3>1. ~(q <= drain.marker)
      BY <1>3, <2>1
    <3>2. log[q].text \in shippedHere /\ drain.dedupe /\ q <= drain.until
      BY <1>16, <3>1 DEF Spared
    <3>3. \E j \in DOMAIN ring : ring[j] = log[q].text
      BY <1>2, <2>1, <3>2 DEF RingReaches
    <3>4. drain.consumed[log[q].text] = 0
      BY <1>2, <2>1 DEF Books, Unread
    <3>5. from[i] \in DOMAIN recs
      BY <1>7
    <3>6. AlreadyShipped(recs, from[i])
      BY <1>4, <1>6, <2>1, <3>3, <3>4, <3>5, DroppedIfHeld
    <3> QED
      BY <1>7, <3>2, <3>6
  <2> QED
    BY <2>1, <2>2 DEF ToCome
<1>18. ASSUME NEW p \in 1 .. Len(log), Spared(p) PROVE Spared(p)'
  <2>1. CASE p <= m
    BY <1>2, <1>16, <1>18, <2>1 DEF Spared
  <2>2. CASE ~(p <= m)
    <3>1. p \in Nat /\ p > m
      BY <1>3, <2>2
    <3>2. p > drain.marker /\ ~(p <= drain.marker)
      BY <1>3, <3>1, BehindNext
    <3>3. drain.dedupe /\ p <= drain.until
      BY <1>16, <1>18, <3>2 DEF Spared
    <3>4. m < drain.until
      BY <1>3, <3>1, <3>3
    <3>5. drain'.dedupe /\ p <= drain'.until
      BY <1>1, <3>3, <3>4
    <3> QED
      BY <1>2, <1>18, <3>5 DEF Spared
  <2> QED
    BY <2>1, <2>2
<1>19. ASSUME NEW x \in Texts, ToCome(x)' PROVE ToCome(x)
  <2>1. CASE Carried(x)'
    BY <1>11, <1>17, <2>1 DEF ToCome
  <2>2. CASE ~Carried(x)'
    <3>1. PICK p \in 1 .. Len(log) : log[p].text = x /\ ~Spared(p)'
      BY <1>2, <1>19, <2>2 DEF ToCome
    <3>2. ~Spared(p)
      BY <1>18, <3>1
    <3> QED
      BY <3>1, <3>2 DEF ToCome
  <2> QED
    BY <2>1, <2>2
<1>20. Debt'
  BY <1>2, <1>19, DebtKept DEF Books
<1>21. Resting' /\ AtTheEnd'
  BY <1>1, <1>2 DEF Resting, AtTheEnd
<1> QED
  BY <1>12, <1>14, <1>15, <1>20, <1>21 DEF Books

-----------------------------------------------------------------------------
LEMMA StepBooks ==
    ASSUME AllUnlike
    PROVE  IInv /\ Facts /\ Books /\ RingReaches /\ [Next]_vars => (IInv /\ Facts /\ Books)'
<1> SUFFICES ASSUME IInv, Facts, Books, RingReaches, [Next]_vars PROVE (IInv /\ Facts /\ Books)'
  OBVIOUS
<1>1. IInv' /\ Facts'
  BY StepOK, FactsOK
<1>2. CASE Tick \/ ServerShutdown \/ TellRestart \/ List \/ UNCHANGED vars
  BY <1>1, <1>2, BystanderBooks
<1>3. CASE WriteLine \/ ServerRestart
  BY <1>1, <1>3, ServerBooks
<1>4. CASE BeginDrain
  BY <1>1, <1>4, BeginBooks
<1>5. CASE Pull
  BY <1>1, <1>5, PullBooks
<1>6. CASE Flush
  BY <1>1, <1>6, FlushBooks
<1>7. CASE Failure
  BY <1>1, <1>7, FailureBooks
<1> QED
  BY <1>1, <1>2, <1>3, <1>4, <1>5, <1>6, <1>7 DEF Next, Server, Worker

LEMMA BooksBalance == IInv /\ Books => DuplicatesNeedFaults
<1> SUFFICES ASSUME IInv, Books, NEW x \in Texts
             PROVE  sunk[x] <= Cardinality({i \in 1 .. (nextId - 1) : Text[i] = x}) * (1 + faults)
  BY DEF DuplicatesNeedFaults
<1> DEFINE S == {i \in 1 .. (nextId - 1) : Text[i] = x}
<1>1. sunk[x] \in Nat /\ faults \in Nat /\ nextId \in Nat /\ nextId > 0
  <2>1. sunk \in [Texts -> Nat] /\ faults \in Nat
    BY BookTypes
  <2> QED
    BY <2>1, Shapes
<1>2. IsFiniteSet(S) /\ Cardinality(S) \in Nat
  <2>1. IsFiniteSet(1 .. (nextId - 1)) /\ S \subseteq 1 .. (nextId - 1)
    BY <1>1, FS_Interval
  <2> QED
    BY <2>1, FS_Subset, FS_CardinalityType
<1>3. PICK l \in Ids : Text[l] = x
  BY DEF Texts
<1>4. l \in Nat /\ l > 0
  BY <1>3, Constants
<1>5. CASE l >= nextId
  <2>1. sunk[x] = 0
    BY <1>3, <1>5 DEF Books, Unwritten
  <2> QED
    BY <1>1, <1>2, <2>1
<1>6. CASE ~(l >= nextId)
  <2>1. l \in S
    BY <1>1, <1>3, <1>4, <1>6
  <2>2. Cardinality(S) # 0
    BY <1>2, <2>1, FS_EmptySet
  <2>3. sunk[x] <= 1 + faults
    BY <1>1 DEF Books, Debt
  <2> HIDE DEF S
  <2>4. PICK n \in Nat : n = Cardinality(S) /\ n >= 1
    BY <1>2, <2>2
  <2>5. 1 + faults <= n * (1 + faults)
    BY <1>1, <2>4
  <2> QED
    BY <1>1, <2>3, <2>4, <2>5 DEF S
<1> QED
  BY <1>5, <1>6

(* A line reaches the sink once, and once more for every failed drain and  *)
(* dead process (worker.go:74-79): a rewind ships nothing that the process *)
(* has shipped, whatever mark it starts from, wherever it is cut short and *)
(* however often it is repeated, because dropAlreadyShipped finds it in    *)
(* the ring and drops it up to where the checkpoint was.  It takes that no *)
(* two lines say the same and that the ring still holds what a rewind      *)
(* reads again, of which the code keeps as much as shipRingBytes.          *)
THEOREM NoFreeDuplicates ==
    ASSUME AllUnlike
    PROVE  Spec /\ []RingReaches => []DuplicatesNeedFaults
<1>1. Init => IInv /\ Facts /\ Books
  BY InitOK, InitAnswered, BooksInit
<1>2. (IInv /\ Facts /\ Books) /\ RingReaches /\ [Next]_vars => (IInv /\ Facts /\ Books)'
  BY StepBooks
<1>3. IInv /\ Facts /\ Books => DuplicatesNeedFaults
  BY BooksBalance
<1> QED
  BY <1>1, <1>2, <1>3, PTL DEF Spec
=============================================================================
