----------------------------- MODULE DrainProofs -----------------------------
(***************************************************************************)
(* Proofs about Drain, for every file length, chunk size, configuration    *)
(* and number of failures: the types, that no line is lost and none        *)
(* overtakes an earlier one, that AtLeastOnce is implemented, and that     *)
(* batches at risk, duplicates and broken entries are bounded.             *)
(***************************************************************************)
EXTENDS Drain, FiniteSetTheorems, WellFoundedInduction, TLAPS

-----------------------------------------------------------------------------
(* The inductive invariant.                                                *)

Draining == pc \in {"pull", "flush"}
Waving   == pc \in {"wave", "ship"}

\* The opening lines of the chunk at marker m, up to a later head that has
\* been written, are with the sink: dropping them on a resume loses nothing.
LeadShipped(m) ==
    /\ m + 1 \notin heads
    /\ \E h \in heads : m < h /\ h <= size /\ (m + 1) .. (h - 1) \subseteq Acked

\* Nothing of a file to be skipped to its end has been shipped.
NewFile ==
    /\ conf.from = "end" /\ ~ckpt.found => sunk = {} /\ ~Draining /\ ~Waving
    /\ pc = "skip" => sunk = {} /\ marker <= size
    /\ anchor <= size

CheckpointInv ==
    /\ (base + 1) .. ckpt.marker \subseteq Acked
    /\ base <= ckpt.marker
    /\ ckpt.marker <= size
    /\ ckpt.skip => LeadShipped(ckpt.marker)

\* A line that is not pending is at rest, and the drain has reached marker.
Progress ==
    /\ ~Draining /\ ~Waving => pending = {}
    /\ Draining \/ Waving =>
         /\ marker <= size
         /\ ckpt.marker <= marker
         /\ lastStart <= marker
         /\ (base + 1) .. marker \subseteq Acked \union UNION pending
         /\ \A r \in pending : \A x \in r : x <= marker

\* The record holding the last line pulled comes after all others and, with
\* the chunk it began in, after the checkpoint.
Newest ==
    Draining =>
      /\ pending # {} => \E q \in pending : marker \in q
      /\ \A q \in pending : marker \in q =>
           /\ ckpt.marker <= lastStart
           /\ \A y \in q : lastStart < y
           /\ \A r \in pending :
                IF marker \in r THEN r = q ELSE \A x \in r, y \in q : x < y
           /\ lastStartSkip =>
                /\ lastStart + 1 \notin heads
                /\ \E h \in heads : /\ lastStart < h /\ h <= marker
                                    /\ \A y \in q : h <= y

Skipping ==
    Draining /\ skipLeading =>
      /\ pc = "pull"
      /\ pending = {}
      /\ marker = ckpt.marker
      /\ ckpt.skip

\* A wave begins with nothing pending, and at no resume flag.
Wave ==
    /\ pc = "wave" => pending = {}
    /\ Waving => ~skipLeading

IInv ==
    /\ TypeOK
    /\ NewFile
    /\ CheckpointInv
    /\ NoGap
    /\ Progress
    /\ Newest
    /\ Skipping
    /\ Wave

-----------------------------------------------------------------------------
(* Lemmas about intervals and about parsing a chunk.                       *)

\* A non-empty set of integers with an upper bound has a greatest element.
LEMMA GreatestElement ==
    ASSUME NEW T, T \subseteq Int, T # {}, NEW b \in Int, \A t \in T : t <= b
    PROVE  \E t \in T : \A u \in T : u <= t
<1> DEFINE D == {b - t : t \in T}
<1>1. /\ D \subseteq Nat
      /\ D # {}
  <2>1. \A t \in T : b - t \in Nat
    OBVIOUS
  <2> QED
    BY <2>1
<1>2. PICK d \in D : \A c \in D : <<c, d>> \notin OpToRel(<, Nat)
  BY <1>1, NatLessThanWellFounded, WFMin, Zenon
<1>3. \A c \in D : ~(c < d)
  BY <1>1, <1>2, Zenon DEF OpToRel
<1>4. PICK t \in T : d = b - t
  OBVIOUS
<1>5. ASSUME NEW u \in T PROVE u <= t
  <2>1. ~(b - u < d)
    BY <1>3
  <2> QED
    BY <1>4, <2>1
<1> QED
  BY <1>5

\* Every line of a chunk is in one of its records.
LEMMA ParseCovers ==
    ASSUME NEW m \in Int, NEW e \in Int, NEW x \in (m + 1) .. e
    PROVE  \E r \in ParseRecords(m, e) : x \in r
<1> DEFINE Starts == {k \in (m + 1) .. x : k = m + 1 \/ k \in heads}
<1>1. x \in Int /\ Starts \subseteq Int /\ Starts # {} /\ \A k \in Starts : k <= x
  OBVIOUS
<1>2. PICK l \in Starts : \A k \in Starts : k <= l
  BY <1>1, GreatestElement, Zenon
<1>3. \A j \in (l + 1) .. x : j \notin heads
  BY <1>2
<1>4. x \in Span(l, e)
  BY <1>3 DEF Span
<1> QED
  BY <1>4 DEF ParseRecords

\* The record of a chunk that holds its last line comes after the others.
LEMMA ParseOrder ==
    ASSUME NEW m \in Int, NEW e \in Int,
           NEW r \in ParseRecords(m, e), e \notin r,
           NEW q \in ParseRecords(m, e), e \in q
    PROVE  \A x \in r, y \in q : x < y
<1>1. PICK k \in (m + 1) .. e : r = Span(k, e)
  BY DEF ParseRecords
<1>2. PICK l \in (m + 1) .. e : q = Span(l, e)
  BY DEF ParseRecords
<1>3. PICK j \in (k + 1) .. e : j \in heads
  BY <1>1 DEF Span
<1>4. j <= l
  BY <1>2, <1>3 DEF Span
<1>5. ASSUME NEW x \in r, NEW y \in q PROVE x < y
  BY <1>1, <1>2, <1>3, <1>4 DEF Span
<1> QED
  BY <1>5

\* Only one record of a chunk holds its last line.
LEMMA ParseUnique ==
    ASSUME NEW m \in Int, NEW e \in Int,
           NEW r \in ParseRecords(m, e), e \in r,
           NEW q \in ParseRecords(m, e), e \in q
    PROVE  r = q
<1>1. PICK k \in (m + 1) .. e : r = Span(k, e) /\ (k = m + 1 \/ k \in heads)
  BY DEF ParseRecords
<1>2. PICK l \in (m + 1) .. e : q = Span(l, e) /\ (l = m + 1 \/ l \in heads)
  BY DEF ParseRecords
<1>3. \A j \in (k + 1) .. e : j \notin heads
  BY <1>1 DEF Span
<1>4. \A j \in (l + 1) .. e : j \notin heads
  BY <1>2 DEF Span
<1>5. k = l
  BY <1>1, <1>2, <1>3, <1>4
<1> QED
  BY <1>1, <1>2, <1>5

\* Every record of a chunk but the first starts at a head.
LEMMA ParseStarts ==
    ASSUME NEW m \in Int, NEW e \in Int,
           NEW r \in ParseRecords(m, e), r # Span(m + 1, e)
    PROVE  \E h \in heads : /\ m + 1 < h /\ h <= e
                            /\ \A y \in r : h <= y
BY DEF ParseRecords, Span

\* A record of a chunk holds only lines of the chunk.
LEMMA ParseLines ==
    ASSUME NEW m \in Int, NEW e \in Int, NEW r \in ParseRecords(m, e)
    PROVE  r \subseteq (m + 1) .. e
BY DEF ParseRecords, Span

-----------------------------------------------------------------------------
(* Types.                                                                  *)

\* A chunk of the file holds only lines of the file.
LEMMA ChunkType ==
    ASSUME TypeOK
    PROVE  /\ ChunkEnd(marker) \in Markers
           /\ ChunkRecords(marker, ChunkEnd(marker)) \subseteq SUBSET Lines
           /\ JoinContinuation(marker, ChunkEnd(marker)) \subseteq SUBSET Lines
<1> DEFINE e == ChunkEnd(marker)
<1>1. e \in Markers /\ marker \in Markers
  BY DrainAssumption DEF TypeOK, ChunkEnd, Markers
<1>2. \A r \in ParseRecords(marker, e) : r \in SUBSET Lines
  <2>1. (marker + 1) .. e \subseteq Lines
    BY <1>1, DrainAssumption DEF Markers, Lines
  <2>2. marker \in Int /\ e \in Int
    BY <1>1 DEF Markers
  <2> QED
    BY <2>1, <2>2, ParseLines, Zenon
<1>3. Span(marker + 1, e) \in SUBSET Lines
  BY <1>1, DrainAssumption DEF Span, Markers, Lines
<1>4. ChunkRecords(marker, e) \subseteq SUBSET Lines
  BY <1>2 DEF ChunkRecords
<1>5. JoinContinuation(marker, e) \subseteq SUBSET Lines
  BY <1>3 DEF JoinContinuation, TypeOK
<1> QED
  BY <1>1, <1>4, <1>5

\* So does a wave.
LEMMA WaveType ==
    ASSUME TypeOK, WaveRead
    PROVE  /\ marker' \in Markers /\ pending' \subseteq SUBSET Lines
           /\ cuts' \subseteq Markers /\ atEnd' \in BOOLEAN
<1>1. PICK e \in (marker + 1) .. size, last \in BOOLEAN :
        /\ pending' \subseteq ParseRecords(marker, e)
        /\ marker' \in UNION pending'
        /\ cuts' \subseteq cuts \union {e}
        /\ atEnd' = last
  BY DEF WaveRead
<1>2. marker \in Int /\ e \in Int /\ (marker + 1) .. e \subseteq Lines /\ Lines \subseteq Markers
  BY DrainAssumption DEF TypeOK, Markers, Lines
<1>3. \A r \in pending' : r \in SUBSET Lines
  BY <1>1, <1>2, ParseLines, Zenon
<1>4. e \in Markers /\ marker' \in Markers
  BY <1>1, <1>2, <1>3 DEF TypeOK, Lines, Markers
<1> QED
  BY <1>1, <1>3, <1>4 DEF TypeOK

\* Delivering records of the file keeps the sink's history well-formed.
LEMMA DeliverType ==
    ASSUME TypeOK, NEW recs \in SUBSET pending, Deliver(recs)
    PROVE  sunk' \subseteq SUBSET Lines /\ copies' \in [Lines -> Nat]
<1>1. IsFiniteSet(SUBSET Lines)
  <2>1. 1 \in Int /\ MaxLines \in Int
    BY DrainAssumption
  <2>2. IsFiniteSet(Lines)
    BY <2>1, FS_Interval, Zenon DEF Lines
  <2> QED
    BY <2>2, FS_SUBSET, Zenon
<1>2. ASSUME NEW l \in Lines
      PROVE  Cardinality({r \in recs : l \in r}) \in Nat
  <2>1. {r \in recs : l \in r} \in SUBSET SUBSET Lines
    BY DEF TypeOK
  <2> QED
    BY <1>1, <2>1, FS_Subset, FS_CardinalityType, Zenon
<1>3. copies' \in [Lines -> Nat]
  BY <1>2 DEF Deliver, TypeOK
<1> QED
  BY <1>3 DEF Deliver, TypeOK

\* The number of failures stays within its bound.
LEMMA FaultType ==
    ASSUME TypeOK, Fault
    PROVE  faults' \in 0 .. MaxFaults
<1>1. faults \in 0 .. MaxFaults /\ faults < MaxFaults /\ faults' = faults + 1
  BY DEF TypeOK, Fault
<1>2. MaxFaults \in Nat
  BY DrainAssumption
<1> QED
  BY <1>1, <1>2

\* flush builds a well-formed checkpoint.
LEMMA CheckpointType ==
    ASSUME TypeOK
    PROVE  NextCheckpoint \in [found : BOOLEAN, marker : Markers, skip : BOOLEAN]
BY DEF NextCheckpoint, TypeOK

\* The initial state is well-typed.
LEMMA InitType == Init => TypeOK
<1> SUFFICES ASSUME Init PROVE TypeOK
  OBVIOUS
<1>1. 0 \in Markers /\ 0 \in 0 .. MaxFaults
  BY DrainAssumption DEF Markers
<1>2. heads \subseteq Lines /\ copies \in [Lines -> Nat]
  BY DEF Init
<1>3. ckpt \in [found : BOOLEAN, marker : Markers, skip : BOOLEAN]
  BY <1>1 DEF Init
<1> QED
  BY <1>1, <1>2, <1>3 DEF Init, TypeOK

\* TypeOK: every variable keeps its type, for every file and configuration.
THEOREM Typing == Spec => []TypeOK
<1>1. Init => TypeOK
  BY InitType
<1>2. TypeOK /\ [Next]_vars => TypeOK'
  <2> SUFFICES ASSUME TypeOK, [Next]_vars
               PROVE  TypeOK'
    OBVIOUS
  <2> USE DEF fileVars, memVars, sinkVars
  <2>0. 0 \in Markers
    BY DrainAssumption DEF Markers
  <2>1. CASE Append
    BY <2>1, DrainAssumption DEF Append, TypeOK, Markers
  <2>2. CASE Discover
    BY <2>2, <2>0 DEF Discover, TypeOK
  <2>3. CASE BeginDrain
    BY <2>3 DEF BeginDrain, TypeOK
  <2>4. CASE BeginSkip
    BY <2>4 DEF BeginSkip, SkipToEnd, TypeOK, NotSeen
  <2>5. CASE SkipSet
    BY <2>5, <2>0 DEF SkipSet, SaveTail, Forget, TypeOK
  <2>6. CASE Pull
    <3>1. pending' \subseteq SUBSET Lines /\ marker' \in Markers
      BY <2>6, ChunkType DEF Pull
    <3>2. lastStart' \in Markers /\ lastStartSkip' \in BOOLEAN
      BY <2>6 DEF Pull, TypeOK, Absorbs, LeadingContinuation
    <3>3. cuts' \subseteq Markers /\ atEnd' \in BOOLEAN
      BY <2>6, ChunkType DEF Pull, TypeOK
    <3> QED
      BY <2>6, <3>1, <3>2, <3>3 DEF Pull, TypeOK
  <2>7. CASE FlushWrite
    <3>1. sunk' \subseteq SUBSET Lines /\ copies' \in [Lines -> Nat]
      BY <2>7, DeliverType DEF FlushWrite
    <3>2. Carry \subseteq pending
      BY DEF Carry
    <3> QED
      BY <2>7, <3>1, <3>2 DEF FlushWrite, TypeOK
  <2>8. CASE FlushKeep
    BY <2>8 DEF FlushKeep, TypeOK
  <2>9. CASE FlushSet
    BY <2>9, <2>0, CheckpointType DEF FlushSet, Forget, TypeOK
  <2>10. CASE PullFail
    BY <2>10, <2>0, FaultType DEF PullFail, Forget, TypeOK
  <2>11. CASE WriteFail
    <3>1. sunk' \subseteq SUBSET Lines /\ copies' \in [Lines -> Nat]
      BY <2>11, DeliverType DEF WriteFail, TypeOK
    <3> QED
      BY <2>11, <3>1, <2>0, FaultType DEF WriteFail, Forget, TypeOK
  <2>12. CASE SetFail
    BY <2>12, <2>0, CheckpointType, FaultType DEF SetFail, Forget, TypeOK
  <2>13. CASE SkipSetFail
    <3>1. SaveTail \/ UNCHANGED <<ckpt, base>>
      BY <2>13 DEF SkipSetFail
    <3>2. /\ ckpt' \in [found : BOOLEAN, marker : Markers, skip : BOOLEAN]
          /\ base' \in Markers
      <4>1. CASE SaveTail
        BY <4>1 DEF SaveTail, TypeOK
      <4>2. CASE UNCHANGED <<ckpt, base>>
        BY <4>2 DEF TypeOK
      <4> QED
        BY <3>1, <4>1, <4>2
    <3> QED
      BY <2>13, <2>0, <3>2, FaultType DEF SkipSetFail, Forget, TypeOK
  <2>14. CASE Crash
    BY <2>14, <2>0, FaultType DEF Crash, Forget, TypeOK
  <2>15. CASE WaveRead
    BY <2>15, WaveType DEF WaveRead, TypeOK
  <2>16. CASE WaveGiveUp
    BY <2>16 DEF WaveGiveUp, TypeOK
  <2>17. CASE WaveSet
    BY <2>17, CheckpointType DEF WaveSet, TypeOK
  <2>18. CASE UNCHANGED vars
    BY <2>18 DEF vars, TypeOK
  <2> QED
    BY <2>1, <2>2, <2>3, <2>4, <2>5, <2>6, <2>7, <2>8, <2>9, <2>10, <2>11,
       <2>12, <2>13, <2>14, <2>15, <2>16, <2>17, <2>18 DEF Next, Worker, Failure
<1> QED
  BY <1>1, <1>2, PTL DEF Spec

-----------------------------------------------------------------------------
(* Nothing is lost and nothing overtakes.                                  *)

\* What makes dropping a chunk's opening lines safe stays true.
LEMMA LeadStays ==
    ASSUME TypeOK, NEW m \in Markers, LeadShipped(m),
           heads' = heads, size' \in Nat, size <= size', Acked \subseteq Acked'
    PROVE  LeadShipped(m)'
BY DEF LeadShipped, TypeOK, Markers, Lines

\* A pulled chunk is wholly accounted for: pending, or with the sink already.
LEMMA PullKeeps ==
    ASSUME IInv, Pull, TypeOK'
    PROVE  IInv'
<1> DEFINE m == marker
           e == ChunkEnd(m)
           lead == Span(m + 1, e)
           parsed == ParseRecords(m, e)
           recs == ChunkRecords(m, e)
           old == JoinContinuation(m, e)
<1> USE DEF IInv
<1>a. /\ m \in Int /\ e \in Int /\ m <= e /\ e <= size
      /\ lastStart \in Int /\ ckpt.marker \in Int /\ base \in Int /\ size \in Int
  BY DrainAssumption DEF TypeOK, Markers, ChunkEnd, Progress, Pull, Draining
<1>b. /\ pc = "pull" /\ pc' \in {"pull", "flush"}
      /\ marker' = e /\ pending' = old \union recs /\ skipLeading' = FALSE
      /\ recs # {} => lastStart' = m /\ lastStartSkip' = Absorbs(m, e)
      /\ recs = {} => lastStart' = lastStart /\ lastStartSkip' = lastStartSkip
      /\ UNCHANGED <<conf, heads, size, ckpt, anchor, base, sunk>>
  BY DEF Pull, fileVars, sinkVars
<1>c. Draining /\ Draining' /\ Acked' = Acked
  BY <1>b DEF Draining, Acked
<1>d. Absorbs(m, e) => m < e /\ m + 1 \notin heads
  BY DEF Absorbs, LeadingContinuation
<1>e. \A x \in lead : m < x /\ x <= e
  BY <1>a DEF Span
<1>f. /\ \A r \in pending : \E o \in old : r \subseteq o
      /\ \A o \in old :
           \/ Absorbs(m, e) /\ \E r \in pending : m \in r /\ o = r \union lead
           \/ o \in pending /\ (Absorbs(m, e) => m \notin o)
  BY DEF JoinContinuation
<1>g. /\ recs \subseteq parsed
      /\ \A r \in parsed : r \in recs \/ (Absorbs(m, e) /\ r = lead)
      /\ Absorbs(m, e) => lead \notin recs
  BY DEF ChunkRecords
<1>h. ASSUME Absorbs(m, e), pending # {}
      PROVE  \E o \in old : lead \subseteq o
  <2>1. PICK q \in pending : m \in q
    BY <1>h, <1>c DEF Newest
  <2> QED
    BY <1>h, <2>1 DEF JoinContinuation
<1>i. ASSUME Absorbs(m, e), pending = {}
      PROVE  lead \subseteq Acked
  <2>1. skipLeading /\ m = ckpt.marker /\ LeadShipped(m)
    BY <1>i, <1>c DEF Absorbs, Skipping, CheckpointInv
  <2>2. PICK h \in heads : m < h /\ (m + 1) .. (h - 1) \subseteq Acked
    BY <2>1 DEF LeadShipped
  <2>3. h \in Int
    BY DEF TypeOK, Lines
  <2>4. m + 1 \notin heads
    BY <1>i, <1>d
  <2>5. ASSUME NEW x \in lead PROVE x \in Acked
    <3>1. x \in Int /\ m < x /\ x <= e /\ \A j \in (m + 2) .. x : j \notin heads
      BY <1>a DEF Span
    <3>2. x < h
      BY <1>a, <2>2, <2>3, <2>4, <3>1
    <3> QED
      BY <1>a, <2>2, <2>3, <3>1, <3>2
  <2> QED
    BY <2>5
<1>j. ASSUME recs = {}, m < e
      PROVE  Absorbs(m, e) /\ e \in lead
  <2>1. e \in (m + 1) .. e
    BY <1>a, <1>j
  <2>2. PICK r \in parsed : e \in r
    BY <1>a, <2>1, ParseCovers
  <2> QED
    BY <1>g, <1>j, <2>2
<1>k. ASSUME NEW r \in recs
      PROVE  e \notin lead \/ ~Absorbs(m, e)
  <2>1. SUFFICES ASSUME Absorbs(m, e), e \in lead PROVE FALSE
    OBVIOUS
  <2>2. r \in parsed /\ r # lead
    BY <1>g, <2>1
  <2>3. PICK h \in heads : m + 1 < h /\ h <= e
    BY <1>a, <2>2, ParseStarts
  <2>4. h \in Int /\ \A j \in (m + 2) .. e : j \notin heads
    BY <1>a, <2>1 DEF Span, TypeOK, Lines
  <2> QED
    BY <1>a, <2>3, <2>4
<1>l. ASSUME NEW r \in parsed
      PROVE  \A x \in r : x \in Int /\ m < x /\ x <= e
  BY <1>a, ParseLines
<1>m. ASSUME NEW r \in pending
      PROVE  \A x \in r : x \in Int /\ x <= m
  BY <1>c DEF Progress, TypeOK, Lines
<1> HIDE DEF m, e, lead, parsed, recs, old, IInv
<1>1. Progress'
  <2>1. ASSUME NEW x \in (base + 1) .. e
        PROVE  x \in Acked \union UNION (old \union recs)
    <3>1. CASE x <= m
      <4>1. x \in Acked \union UNION pending
        BY <1>a, <1>c, <3>1 DEF Progress, IInv, m
      <4> QED
        BY <4>1, <1>f
    <3>2. CASE m < x
      <4>1. x \in (m + 1) .. e
        BY <1>a, <2>1, <3>2
      <4>2. PICK r \in parsed : x \in r
        BY <1>a, <4>1, ParseCovers DEF parsed
      <4>3. CASE r \in recs
        BY <4>2, <4>3
      <4>4. CASE Absorbs(m, e) /\ r = lead
        BY <4>2, <4>4, <1>h, <1>i
      <4> QED
        BY <1>g, <4>3, <4>4
    <3> QED
      BY <1>a, <2>1, <3>1, <3>2
  <2>2. ASSUME NEW r \in old \union recs, NEW x \in r
        PROVE  x <= e
    <3>1. CASE r \in recs
      BY <3>1, <1>g, <1>l
    <3>2. CASE r \in pending
      BY <3>2, <1>m, <1>a
    <3>3. CASE \E p \in pending : r = p \union lead
      BY <3>3, <1>m, <1>a, <1>e
    <3> QED
      BY <1>f, <3>1, <3>2, <3>3
  <2>3. ckpt'.marker <= marker'
    BY <1>a, <1>b, <1>c DEF Progress, IInv, m
  <2>4. lastStart' <= marker'
    BY <1>a, <1>b, <1>c DEF Progress, IInv, m
  <2>5. (base + 1) .. e \subseteq Acked \union UNION (old \union recs)
    BY <2>1
  <2> QED
    BY <1>a, <1>b, <1>c, <2>2, <2>3, <2>4, <2>5 DEF Progress
<1>2. Newest'
  <2>1. ASSUME old \union recs # {}
        PROVE  \E q \in old \union recs : e \in q
    <3>1. CASE recs = {} /\ m = e
      <4>1. old = pending
        BY <1>d, <1>a, <3>1 DEF old, JoinContinuation
      <4> QED
        BY <2>1, <3>1, <4>1, <1>c DEF Newest, IInv, m
    <3>2. CASE recs = {} /\ m < e
      <4>1. pending # {}
        BY <2>1, <3>2 DEF old, JoinContinuation
      <4> QED
        BY <3>2, <4>1, <1>j, <1>h
    <3>3. CASE recs # {}
      <4>1. m < e
        BY <3>3, <1>g, <1>a DEF parsed, ParseRecords
      <4>2. e \in (m + 1) .. e
        BY <1>a, <4>1
      <4>3. PICK r \in parsed : e \in r
        BY <1>a, <4>2, ParseCovers DEF parsed
      <4> QED
        BY <3>3, <4>3, <1>g, <1>k
    <3> QED
      BY <1>a, <3>1, <3>2, <3>3
  <2>2. ASSUME NEW q \in old \union recs, e \in q
        PROVE  /\ ckpt'.marker <= lastStart'
               /\ \A y \in q : lastStart' < y
               /\ \A r \in old \union recs :
                    IF e \in r THEN r = q ELSE \A x \in r, y \in q : x < y
               /\ lastStartSkip' =>
                    /\ lastStart' + 1 \notin heads'
                    /\ \E h \in heads' : /\ lastStart' < h /\ h <= e
                                         /\ \A y \in q : h <= y
    <3>1. CASE recs = {} /\ m = e
      <4>1. old = pending
        BY <1>d, <1>a, <3>1 DEF old, JoinContinuation
      <4> QED
        BY <1>b, <1>c, <2>2, <3>1, <4>1 DEF Newest, IInv, m
    <3>2. CASE recs = {} /\ m < e
      <4>1. Absorbs(m, e) /\ e \in lead
        BY <3>2, <1>j
      <4>2. PICK p \in pending : m \in p /\ q = p \union lead
        BY <2>2, <3>2, <1>f, <1>m, <1>a
      <4>3. /\ ckpt.marker <= lastStart
            /\ \A y \in p : lastStart < y
            /\ \A r \in pending :
                 IF m \in r THEN r = p ELSE \A x \in r, y \in p : x < y
            /\ lastStartSkip =>
                 /\ lastStart + 1 \notin heads
                 /\ \E h \in heads : /\ lastStart < h /\ h <= m
                                     /\ \A y \in p : h <= y
        BY <1>c, <4>2 DEF Newest, IInv, m
      <4>4. lastStart <= m
        BY <1>c DEF Progress, IInv, m
      <4>5. \A y \in q : lastStart < y
        BY <1>a, <1>e, <4>2, <4>3, <4>4
      <4>6. ASSUME NEW r \in old, e \notin r, NEW x \in r, NEW y \in q
            PROVE  x < y
        <5>1. r \in pending /\ m \notin r
          BY <4>1, <4>6, <1>f
        <5> QED
          BY <1>a, <1>e, <1>m, <4>2, <4>3, <5>1
      <4>7. ASSUME NEW r \in old, e \in r
            PROVE  r = q
        <5>1. PICK o \in pending : m \in o /\ r = o \union lead
          BY <4>7, <3>2, <1>f, <1>m, <1>a
        <5> QED
          BY <4>2, <4>3, <5>1
      <4>8. ASSUME lastStartSkip
            PROVE  \E h \in heads : /\ lastStart < h /\ h <= e
                                    /\ \A y \in q : h <= y
        <5>1. PICK h \in heads : /\ lastStart < h /\ h <= m
                                 /\ \A y \in p : h <= y
          BY <4>3, <4>8
        <5>2. h \in Int
          BY DEF IInv, TypeOK, Lines
        <5>3. h <= e /\ \A y \in q : h <= y
          BY <1>a, <1>e, <3>2, <4>2, <5>1, <5>2
        <5> QED
          BY <5>1, <5>3
      <4> QED
        BY <1>b, <3>2, <4>3, <4>5, <4>6, <4>8, <4>7
    <3>3. CASE recs # {}
      <4>1. m < e
        BY <3>3, <1>g, <1>a DEF parsed, ParseRecords
      <4>2. q \in recs /\ q \in parsed
        BY <2>2, <3>3, <4>1, <1>a, <1>f, <1>g, <1>k, <1>m
      <4>3. \A y \in q : m < y
        BY <4>2, <1>l
      <4>4. ckpt.marker <= m
        BY <1>c DEF Progress, IInv, m
      <4>5. ASSUME NEW r \in parsed, e \notin r, NEW x \in r, NEW y \in q
            PROVE  x < y
        BY <1>a, <2>2, <4>2, <4>5, ParseOrder DEF parsed
      <4>6. ASSUME NEW r \in old \union recs, e \notin r, NEW x \in r, NEW y \in q
            PROVE  x < y
        <5>1. CASE r \in recs
          BY <4>5, <4>6, <5>1, <1>g
        <5>2. CASE x \in UNION pending
          BY <5>2, <1>a, <1>m, <4>2, <1>l
        <5>3. CASE Absorbs(m, e) /\ x \in lead
          <6>1. e \notin lead
            BY <3>3, <1>k, <5>3
          <6>2. lead \in parsed
            BY <1>a, <4>1 DEF lead, parsed, ParseRecords
          <6> QED
            BY <5>3, <6>1, <6>2, <4>5
        <5> QED
          BY <4>6, <1>f, <5>1, <5>2, <5>3
      <4>7. ASSUME NEW r \in old \union recs, e \in r
            PROVE  r = q
        <5>1. r \in recs /\ r \in parsed
          BY <4>7, <3>3, <4>1, <1>a, <1>f, <1>g, <1>k, <1>m
        <5> QED
          BY <1>a, <2>2, <4>2, <4>7, <5>1, ParseUnique DEF parsed
      <4>8. ASSUME Absorbs(m, e)
            PROVE  /\ m + 1 \notin heads
                   /\ \E h \in heads : m < h /\ h <= e /\ \A y \in q : h <= y
        <5>1. q # lead
          BY <4>2, <4>8, <1>g
        <5>2. PICK h \in heads : m + 1 < h /\ h <= e /\ \A y \in q : h <= y
          BY <1>a, <4>2, <5>1, ParseStarts DEF parsed, lead
        <5>3. h \in Int
          BY DEF IInv, TypeOK, Lines
        <5> QED
          BY <1>a, <1>d, <4>8, <5>2, <5>3
      <4> QED
        BY <1>b, <3>3, <4>3, <4>4, <4>6, <4>8, <4>7
    <3> QED
      BY <1>a, <3>1, <3>2, <3>3
  <2> QED
    BY <1>b, <2>1, <2>2 DEF Newest
<1>3. Skipping' /\ Wave'
  BY <1>b DEF Skipping, Wave, Waving
<1>4. NewFile'
  BY <1>b, <1>c DEF NewFile, IInv
<1>5. CheckpointInv'
  BY <1>b, <1>c DEF CheckpointInv, LeadShipped, IInv
<1>6. NoGap'
  BY <1>b, <1>c DEF NoGap, IInv
<1> QED
  BY <1>1, <1>2, <1>3, <1>4, <1>5, <1>6 DEF IInv

\* What a wave read and did not hold back is all the lines up to its marker.
LEMMA WaveKeeps ==
    ASSUME IInv, WaveRead, TypeOK'
    PROVE  IInv'
<1> USE DEF IInv
<1>1. PICK e \in (marker + 1) .. size, last \in BOOLEAN :
        LET recs == ParseRecords(marker, e)
            kept == IF last THEN recs ELSE recs \ Holds(e, recs)
        IN  /\ pending' = kept
            /\ marker' \in UNION kept /\ \A l \in UNION kept : l <= marker'
  BY DEF WaveRead
<1> DEFINE recs == ParseRecords(marker, e)
           kept == IF last THEN recs ELSE recs \ Holds(e, recs)
<1>2. /\ pc = "wave" /\ pc' = "ship" /\ Waving /\ Waving' /\ ~Draining' /\ pending = {}
      /\ UNCHANGED <<conf, heads, size, ckpt, anchor, base, sunk, lastStart, skipLeading>>
  BY DEF WaveRead, Waving, Draining, Wave, fileVars, sinkVars
<1>3. /\ marker \in Int /\ e \in Int /\ e <= size /\ size \in Int /\ lastStart \in Int
      /\ ckpt.marker \in Int /\ base \in Int /\ lastStart <= marker /\ ckpt.marker <= marker
      /\ (base + 1) .. marker \subseteq Acked
  BY <1>2 DEF TypeOK, Markers, Progress
<1>4. PICK k \in kept : marker' \in k
  BY <1>1
<1>5. marker' \in (marker + 1) .. e /\ marker' \in Int
  <2>1. k \subseteq (marker + 1) .. e
    BY <1>3, ParseLines
  <2> QED
    BY <1>3, <1>4, <2>1
<1>6. ASSUME NEW x \in (marker + 1) .. marker' PROVE x \in UNION kept
  <2>1. x \in (marker + 1) .. e
    BY <1>3, <1>5
  <2>2. PICK q \in recs : x \in q
    BY <1>3, <2>1, ParseCovers
  <2>3. CASE q \in kept
    BY <2>2, <2>3
  <2>4. CASE q \notin kept
    <3>1. e \in q /\ e \notin k /\ k \in recs
      BY <1>4, <2>2, <2>4 DEF Holds
    <3>2. marker' < x
      BY <1>3, <1>4, <2>2, <3>1, ParseOrder
    <3> QED
      BY <1>3, <1>5, <2>1, <3>2
  <2> QED
    BY <2>3, <2>4
<1>7. Progress'
  <2>1. ASSUME NEW x \in (base + 1) .. marker' PROVE x \in Acked \union UNION kept
    BY <1>3, <1>5, <1>6
  <2>2. /\ marker' <= size /\ ckpt.marker <= marker' /\ lastStart <= marker'
    BY <1>3, <1>5
  <2>3. pending' = kept /\ \A l \in UNION kept : l <= marker'
    BY <1>1
  <2> HIDE DEF kept
  <2> QED
    BY <1>2, <2>1, <2>2, <2>3 DEF Progress, Acked
<1>8. NewFile' /\ CheckpointInv' /\ NoGap'
  BY <1>2 DEF NewFile, CheckpointInv, LeadShipped, NoGap, Acked
<1>9. Newest' /\ Skipping' /\ Wave'
  BY <1>2 DEF Newest, Skipping, Wave
<1> QED
  BY <1>7, <1>8, <1>9

\* The sink accepts everything but the carried record: no line is overtaken.
LEMMA DeliverKeepsOrder ==
    ASSUME IInv, TypeOK', pc \in {"flush", "ship"}, Deliver(pending \ Carry), base' = base
    PROVE  /\ Acked \subseteq Acked'
           /\ \A r \in pending \ Carry : r \subseteq Acked'
           /\ NoGap'
<1> USE DEF IInv
<1>1. Acked' = Acked \union UNION (pending \ Carry)
  BY DEF Deliver, Acked
<1>2. ASSUME NEW l \in Acked', NEW x \in (base + 1) .. l
      PROVE  x \in Acked'
  <2>1. CASE l \in Acked
    BY <1>1, <1>2, <2>1 DEF NoGap
  <2>2. CASE l \in UNION (pending \ Carry)
    <3>1. PICK r \in pending \ Carry : l \in r
      BY <2>2
    <3>2. l \in Int /\ marker \in Int /\ base \in Int /\ l <= marker
      <4>1. marker \in Int /\ base \in Int /\ pending \subseteq SUBSET Lines
        BY DEF TypeOK, Markers
      <4>2. l \in Lines
        BY <3>1, <4>1
      <4>3. l <= marker
        BY <3>1 DEF Progress, Draining, Waving
      <4> QED
        BY <4>1, <4>2, <4>3 DEF Lines
    <3>3. x \in (base + 1) .. marker
      BY <1>2, <3>2
    <3>4. x \in Acked \union UNION pending
      BY <3>3 DEF Progress, Draining, Waving
    <3>5. ASSUME NEW q \in Carry, x \in q
          PROVE  FALSE
      <4>1. q \in pending /\ marker \in q /\ marker \notin r /\ pc = "flush"
        BY <3>1, <3>5 DEF Carry, HoldLast
      <4>2. l < x
        BY <3>1, <3>5, <4>1 DEF Newest, Draining
      <4> QED
        BY <1>2, <3>2, <4>2
    <3> QED
      BY <1>1, <3>4, <3>5
  <2> QED
    BY <1>1, <1>2, <2>1, <2>2
<1>3. NoGap'
  BY <1>2 DEF NoGap
<1> QED
  BY <1>1, <1>3

\* The checkpoint a flush saves covers only lines the sink has.
LEMMA NextCheckpointSafe ==
    ASSUME IInv, pc \in {"flush", "ship"}, pending \ Carry = {}
    PROVE  /\ NextCheckpoint.found
           /\ NextCheckpoint.marker \in Markers
           /\ (base + 1) .. NextCheckpoint.marker \subseteq Acked
           /\ ckpt.marker <= NextCheckpoint.marker
           /\ NextCheckpoint.marker <= marker
           /\ NextCheckpoint.skip => LeadShipped(NextCheckpoint.marker)
           /\ Carry # {} => NextCheckpoint.marker = lastStart
<1> USE DEF IInv
<1>1. /\ marker \in Int /\ base \in Int /\ lastStart \in Int /\ size \in Int
      /\ ckpt.marker \in Int /\ base <= ckpt.marker /\ marker <= size
      /\ lastStart <= marker /\ ckpt.marker <= marker
  BY DEF TypeOK, Markers, CheckpointInv, Progress, Draining, Waving
<1>2. (base + 1) .. marker \subseteq Acked \union UNION Carry
  BY DEF Progress, Draining, Waving
<1>3. CASE Carry = {}
  BY <1>1, <1>2, <1>3 DEF NextCheckpoint, TypeOK
<1>4. CASE Carry # {}
  <2>1. NextCheckpoint = [found |-> TRUE, marker |-> lastStart, skip |-> lastStartSkip]
    BY <1>4 DEF NextCheckpoint
  <2>2. pc = "flush" /\ \A q \in Carry : q \in pending /\ marker \in q
    BY <1>4 DEF Carry, HoldLast
  <2>3. PICK q \in Carry : TRUE
    BY <1>4
  <2>4. ckpt.marker <= lastStart
    BY <2>2, <2>3 DEF Newest, Draining
  <2>5. \A p \in Carry : \A y \in p : lastStart < y
    BY <2>2 DEF Newest, Draining
  <2>6. (base + 1) .. lastStart \subseteq Acked
    BY <1>1, <1>2, <2>5
  <2>7. ASSUME lastStartSkip
        PROVE  LeadShipped(lastStart)
    <3>1. lastStart + 1 \notin heads
      BY <2>2, <2>3, <2>7 DEF Newest, Draining
    <3>2. PICK h \in heads : lastStart < h /\ h <= marker /\ \A y \in q : h <= y
      BY <2>2, <2>3, <2>7 DEF Newest, Draining
    <3>3. h \in Int
      BY DEF TypeOK, Lines
    <3>4. ASSUME NEW x \in (lastStart + 1) .. (h - 1)
          PROVE  x \in Acked
      <4>1. x \in (base + 1) .. marker /\ x < h
        BY <1>1, <2>4, <3>2, <3>3
      <4>2. ASSUME NEW p \in Carry, x \in p
            PROVE  FALSE
        <5>1. p = q
          BY <2>2, <2>3, <4>2 DEF Newest, Draining
        <5> QED
          BY <3>2, <3>3, <4>1, <4>2, <5>1
      <4> QED
        BY <1>2, <4>1, <4>2
    <3> QED
      BY <1>1, <3>1, <3>2, <3>3, <3>4 DEF LeadShipped
  <2> QED
    BY <1>1, <2>1, <2>4, <2>6, <2>7 DEF TypeOK
<1> QED
  BY <1>3, <1>4

\* Forgetting a drain leaves nothing to account for.
LEMMA ForgetKeeps ==
    ASSUME Forget
    PROVE  ~Draining' /\ ~Waving' /\ pc' # "skip" /\ Progress' /\ Newest' /\ Skipping' /\ Wave'
BY DEF Forget, Draining, Waving, Progress, Newest, Skipping, Wave

\* A saved checkpoint, whether or not the call said so, keeps the durable part.
LEMMA SaveKeeps ==
    ASSUME IInv, pc \in {"flush", "ship"}, pending \ Carry = {},
           ckpt' \in {ckpt, NextCheckpoint},
           UNCHANGED <<fileVars, anchor, base, sunk>>
    PROVE  CheckpointInv' /\ NoGap'
<1> USE DEF IInv
<1>1. /\ marker <= size /\ base <= ckpt.marker /\ Acked' = Acked
      /\ base \in Int /\ marker \in Int /\ size \in Int /\ ckpt.marker \in Int
      /\ NextCheckpoint.marker \in Int
  BY NextCheckpointSafe
  DEF TypeOK, Markers, CheckpointInv, Progress, Draining, Waving, Acked
<1>2. /\ \A m \in Markers : LeadShipped(m) => LeadShipped(m)'
      /\ UNCHANGED <<base, size>>
  BY <1>1 DEF LeadShipped, fileVars
<1>3. /\ (base + 1) .. ckpt'.marker \subseteq Acked
      /\ base <= ckpt'.marker
      /\ ckpt'.marker <= size
      /\ ckpt'.skip => LeadShipped(ckpt'.marker)
      /\ ckpt'.marker \in Markers
  <2>1. CASE ckpt' = ckpt
    BY <2>1 DEF CheckpointInv, TypeOK
  <2>2. CASE ckpt' = NextCheckpoint
    BY <1>1, <2>2, NextCheckpointSafe
  <2> QED
    BY <2>1, <2>2
<1>4. CheckpointInv'
  BY <1>1, <1>2, <1>3 DEF CheckpointInv
<1>5. NoGap'
  BY <1>1 DEF NoGap
<1> QED
  BY <1>4, <1>5

\* Skipping a file to its end sets the origin and the checkpoint together.
LEMMA TailKeeps ==
    ASSUME IInv, pc = "skip", SaveTail, UNCHANGED <<fileVars, anchor, sunk>>
    PROVE  CheckpointInv' /\ NoGap'
<1> USE DEF IInv
<1>1. sunk = {} /\ marker <= size /\ marker \in Int
  BY DEF NewFile, TypeOK, Markers
<1> QED
  BY <1>1 DEF SaveTail, CheckpointInv, NoGap, Acked, fileVars

\* IInv is inductive.
LEMMA Induction == IInv /\ TypeOK' /\ [Next]_vars => IInv'
<1> SUFFICES ASSUME IInv, TypeOK', [Next]_vars
             PROVE  IInv'
  OBVIOUS
<1> USE DEF IInv
<1>a. /\ size \in Int /\ base \in Int /\ ckpt.marker \in Int /\ marker \in Int
      /\ anchor \in Int /\ ckpt.marker \in Markers
  BY DEF TypeOK, Markers, NotSeen
<1>1. CASE Append
  <2>1. /\ size' = size + 1
        /\ UNCHANGED <<conf, heads, ckpt, anchor, memVars, base, sunk>>
    BY <1>1 DEF Append, sinkVars
  <2>2. Acked' = Acked
    BY <2>1 DEF Acked
  <2>3. size' \in Nat
    BY DEF TypeOK, Markers
  <2>4. CheckpointInv'
    <3>1. ckpt.skip => LeadShipped(ckpt.marker)'
      BY <1>a, <2>1, <2>2, <2>3, LeadStays DEF CheckpointInv
    <3> QED
      BY <1>a, <2>1, <2>2, <3>1 DEF CheckpointInv, LeadShipped
  <2>5. NewFile' /\ Progress' /\ Skipping' /\ Wave'
    BY <1>a, <2>1, <2>2 DEF NewFile, Progress, Skipping, Wave, Draining, Waving, memVars
  <2>6. Newest' /\ NoGap'
    BY <2>1, <2>2 DEF Newest, NoGap, Draining, memVars
  <2> QED
    BY <2>4, <2>5, <2>6
<1>2. CASE Discover
  <2>1. anchor' \in {0, size} /\ UNCHANGED <<fileVars, ckpt, memVars, base, sunk>>
    BY <1>2 DEF Discover, sinkVars
  <2>2. NewFile'
    BY <2>1, <1>a DEF NewFile, Draining, Waving, memVars, fileVars, TypeOK, Markers
  <2>3. CheckpointInv' /\ NoGap'
    BY <2>1 DEF CheckpointInv, LeadShipped, NoGap, Acked, fileVars
  <2>4. Progress' /\ Newest' /\ Skipping' /\ Wave'
    BY <2>1 DEF Progress, Newest, Skipping, Wave, Draining, Waving, Acked, memVars, fileVars
  <2> QED
    BY <2>2, <2>3, <2>4
<1>3. CASE BeginDrain
  <2>1. /\ pending = {} /\ pending' = {}
        /\ pc' = "pull" \/ (pc' = "wave" /\ ~ckpt.skip)
        /\ marker' = ckpt.marker /\ lastStart' = ckpt.marker
        /\ skipLeading' = ckpt.skip
        /\ ckpt.found \/ conf.from = "beginning"
        /\ UNCHANGED <<conf, heads, size, ckpt, anchor, base, sunk>>
    BY <1>3 DEF BeginDrain, Progress, Draining, Waving, fileVars
  <2>2. NewFile'
    BY <2>1 DEF NewFile
  <2>3. CheckpointInv' /\ NoGap'
    BY <2>1 DEF CheckpointInv, LeadShipped, NoGap, Acked
  <2>4. Progress'
    BY <2>1, <1>a DEF Progress, CheckpointInv, Acked
  <2>5. Newest'
    BY <2>1 DEF Newest
  <2>6. Skipping' /\ Wave'
    <3>1. CASE pc' = "pull"
      BY <2>1, <3>1 DEF Skipping, Wave, Waving
    <3>2. CASE pc' = "wave" /\ ~ckpt.skip
      BY <2>1, <3>2 DEF Skipping, Wave, Waving, Draining
    <3> QED
      BY <2>1, <3>1, <3>2
  <2> QED
    BY <2>2, <2>3, <2>4, <2>5, <2>6
<1>4. CASE BeginSkip
  <2>1. /\ pc' = "skip" /\ pending' = {}
        /\ ~Draining /\ ~Draining' /\ ~Waving /\ ~Waving'
        /\ marker' = SkipToEnd /\ sunk = {}
        /\ UNCHANGED <<conf, heads, size, ckpt, anchor, base, sunk>>
    BY <1>4 DEF BeginSkip, Draining, Waving, NewFile, Progress, fileVars, sinkVars
  <2>2. NewFile'
    BY <2>1, <1>a DEF NewFile, SkipToEnd
  <2>3. CheckpointInv' /\ NoGap'
    BY <2>1 DEF CheckpointInv, LeadShipped, NoGap, Acked
  <2>4. Progress' /\ Newest' /\ Skipping' /\ Wave'
    BY <2>1 DEF Progress, Newest, Skipping, Wave
  <2> QED
    BY <2>2, <2>3, <2>4
<1>5. CASE SkipSet
  <2>1. CheckpointInv' /\ NoGap'
    BY <1>5, TailKeeps DEF SkipSet, sinkVars
  <2>2. NewFile'
    BY <1>5, ForgetKeeps DEF SkipSet, SaveTail, NewFile, fileVars
  <2> QED
    BY <1>5, <2>1, <2>2, ForgetKeeps DEF SkipSet
<1>6. CASE Pull
  BY <1>6, PullKeeps
<1>7. CASE FlushWrite
  <2>1. /\ pc \in {"flush", "ship"} /\ pc' = pc
        /\ pending' = Carry /\ Carry \subseteq pending
        /\ \A q \in Carry : marker \in q
        /\ Deliver(pending \ Carry)
        /\ UNCHANGED <<conf, heads, size, ckpt, anchor, base, marker, lastStart,
                       lastStartSkip, skipLeading>>
    BY <1>7 DEF FlushWrite, Carry, fileVars
  <2>2. /\ Acked \subseteq Acked' /\ NoGap'
        /\ \A r \in pending \ Carry : r \subseteq Acked'
    BY <2>1, DeliverKeepsOrder
  <2>3. NewFile'
    BY <2>1 DEF NewFile, Draining, Waving
  <2>4. CheckpointInv'
    BY <2>1, <2>2 DEF CheckpointInv, LeadShipped
  <2>5. Progress'
    BY <2>1, <2>2 DEF Progress, Draining, Waving
  <2>6. Newest' /\ Skipping' /\ Wave'
    BY <2>1 DEF Newest, Skipping, Wave, Draining, Waving
  <2> QED
    BY <2>2, <2>3, <2>4, <2>5, <2>6
<1>8. CASE FlushKeep
  <2>1. /\ pc = "flush" /\ pc' = "pull" /\ Draining /\ Draining'
        /\ UNCHANGED <<conf, heads, size, ckpt, anchor, base, marker, lastStart,
                       pending, lastStartSkip, skipLeading, sunk>>
    BY <1>8 DEF FlushKeep, Draining, fileVars, sinkVars
  <2>2. NewFile' /\ CheckpointInv' /\ NoGap'
    BY <2>1 DEF NewFile, CheckpointInv, LeadShipped, NoGap, Acked
  <2>3. Progress' /\ Newest' /\ Skipping' /\ Wave'
    BY <2>1 DEF Progress, Newest, Skipping, Wave, Waving, Acked
  <2> QED
    BY <2>2, <2>3
<1>9. CASE FlushSet
  <2>1. /\ pc = "flush" /\ pending \ Carry = {} /\ ckpt' = NextCheckpoint
        /\ UNCHANGED <<fileVars, anchor, base, sunk>>
    BY <1>9 DEF FlushSet
  <2>2. CheckpointInv' /\ NoGap'
    BY <2>1, SaveKeeps
  <2>3. CASE atEnd
    <3>1. Forget
      BY <1>9, <2>3 DEF FlushSet
    <3> QED
      BY <2>1, <2>2, <3>1, ForgetKeeps, NextCheckpointSafe DEF NewFile, fileVars
  <2>4. CASE ~atEnd
    <3>1. /\ pc' = "pull" /\ Draining /\ Draining'
          /\ UNCHANGED <<marker, pending, lastStart, lastStartSkip, skipLeading>>
      BY <1>9, <2>4 DEF FlushSet, Draining
    <3>2. NewFile'
      BY <2>1, <3>1, NextCheckpointSafe DEF NewFile, fileVars
    <3>3. Progress'
      BY <2>1, <3>1, NextCheckpointSafe DEF Progress, Acked, fileVars
    <3>4. ASSUME pending # {}
          PROVE  NextCheckpoint.marker = lastStart
      BY <2>1, <3>4, NextCheckpointSafe
    <3>5. Newest'
      BY <1>a, <2>1, <3>1, <3>4 DEF Newest, fileVars, TypeOK, Markers
    <3>6. Skipping' /\ Wave'
      BY <2>1, <3>1 DEF Skipping, Wave, Waving
    <3> QED
      BY <2>2, <3>2, <3>3, <3>5, <3>6
  <2> QED
    BY <2>3, <2>4
<1>10. CASE PullFail
  <2>1. Forget /\ UNCHANGED <<fileVars, ckpt, anchor, base, sunk>>
    BY <1>10 DEF PullFail, sinkVars
  <2> QED
    BY <2>1, ForgetKeeps
    DEF NewFile, CheckpointInv, LeadShipped, NoGap, Acked, fileVars
<1>11. CASE WriteFail
  <2>1. /\ pc \in {"flush", "ship"} /\ (Draining \/ Waving) /\ Forget
        /\ UNCHANGED <<fileVars, ckpt, anchor, base>>
        /\ Deliver(pending \ Carry) \/ sunk' = sunk
    BY <1>11 DEF WriteFail, Draining, Waving
  <2>2. Acked \subseteq Acked' /\ NoGap'
    <3>1. CASE Deliver(pending \ Carry)
      BY <2>1, <3>1, DeliverKeepsOrder
    <3>2. CASE sunk' = sunk
      BY <2>1, <3>2 DEF NoGap, Acked
    <3> QED
      BY <2>1, <3>1, <3>2
  <2>3. CheckpointInv'
    BY <2>1, <2>2 DEF CheckpointInv, LeadShipped, fileVars
  <2>4. NewFile'
    BY <2>1, ForgetKeeps DEF NewFile, fileVars
  <2> QED
    BY <2>1, <2>2, <2>3, <2>4, ForgetKeeps
<1>12. CASE SetFail
  <2>1. /\ pc \in {"flush", "ship"} /\ (Draining \/ Waving)
        /\ pending \ Carry = {} /\ Forget
        /\ ckpt' \in {ckpt, NextCheckpoint}
        /\ UNCHANGED <<fileVars, anchor, base, sunk>>
    BY <1>12 DEF SetFail, Draining, Waving, sinkVars
  <2>2. NewFile'
    BY <2>1, ForgetKeeps, NextCheckpointSafe DEF NewFile, fileVars
  <2> QED
    BY <2>1, <2>2, SaveKeeps, ForgetKeeps
<1>13. CASE SkipSetFail
  <2>1. /\ pc = "skip" /\ Forget
        /\ SaveTail \/ UNCHANGED <<ckpt, base>>
        /\ UNCHANGED <<fileVars, anchor, sunk>>
    BY <1>13 DEF SkipSetFail, sinkVars
  <2>2. CheckpointInv' /\ NoGap'
    <3>1. CASE SaveTail
      BY <2>1, <3>1, TailKeeps
    <3>2. CASE UNCHANGED <<ckpt, base>>
      BY <2>1, <3>2 DEF CheckpointInv, LeadShipped, NoGap, Acked, fileVars
    <3> QED
      BY <2>1, <3>1, <3>2
  <2>3. NewFile'
    BY <2>1, ForgetKeeps DEF NewFile, SaveTail, fileVars
  <2> QED
    BY <2>1, <2>2, <2>3, ForgetKeeps
<1>14. CASE Crash
  <2>1. /\ Forget /\ anchor' = NotSeen
        /\ UNCHANGED <<fileVars, ckpt, base, sunk>>
    BY <1>14 DEF Crash, sinkVars
  <2>2. NewFile'
    BY <2>1, <1>a, ForgetKeeps DEF NewFile, NotSeen, fileVars, TypeOK, Markers
  <2> QED
    BY <2>1, <2>2, ForgetKeeps DEF CheckpointInv, LeadShipped, NoGap, Acked, fileVars
<1>15. CASE WaveRead
  BY <1>15, WaveKeeps
<1>16. CASE WaveGiveUp
  <2>1. /\ pc = "wave" /\ pc' = "pull" /\ pending = {} /\ Waving /\ Draining' /\ ~Waving'
        /\ UNCHANGED <<conf, heads, size, ckpt, anchor, base, marker, lastStart,
                       pending, lastStartSkip, skipLeading, sunk>>
    BY <1>16 DEF WaveGiveUp, Draining, Waving, Wave, fileVars, sinkVars
  <2>2. NewFile' /\ CheckpointInv' /\ NoGap'
    BY <2>1 DEF NewFile, CheckpointInv, LeadShipped, NoGap, Acked
  <2>3. Progress' /\ Newest' /\ Skipping' /\ Wave'
    BY <2>1 DEF Progress, Newest, Skipping, Wave, Acked
  <2> QED
    BY <2>2, <2>3
<1>17. CASE WaveSet
  <2>1. /\ pc = "ship" /\ pc' \in {"pull", "wave"} /\ pending = {} /\ pending' = {}
        /\ Waving /\ (Draining' \/ Waving') /\ Carry = {}
        /\ ckpt' = NextCheckpoint /\ lastStart' = marker
        /\ UNCHANGED <<fileVars, anchor, base, sunk, marker, skipLeading>>
    BY <1>17 DEF WaveSet, Draining, Waving, Carry
  <2>2. CheckpointInv' /\ NoGap'
    BY <2>1, SaveKeeps
  <2>3. ckpt'.marker = marker /\ ckpt'.found
    BY <2>1 DEF NextCheckpoint
  <2>4. ~skipLeading' /\ marker <= size /\ marker \in Int
        /\ (base + 1) .. marker \subseteq Acked
    BY <2>1 DEF Wave, Progress, TypeOK, Markers
  <2>5. NewFile'
    BY <1>a, <2>1, <2>3 DEF NewFile, fileVars
  <2>6. Progress'
    BY <2>1, <2>3, <2>4 DEF Progress, Acked, fileVars
  <2>7. Newest'
    BY <2>1 DEF Newest
  <2>8. Skipping' /\ Wave'
    BY <2>1, <2>4 DEF Skipping, Wave
  <2> QED
    BY <2>2, <2>5, <2>6, <2>7, <2>8
<1>18. CASE UNCHANGED vars
  BY <1>18 DEF vars, fileVars, memVars, sinkVars, NewFile, CheckpointInv, LeadShipped,
               NoGap, Progress, Newest, Skipping, Wave, Draining, Waving, Acked
<1> QED
  BY <1>1, <1>2, <1>3, <1>4, <1>5, <1>6, <1>7, <1>8, <1>9, <1>10, <1>11,
     <1>12, <1>13, <1>14, <1>15, <1>16, <1>17, <1>18 DEF Next, Worker, Failure

\* IInv holds throughout: the base of the theorems below.
LEMMA Invariance == Spec => []IInv
<1>1. Init => IInv
  <2> SUFFICES ASSUME Init PROVE IInv
    OBVIOUS
  <2>1. TypeOK
    BY InitType
  <2>2. NewFile /\ CheckpointInv /\ NoGap
    BY DEF Init, NewFile, CheckpointInv, NoGap, Acked, NotSeen, Draining, Waving
  <2>3. Progress /\ Newest /\ Skipping /\ Wave
    BY DEF Init, Progress, Newest, Skipping, Wave, Draining, Waving
  <2> QED
    BY <2>1, <2>2, <2>3 DEF IInv
<1>2. IInv /\ TypeOK' /\ [Next]_vars => IInv'
  BY Induction
<1> QED
  BY <1>1, <1>2, Typing, PTL DEF Spec

-----------------------------------------------------------------------------
(* The theorems.                                                           *)

\* At-least-once: whatever fails, the durable checkpoint never covers a line
\* the sink does not have, nor lets a resume drop one (worker.go:732-765).
THEOREM NothingLost == Spec => []NoLoss
<1>1. IInv => NoLoss
  <2> SUFFICES ASSUME IInv, ckpt.skip
               PROVE  Span(ckpt.marker + 1, size) \subseteq Acked
    BY DEF IInv, CheckpointInv, NoLoss
  <2>1. ckpt.marker + 1 \notin heads
    BY DEF IInv, CheckpointInv, LeadShipped
  <2>2. PICK h \in heads : /\ ckpt.marker < h
                           /\ (ckpt.marker + 1) .. (h - 1) \subseteq Acked
    BY DEF IInv, CheckpointInv, LeadShipped
  <2>3. h \in Int /\ ckpt.marker \in Int /\ size \in Int
    BY DEF IInv, TypeOK, Lines, Markers
  <2>4. ASSUME NEW x \in Span(ckpt.marker + 1, size)
        PROVE  x \in Acked
    <3>1. /\ x \in Int /\ ckpt.marker < x
          /\ \A j \in (ckpt.marker + 2) .. x : j \notin heads
      BY <2>3 DEF Span
    <3>2. x < h
      BY <2>1, <2>2, <2>3, <3>1
    <3> QED
      BY <2>2, <2>3, <3>1, <3>2
  <2> QED
    BY <2>4
<1> QED
  BY <1>1, Invariance, PTL

\* Order: no line reaches the sink ahead of an earlier one that is due.
THEOREM NothingOvertakes == Spec => []NoGap
<1>1. IInv => NoGap
  BY DEF IInv
<1> QED
  BY <1>1, Invariance, PTL

-----------------------------------------------------------------------------
(* Every step of Drain is a step of AtLeastOnce or changes nothing in it.  *)

\* The kinds of step, by what they do to the file, the sink and the checkpoint.
Rests == UNCHANGED <<size, base, sunk, ckpt>>

Grows == size < MaxLines /\ size' = size + 1 /\ UNCHANGED <<base, sunk, ckpt>>

Skips == pc = "skip" /\ SaveTail /\ UNCHANGED <<size, sunk>>

Ships ==
    /\ pc \in {"flush", "ship"}
    /\ Deliver(pending \ Carry)
    /\ UNCHANGED <<size, base, ckpt>>

Saves ==
    /\ pc \in {"flush", "ship"}
    /\ pending \ Carry = {}
    /\ ~NothingToAdvance
    /\ ckpt' = NextCheckpoint
    /\ UNCHANGED <<size, base, sunk>>

\* Every step is of one of these kinds.
LEMMA Kinds ==
    ASSUME [Next]_vars
    PROVE  Rests \/ Grows \/ Skips \/ Ships \/ Saves
<1> USE DEF fileVars, sinkVars
<1>1. CASE Append
  BY <1>1 DEF Append, Grows
<1>2. CASE Discover \/ BeginDrain \/ BeginSkip
  BY <1>2 DEF Discover, BeginDrain, BeginSkip, Rests
<1>3. CASE SkipSet
  BY <1>3 DEF SkipSet, Skips
<1>4. CASE WaveRead \/ WaveGiveUp \/ Pull \/ FlushKeep
  BY <1>4 DEF WaveRead, WaveGiveUp, Pull, FlushKeep, Rests
<1>5. CASE WaveSet
  BY <1>5 DEF WaveSet, Saves, NothingToAdvance, Carry, HoldLast
<1>6. CASE FlushWrite
  BY <1>6 DEF FlushWrite, Ships
<1>7. CASE FlushSet
  BY <1>7 DEF FlushSet, Saves
<1>8. CASE PullFail \/ Crash
  BY <1>8 DEF PullFail, Crash, Rests
<1>9. CASE WriteFail
  BY <1>9 DEF WriteFail, Ships, Rests
<1>10. CASE SetFail
  BY <1>10 DEF SetFail, Saves, Rests
<1>11. CASE SkipSetFail
  BY <1>11 DEF SkipSetFail, Skips, Rests
<1>12. CASE UNCHANGED vars
  BY <1>12 DEF vars, Rests
<1> QED
  BY <1>1, <1>2, <1>3, <1>4, <1>5, <1>6, <1>7, <1>8, <1>9, <1>10, <1>11, <1>12
  DEF Next, Worker, Failure

\* The sink has, and is about to get, lines of the file after the origin only.
Reached ==
    /\ Acked \subseteq (base + 1) .. size
    /\ \A r \in pending : \A x \in r : base < x

\* A file is skipped to its end only before its first checkpoint.
Unsaved ==
    /\ pc = "skip" => ~ckpt.found
    /\ ~ckpt.found => ckpt.marker = 0 /\ ~ckpt.skip

\* A drain resumed at a flag has read on by the time it flushes.
Flagged ==
    /\ Waving => ~ckpt.skip
    /\ pc = "flush" /\ ckpt.skip => ckpt.marker < marker

\* A chunk or a wave adds pending lines after the marker only.
LEMMA ReachedKept ==
    ASSUME IInv, TypeOK', Reached, [Next]_vars
    PROVE  Reached'
<1> USE DEF IInv
<1>a. /\ size \in Int /\ base \in Int /\ marker \in Int /\ ckpt.marker \in Int
      /\ base <= ckpt.marker
  BY DEF TypeOK, Markers, CheckpointInv
<1>1. (Acked \subseteq (base + 1) .. size)'
  <2>1. CASE Rests \/ Grows \/ Saves
    BY <1>a, <2>1 DEF Rests, Grows, Saves, Reached, Acked
  <2>2. CASE Skips
    BY <2>2 DEF Skips, NewFile, Acked
  <2>3. CASE Ships
    <3>1. Acked' = Acked \union UNION (pending \ Carry)
      BY <2>3 DEF Ships, Deliver, Acked
    <3>2. \A r \in pending : \A x \in r : base < x /\ x <= size /\ x \in Int
      BY <1>a, <2>3 DEF Ships, Reached, Progress, Draining, Waving, TypeOK, Lines
    <3>3. \A x \in Acked' : x \in (base + 1) .. size
      BY <1>a, <3>1, <3>2 DEF Reached
    <3>4. UNCHANGED <<base, size>>
      BY <2>3 DEF Ships
    <3> QED
      BY <3>3, <3>4
  <2> QED
    BY <2>1, <2>2, <2>3, Kinds
<1>2. (\A r \in pending : \A x \in r : base < x)'
  <2>1. CASE Pull
    <3> DEFINE e == ChunkEnd(marker)
    <3>1. /\ pending' = JoinContinuation(marker, e) \union ChunkRecords(marker, e)
          /\ base' = base /\ ckpt.marker <= marker
      BY <2>1 DEF Pull, Progress, Draining
    <3>2. e \in Int
      BY ChunkType DEF Markers
    <3>3. \A x \in Span(marker + 1, e) : base < x
      BY <1>a, <3>1, <3>2 DEF Span
    <3>4. ASSUME NEW r \in ChunkRecords(marker, e), NEW x \in r PROVE base < x
      <4>1. r \in ParseRecords(marker, e)
        BY <3>4 DEF ChunkRecords
      <4>2. r \subseteq (marker + 1) .. e
        BY <1>a, <3>2, <4>1, ParseLines
      <4> QED
        BY <1>a, <3>1, <3>2, <3>4, <4>2
    <3>5. ASSUME NEW r \in JoinContinuation(marker, e), NEW x \in r PROVE base < x
      BY <3>3, <3>5 DEF JoinContinuation, Reached
    <3> HIDE DEF e
    <3> QED
      BY <3>1, <3>4, <3>5
  <2>2. CASE WaveRead
    <3>1. PICK e \in (marker + 1) .. size : pending' \subseteq ParseRecords(marker, e)
      BY <2>2 DEF WaveRead
    <3>2. base' = base /\ ckpt.marker <= marker
      BY <2>2 DEF WaveRead, Progress, Waving
    <3>3. ASSUME NEW r \in pending', NEW x \in r PROVE base < x
      <4>1. e \in Int /\ r \in ParseRecords(marker, e)
        BY <1>a, <3>1, <3>3
      <4>2. r \subseteq (marker + 1) .. e
        BY <1>a, <4>1, ParseLines
      <4> QED
        BY <1>a, <3>2, <3>3, <4>1, <4>2
    <3> QED
      BY <3>2, <3>3
  <2>3. CASE SkipSet \/ SkipSetFail
    BY <2>3 DEF SkipSet, SkipSetFail, Forget
  <2>4. CASE Append \/ Discover \/ BeginDrain \/ BeginSkip \/ WaveGiveUp \/ WaveSet
    BY <2>4 DEF Append, Discover, BeginDrain, BeginSkip, WaveGiveUp, WaveSet, memVars, Reached
  <2>5. CASE FlushWrite \/ FlushKeep \/ FlushSet
    BY <2>5 DEF FlushWrite, FlushKeep, FlushSet, Forget, Carry, Reached
  <2>6. CASE PullFail \/ WriteFail \/ SetFail \/ Crash
    BY <2>6 DEF PullFail, WriteFail, SetFail, Crash, Forget
  <2>7. CASE UNCHANGED vars
    BY <2>7 DEF vars, memVars, Reached
  <2> QED
    BY <2>1, <2>2, <2>3, <2>4, <2>5, <2>6, <2>7 DEF Next, Worker, Failure
<1> QED
  BY <1>1, <1>2 DEF Reached

\* Every saved checkpoint is a found one.
LEMMA UnsavedKept ==
    ASSUME IInv, Unsaved, [Next]_vars
    PROVE  Unsaved'
<1>1. ckpt' = ckpt \/ (ckpt'.found /\ pc' # "skip")
  <2> USE DEF fileVars, sinkVars
  <2>1. CASE Append \/ Discover \/ BeginDrain \/ BeginSkip \/ WaveRead \/ WaveGiveUp \/ Pull
    BY <2>1 DEF Append, Discover, BeginDrain, BeginSkip, WaveRead, WaveGiveUp, Pull
  <2>2. CASE SkipSet \/ SkipSetFail
    BY <2>2 DEF SkipSet, SkipSetFail, SaveTail, Forget
  <2>3. CASE WaveSet \/ FlushSet \/ SetFail
    BY <2>3 DEF WaveSet, FlushSet, SetFail, NextCheckpoint, Forget
  <2>4. CASE FlushWrite \/ FlushKeep \/ PullFail \/ WriteFail \/ Crash
    BY <2>4 DEF FlushWrite, FlushKeep, PullFail, WriteFail, Crash
  <2>5. CASE UNCHANGED vars
    BY <2>5 DEF vars
  <2> QED
    BY <2>1, <2>2, <2>3, <2>4, <2>5 DEF Next, Worker, Failure
<1>2. pc' = "skip" => pc = "skip" \/ ~ckpt.found
  <2>1. CASE Append \/ Discover \/ BeginDrain \/ BeginSkip \/ WaveRead \/ WaveGiveUp \/ Pull
    BY <2>1 DEF Append, Discover, BeginDrain, BeginSkip, WaveRead, WaveGiveUp, Pull, memVars
  <2>2. CASE SkipSet \/ WaveSet \/ FlushWrite \/ FlushKeep \/ FlushSet
    BY <2>2 DEF SkipSet, WaveSet, FlushWrite, FlushKeep, FlushSet, Forget
  <2>3. CASE Failure
    BY <2>3 DEF Failure, PullFail, WriteFail, SetFail, SkipSetFail, Crash, Forget
  <2>4. CASE UNCHANGED vars
    BY <2>4 DEF vars, memVars
  <2> QED
    BY <2>1, <2>2, <2>3, <2>4 DEF Next, Worker
<1> QED
  BY <1>1, <1>2 DEF Unsaved

\* A flag stands before a line already written, so a pull gets past it.
LEMMA FlaggedKept ==
    ASSUME IInv, Flagged, [Next]_vars
    PROVE  Flagged'
<1> USE DEF IInv
<1>1. CASE Append \/ Discover
  BY <1>1 DEF Append, Discover, memVars, Flagged, Waving
<1>2. CASE BeginDrain \/ BeginSkip
  BY <1>2 DEF BeginDrain, BeginSkip, Flagged, Waving
<1>3. CASE WaveRead \/ WaveGiveUp
  BY <1>3 DEF WaveRead, WaveGiveUp, Flagged, Waving
<1>4. CASE WaveSet
  BY <1>4 DEF WaveSet, NextCheckpoint, Carry, HoldLast, Flagged, Waving
<1>5. CASE Pull
  <2>1. /\ ckpt' = ckpt /\ marker' = ChunkEnd(marker) /\ pc' \in {"pull", "flush"}
        /\ ckpt.marker <= marker /\ marker <= size
        /\ ckpt.marker \in Int /\ marker \in Int /\ size \in Int
    BY <1>5 DEF Pull, Progress, Draining, TypeOK, Markers
  <2>2. ckpt.skip => ckpt.marker < size
    <3> SUFFICES ASSUME ckpt.skip PROVE ckpt.marker < size
      OBVIOUS
    <3>1. PICK h \in heads : ckpt.marker < h /\ h <= size
      BY DEF CheckpointInv, LeadShipped
    <3> QED
      BY <2>1, <3>1 DEF TypeOK, Lines
  <2> QED
    BY <2>1, <2>2, DrainAssumption DEF ChunkEnd, Flagged, Waving
<1>6. CASE FlushWrite
  BY <1>6 DEF FlushWrite, Flagged, Waving
<1>7. CASE FlushKeep \/ FlushSet \/ SkipSet
  BY <1>7 DEF FlushKeep, FlushSet, SkipSet, Forget, Flagged, Waving
<1>8. CASE Failure
  BY <1>8 DEF Failure, PullFail, WriteFail, SetFail, SkipSetFail, Crash, Forget, Flagged, Waving
<1>9. CASE UNCHANGED vars
  BY <1>9 DEF vars, memVars, Flagged, Waving
<1> QED
  BY <1>1, <1>2, <1>3, <1>4, <1>5, <1>6, <1>7, <1>8, <1>9 DEF Next, Worker

\* The three hold throughout.
LEMMA MappingInvariance == Spec => [](Reached /\ Unsaved /\ Flagged)
<1>1. Init => Reached /\ Unsaved /\ Flagged
  BY DEF Init, Reached, Unsaved, Flagged, Acked, Waving
<1>2. /\ IInv /\ TypeOK' /\ [Next]_vars
      /\ Reached /\ Unsaved /\ Flagged
      => (Reached /\ Unsaved /\ Flagged)'
  BY ReachedKept, UnsavedKept, FlaggedKept
<1> QED
  BY <1>1, <1>2, Typing, Invariance, PTL DEF Spec

\* The durable position never moves back, and a resume flag goes only with a
\* move forward (flush's saved checkpoint, worker.go:751-764).
THEOREM NeverBack == Spec => CheckpointMonotone
<1>1. /\ IInv /\ Reached /\ Unsaved /\ Flagged /\ [Next]_vars
      => [/\ ckpt'.marker >= ckpt.marker
          /\ ckpt.found => ckpt'.found
          /\ (ckpt.skip /\ ~ckpt'.skip) => ckpt'.marker > ckpt.marker]_vars
  <2> SUFFICES ASSUME IInv, Unsaved, Flagged, [Next]_vars
               PROVE  /\ ckpt'.marker >= ckpt.marker
                      /\ ckpt.found => ckpt'.found
                      /\ (ckpt.skip /\ ~ckpt'.skip) => ckpt'.marker > ckpt.marker
    OBVIOUS
  <2>1. ckpt.marker \in Int /\ marker \in Int /\ lastStart \in Int
    BY DEF IInv, TypeOK, Markers
  <2>2. CASE ckpt' = ckpt
    BY <2>1, <2>2
  <2>3. CASE Skips
    BY <2>1, <2>3 DEF Skips, SaveTail, Unsaved, IInv, TypeOK, Markers
  <2>4. CASE Saves
    <3>1. /\ ckpt' = NextCheckpoint /\ NextCheckpoint.found
          /\ ckpt.marker <= NextCheckpoint.marker /\ NextCheckpoint.marker \in Int
      BY <2>1, <2>4, NextCheckpointSafe DEF Saves, Markers
    <3>2. CASE Carry # {}
      BY <2>1, <2>4, <3>1, <3>2 DEF Saves, NothingToAdvance
    <3>3. CASE Carry = {}
      BY <2>1, <2>4, <3>1, <3>3 DEF Saves, NextCheckpoint, Flagged, Waving
    <3> QED
      BY <3>2, <3>3
  <2> QED
    BY <2>2, <2>3, <2>4, Kinds DEF Rests, Grows, Ships
<1> QED
  BY <1>1, Invariance, MappingInvariance, PTL DEF Spec, CheckpointMonotone

\* drainFile does what AtLeastOnce promises of a file, step by step: what the
\* sink has is always an unbroken run of lines from the origin on.
LEMMA MappedStep ==
    ASSUME IInv, IInv', Reached, Reached', Unsaved, [Next]_vars
    PROVE  [Abstract!ANext]_(Abstract!avars)
<1>a. /\ size \in Int /\ size' \in Int /\ base \in Int /\ base' \in Int
      /\ ckpt.marker \in Int /\ ckpt'.marker \in Int
  BY DEF IInv, TypeOK, Markers
<1>1. CASE Rests
  BY <1>1 DEF Rests, Abstract!avars, Acked
<1>2. CASE Grows
  BY <1>a, <1>2, DrainAssumption DEF Grows, Acked, Abstract!ANext, Abstract!Grow
<1>3. CASE Skips
  <2>1. Acked = {} /\ Acked' = {} /\ marker \in 0 .. size /\ ckpt.marker = 0
    BY <1>3 DEF Skips, Acked, IInv, NewFile, Unsaved, TypeOK, Markers
  <2> QED
    BY <1>3, <2>1 DEF Skips, SaveTail, Abstract!ANext, Abstract!SkipTo
<1>4. CASE Ships
  <2>1. Acked \subseteq Acked' /\ UNCHANGED <<size, base, ckpt>>
    BY <1>4 DEF Ships, Deliver, Acked
  <2>2. base <= size /\ base \in base .. size
    BY <1>a DEF IInv, CheckpointInv
  <2>3. CASE Acked' = {}
    BY <1>a, <2>1, <2>2, <2>3 DEF Abstract!avars
  <2>4. CASE Acked' # {}
    <3>1. Acked' \subseteq Int /\ \A l \in Acked' : base < l /\ l <= size
      BY <1>a, <2>1 DEF Reached
    <3>2. PICK b \in Acked' : \A l \in Acked' : l <= b
      BY <1>a, <2>4, <3>1, GreatestElement, Zenon
    <3>3. Acked' = (base + 1) .. b
      <4>1. (base + 1) .. b \subseteq Acked'
        BY <2>1, <3>2 DEF IInv, NoGap
      <4>2. \A l \in Acked' : l \in (base + 1) .. b
        BY <1>a, <3>1, <3>2
      <4> QED
        BY <4>1, <4>2
    <3>4. Acked' = Acked \union ((base + 1) .. b)
      BY <2>1, <3>3
    <3>5. b \in base .. size /\ (base + 1) .. base \subseteq Acked
      BY <1>a, <3>1
    <3>6. Abstract!DeliverTo
      BY <1>a, <2>1, <2>2, <3>4, <3>5 DEF Abstract!DeliverTo
    <3> QED
      BY <3>6 DEF Abstract!ANext
  <2> QED
    BY <2>3, <2>4
<1>5. CASE Saves
  <2>1. /\ Acked' = Acked /\ UNCHANGED <<size, base>>
        /\ ckpt.marker <= ckpt'.marker
    BY <1>5, NextCheckpointSafe DEF Saves, Acked
  <2>2. ckpt'.marker <= size /\ (base + 1) .. ckpt'.marker \subseteq Acked
    BY <2>1 DEF IInv, CheckpointInv
  <2> QED
    BY <1>a, <2>1, <2>2 DEF Abstract!ANext, Abstract!Commit
<1> QED
  BY <1>1, <1>2, <1>3, <1>4, <1>5, Kinds

\* drainFile implements the promise in AtLeastOnce, whatever fails
\* (drainFile, flush and parallelDrain in worker.go).
THEOREM Implementation == Spec => ImplementsAtLeastOnce
<1>1. Init => Abstract!AInit
  BY DEF Init, Abstract!AInit, Acked
<1>2. /\ IInv /\ IInv' /\ Reached /\ Reached' /\ Unsaved /\ [Next]_vars
      => [Abstract!ANext]_(Abstract!avars)
  BY MappedStep
<1> QED
  BY <1>1, <1>2, Invariance, MappingInvariance, PTL
  DEF Spec, ImplementsAtLeastOnce, Abstract!ASpec

-----------------------------------------------------------------------------
(* Batches at risk, duplicates and whole entries: three more invariants,   *)
(* each inductive next to IInv.                                            *)

\* Two batches are unsaved only until the next flush: the first one's carried
\* record began in the checkpoint's chunk, and no other record has joined it
\* unless it began in a later chunk.
Exposure ==
    /\ exposed <= 2
    /\ pc = "wave" => exposed = 0
    /\ pc = "ship" => exposed <= 1 /\ (pending # {} => exposed = 0)
    /\ pc = "pull" /\ exposed > 0 =>
         /\ exposed = 1 /\ ckpt.marker < marker
         /\ ckpt.marker < lastStart \/ \A r \in pending : marker \in r
    /\ pc = "flush" /\ exposed = 1 =>
         \/ ckpt.marker < lastStart \/ atEnd \/ ~conf.multiline
         \/ \A r \in pending : marker \in r
    /\ pc = "flush" /\ exposed = 2 => pending \ Carry = {} /\ ~NothingToAdvance

\* What is still to be shipped was shipped by failed drains only, and no line
\* is in two pending records.
Repeats ==
    /\ \A l \in Lines : copies[l] <= 1 + faults
    /\ \A r, q \in pending : r # q => r \intersect q = {}
    /\ IF Draining \/ Waving
       THEN \A l \in Lines : l > marker \/ l \in UNION pending => copies[l] <= faults
       ELSE \A l \in Lines : l > ckpt.marker => copies[l] <= faults

\* A record may end after line m and another one begin.
Clean(m) == m + 1 \in heads \/ m \in cuts \union {base, MaxLines}

\* A record from one clean position to another or, still to be continued, to e.
EntryTo(r, e) ==
    \E lo, hi \in Lines :
        /\ r = lo .. hi /\ lo <= hi
        /\ Clean(lo - 1)
        /\ Clean(hi) \/ hi = e
        /\ (lo + 1) .. hi \intersect heads = {}

\* A resume flag at m is dropped within the chunk that m begins.
HeadWithin(m, e) == \E h \in heads : m < h /\ h <= m + ChunkLines /\ h <= e

Entries ==
    /\ ~conf.multiline => heads = Lines
    /\ \A r \in sunk : EntryTo(r, 0)
    /\ \A r \in pending : EntryTo(r, IF Draining THEN marker ELSE 0)
    /\ IF ckpt.skip THEN HeadWithin(ckpt.marker, size) ELSE Clean(ckpt.marker)
    /\ Waving \/ (Draining /\ atEnd /\ pc = "flush") => Clean(marker)
    /\ Draining /\ pending = {} /\ ~skipLeading => Clean(marker)
    /\ Draining /\ pending # {} =>
         IF lastStartSkip THEN HeadWithin(lastStart, marker) ELSE Clean(lastStart)


\* What a pull leaves pending: records of before that the chunk's opening lines
\* may have joined, and records of the chunk.
LEMMA PullShape ==
    ASSUME IInv, Pull, NEW e, e = ChunkEnd(marker)
    PROVE  /\ pc = "pull" /\ pc' \in {"pull", "flush"}
           /\ marker' = e /\ marker <= e /\ e <= size /\ e <= marker + ChunkLines
           /\ (e < size => e = marker + ChunkLines)
           /\ marker \in Nat /\ e \in Nat /\ size \in Nat /\ skipLeading' = FALSE
           /\ atEnd' = (e = size)
           /\ cuts' = IF e = size /\ e + 1 \in Lines \ heads THEN cuts \union {e} ELSE cuts
           /\ pending' = JoinContinuation(marker, e) \union ChunkRecords(marker, e)
           /\ pending # {} <=> JoinContinuation(marker, e) # {}
           /\ Absorbs(marker, e) =>
                marker < e /\ marker + 1 \notin heads /\ (pending # {} \/ skipLeading)
           /\ ChunkRecords(marker, e) \subseteq ParseRecords(marker, e)
           /\ \A r \in ParseRecords(marker, e) :
                r \in ChunkRecords(marker, e) \/ (Absorbs(marker, e) /\ r = Span(marker + 1, e))
           /\ Absorbs(marker, e) => Span(marker + 1, e) \notin ChunkRecords(marker, e)
           /\ \A o \in JoinContinuation(marker, e) :
                \/ /\ Absorbs(marker, e)
                   /\ \E r \in pending : marker \in r /\ o = r \union Span(marker + 1, e)
                \/ o \in pending /\ (Absorbs(marker, e) => marker \notin o)
           /\ IF ChunkRecords(marker, e) # {}
              THEN lastStart' = marker /\ lastStartSkip' = Absorbs(marker, e)
              ELSE lastStart' = lastStart /\ lastStartSkip' = lastStartSkip
           /\ UNCHANGED <<conf, heads, size, ckpt, base, sunk, copies, exposed, faults>>
<1>1. /\ marker \in Nat /\ size \in Nat /\ ChunkLines \in Nat \ {0} /\ marker <= size
  BY DrainAssumption DEF Pull, IInv, TypeOK, Markers, Progress, Draining
<1>2. /\ marker <= e /\ e <= size /\ e <= marker + ChunkLines /\ e \in Nat
      /\ e < size => e = marker + ChunkLines
  BY <1>1 DEF ChunkEnd
<1>3. /\ \A o \in JoinContinuation(marker, e) :
           \/ /\ Absorbs(marker, e)
              /\ \E r \in pending : marker \in r /\ o = r \union Span(marker + 1, e)
           \/ o \in pending /\ (Absorbs(marker, e) => marker \notin o)
      /\ ChunkRecords(marker, e) \subseteq ParseRecords(marker, e)
      /\ \A r \in ParseRecords(marker, e) :
           r \in ChunkRecords(marker, e) \/ (Absorbs(marker, e) /\ r = Span(marker + 1, e))
      /\ Absorbs(marker, e) => Span(marker + 1, e) \notin ChunkRecords(marker, e)
  BY DEF JoinContinuation, ChunkRecords
<1>4. Absorbs(marker, e) =>
        marker < e /\ marker + 1 \notin heads /\ (pending # {} \/ skipLeading)
  BY DEF Absorbs, LeadingContinuation
<1>5. pending # {} <=> JoinContinuation(marker, e) # {}
  <2>1. ASSUME NEW r \in pending
        PROVE  JoinContinuation(marker, e) # {}
    <3>1. CASE Absorbs(marker, e)
      <4>1. (IF marker \in r THEN r \union Span(marker + 1, e) ELSE r)
              \in JoinContinuation(marker, e)
        BY <2>1, <3>1 DEF JoinContinuation
      <4> QED
        BY <4>1
    <3>2. CASE ~Absorbs(marker, e)
      BY <2>1, <3>2 DEF JoinContinuation
    <3> QED
      BY <3>1, <3>2
  <2>2. ASSUME NEW o \in JoinContinuation(marker, e)
        PROVE  pending # {}
    BY DEF JoinContinuation
  <2> QED
    BY <2>1, <2>2
<1> QED
  BY <1>1, <1>2, <1>3, <1>4, <1>5 DEF Pull, fileVars, sinkVars

-----------------------------------------------------------------------------
(* A failure repeats at most two sink writes.                              *)

LEMMA PullExposure ==
    ASSUME IInv, Exposure, Pull
    PROVE  Exposure'
<1> DEFINE e == ChunkEnd(marker)
           lead == Span(marker + 1, e)
           recs == ChunkRecords(marker, e)
<1>1. /\ pc = "pull" /\ pc' \in {"pull", "flush"} /\ marker' = e /\ marker <= e
      /\ marker \in Nat /\ e \in Nat
      /\ pending' = JoinContinuation(marker, e) \union recs
      /\ \A r \in ParseRecords(marker, e) : r \in recs \/ (Absorbs(marker, e) /\ r = lead)
      /\ \A o \in JoinContinuation(marker, e) :
           \/ Absorbs(marker, e) /\ \E r \in pending : marker \in r /\ o = r \union lead
           \/ o \in pending /\ (Absorbs(marker, e) => marker \notin o)
      /\ recs # {} => lastStart' = marker
      /\ recs = {} => lastStart' = lastStart
      /\ UNCHANGED <<conf, ckpt, exposed>>
  BY PullShape
<1>2. ckpt.marker \in Nat
  BY DEF IInv, TypeOK, Markers
<1> HIDE DEF e
<1>3. CASE exposed = 0
  BY <1>1, <1>3 DEF Exposure
<1>4. CASE exposed > 0
  <2>1. /\ exposed = 1 /\ ckpt.marker < marker
        /\ ckpt.marker < lastStart \/ \A r \in pending : marker \in r
    BY <1>1, <1>4 DEF Exposure
  <2>2. ckpt.marker < lastStart' \/ \A r \in pending' : e \in r
    <3>1. CASE recs # {} \/ ckpt.marker < lastStart
      BY <1>1, <2>1, <3>1
    <3>2. CASE recs = {} /\ \A r \in pending : marker \in r
      <4>1. CASE Absorbs(marker, e)
        <5>1. marker < e /\ e \in (marker + 1) .. e
          BY <1>1, <4>1 DEF Absorbs, LeadingContinuation
        <5>2. PICK r \in ParseRecords(marker, e) : e \in r
          BY <1>1, <5>1, ParseCovers
        <5> QED
          BY <1>1, <3>2, <4>1, <5>2
      <4>2. CASE ~Absorbs(marker, e)
        <5>1. ParseRecords(marker, e) = {}
          BY <1>1, <3>2, <4>2
        <5>2. e = marker
          <6> SUFFICES ASSUME marker < e PROVE FALSE
            BY <1>1
          <6> QED
            BY <1>1, <5>1, ParseCovers
        <5> QED
          BY <1>1, <3>2, <4>2, <5>2
      <4> QED
        BY <4>1, <4>2
    <3> QED
      BY <2>1, <3>1, <3>2
  <2>3. ckpt'.marker < marker'
    BY <1>1, <1>2, <2>1
  <2> QED
    BY <1>1, <2>1, <2>2, <2>3 DEF Exposure
<1>5. exposed \in Nat
  BY DEF IInv, TypeOK
<1> QED
  BY <1>3, <1>4, <1>5

LEMMA ExposureKept ==
    ASSUME IInv, Exposure, [Next]_vars
    PROVE  Exposure'
<1> USE DEF Exposure
<1>a. exposed \in Nat
  BY DEF IInv, TypeOK
<1>1. CASE Append \/ Discover
  BY <1>1 DEF Append, Discover, memVars, sinkVars, fileVars, Carry, HoldLast, NothingToAdvance,
              NextCheckpoint
<1>2. CASE BeginDrain \/ BeginSkip \/ SkipSet
  BY <1>2 DEF BeginDrain, BeginSkip, SkipSet, Forget, sinkVars
<1>3. CASE WaveRead \/ WaveGiveUp
  BY <1>3 DEF WaveRead, WaveGiveUp, sinkVars
<1>4. CASE WaveSet
  BY <1>4 DEF WaveSet
<1>5. CASE Pull
  BY <1>5, PullExposure
<1>6. CASE FlushWrite
  <2>1. /\ pc \in {"flush", "ship"} /\ pc' = pc /\ exposed' = exposed + 1
        /\ pending \ Carry # {} /\ pending' = Carry
        /\ UNCHANGED <<conf, ckpt, marker, lastStart, lastStartSkip, atEnd>>
    BY <1>6 DEF FlushWrite, fileVars
  <2>2. \A r \in Carry : r \in pending /\ marker \in r /\ HoldLast
    BY DEF Carry
  <2>3. Carry' = Carry /\ NothingToAdvance' = NothingToAdvance
    BY <2>1, <2>2 DEF Carry, HoldLast, NothingToAdvance, NextCheckpoint
  <2>4. CASE pc = "ship"
    BY <1>a, <2>1, <2>2, <2>4 DEF HoldLast
  <2>5. CASE pc = "flush" /\ exposed = 0
    BY <2>1, <2>2, <2>5
  <2>6. CASE pc = "flush" /\ exposed = 1
    <3>1. ckpt.marker < lastStart \/ Carry = {}
      BY <2>1, <2>6 DEF Carry, HoldLast
    <3>2. ~NothingToAdvance
      BY <3>1 DEF NothingToAdvance, NextCheckpoint, IInv, TypeOK, Markers
    <3> QED
      BY <2>1, <2>3, <2>6, <3>2
  <2>7. ~(pc = "flush" /\ exposed = 2)
    BY <2>1
  <2> QED
    BY <1>a, <2>1, <2>4, <2>5, <2>6, <2>7
<1>7. CASE FlushKeep
  <2>1. /\ pc = "flush" /\ pc' = "pull" /\ pending \ Carry = {} /\ NothingToAdvance
        /\ UNCHANGED <<ckpt, marker, pending, lastStart, exposed>>
    BY <1>7 DEF FlushKeep, sinkVars
  <2>2. pending # {} /\ lastStart = ckpt.marker /\ \A r \in pending : marker \in r
    BY <2>1 DEF NothingToAdvance, NextCheckpoint, Carry
  <2>3. ckpt.marker < marker
    <3>1. PICK q \in pending : \A y \in q : lastStart < y
      BY <2>1, <2>2 DEF IInv, Newest, Draining
    <3> QED
      BY <2>2, <3>1
  <2> QED
    BY <1>a, <2>1, <2>2, <2>3
<1>8. CASE FlushSet
  BY <1>8 DEF FlushSet, Forget
<1>9. CASE Failure
  BY <1>9 DEF Failure, PullFail, WriteFail, SetFail, SkipSetFail, Crash, Forget, sinkVars
<1>10. CASE UNCHANGED vars
  BY <1>10 DEF vars, memVars, sinkVars, fileVars, Carry, HoldLast, NothingToAdvance, NextCheckpoint
<1> QED
  BY <1>1, <1>2, <1>3, <1>4, <1>5, <1>6, <1>7, <1>8, <1>9, <1>10 DEF Next, Worker

\* A failure repeats at most two sink writes, for any batch and chunk size:
\* the bound of ARCHITECTURE.md:55-56, one batch, is off by one and no more.
THEOREM AtMostTwoBatches == Spec => []TwoBatchesExposed
<1>1. Init => Exposure
  BY DEF Init, Exposure
<1>2. IInv /\ Exposure /\ [Next]_vars => Exposure'
  BY ExposureKept
<1>3. Exposure => TwoBatchesExposed
  BY DEF Exposure, TwoBatchesExposed
<1> QED
  BY <1>1, <1>2, <1>3, Invariance, PTL DEF Spec

-----------------------------------------------------------------------------
(* A line reaches the sink once, and once more for each failure.           *)

\* A line of a chunk is in one record of it.
LEMMA ParseDisjoint ==
    ASSUME NEW m \in Int, NEW e \in Int,
           NEW r \in ParseRecords(m, e), NEW q \in ParseRecords(m, e), NEW x \in r, x \in q
    PROVE  r = q
<1>1. PICK k \in (m + 1) .. e : r = Span(k, e) /\ (k = m + 1 \/ k \in heads)
  BY DEF ParseRecords
<1>2. PICK l \in (m + 1) .. e : q = Span(l, e) /\ (l = m + 1 \/ l \in heads)
  BY DEF ParseRecords
<1>3. /\ x \in k .. e /\ \A j \in (k + 1) .. x : j \notin heads
      /\ x \in l .. e /\ \A j \in (l + 1) .. x : j \notin heads
  BY <1>1, <1>2 DEF Span
<1>4. k = l
  BY <1>1, <1>2, <1>3
<1> QED
  BY <1>1, <1>2, <1>4

\* Records without a common line add one copy of each of their lines.
LEMMA DeliverOnce ==
    ASSUME TypeOK, NEW recs \in SUBSET pending, Deliver(recs),
           \A r, q \in pending : r # q => r \intersect q = {}
    PROVE  \A l \in Lines : copies'[l] = IF l \in UNION recs THEN copies[l] + 1 ELSE copies[l]
<1> SUFFICES ASSUME NEW l \in Lines
             PROVE  copies'[l] = IF l \in UNION recs THEN copies[l] + 1 ELSE copies[l]
  OBVIOUS
<1> DEFINE with == {r \in recs : l \in r}
<1>1. copies'[l] = copies[l] + Cardinality(with) /\ copies[l] \in Nat
  BY DEF Deliver, TypeOK
<1>2. CASE l \in UNION recs
  <2>1. PICK q \in recs : l \in q
    BY <1>2
  <2>2. with = {q}
    BY <2>1
  <2>3. Cardinality({q}) = 1
    BY FS_Singleton
  <2> QED
    BY <1>1, <1>2, <2>2, <2>3
<1>3. CASE l \notin UNION recs
  <2>1. with = {}
    BY <1>3
  <2>2. Cardinality(with) = 0
    BY <2>1, FS_EmptySet, Zenon
  <2> QED
    BY <1>1, <1>3, <2>1, <2>2
<1> QED
  BY <1>2, <1>3

\* A chunk's records are new, but for the opening lines that join a record.
LEMMA PullRepeats ==
    ASSUME IInv, Repeats, Pull
    PROVE  Repeats'
<1> USE DEF IInv
<1> DEFINE e == ChunkEnd(marker)
           lead == Span(marker + 1, e)
           recs == ChunkRecords(marker, e)
           old == JoinContinuation(marker, e)
<1>1. /\ pc = "pull" /\ Draining /\ Draining' /\ marker' = e /\ marker <= e
      /\ marker \in Nat /\ e \in Nat
      /\ pending' = old \union recs
      /\ recs \subseteq ParseRecords(marker, e)
      /\ Absorbs(marker, e) => marker < e /\ lead \notin recs
      /\ \A o \in old :
           \/ Absorbs(marker, e) /\ \E r \in pending : marker \in r /\ o = r \union lead
           \/ o \in pending /\ (Absorbs(marker, e) => marker \notin o)
      /\ UNCHANGED <<ckpt, copies, faults>>
  BY PullShape DEF Draining
<1> HIDE DEF e
<1>2. \A r \in pending : \A x \in r : x \in Int /\ x <= marker
  BY <1>1 DEF Progress, TypeOK, Lines
<1>3. \A r \in recs : \A x \in r : x \in Int /\ x > marker
  <2>1. \A r \in recs : r \subseteq (marker + 1) .. e
    BY <1>1, ParseLines
  <2> QED
    BY <1>1, <2>1
<1>4. \A x \in lead : x \in Int /\ x > marker
  BY <1>1 DEF Span
<1>5. Absorbs(marker, e) => lead \in ParseRecords(marker, e)
  <2>1. Absorbs(marker, e) => marker + 1 \in (marker + 1) .. e
    BY <1>1
  <2> QED
    BY <2>1 DEF ParseRecords
<1>6. \A r, q \in recs : r # q => r \intersect q = {}
  BY <1>1, ParseDisjoint
<1>7. \A o \in old, q \in recs : o \intersect q = {}
  <2> SUFFICES ASSUME NEW o \in old, NEW q \in recs, NEW x \in o, x \in q
               PROVE  FALSE
    OBVIOUS
  <2>1. x > marker /\ x \in Int
    BY <1>3
  <2>2. Absorbs(marker, e) /\ x \in lead
    BY <1>1, <1>2, <2>1
  <2>3. lead = q
    BY <1>1, <1>5, <2>2, ParseDisjoint
  <2> QED
    BY <1>1, <2>2, <2>3
<1>8. \A o, p \in old : o # p => o \intersect p = {}
  <2> SUFFICES ASSUME NEW o \in old, NEW p \in old, o # p, NEW x \in o, x \in p
               PROVE  FALSE
    OBVIOUS
  <2>1. CASE o \in pending /\ p \in pending
    BY <2>1 DEF Repeats
  <2>2. CASE Absorbs(marker, e)
    <3>1. ASSUME NEW a \in pending, marker \in a, NEW b \in pending, marker \notin b,
                 NEW y \in a \union lead, y \in b
          PROVE  FALSE
      BY <1>1, <1>2, <1>4, <3>1 DEF Repeats
    <3>2. ASSUME NEW a \in pending, marker \in a, NEW b \in pending, marker \in b
          PROVE  a = b
      BY <1>1, <3>2 DEF Repeats
    <3> QED
      BY <1>1, <2>1, <2>2, <3>1, <3>2
  <2> QED
    BY <1>1, <2>1, <2>2
<1>9. \A l \in Lines : l > e \/ l \in UNION (old \union recs) => copies[l] <= faults
  <2> SUFFICES ASSUME NEW l \in Lines, l > e \/ l \in UNION (old \union recs)
               PROVE  l > marker \/ l \in UNION pending
    BY <1>1 DEF Repeats
  <2> QED
    BY <1>1, <1>3, <1>4 DEF Lines
<1> HIDE DEF old, recs
<1>10. \A r, q \in old \union recs : r # q => r \intersect q = {}
  BY <1>6, <1>7, <1>8
<1> QED
  BY <1>1, <1>9, <1>10 DEF Repeats

LEMMA WaveRepeats ==
    ASSUME IInv, Repeats, WaveRead
    PROVE  Repeats'
<1> USE DEF IInv
<1>1. PICK e \in (marker + 1) .. size :
        pending' \subseteq ParseRecords(marker, e) /\ marker' \in UNION pending'
  BY DEF WaveRead
<1>2. /\ Waving /\ Waving' /\ UNCHANGED <<ckpt, copies, faults>>
      /\ marker \in Int /\ e \in Int
  BY DEF WaveRead, Waving, sinkVars, TypeOK, Markers
<1>3. \A r \in pending' : \A x \in r : x \in Int /\ x > marker
  <2>1. \A r \in pending' : r \subseteq (marker + 1) .. e
    BY <1>1, <1>2, ParseLines
  <2> QED
    BY <1>2, <2>1
<1>4. \A r, q \in pending' : r # q => r \intersect q = {}
  BY <1>1, <1>2, ParseDisjoint
<1>5. \A l \in Lines : l > marker' \/ l \in UNION pending' => l > marker
  BY <1>1, <1>2, <1>3 DEF Lines
<1> QED
  BY <1>2, <1>4, <1>5 DEF Repeats

LEMMA RepeatsKept ==
    ASSUME IInv, Unsaved, Repeats, [Next]_vars
    PROVE  Repeats'
<1> USE DEF IInv
<1>a. /\ faults \in Nat /\ marker \in Int /\ ckpt.marker \in Int
      /\ \A l \in Lines : copies[l] \in Nat /\ l \in Int /\ l > 0
  BY DrainAssumption DEF TypeOK, Markers, Lines
<1>1. CASE Append \/ Discover
  BY <1>1 DEF Append, Discover, memVars, sinkVars, Repeats, Draining, Waving
<1>2. CASE BeginDrain
  BY <1>2 DEF BeginDrain, Progress, Repeats, Draining, Waving
<1>3. CASE BeginSkip
  BY <1>3 DEF BeginSkip, sinkVars, Repeats, Draining, Waving
<1>4. CASE SkipSet
  <2>1. pc = "skip" /\ ckpt.marker = 0 /\ Forget /\ UNCHANGED <<copies, faults>>
    BY <1>4 DEF SkipSet, sinkVars, Unsaved
  <2>2. \A l \in Lines : copies[l] <= faults
    BY <1>a, <2>1 DEF Repeats, Draining, Waving
  <2> QED
    BY <1>a, <2>1, <2>2 DEF Forget, Repeats, Draining, Waving
<1>5. CASE WaveRead
  BY <1>5, WaveRepeats
<1>6. CASE WaveGiveUp \/ FlushKeep
  BY <1>6 DEF WaveGiveUp, FlushKeep, sinkVars, Repeats, Draining, Waving
<1>7. CASE WaveSet
  BY <1>7 DEF WaveSet, Repeats, Draining, Waving
<1>8. CASE Pull
  BY <1>8, PullRepeats
<1>9. CASE FlushWrite
  <2>1. /\ Draining \/ Waving
        /\ Draining' \/ Waving'
        /\ Deliver(pending \ Carry) /\ pending' = Carry /\ Carry \subseteq pending
        /\ UNCHANGED <<ckpt, marker, faults>>
    BY <1>9 DEF FlushWrite, Draining, Waving, Carry
  <2>2. \A l \in Lines : copies'[l] = IF l \in UNION (pending \ Carry)
                                      THEN copies[l] + 1 ELSE copies[l]
    BY <2>1, DeliverOnce DEF Repeats
  <2>3. \A l \in Lines : l > marker \/ l \in UNION pending => copies[l] <= faults
    BY <1>9 DEF FlushWrite, Repeats, Draining, Waving
  <2>4. \A l \in Lines : l > marker \/ l \in UNION Carry => l \notin UNION (pending \ Carry)
    <3>1. \A r \in pending : \A x \in r : x <= marker
      BY <1>9 DEF FlushWrite, Progress, Draining, Waving
    <3> QED
      BY <1>a, <2>1, <3>1 DEF Repeats
  <2>5. \A l \in Lines : copies'[l] <= 1 + faults
    BY <1>a, <2>2, <2>3 DEF Repeats
  <2>6. \A l \in Lines : l > marker \/ l \in UNION Carry => copies'[l] <= faults
    BY <2>1, <2>2, <2>3, <2>4
  <2>7. (Draining \/ Waving)'
    BY <1>9 DEF FlushWrite, Draining, Waving
  <2> QED
    BY <2>1, <2>5, <2>6, <2>7 DEF Repeats
<1>10. CASE FlushSet
  <2>1. /\ Draining /\ ckpt' = NextCheckpoint /\ UNCHANGED <<copies, faults>>
        /\ IF atEnd THEN Forget ELSE pc' = "pull" /\ UNCHANGED <<marker, pending>>
    BY <1>10 DEF FlushSet, Draining
  <2>2. CASE atEnd
    <3>1. ckpt'.marker = marker
      BY <2>1, <2>2 DEF NextCheckpoint, Carry, HoldLast
    <3> QED
      BY <2>1, <2>2, <3>1 DEF Forget, Repeats, Draining, Waving
  <2>3. CASE ~atEnd
    BY <2>1, <2>3 DEF Repeats, Draining, Waving
  <2> QED
    BY <2>2, <2>3
<1>11. CASE Failure
  <2>1. Forget /\ faults' = faults + 1
    BY <1>11 DEF Failure, PullFail, WriteFail, SetFail, SkipSetFail, Crash, Fault
  <2>2. \A l \in Lines : copies'[l] <= faults'
    <3>1. CASE copies' = copies
      BY <1>a, <2>1, <3>1 DEF Repeats
    <3>2. CASE WriteFail /\ Deliver(pending \ Carry)
      <4>1. \A l \in Lines : copies'[l] = IF l \in UNION (pending \ Carry)
                                          THEN copies[l] + 1 ELSE copies[l]
        BY <3>2, DeliverOnce DEF Repeats
      <4>2. \A l \in Lines : l \in UNION pending => copies[l] <= faults
        BY <3>2 DEF WriteFail, Repeats, Draining, Waving
      <4>3. \A l \in Lines : copies[l] <= 1 + faults
        BY DEF Repeats
      <4> QED
        BY <1>a, <2>1, <4>1, <4>2, <4>3
    <3> QED
      BY <1>11, <3>1, <3>2
      DEF Failure, PullFail, WriteFail, SetFail, SkipSetFail, Crash, sinkVars
  <2>3. \A l \in Lines : copies'[l] \in Int
    BY <1>11, DeliverType DEF Failure, PullFail, WriteFail, SetFail, SkipSetFail, Crash, sinkVars,
                              TypeOK
  <2>4. faults' \in Nat /\ \A l \in Lines : copies'[l] <= 1 + faults'
    BY <1>a, <2>1, <2>2, <2>3
  <2> QED
    BY <2>1, <2>2, <2>4 DEF Forget, Repeats, Draining, Waving
<1>12. CASE UNCHANGED vars
  BY <1>12 DEF vars, memVars, sinkVars, Repeats, Draining, Waving
<1> QED
  BY <1>1, <1>2, <1>3, <1>4, <1>5, <1>6, <1>7, <1>8, <1>9, <1>10, <1>11, <1>12 DEF Next, Worker

\* No duplicate without a failure: flushing in order, holding back a record and
\* resuming never ship a line twice by themselves (drainFile, worker.go:708-765).
THEOREM DuplicatesArePaidFor == Spec => []DuplicatesNeedFaults
<1>1. Init => Repeats
  <2> SUFFICES ASSUME Init PROVE Repeats
    OBVIOUS
  <2>1. \A l \in Lines : copies[l] = 0 /\ faults = 0 /\ pending = {}
    BY DEF Init
  <2> QED
    BY <2>1 DEF Init, Repeats, Draining, Waving
<1>2. IInv /\ Unsaved /\ Repeats /\ [Next]_vars => Repeats'
  BY RepeatsKept
<1>3. Repeats => DuplicatesNeedFaults
  BY DEF Repeats, DuplicatesNeedFaults
<1> QED
  BY <1>1, <1>2, <1>3, Invariance, MappingInvariance, PTL DEF Spec

-----------------------------------------------------------------------------
(* No record is split or joined where the file did not end.                *)

\* A record of a chunk is a run of lines up to the next head or the chunk's end.
LEMMA SpanInterval ==
    ASSUME NEW k \in Int, NEW e \in Int, k <= e
    PROVE  \E hi \in k .. e : /\ Span(k, e) = k .. hi
                              /\ hi = e \/ hi + 1 \in heads
                              /\ (k + 1) .. hi \intersect heads = {}
<1>1. k \in Span(k, e) /\ Span(k, e) \subseteq Int /\ \A x \in Span(k, e) : x <= e
  BY DEF Span
<1>2. PICK hi \in Span(k, e) : \A x \in Span(k, e) : x <= hi
  BY <1>1, GreatestElement, Zenon
<1>3. hi \in k .. e /\ \A j \in (k + 1) .. hi : j \notin heads
  BY <1>2 DEF Span
<1>4. \A y \in k .. hi : y \in Span(k, e)
  BY <1>3 DEF Span
<1>5. \A x \in Span(k, e) : x \in k .. hi
  BY <1>2, <1>3 DEF Span
<1>6. hi < e => hi + 1 \in heads
  <2> SUFFICES ASSUME hi < e, hi + 1 \notin heads PROVE FALSE
    OBVIOUS
  <2>1. hi + 1 \in Span(k, e)
    BY <1>3 DEF Span
  <2> QED
    BY <1>2, <1>3, <2>1
<1>7. Span(k, e) = k .. hi
  BY <1>4, <1>5
<1>8. hi = e \/ hi + 1 \in heads
  BY <1>3, <1>6
<1>9. (k + 1) .. hi \intersect heads = {}
  BY <1>3
<1> QED
  BY <1>3, <1>7, <1>8, <1>9

\* A record of a chunk that begins cleanly is a whole one, or goes on after it.
LEMMA ParseEntry ==
    ASSUME NEW m \in Nat, NEW e \in Markers, heads \subseteq Lines,
           NEW r \in ParseRecords(m, e), m + 1 \notin r \/ Clean(m)
    PROVE  EntryTo(r, e) /\ (e \notin r => EntryTo(r, 0))
<1>1. PICK k \in (m + 1) .. e : r = Span(k, e) /\ (k = m + 1 \/ k \in heads)
  BY DEF ParseRecords
<1>2. e \in Int /\ e <= MaxLines /\ MaxLines \in Nat
  BY DrainAssumption DEF Markers
<1>3. PICK hi \in k .. e : /\ r = k .. hi
                           /\ hi = e \/ hi + 1 \in heads
                           /\ (k + 1) .. hi \intersect heads = {}
  BY <1>1, <1>2, SpanInterval
<1>4. Clean(k - 1)
  <2>1. CASE k = m + 1
    BY <1>2, <1>3, <2>1
  <2>2. CASE k \in heads
    BY <1>2, <2>2 DEF Clean
  <2> QED
    BY <1>1, <2>1, <2>2
<1>5. k \in Lines /\ hi \in Lines /\ k <= hi
  BY <1>2, <1>3 DEF Lines
<1>6. hi = e \/ Clean(hi)
  BY <1>3 DEF Clean
<1>7. e \notin r => Clean(hi)
  BY <1>2, <1>3, <1>6
<1> QED
  BY <1>3, <1>4, <1>5, <1>6, <1>7 DEF EntryTo

\* Positions stay clean as the file grows and pulls meet its end.
LEMMA CleanStays ==
    ASSUME heads' = heads, base' = base, cuts \subseteq cuts'
    PROVE  /\ \A m : Clean(m) => Clean(m)'
           /\ \A r, e : EntryTo(r, e) => EntryTo(r, e)'
<1>1. \A m : Clean(m) => Clean(m)'
  BY DEF Clean
<1>2. ASSUME NEW r, NEW e, EntryTo(r, e) PROVE EntryTo(r, e)'
  BY <1>1, <1>2 DEF EntryTo
<1> QED
  BY <1>1, <1>2

\* Where a pull met the end of the file a record may end.
LEMMA EndIsClean ==
    ASSUME NEW e \in Markers, e + 1 \in Lines \ heads => e \in cuts
    PROVE  Clean(e)
BY DrainAssumption DEF Clean, Markers, Lines

\* With nothing held back a flush ends its last record cleanly.
LEMMA RestIsClean ==
    ASSUME IInv, Entries, pc = "flush", ~HoldLast
    PROVE  Clean(marker)
<1>1. CASE atEnd
  BY <1>1 DEF Entries, Draining
<1>2. CASE ~conf.multiline
  <2>1. heads = Lines /\ marker \in Markers
    BY <1>2 DEF Entries, IInv, TypeOK
  <2> QED
    BY <2>1, EndIsClean
<1> QED
  BY <1>1, <1>2 DEF HoldLast

\* What a flush gives the sink are whole records.
LEMMA ShippedAreWhole ==
    ASSUME IInv, Entries, pc \in {"flush", "ship"}, NEW r \in pending \ Carry
    PROVE  EntryTo(r, 0)
<1>1. CASE pc = "ship"
  BY <1>1 DEF Entries, Draining
<1>2. CASE pc = "flush"
  <2>1. EntryTo(r, marker)
    BY <1>2 DEF Entries, Draining
  <2>2. PICK lo, hi \in Lines : /\ r = lo .. hi /\ lo <= hi
                                /\ Clean(lo - 1)
                                /\ Clean(hi) \/ hi = marker
                                /\ (lo + 1) .. hi \intersect heads = {}
    BY <2>1 DEF EntryTo
  <2>3. hi = marker => Clean(hi)
    <3> SUFFICES ASSUME hi = marker PROVE Clean(marker)
      OBVIOUS
    <3>1. marker \in r
      BY <2>2 DEF Lines
    <3>2. ~HoldLast
      BY <3>1 DEF Carry
    <3> QED
      BY <1>2, <3>2, RestIsClean
  <2> QED
    BY <2>2, <2>3 DEF EntryTo
<1> QED
  BY <1>1, <1>2

\* A saved checkpoint stands where a record may begin, or says what to drop.
LEMMA NextCheckpointClean ==
    ASSUME IInv, Entries, pc \in {"flush", "ship"}, pending \ Carry = {}
    PROVE  IF NextCheckpoint.skip THEN HeadWithin(NextCheckpoint.marker, size)
                                  ELSE Clean(NextCheckpoint.marker)
<1>1. CASE Carry = {}
  <2>1. NextCheckpoint = [found |-> TRUE, marker |-> marker, skip |-> FALSE]
    BY <1>1 DEF NextCheckpoint
  <2>2. Clean(marker)
    BY <1>1 DEF Entries, Draining, Waving, IInv, Skipping
  <2> QED
    BY <2>1, <2>2
<1>2. CASE Carry # {}
  <2>1. NextCheckpoint = [found |-> TRUE, marker |-> lastStart, skip |-> lastStartSkip]
    BY <1>2 DEF NextCheckpoint
  <2>2. Draining /\ pending # {}
    BY <1>2 DEF Carry, HoldLast, Draining
  <2>3. IF lastStartSkip THEN HeadWithin(lastStart, marker) ELSE Clean(lastStart)
    BY <2>2 DEF Entries
  <2>4. HeadWithin(lastStart, marker) => HeadWithin(lastStart, size)
    BY <2>2 DEF HeadWithin, IInv, Progress, TypeOK, Markers, Lines
  <2> QED
    BY <2>1, <2>3, <2>4
<1> QED
  BY <1>1, <1>2

\* A pull joins a broken-off record to its rest and breaks off at most one more.
LEMMA PullEntries ==
    ASSUME IInv, Entries, Pull
    PROVE  Entries'
<1> PICK e : e = ChunkEnd(marker)
  OBVIOUS
<1> DEFINE lead == Span(marker + 1, e)
           recs == ChunkRecords(marker, e)
           old == JoinContinuation(marker, e)
<1>1. /\ pc = "pull" /\ pc' \in {"pull", "flush"} /\ marker' = e
      /\ marker <= e /\ e <= size /\ e <= marker + ChunkLines
      /\ e < size => e = marker + ChunkLines
      /\ marker \in Nat /\ e \in Nat /\ size \in Nat /\ skipLeading' = FALSE
      /\ atEnd' = (e = size)
      /\ cuts' = IF e = size /\ e + 1 \in Lines \ heads THEN cuts \union {e} ELSE cuts
      /\ pending' = old \union recs
      /\ pending # {} <=> old # {}
      /\ Absorbs(marker, e) =>
           marker < e /\ marker + 1 \notin heads /\ (pending # {} \/ skipLeading)
      /\ recs \subseteq ParseRecords(marker, e)
      /\ \A r \in ParseRecords(marker, e) : r \in recs \/ (Absorbs(marker, e) /\ r = lead)
      /\ Absorbs(marker, e) => lead \notin recs
      /\ \A o \in old :
           \/ Absorbs(marker, e) /\ \E r \in pending : marker \in r /\ o = r \union lead
           \/ o \in pending /\ (Absorbs(marker, e) => marker \notin o)
      /\ IF recs # {} THEN lastStart' = marker /\ lastStartSkip' = Absorbs(marker, e)
                      ELSE lastStart' = lastStart /\ lastStartSkip' = lastStartSkip
      /\ UNCHANGED <<conf, heads, size, ckpt, base, sunk>>
  BY PullShape, Zenon
<1>2. Draining /\ Draining' /\ e \in Markers /\ heads \subseteq Lines /\ MaxLines \in Nat
  BY <1>1, ChunkType, DrainAssumption DEF Draining, IInv, TypeOK
<1>3. ~Absorbs(marker, e) =>
        marker = e \/ marker + 1 \in heads \/ (pending = {} /\ ~skipLeading)
  <2>1. marker < e \/ marker = e
    BY <1>1
  <2> QED
    BY <2>1 DEF Absorbs, LeadingContinuation
<1>4. cuts \subseteq cuts' /\ heads' = heads /\ base' = base
  BY <1>1
<1>5. /\ \A m : Clean(m) => Clean(m)'
      /\ \A r, f : EntryTo(r, f) => EntryTo(r, f)'
  BY <1>4, CleanStays
<1>6. ~Absorbs(marker, e) => marker = e \/ Clean(marker)
  <2>1. marker + 1 \in heads => Clean(marker)
    BY DEF Clean
  <2>2. pending = {} /\ ~skipLeading => Clean(marker)
    BY <1>2 DEF Entries
  <2> QED
    BY <1>3, <2>1, <2>2
<1>7. ASSUME NEW r \in recs
      PROVE  /\ EntryTo(r, e)
             /\ Absorbs(marker, e) => HeadWithin(marker, e)
             /\ ~Absorbs(marker, e) => Clean(marker)
  <2>1. r \in ParseRecords(marker, e) /\ marker < e
    BY <1>1, <1>7 DEF ParseRecords
  <2>2. CASE Absorbs(marker, e)
    <3>1. r # lead
      BY <1>1, <1>7, <2>2
    <3>2. PICK h \in heads : marker + 1 < h /\ h <= e /\ \A y \in r : h <= y
      BY <1>1, <2>1, <3>1, ParseStarts
    <3>3. h \in Int
      BY <1>2 DEF Lines
    <3>4. marker + 1 \notin r
      BY <1>1, <3>2, <3>3
    <3>5. HeadWithin(marker, e)
      BY <1>1, <3>2, <3>3, DrainAssumption DEF HeadWithin
    <3> QED
      BY <1>1, <1>2, <2>1, <2>2, <3>4, <3>5, ParseEntry
  <2>3. CASE ~Absorbs(marker, e)
    <3>1. Clean(marker)
      BY <1>1, <1>6, <2>1, <2>3
    <3> QED
      BY <1>1, <1>2, <2>1, <2>3, <3>1, ParseEntry
  <2> QED
    BY <2>2, <2>3
<1>8. ASSUME NEW o \in old
      PROVE  EntryTo(o, e)
  <2>1. ASSUME NEW r \in pending
        PROVE  \E lo, hi \in Lines : /\ r = lo .. hi /\ lo <= hi /\ hi <= marker
                                     /\ Clean(lo - 1)
                                     /\ Clean(hi) \/ hi = marker
                                     /\ (lo + 1) .. hi \intersect heads = {}
    <3>1. EntryTo(r, marker)
      BY <1>2, <2>1 DEF Entries
    <3>2. PICK lo, hi \in Lines : /\ r = lo .. hi /\ lo <= hi
                                  /\ Clean(lo - 1)
                                  /\ Clean(hi) \/ hi = marker
                                  /\ (lo + 1) .. hi \intersect heads = {}
      BY <3>1 DEF EntryTo
    <3>3. hi \in r
      BY <3>2 DEF Lines
    <3>4. hi <= marker
      BY <1>2, <3>3 DEF IInv, Progress
    <3> QED
      BY <3>2, <3>4
  <2>2. CASE o \in pending /\ (Absorbs(marker, e) => marker \notin o)
    <3>1. PICK lo, hi \in Lines : /\ o = lo .. hi /\ lo <= hi /\ hi <= marker
                                  /\ Clean(lo - 1)
                                  /\ Clean(hi) \/ hi = marker
                                  /\ (lo + 1) .. hi \intersect heads = {}
      BY <2>1, <2>2
    <3>2. hi = marker => marker \in o
      BY <1>1, <3>1 DEF Lines
    <3>3. hi = marker => Clean(hi) \/ hi = e
      BY <1>6, <2>2, <3>2
    <3> QED
      BY <3>1, <3>3 DEF EntryTo
  <2>3. ASSUME Absorbs(marker, e), NEW r \in pending, marker \in r, o = r \union lead
        PROVE  EntryTo(o, e)
    <3>1. PICK lo, hi \in Lines : /\ r = lo .. hi /\ lo <= hi /\ hi <= marker
                                  /\ Clean(lo - 1)
                                  /\ (lo + 1) .. hi \intersect heads = {}
      BY <2>1, <2>3
    <3>2. hi = marker /\ lo <= marker /\ lo \in Int
      BY <1>1, <2>3, <3>1 DEF Lines
    <3>3. marker + 1 <= e /\ marker + 1 \in Int /\ e \in Int
      BY <1>1, <2>3
    <3>4. PICK end \in (marker + 1) .. e :
                   /\ lead = (marker + 1) .. end
                   /\ end = e \/ end + 1 \in heads
                   /\ (marker + 1 + 1) .. end \intersect heads = {}
      BY <3>3, SpanInterval
    <3>5. o = lo .. end
      BY <1>1, <2>3, <3>1, <3>2, <3>4
    <3>6. (lo + 1) .. end \intersect heads = {}
      <4> SUFFICES ASSUME NEW j \in (lo + 1) .. end, j \in heads PROVE FALSE
        OBVIOUS
      <4>1. j \in (lo + 1) .. hi \/ j = marker + 1 \/ j \in (marker + 1 + 1) .. end
        BY <1>1, <3>2
      <4> QED
        BY <1>1, <2>3, <3>1, <3>4, <4>1
    <3>7. end \in Lines /\ lo <= end
      BY <1>1, <1>2, <3>2, <3>4 DEF Lines, Markers
    <3>8. Clean(end) \/ end = e
      BY <3>4 DEF Clean
    <3> QED
      BY <3>1, <3>5, <3>6, <3>7, <3>8 DEF EntryTo
  <2> QED
    BY <1>1, <1>8, <2>2, <2>3
<1>9. recs = {} /\ ~skipLeading /\ pending = {} => Clean(e)
  <2> SUFFICES ASSUME recs = {}, ~skipLeading, pending = {} PROVE Clean(e)
    OBVIOUS
  <2>1. Clean(marker)
    BY <1>2 DEF Entries
  <2>2. e = marker
    <3> SUFFICES ASSUME marker < e PROVE FALSE
      BY <1>1
    <3>1. e \in (marker + 1) .. e
      BY <1>1
    <3>2. ParseRecords(marker, e) # {}
      BY <1>1, <3>1, ParseCovers
    <3> QED
      BY <1>1, <3>2
  <2> QED
    BY <2>1, <2>2
<1>10. skipLeading => recs # {}
  <2> SUFFICES ASSUME skipLeading PROVE recs # {}
    OBVIOUS
  <2>1. marker = ckpt.marker /\ ckpt.skip
    BY <1>2 DEF IInv, Skipping
  <2>2. PICK h \in heads : marker < h /\ h <= marker + ChunkLines /\ h <= size
    BY <2>1 DEF Entries, HeadWithin
  <2>3. h \in (marker + 1) .. e /\ h \in Span(h, e)
    BY <1>1, <1>2, <2>2, DrainAssumption DEF Lines, Span
  <2>4. Span(h, e) \in ParseRecords(marker, e)
    BY <2>2, <2>3 DEF ParseRecords
  <2>5. Absorbs(marker, e) => h \notin lead
    BY <1>1, <1>2, <2>2, <2>3 DEF Span
  <2> QED
    BY <1>1, <2>3, <2>4, <2>5
<1>11. atEnd' => Clean(e)'
  <2>1. e + 1 \in heads \/ e = MaxLines \/ e + 1 \in Lines \ heads
    BY <1>2 DEF Markers, Lines
  <2> QED
    BY <1>1, <2>1 DEF Clean
<1>12. \A m : HeadWithin(m, marker) => HeadWithin(m, e)
  BY <1>1, <1>2 DEF HeadWithin, Lines
<1>13. \A m, f : HeadWithin(m, f) => HeadWithin(m, f)'
  BY <1>1 DEF HeadWithin
<1>14. \A r \in sunk : EntryTo(r, 0)
  BY DEF Entries
<1>15. IF ckpt.skip THEN HeadWithin(ckpt.marker, size) ELSE Clean(ckpt.marker)
  BY DEF Entries
<1>16. IF ckpt'.skip THEN HeadWithin(ckpt.marker, size)' ELSE Clean(ckpt.marker)'
  BY <1>1, <1>5, <1>13, <1>15
<1>17. \A r \in pending' : EntryTo(r, e)'
  BY <1>1, <1>5, <1>7, <1>8
<1>18. pending' = {} => Clean(e)'
  BY <1>1, <1>5, <1>9, <1>10
<1>19. pending' # {} => IF lastStartSkip' THEN HeadWithin(lastStart, e)' ELSE Clean(lastStart)'
  <2>1. CASE recs = {}
    <3>1. pending' # {} =>
            IF lastStartSkip THEN HeadWithin(lastStart, marker) ELSE Clean(lastStart)
      BY <1>1, <1>2, <2>1 DEF Entries
    <3> QED
      BY <1>1, <1>5, <1>12, <1>13, <2>1, <3>1
  <2>2. CASE recs # {}
    BY <1>1, <1>5, <1>7, <1>13, <2>2
  <2> QED
    BY <2>1, <2>2
<1>20. (~conf.multiline => heads = Lines)'
  BY <1>1 DEF Entries, Lines
<1>21. ~Waving'
  BY <1>1 DEF Waving
<1>22. \A r \in sunk' : EntryTo(r, 0)'
  BY <1>1, <1>5, <1>14
<1> HIDE DEF recs, old, lead
<1> QED
  BY <1>1, <1>2, <1>11, <1>16, <1>17, <1>18, <1>19, <1>20, <1>21, <1>22 DEF Entries

\* A wave ends between two records, or where a pull met the end of the file.
LEMMA WaveEntries ==
    ASSUME IInv, Entries, WaveRead
    PROVE  Entries'
<1>1. PICK e \in (marker + 1) .. size, last \in BOOLEAN :
        /\ last => e = size
        /\ pending' = IF last THEN ParseRecords(marker, e)
                      ELSE ParseRecords(marker, e) \ Holds(e, ParseRecords(marker, e))
        /\ marker' \in UNION pending' /\ \A l \in UNION pending' : l <= marker'
        /\ cuts' = IF last /\ e + 1 \in Lines \ heads THEN cuts \union {e} ELSE cuts
  BY DEF WaveRead
<1>2. /\ Waving /\ Waving' /\ ~Draining' /\ UNCHANGED <<conf, heads, size, ckpt, base, sunk>>
      /\ marker \in Nat /\ size \in Markers /\ heads \subseteq Lines
  BY DEF WaveRead, Waving, Draining, fileVars, sinkVars, IInv, TypeOK, Markers
<1>3. e \in Markers /\ e \in Int /\ MaxLines \in Nat
  BY <1>1, <1>2, DrainAssumption DEF Markers
<1>4. cuts \subseteq cuts' /\ heads' = heads /\ base' = base
  BY <1>1, <1>2
<1>5. /\ \A m : Clean(m) => Clean(m)'
      /\ \A r, f : EntryTo(r, f) => EntryTo(r, f)'
  BY <1>4, CleanStays
<1>6. Clean(marker)
  BY <1>2 DEF Entries
<1>7. last => Clean(e)'
  <2>1. e + 1 \in heads \/ e = MaxLines \/ e + 1 \in Lines \ heads
    BY <1>3 DEF Markers, Lines
  <2> QED
    BY <1>1, <1>2, <2>1 DEF Clean
<1>8. ASSUME NEW r \in pending'
      PROVE  \E lo, hi \in Lines : /\ r = lo .. hi /\ lo <= hi
                                   /\ Clean(lo - 1)'
                                   /\ Clean(hi)'
                                   /\ (lo + 1) .. hi \intersect heads = {}
  <2>1. r \in ParseRecords(marker, e) /\ (e \in r => last)
    BY <1>1, <1>8 DEF Holds
  <2>2. EntryTo(r, e) /\ (e \notin r => EntryTo(r, 0))
    BY <1>2, <1>3, <1>6, <2>1, ParseEntry
  <2>3. CASE e \notin r
    <3>1. \A hi \in Lines : hi # 0
      BY DEF Lines
    <3> QED
      BY <1>5, <2>2, <2>3, <3>1 DEF EntryTo
  <2>4. CASE e \in r
    BY <1>5, <1>7, <2>1, <2>2, <2>4 DEF EntryTo
  <2> QED
    BY <2>3, <2>4
<1>9. \A r \in pending' : EntryTo(r, 0)'
  BY <1>2, <1>8 DEF EntryTo
<1>10. Clean(marker)'
  <2>1. PICK r \in pending' : marker' \in r
    BY <1>1
  <2>2. PICK lo, hi \in Lines : r = lo .. hi /\ lo <= hi /\ Clean(hi)'
    BY <1>8, <2>1
  <2>3. hi \in r /\ hi \in UNION pending'
    BY <2>1, <2>2 DEF Lines
  <2>4. marker' = hi
    BY <1>1, <2>1, <2>2, <2>3 DEF Lines
  <2> QED
    BY <2>2, <2>4 DEF Clean
<1>11. IF ckpt'.skip THEN HeadWithin(ckpt.marker, size)' ELSE Clean(ckpt.marker)'
  BY <1>2, <1>5 DEF Entries, HeadWithin
<1>12. \A r \in sunk' : EntryTo(r, 0)'
  BY <1>2, <1>5 DEF Entries
<1>13. (~conf.multiline => heads = Lines)'
  BY <1>2 DEF Entries, Lines
<1> QED
  BY <1>2, <1>9, <1>10, <1>11, <1>12, <1>13 DEF Entries

\* A step that leaves the file alone leaves its clean positions alone.
LEMMA FileFixed ==
    ASSUME UNCHANGED <<heads, size, base, cuts>>
    PROVE  /\ \A m : Clean(m)' <=> Clean(m)
           /\ \A r, e : EntryTo(r, e)' <=> EntryTo(r, e)
           /\ \A m : HeadWithin(m, size)' <=> HeadWithin(m, size)
           /\ \A m, e : HeadWithin(m, e)' <=> HeadWithin(m, e)
<1>1. \A m : Clean(m)' <=> Clean(m)
  BY DEF Clean
<1>2. \A r, e : EntryTo(r, e)' <=> EntryTo(r, e)
  BY <1>1 DEF EntryTo
<1>3. \A m, e : HeadWithin(m, e)' <=> HeadWithin(m, e)
  BY DEF HeadWithin
<1>4. \A m : HeadWithin(m, size)' <=> HeadWithin(m, size)
  BY DEF HeadWithin
<1> QED
  BY <1>1, <1>2, <1>3, <1>4

\* Forgetting the drain leaves only what the sink and the checkpoint say.
LEMMA ForgetEntries ==
    ASSUME Entries, Forget, conf' = conf, heads' = heads,
           \A r \in sunk' : EntryTo(r, 0)',
           IF ckpt'.skip THEN HeadWithin(ckpt.marker, size)' ELSE Clean(ckpt.marker)'
    PROVE  Entries'
BY DEF Entries, Forget, Draining, Waving, Lines

LEMMA EntriesKept ==
    ASSUME IInv, Entries, [Next]_vars
    PROVE  Entries'
<1>0. CASE Pull
  BY <1>0, PullEntries
<1>1. CASE WaveRead
  BY <1>1, WaveEntries
<1>2. CASE Append
  <2>1. /\ size \in Int /\ size' = size + 1 /\ heads \subseteq Lines
        /\ UNCHANGED <<conf, heads, ckpt, memVars, base, sunk, cuts>>
    BY <1>2 DEF Append, sinkVars, IInv, TypeOK, Markers
  <2>2. Draining' = Draining /\ Waving' = Waving
    BY <2>1 DEF Draining, Waving, memVars
  <2>3. /\ \A m : Clean(m) => Clean(m)'
        /\ \A r, f : EntryTo(r, f) => EntryTo(r, f)'
    BY <2>1, CleanStays
  <2>4. \A m, f : HeadWithin(m, f) => HeadWithin(m, f)'
    BY <2>1 DEF HeadWithin
  <2>5. \A m : HeadWithin(m, size) => HeadWithin(m, size')
    BY <2>1 DEF HeadWithin, Lines
  <2>6. HeadWithin(ckpt.marker, size) => HeadWithin(ckpt.marker, size)'
    BY <2>1, <2>5 DEF HeadWithin
  <2>7. IF ckpt'.skip THEN HeadWithin(ckpt.marker, size)' ELSE Clean(ckpt.marker)'
    BY <2>1, <2>3, <2>6 DEF Entries
  <2>8. (\A r \in pending : EntryTo(r, IF Draining THEN marker ELSE 0))'
    BY <2>1, <2>2, <2>3 DEF Entries, memVars
  <2>9. (\A r \in sunk : EntryTo(r, 0))'
    BY <2>1, <2>3 DEF Entries
  <2>10. (~conf.multiline => heads = Lines)'
    BY <2>1 DEF Entries, Lines
  <2>11. (Waving \/ (Draining /\ atEnd /\ pc = "flush") => Clean(marker))'
    BY <2>1, <2>2, <2>3 DEF Entries, memVars
  <2>12. (Draining /\ pending = {} /\ ~skipLeading => Clean(marker))'
    BY <2>1, <2>2, <2>3 DEF Entries, memVars
  <2>13. (Draining /\ pending # {} =>
            IF lastStartSkip THEN HeadWithin(lastStart, marker) ELSE Clean(lastStart))'
    BY <2>1, <2>2, <2>3, <2>4 DEF Entries, memVars
  <2> QED
    BY <2>7, <2>8, <2>9, <2>10, <2>11, <2>12, <2>13 DEF Entries
<1>3. CASE Discover
  <2>1. UNCHANGED <<conf, heads, size, ckpt, memVars, base, sunk, cuts>>
    BY <1>3 DEF Discover, fileVars, sinkVars
  <2> QED
    BY <2>1 DEF Entries, Clean, EntryTo, HeadWithin, Draining, Waving, memVars, Lines
<1>4. CASE BeginDrain
  <2>1. /\ pending = {} /\ pending' = {} /\ marker' = ckpt.marker /\ skipLeading' = ckpt.skip
        /\ pc' \in {"wave", "pull"} /\ (pc' = "wave" => ~ckpt.skip)
        /\ UNCHANGED <<conf, heads, size, ckpt, base, sunk, cuts>>
    BY <1>4 DEF BeginDrain, fileVars, IInv, Progress, Draining, Waving
  <2>2. ~ckpt.skip => Clean(ckpt.marker)
    BY DEF Entries
  <2>3. ~ckpt.skip => Clean(marker)'
    BY <2>1, <2>2 DEF Clean
  <2>4. IF ckpt'.skip THEN HeadWithin(ckpt.marker, size)' ELSE Clean(ckpt.marker)'
    BY <2>1, FileFixed DEF Entries, Clean, HeadWithin
  <2>5. \A r \in sunk' : EntryTo(r, 0)'
    BY <2>1, FileFixed DEF Entries
  <2> QED
    BY <2>1, <2>3, <2>4, <2>5 DEF Entries, Draining, Waving, Lines
<1>5. CASE BeginSkip
  <2>1. /\ pending' = {} /\ pc' = "skip"
        /\ UNCHANGED <<conf, heads, size, ckpt, base, sunk, cuts>>
    BY <1>5 DEF BeginSkip, fileVars, sinkVars, IInv, Progress, Draining, Waving
  <2>2. IF ckpt'.skip THEN HeadWithin(ckpt.marker, size)' ELSE Clean(ckpt.marker)'
    BY <2>1, FileFixed DEF Entries, Clean, HeadWithin
  <2>3. \A r \in sunk' : EntryTo(r, 0)'
    BY <2>1, FileFixed DEF Entries
  <2> QED
    BY <2>1, <2>2, <2>3 DEF Entries, Draining, Waving, Lines
<1>6. ASSUME pc = "skip", SaveTail, Forget, UNCHANGED <<conf, heads, sunk>>
      PROVE  Entries'
  <2>1. sunk' = {}
    BY <1>6 DEF IInv, NewFile
  <2>2. ~ckpt'.skip /\ Clean(ckpt.marker)'
    BY <1>6 DEF SaveTail, Clean
  <2> QED
    BY <1>6, <2>1, <2>2, ForgetEntries
<1>7. CASE SkipSet
  BY <1>6, <1>7 DEF SkipSet, fileVars, sinkVars
<1>8. CASE WaveGiveUp
  <2>1. /\ Waving /\ pending = {} /\ pc' = "pull"
        /\ UNCHANGED <<conf, heads, size, ckpt, marker, pending, base, sunk, cuts>>
    BY <1>8 DEF WaveGiveUp, fileVars, sinkVars, IInv, Wave, Waving
  <2>2. Clean(marker)'
    BY <2>1 DEF Entries, Clean
  <2>3. IF ckpt'.skip THEN HeadWithin(ckpt.marker, size)' ELSE Clean(ckpt.marker)'
    BY <2>1, FileFixed DEF Entries, Clean, HeadWithin
  <2>4. \A r \in sunk' : EntryTo(r, 0)'
    BY <2>1, FileFixed DEF Entries
  <2> QED
    BY <2>1, <2>2, <2>3, <2>4 DEF Entries, Waving, Lines
<1>9. CASE WaveSet
  <2>1. /\ Waving /\ pending' = {} /\ pc' \in {"pull", "wave"}
        /\ ckpt' = NextCheckpoint /\ Carry = {}
        /\ UNCHANGED <<conf, heads, size, marker, base, sunk, cuts>>
    BY <1>9 DEF WaveSet, fileVars, Waving, Carry
  <2>2. Clean(marker)'
    BY <2>1 DEF Entries, Clean
  <2>3. ~ckpt'.skip /\ Clean(ckpt.marker)'
    BY <2>1, <2>2 DEF NextCheckpoint, Clean
  <2>4. \A r \in sunk' : EntryTo(r, 0)'
    BY <2>1, FileFixed DEF Entries
  <2> QED
    BY <2>1, <2>2, <2>3, <2>4 DEF Entries, Lines
<1>10. CASE FlushWrite
  <2>1. /\ pc \in {"flush", "ship"} /\ pending # {}
        /\ pending' = Carry /\ Carry \subseteq pending
        /\ sunk' = sunk \union (pending \ Carry)
        /\ UNCHANGED <<conf, heads, size, ckpt, pc, marker, lastStart, lastStartSkip,
                       skipLeading, atEnd, base, cuts>>
    BY <1>10 DEF FlushWrite, Deliver, fileVars, Carry
  <2>2. Draining' = Draining /\ Waving' = Waving
    BY <2>1 DEF Draining, Waving
  <2>3. \A r \in sunk' : EntryTo(r, 0)'
    BY <2>1, ShippedAreWhole, FileFixed DEF Entries
  <2>4. \A r \in pending' : EntryTo(r, IF Draining THEN marker ELSE 0)'
    <3>1. \A r \in Carry : EntryTo(r, IF Draining THEN marker ELSE 0)
      BY <2>1 DEF Entries
    <3> QED
      BY <2>1, <2>2, <3>1 DEF EntryTo, Clean, Lines
  <2>5. IF ckpt'.skip THEN HeadWithin(ckpt.marker, size)' ELSE Clean(ckpt.marker)'
    BY <2>1, FileFixed DEF Entries, Clean, HeadWithin
  <2>6. Carry = {} /\ Draining => Clean(marker)
    <3> SUFFICES ASSUME Carry = {}, Draining PROVE Clean(marker)
      OBVIOUS
    <3>1. PICK q \in pending : marker \in q
      BY <2>1 DEF IInv, Newest
    <3>2. pc = "flush" /\ ~HoldLast
      BY <2>1, <3>1 DEF Carry, Draining
    <3> QED
      BY <3>2, RestIsClean
  <2>7. Waving \/ (Draining /\ atEnd /\ pc = "flush") => Clean(marker)
    BY DEF Entries
  <2>8. Draining => IF lastStartSkip THEN HeadWithin(lastStart, marker) ELSE Clean(lastStart)
    BY <2>1 DEF Entries
  <2>9. (Waving \/ (Draining /\ atEnd /\ pc = "flush") => Clean(marker))'
    BY <2>1, <2>2, <2>7 DEF Clean
  <2>10. (Draining /\ pending = {} /\ ~skipLeading => Clean(marker))'
    BY <2>1, <2>2, <2>6 DEF Clean
  <2>11. (Draining /\ pending # {} =>
            IF lastStartSkip THEN HeadWithin(lastStart, marker) ELSE Clean(lastStart))'
    BY <2>1, <2>2, <2>8 DEF Clean, HeadWithin
  <2>12. (~conf.multiline => heads = Lines)'
    BY <2>1 DEF Entries, Lines
  <2> QED
    BY <2>1, <2>3, <2>4, <2>5, <2>9, <2>10, <2>11, <2>12 DEF Entries
<1>11. CASE FlushKeep \/ (FlushSet /\ ~atEnd)
  <2>1. /\ pc = "flush" /\ pending \ Carry = {} /\ pc' = "pull"
        /\ ckpt' \in {ckpt, NextCheckpoint}
        /\ UNCHANGED <<conf, heads, size, marker, pending, lastStart, lastStartSkip,
                       skipLeading, base, sunk, cuts>>
    BY <1>11 DEF FlushKeep, FlushSet, fileVars, sinkVars
  <2>2. Draining /\ Draining' /\ ~Waving'
    BY <2>1 DEF Draining, Waving
  <2>3. IF ckpt'.skip THEN HeadWithin(ckpt'.marker, size) ELSE Clean(ckpt'.marker)
    BY <2>1, NextCheckpointClean DEF Entries
  <2>4. IF ckpt'.skip THEN HeadWithin(ckpt.marker, size)' ELSE Clean(ckpt.marker)'
    BY <2>1, <2>3 DEF Clean, HeadWithin
  <2>5. \A r \in sunk' : EntryTo(r, 0)'
    BY <2>1, FileFixed DEF Entries
  <2>6. \A r \in pending : EntryTo(r, marker)
    BY <2>2 DEF Entries
  <2>7. \A r \in pending' : EntryTo(r, IF Draining THEN marker ELSE 0)'
    BY <2>1, <2>2, <2>6 DEF EntryTo, Clean, Lines
  <2>8. (Draining /\ pending = {} /\ ~skipLeading => Clean(marker))'
    BY <2>1, <2>2 DEF Entries, Clean
  <2>9. (Draining /\ pending # {} =>
            IF lastStartSkip THEN HeadWithin(lastStart, marker) ELSE Clean(lastStart))'
    BY <2>1, <2>2 DEF Entries, Clean, HeadWithin
  <2>10. (~conf.multiline => heads = Lines)'
    BY <2>1 DEF Entries, Lines
  <2> QED
    BY <2>1, <2>2, <2>4, <2>5, <2>7, <2>8, <2>9, <2>10 DEF Entries
<1>12. ASSUME Forget, UNCHANGED <<conf, heads, size, base, cuts>>,
              sunk' = sunk \/ (pc \in {"flush", "ship"} /\ sunk' = sunk \union (pending \ Carry)),
              \/ ckpt' = ckpt
              \/ /\ pc \in {"flush", "ship"}
                 /\ pending \ Carry = {}
                 /\ ckpt' = NextCheckpoint
       PROVE  Entries'
  <2>1. \A r \in sunk' : EntryTo(r, 0)
    BY <1>12, ShippedAreWhole DEF Entries
  <2>2. IF ckpt'.skip THEN HeadWithin(ckpt'.marker, size) ELSE Clean(ckpt'.marker)
    BY <1>12, NextCheckpointClean DEF Entries
  <2>3. \A r \in sunk' : EntryTo(r, 0)'
    BY <1>12, <2>1, FileFixed
  <2>4. IF ckpt'.skip THEN HeadWithin(ckpt.marker, size)' ELSE Clean(ckpt.marker)'
    BY <1>12, <2>2 DEF Clean, HeadWithin
  <2> QED
    BY <1>12, <2>3, <2>4, ForgetEntries
<1>13. CASE FlushSet /\ atEnd
  BY <1>12, <1>13 DEF FlushSet, fileVars
<1>14. CASE PullFail \/ Crash
  BY <1>12, <1>14 DEF PullFail, Crash, fileVars, sinkVars
<1>15. CASE WriteFail
  BY <1>12, <1>15 DEF WriteFail, Deliver, fileVars
<1>16. CASE SetFail
  BY <1>12, <1>16 DEF SetFail, fileVars, sinkVars
<1>17. CASE SkipSetFail
  BY <1>6, <1>12, <1>17 DEF SkipSetFail, fileVars, sinkVars
<1>18. CASE UNCHANGED vars
  <2>1. UNCHANGED <<conf, heads, size, ckpt, memVars, base, sunk, cuts>>
    BY <1>18 DEF vars, fileVars, sinkVars
  <2> QED
    BY <2>1 DEF Entries, Clean, EntryTo, HeadWithin, Draining, Waving, memVars, Lines
<1> QED
  BY <1>0, <1>1, <1>2, <1>3, <1>4, <1>5, <1>7, <1>8, <1>9, <1>10, <1>11, <1>13, <1>14, <1>15,
     <1>16, <1>17, <1>18 DEF Next, Worker, Failure

\* No crash, hold-back, batch boundary or wave splits an entry or joins two of
\* them (worker.go:708-712): a record begins and ends where the file says, or
\* where a pull met its end.
THEOREM EntriesStayWhole == Spec => []WholeEntries
<1>1. Init => Entries
  <2> SUFFICES ASSUME Init PROVE Entries
    OBVIOUS
  <2>1. /\ sunk = {} /\ pending = {} /\ pc = "idle" /\ ckpt.marker = 0 /\ ~ckpt.skip
        /\ base = 0 /\ (~conf.multiline => heads = Lines)
    BY DEF Init
  <2> QED
    BY <2>1 DEF Entries, Clean, Draining, Waving
<1>2. IInv /\ Entries /\ [Next]_vars => Entries'
  BY EntriesKept
<1>3. IInv /\ Entries /\ Reached => WholeEntries
  <2> SUFFICES ASSUME IInv, Entries, Reached, NEW r \in sunk
               PROVE  \E lo, hi \in Lines :
                        /\ r = lo .. hi
                        /\ lo \in heads \/ lo - 1 \in cuts \union {base}
                        /\ hi + 1 \in heads \/ hi \in cuts \union {MaxLines}
                        /\ (lo + 1) .. hi \intersect heads = {}
    BY DEF WholeEntries
  <2>1. PICK lo, hi \in Lines : /\ r = lo .. hi /\ lo <= hi
                                /\ Clean(lo - 1)
                                /\ Clean(hi) \/ hi = 0
                                /\ (lo + 1) .. hi \intersect heads = {}
    BY DEF Entries, EntryTo
  <2>2. /\ lo - 1 + 1 = lo /\ lo - 1 # MaxLines /\ hi # 0 /\ hi \in r
    BY <2>1, DrainAssumption DEF Lines
  <2>3. hi # base
    BY <2>1, <2>2 DEF Reached, Acked, IInv, TypeOK, Markers
  <2> QED
    BY <2>1, <2>2, <2>3 DEF Clean
<1> QED
  BY <1>1, <1>2, <1>3, Invariance, MappingInvariance, PTL DEF Spec
=============================================================================
