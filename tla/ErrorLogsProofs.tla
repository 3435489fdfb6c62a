---------------------------- MODULE ErrorLogsProofs --------------------------
(***************************************************************************)
(* Proofs about ErrorLogs for any number of lines, failures and periods,   *)
(* and any size and time of the set of remembered lines: its types and the *)
(* bound of that set, the durability of acknowledged checkpoints, that no  *)
(* error line is lost between the two logs, that a line which arrives      *)
(* twice is paid for, and what start_from = end leaves alone.              *)
(***************************************************************************)
EXTENDS ErrorLogs, CheckpointStoreProofs, FiniteSetTheorems, SequenceTheorems

\* RDS moves lines and loses none.
Lengths == Len(content[Realtime]) + Len(content[Running]) = written

TypeInv == TypeOK /\ Lengths

-----------------------------------------------------------------------------
(* Lemmas about the operators.                                             *)

LEMMA TwoFiles == Realtime \in Files /\ Running \in Files
BY ErrorLogsAssumption

LEMMA LenBounds ==
    ASSUME TypeInv, NEW f \in Files
    PROVE  /\ Len(content[f]) \in Positions
           /\ content[f] \in Seq(Ids)
<1>1. /\ content[Realtime] \in Seq(Ids) /\ content[Running] \in Seq(Ids)
      /\ written \in Nat /\ written <= MaxLines
  BY TwoFiles, ErrorLogsAssumption DEF TypeInv, TypeOK, Positions
<1>2. Len(content[Realtime]) \in Nat /\ Len(content[Running]) \in Nat
  BY <1>1
<1>3. MaxLines \in Nat
  BY ErrorLogsAssumption
<1>4. Len(content[Realtime]) <= MaxLines /\ Len(content[Running]) <= MaxLines
  <2>1. Len(content[Realtime]) + Len(content[Running]) = written
    BY DEF TypeInv, Lengths
  <2>2. written \in Nat /\ written <= MaxLines
    BY <1>1
  <2>3. ASSUME NEW a \in Nat, NEW b \in Nat, a + b = written PROVE a <= MaxLines /\ b <= MaxLines
    BY <1>3, <2>2, <2>3
  <2> QED
    BY <1>2, <2>1, <2>3
<1>5. \A g \in Files : g = Realtime \/ g = Running
  BY ErrorLogsAssumption
<1> QED
  BY <1>1, <1>2, <1>3, <1>4, <1>5 DEF Positions

LEMMA LinesAreIds ==
    ASSUME TypeInv, NEW f \in Files, NEW i \in Nat \ {0}, NEW j \in Nat,
           j <= Len(content[f])
    PROVE  Lines(f, i, j) \in SUBSET Ids
<1>1. content[f] \in Seq(Ids)
  BY LenBounds
<1>2. ASSUME NEW k \in i .. j PROVE content[f][k] \in Ids
  BY <1>1, ElementOfSeq
<1> QED
  BY <1>2 DEF Lines

LEMMA EntryOK ==
    ASSUME TypeInv, NEW f \in Files, NEW mm \in Positions
    PROVE  Entry(f, mm) \in Checkpoints
BY ErrorLogsAssumption DEF TypeInv, TypeOK, Entry

LEMMA TailsOK ==
    ASSUME TypeInv, NEW f \in Files, NEW mm \in Tails(f)
    PROVE  mm \in Positions
BY LenBounds DEF TypeInv, TypeOK, Tails

LEMMA IdsFinite == IsFiniteSet(Ids) /\ \A S \in SUBSET Ids : IsFiniteSet(S) /\ Cardinality(S) \in Nat
<1>1. IsFiniteSet(Ids)
  BY ErrorLogsAssumption, FS_Interval DEF Ids
<1> QED
  BY <1>1, FS_Subset, FS_CardinalityType

\* The set of remembered lines keeps its bound when it only shrinks.
LEMMA ForgetBound ==
    ASSUME TypeInv, NEW lines, Forget(lines)
    PROVE  /\ recent' \in [Ids -> Periods \union {Never}]
           /\ Cardinality(Remembered') <= RecentMax
<1>1. recent' \in [Ids -> Periods \union {Never}]
  BY DEF TypeInv, TypeOK, Forget
<1>2. Remembered' \subseteq Remembered /\ Remembered \subseteq Ids
  BY <1>1 DEF TypeInv, TypeOK, Forget, Remembered
<1>3. Cardinality(Remembered') <= Cardinality(Remembered)
  BY <1>2, IdsFinite, FS_Subset
<1>4. Cardinality(Remembered) <= RecentMax /\ RecentMax \in Nat
  BY ErrorLogsAssumption DEF TypeInv, TypeOK
<1>5. Cardinality(Remembered') \in Nat /\ Cardinality(Remembered) \in Nat
  BY <1>2, IdsFinite
<1> QED
  BY <1>1, <1>3, <1>4, <1>5

(* rememberErrors never goes past its bound, whatever it is given.         *)
LEMMA RememberBound ==
    ASSUME TypeInv, rememberErrors
    PROVE  /\ recent' \in [Ids -> Periods \union {Never}]
           /\ Cardinality(Remembered') <= RecentMax
           /\ forgotten' \in SUBSET Ids
           /\ \A l \in Ids : recent'[l] # Never => recent[l] # Never \/ l \in drain.pending
<1> DEFINE over == Cardinality(Remembered) + Cardinality(drain.pending) > RecentMax
           aged == IF over THEN {l \in Remembered : 4 * Age(l) > TTL} ELSE {}
           kept == Remembered \ aged
           room == RecentMax - Cardinality(kept)
<1>1. PICK fit \in SUBSET drain.pending :
         /\ Cardinality(fit) = Smaller(room, Cardinality(drain.pending))
         /\ recent' = [l \in Ids |-> IF l \in fit THEN clock
                                     ELSE IF l \in aged THEN Never ELSE recent[l]]
         /\ forgotten' = forgotten \union aged \union (drain.pending \ fit)
  <2> HIDE DEF aged, over
  <2> QED BY Zenon DEF rememberErrors, aged, over
<1>2. /\ Remembered \subseteq Ids /\ aged \subseteq Remembered
      /\ drain.pending \in SUBSET Ids /\ fit \subseteq Ids /\ forgotten \in SUBSET Ids
  BY DEF TypeInv, TypeOK, Remembered
<1> HIDE DEF aged, over
<1>3. recent' \in [Ids -> Periods \union {Never}]
  BY <1>1 DEF TypeInv, TypeOK
<1>4. Remembered' \subseteq kept \union fit
  BY <1>1, <1>2, <1>3 DEF Remembered
<1>5. Cardinality(Remembered') <= Cardinality(kept) + Cardinality(fit)
  <2>1. IsFiniteSet(kept) /\ IsFiniteSet(fit) /\ kept \union fit \in SUBSET Ids
    BY <1>2, IdsFinite
  <2>2. Cardinality(kept \union fit)
          = Cardinality(kept) + Cardinality(fit) - Cardinality(kept \intersect fit)
    BY <2>1, FS_Union
  <2>3. Cardinality(Remembered') <= Cardinality(kept \union fit)
    BY <1>4, <2>1, IdsFinite, FS_Subset
  <2>4. /\ Cardinality(kept \intersect fit) \in Nat /\ Cardinality(kept) \in Nat
        /\ Cardinality(fit) \in Nat /\ Cardinality(Remembered') \in Nat
    BY <1>4, <2>1, IdsFinite
  <2> QED
    BY <2>2, <2>3, <2>4
<1>6. Cardinality(fit) <= room
  BY <1>1, <1>2, IdsFinite, ErrorLogsAssumption DEF Smaller
<1>7. Cardinality(Remembered') <= RecentMax
  <2>1. /\ Cardinality(kept) \in Nat /\ Cardinality(fit) \in Nat
        /\ Cardinality(Remembered') \in Nat /\ RecentMax \in Nat
    BY <1>2, <1>4, IdsFinite, ErrorLogsAssumption
  <2> HIDE DEF kept
  <2> QED
    BY <1>5, <1>6, <2>1
<1>8. forgotten' \in SUBSET Ids
  BY <1>1, <1>2
<1>9. \A l \in Ids : recent'[l] # Never => recent[l] # Never \/ l \in drain.pending
  BY <1>1, <1>2
<1> QED
  BY <1>3, <1>7, <1>8, <1>9

\* The newest LastWritten of the known checkpoints exists.
LEMMA HorizonOK ==
    ASSUME TypeInv, Known # {}
    PROVE  (CHOOSE t \in Periods :
              /\ \E f \in Known : Get(f).lastWritten = t
              /\ \A f \in Known : Get(f).lastWritten <= t) \in Periods
<1>1. \A f \in Known : f \in Files /\ Get(f) \in Checkpoints
  BY DEF TypeInv, TypeOK, StoreTypeOK, Known, SqliteList, CachedList, Get, SqliteGet, CachedGet
<1>2. \A f \in Known : Get(f).lastWritten \in Periods
  BY <1>1, ErrorLogsAssumption
<1>3. \E t \in Periods :
          /\ \E f \in Known : Get(f).lastWritten = t
          /\ \A f \in Known : Get(f).lastWritten <= t
  <2>1. PICK g \in Known : TRUE
    OBVIOUS
  <2>2. CASE \A f \in Known : Get(f).lastWritten <= Get(g).lastWritten
    BY <1>2, <2>1, <2>2
  <2>3. CASE \E f \in Known : ~(Get(f).lastWritten <= Get(g).lastWritten)
    <3>1. PICK h \in Known : ~(Get(h).lastWritten <= Get(g).lastWritten)
      BY <2>3
    <3>2. Known = {g, h}
      BY <1>1, <2>1, <3>1, <1>2, ErrorLogsAssumption DEF Periods
    <3>3. \A f \in Known : Get(f).lastWritten <= Get(h).lastWritten
      BY <1>2, <2>1, <3>1, <3>2, ErrorLogsAssumption DEF Periods
    <3> QED
      BY <1>2, <3>1, <3>3
  <2> QED
    BY <2>2, <2>3
<1> QED
  BY <1>3, Zenon

-----------------------------------------------------------------------------
(* Each action uses the store as the store's proof assumes, and keeps the  *)
(* types.                                                                  *)

LEMMA SkipStep ==
    ASSUME TypeInv, Skip
    PROVE  /\ \E mm \in Tails(file) :
                 /\ Entry(file, mm) \in Checkpoints
                 /\ leftOut' = leftOut \union Lines(file, 1, Smaller(mm, Len(content[file])))
                 /\ Set(file, Entry(file, mm)) \/ SetError(file, Entry(file, mm))
           /\ StoreNext
<1>1. PICK mm \in Tails(file) :
         /\ Set(file, Entry(file, mm)) \/ SetError(file, Entry(file, mm))
         /\ leftOut' = leftOut \union Lines(file, 1, Smaller(mm, Len(content[file])))
  BY DEF Skip, SetFresh
<1>2. file \in Files /\ Entry(file, mm) \in Checkpoints
  BY TailsOK, EntryOK DEF TypeInv, TypeOK
<1> QED
  BY <1>1, <1>2 DEF StoreNext

LEMMA SaveStep ==
    ASSUME TypeInv, Save \/ SaveFail
    PROVE  /\ Entry(file, drain.marker) \in Checkpoints
           /\ StoreNext
<1>1. file \in Files /\ drain.marker \in Positions
  BY DEF TypeInv, TypeOK
<1>2. Entry(file, drain.marker) \in Checkpoints
  BY <1>1, EntryOK
<1> QED
  BY <1>1, <1>2 DEF Save, SaveFail, SetFresh, StoreNext

LEMMA StoreUse == TypeInv /\ [Next]_vars => [StoreNext]_storeVars
<1> SUFFICES ASSUME TypeInv, [Next]_vars PROVE [StoreNext]_storeVars
  OBVIOUS
<1>1. CASE Skip
  BY <1>1, SkipStep
<1>2. CASE Save \/ SaveFail
  BY <1>2, SaveStep
<1>3. CASE Sweep
  BY <1>3 DEF Sweep, StoreNext, TypeInv, TypeOK
<1>4. CASE Crash
  BY <1>4 DEF Crash, StoreNext
<1>5. CASE UNCHANGED storeVars
  BY <1>5
<1> QED
  BY <1>1, <1>2, <1>3, <1>4, <1>5
  DEF Next, Worker, Failure, vars, WriteLine, Copy, Discover, Begin, Pull, Write,
      PullFail, WriteFail

IInv == TypeInv /\ StoreInv

LEMMA InitOK == Init => IInv
<1> SUFFICES ASSUME Init PROVE IInv
  OBVIOUS
<1>1. StoreInv
  BY StoreInitOK DEF Init
<1>2. PICK k \in 0 .. OldLines :
        content = [f \in Files |-> IF f = Running THEN [i \in 1 .. k |-> i]
                                   ELSE [i \in 1 .. OldLines - k |-> k + i]]
  BY DEF Init
<1>3. /\ OldLines \in Nat /\ MaxLines \in Nat /\ OldLines <= MaxLines
      /\ MaxClock \in Nat /\ 1 <= MaxClock /\ RecentMax \in Nat /\ MaxFaults \in Nat
      /\ Files = {Realtime, Running} /\ Realtime # Running
  BY ErrorLogsAssumption
<1>4. [i \in 1 .. k |-> i] \in Seq(Ids) /\ Len([i \in 1 .. k |-> i]) = k
  <2>1. \A i \in 1 .. k : i \in Ids
    BY <1>3 DEF Ids
  <2> QED
    BY <1>3, <2>1
<1>5. /\ [i \in 1 .. OldLines - k |-> k + i] \in Seq(Ids)
      /\ Len([i \in 1 .. OldLines - k |-> k + i]) = OldLines - k
  <2>1. \A i \in 1 .. OldLines - k : k + i \in Ids
    BY <1>3 DEF Ids
  <2>2. OldLines - k \in Nat
    BY <1>3
  <2> QED
    BY <1>3, <2>1, <2>2
<1>6. content \in [Files -> Seq(Ids)] /\ Lengths
  <2>1. content[Running] = [i \in 1 .. k |-> i] /\ content[Realtime] = [i \in 1 .. OldLines - k |-> k + i]
    BY <1>2, <1>3
  <2>2. written = OldLines
    BY DEF Init
  <2> QED
    BY <1>2, <1>3, <1>4, <1>5, <2>1, <2>2 DEF Lengths
<1>7. Remembered = {} /\ Cardinality(Remembered) = 0
  BY FS_EmptySet DEF Init, Remembered, Never
<1>8. TypeOK
  <2>1. /\ clock \in Periods /\ written \in Positions /\ lastWritten \in [Files -> Periods]
        /\ initialSize \in [Files -> Positions] /\ horizon \in Periods \union {Never}
        /\ recent \in [Ids -> Periods \union {Never}] /\ got \in [Ids -> Nat]
        /\ drain \in [marker : Positions, dedupe : BOOLEAN, pending : SUBSET Ids]
        /\ listing \in [Files -> [size : Positions, lastWritten : Periods]]
        /\ faults \in 0 .. MaxFaults
    BY <1>3 DEF Init, Periods, Positions, Never, NoListing, NoDrain
  <2>2. /\ StoreTypeOK /\ from \in Froms /\ content \in [Files -> Seq(Ids)]
        /\ Cardinality(Remembered) <= RecentMax
    BY <1>1, <1>3, <1>6, <1>7 DEF Init, StoreInv
  <2>3. /\ initial \in {Undiscovered, {}, Files} /\ stale \subseteq Files
        /\ shipped \subseteq Ids /\ pc \in {"idle", "get", "pull", "write", "save"}
        /\ file \in Files /\ {leftOut, forgotten, history} \subseteq SUBSET Ids
        /\ orphaned \in BOOLEAN
    BY TwoFiles DEF Init
  <2> QED
    BY <2>1, <2>2, <2>3 DEF TypeOK
<1> QED
  BY <1>1, <1>6, <1>8 DEF IInv, TypeInv

LEMMA WriteLineTypes ==
    ASSUME TypeInv, StoreTypeOK', WriteLine
    PROVE  TypeInv'
<1>1. /\ written \in Nat /\ written + 1 \in Ids /\ written + 1 \in Positions
      /\ content[Realtime] \in Seq(Ids)
  BY TwoFiles, LenBounds, ErrorLogsAssumption DEF TypeInv, TypeOK, WriteLine, Positions, Ids
<1>2. /\ Append(content[Realtime], written + 1) \in Seq(Ids)
      /\ Len(Append(content[Realtime], written + 1)) = Len(content[Realtime]) + 1
  BY <1>1, AppendProperties
<1>3. content' = [content EXCEPT ![Realtime] = Append(content[Realtime], written + 1)]
  BY DEF WriteLine
<1>4. content' \in [Files -> Seq(Ids)]
  BY <1>2, <1>3, TwoFiles DEF TypeInv, TypeOK
<1>5. Lengths'
  <2>1. /\ content'[Running] = content[Running]
        /\ content'[Realtime] = Append(content[Realtime], written + 1)
    BY <1>3, TwoFiles, ErrorLogsAssumption DEF TypeInv, TypeOK
  <2>2. Len(content[Running]) \in Nat /\ Len(content[Realtime]) \in Nat
    BY TwoFiles, LenBounds DEF Positions
  <2>3. Len(content[Realtime]) + Len(content[Running]) = written /\ written' = written + 1
    BY DEF TypeInv, Lengths, WriteLine
  <2>4. ASSUME NEW a \in Nat, NEW b \in Nat, a + b = written PROVE (a + 1) + b = written'
    BY <1>1, <2>3, <2>4
  <2>5. Len(content'[Realtime]) = Len(content[Realtime]) + 1 /\ Len(content'[Running]) = Len(content[Running])
    BY <1>2, <2>1
  <2> QED
    BY <2>2, <2>3, <2>4, <2>5 DEF Lengths
<1>6. Cardinality(Remembered') <= RecentMax
  BY DEF TypeInv, TypeOK, WriteLine, processVars, Remembered
<1>7. lastWritten' \in [Files -> Periods] /\ written' \in Positions
  BY <1>1, TwoFiles DEF TypeInv, TypeOK, WriteLine
<1> QED
  BY <1>4, <1>5, <1>6, <1>7
  DEF TypeInv, TypeOK, WriteLine, storeVars, processVars, discovered, pollVars, histVars

LEMMA CopyTypes ==
    ASSUME TypeInv, StoreTypeOK', Copy
    PROVE  TypeInv'
<1>1. clock' \in Periods
  BY ErrorLogsAssumption DEF TypeInv, TypeOK, Copy, Periods
<1>2. content' \in [Files -> Seq(Ids)] /\ Lengths' /\ lastWritten' \in [Files -> Periods]
  <2>1. CASE content[Realtime] = << >>
    BY <2>1 DEF TypeInv, TypeOK, Copy, Lengths
  <2>2. CASE content[Realtime] # << >>
    <3>1. content[Running] \in Seq(Ids) /\ content[Realtime] \in Seq(Ids)
      BY TwoFiles, LenBounds
    <3>2. /\ content[Running] \o content[Realtime] \in Seq(Ids)
          /\ Len(content[Running] \o content[Realtime])
               = Len(content[Running]) + Len(content[Realtime])
      BY <3>1, ConcatProperties
    <3>3. content' = [f \in Files |-> IF f = Running THEN content[Running] \o content[Realtime]
                                      ELSE << >>]
      BY <2>2 DEF Copy
    <3>4. << >> \in Seq(Ids) /\ Len(<< >>) = 0
      OBVIOUS
    <3>5. content' \in [Files -> Seq(Ids)]
      BY <3>2, <3>3, <3>4
    <3>6. content'[Realtime] = << >> /\ content'[Running] = content[Running] \o content[Realtime]
      BY <3>3, ErrorLogsAssumption
    <3>7. Len(content[Running]) \in Nat /\ Len(content[Realtime]) \in Nat
      BY <3>1
    <3>8. Lengths'
      <4>1. Len(content[Realtime]) + Len(content[Running]) = written /\ written' = written
        BY DEF TypeInv, Lengths, Copy
      <4>2. ASSUME NEW a \in Nat, NEW b \in Nat, a + b = written PROVE 0 + (b + a) = written'
        BY <4>1, <4>2
      <4>3. /\ Len(content'[Realtime]) = 0
            /\ Len(content'[Running]) = Len(content[Running]) + Len(content[Realtime])
        BY <3>2, <3>4, <3>6
      <4> QED
        BY <3>7, <4>1, <4>2, <4>3 DEF Lengths
    <3> QED
      BY <1>1, <2>2, <3>5, <3>8 DEF Copy
  <2> QED
    BY <2>1, <2>2
<1>3. Cardinality(Remembered') <= RecentMax
  BY DEF TypeInv, TypeOK, Copy, processVars, Remembered
<1> QED
  BY <1>1, <1>2, <1>3
  DEF TypeInv, TypeOK, Copy, storeVars, processVars, discovered, pollVars, histVars

LEMMA DiscoverTypes ==
    ASSUME TypeInv, StoreTypeOK', Discover
    PROVE  TypeInv'
<1>1. Sizes \in [Files -> Positions]
  <2>1. \A f \in Files : Len(content[f]) \in Positions
    BY LenBounds
  <2> QED
    BY <2>1 DEF Sizes
<1>2. listing' \in [Files -> [size : Positions, lastWritten : Periods]]
  BY <1>1 DEF TypeInv, TypeOK, Discover
<1>3. /\ initial' \in {Undiscovered, {}, Files} /\ initialSize' \in [Files -> Positions]
      /\ history' \in SUBSET Ids
  <2>1. Lines(Running, 1, Len(content[Running])) \in SUBSET Ids
    BY TwoFiles, LenBounds, LinesAreIds DEF Positions
  <2> QED
    BY <1>1, <2>1 DEF TypeInv, TypeOK, Discover, discovered
<1>4. horizon' \in Periods \union {Never}
  <2>1. CASE initial # Undiscovered
    BY <2>1 DEF TypeInv, TypeOK, Discover, discovered
  <2>2. CASE initial = Undiscovered /\ (from = "beginning" \/ Known = {})
    BY <2>2 DEF Discover
  <2>3. CASE initial = Undiscovered /\ ~(from = "beginning" \/ Known = {})
    <3>1. horizon' = CHOOSE t \in Periods :
                        /\ \E f \in Known : Get(f).lastWritten = t
                        /\ \A f \in Known : Get(f).lastWritten <= t
      BY <2>3, Zenon DEF Discover
    <3> QED
      BY <2>3, <3>1, HorizonOK
  <2> QED
    BY <2>1, <2>2, <2>3
<1>5. Lengths' /\ Cardinality(Remembered') <= RecentMax
  BY DEF TypeInv, TypeOK, Discover, Lengths, serverVars, Remembered
<1> QED
  BY <1>2, <1>3, <1>4, <1>5, TwoFiles
  DEF TypeInv, TypeOK, Discover, serverVars

LEMMA NextFileTypes ==
    ASSUME TypeInv, NextFile
    PROVE  /\ pc' \in {"idle", "get", "pull", "write", "save"} /\ file' \in Files
           /\ listing' \in [Files -> [size : Positions, lastWritten : Periods]]
           /\ drain' \in [marker : Positions, dedupe : BOOLEAN, pending : SUBSET Ids]
<1>1. 0 \in Positions /\ 0 \in Periods
  BY ErrorLogsAssumption DEF Positions, Periods
<1>2. NoListing \in [Files -> [size : Positions, lastWritten : Periods]]
  BY <1>1 DEF NoListing
<1>3. NoDrain \in [marker : Positions, dedupe : BOOLEAN, pending : SUBSET Ids]
  BY <1>1 DEF NoDrain
<1> QED
  BY <1>2, <1>3, TwoFiles DEF TypeInv, TypeOK, NextFile

LEMMA SkipTypes ==
    ASSUME TypeInv, StoreTypeOK', Skip
    PROVE  TypeInv'
<1>1. leftOut' \in SUBSET Ids
  <2>1. PICK mm \in Tails(file) :
          leftOut' = leftOut \union Lines(file, 1, Smaller(mm, Len(content[file])))
    BY SkipStep
  <2>2. /\ file \in Files /\ mm \in Nat /\ Len(content[file]) \in Nat
    BY TailsOK, LenBounds DEF TypeInv, TypeOK, Positions
  <2>3. Smaller(mm, Len(content[file])) \in Nat /\ Smaller(mm, Len(content[file])) <= Len(content[file])
    BY <2>2 DEF Smaller
  <2>4. Lines(file, 1, Smaller(mm, Len(content[file]))) \in SUBSET Ids
    BY <2>2, <2>3, LinesAreIds
  <2> QED
    BY <2>1, <2>4 DEF TypeInv, TypeOK
<1>2. stale' \subseteq Files /\ faults' \in 0 .. MaxFaults
  BY ErrorLogsAssumption DEF TypeInv, TypeOK, Skip, SetFresh, Fault
<1>3. Lengths' /\ Cardinality(Remembered') <= RecentMax
  BY DEF TypeInv, TypeOK, Skip, Lengths, serverVars, Remembered
<1>4. NextFile
  BY DEF Skip
<1> QED
  BY <1>1, <1>2, <1>3, <1>4, NextFileTypes
  DEF TypeInv, TypeOK, Skip, serverVars, discovered

LEMMA BeginTypes ==
    ASSUME TypeInv, StoreTypeOK', Begin
    PROVE  TypeInv'
<1>1. drain' \in [marker : Positions, dedupe : BOOLEAN, pending : SUBSET Ids]
  <2>1. Get(file) = NotFound \/ Get(file).marker \in Positions
    BY ErrorLogsAssumption DEF TypeInv, TypeOK, StoreTypeOK, Get, SqliteGet, CachedGet
  <2>2. 0 \in Positions /\ Shrank(file) \in BOOLEAN
    BY ErrorLogsAssumption DEF Positions, Shrank
  <2>3. /\ drain'.marker \in Positions /\ drain'.dedupe \in BOOLEAN /\ drain'.pending = {}
        /\ drain' = [marker |-> drain'.marker, dedupe |-> drain'.dedupe, pending |-> {}]
    BY <2>1, <2>2 DEF Begin, NoDrain
  <2> QED
    BY <2>3
<1>2. Lengths' /\ Cardinality(Remembered') <= RecentMax
  BY DEF TypeInv, TypeOK, Begin, Lengths, serverVars, processVars, Remembered
<1>3. orphaned' \in BOOLEAN
  BY DEF TypeInv, TypeOK, Begin
<1> QED
  BY <1>1, <1>2, <1>3
  DEF TypeInv, TypeOK, Begin, storeVars, serverVars, processVars, discovered

LEMMA PullTypes ==
    ASSUME TypeInv, StoreTypeOK', Pull
    PROVE  TypeInv'
<1> DEFINE end   == Len(content[file])
           read  == Lines(file, drain.marker + 1, end)
           old   == IF file = Running THEN {l \in Remembered : Age(l) > TTL} ELSE {}
           known == (IF drain.dedupe THEN shipped ELSE {})
                      \union (IF file = Running THEN Remembered \ old ELSE {})
<1>1. file \in Files /\ drain.marker \in Positions /\ drain.marker \in Nat
  BY DEF TypeInv, TypeOK, Positions
<1>2. end \in Positions /\ end \in Nat /\ end <= Len(content[file])
  BY <1>1, LenBounds DEF Positions
<1>3. read \in SUBSET Ids
  BY <1>1, <1>2, LinesAreIds
<1>4. old \in SUBSET Ids
  BY DEF TypeInv, TypeOK, Remembered
<1>5. /\ \E mm \in {drain.marker, end} :
            drain' = [drain EXCEPT !.marker = mm, !.pending = read \ known]
      /\ Forget(old)
  BY DEF Pull
<1> HIDE DEF end, read, old, known
<1>6. drain' \in [marker : Positions, dedupe : BOOLEAN, pending : SUBSET Ids]
  BY <1>1, <1>2, <1>3, <1>5 DEF TypeInv, TypeOK
<1>7. /\ recent' \in [Ids -> Periods \union {Never}]
      /\ Cardinality(Remembered') <= RecentMax
  BY <1>5, ForgetBound
<1>8. forgotten' \in SUBSET Ids
  BY <1>4, <1>5 DEF Forget, TypeInv, TypeOK
<1>9. Lengths'
  BY DEF TypeInv, Lengths, Pull, serverVars
<1> QED
  BY <1>6, <1>7, <1>8, <1>9
  DEF TypeInv, TypeOK, Pull, serverVars, discovered

LEMMA DeliverTypes ==
    ASSUME TypeInv, Deliver
    PROVE  got' \in [Ids -> Nat]
BY DEF TypeInv, TypeOK, Deliver

LEMMA WriteTypes ==
    ASSUME TypeInv, StoreTypeOK', Write
    PROVE  TypeInv'
<1>1. /\ recent' \in [Ids -> Periods \union {Never}] /\ forgotten' \in SUBSET Ids
      /\ Cardinality(Remembered') <= RecentMax
  <2>1. CASE file = Realtime
    BY <2>1, RememberBound DEF Write
  <2>2. CASE file # Realtime
    BY <2>2 DEF Write, TypeInv, TypeOK, Remembered
  <2> QED
    BY <2>1, <2>2
<1>2. got' \in [Ids -> Nat] /\ shipped' \in SUBSET Ids
  BY DeliverTypes DEF Write, TypeInv, TypeOK
<1>3. Lengths'
  BY DEF TypeInv, Lengths, Write, serverVars
<1> QED
  BY <1>1, <1>2, <1>3
  DEF TypeInv, TypeOK, Write, storeVars, serverVars, discovered

LEMMA SaveTypes ==
    ASSUME TypeInv, StoreTypeOK', Save \/ SaveFail
    PROVE  TypeInv'
<1>1. Lengths' /\ Cardinality(Remembered') <= RecentMax
  BY DEF TypeInv, TypeOK, Save, SaveFail, Lengths, serverVars, processVars, Remembered
<1>2. stale' \subseteq Files /\ faults' \in 0 .. MaxFaults
  BY ErrorLogsAssumption
  DEF TypeInv, TypeOK, Save, SaveFail, SetFresh, Fault, processVars, histVars
<1>3. NextFile
  BY DEF Save, SaveFail
<1> QED
  BY <1>1, <1>2, <1>3, NextFileTypes
  DEF TypeInv, TypeOK, Save, SaveFail, serverVars, processVars, discovered, histVars

LEMMA SweepTypes ==
    ASSUME TypeInv, StoreTypeOK', Sweep
    PROVE  TypeInv'
<1>1. Lengths' /\ Cardinality(Remembered') <= RecentMax
  BY DEF TypeInv, TypeOK, Sweep, Lengths, serverVars, Remembered
<1> QED
  BY <1>1
  DEF TypeInv, TypeOK, Sweep, serverVars, discovered, pollVars, histVars

LEMMA FailTypes ==
    ASSUME TypeInv, StoreTypeOK', PullFail \/ WriteFail
    PROVE  TypeInv'
<1>1. Lengths' /\ Cardinality(Remembered') <= RecentMax
  BY DEF TypeInv, TypeOK, PullFail, WriteFail, Lengths, serverVars, processVars, Remembered
<1>2. faults' \in 0 .. MaxFaults
  BY ErrorLogsAssumption DEF TypeInv, TypeOK, PullFail, WriteFail, Fault
<1>3. got' \in [Ids -> Nat]
  BY DeliverTypes DEF TypeInv, TypeOK, PullFail, WriteFail
<1>4. NextFile
  BY DEF PullFail, WriteFail
<1> QED
  BY <1>1, <1>2, <1>3, <1>4, NextFileTypes
  DEF TypeInv, TypeOK, PullFail, WriteFail, storeVars, serverVars, processVars, discovered

LEMMA CrashTypes ==
    ASSUME TypeInv, StoreTypeOK', Crash
    PROVE  TypeInv'
<1>1. Lengths'
  BY DEF TypeInv, Crash, Lengths, serverVars
<1>2. recent' \in [Ids -> Periods \union {Never}] /\ Remembered' = {}
  BY DEF Crash, Remembered
<1>3. Cardinality(Remembered') <= RecentMax
  BY <1>2, FS_EmptySet, ErrorLogsAssumption
<1>4. 0 \in Positions /\ 0 \in Periods
  BY ErrorLogsAssumption DEF Positions, Periods
<1>5. /\ listing' \in [Files -> [size : Positions, lastWritten : Periods]]
      /\ drain' \in [marker : Positions, dedupe : BOOLEAN, pending : SUBSET Ids]
      /\ initialSize' \in [Files -> Positions]
  BY <1>4 DEF Crash, NoListing, NoDrain
<1>6. stale' \subseteq Files
  BY DEF Crash, Known, SqliteList, CachedList
<1>7. faults' \in 0 .. MaxFaults
  BY ErrorLogsAssumption DEF TypeInv, TypeOK, Crash, Fault
<1> QED
  BY <1>1, <1>2, <1>3, <1>5, <1>6, <1>7, TwoFiles
  DEF TypeInv, TypeOK, Crash, serverVars

LEMMA StepOK == IInv /\ [Next]_vars => IInv'
<1> SUFFICES ASSUME IInv, [Next]_vars PROVE IInv'
  OBVIOUS
<1>1. StoreInv' /\ StoreTypeOK'
  BY StoreUse, StoreStepOK DEF IInv, StoreInv
<1>2. TypeInv
  BY DEF IInv
<1>3. CASE WriteLine \/ Copy
  BY <1>1, <1>2, <1>3, WriteLineTypes, CopyTypes DEF IInv
<1>4. CASE Discover \/ Skip \/ Begin
  BY <1>1, <1>2, <1>4, DiscoverTypes, SkipTypes, BeginTypes DEF IInv
<1>5. CASE Pull \/ Write \/ Save \/ Sweep
  BY <1>1, <1>2, <1>5, PullTypes, WriteTypes, SaveTypes, SweepTypes DEF IInv
<1>6. CASE Failure
  BY <1>1, <1>2, <1>6, FailTypes, SaveTypes, CrashTypes DEF IInv, Failure
<1>7. CASE UNCHANGED vars
  <2>1. TypeInv'
    BY <1>2, <1>7
    DEF vars, storeVars, serverVars, processVars, discovered, pollVars, histVars,
        TypeInv, TypeOK, StoreTypeOK, Lengths, Remembered
  <2> QED
    BY <1>1, <2>1 DEF IInv
<1> QED
  BY <1>3, <1>4, <1>5, <1>6, <1>7 DEF Next, Worker

LEMMA AlwaysIInv == Spec => []IInv
BY InitOK, StepOK, PTL DEF Spec

(* The variables stay in their types, and the set of remembered error      *)
(* lines within recentErrorsMax, whatever its size and its time.           *)
THEOREM Types == Spec => []TypeOK
<1>1. IInv => TypeOK
  BY DEF IInv, TypeInv
<1> QED
  BY <1>1, AlwaysIInv, PTL

(* The worker's use of the store is one the store's promise covers: what   *)
(* was acknowledged is what the next process finds.                        *)
THEOREM AckedCheckpointsSurvive == Spec => []AckedSurvives
<1>1. IInv => AckedSurvives
  BY DEF IInv, StoreInv
<1> QED
  BY <1>1, AlwaysIInv, PTL

-----------------------------------------------------------------------------
(* No error line is lost.  A position of the running log is covered when   *)
(* every line before it reached the sink or was left out by start_from;    *)
(* what the process remembers to have shipped did reach the sink.          *)

Done(l) == got[l] > 0 \/ l \in leftOut

RunningLen == Len(content[Running])

Covered(n) ==
    /\ n \in 0 .. RunningLen
    /\ \A k \in 1 .. n : Done(content[Running][k])

Memory ==
    /\ \A l \in Ids : recent[l] # Never => got[l] > 0
    /\ \A l \in shipped : got[l] > 0

Saved ==
    /\ cached[Running] # NotFound => Covered(cached[Running].marker)
    /\ stored[Running] # NotFound => Covered(stored[Running].marker)

Seen == listing[Running].size <= RunningLen /\ initialSize[Running] <= RunningLen

Draining ==
    file = Running =>
        /\ pc \in {"pull", "save"} => Covered(drain.marker)
        /\ pc = "write" =>
             /\ drain.marker \in 0 .. RunningLen
             /\ \A k \in 1 .. drain.marker :
                   Done(content[Running][k]) \/ content[Running][k] \in drain.pending

LossInv == Memory /\ Saved /\ Seen /\ Draining

\* The running log only grows, and what is done stays done.
Grows ==
    /\ RunningLen \in Nat /\ RunningLen' \in Nat /\ RunningLen <= RunningLen'
    /\ \A k \in 1 .. RunningLen : /\ content[Running][k] \in Ids
                                  /\ content'[Running][k] = content[Running][k]
    /\ \A l \in Ids : Done(l) => Done(l)'
    /\ \A l \in Ids : got[l] > 0 => got'[l] > 0

LEMMA CoveredStays ==
    ASSUME Grows, NEW n, Covered(n)
    PROVE  Covered(n)'
<1>1. n \in 0 .. RunningLen'
  BY DEF Grows, Covered
<1>2. ASSUME NEW k \in 1 .. n PROVE Done(content[Running][k])'
  <2>1. k \in 1 .. RunningLen /\ Done(content[Running][k])
    BY DEF Covered, Grows
  <2> QED
    BY <2>1 DEF Grows, Done
<1> QED
  BY <1>1, <1>2 DEF Covered

LEMMA GotGrows ==
    ASSUME TypeInv, got' = got \/ Deliver
    PROVE  /\ \A l \in Ids : got[l] > 0 => got'[l] > 0
           /\ Deliver => \A l \in drain.pending : got'[l] > 0
<1>1. got \in [Ids -> Nat] /\ drain.pending \in SUBSET Ids
  BY DEF TypeInv, TypeOK
<1>2. CASE got' = got
  BY <1>1, <1>2 DEF Deliver
<1>3. CASE Deliver
  BY <1>1, <1>3 DEF Deliver
<1> QED
  BY <1>2, <1>3

LEMMA ConcatExtends ==
    ASSUME NEW s \in Seq(Ids), NEW t \in Seq(Ids)
    PROVE  /\ Len(s \o t) \in Nat /\ Len(s) <= Len(s \o t)
           /\ \A k \in 1 .. Len(s) : (s \o t)[k] = s[k]
BY ConcatProperties

LEMMA Growth == TypeInv /\ TypeInv' /\ [Next]_vars => Grows
<1> SUFFICES ASSUME TypeInv, TypeInv', [Next]_vars PROVE Grows
  OBVIOUS
<1>1. RunningLen \in Nat /\ content[Running] \in Seq(Ids)
  BY TwoFiles, LenBounds DEF RunningLen, Positions
<1>2. \A k \in 1 .. RunningLen : content[Running][k] \in Ids
  BY <1>1, ElementOfSeq DEF RunningLen
<1>3. /\ RunningLen' \in Nat /\ RunningLen <= RunningLen'
      /\ \A k \in 1 .. RunningLen : content'[Running][k] = content[Running][k]
  <2>1. CASE content'[Running] = content[Running]
    BY <1>1, <2>1 DEF RunningLen
  <2>2. CASE content'[Running] = content[Running] \o content[Realtime]
    <3>1. content[Realtime] \in Seq(Ids)
      BY TwoFiles, LenBounds
    <3>2. /\ Len(content[Running] \o content[Realtime]) \in Nat
          /\ Len(content[Running]) <= Len(content[Running] \o content[Realtime])
          /\ \A k \in 1 .. Len(content[Running]) :
                (content[Running] \o content[Realtime])[k] = content[Running][k]
      BY <1>1, <3>1, ConcatExtends
    <3> QED
      BY <2>2, <3>2 DEF RunningLen
  <2>3. content'[Running] = content[Running] \/ content'[Running] = content[Running] \o content[Realtime]
    <3>1. CASE WriteLine
      BY <3>1, ErrorLogsAssumption DEF WriteLine, TypeInv, TypeOK
    <3>2. CASE Copy
      BY <3>2, ErrorLogsAssumption DEF Copy, TypeInv, TypeOK
    <3>3. CASE UNCHANGED content
      BY <3>3
    <3> QED
      BY <3>1, <3>2, <3>3
      DEF Next, Worker, Failure, vars, serverVars, Discover, Skip, Begin, Pull, Write, Save,
          Sweep, PullFail, WriteFail, SaveFail, Crash
  <2> QED
    BY <2>1, <2>2, <2>3
<1>4. got' = got \/ Deliver
  BY DEF Next, Worker, Failure, vars, histVars, WriteLine, Copy, Discover, Skip, Begin, Pull,
         Write, Save, Sweep, PullFail, WriteFail, SaveFail, Crash
<1>5. leftOut \subseteq leftOut'
  BY DEF Next, Worker, Failure, vars, histVars, WriteLine, Copy, Discover, Skip, Begin, Pull,
         Write, Save, Sweep, PullFail, WriteFail, SaveFail, Crash
<1> QED
  BY <1>1, <1>2, <1>3, <1>4, <1>5, GotGrows DEF Grows, Done

\* What the store holds of Running afterwards it held before or was given.
LEMMA StoreHolds ==
    ASSUME StoreTypeOK, NEW f \in Files, NEW c \in Checkpoints,
           Set(f, c) \/ SetError(f, c), Running \in Files
    PROVE  {cached'[Running], stored'[Running]} \subseteq
              {cached[Running], stored[Running]} \union (IF f = Running THEN {c} ELSE {})
<1>1. CASE Set(f, c)
  BY <1>1, StoreAssumption DEF StoreTypeOK, Set, SqliteSet, FileSet, MemorySet
<1>2. CASE SetError(f, c)
  BY <1>2 DEF StoreTypeOK, SetError, SqliteSetError, FileSetError
<1> QED
  BY <1>1, <1>2

LEMMA SavedStays ==
    ASSUME Grows, Saved,
           {cached'[Running], stored'[Running]} \subseteq
              {cached[Running], stored[Running], NotFound}
    PROVE  Saved'
<1>1. ASSUME NEW c \in {cached[Running], stored[Running]}, c # NotFound
      PROVE  Covered(c.marker)'
  BY <1>1, CoveredStays DEF Saved
<1> QED
  BY <1>1 DEF Saved

LEMMA SavedNew ==
    ASSUME Grows, Saved, NEW new, Covered(new.marker)',
           {cached'[Running], stored'[Running]} \subseteq
              {cached[Running], stored[Running], new}
    PROVE  Saved'
<1>1. ASSUME NEW c \in {cached[Running], stored[Running]}, c # NotFound
      PROVE  Covered(c.marker)'
  BY <1>1, CoveredStays DEF Saved
<1> QED
  BY <1>1 DEF Saved

LEMMA SeenStays ==
    ASSUME Seen, Grows, listing \in [Files -> [size : Positions, lastWritten : Periods]],
           initialSize \in [Files -> Positions],
           listing'[Running].size \in {listing[Running].size, 0},
           initialSize'[Running] \in {initialSize[Running], 0}
    PROVE  Seen'
<1>1. listing[Running].size \in Nat /\ initialSize[Running] \in Nat
  BY TwoFiles, ErrorLogsAssumption DEF Positions
<1>2. listing'[Running].size <= RunningLen /\ initialSize'[Running] <= RunningLen
  BY <1>1 DEF Seen, Grows
<1>3. listing'[Running].size \in Nat /\ initialSize'[Running] \in Nat
  BY <1>1
<1> QED
  BY <1>2, <1>3 DEF Seen, Grows

LEMMA MemoryStays ==
    ASSUME Memory, Grows, TypeInv,
           \A l \in Ids : recent'[l] # Never => recent[l] # Never,
           shipped' \subseteq shipped
    PROVE  Memory'
<1>1. shipped \subseteq Ids
  BY DEF TypeInv, TypeOK
<1> QED
  BY <1>1 DEF Memory, Grows

\* Between two drains nothing is claimed of the drain.
LEMMA BetweenDrains ==
    ASSUME TypeInv, Seen, Grows, NextFile, UNCHANGED initialSize
    PROVE  Draining' /\ Seen'
<1>1. pc' \in {"get", "idle"}
  BY DEF NextFile
<1>2. listing'[Running].size \in {listing[Running].size, 0}
  BY TwoFiles DEF NextFile, NoListing
<1>3. Seen'
  BY <1>2, SeenStays DEF TypeInv, TypeOK
<1> QED
  BY <1>1, <1>3 DEF Draining

LEMMA ServerKeeps ==
    ASSUME TypeInv, LossInv, Grows, WriteLine \/ Copy \/ UNCHANGED vars
    PROVE  LossInv'
<1>1. UNCHANGED <<cached, stored, listing, initialSize, recent, shipped, pc, file, drain>>
  BY DEF WriteLine, Copy, vars, storeVars, processVars, discovered, pollVars
<1>2. Saved'
  BY <1>1, SavedStays DEF LossInv
<1>3. Memory' /\ Seen'
  BY <1>1, MemoryStays, SeenStays DEF LossInv, TypeInv, TypeOK
<1>4. Draining'
  <2> SUFFICES ASSUME file' = Running
               PROVE  /\ pc' \in {"pull", "save"} => Covered(drain.marker)'
                      /\ pc' = "write" =>
                           /\ drain'.marker \in 0 .. RunningLen'
                           /\ \A k \in 1 .. drain'.marker :
                                 \/ Done(content[Running][k])'
                                 \/ content'[Running][k] \in drain'.pending
    BY <1>1 DEF Draining
  <2>1. ASSUME pc \in {"pull", "save"} PROVE Covered(drain.marker)'
    <3>1. Covered(drain.marker)
      BY <1>1, <2>1 DEF LossInv, Draining
    <3>2. PICK n : n = drain.marker
      OBVIOUS
    <3>3. Covered(n)'
      BY <3>1, <3>2, CoveredStays
    <3> QED
      BY <1>1, <3>2, <3>3
  <2>2. ASSUME pc = "write"
        PROVE  /\ drain.marker \in 0 .. RunningLen'
               /\ \A k \in 1 .. drain.marker :
                     Done(content[Running][k])' \/ content'[Running][k] \in drain.pending
    BY <1>1, <2>2 DEF LossInv, Draining, Grows
  <2> QED
    BY <1>1, <2>1, <2>2
<1> QED
  BY <1>2, <1>3, <1>4 DEF LossInv

LEMMA DiscoverKeeps ==
    ASSUME TypeInv, LossInv, Grows, Discover
    PROVE  LossInv'
<1>1. UNCHANGED <<cached, stored, content, recent, shipped, got>> /\ pc' = "get"
  BY DEF Discover, storeVars, serverVars
<1>2. Saved' /\ Memory'
  BY <1>1, SavedStays, MemoryStays DEF LossInv
<1>3. Seen'
  <2>1. Sizes[Running] = RunningLen /\ RunningLen' = RunningLen /\ RunningLen \in Nat
    BY <1>1, TwoFiles DEF Sizes, RunningLen, Grows
  <2>2. listing'[Running].size = RunningLen
    BY <2>1, TwoFiles DEF Discover
  <2>3. initialSize'[Running] \in {initialSize[Running], RunningLen}
    BY <2>1 DEF Discover, discovered
  <2> QED
    BY <2>1, <2>2, <2>3 DEF Seen, LossInv
<1>4. Draining'
  BY <1>1 DEF Draining
<1> QED
  BY <1>2, <1>3, <1>4 DEF LossInv

LEMMA SkipKeeps ==
    ASSUME TypeInv, StoreTypeOK, LossInv, Grows, Skip
    PROVE  LossInv'
<1>1. PICK mm \in Tails(file) :
         /\ Entry(file, mm) \in Checkpoints
         /\ leftOut' = leftOut \union Lines(file, 1, Smaller(mm, Len(content[file])))
         /\ Set(file, Entry(file, mm)) \/ SetError(file, Entry(file, mm))
  BY SkipStep
<1>2. UNCHANGED <<content, got, initialSize, recent, shipped>> /\ NextFile
  BY DEF Skip, serverVars, discovered
<1>3. file = Running => Covered(mm)'
  <2> SUFFICES ASSUME file = Running PROVE Covered(mm)'
    OBVIOUS
  <2>1. mm \in Nat /\ RunningLen \in Nat /\ mm <= RunningLen
    BY TailsOK, TwoFiles DEF Tails, LossInv, Seen, RunningLen, Grows, Positions
  <2>2. Smaller(mm, Len(content[Running])) = mm
    BY <2>1 DEF Smaller, RunningLen
  <2>3. \A k \in 1 .. mm : content[Running][k] \in leftOut'
    BY <1>1, <2>2 DEF Lines
  <2> QED
    BY <1>2, <2>1, <2>3 DEF Covered, Done, RunningLen
<1>4. {cached'[Running], stored'[Running]} \subseteq
         {cached[Running], stored[Running]}
           \union (IF file = Running THEN {Entry(file, mm)} ELSE {})
  BY <1>1, StoreHolds, TwoFiles DEF TypeInv, TypeOK
<1>5. Saved'
  <2>1. CASE file = Running
    <3>1. PICK new : new = Entry(file, mm)
      OBVIOUS
    <3>2. new.marker = mm
      BY <3>1 DEF Entry
    <3> QED
      BY <1>3, <1>4, <2>1, <3>1, <3>2, SavedNew DEF LossInv
  <2>2. CASE file # Running
    BY <1>4, <2>2, SavedStays DEF LossInv
  <2> QED
    BY <2>1, <2>2
<1>6. Memory' /\ Draining' /\ Seen'
  BY <1>2, MemoryStays, BetweenDrains DEF LossInv
<1> QED
  BY <1>5, <1>6 DEF LossInv

LEMMA BeginKeeps ==
    ASSUME TypeInv, LossInv, Grows, Begin
    PROVE  LossInv'
<1>1. UNCHANGED <<cached, stored, content, got, leftOut, initialSize, listing, recent, shipped, file>>
  BY DEF Begin, storeVars, serverVars, processVars, discovered
<1>2. Saved' /\ Memory' /\ Seen'
  BY <1>1, SavedStays, MemoryStays, SeenStays DEF LossInv, TypeInv, TypeOK
<1>3. Draining'
  <2> SUFFICES ASSUME file = Running PROVE Covered(drain.marker)'
    BY <1>1 DEF Draining, Begin
  <2>1. drain'.marker = 0 \/ (Get(file) # NotFound /\ drain'.marker = Get(file).marker)
    BY DEF Begin, NoDrain
  <2>2. Covered(0)
    BY DEF Covered, Grows
  <2>3. Covered(drain'.marker)
    BY <2>1, <2>2 DEF LossInv, Saved, Get, SqliteGet, CachedGet
  <2> QED
    BY <1>1, <2>3 DEF Covered, Done, RunningLen
<1> QED
  BY <1>2, <1>3 DEF LossInv

LEMMA PullKeeps ==
    ASSUME TypeInv, LossInv, Grows, Pull
    PROVE  LossInv'
<1> DEFINE end   == Len(content[file])
           read  == Lines(file, drain.marker + 1, end)
           old   == IF file = Running THEN {l \in Remembered : Age(l) > TTL} ELSE {}
           known == (IF drain.dedupe THEN shipped ELSE {})
                      \union (IF file = Running THEN Remembered \ old ELSE {})
<1>1. /\ UNCHANGED <<cached, stored, content, got, leftOut, initialSize, listing, shipped, file>>
      /\ pc = "pull" /\ pc' = "write"
  BY DEF Pull, storeVars, serverVars, discovered
<1>2. /\ \E mm \in IF drain.marker > end THEN {drain.marker, end} ELSE {end} :
            drain' = [drain EXCEPT !.marker = mm, !.pending = read \ known]
      /\ Forget(old)
  BY DEF Pull
<1>3. Memory'
  <2>1. \A l \in Ids : recent'[l] # Never => recent[l] # Never
    BY <1>2 DEF Forget, TypeInv, TypeOK
  <2> QED
    BY <1>1, <2>1, MemoryStays DEF LossInv
<1>4. Saved' /\ Seen'
  BY <1>1, SavedStays, SeenStays DEF LossInv, TypeInv, TypeOK
<1>5. \A l \in known : got[l] > 0
  BY DEF LossInv, Memory, Remembered
<1>6. Draining'
  <2> SUFFICES ASSUME file = Running
               PROVE  /\ drain'.marker \in 0 .. RunningLen
                      /\ \A k \in 1 .. drain'.marker :
                            Done(content[Running][k]) \/ content[Running][k] \in drain'.pending
    BY <1>1 DEF Draining, Done, RunningLen
  <2> HIDE DEF known, old
  <2>1. Covered(drain.marker) /\ end = RunningLen /\ RunningLen \in Nat
    BY <1>1 DEF LossInv, Draining, RunningLen, Grows
  <2>2. drain.marker \in Nat /\ drain.marker <= end
    BY <2>1 DEF Covered
  <2>3. drain'.marker = end /\ drain'.pending = read \ known
    BY <1>2, <2>1, <2>2 DEF TypeInv, TypeOK
  <2>4. ASSUME NEW k \in 1 .. end
        PROVE  Done(content[Running][k]) \/ content[Running][k] \in drain'.pending
    <3>1. CASE k <= drain.marker
      BY <2>1, <2>2, <3>1 DEF Covered
    <3>2. CASE ~(k <= drain.marker)
      <4>1. k \in drain.marker + 1 .. end
        BY <2>1, <2>2, <3>2
      <4>2. content[Running][k] \in read
        BY <4>1 DEF Lines
      <4> QED
        BY <1>5, <2>3, <4>2 DEF Done
    <3> QED
      BY <3>1, <3>2
  <2> QED
    BY <2>1, <2>3, <2>4
<1> QED
  BY <1>3, <1>4, <1>6 DEF LossInv

LEMMA WriteKeeps ==
    ASSUME TypeInv, LossInv, Grows, Write
    PROVE  LossInv'
<1>1. /\ UNCHANGED <<cached, stored, content, leftOut, initialSize, listing, file, drain>>
      /\ pc = "write" /\ pc' = "save" /\ Deliver
  BY DEF Write, storeVars, serverVars, discovered
<1>2. \A l \in drain.pending : got'[l] > 0
  BY <1>1, GotGrows
<1>3. Memory'
  <2>1. \A l \in Ids : recent'[l] # Never => recent[l] # Never \/ l \in drain.pending
    <3>1. CASE file = Realtime
      BY <3>1, RememberBound DEF Write
    <3>2. CASE file # Realtime
      BY <3>2 DEF Write
    <3> QED
      BY <3>1, <3>2
  <2>2. shipped' \subseteq shipped \union drain.pending /\ shipped \subseteq Ids
    BY DEF Write, TypeInv, TypeOK
  <2> QED
    BY <1>2, <2>1, <2>2 DEF LossInv, Memory, Grows
<1>4. Saved' /\ Seen'
  BY <1>1, SavedStays, SeenStays DEF LossInv, TypeInv, TypeOK
<1>5. Draining'
  <2> SUFFICES ASSUME file = Running PROVE Covered(drain.marker)'
    BY <1>1 DEF Draining
  <2>1. /\ drain.marker \in 0 .. RunningLen /\ RunningLen' = RunningLen
        /\ \A k \in 1 .. drain.marker :
              Done(content[Running][k]) \/ content[Running][k] \in drain.pending
    BY <1>1 DEF LossInv, Draining, RunningLen
  <2>2. ASSUME NEW k \in 1 .. drain.marker PROVE Done(content[Running][k])'
    <3>1. content[Running][k] \in Ids /\ k \in 1 .. RunningLen
      BY <2>1 DEF Grows
    <3> QED
      BY <1>1, <1>2, <2>1, <3>1 DEF Done, Grows
  <2> QED
    BY <1>1, <2>1, <2>2 DEF Covered
<1> QED
  BY <1>3, <1>4, <1>5 DEF LossInv

LEMMA SaveKeeps ==
    ASSUME TypeInv, LossInv, Grows, Save \/ SaveFail
    PROVE  LossInv'
<1>1. /\ UNCHANGED <<content, got, leftOut, initialSize, recent, shipped>>
      /\ pc = "save" /\ NextFile
      /\ Set(file, Entry(file, drain.marker)) \/ SetError(file, Entry(file, drain.marker))
  BY DEF Save, SaveFail, SetFresh, serverVars, processVars, discovered, histVars
<1>2. PICK new \in Checkpoints : new = Entry(file, drain.marker)
  BY SaveStep
<1>3. {cached'[Running], stored'[Running]} \subseteq
         {cached[Running], stored[Running]} \union (IF file = Running THEN {new} ELSE {})
  BY <1>1, <1>2, StoreHolds, TwoFiles DEF TypeInv, TypeOK
<1>4. Saved'
  <2>1. CASE file = Running
    <3>1. Covered(new.marker)
      BY <1>1, <1>2, <2>1 DEF LossInv, Draining, Entry
    <3>2. Covered(new.marker)'
      BY <3>1, CoveredStays
    <3> QED
      BY <1>3, <2>1, <3>2, SavedNew DEF LossInv
  <2>2. CASE file # Running
    BY <1>3, <2>2, SavedStays DEF LossInv
  <2> QED
    BY <2>1, <2>2
<1>5. Memory' /\ Draining' /\ Seen'
  BY <1>1, MemoryStays, BetweenDrains DEF LossInv
<1> QED
  BY <1>4, <1>5 DEF LossInv

LEMMA SweepKeeps ==
    ASSUME TypeInv, LossInv, Grows, Sweep
    PROVE  LossInv'
<1>1. UNCHANGED <<content, got, leftOut, initialSize, listing, recent, shipped, pc, file, drain>>
  BY DEF Sweep, serverVars, discovered, pollVars, histVars
<1>2. {cached'[Running], stored'[Running]} \subseteq {cached[Running], stored[Running], NotFound}
  BY TwoFiles DEF Sweep, Prune
<1>3. Saved' /\ Memory' /\ Seen'
  BY <1>1, <1>2, SavedStays, MemoryStays, SeenStays DEF LossInv, TypeInv, TypeOK
<1>4. Draining'
  BY <1>1 DEF LossInv, Draining, Covered, Done, RunningLen
<1> QED
  BY <1>3, <1>4 DEF LossInv

LEMMA FailKeeps ==
    ASSUME TypeInv, LossInv, Grows, PullFail \/ WriteFail
    PROVE  LossInv'
<1>1. UNCHANGED <<cached, stored, initialSize, recent, shipped>> /\ NextFile
  BY DEF PullFail, WriteFail, storeVars, processVars, discovered
<1>2. Saved' /\ Memory' /\ Draining' /\ Seen'
  BY <1>1, SavedStays, MemoryStays, BetweenDrains DEF LossInv
<1> QED
  BY <1>2 DEF LossInv

LEMMA CrashKeeps ==
    ASSUME TypeInv, LossInv, Grows, Crash
    PROVE  LossInv'
<1>1. {cached'[Running], stored'[Running]} \subseteq {cached[Running], stored[Running], NotFound}
  BY TwoFiles DEF Crash, Reopen, SqliteOpen, FileOpen, MemoryNew, Nothing
<1>2. /\ \A l \in Ids : recent'[l] = Never
      /\ shipped' = {} /\ pc' = "idle"
      /\ listing'[Running].size = 0 /\ initialSize'[Running] = 0
  BY TwoFiles DEF Crash, NoListing
<1>3. Saved' /\ Memory' /\ Seen'
  BY <1>1, <1>2, SavedStays, MemoryStays, SeenStays DEF LossInv, TypeInv, TypeOK
<1>4. Draining'
  BY <1>2 DEF Draining
<1> QED
  BY <1>3, <1>4 DEF LossInv

LEMMA LossInit == Init => LossInv
<1> SUFFICES ASSUME Init PROVE LossInv
  OBVIOUS
<1>1. TypeInv
  BY InitOK DEF IInv
<1>2. RunningLen \in Nat
  BY <1>1, TwoFiles, LenBounds DEF RunningLen, Positions
<1> QED
  BY <1>2, TwoFiles
  DEF Init, StoreInit, Nothing, LossInv, Memory, Saved, Seen, Draining, NoListing, Never

LEMMA LossStep == IInv /\ IInv' /\ LossInv /\ [Next]_vars => LossInv'
<1> SUFFICES ASSUME IInv, IInv', LossInv, [Next]_vars PROVE LossInv'
  OBVIOUS
<1>1. TypeInv /\ StoreTypeOK /\ Grows
  BY Growth DEF IInv, StoreInv
<1> QED
  BY <1>1, ServerKeeps, DiscoverKeeps, SkipKeeps, BeginKeeps, PullKeeps, WriteKeeps,
     SaveKeeps, SweepKeeps, FailKeeps, CrashKeeps
  DEF Next, Worker, Failure

(* The running log makes up for what the realtime log lost to truncation   *)
(* (worker.go:340-345): no line behind its checkpoint, as it is used or as *)
(* the next process finds it, is left unshipped, however many calls fail,  *)
(* processes die and checkpoints expire, in every backend of the store.    *)
THEOREM NoErrorIsLost == Spec => []NoErrorLost
<1>1. Spec => []LossInv
  BY LossInit, LossStep, AlwaysIInv, PTL DEF Spec
<1>2. LossInv => NoErrorLost
  <2> SUFFICES ASSUME LossInv, NEW c \in {cached[Running], stored[Running]}, c # NotFound,
                      NEW l \in Lines(Running, 1, c.marker)
               PROVE  got[l] > 0 \/ l \in leftOut
    BY DEF NoErrorLost, Passed, Get, SqliteGet, CachedGet
  <2>1. Covered(c.marker)
    BY DEF LossInv, Saved
  <2> QED
    BY <2>1 DEF Covered, Done, Lines
<1> QED
  BY <1>1, <1>2, PTL
-----------------------------------------------------------------------------
(* Duplicates are paid for.  A line that the server wrote as number l is   *)
(* the l-th of the two logs together.  At any time it has at most two ways *)
(* left to the sink: the drain of the realtime log (Coming) and that of    *)
(* the running log (Returning).  Debt counts them beside the times the     *)
(* sink got it already.                                                    *)

InOrder ==
    /\ \A i \in 1 .. RunningLen : content[Running][i] = i
    /\ \A i \in 1 .. Len(content[Realtime]) : content[Realtime][i] = RunningLen + i

\* What was read from the realtime log lies before the drain's marker.
Batch ==
    /\ shipped \union drain.pending \subseteq 1 .. written
    /\ file = Running /\ pc = "write" => drain.pending \subseteq 1 .. drain.marker
    /\ file = Realtime /\ pc \in {"write", "save"} =>
         \A l \in shipped \union drain.pending :
            l > RunningLen => l - RunningLen <= drain.marker

\* The running log never shrinks, as far as the worker can see.
NeverShrinks ==
    /\ cached[Running] # NotFound => cached[Running].size <= RunningLen
    /\ stored[Running] # NotFound => stored[Running].size <= RunningLen
    /\ pc # "idle" /\ Get(Running) # NotFound => Get(Running).size <= listing[Running].size

\* The checkpoint of f is there to stay and not before position n.
Stands(f, n) == Get(f) # NotFound /\ f \notin stale /\ n <= Get(f).marker

\* The process shipped l from the realtime log and will not read it there again.
Settled(l) ==
    /\ l \in shipped
    /\ IF file = Realtime /\ pc \in {"pull", "write", "save"}
       THEN /\ pc = "pull"  => drain.dedupe \/ l - RunningLen <= drain.marker
            /\ pc = "write" => l \notin drain.pending
       ELSE Stands(Realtime, l - RunningLen)

Coming(l) == \/ file = Realtime /\ pc = "write" /\ l \in drain.pending
             \/ l > RunningLen /\ ~Settled(l)

\* l lies before the position that the running log is read from.
Behind(l) == IF file = Running /\ pc \in {"pull", "write", "save"}
             THEN l <= drain.marker
             ELSE Stands(Running, l)

Returning(l) == \/ file = Running /\ pc = "write" /\ l \in drain.pending
                \/ /\ ~Behind(l)
                   /\ \/ l \in forgotten
                      \/ ~Coming(l) /\ l \notin Remembered

Owes(l) == got[l] + (IF Coming(l) THEN 1 ELSE 0) + (IF Returning(l) THEN 1 ELSE 0)
             <= 1 + faults + (IF l \in forgotten THEN 1 ELSE 0)

Debt == \A l \in Ids : Owes(l)

DebtInv == InOrder /\ Batch /\ NeverShrinks /\ Debt

LEMMA GetAfterSet ==
    ASSUME StoreTypeOK, NEW f \in Files, NEW c, Set(f, c) \/ SetError(f, c)
    PROVE  /\ \A g \in Files \ {f} : Get(g)' = Get(g)
           /\ Set(f, c) => Get(f)' = c
           /\ SetError(f, c) => Get(f)' \in {Get(f), c}
<1>1. CASE Set(f, c)
  <2>1. Get(f)' = c /\ \A g \in Files \ {f} : Get(g)' = Get(g)
    BY <1>1 DEF StoreTypeOK, Set, SqliteSet, FileSet, MemorySet, Get, SqliteGet, CachedGet
  <2> QED
    BY <2>1
<1>2. CASE SetError(f, c)
  <2>1. Get(f)' \in {Get(f), c} /\ \A g \in Files \ {f} : Get(g)' = Get(g)
    BY <1>2 DEF StoreTypeOK, SetError, SqliteSetError, FileSetError, Get, SqliteGet, CachedGet
  <2>2. Set(f, c) => Get(f)' = c
    BY DEF StoreTypeOK, Set, SqliteSet, FileSet, MemorySet, Get, SqliteGet, CachedGet
  <2> QED
    BY <2>1, <2>2
<1> QED
  BY <1>1, <1>2

LEMMA InOrderStep == TypeInv /\ InOrder /\ [Next]_vars => InOrder'
<1> SUFFICES ASSUME TypeInv, InOrder, [Next]_vars PROVE InOrder'
  OBVIOUS
<1>1. /\ content[Realtime] \in Seq(Ids) /\ content[Running] \in Seq(Ids)
      /\ Len(content[Realtime]) \in Nat /\ RunningLen \in Nat
      /\ Len(content[Realtime]) + RunningLen = written
  <2>1. /\ content[Realtime] \in Seq(Ids) /\ content[Running] \in Seq(Ids)
        /\ Len(content[Realtime]) \in Nat /\ Len(content[Running]) \in Nat
    BY TwoFiles, LenBounds DEF Positions
  <2>2. Len(content[Realtime]) + Len(content[Running]) = written
    BY DEF TypeInv, Lengths
  <2> QED
    BY <2>1, <2>2 DEF RunningLen
<1>2. CASE WriteLine
  <2>1. /\ content'[Running] = content[Running]
        /\ content'[Realtime] = Append(content[Realtime], written + 1)
    BY <1>2, TwoFiles, ErrorLogsAssumption DEF WriteLine, TypeInv, TypeOK
  <2>2. /\ Len(content'[Realtime]) = Len(content[Realtime]) + 1
        /\ content'[Realtime][Len(content[Realtime]) + 1] = written + 1
        /\ \A i \in 1 .. Len(content[Realtime]) : content'[Realtime][i] = content[Realtime][i]
    <3>1. written + 1 \in Ids
      BY <1>2, ErrorLogsAssumption DEF WriteLine, Ids, TypeInv, TypeOK, Positions
    <3> QED
      BY <1>1, <2>1, <3>1, AppendProperties
  <2>3. ASSUME NEW i \in 1 .. Len(content'[Realtime]) PROVE content'[Realtime][i] = RunningLen + i
    <3>1. CASE i = Len(content[Realtime]) + 1
      BY <1>1, <2>2, <3>1
    <3>2. CASE i # Len(content[Realtime]) + 1
      <4>1. i \in 1 .. Len(content[Realtime])
        BY <1>1, <2>2, <3>2
      <4> QED
        BY <2>2, <4>1 DEF InOrder
    <3> QED
      BY <3>1, <3>2
  <2> QED
    BY <2>1, <2>3 DEF InOrder, RunningLen
<1>3. CASE Copy /\ content[Realtime] # << >>
  <2> DEFINE both == content[Running] \o content[Realtime]
  <2>1. content'[Realtime] = << >> /\ content'[Running] = both
    BY <1>3, ErrorLogsAssumption DEF Copy
  <2>2. /\ Len(both) = RunningLen + Len(content[Realtime])
        /\ \A i \in 1 .. Len(both) : both[i] = IF i <= RunningLen THEN content[Running][i]
                                               ELSE content[Realtime][i - RunningLen]
    <3>1. /\ Len(both) = Len(content[Running]) + Len(content[Realtime])
          /\ \A i \in 1 .. Len(content[Running]) + Len(content[Realtime]) :
                both[i] = IF i <= Len(content[Running]) THEN content[Running][i]
                          ELSE content[Realtime][i - Len(content[Running])]
      BY <1>1, ConcatProperties
    <3> QED
      BY <3>1 DEF RunningLen
  <2> HIDE DEF both
  <2>3. ASSUME NEW i \in 1 .. Len(both) PROVE both[i] = i
    <3>1. CASE i <= RunningLen
      BY <1>1, <2>2, <3>1 DEF InOrder
    <3>2. CASE ~(i <= RunningLen)
      <4>1. i - RunningLen \in 1 .. Len(content[Realtime])
        BY <1>1, <2>2, <3>2
      <4>2. both[i] = RunningLen + (i - RunningLen)
        BY <2>2, <3>2, <4>1 DEF InOrder
      <4> QED
        BY <1>1, <4>2
    <3> QED
      BY <3>1, <3>2
  <2>4. Len(content'[Realtime]) = 0
    BY <2>1
  <2> QED
    BY <2>1, <2>3, <2>4 DEF InOrder, RunningLen
<1>4. CASE UNCHANGED content
  BY <1>4 DEF InOrder, RunningLen
<1>5. WriteLine \/ (Copy /\ content[Realtime] # << >>) \/ UNCHANGED content
  BY DEF Next, Worker, Failure, vars, serverVars, Copy, Discover, Skip, Begin, Pull, Write, Save,
         Sweep, PullFail, WriteFail, SaveFail, Crash
<1> QED
  BY <1>2, <1>3, <1>4, <1>5

LEMMA Numbers ==
    ASSUME TypeInv
    PROVE  /\ written \in Nat /\ RunningLen \in Nat /\ Len(content[Realtime]) \in Nat
           /\ Len(content[Realtime]) + RunningLen = written
           /\ \A l \in Ids : l \in Nat
           /\ drain.marker \in Nat /\ drain.pending \subseteq Ids /\ shipped \subseteq Ids
           /\ got \in [Ids -> Nat] /\ faults \in Nat
<1>1. Len(content[Realtime]) \in Nat /\ Len(content[Running]) \in Nat
  BY TwoFiles, LenBounds DEF Positions
<1>2. Len(content[Realtime]) + Len(content[Running]) = written
  BY DEF TypeInv, Lengths
<1>3. /\ written \in Nat /\ drain.marker \in Nat /\ drain.pending \subseteq Ids
      /\ shipped \subseteq Ids /\ got \in [Ids -> Nat] /\ faults \in Nat
  BY ErrorLogsAssumption DEF TypeInv, TypeOK, Positions
<1>4. \A l \in Ids : l \in Nat
  BY ErrorLogsAssumption DEF Ids
<1> QED
  BY <1>1, <1>2, <1>3, <1>4 DEF RunningLen

\* What a drain reads is new to the position it reads from.
LEMMA Pulled ==
    ASSUME TypeInv, InOrder, Pull
    PROVE  /\ \A l \in drain'.pending :
                /\ l \in 1 .. written
                /\ drain.dedupe => l \notin shipped
                /\ file = Running  => /\ drain.marker < l /\ l <= RunningLen
                                      /\ l \notin Remembered \/ l \in forgotten'
                /\ file = Realtime => drain.marker < l - RunningLen /\ RunningLen < l
           /\ drain'.marker \in Nat
           /\ file = Running /\ drain.marker <= RunningLen => drain'.marker = RunningLen
           /\ file = Realtime => /\ written - RunningLen <= drain'.marker
                                 /\ forgotten' = forgotten /\ Remembered' = Remembered
           /\ forgotten \subseteq forgotten'
           /\ \A l \in Remembered : l \in Remembered' \/ l \in forgotten'
<1> DEFINE end   == Len(content[file])
           read  == Lines(file, drain.marker + 1, end)
           old   == IF file = Running THEN {l \in Remembered : Age(l) > TTL} ELSE {}
           known == (IF drain.dedupe THEN shipped ELSE {})
                      \union (IF file = Running THEN Remembered \ old ELSE {})
<1>1. PICK mm \in IF drain.marker > end THEN {drain.marker, end} ELSE {end} :
        drain' = [drain EXCEPT !.marker = mm, !.pending = read \ known]
  BY DEF Pull
<1>2. Forget(old)
  BY DEF Pull
<1>3. drain'.marker = mm /\ drain'.pending = read \ known
  BY <1>1 DEF TypeInv, TypeOK
<1>4. file = Running \/ file = Realtime
  BY ErrorLogsAssumption DEF TypeInv, TypeOK
<1>5. \A l \in read : \E i \in drain.marker + 1 .. end : l = content[file][i]
  BY DEF Lines
<1>6. /\ forgotten' = forgotten \union old
      /\ \A l \in Ids : recent'[l] = IF l \in old THEN Never ELSE recent[l]
  BY <1>2 DEF Forget
<1>7. Remembered' = Remembered \ old
  BY <1>6, Zenon DEF Remembered
<1>8. \A l \in read \ known : /\ drain.dedupe => l \notin shipped
                              /\ file = Running => l \notin Remembered \/ l \in old
  OBVIOUS
<1>9. file = Realtime => old = {}
  BY ErrorLogsAssumption
<1>10. end \in Nat /\ mm \in Nat /\ drain.marker \in Nat
  BY <1>1, <1>4, Numbers DEF RunningLen
<1>11. ASSUME NEW l \in read
       PROVE  /\ l \in 1 .. written
              /\ file = Running  => drain.marker < l /\ l <= RunningLen
              /\ file = Realtime => drain.marker < l - RunningLen /\ RunningLen < l
  <2>1. PICK i \in drain.marker + 1 .. end : l = content[file][i]
    BY <1>5
  <2>2. CASE file = Running
    <3>1. i \in 1 .. RunningLen
      BY <1>10, <2>2 DEF RunningLen
    <3>2. l = i
      BY <2>1, <2>2, <3>1 DEF InOrder
    <3>3. drain.marker < i /\ i \in Nat /\ i <= RunningLen /\ 0 < i
      BY <1>10, <3>1
    <3>4. /\ RunningLen \in Nat /\ Len(content[Realtime]) \in Nat
          /\ Len(content[Realtime]) + RunningLen = written
      BY Numbers
    <3> HIDE DEF end, read, old, known
    <3>5. l \in 1 .. written /\ drain.marker < l /\ l <= RunningLen
      BY <1>10, <3>2, <3>3, <3>4
    <3> QED
      BY <2>2, <3>5, ErrorLogsAssumption
  <2>3. CASE file = Realtime
    <3>1. i \in 1 .. Len(content[Realtime])
      BY <1>10, <2>3
    <3>2. l = RunningLen + i
      BY <2>1, <2>3, <3>1 DEF InOrder
    <3>3. drain.marker < i /\ i \in Nat /\ i <= Len(content[Realtime]) /\ 0 < i
      BY <1>10, <3>1
    <3>4. /\ RunningLen \in Nat /\ Len(content[Realtime]) \in Nat
          /\ Len(content[Realtime]) + RunningLen = written
      BY Numbers
    <3> HIDE DEF end, read, old, known
    <3>5. l \in 1 .. written /\ drain.marker < l - RunningLen /\ RunningLen < l
      BY <1>10, <3>2, <3>3, <3>4
    <3> QED
      BY <2>3, <3>5, ErrorLogsAssumption
  <2> QED
    BY <1>4, <2>2, <2>3
<1>12. file = Running => end = RunningLen
  BY DEF RunningLen
<1> HIDE DEF end, read, old, known
<1>13. file = Running /\ drain.marker <= RunningLen => mm = RunningLen
  BY <1>1, <1>10, <1>12
<1>14. file = Realtime => written - RunningLen <= mm
  <2> SUFFICES ASSUME file = Realtime PROVE written - RunningLen <= mm
    OBVIOUS
  <2>1. end = Len(content[Realtime])
    BY DEF end
  <2>2. end <= mm
    BY <1>1, <1>10
  <2> QED
    BY <1>10, <2>1, <2>2, Numbers
<1> QED
  BY <1>3, <1>6, <1>7, <1>8, <1>9, <1>10, <1>11, <1>13, <1>14

LEMMA BatchStays ==
    ASSUME TypeInv, Batch, Grows, written' \in Nat, written <= written',
           shipped' = shipped, file' = file, pc' = pc, drain' = drain
    PROVE  Batch'
<1>1. \A l \in shipped \union drain.pending : l \in Nat
  BY Numbers
<1>2. /\ RunningLen \in Nat /\ RunningLen' \in Nat /\ RunningLen <= RunningLen'
      /\ written \in Nat /\ drain.marker \in Nat
  BY Numbers DEF Grows
<1> QED
  BY <1>1, <1>2 DEF Batch

LEMMA BatchStep == TypeInv /\ TypeInv' /\ InOrder /\ Batch /\ [Next]_vars => Batch'
<1> SUFFICES ASSUME TypeInv, TypeInv', InOrder, Batch, [Next]_vars PROVE Batch'
  OBVIOUS
<1>1. Grows
  BY Growth
<1>2. written \in Nat
  BY Numbers
<1>3. CASE WriteLine \/ Copy \/ Sweep \/ UNCHANGED vars
  <2>1. /\ written' \in Nat /\ written <= written'
        /\ shipped' = shipped /\ file' = file /\ pc' = pc /\ drain' = drain
    <3>1. CASE WriteLine
      BY <1>2, <3>1 DEF WriteLine, processVars, pollVars
    <3>2. CASE Copy
      BY <1>2, <3>2 DEF Copy, processVars, pollVars
    <3>3. CASE Sweep
      BY <1>2, <3>3 DEF Sweep, serverVars, pollVars
    <3>4. CASE UNCHANGED vars
      BY <1>2, <3>4 DEF vars, serverVars, processVars, pollVars
    <3> QED
      BY <1>3, <3>1, <3>2, <3>3, <3>4
  <2> QED
    BY <1>1, <2>1, BatchStays
<1>4. CASE Discover \/ Begin \/ Skip \/ Save \/ PullFail \/ WriteFail \/ SaveFail \/ Crash
  <2>1. pc' \in {"idle", "get", "pull"} /\ drain'.pending \subseteq drain.pending
    <3>1. pc' \in {"idle", "get", "pull"}
      BY <1>4 DEF Discover, Begin, Skip, Save, PullFail, WriteFail, SaveFail, Crash, NextFile
    <3>2. NextFile \/ Crash => drain'.pending = {}
      BY DEF Crash, NextFile, NoDrain
    <3>3. Begin => drain'.pending = {}
      BY DEF Begin, NoDrain
    <3>4. Discover => drain' = drain
      BY DEF Discover
    <3> QED
      BY <1>4, <3>1, <3>2, <3>3, <3>4 DEF Skip, Save, PullFail, WriteFail, SaveFail
  <2>2. shipped' \subseteq shipped /\ written' = written
    BY <1>4 DEF Discover, Begin, Skip, Save, PullFail, WriteFail, SaveFail, Crash,
                serverVars, processVars
  <2> QED
    BY <2>1, <2>2 DEF Batch
<1>5. CASE Pull
  <2>1. /\ UNCHANGED <<shipped, written, file>> /\ RunningLen' = RunningLen
        /\ pc' = "write"
    BY <1>5 DEF Pull, serverVars, RunningLen
  <2>2. file = Running => drain'.pending \subseteq 1 .. drain'.marker
    <3> SUFFICES ASSUME file = Running, NEW l \in drain'.pending PROVE l \in 1 .. drain'.marker
      OBVIOUS
    <3>1. l \in 1 .. written /\ drain.marker < l /\ l <= RunningLen
      BY <1>5, Pulled
    <3>2. drain.marker \in Nat /\ RunningLen \in Nat /\ written \in Nat
      BY Numbers
    <3>3. drain'.marker = RunningLen
      BY <1>5, <3>1, <3>2, Pulled
    <3> QED
      BY <3>1, <3>2, <3>3
  <2>3. file = Realtime => \A l \in shipped \union drain'.pending :
                              l > RunningLen => l - RunningLen <= drain'.marker
    <3> SUFFICES ASSUME file = Realtime, NEW l \in shipped \union drain'.pending
                 PROVE  l - RunningLen <= drain'.marker
      OBVIOUS
    <3>1. l \in 1 .. written
      BY <1>5, Pulled DEF Batch
    <3>2. written - RunningLen <= drain'.marker /\ drain'.marker \in Nat
      BY <1>5, Pulled
    <3> QED
      BY <3>1, <3>2, Numbers
  <2>4. shipped \union drain'.pending \subseteq 1 .. written
    BY <1>5, Pulled DEF Batch
  <2> QED
    BY <2>1, <2>2, <2>3, <2>4, ErrorLogsAssumption DEF Batch
<1>6. CASE Write
  <2>1. UNCHANGED <<written, file, drain>> /\ RunningLen' = RunningLen /\ pc = "write" /\ pc' = "save"
    BY <1>6 DEF Write, serverVars, RunningLen
  <2>2. shipped' \subseteq shipped \union drain.pending
    BY <1>6 DEF Write
  <2> QED
    BY <2>1, <2>2 DEF Batch
<1> QED
  BY <1>3, <1>4, <1>5, <1>6 DEF Next, Worker, Failure

LEMMA NeverShrinksStep ==
    TypeInv /\ TypeInv' /\ StoreTypeOK /\ Seen /\ NeverShrinks /\ [Next]_vars => NeverShrinks'
<1> SUFFICES ASSUME TypeInv, TypeInv', StoreTypeOK, Seen, NeverShrinks, [Next]_vars
             PROVE  NeverShrinks'
  OBVIOUS
<1>1. Grows
  BY Growth
<1>2. RunningLen \in Nat /\ RunningLen' \in Nat /\ RunningLen <= RunningLen'
  BY <1>1 DEF Grows
<1>3. /\ cached[Running] # NotFound => cached[Running].size \in Nat
      /\ stored[Running] # NotFound => stored[Running].size \in Nat
      /\ Get(Running) \in {cached[Running], stored[Running]}
      /\ listing[Running].size \in Nat
  <2>1. /\ cached[Running] # NotFound => cached[Running] \in Checkpoints
        /\ stored[Running] # NotFound => stored[Running] \in Checkpoints
    BY TwoFiles DEF StoreTypeOK
  <2>2. \A c \in Checkpoints : c.size \in Nat
    BY ErrorLogsAssumption DEF Positions
  <2>3. Get(Running) \in {cached[Running], stored[Running]}
    BY DEF Get, SqliteGet, CachedGet
  <2>4. listing[Running].size \in Nat
    BY TwoFiles DEF TypeInv, TypeOK, Positions
  <2> QED
    BY <2>1, <2>2, <2>3, <2>4
<1>4. CASE UNCHANGED <<backend, cached, stored, pc, listing>>
  BY <1>2, <1>3, <1>4 DEF NeverShrinks, Get, SqliteGet, CachedGet
<1>5. CASE Discover
  <2>1. UNCHANGED <<backend, cached, stored>> /\ RunningLen' = RunningLen
    BY <1>5 DEF Discover, storeVars, serverVars, RunningLen
  <2>2. listing'[Running].size = RunningLen
    BY <1>5, TwoFiles DEF Discover, Sizes, RunningLen
  <2>3. Get(Running)' = Get(Running)
    BY <2>1 DEF Get, SqliteGet, CachedGet
  <2> QED
    BY <1>3, <2>1, <2>2, <2>3 DEF NeverShrinks
<1>6. CASE Begin \/ Pull \/ Write \/ PullFail \/ WriteFail
  <2>1. UNCHANGED <<backend, cached, stored>> /\ RunningLen' = RunningLen /\ pc # "idle"
    BY <1>6 DEF Begin, Pull, Write, PullFail, WriteFail, storeVars, serverVars, RunningLen
  <2>2. listing' = listing \/ pc' = "idle"
    BY <1>6 DEF Begin, Pull, Write, PullFail, WriteFail, NextFile
  <2>3. Get(Running)' = Get(Running)
    BY <2>1 DEF Get, SqliteGet, CachedGet
  <2> QED
    BY <2>1, <2>2, <2>3 DEF NeverShrinks
<1>7. CASE Skip \/ Save \/ SaveFail
  <2>1. PICK new \in Checkpoints :
          /\ Set(file, new) \/ SetError(file, new)
          /\ new.size = listing[file].size
    <3>1. CASE Skip
      BY <3>1, SkipStep DEF Entry
    <3>2. CASE Save \/ SaveFail
      BY <3>2, SaveStep DEF Save, SaveFail, SetFresh, Entry
    <3> QED
      BY <1>7, <3>1, <3>2
  <2>2. file \in Files /\ RunningLen' = RunningLen /\ pc # "idle" /\ NextFile
    BY <1>7 DEF Skip, Save, SaveFail, serverVars, RunningLen, TypeInv, TypeOK
  <2>3. {cached'[Running], stored'[Running]} \subseteq
           {cached[Running], stored[Running]} \union (IF file = Running THEN {new} ELSE {})
    BY <2>1, <2>2, TwoFiles, StoreHolds
  <2>4. listing[Running].size <= RunningLen
    BY DEF Seen
  <2>5. /\ cached'[Running] # NotFound => cached'[Running].size <= RunningLen
        /\ stored'[Running] # NotFound => stored'[Running].size <= RunningLen
    BY <2>1, <2>3, <2>4 DEF NeverShrinks
  <2>6. pc' # "idle" => Get(Running)' = Get(Running) /\ listing' = listing
    <3> SUFFICES ASSUME pc' # "idle" PROVE Get(Running)' = Get(Running) /\ listing' = listing
      OBVIOUS
    <3>1. file = Realtime /\ listing' = listing
      BY <2>2 DEF NextFile
    <3>2. Running \in Files \ {file}
      BY <3>1, ErrorLogsAssumption
    <3> QED
      BY <2>1, <2>2, <3>1, <3>2, GetAfterSet
  <2> QED
    BY <2>2, <2>5, <2>6 DEF NeverShrinks
<1>8. CASE Sweep
  <2>1. /\ cached' = cached /\ backend' = backend /\ stored'[Running] \in {stored[Running], NotFound}
        /\ backend = "sqlite"
    BY <1>8, TwoFiles DEF Sweep, Prune
  <2>2. UNCHANGED <<pc, listing>> /\ RunningLen' = RunningLen
    BY <1>8 DEF Sweep, pollVars, serverVars, RunningLen
  <2> QED
    BY <2>1, <2>2 DEF NeverShrinks, Get, SqliteGet
<1>9. CASE Crash
  <2>1. {cached'[Running], stored'[Running]} \subseteq {cached[Running], stored[Running], NotFound}
    BY <1>9, TwoFiles DEF Crash, Reopen, SqliteOpen, FileOpen, MemoryNew, Nothing
  <2>2. pc' = "idle" /\ RunningLen' = RunningLen
    BY <1>9 DEF Crash, serverVars, RunningLen
  <2> QED
    BY <2>1, <2>2 DEF NeverShrinks
<1>10. CASE WriteLine \/ Copy \/ UNCHANGED vars
  BY <1>4, <1>10 DEF WriteLine, Copy, vars, storeVars, pollVars
<1> QED
  BY <1>5, <1>6, <1>7, <1>8, <1>9, <1>10 DEF Next, Worker, Failure

\* A step that opens no new way for l keeps its account.
LEMMA DebtKept ==
    ASSUME TypeInv, TypeInv', NEW l \in Ids, Owes(l),
           got'[l] = got[l], faults <= faults', l \in forgotten => l \in forgotten',
           Coming(l)' => Coming(l),
           Returning(l)' => \/ Returning(l)
                            \/ Coming(l) /\ ~Coming(l)'
                            \/ l \in forgotten' /\ l \notin forgotten
    PROVE  Owes(l)'
<1>1. got[l] \in Nat /\ faults \in Nat /\ faults' \in Nat
  BY Numbers, ErrorLogsAssumption DEF TypeInv, TypeOK
<1>2. got[l] + (IF Coming(l) THEN 1 ELSE 0) + (IF Returning(l) THEN 1 ELSE 0)
        <= 1 + faults + (IF l \in forgotten THEN 1 ELSE 0)
  BY DEF Owes
<1>3. got'[l] + (IF Coming(l)' THEN 1 ELSE 0) + (IF Returning(l)' THEN 1 ELSE 0)
        <= 1 + faults' + (IF l \in forgotten' THEN 1 ELSE 0)
  BY <1>1, <1>2
<1> QED
  BY <1>3 DEF Owes

\* A failure opens at most one.
LEMMA DebtPaid ==
    ASSUME TypeInv, TypeInv', NEW l \in Ids, Owes(l), Fault,
           got'[l] = got[l], l \in forgotten => l \in forgotten',
           Coming(l)' /\ Returning(l)' => Coming(l) \/ Returning(l)
    PROVE  Owes(l)'
<1>1. got[l] \in Nat /\ faults \in Nat /\ faults' = faults + 1
  BY Numbers DEF Fault
<1>2. got[l] + (IF Coming(l) THEN 1 ELSE 0) + (IF Returning(l) THEN 1 ELSE 0)
        <= 1 + faults + (IF l \in forgotten THEN 1 ELSE 0)
  BY DEF Owes
<1>3. got'[l] + (IF Coming(l)' THEN 1 ELSE 0) + (IF Returning(l)' THEN 1 ELSE 0)
        <= 1 + faults' + (IF l \in forgotten' THEN 1 ELSE 0)
  BY <1>1, <1>2
<1> QED
  BY <1>3 DEF Owes


LEMMA ServerDebt ==
    ASSUME TypeInv, TypeInv', Batch, Debt, Grows, NEW l \in Ids, WriteLine \/ Copy
    PROVE  Owes(l)'
<1>1. /\ UNCHANGED <<backend, cached, stored, stale, shipped, pc, file, drain, recent, got>>
      /\ UNCHANGED <<forgotten, faults>>
  BY DEF WriteLine, Copy, storeVars, processVars, pollVars, histVars
<1>2. Get(Realtime)' = Get(Realtime) /\ Get(Running)' = Get(Running)
  BY <1>1 DEF Get, SqliteGet, CachedGet
<1>3. Behind(l)' = Behind(l) /\ Remembered' = Remembered
  BY <1>1, <1>2 DEF Behind, Stands, Remembered
<1>4. RunningLen' = RunningLen \/ (RunningLen' = written /\ RunningLen <= written)
  <2>1. CASE content'[Running] = content[Running]
    BY <2>1 DEF RunningLen
  <2>2. CASE Copy /\ content[Realtime] # << >>
    <3>1. content'[Running] = content[Running] \o content[Realtime]
      BY <2>2, ErrorLogsAssumption DEF Copy
    <3>2. content[Running] \in Seq(Ids) /\ content[Realtime] \in Seq(Ids)
      BY TwoFiles, LenBounds
    <3>3. Len(content'[Running]) = Len(content[Running]) + Len(content[Realtime])
      BY <3>1, <3>2, ConcatProperties
    <3>4. RunningLen' = RunningLen + Len(content[Realtime])
      BY <3>3 DEF RunningLen
    <3> QED
      BY <3>4, Numbers
  <2> QED
    BY <2>1, <2>2, TwoFiles, ErrorLogsAssumption DEF WriteLine, Copy, TypeInv, TypeOK
<1>5. Coming(l)' => Coming(l)
  <2>1. CASE RunningLen' = RunningLen
    BY <1>1, <1>2, <2>1 DEF Coming, Settled, Stands
  <2>2. CASE RunningLen' = written /\ RunningLen <= written
    <3>1. l > written => l \notin shipped
      BY Numbers DEF Batch
    <3>2. l > written => l > RunningLen
      BY <2>2, Numbers
    <3> QED
      BY <1>1, <2>2, <3>1, <3>2 DEF Coming, Settled
  <2> QED
    BY <1>4, <2>1, <2>2
<1>6. Returning(l)' => Returning(l) \/ (Coming(l) /\ ~Coming(l)')
  BY <1>1, <1>3 DEF Returning
<1>7. Owes(l) /\ faults <= faults'
  BY <1>1, Numbers DEF Debt
<1> QED
  BY <1>1, <1>5, <1>6, <1>7, DebtKept

LEMMA DiscoverDebt ==
    ASSUME TypeInv, TypeInv', Debt, NEW l \in Ids, Discover
    PROVE  Owes(l)'
<1>1. /\ UNCHANGED <<backend, cached, stored, stale, shipped, content, recent, got>>
      /\ UNCHANGED <<forgotten, faults>> /\ pc = "idle" /\ pc' = "get"
  BY DEF Discover, storeVars, serverVars
<1>2. Get(Realtime)' = Get(Realtime) /\ Get(Running)' = Get(Running) /\ RunningLen' = RunningLen
  BY <1>1 DEF Get, SqliteGet, CachedGet, RunningLen
<1>3. Coming(l)' = Coming(l)
  BY <1>1, <1>2 DEF Coming, Settled, Stands
<1>4. Returning(l)' = Returning(l)
  BY <1>1, <1>2, <1>3 DEF Returning, Behind, Stands, Remembered
<1>5. Owes(l) /\ faults <= faults'
  BY <1>1, Numbers DEF Debt
<1> QED
  BY <1>1, <1>3, <1>4, <1>5, DebtKept

LEMMA SkipDebt ==
    ASSUME TypeInv, TypeInv', StoreTypeOK, Debt, NEW l \in Ids, Skip
    PROVE  Owes(l)'
<1>1. PICK c \in Checkpoints : Set(file, c) \/ SetError(file, c)
  BY SkipStep
<1>2. /\ UNCHANGED <<shipped, content, recent, got, forgotten>>
      /\ pc = "get" /\ pc' \in {"get", "idle"} /\ Get(file) = NotFound /\ stale' \subseteq stale
      /\ file \in Files
  BY DEF Skip, SetFresh, NextFile, serverVars, TypeInv, TypeOK
<1>3. \A g \in Files \ {file} : Get(g)' = Get(g)
  BY <1>1, <1>2, GetAfterSet
<1>4. ASSUME NEW g \in Files, NEW n, Stands(g, n) PROVE Stands(g, n)'
  BY <1>2, <1>3, <1>4 DEF Stands
<1>5. RunningLen' = RunningLen /\ Remembered' = Remembered
  BY <1>2 DEF RunningLen, Remembered
<1>6. Settled(l) => Settled(l)'
  <2>1. Stands(Realtime, l - RunningLen) => Stands(Realtime, l - RunningLen)'
    BY <1>4, <1>5, TwoFiles DEF Stands
  <2> QED
    BY <1>2, <2>1 DEF Settled
<1>7. Behind(l) => Behind(l)'
  BY <1>2, <1>4, TwoFiles DEF Behind
<1>8. Coming(l)' => Coming(l)
  BY <1>2, <1>5, <1>6 DEF Coming
<1>9. Returning(l)' => Returning(l) \/ (Coming(l) /\ ~Coming(l)')
  BY <1>2, <1>5, <1>7 DEF Returning
<1>10. Owes(l) /\ faults <= faults'
  BY Numbers DEF Debt, Skip, Fault
<1> QED
  BY <1>2, <1>8, <1>9, <1>10, DebtKept

LEMMA BeginDebt ==
    ASSUME TypeInv, TypeInv', Seen, NeverShrinks, Debt, NEW l \in Ids, Begin
    PROVE  Owes(l)'
<1>1. /\ UNCHANGED <<backend, cached, stored, stale, shipped, content, recent, got>>
      /\ UNCHANGED <<forgotten, faults, file>> /\ pc = "get" /\ pc' = "pull"
  BY DEF Begin, storeVars, serverVars, processVars
<1>2. Get(Realtime)' = Get(Realtime) /\ Get(Running)' = Get(Running) /\ RunningLen' = RunningLen
  BY <1>1 DEF Get, SqliteGet, CachedGet, RunningLen
<1>3. /\ drain'.dedupe = Shrank(file)
      /\ Get(file) # NotFound /\ ~Shrank(file) => drain'.marker = Get(file).marker
  BY DEF Begin, NoDrain
<1>4. ~Shrank(Running)
  <2>1. Get(Running) # NotFound => Get(Running).size \in Nat
    <3>1. Get(Running) # NotFound => Get(Running) \in Checkpoints
      BY TwoFiles DEF TypeInv, TypeOK, StoreTypeOK, Get, SqliteGet, CachedGet
    <3> QED
      BY <3>1, ErrorLogsAssumption DEF Positions
  <2>2. listing[Running].size \in Nat
    BY TwoFiles DEF TypeInv, TypeOK, Positions
  <2> QED
    BY <1>1, <2>1, <2>2 DEF Shrank, NeverShrinks
<1>5. Settled(l) => Settled(l)'
  BY <1>1, <1>2, <1>3 DEF Settled, Stands
<1>6. Behind(l) => Behind(l)'
  BY <1>1, <1>2, <1>3, <1>4 DEF Behind, Stands
<1>7. Coming(l)' => Coming(l)
  BY <1>1, <1>2, <1>5 DEF Coming
<1>8. Returning(l)' => Returning(l) \/ (Coming(l) /\ ~Coming(l)')
  BY <1>1, <1>6 DEF Returning, Remembered
<1>9. Owes(l) /\ faults <= faults'
  BY <1>1, Numbers DEF Debt
<1> QED
  BY <1>1, <1>7, <1>8, <1>9, DebtKept

LEMMA PullDebt ==
    ASSUME TypeInv, TypeInv', InOrder, Draining, Debt, NEW l \in Ids, Pull
    PROVE  Owes(l)'
<1>1. /\ UNCHANGED <<backend, cached, stored, stale, shipped, content, got, faults, file>>
      /\ pc = "pull" /\ pc' = "write" /\ forgotten \subseteq forgotten'
  BY Pulled DEF Pull, storeVars, serverVars
<1>2. Get(Realtime)' = Get(Realtime) /\ Get(Running)' = Get(Running) /\ RunningLen' = RunningLen
  BY <1>1 DEF Get, SqliteGet, CachedGet, RunningLen
<1>3. Owes(l) /\ faults <= faults'
  BY <1>1, Numbers DEF Debt
<1>4. CASE file = Realtime
  <2>1. file # Running
    BY <1>4, ErrorLogsAssumption
  <2>2. l \in drain'.pending => l > RunningLen /\ ~Settled(l)
    <3>1. l \in drain'.pending => /\ drain.dedupe => l \notin shipped
                                  /\ drain.marker < l - RunningLen /\ RunningLen < l
      BY <1>4, Pulled
    <3> QED
      BY <1>1, <1>4, <3>1, Numbers DEF Settled
  <2>3. Coming(l)' => Coming(l)
    BY <1>1, <1>2, <1>4, <2>2 DEF Coming, Settled
  <2>4. Behind(l)' = Behind(l)
    BY <1>1, <1>2, <2>1 DEF Behind, Stands
  <2>5. forgotten' = forgotten /\ Remembered' = Remembered
    BY <1>4, Pulled
  <2>6. Returning(l)' => Returning(l) \/ (Coming(l) /\ ~Coming(l)')
    BY <1>1, <2>1, <2>4, <2>5 DEF Returning
  <2> QED
    BY <1>1, <1>3, <2>3, <2>6, DebtKept
<1>5. CASE file = Running
  <2>1. file # Realtime
    BY <1>5, ErrorLogsAssumption
  <2>2. drain.marker <= RunningLen /\ drain'.marker = RunningLen
    BY <1>1, <1>5, Pulled, Numbers DEF Draining, Covered
  <2>3. Coming(l)' = Coming(l)
    BY <1>1, <1>2, <2>1 DEF Coming, Settled, Stands
  <2>4. l \in drain'.pending =>
          /\ ~Behind(l) /\ ~Coming(l)
          /\ l \notin Remembered \/ l \in forgotten'
    <3>1. l \in drain'.pending =>
            /\ drain.marker < l /\ l <= RunningLen
            /\ l \notin Remembered \/ l \in forgotten'
      BY <1>5, Pulled
    <3> QED
      BY <1>1, <1>5, <2>1, <3>1, Numbers DEF Behind, Coming
  <2>5. Behind(l) => Behind(l)'
    BY <1>1, <1>5, <2>2, Numbers DEF Behind
  <2>6. l \in Remembered => l \in Remembered' \/ l \in forgotten'
    BY Pulled
  <2>7. Returning(l)' => Returning(l) \/ (Coming(l) /\ ~Coming(l)')
                           \/ (l \in forgotten' /\ l \notin forgotten)
    BY <1>1, <2>1, <2>3, <2>4, <2>5, <2>6 DEF Returning
  <2> QED
    BY <1>1, <1>3, <2>3, <2>7, DebtKept
<1> QED
  BY <1>4, <1>5, ErrorLogsAssumption DEF TypeInv, TypeOK

\* A line of the batch is remembered, or it is counted as forgotten.
LEMMA RememberedOrForgotten ==
    ASSUME TypeInv, rememberErrors
    PROVE  /\ forgotten \subseteq forgotten'
           /\ \A l \in Remembered \union drain.pending : l \in Remembered' \/ l \in forgotten'
<1> DEFINE over == Cardinality(Remembered) + Cardinality(drain.pending) > RecentMax
           aged == IF over THEN {l \in Remembered : 4 * Age(l) > TTL} ELSE {}
           room == RecentMax - Cardinality(Remembered \ aged)
<1>1. PICK fit \in SUBSET drain.pending :
         /\ recent' = [l \in Ids |-> IF l \in fit THEN clock
                                     ELSE IF l \in aged THEN Never ELSE recent[l]]
         /\ forgotten' = forgotten \union aged \union (drain.pending \ fit)
  <2> HIDE DEF aged, over
  <2> QED BY Zenon DEF rememberErrors, aged, over
<1> HIDE DEF aged, over
<1>2. clock # Never
  BY ErrorLogsAssumption DEF TypeInv, TypeOK, Periods, Never
<1>3. drain.pending \subseteq Ids /\ Remembered \subseteq Ids
  BY Numbers DEF Remembered
<1>4. ASSUME NEW l \in Remembered \union drain.pending, l \notin forgotten'
      PROVE  recent'[l] # Never
  <2>1. l \in Ids /\ l \notin aged /\ (l \in drain.pending => l \in fit)
    BY <1>1, <1>3, <1>4
  <2>2. l \notin fit => recent[l] # Never
    BY <1>4, <2>1 DEF Remembered
  <2> QED
    BY <1>1, <1>2, <2>1, <2>2
<1> QED
  BY <1>1, <1>3, <1>4 DEF Remembered

LEMMA WriteDebt ==
    ASSUME TypeInv, TypeInv', Batch, Debt, NEW l \in Ids, Write
    PROVE  Owes(l)'
<1>1. /\ UNCHANGED <<backend, cached, stored, stale, content, faults, file, drain>>
      /\ pc = "write" /\ pc' = "save"
  BY DEF Write, storeVars, serverVars
<1>2. Get(Realtime)' = Get(Realtime) /\ Get(Running)' = Get(Running) /\ RunningLen' = RunningLen
  BY <1>1 DEF Get, SqliteGet, CachedGet, RunningLen
<1>3. got'[l] = got[l] + IF l \in drain.pending THEN 1 ELSE 0
  BY DEF Write, Deliver
<1>4. Owes(l) /\ faults <= faults' /\ got[l] \in Nat /\ faults \in Nat
  BY <1>1, Numbers DEF Debt
<1>5. CASE file = Realtime
  <2>1. file # Running
    BY <1>5, ErrorLogsAssumption
  <2>2. Behind(l)' = Behind(l)
    BY <1>1, <1>2, <2>1 DEF Behind, Stands
  <2>3. /\ l \in forgotten => l \in forgotten'
        /\ l \in Remembered \union drain.pending => l \in Remembered' \/ l \in forgotten'
    BY <1>5, RememberedOrForgotten DEF Write
  <2>4. Settled(l)' <=> l \in shipped \union drain.pending
    BY <1>1, <1>5 DEF Settled, Write
  <2>5. Coming(l)' => l \notin drain.pending /\ l > RunningLen /\ l \notin shipped
    BY <1>1, <1>2, <2>4 DEF Coming
  <2>6. Coming(l)' => Coming(l)
    BY <2>5 DEF Coming, Settled
  <2>7. Returning(l)' => ~Behind(l) /\ (l \in forgotten' \/ (~Coming(l)' /\ l \notin Remembered'))
    BY <1>1, <2>1, <2>2 DEF Returning
  <2>8. CASE l \notin drain.pending
    <3>1. Returning(l)' => \/ Returning(l)
                           \/ Coming(l) /\ ~Coming(l)'
                           \/ l \in forgotten' /\ l \notin forgotten
      BY <2>3, <2>7 DEF Returning
    <3> QED
      BY <1>3, <1>4, <2>3, <2>6, <2>8, <3>1, DebtKept
  <2>9. CASE l \in drain.pending
    <3>1. Coming(l) /\ ~Coming(l)'
      BY <1>1, <1>5, <2>5, <2>9 DEF Coming
    <3>2. Returning(l)' => l \in forgotten' /\ (l \in forgotten => Returning(l))
      BY <2>3, <2>7, <2>9 DEF Returning
    <3>3. got[l] + 1 + (IF Returning(l) THEN 1 ELSE 0) <= 1 + faults + (IF l \in forgotten THEN 1 ELSE 0)
      BY <1>4, <3>1 DEF Owes
    <3>4. got'[l] + 0 + (IF Returning(l)' THEN 1 ELSE 0)
            <= 1 + faults' + (IF l \in forgotten' THEN 1 ELSE 0)
      BY <1>1, <1>3, <1>4, <2>3, <2>9, <3>2, <3>3
    <3> QED
      BY <3>1, <3>4 DEF Owes
  <2> QED
    BY <2>8, <2>9
<1>6. CASE file = Running
  <2>1. file # Realtime /\ UNCHANGED <<recent, forgotten, shipped>>
    BY <1>6, ErrorLogsAssumption DEF Write
  <2>2. Coming(l)' = Coming(l)
    BY <1>1, <1>2, <2>1 DEF Coming, Settled, Stands
  <2>3. Behind(l)' = Behind(l) /\ Remembered' = Remembered
    BY <1>1, <1>6, <2>1 DEF Behind, Remembered
  <2>4. CASE l \notin drain.pending
    <3>1. Returning(l)' => Returning(l)
      BY <1>1, <2>1, <2>2, <2>3, <2>4 DEF Returning
    <3> QED
      BY <1>3, <1>4, <2>1, <2>2, <2>4, <3>1, DebtKept
  <2>5. CASE l \in drain.pending
    <3>1. Behind(l) /\ Returning(l)
      BY <1>1, <1>6, <2>5, Numbers DEF Behind, Returning, Batch
    <3>2. ~Returning(l)'
      BY <1>1, <2>3, <3>1 DEF Returning
    <3>3. got[l] + (IF Coming(l) THEN 1 ELSE 0) + 1 <= 1 + faults + (IF l \in forgotten THEN 1 ELSE 0)
      BY <1>4, <3>1 DEF Owes
    <3>4. got'[l] + (IF Coming(l)' THEN 1 ELSE 0) + 0
            <= 1 + faults' + (IF l \in forgotten' THEN 1 ELSE 0)
      BY <1>1, <1>3, <1>4, <2>1, <2>2, <2>5, <3>3
    <3> QED
      BY <3>2, <3>4 DEF Owes
  <2> QED
    BY <2>4, <2>5
<1> QED
  BY <1>5, <1>6, ErrorLogsAssumption DEF TypeInv, TypeOK

LEMMA SaveDebt ==
    ASSUME TypeInv, TypeInv', StoreTypeOK, Batch, Debt, NEW l \in Ids, Save
    PROVE  Owes(l)'
<1>1. /\ UNCHANGED <<shipped, content, recent, got, forgotten, faults>>
      /\ pc = "save" /\ pc' \in {"get", "idle"} /\ stale' = stale \ {file} /\ file \in Files
  BY DEF Save, SetFresh, NextFile, serverVars, histVars, TypeInv, TypeOK
<1>2. PICK c \in Checkpoints : c = Entry(file, drain.marker)
  BY SaveStep
<1>3. c.marker = drain.marker /\ c # NotFound
  BY <1>2, StoreAssumption DEF Entry
<1>4. RunningLen' = RunningLen /\ Remembered' = Remembered
  BY <1>1 DEF RunningLen, Remembered
<1>5. Owes(l) /\ faults <= faults'
  BY <1>1, Numbers DEF Debt
<1>6. /\ file = Realtime => Get(Realtime)' = c
      /\ file = Running => Get(Running)' = c
      /\ file # Realtime => Get(Realtime)' = Get(Realtime)
      /\ file # Running => Get(Running)' = Get(Running)
  <2>1. PICK f \in Files : f = file
    BY <1>1
  <2>2. Set(f, c)
    BY <1>2, <2>1 DEF Save, SetFresh
  <2>3. Get(f)' = c /\ \A g \in Files \ {f} : Get(g)' = Get(g)
    BY <2>2, GetAfterSet
  <2> QED
    BY <2>1, <2>3, TwoFiles
<1>7. Behind(l) => Behind(l)'
  <2>1. CASE file = Running
    <3>1. Behind(l) => l <= drain.marker
      BY <1>1, <2>1 DEF Behind
    <3>2. l <= drain.marker => Stands(Running, l)'
      BY <1>1, <1>3, <1>6, <2>1 DEF Stands
    <3> QED
      BY <1>1, <3>1, <3>2 DEF Behind, Stands
  <2>2. CASE file # Running
    BY <1>1, <1>6, <2>2 DEF Behind, Stands
  <2> QED
    BY <2>1, <2>2
<1>8. Coming(l)' => Coming(l)
  <2>1. CASE file = Realtime
    <3>1. Stands(Realtime, l - RunningLen)' <=> l - RunningLen <= drain.marker
      BY <1>1, <1>3, <1>4, <1>6, <2>1 DEF Stands
    <3>2. l \in shipped /\ l > RunningLen => l - RunningLen <= drain.marker
      BY <1>1, <2>1 DEF Batch
    <3>3. l \in shipped /\ l > RunningLen => Settled(l)'
      BY <1>1, <3>1, <3>2 DEF Settled, Stands
    <3>4. Coming(l)' => l > RunningLen /\ l \notin shipped
      BY <1>1, <1>4, <3>3 DEF Coming
    <3> QED
      BY <3>4 DEF Coming, Settled
  <2>2. CASE file # Realtime
    BY <1>1, <1>4, <1>6, <2>2 DEF Coming, Settled, Stands
  <2> QED
    BY <2>1, <2>2
<1>9. Returning(l)' => Returning(l) \/ (Coming(l) /\ ~Coming(l)')
  BY <1>1, <1>4, <1>7 DEF Returning
<1> QED
  BY <1>1, <1>5, <1>8, <1>9, DebtKept

LEMMA SweepDebt ==
    ASSUME TypeInv, TypeInv', Debt, NEW l \in Ids, Sweep
    PROVE  Owes(l)'
<1>1. /\ UNCHANGED <<shipped, content, recent, got, forgotten, faults, pc, file, drain>>
      /\ stale' = {}
  BY DEF Sweep, serverVars, pollVars, histVars
<1>2. ASSUME NEW g \in Files, g \notin stale PROVE Get(g)' = Get(g)
  BY <1>2 DEF Sweep, Prune, Get, SqliteGet
<1>3. ASSUME NEW g \in Files, NEW n, Stands(g, n) PROVE Get(g)' = Get(g) /\ Stands(g, n)'
  BY <1>1, <1>2, <1>3 DEF Stands
<1>4. RunningLen' = RunningLen /\ Remembered' = Remembered
  BY <1>1 DEF RunningLen, Remembered
<1>5. Settled(l) => Settled(l)'
  <2>1. Stands(Realtime, l - RunningLen) => Stands(Realtime, l - RunningLen)'
    BY <1>3, <1>4, TwoFiles DEF Stands
  <2> QED
    BY <1>1, <1>4, <2>1 DEF Settled
<1>6. Behind(l) => Behind(l)'
  BY <1>1, <1>3, TwoFiles DEF Behind
<1>7. Coming(l)' => Coming(l)
  BY <1>1, <1>4, <1>5 DEF Coming
<1>8. Returning(l)' => Returning(l) \/ (Coming(l) /\ ~Coming(l)')
  BY <1>1, <1>4, <1>6 DEF Returning
<1>9. Owes(l) /\ faults <= faults'
  BY <1>1, Numbers DEF Debt
<1> QED
  BY <1>1, <1>7, <1>8, <1>9, DebtKept

LEMMA FailDebt ==
    ASSUME TypeInv, TypeInv', Debt, NEW l \in Ids, PullFail \/ WriteFail
    PROVE  Owes(l)'
<1>1. /\ UNCHANGED <<backend, cached, stored, stale, shipped, content, recent, forgotten>>
      /\ pc \in {"pull", "write"} /\ pc' \in {"get", "idle"} /\ Fault
  BY DEF PullFail, WriteFail, NextFile, storeVars, serverVars, processVars
<1>2. /\ Get(Realtime)' = Get(Realtime) /\ Get(Running)' = Get(Running)
      /\ RunningLen' = RunningLen /\ Remembered' = Remembered
  BY <1>1 DEF Get, SqliteGet, CachedGet, RunningLen, Remembered
<1>3. Owes(l)
  BY DEF Debt
<1>4. file = Running => (Coming(l)' => Coming(l))
  <2> SUFFICES ASSUME file = Running PROVE Coming(l)' => Coming(l)
    OBVIOUS
  <2>1. file # Realtime
    BY ErrorLogsAssumption
  <2> QED
    BY <1>1, <1>2, <2>1 DEF Coming, Settled, Stands
<1>5. file = Realtime => (Coming(l)' /\ Returning(l)' => Returning(l))
  <2> SUFFICES ASSUME file = Realtime, Coming(l)', Returning(l)' PROVE Returning(l)
    OBVIOUS
  <2>1. file # Running
    BY ErrorLogsAssumption
  <2>2. ~Behind(l)' /\ l \in forgotten
    BY <1>1 DEF Returning
  <2>3. Behind(l)' = Stands(Running, l) /\ Behind(l) = Stands(Running, l)
    BY <1>1, <1>2, <2>1 DEF Behind, Stands
  <2> QED
    BY <2>2, <2>3 DEF Returning
<1>6. file = Realtime \/ file = Running
  BY ErrorLogsAssumption DEF TypeInv, TypeOK
<1>7. CASE got'[l] = got[l]
  BY <1>1, <1>3, <1>4, <1>5, <1>6, <1>7, DebtPaid
<1>8. CASE got'[l] # got[l]
  <2>1. pc = "write" /\ l \in drain.pending /\ got'[l] = got[l] + 1
    BY <1>8, Numbers DEF PullFail, WriteFail, Deliver
  <2>2. got[l] \in Nat /\ faults \in Nat /\ faults' = faults + 1
    BY <1>1, Numbers DEF Fault
  <2>3. IF file = Realtime THEN Coming(l) ELSE Returning(l)
    BY <1>6, <2>1 DEF Coming, Returning
  <2>4. Coming(l)' /\ Returning(l)' => Coming(l) /\ Returning(l)
    BY <1>4, <1>5, <1>6, <2>3, ErrorLogsAssumption
  <2>5. Coming(l) \/ Returning(l)
    BY <1>6, <2>3
  <2>6. got[l] + (IF Coming(l) THEN 1 ELSE 0) + (IF Returning(l) THEN 1 ELSE 0)
          <= 1 + faults + (IF l \in forgotten THEN 1 ELSE 0)
    BY <1>3 DEF Owes
  <2>7. got'[l] + (IF Coming(l)' THEN 1 ELSE 0) + (IF Returning(l)' THEN 1 ELSE 0)
          <= 1 + faults' + (IF l \in forgotten' THEN 1 ELSE 0)
    BY <1>1, <2>1, <2>2, <2>4, <2>5, <2>6
  <2> QED
    BY <2>7 DEF Owes
<1> QED
  BY <1>7, <1>8

LEMMA SaveFailDebt ==
    ASSUME TypeInv, TypeInv', StoreTypeOK, Debt, NEW l \in Ids, SaveFail
    PROVE  Owes(l)'
<1>1. /\ UNCHANGED <<stale, shipped, content, recent, got, forgotten>> /\ Fault
      /\ pc = "save" /\ pc' \in {"get", "idle"} /\ file \in Files
  BY DEF SaveFail, NextFile, serverVars, processVars, TypeInv, TypeOK
<1>2. RunningLen' = RunningLen /\ Remembered' = Remembered
  BY <1>1 DEF RunningLen, Remembered
<1>3. Owes(l)
  BY DEF Debt
<1>4. \A g \in Files \ {file} : Get(g)' = Get(g)
  BY <1>1, GetAfterSet DEF SaveFail
<1>5. CASE file = Running
  <2>1. file # Realtime /\ Get(Realtime)' = Get(Realtime)
    BY <1>4, <1>5, ErrorLogsAssumption
  <2>2. Coming(l)' => Coming(l)
    BY <1>1, <1>2, <2>1 DEF Coming, Settled, Stands
  <2> QED
    BY <1>1, <1>3, <2>2, DebtPaid
<1>6. CASE file = Realtime
  <2>1. file # Running /\ Get(Running)' = Get(Running)
    BY <1>4, <1>6, ErrorLogsAssumption
  <2>2. Behind(l)' = Stands(Running, l) /\ Behind(l) = Stands(Running, l)
    BY <1>1, <2>1 DEF Behind, Stands
  <2>3. Coming(l)' /\ Returning(l)' => Returning(l)
    BY <1>1, <2>2 DEF Returning
  <2> QED
    BY <1>1, <1>3, <2>3, DebtPaid
<1> QED
  BY <1>1, <1>5, <1>6, ErrorLogsAssumption

LEMMA CrashDebt ==
    ASSUME TypeInv, TypeInv', LossInv, Debt, NEW l \in Ids, Crash
    PROVE  Owes(l)'
<1>1. UNCHANGED <<content, got, forgotten>> /\ Fault /\ pc' = "idle"
  BY DEF Crash, serverVars
<1>2. Owes(l) /\ RunningLen' = RunningLen
  BY <1>1 DEF Debt, RunningLen
<1>3. l > RunningLen => ~Behind(l)
  <2> SUFFICES ASSUME l > RunningLen PROVE ~Behind(l)
    OBVIOUS
  <2>1. \A n : Covered(n) => n \in Nat /\ n <= RunningLen
    BY Numbers DEF Covered
  <2>2. ASSUME file = Running, pc \in {"pull", "write", "save"} PROVE ~(l <= drain.marker)
    <3>1. drain.marker \in Nat /\ drain.marker <= RunningLen
      BY <2>1, <2>2, Numbers DEF LossInv, Draining
    <3> QED
      BY <3>1, Numbers
  <2>3. ~Stands(Running, l)
    <3>1. Get(Running) # NotFound => Covered(Get(Running).marker)
      BY DEF LossInv, Saved, Get, SqliteGet, CachedGet
    <3> QED
      BY <2>1, <3>1, Numbers DEF Stands
  <2> QED
    BY <2>2, <2>3 DEF Behind
<1>4. Coming(l)' => l > RunningLen
  BY <1>1, <1>2 DEF Coming
<1>5. Coming(l)' /\ Returning(l)' => Returning(l)
  BY <1>1, <1>3, <1>4 DEF Returning
<1> QED
  BY <1>1, <1>2, <1>5, DebtPaid

LEMMA DebtInit == Init => DebtInv
<1> SUFFICES ASSUME Init PROVE DebtInv
  OBVIOUS
<1>1. TypeInv
  BY InitOK DEF IInv
<1>2. /\ \A f \in Files : cached[f] = NotFound /\ stored[f] = NotFound
      /\ shipped = {} /\ drain.pending = {} /\ pc = "idle" /\ forgotten = {} /\ faults = 0
      /\ \A l \in Ids : got[l] = 0
  BY DEF Init, StoreInit, Nothing, NoDrain
<1>3. InOrder
  <2>1. PICK k \in 0 .. OldLines :
          content = [f \in Files |-> IF f = Running THEN [i \in 1 .. k |-> i]
                                     ELSE [i \in 1 .. OldLines - k |-> k + i]]
    BY DEF Init
  <2>2. /\ content[Running] = [i \in 1 .. k |-> i]
        /\ content[Realtime] = [i \in 1 .. OldLines - k |-> k + i]
    BY <2>1, ErrorLogsAssumption
  <2>3. k \in Nat /\ OldLines - k \in Nat
    BY ErrorLogsAssumption
  <2>4. Len([i \in 1 .. k |-> i]) = k /\ Len([i \in 1 .. OldLines - k |-> k + i]) = OldLines - k
    BY <2>3
  <2> QED
    BY <2>2, <2>4 DEF InOrder, RunningLen
<1>4. Batch /\ NeverShrinks
  BY <1>2, TwoFiles DEF Batch, NeverShrinks
<1>5. ASSUME NEW l \in Ids PROVE Owes(l)
  <2>1. ~(Coming(l) /\ Returning(l))
    BY <1>2 DEF Returning
  <2> QED
    BY <1>2, <2>1 DEF Owes
<1> QED
  BY <1>3, <1>4, <1>5 DEF DebtInv, Debt

LEMMA DebtStep == IInv /\ IInv' /\ LossInv /\ DebtInv /\ [Next]_vars => DebtInv'
<1> SUFFICES ASSUME IInv, IInv', LossInv, DebtInv, [Next]_vars PROVE DebtInv'
  OBVIOUS
<1>1. TypeInv /\ TypeInv' /\ StoreTypeOK /\ Grows
  BY Growth DEF IInv, StoreInv
<1>2. InOrder /\ Batch /\ NeverShrinks /\ Debt /\ Seen /\ Draining
  BY DEF DebtInv, LossInv
<1>3. InOrder' /\ Batch' /\ NeverShrinks'
  BY <1>1, <1>2, InOrderStep, BatchStep, NeverShrinksStep
<1>4. ASSUME NEW l \in Ids PROVE Owes(l)'
  <2>1. CASE UNCHANGED vars
    <3>1. UNCHANGED <<backend, cached, stored, stale, shipped, file, drain, recent, forgotten,
                      content, pc, got, faults>>
      BY <2>1 DEF vars, storeVars, serverVars, processVars, pollVars, histVars
    <3> QED
      BY <1>2, <3>1 DEF Debt, Owes, Coming, Returning, Settled, Behind, Stands, Get, SqliteGet,
                        CachedGet, RunningLen, Remembered
  <2>2. CASE Failure
    BY <1>1, <1>2, <2>2, FailDebt, SaveFailDebt, CrashDebt DEF Failure
  <2>3. CASE Worker
    BY <1>1, <1>2, <2>3, DiscoverDebt, SkipDebt, BeginDebt, PullDebt, WriteDebt, SaveDebt DEF Worker
  <2> QED
    BY <1>1, <1>2, <2>1, <2>2, <2>3, ServerDebt, SweepDebt DEF Next
<1> QED
  BY <1>3, <1>4 DEF DebtInv, Debt

(* It contributes only lines not already shipped (README.md:606): a line   *)
(* that arrives twice is paid for by a failure or a crash, or the set of   *)
(* remembered lines had no room for it or outlived its hour; for any       *)
(* number of lines, any size and time of that set, and any interleaving    *)
(* of the server, the two drains, the sweep and the next process.          *)
THEOREM NoFreeDuplicates == Spec => []DuplicatesNeedFaults
<1>1. Spec => [](IInv /\ LossInv)
  BY LossInit, LossStep, AlwaysIInv, PTL DEF Spec
<1>2. Spec => []DebtInv
  BY <1>1, DebtInit, DebtStep, PTL DEF Spec
<1>3. IInv /\ DebtInv => DuplicatesNeedFaults
  <2> SUFFICES ASSUME IInv, DebtInv, NEW l \in Ids
               PROVE  got[l] <= 1 + faults + IF l \in forgotten THEN 1 ELSE 0
    BY DEF DuplicatesNeedFaults
  <2>1. Owes(l) /\ got[l] \in Nat /\ faults \in Nat
    BY Numbers DEF DebtInv, Debt, IInv
  <2> QED
    BY <2>1 DEF Owes
<1> QED
  BY <1>1, <1>2, <1>3, PTL
-----------------------------------------------------------------------------
(* What start_from = end leaves alone.  Until a process takes Running for  *)
(* a new file, every position it is read from, and every one a next        *)
(* process may find, lies behind the lines first seen in it.               *)

PastHistory(n) == \A l \in history : l <= n

Discovered ==
    /\ pc # "idle" => initial # Undiscovered
    /\ initial # Undiscovered /\ from = "end" => initial = Files \/ horizon # Never
    /\ from # "end" => history = {}

SavedPast ==
    /\ Get(Running) # NotFound => PastHistory(Get(Running).marker)
    /\ stored[Running] # NotFound =>
         backend # "memory" /\ Get(Running) # NotFound /\ PastHistory(stored[Running].marker)

Untouched ==
    /\ \A l \in history : got[l] = 0
    /\ PastHistory(RunningLen)
    /\ SavedPast
    /\ pc # "idle" => PastHistory(listing[Running].size)
    /\ initial = Files => PastHistory(initialSize[Running])
    /\ file = Running /\ pc \in {"pull", "write", "save"} => PastHistory(drain.marker)
    /\ pc = "write" => drain.pending \intersect history = {}

HistoryInv == Discovered /\ (orphaned \/ Untouched)

LEMMA DiscoveredStep == TypeInv /\ Discovered /\ [Next]_vars => Discovered'
<1> SUFFICES ASSUME TypeInv, Discovered, [Next]_vars PROVE Discovered'
  OBVIOUS
<1>1. CASE Discover
  <2>1. from' = from /\ (from # "end" => history' = {})
    BY <1>1, ErrorLogsAssumption DEF Discover, Discovered, discovered, Undiscovered
  <2>2. initial' # Undiscovered
    <3>1. {} # Undiscovered /\ Files # Undiscovered
      BY ErrorLogsAssumption DEF Undiscovered
    <3> QED
      BY <1>1, <3>1 DEF Discover, discovered
  <2>3. from = "end" => initial' = Files \/ horizon' # Never
    <3>1. CASE initial # Undiscovered
      BY <1>1, <3>1 DEF Discover, discovered, Discovered
    <3>2. CASE initial = Undiscovered /\ Known = {}
      BY <1>1, <3>2 DEF Discover
    <3>3. CASE initial = Undiscovered /\ Known # {}
      <4> SUFFICES ASSUME from = "end" PROVE horizon' # Never
        OBVIOUS
      <4>1. horizon' = CHOOSE t \in Periods :
                          /\ \E f \in Known : Get(f).lastWritten = t
                          /\ \A f \in Known : Get(f).lastWritten <= t
        BY <1>1, <3>3, Zenon DEF Discover
      <4>2. horizon' \in Periods
        BY <3>3, <4>1, HorizonOK
      <4> QED
        BY <4>2, ErrorLogsAssumption DEF Periods, Never
    <3> QED
      BY <3>1, <3>2, <3>3
  <2> QED
    BY <2>1, <2>2, <2>3 DEF Discovered
<1>2. CASE Crash
  BY <1>2 DEF Crash, Discovered
<1>3. CASE ~Discover /\ ~Crash
  <2>1. UNCHANGED <<initial, horizon, from, history>>
    BY <1>3 DEF Next, Worker, Failure, vars, processVars, discovered, histVars, WriteLine, Copy,
                Skip, Begin, Pull, Write, Save, Sweep, PullFail, WriteFail, SaveFail
  <2>2. pc' # "idle" => pc # "idle"
    BY <1>3 DEF Next, Worker, Failure, vars, pollVars, WriteLine, Copy,
                Skip, Begin, Pull, Write, Save, Sweep, PullFail, WriteFail, SaveFail
  <2> QED
    BY <2>1, <2>2 DEF Discovered
<1> QED
  BY <1>1, <1>2, <1>3

LEMMA OrphansStay == TypeInv /\ [Next]_vars => (orphaned => orphaned')
BY DEF TypeInv, TypeOK, Next, Worker, Failure, vars, histVars, WriteLine, Copy, Discover, Skip,
       Begin, Pull, Write, Save, Sweep, PullFail, WriteFail, SaveFail, Crash

\* The store is given positions behind the history only.
LEMMA SavedPastSet ==
    ASSUME StoreTypeOK, SavedPast, history' = history, NEW f \in Files, NEW c \in Checkpoints,
           Set(f, c) \/ SetError(f, c), f = Running => PastHistory(c.marker)
    PROVE  SavedPast'
<1>1. \A g \in Files : Get(g) = IF backend = "sqlite" THEN stored[g] ELSE cached[g]
  BY DEF Get, SqliteGet, CachedGet
<1>2. Get(Running)' = IF backend' = "sqlite" THEN stored'[Running] ELSE cached'[Running]
  BY DEF Get, SqliteGet, CachedGet
<1>3. backend' = backend
  BY DEF Set, SetError
<1>4. c # NotFound
  BY StoreAssumption
<1>5. CASE f = Running
  <2>1. {cached'[Running], stored'[Running]} \subseteq {cached[Running], stored[Running], c}
    BY <1>5, StoreHolds, TwoFiles
  <2>2. Get(Running)' \in {Get(Running), c}
    BY <1>5, GetAfterSet
  <2>3. stored'[Running] \in {stored[Running], c}
    BY <1>1, <1>5, TwoFiles
    DEF StoreTypeOK, Set, SqliteSet, FileSet, MemorySet, SetError, SqliteSetError, FileSetError
  <2>4. stored'[Running] = c => backend # "memory" /\ Get(Running)' # NotFound
    <3>1. CASE backend = "sqlite"
      BY <1>2, <1>3, <1>4, <3>1
    <3>2. CASE backend = "file"
      <4>1. cached'[Running] = c
        BY <1>5, <3>2, TwoFiles
        DEF StoreTypeOK, Set, SqliteSet, FileSet, MemorySet, SetError, SqliteSetError, FileSetError
      <4> QED
        BY <1>2, <1>3, <1>4, <3>2, <4>1
    <3>3. CASE backend = "memory"
      <4>1. stored' = stored /\ stored[Running] = NotFound
        BY <3>3 DEF Set, SqliteSet, FileSet, MemorySet, SetError, SqliteSetError, FileSetError, SavedPast
      <4> QED
        BY <1>4, <4>1
    <3> QED
      BY <3>1, <3>2, <3>3
    DEF Set, SqliteSet, FileSet, MemorySet, SetError, SqliteSetError, FileSetError
  <2> QED
    BY <1>3, <1>4, <1>5, <2>2, <2>3, <2>4 DEF SavedPast, PastHistory
<1>6. CASE f # Running
  <2>1. Get(Running)' = Get(Running)
    BY <1>6, GetAfterSet, TwoFiles
  <2>2. \/ stored'[Running] = stored[Running]
        \/ stored'[Running] = Get(Running) /\ backend = "file"
    BY <1>1, <1>6, TwoFiles
    DEF StoreTypeOK, Set, SqliteSet, FileSet, MemorySet, SetError, SqliteSetError, FileSetError
  <2> QED
    BY <1>3, <2>1, <2>2 DEF SavedPast, PastHistory
<1> QED
  BY <1>5, <1>6

\* A file drain that ends leaves only what the listing and the store say.
LEMMA UntouchedBetween ==
    ASSUME TypeInv, Untouched, pc # "idle", NextFile, SavedPast',
           UNCHANGED <<content, history, initial, initialSize>>,
           \A l \in history : got'[l] = 0
    PROVE  Untouched'
<1>1. pc' \in {"get", "idle"}
  BY DEF NextFile
<1>2. PastHistory(RunningLen)' /\ (initial' = Files => PastHistory(initialSize[Running])')
  BY DEF Untouched, PastHistory, RunningLen
<1>3. pc' # "idle" => PastHistory(listing[Running].size)'
  <2> SUFFICES ASSUME pc' # "idle" PROVE PastHistory(listing[Running].size)'
    OBVIOUS
  <2>1. listing' = listing
    BY DEF NextFile
  <2> QED
    BY <2>1 DEF Untouched, PastHistory
<1> QED
  BY <1>1, <1>2, <1>3 DEF Untouched

LEMMA ServerUntouched ==
    ASSUME TypeInv, Grows, Untouched, WriteLine \/ Copy \/ Sweep
    PROVE  Untouched'
<1>1. /\ UNCHANGED <<pc, file, listing, drain, initial, initialSize, got, history>>
      /\ history \subseteq Ids
  BY DEF WriteLine, Copy, Sweep, serverVars, processVars, discovered, pollVars, histVars,
         TypeInv, TypeOK
<1>2. PastHistory(RunningLen)'
  <2>1. \A l \in history : l \in Nat
    BY <1>1, Numbers
  <2> QED
    BY <1>1, <2>1 DEF Untouched, PastHistory, Grows
<1>3. SavedPast'
  <2>1. CASE WriteLine \/ Copy
    BY <1>1, <2>1
    DEF WriteLine, Copy, storeVars, Untouched, SavedPast, PastHistory, Get, SqliteGet, CachedGet
  <2>2. CASE Sweep
    <3>1. /\ backend = "sqlite" /\ backend' = backend
          /\ stored'[Running] \in {stored[Running], NotFound}
      BY <2>2, TwoFiles DEF Sweep, Prune
    <3> QED
      BY <1>1, <3>1 DEF Untouched, SavedPast, PastHistory, Get, SqliteGet
  <2> QED
    BY <2>1, <2>2
<1> QED
  BY <1>1, <1>2, <1>3 DEF Untouched, PastHistory

LEMMA DiscoverUntouched ==
    ASSUME TypeInv, TypeInv', InOrder, Untouched, Discover
    PROVE  Untouched'
<1>1. /\ UNCHANGED <<backend, cached, stored, content, got, drain>> /\ pc' = "get"
      /\ file' = Realtime
  BY DEF Discover, storeVars, serverVars
<1>2. Get(Running)' = Get(Running) /\ RunningLen' = RunningLen
  BY <1>1 DEF Get, SqliteGet, CachedGet, RunningLen
<1>3. RunningLen \in Nat
  BY Numbers
<1>4. \A l \in Lines(Running, 1, Len(content[Running])) : l <= RunningLen
  <2> SUFFICES ASSUME NEW i \in 1 .. RunningLen PROVE content[Running][i] <= RunningLen
    BY DEF Lines, RunningLen
  <2> QED
    BY <1>3 DEF InOrder
<1>5. \/ history' = history
      \/ /\ history' = history \union {l \in Lines(Running, 1, Len(content[Running])) : got[l] = 0}
         /\ initial = Undiscovered /\ initial' # {}
  BY DEF Discover
<1>6. /\ \A l \in history' : got[l] = 0
      /\ \A l \in history' : l <= RunningLen
  BY <1>4, <1>5 DEF Untouched, PastHistory
<1>7. listing'[Running].size = RunningLen
  BY TwoFiles DEF Discover, Sizes, RunningLen
<1>8. initial' = Files => \A l \in history' : l <= initialSize'[Running]
  <2>1. CASE initial = Undiscovered
    <3>1. Files # {}
      BY TwoFiles
    <3>2. initial' = Files => initialSize'[Running] = RunningLen
      BY <2>1, <3>1, TwoFiles DEF Discover, Sizes, RunningLen
    <3> QED
      BY <1>6, <3>2
  <2>2. CASE initial # Undiscovered
    BY <2>2 DEF Discover, discovered, Untouched, PastHistory
  <2> QED
    BY <2>1, <2>2
<1>9. SavedPast'
  <2>1. CASE history' = history
    BY <1>1, <1>2, <2>1 DEF Untouched, SavedPast, PastHistory
  <2>2. CASE initial = Undiscovered /\ initial' # {}
    <3>1. Known = {}
      BY <2>2 DEF Discover
    <3>2. Get(Running) = NotFound
      BY <3>1, TwoFiles DEF Known, SqliteList, CachedList, Get, SqliteGet, CachedGet
    <3>3. stored[Running] = NotFound
      BY <3>2 DEF Untouched, SavedPast
    <3> QED
      BY <1>1, <1>2, <3>2, <3>3 DEF SavedPast
  <2> QED
    BY <1>5, <2>1, <2>2
<1> QED
  BY <1>1, <1>2, <1>6, <1>7, <1>8, <1>9 DEF Untouched, PastHistory

LEMMA SkipUntouched ==
    ASSUME TypeInv, StoreTypeOK, Discovered, Untouched, Skip
    PROVE  Untouched'
<1>1. PICK mm \in Tails(file) :
         /\ Entry(file, mm) \in Checkpoints
         /\ Set(file, Entry(file, mm)) \/ SetError(file, Entry(file, mm))
  BY SkipStep
<1>2. /\ UNCHANGED <<content, got, history, initial, initialSize>> /\ NextFile /\ pc = "get"
      /\ file \in Files
  BY DEF Skip, serverVars, discovered, TypeInv, TypeOK
<1>3. file = Running => PastHistory(mm)
  <2> SUFFICES ASSUME file = Running PROVE PastHistory(mm)
    OBVIOUS
  <2>1. /\ PastHistory(RunningLen) /\ PastHistory(listing[Running].size)
        /\ initial = Files => PastHistory(initialSize[Running])
    BY <1>2 DEF Untouched
  <2>2. initial \in {{}, Files}
    BY <1>2 DEF Discovered, TypeInv, TypeOK
  <2> QED
    BY <1>1, <2>1, <2>2 DEF Tails, RunningLen
<1>4. SavedPast'
  <2>1. PICK c \in Checkpoints : c = Entry(file, mm)
    BY <1>1
  <2>2. c.marker = mm
    BY <2>1 DEF Entry
  <2> QED
    BY <1>1, <1>2, <1>3, <2>1, <2>2, SavedPastSet DEF Untouched
<1> QED
  BY <1>2, <1>4, UntouchedBetween DEF Untouched

LEMMA BeginUntouched ==
    ASSUME TypeInv, Seen, NeverShrinks, Discovered, Untouched, Begin, ~orphaned'
    PROVE  Untouched'
<1>1. /\ UNCHANGED <<backend, cached, stored, content, got, history, initial, initialSize>>
      /\ UNCHANGED <<file, listing>> /\ pc = "get" /\ pc' = "pull"
  BY DEF Begin, storeVars, serverVars, processVars, discovered
<1>2. Get(Running)' = Get(Running) /\ RunningLen' = RunningLen
  BY <1>1 DEF Get, SqliteGet, CachedGet, RunningLen
<1>3. file = Running => PastHistory(drain.marker)'
  <2> SUFFICES ASSUME file = Running PROVE PastHistory(drain.marker)'
    OBVIOUS
  <2>1. CASE Get(Running) # NotFound
    <3>1. Get(Running) \in Checkpoints
      BY <2>1, TwoFiles DEF TypeInv, TypeOK, StoreTypeOK, Get, SqliteGet, CachedGet
    <3>2. Get(Running).size \in Nat
      BY <3>1, ErrorLogsAssumption DEF Positions
    <3>3. listing[Running].size \in Nat
      BY TwoFiles DEF TypeInv, TypeOK, Positions
    <3>4. ~Shrank(Running)
      BY <1>1, <2>1, <3>2, <3>3 DEF Shrank, NeverShrinks
    <3>5. drain'.marker = Get(Running).marker
      BY <2>1, <3>4 DEF Begin, NoDrain
    <3> QED
      BY <1>1, <2>1, <3>5 DEF Untouched, SavedPast, PastHistory
  <2>2. CASE Get(Running) = NotFound
    <3>1. startFor(Running) = "beginning"
      BY <2>2 DEF Begin
    <3>2. from = "end" => initial # Files /\ ~(horizon # Never /\ listing[Running].lastWritten <= horizon)
      BY <3>1, TwoFiles DEF startFor
    <3>3. horizon # Never => listing[Running].lastWritten <= horizon
      <4>1. ~(horizon # Never /\ listing[Running].lastWritten > horizon)
        BY <2>2 DEF Begin
      <4>2. listing[Running].lastWritten \in Nat /\ (horizon # Never => horizon \in Nat)
        BY TwoFiles DEF TypeInv, TypeOK, Periods
      <4> QED
        BY <4>1, <4>2
    <3>4. from # "end"
      BY <1>1, <3>2, <3>3 DEF Discovered
    <3> QED
      BY <1>1, <3>4 DEF Discovered, PastHistory
  <2> QED
    BY <2>1, <2>2
<1> QED
  BY <1>1, <1>2, <1>3 DEF Untouched, SavedPast, PastHistory

LEMMA PullUntouched ==
    ASSUME TypeInv, TypeInv', InOrder, Draining, Untouched, Pull
    PROVE  Untouched'
<1>1. /\ UNCHANGED <<backend, cached, stored, content, got, history, initial, initialSize>>
      /\ UNCHANGED <<file, listing>> /\ pc = "pull" /\ pc' = "write"
      /\ history \subseteq Ids
  BY DEF Pull, storeVars, serverVars, discovered, TypeInv, TypeOK
<1>2. Get(Running)' = Get(Running) /\ RunningLen' = RunningLen
  BY <1>1 DEF Get, SqliteGet, CachedGet, RunningLen
<1>3. \A l \in history : l \in Nat /\ l <= RunningLen
  BY <1>1, Numbers DEF Untouched, PastHistory
<1>4. file = Running => PastHistory(drain.marker)'
  <2> SUFFICES ASSUME file = Running PROVE PastHistory(drain.marker)'
    OBVIOUS
  <2>1. drain'.marker = RunningLen
    BY <1>1, Pulled, Numbers DEF Draining, Covered
  <2> QED
    BY <1>1, <1>3, <2>1 DEF PastHistory
<1>5. drain'.pending \intersect history = {}
  <2> SUFFICES ASSUME NEW l \in drain'.pending, l \in history PROVE FALSE
    OBVIOUS
  <2>1. l \in Nat /\ l <= RunningLen
    BY <1>3
  <2>2. CASE file = Running
    <3>1. l <= drain.marker
      BY <1>1, <2>2 DEF Untouched, PastHistory
    <3>2. drain.marker < l
      BY <2>2, Pulled
    <3> QED
      BY <2>1, <3>1, <3>2, Numbers
  <2>3. CASE file = Realtime
    <3>1. RunningLen < l
      BY <2>3, Pulled
    <3> QED
      BY <2>1, <3>1, Numbers
  <2> QED
    BY <2>2, <2>3, ErrorLogsAssumption DEF TypeInv, TypeOK
<1> QED
  BY <1>1, <1>2, <1>4, <1>5 DEF Untouched, SavedPast, PastHistory

\* Nothing of the history is in a batch.
LEMMA HistoryUndelivered ==
    ASSUME TypeInv, Untouched, pc = "write", got' = got \/ Deliver
    PROVE  \A l \in history : got'[l] = 0
BY Numbers DEF Untouched, Deliver, TypeInv, TypeOK

LEMMA WriteUntouched ==
    ASSUME TypeInv, Untouched, Write
    PROVE  Untouched'
<1>1. /\ UNCHANGED <<backend, cached, stored, content, history, initial, initialSize>>
      /\ UNCHANGED <<file, listing, drain>> /\ pc = "write" /\ pc' = "save"
  BY DEF Write, storeVars, serverVars, discovered
<1>2. Get(Running)' = Get(Running) /\ RunningLen' = RunningLen
  BY <1>1 DEF Get, SqliteGet, CachedGet, RunningLen
<1>3. \A l \in history : got'[l] = 0
  BY HistoryUndelivered DEF Write
<1> QED
  BY <1>1, <1>2, <1>3 DEF Untouched, SavedPast, PastHistory

LEMMA SaveUntouched ==
    ASSUME TypeInv, StoreTypeOK, Untouched, Save \/ SaveFail
    PROVE  Untouched'
<1>1. /\ UNCHANGED <<content, got, history, initial, initialSize>> /\ NextFile /\ pc = "save"
      /\ file \in Files
      /\ Set(file, Entry(file, drain.marker)) \/ SetError(file, Entry(file, drain.marker))
  BY DEF Save, SaveFail, SetFresh, serverVars, processVars, discovered, histVars, TypeInv, TypeOK
<1>2. PICK c \in Checkpoints : c = Entry(file, drain.marker)
  BY SaveStep
<1>3. file = Running => PastHistory(c.marker)
  BY <1>1, <1>2 DEF Untouched, Entry
<1>4. SavedPast'
  BY <1>1, <1>2, <1>3, SavedPastSet DEF Untouched
<1> QED
  BY <1>1, <1>4, UntouchedBetween DEF Untouched

LEMMA FailUntouched ==
    ASSUME TypeInv, Untouched, PullFail \/ WriteFail
    PROVE  Untouched'
<1>1. /\ UNCHANGED <<backend, cached, stored, content, history, initial, initialSize>> /\ NextFile
      /\ pc # "idle"
  BY DEF PullFail, WriteFail, storeVars, serverVars, processVars, discovered
<1>2. SavedPast'
  BY <1>1 DEF Untouched, SavedPast, PastHistory, Get, SqliteGet, CachedGet
<1>3. \A l \in history : got'[l] = 0
  BY HistoryUndelivered DEF PullFail, WriteFail, Untouched
<1> QED
  BY <1>1, <1>2, <1>3, UntouchedBetween

LEMMA CrashUntouched ==
    ASSUME TypeInv, Untouched, Crash
    PROVE  Untouched'
<1>1. UNCHANGED <<content, got, history>> /\ pc' = "idle" /\ initial' = Undiscovered
  BY DEF Crash, serverVars
<1>2. Undiscovered # Files
  BY ErrorLogsAssumption DEF Undiscovered
<1>3. SavedPast'
  <2>1. backend' = backend /\ stored' = stored
    BY DEF Crash, Reopen
  <2>2. Get(Running)' \in {stored[Running], NotFound}
        /\ (backend # "memory" => Get(Running)' = stored[Running])
    BY <2>1, TwoFiles
    DEF Crash, Reopen, SqliteOpen, FileOpen, MemoryNew, Nothing, Get, SqliteGet, CachedGet
  <2> QED
    BY <1>1, <2>1, <2>2 DEF Untouched, SavedPast, PastHistory
<1> QED
  BY <1>1, <1>2, <1>3 DEF Untouched, PastHistory, RunningLen

LEMMA HistoryInit == Init => HistoryInv
<1> SUFFICES ASSUME Init PROVE HistoryInv
  OBVIOUS
<1>1. Discovered
  BY DEF Init, Discovered
<1>2. Untouched
  BY TwoFiles DEF Init, StoreInit, Nothing, Untouched, SavedPast, PastHistory, Get, SqliteGet, CachedGet
<1> QED
  BY <1>1, <1>2 DEF HistoryInv

LEMMA HistoryStep ==
    IInv /\ IInv' /\ LossInv /\ InOrder /\ NeverShrinks /\ HistoryInv /\ [Next]_vars => HistoryInv'
<1> SUFFICES ASSUME IInv, IInv', LossInv, InOrder, NeverShrinks, HistoryInv, [Next]_vars
             PROVE  HistoryInv'
  OBVIOUS
<1>1. TypeInv /\ TypeInv' /\ StoreTypeOK /\ Grows
  BY Growth DEF IInv, StoreInv
<1>2. Discovered' /\ (orphaned => orphaned')
  BY <1>1, DiscoveredStep, OrphansStay DEF HistoryInv
<1>3. SUFFICES ASSUME ~orphaned' PROVE Untouched'
  BY <1>2 DEF HistoryInv
<1>4. Discovered /\ Untouched /\ Seen /\ Draining
  BY <1>2, <1>3 DEF HistoryInv, LossInv
<1>5. CASE UNCHANGED vars
  BY <1>4, <1>5
  DEF vars, storeVars, serverVars, processVars, discovered, pollVars, histVars,
      Untouched, SavedPast, PastHistory, RunningLen, Get, SqliteGet, CachedGet
<1>6. CASE WriteLine \/ Copy \/ Sweep
  BY <1>1, <1>4, <1>6, ServerUntouched
<1>7. CASE Worker
  BY <1>1, <1>3, <1>4, <1>7, DiscoverUntouched, SkipUntouched, BeginUntouched, PullUntouched,
     WriteUntouched, SaveUntouched DEF Worker
<1>8. CASE Failure
  BY <1>1, <1>4, <1>8, SaveUntouched, FailUntouched, CrashUntouched DEF Failure
<1> QED
  BY <1>5, <1>6, <1>7, <1>8 DEF Next

(* start_from = end: what the running log held when an instance without    *)
(* checkpoints was first listed is never shipped, in any later process     *)
(* either and over each backend, unless a process finds other checkpoints  *)
(* but none of Running, and Running written to since (worker.go, startFor  *)
(* and the horizon).                                                       *)
THEOREM HistoryIsLeftAlone == Spec => []HistoryStays
<1>1. Spec => [](IInv /\ LossInv)
  BY LossInit, LossStep, AlwaysIInv, PTL DEF Spec
<1>2. Spec => []DebtInv
  BY <1>1, DebtInit, DebtStep, PTL DEF Spec
<1>3. DebtInv => InOrder /\ NeverShrinks
  BY DEF DebtInv
<1>4. Spec => []HistoryInv
  BY <1>1, <1>2, <1>3, HistoryInit, HistoryStep, PTL DEF Spec
<1>5. HistoryInv => HistoryStays
  BY DEF HistoryInv, Untouched, HistoryStays
<1> QED
  BY <1>4, <1>5, PTL
=============================================================================
