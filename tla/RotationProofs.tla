---------------------------- MODULE RotationProofs ----------------------------
(***************************************************************************)
(* Proofs about Rotation, for any number of hours, volume, retention,      *)
(* start_from and number of failures, and any age at which the sweep takes *)
(* a checkpoint.  Nothing is read twice however the log rotates; nothing   *)
(* is passed over as long as it does not rotate where the code relies on   *)
(* its not doing so (Windows = {}).                                        *)
(***************************************************************************)
EXTENDS Rotation, WellFoundedInduction, TLAPS

-----------------------------------------------------------------------------
(* The inductive invariants: Steady holds however the log rotates if no    *)
(* file to be read on gets as old as the sweep's age ("unset"), Exact with *)
(* it if Windows = {}.                                                     *)

None  == base.kind = "none"
Begun == base.kind = "hour"

\* start_from = end applies to the base file and has not been carried out.
Unskipped == None /\ from = "end"

\* The checkpoints say that lines 1 .. ReadTo(h) of hour h are dealt with.
ReadTo(h) ==
    IF row[h] # NoRow THEN row[h]
    ELSE CASE base.kind = "none"  -> 0
           [] base.kind = "begin" -> IF h = live THEN 0 ELSE size[h]
           [] base.kind = "hour"  -> IF h < base.hour THEN size[h]
                                     ELSE IF h = base.hour THEN base.off ELSE 0

\* TypeOK, but for rows past the end of their file.
Types ==
    /\ from \in Froms
    /\ live \in Hours
    /\ size \in [Hours -> Nat]
    /\ \A h \in Hours : size[h] <= Volume[h]
    /\ purged \in 0 .. MaxHours
    /\ base \in [kind : {"none", "begin", "hour"}, hour : 0 .. MaxHours, off : Nat]
    /\ row \in [Hours -> Nat \union {NoRow}]
    /\ pc \in {"idle", "plan", "drain"}
    /\ seen \in [live : 0 .. MaxHours, size : Nat, purged : 0 .. MaxHours]
    /\ anchor \in Nat \union {NoAnchor, Known}
    /\ todo \subseteq Hours
    /\ drains \subseteq Hours \union {Base}
    /\ got \in [Lines -> Nat]
    /\ skipped \subseteq Lines
    /\ gaps \in Nat
    /\ faults \in 0 .. MaxFaults

\* What RDS keeps, and where in it the checkpoints lie.
Server ==
    /\ purged < live
    /\ purged > 0 => live - purged > 1
    /\ live - purged <= Retain + 1
    /\ \A h \in Hours : h > live => size[h] = 0
    /\ seen.live <= live
    /\ \A h \in Hours : h >= seen.live \/ h >= live => row[h] = NoRow
    /\ Begun => base.hour \in 1 .. live

\* Until the skip nothing is read, and the skip will cover all of history.
History ==
    Unskipped =>
        /\ \A l \in Lines : got[l] = 0
        /\ \A h \in Hours : row[h] = NoRow
        /\ anchor # Known
        /\ pc # "idle" => anchor # NoAnchor
        /\ \A l \in skipped :
             /\ Written(l)
             /\ l[1] = live /\ anchor # NoAnchor => l[2] <= anchor
             /\ l[1] = live /\ pc # "idle" => l[2] <= seen.size

\* The checkpoints leave this line, written or still to come, to be read.
Left(l) ==
    /\ l[1] > purged
    /\ l[1] >= live \/ Written(l)
    /\ l[2] > ReadTo(l[1])

\* What the checkpoints leave to be read has not been touched.
Fresh == ~Unskipped => \A l \in Lines : Left(l) => got[l] = 0 /\ l \notin skipped

\* No line is delivered twice, or although start_from = end left it out.
Once == \A l \in Lines : got[l] <= 1 /\ (l \in skipped => got[l] = 0)

\* The hour has a row, or had one before the sweep and has been read.
Planned(h) == row[h] # NoRow \/ (~None /\ ReadTo(h) >= size[h])

\* Hours to be drained are planned, and the base file is past them.
Poll ==
    /\ pc = "plan" => /\ todo \subseteq ListedRotated
                      /\ seen.purged > 0 => seen.live - seen.purged > 1
    /\ pc # "idle" => \A h \in drains \ {Base} : h < seen.live /\ (h > purged => Planned(h))
    /\ pc = "drain" /\ Begun => base.hour >= seen.live

\* Until the base file is handed over, its hour's row and those of later hours
\* are where they were seeded; and the sweep has met none that is needed.
Seeded ==
    /\ forgotten = {}
    /\ \A h \in Hours :
         Begun /\ row[h] # NoRow => /\ h = base.hour => row[h] <= base.off
                                    /\ h > base.hour => row[h] = 0

Steady == Types /\ Server /\ History /\ Fresh /\ Once /\ Poll /\ Seeded

\* No checkpoint is past the end of its file.
Within ==
    /\ \A h \in Hours : row[h] <= size[h]
    /\ Begun => base.off <= size[base.hour]

\* History is all that the anchor saw.
Anchored ==
    Unskipped /\ anchor # NoAnchor =>
        /\ anchor <= size[live]
        /\ \A l \in Lines : (l[1] < live /\ Written(l)) \/ (l[1] = live /\ l[2] <= anchor)
                            => l \in skipped

\* What the checkpoints take as dealt with, is.
Covered ==
    \A l \in Lines :
        l[1] > purged /\ ~Unskipped /\ l[2] <= ReadTo(l[1]) => got[l] > 0 \/ l \in skipped

\* The listing is still true until the base file is in the live hour, and
\* listed hours that are planned already have a row if they are to be read.
HandedOver(h) == \/ None /\ from = "beginning"
                 \/ Begun /\ h >= base.hour /\ (BaseRotated \/ Gap)

Listing ==
    /\ pc = "plan" \/ (pc = "drain" /\ ~Begun) =>
         /\ seen.live = live /\ seen.purged = purged /\ seen.size <= size[live]
         /\ Unskipped => anchor \in 0 .. seen.size
    /\ pc = "plan" => \A h \in Rotated \ todo : HandedOver(h) => Planned(h)
    /\ pc = "drain" /\ None /\ from = "beginning" => \A h \in Rotated : row[h] # NoRow
    /\ pc = "drain" /\ Begun => base.hour > purged

Exact == Within /\ Anchored /\ Covered /\ Listing

-----------------------------------------------------------------------------
(* Lines, hours and checkpoints.                                           *)

\* A line is a position of an hour.
LEMMA LineType ==
    ASSUME NEW l \in Lines
    PROVE  /\ l[1] \in Hours
           /\ l[2] \in Nat /\ 1 <= l[2] /\ l[2] <= Volume[l[1]]
           /\ l = <<l[1], l[2]>>
<1>1. PICK h \in Hours : l \in {h} \X (1 .. Volume[h])
  BY DEF Lines
<1>2. Volume[h] \in Nat
  BY RotationAssumption DEF Hours
<1> QED
  BY <1>1, <1>2

LEMMA LineOf ==
    ASSUME NEW h \in Hours, NEW o \in Nat, o < Volume[h]
    PROVE  <<h, o + 1>> \in Lines
<1>1. o + 1 \in 1 .. Volume[h]
  BY RotationAssumption DEF Hours
<1> QED
  BY <1>1 DEF Lines

\* The oldest hour of a set of hours is one of them.
LEMMA OldestHour ==
    ASSUME NEW T, T \subseteq Hours, T # {}
    PROVE  (CHOOSE k \in T : \A j \in T : k <= j) \in T
<1>1. T \subseteq Nat
  BY RotationAssumption DEF Hours
<1>2. PICK k \in T : \A j \in T : <<j, k>> \notin OpToRel(<, Nat)
  BY <1>1, NatLessThanWellFounded, WFMin, Zenon
<1>3. \A j \in T : ~(j < k)
  BY <1>1, <1>2, Zenon DEF OpToRel
<1>4. \A j \in T : k <= j
  BY <1>1, <1>3
<1> QED
  BY <1>4

\* Before the first listing of the process apart, a base file without a
\* checkpoint is started by start_from.
LEMMA StartFor ==
    ASSUME Types, History, None, pc # "idle"
    PROVE  (startFor = "beginning") <=> (from = "beginning")
BY RotationAssumption DEF Types, History, Unskipped, startFor, NoAnchor, Known

\* What the other proofs use of the types.
LEMMA Typed ==
    ASSUME Types
    PROVE  /\ from \in {"beginning", "end"}
           /\ live \in Hours /\ live \in Nat /\ purged \in Nat
           /\ Hours \subseteq Nat \ {0}
           /\ \A h \in Hours : /\ size[h] \in Nat /\ row[h] \in Int /\ row[h] >= NoRow
                               /\ Volume[h] \in Nat /\ size[h] <= Volume[h]
           /\ base.kind \in {"none", "begin", "hour"} /\ base.hour \in Nat /\ base.off \in Nat
           /\ \A l \in Lines : got[l] \in Nat
           /\ anchor \in Nat \union {NoAnchor, Known}
           /\ NoAnchor = -1 /\ Known = -2 /\ NoRow = -1
           /\ seen.live \in Nat /\ seen.size \in Nat /\ seen.purged \in Nat
           /\ MaxHours \in Nat /\ Retain \in Nat /\ Retain >= 1
BY RotationAssumption DEF Types, Hours, NoRow, NoAnchor, Known

\* A step that gives the sink nothing and leaves no more lines to be read.
LEMMA NothingRead ==
    ASSUME Fresh, Once, ~Unskipped, UNCHANGED <<got, skipped>>,
           \A l \in Lines : Left(l)' => Left(l)
    PROVE  Fresh' /\ Once'
BY DEF Fresh, Once

\* The line that is read next was left to be read, and is not left after.
LEMMA NextRead ==
    ASSUME Steady, ~Unskipped, NEW h \in Hours, h > purged, NEW o \in Nat,
           ReadTo(h) <= o, o < size[h], Give(h, o), skipped' = skipped,
           \A l \in Lines : Left(l)' => Left(l) /\ l # <<h, o + 1>>
    PROVE  Fresh' /\ Once' /\ got' \in [Lines -> Nat]
<1> USE DEF Steady
<1> DEFINE next == <<h, o + 1>>
<1>1. next \in Lines /\ next[1] = h /\ next[2] = o + 1
  BY LineOf, Typed
<1>3. ReadTo(h) \in Int
  BY Typed DEF ReadTo
<1>4. Left(next)
  BY <1>1, <1>3, Typed DEF Left, Written
<1>5. got[next] = 0 /\ next \notin skipped
  BY <1>1, <1>4 DEF Fresh
<1>6. \A l \in Lines : got'[l] = IF l = next THEN 1 ELSE got[l]
  BY <1>1, <1>5 DEF Give, Types
<1>7. got' \in [Lines -> Nat]
  BY <1>1, Typed DEF Give, Types
<1> QED
  BY <1>5, <1>6, <1>7 DEF Fresh, Once

-----------------------------------------------------------------------------
(* However the log rotates: the server.                                    *)

LEMMA InitSteady == Init => Steady
<1> SUFFICES ASSUME Init PROVE Steady
  OBVIOUS
<1> USE DEF Init
<1>1. Types
  <2>1. 1 \in Hours /\ 0 \in 0 .. MaxHours /\ 0 \in 0 .. MaxFaults
    BY RotationAssumption DEF Hours
  <2>2. \A h \in Hours : Volume[h] \in Nat
    BY RotationAssumption DEF Hours
  <2> QED
    BY <2>1, <2>2 DEF Types, Missing, NoRow, NoAnchor
<1>2. Server
  BY RotationAssumption DEF Server, Begun, Missing, Hours
<1>3. History /\ Fresh /\ Once
  BY DEF History, Fresh, Once, NoAnchor, Known
<1>4. Poll /\ Seeded
  BY DEF Poll, Seeded, Begun, Missing
<1> QED
  BY <1>1, <1>2, <1>3, <1>4 DEF Steady

LEMMA AppendSteady ==
    ASSUME Steady, Append
    PROVE  Steady' /\ \A h \in Hours : ReadTo(h)' = ReadTo(h)
<1> USE DEF Steady
<1>1. /\ UNCHANGED <<from, live, purged, base, row, forgotten, pc, seen, anchor, todo,
                     drains, got, skipped, gaps, faults>>
      /\ size' = [size EXCEPT ![live] = @ + 1] /\ size[live] < Volume[live]
  BY DEF Append, rowVars, pollVars, sinkVars
<1>2. \A h \in Hours : size'[h] = IF h = live THEN size[h] + 1 ELSE size[h]
  BY <1>1 DEF Types
<1>3. Types'
  <2>1. size' \in [Hours -> Nat]
    BY <1>1, Typed DEF Types
  <2>2. \A h \in Hours : size[h] \in Nat /\ Volume[h] \in Nat /\ size[h] <= Volume[h]
    BY Typed
  <2>3. \A h \in Hours : size'[h] <= Volume[h]
    BY <1>1, <1>2, <2>2
  <2> QED
    BY <1>1, <2>1, <2>3 DEF Types
<1>4. Server'
  BY <1>1, <1>2, Typed DEF Server, Begun, Hours
<1>5. \A h \in Hours : ReadTo(h)' = ReadTo(h)
  BY <1>1, <1>2, Typed DEF Server, ReadTo, Begun, NoRow
<1>6. \A l \in Lines : Written(l) => Written(l)'
  BY <1>2, LineType, Typed DEF Written
<1>7. \A l \in Lines : Left(l)' => Left(l)
  BY <1>1, <1>2, <1>5, LineType, Typed DEF Left, Written
<1>8. Fresh' /\ Once'
  BY <1>1, <1>7 DEF Fresh, Once, Unskipped, None
<1>9. History'
  <2>1. skipped \subseteq Lines
    BY DEF Types
  <2> QED
    BY <1>1, <1>6, <2>1 DEF History, Unskipped, None
<1>10. Poll'
  <2>1. \A h \in Hours : h < live /\ Planned(h) => Planned(h)'
    BY <1>1, <1>2, <1>5, Typed DEF Planned, None
  <2>2. seen.live <= live
    BY DEF Server
  <2> QED
    BY <1>1, <2>1, <2>2, Typed DEF Poll, ListedRotated, Begun, Types
<1>11. Seeded'
  BY <1>1 DEF Seeded, Begun
<1> QED
  BY <1>3, <1>4, <1>5, <1>8, <1>9, <1>10, <1>11

\* When the hour ends, the checkpoints take as read what they took before, and
\* more of an hour whose file was live.
LEMMA RotateSteady ==
    ASSUME Steady, Rotate
    PROVE  Steady'
<1> USE DEF Steady
<1>1. /\ UNCHANGED <<from, size, base, row, forgotten, pc, seen, anchor, todo,
                     drains, got, skipped, gaps, faults>>
      /\ live < MaxHours /\ live' = live + 1 /\ purged' = Purge
  BY DEF Rotate, pollVars, sinkVars
<1>2. /\ purged <= purged' /\ purged' \in Nat
      /\ purged' < live' /\ live' - purged' <= Retain + 1
      /\ purged' > 0 => live' - purged' > 1
  BY <1>1, Typed DEF Purge, Server
<1>3. Types'
  <2>1. live' \in Hours /\ purged' \in 0 .. MaxHours
    BY <1>1, <1>2, Typed DEF Hours
  <2> QED
    BY <1>1, <2>1 DEF Types
<1>4. Server'
  BY <1>1, <1>2, Typed DEF Server, Begun
<1>5. size[live'] = 0 /\ live' \in Hours
  BY <1>1, Typed DEF Server, Hours
<1>6. \A h \in Hours : ReadTo(h) <= ReadTo(h)' /\ ReadTo(h) \in Int /\ ReadTo(h)' \in Int
  BY <1>1, <1>5, Typed DEF ReadTo, NoRow
<1>7. \A l \in Lines : Left(l)' => Left(l)
  BY <1>1, <1>2, <1>6, LineType, Typed DEF Left, Written
<1>8. Fresh' /\ Once'
  BY <1>1, <1>7 DEF Fresh, Once, Unskipped, None
<1>9. History'
  <2>1. \A l \in Lines : Written(l) => l[1] # live'
    BY <1>5, LineType DEF Written
  <2>2. skipped \subseteq Lines
    BY DEF Types
  <2> QED
    BY <1>1, <2>1, <2>2 DEF History, Unskipped, None, Written
<1>10. Poll'
  <2>1. \A h \in Hours : h > purged' => h > purged
    BY <1>2, Typed
  <2>2. drains \ {Base} \subseteq Hours
    BY DEF Types
  <2>3. \A h \in Hours : Planned(h) => Planned(h)'
    BY <1>1, <1>6, Typed DEF Planned, None
  <2> QED
    BY <1>1, <2>1, <2>2, <2>3 DEF Poll, ListedRotated, Begun
<1>11. Seeded'
  BY <1>1 DEF Seeded, Begun
<1> QED
  BY <1>3, <1>4, <1>8, <1>9, <1>10, <1>11

-----------------------------------------------------------------------------
(* However the log rotates: listing and planning.                          *)

LEMMA DiscoverSteady ==
    ASSUME Steady, Discover
    PROVE  /\ Steady'
           /\ IF Unskipped /\ anchor = NoAnchor
              THEN anchor' = size[live] /\ skipped' = {l \in Lines : Written(l)}
              ELSE skipped' = skipped /\ (Unskipped => anchor' = anchor)
<1> USE DEF Steady
<1>1. /\ UNCHANGED <<from, live, size, purged, base, row, forgotten, got, gaps, faults>>
      /\ pc' = "plan" /\ todo' = Rotated /\ drains' = {}
      /\ seen' = [live |-> live, size |-> size[live], purged |-> purged]
  BY DEF Discover, serverVars, rowVars
<1>2. IF Unskipped /\ anchor = NoAnchor
      THEN anchor' = size[live] /\ skipped' = {l \in Lines : Written(l)}
      ELSE skipped' = skipped /\ (Unskipped => anchor' = anchor) /\ anchor' \in {anchor, Known}
  <2>1. CASE Unskipped /\ anchor = NoAnchor
    BY <2>1 DEF Discover, History, Unskipped, None
  <2>2. CASE ~(Unskipped /\ anchor = NoAnchor)
    BY <2>2 DEF Discover, Unskipped, None
  <2> QED
    BY <2>1, <2>2
<1>3. skipped' \subseteq Lines /\ anchor' \in Nat \union {NoAnchor, Known}
  BY <1>2, Typed DEF Types
<1>4. History' /\ Fresh' /\ Once'
  <2>1. CASE Unskipped /\ anchor = NoAnchor
    <3>1. anchor' \in Nat /\ \A l \in skipped' : l \in Lines /\ l[2] <= size[l[1]]
      BY <1>2, <2>1, Typed DEF Written
    <3>2. \A l \in skipped' : l[1] = live => l[2] <= anchor' /\ l[2] <= seen'.size
      BY <1>1, <1>2, <2>1, <3>1
    <3> QED
      BY <1>1, <2>1, <3>1, <3>2
      DEF History, Fresh, Once, Unskipped, None, Written, NoAnchor, Known
  <2>2. CASE ~(Unskipped /\ anchor = NoAnchor)
    <3>1. History'
      BY <1>1, <1>2, <2>2 DEF History, Unskipped, None, Written
    <3>2. \A l \in Lines : Left(l)' => Left(l)
      BY <1>1 DEF Left, Written, ReadTo
    <3> QED
      BY <1>1, <1>2, <2>2, <3>1, <3>2 DEF Fresh, Once, Unskipped, None
  <2> QED
    BY <2>1, <2>2
<1>5. Types'
  <2>1. /\ seen' \in [live : 0 .. MaxHours, size : Nat, purged : 0 .. MaxHours]
        /\ todo' \subseteq Hours
    BY <1>1, Typed DEF Types, Rotated, Hours
  <2> QED
    BY <1>1, <1>3, <2>1 DEF Types
<1>6. Server' /\ Seeded'
  <2>1. seen'.live = live
    BY <1>1
  <2> QED
    BY <1>1, <2>1, Typed DEF Server, Begun, Seeded
<1>7. Poll'
  <2>1. ListedRotated' = Rotated
    BY <1>1 DEF ListedRotated, Rotated
  <2> QED
    BY <1>1, <2>1, Typed DEF Poll, Server
<1> QED
  BY <1>2, <1>4, <1>5, <1>6, <1>7

\* An hour is seeded where the base file's checkpoint says.
LEMMA PlanHourSteady ==
    ASSUME Steady, PlanHour
    PROVE  /\ Steady'
           /\ \A k \in Hours : ReadTo(k)' = ReadTo(k)
           /\ \E h \in todo :
                /\ todo' = todo \ {h}
                /\ \A k \in Hours : row'[k] = row[k] \/ (k = h /\ row[k] = NoRow /\ row'[k] = Seed(k))
                /\ HandedOver(h) => row'[h] # NoRow
<1> USE DEF Steady
<1> DEFINE h == CHOOSE k \in todo : \A j \in todo : k <= j
           pos == IF row[h] # NoRow THEN row[h] ELSE Seed(h)
<1>1. /\ UNCHANGED <<from, live, size, purged, base, forgotten, pc, seen, anchor, got, skipped,
                     gaps, faults>>
      /\ pc = "plan" /\ todo # {} /\ todo' = todo \ {h}
      /\ row' = [row EXCEPT ![h] = pos]
      /\ drains' \in {drains, drains \union {h}}
      /\ h \in drains' => h \in drains \/ pos # NoRow
  BY DEF PlanHour, serverVars, sinkVars
<1>2. h \in todo
  BY <1>1, OldestHour DEF Types
<1>3. h \in Hours /\ h \in ListedRotated /\ h < seen.live /\ h \in Nat
  BY <1>1, <1>2, Typed DEF Poll, ListedRotated
<1> HIDE DEF h
<1>4. \A k \in Hours : row'[k] = IF k = h THEN pos ELSE row[k]
  BY <1>1 DEF Types
<1>16. None => (startFor = "beginning" <=> from = "beginning")
  BY <1>1, StartFor
<1>5. pos \in Nat \union {NoRow}
  BY <1>3, Typed DEF Seed
<1>6. pos # NoRow => pos = ReadTo(h)
  BY <1>3, Typed DEF Seed, ReadTo
<1>7. Unskipped => row' = row
  <2>1. Unskipped => pos = NoRow /\ row[h] = NoRow
    BY <1>3, <1>16, Typed DEF Unskipped, None, Seed, History
  <2> QED
    BY <1>1, <2>1 DEF Types
<1>8. row[h] # NoRow => pos = row[h]
  OBVIOUS
<1>9. HandedOver(h) => pos # NoRow
  BY <1>3, <1>16, Typed DEF HandedOver, Seed, None, Begun
<1>10. \A k \in Hours : row'[k] = row[k] \/ (k = h /\ row[k] = NoRow /\ row'[k] = Seed(k))
  BY <1>4
<1> HIDE DEF pos
<1>11. Types'
  BY <1>1, <1>2, <1>3, <1>4, <1>5 DEF Types
<1>12. \A k \in Hours : ReadTo(k)' = ReadTo(k)
  BY <1>1, <1>4, <1>6, <1>8, Typed DEF ReadTo
<1>13. Server'
  BY <1>1, <1>3, <1>4, Typed DEF Server, Begun
<1>14. History' /\ Fresh' /\ Once'
  <2>1. \A l \in Lines : Left(l)' => Left(l)
    BY <1>1, <1>12, LineType DEF Left, Written
  <2> QED
    BY <1>1, <1>7, <2>1 DEF History, Fresh, Once, Unskipped, None, Written
<1>15. Poll'
  <2>1. ListedRotated' = ListedRotated
    BY <1>1 DEF ListedRotated
  <2>2. \A k \in Hours : Planned(k) => Planned(k)'
    <3> SUFFICES ASSUME NEW k \in Hours, Planned(k) PROVE Planned(k)'
      OBVIOUS
    <3>1. row[k] # NoRow => row'[k] # NoRow
      BY <1>4, <1>8
    <3>2. ReadTo(k)' = ReadTo(k)
      BY <1>12
    <3> QED
      BY <1>1, <3>1, <3>2 DEF Planned, None
  <2>3. \A k \in Hours : k \in drains' => k \in drains \/ Planned(k)'
    BY <1>1, <1>3, <1>4 DEF Planned
  <2>4. \A k \in drains' \ {Base} : k \in Hours /\ k < seen.live /\ (k > purged => Planned(k)')
    BY <1>1, <1>3, <2>2, <2>3, Typed DEF Poll, Types
  <2> QED
    BY <1>1, <2>1, <2>4 DEF Poll
<1>17. Seeded'
  <2>1. Begun /\ row[h] = NoRow /\ pos # NoRow =>
          (h = base.hour => pos <= base.off) /\ (h > base.hour => pos = 0)
    BY <1>3, <1>6, Typed DEF ReadTo, Begun
  <2>2. \A k \in Hours : row'[k] = row[k] \/ (k = h /\ row[h] = NoRow /\ row'[k] = pos)
    BY <1>4, <1>8
  <2>3. ASSUME NEW k \in Hours, Begun, row'[k] # NoRow
        PROVE  (k = base.hour => row'[k] <= base.off) /\ (k > base.hour => row'[k] = 0)
    <3>1. CASE row'[k] = row[k]
      BY <2>3, <3>1 DEF Seeded
    <3>2. CASE k = h /\ row[h] = NoRow /\ row'[k] = pos
      <4>1. pos # NoRow
        BY <2>3, <3>2
      <4>2. (h = base.hour => pos <= base.off) /\ (h > base.hour => pos = 0)
        BY <2>1, <2>3, <3>2, <4>1 DEF Begun
      <4> QED
        BY <3>2, <4>2
    <3> QED
      BY <2>2, <3>1, <3>2
  <2> QED
    BY <1>1, <2>3 DEF Seeded, Begun
<1> QED
  BY <1>1, <1>2, <1>3, <1>4, <1>9, <1>10, <1>11, <1>12, <1>13, <1>14, <1>15,
     <1>17

\* After the plan of a poll the base file's hour is not one the poll lists as
\* rotated.
LEMMA PlanBaseSteady ==
    ASSUME Steady, PlanBase
    PROVE  Steady'
<1> USE DEF Steady
<1>1. /\ UNCHANGED <<from, live, size, purged, row, forgotten, seen, anchor, todo, got, skipped,
                     faults>>
      /\ pc = "plan" /\ pc' = "drain" /\ todo = {}
      /\ drains' = drains \union {Base}
      /\ gaps' \in Nat
      /\ base' = IF BaseRotated \/ Gap THEN Beginning ELSE base
  BY DEF PlanBase, SetBase, serverVars, sinkVars, Types
<1>2. Types'
  <2>1. Beginning \in [kind : {"none", "begin", "hour"}, hour : 0 .. MaxHours, off : Nat]
    BY Typed DEF Beginning
  <2> QED
    BY <1>1, <2>1 DEF Types
<1>3. Server'
  BY <1>1 DEF Server, Begun, Beginning
<1>4. drains' \ {Base} = drains \ {Base}
  BY <1>1
<1>5. CASE BaseRotated \/ Gap
  <2>1. Begun /\ base.hour < live /\ base'.kind = "begin"
    BY <1>1, <1>5, Typed DEF BaseRotated, Gap, Begun, Beginning, ListedRotated, Server
  <2>2. \A h \in Hours :
          ReadTo(h)' = IF row[h] # NoRow THEN row[h] ELSE IF h = live THEN 0 ELSE size[h]
    BY <1>1, <2>1, Typed DEF ReadTo
  <2>3. \A h \in Hours : h >= live => ReadTo(h) = 0 /\ ReadTo(h)' = 0
    BY <2>1, <2>2, Typed DEF Server, ReadTo, Begun
  <2>4. \A h \in Hours : h < live /\ row[h] # NoRow => ReadTo(h)' = ReadTo(h)
    BY <2>2 DEF ReadTo
  <2>5. \A h \in Hours : h < live /\ row[h] = NoRow => ReadTo(h)' = size[h]
    BY <2>2, Typed
  <2>6. \A l \in Lines : Left(l)' => Left(l)
    BY <1>1, <2>3, <2>4, <2>5, LineType, Typed DEF Left, Written
  <2>7. History' /\ Fresh' /\ Once'
    BY <1>1, <2>1, <2>6 DEF History, Fresh, Once, Unskipped, None, Begun
  <2>8. Poll'
    <3>1. \A h \in Hours : h < live /\ Planned(h) => Planned(h)'
      BY <1>1, <2>1, <2>5, Typed DEF Planned, None
    <3> QED
      BY <1>1, <1>4, <2>1, <3>1, Typed DEF Poll, Begun, Types, Server
  <2>9. Seeded'
    BY <1>1, <2>1 DEF Seeded, Begun
  <2> QED
    BY <1>2, <1>3, <2>7, <2>8, <2>9
<1>6. CASE ~(BaseRotated \/ Gap)
  <2>1. base' = base
    BY <1>1, <1>6
  <2>2. History' /\ Fresh' /\ Once'
    <3>1. \A l \in Lines : Left(l)' => Left(l)
      BY <1>1, <2>1 DEF Left, Written, ReadTo
    <3> QED
      BY <1>1, <2>1, <3>1 DEF History, Fresh, Once, Unskipped, None, Written
  <2>3. Begun => base.hour >= seen.live
    <3> SUFFICES ASSUME Begun, base.hour < seen.live PROVE FALSE
      BY Typed
    <3>1. base.hour \in Hours /\ base.hour <= seen.purged
      BY <1>6, Typed DEF Server, BaseRotated, Begun, Hours, ListedRotated
    <3>2. seen.live - seen.purged > 1 /\ seen.live <= live
      BY <1>1, <3>1, Typed DEF Poll, Server
    <3>3. seen.live - 1 \in ListedRotated /\ base.hour < seen.live - 1
      BY <3>1, <3>2, Typed DEF Hours, ListedRotated
    <3> QED
      BY <1>6, <3>3 DEF Gap, Begun
  <2>4. Poll' /\ Seeded'
    BY <1>1, <1>4, <2>1, <2>3, Typed DEF Poll, Begun, Seeded, Planned, None, ReadTo
  <2> QED
    BY <1>2, <1>3, <2>2, <2>4
<1> QED
  BY <1>5, <1>6

-----------------------------------------------------------------------------
(* However the log rotates: drains.                                        *)

\* The end of a file's drain leaves all but the poll's own state alone.
LEMMA DoneSteady ==
    ASSUME Steady, pc = "drain", NEW f \in drains, Done(f),
           UNCHANGED <<from, live, size, purged, base, row, forgotten, got, skipped, gaps>>,
           faults' \in 0 .. MaxFaults
    PROVE  Steady'
<1> USE DEF Steady
<1>1. /\ drains' \subseteq drains /\ pc' \in {"idle", "drain"}
      /\ UNCHANGED <<seen, anchor, todo>>
  BY DEF Done
<1>2. Types' /\ Server'
  BY <1>1 DEF Types, Server, Begun
<1>3. History' /\ Fresh' /\ Once'
  <2>1. \A l \in Lines : Left(l)' => Left(l)
    BY <1>1 DEF Left, Written, ReadTo
  <2> QED
    BY <1>1, <2>1 DEF History, Fresh, Once, Unskipped, None, Written
<1>4. Poll' /\ Seeded'
  BY <1>1 DEF Poll, Begun, Planned, None, ReadTo, Seeded
<1> QED
  BY <1>2, <1>3, <1>4

\* The next line of an hour with a row.
LEMMA PullHourNext ==
    ASSUME Steady, pc = "drain", NEW h \in drains \ {Base}, h > purged,
           row[h] \in 0 .. size[h] - 1, Give(h, row[h]), SetRow(h, row[h] + 1), UNCHANGED pollVars,
           UNCHANGED <<from, live, size, purged, base, forgotten, skipped, gaps, faults>>
    PROVE  /\ Steady' /\ ~Unskipped /\ ~Unskipped'
           /\ h \in Hours /\ row[h] \in Nat /\ row[h] = ReadTo(h) /\ h < live
           /\ \A k \in Hours : row'[k] = IF k = h THEN row[k] + 1 ELSE row[k]
           /\ \A k \in Hours : ReadTo(k)' = IF k = h THEN row[h] + 1 ELSE ReadTo(k)
<1> USE DEF Steady
<1>1. UNCHANGED <<pc, seen, anchor, todo, drains>> /\ h \in Hours
  BY DEF pollVars, Types
<1>2. /\ row[h] # NoRow /\ row[h] \in Nat /\ row[h] < size[h]
      /\ row[h] = ReadTo(h) /\ h < seen.live
  BY <1>1, Typed DEF Poll, ReadTo, Types
<1>3. \A k \in Hours : row'[k] = IF k = h THEN row[k] + 1 ELSE row[k]
  BY <1>1, Typed DEF Types, SetRow
<1>4. ~Unskipped /\ ~Unskipped'
  BY <1>1, <1>2 DEF History, Unskipped, None
<1>5. \A k \in Hours : ReadTo(k)' = IF k = h THEN row[h] + 1 ELSE ReadTo(k)
  BY <1>1, <1>2, <1>3, Typed DEF ReadTo
<1>6. Fresh' /\ Once' /\ got' \in [Lines -> Nat]
  <2>1. \A l \in Lines : Left(l)' => Left(l) /\ l # <<h, row[h] + 1>>
    BY <1>1, <1>2, <1>5, LineType, Typed DEF Left, Written
  <2> QED
    BY <1>1, <1>2, <1>4, <2>1, NextRead
<1>7. Types'
  <2>1. row' \in [Hours -> Nat \union {NoRow}]
    BY <1>1, <1>2, Typed DEF Types, SetRow
  <2> QED
    BY <1>1, <1>6, <2>1 DEF Types
<1>8. Server'
  BY <1>1, <1>2, <1>3, Typed DEF Server, Begun
<1>9. History'
  BY <1>4 DEF History
<1>10. Poll'
  <2>1. \A k \in Hours : Planned(k) => Planned(k)'
    BY <1>1, <1>2, <1>3, <1>5, Typed DEF Planned, None
  <2> QED
    BY <1>1, <2>1 DEF Poll, Begun, Types
<1>11. Seeded'
  BY <1>1, <1>2, <1>3, Typed DEF Seeded, Poll, Begun
<1> QED
  BY <1>1, <1>2, <1>3, <1>4, <1>5, <1>6, <1>7, <1>8, <1>9, <1>10, <1>11, Typed DEF Server

\* The drain of a retained hour ends: the row is at the file's end, which the
\* checkpoints said before.
LEMMA PullHourEnd ==
    ASSUME Steady, pc = "drain", NEW h \in drains \ {Base}, h > purged,
           row[h] \notin 0 .. size[h] - 1, SetRow(h, size[h]), Done(h), got' = got,
           UNCHANGED <<from, live, size, purged, base, forgotten, skipped, gaps, faults>>
    PROVE  /\ Steady' /\ ~Unskipped /\ ~Unskipped'
           /\ h \in Hours /\ h < live /\ ReadTo(h) >= size[h]
           /\ \A k \in Hours : row'[k] = IF k = h THEN size[h] ELSE row[k]
           /\ \A k \in Hours : ReadTo(k)' = IF k = h THEN size[h] ELSE ReadTo(k)
           /\ UNCHANGED <<seen, anchor, todo>> /\ pc' \in {"idle", "drain"}
<1> USE DEF Steady
<1>1. /\ drains' \subseteq drains /\ pc' \in {"idle", "drain"}
      /\ UNCHANGED <<seen, anchor, todo>> /\ h \in Hours
  BY DEF Done, Types
<1>2. h < seen.live /\ h < live /\ Planned(h)
  BY <1>1, Typed DEF Poll, Server
<1>3. \A k \in Hours : row'[k] = IF k = h THEN size[h] ELSE row[k]
  BY <1>1, Typed DEF Types, SetRow
<1>4. ~Unskipped /\ ~Unskipped'
  BY <1>1, <1>2 DEF History, Unskipped, None, Planned
<1>5. ReadTo(h) >= size[h]
  BY <1>1, <1>2, Typed DEF Planned, ReadTo
<1>6. \A k \in Hours : ReadTo(k)' = IF k = h THEN size[h] ELSE ReadTo(k)
  BY <1>1, <1>3, Typed DEF ReadTo
<1>7. Types'
  <2>1. row' \in [Hours -> Nat \union {NoRow}]
    BY <1>1, Typed DEF Types, SetRow
  <2> QED
    BY <1>1, <2>1 DEF Types
<1>8. Server'
  BY <1>1, <1>2, <1>3, Typed DEF Server, Begun
<1>9. History' /\ Fresh' /\ Once'
  <2>1. \A l \in Lines : Left(l)' => Left(l)
    BY <1>1, <1>2, <1>6, LineType, Typed DEF Left, Written
  <2> QED
    BY <1>4, <2>1 DEF History, Fresh, Once
<1>10. Poll'
  <2>1. \A k \in Hours : Planned(k) => Planned(k)'
    BY <1>1, <1>3, <1>6, Typed DEF Planned, None
  <2> QED
    BY <1>1, <2>1 DEF Poll, Begun, Types
<1>11. Seeded'
  BY <1>1, <1>2, <1>3, Typed DEF Seeded, Poll, Begun
<1> QED
  BY <1>1, <1>2, <1>3, <1>4, <1>5, <1>6, <1>7, <1>8, <1>9, <1>10, <1>11

LEMMA PullHourSteady ==
    ASSUME Steady, PullHour
    PROVE  Steady'
<1>1. PICK h \in drains \ {Base} :
        \/ h > purged /\ row[h] \in 0 .. size[h] - 1 /\ Give(h, row[h])
           /\ SetRow(h, row[h] + 1) /\ UNCHANGED pollVars
        \/ h > purged /\ row[h] \notin 0 .. size[h] - 1 /\ SetRow(h, size[h]) /\ Done(h)
           /\ UNCHANGED got
        \/ Done(h) /\ UNCHANGED <<got, row>>
  BY DEF PullHour
<1>2. pc = "drain" /\ UNCHANGED <<from, live, size, purged, base, forgotten, skipped, gaps, faults>>
  BY DEF PullHour, serverVars
<1>3. faults \in 0 .. MaxFaults
  BY DEF Steady, Types
<1>4. CASE Done(h) /\ UNCHANGED <<got, row>>
  BY <1>1, <1>2, <1>3, <1>4, DoneSteady
<1>5. CASE h > purged /\ row[h] \in 0 .. size[h] - 1 /\ Give(h, row[h])
           /\ SetRow(h, row[h] + 1) /\ UNCHANGED pollVars
  BY <1>2, <1>5, PullHourNext
<1>6. CASE h > purged /\ row[h] \notin 0 .. size[h] - 1 /\ SetRow(h, size[h]) /\ Done(h)
           /\ UNCHANGED got
  BY <1>2, <1>6, PullHourEnd
<1> QED
  BY <1>1, <1>4, <1>5, <1>6

\* start_from = end: the skip covers every line of the live file that is history.
LEMMA SkipBaseSteady ==
    ASSUME Steady, SkipBase
    PROVE  Steady'
<1> USE DEF Steady
<1>1. /\ UNCHANGED <<from, live, size, purged, row, forgotten, got, gaps, faults, seen, anchor,
                     todo>>
      /\ pc = "drain" /\ Unskipped /\ pc' \in {"idle", "drain"} /\ drains' \subseteq drains
      /\ base' = At(live, Tail)
      /\ skipped' = skipped \union {l \in Lines : l[1] = live /\ l[2] <= Tail}
  BY DEF SkipBase, SetBase, startFor, serverVars, Done, Unskipped, None
<1>2. /\ Tail \in Nat
      /\ \A h \in Hours : row[h] = NoRow
      /\ \A l \in Lines : got[l] = 0
      /\ \A l \in skipped : l \in Lines /\ Written(l) /\ (l[1] = live => l[2] <= Tail)
  <2>1. AnchorSize \in Nat /\ Tail \in {AnchorSize, size[live]}
    BY Typed DEF Tail, AnchorSize
  <2>2. \A l \in skipped : l \in Lines /\ Written(l) /\ (l[1] = live => l[2] <= AnchorSize)
    BY <1>1, <2>1, LineType, Typed DEF History, AnchorSize, Types
  <2> QED
    BY <1>1, <2>1, <2>2, Typed DEF History, Written
<1>3. base'.kind = "hour" /\ base'.hour = live /\ base'.off = Tail
  BY <1>1 DEF At
<1>4. Types'
  <2>1. base' \in [kind : {"none", "begin", "hour"}, hour : 0 .. MaxHours, off : Nat]
    BY <1>1, <1>2, Typed DEF At, Hours
  <2> QED
    BY <1>1, <2>1 DEF Types
<1>5. Server'
  BY <1>1, <1>2, <1>3, Typed DEF Server, Begun, Hours
<1>6. History' /\ Once'
  BY <1>1, <1>2, <1>3 DEF History, Once, Unskipped, None
<1>7. Fresh'
  <2> SUFFICES ASSUME NEW l \in Lines, Left(l)'
               PROVE  l \notin skipped'
    BY <1>1, <1>2 DEF Fresh
  <2>1. ReadTo(l[1])' = IF l[1] < live THEN size[l[1]] ELSE IF l[1] = live THEN Tail ELSE 0
    BY <1>1, <1>2, <1>3, LineType, Typed DEF ReadTo
  <2>2. l[1] >= live
    BY <1>1, <2>1, LineType, Typed DEF Left, Written
  <2>3. l[1] > live => size[l[1]] = 0 /\ ~Written(l)
    BY LineType DEF Server, Written
  <2> QED
    BY <1>1, <1>2, <2>1, <2>2, <2>3, LineType, Typed DEF Left
<1>8. Poll'
  <2>1. Begun' /\ base'.hour >= seen.live
    BY <1>3, Typed DEF Server, Begun
  <2>2. \A h \in drains \ {Base} : h <= purged
    BY <1>1, <1>2, Typed DEF Poll, Planned, Unskipped, Types
  <2> QED
    BY <1>1, <2>1, <2>2, Typed DEF Poll, Types
<1>9. Seeded'
  BY <1>1, <1>2 DEF Seeded
<1> QED
  BY <1>4, <1>5, <1>6, <1>7, <1>8, <1>9

\* The base file is read at a position that the checkpoints leave to be read:
\* what they leave after it, that position apart, they left before.
LEMMA ReadFromLeft ==
    ASSUME Steady, pc = "drain", ~Unskipped, NEW o \in Nat, NEW b,
           row' = row, size' = size, live' = live, purged' = purged, base' = b,
           \/ b.kind = "hour" /\ b.hour = ReadFrom.hour /\ b.off = o /\ o >= ReadFrom.off
           \/ b.kind = "begin" /\ ~Begun
    PROVE  \A l \in Lines :
             Left(l)' => Left(l) /\ (b.kind = "hour" /\ l[1] = ReadFrom.hour => l[2] > o)
<1> USE DEF Steady
<1>1. \A h \in Hours : h >= live => row[h] = NoRow
  BY DEF Server
<1>2. CASE ~Begun
  <2>1. ReadFrom = At(live, 0) /\ base.kind \in {"none", "begin"}
    BY <1>2, Typed DEF ReadFrom, Begun
  <2>2. ReadFrom.hour = live /\ ReadFrom.off = 0
    BY <2>1 DEF At
  <2>3. \A h \in Hours : h >= live => ReadTo(h) = 0
    BY <1>1, <2>1, Typed DEF ReadTo, Server
  <2>4. \A h \in Hours : row[h] # NoRow => ReadTo(h)' = ReadTo(h)
    BY DEF ReadTo
  <2>5. \A h \in Hours : row[h] = NoRow /\ h < live => ReadTo(h)' = size[h]
    BY <2>2, Typed DEF ReadTo
  <2>6. b.kind = "hour" => ReadTo(live)' = o
    BY <1>1, <2>2, Typed DEF ReadTo
  <2> QED
    BY <1>1, <2>2, <2>3, <2>4, <2>5, <2>6, LineType, Typed DEF Left, Written
<1>3. CASE Begun
  <2>1. /\ base.kind = "hour" /\ base.hour \in Hours /\ base.hour <= live
        /\ b.kind = "hour" /\ ReadFrom.off \in Nat
        /\ \A h \in Hours : h >= base.hour => row[h] = NoRow
    BY <1>3, Typed DEF Server, Poll, Hours, Begun, ReadFrom, At
  <2>2. \A h \in Hours : row[h] = NoRow =>
          ReadTo(h) = IF h < base.hour THEN size[h] ELSE IF h = base.hour THEN base.off ELSE 0
    BY <2>1, Typed DEF ReadTo
  <2>3. \A h \in Hours : row[h] = NoRow =>
          ReadTo(h)' = IF h < b.hour THEN size[h] ELSE IF h = b.hour THEN o ELSE 0
    BY <2>1, Typed DEF ReadTo
  <2>4. \A h \in Hours : row[h] # NoRow => ReadTo(h)' = ReadTo(h)
    BY DEF ReadTo
  <2>5. CASE b.hour = base.hour /\ base.hour > purged
    <3>1. base.off >= size[base.hour] \/ ReadFrom.off = base.off
      BY <2>1, <2>5 DEF ReadFrom, At
    <3>2. ReadFrom.off = base.off
      BY <2>1, <2>5, <3>1, Typed DEF ReadFrom, At
    <3> QED
      BY <2>1, <2>2, <2>3, <2>4, <2>5, <3>2, LineType, Typed DEF Left, Written
  <2>6. CASE b.hour = live /\ base.hour <= purged
    BY <2>1, <2>2, <2>3, <2>4, <2>6, LineType, Typed DEF Left, Written
  <2>7. CASE b.hour = live /\ base.hour = live - 1 /\ base.off >= size[base.hour]
    BY <2>1, <2>2, <2>3, <2>4, <2>7, LineType, Typed DEF Left, Written
  <2>8. \/ ReadFrom.hour = base.hour /\ base.hour > purged
        \/ ReadFrom.hour = live /\ base.hour <= purged
        \/ ReadFrom.hour = live /\ base.hour = live - 1 /\ base.off >= size[base.hour]
    BY <2>1, Typed DEF ReadFrom, At
  <2> QED
    BY <2>1, <2>5, <2>6, <2>7, <2>8
<1> QED
  BY <1>2, <1>3

LEMMA PullBaseSteady ==
    ASSUME Steady, PullBase
    PROVE  Steady'
<1> USE DEF Steady
<1> DEFINE m == ReadFrom
<1>1. /\ UNCHANGED <<from, live, size, purged, row, forgotten, skipped, gaps, faults, seen,
                     anchor, todo>>
      /\ pc = "drain" /\ pc' \in {"idle", "drain"} /\ drains' \subseteq drains
      /\ ~Unskipped
      /\ \/ m.off < size[m.hour] /\ Give(m.hour, m.off) /\ base' = At(m.hour, m.off + 1)
         \/ got' = got /\ (base' = m \/ (~Begun /\ base' = Beginning))
  <2>1. PullBase /\ pc = "drain"
    BY DEF PullBase
  <2>2. ~Unskipped
    BY <2>1, StartFor DEF PullBase, Unskipped, None
  <2> QED
    BY <2>2 DEF PullBase, SetBase, serverVars, pollVars, Done, Begun
<1>2. /\ m.kind = "hour" /\ m.hour \in Hours /\ m.off \in Nat
      /\ purged < m.hour /\ m.hour <= live /\ m.hour >= seen.live
  <2>1. CASE m = At(live, 0) \/ (Begun /\ m = At(live, base.off))
    BY <2>1, Typed DEF At, Server
  <2>2. CASE Begun /\ m = base /\ base.hour > purged
    BY <1>1, <2>2, Typed DEF Server, Poll, Begun, Hours
  <2>3. m \in {At(live, 0), At(live, base.off), base} /\ (m = base => base.hour > purged)
    BY Typed DEF ReadFrom, Server, At
  <2> QED
    BY <2>1, <2>2, <2>3, Typed DEF ReadFrom, Begun
<1>3. ReadTo(m.hour) <= m.off
  BY <1>1, <1>2, Typed DEF ReadFrom, At, Server, Poll, Begun, ReadTo
<1> HIDE DEF m
<1>4. base' \in [kind : {"none", "begin", "hour"}, hour : 0 .. MaxHours, off : Nat]
  <2>1. m \in [kind : {"none", "begin", "hour"}, hour : 0 .. MaxHours, off : Nat]
    BY Typed DEF m, ReadFrom, At, Types, Hours
  <2> QED
    BY <1>1, <1>2, <2>1, Typed DEF At, Beginning, Hours
<1>5. /\ base'.kind # "none"
      /\ base'.kind = "hour" => base'.hour = m.hour
  BY <1>1, <1>2 DEF At, Beginning
<1>6. ~Unskipped' /\ ~None'
  BY <1>5 DEF Unskipped, None
<1>7. Fresh' /\ Once' /\ got' \in [Lines -> Nat]
  <2>1. CASE m.off < size[m.hour] /\ Give(m.hour, m.off) /\ base' = At(m.hour, m.off + 1)
    <3>1. \A l \in Lines : Left(l)' => Left(l) /\ (l[1] = m.hour => l[2] > m.off + 1)
      BY <1>1, <1>2, <2>1, ReadFromLeft DEF At, m
    <3>2. \A l \in Lines : Left(l)' => Left(l) /\ l # <<m.hour, m.off + 1>>
      BY <1>2, <3>1
    <3> QED
      BY <1>1, <1>2, <1>3, <2>1, <3>2, NextRead
  <2>2. CASE got' = got /\ base' = m
    <3>1. \A l \in Lines : Left(l)' => Left(l)
      BY <1>1, <1>2, <2>2, ReadFromLeft DEF m
    <3> QED
      BY <1>1, <2>2, <3>1, NothingRead DEF Types
  <2>3. CASE got' = got /\ ~Begun /\ base' = Beginning
    <3>1. \A l \in Lines : Left(l)' => Left(l)
      BY <1>1, <1>2, <2>3, ReadFromLeft DEF Beginning, m
    <3> QED
      BY <1>1, <2>3, <3>1, NothingRead DEF Types
  <2> QED
    BY <1>1, <2>1, <2>2, <2>3
<1>8. Types'
  BY <1>1, <1>4, <1>7 DEF Types
<1>9. Server'
  BY <1>1, <1>2, <1>5, Typed DEF Server, Begun, Hours
<1>10. History'
  BY <1>6 DEF History
<1>11. Poll'
  <2>1. \A h \in Hours : h < seen.live /\ Planned(h) => Planned(h)'
    BY <1>1, <1>2, <1>4, <1>5, <1>6, Typed DEF Planned, ReadTo, Server
  <2> QED
    BY <1>1, <1>2, <1>5, <2>1, Typed DEF Poll, Begun, Types
<1>12. Seeded'
  BY <1>1, <1>2, <1>5, Typed DEF Seeded, Server, Begun
<1> QED
  BY <1>7, <1>8, <1>9, <1>10, <1>11, <1>12

-----------------------------------------------------------------------------
(* However the log rotates: the sweep and the failures.                    *)

\* The sweep removes the row of an hour that the checkpoints take as read to
\* its end without that row too.
LEMMA SweepSteady ==
    ASSUME "unset" \notin Windows, Steady, Sweep
    PROVE  /\ Steady'
           /\ UNCHANGED <<from, live, size, purged, base, pc, seen, anchor, todo, got, skipped>>
           /\ \E h \in Hours :
                /\ ~None /\ row[h] >= size[h] /\ row[h] # NoRow /\ h < live
                /\ ReadTo(h)' >= size[h]
                /\ \A k \in Hours : row'[k] = IF k = h THEN NoRow ELSE row[k]
<1> USE DEF Steady
<1>1. PICK h \in Hours : /\ row[h] # NoRow
                         /\ ~Needed(h)
                         /\ row' = [row EXCEPT ![h] = NoRow]
                         /\ forgotten' = forgotten /\ base' = base
  BY DEF Sweep, Missed
<1>2. UNCHANGED <<from, live, size, purged, base, pc, seen, anchor, todo, drains, got, skipped,
                  gaps, faults, forgotten>>
  BY <1>1 DEF Sweep, serverVars, pollVars, sinkVars
<1>3. ~None /\ row[h] >= size[h] /\ h < live
  BY <1>1, Typed DEF Needed, None, Server
<1>4. \A k \in Hours : row'[k] = IF k = h THEN NoRow ELSE row[k]
  BY <1>1 DEF Types
<1>5. Types'
  <2>1. row' \in [Hours -> Nat \union {NoRow}]
    BY <1>1, <1>4, Typed DEF Types
  <2> QED
    BY <1>2, <2>1 DEF Types
<1>6. Server' /\ History' /\ Seeded'
  BY <1>2, <1>3, <1>4 DEF Server, Begun, History, Unskipped, None, Written, Seeded
<1>7. ReadTo(h)' = CASE base.kind = "begin" -> size[h]
                     [] base.kind = "hour"  -> IF h < base.hour THEN size[h]
                                               ELSE IF h = base.hour THEN base.off ELSE 0
  BY <1>2, <1>3, <1>4, Typed DEF ReadTo, None
<1>8. ReadTo(h)' >= size[h]
  BY <1>1, <1>3, <1>7, Typed DEF Seeded, Begun, None
<1>9. \A k \in Hours : k # h => ReadTo(k)' = ReadTo(k)
  BY <1>2, <1>4, Typed DEF ReadTo
<1>10. Fresh' /\ Once'
  <2>1. ReadTo(h)' \in Int
    BY <1>3, <1>7, Typed DEF None
  <2>2. \A l \in Lines : l[1] = h => ~Left(l)'
    BY <1>2, <1>3, <1>8, <2>1, LineType, Typed DEF Left, Written
  <2>3. \A l \in Lines : Left(l)' => Left(l)
    BY <1>2, <1>9, <2>2, LineType DEF Left, Written
  <2> QED
    BY <1>2, <2>3 DEF Fresh, Once, Unskipped, None
<1>11. Poll'
  <2>1. \A k \in Hours : Planned(k) => Planned(k)'
    BY <1>2, <1>3, <1>4, <1>8, <1>9, Typed DEF Planned, None
  <2> QED
    BY <1>2, <2>1 DEF Poll, Begun, ListedRotated, Types
<1> QED
  BY <1>1, <1>2, <1>3, <1>4, <1>5, <1>6, <1>8, <1>10, <1>11

LEMMA FailureSteady ==
    ASSUME Steady, Failure
    PROVE  Steady'
<1>1. faults' \in 0 .. MaxFaults
  BY RotationAssumption DEF Failure, DrainFail, PlanFail, Crash, Fault, Steady, Types
<1>2. CASE DrainFail
  BY <1>1, <1>2, DoneSteady DEF DrainFail, rowVars, serverVars, sinkVars
<1>3. CASE PlanFail \/ Crash
  <2> USE DEF Steady
  <2>1. /\ UNCHANGED <<from, live, size, purged, base, row, forgotten, seen, got, skipped, gaps>>
        /\ pc' = "idle" /\ todo' = {} /\ drains' = {}
        /\ anchor' \in {anchor, NoAnchor}
    BY <1>3 DEF PlanFail, Crash, rowVars, serverVars, sinkVars
  <2>2. Types' /\ Server' /\ Once'
    BY <1>1, <2>1 DEF Types, Server, Begun, Once
  <2>3. History'
    BY <2>1 DEF History, Unskipped, None, Written, NoAnchor, Known
  <2>4. Fresh'
    BY <2>1 DEF Fresh, Left, Written, Unskipped, None, ReadTo
  <2>5. Poll' /\ Seeded'
    BY <2>1 DEF Poll, Seeded, Begun
  <2> QED
    BY <2>2, <2>3, <2>4, <2>5
<1> QED
  BY <1>2, <1>3 DEF Failure

LEMMA UnchangedSteady ==
    ASSUME UNCHANGED vars
    PROVE  Steady' = Steady /\ Exact' = Exact
BY DEF vars, rowVars, serverVars, pollVars, sinkVars, Steady, Types, Server, History, Fresh, Once, Poll,
       Seeded, Planned,
       Left, ReadTo, Written, Unskipped, None, Begun, ListedRotated, Exact, Within, Anchored,
       Covered, Listing, HandedOver, BaseRotated, Gap, Rotated

LEMMA StepSteady ==
    ASSUME "unset" \notin Windows, Steady, [Next]_vars
    PROVE  Steady'
<1>1. CASE Append \/ Rotate \/ Sweep
  BY <1>1, AppendSteady, RotateSteady, SweepSteady
<1>2. CASE Worker
  BY <1>2, DiscoverSteady, PlanHourSteady, PlanBaseSteady, PullHourSteady, SkipBaseSteady,
     PullBaseSteady DEF Worker
<1>3. CASE Failure
  BY <1>3, FailureSteady
<1>4. CASE UNCHANGED vars
  BY <1>4, UnchangedSteady
<1> QED
  BY <1>1, <1>2, <1>3, <1>4 DEF Next

-----------------------------------------------------------------------------
\* No line is delivered twice across renames, polls, sweeps and crashes, and
\* none that start_from = end leaves out (planRotation, worker.go:484-586):
\* not even when the log rotates between a poll's listing and its reads.  The
\* sweep may remove any row of an hour read to its end, however soon, and does
\* not meet the row of a file to be read on.
THEOREM NeverReadTwice ==
    ASSUME "unset" \notin Windows
    PROVE  Spec => []ReadOnce
<1>1. Steady => ReadOnce
  BY DEF Steady, Once, ReadOnce
<1>2. Steady /\ [Next]_vars => Steady'
  BY StepSteady
<1> QED
  BY <1>1, <1>2, InitSteady, PTL DEF Spec

-----------------------------------------------------------------------------
(* Windows = {}: the server and the plan.                                  *)

LEMMA InitExact == Init => Exact
<1> SUFFICES ASSUME Init PROVE Exact
  OBVIOUS
<1>1. \A h \in Hours : ReadTo(h) = 0
  BY DEF Init, ReadTo, Missing, NoRow
<1>2. Within /\ Anchored /\ Listing
  BY DEF Init, Within, Anchored, Listing, Begun, Missing, NoRow
<1>3. Covered
  BY <1>1, LineType DEF Covered
<1> QED
  BY <1>2, <1>3 DEF Exact

LEMMA AppendExact ==
    ASSUME Steady, Exact, Append
    PROVE  Exact'
<1> USE DEF Steady, Exact
<1>1. /\ UNCHANGED <<from, live, purged, base, row, forgotten, pc, seen, anchor, todo, drains, got,
                     skipped>>
      /\ size' = [size EXCEPT ![live] = @ + 1]
  BY DEF Append, rowVars, pollVars, sinkVars
<1>2. \A h \in Hours : size'[h] = IF h = live THEN size[h] + 1 ELSE size[h]
  BY <1>1 DEF Types
<1>3. Within'
  BY <1>1, <1>2, Typed DEF Within, Server, Begun, Hours
<1>4. Covered'
  BY <1>1, AppendSteady, LineType DEF Covered, Unskipped, None
<1>5. Anchored'
  BY <1>1, <1>2, Typed, LineType DEF Anchored, Unskipped, None, Written
<1>6. Listing'
  <2>1. \A h \in Hours : h < live /\ Planned(h) => Planned(h)'
    BY <1>1, <1>2, AppendSteady, Typed DEF Planned, None
  <2>2. \A h : HandedOver(h)' = HandedOver(h)
    BY <1>1 DEF HandedOver, BaseRotated, Gap, ListedRotated, Begun, None
  <2> QED
    BY <1>1, <1>2, <2>1, <2>2, Typed DEF Listing, Rotated, Begun, None, Unskipped
<1> QED
  BY <1>3, <1>4, <1>5, <1>6

\* Outside a poll's plan and before the live file has been read, the hour does
\* not end: every checkpoint means after it what it meant before.
LEMMA RotateExact ==
    ASSUME Windows = {}, Steady, Exact, Rotate
    PROVE  Exact'
<1> USE DEF Steady, Exact
<1>1. /\ UNCHANGED <<from, size, base, row, pc, seen, anchor, todo, drains, got, skipped>>
      /\ live' = live + 1 /\ purged' = Purge
      /\ pc # "plan" /\ (pc = "drain" => Begun)
      /\ pc = "idle" => ~Unread
      /\ Begun /\ pc # "idle" => ~(base.hour <= Purge)
  BY DEF Rotate, pollVars, sinkVars, Begun
<1>2. purged <= purged' /\ purged' \in Nat
  BY <1>1, Typed DEF Purge, Server
<1>3. base.kind # "begin"
  BY <1>1 DEF Unread, Begun, Types
<1>4. \A h \in Hours : ReadTo(h)' = ReadTo(h)
  BY <1>1, <1>3, Typed DEF ReadTo, Begun, NoRow
<1>5. Within'
  BY <1>1 DEF Within, Begun
<1>6. Covered'
  BY <1>1, <1>2, <1>4, LineType, Typed DEF Covered, Unskipped, None
<1>7. Anchored'
  <2>1. Unskipped => anchor = NoAnchor
    BY <1>1, Typed DEF Unskipped, None, Unread, startFor, Begun, Types, History
  <2> QED
    BY <1>1, <2>1 DEF Anchored, Unskipped, None
<1>8. Listing'
  <2>1. pc = "drain" => Begun /\ ~None /\ base.hour > purged'
    BY <1>1, <1>2, Typed DEF Begun, None
  <2> QED
    BY <1>1, <2>1 DEF Listing, Begun, None
<1> QED
  BY <1>5, <1>6, <1>7, <1>8

LEMMA DiscoverExact ==
    ASSUME Steady, Exact, Discover
    PROVE  Exact'
<1> USE DEF Steady, Exact
<1>1. /\ UNCHANGED <<from, live, size, purged, base, row, got>>
      /\ pc' = "plan" /\ todo' = Rotated
      /\ seen' = [live |-> live, size |-> size[live], purged |-> purged]
      /\ IF Unskipped /\ anchor = NoAnchor
         THEN anchor' = size[live] /\ skipped' = {l \in Lines : Written(l)}
         ELSE skipped' = skipped /\ (Unskipped => anchor' = anchor)
  BY DiscoverSteady DEF Discover, serverVars, rowVars
<1>2. Within'
  BY <1>1 DEF Within, Begun
<1>3. Covered' /\ Anchored'
  <2>1. CASE Unskipped /\ anchor = NoAnchor
    <3>1. anchor' = size[live] /\ skipped' = {l \in Lines : Written(l)} /\ Unskipped'
      BY <1>1, <2>1 DEF Unskipped, None
    <3> QED
      BY <1>1, <3>1, Typed DEF Covered, Anchored, Written
  <2>2. CASE ~(Unskipped /\ anchor = NoAnchor)
    <3>1. skipped' = skipped /\ (Unskipped => anchor' = anchor)
      BY <1>1, <2>2
    <3>2. \A h \in Hours : ReadTo(h)' = ReadTo(h)
      BY <1>1 DEF ReadTo
    <3> QED
      BY <1>1, <3>1, <3>2, LineType DEF Covered, Anchored, Unskipped, None, Written
  <2> QED
    BY <2>1, <2>2
<1>4. Listing'
  <2>1. seen'.live = live /\ seen'.size = size[live] /\ seen'.purged = purged
    BY <1>1
  <2>2. Unskipped' => anchor' \in 0 .. size[live]
    BY <1>1, Typed DEF Unskipped, None, Anchored, History
  <2>3. Rotated' \ todo' = {}
    BY <1>1 DEF Rotated
  <2> QED
    BY <1>1, <2>1, <2>2, <2>3, Typed DEF Listing
<1> QED
  BY <1>2, <1>3, <1>4

LEMMA PlanHourExact ==
    ASSUME Steady, Exact, PlanHour
    PROVE  Exact'
<1> USE DEF Steady, Exact
<1>1. /\ UNCHANGED <<from, live, size, purged, base, pc, seen, anchor, got, skipped>>
      /\ pc = "plan"
  BY DEF PlanHour, serverVars, sinkVars
<1>2. PICK h \in todo :
        /\ todo' = todo \ {h}
        /\ \A k \in Hours : row'[k] = row[k] \/ (k = h /\ row[k] = NoRow /\ row'[k] = Seed(k))
        /\ HandedOver(h) => row'[h] # NoRow
  BY PlanHourSteady
<1>3. h \in Hours /\ \A k \in Hours : row[k] # NoRow => row'[k] = row[k]
  BY <1>1, <1>2 DEF Types
<1>4. Within'
  <2>1. \A k \in Hours : Seed(k) <= size[k]
    BY Typed DEF Seed, Within, Begun
  <2> QED
    BY <1>1, <1>2, <2>1 DEF Within, Begun
<1>5. Covered' /\ Anchored'
  BY <1>1, PlanHourSteady, LineType DEF Covered, Anchored, Unskipped, None, Written
<1>6. Listing'
  <2>1. /\ Rotated' = Rotated
        /\ \A k : HandedOver(k)' = HandedOver(k)
    BY <1>1 DEF Rotated, HandedOver, None, Begun, BaseRotated, Gap, ListedRotated
  <2>3. \A k \in Hours : Planned(k) => Planned(k)'
    BY <1>1, <1>3, PlanHourSteady DEF Planned, None
  <2>2. \A k \in Rotated \ todo' : HandedOver(k) => Planned(k)'
    BY <1>1, <1>2, <1>3, <2>3 DEF Listing, Rotated, Planned
  <2>4. pc # "drain"
    BY <1>1
  <2> QED
    BY <1>1, <2>1, <2>2, <2>4 DEF Listing, Unskipped, None
<1> QED
  BY <1>4, <1>5, <1>6

\* When the base file is handed over, the hours before the live one have rows
\* or are done.
LEMMA PlanBaseExact ==
    ASSUME Steady, Steady', Exact, PlanBase
    PROVE  Exact'
<1> USE DEF Steady, Exact
<1>1. /\ UNCHANGED <<from, live, size, purged, row, seen, anchor, todo, got, skipped>>
      /\ pc = "plan" /\ pc' = "drain" /\ todo = {}
      /\ base' = IF BaseRotated \/ Gap THEN Beginning ELSE base
  BY DEF PlanBase, SetBase, serverVars, sinkVars
<1>2. /\ ListedRotated = Rotated /\ Rotated' = Rotated
      /\ seen.live = live /\ seen.purged = purged /\ seen.size <= size[live]
      /\ Unskipped => anchor \in 0 .. seen.size
      /\ \A h \in Rotated : HandedOver(h) => Planned(h)
  BY <1>1 DEF Listing, ListedRotated, Rotated
<1>3. CASE BaseRotated \/ Gap
  <2>1. Begun /\ base.hour < live /\ base'.kind = "begin" /\ ~Begun' /\ ~None'
    BY <1>1, <1>2, <1>3, Typed DEF BaseRotated, Gap, Begun, None, Beginning, Rotated
  <2>2. \A h \in Hours : h > purged /\ h <= live => ReadTo(h)' = ReadTo(h)
    <3> SUFFICES ASSUME NEW h \in Hours, h > purged, h <= live
                 PROVE  ReadTo(h)' = ReadTo(h)
      OBVIOUS
    <3>1. CASE row[h] # NoRow
      BY <1>1, <3>1 DEF ReadTo
    <3>2. CASE row[h] = NoRow /\ h = live
      BY <1>1, <2>1, <3>2, Typed DEF ReadTo, Begun
    <3>3. CASE row[h] = NoRow /\ h < live
      <4>1. ReadTo(h)' = size[h]
        BY <1>1, <2>1, <3>3, Typed DEF ReadTo
      <4>2. h < base.hour \/ ReadTo(h) >= size[h]
        BY <1>2, <1>3, <2>1, <3>3, Typed DEF HandedOver, Rotated, Planned
      <4>3. h < base.hour => ReadTo(h) = size[h]
        BY <2>1, <3>3 DEF ReadTo, Begun
      <4>4. ReadTo(h) <= size[h]
        BY <2>1, <3>3, Typed DEF ReadTo, Begun, Within
      <4>5. ReadTo(h) \in Int
        BY Typed DEF ReadTo
      <4> QED
        BY <4>1, <4>2, <4>3, <4>4, <4>5, Typed
    <3> QED
      BY <3>1, <3>2, <3>3, Typed
  <2>3. \A h \in Hours : h > live => ReadTo(h)' = 0
    BY <1>1, <2>1, Typed DEF Server, ReadTo
  <2>4. Covered'
    BY <1>1, <2>1, <2>2, <2>3, LineType, Typed DEF Covered, Unskipped, None, Begun
  <2>5. Within' /\ Anchored' /\ Listing'
    BY <1>1, <1>2, <2>1 DEF Within, Anchored, Listing, Unskipped
  <2> QED
    BY <2>4, <2>5
<1>4. CASE ~(BaseRotated \/ Gap)
  <2>1. base' = base
    BY <1>1, <1>4
  <2>2. \A h \in Hours : ReadTo(h)' = ReadTo(h)
    BY <1>1, <2>1, Typed DEF ReadTo
  <2>3. Within' /\ Covered' /\ Anchored'
    <3>1. Within' /\ Anchored'
      BY <1>1, <2>1 DEF Within, Begun, Anchored, Unskipped, None, Written
    <3> QED
      BY <1>1, <2>1, <2>2, <3>1, LineType DEF Covered, Unskipped, None
  <2>4. Begun => base.hour > purged
    <3>1. Begun => base.hour >= seen.live
      BY <1>1, <2>1 DEF Poll, Begun
    <3> QED
      BY <1>2, <3>1, Typed DEF Server
  <2>5. None /\ from = "beginning" => \A h \in Rotated : row[h] # NoRow
    BY <1>2 DEF HandedOver, Planned
  <2>6. Listing'
    BY <1>1, <1>2, <2>1, <2>4, <2>5 DEF Listing, Begun, Unskipped, None
  <2> QED
    BY <2>3, <2>6
<1> QED
  BY <1>3, <1>4

-----------------------------------------------------------------------------
(* Windows = {}: drains, the sweep and the failures.                       *)

LEMMA DoneExact ==
    ASSUME Exact, pc = "drain", NEW f \in drains, Done(f),
           UNCHANGED <<from, live, size, purged, base, row, got, skipped>>
    PROVE  Exact'
<1> USE DEF Exact
<1>1. pc' \in {"idle", "drain"} /\ UNCHANGED <<seen, anchor, todo>>
  BY DEF Done
<1>2. Within' /\ Anchored'
  BY <1>1 DEF Within, Begun, Anchored, Unskipped, None, Written
<1>3. Covered'
  BY <1>1 DEF Covered, Unskipped, None, ReadTo
<1>4. Listing'
  BY <1>1 DEF Listing, Begun, Unskipped, None, Rotated
<1> QED
  BY <1>2, <1>3, <1>4

\* The line that is read takes its hour's checkpoint one line on.
LEMMA NextCovered ==
    ASSUME Steady, Covered, ~Unskipped, NEW h \in Hours, NEW o \in Nat, o = ReadTo(h),
           o < size[h], Give(h, o), purged' = purged, skipped' = skipped,
           \A k \in Hours : k > purged => ReadTo(k)' = IF k = h THEN o + 1 ELSE ReadTo(k)
    PROVE  Covered'
<1> USE DEF Steady
<1> DEFINE next == <<h, o + 1>>
<1>1. next \in Lines
  BY LineOf, Typed
<1>2. \A l \in Lines : got'[l] = IF l = next THEN got[l] + 1 ELSE got[l]
  BY <1>1 DEF Give, Types
<1>3. \A l \in Lines : l[1] = h /\ l[2] = o + 1 => l = next
  BY LineType
<1> QED
  BY <1>2, <1>3, LineType, Typed DEF Covered

LEMMA PullHourExact ==
    ASSUME Steady, Exact, PullHour
    PROVE  Exact'
<1> USE DEF Exact
<1>1. PICK h \in drains \ {Base} :
        \/ h > purged /\ row[h] \in 0 .. size[h] - 1 /\ Give(h, row[h])
           /\ SetRow(h, row[h] + 1) /\ UNCHANGED pollVars
        \/ h > purged /\ row[h] \notin 0 .. size[h] - 1 /\ SetRow(h, size[h]) /\ Done(h)
           /\ UNCHANGED got
        \/ Done(h) /\ UNCHANGED <<got, row>>
  BY DEF PullHour
<1>2. pc = "drain" /\ UNCHANGED <<from, live, size, purged, base, forgotten, skipped, gaps, faults>>
  BY DEF PullHour, serverVars
<1>3. CASE Done(h) /\ UNCHANGED <<got, row>>
  BY <1>1, <1>2, <1>3, DoneExact
<1>4. CASE h > purged /\ row[h] \in 0 .. size[h] - 1 /\ Give(h, row[h])
           /\ SetRow(h, row[h] + 1) /\ UNCHANGED pollVars
  <2>1. /\ Give(h, row[h]) /\ UNCHANGED <<pc, seen, anchor, todo>>
        /\ ~Unskipped /\ ~Unskipped'
        /\ h \in Hours /\ row[h] \in Nat /\ row[h] = ReadTo(h) /\ row[h] < size[h]
        /\ \A k \in Hours : row'[k] = IF k = h THEN row[k] + 1 ELSE row[k]
        /\ \A k \in Hours : ReadTo(k)' = IF k = h THEN row[h] + 1 ELSE ReadTo(k)
    BY <1>2, <1>4, PullHourNext, Typed DEF pollVars, Steady
  <2>2. Covered'
    BY <1>2, <1>4, <2>1, NextCovered
  <2>3. Within'
    BY <1>2, <1>4, <2>1, Typed DEF Within, Begun, Steady
  <2>4. Listing'
    BY <1>2, <2>1, Typed DEF Listing, Begun, Unskipped, None, Rotated, Steady
  <2> QED
    BY <2>1, <2>2, <2>3, <2>4 DEF Anchored
<1>5. CASE h > purged /\ row[h] \notin 0 .. size[h] - 1 /\ SetRow(h, size[h]) /\ Done(h)
           /\ UNCHANGED got
  <2>1. /\ UNCHANGED <<seen, anchor, todo>> /\ pc' \in {"idle", "drain"}
        /\ ~Unskipped /\ ~Unskipped'
        /\ h \in Hours /\ ReadTo(h) >= size[h]
        /\ \A k \in Hours : row'[k] = IF k = h THEN size[h] ELSE row[k]
        /\ \A k \in Hours : ReadTo(k)' = IF k = h THEN size[h] ELSE ReadTo(k)
    BY <1>2, <1>5, PullHourEnd
  <2>2. Covered'
    <3>1. \A k \in Hours : ReadTo(k) \in Int /\ size[k] \in Int
      BY Typed DEF ReadTo, Steady
    <3>2. \A l \in Lines : l[2] <= ReadTo(l[1])' => l[2] <= ReadTo(l[1])
      BY <2>1, <3>1, LineType
    <3> QED
      BY <1>2, <1>5, <2>1, <3>2 DEF Covered
  <2>3. Within'
    BY <1>2, <2>1, Typed DEF Within, Begun, Steady
  <2>4. Listing'
    BY <1>2, <2>1, Typed DEF Listing, Begun, Unskipped, None, Rotated, Steady
  <2> QED
    BY <2>1, <2>2, <2>3, <2>4 DEF Anchored
<1> QED
  BY <1>1, <1>3, <1>4, <1>5

\* start_from = end: the hours before the live one and the live file as far as
\* the anchor are history, and the skip adds what it skips.
LEMMA SkipBaseExact ==
    ASSUME Steady, Exact, SkipBase
    PROVE  Exact'
<1> USE DEF Steady, Exact
<1>1. /\ UNCHANGED <<from, live, size, purged, row, got, seen, anchor>>
      /\ pc = "drain" /\ Unskipped /\ pc' \in {"idle", "drain"}
      /\ base' = At(live, Tail)
      /\ skipped' = skipped \union {l \in Lines : l[1] = live /\ l[2] <= Tail}
  BY DEF SkipBase, SetBase, startFor, serverVars, Done, Unskipped, None
<1>2. /\ Tail \in Nat /\ anchor # NoAnchor /\ Tail <= size[live]
      /\ \A h \in Hours : row[h] = NoRow
  <2>1. anchor \in 0 .. seen.size /\ seen.size <= size[live]
    BY <1>1 DEF Listing, Unskipped, None, Begun
  <2> QED
    BY <1>1, <2>1, Typed DEF Tail, AnchorSize, History
<1>3. base'.kind = "hour" /\ base'.hour = live /\ base'.off = Tail
  BY <1>1 DEF At
<1>4. Within' /\ Anchored'
  BY <1>1, <1>2, <1>3 DEF Within, Begun, Anchored, Unskipped, None
<1>5. Covered'
  <2> SUFFICES ASSUME NEW l \in Lines, l[2] <= ReadTo(l[1])'
               PROVE  l \in skipped'
    BY DEF Covered
  <2>1. ReadTo(l[1])' = IF l[1] < live THEN size[l[1]] ELSE IF l[1] = live THEN Tail ELSE 0
    BY <1>1, <1>2, <1>3, LineType, Typed DEF ReadTo
  <2> QED
    BY <1>1, <1>2, <2>1, LineType, Typed DEF Anchored, Written
<1>6. Listing'
  BY <1>1, <1>3, Typed DEF Listing, Begun, Server, None, Unskipped
<1> QED
  BY <1>4, <1>5, <1>6

\* The base file is read on where the checkpoints end, in an hour RDS keeps,
\* the hours before it being read to the end or to be read by their rows.
LEMMA ReadFromNext ==
    ASSUME Steady, Exact, pc = "drain", ~Unskipped
    PROVE  /\ ReadFrom = At(ReadFrom.hour, ReadFrom.off)
           /\ ReadFrom.hour \in Hours /\ ReadFrom.off \in Nat
           /\ purged < ReadFrom.hour /\ ReadFrom.hour <= live
           /\ ReadFrom.off <= size[ReadFrom.hour]
           /\ ReadTo(ReadFrom.hour) = ReadFrom.off
           /\ ~Begun => ReadFrom = At(live, 0)
           /\ \A k \in Hours : k >= ReadFrom.hour => row[k] = NoRow
           /\ \A k \in Hours : k > purged /\ k < ReadFrom.hour /\ row[k] = NoRow
                               => ReadTo(k) = size[k]
           /\ \A k \in Hours : k > ReadFrom.hour => ReadTo(k) = 0
<1> USE DEF Steady, Exact
<1>1. CASE ~Begun
  <2>1. ReadFrom = At(live, 0) /\ base.kind \in {"none", "begin"}
    BY <1>1, Typed DEF ReadFrom, Begun
  <2>2. ReadFrom.hour = live /\ ReadFrom.off = 0
    BY <2>1 DEF At
  <2>3. \A k \in Hours : k >= live => row[k] = NoRow /\ ReadTo(k) = 0
    BY <1>1, <2>1, Typed DEF Server, ReadTo
  <2>4. \A k \in Hours : k > purged /\ k < live /\ row[k] = NoRow => ReadTo(k) = size[k]
    BY <2>1, Typed DEF Listing, Unskipped, None, ReadTo, Rotated
  <2> QED
    BY <1>1, <2>1, <2>2, <2>3, <2>4, Typed DEF Server
<1>2. CASE Begun
  <2>1. /\ base.hour \in Hours /\ base.hour <= live /\ base.off <= size[base.hour]
        /\ base.hour > purged /\ \A h \in Hours : h >= base.hour => row[h] = NoRow
        /\ base.kind = "hour" /\ base = At(base.hour, base.off)
    BY <1>2, Typed DEF Server, Listing, Poll, Within, Hours, Begun, At, Types
  <2>2. \A k \in Hours : row[k] = NoRow =>
          ReadTo(k) = IF k < base.hour THEN size[k] ELSE IF k = base.hour THEN base.off ELSE 0
    BY <2>1, Typed DEF ReadTo
  <2>3. CASE base.hour = live - 1 /\ base.off >= size[base.hour]
    <3>1. ReadFrom = At(live, 0)
      BY <2>1, <2>3, Typed DEF ReadFrom
    <3>2. ReadFrom.hour = live /\ ReadFrom.off = 0
      BY <3>1 DEF At
    <3> QED
      BY <1>2, <2>1, <2>2, <2>3, <3>1, <3>2, Typed DEF Server
  <2>4. CASE ~(base.hour = live - 1 /\ base.off >= size[base.hour])
    <3>1. ReadFrom = base
      BY <2>1, <2>4, Typed DEF ReadFrom
    <3> QED
      BY <1>2, <2>1, <2>2, <3>1, Typed
  <2> QED
    BY <2>3, <2>4
<1> QED
  BY <1>1, <1>2

LEMMA PullBaseExact ==
    ASSUME Steady, Exact, PullBase
    PROVE  Exact'
<1> USE DEF Exact
<1> DEFINE m == ReadFrom
<1>1. /\ UNCHANGED <<from, live, size, purged, row, skipped, seen, anchor>>
      /\ pc = "drain" /\ pc' \in {"idle", "drain"}
      /\ ~Unskipped
      /\ \/ m.off < size[m.hour] /\ Give(m.hour, m.off) /\ base' = At(m.hour, m.off + 1)
         \/ got' = got /\ (base' = m \/ (~Begun /\ base' = Beginning))
  <2>1. PullBase /\ pc = "drain"
    BY DEF PullBase
  <2>2. ~Unskipped
    BY <2>1, StartFor DEF PullBase, Unskipped, None, Steady
  <2> QED
    BY <2>2 DEF PullBase, SetBase, serverVars, pollVars, Done, Begun
<1>2. /\ m = At(m.hour, m.off) /\ m.hour \in Hours /\ m.off \in Nat
      /\ purged < m.hour /\ m.hour <= live
      /\ m.off <= size[m.hour]
      /\ ReadTo(m.hour) = m.off
      /\ ~Begun => m = At(live, 0)
      /\ \A k \in Hours : k >= m.hour => row[k] = NoRow
      /\ \A k \in Hours : k > purged /\ k < m.hour /\ row[k] = NoRow => ReadTo(k) = size[k]
      /\ \A k \in Hours : k > m.hour => ReadTo(k) = 0
  BY <1>1, ReadFromNext
<1> HIDE DEF m
<1>3. \/ /\ base'.kind = "hour" /\ base'.hour = m.hour /\ base'.off \in {m.off, m.off + 1}
         /\ base'.off <= size[m.hour]
      \/ base'.kind = "begin" /\ m.hour = live /\ m.off = 0 /\ got' = got /\ ~Begun
  <2>1. CASE got' = got /\ base' = m
    BY <1>2, <2>1 DEF At
  <2>2. CASE got' = got /\ ~Begun /\ base' = Beginning
    BY <1>2, <2>2 DEF Beginning, At
  <2>3. CASE base' = At(m.hour, m.off + 1) /\ m.off < size[m.hour]
    BY <1>2, <2>3, Typed DEF At, Steady
  <2> QED
    BY <1>1, <2>1, <2>2, <2>3
<1>4. \A k \in Hours : k > purged => ReadTo(k)' = IF k = m.hour /\ base'.kind = "hour"
                                                  THEN base'.off ELSE ReadTo(k)
  <2> SUFFICES ASSUME NEW k \in Hours, k > purged
               PROVE  ReadTo(k)' = IF k = m.hour /\ base'.kind = "hour"
                                   THEN base'.off ELSE ReadTo(k)
    OBVIOUS
  <2> USE DEF Steady
  <2>1. CASE row[k] # NoRow
    BY <1>1, <1>2, <2>1, Typed DEF ReadTo
  <2>2. CASE row[k] = NoRow /\ base'.kind = "hour"
    BY <1>1, <1>2, <1>3, <2>2, Typed DEF ReadTo
  <2>3. CASE row[k] = NoRow /\ base'.kind = "begin"
    BY <1>1, <1>2, <1>3, <2>3, Typed DEF ReadTo, Server
  <2> QED
    BY <1>3, <2>1, <2>2, <2>3
<1>5. ~Unskipped' /\ ~None'
  BY <1>3 DEF Unskipped, None
<1>6. Covered'
  <2>1. CASE m.off < size[m.hour] /\ Give(m.hour, m.off) /\ base' = At(m.hour, m.off + 1)
    <3>1. \A k \in Hours : k > purged => ReadTo(k)' = IF k = m.hour THEN m.off + 1 ELSE ReadTo(k)
      BY <1>4, <2>1 DEF At
    <3> QED
      BY <1>1, <1>2, <2>1, <3>1, NextCovered
  <2>2. CASE got' = got /\ (base' = m \/ (~Begun /\ base' = Beginning))
    <3>1. \A k \in Hours : k > purged => ReadTo(k)' = ReadTo(k)
      BY <1>2, <1>4, <2>2 DEF Beginning
    <3> QED
      BY <1>1, <2>2, <3>1, LineType DEF Covered
  <2> QED
    BY <1>1, <2>1, <2>2
<1>7. Within'
  BY <1>1, <1>2, <1>3, Typed DEF Within, Begun, Steady
<1>8. Listing'
  BY <1>1, <1>2, <1>3, <1>5, Typed DEF Listing, Begun, None, Unskipped, Steady
<1> QED
  BY <1>5, <1>6, <1>7, <1>8 DEF Anchored

LEMMA SweepExact ==
    ASSUME "unset" \notin Windows, Steady, Exact, Sweep
    PROVE  Exact'
<1> USE DEF Steady, Exact
<1>1. PICK h \in Hours :
        /\ UNCHANGED <<from, live, size, purged, base, pc, seen, anchor, todo, got, skipped>>
        /\ ~None /\ row[h] >= size[h] /\ row[h] # NoRow /\ h < live
        /\ ReadTo(h)' >= size[h]
        /\ \A k \in Hours : row'[k] = IF k = h THEN NoRow ELSE row[k]
  BY SweepSteady
<1>2. Within' /\ Anchored'
  BY <1>1, Typed DEF Within, Begun, Anchored, Unskipped, None, Written
<1>3. \A k \in Hours : ReadTo(k)' <= ReadTo(k) /\ ReadTo(k) \in Int /\ ReadTo(k)' \in Int
  <2>1. ReadTo(h) = row[h] /\ ReadTo(h)' <= size[h]
    <3>1. ReadTo(h)' = CASE base.kind = "begin" -> size[h]
                         [] base.kind = "hour"  -> IF h < base.hour THEN size[h]
                                                   ELSE IF h = base.hour THEN base.off ELSE 0
      BY <1>1, Typed DEF ReadTo, None
    <3> QED
      BY <1>1, <3>1, Typed DEF ReadTo, Within, Begun, None
  <2>2. \A k \in Hours : k # h => ReadTo(k)' = ReadTo(k)
    BY <1>1, Typed DEF ReadTo
  <2>3. \A k \in Hours : ReadTo(k) \in Int /\ ReadTo(k)' \in Int
    BY <1>1, Typed DEF ReadTo, NoRow
  <2> QED
    BY <1>1, <2>1, <2>2, <2>3, Typed
<1>4. Covered'
  <2>1. \A l \in Lines : l[2] <= ReadTo(l[1])' => l[2] <= ReadTo(l[1])
    BY <1>3, LineType
  <2> QED
    BY <1>1, <2>1 DEF Covered, Unskipped, None
<1>5. Listing'
  <2>1. \A k \in Hours : Planned(k) => Planned(k)'
    BY <1>1, Typed DEF Planned, None, ReadTo
  <2>2. \A k : HandedOver(k)' = HandedOver(k)
    BY <1>1 DEF HandedOver, Begun, None, BaseRotated, Gap, ListedRotated
  <2> QED
    BY <1>1, <2>1, <2>2 DEF Listing, Unskipped, None, Begun, Rotated
<1> QED
  BY <1>2, <1>4, <1>5

LEMMA FailureExact ==
    ASSUME Exact, Failure
    PROVE  Exact'
<1>1. CASE DrainFail
  BY <1>1, DoneExact DEF DrainFail, rowVars, serverVars, sinkVars
<1>2. CASE PlanFail \/ Crash
  <2> USE DEF Exact
  <2>1. /\ UNCHANGED <<from, live, size, purged, base, row, got, skipped>>
        /\ pc' = "idle" /\ anchor' \in {anchor, NoAnchor}
    BY <1>2 DEF PlanFail, Crash, rowVars, serverVars, sinkVars
  <2>2. Within' /\ Anchored'
    BY <2>1 DEF Within, Begun, Anchored, Unskipped, None, Written
  <2>3. Covered'
    BY <2>1 DEF Covered, Unskipped, None, ReadTo
  <2>4. Listing'
    BY <2>1 DEF Listing
  <2> QED
    BY <2>2, <2>3, <2>4
<1> QED
  BY <1>1, <1>2 DEF Failure

LEMMA Exactness ==
    ASSUME Windows = {}
    PROVE  Spec => [](Steady /\ Exact)
<1>1. Steady /\ Exact /\ [Next]_vars => (Steady /\ Exact)'
  <2> SUFFICES ASSUME Steady, Exact, [Next]_vars
               PROVE  Steady' /\ Exact'
    OBVIOUS
  <2>1. Steady'
    BY StepSteady
  <2>2. CASE Append \/ Rotate \/ Sweep
    BY <2>1, <2>2, AppendExact, RotateExact, SweepExact
  <2>3. CASE Worker
    BY <2>1, <2>3, DiscoverExact, PlanHourExact, PlanBaseExact, PullHourExact, SkipBaseExact,
       PullBaseExact DEF Worker
  <2>4. CASE Failure
    BY <2>1, <2>4, FailureExact
  <2>5. CASE UNCHANGED vars
    BY <2>1, <2>5, UnchangedSteady
  <2> QED
    BY <2>2, <2>3, <2>4, <2>5 DEF Next
<1> QED
  BY <1>1, InitSteady, InitExact, PTL DEF Spec

-----------------------------------------------------------------------------
Aged == age \in [Files -> 0 .. KeepRows]

\* The age of a checkpoint is counted up to KeepRows.
LEMMA Aging ==
    ASSUME Aged, [Next]_vars
    PROVE  Aged'
<1> USE DEF Aged
<1>1. KeepRows \in Nat
  BY RotationAssumption
<1>2. CASE Rotate
  BY <1>1, <1>2 DEF Rotate
<1>3. ASSUME NEW f, age' = [age EXCEPT ![f] = 0]
      PROVE  age' \in [Files -> 0 .. KeepRows]
  <2>1. 0 \in 0 .. KeepRows
    BY <1>1
  <2>2. age' = [g \in Files |-> IF g = f THEN 0 ELSE age[g]]
    BY <1>3
  <2> QED
    BY <2>1, <2>2
<1>4. CASE PlanHour
  <2>1. PICK f : age' = [age EXCEPT ![f] = 0] \/ age' = age
    <3>1. PICK f, c : age' = [age EXCEPT ![f] = IF c THEN 0 ELSE @]
      BY <1>4, Zenon DEF PlanHour
    <3> QED
      BY <3>1
  <2> QED
    BY <1>3, <2>1
<1>5. CASE PlanBase \/ PullHour \/ SkipBase \/ PullBase
  <2>1. age' = age \/ \E f : age' = [age EXCEPT ![f] = 0]
    BY <1>5 DEF PlanBase, PullHour, SkipBase, PullBase, SetBase, SetRow
  <2> QED
    BY <1>3, <2>1
<1>6. CASE Append \/ Discover \/ Sweep \/ Failure \/ UNCHANGED vars
  BY <1>6 DEF Append, Discover, Sweep, Failure, DrainFail, PlanFail, Crash, vars, rowVars
<1> QED
  BY <1>2, <1>4, <1>5, <1>6 DEF Next, Worker

\* TypeOK: no checkpoint stands past the end of its file.
THEOREM RotationTyping ==
    ASSUME Windows = {}
    PROVE  Spec => []TypeOK
<1>1. Steady /\ Exact /\ Aged => TypeOK
  BY DEF Steady, Types, Exact, Within, Seeded, Aged, Files, TypeOK
<1>2. Init => Aged
  BY RotationAssumption DEF Init, Aged
<1>3. Aged /\ [Next]_vars => Aged'
  BY Aging
<1>4. Spec => []Aged
  BY <1>2, <1>3, PTL DEF Spec
<1> QED
  BY <1>1, <1>4, Exactness, PTL

\* No retained line is passed over: it is delivered, or left out by
\* start_from = end, or some durable checkpoint is still before it.
THEOREM NoHourPassedOver ==
    ASSUME Windows = {}
    PROVE  Spec => []NothingPassedOver
<1>1. Steady /\ Exact => NothingPassedOver
  <2> SUFFICES ASSUME Steady, Exact, NEW l \in Lines, Written(l), l[1] > purged
               PROVE  got[l] > 0 \/ Ahead(l) \/ l \in skipped
    BY DEF NothingPassedOver
  <2> USE DEF Steady, Exact
  <2>1. CASE Unskipped
    BY <2>1, LineType DEF Unskipped, None, History, Ahead
  <2>2. CASE ~Unskipped /\ l[2] <= ReadTo(l[1])
    BY <2>2 DEF Covered
  <2>3. CASE ~(l[2] <= ReadTo(l[1]))
    BY <2>3, LineType, Typed DEF ReadTo, Ahead, Written
  <2> QED
    BY <2>1, <2>2, <2>3
<1> QED
  BY <1>1, Exactness, PTL
=============================================================================
