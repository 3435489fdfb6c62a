------------------------------- MODULE Rotation ------------------------------
(***************************************************************************)
(* Hourly rotation of a MySQL log: planRotation of                         *)
(* internal/pipeline/worker.go, with the polls and drains around it.       *)
(*                                                                         *)
(* RDS renames the live file <base> to <base>.<hour> every hour and starts *)
(* a new one; old hour files are purged.  A line is <<hour, position>>.  A *)
(* position in an hour file is the number of lines before it.  A pull, its *)
(* sink write and its checkpoint are one step here: module Drain covers    *)
(* what can happen between them.                                           *)
(***************************************************************************)
EXTENDS Integers, FiniteSets

CONSTANTS
    MaxHours,       \* hours 1 .. MaxHours
    Volume,         \* Volume[h]: most lines the server writes in hour h
    Retain,         \* rotated hour files RDS keeps
    KeepRows,       \* age, in hours, from which a checkpoint may be swept
    Froms,          \* values of runtime.start_from to consider
    Windows,        \* what may happen although the worker relies on its not
                    \* happening: that the log rotates "listed", between a
                    \* listing and the base file's pull; "undrained", between
                    \* polls while no drain of the live file has succeeded;
                    \* "outlived", in a poll that lasts as long as the
                    \* retention; and that a file to be read on is "unset",
                    \* no drain of it succeeding for KeepRows hours
    EmptyMarkers,   \* what RDS may answer for an empty live file read from
                    \* "0": "hour", a marker naming its hour, or "begin"
    MaxFaults       \* bound on failed calls and crashes

ASSUME RotationAssumption ==
    /\ MaxHours \in Nat \ {0}
    /\ Volume \in [1 .. MaxHours -> Nat]
    /\ Retain \in Nat \ {0}
    \* an hour for "state gc" (stategc.go:35), a day for the background sweep
    \* (config.go:419)
    /\ KeepRows \in Nat \ {0}
    /\ Froms \subseteq {"beginning", "end"}
    /\ Windows \subseteq {"listed", "undrained", "outlived", "unset"}
    /\ EmptyMarkers \subseteq {"hour", "begin"}
    /\ EmptyMarkers # {}
    /\ MaxFaults \in Nat

VARIABLES
    from,       \* runtime.start_from
    live,       \* hour of the live file
    size,       \* lines of each hour's file
    purged,     \* hours 1 .. purged are gone
    base,       \* checkpoint of the base file
    row,        \* checkpoint of each rotated file: a position, or NoRow
    age,        \* updated_at of each file's checkpoint: the hours begun since
                \* its last Set, up to KeepRows
    pc,         \* what the worker is doing
    seen,       \* the listing of this poll
    anchor,     \* w.initialSize of the base file
    todo,       \* rotated hours of the listing not planned yet
    drains,     \* files to drain this poll: an hour, or Base for the base file
    got,        \* history: how often the sink got each line
    skipped,    \* history: lines that start_from = end leaves out
    gaps,       \* history: gap anomalies
    forgotten,  \* history: files whose checkpoint was swept while still needed
    faults      \* history: failures so far

serverVars == <<live, size, purged>>
pollVars   == <<pc, seen, anchor, todo, drains>>
rowVars    == <<base, row, age, forgotten>>
sinkVars   == <<got, skipped>>
vars == <<from, serverVars, rowVars, pollVars, sinkVars, gaps, faults>>

Hours    == 1 .. MaxHours
Lines    == UNION {{h} \X (1 .. Volume[h]) : h \in Hours}
NoRow    == -1
NoAnchor == -1      \* no listing yet, or start_from = beginning
Known    == -2      \* the instance had checkpoints at the first listing
Base     == 0
Files    == Hours \union {Base}

\* Base checkpoints: none, MarkerBeginning, or an hour marker "<hour>:<offset>".
Missing    == [kind |-> "none", hour |-> 0, off |-> 0]
Beginning  == [kind |-> "begin", hour |-> 0, off |-> 0]
At(h, o)   == [kind |-> "hour", hour |-> h, off |-> o]

Written(l)  == l[2] <= size[l[1]]
Rotated     == {h \in Hours : purged < h /\ h < live}
Give(h, o)  == got' = [got EXCEPT ![<<h, o + 1>>] = @ + 1]

SetBase(c) ==
    /\ base' = c
    /\ age' = [age EXCEPT ![Base] = 0]

SetRow(h, o) ==
    /\ row' = [row EXCEPT ![h] = o]
    /\ age' = [age EXCEPT ![h] = 0]

Fault ==
    /\ faults < MaxFaults
    /\ faults' = faults + 1

-----------------------------------------------------------------------------
Init ==
    /\ from \in Froms
    /\ live = 1
    /\ size = [h \in Hours |-> 0]
    /\ purged = 0
    /\ base = Missing
    /\ row = [h \in Hours |-> NoRow]
    /\ age = [f \in Files |-> KeepRows]
    /\ forgotten = {}
    /\ pc = "idle"
    /\ seen = [live |-> 0, size |-> 0, purged |-> 0]
    /\ anchor = NoAnchor
    /\ todo = {}
    /\ drains = {}
    /\ got = [l \in Lines |-> 0]
    /\ skipped = {}
    /\ gaps = 0
    /\ faults = 0

Append ==
    /\ size[live] < Volume[live]
    /\ size' = [size EXCEPT ![live] = @ + 1]
    /\ UNCHANGED <<from, live, purged, rowVars, pollVars, sinkVars, gaps, faults>>

Purge == IF live - purged > Retain THEN purged + 1 ELSE purged

\* Where a base file without a checkpoint starts: at the end if it was there
\* at the first listing of an instance without checkpoints.  What was written
\* since the newest checkpoint is read, and a base file that lost its own has
\* been renamed since.
startFor == IF from = "end" /\ anchor \in Nat THEN "end" ELSE "beginning"

\* The base file is to be read from the live file, but no read of it succeeded.
Unread == base.kind = "begin" \/ (base.kind = "none" /\ startFor = "end")

(* The hour ends.                                                          *)
Rotate ==
    /\ live < MaxHours
    /\ pc = "plan" \/ (pc = "drain" /\ base.kind # "hour") => "listed" \in Windows
    /\ pc = "idle" /\ Unread => "undrained" \in Windows
    /\ base.kind = "hour" /\ pc # "idle" /\ base.hour <= Purge => "outlived" \in Windows
    /\ live' = live + 1
    /\ purged' = Purge
    /\ age' = [f \in Files |-> IF age[f] < KeepRows THEN age[f] + 1 ELSE KeepRows]
    /\ UNCHANGED <<from, size, base, row, forgotten, pollVars, sinkVars, gaps, faults>>

(* pollOnce lists the log files.  Under start_from = end an instance       *)
(* without checkpoints is anchored at its first listing: the lines in it,  *)
(* rotated hours included, are history.                                    *)
Discover ==
    /\ pc = "idle"
    /\ pc' = "plan"
    /\ seen' = [live |-> live, size |-> size[live], purged |-> purged]
    /\ todo' = Rotated
    /\ IF anchor = NoAnchor /\ from = "end"
       THEN IF base.kind = "none" /\ \A h \in Hours : row[h] = NoRow
            THEN /\ anchor' = size[live]
                 /\ skipped' = {l \in Lines : Written(l)}
            ELSE anchor' = Known /\ UNCHANGED skipped
       ELSE UNCHANGED <<anchor, skipped>>
    /\ drains' = {}
    /\ UNCHANGED <<from, serverVars, rowVars, got, gaps, faults>>

-----------------------------------------------------------------------------
(* planRotation.                                                           *)

ListedRotated == {h \in Hours : seen.purged < h /\ h < seen.live}

BaseRotated == base.kind = "hour" /\ base.hour \in ListedRotated

\* The base marker's hour was purged while a later one is retained.
Gap ==
    /\ base.kind = "hour"
    /\ ~BaseRotated
    /\ \E h \in ListedRotated : base.hour < h

\* Mutant: the hours after the base file's are taken as read.
SeedOwnHourOnly(h) ==
    CASE base.kind = "none"  -> IF startFor = "beginning" THEN 0 ELSE NoRow
      [] base.kind = "begin" -> NoRow
      [] base.kind = "hour"  -> IF h = base.hour THEN base.off ELSE NoRow

\* Mutant: later hours are read from the start even while the base file is in
\* the live hour.
SeedAll(h) ==
    CASE base.kind = "none"  -> IF startFor = "beginning" THEN 0 ELSE NoRow
      [] base.kind = "begin" -> NoRow
      [] base.kind = "hour"  -> IF h = base.hour THEN base.off ELSE 0

\* The position a rotated hour without a checkpoint is given, or NoRow where
\* it is skipped.
Seed(h) ==
    CASE base.kind = "none"  -> IF startFor = "beginning" THEN 0 ELSE NoRow
      [] base.kind = "begin" -> NoRow
      [] base.kind = "hour"  ->
            IF h = base.hour THEN base.off
            ELSE IF h > base.hour /\ (BaseRotated \/ Gap) THEN 0
            ELSE NoRow

(* One rotated hour, oldest first: drain a tracked one until it is read to *)
(* the end, seed a new one or skip it.                                     *)
PlanHour ==
    /\ pc = "plan"
    /\ todo # {}
    /\ LET h == CHOOSE k \in todo : \A j \in todo : k <= j
           pos == IF row[h] # NoRow THEN row[h] ELSE Seed(h)
           \* a seed of 0 or of a row at 0 is no hour marker: drain it anyway
           wanted == pos # NoRow /\ (row[h] = NoRow \/ pos = 0 \/ pos < size[h])
       IN  /\ row' = [row EXCEPT ![h] = pos]
           /\ age' = [age EXCEPT ![h] = IF pos # row[h] THEN 0 ELSE @]
           /\ drains' = IF wanted THEN drains \union {h} ELSE drains
           /\ todo' = todo \ {h}
    /\ UNCHANGED <<from, serverVars, base, forgotten, pc, seen, anchor, sinkVars, gaps, faults>>

\* Mutant: the base file goes on from its old marker after the hand-over.
PlanBaseKeep ==
    /\ pc = "plan"
    /\ todo = {}
    /\ gaps' = IF Gap THEN gaps + 1 ELSE gaps
    /\ drains' = drains \union {Base}
    /\ pc' = "drain"
    /\ UNCHANGED <<from, serverVars, rowVars, seen, anchor, todo, sinkVars, faults>>

(* The hours planned, the base file restarts at the live file's beginning  *)
(* if its hour was handed over.                                            *)
PlanBase ==
    /\ pc = "plan"
    /\ todo = {}
    /\ gaps' = IF Gap THEN gaps + 1 ELSE gaps
    /\ IF BaseRotated \/ Gap THEN SetBase(Beginning) ELSE UNCHANGED <<base, age>>
    /\ drains' = drains \union {Base}
    /\ pc' = "drain"
    /\ UNCHANGED <<from, serverVars, row, forgotten, seen, anchor, todo, sinkVars, faults>>

-----------------------------------------------------------------------------
(* Drains of this poll, in any order and interleaved.                      *)

Done(f) ==
    /\ drains' = drains \ {f}
    /\ pc' = IF drains = {f} THEN "idle" ELSE "drain"
    /\ UNCHANGED <<seen, anchor, todo>>

\* Mutant: an hour is drained although it has been read to its end.
PullHourPastEnd ==
    /\ pc = "drain"
    /\ \E h \in drains \ {Base} :
         IF h > purged /\ row[h] \in 0 .. size[h]
         THEN /\ Give(h, row[h])
              /\ SetRow(h, row[h] + 1)
              /\ UNCHANGED pollVars
         ELSE Done(h) /\ UNCHANGED <<got, row, age>>
    /\ UNCHANGED <<from, serverVars, base, forgotten, skipped, gaps, faults>>

\* A rotated file by name: always its own lines, whatever the marker's hour.
\* The drain ends with a Set at the file's end, also where the row has been
\* swept meanwhile, or fails because the file is gone.
PullHour ==
    /\ pc = "drain"
    /\ \E h \in drains \ {Base} :
         \/ /\ h > purged
            /\ row[h] \in 0 .. size[h] - 1
            /\ Give(h, row[h])
            /\ SetRow(h, row[h] + 1)
            /\ UNCHANGED pollVars
         \/ /\ h > purged
            /\ row[h] \notin 0 .. size[h] - 1
            /\ SetRow(h, size[h])
            /\ Done(h)
            /\ UNCHANGED got
         \/ /\ h <= purged
            /\ Done(h)
            /\ UNCHANGED <<row, age, got>>
    /\ UNCHANGED <<from, serverVars, base, forgotten, skipped, gaps, faults>>

\* anchorSize, and SkipToEnd from it: the anchor's offset in the hour now
\* live, or that file's end where the anchor is 0 or a probe finds one line.
AnchorSize == IF anchor \in 0 .. seen.size THEN anchor ELSE seen.size
Tail == IF AnchorSize > 0 /\ size[live] > 1 THEN AnchorSize ELSE size[live]

SkipBase ==
    /\ pc = "drain"
    /\ Base \in drains
    /\ base.kind = "none"
    /\ startFor = "end"
    /\ SetBase(At(live, Tail))
    /\ skipped' = skipped \union {l \in Lines : l[1] = live /\ l[2] <= Tail}
    /\ Done(Base)
    /\ UNCHANGED <<from, serverVars, row, forgotten, got, gaps, faults>>

\* What RDS reads for a marker on the base name: the marker's hour while it
\* has unread lines, then the live file if that is the next hour; a marker of
\* a purged hour reads the live file at its offset.
ReadFrom ==
    CASE base.kind # "hour"            -> At(live, 0)
      [] base.kind = "hour"            ->
            IF base.hour <= purged THEN At(live, base.off)
            ELSE IF base.hour = live - 1 /\ base.off >= size[base.hour] THEN At(live, 0)
            ELSE base

PullBase ==
    /\ pc = "drain"
    /\ Base \in drains
    /\ base.kind # "none" \/ startFor = "beginning"
    /\ LET m == ReadFrom IN
       IF m.off < size[m.hour]
       THEN /\ Give(m.hour, m.off)
            /\ SetBase(At(m.hour, m.off + 1))
            /\ UNCHANGED pollVars
       ELSE /\ Done(Base)
            /\ UNCHANGED got
            /\ \E c \in IF base.kind = "hour" THEN {m}
                        ELSE {IF k = "hour" THEN m ELSE Beginning : k \in EmptyMarkers} : SetBase(c)
    /\ UNCHANGED <<from, serverVars, row, forgotten, skipped, gaps, faults>>

-----------------------------------------------------------------------------
(* The sweep of old checkpoints, in the background or by "state gc" of      *)
(* another process, next to the polls: any row not Set for KeepRows hours. *)
(* Every drain that succeeds Sets its file's row, so what a drain has to   *)
(* go on from, or planRotation to go by, gets that old only if the drains  *)
(* fail for that long.  Then it is swept between polls.                    *)

\* Without a base checkpoint an hour's row is what keeps it from being read
\* from its beginning.
Needed(h) == row[h] < size[h] \/ base.kind = "none"

Missed == pc = "idle" /\ "unset" \in Windows

\* Mutant: the sweep takes any row of a rotated hour for one read to its end.
SweepRotated ==
    /\ \E h \in Hours :
          /\ row[h] # NoRow
          /\ age[h] = KeepRows
          /\ row' = [row EXCEPT ![h] = NoRow]
    /\ UNCHANGED <<from, serverVars, base, age, forgotten, pollVars, sinkVars, gaps, faults>>

Sweep ==
    /\ \/ \E h \in Hours :
            /\ row[h] # NoRow
            /\ age[h] = KeepRows
            /\ Needed(h) => Missed
            /\ row' = [row EXCEPT ![h] = NoRow]
            /\ forgotten' = IF Needed(h) THEN forgotten \union {h} ELSE forgotten
            /\ UNCHANGED base
       \/ /\ base.kind # "none"
          /\ age[Base] = KeepRows
          /\ Missed
          /\ base' = Missing
          /\ forgotten' = forgotten \union {Base}
          /\ UNCHANGED row
    /\ UNCHANGED <<from, serverVars, age, pollVars, sinkVars, gaps, faults>>

(* A file's drain fails; the others of the poll go on.                     *)
DrainFail ==
    /\ pc = "drain"
    /\ Fault
    /\ \E f \in drains : Done(f)
    /\ UNCHANGED <<from, serverVars, rowVars, sinkVars, gaps>>

(* A Set of planRotation fails: the poll is given up.                      *)
PlanFail ==
    /\ pc = "plan"
    /\ Fault
    /\ pc' = "idle"
    /\ todo' = {}
    /\ drains' = {}
    /\ UNCHANGED <<from, serverVars, rowVars, seen, anchor, sinkVars, gaps>>

Crash ==
    /\ Fault
    /\ pc' = "idle"
    /\ todo' = {}
    /\ drains' = {}
    /\ anchor' = NoAnchor
    /\ UNCHANGED <<from, serverVars, rowVars, seen, sinkVars, gaps>>

-----------------------------------------------------------------------------
Worker == Discover \/ PlanHour \/ PlanBase \/ PullHour \/ SkipBase \/ PullBase
Failure == DrainFail \/ PlanFail \/ Crash
Next == Append \/ Rotate \/ Worker \/ Sweep \/ Failure

(* Polls repeat and every file of a poll is drained to its end.            *)
Spec ==
    /\ Init /\ [][Next]_vars
    /\ WF_vars(Discover \/ PlanHour \/ PlanBase)
    /\ WF_vars(PullHour) /\ WF_vars(SkipBase \/ PullBase)
-----------------------------------------------------------------------------
TypeOK ==
    /\ from \in Froms
    /\ live \in Hours
    /\ size \in [Hours -> Nat]
    /\ \A h \in Hours : size[h] <= Volume[h]
    /\ purged \in 0 .. MaxHours
    /\ base \in [kind : {"none", "begin", "hour"}, hour : 0 .. MaxHours, off : Nat]
    /\ row \in [Hours -> Nat \union {NoRow}]
    /\ \A h \in Hours : row[h] <= size[h]
    /\ age \in [Files -> 0 .. KeepRows]
    /\ forgotten \subseteq Files
    /\ pc \in {"idle", "plan", "drain"}
    /\ seen \in [live : 0 .. MaxHours, size : Nat, purged : 0 .. MaxHours]
    /\ anchor \in Nat \union {NoAnchor, Known}
    /\ todo \subseteq Hours
    /\ drains \subseteq Files
    /\ got \in [Lines -> Nat]
    /\ skipped \subseteq Lines
    /\ gaps \in Nat
    /\ faults \in 0 .. MaxFaults

\* A durable checkpoint from which line l will still be read.
Ahead(l) ==
    LET h == l[1] IN
    IF row[h] # NoRow THEN row[h] < l[2]
    ELSE \/ base.kind = "none"
         \/ base.kind = "begin" /\ h = live
         \/ base.kind = "hour" /\ base.hour < h
         \/ base.kind = "hour" /\ base.hour = h /\ base.off < l[2]

\* Lines whose place in the log the sweep made the worker forget: those of an
\* hour whose row it removed too early and, if that was the base file's,
\* those that start_from = end then leaves out.
Forgotten(l) == l[1] \in forgotten \/ (Base \in forgotten /\ from = "end")

(* No hour is passed over (worker.go:484-486): a retained line has been    *)
(* delivered, or some checkpoint is still before it, or start_from = end   *)
(* left it out; and the sweep of a checkpoint makes no difference unless   *)
(* it was still needed.                                                    *)
NothingPassedOver ==
    \A l \in Lines :
        Written(l) /\ l[1] > purged => got[l] > 0 \/ Ahead(l) \/ l \in skipped \/ Forgotten(l)

(* No hour is read twice (README.md:604), nor a line that start_from = end *)
(* left out, unless the sweep removed a checkpoint that was still needed.  *)
ReadOnce ==
    \/ Base \in forgotten
    \/ \A l \in Lines : l[1] \in forgotten \/ (got[l] <= 1 /\ (l \in skipped => got[l] = 0))

(* In the end every line that RDS keeps long enough is delivered, once the *)
(* server has written its last.                                            *)
EventuallyRead ==
    <>[](\A l \in Lines :
            Written(l) => got[l] > 0 \/ l \in skipped \/ l[1] <= purged \/ Forgotten(l))
=============================================================================
