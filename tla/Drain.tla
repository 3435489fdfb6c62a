-------------------------------- MODULE Drain --------------------------------
(***************************************************************************)
(* One log file of one RDS instance and the worker that drains it:         *)
(* internal/pipeline/worker.go, drainFile, with the parts of               *)
(* internal/source/rds/fetcher.go it calls.                                *)
(*                                                                         *)
(* A line is its position in the file and a record is the set of lines it  *)
(* was built from.  A marker is the number of lines before it, so a chunk  *)
(* is a pair of markers.  Record wording, byte counts and the one-megabyte *)
(* cap on a record are abstracted away; shrinking files and restarts of    *)
(* the server belong to another module.                                    *)
(***************************************************************************)
EXTENDS Integers, FiniteSets

CONSTANTS
    MaxLines,         \* the server stops writing after this many lines
    ChunkLines,       \* most lines one DownloadDBLogFilePortion returns
    Configs,          \* the configurations to consider
    MaxFaults         \* bound on failed calls, stops and crashes

(* batch is MaxBatchRecords, where 0 means a flush after every chunk;      *)
(* multiline says that the engine has a parser (GroupsMultiline), so that  *)
(* a record may span lines; from is runtime.start_from; parallel says that *)
(* a large backlog is read in waves (parallel_reads > 1, not an error log).*)
Config == [batch : Nat, multiline : BOOLEAN, from : {"beginning", "end"}, parallel : BOOLEAN]

ASSUME DrainAssumption ==
    /\ MaxLines \in Nat
    /\ ChunkLines \in Nat \ {0}
    /\ Configs \subseteq Config
    /\ MaxFaults \in Nat

VARIABLES
    conf,           \* the worker's configuration
    heads,          \* lines that start a record: those the parser recognises
                    \* as the start of an entry, or every line without a parser
    size,           \* lines the server has written so far
    ckpt,           \* the durable checkpoint: found, marker, skip
    anchor,         \* w.initialSize of the file, or NotSeen before the first poll
    pc,             \* where drainFile is
    marker,         \* next chunk to pull
    pending,        \* records pulled and not yet given to the sink
    lastStart,      \* marker of the chunk the newest pending record began in
    lastStartSkip,  \* that chunk opens with lines of an earlier record
    skipLeading,    \* drop the opening continuation of the next chunk
    atEnd,          \* the last chunk said no more data is pending
    base,           \* history: where delivery was promised to begin
    sunk,           \* history: records the sink has
    copies,         \* history: how often the sink got each line
    exposed,        \* history: sink batches since the last durable Set
    cuts,           \* history: lines after which a pull met the end of the
                    \* file while their entry went on
    faults          \* history: failures so far

fileVars == <<conf, heads, size>>
memVars  == <<pc, marker, pending, lastStart, lastStartSkip, skipLeading, atEnd>>
sinkVars == <<sunk, copies, exposed>>
vars == <<fileVars, ckpt, anchor, memVars, base, sinkVars, cuts, faults>>

Lines   == 1 .. MaxLines
Markers == 0 .. MaxLines
NotSeen == -1

Acked == UNION sunk

-----------------------------------------------------------------------------
(* The fetcher.                                                            *)

\* Line l and the continuation lines that follow it, up to line e.
Span(l, e) == {k \in l .. e : \A j \in (l + 1) .. k : j \notin heads}

ParseRecords(m, e) ==
    {Span(l, e) : l \in {k \in (m + 1) .. e : k = m + 1 \/ k \in heads}}

LeadingContinuation(m, e) == m < e /\ m + 1 \notin heads

\* Mutant: the chunk is taken to be full although the file has ended.
ChunkEndPastEOF(m) == m + ChunkLines

\* NextMarker: RDS returns the same whole lines for the same marker, fewer
\* only where the file ends.
ChunkEnd(m) == IF m + ChunkLines < size THEN m + ChunkLines ELSE size

\* SkipToEnd: a one-line probe answers at once when nothing follows it; the
\* marker built from the anchor is used unless the anchor is 0, which pages
\* to the current end instead.
SkipToEnd == IF size > 1 /\ anchor > 0 THEN anchor ELSE size

-----------------------------------------------------------------------------
(* What drainFile does with a chunk (m, e].                                *)

\* The opening continuation lines leave the chunk: they join the newest
\* pending record, or were shipped before the checkpoint was taken.
Absorbs(m, e) == LeadingContinuation(m, e) /\ (pending # {} \/ skipLeading)

\* Mutant: a joined continuation stays in the chunk as a record of its own.
ChunkRecordsKeepingLead(m, e) == ParseRecords(m, e)

ChunkRecords(m, e) ==
    IF Absorbs(m, e) THEN ParseRecords(m, e) \ {Span(m + 1, e)}
                     ELSE ParseRecords(m, e)

JoinContinuation(m, e) ==
    IF Absorbs(m, e)
    THEN {IF m \in r THEN r \union Span(m + 1, e) ELSE r : r \in pending}
    ELSE pending

\* flush's argument holdLast, and the record it carries over.
HoldLast == pc = "flush" /\ ~atEnd /\ conf.multiline
Carry == IF HoldLast THEN {r \in pending : marker \in r} ELSE {}

\* Mutant: the checkpoint ignores the carried record.
NextCheckpointPastCarry == [found |-> TRUE, marker |-> marker, skip |-> FALSE]

\* Mutant: SkipContinuation is not saved.
NextCheckpointNoSkip ==
    [found |-> TRUE, marker |-> IF Carry # {} THEN lastStart ELSE marker, skip |-> FALSE]

\* The checkpoint flush saves.
NextCheckpoint ==
    IF Carry # {}
    THEN [found |-> TRUE, marker |-> lastStart, skip |-> lastStartSkip]
    ELSE [found |-> TRUE, marker |-> marker, skip |-> FALSE]

Full(p) == conf.batch = 0 \/ Cardinality(p) >= conf.batch

\* The worker forgets the drain; the next poll starts from the checkpoint.
Forget ==
    /\ pc' = "idle"
    /\ marker' = 0
    /\ pending' = {}
    /\ lastStart' = 0
    /\ lastStartSkip' = FALSE
    /\ skipLeading' = FALSE
    /\ atEnd' = FALSE

Fault ==
    /\ faults < MaxFaults
    /\ faults' = faults + 1

-----------------------------------------------------------------------------
Init ==
    /\ conf \in Configs
    /\ heads \in IF conf.multiline THEN SUBSET Lines ELSE {Lines}
    /\ size = 0
    /\ ckpt = [found |-> FALSE, marker |-> 0, skip |-> FALSE]
    /\ anchor = NotSeen
    /\ pc = "idle"
    /\ marker = 0
    /\ pending = {}
    /\ lastStart = 0
    /\ lastStartSkip = FALSE
    /\ skipLeading = FALSE
    /\ atEnd = FALSE
    /\ base = 0
    /\ sunk = {}
    /\ copies = [l \in Lines |-> 0]
    /\ exposed = 0
    /\ cuts = {}
    /\ faults = 0

(* The server writes a line; it may do so between any two calls.           *)
Append ==
    /\ size < MaxLines
    /\ size' = size + 1
    /\ UNCHANGED <<conf, heads, ckpt, anchor, memVars, base, sinkVars, cuts, faults>>

(* The first poll of a process: under start_from = end a file of a         *)
(* never-seen instance is anchored at its present size.                    *)
Discover ==
    /\ anchor = NotSeen
    /\ anchor' = IF conf.from = "end" /\ ~ckpt.found THEN size ELSE 0
    /\ UNCHANGED <<fileVars, ckpt, memVars, base, sinkVars, cuts, faults>>

\* Mutant: the drain always begins at the start of the file.
BeginDrainAtStart ==
    /\ pc = "idle"
    /\ anchor # NotSeen
    /\ ckpt.found \/ conf.from = "beginning"
    /\ pc' = "pull"
    /\ marker' = 0
    /\ lastStart' = 0
    /\ skipLeading' = ckpt.skip
    /\ exposed' = 0
    /\ UNCHANGED <<fileVars, ckpt, anchor, pending, lastStartSkip, atEnd, base,
                   sunk, copies, cuts, faults>>

(* drainFile loads the checkpoint, or begins a new file at line 1.         *)
BeginDrain ==
    /\ pc = "idle"
    /\ anchor # NotSeen
    /\ ckpt.found \/ conf.from = "beginning"
    /\ pc' = IF conf.parallel /\ ~ckpt.skip THEN "wave" ELSE "pull"
    /\ marker' = ckpt.marker
    /\ lastStart' = ckpt.marker
    /\ skipLeading' = ckpt.skip
    /\ exposed' = 0
    /\ UNCHANGED <<fileVars, ckpt, anchor, pending, lastStartSkip, atEnd, base,
                   sunk, copies, cuts, faults>>

(* drainFile meets an initial file under start_from = end.                 *)
BeginSkip ==
    /\ pc = "idle"
    /\ anchor # NotSeen
    /\ ~ckpt.found
    /\ conf.from = "end"
    /\ pc' = "skip"
    /\ marker' = SkipToEnd
    /\ UNCHANGED <<fileVars, ckpt, anchor, pending, lastStart, lastStartSkip,
                   skipLeading, atEnd, base, sinkVars, cuts, faults>>

SaveTail ==
    /\ ckpt' = [found |-> TRUE, marker |-> marker, skip |-> FALSE]
    /\ base' = marker

SkipSet ==
    /\ pc = "skip"
    /\ SaveTail
    /\ Forget
    /\ UNCHANGED <<fileVars, anchor, sinkVars, cuts, faults>>

-----------------------------------------------------------------------------
(* parallelDrain, before the loop.  Module ParallelRead shows that what a  *)
(* wave's concurrent reads are joined to is the lines up to some line e,   *)
(* or that the wave is given up.                                           *)

Holds(l, recs) == {r \in recs : l \in r}

\* Mutant: a wave is saved up to where it was read, not to where it shipped.
WaveReadPastHeld ==
    /\ pc = "wave"
    /\ pc' = "ship"
    /\ \E e \in (marker + 1) .. size, last \in BOOLEAN :
          LET recs == ParseRecords(marker, e)
              kept == IF last THEN recs ELSE recs \ Holds(e, recs)
          IN  /\ last => e = size
              /\ kept # {}
              /\ pending' = kept
              /\ marker' = e
              /\ atEnd' = last
              /\ cuts' = IF last /\ e + 1 \in Lines \ heads
                         THEN cuts \union {e} ELSE cuts
    /\ UNCHANGED <<fileVars, ckpt, anchor, lastStart, lastStartSkip, skipLeading,
                   base, sinkVars, faults>>

(* The last wave reads to the end of the file.  Any other holds back its   *)
(* newest record, which may go on, and needs another one to ship.          *)
WaveRead ==
    /\ pc = "wave"
    /\ pc' = "ship"
    /\ \E e \in (marker + 1) .. size, last \in BOOLEAN :
          LET recs == ParseRecords(marker, e)
              kept == IF last THEN recs ELSE recs \ Holds(e, recs)
          IN  /\ last => e = size
              /\ kept # {}
              /\ pending' = kept
              /\ marker' \in UNION kept /\ \A l \in UNION kept : l <= marker'
              /\ atEnd' = last
              /\ cuts' = IF last /\ e + 1 \in Lines \ heads
                         THEN cuts \union {e} ELSE cuts
    /\ UNCHANGED <<fileVars, ckpt, anchor, lastStart, lastStartSkip, skipLeading,
                   base, sinkVars, faults>>

\* The backlog is small, or an exact read is not possible.
WaveGiveUp ==
    /\ pc = "wave"
    /\ pc' = "pull"
    /\ UNCHANGED <<fileVars, ckpt, anchor, marker, pending, lastStart, lastStartSkip,
                   skipLeading, atEnd, base, sinkVars, cuts, faults>>

\* The wave shipped (FlushWrite), its end is saved.
WaveSet ==
    /\ pc = "ship"
    /\ pending = {}
    /\ ckpt' = NextCheckpoint
    /\ exposed' = 0
    /\ lastStart' = marker
    /\ pc' = IF atEnd THEN "pull" ELSE "wave"
    /\ atEnd' = FALSE
    /\ UNCHANGED <<fileVars, anchor, marker, pending, lastStartSkip, skipLeading,
                   base, sunk, copies, cuts, faults>>

-----------------------------------------------------------------------------
(* One turn of the loop: pull a chunk, regroup it with what is pending and *)
(* go on to flush when the file has ended or the batch is full.            *)
Pull ==
    /\ pc = "pull"
    /\ LET e == ChunkEnd(marker)
           recs == ChunkRecords(marker, e)
       IN  /\ pending' = JoinContinuation(marker, e) \union recs
           /\ lastStart' = IF recs # {} THEN marker ELSE lastStart
           /\ lastStartSkip' = IF recs # {} THEN Absorbs(marker, e) ELSE lastStartSkip
           /\ marker' = e
           /\ atEnd' = (e = size)
           /\ cuts' = IF e = size /\ e + 1 \in Lines \ heads
                      THEN cuts \union {e} ELSE cuts
           /\ pc' = IF e = size \/ Full(pending') THEN "flush" ELSE "pull"
    /\ skipLeading' = FALSE
    /\ UNCHANGED <<fileVars, ckpt, anchor, base, sinkVars, faults>>

Deliver(recs) ==
    /\ sunk' = sunk \union recs
    /\ copies' = [l \in Lines |-> copies[l] + Cardinality({r \in recs : l \in r})]

(* flush, first half: the sink takes everything but the carried record;    *)
(* of a wave, all that is pending.                                         *)
FlushWrite ==
    /\ pc \in {"flush", "ship"}
    /\ pending \ Carry # {}
    /\ Deliver(pending \ Carry)
    /\ exposed' = exposed + 1
    /\ pending' = Carry
    /\ UNCHANGED <<fileVars, ckpt, anchor, pc, marker, lastStart, lastStartSkip,
                   skipLeading, atEnd, base, cuts, faults>>

(* flush, second half: the checkpoint stands where the carried record's    *)
(* chunk began, so there is nothing to save yet.                           *)
\* Mutant: a flush that carries a record never saves.
NothingToAdvanceIfCarry == Carry # {}

NothingToAdvance == NextCheckpoint.marker = ckpt.marker /\ Carry # {}

\* Mutant: the carried record is forgotten when nothing is saved.
FlushKeepNothing ==
    /\ pc = "flush"
    /\ pending \ Carry = {}
    /\ NothingToAdvance
    /\ pc' = "pull"
    /\ pending' = {}
    /\ UNCHANGED <<fileVars, ckpt, anchor, marker, lastStart,
                   lastStartSkip, skipLeading, atEnd, base, sinkVars, cuts, faults>>

FlushKeep ==
    /\ pc = "flush"
    /\ pending \ Carry = {}
    /\ NothingToAdvance
    /\ pc' = "pull"
    /\ UNCHANGED <<fileVars, ckpt, anchor, marker, pending, lastStart,
                   lastStartSkip, skipLeading, atEnd, base, sinkVars, cuts, faults>>

\* Mutant: the checkpoint is saved before the sink write.
FlushSetFirst ==
    /\ pc = "flush"
    /\ ckpt' = NextCheckpoint
    /\ exposed' = 0
    /\ IF atEnd
       THEN Forget
       ELSE /\ pc' = "pull"
            /\ UNCHANGED <<marker, pending, lastStart, lastStartSkip, skipLeading, atEnd>>
    /\ UNCHANGED <<fileVars, anchor, base, sunk, copies, cuts, faults>>

(* flush, second half: save the checkpoint, then pull on or end the drain. *)
FlushSet ==
    /\ pc = "flush"
    /\ pending \ Carry = {}
    /\ ~NothingToAdvance
    /\ ckpt' = NextCheckpoint
    /\ exposed' = 0
    /\ IF atEnd
       THEN Forget
       ELSE /\ pc' = "pull"
            /\ UNCHANGED <<marker, pending, lastStart, lastStartSkip, skipLeading, atEnd>>
    /\ UNCHANGED <<fileVars, anchor, base, sunk, copies, cuts, faults>>

-----------------------------------------------------------------------------
(* Failures.  Each ends the drain; a call that reports an error may still  *)
(* have taken effect.                                                      *)

PullFail ==
    /\ pc \in {"pull", "skip", "wave"}
    /\ Fault
    /\ Forget
    /\ UNCHANGED <<fileVars, ckpt, anchor, base, sinkVars, cuts>>

WriteFail ==
    /\ pc \in {"flush", "ship"}
    /\ pending \ Carry # {}
    /\ Fault
    /\ Forget
    /\ \/ Deliver(pending \ Carry)
       \/ UNCHANGED <<sunk, copies>>
    /\ UNCHANGED <<fileVars, ckpt, anchor, base, exposed, cuts>>

SetFail ==
    /\ pc \in {"flush", "ship"}
    /\ pending \ Carry = {}
    /\ ~NothingToAdvance
    /\ Fault
    /\ Forget
    /\ ckpt' \in {ckpt, NextCheckpoint}
    /\ UNCHANGED <<fileVars, anchor, base, sinkVars, cuts>>

SkipSetFail ==
    /\ pc = "skip"
    /\ Fault
    /\ Forget
    /\ SaveTail \/ UNCHANGED <<ckpt, base>>
    /\ UNCHANGED <<fileVars, anchor, sinkVars, cuts>>

(* The process dies, or the scheduler cancels the worker and a later one   *)
(* takes over: everything in memory is gone.                               *)
Crash ==
    /\ anchor # NotSeen
    /\ Fault
    /\ Forget
    /\ anchor' = NotSeen
    /\ UNCHANGED <<fileVars, ckpt, base, sinkVars, cuts>>

-----------------------------------------------------------------------------
Worker ==
    \/ Discover \/ BeginDrain \/ BeginSkip \/ SkipSet
    \/ WaveRead \/ WaveGiveUp \/ WaveSet
    \/ Pull \/ FlushWrite \/ FlushKeep \/ FlushSet

Failure == PullFail \/ WriteFail \/ SetFail \/ SkipSetFail \/ Crash

Next == Append \/ Worker \/ Failure

(* The poll loop never stops and each call returns, so the worker keeps    *)
(* taking steps; the server need not write and nothing need fail.          *)
Spec == Init /\ [][Next]_vars /\ WF_vars(Worker)
-----------------------------------------------------------------------------
(* Properties.                                                             *)

TypeOK ==
    /\ conf \in Configs
    /\ heads \subseteq Lines
    /\ size \in Markers
    /\ ckpt \in [found : BOOLEAN, marker : Markers, skip : BOOLEAN]
    /\ anchor \in Markers \union {NotSeen}
    /\ pc \in {"idle", "skip", "wave", "ship", "pull", "flush"}
    /\ marker \in Markers
    /\ pending \subseteq SUBSET Lines
    /\ lastStart \in Markers
    /\ lastStartSkip \in BOOLEAN
    /\ skipLeading \in BOOLEAN
    /\ atEnd \in BOOLEAN
    /\ base \in Markers
    /\ sunk \subseteq SUBSET Lines
    /\ copies \in [Lines -> Nat]
    /\ exposed \in Nat
    /\ cuts \subseteq Markers
    /\ faults \in 0 .. MaxFaults

(* At-least-once: the sink has every line the durable checkpoint will not  *)
(* read again, and the lines a resume with SkipContinuation set will drop, *)
(* whatever failed before (drainFile's flush order, worker.go:732-765).    *)
NoLoss ==
    /\ (base + 1) .. ckpt.marker \subseteq Acked
    /\ ckpt.skip => Span(ckpt.marker + 1, size) \subseteq Acked

(* Per-file order (pollOnce's comment, worker.go:302-305): the sink never  *)
(* has a line while an earlier one that it should have is missing.         *)
NoGap == \A l \in Acked : (base + 1) .. l \subseteq Acked

(* Whole entries (worker.go:708-712): a record begins and ends where an    *)
(* entry does, unless a pull met the end of the file there or delivery     *)
(* began there; no crash, hold-back or batch boundary splits one.          *)
WholeEntries ==
    \A r \in sunk : \E lo, hi \in Lines :
        /\ r = lo .. hi
        /\ lo \in heads \/ lo - 1 \in cuts \union {base}
        /\ hi + 1 \in heads \/ hi \in cuts \union {MaxLines}
        /\ (lo + 1) .. hi \intersect heads = {}

(* Duplicates are paid for by failures: a line reaches the sink at most    *)
(* once more than the number of drains that failed.                        *)
DuplicatesNeedFaults == \A l \in Lines : copies[l] <= 1 + faults

(* A failure repeats at most two sink writes: the one not yet saved, and   *)
(* one before it whose carried record began in the checkpointed chunk.     *)
TwoBatchesExposed == exposed <= 2

(* The documented bound (docs/ARCHITECTURE.md:55-56, README.md:587): a     *)
(* crash between the sink's acknowledgement and the saved checkpoint       *)
(* repeats at most one batch.                                              *)
OneBatchExposed == exposed <= 1

(* The durable position never moves back, and a resume flag is dropped     *)
(* only by moving on (worker.go:751-764).                                  *)
CheckpointMonotone ==
    [][/\ ckpt'.marker >= ckpt.marker
       /\ ckpt.found => ckpt'.found
       /\ (ckpt.skip /\ ~ckpt'.skip) => ckpt'.marker > ckpt.marker]_vars

(* SkipToEnd's comment (fetcher.go:391-393): reading resumes at the size   *)
(* the file had when it was first seen.                                    *)
AnchorHonoured ==
    [][base' # base => base' <= anchor]_vars

(* Every line of the file is in the end delivered, unless start_from = end *)
(* skipped it: failures run out and the poll loop does not.                *)
EventuallyDelivered ==
    \A l \in Lines : (l <= size) ~> (l <= base \/ l \in Acked)

Abstract == INSTANCE AtLeastOnce WITH
    written <- size, origin <- base, delivered <- Acked, committed <- ckpt.marker

(* drainFile implements the promise in AtLeastOnce.                        *)
ImplementsAtLeastOnce == Abstract!ASpec
=============================================================================
