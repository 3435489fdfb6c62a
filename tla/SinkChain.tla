------------------------------ MODULE SinkChain ------------------------------
(***************************************************************************)
(* What happens to a batch after a worker hands it to the sinks: the       *)
(* fan-out (internal/sink/sink.go), each sink's filter, retry and          *)
(* dead-letter decorators (filter.go, retry.go, dlq.go, in the order of    *)
(* factory.go), and `rdstail dlq replay` and `dlq purge` (internal/replay, *)
(* internal/cli/dlq.go), which run beside the daemon.                      *)
(*                                                                         *)
(* A batch is a pair <<file, number>>: the worker of a file offers batch n *)
(* until Fanout.Write returns nil for it, then batch n + 1.  Back-off      *)
(* delays, metrics and payload encodings are left out.                     *)
(***************************************************************************)
EXTENDS Integers, Sequences, FiniteSets

CONSTANTS
    Files,          \* log files, each with a worker's drain of its own
    MaxBatches,     \* batches to deliver per file
    Sinks,          \* the configured sinks, a sequence in fan-out order
    Wanted,         \* Wanted[s]: batches with records that pass s's filter
    Known,          \* sinks named in the config that replay reads
    MaxAttempts,    \* retry.max_attempts
    PageSize,       \* rows per DLQList call
    MaxFaults       \* bound on failed calls, cancellations and crashes

Names   == {Sinks[i] : i \in DOMAIN Sinks}
Batches == Files \X (1 .. MaxBatches)

ASSUME SinkChainAssumption ==
    /\ MaxBatches \in Nat
    /\ Sinks \in Seq(Names)
    /\ \A i, j \in DOMAIN Sinks : Sinks[i] = Sinks[j] => i = j
    /\ Wanted \in [Names -> SUBSET Batches]
    /\ Known \subseteq Names
    /\ MaxAttempts \in Nat \ {0}
    /\ PageSize \in Nat \ {0}
    /\ MaxFaults \in Nat

VARIABLES
    hasDLQ,     \* the state store implements state.DLQ (sqlite does, file does not)
    acked,      \* batches of each file that Fanout.Write has acknowledged
    pc,         \* where the Write of each file's current batch is
    at,         \* index of the sink being written
    attempt,    \* that sink's retry attempt
    failed,     \* an earlier sink of this Write returned an error
    rows,       \* table sinks_dlq
    nextId,     \* its AUTOINCREMENT counter
    replay,     \* the replay process
    got,        \* history: how often each sink got each batch
    purged,     \* history: what the operator dropped
    faults      \* history: failures so far

writeVars == <<acked, pc, at, attempt, failed>>
tableVars == <<rows, nextId>>
vars == <<hasDLQ, writeVars, tableVars, replay, got, purged, faults>>

All == "all"            \* no --sink filter
None == [pc |-> "off", sink |-> All, after |-> 0, page |-> <<>>]

Row == [id : Nat, sink : Names, batch : Batches]

Current(f) == <<f, acked[f] + 1>>
Sink(f)    == Sinks[at[f]]
Last       == Len(Sinks) + 1        \* at[f] past every sink

\* The next sink after the i-th that sees any record of batch b: a batch
\* filtered out completely is acknowledged without a write.
NextSink(b, i) ==
    CHOOSE j \in (i + 1) .. Last :
        /\ j = Last \/ b \in Wanted[Sinks[j]]
        /\ \A k \in (i + 1) .. (j - 1) : b \notin Wanted[Sinks[k]]

Give(s, b) == got' = [got EXCEPT ![s][b] = @ + 1]

Fault ==
    /\ faults < MaxFaults
    /\ faults' = faults + 1

-----------------------------------------------------------------------------
Init ==
    /\ hasDLQ \in BOOLEAN
    /\ acked = [f \in Files |-> 0]
    /\ pc = [f \in Files |-> "idle"]
    /\ at = [f \in Files |-> Last]
    /\ attempt = [f \in Files |-> 1]
    /\ failed = [f \in Files |-> FALSE]
    /\ rows = {}
    /\ nextId = 1
    /\ replay = None
    /\ got = [s \in Names |-> [b \in Batches |-> 0]]
    /\ purged = {}
    /\ faults = 0

(* A drain flushes a batch.                                                *)
Begin(f) ==
    /\ pc[f] = "idle"
    /\ acked[f] < MaxBatches
    /\ pc' = [pc EXCEPT ![f] = "write"]
    /\ at' = [at EXCEPT ![f] = NextSink(Current(f), 0)]
    /\ attempt' = [attempt EXCEPT ![f] = 1]
    /\ failed' = [failed EXCEPT ![f] = FALSE]
    /\ UNCHANGED <<hasDLQ, acked, tableVars, replay, got, purged, faults>>

\* Go on to the next sink, ok saying whether this one returned nil.
MoveOn(f, ok) ==
    /\ pc' = [pc EXCEPT ![f] = "write"]
    /\ at' = [at EXCEPT ![f] = NextSink(Current(f), @)]
    /\ attempt' = [attempt EXCEPT ![f] = 1]
    /\ failed' = [failed EXCEPT ![f] = @ \/ ~ok]
    /\ UNCHANGED acked

Writing(f) == pc[f] = "write" /\ at[f] < Last

WriteOk(f) ==
    /\ Writing(f)
    /\ Give(Sink(f), Current(f))
    /\ MoveOn(f, TRUE)
    /\ UNCHANGED <<hasDLQ, tableVars, replay, purged, faults>>

\* An attempt that reports an error may have delivered the batch all the same.
MaybeGiven(s, b) == Give(s, b) \/ UNCHANGED got

\* Mutant: retries run out one attempt late.
RetryForever(f) ==
    /\ Writing(f)
    /\ Fault
    /\ MaybeGiven(Sink(f), Current(f))
    /\ attempt[f] <= MaxAttempts
    /\ attempt' = [attempt EXCEPT ![f] = @ + 1]
    /\ UNCHANGED <<hasDLQ, acked, pc, at, failed, tableVars, replay, purged>>

Retry(f) ==
    /\ Writing(f)
    /\ Fault
    /\ MaybeGiven(Sink(f), Current(f))
    /\ attempt[f] < MaxAttempts
    /\ attempt' = [attempt EXCEPT ![f] = @ + 1]
    /\ UNCHANGED <<hasDLQ, acked, pc, at, failed, tableVars, replay, purged>>

(* The last attempt failed, or any attempt failed permanently: the         *)
(* dead-letter decorator takes over, if there is one.                      *)
Exhausted(f) ==
    /\ Writing(f)
    /\ Fault
    /\ \/ attempt[f] = MaxAttempts /\ MaybeGiven(Sink(f), Current(f))
       \/ UNCHANGED got                             \* PermanentError
    /\ IF hasDLQ
       THEN pc' = [pc EXCEPT ![f] = "park"] /\ UNCHANGED <<acked, at, attempt, failed>>
       ELSE MoveOn(f, FALSE)
    /\ UNCHANGED <<hasDLQ, tableVars, replay, purged>>

(* The last attempt timed out.  Its error, the HTTP client's too, is a     *)
(* context.DeadlineExceeded, which the dead-letter decorator passes on.    *)
TimedOut(f) ==
    /\ Writing(f)
    /\ attempt[f] = MaxAttempts
    /\ Fault
    /\ MaybeGiven(Sink(f), Current(f))
    /\ MoveOn(f, FALSE)
    /\ UNCHANGED <<hasDLQ, tableVars, replay, purged>>

DLQPut(s, b) ==
    /\ rows' = rows \union {[id |-> nextId, sink |-> s, batch |-> b]}
    /\ nextId' = nextId + 1

Park(f) ==
    /\ pc[f] = "park"
    /\ DLQPut(Sink(f), Current(f))
    /\ MoveOn(f, TRUE)
    /\ UNCHANGED <<hasDLQ, replay, got, purged, faults>>

\* Mutant: a failed DLQPut is logged and the batch acknowledged.
ParkFailSwallowed(f) ==
    /\ pc[f] = "park"
    /\ Fault
    /\ UNCHANGED tableVars
    /\ MoveOn(f, TRUE)
    /\ UNCHANGED <<hasDLQ, replay, got, purged>>

ParkFail(f) ==
    /\ pc[f] = "park"
    /\ Fault
    /\ DLQPut(Sink(f), Current(f)) \/ UNCHANGED tableVars
    /\ MoveOn(f, FALSE)
    /\ UNCHANGED <<hasDLQ, replay, got, purged>>

(* Fanout.Write returns; the checkpoint moves only on nil.                 *)
Finish(f) ==
    /\ pc[f] = "write"
    /\ at[f] = Last
    /\ pc' = [pc EXCEPT ![f] = "idle"]
    /\ acked' = IF failed[f] THEN acked ELSE [acked EXCEPT ![f] = @ + 1]
    /\ UNCHANGED <<hasDLQ, at, attempt, failed, tableVars, replay, got, purged, faults>>

(* The worker's context is cancelled, or the process dies.                 *)
Cancel(f) ==
    /\ pc[f] # "idle"
    /\ Fault
    /\ pc' = [pc EXCEPT ![f] = "idle"]
    /\ UNCHANGED <<hasDLQ, acked, at, attempt, failed, tableVars, replay, got, purged>>

-----------------------------------------------------------------------------
(* dlq replay.                                                             *)

ReplayStart(s) ==
    /\ hasDLQ
    /\ replay.pc = "off"
    /\ replay' = [None EXCEPT !.pc = "list", !.sink = s]
    /\ UNCHANGED <<hasDLQ, writeVars, tableVars, got, purged, faults>>

\* Rows after the cursor for the sink asked for, and a page of them: the
\* oldest ones, in order.
Matching == {r \in rows : r.id > replay.after /\ replay.sink \in {All, r.sink}}
IsPage(p) ==
    /\ \A j, k \in DOMAIN p : j < k => p[j].id < p[k].id
    /\ \A r \in Matching : \/ \E k \in DOMAIN p : p[k] = r
                          \/ \A k \in DOMAIN p : p[k].id < r.id

ReplayList ==
    /\ replay.pc = "list"
    /\ LET n == IF Cardinality(Matching) < PageSize THEN Cardinality(Matching) ELSE PageSize
       IN  IF Matching = {} THEN replay' = None
           ELSE \E p \in [1 .. n -> Matching] :
                  IsPage(p) /\ replay' = [replay EXCEPT !.pc = "item", !.page = p]
    /\ UNCHANGED <<hasDLQ, writeVars, tableVars, got, purged, faults>>

Item == Head(replay.page)

\* Mutant: the cursor is not moved past an item that stays in the table.
NextItemSameCursor ==
    replay' = [replay EXCEPT !.page = Tail(@),
                             !.pc = IF Len(replay.page) = 1 THEN "list" ELSE "item"]

NextItem ==
    replay' = [replay EXCEPT !.after = Item.id, !.page = Tail(@),
                             !.pc = IF Len(replay.page) = 1 THEN "list" ELSE "item"]

(* The row's sink is not in the config: the row stays.                     *)
ReplaySkip ==
    /\ replay.pc = "item"
    /\ Item.sink \notin Known
    /\ NextItem
    /\ UNCHANGED <<hasDLQ, writeVars, tableVars, got, purged, faults>>

ReplayWrite ==
    /\ replay.pc = "item"
    /\ Item.sink \in Known
    /\ Give(Item.sink, Item.batch)
    /\ replay' = [replay EXCEPT !.pc = "delete"]
    /\ UNCHANGED <<hasDLQ, writeVars, tableVars, purged, faults>>

(* An attempt fails: replay's own retry tries again, or gives up and       *)
(* leaves the row.                                                         *)
ReplayWriteFail ==
    /\ replay.pc = "item"
    /\ Item.sink \in Known
    /\ Fault
    /\ MaybeGiven(Item.sink, Item.batch)
    /\ NextItem \/ UNCHANGED replay
    /\ UNCHANGED <<hasDLQ, writeVars, tableVars, purged>>

\* Mutant: a delivered row stays in the table.
ReplayDeleteNothing ==
    /\ replay.pc = "delete"
    /\ NextItem
    /\ UNCHANGED <<hasDLQ, writeVars, tableVars, got, purged, faults>>

ReplayDelete ==
    /\ replay.pc = "delete"
    /\ rows' = {r \in rows : r.id # Item.id}
    /\ NextItem
    /\ UNCHANGED <<hasDLQ, writeVars, nextId, got, purged, faults>>

(* --limit, a failed DLQList or DLQDelete, an interrupt, a crash.          *)
ReplayStop ==
    /\ replay.pc # "off"
    /\ Fault
    /\ replay' = None
    /\ UNCHANGED <<hasDLQ, writeVars, tableVars, got, purged>>

(* dlq purge: every row, one sink's rows, or one row.                      *)
Purge ==
    /\ \E gone \in {rows} \union {{r \in rows : r.sink = s} : s \in Names}
                          \union {{r} : r \in rows} :
         /\ gone # {}
         /\ rows' = rows \ gone
         /\ purged' = purged \union {<<r.sink, r.batch>> : r \in gone}
    /\ UNCHANGED <<hasDLQ, writeVars, nextId, replay, got, faults>>

-----------------------------------------------------------------------------
Deliver(f) == Begin(f) \/ WriteOk(f) \/ Park(f) \/ Finish(f)
Replay     == ReplayList \/ ReplaySkip \/ ReplayWrite \/ ReplayDelete
Failure ==
    \/ \E f \in Files : \/ Retry(f) \/ Exhausted(f) \/ TimedOut(f)
                        \/ ParkFail(f) \/ Cancel(f)
    \/ ReplayWriteFail \/ ReplayStop

Next ==
    \/ \E f \in Files : Deliver(f)
    \/ \E s \in Names \union {All} : ReplayStart(s)
    \/ Replay \/ Purge \/ Failure

(* Polling repeats for ever, every call returns, and the operator runs an  *)
(* unfiltered replay again and again.                                      *)
Spec ==
    /\ Init /\ [][Next]_vars
    /\ \A f \in Files : WF_vars(Deliver(f))
    /\ WF_vars(Replay)
    /\ SF_vars(ReplayStart(All))
-----------------------------------------------------------------------------
(* Properties.                                                             *)

TypeOK ==
    /\ hasDLQ \in BOOLEAN
    /\ acked \in [Files -> 0 .. MaxBatches]
    /\ pc \in [Files -> {"idle", "write", "park"}]
    /\ at \in [Files -> 1 .. Last]
    /\ attempt \in [Files -> 1 .. MaxAttempts]
    /\ failed \in [Files -> BOOLEAN]
    /\ rows \subseteq Row
    /\ nextId \in Nat
    /\ replay \in [pc : {"off", "list", "item", "delete"}, sink : Names \union {All},
                   after : Nat, page : Seq(Row)]
    /\ got \in [Names -> [Batches -> Nat]]
    /\ purged \subseteq Names \X Batches
    /\ faults \in 0 .. MaxFaults

Accounted(s, b) ==
    \/ got[s][b] > 0
    \/ \E r \in rows : r.sink = s /\ r.batch = b
    \/ <<s, b>> \in purged

(* Nothing is dropped (README.md:363-365, dlq.go:12-15): a batch behind    *)
(* the checkpoint is in every sink whose filter wants it, or parked for    *)
(* that sink, or purged by the operator.                                   *)
NothingDropped ==
    \A f \in Files, n \in 1 .. MaxBatches, s \in Names :
        n <= acked[f] /\ <<f, n>> \in Wanted[s] => Accounted(s, <<f, n>>)

(* Duplicates are paid for by failures: no interleaving of the daemon,     *)
(* replay and purge alone delivers a batch twice to a sink.                *)
DuplicatesNeedFaults ==
    \A s \in Names, b \in Batches : got[s][b] <= 1 + faults

(* A failing sink does not stop the others or hold back the file: in the   *)
(* end every sink has every batch it wants, or the operator dropped it, or *)
(* it is parked for a sink the replay's configuration does not name.       *)
EventuallyDelivered ==
    \A s \in Names : \A b \in Wanted[s] :
        <>(got[s][b] > 0 \/ <<s, b>> \in purged
           \/ (s \notin Known /\ \E r \in rows : r.sink = s /\ r.batch = b))

(* The dead-letter decorator's comment (dlq.go:24-25) and README.md:363:   *)
(* whatever error ends a sink's retries, the batch is parked and Write     *)
(* returns nil, so a write fails only when the table could not take it.    *)
FailsOnlyUnparked ==
    [][\A f \in Files : hasDLQ /\ ~failed[f] /\ failed'[f] => pc[f] = "park"]_vars
=============================================================================
