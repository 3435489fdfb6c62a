# rdstail in TLA+

rdstail tails the log files of a fleet of RDS instances through the RDS API and
ships their lines to sinks (S3, Kafka, HTTP, stdout), at least once and in
order per file. This directory models the parts of it whose correctness depends
on interleavings, failures and restarts, checks them with TLC on small
instances and proves the most important results with TLAPS.

## The system

| Component | State | Operations | Interacts with |
|---|---|---|---|
| Scheduler (`pipeline/scheduler.go`) | maps `running`, `workers`, semaphore `sem`, watchers | boot, reconcile on a ticker, start/stop a worker, watch restart events, shut down | Resolve (`app/app.go`), workers (contexts, goroutines) |
| Instance worker (`pipeline/worker.go`) | first-listing anchors, stall counters, ring of shipped lines, marks, restart generations, recent error lines | poll: list files, plan rotation, drain each file (serially or under `drainSem`) | fetcher, state store, sink |
| drainFile (`pipeline/worker.go`) | `prev` (checkpoint), `marker`, `pending`, `lastStart`, `lastStartSkip`, `skipLeading` | pull, regroup, flush (sink write, then checkpoint) | fetcher, state store, sink |
| Fetcher (`source/rds/fetcher.go`) | none | list, pull a chunk, skip to end, read a byte range, group lines into records | RDS API |
| Rotation plan (`pipeline/worker.go`, `source/rds/rotation.go`) | checkpoints of the base file and its hour files | hand over, seed, skip, gap | state store, RDS |
| Restart recovery (`pipeline/worker.go`, `scheduler.go`, `source/rds/events.go`) | `restarts`, `restartGen`, `handledGen`, `marks`, `shipped` | notify, rewind, drop shipped lines, commit | drainFile, RDS events |
| Parallel reads (`parallelDrain`, `ReadRange`) | waves of byte ranges | read, verify tiling, ship, checkpoint | drainFile, RDS |
| Sink chain (`sink/*.go`) | per-call retry state | fan out, filter, retry, park | sinks, dead-letter table |
| Dead-letter table and replay (`state/sqlite`, `replay`, `cli/dlq.go`) | `sinks_dlq` | put, list, delete, purge, replay | sink chain (concurrently) |
| Error log phases (`pipeline/worker.go`) | `recentErrors`, `initialFiles`, `horizon` | drain the realtime log, then its running copy without what was shipped | drainFile, checkpoint store, RDS's copying |
| Checkpoint store (`state/*`) | table or JSON file | get, set, list, delete, GC | workers, GC goroutine, `state gc` |
| Resolve and shards (`app/app.go`, `source/rds/discovery.go`, `shard/shard.go`) | client cache | list the fleet, filter, deduplicate, take the shard's part | scheduler |
| Pacing (`pipeline/worker.go`, `sink/retry.go`) | the current delay | next poll, next attempt | workers, sinks |
| Policy generator (`iampolicy`) | – | permissions for a configuration | the AWS calls of all parts |
| Configuration, parsing, wizard, cost tool, metrics | – | sequential or observation only | – |

What makes it hard: every worker polls, the server appends, truncates, rotates
and purges at the same time; any RDS call, sink write or checkpoint write may
fail with or without effect; the process may die between a sink's
acknowledgement and the checkpoint; several files are drained concurrently into
the same sinks; the dead-letter table is changed by the daemon and by operator
commands; instances come and go while their workers are winding down.

What each part must guarantee:

* **Drain** – the durable checkpoint never passes a line the sink has not taken;
  lines of a file reach the sink in order; multi-line entries are not split by
  batches, hold-backs or crashes; duplicates are bounded by failures.
* **Rotation** – no retained hour is passed over and none is read twice.
* **Sink chain** – a batch behind the checkpoint is in every sink that wants it,
  or parked, or purged by the operator; one failing sink does not hold back the
  others for ever.
* **Scheduler** – one worker per instance, the cap holds, the fleet that fits is
  tailed, departed workers stop, shutdown ends.
* **Restart recovery** – no line RDS kept is missed, and what is re-read is not
  shipped again.
* **Parallel reads** – the ranges of a wave tile the file and waves follow each
  other without gap, overlap or cut entry.
* **Error logs** – a line that truncation takes from the realtime log comes from
  the running one, and no line comes from both without a failure.
* **Checkpoint store** – what was acknowledged is what the next process finds.
* **Resolve and shards** – processes split the fleet, and an instance is read
  once, one way.
* **Pacing** – throttling slows a worker down; every wait is defined.
* **Policy generator** – no call the daemon makes is refused.

## Modules

| Module | Content |
|---|---|
| `AtLeastOnce` | abstract: what is promised about one file |
| `Drain` | drainFile with the fetcher: one action per step between two calls |
| `DrainProofs` | invariants of Drain and its refinement of AtLeastOnce, proved |
| `Rotation` | planRotation with listing and drains of a poll |
| `RotationProofs` | nothing is read twice or passed over, proved |
| `SinkChain` | Fanout, filter, retry and dead-letter decorators, replay, purge |
| `SinkChainProofs` | invariants of SinkChain, proved |
| `Scheduler` | Scheduler.Run and the life of a worker |
| `SchedulerProofs` | invariants of Scheduler, proved |
| `Restart` | a restart of the database server under a file, and the rewind |
| `RestartProofs` | types, each restart counted once, no kept line missed, none shipped twice, proved |
| `CheckpointStore` | the state stores: sqlite, file, memory |
| `CheckpointStoreProofs` | an acknowledged checkpoint survives, proved |
| `ErrorLogs` | the two MySQL error logs polled over a `CheckpointStore` |
| `ErrorLogsProofs` | invariants of ErrorLogs, proved |
| `ParallelRead` | ReadRange and the joining of a wave, on bytes |
| `Fleet` | Resolve, the listing's filters, sharding |
| `Pacing` | delays of polls and retries |
| `AlgorithmProofs` | `ParallelRead`'s ranges tile, `Fleet`'s shares split the fleet, when `Pacing` keeps to poll_interval, proved |
| `Permissions` | the generated IAM policy against the calls made |
| `MCDrain`, `MCRestart`, `MCRotation`, `MCSinkChain`, `MCScheduler`, `MCErrorLogs` | instances for TLC |

### Drain

A line is its position, a record the set of its lines, a marker the number of
lines before it. `heads` (which lines start an entry) is chosen at the start,
so every grouping is considered. `Pull` is one turn of the pagination loop;
`FlushWrite` and the three ends of `flush` (`FlushSet`, `FlushKeep` and
failures) are separate steps because a crash between them is what the design is
about. `Append` may happen between any two steps. Every failing call may have
taken effect (`WriteFail`, `SetFail`); a failed drain or a crash forgets
everything in memory. The byte threshold is represented by the record
threshold; the one-megabyte caps on records and responses, batch identifiers
and the fetcher's re-fetch of a truncated response are left out. `start_from =
end` is modelled with the anchor taken at the first listing. Before its loop a
drain may run waves (`parallel`): `WaveRead` takes any end up to the size, holds
back the last record unless the wave is the last one, and `WaveSet` saves what
it shipped; `WaveGiveUp` falls back to the loop. That a wave's text is exactly
the lines between its ends is `ParallelRead`'s part.

`AtLeastOnce` states the promise: lines are delivered in order from an origin,
and a durable position follows behind. `ImplementsAtLeastOnce` maps `size`,
`base`, the union of the delivered records and the checkpoint's marker to it.

### Rotation

Lines are pairs of an hour and a position. The module has the poll's phases:
`Discover` lists, `PlanHour` plans the rotated files oldest first, `PlanBase`
hands the base file over, then the drains run in any order; a pull, its write
and its checkpoint are one step (Drain has their interleavings). What RDS
answers for a marker is taken from the comments in `rotation.go`. CONSTANT
`Windows` names three situations in which the server rotates although the code
relies on its not doing so (a poll is short against an hour); all are closed in
the passing run, and `rotation_outage` opens one of them. `EmptyMarkers` covers
what RDS may answer for an empty live file. When an hour is purged the module
stops requiring its lines. `Sweep` is the GC of checkpoints, the daemon's or that
of `state gc --older-than` beside it: it takes any row that no Set has renewed
for `KeepRows` hours (`age`; an hour is the least `state gc` accepts), whether or
not RDS still has the file. A drain that succeeds Sets its file's row, so the rows
of hours read to their end grow old, and planRotation must do without them;
the base file's row and those of unread hours grow old only where no drain of
them has succeeded for that long ("unset" in `Windows`). They are swept then too;
`forgotten`, a history variable, keeps the lines this concerns out of the
properties (see Observations).

### SinkChain

A batch is a file and a number; `Begin` to `Finish` is one `Fanout.Write`. For
each sink the attempts, the permanent error, the time-out and the dead-letter
write are separate actions, and other files, replay and purge run in between.
An attempt that fails may have delivered. `Wanted` is the filter; a batch no
record of which passes is acknowledged without a write. Replay reads pages by
id and deletes after the acknowledgement. After a failed `Write` the file's
batch is offered again; that the next pull may form another batch is left out.

### Scheduler

`Change` is any instance joining or leaving between two `Resolve` calls.
Workers are numbered per instance, so the model can tell a worker from its
successor. `Acquire`/`Release` are the semaphore, `Forget` the deferred deletion
of the map entries. A poll is an interval; the context is looked at when it
ends. `MaxStarts` bounds the workers of an instance: one per departure, and
once more when `select` prefers the ticker after the context is done; no run is
stopped by it while the context is live. The global drain pool (`drainSem`) and
the restart watcher are not in this module.

### Restart

The file is a sequence of lines with the tick they were written at; a line that
a restart loses takes its number with it, so a line is never confused with the
one written in its place. `ServerShutdown` is what RDS may report before a restart
(a shutdown, a failover that starts), up to `EventLead` ticks ahead, and
`ServerRestart` the restart: it removes up to `TailLines` young lines, appends the
banner, and is reported by one or several events of the same tick or later ones,
up to `EventLag`. So the notices of one restart have different dates, and
`NotifyRestart` has to fold them. `TellRestart` is `watchRestarts`
(`untold` are the events its next polls return, in any order; `Crash` puts those of
the look-back there again); `Pull` notes banners. `told` numbers the restarts a
process was told of by what the server did, not by the window. A poll takes its listing at `List`
and may act on it much later. `BeginDrain` is drainFile up to its loop: it
skips an idle file, or rewinds (`RewindFrom`, `RewoundDrain`); `Pull` drops the
first, possibly cut, line and what the ring has; `Flush` delivers, remembers,
saves, records the mark and commits the restart. A batch may be flushed after
any chunk. RDS may answer a marker past the end of the file with the marker
itself or with the end. `marks` keeps the newest mark of a tick and the oldest
of all, which is what `markBefore` can return. What `dropAlreadyShipped` keeps is
written as a function on positions (`Nth` is the i-th of a set of positions), in
which form it can be proved about. The assumptions are those the
code's comments make: what a restart loses is younger than `restartMargin` before
the last report of it and smaller than `rewindBytes`; events are polled within the
look-back. Entries
of several lines, hourly files and start positions are in the other modules.

### CheckpointStore and ErrorLogs

`CheckpointStore` has `stored`, what a new process finds, and `cached`, the map
the file and memory stores keep; sqlite asks its table each time. `acked` and
`tried` are history: what the last acknowledged Set left, and what failed ones
since would have. The file store changes its map before it writes the document,
so between a failed persist and the next good one readers see a checkpoint that
a restart would take back; `AckedSurvives` says that this is all that happens.
`StoreSpec` is the store by itself, and `ErrorLogs` uses the same operators.

`ErrorLogs` is one poll after another over the realtime and the running log.
RDS's `Copy` appends the one to the other and truncates it between any two
steps. `recent` is the set of shipped lines with its limit and its hour, written
when the realtime drain's write succeeded and consulted by the running drain;
`startFor` has the first listing and the horizon. `Crash` brings a new process,
at once or after `checkpoint_retention`, and then the sweep races the first
poll. A drain pulls all there is: chunks are Drain's part.

### Operators over data

`ParallelRead`, `Fleet`, `Pacing` and `Permissions` are pure: they compute what
one call returns. They are checked by assumptions that TLC evaluates over all
small inputs (in `MCDrain` and `MCScheduler`), and the main results of the first
three are proved for all inputs. `ParallelRead` is on bytes: newlines, what each of the concurrent
reads saw of the growing file, and what cutRange makes of it. `Fleet` takes the
hash of the shards as any weights, so what it says does not depend on FNV.
`Pacing` has a delay with a random part as the set of its values. In
`Permissions` an ARN is a sequence and a wildcard a prefix.

## Runs

| Run | Expectation | What it asks |
|---|---|---|
| `drain` | pass | Is a growing file of five lines, in chunks of two, with and without parallel waves, with one fault at any step, delivered without loss, disorder, split entries or unbounded duplicates? And (as an assumption) do concurrent reads of any file of eight bytes tile it? |
| `sinks` | pass | Do two concurrent files, two sinks (one filtered, one unknown to replay), two attempts, two faults, pages of one row account for every batch? |
| `rotation` | pass | Over four hours, two of them retained, with a sweep of every checkpoint an hour old, also after an outage, one fault: is every retained line read exactly once, unless the sweep took a checkpoint that was still needed? |
| `scheduler` | pass | Two buildable instances and one that is not, two changes, enough slots or one: do the guarantees of the scheduler hold? And (as assumptions) do shards split small fleets, does the generated policy allow every call, when are polls and retries paced? |
| `errorlogs` | pass | Three error lines, three copies, each store, both start positions, one failed call or crash: is every line shipped, none twice without a reason, and does what was acknowledged survive? |
| `restart` | pass | Two server restarts, each reported by a shutdown, by events of other dates and by a banner, in any order with drains: is every kept line behind the checkpoint shipped, and are exactly the restarts counted that the process was told of? |
| `restart_delivers` | pass | One restart, one failed call or crash at any step: does every kept line arrive, none twice without a failure, and does a new process count the restart once? |
| `drain_batch` | violation | docs/ARCHITECTURE.md:55: at most one duplicate batch after a crash |
| `drain_anchor` | violation | fetcher.go:393: reading resumes at the size first seen |
| `sinks_timeout` | violation | dlq.go:24: any error parks the batch |
| `rotation_outage` | violation | worker.go:487: every hour file is read exactly once |
| `restart_folded` | violation | README.md:608: after a reboot or failover no line RDS kept is missed |

The five violations are disagreements between a comment or document and the
code, with the sources quoted in `PROJECT.json`. In short: a flush whose carried
record began in the checkpointed chunk saves nothing, so two batches are exposed
(the true bound, two, is `TwoBatchesExposed`); `SkipToEnd` skips lines written
since the first listing if that size was 0 or a probe finds a single line; a
time-out of the sink itself looks like a cancellation and is not parked; and
after a hand-over, an hour that begins and ends without one successful drain of
the base file is skipped without a gap report; and a notice that is folded into
one whose rewind has begun causes no rewind. The last needs no failure: RDS reports
a shutdown, or a failover that starts; a drain begins its rewind; then the server
cuts the file and starts. The events that follow, and the banner, are within 90 s of
the first notice, so NotifyRestart drops them, the drain marks the restart handled,
and what stands where the lost tail was, behind the checkpoint, is not read.

`NoKeptLineMissedIfMarked` is the guarantee with this and two more cases set aside
by history variables:

* `forestalled`: the case just told.
* `unmarked`: the process that rewinds has no position of its own from before the
  restart. The marks die with the process and its first batch may span the
  restart; markBefore (worker.go:1119) then returns the oldest mark it has, or
  none, and the rewind starts 256 KB before a position that may be further than
  that past the lost tail. It also covers a mark past the end of the file, saved
  before an earlier restart cut it (`Marked`).
* `overshot`: a rewind that goes forward. worker.go:671-676 takes the mark it
  finds also where the checkpoint is behind it. A rewind for one restart saves a
  checkpoint far back and then fails; the rewind for the next one starts from the
  mark made before the first, and the lines between the two are never read. The
  runs are too small for it to do harm; the flag is there for the proof.

Two more would break it and are hypotheses of the theorem instead: two real restarts
whose notices are within `restartDedupWindow` of each other (`RestartGap`), and new
lines with the text of older ones (`Text`; in practice a line carries its time).

docs/ARCHITECTURE.md:203-204 says that notices within five minutes of each other are
one restart. The window is 90 s (worker.go:107): with notices further apart the code
counts one restart twice, which costs a rewind more, and with five minutes it would
take two restarts for one, which costs lines. `NotifyWithinFiveMinutes` is that
window as a mutant, which breaks `OneNoticePerRestart` and `NoKeptLineMissedIfMarked` in
`restart`; the code's own keeps them.

**Bounds.** Five lines with chunks of two give files of three chunks, so an
entry can span two chunk boundaries and a crash can hit the first, a middle or
the last flush; one fault is enough for every single failure, and the duplicate
bounds grow with `faults`. Rotation needs an hour the checkpoint is in, one
rotated after it, one live, and one that is purged: four hours, two kept. Two
sinks show that one fails while the other has the batch; pages of one row make
replay list again after each item. Four lines let a restart lose one that was
shipped and two more be written, the second of which is read before the rewind;
a rewind of two lines starts inside the file once three were read, and chunks of
two make it take more than one pull. `restart` has no faults but two restarts, with a tick
before each for its shutdown and one after it for later events, a window of three
ticks and so a `RestartGap` of five: the least in which the latest notice of one restart
and the earliest of the next are told apart, and the folded ones differ by up to two
ticks. The liveness run has one restart, events of one date and one fault, to keep its
graph small. For the scheduler, two changes let an instance
leave and return (or return and leave) at any moment of its worker's life.

Three lines let the error logs have one before the first poll, one that is copied
before it is read and one after; `RecentMax` of two and a `TTL` of one period make
the set of shipped lines overflow and expire. Eight bytes in segments of two with
three reads give waves of one, two and three ranges, lines longer than a range,
and a last wave. `KeepRows` of one, with two hours retained, lets the sweep take rows of
hours that RDS still has, and the base file's after an hour without a drain of it.
Fleets of up to four records in two regions and one of another account, with up to four
sources and three shards, have an instance that is listed twice, listed and discovered,
the same id in two regions and in two accounts, and an engine that is not supported.

**Fairness.** ErrorLogs: weak fairness of the worker, of RDS's copying, which is
periodic, and of the sweep, which runs on a ticker. Drain: weak fairness of the worker – polls repeat for ever and
every call returns; the server need not write and failures are never required
(they are bounded by `MaxFaults`). SinkChain: weak fairness of each file's
writes and of a running replay; strong fairness of starting an unfiltered
replay says that the operator runs it again and again. Rotation: weak fairness
of planning and of the two kinds of drains. Restart: weak fairness of the
worker and of the event watcher, whose loops never end, and of the clock, because an
event is told only once its date has come. Scheduler: weak fairness of `Run`
and of each worker's own steps; strong fairness of `BeginShutdown`, because
`select` picks among ready cases at random, and of `Acquire`, because senders
blocked on a Go channel are served in order.

**Deadlock.** The check is off for `sinks` and `sinks_timeout` (all batches may
have been delivered) and `scheduler` (the process ends).

## Proofs

The proofs hold for every value of the constants that meets the modules'
assumptions; where a theorem needs one more, its statement has it.

**Drain** (`DrainProofs`). `Typing`, `NothingLost` (`NoLoss`), `NothingOvertakes`
(`NoGap`). `NoLoss` alone is not inductive: a step of `FlushSet` needs to know
that the lines between the checkpoint and the marker are either delivered or in
the carried record, and a crash needs to know that what the checkpoint leaves
behind is delivered. The inductive invariant relates `pending`, `lastStart`,
`lastStartSkip` and the checkpoint to the delivered lines, phase by phase.
`NeverBack` (`CheckpointMonotone`) and `Implementation` (`ImplementsAtLeastOnce`)
sort the steps by what they do to the file, the sink and the checkpoint
(`Kinds`): each is one action of AtLeastOnce or a stutter. They need three facts
more: what the sink has lies after `base` (`Reached`, so with `NoGap` it is an
unbroken run), a file is skipped to its end only before its first checkpoint
(`Unsaved`), and a drain that resumes at a flag has read on when it flushes
(`Flagged`). Three more theorems build on that invariant:

* `AtMostTwoBatches` (`TwoBatchesExposed`). `Exposure` says what a batch that was
  exposed has changed: after one flush that saved nothing, what is pending holds
  the line at the marker or began after the checkpoint, so the next flush either
  saves or is the last one that does not.
* `DuplicatesArePaidFor` (`DuplicatesNeedFaults`). `Repeats`: the lines a drain has
  still to ship were shipped only by drains that failed. For that, pending records
  must be disjoint, which `Pull` keeps although it joins a continuation to the
  carried record.
* `EntriesStayWhole` (`WholeEntries`). `Entries`: every position a reader may start
  from is `Clean` (an entry begins there, or the code took the end of the file for
  the end of one) or is marked to skip what leads; then every record, pending or
  shipped, reaches from one such position to another.

**Rotation** (`RotationProofs`). The invariant has two parts. `Steady` holds
however the log rotates: what the checkpoints leave to be read (`Left`) has not
been touched. With it, `NeverReadTwice` (`ReadOnce`) is proved for all the rotations
`Windows` can name; it excludes "unset", where the base file's row may be swept and
every retained hour is then read again. `Exact` adds that what the
checkpoints take as dealt with is delivered or was to be skipped (`Covered`), that
none is past its file (`Within`), and what the listing of this poll still tells of
the server (`Listing`). It needs `Windows = {}`, as the statements of
`RotationTyping` (`TypeOK`) and `NoHourPassedOver` (`NothingPassedOver`) say: with a
window open hours can be passed over, as `rotation_outage` shows, and a checkpoint
can stand past the end of its file. Both parts have the sweep of the rows of retained,
fully read hours: a row swept leaves the hour to the base checkpoint, which by then
names a later one.

**Sink chain** (`SinkChainProofs`). `SinkChainTyping`, `NeverDropped`
(`NothingDropped`): while a batch is being written, each sink already passed has
accounted for it unless `failed` is set, and the row replay is about to delete has
been delivered. `NoFreeDuplicates` (`DuplicatesNeedFaults`) is by a potential: the
deliveries made, one that is due in the current write (`Due`) and the dead-letter
rows and page entries replay may still deliver (`ToReplay`) are together at most
one more than the failures (`Debt`). Every step moves a unit from one to another;
only a failure adds one. A purge under a replay is why an item whose row is gone
still counts until replay has passed it, and `PageInOrder` why it passes it once.

**Scheduler** (`SchedulerProofs`). `SchedulerTyping`, `NeverTwoWorkers`
(`OneWorkerPerInstance`), `CapHolds` (`SlotsRespected`). The strengthening: a
goroutine that has not returned is the registered worker of its instance, and
`held` is the number of workers between `Acquire` and `Release`.

**Restart** (`RestartProofs`). `RestartTyping` (`TypeOK`) is more than bookkeeping
here: a rewind works out its start from a mark, a listing that may be old and a
constant, and what is dropped from what is read again shifts every line after it.
`OneRestartOneNotice` (`OneNoticePerRestart`) has two hypotheses: the notices of one
restart lie within the window of each other (`Brief`: `EventLead + EventLag <
DedupWindow`) and those of two restarts do not (`Spaced`: `RestartGap >= DedupWindow +
EventLead + EventLag`). It is an equation, so neither is a restart counted twice nor
are two folded into one. Every banner in the file, also after the server lost its
tail, carries the tick of a restart (`Genuine`), and every event a date within
`EventLead` and `EventLag` of one, or that of a shutdown whose start is to come
(`Reported`). Notices counted are pairwise apart by the window (`Apart`), hence by
`Brief` of different restarts, and a notice that is folded is, by `Spaced`, of the
restart it is folded into: what is counted has the numbers in `told` (`Notified`).

`NoLineMissed` (`NoKeptLineMissedIfMarked`) has two hypotheses: no two lines say the
same (`AllUnlike`) and two restarts are never taken for one (`Spaced`); how far apart
the notices of one restart are does not matter to it. The property
speaks of the moments when no rewind is due, so the invariant (`Answered`) has to say
what covers a line while one is: a line behind the checkpoint (`Saved`), or behind
the marker of a drain (`Read`), is in the sink, in the batch, or behind the banner of
a restart that is still to be told or handled and whose rewind, from whatever mark it
will take, starts before that banner (`Reopens`, `Ahead`). A restart puts its banner
where the tail was lost, so it covers all that comes to stand there; `Margin` and
`TailLines` say that a mark old enough is no more than a rewind past it. A notice
cannot use up the restart of another (`Spaced`), and a flush handles only
generations whose rewind it has made durable; where that rewind began before the file
was cut, some later notice must be one it does not fold, or `forestalled` is set. `Listed` is for the file that is
skipped as not written since: a listing may be as old as the poll, but then all
behind the checkpoint was there, unhurt, when it was made. `dropAlreadyShipped` loses
nothing because what it counts in the ring is in the sink (`RingSunk`) and, by
`AllUnlike`, is the same line.

`NoFreeDuplicates` (`DuplicatesNeedFaults`) is by what the sink is still to get: a
line in the batch, or one in the file that whoever reads on will read and not drop
(`ToCome`). With the copies in the sink it is at most one more than the failures
(`Debt`). A rewind adds nothing, although it moves the marker back, because what
this process shipped is dropped as far as the checkpoint was (`Spared`); a failed
drain or a new process, which knows nothing of what was shipped, adds one and has
paid for it. Beside `AllUnlike` it needs that the ring has not dropped what a rewind
reads again (`RingReaches`): the ring has two megabytes and a rewind goes back to a
checkpoint of at least a minute before the restart, so whether it holds depends on how
much was shipped since, which the code does not bound. `shippedHere`, a history variable,
says what the ring has ever had. With `RingLines` = 8 `RingReaches` is an invariant of
the `restart_delivers` instance; with its four lines it is not, and the property holds
there because the ring overflows only once a failed drain has had a line shipped twice.

**Checkpoint store** (`CheckpointStoreProofs`). `StoreIsDurable` (`AckedSurvives`),
from the invariant that what is stored, and cached, is the acknowledged checkpoint
or one a failed call tried.

**Error logs** (`ErrorLogsProofs`). `Types`, `AckedCheckpointsSurvive` and
`NoErrorIsLost` (`NoErrorLost`). The last needs that every line in `recent` has
reached the sink, that the running log's pending lines and the ones it dropped as
shipped cover what is between its checkpoint and its marker, and that a checkpoint
a failed call may have left behind is no further than one that is accounted for.

* `NoFreeDuplicates` (`DuplicatesNeedFaults`). A line can reach the sink from the
  realtime log (`Coming`) and from the running one (`Returning`). `Debt` counts
  each beside the copies made: together at most one more than the failures, and one
  more again for a line the remembered set has dropped. What has been read counts
  as settled only if the stored and the cached position of a log agree on it
  (`Stands`), because a restart may take back either.
* `HistoryIsLeftAlone` (`HistoryStays`). Until a process takes the running log for a
  new file, every position it is read from and every one the next process may find
  – the checkpoint, the stored one, the listing, the size first seen, the marker –
  lies behind the history (`Untouched`); what was discovered and the horizon are
  such that `startFor` uses one of them (`Discovered`).

**Operators over data** (`AlgorithmProofs`). `RangeOwnsItsLines`,
`ConcurrentReadsTile`; `NewcomerTakes`, `ShardsSplitTheFleet`, `InstancesAreReadOnce`,
under any hash; `PacedWhen`.

**Only model-checked.** All liveness: the provers have no rule for it. Every
safety invariant and action property of the passing runs is a theorem, some under the
hypotheses given above; what TLC adds for those is that the properties also hold on an
instance where `RingReaches` does not. `Permissions` is checked by assumptions
over a list of configurations.

## Observations

Beside the violations, the models show these, which no run is about:

* A worker that is throttled polls sooner than one that is not if `poll_interval`
  is above four fifths of the larger of two minutes and `poll_interval_max`, for
  instance at the five minutes of a quiet fleet: worker.go:284-287 says it sheds
  load (`Pacing`, proved).
* A sink with `max_attempts` above 36 and the default waits meets an overflow in
  retry.go:82 after its 36th failed attempt: on amd64 the wait is negative and
  the process panics (`Pacing`).
* The generated policy misses the objects of an S3 sink whose prefix is `/`: the
  keys have no prefix then and the ARN keeps it (`Permissions`). Its notes do not
  name s3:ListBucket for a sink with a role of its own, which `validate --deep`
  calls with that role.
* state/store.go:44 says that Get returns what was last persisted; the file
  store's does not after a failed persist. store.go:41 asks for fsync or
  equivalent; sqlite runs with synchronous(NORMAL) and WAL, which survives a
  crash of the process (what is modelled), not of the machine.
* With `start_from = end`, history that is in the realtime log at the first
  listing is shipped when RDS copies it into the running log later: the anchor is
  the realtime file's. A process that finds the realtime log checkpointed and the
  running one not, and written since, reads all of it (`orphaned` in ErrorLogs).
* Checkpoints are keyed by instance id, workers by region and id: one id in two
  regions shares rows. An explicitly listed instance that is deleted makes every
  Resolve fail from then on.
  Instances are keyed without their account: of two `assume_role` sources in one
  region that both have an instance of some name, only the first one's is read.
* stategc.go:30-32 says that only rows of rotated-out files and removed instances
  qualify for `state gc`, since active files are Set every poll, and README.md:358
  that it is safe while `run` is live. After an outage longer than `--older-than`
  it takes the base file's row and those of unread hours too: with `start_from =
  beginning` every retained hour is then read again, with `end` reading starts at the
  end, and an hour whose row is gone while the base file's names a later one is
  skipped. In `rotation` without the exemption of `forgotten`, `ReadOnce` and
  `NothingPassedOver` fail.
* Delete of a checkpoint is not called by the daemon.

## Not modelled, and the plan

Left for later, in this order:

1. Proofs: that the scheduler's workers and slots implement an abstract fleet.
2. The global drain pool (`drainSem`) with the scheduler's shutdown, and sinks
   closed under workers that outlive the shutdown timeout.
3. Events for instances whose worker is not registered yet, `marksKept` and the
   limit on restarts, in Restart.

Not to be modelled: regular expressions and the parsing of lines and of the
configuration file (text processing), the validation rules that compare one
value (they hold or fail by inspection), wizard, tail, dump and cost tools
(sequential, no state that outlives them), metrics, lag and stall reports
(nothing reads them back), payload encodings and the SDK (I/O).
