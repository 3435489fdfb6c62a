------------------------------- MODULE Restart -------------------------------
(***************************************************************************)
(* A restart of the database server, seen by the worker that tails one of  *)
(* its log files: the server loses the file's unflushed tail and appends   *)
(* from the shorter end, so a checkpoint may stand past lines that were    *)
(* never read.  internal/pipeline/worker.go: drainFile's rewind,           *)
(* pendingRestart, markBefore, the ring of shipped lines, NotifyRestart;   *)
(* internal/pipeline/scheduler.go: watchRestarts.                          *)
(*                                                                         *)
(* RDS reports one restart several times (internal/source/rds/events.go):  *)
(* its shutdown or the start of the failover, that the server was          *)
(* restarted, that the failover is complete.  The dates of these events    *)
(* and of the start banner in the log differ.                              *)
(*                                                                         *)
(* A position is a number of lines, time is a number of ticks, and a       *)
(* record is one line (module Drain has records of several lines).         *)
(* marks keeps the newest checkpoint of each tick and the oldest of all:   *)
(* all that markBefore can return as long as marksKept entries reach back  *)
(* past restartMargin.                                                     *)
(***************************************************************************)
EXTENDS Integers, Sequences, FiniteSets

CONSTANTS
    MaxLines,      \* lines the server ever writes
    Text,          \* Text[id] is what line id says; equal lines hash equally
    ChunkLines,    \* most lines one DownloadDBLogFilePortion returns
    RewindLines,   \* rewindBytes
    RingLines,     \* shipRingBytes
    Margin,        \* restartMargin
    DedupWindow,   \* notices closer than this are one restart
    Lookback,      \* restartLookback
    EventDelay,    \* most ticks from the date of an event to its being polled
    EventLead,     \* most ticks from the report of a shutdown to the start
    EventLag,      \* most ticks from a start to the last report of it
    TailLines,     \* most lines a restart loses
    RestartGap,    \* fewest ticks between two starts of the server
    MaxRestarts, MaxClock, MaxFaults    \* bounds on the exploration

Ids   == 1 .. MaxLines
Ticks == 0 .. MaxClock
None  == -1

ASSUME RestartAssumption ==
    /\ {MaxLines, ChunkLines, RewindLines, RingLines, Margin, RestartGap, DedupWindow}
         \subseteq Nat \ {0}
    /\ {EventDelay, EventLead, EventLag, MaxRestarts, MaxClock, MaxFaults} \subseteq Nat
    /\ DOMAIN Text = Ids
    /\ TailLines \in 0 .. (RewindLines - 1)
    /\ EventLag < Margin /\ Margin <= DedupWindow
    /\ Lookback \in Nat /\ Lookback >= EventDelay

VARIABLES
    clock,
    log,          \* the file RDS keeps: records of id, text, at and banner
    nextId,       \* the next line the server writes
    downs,        \* ticks at which the server started again
    shutdown,     \* date of a shutdown whose start is still to come, or None
    events,       \* dates of RDS's events about restarts
    untold,       \* events watchRestarts has not passed on yet
    ckpt,         \* the durable checkpoint: found, marker, size, lastWritten
    floor,        \* banners up to here are history to this process
    ring,         \* shipped: texts of the lines last shipped, oldest first
    marks,        \* newest checkpoint of each tick
    oldestMark,
    restarts,     \* w.restarts; a restart's generation is its index
    handledGen,
    pc,           \* where the poll is
    listing,      \* the file's metadata as this poll listed it
    drain,        \* drainFile's local variables
    sunk,         \* history: copies of each text in the sink
    shippedHere,  \* history: texts that were in the ring of this process
    told,         \* history: numbers of the restarts this process was told of
    forestalled,  \* history: a restart that changed the file only after its
                  \* rewind had begun, all later notices being folded into the
                  \* one that rewind was for
    unmarked,     \* history: a restart the worker has no position of its own
                  \* from before, to rewind to
    overshot,     \* history: a rewind for a restart started past the checkpoint
    faults        \* history: failures so far

serverVars == <<clock, log, nextId, downs, shutdown, events>>
memVars    == <<floor, ring, marks, oldestMark, restarts, handledGen>>
pollVars   == <<pc, listing, drain>>
histVars   == <<sunk, shippedHere, told, forestalled, unmarked, overshot, faults>>
vars == <<serverVars, untold, ckpt, memVars, pollVars, histVars>>

Texts     == {Text[i] : i \in Ids}
Positions == 0 .. MaxLines
RestartGen == Len(restarts)
Lesser(a, b) == IF a < b THEN a ELSE b

Nth(S, i) == CHOOSE k \in S : Cardinality({j \in S : j <= k}) = i

Count(s, x) == Cardinality({i \in DOMAIN s : s[i] = x})

NoListing == [size |-> 0, lastWritten |-> 0]
NoDrain ==
    [marker |-> 0, pending |-> << >>, gen |-> 0, dedupe |-> FALSE, until |-> None,
     dropFirst |-> FALSE, consumed |-> [x \in Texts |-> 0], atEnd |-> FALSE]

-----------------------------------------------------------------------------
(* The ring of shipped lines and the marks.                                *)

\* Mutant: nothing is ever evicted.
rememberAllShipped(lines) == ring \o lines

rememberShipped(lines) ==
    LET all == ring \o lines
    IN  IF Len(all) > RingLines
        THEN SubSeq(all, Len(all) - RingLines + 1, Len(all))
        ELSE all

\* dropAlreadyShipped: the k-th line of recs is kept when the ring's
\* occurrences of its text are used up.
AlreadyShipped(recs, k) ==
    LET x == recs[k].text
        occurrence == Cardinality({j \in 1 .. k : recs[j].text = x})
    IN  drain.consumed[x] + occurrence <= Count(ring, x)

dropAlreadyShipped(recs) ==
    LET kept == {k \in DOMAIN recs : ~AlreadyShipped(recs, k)}
    IN  [i \in 1 .. Cardinality(kept) |-> recs[Nth(kept, i)]]

Consumed(recs) ==
    [x \in Texts |-> drain.consumed[x] +
        Cardinality({k \in DOMAIN recs : recs[k].text = x /\ AlreadyShipped(recs, k)})]

recordMark(m) ==
    /\ marks' = [marks EXCEPT ![clock] = m]
    /\ oldestMark' = IF oldestMark = None THEN m ELSE oldestMark

\* Newest checkpoint set at or before t, else the oldest known, else None.
markBefore(t) ==
    LET before == {u \in Ticks : u <= t /\ marks[u] # None}
    IN  IF before = {} THEN oldestMark
        ELSE marks[CHOOSE u \in before : \A v \in before : v <= u]

-----------------------------------------------------------------------------
(* Restarts the worker knows of.                                           *)

\* The restart that a notice of this date is about, counted from the first.
NumberOf(at) == Cardinality({d \in downs : d + EventLag < at}) + 1

\* A notice of this date is taken for one of the first n restarts.
Folds(at, n) ==
    \E i \in 1 .. n : at - restarts[i] \in (1 - DedupWindow) .. (DedupWindow - 1)


\* Mutant: the window of docs/ARCHITECTURE.md:203, five minutes for 90 s.
NotifyWithinFiveMinutes(at) ==
    /\ restarts' = IF \E i \in DOMAIN restarts :
                         3 * (at - restarts[i]) \in (1 - 10 * DedupWindow) .. (10 * DedupWindow - 1)
                   THEN restarts
                   ELSE Append(restarts, at)
    /\ told' = told \union {NumberOf(at)}

NotifyRestart(at) ==
    /\ restarts' = IF Folds(at, RestartGen) THEN restarts ELSE Append(restarts, at)
    /\ told' = told \union {NumberOf(at)}

\* Only the first banner among the lines kept counts.
noteServerStart(kept) ==
    LET banners == {k \in DOMAIN kept : kept[k].banner /\ kept[k].at > floor}
    IN  IF banners = {} THEN UNCHANGED <<restarts, told>>
        ELSE NotifyRestart(kept[CHOOSE k \in banners : \A j \in banners : k <= j].at)

\* pendingRestart: the earliest restart not handled yet.
Unhandled == {restarts[i] : i \in (handledGen + 1) .. RestartGen}
PendingAt == CHOOSE t \in Unhandled : \A u \in Unhandled : t <= u

markRestartHandled(gen) == handledGen' = IF gen > handledGen THEN gen ELSE handledGen

-----------------------------------------------------------------------------
Init ==
    /\ clock = 0
    /\ log = << >>
    /\ nextId = 1
    /\ downs = {}
    /\ shutdown = None
    /\ events = {}
    /\ untold = {}
    /\ ckpt = [found |-> FALSE, marker |-> 0, size |-> 0, lastWritten |-> 0]
    /\ floor = 0
    /\ ring = << >>
    /\ marks = [t \in Ticks |-> None]
    /\ oldestMark = None
    /\ restarts = << >>
    /\ handledGen = 0
    /\ pc = "idle"
    /\ listing = NoListing
    /\ drain = NoDrain
    /\ sunk = [x \in Texts |-> 0]
    /\ shippedHere = {}
    /\ told = {}
    /\ forestalled = FALSE
    /\ unmarked = FALSE
    /\ overshot = FALSE
    /\ faults = 0

(* An event is polled at most EventDelay after its date, and a server that *)
(* was shut down starts at most EventLead after that.                      *)
Tick ==
    /\ clock < MaxClock
    /\ \A at \in untold : clock < at + EventDelay
    /\ shutdown # None => clock < shutdown + EventLead
    /\ clock' = clock + 1
    /\ UNCHANGED <<log, nextId, downs, shutdown, events, untold, ckpt, memVars, pollVars, histVars>>

Line(isBanner) == [id |-> nextId, text |-> Text[nextId], at |-> clock, banner |-> isBanner]

(* The server writes a line.                                               *)
WriteLine ==
    /\ nextId <= MaxLines
    /\ log' = Append(log, Line(FALSE))
    /\ nextId' = nextId + 1
    /\ UNCHANGED <<clock, downs, shutdown, events, untold, ckpt, memVars, pollVars, histVars>>

\* There is a mark, and all that a rewind for a restart now or earlier may
\* take are positions of the file.
Marked ==
    /\ oldestMark # None
    /\ \A m \in {oldestMark} \union {marks[t] : t \in {u \in Ticks : u <= clock + EventLag - Margin}} :
          m <= Len(log)

(* RDS reports that the server was shut down, or that a failover starts.   *)
ServerShutdown ==
    /\ nextId <= MaxLines
    /\ shutdown = None
    /\ Cardinality(downs) < MaxRestarts
    /\ \A d \in downs : clock + EventLead - d >= RestartGap
    /\ shutdown' = clock
    /\ events' = events \union {clock}
    /\ untold' = untold \union {clock}
    /\ UNCHANGED <<clock, log, nextId, downs, ckpt, memVars, pollVars, histVars>>

\* The restarts that are handled once the drain under way is saved.
Handling == IF drain.gen > handledGen THEN drain.gen ELSE handledGen

(* The server starts again, its shutdown having been reported or not: up   *)
(* to TailLines unflushed lines are gone, the start banner is appended at  *)
(* the shorter end, and RDS reports the start, then or later, once or      *)
(* several times.  No line lost is as old as a rewind's margin before the  *)
(* last of these reports.                                                  *)
ServerRestart ==
    /\ nextId <= MaxLines
    /\ Cardinality(downs) < MaxRestarts
    /\ \A d \in downs : clock - d >= RestartGap
    /\ \E k \in 0 .. Lesser(TailLines, Len(log)) :
          /\ \A i \in (Len(log) - k + 1) .. Len(log) : log[i].at > clock + EventLag - Margin
          /\ log' = Append(SubSeq(log, 1, Len(log) - k), Line(TRUE))
    /\ nextId' = nextId + 1
    /\ downs' = downs \union {clock}
    /\ shutdown' = None
    /\ \E late \in (SUBSET (clock .. Lesser(clock + EventLag, MaxClock))) \ {{}} :
          /\ events' = events \union late
          /\ untold' = untold \union late
          /\ forestalled' = (forestalled \/ \A at \in late : Folds(at, Handling))
    /\ unmarked' = (unmarked \/ (ckpt.marker + drain.marker > 0 /\ ~Marked))
    /\ UNCHANGED <<clock, ckpt, memVars, pollVars, sunk, shippedHere, told, overshot, faults>>

(* watchRestarts passes an event on, in whatever order RDS lists them.     *)
TellRestart ==
    \E at \in untold :
        /\ at <= clock
        /\ untold' = untold \ {at}
        /\ NotifyRestart(at)
        /\ UNCHANGED <<serverVars, ckpt, floor, ring, marks, oldestMark, handledGen,
                       pollVars, sunk, shippedHere, forestalled, unmarked, overshot, faults>>

-----------------------------------------------------------------------------
(* A poll of the file.                                                     *)

(* DescribeDBLogFiles, at the start of the poll.                           *)
List ==
    /\ pc = "idle"
    /\ Len(log) > 0
    /\ pc' = "listed"
    /\ listing' = [size |-> Len(log), lastWritten |-> log[Len(log)].at]
    /\ UNCHANGED <<serverVars, untold, ckpt, memVars, drain, histVars>>

\* markerStillValid concerns hour-addressed markers, which this file has not.
Shrank == listing.size < ckpt.size
Idle(at) == listing.lastWritten < at - Margin

\* Mutant: the rewind starts from where the worker is now.
RewindFromHere(restarted) == ckpt.marker

\* Where the rewind starts from: where the worker was before the restart.
RewindFrom(restarted) ==
    LET m == markBefore(PendingAt - Margin)
    IN  IF restarted /\ m # None THEN m ELSE ckpt.marker

\* Mutant: nothing is dropped from what is read again.
DrainWithoutDedupe(restarted) ==
    LET start == Lesser(RewindFrom(restarted), listing.size) - RewindLines
    IN  [NoDrain EXCEPT !.marker = IF start > 0 THEN start ELSE 0,
                        !.gen = IF restarted THEN RestartGen ELSE 0,
                        !.dropFirst = start > 0]

\* drainFile's state after rewindMarker.  Marker 0 names no offset, so that
\* it sets no place to stop at; a start inside the file may cut a line.
RewoundDrain(restarted) ==
    LET start == Lesser(RewindFrom(restarted), listing.size) - RewindLines
    IN  [NoDrain EXCEPT !.marker = IF start > 0 THEN start ELSE 0,
                        !.gen = IF restarted THEN RestartGen ELSE 0,
                        !.dedupe = TRUE,
                        !.until = IF ckpt.marker > 0 THEN ckpt.marker ELSE None,
                        !.dropFirst = start > 0]

\* Mutant: a restart is handled as soon as the drain has seen it.
BeginDrainHandling ==
    /\ pc = "listed"
    /\ pc' = "pull"
    /\ LET restarted == ckpt.found /\ Unhandled # {} /\ ~Idle(PendingAt)
       IN  /\ drain' = IF ckpt.found /\ (Shrank \/ restarted)
                       THEN RewoundDrain(restarted)
                       ELSE [NoDrain EXCEPT !.marker = ckpt.marker]
           /\ overshot' = (overshot \/ (restarted /\ RewindFrom(TRUE) > ckpt.marker))
    /\ IF ckpt.found THEN markRestartHandled(RestartGen) ELSE UNCHANGED handledGen
    /\ UNCHANGED <<serverVars, untold, ckpt, floor, ring, marks, oldestMark, restarts,
                   listing, sunk, shippedHere, told, forestalled, unmarked, faults>>

(* drainFile loads the checkpoint; after a restart, or a size drop, it     *)
(* rewinds.  A file not written since before the restart lost nothing.     *)
BeginDrain ==
    /\ pc = "listed"
    /\ pc' = "pull"
    /\ LET pending == ckpt.found /\ Unhandled # {}
           restarted == pending /\ ~Idle(PendingAt)
       IN  /\ IF pending /\ Idle(PendingAt)
              THEN markRestartHandled(RestartGen)
              ELSE UNCHANGED handledGen
           /\ drain' = IF ckpt.found /\ (Shrank \/ restarted)
                       THEN RewoundDrain(restarted)
                       ELSE [NoDrain EXCEPT !.marker = ckpt.marker]
           /\ overshot' = (overshot \/ (restarted /\ RewindFrom(TRUE) > ckpt.marker))
    /\ UNCHANGED <<serverVars, untold, ckpt, floor, ring, marks, oldestMark, restarts,
                   listing, sunk, shippedHere, told, forestalled, unmarked, faults>>

(* PullPortion.  RDS answers a marker past the end with no lines and       *)
(* either the same marker or that of the end.                              *)
Chunk(m) == IF m < Len(log) THEN SubSeq(log, m + 1, Lesser(m + ChunkLines, Len(log)))
                            ELSE << >>
NextMarkers(m) == IF m < Len(log) THEN {m + Len(Chunk(m))} ELSE {m, Len(log)}

(* One turn of the loop: what was shipped already is dropped, a banner is  *)
(* noted, and the rest is flushed at the end of the file or when the batch *)
(* is full, which may be after any chunk.                                  *)
Pull ==
    /\ pc = "pull"
    /\ \E m \in NextMarkers(drain.marker) :
       LET read == Chunk(drain.marker)
           recs == IF drain.dropFirst /\ read # << >> THEN Tail(read) ELSE read
           kept == IF drain.dedupe THEN dropAlreadyShipped(recs) ELSE recs
           ended == m >= Len(log)
       IN  /\ noteServerStart(kept)
           /\ drain' = [drain EXCEPT
                 !.marker = m,
                 !.pending = @ \o [k \in DOMAIN kept |-> kept[k].text],
                 !.dropFirst = @ /\ read = << >>,
                 !.dedupe = @ /\ (m = 0 \/ drain.until = None \/ m < drain.until),
                 !.consumed = IF drain.dedupe THEN Consumed(recs) ELSE @,
                 !.atEnd = ended]
           /\ pc' \in IF ended THEN {"flush"} ELSE {"pull", "flush"}
    /\ UNCHANGED <<serverVars, untold, ckpt, floor, ring, marks, oldestMark, handledGen,
                   listing, sunk, shippedHere, forestalled, unmarked, overshot, faults>>

Deliver(lines) == sunk' = [x \in Texts |-> sunk[x] + Count(lines, x)]

NextCheckpoint ==
    [found |-> TRUE, marker |-> drain.marker,
     size |-> listing.size, lastWritten |-> listing.lastWritten]

EndPoll == pc' = "idle" /\ listing' = NoListing /\ drain' = NoDrain

(* flush: the sink takes the batch and the ring remembers it, then the     *)
(* checkpoint is saved, and only then is a restart handled.  No step of    *)
(* others between the two calls would change what either does.             *)
Flush ==
    /\ pc = "flush"
    /\ Deliver(drain.pending)
    /\ ring' = rememberShipped(drain.pending)
    /\ shippedHere' = shippedHere \union {drain.pending[i] : i \in DOMAIN drain.pending}
    /\ ckpt' = NextCheckpoint
    /\ recordMark(drain.marker)
    /\ markRestartHandled(drain.gen)
    /\ IF drain.atEnd
       THEN EndPoll
       ELSE /\ pc' = "pull"
            /\ drain' = [drain EXCEPT !.gen = 0, !.pending = << >>]
            /\ UNCHANGED listing
    /\ UNCHANGED <<serverVars, untold, floor, restarts, told, forestalled, unmarked, overshot,
                   faults>>

-----------------------------------------------------------------------------
(* Failures.  A call that reports an error may still have taken effect.    *)

Fault == faults < MaxFaults /\ faults' = faults + 1

PullFail ==
    /\ pc = "pull"
    /\ Fault
    /\ EndPoll
    /\ UNCHANGED <<serverVars, untold, ckpt, memVars, sunk, shippedHere, told, forestalled,
                   unmarked, overshot>>

WriteFail ==
    /\ pc = "flush"
    /\ drain.pending # << >>
    /\ Fault
    /\ Deliver(drain.pending) \/ UNCHANGED sunk
    /\ EndPoll
    /\ UNCHANGED <<serverVars, untold, ckpt, memVars, shippedHere, told, forestalled,
                   unmarked, overshot>>

SetFail ==
    /\ pc = "flush"
    /\ Fault
    /\ Deliver(drain.pending)
    /\ ring' = rememberShipped(drain.pending)
    /\ shippedHere' = shippedHere \union {drain.pending[i] : i \in DOMAIN drain.pending}
    /\ ckpt' \in {ckpt, NextCheckpoint}
    /\ EndPoll
    /\ UNCHANGED <<serverVars, untold, floor, marks, oldestMark, restarts, handledGen,
                   told, forestalled, unmarked, overshot>>

RewindDue == untold # {} \/ Unhandled # {}

(* The process dies, having given the sink a batch that is due or not, and *)
(* a new one starts.  Its watcher looks back at the events, and its floor  *)
(* is its start or, under start_from = end, the newest LastWritten of a    *)
(* checkpoint if that is earlier.                                          *)
Crash ==
    /\ Fault
    /\ EndPoll
    /\ untold' = untold \union {at \in events : at >= clock - Lookback}
    /\ floor' \in {clock} \union (IF ckpt.found THEN {Lesser(clock, ckpt.lastWritten)} ELSE {})
    /\ ring' = << >>
    /\ shippedHere' = {}
    /\ marks' = [t \in Ticks |-> None]
    /\ oldestMark' = None
    /\ restarts' = << >>
    /\ told' = {}
    /\ handledGen' = 0
    /\ unmarked' = (unmarked \/ RewindDue)
    /\ IF pc = "flush" THEN Deliver(drain.pending) \/ UNCHANGED sunk ELSE UNCHANGED sunk
    /\ UNCHANGED <<serverVars, ckpt, forestalled, overshot>>

-----------------------------------------------------------------------------
Server == Tick \/ WriteLine \/ ServerShutdown \/ ServerRestart
Worker == List \/ BeginDrain \/ Pull \/ Flush
Failure == PullFail \/ WriteFail \/ SetFail \/ Crash

Next == Server \/ TellRestart \/ Worker \/ Failure

(* The poll loop and the event watcher never stop, and time passes.        *)
Spec == Init /\ [][Next]_vars /\ WF_vars(Worker) /\ WF_vars(TellRestart) /\ WF_vars(Tick)
-----------------------------------------------------------------------------
(* Properties.                                                             *)

TypeOK ==
    /\ clock \in Ticks
    /\ log \in Seq([id : Ids, text : Texts, at : Ticks, banner : BOOLEAN])
    /\ nextId \in 1 .. (MaxLines + 1)
    /\ downs \subseteq Ticks
    /\ shutdown \in Ticks \union {None}
    /\ events \subseteq Ticks
    /\ untold \subseteq events
    /\ ckpt \in [found : BOOLEAN, marker : Positions, size : Positions, lastWritten : Ticks]
    /\ floor \in Ticks
    /\ ring \in Seq(Texts) /\ Len(ring) <= RingLines
    /\ marks \in [Ticks -> Positions \union {None}]
    /\ oldestMark \in Positions \union {None}
    /\ restarts \in Seq(Ticks)
    /\ handledGen \in 0 .. RestartGen
    /\ pc \in {"idle", "listed", "pull", "flush"}
    /\ listing \in [size : Positions, lastWritten : Ticks]
    /\ drain \in [marker : Positions, pending : Seq(Texts), gen : Nat, dedupe : BOOLEAN,
                  until : Positions \union {None}, dropFirst : BOOLEAN,
                  consumed : [Texts -> Nat], atEnd : BOOLEAN]
    /\ drain.gen <= RestartGen
    /\ sunk \in [Texts -> Nat]
    /\ shippedHere \subseteq Texts
    /\ told \subseteq 1 .. (MaxRestarts + 1)
    /\ forestalled \in BOOLEAN
    /\ unmarked \in BOOLEAN
    /\ overshot \in BOOLEAN
    /\ faults \in 0 .. MaxFaults

Kept(n, x) == Cardinality({i \in 1 .. n : log[i].text = x})

\* The sink has each line of the first n, as often as the file keeps it.
Delivered(n) == \A x \in Texts : sunk[x] >= Kept(n, x)

(* README.md:608, "no line RDS kept is missed": behind the checkpoint the  *)
(* sink has every line of the file, unless a restart is still to be told   *)
(* or its rewind is still to come.                                         *)
NoKeptLineMissed == RewindDue \/ Delivered(Lesser(ckpt.marker, Len(log)))

(* The same as long as                                                     *)
(*   - the process that rewinds after a restart had saved a checkpoint     *)
(*     before it, at a position the file then still had;                   *)
(*   - no rewind goes forward: drainFile takes the mark it finds even      *)
(*     where the checkpoint has since gone back behind it;                 *)
(*   - no restart cuts the file after the rewind it is announced for has   *)
(*     begun: NotifyRestart folds every later notice of it into the one    *)
(*     that is then handled (worker.go:1051-1058).                         *)
NoKeptLineMissedIfMarked == unmarked \/ overshot \/ forestalled \/ NoKeptLineMissed

(* A rewind ships nothing twice (worker.go:74-79): a line reaches the sink *)
(* at most once more than the number of failed drains and dead processes.  *)
DuplicatesNeedFaults ==
    \A x \in Texts :
        sunk[x] <= Cardinality({i \in 1 .. (nextId - 1) : Text[i] = x}) * (1 + faults)

(* A process counts each restart it was told of, by events or by a banner, *)
(* once: several notices of it are folded into the first, and two restarts *)
(* never into one (worker.go:1050-1059).  It is so where the notices of a  *)
(* restart lie within DedupWindow of each other, restartDedupWindow's 90 s *)
(* and not the five minutes of docs/ARCHITECTURE.md:203, and those of two  *)
(* restarts do not.                                                        *)
OneNoticePerRestart == RestartGen = Cardinality(told)

(* Every line the file keeps reaches the sink in the end.                  *)
EventuallyDelivered == <>[](unmarked \/ overshot \/ forestalled \/ Delivered(Len(log)))
=============================================================================
