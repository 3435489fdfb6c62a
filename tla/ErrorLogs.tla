------------------------------- MODULE ErrorLogs -----------------------------
(***************************************************************************)
(* The two MySQL error logs of an instance, polled by its worker over a    *)
(* checkpoint store: pollOnce, splitErrorLogPhases, startFor, the set of   *)
(* recently shipped error lines, and drainFile as far as it concerns them  *)
(* (internal/pipeline/worker.go).                                          *)
(*                                                                         *)
(* The server writes lines to mysql-error.log (Realtime).  Every period    *)
(* RDS appends that file to mysql-error-running.log (Running) and          *)
(* truncates it.  A line is a number: error lines carry their time, so no  *)
(* two are alike.  A position is a number of lines, a drain pulls all that *)
(* is there (module Drain pulls chunks), and rewindBytes is more than      *)
(* Realtime ever holds.                                                    *)
(***************************************************************************)
EXTENDS CheckpointStore, Integers, Sequences, FiniteSets

CONSTANTS
    Realtime, Running,
    MaxLines,       \* lines the server ever writes
    OldLines,       \* lines written before the first poll
    Froms,          \* values of runtime.start_from to consider
    TTL,            \* recentErrorsTTL, in periods
    RecentMax,      \* recentErrorsMax
    MaxClock,       \* periods that are told apart
    MaxFaults       \* bound on failed calls and crashes

Ids     == 1 .. MaxLines
Periods == 0 .. MaxClock
Never   == -1

Positions == 0 .. MaxLines

ASSUME ErrorLogsAssumption ==
    /\ Files = {Realtime, Running} /\ Realtime # Running
    /\ Checkpoints = [marker : Positions, size : Positions, lastWritten : Periods]
    /\ {MaxLines, OldLines, TTL, RecentMax, MaxClock, MaxFaults} \subseteq Nat
    /\ OldLines <= MaxLines /\ 1 <= MaxClock
    /\ Froms \subseteq {"beginning", "end"}

VARIABLES
    from,           \* runtime.start_from
    clock,
    written,        \* lines the server has written
    content,        \* each file, as RDS has it
    lastWritten,    \* each file's LastWritten
    initial,        \* w.initialFiles, or Undiscovered
    initialSize,    \* w.initialSize
    horizon,        \* w.horizon, or Never
    stale,          \* checkpoints older than checkpoint_retention
    recent,         \* w.recentErrors: when a line was remembered, or Never
    shipped,        \* w.shipped of Realtime; Running never shrinks, so that
                    \* its own is not read
    pc,             \* what the poll does next to which file
    file,
    listing,        \* the files as this poll listed them
    drain,          \* drainFile's local variables
    got,            \* history: how often the sink got each line
    leftOut,        \* history: lines that start_from = end skipped
    forgotten,      \* history: lines that recent dropped or had no room for
    history,        \* history: Running as the first listing of an instance
                    \* without checkpoints had it, under start_from = end
    orphaned,       \* history: a process that found checkpoints, but none of
                    \* Running, met one written to since the newest of them
    faults          \* history: failures so far

serverVars  == <<clock, written, content, lastWritten>>
discovered  == <<initial, initialSize, horizon>>
processVars == <<discovered, stale, recent, shipped>>
pollVars    == <<pc, file, listing, drain>>
histVars    == <<got, leftOut, forgotten, history, orphaned, faults>>
vars == <<storeVars, from, serverVars, processVars, pollVars, histVars>>

Undiscovered == {"undiscovered"}
NoListing    == [f \in Files |-> [size |-> 0, lastWritten |-> 0]]
NoDrain      == [marker |-> 0, dedupe |-> FALSE, pending |-> {}]

Sizes  == [f \in Files |-> Len(content[f])]
Lines(f, i, j) == {content[f][k] : k \in i .. j}
Smaller(a, b) == IF a < b THEN a ELSE b

-----------------------------------------------------------------------------
Init ==
    /\ StoreInit
    /\ from \in Froms
    /\ clock = 1
    /\ written = OldLines
    /\ \E k \in 0 .. OldLines :
          content = [f \in Files |-> IF f = Running THEN [i \in 1 .. k |-> i]
                                     ELSE [i \in 1 .. OldLines - k |-> k + i]]
    /\ lastWritten = [f \in Files |-> 0]
    /\ initial = Undiscovered
    /\ initialSize = [f \in Files |-> 0]
    /\ horizon = Never
    /\ stale = {}
    /\ recent = [l \in Ids |-> Never]
    /\ shipped = {}
    /\ pc = "idle"
    /\ file = Realtime
    /\ listing = NoListing
    /\ drain = NoDrain
    /\ got = [l \in Ids |-> 0]
    /\ leftOut = {}
    /\ forgotten = {}
    /\ history = {}
    /\ orphaned = FALSE
    /\ faults = 0

WriteLine ==
    /\ written < MaxLines
    /\ written' = written + 1
    /\ content' = [content EXCEPT ![Realtime] = Append(@, written + 1)]
    /\ lastWritten' = [lastWritten EXCEPT ![Realtime] = clock]
    /\ UNCHANGED <<storeVars, from, clock, processVars, pollVars, histVars>>

(* A period ends: RDS moves the lines on.                                  *)
Copy ==
    /\ clock < MaxClock \/ content[Realtime] # << >>
    /\ clock' = IF clock < MaxClock THEN clock + 1 ELSE clock
    /\ IF content[Realtime] = << >>
       THEN UNCHANGED <<content, lastWritten>>
       ELSE /\ content' = [f \in Files |-> IF f = Running
                                           THEN content[Running] \o content[Realtime]
                                           ELSE << >>]
            /\ lastWritten' = [f \in Files |-> clock']
    /\ UNCHANGED <<storeVars, from, written, processVars, pollVars, histVars>>

-----------------------------------------------------------------------------
(* pollOnce.                                                               *)

(* The files are listed.  The first listing of a process decides which are *)
(* subject to start_from.                                                  *)
Discover ==
    /\ pc = "idle"
    /\ pc' = "get"
    /\ file' = Realtime
    /\ listing' = [f \in Files |-> [size |-> Sizes[f], lastWritten |-> lastWritten[f]]]
    /\ IF initial # Undiscovered
       THEN UNCHANGED <<discovered, history>>
       ELSE /\ initial' = IF from = "end" /\ Known = {} THEN Files ELSE {}
            /\ initialSize' = IF initial' = {} THEN initialSize ELSE Sizes
            /\ horizon' = IF from = "beginning" \/ Known = {} THEN Never
                          ELSE CHOOSE t \in Periods :
                                 /\ \E f \in Known : Get(f).lastWritten = t
                                 /\ \A f \in Known : Get(f).lastWritten <= t
            /\ history' = IF initial' = {} THEN history
                          ELSE history \union {l \in Lines(Running, 1, Len(content[Running])) : got[l] = 0}
    /\ UNCHANGED <<storeVars, from, serverVars, stale, recent, shipped, drain,
                   got, leftOut, forgotten, orphaned, faults>>

\* Mutant: the second phase is left out.
NextFileFirstPhase ==
    pc' = "idle" /\ file' = Realtime /\ listing' = NoListing /\ drain' = NoDrain

(* A drain ends; an error does not keep the next phase from starting.      *)
NextFile ==
    /\ IF file = Realtime THEN pc' = "get" /\ file' = Running /\ UNCHANGED listing
                          ELSE pc' = "idle" /\ file' = Realtime /\ listing' = NoListing
    /\ drain' = NoDrain

\* Mutant: an old file without a checkpoint is read like a new one.
startForNoHorizon(f) ==
    IF from = "end" /\ f \in initial THEN "end" ELSE "beginning"

startFor(f) ==
    IF from = "end" /\ (\/ f \in initial
                        \/ horizon # Never /\ listing[f].lastWritten <= horizon)
    THEN "end" ELSE "beginning"

\* anchorSize and SkipToEnd: the size first seen, or the file's end.
Tails(f) ==
    {IF f \in initial /\ initialSize[f] <= listing[f].size
     THEN initialSize[f] ELSE listing[f].size,
     Len(content[f])}

Entry(f, m) == [marker |-> m, size |-> listing[f].size, lastWritten |-> listing[f].lastWritten]

SetFresh(c) == Set(file, c) /\ stale' = stale \ {file}

Fault == faults < MaxFaults /\ faults' = faults + 1

(* An untracked file that start_from = end applies to is skipped to its    *)
(* end, and that is all of its drain.                                      *)
Skip ==
    /\ pc = "get"
    /\ Get(file) = NotFound
    /\ startFor(file) = "end"
    /\ \E m \in Tails(file) :
          /\ \/ SetFresh(Entry(file, m)) /\ UNCHANGED faults
             \/ SetError(file, Entry(file, m)) /\ Fault /\ UNCHANGED stale
          /\ leftOut' = leftOut \union Lines(file, 1, Smaller(m, Len(content[file])))
    /\ NextFile
    /\ UNCHANGED <<from, serverVars, discovered, recent, shipped,
                   got, forgotten, history, orphaned>>

Shrank(f) == Get(f) # NotFound /\ listing[f].size < Get(f).size

\* A file that shrank is read again from its beginning.
Begin ==
    /\ pc = "get"
    /\ Get(file) # NotFound \/ startFor(file) = "beginning"
    /\ pc' = "pull"
    /\ drain' = [NoDrain EXCEPT
          !.marker = IF Get(file) = NotFound \/ Shrank(file) THEN 0 ELSE Get(file).marker,
          !.dedupe = Shrank(file)]
    /\ orphaned' = (orphaned \/ /\ file = Running /\ Get(file) = NotFound
                                /\ horizon # Never /\ listing[file].lastWritten > horizon)
    /\ UNCHANGED <<storeVars, from, serverVars, processVars, file, listing,
                   got, leftOut, forgotten, history, faults>>

Remembered == {l \in Ids : recent[l] # Never}
Age(l)     == clock - recent[l]

Forget(lines) ==
    /\ recent' = [l \in Ids |-> IF l \in lines THEN Never ELSE recent[l]]
    /\ forgotten' = forgotten \union lines

(* PullPortion.  RDS answers a marker past the end with no lines and the   *)
(* same marker or that of the end.  What this process shipped from the     *)
(* file before a rewind is dropped, and from the running log what it       *)
(* shipped from the realtime one; entries past their time are forgotten.   *)
Pull ==
    /\ pc = "pull"
    /\ pc' = "write"
    /\ LET end   == Len(content[file])
           read  == Lines(file, drain.marker + 1, end)
           old   == IF file = Running THEN {l \in Remembered : Age(l) > TTL} ELSE {}
           known == (IF drain.dedupe THEN shipped ELSE {})
                      \union (IF file = Running THEN Remembered \ old ELSE {})
       IN  /\ \E m \in IF drain.marker > end THEN {drain.marker, end} ELSE {end} :
                 drain' = [drain EXCEPT !.marker = m, !.pending = read \ known]
           /\ Forget(old)
    /\ UNCHANGED <<storeVars, from, serverVars, discovered, stale, shipped,
                   file, listing, got, leftOut, history, orphaned, faults>>

Deliver == got' = [l \in Ids |-> got[l] + IF l \in drain.pending THEN 1 ELSE 0]

\* Mutant: the set is not bounded.
rememberAllErrors ==
    /\ recent' = [l \in Ids |-> IF l \in drain.pending THEN clock ELSE recent[l]]
    /\ UNCHANGED forgotten

(* rememberErrors: when the set would overflow, what is older than a       *)
(* quarter of its time goes, and what finds no room is not remembered.     *)
rememberErrors ==
    LET over == Cardinality(Remembered) + Cardinality(drain.pending) > RecentMax
        aged == IF over THEN {l \in Remembered : 4 * Age(l) > TTL} ELSE {}
        room == RecentMax - Cardinality(Remembered \ aged)
    IN  \E fit \in SUBSET drain.pending :
           /\ Cardinality(fit) = Smaller(room, Cardinality(drain.pending))
           /\ \A l \in fit, k \in drain.pending \ fit : l < k
           /\ recent' = [l \in Ids |-> IF l \in fit THEN clock
                                       ELSE IF l \in aged THEN Never ELSE recent[l]]
           /\ forgotten' = forgotten \union aged \union (drain.pending \ fit)

\* Mutant: nothing is remembered across the two logs.
WriteForgetting ==
    /\ pc = "write"
    /\ pc' = "save"
    /\ Deliver
    /\ shipped' = IF file = Realtime THEN shipped \union drain.pending ELSE shipped
    /\ UNCHANGED <<storeVars, from, serverVars, discovered, stale, recent,
                   file, listing, drain, leftOut, forgotten, history, orphaned, faults>>

(* The sink takes the batch; the process remembers it.                     *)
Write ==
    /\ pc = "write"
    /\ pc' = "save"
    /\ Deliver
    /\ IF file = Realtime THEN rememberErrors ELSE UNCHANGED <<recent, forgotten>>
    /\ shipped' = IF file = Realtime THEN shipped \union drain.pending ELSE shipped
    /\ UNCHANGED <<storeVars, from, serverVars, discovered, stale,
                   file, listing, drain, leftOut, history, orphaned, faults>>

(* The checkpoint is saved, also when nothing new was read.                *)
Save ==
    /\ pc = "save"
    /\ SetFresh(Entry(file, drain.marker))
    /\ NextFile
    /\ UNCHANGED <<from, serverVars, discovered, recent, shipped, histVars>>

(* The sweep of old checkpoints, at the start of a process: what it finds  *)
(* has not been Set for checkpoint_retention.                              *)
Sweep ==
    /\ stale # {}
    /\ Prune(stale)
    /\ stale' = {}
    /\ UNCHANGED <<from, serverVars, discovered, recent, shipped, pollVars, histVars>>

-----------------------------------------------------------------------------
(* Failures.  A write that reports an error may have taken effect.         *)

PullFail ==
    /\ pc = "pull"
    /\ Fault
    /\ NextFile
    /\ UNCHANGED <<storeVars, from, serverVars, processVars, got, leftOut, forgotten, history, orphaned>>

\* Mutant: lines are remembered whether or not the sink took them.
WriteFailRemembering ==
    /\ pc = "write"
    /\ drain.pending # {}
    /\ Fault
    /\ Deliver \/ UNCHANGED got
    /\ IF file = Realtime THEN rememberErrors ELSE UNCHANGED <<recent, forgotten>>
    /\ NextFile
    /\ UNCHANGED <<storeVars, from, serverVars, discovered, stale, shipped,
                   leftOut, history, orphaned>>

WriteFail ==
    /\ pc = "write"
    /\ drain.pending # {}
    /\ Fault
    /\ Deliver \/ UNCHANGED got
    /\ NextFile
    /\ UNCHANGED <<storeVars, from, serverVars, processVars, leftOut, forgotten, history, orphaned>>

SaveFail ==
    /\ pc = "save"
    /\ SetError(file, Entry(file, drain.marker))
    /\ Fault
    /\ NextFile
    /\ UNCHANGED <<from, serverVars, processVars, got, leftOut, forgotten, history, orphaned>>

(* The process dies; the next one starts at once or after longer than      *)
(* checkpoint_retention.                                                   *)
Crash ==
    /\ Fault
    /\ Reopen
    /\ stale' \in IF backend = "sqlite" THEN {{}, Known} ELSE {{}}
    /\ initial' = Undiscovered
    /\ initialSize' = [f \in Files |-> 0]
    /\ horizon' = Never
    /\ recent' = [l \in Ids |-> Never]
    /\ shipped' = {}
    /\ pc' = "idle" /\ file' = Realtime /\ listing' = NoListing /\ drain' = NoDrain
    /\ UNCHANGED <<from, serverVars, got, leftOut, forgotten, history, orphaned>>

-----------------------------------------------------------------------------
Worker  == Discover \/ Skip \/ Begin \/ Pull \/ Write \/ Save
Failure == PullFail \/ WriteFail \/ SaveFail \/ Crash
Next    == WriteLine \/ Copy \/ Worker \/ Sweep \/ Failure

(* The worker keeps polling, RDS keeps copying and the sweep is run.       *)
Spec == Init /\ [][Next]_vars /\ WF_vars(Worker) /\ WF_vars(Copy) /\ WF_vars(Sweep)
-----------------------------------------------------------------------------
TypeOK ==
    /\ StoreTypeOK
    /\ from \in Froms
    /\ clock \in Periods
    /\ written \in Positions
    /\ content \in [Files -> Seq(Ids)]
    /\ lastWritten \in [Files -> Periods]
    /\ initial \in {Undiscovered, {}, Files}
    /\ initialSize \in [Files -> Positions]
    /\ horizon \in Periods \union {Never}
    /\ stale \subseteq Files
    /\ recent \in [Ids -> Periods \union {Never}]
    /\ Cardinality(Remembered) <= RecentMax
    /\ shipped \subseteq Ids
    /\ pc \in {"idle", "get", "pull", "write", "save"}
    /\ file \in Files
    /\ listing \in [Files -> [size : Positions, lastWritten : Periods]]
    /\ drain \in [marker : Positions, dedupe : BOOLEAN, pending : SUBSET Ids]
    /\ got \in [Ids -> Nat]
    /\ {leftOut, forgotten, history} \subseteq SUBSET Ids
    /\ orphaned \in BOOLEAN
    /\ faults \in 0 .. MaxFaults

Passed(c) == IF c = NotFound THEN {} ELSE Lines(Running, 1, c.marker)

(* The running log makes up for what the realtime log lost to truncation   *)
(* (worker.go:340-345): a line behind the running log's checkpoint, the    *)
(* one in use or the one a new process would find, has reached the sink    *)
(* from one of the two logs.                                               *)
NoErrorLost ==
    \A l \in Passed(Get(Running)) \union Passed(stored[Running]) :
        got[l] > 0 \/ l \in leftOut

(* It contributes only lines not already shipped (README.md:606): a line   *)
(* arrives twice only after a failure or a crash, or when the set of       *)
(* shipped lines had no room for it or outlived its hour.                  *)
DuplicatesNeedFaults ==
    \A l \in Ids : got[l] <= 1 + faults + IF l \in forgotten THEN 1 ELSE 0

(* start_from = end: what the running log held when an instance without    *)
(* checkpoints was first listed is not shipped, unless a process that      *)
(* finds other checkpoints has lost that of Running, or never had it, and  *)
(* takes a Running written to since for a new file.                        *)
HistoryStays ==
    orphaned \/ \A l \in history : got[l] = 0

(* Every error line reaches the sink, by one of the two ways, unless       *)
(* start_from = end left it out.                                           *)
EventuallyShipped ==
    <>[](\A l \in 1 .. written : got[l] > 0 \/ l \in leftOut)
=============================================================================
