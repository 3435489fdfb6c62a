------------------------------ MODULE Scheduler ------------------------------
(***************************************************************************)
(* Which instance has a worker: Scheduler.Run of                           *)
(* internal/pipeline/scheduler.go, with the life of an InstanceWorker      *)
(* around its polls (InstanceWorker.Run, worker.go) and the fleet as       *)
(* specResolver.Resolve (internal/app/app.go) reports it.                  *)
(*                                                                         *)
(* A worker is <<instance, n>>, the n-th one started for that instance.    *)
(* What a poll does is modelled in Drain and Rotation; here a poll is an   *)
(* interval during which the worker may write.                             *)
(***************************************************************************)
EXTENDS Integers, FiniteSets

CONSTANTS
    Instances,          \* keys "<region>|<id>" that may be in the fleet
    Unbuildable,        \* those for which no fetcher or worker can be built
    Dynamic,            \* values of "Refresh is configured" to consider
    Concurrency,        \* values of runtime.max_instances_concurrent; 0: unset
    MaxDynamicWorkers,  \* slots of a dynamic fleet without a cap
    MaxChanges          \* bound on changes of the fleet

ASSUME SchedulerAssumption ==
    /\ IsFiniteSet(Instances)
    /\ Unbuildable \subseteq Instances
    /\ Dynamic \subseteq BOOLEAN
    /\ Concurrency \subseteq Nat
    /\ MaxDynamicWorkers \in Nat
    /\ MaxChanges \in Nat

VARIABLES
    dynamic,    \* the fleet is re-resolved on refreshInterval
    slots,      \* capacity of sem
    fleet,      \* what Resolve would return now
    changes,    \* history: changes of the fleet so far
    ctx,        \* the root context: "live" or "cancelled"
    sched,      \* where Run is
    want,       \* the instances of the last Resolve
    todo,       \* those of them the start loop has not reached
    running,    \* map running: the worker registered for an instance, 0 if none
    started,    \* workers started for each instance so far
    st,         \* what each worker is doing
    cancelled,  \* workers whose own context was cancelled
    held        \* tokens in sem

configVars == <<dynamic, slots>>
fleetVars  == <<fleet, changes>>
schedVars  == <<sched, want, todo>>
mapVars    == <<running, started>>
vars == <<configVars, fleetVars, ctx, schedVars, mapVars, st, cancelled, held>>

\* A worker ends, and another is started for its instance, only after the
\* instance left the fleet or, once more, after the root context is done.
MaxStarts == MaxChanges + 2
Workers   == Instances \X (1 .. MaxStarts)

Cancelled(w) == ctx = "cancelled" \/ w \in cancelled

\* The worker is inside InstanceWorker.Run.
Active(w) == st[w] \in {"polling", "sleeping"}

\* The worker's goroutine has not returned.
Alive(w) == st[w] \in {"queued", "polling", "sleeping", "leaving", "released"}

-----------------------------------------------------------------------------
Capacity(c, n) ==
    IF dynamic THEN IF c = 0 THEN MaxDynamicWorkers ELSE c
    ELSE IF c = 0 \/ c > n THEN n ELSE c

Init ==
    /\ dynamic \in Dynamic
    /\ fleet \in SUBSET Instances
    /\ \E c \in Concurrency : slots = Capacity(c, Cardinality(fleet))
    /\ changes = 0
    /\ ctx = "live"
    /\ sched = "boot"
    /\ want = fleet
    /\ todo = fleet
    /\ running = [i \in Instances |-> 0]
    /\ started = [i \in Instances |-> 0]
    /\ st = [w \in Workers |-> "none"]
    /\ cancelled = {}
    /\ held = 0

(* An instance joins or leaves the fleet.                                  *)
Change ==
    /\ changes < MaxChanges
    /\ changes' = changes + 1
    /\ \E i \in Instances : fleet' = IF i \in fleet THEN fleet \ {i} ELSE fleet \union {i}
    /\ UNCHANGED <<configVars, ctx, schedVars, mapVars, st, cancelled, held>>

(* SIGINT or SIGTERM.                                                      *)
Signal ==
    /\ ctx = "live"
    /\ ctx' = "cancelled"
    /\ UNCHANGED <<configVars, fleetVars, schedVars, mapVars, st, cancelled, held>>

-----------------------------------------------------------------------------
(* Scheduler.Run.                                                          *)

\* start: register a worker of instance i and launch its goroutine.
Launch(i) ==
    LET n == started[i] + 1 IN
    /\ n <= MaxStarts      \* bounds the model; no run is stopped by it
    /\ started' = [started EXCEPT ![i] = n]
    /\ running' = [running EXCEPT ![i] = n]
    /\ st' = [st EXCEPT ![<<i, n>>] = "queued"]

(* The instances of the boot; one that cannot be built ends Run.           *)
Boot ==
    /\ sched = "boot"
    /\ IF todo = {}
       THEN sched' = "wait" /\ UNCHANGED <<todo, mapVars, st>>
       ELSE \E i \in todo :
              IF i \in Unbuildable
              THEN sched' = "returned" /\ UNCHANGED <<todo, mapVars, st>>
              ELSE Launch(i) /\ todo' = todo \ {i} /\ UNCHANGED sched
    /\ UNCHANGED <<configVars, fleetVars, ctx, want, cancelled, held>>

\* Mutant: a Resolve that finds no instance is taken for a failed one.
RefreshNonEmpty ==
    /\ sched = "wait"
    /\ dynamic
    /\ ctx = "live" \/ \A i \in Instances : started[i] < MaxStarts
    /\ fleet # {}
    /\ want' = fleet
    /\ sched' = "stop"
    /\ UNCHANGED <<configVars, fleetVars, ctx, todo, mapVars, st, cancelled, held>>

(* The ticker fires and Resolve succeeds.  One that fails changes nothing. *)
(* select may prefer the ticker although ctx is done; MaxStarts bounds how *)
(* often.                                                                  *)
Refresh ==
    /\ sched = "wait"
    /\ dynamic
    /\ ctx = "live" \/ \A i \in Instances : started[i] < MaxStarts
    /\ want' = fleet
    /\ sched' = "stop"
    /\ UNCHANGED <<configVars, fleetVars, ctx, todo, mapVars, st, cancelled, held>>

Departed == {i \in Instances \ want : running[i] # 0}

\* Mutant: the map forgets a worker as soon as it is cancelled.
StopDepartedForget ==
    /\ sched = "stop"
    /\ cancelled' = cancelled \union {<<i, running[i]>> : i \in Departed}
    /\ running' = [i \in Instances |-> IF i \in Departed THEN 0 ELSE running[i]]
    /\ sched' = "start"
    /\ todo' = want
    /\ UNCHANGED <<configVars, fleetVars, ctx, want, started, st, held>>

(* Cancel the workers of instances that left the fleet.                    *)
StopDeparted ==
    /\ sched = "stop"
    /\ cancelled' = cancelled \union {<<i, running[i]>> : i \in Departed}
    /\ sched' = "start"
    /\ todo' = want
    /\ UNCHANGED <<configVars, fleetVars, ctx, want, mapVars, st, held>>

(* Start a worker for an instance that has none registered.                *)
StartMissing ==
    /\ sched = "start"
    /\ IF todo = {}
       THEN sched' = "wait" /\ UNCHANGED <<todo, mapVars, st>>
       ELSE \E i \in todo :
              /\ todo' = todo \ {i}
              /\ IF running[i] = 0 /\ i \notin Unbuildable
                 THEN Launch(i)
                 ELSE UNCHANGED <<mapVars, st>>
              /\ UNCHANGED sched
    /\ UNCHANGED <<configVars, fleetVars, ctx, want, cancelled, held>>

BeginShutdown ==
    /\ sched = "wait"
    /\ ctx = "cancelled"
    /\ sched' = "drain"
    /\ UNCHANGED <<configVars, fleetVars, ctx, want, todo, mapVars, st, cancelled, held>>

(* Every worker has returned, or shutdown_timeout has passed.              *)
Return ==
    /\ sched = "drain"
    /\ sched' = "returned"
    /\ UNCHANGED <<configVars, fleetVars, ctx, want, todo, mapVars, st, cancelled, held>>

-----------------------------------------------------------------------------
(* A worker's goroutine.                                                   *)

Become(w, s) == st' = [st EXCEPT ![w] = s]

\* Mutant: a cancelled worker stops waiting for a slot, and its deferred
\* release runs all the same.
AcquireOrQuit(w) ==
    /\ st[w] = "queued"
    /\ \/ held < slots /\ held' = held + 1 /\ Become(w, "polling")
       \/ Cancelled(w) /\ UNCHANGED held /\ Become(w, "leaving")
    /\ UNCHANGED <<configVars, fleetVars, ctx, schedVars, mapVars, cancelled>>

(* Take a slot, waiting for one even if cancelled meanwhile, and poll.     *)
Acquire(w) ==
    /\ st[w] = "queued"
    /\ held < slots
    /\ held' = held + 1
    /\ Become(w, "polling")
    /\ UNCHANGED <<configVars, fleetVars, ctx, schedVars, mapVars, cancelled>>

(* A poll ends; the context is looked at only then.                        *)
EndPoll(w) ==
    /\ st[w] = "polling"
    /\ Become(w, IF Cancelled(w) THEN "leaving" ELSE "sleeping")
    /\ UNCHANGED <<configVars, fleetVars, ctx, schedVars, mapVars, cancelled, held>>

(* The poll timer fires, or the context is done.                           *)
Wake(w) ==
    /\ st[w] = "sleeping"
    /\ Become(w, "polling") \/ (Cancelled(w) /\ Become(w, "leaving"))
    /\ UNCHANGED <<configVars, fleetVars, ctx, schedVars, mapVars, cancelled, held>>

\* Mutant: the slot is not given back.
ReleaseNothing(w) ==
    /\ st[w] = "leaving"
    /\ Become(w, "released")
    /\ UNCHANGED <<configVars, fleetVars, ctx, schedVars, mapVars, cancelled, held>>

Release(w) ==
    /\ st[w] = "leaving"
    /\ held' = held - 1
    /\ Become(w, "released")
    /\ UNCHANGED <<configVars, fleetVars, ctx, schedVars, mapVars, cancelled>>

\* Mutant: the map entry stays.
ForgetNothing(w) ==
    /\ st[w] = "released"
    /\ Become(w, "gone")
    /\ UNCHANGED <<configVars, fleetVars, ctx, schedVars, mapVars, cancelled, held>>

(* The goroutine deletes its instance's map entries and returns.           *)
Forget(w) ==
    /\ st[w] = "released"
    /\ running' = [running EXCEPT ![w[1]] = 0]
    /\ Become(w, "gone")
    /\ UNCHANGED <<configVars, fleetVars, ctx, schedVars, started, cancelled, held>>

-----------------------------------------------------------------------------
Run == Boot \/ Refresh \/ StopDeparted \/ StartMissing \/ Return

WorkersOf(i) == {i} \X (1 .. MaxStarts)
Admit(i)     == \E w \in WorkersOf(i) : Acquire(w)
GoOn(i)      == \E w \in WorkersOf(i) : EndPoll(w) \/ Wake(w) \/ Release(w) \/ Forget(w)

Next ==
    \/ Change \/ Signal \/ Run \/ BeginShutdown
    \/ \E i \in Instances : Admit(i) \/ GoOn(i)

(* Goroutines are scheduled, polls end, Resolve succeeds now and then,     *)
(* select picks a ready case in the end, and channel senders wait in       *)
(* order, so that a slot that comes free again and again reaches each.     *)
Spec ==
    /\ Init /\ [][Next]_vars
    /\ WF_vars(Run) /\ SF_vars(BeginShutdown)
    /\ \A i \in Instances : SF_vars(Admit(i)) /\ WF_vars(GoOn(i))
-----------------------------------------------------------------------------
(* Properties.                                                             *)

TypeOK ==
    /\ dynamic \in BOOLEAN
    /\ slots \in Nat
    /\ fleet \subseteq Instances
    /\ changes \in 0 .. MaxChanges
    /\ ctx \in {"live", "cancelled"}
    /\ sched \in {"boot", "wait", "stop", "start", "drain", "returned"}
    /\ want \subseteq Instances
    /\ todo \subseteq Instances
    /\ running \in [Instances -> 0 .. MaxStarts]
    /\ started \in [Instances -> 0 .. MaxStarts]
    /\ st \in [Workers -> {"none", "queued", "polling", "sleeping", "leaving",
                           "released", "gone"}]
    /\ cancelled \subseteq Workers
    /\ held \in 0 .. slots

(* An instance's files are drained by one worker at a time, so polls of an *)
(* instance never overlap (pollOnce's comment, worker.go:302-305): however *)
(* instances leave and return while a worker is still winding down, two of *)
(* an instance are never inside Run together.                              *)
OneWorkerPerInstance ==
    \A i \in Instances : \A m, n \in 1 .. MaxStarts :
        Active(<<i, m>>) /\ Active(<<i, n>>) => m = n

(* max_instances_concurrent bounds the instances polled at the same time,  *)
(* however their workers are cancelled and replaced (scheduler.go:107-113).*)
SlotsRespected == Cardinality({w \in Workers : Active(w)}) <= slots

Desired   == IF dynamic THEN fleet ELSE want
Tailed(i) == \E n \in 1 .. MaxStarts : Active(<<i, n>>) /\ <<i, n>> \notin cancelled

(* A fleet that fits the slots is tailed (scheduler.go:107-113): once it   *)
(* has stopped changing, each of its instances gets a worker that stays,   *)
(* even if the instance left and returned while its last worker was        *)
(* waiting for a slot or winding down.                                     *)
FleetIsTailed ==
    <>[](Cardinality(Desired) <= slots /\ sched # "returned" /\ ctx = "live"
            => \A i \in Desired \ Unbuildable : Tailed(i))

(* The worker of an instance that left the fleet for good stops.           *)
DepartedStops ==
    <>[](sched # "returned" =>
            \A i \in Instances \ Desired : \A w \in WorkersOf(i) : ~Active(w))

(* Once asked to stop, Run returns and every worker returns, those still   *)
(* waiting for a slot too.                                                 *)
ShutdownEnds ==
    ctx = "cancelled" ~> sched = "returned" /\ \A w \in Workers : ~Alive(w)
=============================================================================
