--------------------------- MODULE SchedulerProofs ---------------------------
(***************************************************************************)
(* Proofs about Scheduler, for every fleet, cap and number of changes: the *)
(* types, that an instance never has two workers inside Run, and that no   *)
(* more instances are polled at a time than there are slots.               *)
(***************************************************************************)
EXTENDS Scheduler, FiniteSetTheorems, TLAPS

-----------------------------------------------------------------------------
(* The inductive invariant.                                                *)

Holds(w) == st[w] \in {"polling", "sleeping", "leaving"}
Holding  == {w \in Workers : Holds(w)}

\* A goroutine that has not returned is the one registered for its instance.
Registered == \A w \in Workers : Alive(w) => running[w[1]] = w[2]

\* Nothing is known of a worker before it is started.
Fresh == \A w \in Workers : w[2] > started[w[1]] => st[w] = "none"

\* The boot loop meets each instance once.
BootOnce == sched = "boot" => \A i \in todo : running[i] = 0

\* sem holds one token for each worker between its acquire and its release.
Tokens == held = Cardinality(Holding)

IInv == TypeOK /\ Registered /\ Fresh /\ BootOnce /\ Tokens

LEMMA WorkersFinite == IsFiniteSet(Workers)
<1>1. MaxStarts \in Nat
  BY SchedulerAssumption DEF MaxStarts
<1>2. IsFiniteSet(1 .. MaxStarts)
  BY <1>1, FS_Interval
<1> QED
  BY <1>2, FS_Product, SchedulerAssumption DEF Workers

LEMMA HoldingFinite == IsFiniteSet(Holding) /\ Cardinality(Holding) \in Nat
<1>1. Holding \subseteq Workers
  BY DEF Holding
<1> QED
  BY <1>1, WorkersFinite, FS_Subset, FS_CardinalityType

-----------------------------------------------------------------------------
LEMMA InitInv == Init => IInv
<1> SUFFICES ASSUME Init PROVE IInv
  OBVIOUS
<1> USE SchedulerAssumption
<1>1. MaxStarts \in Nat
  BY DEF MaxStarts
<1>2. IsFiniteSet(fleet) /\ Cardinality(fleet) \in Nat
  BY FS_Subset, FS_CardinalityType DEF Init
<1>3. slots \in Nat
  BY <1>2 DEF Init, Capacity
<1>4. TypeOK
  BY <1>1, <1>3 DEF Init, TypeOK
<1>5. Registered /\ Fresh /\ BootOnce
  BY DEF Init, Registered, Fresh, BootOnce, Alive
<1>6. Holding = {}
  BY DEF Init, Holding, Holds
<1>7. Tokens
  BY <1>6, FS_EmptySet DEF Tokens, Init
<1> QED
  BY <1>4, <1>5, <1>7 DEF IInv

-----------------------------------------------------------------------------
(* Launching a worker of an instance that has none registered.             *)

LEMMA LaunchInv ==
  ASSUME IInv, NEW i \in Instances, running[i] = 0, Launch(i)
  PROVE  /\ running' \in [Instances -> 0 .. MaxStarts]
         /\ started' \in [Instances -> 0 .. MaxStarts]
         /\ st' \in [Workers -> {"none", "queued", "polling", "sleeping", "leaving",
                                 "released", "gone"}]
         /\ Registered' /\ Fresh'
         /\ Holding' = Holding
         /\ \A j \in Instances \ {i} : running'[j] = running[j]
<1> DEFINE n == started[i] + 1
<1> DEFINE x == <<i, n>>
<1>1. MaxStarts \in Nat
  BY SchedulerAssumption DEF MaxStarts
<1>2. n \in 1 .. MaxStarts /\ x \in Workers
  BY <1>1 DEF Launch, IInv, TypeOK, Workers
<1>3. st[x] = "none"
  BY <1>2 DEF IInv, Fresh, TypeOK
<1>4. /\ running' = [running EXCEPT ![i] = n]
      /\ started' = [started EXCEPT ![i] = n]
      /\ st' = [st EXCEPT ![x] = "queued"]
  BY DEF Launch
<1>5. \A w \in Workers : w # x => st'[w] = st[w]
  BY <1>4 DEF IInv, TypeOK
<1>6. Registered'
  <2> SUFFICES ASSUME NEW w \in Workers, Alive(w)' PROVE running'[w[1]] = w[2]
    BY DEF Registered
  <2>1. w \in Instances \X (1 .. MaxStarts)
    BY DEF Workers
  <2>2. CASE w = x
    BY <2>2, <1>4 DEF IInv, TypeOK
  <2>3. CASE w # x
    <3>1. running[w[1]] = w[2]
      BY <2>3, <1>5 DEF IInv, Registered, Alive
    <3>2. w[1] # i
      BY <3>1, <2>1
    <3> QED
      BY <3>1, <3>2, <2>1, <1>4 DEF IInv, TypeOK
  <2> QED
    BY <2>2, <2>3
<1>7. Fresh'
  <2> SUFFICES ASSUME NEW w \in Workers, w[2] > started'[w[1]] PROVE st'[w] = "none"
    BY DEF Fresh
  <2>1. w \in Instances \X (1 .. MaxStarts)
    BY DEF Workers
  <2>2. w # x /\ w[2] > started[w[1]]
    BY <2>1, <1>1, <1>4 DEF IInv, TypeOK
  <2> QED
    BY <2>2, <1>5 DEF IInv, Fresh
<1>8. Holding' = Holding
  BY <1>2, <1>3, <1>4, <1>5 DEF Holding, Holds, IInv, TypeOK
<1>9. \A j \in Instances \ {i} : running'[j] = running[j]
  BY <1>4 DEF IInv, TypeOK
<1> QED
  BY <1>1, <1>2, <1>4, <1>6, <1>7, <1>8, <1>9 DEF IInv, TypeOK

(* A worker's goroutine going from one state to another.                   *)

LEMMA BecomeInv ==
  ASSUME IInv, NEW w \in Workers, st[w] \in {"queued", "polling", "sleeping", "leaving"},
         NEW s \in {"polling", "sleeping", "leaving", "released"}, Become(w, s),
         UNCHANGED <<running, started>>
  PROVE  /\ st' \in [Workers -> {"none", "queued", "polling", "sleeping", "leaving",
                                 "released", "gone"}]
         /\ Registered' /\ Fresh'
         /\ Holding' = IF s = "released" THEN Holding \ {w} ELSE Holding \union {w}
<1>1. st' = [st EXCEPT ![w] = s]
  BY DEF Become
<1>2. \A v \in Workers : st'[v] = IF v = w THEN s ELSE st[v]
  BY <1>1 DEF IInv, TypeOK
<1>3. Registered'
  BY <1>2 DEF IInv, Registered, Alive
<1>4. Fresh'
  BY <1>2 DEF IInv, Fresh
<1>5. Holding' = IF s = "released" THEN Holding \ {w} ELSE Holding \union {w}
  BY <1>2 DEF Holding, Holds
<1> QED
  BY <1>1, <1>3, <1>4, <1>5 DEF IInv, TypeOK

-----------------------------------------------------------------------------
LEMMA NextInv == IInv /\ [Next]_vars => IInv'
<1> SUFFICES ASSUME IInv, [Next]_vars PROVE IInv'
  OBVIOUS
<1> USE SchedulerAssumption
<1>m. MaxStarts \in Nat
  BY DEF MaxStarts
<1>h. held \in Nat /\ slots \in Nat /\ held <= slots /\ held = Cardinality(Holding)
  BY DEF IInv, TypeOK, Tokens
<1>k. ASSUME UNCHANGED <<mapVars, st>>
      PROVE  Registered' /\ Fresh' /\ Holding' = Holding
  BY <1>k DEF IInv, Registered, Fresh, Holding, Holds, Alive, mapVars
<1>1. CASE Change
  <2>1. TypeOK' /\ BootOnce' /\ held' = held
    BY <1>1 DEF IInv, TypeOK, BootOnce, Change, configVars, schedVars, mapVars
  <2> QED
    BY <2>1, <1>1, <1>k DEF Change, IInv, Tokens
<1>2. CASE Signal
  <2>1. TypeOK' /\ BootOnce' /\ held' = held
    BY <1>2 DEF IInv, TypeOK, BootOnce, Signal, configVars, fleetVars, schedVars, mapVars
  <2> QED
    BY <2>1, <1>2, <1>k DEF Signal, IInv, Tokens
<1>3. CASE Boot
  <2> USE <1>3
  <2>1. CASE UNCHANGED <<todo, mapVars, st>>
    <3>1. TypeOK' /\ BootOnce' /\ held' = held
      BY <2>1 DEF IInv, TypeOK, BootOnce, Boot, configVars, fleetVars, mapVars
    <3> QED
      BY <3>1, <2>1, <1>k DEF IInv, Tokens
  <2>2. CASE \E i \in todo : Launch(i) /\ todo' = todo \ {i} /\ UNCHANGED sched
    <3>1. PICK i \in todo : Launch(i) /\ todo' = todo \ {i} /\ UNCHANGED sched
      BY <2>2
    <3>2. i \in Instances /\ running[i] = 0
      BY DEF Boot, IInv, TypeOK, BootOnce
    <3>3. /\ running' \in [Instances -> 0 .. MaxStarts]
          /\ started' \in [Instances -> 0 .. MaxStarts]
          /\ st' \in [Workers -> {"none", "queued", "polling", "sleeping", "leaving",
                                  "released", "gone"}]
          /\ Registered' /\ Fresh' /\ Holding' = Holding
          /\ \A j \in Instances \ {i} : running'[j] = running[j]
      BY <3>1, <3>2, LaunchInv
    <3>4. TypeOK'
      BY <3>1, <3>3 DEF IInv, TypeOK, Boot, configVars, fleetVars
    <3>5. BootOnce' /\ Tokens'
      BY <3>1, <3>3 DEF IInv, TypeOK, BootOnce, Tokens, Boot
    <3> QED
      BY <3>3, <3>4, <3>5 DEF IInv
  <2> QED
    BY <2>1, <2>2 DEF Boot
<1>4. CASE Refresh
  <2>1. TypeOK' /\ BootOnce' /\ held' = held
    BY <1>4 DEF IInv, TypeOK, BootOnce, Refresh, configVars, fleetVars, mapVars
  <2> QED
    BY <2>1, <1>4, <1>k DEF Refresh, IInv, Tokens
<1>5. CASE StopDeparted
  <2>1. {<<i, running[i]>> : i \in Departed} \subseteq Workers
    BY <1>m DEF Departed, Workers, IInv, TypeOK
  <2>2. TypeOK' /\ BootOnce' /\ held' = held
    BY <2>1, <1>5 DEF IInv, TypeOK, BootOnce, StopDeparted, configVars, fleetVars, mapVars
  <2> QED
    BY <2>2, <1>5, <1>k DEF StopDeparted, IInv, Tokens
<1>6. CASE StartMissing
  <2> USE <1>6
  <2>1. CASE UNCHANGED <<mapVars, st>>
    <3>1. TypeOK' /\ BootOnce' /\ held' = held
      BY <2>1 DEF IInv, TypeOK, BootOnce, StartMissing, configVars, fleetVars, mapVars
    <3> QED
      BY <3>1, <2>1, <1>k DEF IInv, Tokens
  <2>2. CASE \E i \in todo : /\ todo' = todo \ {i}
                             /\ running[i] = 0
                             /\ Launch(i)
                             /\ UNCHANGED sched
    <3>1. PICK i \in todo : /\ todo' = todo \ {i}
                            /\ running[i] = 0
                            /\ Launch(i)
                            /\ UNCHANGED sched
      BY <2>2
    <3>2. i \in Instances
      BY DEF IInv, TypeOK
    <3>3. /\ running' \in [Instances -> 0 .. MaxStarts]
          /\ started' \in [Instances -> 0 .. MaxStarts]
          /\ st' \in [Workers -> {"none", "queued", "polling", "sleeping", "leaving",
                                  "released", "gone"}]
          /\ Registered' /\ Fresh' /\ Holding' = Holding
      BY <3>1, <3>2, LaunchInv
    <3>4. TypeOK'
      BY <3>1, <3>3 DEF IInv, TypeOK, StartMissing, configVars, fleetVars
    <3>5. BootOnce' /\ Tokens'
      BY <3>1, <3>3 DEF IInv, BootOnce, Tokens, StartMissing
    <3> QED
      BY <3>3, <3>4, <3>5 DEF IInv
  <2> QED
    BY <2>1, <2>2 DEF StartMissing
<1>7. CASE BeginShutdown \/ Return
  <2>1. TypeOK' /\ BootOnce' /\ held' = held
    BY <1>7 DEF IInv, TypeOK, BootOnce, BeginShutdown, Return, configVars, fleetVars, mapVars
  <2> QED
    BY <2>1, <1>7, <1>k DEF BeginShutdown, Return, IInv, Tokens
<1>8. ASSUME NEW i \in Instances, NEW w \in WorkersOf(i), Acquire(w) PROVE IInv'
  <2> USE <1>8
  <2>1. w \in Workers
    BY DEF WorkersOf, Workers
  <2>2. /\ st' \in [Workers -> {"none", "queued", "polling", "sleeping", "leaving",
                                "released", "gone"}]
        /\ Registered' /\ Fresh'
        /\ Holding' = Holding \union {w}
    BY <2>1, BecomeInv DEF Acquire, mapVars
  <2>3. w \notin Holding
    BY DEF Acquire, Holding, Holds
  <2>4. Cardinality(Holding') = held + 1
    BY <2>2, <2>3, <1>h, HoldingFinite, FS_AddElement
  <2>5. TypeOK' /\ BootOnce' /\ Tokens'
    BY <2>2, <2>4, <1>h DEF IInv, TypeOK, BootOnce, Tokens, Acquire, configVars,
                            fleetVars, schedVars, mapVars
  <2> QED
    BY <2>2, <2>5 DEF IInv
<1>9. ASSUME NEW i \in Instances, NEW w \in WorkersOf(i), EndPoll(w) \/ Wake(w) PROVE IInv'
  <2> USE <1>9
  <2>1. w \in Workers
    BY DEF WorkersOf, Workers
  <2>2. PICK s \in {"polling", "sleeping", "leaving"} : Become(w, s)
    BY DEF EndPoll, Wake
  <2>3. /\ st' \in [Workers -> {"none", "queued", "polling", "sleeping", "leaving",
                                "released", "gone"}]
        /\ Registered' /\ Fresh'
        /\ Holding' = Holding \union {w}
    BY <2>1, <2>2, BecomeInv DEF EndPoll, Wake, mapVars
  <2>4. Holding' = Holding
    BY <2>1, <2>3 DEF EndPoll, Wake, Holding, Holds
  <2>5. TypeOK' /\ BootOnce' /\ Tokens'
    BY <2>3, <2>4 DEF IInv, TypeOK, BootOnce, Tokens, EndPoll, Wake, configVars,
                      fleetVars, schedVars, mapVars
  <2> QED
    BY <2>3, <2>5 DEF IInv
<1>10. ASSUME NEW i \in Instances, NEW w \in WorkersOf(i), Release(w) PROVE IInv'
  <2> USE <1>10
  <2>1. w \in Workers
    BY DEF WorkersOf, Workers
  <2>2. /\ st' \in [Workers -> {"none", "queued", "polling", "sleeping", "leaving",
                                "released", "gone"}]
        /\ Registered' /\ Fresh'
        /\ Holding' = Holding \ {w}
    BY <2>1, BecomeInv DEF Release, mapVars
  <2>3. w \in Holding
    BY <2>1 DEF Release, Holding, Holds
  <2>4. Cardinality(Holding') = held - 1
    BY <2>2, <2>3, <1>h, HoldingFinite, FS_RemoveElement
  <2>5. IsFiniteSet(Holding') /\ Cardinality(Holding') \in Nat
    BY <2>2, HoldingFinite, FS_RemoveElement, FS_CardinalityType
  <2>6. TypeOK' /\ BootOnce' /\ Tokens'
    BY <2>2, <2>4, <2>5, <1>h DEF IInv, TypeOK, BootOnce, Tokens, Release, configVars,
                                  fleetVars, schedVars, mapVars
  <2> QED
    BY <2>2, <2>6 DEF IInv
<1>11. ASSUME NEW i \in Instances, NEW w \in WorkersOf(i), Forget(w) PROVE IInv'
  <2> USE <1>11
  <2>1. w \in Instances \X (1 .. MaxStarts) /\ w \in Workers
    BY DEF WorkersOf, Workers
  <2>2. /\ running' = [running EXCEPT ![w[1]] = 0]
        /\ st' = [st EXCEPT ![w] = "gone"]
        /\ UNCHANGED <<started, held, sched, todo>>
    BY DEF Forget, Become, schedVars
  <2>3. \A v \in Workers : st'[v] = IF v = w THEN "gone" ELSE st[v]
    BY <2>2 DEF IInv, TypeOK
  <2>4. Registered'
    <3> SUFFICES ASSUME NEW v \in Workers, Alive(v)' PROVE running'[v[1]] = v[2]
      BY DEF Registered
    <3>1. v # w /\ Alive(v)
      BY <2>3 DEF Alive
    <3>2. running[v[1]] = v[2] /\ running[w[1]] = w[2]
      BY <3>1, <2>1 DEF IInv, Registered, Alive, Forget
    <3>3. v \in Instances \X (1 .. MaxStarts)
      BY DEF Workers
    <3>4. v[1] # w[1]
      BY <3>1, <3>2, <3>3, <2>1
    <3> QED
      BY <3>2, <3>3, <3>4, <2>1, <2>2 DEF IInv, TypeOK
  <2>5. Fresh'
    BY <2>1, <2>2, <2>3 DEF IInv, Fresh, Forget
  <2>6. Holding' = Holding
    BY <2>3, <2>1 DEF Holding, Holds, Forget
  <2>7. TypeOK'
    BY <2>1, <2>2, <1>m DEF IInv, TypeOK, Forget, configVars, fleetVars, schedVars
  <2>8. BootOnce' /\ Tokens'
    BY <2>1, <2>2, <2>6 DEF IInv, TypeOK, BootOnce, Tokens
  <2> QED
    BY <2>4, <2>5, <2>7, <2>8 DEF IInv
<1>12. CASE UNCHANGED vars
  <2>1. TypeOK' /\ BootOnce' /\ held' = held /\ UNCHANGED <<mapVars, st>>
    BY <1>12 DEF vars, IInv, TypeOK, BootOnce, configVars, fleetVars, schedVars, mapVars
  <2> QED
    BY <2>1, <1>k DEF IInv, Tokens
<1> QED
  BY <1>1, <1>2, <1>3, <1>4, <1>5, <1>6, <1>7, <1>8, <1>9, <1>10, <1>11, <1>12
  DEF Next, Run, Admit, GoOn

-----------------------------------------------------------------------------
LEMMA Invariance == Spec => []IInv
<1>1. Init => IInv
  BY InitInv
<1>2. IInv /\ [Next]_vars => IInv'
  BY NextInv
<1> QED
  BY <1>1, <1>2, PTL DEF Spec

(* The types of the scheduler's state; that 0 <= held <= slots says that   *)
(* no goroutine gives back a slot it does not hold.                        *)
THEOREM SchedulerTyping == Spec => []TypeOK
<1>1. IInv => TypeOK
  BY DEF IInv
<1> QED
  BY <1>1, Invariance, PTL

(* Two workers of one instance are never inside Run together, so an        *)
(* instance's files have one reader and one writer of checkpoints.         *)
THEOREM NeverTwoWorkers == Spec => []OneWorkerPerInstance
<1>1. IInv => OneWorkerPerInstance
  <2> SUFFICES ASSUME IInv, NEW i \in Instances,
                      NEW m \in 1 .. MaxStarts, NEW n \in 1 .. MaxStarts,
                      Active(<<i, m>>), Active(<<i, n>>)
               PROVE  m = n
    BY DEF OneWorkerPerInstance
  <2>1. running[i] = m
    BY DEF IInv, Registered, Workers, Active, Alive
  <2>2. running[i] = n
    BY DEF IInv, Registered, Workers, Active, Alive
  <2> QED
    BY <2>1, <2>2
<1> QED
  BY <1>1, Invariance, PTL

(* The cap on instances polled at the same time holds.                     *)
THEOREM CapHolds == Spec => []SlotsRespected
<1>1. IInv => SlotsRespected
  <2> SUFFICES ASSUME IInv PROVE Cardinality({w \in Workers : Active(w)}) <= slots
    BY DEF SlotsRespected
  <2> DEFINE A == {w \in Workers : Active(w)}
  <2>1. A \subseteq Holding
    BY DEF Holding, Holds, Active
  <2>2. Cardinality(A) \in Nat /\ Cardinality(A) <= Cardinality(Holding)
    BY <2>1, HoldingFinite, FS_Subset, FS_CardinalityType
  <2> QED
    BY <2>2, HoldingFinite DEF IInv, TypeOK, Tokens
<1> QED
  BY <1>1, Invariance, PTL
=============================================================================
