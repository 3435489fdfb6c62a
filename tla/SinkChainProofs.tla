--------------------------- MODULE SinkChainProofs ---------------------------
(***************************************************************************)
(* Proofs about SinkChain, for any number of files, sinks and failures:    *)
(* the types, that no batch behind a checkpoint is dropped, and that none  *)
(* is delivered twice unless something failed.                             *)
(***************************************************************************)
EXTENDS SinkChain, FiniteSetTheorems, WellFoundedInduction, TLAPS

-----------------------------------------------------------------------------
(* The inductive invariant.                                                *)

\* Every sink that an unfinished, so far successful Write has passed has
\* taken the batch, does not want it, or had it parked.
Passed ==
    \A f \in Files : pc[f] # "idle" /\ ~failed[f] =>
        \A k \in 1 .. (at[f] - 1) :
            Current(f) \in Wanted[Sinks[k]] => Accounted(Sinks[k], Current(f))

\* A Write has a batch to deliver and, while it parks one, a sink.
Busy ==
    \A f \in Files :
        /\ pc[f] # "idle" => acked[f] < MaxBatches
        /\ pc[f] = "park" => at[f] < Last

PageRows == {replay.page[k] : k \in DOMAIN replay.page}

\* An id names one row, in the table and on the page that replay holds.
UniqueIds ==
    /\ IsFiniteSet(rows)
    /\ \A r, q \in rows \union PageRows : r.id = q.id => r = q
    /\ \A r \in rows \union PageRows : r.id < nextId

\* Replay deletes only what its sink has taken.
DeliveredFirst ==
    /\ replay.pc \in {"item", "delete"} => Len(replay.page) > 0
    /\ replay.pc = "delete" => got[Item.sink][Item.batch] > 0

IInv == TypeOK /\ NothingDropped /\ Passed /\ Busy /\ UniqueIds /\ DeliveredFirst

-----------------------------------------------------------------------------
(* The fan-out's order.                                                    *)

LEMMA Sizes ==
    /\ Len(Sinks) \in Nat
    /\ Last \in Nat \ {0}
    /\ \A k \in 1 .. (Last - 1) : Sinks[k] \in Names
    /\ \A s \in Names : \E k \in 1 .. (Last - 1) : Sinks[k] = s
  BY SinkChainAssumption DEF Last, Names

LEMMA NextSinkIs ==
  ASSUME NEW b, NEW i \in 0 .. Len(Sinks)
  PROVE  /\ NextSink(b, i) \in (i + 1) .. Last
         /\ \A k \in (i + 1) .. (NextSink(b, i) - 1) : b \notin Wanted[Sinks[k]]
<1> DEFINE C == {j \in (i + 1) .. Last : j = Last \/ b \in Wanted[Sinks[j]]}
<1>1. C \subseteq Nat /\ C # {}
  <2>1. Last \in C
    BY Sizes DEF Last
  <2>2. (i + 1) .. Last \subseteq Nat
    BY Sizes
  <2> QED
    BY <2>1, <2>2
<1>2. PICK j \in C : \A c \in C : <<c, j>> \notin OpToRel(<, Nat)
  BY <1>1, NatLessThanWellFounded, WFMin, Zenon
<1>3. \A c \in C : ~(c < j)
  BY <1>1, <1>2, Zenon DEF OpToRel
<1>4. \A k \in (i + 1) .. (j - 1) : b \notin Wanted[Sinks[k]]
  BY <1>1, <1>3, Sizes DEF Last
<1>5. \E m \in (i + 1) .. Last :
        /\ m = Last \/ b \in Wanted[Sinks[m]]
        /\ \A k \in (i + 1) .. (m - 1) : b \notin Wanted[Sinks[k]]
  BY <1>4
<1> QED
  BY <1>5 DEF NextSink

-----------------------------------------------------------------------------
(* What keeps a batch accounted for.                                       *)

\* Delivery and parking only add; Purge records what it takes.
Keeps ==
    \A s \in Names, b \in Batches : Accounted(s, b) => Accounted(s, b)'

LEMMA GiveKeeps ==
  ASSUME TypeOK, NEW s \in Names, NEW b \in Batches, Give(s, b)
  PROVE  /\ got' \in [Names -> [Batches -> Nat]]
         /\ got'[s][b] > 0
         /\ \A t \in Names, c \in Batches : got[t][c] > 0 => got'[t][c] > 0
  BY DEF TypeOK, Give

LEMMA CurrentIs ==
  ASSUME IInv, NEW f \in Files, pc[f] # "idle"
  PROVE  /\ Current(f) \in Batches
         /\ acked[f] \in 0 .. MaxBatches /\ acked[f] < MaxBatches
         /\ at[f] \in 1 .. Last
         /\ pc[f] = "park" => at[f] < Last
         /\ at[f] < Last => Sink(f) \in Names
  BY SinkChainAssumption, Sizes DEF IInv, TypeOK, Busy, Current, Batches, Sink

\* A step that touches neither the Write of a file nor an acknowledgement.
LEMMA OthersStay ==
  ASSUME IInv, Keeps, UNCHANGED writeVars
  PROVE  NothingDropped' /\ Passed' /\ Busy'
<1>1. NothingDropped'
  BY DEF IInv, NothingDropped, Keeps, writeVars, Batches
<1>2. Passed'
  <2> SUFFICES ASSUME NEW f \in Files, pc[f] # "idle", ~failed[f],
                      NEW k \in 1 .. (at[f] - 1), Current(f) \in Wanted[Sinks[k]]
               PROVE  Accounted(Sinks[k], Current(f))'
    BY DEF Passed, writeVars, Current
  <2>1. Accounted(Sinks[k], Current(f))
    BY DEF IInv, Passed
  <2>2. Current(f) \in Batches /\ Sinks[k] \in Names
    BY CurrentIs, Sizes
  <2>3. Current(f)' = Current(f)
    BY DEF writeVars, Current
  <2> QED
    BY <2>1, <2>2, <2>3 DEF Keeps, Accounted
<1>3. Busy'
  BY DEF IInv, Busy, writeVars
<1> QED
  BY <1>1, <1>2, <1>3

-----------------------------------------------------------------------------
(* The Write of one file going on to the next sink.                        *)

WriteTypes ==
    /\ acked \in [Files -> 0 .. MaxBatches]
    /\ pc \in [Files -> {"idle", "write", "park"}]
    /\ at \in [Files -> 1 .. Last]
    /\ attempt \in [Files -> 1 .. MaxAttempts]
    /\ failed \in [Files -> BOOLEAN]

LEMMA MoveOnInv ==
  ASSUME IInv, Keeps, NEW f \in Files, pc[f] # "idle", at[f] < Last,
         NEW ok \in BOOLEAN, MoveOn(f, ok), NEW s, s = Sink(f), NEW b, b = Current(f),
         ok => Accounted(s, b)'
  PROVE  WriteTypes' /\ NothingDropped' /\ Passed' /\ Busy'
<1> DEFINE c == Current(f)
<1> DEFINE j == NextSink(c, at[f])
<1>1. at[f] \in 1 .. Last /\ at[f] \in 0 .. Len(Sinks) /\ Last = Len(Sinks) + 1
  BY CurrentIs, Sizes DEF Last
<1>2. /\ j \in (at[f] + 1) .. Last
      /\ \A k \in (at[f] + 1) .. (j - 1) : c \notin Wanted[Sinks[k]]
  BY <1>1, NextSinkIs
<1>3. /\ pc' = [pc EXCEPT ![f] = "write"]
      /\ at' = [at EXCEPT ![f] = j]
      /\ attempt' = [attempt EXCEPT ![f] = 1]
      /\ failed' = [failed EXCEPT ![f] = failed[f] \/ ~ok]
      /\ acked' = acked
  BY DEF MoveOn
<1>4. WriteTypes'
  <2>1. /\ acked' \in [Files -> 0 .. MaxBatches]
        /\ pc' \in [Files -> {"idle", "write", "park"}]
        /\ at' \in [Files -> 1 .. Last]
        /\ attempt' \in [Files -> 1 .. MaxAttempts]
    BY <1>1, <1>2, <1>3, SinkChainAssumption DEF IInv, TypeOK
  <2>2. failed' \in [Files -> BOOLEAN]
    <3>1. (failed[f] \/ ~ok) \in BOOLEAN
      OBVIOUS
    <3>2. failed \in [Files -> BOOLEAN]
      BY DEF IInv, TypeOK
    <3> QED
      BY <3>1, <3>2, <1>3
  <2> QED
    BY <2>1, <2>2 DEF WriteTypes
<1>5. NothingDropped'
  BY <1>3 DEF IInv, NothingDropped, Keeps, Batches
<1>6. Passed'
  <2> SUFFICES ASSUME NEW g \in Files, pc'[g] # "idle", ~failed'[g],
                      NEW k \in 1 .. (at'[g] - 1), Current(g)' \in Wanted[Sinks[k]]
               PROVE  Accounted(Sinks[k], Current(g))'
    BY DEF Passed
  <2>1. Current(g)' = Current(g)
    BY <1>3 DEF Current
  <2>2. CASE g # f
    <3>1. pc[g] # "idle" /\ ~failed[g] /\ at'[g] = at[g]
      BY <2>2, <1>3 DEF IInv, TypeOK
    <3>2. Accounted(Sinks[k], Current(g))
      BY <3>1, <2>1 DEF IInv, Passed
    <3>3. Current(g) \in Batches /\ Sinks[k] \in Names
      BY <3>1, CurrentIs, Sizes
    <3> QED
      BY <3>2, <3>3, <2>1 DEF Keeps, Accounted
  <2>3. CASE g = f
    <3>1. ~failed[f] /\ ok /\ at'[f] = j
      BY <2>3, <1>3 DEF IInv, TypeOK
    <3>2. CASE k < at[f]
      <4>1. k \in 1 .. (at[f] - 1)
        BY <3>2, <1>1
      <4>2. Accounted(Sinks[k], c)
        BY <4>1, <3>1, <2>1, <2>3 DEF IInv, Passed
      <4>3. c \in Batches /\ Sinks[k] \in Names
        BY <4>1, <1>1, CurrentIs, Sizes
      <4> QED
        BY <4>2, <4>3, <2>1, <2>3 DEF Keeps, Accounted
    <3>3. CASE k = at[f]
      <4>1. Sinks[k] = s /\ Current(g)' = b
        BY <3>3, <2>1, <2>3 DEF Sink
      <4>2. Accounted(s, b)'
        BY <3>1
      <4> QED
        BY <4>1, <4>2 DEF Accounted
    <3>4. CASE k > at[f]
      BY <3>1, <3>4, <1>1, <1>2, <2>1, <2>3
    <3> QED
      BY <3>2, <3>3, <3>4, <1>1
  <2> QED
    BY <2>2, <2>3
<1>7. Busy'
  BY <1>3 DEF IInv, TypeOK, Busy
<1> QED
  BY <1>4, <1>5, <1>6, <1>7

-----------------------------------------------------------------------------
(* The dead-letter table and the page that replay holds.                   *)

LEMMA ItemIs ==
  ASSUME TypeOK, Len(replay.page) > 0
  PROVE  /\ Item \in Row /\ Item \in PageRows
         /\ Item.sink \in Names /\ Item.batch \in Batches /\ Item.id \in Nat
<1>1. replay.page \in Seq(Row)
  BY DEF TypeOK
<1>2. Item = replay.page[1] /\ 1 \in DOMAIN replay.page /\ Item \in Row
  BY <1>1 DEF Item
<1>3. Item \in PageRows
  BY <1>2 DEF PageRows
<1> QED
  BY <1>2, <1>3 DEF Row

LEMMA TableStays ==
  ASSUME IInv, UNCHANGED <<tableVars, replay>>,
         \A t \in Names, c \in Batches : got[t][c] > 0 => got'[t][c] > 0
  PROVE  UniqueIds' /\ DeliveredFirst'
<1>1. UniqueIds'
  BY DEF IInv, UniqueIds, PageRows, tableVars
<1>2. DeliveredFirst'
  BY ItemIs DEF IInv, DeliveredFirst, Item
<1> QED
  BY <1>1, <1>2

LEMMA PutInv ==
  ASSUME IInv, NEW s \in Names, NEW b \in Batches, DLQPut(s, b),
         UNCHANGED <<got, purged, replay>>
  PROVE  /\ rows' \subseteq Row /\ nextId' \in Nat
         /\ Keeps /\ Accounted(s, b)'
         /\ UniqueIds' /\ DeliveredFirst'
<1> DEFINE new == [id |-> nextId, sink |-> s, batch |-> b]
<1>1. /\ rows' = rows \union {new}
      /\ nextId' = nextId + 1
      /\ new \in Row
  BY DEF DLQPut, IInv, TypeOK, Row
<1>2. rows' \subseteq Row /\ nextId' \in Nat
  BY <1>1 DEF IInv, TypeOK
<1>3. Keeps /\ Accounted(s, b)'
  BY <1>1 DEF Keeps, Accounted
<1>4. UniqueIds'
  <2>1. IsFiniteSet(rows')
    BY <1>1, FS_AddElement DEF IInv, UniqueIds
  <2>2. PageRows' = PageRows
    BY DEF PageRows
  <2>3. \A r \in rows \union PageRows : r.id \in Nat /\ r.id < nextId
    <3>1. PageRows \subseteq Row
      <4>1. replay.page \in Seq(Row)
        BY DEF IInv, TypeOK
      <4> QED
        BY <4>1 DEF PageRows
    <3> QED
      BY <3>1 DEF IInv, TypeOK, UniqueIds, Row
  <2>4. \A r \in rows' \union PageRows' : r.id < nextId'
    BY <1>1, <2>2, <2>3 DEF IInv, TypeOK
  <2>5. \A r, q \in rows' \union PageRows' : r.id = q.id => r = q
    <3> SUFFICES ASSUME NEW r \in rows' \union PageRows', NEW q \in rows' \union PageRows',
                        r.id = q.id
                 PROVE  r = q
      OBVIOUS
    <3>1. CASE r \in rows \union PageRows /\ q \in rows \union PageRows
      BY <3>1 DEF IInv, UniqueIds
    <3>2. CASE r = new \/ q = new
      BY <3>2, <1>1, <2>2, <2>3 DEF IInv, TypeOK
    <3> QED
      BY <3>1, <3>2, <1>1, <2>2
  <2> QED
    BY <2>1, <2>4, <2>5 DEF UniqueIds
<1>5. DeliveredFirst'
  BY DEF IInv, DeliveredFirst, Item
<1> QED
  BY <1>2, <1>3, <1>4, <1>5

(* Replay moving on to the next row of its page.                           *)
LEMMA NextItemInv ==
  ASSUME IInv, NextItem, replay.pc \in {"item", "delete"}, rows' \subseteq rows,
         nextId' = nextId
  PROVE  /\ replay' \in [pc : {"off", "list", "item", "delete"}, sink : Names \union {All},
                          after : Nat, page : Seq(Row)]
         /\ UniqueIds' /\ DeliveredFirst'
<1>1. Len(replay.page) > 0 /\ replay.page \in Seq(Row) /\ Item \in Row
  BY ItemIs DEF IInv, DeliveredFirst, TypeOK
<1>2. /\ Tail(replay.page) \in Seq(Row)
      /\ Len(Tail(replay.page)) = Len(replay.page) - 1
      /\ \A k \in 1 .. (Len(replay.page) - 1) : Tail(replay.page)[k] = replay.page[k + 1]
  BY <1>1
<1>3. /\ replay'.page = Tail(replay.page)
      /\ replay'.pc = IF Len(replay.page) = 1 THEN "list" ELSE "item"
      /\ replay'.after = Item.id /\ replay'.sink = replay.sink
      /\ replay' \in [pc : {"off", "list", "item", "delete"}, sink : Names \union {All},
                       after : Nat, page : Seq(Row)]
  BY <1>1, <1>2 DEF NextItem, IInv, TypeOK, Row
<1>4. PageRows' \subseteq PageRows
  BY <1>1, <1>2, <1>3 DEF PageRows
<1>5. UniqueIds'
  BY <1>4, FS_Subset DEF IInv, UniqueIds
<1>6. DeliveredFirst'
  <2>1. replay'.pc # "delete"
    BY <1>3
  <2>2. Len(replay.page) \in Nat
    BY <1>1
  <2>3. replay'.pc = "item" => Len(replay'.page) > 0
    <3>1. Len(replay'.page) = Len(replay.page) - 1
      BY <1>2, <1>3
    <3>2. replay'.pc = "item" => Len(replay.page) # 1
      <4>1. replay'.pc = IF Len(replay.page) = 1 THEN "list" ELSE "item"
        BY <1>3
      <4> QED
        BY <4>1
    <3>3. Len(replay.page) > 0
      BY <1>1
    <3>4. PICK n \in Nat : n = Len(replay.page)
      BY <2>2
    <3>5. n # 1 => n - 1 > 0
      <4>1. n > 0
        BY <3>3, <3>4
      <4> QED
        BY <4>1, SMTT(30)
    <3>6. (replay').pc = "item" => n - 1 > 0
      BY <3>2, <3>4, <3>5
    <3> QED
      BY <3>1, <3>4, <3>6
  <2> QED
    BY <2>1, <2>3 DEF DeliveredFirst
<1> QED
  BY <1>3, <1>5, <1>6

-----------------------------------------------------------------------------
LEMMA InitInv == Init => IInv
<1> SUFFICES ASSUME Init PROVE IInv
  OBVIOUS
<1> USE SinkChainAssumption
<1>1. Last \in 1 .. Last
  BY Sizes
<1>2. None \in [pc : {"off", "list", "item", "delete"}, sink : Names \union {All},
                after : Nat, page : Seq(Row)]
  BY DEF None
<1>3. TypeOK
  BY <1>1, <1>2 DEF Init, TypeOK
<1>4. NothingDropped /\ Passed /\ Busy
  BY DEF Init, NothingDropped, Passed, Busy
<1>5. UniqueIds
  BY FS_EmptySet DEF Init, UniqueIds, PageRows, None
<1>6. DeliveredFirst
  BY DEF Init, DeliveredFirst, None
<1> QED
  BY <1>3, <1>4, <1>5, <1>6 DEF IInv

-----------------------------------------------------------------------------
(* The steps of a file's Write.                                            *)

ReplayType == [pc : {"off", "list", "item", "delete"}, sink : Names \union {All},
               after : Nat, page : Seq(Row)]

LEMMA FaultType == TypeOK /\ Fault => faults' \in 0 .. MaxFaults
  BY SinkChainAssumption DEF TypeOK, Fault

LEMMA MaybeGivenKeeps ==
  ASSUME TypeOK, NEW s \in Names, NEW b \in Batches, MaybeGiven(s, b)
  PROVE  /\ got' \in [Names -> [Batches -> Nat]]
         /\ \A t \in Names, c \in Batches : got[t][c] > 0 => got'[t][c] > 0
  BY GiveKeeps DEF MaybeGiven, TypeOK

LEMMA BeginInv ==
  ASSUME IInv, NEW f \in Files, Begin(f)
  PROVE  IInv'
<1> DEFINE c == Current(f)
<1> DEFINE j == NextSink(c, 0)
<1>1. /\ j \in 1 .. Last
      /\ \A k \in 1 .. (j - 1) : c \notin Wanted[Sinks[k]]
  BY NextSinkIs, Sizes
<1>2. /\ pc' = [pc EXCEPT ![f] = "write"]
      /\ at' = [at EXCEPT ![f] = j]
      /\ attempt' = [attempt EXCEPT ![f] = 1]
      /\ failed' = [failed EXCEPT ![f] = FALSE]
      /\ UNCHANGED <<hasDLQ, acked, tableVars, replay, got, purged, faults>>
  BY DEF Begin
<1>3. TypeOK'
  <2>1. /\ pc' \in [Files -> {"idle", "write", "park"}] /\ at' \in [Files -> 1 .. Last]
        /\ failed' \in [Files -> BOOLEAN]
    BY <1>1, <1>2 DEF IInv, TypeOK
  <2>2. attempt' \in [Files -> 1 .. MaxAttempts]
    <3>1. 1 \in 1 .. MaxAttempts
      BY SinkChainAssumption
    <3> QED
      BY <1>2, <3>1 DEF IInv, TypeOK
  <2> QED
    BY <1>2, <2>1, <2>2 DEF IInv, TypeOK, tableVars
<1>4. NothingDropped'
  BY <1>2 DEF IInv, NothingDropped, Accounted, tableVars
<1>5. Passed'
  <2> SUFFICES ASSUME NEW g \in Files, pc'[g] # "idle", ~failed'[g],
                      NEW k \in 1 .. (at'[g] - 1), Current(g)' \in Wanted[Sinks[k]]
               PROVE  Accounted(Sinks[k], Current(g))'
    BY DEF Passed
  <2>1. Current(g)' = Current(g)
    BY <1>2 DEF Current
  <2>2. g # f
    BY <1>1, <1>2, <2>1 DEF IInv, TypeOK
  <2>3. pc[g] # "idle" /\ ~failed[g] /\ at'[g] = at[g]
    BY <2>2, <1>2 DEF IInv, TypeOK
  <2>4. Accounted(Sinks[k], Current(g))
    BY <2>1, <2>3 DEF IInv, Passed
  <2> QED
    BY <2>1, <2>4, <1>2 DEF Accounted, tableVars
<1>6. Busy'
  BY <1>2 DEF IInv, TypeOK, Busy, Begin
<1>7. UniqueIds' /\ DeliveredFirst'
  BY <1>2, TableStays DEF IInv
<1> QED
  BY <1>3, <1>4, <1>5, <1>6, <1>7 DEF IInv

LEMMA WriteOkInv ==
  ASSUME IInv, NEW f \in Files, WriteOk(f)
  PROVE  IInv'
<1>1. pc[f] # "idle" /\ at[f] < Last
  BY DEF WriteOk, Writing
<1>2. PICK s \in Names, b \in Batches : s = Sink(f) /\ b = Current(f)
  BY <1>1, CurrentIs
<1>3. /\ Give(s, b) /\ MoveOn(f, TRUE)
      /\ UNCHANGED <<hasDLQ, tableVars, replay, purged, faults>>
  BY <1>2 DEF WriteOk
<1>4. /\ got' \in [Names -> [Batches -> Nat]] /\ got'[s][b] > 0
      /\ \A t \in Names, c \in Batches : got[t][c] > 0 => got'[t][c] > 0
  BY <1>2, <1>3, GiveKeeps DEF IInv
<1>5. Keeps
  BY <1>3, <1>4 DEF Keeps, Accounted, tableVars
<1>6. WriteTypes' /\ NothingDropped' /\ Passed' /\ Busy'
  <2>1. Accounted(s, b)'
    BY <1>4 DEF Accounted
  <2> QED
    BY <2>1, <1>1, <1>2, <1>3, <1>5, MoveOnInv
<1>7. UniqueIds' /\ DeliveredFirst'
  BY <1>3, <1>4, TableStays
<1>8. TypeOK'
  BY <1>3, <1>4, <1>6 DEF IInv, TypeOK, WriteTypes, tableVars
<1> QED
  BY <1>6, <1>7, <1>8 DEF IInv

LEMMA RetryInv ==
  ASSUME IInv, NEW f \in Files, Retry(f)
  PROVE  IInv'
<1>1. Sink(f) \in Names /\ Current(f) \in Batches
  BY CurrentIs DEF Retry, Writing
<1>2. /\ got' \in [Names -> [Batches -> Nat]]
      /\ \A t \in Names, c \in Batches : got[t][c] > 0 => got'[t][c] > 0
  BY <1>1, MaybeGivenKeeps DEF IInv, Retry
<1>3. faults' \in 0 .. MaxFaults
  BY FaultType DEF IInv, Retry
<1>4. TypeOK'
  <2>1. attempt' \in [Files -> 1 .. MaxAttempts]
    <3>1. attempt[f] + 1 \in 1 .. MaxAttempts
      BY SinkChainAssumption DEF IInv, TypeOK, Retry
    <3> QED
      BY <3>1 DEF IInv, TypeOK, Retry
  <2> QED
    BY <1>2, <1>3, <2>1 DEF IInv, TypeOK, Retry, tableVars
<1>5. Keeps
  BY <1>2 DEF Keeps, Accounted, Retry, tableVars
<1>6. NothingDropped'
  BY <1>5 DEF IInv, NothingDropped, Keeps, Batches, Retry
<1>7. Passed'
  <2> SUFFICES ASSUME NEW g \in Files, pc[g] # "idle", ~failed[g],
                      NEW k \in 1 .. (at[g] - 1), Current(g) \in Wanted[Sinks[k]]
               PROVE  Accounted(Sinks[k], Current(g))'
    BY DEF Passed, Retry, Current
  <2>1. Accounted(Sinks[k], Current(g))
    BY DEF IInv, Passed
  <2>2. Current(g) \in Batches /\ Sinks[k] \in Names /\ Current(g)' = Current(g)
    BY CurrentIs, Sizes DEF Retry, Current
  <2> QED
    BY <2>1, <2>2, <1>5 DEF Keeps, Accounted
<1>8. Busy'
  BY DEF IInv, Busy, Retry
<1>9. UniqueIds' /\ DeliveredFirst'
  BY <1>2, TableStays DEF Retry
<1> QED
  BY <1>4, <1>6, <1>7, <1>8, <1>9 DEF IInv

\* A Write whose sink failed goes on with an error.
LEMMA MoveOnFailed ==
  ASSUME IInv, NEW f \in Files, pc[f] # "idle", at[f] < Last, MoveOn(f, FALSE),
         UNCHANGED <<hasDLQ, tableVars, replay, purged>>, faults' \in 0 .. MaxFaults,
         got' \in [Names -> [Batches -> Nat]],
         \A t \in Names, c \in Batches : got[t][c] > 0 => got'[t][c] > 0
  PROVE  IInv'
<1>1. PICK s \in Names, b \in Batches : s = Sink(f) /\ b = Current(f)
  BY CurrentIs
<1>2. Keeps
  BY DEF Keeps, Accounted, tableVars
<1>3. WriteTypes' /\ NothingDropped' /\ Passed' /\ Busy'
  BY <1>1, <1>2, MoveOnInv
<1>4. UniqueIds' /\ DeliveredFirst'
  BY TableStays
<1>5. TypeOK'
  BY <1>3 DEF IInv, TypeOK, WriteTypes, tableVars
<1> QED
  BY <1>3, <1>4, <1>5 DEF IInv

LEMMA ExhaustedInv ==
  ASSUME IInv, NEW f \in Files, Exhausted(f)
  PROVE  IInv'
<1>1. Sink(f) \in Names /\ Current(f) \in Batches /\ pc[f] # "idle" /\ at[f] < Last
  BY CurrentIs DEF Exhausted, Writing
<1>2. /\ got' \in [Names -> [Batches -> Nat]]
      /\ \A t \in Names, c \in Batches : got[t][c] > 0 => got'[t][c] > 0
  BY <1>1, MaybeGivenKeeps DEF IInv, TypeOK, Exhausted
<1>3. faults' \in 0 .. MaxFaults
  BY FaultType DEF IInv, Exhausted
<1>4. CASE hasDLQ
  <2>1. /\ pc' = [pc EXCEPT ![f] = "park"]
        /\ UNCHANGED <<hasDLQ, acked, at, attempt, failed, tableVars, replay, purged>>
    BY <1>4 DEF Exhausted
  <2>2. TypeOK'
    BY <1>2, <1>3, <2>1 DEF IInv, TypeOK, tableVars
  <2>3. Keeps
    BY <1>2, <2>1 DEF Keeps, Accounted, tableVars
  <2>4. NothingDropped'
    BY <2>1, <2>3 DEF IInv, NothingDropped, Keeps, Batches
  <2>5. Passed'
    <3> SUFFICES ASSUME NEW g \in Files, pc'[g] # "idle", ~failed[g],
                        NEW k \in 1 .. (at[g] - 1), Current(g) \in Wanted[Sinks[k]]
                 PROVE  Accounted(Sinks[k], Current(g))'
      BY <2>1 DEF Passed, Current
    <3>1. pc[g] # "idle"
      BY <1>1, <2>1 DEF IInv, TypeOK
    <3>2. Accounted(Sinks[k], Current(g))
      BY <3>1 DEF IInv, Passed
    <3>3. Current(g) \in Batches /\ Sinks[k] \in Names /\ Current(g)' = Current(g)
      BY <2>1, <3>1, CurrentIs, Sizes DEF Current
    <3> QED
      BY <3>2, <3>3, <2>3 DEF Keeps, Accounted
  <2>6. Busy'
    BY <1>1, <2>1 DEF IInv, TypeOK, Busy
  <2>7. UniqueIds' /\ DeliveredFirst'
    BY <1>2, <2>1, TableStays
  <2> QED
    BY <2>2, <2>4, <2>5, <2>6, <2>7 DEF IInv
<1>5. CASE ~hasDLQ
  BY <1>1, <1>2, <1>3, <1>5, MoveOnFailed DEF Exhausted
<1> QED
  BY <1>4, <1>5

LEMMA TimedOutInv ==
  ASSUME IInv, NEW f \in Files, TimedOut(f)
  PROVE  IInv'
<1>1. Sink(f) \in Names /\ Current(f) \in Batches /\ pc[f] # "idle" /\ at[f] < Last
  BY CurrentIs DEF TimedOut, Writing
<1>2. /\ got' \in [Names -> [Batches -> Nat]]
      /\ \A t \in Names, c \in Batches : got[t][c] > 0 => got'[t][c] > 0
  BY <1>1, MaybeGivenKeeps DEF IInv, TimedOut
<1>3. faults' \in 0 .. MaxFaults
  BY FaultType DEF IInv, TimedOut
<1> QED
  BY <1>1, <1>2, <1>3, MoveOnFailed DEF TimedOut

(* Parking, whether it reports success or not.                             *)

LEMMA ParkInv ==
  ASSUME IInv, NEW f \in Files, pc[f] = "park", NEW ok \in BOOLEAN, MoveOn(f, ok),
         DLQPut(Sink(f), Current(f)),
         UNCHANGED <<hasDLQ, replay, got, purged>>, faults' \in 0 .. MaxFaults
  PROVE  IInv'
<1>1. pc[f] # "idle" /\ at[f] < Last
  BY CurrentIs
<1>2. PICK s \in Names, b \in Batches : s = Sink(f) /\ b = Current(f)
  BY <1>1, CurrentIs
<1>3. /\ rows' \subseteq Row /\ nextId' \in Nat
      /\ Keeps /\ Accounted(s, b)'
      /\ UniqueIds' /\ DeliveredFirst'
  BY <1>2, PutInv
<1>4. WriteTypes' /\ NothingDropped' /\ Passed' /\ Busy'
  BY <1>1, <1>2, <1>3, MoveOnInv
<1>5. TypeOK'
  BY <1>3, <1>4 DEF IInv, TypeOK, WriteTypes
<1> QED
  BY <1>3, <1>4, <1>5 DEF IInv

LEMMA ParkFailInv ==
  ASSUME IInv, NEW f \in Files, ParkFail(f)
  PROVE  IInv'
<1>1. pc[f] # "idle" /\ at[f] < Last
  BY CurrentIs DEF ParkFail
<1>2. faults' \in 0 .. MaxFaults
  BY FaultType DEF IInv, ParkFail
<1>3. CASE DLQPut(Sink(f), Current(f))
  BY <1>2, <1>3, ParkInv DEF ParkFail
<1>4. CASE UNCHANGED tableVars
  BY <1>1, <1>2, <1>4, MoveOnFailed DEF ParkFail, IInv, TypeOK
<1> QED
  BY <1>3, <1>4 DEF ParkFail

LEMMA FinishInv ==
  ASSUME IInv, NEW f \in Files, Finish(f)
  PROVE  IInv'
<1>1. /\ pc' = [pc EXCEPT ![f] = "idle"]
      /\ acked' = IF failed[f] THEN acked ELSE [acked EXCEPT ![f] = acked[f] + 1]
      /\ UNCHANGED <<hasDLQ, at, attempt, failed, tableVars, replay, got, purged, faults>>
      /\ pc[f] # "idle" /\ at[f] = Last
  BY DEF Finish
<1>2. acked[f] < MaxBatches /\ acked[f] \in 0 .. MaxBatches /\ MaxBatches \in Nat
  BY <1>1, CurrentIs, SinkChainAssumption
<1>3. TypeOK'
  BY <1>1, <1>2 DEF IInv, TypeOK, tableVars
<1>4. \A s, b : Accounted(s, b)' = Accounted(s, b)
  BY <1>1 DEF Accounted, tableVars
<1>5. NothingDropped'
  <2> SUFFICES ASSUME NEW g \in Files, NEW n \in 1 .. MaxBatches, NEW s \in Names,
                      n <= acked'[g], <<g, n>> \in Wanted[s]
               PROVE  Accounted(s, <<g, n>>)
    BY <1>4 DEF NothingDropped
  <2>1. CASE n <= acked[g]
    BY <2>1 DEF IInv, NothingDropped
  <2>2. CASE ~(n <= acked[g])
    <3>1. g = f /\ ~failed[f] /\ n = acked[f] + 1
      BY <2>2, <1>1, <1>2 DEF IInv, TypeOK
    <3>2. PICK k \in 1 .. (Last - 1) : Sinks[k] = s
      BY Sizes
    <3>3. Current(f) = <<g, n>>
      BY <3>1 DEF Current
    <3> QED
      BY <3>1, <3>2, <3>3, <1>1 DEF IInv, Passed
  <2> QED
    BY <2>1, <2>2
<1>6. ASSUME NEW g \in Files, pc'[g] # "idle"
      PROVE  g # f /\ pc[g] = pc'[g] /\ acked'[g] = acked[g] /\ Current(g)' = Current(g)
  BY <1>1, <1>6 DEF IInv, TypeOK, Current
<1>7. Passed'
  BY <1>1, <1>4, <1>6 DEF IInv, Passed, Accounted, tableVars
<1>8. Busy'
  BY <1>1, <1>6 DEF IInv, TypeOK, Busy
<1>9. UniqueIds' /\ DeliveredFirst'
  BY <1>1, TableStays
<1> QED
  BY <1>3, <1>5, <1>7, <1>8, <1>9 DEF IInv

LEMMA CancelInv ==
  ASSUME IInv, NEW f \in Files, Cancel(f)
  PROVE  IInv'
<1>1. /\ pc' = [pc EXCEPT ![f] = "idle"]
      /\ UNCHANGED <<hasDLQ, acked, at, attempt, failed, tableVars, replay, got, purged>>
  BY DEF Cancel
<1>2. TypeOK'
  BY <1>1, FaultType DEF IInv, TypeOK, tableVars, Cancel
<1>3. NothingDropped'
  BY <1>1 DEF IInv, NothingDropped, Accounted, tableVars
<1>4. ASSUME NEW g \in Files, pc'[g] # "idle"
      PROVE  pc[g] = pc'[g] /\ Current(g)' = Current(g)
  BY <1>1, <1>4 DEF IInv, TypeOK, Current
<1>5. Passed'
  BY <1>1, <1>4 DEF IInv, Passed, Accounted, tableVars
<1>6. Busy'
  BY <1>1, <1>4 DEF IInv, TypeOK, Busy
<1>7. UniqueIds' /\ DeliveredFirst'
  BY <1>1, TableStays
<1> QED
  BY <1>2, <1>3, <1>5, <1>6, <1>7 DEF IInv

-----------------------------------------------------------------------------
(* Replay and purge leave the Writes alone.                                *)

LEMMA ReplayStartInv ==
  ASSUME IInv, NEW s \in Names \union {All}, ReplayStart(s)
  PROVE  IInv'
<1>1. /\ replay' \in ReplayType
      /\ replay'.page = <<>> /\ replay'.pc = "list"
      /\ UNCHANGED <<hasDLQ, writeVars, tableVars, got, purged, faults>>
  <2>1. /\ replay' = [None EXCEPT !.pc = "list", !.sink = s]
        /\ UNCHANGED <<hasDLQ, writeVars, tableVars, got, purged, faults>>
    BY DEF ReplayStart
  <2>2. replay' = [pc |-> "list", sink |-> s, after |-> 0, page |-> <<>>]
    BY <2>1 DEF None
  <2>3. replay' \in ReplayType
    <3>1. <<>> \in Seq(Row) /\ 0 \in Nat
      OBVIOUS
    <3> QED
      BY <2>2, <3>1 DEF ReplayType
  <2>4. replay'.page = <<>> /\ replay'.pc = "list"
    BY <2>2
  <2> QED
    BY <2>1, <2>3, <2>4
<1>2. TypeOK'
  BY <1>1 DEF IInv, TypeOK, ReplayType, writeVars, tableVars
<1>3. Keeps
  BY <1>1 DEF Keeps, Accounted, tableVars
<1>4. NothingDropped' /\ Passed' /\ Busy'
  BY <1>1, <1>3, OthersStay
<1>5. PageRows' \subseteq PageRows
  BY <1>1 DEF PageRows
<1>6. UniqueIds' /\ DeliveredFirst'
  BY <1>1, <1>5 DEF IInv, UniqueIds, DeliveredFirst, tableVars
<1> QED
  BY <1>2, <1>4, <1>6 DEF IInv

LEMMA ReplayListInv ==
  ASSUME IInv, ReplayList
  PROVE  IInv'
<1>1. UNCHANGED <<hasDLQ, writeVars, tableVars, got, purged, faults>>
  BY DEF ReplayList
<1>2. /\ replay' \in ReplayType /\ replay'.pc # "delete"
      /\ PageRows' \subseteq rows
      /\ replay'.pc = "item" => Len(replay'.page) > 0
  <2>1. CASE Matching = {}
    <3>1. replay' = None
      BY <2>1 DEF ReplayList
    <3> QED
      BY <3>1 DEF None, ReplayType, PageRows
  <2>2. CASE Matching # {}
    <3> DEFINE n == IF Cardinality(Matching) < PageSize THEN Cardinality(Matching)
                    ELSE PageSize
    <3>1. IsFiniteSet(Matching) /\ Matching \subseteq rows /\ Matching \subseteq Row
      BY FS_Subset DEF Matching, IInv, UniqueIds, TypeOK
    <3>2. n \in Nat /\ n > 0
      BY <2>2, <3>1, FS_CardinalityType, FS_EmptySet, SinkChainAssumption
    <3>3. PICK p \in [1 .. n -> Matching] :
            replay' = [replay EXCEPT !.pc = "item", !.page = p]
      BY <2>2 DEF ReplayList
    <3>4. p \in Seq(Row) /\ Len(p) = n /\ \A k \in DOMAIN p : p[k] \in rows
      BY <3>1, <3>2, <3>3
    <3>5. replay'.page = p /\ replay'.pc = "item" /\ replay' \in ReplayType
      BY <3>3, <3>4 DEF IInv, TypeOK, ReplayType
    <3>6. PageRows' \subseteq rows
      BY <3>4, <3>5 DEF PageRows
    <3> QED
      BY <3>2, <3>4, <3>5, <3>6
  <2> QED
    BY <2>1, <2>2
<1>3. TypeOK'
  BY <1>1, <1>2 DEF IInv, TypeOK, ReplayType, writeVars, tableVars
<1>4. Keeps
  BY <1>1 DEF Keeps, Accounted, tableVars
<1>5. NothingDropped' /\ Passed' /\ Busy'
  BY <1>1, <1>4, OthersStay
<1>6. UniqueIds'
  BY <1>1, <1>2 DEF IInv, UniqueIds, tableVars
<1>7. DeliveredFirst'
  BY <1>2 DEF DeliveredFirst
<1> QED
  BY <1>3, <1>5, <1>6, <1>7 DEF IInv

LEMMA ReplaySkipInv ==
  ASSUME IInv, ReplaySkip
  PROVE  IInv'
<1>1. NextItem /\ UNCHANGED <<hasDLQ, writeVars, tableVars, got, purged, faults>>
  BY DEF ReplaySkip
<1>2. replay' \in ReplayType /\ UniqueIds' /\ DeliveredFirst'
  BY <1>1, NextItemInv DEF ReplaySkip, tableVars, ReplayType
<1>3. TypeOK'
  BY <1>1, <1>2 DEF IInv, TypeOK, ReplayType, writeVars, tableVars
<1>4. Keeps
  BY <1>1 DEF Keeps, Accounted, tableVars
<1>5. NothingDropped' /\ Passed' /\ Busy'
  BY <1>1, <1>4, OthersStay
<1> QED
  BY <1>2, <1>3, <1>5 DEF IInv

LEMMA ReplayWriteInv ==
  ASSUME IInv, ReplayWrite
  PROVE  IInv'
<1>1. Item \in Row /\ Item.sink \in Names /\ Item.batch \in Batches /\ Len(replay.page) > 0
  BY ItemIs DEF IInv, DeliveredFirst, ReplayWrite
<1>2. /\ got' \in [Names -> [Batches -> Nat]] /\ got'[Item.sink][Item.batch] > 0
      /\ \A t \in Names, c \in Batches : got[t][c] > 0 => got'[t][c] > 0
  <2>1. PICK s \in Names, b \in Batches : s = Item.sink /\ b = Item.batch
    BY <1>1
  <2>2. Give(s, b)
    BY <2>1 DEF ReplayWrite
  <2> QED
    BY <2>1, <2>2, GiveKeeps DEF IInv
<1>3. /\ replay' = [replay EXCEPT !.pc = "delete"]
      /\ UNCHANGED <<hasDLQ, writeVars, tableVars, purged, faults>>
  BY DEF ReplayWrite
<1>4. replay' \in ReplayType /\ replay'.page = replay.page /\ replay'.pc = "delete"
  BY <1>3 DEF IInv, TypeOK, ReplayType
<1>5. TypeOK'
  BY <1>2, <1>3, <1>4 DEF IInv, TypeOK, ReplayType, writeVars, tableVars
<1>6. Keeps
  BY <1>2, <1>3 DEF Keeps, Accounted, tableVars
<1>7. NothingDropped' /\ Passed' /\ Busy'
  BY <1>3, <1>6, OthersStay
<1>8. UniqueIds'
  BY <1>3, <1>4 DEF IInv, UniqueIds, PageRows, tableVars
<1>9. DeliveredFirst'
  <2>1. Item' = Item
    BY <1>4 DEF Item
  <2> QED
    BY <2>1, <1>1, <1>2, <1>4 DEF DeliveredFirst
<1> QED
  BY <1>5, <1>7, <1>8, <1>9 DEF IInv

LEMMA ReplayWriteFailInv ==
  ASSUME IInv, ReplayWriteFail
  PROVE  IInv'
<1>1. Item \in Row /\ Item.sink \in Names /\ Item.batch \in Batches /\ Len(replay.page) > 0
  BY ItemIs DEF IInv, DeliveredFirst, ReplayWriteFail
<1>2. /\ got' \in [Names -> [Batches -> Nat]]
      /\ \A t \in Names, c \in Batches : got[t][c] > 0 => got'[t][c] > 0
  BY <1>1, MaybeGivenKeeps DEF IInv, ReplayWriteFail
<1>3. faults' \in 0 .. MaxFaults /\ UNCHANGED <<hasDLQ, writeVars, tableVars, purged>>
  BY FaultType DEF IInv, ReplayWriteFail
<1>4. replay' \in ReplayType /\ UniqueIds' /\ DeliveredFirst'
  <2>1. CASE NextItem
    BY <2>1, <1>3, NextItemInv DEF ReplayWriteFail, tableVars, ReplayType
  <2>2. CASE UNCHANGED replay
    BY <2>2, <1>2, <1>3, TableStays DEF IInv, TypeOK, ReplayType
  <2> QED
    BY <2>1, <2>2 DEF ReplayWriteFail
<1>5. TypeOK'
  BY <1>2, <1>3, <1>4 DEF IInv, TypeOK, ReplayType, writeVars, tableVars
<1>6. Keeps
  BY <1>2, <1>3 DEF Keeps, Accounted, tableVars
<1>7. NothingDropped' /\ Passed' /\ Busy'
  BY <1>3, <1>6, OthersStay
<1> QED
  BY <1>4, <1>5, <1>7 DEF IInv

LEMMA ReplayDeleteInv ==
  ASSUME IInv, ReplayDelete
  PROVE  IInv'
<1>1. /\ rows' = {r \in rows : r.id # Item.id}
      /\ NextItem /\ replay.pc = "delete"
      /\ UNCHANGED <<hasDLQ, writeVars, nextId, got, purged, faults>>
  BY DEF ReplayDelete
<1>2. Item \in PageRows /\ got[Item.sink][Item.batch] > 0
  BY <1>1, ItemIs DEF IInv, DeliveredFirst
<1>3. replay' \in ReplayType /\ UniqueIds' /\ DeliveredFirst'
  BY <1>1, NextItemInv DEF ReplayType
<1>4. TypeOK'
  BY <1>1, <1>3 DEF IInv, TypeOK, ReplayType, writeVars
<1>5. Keeps
  <2> SUFFICES ASSUME NEW s \in Names, NEW b \in Batches, Accounted(s, b)
               PROVE  Accounted(s, b)'
    BY DEF Keeps
  <2>1. CASE got[s][b] > 0 \/ <<s, b>> \in purged
    BY <2>1, <1>1 DEF Accounted
  <2>2. CASE \E r \in rows : r.sink = s /\ r.batch = b
    <3>1. PICK r \in rows : r.sink = s /\ r.batch = b
      BY <2>2
    <3>2. CASE r.id # Item.id
      BY <3>1, <3>2, <1>1 DEF Accounted
    <3>3. CASE r.id = Item.id
      <4>1. r = Item
        BY <3>3, <1>2 DEF IInv, UniqueIds
      <4>2. got[s][b] > 0
        BY <4>1, <3>1, <1>2
      <4> QED
        BY <4>2, <1>1 DEF Accounted
    <3> QED
      BY <3>2, <3>3
  <2> QED
    BY <2>1, <2>2 DEF Accounted
<1>6. NothingDropped' /\ Passed' /\ Busy'
  BY <1>1, <1>5, OthersStay
<1> QED
  BY <1>3, <1>4, <1>6 DEF IInv

LEMMA ReplayStopInv ==
  ASSUME IInv, ReplayStop
  PROVE  IInv'
<1>1. /\ replay' = None
      /\ UNCHANGED <<hasDLQ, writeVars, tableVars, got, purged>>
      /\ faults' \in 0 .. MaxFaults
  BY FaultType DEF IInv, ReplayStop
<1>2. replay' \in ReplayType /\ replay'.page = <<>> /\ replay'.pc = "off"
  BY <1>1 DEF None, ReplayType
<1>3. TypeOK'
  BY <1>1, <1>2 DEF IInv, TypeOK, ReplayType, writeVars, tableVars
<1>4. Keeps
  BY <1>1 DEF Keeps, Accounted, tableVars
<1>5. NothingDropped' /\ Passed' /\ Busy'
  BY <1>1, <1>4, OthersStay
<1>6. PageRows' \subseteq PageRows
  BY <1>2 DEF PageRows
<1>7. UniqueIds' /\ DeliveredFirst'
  BY <1>1, <1>2, <1>6 DEF IInv, UniqueIds, DeliveredFirst, tableVars
<1> QED
  BY <1>3, <1>5, <1>7 DEF IInv

LEMMA PurgeInv ==
  ASSUME IInv, Purge
  PROVE  IInv'
<1>1. PICK gone \in {rows} \union {{r \in rows : r.sink = s} : s \in Names}
                          \union {{r} : r \in rows} :
        /\ rows' = rows \ gone
        /\ purged' = purged \union {<<r.sink, r.batch>> : r \in gone}
  BY DEF Purge
<1>2. gone \subseteq rows /\ UNCHANGED <<hasDLQ, writeVars, nextId, replay, got, faults>>
  BY DEF Purge
<1>3. TypeOK'
  BY <1>1, <1>2 DEF IInv, TypeOK, Row, writeVars
<1>4. Keeps
  BY <1>1, <1>2 DEF Keeps, Accounted
<1>5. NothingDropped' /\ Passed' /\ Busy'
  BY <1>2, <1>4, OthersStay
<1>6. UniqueIds'
  BY <1>1, <1>2, FS_Subset DEF IInv, UniqueIds, PageRows
<1>7. DeliveredFirst'
  BY <1>2 DEF IInv, DeliveredFirst, Item
<1> QED
  BY <1>3, <1>5, <1>6, <1>7 DEF IInv

-----------------------------------------------------------------------------
LEMMA NextInv == IInv /\ [Next]_vars => IInv'
<1> SUFFICES ASSUME IInv, [Next]_vars PROVE IInv'
  OBVIOUS
<1>1. ASSUME NEW f \in Files, Deliver(f) PROVE IInv'
  <2>1. CASE Park(f)
    BY <2>1, ParkInv DEF Park, IInv, TypeOK
  <2> QED
    BY <1>1, <2>1, BeginInv, WriteOkInv, FinishInv DEF Deliver
<1>2. ASSUME NEW s \in Names \union {All}, ReplayStart(s) PROVE IInv'
  BY <1>2, ReplayStartInv
<1>3. CASE Replay
  BY <1>3, ReplayListInv, ReplaySkipInv, ReplayWriteInv, ReplayDeleteInv DEF Replay
<1>4. CASE Purge
  BY <1>4, PurgeInv
<1>5. CASE Failure
  BY <1>5, RetryInv, ExhaustedInv, TimedOutInv, ParkFailInv, CancelInv,
     ReplayWriteFailInv, ReplayStopInv DEF Failure
<1>6. CASE UNCHANGED vars
  <2>1. /\ UNCHANGED <<hasDLQ, writeVars, tableVars, replay, got, purged, faults>>
        /\ \A t \in Names, c \in Batches : got[t][c] > 0 => got'[t][c] > 0
    BY <1>6 DEF vars
  <2>2. TypeOK'
    BY <2>1 DEF IInv, TypeOK, writeVars, tableVars
  <2>3. Keeps
    BY <2>1 DEF Keeps, Accounted, tableVars
  <2> QED
    BY <2>1, <2>2, <2>3, OthersStay, TableStays DEF IInv
<1> QED
  BY <1>1, <1>2, <1>3, <1>4, <1>5, <1>6 DEF Next

LEMMA Invariance == Spec => []IInv
<1>1. Init => IInv
  BY InitInv
<1>2. IInv /\ [Next]_vars => IInv'
  BY NextInv
<1> QED
  BY <1>1, <1>2, PTL DEF Spec

(* The types of the sink chain's state.                                    *)
THEOREM SinkChainTyping == Spec => []TypeOK
<1>1. IInv => TypeOK
  BY DEF IInv
<1> QED
  BY <1>1, Invariance, PTL

(* Every batch a checkpoint has moved past is with each sink that wants    *)
(* it, parked for it, or purged by the operator: for any fan-out, any      *)
(* filters and any number of failures, with replay and purge running.      *)
THEOREM NeverDropped == Spec => []NothingDropped
<1>1. IInv => NothingDropped
  BY DEF IInv
<1> QED
  BY <1>1, Invariance, PTL

-----------------------------------------------------------------------------
(* What a delivery costs.                                                  *)

\* Deliveries of batch b to sink s that the daemon will still make if nothing
\* fails: one, or one more when the Write it is in has to be repeated.
Due(s, b) ==
    LET f == b[1]
        n == b[2]
    IN  IF n <= acked[f] THEN 0
        ELSE IF n > acked[f] + 1 \/ pc[f] = "idle" THEN 1
        ELSE (IF failed[f] THEN 1 ELSE 0)
             + (IF \E k \in 1 .. (at[f] - 1) : Sinks[k] = s THEN 0 ELSE 1)

\* Rows that replay may still deliver: those in the table or on its page, but
\* for the one it has delivered and is about to delete.
ToReplay(s, b) ==
    {r \in rows \union PageRows :
        /\ r.sink = s
        /\ r.batch = b
        /\ replay.pc = "delete" => r # Item}

\* What has been and is to be delivered is paid for by the failures so far.
Debt ==
    \A s \in Names, b \in Batches :
        got[s][b] + Due(s, b) + Cardinality(ToReplay(s, b)) <= 1 + faults

\* Replay's page is in the order of the ids.
PageInOrder ==
    \A j, k \in DOMAIN replay.page : j < k => replay.page[j].id < replay.page[k].id

LEMMA DueType ==
  ASSUME TypeOK, NEW s \in Names, NEW b \in Batches
  PROVE  Due(s, b) \in Nat /\ got[s][b] \in Nat /\ faults \in Nat
<1>1. Due(s, b) \in Nat
  BY DEF Due
<1>2. got[s][b] \in Nat /\ faults \in Nat
  BY SinkChainAssumption DEF TypeOK
<1> QED
  BY <1>1, <1>2

\* There are finitely many rows.
LEMMA RowsFinite ==
  ASSUME IInv
  PROVE  IsFiniteSet(rows \union PageRows)
<1>1. replay.page \in Seq(Row)
  BY DEF IInv, TypeOK
<1>2. replay.page \in Surjection(1 .. Len(replay.page), PageRows)
  BY <1>1 DEF Surjection, PageRows
<1>3. IsFiniteSet(1 .. Len(replay.page))
  BY <1>1, FS_Interval
<1>4. IsFiniteSet(PageRows)
  BY <1>2, <1>3, FS_Surjection
<1> QED
  BY <1>4, FS_Union DEF IInv, UniqueIds

LEMMA ToReplayFinite ==
  ASSUME IInv, NEW s, NEW b
  PROVE  IsFiniteSet(ToReplay(s, b)) /\ Cardinality(ToReplay(s, b)) \in Nat
<1>1. ToReplay(s, b) \in SUBSET (rows \union PageRows)
  BY DEF ToReplay
<1>2. IsFiniteSet(ToReplay(s, b))
  BY <1>1, RowsFinite, FS_Subset
<1> QED
  BY <1>2, FS_CardinalityType

\* Fewer rows need fewer deliveries, one row more needs one more.
LEMMA NoMoreToReplay ==
  ASSUME IInv, NEW s, NEW b, NEW T, T \subseteq ToReplay(s, b)
  PROVE  Cardinality(T) \in Nat /\ Cardinality(T) <= Cardinality(ToReplay(s, b))
BY ToReplayFinite, FS_Subset, FS_CardinalityType

LEMMA OneMoreToReplay ==
  ASSUME IInv, NEW s, NEW b, NEW x, NEW T, T \subseteq ToReplay(s, b) \union {x}
  PROVE  Cardinality(T) \in Nat /\ Cardinality(T) <= Cardinality(ToReplay(s, b)) + 1
<1> DEFINE S == ToReplay(s, b)
<1>1. IsFiniteSet(S) /\ Cardinality(S) \in Nat
  BY ToReplayFinite
<1> HIDE DEF S
<1>2. /\ IsFiniteSet(S \union {x})
      /\ Cardinality(S \union {x}) = IF x \in S THEN Cardinality(S) ELSE Cardinality(S) + 1
  BY <1>1, FS_AddElement
<1>3. T \in SUBSET (S \union {x})
  BY DEF S
<1>4. IsFiniteSet(T) /\ Cardinality(T) <= Cardinality(S \union {x})
  BY <1>2, <1>3, FS_Subset
<1>5. Cardinality(T) \in Nat
  BY <1>4, FS_CardinalityType
<1>6. Cardinality(T) <= Cardinality(S) + 1
  BY <1>1, <1>2, <1>4, <1>5
<1> QED
  BY <1>5, <1>6 DEF S

\* Moving on to the next sink settles one delivery to this one; if it failed,
\* every sink may get the batch once more.
LEMMA MoveOnDue ==
  ASSUME IInv, NEW f \in Files, pc[f] # "idle", at[f] < Last,
         NEW ok \in BOOLEAN, MoveOn(f, ok), NEW s \in Names, NEW b \in Batches
  PROVE  LET cost == IF ok THEN 0 ELSE 1
         IN  IF s = Sink(f) /\ b = Current(f)
             THEN Due(s, b)' + 1 <= Due(s, b) + cost
             ELSE Due(s, b)' <= Due(s, b) + cost
<1> DEFINE j == NextSink(Current(f), at[f])
<1>1. at[f] \in 1 .. Last /\ at[f] \in 0 .. Len(Sinks) /\ Last = Len(Sinks) + 1
  BY CurrentIs, Sizes DEF Last
<1>2. j \in (at[f] + 1) .. Last
  BY <1>1, NextSinkIs
<1> HIDE DEF j
<1>3. /\ pc' = [pc EXCEPT ![f] = "write"]
      /\ at' = [at EXCEPT ![f] = j]
      /\ failed' = [failed EXCEPT ![f] = failed[f] \/ ~ok]
      /\ acked' = acked
  BY DEF MoveOn, j
<1>4. PICK g \in Files, n \in 1 .. MaxBatches : b = <<g, n>>
  BY DEF Batches
<1>5. acked[g] \in 0 .. MaxBatches
  BY DEF IInv, TypeOK
<1>6. CASE g # f
  <2>1. pc'[g] = pc[g] /\ at'[g] = at[g] /\ failed'[g] = failed[g] /\ acked'[g] = acked[g]
    BY <1>3, <1>6 DEF IInv, TypeOK
  <2>2. Due(s, b)' = Due(s, b)
    BY <1>4, <2>1 DEF Due
  <2>3. b # Current(f)
    BY <1>4, <1>6 DEF Current
  <2> QED
    BY <2>2, <2>3, DueType DEF IInv
<1>7. CASE g = f /\ n # acked[f] + 1
  <2>1. Due(s, b)' = Due(s, b)
    BY <1>3, <1>4, <1>5, <1>7 DEF Due
  <2>2. b # Current(f)
    BY <1>4, <1>7 DEF Current
  <2> QED
    BY <2>1, <2>2, DueType DEF IInv
<1>8. CASE g = f /\ n = acked[f] + 1
  <2> DEFINE passed(m) == \E k \in 1 .. (m - 1) : Sinks[k] = s
  <2>1. b = Current(f)
    BY <1>4, <1>8 DEF Current
  <2>2. pc'[f] = "write" /\ at'[f] = j /\ failed'[f] = (failed[f] \/ ~ok)
    BY <1>3 DEF IInv, TypeOK
  <2>3. Due(s, b) = (IF failed[f] THEN 1 ELSE 0) + (IF passed(at[f]) THEN 0 ELSE 1)
    BY <1>4, <1>5, <1>8 DEF Due
  <2>4. Due(s, b)' = (IF failed[f] \/ ~ok THEN 1 ELSE 0) + (IF passed(j) THEN 0 ELSE 1)
    <3>1. Due(s, b)' = (IF failed'[f] THEN 1 ELSE 0) + (IF passed(at'[f]) THEN 0 ELSE 1)
      BY <1>3, <1>4, <1>5, <1>8, <2>2 DEF Due
    <3> QED
      BY <3>1, <2>2
  <2>5. passed(at[f]) => passed(j)
    BY <1>1, <1>2
  <2>6. s = Sink(f) => passed(j) /\ ~passed(at[f])
    <3>1. Sink(f) = Sinks[at[f]] /\ at[f] \in DOMAIN Sinks /\ at[f] \in 1 .. (j - 1)
      BY <1>1, <1>2, SinkChainAssumption DEF Sink
    <3>2. \A k \in 1 .. (at[f] - 1) : k \in DOMAIN Sinks /\ k # at[f]
      BY <1>1, SinkChainAssumption
    <3> QED
      BY <3>1, <3>2, SinkChainAssumption
  <2> HIDE DEF passed
  <2>7. failed[f] \in BOOLEAN
    BY DEF IInv, TypeOK
  <2> QED
    BY <2>1, <2>3, <2>4, <2>5, <2>6, <2>7
<1> QED
  BY <1>6, <1>7, <1>8

\* A step of one Write pays for what it delivers, parks or leaves undone.
LEMMA MoveOnDebt ==
  ASSUME IInv, Debt, NEW f \in Files, pc[f] # "idle", at[f] < Last,
         NEW ok \in BOOLEAN, MoveOn(f, ok),
         faults' = faults + (IF ok THEN 0 ELSE 1),
         \A s \in Names, b \in Batches :
            got'[s][b] + Cardinality(ToReplay(s, b))'
              <= got[s][b] + Cardinality(ToReplay(s, b))
                 + (IF s = Sink(f) /\ b = Current(f) THEN 1 ELSE 0),
         \A s \in Names, b \in Batches :
            got'[s][b] \in Nat /\ Cardinality(ToReplay(s, b))' \in Nat,
         TypeOK'
  PROVE  Debt'
<1> SUFFICES ASSUME NEW s \in Names, NEW b \in Batches
             PROVE  got'[s][b] + Due(s, b)' + Cardinality(ToReplay(s, b))' <= 1 + faults'
  BY DEF Debt
<1>1. got[s][b] + Due(s, b) + Cardinality(ToReplay(s, b)) <= 1 + faults
  BY DEF Debt
<1>2. /\ got[s][b] \in Nat /\ Due(s, b) \in Nat /\ Due(s, b)' \in Nat /\ faults \in Nat
      /\ Cardinality(ToReplay(s, b)) \in Nat
  BY DueType, ToReplayFinite DEF IInv, Due
<1>3. IF s = Sink(f) /\ b = Current(f)
      THEN Due(s, b)' + 1 <= Due(s, b) + (IF ok THEN 0 ELSE 1)
      ELSE Due(s, b)' <= Due(s, b) + (IF ok THEN 0 ELSE 1)
  BY MoveOnDue
<1> QED
  BY <1>1, <1>2, <1>3

LEMMA GiveCounts ==
  ASSUME TypeOK, NEW s \in Names, NEW b \in Batches, NEW t \in Names, NEW c \in Batches
  PROVE  /\ Give(s, b) => got'[t][c] = got[t][c] + (IF t = s /\ c = b THEN 1 ELSE 0)
         /\ MaybeGiven(s, b) =>
              got'[t][c] \in {got[t][c], got[t][c] + (IF t = s /\ c = b THEN 1 ELSE 0)}
<1>1. Give(s, b) => got'[t][c] = got[t][c] + (IF t = s /\ c = b THEN 1 ELSE 0)
  BY DEF TypeOK, Give
<1> QED
  BY <1>1 DEF MaybeGiven

\* A row that is parked may be delivered once more by replay.
LEMMA PutToReplay ==
  ASSUME IInv, NEW t, NEW c, DLQPut(t, c), replay' = replay, NEW s, NEW b
  PROVE  /\ Cardinality(ToReplay(s, b))' \in Nat
         /\ IF s = t /\ b = c
            THEN Cardinality(ToReplay(s, b))' <= Cardinality(ToReplay(s, b)) + 1
            ELSE Cardinality(ToReplay(s, b))' <= Cardinality(ToReplay(s, b))
<1> DEFINE new == [id |-> nextId, sink |-> t, batch |-> c]
<1>1. rows' = rows \union {new} /\ PageRows' = PageRows /\ Item' = Item
  BY DEF DLQPut, PageRows, Item
<1>2. CASE s = t /\ b = c
  <2>1. ToReplay(s, b)' \subseteq ToReplay(s, b) \union {new}
    BY <1>1 DEF ToReplay
  <2> QED
    BY <1>2, <2>1, OneMoreToReplay
<1>3. CASE ~(s = t /\ b = c)
  <2>1. new.sink = t /\ new.batch = c
    OBVIOUS
  <2>2. ToReplay(s, b)' \subseteq ToReplay(s, b)
    BY <1>1, <1>3, <2>1 DEF ToReplay
  <2> QED
    BY <1>3, <2>2, NoMoreToReplay
<1> QED
  BY <1>2, <1>3

LEMMA WriteDebt ==
  ASSUME IInv, IInv', Debt, NEW f \in Files,
         \/ WriteOk(f) \/ Park(f) \/ Exhausted(f) \/ TimedOut(f) \/ ParkFail(f)
  PROVE  Debt'
<1>1. pc[f] # "idle" /\ at[f] < Last /\ Sink(f) \in Names /\ Current(f) \in Batches
  BY CurrentIs DEF WriteOk, Park, Exhausted, TimedOut, ParkFail, Writing
<1> DEFINE here(s, b) == IF s = Sink(f) /\ b = Current(f) THEN 1 ELSE 0
<1>2. \A s \in Names, b \in Batches :
        /\ got[s][b] \in Nat /\ got'[s][b] \in Nat /\ faults \in Nat
        /\ Cardinality(ToReplay(s, b)) \in Nat
  <2>1. got \in [Names -> [Batches -> Nat]] /\ got' \in [Names -> [Batches -> Nat]]
    BY DEF IInv, TypeOK
  <2>2. faults \in Nat
    BY SinkChainAssumption DEF IInv, TypeOK
  <2>3. \A s, b : Cardinality(ToReplay(s, b)) \in Nat
    BY ToReplayFinite
  <2> QED
    BY <2>1, <2>2, <2>3
<1>3. ASSUME UNCHANGED <<rows, replay>>, NEW s, NEW b
      PROVE  /\ Cardinality(ToReplay(s, b))' = Cardinality(ToReplay(s, b))
             /\ Cardinality(ToReplay(s, b))' \in Nat
  <2>1. ToReplay(s, b)' = ToReplay(s, b)
    BY <1>3 DEF ToReplay, PageRows, Item
  <2> QED
    BY <2>1, ToReplayFinite
<1>4. CASE WriteOk(f)
  <2>1. MoveOn(f, TRUE) /\ Give(Sink(f), Current(f)) /\ UNCHANGED <<rows, replay, faults>>
    BY <1>4 DEF WriteOk, tableVars
  <2>2. \A s \in Names, b \in Batches : got'[s][b] = got[s][b] + here(s, b)
    BY <1>1, <2>1, GiveCounts DEF IInv
  <2>3. faults' = faults + 0
    BY <1>2, <2>1 DEF IInv, TypeOK
  <2>4. \A s \in Names, b \in Batches :
          got'[s][b] + Cardinality(ToReplay(s, b))'
            <= got[s][b] + Cardinality(ToReplay(s, b)) + here(s, b)
    BY <1>2, <1>3, <2>1, <2>2
  <2> QED
    BY <1>1, <1>2, <1>3, <2>1, <2>3, <2>4, MoveOnDebt DEF IInv
<1>5. CASE Park(f)
  <2>1. /\ MoveOn(f, TRUE) /\ DLQPut(Sink(f), Current(f)) /\ UNCHANGED <<got, replay, faults>>
    BY <1>5 DEF Park
  <2>2. faults' = faults + 0
    BY <1>2, <2>1 DEF IInv, TypeOK
  <2>3. \A s \in Names, b \in Batches :
          got'[s][b] + Cardinality(ToReplay(s, b))'
            <= got[s][b] + Cardinality(ToReplay(s, b)) + here(s, b)
    BY <1>2, <2>1, PutToReplay
  <2> QED
    BY <1>1, <1>2, <2>1, <2>2, <2>3, PutToReplay, MoveOnDebt DEF IInv
<1>6. CASE Exhausted(f) /\ hasDLQ
  <2>1. /\ MaybeGiven(Sink(f), Current(f)) \/ UNCHANGED got
        /\ pc' = [pc EXCEPT ![f] = "park"]
        /\ faults' = faults + 1
        /\ UNCHANGED <<acked, at, failed, rows, replay>>
    BY <1>6 DEF Exhausted, Fault, tableVars
  <2> SUFFICES ASSUME NEW s \in Names, NEW b \in Batches
               PROVE  got'[s][b] + Due(s, b)' + Cardinality(ToReplay(s, b))' <= 1 + faults'
    BY DEF Debt
  <2>2. got'[s][b] \in {got[s][b], got[s][b] + 1}
    BY <1>1, <1>2, <2>1, GiveCounts DEF IInv
  <2>3. Due(s, b)' = Due(s, b)
    BY <1>1, <2>1 DEF Due, IInv, TypeOK, Batches
  <2>4. got[s][b] + Due(s, b) + Cardinality(ToReplay(s, b)) <= 1 + faults
    BY DEF Debt
  <2>5. Due(s, b) \in Nat
    BY DueType DEF IInv
  <2> QED
    BY <1>2, <1>3, <2>1, <2>2, <2>3, <2>4, <2>5
<1>7. ASSUME MoveOn(f, FALSE), Fault, UNCHANGED <<rows, replay>>,
             MaybeGiven(Sink(f), Current(f)) \/ UNCHANGED got
      PROVE  Debt'
  <2>1. faults' = faults + 1
    BY <1>7 DEF Fault
  <2>2. \A s \in Names, b \in Batches : got'[s][b] <= got[s][b] + here(s, b)
    BY <1>1, <1>2, <1>7, GiveCounts DEF IInv
  <2>3. \A s \in Names, b \in Batches :
          got'[s][b] + Cardinality(ToReplay(s, b))'
            <= got[s][b] + Cardinality(ToReplay(s, b)) + here(s, b)
    BY <1>2, <1>3, <1>7, <2>2
  <2> QED
    BY <1>1, <1>2, <1>3, <1>7, <2>1, <2>3, MoveOnDebt DEF IInv
<1>8. CASE Exhausted(f) /\ ~hasDLQ
  BY <1>7, <1>8 DEF Exhausted, tableVars
<1>9. CASE TimedOut(f)
  BY <1>7, <1>9 DEF TimedOut, tableVars
<1>10. CASE ParkFail(f) /\ UNCHANGED tableVars
  BY <1>7, <1>10 DEF ParkFail, tableVars
<1>11. CASE ParkFail(f) /\ DLQPut(Sink(f), Current(f))
  <2>1. /\ MoveOn(f, FALSE) /\ DLQPut(Sink(f), Current(f)) /\ UNCHANGED <<got, replay>>
        /\ faults' = faults + 1
    BY <1>11 DEF ParkFail, Fault
  <2>2. \A s \in Names, b \in Batches :
          got'[s][b] + Cardinality(ToReplay(s, b))'
            <= got[s][b] + Cardinality(ToReplay(s, b)) + here(s, b)
    BY <1>2, <2>1, PutToReplay
  <2> QED
    BY <1>1, <1>2, <2>1, <2>2, PutToReplay, MoveOnDebt DEF IInv
<1> QED
  BY <1>4, <1>5, <1>6, <1>8, <1>9, <1>10, <1>11 DEF ParkFail

\* Beginning, ending and repeating a Write.
LEMMA RestDebt ==
  ASSUME IInv, IInv', Debt, NEW f \in Files,
         Begin(f) \/ Finish(f) \/ Retry(f) \/ Cancel(f)
  PROVE  Debt'
<1> SUFFICES ASSUME NEW s \in Names, NEW b \in Batches
             PROVE  got'[s][b] + Due(s, b)' + Cardinality(ToReplay(s, b))' <= 1 + faults'
  BY DEF Debt
<1>1. got[s][b] + Due(s, b) + Cardinality(ToReplay(s, b)) <= 1 + faults
  BY DEF Debt
<1>a. got'[s][b] \in Nat
  BY DEF IInv, TypeOK
<1>b. Due(s, b)' \in Nat
  BY DEF Due
<1>2. /\ got[s][b] \in Nat /\ got'[s][b] \in Nat /\ faults \in Nat
      /\ Due(s, b) \in Nat /\ Due(s, b)' \in Nat /\ Cardinality(ToReplay(s, b)) \in Nat
  BY <1>a, <1>b, DueType, ToReplayFinite DEF IInv
<1>3. UNCHANGED <<rows, replay>>
  BY DEF Begin, Finish, Retry, Cancel, tableVars
<1>4. Cardinality(ToReplay(s, b))' = Cardinality(ToReplay(s, b))
  BY <1>3 DEF ToReplay, PageRows, Item
<1>5. PICK g \in Files, n \in 1 .. MaxBatches : b = <<g, n>>
  BY DEF Batches
<1>6. acked[g] \in 0 .. MaxBatches /\ at[g] \in 1 .. Last /\ failed[g] \in BOOLEAN
  BY DEF IInv, TypeOK
<1>c. /\ Due(s, b) = IF n <= acked[g] THEN 0
                    ELSE IF n > acked[g] + 1 \/ pc[g] = "idle" THEN 1
                    ELSE (IF failed[g] THEN 1 ELSE 0)
                         + (IF \E k \in 1 .. (at[g] - 1) : Sinks[k] = s THEN 0 ELSE 1)
      /\ Due(s, b)' = IF n <= acked'[g] THEN 0
                     ELSE IF n > acked'[g] + 1 \/ pc'[g] = "idle" THEN 1
                     ELSE (IF failed'[g] THEN 1 ELSE 0)
                          + (IF \E k \in 1 .. (at'[g] - 1) : Sinks[k] = s THEN 0 ELSE 1)
  BY <1>5 DEF Due
<1>d. /\ acked \in [Files -> 0 .. MaxBatches] /\ failed \in [Files -> BOOLEAN]
      /\ pc \in [Files -> {"idle", "write", "park"}] /\ at \in [Files -> 1 .. Last]
  BY DEF IInv, TypeOK
<1>7. CASE Begin(f)
  <2>1. /\ pc[f] = "idle" /\ pc' = [pc EXCEPT ![f] = "write"]
        /\ failed' = [failed EXCEPT ![f] = FALSE]
        /\ at' = [at EXCEPT ![f] = NextSink(Current(f), 0)]
        /\ UNCHANGED <<acked, got, faults>>
    BY <1>7 DEF Begin
  <2>2. Due(s, b)' <= Due(s, b)
    <3>1. CASE g = f
      <4>1. acked'[g] = acked[g] /\ pc[g] = "idle" /\ ~failed'[g]
        BY <1>d, <2>1, <3>1
      <4> QED
        BY <1>6, <1>c, <4>1
    <3>2. CASE g # f
      <4>1. /\ acked'[g] = acked[g] /\ pc'[g] = pc[g] /\ failed'[g] = failed[g]
            /\ at'[g] = at[g]
        BY <1>d, <2>1, <3>2
      <4> QED
        BY <1>2, <1>c, <4>1
    <3> QED
      BY <3>1, <3>2
  <2> QED
    BY <1>1, <1>2, <1>4, <2>1, <2>2
<1>8. CASE Finish(f)
  <2>1. /\ pc[f] # "idle" /\ at[f] = Last /\ pc' = [pc EXCEPT ![f] = "idle"]
        /\ acked' = IF failed[f] THEN acked ELSE [acked EXCEPT ![f] = @ + 1]
        /\ UNCHANGED <<at, failed, got, faults>>
    BY <1>8 DEF Finish
  <2>2. \E k \in 1 .. (Last - 1) : Sinks[k] = s
    BY Sizes
  <2>3. Due(s, b)' <= Due(s, b)
    <3>1. CASE g = f
      <4>1. /\ acked'[g] = IF failed[g] THEN acked[g] ELSE acked[g] + 1
            /\ pc'[g] = "idle" /\ pc[g] # "idle" /\ at[g] = Last
        BY <1>d, <2>1, <3>1
      <4> QED
        BY <1>6, <1>c, <2>2, <4>1
    <3>2. CASE g # f
      <4>1. /\ acked'[g] = acked[g] /\ pc'[g] = pc[g] /\ failed'[g] = failed[g]
            /\ at'[g] = at[g]
        BY <1>d, <2>1, <3>2
      <4> QED
        BY <1>2, <1>c, <4>1
    <3> QED
      BY <3>1, <3>2
  <2> QED
    BY <1>1, <1>2, <1>4, <2>1, <2>3
<1>9. CASE Retry(f)
  <2>1. /\ MaybeGiven(Sink(f), Current(f)) /\ faults' = faults + 1
        /\ UNCHANGED <<acked, pc, at, failed>>
        /\ Sink(f) \in Names /\ Current(f) \in Batches
    BY <1>9, CurrentIs DEF Retry, Fault, Writing
  <2>2. Due(s, b)' = Due(s, b)
    BY <2>1 DEF Due
  <2>3. got'[s][b] \in {got[s][b], got[s][b] + 1}
    BY <1>2, <2>1, GiveCounts DEF IInv
  <2> QED
    BY <1>1, <1>2, <1>4, <2>1, <2>2, <2>3
<1>10. CASE Cancel(f)
  <2>1. /\ pc' = [pc EXCEPT ![f] = "idle"] /\ faults' = faults + 1
        /\ UNCHANGED <<acked, at, failed, got>>
    BY <1>10 DEF Cancel, Fault
  <2>2. Due(s, b)' <= Due(s, b) + 1
    <3>1. \/ pc'[g] = "idle"
          \/ pc'[g] = pc[g]
      BY <1>d, <2>1
    <3>2. acked'[g] = acked[g] /\ at'[g] = at[g] /\ failed'[g] = failed[g]
      BY <2>1
    <3> QED
      BY <1>6, <1>c, <3>1, <3>2
  <2> QED
    BY <1>1, <1>2, <1>4, <2>1, <2>2
<1> QED
  BY <1>7, <1>8, <1>9, <1>10

LEMMA PageStaysInOrder ==
  ASSUME IInv, PageInOrder, [Next]_vars
  PROVE  PageInOrder'
<1> USE DEF PageInOrder
<1>1. CASE UNCHANGED replay
  BY <1>1
<1>2. ASSUME NextItem, replay.pc \in {"item", "delete"} PROVE PageInOrder'
  <2>1. Len(replay.page) > 0 /\ replay.page \in Seq(Row) /\ replay'.page = Tail(replay.page)
    BY <1>2 DEF IInv, DeliveredFirst, TypeOK, NextItem
  <2>2. /\ DOMAIN Tail(replay.page) = 1 .. (Len(replay.page) - 1)
        /\ \A k \in 1 .. (Len(replay.page) - 1) : Tail(replay.page)[k] = replay.page[k + 1]
        /\ DOMAIN replay.page = 1 .. Len(replay.page) /\ Len(replay.page) \in Nat
    BY <2>1
  <2> QED
    BY <2>1, <2>2
<1>3. ASSUME replay' = None \/ replay'.page = <<>> PROVE PageInOrder'
  BY <1>3 DEF None
<1>4. CASE ReplayList
  <2>1. CASE Matching = {}
    BY <1>3, <1>4, <2>1 DEF ReplayList
  <2>2. CASE Matching # {}
    <3>1. PICK p : IsPage(p) /\ replay' = [replay EXCEPT !.pc = "item", !.page = p]
      BY <1>4, <2>2 DEF ReplayList
    <3>2. replay'.page = p
      BY <3>1 DEF IInv, TypeOK
    <3> QED
      BY <3>1, <3>2 DEF IsPage
  <2> QED
    BY <2>1, <2>2
<1>5. CASE ReplayWrite
  <2>1. replay'.page = replay.page
    BY <1>5 DEF ReplayWrite, IInv, TypeOK
  <2> QED
    BY <2>1
<1>6. ASSUME NEW s \in Names \union {All}, ReplayStart(s) PROVE PageInOrder'
  <2>1. replay'.page = <<>>
    BY <1>6 DEF ReplayStart, None
  <2> QED
    BY <1>3, <2>1
<1>7. CASE ReplaySkip \/ ReplayWriteFail \/ ReplayDelete \/ ReplayStop
  BY <1>1, <1>2, <1>3, <1>7 DEF ReplaySkip, ReplayWriteFail, ReplayDelete, ReplayStop
<1> QED
  BY <1>1, <1>4, <1>5, <1>6, <1>7
  DEF Next, vars, Deliver, Replay, Failure, Begin, WriteOk, Park, Finish, Retry, Exhausted,
      TimedOut, ParkFail, Cancel, Purge

\* Replay delivers a row once and then deletes it, or something failed.
LEMMA ReplayDebt ==
  ASSUME IInv, IInv', Debt, PageInOrder,
         \/ \E s \in Names \union {All} : ReplayStart(s)
         \/ Replay \/ Purge \/ ReplayWriteFail \/ ReplayStop \/ UNCHANGED vars
  PROVE  Debt'
<1> SUFFICES ASSUME NEW s \in Names, NEW b \in Batches
             PROVE  got'[s][b] + Due(s, b)' + Cardinality(ToReplay(s, b))' <= 1 + faults'
  BY DEF Debt
<1>1. got[s][b] + Due(s, b) + Cardinality(ToReplay(s, b)) <= 1 + faults
  BY DEF Debt
<1>2. /\ got[s][b] \in Nat /\ faults \in Nat /\ Due(s, b) \in Nat
      /\ Cardinality(ToReplay(s, b)) \in Nat
  BY DueType, ToReplayFinite DEF IInv
<1>3. Due(s, b)' = Due(s, b)
  <2>1. UNCHANGED writeVars
    BY DEF ReplayStart, Replay, ReplayList, ReplaySkip, ReplayWrite, ReplayDelete, Purge,
           ReplayWriteFail, ReplayStop, vars
  <2> QED
    BY <2>1 DEF Due, writeVars
<1>4. ASSUME ToReplay(s, b)' \subseteq ToReplay(s, b), got' = got,
             faults' = faults \/ faults' = faults + 1
      PROVE  got'[s][b] + Due(s, b)' + Cardinality(ToReplay(s, b))' <= 1 + faults'
  <2>1. /\ Cardinality(ToReplay(s, b))' \in Nat
        /\ Cardinality(ToReplay(s, b))' <= Cardinality(ToReplay(s, b))
    BY <1>4, NoMoreToReplay
  <2> QED
    BY <1>1, <1>2, <1>3, <1>4, <2>1
<1>5. ASSUME NextItem, replay.pc \in {"item", "delete"}, rows' \subseteq rows
      PROVE  /\ replay'.pc \in {"list", "item"} /\ PageRows' \subseteq PageRows
             /\ \A r \in PageRows' : r.id # Item.id
  <2>1. Len(replay.page) > 0 /\ replay.page \in Seq(Row)
    BY <1>5 DEF IInv, DeliveredFirst, TypeOK
  <2>2. /\ DOMAIN Tail(replay.page) = 1 .. (Len(replay.page) - 1)
        /\ \A k \in 1 .. (Len(replay.page) - 1) : Tail(replay.page)[k] = replay.page[k + 1]
        /\ DOMAIN replay.page = 1 .. Len(replay.page) /\ Len(replay.page) \in Nat
        /\ Item = replay.page[1]
    BY <2>1 DEF Item
  <2>3. replay'.page = Tail(replay.page) /\ replay'.pc \in {"list", "item"}
    BY <1>5 DEF NextItem, IInv, TypeOK
  <2>4. PageRows' \subseteq PageRows
    BY <2>2, <2>3 DEF PageRows
  <2>5. \A k \in 1 .. (Len(replay.page) - 1) : replay.page[1].id < replay.page[k + 1].id
    BY <2>2 DEF PageInOrder
  <2>6. replay.page[1].id \in Nat
    BY <2>1, <2>2, ItemIs DEF IInv
  <2>7. \A r \in PageRows' : r.id # Item.id
    BY <2>2, <2>3, <2>5, <2>6 DEF PageRows
  <2> QED
    BY <2>3, <2>4, <2>7
<1>6. ASSUME NEW t \in Names \union {All}, ReplayStart(t)
      PROVE  got'[s][b] + Due(s, b)' + Cardinality(ToReplay(s, b))' <= 1 + faults'
  <2>1. /\ replay.pc = "off" /\ replay'.page = <<>> /\ replay'.pc = "list"
        /\ UNCHANGED <<rows, got, faults>>
    BY <1>6 DEF ReplayStart, None, tableVars
  <2>2. ToReplay(s, b)' \subseteq ToReplay(s, b)
    BY <2>1 DEF ToReplay, PageRows
  <2> QED
    BY <1>4, <2>1, <2>2
<1>7. CASE ReplayList
  <2>1. replay.pc = "list" /\ UNCHANGED <<rows, got, faults>>
    BY <1>7 DEF ReplayList, tableVars
  <2>2. PageRows' \subseteq rows
    <3>1. CASE Matching = {}
      BY <1>7, <3>1 DEF ReplayList, None, PageRows
    <3>2. CASE Matching # {}
      <4> DEFINE n == IF Cardinality(Matching) < PageSize THEN Cardinality(Matching)
                      ELSE PageSize
      <4>1. PICK p \in [1 .. n -> Matching] :
              replay' = [replay EXCEPT !.pc = "item", !.page = p]
        BY <1>7, <3>2 DEF ReplayList
      <4> HIDE DEF n
      <4>2. replay'.page = p
        BY <4>1 DEF IInv, TypeOK
      <4> QED
        BY <4>1, <4>2 DEF PageRows, Matching
    <3> QED
      BY <3>1, <3>2
  <2>3. ToReplay(s, b)' \subseteq ToReplay(s, b)
    BY <2>1, <2>2 DEF ToReplay
  <2> QED
    BY <1>4, <2>1, <2>3
<1>8. CASE ReplaySkip
  <2>1. replay.pc = "item" /\ NextItem /\ UNCHANGED <<rows, got, faults>>
    BY <1>8 DEF ReplaySkip, tableVars
  <2>2. ToReplay(s, b)' \subseteq ToReplay(s, b)
    BY <1>5, <2>1 DEF ToReplay
  <2> QED
    BY <1>4, <2>1, <2>2
<1>9. CASE ReplayWrite
  <2>1. /\ replay.pc = "item" /\ replay' = [replay EXCEPT !.pc = "delete"]
        /\ Give(Item.sink, Item.batch) /\ UNCHANGED <<rows, faults>>
        /\ Len(replay.page) > 0
    BY <1>9 DEF ReplayWrite, tableVars, IInv, DeliveredFirst
  <2>2. Item \in PageRows /\ Item.sink \in Names /\ Item.batch \in Batches
    BY <2>1, ItemIs DEF IInv
  <2>3. replay'.page = replay.page /\ replay'.pc = "delete"
    BY <2>1 DEF IInv, TypeOK
  <2>4. ToReplay(s, b)' = ToReplay(s, b) \ {Item}
    BY <2>1, <2>3 DEF ToReplay, PageRows, Item
  <2>5. Item \in ToReplay(s, b) <=> s = Item.sink /\ b = Item.batch
    BY <2>1, <2>2 DEF ToReplay
  <2>6. got'[s][b] = got[s][b] + (IF s = Item.sink /\ b = Item.batch THEN 1 ELSE 0)
    BY <2>1, <2>2, GiveCounts DEF IInv
  <2>7. Cardinality(ToReplay(s, b))' = IF Item \in ToReplay(s, b)
                                       THEN Cardinality(ToReplay(s, b)) - 1
                                       ELSE Cardinality(ToReplay(s, b))
    BY <2>4, ToReplayFinite, FS_RemoveElement
  <2> QED
    BY <1>1, <1>2, <1>3, <2>1, <2>5, <2>6, <2>7
<1>10. CASE ReplayWriteFail
  <2>1. /\ replay.pc = "item" /\ faults' = faults + 1 /\ MaybeGiven(Item.sink, Item.batch)
        /\ NextItem \/ UNCHANGED replay
        /\ rows' = rows
        /\ Item.sink \in Names /\ Item.batch \in Batches
    BY <1>10, ItemIs DEF ReplayWriteFail, Fault, tableVars, IInv, DeliveredFirst
  <2>2. ToReplay(s, b)' \subseteq ToReplay(s, b)
    BY <1>5, <2>1 DEF ToReplay, PageRows
  <2>3. /\ Cardinality(ToReplay(s, b))' \in Nat
        /\ Cardinality(ToReplay(s, b))' <= Cardinality(ToReplay(s, b))
    BY <2>2, NoMoreToReplay
  <2>4. got'[s][b] \in {got[s][b], got[s][b] + 1}
    BY <1>2, <2>1, GiveCounts DEF IInv
  <2> QED
    BY <1>1, <1>2, <1>3, <2>1, <2>3, <2>4
<1>11. CASE ReplayDelete
  <2>1. /\ replay.pc = "delete" /\ NextItem /\ rows' = {r \in rows : r.id # Item.id}
        /\ UNCHANGED <<got, faults>>
    BY <1>11 DEF ReplayDelete
  <2>2. ToReplay(s, b)' \subseteq ToReplay(s, b)
    BY <1>5, <2>1 DEF ToReplay
  <2> QED
    BY <1>4, <2>1, <2>2
<1>12. CASE ReplayStop
  <2>1. /\ replay' = None /\ rows' = rows /\ got' = got /\ faults' = faults + 1
    BY <1>12 DEF ReplayStop, Fault, tableVars
  <2>2. ToReplay(s, b)' \subseteq ToReplay(s, b) \union {Item}
    BY <2>1 DEF ToReplay, PageRows, None
  <2>3. /\ Cardinality(ToReplay(s, b))' \in Nat
        /\ Cardinality(ToReplay(s, b))' <= Cardinality(ToReplay(s, b)) + 1
    BY <2>2, OneMoreToReplay
  <2> QED
    BY <1>1, <1>2, <1>3, <2>1, <2>3
<1>13. CASE Purge
  <2>1. rows' \subseteq rows /\ UNCHANGED <<replay, got, faults>>
    BY <1>13 DEF Purge
  <2>2. ToReplay(s, b)' \subseteq ToReplay(s, b)
    BY <2>1 DEF ToReplay, PageRows, Item
  <2> QED
    BY <1>4, <2>1, <2>2
<1>14. CASE UNCHANGED vars
  <2>1. UNCHANGED <<rows, replay, got, faults>>
    BY <1>14 DEF vars, tableVars
  <2>2. ToReplay(s, b)' \subseteq ToReplay(s, b)
    BY <2>1 DEF ToReplay, PageRows, Item
  <2> QED
    BY <1>4, <2>1, <2>2
<1> QED
  BY <1>6, <1>7, <1>8, <1>9, <1>10, <1>11, <1>12, <1>13, <1>14 DEF Replay

\* No batch reaches a sink twice without a failure: the daemon, replay and purge
\* never interleave to a duplicate (sink.go, retry.go, dlq.go, replay.go).
THEOREM NoFreeDuplicates == Spec => []DuplicatesNeedFaults
<1>1. Init => Debt /\ PageInOrder
  <2> SUFFICES ASSUME Init PROVE Debt /\ PageInOrder
    OBVIOUS
  <2>1. PageInOrder
    BY DEF Init, None, PageInOrder
  <2>2. ASSUME NEW s \in Names, NEW b \in Batches
        PROVE  got[s][b] + Due(s, b) + Cardinality(ToReplay(s, b)) <= 1 + faults
    <3>1. PICK g \in Files, n \in 1 .. MaxBatches : b = <<g, n>>
      BY DEF Batches
    <3>2. Due(s, b) = 1 /\ got[s][b] = 0 /\ faults = 0
      BY <3>1 DEF Init, Due
    <3>3. ToReplay(s, b) = {}
      BY DEF Init, None, ToReplay, PageRows
    <3>4. Cardinality(ToReplay(s, b)) = 0
      BY <3>3, FS_EmptySet, Zenon
    <3> QED
      BY <3>2, <3>4
  <2> QED
    BY <2>1, <2>2 DEF Debt
<1>2. IInv /\ IInv' /\ Debt /\ PageInOrder /\ [Next]_vars => Debt' /\ PageInOrder'
  <2> SUFFICES ASSUME IInv, IInv', Debt, PageInOrder, [Next]_vars
               PROVE  Debt'
    BY PageStaysInOrder
  <2> QED
    BY WriteDebt, RestDebt, ReplayDebt DEF Next, Deliver, Failure
<1>3. IInv /\ Debt => DuplicatesNeedFaults
  <2> SUFFICES ASSUME IInv, Debt, NEW s \in Names, NEW b \in Batches
               PROVE  got[s][b] <= 1 + faults
    BY DEF DuplicatesNeedFaults
  <2>1. got[s][b] + Due(s, b) + Cardinality(ToReplay(s, b)) <= 1 + faults
    BY DEF Debt
  <2> QED
    BY <2>1, DueType, ToReplayFinite DEF IInv
<1> QED
  BY <1>1, <1>2, <1>3, Invariance, PTL DEF Spec
=============================================================================
