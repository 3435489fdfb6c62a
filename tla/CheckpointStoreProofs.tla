------------------------- MODULE CheckpointStoreProofs -----------------------
(***************************************************************************)
(* Proofs about CheckpointStore, for any files, checkpoints and backends:  *)
(* a checkpoint whose Set returned nil survives the process.               *)
(***************************************************************************)
EXTENDS CheckpointStore, TLAPS

StoreInv == StoreTypeOK /\ AckedSurvives

LEMMA StoreInitOK == StoreInit => StoreInv
BY StoreAssumption
DEF StoreInit, Nothing, StoreInv, StoreTypeOK, AckedSurvives, Accounted, Get, SqliteGet, CachedGet

LEMMA SetOK ==
    ASSUME StoreInv, NEW f \in Files, NEW c \in Checkpoints \union {NotFound}, Set(f, c)
    PROVE  StoreInv'
<1> USE StoreAssumption
    DEF StoreInv, StoreTypeOK, AckedSurvives, Accounted, Get, SqliteGet, CachedGet, Set
<1>1. CASE SqliteSet(f, c)
  BY <1>1 DEF SqliteSet
<1>2. CASE FileSet(f, c)
  BY <1>2 DEF FileSet
<1>3. CASE MemorySet(f, c)
  BY <1>3 DEF MemorySet
<1> QED
  BY <1>1, <1>2, <1>3

LEMMA SetErrorOK ==
    ASSUME StoreInv, NEW f \in Files, NEW c \in Checkpoints \union {NotFound}, SetError(f, c)
    PROVE  StoreInv'
<1> USE StoreAssumption
    DEF StoreInv, StoreTypeOK, AckedSurvives, Accounted, Get, SqliteGet, CachedGet, SetError
<1>1. CASE SqliteSetError(f, c)
  BY <1>1 DEF SqliteSetError
<1>2. CASE FileSetError(f, c)
  BY <1>2 DEF FileSetError
<1> QED
  BY <1>1, <1>2

LEMMA PruneOK ==
    ASSUME StoreInv, NEW gone \in SUBSET Files, Prune(gone)
    PROVE  StoreInv'
BY StoreAssumption
DEF StoreInv, StoreTypeOK, AckedSurvives, Accounted, Get, SqliteGet, CachedGet, Prune

LEMMA ReopenOK ==
    ASSUME StoreInv, Reopen
    PROVE  StoreInv'
<1> USE StoreAssumption
    DEF StoreInv, StoreTypeOK, AckedSurvives, Accounted, Get, SqliteGet, CachedGet, Reopen
<1>1. CASE SqliteOpen
  BY <1>1 DEF SqliteOpen
<1>2. CASE FileOpen
  BY <1>2 DEF FileOpen
<1>3. CASE MemoryNew
  BY <1>3 DEF MemoryNew, Nothing
<1> QED
  BY <1>1, <1>2, <1>3

(* Every step of a user of the store keeps its invariant.                  *)
LEMMA StoreStepOK == StoreInv /\ [StoreNext]_storeVars => StoreInv'
<1> SUFFICES ASSUME StoreInv, [StoreNext]_storeVars PROVE StoreInv'
  OBVIOUS
<1>1. ASSUME NEW f \in Files, NEW c \in Checkpoints, Set(f, c) \/ SetError(f, c)
      PROVE  StoreInv'
  BY <1>1, SetOK, SetErrorOK
<1>2. ASSUME NEW f \in Files, Delete(f) \/ DeleteError(f) PROVE StoreInv'
  BY <1>2, SetOK, SetErrorOK DEF Delete, DeleteError
<1>3. ASSUME NEW gone \in SUBSET Files, Prune(gone) PROVE StoreInv'
  BY <1>3, PruneOK
<1>4. CASE Reopen
  BY <1>4, ReopenOK
<1>5. CASE UNCHANGED storeVars
  BY <1>5 DEF storeVars, StoreInv, StoreTypeOK, AckedSurvives, Accounted, Get, SqliteGet, CachedGet
<1> QED
  BY <1>1, <1>2, <1>3, <1>4, <1>5 DEF StoreNext

(* Set is durable before it returns nil (state/store.go:46-47), in every   *)
(* backend that outlives its process, whatever failed in between.          *)
THEOREM StoreIsDurable == StoreSpec => []AckedSurvives
<1>1. StoreSpec => []StoreInv
  BY StoreInitOK, StoreStepOK, PTL DEF StoreSpec
<1>2. StoreInv => AckedSurvives
  BY DEF StoreInv
<1> QED
  BY <1>1, <1>2, PTL
=============================================================================
