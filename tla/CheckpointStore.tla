---------------------------- MODULE CheckpointStore ---------------------------
(***************************************************************************)
(* The checkpoint store: the interface StateStore of internal/state and    *)
(* its three backends, as the one process that has it open sees them.      *)
(*                                                                         *)
(*   sqlite  a row per file; a call returns what the database holds        *)
(*   file    a map in memory, written whole to a temporary file that is    *)
(*           renamed over the document; the map changes before the write   *)
(*   memory  a map that dies with the process (rdstail tail)               *)
(*                                                                         *)
(* A crash is that of the process, not of its machine.                     *)
(***************************************************************************)
CONSTANTS
    Files,          \* the log files of an instance: the key of a checkpoint
    Checkpoints,    \* what Set is given
    NotFound,       \* what Get returns for a file without a checkpoint
    Backends        \* values of state.type to consider

ASSUME StoreAssumption ==
    /\ NotFound \notin Checkpoints
    /\ Backends \subseteq {"sqlite", "file", "memory"}

VARIABLES
    backend,    \* state.type
    cached,     \* the map that file and memory keep; sqlite has none
    stored,     \* what a new process finds
    acked,      \* history: what the last Set or Delete that returned nil left
    tried       \* history: what calls that failed since then would have left

storeVars == <<backend, cached, stored, acked, tried>>

Nothing == [f \in Files |-> NotFound]

StoreInit ==
    /\ backend \in Backends
    /\ cached = Nothing
    /\ stored = Nothing
    /\ acked = Nothing
    /\ tried = [f \in Files |-> {}]

-----------------------------------------------------------------------------
(* Get and List.  sqlite asks its database each time.                      *)

SqliteGet(f) == stored[f]
CachedGet(f) == cached[f]
Get(f)       == IF backend = "sqlite" THEN SqliteGet(f) ELSE CachedGet(f)

SqliteList == {f \in Files : stored[f] # NotFound}
CachedList == {f \in Files : cached[f] # NotFound}
Known      == IF backend = "sqlite" THEN SqliteList ELSE CachedList

-----------------------------------------------------------------------------
(* Set, and Delete as the case c = NotFound.                               *)

SqliteSet(f, c) ==
    /\ backend = "sqlite"
    /\ stored' = [stored EXCEPT ![f] = c]
    /\ UNCHANGED cached

\* Mutant: the document is written before the map changes.
FileSetPersistFirst(f, c) ==
    /\ backend = "file"
    /\ cached' = [cached EXCEPT ![f] = c]
    /\ stored' = cached

\* The document holds every file's checkpoint, those of failed calls too.
FileSet(f, c) ==
    /\ backend = "file"
    /\ cached' = [cached EXCEPT ![f] = c]
    /\ stored' = cached'

MemorySet(f, c) ==
    /\ backend = "memory"
    /\ cached' = [cached EXCEPT ![f] = c]
    /\ UNCHANGED stored

(* The call returns nil.                                                   *)
Set(f, c) ==
    /\ SqliteSet(f, c) \/ FileSet(f, c) \/ MemorySet(f, c)
    /\ acked' = [acked EXCEPT ![f] = c]
    /\ tried' = [tried EXCEPT ![f] = {}]
    /\ UNCHANGED backend

\* The statement may have been committed all the same.
SqliteSetError(f, c) ==
    /\ backend = "sqlite"
    /\ stored' \in {stored, [stored EXCEPT ![f] = c]}
    /\ UNCHANGED cached

\* The map keeps the new value.
FileSetError(f, c) ==
    /\ backend = "file"
    /\ cached' = [cached EXCEPT ![f] = c]
    /\ UNCHANGED stored

(* The call returns an error; memory never fails.                          *)
SetError(f, c) ==
    /\ SqliteSetError(f, c) \/ FileSetError(f, c)
    /\ tried' = [tried EXCEPT ![f] = @ \union {c}]
    /\ UNCHANGED <<backend, acked>>

Delete(f)      == Set(f, NotFound)
DeleteError(f) == SetError(f, NotFound)

(* GCCheckpoints, of sqlite only: rows not Set for the retention go.       *)
Prune(gone) ==
    /\ backend = "sqlite"
    /\ stored' = [f \in Files |-> IF f \in gone THEN NotFound ELSE stored[f]]
    /\ acked' = [f \in Files |-> IF f \in gone THEN NotFound ELSE acked[f]]
    /\ tried' = [f \in Files |-> IF f \in gone THEN {} ELSE tried[f]]
    /\ UNCHANGED <<backend, cached>>

-----------------------------------------------------------------------------
(* The process ends and a new one calls Open.                              *)

SqliteOpen == backend = "sqlite" /\ acked' = stored /\ UNCHANGED cached
FileOpen   == backend = "file"   /\ acked' = stored /\ cached' = stored
MemoryNew  == backend = "memory" /\ acked' = Nothing /\ cached' = Nothing

Reopen ==
    /\ SqliteOpen \/ FileOpen \/ MemoryNew
    /\ tried' = [f \in Files |-> {}]
    /\ UNCHANGED <<backend, stored>>

StoreNext ==
    \/ \E f \in Files, c \in Checkpoints : Set(f, c) \/ SetError(f, c)
    \/ \E f \in Files : Delete(f) \/ DeleteError(f)
    \/ \E gone \in SUBSET Files : Prune(gone)
    \/ Reopen

StoreSpec == StoreInit /\ [][StoreNext]_storeVars
-----------------------------------------------------------------------------
StoreTypeOK ==
    /\ backend \in Backends
    /\ {cached, stored, acked} \subseteq [Files -> Checkpoints \union {NotFound}]
    /\ tried \in [Files -> SUBSET (Checkpoints \union {NotFound})]

Accounted(f) == {acked[f]} \union tried[f]

(* Set is durable once it returns nil (state/store.go:46-47): whenever the *)
(* process dies, the next one finds each file at its last acknowledged     *)
(* checkpoint, or at one that a failed Set tried later, and so does the    *)
(* process that lives on.                                                  *)
AckedSurvives ==
    \A f \in Files :
        /\ Get(f) \in Accounted(f)
        /\ backend # "memory" => stored[f] \in Accounted(f)
=============================================================================
