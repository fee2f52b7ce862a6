---------------------------- MODULE CacheService ----------------------------
(***************************************************************************)
(* The settings cache: core/storage/CacheService.ts, with the two places   *)
(* that rebuild it, the controller's recovery from a failed write and the  *)
(* reset of the state (core/storage/state.ts).                             *)
(*                                                                         *)
(* The three maps (global state, secrets, workspace state) are one map     *)
(* here; a value is the number of the set call that made it, 0 standing    *)
(* for undefined.  The store (VS Code's mementos and secrets) is external: *)
(* it takes updates in the order they are issued and answers later.        *)
(***************************************************************************)
EXTENDS Naturals, Sequences

CONSTANTS
    Keys,
    Loaded,     \* the keys initialize() loads: the API configuration's
    MaxSets,    \* bound: set calls
    MaxRuns,    \* bound: writes and resets awaited at once
    MaxLoads,   \* bound: initialize() calls under way at once
    Faults      \* a subset of {"fail", "restart", "reset"}

ASSUME LoadedAssumption == Loaded \subseteq Keys
ASSUME BoundsAssumption == MaxSets \in Nat /\ MaxRuns \in Nat /\ MaxLoads \in Nat \ {0}

VARIABLES
    ready,      \* isInitialized
    cache,      \* the in-memory maps
    pending,    \* the pending sets
    armed,      \* debounce timers that will still fire
    held,       \* persistenceTimeout is one of them (the youngest)
    runs,       \* awaited writes, oldest first, with the answer each will get
    loads,      \* initialize() calls under way
    disk,       \* the store
    sets,       \* set calls so far
    wanted      \* history: value a set call gave each key, 0 after a rebuild

vars == <<ready, cache, pending, armed, held, runs, loads, disk, sets, wanted>>

Undefined == [k \in Keys |-> 0]

TypeOK ==
    /\ ready \in BOOLEAN /\ held \in BOOLEAN
    /\ {cache, disk, wanted} \subseteq [Keys -> 0..MaxSets]
    /\ pending \subseteq Keys
    /\ armed \in 0..MaxSets
    /\ runs \in Seq({"stored", "failed", "reset"})
    /\ loads \in 0..MaxLoads
    /\ sets \in 0..MaxSets

Init ==
    /\ ready = FALSE /\ loads = 1
    /\ cache = Undefined /\ disk = Undefined /\ wanted = Undefined
    /\ pending = {} /\ armed = 0 /\ held = FALSE /\ runs = <<>> /\ sets = 0

\* What m holds after its keys in S took their values from v.
Taking(m, S, v) == [k \in Keys |-> IF k \in S THEN v[k] ELSE m[k]]

-----------------------------------------------------------------------------
\* scheduleDebouncedPersistence: the timer the service holds is replaced.
Schedule ==
    /\ armed' = IF held THEN armed ELSE armed + 1
    /\ held' = TRUE

\* set...State, set...Batch, setApiConfiguration: the keys S get new values.
SetKeys(S) ==
    /\ ready
    /\ sets < MaxSets /\ sets' = sets + 1
    /\ cache' = [k \in Keys |-> IF k \in S THEN sets' ELSE cache[k]]
    /\ wanted' = [k \in Keys |-> IF k \in S THEN sets' ELSE wanted[k]]
    /\ pending' = pending \cup S
    /\ Schedule
    /\ UNCHANGED <<ready, runs, loads, disk>>

\* A timer fires: every pending key is written with its present value.  The
\* oldest fires first, so the one the service holds fires last.
PersistStart ==
    /\ armed > 0 /\ armed' = armed - 1
    /\ held' = (held /\ armed > 1)
    /\ Len(runs) < MaxRuns
    /\ \/ disk' = Taking(disk, pending, cache) /\ runs' = Append(runs, "stored")
       \/ /\ "fail" \in Faults
          /\ \E taken \in SUBSET pending : disk' = Taking(disk, taken, cache)
          /\ runs' = Append(runs, "failed")
    /\ UNCHANGED <<ready, cache, pending, loads, sets, wanted>>

\* The writes were all taken: everything pending counts as written.
PersistDone ==
    /\ runs # <<>> /\ Head(runs) = "stored" /\ runs' = Tail(runs)
    /\ pending' = {}
    /\ held' = FALSE
    /\ UNCHANGED <<ready, cache, armed, loads, disk, sets, wanted>>

\* Mutant: pending keys survive the disposal.
DisposeKeepingPending(timer) ==
    /\ armed' = IF timer THEN armed - 1 ELSE armed
    /\ held' = FALSE
    /\ UNCHANGED pending
    /\ cache' = Undefined
    /\ ready' = FALSE
    /\ loads < MaxLoads /\ loads' = loads + 1
    /\ wanted' = Undefined

\* Mutant: a timer is counted out whether the service holds one or not.
DisposeAnyTimer(timer) ==
    /\ armed' = armed - 1
    /\ held' = FALSE
    /\ pending' = {}
    /\ cache' = Undefined
    /\ ready' = FALSE
    /\ loads < MaxLoads /\ loads' = loads + 1
    /\ wanted' = Undefined

\* reInitialize up to its suspension: dispose() clears the timer the service
\* holds and everything in memory, initialize() starts to load.
Dispose(timer) ==
    /\ armed' = IF timer THEN armed - 1 ELSE armed
    /\ held' = FALSE
    /\ pending' = {}
    /\ cache' = Undefined
    /\ ready' = FALSE
    /\ loads < MaxLoads /\ loads' = loads + 1
    /\ wanted' = Undefined

\* Mutant: the error is logged and nothing is recovered.
PersistFailedLogged ==
    /\ runs # <<>> /\ Head(runs) = "failed" /\ runs' = Tail(runs)
    /\ pending' = {}
    /\ held' = FALSE
    /\ UNCHANGED <<ready, cache, armed, loads, disk, sets, wanted>>

\* A write was refused: persistenceTimeout is forgotten, then the controller's
\* onPersistenceError rebuilds the cache.
PersistFailed ==
    /\ runs # <<>> /\ Head(runs) = "failed" /\ runs' = Tail(runs)
    /\ Dispose(FALSE)
    /\ UNCHANGED <<disk, sets>>

\* initialize() resumes: the API configuration is copied into the cache.
LoadDone ==
    /\ loads > 0 /\ loads' = loads - 1
    /\ ready' = TRUE
    /\ cache' = Taking(cache, Loaded, disk)
    /\ UNCHANGED <<pending, armed, held, runs, disk, sets, wanted>>

\* resetGlobalState: every key is set to undefined in the store, past the
\* cache, and once that is answered the cache is rebuilt.
ResetStart ==
    /\ "reset" \in Faults
    /\ Len(runs) < MaxRuns
    /\ disk' = Undefined
    /\ runs' = Append(runs, "reset")
    /\ UNCHANGED <<ready, cache, pending, armed, held, loads, sets, wanted>>

\* Mutant: the reset leaves the cache as it is.
ResetDoneUncached ==
    /\ runs # <<>> /\ Head(runs) = "reset" /\ runs' = Tail(runs)
    /\ UNCHANGED <<ready, cache, pending, armed, held, loads, disk, sets, wanted>>

ResetDone ==
    /\ runs # <<>> /\ Head(runs) = "reset" /\ runs' = Tail(runs)
    /\ Dispose(held)
    /\ UNCHANGED <<disk, sets>>

\* The window is closed and opened again: nothing flushes the timers.
Restart ==
    /\ "restart" \in Faults
    /\ ready' = FALSE /\ loads' = 1
    /\ cache' = Undefined /\ pending' = {}
    /\ armed' = 0 /\ held' = FALSE /\ runs' = <<>>
    /\ wanted' = Undefined
    /\ UNCHANGED <<disk, sets>>

Next ==
    \/ \E S \in SUBSET Keys \ {{}} : SetKeys(S)
    \/ PersistStart \/ PersistDone \/ PersistFailed
    \/ LoadDone
    \/ ResetStart \/ ResetDone
    \/ Restart

Spec == Init /\ [][Next]_vars

-----------------------------------------------------------------------------
(* Properties. *)

\* A stored setting is never overwritten by the emptied cache of a rebuild:
\* only a reset takes a value out of the store.
NeverErased ==
    [][\A k \in Keys : disk[k] # 0 /\ disk'[k] = 0 => ResetStart]_vars
=============================================================================
