------------------------- MODULE CacheServiceProofs -------------------------
(***************************************************************************)
(* Proofs about CacheService, for any keys and any overlap.                *)
(*                                                                         *)
(* A timer may fire when the cache has been emptied by a rebuild, and a    *)
(* rebuild may finish after new keys became pending.  The settings in the  *)
(* store are safe all the same: a pending key without a value in the cache *)
(* has none in the store either.                                           *)
(*                                                                         *)
(* That a set call reaches the store is harder, since the end of a write   *)
(* takes every key off pending, those set meanwhile included.  A key that  *)
(* was never set while something was awaited is in the store, or waits for *)
(* an armed timer with nothing awaited, or a reset or a failed write that  *)
(* will rebuild the cache is under way.                                    *)
(***************************************************************************)
EXTENDS MCCacheService, TLAPS

\* The held timer is one of the armed ones; a set call arms at most one.
Timers == armed <= sets /\ (held => armed > 0)

NothingToErase == \A k \in pending : cache[k] = 0 => disk[k] = 0

Inv == TypeOK /\ Timers /\ NothingToErase

Values == [Keys -> 0..MaxSets]

\* A map without values is a map of values.
LEMMA UndefinedTyped == Undefined \in Values /\ \A k \in Keys : Undefined[k] = 0
  BY BoundsAssumption DEF Undefined, Values

\* Taking replaces exactly the values of the keys it is given.
LEMMA TakingTyped ==
    ASSUME NEW m \in Values, NEW v \in Values, NEW S
    PROVE  /\ Taking(m, S, v) \in Values
           /\ \A k \in Keys : Taking(m, S, v)[k] = IF k \in S THEN v[k] ELSE m[k]
  BY DEF Taking, Values

\* The type invariant, part by part.
LEMMA TypesUnfolded ==
    ASSUME TypeOK
    PROVE  /\ ready \in BOOLEAN /\ held \in BOOLEAN
           /\ cache \in Values /\ disk \in Values /\ wanted \in Values
           /\ armed \in 0..MaxSets /\ sets \in 0..MaxSets /\ loads \in 0..MaxLoads
           /\ pending \subseteq Keys /\ runs \in Seq({"stored", "failed", "reset"})
           /\ MaxSets \in Nat /\ MaxLoads \in Nat
  BY BoundsAssumption DEF TypeOK, Values

\* reInitialize leaves nothing pending and no more timers than there were.
LEMMA DisposeKeepsInv ==
    ASSUME Inv, NEW timer \in BOOLEAN, timer => armed > 0, Dispose(timer), UNCHANGED <<disk, sets>>,
           runs' \in Seq({"stored", "failed", "reset"})
    PROVE  Inv'
<1>0. armed \in 0..MaxSets /\ sets \in 0..MaxSets /\ loads \in 0..MaxLoads /\ disk \in Values
      /\ MaxSets \in Nat /\ MaxLoads \in Nat
  BY TypesUnfolded DEF Inv
<1>1. armed <= sets
  BY DEF Inv, Timers
<1>2. armed' \in 0..MaxSets /\ armed' <= sets'
  BY <1>0, <1>1 DEF Dispose
<1>3. loads' \in 0..MaxLoads
  BY <1>0 DEF Dispose
<1>4. /\ ready' = FALSE /\ held' = FALSE /\ pending' = {} /\ disk' = disk /\ sets' = sets
      /\ cache' \in Values /\ wanted' \in Values
  BY UndefinedTyped DEF Dispose
<1>5. TypeOK'
  BY <1>0, <1>2, <1>3, <1>4 DEF TypeOK, Values
<1>6. Timers' /\ NothingToErase'
  BY <1>2, <1>4 DEF Timers, NothingToErase
<1>7. QED
  BY <1>5, <1>6 DEF Inv

\* A cache about to be loaded for the first time.
LEMMA InitInv == Init => Inv
<1> SUFFICES ASSUME Init PROVE Inv
  OBVIOUS
<1>1. 1 \in 0..MaxLoads /\ 0 \in 0..MaxSets /\ <<>> \in Seq({"stored", "failed", "reset"})
  BY BoundsAssumption
<1>2. TypeOK
  BY <1>1, UndefinedTyped DEF Init, TypeOK, Values
<1>3. QED
  BY <1>2 DEF Init, Inv, Timers, NothingToErase

\* Every step keeps the invariant.
LEMMA InvStep == Inv /\ [Next]_vars => Inv'
<1> SUFFICES ASSUME Inv, [Next]_vars PROVE Inv'
  OBVIOUS
<1>0. /\ cache \in Values /\ disk \in Values /\ wanted \in Values
      /\ armed \in 0..MaxSets /\ sets \in 0..MaxSets /\ loads \in 0..MaxLoads
      /\ pending \subseteq Keys /\ runs \in Seq({"stored", "failed", "reset"})
      /\ MaxSets \in Nat /\ MaxLoads \in Nat /\ ready \in BOOLEAN /\ held \in BOOLEAN
  BY TypesUnfolded DEF Inv
<1>1. ASSUME NEW S \in SUBSET Keys \ {{}}, SetKeys(S) PROVE Inv'
  <2>1. sets' \in 1..MaxSets /\ sets' = sets + 1
    BY <1>0, <1>1 DEF SetKeys
  <2>2. cache' \in Values /\ wanted' \in Values
    BY <1>0, <1>1, <2>1 DEF SetKeys, Values
  <2>3. armed' \in 0..MaxSets /\ Timers'
    BY <1>0, <1>1, <2>1 DEF SetKeys, Schedule, Inv, Timers
  <2>4. NothingToErase'
    <3>1. \A k \in Keys : cache'[k] = IF k \in S THEN sets' ELSE cache[k]
      BY <1>1 DEF SetKeys
    <3>2. QED
      BY <1>0, <1>1, <2>1, <3>1 DEF SetKeys, Inv, NothingToErase
  <2>5. QED
    BY <1>0, <1>1, <2>1, <2>2, <2>3, <2>4 DEF SetKeys, Schedule, Inv, TypeOK, Values
<1>2. CASE PersistStart
  <2>1. PICK taken \in SUBSET pending : disk' = Taking(disk, taken, cache)
    BY <1>2 DEF PersistStart
  <2>2. disk' \in Values /\ \A k \in Keys : disk'[k] = IF k \in taken THEN cache[k] ELSE disk[k]
    BY <1>0, <2>1, TakingTyped
  <2>3. runs' \in Seq({"stored", "failed", "reset"})
    BY <1>0, <1>2 DEF PersistStart
  <2>4. armed' \in 0..MaxSets /\ Timers' /\ held' \in BOOLEAN
    <3>1. armed' = armed - 1 /\ armed > 0 /\ sets' = sets /\ armed <= sets
      BY <1>2 DEF PersistStart, Inv, Timers
    <3>2. held' \in BOOLEAN /\ (held' => armed > 1)
      BY <1>2 DEF PersistStart
    <3>3. QED
      BY <1>0, <3>1, <3>2 DEF Timers
  <2>5. NothingToErase'
    BY <1>0, <1>2, <2>2 DEF PersistStart, Inv, NothingToErase
  <2>6. QED
    BY <1>0, <1>2, <2>2, <2>3, <2>4, <2>5 DEF PersistStart, Inv, TypeOK, Values
<1>3. CASE PersistDone
  <2>1. runs' \in Seq({"stored", "failed", "reset"})
    BY <1>0, <1>3 DEF PersistDone
  <2>2. QED
    BY <1>0, <1>3, <2>1 DEF PersistDone, Inv, TypeOK, Timers, NothingToErase
<1>4. CASE PersistFailed
  <2>1. runs' \in Seq({"stored", "failed", "reset"})
    BY <1>0, <1>4 DEF PersistFailed
  <2>2. QED
    BY <1>4, <2>1, DisposeKeepsInv DEF PersistFailed
<1>5. CASE LoadDone
  <2>1. /\ cache' \in Values
        /\ \A k \in Keys : cache'[k] = IF k \in Loaded THEN disk[k] ELSE cache[k]
    BY <1>0, <1>5, TakingTyped DEF LoadDone
  <2>2. loads' \in 0..MaxLoads
    BY <1>0, <1>5 DEF LoadDone
  <2>3. NothingToErase'
    BY <1>0, <1>5, <2>1 DEF LoadDone, Inv, NothingToErase
  <2>4. QED
    BY <1>0, <1>5, <2>1, <2>2, <2>3 DEF LoadDone, Inv, TypeOK, Timers, Values
<1>6. CASE ResetStart
  <2>1. runs' \in Seq({"stored", "failed", "reset"})
    BY <1>0, <1>6 DEF ResetStart
  <2>2. NothingToErase'
    BY <1>0, <1>6, UndefinedTyped DEF ResetStart, NothingToErase
  <2>3. QED
    BY <1>0, <1>6, <2>1, <2>2, UndefinedTyped DEF ResetStart, Inv, TypeOK, Timers, Values
<1>7. CASE ResetDone
  <2>1. runs' \in Seq({"stored", "failed", "reset"})
    BY <1>0, <1>7 DEF ResetDone
  <2>2. QED
    BY <1>0, <1>7, <2>1, DisposeKeepsInv DEF ResetDone, Inv, Timers
<1>8. CASE Restart
  <2>1. /\ ready' = FALSE /\ held' = FALSE /\ pending' = {} /\ disk' = disk /\ sets' = sets
        /\ cache' \in Values /\ wanted' \in Values /\ armed' = 0 /\ runs' = <<>> /\ loads' = 1
    BY <1>8, UndefinedTyped DEF Restart
  <2>2. 1 \in 0..MaxLoads /\ 0 \in 0..MaxSets
    BY BoundsAssumption
  <2>3. <<>> \in Seq({"stored", "failed", "reset"})
    OBVIOUS
  <2>4. TypeOK'
    BY <1>0, <2>1, <2>2, <2>3 DEF TypeOK, Values
  <2>5. QED
    BY <1>0, <2>1, <2>4 DEF Inv, Timers, NothingToErase
<1>9. CASE UNCHANGED vars
  BY <1>9 DEF vars, Inv, TypeOK, Timers, NothingToErase
<1>10. QED
  BY <1>1, <1>2, <1>3, <1>4, <1>5, <1>6, <1>7, <1>8, <1>9 DEF Next

\* The inductive invariant of the settings cache.
THEOREM CacheInvariant == Spec => []Inv
  BY InitInv, InvStep, PTL DEF Spec

\* Every part of the cache keeps its type: no more timers are armed than set
\* calls were made, and none is cleared that is not there.
THEOREM CacheTypeCorrect == Spec => []TypeOK
<1>1. Inv => TypeOK
  BY DEF Inv
<1>2. QED
  BY <1>1, CacheInvariant, PTL

\* No timer writes the emptied cache of a rebuild over stored settings.
THEOREM NeverErasedHolds == Spec => NeverErased
<1>1. ASSUME Inv, [Next]_vars
      PROVE  [\A k \in Keys : disk[k] # 0 /\ disk'[k] = 0 => ResetStart]_vars
  <2>1. CASE PersistStart
    <3>1. PICK taken \in SUBSET pending : disk' = Taking(disk, taken, cache)
      BY <2>1 DEF PersistStart
    <3>2. \A k \in Keys : disk'[k] = IF k \in taken THEN cache[k] ELSE disk[k]
      BY <1>1, <3>1, TakingTyped, TypesUnfolded DEF Inv
    <3>3. QED
      BY <1>1, <3>2 DEF Inv, NothingToErase
  <2>2. CASE ResetStart
    BY <2>2
  <2>3. CASE UNCHANGED disk
    BY <2>3
  <2>4. QED
    BY <1>1, <2>1, <2>2, <2>3
       DEF Next, SetKeys, PersistDone, PersistFailed, LoadDone, ResetDone, Restart
<1>2. QED
  BY <1>1, CacheInvariant, PTL DEF Spec, NeverErased

-----------------------------------------------------------------------------
(* What a set call leaves in the store, with the history of MCCacheService. *)

Outcomes == {"stored", "failed", "reset"}

\* A write that fails or a reset is awaited: the cache will be rebuilt.
Rebuilding == \E i \in DOMAIN runs : runs[i] # "stored"

\* A value set since the last rebuild, on its way to the store or there.
OnItsWay(k) ==
    /\ loads = 0 /\ cache[k] = wanted[k]
    /\ \/ disk[k] = wanted[k]
       \/ Rebuilding
       \/ runs = <<>> /\ k \in pending /\ armed > 0

\* A key not set since: nothing is pending, and a loaded one reads as stored.
Untouched(k) ==
    /\ k \notin pending
    /\ k \in Loaded /\ loads = 0 => cache[k] = disk[k] \/ Rebuilding

Kept ==
    \A k \in Keys \ exposed : IF wanted[k] # 0 THEN OnItsWay(k) ELSE Untouched(k)

MCInv == Inv /\ Kept

\* The end of a successful write leaves the other outcomes awaited.
LEMMA OutcomesLeft ==
    ASSUME NEW q \in Seq(Outcomes), q # <<>>, Head(q) = "stored",
           NEW i \in DOMAIN q, q[i] # "stored"
    PROVE  \E j \in DOMAIN Tail(q) : Tail(q)[j] # "stored"
<1>1. i \in 2..Len(q)
  BY DEF Outcomes
<1>2. i - 1 \in DOMAIN Tail(q) /\ Tail(q)[i - 1] = q[i]
  BY <1>1 DEF Outcomes
<1>3. QED
  BY <1>2

\* What is awaited stays awaited when something else is issued.
LEMMA OutcomesAdded ==
    ASSUME NEW q \in Seq(Outcomes), NEW o \in Outcomes
    PROVE  /\ Append(q, o) # <<>>
           /\ (o # "stored" \/ \E i \in DOMAIN q : q[i] # "stored")
                => \E j \in DOMAIN Append(q, o) : Append(q, o)[j] # "stored"
<1>1. DOMAIN Append(q, o) = 1..Len(q) + 1 /\ Append(q, o)[Len(q) + 1] = o
  BY DEF Outcomes
<1>2. \A i \in DOMAIN q : i \in DOMAIN Append(q, o) /\ Append(q, o)[i] = q[i]
  BY DEF Outcomes
<1>3. Len(q) + 1 \in DOMAIN Append(q, o)
  BY <1>1
<1>4. QED
  BY <1>1, <1>2, <1>3

\* A rebuild forgets what was set: every key is untouched, and being loaded.
LEMMA RebuiltKeys ==
    ASSUME loads' > 0, pending' = {}, wanted' = Undefined
    PROVE  Kept'
  BY UndefinedTyped DEF Kept, Untouched

\* A cache about to be loaded for the first time.
LEMMA MCInitInv == MCInit => MCInv
<1> SUFFICES ASSUME MCInit PROVE MCInv
  OBVIOUS
<1>1. Inv
  BY InitInv DEF MCInit
<1>2. Kept
  BY UndefinedTyped DEF MCInit, Init, Kept, Untouched
<1>3. QED
  BY <1>1, <1>2 DEF MCInv

\* Every step keeps each key on its way or untouched.
LEMMA KeptStep == MCInv /\ [MCNext]_<<vars, exposed>> => MCInv'
<1> SUFFICES ASSUME MCInv, [MCNext]_<<vars, exposed>> PROVE MCInv'
  OBVIOUS
<1>0. /\ Inv /\ Kept /\ [Next]_vars /\ exposed \subseteq exposed'
      /\ cache \in Values /\ disk \in Values /\ wanted \in Values
      /\ sets \in Nat /\ loads \in Nat /\ armed \in Nat /\ runs \in Seq(Outcomes)
  BY TypesUnfolded DEF MCInv, Inv, MCNext, vars, Outcomes
<1>1. Inv'
  BY <1>0, InvStep
<1> SUFFICES Kept'
  BY <1>1 DEF MCInv
<1>2. ASSUME NEW S \in SUBSET Keys \ {{}}, SetKeys(S), MCNext PROVE Kept'
  <2>1. /\ sets' = sets + 1 /\ UNCHANGED <<runs, loads, disk>> /\ pending' = pending \cup S
        /\ \A k \in Keys : cache'[k] = IF k \in S THEN sets' ELSE cache[k]
        /\ \A k \in Keys : wanted'[k] = IF k \in S THEN sets' ELSE wanted[k]
    BY <1>2 DEF SetKeys
  <2>2. armed' > 0 /\ (armed > 0 => armed' > 0)
    BY <1>0, <1>2 DEF SetKeys, Schedule, Inv, Timers
  <2>3. ASSUME NEW k \in Keys \ exposed', k \in S
        PROVE  wanted'[k] # 0 /\ OnItsWay(k)'
    <3>1. ~Awaiting
      BY <1>0, <1>2, <2>1, <2>3 DEF MCNext
    <3>2. runs' = <<>> /\ loads' = 0
      BY <1>0, <2>1, <3>1 DEF Awaiting
    <3>3. QED
      BY <1>0, <2>1, <2>2, <2>3, <3>2 DEF OnItsWay
  <2>4. ASSUME NEW k \in Keys \ exposed', k \notin S
        PROVE  IF wanted'[k] # 0 THEN OnItsWay(k)' ELSE Untouched(k)'
    BY <1>0, <2>1, <2>2, <2>4 DEF Kept, OnItsWay, Untouched, Rebuilding
  <2>5. QED
    BY <2>3, <2>4 DEF Kept
<1>3. CASE PersistStart
  <2>1. PICK taken \in SUBSET pending, o \in {"stored", "failed"} :
            /\ disk' = Taking(disk, taken, cache) /\ runs' = Append(runs, o)
            /\ o = "stored" => taken = pending
    BY <1>3 DEF PersistStart
  <2>2. \A k \in Keys : disk'[k] = IF k \in taken THEN cache[k] ELSE disk[k]
    BY <1>0, <2>1, TakingTyped
  <2>3. runs' # <<>> /\ (o # "stored" \/ Rebuilding => Rebuilding')
    BY <1>0, <2>1, OutcomesAdded DEF Rebuilding, Outcomes
  <2>4. UNCHANGED <<cache, pending, loads, wanted>>
    BY <1>3 DEF PersistStart
  <2>5. QED
    BY <1>0, <2>1, <2>2, <2>3, <2>4 DEF Kept, OnItsWay, Untouched
<1>4. CASE PersistDone
  <2>1. Rebuilding => Rebuilding'
    BY <1>0, <1>4, OutcomesLeft DEF PersistDone, Rebuilding
  <2>2. runs # <<>> /\ pending' = {} /\ UNCHANGED <<cache, loads, disk, wanted>>
    BY <1>4 DEF PersistDone
  <2>3. QED
    BY <1>0, <2>1, <2>2 DEF Kept, OnItsWay, Untouched
<1>5. CASE PersistFailed
  BY <1>0, <1>5, RebuiltKeys DEF PersistFailed, Dispose
<1>6. CASE LoadDone
  <2>1. \A k \in Keys : cache'[k] = IF k \in Loaded THEN disk[k] ELSE cache[k]
    BY <1>0, <1>6, TakingTyped DEF LoadDone
  <2>2. loads > 0 /\ UNCHANGED <<pending, runs, disk, wanted>>
    BY <1>6 DEF LoadDone
  <2>3. ASSUME NEW k \in Keys \ exposed' PROVE wanted'[k] = 0 /\ Untouched(k)'
    <3>1. wanted[k] = 0 /\ k \notin pending
      BY <1>0, <2>2 DEF Kept, OnItsWay, Untouched
    <3>2. QED
      BY <2>1, <2>2, <3>1 DEF Untouched
  <2>4. QED
    BY <2>3 DEF Kept
<1>7. CASE ResetStart
  <2>1. Rebuilding'
    BY <1>0, <1>7, OutcomesAdded DEF ResetStart, Rebuilding, Outcomes
  <2>2. UNCHANGED <<cache, pending, loads, wanted>>
    BY <1>7 DEF ResetStart
  <2>3. QED
    BY <1>0, <2>1, <2>2 DEF Kept, OnItsWay, Untouched
<1>8. CASE ResetDone
  BY <1>0, <1>8, RebuiltKeys DEF ResetDone, Dispose
<1>9. CASE Restart
  BY <1>9, RebuiltKeys DEF Restart
<1>10. CASE UNCHANGED vars
  BY <1>0, <1>10 DEF vars, Kept, OnItsWay, Untouched, Rebuilding
<1>11. QED
  BY <1>0, <1>2, <1>3, <1>4, <1>5, <1>6, <1>7, <1>8, <1>9, <1>10 DEF MCNext, Next, vars

\* The inductive invariant of the cache with its history.
THEOREM KeptInvariant == MCSpec => []MCInv
  BY MCInitInv, KeptStep, PTL DEF MCSpec

\* Nothing awaited is nothing that will rebuild the cache.
LEMMA QuietSettles == Quiet => runs = <<>> /\ armed = 0 /\ ~Rebuilding
  BY DEF Quiet, Awaiting, Rebuilding

\* A set call reaches the store, unless the cache was rebuilt since or the key
\* was once set while something was awaited.
THEOREM SetIsKeptHolds == MCSpec => []SetIsKept
<1>1. MCInv => SetIsKept
  BY QuietSettles DEF MCInv, Kept, OnItsWay, SetIsKept
<1>2. QED
  BY <1>1, KeptInvariant, PTL

\* Once all is quiet a key initialize() loads reads as the store has it, with
\* the same exception.
THEOREM ReadsBackHolds == MCSpec => []ReadsBack
<1>1. ASSUME MCInv, Quiet, NEW k \in Loaded \ exposed PROVE cache[k] = disk[k]
  <2>1. k \in Keys \ exposed /\ loads = 0
    BY <1>1, LoadedAssumption, QuietSettles, TypesUnfolded DEF MCInv, Inv, Quiet, Awaiting
  <2>2. CASE wanted[k] # 0
    BY <1>1, <2>1, <2>2, QuietSettles DEF MCInv, Kept, OnItsWay
  <2>3. CASE wanted[k] = 0
    BY <1>1, <2>1, <2>3, QuietSettles DEF MCInv, Kept, Untouched
  <2>4. QED
    BY <2>2, <2>3
<1>2. MCInv => ReadsBack
  BY <1>1 DEF ReadsBack
<1>3. QED
  BY <1>2, KeptInvariant, PTL
=============================================================================
