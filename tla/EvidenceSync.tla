---------------------------- MODULE EvidenceSync ----------------------------
(***************************************************************************)
(* The push of the local audit trail to the server-side evidence store:    *)
(* services/evidence/EvidenceSync.ts over certification/db/SqlJsDatabase.  *)
(*                                                                         *)
(* The audit trail, the project key and the cursor live in one SQLite      *)
(* image: it is kept in memory and written to disk after every statement,  *)
(* and a write that fails is only logged.  A flush() call is a coroutine   *)
(* (a "flow") of one EvidenceSync object (an "instance"); it yields while  *)
(* it awaits ensureProject, appendEntries, and its own runOnce.  The       *)
(* server is external: it applies the entries of a request in order,       *)
(* skipping those it already holds, and may do so long after the client    *)
(* gave the request up.                                                    *)
(*                                                                         *)
(* An audit row's id is its position in trail; an entry is a number minted *)
(* once, standing for its entry_hash, which is also its clientEntryId.     *)
(***************************************************************************)
EXTENDS Naturals, Sequences, FiniteSets

CONSTANTS
    Flows,          \* coroutine slots for flush() calls that run a drain
    Insts,          \* slots for EvidenceSync objects
    BatchSize,      \* BATCH_SIZE (200 in the code)
    MaxFailures,    \* MAX_CONSECUTIVE_FAILURES (5 in the code)
    MaxEntries,     \* bound: audit rows ever recorded
    MaxKeys,        \* bound: project keys ever minted
    MaxLate,        \* bound: given-up requests that may still reach the server
    Faults          \* what the environment may do, a subset of FaultKinds

FaultKinds == {"timeout", "reset", "short", "reject", "crash", "disk"}

ASSUME BatchAssumption == BatchSize \in Nat \ {0}
ASSUME FailuresAssumption == MaxFailures \in Nat \ {0}
ASSUME BoundsAssumption == MaxEntries \in Nat /\ MaxKeys \in Nat /\ MaxLate \in Nat
ASSUME FaultsAssumption == Faults \subseteq FaultKinds
ASSUME SlotsAssumption == Insts # {}

NoFlow == "noflow"
ASSUME NoFlowAssumption == NoFlow \notin Flows

VARIABLES
    trail,      \* audit_trail in memory: entries in id order
    cursor,     \* evidence_sync.last_synced_audit_id
    key,        \* evidence_sync.project_key, 0 while no row exists
    disk,       \* the image of these three on disk
    minted,     \* entries minted so far
    keys,       \* project keys minted so far
    store,      \* server: for each project key, the entries it holds, in order
    wire,       \* requests in flight; to = NoFlow once the client gave up
    flow,       \* the flush coroutines
    inst,       \* the EvidenceSync objects
    current     \* CertificationManager.evidenceSync

vars == <<trail, cursor, key, disk, minted, keys, store, wire, flow, inst, current>>
db == <<trail, cursor, key, disk>>

Entries == 1..MaxEntries
Elems(s) == {s[n] : n \in DOMAIN s}

\* What the server holds for the project this database belongs to.
Held == IF key = 0 THEN {} ELSE Elems(store[key])

Image == [trail : Seq(Entries), cursor : Nat, key : 0..MaxKeys]
Request == [to : Flows \cup {NoFlow}, key : 0..MaxKeys, rows : Seq(Entries), at : Nat]
Flow == [pc : {"idle", "ensure", "append", "return"}, inst : Insts,
         first : Nat, last : Nat, stopped : BOOLEAN]
Inst == [running : BOOLEAN, rerun : BOOLEAN, fails : Nat, registered : BOOLEAN]

FreshInst == [running |-> FALSE, rerun |-> FALSE, fails |-> 0, registered |-> FALSE]
IdleFlow(i) == [pc |-> "idle", inst |-> i, first |-> 0, last |-> 0, stopped |-> FALSE]

TypeOK ==
    /\ trail \in Seq(Entries)
    /\ cursor \in Nat
    /\ key \in 0..MaxKeys
    /\ disk \in Image
    /\ minted \in 0..MaxEntries
    /\ keys \in 0..MaxKeys
    /\ store \in [1..MaxKeys -> Seq(Entries)]
    /\ wire \subseteq Request
    /\ flow \in [Flows -> Flow]
    /\ inst \in [Insts -> Inst]
    /\ current \in Insts

Init ==
    /\ trail = <<>> /\ cursor = 0 /\ key = 0
    /\ disk = [trail |-> <<>>, cursor |-> 0, key |-> 0]
    /\ minted = 0 /\ keys = 0
    /\ store = [k \in 1..MaxKeys |-> <<>>]
    /\ wire = {}
    /\ current \in Insts
    /\ inst = [i \in Insts |-> FreshInst]
    /\ flow = [f \in Flows |-> IdleFlow(current)]

-----------------------------------------------------------------------------
(* The database. *)

\* flushSync: the whole image is exported and written after a statement; an
\* error is logged and the image stays dirty in memory.
Persist ==
    \/ disk' = [trail |-> trail', cursor |-> cursor', key |-> key']
    \/ "disk" \in Faults /\ UNCHANGED disk

\* AuditTrailService.recordEvent: one row, appended.
RecordEvent ==
    /\ minted < MaxEntries
    /\ minted' = minted + 1
    /\ trail' = Append(trail, minted')
    /\ UNCHANGED <<cursor, key>>
    /\ Persist
    /\ UNCHANGED <<keys, store, wire, flow, inst, current>>

\* Mutant: a key is minted without looking for a stored one.
MintAlways ==
    /\ UNCHANGED <<trail, cursor>>
    /\ keys < MaxKeys /\ keys' = keys + 1 /\ key' = keys' /\ Persist

\* ensureProjectKey: the stored key, or a new one inserted.
EnsureProjectKey ==
    /\ UNCHANGED <<trail, cursor>>
    /\ \/ key # 0 /\ UNCHANGED <<key, keys, disk>>
       \/ key = 0 /\ keys < MaxKeys /\ keys' = keys + 1 /\ key' = keys' /\ Persist

-----------------------------------------------------------------------------
(* runOnce: one drain pass of flow f on instance i. *)

\* pendingEntries: the ids of the next batch after id c are c+1 .. BatchEnd(c).
BatchEnd(c) == IF c + BatchSize < Len(trail) THEN c + BatchSize ELSE Len(trail)

\* Mutant: the query orders by id descending.
NextBatchNewestFirst(f, i, c, r, w) ==
    IF c >= Len(trail)
      THEN /\ inst' = [inst EXCEPT ![i] = [r EXCEPT !.running = FALSE]]
           /\ flow' = [flow EXCEPT ![f] = [IdleFlow(i) EXCEPT !.pc = "return"]]
           /\ wire' = w
      ELSE LET n == BatchEnd(c) - c IN
           /\ inst' = [inst EXCEPT ![i] = r]
           /\ flow' = [flow EXCEPT ![f] = [pc |-> "append", inst |-> i, first |-> c + 1,
                                           last |-> BatchEnd(c), stopped |-> FALSE]]
           /\ wire' = w \cup {[to |-> f, key |-> key', at |-> 0,
                               rows |-> [k \in 1..n |-> trail[Len(trail) + 1 - k]]]}

\* The for loop's head: no rows ends the pass, otherwise the batch is sent.
\* r is the instance record the surrounding step has computed so far; the wire
\* is w plus the new request.
NextBatch(f, i, c, r, w) ==
    IF c >= Len(trail)
      THEN /\ inst' = [inst EXCEPT ![i] = [r EXCEPT !.running = FALSE]]
           /\ flow' = [flow EXCEPT ![f] = [IdleFlow(i) EXCEPT !.pc = "return"]]
           /\ wire' = w
      ELSE /\ inst' = [inst EXCEPT ![i] = r]
           /\ flow' = [flow EXCEPT ![f] = [pc |-> "append", inst |-> i, first |-> c + 1,
                                           last |-> BatchEnd(c), stopped |-> FALSE]]
           /\ wire' = w \cup {[to |-> f, key |-> key', at |-> 0,
                               rows |-> SubSeq(trail, c + 1, BatchEnd(c))]}

\* The body of flush's do loop up to its first suspension.
BeginPass(f, i) ==
    LET r == [inst[i] EXCEPT !.rerun = FALSE, !.running = TRUE] IN
    /\ EnsureProjectKey
    /\ IF r.registered
         THEN NextBatch(f, i, cursor, r, wire)
         ELSE /\ inst' = [inst EXCEPT ![i] = r]
              /\ flow' = [flow EXCEPT ![f] = [IdleFlow(i) EXCEPT !.pc = "ensure"]]
              /\ UNCHANGED wire

\* ensureProject answered: the project is registered and the loop is entered.
EnsureProjectDone(f) ==
    LET i == flow[f].inst IN
    /\ flow[f].pc = "ensure"
    /\ UNCHANGED db
    /\ NextBatch(f, i, cursor, [inst[i] EXCEPT !.registered = TRUE], wire)
    /\ UNCHANGED <<minted, keys, store, current>>

\* Where the loop continues after a batch: a short batch was the last one.
LoopFrom(f) ==
    IF flow[f].last - flow[f].first + 1 < BatchSize THEN Len(trail) ELSE flow[f].last

\* Mutant: the answer's entries are not counted.
AppendUncounted(f) ==
    /\ flow[f].pc = "append"
    /\ \E q \in wire :
         /\ q.to = f
         /\ cursor' = flow[f].last
         /\ UNCHANGED <<trail, key>>
         /\ Persist
         /\ NextBatch(f, flow[f].inst, LoopFrom(f),
                      [inst[flow[f].inst] EXCEPT !.fails = 0], wire \ {q})
    /\ UNCHANGED <<minted, keys, store, current>>

\* Mutant: one batch per pass, however long the backlog.
AppendOneBatch(f) ==
    /\ flow[f].pc = "append"
    /\ \E q \in wire :
         /\ q.to = f
         /\ q.at = Len(q.rows)
         /\ cursor' = flow[f].last
         /\ UNCHANGED <<trail, key>>
         /\ Persist
         /\ NextBatch(f, flow[f].inst, Len(trail), [inst[flow[f].inst] EXCEPT !.fails = 0], wire \ {q})
    /\ UNCHANGED <<minted, keys, store, current>>

\* appendEntries answered, every entry accounted for: the cursor moves to the
\* batch's last id, and a full batch is followed by the next one.
AppendConfirmed(f) ==
    /\ flow[f].pc = "append"
    /\ \E q \in wire :
         /\ q.to = f
         /\ q.at = Len(q.rows)
         /\ cursor' = flow[f].last
         /\ UNCHANGED <<trail, key>>
         /\ Persist
         /\ NextBatch(f, flow[f].inst, LoopFrom(f),
                      [inst[flow[f].inst] EXCEPT !.fails = 0], wire \ {q})
    /\ UNCHANGED <<minted, keys, store, current>>

\* Mutant: no finally block, a failed pass stays running.
FailWithoutFinally(f, permanent) ==
    LET i == flow[f].inst
        n == IF permanent THEN MaxFailures ELSE inst[i].fails + 1
    IN
    /\ UNCHANGED <<trail, cursor, key>>
    /\ Persist
    /\ inst' = [inst EXCEPT ![i].fails = n]
    /\ flow' = [flow EXCEPT ![f] = [IdleFlow(i) EXCEPT !.pc = "return",
                                                       !.stopped = (n >= MaxFailures)]]
    /\ UNCHANGED <<minted, keys, store, current>>

\* Mutant: a failure takes one off the count instead of adding one.
FailCountedDown(f, permanent) ==
    LET i == flow[f].inst
        n == IF permanent THEN MaxFailures ELSE inst[i].fails - 1
    IN
    /\ UNCHANGED <<trail, cursor, key>>
    /\ Persist
    /\ inst' = [inst EXCEPT ![i].fails = n, ![i].running = FALSE]
    /\ flow' = [flow EXCEPT ![f] = [IdleFlow(i) EXCEPT !.pc = "return",
                                                       !.stopped = (n >= MaxFailures)]]
    /\ UNCHANGED <<minted, keys, store, current>>

\* The catch and finally blocks: recordFailure writes the row, the failure is
\* counted (a permanent one counts as all of them), the pass is over.
FailPass(f, permanent) ==
    LET i == flow[f].inst
        n == IF permanent THEN MaxFailures ELSE inst[i].fails + 1
    IN
    /\ UNCHANGED <<trail, cursor, key>>
    /\ Persist
    /\ inst' = [inst EXCEPT ![i].fails = n, ![i].running = FALSE]
    /\ flow' = [flow EXCEPT ![f] = [IdleFlow(i) EXCEPT !.pc = "return",
                                                       !.stopped = (n >= MaxFailures)]]
    /\ UNCHANGED <<minted, keys, store, current>>

\* Requests of the flows in F lose their reader: each is lost, or delivered late.
GiveUp(F) ==
    LET kept == {q \in wire : q.to \notin F}
        late == {[q EXCEPT !.to = NoFlow] : q \in wire \ kept}
    IN  \E l \in SUBSET late :
          /\ wire' = kept \cup l
          /\ Cardinality({q \in wire' : q.to = NoFlow}) <= MaxLate

\* A listed transport error (ECONNABORTED, ETIMEDOUT, ...), a 5xx, a 401, a
\* missing token: retryable.  The request may still reach the server.
RetryableFailure(f) ==
    /\ "timeout" \in Faults
    /\ flow[f].pc \in {"ensure", "append"}
    /\ GiveUp({f})
    /\ FailPass(f, FALSE)

\* A transport error describeFailure does not list (ECONNRESET, EPIPE, ...):
\* no status and no known code, so it is classed as permanent.
UnlistedTransportFailure(f) ==
    /\ "reset" \in Faults
    /\ flow[f].pc \in {"ensure", "append"}
    /\ GiveUp({f})
    /\ FailPass(f, TRUE)

\* The server accounted for fewer entries than were sent: a plain Error.
ShortAnswer(f) ==
    /\ "short" \in Faults
    /\ flow[f].pc = "append"
    /\ \E q \in wire : q.to = f /\ q.at < Len(q.rows) /\ wire' = wire \ {q}
    /\ FailPass(f, FALSE)

\* A 4xx: the batch was refused as a whole.
Rejected(f) ==
    /\ "reject" \in Faults
    /\ \/ flow[f].pc = "ensure" /\ UNCHANGED wire
       \/ flow[f].pc = "append"
          /\ \E q \in wire : q.to = f /\ q.at = 0 /\ wire' = wire \ {q}
    /\ FailPass(f, TRUE)

-----------------------------------------------------------------------------
(* flush *)

\* flush() while the instance is running: leaves a note for the running pass.
FlushWhileRunning ==
    /\ inst[current].running
    /\ inst' = [inst EXCEPT ![current].rerun = TRUE]
    /\ UNCHANGED <<db, minted, keys, store, wire, flow, current>>

\* flush() on an idle instance that has not given up.
FlushStart(f) ==
    /\ flow[f].pc = "idle"
    /\ ~inst[current].running
    /\ inst[current].fails < MaxFailures
    /\ BeginPass(f, current)
    /\ UNCHANGED <<minted, store, current>>

\* Mutant: a re-run asked for during the pass is forgotten.
ReturnWithoutRerun(f) ==
    /\ flow[f].pc = "return"
    /\ flow' = [flow EXCEPT ![f] = IdleFlow(flow[f].inst)]
    /\ UNCHANGED <<db, keys, wire, inst, minted, store, current>>

\* Mutant: a pass that was stopped is re-run like any other.
ReturnWithoutStop(f) ==
    LET i == flow[f].inst IN
    /\ flow[f].pc = "return"
    /\ IF inst[i].rerun
         THEN BeginPass(f, i)
         ELSE /\ flow' = [flow EXCEPT ![f] = IdleFlow(i)]
              /\ UNCHANGED <<db, keys, wire, inst>>
    /\ UNCHANGED <<minted, store, current>>

\* flush() resumes after runOnce: another pass if one was asked for meanwhile.
\* Between the end of runOnce and this step the instance is not running, so a
\* flush() made by a job queued in between starts a drain of its own.
PassReturned(f) ==
    LET i == flow[f].inst IN
    /\ flow[f].pc = "return"
    /\ IF inst[i].rerun /\ ~flow[f].stopped
         THEN BeginPass(f, i)
         ELSE /\ flow' = [flow EXCEPT ![f] = IdleFlow(i)]
              /\ UNCHANGED <<db, keys, wire, inst>>
    /\ UNCHANGED <<minted, store, current>>

-----------------------------------------------------------------------------
(* The surroundings. *)

\* The server takes the next entry of a request, skipping one it holds.
ServerTakes ==
    \E q \in wire :
      /\ q.at < Len(q.rows)
      /\ LET e == q.rows[q.at + 1] IN
           store' = IF e \in Elems(store[q.key]) THEN store
                    ELSE [store EXCEPT ![q.key] = Append(@, e)]
      /\ wire' = (wire \ {q}) \cup {[q EXCEPT !.at = @ + 1]}
      /\ UNCHANGED <<db, minted, keys, flow, inst, current>>

\* activateProfile on an open database: a new EvidenceSync over the same rows.
\* A drain of the replaced object goes on.
ReplaceInstance ==
    \E i \in Insts :
      /\ i # current
      /\ \A f \in Flows : flow[f].pc # "idle" => flow[f].inst # i
      /\ current' = i
      /\ inst' = [inst EXCEPT ![i] = FreshInst]
      /\ UNCHANGED <<db, minted, keys, store, wire, flow>>

\* The database is loaded from image img and its users start afresh.  Requests
\* already sent stay on the wire, with nobody waiting for them.
Reload(img) ==
    /\ trail' = img.trail /\ cursor' = img.cursor /\ key' = img.key
    /\ disk' = img
    /\ GiveUp(Flows)
    /\ flow' = [f \in Flows |-> IdleFlow(current)]
    /\ inst' = [i \in Insts |-> FreshInst]
    /\ UNCHANGED <<minted, keys, store, current>>

\* The extension host dies.
Crash == "crash" \in Faults /\ Reload(disk)

\* cleanup and onWorkspaceChanged: close() writes a dirty image, then the file
\* is read again.  A drain of the closed database can only fail from then on:
\* every statement it runs throws.
Reopen ==
    /\ "crash" \in Faults
    /\ Reload([trail |-> trail, cursor |-> cursor, key |-> key])

FlowStep(f) ==
    \/ EnsureProjectDone(f) \/ AppendConfirmed(f) \/ PassReturned(f)
FlowFailure(f) ==
    \/ RetryableFailure(f) \/ UnlistedTransportFailure(f) \/ ShortAnswer(f) \/ Rejected(f)

Next ==
    \/ RecordEvent
    \/ FlushWhileRunning
    \/ \E f \in Flows : FlushStart(f) \/ FlowStep(f) \/ FlowFailure(f)
    \/ ServerTakes
    \/ ReplaceInstance
    \/ Crash
    \/ Reopen

Spec == Init /\ [][Next]_vars

-----------------------------------------------------------------------------
(* Properties. *)

\* Never lose an entry: every row at or below the cursor, which no flush will
\* ever read again, is held by the server.
NeverLose == cursor <= Len(trail) /\ \A n \in 1..cursor : trail[n] \in Held

\* Never reorder: the server holds no row without the rows before it, and
\* holds them in local id order.
NeverReorder ==
    \A n, m \in 1..Len(trail) :
      (n < m /\ trail[m] \in Held) =>
        \E p, q \in 1..Len(store[key]) :
          p < q /\ store[key][p] = trail[n] /\ store[key][q] = trail[m]
=============================================================================
