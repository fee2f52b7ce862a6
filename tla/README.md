# A formal model of Aeriocode

This directory holds TLA+ modules that model the core of the Aeriocode VS Code
extension, the TLC configurations that model-check them, and proofs about them
checked by TLAPS. All of it is written from the TypeScript under `src/`; paths
below are relative to that directory.

The modules fall into eight groups, each readable on its own:

| group | code | modules |
|---|---|---|
| evidence push | `services/evidence`, `certification/db` | `EvidenceSync`, `EvidenceCallers`, `AuditLog`, `EvidenceProofs` |
| agent turn | `core/task/index.ts`, `core/task/ToolExecutor.ts` | `TaskTurn`, `TaskTurnProofs` |
| answer parser | `core/assistant-message` | `AnswerBlocks`, `AssistantMessage`, `AssistantMessageProofs` |
| ask and say | `ask`, `say`, `executeCommandTool` in `core/task/index.ts` | `AskSay`, `AskSayProofs` |
| checkpoints | `integrations/checkpoints`, `core/task/index.ts` | `Checkpoints`, `CheckpointsProofs` |
| task lifecycle | `core/controller`, `core/task` | `TaskLifecycle`, `TaskLifecycleProofs` |
| settings cache | `core/storage/CacheService.ts` | `CacheService`, `CacheServiceProofs` |
| MCP hub | `services/mcp/McpHub.ts` | `McpHub`, `McpHubProofs` |

`MC*.tla` give TLC its sets and add history variables, by which a property can say
"as long as no two calls overlapped"; `TaskTurn` needs none and is run directly.
`PROJECT.json` maps every definition to the lines it models and lists the
components, runs, seeded bugs (mutants), findings, hazards and theorems.

To repeat a check: `tlc -config EvidenceFaults.cfg MCEvidenceSync`; to repeat a
proof: `tlapm EvidenceProofs.tla`.


## 1. The system

Aeriocode is an AI coding agent inside VS Code with a compliance layer: it
drives a language model through tool calls, and keeps an audit trail of what
was generated and decided, which it pushes to a server as evidence. The
extension host is one JavaScript thread: code runs without interruption between
two `await`s, and everything hard comes from what other coroutines do at them.

### Components

**Evidence push** (`services/evidence/EvidenceSync.ts`, `EvidenceClient.ts`).
State: `running`, `rerunRequested`, `stopped`, `consecutiveFailures`,
`registered` per object; `project_key` and `last_synced_audit_id` in the
database. Operations: `flush`, `runOnce`, `verify`, `ensureProjectKey`. Hard: overlapping
drains, answers lost or late, objects replaced under way, crashes between the
server's write and the cursor's. Correct when no row the cursor has passed is
missing on the server, the server's copy is a prefix of the trail, the project
keeps one identity, and drains end.

**Audit database** (`certification/db/SqlJsDatabase.ts`). One SQLite image in
memory, exported and written whole after each statement; a write that fails is
logged only. Operations: open, run, close. Hard: a crash with an image in memory
that is not on disk.

**Certification manager** (`certification/CertificationManager.ts`). Owns the
database and the `EvidenceSync` object, replaces the latter whenever a profile
is activated, and calls `flush` without awaiting it. Hard: an old object still
drains while the new one starts.

**Agent turn** (`core/task/index.ts`). State: `taskState`: the streamed blocks,
the index of the block on display, the lock and pending-update flags of the
presenter, the rejection and use flags, `userMessageContentReady`, `abort`.
Operations: the request loop, the stream reader, `presentAssistantMessage`,
`abortTask`. Hard: the reader and the presenter share this state at every await.
Correct when only whole calls are carried out, at most one per turn, in order,
and the turn ends.

**Tool executor** (`core/task/ToolExecutor.ts`). One call at a time: skipped,
refused, denied or carried out, with one result to the model.

**Message parser** (`core/assistant-message/parse-assistant-message.ts`). Pure,
but called on every prefix of a growing answer. Correct when it finds what the
model meant, and when what a prefix says is complete does not change later.

**Controller task lifecycle** (`core/controller/index.ts`, `controller/task/*`).
State: `task`, the task history, the task files. Operations: `initTask`,
`clearTask`, `cancelTask`, `reinitExistingTaskFromId`, deletion, reset. Hard:
each is a coroutine with several awaits over one reference, and nothing orders
them. Correct when one task lives and it is the one on display.

**Message state** (`core/task/message-state.ts`). The two message arrays of a
task, saved after each change; each save also reads, changes and writes the
global task history.

**Settings cache** (`core/storage/CacheService.ts`). Three maps in memory, sets
of pending keys, one debounce timer. Operations: initialize, get, set, write,
dispose, re-initialize; the controller rebuilds it after a failed write. Hard:
sets during an awaited write, a rebuild that races the timer. Correct when what
was set is stored, and nothing stored is erased.

**Ask and say** (`core/task/index.ts`). `ask` appends a question, polls for an answer in
`taskState.askResponse`, and throws "ignored" when `lastMessageTs` shows that something newer was
said; `say` appends or completes a message. The agent, the output of a running command and the
notifications of MCP servers use the same channel at once. An answer is recorded for the
certification before it is stored. Hard: answers name no question, messages are
told apart by their millisecond. Correct when a question gets the answer given to it, is dropped only for
somebody else's message, and an answer ends the wait.

**Checkpoints** (`integrations/checkpoints`, and `saveCheckpoint` and
`restoreCheckpoint` in `core/task/index.ts`). State: a shadow git repository, the names of nested `.git` directories,
the hash a message carries, the tracker and its error message in each Task object. Operations: making the tracker with a
warning and a timeout, committing in the background or awaited, comparing, restoring. Hard: commits of two Task objects meet,
and their hashes are attached after the messages have changed; a crash leaves directories renamed. Correct when a
message carries its own commit and none that is later, files are in the commits, nested repositories are put back, and what was cut off does not return.

**MCP hub** (`services/mcp/McpHub.ts`). State: the settings file, the list of connections, `isConnecting`.
Operations: the watcher's update, the calls that toggle, approve, add, delete, restart. Hard:
each is a coroutine, the file is changed by a read and a later write, and the watcher repeats what a call does. Correct when
the list follows the file once all is quiet, transports are closed before they are dropped, and requests to the model are not held back for good.

**Repair ledger** (`core/task/tools/complianceGate.ts`). Counts repair attempts
per file and finding and stops them at a limit.

**The rest** is listed in `PROJECT.json` with its reason for staying outside:
human decisions, traceability and migrations (sequential rows of a database),
context management, terminals, the diff view, accounts and
banners, the analysers, diff and patch application, ignore and permission rules,
the RPC dispatcher, model providers, host bindings, telemetry and web UI.

### How they interact

* A webview request reaches a controller handler through the RPC dispatcher; each
  is a coroutine of its own, so two handlers overlap at every await
  (`TaskLifecycle`, `CacheService`).
* The controller makes a `Task` and keeps one reference to it. The task calls the
  controller back: through `reinitExistingTaskFromId` when its stream fails, through
  `updateTaskHistory` when messages are saved.
* In a task, the request loop parses each chunk (`AssistantMessage`) into
  `taskState` and calls the presenter, which executes tools; both talk through
  shared flags only (`TaskTurn`).
* A tool asks for approval and says what it does through `ask` and `say`, a command goes on asking while the agent has moved on
  (`AskSay`); a tool that changed files has a checkpoint saved, which the turn does not await (`Checkpoints`).
* Restoring a checkpoint cancels the task through the controller, before and after; requests to the
  model wait while the MCP hub is connecting (`McpHub`).
* A tool that writes code has an audit row recorded; the certification manager
  then asks for a push (`EvidenceCallers`), which reads rows from the
  database and advances a cursor in it (`EvidenceSync`).


## 2. The modules

### EvidenceSync

`trail`, `cursor`, `key` are the database in memory, `disk` the image on disk.
A *flow* is a coroutine inside `flush()`, an *instance* an `EvidenceSync` object
with its flags. `pc` of a flow is the await it is at: `ensure` (ensureProject),
`append` (appendEntries), `return` (the return of `runOnce` to `flush`).
`wire` holds the requests; a request whose `to` is `NoFlow` is one the client has
given up and that may still arrive. The server (external) applies the rows of a
request in order, skips what it holds, and answers with the number confirmed.

| action | code |
|---|---|
| `RecordEvent` | `AuditTrailService.recordEvent` and the write of the image |
| `FlushStart`, `FlushWhileRunning` | the start of `flush()`: guards, `running`, `rerunRequested` |
| `EnsureProjectDone` | registered; load the first batch, send it or return |
| `AppendConfirmed` | the cursor advances; the next batch, or return |
| `ShortAnswer` | fewer confirmed than sent: the loop is left, counted as a failure |
| `RetryableFailure`, `UnlistedTransportFailure`, `Rejected` | the catch: count, stop at the limit, or stop at once |
| `PassReturned` | the loop of `flush()`: rerun, or clear `running` |
| `ReplaceInstance` | `activateProfile`: a new object for the same database |
| `Crash`, `Reopen` | the process dies, or the database is closed and opened |

`EvidenceCallers` extends it with its two callers, `scheduleEvidencePush` and
`verify`, whose ghost variables remember what was recorded when they were called.
`AuditLog` is the abstract specification: a log that is recorded, stored,
and confirmed in order, where what is confirmed was stored. `EvidenceSync`
implements it under `Log == INSTANCE AuditLog WITH ...` in `MCEvidenceSync`, which remembers what
the log was before the disk first refused a write (`refused`, `seen`): the implementation ends there.

### TaskTurn

The main loop is at `pc`: preparing, streaming, saving, waiting. The presenter is at
`s.at`: idle, working on a copy of one block, acted (the tool has had its
effect and its result is pushed), dead (it threw with the lock held). What either does between two awaits is
one step; calls into the presenter are operators (`Enter`, `TakeUp`)
applied inside the caller's step, as they are in the code, where the presenter's
synchronous part runs inside the caller. An answer is a sequence of blocks that
grows by `TextChunk` or `OtherChunk`, constrained only by what the parser can
make of more text: `WellFormed` and `Extends` in `AnswerBlocks`, which `AssistantMessage`
shares and shows of the parser. `closed` records whether a block's end really arrived.

### AssistantMessage

A message is a sequence of tokens: tags, text, white space. `Scan` is the state the code keeps
(current tool, its parameter, where its value starts) after each pass of the parser's loop
body (`AtToken`), and `Parse` what it makes of the last one. `intent` and `dialect` are
a ghost: the blocks the model means and the closing tags it uses; `Answer` renders them. `Chunk`
extends what was received by any number of tokens and parses again, as the stream reader does.
`ClearAnswer` says which answers can be told apart: a value does not hold the tag that closes it, except that free text holds
`</parameter>`, and the content of a write its own closing tag (`ClearValue`); the parameters of a call differ and nothing
in a write looks like its content (`ClearCall`); a text opens no tool (`ClearText`); a foreign closing tag is used
only where no own one is written. `MCAssistantMessage` assumes of its cases that all of them are clear (`AllClear`, evaluated by TLC), so the run
asks `Understood` of each. `Shown` is what `TaskTurn` sees of the blocks, as `AnswerBlocks` defines it.

### AskSay

One Task object and three that speak in it: the agent, the command's output, the MCP servers. A message has a speaker, a kind, the partial flag and
its millisecond; `asking` is the question a caller polls for, `response` the stored answer, named by the question the user gave it to,
`transit` the answers still being recorded. Time is `lastTs`, which a new message leaves alone or moves on.

| action | code |
|---|---|
| `AgentStreams`, `AgentSaysTool`, `AgentAsksTool` | a tool call as a partial message, then complete, said or asked (`askApproval`), with `removeLastPartialMessageIfExistsWithType` |
| `AgentSays`, `AgentAsks` | every other `say` and `ask` of the task |
| `AgentPolls` | `pWaitFor` ends: ignored or answered |
| `RunCommand`, `Line`, `ChunkIsDue`, `ProcessCompletes` | `executeCommandTool`: the buffer, its timer, the end of the process |
| `ChunkIgnored`, `ChunkAnswered` | the end of a chunk's `ask`: the next chunk, or `process.continue()` |
| `Notify` | the notification callback of the MCP hub |
| `Answer`, `Deliver` | `askResponse` begins to record the decision, and `handleWebviewAskResponse` stores the answer |
| `Abort` | `abortTask` |

`MCAskSay` remembers, for a waiting question, the answers that were being recorded when it was asked (`meanwhile`) and whether somebody spoke since (`spoken`).

### Checkpoints

`task` holds the Task objects of one conversation that still have something under way, the last being the controller's;
`saved` is the conversation's file. A commit is named by the message it was made for. `hidden` says that the nested repositories are renamed,
`linked` and `links` that the index, and which commits, hold them without their files. A *job* is a piece of work in the shadow repository.

| action | code |
|---|---|
| `TrackerReady`, `TrackerFails`, `TrackerTimesOut`, `Warned` | the making of the tracker before the first request, its timeout and its warning timer |
| `Say`, `SaveCheckpoint`, `Complete` | `say`, `saveCheckpoint()` after a tool, `attempt_completion` with `saveCheckpoint(true)` |
| `Hide`, `Add`, `Show`, `Commit`, `CommitFails` | `addCheckpointFiles` and `commit`, with the renaming of nested repositories and its `finally` |
| `LandBackground`, `LandFirst`, `LandCompletion`, `LandNews` | what each caller does with the hash, and the comparison that flags new changes |
| `Cancel`, `Resume`, `Crash` | `cancelTask` and the Task object made from the file; the host dies |
| `CheckpointRestore` | `checkpointRestore`: cancel, then restore in the new Task object |
| `RestoreReset`, `RestoreFails`, `RestoreSkips`, `RestoreCut`, `RestoreDone` | `restoreCheckpoint` with its error paths, the cut of the conversation, the second `cancelTask` |

`MCCheckpoints` remembers whether commits met or were disturbed (`calm`), two jobs added files at once (`crossed`),
the conversation was cut while other work could still save it (`late`).

### McpHub

`file` is the settings file, `connections` the list, each with the configuration it was made from, its flags and the operation that is connecting it.
The code searches its one list by name and drops all that has a name at once, so that order matters only among connections of one name:
`connections` has a list for each name.
The operations under way are `ops`, each at one of its awaits.

| action | code |
|---|---|
| `Watch`, `Edit` | the file's watcher, and the constructor; the user's editor, which may leave the file broken |
| `ToggleServerDisabled`, `ToggleToolAutoApprove`, `UpdateServerTimeout`, `DeleteServer`, `AddRemoteServer` | the calls of the webview up to the write of the file |
| `Write` | the write, and what each call does after it |
| `Restart`, `Waited` | `restartConnection` and its delay |
| `Remove`, `Look`, `Closed` | the loops of `updateServerConnections`, `deleteConnection` |
| `Started`, `Connected`, `Fails`, `Fetch`, `Fetched` | `connectToServer`, and the tools with their approvals |
| `Finish` | the end, with `isConnecting` and the notification of the webview |

`deepEqual` is modelled by what it does: a parsed entry has a key with the value undefined that the configuration kept as
JSON lacks, so it never finds the two equal. `MCMcpHub` remembers whether operations met (`met`), and whether a change was taken up alone since (`settled`).

### CacheService

A value is the number of the set call that wrote it. `armed` counts timers that
will still fire, `held` says that `persistenceTimeout` is one of them; writes are awaited in `runs` and answered in
order. `Dispose`, in the recovery and the reset, clears maps and pending keys and then
`initialize` runs as a coroutine (`loads`). The three maps of the code are one here:
the same operations act on each.

### TaskLifecycle

A controller call is a coroutine at one of five awaits: reporting (the task's own
abort), fetching (`getTaskWithId`), waiting (the poll in `cancelTask`), clearing
(`abortTask`), loading (the awaits before the `Task` is made). A Task object has the id
of its history item, its abort flags, whether a save is under way, and a stage.
`history` and `filed` say where a task can be found. `UserCalls` and `TaskCalls` are slots for
calls of the user and of tasks whose stream failed.


## 3. The runs

There are twelve: nine that pass and three that end in a counterexample, one for
each question. The passing ones, with their bounds:

| run | bounds | shows |
|---|---|---|
| `evidence_faults` | 2 flows, 2 objects, 2 rows in batches of 2, 2 keys, failure limit 1, one late request, every fault | no row the cursor passed is missing (`NeverLose`); the server holds no row without those before it (`NeverReorder`); as long as the disk takes every write, one trail per project (`OneTrail`) and `AuditLog` is implemented |
| `evidence_calls` | 2 flows, 1 object, 3 rows in batches of 2, limit 2, refusals and crashes | `running` is cleared again; what was asked for is pushed; `verify()` is answered, and its own drain covers the rows it saw |
| `turn` | 3 blocks, 2 turns, blanks, aborts, failing streams | only closed calls, one effect a turn, each block once and in order, none left behind; the wait for the presenter ends |
| `parse` | up to 3 blocks, up to 2 tags in a value, both dialects, any chunks | a whole answer is understood; blocks only grow and a complete call is final, if the answer is unambiguous |
| `cache` | 2 keys of which one is loaded, 3 sets, 2 awaited runs, 2 loads | no stored setting is overwritten by an emptied cache; at rest, the store has what was set and the cache what is stored |
| `life` | 2 user calls and a task's, 2 tasks | an aborted task on display is being replaced; without overlapping calls, a task that lives is the one on display |
| `checkpoints` | 2 Task objects, 3 messages, 2 pieces of work | nested repositories are put back; no message carries a later commit; a restoring that goes on has reset the workspace; without meeting work: own commits, files in, what was cut stays cut |
| `ask` | 3 messages, 2 milliseconds, a command | a question gets its own answer and is ignored only for others; an answer ends the wait |
| `mcp` | 1 server, 2 operations, 2 calls of the user | the next change taken up alone puts the list right; no transport is forgotten; `isConnecting` ends |

Properties that hold only as long as calls, commits or operations do not meet are stated
with a history variable that records the meeting (`overlapped`, `exposed`, `calm`, `crossed`, `late`, `meanwhile`, `spoken`, `met`, `settled`,
`refused`): one run shows both what holds always and what holds without it.

Why these bounds are enough for the cases that matter. Two flows and two objects give
every overlap of drains, within an object and across a replacement; rows in batches of two give a full batch, a
short one and an empty one, and three rows a second batch; a limit of 2 tells a first failure from the last, and of 1
makes every failure the last. Three blocks give a call between two texts, two calls after a text, and
a block before, at and after the one on display. Two tags in a value
give a look-alike before and after the real one. Three sets and two runs give a set before, during and after an
awaited write. Two tasks and three calls give a task, the one that replaces it, and a third call in between. Two Task objects and two jobs give a commit of a
replaced task beside one of its successor, three messages a message before and after the one restored. Three messages give a question, something newer and the next question, and in two
milliseconds some share one. Two operations on one server give a read, another's write, and the write of what was read; two servers are in the counterexample run.
The proofs of section 5 lift the bounds for the safety properties they cover.

`CHECK_DEADLOCK FALSE` is set where the system may stop: a task may end
(`TaskTurn`, `AskSay`), an answer is received (`AssistantMessage`), the bounds on Task
objects and messages are reached (`TaskLifecycle`, `Checkpoints`), nothing is left to connect (`McpHub`).
`evidence_faults` and `life` reduce by the symmetry of slots that no definition tells
apart; neither checks liveness, and the abstract specification that `evidence_faults` checks has no fairness.

Every property of a passing run has a seeded bug in `PROJECT.json` (a dropped
guard, a swapped order, a missing reset) under which TLC finds it violated. Altered
definitions that stand in the modules are marked *Mutant*, come before the ones they alter, and nothing else uses them.

### Fairness

* `EvidenceCallers`: weak fairness of each flow's next step or failure (a promise
  settles or times out after `REQUEST_TIMEOUT_MS`), of the server taking a request, and
  of the return of a `verify()` whose drain is over. Nothing is assumed of the user, of
  events or of faults.
* `TaskTurn`: weak fairness of the presenter's return while the task lives (a tool,
  with its approval, ends), of the save after the stream, and of the poll that ends the wait.
* `AskSay`: weak fairness of the polling of the agent's question and of the command's chunk (`pWaitFor` runs every 100 ms). Nobody is assumed to answer.
* `McpHub`: weak fairness of each operation's next step, because a request to a server has a timeout,
  and strong fairness of the watcher, which may have to wait for the bound on operations.
* The other modules are checked for safety only.

### Disagreements found

Three runs end with a counterexample to what a comment of the repository
says; `PROJECT.json` quotes it.

| run | what the code does |
|---|---|
| `evidence_verify` | `verify()` asks about a trail still lacking rows: `flush()` returns at once while another drain runs (`EvidenceSync.ts:327`) |
| `parse_early` | a foreign closing tag at the end of a chunk completes a call too early (`parse-assistant-message.ts:156`) |
| `mcp_remaining` | deleting a server drops another from the list: entries read from the file as they are lack their type (`McpHub.ts:1029`) |

The models also show the following, which have no run of their own. Where a
property of a passing run had to except the case, it is named.

* A connection reset stops the push for the session: only five error codes count as
  transport failures (`EvidenceClient.ts:186`).
* Two drains of one trail overlap, that of a replaced object and the new one's, or two of one object between
  the return of `runOnce` and the test of the note. Rows stay in order all the same (`NeverReorder`).
* After a write the disk refused and a crash, a second project key is minted
  (`SqlJsDatabase.ts:266`); `OneTrail` and `ImplementsLog` except it (`refused`).
* A call that was carried out may be reported to the model as discarded (`core/task/index.ts:2596`).
* An answer of white space only leaves the turn waiting for ever, and so does an abort during a tool,
  once the stream has been read (`core/task/index.ts:2583`); `TurnContinues` excepts both.
* A set during an awaited write is taken off the pending keys unwritten (`CacheService.ts:306`);
  `SetIsKept` excepts it.
* Keys that `initialize()` does not load read as undefined though stored (`CacheService.ts:49`);
  `ReadsBack` excepts them.
* Two overlapping calls of the controller can leave two working tasks (`core/controller/index.ts:166`); `LiveIsCurrent` excepts overlapping calls.
* `cancelTask` marks whatever task is current after its awaits (`core/controller/index.ts:343`), and a
  task cancelled before its conversation file exists is not found and goes on (line 323).
* A save in flight puts a deleted task back into the history (`message-state.ts:93`).
* An answer that is still being recorded when the next question is asked answers that one; `OwnAnswer` names it (`meanwhile`). Two messages of one millisecond
  are taken for one another (`Collided`).
* The commit of a replaced Task object, when it lands, writes its own copy of the conversation over one that was cut meanwhile; `CutStaysCut` excepts it (`late`).
* The warning timer of a tracker is disarmed only by a tracker that got ready, and the trouble it leaves is kept in the history item: a later restoring then goes on without
  the workspace. `RestoredTogether` names that trouble.
* Every change of the MCP settings reconnects every server, because `deepEqual` never holds; and a call that read the file before another's write takes that change back.


## 4. What the models leave out

* Tools stand as one step with an effect, or a denial or refusal without one. The
  effect and the push of its result are one step: the presenter is locked in between, and nothing else reads the result.
* `ensureProjectKey` returning null (a missing table) is not modelled;
  transactions and the hash chain of the audit trail are not either.
* `UnlistedTransportFailure` also stands for an answer whose envelope is not the one
  expected, which the client does not count as retryable either.
* Parser: characters are abstracted to tokens. A "`<parameter>`" inside a value is skipped up to its last
  character, so a `>` remains, and the model has that. A value in which a literal
  `</content>` is followed by the opening of another parameter is not the model's intent, and is excluded from the cases.
* `AskSay`: texts and images, and which button stands for which answer. A question is saved and posted before it is polled; that await is no step, because a poll is not due
  at any time. `ask` in an aborted task throws before it does anything; questions waiting then poll on, which harms nobody.
* `Checkpoints`: how calls of the controller overlap is `TaskLifecycle`'s matter, so a cancelling is one step. Which message is shown as checked out, the diffs shown on request, and the
  migration and deletion of shadow repositories are left out. Git itself is external: it adds, commits and resets, or fails.
* `McpHub`: calls of tools and resources, disposal and the OAuth manager. A restart by a build-file watcher is a `Restart`.
* `CacheService`: continual sets keep the timer from firing and a set within 500 ms of
  shutdown is lost; both follow from debouncing and no property says otherwise.
  The store takes updates in the order they are issued.
* `TaskLifecycle`: the read, change and write of `updateTaskHistory` and of
  `deleteTaskFromState` is one step each, and so is the not-found path of `getTaskWithId`.
  `AbortedIsReplaced` excepts ids the user has deleted: a task deleted while its
  stream fails stays on display, because it is looked for in vain.
* `TaskTurn` takes for granted what `FeedsTaskTurn` says of the parser. The form of the blocks holds for any answer; that
  they only grow, for answers whose values hold no tag that closes them and whose texts hold none that opens a call.
* The asks at the limits of mistakes and requests, and the retry of a failed first
  chunk, are not in `TaskTurn`.

Of the repository's implementation lines the map covers a small part, because most of them are not a state machine that
decides anything: the web UI, the providers that translate requests and streams, the compliance analysers (pure functions over source text), generated
and vendored code, stubs of the test host, evaluation tools, and prompts. `PROJECT.json` lists each of these
components with its reason.


## 5. The proofs

Every theorem is of the form `Spec => []P`, `Spec => [][A]_vars` or an implementation, and holds for every value of the
constants allowed by the named assumptions of the modules (positive batch size and
failure limit, natural bounds, the faults a subset of those named, ...). All invariants and action
properties of the passing runs are proved.

**EvidenceProofs.** `NeverLoseHolds`: a row the cursor has passed is held by the
server. `NeverLose` is not inductive: the cursor advances on an answer to a request made earlier, and a crash
replaces memory by an older image. `LoseInv` adds that the image on disk is
covered too (`DiskCovered`); that a request the server has taken holds its rows
(`TakenIsHeld`); that a flow waiting for an answer read rows that exist after a base the server holds (`FlowBase`);
that a request to a flow carries the rows the flow read (`WireMatchesFlow`), and that a flow awaits one
request (`OneRequest`). The argument for the cursor: it only moves to the end of a batch the server
has taken, the batch began at a covered base, and rows of a key are never taken away.
The argument for a crash: it only goes back to an image that was covered when it was
written, and the server's rows only grow. There is one lemma per action and one step per conjunct.

In the second half of the module, `NeverReorderHolds` needs more (`OrderInv`): the trail increases and holds only
rows minted, the image on disk is an earlier one, and the rows of any request, a late one included, are consecutive
rows of the trail from a place below which the server holds everything. So whatever arrives, and in whatever order, extends a prefix. `OneTrailHolds` and
`ImplementsLogHolds` add, for a disk that has refused nothing, that the image on disk is the one in memory and that only one
key was ever used (`Faithful`, `OneStore`); then every step of the push is a step of `AuditLog` or leaves its variables alone.

Its third part is about `EvidenceCallers`. `OwnDrainCoversHolds`: of a drain that a `verify()` made itself, a short batch ended at the
trail's end as it was when the batch was read; the batch was read after the call, so it covers the rows of the call, and the drain ends
only at a short or empty batch, or with a failure, which the property excepts.

**TaskTurnProofs.** `OnlyClosedCalls`, `OneEffectPerTurn`, `TakenUpOnce` and
`NothingLeftBehind`. The invariant (`Sound`) says what holds between any two steps of reader
and presenter: only the last block can be partial, and a finished call is a closed
one (`SoundContent`); the lock is held exactly while the presenter is at work, and a finished block it works on was
begun, and is closed if it is a call (`SoundWork`); blocks are begun in order, those
below the index were begun unless a call was rejected or used, and one at the index is still worked on
(`SoundIndex`); readiness comes only with the presenter at rest past the last block (`SoundReady`).
`Enter` and `TakeUp` have lemmas of their own, used by every action that calls the presenter.

**CacheServiceProofs.** `NeverErased`, an action property: a timer that fires on an emptied
cache writes no undefined over a stored value. The invariant says that a pending
key the cache has no value for has none in the store (`NothingToErase`), and that no more timers are armed than set calls were made (`Timers`).
`SetIsKept` and `ReadsBack` rest on a second one: a key never set while something was awaited is in the store, or is
pending with an armed timer and nothing awaited, or a failed write or a reset is about to rebuild the cache; and an untouched key is not pending and reads as stored once loaded.

**TaskLifecycleProofs.** `AbortedIsReplaced`, for any number of overlapping calls: if
the task on display is aborted and was not deleted, a call that drops or replaces it is under way (`Replaced`),
and one that first has to find it in the history will (`RestoreFinds`). `CallShapes` ties a call's operation
to the awaits it can be at. `LiveIsCurrent`, for calls made one at a time: from the moment a call begins to clear until it has
made its Task, every task is aborted. That a call is alone is said with `Cardinality`, and used through a lemma on sets of at most one element.

**AskSayProofs.** `QuestionStands` and `OwnAnswer`. Only unfinished messages are ever taken off the list, and a waiting question is
finished, so it stays where it is; stamps grow along the list with the clock, so a question is superseded only by something after it, and the agent adds nothing
while it waits. What is stored in `response` was cleared when the question was asked, so it was delivered since: it was given to this question or in transit then.
A bound on what a poll may append (`Fits`) keeps the types.

**CheckpointsProofs.** `NeverForward`, `NestedComesBack`, `RestoredTogether` from one invariant: messages are in order of being
said and none carries a commit of a later one; a piece of work is for a message its Task object still has, or for a later one of the kind its hash will be put
on; a Task object that is being restored has no work under way. That the last message of a kind exists and is what
`CHOOSE` yields is proved from the well-foundedness of the order on finite sets (`LastOne`). The properties of the MC module rest on three more parts: `Alone` (as long as no two
jobs add at once, files are added with the nested repositories renamed, so no commit has a link), `Clean` (as long as the
conversation was cut only with nothing else under way, no Task object that may still save holds a cut message) and `Marks` (commits made one at a time and seen to their
end: the last message of the commit's kind is its own). `NoWorkAfterTimeout` adds that no work is under way once the tracker has timed out.

**McpHubProofs.** `TypeOK`, `NothingForgotten` and `FollowsFile`, for any servers, entries and operations. A step of an operation puts that operation at its next
await and changes the list of at most one server (`Move`); a lemma per action says which (`RemoveMove`, `LookMove`, ...), and the three invariants are proved from these.
The first (`Inv`): a connection that is being made belongs to the operation that makes it, which is at an await of `connectToServer` with that
server (`Owned`). The second (`Apart`), as long as no two operations were under way at a time: no name is listed twice, what is being deleted is closed, and the
connection of a server that is being connected is the operation's own; so what `connectToServer` drops was closed before. The third
(`Bringing`) says where a server stands while a change taken up alone is carried out (`Carried`): its list is what the settings say (`Right`), or it is still to be
removed or looked at, or is at an await of its operation (`Ahead`), with the list as `connectToServer` left it there (`Halfway`); and the operation means what the settings say now (`Informed`).
The invariant holds nothing over from before the change: that is why operations that met do no lasting harm. All three were
checked by TLC on the instance of the run `mcp` before they were proved.

**AssistantMessageProofs.** `UnderstoodHolds`, `UnambiguousIsFinalHolds` and `FeedsTaskTurnHolds`, for any tools and parameters, texts and values of any length, and any
chunks. The invariant (`PInv`) says only that the blocks are the parse of what was received; TLC checked it on the instance of the run `parse`. The work is in what `Parse` makes of a message.

*What it never takes back.* The parser looks ahead of the token it is at (`Later`), so what it makes of a part of an answer need not be what it makes of the whole: `CompleteIsFinal` does
fail. The proof says why it cannot when the answer is unambiguous. `Leads` gives every token of such an answer a context (outside calls, in a call, in a value) from the
context of the one before and the token alone; `AnswerLeads` shows that what the model writes out has such contexts, up from its values, parameters and blocks. `TokenFits` is the heart: where the parser's state
agrees with the context, only a parameter's or a tool's own closing tag closes it, and the look ahead decides nothing. So the states of a part are those of
the whole (`PrefixScan`). From there it is about one message: a token keeps the open tool, completes it, goes on with the text or ends it by a call (`TokenState`, for any message), so
what is open is still open later or has become the next block (`ScanOnward`); and a text that shows anything goes on showing something (`TrimIs`).

*What it hands to a turn.* All blocks but the last are complete and there is a call between two texts, for any sequence of tokens: an invariant of the scan (`ScanWhole`), which its end keeps
(`ParseOutcome`). `SeenFits` and `SeenExtends` carry this and the growing over to the blocks `TaskTurn` sees.

*That it understands.* An answer is laid out in parts within parts: `FlattenParts` says where each stands in the message (`At`), `PartsCover` that there is
nothing else. `BodyMisses`, `RenderMisses` and `AnswerMisses` say which tags stand nowhere in a call or an answer, so `ClearDecided` can say how the look ahead decides at a closing tag. The state of the
parser is described at three places: at the end of a block (`Reading`), in a call (`Calling`), in a value (`Valuing`). `ParamRead` takes it through one parameter. A write whose content holds
`</content>` ends its parameter early there: what is left is passed over as the body of the call, and `FinalParamsIs` shows that the value from the first `<content>` to the last
`</content>` is the meant one. `Gathered` is what the parameters read so far come to. `CallRead` and `TextRead` take it through a block, `BlocksRead` through all by induction, and `AnswerRead` concludes
`Parse(Answer) = Meant`. The conditions of `ClearAnswer` are the ones this argument uses; they are enough, and nothing is claimed of an answer that does not meet them.

The two assumptions on the constants say that no tool has the name of a parameter, as the two lists of `core/assistant-message/index.ts` have it, and what kind of
data the cases are. Induction over the tokens, and that the recursive definitions define anything, rest on the least element of a set of numbers (`Least`, `Upward`).

**Only model-checked.** The liveness properties: `RunningEnds`, `AskedIsPushed`,
`VerifyAnswers`, `TurnContinues`, `AnswerEndsWait`, `ConnectingEnds`. Liveness under fairness, and `ENABLED`, are out of the prover's reach.
No module uses a `RECURSIVE` operator.


## 6. What is left

What can lose or invent evidence came first, then what can run away or stop the
agent, then what can lose the user's settings, tasks and files. Not modelled yet, in the order of what they would add:

1. `MessageState`: the API conversation and the task history's
   read, change and write as separate steps, refined by the one-step history of `TaskLifecycle`. Two overlapping updates of the history lose one.
2. `RepairLedger` (`core/task/tools/complianceGate.ts:119`): the bounded repair.
3. The certification manager's opening, switching and cleaning up, around `EvidenceSync`.
4. Context truncation against a reference definition; the tracker of files edited by the user (`core/context/context-tracking`); the refresh of a token in `services/auth`.
5. Composition of `AskSay` with `TaskTurn`, where an ask is the await inside a tool.

The runs are kept to a dozen: a new module takes the place of a run, or joins one by composition.
