------------------------------- MODULE Checkpoints --------------------------
(***************************************************************************)
(* The checkpoints of one conversation (core/task/index.ts, CheckpointTrack- *)
(* er.ts, CheckpointGitOperations.ts): messages are marked with commits of a *)
(* shadow git repository of the workspace, made in the background, and the *)
(* user takes the workspace, the conversation or both back to a message.   *)
(*                                                                         *)
(* A Task object keeps the messages in memory and writes all of them to    *)
(* the conversation's file.  Cancelling it makes a new object from the     *)
(* file; what the old one awaits goes on, on its own copy.  The one on     *)
(* display is the last made: how calls of the controller overlap is        *)
(* TaskLifecycle's matter.                                                 *)
(*                                                                         *)
(* Left out: which message the webview shows as checked out, the wording   *)
(* of the notices, checkpoints switched off in the settings, and the       *)
(* comparison a user asks for, which adds files as that of a result does.  *)
(***************************************************************************)
EXTENDS Naturals, Sequences, FiniteSets

CONSTANTS
    MaxTasks,       \* bound: Task objects of the conversation at one time
    MaxMessages,    \* bound: messages ever said
    MaxJobs         \* bound: pieces of work in the repository at one time

ASSUME BoundAssumption == {MaxTasks, MaxMessages, MaxJobs} \subseteq Nat \ {0}

VARIABLES
    task,       \* the Task objects there are, the last being the controller's
    saved,      \* the messages in ui_messages.json
    noted,      \* the trouble in the task's history item
    said,       \* how many messages were ever said
    hidden,     \* the nested repositories' .git carry the suffix
    linked,     \* its index has nested repositories as links, without their files
    links,      \* its commits that were made with such an index
    jobs,       \* what is under way in the shadow repository
    restore,    \* the restoring under way
    cut,        \* history: messages a restoring cut off
    stranded    \* history: the extension host died while they carried it

repo == <<hidden, linked, links>>
vars == <<task, saved, noted, said, repo, jobs, restore, cut, stranded>>

made == Len(task)

\* A commit is named by the message it was made for; hash is 0 for undefined.
Message == [id : 1..MaxMessages, kind : {"other", "checkpoint", "completion"},
            hash : 0..MaxMessages]

Troubles == {"none", "slow", "failed", "timedout"}

\* trouble is the checkpointTrackerErrorMessage, warn the armed warning timer.
Task == [messages : Seq(Message), tracker : BOOLEAN, warn : BOOLEAN,
         trouble : Troubles, pc : {"starting", "saving", "waiting", "ready", "ended"}]

\* for is the message a commit is meant to mark, 0 for a comparison.
Job == [task : 1..MaxTasks, op : {"first", "background", "completion", "news"},
        for : 0..MaxMessages, pc : {"hide", "add", "show", "commit", "land"}]

Restores == {"task", "workspace", "taskAndWorkspace"}
Restore == [task : 0..MaxTasks, kind : Restores, at : Nat,
            reset : BOOLEAN, pc : {"none", "reset", "cut", "cancel"}]

NoRestore == [task |-> 0, kind |-> "task", at |-> 0, reset |-> FALSE, pc |-> "none"]

TypeOK ==
    /\ task \in Seq(Task) /\ made \in 1..MaxTasks
    /\ saved \in Seq(Message) /\ noted \in Troubles /\ said \in 0..MaxMessages
    /\ hidden \in BOOLEAN /\ linked \in BOOLEAN /\ links \subseteq 1..MaxMessages
    /\ jobs \subseteq Job /\ restore \in Restore
    /\ cut \subseteq 1..MaxMessages /\ stranded \in BOOLEAN

Opened(msgs, t) == [messages |-> msgs, tracker |-> FALSE, warn |-> FALSE,
                    trouble |-> t, pc |-> "waiting"]

\* The first request of a new task was said, and has armed the timer of its
\* tracker.
Init ==
    /\ saved = <<>> /\ said = 0 /\ noted = "none"
    /\ task = <<[Opened(saved, "none") EXCEPT !.warn = TRUE, !.pc = "starting"]>>
    /\ hidden = FALSE /\ linked = FALSE /\ links = {}
    /\ jobs = {} /\ restore = NoRestore /\ cut = {} /\ stranded = FALSE

-----------------------------------------------------------------------------
(* Messages. *)

Smaller(a, b) == IF a < b THEN a ELSE b
Ids(msgs) == {msgs[i].id : i \in DOMAIN msgs}
Of(msgs, kind) == {i \in DOMAIN msgs : msgs[i].kind = kind}
Hashed(msgs) == {i \in DOMAIN msgs : msgs[i].hash # 0}
Latest(I) == CHOOSE i \in I : \A k \in I : k <= i
Earliest(I) == CHOOSE i \in I : \A k \in I : k >= i
\* Mutant: a number is skipped.
SaidAfter(kind) == [id |-> said + 2, kind |-> kind, hash |-> 0]
Said(kind) == [id |-> said + 1, kind |-> kind, hash |-> 0]

\* saveAeriocodeMessagesAndUpdateHistory: the whole list of this Task object goes
\* to the file, and its trouble to the history item.
Save(n) == saved' = task'[n].messages /\ noted' = task'[n].trouble
Put(n, msgs, t) == task' = [t EXCEPT ![n].messages = msgs] /\ Save(n)

Begin(n, op, for) ==
    /\ Cardinality(jobs) < MaxJobs
    /\ jobs' = jobs \cup {[task |-> n, op |-> op, for |-> for, pc |-> "hide"]}

\* The agent goes on, unless its task was aborted meanwhile.
Released(n) == IF n = made THEN "ready" ELSE "ended"

\* say, of a message without a commit.
Say(n) ==
    /\ task[n].pc = "ready" /\ said < MaxMessages
    /\ said' = said + 1
    /\ Put(n, Append(task[n].messages, Said("other")), task)
    /\ UNCHANGED <<repo, jobs, restore, cut, stranded>>

-----------------------------------------------------------------------------
(* The tracker of a new task: its shadow repository is made or looked up,  *)
(* with a warning after 7 seconds and a timeout after 60.                  *)

Starting(n) == task[n].pc = "starting" /\ UNCHANGED <<saved, noted, repo, restore, cut, stranded>>

\* The tracker is there: the first checkpoint is committed before it is said.
TrackerReady(n) ==
    /\ Starting(n) /\ said < MaxMessages /\ said' = said + 1
    /\ task' = [task EXCEPT ![n].tracker = TRUE, ![n].warn = FALSE, ![n].pc = "saving"]
    /\ Begin(n, "first", said + 1)

TrackerFails(n) ==
    /\ Starting(n)
    /\ task' = [task EXCEPT ![n].trouble = "failed", ![n].pc = Released(n)]
    /\ UNCHANGED <<said, jobs>>

\* The warning comes long before the timeout.
TrackerTimesOut(n) ==
    /\ Starting(n) /\ ~task[n].warn
    /\ task' = [task EXCEPT ![n].trouble = "timedout", ![n].pc = Released(n)]
    /\ UNCHANGED <<said, jobs>>

\* The warning timer fires; only a tracker that got ready has disarmed it.
Warned(n) ==
    /\ task[n].warn
    /\ task' = [task EXCEPT ![n].warn = FALSE, ![n].trouble = "slow"]
    /\ UNCHANGED <<saved, noted, said, repo, jobs, restore, cut, stranded>>

-----------------------------------------------------------------------------
(* saveCheckpoint. *)

\* CheckpointTracker.create: the task with its tracker, or, when it failed, with
\* the trouble it left.
Creating(n, left) ==
    {[task[n] EXCEPT !.tracker = TRUE]}
      \cup (IF task[n].tracker THEN {} ELSE {[task[n] EXCEPT !.trouble = left]})

\* saveCheckpoint() after a tool: the checkpoint is said, and committed in the
\* background.
SaveCheckpoint(n) ==
    /\ task[n].pc = "ready" /\ task[n].trouble # "timedout" /\ said < MaxMessages
    /\ Len(task[n].messages) \notin Of(task[n].messages, "checkpoint")
    /\ task[n].tracker \/ task[n].trouble = "none"
    /\ \E t \in Creating(n, "failed") :
         IF t.tracker
           THEN /\ said' = said + 1
                /\ Put(n, Append(t.messages, Said("checkpoint")), [task EXCEPT ![n] = t])
                /\ Begin(n, "background", said + 1)
           ELSE task' = [task EXCEPT ![n] = t] /\ UNCHANGED <<saved, noted, said, jobs>>
    /\ UNCHANGED <<repo, restore, cut, stranded>>

\* attempt_completion: the result is said, and saveCheckpoint(true) awaits the
\* commit.
Complete(n) ==
    /\ task[n].pc = "ready" /\ said < MaxMessages
    /\ said' = said + 1
    /\ \E t \in IF task[n].trouble = "timedout" THEN {task[n]}
                                                ELSE Creating(n, task[n].trouble) :
         LET on == t.tracker /\ t.trouble # "timedout"
         IN  /\ Put(n, Append(t.messages, Said("completion")),
                    [task EXCEPT ![n] = [t EXCEPT !.pc = IF on THEN "saving" ELSE "ready"]])
             /\ IF on THEN Begin(n, "completion", said + 1) ELSE UNCHANGED jobs
    /\ UNCHANGED <<repo, restore, cut, stranded>>

-----------------------------------------------------------------------------
(* The work in the shadow repository: addCheckpointFiles, then a commit or  *)
(* a comparison.                                                            *)

Committing == {"first", "background", "completion"}

At(j, pc) == j.pc = pc /\ UNCHANGED <<restore, cut>>
To(j, k) == jobs' = (jobs \ {j}) \cup {k}
Still == UNCHANGED <<task, saved, noted, said>>

\* Mutant: nested repositories are not renamed.
HideNone(j) ==
    /\ At(j, "hide") /\ Still
    /\ To(j, [j EXCEPT !.pc = "add"])
    /\ UNCHANGED <<hidden, linked, links, stranded>>

\* renameNestedGitRepos(true)
Hide(j) ==
    /\ At(j, "hide") /\ Still
    /\ hidden' = TRUE
    /\ To(j, [j EXCEPT !.pc = "add"])
    /\ UNCHANGED <<linked, links, stranded>>

\* Mutant: the names are put back only if adding succeeded.
AddOrLeave(j) ==
    /\ At(j, "add") /\ Still
    /\ \/ linked' = ~hidden /\ To(j, [j EXCEPT !.pc = "show"])
       \/ UNCHANGED linked /\ To(j, [j EXCEPT !.pc = "commit"])
    /\ UNCHANGED <<hidden, links, stranded>>

\* git add, which may fail.
Add(j) ==
    /\ At(j, "add") /\ Still
    /\ \/ linked' = ~hidden
       \/ UNCHANGED linked
    /\ To(j, [j EXCEPT !.pc = "show"])
    /\ UNCHANGED <<hidden, links, stranded>>

\* The finally of addCheckpointFiles: renameNestedGitRepos(false).
Show(j) ==
    /\ At(j, "show") /\ Still
    /\ hidden' = FALSE /\ stranded' = FALSE
    /\ To(j, [j EXCEPT !.pc = IF j.op \in Committing THEN "commit" ELSE "land"])
    /\ UNCHANGED <<linked, links>>

Commit(j) ==
    /\ At(j, "commit") /\ Still
    /\ links' = IF linked THEN links \cup {j.for} ELSE links
    /\ To(j, [j EXCEPT !.pc = "land"])
    /\ UNCHANGED <<hidden, linked, stranded>>

\* commit() throws: in the background nobody notices, attempt_completion
\* reports the error, and the first request is not made.
CommitFails(j) ==
    /\ At(j, "commit")
    /\ jobs' = jobs \ {j}
    /\ task' = [task EXCEPT ![j.task].pc =
                  CASE j.op = "background" -> @
                    [] j.op = "completion" -> Released(j.task)
                    [] j.op = "first" -> "ended"]
    /\ UNCHANGED <<saved, noted, said, repo, stranded>>

Landing(j, op) == At(j, "land") /\ j.op = op /\ UNCHANGED <<said, repo, stranded>>

\* Mutant: the hash goes to the first checkpoint message instead.
LandBackgroundFirst(j) ==
    /\ Landing(j, "background")
    /\ LET msgs == task[j.task].messages
           at == Of(msgs, "checkpoint")
       IN IF at = {} THEN UNCHANGED <<task, saved, noted>>
          ELSE Put(j.task, [msgs EXCEPT ![Earliest(at)].hash = j.for], task)
    /\ jobs' = jobs \ {j}

\* The commit in the background is made: its hash goes to the last checkpoint
\* message there is.
LandBackground(j) ==
    /\ Landing(j, "background")
    /\ LET msgs == task[j.task].messages
           at == Of(msgs, "checkpoint")
       IN IF at = {} THEN UNCHANGED <<task, saved, noted>>
          ELSE Put(j.task, [msgs EXCEPT ![Latest(at)].hash = j.for], task)
    /\ jobs' = jobs \ {j}

\* The first commit is made: the checkpoint is said with it, unless the task
\* was aborted meanwhile.
LandFirst(j) ==
    /\ Landing(j, "first")
    /\ IF j.task = made
         THEN Put(j.task, Append(task[j.task].messages,
                                 [id |-> j.for, kind |-> "checkpoint", hash |-> j.for]),
                  [task EXCEPT ![j.task].pc = "ready"])
         ELSE task' = [task EXCEPT ![j.task].pc = "ended"] /\ UNCHANGED <<saved, noted>>
    /\ jobs' = jobs \ {j}

\* The commit of a completion is made: the last result gets its hash, and is
\* compared with the completion, or the checkpoint, to start from.
LandCompletion(j) ==
    /\ Landing(j, "completion")
    /\ LET n == j.task
           msgs == task[n].messages
           results == Of(msgs, "completion")
           last == Latest(results)
           marked == [msgs EXCEPT ![last].hash = j.for]
           before == results \ {last}
           base == IF before # {} /\ msgs[Latest(before)].hash # 0
                     THEN msgs[Latest(before)].hash
                     ELSE IF Of(msgs, "checkpoint") = {} THEN 0
                     ELSE msgs[Earliest(Of(msgs, "checkpoint"))].hash
       IN IF results = {}
            THEN /\ task' = [task EXCEPT ![n].pc = Released(n)] /\ UNCHANGED <<saved, noted>>
                 /\ jobs' = jobs \ {j}
          ELSE IF base = 0
            THEN /\ Put(n, marked, [task EXCEPT ![n].pc = Released(n)])
                 /\ jobs' = jobs \ {j}
            ELSE /\ Put(n, marked, task)
                 /\ To(j, [j EXCEPT !.op = "news", !.for = 0, !.pc = "hide"])

\* The comparison is made: a result with changes is flagged and saved.
LandNews(j) ==
    /\ Landing(j, "news")
    /\ task' = [task EXCEPT ![j.task].pc = Released(j.task)]
    /\ Save(j.task) \/ UNCHANGED <<saved, noted>>
    /\ jobs' = jobs \ {j}

JobStep(j) ==
    \/ Hide(j) \/ Add(j) \/ Show(j) \/ Commit(j) \/ CommitFails(j)
    \/ LandBackground(j) \/ LandFirst(j) \/ LandCompletion(j) \/ LandNews(j)

-----------------------------------------------------------------------------
(* The user. *)

\* What a Task object still has under way, aborted or not.
Working(n) == task[n].pc = "starting" \/ task[n].warn \/ \E j \in jobs : j.task = n

\* An aborted task says and does nothing new.
Aborted(t) == [t EXCEPT !.pc = IF @ = "starting" THEN @ ELSE "ended"]

\* cancelTask: a Task object is made from the file.  One with nothing under way
\* is gone when it is replaced, and its number is used again.
Fresh(kept) == IF kept THEN made + 1 ELSE made
Reopen(f) ==
    /\ f <= MaxTasks
    /\ task' = [n \in 1..f |-> IF n = f THEN Opened(saved, noted) ELSE Aborted(task[n])]

Successor == Fresh(Working(made) \/ restore.task = made)

Cancel ==
    /\ Reopen(Successor)
    /\ UNCHANGED <<saved, noted, said, repo, jobs, restore, cut, stranded>>

\* The user answers the restored task, and it goes on.
Resume(n) ==
    /\ task[n].pc = "waiting" /\ restore.task # n
    /\ task' = [task EXCEPT ![n].pc = "ready"]
    /\ UNCHANGED <<saved, noted, said, repo, jobs, restore, cut, stranded>>

\* The extension host dies, and the conversation is opened again.
Crash ==
    /\ task' = <<Opened(saved, noted)>>
    /\ stranded' = hidden /\ jobs' = {} /\ restore' = NoRestore
    /\ UNCHANGED <<saved, noted, said, repo, cut>>

\* checkpointRestore: the task is cancelled, and the new one is taken back to a
\* message, or, when a question is being rewritten, to the one before it.
CheckpointRestore ==
    /\ restore.pc = "none" /\ Reopen(Successor)
    /\ \E kind \in Restores, offset \in {0, 1}, i \in DOMAIN saved :
         /\ i > offset
         /\ restore' = [task |-> Successor, kind |-> kind, at |-> i - offset,
                        reset |-> FALSE, pc |-> IF kind = "task" THEN "cut" ELSE "reset"]
    /\ UNCHANGED <<saved, noted, said, repo, jobs, cut, stranded>>

RestoreStep(pc) ==
    restore.pc = pc /\ UNCHANGED <<said, hidden, links, jobs, stranded>>

Before(msgs, i) == {k \in Hashed(msgs) : k < i}

\* The message's own commit, or else the last one before it.
Target(msgs, i) ==
    IF msgs[i].hash # 0 THEN msgs[i].hash ELSE msgs[Latest(Before(msgs, i))].hash

\* Of the workspace alone, only the flags of its messages are left to be saved.
Onwards(n, reset) ==
    /\ restore' = [restore EXCEPT !.reset = reset,
                       !.pc = IF restore.kind = "workspace" THEN "cancel" ELSE "cut"]
    /\ IF restore.kind = "workspace" THEN Save(n) ELSE UNCHANGED <<saved, noted>>

\* resetHead: the workspace and the index become the commit's.
RestoreReset(n) ==
    /\ RestoreStep("reset")
    /\ task[n].tracker \/ task[n].trouble = "none"
    /\ LET msgs == task[n].messages
       IN  /\ msgs[restore.at].hash # 0 \/ Before(msgs, restore.at) # {}
           /\ linked' = (Target(msgs, restore.at) \in links)
    /\ task' = [task EXCEPT ![n].tracker = TRUE]
    /\ Onwards(n, TRUE)
    /\ UNCHANGED cut

\* Mutant: the restoring goes on although it failed.
RestoreFailsOn(n) ==
    /\ RestoreStep("reset")
    /\ task[n].tracker \/ task[n].trouble = "none"
    /\ UNCHANGED <<task, linked, cut>> /\ Onwards(n, FALSE)

\* The tracker cannot be made or the reset fails, or there is no checkpoint to
\* go back to: the restoring ends.
RestoreFails(n) ==
    /\ RestoreStep("reset")
    /\ task[n].tracker \/ task[n].trouble = "none" \/ Before(task[n].messages, restore.at) = {}
    /\ \E t \in IF task[n].trouble = "none" THEN Creating(n, "failed") ELSE {task[n]} :
         task' = [task EXCEPT ![n] = t]
    /\ restore' = NoRestore
    /\ UNCHANGED <<saved, noted, linked, cut>>

\* There is no tracker, and earlier trouble keeps one from being made: an error
\* is shown, and the restoring goes on.
RestoreSkips(n) ==
    /\ RestoreStep("reset")
    /\ ~task[n].tracker /\ task[n].trouble # "none"
    /\ Before(task[n].messages, restore.at) # {}
    /\ UNCHANGED <<task, linked, cut>> /\ Onwards(n, FALSE)

\* Mutant: the file keeps what memory lost.
RestoreCutUnsaved(n) ==
    /\ RestoreStep("cut")
    /\ LET msgs == task[n].messages
           kept == SubSeq(msgs, 1, Smaller(restore.at, Len(msgs)))
       IN  /\ task' = [task EXCEPT ![n].messages = kept]
           /\ cut' = cut \cup (Ids(msgs) \ Ids(kept))
    /\ restore' = IF n = made THEN [restore EXCEPT !.pc = "cancel"] ELSE NoRestore
    /\ UNCHANGED <<linked, saved, noted>>

\* The messages after the chosen one are cut off, in memory and in the file; then
\* what was cut is said, which an aborted task cannot.
RestoreCut(n) ==
    /\ RestoreStep("cut")
    /\ LET msgs == task[n].messages
           kept == SubSeq(msgs, 1, Smaller(restore.at, Len(msgs)))
       IN  /\ Put(n, kept, task)
           /\ cut' = cut \cup (Ids(msgs) \ Ids(kept))
    /\ restore' = IF n = made THEN [restore EXCEPT !.pc = "cancel"] ELSE NoRestore
    /\ UNCHANGED linked

\* cancelTask makes the Task object that shows them.
RestoreDone ==
    /\ RestoreStep("cancel")
    /\ Reopen(Fresh(Working(made)))
    /\ restore' = NoRestore
    /\ UNCHANGED <<saved, noted, linked, cut>>

AgentStep(n) ==
    \/ Say(n) \/ SaveCheckpoint(n) \/ Complete(n) \/ Resume(n)

TrackerStep(n) ==
    \/ TrackerReady(n) \/ TrackerFails(n) \/ TrackerTimesOut(n) \/ Warned(n)

RestoringStep(n) ==
    \/ RestoreReset(n) \/ RestoreFails(n) \/ RestoreSkips(n) \/ RestoreCut(n) \/ RestoreDone

Next ==
    \/ Cancel \/ CheckpointRestore \/ Crash
    \/ AgentStep(made)
    \/ \E n \in 1..made : TrackerStep(n)
    \/ \E j \in jobs : JobStep(j)
    \/ restore.task # 0 /\ RestoringStep(restore.task)

Spec == Init /\ [][Next]_vars

-----------------------------------------------------------------------------
(* Properties. *)

\* Once the making of the tracker has timed out, no work in the shadow
\* repository is begun for the task again.
TimedOutIsOff == \A j \in jobs : task[j.task].trouble # "timedout"

\* The user's nested repositories lose their .git only while files are being
\* added; whatever fails, they get it back.
NestedComesBack == hidden => stranded \/ \E j \in jobs : j.pc \in {"add", "show"}

\* However commits meet, a message never carries one begun for a later message:
\* taking the workspace back to it never takes it forward.
NeverForward ==
    \A i \in DOMAIN saved : saved[i].hash <= saved[i].id

\* What the user is told to be restored is: a workspace is left as it was only
\* for a task that carries the trouble of a tracker that was slow or failed,
\* maybe a long time ago.
RestoredTogether ==
    restore.pc \in {"cut", "cancel"} /\ restore.kind # "task"
      => restore.reset \/ task[restore.task].trouble # "none"
=============================================================================
