---------------------------- MODULE TaskLifecycle ---------------------------
(***************************************************************************)
(* The Task objects of one Controller (core/controller/index.ts): made by  *)
(* initTask, aborted and dropped by clearTask, cancelled, resumed from the *)
(* task history, deleted.  Every controller call is a coroutine of its     *)
(* own, and nothing makes one wait for another.                            *)
(*                                                                         *)
(* A task's id names its history item and its files; a Task object made    *)
(* from a history item takes over that item's id.                          *)
(***************************************************************************)
EXTENDS Naturals, FiniteSets

CONSTANTS
    UserCalls,      \* slots for calls made by the user interface
    TaskCalls,      \* slots for the calls of tasks whose stream failed
    MaxTasks        \* bound: Task objects ever made

Calls == UserCalls \cup TaskCalls
Tasks == 1..MaxTasks

ASSUME BoundAssumption == MaxTasks \in Nat

VARIABLES
    current,    \* controller.task, 0 for undefined
    made,       \* Task objects made so far
    task,       \* the Task objects
    call,       \* the controller calls
    history,    \* ids in the stored taskHistory
    filed,      \* ids whose api_conversation_history file exists
    deleted     \* history: ids the user has deleted

vars == <<current, made, task, call, history, filed, deleted>>

\* stage: "new" until the first message is saved; "loading" until the first
\* request has its context; "resuming" until the user lets a restored task go
\* on; "running" from the first request on; "ended".
Task == [id : Tasks, aborted : BOOLEAN, abandoned : BOOLEAN, saving : BOOLEAN,
         stage : {"new", "loading", "resuming", "running", "ended"}]

\* id is 0 for a task yet to be given one.
Call == [pc : {"idle", "reporting", "fetching", "waiting", "clearing", "loading"},
         op : {"none", "init", "close", "cancel", "reinit", "delete"},
         id : 0..MaxTasks]

Idle == [pc |-> "idle", op |-> "none", id |-> 0]

TypeOK ==
    /\ current \in 0..made
    /\ made \in 0..MaxTasks
    /\ task \in [1..made -> Task]
    /\ call \in [Calls -> Call]
    /\ {history, filed, deleted} \subseteq SUBSET Tasks

Init ==
    /\ current = 0 /\ made = 0
    /\ task = [n \in {} |-> 0]
    /\ call = [c \in Calls |-> Idle]
    /\ history = {} /\ filed = {} /\ deleted = {}

files == <<history, filed, deleted>>

-----------------------------------------------------------------------------
(* The steps the calls are made of. *)

\* abortTask of the Task object the controller refers to now, if any.
Abort(t) == IF current = 0 THEN t ELSE [t EXCEPT ![current].aborted = TRUE]

\* Mutant: initTask does not clear the task there is.
BeginClearKeeping(c, op, id, t) ==
    /\ task' = t
    /\ call' = [call EXCEPT ![c] = [pc |-> "clearing", op |-> op, id |-> id]]

\* clearTask up to its suspension: the task is aborted, and reverting its open
\* edit is awaited.  Task objects are t but for that.
BeginClear(c, op, id, t) ==
    /\ task' = Abort(t)
    /\ call' = [call EXCEPT ![c] = [pc |-> "clearing", op |-> op, id |-> id]]

\* Mutant: the reference is kept.
ClearedKeeping(c) ==
    /\ call[c].pc = "clearing"
    /\ call' = [call EXCEPT ![c] =
         CASE call[c].op = "init" -> [@ EXCEPT !.pc = "loading"]
           [] call[c].op = "delete" -> [@ EXCEPT !.pc = "fetching"]
           [] call[c].op = "close" -> Idle]
    /\ UNCHANGED <<current, made, task, files>>

\* clearTask resumes: whichever task the controller refers to by now is dropped.
Cleared(c) ==
    /\ call[c].pc = "clearing"
    /\ current' = 0
    /\ call' = [call EXCEPT ![c] =
         CASE call[c].op = "init" -> [@ EXCEPT !.pc = "loading"]
           [] call[c].op = "delete" -> [@ EXCEPT !.pc = "fetching"]
           [] call[c].op = "close" -> Idle]
    /\ UNCHANGED <<made, task, files>>

NewTask(n, id) ==
    IF id = 0
      THEN [id |-> n, aborted |-> FALSE, abandoned |-> FALSE, saving |-> FALSE, stage |-> "new"]
      ELSE [id |-> id, aborted |-> FALSE, abandoned |-> FALSE, saving |-> TRUE, stage |-> "resuming"]

\* Mutant: the Task made is not counted.
LoadedUncounted(c) ==
    /\ call[c].pc = "loading"
    /\ made < MaxTasks /\ made' = made /\ current' = made + 1
    /\ task' = [n \in 1..made + 1 |-> IF n = made + 1 THEN NewTask(n, call[c].id) ELSE task[n]]
    /\ call' = [call EXCEPT ![c] = Idle]
    /\ UNCHANGED files

\* initTask has read the settings: the Task is made and starts by itself.  A
\* restored one first saves its messages.
Loaded(c) ==
    /\ call[c].pc = "loading"
    /\ made < MaxTasks /\ made' = made + 1 /\ current' = made'
    /\ task' = [n \in 1..made' |-> IF n = made' THEN NewTask(n, call[c].id) ELSE task[n]]
    /\ call' = [call EXCEPT ![c] = Idle]
    /\ UNCHANGED files

\* initTask throws: the cache is being rebuilt, or the settings are unreadable.
LoadFails(c) ==
    /\ call[c].pc = "loading"
    /\ call' = [call EXCEPT ![c] = Idle]
    /\ UNCHANGED <<current, made, task, files>>

Found(c) == call[c].id \in history \cap filed

\* getTaskWithId fails: the id is taken out of the history and the call throws.
NotFound(c) ==
    /\ call[c].pc = "fetching" /\ ~Found(c)
    /\ history' = history \ {call[c].id}
    /\ call' = [call EXCEPT ![c] = Idle]
    /\ UNCHANGED <<current, made, task, filed, deleted>>

\* cancelTask has the history item: the current task is aborted, and its
\* stream is given three seconds to end.
FetchedToCancel(c) ==
    /\ call[c].pc = "fetching" /\ call[c].op = "cancel" /\ Found(c)
    /\ task' = Abort(task)
    /\ call' = [call EXCEPT ![c].pc = "waiting"]
    /\ UNCHANGED <<current, made, files>>

\* The wait is over: the current task is marked and replaced by a restored one.
Waited(c) ==
    /\ call[c].pc = "waiting"
    /\ BeginClear(c, "init", call[c].id,
                  IF current = 0 THEN task ELSE [task EXCEPT ![current].abandoned = TRUE])
    /\ UNCHANGED <<current, made, files>>

\* reinitExistingTaskFromId has the history item.
FetchedToReinit(c) ==
    /\ call[c].pc = "fetching" /\ call[c].op = "reinit" /\ Found(c)
    /\ BeginClear(c, "init", call[c].id, task)
    /\ UNCHANGED <<current, made, files>>

\* deleteTaskWithId has the paths: the item and the files are removed.
FetchedToDelete(c) ==
    /\ call[c].pc = "fetching" /\ call[c].op = "delete" /\ Found(c)
    /\ history' = history \ {call[c].id}
    /\ filed' = filed \ {call[c].id}
    /\ deleted' = deleted \cup {call[c].id}
    /\ call' = [call EXCEPT ![c] = Idle]
    /\ UNCHANGED <<current, made, task>>

CallStep(c) ==
    \/ Cleared(c) \/ Loaded(c) \/ LoadFails(c) \/ NotFound(c)
    \/ FetchedToCancel(c) \/ Waited(c) \/ FetchedToReinit(c) \/ FetchedToDelete(c)

-----------------------------------------------------------------------------
(* The user's calls. *)

\* newTask and every command that starts a task (id 0), showTaskWithId: initTask.
InitTask(c) ==
    /\ call[c].pc = "idle"
    /\ \E id \in {0} \cup history : BeginClear(c, "init", id, task)
    /\ UNCHANGED <<current, made, files>>

\* The task is closed: clearTask.
CloseTask(c) ==
    /\ call[c].pc = "idle"
    /\ BeginClear(c, "close", 0, task)
    /\ UNCHANGED <<current, made, files>>

\* cancelTask, checkpointRestore and a switch of mode.
CancelTask(c) ==
    /\ call[c].pc = "idle" /\ current # 0
    /\ call' = [call EXCEPT ![c] = [pc |-> "fetching", op |-> "cancel",
                                    id |-> task[current].id]]
    /\ UNCHANGED <<current, made, task, files>>

\* deleteTasksWithIds, for one id.
DeleteTask(c) ==
    /\ call[c].pc = "idle"
    /\ \E id \in history :
         IF current # 0 /\ task[current].id = id
           THEN BeginClear(c, "delete", id, task)
           ELSE /\ call' = [call EXCEPT ![c] = [pc |-> "fetching", op |-> "delete",
                                                id |-> id]]
                /\ UNCHANGED task
    /\ UNCHANGED <<current, made, files>>

\* resetState: the task is aborted and dropped at once.
ResetState ==
    /\ current # 0 /\ current' = 0
    /\ task' = Abort(task)
    /\ UNCHANGED <<made, call, files>>

-----------------------------------------------------------------------------
(* The tasks. *)

\* say, ask: a message is added, unless the task was aborted, and saved.
SayStart(n) ==
    /\ ~task[n].aborted /\ ~task[n].saving /\ task[n].stage # "ended"
    /\ task' = [task EXCEPT ![n].saving = TRUE]
    /\ UNCHANGED <<current, made, call, files>>

\* Saved: the history item is written.  The task's loop starts after its first
\* message, unless it was aborted.
SayDone(n) ==
    /\ task[n].saving
    /\ history' = history \cup {task[n].id}
    /\ task' = [task EXCEPT ![n].saving = FALSE,
                            ![n].stage = IF @ # "new" THEN @
                                         ELSE IF task[n].aborted THEN "ended" ELSE "loading"]
    /\ UNCHANGED <<current, made, call, filed, deleted>>

\* The first request's context is ready: the conversation file is written,
\* and the request goes out.
ContextReady(n) ==
    /\ task[n].stage = "loading"
    /\ filed' = filed \cup {task[n].id}
    /\ task' = [task EXCEPT ![n].stage = "running"]
    /\ UNCHANGED <<current, made, call, history, deleted>>

\* The user lets a restored task go on; answers go to the current task.
Resume(n) ==
    /\ n = current /\ task[n].stage = "resuming" /\ ~task[n].aborted
    /\ filed' = filed \cup {task[n].id}
    /\ task' = [task EXCEPT ![n].stage = "running"]
    /\ UNCHANGED <<current, made, call, history, deleted>>

\* The stream throws: unless abandoned, the task aborts itself, and means to
\* ask the controller to restore it.
StreamFails(n) ==
    /\ task[n].stage = "running" /\ ~task[n].abandoned
    /\ task' = [task EXCEPT ![n].aborted = TRUE, ![n].stage = "ended"]
    /\ \E c \in TaskCalls :
         /\ call[c].pc = "idle"
         /\ call' = [call EXCEPT ![c] = [pc |-> "reporting", op |-> "reinit",
                                         id |-> task[n].id]]
    /\ UNCHANGED <<current, made, files>>

\* abortStream: what there is of the answer is added to the conversation file,
\* and the messages are saved.
AbortStream(id) ==
    /\ history' = history \cup {id}
    /\ filed' = filed \cup {id}
    /\ UNCHANGED <<current, made, deleted>>

\* abortStream is done with, and reinitExistingTaskFromId is called.
Reported(c) ==
    /\ call[c].pc = "reporting"
    /\ AbortStream(call[c].id)
    /\ call' = [call EXCEPT ![c].pc = "fetching"]
    /\ UNCHANGED task

\* The loop over the stream finds the task aborted and leaves.
StreamAborted(n) ==
    /\ task[n].stage = "running" /\ task[n].aborted
    /\ IF task[n].abandoned THEN UNCHANGED <<current, made, files>> ELSE AbortStream(task[n].id)
    /\ task' = [task EXCEPT ![n].stage = "ended"]
    /\ UNCHANGED call

\* An abandoned task's stream throws: nothing is done about it.
AbandonedFails(n) ==
    /\ task[n].stage = "running" /\ task[n].abandoned
    /\ task' = [task EXCEPT ![n].stage = "ended"]
    /\ UNCHANGED <<current, made, call, files>>

TaskStep(n) ==
    \/ SayStart(n) \/ SayDone(n) \/ ContextReady(n) \/ Resume(n) 
    \/ StreamFails(n) \/ StreamAborted(n) \/ AbandonedFails(n)

Next ==
    \/ \E c \in UserCalls : InitTask(c) \/ CloseTask(c) \/ CancelTask(c) \/ DeleteTask(c)
    \/ ResetState
    \/ \E c \in Calls : CallStep(c) \/ Reported(c)
    \/ \E n \in 1..made : TaskStep(n)

Spec == Init /\ [][Next]_vars

-----------------------------------------------------------------------------
(* Properties. *)

\* An aborted task does not stay on display: as long as the controller refers
\* to it, some call is on its way to drop it.  (A task deleted while its stream
\* fails does stay: restoring it fails.)
AbortedIsReplaced ==
    current # 0 /\ task[current].aborted /\ task[current].id \notin deleted =>
      \E c \in Calls : call[c].pc # "idle"
=============================================================================
