------------------------ MODULE TaskLifecycleProofs -------------------------
(***************************************************************************)
(* Proofs about TaskLifecycle, for any number of overlapping calls.        *)
(*                                                                         *)
(* AbortedIsReplaced says that some call is under way.  What is inductive  *)
(* is which one: a call about to drop the task, or one about to restore    *)
(* it, which will find the task's history item and file.                   *)
(*                                                                         *)
(* LiveIsCurrent is about calls that do not overlap: from the moment one   *)
(* begins to clear until it has made its Task, every task is aborted.      *)
(***************************************************************************)
EXTENDS MCTaskLifecycle, FiniteSetTheorems, TLAPS

\* On its way to `this.task = undefined`, whatever it does then.
Dropping(c) == call[c].pc \in {"waiting", "clearing"}

\* On its way to restore id after its stream failed.
Restoring(c, id) ==
    call[c].op = "reinit" /\ call[c].pc \in {"reporting", "fetching"} /\ call[c].id = id

Replaced ==
    current # 0 /\ task[current].aborted /\ task[current].id \notin deleted =>
      \E c \in Calls : Dropping(c) \/ Restoring(c, task[current].id)

\* A call that restores finds what it looks for, unless the user deleted it.
RestoreFinds ==
    \A c \in Calls : call[c].op = "reinit" /\ call[c].pc = "fetching" =>
      call[c].id \in (history \cap filed) \cup deleted

\* Which calls clear, and that a failed task knows its id.
Shaped(r) ==
    /\ r.pc = "clearing" => r.op \in {"init", "close", "delete"}
    /\ r.pc = "reporting" => r.id # 0

CallShapes == \A c \in Calls : Shaped(call[c])

Typed == TypeOK /\ CallShapes

Inv == Typed /\ Replaced /\ RestoreFinds

-----------------------------------------------------------------------------
(* Types. *)

\* abortTask changes no type.
LEMMA AbortTyped ==
    ASSUME TypeOK, NEW t \in [1..made -> Task]
    PROVE  Abort(t) \in [1..made -> Task]
  <1>1. CASE current = 0  BY <1>1 DEF Abort
  <1>2. CASE current # 0
    <2>1. current \in 1..made  BY <1>2, BoundAssumption DEF TypeOK
    <2>2. t[current] \in Task  BY <2>1
    <2>3. [t[current] EXCEPT !.aborted = TRUE] \in Task  BY <2>2 DEF Task
    <2>4. Abort(t) = [t EXCEPT ![current] = [t[current] EXCEPT !.aborted = TRUE]]
      BY <1>2 DEF Abort
    <2> QED  BY <2>1, <2>3, <2>4
  <1> QED  BY <1>1, <1>2

\* A Task made by initTask is a Task.
LEMMA NewTaskTyped ==
    ASSUME NEW n \in Tasks, NEW id \in 0..MaxTasks
    PROVE  NewTask(n, id) \in Task
  BY BoundAssumption DEF NewTask, Task, Tasks

\* clearTask keeps the types up to its suspension.
LEMMA BeginClearTyped ==
    ASSUME Typed, NEW c \in Calls, NEW op \in {"init", "close", "delete"},
           NEW id \in 0..MaxTasks, NEW t \in [1..made -> Task],
           BeginClear(c, op, id, t), UNCHANGED <<current, made, files>>
    PROVE  Typed'
<1>1. task' \in [1..made -> Task]
  BY AbortTyped DEF BeginClear, Typed
<1>2. [pc |-> "clearing", op |-> op, id |-> id] \in Call
  BY BoundAssumption DEF Call
<1>3. QED
  BY <1>1, <1>2 DEF BeginClear, Typed, TypeOK, CallShapes, Shaped, files

\* A call that is over is a call.
LEMMA IdleTyped == Idle \in Call /\ Idle.pc = "idle" /\ Idle.op = "none"
  BY BoundAssumption DEF Idle, Call

\* What a step that only moves the calls, and the files, has to establish.
LEMMA CallTyped ==
    ASSUME Typed, NEW c \in Calls, NEW r \in Call,
           Shaped(r),
           call' = [call EXCEPT ![c] = r],
           UNCHANGED <<current, made>>, task' \in [1..made -> Task],
           history' \subseteq Tasks, filed' \subseteq Tasks, deleted' \subseteq Tasks
    PROVE  Typed'
  BY DEF Typed, TypeOK, CallShapes

\* The steps of a call keep the types and the shapes of the calls.
LEMMA CallStepTyped ==
    ASSUME Typed, NEW c \in Calls, CallStep(c) \/ Reported(c)
    PROVE  Typed'
<1> USE DEF files, Shaped
<1>0. /\ task \in [1..made -> Task] /\ call[c] \in Call
      /\ history \subseteq Tasks /\ filed \subseteq Tasks /\ deleted \subseteq Tasks
  BY DEF Typed, TypeOK
<1>1. CASE Cleared(c)
  <2>1. call[c].op \in {"init", "close", "delete"}
    BY <1>1 DEF Cleared, Typed, CallShapes, Shaped
  <2>2. \A r \in Call : [r EXCEPT !.pc = "loading"] \in Call /\ [r EXCEPT !.pc = "fetching"] \in Call
    BY DEF Call
  <2>3. PICK r \in Call : r.pc \notin {"clearing", "reporting"} /\ call' = [call EXCEPT ![c] = r]
    <3>1. CASE call[c].op = "init"
      <4>1. call' = [call EXCEPT ![c] = [call[c] EXCEPT !.pc = "loading"]]
        BY <1>1, <3>1 DEF Cleared
      <4>2. QED
        BY <4>1, <1>0, <2>2 DEF Call
    <3>2. CASE call[c].op = "delete"
      <4>1. call' = [call EXCEPT ![c] = [call[c] EXCEPT !.pc = "fetching"]]
        BY <1>1, <3>2 DEF Cleared
      <4>2. QED
        BY <4>1, <1>0, <2>2 DEF Call
    <3>3. CASE call[c].op = "close"
      <4>1. call' = [call EXCEPT ![c] = Idle]
        BY <1>1, <3>3 DEF Cleared
      <4>2. QED
        BY <4>1, IdleTyped
    <3>4. QED
      BY <2>1, <3>1, <3>2, <3>3
  <2>4. QED
    BY <1>1, <1>0, <2>3 DEF Cleared, Typed, TypeOK, CallShapes
<1>2. CASE Loaded(c)
  <2>1. made' \in Tasks /\ made' = made + 1 /\ call[c].id \in 0..MaxTasks
    BY <1>2, <1>0, BoundAssumption DEF Loaded, Typed, TypeOK, Tasks, Call
  <2>2. NewTask(made', call[c].id) \in Task
    BY <2>1, NewTaskTyped
  <2>3. task' \in [1..made' -> Task]
    <3>1. \A n \in 1..made' : n # made' => n \in 1..made
      BY <2>1 DEF Typed, TypeOK
    <3>2. QED
      BY <3>1, <2>2, <1>0, <1>2 DEF Loaded
  <2>4. QED
    BY <2>1, <2>3, <1>2, <1>0, IdleTyped, BoundAssumption DEF Loaded, Typed, TypeOK, CallShapes, Tasks
<1>3. CASE LoadFails(c)
  BY <1>3, <1>0, IdleTyped, CallTyped DEF LoadFails
<1>4. CASE NotFound(c)
  <2>1. history' \subseteq Tasks
    BY <1>4, <1>0 DEF NotFound
  <2>2. QED
    BY <1>4, <1>0, <2>1, IdleTyped, CallTyped DEF NotFound
<1>5. CASE FetchedToCancel(c)
  <2>1. task' \in [1..made -> Task]
    BY <1>5, <1>0, AbortTyped DEF FetchedToCancel, Typed
  <2>2. [call[c] EXCEPT !.pc = "waiting"] \in Call /\ [call[c] EXCEPT !.pc = "waiting"].pc = "waiting"
    BY <1>0 DEF Call
  <2>3. call' = [call EXCEPT ![c] = [call[c] EXCEPT !.pc = "waiting"]]
    BY <1>5 DEF FetchedToCancel
  <2>4. QED
    BY <1>5, <1>0, <2>1, <2>2, <2>3, CallTyped DEF FetchedToCancel
<1>6. CASE Waited(c)
  <2>1. call[c].id \in 0..MaxTasks
    BY <1>0 DEF Call
  <2>2. (IF current = 0 THEN task ELSE [task EXCEPT ![current].abandoned = TRUE]) \in [1..made -> Task]
    <3>1. CASE current = 0  BY <3>1, <1>0 DEF Typed, TypeOK
    <3>2. CASE current # 0
      <4>1. current \in 1..made /\ task \in [1..made -> Task]
        BY <3>2, <1>0, BoundAssumption DEF Typed, TypeOK
      <4>2. [task[current] EXCEPT !.abandoned = TRUE] \in Task  BY <4>1 DEF Task
      <4>3. [task EXCEPT ![current].abandoned = TRUE]
              = [task EXCEPT ![current] = [task[current] EXCEPT !.abandoned = TRUE]]
        OBVIOUS
      <4>4. [task EXCEPT ![current].abandoned = TRUE] \in [1..made -> Task]
        BY <4>1, <4>2, <4>3
      <4> QED  BY <3>2, <4>4
    <3> QED  BY <3>1, <3>2
  <2>3. QED
    BY <1>6, <2>1, <2>2, BeginClearTyped DEF Waited
<1>7. CASE FetchedToReinit(c)
  <2>1. call[c].id \in 0..MaxTasks
    BY <1>0 DEF Call
  <2>2. QED
    BY <1>7, <1>0, <2>1, BeginClearTyped DEF FetchedToReinit
<1>8. CASE FetchedToDelete(c)
  <2>1. call[c].id \in Tasks
    BY <1>8, <1>0 DEF FetchedToDelete, Found
  <2>2. QED
    BY <1>8, <1>0, <2>1, IdleTyped, CallTyped DEF FetchedToDelete
<1>9. CASE Reported(c)
  <2>1. call[c].id \in Tasks
    BY <1>9, <1>0 DEF Reported, Typed, CallShapes, Call, Tasks
  <2>2. [call[c] EXCEPT !.pc = "fetching"] \in Call /\ [call[c] EXCEPT !.pc = "fetching"].pc = "fetching"
    BY <1>0 DEF Call
  <2>3. call' = [call EXCEPT ![c] = [call[c] EXCEPT !.pc = "fetching"]]
    BY <1>9 DEF Reported
  <2>4. QED
    BY <1>9, <1>0, <2>1, <2>2, <2>3, CallTyped DEF Reported, AbortStream
<1>10. QED
  BY <1>1, <1>2, <1>3, <1>4, <1>5, <1>6, <1>7, <1>8, <1>9 DEF CallStep

\* So do the steps of a task,
LEMMA TaskStepTyped ==
    ASSUME Typed, NEW n \in 1..made, TaskStep(n)
    PROVE  Typed'
<1> USE DEF files
<1>0. /\ task \in [1..made -> Task] /\ task[n] \in Task /\ task[n].id \in Tasks
      /\ call \in [Calls -> Call] /\ current \in 0..made /\ made \in 0..MaxTasks
      /\ history \subseteq Tasks /\ filed \subseteq Tasks /\ deleted \subseteq Tasks
  BY DEF Typed, TypeOK, Task
<1>1. ASSUME task' \in [1..made -> Task], UNCHANGED <<current, made, call>>,
             history' \subseteq Tasks, filed' \subseteq Tasks, deleted' \subseteq Tasks
      PROVE  Typed'
  BY <1>1, <1>0 DEF Typed, TypeOK, CallShapes, Shaped
<1>2. \A r \in Task :
        /\ \A v \in BOOLEAN : [r EXCEPT !.saving = v] \in Task /\ [r EXCEPT !.aborted = v] \in Task
        /\ \A g \in {"ended", "loading", "running", "new", "resuming"} :
             /\ [r EXCEPT !.stage = g] \in Task
             /\ [r EXCEPT !.saving = FALSE, !.stage = g] \in Task
             /\ [r EXCEPT !.aborted = TRUE, !.stage = g] \in Task
  BY DEF Task
<1>3. CASE SayStart(n)
  <2>1. task' \in [1..made -> Task]
    BY <1>3, <1>0, <1>2 DEF SayStart
  <2>2. QED
    BY <1>3, <1>0, <1>1, <2>1 DEF SayStart
<1>4. CASE SayDone(n)
  <2>1. PICK g \in {"ended", "loading", "running", "new", "resuming"} :
          task' = [task EXCEPT ![n] = [task[n] EXCEPT !.saving = FALSE, !.stage = g]]
    <3>1. CASE task[n].stage # "new"
      <4>1. task' = [task EXCEPT ![n] = [task[n] EXCEPT !.saving = FALSE, !.stage = task[n].stage]]
        BY <1>4, <3>1 DEF SayDone
      <4>2. QED
        BY <4>1, <1>0 DEF Task
    <3>2. CASE task[n].stage = "new"
      BY <1>4, <3>2 DEF SayDone
    <3>3. QED
      BY <3>1, <3>2
  <2>2. task' \in [1..made -> Task]
    BY <2>1, <1>0, <1>2
  <2>3. QED
    BY <1>4, <1>0, <1>1, <2>2 DEF SayDone
<1>5. CASE ContextReady(n)
  <2>1. task' \in [1..made -> Task]
    BY <1>5, <1>0, <1>2 DEF ContextReady
  <2>2. QED
    BY <1>5, <1>0, <1>1, <2>1 DEF ContextReady
<1>6. CASE Resume(n)
  <2>1. task' \in [1..made -> Task]
    BY <1>6, <1>0, <1>2 DEF Resume
  <2>2. QED
    BY <1>6, <1>0, <1>1, <2>1 DEF Resume
<1>7. CASE StreamFails(n)
  <2>1. task' \in [1..made -> Task]
    BY <1>7, <1>0, <1>2 DEF StreamFails
  <2>2. PICK c \in TaskCalls :
          call' = [call EXCEPT ![c] = [pc |-> "reporting", op |-> "reinit",
                                       id |-> task[n].id]]
    BY <1>7 DEF StreamFails
  <2>3. /\ c \in Calls
        /\ [pc |-> "reporting", op |-> "reinit", id |-> task[n].id] \in Call
        /\ task[n].id # 0
    BY <1>0, BoundAssumption DEF Calls, Call, Tasks
  <2>4. QED
    BY <1>7, <1>0, <2>1, <2>2, <2>3, CallTyped DEF StreamFails, Shaped
<1>8. CASE StreamAborted(n)
  <2>1. task' \in [1..made -> Task]
    BY <1>8, <1>0, <1>2 DEF StreamAborted
  <2>2. QED
    BY <1>8, <1>0, <1>1, <2>1 DEF StreamAborted, AbortStream
<1>9. CASE AbandonedFails(n)
  <2>1. task' \in [1..made -> Task]
    BY <1>9, <1>0, <1>2 DEF AbandonedFails
  <2>2. QED
    BY <1>9, <1>0, <1>1, <2>1 DEF AbandonedFails
<1>10. QED
  BY <1>3, <1>4, <1>5, <1>6, <1>7, <1>8, <1>9 DEF TaskStep

\* and the calls the user starts.
LEMMA UserCallTyped ==
    ASSUME Typed, NEW c \in UserCalls,
           InitTask(c) \/ CloseTask(c) \/ CancelTask(c) \/ DeleteTask(c)
    PROVE  Typed'
<1> USE DEF files
<1>0. /\ c \in Calls /\ task \in [1..made -> Task]
      /\ history \subseteq Tasks /\ filed \subseteq Tasks /\ deleted \subseteq Tasks
      /\ 0 \in 0..MaxTasks /\ Tasks \subseteq 0..MaxTasks
  BY BoundAssumption DEF Typed, TypeOK, Calls, Tasks
<1>1. CASE InitTask(c)
  <2>1. PICK id \in 0..MaxTasks : BeginClear(c, "init", id, task)
    BY <1>1, <1>0 DEF InitTask
  <2>2. QED
    BY <1>1, <1>0, <2>1, BeginClearTyped DEF InitTask
<1>2. CASE CloseTask(c)
  BY <1>2, <1>0, BeginClearTyped DEF CloseTask
<1>3. CASE CancelTask(c)
  <2>1. [pc |-> "fetching", op |-> "cancel", id |-> task[current].id] \in Call
    <3>1. current \in 1..made /\ current \in 0..MaxTasks
      BY <1>3, BoundAssumption DEF CancelTask, Typed, TypeOK
    <3>2. task[current].id \in 0..MaxTasks
      BY <3>1, <1>0 DEF Task
    <3>3. QED
      BY <3>1, <3>2 DEF Call
  <2>2. QED
    BY <1>3, <1>0, <2>1, CallTyped DEF CancelTask, Shaped
<1>4. CASE DeleteTask(c)
  <2>1. PICK id \in history :
          \/ BeginClear(c, "delete", id, task)
          \/ /\ call' = [call EXCEPT ![c] = [pc |-> "fetching", op |-> "delete", id |-> id]]
             /\ UNCHANGED task
    BY <1>4 DEF DeleteTask
  <2>2. CASE BeginClear(c, "delete", id, task)
    BY <1>4, <1>0, <2>1, <2>2, BeginClearTyped DEF DeleteTask
  <2>3. CASE /\ call' = [call EXCEPT ![c] = [pc |-> "fetching", op |-> "delete", id |-> id]]
             /\ UNCHANGED task
    <3>1. [pc |-> "fetching", op |-> "delete", id |-> id] \in Call
      BY <1>0, <2>1 DEF Call
    <3>2. QED
      BY <1>4, <1>0, <2>3, <3>1, CallTyped DEF DeleteTask, Shaped
  <2>4. QED
    BY <2>1, <2>2, <2>3
<1>5. QED
  BY <1>1, <1>2, <1>3, <1>4

\* Every step keeps the types.
LEMMA TypedStep == Typed /\ [Next]_vars => Typed'
<1> SUFFICES ASSUME Typed, [Next]_vars PROVE Typed'
  OBVIOUS
<1>1. CASE ResetState
  <2>1. task' \in [1..made -> Task]
    BY <1>1, AbortTyped DEF ResetState, Typed, TypeOK
  <2>2. QED
    BY <1>1, <2>1 DEF ResetState, Typed, TypeOK, CallShapes, Shaped, files
<1>2. CASE UNCHANGED vars
  BY <1>2 DEF vars, Typed, TypeOK, CallShapes, Shaped
<1>3. QED
  BY <1>1, <1>2, UserCallTyped, CallStepTyped, TaskStepTyped DEF Next

-----------------------------------------------------------------------------
(* What a restoring call looks for stays in place. *)

\* Only a deletion takes away what a restoring call is about to look up.
LEMMA RestoreFindsStep == Typed /\ RestoreFinds /\ [Next]_vars => RestoreFinds'
<1> SUFFICES ASSUME Typed, RestoreFinds, [Next]_vars,
                    NEW d \in Calls, call'[d].op = "reinit", call'[d].pc = "fetching"
             PROVE  call'[d].id \in (history' \cap filed') \cup deleted'
  BY DEF RestoreFinds
<1> DEFINE Same == call'[d] = call[d]
<1> USE DEF files
<1>0. call \in [Calls -> Call]
  BY DEF Typed, TypeOK
<1>1. ASSUME Same, history \subseteq history', filed \subseteq filed', deleted \subseteq deleted'
      PROVE  call'[d].id \in (history' \cap filed') \cup deleted'
  BY <1>1 DEF RestoreFinds
<1>2. ASSUME NEW c \in UserCalls, InitTask(c) \/ CloseTask(c) \/ CancelTask(c) \/ DeleteTask(c)
      PROVE  call'[d].id \in (history' \cap filed') \cup deleted'
  <2>1. c \in Calls /\ UNCHANGED files
    BY <1>2 DEF Calls, InitTask, CloseTask, CancelTask, DeleteTask
  <2>2. c # d
    BY <1>2, <1>0, <2>1 DEF InitTask, CloseTask, CancelTask, DeleteTask, BeginClear
  <2>3. Same
    BY <1>2, <1>0, <2>1, <2>2 DEF InitTask, CloseTask, CancelTask, DeleteTask, BeginClear
  <2>4. QED
    BY <1>1, <2>1, <2>3
<1>3. ASSUME NEW c \in Calls, CallStep(c) \/ Reported(c)
      PROVE  call'[d].id \in (history' \cap filed') \cup deleted'
  <2>1. CASE Cleared(c)
    <3>1. c # d
      <4>1. SUFFICES ASSUME c = d PROVE FALSE
        OBVIOUS
      <4>2. call[c].op \in {"init", "close", "delete"}
        BY <2>1 DEF Cleared, Typed, CallShapes, Shaped
      <4>3. call'[c].op \in {"init", "none", "delete"}
        BY <2>1, <1>0, <4>2 DEF Cleared, Idle, Call
      <4>4. QED
        BY <4>1, <4>3
    <3>2. QED
      BY <2>1, <1>0, <1>1, <3>1 DEF Cleared
  <2>2. CASE Loaded(c)
    <3>1. c # d
      BY <2>2, <1>0 DEF Loaded, Idle
    <3>2. QED
      BY <2>2, <1>0, <1>1, <3>1 DEF Loaded
  <2>3. CASE LoadFails(c)
    <3>1. c # d
      BY <2>3, <1>0 DEF LoadFails, Idle
    <3>2. QED
      BY <2>3, <1>0, <1>1, <3>1 DEF LoadFails
  <2>4. CASE NotFound(c)
    <3>1. c # d
      BY <2>4, <1>0 DEF NotFound, Idle
    <3>2. Same
      BY <2>4, <1>0, <3>1 DEF NotFound
    <3>3. call[d].id \in (history \cap filed) \cup deleted
      BY <3>2 DEF RestoreFinds
    <3>4. call[d].id \in history \cap filed => call[d].id # call[c].id
      BY <2>4 DEF NotFound, Found
    <3>5. QED
      BY <2>4, <3>2, <3>3, <3>4 DEF NotFound
  <2>5. CASE FetchedToCancel(c)
    <3>1. c # d
      BY <2>5, <1>0 DEF FetchedToCancel, Call
    <3>2. QED
      BY <2>5, <1>0, <1>1, <3>1 DEF FetchedToCancel
  <2>6. CASE Waited(c)
    <3>1. c # d
      BY <2>6, <1>0 DEF Waited, BeginClear
    <3>2. QED
      BY <2>6, <1>0, <1>1, <3>1 DEF Waited, BeginClear
  <2>7. CASE FetchedToReinit(c)
    <3>1. c # d
      BY <2>7, <1>0 DEF FetchedToReinit, BeginClear
    <3>2. QED
      BY <2>7, <1>0, <1>1, <3>1 DEF FetchedToReinit, BeginClear
  <2>8. CASE FetchedToDelete(c)
    <3>1. c # d
      BY <2>8, <1>0 DEF FetchedToDelete, Idle
    <3>2. Same
      BY <2>8, <1>0, <3>1 DEF FetchedToDelete
    <3>3. call[d].id \in (history \cap filed) \cup deleted
      BY <3>2 DEF RestoreFinds
    <3>4. QED
      BY <2>8, <3>2, <3>3 DEF FetchedToDelete
  <2>9. CASE Reported(c)
    <3>1. CASE c = d
      <4>1. call'[d].id = call[c].id
        BY <2>9, <1>0, <3>1 DEF Reported, Call
      <4>2. QED
        BY <2>9, <4>1 DEF Reported, AbortStream
    <3>2. CASE c # d
      BY <2>9, <1>0, <1>1, <3>2 DEF Reported, AbortStream
    <3>3. QED
      BY <3>1, <3>2
  <2>10. QED
    BY <1>3, <2>1, <2>2, <2>3, <2>4, <2>5, <2>6, <2>7, <2>8, <2>9 DEF CallStep
<1>4. ASSUME NEW n \in 1..made, TaskStep(n)
      PROVE  call'[d].id \in (history' \cap filed') \cup deleted'
  <2>1. history \subseteq history' /\ filed \subseteq filed' /\ deleted \subseteq deleted'
    BY <1>4 DEF TaskStep, SayStart, SayDone, ContextReady, Resume, StreamFails, StreamAborted,
                AbandonedFails, AbortStream
  <2>2. Same
    <3>1. CASE StreamFails(n)
      <4>1. PICK c \in TaskCalls :
              call' = [call EXCEPT ![c] = [pc |-> "reporting", op |-> "reinit",
                                           id |-> task[n].id]]
        BY <3>1 DEF StreamFails
      <4>2. QED
        BY <4>1, <1>0 DEF Calls
    <3>2. CASE ~StreamFails(n)
      BY <1>4, <3>2 DEF TaskStep, SayStart, SayDone, ContextReady, Resume, StreamAborted,
                        AbandonedFails, AbortStream
    <3>3. QED
      BY <3>1, <3>2
  <2>3. QED
    BY <1>1, <2>1, <2>2
<1>5. CASE ResetState
  BY <1>5, <1>1 DEF ResetState
<1>6. CASE UNCHANGED vars
  BY <1>6, <1>1 DEF vars
<1>7. QED
  BY <1>2, <1>3, <1>4, <1>5, <1>6 DEF Next

-----------------------------------------------------------------------------
(* An aborted task on display has its call. *)

\* The call that was on its way before the step still is: c, which may change,
\* is another one, and the task it is for is as it was.
LEMMA StillOnItsWay ==
    ASSUME Replaced, NEW c \in Calls,
           \A e \in Calls \ {c} : call'[e] = call[e],
           call'[c] = call[c] \/ (~Dropping(c) /\ ~Restoring(c, task[current].id)),
           current' = current, deleted \subseteq deleted',
           current # 0 => /\ task'[current].aborted = task[current].aborted
                          /\ task'[current].id = task[current].id
    PROVE  Replaced'
<1> SUFFICES ASSUME current' # 0, task'[current'].aborted, task'[current'].id \notin deleted'
             PROVE  \E d \in Calls : Dropping(d)' \/ Restoring(d, task[current].id)'
  BY DEF Replaced, Restoring
<1>1. PICK e \in Calls : Dropping(e) \/ Restoring(e, task[current].id)
  BY DEF Replaced
<1>2. call'[e] = call[e]
  BY <1>1
<1>3. task'[current'].id = task[current].id
  OBVIOUS
<1>4. QED
  BY <1>1, <1>2, <1>3 DEF Dropping, Restoring

\* A call that begins to clear, or to wait, is on its way to drop the task.
LEMMA NowDropping ==
    ASSUME NEW c \in Calls, call'[c].pc \in {"waiting", "clearing"}
    PROVE  Replaced'
  BY DEF Replaced, Dropping

\* The steps of a call: one that ends has dropped the task.
LEMMA ReplacedCallStep ==
    ASSUME Typed, Replaced, RestoreFinds, NEW c \in Calls, CallStep(c) \/ Reported(c)
    PROVE  Replaced'
<1> USE DEF files
<1>0. call \in [Calls -> Call] /\ call[c] \in Call
  BY DEF Typed, TypeOK
<1>1. CASE Cleared(c)
  BY <1>1 DEF Cleared, Replaced
<1>2. CASE Loaded(c)
  <2>1. current' = made' /\ made' \in 1..made' /\ task'[made'] = NewTask(made', call[c].id)
    BY <1>2 DEF Loaded, Typed, TypeOK
  <2>2. ~task'[current'].aborted
    BY <2>1 DEF NewTask
  <2>3. QED
    BY <2>2 DEF Replaced
<1>3. CASE LoadFails(c)
  <2>1. ~Dropping(c) /\ ~Restoring(c, task[current].id)
    BY <1>3 DEF LoadFails, Dropping, Restoring
  <2>2. \A e \in Calls \ {c} : call'[e] = call[e]
    BY <1>3, <1>0 DEF LoadFails
  <2>3. QED
    BY <1>3, <2>1, <2>2, StillOnItsWay DEF LoadFails
<1>4. CASE NotFound(c)
  <2>0. \A e \in Calls \ {c} : call'[e] = call[e]
    BY <1>4, <1>0 DEF NotFound
  <2>1. CASE Restoring(c, task[current].id)
    <3>1. task[current].id \in deleted
      BY <1>4, <2>1 DEF Restoring, NotFound, Found, RestoreFinds
    <3>2. QED
      BY <1>4, <3>1 DEF NotFound, Replaced
  <2>2. CASE ~Restoring(c, task[current].id)
    <3>1. ~Dropping(c)
      BY <1>4 DEF NotFound, Dropping
    <3>2. QED
      BY <1>4, <2>0, <2>2, <3>1, StillOnItsWay DEF NotFound
  <2>3. QED
    BY <2>1, <2>2
<1>5. CASE FetchedToCancel(c)
  BY <1>5, <1>0, NowDropping DEF FetchedToCancel, Call
<1>6. CASE Waited(c)
  BY <1>6, <1>0, NowDropping DEF Waited, BeginClear
<1>7. CASE FetchedToReinit(c)
  BY <1>7, <1>0, NowDropping DEF FetchedToReinit, BeginClear
<1>8. CASE FetchedToDelete(c)
  <2>1. ~Dropping(c) /\ ~Restoring(c, task[current].id)
    BY <1>8 DEF FetchedToDelete, Dropping, Restoring
  <2>2. \A e \in Calls \ {c} : call'[e] = call[e]
    BY <1>8, <1>0 DEF FetchedToDelete
  <2>3. QED
    BY <1>8, <2>1, <2>2, StillOnItsWay DEF FetchedToDelete
<1>9. CASE Reported(c)
  <2>0. /\ \A e \in Calls \ {c} : call'[e] = call[e]
        /\ call'[c].pc = "fetching" /\ call'[c].id = call[c].id /\ call'[c].op = call[c].op
    BY <1>9, <1>0 DEF Reported, Call
  <2>1. CASE Restoring(c, task[current].id)
    <3>1. Restoring(c, task[current].id)'
      BY <1>9, <2>0, <2>1 DEF Restoring, Reported, AbortStream
    <3>2. QED
      BY <3>1 DEF Replaced
  <2>2. CASE ~Restoring(c, task[current].id)
    <3>1. ~Dropping(c)
      BY <1>9 DEF Reported, Dropping
    <3>2. QED
      BY <1>9, <2>0, <2>2, <3>1, StillOnItsWay DEF Reported, AbortStream
  <2>3. QED
    BY <2>1, <2>2
<1>10. QED
  BY <1>1, <1>2, <1>3, <1>4, <1>5, <1>6, <1>7, <1>8, <1>9 DEF CallStep

\* A call of the user aborts a task only when it goes on to drop it.
LEMMA ReplacedUserCall ==
    ASSUME Typed, Replaced, NEW c \in UserCalls,
           InitTask(c) \/ CloseTask(c) \/ CancelTask(c) \/ DeleteTask(c)
    PROVE  Replaced'
<1> USE DEF files
<1>0. call \in [Calls -> Call] /\ c \in Calls /\ call[c].pc = "idle"
  BY DEF Typed, TypeOK, Calls, InitTask, CloseTask, CancelTask, DeleteTask
<1>1. CASE call'[c].pc = "clearing"
  BY <1>0, <1>1, NowDropping
<1>2. CASE call'[c].pc # "clearing"
  <2>1. \A e \in Calls \ {c} : call'[e] = call[e]
    BY <1>0 DEF InitTask, CloseTask, CancelTask, DeleteTask, BeginClear
  <2>2. UNCHANGED <<current, task, deleted>>
    BY <1>0, <1>2 DEF InitTask, CloseTask, CancelTask, DeleteTask, BeginClear
  <2>3. ~Dropping(c) /\ ~Restoring(c, task[current].id)
    BY <1>0 DEF Dropping, Restoring
  <2>4. QED
    BY <1>0, <2>1, <2>2, <2>3, StillOnItsWay
<1>3. QED
  BY <1>1, <1>2

\* A task that aborts itself has a call on its way.
LEMMA ReplacedTaskStep ==
    ASSUME Typed, Replaced, NEW n \in 1..made, TaskStep(n)
    PROVE  Replaced'
<1> USE DEF files
<1>0. /\ call \in [Calls -> Call] /\ task \in [1..made -> Task]
      /\ current # 0 => current \in 1..made
  BY DEF Typed, TypeOK
<1>1. CASE StreamFails(n)
  <2>1. PICK c \in TaskCalls :
          /\ call[c].pc = "idle"
          /\ call' = [call EXCEPT ![c] = [pc |-> "reporting", op |-> "reinit",
                                          id |-> task[n].id]]
    BY <1>1 DEF StreamFails
  <2>2. /\ c \in Calls /\ \A e \in Calls \ {c} : call'[e] = call[e]
        /\ Restoring(c, task[n].id)'
    BY <1>0, <1>1, <2>1 DEF Calls, Restoring, StreamFails
  <2>3. \A m \in 1..made : task'[m].id = task[m].id /\ (m # n => task'[m] = task[m])
    BY <1>0, <1>1 DEF StreamFails, Task
  <2>4. CASE n = current
    <3>1. Restoring(c, task[current].id)'
      BY <1>1, <2>1, <2>2, <2>3, <2>4 DEF Restoring, StreamFails
    <3>2. QED
      BY <2>2, <3>1 DEF Replaced
  <2>5. CASE n # current
    <3>1. ~Dropping(c) /\ ~Restoring(c, task[current].id)
      BY <2>1 DEF Dropping, Restoring
    <3>2. QED
      BY <1>0, <1>1, <2>2, <2>3, <2>5, <3>1, StillOnItsWay DEF StreamFails
  <2>6. QED
    BY <2>4, <2>5
<1>2. CASE ~StreamFails(n)
  <2>1. UNCHANGED <<current, call, deleted>>
    BY <1>2 DEF TaskStep, SayStart, SayDone, ContextReady, Resume, StreamAborted,
                AbandonedFails, AbortStream
  <2>2. task[n] \in Task
    BY <1>0
  <2>3. PICK b \in BOOLEAN, g \in {"new", "loading", "resuming", "running", "ended"} :
          task' = [task EXCEPT ![n] = [task[n] EXCEPT !.saving = b, !.stage = g]]
    <3>1. CASE SayStart(n)
      <4>1. task' = [task EXCEPT ![n] = [task[n] EXCEPT !.saving = TRUE, !.stage = task[n].stage]]
        BY <2>2, <3>1 DEF SayStart, Task
      <4>2. QED
        BY <2>2, <4>1 DEF Task
    <3>2. CASE SayDone(n) /\ task[n].stage # "new"
      <4>1. task' = [task EXCEPT ![n] = [task[n] EXCEPT !.saving = FALSE, !.stage = task[n].stage]]
        BY <3>2 DEF SayDone
      <4>2. QED
        BY <2>2, <4>1 DEF Task
    <3>3. CASE SayDone(n) /\ task[n].stage = "new"
      BY <3>3 DEF SayDone
    <3>4. ASSUME NEW g \in {"running", "ended"}, task' = [task EXCEPT ![n].stage = g]
          PROVE  task' = [task EXCEPT ![n] = [task[n] EXCEPT !.saving = task[n].saving, !.stage = g]]
      BY <2>2, <3>4 DEF Task
    <3>5. task[n].saving \in BOOLEAN
      BY <2>2 DEF Task
    <3>6. QED
      BY <1>2, <3>1, <3>2, <3>3, <3>4, <3>5
         DEF TaskStep, ContextReady, Resume, StreamAborted, AbandonedFails
  <2>4. \A m \in 1..made : task'[m].id = task[m].id /\ task'[m].aborted = task[m].aborted
    BY <1>0, <2>2, <2>3 DEF Task
  <2>5. CASE current = 0
    BY <2>1, <2>5 DEF Replaced
  <2>6. CASE current # 0
    BY <1>0, <2>1, <2>4, <2>6 DEF Replaced, Dropping, Restoring
  <2>7. QED
    BY <2>5, <2>6
<1>3. QED
  BY <1>1, <1>2

-----------------------------------------------------------------------------
(* The theorems. *)

\* No task and no call.
LEMMA InitInv == Init => Inv
<1> SUFFICES ASSUME Init PROVE Inv
  OBVIOUS
<1>1. TypeOK
  BY IdleTyped, BoundAssumption DEF Init, TypeOK
<1>2. QED
  BY <1>1, IdleTyped DEF Init, Inv, Typed, CallShapes, Shaped, Replaced, RestoreFinds

\* Every step keeps the invariant.
LEMMA InvStep == Inv /\ [Next]_vars => Inv'
<1> SUFFICES ASSUME Inv, [Next]_vars PROVE Inv'
  OBVIOUS
<1>1. Typed' /\ RestoreFinds'
  BY TypedStep, RestoreFindsStep DEF Inv
<1>2. CASE ResetState
  BY <1>1, <1>2 DEF ResetState, Inv, Replaced
<1>3. CASE UNCHANGED vars
  BY <1>1, <1>3 DEF vars, Inv, Replaced, Dropping, Restoring
<1>4. QED
  BY <1>1, <1>2, <1>3, ReplacedUserCall, ReplacedCallStep, ReplacedTaskStep DEF Next, Inv

\* The inductive invariant of the controller's calls and tasks.
THEOREM LifecycleInvariant == Spec => []Inv
  BY InitInv, InvStep, PTL DEF Spec

\* Calls, tasks and history keep their types, however many calls overlap.
THEOREM LifecycleTypeCorrect == Spec => []TypeOK
<1>1. Inv => TypeOK
  BY DEF Inv, Typed
<1>2. QED
  BY <1>1, LifecycleInvariant, PTL

\* An aborted task does not stay on display (clearTask, cancelTask and the
\* restoring of a task whose stream failed), however many calls overlap.
THEOREM AbortedIsReplacedHolds == Spec => []AbortedIsReplaced
<1>1. Inv => AbortedIsReplaced
  BY DEF Inv, Replaced, AbortedIsReplaced, Dropping, Restoring
<1>2. QED
  BY <1>1, LifecycleInvariant, PTL

-----------------------------------------------------------------------------
(* Calls one at a time, with the history of MCTaskLifecycle. *)

Busy(c) == call[c].pc # "idle"
Alone == \A c, d \in Calls : Busy(c) /\ Busy(d) => c = d

AllAborted == \A n \in 1..made : task[n].aborted
Live == \A n \in 1..made : ~task[n].aborted => n = current

\* No task works between the clearing and the making of the next one.
Gone == \A c \in Calls : call[c].pc \in {"clearing", "loading"} => AllAborted

OneAtATime == ~overlapped => Alone /\ Live /\ Gone

MCInv == Typed /\ OneAtATime

\* The types of the variables this part is about.
LEMMA TypesHere ==
    ASSUME Typed
    PROVE  /\ made \in Nat /\ current \in 0..made
           /\ task \in [1..made -> Task] /\ call \in [Calls -> Call]
           /\ \A n \in 1..made : task[n].aborted \in BOOLEAN
  BY BoundAssumption DEF Typed, TypeOK, Task

\* What is busy by itself is what can be counted as at most one.
LEMMA AtMostOne ==
    ASSUME NEW S, IsFiniteSet(S), Cardinality(S) <= 1, NEW x \in S, NEW y \in S
    PROVE  x = y
<1> SUFFICES ASSUME x # y PROVE FALSE
  OBVIOUS
<1>1. IsFiniteSet({x}) /\ Cardinality({x}) = 1
  BY FS_Singleton
<1>2. IsFiniteSet({x} \cup {y}) /\ Cardinality({x} \cup {y}) = 2
  <2>1. y \notin {x}
    OBVIOUS
  <2>2. Cardinality({x} \cup {y}) = Cardinality({x}) + 1
    BY <1>1, <2>1, FS_AddElement
  <2>3. IsFiniteSet({x} \cup {y})
    BY <1>1, FS_AddElement
  <2>4. QED
    BY <1>1, <2>2, <2>3
<1>3. Cardinality({x} \cup {y}) <= Cardinality(S)
  BY FS_Subset
<1>4. Cardinality(S) \in Nat
  BY FS_CardinalityType
<1>5. QED
  BY <1>2, <1>3, <1>4

\* A step moves one call, or none.
LEMMA OneCallMoves ==
    ASSUME Typed, [Next]_vars
    PROVE  \A c, d \in Calls : call'[c] # call[c] /\ call'[d] # call[d] => c = d
<1>1. ASSUME NEW c \in Calls, NEW r, call' = [call EXCEPT ![c] = r]
      PROVE  \A d \in Calls : call'[d] # call[d] => d = c
  BY <1>1, TypesHere
<1>2. ASSUME NEW c \in Calls, CallStep(c) \/ Reported(c)
      PROVE  \E r : call' = [call EXCEPT ![c] = r]
  BY <1>2 DEF CallStep, Cleared, Loaded, LoadFails, NotFound, FetchedToCancel, Waited,
              FetchedToReinit, FetchedToDelete, Reported, BeginClear
<1>3. ASSUME NEW c \in UserCalls, InitTask(c) \/ CloseTask(c) \/ CancelTask(c) \/ DeleteTask(c)
      PROVE  \E r : call' = [call EXCEPT ![c] = r]
  BY <1>3 DEF InitTask, CloseTask, CancelTask, DeleteTask, BeginClear
<1>4. ASSUME NEW n \in 1..made, TaskStep(n)
      PROVE  call' = call \/ \E c \in TaskCalls : \E r : call' = [call EXCEPT ![c] = r]
  BY <1>4 DEF TaskStep, SayStart, SayDone, ContextReady, Resume, StreamFails, StreamAborted,
              AbandonedFails
<1>5. call' = call \/ \E c \in Calls : \E r : call' = [call EXCEPT ![c] = r]
  BY <1>2, <1>3, <1>4 DEF Next, ResetState, Calls, vars
<1>6. QED
  BY <1>1, <1>5

\* Calls that were one at a time are, as long as no two are counted.
LEMMA AloneStep ==
    ASSUME MCInv, [MCNext]_<<vars, overlapped>>, ~overlapped'
    PROVE  ~overlapped /\ Alone'
<1>1. CASE UNCHANGED <<vars, overlapped>>
  BY <1>1 DEF MCInv, OneAtATime, Alone, Busy, vars
<1>2. CASE MCNext
  <2> DEFINE B == {c \in Calls : Busy(c)'}
  <2>1. Typed /\ [Next]_vars /\ ~overlapped /\ Alone
    BY <1>2 DEF MCNext, MCInv, OneAtATime
  <2>2. ~(Cardinality(B) > 1)
    BY <1>2 DEF MCNext, Busy
  <2>3. PICK moved : \A c \in Calls : call'[c] # call[c] => c = moved
    BY <2>1, OneCallMoves
  <2>4. PICK busy : \A c \in Calls : Busy(c) => c = busy
    BY <2>1 DEF Alone
  <2>5. B \in SUBSET ({moved} \cup {busy})
    BY <2>3, <2>4 DEF Busy
  <2>6. IsFiniteSet({moved} \cup {busy})
    <3>1. IsFiniteSet({moved})
      BY FS_Singleton
    <3>2. QED
      BY <3>1, FS_AddElement
  <2>7. IsFiniteSet(B) /\ Cardinality(B) \in Nat
    <3>1. IsFiniteSet(B)
      BY <2>5, <2>6, FS_Subset
    <3>2. QED
      BY <3>1, FS_CardinalityType
  <2>8. \A c, d \in B : c = d
    BY <2>2, <2>7, AtMostOne
  <2>9. QED
    BY <2>1, <2>8 DEF Alone, Busy
<1>3. QED
  BY <1>1, <1>2

\* When the task on display is aborted, all are.
LEMMA AbortedLast ==
    ASSUME Typed, Live, NEW t \in [1..made -> Task],
           \A n \in 1..made : t[n].aborted = task[n].aborted,
           task' = Abort(t), made' = made
    PROVE  AllAborted'
<1>1. CASE current = 0
  BY <1>1, TypesHere DEF Abort, AllAborted, Live
<1>2. CASE current # 0
  <2>1. current \in 1..made
    BY <1>2, TypesHere
  <2>2. task' = [t EXCEPT ![current].aborted = TRUE]
    BY <1>2 DEF Abort
  <2>3. \A n \in 1..made : task'[n].aborted = IF n = current THEN TRUE ELSE t[n].aborted
    BY <2>1, <2>2 DEF Task
  <2>4. QED
    BY <2>3, TypesHere DEF AllAborted, Live
<1>3. QED
  BY <1>1, <1>2

\* A call that begins to clear leaves no task at work.
LEMMA ClearingBegun ==
    ASSUME Typed, Live, NEW c, NEW op, NEW id, NEW t \in [1..made -> Task],
           \A n \in 1..made : t[n].aborted = task[n].aborted,
           BeginClear(c, op, id, t), UNCHANGED <<current, made>>
    PROVE  Live' /\ Gone'
<1>1. AllAborted'
  BY AbortedLast DEF BeginClear
<1>2. QED
  BY <1>1 DEF Live, Gone, AllAborted

\* What steps that neither clear nor make a task have to establish.
LEMMA NothingBegun ==
    ASSUME Typed, Live, Gone, UNCHANGED <<current, made>>,
           \A n \in 1..made : task[n].aborted => task'[n].aborted,
           \A c \in Calls : call'[c].pc \in {"clearing", "loading"} => call'[c] = call[c]
    PROVE  Live' /\ Gone'
  BY DEF Live, Gone, AllAborted

\* A step of a call: the reference is dropped with no task at work, and the next
\* task is made with none.
LEMMA LiveCallStep ==
    ASSUME Typed, Alone, Live, Gone, NEW c \in Calls, CallStep(c) \/ Reported(c)
    PROVE  Live' /\ Gone'
<1>0. /\ made \in Nat /\ current \in 0..made
      /\ task \in [1..made -> Task] /\ call \in [Calls -> Call]
      /\ \A n \in 1..made : task[n].aborted \in BOOLEAN
  BY TypesHere
<1>1. CASE Cleared(c)
  <2>1. AllAborted /\ UNCHANGED <<made, task>>
    BY <1>1 DEF Cleared, Gone
  <2>2. QED
    BY <2>1 DEF Live, Gone, AllAborted
<1>2. CASE Loaded(c)
  <2>1. AllAborted /\ made' = made + 1 /\ current' = made'
    BY <1>2 DEF Loaded, Gone
  <2>2. \A n \in 1..made : task'[n] = task[n]
    BY <1>0, <1>2 DEF Loaded
  <2>3. Live'
    BY <1>0, <2>1, <2>2 DEF Live, AllAborted
  <2>4. \A d \in Calls : call'[d].pc = "idle"
    BY <1>0, <1>2 DEF Loaded, Alone, Busy, Idle
  <2>5. QED
    BY <2>3, <2>4 DEF Gone
<1>3. CASE LoadFails(c) \/ NotFound(c) \/ FetchedToDelete(c)
  BY <1>0, <1>3, NothingBegun DEF LoadFails, NotFound, FetchedToDelete, Idle
<1>4. CASE FetchedToCancel(c)
  <2>1. \A n \in 1..made : task[n].aborted => task'[n].aborted
    BY <1>0, <1>4 DEF FetchedToCancel, Abort, Task
  <2>2. QED
    BY <1>0, <1>4, <2>1, NothingBegun DEF FetchedToCancel
<1>5. CASE Waited(c)
  <2> DEFINE t == IF current = 0 THEN task ELSE [task EXCEPT ![current].abandoned = TRUE]
  <2>1. t \in [1..made -> Task] /\ \A n \in 1..made : t[n].aborted = task[n].aborted
    <3>1. CASE current = 0
      BY <1>0, <3>1
    <3>2. CASE current # 0
      <4>0. task[current] \in Task
        BY <1>0, <3>2
      <4>1. /\ [task[current] EXCEPT !.abandoned = TRUE] \in Task
            /\ [task[current] EXCEPT !.abandoned = TRUE].aborted = task[current].aborted
        BY <4>0 DEF Task
      <4>2. t = [task EXCEPT ![current] = [task[current] EXCEPT !.abandoned = TRUE]]
        BY <3>2
      <4>3. QED
        BY <1>0, <4>1, <4>2
    <3>3. QED
      BY <3>1, <3>2
  <2>2. BeginClear(c, "init", call[c].id, t) /\ UNCHANGED <<current, made>>
    BY <1>5 DEF Waited
  <2> HIDE DEF t
  <2>3. QED
    BY <2>1, <2>2, ClearingBegun
<1>6. CASE FetchedToReinit(c)
  BY <1>0, <1>6, ClearingBegun DEF FetchedToReinit
<1>7. CASE Reported(c)
  BY <1>0, <1>7, NothingBegun DEF Reported, AbortStream
<1>8. QED
  BY <1>1, <1>2, <1>3, <1>4, <1>5, <1>6, <1>7 DEF CallStep

\* A call of the user begins to clear, or to look for the history item.
LEMMA LiveUserCall ==
    ASSUME Typed, Live, Gone, NEW c \in UserCalls,
           InitTask(c) \/ CloseTask(c) \/ CancelTask(c) \/ DeleteTask(c)
    PROVE  Live' /\ Gone'
<1>0. c \in Calls /\ task \in [1..made -> Task] /\ call \in [Calls -> Call]
  BY TypesHere DEF Calls
<1>1. CASE InitTask(c) \/ CloseTask(c)
  BY <1>0, <1>1, ClearingBegun DEF InitTask, CloseTask
<1>2. CASE CancelTask(c)
  BY <1>0, <1>2, NothingBegun DEF CancelTask
<1>3. CASE DeleteTask(c)
  <2>1. PICK id \in history :
            \/ BeginClear(c, "delete", id, task)
            \/ /\ call' = [call EXCEPT ![c] = [pc |-> "fetching", op |-> "delete", id |-> id]]
               /\ UNCHANGED task
    BY <1>3 DEF DeleteTask
  <2>2. UNCHANGED <<current, made>>
    BY <1>3 DEF DeleteTask
  <2>3. CASE BeginClear(c, "delete", id, task)
    BY <1>0, <2>2, <2>3, ClearingBegun
  <2>4. CASE /\ call' = [call EXCEPT ![c] = [pc |-> "fetching", op |-> "delete", id |-> id]]
             /\ UNCHANGED task
    BY <1>0, <2>2, <2>4, NothingBegun
  <2>5. QED
    BY <2>1, <2>3, <2>4
<1>4. QED
  BY <1>1, <1>2, <1>3

\* No task that was aborted goes to work again.
LEMMA LiveTaskStep ==
    ASSUME Typed, Live, Gone, NEW n \in 1..made, TaskStep(n)
    PROVE  Live' /\ Gone'
<1>0. task \in [1..made -> Task] /\ call \in [Calls -> Call]
  BY TypesHere
<1>1. UNCHANGED <<current, made>>
  BY DEF TaskStep, SayStart, SayDone, ContextReady, Resume, StreamFails, StreamAborted,
         AbandonedFails, AbortStream, files
<1>2. \A m \in 1..made : task[m].aborted => task'[m].aborted
  <2>1. task[n] \in Task
    BY <1>0
  <2>2. \A r : task' = [task EXCEPT ![n] = r] /\ (task[n].aborted => r.aborted) =>
               \A m \in 1..made : task[m].aborted => task'[m].aborted
    BY <1>0
  <2>3. CASE SayStart(n)
    <3>1. task' = [task EXCEPT ![n] = [task[n] EXCEPT !.saving = TRUE]]
      BY <2>3 DEF SayStart
    <3>2. task[n].aborted => [task[n] EXCEPT !.saving = TRUE].aborted
      BY <2>1 DEF Task
    <3>3. QED
      BY <2>2, <3>1, <3>2
  <2>4. CASE ContextReady(n)
    <3>1. task' = [task EXCEPT ![n] = [task[n] EXCEPT !.stage = "running"]]
      BY <2>4 DEF ContextReady
    <3>2. task[n].aborted => [task[n] EXCEPT !.stage = "running"].aborted
      BY <2>1 DEF Task
    <3>3. QED
      BY <2>2, <3>1, <3>2
  <2>5. CASE Resume(n)
    <3>1. task' = [task EXCEPT ![n] = [task[n] EXCEPT !.stage = "running"]]
      BY <2>5 DEF Resume
    <3>2. task[n].aborted => [task[n] EXCEPT !.stage = "running"].aborted
      BY <2>1 DEF Task
    <3>3. QED
      BY <2>2, <3>1, <3>2
  <2>6. CASE StreamFails(n)
    <3>1. task' = [task EXCEPT ![n] = [task[n] EXCEPT !.aborted = TRUE, !.stage = "ended"]]
      BY <2>6 DEF StreamFails
    <3>2. task[n].aborted => [task[n] EXCEPT !.aborted = TRUE, !.stage = "ended"].aborted
      BY <2>1 DEF Task
    <3>3. QED
      BY <2>2, <3>1, <3>2
  <2>7. CASE StreamAborted(n)
    <3>1. task' = [task EXCEPT ![n] = [task[n] EXCEPT !.stage = "ended"]]
      BY <2>7 DEF StreamAborted
    <3>2. task[n].aborted => [task[n] EXCEPT !.stage = "ended"].aborted
      BY <2>1 DEF Task
    <3>3. QED
      BY <2>2, <3>1, <3>2
  <2>8. CASE AbandonedFails(n)
    <3>1. task' = [task EXCEPT ![n] = [task[n] EXCEPT !.stage = "ended"]]
      BY <2>8 DEF AbandonedFails
    <3>2. task[n].aborted => [task[n] EXCEPT !.stage = "ended"].aborted
      BY <2>1 DEF Task
    <3>3. QED
      BY <2>2, <3>1, <3>2
  <2>9. CASE SayDone(n)
    <3>1. PICK x : task' = [task EXCEPT ![n] = [task[n] EXCEPT !.saving = FALSE, !.stage = x]]
      BY <2>9 DEF SayDone
    <3>2. task[n].aborted => [task[n] EXCEPT !.saving = FALSE, !.stage = x].aborted
      BY <2>1 DEF Task
    <3>3. QED
      BY <2>2, <3>1, <3>2
  <2>10. QED
    BY <2>3, <2>4, <2>5, <2>6, <2>7, <2>8, <2>9 DEF TaskStep
<1>3. \A c \in Calls : call'[c].pc \in {"clearing", "loading"} => call'[c] = call[c]
  <2>1. CASE StreamFails(n)
    BY <1>0, <2>1 DEF StreamFails
  <2>2. CASE ~StreamFails(n)
    BY <2>2 DEF TaskStep, SayStart, SayDone, ContextReady, Resume, StreamAborted, AbandonedFails
  <2>3. QED
    BY <2>1, <2>2
<1>4. QED
  BY <1>1, <1>2, <1>3, NothingBegun

\* No task and no call.
LEMMA MCInitInv == MCInit => MCInv
<1> SUFFICES ASSUME MCInit PROVE MCInv
  OBVIOUS
<1>1. Typed
  BY InitInv DEF MCInit, Inv
<1>2. QED
  BY <1>1 DEF MCInit, Init, MCInv, OneAtATime, Alone, Busy, Live, Gone, AllAborted, Idle

\* Every step keeps the calls alone and the tasks gone.
LEMMA OneAtATimeStep == MCInv /\ [MCNext]_<<vars, overlapped>> => MCInv'
<1> SUFFICES ASSUME MCInv, [MCNext]_<<vars, overlapped>> PROVE MCInv'
  OBVIOUS
<1>1. Typed /\ [Next]_vars
  BY DEF MCInv, MCNext, vars
<1>2. Typed'
  BY <1>1, TypedStep
<1>3. ASSUME ~overlapped' PROVE Alone' /\ Live' /\ Gone'
  <2>1. ~overlapped /\ Alone'
    BY <1>3, AloneStep
  <2>2. Alone /\ Live /\ Gone
    BY <2>1 DEF MCInv, OneAtATime
  <2>3. CASE ResetState
    <3>1. AllAborted' /\ UNCHANGED made
      BY <1>1, <2>2, <2>3, AbortedLast, TypesHere DEF ResetState
    <3>2. QED
      BY <2>1, <3>1 DEF Live, Gone, AllAborted
  <2>4. CASE UNCHANGED vars
    BY <2>1, <2>2, <2>4 DEF vars, Live, Gone, AllAborted
  <2>5. QED
    BY <1>1, <2>1, <2>2, <2>3, <2>4, LiveCallStep, LiveUserCall, LiveTaskStep DEF Next
<1>4. QED
  BY <1>2, <1>3 DEF MCInv, OneAtATime

\* The inductive invariant of calls that do not overlap.
THEOREM OneAtATimeInvariant == MCSpec => []MCInv
  BY MCInitInv, OneAtATimeStep, PTL DEF MCSpec

\* As long as no two calls of the controller overlapped, a task that still works
\* is the one on display.
THEOREM LiveIsCurrentHolds == MCSpec => []LiveIsCurrent
<1>1. MCInv => LiveIsCurrent
  BY DEF MCInv, OneAtATime, Live, LiveIsCurrent
<1>2. QED
  BY <1>1, OneAtATimeInvariant, PTL
=============================================================================
