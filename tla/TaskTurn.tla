------------------------------ MODULE TaskTurn ------------------------------
(***************************************************************************)
(* One agent turn after another: recursivelyMakeAeriocodeRequests reads    *)
(* the model's answer from a stream, presentAssistantMessage shows its     *)
(* blocks and executes its tool calls, and the next request is made when   *)
(* all of them are presented (core/task/index.ts, ToolExecutor.ts).        *)
(*                                                                         *)
(* Two coroutines share taskState.  The main loop is at pc; it calls       *)
(* presentAssistantMessage without awaiting it.  The presenter works on a  *)
(* copy of one block at a time, and presentAssistantMessageLocked keeps it *)
(* alone; it calls itself for the next block.  Everything either does      *)
(* between two awaits is one step here.                                    *)
(*                                                                         *)
(* A block is what the parser makes of the text received so far: text or   *)
(* a tool call, partial while nothing shows that it ended (AnswerBlocks).  *)
(***************************************************************************)
EXTENDS AnswerBlocks

CONSTANTS
    MaxBlocks,      \* bound: blocks in one answer
    MaxTurns,       \* bound: requests
    Aborts          \* may the user cancel the task, or the stream fail?

ASSUME BlocksAssumption == MaxBlocks \in Nat \ {0}
ASSUME TurnsAssumption == MaxTurns \in Nat \ {0}
ASSUME SwitchesAssumption == Aborts \in BOOLEAN

VARIABLES
    pc,         \* where the main loop is
    turn,       \* number of the request
    received,   \* does assistantMessage hold any character?
    s,          \* the streaming part of taskState, and the presenter
    abort,      \* taskState.abort
    log         \* history of the turn: calls carried out, the notice added

vars == <<pc, turn, received, s, abort, log>>

NoBlock == [kind |-> "text", partial |-> TRUE, closed |-> FALSE]
Answers == UNION {[1..n -> Block] : n \in 0..MaxBlocks}

\* at: what the presenter does with its copy; begun: history, the indexes of
\* the finished blocks it has taken up.
Streaming ==
    [content : Answers, index : 1..MaxBlocks + 1,
     complete : BOOLEAN, truncated : BOOLEAN, dropped : BOOLEAN, ready : BOOLEAN,
     reject : BOOLEAN, used : BOOLEAN, locked : BOOLEAN, pending : BOOLEAN,
     at : {"idle", "working", "acted", "dead"}, copy : Block, begun : Seq(1..MaxBlocks)]

TypeOK ==
    /\ pc \in {"preparing", "streaming", "saving", "waiting", "ended"}
    /\ turn \in 0..MaxTurns
    /\ received \in BOOLEAN
    /\ s \in Streaming
    /\ abort \in BOOLEAN
    /\ log \in [effects : Nat, unclosed : BOOLEAN,
                notice : {"none", "incomplete", "truncated", "noTool"}]

\* "reset streaming state"; index counts from 1.
FreshStream ==
    [content |-> <<>>, index |-> 1,
     complete |-> FALSE, truncated |-> FALSE, dropped |-> FALSE, ready |-> FALSE,
     reject |-> FALSE, used |-> FALSE, locked |-> FALSE, pending |-> FALSE,
     at |-> "idle", copy |-> NoBlock, begun |-> <<>>]
FreshLog == [effects |-> 0, unclosed |-> FALSE, notice |-> "none"]

Init ==
    /\ pc = "preparing" /\ turn = 0 /\ received = FALSE
    /\ s = FreshStream /\ abort = FALSE /\ log = FreshLog

-----------------------------------------------------------------------------
(* presentAssistantMessage *)

\* The block at the index is copied and worked on, under the lock.
TakeUp(x) ==
    LET b == x.content[x.index] IN
    [x EXCEPT !.locked = TRUE, !.pending = FALSE, !.at = "working", !.copy = b,
              !.begun = IF b.partial THEN @ ELSE Append(@, x.index)]

\* Mutant: the lock is not looked at.
EnterUnlocked(x) ==
    CASE abort -> x
      [] ~abort /\ x.index > Len(x.content) -> [x EXCEPT !.ready = @ \/ x.complete]
      [] OTHER -> TakeUp(x)

\* The function up to its first await, called in streaming state x: it throws
\* in an aborted task, leaves a note when locked, and declares the turn ready
\* when there is no block left and none will come.
Enter(x) ==
    CASE abort -> x
      [] ~abort /\ x.locked -> [x EXCEPT !.pending = TRUE]
      [] ~abort /\ ~x.locked /\ x.index > Len(x.content) ->
           [x EXCEPT !.pending = FALSE, !.ready = @ \/ x.complete]
      [] OTHER -> TakeUp(x)

\* Mutant: executeTool does not look at didAlreadyUseTool.
ToolAtWorkAgain == s.at = "working" /\ s.copy.kind = "tool" /\ ~s.reject

\* The copy is a tool call and executeTool does not skip it.
ToolAtWork == s.at = "working" /\ s.copy.kind = "tool" /\ ~s.reject /\ ~s.used

\* executeTool carries the call out and pushes its result.  A partial call is
\* only shown.
ToolTakesEffect ==
    /\ ToolAtWork /\ ~s.copy.partial
    /\ s' = [s EXCEPT !.used = TRUE, !.at = "acted"]
    /\ log' = [log EXCEPT !.effects = @ + 1, !.unclosed = @ \/ ~s.copy.closed]
    /\ UNCHANGED <<pc, turn, received, abort>>

\* A result without an effect: plan mode, a path or a diff that is refused
\* (also in a partial call), a missing parameter, an error; or the user denies
\* the operation, which pushes a result and sets didRejectTool.
ToolRefused ==
    /\ ToolAtWork
    /\ \/ s' = [s EXCEPT !.used = TRUE, !.at = "acted"]
       \/ ~s.copy.partial /\ s' = [s EXCEPT !.used = TRUE, !.reject = TRUE, !.at = "acted"]
    /\ UNCHANGED <<pc, turn, received, abort, log>>

\* Mutant: a finished block is passed twice.
PresenterReturnsTwice ==
    LET passed == ~s.copy.partial \/ s.reject \/ s.used
        x == [s EXCEPT !.locked = FALSE, !.at = "idle", !.copy = NoBlock,
                       !.ready = @ \/ (passed /\ s.index = Len(s.content)),
                       !.index = IF passed THEN @ + 2 ELSE @]
    IN
    /\ s.at \in {"working", "acted"}
    /\ s' = IF (passed /\ x.index <= Len(x.content)) \/ x.pending THEN Enter(x) ELSE x
    /\ UNCHANGED <<pc, turn, received, abort, log>>

\* The rest of the function, after the block was said, shown or executed: the
\* lock is released; a finished block, or any block once a tool was rejected
\* or used, is passed; then the next one is taken up, or a caller's note.
PresenterReturns ==
    LET passed == ~s.copy.partial \/ s.reject \/ s.used
        x == [s EXCEPT !.locked = FALSE, !.at = "idle", !.copy = NoBlock,
                       !.ready = @ \/ (passed /\ s.index = Len(s.content)),
                       !.index = IF passed THEN @ + 1 ELSE @]
    IN
    /\ s.at \in {"working", "acted"}
    /\ s' = IF (passed /\ x.index <= Len(x.content)) \/ x.pending THEN Enter(x) ELSE x
    /\ UNCHANGED <<pc, turn, received, abort, log>>

\* say or ask throws in an aborted task, and nothing releases the lock.
PresenterThrows ==
    /\ abort /\ s.at \in {"working", "acted"}
    /\ s' = [s EXCEPT !.at = "dead"]
    /\ UNCHANGED <<pc, turn, received, abort, log>>

-----------------------------------------------------------------------------
(* recursivelyMakeAeriocodeRequests *)

\* The answer without an unfinished call; only the last block can be partial.
WithoutUnfinishedCall(c) ==
    IF c # <<>> /\ c[Len(c)].partial /\ c[Len(c)].kind = "tool"
      THEN SubSeq(c, 1, Len(c) - 1) ELSE c

Completed(c) == [n \in DOMAIN c |-> [c[n] EXCEPT !.partial = FALSE]]

\* Mutant: an unfinished call is completed like any other block.
FinishKeepingCalls(x) ==
    LET y == [x EXCEPT !.complete = TRUE, !.content = Completed(x.content)]
    IN  IF y.content = x.content THEN y ELSE Enter(y)

\* Mutant: the last block is completed and not presented.
FinishQuietly(x) ==
    LET kept == WithoutUnfinishedCall(x.content)
    IN  [x EXCEPT !.complete = TRUE, !.content = Completed(kept),
                  !.dropped = Len(kept) < Len(x.content)]

\* The stream has been read: an unfinished call is dropped, unfinished text is
\* complete, and the presenter is called if there was an unfinished block.
FinishStream(x) ==
    LET kept == WithoutUnfinishedCall(x.content)
        y == [x EXCEPT !.complete = TRUE, !.content = Completed(kept),
                       !.dropped = Len(kept) < Len(x.content)]
    IN  IF y.content = x.content THEN y ELSE Enter(y)

\* A request begins: it throws in an aborted task; otherwise all streaming
\* state is reset, the presenter's lock included.  (Context loading, and the
\* asks at the mistake and request limits, come before the reset.)
RequestStarts ==
    /\ pc = "preparing" /\ turn < MaxTurns
    /\ IF abort THEN pc' = "ended" /\ UNCHANGED <<turn, received, s, log>>
       ELSE /\ pc' = "streaming" /\ turn' = turn + 1 /\ received' = FALSE
            /\ s' = FreshStream /\ log' = FreshLog
    /\ UNCHANGED abort

\* The end of the loop's body, in streaming state x: an aborted task ends, and
\* a tool that was rejected or used ends the stream.
AfterChunk(x) ==
    CASE abort -> pc' = "ended" /\ s' = x
      [] ~abort /\ (x.reject \/ x.used) -> pc' = "saving" /\ s' = FinishStream(x)
      [] OTHER -> s' = x /\ UNCHANGED pc

\* What the parser may make of the text received so far.
Streamed == {c \in Answers : WellFormed(c)}

\* Mutant: a block that arrives does not take readiness back.
TextChunkStayingReady ==
    /\ pc = "streaming"
    /\ \E c \in Streamed :
         /\ Extends(s.content, c)
         /\ AfterChunk(Enter([s EXCEPT !.content = c]))
    /\ received' = TRUE
    /\ UNCHANGED <<turn, abort, log>>

\* A chunk of text: the whole answer is parsed again, the presenter is called.
TextChunk ==
    /\ pc = "streaming"
    /\ \E c \in Streamed :
         /\ Extends(s.content, c)
         /\ AfterChunk(Enter([s EXCEPT !.content = c,
                                       !.ready = @ /\ Len(c) <= Len(s.content)]))
    /\ received' = TRUE
    /\ UNCHANGED <<turn, abort, log>>

\* A chunk that says the answer was cut off, or one of reasoning or usage.
OtherChunk ==
    /\ pc = "streaming"
    /\ \/ AfterChunk([s EXCEPT !.truncated = TRUE])
       \/ AfterChunk(s)
    /\ UNCHANGED <<turn, received, abort, log>>

\* The stream ends by itself.
StreamEnds ==
    /\ pc = "streaming"
    /\ IF abort THEN pc' = "ended" /\ s' = s ELSE pc' = "saving" /\ s' = FinishStream(s)
    /\ UNCHANGED <<turn, received, abort, log>>

\* The stream fails: the task aborts itself and is initialised again.
StreamFails ==
    /\ Aborts
    /\ pc = "streaming"
    /\ abort' = TRUE /\ pc' = "ended"
    /\ UNCHANGED <<turn, received, s, log>>

\* The answer is saved.  An answer without a character ends the loop.
AnswerSaved ==
    /\ pc = "saving"
    /\ pc' = IF received THEN "waiting" ELSE "ended"
    /\ UNCHANGED <<turn, received, s, abort, log>>

\* The wait for userMessageContentReady is over: what the model is told about
\* its answer, and on to the next request.
TurnOver ==
    /\ pc = "waiting" /\ s.ready
    /\ log' = [log EXCEPT !.notice =
                 CASE s.truncated -> "truncated"
                   [] ~s.truncated /\ s.dropped -> "incomplete"
                   [] OTHER -> IF \E n \in DOMAIN s.content : s.content[n].kind = "tool"
                               THEN "none" ELSE "noTool"]
    /\ pc' = "preparing"
    /\ UNCHANGED <<turn, received, s, abort>>

\* The user cancels (abortTask).
Cancel ==
    /\ Aborts /\ ~abort
    /\ abort' = TRUE
    /\ UNCHANGED <<pc, turn, received, s, log>>

Main == RequestStarts \/ TextChunk \/ OtherChunk \/ StreamEnds \/ StreamFails \/ AnswerSaved \/ TurnOver
Presenter == ToolTakesEffect \/ ToolRefused \/ PresenterReturns \/ PresenterThrows

Next == Main \/ Presenter \/ Cancel

Spec == Init /\ [][Next]_vars

\* A tool, its approval included, comes to an end while the task is alive; the
\* answer gets saved; the poll for readiness sees it.
FairSpec == Spec /\ WF_vars(PresenterReturns) /\ WF_vars(AnswerSaved) /\ WF_vars(TurnOver)

-----------------------------------------------------------------------------
(* Properties. *)

\* A call whose closing tag never arrived is never carried out.
OnlyClosedCalls == ~log.unclosed

\* At most one tool call takes effect in a turn, however many the answer holds
\* and however the stream and the presenter interleave.
OneEffectPerTurn == log.effects <= 1

\* No block is taken up twice in its final form, and none out of order: the
\* lock and the index survive callers that come while a block is worked on.
TakenUpOnce == \A m, n \in DOMAIN s.begun : m < n => s.begun[m] < s.begun[n]

\* When the turn is over the presenter is at rest (the next request resets its
\* lock), it is past the last block, and every call was taken up, unless one
\* was rejected or used before.
NothingLeftBehind ==
    pc = "preparing" /\ turn > 0 =>
      /\ s.at = "idle" /\ s.index > Len(s.content)
      /\ \/ s.reject \/ s.used
         \/ \A n \in DOMAIN s.content : \E m \in DOMAIN s.begun : s.begun[m] = n

\* The wait for userMessageContentReady ends, unless the task is aborted or the
\* answer was blank: characters of which the parser made no block.
TurnContinues == (pc = "waiting" /\ s.content # <<>>) ~> (pc # "waiting" \/ abort)
=============================================================================
