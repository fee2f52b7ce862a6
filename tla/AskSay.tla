-------------------------------- MODULE AskSay ------------------------------
(***************************************************************************)
(* Task.ask and Task.say (core/task/index.ts): the one channel between a   *)
(* task and its user.  ask appends a question and polls until an answer is *)
(* in taskState.askResponse, or until lastMessageTs shows that something   *)
(* newer was said, which makes it throw "ignored".                         *)
(*                                                                         *)
(* One Task object, and three that speak in it:                            *)
(*   - the agent, which streams a tool call as a partial message, completes *)
(*     it, asks for approval, and runs commands;                           *)
(*   - the output of a command (executeCommandTool): chunks of it are asked, *)
(*     one at a time, and go on while the agent does something else;       *)
(*   - the MCP servers, whose notifications are said at any time.          *)
(* The user answers the question on display.  An answer is recorded for the *)
(* certification first, which takes time, and is then stored in the task   *)
(* whatever it is asking by then.                                          *)
(*                                                                         *)
(* What is done up to the first await is one step.  A question is saved and *)
(* posted before it is polled; a poll is not due at any time, so this is   *)
(* not a step.  Left out: texts and images, the names of messages other    *)
(* than the agent's tool calls, and what the webview makes of them.        *)
(***************************************************************************)
EXTENDS Naturals, Sequences, FiniteSets

CONSTANTS
    MaxLog,     \* bound: messages, but for what a poll makes the command ask
    MaxTime     \* bound: milliseconds that differ

ASSUME BoundAssumption == {MaxLog, MaxTime} \subseteq Nat \ {0}

VARIABLES
    log,        \* aeriocodeMessages
    lastTs,     \* taskState.lastMessageTs
    response,   \* taskState.askResponse: the question that was answered, if any
    asking,     \* the question each caller of ask polls for, 0 for none
    agent,      \* is the agent free, or awaiting the command it runs?
    command,    \* the command, and what executeCommandTool keeps of it
    abort,      \* taskState.abort
    transit,    \* answers being recorded
    answered    \* questions the user has answered

vars == <<log, lastTs, response, asking, agent, command, abort, transit, answered>>

Callers == {"agent", "command"}
Speakers == Callers \cup {"server"}
Message == [by : Speakers, kind : {"ask", "say"}, partial : BOOLEAN, ts : 0..MaxTime]

\* 0 is the question of the Task object before this one.
Questions == 0..MaxLog + 2

Room == Len(log) < MaxLog

\* output: lines wait in outputBuffer.
Command == [pc : {"none", "running", "completed"}, output : BOOLEAN, didContinue : BOOLEAN]

TypeOK ==
    /\ log \in Seq(Message) /\ Len(log) \in Questions
    /\ lastTs \in 0..MaxTime
    /\ response \subseteq Questions /\ Cardinality(response) <= 1
    /\ asking \in [Callers -> 0..Len(log)]
    /\ agent \in {"free", "awaiting"} /\ command \in Command /\ abort \in BOOLEAN
    /\ transit \subseteq Questions /\ answered \subseteq Questions

Init ==
    /\ log = <<>> /\ lastTs = 0 /\ response = {}
    /\ asking = [c \in Callers |-> 0] /\ agent = "free"
    /\ command = [pc |-> "none", output |-> FALSE, didContinue |-> FALSE]
    /\ abort = FALSE
    /\ transit \in {{}, {0}} /\ answered = {0}

-----------------------------------------------------------------------------
(* ask and say, as steps of whoever calls them. *)

Waits(c) == asking[c] # 0

\* The end of a sequence of messages is c's unfinished one of this kind.
EndsPartial(msgs, c, kind) ==
    msgs # <<>> /\ msgs[Len(msgs)].partial
               /\ msgs[Len(msgs)].by = c /\ msgs[Len(msgs)].kind = kind

New(c, kind, partial, t) == [by |-> c, kind |-> kind, partial |-> partial, ts |-> t]

\* A message is appended, in the same millisecond as the last one or later.
Add(msgs, c, kind, partial) ==
    \E t \in {lastTs, lastTs + 1} \cap 0..MaxTime :
      /\ lastTs' = t
      /\ log' = Append(msgs, New(c, kind, partial, t))

\* Mutant: a completed message is stamped anew, in lastMessageTs only.
CompleteAnew(msgs) ==
    /\ log' = [msgs EXCEPT ![Len(msgs)].partial = FALSE]
    /\ lastTs' \in {lastTs, lastTs + 1} \cap 0..MaxTime

\* The partial message at the end is completed, and keeps its ts.
Complete(msgs) ==
    /\ log' = [msgs EXCEPT ![Len(msgs)].partial = FALSE]
    /\ lastTs' = msgs[Len(msgs)].ts

Post(msgs, c, kind) ==
    IF EndsPartial(msgs, c, kind) THEN Complete(msgs) ELSE Add(msgs, c, kind, FALSE)

Say(msgs, c) ==
    /\ Post(msgs, c, "say")
    /\ UNCHANGED <<response, asking>>

\* Mutant: the answer that is there is not cleared.
AskUncleared(msgs, c) ==
    /\ Post(msgs, c, "ask")
    /\ asking' = [asking EXCEPT ![c] = Len(log')]
    /\ UNCHANGED response

\* ask(type, text) and ask(type, text, false)
Ask(msgs, c) ==
    /\ response' = {}
    /\ Post(msgs, c, "ask")
    /\ asking' = [asking EXCEPT ![c] = Len(log')]

\* pWaitFor finds the question superseded: ask throws, and what answer there is
\* stays.
Ignored(c) == Waits(c) /\ lastTs # log[asking[c]].ts

\* pWaitFor finds an answer: ask returns it.
Taken(c) == Waits(c) /\ lastTs = log[asking[c]].ts /\ response # {}

Ended(c) == asking' = [asking EXCEPT ![c] = 0]
Silent == UNCHANGED <<log, lastTs>>

-----------------------------------------------------------------------------
(* The agent. *)

AgentActs == agent = "free" /\ ~Waits("agent") /\ ~abort /\ Room
Elsewhere == UNCHANGED <<abort, transit, answered>>

Other(kind) == IF kind = "ask" THEN "say" ELSE "ask"

\* removeLastPartialMessageIfExistsWithType: settings that changed while a tool
\* call streamed change what its message has to be.
Removed(kind) ==
    IF EndsPartial(log, "agent", kind) THEN SubSeq(log, 1, Len(log) - 1) ELSE log

\* A tool call streams in: a partial message, then updates of it.  ask throws
\* "ignored" either way, which is caught.
AgentStreams ==
    /\ AgentActs
    /\ \E kind \in {"ask", "say"} :
         /\ ~EndsPartial(log, "agent", kind)
         /\ Add(Removed(Other(kind)), "agent", kind, TRUE)
    /\ UNCHANGED <<response, asking, agent, command>> /\ Elsewhere

\* A complete tool call is said, if it needs no approval, ...
AgentSaysTool ==
    /\ AgentActs
    /\ Say(Removed("ask"), "agent")
    /\ UNCHANGED <<agent, command>> /\ Elsewhere

\* ... or askApproval asks for it.
AgentAsksTool ==
    /\ AgentActs
    /\ Ask(Removed("say"), "agent")
    /\ UNCHANGED <<agent, command>> /\ Elsewhere

\* Any other message: an error, feedback, a checkpoint, the next request.
AgentSays ==
    /\ AgentActs
    /\ Add(log, "agent", "say", FALSE)
    /\ UNCHANGED <<response, asking, agent, command>> /\ Elsewhere

\* Any other question: the request failed, the result is there, mistakes were made.
AgentAsks ==
    /\ AgentActs
    /\ response' = {}
    /\ Add(log, "agent", "ask", FALSE)
    /\ asking' = [asking EXCEPT !["agent"] = Len(log')]
    /\ UNCHANGED <<agent, command>> /\ Elsewhere

\* Mutant: only something newer ends the wait.
AgentPollsForNewer ==
    /\ Ended("agent")
    /\ Ignored("agent") /\ UNCHANGED response
    /\ Silent /\ UNCHANGED <<agent, command>> /\ Elsewhere

\* The wait of the agent's question ends.  An ignored one is an error of the
\* tool, said by AgentSays.
AgentPolls ==
    /\ Ended("agent")
    /\ \/ Ignored("agent") /\ UNCHANGED response
       \/ Taken("agent") /\ response' = {}
    /\ Silent /\ UNCHANGED <<agent, command>> /\ Elsewhere

-----------------------------------------------------------------------------
(* executeCommandTool. *)

RunCommand ==
    /\ AgentActs /\ command.pc = "none"
    /\ agent' = "awaiting" /\ command' = [command EXCEPT !.pc = "running"]
    /\ UNCHANGED <<log, lastTs, response, asking>> /\ Elsewhere

Speechless == Silent /\ UNCHANGED <<response, asking>>

\* flushBuffer, given what the process and the buffer are now: a chunk is asked
\* unless one is enroute or there is none.  An aborted task's ask throws, which
\* is caught; the chunk is gone.
Flush(enroute, com) ==
    IF enroute \/ ~com.output
      THEN command' = com /\ Speechless
      ELSE /\ command' = [com EXCEPT !.output = FALSE]
           /\ IF abort THEN Speechless ELSE Ask(log, "command")

\* A line of output, until the user lets the command run on.
Line ==
    /\ command.pc = "running" /\ ~command.didContinue /\ Room
    /\ command' = [command EXCEPT !.output = TRUE]
    /\ Speechless /\ UNCHANGED agent /\ Elsewhere

\* The buffer is large enough, or 100 ms have passed.
ChunkIsDue ==
    /\ command.output /\ ~Waits("command")
    /\ Flush(FALSE, command)
    /\ UNCHANGED agent /\ Elsewhere

\* The process completes, with a last line perhaps; what is buffered is flushed,
\* and the agent goes on.
ProcessCompletes ==
    /\ command.pc = "running"
    /\ \E line \in BOOLEAN :
         LET com == [command EXCEPT !.pc = "completed",
                                    !.output = @ \/ (line /\ ~command.didContinue /\ Room)]
         IN  Flush(Waits("command"), com)
    /\ agent' = "free" /\ Elsewhere

\* The chunk was ignored: the next one, if any, is asked at once.
ChunkIgnored ==
    /\ Ignored("command")
    /\ command' = [command EXCEPT !.output = FALSE]
    /\ IF command.output /\ ~abort
         THEN Ask(log, "command")
         ELSE Ended("command") /\ UNCHANGED response /\ Silent
    /\ UNCHANGED agent /\ Elsewhere

\* The last line process.continue() makes the process emit, said at once: when
\* does not matter, for nobody polls for it.
LastLines == {<<>>} \cup
    IF command.pc = "running" /\ ~command.didContinue /\ ~abort
      THEN {<<New("command", "say", FALSE, lastTs)>>} ELSE {}

\* The chunk was answered: process.continue() releases the agent, and what has
\* been buffered meanwhile is asked.
ChunkAnswered ==
    /\ Taken("command")
    /\ agent' = "free"
    /\ command' = [command EXCEPT !.didContinue = TRUE, !.output = FALSE]
    /\ IF command.output /\ ~abort
         THEN \E line \in LastLines : Ask(log \o line, "command")
         ELSE /\ response' = {} /\ Ended("command")
              /\ \/ Silent
                 \/ LastLines # {<<>>} /\ Add(log, "command", "say", FALSE)
    /\ Elsewhere

-----------------------------------------------------------------------------
(* The others. *)

\* The callback of setNotificationCallback says what an MCP server notifies.
Notify ==
    /\ ~abort /\ Room
    /\ Add(log, "server", "say", FALSE)
    /\ UNCHANGED <<response, asking, agent, command>> /\ Elsewhere

Asked == {i \in DOMAIN log : log[i].kind = "ask"}

\* The user answers the question last displayed, once it is complete;
\* askResponse begins to record the decision.
Answer ==
    /\ ~abort
    /\ \E q \in Asked \ answered :
         /\ \A i \in Asked : i <= q
         /\ ~log[q].partial
         /\ transit' = transit \cup {q} /\ answered' = answered \cup {q}
    /\ UNCHANGED <<log, lastTs, response, asking, agent, command, abort>>

\* Mutant: an answer joins the one that is there.
DeliverMore ==
    /\ ~abort
    /\ \E q \in transit : response' = response \cup {q} /\ transit' = transit \ {q}
    /\ UNCHANGED <<log, lastTs, asking, agent, command, abort, answered>>

\* handleWebviewAskResponse, on the task there is once the decision is recorded.
Deliver ==
    /\ ~abort
    /\ \E q \in transit : response' = {q} /\ transit' = transit \ {q}
    /\ UNCHANGED <<log, lastTs, asking, agent, command, abort, answered>>

\* abortTask
Abort ==
    /\ ~abort /\ abort' = TRUE
    /\ UNCHANGED <<log, lastTs, response, asking, agent, command, transit, answered>>

Polls == AgentPolls \/ ChunkIgnored \/ ChunkAnswered

Next ==
    \/ AgentStreams \/ AgentSaysTool \/ AgentAsksTool \/ AgentSays \/ AgentAsks
    \/ RunCommand \/ Line \/ ChunkIsDue \/ ProcessCompletes
    \/ Polls \/ Notify \/ Answer \/ Deliver \/ Abort

\* Polling goes on as long as a question is waited for.
Fairness == WF_vars(AgentPolls) /\ WF_vars(ChunkIgnored \/ ChunkAnswered)

Spec == Init /\ [][Next]_vars /\ Fairness
=============================================================================
