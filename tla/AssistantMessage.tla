-------------------------- MODULE AssistantMessage --------------------------
(***************************************************************************)
(* The parser of the model's answers, parseAssistantMessageV2, and how the *)
(* stream uses it: after every chunk the whole text received so far is     *)
(* parsed again, and a block that comes out complete is shown or executed. *)
(*                                                                         *)
(* A message is a sequence of tags and of runs of other characters.  The   *)
(* parser scans characters and acts at the last one of a tag, so a tag     *)
(* that is not yet whole is other text, and a chunk may end anywhere       *)
(* between two tokens.                                                     *)
(***************************************************************************)
EXTENDS AnswerBlocks, SequencesExt, FiniteSetsExt

CONSTANTS
    Tools,          \* toolUseNames
    Params,         \* toolParamNames
    FreeText,       \* FREE_TEXT_PARAMS
    Cases           \* the blocks a model may mean to send, and the closing tags
                    \* it uses for them: pairs of a sequence and [param, tool]

None == "none"

\* The two names the parser treats specially, and the close of another dialect.
\* No tool has the name of a parameter.
ASSUME NamesAssumption ==
    /\ FreeText \subseteq Params /\ "content" \in FreeText /\ "write_to_file" \in Tools
    /\ {"parameter", "function", None} \cap (Tools \cup Params) = {}
    /\ Tools \cap Params = {}

Open(n) == <<"open", n>>
Close(n) == <<"close", n>>
Text == <<"text">>
Space == <<"space">>
\* "<parameter>" has eleven characters and the parser skips ten of them.
Bracket == <<"text", ">">>

Tokens == {Text, Space} \cup ({"open", "close"} \X (Tools \cup Params \cup {"parameter", "function"}))

TextBlock(q, partial) == [kind |-> "text", text |-> q, partial |-> partial]
ToolBlock(name, params, partial) ==
    [kind |-> "tool", name |-> name, params |-> params, partial |-> partial]

\* What a model may mean: texts, and calls with the values of their parameters.
Texts == [kind : {"text"}, text : Seq(Tokens)]
Calls == [kind : {"tool"}, name : Tools, params : Seq(Params \X Seq(Tokens))]

ASSUME CasesAssumption ==
    \A c \in Cases :
      /\ c[1] \in Seq(Texts \cup Calls)
      /\ c[2] \in [param : {"own", "parameter"}, tool : {"own", "function"}]

VARIABLES
    intent,     \* the blocks the model means
    dialect,    \* the closing tags it uses for them
    received,   \* how many tokens of the answer have arrived
    blocks      \* taskState.assistantMessageContent

vars == <<intent, dialect, received, blocks>>

-----------------------------------------------------------------------------
(* parseAssistantMessageV2 *)

Trim(q) ==
    LET marks == {n \in DOMAIN q : q[n] # Space}
    IN  IF marks = {} THEN <<>> ELSE SubSeq(q, Min(marks), Max(marks))

\* st: the blocks so far; the open tool and where its body starts; the open
\* parameter and where its value starts; the parameters so far; the start of
\* the open text, 0 when there is none.
Start == [blocks |-> <<>>, tool |-> None, body |-> 0, param |-> None, value |-> 0,
          params |-> <<>>, text |-> 0]

\* Parameter p gets the value v.
Put(params, p, v) == [n \in {p} \cup DOMAIN params |-> IF n = p THEN v ELSE params[n]]

Later(m, i, tag) == \E j \in i + 1..Len(m) : m[j] = tag

\* Mutant: "</parameter>" closes every parameter.
ClosesParamAnywhere(m, st, i) ==
    st.param # None /\ m[i] \in {Close(st.param), Close("parameter")}

\* The parameter's own closing tag, or "</parameter>", which in free text must
\* not be followed by the own one.
ClosesParam(m, st, i) ==
    /\ st.param # None
    /\ \/ m[i] = Close(st.param)
       \/ m[i] = Close("parameter") /\ (st.param \in FreeText => ~Later(m, i, Close(st.param)))

AfterParam(m, st, i) ==
    IF ClosesParam(m, st, i)
      THEN [st EXCEPT !.param = None,
                      !.params = Put(@, st.param, Trim(SubSeq(m, st.value, i - 1)))]
      ELSE st

\* Mutant: a parameter's closing tag closes the tool, too.
ClosesToolAtAnyTag(m, tool, i) ==
    \/ m[i] = Close(tool)
    \/ m[i][1] = "close" /\ ~Later(m, i, Close(tool))

\* The tool's own closing tag, or (mismatchedToolCloseTagAt) any closing tag
\* that is not a parameter's, if the own one does not follow.
ClosesTool(m, tool, i) ==
    \/ m[i] = Close(tool)
    \/ /\ m[i][1] = "close" /\ m[i][2] \notin Params
       /\ ~Later(m, i, Close(tool))

\* A write's content reaches from the first "<content>" to the last
\* "</content>" of its body, or, if there is none, from "<parameter>" on.
FinalParams(st, body) ==
    LET At(tag) == {n \in DOMAIN body : body[n] = tag}
        Spans(n) == At(Open(n)) # {} /\ At(Close(n)) # {} /\ Max(At(Close(n))) > Min(At(Open(n)))
        Inside(n) == SubSeq(body, Min(At(Open(n))) + 1, Max(At(Close(n))) - 1)
        Content(v) == Put(st.params, "content", Trim(v))
    IN  CASE st.tool = "write_to_file" /\ Spans("content") -> Content(Inside("content"))
          [] /\ st.tool = "write_to_file" /\ ~Spans("content")
             /\ "content" \notin DOMAIN st.params \/ st.params["content"] = <<>>
             /\ Spans("parameter") -> Content(<<Bracket>> \o Inside("parameter"))
          [] OTHER -> st.params

\* At token i, outside a parameter of an open tool.
InTool(m, st, i) ==
    CASE m[i] \in {Open(p) : p \in Params} -> [st EXCEPT !.param = m[i][2], !.value = i + 1]
      [] ClosesTool(m, st.tool, i) ->
           [Start EXCEPT !.blocks =
              Append(st.blocks, ToolBlock(st.tool, FinalParams(st, SubSeq(m, st.body, i - 1)), FALSE))]
      [] OTHER -> st

WithText(st, q, partial) ==
    IF q = <<>> THEN st.blocks ELSE Append(st.blocks, TextBlock(q, partial))

\* At token i, outside a tool.
InText(m, st, i) ==
    LET q == IF st.text = 0 THEN <<>> ELSE Trim(SubSeq(m, st.text, i - 1)) IN
    IF m[i] \in {Open(t) : t \in Tools}
      THEN [Start EXCEPT !.blocks = WithText(st, q, FALSE), !.tool = m[i][2], !.body = i + 1]
      ELSE [st EXCEPT !.text = IF @ = 0 THEN i ELSE @]

AtToken(m, st, i) ==
    LET p == AfterParam(m, st, i) IN
    CASE p.tool = None -> InText(m, p, i)
      [] p.tool # None /\ p.param = None -> InTool(m, p, i)
      [] OTHER -> p

\* Mutant: what is open at the end of the input is complete.
AtEndComplete(m, st) ==
    LET rest == Trim(SubSeq(m, st.value, Len(m)))
        params == IF st.param = None THEN st.params ELSE Put(st.params, st.param, rest)
    IN  IF st.tool # None THEN Append(st.blocks, ToolBlock(st.tool, params, FALSE))
        ELSE IF st.text = 0 THEN st.blocks
        ELSE WithText(st, Trim(SubSeq(m, st.text, Len(m))), TRUE)

\* What is open at the end of the input comes out as a partial block.
AtEnd(m, st) ==
    LET rest == Trim(SubSeq(m, st.value, Len(m)))
        params == IF st.param = None THEN st.params ELSE Put(st.params, st.param, rest)
    IN  IF st.tool # None THEN Append(st.blocks, ToolBlock(st.tool, params, TRUE))
        ELSE IF st.text = 0 THEN st.blocks
        ELSE WithText(st, Trim(SubSeq(m, st.text, Len(m))), TRUE)

\* The state after each token.
Scan(m) ==
    LET at[i \in 0..Len(m)] == IF i = 0 THEN Start ELSE AtToken(m, at[i - 1], i)
    IN  at

Parse(m) == AtEnd(m, Scan(m)[Len(m)])

-----------------------------------------------------------------------------
(* The model's side: blocks are written out with the tags of its dialect. *)

CloseOf(name, d) == Close(IF d = "own" THEN name ELSE d)

RenderParam(p, d) == <<Open(p[1])>> \o p[2] \o <<CloseOf(p[1], d.param), Space>>

Render(b, d) ==
    IF b.kind = "text" THEN b.text
    ELSE <<Open(b.name)>> \o FlattenSeq([n \in DOMAIN b.params |-> RenderParam(b.params[n], d)])
         \o <<CloseOf(b.name, d.tool)>>

Answer == FlattenSeq([n \in DOMAIN intent |-> Render(intent[n], dialect)])

\* The blocks that are meant, in the parser's form.
Meant ==
    [n \in DOMAIN intent |->
       IF intent[n].kind = "text" THEN TextBlock(intent[n].text, n = Len(intent))
       ELSE ToolBlock(intent[n].name,
                      [p \in {q[1] : q \in ToSet(intent[n].params)} |->
                         (CHOOSE q \in ToSet(intent[n].params) : q[1] = p)[2]], FALSE)]

Init ==
    /\ \E c \in Cases : intent = c[1] /\ dialect = c[2]
    /\ received = 0 /\ blocks = <<>>

\* A chunk arrives, and all that has arrived is parsed.
Chunk ==
    /\ \E n \in received + 1..Len(Answer) : received' = n
    /\ blocks' = Parse(SubSeq(Answer, 1, received'))
    /\ UNCHANGED <<intent, dialect>>

Spec == Init /\ [][Chunk]_vars

-----------------------------------------------------------------------------
(* Properties. *)

\* What a block says between its tags.
Written(b) ==
    IF b.kind = "text" THEN ToSet(b.text) ELSE UNION {ToSet(p[2]) : p \in ToSet(b.params)}

\* The value of parameter p of call b can be told from its closing tag: it holds
\* neither that tag nor "</parameter>", but free text that is closed by its own
\* tag may hold "</parameter>", and the content of a write its own closing tag.
ClearValue(p, b, d) ==
    LET held == ToSet(p[2]) IN
    /\ Trim(p[2]) = p[2]
    /\ Close("parameter") \in held => d.param = "own" /\ p[1] \in FreeText
    /\ Close(p[1]) \in held =>
         /\ d = [param |-> "own", tool |-> "own"]
         /\ b.name = "write_to_file" /\ p[1] = "content"
         /\ held \cap ({Open(n) : n \in Params} \cup {Close(b.name)}) = {}

\* The parameters of a call differ; nothing in a write looks like its content
\* but the content.
ClearCall(b, d) ==
    /\ \A p \in ToSet(b.params) : ClearValue(p, b, d)
    /\ \A m, n \in DOMAIN b.params : b.params[m][1] = b.params[n][1] => m = n
    /\ b.name = "write_to_file" =>
         /\ \A p \in ToSet(b.params) :
              p[1] # "content" => ToSet(p[2]) \cap {Open("content"), Close("content")} = {}
         /\ \/ \E p \in ToSet(b.params) : p[1] = "content" /\ p[2] # <<>>
            \/ Open("parameter") \notin Written(b)

\* A text is not empty, holds no tag that opens a tool, and follows no other text.
ClearText(q, n) ==
    /\ q[n].text # <<>> /\ Trim(q[n].text) = q[n].text
    /\ ToSet(q[n].text) \cap {Open(t) : t \in Tools} = {}
    /\ n > 1 => q[n - 1].kind = "tool"

\* Blocks q, closed in dialect d, can be told apart.  Tags of another dialect
\* close only what is nowhere closed by its own tag; a tool must be closed by
\* its own if its parameters are not.
ClearAnswer(q, d) ==
    LET Absent(tags) == \A b \in ToSet(q) : Written(b) \cap tags = {} IN
    /\ \A n \in DOMAIN q : IF q[n].kind = "text" THEN ClearText(q, n) ELSE ClearCall(q[n], d)
    /\ d.param # "own" => d.tool = "own" /\ Absent({Close(p) : p \in FreeText})
    /\ d.tool # "own" => Absent({Close(t) : t \in Tools})

\* The whole answer is understood as it was meant, also when its free text holds
\* tags and when its tags are closed in another dialect.
Understood == ClearAnswer(intent, dialect) /\ received = Len(Answer) => blocks = Meant

\* Every tag is closed by its own, no text holds a tag that opens a tool, and
\* no value holds a tag that closes it.
Unambiguous ==
    /\ dialect = [param |-> "own", tool |-> "own"]
    /\ \A b \in ToSet(intent) :
         IF b.kind = "text" THEN ToSet(b.text) \cap {Open(t) : t \in Tools} = {}
         ELSE \A p \in ToSet(b.params) :
                ToSet(p[2]) \cap {Close("parameter"), Close(p[1])} = {}

\* The blocks as TaskTurn sees them.
Shown == [n \in DOMAIN blocks |->
            [kind |-> blocks[n].kind, partial |-> blocks[n].partial, closed |-> ~blocks[n].partial]]

\* What TaskTurn takes for granted: the parser's blocks are well formed whatever
\* it is given, and those of a growing, unambiguous answer extend the ones
\* before, with complete blocks kept as they were.
FeedsTaskTurn ==
    [][/\ Shown' \in Seq(Block) /\ WellFormed(Shown')
       /\ Unambiguous => /\ Extends(Shown, Shown')
                         /\ \A n \in DOMAIN blocks : blocks[n].partial \/ blocks'[n] = blocks[n]]_blocks

\* A call that comes out complete, which is executed at once, is the call of
\* the whole answer.  The comments say a foreign closing tag counts only when
\* the own one never arrives.
CompleteIsFinal ==
    \A n \in DOMAIN blocks :
      blocks[n].kind = "tool" /\ ~blocks[n].partial =>
        n <= Len(Parse(Answer)) /\ Parse(Answer)[n] = blocks[n]

\* CompleteIsFinal does hold for an unambiguous answer, whatever other tags its
\* values hold and wherever the chunks end.
UnambiguousIsFinal == Unambiguous => CompleteIsFinal
=============================================================================
