------------------------- MODULE MCAssistantMessage -------------------------
(* Answers for AssistantMessage: up to two texts around a call, or two      *)
(* calls; values of free text with tags in them.                            *)
EXTENDS AssistantMessage

MCTools == {"write_to_file", "read_file", "replace_in_file"}
MCParams == {"path", "content", "diff"}
MCFreeText == {"content", "diff"}

Said == [kind |-> "text", text |-> <<Text>>]
Write(v) == [kind |-> "tool", name |-> "write_to_file", params |-> <<<<"path", <<Text>>>>, <<"content", v>>>>]
Replace(v) == [kind |-> "tool", name |-> "replace_in_file", params |-> <<<<"path", <<Text>>>>, <<"diff", v>>>>]
Read == [kind |-> "tool", name |-> "read_file", params |-> <<<<"path", <<Text>>>>>>]

\* Free text that starts and ends with text, with up to two tags in between.
Values(tags) ==
    {<<Text>>} \cup {<<Text, a, Text>> : a \in tags} \cup {<<Text, a, b, Text>> : a, b \in tags}

Around(b) == {<<b>>, <<Said, b>>, <<b, Said>>, <<Said, b, Said>>}

OpenTags == {Open("read_file"), Open("path"), Open("parameter"), Space}
CloseTags == {Close("read_file"), Close("path"), Close("function")}
DialectTags == {Close("parameter"), Close("content")}

Own == [param |-> "own", tool |-> "own"]
ToolMixed == [Own EXCEPT !.tool = "function"]
ParamMixed == [Own EXCEPT !.param = "parameter"]

Plain == UNION {Around(Write(v)) : v \in Values(OpenTags \cup CloseTags)} \cup Around(Read)
           \cup {<<Read, Said, Read>>, <<Read, Write(<<Text>>)>>, <<Write(<<Text>>), Read>>}
Tagged == UNION {Around(Write(v)) : v \in Values(DialectTags \cup CloseTags)}
            \cup {<<Replace(v)>> : v \in Values({Close("parameter")} \cup OpenTags \cup CloseTags)}
OneCall == UNION {Around(Write(v)) : v \in Values(OpenTags)} \cup Around(Read)

PlainCases == Plain \X {Own}
TaggedCases == Tagged \X {Own}
WholeCases == PlainCases \cup TaggedCases \cup (OneCall \X {ToolMixed, ParamMixed})

\* Understood says something of every case.
ASSUME AllClear == \A c \in WholeCases : ClearAnswer(c[1], c[2])
=============================================================================
