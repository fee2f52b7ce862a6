---------------------------- MODULE AnswerBlocks ----------------------------
(***************************************************************************)
(* What parseAssistantMessageV2 hands to a turn: the blocks of the text    *)
(* received so far, without their text.  AssistantMessage shows that these *)
(* are the blocks of the parser, TaskTurn works on them.                   *)
(***************************************************************************)
EXTENDS Naturals, Sequences

\* closed: the closing tag was received, or, for text, something after it.
Block == [kind : {"text", "tool"}, partial : BOOLEAN, closed : BOOLEAN]

\* All blocks but the last are closed, and text is open while it is last; there
\* is a call between two texts.
WellFormed(c) ==
    /\ \A n \in DOMAIN c : c[n].closed = ~c[n].partial /\ (c[n].partial => n = Len(c))
    /\ c # <<>> /\ c[Len(c)].kind = "text" => c[Len(c)].partial
    /\ \A n \in DOMAIN c : n > 1 => "tool" \in {c[n - 1].kind, c[n].kind}

\* From one chunk to a later one: blocks before the last stay; an open last
\* block goes on or ends, or, if text, may turn into an opening tag.
Extends(c, d) ==
    /\ Len(c) <= Len(d)
    /\ \A n \in DOMAIN c :
         d[n] = c[n] \/ (c[n].partial /\ (c[n].kind = "tool" => d[n].kind = "tool"))
=============================================================================
