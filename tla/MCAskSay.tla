------------------------------ MODULE MCAskSay ------------------------------
(* AskSay with history variables about the questions that are waited for.   *)
EXTENDS AskSay

VARIABLES
    meanwhile,  \* answers that were on their way when the question was asked
    spoken      \* somebody else spoke since

Posed(c) == asking'[c] # asking[c] /\ asking'[c] # 0

MCInit ==
    /\ Init
    /\ meanwhile = [c \in Callers |-> {}] /\ spoken = [c \in Callers |-> FALSE]

MCNext ==
    /\ Next
    /\ meanwhile' = [c \in Callers |-> IF Posed(c) THEN transit
                                       ELSE IF asking'[c] = 0 THEN {} ELSE meanwhile[c]]
    /\ spoken' = [c \in Callers |-> asking'[c] # 0 /\ ~Posed(c)
                                      /\ (spoken[c] \/ log' # log)]

MCSpec == MCInit /\ [][MCNext]_<<vars, meanwhile, spoken>> /\ Fairness

-----------------------------------------------------------------------------
\* Something newer was said in the millisecond of a question that is waited for.
Collided ==
    \E c \in Callers : \E i \in DOMAIN log :
      Waits(c) /\ i > asking[c] /\ log[i].ts = log[asking[c]].ts

\* A question is answered by the answer given to it, or by one that was being
\* recorded when it was asked; never by one that was stored before.
OwnAnswer ==
    [][\A c \in Callers :
         asking'[c] # asking[c] /\ Taken(c) /\ ~Collided
           => response \subseteq {asking[c]} \cup meanwhile[c]]_vars

\* A question is ignored only if somebody else spoke while it was waited for: the
\* agent never supersedes its own.
QuestionStands ==
    [][\A c \in Callers : asking'[c] # asking[c] /\ Ignored(c) => spoken[c]]_vars

\* An answer stored for the agent's question ends its wait, unless something
\* newer shares its millisecond.
AnswerEndsWait ==
    \A q \in 1..MaxLog :
      (asking["agent"] = q /\ response = {q}) ~> (asking["agent"] # q \/ Collided)
=============================================================================
