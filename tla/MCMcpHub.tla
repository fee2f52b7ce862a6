------------------------------ MODULE MCMcpHub ------------------------------
(* McpHub with a history variable that tells whether operations met.        *)
EXTENDS McpHub, TLC

CONSTANTS a, b

One == {a}
Two == {a, b}

VARIABLES
    met,        \* two operations were under way at the same time
    settled     \* not so since a change of the file was reported with none under way

Busy(all) == {o \in DOMAIN all : all[o].pc # "none"}
Meet == Cardinality(Busy(ops')) > 1

MCInit == Init /\ met = FALSE /\ settled = FALSE
MCNext ==
    /\ Next
    /\ met' = (met \/ Meet)
    /\ settled' = (~Meet /\ (settled \/ Watch))
MCSpec == MCInit /\ [][MCNext]_<<vars, met, settled>> /\ Fairness

-----------------------------------------------------------------------------
AtRest == Busy(ops) = {} /\ ~changed /\ ~broken

\* Whatever operations that met have made of the list, the next change of the
\* settings that is taken up alone puts it right: every server is there once, with
\* its own configuration, and no tool is approved by itself unless the settings say
\* so.  (A process that cannot be started is not there.)
FollowsFile ==
    AtRest /\ settled =>
      \A s \in Servers :
        LET e == file[s]
        IN  /\ e # None /\ s \notin stdio => Known(s)
            /\ Known(s) =>
                 /\ e # None /\ Len(connections[s]) = 1
                 /\ Find(s).config = Parsed(e) /\ Find(s).disabled = e.disabled
                 /\ Find(s).allow = "yes" => e.allow

\* As long as operations do not meet, no transport is forgotten.
NothingForgotten ==
    [][\A s \in Servers : \A i \in DOMAIN connections[s] :
         ~met' /\ ~connections[s][i].closed =>
           \E k \in DOMAIN connections'[s] :
             connections'[s][k].by \in {0, connections[s][i].by}]_vars

\* Requests to the model, which wait while servers are being connected, are not
\* kept waiting for good, unless the file is broken.
ConnectingEnds == isConnecting ~> (~isConnecting \/ broken)

\* What deleteServerRPC returns are the servers that remain: "Array of remaining
\* MCP servers" (McpHub.ts:1012).  A process that cannot be started is left aside.
RemainingReturned ==
    [][\A o \in DOMAIN ops :
         settled /\ Finish(o) /\ ops[o].what = "delete"
           => \A s \in Names(ops[o].files) \ stdio : Known(s)]_vars
=============================================================================
