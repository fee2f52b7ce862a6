-------------------------- MODULE MCTaskLifecycle ---------------------------
(* TaskLifecycle with up to two calls of the user and one of a failed task, *)
(* and a history variable that tells whether two calls ever overlapped.     *)
EXTENDS TaskLifecycle, TLC

CONSTANTS u1, u2, t1

TwoUsers == {u1, u2}
OneTask == {t1}

\* The slots of user calls are interchangeable.  Used for safety runs only.
Slots == Permutations(TwoUsers)

VARIABLE overlapped

MCInit == Init /\ overlapped = FALSE
MCNext ==
    /\ Next
    /\ overlapped' = (overlapped \/ Cardinality({c \in Calls : call'[c].pc # "idle"}) > 1)
MCSpec == MCInit /\ [][MCNext]_<<vars, overlapped>>

\* As long as no two calls overlap, a task that still works is the one on
\* display: each call aborts the task it drops before another is made.
LiveIsCurrent == ~overlapped => \A n \in 1..made : ~task[n].aborted => n = current
=============================================================================
