----------------------------- MODULE MCCheckpoints --------------------------
(* Checkpoints with history variables that tell whether the commits of a    *)
(* conversation ever met one another, a cancelling or a failure.            *)
EXTENDS Checkpoints, FiniteSets

VARIABLES
    calm,       \* commits were made one at a time, and each was seen to its end
    crossed,    \* two pieces of work added files at the same time
    late        \* the conversation was cut while other work meant to save it

Making(J) == {j \in J : j.op \in Committing}
Adding(J) == {j \in J : j.pc \in {"add", "show"}}

\* Something other than its own next step happens to a commit.
Disturbed ==
    /\ Making(jobs) # {}
    /\ restore' # restore \/ Cancel \/ Crash \/ \E j \in jobs : CommitFails(j)

MCInit == Init /\ calm = TRUE /\ crossed = FALSE /\ late = FALSE
MCNext ==
    /\ Next
    /\ calm' = (calm /\ Cardinality(Making(jobs')) <= 1 /\ ~Disturbed)
    /\ crossed' = (crossed \/ Cardinality(Adding(jobs')) > 1)
    /\ late' = (late \/ (cut' # cut /\ (restore.task # made \/ jobs # {})))
MCSpec == MCInit /\ [][MCNext]_<<vars, calm, crossed, late>>

\* As long as commits do not meet, a message carries the commit that was made
\* for it, and every checkpoint message gets one.
MarkedByOwn ==
    calm => \A i \in DOMAIN task[made].messages :
              LET m == task[made].messages[i]
              IN  IF m.hash # 0 THEN m.hash = m.id
                  ELSE m.kind = "checkpoint" => Making(jobs) # {}

\* A nested repository is committed as a link, without its files, only if two
\* pieces of work added files at the same time.
FilesAreIn == links # {} => crossed

\* What a restoring cut off stays cut off, in the file and on display, unless
\* the work of another Task object was still to be saved.
CutStaysCut ==
    ~late => (Ids(saved) \cup Ids(task[made].messages)) \cap cut = {}
=============================================================================
