--------------------------- MODULE MCEvidenceSync ---------------------------
(* Small instances of EvidenceSync: two drains and two EvidenceSync        *)
(* objects; with a history of what there was before the disk first refused *)
(* a write.                                                                *)
EXTENDS EvidenceSync, TLC

CONSTANTS f1, f2, i1, i2

TwoFlows == {f1, f2}
TwoInsts == {i1, i2}
AllFaults == FaultKinds

\* Slots are interchangeable.
Slots == Permutations(TwoFlows) \cup Permutations(TwoInsts)

VARIABLES
    refused,    \* the disk has refused a write
    seen        \* the log as it was then, or is if it has not

Now == [recorded |-> trail, stored |-> IF key = 0 THEN <<>> ELSE store[key],
        confirmed |-> cursor]

MCInit == Init /\ refused = FALSE /\ seen = Now
MCNext ==
    /\ Next
    /\ refused' = (refused \/ disk' # [trail |-> trail', cursor |-> cursor', key |-> key'])
    /\ seen' = IF refused' THEN seen ELSE Now'
MCSpec == MCInit /\ [][MCNext]_<<vars, refused, seen>>

-----------------------------------------------------------------------------
\* As long as the disk takes every write, the push implements a reliable ordered
\* log: the server's trail is at all times a prefix of the local one, and the
\* cursor stays within it.
Log == INSTANCE AuditLog WITH
         Entry <- Entries,
         recorded <- seen.recorded,
         stored <- seen.stored,
         confirmed <- seen.confirmed

ImplementsLog == Log!LogSpec

\* ... and a project has one trail: all of its entries are under one project key.
\* (Not so when the disk refuses the write of a new key and the process dies.)
OneTrail ==
    ~refused => \A j, k \in 1..MaxKeys : store[j] # <<>> /\ store[k] # <<>> => j = k
=============================================================================
