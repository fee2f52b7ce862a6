------------------------------ MODULE AuditLog ------------------------------
(***************************************************************************)
(* What the evidence push promises, without flushes, batches or failures:  *)
(* entries are recorded locally; an authoritative trail takes them over in *)
(* the order they were recorded, leaving none out; and what is counted as  *)
(* confirmed is never more than what the authoritative trail holds.        *)
(***************************************************************************)
EXTENDS Naturals, Sequences

CONSTANT Entry

VARIABLES
    recorded,   \* the local trail
    stored,     \* the authoritative trail
    confirmed   \* how many entries the local side believes stored

logVars == <<recorded, stored, confirmed>>

LogInit == recorded = <<>> /\ stored = <<>> /\ confirmed = 0

Record ==
    /\ \E e \in Entry : recorded' = Append(recorded, e)
    /\ UNCHANGED <<stored, confirmed>>

Store ==
    /\ Len(stored) < Len(recorded)
    /\ stored' = Append(stored, recorded[Len(stored) + 1])
    /\ UNCHANGED <<recorded, confirmed>>

\* The belief may also drop: entries are then sent again, and skipped.
Confirm ==
    /\ confirmed' \in 0..Len(stored)
    /\ UNCHANGED <<recorded, stored>>

LogSpec == LogInit /\ [][Record \/ Store \/ Confirm]_logVars
=============================================================================
