--------------------------- MODULE MCEvidenceCallers --------------------------
(* Small instances of EvidenceCallers: two drains and two EvidenceSync     *)
(* objects.                                                                *)
EXTENDS EvidenceCallers

CONSTANTS f1, f2, i1, i2

TwoFlows == {f1, f2}
TwoInsts == {i1, i2}
OneInst == {i1}

NoFaults == {}
RefusalFaults == {"reject", "crash"}
=============================================================================
