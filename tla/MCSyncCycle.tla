------------------------------ MODULE MCSyncCycle ------------------------------
(* SyncCycle for TLC.  Users do not interact but through the revision of the *)
(* state, which the operator's settings and quotas move as well: one will do.*)
EXTENDS SyncCycle
===============================================================================
