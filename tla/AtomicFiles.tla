----------------------------- MODULE AtomicFiles -----------------------------
(***************************************************************************)
(* What one save_state promises whoever takes the state lock next: either  *)
(* the primary file is new and the backup holds what it replaced, or the   *)
(* primary is untouched and the backup is old or a copy of the primary.    *)
(* StateStore treats every save as one of these two steps (WriteFiles and  *)
(* Interrupted); StateFiles takes a save apart and implements this module. *)
(* A power loss may bring back an older document, but a whole one.         *)
(***************************************************************************)
EXTENDS Naturals

CONSTANTS Documents, None

VARIABLES primary, backup, outages

Init == primary = None /\ backup = None /\ outages = 0

PreviousFile == IF primary = None THEN backup ELSE primary

Write ==
    /\ primary' \in Documents
    /\ backup' = PreviousFile
    /\ UNCHANGED outages

Interrupted == backup' = PreviousFile /\ UNCHANGED <<primary, outages>>

PowerLoss ==
    /\ outages' = outages + 1
    /\ primary' \in Documents \union {None}

Next == Write \/ Interrupted \/ PowerLoss

Spec == Init /\ [][Next]_<<primary, backup, outages>>
===============================================================================
