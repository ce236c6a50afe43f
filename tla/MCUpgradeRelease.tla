--------------------------- MODULE MCUpgradeRelease ---------------------------
(* A daemon, a timer and its job, two releases after the first: the first     *)
(* upgrade replaces the directory that bootstrap made, the second one         *)
(* switches a link.                                                           *)
EXTENDS UpgradeRelease

CONSTANTS daemon, timer, sync

MCTimer == [job \in {sync} |-> timer]
===============================================================================
