----------------------------- MODULE MCStateFiles -----------------------------
(* StateFiles for TLC.                                                       *)
EXTENDS StateFiles
===============================================================================
