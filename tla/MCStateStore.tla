----------------------------- MODULE MCStateStore -----------------------------
(* StateStore for TLC: two sessions, and a configuration file per question.  *)
EXTENDS StateStore, TLC
===============================================================================
