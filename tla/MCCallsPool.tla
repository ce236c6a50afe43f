----------------------------- MODULE MCCallsPool ------------------------------
(* Two rooms are enough: a replaced one and one that stays. *)
EXTENDS CallsPool
===============================================================================
