------------------------------ MODULE MCAntiDpi -------------------------------
(* One address that Honeypot also holds and one that it does not. *)
EXTENDS AntiDpi
===============================================================================
