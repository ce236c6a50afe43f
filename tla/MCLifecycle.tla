------------------------------ MODULE MCLifecycle ------------------------------
(* Lifecycle for TLC: two plugins, the first of which needs a domain.        *)
EXTENDS Lifecycle
CONSTANTS hysteria, honeypot
MCCatalog == <<hysteria, honeypot>>
===============================================================================
