---------------------------- MODULE MCApplyPipeline ----------------------------
(* ApplyPipeline for TLC: one configuration per way of owning port 443.      *)
EXTENDS ApplyPipeline

CONSTANTS plain, direct, mux

MCConfigs == {plain, direct, mux}
MCFrontend == [config \in MCConfigs |-> CASE config = plain -> "none"
                                         [] config = direct -> "direct"
                                         [] config = mux -> "mux"]
MCEnabled == [config \in MCConfigs |-> CASE config = plain -> {}
                                        [] config = direct -> {2}
                                        [] config = mux -> {1, 2}]
===============================================================================
