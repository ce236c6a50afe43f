----------------------------- MODULE MCTrafficPoll -----------------------------
(* TrafficPoll for TLC: one user with a limit of one device.                 *)
EXTENDS TrafficPoll, TLC

MCDeviceLimit == [u \in Users |-> 1]
MCUnlimited == [u \in Users |-> 0]
Symmetric == Permutations(Connections) \union Permutations(Addresses)
===============================================================================
