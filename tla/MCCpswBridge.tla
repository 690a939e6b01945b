---- MODULE MCCpswBridge ----
(* The instances of CpswBridge. *)
EXTENDS CpswBridge, TLC
MCPortVlan == [i \in {1, 2} |-> i]
MCMac == [i \in {1, 2} |-> IF i = 1 THEN "m1" ELSE "m2"]
MCBridges == Permutations(Bridges)
====
