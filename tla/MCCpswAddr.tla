---- MODULE MCCpswAddr ----
(* The instances of CpswAddr. *)
EXTENDS CpswAddr
MCPortVlan == [i \in {1, 2} |-> i]
MCFirstMac == [i \in {1, 2} |-> IF i = 1 THEN "m1" ELSE "m2"]
====
