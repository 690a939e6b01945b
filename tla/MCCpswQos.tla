---- MODULE MCCpswQos ----
(* The instances of CpswQos. *)
EXTENDS CpswQos
====
