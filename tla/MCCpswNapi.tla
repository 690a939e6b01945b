---- MODULE MCCpswNapi ----
(* Instances of CpswNapi: the boards and directions are initial states. *)
EXTENDS CpswNapi
====
