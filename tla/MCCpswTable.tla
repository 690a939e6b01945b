---- MODULE MCCpswTable ----
(* The instances of CpswTable. *)
EXTENDS CpswTable
MCMasks == {{}, {0}, {0, 1}, {1}}
====
