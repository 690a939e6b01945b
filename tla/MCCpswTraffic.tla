--------------------------- MODULE MCCpswTraffic ---------------------------
(***************************************************************************)
(* CpswTraffic on small instances.                                         *)
(***************************************************************************)
EXTENDS CpswTraffic

CONSTANTS eth0, eth1

OneDev == {eth0}
TwoDevs == {eth0, eth1}

=============================================================================
