----------------------------- MODULE MCCpswIfc -----------------------------
(***************************************************************************)
(* CpswIfc on small instances.                                             *)
(***************************************************************************)
EXTENDS CpswIfc

NoFaults == {}
FillFault == {"fill"}
AllOpenFaults == {"pm", "queues", "pool", "fill"}
AllResumeFaults == {"pm", "pool", "fill"}

\* All but "fill", after which descriptors stay on the channels and the devices
\* cannot be opened again.
EthtoolFaultsButFill == {"descs", "create", "queues", "pool"}
=============================================================================
