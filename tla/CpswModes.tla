------------------------------- MODULE CpswModes -------------------------------
(***************************************************************************)
(* What the driver puts into the table of the ALE for the host port and    *)
(* for a port, in each of its two modes: in dual-EMAC mode every port has  *)
(* a VLAN of its own with the host, in switch mode all are in VLAN 0, the  *)
(* default VLAN (cpsw/eth.c; data.default_vlan is never set).              *)
(***************************************************************************)
EXTENDS CpswAle

CONSTANTS
  PortVlan, \* [port -> dual_emac_res_vlan]
  STPA      \* the address of the spanning tree protocol

ASSUME StpaAssumption == STPA \in Groups \ {BCAST}

Ifc == Ports \ {HOST}

\* The driver relies on it that the device tree gives each port a VLAN of its own; a port that is
\* given none gets the one with its number.
ASSUME PortVlanAssumption ==
  /\ PortVlan \in [Ifc -> Vids \ {0}]
  /\ \A i, j \in Ifc : PortVlan[i] = PortVlan[j] => i = j

Both(i) == {i, HOST}

\* A series of calls remembers the first that failed.
Then(a, b) == [b EXCEPT !.ret = IF a.ret = OK THEN @ ELSE a.ret]

\* cpsw_init_host_port_dual_mac.
HostPortDual(a) == AddVlan(a, 0, Ports, Ports, {}, {})

\* cpsw_port_add_dual_emac_def_ale_entries; nobody looks at the results.
DualEntries(a, i, mac) ==
  LET vlan == AddVlan(a, PortVlan[i], Both(i), Both(i), Both(i), {})
      bcast == AddMcast(vlan, BCAST, {HOST}, FALSE, PortVlan[i])
  IN Then(Then(vlan, bcast), AddUcast(bcast, mac, HOST, TRUE, PortVlan[i]))

\* cpsw_init_host_port_switch.
HostPortSwitch(a) ==
  AddMcast(AddVlan(a, 0, Ports, Ports, Ports, Ifc), STPA, {HOST}, TRUE, 0)

\* The entries of cpsw_port_add_switch_def_ale_entries.
SwitchEntries(a, i, mac) ==
  LET bcast == AddMcast(a, BCAST, Both(i), FALSE, 0)
  IN Then(bcast, AddUcast(bcast, mac, HOST, FALSE, 0))
=============================================================================
