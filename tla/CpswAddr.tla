------------------------------- MODULE CpswAddr -------------------------------
(***************************************************************************)
(* Dual-EMAC mode: how the VLANs, the MAC addresses, the multicast groups  *)
(* and the flags of the two interfaces become entries of the ALE that they *)
(* share (cpsw/eth.c: cpsw_ndo_set_rx_mode, cpsw_ndo_vlan_rx_add_vid and   *)
(* _kill_vid, cpsw_ndo_set_mac_address, what cpsw_ndo_open and _stop do to *)
(* the ALE).                                                               *)
(*                                                                         *)
(* A handler is one step.  RTNL excludes all of them but set_rx_mode,      *)
(* which runs under the address lock of its interface alone; its calls and *)
(* those of the others are for different keys.                             *)
(*                                                                         *)
(* The users of a group on an interface are the VLAN devices above it that *)
(* have synced the group to it, and 0 for the interface itself.  The       *)
(* driver does not see them come and go: it is told the number of users    *)
(* when that has changed since it was last told (__hw_addr_ref_sync_dev),  *)
(* and finds out who they are by asking every VLAN device.                 *)
(*                                                                         *)
(* A VLAN is in the filter for a VLAN device above the interface, for      *)
(* another one (a bridge or a bond that knows VLANs), or for both.  The    *)
(* driver is called for the first and the last of them, but asks later     *)
(* only the devices (vlan_for_each, with vdev).                            *)
(***************************************************************************)
EXTENDS CpswModes, FiniteSets, FiniteSetsExt

CONSTANTS
  FirstMac, \* [Ifc -> the MAC address that an interface begins with]
  MaxOps    \* the number of operations

ASSUME FirstMacAssumption == FirstMac \in [Ifc -> Stations]

\* A VLAN has 12 bits, an address 48.
ASSUME FiniteAssumption == IsFiniteSet(Vids) /\ IsFiniteSet(Groups)

UserVids == Vids \ ({0} \cup {PortVlan[i] : i \in Ifc})
McGroups == Groups \ {BCAST, STPA}

VARIABLES
  ale,              \* the engine
  flood,            \* ALE_P0_UNI_FLOOD
  up,               \* the interfaces that are open
  mac,              \* [Ifc -> its address]
  vlans,            \* [Ifc -> the VLANs of its filter]
  devs,             \* [Ifc -> those with a VLAN device]
  bare,             \* [Ifc -> those that its last open passed over, without a device]
  users,            \* [Ifc -> [group -> its users]]
  told,             \* [Ifc -> [group -> the number of users the driver was told]]
  promisc, allmulti,\* the interfaces with IFF_PROMISC, IFF_ALLMULTI
  odd,              \* [Ifc -> what has happened to it that the driver does not cope with]
  ops

vlanVars == <<vlans, devs, bare>>
cfgVars == <<mac, vlanVars>>
flagVars == <<promisc, allmulti>>
mcVars == <<users, told>>
vars == <<ale, flood, up, cfgVars, flagVars, mcVars, odd, ops>>

\* "nomem": a call failed and nobody was told; "shared": a VLAN was in the filters of both
\* interfaces; "promisc": users changed behind IFF_PROMISC; "remac": the address changed under VLANs.
Oddities == {"nomem", "shared", "promisc", "remac"}

Init ==
  /\ ale = [table |-> Cleared, untag |-> {}, ret |-> OK]
  /\ flood = FALSE /\ up = {}
  /\ mac = FirstMac
  /\ vlans = [i \in Ifc |-> {}] /\ devs = [i \in Ifc |-> {}] /\ bare = [i \in Ifc |-> {}]
  /\ users = [i \in Ifc |-> [g \in McGroups |-> {}]]
  /\ told = [i \in Ifc |-> [g \in McGroups |-> 0]]
  /\ promisc = {} /\ allmulti = {}
  /\ odd = [i \in Ifc |-> {}]
  /\ ops = 0

Op == ops < MaxOps /\ ops' = ops + 1
Now(a) == ale' = [a EXCEPT !.ret = OK]
Others(i) == Ifc \ {i}

-----------------------------------------------------------------------------
(* VLANs.                                                                  *)

\* One that adds the port to those that the VLAN has.
AddVlanAleEntry_Modify(a, i, v) ==
  LET vlan == VlanAddModify(a, v, Both(i), {}, Both(i), IF i \in allmulti THEN {HOST} ELSE {})
      ucast == AddUcast(vlan, mac[i], HOST, FALSE, v)
  IN AddMcast(ucast, BCAST, {HOST}, FALSE, v)

\* cpsw_add_vlan_ale_entry: the VLAN, the address and broadcast in it, or nothing of it.
AddVlanAleEntry(a, i, v) ==
  LET vlan == AddVlan(a, v, Both(i), {}, Both(i), IF i \in allmulti THEN {HOST} ELSE {})
      ucast == AddUcast(vlan, mac[i], HOST, FALSE, v)
      bcast == AddMcast(ucast, BCAST, {HOST}, FALSE, v)
      Failed(b) == [b EXCEPT !.ret = ENOMEM]
  IN IF vlan.ret # OK THEN vlan
     ELSE IF ucast.ret # OK THEN Failed(DelVlan(ucast, v, {}))
     ELSE IF bcast.ret # OK THEN Failed(DelVlan(DelUcast(bcast, mac[i], v), v, {}))
     ELSE bcast

\* The VLANs that keep the ports apart are reserved.
VlanAllowed(v) == \A i \in Ifc : v # PortVlan[i]

\* cpsw_ndo_vlan_rx_add_vid, for a VLAN device or not; the network core keeps the VLAN in its
\* filter if there is no error.
RxAddVid(i, v, dev) ==
  /\ Op /\ v \in Vids \ vlans[i]
  /\ dev => v \in UserVids
  /\ LET a == IF v = 0 THEN ale
              ELSE IF VlanAllowed(v) THEN AddVlanAleEntry(ale, i, v) ELSE [ale EXCEPT !.ret = "EINVAL"]
         share == {j \in Others(i) : v \in vlans[j] /\ v # 0}
     IN /\ Now(a)
        /\ vlans' = [vlans EXCEPT ![i] = IF a.ret = OK THEN @ \cup {v} ELSE @]
        /\ devs' = [devs EXCEPT ![i] = IF a.ret = OK /\ dev THEN @ \cup {v} ELSE @]
        /\ odd' = [j \in Ifc |-> IF share # {} /\ j \in share \cup {i} THEN odd[j] \cup {"shared"}
                                 ELSE odd[j]]
  /\ UNCHANGED <<flood, up, mac, bare, flagVars, mcVars>>

\* A VLAN device comes to a VLAN that is in the filter for another, or goes and leaves it to that:
\* the driver is not called.
VlanDevice(i, v) ==
  /\ Op /\ v \in vlans[i] \cap UserVids
  /\ \/ v \notin devs[i] /\ devs' = [devs EXCEPT ![i] = @ \cup {v}]
     \/ /\ v \in devs[i] /\ \A g \in McGroups : v \notin users[i][g]
        /\ devs' = [devs EXCEPT ![i] = @ \ {v}]
  /\ UNCHANGED <<ale, flood, up, mac, vlans, bare, flagVars, mcVars, odd>>

\* A removal that counts on the flush for broadcast.
KillVlan_FlushOnly(a, i, v) ==
  FlushMulticast(DelUcast(DelVlan(a, v, {}), mac[i], v), {HOST}, {v})

\* The calls of cpsw_ndo_vlan_rx_kill_vid; each is made whether or not the last one failed.
KillVlan(a, i, v) ==
  FlushMulticast(DelMcast(DelUcast(DelVlan(a, v, {}), mac[i], v), BCAST, {}, v), {HOST}, {v})

\* cpsw_ndo_vlan_rx_kill_vid, when the VLAN device, if there is one, is closed.
RxKillVid(i, v) ==
  /\ Op /\ v \in vlans[i]
  /\ \A g \in McGroups : v \notin users[i][g]
  /\ Now(IF v # 0 /\ VlanAllowed(v) THEN KillVlan(ale, i, v) ELSE ale)
  /\ vlans' = [vlans EXCEPT ![i] = @ \ {v}]
  /\ devs' = [devs EXCEPT ![i] = @ \ {v}]
  /\ bare' = [bare EXCEPT ![i] = @ \ {v}]
  /\ UNCHANGED <<flood, up, mac, flagVars, mcVars, odd>>

\* cpsw_restore: the VLANs that have a device, as far as they can be had.
Restore(a, i) ==
  FoldSet(LAMBDA v, b : Then(b, AddVlanAleEntry(b, i, v)), [a EXCEPT !.ret = OK], devs[i])

-----------------------------------------------------------------------------
(* Groups.                                                                 *)

VlanUsers(i, g, usr) == usr[i][g] \ {0}

\* cpsw_add_mc_addr: an entry in each VLAN whose device uses the group, and one in the VLAN of the
\* port if not all users are such devices; the first failure ends it.
AddMcAddr(a, i, g, usr) ==
  LET vlanned == FoldSet(LAMBDA v, b : IF b.ret # OK THEN b ELSE AddMcast(b, g, {HOST}, FALSE, v),
                         [a EXCEPT !.ret = OK], VlanUsers(i, g, usr))
  IN IF vlanned.ret = OK /\ Cardinality(VlanUsers(i, g, usr)) < Cardinality(usr[i][g])
     THEN AddMcast(vlanned, g, {HOST}, FALSE, PortVlan[i]) ELSE vlanned

DelFrom(a, g, vids) == FoldSet(LAMBDA v, b : DelMcast(b, g, {}, v), a, vids)

\* cpsw_del_mc_addr: the entries of the VLANs whose device does not use the group go, and that of
\* the port if the users that are left are all such devices.
DelMcAddr(a, i, g, usr) ==
  LET vlanned == DelFrom(a, g, devs[i] \ VlanUsers(i, g, usr))
  IN IF VlanUsers(i, g, usr) = usr[i][g] THEN DelMcast(vlanned, g, {}, PortVlan[i]) ELSE vlanned

\* cpsw_purge_all_mc: the entries of the users.
PurgeMc(a, i, g) ==
  LET vlanned == DelFrom(a, g, VlanUsers(i, g, users))
  IN IF Cardinality(VlanUsers(i, g, users)) < told[i][g]
     THEN DelMcast(vlanned, g, {}, PortVlan[i]) ELSE vlanned

\* __hw_addr_ref_unsync_dev in cpsw_ndo_stop.
PurgeAllMc(a, i) ==
  FoldSet(LAMBDA g, b : IF told[i][g] = 0 THEN b ELSE PurgeMc(b, i, g), a, McGroups)

\* __hw_addr_ref_sync_dev, for the groups with fewer users than the driver knows, then for those
\* with more until one fails.
Fewer(i, usr) == {g \in McGroups : Cardinality(usr[i][g]) < told[i][g]}
More(i, usr) == {g \in McGroups : Cardinality(usr[i][g]) > told[i][g]}

SyncMc(a, i, usr) ==
  FoldSet(LAMBDA g, s : IF s.ale.ret # OK THEN s
                        ELSE LET b == AddMcAddr(s.ale, i, g, usr)
                             IN [ale |-> b, done |-> IF b.ret = OK THEN s.done \cup {g} ELSE s.done],
          [ale |-> [FoldSet(LAMBDA g, b : DelMcAddr(b, i, g, usr), a, Fewer(i, usr)) EXCEPT !.ret = OK],
           done |-> Fewer(i, usr)],
          More(i, usr))

-----------------------------------------------------------------------------
(* Flags and addresses.                                                    *)

\* One for the interface alone.
SetPromiscious_Alone(pro, i) == i \in pro

\* cpsw_set_promiscious: the host port floods for both interfaces or for none.
SetPromiscious(pro, i) == pro # {}

\* cpsw_ndo_set_rx_mode of an open interface, given its users and the flags: the network core
\* calls it after each change of them and when the interface has been opened.
SetRxMode(a, past, i, usr, pro, all) ==
  /\ flood' = SetPromiscious(pro, i)
  /\ \/ /\ i \in pro
        /\ Now(SetAllmulti(a, TRUE, i))
        /\ odd' = [past EXCEPT ![i] = @ \cup IF usr[i] # users[i] THEN {"promisc"} ELSE {}]
        /\ UNCHANGED told
     \/ /\ i \notin pro
        /\ LET s == SyncMc(SetAllmulti(a, i \in all, i), i, usr)
           IN /\ Now(s.ale)
              /\ told' = [told EXCEPT ![i] = [g \in McGroups |->
                            IF g \in s.done THEN Cardinality(usr[i][g]) ELSE @[g]]]
              /\ odd' = [past EXCEPT ![i] = @ \cup IF s.ale.ret # OK THEN {"nomem"} ELSE {}]

\* Without a call of the handler.
NotCalled == UNCHANGED <<ale, flood, told, odd>>

\* Users join and leave: a VLAN device only while its interface is open.
ChangeUsers(i, usr) ==
  /\ users' = usr
  /\ IF i \in up THEN SetRxMode(ale, odd, i, usr, promisc, allmulti) ELSE NotCalled
  /\ UNCHANGED <<up, cfgVars, flagVars>>

Join(i, u, g) ==
  /\ Op /\ u \in {0} \cup (IF i \in up THEN devs[i] ELSE {})
  /\ u \notin users[i][g]
  /\ ChangeUsers(i, [users EXCEPT ![i][g] = @ \cup {u}])

Leave(i, u, g) ==
  /\ Op /\ u \in users[i][g]
  /\ ChangeUsers(i, [users EXCEPT ![i][g] = @ \ {u}])

\* A flag changes.
Toggle(S, i) == IF i \in S THEN S \ {i} ELSE S \cup {i}

SetFlags(i) ==
  /\ Op
  /\ \/ promisc' = Toggle(promisc, i) /\ UNCHANGED allmulti
     \/ allmulti' = Toggle(allmulti, i) /\ UNCHANGED promisc
  /\ IF i \in up THEN SetRxMode(ale, odd, i, users, promisc', allmulti') ELSE NotCalled
  /\ UNCHANGED <<up, cfgVars, users>>

NewMac(a, i, x) == AddUcast(DelUcast(a, mac[i], PortVlan[i]), x, HOST, TRUE, PortVlan[i])

\* cpsw_ndo_set_mac_address.
SetMacAddress(i, x) ==
  /\ Op /\ x # mac[i]
  /\ LET a == NewMac(ale, i, x)
     IN /\ Now(a)
        /\ odd' = [odd EXCEPT ![i] = @ \cup (IF a.ret # OK THEN {"nomem"} ELSE {})
                                         \cup (IF vlans[i] # {} THEN {"remac"} ELSE {})]
  /\ mac' = [mac EXCEPT ![i] = x]
  /\ UNCHANGED <<flood, up, vlanVars, flagVars, mcVars>>

-----------------------------------------------------------------------------
(* Open and stop.                                                          *)

\* A slave that is opened without what the VLANs need.
OpenSlave_NoRestore(a, i) == DualEntries(a, i, mac[i])

\* What is in the table when cpsw_ndo_open returns: cpsw_slave_open and cpsw_restore.
OpenSlave(a, i) ==
  LET b == DualEntries(a, i, mac[i]) IN Then(b, Restore(b, i))

\* cpsw_ndo_open; then the network core calls set_rx_mode, the VLAN devices are still closed.
\* Without open interfaces the table, and what happened to it, is forgotten.
Open(i) ==
  /\ Op /\ i \notin up
  /\ LET a == OpenSlave(IF up = {} THEN HostPortDual(Clear(ale)) ELSE ale, i)
         past == IF up = {} THEN [j \in Ifc |-> odd[j] \cap {"shared"}] ELSE odd
     IN SetRxMode(a, [past EXCEPT ![i] = @ \cup IF a.ret # OK THEN {"nomem"} ELSE {}],
                  i, users, promisc, allmulti)
  /\ up' = up \cup {i}
  /\ bare' = [bare EXCEPT ![i] = vlans[i] \ (devs[i] \cup {0})]
  /\ UNCHANGED <<mac, vlans, devs, flagVars, users>>

\* cpsw_ndo_stop; then the VLAN devices are closed.
Stop(i) ==
  /\ Op /\ i \in up
  /\ LET a == PurgeAllMc(ale, i) IN Now(IF up = {i} THEN Clear(a) ELSE a)
  /\ told' = [told EXCEPT ![i] = [g \in McGroups |-> 0]]
  /\ users' = [users EXCEPT ![i] = [g \in McGroups |-> @[g] \cap {0}]]
  /\ up' = up \ {i}
  /\ UNCHANGED <<flood, cfgVars, flagVars, odd>>

Next ==
  \E i \in Ifc :
    \/ \E v \in Vids : (\E dev \in BOOLEAN : RxAddVid(i, v, dev)) \/ RxKillVid(i, v) \/ VlanDevice(i, v)
    \/ \E u \in Vids, g \in McGroups : Join(i, u, g) \/ Leave(i, u, g)
    \/ SetFlags(i)
    \/ \E x \in Stations : SetMacAddress(i, x)
    \/ Open(i) \/ Stop(i)

Spec == Init /\ [][Next]_vars

-----------------------------------------------------------------------------
Table == {ale.table[k] : k \in Slot} \ {Free}
VlanOf(v) == {e \in Table : e.type = "vlan" /\ e.vid = v}
InVlan(v) == {e \in Table : e.vid = v}
AddrIn(x, v) == {e \in InVlan(v) : e.type = "addr" /\ e.addr = x}

\* The port and the host are in the VLAN, and frames to the address and to all reach the host.
Served(i, v) ==
  /\ \E e \in VlanOf(v) : e.members = Both(i)
  /\ \E e \in AddrIn(mac[i], v) : e.port = HOST
  /\ \E e \in AddrIn(BCAST, v) : HOST \in e.mask

\* An open interface has the VLAN of its port, its address and broadcast, through everything
\* that is done to it and to the other, unless the table was full when it was opened.
OwnEntries ==
  \A i \in up : "nomem" \notin odd[i] =>
    Served(i, PortVlan[i]) /\ \E e \in AddrIn(mac[i], PortVlan[i]) : e.secure

\* It also has every VLAN of its filter that was added since it was opened or had a device when it
\* was, however often the table was cleared before, but for VLANs in the filters of both interfaces
\* and addresses that changed.
VlansServed ==
  \A i \in up : odd[i] \cap {"nomem", "shared", "remac"} = {} =>
    \A v \in vlans[i] \ ({0} \cup bare[i]) : Served(i, v)

\* The groups of an open interface that is not promiscuous are in the table for those that use
\* them, the interface or a VLAN device, and for nobody else, unless users changed while it was
\* promiscuous.
GroupsServed ==
  \A i \in up \ promisc : odd[i] \cap {"nomem", "shared", "promisc"} = {} =>
    \A g \in McGroups, u \in vlans[i] \cup {0} :
      u \in users[i][g] <=> AddrIn(g, IF u = 0 THEN PortVlan[i] ELSE u) # {}

\* What an open interface is given for itself, its VLANs and its groups is in the table.
InterfacesServed == OwnEntries /\ VlansServed /\ GroupsServed

\* A VLAN that is in no filter has left nothing in the table.
NothingLeft ==
  (\A i \in Ifc : odd[i] = {}) =>
    \A v \in UserVids : (\A i \in Ifc : v \notin vlans[i]) => InVlan(v) = {}

\* The host port floods while an open interface is promiscuous, though the other may be opened,
\* closed, and lose its flags.
FloodCovers == up \cap promisc # {} => flood

\* The VLANs of an interface flood unknown groups to the host if, and only if, it has IFF_ALLMULTI.
AllmultiKept ==
  \A i \in up \ promisc : odd[i] \cap {"nomem", "shared"} = {} =>
    \A v \in ({PortVlan[i]} \cup vlans[i]) \ {0} : \A e \in VlanOf(v) :
      HOST \in e.unreg <=> i \in allmulti

\* What floods to the host is what the flags of both interfaces ask for.
FloodsAsAsked == FloodCovers /\ AllmultiKept

\* No VLAN but the default VLAN lets frames pass from one port to the other.
PortsApart == \A e \in Table : e.type = "vlan" /\ e.vid # 0 => Cardinality(e.members \ {HOST}) <= 1
=============================================================================
