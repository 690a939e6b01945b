------------------------------ MODULE CpswBridge ------------------------------
(***************************************************************************)
(* The two ports in a bridge: the switch mode that devlink turns on and    *)
(* off, the notifiers of cpsw/eth.c that follow the ports into and out of  *)
(* a bridge, and the switchdev handlers of cpsw/my_cpsw_switchdev.c that   *)
(* bring the VLANs, groups and addresses of the bridge to the ALE.         *)
(*                                                                         *)
(* A handler under RTNL is one step.  Two things are not under RTNL: the   *)
(* devlink handler looks at the bridge before it takes RTNL, and a change  *)
(* of the forwarding database becomes a work item that takes RTNL later.   *)
(* A work item applies whatever has happened in between, and the items are *)
(* done in any order: each is a work of its own on system_long_wq.         *)
(*                                                                         *)
(* Of cpsw_ndo_set_rx_mode, the part with IFF_PROMISC is here; groups of   *)
(* the interfaces and IFF_ALLMULTI are CpswAddr's.                         *)
(***************************************************************************)
EXTENDS CpswModes, SequencesExt

CONSTANTS
  Mac,      \* [Ifc -> its MAC address]
  BrVids,   \* the VLANs of the bridge
  Bridges,  \* the bridges
  None,     \* no bridge
  Untagged, \* whether a port that is given a VLAN is to leave it untagged: {TRUE}, {FALSE} or both
  OwnAddr,  \* bound: the interfaces whose own address a user gives the bridge
  GroupPorts, \* bound: the ports that groups are given for
  MaxOps    \* the number of changes (opening, joining and going to switch mode are free)

ASSUME MacAssumption == Mac \in [Ifc -> Stations]
ASSUME BrVidsAssumption == BrVids \subseteq Vids \ {0}
ASSUME NoneAssumption == None \notin Bridges
ASSUME UntaggedAssumption == Untagged \subseteq BOOLEAN

VARIABLES
  ale,       \* the engine
  flood,     \* ALE_P0_UNI_FLOOD
  nosa,      \* the ports with ALE_PORT_NO_SA_UPDATE
  dual,      \* data.dual_emac
  up,        \* the interfaces that are open
  promisc,   \* those with IFF_PROMISC
  portvlan,  \* [Ifc -> port_vlan]
  devlink,   \* the mode that devlink is about to set, or "idle"
  bypass,    \* ale_bypass
  register,  \* the bit ALE_BYPASS of the engine itself
  br, hwbr,  \* br_members and hw_bridge_dev
  mark,      \* [Ifc -> offload_fwd_mark]
  master,    \* [Ifc -> its bridge]
  brvlan,    \* [BrVids -> the ports that the bridge has given the VLAN, with HOST for itself]
  mdb,       \* the groups of the bridge: <<group, vid, port>>
  fdb,       \* its addresses that a user gave: [addr, vid, port]
  work,      \* the work items of the forwarding database, in the order they were queued in
  late,      \* the addresses of which an item has been done out of that order, and none queued since
  odd,       \* what has happened that the driver does not cope with
  ops

modeVars == <<dual, portvlan, nosa>>
brVars == <<br, hwbr, mark, bypass>>
swVars == <<brvlan, mdb, fdb>>
workVars == <<work, late>>
flagVars == <<promisc, flood>>
vars == <<ale, modeVars, flagVars, up, devlink, brVars, register, master, swVars, workVars, odd, ops>>

\* "nomem": a call failed and nobody was told; "cleared": the table was cleared under a bridge;
\* "raced": a port joined a bridge while devlink was about to leave switch mode; "stale": a work
\* item of switch mode was done in the other; "deaf": dual-EMAC mode came over a promiscuous interface.
Oddities == {"nomem", "cleared", "raced", "stale", "deaf"}

Init ==
  /\ ale = [table |-> Cleared, untag |-> {}, ret |-> OK]
  /\ flood = FALSE /\ nosa = {}
  /\ dual = TRUE /\ up = {} /\ promisc = {}
  /\ portvlan = PortVlan
  /\ devlink = "idle" /\ bypass = FALSE /\ register = FALSE
  /\ br = {} /\ hwbr = None
  /\ mark = [i \in Ifc |-> FALSE]
  /\ master = [i \in Ifc |-> None]
  /\ brvlan = [v \in BrVids |-> {}] /\ mdb = {} /\ fdb = {}
  /\ work = <<>> /\ late = {}
  /\ odd = {} /\ ops = 0

Op == ops < MaxOps /\ ops' = ops + 1
Uncounted == UNCHANGED ops

\* The table after some calls whose results nobody looks at.
Done(a, past) ==
  /\ ale' = [a EXCEPT !.ret = OK]
  /\ odd' = past \cup IF a.ret = ENOMEM THEN {"nomem"} ELSE {}

\* What the bridge has given the driver is no longer in the table.
Bridged == (\E v \in BrVids : brvlan[v] # {}) \/ mdb # {} \/ fdb # {} \/ work # <<>>
Emptied == odd \cup IF Bridged THEN {"cleared"} ELSE {}

-----------------------------------------------------------------------------
(* The mode.                                                               *)

AllEntries(a, S, One(_, _)) == FoldSet(LAMBDA i, b : Then(b, One(b, i)), a, S)

\* The table for a mode, with the entries of some ports.
HostPort(a, d) == IF d THEN HostPortDual(a) ELSE HostPortSwitch(a)
PortEntries(a, i, d) == IF d THEN DualEntries(a, i, Mac[i]) ELSE SwitchEntries(a, i, Mac[i])

\* cpsw_set_promiscious: in dual-EMAC mode the host port floods for all interfaces or for none.
SetPromiscious(pro, before) == IF dual THEN pro # {} ELSE before

\* cpsw_ndo_set_rx_mode, if the interface is open, for a new set of promiscuous interfaces.
SetRxMode(i, pro) ==
  /\ promisc' = pro
  /\ \/ i \in up /\ ale' = SetAllmulti(ale, i \in pro, i) /\ flood' = SetPromiscious(pro, flood)
     \/ i \notin up /\ UNCHANGED <<ale, flood>>

\* Someone sets or clears IFF_PROMISC, or has cpsw_ndo_set_rx_mode called for another reason.
RxMode(i) ==
  /\ Op
  /\ \E pro \in {promisc \cup {i}, promisc \ {i}} : SetRxMode(i, pro)
  /\ UNCHANGED <<modeVars, up, devlink, brVars, register, master, swVars, workVars, odd>>

\* cpsw_ndo_open: cpsw_init_host_port when no interface is open, then cpsw_slave_open; when it is
\* done the network core calls cpsw_ndo_set_rx_mode.
Open(i) ==
  /\ Uncounted /\ i \notin up
  /\ LET a == IF up = {} THEN HostPort(Clear(ale), dual) ELSE ale
         b == Then(a, PortEntries(a, i, dual))
     IN Done(SetAllmulti(b, i \in promisc, i), IF up = {} THEN Emptied ELSE odd)
  /\ up' = up \cup {i}
  /\ flood' = SetPromiscious(promisc, IF up = {} THEN ~dual ELSE flood)
  /\ nosa' = IF dual THEN nosa ELSE nosa \cup {i}
  /\ UNCHANGED <<promisc, dual, portvlan, devlink, brVars, register, master, swVars, workVars>>

\* cpsw_ndo_stop: the last one stops the ALE.
Stop(i) ==
  /\ Op /\ i \in up
  /\ up' = up \ {i}
  /\ IF up = {i} THEN Done(Clear(ale), Emptied) ELSE UNCHANGED <<ale, odd>>
  /\ UNCHANGED <<modeVars, flagVars, devlink, brVars, register, master, swVars, workVars>>

\* cpsw_dl_switch_mode_set before RTNL: a check that ports are not in a bridge.
ModeCheck(d) ==
  /\ Uncounted /\ devlink = "idle" /\ d # dual
  /\ d => br = {}
  /\ devlink' = IF d THEN "dual" ELSE "switch"
  /\ UNCHANGED <<ale, modeVars, flagVars, up, brVars, register, master, swVars, workVars, odd>>

\* A mode that the ports keep the VLANs of the other mode in.
NewVlan_Keep(d) == portvlan

\* The VLANs of the ports in a mode: data.default_vlan, or those of the device tree.
NewVlan(d) == [i \in Ifc |-> IF d THEN PortVlan[i] ELSE 0]

\* The ports that the driver adds the entries of: all for dual-EMAC mode, open ones for switch mode.
ModePorts(d) == IF d THEN Ifc ELSE up

\* cpsw_dl_switch_mode_set under RTNL.  The bypass of the engine, which is on while the table is
\* written, is off in the end, whatever it was before.  Nobody calls cpsw_ndo_set_rx_mode.
ModeSet ==
  /\ devlink # "idle" /\ devlink' = "idle"
  /\ IF dual THEN Uncounted ELSE Op
  /\ LET d == devlink = "dual"
         past == odd \cup IF d /\ br # {} THEN {"raced"} ELSE {}
     IN /\ dual' = d
        /\ portvlan' = NewVlan(d)
        /\ \/ /\ up = {}
              /\ odd' = past
              /\ UNCHANGED <<ale, flood, nosa, register>>
           \/ /\ up # {}
              /\ Done(AllEntries(HostPort(Clear(ale), d), ModePorts(d),
                                 LAMBDA a, i : PortEntries(a, i, d)),
                      past \cup Emptied \cup IF d /\ up \cap promisc # {} THEN {"deaf"} ELSE {})
              /\ flood' = ~d
              /\ nosa' = IF d THEN nosa ELSE nosa \cup up
              /\ register' = FALSE
  /\ UNCHANGED <<promisc, up, brVars, master, swVars, workVars>>

-----------------------------------------------------------------------------
(* Ports in a bridge.                                                      *)

\* An update that does not ask for the bypass.
FwdMark_NoBypass(b, members) == members = Ifc

\* cpsw_port_offload_fwd_mark_update: frames have been forwarded by the hardware.
FwdMark(b, members) == ~b /\ members = Ifc
Marks(b, members) == [i \in Ifc |-> FwdMark(b, members)]

\* A second bridge is not supported.
SameBridge(b) == br = {} \/ hwbr = b

\* A bridge makes a port promiscuous when it takes it, and gives that up when the port leaves; it may
\* think better of it in between (RxMode).
Promiscuity(i, pro) == IF pro # promisc THEN SetRxMode(i, pro) ELSE UNCHANGED <<ale, flagVars>>

\* cpsw_netdevice_event, linking: cpsw_netdevice_port_link in switch mode, nothing in the other.
\* The network core undoes the link if there is an error.
JoinBridge(i, b) ==
  /\ Uncounted /\ master[i] = None
  /\ \/ dual /\ UNCHANGED brVars
     \/ /\ ~dual /\ SameBridge(b)
        /\ hwbr' = IF br = {} THEN b ELSE hwbr
        /\ br' = br \cup {i}
        /\ mark' = Marks(bypass, br')
        /\ UNCHANGED bypass
  /\ master' = [master EXCEPT ![i] = b]
  /\ Promiscuity(i, promisc \cup {i})
  /\ UNCHANGED <<modeVars, up, devlink, register, swVars, workVars, odd>>

\* The same when switchdev_bridge_port_offload fails: the port is not linked, the bridge is noted.
JoinFails(i, b) ==
  /\ Op /\ master[i] = None
  /\ ~dual /\ SameBridge(b)
  /\ hwbr' = IF br = {} THEN b ELSE hwbr
  /\ UNCHANGED <<ale, modeVars, flagVars, up, devlink, br, mark, bypass, register, master, swVars,
                 workVars, odd>>

\* cpsw_netdevice_event, unlinking; the bridge has taken back all it had given the port.
LeaveBridge(i) ==
  /\ Op /\ master[i] # None
  /\ \A v \in BrVids : i \notin brvlan[v] /\ (HOST \in brvlan[v] => \E j \in Ifc \ {i} : master[j] = master[i])
  /\ \A m \in mdb : m[3] # i
  /\ \A f \in fdb : f.port # i
  /\ master' = [master EXCEPT ![i] = None]
  /\ \/ dual /\ UNCHANGED brVars
     \/ /\ ~dual
        /\ br' = br \ {i}
        /\ mark' = Marks(bypass, br')
        /\ hwbr' = IF br' = {} THEN None ELSE hwbr
        /\ UNCHANGED bypass
  /\ Promiscuity(i, promisc \ {i})
  /\ UNCHANGED <<modeVars, up, devlink, register, swVars, workVars, odd>>

\* cpsw_dl_ale_ctrl_set.
SetBypass(on) ==
  /\ Op /\ devlink = "idle"
  /\ register' = on /\ bypass' = on
  /\ mark' = Marks(on, br)
  /\ UNCHANGED <<ale, modeVars, flagVars, up, devlink, br, hwbr, master, swVars, workVars, odd>>

-----------------------------------------------------------------------------
(* Objects of the bridge, for a port or (at the host port) for the bridge itself: *)
(* then switchdev calls the driver once for each port of the bridge.              *)

Handled(p) == IF p = HOST THEN {i \in Ifc : master[i] # None} ELSE {p}
Offloaded(p) == ~dual /\ \E i \in Handled(p) : master[i] # None

\* cpsw_port_vlan_add.
VlanAdd(a, v, i, p, untag) ==
  LET vlan == VlanAddModify(a, v, {p}, IF untag THEN {p} ELSE {}, {p},
                            IF p = HOST THEN {HOST} ELSE {})
  IN IF vlan.ret # OK \/ p # HOST THEN vlan
     ELSE Then(vlan, AddUcast(vlan, Mac[i], HOST, FALSE, v))

\* A removal of the VLAN for all its ports.
VlanDel_All(a, v, i, p) == DelVlan(a, v, {})

\* cpsw_port_vlan_del.
VlanDel(a, v, i, p) ==
  LET vlan == VlanDelModify(a, v, {p})
      ucast == IF p = HOST THEN DelUcast(vlan, Mac[i], v) ELSE vlan
  IN IF vlan.ret # OK THEN vlan ELSE DelMcast(ucast, BCAST, {p}, v)

AddBridgeVlan(v, p, untag) ==
  /\ Op /\ Offloaded(p) /\ p \notin brvlan[v]
  /\ Done(AllEntries([ale EXCEPT !.ret = OK], Handled(p), LAMBDA a, i : VlanAdd(a, v, i, p, untag)), odd)
  /\ brvlan' = [brvlan EXCEPT ![v] = @ \cup {p}]
  /\ UNCHANGED <<modeVars, flagVars, up, devlink, brVars, register, master, mdb, fdb, workVars>>

DelBridgeVlan(v, p) ==
  /\ Op /\ Offloaded(p) /\ p \in brvlan[v]
  /\ Done(AllEntries(ale, Handled(p), LAMBDA a, i : VlanDel(a, v, i, p)), odd)
  /\ brvlan' = [brvlan EXCEPT ![v] = @ \ {p}]
  /\ UNCHANGED <<modeVars, flagVars, up, devlink, brVars, register, master, mdb, fdb, workVars>>

\* cpsw_port_mdb_add and cpsw_port_mdb_del.
AddGroup(g, v, p) ==
  /\ Op /\ Offloaded(p) /\ p \in GroupPorts /\ <<g, v, p>> \notin mdb
  /\ Done(AddMcast(ale, g, {p}, FALSE, v), odd)
  /\ mdb' = mdb \cup {<<g, v, p>>}
  /\ UNCHANGED <<modeVars, flagVars, up, devlink, brVars, register, master, brvlan, fdb, workVars>>

MdbDel(a, g, v, p) == DelMcast(a, g, {p}, v)

DelGroup(g, v, p) ==
  /\ Op /\ Offloaded(p) /\ <<g, v, p>> \in mdb
  /\ Done(MdbDel(ale, g, v, p), odd)
  /\ mdb' = mdb \ {<<g, v, p>>}
  /\ UNCHANGED <<modeVars, flagVars, up, devlink, brVars, register, master, brvlan, fdb, workVars>>

-----------------------------------------------------------------------------
(* The forwarding database.                                                *)

AddrOf(f) == <<f.addr, f.vid>>
SameAddr(f, g) == AddrOf(f) = AddrOf(g)

\* The work items for an address.
Waiting(f) == {n \in 1..Len(work) : SameAddr(work[n].f, f)}

\* cpsw_switchdev_event, in atomic context: a work item, in switch mode only.
Queue(event, f) ==
  \/ dual /\ UNCHANGED workVars
  \/ /\ ~dual
     /\ work' = Append(work, [event |-> event, f |-> f])
     /\ late' = IF Waiting(f) = {} THEN late \ {AddrOf(f)} ELSE late

AddAddress(f) ==
  /\ Op /\ master[f.port] # None
  /\ f.addr = Mac[f.port] => f.port \in OwnAddr
  /\ \A g \in fdb : ~SameAddr(g, f)
  /\ fdb' = fdb \cup {f}
  /\ Queue("add", f)
  /\ odd' = IF dual THEN odd \cup {"cleared"} ELSE odd
  /\ UNCHANGED <<ale, modeVars, flagVars, up, devlink, brVars, register, master, brvlan, mdb>>

DelAddress(f) ==
  /\ Op /\ f \in fdb
  /\ fdb' = fdb \ {f}
  /\ Queue("del", f)
  /\ odd' = IF dual THEN odd \cup {"cleared"} ELSE odd
  /\ UNCHANGED <<ale, modeVars, flagVars, up, devlink, brVars, register, master, brvlan, mdb>>

\* The port of the entry: the host's for the address of the interface.
FdbPort(f) == IF f.addr = Mac[f.port] THEN HOST ELSE f.port

\* cpsw_switchdev_event_work, which may be for any of the items: none waits for another.
DoWork(n) ==
  /\ Uncounted
  /\ LET f == work[n].f
     IN /\ Done(IF work[n].event = "add" THEN AddUcast(ale, f.addr, FdbPort(f), FALSE, f.vid)
                ELSE DelUcast(ale, f.addr, f.vid),
                odd \cup IF dual THEN {"stale"} ELSE {})
        /\ late' = IF \E m \in Waiting(f) : m < n THEN late \cup {AddrOf(f)} ELSE late
  /\ work' = RemoveAt(work, n)
  /\ UNCHANGED <<modeVars, flagVars, up, devlink, brVars, register, master, swVars>>

\* A frame from a station comes in at a port, in switch mode (in the other the ports do not learn).
Frame(i, x, v) ==
  /\ Op /\ i \in up /\ ~dual
  /\ ale' = Learn(ale, x, i, v, i \notin nosa)
  /\ UNCHANGED <<modeVars, flagVars, up, devlink, brVars, register, master, swVars, workVars, odd>>

\* The stations that are not the interfaces.
Outside == Stations \ {Mac[i] : i \in Ifc}

Next ==
  \/ \E i \in Ifc :
       \/ Open(i) \/ Stop(i) \/ RxMode(i) \/ LeaveBridge(i)
       \/ \E b \in Bridges : JoinBridge(i, b) \/ JoinFails(i, b)
       \/ \E x \in Outside, v \in BrVids : Frame(i, x, v)
       \/ \E x \in Outside \cup {Mac[i]}, v \in BrVids :
            AddAddress([addr |-> x, vid |-> v, port |-> i])
  \/ \E d \in BOOLEAN : ModeCheck(d) \/ SetBypass(d)
  \/ ModeSet
  \/ \E n \in 1..Len(work) : DoWork(n)
  \/ \E v \in BrVids, p \in Ports :
       \/ \E untag \in Untagged : AddBridgeVlan(v, p, untag)
       \/ DelBridgeVlan(v, p)
       \/ \E g \in Groups \ {BCAST, STPA} : AddGroup(g, v, p) \/ DelGroup(g, v, p)
  \/ \E f \in fdb : DelAddress(f)

Spec == Init /\ [][Next]_vars

-----------------------------------------------------------------------------
Table == {ale.table[k] : k \in Slot} \ {Free}
VlanOf(v) == {e \in Table : e.type = "vlan" /\ e.vid = v}
AddrIn(x, v) == {e \in Table : e.type = "addr" /\ e.addr = x /\ e.vid = v}

\* Frames that come from the ports are marked as forwarded only while the hardware forwards between
\* them: both are in the bridge and the engine is not bypassed.  They are marked whenever it does,
\* but for one case: a change of mode has ended a bypass that devlink had set, and the driver still
\* takes the engine to be bypassed.
MarkedIfForwarded ==
  LET forwards == ~register /\ br = Ifc
  IN \A i \in Ifc : /\ mark[i] => forwards
                    /\ forwards /\ ~mark[i] => bypass

\* The bridge that the driver takes for the one of its ports is the bridge of each of them, and
\* there is none in dual-EMAC mode, unless a port joined while devlink changed the mode.
OneBridge ==
  "raced" \notin odd => /\ \A i \in br : master[i] = hwbr
                        /\ dual => br = {}

\* Which ports are in which bridge, and whether frames are marked, agree.
Membership == MarkedIfForwarded /\ OneBridge

\* In either mode the entries that an open interface cannot do without are there, in the VLAN that
\* the driver takes for that of the port, and the host port floods if the mode or IFF_PROMISC of the
\* interface asks for it: through changes of mode, of the interfaces, of the flags and of the bridge,
\* and whatever the engine learns.
ModeEntries ==
  odd \cap {"nomem", "stale"} = {} =>
    \A i \in up :
      LET v == portvlan[i]
      IN /\ \E e \in VlanOf(v) : e.members = (IF dual THEN Both(i) ELSE Ports)
         /\ \E e \in AddrIn(BCAST, v) : (IF dual THEN {HOST} ELSE Both(i)) \subseteq e.mask
         /\ \E e \in AddrIn(Mac[i], v) : e.port = HOST /\ e.ucast = "persistant" /\ e.secure = dual
         /\ ~dual \/ (i \in promisc /\ "deaf" \notin odd) => flood

\* The ports of a VLAN in the table are those the bridge has given it, in whatever order it gave
\* it to the ports and to itself and took it back.
VlansFollow ==
  odd = {} /\ ~dual => \A v \in BrVids : UNION {e.members : e \in VlanOf(v)} = brvlan[v]

\* The same for the ports of a group.
GroupsFollow ==
  odd = {} /\ ~dual =>
    \A g \in Groups \ {BCAST, STPA}, v \in BrVids :
      UNION {e.mask : e \in AddrIn(g, v)} = {p \in Ports : <<g, v, p>> \in mdb}

\* An address that a user gave the bridge is in the table, at its port, and there to stay, once its
\* work items are done: unless one of them overtook an earlier one, and then until the next is
\* queued and done.  (Those of the interfaces come and go with the bridge's VLANs.)
FdbFollows ==
  odd = {} /\ ~dual =>
    \A f \in {g \in fdb : g.addr \in Outside /\ Waiting(g) = {} /\ AddrOf(g) \notin late} :
      \E e \in AddrIn(f.addr, f.vid) : e.port = FdbPort(f) /\ e.ucast = "persistant"

\* What the bridge was told last, about VLANs, groups and addresses, is what the table says.
BridgeFollows == VlansFollow /\ GroupsFollow /\ FdbFollows
=============================================================================
