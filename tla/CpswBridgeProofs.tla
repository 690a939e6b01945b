---------------------------- MODULE CpswBridgeProofs ----------------------------
(***************************************************************************)
(* Proofs about CpswBridge, for any number of ports, VLANs, addresses,     *)
(* bridges and entries and without a bound on the changes.                 *)
(*                                                                         *)
(* First, which ports the driver takes to be in which bridge, and when it  *)
(* marks frames as forwarded; the table plays no part in these.            *)
(*                                                                         *)
(* Then the table: what the ports are given in a mode (ModeEntries), and   *)
(* that it follows the bridge (BridgeFollows).  Both rest on what one call *)
(* does to the contents of the table (CpswTableProofs), and on inductions  *)
(* over the ports for the handlers that make the calls for each port.  The *)
(* invariant (EntriesInv) says what holds while work items wait, in either *)
(* mode and while no interface is open.                                    *)
(***************************************************************************)
EXTENDS CpswBridge, CpswTableProofs

-----------------------------------------------------------------------------
(* Members and marks.                                                      *)

\* The members and the marks, as every step computes them; a bypass that the driver does not know
\* of is never on.
MarkInv ==
  /\ bypass \in BOOLEAN
  /\ register => bypass
  /\ mark = Marks(bypass, br)

BridgeInv ==
  /\ master \in [Ifc -> Bridges \cup {None}]
  /\ br \subseteq Ifc
  /\ hwbr \in Bridges \cup {None}
  /\ OneBridge

IInv == MarkInv /\ BridgeInv

\* No bridge and no marks in the beginning.
LEMMA BridgeInit == Init => IInv
<1> SUFFICES ASSUME Init PROVE IInv
  OBVIOUS
<1>1. MarkInv
  <2>1. mark = [i \in Ifc |-> FALSE] /\ br = {} /\ bypass = FALSE /\ register = FALSE
    BY DEF Init
  <2>2. ASSUME NEW i \in Ifc PROVE FwdMark(FALSE, {}) = FALSE
    <3>1. {} # Ifc
      BY <2>2
    <3>2. QED
      BY <3>1 DEF FwdMark
  <2>3. QED
    BY <2>1, <2>2 DEF MarkInv, Marks
<1>2. BridgeInv
  BY DEF Init, BridgeInv, OneBridge
<1>3. QED
  BY <1>1, <1>2 DEF IInv

\* What has gone wrong is not forgotten.
LEMMA OddGrows ==
  ASSUME NEW a, NEW past, Done(a, past), odd \subseteq past
  PROVE  odd \subseteq odd'
BY DEF Done

\* Nothing outside the mode, the members and what went wrong matters.
LEMMA SameBridges ==
  ASSUME IInv, UNCHANGED <<bypass, register, mark, br, hwbr, master, dual>>, odd \subseteq odd'
  PROVE  IInv'
<1>1. MarkInv'
  BY DEF IInv, MarkInv, Marks, FwdMark
<1>2. BridgeInv'
  BY DEF IInv, BridgeInv, OneBridge
<1>3. QED
  BY <1>1, <1>2 DEF IInv

\* The steps that leave the mode and the members alone.
Elsewhere ==
  \/ \E i \in Ifc :
       \/ Open(i) \/ Stop(i) \/ RxMode(i)
       \/ \E x \in Outside, v \in BrVids : Frame(i, x, v)
       \/ \E x \in Outside \cup {Mac[i]}, v \in BrVids :
            AddAddress([addr |-> x, vid |-> v, port |-> i])
  \/ \E d \in BOOLEAN : ModeCheck(d)
  \/ \E n \in 1..Len(work) : DoWork(n)
  \/ \E v \in BrVids, p \in Ports :
       \/ \E untag \in Untagged : AddBridgeVlan(v, p, untag)
       \/ DelBridgeVlan(v, p)
       \/ \E g \in Groups \ {BCAST, STPA} : AddGroup(g, v, p) \/ DelGroup(g, v, p)
  \/ \E f \in fdb : DelAddress(f)
  \/ UNCHANGED vars

\* The steps on the table and the work queue keep the invariant.
LEMMA ElsewhereKeeps ==
  ASSUME IInv, Elsewhere
  PROVE  IInv'
<1>1. UNCHANGED <<bypass, register, mark, br, hwbr, master, dual>>
  <2>1. ASSUME NEW i \in Ifc, Open(i) \/ Stop(i) \/ RxMode(i)
        PROVE  UNCHANGED <<bypass, register, mark, br, hwbr, master, dual>>
    BY <2>1 DEF Open, Stop, RxMode, modeVars, brVars
  <2>2. ASSUME NEW i, NEW x, NEW v, Frame(i, x, v)
        PROVE  UNCHANGED <<bypass, register, mark, br, hwbr, master, dual>>
    BY <2>2 DEF Frame, modeVars, brVars
  <2>3. ASSUME NEW f, AddAddress(f) \/ DelAddress(f)
        PROVE  UNCHANGED <<bypass, register, mark, br, hwbr, master, dual>>
    BY <2>3 DEF AddAddress, DelAddress, modeVars, brVars
  <2>4. ASSUME NEW d, ModeCheck(d)
        PROVE  UNCHANGED <<bypass, register, mark, br, hwbr, master, dual>>
    BY <2>4 DEF ModeCheck, modeVars, brVars
  <2>5. ASSUME NEW n, DoWork(n)
        PROVE  UNCHANGED <<bypass, register, mark, br, hwbr, master, dual>>
    BY <2>5 DEF DoWork, modeVars, brVars
  <2>6. ASSUME NEW v, NEW p, (\E untag \in Untagged : AddBridgeVlan(v, p, untag)) \/ DelBridgeVlan(v, p)
        PROVE  UNCHANGED <<bypass, register, mark, br, hwbr, master, dual>>
    BY <2>6 DEF AddBridgeVlan, DelBridgeVlan, modeVars, brVars
  <2>7. ASSUME NEW g, NEW v, NEW p, AddGroup(g, v, p) \/ DelGroup(g, v, p)
        PROVE  UNCHANGED <<bypass, register, mark, br, hwbr, master, dual>>
    BY <2>7 DEF AddGroup, DelGroup, modeVars, brVars
  <2>8. CASE UNCHANGED vars
    BY <2>8 DEF vars, modeVars, brVars
  <2>9. QED
    BY <2>1, <2>2, <2>3, <2>4, <2>5, <2>6, <2>7, <2>8 DEF Elsewhere
<1>2. odd \subseteq odd'
  <2>1. odd \subseteq Emptied
    BY DEF Emptied
  <2>2. ASSUME NEW i \in Ifc, Open(i) \/ Stop(i) PROVE odd \subseteq odd'
    BY <2>1, <2>2, OddGrows DEF Open, Stop
  <2>3. ASSUME NEW n, DoWork(n) PROVE odd \subseteq odd'
    BY <2>3, OddGrows DEF DoWork
  <2>4. ASSUME NEW v \in BrVids, NEW p \in Ports,
               \/ \E untag \in Untagged : AddBridgeVlan(v, p, untag)
               \/ DelBridgeVlan(v, p)
               \/ \E g \in Groups \ {BCAST, STPA} : AddGroup(g, v, p) \/ DelGroup(g, v, p)
        PROVE  odd \subseteq odd'
    BY <2>4, OddGrows DEF AddBridgeVlan, DelBridgeVlan, AddGroup, DelGroup
  <2>5. ASSUME NEW f, AddAddress(f) \/ DelAddress(f) PROVE odd \subseteq odd'
    BY <2>5 DEF AddAddress, DelAddress
  <2>6. CASE \/ \E i \in Ifc : RxMode(i)
             \/ \E i \in Ifc, x \in Outside, v \in BrVids : Frame(i, x, v)
             \/ \E d \in BOOLEAN : ModeCheck(d)
             \/ UNCHANGED vars
    BY <2>6 DEF RxMode, Frame, ModeCheck, vars
  <2>7. QED
    BY <2>2, <2>3, <2>4, <2>5, <2>6 DEF Elsewhere
<1>3. QED
  BY <1>1, <1>2, SameBridges

\* A change of mode: the members stay, a bypass may end, and dual-EMAC mode with members is a race.
LEMMA ModeSetKeeps ==
  ASSUME IInv, ModeSet
  PROVE  IInv'
<1>1. UNCHANGED <<bypass, mark, br, hwbr, master>>
  BY DEF ModeSet, brVars
<1>6. register' = FALSE \/ register' = register
  BY DEF ModeSet
<1>2. odd \cup (IF dual' /\ br # {} THEN {"raced"} ELSE {}) \subseteq odd'
  <2> DEFINE past == odd \cup IF dual' /\ br # {} THEN {"raced"} ELSE {}
  <2>1. dual' = (devlink = "dual")
    BY DEF ModeSet
  <2>2. odd' = past \/ \E a, more : Done(a, past \cup Emptied \cup more)
    BY <2>1 DEF ModeSet
  <2>3. QED
    BY <2>2 DEF Done
<1>3. MarkInv'
  BY <1>1, <1>6 DEF IInv, MarkInv, Marks, FwdMark
<1>4. BridgeInv'
  BY <1>1, <1>2 DEF IInv, BridgeInv, OneBridge
<1>5. QED
  BY <1>3, <1>4 DEF IInv

\* A port that joins in switch mode is counted with its bridge, in dual-EMAC mode it is not.
LEMMA JoinKeeps ==
  ASSUME IInv, NEW i \in Ifc, NEW b \in Bridges, JoinBridge(i, b)
  PROVE  IInv'
<1>1. master' = [master EXCEPT ![i] = b] /\ UNCHANGED <<dual, register, odd>>
  BY DEF JoinBridge, modeVars
<1>2. CASE dual /\ UNCHANGED brVars
  <2>1. MarkInv'
    BY <1>1, <1>2 DEF IInv, MarkInv, Marks, FwdMark, brVars
  <2>2. BridgeInv'
    BY <1>1, <1>2 DEF IInv, BridgeInv, OneBridge, brVars
  <2>3. QED
    BY <2>1, <2>2 DEF IInv
<1>3. CASE /\ ~dual /\ SameBridge(b)
           /\ hwbr' = IF br = {} THEN b ELSE hwbr
           /\ br' = br \cup {i}
           /\ mark' = Marks(bypass, br')
           /\ UNCHANGED bypass
  <2>1. MarkInv'
    BY <1>1, <1>3 DEF IInv, MarkInv, Marks, FwdMark
  <2>2. BridgeInv'
    BY <1>1, <1>3 DEF IInv, BridgeInv, OneBridge, SameBridge
  <2>3. QED
    BY <2>1, <2>2 DEF IInv
<1>4. QED
  BY <1>2, <1>3 DEF JoinBridge

\* A bridge that could not be offloaded is noted only while the driver has no members.
LEMMA JoinFailsKeeps ==
  ASSUME IInv, NEW i \in Ifc, NEW b \in Bridges, JoinFails(i, b)
  PROVE  IInv'
<1>1. /\ hwbr' = IF br = {} THEN b ELSE hwbr
      /\ UNCHANGED <<bypass, register, mark, br, master, dual, odd>>
  BY DEF JoinFails, modeVars
<1>2. MarkInv'
  BY <1>1 DEF IInv, MarkInv, Marks, FwdMark
<1>3. BridgeInv'
  BY <1>1 DEF IInv, BridgeInv, OneBridge
<1>4. QED
  BY <1>2, <1>3 DEF IInv

\* A port that leaves is a member no more.
LEMMA LeaveKeeps ==
  ASSUME IInv, NEW i \in Ifc, LeaveBridge(i)
  PROVE  IInv'
<1>1. master' = [master EXCEPT ![i] = None] /\ UNCHANGED <<dual, register, odd>>
  BY DEF LeaveBridge, modeVars
<1>2. CASE dual /\ UNCHANGED brVars
  <2>1. MarkInv'
    BY <1>1, <1>2 DEF IInv, MarkInv, Marks, FwdMark, brVars
  <2>2. BridgeInv'
    BY <1>1, <1>2 DEF IInv, BridgeInv, OneBridge, brVars
  <2>3. QED
    BY <2>1, <2>2 DEF IInv
<1>3. CASE /\ ~dual
           /\ br' = br \ {i}
           /\ mark' = Marks(bypass, br')
           /\ hwbr' = IF br' = {} THEN None ELSE hwbr
           /\ UNCHANGED bypass
  <2>1. MarkInv'
    BY <1>1, <1>3 DEF IInv, MarkInv, Marks, FwdMark
  <2>2. BridgeInv'
    BY <1>1, <1>3 DEF IInv, BridgeInv, OneBridge
  <2>3. QED
    BY <2>1, <2>2 DEF IInv
<1>4. QED
  BY <1>2, <1>3 DEF LeaveBridge

\* A change of the bypass computes the marks again.
LEMMA BypassKeeps ==
  ASSUME IInv, NEW on \in BOOLEAN, SetBypass(on)
  PROVE  IInv'
<1>1. UNCHANGED <<dual, odd, br, hwbr, master>>
  BY DEF SetBypass, modeVars
<1>2. MarkInv'
  BY <1>1 DEF IInv, MarkInv, SetBypass, Marks, FwdMark
<1>3. BridgeInv'
  BY <1>1 DEF IInv, BridgeInv, OneBridge
<1>4. QED
  BY <1>2, <1>3 DEF IInv

\* Every step keeps members and marks.
LEMMA BridgeNext == IInv /\ [Next]_vars => IInv'
<1> SUFFICES ASSUME IInv, [Next]_vars PROVE IInv'
  OBVIOUS
<1>1. CASE Elsewhere
  BY <1>1, ElsewhereKeeps
<1>2. CASE ModeSet
  BY <1>2, ModeSetKeeps
<1>3. ASSUME NEW on \in BOOLEAN, SetBypass(on) PROVE IInv'
  BY <1>3, BypassKeeps
<1>4. ASSUME NEW i \in Ifc, LeaveBridge(i) PROVE IInv'
  BY <1>4, LeaveKeeps
<1>5. ASSUME NEW i \in Ifc, NEW b \in Bridges, JoinBridge(i, b) \/ JoinFails(i, b) PROVE IInv'
  BY <1>5, JoinKeeps, JoinFailsKeeps
<1>6. QED
  BY <1>1, <1>2, <1>3, <1>4, <1>5 DEF Next, Elsewhere

\* Members, marks and the bridge of the driver agree in every state.
THEOREM BridgeInvariant == Spec => []IInv
<1>1. QED
  BY BridgeInit, BridgeNext, PTL DEF Spec

\* Frames are marked as forwarded only while the hardware forwards between the ports, and whenever it
\* does unless the driver takes for bypassed an engine that a change of mode has given back, and the
\* ports are in the bridge that the driver takes for theirs: in whatever order devlink changes the
\* mode and the bypass and the ports join, fail to join and leave.
THEOREM MembersAgree == Spec => []Membership
<1>1. IInv => Membership
  <2>1. MarkInv => MarkedIfForwarded
    BY DEF MarkInv, Marks, FwdMark, MarkedIfForwarded
  <2>2. QED
    BY <2>1 DEF IInv, BridgeInv, Membership
<1>2. QED
  BY <1>1, BridgeInvariant, PTL

-----------------------------------------------------------------------------
(* What the ports are given in a mode.                                     *)

\* Only entries of a VLAN change, or learned ones are lost.
Within(t, u, v) ==
  /\ \A f \in Contents(t) : f \in Contents(u) \/ f.vid = v \/ Learnt(f)
  /\ \A f \in Contents(u) : f \in Contents(t) \/ f.vid = v

\* What an interface cannot do without in a mode.
InMode(t, i, d) ==
  LET v == NewVlan(d)[i]
  IN /\ \E e \in Contents(t) : /\ e.type = "vlan" /\ e.vid = v
                               /\ e.members = IF d THEN Both(i) ELSE Ports
     /\ \E e \in Contents(t) : /\ e.type = "addr" /\ e.addr = BCAST /\ e.vid = v
                               /\ (IF d THEN {HOST} ELSE Both(i)) \subseteq e.mask
     /\ \E e \in Contents(t) : /\ e.type = "addr" /\ e.addr = Mac[i] /\ e.vid = v
                               /\ e.port = HOST /\ e.ucast = "persistant" /\ e.secure = d

\* The VLAN of all ports in switch mode.
HasDefault(t) == \E e \in Contents(t) : e.type = "vlan" /\ e.vid = 0 /\ e.members = Ports

\* A change of one key is one within its VLAN.
LEMMA SameButWithin ==
  ASSUME NEW t, NEW u, NEW key, SameBut(t, u, key)
  PROVE  Within(t, u, key.vid)
BY DEF SameBut, Within, SameKey

\* Changes within a VLAN add up.
LEMMA WithinTrans ==
  ASSUME NEW t, NEW u, NEW w, NEW v, Within(t, u, v), Within(u, w, v)
  PROVE  Within(t, w, v)
BY DEF Within

\* No change is one within any VLAN.
LEMMA WithinSelf ==
  ASSUME NEW t, NEW v
  PROVE  Within(t, t, v)
BY DEF Within

\* An entry that comes is a change within its VLAN.
LEMMA ComesWithin ==
  ASSUME NEW a, NEW b, NEW e, Comes(a, b, e)
  PROVE  Within(a.table, b.table, e.vid)
BY SameButWithin DEF Comes

\* An entry of the driver's survives a call for another key.
LEMMA ComesKeeps ==
  ASSUME NEW a, NEW b, NEW e, Comes(a, b, e)
  PROVE  \A f \in Contents(a.table) : ~SameKey(e, f) /\ ~Learnt(f) => f \in Contents(b.table)
BY DEF Comes, SameBut

\* What the constants say of an interface.
LEMMA IfcFacts ==
  ASSUME NEW i \in Ifc
  PROVE  /\ i \in Ports /\ i # HOST /\ HOST \in Ports
         /\ Both(i) \in SUBSET Ports /\ Both(i) # {} /\ {HOST} \in SUBSET Ports
         /\ Mac[i] \in Stations /\ Mac[i] \notin Groups
         /\ PortVlan[i] \in Vids /\ PortVlan[i] # 0
         /\ NewVlan(TRUE)[i] = PortVlan[i] /\ NewVlan(FALSE)[i] = 0
BY PortsAssumption, MacAssumption, PortVlanAssumption, AddrsAssumption DEF Ifc, Both, NewVlan

\* An interface has what it cannot do without as long as its VLAN is left alone.
LEMMA InModeKept ==
  ASSUME NEW i \in Ifc, NEW d \in BOOLEAN, NEW t, NEW u, InMode(t, i, d),
         \A f \in Contents(t) : f.vid = NewVlan(d)[i] /\ ~Learnt(f) => f \in Contents(u)
  PROVE  InMode(u, i, d)
<1> DEFINE v == NewVlan(d)[i]
<1>1. PICK e \in Contents(t) : /\ e.type = "vlan" /\ e.vid = v
                               /\ e.members = IF d THEN Both(i) ELSE Ports
  BY DEF InMode
<1>2. PICK f \in Contents(t) : /\ f.type = "addr" /\ f.addr = BCAST /\ f.vid = v
                               /\ (IF d THEN {HOST} ELSE Both(i)) \subseteq f.mask
  BY DEF InMode
<1>3. PICK g \in Contents(t) : /\ g.type = "addr" /\ g.addr = Mac[i] /\ g.vid = v
                               /\ g.port = HOST /\ g.ucast = "persistant" /\ g.secure = d
  BY DEF InMode
<1>4. e \in Contents(u)
  BY <1>1 DEF Learnt, IsUcast
<1>5. f \in Contents(u)
  BY <1>2, AddrsAssumption DEF Learnt, IsUcast
<1>6. g \in Contents(u)
  BY <1>3 DEF Learnt, IsUcast
<1> HIDE DEF v
<1>7. QED
  BY <1>1, <1>2, <1>3, <1>4, <1>5, <1>6 DEF InMode, v

\* Changes within another VLAN leave it alone.
LEMMA InModeWithin ==
  ASSUME NEW i \in Ifc, NEW d \in BOOLEAN, NEW t, NEW u, InMode(t, i, d),
         NEW w, Within(t, u, w), w # NewVlan(d)[i]
  PROVE  InMode(u, i, d)
BY InModeKept DEF Within

\* What a port is given in dual-EMAC mode.
LEMMA DualDoes ==
  ASSUME NEW a, Good(a), NEW i \in Ifc, NEW b, b = DualEntries(a, i, Mac[i])
  PROVE  /\ Good(b) /\ b.ret \in {OK, ENOMEM}
         /\ Within(a.table, b.table, PortVlan[i])
         /\ b.ret = OK => InMode(b.table, i, TRUE)
<1> DEFINE v == PortVlan[i]
           vlan == AddVlan(a, v, Both(i), Both(i), Both(i), {})
           bcast == AddMcast(vlan, BCAST, {HOST}, FALSE, v)
           ucast == AddUcast(bcast, Mac[i], HOST, TRUE, v)
           e == VlanEntry(v, Both(i), Both(i), Both(i), {})
           f == McastEntry(BCAST, v, MaskAt(vlan.table, BCAST, v) \cup {HOST}, FALSE)
           g == UcastEntry(Mac[i], v, HOST, TRUE, "persistant")
<1>1. /\ v \in Vids /\ Both(i) \in SUBSET Ports /\ Both(i) # {} /\ HOST \in Ports /\ {} \in SUBSET Ports
      /\ Mac[i] \in Stations /\ BCAST \in Groups /\ {HOST} \in SUBSET Ports /\ {HOST} # {}
  BY IfcFacts, AddrsAssumption
<1>2. Good(vlan) /\ Comes(a, vlan, e)
  BY <1>1, AddVlanGood, AddVlanComes
<1> HIDE DEF vlan
<1>3. Good(bcast) /\ Comes(vlan, bcast, f)
  BY <1>1, <1>2, AddMcastGood, AddMcastComes
<1> HIDE DEF bcast
<1>4. Good(ucast) /\ Comes(bcast, ucast, g)
  BY <1>1, <1>3, AddUcastGood, AddUcastComes
<1> HIDE DEF ucast
<1>5. b = Then(Then(vlan, bcast), ucast)
  BY DEF DualEntries, vlan, bcast, ucast
<1>6. /\ vlan.ret \in {OK, ENOMEM} /\ bcast.ret \in {OK, ENOMEM} /\ ucast.ret \in {OK, ENOMEM}
  BY <1>2, <1>3, <1>4 DEF Comes
<1>7. /\ Good(Then(vlan, bcast))
      /\ Then(vlan, bcast).ret = IF vlan.ret = OK THEN bcast.ret ELSE vlan.ret
  BY <1>3, <1>6, ThenDoes DEF Rets
<1>8. /\ Good(b) /\ b.table = ucast.table
      /\ b.ret = IF Then(vlan, bcast).ret = OK THEN ucast.ret ELSE Then(vlan, bcast).ret
  <2>1. Then(vlan, bcast).ret \in Rets
    BY <1>7, GoodRet
  <2>2. QED
    BY <1>4, <1>5, <2>1, ThenDoes
<1>9. b.ret \in {OK, ENOMEM} /\ (b.ret = OK => vlan.ret = OK /\ bcast.ret = OK /\ ucast.ret = OK)
  BY <1>6, <1>7, <1>8
<1>10. Within(a.table, b.table, v)
  <2>1. e.vid = v /\ f.vid = v /\ g.vid = v
    BY DEF VlanEntry, McastEntry, UcastEntry
  <2>2. Within(a.table, vlan.table, v) /\ Within(vlan.table, bcast.table, v) /\ Within(bcast.table, ucast.table, v)
    BY <1>2, <1>3, <1>4, <2>1, ComesWithin
  <2>3. QED
    BY <1>8, <2>2, WithinTrans
<1>11. ASSUME b.ret = OK PROVE InMode(b.table, i, TRUE)
  <2>1. e \in Contents(vlan.table) /\ f \in Contents(bcast.table) /\ g \in Contents(ucast.table)
    BY <1>2, <1>3, <1>4, <1>9, <1>11 DEF Comes
  <2>2. /\ e.type = "vlan" /\ e.vid = v /\ e.members = Both(i)
        /\ f.type = "addr" /\ f.addr = BCAST /\ f.vid = v /\ HOST \in f.mask
        /\ g.type = "addr" /\ g.addr = Mac[i] /\ g.vid = v
        /\ g.port = HOST /\ g.ucast = "persistant" /\ g.secure = TRUE
    BY DEF VlanEntry, McastEntry, UcastEntry
  <2> HIDE DEF e, f, g
  <2>3. ~Learnt(e) /\ ~Learnt(f)
    BY <1>1, <2>2 DEF Learnt, IsUcast
  <2>4. ~SameKey(f, e) /\ ~SameKey(g, e) /\ ~SameKey(g, f)
    <3>1. Mac[i] # BCAST
      BY <1>1, IfcFacts
    <3>2. QED
      BY <2>2, <3>1 DEF SameKey
  <2>5. e \in Contents(ucast.table) /\ f \in Contents(ucast.table)
    BY <1>3, <1>4, <2>1, <2>3, <2>4, ComesKeeps
  <2>6. v = NewVlan(TRUE)[i]
    BY IfcFacts
  <2> HIDE DEF v
  <2>7. QED
    BY <1>8, <2>1, <2>2, <2>5, <2>6 DEF InMode
<1>12. QED
  BY <1>8, <1>9, <1>10, <1>11

\* What a port is given in switch mode, and what the others keep.
LEMMA SwitchDoes ==
  ASSUME NEW a, Good(a), NEW i \in Ifc, NEW b, b = SwitchEntries(a, i, Mac[i])
  PROVE  /\ Good(b) /\ b.ret \in {OK, ENOMEM}
         /\ Within(a.table, b.table, 0)
         /\ HasDefault(a.table) => HasDefault(b.table)
         /\ b.ret = OK /\ HasDefault(a.table) => InMode(b.table, i, FALSE)
         /\ b.ret = OK => \A j \in Ifc : InMode(a.table, j, FALSE) => InMode(b.table, j, FALSE)
<1> DEFINE bcast == AddMcast(a, BCAST, Both(i), FALSE, 0)
           ucast == AddUcast(bcast, Mac[i], HOST, FALSE, 0)
           f == McastEntry(BCAST, 0, MaskAt(a.table, BCAST, 0) \cup Both(i), FALSE)
           g == UcastEntry(Mac[i], 0, HOST, FALSE, "persistant")
<1>1. /\ 0 \in Vids /\ Both(i) \in SUBSET Ports /\ Both(i) # {} /\ HOST \in Ports
      /\ Mac[i] \in Stations /\ BCAST \in Groups
  BY IfcFacts, AddrsAssumption, VidsAssumption
<1>2. Good(bcast) /\ Comes(a, bcast, f)
  BY <1>1, AddMcastGood, AddMcastComes
<1> HIDE DEF bcast
<1>3. Good(ucast) /\ Comes(bcast, ucast, g)
  BY <1>1, <1>2, AddUcastGood, AddUcastComes
<1> HIDE DEF ucast
<1>4. b = Then(bcast, ucast)
  BY DEF SwitchEntries, bcast, ucast
<1>5. bcast.ret \in {OK, ENOMEM} /\ ucast.ret \in {OK, ENOMEM}
  BY <1>2, <1>3 DEF Comes
<1>6. /\ Good(b) /\ b.table = ucast.table
      /\ b.ret = IF bcast.ret = OK THEN ucast.ret ELSE bcast.ret
  BY <1>3, <1>4, <1>5, ThenDoes DEF Rets
<1>7. b.ret \in {OK, ENOMEM} /\ (b.ret = OK => bcast.ret = OK /\ ucast.ret = OK)
  BY <1>5, <1>6
<1>8. /\ f.type = "addr" /\ f.addr = BCAST /\ f.vid = 0
      /\ f.mask = MaskAt(a.table, BCAST, 0) \cup Both(i)
      /\ g.type = "addr" /\ g.addr = Mac[i] /\ g.vid = 0
      /\ g.port = HOST /\ g.ucast = "persistant" /\ g.secure = FALSE
  BY DEF McastEntry, UcastEntry
<1> HIDE DEF f, g
<1>9. Within(a.table, b.table, 0)
  <2>1. Within(a.table, bcast.table, 0) /\ Within(bcast.table, ucast.table, 0)
    BY <1>2, <1>3, <1>8, ComesWithin
  <2>2. QED
    BY <1>6, <2>1, WithinTrans
<1>10. \A e \in Contents(a.table) : e.type = "vlan" => e \in Contents(b.table)
  <2>1. SUFFICES ASSUME NEW e \in Contents(a.table), e.type = "vlan" PROVE e \in Contents(b.table)
    OBVIOUS
  <2>2. ~Learnt(e) /\ ~SameKey(f, e) /\ ~SameKey(g, e)
    BY <1>8, <2>1 DEF Learnt, IsUcast, SameKey
  <2>3. QED
    BY <1>2, <1>3, <1>6, <2>2, ComesKeeps
<1>11. HasDefault(a.table) => HasDefault(b.table)
  BY <1>10 DEF HasDefault
<1>12. ASSUME b.ret = OK PROVE f \in Contents(b.table) /\ g \in Contents(b.table)
  <2>1. f \in Contents(bcast.table) /\ g \in Contents(ucast.table)
    BY <1>2, <1>3, <1>7, <1>12 DEF Comes
  <2>2. ~Learnt(f) /\ ~SameKey(g, f)
    BY <1>1, <1>8, IfcFacts DEF Learnt, IsUcast, SameKey
  <2>3. QED
    BY <1>3, <1>6, <2>1, <2>2, ComesKeeps
<1>13. ASSUME b.ret = OK, HasDefault(a.table) PROVE InMode(b.table, i, FALSE)
  <2>1. Both(i) \subseteq f.mask /\ NewVlan(FALSE)[i] = 0
    BY <1>8, IfcFacts
  <2>2. QED
    BY <1>8, <1>11, <1>12, <1>13, <2>1 DEF InMode, HasDefault
<1>14. ASSUME b.ret = OK, NEW j \in Ifc, InMode(a.table, j, FALSE) PROVE InMode(b.table, j, FALSE)
  <2>1. NewVlan(FALSE)[j] = 0
    BY IfcFacts
  <2>2. PICK e \in Contents(a.table) : e.type = "vlan" /\ e.vid = 0 /\ e.members = Ports
    BY <1>14, <2>1 DEF InMode
  <2>3. PICK m \in Contents(a.table) : m.type = "addr" /\ m.addr = BCAST /\ m.vid = 0 /\ Both(j) \subseteq m.mask
    BY <1>14, <2>1 DEF InMode
  <2>4. PICK u \in Contents(a.table) : /\ u.type = "addr" /\ u.addr = Mac[j] /\ u.vid = 0
                                       /\ u.port = HOST /\ u.ucast = "persistant" /\ u.secure = FALSE
    BY <1>14, <2>1 DEF InMode
  <2>5. e \in Contents(b.table)
    BY <1>10, <2>2
  <2>6. Both(j) \subseteq f.mask
    <3>1. MaskAt(a.table, BCAST, 0) = m.mask
      BY <2>3, MaskIs DEF SameKey, AddrKey
    <3>2. QED
      BY <1>8, <2>3, <3>1
  <2>7. u \in Contents(b.table) \/ (SameKey(g, u))
    <3>1. ~Learnt(u) /\ ~SameKey(f, u)
      BY <1>1, <1>8, <2>4, IfcFacts DEF Learnt, IsUcast, SameKey
    <3>2. u \in Contents(bcast.table)
      BY <1>2, <3>1, ComesKeeps
    <3>3. QED
      BY <1>3, <1>6, <3>1, <3>2, ComesKeeps
  <2>8. \E h \in Contents(b.table) : /\ h.type = "addr" /\ h.addr = Mac[j] /\ h.vid = 0
                                     /\ h.port = HOST /\ h.ucast = "persistant" /\ h.secure = FALSE
    <3>1. CASE u \in Contents(b.table)
      BY <2>4, <3>1
    <3>2. CASE SameKey(g, u)
      BY <1>8, <1>12, <1>14, <2>4, <3>2 DEF SameKey
    <3>3. QED
      BY <2>7, <3>1, <3>2
  <2>9. QED
    BY <1>8, <1>12, <1>14, <2>1, <2>2, <2>5, <2>6, <2>8 DEF InMode
<1>15. QED
  BY <1>6, <1>7, <1>9, <1>11, <1>13, <1>14

\* What the host port is given on an empty table.
LEMMA HostDoes ==
  ASSUME NEW a, Good(a), Contents(a.table) = {}, NEW d \in BOOLEAN, NEW b, b = HostPort(a, d)
  PROVE  /\ Good(b) /\ b.ret \in {OK, ENOMEM}
         /\ \A f \in Contents(b.table) : f.vid = 0
         /\ ~d => HasDefault(b.table)
<1>1. /\ 0 \in Vids /\ Ports \in SUBSET Ports /\ Ports # {} /\ {} \in SUBSET Ports
      /\ {} \in SUBSET Ports /\ Ifc \in SUBSET Ports /\ STPA \in Groups /\ {HOST} \in SUBSET Ports /\ {HOST} # {}
  BY VidsAssumption, PortsAssumption, StpaAssumption DEF Ifc
<1>2. CASE d
  <2>1. b = AddVlan(a, 0, Ports, Ports, {}, {})
    BY <1>2 DEF HostPort, HostPortDual
  <2>2. Good(b) /\ Comes(a, b, VlanEntry(0, Ports, Ports, {}, {}))
    BY <1>1, <2>1, AddVlanGood, AddVlanComes
  <2>3. Within(a.table, b.table, 0)
    BY <2>2, ComesWithin DEF VlanEntry
  <2>4. QED
    BY <1>2, <2>2, <2>3 DEF Within, Comes
<1>3. CASE ~d
  <2> DEFINE vlan == AddVlan(a, 0, Ports, Ports, Ports, Ifc)
             e == VlanEntry(0, Ports, Ports, Ports, Ifc)
             f == McastEntry(STPA, 0, MaskAt(vlan.table, STPA, 0) \cup {HOST}, TRUE)
  <2>1. b = AddMcast(vlan, STPA, {HOST}, TRUE, 0)
    BY <1>3 DEF HostPort, HostPortSwitch
  <2>2. Good(vlan) /\ Comes(a, vlan, e)
    BY <1>1, AddVlanGood, AddVlanComes
  <2>3. vlan.ret = OK
    <3>1. \A k \in Slot : a.table[k] = Free
      BY DEF Contents
    <3>2. 0 \in Slot
      BY EntriesAssumption DEF Slot
    <3>3. MatchFree(a.table) # {} /\ MatchVlan(a.table, 0) = {}
      BY <3>1, <3>2 DEF MatchFree, MatchVlan, Free
    <3>4. Place(a.table, MatchVlan(a.table, 0)) # {}
      BY <3>3 DEF Place
    <3>5. PICK c : c = [a EXCEPT !.untag = SetVlanUntag(@, 0, Ports)]
      OBVIOUS
    <3>6. PICK k : k = First(Place(a.table, MatchVlan(a.table, 0)))
      OBVIOUS
    <3>7. vlan = [c EXCEPT !.table[k] = e, !.ret = OK]
      BY <3>4, <3>5, <3>6 DEF AddVlan, Put
    <3>8. DOMAIN c = {"table", "untag", "ret"}
      BY <3>5 DEF Good, Engine
    <3>9. QED
      BY <3>7, <3>8
  <2> HIDE DEF vlan
  <2>4. Good(b) /\ Comes(vlan, b, f)
    <3>1. Good(AddMcast(vlan, STPA, {HOST}, TRUE, 0))
      BY <1>1, <2>2, AddMcastGood
    <3>2. Comes(vlan, AddMcast(vlan, STPA, {HOST}, TRUE, 0), f)
      BY <2>2, AddMcastComes
    <3>3. QED
      BY <2>1, <3>1, <3>2
  <2>5. e \in Contents(vlan.table) /\ e.type = "vlan" /\ e.vid = 0 /\ e.members = Ports
    BY <2>2, <2>3 DEF Comes, VlanEntry
  <2>6. ~Learnt(e) /\ ~SameKey(f, e)
    BY <2>5 DEF Learnt, IsUcast, SameKey, McastEntry
  <2>7. e \in Contents(b.table)
    BY <2>4, <2>5, <2>6, ComesKeeps
  <2>8. e.vid = 0 /\ f.vid = 0
    BY <2>5 DEF McastEntry
  <2> HIDE DEF e, f
  <2>9. Within(a.table, vlan.table, 0) /\ Within(vlan.table, b.table, 0)
    BY <2>2, <2>4, <2>8, ComesWithin
  <2>10. \A h \in Contents(b.table) : h.vid = 0
    BY <2>9 DEF Within
  <2>11. QED
    BY <2>4, <2>5, <2>7, <2>10 DEF HasDefault, Comes
<1>4. QED
  BY <1>2, <1>3

GoodOnes == {e \in Engine : Good(e)}

\* The good engines as a set.
LEMMA GoodOne ==
  ASSUME NEW a
  PROVE  a \in GoodOnes <=> Good(a)
BY DEF GoodOnes, Good

\* What a port is given in either mode leaves a good engine.
LEMMA PortEntriesGood ==
  ASSUME NEW a, Good(a), NEW i \in Ifc, NEW d \in BOOLEAN
  PROVE  Good(PortEntries(a, i, d))
<1>1. CASE d
  <2>1. Good(DualEntries(a, i, Mac[i]))
    BY DualDoes
  <2>2. QED
    BY <1>1, <2>1 DEF PortEntries
<1>2. CASE ~d
  <2>1. Good(SwitchEntries(a, i, Mac[i]))
    BY SwitchDoes
  <2>2. QED
    BY <1>2, <2>1 DEF PortEntries
<1>3. QED
  BY <1>1, <1>2

\* The entries of some ports, port by port.
PortsGiven(a, S, d) == AllEntries(a, S, LAMBDA b, i : PortEntries(b, i, d))
IsPortFold(h, a, S, d) ==
  /\ PortsGiven(a, S, d) = h[S]
  /\ h[{}] = a
  /\ \A s \in SUBSET S : s # {} =>
       h[s] = Then(h[s \ {Pick(s)}], PortEntries(h[s \ {Pick(s)}], Pick(s), d))

\* The calls for the ports as a function of the ports that are done.
LEMMA PortFold ==
  ASSUME NEW a, Good(a), NEW d \in BOOLEAN, NEW S \in SUBSET Ifc
  PROVE  \E h : IsPortFold(h, a, S, d)
<1> DEFINE Step(g, s) ==
             IF s = {} THEN a
             ELSE Then(g[s \ {Pick(s)}], PortEntries(g[s \ {Pick(s)}], Pick(s), d))
           G == [q \in S \X GoodOnes |-> Then(q[2], PortEntries(q[2], q[1], d))]
           h == CHOOSE g : g = [s \in SUBSET S |-> Step(g, s)]
<1>1. PortsGiven(a, S, d) = h[S]
  BY DEF PortsGiven, AllEntries, FoldSet, MapThenFoldSet, Pick
<1>2. G \in [S \X GoodOnes -> GoodOnes]
  BY GoodOne, ThenGood, PortEntriesGood
<1>3. IsFiniteSet(S)
  BY PortsAssumption, FS_Subset DEF Ifc
<1>4. a \in GoodOnes
  BY GoodOne
<1>5. PICK g : IsFold(g, S, GoodOnes, a, G)
  <2> HIDE DEF G
  <2>1. QED
    BY <1>2, <1>3, <1>4, FoldExists
<1>6. \A s \in SUBSET S : g[s] = Step(g, s)
  <2>1. SUFFICES ASSUME NEW s \in SUBSET S, s # {} PROVE g[s] = Step(g, s)
    BY <1>5 DEF IsFold, FoldStep
  <2>2. Pick(s) \in S /\ g[s \ {Pick(s)}] \in GoodOnes
    BY <1>5, <2>1, PickIn DEF IsFold
  <2>3. g[s] = G[<<Pick(s), g[s \ {Pick(s)}]>>]
    BY <1>5, <2>1 DEF IsFold, FoldStep
  <2>4. QED
    BY <2>1, <2>2, <2>3
<1>7. g = [s \in SUBSET S |-> Step(g, s)]
  <2> HIDE DEF Step
  <2>1. QED
    BY <1>5, <1>6 DEF IsFold
<1>8. h = [s \in SUBSET S |-> Step(h, s)]
  <2> HIDE DEF Step
  <2>1. QED
    BY <1>7
<1>9. \A s \in SUBSET S : h[s] = Step(h, s)
  <2> HIDE DEF Step, h
  <2>1. QED
    BY <1>8
<1> HIDE DEF h
<1>10. IsPortFold(h, a, S, d)
  BY <1>1, <1>9 DEF IsPortFold
<1>11. QED
  BY <1>10

\* What a port is given in a mode, and what the other ports keep.
LEMMA PortDoes ==
  ASSUME NEW a, Good(a), NEW i \in Ifc, NEW d \in BOOLEAN, NEW b, b = PortEntries(a, i, d)
  PROVE  /\ Good(b) /\ b.ret \in {OK, ENOMEM}
         /\ Within(a.table, b.table, NewVlan(d)[i])
         /\ ~d /\ HasDefault(a.table) => HasDefault(b.table)
         /\ b.ret = OK /\ (d \/ HasDefault(a.table)) => InMode(b.table, i, d)
         /\ b.ret = OK => \A j \in Ifc \ {i} : InMode(a.table, j, d) => InMode(b.table, j, d)
<1>1. CASE d
  <2>1. b = DualEntries(a, i, Mac[i])
    BY <1>1 DEF PortEntries
  <2>2. /\ Good(b) /\ b.ret \in {OK, ENOMEM}
        /\ Within(a.table, b.table, PortVlan[i])
        /\ b.ret = OK => InMode(b.table, i, TRUE)
    BY <2>1, DualDoes
  <2>3. NewVlan(d)[i] = PortVlan[i] /\ d = TRUE
    BY <1>1, IfcFacts
  <2>4. ASSUME NEW j \in Ifc \ {i}, InMode(a.table, j, d) PROVE InMode(b.table, j, d)
    <3>1. PortVlan[i] # NewVlan(d)[j]
      BY <1>1, PortVlanAssumption, IfcFacts
    <3>2. QED
      BY <2>2, <2>4, <3>1, InModeWithin
  <2>5. QED
    BY <1>1, <2>2, <2>3, <2>4
<1>2. CASE ~d
  <2>1. b = SwitchEntries(a, i, Mac[i])
    BY <1>2 DEF PortEntries
  <2>2. NewVlan(d)[i] = 0 /\ d = FALSE
    BY <1>2, IfcFacts
  <2>3. QED
    BY <2>1, <2>2, SwitchDoes
<1>3. QED
  BY <1>1, <1>2

\* What the ports are given when the mode changes.
LEMMA ModeDoes ==
  ASSUME NEW a, Good(a), Contents(a.table) = {}, NEW d \in BOOLEAN, NEW S \in SUBSET Ifc,
         NEW b, b = PortsGiven(HostPort(a, d), S, d)
  PROVE  /\ Good(b) /\ b.ret \in {OK, ENOMEM}
         /\ b.ret = OK => \A i \in S : InMode(b.table, i, d)
         /\ ~d => \A f \in Contents(b.table) : f.vid = 0
<1> DEFINE base == HostPort(a, d)
           J(c, s) == /\ Good(c) /\ c.ret \in {OK, ENOMEM}
                      /\ ~d => HasDefault(c.table) /\ \A f \in Contents(c.table) : f.vid = 0
                      /\ c.ret = OK => \A i \in s : InMode(c.table, i, d)
<1>1. J(base, {})
  BY HostDoes
<1> HIDE DEF base
<1>2. b = PortsGiven(base, S, d)
  BY DEF base
<1>3. PICK h : IsPortFold(h, base, S, d)
  <2>1. Good(base)
    BY <1>1
  <2> HIDE DEF J
  <2>2. QED
    BY <2>1, PortFold
<1> DEFINE P == {s \in SUBSET S : J(h[s], s)}
<1>4. {} \in P
  BY <1>1, <1>3 DEF IsPortFold
<1>5. ASSUME NEW s \in SUBSET S, s # {}, s \ {Pick(s)} \in P PROVE s \in P
  <2> DEFINE i == Pick(s)
             c == h[s \ {i}]
             e == PortEntries(c, i, d)
             f == h[s]
  <2>1. i \in s /\ i \in Ifc
    BY <1>5, PickIn
  <2>2. J(c, s \ {i})
    BY <1>5
  <2>3. f = Then(c, e)
    BY <1>3, <1>5 DEF IsPortFold
  <2> HIDE DEF i, c, f
  <2>4. /\ Good(e) /\ e.ret \in {OK, ENOMEM}
        /\ Within(c.table, e.table, NewVlan(d)[i])
        /\ ~d /\ HasDefault(c.table) => HasDefault(e.table)
        /\ e.ret = OK /\ (d \/ HasDefault(c.table)) => InMode(e.table, i, d)
        /\ e.ret = OK => \A j \in Ifc \ {i} : InMode(c.table, j, d) => InMode(e.table, j, d)
    <3>1. Good(c)
      BY <2>2
    <3> HIDE DEF J, P
    <3>2. QED
      BY <2>1, <3>1, PortDoes
  <2> HIDE DEF e
  <2>5. Good(f) /\ f.table = e.table /\ f.ret = IF c.ret = OK THEN e.ret ELSE c.ret
    BY <2>2, <2>3, <2>4, ThenDoes, GoodRet
  <2>6. ~d => \A g \in Contents(e.table) : g.vid = 0
    BY <2>1, <2>2, <2>4, IfcFacts DEF Within
  <2>7. f.ret = OK => \A j \in s : InMode(f.table, j, d)
    BY <2>1, <2>2, <2>4, <2>5
  <2>8. J(f, s)
    BY <2>2, <2>4, <2>5, <2>6, <2>7
  <2>9. QED
    BY <2>8 DEF f
<1>6. S \in P
  <2>1. IsFiniteSet(S)
    BY PortsAssumption, FS_Subset DEF Ifc
  <2> HIDE DEF P
  <2>2. QED
    BY <1>4, <1>5, <2>1, FoldInduction
<1>7. J(b, S)
  BY <1>2, <1>3, <1>6 DEF IsPortFold
<1>8. QED
  BY <1>7

-----------------------------------------------------------------------------
(* VLANs of the bridge.                                                    *)

\* The entries that a VLAN of the bridge brings: its own, and those of the interfaces and of broadcast.
Own(f, v) ==
  f.vid = v /\ (f.type = "vlan" \/ (f.type = "addr" /\ f.addr \in {BCAST} \cup {Mac[i] : i \in Ifc}))

\* Only such entries change, or learned ones are lost.
Aside(t, u, v) ==
  /\ \A f \in Contents(t) : f \in Contents(u) \/ Own(f, v) \/ Learnt(f)
  /\ \A f \in Contents(u) : f \in Contents(t) \/ Own(f, v)

\* A VLAN has a port more, or less, than before.
Gains(t, u, v, p) == MembersAt(u, v) = MembersAt(t, v) \cup {p}
Loses(t, u, v, p) == MembersAt(u, v) = MembersAt(t, v) \ {p}

\* The entries that answer a search.
LEMMA KeyOf ==
  ASSUME NEW x, NEW v, NEW f
  PROVE  /\ SameKey(VlanKey(v), f) <=> f.type = "vlan" /\ f.vid = v
         /\ SameKey(AddrKey(x, v), f) <=> f.type = "addr" /\ f.addr = x /\ f.vid = v
BY DEF SameKey, VlanKey, AddrKey

\* Tables with the same entry of a VLAN agree about its ports.
LEMMA MembersSame ==
  ASSUME NEW t, NEW u, NEW v,
         \A f \in Contents(t) : f.type = "vlan" /\ f.vid = v => f \in Contents(u),
         \A f \in Contents(u) : f.type = "vlan" /\ f.vid = v => f \in Contents(t)
  PROVE  MembersAt(t, v) = MembersAt(u, v)
<1>1. {f \in Contents(t) : SameKey(VlanKey(v), f)} = {f \in Contents(u) : SameKey(VlanKey(v), f)}
  BY KeyOf
<1>2. QED
  BY <1>1 DEF MembersAt

\* Tables with the same entry of a group agree about its ports.
LEMMA MaskSame ==
  ASSUME NEW t, NEW u, NEW x, NEW v,
         \A f \in Contents(t) : f.type = "addr" /\ f.addr = x /\ f.vid = v => f \in Contents(u),
         \A f \in Contents(u) : f.type = "addr" /\ f.addr = x /\ f.vid = v => f \in Contents(t)
  PROVE  MaskAt(t, x, v) = MaskAt(u, x, v)
<1>1. {f \in Contents(t) : SameKey(AddrKey(x, v), f)} = {f \in Contents(u) : SameKey(AddrKey(x, v), f)}
  BY KeyOf
<1>2. QED
  BY <1>1 DEF MaskAt

\* A call for an address leaves the VLANs alone.
LEMMA MembersKept ==
  ASSUME NEW t, NEW u, NEW key, key.type = "addr", SameBut(t, u, key), NEW v
  PROVE  MembersAt(t, v) = MembersAt(u, v)
<1>1. \A f : f.type = "vlan" => ~SameKey(key, f) /\ ~Learnt(f)
  BY DEF SameKey, Learnt, IsUcast
<1>2. /\ \A f \in Contents(t) : f.type = "vlan" => f \in Contents(u)
      /\ \A f \in Contents(u) : f.type = "vlan" => f \in Contents(t)
  BY <1>1 DEF SameBut
<1>3. QED
  BY <1>2, MembersSame

\* Such changes add up.
LEMMA AsideTrans ==
  ASSUME NEW t, NEW u, NEW w, NEW v, Aside(t, u, v), Aside(u, w, v)
  PROVE  Aside(t, w, v)
BY DEF Aside

\* No change is one of them.
LEMMA AsideSelf ==
  ASSUME NEW t, NEW v
  PROVE  Aside(t, t, v)
BY DEF Aside

\* A change of one key of this kind.
LEMMA AsideOf ==
  ASSUME NEW t, NEW u, NEW key, SameBut(t, u, key), NEW v, key.vid = v,
         key.type = "vlan" \/ (key.type = "addr" /\ key.addr \in {BCAST} \cup {Mac[i] : i \in Ifc})
  PROVE  Aside(t, u, v)
<1>1. \A f : SameKey(key, f) => Own(f, v)
  BY DEF SameKey, Own
<1>2. QED
  BY <1>1 DEF SameBut, Aside

\* All of it is within the VLAN.
LEMMA AsideWithin ==
  ASSUME NEW t, NEW u, NEW v, Aside(t, u, v)
  PROVE  Within(t, u, v)
BY DEF Aside, Within, Own

\* What cpsw_port_vlan_add does to the table.
LEMMA VlanAddDoes ==
  ASSUME NEW a, Good(a), NEW v \in Vids, NEW i \in Ifc, NEW p \in Ports, NEW untag \in BOOLEAN,
         NEW b, b = VlanAdd(a, v, i, p, untag)
  PROVE  /\ Good(b) /\ b.ret \in {OK, ENOMEM}
         /\ Aside(a.table, b.table, v)
         /\ b.ret = OK => Gains(a.table, b.table, v, p)
<1> DEFINE vlan == VlanAddModify(a, v, {p}, IF untag THEN {p} ELSE {}, {p},
                                 IF p = HOST THEN {HOST} ELSE {})
           ucast == AddUcast(vlan, Mac[i], HOST, FALSE, v)
           g == UcastEntry(Mac[i], v, HOST, FALSE, "persistant")
<1>1. Good(vlan)
  <2>1. /\ {p} \in SUBSET Ports /\ {p} # {} /\ (IF untag THEN {p} ELSE {}) \in SUBSET {p}
        /\ {p} \in SUBSET {p} /\ (IF p = HOST THEN {HOST} ELSE {}) \in SUBSET {p}
    OBVIOUS
  <2>2. QED
    BY <2>1, VlanAddModifyGood
<1>2. PICK e : /\ e.type = "vlan" /\ e.vid = v /\ e.members = MembersAt(a.table, v) \cup {p}
               /\ Comes(a, vlan, e)
  <2>1. \A q, u, r, w : \E e : /\ e.type = "vlan" /\ e.vid = v /\ e.members = MembersAt(a.table, v) \cup q
                               /\ Comes(a, VlanAddModify(a, v, q, u, r, w), e)
    BY VlanAddModifyComes
  <2>2. QED
    BY <2>1
<1>3. b = IF vlan.ret # OK \/ p # HOST THEN vlan ELSE Then(vlan, ucast)
  BY DEF VlanAdd
<1> HIDE DEF vlan
<1>4. vlan.ret \in {OK, ENOMEM} /\ Aside(a.table, vlan.table, v)
  <2>1. SameBut(a.table, vlan.table, e) /\ vlan.ret \in {OK, ENOMEM}
    BY <1>2 DEF Comes
  <2>2. QED
    BY <1>2, <2>1, AsideOf
<1>5. ASSUME vlan.ret = OK PROVE MembersAt(vlan.table, v) = MembersAt(a.table, v) \cup {p}
  <2>1. e \in Contents(vlan.table) /\ SameKey(VlanKey(v), e)
    BY <1>2, <1>5, KeyOf DEF Comes
  <2>2. QED
    BY <1>1, <1>2, <2>1, MembersIs
<1>6. CASE vlan.ret # OK \/ p # HOST
  BY <1>1, <1>3, <1>4, <1>5, <1>6 DEF Gains
<1>7. CASE vlan.ret = OK /\ p = HOST
  <2>1. Good(ucast)
    <3>1. Mac[i] \in Stations /\ HOST \in Ports /\ FALSE \in BOOLEAN
      BY IfcFacts
    <3>2. QED
      BY <1>1, <3>1, AddUcastGood
  <2>2. Comes(vlan, ucast, g)
    BY <1>1, AddUcastComes
  <2>3. b = Then(vlan, ucast)
    BY <1>3, <1>7
  <2>4. g.type = "addr" /\ g.addr = Mac[i] /\ g.vid = v
    BY DEF UcastEntry
  <2> HIDE DEF ucast, g
  <2>5. Good(b) /\ b.table = ucast.table /\ b.ret = ucast.ret
    BY <1>1, <1>7, <2>1, <2>3, ThenDoes, GoodRet
  <2>6. Aside(vlan.table, ucast.table, v) /\ ucast.ret \in {OK, ENOMEM}
    BY <2>2, <2>4, AsideOf DEF Comes
  <2>7. MembersAt(vlan.table, v) = MembersAt(ucast.table, v)
    BY <2>2, <2>4, MembersKept DEF Comes
  <2>8. QED
    BY <1>4, <1>5, <1>7, <2>5, <2>6, <2>7, AsideTrans DEF Gains
<1>8. QED
  BY <1>4, <1>6, <1>7

\* A removal finds the entry or does not.
LEMMA DelRets ==
  ASSUME NEW a, Good(a), NEW x, NEW m, NEW v
  PROVE  /\ VlanDelModify(a, v, m).ret \in {OK, ENOENT}
         /\ DelMcast(a, x, m, v).ret \in {OK, ENOENT}
         /\ DelUcast(a, x, v).ret \in {OK, ENOENT}
BY DEF VlanDelModify, ModifyVlan, DelMcast, DelUcast, Change, Good, Engine

\* What cpsw_port_vlan_del does to the table.
LEMMA VlanDelDoes ==
  ASSUME NEW a, Good(a), NEW v \in Vids, NEW i \in Ifc, NEW p \in Ports,
         NEW b, b = VlanDel(a, v, i, p)
  PROVE  /\ Good(b) /\ b.ret \in {OK, ENOENT}
         /\ Aside(a.table, b.table, v)
         /\ Loses(a.table, b.table, v, p)
<1> DEFINE vlan == VlanDelModify(a, v, {p})
           ucast == IF p = HOST THEN DelUcast(vlan, Mac[i], v) ELSE vlan
           mcast == DelMcast(ucast, BCAST, {p}, v)
<1>1. /\ Good(vlan) /\ vlan.ret \in {OK, ENOENT}
      /\ SameBut(a.table, vlan.table, VlanKey(v))
      /\ MembersAt(vlan.table, v) = MembersAt(a.table, v) \ {p}
  <2>1. {p} \in SUBSET Ports
    OBVIOUS
  <2>2. vlan.ret \in {OK, ENOENT}
    BY DelRets
  <2>3. QED
    BY <2>1, <2>2, VlanDelModifyGood, VlanDelModifyDoes
<1>2. b = IF vlan.ret # OK THEN vlan ELSE mcast
  BY DEF VlanDel
<1> HIDE DEF vlan
<1>3. Aside(a.table, vlan.table, v)
  <2>1. VlanKey(v).type = "vlan" /\ VlanKey(v).vid = v
    BY DEF VlanKey
  <2>2. QED
    BY <1>1, <2>1, AsideOf
<1>4. /\ Good(ucast) /\ Aside(vlan.table, ucast.table, v)
      /\ MembersAt(vlan.table, v) = MembersAt(ucast.table, v)
  <2>1. CASE p = HOST
    <3>1. ucast = DelUcast(vlan, Mac[i], v) /\ Mac[i] \in Stations
      BY <2>1, IfcFacts
    <3>2. Good(ucast) /\ SameBut(vlan.table, ucast.table, AddrKey(Mac[i], v))
      BY <1>1, <3>1, DelUcastGood, DelUcastDoes
    <3> HIDE DEF ucast
    <3>3. QED
      BY <3>2, AsideOf, MembersKept DEF AddrKey
  <2>2. CASE p # HOST
    BY <1>1, <2>2, AsideSelf
  <2>3. QED
    BY <2>1, <2>2
<1> HIDE DEF ucast
<1>5. /\ Good(mcast) /\ SameBut(ucast.table, mcast.table, AddrKey(BCAST, v))
      /\ mcast.ret \in {OK, ENOENT}
  BY <1>4, AddrsAssumption, DelMcastGood, DelMcastDoes, DelRets
<1> HIDE DEF mcast
<1>6. Aside(ucast.table, mcast.table, v) /\ MembersAt(ucast.table, v) = MembersAt(mcast.table, v)
  BY <1>5, AsideOf, MembersKept DEF AddrKey
<1>7. QED
  BY <1>1, <1>2, <1>3, <1>4, <1>5, <1>6, AsideTrans DEF Loses

\* A VLAN is given to a port, or to the host port for some ports.
VlanGiven(a, S, v, p, untag) == AllEntries(a, S, LAMBDA b, i : VlanAdd(b, v, i, p, untag))
IsVlanGiven(h, a, S, v, p, untag) ==
  /\ VlanGiven(a, S, v, p, untag) = h[S]
  /\ h[{}] = a
  /\ \A s \in SUBSET S : s # {} =>
       h[s] = Then(h[s \ {Pick(s)}], VlanAdd(h[s \ {Pick(s)}], v, Pick(s), p, untag))

\* The calls for the ports as a function of the ports that are done.
LEMMA GivenFold ==
  ASSUME NEW a, Good(a), NEW S \in SUBSET Ifc, NEW v \in Vids, NEW p \in Ports, NEW untag \in BOOLEAN
  PROVE  \E h : IsVlanGiven(h, a, S, v, p, untag)
<1> DEFINE Step(g, s) ==
             IF s = {} THEN a
             ELSE Then(g[s \ {Pick(s)}], VlanAdd(g[s \ {Pick(s)}], v, Pick(s), p, untag))
           G == [q \in S \X GoodOnes |-> Then(q[2], VlanAdd(q[2], v, q[1], p, untag))]
           h == CHOOSE g : g = [s \in SUBSET S |-> Step(g, s)]
<1>1. VlanGiven(a, S, v, p, untag) = h[S]
  BY DEF VlanGiven, AllEntries, FoldSet, MapThenFoldSet, Pick
<1>2. G \in [S \X GoodOnes -> GoodOnes]
  <2>1. \A b, i : Good(b) /\ i \in Ifc => Good(VlanAdd(b, v, i, p, untag))
    BY VlanAddDoes
  <2>2. QED
    BY <2>1, GoodOne, ThenGood
<1>3. IsFiniteSet(S)
  BY PortsAssumption, FS_Subset DEF Ifc
<1>4. a \in GoodOnes
  BY GoodOne
<1>5. PICK g : IsFold(g, S, GoodOnes, a, G)
  <2> HIDE DEF G
  <2>1. QED
    BY <1>2, <1>3, <1>4, FoldExists
<1>6. \A s \in SUBSET S : g[s] = Step(g, s)
  <2>1. SUFFICES ASSUME NEW s \in SUBSET S, s # {} PROVE g[s] = Step(g, s)
    BY <1>5 DEF IsFold, FoldStep
  <2>2. Pick(s) \in S /\ g[s \ {Pick(s)}] \in GoodOnes
    BY <1>5, <2>1, PickIn DEF IsFold
  <2>3. g[s] = G[<<Pick(s), g[s \ {Pick(s)}]>>]
    BY <1>5, <2>1 DEF IsFold, FoldStep
  <2>4. QED
    BY <2>1, <2>2, <2>3
<1>7. g = [s \in SUBSET S |-> Step(g, s)]
  <2> HIDE DEF Step
  <2>1. QED
    BY <1>5, <1>6 DEF IsFold
<1>8. h = [s \in SUBSET S |-> Step(h, s)]
  <2> HIDE DEF Step
  <2>1. QED
    BY <1>7
<1>9. \A s \in SUBSET S : h[s] = Step(h, s)
  <2> HIDE DEF Step, h
  <2>1. QED
    BY <1>8
<1> HIDE DEF h
<1>10. IsVlanGiven(h, a, S, v, p, untag)
  BY <1>1, <1>9 DEF IsVlanGiven
<1>11. QED
  BY <1>10

\* A VLAN is taken from a port, or from the host port for some ports.
VlanTaken(a, S, v, p) == AllEntries(a, S, LAMBDA b, i : VlanDel(b, v, i, p))
IsVlanTaken(h, a, S, v, p) ==
  /\ VlanTaken(a, S, v, p) = h[S]
  /\ h[{}] = a
  /\ \A s \in SUBSET S : s # {} =>
       h[s] = Then(h[s \ {Pick(s)}], VlanDel(h[s \ {Pick(s)}], v, Pick(s), p))

\* The calls for the ports as a function of the ports that are done.
LEMMA TakenFold ==
  ASSUME NEW a, Good(a), NEW S \in SUBSET Ifc, NEW v \in Vids, NEW p \in Ports
  PROVE  \E h : IsVlanTaken(h, a, S, v, p)
<1> DEFINE Step(g, s) ==
             IF s = {} THEN a
             ELSE Then(g[s \ {Pick(s)}], VlanDel(g[s \ {Pick(s)}], v, Pick(s), p))
           G == [q \in S \X GoodOnes |-> Then(q[2], VlanDel(q[2], v, q[1], p))]
           h == CHOOSE g : g = [s \in SUBSET S |-> Step(g, s)]
<1>1. VlanTaken(a, S, v, p) = h[S]
  BY DEF VlanTaken, AllEntries, FoldSet, MapThenFoldSet, Pick
<1>2. G \in [S \X GoodOnes -> GoodOnes]
  <2>1. \A b, i : Good(b) /\ i \in Ifc => Good(VlanDel(b, v, i, p))
    BY VlanDelDoes
  <2>2. QED
    BY <2>1, GoodOne, ThenGood
<1>3. IsFiniteSet(S)
  BY PortsAssumption, FS_Subset DEF Ifc
<1>4. a \in GoodOnes
  BY GoodOne
<1>5. PICK g : IsFold(g, S, GoodOnes, a, G)
  <2> HIDE DEF G
  <2>1. QED
    BY <1>2, <1>3, <1>4, FoldExists
<1>6. \A s \in SUBSET S : g[s] = Step(g, s)
  <2>1. SUFFICES ASSUME NEW s \in SUBSET S, s # {} PROVE g[s] = Step(g, s)
    BY <1>5 DEF IsFold, FoldStep
  <2>2. Pick(s) \in S /\ g[s \ {Pick(s)}] \in GoodOnes
    BY <1>5, <2>1, PickIn DEF IsFold
  <2>3. g[s] = G[<<Pick(s), g[s \ {Pick(s)}]>>]
    BY <1>5, <2>1 DEF IsFold, FoldStep
  <2>4. QED
    BY <2>1, <2>2, <2>3
<1>7. g = [s \in SUBSET S |-> Step(g, s)]
  <2> HIDE DEF Step
  <2>1. QED
    BY <1>5, <1>6 DEF IsFold
<1>8. h = [s \in SUBSET S |-> Step(h, s)]
  <2> HIDE DEF Step
  <2>1. QED
    BY <1>7
<1>9. \A s \in SUBSET S : h[s] = Step(h, s)
  <2> HIDE DEF Step, h
  <2>1. QED
    BY <1>8
<1> HIDE DEF h
<1>10. IsVlanTaken(h, a, S, v, p)
  BY <1>1, <1>9 DEF IsVlanTaken
<1>11. QED
  BY <1>10

\* Whatever the number of ports that the calls are made for, the VLAN has one port more.
LEMMA GivenDoes ==
  ASSUME NEW a, Good(a), a.ret = OK, NEW S \in SUBSET Ifc, S # {}, NEW v \in Vids, NEW p \in Ports,
         NEW untag \in BOOLEAN, NEW b, b = VlanGiven(a, S, v, p, untag)
  PROVE  /\ Good(b) /\ b.ret \in {OK, ENOMEM}
         /\ Aside(a.table, b.table, v)
         /\ b.ret = OK => Gains(a.table, b.table, v, p)
<1> DEFINE J(c, s) == /\ Good(c) /\ c.ret \in {OK, ENOMEM}
                      /\ Aside(a.table, c.table, v)
                      /\ c.ret = OK =>
                           MembersAt(c.table, v) = MembersAt(a.table, v) \cup (IF s = {} THEN {} ELSE {p})
<1>1. J(a, {})
  BY AsideSelf
<1>2. PICK h : IsVlanGiven(h, a, S, v, p, untag)
  BY GivenFold
<1> DEFINE P == {s \in SUBSET S : J(h[s], s)}
<1>3. {} \in P
  BY <1>1, <1>2 DEF IsVlanGiven
<1>4. ASSUME NEW s \in SUBSET S, s # {}, s \ {Pick(s)} \in P PROVE s \in P
  <2> DEFINE i == Pick(s)
             c == h[s \ {i}]
             e == VlanAdd(c, v, i, p, untag)
             f == h[s]
  <2>1. i \in s /\ i \in Ifc
    BY <1>4, PickIn
  <2>2. J(c, s \ {i})
    BY <1>4
  <2>3. f = Then(c, e)
    BY <1>2, <1>4 DEF IsVlanGiven
  <2> HIDE DEF i, c, f, P
  <2>4. /\ Good(e) /\ e.ret \in {OK, ENOMEM}
        /\ Aside(c.table, e.table, v)
        /\ e.ret = OK => Gains(c.table, e.table, v, p)
    <3>1. Good(c)
      BY <2>2
    <3>2. e = VlanAdd(c, v, i, p, untag)
      OBVIOUS
    <3> HIDE DEF J, e
    <3>3. QED
      BY <2>1, <3>1, <3>2, VlanAddDoes
  <2> HIDE DEF e
  <2>5. Good(f) /\ f.table = e.table /\ f.ret = IF c.ret = OK THEN e.ret ELSE c.ret
    BY <2>2, <2>3, <2>4, ThenDoes, GoodRet
  <2>6. Aside(a.table, e.table, v)
    BY <2>2, <2>4, AsideTrans
  <2>7. J(f, s)
    BY <1>4, <2>2, <2>4, <2>5, <2>6 DEF Gains
  <2>8. QED
    BY <2>7 DEF f, P
<1>5. S \in P
  <2>1. IsFiniteSet(S)
    BY PortsAssumption, FS_Subset DEF Ifc
  <2> HIDE DEF P
  <2>2. QED
    BY <1>3, <1>4, <2>1, FoldInduction
<1>6. J(b, S)
  BY <1>2, <1>5 DEF IsVlanGiven
<1>7. QED
  BY <1>6 DEF Gains

\* Whatever the number of ports that the calls are made for, the VLAN has one port less.
LEMMA TakenDoes ==
  ASSUME NEW a, Good(a), a.ret = OK, NEW S \in SUBSET Ifc, S # {}, NEW v \in Vids, NEW p \in Ports,
         NEW b, b = VlanTaken(a, S, v, p)
  PROVE  /\ Good(b) /\ b.ret \in {OK, ENOENT}
         /\ Aside(a.table, b.table, v)
         /\ Loses(a.table, b.table, v, p)
<1> DEFINE J(c, s) == /\ Good(c) /\ c.ret \in {OK, ENOENT}
                      /\ Aside(a.table, c.table, v)
                      /\ MembersAt(c.table, v) = MembersAt(a.table, v) \ (IF s = {} THEN {} ELSE {p})
<1>1. J(a, {})
  BY AsideSelf
<1>2. PICK h : IsVlanTaken(h, a, S, v, p)
  BY TakenFold
<1> DEFINE P == {s \in SUBSET S : J(h[s], s)}
<1>3. {} \in P
  BY <1>1, <1>2 DEF IsVlanTaken
<1>4. ASSUME NEW s \in SUBSET S, s # {}, s \ {Pick(s)} \in P PROVE s \in P
  <2> DEFINE i == Pick(s)
             c == h[s \ {i}]
             e == VlanDel(c, v, i, p)
             f == h[s]
  <2>1. i \in s /\ i \in Ifc
    BY <1>4, PickIn
  <2>2. J(c, s \ {i})
    BY <1>4
  <2>3. f = Then(c, e)
    BY <1>2, <1>4 DEF IsVlanTaken
  <2> HIDE DEF i, c, f, P
  <2>4. /\ Good(e) /\ e.ret \in {OK, ENOENT}
        /\ Aside(c.table, e.table, v)
        /\ Loses(c.table, e.table, v, p)
    <3>1. Good(c)
      BY <2>2
    <3>2. e = VlanDel(c, v, i, p)
      OBVIOUS
    <3> HIDE DEF J, e
    <3>3. QED
      BY <2>1, <3>1, <3>2, VlanDelDoes
  <2> HIDE DEF e
  <2>5. Good(f) /\ f.table = e.table /\ f.ret = IF c.ret = OK THEN e.ret ELSE c.ret
    BY <2>2, <2>3, <2>4, ThenDoes, GoodRet
  <2>6. Aside(a.table, e.table, v)
    BY <2>2, <2>4, AsideTrans
  <2>7. J(f, s)
    BY <1>4, <2>2, <2>4, <2>5, <2>6 DEF Loses
  <2>8. QED
    BY <2>7 DEF f, P
<1>5. S \in P
  <2>1. IsFiniteSet(S)
    BY PortsAssumption, FS_Subset DEF Ifc
  <2> HIDE DEF P
  <2>2. QED
    BY <1>3, <1>4, <2>1, FoldInduction
<1>6. J(b, S)
  BY <1>2, <1>5 DEF IsVlanTaken
<1>7. QED
  BY <1>6 DEF Loses

-----------------------------------------------------------------------------
(* The table and what the bridge has given.                                *)

BrGroups == Groups \ {BCAST, STPA}

\* An address of the bridge is in the table as the driver puts it there.
AtPort(t, f) ==
  \E e \in Contents(t) : /\ e.type = "addr" /\ e.addr = f.addr /\ e.vid = f.vid
                         /\ e.port = FdbPort(f) /\ e.ucast = "persistant"

\* The last work item for an address puts it there; when there is none, it is there: unless its
\* items have overtaken one another.
Due(t, f, wk, lt) ==
  AddrOf(f) \notin lt =>
    /\ \A n \in 1..Len(wk) :
         /\ SameAddr(wk[n].f, f)
         /\ \A m \in 1..Len(wk) : m > n => ~SameAddr(wk[m].f, f)
         => wk[n] = [event |-> "add", f |-> f]
    /\ (\A n \in 1..Len(wk) : ~SameAddr(wk[n].f, f)) => AtPort(t, f)

\* What the bridge has given is in the table, as far as it can be.
VlansIn(t, bv) == \A v \in BrVids : MembersAt(t, v) = bv[v]
GroupsIn(t, md) == \A g \in BrGroups, v \in BrVids : MaskAt(t, g, v) = {p \in Ports : <<g, v, p>> \in md}
FdbIn(t, fd, wk, lt) == \A f \in fd : f.addr \in Outside => Due(t, f, wk, lt)

\* Two tables agree about a VLAN, and about a group.
SameMembers(t, u, v) == MembersAt(t, v) = MembersAt(u, v)
SameMask(t, u, g, v) == MaskAt(t, g, v) = MaskAt(u, g, v)

\* The stations that are not the interfaces.
LEMMA OutsideFacts ==
  ASSUME NEW x \in Outside
  PROVE  x \in Stations /\ x \notin Groups /\ x # BCAST /\ \A i \in Ifc : x # Mac[i]
BY AddrsAssumption DEF Outside

\* What a VLAN of the bridge brings changes neither other VLANs, nor groups, nor addresses.
LEMMA AsideFollows ==
  ASSUME NEW t, NEW u, NEW v, Aside(t, u, v)
  PROVE  /\ \A w : w # v => SameMembers(t, u, w)
         /\ \A g \in BrGroups : \A w : SameMask(t, u, g, w)
         /\ \A f : f.addr \in Outside /\ AtPort(t, f) => AtPort(u, f)
<1>1. ASSUME NEW w, w # v PROVE SameMembers(t, u, w)
  <2>1. /\ \A f \in Contents(t) : f.type = "vlan" /\ f.vid = w => f \in Contents(u)
        /\ \A f \in Contents(u) : f.type = "vlan" /\ f.vid = w => f \in Contents(t)
    BY <1>1 DEF Aside, Own, Learnt, IsUcast
  <2>2. QED
    BY <2>1, MembersSame DEF SameMembers
<1>2. ASSUME NEW g \in BrGroups, NEW w PROVE SameMask(t, u, g, w)
  <2>1. /\ \A f \in Contents(t) : f.type = "addr" /\ f.addr = g /\ f.vid = w => f \in Contents(u)
        /\ \A f \in Contents(u) : f.type = "addr" /\ f.addr = g /\ f.vid = w => f \in Contents(t)
    <3>1. g \in Groups /\ g # BCAST /\ \A i \in Ifc : g # Mac[i]
      BY IfcFacts DEF BrGroups
    <3>2. \A f : f.type = "addr" /\ f.addr = g => ~Own(f, v) /\ ~Learnt(f)
      BY <3>1 DEF Own, Learnt, IsUcast
    <3>3. QED
      BY <3>2 DEF Aside
  <2>2. QED
    BY <2>1, MaskSame DEF SameMask
<1>3. ASSUME NEW f, f.addr \in Outside, AtPort(t, f) PROVE AtPort(u, f)
  <2>1. PICK e \in Contents(t) : /\ e.type = "addr" /\ e.addr = f.addr /\ e.vid = f.vid
                                 /\ e.port = FdbPort(f) /\ e.ucast = "persistant"
    BY <1>3 DEF AtPort
  <2>2. ~Own(e, v) /\ ~Learnt(e)
    BY <1>3, <2>1, OutsideFacts DEF Own, Learnt
  <2>3. QED
    BY <2>1, <2>2 DEF Aside, AtPort
<1>4. QED
  BY <1>1, <1>2, <1>3

\* Changes within a VLAN that is not the bridge's change nothing of the bridge's.
LEMMA WithinFollows ==
  ASSUME NEW t, NEW u, NEW v, v \notin BrVids, Within(t, u, v)
  PROVE  /\ \A w \in BrVids : SameMembers(t, u, w)
         /\ \A g \in BrGroups, w \in BrVids : SameMask(t, u, g, w)
         /\ \A f : f.vid \in BrVids /\ AtPort(t, f) => AtPort(u, f)
<1>1. ASSUME NEW w \in BrVids PROVE SameMembers(t, u, w)
  <2>1. /\ \A f \in Contents(t) : f.type = "vlan" /\ f.vid = w => f \in Contents(u)
        /\ \A f \in Contents(u) : f.type = "vlan" /\ f.vid = w => f \in Contents(t)
    BY DEF Within, Learnt, IsUcast
  <2>2. QED
    BY <2>1, MembersSame DEF SameMembers
<1>2. ASSUME NEW g \in BrGroups, NEW w \in BrVids PROVE SameMask(t, u, g, w)
  <2>1. /\ \A f \in Contents(t) : f.type = "addr" /\ f.addr = g /\ f.vid = w => f \in Contents(u)
        /\ \A f \in Contents(u) : f.type = "addr" /\ f.addr = g /\ f.vid = w => f \in Contents(t)
    BY DEF Within, Learnt, IsUcast, BrGroups
  <2>2. QED
    BY <2>1, MaskSame DEF SameMask
<1>3. ASSUME NEW f, f.vid \in BrVids, AtPort(t, f) PROVE AtPort(u, f)
  BY <1>3 DEF Within, AtPort, Learnt
<1>4. QED
  BY <1>1, <1>2, <1>3

\* A change of an address or a group changes neither VLANs nor another of them.
LEMMA SameButFollows ==
  ASSUME NEW t, NEW u, NEW key, key.type = "addr", SameBut(t, u, key)
  PROVE  /\ \A w : SameMembers(t, u, w)
         /\ \A g \in Groups : \A w : g # key.addr \/ w # key.vid => SameMask(t, u, g, w)
         /\ \A f : (f.addr # key.addr \/ f.vid # key.vid) /\ AtPort(t, f) => AtPort(u, f)
<1>1. ASSUME NEW w PROVE SameMembers(t, u, w)
  BY MembersKept DEF SameMembers
<1>2. ASSUME NEW g \in Groups, NEW w, g # key.addr \/ w # key.vid PROVE SameMask(t, u, g, w)
  <2>1. /\ \A f \in Contents(t) : f.type = "addr" /\ f.addr = g /\ f.vid = w => f \in Contents(u)
        /\ \A f \in Contents(u) : f.type = "addr" /\ f.addr = g /\ f.vid = w => f \in Contents(t)
    BY <1>2 DEF SameBut, SameKey, Learnt, IsUcast
  <2>2. QED
    BY <2>1, MaskSame DEF SameMask
<1>3. ASSUME NEW f, f.addr # key.addr \/ f.vid # key.vid, AtPort(t, f) PROVE AtPort(u, f)
  BY <1>3 DEF SameBut, SameKey, AtPort, Learnt
<1>4. QED
  BY <1>1, <1>2, <1>3

\* What tables that agree say of the bridge.
LEMMA FollowsKept ==
  ASSUME NEW t, NEW u, NEW bv, NEW md, NEW fd, NEW wk, NEW lt,
         \A f \in fd : f.vid \in BrVids,
         \A w \in BrVids : SameMembers(t, u, w),
         \A g \in BrGroups, w \in BrVids : SameMask(t, u, g, w),
         \A f : f.addr \in Outside /\ f.vid \in BrVids /\ AtPort(t, f) => AtPort(u, f)
  PROVE  /\ VlansIn(t, bv) => VlansIn(u, bv)
         /\ GroupsIn(t, md) => GroupsIn(u, md)
         /\ FdbIn(t, fd, wk, lt) => FdbIn(u, fd, wk, lt)
<1>1. VlansIn(t, bv) => VlansIn(u, bv)
  BY DEF VlansIn, SameMembers
<1>2. GroupsIn(t, md) => GroupsIn(u, md)
  BY DEF GroupsIn, SameMask
<1>3. FdbIn(t, fd, wk, lt) => FdbIn(u, fd, wk, lt)
  BY DEF FdbIn, Due
<1>4. QED
  BY <1>1, <1>2, <1>3

\* Nothing of the bridge's in the table, and nothing that it has given.
LEMMA FollowsNone ==
  ASSUME NEW t, \A f \in Contents(t) : f.vid \notin BrVids,
         NEW bv, \A v \in BrVids : bv[v] = {}, NEW lt
  PROVE  /\ VlansIn(t, bv) /\ GroupsIn(t, {}) /\ FdbIn(t, {}, <<>>, lt)
<1>1. ASSUME NEW v \in BrVids PROVE MembersAt(t, v) = bv[v]
  <2>1. {f \in Contents(t) : SameKey(VlanKey(v), f)} = {}
    BY KeyOf
  <2>2. QED
    BY <2>1 DEF MembersAt
<1>2. ASSUME NEW g \in BrGroups, NEW v \in BrVids PROVE MaskAt(t, g, v) = {}
  <2>1. {f \in Contents(t) : SameKey(AddrKey(g, v), f)} = {}
    BY KeyOf
  <2>2. QED
    BY <2>1 DEF MaskAt
<1>3. QED
  BY <1>1, <1>2 DEF VlansIn, GroupsIn, FdbIn

-----------------------------------------------------------------------------
(* The invariant.                                                          *)

Fdb == [addr : Stations, vid : BrVids, port : Ifc]
WorkItems == [event : {"add", "del"}, f : Fdb]

StateInv ==
  /\ Good(ale) /\ ale.ret = OK
  /\ dual \in BOOLEAN /\ up \in SUBSET Ifc
  /\ portvlan = NewVlan(dual)
  /\ ~dual => up \subseteq nosa
  /\ fdb \subseteq Fdb /\ work \in Seq(WorkItems)
  /\ \A f, g \in fdb : SameAddr(f, g) => f = g
  /\ brvlan \in [BrVids -> SUBSET Ports]

\* The open interfaces have what they cannot do without, and the host port floods if they ask.
Floods(i) == ~dual \/ (i \in promisc /\ "deaf" \notin odd) => flood
ModeInv ==
  odd \cap {"nomem", "stale"} = {} =>
    \A i \in up : InMode(ale.table, i, dual) /\ Floods(i)

\* In switch mode, and as long as the table is empty, the table follows the bridge; in dual-EMAC mode
\* the bridge has given nothing.
FollowInv ==
  odd = {} =>
    /\ ~dual \/ up = {} => /\ VlansIn(ale.table, brvlan)
                           /\ GroupsIn(ale.table, mdb)
                           /\ FdbIn(ale.table, fdb, work, late)
    /\ dual /\ up # {} => ~Bridged

EntriesInv == StateInv /\ ModeInv /\ FollowInv

\* The VLANs of the bridge are not the default VLAN, which all ports have in switch mode.
LEMMA VidFacts ==
  /\ 0 \notin BrVids
  /\ \A v \in BrVids : v \in Vids /\ v # 0
  /\ \A i \in Ifc : NewVlan(FALSE)[i] = 0
BY BrVidsAssumption, IfcFacts

\* The addresses of the bridge are in its VLANs.
LEMMA FdbFacts ==
  ASSUME StateInv
  PROVE  \A f \in fdb : f.vid \in BrVids
BY DEF StateInv, Fdb

\* In the beginning the table is empty and the bridge has given nothing.
LEMMA EntriesInit == Init => EntriesInv
<1> SUFFICES ASSUME Init PROVE EntriesInv
  OBVIOUS
<1>1. ale = [table |-> Cleared, untag |-> {}, ret |-> OK]
  BY DEF Init
<1>2. Good(ale) /\ ale.ret = OK /\ ale.table = Cleared
  BY <1>1, Kinds DEF Good, Engine, Entry, Cleared, KeysUniqueIn, SameKey, UntagAgreesIn, Proper, Free
<1>3. StateInv
  <2>1. portvlan = NewVlan(dual)
    <3>1. portvlan = PortVlan /\ dual = TRUE
      BY DEF Init
    <3>2. QED
      BY <3>1, PortVlanAssumption DEF NewVlan
  <2>2. QED
    BY <1>2, <2>1 DEF Init, StateInv
<1>4. ModeInv
  BY DEF Init, ModeInv
<1>5. FollowInv
  <2>1. Contents(ale.table) = {}
    BY <1>2 DEF Contents, Cleared
  <2>2. brvlan = [v \in BrVids |-> {}] /\ mdb = {} /\ fdb = {} /\ work = <<>> /\ up = {} /\ late = {}
    BY DEF Init
  <2>3. VlansIn(ale.table, brvlan) /\ GroupsIn(ale.table, {}) /\ FdbIn(ale.table, {}, <<>>, late)
    BY <2>1, <2>2, FollowsNone
  <2>4. QED
    BY <2>2, <2>3 DEF FollowInv
<1>6. QED
  BY <1>3, <1>4, <1>5 DEF EntriesInv

\* Calls whose results nobody looks at.
LEMMA DoneDoes ==
  ASSUME NEW b, Good(b), NEW past, Done(b, past)
  PROVE  /\ Good(ale') /\ ale'.ret = OK /\ ale'.table = b.table
         /\ odd' = past \cup IF b.ret = ENOMEM THEN {"nomem"} ELSE {}
<1>1. ale' = [b EXCEPT !.ret = OK] /\ b \in Engine
  BY DEF Done, Good
<1>2. Good([b EXCEPT !.ret = OK])
  BY RetGood
<1>3. [b EXCEPT !.ret = OK].ret = OK /\ [b EXCEPT !.ret = OK].table = b.table
  BY <1>1 DEF Engine
<1>4. QED
  BY <1>1, <1>2, <1>3 DEF Done

\* Steps that leave the table, the mode and what the bridge has given alone.
LEMMA SameTable ==
  ASSUME EntriesInv, UNCHANGED <<ale, modeVars, flagVars, up, swVars, workVars, odd>>
  PROVE  EntriesInv'
<1>1. StateInv'
  BY DEF EntriesInv, StateInv, modeVars, swVars, workVars
<1>2. ModeInv'
  BY DEF EntriesInv, ModeInv, Floods, modeVars, flagVars
<1>3. FollowInv'
  BY DEF EntriesInv, FollowInv, Bridged, modeVars, swVars, workVars
<1>4. QED
  BY <1>1, <1>2, <1>3 DEF EntriesInv

\* The same entries, but for the ports that VLANs flood unknown groups to.
Alike(e, f) ==
  e = f \/ (e.type = "vlan" /\ f.type = "vlan" /\ e.vid = f.vid /\ e.members = f.members)
OnlyFloods(t, u) ==
  /\ \A e \in Contents(t) : \E f \in Contents(u) : Alike(e, f)
  /\ \A f \in Contents(u) : \E e \in Contents(t) : Alike(e, f)

\* cpsw_ale_set_allmulti touches nothing else.
LEMMA AllmultiFloods ==
  ASSUME NEW a, Good(a), NEW i \in Ifc, NEW on \in BOOLEAN, NEW b, b = SetAllmulti(a, on, i)
  PROVE  Good(b) /\ b.ret = a.ret /\ OnlyFloods(a.table, b.table)
<1>1. i \in Ports
  BY IfcFacts
<1>2. Good(b)
  BY <1>1, SetAllmultiGood
<1>3. b.ret = a.ret
  BY DEF SetAllmulti, Good, Engine
<1>4. Contents(b.table) = {Flooding(e, on, i) : e \in Contents(a.table)}
  BY AllmultiDoes
<1>5. ASSUME NEW e \in Contents(a.table) PROVE Alike(e, Flooding(e, on, i))
  <2>1. CASE e.type = "vlan"
    <3>1. e \in VlanEntries
      BY <2>1, Kinds DEF Contents, Good, Engine
    <3>2. \A x : /\ [e EXCEPT !.unreg = x].type = "vlan"
                 /\ [e EXCEPT !.unreg = x].vid = e.vid
                 /\ [e EXCEPT !.unreg = x].members = e.members
      BY <2>1, <3>1 DEF VlanEntries
    <3>3. QED
      BY <2>1, <3>2 DEF Alike, Flooding, Reflood
  <2>2. CASE e.type # "vlan"
    BY <2>2 DEF Alike, Flooding
  <2>3. QED
    BY <2>1, <2>2
<1>6. QED
  BY <1>2, <1>3, <1>4, <1>5 DEF OnlyFloods

\* What interfaces need, and what the bridge has given, is as it was.
LEMMA OnlyFloodsFollows ==
  ASSUME NEW t, NEW u, OnlyFloods(t, u)
  PROVE  /\ \A i, d : InMode(t, i, d) => InMode(u, i, d)
         /\ \A v : SameMembers(t, u, v)
         /\ \A g, v : SameMask(t, u, g, v)
         /\ \A f : AtPort(t, f) => AtPort(u, f)
         /\ \A V : (\A e \in Contents(t) : e.vid \in V) => \A f \in Contents(u) : f.vid \in V
<1>1. /\ \A e \in Contents(t) : e.type # "vlan" => e \in Contents(u)
      /\ \A f \in Contents(u) : f.type # "vlan" => f \in Contents(t)
  BY DEF OnlyFloods, Alike
<1>2. /\ \A e \in Contents(t) : e.type = "vlan" =>
           \E f \in Contents(u) : f.type = "vlan" /\ f.vid = e.vid /\ f.members = e.members
      /\ \A f \in Contents(u) : f.type = "vlan" =>
           \E e \in Contents(t) : e.type = "vlan" /\ e.vid = f.vid /\ e.members = f.members
  BY DEF OnlyFloods, Alike
<1>3. ASSUME NEW i, NEW d, InMode(t, i, d) PROVE InMode(u, i, d)
  <2> DEFINE v == NewVlan(d)[i]
             m == IF d THEN Both(i) ELSE Ports
             b == IF d THEN {HOST} ELSE Both(i)
  <2>1. /\ \E e \in Contents(t) : e.type = "vlan" /\ e.vid = v /\ e.members = m
        /\ \E e \in Contents(t) : e.type = "addr" /\ e.addr = BCAST /\ e.vid = v /\ b \subseteq e.mask
        /\ \E e \in Contents(t) : /\ e.type = "addr" /\ e.addr = Mac[i] /\ e.vid = v
                                  /\ e.port = HOST /\ e.ucast = "persistant" /\ e.secure = d
    BY <1>3 DEF InMode
  <2> HIDE DEF v, m, b
  <2>2. /\ \E e \in Contents(u) : e.type = "vlan" /\ e.vid = v /\ e.members = m
        /\ \E e \in Contents(u) : e.type = "addr" /\ e.addr = BCAST /\ e.vid = v /\ b \subseteq e.mask
        /\ \E e \in Contents(u) : /\ e.type = "addr" /\ e.addr = Mac[i] /\ e.vid = v
                                  /\ e.port = HOST /\ e.ucast = "persistant" /\ e.secure = d
    BY <1>1, <1>2, <2>1
  <2>3. QED
    BY <2>2 DEF InMode, v, m, b
<1>4. ASSUME NEW v PROVE SameMembers(t, u, v)
  <2>1. \A w : MembersAt(w, v) = UNION {f.members : f \in {e \in Contents(w) : e.type = "vlan" /\ e.vid = v}}
    BY KeyOf DEF MembersAt
  <2>2. {f.members : f \in {e \in Contents(t) : e.type = "vlan" /\ e.vid = v}}
          = {f.members : f \in {e \in Contents(u) : e.type = "vlan" /\ e.vid = v}}
    BY <1>2
  <2>3. QED
    BY <2>1, <2>2 DEF SameMembers
<1>5. ASSUME NEW g, NEW v PROVE SameMask(t, u, g, v)
  <2>1. /\ \A f \in Contents(t) : f.type = "addr" /\ f.addr = g /\ f.vid = v => f \in Contents(u)
        /\ \A f \in Contents(u) : f.type = "addr" /\ f.addr = g /\ f.vid = v => f \in Contents(t)
    BY <1>1
  <2>2. QED
    BY <2>1, MaskSame DEF SameMask
<1>6. ASSUME NEW f, AtPort(t, f) PROVE AtPort(u, f)
  BY <1>1, <1>6 DEF AtPort
<1>7. ASSUME NEW V, \A e \in Contents(t) : e.vid \in V, NEW f \in Contents(u) PROVE f.vid \in V
  BY <1>7 DEF OnlyFloods, Alike
<1>8. QED
  BY <1>3, <1>4, <1>5, <1>6, <1>7

\* cpsw_ndo_set_rx_mode: the flags of an interface change, and are followed if it is open.
LEMMA FlagsFollow ==
  ASSUME EntriesInv, NEW i \in Ifc,
         \/ \E pro \in {promisc \cup {i}, promisc \ {i}} : SetRxMode(i, pro)
         \/ UNCHANGED <<ale, flagVars>>,
         UNCHANGED <<modeVars, up, swVars, workVars, odd>>
  PROVE  EntriesInv'
<1>1. CASE UNCHANGED <<ale, flagVars>>
  BY <1>1, SameTable
<1>2. ASSUME NEW pro, pro \in {promisc \cup {i}, promisc \ {i}}, SetRxMode(i, pro) PROVE EntriesInv'
  <2>1. /\ promisc' = pro /\ \A j : j # i => (j \in pro <=> j \in promisc)
        /\ UNCHANGED <<dual, portvlan, nosa, brvlan, mdb, fdb, work, late, up, odd>>
    BY <1>2 DEF SetRxMode, modeVars, swVars, workVars
  <2>2. Good(ale) /\ ale.ret = OK /\ dual \in BOOLEAN
    BY DEF EntriesInv, StateInv
  <2>3. /\ Good(ale') /\ ale'.ret = OK
        /\ OnlyFloods(ale.table, ale'.table)
    <3>1. CASE i \in up
      <4>1. ale' = SetAllmulti(ale, i \in pro, i) /\ (i \in pro) \in BOOLEAN
        BY <1>2, <3>1 DEF SetRxMode
      <4>2. QED
        BY <2>2, <4>1, AllmultiFloods
    <3>2. CASE i \notin up
      <4>1. ale' = ale
        BY <1>2, <3>2 DEF SetRxMode
      <4>2. QED
        BY <2>2, <4>1 DEF OnlyFloods, Alike
    <3>3. QED
      BY <3>1, <3>2
  <2>4. StateInv'
    BY <2>1, <2>3 DEF EntriesInv, StateInv
  <2>5. ModeInv'
    <3>1. SUFFICES ASSUME odd \cap {"nomem", "stale"} = {}, NEW j \in up
                   PROVE  InMode(ale'.table, j, dual) /\ Floods(j)'
      BY <2>1 DEF ModeInv
    <3>2. InMode(ale.table, j, dual) /\ Floods(j)
      BY <3>1 DEF EntriesInv, ModeInv
    <3>3. Floods(j)'
      <4>1. CASE i \in up
        BY <1>2, <2>1, <2>2, <3>2, <4>1 DEF Floods, SetRxMode, SetPromiscious
      <4>2. CASE i \notin up
        <5>1. flood' = flood /\ j # i
          BY <1>2, <4>2 DEF SetRxMode
        <5>2. QED
          BY <2>1, <3>2, <5>1 DEF Floods
      <4>3. QED
        BY <4>1, <4>2
    <3>4. QED
      BY <2>3, <3>2, <3>3, OnlyFloodsFollows
  <2>6. FollowInv'
    <3>1. Bridged' = Bridged
      BY <2>1 DEF Bridged
    <3>2. \A f \in fdb : f.vid \in BrVids
      BY FdbFacts DEF EntriesInv
    <3>3. /\ VlansIn(ale.table, brvlan) => VlansIn(ale'.table, brvlan)
          /\ GroupsIn(ale.table, mdb) => GroupsIn(ale'.table, mdb)
          /\ FdbIn(ale.table, fdb, work, late) => FdbIn(ale'.table, fdb, work, late)
      BY <2>3, <3>2, OnlyFloodsFollows, FollowsKept
    <3>4. QED
      BY <2>1, <3>1, <3>3 DEF EntriesInv, FollowInv
  <2>7. QED
    BY <2>4, <2>5, <2>6 DEF EntriesInv
<1>3. QED
  BY <1>1, <1>2

\* An interface opens.
LEMMA OpenFollows ==
  ASSUME EntriesInv, NEW i \in Ifc, Open(i)
  PROVE  EntriesInv'
<1> DEFINE host == HostPort(Clear(ale), dual)
           a == IF up = {} THEN host ELSE ale
           e == PortEntries(a, i, dual)
           c == Then(a, e)
           b == SetAllmulti(c, i \in promisc, i)
           past == IF up = {} THEN Emptied ELSE odd
<1>1. /\ Good(ale) /\ ale.ret = OK /\ dual \in BOOLEAN /\ up \in SUBSET Ifc
  BY DEF EntriesInv, StateInv
<1>2. /\ Done(b, past) /\ up' = up \cup {i}
      /\ flood' = SetPromiscious(promisc, IF up = {} THEN ~dual ELSE flood)
  BY DEF Open
<1>3. UNCHANGED <<promisc, dual, portvlan, brvlan, mdb, fdb, work, late>>
  BY DEF Open, swVars, workVars
<1>4. up = {} =>
        /\ Good(host) /\ host.ret \in {OK, ENOMEM}
        /\ \A f \in Contents(host.table) : f.vid = 0
        /\ ~dual => HasDefault(host.table)
  <2>1. Good(Clear(ale)) /\ Contents(Clear(ale).table) = {}
    BY <1>1, ClearGood, ClearDoes
  <2>2. QED
    BY <1>1, <2>1, HostDoes
<1>5. Good(a) /\ a.ret \in {OK, ENOMEM}
  BY <1>1, <1>4
<1>6. /\ Good(e) /\ e.ret \in {OK, ENOMEM}
      /\ Within(a.table, e.table, NewVlan(dual)[i])
      /\ e.ret = OK /\ (dual \/ HasDefault(a.table)) => InMode(e.table, i, dual)
      /\ e.ret = OK => \A j \in Ifc \ {i} : InMode(a.table, j, dual) => InMode(e.table, j, dual)
  <2> HIDE DEF a
  <2>1. QED
    BY <1>1, <1>5, PortDoes
<1> HIDE DEF host, e
<1>7. Good(c) /\ c.table = e.table /\ c.ret = IF a.ret = OK THEN e.ret ELSE a.ret
  <2>1. a.ret \in Rets
    BY <1>5, GoodRet
  <2> HIDE DEF a
  <2>2. QED
    BY <1>5, <1>6, <2>1, ThenDoes
<1> HIDE DEF c
<1>14. Good(b) /\ OnlyFloods(e.table, b.table) /\ b.ret = IF a.ret = OK THEN e.ret ELSE a.ret
  <2>1. (i \in promisc) \in BOOLEAN
    OBVIOUS
  <2> HIDE DEF a, b
  <2>2. b = SetAllmulti(c, i \in promisc, i)
    BY DEF b
  <2>3. Good(b) /\ OnlyFloods(c.table, b.table) /\ b.ret = c.ret
    BY <1>7, <2>1, <2>2, AllmultiFloods
  <2>4. QED
    BY <1>7, <2>3
<1> HIDE DEF b
<1>8. /\ Good(ale') /\ ale'.ret = OK /\ ale'.table = b.table
      /\ odd' = past \cup IF b.ret = ENOMEM THEN {"nomem"} ELSE {}
  <2> HIDE DEF past
  <2>1. QED
    BY <1>2, <1>14, DoneDoes
<1>9. StateInv'
  <2>1. ~dual' => up' \subseteq nosa'
    BY DEF EntriesInv, StateInv, Open
  <2>2. QED
    BY <1>1, <1>2, <1>3, <1>8, <2>1 DEF EntriesInv, StateInv
<1>10. odd \subseteq past
  BY DEF Emptied
<1>11. ModeInv'
  <2>1. SUFFICES ASSUME odd' \cap {"nomem", "stale"} = {}, NEW j \in up \cup {i}
                 PROVE  InMode(b.table, j, dual) /\ Floods(j)'
    BY <1>2, <1>3, <1>8 DEF ModeInv
  <2>2. odd \cap {"nomem", "stale"} = {} /\ e.ret = OK
    BY <1>5, <1>6, <1>8, <1>10, <1>14, <2>1, RetDiffer
  <2>3. \A k \in up : InMode(ale.table, k, dual) /\ Floods(k)
    BY <2>2 DEF EntriesInv, ModeInv
  <2>4. Floods(j)'
    <3>1. CASE dual
      BY <1>2, <1>3, <3>1 DEF Floods, SetPromiscious
    <3>2. CASE ~dual
      <4>1. up # {} => flood
        BY <2>3, <3>2 DEF Floods
      <4>2. QED
        BY <1>2, <3>2, <4>1 DEF Floods, SetPromiscious
    <3>3. QED
      BY <3>1, <3>2
  <2>5. dual \/ HasDefault(a.table)
    <3>1. CASE up = {}
      BY <1>4, <3>1
    <3>2. CASE up # {} /\ ~dual
      <4>1. PICK k \in up : TRUE
        BY <3>2
      <4>2. InMode(ale.table, k, FALSE) /\ NewVlan(FALSE)[k] = 0
        BY <1>1, <2>3, <3>2, <4>1, VidFacts
      <4>3. QED
        BY <3>2, <4>2 DEF InMode, HasDefault
    <3>3. QED
      BY <3>1, <3>2
  <2>6. InMode(e.table, j, dual)
    <3>1. CASE j = i
      BY <1>6, <2>2, <2>5, <3>1
    <3>2. CASE j # i
      BY <1>1, <1>6, <2>1, <2>2, <2>3, <3>2
    <3>3. QED
      BY <3>1, <3>2
  <2>7. QED
    BY <1>14, <2>4, <2>6, OnlyFloodsFollows
<1>12. FollowInv'
  <2>1. SUFFICES ASSUME odd' = {}
                 PROVE  /\ ~dual => /\ VlansIn(b.table, brvlan)
                                    /\ GroupsIn(b.table, mdb)
                                    /\ FdbIn(b.table, fdb, work, late)
                        /\ dual => ~Bridged
    BY <1>2, <1>3, <1>8 DEF FollowInv, Bridged
  <2>2. past = {} /\ odd = {}
    BY <1>8, <1>10, <2>1
  <2>3. CASE up = {}
    <3>1. ~Bridged
      BY <2>2, <2>3 DEF Emptied
    <3>2. (\A v \in BrVids : brvlan[v] = {}) /\ mdb = {} /\ fdb = {} /\ work = <<>>
      BY <3>1 DEF Bridged
    <3>3. ASSUME ~dual PROVE \A f \in Contents(b.table) : f.vid \notin BrVids
      <4>1. NewVlan(dual)[i] = 0
        BY <1>1, <3>3, VidFacts
      <4>2. \A f \in Contents(e.table) : f.vid \in {0}
        BY <1>4, <1>6, <2>3, <4>1 DEF Within
      <4>3. \A f \in Contents(b.table) : f.vid \in {0}
        BY <1>14, <4>2, OnlyFloodsFollows
      <4>4. QED
        BY <4>3, VidFacts
    <3>4. QED
      BY <3>1, <3>2, <3>3, FollowsNone
  <2>4. CASE up # {} /\ ~dual
    <3>1. Within(ale.table, e.table, 0)
      BY <1>1, <1>6, <2>4, VidFacts
    <3>2. VlansIn(ale.table, brvlan) /\ GroupsIn(ale.table, mdb) /\ FdbIn(ale.table, fdb, work, late)
      BY <2>2, <2>4 DEF EntriesInv, FollowInv
    <3>3. \A f \in fdb : f.vid \in BrVids
      BY FdbFacts DEF EntriesInv
    <3>4. VlansIn(e.table, brvlan) /\ GroupsIn(e.table, mdb) /\ FdbIn(e.table, fdb, work, late)
      BY <3>1, <3>2, <3>3, VidFacts, WithinFollows, FollowsKept
    <3>5. QED
      BY <1>14, <2>4, <3>3, <3>4, OnlyFloodsFollows, FollowsKept
  <2>5. CASE up # {} /\ dual
    BY <2>2, <2>5 DEF EntriesInv, FollowInv
  <2>6. QED
    BY <2>3, <2>4, <2>5
<1>13. QED
  BY <1>9, <1>11, <1>12 DEF EntriesInv

\* What the bridge has given when it has given nothing.
LEMMA NothingGiven ==
  ASSUME ~Bridged
  PROVE  (\A v \in BrVids : brvlan[v] = {}) /\ mdb = {} /\ fdb = {} /\ work = <<>>
BY DEF Bridged

\* The last interface that stops clears the table.
LEMMA StopFollows ==
  ASSUME EntriesInv, NEW i \in Ifc, Stop(i)
  PROVE  EntriesInv'
<1>1. /\ up' = up \ {i}
      /\ UNCHANGED <<modeVars, dual, portvlan, nosa, promisc, flood, brvlan, mdb, fdb, work, late>>
  BY DEF Stop, swVars, modeVars, flagVars, workVars
<1>2. /\ Good(ale) /\ ale.ret = OK /\ dual \in BOOLEAN /\ up \in SUBSET Ifc
  BY DEF EntriesInv, StateInv
<1>3. CASE up = {i}
  <2>1. Done(Clear(ale), Emptied)
    BY <1>3 DEF Stop
  <2>2. Good(Clear(ale)) /\ Contents(Clear(ale).table) = {}
    BY <1>2, ClearGood, ClearDoes
  <2>3. /\ Good(ale') /\ ale'.ret = OK /\ Contents(ale'.table) = {} /\ Emptied \subseteq odd'
    <3>1. \A b, past : Good(b) /\ Done(b, past) =>
            /\ Good(ale') /\ ale'.ret = OK /\ ale'.table = b.table
            /\ odd' = past \cup IF b.ret = ENOMEM THEN {"nomem"} ELSE {}
      BY DoneDoes
    <3>2. QED
      BY <2>1, <2>2, <3>1
  <2>4. up' = {}
    BY <1>1, <1>3
  <2>5. StateInv'
    BY <1>1, <1>2, <2>3, <2>4 DEF EntriesInv, StateInv
  <2>6. ModeInv'
    BY <2>4 DEF ModeInv
  <2>7. FollowInv'
    <3>1. SUFFICES ASSUME odd' = {} PROVE FollowInv'
      BY DEF FollowInv
    <3>2. ~Bridged
      BY <2>3, <3>1 DEF Emptied
    <3>3. /\ VlansIn(ale'.table, brvlan) /\ GroupsIn(ale'.table, mdb) /\ FdbIn(ale'.table, fdb, work, late)
      BY <2>3, <3>2, NothingGiven, FollowsNone
    <3>4. QED
      BY <1>1, <2>4, <3>3 DEF FollowInv
  <2>8. QED
    BY <2>5, <2>6, <2>7 DEF EntriesInv
<1>4. CASE up # {i}
  <2>1. UNCHANGED <<ale, odd>> /\ up # {} /\ up' # {}
    <3>1. UNCHANGED <<ale, odd>> /\ i \in up
      BY <1>4 DEF Stop
    <3>2. \E j \in up : j # i
      BY <1>4, <3>1
    <3>3. QED
      BY <1>1, <3>1, <3>2
  <2>2. StateInv'
    BY <1>1, <1>2, <2>1 DEF EntriesInv, StateInv
  <2>3. ModeInv'
    BY <1>1, <2>1 DEF EntriesInv, ModeInv, Floods
  <2>4. FollowInv'
    <3>1. Bridged' = Bridged
      BY <1>1 DEF Bridged
    <3>2. QED
      BY <1>1, <2>1, <3>1 DEF EntriesInv, FollowInv
  <2>5. QED
    BY <2>2, <2>3, <2>4 DEF EntriesInv
<1>5. QED
  BY <1>3, <1>4

\* The mode changes.
LEMMA ModeSetFollows ==
  ASSUME EntriesInv, ModeSet
  PROVE  EntriesInv'
<1> DEFINE d == devlink = "dual"
           past == odd \cup IF d /\ br # {} THEN {"raced"} ELSE {}
           deaf == IF d /\ up \cap promisc # {} THEN {"deaf"} ELSE {}
           b == PortsGiven(HostPort(Clear(ale), d), ModePorts(d), d)
<1>1. /\ Good(ale) /\ ale.ret = OK /\ dual \in BOOLEAN /\ up \in SUBSET Ifc
  BY DEF EntriesInv, StateInv
<1>2. /\ dual' = d /\ portvlan' = NewVlan(d) /\ d \in BOOLEAN
      /\ UNCHANGED <<promisc, up, brvlan, mdb, fdb, work, late>>
  BY DEF ModeSet, swVars, workVars
<1>3. \/ /\ up = {} /\ odd' = past /\ UNCHANGED <<ale, flood, nosa>>
      \/ /\ up # {} /\ Done(b, past \cup Emptied \cup deaf)
         /\ flood' = ~d /\ nosa' = IF d THEN nosa ELSE nosa \cup up
  BY DEF ModeSet, PortsGiven
<1>4. odd \subseteq past /\ (d /\ up \cap promisc # {} => "deaf" \in deaf)
  OBVIOUS
<1> HIDE DEF d, past, deaf, b
<1>5. CASE up = {}
  <2>1. odd' = past /\ UNCHANGED <<ale, flood, nosa>>
    BY <1>3, <1>5
  <2>2. StateInv'
    BY <1>1, <1>2, <1>5, <2>1 DEF EntriesInv, StateInv
  <2>3. ModeInv'
    BY <1>2, <1>5 DEF ModeInv
  <2>4. FollowInv'
    BY <1>2, <1>4, <1>5, <2>1 DEF EntriesInv, FollowInv
  <2>5. QED
    BY <2>2, <2>3, <2>4 DEF EntriesInv
<1>6. CASE up # {}
  <2>1. /\ Done(b, past \cup Emptied \cup deaf)
        /\ flood' = ~d /\ nosa' = IF d THEN nosa ELSE nosa \cup up
    BY <1>3, <1>6
  <2>2. ModePorts(d) \in SUBSET Ifc /\ up \subseteq ModePorts(d)
    BY <1>1 DEF ModePorts
  <2>3. Good(Clear(ale)) /\ Contents(Clear(ale).table) = {}
    BY <1>1, ClearGood, ClearDoes
  <2>4. /\ Good(b) /\ b.ret \in {OK, ENOMEM}
        /\ b.ret = OK => \A i \in ModePorts(d) : InMode(b.table, i, d)
        /\ ~d => \A f \in Contents(b.table) : f.vid = 0
    BY <1>2, <2>2, <2>3, ModeDoes DEF b
  <2>5. /\ Good(ale') /\ ale'.ret = OK /\ ale'.table = b.table
        /\ odd' = (past \cup Emptied \cup deaf) \cup IF b.ret = ENOMEM THEN {"nomem"} ELSE {}
    <3>1. \A q : Done(b, q) =>
            /\ Good(ale') /\ ale'.ret = OK /\ ale'.table = b.table
            /\ odd' = q \cup IF b.ret = ENOMEM THEN {"nomem"} ELSE {}
      BY <2>4, DoneDoes
    <3>2. QED
      BY <2>1, <3>1
  <2>6. StateInv'
    BY <1>1, <1>2, <2>1, <2>5 DEF EntriesInv, StateInv
  <2>7. ModeInv'
    <3>1. SUFFICES ASSUME odd' \cap {"nomem", "stale"} = {}, NEW i \in up
                   PROVE  InMode(b.table, i, d) /\ Floods(i)'
      BY <1>2, <2>5 DEF ModeInv
    <3>2. InMode(b.table, i, d)
      BY <2>2, <2>4, <2>5, <3>1, RetDiffer
    <3>3. Floods(i)'
      BY <1>2, <1>4, <2>1, <2>5 DEF Floods
    <3>4. QED
      BY <3>2, <3>3
  <2>8. FollowInv'
    <3>1. SUFFICES ASSUME odd' = {} PROVE FollowInv'
      BY DEF FollowInv
    <3>2. ~Bridged
      BY <2>5, <3>1 DEF Emptied
    <3>3. ~Bridged'
      BY <1>2, <3>2 DEF Bridged
    <3>4. CASE d
      BY <1>2, <1>6, <3>3, <3>4 DEF FollowInv
    <3>5. CASE ~d
      <4>1. \A f \in Contents(ale'.table) : f.vid \notin BrVids
        BY <2>4, <2>5, <3>5, VidFacts
      <4>2. /\ VlansIn(ale'.table, brvlan) /\ GroupsIn(ale'.table, mdb) /\ FdbIn(ale'.table, fdb, work, late)
        BY <3>2, <4>1, NothingGiven, FollowsNone
      <4>3. QED
        BY <1>2, <3>5, <4>2 DEF FollowInv
    <3>6. QED
      BY <3>4, <3>5
  <2>9. QED
    BY <2>6, <2>7, <2>8 DEF EntriesInv
<1>7. QED
  BY <1>5, <1>6

\* A call in switch mode that touches one VLAN that is not the default keeps what the mode needs.
LEMMA ModeKept ==
  ASSUME EntriesInv, ~dual, UNCHANGED <<dual, up, flagVars>>, odd \subseteq odd',
         NEW v \in BrVids, Within(ale.table, ale'.table, v)
  PROVE  ModeInv'
<1>1. SUFFICES ASSUME odd' \cap {"nomem", "stale"} = {}, NEW i \in up
               PROVE  InMode(ale'.table, i, dual) /\ flood
  BY DEF ModeInv, Floods, flagVars
<1>2. InMode(ale.table, i, dual) /\ flood /\ i \in Ifc /\ dual \in BOOLEAN
  BY <1>1 DEF EntriesInv, ModeInv, Floods, StateInv
<1>3. v # NewVlan(dual)[i]
  BY <1>2, VidFacts
<1>4. QED
  BY <1>2, <1>3, InModeWithin

\* A station is heard.
LEMMA FrameFollows ==
  ASSUME EntriesInv, NEW i \in Ifc, NEW x \in Outside, NEW v \in BrVids, Frame(i, x, v)
  PROVE  EntriesInv'
<1> DEFINE b == Learn(ale, x, i, v, FALSE)
<1>1. /\ Good(ale) /\ ale.ret = OK /\ dual \in BOOLEAN
      /\ ~dual /\ i \in up
      /\ UNCHANGED <<dual, portvlan, nosa, flagVars, up, brvlan, mdb, fdb, work, late, odd>>
  BY DEF EntriesInv, StateInv, Frame, modeVars, swVars, workVars
<1>2. ale' = b
  <2>1. i \in nosa
    BY <1>1 DEF EntriesInv, StateInv
  <2>2. QED
    BY <2>1 DEF Frame
<1>3. x \in Stations /\ v \in Vids /\ i \in Ports
  BY OutsideFacts, VidFacts, IfcFacts
<1>4. /\ Good(b) /\ SameBut(ale.table, b.table, AddrKey(x, v)) /\ b.ret = ale.ret
      /\ \A f \in Contents(ale.table) : ~Learnt(f) => f \in Contents(b.table)
  BY <1>1, <1>3, LearnGood, LearnDoes
<1> HIDE DEF b
<1>5. AddrKey(x, v).type = "addr" /\ AddrKey(x, v).addr = x /\ AddrKey(x, v).vid = v
  BY DEF AddrKey
<1>6. StateInv'
  BY <1>1, <1>2, <1>4 DEF EntriesInv, StateInv
<1>7. ModeInv'
  <2>1. Within(ale.table, ale'.table, v)
    BY <1>2, <1>4, <1>5, SameButWithin
  <2>2. QED
    BY <1>1, <2>1, ModeKept
<1>8. FollowInv'
  <2>1. \A w \in BrVids : SameMembers(ale.table, b.table, w)
    BY <1>4, <1>5, SameButFollows
  <2>2. \A g \in BrGroups, w \in BrVids : SameMask(ale.table, b.table, g, w)
    <3>1. \A g \in BrGroups : g \in Groups /\ g # x
      BY OutsideFacts DEF BrGroups
    <3>2. QED
      BY <1>4, <1>5, <3>1, SameButFollows
  <2>3. \A f : AtPort(ale.table, f) => AtPort(b.table, f)
    BY <1>4 DEF AtPort, Learnt
  <2>4. \A f \in fdb : f.vid \in BrVids
    BY FdbFacts DEF EntriesInv
  <2>5. /\ VlansIn(ale.table, brvlan) => VlansIn(b.table, brvlan)
        /\ GroupsIn(ale.table, mdb) => GroupsIn(b.table, mdb)
        /\ FdbIn(ale.table, fdb, work, late) => FdbIn(b.table, fdb, work, late)
    BY <2>1, <2>2, <2>3, <2>4, FollowsKept
  <2>6. QED
    BY <1>1, <1>2, <2>5 DEF EntriesInv, FollowInv
<1>9. QED
  BY <1>6, <1>7, <1>8 DEF EntriesInv

\* What is left of a queue without one of its items.
LEMMA RemoveFacts ==
  ASSUME NEW S, NEW wk \in Seq(S), NEW n \in 1..Len(wk), NEW rest, rest = RemoveAt(wk, n)
  PROVE  /\ rest \in Seq(S) /\ Len(wk) \in Nat /\ Len(rest) = Len(wk) - 1
         /\ \A k \in 1..Len(rest) : /\ k < n => rest[k] = wk[k]
                                    /\ k >= n => rest[k] = wk[k + 1]
<1> DEFINE front == SubSeq(wk, 1, n - 1)
           back == SubSeq(wk, n + 1, Len(wk))
<1>1. Len(wk) \in Nat /\ n \in Nat /\ 1 <= n /\ n <= Len(wk)
  OBVIOUS
<1>2. /\ front \in Seq(S) /\ Len(front) = n - 1
      /\ \A k \in 1..(n - 1) : front[k] = wk[k]
  BY <1>1
<1>3. /\ back \in Seq(S) /\ Len(back) = Len(wk) - n
      /\ \A k \in 1..(Len(wk) - n) : back[k] = wk[n + k]
  BY <1>1
<1>4. rest = front \o back
  BY DEF RemoveAt
<1> HIDE DEF front, back
<1>5. rest \in Seq(S) /\ Len(rest) = Len(wk) - 1
  <2>1. front \in Seq(S) /\ back \in Seq(S)
    BY <1>2, <1>3
  <2>2. rest \in Seq(S) /\ Len(rest) = Len(front) + Len(back)
    BY <1>4, <2>1
  <2>3. QED
    BY <1>1, <1>2, <1>3, <2>2
<1>6. ASSUME NEW k \in 1..Len(rest), k < n PROVE rest[k] = wk[k]
  <2>1. k \in 1..Len(front)
    BY <1>1, <1>2, <1>6
  <2>2. rest[k] = front[k]
    BY <1>2, <1>3, <1>4, <2>1
  <2>3. QED
    BY <1>2, <2>1, <2>2
<1>7. ASSUME NEW k \in 1..Len(rest), k >= n PROVE rest[k] = wk[k + 1]
  <2>1. k - (n - 1) \in 1..(Len(wk) - n) /\ n + (k - (n - 1)) = k + 1
    BY <1>1, <1>5, <1>7
  <2>2. rest[k] = back[k - Len(front)]
    BY <1>2, <1>3, <1>4, <1>5, <1>7
  <2>3. QED
    BY <1>2, <1>3, <2>1, <2>2
<1>8. QED
  BY <1>1, <1>5, <1>6, <1>7

\* A work item is done.
LEMMA DueRemoved ==
  ASSUME NEW S, NEW wk \in Seq(S), NEW n \in 1..Len(wk), NEW rest, rest = RemoveAt(wk, n),
         NEW t, NEW u, NEW g, NEW lt, NEW more, Due(t, g, wk, lt), lt \subseteq more,
         \A m \in 1..Len(wk) : m < n /\ SameAddr(wk[m].f, wk[n].f) => AddrOf(wk[n].f) \in more,
         ~SameAddr(wk[n].f, g) /\ AtPort(t, g) => AtPort(u, g),
         wk[n] = [event |-> "add", f |-> g] => AtPort(u, g)
  PROVE  Due(u, g, rest, more)
<1>1. /\ Len(wk) \in Nat /\ Len(rest) = Len(wk) - 1
      /\ \A k \in 1..Len(rest) : /\ k < n => rest[k] = wk[k]
                                 /\ k >= n => rest[k] = wk[k + 1]
  BY RemoveFacts
<1>2. SUFFICES ASSUME AddrOf(g) \notin more
               PROVE  /\ \A k \in 1..Len(rest) :
                           /\ SameAddr(rest[k].f, g)
                           /\ \A m \in 1..Len(rest) : m > k => ~SameAddr(rest[m].f, g)
                           => rest[k] = [event |-> "add", f |-> g]
                      /\ (\A k \in 1..Len(rest) : ~SameAddr(rest[k].f, g)) => AtPort(u, g)
  BY DEF Due
<1>3. /\ \A k \in 1..Len(wk) :
           /\ SameAddr(wk[k].f, g)
           /\ \A m \in 1..Len(wk) : m > k => ~SameAddr(wk[m].f, g)
           => wk[k] = [event |-> "add", f |-> g]
      /\ (\A k \in 1..Len(wk) : ~SameAddr(wk[k].f, g)) => AtPort(t, g)
  BY <1>2 DEF Due
<1>4. ASSUME SameAddr(wk[n].f, g), NEW m \in 1..Len(wk), m < n PROVE ~SameAddr(wk[m].f, g)
  BY <1>2, <1>4 DEF SameAddr
\* The items that stay have kept their order.
<1>5. ASSUME NEW k \in 1..Len(rest), SameAddr(rest[k].f, g),
             \A m \in 1..Len(rest) : m > k => ~SameAddr(rest[m].f, g)
      PROVE  rest[k] = [event |-> "add", f |-> g]
  <2>1. PICK l \in 1..Len(wk) : l = IF k < n THEN k ELSE k + 1
    BY <1>1
  <2>2. rest[k] = wk[l] /\ l # n
    BY <1>1, <2>1
  <2>3. ASSUME NEW m \in 1..Len(wk), m > l PROVE ~SameAddr(wk[m].f, g)
    <3>1. CASE m = n
      BY <1>4, <1>5, <2>2, <2>3, <3>1
    <3>2. CASE m < n
      <4>1. m \in 1..Len(rest) /\ m > k
        BY <1>1, <2>1, <2>3, <3>2
      <4>2. QED
        BY <1>1, <1>5, <3>2, <4>1
    <3>3. CASE m > n
      <4>1. m - 1 \in 1..Len(rest) /\ m - 1 > k /\ m - 1 >= n /\ (m - 1) + 1 = m
        BY <1>1, <2>1, <2>3, <3>3
      <4>2. QED
        BY <1>1, <1>5, <4>1
    <3>4. QED
      BY <3>1, <3>2, <3>3
  <2>4. QED
    BY <1>3, <1>5, <2>2, <2>3
<1>6. ASSUME \A k \in 1..Len(rest) : ~SameAddr(rest[k].f, g) PROVE AtPort(u, g)
  <2>1. ASSUME NEW m \in 1..Len(wk), m # n PROVE ~SameAddr(wk[m].f, g)
    <3>1. CASE m < n
      <4>1. m \in 1..Len(rest)
        BY <1>1, <3>1
      <4>2. QED
        BY <1>1, <1>6, <3>1, <4>1
    <3>2. CASE m > n
      <4>1. m - 1 \in 1..Len(rest) /\ m - 1 >= n /\ (m - 1) + 1 = m
        BY <1>1, <3>2
      <4>2. QED
        BY <1>1, <1>6, <4>1
    <3>3. QED
      BY <2>1, <3>1, <3>2
  <2>2. CASE SameAddr(wk[n].f, g)
    <3>1. \A m \in 1..Len(wk) : m > n => ~SameAddr(wk[m].f, g)
      BY <2>1
    <3>2. wk[n] = [event |-> "add", f |-> g]
      BY <1>3, <2>2, <3>1
    <3>3. QED
      BY <3>2
  <2>3. CASE ~SameAddr(wk[n].f, g)
    BY <1>3, <2>1, <2>3
  <2>4. QED
    BY <2>2, <2>3
<1>7. QED
  BY <1>5, <1>6

\* A work item is queued: the last for its address, and nothing to another.
LEMMA DueAppend ==
  ASSUME NEW S, NEW wk \in Seq(S), NEW e \in S, NEW t, NEW g, NEW lt, NEW less,
         \/ e = [event |-> "add", f |-> g]
         \/ ~SameAddr(e.f, g) /\ Due(t, g, wk, lt),
         less = lt \/ less = lt \ {AddrOf(e.f)}
  PROVE  Due(t, g, Append(wk, e), less)
<1> DEFINE more == Append(wk, e)
           k == Len(wk) + 1
<1>1. /\ Len(wk) \in Nat /\ Len(more) = k /\ more[k] = e /\ k \in 1..Len(more)
      /\ \A n \in 1..Len(wk) : more[n] = wk[n] /\ n \in 1..Len(more) /\ k > n
      /\ \A n \in 1..Len(more) : n \in 1..Len(wk) \/ n = k
  OBVIOUS
<1> HIDE DEF more, k
<1>2. CASE e = [event |-> "add", f |-> g]
  <2>1. SameAddr(e.f, g)
    BY <1>2 DEF SameAddr
  <2>2. QED
    BY <1>1, <1>2, <2>1 DEF Due, more
<1>3. CASE ~SameAddr(e.f, g) /\ Due(t, g, wk, lt)
  <2>1. SUFFICES ASSUME AddrOf(g) \notin less
                 PROVE  /\ \A n \in 1..Len(more) :
                             /\ SameAddr(more[n].f, g)
                             /\ \A m \in 1..Len(more) : m > n => ~SameAddr(more[m].f, g)
                             => more[n] = [event |-> "add", f |-> g]
                        /\ (\A n \in 1..Len(more) : ~SameAddr(more[n].f, g)) => AtPort(t, g)
    BY DEF Due, more
  <2>2. AddrOf(g) \notin lt
    BY <1>3, <2>1 DEF SameAddr
  <2>3. ASSUME NEW n \in 1..Len(more), SameAddr(more[n].f, g),
               \A m \in 1..Len(more) : m > n => ~SameAddr(more[m].f, g)
        PROVE  more[n] = [event |-> "add", f |-> g]
    <3>1. n \in 1..Len(wk)
      BY <1>1, <1>3, <2>3
    <3>2. SameAddr(wk[n].f, g) /\ \A m \in 1..Len(wk) : m > n => ~SameAddr(wk[m].f, g)
      BY <1>1, <2>3, <3>1
    <3>3. wk[n] = [event |-> "add", f |-> g]
      BY <1>3, <2>2, <3>1, <3>2 DEF Due
    <3>4. QED
      BY <1>1, <3>1, <3>3
  <2>4. ASSUME \A n \in 1..Len(more) : ~SameAddr(more[n].f, g) PROVE AtPort(t, g)
    <3>1. \A n \in 1..Len(wk) : ~SameAddr(wk[n].f, g)
      BY <1>1, <2>4
    <3>2. QED
      BY <1>3, <2>2, <3>1 DEF Due
  <2>5. QED
    BY <2>3, <2>4
<1>4. QED
  BY <1>2, <1>3

\* An address that a user gives or takes back.
LEMMA AddressFollows ==
  ASSUME EntriesInv, NEW f \in Fdb, NEW event \in {"add", "del"},
         event = "add" => /\ \A g \in fdb : ~SameAddr(g, f)
                          /\ fdb' = fdb \cup {f},
         event = "del" => f \in fdb /\ fdb' = fdb \ {f},
         Queue(event, f), odd' = IF dual THEN odd \cup {"cleared"} ELSE odd,
         UNCHANGED <<ale, modeVars, flagVars, up, brvlan, mdb>>
  PROVE  EntriesInv'
<1> DEFINE e == [event |-> event, f |-> f]
<1>1. /\ dual \in BOOLEAN /\ fdb \subseteq Fdb /\ work \in Seq(WorkItems) /\ e \in WorkItems
      /\ \A g, h \in fdb : SameAddr(g, h) => g = h
  BY DEF EntriesInv, StateInv, WorkItems
<1>2. /\ work' = IF dual THEN work ELSE Append(work, e)
      /\ late' = late \/ late' = late \ {AddrOf(f)}
  BY <1>1 DEF Queue, workVars
<1>3. e.event = event /\ e.f = f /\ (event = "add" => e = [event |-> "add", f |-> f])
  OBVIOUS
<1> HIDE DEF e
<1>4. StateInv'
  <2>1. work' \in Seq(WorkItems)
    BY <1>1, <1>2
  <2>2. fdb' \subseteq Fdb /\ \A g, h \in fdb' : SameAddr(g, h) => g = h
    BY <1>1 DEF SameAddr
  <2>3. QED
    BY <2>1, <2>2 DEF EntriesInv, StateInv, modeVars
<1>5. ModeInv'
  <2>1. odd \subseteq odd'
    OBVIOUS
  <2>2. QED
    BY <2>1 DEF EntriesInv, ModeInv, Floods, modeVars, flagVars
<1>6. FollowInv'
  <2>1. SUFFICES ASSUME odd' = {}
                 PROVE  /\ VlansIn(ale.table, brvlan) /\ GroupsIn(ale.table, mdb)
                        /\ FdbIn(ale.table, fdb', work', late')
                        /\ ~dual
    BY DEF FollowInv, modeVars
  <2>2. ~dual /\ odd = {} /\ work' = Append(work, e)
    BY <1>2, <2>1
  <2>3. VlansIn(ale.table, brvlan) /\ GroupsIn(ale.table, mdb) /\ FdbIn(ale.table, fdb, work, late)
    BY <2>2 DEF EntriesInv, FollowInv
  <2>4. ASSUME NEW g \in fdb', g.addr \in Outside PROVE Due(ale.table, g, work', late')
    <3>4. /\ work \in Seq(WorkItems) /\ e \in WorkItems /\ work' = Append(work, e)
          /\ late' = late \/ late' = late \ {AddrOf(e.f)}
      BY <1>1, <1>2, <1>3, <2>2
    <3>1. CASE event = "add" /\ g = f
      <4>1. e = [event |-> "add", f |-> g]
        BY <1>3, <3>1
      <4>2. QED
        BY <3>4, <4>1, DueAppend
    <3>2. CASE g # f \/ event = "del"
      <4>1. g \in fdb /\ ~SameAddr(e.f, g)
        BY <1>1, <1>3, <2>4, <3>2 DEF SameAddr
      <4>2. Due(ale.table, g, work, late)
        BY <2>3, <2>4, <4>1 DEF FdbIn
      <4>3. QED
        BY <3>4, <4>1, <4>2, DueAppend
    <3>3. QED
      BY <3>1, <3>2
  <2>5. QED
    BY <2>2, <2>3, <2>4 DEF FdbIn
<1>7. QED
  BY <1>4, <1>5, <1>6 DEF EntriesInv

\* A work item is done.
LEMMA WorkFollows ==
  ASSUME EntriesInv, NEW n \in 1..Len(work), DoWork(n)
  PROVE  EntriesInv'
<1> DEFINE item == work[n]
           f == item.f
           b == IF item.event = "add" THEN AddUcast(ale, f.addr, FdbPort(f), FALSE, f.vid)
                ELSE DelUcast(ale, f.addr, f.vid)
           past == odd \cup IF dual THEN {"stale"} ELSE {}
<1>1. /\ Good(ale) /\ ale.ret = OK /\ dual \in BOOLEAN /\ fdb \subseteq Fdb
      /\ work \in Seq(WorkItems)
  BY DEF EntriesInv, StateInv
<1>2. /\ Done(b, past) /\ work' = RemoveAt(work, n)
      /\ late' = IF \E m \in Waiting(f) : m < n THEN late \cup {AddrOf(f)} ELSE late
      /\ UNCHANGED <<dual, portvlan, nosa, flagVars, up, brvlan, mdb, fdb>>
  BY DEF DoWork, modeVars, swVars
<1>3. item \in WorkItems
  BY <1>1
<1>4. f \in Fdb /\ item.event \in {"add", "del"}
  BY <1>3 DEF WorkItems
<1>5. f.addr \in Stations /\ f.vid \in BrVids /\ f.vid \in Vids /\ FdbPort(f) \in Ports
  BY <1>4, VidFacts, IfcFacts DEF Fdb, FdbPort
<1> HIDE DEF f, item
<1>6. PICK key : /\ key.type = "addr" /\ key.addr = f.addr /\ key.vid = f.vid
                 /\ SameBut(ale.table, b.table, key)
                 /\ Good(b)
                 /\ item.event = "add" => (b.ret = ENOMEM \/ AtPort(b.table, f))
  <2>1. CASE item.event = "add"
    <3> DEFINE g == UcastEntry(f.addr, f.vid, FdbPort(f), FALSE, "persistant")
               c == AddUcast(ale, f.addr, FdbPort(f), FALSE, f.vid)
    <3>1. Good(c) /\ Comes(ale, c, g)
      <4>1. FALSE \in BOOLEAN
        OBVIOUS
      <4>2. Good(c)
        BY <1>1, <1>5, <4>1, AddUcastGood
      <4>3. Comes(ale, c, g)
        BY <1>1, AddUcastComes
      <4>4. QED
        BY <4>2, <4>3
    <3>2. /\ g.type = "addr" /\ g.addr = f.addr /\ g.vid = f.vid /\ g.port = FdbPort(f)
          /\ g.ucast = "persistant"
      BY DEF UcastEntry
    <3>3. b = c
      BY <2>1
    <3> HIDE DEF g, b, c
    <3>4. QED
      BY <3>1, <3>2, <3>3 DEF Comes, AtPort
  <2>2. CASE item.event # "add"
    <3>1. b = DelUcast(ale, f.addr, f.vid)
      BY <2>2
    <3> HIDE DEF b
    <3>2. Good(b) /\ SameBut(ale.table, b.table, AddrKey(f.addr, f.vid))
      BY <1>1, <1>5, <3>1, DelUcastGood, DelUcastDoes
    <3>3. QED
      BY <2>2, <3>2 DEF AddrKey
  <2>3. QED
    BY <2>1, <2>2
<1> HIDE DEF b
<1>7. /\ Good(ale') /\ ale'.ret = OK /\ ale'.table = b.table
      /\ odd' = past \cup IF b.ret = ENOMEM THEN {"nomem"} ELSE {}
  <2> HIDE DEF past
  <2>1. QED
    BY <1>2, <1>6, DoneDoes
<1>8. odd \subseteq past /\ (dual => "stale" \in past)
  OBVIOUS
<1> HIDE DEF past
<1>9. StateInv'
  <2>1. work' \in Seq(WorkItems)
    BY <1>1, <1>2, RemoveFacts
  <2>2. QED
    BY <1>1, <1>2, <1>7, <2>1 DEF EntriesInv, StateInv
<1>10. CASE dual
  <2>1. "stale" \in odd'
    BY <1>7, <1>8, <1>10
  <2>2. ModeInv' /\ FollowInv'
    BY <2>1 DEF ModeInv, FollowInv
  <2>3. QED
    BY <1>9, <2>2 DEF EntriesInv
<1>11. CASE ~dual
  <2>1. ModeInv'
    <3>1. Within(ale.table, ale'.table, f.vid)
      BY <1>6, <1>7, SameButWithin
    <3>2. odd \subseteq odd'
      BY <1>7, <1>8
    <3>3. QED
      BY <1>2, <1>5, <1>11, <3>1, <3>2, ModeKept
  <2>2. FollowInv'
    <3>1. SUFFICES ASSUME odd' = {}
                   PROVE  /\ VlansIn(b.table, brvlan) /\ GroupsIn(b.table, mdb)
                          /\ FdbIn(b.table, fdb, work', late')
      BY <1>2, <1>7, <1>11 DEF FollowInv
    <3>2. odd = {} /\ b.ret # ENOMEM
      BY <1>7, <1>8, <3>1
    <3>3. VlansIn(ale.table, brvlan) /\ GroupsIn(ale.table, mdb) /\ FdbIn(ale.table, fdb, work, late)
      BY <1>11, <3>2 DEF EntriesInv, FollowInv
    <3>4. /\ \A w \in BrVids : SameMembers(ale.table, b.table, w)
          /\ \A g \in BrGroups, w \in BrVids : SameMask(ale.table, b.table, g, w)
          /\ \A g : (g.addr # f.addr \/ g.vid # f.vid) /\ AtPort(ale.table, g) => AtPort(b.table, g)
      <4>1. \A g \in BrGroups : g \in Groups /\ g # f.addr
        BY <1>5, AddrsAssumption DEF BrGroups
      <4>2. QED
        BY <1>6, <4>1, SameButFollows
    <3>5. VlansIn(b.table, brvlan) /\ GroupsIn(b.table, mdb)
      BY <3>3, <3>4 DEF VlansIn, GroupsIn, SameMembers, SameMask
    <3>6. ASSUME NEW g \in fdb, g.addr \in Outside PROVE Due(b.table, g, work', late')
      <4>1. Due(ale.table, g, work, late)
        BY <3>3, <3>6 DEF FdbIn
      <4>2. work[n].f = f
        BY DEF f, item
      <4>3. ~SameAddr(work[n].f, g) /\ AtPort(ale.table, g) => AtPort(b.table, g)
        BY <3>4, <4>2 DEF SameAddr, AddrOf
      <4>4. work[n] = [event |-> "add", f |-> g] => AtPort(b.table, g)
        <5>1. SUFFICES ASSUME item = [event |-> "add", f |-> g] PROVE AtPort(b.table, g)
          BY DEF item
        <5>2. item.event = "add" /\ g = f
          BY <5>1 DEF f
        <5>3. QED
          BY <1>6, <3>2, <5>2
      <4>5. /\ late \subseteq late'
            /\ \A m \in 1..Len(work) : m < n /\ SameAddr(work[m].f, work[n].f) => AddrOf(work[n].f) \in late'
        BY <1>2, <4>2 DEF Waiting
      <4>6. work \in Seq(WorkItems) /\ work' = RemoveAt(work, n)
        BY <1>1, <1>2
      <4>7. QED
        BY <4>1, <4>3, <4>4, <4>5, <4>6, DueRemoved
    <3>7. QED
      BY <3>5, <3>6 DEF FdbIn
  <2>3. QED
    BY <1>9, <2>1, <2>2 DEF EntriesInv
<1>12. QED
  BY <1>1, <1>10, <1>11

\* The ports that the driver is called for.
LEMMA HandledFacts ==
  ASSUME NEW p \in Ports, Offloaded(p)
  PROVE  ~dual /\ Handled(p) \in SUBSET Ifc /\ Handled(p) # {}
<1>1. ~dual /\ Handled(p) # {}
  BY DEF Offloaded
<1>2. Handled(p) \in SUBSET Ifc
  BY DEF Handled, Ifc
<1>3. QED
  BY <1>1, <1>2

\* Calls for a VLAN or a group of the bridge, in switch mode, of which the VLANs and groups that
\* the driver is left with are known.
LEMMA CallFollows ==
  ASSUME EntriesInv, ~dual, NEW b, Good(b), Done(b, odd), NEW v \in BrVids, Within(ale.table, b.table, v),
         \A f : f.addr \in Outside /\ AtPort(ale.table, f) => AtPort(b.table, f),
         UNCHANGED <<modeVars, flagVars, up, fdb, workVars>>, brvlan' \in [BrVids -> SUBSET Ports],
         b.ret # ENOMEM /\ VlansIn(ale.table, brvlan) => VlansIn(b.table, brvlan'),
         b.ret # ENOMEM /\ GroupsIn(ale.table, mdb) => GroupsIn(b.table, mdb')
  PROVE  EntriesInv'
<1>1. /\ Good(ale') /\ ale'.ret = OK /\ ale'.table = b.table
      /\ odd' = odd \cup IF b.ret = ENOMEM THEN {"nomem"} ELSE {}
  BY DoneDoes
<1>2. UNCHANGED <<dual, portvlan, nosa, work, late>>
  BY DEF modeVars, workVars
<1>3. StateInv'
  BY <1>1, <1>2 DEF EntriesInv, StateInv
<1>4. ModeInv'
  BY <1>1, <1>2, ModeKept
<1>5. FollowInv'
  <2>1. SUFFICES ASSUME odd' = {}
                 PROVE  /\ VlansIn(b.table, brvlan') /\ GroupsIn(b.table, mdb')
                        /\ FdbIn(b.table, fdb, work, late)
    BY <1>1, <1>2 DEF FollowInv
  <2>2. odd = {} /\ b.ret # ENOMEM
    BY <1>1, <2>1
  <2>3. VlansIn(ale.table, brvlan) /\ GroupsIn(ale.table, mdb) /\ FdbIn(ale.table, fdb, work, late)
    BY <2>2 DEF EntriesInv, FollowInv
  <2>4. FdbIn(b.table, fdb, work, late)
    BY <2>3 DEF FdbIn, Due
  <2>5. QED
    BY <2>2, <2>3, <2>4
<1>6. QED
  BY <1>3, <1>4, <1>5 DEF EntriesInv

\* The bridge gives a VLAN to a port or to itself.
LEMMA AddVlanFollows ==
  ASSUME EntriesInv, NEW v \in BrVids, NEW p \in Ports, NEW untag \in BOOLEAN, AddBridgeVlan(v, p, untag)
  PROVE  EntriesInv'
<1> DEFINE a == [ale EXCEPT !.ret = OK]
           b == VlanGiven(a, Handled(p), v, p, untag)
<1>1. Good(a) /\ a.ret = OK /\ a.table = ale.table
  <2>1. Good(ale) /\ ale \in Engine
    BY DEF EntriesInv, StateInv, Good
  <2>2. Good(a)
    BY <2>1, RetGood
  <2>3. QED
    BY <2>1, <2>2 DEF Engine
<1>2. ~dual /\ Handled(p) \in SUBSET Ifc /\ Handled(p) # {} /\ v \in Vids
  BY HandledFacts, VidFacts DEF AddBridgeVlan
<1>3. Done(b, odd) /\ brvlan' = [brvlan EXCEPT ![v] = @ \cup {p}] /\ UNCHANGED <<modeVars, flagVars, up, mdb, fdb, workVars>>
  BY DEF AddBridgeVlan, VlanGiven
<1> HIDE DEF a
<1>4. /\ Good(b) /\ b.ret \in {OK, ENOMEM}
      /\ Aside(ale.table, b.table, v)
      /\ b.ret = OK => Gains(ale.table, b.table, v, p)
  <2>1. \A w : w = VlanGiven(a, Handled(p), v, p, untag) =>
          /\ Good(w) /\ w.ret \in {OK, ENOMEM}
          /\ Aside(a.table, w.table, v)
          /\ w.ret = OK => Gains(a.table, w.table, v, p)
    BY <1>1, <1>2, GivenDoes
  <2>2. QED
    BY <1>1, <2>1
<1> HIDE DEF b
<1>5. /\ \A w : w # v => SameMembers(ale.table, b.table, w)
      /\ \A g \in BrGroups : \A w : SameMask(ale.table, b.table, g, w)
      /\ \A f : f.addr \in Outside /\ AtPort(ale.table, f) => AtPort(b.table, f)
  BY <1>4, AsideFollows
<1>6. brvlan \in [BrVids -> SUBSET Ports]
  BY DEF EntriesInv, StateInv
<1>7. b.ret # ENOMEM /\ VlansIn(ale.table, brvlan) => VlansIn(b.table, brvlan')
  <2>1. SUFFICES ASSUME b.ret # ENOMEM, VlansIn(ale.table, brvlan), NEW w \in BrVids
                 PROVE  MembersAt(b.table, w) = brvlan'[w]
    BY DEF VlansIn
  <2>2. MembersAt(ale.table, w) = brvlan[w]
    BY <2>1 DEF VlansIn
  <2>3. CASE w = v
    BY <1>3, <1>4, <1>6, <2>1, <2>2, <2>3 DEF Gains
  <2>4. CASE w # v
    BY <1>3, <1>5, <1>6, <2>2, <2>4 DEF SameMembers
  <2>5. QED
    BY <2>3, <2>4
<1>8. GroupsIn(ale.table, mdb) => GroupsIn(b.table, mdb')
  BY <1>3, <1>5 DEF GroupsIn, SameMask
<1>9. Within(ale.table, b.table, v) /\ brvlan' \in [BrVids -> SUBSET Ports]
  BY <1>3, <1>4, <1>6, AsideWithin
<1>10. QED
  BY <1>2, <1>3, <1>4, <1>5, <1>7, <1>8, <1>9, CallFollows

\* The bridge takes a VLAN back.
LEMMA DelVlanFollows ==
  ASSUME EntriesInv, NEW v \in BrVids, NEW p \in Ports, DelBridgeVlan(v, p)
  PROVE  EntriesInv'
<1> DEFINE b == VlanTaken(ale, Handled(p), v, p)
<1>1. Good(ale) /\ ale.ret = OK /\ brvlan \in [BrVids -> SUBSET Ports]
  BY DEF EntriesInv, StateInv
<1>2. ~dual /\ Handled(p) \in SUBSET Ifc /\ Handled(p) # {} /\ v \in Vids
  BY HandledFacts, VidFacts DEF DelBridgeVlan
<1>3. Done(b, odd) /\ brvlan' = [brvlan EXCEPT ![v] = @ \ {p}] /\ UNCHANGED <<modeVars, flagVars, up, mdb, fdb, workVars>>
  BY DEF DelBridgeVlan, VlanTaken
<1>4. /\ Good(b)
      /\ Aside(ale.table, b.table, v)
      /\ Loses(ale.table, b.table, v, p)
  <2>1. \A w : w = VlanTaken(ale, Handled(p), v, p) =>
          /\ Good(w)
          /\ Aside(ale.table, w.table, v)
          /\ Loses(ale.table, w.table, v, p)
    BY <1>1, <1>2, TakenDoes
  <2>2. QED
    BY <2>1
<1> HIDE DEF b
<1>5. /\ \A w : w # v => SameMembers(ale.table, b.table, w)
      /\ \A g \in BrGroups : \A w : SameMask(ale.table, b.table, g, w)
      /\ \A f : f.addr \in Outside /\ AtPort(ale.table, f) => AtPort(b.table, f)
  BY <1>4, AsideFollows
<1>6. VlansIn(ale.table, brvlan) => VlansIn(b.table, brvlan')
  <2>1. SUFFICES ASSUME VlansIn(ale.table, brvlan), NEW w \in BrVids
                 PROVE  MembersAt(b.table, w) = brvlan'[w]
    BY DEF VlansIn
  <2>2. MembersAt(ale.table, w) = brvlan[w]
    BY <2>1 DEF VlansIn
  <2>3. CASE w = v
    BY <1>1, <1>3, <1>4, <2>2, <2>3 DEF Loses
  <2>4. CASE w # v
    BY <1>1, <1>3, <1>5, <2>2, <2>4 DEF SameMembers
  <2>5. QED
    BY <2>3, <2>4
<1>7. GroupsIn(ale.table, mdb) => GroupsIn(b.table, mdb')
  BY <1>3, <1>5 DEF GroupsIn, SameMask
<1>8. Within(ale.table, b.table, v) /\ brvlan' \in [BrVids -> SUBSET Ports]
  BY <1>1, <1>3, <1>4, AsideWithin
<1>9. QED
  BY <1>2, <1>3, <1>4, <1>5, <1>6, <1>7, <1>8, CallFollows

\* A group of the bridge changes, and nothing else does.
LEMMA GroupFollows ==
  ASSUME EntriesInv, ~dual, NEW b, Good(b), Done(b, odd), NEW g \in BrGroups, NEW v \in BrVids,
         NEW key, key.type = "addr", key.addr = g, key.vid = v, SameBut(ale.table, b.table, key),
         UNCHANGED <<modeVars, flagVars, up, brvlan, fdb, workVars>>,
         \A p, h, w : h # g \/ w # v => (<<h, w, p>> \in mdb' <=> <<h, w, p>> \in mdb),
         b.ret # ENOMEM /\ MaskAt(ale.table, g, v) = {p \in Ports : <<g, v, p>> \in mdb}
           => MaskAt(b.table, g, v) = {p \in Ports : <<g, v, p>> \in mdb'}
  PROVE  EntriesInv'
<1>1. brvlan \in [BrVids -> SUBSET Ports] /\ \A h \in BrGroups : h \in Groups
  BY DEF EntriesInv, StateInv, BrGroups
<1>2. /\ \A w : SameMembers(ale.table, b.table, w)
      /\ \A h \in Groups : \A w : h # g \/ w # v => SameMask(ale.table, b.table, h, w)
      /\ \A f : (f.addr # g \/ f.vid # v) /\ AtPort(ale.table, f) => AtPort(b.table, f)
  BY SameButFollows
<1>3. \A f : f.addr \in Outside /\ AtPort(ale.table, f) => AtPort(b.table, f)
  <2>1. g \notin Outside
    BY OutsideFacts DEF BrGroups
  <2>2. QED
    BY <1>2, <2>1
<1>4. VlansIn(ale.table, brvlan) => VlansIn(b.table, brvlan')
  BY <1>2 DEF VlansIn, SameMembers
<1>5. b.ret # ENOMEM /\ GroupsIn(ale.table, mdb) => GroupsIn(b.table, mdb')
  <2>1. SUFFICES ASSUME b.ret # ENOMEM, GroupsIn(ale.table, mdb), NEW h \in BrGroups, NEW w \in BrVids
                 PROVE  MaskAt(b.table, h, w) = {p \in Ports : <<h, w, p>> \in mdb'}
    BY DEF GroupsIn
  <2>2. MaskAt(ale.table, h, w) = {p \in Ports : <<h, w, p>> \in mdb}
    BY <2>1 DEF GroupsIn
  <2>3. CASE h = g /\ w = v
    BY <2>1, <2>2, <2>3
  <2>4. CASE h # g \/ w # v
    <3>1. MaskAt(b.table, h, w) = MaskAt(ale.table, h, w)
      BY <1>1, <1>2, <2>4 DEF SameMask
    <3>2. {p \in Ports : <<h, w, p>> \in mdb'} = {p \in Ports : <<h, w, p>> \in mdb}
      BY <2>4
    <3>3. QED
      BY <2>2, <3>1, <3>2
  <2>5. QED
    BY <2>3, <2>4
<1>6. Within(ale.table, b.table, v) /\ brvlan' \in [BrVids -> SUBSET Ports]
  BY <1>1, SameButWithin
<1>7. QED
  BY <1>3, <1>4, <1>5, <1>6, CallFollows

\* A port joins a group.
LEMMA AddGroupFollows ==
  ASSUME EntriesInv, NEW g \in BrGroups, NEW v \in BrVids, NEW p \in Ports, AddGroup(g, v, p)
  PROVE  EntriesInv'
<1> DEFINE b == AddMcast(ale, g, {p}, FALSE, v)
           e == McastEntry(g, v, MaskAt(ale.table, g, v) \cup {p}, FALSE)
<1>1. Good(ale)
  BY DEF EntriesInv, StateInv
<1>2. ~dual /\ v \in Vids /\ g \in Groups /\ {p} \in SUBSET Ports /\ {p} # {}
  BY HandledFacts, VidFacts DEF AddGroup, BrGroups
<1>3. Done(b, odd) /\ mdb' = mdb \cup {<<g, v, p>>} /\ UNCHANGED <<modeVars, flagVars, up, brvlan, fdb, workVars>>
  BY DEF AddGroup
<1>4. Good(b)
  <2>1. FALSE \in BOOLEAN
    OBVIOUS
  <2>2. QED
    BY <1>1, <1>2, <2>1, AddMcastGood
<1>5. Comes(ale, b, e)
  BY <1>1, AddMcastComes
<1>6. /\ e.type = "addr" /\ e.addr = g /\ e.vid = v /\ e.mask = MaskAt(ale.table, g, v) \cup {p}
      /\ SameKey(AddrKey(g, v), e)
  BY DEF McastEntry, SameKey, AddrKey
<1> HIDE DEF b, e
<1>7. ASSUME b.ret # ENOMEM, MaskAt(ale.table, g, v) = {q \in Ports : <<g, v, q>> \in mdb}
      PROVE  MaskAt(b.table, g, v) = {q \in Ports : <<g, v, q>> \in mdb'}
  <2>1. e \in Contents(b.table)
    BY <1>5, <1>7 DEF Comes
  <2>2. MaskAt(b.table, g, v) = e.mask
    BY <1>4, <1>6, <2>1, MaskIs
  <2>3. QED
    BY <1>3, <1>6, <1>7, <2>2
<1>8. SameBut(ale.table, b.table, e)
  BY <1>5 DEF Comes
<1>9. \A q, h, w : h # g \/ w # v => (<<h, w, q>> \in mdb' <=> <<h, w, q>> \in mdb)
  BY <1>3
<1>10. QED
  BY <1>2, <1>3, <1>4, <1>6, <1>7, <1>8, <1>9, GroupFollows

\* A port leaves a group.
LEMMA DelGroupFollows ==
  ASSUME EntriesInv, NEW g \in BrGroups, NEW v \in BrVids, NEW p \in Ports, DelGroup(g, v, p)
  PROVE  EntriesInv'
<1> DEFINE b == DelMcast(ale, g, {p}, v)
           key == AddrKey(g, v)
<1>1. Good(ale)
  BY DEF EntriesInv, StateInv
<1>2. ~dual /\ v \in Vids /\ g \in Groups /\ {p} \in SUBSET Ports /\ {p} # {}
  BY HandledFacts, VidFacts DEF DelGroup, BrGroups
<1>3. Done(b, odd) /\ mdb' = mdb \ {<<g, v, p>>} /\ UNCHANGED <<modeVars, flagVars, up, brvlan, fdb, workVars>>
  BY DEF DelGroup, MdbDel
<1>4. /\ Good(b) /\ SameBut(ale.table, b.table, key)
      /\ MaskAt(b.table, g, v) = MaskAt(ale.table, g, v) \ {p}
  <2> DEFINE m == {p}
  <2>1. m \in SUBSET Ports /\ m # {}
    OBVIOUS
  <2> HIDE DEF m
  <2>2. Good(DelMcast(ale, g, m, v)) /\ SameBut(ale.table, DelMcast(ale, g, m, v).table, AddrKey(g, v))
    BY <1>1, <1>2, <2>1, DelMcastGood, DelMcastDoes
  <2>3. MaskAt(DelMcast(ale, g, m, v).table, g, v) = MaskAt(ale.table, g, v) \ m
    BY <1>1, <1>2, <2>1, DelMcastDoes
  <2>4. QED
    BY <2>2, <2>3 DEF m
<1>5. key.type = "addr" /\ key.addr = g /\ key.vid = v
  BY DEF AddrKey
<1> HIDE DEF b, key
<1>6. ASSUME MaskAt(ale.table, g, v) = {q \in Ports : <<g, v, q>> \in mdb}
      PROVE  MaskAt(b.table, g, v) = {q \in Ports : <<g, v, q>> \in mdb'}
  BY <1>3, <1>4, <1>6
<1>7. \A q, h, w : h # g \/ w # v => (<<h, w, q>> \in mdb' <=> <<h, w, q>> \in mdb)
  BY <1>3
<1>8. QED
  BY <1>2, <1>3, <1>4, <1>5, <1>6, <1>7, GroupFollows

\* Every step keeps the table in line with the mode and the bridge.
LEMMA EntriesNext == EntriesInv /\ [Next]_vars => EntriesInv'
<1> SUFFICES ASSUME EntriesInv, [Next]_vars PROVE EntriesInv'
  OBVIOUS
<1>1. ASSUME NEW i \in Ifc, Open(i) PROVE EntriesInv'
  BY <1>1, OpenFollows
<1>2. ASSUME NEW i \in Ifc, Stop(i) PROVE EntriesInv'
  BY <1>2, StopFollows
<1>3. CASE ModeSet
  BY <1>3, ModeSetFollows
<1>4. ASSUME NEW i \in Ifc, NEW x \in Outside, NEW v \in BrVids, Frame(i, x, v) PROVE EntriesInv'
  BY <1>4, FrameFollows
<1>5. ASSUME NEW n \in 1..Len(work), DoWork(n) PROVE EntriesInv'
  BY <1>5, WorkFollows
<1>6. ASSUME NEW v \in BrVids, NEW p \in Ports,
             (\E untag \in Untagged : AddBridgeVlan(v, p, untag)) \/ DelBridgeVlan(v, p)
      PROVE  EntriesInv'
  BY <1>6, UntaggedAssumption, AddVlanFollows, DelVlanFollows
<1>7. ASSUME NEW v \in BrVids, NEW p \in Ports, NEW g \in Groups \ {BCAST, STPA},
             AddGroup(g, v, p) \/ DelGroup(g, v, p)
      PROVE  EntriesInv'
  BY <1>7, AddGroupFollows, DelGroupFollows DEF BrGroups
<1>8. ASSUME NEW i \in Ifc, NEW x \in Outside \cup {Mac[i]}, NEW v \in BrVids,
             AddAddress([addr |-> x, vid |-> v, port |-> i])
      PROVE  EntriesInv'
  <2> DEFINE f == [addr |-> x, vid |-> v, port |-> i]
  <2>1. f \in Fdb
    BY OutsideFacts, IfcFacts DEF Fdb
  <2> HIDE DEF f
  <2>2. /\ \A g \in fdb : ~SameAddr(g, f)
        /\ fdb' = fdb \cup {f} /\ Queue("add", f) /\ odd' = IF dual THEN odd \cup {"cleared"} ELSE odd
        /\ UNCHANGED <<ale, modeVars, flagVars, up, brvlan, mdb>>
    BY <1>8 DEF AddAddress, f
  <2>3. QED
    BY <2>1, <2>2, AddressFollows
<1>9. ASSUME NEW f \in fdb, DelAddress(f) PROVE EntriesInv'
  <2>1. f \in Fdb
    BY DEF EntriesInv, StateInv
  <2>2. /\ fdb' = fdb \ {f} /\ Queue("del", f) /\ odd' = IF dual THEN odd \cup {"cleared"} ELSE odd
        /\ UNCHANGED <<ale, modeVars, flagVars, up, brvlan, mdb>>
    BY <1>9 DEF DelAddress
  <2>3. QED
    BY <2>1, <2>2, AddressFollows
<1>10. CASE \/ \E i \in Ifc, b \in Bridges : JoinFails(i, b)
            \/ \E d \in BOOLEAN : ModeCheck(d) \/ SetBypass(d)
            \/ UNCHANGED vars
  <2>1. UNCHANGED <<ale, modeVars, flagVars, up, swVars, workVars, odd>>
    BY <1>10 DEF JoinFails, ModeCheck, SetBypass, vars
  <2>2. QED
    BY <2>1, SameTable
<1>11. ASSUME NEW i \in Ifc, RxMode(i) \/ LeaveBridge(i) \/ \E b \in Bridges : JoinBridge(i, b)
       PROVE  EntriesInv'
  BY <1>11, FlagsFollow DEF RxMode, LeaveBridge, JoinBridge, Promiscuity
<1>12. QED
  BY <1>1, <1>2, <1>3, <1>4, <1>5, <1>6, <1>7, <1>8, <1>9, <1>10, <1>11 DEF Next

\* The table is in line with the mode and the bridge in every state.
THEOREM EntriesInvariant == Spec => []EntriesInv
<1>1. QED
  BY EntriesInit, EntriesNext, PTL DEF Spec

\* The table of the model and its contents.
LEMMA InTable ==
  /\ Table = Contents(ale.table)
  /\ \A v : UNION {e.members : e \in VlanOf(v)} = MembersAt(ale.table, v)
  /\ \A x, v : UNION {e.mask : e \in AddrIn(x, v)} = MaskAt(ale.table, x, v)
<1>1. Table = Contents(ale.table)
  BY DEF Table, Contents
<1>2. ASSUME NEW v PROVE UNION {e.members : e \in VlanOf(v)} = MembersAt(ale.table, v)
  <2>1. VlanOf(v) = {f \in Contents(ale.table) : SameKey(VlanKey(v), f)}
    BY <1>1, KeyOf DEF VlanOf
  <2>2. QED
    BY <2>1 DEF MembersAt
<1>3. ASSUME NEW x, NEW v PROVE UNION {e.mask : e \in AddrIn(x, v)} = MaskAt(ale.table, x, v)
  <2>1. AddrIn(x, v) = {f \in Contents(ale.table) : SameKey(AddrKey(x, v), f)}
    BY <1>1, KeyOf DEF AddrIn
  <2>2. QED
    BY <2>1 DEF MaskAt
<1>4. QED
  BY <1>1, <1>2, <1>3

\* An open interface has the VLAN, the broadcast entry and the address that its mode needs, and the
\* host port floods in switch mode, and in dual-EMAC mode for a promiscuous interface (unless the mode
\* came over it): through changes of mode, of the interfaces, of the flags and of the bridge and
\* whatever the engine learns, unless a call failed or a work item came too late.
THEOREM ModesKept == Spec => []ModeEntries
<1>1. EntriesInv => ModeEntries
  <2>1. SUFFICES ASSUME EntriesInv, odd \cap {"nomem", "stale"} = {}, NEW i \in up
                 PROVE  LET v == portvlan[i]
                        IN /\ \E e \in VlanOf(v) : e.members = (IF dual THEN Both(i) ELSE Ports)
                           /\ \E e \in AddrIn(BCAST, v) : (IF dual THEN {HOST} ELSE Both(i)) \subseteq e.mask
                           /\ \E e \in AddrIn(Mac[i], v) :
                                e.port = HOST /\ e.ucast = "persistant" /\ e.secure = dual
                           /\ Floods(i)
    BY DEF ModeEntries, Floods
  <2>2. InMode(ale.table, i, dual) /\ Floods(i) /\ portvlan = NewVlan(dual)
    BY <2>1 DEF EntriesInv, ModeInv, StateInv
  <2>3. QED
    BY <2>2, InTable DEF InMode, VlanOf, AddrIn
<1>2. QED
  BY <1>1, EntriesInvariant, PTL

\* In switch mode the VLANs, the groups and, once their work items are done, the addresses in the
\* table are those that the bridge was given, in whatever order the driver is told of the VLANs and
\* groups and does the work items of different addresses; for one address, unless its items have
\* overtaken one another.
THEOREM TableFollows == Spec => []BridgeFollows
<1>1. EntriesInv => BridgeFollows
  <2>1. SUFFICES ASSUME EntriesInv, odd = {}, ~dual PROVE BridgeFollows
    BY DEF BridgeFollows, VlansFollow, GroupsFollow, FdbFollows
  <2>2. VlansIn(ale.table, brvlan) /\ GroupsIn(ale.table, mdb) /\ FdbIn(ale.table, fdb, work, late)
    BY <2>1 DEF EntriesInv, FollowInv
  <2>3. VlansFollow
    BY <2>2, InTable DEF VlansIn, VlansFollow
  <2>4. GroupsFollow
    BY <2>2, InTable DEF GroupsIn, GroupsFollow, BrGroups
  <2>5. FdbFollows
    <3>1. SUFFICES ASSUME NEW f \in fdb, f.addr \in Outside, Waiting(f) = {}, AddrOf(f) \notin late
                   PROVE  \E e \in AddrIn(f.addr, f.vid) : e.port = FdbPort(f) /\ e.ucast = "persistant"
      BY DEF FdbFollows
    <3>2. AtPort(ale.table, f)
      BY <2>2, <3>1 DEF FdbIn, Due, Waiting
    <3>3. QED
      BY <3>2, InTable DEF AtPort, AddrIn
  <2>6. QED
    BY <2>3, <2>4, <2>5 DEF BridgeFollows
<1>2. QED
  BY <1>1, EntriesInvariant, PTL
=============================================================================
