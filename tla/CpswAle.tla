-------------------------------- MODULE CpswAle --------------------------------
(***************************************************************************)
(* The address lookup engine (ALE) of the switch: its table, and what each *)
(* function of cpsw/my_cpsw_ale.c does to it.                              *)
(*                                                                         *)
(* The driver keeps nothing of the table but the bit map of the VLANs that *)
(* leave the host port untagged: every call searches the table again, from *)
(* entry 0.  An operator below takes the engine before a call and returns  *)
(* it after the call, with the result of the call in its field ret; a      *)
(* handler that makes several calls applies one operator to the result of  *)
(* another.                                                                *)
(*                                                                         *)
(* A mask is a set of ports.  An entry with an address is of type ADDR if  *)
(* its vid is 0 and VLAN_ADDR if not; its bit mcast is a bit of the        *)
(* address.  The engine is the one of the boards "cpsw", where the masks   *)
(* of multicast flooding are in the VLAN's entry (not nu_switch_ale).      *)
(***************************************************************************)
EXTENDS Integers, FiniteSets

CONSTANTS
  Ports,    \* the ports of the switch, with HOST
  HOST,     \* HOST_PORT_NUM
  Vids,     \* the VLANs, with 0: the default VLAN and the vid of no VLAN
  Stations, \* the unicast addresses
  Groups,   \* the multicast addresses, with BCAST
  BCAST,    \* the broadcast address
  Entries   \* ale_entries

ASSUME PortsAssumption == HOST \in Ports /\ IsFiniteSet(Ports)
ASSUME AddrsAssumption == BCAST \in Groups /\ Stations \cap Groups = {}
ASSUME VidsAssumption == 0 \in Vids
ASSUME EntriesAssumption == Entries \in Nat \ {0}

OK == "ok"
ENOENT == "ENOENT"
ENOMEM == "ENOMEM"

Slot == 0..(Entries - 1)
Free == [type |-> "free"]
Addrs == Stations \cup Groups

\* The entry of a VLAN.
VlanEntry(vid, members, untag, reg, unreg) ==
  [type |-> "vlan", vid |-> vid, members |-> members, untag |-> untag,
   reg |-> reg, unreg |-> unreg]

\* The entry of a unicast address at a port.
UcastEntry(addr, vid, port, secure, ucast) ==
  [type |-> "addr", addr |-> addr, vid |-> vid, port |-> port, secure |-> secure, ucast |-> ucast]

\* The entry of a multicast address.
McastEntry(addr, vid, mask, super) ==
  [type |-> "addr", addr |-> addr, vid |-> vid, mask |-> mask, super |-> super]

VlanEntries ==
  [type : {"vlan"}, vid : Vids, members : (SUBSET Ports) \ {{}}, untag : SUBSET Ports,
   reg : SUBSET Ports, unreg : SUBSET Ports]
UcastEntries ==
  [type : {"addr"}, addr : Stations, vid : Vids, port : Ports, secure : BOOLEAN,
   ucast : {"persistant", "ageable", "touched"}]
McastEntries ==
  [type : {"addr"}, addr : Groups, vid : Vids, mask : (SUBSET Ports) \ {{}}, super : BOOLEAN]
Entry == {Free} \cup VlanEntries \cup UcastEntries \cup McastEntries

\* The engine: its table and p0_untag_vid_mask, with the result of the last call.
Engine == [table : [Slot -> Entry], untag : SUBSET Vids, ret : {OK, ENOENT, ENOMEM}]

Cleared == [i \in Slot |-> Free]

-----------------------------------------------------------------------------
(* The searches: the entries that one of them stops at.                    *)

MatchAddr(t, addr, vid) == {i \in Slot : t[i].type = "addr" /\ t[i].vid = vid /\ t[i].addr = addr}
MatchVlan(t, vid) == {i \in Slot : t[i].type = "vlan" /\ t[i].vid = vid}
MatchFree(t) == {i \in Slot : t[i].type = "free"}

IsMcast(e) == e.type = "addr" /\ e.addr \in Groups
IsUcast(e) == e.type = "addr" /\ e.addr \notin Groups

\* A search for a unicast entry that is not persistent, multicast or not: the bits of
\* ucast_type are those of mcast_state.
FindAgeable_NoMcast(t) ==
  {i \in Slot : t[i].type = "addr" /\ (t[i].addr \notin Groups => t[i].ucast # "persistant")}

\* Entries that the engine has learned, and may lose.
FindAgeable(t) == {i \in Slot : IsUcast(t[i]) /\ t[i].ucast # "persistant"}

First(S) == CHOOSE i \in S : \A j \in S : i <= j

\* One that does not look for the entry first.
Place_NoMatch(t, match) == IF MatchFree(t) # {} THEN MatchFree(t) ELSE FindAgeable(t)

\* The entries to choose from for a new or changed entry, given those that match.
Place(t, match) ==
  IF match # {} THEN match ELSE IF MatchFree(t) # {} THEN MatchFree(t) ELSE FindAgeable(t)

\* cpsw_ale_write of the entry at the first of the indices, or -ENOMEM.
Put(a, indices, entry) ==
  IF indices = {} THEN [a EXCEPT !.ret = ENOMEM]
  ELSE [a EXCEPT !.table[First(indices)] = entry, !.ret = OK]

\* cpsw_ale_write of the entry in place of the first that matches, or -ENOENT.
Change(a, match, New(_)) ==
  IF match = {} THEN [a EXCEPT !.ret = ENOENT]
  ELSE [a EXCEPT !.table[First(match)] = New(a.table[First(match)]), !.ret = OK]

-----------------------------------------------------------------------------
(* Addresses.                                                              *)

AddUcast(a, addr, port, secure, vid) ==
  Put(a, Place(a.table, MatchAddr(a.table, addr, vid)),
      UcastEntry(addr, vid, port, secure, "persistant"))

DelUcast(a, addr, vid) == Change(a, MatchAddr(a.table, addr, vid), LAMBDA e : Free)

\* The ports are added to those of the entry that is there.
AddMcast(a, addr, mask, super, vid) ==
  LET match == MatchAddr(a.table, addr, vid)
      old == IF match = {} THEN {} ELSE a.table[First(match)].mask
  IN Put(a, Place(a.table, match), McastEntry(addr, vid, old \cup mask, super))

\* Without a mask, the entry goes with all its ports.
DelMcast(a, addr, mask, vid) ==
  Change(a, MatchAddr(a.table, addr, vid),
         LAMBDA e : IF mask = {} \/ e.mask \subseteq mask THEN Free
                    ELSE [e EXCEPT !.mask = @ \ mask])

\* cpsw_ale_flush_mcast.
FlushMcast(e, mask) ==
  IF e.mask \cap mask = {} THEN e
  ELSE IF e.mask \subseteq mask THEN Free ELSE [e EXCEPT !.mask = @ \ mask]

\* The multicast entries with one of the vids lose the ports, but for super entries and broadcast.
FlushMulticast(a, mask, vids) ==
  [a EXCEPT !.ret = OK,
            !.table = [i \in Slot |->
              IF IsMcast(@[i]) /\ @[i].vid \in vids /\ ~@[i].super /\ @[i].addr # BCAST
              THEN FlushMcast(@[i], mask) ELSE @[i]]]

-----------------------------------------------------------------------------
(* VLANs.                                                                  *)

\* One that sets the bit and never clears it.
SetVlanUntag_SetOnly(untag, vid, mask) == IF HOST \in mask THEN untag \cup {vid} ELSE untag

\* cpsw_ale_set_vlan_untag: the bit of the VLAN in p0_untag_vid_mask.
SetVlanUntag(untag, vid, mask) == IF HOST \in mask THEN untag \cup {vid} ELSE untag \ {vid}

\* The bit map is written before it is known whether there is an entry.
AddVlan(a, vid, members, untag, reg, unreg) ==
  Put([a EXCEPT !.untag = SetVlanUntag(@, vid, untag)],
      Place(a.table, MatchVlan(a.table, vid)), VlanEntry(vid, members, untag, reg, unreg))

\* One that looks only at the members.
Without_MembersOnly(e, mask) ==
  IF e.members \subseteq mask THEN Free ELSE [e EXCEPT !.members = @ \ mask]

\* The entry of a VLAN without some ports.
Without(e, mask) ==
  IF e.members \subseteq mask THEN Free
  ELSE LET m == e.members \ mask
       IN VlanEntry(e.vid, m, e.untag \cap m, e.reg \cap m, e.unreg \cap m)

\* The force untag mask of an entry.
UntagOf(e) == IF e.type = "vlan" THEN e.untag ELSE {}

\* Ports leave a VLAN that may go: the entry, and the bit of the VLAN with it.
ModifyVlan(a, vid, New(_)) ==
  LET match == MatchVlan(a.table, vid)
  IN IF match = {} THEN [a EXCEPT !.ret = ENOENT]
     ELSE [Change(a, match, New) EXCEPT
            !.untag = SetVlanUntag(@, vid, UntagOf(New(a.table[First(match)])))]

VlanDelModify(a, vid, mask) == ModifyVlan(a, vid, LAMBDA e : Without(e, mask))

\* Without a mask, or with one that has every member, the VLAN goes; else the host port stays.
DelVlan(a, vid, mask) ==
  ModifyVlan(a, vid, LAMBDA e : IF mask = {} \/ e.members \subseteq mask THEN Free
                                ELSE Without(e, mask \ {HOST}))

\* Ports join a VLAN: they replace what the entry says of them and leave the rest.
VlanAddModify(a, vid, mask, untag, reg, unreg) ==
  LET match == MatchVlan(a.table, vid)
      old == IF match = {} THEN VlanEntry(vid, {}, {}, {}, {}) ELSE a.table[First(match)]
  IN AddVlan(a, vid, old.members \cup mask, (old.untag \ mask) \cup untag,
             (old.reg \ mask) \cup reg, (old.unreg \ mask) \cup unreg)

\* Where unregistered multicast of a VLAN goes, with some ports or without them.
Reflood(e, mask, add) == [e EXCEPT !.unreg = IF add THEN @ \cup mask ELSE @ \ mask]

\* Ports are added to, or removed from, the unregistered flooding of every VLAN.
SetUnregMcast(a, mask, add) ==
  [a EXCEPT !.table = [i \in Slot |->
     IF @[i].type # "vlan" THEN @[i] ELSE Reflood(@[i], mask, add)]]

\* The host port likewise, for the VLANs with the port.
SetAllmulti(a, allmulti, port) ==
  [a EXCEPT !.table = [i \in Slot |->
     IF @[i].type = "vlan" /\ port \in @[i].members THEN Reflood(@[i], {HOST}, allmulti)
     ELSE @[i]]]

\* The bit CLEAR of the control register: the table is emptied, the bit map is not.
Clear(a) == [a EXCEPT !.table = Cleared]

-----------------------------------------------------------------------------
(* The engine itself (hardware, as the driver relies on it).               *)

\* The engine learns that an address is at a port: an entry that is there is in use, and moves
\* if the port may move entries and it is not secure; one that is not there takes a free place.
Learn(a, addr, port, vid, moves) ==
  LET match == MatchAddr(a.table, addr, vid)
      e == a.table[First(match)]
      used == [e EXCEPT !.ucast = IF @ = "ageable" THEN "touched" ELSE @]
  IN IF match # {} THEN
       [a EXCEPT !.table[First(match)] =
          IF moves /\ ~e.secure THEN [used EXCEPT !.port = port] ELSE used]
     ELSE IF MatchFree(a.table) = {} THEN a
     ELSE [a EXCEPT !.table[First(MatchFree(a.table))] =
             UcastEntry(addr, vid, port, FALSE, "touched")]

\* The bit AGEOUT: the entries not used since the last time go, the others are not used yet.
AgeOut(a) ==
  [a EXCEPT !.table = [i \in Slot |->
     IF i \notin FindAgeable(@) THEN @[i]
     ELSE IF @[i].ucast = "ageable" THEN Free ELSE [@[i] EXCEPT !.ucast = "ageable"]]]

-----------------------------------------------------------------------------
(* What is true of the table whatever calls are made.                      *)

\* Entries that answer the same search.
SameKey(e, f) ==
  \/ e.type = "vlan" /\ f.type = "vlan" /\ e.vid = f.vid
  \/ e.type = "addr" /\ f.type = "addr" /\ e.addr = f.addr /\ e.vid = f.vid

\* No two entries answer the same search.
KeysUniqueIn(t) == \A i, j \in Slot : SameKey(t[i], t[j]) => i = j

\* The bit of a VLAN that has an entry is the host port's bit in the entry.
UntagAgreesIn(a) ==
  \A i \in Slot : a.table[i].type = "vlan" =>
                    (a.table[i].vid \in a.untag <=> HOST \in a.table[i].untag)
=============================================================================
