---------------------------- MODULE CpswAddrProofs ----------------------------
(***************************************************************************)
(* Proofs about CpswAddr, for any number of ports, VLANs, addresses,       *)
(* groups and entries and without a bound on the operations.               *)
(*                                                                         *)
(* The contents of the table are seen as two things: Base, the entries     *)
(* that the driver has of its own (VLANs, addresses, broadcast), and       *)
(* Joined, the pairs of a group and a VLAN that users have joined.  First, *)
(* what each call does to the two (from CpswTableProofs); then each series *)
(* of calls, the loops by induction over the VLANs or the groups           *)
(* (FoldInduction); then the handlers.                                     *)
(*                                                                         *)
(* The invariant (AddrInv) says of every interface, open or not, what is   *)
(* in the table for it (IfcAt), unless something has happened to it that   *)
(* the driver does not cope with.  That a handler of one interface leaves  *)
(* the others theirs (IfcKept) rests on whose the VLANs are (Mine): no two *)
(* interfaces have the same, but for those known to be shared.             *)
(***************************************************************************)
EXTENDS CpswAddr, CpswTableProofs

-----------------------------------------------------------------------------
(* Entries of groups, and the others.                                      *)

\* What the users of the interfaces have joined is kept apart from the entries that the driver
\* has of its own.
OfGroup(e) == e.type = "addr" /\ e.addr \in McGroups
Base(t) == {e \in Contents(t) : ~OfGroup(e)}
Joined(t) == {p \in McGroups \X Vids :
                \E e \in Contents(t) : e.type = "addr" /\ e.addr = p[1] /\ e.vid = p[2]}

\* What every entry is like in dual-EMAC mode.
ShapeOf(e) ==
  /\ e.type = "vlan" => /\ e.vid # 0 => \E i \in Ifc : e.members = Both(i)
                        /\ \A i \in Ifc : e.vid = PortVlan[i] => e.members = Both(i)
  /\ IsUcast(e) => e.port = HOST /\ e.ucast = "persistant"
  /\ IsMcast(e) => e.mask = {HOST} /\ ~e.super
Sound(a) == Good(a) /\ \A e \in Contents(a.table) : ShapeOf(e)

\* Those but the entry with a key.
But(B, key) == {f \in B : ~SameKey(key, f)}

\* What the constants say.
LEMMA IfcFacts ==
  ASSUME NEW i \in Ifc
  PROVE  /\ i \in Ports /\ i # HOST /\ HOST \in Ports
         /\ Both(i) \in SUBSET Ports /\ Both(i) # {} /\ {HOST} \in SUBSET Ports /\ {HOST} # {}
         /\ {} \in SUBSET Ports
         /\ PortVlan[i] \in Vids /\ PortVlan[i] # 0 /\ PortVlan[i] \notin UserVids
BY PortsAssumption, PortVlanAssumption DEF Ifc, Both, UserVids

\* The groups of the users.
LEMMA GroupFacts ==
  /\ BCAST \in Groups /\ BCAST \notin McGroups
  /\ \A g \in McGroups : g \in Groups /\ g # BCAST /\ g \notin Stations
  /\ \A x \in Stations : x \notin Groups /\ x \notin McGroups /\ x # BCAST
BY AddrsAssumption DEF McGroups

\* Nothing of a sound table may be lost.
LEMMA SoundKept ==
  ASSUME NEW a, Sound(a), NEW u, NEW key, SameBut(a.table, u, key)
  PROVE  \A f : ~SameKey(key, f) => (f \in Contents(a.table) <=> f \in Contents(u))
<1>1. \A f \in Contents(a.table) : ~Learnt(f)
  BY DEF Sound, ShapeOf, Learnt
<1>2. QED
  BY <1>1 DEF SameBut

\* An entry comes, of the driver's own.
LEMMA OwnComes ==
  ASSUME NEW a, Sound(a), NEW b, Good(b), NEW e, Comes(a, b, e), ~OfGroup(e), ShapeOf(e), SameKey(e, e)
  PROVE  /\ Sound(b) /\ b.ret \in {OK, ENOMEM}
         /\ Joined(b.table) = Joined(a.table)
         /\ b.ret = OK => Base(b.table) = But(Base(a.table), e) \cup {e}
         /\ b.ret # OK => Base(b.table) = Base(a.table)
<1>1. CASE b.ret # OK
  BY <1>1 DEF Comes, Sound
<1>2. CASE b.ret = OK
  <2>1. e \in Contents(b.table) /\ SameBut(a.table, b.table, e)
    BY <1>2 DEF Comes
  <2>2. \A f : ~SameKey(e, f) => (f \in Contents(a.table) <=> f \in Contents(b.table))
    BY <2>1, SoundKept
  <2>3. \A f \in Contents(b.table) : SameKey(e, f) => f = e
    BY <2>1, UniqueIn
  <2>4. Sound(b)
    BY <2>2, <2>3 DEF Sound
  <2>5. \A f : SameKey(e, f) /\ OfGroup(f) => FALSE
    BY DEF SameKey, OfGroup
  <2>6. Base(b.table) = But(Base(a.table), e) \cup {e}
    BY <2>1, <2>2, <2>3 DEF Base, But
  <2>7. \A f : OfGroup(f) => (f \in Contents(a.table) <=> f \in Contents(b.table))
    BY <2>2, <2>5
  <2>8. Joined(b.table) = Joined(a.table)
    BY <2>7 DEF Joined, OfGroup
  <2>9. QED
    BY <1>2, <2>4, <2>6, <2>8
<1>3. QED
  BY <1>1, <1>2

\* An entry goes, of the driver's own.
LEMMA OwnGoes ==
  ASSUME NEW a, Sound(a), NEW b, Good(b), NEW key, SameBut(a.table, b.table, key),
         \A f \in Contents(b.table) : ~SameKey(key, f),
         ~OfGroup(key), SameKey(key, key)
  PROVE  /\ Sound(b)
         /\ Joined(b.table) = Joined(a.table)
         /\ Base(b.table) = But(Base(a.table), key)
<1>1. \A f : ~SameKey(key, f) => (f \in Contents(a.table) <=> f \in Contents(b.table))
  BY SoundKept
<1>2. Sound(b)
  BY <1>1 DEF Sound
<1>3. \A f : SameKey(key, f) /\ OfGroup(f) => FALSE
  BY DEF SameKey, OfGroup
<1>4. Base(b.table) = But(Base(a.table), key)
  BY <1>1 DEF Base, But
<1>5. \A f : OfGroup(f) => (f \in Contents(a.table) <=> f \in Contents(b.table))
  BY <1>1, <1>3
<1>6. Joined(b.table) = Joined(a.table)
  BY <1>5 DEF Joined, OfGroup
<1>7. QED
  BY <1>2, <1>4, <1>6

-----------------------------------------------------------------------------
(* What one call does.                                                     *)

\* A VLAN goes.
LEMMA DelVlanDoes ==
  ASSUME NEW a, Good(a), NEW v \in Vids
  PROVE  /\ SameBut(a.table, DelVlan(a, v, {}).table, VlanKey(v))
         /\ \A g \in Contents(DelVlan(a, v, {}).table) : ~SameKey(VlanKey(v), g)
<1> DEFINE match == MatchVlan(a.table, v)
           k == First(match)
           b == DelVlan(a, v, {})
           key == VlanKey(v)
<1>1. a \in Engine
  BY DEF Good
<1>2. CASE match = {}
  <2>1. b.table = a.table
    BY <1>1, <1>2 DEF DelVlan, ModifyVlan, Engine
  <2>2. QED
    BY <1>2, <2>1, VlanIs, SameButSelf
<1>3. CASE match # {}
  <2> DEFINE c == [a EXCEPT !.table[k] = Free, !.ret = OK]
  <2>1. b = [c EXCEPT !.untag = SetVlanUntag(@, v, UntagOf(Free))]
    BY <1>3 DEF DelVlan, ModifyVlan, Change
  <2>2. k \in Slot /\ SameKey(key, a.table[k])
    BY <1>3, VlanIs
  <2>3. b.table = [a.table EXCEPT ![k] = Free]
    <3>1. c.table = [a.table EXCEPT ![k] = Free]
      BY <1>1 DEF Engine
    <3>2. c = [c EXCEPT !.ret = c.ret]
      BY <1>1 DEF Engine
    <3> HIDE DEF b, k
    <3>3. b.table = c.table
      BY <1>1, <2>1 DEF Engine
    <3>4. QED
      BY <3>1, <3>3
  <2> HIDE DEF b, k, c
  <2>4. SameBut(a.table, b.table, key) /\ \A g \in Contents(b.table) : SameKey(key, g) => g = Free
    BY <2>2, <2>3, ChangeDoes
  <2>5. Free \notin Contents(b.table)
    BY DEF Contents
  <2>6. QED
    BY <2>4, <2>5 DEF b
<1>4. QED
  BY <1>2, <1>3

\* A group goes with all its ports.
LEMMA DelGroupDoes ==
  ASSUME NEW a, Good(a), NEW x, NEW v
  PROVE  /\ SameBut(a.table, DelMcast(a, x, {}, v).table, AddrKey(x, v))
         /\ \A g \in Contents(DelMcast(a, x, {}, v).table) : ~SameKey(AddrKey(x, v), g)
<1> DEFINE match == MatchAddr(a.table, x, v)
           k == First(match)
           b == DelMcast(a, x, {}, v)
<1>1. a \in Engine
  BY DEF Good
<1>2. CASE match = {}
  <2>1. b.table = a.table
    BY <1>1, <1>2 DEF DelMcast, Change, Engine
  <2>2. QED
    BY <1>2, <2>1, AddrIs, SameButSelf
<1>3. CASE match # {}
  <2>1. b = [a EXCEPT !.table[k] = Free, !.ret = OK]
    BY <1>3 DEF DelMcast, Change
  <2>2. k \in Slot /\ SameKey(AddrKey(x, v), a.table[k])
    BY <1>3, AddrIs
  <2> HIDE DEF b, k
  <2>3. b.table = [a.table EXCEPT ![k] = Free]
    BY <1>1, <2>1 DEF Engine
  <2>4. SameBut(a.table, b.table, AddrKey(x, v)) /\ \A g \in Contents(b.table) : SameKey(AddrKey(x, v), g)
          => g = Free
    BY <2>2, <2>3, ChangeDoes
  <2>5. Free \notin Contents(b.table)
    BY DEF Contents
  <2>6. QED
    BY <2>4, <2>5 DEF b
<1>4. QED
  BY <1>2, <1>3

\* The groups of a VLAN go from the host port.
LEMMA FlushDoes ==
  ASSUME NEW a, Good(a), \A e \in Contents(a.table) : IsMcast(e) => e.mask = {HOST} /\ ~e.super, NEW v
  PROVE  Contents(FlushMulticast(a, {HOST}, {v}).table) =
           {e \in Contents(a.table) : ~(IsMcast(e) /\ e.vid = v /\ e.addr # BCAST)}
<1> DEFINE hit(e) == IsMcast(e) /\ e.vid \in {v} /\ ~e.super /\ e.addr # BCAST
           t == [k \in Slot |-> IF hit(a.table[k]) THEN FlushMcast(a.table[k], {HOST}) ELSE a.table[k]]
           b == FlushMulticast(a, {HOST}, {v})
<1>1. b.table = t
  BY DEF FlushMulticast, Good, Engine
<1>2. \A k \in Slot : a.table[k] # Free => a.table[k] \in Contents(a.table)
  BY DEF Contents
<1>3. ~IsMcast(Free)
  BY DEF IsMcast, Free
<1>4. \A k \in Slot : hit(a.table[k]) => FlushMcast(a.table[k], {HOST}) = Free
  <2>1. SUFFICES ASSUME NEW k \in Slot, hit(a.table[k]) PROVE FlushMcast(a.table[k], {HOST}) = Free
    OBVIOUS
  <2>2. a.table[k].mask = {HOST}
    BY <1>2, <1>3, <2>1
  <2>3. QED
    BY <2>2 DEF FlushMcast
<1>5. \A e \in Contents(a.table) : hit(e) <=> IsMcast(e) /\ e.vid = v /\ e.addr # BCAST
  OBVIOUS
<1>6. \A k \in Slot : t[k] = IF hit(a.table[k]) THEN Free ELSE a.table[k]
  BY <1>4
<1> HIDE DEF b, t, hit
<1>7. Contents(b.table) = {e \in Contents(a.table) : ~hit(e)}
  BY <1>1, <1>2, <1>6 DEF Contents
<1>8. QED
  BY <1>5, <1>7 DEF b

\* What a call that adds an entry of the driver's own does, and one that removes one.
Adds(a, b, key, e) ==
  /\ Sound(b) /\ b.ret \in {OK, ENOMEM} /\ Joined(b.table) = Joined(a.table)
  /\ b.ret = OK => Base(b.table) = But(Base(a.table), key) \cup {e}
  /\ b.ret # OK => Base(b.table) = Base(a.table)
Removes(a, b, key) ==
  /\ Sound(b) /\ Joined(b.table) = Joined(a.table)
  /\ Base(b.table) = But(Base(a.table), key)

\* A VLAN of an interface.
LEMMA VlanPut ==
  ASSUME NEW a, Sound(a), NEW i \in Ifc, NEW v \in Vids, v \in UserVids \/ v = PortVlan[i],
         NEW untag \in SUBSET Both(i), NEW unreg \in SUBSET Ports
  PROVE  Adds(a, AddVlan(a, v, Both(i), untag, Both(i), unreg), VlanKey(v),
              VlanEntry(v, Both(i), untag, Both(i), unreg))
<1> DEFINE b == AddVlan(a, v, Both(i), untag, Both(i), unreg)
           e == VlanEntry(v, Both(i), untag, Both(i), unreg)
<1>1. Good(b) /\ Comes(a, b, e)
  BY IfcFacts, AddVlanGood, AddVlanComes DEF Sound
<1>2. e.type = "vlan" /\ e.vid = v /\ e.members = Both(i)
  BY DEF VlanEntry
<1> HIDE DEF b, e
<1>3. SameKey(e, e) /\ ~OfGroup(e) /\ ~IsUcast(e) /\ ~IsMcast(e)
  BY <1>2 DEF SameKey, OfGroup, IsUcast, IsMcast
<1>4. ShapeOf(e)
  <2>1. \A j \in Ifc : v = PortVlan[j] => j = i
    BY PortVlanAssumption DEF UserVids
  <2>2. QED
    BY <1>2, <1>3, <2>1 DEF ShapeOf
<1>5. But(Base(a.table), e) = But(Base(a.table), VlanKey(v))
  BY <1>2 DEF But, SameKey, VlanKey
<1>6. Adds(a, b, VlanKey(v), e)
  BY <1>1, <1>3, <1>4, <1>5, OwnComes DEF Adds
<1>7. QED
  BY <1>6 DEF b, e

\* An address of an interface.
LEMMA UcastPut ==
  ASSUME NEW a, Sound(a), NEW x \in Stations, NEW s \in BOOLEAN, NEW v \in Vids
  PROVE  Adds(a, AddUcast(a, x, HOST, s, v), AddrKey(x, v), UcastEntry(x, v, HOST, s, "persistant"))
<1> DEFINE b == AddUcast(a, x, HOST, s, v)
           e == UcastEntry(x, v, HOST, s, "persistant")
<1>1. Good(b) /\ Comes(a, b, e)
  BY PortsAssumption, AddUcastGood, AddUcastComes DEF Sound
<1>2. e.type = "addr" /\ e.vid = v /\ e.addr = x /\ e.port = HOST /\ e.ucast = "persistant"
  BY DEF UcastEntry
<1> HIDE DEF b, e
<1>3. SameKey(e, e) /\ ~OfGroup(e) /\ ShapeOf(e)
  BY <1>2, GroupFacts DEF SameKey, OfGroup, IsMcast, ShapeOf
<1>4. But(Base(a.table), e) = But(Base(a.table), AddrKey(x, v))
  BY <1>2 DEF But, SameKey, AddrKey
<1>5. Adds(a, b, AddrKey(x, v), e)
  BY <1>1, <1>3, <1>4, OwnComes DEF Adds
<1>6. QED
  BY <1>5 DEF b, e

\* The mask that an entry for more ports begins with.
LEMMA MaskSound ==
  ASSUME NEW a, Sound(a), NEW x \in Groups, NEW v
  PROVE  MaskAt(a.table, x, v) \cup {HOST} = {HOST}
<1>1. \A e \in Contents(a.table) : SameKey(AddrKey(x, v), e) => e.mask = {HOST}
  BY DEF Sound, ShapeOf, SameKey, AddrKey, IsMcast
<1>2. QED
  BY <1>1 DEF MaskAt

\* Broadcast in a VLAN.
LEMMA BcastPut ==
  ASSUME NEW a, Sound(a), NEW v \in Vids
  PROVE  Adds(a, AddMcast(a, BCAST, {HOST}, FALSE, v), AddrKey(BCAST, v),
              McastEntry(BCAST, v, {HOST}, FALSE))
<1> DEFINE b == AddMcast(a, BCAST, {HOST}, FALSE, v)
           e == McastEntry(BCAST, v, {HOST}, FALSE)
<1>1. Good(b)
  <2>1. {HOST} \in SUBSET Ports /\ {HOST} # {}
    BY PortsAssumption
  <2>2. QED
    BY <2>1, GroupFacts, AddMcastGood DEF Sound
<1>2. Comes(a, b, e)
  <2>1. MaskAt(a.table, BCAST, v) \cup {HOST} = {HOST}
    BY GroupFacts, MaskSound
  <2>2. Comes(a, b, McastEntry(BCAST, v, MaskAt(a.table, BCAST, v) \cup {HOST}, FALSE))
    BY AddMcastComes DEF Sound
  <2>3. QED
    BY <2>1, <2>2
<1>3. e.type = "addr" /\ e.vid = v /\ e.addr = BCAST /\ e.mask = {HOST} /\ ~e.super
  BY DEF McastEntry
<1> HIDE DEF b, e
<1>4. SameKey(e, e) /\ ~OfGroup(e) /\ ShapeOf(e)
  BY <1>3, GroupFacts DEF SameKey, OfGroup, IsUcast, ShapeOf
<1>5. But(Base(a.table), e) = But(Base(a.table), AddrKey(BCAST, v))
  BY <1>3 DEF But, SameKey, AddrKey
<1>6. Adds(a, b, AddrKey(BCAST, v), e)
  BY <1>1, <1>2, <1>4, <1>5, OwnComes DEF Adds
<1>7. QED
  BY <1>6 DEF b, e

\* What goes with a VLAN.
LEMMA VlanGone ==
  ASSUME NEW a, Sound(a), NEW v \in Vids
  PROVE  Removes(a, DelVlan(a, v, {}), VlanKey(v))
<1>1. Good(DelVlan(a, v, {}))
  BY DelVlanGood DEF Sound
<1>2. ~OfGroup(VlanKey(v)) /\ SameKey(VlanKey(v), VlanKey(v))
  BY DEF OfGroup, VlanKey, SameKey
<1>3. QED
  BY <1>1, <1>2, DelVlanDoes, OwnGoes DEF Removes, Sound

\* An address of an interface goes.
LEMMA UcastGone ==
  ASSUME NEW a, Sound(a), NEW x \in Stations, NEW v \in Vids
  PROVE  Removes(a, DelUcast(a, x, v), AddrKey(x, v))
<1>1. Good(DelUcast(a, x, v))
  BY DelUcastGood DEF Sound
<1>2. ~OfGroup(AddrKey(x, v)) /\ SameKey(AddrKey(x, v), AddrKey(x, v))
  BY GroupFacts DEF OfGroup, AddrKey, SameKey
<1>3. QED
  BY <1>1, <1>2, DelUcastDoes, OwnGoes DEF Removes, Sound

\* Broadcast in a VLAN goes.
LEMMA BcastGone ==
  ASSUME NEW a, Sound(a), NEW v \in Vids
  PROVE  Removes(a, DelMcast(a, BCAST, {}, v), AddrKey(BCAST, v))
<1>1. Good(DelMcast(a, BCAST, {}, v))
  BY GroupFacts, DelMcastGood DEF Sound
<1>2. ~OfGroup(AddrKey(BCAST, v)) /\ SameKey(AddrKey(BCAST, v), AddrKey(BCAST, v))
  BY GroupFacts DEF OfGroup, AddrKey, SameKey
<1>3. QED
  BY <1>1, <1>2, DelGroupDoes, OwnGoes DEF Removes, Sound

\* The groups of a VLAN go.
OutOf(J, v) == {p \in J : p[2] # v}
Unflushed(B, v) == {f \in B : ~(IsMcast(f) /\ f.vid = v /\ f.addr # BCAST)}

\* cpsw_ale_flush_multicast of a VLAN whose entries are all for the host: its groups go.
LEMMA GroupsFlushed ==
  ASSUME NEW a, Sound(a), NEW v, NEW b, b = FlushMulticast(a, {HOST}, {v})
  PROVE  Sound(b) /\ Joined(b.table) = OutOf(Joined(a.table), v)
           /\ Base(b.table) = Unflushed(Base(a.table), v)
<1>1. Good(b)
  BY PortsAssumption, FlushGood DEF Sound
<1>2. Contents(b.table) = {e \in Contents(a.table) : ~(IsMcast(e) /\ e.vid = v /\ e.addr # BCAST)}
  BY FlushDoes DEF Sound, ShapeOf
<1>3. Sound(b)
  BY <1>1, <1>2 DEF Sound
<1>4. Joined(b.table) = OutOf(Joined(a.table), v)
  <2>1. \A e \in Contents(a.table), g \in McGroups :
          e.type = "addr" /\ e.addr = g => (e \in Contents(b.table) <=> e.vid # v)
    BY <1>2, GroupFacts DEF IsMcast
  <2>2. \A e \in Contents(b.table) : e \in Contents(a.table)
    BY <1>2
  <2>3. QED
    BY <2>1, <2>2 DEF Joined, OutOf
<1>5. Base(b.table) = Unflushed(Base(a.table), v)
  BY <1>2 DEF Base, Unflushed
<1>6. QED
  BY <1>3, <1>4, <1>5

\* IFF_ALLMULTI.
LEMMA AllmultiSound ==
  ASSUME NEW a, Sound(a), NEW i \in Ifc, NEW on \in BOOLEAN
  PROVE  LET b == SetAllmulti(a, on, i)
         IN /\ Sound(b) /\ Joined(b.table) = Joined(a.table)
            /\ Base(b.table) = {Flooding(e, on, i) : e \in Base(a.table)}
<1> DEFINE b == SetAllmulti(a, on, i)
<1>1. Good(b)
  BY IfcFacts, SetAllmultiGood DEF Sound
<1>2. Contents(b.table) = {Flooding(e, on, i) : e \in Contents(a.table)}
  BY AllmultiDoes DEF Sound
<1>3. \A e \in Contents(a.table) :
        /\ e.type # "vlan" => Flooding(e, on, i) = e
        /\ e.type = "vlan" => /\ Flooding(e, on, i).type = "vlan" /\ Flooding(e, on, i).vid = e.vid
                              /\ Flooding(e, on, i).members = e.members
  <2>1. SUFFICES ASSUME NEW e \in Contents(a.table), e.type = "vlan"
                 PROVE  /\ Flooding(e, on, i).type = "vlan" /\ Flooding(e, on, i).vid = e.vid
                        /\ Flooding(e, on, i).members = e.members
    BY DEF Flooding
  <2>2. e \in VlanEntries
    BY <2>1, KindIn DEF Sound
  <2>3. QED
    BY <2>1, <2>2 DEF Flooding, Reflood, VlanEntries
<1> HIDE DEF b
<1>4. Sound(b)
  <2>1. \A e \in Contents(a.table) : ShapeOf(Flooding(e, on, i))
    BY <1>3 DEF Sound, ShapeOf, IsUcast, IsMcast
  <2>2. QED
    BY <1>1, <1>2, <2>1 DEF Sound
<1>5. \A e \in Contents(a.table) : OfGroup(Flooding(e, on, i)) <=> OfGroup(e)
  BY <1>3 DEF OfGroup
<1>6. Base(b.table) = {Flooding(e, on, i) : e \in Base(a.table)}
  BY <1>2, <1>5 DEF Base
<1>7. \A f : OfGroup(f) => (f \in Contents(a.table) <=> f \in Contents(b.table))
  BY <1>2, <1>3, <1>5 DEF OfGroup
<1>8. Joined(b.table) = Joined(a.table)
  BY <1>7 DEF Joined, OfGroup
<1>9. QED
  BY <1>4, <1>6, <1>8 DEF b

-----------------------------------------------------------------------------
(* The VLANs of an interface.                                              *)

\* Entries that an interface with an address is given in some VLANs.
IsGiven(f, i, x, V) ==
  /\ f.vid \in V
  /\ f.type = "vlan" => f.members = Both(i)
  /\ f.type = "addr" => f.addr \in {x, BCAST}

\* Only those come, and the other VLANs are left alone.
SameElse(B, C, V) == \A f : f.vid \notin V => (f \in B <=> f \in C)
Given(B, C, i, x, V) ==
  /\ SameElse(B, C, V)
  /\ \A f \in C : f \in B \/ IsGiven(f, i, x, V)

\* What an interface is to have in a VLAN, see Served.
HasVlan(B, i, v) == \E e \in B : e.type = "vlan" /\ e.vid = v /\ e.members = Both(i)
HasAddr(B, x, v) == \E e \in B : e.type = "addr" /\ e.vid = v /\ e.addr = x /\ e.port = HOST
HasBcast(B, v) == \E e \in B : e.type = "addr" /\ e.vid = v /\ e.addr = BCAST /\ HOST \in e.mask
ServedIn(B, i, x, v) == HasVlan(B, i, v) /\ HasAddr(B, x, v) /\ HasBcast(B, v)
HasSecure(B, x, v) ==
  \E e \in B : e.type = "addr" /\ e.vid = v /\ e.addr = x /\ e.port = HOST /\ e.secure
FloodsTo(B, v, on) == \A e \in B : e.type = "vlan" /\ e.vid = v => (HOST \in e.unreg <=> on)

\* Without a call nothing comes.
LEMMA GivenSelf ==
  ASSUME NEW B, NEW i, NEW x, NEW V
  PROVE  Given(B, B, i, x, V)
BY DEF Given, SameElse

\* What two series of calls give is given in the VLANs of both.
LEMMA GivenTrans ==
  ASSUME NEW B, NEW C, NEW D, NEW i, NEW x, NEW V, NEW W, Given(B, C, i, x, V), Given(C, D, i, x, W)
  PROVE  Given(B, D, i, x, V \cup W)
<1>1. SameElse(B, D, V \cup W)
  BY DEF Given, SameElse
<1>2. \A f \in D : f \in B \/ IsGiven(f, i, x, V \cup W)
  BY DEF Given, IsGiven
<1>3. QED
  BY <1>1, <1>2 DEF Given

\* One of the entries comes.
LEMMA AddsGiven ==
  ASSUME NEW a, NEW b, NEW key, NEW e, Adds(a, b, key, e), NEW i, NEW x, NEW v,
         key.vid = v, IsGiven(e, i, x, {v})
  PROVE  Given(Base(a.table), Base(b.table), i, x, {v})
<1>1. \A f : SameKey(key, f) => f.vid = v
  BY DEF SameKey
<1>2. e.vid = v
  BY DEF IsGiven
<1>3. CASE b.ret = OK
  <2>1. Base(b.table) = But(Base(a.table), key) \cup {e}
    BY <1>3 DEF Adds
  <2>2. QED
    BY <1>1, <1>2, <2>1 DEF Given, SameElse, But
<1>4. CASE b.ret # OK
  BY <1>4, GivenSelf DEF Adds
<1>5. QED
  BY <1>3, <1>4

\* cpsw_add_vlan_ale_entry gives the interface all of the VLAN, or nothing comes.
VlanGiven(a, b, i, x, v, on) ==
  /\ Sound(b) /\ b.ret \in {OK, ENOMEM} /\ Joined(b.table) = Joined(a.table)
  /\ Given(Base(a.table), Base(b.table), i, x, {v})
  /\ b.ret # OK => Base(b.table) \subseteq Base(a.table)
  /\ b.ret = OK => ServedIn(Base(b.table), i, x, v) /\ FloodsTo(Base(b.table), v, on)

\* Calls that take away what has come.
LEMMA UndoGiven ==
  ASSUME NEW a, NEW b, NEW key, Removes(a, b, key), NEW i, NEW x, NEW v, key.vid = v
  PROVE  Given(Base(a.table), Base(b.table), i, x, {v})
BY DEF Removes, Given, SameElse, But, SameKey

\* cpsw_add_vlan_ale_entry, whichever of its calls fails.
LEMMA AddVlanAleEntryDoes ==
  ASSUME NEW a, Sound(a), NEW i \in Ifc, NEW v \in UserVids, mac[i] \in Stations
  PROVE  VlanGiven(a, AddVlanAleEntry(a, i, v), i, mac[i], v, i \in allmulti)
<1> DEFINE x == mac[i]
           un == IF i \in allmulti THEN {HOST} ELSE {}
           vlan == AddVlan(a, v, Both(i), {}, Both(i), un)
           ucast == AddUcast(vlan, x, HOST, FALSE, v)
           bcast == AddMcast(ucast, BCAST, {HOST}, FALSE, v)
           b == AddVlanAleEntry(a, i, v)
           e == VlanEntry(v, Both(i), {}, Both(i), un)
           f == UcastEntry(x, v, HOST, FALSE, "persistant")
           g == McastEntry(BCAST, v, {HOST}, FALSE)
           one == DelVlan(ucast, v, {})
           two == DelUcast(bcast, x, v)
           both == DelVlan(two, v, {})
           Failed(c) == [c EXCEPT !.ret = ENOMEM]
<1>1. v \in Vids /\ un \in SUBSET Ports /\ {} \in SUBSET Both(i) /\ x \in Stations
  BY IfcFacts DEF UserVids
<1>2. Adds(a, vlan, VlanKey(v), e)
  BY <1>1, VlanPut
<1>3. /\ e.type = "vlan" /\ e.vid = v /\ e.members = Both(i) /\ e.unreg = un
      /\ f.type = "addr" /\ f.vid = v /\ f.addr = x /\ f.port = HOST
      /\ g.type = "addr" /\ g.vid = v /\ g.addr = BCAST /\ HOST \in g.mask
  BY DEF VlanEntry, UcastEntry, McastEntry
<1>4. IsGiven(e, i, x, {v}) /\ IsGiven(f, i, x, {v}) /\ IsGiven(g, i, x, {v})
  BY <1>3 DEF IsGiven
<1>5. VlanKey(v).vid = v /\ AddrKey(x, v).vid = v /\ AddrKey(BCAST, v).vid = v
  BY DEF VlanKey, AddrKey
<1>6. b = IF vlan.ret # OK THEN vlan
          ELSE IF ucast.ret # OK THEN Failed(one)
          ELSE IF bcast.ret # OK THEN Failed(both)
          ELSE bcast
  BY DEF AddVlanAleEntry
<1> HIDE DEF vlan, x
<1>7. Adds(vlan, ucast, AddrKey(x, v), f)
  <2>1. Sound(vlan)
    BY <1>2 DEF Adds
  <2>2. QED
    BY <1>1, <2>1, UcastPut
<1> HIDE DEF ucast
<1>8. Adds(ucast, bcast, AddrKey(BCAST, v), g)
  <2>1. Sound(ucast)
    BY <1>7 DEF Adds
  <2>2. QED
    BY <1>1, <2>1, BcastPut
<1>9. Removes(ucast, one, VlanKey(v))
  <2>1. Sound(ucast)
    BY <1>7 DEF Adds
  <2>2. QED
    BY <1>1, <2>1, VlanGone
<1> HIDE DEF bcast
<1>10. Removes(bcast, two, AddrKey(x, v))
  <2>1. Sound(bcast)
    BY <1>8 DEF Adds
  <2>2. QED
    BY <1>1, <2>1, UcastGone
<1> HIDE DEF two
<1>11. Removes(two, both, VlanKey(v))
  <2>1. Sound(two)
    BY <1>10 DEF Removes
  <2>2. QED
    BY <1>1, <2>1, VlanGone
<1> HIDE DEF one, both, b, e, f, g, un
<1>12. \A c : Sound(c) => Sound(Failed(c)) /\ Failed(c).table = c.table /\ Failed(c).ret = ENOMEM
  <2>1. SUFFICES ASSUME NEW c, Sound(c) PROVE Sound(Failed(c)) /\ Failed(c).table = c.table
                        /\ Failed(c).ret = ENOMEM
    OBVIOUS
  <2>2. Good(Failed(c))
    BY <2>1, RetGood DEF Sound
  <2>3. Failed(c).table = c.table /\ Failed(c).ret = ENOMEM
    BY <2>1 DEF Sound, Good, Engine
  <2>4. QED
    BY <2>1, <2>2, <2>3 DEF Sound
<1> HIDE DEF Failed
<1>13. CASE vlan.ret # OK
  <2>1. b = vlan
    BY <1>6, <1>13
  <2>2. QED
    BY <1>2, <1>13, <2>1, GivenSelf DEF VlanGiven, Adds, x, b
<1>14. CASE vlan.ret = OK /\ ucast.ret # OK
  <2>1. b = Failed(one)
    BY <1>6, <1>14
  <2>2. Sound(b) /\ b.table = one.table /\ b.ret = ENOMEM
    BY <1>9, <1>12, <2>1 DEF Removes
  <2>3. Base(vlan.table) = But(Base(a.table), VlanKey(v)) \cup {e} /\ Base(ucast.table) = Base(vlan.table)
    BY <1>2, <1>7, <1>14 DEF Adds
  <2>4. SameKey(VlanKey(v), e)
    BY <1>3 DEF SameKey, VlanKey
  <2>5. Base(b.table) = But(Base(a.table), VlanKey(v))
    BY <1>9, <2>2, <2>3, <2>4 DEF Removes, But
  <2>6. Joined(b.table) = Joined(a.table)
    BY <1>2, <1>7, <1>9, <2>2 DEF Adds, Removes
  <2>7. Given(Base(a.table), Base(b.table), i, x, {v})
    BY <1>5, <2>5 DEF Given, SameElse, But, SameKey
  <2>8. VlanGiven(a, b, i, x, v, i \in allmulti)
    BY <2>2, <2>5, <2>6, <2>7, RetDiffer DEF VlanGiven, But
  <2>9. QED
    BY <2>8 DEF b, x
<1>15. CASE vlan.ret = OK /\ ucast.ret = OK /\ bcast.ret # OK
  <2>1. b = Failed(both)
    BY <1>6, <1>15
  <2>2. Sound(b) /\ b.table = both.table /\ b.ret = ENOMEM
    BY <1>11, <1>12, <2>1 DEF Removes
  <2>3. /\ Base(vlan.table) = But(Base(a.table), VlanKey(v)) \cup {e}
        /\ Base(ucast.table) = But(Base(vlan.table), AddrKey(x, v)) \cup {f}
        /\ Base(bcast.table) = Base(ucast.table)
        /\ Base(two.table) = But(Base(bcast.table), AddrKey(x, v))
        /\ Base(both.table) = But(Base(two.table), VlanKey(v))
    BY <1>2, <1>7, <1>8, <1>10, <1>11, <1>15 DEF Adds, Removes
  <2>4. SameKey(VlanKey(v), e) /\ SameKey(AddrKey(x, v), f)
    BY <1>3 DEF SameKey, VlanKey, AddrKey
  <2>5. Base(b.table) = But(But(Base(a.table), AddrKey(x, v)), VlanKey(v))
    BY <2>2, <2>3, <2>4 DEF But
  <2>6. Joined(b.table) = Joined(a.table)
    BY <1>2, <1>7, <1>8, <1>10, <1>11, <2>2 DEF Adds, Removes
  <2>7. Given(Base(a.table), Base(b.table), i, x, {v})
    BY <1>5, <2>5 DEF Given, SameElse, But, SameKey
  <2>8. VlanGiven(a, b, i, x, v, i \in allmulti)
    BY <2>2, <2>5, <2>6, <2>7, RetDiffer DEF VlanGiven, But
  <2>9. QED
    BY <2>8 DEF b, x
<1>16. CASE vlan.ret = OK /\ ucast.ret = OK /\ bcast.ret = OK
  <2>1. b = bcast
    BY <1>6, <1>16
  <2>2. /\ Base(vlan.table) = But(Base(a.table), VlanKey(v)) \cup {e}
        /\ Base(ucast.table) = But(Base(vlan.table), AddrKey(x, v)) \cup {f}
        /\ Base(bcast.table) = But(Base(ucast.table), AddrKey(BCAST, v)) \cup {g}
    BY <1>2, <1>7, <1>8, <1>16 DEF Adds
  <2>3. x # BCAST
    BY <1>1, GroupFacts
  <2>4. ~SameKey(AddrKey(x, v), e) /\ ~SameKey(AddrKey(BCAST, v), e) /\ ~SameKey(AddrKey(BCAST, v), f)
    BY <1>3, <2>3 DEF SameKey, AddrKey
  <2>5. e \in Base(b.table) /\ f \in Base(b.table) /\ g \in Base(b.table)
    BY <2>1, <2>2, <2>4 DEF But
  <2>6. ServedIn(Base(b.table), i, x, v)
    BY <1>3, <2>5 DEF ServedIn, HasVlan, HasAddr, HasBcast
  <2>7. \A k \in Base(b.table) : k.type = "vlan" /\ k.vid = v => k = e
    BY <1>3, <2>1, <2>2 DEF But, SameKey, VlanKey
  <2>8. FloodsTo(Base(b.table), v, i \in allmulti)
    BY <1>3, <2>7 DEF FloodsTo, un
  <2>9. Given(Base(a.table), Base(b.table), i, x, {v})
    <3>1. /\ Given(Base(a.table), Base(vlan.table), i, x, {v})
          /\ Given(Base(vlan.table), Base(ucast.table), i, x, {v})
          /\ Given(Base(ucast.table), Base(bcast.table), i, x, {v})
      BY <1>2, <1>4, <1>5, <1>7, <1>8, AddsGiven
    <3>2. {v} \cup {v} = {v}
      OBVIOUS
    <3>3. QED
      BY <2>1, <3>1, <3>2, GivenTrans
  <2>10. Sound(b) /\ b.ret = OK /\ Joined(b.table) = Joined(a.table)
    BY <1>2, <1>7, <1>8, <1>16, <2>1 DEF Adds
  <2>11. VlanGiven(a, b, i, x, v, i \in allmulti)
    BY <2>6, <2>8, <2>9, <2>10 DEF VlanGiven
  <2>12. QED
    BY <2>11 DEF b, x
<1>17. QED
  BY <1>13, <1>14, <1>15, <1>16

-----------------------------------------------------------------------------
(* A port, and the table before the first one.                             *)

\* What cpsw_ndo_vlan_rx_kill_vid leaves of a VLAN.
LEMMA KillVlanDoes ==
  ASSUME NEW a, Sound(a), NEW i \in Ifc, NEW v \in Vids, mac[i] \in Stations,
         NEW b, b = KillVlan(a, i, v)
  PROVE  /\ Sound(b) /\ Joined(b.table) = OutOf(Joined(a.table), v)
         /\ Base(b.table) \subseteq Base(a.table)
         /\ SameElse(Base(a.table), Base(b.table), {v})
         /\ \A f \in Base(b.table) : f.vid = v => IsUcast(f) /\ f.addr # mac[i]
<1> DEFINE x == mac[i]
           one == DelVlan(a, v, {})
           two == DelUcast(one, x, v)
           three == DelMcast(two, BCAST, {}, v)
<1>1. x \in Stations
  OBVIOUS
<1>2. b = FlushMulticast(three, {HOST}, {v})
  BY DEF KillVlan
<1>3. Removes(a, one, VlanKey(v))
  BY VlanGone
<1> HIDE DEF one, x
<1>4. Removes(one, two, AddrKey(x, v))
  <2>1. Sound(one)
    BY <1>3 DEF Removes
  <2>2. QED
    BY <1>1, <2>1, UcastGone
<1> HIDE DEF two
<1>5. Removes(two, three, AddrKey(BCAST, v))
  <2>1. Sound(two)
    BY <1>4 DEF Removes
  <2>2. QED
    BY <2>1, BcastGone
<1> HIDE DEF three
<1>6. /\ Sound(b) /\ Joined(b.table) = OutOf(Joined(three.table), v)
      /\ Base(b.table) = Unflushed(Base(three.table), v)
  <2>1. Sound(three)
    BY <1>5 DEF Removes
  <2>2. QED
    BY <1>2, <2>1, GroupsFlushed
<1>7. Base(three.table) = But(But(But(Base(a.table), VlanKey(v)), AddrKey(x, v)), AddrKey(BCAST, v))
  BY <1>3, <1>4, <1>5 DEF Removes
<1>8. Joined(three.table) = Joined(a.table)
  BY <1>3, <1>4, <1>5 DEF Removes
<1>9. Base(b.table) \subseteq Base(a.table) /\ SameElse(Base(a.table), Base(b.table), {v})
  BY <1>6, <1>7 DEF But, SameKey, VlanKey, AddrKey, SameElse, Unflushed
<1>10. ASSUME NEW f \in Base(b.table), f.vid = v PROVE IsUcast(f) /\ f.addr # x
  <2>1. f.type \in {"vlan", "addr"}
    BY <1>6, KindIn DEF Sound, Base
  <2>2. ~SameKey(VlanKey(v), f) /\ ~SameKey(AddrKey(x, v), f) /\ ~SameKey(AddrKey(BCAST, v), f)
    BY <1>6, <1>7 DEF But, Unflushed
  <2>3. f.type = "addr" /\ f.addr # x /\ f.addr # BCAST
    BY <1>10, <2>1, <2>2 DEF SameKey, VlanKey, AddrKey
  <2>4. QED
    BY <1>6, <1>10, <2>3 DEF IsMcast, IsUcast, Unflushed
<1>11. QED
  BY <1>6, <1>8, <1>9, <1>10 DEF x

\* What a port is given for itself.
LEMMA DualDoes ==
  ASSUME NEW a, Sound(a), NEW i \in Ifc, NEW x \in Stations, NEW b, b = DualEntries(a, i, x)
  PROVE  /\ Sound(b) /\ b.ret \in {OK, ENOMEM} /\ Joined(b.table) = Joined(a.table)
         /\ Given(Base(a.table), Base(b.table), i, x, {PortVlan[i]})
         /\ b.ret = OK => ServedIn(Base(b.table), i, x, PortVlan[i])
              /\ HasSecure(Base(b.table), x, PortVlan[i])
<1> DEFINE v == PortVlan[i]
           vlan == AddVlan(a, v, Both(i), Both(i), Both(i), {})
           bcast == AddMcast(vlan, BCAST, {HOST}, FALSE, v)
           ucast == AddUcast(bcast, x, HOST, TRUE, v)
           e == VlanEntry(v, Both(i), Both(i), Both(i), {})
           g == McastEntry(BCAST, v, {HOST}, FALSE)
           f == UcastEntry(x, v, HOST, TRUE, "persistant")
<1>1. v \in Vids
  BY IfcFacts
<1>2. Adds(a, vlan, VlanKey(v), e)
  BY IfcFacts, VlanPut
<1>3. /\ e.type = "vlan" /\ e.vid = v /\ e.members = Both(i)
      /\ f.type = "addr" /\ f.vid = v /\ f.addr = x /\ f.port = HOST /\ f.secure
      /\ g.type = "addr" /\ g.vid = v /\ g.addr = BCAST /\ HOST \in g.mask
  BY DEF VlanEntry, UcastEntry, McastEntry
<1>4. IsGiven(e, i, x, {v}) /\ IsGiven(f, i, x, {v}) /\ IsGiven(g, i, x, {v})
  BY <1>3 DEF IsGiven
<1>5. VlanKey(v).vid = v /\ AddrKey(x, v).vid = v /\ AddrKey(BCAST, v).vid = v
  BY DEF VlanKey, AddrKey
<1>6. b = Then(Then(vlan, bcast), ucast)
  BY DEF DualEntries
<1> HIDE DEF vlan, v
<1>7. Adds(vlan, bcast, AddrKey(BCAST, v), g)
  <2>1. Sound(vlan)
    BY <1>2 DEF Adds
  <2>2. QED
    BY <1>1, <2>1, BcastPut
<1> HIDE DEF bcast
<1>8. Adds(bcast, ucast, AddrKey(x, v), f)
  <2>1. Sound(bcast)
    BY <1>7 DEF Adds
  <2>2. QED
    BY <1>1, <2>1, UcastPut
<1> HIDE DEF ucast, e, f, g
<1>9. /\ Good(b) /\ b.table = ucast.table /\ b.ret \in {OK, ENOMEM}
      /\ (b.ret = OK => vlan.ret = OK /\ bcast.ret = OK /\ ucast.ret = OK)
  <2>1. Good(bcast) /\ Good(ucast) /\ vlan.ret \in {OK, ENOMEM} /\ bcast.ret \in {OK, ENOMEM}
          /\ ucast.ret \in {OK, ENOMEM}
    BY <1>2, <1>7, <1>8 DEF Adds, Sound
  <2> DEFINE c == Then(vlan, bcast)
  <2>2. c.ret = (IF vlan.ret = OK THEN bcast.ret ELSE vlan.ret)
    BY <2>1, ThenDoes DEF Rets
  <2>3. b = Then(c, ucast)
    BY <1>6
  <2> HIDE DEF c
  <2>4. c.ret \in Rets
    BY <2>1, <2>2 DEF Rets
  <2>5. Good(b) /\ b.table = ucast.table /\ b.ret = (IF c.ret = OK THEN ucast.ret ELSE c.ret)
    BY <2>1, <2>3, <2>4, ThenDoes
  <2>6. QED
    BY <2>1, <2>2, <2>5
<1>10. Sound(b) /\ Joined(b.table) = Joined(a.table)
  BY <1>2, <1>7, <1>8, <1>9 DEF Adds, Sound
<1>11. Given(Base(a.table), Base(b.table), i, x, {v})
  <2>1. /\ Given(Base(a.table), Base(vlan.table), i, x, {v})
        /\ Given(Base(vlan.table), Base(bcast.table), i, x, {v})
        /\ Given(Base(bcast.table), Base(ucast.table), i, x, {v})
    BY <1>2, <1>4, <1>5, <1>7, <1>8, AddsGiven
  <2>2. {v} \cup {v} = {v}
    OBVIOUS
  <2>3. QED
    BY <1>9, <2>1, <2>2, GivenTrans
<1>12. ASSUME b.ret = OK PROVE ServedIn(Base(b.table), i, x, v) /\ HasSecure(Base(b.table), x, v)
  <2>1. /\ Base(vlan.table) = But(Base(a.table), VlanKey(v)) \cup {e}
        /\ Base(bcast.table) = But(Base(vlan.table), AddrKey(BCAST, v)) \cup {g}
        /\ Base(ucast.table) = But(Base(bcast.table), AddrKey(x, v)) \cup {f}
    BY <1>2, <1>7, <1>8, <1>9, <1>12 DEF Adds
  <2>2. x # BCAST
    BY GroupFacts
  <2>3. ~SameKey(AddrKey(x, v), e) /\ ~SameKey(AddrKey(BCAST, v), e) /\ ~SameKey(AddrKey(x, v), g)
    BY <1>3, <2>2 DEF SameKey, AddrKey
  <2>4. e \in Base(b.table) /\ f \in Base(b.table) /\ g \in Base(b.table)
    BY <1>9, <2>1, <2>3 DEF But
  <2>5. QED
    BY <1>3, <2>4 DEF ServedIn, HasVlan, HasAddr, HasBcast, HasSecure
<1>13. QED
  BY <1>9, <1>10, <1>11, <1>12 DEF v

\* The table without its contents.
LEMMA ClearSound ==
  ASSUME NEW a, Sound(a)
  PROVE  Sound(Clear(a)) /\ Base(Clear(a).table) = {} /\ Joined(Clear(a).table) = {} /\ Clear(a).ret = a.ret
<1>1. Good(Clear(a)) /\ Contents(Clear(a).table) = {}
  BY ClearGood, ClearDoes DEF Sound
<1>2. Clear(a).ret = a.ret
  BY DEF Clear, Sound, Good, Engine
<1>3. QED
  BY <1>1, <1>2 DEF Sound, Base, Joined

\* The table before the first interface is opened.
LEMMA HostDoes ==
  ASSUME NEW a, Sound(a), NEW b, b = HostPortDual(Clear(a))
  PROVE  /\ Sound(b) /\ Joined(b.table) = {}
         /\ \A f \in Base(b.table) : f.vid = 0
<1> DEFINE c == Clear(a)
           e == VlanEntry(0, Ports, Ports, {}, {})
<1>1. b = AddVlan(c, 0, Ports, Ports, {}, {})
  BY DEF HostPortDual
<1>2. Sound(c) /\ Base(c.table) = {} /\ Joined(c.table) = {}
  BY ClearSound
<1> HIDE DEF c
<1>3. Good(b) /\ Comes(c, b, e)
  <2>1. 0 \in Vids /\ Ports \in SUBSET Ports /\ Ports # {} /\ {} \in SUBSET Ports
    BY VidsAssumption, PortsAssumption
  <2>2. QED
    BY <1>1, <1>2, <2>1, AddVlanGood, AddVlanComes DEF Sound
<1>4. e.type = "vlan" /\ e.vid = 0
  BY DEF VlanEntry
<1> HIDE DEF e
<1>5. SameKey(e, e) /\ ~OfGroup(e) /\ ShapeOf(e)
  BY <1>4, IfcFacts DEF SameKey, OfGroup, IsUcast, IsMcast, ShapeOf
<1>6. /\ Sound(b) /\ Joined(b.table) = Joined(c.table)
      /\ b.ret = OK => Base(b.table) = But(Base(c.table), e) \cup {e}
      /\ b.ret # OK => Base(b.table) = Base(c.table)
  BY <1>2, <1>3, <1>5, OwnComes
<1>7. QED
  BY <1>2, <1>4, <1>6 DEF But

-----------------------------------------------------------------------------
(* Addresses and groups, one at a time.                                    *)

\* The address of an interface moves, and nothing else.
LEMMA NewMacDoes ==
  ASSUME NEW a, Sound(a), NEW i \in Ifc, mac[i] \in Stations, NEW x \in Stations, NEW b, b = NewMac(a, i, x)
  PROVE  /\ Sound(b) /\ b.ret \in {OK, ENOMEM} /\ Joined(b.table) = Joined(a.table)
         /\ \A f : ~(f.type = "addr" /\ f.vid = PortVlan[i] /\ f.addr \in Stations) =>
              (f \in Base(a.table) <=> f \in Base(b.table))
         /\ b.ret = OK => HasSecure(Base(b.table), x, PortVlan[i])
<1> DEFINE v == PortVlan[i]
           y == mac[i]
           c == DelUcast(a, y, v)
           e == UcastEntry(x, v, HOST, TRUE, "persistant")
<1>1. v \in Vids /\ y \in Stations
  BY IfcFacts
<1>2. b = AddUcast(c, x, HOST, TRUE, v)
  BY DEF NewMac
<1> HIDE DEF v, y
<1>3. Removes(a, c, AddrKey(y, v))
  BY <1>1, UcastGone
<1> HIDE DEF c
<1>4. Adds(c, b, AddrKey(x, v), e)
  <2>1. Sound(c)
    BY <1>3 DEF Removes
  <2>2. QED
    BY <1>1, <1>2, <2>1, UcastPut
<1>5. e.type = "addr" /\ e.vid = v /\ e.addr = x /\ e.port = HOST /\ e.secure
  BY DEF UcastEntry
<1> HIDE DEF e
<1>6. Sound(b) /\ b.ret \in {OK, ENOMEM} /\ Joined(b.table) = Joined(a.table)
  BY <1>3, <1>4 DEF Adds, Removes
<1>7. Base(c.table) = But(Base(a.table), AddrKey(y, v))
  BY <1>3 DEF Removes
<1>8. \A f : SameKey(AddrKey(y, v), f) \/ SameKey(AddrKey(x, v), f) =>
               f.type = "addr" /\ f.vid = v /\ f.addr \in Stations
  BY <1>1 DEF SameKey, AddrKey
<1>9. CASE b.ret = OK
  <2>1. Base(b.table) = But(Base(c.table), AddrKey(x, v)) \cup {e}
    BY <1>4, <1>9 DEF Adds
  <2>2. \A f : ~(f.type = "addr" /\ f.vid = v /\ f.addr \in Stations) =>
              (f \in Base(a.table) <=> f \in Base(b.table))
    BY <1>5, <1>7, <1>8, <2>1 DEF But
  <2>3. HasSecure(Base(b.table), x, v)
    BY <1>5, <2>1 DEF HasSecure
  <2>4. QED
    BY <1>6, <2>2, <2>3 DEF v
<1>10. CASE b.ret # OK
  <2>1. Base(b.table) = Base(c.table)
    BY <1>4, <1>10 DEF Adds
  <2>2. \A f : ~(f.type = "addr" /\ f.vid = v /\ f.addr \in Stations) =>
              (f \in Base(a.table) <=> f \in Base(b.table))
    BY <1>7, <1>8, <2>1 DEF But
  <2>3. QED
    BY <1>6, <1>10, <2>2 DEF v
<1>11. QED
  BY <1>9, <1>10

\* The result of a call is not part of the table.
LEMMA RetSound ==
  ASSUME NEW a, Sound(a)
  PROVE  Sound([a EXCEPT !.ret = OK]) /\ [a EXCEPT !.ret = OK].table = a.table
           /\ [a EXCEPT !.ret = OK].ret = OK
<1>1. Good([a EXCEPT !.ret = OK])
  BY RetGood DEF Sound
<1>2. [a EXCEPT !.ret = OK].table = a.table /\ [a EXCEPT !.ret = OK].ret = OK
  BY DEF Sound, Good, Engine
<1>3. QED
  BY <1>1, <1>2 DEF Sound

\* The entry of a group comes to a VLAN, and goes.
GroupAdds(a, b, g, v) ==
  /\ Sound(b) /\ b.ret \in {OK, ENOMEM} /\ Base(b.table) = Base(a.table)
  /\ b.ret = OK => Joined(b.table) = Joined(a.table) \cup {<<g, v>>}
  /\ b.ret # OK => Joined(b.table) = Joined(a.table)

\* A group is added in a VLAN.
LEMMA GroupPut ==
  ASSUME NEW a, Sound(a), NEW g \in McGroups, NEW v \in Vids, NEW b, b = AddMcast(a, g, {HOST}, FALSE, v)
  PROVE  GroupAdds(a, b, g, v)
<1> DEFINE e == McastEntry(g, v, {HOST}, FALSE)
<1>1. Good(b)
  <2>1. {HOST} \in SUBSET Ports /\ {HOST} # {}
    BY PortsAssumption
  <2>2. QED
    BY <2>1, GroupFacts, AddMcastGood DEF Sound
<1>2. Comes(a, b, e)
  <2>1. MaskAt(a.table, g, v) \cup {HOST} = {HOST}
    BY GroupFacts, MaskSound
  <2>2. Comes(a, b, McastEntry(g, v, MaskAt(a.table, g, v) \cup {HOST}, FALSE))
    BY AddMcastComes DEF Sound
  <2>3. QED
    BY <2>1, <2>2
<1>3. e.type = "addr" /\ e.vid = v /\ e.addr = g /\ e.mask = {HOST} /\ ~e.super
  BY DEF McastEntry
<1> HIDE DEF e
<1>4. OfGroup(e) /\ ShapeOf(e)
  BY <1>3, GroupFacts DEF OfGroup, IsUcast, ShapeOf
<1>5. CASE b.ret # OK
  BY <1>1, <1>2, <1>5 DEF Comes, Sound, GroupAdds
<1>6. CASE b.ret = OK
  <2>1. e \in Contents(b.table) /\ SameBut(a.table, b.table, e)
    BY <1>2, <1>6 DEF Comes
  <2>2. \A f : ~SameKey(e, f) => (f \in Contents(a.table) <=> f \in Contents(b.table))
    BY <2>1, SoundKept
  <2>3. \A f \in Contents(b.table) : SameKey(e, f) => f = e
    BY <1>1, <2>1, UniqueIn
  <2>4. Sound(b)
    BY <1>1, <1>4, <2>2, <2>3 DEF Sound
  <2>5. \A f : SameKey(e, f) => OfGroup(f) /\ f.addr = g /\ f.vid = v
    BY <1>3 DEF SameKey, OfGroup
  <2>6. Base(b.table) = Base(a.table)
    BY <2>2, <2>5 DEF Base
  <2>7. \A p \in McGroups \X Vids : p[1] = g /\ p[2] = v => p = <<g, v>>
    OBVIOUS
  <2>8. \A f : ~SameKey(e, f) /\ f.type = "addr" => f.addr # g \/ f.vid # v
    BY <1>3 DEF SameKey
  <2>9. Joined(b.table) = Joined(a.table) \cup {<<g, v>>}
    <3>1. <<g, v>> \in Joined(b.table)
      BY <1>3, <2>1 DEF Joined
    <3>2. ASSUME NEW p \in McGroups \X Vids, p # <<g, v>>
          PROVE  p \in Joined(b.table) <=> p \in Joined(a.table)
      BY <2>2, <2>5, <2>7, <3>2 DEF Joined
    <3>3. Joined(b.table) \subseteq McGroups \X Vids /\ Joined(a.table) \subseteq McGroups \X Vids
      BY DEF Joined
    <3>4. QED
      BY <3>1, <3>2, <3>3
  <2>10. QED
    BY <1>6, <2>4, <2>6, <2>9 DEF GroupAdds
<1>7. QED
  BY <1>5, <1>6

\* A group is deleted in a VLAN.
LEMMA GroupGone ==
  ASSUME NEW a, Sound(a), NEW g \in McGroups, NEW v \in Vids, NEW b, b = DelMcast(a, g, {}, v)
  PROVE  Sound(b) /\ Base(b.table) = Base(a.table) /\ Joined(b.table) = Joined(a.table) \ {<<g, v>>}
<1> DEFINE key == AddrKey(g, v)
<1>1. Good(b) /\ SameBut(a.table, b.table, key) /\ \A f \in Contents(b.table) : ~SameKey(key, f)
  BY GroupFacts, DelMcastGood, DelGroupDoes DEF Sound
<1>2. \A f : SameKey(key, f) <=> f.type = "addr" /\ f.addr = g /\ f.vid = v
  BY DEF SameKey, AddrKey
<1> HIDE DEF key
<1>3. \A f : ~SameKey(key, f) => (f \in Contents(a.table) <=> f \in Contents(b.table))
  BY <1>1, SoundKept
<1>4. Sound(b)
  BY <1>1, <1>3 DEF Sound
<1>5. Base(b.table) = Base(a.table)
  BY <1>2, <1>3 DEF Base, OfGroup
<1>6. Joined(b.table) = Joined(a.table) \ {<<g, v>>}
  <2>1. <<g, v>> \notin Joined(b.table)
    BY <1>1, <1>2 DEF Joined
  <2>2. ASSUME NEW p \in McGroups \X Vids, p # <<g, v>>
        PROVE  p \in Joined(b.table) <=> p \in Joined(a.table)
    <3>1. p[1] # g \/ p[2] # v
      BY <2>2
    <3>2. QED
      BY <1>2, <1>3, <3>1 DEF Joined
  <2>3. Joined(b.table) \subseteq McGroups \X Vids /\ Joined(a.table) \subseteq McGroups \X Vids
    BY DEF Joined
  <2>4. QED
    BY <2>1, <2>2, <2>3
<1>7. QED
  BY <1>4, <1>5, <1>6

\* The sound engines as a set.
SoundOnes == {e \in Engine : Sound(e)}

\* The members of that set.
LEMMA SoundOne ==
  ASSUME NEW a
  PROVE  a \in SoundOnes <=> Sound(a)
BY DEF SoundOnes, Sound, Good

-----------------------------------------------------------------------------
(* Loops over VLANs and groups.                                            *)

\* The steps of the loop.
IsDelFold(h, a, g, V) ==
  /\ DelFrom(a, g, V) = h[V]
  /\ h[{}] = a
  /\ \A s \in SUBSET V : s # {} => h[s] = DelMcast(h[s \ {Pick(s)}], g, {}, Pick(s))

\* The entries of a group go from some VLANs, one after the other.
LEMMA DelFold ==
  ASSUME NEW a, Sound(a), NEW g \in McGroups, NEW V \in SUBSET Vids
  PROVE  \E h : IsDelFold(h, a, g, V)
<1> DEFINE Step(k, s) == IF s = {} THEN a ELSE DelMcast(k[s \ {Pick(s)}], g, {}, Pick(s))
           G == [q \in V \X SoundOnes |-> DelMcast(q[2], g, {}, q[1])]
           h == CHOOSE k : k = [s \in SUBSET V |-> Step(k, s)]
<1>1. DelFrom(a, g, V) = h[V]
  BY DEF DelFrom, FoldSet, MapThenFoldSet, Pick
<1>2. G \in [V \X SoundOnes -> SoundOnes]
  <2>1. SUFFICES ASSUME NEW v \in V, NEW b \in SoundOnes PROVE DelMcast(b, g, {}, v) \in SoundOnes
    OBVIOUS
  <2>2. QED
    BY <2>1, SoundOne, GroupGone
<1>3. IsFiniteSet(V)
  BY FiniteAssumption, FS_Subset
<1>4. a \in SoundOnes
  BY SoundOne
<1>5. PICK k : IsFold(k, V, SoundOnes, a, G)
  <2> HIDE DEF G
  <2>1. QED
    BY <1>2, <1>3, <1>4, FoldExists
<1>6. \A s \in SUBSET V : k[s] = Step(k, s)
  <2>1. SUFFICES ASSUME NEW s \in SUBSET V, s # {} PROVE k[s] = Step(k, s)
    BY <1>5 DEF IsFold, FoldStep
  <2>2. Pick(s) \in V /\ k[s \ {Pick(s)}] \in SoundOnes
    BY <1>5, <2>1, PickIn DEF IsFold
  <2>3. k[s] = G[<<Pick(s), k[s \ {Pick(s)}]>>]
    BY <1>5, <2>1 DEF IsFold, FoldStep
  <2>4. QED
    BY <2>1, <2>2, <2>3
<1>7. k = [s \in SUBSET V |-> Step(k, s)]
  <2> HIDE DEF Step
  <2>1. QED
    BY <1>5, <1>6 DEF IsFold
<1>8. h = [s \in SUBSET V |-> Step(h, s)]
  <2> HIDE DEF Step
  <2>1. QED
    BY <1>7
<1>9. \A s \in SUBSET V : h[s] = Step(h, s)
  <2> HIDE DEF Step, h
  <2>1. QED
    BY <1>8
<1> HIDE DEF h
<1>10. IsDelFold(h, a, g, V)
  BY <1>1, <1>9 DEF IsDelFold
<1>11. QED
  BY <1>10

\* A group goes from some VLANs.
LEMMA DelFromDoes ==
  ASSUME NEW a, Sound(a), NEW g \in McGroups, NEW V \in SUBSET Vids, NEW b, b = DelFrom(a, g, V)
  PROVE  Sound(b) /\ Base(b.table) = Base(a.table) /\ Joined(b.table) = Joined(a.table) \ ({g} \X V)
<1>1. PICK h : IsDelFold(h, a, g, V)
  BY DelFold
<1> DEFINE P == {s \in SUBSET V : /\ Sound(h[s]) /\ Base(h[s].table) = Base(a.table)
                                  /\ Joined(h[s].table) = Joined(a.table) \ ({g} \X s)}
<1>2. {} \in P
  BY <1>1 DEF IsDelFold
<1>3. ASSUME NEW s \in SUBSET V, s # {}, s \ {Pick(s)} \in P PROVE s \in P
  <2> DEFINE c == h[s \ {Pick(s)}]
             v == Pick(s)
  <2>1. h[s] = DelMcast(c, g, {}, v)
    BY <1>1, <1>3 DEF IsDelFold
  <2>2. Sound(c) /\ Base(c.table) = Base(a.table) /\ Joined(c.table) = Joined(a.table) \ ({g} \X (s \ {v}))
    BY <1>3
  <2>3. v \in s /\ v \in Vids
    BY <1>3, PickIn
  <2> HIDE DEF c, v
  <2>4. Sound(h[s]) /\ Base(h[s].table) = Base(c.table) /\ Joined(h[s].table) = Joined(c.table) \ {<<g, v>>}
    BY <2>1, <2>2, <2>3, GroupGone
  <2>5. Joined(h[s].table) = Joined(a.table) \ ({g} \X s)
    BY <2>2, <2>3, <2>4
  <2>6. QED
    BY <2>2, <2>4, <2>5
<1> HIDE DEF P
<1>4. IsFiniteSet(V)
  BY FiniteAssumption, FS_Subset
<1>5. \A s \in SUBSET V : s \in P
  BY <1>2, <1>3, <1>4, FoldInduction
<1>6. V \in P
  BY <1>5
<1>7. b = h[V]
  BY <1>1 DEF IsDelFold
<1>8. QED
  BY <1>6, <1>7 DEF P

\* The VLANs in which the users of an interface are.
Vid(i, u) == IF u = 0 THEN PortVlan[i] ELSE u
VidsOf(i, U) == {Vid(i, u) : u \in U}

\* Every set of VLANs is finite.
LEMMA FiniteVids ==
  ASSUME NEW S \in SUBSET Vids
  PROVE  IsFiniteSet(S) /\ Cardinality(S) \in Nat /\ (Cardinality(S \ {0}) < Cardinality(S) <=> 0 \in S)
<1>1. IsFiniteSet(S)
  BY FiniteAssumption, FS_Subset
<1>2. Cardinality(S) \in Nat
  BY <1>1, FS_CardinalityType
<1>3. Cardinality(S \ {0}) = IF 0 \in S THEN Cardinality(S) - 1 ELSE Cardinality(S)
  BY <1>1, FS_RemoveElement
<1>4. QED
  BY <1>1, <1>2, <1>3

\* cpsw_del_mc_addr takes the group from those that do not use it.
McTaken(a, b, i, g, usr) ==
  /\ Sound(b) /\ Base(b.table) = Base(a.table)
  /\ Joined(b.table) = Joined(a.table) \ ({g} \X VidsOf(i, (devs[i] \cup {0}) \ usr[i][g]))

\* The groups go from the VLANs whose device does not use them.
LEMMA DelMcAddrDoes ==
  ASSUME NEW a, Sound(a), NEW i \in Ifc, NEW g \in McGroups, devs[i] \subseteq UserVids,
         NEW usr, NEW b, b = DelMcAddr(a, i, g, usr)
  PROVE  McTaken(a, b, i, g, usr)
<1> DEFINE V == devs[i] \ VlanUsers(i, g, usr)
           c == DelFrom(a, g, V)
           w == PortVlan[i]
           W == VidsOf(i, (devs[i] \cup {0}) \ usr[i][g])
<1>1. b = IF VlanUsers(i, g, usr) = usr[i][g] THEN DelMcast(c, g, {}, w) ELSE c
  BY DEF DelMcAddr
<1>2. V \in SUBSET Vids /\ w \in Vids
  BY IfcFacts DEF UserVids
<1>3. VlanUsers(i, g, usr) = usr[i][g] <=> 0 \notin usr[i][g]
  BY DEF VlanUsers
<1>4. W = V \cup IF 0 \notin usr[i][g] THEN {w} ELSE {}
  BY DEF VidsOf, Vid, VlanUsers, UserVids
<1> HIDE DEF V, w, W
<1>5. Sound(c) /\ Base(c.table) = Base(a.table) /\ Joined(c.table) = Joined(a.table) \ ({g} \X V)
  BY <1>2, DelFromDoes
<1> HIDE DEF c
<1>6. CASE 0 \in usr[i][g]
  BY <1>1, <1>3, <1>4, <1>5, <1>6 DEF W, McTaken
<1>7. CASE 0 \notin usr[i][g]
  <2>1. b = DelMcast(c, g, {}, w)
    BY <1>1, <1>3, <1>7
  <2>2. Sound(b) /\ Base(b.table) = Base(c.table) /\ Joined(b.table) = Joined(c.table) \ {<<g, w>>}
    BY <1>2, <1>5, <2>1, GroupGone
  <2>3. Joined(b.table) = Joined(a.table) \ ({g} \X W)
    BY <1>4, <1>5, <1>7, <2>2
  <2>4. QED
    BY <1>5, <2>2, <2>3 DEF W, McTaken
<1>8. QED
  BY <1>6, <1>7

\* cpsw_purge_all_mc takes a group from its users.
Purged(J, K, i, g) ==
  /\ K \subseteq J
  /\ \A p \in J : p \in K \/ (p[1] = g /\ p[2] \in VidsOf(i, vlans[i] \cup {0}))
  /\ told[i][g] = Cardinality(users[i][g]) => \A w \in VidsOf(i, users[i][g]) : <<g, w>> \notin K

\* The groups go from their users.
LEMMA PurgeMcDoes ==
  ASSUME NEW a, Sound(a), NEW i \in Ifc, NEW g \in McGroups, vlans[i] \subseteq Vids,
         users[i][g] \in SUBSET Vids, users[i][g] \subseteq vlans[i] \cup {0}, NEW b, b = PurgeMc(a, i, g)
  PROVE  Sound(b) /\ Base(b.table) = Base(a.table) /\ Purged(Joined(a.table), Joined(b.table), i, g)
<1> DEFINE V == VlanUsers(i, g, users)
           c == DelFrom(a, g, V)
           w == PortVlan[i]
           more == Cardinality(V) < told[i][g]
<1>1. b = IF more THEN DelMcast(c, g, {}, w) ELSE c
  BY DEF PurgeMc
<1>2. V \in SUBSET Vids /\ w \in Vids
  BY IfcFacts DEF VlanUsers
<1>3. V \subseteq VidsOf(i, vlans[i] \cup {0}) /\ w \in VidsOf(i, vlans[i] \cup {0})
  BY DEF VidsOf, Vid, VlanUsers
<1>4. told[i][g] = Cardinality(users[i][g]) => (more <=> 0 \in users[i][g])
  BY FiniteVids DEF VlanUsers
<1>5. VidsOf(i, users[i][g]) = V \cup IF 0 \in users[i][g] THEN {w} ELSE {}
  BY DEF VidsOf, Vid, VlanUsers
<1> HIDE DEF V, w, more
<1>6. Sound(c) /\ Base(c.table) = Base(a.table) /\ Joined(c.table) = Joined(a.table) \ ({g} \X V)
  BY <1>2, DelFromDoes
<1> HIDE DEF c
<1>7. Sound(b) /\ Base(b.table) = Base(a.table)
      /\ Joined(b.table) = Joined(a.table) \ ({g} \X (V \cup IF more THEN {w} ELSE {}))
  <2>1. CASE more
    <3>1. b = DelMcast(c, g, {}, w)
      BY <1>1, <2>1
    <3>2. Sound(b) /\ Base(b.table) = Base(c.table) /\ Joined(b.table) = Joined(c.table) \ {<<g, w>>}
      BY <1>2, <1>6, <3>1, GroupGone
    <3>3. QED
      BY <1>6, <2>1, <3>2
  <2>2. CASE ~more
    BY <1>1, <1>6, <2>2
  <2>3. QED
    BY <2>1, <2>2
<1> DEFINE W == V \cup IF more THEN {w} ELSE {}
<1>8. W \subseteq VidsOf(i, vlans[i] \cup {0})
  BY <1>3
<1>9. told[i][g] = Cardinality(users[i][g]) => W = VidsOf(i, users[i][g])
  BY <1>4, <1>5
<1> HIDE DEF W
<1>10. Joined(b.table) = Joined(a.table) \ ({g} \X W)
  BY <1>7 DEF W
<1>11. Joined(a.table) \subseteq McGroups \X Vids
  BY DEF Joined
<1>12. \A p \in Joined(a.table) : p \in Joined(b.table)
         \/ (p[1] = g /\ p[2] \in VidsOf(i, vlans[i] \cup {0}))
  BY <1>8, <1>10, <1>11
<1>13. QED
  BY <1>7, <1>9, <1>10, <1>12 DEF Purged

Vlanned(a, g, V) ==
  FoldSet(LAMBDA v, b : IF b.ret # OK THEN b ELSE AddMcast(b, g, {HOST}, FALSE, v), a, V)
\* The steps of the loop.
IsVlannedFold(h, a, g, V) ==
  /\ Vlanned(a, g, V) = h[V]
  /\ h[{}] = a
  /\ \A s \in SUBSET V : s # {} => h[s] = IF h[s \ {Pick(s)}].ret # OK THEN h[s \ {Pick(s)}]
       ELSE AddMcast(h[s \ {Pick(s)}], g, {HOST}, FALSE, Pick(s))

\* A group comes to some VLANs, one after the other.
LEMMA VlannedFold ==
  ASSUME NEW a, Sound(a), NEW g \in McGroups, NEW V \in SUBSET Vids
  PROVE  \E h : IsVlannedFold(h, a, g, V)
<1> DEFINE Step(k, s) == IF s = {} THEN a ELSE IF k[s \ {Pick(s)}].ret # OK THEN k[s \ {Pick(s)}]
             ELSE AddMcast(k[s \ {Pick(s)}], g, {HOST}, FALSE, Pick(s))
           G == [q \in V \X SoundOnes |-> IF q[2].ret # OK THEN q[2]
             ELSE AddMcast(q[2], g, {HOST}, FALSE, q[1])]
           h == CHOOSE k : k = [s \in SUBSET V |-> Step(k, s)]
<1>1. Vlanned(a, g, V) = h[V]
  BY DEF Vlanned, FoldSet, MapThenFoldSet, Pick
<1>2. G \in [V \X SoundOnes -> SoundOnes]
  <2>1. SUFFICES ASSUME NEW v \in V, NEW b \in SoundOnes
                 PROVE  (IF b.ret # OK THEN b ELSE AddMcast(b, g, {HOST}, FALSE, v)) \in SoundOnes
    OBVIOUS
  <2>2. QED
    BY <2>1, SoundOne, GroupPut DEF GroupAdds
<1>3. IsFiniteSet(V)
  BY FiniteAssumption, FS_Subset
<1>4. a \in SoundOnes
  BY SoundOne
<1>5. PICK k : IsFold(k, V, SoundOnes, a, G)
  <2> HIDE DEF G
  <2>1. QED
    BY <1>2, <1>3, <1>4, FoldExists
<1>6. \A s \in SUBSET V : k[s] = Step(k, s)
  <2>1. SUFFICES ASSUME NEW s \in SUBSET V, s # {} PROVE k[s] = Step(k, s)
    BY <1>5 DEF IsFold, FoldStep
  <2>2. Pick(s) \in V /\ k[s \ {Pick(s)}] \in SoundOnes
    BY <1>5, <2>1, PickIn DEF IsFold
  <2>3. k[s] = G[<<Pick(s), k[s \ {Pick(s)}]>>]
    BY <1>5, <2>1 DEF IsFold, FoldStep
  <2>4. QED
    BY <2>1, <2>2, <2>3
<1>7. k = [s \in SUBSET V |-> Step(k, s)]
  <2> HIDE DEF Step
  <2>1. QED
    BY <1>5, <1>6 DEF IsFold
<1>8. h = [s \in SUBSET V |-> Step(h, s)]
  <2> HIDE DEF Step
  <2>1. QED
    BY <1>7
<1>9. \A s \in SUBSET V : h[s] = Step(h, s)
  <2> HIDE DEF Step, h
  <2>1. QED
    BY <1>8
<1> HIDE DEF h
<1>10. IsVlannedFold(h, a, g, V)
  BY <1>1, <1>9 DEF IsVlannedFold
<1>11. QED
  BY <1>10

\* Some of the VLANs, or all if no call failed.
JoinedBy(J, K, g, V, ret) ==
  /\ J \subseteq K /\ K \subseteq J \cup ({g} \X V)
  /\ ret = OK => K = J \cup ({g} \X V)

\* The VLANs get the group until one fails.
LEMMA VlannedDoes ==
  ASSUME NEW a, Sound(a), a.ret = OK, NEW g \in McGroups, NEW V \in SUBSET Vids, NEW b, b = Vlanned(a, g, V)
  PROVE  /\ Sound(b) /\ b.ret \in {OK, ENOMEM} /\ Base(b.table) = Base(a.table)
         /\ JoinedBy(Joined(a.table), Joined(b.table), g, V, b.ret)
<1>1. PICK h : IsVlannedFold(h, a, g, V)
  BY VlannedFold
<1> DEFINE P == {s \in SUBSET V : /\ Sound(h[s]) /\ h[s].ret \in {OK, ENOMEM}
                                       /\ Base(h[s].table) = Base(a.table)
                                  /\ JoinedBy(Joined(a.table), Joined(h[s].table), g, s, h[s].ret)}
<1>2. {} \in P
  BY <1>1 DEF IsVlannedFold, JoinedBy
<1>3. ASSUME NEW s \in SUBSET V, s # {}, s \ {Pick(s)} \in P PROVE s \in P
  <2> DEFINE c == h[s \ {Pick(s)}]
             v == Pick(s)
  <2>1. h[s] = IF c.ret # OK THEN c ELSE AddMcast(c, g, {HOST}, FALSE, v)
    BY <1>1, <1>3 DEF IsVlannedFold
  <2>2. /\ Sound(c) /\ c.ret \in {OK, ENOMEM} /\ Base(c.table) = Base(a.table)
        /\ JoinedBy(Joined(a.table), Joined(c.table), g, s \ {v}, c.ret)
    BY <1>3
  <2>3. v \in s /\ v \in Vids
    BY <1>3, PickIn
  <2> HIDE DEF c, v
  <2>4. CASE c.ret # OK
    BY <2>1, <2>2, <2>4 DEF JoinedBy
  <2>5. CASE c.ret = OK
    <3>1. h[s] = AddMcast(c, g, {HOST}, FALSE, v)
      BY <2>1, <2>5
    <3>2. GroupAdds(c, h[s], g, v)
      BY <2>2, <2>3, <3>1, GroupPut
    <3>3. JoinedBy(Joined(a.table), Joined(h[s].table), g, s, h[s].ret)
      BY <2>2, <2>3, <2>5, <3>2 DEF JoinedBy, GroupAdds
    <3>4. QED
      BY <2>2, <3>2, <3>3 DEF GroupAdds
  <2>6. QED
    BY <2>4, <2>5
<1> HIDE DEF P
<1>4. IsFiniteSet(V)
  BY FiniteAssumption, FS_Subset
<1>5. \A s \in SUBSET V : s \in P
  BY <1>2, <1>3, <1>4, FoldInduction
<1>6. V \in P
  BY <1>5
<1>7. b = h[V]
  BY <1>1 DEF IsVlannedFold
<1>8. QED
  BY <1>6, <1>7 DEF P

\* cpsw_add_mc_addr gives the group to its users.
McGiven(a, b, i, g, usr) ==
  /\ Sound(b) /\ b.ret \in {OK, ENOMEM} /\ Base(b.table) = Base(a.table)
  /\ JoinedBy(Joined(a.table), Joined(b.table), g, VidsOf(i, usr[i][g]), b.ret)

\* A group is added for its users, or some of them.
LEMMA AddMcAddrDoes ==
  ASSUME NEW a, Sound(a), NEW i \in Ifc, NEW g \in McGroups,
         NEW usr, usr[i][g] \in SUBSET Vids, NEW b, b = AddMcAddr(a, i, g, usr)
  PROVE  McGiven(a, b, i, g, usr)
<1> DEFINE V == VlanUsers(i, g, usr)
           d == [a EXCEPT !.ret = OK]
           c == Vlanned(d, g, V)
           w == PortVlan[i]
           more == Cardinality(V) < Cardinality(usr[i][g])
<1>1. b = IF c.ret = OK /\ more THEN AddMcast(c, g, {HOST}, FALSE, w) ELSE c
  BY DEF AddMcAddr, Vlanned
<1>2. V \in SUBSET Vids /\ w \in Vids
  BY IfcFacts DEF VlanUsers
<1>3. more <=> 0 \in usr[i][g]
  BY FiniteVids DEF VlanUsers
<1>4. VidsOf(i, usr[i][g]) = V \cup IF 0 \in usr[i][g] THEN {w} ELSE {}
  BY DEF VidsOf, Vid, VlanUsers
<1>5. Sound(d) /\ d.ret = OK /\ d.table = a.table
  BY RetSound
<1> HIDE DEF V, w, more, d
<1>6. /\ Sound(c) /\ c.ret \in {OK, ENOMEM} /\ Base(c.table) = Base(a.table)
      /\ JoinedBy(Joined(a.table), Joined(c.table), g, V, c.ret)
  BY <1>2, <1>5, VlannedDoes
<1> HIDE DEF c
<1> DEFINE W == VidsOf(i, usr[i][g])
<1>7. W = V \cup IF more THEN {w} ELSE {}
  BY <1>3, <1>4
<1> HIDE DEF W
<1>8. CASE c.ret = OK /\ more
  <2>1. b = AddMcast(c, g, {HOST}, FALSE, w)
    BY <1>1, <1>8
  <2>2. GroupAdds(c, b, g, w)
    BY <1>2, <1>6, <2>1, GroupPut
  <2>3. JoinedBy(Joined(a.table), Joined(b.table), g, W, b.ret)
    BY <1>6, <1>7, <1>8, <2>2 DEF JoinedBy, GroupAdds
  <2>4. QED
    BY <1>6, <2>2, <2>3 DEF W, GroupAdds, McGiven
<1>9. CASE ~(c.ret = OK /\ more)
  <2>1. b = c
    BY <1>1, <1>9
  <2>2. JoinedBy(Joined(a.table), Joined(b.table), g, W, b.ret)
    BY <1>6, <1>7, <1>9, <2>1 DEF JoinedBy
  <2>3. QED
    BY <1>6, <2>1, <2>2 DEF W, McGiven
<1>10. QED
  BY <1>8, <1>9

\* What an interface has in the other VLANs.
LEMMA ServedKept ==
  ASSUME NEW B, NEW C, NEW V, SameElse(B, C, V), NEW i, NEW x, NEW v, v \notin V, ServedIn(B, i, x, v)
  PROVE  ServedIn(C, i, x, v)
<1>1. HasVlan(C, i, v)
  BY DEF SameElse, ServedIn, HasVlan
<1>2. HasAddr(C, x, v)
  BY DEF SameElse, ServedIn, HasAddr
<1>3. HasBcast(C, v)
  BY DEF SameElse, ServedIn, HasBcast
<1>4. QED
  BY <1>1, <1>2, <1>3 DEF ServedIn

\* Some VLANs of an interface: those that come are its own, and if nothing failed they are there.
VlansGiven(a, b, i, V) ==
  /\ Sound(b) /\ b.ret \in {OK, ENOMEM} /\ Joined(b.table) = Joined(a.table)
  /\ Given(Base(a.table), Base(b.table), i, mac[i], V)
  /\ b.ret = OK => \A v \in V : ServedIn(Base(b.table), i, mac[i], v)

\* One more VLAN.
LEMMA RestoreStep ==
  ASSUME NEW a, NEW i \in Ifc, mac[i] \in Stations, NEW V, NEW c, VlansGiven(a, c, i, V),
         NEW v \in UserVids, NEW b, b = Then(c, AddVlanAleEntry(c, i, v))
  PROVE  VlansGiven(a, b, i, V \cup {v})
<1> DEFINE d == AddVlanAleEntry(c, i, v)
<1>1. Sound(c) /\ c.ret \in {OK, ENOMEM}
  BY DEF VlansGiven
<1>2. VlanGiven(c, d, i, mac[i], v, i \in allmulti)
  BY <1>1, AddVlanAleEntryDoes
<1> HIDE DEF d
<1>3. Sound(d) /\ d.ret \in {OK, ENOMEM}
  BY <1>2 DEF VlanGiven
<1>4. Good(b) /\ b.table = d.table /\ b.ret = IF c.ret = OK THEN d.ret ELSE c.ret
  <2>1. b = Then(c, d)
    BY DEF d
  <2>2. c.ret \in Rets /\ Good(d)
    BY <1>1, <1>3 DEF Rets, Sound
  <2>3. QED
    BY <2>1, <2>2, ThenDoes
<1>5. Sound(b) /\ b.ret \in {OK, ENOMEM} /\ Joined(b.table) = Joined(a.table)
  BY <1>1, <1>2, <1>3, <1>4 DEF Sound, VlanGiven, VlansGiven
<1>6. Given(Base(a.table), Base(b.table), i, mac[i], V \cup {v})
  BY <1>2, <1>4, GivenTrans DEF VlansGiven, VlanGiven
<1>7. ASSUME b.ret = OK, NEW w \in V \cup {v} PROVE ServedIn(Base(b.table), i, mac[i], w)
  <2>1. c.ret = OK /\ d.ret = OK
    BY <1>4, <1>7
  <2>2. CASE w = v
    BY <1>2, <1>4, <2>1, <2>2 DEF VlanGiven
  <2>3. CASE w # v
    <3>1. ServedIn(Base(c.table), i, mac[i], w)
      BY <1>7, <2>1, <2>3 DEF VlansGiven
    <3>2. SameElse(Base(c.table), Base(b.table), {v})
      BY <1>2, <1>4 DEF VlanGiven, Given
    <3>3. QED
      BY <2>3, <3>1, <3>2, ServedKept
  <2>4. QED
    BY <2>2, <2>3
<1>8. QED
  BY <1>5, <1>6, <1>7 DEF VlansGiven

Restored(a, i, V) == FoldSet(LAMBDA v, b : Then(b, AddVlanAleEntry(b, i, v)), a, V)
\* The steps of the loop.
IsRestoredFold(h, a, i, V) ==
  /\ Restored(a, i, V) = h[V]
  /\ h[{}] = a
  /\ \A s \in SUBSET V : s # {} => h[s] = Then(h[s \ {Pick(s)}],
       AddVlanAleEntry(h[s \ {Pick(s)}], i, Pick(s)))

\* The VLANs of an interface come, one after the other.
LEMMA RestoredFold ==
  ASSUME NEW a, Sound(a), a.ret = OK, NEW i \in Ifc, mac[i] \in Stations, NEW V \in SUBSET UserVids
  PROVE  \E h : IsRestoredFold(h, a, i, V)
<1> DEFINE Step(k, s) == IF s = {} THEN a ELSE Then(k[s \ {Pick(s)}],
             AddVlanAleEntry(k[s \ {Pick(s)}], i, Pick(s)))
           G == [q \in V \X SoundOnes |-> Then(q[2], AddVlanAleEntry(q[2], i, q[1]))]
           h == CHOOSE k : k = [s \in SUBSET V |-> Step(k, s)]
<1>1. Restored(a, i, V) = h[V]
  BY DEF Restored, FoldSet, MapThenFoldSet, Pick
<1>2. G \in [V \X SoundOnes -> SoundOnes]
  <2>1. SUFFICES ASSUME NEW v \in V, NEW b \in SoundOnes
                 PROVE  Then(b, AddVlanAleEntry(b, i, v)) \in SoundOnes
    OBVIOUS
  <2>2. Sound(b)
    BY SoundOne
  <2>3. VlanGiven(b, AddVlanAleEntry(b, i, v), i, mac[i], v, i \in allmulti)
    BY <2>2, AddVlanAleEntryDoes
  <2> DEFINE d == AddVlanAleEntry(b, i, v)
  <2>4. Sound(d)
    BY <2>3 DEF VlanGiven
  <2> HIDE DEF d
  <2>5. Good(Then(b, d)) /\ Then(b, d).table = d.table
    <3>1. b.ret \in Rets /\ Good(d)
      BY <2>2, <2>4, GoodRet DEF Sound
    <3>2. QED
      BY <3>1, ThenDoes
  <2>6. Sound(Then(b, d))
    BY <2>4, <2>5 DEF Sound
  <2>7. QED
    BY <2>6, SoundOne DEF d
<1>3. IsFiniteSet(V)
  <2>1. V \in SUBSET Vids
    BY DEF UserVids
  <2>2. QED
    BY <2>1, FiniteAssumption, FS_Subset
<1>4. a \in SoundOnes
  BY SoundOne
<1>5. PICK k : IsFold(k, V, SoundOnes, a, G)
  <2> HIDE DEF G
  <2>1. QED
    BY <1>2, <1>3, <1>4, FoldExists
<1>6. \A s \in SUBSET V : k[s] = Step(k, s)
  <2>1. SUFFICES ASSUME NEW s \in SUBSET V, s # {} PROVE k[s] = Step(k, s)
    BY <1>5 DEF IsFold, FoldStep
  <2>2. Pick(s) \in V /\ k[s \ {Pick(s)}] \in SoundOnes
    BY <1>5, <2>1, PickIn DEF IsFold
  <2>3. k[s] = G[<<Pick(s), k[s \ {Pick(s)}]>>]
    BY <1>5, <2>1 DEF IsFold, FoldStep
  <2>4. QED
    BY <2>1, <2>2, <2>3
<1>7. k = [s \in SUBSET V |-> Step(k, s)]
  <2> HIDE DEF Step
  <2>1. QED
    BY <1>5, <1>6 DEF IsFold
<1>8. h = [s \in SUBSET V |-> Step(h, s)]
  <2> HIDE DEF Step
  <2>1. QED
    BY <1>7
<1>9. \A s \in SUBSET V : h[s] = Step(h, s)
  <2> HIDE DEF Step, h
  <2>1. QED
    BY <1>8
<1> HIDE DEF h
<1>10. IsRestoredFold(h, a, i, V)
  BY <1>1, <1>9 DEF IsRestoredFold
<1>11. QED
  BY <1>10

\* cpsw_restore.
LEMMA RestoreDoes ==
  ASSUME NEW a, Sound(a), NEW i \in Ifc, mac[i] \in Stations, devs[i] \subseteq UserVids,
         NEW b, b = Restore(a, i)
  PROVE  VlansGiven(a, b, i, devs[i])
<1> DEFINE V == devs[i]
           d == [a EXCEPT !.ret = OK]
<1>1. Sound(d) /\ d.table = a.table /\ d.ret = OK
  BY RetSound
<1>2. b = Restored(d, i, V)
  BY DEF Restore, Restored
<1>3. V \in SUBSET UserVids
  OBVIOUS
<1> HIDE DEF V, d
<1>4. PICK h : IsRestoredFold(h, d, i, V)
  BY <1>1, <1>3, RestoredFold
<1> DEFINE P == {s \in SUBSET V : VlansGiven(d, h[s], i, s)}
<1>5. {} \in P
  <2>1. VlansGiven(d, d, i, {})
    BY <1>1, GivenSelf DEF VlansGiven
  <2>2. QED
    BY <1>4, <2>1 DEF IsRestoredFold
<1>6. ASSUME NEW s \in SUBSET V, s # {}, s \ {Pick(s)} \in P PROVE s \in P
  <2> DEFINE c == h[s \ {Pick(s)}]
             v == Pick(s)
  <2>1. h[s] = Then(c, AddVlanAleEntry(c, i, v))
    BY <1>4, <1>6 DEF IsRestoredFold
  <2>2. VlansGiven(d, c, i, s \ {v})
    BY <1>6
  <2>3. v \in s /\ v \in UserVids
    BY <1>3, <1>6, PickIn
  <2> HIDE DEF c, v
  <2>4. VlansGiven(d, h[s], i, (s \ {v}) \cup {v})
    BY <2>1, <2>2, <2>3, RestoreStep
  <2>5. (s \ {v}) \cup {v} = s
    BY <2>3
  <2>6. QED
    BY <2>4, <2>5
<1> HIDE DEF P
<1>7. IsFiniteSet(V)
  <2>1. V \in SUBSET Vids
    BY <1>3 DEF UserVids
  <2>2. QED
    BY <2>1, FiniteAssumption, FS_Subset
<1>8. \A s \in SUBSET V : s \in P
  BY <1>5, <1>6, <1>7, FoldInduction
<1>9. V \in P
  BY <1>8
<1>10. b = h[V]
  BY <1>2, <1>4 DEF IsRestoredFold
<1>11. VlansGiven(d, b, i, V)
  BY <1>9, <1>10 DEF P
<1>12. VlansGiven(a, b, i, V)
  BY <1>1, <1>11 DEF VlansGiven
<1>13. QED
  BY <1>12 DEF V

\* The users of the groups of an interface use VLANs of its filter that have a device.
UsersOf(i, usr) ==
  \A g \in McGroups : /\ usr[i][g] \in SUBSET Vids
                      /\ usr[i][g] \subseteq vlans[i] \cup {0} /\ usr[i][g] \subseteq devs[i] \cup {0}

\* Every set of groups is finite.
LEMMA FiniteGroups ==
  ASSUME NEW G \in SUBSET McGroups
  PROVE  IsFiniteSet(G)
<1>1. McGroups \subseteq Groups
  BY DEF McGroups
<1>2. QED
  BY <1>1, FiniteAssumption, FS_Subset

\* What cpsw_purge_all_mc takes from the table, of some groups.
PurgedAll(J, K, i, G) ==
  /\ K \subseteq J
  /\ \A p \in J : p \in K \/ (p[1] \in G /\ p[2] \in VidsOf(i, vlans[i] \cup {0}))
  /\ \A g \in G : told[i][g] # 0 /\ told[i][g] = Cardinality(users[i][g]) =>
       \A w \in VidsOf(i, users[i][g]) : <<g, w>> \notin K

\* One more group.
LEMMA PurgeStep ==
  ASSUME NEW J, NEW i, NEW G, NEW K, PurgedAll(J, K, i, G), NEW g, NEW L, (K = L /\ told[i][g] = 0)
         \/ Purged(K, L, i, g)
  PROVE  PurgedAll(J, L, i, G \cup {g})
<1>1. CASE K = L /\ told[i][g] = 0
  BY <1>1 DEF PurgedAll
<1>2. CASE Purged(K, L, i, g)
  <2>1. L \subseteq J
    BY <1>2 DEF PurgedAll, Purged
  <2>2. \A p \in J : p \in L \/ (p[1] \in G \cup {g} /\ p[2] \in VidsOf(i, vlans[i] \cup {0}))
    BY <1>2 DEF PurgedAll, Purged
  <2>3. ASSUME NEW f \in G \cup {g}, told[i][f] # 0 /\ told[i][f] = Cardinality(users[i][f]),
               NEW w \in VidsOf(i, users[i][f])
        PROVE  <<f, w>> \notin L
    <3>1. CASE f = g
      BY <1>2, <2>3, <3>1 DEF Purged
    <3>2. CASE f \in G
      BY <1>2, <2>3, <3>2 DEF Purged, PurgedAll
    <3>3. QED
      BY <3>1, <3>2
  <2>4. QED
    BY <2>1, <2>2, <2>3 DEF PurgedAll
<1>3. QED
  BY <1>1, <1>2

PurgedOf(a, i, G) == FoldSet(LAMBDA g, b : IF told[i][g] = 0 THEN b ELSE PurgeMc(b, i, g), a, G)
\* The steps of the loop.
IsPurgedFold(h, a, i, G) ==
  /\ PurgedOf(a, i, G) = h[G]
  /\ h[{}] = a
  /\ \A s \in SUBSET G : s # {} => h[s] = IF told[i][Pick(s)] = 0 THEN h[s \ {Pick(s)}]
       ELSE PurgeMc(h[s \ {Pick(s)}], i, Pick(s))

\* Some groups go from their users, one after the other.
LEMMA PurgedFold ==
  ASSUME NEW a, Sound(a), NEW i \in Ifc, vlans[i] \subseteq Vids, UsersOf(i, users),
         NEW G \in SUBSET McGroups
  PROVE  \E h : IsPurgedFold(h, a, i, G)
<1> DEFINE Step(k, s) == IF s = {} THEN a ELSE IF told[i][Pick(s)] = 0 THEN k[s \ {Pick(s)}]
             ELSE PurgeMc(k[s \ {Pick(s)}], i, Pick(s))
           F == [q \in G \X SoundOnes |-> IF told[i][q[1]] = 0 THEN q[2] ELSE PurgeMc(q[2], i, q[1])]
           h == CHOOSE k : k = [s \in SUBSET G |-> Step(k, s)]
<1>1. PurgedOf(a, i, G) = h[G]
  BY DEF PurgedOf, FoldSet, MapThenFoldSet, Pick
<1>2. F \in [G \X SoundOnes -> SoundOnes]
  <2>1. SUFFICES ASSUME NEW g \in G, NEW b \in SoundOnes
                 PROVE  (IF told[i][g] = 0 THEN b ELSE PurgeMc(b, i, g)) \in SoundOnes
    OBVIOUS
  <2>2. Sound(b) /\ users[i][g] \in SUBSET Vids /\ users[i][g] \subseteq vlans[i] \cup {0} /\ g \in McGroups
    BY SoundOne DEF UsersOf
  <2>3. Sound(PurgeMc(b, i, g))
    BY <2>2, PurgeMcDoes
  <2>4. QED
    BY <2>3, SoundOne
<1>3. IsFiniteSet(G)
  BY FiniteGroups
<1>4. a \in SoundOnes
  BY SoundOne
<1>5. PICK k : IsFold(k, G, SoundOnes, a, F)
  <2> HIDE DEF F
  <2>1. QED
    BY <1>2, <1>3, <1>4, FoldExists
<1>6. \A s \in SUBSET G : k[s] = Step(k, s)
  <2>1. SUFFICES ASSUME NEW s \in SUBSET G, s # {} PROVE k[s] = Step(k, s)
    BY <1>5 DEF IsFold, FoldStep
  <2>2. Pick(s) \in G /\ k[s \ {Pick(s)}] \in SoundOnes
    BY <1>5, <2>1, PickIn DEF IsFold
  <2>3. k[s] = F[<<Pick(s), k[s \ {Pick(s)}]>>]
    BY <1>5, <2>1 DEF IsFold, FoldStep
  <2>4. QED
    BY <2>1, <2>2, <2>3
<1>7. k = [s \in SUBSET G |-> Step(k, s)]
  <2> HIDE DEF Step
  <2>1. QED
    BY <1>5, <1>6 DEF IsFold
<1>8. h = [s \in SUBSET G |-> Step(h, s)]
  <2> HIDE DEF Step
  <2>1. QED
    BY <1>7
<1>9. \A s \in SUBSET G : h[s] = Step(h, s)
  <2> HIDE DEF Step, h
  <2>1. QED
    BY <1>8
<1> HIDE DEF h
<1>10. IsPurgedFold(h, a, i, G)
  BY <1>1, <1>9 DEF IsPurgedFold
<1>11. QED
  BY <1>10

\* cpsw_purge_all_mc.
LEMMA PurgeAllMcDoes ==
  ASSUME NEW a, Sound(a), NEW i \in Ifc, vlans[i] \subseteq Vids, UsersOf(i, users), NEW b,
         b = PurgeAllMc(a, i)
  PROVE  Sound(b) /\ Base(b.table) = Base(a.table)
           /\ PurgedAll(Joined(a.table), Joined(b.table), i, McGroups)
<1>1. b = PurgedOf(a, i, McGroups)
  BY DEF PurgeAllMc, PurgedOf
<1>2. PICK h : IsPurgedFold(h, a, i, McGroups)
  BY PurgedFold
<1> DEFINE P == {s \in SUBSET McGroups : /\ Sound(h[s]) /\ Base(h[s].table) = Base(a.table)
                                         /\ PurgedAll(Joined(a.table), Joined(h[s].table), i, s)}
<1>3. {} \in P
  BY <1>2 DEF IsPurgedFold, PurgedAll
<1>4. ASSUME NEW s \in SUBSET McGroups, s # {}, s \ {Pick(s)} \in P PROVE s \in P
  <2> DEFINE c == h[s \ {Pick(s)}]
             g == Pick(s)
  <2>1. h[s] = IF told[i][g] = 0 THEN c ELSE PurgeMc(c, i, g)
    BY <1>2, <1>4 DEF IsPurgedFold
  <2>2. Sound(c) /\ Base(c.table) = Base(a.table) /\ PurgedAll(Joined(a.table), Joined(c.table), i, s \ {g})
    BY <1>4
  <2>3. g \in s /\ g \in McGroups
    BY <1>4, PickIn
  <2> HIDE DEF c, g
  <2>4. /\ Sound(h[s]) /\ Base(h[s].table) = Base(c.table)
        /\ ((Joined(c.table) = Joined(h[s].table) /\ told[i][g] = 0)
             \/ Purged(Joined(c.table), Joined(h[s].table), i, g))
    <3>1. CASE told[i][g] = 0
      BY <2>1, <2>2, <3>1
    <3>2. CASE told[i][g] # 0
      <4>1. h[s] = PurgeMc(c, i, g)
        BY <2>1, <3>2
      <4>2. users[i][g] \in SUBSET Vids /\ users[i][g] \subseteq vlans[i] \cup {0}
        BY <2>3 DEF UsersOf
      <4>3. QED
        BY <2>2, <2>3, <4>1, <4>2, PurgeMcDoes
    <3>3. QED
      BY <3>1, <3>2
  <2>5. PurgedAll(Joined(a.table), Joined(h[s].table), i, (s \ {g}) \cup {g})
    BY <2>2, <2>4, PurgeStep
  <2>6. (s \ {g}) \cup {g} = s
    BY <2>3
  <2>7. QED
    BY <2>2, <2>4, <2>5, <2>6
<1> HIDE DEF P
<1>5. IsFiniteSet(McGroups)
  BY FiniteGroups
<1>6. \A s \in SUBSET McGroups : s \in P
  BY <1>3, <1>4, <1>5, FoldInduction
<1>7. McGroups \in P
  BY <1>6
<1>8. b = h[McGroups]
  BY <1>1, <1>2 DEF IsPurgedFold
<1>9. QED
  BY <1>7, <1>8 DEF P

-----------------------------------------------------------------------------
\* The VLANs of the users of some groups, and those with a device that is no user.
Used(i, usr, G) == {p \in G \X Vids : p[2] \in VidsOf(i, usr[i][p[1]])}
Unused(i, usr, G) == {p \in G \X Vids : p[2] \in VidsOf(i, (devs[i] \cup {0}) \ usr[i][p[1]])}

FewerOf(a, i, usr, G) == FoldSet(LAMBDA g, b : DelMcAddr(b, i, g, usr), a, G)
\* The steps of the loop.
IsFewerFold(h, a, i, usr, G) ==
  /\ FewerOf(a, i, usr, G) = h[G]
  /\ h[{}] = a
  /\ \A s \in SUBSET G : s # {} => h[s] = DelMcAddr(h[s \ {Pick(s)}], i, Pick(s), usr)

\* Some groups lose users, one after the other.
LEMMA FewerFold ==
  ASSUME NEW a, Sound(a), NEW i \in Ifc, devs[i] \subseteq UserVids, NEW usr, NEW G \in SUBSET McGroups
  PROVE  \E h : IsFewerFold(h, a, i, usr, G)
<1> DEFINE Step(k, s) == IF s = {} THEN a ELSE DelMcAddr(k[s \ {Pick(s)}], i, Pick(s), usr)
           F == [q \in G \X SoundOnes |-> DelMcAddr(q[2], i, q[1], usr)]
           h == CHOOSE k : k = [s \in SUBSET G |-> Step(k, s)]
<1>1. FewerOf(a, i, usr, G) = h[G]
  BY DEF FewerOf, FoldSet, MapThenFoldSet, Pick
<1>2. F \in [G \X SoundOnes -> SoundOnes]
  <2>1. SUFFICES ASSUME NEW g \in G, NEW b \in SoundOnes
                 PROVE  DelMcAddr(b, i, g, usr) \in SoundOnes
    OBVIOUS
  <2>2. Sound(b) /\ g \in McGroups
    BY SoundOne
  <2>3. Sound(DelMcAddr(b, i, g, usr))
    BY <2>2, DelMcAddrDoes DEF McTaken
  <2>4. QED
    BY <2>3, SoundOne
<1>3. IsFiniteSet(G)
  BY FiniteGroups
<1>4. a \in SoundOnes
  BY SoundOne
<1>5. PICK k : IsFold(k, G, SoundOnes, a, F)
  <2> HIDE DEF F
  <2>1. QED
    BY <1>2, <1>3, <1>4, FoldExists
<1>6. \A s \in SUBSET G : k[s] = Step(k, s)
  <2>1. SUFFICES ASSUME NEW s \in SUBSET G, s # {} PROVE k[s] = Step(k, s)
    BY <1>5 DEF IsFold, FoldStep
  <2>2. Pick(s) \in G /\ k[s \ {Pick(s)}] \in SoundOnes
    BY <1>5, <2>1, PickIn DEF IsFold
  <2>3. k[s] = F[<<Pick(s), k[s \ {Pick(s)}]>>]
    BY <1>5, <2>1 DEF IsFold, FoldStep
  <2>4. QED
    BY <2>1, <2>2, <2>3
<1>7. k = [s \in SUBSET G |-> Step(k, s)]
  <2> HIDE DEF Step
  <2>1. QED
    BY <1>5, <1>6 DEF IsFold
<1>8. h = [s \in SUBSET G |-> Step(h, s)]
  <2> HIDE DEF Step
  <2>1. QED
    BY <1>7
<1>9. \A s \in SUBSET G : h[s] = Step(h, s)
  <2> HIDE DEF Step, h
  <2>1. QED
    BY <1>8
<1> HIDE DEF h
<1>10. IsFewerFold(h, a, i, usr, G)
  BY <1>1, <1>9 DEF IsFewerFold
<1>11. QED
  BY <1>10

\* The groups with fewer users than the driver knows: those that do not use them go.
LEMMA FewerDoes ==
  ASSUME NEW a, Sound(a), NEW i \in Ifc, devs[i] \subseteq UserVids, NEW usr, NEW G \in SUBSET McGroups,
         NEW b, b = FewerOf(a, i, usr, G)
  PROVE  Sound(b) /\ Base(b.table) = Base(a.table) /\ Joined(b.table) = Joined(a.table) \ Unused(i, usr, G)
<1>1. PICK h : IsFewerFold(h, a, i, usr, G)
  BY FewerFold
<1> DEFINE P == {s \in SUBSET G : /\ Sound(h[s]) /\ Base(h[s].table) = Base(a.table)
                                  /\ Joined(h[s].table) = Joined(a.table) \ Unused(i, usr, s)}
<1>2. {} \in P
  BY <1>1 DEF IsFewerFold, Unused
<1>3. ASSUME NEW s \in SUBSET G, s # {}, s \ {Pick(s)} \in P PROVE s \in P
  <2> DEFINE c == h[s \ {Pick(s)}]
             g == Pick(s)
  <2>1. h[s] = DelMcAddr(c, i, g, usr)
    BY <1>1, <1>3 DEF IsFewerFold
  <2>2. Sound(c) /\ Base(c.table) = Base(a.table)
          /\ Joined(c.table) = Joined(a.table) \ Unused(i, usr, s \ {g})
    BY <1>3
  <2>3. g \in s /\ g \in McGroups
    BY <1>3, PickIn
  <2> HIDE DEF c, g
  <2> DEFINE W == VidsOf(i, (devs[i] \cup {0}) \ usr[i][g])
  <2>4. Sound(h[s]) /\ Base(h[s].table) = Base(c.table) /\ Joined(h[s].table) = Joined(c.table) \ ({g} \X W)
    <3>1. Sound(c)
      BY <2>2
    <3>2. McTaken(c, h[s], i, g, usr)
      BY <2>1, <2>3, <3>1, DelMcAddrDoes
    <3>3. QED
      BY <3>2 DEF McTaken
  <2>5. \A p \in McGroups \X Vids : p \in Unused(i, usr, s) <=> p \in Unused(i, usr, s \ {g})
          \/ p \in {g} \X W
    BY <2>3 DEF Unused
  <2> HIDE DEF W
  <2>6. Joined(a.table) \subseteq McGroups \X Vids
    BY DEF Joined
  <2>7. Joined(h[s].table) = Joined(a.table) \ Unused(i, usr, s)
    BY <2>2, <2>4, <2>5, <2>6
  <2>8. QED
    BY <2>2, <2>4, <2>7
<1> HIDE DEF P
<1>4. IsFiniteSet(G)
  BY FiniteGroups
<1>5. \A s \in SUBSET G : s \in P
  BY <1>2, <1>3, <1>4, FoldInduction
<1>6. G \in P
  BY <1>5
<1>7. b = h[G]
  BY <1>1 DEF IsFewerFold
<1>8. QED
  BY <1>6, <1>7 DEF P

\* A step of __hw_addr_ref_sync_dev: the engine, and the groups whose number of users it is told.
MoreStep(s, i, g, usr) ==
  IF s.ale.ret # OK THEN s
  ELSE LET b == AddMcAddr(s.ale, i, g, usr)
       IN [ale |-> b, done |-> IF b.ret = OK THEN s.done \cup {g} ELSE s.done]
MoreOf(a, i, usr, D, G) == FoldSet(LAMBDA g, s : MoreStep(s, i, g, usr), [ale |-> a, done |-> D], G)
Begun(a, D) == [ale |-> a, done |-> D]
Syncs == [ale : SoundOnes, done : SUBSET McGroups]

MoreDone(a, s, i, usr, D, G) ==
  /\ Sound(s.ale) /\ s.ale.ret \in {OK, ENOMEM} /\ Base(s.ale.table) = Base(a.table)
  /\ Joined(a.table) \subseteq Joined(s.ale.table)
  /\ Joined(s.ale.table) \subseteq Joined(a.table) \cup Used(i, usr, G)
  /\ s.ale.ret = OK => s.done = D \cup G /\ Joined(s.ale.table) = Joined(a.table) \cup Used(i, usr, G)

\* The pairs for one more group.
LEMMA UsedBy ==
  ASSUME NEW i \in Ifc, NEW usr, NEW G \in SUBSET McGroups, NEW g \in McGroups,
         usr[i][g] \subseteq {0} \cup Vids
  PROVE  Used(i, usr, G \cup {g}) = Used(i, usr, G) \cup ({g} \X VidsOf(i, usr[i][g]))
<1>1. VidsOf(i, usr[i][g]) \subseteq Vids
  BY IfcFacts, VidsAssumption DEF VidsOf, Vid
<1>2. QED
  BY <1>1 DEF Used

\* The users of a group join it.
LEMMA MoreStepDoes ==
  ASSUME NEW a, NEW i \in Ifc, NEW usr, NEW D, NEW G \in SUBSET McGroups, NEW s,
         MoreDone(a, s, i, usr, D, G),
         NEW g \in McGroups, usr[i][g] \in SUBSET Vids, NEW r, r = MoreStep(s, i, g, usr)
  PROVE  MoreDone(a, r, i, usr, D, G \cup {g})
<1>1. Used(i, usr, G \cup {g}) = Used(i, usr, G) \cup ({g} \X VidsOf(i, usr[i][g]))
  BY UsedBy
<1>2. CASE s.ale.ret # OK
  BY <1>1, <1>2 DEF MoreDone, MoreStep
<1>3. CASE s.ale.ret = OK
  <2> DEFINE b == AddMcAddr(s.ale, i, g, usr)
             W == VidsOf(i, usr[i][g])
  <2>1. r = [ale |-> b, done |-> IF b.ret = OK THEN s.done \cup {g} ELSE s.done]
    BY <1>3 DEF MoreStep
  <2>2. Sound(s.ale)
    BY DEF MoreDone
  <2>3. McGiven(s.ale, b, i, g, usr)
    BY <2>2, AddMcAddrDoes
  <2> HIDE DEF b
  <2>4. r.ale = b /\ (b.ret = OK => r.done = s.done \cup {g})
    BY <2>1
  <2>5. /\ Sound(b) /\ b.ret \in {OK, ENOMEM} /\ Base(b.table) = Base(s.ale.table)
        /\ JoinedBy(Joined(s.ale.table), Joined(b.table), g, W, b.ret)
    BY <2>3 DEF McGiven
  <2> HIDE DEF W
  <2>6. /\ Base(s.ale.table) = Base(a.table) /\ Joined(s.ale.table) = Joined(a.table) \cup Used(i, usr, G)
             /\ s.done = D \cup G
    BY <1>3 DEF MoreDone
  <2>7. /\ Joined(s.ale.table) \subseteq Joined(b.table)
        /\ Joined(b.table) \subseteq Joined(s.ale.table) \cup ({g} \X W)
        /\ b.ret = OK => Joined(b.table) = Joined(s.ale.table) \cup ({g} \X W)
    BY <2>5 DEF JoinedBy
  <2>8. Used(i, usr, G \cup {g}) = Used(i, usr, G) \cup ({g} \X W)
    BY <1>1 DEF W
  <2>9. QED
    BY <2>4, <2>5, <2>6, <2>7, <2>8 DEF MoreDone
<1>4. QED
  BY <1>2, <1>3

\* The steps of the loop.
IsMoreFold(h, a, i, usr, D, G) ==
  /\ MoreOf(a, i, usr, D, G) = h[G]
  /\ h[{}] = Begun(a, D)
  /\ \A s \in SUBSET G : s # {} => h[s] = MoreStep(h[s \ {Pick(s)}], i, Pick(s), usr)

\* Some groups get users, one after the other.
LEMMA MoreFold ==
  ASSUME NEW a, Sound(a), NEW i \in Ifc, NEW usr, UsersOf(i, usr), NEW D \in SUBSET McGroups,
         NEW G \in SUBSET McGroups
  PROVE  \E h : IsMoreFold(h, a, i, usr, D, G)
<1> DEFINE Step(k, s) == IF s = {} THEN Begun(a, D) ELSE MoreStep(k[s \ {Pick(s)}], i, Pick(s), usr)
           F == [q \in G \X Syncs |-> MoreStep(q[2], i, q[1], usr)]
           h == CHOOSE k : k = [s \in SUBSET G |-> Step(k, s)]
<1>1. MoreOf(a, i, usr, D, G) = h[G]
  BY DEF MoreOf, Begun, FoldSet, MapThenFoldSet, Pick
<1>2. F \in [G \X Syncs -> Syncs]
  <2>1. SUFFICES ASSUME NEW g \in G, NEW s \in Syncs
                 PROVE  MoreStep(s, i, g, usr) \in Syncs
    OBVIOUS
  <2>2. Sound(s.ale) /\ g \in McGroups /\ usr[i][g] \in SUBSET Vids
    BY SoundOne DEF UsersOf, Syncs
  <2> DEFINE b == AddMcAddr(s.ale, i, g, usr)
  <2>3. McGiven(s.ale, b, i, g, usr)
    BY <2>2, AddMcAddrDoes
  <2> HIDE DEF b
  <2>4. b \in SoundOnes
    BY <2>3, SoundOne DEF McGiven
  <2>5. QED
    BY <2>2, <2>4 DEF MoreStep, Syncs, b
<1>3. IsFiniteSet(G)
  BY FiniteGroups
<1>4. Begun(a, D) \in Syncs
  BY SoundOne DEF Begun, Syncs
<1>5. PICK k : IsFold(k, G, Syncs, Begun(a, D), F)
  <2> HIDE DEF F
  <2>1. QED
    BY <1>2, <1>3, <1>4, FoldExists
<1>6. \A s \in SUBSET G : k[s] = Step(k, s)
  <2>1. SUFFICES ASSUME NEW s \in SUBSET G, s # {} PROVE k[s] = Step(k, s)
    BY <1>5 DEF IsFold, FoldStep
  <2>2. Pick(s) \in G /\ k[s \ {Pick(s)}] \in Syncs
    BY <1>5, <2>1, PickIn DEF IsFold
  <2>3. k[s] = F[<<Pick(s), k[s \ {Pick(s)}]>>]
    BY <1>5, <2>1 DEF IsFold, FoldStep
  <2>4. QED
    BY <2>1, <2>2, <2>3
<1>7. k = [s \in SUBSET G |-> Step(k, s)]
  <2> HIDE DEF Step
  <2>1. QED
    BY <1>5, <1>6 DEF IsFold
<1>8. h = [s \in SUBSET G |-> Step(h, s)]
  <2> HIDE DEF Step
  <2>1. QED
    BY <1>7
<1>9. \A s \in SUBSET G : h[s] = Step(h, s)
  <2> HIDE DEF Step, h
  <2>1. QED
    BY <1>8
<1> HIDE DEF h
<1>10. IsMoreFold(h, a, i, usr, D, G)
  BY <1>1, <1>9 DEF IsMoreFold
<1>11. QED
  BY <1>10

\* The groups with more users than the driver knows, until one fails.
LEMMA MoreDoes ==
  ASSUME NEW a, Sound(a), a.ret = OK, NEW i \in Ifc, NEW usr, UsersOf(i, usr), NEW D \in SUBSET McGroups,
         NEW G \in SUBSET McGroups, NEW r, r = MoreOf(a, i, usr, D, G)
  PROVE  MoreDone(a, r, i, usr, D, G)
<1>1. PICK h : IsMoreFold(h, a, i, usr, D, G)
  BY MoreFold
<1> DEFINE P == {s \in SUBSET G : MoreDone(a, h[s], i, usr, D, s)}
<1>2. {} \in P
  <2>1. Begun(a, D).ale = a /\ Begun(a, D).done = D
    BY DEF Begun
  <2>2. MoreDone(a, Begun(a, D), i, usr, D, {})
    BY <2>1 DEF MoreDone, Used
  <2>3. QED
    BY <1>1, <2>2 DEF IsMoreFold
<1>3. ASSUME NEW s \in SUBSET G, s # {}, s \ {Pick(s)} \in P PROVE s \in P
  <2> DEFINE c == h[s \ {Pick(s)}]
             g == Pick(s)
  <2>1. h[s] = MoreStep(c, i, g, usr)
    BY <1>1, <1>3 DEF IsMoreFold
  <2>2. MoreDone(a, c, i, usr, D, s \ {g})
    BY <1>3
  <2>3. g \in s /\ g \in McGroups
    BY <1>3, PickIn
  <2>4. usr[i][g] \in SUBSET Vids
    BY <2>3 DEF UsersOf
  <2> HIDE DEF c, g
  <2>5. MoreDone(a, h[s], i, usr, D, (s \ {g}) \cup {g})
    <3>1. s \ {g} \in SUBSET McGroups
      OBVIOUS
    <3>2. QED
      BY <2>1, <2>2, <2>3, <2>4, <3>1, MoreStepDoes
  <2>6. (s \ {g}) \cup {g} = s
    BY <2>3
  <2>7. QED
    BY <2>5, <2>6
<1> HIDE DEF P
<1>4. IsFiniteSet(G)
  BY FiniteGroups
<1>5. \A s \in SUBSET G : s \in P
  BY <1>2, <1>3, <1>4, FoldInduction
<1>6. G \in P
  BY <1>5
<1>7. r = h[G]
  BY <1>1 DEF IsMoreFold
<1>8. QED
  BY <1>6, <1>7 DEF P

\* __hw_addr_ref_sync_dev: the groups follow their users, if no call fails.
Synced(a, s, i, usr) ==
  /\ Sound(s.ale) /\ s.ale.ret \in {OK, ENOMEM} /\ Base(s.ale.table) = Base(a.table)
  /\ \A p : p[2] \notin VidsOf(i, vlans[i] \cup {0})
       => (p \in Joined(a.table) <=> p \in Joined(s.ale.table))
  /\ s.ale.ret = OK =>
       /\ s.done = Fewer(i, usr) \cup More(i, usr)
       /\ Joined(s.ale.table) = (Joined(a.table) \ Unused(i, usr, Fewer(i, usr))) \cup Used(i, usr,
            More(i, usr))

\* All groups: if nothing failed, the table has what the users have joined.
LEMMA SyncMcDoes ==
  ASSUME NEW a, Sound(a), NEW i \in Ifc, devs[i] \subseteq UserVids, devs[i] \subseteq vlans[i],
         NEW usr, UsersOf(i, usr), NEW s,
         s = SyncMc(a, i, usr)
  PROVE  Synced(a, s, i, usr)
<1> DEFINE F == Fewer(i, usr)
           M == More(i, usr)
           b == FewerOf(a, i, usr, F)
           d == [b EXCEPT !.ret = OK]
<1>1. F \in SUBSET McGroups /\ M \in SUBSET McGroups
  BY DEF Fewer, More
<1>2. s = MoreOf(d, i, usr, F, M)
  BY DEF SyncMc, FewerOf, MoreOf, MoreStep
<1> HIDE DEF F, M
<1>3. Sound(b) /\ Base(b.table) = Base(a.table) /\ Joined(b.table) = Joined(a.table) \ Unused(i, usr, F)
  BY <1>1, FewerDoes
<1> HIDE DEF b
<1>4. Sound(d) /\ d.ret = OK /\ d.table = b.table
  BY <1>3, RetSound
<1> HIDE DEF d
<1>5. MoreDone(d, s, i, usr, F, M)
  BY <1>1, <1>2, <1>4, MoreDoes
<1>6. \A p : p[2] \notin VidsOf(i, vlans[i] \cup {0}) => p \notin Unused(i, usr, F)
        /\ p \notin Used(i, usr, M)
  <2>1. \A g \in McGroups : /\ VidsOf(i, (devs[i] \cup {0}) \ usr[i][g]) \subseteq VidsOf(i,
                                 vlans[i] \cup {0})
                            /\ VidsOf(i, usr[i][g]) \subseteq VidsOf(i, vlans[i] \cup {0})
    BY DEF VidsOf, UsersOf
  <2>2. QED
    BY <1>1, <2>1 DEF Used, Unused
<1>7. \A p : p[2] \notin VidsOf(i, vlans[i] \cup {0})
        => (p \in Joined(a.table) <=> p \in Joined(s.ale.table))
  BY <1>3, <1>4, <1>5, <1>6 DEF MoreDone
<1>8. QED
  BY <1>3, <1>4, <1>5, <1>7 DEF Synced, MoreDone, F, M

-----------------------------------------------------------------------------
(* What the table has for an interface.                                    *)

\* What the interfaces have been given, and what has happened to them.
ConfWith(u, o) == [up |-> u, mac |-> mac, vlans |-> vlans, bare |-> bare, users |-> users, told |-> told,
                   promisc |-> promisc, allmulti |-> allmulti, odd |-> o]
Conf == ConfWith(up, odd)
Fine(c, j, S) == c.odd[j] \cap S = {}

\* A VLAN of an interface has its port and the host, and no other port.
OwnedAt(B, j, c) ==
  "shared" \notin c.odd[j] =>
    \A e \in B : e.type = "vlan" /\ e.vid \in c.vlans[j] \ {0} => e.members = Both(j)

\* See OwnEntries, VlansServed, AllmultiKept.
Wanted(j, c) == c.vlans[j] \ ({0} \cup c.bare[j])
OwnAt(B, j, c) ==
  j \in c.up /\ Fine(c, j, {"nomem"}) => ServedIn(B, j, c.mac[j], PortVlan[j])
    /\ HasSecure(B, c.mac[j], PortVlan[j])
VlansAt(B, j, c) ==
  j \in c.up /\ Fine(c, j, {"nomem", "shared", "remac"}) =>
    \A v \in Wanted(j, c) : ServedIn(B, j, c.mac[j], v)
AllAt(B, j, c) ==
  j \in c.up /\ j \notin c.promisc /\ Fine(c, j, {"nomem", "shared"}) =>
    \A v \in VidsOf(j, c.vlans[j] \cup {0}) : FloodsTo(B, v, j \in c.allmulti)

\* The driver has been told how many users a group has, and those are served, or there has been
\* no occasion to tell it, and nobody is.
GroupAt(J, j, c) ==
  Fine(c, j, {"nomem", "shared", "promisc"}) =>
    \A g \in McGroups :
      /\ c.told[j][g] = Cardinality(c.users[j][g])
           \/ (c.told[j][g] = 0 /\ (j \notin c.up \/ j \in c.promisc))
      /\ \A u \in c.vlans[j] \cup {0} : <<g, Vid(j, u)>> \in J <=> c.told[j][g] # 0 /\ u \in c.users[j][g]

IfcAt(B, J, j, c) ==
  OwnedAt(B, j, c) /\ OwnAt(B, j, c) /\ VlansAt(B, j, c) /\ AllAt(B, j, c) /\ GroupAt(J, j, c)

\* The VLANs that are an interface's alone.
Mine(j, c) == {PortVlan[j]} \cup IF "shared" \in c.odd[j] THEN {} ELSE c.vlans[j] \ {0}
SameOn(B, C, V) == \A f : f.vid \in V => (f \in B <=> f \in C)
SameAt(J, K, V) == \A p : p[2] \in V => (p \in J <=> p \in K)

\* Entries in a VLAN that does not change.
LEMMA ServedSame ==
  ASSUME NEW B, NEW C, NEW V, SameOn(B, C, V), NEW v \in V, NEW i, NEW x
  PROVE  /\ ServedIn(B, i, x, v) => ServedIn(C, i, x, v)
         /\ HasSecure(B, x, v) => HasSecure(C, x, v)
         /\ \A P : FloodsTo(B, v, i \in P) => FloodsTo(C, v, i \in P)
<1>1. HasVlan(B, i, v) => HasVlan(C, i, v)
  BY DEF SameOn, HasVlan
<1>2. HasAddr(B, x, v) => HasAddr(C, x, v)
  BY DEF SameOn, HasAddr
<1>3. HasBcast(B, v) => HasBcast(C, v)
  BY DEF SameOn, HasBcast
<1>4. HasSecure(B, x, v) => HasSecure(C, x, v)
  BY DEF SameOn, HasSecure
<1>5. \A P : FloodsTo(B, v, i \in P) => FloodsTo(C, v, i \in P)
  BY DEF SameOn, FloodsTo
<1>6. QED
  BY <1>1, <1>2, <1>3, <1>4, <1>5 DEF ServedIn

\* An interface is what it was, but it may have fewer VLANs, and more may have happened to it.
Keeps(c, d, j) ==
  /\ j \in d.up <=> j \in c.up
  /\ j \in d.promisc <=> j \in c.promisc
  /\ j \in d.allmulti <=> j \in c.allmulti
  /\ d.mac[j] = c.mac[j] /\ d.vlans[j] \ {0} \subseteq c.vlans[j] \ {0} /\ d.users[j] = c.users[j]
       /\ d.told[j] = c.told[j]
  /\ Wanted(j, d) \subseteq Wanted(j, c)
  /\ c.odd[j] \subseteq d.odd[j]

\* What is done elsewhere leaves an interface alone.
LEMMA IfcKept ==
  ASSUME NEW B, NEW C, NEW J, NEW K, NEW j \in Ifc, NEW c, IfcAt(B, J, j, c), NEW d,
         Keeps(c, d, j),
         SameOn(B, C, Mine(j, d)), SameAt(J, K, Mine(j, d))
  PROVE  IfcAt(C, K, j, d)
<1> USE DEF Keeps
<1>1. PortVlan[j] \in Mine(j, d)
  BY DEF Mine
<1>2. "shared" \notin d.odd[j] => /\ \A v \in d.vlans[j] \ {0} : v \in Mine(j, d)
                              /\ \A u \in d.vlans[j] \cup {0} : Vid(j, u) \in Mine(j, d)
  BY DEF Mine, Vid
<1>3. \A S : Fine(d, j, S) => Fine(c, j, S)
  BY DEF Fine
<1>4. \A S : Fine(d, j, S) /\ "shared" \in S => "shared" \notin d.odd[j]
  BY DEF Fine
<1>5. OwnedAt(C, j, d)
  BY <1>2 DEF OwnedAt, SameOn, IfcAt
<1>6. OwnAt(C, j, d)
  BY <1>1, <1>3, ServedSame DEF OwnAt, IfcAt
<1>7. VlansAt(C, j, d)
  <2>1. SUFFICES ASSUME j \in d.up, Fine(d, j, {"nomem", "shared", "remac"}), NEW v \in Wanted(j, d)
                 PROVE  ServedIn(C, j, d.mac[j], v)
    BY DEF VlansAt
  <2>2. ServedIn(B, j, c.mac[j], v)
    BY <1>3, <2>1 DEF VlansAt, IfcAt
  <2>3. v \in Mine(j, d)
    BY <1>2, <1>4, <2>1 DEF Wanted
  <2>4. QED
    BY <2>2, <2>3, ServedSame
<1>8. AllAt(C, j, d)
  <2>1. SUFFICES ASSUME j \in d.up, j \notin d.promisc, Fine(d, j, {"nomem", "shared"}),
                        NEW u \in d.vlans[j] \cup {0}
                 PROVE  FloodsTo(C, Vid(j, u), j \in d.allmulti)
    BY DEF AllAt, VidsOf
  <2>2. FloodsTo(B, Vid(j, u), j \in c.allmulti)
    BY <1>3, <2>1 DEF AllAt, IfcAt, VidsOf
  <2>3. Vid(j, u) \in Mine(j, d)
    BY <1>2, <1>4, <2>1
  <2>4. QED
    BY <2>2, <2>3 DEF FloodsTo, SameOn
<1>9. GroupAt(K, j, d)
  <2>1. SUFFICES ASSUME Fine(d, j, {"nomem", "shared", "promisc"}), NEW g \in McGroups
                 PROVE  /\ d.told[j][g] = Cardinality(d.users[j][g])
                             \/ (d.told[j][g] = 0 /\ (j \notin d.up \/ j \in d.promisc))
                        /\ \A u \in d.vlans[j] \cup {0} : <<g, Vid(j, u)>> \in K <=> d.told[j][g] # 0
                             /\ u \in d.users[j][g]
    BY DEF GroupAt
  <2>2. /\ d.told[j][g] = Cardinality(d.users[j][g])
             \/ (d.told[j][g] = 0 /\ (j \notin d.up \/ j \in d.promisc))
        /\ \A u \in d.vlans[j] \cup {0} : <<g, Vid(j, u)>> \in J <=> d.told[j][g] # 0 /\ u \in d.users[j][g]
    BY <1>3, <2>1 DEF GroupAt, IfcAt
  <2>3. \A u \in d.vlans[j] \cup {0} : <<g, Vid(j, u)>> \in J <=> <<g, Vid(j, u)>> \in K
    BY <1>2, <1>4, <2>1 DEF SameAt
  <2>4. QED
    BY <2>2, <2>3
<1>10. QED
  BY <1>5, <1>6, <1>7, <1>8, <1>9 DEF IfcAt

\* Users are in different VLANs.
LEMMA VidDiffers ==
  ASSUME NEW i \in Ifc, NEW u \in {0} \cup UserVids, NEW w \in {0} \cup UserVids, Vid(i, u) = Vid(i, w)
  PROVE  u = w
BY IfcFacts DEF Vid, UserVids

\* The users that have come, or those that have gone.
Moved(i, usr) == \A g \in McGroups : usr[i][g] \subseteq users[i][g] \/ users[i][g] \subseteq usr[i][g]

\* A group follows its users.
FollowsIn(i, usr, K, g) ==
  /\ g \notin Fewer(i, usr) \cup More(i, usr) => told[i][g] = Cardinality(usr[i][g])
  /\ \A u \in vlans[i] \cup {0} :
       <<g, Vid(i, u)>> \in K <=> Cardinality(usr[i][g]) # 0 /\ u \in usr[i][g]

\* The numbers say which groups changed, since the users of each only came or only went.
LEMMA GroupFollows ==
  ASSUME NEW i \in Ifc, NEW usr, UsersOf(i, usr), UsersOf(i, users), Moved(i, usr),
         vlans[i] \subseteq {0} \cup UserVids, devs[i] \subseteq vlans[i], NEW J, NEW K,
         K = (J \ Unused(i, usr, Fewer(i, usr))) \cup Used(i, usr, More(i, usr)),
         NEW g \in McGroups, told[i][g] \in Nat, told[i][g] = Cardinality(users[i][g]) \/ told[i][g] = 0,
         \A u \in vlans[i] \cup {0} : <<g, Vid(i, u)>> \in J <=> told[i][g] # 0 /\ u \in users[i][g]
  PROVE  FollowsIn(i, usr, K, g)
<1> DEFINE S == users[i][g]
           T == usr[i][g]
           n == Cardinality(S)
           m == Cardinality(T)
<1>1. /\ IsFiniteSet(S) /\ n \in Nat /\ (n = 0 <=> S = {})
      /\ IsFiniteSet(T) /\ m \in Nat /\ (m = 0 <=> T = {})
  BY FiniteVids, FS_EmptySet DEF UsersOf
<1>2. (T \subseteq S => m <= n /\ (m = n => T = S)) /\ (S \subseteq T => n <= m /\ (m = n => T = S))
  BY <1>1, FS_Subset
<1>3. (T \subseteq S \/ S \subseteq T) /\ S \subseteq vlans[i] \cup {0} /\ T \subseteq vlans[i] \cup {0}
      /\ S \subseteq devs[i] \cup {0}
  BY DEF Moved, UsersOf
<1>4. (g \in Fewer(i, usr) <=> m < told[i][g]) /\ (g \in More(i, usr) <=> m > told[i][g])
  BY DEF Fewer, More
<1>5. g \notin Fewer(i, usr) \cup More(i, usr) => told[i][g] = m
  BY <1>1, <1>4
<1>6. \A u \in vlans[i] \cup {0} : Vid(i, u) \in Vids
  BY IfcFacts, VidsAssumption DEF Vid, UserVids
<1>7. ASSUME NEW u \in vlans[i] \cup {0}, NEW U \in SUBSET (vlans[i] \cup {0})
      PROVE  Vid(i, u) \in VidsOf(i, U) <=> u \in U
  BY <1>7, VidDiffers DEF VidsOf
<1>8. ASSUME NEW u \in vlans[i] \cup {0}
      PROVE  /\ <<g, Vid(i, u)>> \in Unused(i, usr, Fewer(i, usr)) <=>
                   m < told[i][g] /\ u \in devs[i] \cup {0} /\ u \notin T
             /\ <<g, Vid(i, u)>> \in Used(i, usr, More(i, usr)) <=> m > told[i][g] /\ u \in T
  <2>1. Vid(i, u) \in VidsOf(i, (devs[i] \cup {0}) \ T) <=> u \in devs[i] \cup {0} /\ u \notin T
    BY <1>7
  <2>2. Vid(i, u) \in VidsOf(i, T) <=> u \in T
    BY <1>3, <1>7
  <2>3. QED
    BY <1>4, <1>6, <2>1, <2>2 DEF Used, Unused
<1>9. ASSUME NEW u \in vlans[i] \cup {0} PROVE <<g, Vid(i, u)>> \in K <=> m # 0 /\ u \in T
  <2>1. <<g, Vid(i, u)>> \in K <=>
          \/ (told[i][g] # 0 /\ u \in S) /\ ~(m < told[i][g] /\ u \in devs[i] \cup {0} /\ u \notin T)
          \/ m > told[i][g] /\ u \in T
    BY <1>8
  <2>2. u \in T => m # 0
    BY <1>1
  <2> HIDE DEF S, T, n, m
  <2>3. told[i][g] = n \/ told[i][g] = 0
    BY DEF n, S
  <2>4. QED
    BY <1>1, <1>2, <1>3, <2>1, <2>2, <2>3
<1>10. QED
  BY <1>5, <1>9 DEF FollowsIn

-----------------------------------------------------------------------------
(* A change of the flooding.                                               *)

\* A change of the flooding alone, of VLANs with a port.
Like(e, f) == f.vid = e.vid /\ f.type = e.type /\ (f.type = "addr" => f = e)
HasPort(f, i) == f.type = "vlan" /\ i \in f.members
Refloods(B, C, i) ==
  /\ \A f \in C : \E e \in B : Like(e, f)
  /\ \A f : ~HasPort(f, i) => (f \in B <=> f \in C)
  /\ \A e \in B : \E f \in C : Like(e, f) /\ (e.type = "vlan" => f.members = e.members)
  /\ \A f \in C : f.type = "vlan" => \E e \in B : Like(e, f) /\ f.members = e.members

\* An entry with another flooding.
LEMMA FloodingLike ==
  ASSUME NEW a, Sound(a), NEW i, NEW on \in BOOLEAN, NEW e \in Contents(a.table)
  PROVE  /\ Like(e, Flooding(e, on, i))
         /\ e.type = "vlan" => Flooding(e, on, i).members = e.members
         /\ ~HasPort(e, i) => Flooding(e, on, i) = e
         /\ HasPort(e, i) => (HOST \in Flooding(e, on, i).unreg <=> on)
<1>1. CASE ~HasPort(e, i)
  BY <1>1 DEF HasPort, Flooding, Like
<1>2. CASE HasPort(e, i)
  <2>1. e \in VlanEntries
    BY <1>2, KindIn DEF Sound, HasPort
  <2>2. Flooding(e, on, i) = [e EXCEPT !.unreg = IF on THEN @ \cup {HOST} ELSE @ \ {HOST}]
    BY <1>2 DEF HasPort, Flooding, Reflood
  <2>3. QED
    BY <1>2, <2>1, <2>2 DEF VlanEntries, Like, HasPort
<1>3. QED
  BY <1>1, <1>2

\* cpsw_ale_set_allmulti.
AllmultiSet(a, b, i, on) ==
  /\ Sound(b) /\ Joined(b.table) = Joined(a.table)
  /\ Refloods(Base(a.table), Base(b.table), i)
  /\ \A f \in Base(b.table) : HasPort(f, i) => (HOST \in f.unreg <=> on)

\* For a flag that is given.
LEMMA OnRefloods ==
  ASSUME NEW a, Sound(a), NEW i \in Ifc, NEW on \in BOOLEAN, NEW b, b = SetAllmulti(a, on, i)
  PROVE  AllmultiSet(a, b, i, on)
<1> DEFINE B == Base(a.table)
           C == Base(b.table)
<1>1. Sound(b) /\ Joined(b.table) = Joined(a.table) /\ C = {Flooding(e, on, i) : e \in B}
  BY AllmultiSound
<1>2. \A e \in B : /\ Like(e, Flooding(e, on, i))
                   /\ e.type = "vlan" => Flooding(e, on, i).members = e.members
                   /\ ~HasPort(e, i) => Flooding(e, on, i) = e
                   /\ HasPort(e, i) => (HOST \in Flooding(e, on, i).unreg <=> on)
  BY FloodingLike DEF Base
<1> HIDE DEF B, C
<1>3. \A e \in B : HasPort(e, i) <=> HasPort(Flooding(e, on, i), i)
  BY <1>2 DEF HasPort, Like
<1>4. \A f : ~HasPort(f, i) => (f \in B <=> f \in C)
  BY <1>1, <1>2, <1>3
<1>5. \A f \in C : \E e \in B : Like(e, f)
  BY <1>1, <1>2
<1>6. \A e \in B : \E f \in C : Like(e, f) /\ (e.type = "vlan" => f.members = e.members)
  BY <1>1, <1>2
<1>7. \A f \in C : f.type = "vlan" => \E e \in B : Like(e, f) /\ f.members = e.members
  BY <1>1, <1>2 DEF Like
<1>8. \A f \in C : HasPort(f, i) => (HOST \in f.unreg <=> on)
  BY <1>1, <1>2, <1>3
<1>9. Refloods(B, C, i)
  BY <1>4, <1>5, <1>6, <1>7 DEF Refloods
<1>10. QED
  BY <1>1, <1>8, <1>9 DEF B, C, AllmultiSet

\* For a flag that is the membership in a set.
LEMMA AllmultiRefloods ==
  ASSUME NEW a, Sound(a), NEW i \in Ifc, NEW P, NEW b, b = SetAllmulti(a, i \in P, i)
  PROVE  /\ Sound(b) /\ Joined(b.table) = Joined(a.table)
         /\ Refloods(Base(a.table), Base(b.table), i)
         /\ \A f \in Base(b.table) : HasPort(f, i) => (HOST \in f.unreg <=> i \in P)
<1>1. CASE i \in P
  <2>1. b = SetAllmulti(a, TRUE, i)
    <3>1. (i \in P) = TRUE
      BY <1>1
    <3>2. QED
      BY <3>1
  <2>2. AllmultiSet(a, b, i, TRUE)
    BY <2>1, OnRefloods
  <2>3. QED
    BY <1>1, <2>2 DEF AllmultiSet
<1>2. CASE i \notin P
  <2>1. b = SetAllmulti(a, FALSE, i)
    <3>1. (i \in P) = FALSE
      BY <1>2
    <3>2. QED
      BY <3>1
  <2>2. AllmultiSet(a, b, i, FALSE)
    BY <2>1, OnRefloods
  <2>3. QED
    BY <1>2, <2>2 DEF AllmultiSet
<1>3. QED
  BY <1>1, <1>2

\* What serves an interface is not changed by the flooding.
LEMMA ServedRefloods ==
  ASSUME NEW B, NEW C, NEW i, Refloods(B, C, i), NEW j, NEW x, NEW v
  PROVE  /\ ServedIn(B, j, x, v) => ServedIn(C, j, x, v)
         /\ HasSecure(B, x, v) => HasSecure(C, x, v)
<1>1. \A f : f.type = "addr" => (f \in B <=> f \in C)
  BY DEF Refloods, HasPort
<1>2. HasVlan(B, j, v) => HasVlan(C, j, v)
  <2>1. SUFFICES ASSUME NEW e \in B, e.type = "vlan", e.vid = v, e.members = Both(j) PROVE HasVlan(C, j, v)
    BY DEF HasVlan
  <2>2. PICK f \in C : Like(e, f) /\ f.members = e.members
    BY <2>1 DEF Refloods
  <2>3. QED
    BY <2>1, <2>2 DEF HasVlan, Like
<1>3. HasAddr(B, x, v) => HasAddr(C, x, v)
  BY <1>1 DEF HasAddr
<1>4. HasBcast(B, v) => HasBcast(C, v)
  BY <1>1 DEF HasBcast
<1>5. HasSecure(B, x, v) => HasSecure(C, x, v)
  BY <1>1 DEF HasSecure
<1>6. QED
  BY <1>2, <1>3, <1>4, <1>5 DEF ServedIn

\* What has been given stays, and the VLANs of the interface flood as they are told to.
GivenAt(B, i, c) == OwnedAt(B, i, c) /\ OwnAt(B, i, c) /\ VlansAt(B, i, c) /\ AllAt(B, i, c)

\* The interface itself.
LEMMA IfcRefloods ==
  ASSUME NEW a, Sound(a), NEW i \in Ifc, NEW P, NEW b, b = SetAllmulti(a, i \in P, i),
         NEW c, OwnedAt(Base(a.table), i, c), OwnAt(Base(a.table), i, c), VlansAt(Base(a.table), i, c),
         NEW d, i \in d.up <=> i \in c.up, d.mac[i] = c.mac[i], d.vlans[i] = c.vlans[i],
           d.bare[i] = c.bare[i],
           c.odd[i] \subseteq d.odd[i],
         i \notin d.promisc => (i \in d.allmulti <=> i \in P)
  PROVE  GivenAt(Base(b.table), i, d)
<1> DEFINE B == Base(a.table)
           C == Base(b.table)
<1>1. /\ Refloods(B, C, i) /\ Sound(b)
      /\ \A f \in C : HasPort(f, i) => (HOST \in f.unreg <=> i \in P)
  BY AllmultiRefloods
<1>2. \A S : Fine(d, i, S) => Fine(c, i, S)
  BY DEF Fine
<1>3. \A f \in C : ShapeOf(f)
  BY <1>1 DEF Sound, Base
<1> HIDE DEF B, C
<1>4. OwnedAt(C, i, d)
  <2>1. SUFFICES ASSUME "shared" \notin d.odd[i], NEW f \in C, f.type = "vlan", f.vid \in d.vlans[i] \ {0}
                 PROVE  f.members = Both(i)
    BY DEF OwnedAt
  <2>2. PICK e \in B : Like(e, f) /\ f.members = e.members
    BY <1>1, <2>1 DEF Refloods
  <2>3. QED
    BY <2>1, <2>2 DEF OwnedAt, Like, B
<1>5. OwnAt(C, i, d)
  BY <1>1, <1>2, ServedRefloods DEF OwnAt, B
<1>6. VlansAt(C, i, d)
  BY <1>1, <1>2, ServedRefloods DEF VlansAt, Wanted, B
<1>7. AllAt(C, i, d)
  <2>1. SUFFICES ASSUME i \notin d.promisc, "shared" \notin d.odd[i], NEW u \in d.vlans[i] \cup {0},
                        NEW f \in C, f.type = "vlan", f.vid = Vid(i, u)
                 PROVE  HOST \in f.unreg <=> i \in d.allmulti
    BY DEF AllAt, VidsOf, Fine, FloodsTo
  <2>2. f.members = Both(i)
    <3>1. CASE u = 0
      BY <1>3, <2>1, <3>1 DEF ShapeOf, Vid
    <3>2. CASE u # 0
      BY <1>4, <2>1, <3>2 DEF OwnedAt, Vid
    <3>3. QED
      BY <3>1, <3>2
  <2>3. HasPort(f, i)
    BY <2>1, <2>2 DEF HasPort, Both
  <2>4. QED
    BY <1>1, <2>1, <2>3
<1>8. QED
  BY <1>4, <1>5, <1>6, <1>7 DEF C, GivenAt

-----------------------------------------------------------------------------
(* cpsw_ndo_set_rx_mode.                                                   *)

\* The variables but the engine.
StateInv ==
  /\ flood \in BOOLEAN
  /\ up \in SUBSET Ifc /\ promisc \in SUBSET Ifc /\ allmulti \in SUBSET Ifc
  /\ mac \in [Ifc -> Stations]
  /\ vlans \in [Ifc -> SUBSET ({0} \cup UserVids)] /\ bare \in [Ifc -> SUBSET Vids]
  /\ devs \in [Ifc -> SUBSET UserVids] /\ \A i \in Ifc : devs[i] \subseteq vlans[i]
  /\ users \in [Ifc -> [McGroups -> SUBSET Vids]]
  /\ told \in [Ifc -> [McGroups -> Nat]]
  /\ odd \in [Ifc -> SUBSET Oddities]

\* What cpsw_ndo_set_rx_mode of an interface does, when it finds the engine as a.
RxSet(a, past, i, pro, d) ==
  /\ Sound(ale') /\ flood' = (pro # {})
  /\ Refloods(Base(a.table), Base(ale'.table), i)
  /\ \A p : p[2] \notin VidsOf(i, vlans[i] \cup {0}) => (p \in Joined(a.table) <=> p \in Joined(ale'.table))
  /\ told' \in [Ifc -> [McGroups -> Nat]] /\ odd' \in [Ifc -> SUBSET Oddities]
  /\ \A j \in Ifc \ {i} : told'[j] = told[j] /\ odd'[j] = past[j]
  /\ past[i] \subseteq odd'[i]
  /\ IfcAt(Base(ale'.table), Joined(ale'.table), i, d)

\* The handler does what RxSet says, promiscuous or not.
LEMMA SetRxModeDoes ==
  ASSUME StateInv, NEW a, Sound(a), NEW past \in [Ifc -> SUBSET Oddities], NEW i \in Ifc, NEW usr,
         UsersOf(i, usr), UsersOf(i, users), Moved(i, usr), NEW pro \in SUBSET Ifc, NEW all \in SUBSET Ifc,
         NEW bar, NEW c, c = [ConfWith(up \cup {i}, past) EXCEPT !.bare = bar],
         OwnedAt(Base(a.table), i, c), OwnAt(Base(a.table), i, c), VlansAt(Base(a.table), i, c),
         NEW c0, c0 = ConfWith(up, past), GroupAt(Joined(a.table), i, c0),
         SetRxMode(a, past, i, usr, pro, all),
         NEW d, d = [up |-> up \cup {i}, mac |-> mac, vlans |-> vlans, bare |-> bar, users |-> usr,
                     told |-> told', promisc |-> pro, allmulti |-> all, odd |-> odd']
  PROVE  RxSet(a, past, i, pro, d)
<1> DEFINE P == pro \cup all
           b == SetAllmulti(a, i \in P, i)
<1>2. /\ Sound(b) /\ Joined(b.table) = Joined(a.table)
      /\ Refloods(Base(a.table), Base(b.table), i)
  BY AllmultiRefloods
<1>3. vlans[i] \in SUBSET ({0} \cup UserVids) /\ vlans[i] \subseteq Vids /\ told[i] \in [McGroups -> Nat]
      /\ devs[i] \subseteq UserVids /\ devs[i] \subseteq vlans[i]
  BY VidsAssumption DEF StateInv, UserVids
<1>4. /\ i \in d.up /\ i \in c.up /\ d.mac[i] = c.mac[i] /\ d.vlans[i] = c.vlans[i] /\ c.vlans[i] = vlans[i]
      /\ c.odd[i] = past[i] /\ d.odd[i] = odd'[i] /\ d.promisc = pro /\ d.allmulti = all
      /\ d.users[i] = usr[i] /\ d.told[i] = told'[i] /\ d.bare[i] = c.bare[i]
  BY DEF Conf, ConfWith
<1>5. /\ c0.odd[i] = past[i] /\ c0.told[i] = told[i] /\ c0.users[i] = users[i] /\ c0.vlans[i] = vlans[i]
  BY DEF Conf, ConfWith
<1>6. flood' = (pro # {})
  BY DEF SetRxMode, SetPromiscious
<1>7. i \notin d.promisc => (i \in d.allmulti <=> i \in P)
  BY <1>4
<1>8. ASSUME past[i] \subseteq odd'[i], NEW e, e.table = ale'.table, Base(e.table) = Base(b.table)
      PROVE  /\ GivenAt(Base(ale'.table), i, d)
             /\ Refloods(Base(a.table), Base(ale'.table), i)
  <2>1. (i \in d.up <=> i \in c.up) /\ d.mac[i] = c.mac[i] /\ d.vlans[i] = c.vlans[i]
          /\ d.bare[i] = c.bare[i]
          /\ c.odd[i] \subseteq d.odd[i]
    BY <1>4, <1>8
  <2> HIDE DEF P
  <2>2. GivenAt(Base(b.table), i, d)
    BY <1>7, <2>1, IfcRefloods
  <2> HIDE DEF b
  <2>3. QED
    BY <1>2, <1>8, <2>2
<1>9. CASE i \in pro
  <2>1. /\ ale' = [b EXCEPT !.ret = OK]
        /\ odd' = [past EXCEPT ![i] = @ \cup IF usr[i] # users[i] THEN {"promisc"} ELSE {}]
        /\ told' = told
    <3>1. (i \in P) = TRUE
      BY <1>9
    <3>2. QED
      BY <1>9, <3>1 DEF SetRxMode, Now
  <2>2. /\ odd' \in [Ifc -> SUBSET Oddities] /\ past[i] \subseteq odd'[i]
        /\ \A j \in Ifc \ {i} : odd'[j] = past[j]
        /\ "promisc" \notin odd'[i] => usr[i] = users[i]
    BY <2>1 DEF Oddities
  <2> HIDE DEF b
  <2>3. Sound(ale') /\ ale'.table = b.table
    BY <1>2, <2>1, RetSound
  <2>4. GroupAt(Joined(ale'.table), i, d)
    <3>1. SUFFICES ASSUME Fine(d, i, {"nomem", "shared", "promisc"}), NEW g \in McGroups
                   PROVE  /\ d.told[i][g] = Cardinality(d.users[i][g])
                               \/ (d.told[i][g] = 0 /\ (i \notin d.up \/ i \in d.promisc))
                          /\ \A u \in d.vlans[i] \cup {0} :
                               <<g, Vid(i, u)>> \in Joined(ale'.table) <=> d.told[i][g] # 0
                                 /\ u \in d.users[i][g]
      BY DEF GroupAt
    <3>2. Fine(c0, i, {"nomem", "shared", "promisc"}) /\ d.users[i] = c0.users[i] /\ d.told[i] = c0.told[i]
            /\ d.vlans[i] = c0.vlans[i] /\ i \in d.promisc
      BY <1>4, <1>5, <1>9, <2>1, <2>2, <3>1 DEF Fine
    <3>3. Joined(ale'.table) = Joined(a.table)
      BY <1>2, <2>3
    <3>4. QED
      BY <3>2, <3>3 DEF GroupAt
  <2>5. told' \in [Ifc -> [McGroups -> Nat]] /\ \A j \in Ifc \ {i} : told'[j] = told[j]
    BY <2>1 DEF StateInv
  <2>6. \A p : p[2] \notin VidsOf(i, vlans[i] \cup {0})
          => (p \in Joined(a.table) <=> p \in Joined(ale'.table))
    BY <1>2, <2>3
  <2>7. /\ GivenAt(Base(ale'.table), i, d)
        /\ Refloods(Base(a.table), Base(ale'.table), i)
    BY <1>8, <2>2, <2>3
  <2>8. QED
    BY <1>6, <2>2, <2>3, <2>4, <2>5, <2>6, <2>7 DEF RxSet, IfcAt, GivenAt
<1>10. CASE i \notin pro
  <2> DEFINE s == SyncMc(b, i, usr)
             e == s.ale
  <2>1. /\ ale' = [e EXCEPT !.ret = OK]
        /\ told' = [told EXCEPT ![i] = [g \in McGroups |-> IF g \in s.done THEN Cardinality(usr[i][g])
             ELSE @[g]]]
        /\ odd' = [past EXCEPT ![i] = @ \cup IF e.ret # OK THEN {"nomem"} ELSE {}]
    <3>1. (i \in P) = (i \in all)
      BY <1>10
    <3>2. QED
      BY <1>10, <3>1 DEF SetRxMode, Now
  <2>2. Synced(b, s, i, usr)
    <3> HIDE DEF b
    <3>1. QED
      BY <1>2, <1>3, SyncMcDoes
  <2> HIDE DEF b, s
  <2>3. /\ odd' \in [Ifc -> SUBSET Oddities] /\ past[i] \subseteq odd'[i]
        /\ \A j \in Ifc \ {i} : odd'[j] = past[j]
        /\ "nomem" \notin odd'[i] => e.ret = OK
    BY <2>1 DEF Oddities
  <2>4. Sound(ale') /\ ale'.table = e.table /\ Base(e.table) = Base(b.table)
    BY <2>1, <2>2, RetSound DEF Synced
  <2>5. /\ told' \in [Ifc -> [McGroups -> Nat]] /\ \A j \in Ifc \ {i} : told'[j] = told[j]
        /\ \A g \in McGroups : told'[i][g] = IF g \in s.done THEN Cardinality(usr[i][g]) ELSE told[i][g]
    <3>1. \A g \in McGroups : Cardinality(usr[i][g]) \in Nat
      BY FiniteVids DEF UsersOf
    <3>2. QED
      BY <2>1, <3>1 DEF StateInv
  <2>6. GroupAt(Joined(ale'.table), i, d)
    <3>1. SUFFICES ASSUME Fine(d, i, {"nomem", "shared", "promisc"}), NEW g \in McGroups
                   PROVE  /\ d.told[i][g] = Cardinality(d.users[i][g])
                          /\ \A u \in d.vlans[i] \cup {0} :
                               <<g, Vid(i, u)>> \in Joined(ale'.table) <=> d.told[i][g] # 0
                                 /\ u \in d.users[i][g]
      BY DEF GroupAt
    <3>2. Fine(c0, i, {"nomem", "shared", "promisc"}) /\ e.ret = OK
      BY <1>4, <1>5, <2>3, <3>1 DEF Fine
    <3>3. /\ told[i][g] = Cardinality(users[i][g]) \/ told[i][g] = 0
          /\ \A u \in vlans[i] \cup {0} : <<g, Vid(i, u)>> \in Joined(b.table) <=> told[i][g] # 0
               /\ u \in users[i][g]
      BY <1>2, <1>5, <3>2 DEF GroupAt
    <3>4. /\ s.done = Fewer(i, usr) \cup More(i, usr)
          /\ Joined(e.table) = (Joined(b.table) \ Unused(i, usr, Fewer(i, usr))) \cup Used(i, usr,
               More(i, usr))
      BY <2>2, <3>2 DEF Synced
    <3> DEFINE J == Joined(b.table)
               K == Joined(e.table)
    <3>5. FollowsIn(i, usr, K, g)
      <4>1. vlans[i] \subseteq {0} \cup UserVids /\ devs[i] \subseteq vlans[i] /\ told[i][g] \in Nat
        BY <1>3
      <4>2. K = (J \ Unused(i, usr, Fewer(i, usr))) \cup Used(i, usr, More(i, usr))
        BY <3>4
      <4>3. \A u \in vlans[i] \cup {0} : <<g, Vid(i, u)>> \in J <=> told[i][g] # 0 /\ u \in users[i][g]
        BY <3>3
      <4> HIDE DEF J, K
      <4>4. QED
        BY <3>3, <4>1, <4>2, <4>3, GroupFollows
    <3>6. told'[i][g] = Cardinality(usr[i][g])
      BY <2>5, <3>4, <3>5 DEF FollowsIn
    <3>7. QED
      BY <1>4, <2>4, <3>5, <3>6 DEF FollowsIn
  <2>7. \A p : p[2] \notin VidsOf(i, vlans[i] \cup {0})
          => (p \in Joined(a.table) <=> p \in Joined(ale'.table))
    BY <1>2, <2>2, <2>4 DEF Synced
  <2>8. /\ GivenAt(Base(ale'.table), i, d)
        /\ Refloods(Base(a.table), Base(ale'.table), i)
    BY <1>8, <2>3, <2>4
  <2>9. QED
    BY <1>6, <2>3, <2>4, <2>5, <2>6, <2>7, <2>8 DEF RxSet, IfcAt, GivenAt
<1>11. QED
  BY <1>9, <1>10

-----------------------------------------------------------------------------
(* The invariant.                                                          *)

UsersInv ==
  \A i \in Ifc : /\ UsersOf(i, users)
                 /\ i \notin up => \A g \in McGroups : told[i][g] = 0 /\ users[i][g] \subseteq {0}

\* Interfaces that share a VLAN are known.
Alone(o, j) == "shared" \notin o[j] => \A i \in Ifc \ {j} : (vlans[i] \cap vlans[j]) \ {0} = {}
SharedInv == \A j \in Ifc : Alone(odd, j)

\* A VLAN that is in no filter has no groups.
GoneAt(J) == \A v \in UserVids : (\A i \in Ifc : v \notin vlans[i]) => \A p \in J : p[2] # v

\* The entries of a VLAN are of an interface that has it.
LeftIn(B) ==
  \A e \in B : e.vid \in UserVids => \E i \in Ifc : e.vid \in vlans[i] /\ (IsUcast(e) => e.addr = mac[i])
LeftAt(B, o) == (\A i \in Ifc : o[i] \cap {"shared", "remac"} = {}) => LeftIn(B)

Standing(a, c) ==
  /\ Sound(a)
  /\ \A j \in Ifc : IfcAt(Base(a.table), Joined(a.table), j, c)
  /\ GoneAt(Joined(a.table)) /\ LeftAt(Base(a.table), c.odd)

\* The inductive invariant.
AddrInv == StateInv /\ UsersInv /\ SharedInv /\ Standing(ale, Conf) /\ FloodCovers

\* The VLANs of one interface are not those of another.
LEMMA Apart ==
  ASSUME StateInv, NEW i \in Ifc, NEW j \in Ifc \ {i}, NEW c, c.vlans[j] = vlans[j], Alone(c.odd, j)
  PROVE  Mine(j, c) \cap VidsOf(i, vlans[i] \cup {0}) = {}
<1>1. vlans[i] \subseteq {0} \cup UserVids /\ vlans[j] \subseteq {0} \cup UserVids
  BY DEF StateInv
<1>2. PortVlan[i] # PortVlan[j] /\ PortVlan[i] \notin UserVids /\ PortVlan[j] \notin UserVids
      /\ PortVlan[i] # 0 /\ PortVlan[j] # 0
  BY IfcFacts, PortVlanAssumption
<1>3. VidsOf(i, vlans[i] \cup {0}) \subseteq {PortVlan[i]} \cup (vlans[i] \ {0})
  BY DEF VidsOf, Vid
<1>4. QED
  BY <1>1, <1>2, <1>3 DEF Mine, Alone

\* A change of the flooding of one interface is none of another.
LEMMA RefloodsElse ==
  ASSUME NEW B, \A e \in B : ShapeOf(e), NEW C, NEW i \in Ifc, Refloods(B, C, i), NEW j \in Ifc \ {i},
         NEW c, OwnedAt(B, j, c), NEW d, d.vlans[j] = c.vlans[j], c.odd[j] \subseteq d.odd[j]
  PROVE  SameOn(B, C, Mine(j, d))
<1>1. i \notin Both(j)
  BY DEF Both, Ifc
<1>2. \A e \in B : e.type = "vlan" /\ e.vid \in Mine(j, d) => e.members = Both(j)
  BY DEF ShapeOf, OwnedAt, Mine
<1>3. \A f \in C : f.type = "vlan" /\ f.vid \in Mine(j, d) => f.members = Both(j)
  BY <1>2 DEF Refloods, Like
<1>4. QED
  BY <1>1, <1>2, <1>3 DEF SameOn, Refloods, HasPort

\* What comes of set_rx_mode.
LEMMA RxModeKeeps ==
  ASSUME StateInv, NEW a, Sound(a), NEW past \in [Ifc -> SUBSET Oddities], NEW i \in Ifc,
         UsersOf(i, users'), UsersOf(i, users), Moved(i, users'),
           users' \in [Ifc -> [McGroups -> SUBSET Vids]],
         promisc' \in SUBSET Ifc, allmulti' \in SUBSET Ifc,
         SetRxMode(a, past, i, users', promisc', allmulti'),
         up' = up \cup {i}, UNCHANGED <<mac, vlans, devs>>, bare' \in [Ifc -> SUBSET Vids],
         \A j \in Ifc \ {i} : bare'[j] = bare[j],
         \A j \in Ifc \ {i} : users'[j] = users[j] /\ (j \in promisc' <=> j \in promisc)
           /\ (j \in allmulti' <=> j \in allmulti),
         NEW c, c = [ConfWith(up \cup {i}, past) EXCEPT !.bare = bare'],
         OwnedAt(Base(a.table), i, c), OwnAt(Base(a.table), i, c), VlansAt(Base(a.table), i, c),
         NEW c0, c0 = ConfWith(up, past), GroupAt(Joined(a.table), i, c0),
         \A j \in Ifc \ {i} : IfcAt(Base(a.table), Joined(a.table), j, c0),
         \A j \in Ifc : Alone(past, j), GoneAt(Joined(a.table)), LeftAt(Base(a.table), past)
  PROVE  /\ StateInv' /\ SharedInv' /\ Standing(ale, Conf)' /\ FloodCovers'
         /\ \A j \in Ifc \ {i} : told'[j] = told[j]
<1> DEFINE d == [up |-> up \cup {i}, mac |-> mac, vlans |-> vlans, bare |-> bare', users |-> users',
                     told |-> told', promisc |-> promisc', allmulti |-> allmulti', odd |-> odd']
<1>1. RxSet(a, past, i, promisc', d)
  BY SetRxModeDoes
<1>2. Conf' = d
  BY DEF Conf, ConfWith
<1>3. /\ d.up = up \cup {i} /\ d.mac = mac /\ d.vlans = vlans /\ d.users = users' /\ d.told = told'
      /\ d.promisc = promisc' /\ d.allmulti = allmulti' /\ d.odd = odd' /\ d.bare = bare'
  OBVIOUS
<1>4. /\ c0.up = up /\ c0.mac = mac /\ c0.vlans = vlans /\ c0.users = users /\ c0.told = told
      /\ c0.promisc = promisc /\ c0.allmulti = allmulti /\ c0.odd = past /\ c0.bare = bare
  BY DEF Conf, ConfWith
<1> HIDE DEF d
<1>5. /\ odd' \in [Ifc -> SUBSET Oddities] /\ told' \in [Ifc -> [McGroups -> Nat]]
      /\ \A j \in Ifc : past[j] \subseteq odd'[j]
      /\ flood' = (promisc' # {}) /\ Sound(ale') /\ Refloods(Base(a.table), Base(ale'.table), i)
      /\ \A j \in Ifc \ {i} : told'[j] = told[j] /\ odd'[j] = past[j]
  BY <1>1 DEF RxSet
<1>6. StateInv'
  BY <1>5 DEF StateInv
<1>7. SharedInv'
  BY <1>5 DEF SharedInv, Alone
<1>8. FloodCovers'
  BY <1>5 DEF FloodCovers
<1>9. ASSUME NEW j \in Ifc PROVE IfcAt(Base(ale'.table), Joined(ale'.table), j, d)
  <2>1. CASE j = i
    BY <1>1, <2>1 DEF RxSet
  <2>2. CASE j # i
    <3>1. IfcAt(Base(a.table), Joined(a.table), j, c0)
      BY <2>2
    <3>2. Keeps(c0, d, j)
      BY <1>3, <1>4, <1>5, <2>2 DEF Keeps, Wanted
    <3>3. SameOn(Base(a.table), Base(ale'.table), Mine(j, d))
      <4>1. \A e \in Base(a.table) : ShapeOf(e)
        BY DEF Sound, Base
      <4>2. OwnedAt(Base(a.table), j, c0)
        BY <3>1 DEF IfcAt
      <4>3. Refloods(Base(a.table), Base(ale'.table), i) /\ d.vlans[j] = c0.vlans[j]
              /\ c0.odd[j] \subseteq d.odd[j]
        BY <1>3, <1>4, <1>5
      <4>4. QED
        BY <2>2, <4>1, <4>2, <4>3, RefloodsElse
    <3>4. SameAt(Joined(a.table), Joined(ale'.table), Mine(j, d))
      <4>1. d.vlans[j] = vlans[j] /\ Alone(d.odd, j)
        BY <1>3, <1>5 DEF Alone
      <4>2. Mine(j, d) \cap VidsOf(i, vlans[i] \cup {0}) = {}
        BY <2>2, <4>1, Apart
      <4>3. QED
        BY <1>1, <4>2 DEF SameAt, RxSet
    <3>5. QED
      BY <3>1, <3>2, <3>3, <3>4, IfcKept
  <2>3. QED
    BY <2>1, <2>2
<1>10. GoneAt(Joined(ale'.table))
  <2>1. SUFFICES ASSUME NEW v \in UserVids, \A j \in Ifc : v \notin vlans[j], NEW p \in Joined(ale'.table),
                        p[2] = v
                 PROVE  FALSE
    BY DEF GoneAt
  <2>2. v \notin VidsOf(i, vlans[i] \cup {0})
    BY <2>1, IfcFacts DEF VidsOf, Vid
  <2>3. p \in Joined(a.table)
    BY <1>1, <2>1, <2>2 DEF RxSet
  <2>4. QED
    BY <2>1, <2>3 DEF GoneAt
<1>11. LeftAt(Base(ale'.table), odd')
  <2>1. SUFFICES ASSUME \A j \in Ifc : odd'[j] \cap {"shared", "remac"} = {} PROVE LeftIn(Base(ale'.table))
    BY DEF LeftAt
  <2>2. LeftIn(Base(a.table))
    BY <1>5, <2>1 DEF LeftAt
  <2>3. QED
    BY <1>5, <2>2 DEF LeftIn, Refloods, Like, IsUcast
<1>12. QED
  <2>1. GoneAt(Joined(ale.table))'
    BY <1>10 DEF GoneAt
  <2>2. LeftAt(Base(ale.table), Conf.odd)'
    BY <1>2, <1>3, <1>11 DEF LeftAt, LeftIn
  <2>3. (\A j \in Ifc : IfcAt(Base(ale.table), Joined(ale.table), j, Conf))'
    BY <1>2, <1>9
  <2>4. Standing(ale, Conf)'
    BY <1>5, <2>1, <2>2, <2>3 DEF Standing
  <2>5. QED
    BY <1>5, <1>6, <1>7, <1>8, <2>4

-----------------------------------------------------------------------------
(* Users and flags.                                                        *)

\* Without a call of set_rx_mode, and none is due for an interface that is not open.
LEMMA NotCalledKeeps ==
  ASSUME AddrInv, NEW i \in Ifc \ up, NotCalled, UNCHANGED <<up, mac, vlans, devs, bare>>,
         users' \in [Ifc -> [McGroups -> SUBSET Vids]], promisc' \in SUBSET Ifc, allmulti' \in SUBSET Ifc,
         \A j \in Ifc \ {i} : users'[j] = users[j] /\ (j \in promisc' <=> j \in promisc)
           /\ (j \in allmulti' <=> j \in allmulti)
  PROVE  StateInv' /\ SharedInv' /\ Standing(ale, Conf)' /\ FloodCovers'
<1> USE DEF AddrInv
<1>1. UNCHANGED <<ale, flood, told, odd>>
  BY DEF NotCalled
<1>2. StateInv' /\ SharedInv' /\ FloodCovers'
  BY <1>1 DEF StateInv, SharedInv, Alone, FloodCovers
<1> DEFINE d == Conf'
           B == Base(ale.table)
           J == Joined(ale.table)
<1>3. /\ Conf.up = up /\ Conf.mac = mac /\ Conf.vlans = vlans /\ Conf.users = users /\ Conf.told = told
      /\ Conf.promisc = promisc /\ Conf.allmulti = allmulti /\ Conf.odd = odd /\ Conf.bare = bare
  BY DEF Conf, ConfWith
<1>4. /\ d.up = up /\ d.mac = mac /\ d.vlans = vlans /\ d.users = users' /\ d.told = told
      /\ d.promisc = promisc' /\ d.allmulti = allmulti' /\ d.odd = odd /\ d.bare = bare
  BY <1>1 DEF Conf, ConfWith
<1> HIDE DEF d, B, J
<1>5. ASSUME NEW j \in Ifc PROVE IfcAt(B, J, j, d)
  <2>1. IfcAt(B, J, j, Conf)
    BY DEF Standing, B, J
  <2>2. CASE j = i
    <3>1. OwnedAt(B, j, d)
      BY <1>3, <1>4, <2>1 DEF OwnedAt, IfcAt
    <3>2. j \notin d.up
      BY <1>4, <2>2
    <3>3. GroupAt(J, j, d)
      <4>1. \A g \in McGroups : told[j][g] = 0
        BY <2>2 DEF UsersInv
      <4>2. Fine(Conf, j, {"nomem", "shared", "promisc"}) <=> Fine(d, j, {"nomem", "shared", "promisc"})
        BY <1>3, <1>4 DEF Fine
      <4>3. QED
        BY <1>3, <1>4, <2>1, <3>2, <4>1, <4>2 DEF GroupAt, IfcAt
    <3>4. QED
      BY <3>1, <3>2, <3>3 DEF IfcAt, OwnAt, VlansAt, AllAt
  <2>3. CASE j # i
    <3>1. Keeps(Conf, d, j)
      BY <1>3, <1>4, <2>3 DEF Keeps, Wanted
    <3>2. SameOn(B, B, Mine(j, d)) /\ SameAt(J, J, Mine(j, d))
      BY DEF SameOn, SameAt
    <3>3. QED
      BY <2>1, <3>1, <3>2, IfcKept
  <2>4. QED
    BY <2>2, <2>3
<1>6. Standing(ale, Conf)'
  <2>1. (\A j \in Ifc : IfcAt(Base(ale.table), Joined(ale.table), j, Conf))'
    BY <1>1, <1>5 DEF d, B, J
  <2>2. GoneAt(Joined(ale.table))'
    BY <1>1 DEF Standing, GoneAt
  <2>3. LeftAt(Base(ale.table), Conf.odd)'
    <3>1. Conf'.odd = Conf.odd
      BY <1>1 DEF Conf, ConfWith
    <3>2. QED
      BY <1>1, <3>1 DEF Standing, LeftAt, LeftIn
  <2>4. QED
    BY <1>1, <2>1, <2>2, <2>3 DEF Standing
<1>7. QED
  BY <1>2, <1>6

\* With one: the interface is open.
LEMMA CalledKeeps ==
  ASSUME AddrInv, NEW i \in up, UNCHANGED <<up, mac, vlans, devs, bare>>,
         users' \in [Ifc -> [McGroups -> SUBSET Vids]], promisc' \in SUBSET Ifc, allmulti' \in SUBSET Ifc,
         UsersOf(i, users'), Moved(i, users'),
         \A j \in Ifc \ {i} : users'[j] = users[j] /\ (j \in promisc' <=> j \in promisc)
           /\ (j \in allmulti' <=> j \in allmulti),
         SetRxMode(ale, odd, i, users', promisc', allmulti')
  PROVE  /\ StateInv' /\ SharedInv' /\ Standing(ale, Conf)' /\ FloodCovers'
         /\ \A j \in Ifc \ {i} : told'[j] = told[j]
<1>1. i \in Ifc /\ up \cup {i} = up /\ up' = up \cup {i}
  BY DEF AddrInv, StateInv
<1>2. /\ [ConfWith(up \cup {i}, odd) EXCEPT !.bare = bare'] = Conf /\ ConfWith(up, odd) = Conf
      /\ bare' \in [Ifc -> SUBSET Vids] /\ \A j \in Ifc \ {i} : bare'[j] = bare[j]
  <2>1. bare' = bare /\ bare \in [Ifc -> SUBSET Vids]
    BY DEF AddrInv, StateInv
  <2>2. ConfWith(up \cup {i}, odd) = Conf /\ ConfWith(up, odd) = Conf
    BY <1>1 DEF Conf
  <2>3. [Conf EXCEPT !.bare = bare] = Conf
    BY DEF Conf, ConfWith
  <2>4. QED
    BY <2>1, <2>2, <2>3
<1>3. Sound(ale) /\ \A j \in Ifc : IfcAt(Base(ale.table), Joined(ale.table), j, Conf)
  BY DEF AddrInv, Standing
<1>4. OwnedAt(Base(ale.table), i, Conf) /\ OwnAt(Base(ale.table), i, Conf)
        /\ VlansAt(Base(ale.table), i, Conf)
      /\ GroupAt(Joined(ale.table), i, Conf)
  BY <1>1, <1>3 DEF IfcAt
<1>5. UsersOf(i, users) /\ odd \in [Ifc -> SUBSET Oddities] /\ StateInv
  BY <1>1 DEF AddrInv, UsersInv, StateInv
<1>6. (\A j \in Ifc : Alone(odd, j)) /\ GoneAt(Joined(ale.table)) /\ LeftAt(Base(ale.table), odd)
  BY DEF AddrInv, SharedInv, Standing, Conf, ConfWith
<1>7. \A j \in Ifc \ {i} : IfcAt(Base(ale.table), Joined(ale.table), j, Conf)
  BY <1>3
<1>8. QED
  BY <1>1, <1>2, <1>3, <1>4, <1>5, <1>6, <1>7, RxModeKeeps

\* Users come or go.
LEMMA ChangeUsersKeeps ==
  ASSUME AddrInv, NEW i \in Ifc, NEW usr \in [Ifc -> [McGroups -> SUBSET Vids]], UsersOf(i, usr),
         Moved(i, usr),
         i \notin up => \A g \in McGroups : usr[i][g] \subseteq {0},
         \A j \in Ifc \ {i} : usr[j] = users[j], ChangeUsers(i, usr)
  PROVE  AddrInv'
<1>1. users' = usr /\ UNCHANGED <<up, mac, vlans, devs, bare, promisc, allmulti>>
  BY DEF ChangeUsers, cfgVars, vlanVars, flagVars
<1>2. promisc' \in SUBSET Ifc /\ allmulti' \in SUBSET Ifc
  BY <1>1 DEF AddrInv, StateInv
<1>3. CASE i \in up
  <2>1. SetRxMode(ale, odd, i, users', promisc', allmulti')
    BY <1>1, <1>3 DEF ChangeUsers
  <2>2. UsersOf(i, users') /\ Moved(i, users') /\ users' \in [Ifc -> [McGroups -> SUBSET Vids]]
    BY <1>1
  <2>3. /\ StateInv' /\ SharedInv' /\ Standing(ale, Conf)' /\ FloodCovers'
        /\ \A j \in Ifc \ {i} : told'[j] = told[j]
    BY <1>1, <1>2, <1>3, <2>1, <2>2, CalledKeeps
  <2>4. UsersInv'
    BY <1>1, <1>3, <2>3 DEF AddrInv, UsersInv, UsersOf
  <2>5. QED
    BY <2>3, <2>4 DEF AddrInv
<1>4. CASE i \notin up
  <2>1. NotCalled
    BY <1>4 DEF ChangeUsers
  <2>2. StateInv' /\ SharedInv' /\ Standing(ale, Conf)' /\ FloodCovers'
    BY <1>1, <1>2, <1>4, <2>1, NotCalledKeeps
  <2>3. UsersInv'
    BY <1>1, <1>4, <2>1 DEF AddrInv, UsersInv, UsersOf, NotCalled
  <2>4. QED
    BY <2>2, <2>3 DEF AddrInv
<1>5. QED
  BY <1>3, <1>4

\* A user joins.
LEMMA JoinKeeps ==
  ASSUME AddrInv, NEW i \in Ifc, NEW u \in Vids, NEW g \in McGroups, Join(i, u, g)
  PROVE  AddrInv'
<1> DEFINE usr == [users EXCEPT ![i][g] = @ \cup {u}]
<1>1. ChangeUsers(i, usr) /\ u \in {0} \cup (IF i \in up THEN devs[i] ELSE {})
      /\ devs[i] \subseteq vlans[i]
  BY DEF Join, AddrInv, StateInv
<1>2. users \in [Ifc -> [McGroups -> SUBSET Vids]]
  BY DEF AddrInv, StateInv
<1>3. usr \in [Ifc -> [McGroups -> SUBSET Vids]]
  BY <1>2
<1>4. \A h \in McGroups : usr[i][h] = IF h = g THEN users[i][h] \cup {u} ELSE users[i][h]
  BY <1>2
<1>5. \A j \in Ifc \ {i} : usr[j] = users[j]
  BY <1>2
<1> HIDE DEF usr
<1>6. UsersOf(i, users) /\ (i \notin up => \A h \in McGroups : users[i][h] \subseteq {0})
  BY DEF AddrInv, UsersInv
<1>7. UsersOf(i, usr) /\ (i \notin up => \A h \in McGroups : usr[i][h] \subseteq {0})
  BY <1>1, <1>4, <1>6 DEF UsersOf
<1>8. Moved(i, usr)
  BY <1>4 DEF Moved
<1>9. QED
  BY <1>1, <1>3, <1>5, <1>7, <1>8, ChangeUsersKeeps

\* A user leaves.
LEMMA LeaveKeeps ==
  ASSUME AddrInv, NEW i \in Ifc, NEW u \in Vids, NEW g \in McGroups, Leave(i, u, g)
  PROVE  AddrInv'
<1> DEFINE usr == [users EXCEPT ![i][g] = @ \ {u}]
<1>1. ChangeUsers(i, usr)
  BY DEF Leave
<1>2. users \in [Ifc -> [McGroups -> SUBSET Vids]]
  BY DEF AddrInv, StateInv
<1>3. usr \in [Ifc -> [McGroups -> SUBSET Vids]]
  BY <1>2
<1>4. \A h \in McGroups : usr[i][h] = IF h = g THEN users[i][h] \ {u} ELSE users[i][h]
  BY <1>2
<1>5. \A j \in Ifc \ {i} : usr[j] = users[j]
  BY <1>2
<1> HIDE DEF usr
<1>6. UsersOf(i, users) /\ (i \notin up => \A h \in McGroups : users[i][h] \subseteq {0})
  BY DEF AddrInv, UsersInv
<1>7. UsersOf(i, usr) /\ (i \notin up => \A h \in McGroups : usr[i][h] \subseteq {0})
  BY <1>4, <1>6 DEF UsersOf
<1>8. Moved(i, usr)
  BY <1>4 DEF Moved
<1>9. QED
  BY <1>1, <1>3, <1>5, <1>7, <1>8, ChangeUsersKeeps

\* A flag of an interface changes, open or not.
LEMMA SetFlagsKeeps ==
  ASSUME AddrInv, NEW i \in Ifc, SetFlags(i)
  PROVE  AddrInv'
<1>1. UNCHANGED <<up, mac, vlans, devs, bare, users>>
  BY DEF SetFlags, cfgVars, vlanVars
<1>2. /\ promisc' \in SUBSET Ifc /\ allmulti' \in SUBSET Ifc
      /\ \A j \in Ifc \ {i} : (j \in promisc' <=> j \in promisc) /\ (j \in allmulti' <=> j \in allmulti)
  BY DEF SetFlags, Toggle, AddrInv, StateInv
<1>3. users' \in [Ifc -> [McGroups -> SUBSET Vids]] /\ UsersOf(i, users') /\ Moved(i, users')
  BY <1>1 DEF AddrInv, StateInv, UsersInv, Moved
<1>4. CASE i \in up
  <2>1. SetRxMode(ale, odd, i, users', promisc', allmulti')
    BY <1>1, <1>4 DEF SetFlags
  <2>2. /\ StateInv' /\ SharedInv' /\ Standing(ale, Conf)' /\ FloodCovers'
        /\ \A j \in Ifc \ {i} : told'[j] = told[j]
    BY <1>1, <1>2, <1>3, <1>4, <2>1, CalledKeeps
  <2>3. UsersInv'
    BY <1>1, <1>4, <2>2 DEF AddrInv, UsersInv, UsersOf
  <2>4. QED
    BY <2>2, <2>3 DEF AddrInv
<1>5. CASE i \notin up
  <2>1. NotCalled
    BY <1>5 DEF SetFlags
  <2>2. StateInv' /\ SharedInv' /\ Standing(ale, Conf)' /\ FloodCovers'
    BY <1>1, <1>2, <1>3, <1>5, <2>1, NotCalledKeeps
  <2>3. UsersInv'
    BY <1>1, <1>5, <2>1 DEF AddrInv, UsersInv, UsersOf, NotCalled
  <2>4. QED
    BY <2>2, <2>3 DEF AddrInv
<1>6. QED
  BY <1>4, <1>5

-----------------------------------------------------------------------------
(* Addresses and VLANs.                                                    *)

\* The record says what the variables say.
LEMMA ConfIs ==
  /\ Conf.up = up /\ Conf.mac = mac /\ Conf.vlans = vlans /\ Conf.users = users /\ Conf.told = told
  /\ Conf.promisc = promisc /\ Conf.allmulti = allmulti /\ Conf.odd = odd /\ Conf.bare = bare
BY DEF Conf, ConfWith

\* An interface that is not open needs nothing, if nobody is told and nothing is there.
LEMMA ClosedAt ==
  ASSUME NEW B, \A f \in B : f.vid = 0, NEW j \in Ifc, NEW c, j \notin c.up,
         \A g \in McGroups : c.told[j][g] = 0
  PROVE  IfcAt(B, {}, j, c)
BY DEF IfcAt, OwnedAt, OwnAt, VlansAt, AllAt, GroupAt

\* The old address may have gone without a new one; the VLANs keep the old one.
LEMMA SetMacAddressKeeps ==
  ASSUME AddrInv, NEW i \in Ifc, NEW x \in Stations, SetMacAddress(i, x)
  PROVE  AddrInv'
<1> DEFINE a == NewMac(ale, i, x)
           d == Conf'
           B == Base(ale.table)
           C == Base(a.table)
           J == Joined(ale.table)
           v == PortVlan[i]
<1>1. /\ ale' = [a EXCEPT !.ret = OK]
      /\ odd' = [odd EXCEPT ![i] = @ \cup (IF a.ret # OK THEN {"nomem"} ELSE {})
                                         \cup (IF vlans[i] # {} THEN {"remac"} ELSE {})]
      /\ mac' = [mac EXCEPT ![i] = x]
      /\ UNCHANGED <<flood, up, vlans, devs, bare, promisc, allmulti, users, told>>
  BY DEF SetMacAddress, Now, vlanVars, flagVars, mcVars
<1>2. StateInv /\ Sound(ale)
  BY DEF AddrInv, Standing
<1>3. /\ Sound(a) /\ a.ret \in {OK, ENOMEM} /\ Joined(a.table) = J
      /\ \A f : ~(f.type = "addr" /\ f.vid = v /\ f.addr \in Stations) => (f \in B <=> f \in C)
      /\ a.ret = OK => HasSecure(C, x, v)
  <2>1. mac[i] \in Stations
    BY <1>2 DEF StateInv
  <2>2. QED
    BY <1>2, <2>1, NewMacDoes
<1> HIDE DEF a
<1>4. Sound(ale') /\ ale'.table = a.table
  BY <1>1, <1>3, RetSound
<1>5. /\ odd' \in [Ifc -> SUBSET Oddities] /\ mac' \in [Ifc -> Stations]
      /\ \A j \in Ifc : odd[j] \subseteq odd'[j] /\ (j # i => odd'[j] = odd[j] /\ mac'[j] = mac[j])
      /\ mac'[i] = x /\ ("nomem" \notin odd'[i] => a.ret = OK) /\ ("remac" \notin odd'[i] => vlans[i] = {})
  BY <1>1, <1>2 DEF StateInv, Oddities
<1>6. StateInv' /\ UsersInv' /\ SharedInv' /\ FloodCovers'
  BY <1>1, <1>5 DEF AddrInv, StateInv, UsersInv, UsersOf, SharedInv, Alone, FloodCovers
<1>7. /\ d.up = up /\ d.mac = mac' /\ d.vlans = vlans /\ d.users = users /\ d.told = told
      /\ d.promisc = promisc /\ d.allmulti = allmulti /\ d.odd = odd' /\ d.bare = bare
  BY <1>1 DEF Conf, ConfWith
<1> HIDE DEF d, B, C, J
<1>8. ASSUME NEW j \in Ifc PROVE IfcAt(C, J, j, d)
  <2>1. IfcAt(B, J, j, Conf)
    BY DEF AddrInv, Standing, B, J
  <2>2. SameAt(J, J, Mine(j, d))
    BY DEF SameAt
  <2>3. CASE j # i
    <3>1. v \notin Mine(j, d)
      <4>1. v # PortVlan[j] /\ v \notin UserVids /\ d.vlans[j] \subseteq {0} \cup UserVids /\ v # 0
        BY <1>2, <1>7, <2>3, IfcFacts, PortVlanAssumption DEF StateInv
      <4>2. QED
        BY <4>1 DEF Mine
    <3>2. SameOn(B, C, Mine(j, d))
      BY <1>3, <3>1 DEF SameOn
    <3>3. Keeps(Conf, d, j)
      BY <1>5, <1>7, <2>3, ConfIs DEF Keeps, Wanted
    <3>4. QED
      BY <2>1, <2>2, <3>2, <3>3, IfcKept
  <2>4. CASE j = i
    <3>1. \A f : f.type = "vlan" => (f \in B <=> f \in C)
      BY <1>3
    <3>2. \A S : Fine(d, j, S) => Fine(Conf, j, S)
      BY <1>5, <1>7, ConfIs DEF Fine
    <3>3. OwnedAt(C, j, d)
      BY <1>5, <1>7, <2>1, <3>1, ConfIs DEF OwnedAt, IfcAt
    <3>4. OwnAt(C, j, d)
      <4>1. SUFFICES ASSUME j \in d.up, Fine(d, j, {"nomem"})
                     PROVE  ServedIn(C, j, d.mac[j], PortVlan[j]) /\ HasSecure(C, d.mac[j], PortVlan[j])
        BY DEF OwnAt
      <4>2. a.ret = OK
        BY <1>5, <1>7, <2>4, <4>1 DEF Fine
      <4>3. HasSecure(C, x, v)
        BY <1>3, <4>2
      <4>4. ServedIn(B, j, mac[j], v)
        BY <1>7, <2>1, <2>4, <3>2, <4>1, ConfIs DEF OwnAt, IfcAt
      <4>5. HasVlan(C, j, v)
        BY <3>1, <4>4 DEF ServedIn, HasVlan
      <4>6. HasBcast(C, v)
        BY <1>3, <4>4, GroupFacts DEF ServedIn, HasBcast
      <4>7. HasAddr(C, x, v)
        BY <4>3 DEF HasSecure, HasAddr
      <4>8. QED
        BY <1>5, <1>7, <2>4, <4>3, <4>5, <4>6, <4>7 DEF ServedIn
    <3>5. VlansAt(C, j, d)
      <4>1. Fine(d, j, {"nomem", "shared", "remac"}) => d.vlans[j] = {}
        BY <1>5, <1>7, <2>4 DEF Fine
      <4>2. QED
        BY <4>1 DEF VlansAt, Wanted
    <3>6. AllAt(C, j, d)
      BY <1>7, <2>1, <3>1, <3>2, ConfIs DEF AllAt, IfcAt, FloodsTo
    <3>7. GroupAt(J, j, d)
      BY <1>7, <2>1, <3>2, ConfIs DEF GroupAt, IfcAt
    <3>8. QED
      BY <3>3, <3>4, <3>5, <3>6, <3>7 DEF IfcAt
  <2>5. QED
    BY <2>3, <2>4
<1>9. Standing(ale, Conf)'
  <2>1. (\A j \in Ifc : IfcAt(Base(ale.table), Joined(ale.table), j, Conf))'
    BY <1>3, <1>4, <1>8 DEF d, C, J
  <2>2. GoneAt(Joined(ale.table))'
    BY <1>1, <1>3, <1>4 DEF AddrInv, Standing, GoneAt, J
  <2>3. LeftAt(Base(ale.table), Conf.odd)'
    <3>1. SUFFICES ASSUME \A j \in Ifc : odd'[j] \cap {"shared", "remac"} = {}, NEW e \in C,
                          e.vid \in UserVids
                   PROVE  \E j \in Ifc : e.vid \in vlans[j] /\ (IsUcast(e) => e.addr = mac'[j])
      BY <1>1, <1>4, <1>7 DEF LeftAt, LeftIn, d, C
    <3>2. LeftIn(B)
      BY <1>5, <3>1, ConfIs DEF AddrInv, Standing, LeftAt, B
    <3>3. e \in B
      BY <1>3, <3>1, IfcFacts
    <3>4. vlans[i] = {}
      BY <1>5, <3>1
    <3>5. QED
      BY <1>5, <3>1, <3>2, <3>3, <3>4 DEF LeftIn
  <2>4. QED
    BY <1>4, <2>1, <2>2, <2>3 DEF Standing
<1>10. QED
  BY <1>6, <1>9 DEF AddrInv

\* The VLAN goes from the table though another interface may have it: that one is marked.
LEMMA RxKillVidKeeps ==
  ASSUME AddrInv, NEW i \in Ifc, NEW v \in Vids, RxKillVid(i, v)
  PROVE  AddrInv'
<1> DEFINE a == IF v # 0 /\ VlanAllowed(v) THEN KillVlan(ale, i, v) ELSE ale
           d == Conf'
           B == Base(ale.table)
           C == Base(a.table)
           J == Joined(ale.table)
           K == Joined(a.table)
<1>1. /\ ale' = [a EXCEPT !.ret = OK] /\ v \in vlans[i] /\ \A g \in McGroups : v \notin users[i][g]
      /\ vlans' = [vlans EXCEPT ![i] = @ \ {v}]
      /\ devs' = [devs EXCEPT ![i] = @ \ {v}] /\ bare' = [bare EXCEPT ![i] = @ \ {v}]
      /\ UNCHANGED <<flood, up, mac, promisc, allmulti, users, told, odd>>
  BY DEF RxKillVid, Now, flagVars, mcVars
<1>2. StateInv /\ Sound(ale)
  BY DEF AddrInv, Standing
<1>3. /\ vlans' \in [Ifc -> SUBSET ({0} \cup UserVids)]
      /\ \A j \in Ifc : /\ vlans'[j] = IF j = i THEN vlans[j] \ {v} ELSE vlans[j]
                        /\ devs'[j] = IF j = i THEN devs[j] \ {v} ELSE devs[j]
                        /\ bare'[j] = IF j = i THEN bare[j] \ {v} ELSE bare[j]
      /\ devs' \in [Ifc -> SUBSET UserVids] /\ bare' \in [Ifc -> SUBSET Vids]
  BY <1>1, <1>2 DEF StateInv
<1>4. v = 0 \/ (v \in UserVids /\ VlanAllowed(v) /\ v # 0)
  BY <1>1, <1>2 DEF StateInv, UserVids, VlanAllowed
<1>5. /\ Sound(a) /\ C \subseteq B /\ K \subseteq J
      /\ v = 0 => C = B /\ K = J
      /\ \A f : f.vid # v => (f \in B <=> f \in C)
      /\ \A p : p[2] # v => (p \in J <=> p \in K)
      /\ v # 0 => (\A p \in K : p[2] # v) /\ (\A f \in C : f.vid = v => IsUcast(f) /\ f.addr # mac[i])
  <2>1. CASE v = 0
    BY <1>2, <2>1
  <2>2. CASE v # 0
    <3>1. a = KillVlan(ale, i, v) /\ mac[i] \in Stations
      BY <1>2, <1>4, <2>2 DEF StateInv
    <3> HIDE DEF a, B, C, J, K
    <3>2. /\ Sound(a) /\ Joined(a.table) = OutOf(Joined(ale.table), v)
          /\ Base(a.table) \subseteq Base(ale.table)
          /\ SameElse(Base(ale.table), Base(a.table), {v})
          /\ \A f \in Base(a.table) : f.vid = v => IsUcast(f) /\ f.addr # mac[i]
      BY <1>2, <3>1, KillVlanDoes
    <3>3. QED
      BY <2>2, <3>2 DEF SameElse, OutOf, B, C, J, K
  <2>3. QED
    BY <2>1, <2>2
<1> HIDE DEF a
<1>6. Sound(ale') /\ ale'.table = a.table
  BY <1>1, <1>5, RetSound
<1>7. StateInv' /\ FloodCovers' /\ SharedInv'
  BY <1>1, <1>3 DEF AddrInv, StateInv, SharedInv, Alone, FloodCovers
<1>8. UsersInv'
  BY <1>1, <1>3 DEF AddrInv, UsersInv, UsersOf
<1>9. /\ d.up = up /\ d.mac = mac /\ d.vlans = vlans' /\ d.users = users /\ d.told = told
      /\ d.promisc = promisc /\ d.allmulti = allmulti /\ d.odd = odd /\ d.bare = bare'
  BY <1>1 DEF Conf, ConfWith
<1> HIDE DEF d, B, C, J, K
<1>10. ASSUME NEW j \in Ifc PROVE IfcAt(C, K, j, d)
  <2>1. IfcAt(B, J, j, Conf)
    BY DEF AddrInv, Standing, B, J
  <2>2. v = 0 \/ v \notin Mine(j, d)
    <3>1. v \in UserVids => v # PortVlan[j]
      BY IfcFacts
    <3>2. j = i => v \notin d.vlans[j]
      BY <1>3, <1>9
    <3>3. j # i /\ v # 0 /\ v \in d.vlans[j] => "shared" \in d.odd[j]
      <4>1. SUFFICES ASSUME j # i, v # 0, v \in vlans[j] PROVE "shared" \in odd[j]
        BY <1>3, <1>9
      <4>2. v \in (vlans[i] \cap vlans[j]) \ {0}
        BY <1>1, <4>1
      <4>3. QED
        BY <4>1, <4>2 DEF AddrInv, SharedInv, Alone
    <3>4. QED
      BY <1>4, <3>1, <3>2, <3>3 DEF Mine
  <2>3. SameOn(B, C, Mine(j, d)) /\ SameAt(J, K, Mine(j, d))
    BY <1>5, <2>2 DEF SameOn, SameAt
  <2>4. Keeps(Conf, d, j)
    BY <1>3, <1>9, ConfIs DEF Keeps, Wanted
  <2>5. QED
    BY <2>1, <2>3, <2>4, IfcKept
<1>11. Standing(ale, Conf)'
  <2>1. (\A j \in Ifc : IfcAt(Base(ale.table), Joined(ale.table), j, Conf))'
    BY <1>6, <1>10 DEF d, C, K
  <2>2. GoneAt(Joined(ale.table))'
    <3>1. SUFFICES ASSUME NEW w \in UserVids, \A j \in Ifc : w \notin vlans'[j], NEW p \in K, p[2] = w
                   PROVE  FALSE
      BY <1>6 DEF GoneAt, K
    <3>2. w # v
      BY <1>5, <3>1 DEF UserVids
    <3>3. (\A j \in Ifc : w \notin vlans[j]) /\ p \in J
      BY <1>3, <1>5, <3>1, <3>2
    <3>4. QED
      BY <3>1, <3>3 DEF AddrInv, Standing, GoneAt, J
  <2>3. LeftAt(Base(ale.table), Conf.odd)'
    <3>1. SUFFICES ASSUME \A j \in Ifc : odd[j] \cap {"shared", "remac"} = {}, NEW e \in C,
                          e.vid \in UserVids
                   PROVE  \E j \in Ifc : e.vid \in vlans'[j] /\ (IsUcast(e) => e.addr = mac[j])
      BY <1>1, <1>6, <1>9 DEF LeftAt, LeftIn, d, C
    <3>2. LeftIn(B)
      BY <3>1, ConfIs DEF AddrInv, Standing, LeftAt, B
    <3>3. e \in B
      BY <1>5, <3>1
    <3>4. PICK j \in Ifc : e.vid \in vlans[j] /\ (IsUcast(e) => e.addr = mac[j])
      BY <3>1, <3>2, <3>3 DEF LeftIn
    <3>5. e.vid = v => j # i
      BY <1>5, <3>1, <3>4 DEF UserVids
    <3>6. QED
      BY <1>3, <3>4, <3>5
  <2>4. QED
    BY <1>6, <2>1, <2>2, <2>3 DEF Standing
<1>12. QED
  BY <1>7, <1>8, <1>11 DEF AddrInv

\* An interface that has a VLAN more.
LEMMA VlanComes ==
  ASSUME NEW B, \A e, f \in B : SameKey(e, f) /\ e.type = "vlan" /\ f.type = "vlan" => e = f,
         NEW J, NEW i \in Ifc, NEW v \in UserVids, NEW c, IfcAt(B, J, i, c), NEW d,
         d.up = c.up /\ d.mac = c.mac /\ d.users = c.users /\ d.told = c.told /\ d.odd = c.odd
         /\ d.promisc = c.promisc /\ d.allmulti = c.allmulti /\ d.vlans[i] = c.vlans[i] \cup {v}
         /\ d.bare = c.bare,
         ServedIn(B, i, c.mac[i], v), FloodsTo(B, v, i \in c.allmulti),
         "shared" \notin c.odd[i] => \A g \in McGroups : <<g, v>> \notin J /\ v \notin c.users[i][g]
  PROVE  IfcAt(B, J, i, d)
<1>1. v # 0 /\ Vid(i, v) = v
  BY DEF UserVids, Vid
<1>2. \A S : Fine(d, i, S) <=> Fine(c, i, S)
  BY DEF Fine
<1>3. OwnedAt(B, i, d)
  <2>1. PICK f \in B : f.type = "vlan" /\ f.vid = v /\ f.members = Both(i)
    BY DEF ServedIn, HasVlan
  <2>2. \A e \in B : e.type = "vlan" /\ e.vid = v => e.members = Both(i)
    BY <2>1 DEF SameKey
  <2>3. QED
    BY <2>2 DEF OwnedAt, IfcAt
<1>4. OwnAt(B, i, d)
  BY <1>2 DEF OwnAt, IfcAt
<1>5. VlansAt(B, i, d)
  BY <1>2 DEF VlansAt, IfcAt, Wanted
<1>6. AllAt(B, i, d)
  BY <1>1, <1>2 DEF AllAt, IfcAt, VidsOf, FloodsTo
<1>7. GroupAt(J, i, d)
  <2>1. SUFFICES ASSUME Fine(d, i, {"nomem", "shared", "promisc"}), NEW g \in McGroups
                 PROVE  /\ d.told[i][g] = Cardinality(d.users[i][g])
                             \/ (d.told[i][g] = 0 /\ (i \notin d.up \/ i \in d.promisc))
                        /\ \A u \in d.vlans[i] \cup {0} : <<g, Vid(i, u)>> \in J <=> d.told[i][g] # 0
                             /\ u \in d.users[i][g]
    BY DEF GroupAt
  <2>2. /\ c.told[i][g] = Cardinality(c.users[i][g])
             \/ (c.told[i][g] = 0 /\ (i \notin c.up \/ i \in c.promisc))
        /\ \A u \in c.vlans[i] \cup {0} : <<g, Vid(i, u)>> \in J <=> c.told[i][g] # 0 /\ u \in c.users[i][g]
    BY <1>2, <2>1 DEF GroupAt, IfcAt
  <2>3. <<g, v>> \notin J /\ v \notin c.users[i][g]
    BY <1>2, <2>1 DEF Fine
  <2>4. QED
    BY <1>1, <2>2, <2>3
<1>8. QED
  BY <1>3, <1>4, <1>5, <1>6, <1>7 DEF IfcAt

\* The VLAN comes, or nothing of it; one that another interface has is taken from that one.
LEMMA RxAddVidKeeps ==
  ASSUME AddrInv, NEW i \in Ifc, NEW v \in Vids, NEW dev \in BOOLEAN, RxAddVid(i, v, dev)
  PROVE  AddrInv'
<1> DEFINE a == IF v = 0 THEN ale
                ELSE IF VlanAllowed(v) THEN AddVlanAleEntry(ale, i, v) ELSE [ale EXCEPT !.ret = "EINVAL"]
           share == {j \in Others(i) : v \in vlans[j] /\ v # 0}
           d == Conf'
           B == Base(ale.table)
           C == Base(a.table)
           J == Joined(ale.table)
<1>1. /\ ale' = [a EXCEPT !.ret = OK] /\ v \notin vlans[i]
      /\ vlans' = [vlans EXCEPT ![i] = IF a.ret = OK THEN @ \cup {v} ELSE @]
      /\ devs' = [devs EXCEPT ![i] = IF a.ret = OK /\ dev THEN @ \cup {v} ELSE @]
      /\ dev => v \in UserVids
      /\ odd' = [j \in Ifc |-> IF share # {} /\ j \in share \cup {i} THEN odd[j] \cup {"shared"}
           ELSE odd[j]]
      /\ UNCHANGED <<flood, up, mac, bare, promisc, allmulti, users, told>>
  BY DEF RxAddVid, Now, flagVars, mcVars
<1>2. StateInv /\ Sound(ale) /\ mac[i] \in Stations
  BY DEF AddrInv, Standing, StateInv
<1>3. v \in UserVids \/ v = 0 \/ (v # 0 /\ ~VlanAllowed(v))
  BY DEF UserVids, VlanAllowed
<1>4. v \in UserVids => VlanAllowed(v) /\ v # 0
  BY DEF UserVids, VlanAllowed
<1>5. /\ odd' \in [Ifc -> SUBSET Oddities]
      /\ \A j \in Ifc : odd[j] \subseteq odd'[j] /\ odd'[j] \subseteq odd[j] \cup {"shared"}
      /\ \A j \in Ifc \ {i} : v # 0 /\ v \in vlans[j] => "shared" \in odd'[j] /\ "shared" \in odd'[i]
  BY <1>1, <1>2 DEF StateInv, Oddities, Others
<1>6. a.ret = OK => v \in UserVids \/ v = 0
  <2>1. SUFFICES ASSUME v # 0, ~VlanAllowed(v) PROVE a.ret # OK
    BY <1>3
  <2>2. a = [ale EXCEPT !.ret = "EINVAL"]
    BY <2>1
  <2>3. a.ret = "EINVAL"
    BY <1>2, <2>2 DEF Sound, Good, Engine
  <2>4. QED
    BY <2>3 DEF OK
<1>7. /\ Sound(ale') /\ ale'.table = a.table /\ Joined(a.table) = J
      /\ \A f : f.vid # v \/ v \notin UserVids => (f \in B <=> f \in C)
      /\ a.ret # OK => C \subseteq B
      /\ \A f \in C : f \in B \/ IsGiven(f, i, mac[i], {v})
      /\ a.ret = OK /\ v # 0 => ServedIn(C, i, mac[i], v) /\ FloodsTo(C, v, i \in allmulti)
  <2>1. CASE v \in UserVids
    <3>1. a = AddVlanAleEntry(ale, i, v)
      BY <1>4, <2>1
    <3> HIDE DEF a
    <3>2. VlanGiven(ale, a, i, mac[i], v, i \in allmulti)
      BY <1>2, <2>1, <3>1, AddVlanAleEntryDoes
    <3>3. Sound(a)
      BY <3>2 DEF VlanGiven
    <3>4. Sound(ale') /\ ale'.table = a.table
      BY <1>1, <3>3, RetSound
    <3>5. QED
      BY <2>1, <3>2, <3>4 DEF VlanGiven, Given, SameElse
  <2>2. CASE v = 0
    <3>1. a = ale
      BY <2>2
    <3>2. Sound(ale') /\ ale'.table = a.table
      BY <1>1, <1>2, <3>1, RetSound
    <3>3. QED
      BY <2>2, <3>1, <3>2 DEF UserVids
  <2>3. CASE v # 0 /\ ~VlanAllowed(v)
    <3>1. a = [ale EXCEPT !.ret = "EINVAL"]
      BY <2>3
    <3>2. ale' = [ale EXCEPT !.ret = OK] /\ a.table = ale.table
      BY <1>1, <1>2, <3>1 DEF Sound, Good, Engine
    <3>3. Sound(ale') /\ ale'.table = a.table
      BY <1>2, <3>2, RetSound
    <3>4. v \notin UserVids /\ a.ret # OK
      BY <1>4, <1>6, <2>3
    <3> HIDE DEF a
    <3>5. QED
      BY <3>2, <3>3, <3>4
  <2>4. QED
    BY <1>3, <2>1, <2>2, <2>3
<1> HIDE DEF a
<1>8. /\ vlans' \in [Ifc -> SUBSET ({0} \cup UserVids)]
      /\ \A j \in Ifc : /\ vlans'[j] = IF j = i /\ a.ret = OK THEN vlans[j] \cup {v} ELSE vlans[j]
                        /\ devs'[j] = IF j = i /\ a.ret = OK /\ dev THEN devs[j] \cup {v} ELSE devs[j]
      /\ devs' \in [Ifc -> SUBSET UserVids]
  BY <1>1, <1>2, <1>6 DEF StateInv
<1>9. StateInv' /\ FloodCovers'
  BY <1>1, <1>5, <1>8 DEF AddrInv, StateInv, FloodCovers
<1>10. UsersInv'
  BY <1>1, <1>8 DEF AddrInv, UsersInv, UsersOf
<1>11. SharedInv'
  <2>1. SUFFICES ASSUME NEW j \in Ifc, "shared" \notin odd'[j], NEW k \in Ifc \ {j},
                        NEW w \in (vlans'[k] \cap vlans'[j]) \ {0}
                 PROVE  FALSE
    BY DEF SharedInv, Alone
  <2>2. (vlans[k] \cap vlans[j]) \ {0} = {}
    BY <1>5, <2>1 DEF AddrInv, SharedInv, Alone
  <2>3. w = v /\ v # 0 /\ (j = i => v \in vlans[k]) /\ (j # i => k = i /\ v \in vlans[j])
    BY <1>8, <2>1, <2>2
  <2>4. QED
    BY <1>5, <2>1, <2>3
<1>12. /\ d.up = up /\ d.mac = mac /\ d.vlans = vlans' /\ d.users = users /\ d.told = told
       /\ d.promisc = promisc /\ d.allmulti = allmulti /\ d.odd = odd' /\ d.bare = bare
  BY <1>1 DEF Conf, ConfWith
<1> HIDE DEF d, B, C, J
<1>13. ASSUME NEW j \in Ifc PROVE IfcAt(C, J, j, d)
  <2> DEFINE c == ConfWith(up, odd')
  <2>1. IfcAt(B, J, j, Conf)
    BY DEF AddrInv, Standing, B, J
  <2>2. /\ c.up = up /\ c.mac = mac /\ c.vlans = vlans /\ c.users = users /\ c.told = told
        /\ c.promisc = promisc /\ c.allmulti = allmulti /\ c.odd = odd' /\ c.bare = bare
    BY DEF ConfWith
  <2> HIDE DEF c
  <2>3. v \notin UserVids \/ v \notin Mine(j, c)
    <3>1. v \in UserVids => v # PortVlan[j] /\ v # 0
      BY <1>4, IfcFacts
    <3>2. j = i => v \notin vlans[j]
      BY <1>1
    <3>3. j # i /\ v # 0 /\ v \in vlans[j] => "shared" \in odd'[j]
      BY <1>5
    <3>4. QED
      BY <2>2, <3>1, <3>2, <3>3 DEF Mine
  <2>4. SameOn(B, C, Mine(j, c)) /\ SameAt(J, J, Mine(j, c))
    BY <1>7, <2>3 DEF SameOn, SameAt
  <2>5. Keeps(Conf, c, j)
    BY <1>5, <2>2, ConfIs DEF Keeps, Wanted
  <2>6. IfcAt(C, J, j, c)
    BY <2>1, <2>4, <2>5, IfcKept
  <2>7. CASE vlans'[j] \ {0} = vlans[j] \ {0}
    <3>1. Keeps(c, d, j)
      BY <1>12, <2>2, <2>7 DEF Keeps, Wanted
    <3>2. SameOn(C, C, Mine(j, d)) /\ SameAt(J, J, Mine(j, d))
      BY DEF SameOn, SameAt
    <3>3. QED
      BY <2>6, <3>1, <3>2, IfcKept
  <2>8. CASE vlans'[j] \ {0} # vlans[j] \ {0}
    <3>1. j = i /\ a.ret = OK /\ v # 0 /\ v \in UserVids
      BY <1>6, <1>8, <2>8
    <3>2. ServedIn(C, i, c.mac[i], v) /\ FloodsTo(C, v, i \in c.allmulti)
      BY <1>7, <2>2, <3>1
    <3>3. \A e, f \in C : SameKey(e, f) /\ e.type = "vlan" /\ f.type = "vlan" => e = f
      <4>1. C \subseteq Contents(ale'.table) /\ Good(ale')
        BY <1>7 DEF C, Base, Sound
      <4>2. QED
        BY <4>1, UniqueIn
    <3>4. ASSUME "shared" \notin c.odd[i], NEW g \in McGroups PROVE <<g, v>> \notin J
                 /\ v \notin c.users[i][g]
      <4>1. \A k \in Ifc : v \notin vlans[k]
        BY <1>1, <1>5, <2>2, <3>1, <3>4
      <4>2. \A p \in J : p[2] # v
        BY <3>1, <4>1 DEF AddrInv, Standing, GoneAt, J
      <4>3. users[i][g] \subseteq vlans[i] \cup {0}
        BY DEF AddrInv, UsersInv, UsersOf
      <4>4. QED
        BY <2>2, <3>1, <4>1, <4>2, <4>3
    <3>5. /\ d.up = c.up /\ d.mac = c.mac /\ d.users = c.users /\ d.told = c.told /\ d.odd = c.odd
          /\ d.promisc = c.promisc /\ d.allmulti = c.allmulti /\ d.vlans[i] = c.vlans[i] \cup {v}
          /\ d.bare = c.bare
      BY <1>8, <1>12, <2>2, <3>1
    <3>6. IfcAt(C, J, i, c)
      BY <2>6, <3>1
    <3>7. IfcAt(C, J, i, d)
      BY <3>1, <3>2, <3>3, <3>4, <3>5, <3>6, VlanComes
    <3>8. QED
      BY <3>1, <3>7
  <2>9. QED
    BY <2>7, <2>8
<1>14. Standing(ale, Conf)'
  <2>1. (\A j \in Ifc : IfcAt(Base(ale.table), Joined(ale.table), j, Conf))'
    BY <1>7, <1>13 DEF d, C
  <2>2. GoneAt(Joined(ale.table))'
    <3>1. GoneAt(J)
      BY DEF AddrInv, Standing, J
    <3>2. QED
      BY <1>7, <1>8, <3>1 DEF GoneAt, J
  <2>3. LeftAt(Base(ale.table), Conf.odd)'
    <3>1. SUFFICES ASSUME \A j \in Ifc : odd'[j] \cap {"shared", "remac"} = {}, NEW e \in C,
                          e.vid \in UserVids
                   PROVE  \E j \in Ifc : e.vid \in vlans'[j] /\ (IsUcast(e) => e.addr = mac[j])
      BY <1>1, <1>7, <1>12 DEF LeftAt, LeftIn, d, C
    <3>2. LeftIn(B)
      BY <1>5, <3>1, ConfIs DEF AddrInv, Standing, LeftAt, B
    <3>3. CASE e \in B
      BY <1>8, <3>1, <3>2, <3>3 DEF LeftIn
    <3>4. CASE e \notin B
      <4>1. IsGiven(e, i, mac[i], {v}) /\ a.ret = OK
        BY <1>7, <3>1, <3>4
      <4>2. e.vid = v /\ (IsUcast(e) => e.addr = mac[i])
        BY <4>1, GroupFacts DEF IsGiven, IsUcast
      <4>3. QED
        BY <1>8, <4>1, <4>2
    <3>5. QED
      BY <3>3, <3>4
  <2>4. QED
    BY <1>7, <2>1, <2>2, <2>3 DEF Standing
<1>15. QED
  BY <1>9, <1>10, <1>11, <1>14 DEF AddrInv

\* A device comes or goes without a call; one that goes is in no group.
LEMMA VlanDeviceKeeps ==
  ASSUME AddrInv, NEW i \in Ifc, NEW v \in Vids, VlanDevice(i, v)
  PROVE  AddrInv'
<1>1. UNCHANGED <<ale, flood, up, mac, vlans, bare, users, told, promisc, allmulti, odd>>
  BY DEF VlanDevice, flagVars, mcVars
<1>2. StateInv /\ UsersInv /\ v \in vlans[i] \cap UserVids
  BY DEF AddrInv, VlanDevice
<1>3. /\ devs' \in [Ifc -> SUBSET UserVids] /\ \A j \in Ifc : devs'[j] \subseteq vlans[j]
      /\ \A j \in Ifc, g \in McGroups : users[j][g] \subseteq devs'[j] \cup {0}
  <2>1. \A j \in Ifc, g \in McGroups : users[j][g] \subseteq devs[j] \cup {0}
    BY <1>2 DEF UsersInv, UsersOf
  <2>2. CASE devs' = [devs EXCEPT ![i] = @ \cup {v}]
    BY <1>2, <2>1, <2>2 DEF StateInv
  <2>3. CASE devs' = [devs EXCEPT ![i] = @ \ {v}] /\ \A g \in McGroups : v \notin users[i][g]
    BY <1>2, <2>1, <2>3 DEF StateInv
  <2>4. QED
    BY <2>2, <2>3 DEF VlanDevice
<1>4. StateInv' /\ UsersInv' /\ SharedInv' /\ FloodCovers'
  <2>1. StateInv'
    BY <1>1, <1>2, <1>3 DEF StateInv
  <2>2. UsersInv'
    BY <1>1, <1>2, <1>3 DEF UsersInv, UsersOf
  <2>3. QED
    BY <1>1, <2>1, <2>2 DEF AddrInv, SharedInv, Alone, FloodCovers
<1>5. Conf' = Conf
  BY <1>1 DEF Conf, ConfWith
<1>6. (\A j \in Ifc : IfcAt(Base(ale.table), Joined(ale.table), j, Conf))'
  BY <1>1, <1>5 DEF AddrInv, Standing
<1>7. GoneAt(Joined(ale.table))' /\ LeftAt(Base(ale.table), Conf.odd)'
  BY <1>1, <1>5 DEF AddrInv, Standing, GoneAt, LeftAt, LeftIn
<1>8. QED
  BY <1>1, <1>4, <1>6, <1>7 DEF AddrInv, Standing

-----------------------------------------------------------------------------
(* Stop and open.                                                          *)

\* The groups go with their users; with the last interface, everything.
LEMMA StopKeeps ==
  ASSUME AddrInv, NEW i \in Ifc, Stop(i)
  PROVE  AddrInv'
<1> DEFINE a == PurgeAllMc(ale, i)
           b == IF up = {i} THEN Clear(a) ELSE a
           d == Conf'
           B == Base(ale.table)
           J == Joined(ale.table)
           K == Joined(a.table)
<1>1. /\ i \in up /\ ale' = [b EXCEPT !.ret = OK] /\ up' = up \ {i}
      /\ told' = [told EXCEPT ![i] = [g \in McGroups |-> 0]]
      /\ users' = [users EXCEPT ![i] = [g \in McGroups |-> @[g] \cap {0}]]
      /\ UNCHANGED <<flood, mac, vlans, devs, bare, promisc, allmulti, odd>>
  BY DEF Stop, Now, cfgVars, vlanVars, flagVars
<1>2. StateInv /\ Sound(ale) /\ UsersInv
  BY DEF AddrInv, Standing
<1>3. /\ told' \in [Ifc -> [McGroups -> Nat]] /\ users' \in [Ifc -> [McGroups -> SUBSET Vids]]
      /\ \A j \in Ifc \ {i} : told'[j] = told[j] /\ users'[j] = users[j]
      /\ \A g \in McGroups : told'[i][g] = 0 /\ users'[i][g] = users[i][g] \cap {0}
  BY <1>1, <1>2 DEF StateInv
<1>4. Sound(a) /\ Base(a.table) = B /\ PurgedAll(J, K, i, McGroups)
  <2>1. vlans[i] \subseteq Vids /\ UsersOf(i, users)
    BY <1>2, VidsAssumption DEF StateInv, UserVids, UsersInv
  <2>2. QED
    BY <1>2, <2>1, PurgeAllMcDoes
<1> HIDE DEF a
<1>5. StateInv' /\ UsersInv' /\ SharedInv' /\ FloodCovers'
  <2>1. StateInv'
    BY <1>1, <1>2, <1>3 DEF StateInv
  <2>2. UsersInv'
    BY <1>1, <1>2, <1>3 DEF UsersInv, UsersOf
  <2>3. QED
    BY <1>1, <2>1, <2>2 DEF AddrInv, SharedInv, Alone, FloodCovers
<1>6. /\ d.up = up \ {i} /\ d.mac = mac /\ d.vlans = vlans /\ d.users = users' /\ d.told = told'
      /\ d.promisc = promisc /\ d.allmulti = allmulti /\ d.odd = odd /\ d.bare = bare
  BY <1>1 DEF Conf, ConfWith
<1>7. CASE up = {i}
  <2>1. Sound(b) /\ Base(b.table) = {} /\ Joined(b.table) = {}
    <3>1. b = Clear(a)
      BY <1>7
    <3>2. QED
      BY <1>4, <3>1, ClearSound
  <2> HIDE DEF b, d, B, J, K
  <2>2. Sound(ale') /\ ale'.table = b.table
    BY <1>1, <2>1, RetSound
  <2>3. \A j \in Ifc : j \notin d.up /\ \A g \in McGroups : d.told[j][g] = 0
    BY <1>2, <1>3, <1>6, <1>7 DEF UsersInv
  <2>4. ASSUME NEW j \in Ifc PROVE IfcAt({}, {}, j, d)
    <3>1. \A f \in {} : f.vid = 0
      OBVIOUS
    <3>2. QED
      BY <2>3, <3>1, ClosedAt
  <2>5. (\A j \in Ifc : IfcAt(Base(ale.table), Joined(ale.table), j, Conf))'
    BY <2>1, <2>2, <2>4 DEF d
  <2>6. GoneAt(Joined(ale.table))' /\ LeftAt(Base(ale.table), Conf.odd)'
    BY <2>1, <2>2 DEF GoneAt, LeftAt, LeftIn
  <2>7. Standing(ale, Conf)'
    BY <2>2, <2>5, <2>6 DEF Standing
  <2>8. QED
    BY <1>5, <2>7 DEF AddrInv
<1>8. CASE up # {i}
  <2>1. b = a
    BY <1>8
  <2>2. Sound(ale') /\ ale'.table = a.table
    BY <1>1, <1>4, <2>1, RetSound
  <2> HIDE DEF b, d, B, J, K
  <2>3. ASSUME NEW j \in Ifc PROVE IfcAt(B, K, j, d)
    <3>1. IfcAt(B, J, j, Conf)
      BY DEF AddrInv, Standing, B, J
    <3>2. CASE j # i
      <4>1. d.vlans[j] = vlans[j] /\ Alone(d.odd, j)
        BY <1>6 DEF AddrInv, SharedInv
      <4>2. Mine(j, d) \cap VidsOf(i, vlans[i] \cup {0}) = {}
        BY <1>2, <3>2, <4>1, Apart
      <4>3. SameOn(B, B, Mine(j, d)) /\ SameAt(J, K, Mine(j, d))
        BY <1>4, <4>2 DEF SameOn, SameAt, PurgedAll
      <4>4. Keeps(Conf, d, j)
        BY <1>3, <1>6, <3>2, ConfIs DEF Keeps, Wanted
      <4>5. QED
        BY <3>1, <4>3, <4>4, IfcKept
    <3>3. CASE j = i
      <4>1. j \notin d.up
        BY <1>6, <3>3
      <4>2. OwnedAt(B, j, d)
        BY <1>6, <3>1, ConfIs DEF OwnedAt, IfcAt
      <4>3. GroupAt(K, j, d)
        <5>1. SUFFICES ASSUME Fine(d, i, {"nomem", "shared", "promisc"}), NEW g \in McGroups
                       PROVE  \A u \in vlans[i] \cup {0} : <<g, Vid(i, u)>> \notin K
          BY <1>3, <1>6, <3>3, <4>1 DEF GroupAt
        <5>2. Fine(Conf, i, {"nomem", "shared", "promisc"})
          BY <1>6, <5>1, ConfIs DEF Fine
        <5>3. /\ told[i][g] = Cardinality(users[i][g]) \/ told[i][g] = 0
              /\ \A u \in vlans[i] \cup {0} : <<g, Vid(i, u)>> \in J <=> told[i][g] # 0 /\ u \in users[i][g]
          BY <3>1, <3>3, <5>2, ConfIs DEF GroupAt, IfcAt
        <5>4. \A u \in users[i][g] : Vid(i, u) \in VidsOf(i, users[i][g])
          BY DEF VidsOf
        <5>5. QED
          BY <1>4, <5>3, <5>4 DEF PurgedAll
      <4>4. QED
        BY <4>1, <4>2, <4>3 DEF IfcAt, OwnAt, VlansAt, AllAt
    <3>4. QED
      BY <3>2, <3>3
  <2>4. (\A j \in Ifc : IfcAt(Base(ale.table), Joined(ale.table), j, Conf))'
    BY <1>4, <2>2, <2>3 DEF d, K
  <2>5. GoneAt(Joined(ale.table))'
    <3>1. GoneAt(J) /\ K \subseteq J
      BY <1>4 DEF AddrInv, Standing, J, PurgedAll
    <3>2. QED
      BY <1>1, <2>2, <3>1 DEF GoneAt, K
  <2>6. LeftAt(Base(ale.table), Conf.odd)'
    <3>1. LeftAt(B, odd)
      BY ConfIs DEF AddrInv, Standing, B
    <3>2. QED
      BY <1>1, <1>4, <1>6, <2>2, <3>1 DEF LeftAt, LeftIn, d
  <2>7. Standing(ale, Conf)'
    BY <2>2, <2>4, <2>5, <2>6 DEF Standing
  <2>8. QED
    BY <1>5, <2>7 DEF AddrInv
<1>9. QED
  BY <1>7, <1>8

\* What cpsw_ndo_open of an interface puts into the table, as it finds it.
Opened(a, b, i) ==
  /\ Sound(b) /\ b.ret \in {OK, ENOMEM} /\ Joined(b.table) = Joined(a.table)
  /\ Given(Base(a.table), Base(b.table), i, mac[i], VidsOf(i, devs[i] \cup {0}))
  /\ b.ret = OK => /\ ServedIn(Base(b.table), i, mac[i], PortVlan[i])
                        /\ HasSecure(Base(b.table), mac[i], PortVlan[i])
                   /\ \A v \in devs[i] : ServedIn(Base(b.table), i, mac[i], v)

\* The entries of the port, then those of the VLANs.
LEMMA OpenSlaveDoes ==
  ASSUME NEW a, Sound(a), NEW i \in Ifc, mac[i] \in Stations, devs[i] \subseteq UserVids,
         NEW e, e = OpenSlave(a, i)
  PROVE  Opened(a, e, i)
<1> DEFINE b == DualEntries(a, i, mac[i])
           r == Restore(b, i)
           p == PortVlan[i]
           V == devs[i]
<1>1. /\ Sound(b) /\ b.ret \in {OK, ENOMEM} /\ Joined(b.table) = Joined(a.table)
      /\ Given(Base(a.table), Base(b.table), i, mac[i], {p})
      /\ b.ret = OK => ServedIn(Base(b.table), i, mac[i], p) /\ HasSecure(Base(b.table), mac[i], p)
  BY DualDoes
<1>2. e = Then(b, r)
  BY DEF OpenSlave
<1> HIDE DEF b
<1>3. VlansGiven(b, r, i, V)
  BY <1>1, RestoreDoes
<1> HIDE DEF r
<1>4. Sound(r) /\ r.ret \in {OK, ENOMEM}
  BY <1>3 DEF VlansGiven
<1>5. Good(e) /\ e.table = r.table /\ e.ret = IF b.ret = OK THEN r.ret ELSE b.ret
  <2>1. b.ret \in Rets /\ Good(r)
    BY <1>1, <1>4 DEF Rets, Sound
  <2>2. QED
    BY <1>2, <2>1, ThenDoes
<1>6. Sound(e) /\ e.ret \in {OK, ENOMEM} /\ Joined(e.table) = Joined(a.table)
  BY <1>1, <1>3, <1>4, <1>5 DEF Sound, VlansGiven
<1>7. VidsOf(i, devs[i] \cup {0}) = {p} \cup V
  BY DEF VidsOf, Vid, UserVids
<1>8. Given(Base(a.table), Base(e.table), i, mac[i], {p} \cup V)
  <2>1. Given(Base(b.table), Base(r.table), i, mac[i], V)
    BY <1>3 DEF VlansGiven
  <2> HIDE DEF p, V
  <2>2. QED
    BY <1>1, <1>5, <2>1, GivenTrans
<1>9. ASSUME e.ret = OK
      PROVE  /\ ServedIn(Base(e.table), i, mac[i], p) /\ HasSecure(Base(e.table), mac[i], p)
             /\ \A v \in V : ServedIn(Base(e.table), i, mac[i], v)
  <2>1. b.ret = OK /\ r.ret = OK
    BY <1>5, <1>9
  <2>2. SameElse(Base(b.table), Base(e.table), V) /\ p \notin V
    BY <1>3, <1>5, IfcFacts DEF VlansGiven, Given
  <2> HIDE DEF p, V
  <2>3. ServedIn(Base(e.table), i, mac[i], p)
    BY <1>1, <2>1, <2>2, ServedKept
  <2>4. HasSecure(Base(e.table), mac[i], p)
    BY <1>1, <2>1, <2>2 DEF HasSecure, SameElse
  <2>5. \A v \in V : ServedIn(Base(e.table), i, mac[i], v)
    BY <1>3, <1>5, <2>1 DEF VlansGiven
  <2>6. QED
    BY <2>3, <2>4, <2>5
<1>10. QED
  BY <1>6, <1>7, <1>8, <1>9 DEF Opened, p, V

\* What the first interface to be opened finds, and another.
Found(a, past) ==
  /\ Sound(a)
  /\ \A j \in Ifc : IfcAt(Base(a.table), Joined(a.table), j, ConfWith(up, past)) /\ Alone(past, j)
  /\ GoneAt(Joined(a.table)) /\ LeftAt(Base(a.table), past)

\* The first one finds the table cleared, and what happened before forgotten.
LEMMA FirstFound ==
  ASSUME AddrInv, up = {}, NEW past, past = [j \in Ifc |-> odd[j] \cap {"shared"}],
         NEW a, a = HostPortDual(Clear(ale))
  PROVE  Found(a, past)
<1>1. Sound(a) /\ Joined(a.table) = {} /\ \A f \in Base(a.table) : f.vid = 0
  BY HostDoes DEF AddrInv, Standing
<1>2. ConfWith(up, past).up = {} /\ ConfWith(up, past).told = told
  BY DEF ConfWith
<1>3. ASSUME NEW j \in Ifc PROVE IfcAt(Base(a.table), {}, j, ConfWith(up, past))
  <2>1. \A g \in McGroups : told[j][g] = 0
    BY DEF AddrInv, UsersInv
  <2>2. j \notin ConfWith(up, past).up /\ \A g \in McGroups : ConfWith(up, past).told[j][g] = 0
    BY <1>2, <2>1
  <2>3. QED
    BY <1>1, <2>2, ClosedAt
<1>4. \A j \in Ifc : Alone(past, j)
  BY DEF AddrInv, SharedInv, Alone
<1>5. GoneAt({}) /\ LeftAt(Base(a.table), past)
  BY <1>1 DEF GoneAt, LeftAt, LeftIn, UserVids
<1>6. QED
  BY <1>1, <1>3, <1>4, <1>5 DEF Found

\* An interface that is opened beside another finds what the last handler left.
LEMMA NextFound ==
  ASSUME AddrInv
  PROVE  Found(ale, odd)
BY DEF AddrInv, Standing, SharedInv, Conf, ConfWith, Found

\* Whatever an open finds, the interface has what it needs, or is marked.
LEMMA OpenFoundKeeps ==
  ASSUME AddrInv, NEW i \in Ifc, NEW past0 \in [Ifc -> SUBSET Oddities], NEW a0, Found(a0, past0),
         NEW a, a = OpenSlave(a0, i),
         NEW past, past = [past0 EXCEPT ![i] = @ \cup IF a.ret # OK THEN {"nomem"} ELSE {}],
         SetRxMode(a, past, i, users, promisc, allmulti),
         up' = up \cup {i}, bare' = [bare EXCEPT ![i] = vlans[i] \ (devs[i] \cup {0})],
         UNCHANGED <<mac, vlans, devs, promisc, allmulti, users>>
  PROVE  AddrInv'
<1> DEFINE B == Base(a0.table)
           C == Base(a.table)
           J == Joined(a.table)
           V == VidsOf(i, devs[i] \cup {0})
           c00 == ConfWith(up, past0)
           c0 == ConfWith(up, past)
           c == [ConfWith(up \cup {i}, past) EXCEPT !.bare = bare']
<1>1. StateInv /\ UsersInv
  BY DEF AddrInv
<1>2. Opened(a0, a, i)
  BY <1>1, OpenSlaveDoes DEF StateInv, Found
<1>3. /\ past \in [Ifc -> SUBSET Oddities]
      /\ "nomem" \notin past[i] => a.ret = OK
      /\ \A j \in Ifc : past0[j] \subseteq past[j] /\ past[j] \subseteq past0[j] \cup {"nomem"}
  BY DEF Oddities
<1>4. /\ c.up = up \cup {i} /\ c0.up = up /\ c00.up = up
      /\ \A k \in {c, c0, c00} : /\ k.mac = mac /\ k.vlans = vlans /\ k.users = users /\ k.told = told
                                 /\ k.promisc = promisc /\ k.allmulti = allmulti
      /\ c.odd = past /\ c0.odd = past /\ c00.odd = past0
      /\ c.bare = bare' /\ c0.bare = bare /\ c00.bare = bare
  BY DEF ConfWith
<1>5. Sound(a) /\ J = Joined(a0.table) /\ Given(B, C, i, mac[i], V)
  BY <1>2 DEF Opened
<1>6. \A j \in Ifc : IfcAt(B, J, j, c00) /\ Alone(past0, j)
  BY <1>5 DEF Found
<1>7. \A j \in Ifc : Alone(past, j)
  BY <1>3, <1>6 DEF Alone
<1>8. GoneAt(J) /\ LeftAt(B, past0)
  BY <1>5 DEF Found
<1>9. /\ V \subseteq VidsOf(i, vlans[i] \cup {0})
      /\ bare' \in [Ifc -> SUBSET Vids] /\ \A j \in Ifc \ {i} : bare'[j] = bare[j]
      /\ bare'[i] = vlans[i] \ (devs[i] \cup {0})
  BY <1>1, VidsAssumption DEF VidsOf, StateInv, UserVids
<1> HIDE DEF B, C, J, c, c0, c00
<1>10. OwnedAt(C, i, c)
  <2>1. OwnedAt(B, i, c00)
    BY <1>6 DEF IfcAt
  <2>2. QED
    BY <1>3, <1>4, <1>5, <2>1 DEF OwnedAt, Given, IsGiven
<1>11. OwnAt(C, i, c) /\ VlansAt(C, i, c)
  <2>1. Fine(c, i, {"nomem"}) \/ Fine(c, i, {"nomem", "shared", "remac"}) => a.ret = OK
    BY <1>3, <1>4 DEF Fine
  <2>2. QED
    BY <1>2, <1>4, <1>9, <2>1 DEF OwnAt, VlansAt, Wanted, Opened, C
<1>12. GroupAt(J, i, c0)
  <2>1. GroupAt(J, i, c00)
    BY <1>6 DEF IfcAt
  <2>2. Fine(c0, i, {"nomem", "shared", "promisc"}) => Fine(c00, i, {"nomem", "shared", "promisc"})
    BY <1>3, <1>4 DEF Fine
  <2>3. QED
    BY <1>4, <2>1, <2>2 DEF GroupAt
<1>13. ASSUME NEW j \in Ifc \ {i} PROVE IfcAt(C, J, j, c0)
  <2>1. c0.vlans[j] = vlans[j] /\ Alone(c0.odd, j)
    BY <1>4, <1>7
  <2>2. Mine(j, c0) \cap V = {}
    BY <1>1, <1>9, <2>1, Apart
  <2>3. SameOn(B, C, Mine(j, c0)) /\ SameAt(J, J, Mine(j, c0))
    BY <1>5, <2>2 DEF SameOn, SameAt, Given, SameElse
  <2>4. Keeps(c00, c0, j)
    BY <1>3, <1>4 DEF Keeps, Wanted
  <2>5. QED
    BY <1>6, <2>3, <2>4, IfcKept
<1>14. LeftAt(C, past)
  <2>1. SUFFICES ASSUME \A j \in Ifc : past[j] \cap {"shared", "remac"} = {}, NEW f \in C,
                        f.vid \in UserVids
                 PROVE  \E j \in Ifc : f.vid \in vlans[j] /\ (IsUcast(f) => f.addr = mac[j])
    BY DEF LeftAt, LeftIn
  <2>2. LeftIn(B)
    BY <1>3, <1>8, <2>1 DEF LeftAt
  <2>3. CASE f \in B
    BY <2>1, <2>2, <2>3 DEF LeftIn
  <2>4. CASE f \notin B
    <3>1. IsGiven(f, i, mac[i], V)
      BY <1>5, <2>1, <2>4 DEF Given
    <3>2. f.vid \in vlans[i]
      BY <1>9, <2>1, <3>1, IfcFacts DEF IsGiven, VidsOf, Vid
    <3>3. IsUcast(f) => f.addr = mac[i]
      BY <3>1, GroupFacts DEF IsGiven, IsUcast
    <3>4. QED
      BY <3>2, <3>3
  <2>5. QED
    BY <2>3, <2>4
<1>15. UsersOf(i, users) /\ UsersOf(i, users') /\ Moved(i, users')
         /\ users' \in [Ifc -> [McGroups -> SUBSET Vids]]
       /\ promisc' \in SUBSET Ifc /\ allmulti' \in SUBSET Ifc
  BY <1>1 DEF StateInv, UsersInv, UsersOf, Moved
<1>16. SetRxMode(a, past, i, users', promisc', allmulti')
  OBVIOUS
<1>17. /\ StateInv' /\ SharedInv' /\ Standing(ale, Conf)' /\ FloodCovers'
       /\ \A j \in Ifc \ {i} : told'[j] = told[j]
  <2>1. /\ UNCHANGED <<mac, vlans, devs>> /\ up' = up \cup {i}
        /\ bare' \in [Ifc -> SUBSET Vids] /\ \A j \in Ifc \ {i} : bare'[j] = bare[j]
        /\ \A j \in Ifc \ {i} : users'[j] = users[j] /\ (j \in promisc' <=> j \in promisc)
             /\ (j \in allmulti' <=> j \in allmulti)
    BY <1>9
  <2>2. /\ OwnedAt(Base(a.table), i, c) /\ OwnAt(Base(a.table), i, c) /\ VlansAt(Base(a.table), i, c)
        /\ GroupAt(Joined(a.table), i, c0)
    BY <1>10, <1>11, <1>12 DEF C, J
  <2>3. \A j \in Ifc \ {i} : IfcAt(Base(a.table), Joined(a.table), j, c0)
    BY <1>13 DEF C, J
  <2>4. GoneAt(Joined(a.table)) /\ LeftAt(Base(a.table), past)
    BY <1>8, <1>14 DEF C, J
  <2>5. c = [ConfWith(up \cup {i}, past) EXCEPT !.bare = bare'] /\ c0 = ConfWith(up, past)
    BY DEF c, c0
  <2>6. StateInv /\ Sound(a) /\ past \in [Ifc -> SUBSET Oddities] /\ \A j \in Ifc : Alone(past, j)
    BY <1>1, <1>3, <1>5, <1>7
  <2>7. QED
    BY ONLY <1>15, <1>16, <2>1, <2>2, <2>3, <2>4, <2>5, <2>6, RxModeKeeps
<1>18. UsersInv'
  BY <1>1, <1>17 DEF UsersInv, UsersOf
<1>19. QED
  BY <1>17, <1>18 DEF AddrInv

\* An open, of the first interface or of another.
LEMMA OpenKeeps ==
  ASSUME AddrInv, NEW i \in Ifc, Open(i)
  PROVE  AddrInv'
<1> DEFINE first == HostPortDual(Clear(ale))
           past0 == [j \in Ifc |-> odd[j] \cap {"shared"}]
           Past(o, a) == [o EXCEPT ![i] = @ \cup IF a.ret # OK THEN {"nomem"} ELSE {}]
<1>1. /\ up' = up \cup {i} /\ bare' = [bare EXCEPT ![i] = vlans[i] \ (devs[i] \cup {0})]
      /\ UNCHANGED <<mac, vlans, devs, promisc, allmulti, users>>
  BY DEF Open, flagVars
<1>2. odd \in [Ifc -> SUBSET Oddities]
  BY DEF AddrInv, StateInv
<1>3. CASE up = {}
  <2>1. SetRxMode(OpenSlave(first, i), Past(past0, OpenSlave(first, i)), i, users, promisc, allmulti)
    BY <1>3 DEF Open
  <2>2. Found(first, past0)
    BY <1>3, FirstFound
  <2>3. past0 \in [Ifc -> SUBSET Oddities]
    BY DEF Oddities
  <2> HIDE DEF first, past0
  <2>4. QED
    BY <1>1, <2>1, <2>2, <2>3, OpenFoundKeeps
<1>4. CASE up # {}
  <2>1. SetRxMode(OpenSlave(ale, i), Past(odd, OpenSlave(ale, i)), i, users, promisc, allmulti)
    BY <1>4 DEF Open
  <2>2. Found(ale, odd)
    BY NextFound
  <2>3. QED
    BY <1>1, <1>2, <2>1, <2>2, OpenFoundKeeps
<1>5. QED
  BY <1>3, <1>4

-----------------------------------------------------------------------------
(* The theorems.                                                           *)

\* Nothing is open, nobody has joined, and the table is empty.
LEMMA AddrInvBegins ==
  ASSUME Init
  PROVE  AddrInv
<1>1. ale = [table |-> Cleared, untag |-> {}, ret |-> OK]
  BY DEF Init
<1>2. Good(ale) /\ ale.table = Cleared
  BY <1>1, Kinds DEF Good, Engine, Entry, Cleared, KeysUniqueIn, SameKey, UntagAgreesIn, Proper, Free
<1>3. Contents(ale.table) = {}
  BY <1>2 DEF Contents, Cleared
<1>4. Sound(ale) /\ Base(ale.table) = {} /\ Joined(ale.table) = {}
  BY <1>2, <1>3 DEF Sound, Base, Joined
<1>5. StateInv
  BY FirstMacAssumption DEF Init, StateInv
<1>6. UsersInv /\ SharedInv /\ FloodCovers
  BY DEF Init, UsersInv, UsersOf, SharedInv, Alone, FloodCovers
<1>7. ASSUME NEW j \in Ifc PROVE IfcAt({}, {}, j, Conf)
  <2>1. j \notin Conf.up /\ \A g \in McGroups : Conf.told[j][g] = 0
    BY ConfIs DEF Init
  <2>2. \A f \in {} : f.vid = 0
    OBVIOUS
  <2>3. QED
    BY <2>1, <2>2, ClosedAt
<1>8. GoneAt({}) /\ LeftAt({}, Conf.odd)
  BY DEF GoneAt, LeftAt, LeftIn
<1>9. QED
  BY <1>4, <1>5, <1>6, <1>7, <1>8 DEF AddrInv, Standing

\* A step that changes nothing.
LEMMA AddrInvStays ==
  ASSUME AddrInv, UNCHANGED vars
  PROVE  AddrInv'
<1>1. UNCHANGED <<ale, flood, up, mac, vlans, devs, bare, users, told, promisc, allmulti, odd>>
  BY DEF vars, cfgVars, vlanVars, flagVars, mcVars
<1>2. StateInv' /\ UsersInv' /\ SharedInv' /\ FloodCovers'
  BY <1>1 DEF AddrInv, StateInv, UsersInv, UsersOf, SharedInv, Alone, FloodCovers
<1>3. Conf' = Conf
  BY <1>1 DEF Conf, ConfWith
<1>4. (\A j \in Ifc : IfcAt(Base(ale.table), Joined(ale.table), j, Conf))'
  BY <1>1, <1>3 DEF AddrInv, Standing
<1>5. GoneAt(Joined(ale.table))' /\ LeftAt(Base(ale.table), Conf.odd)'
  BY <1>1, <1>3 DEF AddrInv, Standing, GoneAt, LeftAt, LeftIn
<1>6. QED
  BY <1>1, <1>2, <1>4, <1>5 DEF AddrInv, Standing

\* The invariant, of every handler and in any order of them.
THEOREM AddrInvariant == Spec => []AddrInv
<1>1. Init => AddrInv
  BY AddrInvBegins
<1>2. AddrInv /\ [Next]_vars => AddrInv'
  <2>1. SUFFICES ASSUME AddrInv, [Next]_vars PROVE AddrInv'
    OBVIOUS
  <2>2. CASE UNCHANGED vars
    BY <2>1, <2>2, AddrInvStays
  <2>3. ASSUME NEW i \in Ifc, NEW v \in Vids, NEW dev \in BOOLEAN, RxAddVid(i, v, dev) PROVE AddrInv'
    BY <2>1, <2>3, RxAddVidKeeps
  <2>4. ASSUME NEW i \in Ifc, NEW v \in Vids, RxKillVid(i, v) PROVE AddrInv'
    BY <2>1, <2>4, RxKillVidKeeps
  <2>5. ASSUME NEW i \in Ifc, NEW u \in Vids, NEW g \in McGroups, Join(i, u, g) PROVE AddrInv'
    BY <2>1, <2>5, JoinKeeps
  <2>6. ASSUME NEW i \in Ifc, NEW u \in Vids, NEW g \in McGroups, Leave(i, u, g) PROVE AddrInv'
    BY <2>1, <2>6, LeaveKeeps
  <2>7. ASSUME NEW i \in Ifc, SetFlags(i) PROVE AddrInv'
    BY <2>1, <2>7, SetFlagsKeeps
  <2>8. ASSUME NEW i \in Ifc, NEW x \in Stations, SetMacAddress(i, x) PROVE AddrInv'
    BY <2>1, <2>8, SetMacAddressKeeps
  <2>9. ASSUME NEW i \in Ifc, Open(i) PROVE AddrInv'
    BY <2>1, <2>9, OpenKeeps
  <2>10. ASSUME NEW i \in Ifc, Stop(i) PROVE AddrInv'
    BY <2>1, <2>10, StopKeeps
  <2>11. ASSUME NEW i \in Ifc, NEW v \in Vids, VlanDevice(i, v) PROVE AddrInv'
    BY <2>1, <2>11, VlanDeviceKeeps
  <2>12. QED
    BY <2>1, <2>2, <2>3, <2>4, <2>5, <2>6, <2>7, <2>8, <2>9, <2>10, <2>11 DEF Next
<1>3. QED
  BY <1>1, <1>2, PTL DEF Spec

\* The table as the properties see it.
LEMMA InBase ==
  ASSUME NEW e
  PROVE  /\ e \in Base(ale.table) => e \in Table
         /\ e \in Table => e \in Base(ale.table) \/ OfGroup(e)
BY DEF Base, Contents, Table

\* An interface is served.
LEMMA ServedInTable ==
  ASSUME NEW i \in Ifc, NEW v, ServedIn(Base(ale.table), i, mac[i], v)
  PROVE  Served(i, v)
<1>1. \E e \in VlanOf(v) : e.members = Both(i)
  BY InBase DEF ServedIn, HasVlan, VlanOf
<1>2. \E e \in AddrIn(mac[i], v) : e.port = HOST
  BY InBase DEF ServedIn, HasAddr, AddrIn, InVlan
<1>3. \E e \in AddrIn(BCAST, v) : HOST \in e.mask
  BY InBase DEF ServedIn, HasBcast, AddrIn, InVlan
<1>4. QED
  BY <1>1, <1>2, <1>3 DEF Served

\* An open interface has its VLAN, its address and broadcast, every VLAN of its filter that was added
\* since it was opened or had a device when it was, and exactly the groups of its users, whatever is done to it and to the others, unless one of the things has
\* happened to it that the driver does not cope with.
THEOREM InterfacesAreServed == Spec => []InterfacesServed
<1>1. AddrInv => InterfacesServed
  <2>1. SUFFICES ASSUME AddrInv PROVE InterfacesServed
    OBVIOUS
  <2>2. StateInv /\ \A i \in Ifc : IfcAt(Base(ale.table), Joined(ale.table), i, Conf)
    BY <2>1 DEF AddrInv, Standing
  <2>3. OwnEntries
    <3>1. SUFFICES ASSUME NEW i \in up, "nomem" \notin odd[i]
                   PROVE  Served(i, PortVlan[i]) /\ \E e \in AddrIn(mac[i], PortVlan[i]) : e.secure
      BY DEF OwnEntries
    <3>2. i \in Ifc
      BY <2>2 DEF StateInv
    <3>3. ServedIn(Base(ale.table), i, mac[i], PortVlan[i])
            /\ HasSecure(Base(ale.table), mac[i], PortVlan[i])
      BY <2>2, <3>1, <3>2, ConfIs DEF IfcAt, OwnAt, Fine
    <3>4. \E e \in AddrIn(mac[i], PortVlan[i]) : e.secure
      BY <3>3, InBase DEF HasSecure, AddrIn, InVlan
    <3>5. QED
      BY <3>2, <3>3, <3>4, ServedInTable
  <2>4. VlansServed
    <3>1. SUFFICES ASSUME NEW i \in up, odd[i] \cap {"nomem", "shared", "remac"} = {},
                          NEW v \in vlans[i] \ ({0} \cup bare[i])
                   PROVE  Served(i, v)
      BY DEF VlansServed
    <3>2. i \in Ifc
      BY <2>2 DEF StateInv
    <3>3. ServedIn(Base(ale.table), i, mac[i], v)
      BY <2>2, <3>1, <3>2, ConfIs DEF IfcAt, VlansAt, Wanted, Fine
    <3>4. QED
      BY <3>2, <3>3, ServedInTable
  <2>5. GroupsServed
    <3>1. SUFFICES ASSUME NEW i \in up \ promisc, odd[i] \cap {"nomem", "shared", "promisc"} = {},
                          NEW g \in McGroups, NEW u \in vlans[i] \cup {0}
                   PROVE  u \in users[i][g] <=> AddrIn(g, Vid(i, u)) # {}
      BY DEF GroupsServed, Vid
    <3>2. i \in Ifc /\ u \in Vids
      BY <2>2, <3>1, VidsAssumption DEF StateInv, UserVids
    <3>3. /\ told[i][g] = Cardinality(users[i][g])
          /\ <<g, Vid(i, u)>> \in Joined(ale.table) <=> told[i][g] # 0 /\ u \in users[i][g]
      BY <2>2, <3>1, <3>2, ConfIs DEF IfcAt, GroupAt, Fine
    <3>4. u \in users[i][g] => told[i][g] # 0
      <4>1. users[i][g] \in SUBSET Vids
        BY <2>1, <3>2 DEF AddrInv, UsersInv, UsersOf
      <4>2. IsFiniteSet(users[i][g])
        BY <4>1, FiniteVids
      <4>3. QED
        BY <3>3, <4>2, FS_EmptySet
    <3>5. Vid(i, u) \in Vids
      BY <3>2, IfcFacts DEF Vid
    <3>6. <<g, Vid(i, u)>> \in Joined(ale.table) <=> AddrIn(g, Vid(i, u)) # {}
      BY <3>5 DEF Joined, Contents, AddrIn, InVlan, Table
    <3>7. QED
      BY <3>3, <3>4, <3>6
  <2>6. QED
    BY <2>3, <2>4, <2>5 DEF InterfacesServed
<1>2. QED
  BY <1>1, AddrInvariant, PTL

\* A VLAN that is in no filter any more has left nothing in the table, no group either.
THEOREM VlansLeaveNothing == Spec => []NothingLeft
<1>1. AddrInv => NothingLeft
  <2>1. SUFFICES ASSUME AddrInv, \A i \in Ifc : odd[i] = {}, NEW v \in UserVids,
                        \A i \in Ifc : v \notin vlans[i],
                        NEW e \in Table, e.vid = v
                 PROVE  FALSE
    BY DEF NothingLeft, InVlan
  <2>2. GoneAt(Joined(ale.table)) /\ LeftAt(Base(ale.table), odd)
    BY <2>1, ConfIs DEF AddrInv, Standing
  <2>3. CASE OfGroup(e)
    <3>1. <<e.addr, v>> \in Joined(ale.table)
      BY <2>1, <2>3 DEF Joined, OfGroup, Contents, Table, UserVids
    <3>2. QED
      BY <2>1, <2>2, <3>1 DEF GoneAt
  <2>4. CASE ~OfGroup(e)
    <3>1. e \in Base(ale.table)
      BY <2>1, <2>4, InBase
    <3>2. LeftIn(Base(ale.table))
      BY <2>1, <2>2 DEF LeftAt
    <3>3. QED
      BY <2>1, <3>1, <3>2 DEF LeftIn
  <2>5. QED
    BY <2>3, <2>4
<1>2. QED
  BY <1>1, AddrInvariant, PTL

\* The host port floods while an open interface is promiscuous, and the VLANs of an interface that
\* is not flood unknown groups to the host exactly if it has IFF_ALLMULTI.
THEOREM FloodsAsFlagsAsk == Spec => []FloodsAsAsked
<1>1. AddrInv => FloodsAsAsked
  <2>1. SUFFICES ASSUME AddrInv, NEW i \in up \ promisc, odd[i] \cap {"nomem", "shared"} = {},
                        NEW v \in ({PortVlan[i]} \cup vlans[i]) \ {0}, NEW e \in VlanOf(v)
                 PROVE  HOST \in e.unreg <=> i \in allmulti
    BY DEF FloodsAsAsked, AllmultiKept, AddrInv
  <2>2. i \in Ifc /\ IfcAt(Base(ale.table), Joined(ale.table), i, Conf)
    BY <2>1 DEF AddrInv, Standing, StateInv
  <2>3. v \in VidsOf(i, vlans[i] \cup {0})
    BY <2>1 DEF VidsOf, Vid
  <2>4. FloodsTo(Base(ale.table), v, i \in allmulti)
    BY <2>1, <2>2, <2>3, ConfIs DEF IfcAt, AllAt, Fine
  <2>5. e \in Base(ale.table) /\ e.type = "vlan" /\ e.vid = v
    BY <2>1, InBase DEF VlanOf, OfGroup
  <2>6. QED
    BY <2>4, <2>5 DEF FloodsTo
<1>2. QED
  BY <1>1, AddrInvariant, PTL

\* No VLAN but the default VLAN lets frames pass from one port to the other.
THEOREM PortsStayApart == Spec => []PortsApart
<1>1. AddrInv => PortsApart
  <2>1. SUFFICES ASSUME AddrInv, NEW e \in Table, e.type = "vlan", e.vid # 0
                 PROVE  Cardinality(e.members \ {HOST}) <= 1
    BY DEF PortsApart
  <2>2. ShapeOf(e)
    BY <2>1 DEF AddrInv, Standing, Sound, Contents, Table
  <2>3. PICK i \in Ifc : e.members = Both(i)
    BY <2>1, <2>2 DEF ShapeOf
  <2>4. e.members \ {HOST} = {i}
    BY <2>3, IfcFacts DEF Both
  <2>5. QED
    BY <2>4, FS_Singleton
<1>2. QED
  BY <1>1, AddrInvariant, PTL
=============================================================================
