---------------------------- MODULE CpswTableProofs ----------------------------
(***************************************************************************)
(* Proofs about CpswTable, for any number of ports, VLANs, addresses and   *)
(* entries.                                                                *)
(*                                                                         *)
(* Good is what every call keeps: the types, one entry for a key, and the  *)
(* agreement of the bit map with the entries.  Each operator of CpswAle    *)
(* has a lemma that says so; all of them rest on two facts about a table   *)
(* with one entry replaced (Replaced, Rekeyed) and on one about a table    *)
(* whose entries all change in place (Mapped).                             *)
(*                                                                         *)
(* That the table implements AleMap follows from the shapes of the steps   *)
(* (StepShape), of which each call has one, and from Good.                 *)
(***************************************************************************)
EXTENDS CpswTable, CpswModes, FiniteSetTheorems, TLAPS

\* An untagged or registered port of a VLAN is a member of it.
Proper(e) == e.type = "vlan" => e.untag \subseteq e.members /\ e.reg \subseteq e.members

Good(a) ==
  /\ a \in Engine
  /\ KeysUniqueIn(a.table)
  /\ UntagAgreesIn(a)
  /\ \A i \in Slot : Proper(a.table[i])

-----------------------------------------------------------------------------
(* Searches.                                                               *)

\* The first of some slots is one of them.  The least of a set of numbers is found as the least of
\* its initial parts: the order of the subsets of a finite set is well-founded.
LEMMA FirstIn ==
  ASSUME NEW S, S \subseteq Slot, S # {}
  PROVE  First(S) \in S
<1> DEFINE Part(k) == S \cap 0..k
           Parts == {Part(k) : k \in S}
<1>1. Slot \subseteq Nat /\ IsFiniteSet(Slot)
  BY EntriesAssumption, FS_Interval DEF Slot
<1>2. Parts \subseteq FiniteSubsetsOf(Slot)
  BY <1>1, FS_FiniteSubsetsOfFinite
<1>3. Parts # {}
  OBVIOUS
<1>4. PICK X \in Parts : \A Y \in Parts : ~(<<Y, X>> \in StrictSubsetOrdering(Slot))
  <2> HIDE DEF Parts
  <2>1. QED
    BY <1>2, <1>3, FS_StrictSubsetOrderingWellFounded, WFMin
<1>5. PICK k \in S : X = Part(k)
  BY <1>4
<1>6. \A j \in S : k <= j
  <2>1. SUFFICES ASSUME NEW j \in S, j < k PROVE FALSE
    BY <1>1
  <2>2. Part(j) \subseteq Part(k) /\ k \notin Part(j) /\ k \in Part(k)
    BY <1>1, <2>1
  <2>3. <<Part(j), Part(k)>> \in StrictSubsetOrdering(Slot)
    BY <2>2 DEF StrictSubsetOrdering
  <2>4. QED
    BY <1>4, <1>5, <2>3
<1>7. QED
  BY <1>6 DEF First

\* An entry of a type is of the form of its type.
LEMMA Kinds ==
  ASSUME NEW e \in Entry
  PROVE  /\ e.type \in {"free", "vlan", "addr"}
         /\ e.type = "free" => e = Free
         /\ e.type = "vlan" => e \in VlanEntries
         /\ e.type = "addr" /\ e.addr \in Groups => e \in McastEntries
         /\ e.type = "addr" /\ e.addr \notin Groups => e \in UcastEntries
<1>1. CASE e = Free
  BY <1>1 DEF Free
<1>2. CASE e \in VlanEntries
  BY <1>2 DEF VlanEntries
<1>3. CASE e \in UcastEntries
  BY <1>3, AddrsAssumption DEF UcastEntries
<1>4. CASE e \in McastEntries
  BY <1>4 DEF McastEntries
<1>5. QED
  BY <1>1, <1>2, <1>3, <1>4 DEF Entry

\* One entry comes in place of another, and no other has its key.
LEMMA Replaced ==
  ASSUME NEW t \in [Slot -> Entry], KeysUniqueIn(t), NEW k \in Slot, NEW e \in Entry,
         \A j \in Slot : SameKey(t[j], e) => j = k
  PROVE  KeysUniqueIn([t EXCEPT ![k] = e])
<1> DEFINE u == [t EXCEPT ![k] = e]
<1>1. SUFFICES ASSUME NEW i \in Slot, NEW j \in Slot, SameKey(u[i], u[j]) PROVE i = j
  BY DEF KeysUniqueIn
<1>2. CASE i = k /\ j # k
  <2>1. u[i] = e /\ u[j] = t[j]
    BY <1>2
  <2>2. SameKey(t[j], e)
    BY <1>1, <2>1 DEF SameKey
  <2> HIDE DEF u
  <2>3. QED
    BY <1>2, <2>2
<1>3. CASE i # k /\ j = k
  <2>1. u[j] = e /\ u[i] = t[i]
    BY <1>3
  <2> HIDE DEF u
  <2>2. QED
    BY <1>1, <1>3, <2>1
<1>4. CASE i # k /\ j # k
  BY <1>1, <1>4 DEF KeysUniqueIn
<1>5. QED
  BY <1>2, <1>3, <1>4

\* The same if the new entry has the key of the old one, or none.
LEMMA Rekeyed ==
  ASSUME NEW t \in [Slot -> Entry], KeysUniqueIn(t), NEW k \in Slot, NEW e \in Entry,
         e = Free \/ SameKey(t[k], e)
  PROVE  KeysUniqueIn([t EXCEPT ![k] = e])
<1>1. \A j \in Slot : SameKey(t[j], e) => j = k
  <2>1. CASE e = Free
    BY <2>1 DEF SameKey, Free
  <2>2. CASE SameKey(t[k], e)
    BY <2>2 DEF SameKey, KeysUniqueIn
  <2>3. QED
    BY <2>1, <2>2
<1>2. QED
  BY <1>1, Replaced

\* Entries keep their keys or go, and VLANs keep the host port's bit.
LEMMA Mapped ==
  ASSUME NEW a, Good(a), NEW b \in Engine, b.untag = a.untag,
         \A i \in Slot :
           LET e == a.table[i]  f == b.table[i]
           IN /\ f = Free \/ SameKey(e, f)
              /\ f.type = "vlan" => (HOST \in f.untag <=> HOST \in e.untag) /\ Proper(f)
  PROVE  Good(b)
<1>1. KeysUniqueIn(b.table)
  <2>1. SUFFICES ASSUME NEW i \in Slot, NEW j \in Slot, SameKey(b.table[i], b.table[j]) PROVE i = j
    BY DEF KeysUniqueIn
  <2>2. b.table[i] # Free /\ b.table[j] # Free
    BY <2>1 DEF SameKey, Free
  <2>3. SameKey(a.table[i], b.table[i]) /\ SameKey(a.table[j], b.table[j])
    BY <2>2
  <2>4. SameKey(a.table[i], a.table[j])
    BY <2>1, <2>3 DEF SameKey
  <2>5. QED
    BY <2>4 DEF Good, KeysUniqueIn
<1>2. UntagAgreesIn(b)
  <2>1. SUFFICES ASSUME NEW i \in Slot, b.table[i].type = "vlan"
                 PROVE  b.table[i].vid \in b.untag <=> HOST \in b.table[i].untag
    BY DEF UntagAgreesIn
  <2>2. a.table[i].type = "vlan" /\ a.table[i].vid = b.table[i].vid
    BY <2>1 DEF SameKey, Free
  <2>3. QED
    BY <2>1, <2>2 DEF Good, UntagAgreesIn
<1>3. \A i \in Slot : Proper(b.table[i])
  BY DEF Proper
<1>4. QED
  BY <1>1, <1>2, <1>3 DEF Good

-----------------------------------------------------------------------------
(* Entries that come.                                                      *)

\* A result that is looked at, or forgotten.
LEMMA RetGood ==
  ASSUME NEW a, Good(a), NEW r \in {OK, ENOENT, ENOMEM}
  PROVE  Good([a EXCEPT !.ret = r])
BY DEF Good, Engine, UntagAgreesIn, KeysUniqueIn

\* An entry that is put in the place found for it, together with the bit of its VLAN.
LEMMA PutGood ==
  ASSUME NEW a, Good(a), NEW e \in Entry, Proper(e), NEW untag \in SUBSET Vids,
         NEW match, match = {i \in Slot : SameKey(a.table[i], e)},
         IF e.type = "vlan"
         THEN /\ e.vid \in untag <=> HOST \in e.untag
              /\ \A v \in Vids \ {e.vid} : v \in untag <=> v \in a.untag
         ELSE untag = a.untag
  PROVE  Good(Put([a EXCEPT !.untag = untag], Place(a.table, match), e))
<1> DEFINE t == a.table
           place == Place(t, match)
           k == First(place)
           b == Put([a EXCEPT !.untag = untag], place, e)
<1>1. t \in [Slot -> Entry] /\ KeysUniqueIn(t) /\ a.untag \in SUBSET Vids
  BY DEF Good, Engine
<1>2. place \subseteq Slot
  BY DEF Place, MatchFree, FindAgeable
<1>3. \A i \in Slot : t[i].type = "vlan" => t[i].vid \in Vids
  BY <1>1, Kinds DEF VlanEntries
<1>4. CASE place = {}
  <2>1. b = [[a EXCEPT !.untag = untag] EXCEPT !.ret = ENOMEM]
    BY <1>4 DEF Put
  <2>2. b \in Engine /\ b.table = t /\ b.untag = untag
    BY <2>1 DEF Good, Engine
  <2>3. match = {}
    BY <1>4 DEF Place
  <2>4. \A i \in Slot : t[i].type = "vlan" => (t[i].vid \in untag <=> HOST \in t[i].untag)
    <3>1. SUFFICES ASSUME NEW i \in Slot, t[i].type = "vlan"
                   PROVE  t[i].vid \in untag <=> HOST \in t[i].untag
      OBVIOUS
    <3>2. t[i].vid \in a.untag <=> HOST \in t[i].untag
      BY <3>1 DEF Good, UntagAgreesIn
    <3>3. ~SameKey(t[i], e)
      BY <2>3
    <3>4. t[i].vid \in untag <=> t[i].vid \in a.untag
      BY <1>3, <3>1, <3>3 DEF SameKey
    <3>5. QED
      BY <3>2, <3>4
  <2>5. QED
    BY <1>1, <2>2, <2>4 DEF Good, UntagAgreesIn
<1>5. CASE place # {}
  <2>1. k \in place /\ k \in Slot
    <3> HIDE DEF place
    <3>1. QED
      BY <1>2, <1>5, FirstIn
  <2>2. b = [[a EXCEPT !.untag = untag] EXCEPT !.table[k] = e, !.ret = OK]
    BY <1>5 DEF Put
  <2>3. b \in Engine /\ b.table = [t EXCEPT ![k] = e] /\ b.untag = untag
    <3>1. PICK c : c = [a EXCEPT !.untag = untag]
      OBVIOUS
    <3>2. c \in Engine /\ c.table = t /\ c.untag = untag
      BY <3>1 DEF Good, Engine
    <3>3. b = [c EXCEPT !.table[k] = e, !.ret = OK]
      BY <2>2, <3>1
    <3> HIDE DEF b, k, t
    <3>4. [t EXCEPT ![k] = e] \in [Slot -> Entry]
      BY <1>1, <2>1
    <3>5. QED
      BY <3>2, <3>3, <3>4 DEF Engine
  <2>4. \A j \in Slot : SameKey(t[j], e) => j = k
    <3>1. SUFFICES ASSUME NEW j \in Slot, SameKey(t[j], e) PROVE j = k
      OBVIOUS
    <3>2. j \in match /\ place = match
      BY <3>1 DEF Place
    <3>3. SameKey(t[k], e)
      BY <2>1, <3>2
    <3>4. SameKey(t[j], t[k])
      BY <3>1, <3>3 DEF SameKey
    <3>5. QED
      BY <1>1, <2>1, <3>4 DEF KeysUniqueIn
  <2>5. KeysUniqueIn(b.table)
    BY <1>1, <2>1, <2>3, <2>4, Replaced
  <2>6. UntagAgreesIn(b)
    <3>1. SUFFICES ASSUME NEW i \in Slot, b.table[i].type = "vlan"
                   PROVE  b.table[i].vid \in untag <=> HOST \in b.table[i].untag
      BY <2>3 DEF UntagAgreesIn
    <3>2. CASE i = k
      BY <1>1, <2>1, <2>3, <3>1, <3>2
    <3>3. CASE i # k
      <4>1. b.table[i] = t[i]
        BY <1>1, <2>3, <3>3
      <4>2. t[i].vid \in a.untag <=> HOST \in t[i].untag
        BY <3>1, <4>1 DEF Good, UntagAgreesIn
      <4>3. ~SameKey(t[i], e)
        BY <2>4, <3>3
      <4>4. t[i].vid \in untag <=> t[i].vid \in a.untag
        BY <1>3, <3>1, <4>1, <4>3 DEF SameKey
      <4>5. QED
        BY <4>1, <4>2, <4>4
    <3>4. QED
      BY <3>2, <3>3
  <2>7. \A i \in Slot : Proper(b.table[i])
    BY <1>1, <2>1, <2>3 DEF Good
  <2>8. QED
    BY <2>3, <2>5, <2>6, <2>7 DEF Good
<1>6. QED
  BY <1>4, <1>5

\* The same for an entry that is not that of a VLAN.
LEMMA PutAddrGood ==
  ASSUME NEW a, Good(a), NEW e \in Entry, e.type = "addr"
  PROVE  Good(Put(a, Place(a.table, MatchAddr(a.table, e.addr, e.vid)), e))
<1>1. MatchAddr(a.table, e.addr, e.vid) = {i \in Slot : SameKey(a.table[i], e)}
  BY DEF MatchAddr, SameKey
<1>2. [a EXCEPT !.untag = a.untag] = a
  BY DEF Good, Engine
<1>3. a.untag \in SUBSET Vids
  BY DEF Good, Engine
<1>4. Proper(e)
  BY DEF Proper
<1>5. Good(Put([a EXCEPT !.untag = a.untag],
               Place(a.table, MatchAddr(a.table, e.addr, e.vid)), e))
  BY <1>1, <1>3, <1>4, PutGood
<1>6. QED
  BY <1>2, <1>5

LEMMA AddUcastGood ==
  ASSUME NEW a, Good(a), NEW x \in Stations, NEW p \in Ports, NEW s \in BOOLEAN, NEW v \in Vids
  PROVE  Good(AddUcast(a, x, p, s, v))
<1> DEFINE e == UcastEntry(x, v, p, s, "persistant")
<1>1. e \in Entry /\ e.type = "addr" /\ e.addr = x /\ e.vid = v
  BY DEF UcastEntry, Entry, UcastEntries
<1> HIDE DEF e
<1>2. Good(Put(a, Place(a.table, MatchAddr(a.table, x, v)), e))
  BY <1>1, PutAddrGood
<1>3. QED
  BY <1>2 DEF AddUcast, e

LEMMA AddMcastGood ==
  ASSUME NEW a, Good(a), NEW x \in Groups, NEW m \in SUBSET Ports, m # {}, NEW s \in BOOLEAN,
         NEW v \in Vids
  PROVE  Good(AddMcast(a, x, m, s, v))
<1> DEFINE match == MatchAddr(a.table, x, v)
           old == IF match = {} THEN {} ELSE a.table[First(match)].mask
           e == McastEntry(x, v, old \cup m, s)
<1>1. old \in SUBSET Ports
  <2>1. CASE match = {}
    BY <2>1
  <2>2. CASE match # {}
    <3>1. match \subseteq Slot
      BY DEF MatchAddr
    <3>2. First(match) \in match
      <4> HIDE DEF match
      <4>1. QED
        BY <2>2, <3>1, FirstIn
    <3>3. a.table[First(match)] \in McastEntries
      BY <3>2, Kinds DEF MatchAddr, Good, Engine
    <3>4. QED
      BY <2>2, <3>3 DEF McastEntries
  <2>3. QED
    BY <2>1, <2>2
<1> HIDE DEF old
<1>2. e \in Entry /\ e.type = "addr" /\ e.addr = x /\ e.vid = v
  BY <1>1 DEF McastEntry, Entry, McastEntries
<1> HIDE DEF e
<1>3. Good(Put(a, Place(a.table, match), e))
  BY <1>2, PutAddrGood
<1>4. AddMcast(a, x, m, s, v) = Put(a, Place(a.table, match), e)
  BY DEF AddMcast, e, old
<1>5. QED
  BY <1>3, <1>4

\* The untag bit of a VLAN is set by the ports of its entry.
LEMMA UntagSet ==
  ASSUME NEW untag \in SUBSET Vids, NEW v \in Vids, NEW m
  PROVE  /\ SetVlanUntag(untag, v, m) \in SUBSET Vids
         /\ v \in SetVlanUntag(untag, v, m) <=> HOST \in m
         /\ \A w \in Vids \ {v} : w \in SetVlanUntag(untag, v, m) <=> w \in untag
BY DEF SetVlanUntag

LEMMA AddVlanGood ==
  ASSUME NEW a, Good(a), NEW v \in Vids, NEW m \in SUBSET Ports, m # {},
         NEW u \in SUBSET m, NEW reg \in SUBSET m, NEW unreg \in SUBSET Ports
  PROVE  Good(AddVlan(a, v, m, u, reg, unreg))
<1> DEFINE e == VlanEntry(v, m, u, reg, unreg)
           untag == SetVlanUntag(a.untag, v, u)
<1>1. e \in Entry /\ e.type = "vlan" /\ e.vid = v /\ e.untag = u /\ Proper(e)
  <2>1. m \in (SUBSET Ports) \ {{}} /\ u \in SUBSET Ports /\ reg \in SUBSET Ports
    OBVIOUS
  <2>2. e \in VlanEntries
    BY <2>1 DEF VlanEntry, VlanEntries
  <2>3. QED
    BY <2>2 DEF VlanEntry, Entry, Proper
<1>2. a.untag \in SUBSET Vids
  BY DEF Good, Engine
<1>3. MatchVlan(a.table, v) = {i \in Slot : SameKey(a.table[i], e)}
  BY <1>1 DEF MatchVlan, SameKey
<1>4. /\ untag \in SUBSET Vids
      /\ v \in untag <=> HOST \in u
      /\ \A w \in Vids \ {v} : w \in untag <=> w \in a.untag
  BY <1>2, UntagSet
<1> HIDE DEF e, untag
<1>5. Good(Put([a EXCEPT !.untag = untag], Place(a.table, MatchVlan(a.table, v)), e))
  BY <1>1, <1>3, <1>4, PutGood
<1>6. QED
  BY <1>5 DEF AddVlan, e, untag

-----------------------------------------------------------------------------
(* Entries that go, or lose ports.                                         *)

\* An entry is replaced by none, or by one with its key; only the bit of its VLAN changes.
LEMMA SubstGood ==
  ASSUME NEW a, Good(a), NEW k \in Slot, NEW e \in Entry, Proper(e),
         e = Free \/ SameKey(a.table[k], e),
         NEW b \in Engine, b.table = [a.table EXCEPT ![k] = e],
         \A v \in Vids : \/ a.table[k].type = "vlan" /\ v = a.table[k].vid
                         \/ v \in b.untag <=> v \in a.untag,
         e.type = "vlan" => (e.vid \in b.untag <=> HOST \in e.untag)
  PROVE  Good(b)
<1> DEFINE t == a.table
<1>1. t \in [Slot -> Entry] /\ KeysUniqueIn(t)
  BY DEF Good, Engine
<1>2. KeysUniqueIn(b.table)
  BY <1>1, Rekeyed
<1>3. \A i \in Slot : Proper(b.table[i])
  BY <1>1 DEF Good
<1>4. UntagAgreesIn(b)
  <2>1. SUFFICES ASSUME NEW i \in Slot, b.table[i].type = "vlan"
                 PROVE  b.table[i].vid \in b.untag <=> HOST \in b.table[i].untag
    BY DEF UntagAgreesIn
  <2>2. CASE i = k
    BY <1>1, <2>1, <2>2
  <2>3. CASE i # k
    <3>1. b.table[i] = t[i]
      BY <1>1, <2>3
    <3>2. t[i].vid \in a.untag <=> HOST \in t[i].untag
      BY <2>1, <3>1 DEF Good, UntagAgreesIn
    <3>3. ~SameKey(t[i], t[k])
      BY <1>1, <2>3 DEF KeysUniqueIn
    <3>4. t[i].vid \in Vids
      BY <1>1, <2>1, <3>1, Kinds DEF VlanEntries
    <3>5. t[i].vid \in b.untag <=> t[i].vid \in a.untag
      BY <2>1, <3>1, <3>3, <3>4 DEF SameKey
    <3>6. QED
      BY <3>1, <3>2, <3>5
  <2>4. QED
    BY <2>2, <2>3
<1>5. QED
  BY <1>2, <1>3, <1>4 DEF Good

\* The entry that a search for an address stops at.
LEMMA AddrFound ==
  ASSUME NEW a, Good(a), NEW x \in Addrs, NEW v, MatchAddr(a.table, x, v) # {}
  PROVE  LET k == First(MatchAddr(a.table, x, v))
         IN /\ k \in Slot
            /\ a.table[k].type = "addr" /\ a.table[k].addr = x /\ a.table[k].vid = v
            /\ x \in Groups => a.table[k] \in McastEntries
            /\ x \notin Groups => a.table[k] \in UcastEntries
<1> DEFINE k == First(MatchAddr(a.table, x, v))
<1>1. MatchAddr(a.table, x, v) \subseteq Slot
  BY DEF MatchAddr
<1>2. k \in MatchAddr(a.table, x, v)
  BY <1>1, FirstIn
<1>3. k \in Slot /\ a.table[k].type = "addr" /\ a.table[k].addr = x /\ a.table[k].vid = v
  BY <1>2 DEF MatchAddr
<1>4. a.table[k] \in Entry
  BY <1>3 DEF Good, Engine
<1>5. QED
  BY <1>3, <1>4, Kinds

\* The entry of a VLAN that a search stops at.
LEMMA VlanFound ==
  ASSUME NEW a, Good(a), NEW v, MatchVlan(a.table, v) # {}
  PROVE  LET k == First(MatchVlan(a.table, v))
         IN /\ k \in Slot
            /\ a.table[k].type = "vlan" /\ a.table[k].vid = v
            /\ a.table[k] \in VlanEntries /\ Proper(a.table[k])
<1> DEFINE k == First(MatchVlan(a.table, v))
<1>1. MatchVlan(a.table, v) \subseteq Slot
  BY DEF MatchVlan
<1>2. k \in MatchVlan(a.table, v)
  BY <1>1, FirstIn
<1>3. k \in Slot /\ a.table[k].type = "vlan" /\ a.table[k].vid = v
  BY <1>2 DEF MatchVlan
<1>4. a.table[k] \in Entry /\ Proper(a.table[k])
  BY <1>3 DEF Good, Engine
<1>5. QED
  BY <1>3, <1>4, Kinds

\* An entry with an address is replaced by none, or by one with its key.
LEMMA ChangeAddrGood ==
  ASSUME NEW a, Good(a), NEW k \in Slot, a.table[k].type = "addr", NEW e \in Entry,
         e = Free \/ (e.type = "addr" /\ SameKey(a.table[k], e)),
         NEW b, b = [a EXCEPT !.table[k] = e, !.ret = OK]
  PROVE  Good(b)
<1>1. [a.table EXCEPT ![k] = e] \in [Slot -> Entry]
  BY DEF Good, Engine
<1>2. b \in Engine /\ b.table = [a.table EXCEPT ![k] = e] /\ b.untag = a.untag
  BY <1>1 DEF Good, Engine
<1>3. /\ k \in Slot /\ e \in Entry /\ Proper(e) /\ e.type # "vlan"
      /\ (e = Free \/ SameKey(a.table[k], e))
  BY DEF Proper, Free
<1>4. \A v \in Vids : v \in b.untag <=> v \in a.untag
  BY <1>2
<1>5. QED
  BY ONLY Good(a), <1>2, <1>3, <1>4, SubstGood

LEMMA DelUcastGood ==
  ASSUME NEW a, Good(a), NEW x \in Stations, NEW v \in Vids
  PROVE  Good(DelUcast(a, x, v))
<1> DEFINE match == MatchAddr(a.table, x, v)
           k == First(match)
<1>1. CASE match = {}
  <2>1. DelUcast(a, x, v) = [a EXCEPT !.ret = ENOENT]
    BY <1>1 DEF DelUcast, Change
  <2>2. QED
    BY <2>1, RetGood
<1>2. CASE match # {}
  <2>1. DelUcast(a, x, v) = [a EXCEPT !.table[k] = Free, !.ret = OK]
    BY <1>2 DEF DelUcast, Change
  <2>2. k \in Slot /\ a.table[k].type = "addr"
    BY <1>2, AddrFound DEF Addrs
  <2>3. Free \in Entry
    BY DEF Entry
  <2> HIDE DEF k
  <2>4. QED
    BY <2>1, <2>2, <2>3, ChangeAddrGood
<1>3. QED
  BY <1>1, <1>2

\* What is left of a multicast entry.
LEMMA FewerPorts ==
  ASSUME NEW e \in McastEntries, NEW m, ~(e.mask \subseteq m)
  PROVE  [e EXCEPT !.mask = @ \ m] \in McastEntries /\ SameKey(e, [e EXCEPT !.mask = @ \ m])
BY DEF McastEntries, SameKey

LEMMA DelMcastGood ==
  ASSUME NEW a, Good(a), NEW x \in Groups, NEW m \in SUBSET Ports, NEW v \in Vids
  PROVE  Good(DelMcast(a, x, m, v))
<1> DEFINE match == MatchAddr(a.table, x, v)
           k == First(match)
           e == IF m = {} \/ a.table[k].mask \subseteq m THEN Free
                ELSE [a.table[k] EXCEPT !.mask = @ \ m]
<1>1. CASE match = {}
  <2>1. DelMcast(a, x, m, v) = [a EXCEPT !.ret = ENOENT]
    BY <1>1 DEF DelMcast, Change
  <2>2. QED
    BY <2>1, RetGood
<1>2. CASE match # {}
  <2>1. DelMcast(a, x, m, v) = [a EXCEPT !.table[k] = e, !.ret = OK]
    BY <1>2 DEF DelMcast, Change
  <2>2. k \in Slot /\ a.table[k].type = "addr" /\ a.table[k] \in McastEntries
    BY <1>2, AddrFound DEF Addrs
  <2>3. CASE m = {} \/ a.table[k].mask \subseteq m
    <3>1. e = Free /\ e \in Entry
      BY <2>3 DEF Entry
    <3> HIDE DEF e, k
    <3>2. QED
      BY <2>1, <2>2, <3>1, ChangeAddrGood
  <2>4. CASE ~(m = {} \/ a.table[k].mask \subseteq m)
    <3>1. e = [a.table[k] EXCEPT !.mask = @ \ m]
      BY <2>4
    <3>2. e \in McastEntries /\ SameKey(a.table[k], e)
      BY <2>2, <2>4, <3>1, FewerPorts
    <3>3. e \in Entry /\ e.type = "addr"
      BY <3>2 DEF Entry, McastEntries
    <3> HIDE DEF e, k
    <3>4. QED
      BY <2>1, <2>2, <3>2, <3>3, ChangeAddrGood
  <2>5. QED
    BY <2>3, <2>4
<1>3. QED
  BY <1>1, <1>2

\* The entry of a VLAN is replaced by none, or by one of the VLAN, and the bit follows.
LEMMA ModifyGood ==
  ASSUME NEW a, Good(a), NEW v \in Vids, MatchVlan(a.table, v) # {},
         NEW k, k = First(MatchVlan(a.table, v)),
         NEW e \in {Free} \cup VlanEntries, e = Free \/ (e.vid = v /\ Proper(e)),
         NEW c, c = [a EXCEPT !.table[k] = e, !.ret = OK],
         NEW b, b = [c EXCEPT !.untag = SetVlanUntag(@, v, UntagOf(e))]
  PROVE  Good(b)
<1>1. k \in Slot /\ a.table[k].type = "vlan" /\ a.table[k].vid = v
  BY VlanFound
<1>2. e \in Entry /\ Proper(e) /\ (e = Free \/ SameKey(a.table[k], e))
  BY <1>1 DEF Entry, Proper, SameKey, Free, VlanEntries
<1>3. [a.table EXCEPT ![k] = e] \in [Slot -> Entry]
  BY <1>1, <1>2 DEF Good, Engine
<1>4. c \in Engine /\ c.table = [a.table EXCEPT ![k] = e] /\ c.untag = a.untag
  BY <1>3 DEF Good, Engine
<1>5. /\ SetVlanUntag(a.untag, v, UntagOf(e)) \in SUBSET Vids
      /\ v \in SetVlanUntag(a.untag, v, UntagOf(e)) <=> HOST \in UntagOf(e)
      /\ \A w \in Vids \ {v} : w \in SetVlanUntag(a.untag, v, UntagOf(e)) <=> w \in a.untag
  <2>1. a.untag \in SUBSET Vids
    BY DEF Good, Engine
  <2>2. QED
    BY <2>1, UntagSet
<1>6. b = [c EXCEPT !.untag = SetVlanUntag(a.untag, v, UntagOf(e))]
  BY <1>4
<1>7. /\ b \in Engine /\ b.table = [a.table EXCEPT ![k] = e]
      /\ b.untag = SetVlanUntag(a.untag, v, UntagOf(e))
  BY ONLY <1>4, <1>5, <1>6 DEF Engine
<1>8. e.type = "vlan" => (e.vid \in b.untag <=> HOST \in e.untag)
  BY <1>5, <1>7 DEF UntagOf, Free
<1>9. ASSUME NEW w \in Vids
      PROVE  \/ a.table[k].type = "vlan" /\ w = a.table[k].vid
             \/ w \in b.untag <=> w \in a.untag
  <2>1. CASE w = v
    BY <1>1, <2>1
  <2>2. CASE w # v
    <3>1. w \in SetVlanUntag(a.untag, v, UntagOf(e)) <=> w \in a.untag
      BY ONLY <1>5, <1>9, <2>2
    <3>2. w \in b.untag <=> w \in a.untag
      BY ONLY <1>7, <3>1
    <3>3. QED
      BY <3>2
  <2>3. QED
    BY <2>1, <2>2
<1>10. QED
  BY ONLY Good(a), <1>1, <1>2, <1>7, <1>8, <1>9, SubstGood

\* What is left of a VLAN.
LEMMA WithoutOK ==
  ASSUME NEW e \in VlanEntries, NEW m
  PROVE  /\ Without(e, m) \in {Free} \cup VlanEntries
         /\ Without(e, m) = Free \/ (Without(e, m).vid = e.vid /\ Proper(Without(e, m)))
<1>1. CASE e.members \subseteq m
  BY <1>1 DEF Without
<1>2. CASE ~(e.members \subseteq m)
  <2> DEFINE left == e.members \ m
             f == VlanEntry(e.vid, left, e.untag \cap left, e.reg \cap left, e.unreg \cap left)
  <2>1. Without(e, m) = f
    BY <1>2 DEF Without
  <2>2. /\ e.vid \in Vids /\ left \in (SUBSET Ports) \ {{}}
        /\ e.untag \cap left \in SUBSET Ports /\ e.reg \cap left \in SUBSET Ports
        /\ e.unreg \cap left \in SUBSET Ports
    BY <1>2 DEF VlanEntries
  <2>3. f \in VlanEntries /\ f.vid = e.vid /\ Proper(f)
    BY <2>2 DEF VlanEntry, VlanEntries, Proper
  <2>4. QED
    BY <2>1, <2>3
<1>3. QED
  BY <1>1, <1>2

LEMMA VlanDelModifyGood ==
  ASSUME NEW a, Good(a), NEW v \in Vids, NEW m \in SUBSET Ports
  PROVE  Good(VlanDelModify(a, v, m))
<1> DEFINE match == MatchVlan(a.table, v)
           k == First(match)
           e == Without(a.table[k], m)
<1>1. CASE match = {}
  <2>1. VlanDelModify(a, v, m) = [a EXCEPT !.ret = ENOENT]
    BY <1>1 DEF VlanDelModify, ModifyVlan
  <2>2. QED
    BY <2>1, RetGood
<1>2. CASE match # {}
  <2> DEFINE c == [a EXCEPT !.table[k] = e, !.ret = OK]
  <2>1. VlanDelModify(a, v, m) = [c EXCEPT !.untag = SetVlanUntag(@, v, UntagOf(e))]
    BY <1>2 DEF VlanDelModify, ModifyVlan, Change
  <2>2. a.table[k] \in VlanEntries /\ a.table[k].vid = v
    BY <1>2, VlanFound
  <2>3. e \in {Free} \cup VlanEntries /\ (e = Free \/ (e.vid = v /\ Proper(e)))
    BY <2>2, WithoutOK
  <2>4. k = First(MatchVlan(a.table, v))
    OBVIOUS
  <2>5. c = [a EXCEPT !.table[k] = e, !.ret = OK]
    OBVIOUS
  <2>6. MatchVlan(a.table, v) # {}
    BY <1>2
  <2> HIDE DEF e, k, c, match
  <2>7. PICK b : b = [c EXCEPT !.untag = SetVlanUntag(@, v, UntagOf(e))]
    OBVIOUS
  <2>8. Good(b)
    BY <2>3, <2>4, <2>5, <2>6, <2>7, ModifyGood
  <2>9. QED
    BY <2>1, <2>7, <2>8
<1>3. QED
  BY <1>1, <1>2

LEMMA DelVlanGood ==
  ASSUME NEW a, Good(a), NEW v \in Vids, NEW m \in SUBSET Ports
  PROVE  Good(DelVlan(a, v, m))
<1> DEFINE match == MatchVlan(a.table, v)
           k == First(match)
           e == IF m = {} \/ a.table[k].members \subseteq m THEN Free
                ELSE Without(a.table[k], m \ {HOST})
<1>1. CASE match = {}
  <2>1. DelVlan(a, v, m) = [a EXCEPT !.ret = ENOENT]
    BY <1>1 DEF DelVlan, ModifyVlan
  <2>2. QED
    BY <2>1, RetGood
<1>2. CASE match # {}
  <2> DEFINE c == [a EXCEPT !.table[k] = e, !.ret = OK]
  <2>1. DelVlan(a, v, m) = [c EXCEPT !.untag = SetVlanUntag(@, v, UntagOf(e))]
    BY <1>2 DEF DelVlan, ModifyVlan, Change
  <2>2. a.table[k] \in VlanEntries /\ a.table[k].vid = v
    BY <1>2, VlanFound
  <2>3. e \in {Free} \cup VlanEntries /\ (e = Free \/ (e.vid = v /\ Proper(e)))
    BY <2>2, WithoutOK
  <2>4. k = First(MatchVlan(a.table, v))
    OBVIOUS
  <2>5. c = [a EXCEPT !.table[k] = e, !.ret = OK]
    OBVIOUS
  <2>6. MatchVlan(a.table, v) # {}
    BY <1>2
  <2> HIDE DEF e, k, c, match
  <2>7. PICK b : b = [c EXCEPT !.untag = SetVlanUntag(@, v, UntagOf(e))]
    OBVIOUS
  <2>8. Good(b)
    BY <2>3, <2>4, <2>5, <2>6, <2>7, ModifyGood
  <2>9. QED
    BY <2>1, <2>7, <2>8
<1>3. QED
  BY <1>1, <1>2

LEMMA VlanAddModifyGood ==
  ASSUME NEW a, Good(a), NEW v \in Vids, NEW m \in SUBSET Ports, m # {},
         NEW u \in SUBSET m, NEW reg \in SUBSET m, NEW unreg \in SUBSET m
  PROVE  Good(VlanAddModify(a, v, m, u, reg, unreg))
<1> DEFINE match == MatchVlan(a.table, v)
           old == IF match = {} THEN VlanEntry(v, {}, {}, {}, {}) ELSE a.table[First(match)]
<1>1. /\ old.members \in SUBSET Ports /\ old.untag \subseteq old.members
      /\ old.reg \subseteq old.members /\ old.unreg \in SUBSET Ports
  <2>1. CASE match = {}
    BY <2>1 DEF VlanEntry
  <2>2. CASE match # {}
    BY <2>2, VlanFound DEF VlanEntries, Proper
  <2>3. QED
    BY <2>1, <2>2
<1>2. VlanAddModify(a, v, m, u, reg, unreg)
        = AddVlan(a, v, old.members \cup m, (old.untag \ m) \cup u,
                  (old.reg \ m) \cup reg, (old.unreg \ m) \cup unreg)
  BY DEF VlanAddModify
<1> HIDE DEF old
<1>3. /\ old.members \cup m \in SUBSET Ports /\ old.members \cup m # {}
      /\ (old.untag \ m) \cup u \in SUBSET (old.members \cup m)
      /\ (old.reg \ m) \cup reg \in SUBSET (old.members \cup m)
      /\ (old.unreg \ m) \cup unreg \in SUBSET Ports
  BY <1>1
<1>4. QED
  BY <1>2, <1>3, AddVlanGood

-----------------------------------------------------------------------------
(* Entries that all change in place.                                       *)

\* The whole table is rewritten.
LEMMA RewriteGood ==
  ASSUME NEW a, Good(a), NEW t \in [Slot -> Entry],
         \A i \in Slot :
           /\ t[i] = Free \/ SameKey(a.table[i], t[i])
           /\ t[i].type = "vlan" =>
                (HOST \in t[i].untag <=> HOST \in a.table[i].untag) /\ Proper(t[i]),
         NEW b, b = [a EXCEPT !.table = t]
  PROVE  Good(b)
<1>1. b \in Engine /\ b.table = t /\ b.untag = a.untag
  BY DEF Good, Engine
<1>2. QED
  BY <1>1, Mapped

\* An entry that does not change.
LEMMA Kept ==
  ASSUME NEW a, Good(a), NEW i \in Slot
  PROVE  LET e == a.table[i]
         IN /\ e \in Entry /\ Proper(e)
            /\ e = Free \/ SameKey(e, e)
<1>1. a.table[i] \in Entry /\ Proper(a.table[i])
  BY DEF Good, Engine
<1>2. QED
  BY <1>1, Kinds DEF SameKey

\* The entry of a VLAN that changes where it floods.
LEMMA Reflooded ==
  ASSUME NEW e \in VlanEntries, Proper(e), NEW m \in SUBSET Ports, NEW add \in BOOLEAN,
         NEW f, f = Reflood(e, m, add)
  PROVE  /\ f \in Entry /\ Proper(f) /\ SameKey(e, f)
         /\ f.type = "vlan" /\ f.untag = e.untag
<1>1. PICK u : u = IF add THEN e.unreg \cup m ELSE e.unreg \ m
  OBVIOUS
<1>2. u \in SUBSET Ports
  BY <1>1 DEF VlanEntries
<1>3. f = [e EXCEPT !.unreg = u]
  BY <1>1 DEF Reflood
<1>4. f \in VlanEntries /\ f.vid = e.vid /\ f.type = "vlan" /\ e.type = "vlan"
      /\ f.untag = e.untag /\ f.members = e.members /\ f.reg = e.reg
  BY <1>2, <1>3 DEF VlanEntries
<1>5. QED
  BY <1>4 DEF Entry, Proper, SameKey

\* What the table becomes when VLANs change where they flood.
LEMMA RefloodGood ==
  ASSUME NEW a, Good(a), NEW m \in SUBSET Ports, NEW add \in BOOLEAN,
         NEW t, t = [i \in Slot |-> t[i]],
         \A i \in Slot : \/ t[i] = a.table[i]
                         \/ a.table[i].type = "vlan" /\ t[i] = Reflood(a.table[i], m, add),
         NEW b, b = [a EXCEPT !.table = t]
  PROVE  Good(b)
<1>1. ASSUME NEW i \in Slot
      PROVE  /\ t[i] \in Entry
             /\ t[i] = Free \/ SameKey(a.table[i], t[i])
             /\ t[i].type = "vlan" =>
                  (HOST \in t[i].untag <=> HOST \in a.table[i].untag) /\ Proper(t[i])
  <2>1. a.table[i] \in Entry /\ Proper(a.table[i])
        /\ (a.table[i] = Free \/ SameKey(a.table[i], a.table[i]))
    BY <1>1, Kept
  <2>2. CASE t[i] = a.table[i]
    BY <2>1, <2>2
  <2>3. CASE a.table[i].type = "vlan" /\ t[i] = Reflood(a.table[i], m, add)
    <3>1. a.table[i] \in VlanEntries
      BY <2>1, <2>3, Kinds
    <3>2. PICK e : e = a.table[i]
      OBVIOUS
    <3>3. /\ t[i] \in Entry /\ Proper(t[i]) /\ SameKey(e, t[i])
          /\ t[i].untag = e.untag
      BY <2>1, <2>3, <3>1, <3>2, Reflooded
    <3>4. QED
      BY <3>2, <3>3
  <2>4. QED
    BY <1>1, <2>2, <2>3
<1>2. t \in [Slot -> Entry]
  BY <1>1
<1>3. QED
  BY <1>1, <1>2, RewriteGood

LEMMA SetUnregGood ==
  ASSUME NEW a, Good(a), NEW m \in SUBSET Ports, NEW add \in BOOLEAN
  PROVE  Good(SetUnregMcast(a, m, add))
<1> DEFINE t == [i \in Slot |->
                   IF a.table[i].type # "vlan" THEN a.table[i] ELSE Reflood(a.table[i], m, add)]
           b == SetUnregMcast(a, m, add)
<1>1. b = [a EXCEPT !.table = t]
  BY DEF SetUnregMcast
<1>3. \A i \in Slot : \/ t[i] = a.table[i]
                      \/ a.table[i].type = "vlan" /\ t[i] = Reflood(a.table[i], m, add)
  OBVIOUS
<1>4. t = [i \in Slot |-> t[i]]
  OBVIOUS
<1> HIDE DEF b, t
<1>5. Good(b)
  BY <1>1, <1>3, <1>4, RefloodGood
<1>6. QED
  BY <1>5 DEF b

LEMMA SetAllmultiGood ==
  ASSUME NEW a, Good(a), NEW p \in Ports, NEW on \in BOOLEAN
  PROVE  Good(SetAllmulti(a, on, p))
<1> DEFINE t == [i \in Slot |->
                   IF a.table[i].type = "vlan" /\ p \in a.table[i].members
                   THEN Reflood(a.table[i], {HOST}, on) ELSE a.table[i]]
           b == SetAllmulti(a, on, p)
<1>1. b = [a EXCEPT !.table = t]
  BY DEF SetAllmulti
<1>2. PICK h \in SUBSET Ports : h = {HOST}
  BY PortsAssumption
<1>3. \A i \in Slot : \/ t[i] = a.table[i]
                      \/ a.table[i].type = "vlan" /\ t[i] = Reflood(a.table[i], h, on)
  BY <1>2
<1>4. t = [i \in Slot |-> t[i]]
  OBVIOUS
<1> HIDE DEF b, t
<1>5. Good(b)
  BY <1>1, <1>3, <1>4, RefloodGood
<1>6. QED
  BY <1>5 DEF b

LEMMA FlushGood ==
  ASSUME NEW a, Good(a), NEW m \in SUBSET Ports, NEW vids
  PROVE  Good(FlushMulticast(a, m, vids))
<1> DEFINE hit(e) == IsMcast(e) /\ e.vid \in vids /\ ~e.super /\ e.addr # BCAST
           t == [i \in Slot |-> IF hit(a.table[i]) THEN FlushMcast(a.table[i], m) ELSE a.table[i]]
           b == FlushMulticast(a, m, vids)
<1>1. PICK c : c = [a EXCEPT !.ret = OK]
  OBVIOUS
<1>2. Good(c) /\ c.table = a.table
  BY <1>1, RetGood DEF Good, Engine
<1>3. b = [c EXCEPT !.table = t]
  BY <1>1 DEF FlushMulticast
<1>4. ASSUME NEW i \in Slot
      PROVE  /\ t[i] \in Entry
             /\ t[i] = Free \/ SameKey(c.table[i], t[i])
             /\ t[i].type = "vlan" =>
                  (HOST \in t[i].untag <=> HOST \in c.table[i].untag) /\ Proper(t[i])
  <2>1. a.table[i] \in Entry /\ Proper(a.table[i])
        /\ (a.table[i] = Free \/ SameKey(a.table[i], a.table[i]))
    BY <1>4, Kept
  <2>2. CASE t[i] = a.table[i]
    BY <1>2, <2>1, <2>2
  <2>3. CASE t[i] # a.table[i] /\ hit(a.table[i])
    <3>1. a.table[i] \in McastEntries
      BY <2>1, <2>3, Kinds DEF IsMcast
    <3>2. t[i] = FlushMcast(a.table[i], m)
      BY <2>3
    <3>3. CASE a.table[i].mask \subseteq m
      <4>1. t[i] = Free
        BY <2>3, <3>2, <3>3 DEF FlushMcast
      <4>2. QED
        BY <4>1 DEF Free, Entry
    <3>4. CASE ~(a.table[i].mask \subseteq m)
      <4>1. t[i] = [a.table[i] EXCEPT !.mask = @ \ m]
        BY <2>3, <3>2, <3>4 DEF FlushMcast
      <4>2. t[i] \in McastEntries /\ SameKey(a.table[i], t[i])
        BY <3>1, <3>4, <4>1, FewerPorts
      <4>3. QED
        BY <1>2, <4>2 DEF Entry, McastEntries
    <3>5. QED
      BY <3>3, <3>4
  <2>4. QED
    BY <2>2, <2>3
<1>5. t \in [Slot -> Entry]
  BY <1>4
<1> HIDE DEF b, t
<1>6. QED
  BY <1>2, <1>3, <1>4, <1>5, RewriteGood DEF b

LEMMA AgeOutGood ==
  ASSUME NEW a, Good(a)
  PROVE  Good(AgeOut(a))
<1> DEFINE old(e) == [e EXCEPT !.ucast = "ageable"]
           t == [i \in Slot |->
                   IF i \notin FindAgeable(a.table) THEN a.table[i]
                   ELSE IF a.table[i].ucast = "ageable" THEN Free ELSE old(a.table[i])]
           b == AgeOut(a)
<1>1. b = [a EXCEPT !.table = t]
  BY DEF AgeOut
<1>2. ASSUME NEW i \in Slot
      PROVE  /\ t[i] \in Entry
             /\ t[i] = Free \/ SameKey(a.table[i], t[i])
             /\ t[i].type = "vlan" =>
                  (HOST \in t[i].untag <=> HOST \in a.table[i].untag) /\ Proper(t[i])
  <2>1. a.table[i] \in Entry /\ Proper(a.table[i])
        /\ (a.table[i] = Free \/ SameKey(a.table[i], a.table[i]))
    BY <1>2, Kept
  <2>2. CASE t[i] = a.table[i]
    BY <2>1, <2>2
  <2>3. CASE t[i] = Free
    BY <2>3 DEF Free, Entry
  <2>4. CASE i \in FindAgeable(a.table) /\ t[i] = old(a.table[i])
    <3>1. a.table[i] \in UcastEntries
      BY <2>1, <2>4, Kinds DEF FindAgeable, IsUcast
    <3>2. t[i] \in UcastEntries /\ SameKey(a.table[i], t[i])
      BY <2>4, <3>1 DEF UcastEntries, SameKey
    <3>3. QED
      BY <3>2 DEF Entry, UcastEntries
  <2>5. QED
    BY <1>2, <2>2, <2>3, <2>4
<1>3. t \in [Slot -> Entry]
  BY <1>2
<1> HIDE DEF b, t
<1>4. QED
  BY <1>1, <1>2, <1>3, RewriteGood DEF b

LEMMA ClearGood ==
  ASSUME NEW a, Good(a)
  PROVE  Good(Clear(a))
<1>1. Clear(a) = [a EXCEPT !.table = Cleared]
  BY DEF Clear
<1>2. Cleared \in [Slot -> Entry] /\ \A i \in Slot : Cleared[i] = Free
  BY DEF Cleared, Entry
<1>3. \A i \in Slot : Cleared[i].type # "vlan"
  BY <1>2 DEF Free
<1>4. QED
  BY <1>1, <1>2, <1>3, RewriteGood

-----------------------------------------------------------------------------
(* What the engine learns.                                                 *)

LEMMA LearnGood ==
  ASSUME NEW a, Good(a), NEW x \in Stations, NEW p \in Ports, NEW v \in Vids, NEW moves
  PROVE  Good(Learn(a, x, p, v, moves))
<1> DEFINE match == MatchAddr(a.table, x, v)
           k == First(match)
           used == [a.table[k] EXCEPT !.ucast = IF @ = "ageable" THEN "touched" ELSE @]
           e == IF moves /\ ~a.table[k].secure THEN [used EXCEPT !.port = p] ELSE used
           b == Learn(a, x, p, v, moves)
<1>1. x \in Addrs /\ x \notin Groups
  BY AddrsAssumption DEF Addrs
<1>2. CASE match # {}
  <2>1. /\ k \in Slot /\ a.table[k].type = "addr" /\ a.table[k].addr = x
        /\ a.table[k].vid = v /\ a.table[k] \in UcastEntries
    BY <1>1, <1>2, AddrFound
  <2>2. used \in UcastEntries /\ SameKey(a.table[k], used)
    <3>1. PICK u : u = IF a.table[k].ucast = "ageable" THEN "touched" ELSE a.table[k].ucast
      OBVIOUS
    <3>2. u \in {"persistant", "ageable", "touched"}
      BY <2>1, <3>1 DEF UcastEntries
    <3>3. used = [a.table[k] EXCEPT !.ucast = u]
      BY <3>1
    <3> HIDE DEF used, k
    <3>4. QED
      BY <2>1, <3>2, <3>3 DEF UcastEntries, SameKey
  <2>3. e \in UcastEntries /\ SameKey(a.table[k], e)
    <3>1. CASE moves /\ ~a.table[k].secure
      <4>1. e = [used EXCEPT !.port = p]
        BY <3>1
      <4> HIDE DEF e, used, k
      <4>2. QED
        BY <2>2, <4>1 DEF UcastEntries, SameKey
    <3>2. CASE ~(moves /\ ~a.table[k].secure)
      <4>1. e = used
        BY <3>2
      <4> HIDE DEF e, used, k
      <4>2. QED
        BY <2>2, <4>1
    <3>3. QED
      BY <3>1, <3>2
  <2>4. b = [a EXCEPT !.table[k] = e]
    BY <1>2 DEF Learn
  <2> HIDE DEF b, e, used, k, match
  <2>5. e \in Entry /\ e.type = "addr" /\ Proper(e)
    BY <2>3 DEF Entry, UcastEntries, Proper
  <2>6. [a.table EXCEPT ![k] = e] \in [Slot -> Entry]
    BY <2>1, <2>5 DEF Good, Engine
  <2>7. b \in Engine /\ b.table = [a.table EXCEPT ![k] = e] /\ b.untag = a.untag
    BY <2>4, <2>6 DEF Good, Engine
  <2>8. Good(b)
    BY <2>1, <2>3, <2>5, <2>7, SubstGood
  <2>9. QED
    BY <2>8 DEF b
<1>3. CASE match = {} /\ MatchFree(a.table) = {}
  <2>1. b = a
    BY <1>3 DEF Learn
  <2>2. QED
    BY <2>1
<1>4. CASE match = {} /\ MatchFree(a.table) # {}
  <2> DEFINE f == UcastEntry(x, v, p, FALSE, "touched")
             c == Put(a, Place(a.table, match), f)
             n == First(MatchFree(a.table))
  <2>1. f \in Entry /\ f.type = "addr" /\ f.addr = x /\ f.vid = v
    BY DEF UcastEntry, Entry, UcastEntries
  <2>2. Place(a.table, match) = MatchFree(a.table)
    BY <1>4 DEF Place
  <2>3. b = [a EXCEPT !.table[n] = f]
    BY <1>4 DEF Learn
  <2>4. c = [a EXCEPT !.table[n] = f, !.ret = OK]
    BY <1>4, <2>2 DEF Put
  <2> HIDE DEF b, c, f, n
  <2>5. Good(c)
    BY <2>1, PutAddrGood DEF c
  <2>6. n \in Slot
    <3>1. MatchFree(a.table) \subseteq Slot
      BY DEF MatchFree
    <3>2. QED
      BY <1>4, <3>1, FirstIn DEF n
  <2>7. [a.table EXCEPT ![n] = f] \in [Slot -> Entry]
    BY <2>1, <2>6 DEF Good, Engine
  <2>8. /\ b \in Engine /\ b.table = [a.table EXCEPT ![n] = f] /\ b.untag = a.untag
        /\ c.table = [a.table EXCEPT ![n] = f] /\ c.untag = a.untag
    BY <2>3, <2>4, <2>7 DEF Good, Engine
  <2>9. b.table = c.table /\ b.untag = c.untag
    BY <2>8
  <2>10. Good(b)
    BY <2>5, <2>8, <2>9 DEF Good, UntagAgreesIn, KeysUniqueIn
  <2>11. QED
    BY <2>10 DEF b
<1>5. QED
  BY <1>2, <1>3, <1>4

-----------------------------------------------------------------------------
(* The specification.                                                      *)

\* What every state of CpswTable satisfies.
TableIInv == Good(engine) /\ running \in BOOLEAN /\ armed \in BOOLEAN /\ learned \in 0..MaxLearn

LEMMA NowGood ==
  ASSUME NEW a, Good(a), Returns(a)
  PROVE  Good(engine')
BY RetGood DEF Returns

LEMMA InitGood == TableInit => TableIInv
<1> SUFFICES ASSUME TableInit PROVE TableIInv
  OBVIOUS
<1>1. Cleared \in [Slot -> Entry] /\ \A i \in Slot : Cleared[i] = Free
  BY DEF Cleared, Entry
<1>2. engine \in Engine /\ engine.table = Cleared
  BY <1>1 DEF TableInit, Engine
<1>3. \A i \in Slot : engine.table[i].type = "free"
  BY <1>1, <1>2 DEF Free
<1>4. KeysUniqueIn(engine.table) /\ UntagAgreesIn(engine) /\ \A i \in Slot : Proper(engine.table[i])
  BY <1>3 DEF KeysUniqueIn, SameKey, UntagAgreesIn, Proper
<1>5. Good(engine)
  BY <1>2, <1>4 DEF Good
<1>6. running \in BOOLEAN /\ armed \in BOOLEAN
  BY DEF TableInit
<1>7. learned \in 0..MaxLearn
  BY MaxLearnAssumption DEF TableInit
<1>8. QED
  BY <1>5, <1>6, <1>7 DEF TableIInv

\* No call breaks what the others rely on.
LEMMA CallGood ==
  ASSUME Good(engine), Call
  PROVE  Good(engine')
<1>1. \A m \in Masks : m \in SUBSET Ports
  BY MasksAssumption
<1>2. CASE DoAddUcast
  BY <1>2, AddUcastGood, NowGood DEF DoAddUcast
<1>3. CASE DoDelUcast
  BY <1>3, DelUcastGood, NowGood DEF DoDelUcast
<1>4. CASE DoAddMcast
  BY <1>1, <1>4, AddMcastGood, NowGood DEF DoAddMcast
<1>5. CASE DoDelMcast
  BY <1>1, <1>5, DelMcastGood, NowGood DEF DoDelMcast
<1>6. CASE DoFlush
  BY <1>1, <1>6, FlushGood, NowGood DEF DoFlush
<1>7. CASE DoAddVlan
  <2>1. PICK m \in Masks \ {{}}, v \in Vids : \E u \in {{}, m}, un \in {{}, {HOST}} :
          Returns(AddVlan(engine, v, m, u, m, un))
    BY <1>7 DEF DoAddVlan
  <2>2. PICK u \in {{}, m}, un \in {{}, {HOST}} : Returns(AddVlan(engine, v, m, u, m, un))
    BY <2>1
  <2>3. m \in SUBSET Ports /\ m # {} /\ u \in SUBSET m /\ m \in SUBSET m /\ un \in SUBSET Ports
    BY <1>1, PortsAssumption
  <2>4. QED
    BY <2>2, <2>3, AddVlanGood, NowGood
<1>8. CASE DoVlanAddModify
  <2>1. PICK m \in Masks \ {{}}, v \in Vids : \E u \in {{}, m} :
          Returns(VlanAddModify(engine, v, m, u, m, m))
    BY <1>8 DEF DoVlanAddModify
  <2>2. PICK u \in {{}, m} : Returns(VlanAddModify(engine, v, m, u, m, m))
    BY <2>1
  <2>3. m \in SUBSET Ports /\ m # {} /\ u \in SUBSET m /\ m \in SUBSET m
    BY <1>1
  <2>4. QED
    BY <2>2, <2>3, VlanAddModifyGood, NowGood
<1>9. CASE DoVlanDelModify
  BY <1>1, <1>9, VlanDelModifyGood, NowGood DEF DoVlanDelModify
<1>10. CASE DoDelVlan
  BY <1>1, <1>10, DelVlanGood, NowGood DEF DoDelVlan
<1>11. CASE DoSetUnreg
  BY <1>1, <1>11, SetUnregGood, NowGood DEF DoSetUnreg
<1>12. CASE DoSetAllmulti
  BY <1>12, SetAllmultiGood, NowGood DEF DoSetAllmulti
<1>13. QED
  BY <1>2, <1>3, <1>4, <1>5, <1>6, <1>7, <1>8, <1>9, <1>10, <1>11, <1>12 DEF Call

LEMMA NextGood == TableIInv /\ [TableNext]_tableVars => TableIInv'
<1> SUFFICES ASSUME TableIInv, [TableNext]_tableVars PROVE TableIInv'
  OBVIOUS
<1>1. Good(engine)
  BY DEF TableIInv
<1>2. CASE Call
  BY <1>1, <1>2, CallGood DEF TableIInv, Call, clockVars
<1>3. CASE StartAle
  BY <1>1, <1>3, ClearGood DEF TableIInv, StartAle
<1>4. CASE StopAle
  BY <1>1, <1>4, ClearGood DEF TableIInv, StopAle
<1>5. CASE Timer
  BY <1>1, <1>5, AgeOutGood DEF TableIInv, Timer, clockVars
<1>6. CASE HearFrame
  <2>1. Good(engine')
    BY <1>1, <1>6, LearnGood DEF HearFrame
  <2>2. learned' \in 0..MaxLearn /\ running' \in BOOLEAN /\ armed' \in BOOLEAN
    BY <1>6, MaxLearnAssumption DEF TableIInv, HearFrame
  <2>3. QED
    BY <2>1, <2>2 DEF TableIInv
<1>7. CASE UNCHANGED tableVars
  BY <1>7 DEF TableIInv, tableVars, Good, KeysUniqueIn, UntagAgreesIn
<1>8. QED
  BY <1>2, <1>3, <1>4, <1>5, <1>6, <1>7 DEF TableNext

THEOREM TableInv == TableSpec => []TableIInv
BY InitGood, NextGood, PTL DEF TableSpec

\* The table and the bit map have their types after any calls of my_cpsw_ale.c.
THEOREM TableTyped == TableSpec => []TableTypeOK
<1>1. TableIInv => TableTypeOK
  BY DEF TableIInv, Good, TableTypeOK
<1>2. QED
  BY <1>1, TableInv, PTL

\* No two entries are for the same VLAN, or for the same address of a VLAN: what a search of the
\* table finds does not depend on where entries were placed.
THEOREM TableKeysUnique == TableSpec => []KeysUnique
<1>1. TableIInv => KeysUnique
  BY DEF TableIInv, Good, KeysUnique
<1>2. QED
  BY <1>1, TableInv, PTL

\* The bit map of the untagged VLANs of the host port says what the table says.
THEOREM TableUntagAgrees == TableSpec => []UntagAgrees
<1>1. TableIInv => UntagAgrees
  BY DEF TableIInv, Good, UntagAgrees
<1>2. QED
  BY <1>1, TableInv, PTL

\* A port that left a VLAN is not untagged or registered in it.
THEOREM TableLeftForGood == TableSpec => []LeftForGood
<1>1. TableIInv => LeftForGood
  BY DEF TableIInv, Good, LeftForGood, Proper
<1>2. QED
  BY <1>1, TableInv, PTL

-----------------------------------------------------------------------------
(* The table implements AleMap.  Each step has one of a few shapes, in     *)
(* terms of the table alone; what a shape does to the set of the entries   *)
(* follows from the uniqueness of the keys.                                *)

Contents(t) == {t[i] : i \in Slot} \ {Free}
Learnt(e) == IsUcast(e) /\ e.ucast # "persistant"
PortsIn(e) == IF e.type = "vlan" THEN e.members ELSE IF IsMcast(e) THEN e.mask ELSE {}

\* A secure entry has been put there by the driver, and does not age.
Secured(t) == \A i \in Slot : IsUcast(t[i]) /\ t[i].secure => t[i].ucast = "persistant"

\* An entry comes, in the place of its own, of none or of a learned one.
Placed(t, u) ==
  \E k \in Slot, e \in Entry :
    /\ u = [t EXCEPT ![k] = e]
    /\ e # Free /\ ~Learnt(e)
    /\ t[k] = Free \/ Learnt(t[k]) \/ SameKey(e, t[k])

\* What an entry may become that goes or loses ports.
LessOf(e, f) == f = Free \/ (~Learnt(f) /\ SameKey(e, f) /\ PortsIn(f) \subseteq PortsIn(e))

Shrunk(t, u) ==
  \E k \in Slot, e \in Entry : u = [t EXCEPT ![k] = e] /\ t[k] # Free /\ LessOf(t[k], e)

Flushed(t, u) ==
  \A i \in Slot : u[i] = t[i] \/ (IsMcast(t[i]) /\ ~t[i].super /\ LessOf(t[i], u[i]))

Redirected(t, u) ==
  \A i \in Slot : \/ u[i] = t[i]
                  \/ t[i] \in VlanEntries /\ u[i] = [t[i] EXCEPT !.unreg = u[i].unreg]

\* A station is heard: its entry comes, or changes unless it is secure.
Heard(t, u) ==
  \E k \in Slot, e \in Entry :
    /\ u = [t EXCEPT ![k] = e]
    /\ IsUcast(e)
    /\ \/ t[k] = Free /\ ~e.secure
       \/ /\ IsUcast(t[k]) /\ SameKey(e, t[k]) /\ e.secure = t[k].secure
          /\ t[k].ucast = "persistant" => e.ucast = "persistant"
          /\ t[k].secure /\ t[k].ucast = "persistant" => e = t[k]

Aged(t, u) ==
  \A i \in Slot :
    \/ u[i] = t[i]
    \/ /\ Learnt(t[i])
       /\ u[i] = Free \/ (Learnt(u[i]) /\ SameKey(t[i], u[i]) /\ u[i].secure = t[i].secure)

NoneLeft(u) == \A i \in Slot : u[i] = Free

StepShape(t, u) ==
  \/ u = t
  \/ Placed(t, u) \/ Shrunk(t, u) \/ Flushed(t, u) \/ Redirected(t, u)
  \/ Heard(t, u) \/ Aged(t, u) \/ NoneLeft(u)

-----------------------------------------------------------------------------
(* From the shapes to the steps of AleMap.                                 *)

\* What one replaced entry does to the contents.
LEMMA SingleDiff ==
  ASSUME NEW t \in [Slot -> Entry], NEW k \in Slot, NEW e \in Entry,
         NEW u, u = [t EXCEPT ![k] = e]
  PROVE  /\ Contents(u) \ Contents(t) \subseteq {e}
         /\ Contents(t) \ Contents(u) \subseteq {t[k]}
         /\ e # Free => e \in Contents(u)
         /\ t[k] # Free => t[k] \in Contents(t)
         /\ Free \notin Contents(t)
BY DEF Contents

\* An entry that changes in its place is gone and what comes for it is new: no other place has
\* one with its key.
LEMMA RewriteDiff ==
  ASSUME NEW t \in [Slot -> Entry], NEW u \in [Slot -> Entry], KeysUniqueIn(t),
         \A i \in Slot : u[i] = t[i] \/ u[i] = Free \/ (t[i] # Free /\ SameKey(t[i], u[i]))
  PROVE  /\ \A e \in Contents(t) \ Contents(u) : \E i \in Slot : e = t[i] /\ u[i] # t[i] /\ e # Free
         /\ \A f \in Contents(u) \ Contents(t) :
              \E i \in Slot : /\ f = u[i] /\ u[i] # t[i] /\ f # Free /\ SameKey(t[i], f)
                              /\ t[i] \in Contents(t) \ Contents(u)
         /\ \A i \in Slot : t[i] # Free /\ u[i] # t[i] /\ u[i] # Free =>
              u[i] \in Contents(u) \ Contents(t)
<1>1. \A i \in Slot : t[i] = Free \/ SameKey(t[i], t[i])
  BY Kinds DEF SameKey
<1>2. \A i, j \in Slot : u[j] # Free /\ t[i] # Free /\ t[i] = u[j] => i = j
  <2>1. SUFFICES ASSUME NEW i \in Slot, NEW j \in Slot, u[j] # Free, t[i] # Free, t[i] = u[j]
                 PROVE  i = j
    OBVIOUS
  <2>2. SameKey(t[j], u[j])
    BY <1>1, <2>1
  <2>3. SameKey(t[i], t[j])
    BY <2>1, <2>2 DEF SameKey
  <2>4. QED
    BY <2>3 DEF KeysUniqueIn
<1>3. ASSUME NEW e \in Contents(t) \ Contents(u)
      PROVE  \E i \in Slot : e = t[i] /\ u[i] # t[i] /\ e # Free
  BY DEF Contents
<1>4. ASSUME NEW f \in Contents(u) \ Contents(t)
      PROVE  \E i \in Slot : /\ f = u[i] /\ u[i] # t[i] /\ f # Free /\ SameKey(t[i], f)
                             /\ t[i] \in Contents(t) \ Contents(u)
  <2>1. PICK i \in Slot : f = u[i] /\ f # Free /\ u[i] # t[i]
    BY DEF Contents
  <2>2. t[i] # Free /\ SameKey(t[i], f)
    BY <2>1
  <2>3. t[i] \in Contents(t) \ Contents(u)
    BY <1>2, <2>1, <2>2 DEF Contents
  <2>4. QED
    BY <2>1, <2>2, <2>3
<1>5. ASSUME NEW i \in Slot, t[i] # Free, u[i] # t[i], u[i] # Free
      PROVE  u[i] \in Contents(u) \ Contents(t)
  BY <1>2, <1>5 DEF Contents
<1>6. QED
  BY <1>3, <1>4, <1>5

\* The operators of AleMap are those of CpswAle.
LEMMA MapOps ==
  ASSUME NEW e, NEW f
  PROVE  /\ Map!IsLearned(e) <=> Learnt(e)
         /\ Map!PortsOf(e) = PortsIn(e)
         /\ Map!SameKey(e, f) <=> SameKey(e, f)
         /\ Map!IsUcast(e) <=> IsUcast(e)
         /\ Map!IsMcast(e) <=> IsMcast(e)
BY DEF Map!IsLearned, Map!PortsOf, Map!SameKey, Map!IsUcast, Map!IsMcast,
       Learnt, PortsIn, SameKey, IsUcast, IsMcast

LEMMA MapSets ==
  /\ Map!New = Contents(engine'.table) \ Contents(engine.table)
  /\ Map!Gone = Contents(engine.table) \ Contents(engine'.table)
BY DEF Map!New, Map!Gone, Contents, Free, Map!Free

LEMMA PlacedIsAdd ==
  ASSUME engine.table \in [Slot -> Entry], Placed(engine.table, engine'.table)
  PROVE  Map!Add
<1> DEFINE t == engine.table
           u == engine'.table
<1>1. PICK k \in Slot, e \in Entry :
        /\ u = [t EXCEPT ![k] = e]
        /\ e # Free /\ ~Learnt(e)
        /\ t[k] = Free \/ Learnt(t[k]) \/ SameKey(e, t[k])
  BY DEF Placed
<1>2. /\ Contents(u) \ Contents(t) \subseteq {e}
      /\ Contents(t) \ Contents(u) \subseteq {t[k]}
      /\ e \in Contents(u)
      /\ t[k] # Free => t[k] \in Contents(t)
      /\ Free \notin Contents(t)
  BY <1>1, SingleDiff
<1> HIDE DEF t, u
<1>3. PICK lost : lost = IF Learnt(t[k]) THEN {t[k]} ELSE {}
  OBVIOUS
<1>4. Contents(t) \ Contents(u) \subseteq lost \cup {f \in Contents(t) : SameKey(e, f)}
  BY <1>1, <1>2, <1>3
<1>5. lost \in {{}} \cup {{l} : l \in {f \in Contents(t) : Learnt(f)}}
  <2>1. Learnt(t[k]) => t[k] # Free
    BY DEF Learnt, IsUcast, Free
  <2>2. QED
    BY <1>2, <1>3, <2>1
<1>6. /\ ~Map!IsLearned(e)
      /\ {f \in Contents(t) : SameKey(e, f)} = {f \in Contents(t) : Map!SameKey(e, f)}
      /\ {f \in Contents(t) : Learnt(f)} = {f \in Contents(t) : Map!IsLearned(f)}
  BY <1>1, MapOps
<1>7. /\ Map!New \subseteq {e}
      /\ lost \in {{}} \cup {{l} : l \in {f \in Contents(t) : Map!IsLearned(f)}}
      /\ Map!Gone \subseteq lost \cup {f \in Contents(t) : Map!SameKey(e, f)}
  BY <1>2, <1>4, <1>5, <1>6, MapSets DEF t, u
<1>8. Contents(t) = {engine.table[i] : i \in Slot} \ {Free}
      /\ Contents(u) = {engine'.table[i] : i \in Slot} \ {Free}
  BY DEF Contents, t, u
<1>9. QED
  BY <1>2, <1>6, <1>7, <1>8 DEF Map!Add

LEMMA ShrunkIsShrink ==
  ASSUME engine.table \in [Slot -> Entry], Shrunk(engine.table, engine'.table)
  PROVE  Map!Shrink
<1> DEFINE t == engine.table
           u == engine'.table
<1>1. PICK k \in Slot, e \in Entry :
        u = [t EXCEPT ![k] = e] /\ t[k] # Free /\ LessOf(t[k], e)
  BY DEF Shrunk
<1>2. /\ Contents(u) \ Contents(t) \subseteq {e}
      /\ Contents(t) \ Contents(u) \subseteq {t[k]}
      /\ t[k] \in Contents(t)
      /\ Free \notin Contents(u)
  BY <1>1, SingleDiff DEF Contents
<1> HIDE DEF t, u
<1>3. /\ Map!Gone \subseteq {t[k]}
      /\ \A f \in Map!New :
           ~Learnt(f) /\ SameKey(t[k], f) /\ PortsIn(f) \subseteq PortsIn(t[k])
  BY <1>1, <1>2, MapSets DEF LessOf, t, u
<1>4. \A f \in Map!New :
        ~Map!IsLearned(f) /\ Map!SameKey(t[k], f) /\ Map!PortsOf(f) \subseteq Map!PortsOf(t[k])
  BY <1>3, MapOps
<1>5. Contents(t) = {engine.table[i] : i \in Slot} \ {Free}
  BY DEF Contents, t
<1>6. QED
  BY <1>2, <1>3, <1>4, <1>5 DEF Map!Shrink

LEMMA FlushedIsFlush ==
  ASSUME Good(engine), Good(engine'), Flushed(engine.table, engine'.table)
  PROVE  Map!Flush
<1> DEFINE t == engine.table
           u == engine'.table
<1>1. t \in [Slot -> Entry] /\ u \in [Slot -> Entry] /\ KeysUniqueIn(t)
  BY DEF Good, Engine
<1>2. \A i \in Slot : u[i] = t[i] \/ (IsMcast(t[i]) /\ ~t[i].super /\ LessOf(t[i], u[i]))
  BY DEF Flushed
<1> HIDE DEF t, u
<1>3. \A i \in Slot : u[i] = t[i] \/ u[i] = Free \/ (t[i] # Free /\ SameKey(t[i], u[i]))
  BY <1>2 DEF LessOf, IsMcast, Free
<1>4. \A e \in Contents(t) \ Contents(u) : IsMcast(e) /\ ~e.super
  BY <1>1, <1>2, <1>3, RewriteDiff
<1>5. \A f \in Contents(u) \ Contents(t) : \E e \in Contents(t) \ Contents(u) :
        SameKey(e, f) /\ PortsIn(f) \subseteq PortsIn(e)
  BY <1>1, <1>2, <1>3, RewriteDiff DEF LessOf
<1>6. QED
  BY <1>4, <1>5, MapSets, MapOps DEF Map!Flush, t, u

LEMMA RedirectedIsRedirect ==
  ASSUME Good(engine), Good(engine'), Redirected(engine.table, engine'.table)
  PROVE  Map!Redirect
<1> DEFINE t == engine.table
           u == engine'.table
<1>1. t \in [Slot -> Entry] /\ u \in [Slot -> Entry] /\ KeysUniqueIn(t)
  BY DEF Good, Engine
<1>2. \A i \in Slot : u[i] = t[i] \/ (t[i] \in VlanEntries /\ u[i] = [t[i] EXCEPT !.unreg = u[i].unreg])
  BY DEF Redirected
<1> HIDE DEF t, u
<1>3. \A i \in Slot : u[i] = t[i] \/ (u[i] # Free /\ t[i] # Free /\ SameKey(t[i], u[i]) /\ t[i].type = "vlan")
  BY <1>2 DEF SameKey, Free, VlanEntries
<1>4. \A e \in Contents(t) \ Contents(u) :
        /\ e.type = "vlan"
        /\ \E f \in Contents(u) \ Contents(t) : f = [e EXCEPT !.unreg = f.unreg]
  BY <1>1, <1>2, <1>3, RewriteDiff
<1>5. \A f \in Contents(u) \ Contents(t) : \E e \in Contents(t) \ Contents(u) : SameKey(e, f)
  BY <1>1, <1>3, RewriteDiff
<1>6. QED
  BY <1>4, <1>5, MapSets, MapOps DEF Map!Redirect, t, u

LEMMA HeardIsHear ==
  ASSUME engine.table \in [Slot -> Entry], Secured(engine.table), Heard(engine.table, engine'.table)
  PROVE  Map!Hear
<1> DEFINE t == engine.table
           u == engine'.table
<1>1. PICK k \in Slot, e \in Entry :
        /\ u = [t EXCEPT ![k] = e]
        /\ IsUcast(e)
        /\ \/ t[k] = Free
           \/ /\ IsUcast(t[k]) /\ SameKey(e, t[k])
              /\ t[k].secure /\ t[k].ucast = "persistant" => e = t[k]
  BY DEF Heard
<1>2. e # Free
  BY <1>1 DEF IsUcast, Free
<1>3. /\ Contents(u) \ Contents(t) \subseteq {e}
      /\ Contents(t) \ Contents(u) \subseteq {t[k]}
      /\ e \in Contents(u)
      /\ Free \notin Contents(t)
  BY <1>1, <1>2, SingleDiff
<1>4. IsUcast(t[k]) /\ t[k].secure => t[k].ucast = "persistant"
  BY DEF Secured
<1> HIDE DEF t, u
<1>5. \A f \in Contents(t) \ Contents(u) : SameKey(e, f) /\ IsUcast(f) /\ ~f.secure
  BY <1>1, <1>3, <1>4
<1>6. \E x \in Contents(u) :
        /\ IsUcast(x) /\ Contents(u) \ Contents(t) \subseteq {x}
        /\ \A f \in Contents(t) \ Contents(u) : SameKey(x, f) /\ IsUcast(f) /\ ~f.secure
  BY <1>1, <1>3, <1>5
<1>7. Contents(u) = {engine'.table[i] : i \in Slot} \ {Free}
  BY DEF Contents, u
<1>8. QED
  BY <1>6, <1>7, MapSets, MapOps DEF Map!Hear, t, u

LEMMA AgedIsAge ==
  ASSUME Good(engine), Good(engine'), Aged(engine.table, engine'.table)
  PROVE  Map!Age
<1> DEFINE t == engine.table
           u == engine'.table
<1>1. t \in [Slot -> Entry] /\ u \in [Slot -> Entry] /\ KeysUniqueIn(t)
  BY DEF Good, Engine
<1>2. \A i \in Slot :
        u[i] = t[i] \/ (Learnt(t[i]) /\ (u[i] = Free \/ (Learnt(u[i]) /\ SameKey(t[i], u[i]))))
  BY DEF Aged
<1> HIDE DEF t, u
<1>3. \A i \in Slot : u[i] = t[i] \/ u[i] = Free \/ (t[i] # Free /\ SameKey(t[i], u[i]))
  BY <1>2 DEF Learnt, IsUcast, Free
<1>4. \A e \in Contents(t) \ Contents(u) : Learnt(e)
  BY <1>1, <1>2, <1>3, RewriteDiff
<1>5. \A f \in Contents(u) \ Contents(t) : Learnt(f)
  BY <1>1, <1>2, <1>3, RewriteDiff
<1>6. QED
  BY <1>4, <1>5, MapSets, MapOps DEF Map!Age, t, u

LEMMA EmptiedIsEmpty ==
  ASSUME NoneLeft(engine'.table)
  PROVE  Map!Empty
BY DEF NoneLeft, Map!Empty

\* The keys of the entries are unique because those of the table are.
LEMMA MapUnique ==
  ASSUME Good(engine')
  PROVE  \A e, f \in Contents(engine'.table) : SameKey(e, f) => e = f
BY DEF Good, KeysUniqueIn, Contents

LEMMA ShapeIsMapStep ==
  ASSUME Good(engine), Good(engine'), Secured(engine.table), StepShape(engine.table, engine'.table)
  PROVE  Map!Next \/ engine'.table = engine.table
<1>1. engine.table \in [Slot -> Entry]
  BY DEF Good, Engine
<1>2. Contents(engine'.table) = {engine'.table[i] : i \in Slot} \ {Free}
  BY DEF Contents
<1>3. \A e, f \in {engine'.table[i] : i \in Slot} \ {Free} : Map!SameKey(e, f) => e = f
  BY <1>2, MapUnique, MapOps
<1>4. \/ engine'.table = engine.table
      \/ Map!Add \/ Map!Shrink \/ Map!Flush \/ Map!Redirect \/ Map!Hear \/ Map!Age \/ Map!Empty
  BY <1>1, PlacedIsAdd, ShrunkIsShrink, FlushedIsFlush, RedirectedIsRedirect, HeardIsHear,
     AgedIsAge, EmptiedIsEmpty DEF StepShape
<1>5. QED
  BY <1>3, <1>4 DEF Map!Next

\* No shape makes a learned entry secure.
LEMMA SecuredKept ==
  ASSUME NEW t \in [Slot -> Entry], NEW u, Secured(t), StepShape(t, u)
  PROVE  Secured(u)
<1>1. SUFFICES ASSUME NEW i \in Slot, IsUcast(u[i]), u[i].secure
               PROVE  u[i].ucast = "persistant"
  BY DEF Secured
<1>2. u[i] # Free
  BY <1>1 DEF IsUcast, Free
<1>3. CASE u = t \/ NoneLeft(u)
  BY <1>1, <1>2, <1>3 DEF Secured, NoneLeft
<1>4. CASE Placed(t, u)
  BY <1>1, <1>4 DEF Placed, Secured, Learnt
<1>5. CASE Shrunk(t, u)
  BY <1>1, <1>2, <1>5 DEF Shrunk, LessOf, Secured, Learnt
<1>6. CASE Flushed(t, u)
  BY <1>1, <1>2, <1>6 DEF Flushed, LessOf, Secured, Learnt
<1>7. CASE Redirected(t, u)
  BY <1>1, <1>7 DEF Redirected, Secured, VlanEntries, IsUcast
<1>8. CASE Heard(t, u)
  BY <1>1, <1>8 DEF Heard, Secured
<1>9. CASE Aged(t, u)
  BY <1>1, <1>2, <1>9 DEF Aged, Secured, Learnt
<1>10. QED
  BY <1>3, <1>4, <1>5, <1>6, <1>7, <1>8, <1>9 DEF StepShape

-----------------------------------------------------------------------------
(* The shapes of the calls.                                                *)

\* An entry that is put in the place found for it.
LEMMA PutShape ==
  ASSUME NEW a \in Engine, NEW e \in Entry, e # Free, ~Learnt(e),
         NEW match, match \subseteq Slot, \A i \in match : SameKey(e, a.table[i]),
         NEW c \in Engine, c.table = a.table
  PROVE  StepShape(a.table, Put(c, Place(a.table, match), e).table)
<1> DEFINE t == a.table
           place == Place(t, match)
           k == First(place)
           b == Put(c, place, e)
<1>1. CASE place = {}
  BY <1>1 DEF Put, StepShape, Engine
<1>2. CASE place # {}
  <2>1. place \subseteq Slot /\ \A i \in place : t[i] = Free \/ Learnt(t[i]) \/ SameKey(e, t[i])
    <3>1. \A i \in Slot : t[i].type = "free" => t[i] = Free
      BY Kinds DEF Engine
    <3>2. QED
      BY <3>1 DEF Place, MatchFree, FindAgeable, Learnt
  <2>2. k \in place
    <3> HIDE DEF place
    <3>1. QED
      BY <1>2, <2>1, FirstIn
  <2>3. b = [c EXCEPT !.table[k] = e, !.ret = OK]
    BY <1>2 DEF Put
  <2> HIDE DEF b, k, place
  <2>4. b.table = [t EXCEPT ![k] = e]
    BY <2>3 DEF Engine
  <2>5. Placed(t, b.table)
    BY <2>1, <2>2, <2>4 DEF Placed
  <2>6. QED
    BY <2>5 DEF StepShape, b, place
<1>3. QED
  BY <1>1, <1>2

\* The same for an entry with an address.
LEMMA PutAddrShape ==
  ASSUME NEW a \in Engine, NEW e \in Entry, e.type = "addr", ~Learnt(e)
  PROVE  StepShape(a.table, Put(a, Place(a.table, MatchAddr(a.table, e.addr, e.vid)), e).table)
<1>1. /\ MatchAddr(a.table, e.addr, e.vid) \subseteq Slot
      /\ \A i \in MatchAddr(a.table, e.addr, e.vid) : SameKey(e, a.table[i])
  BY DEF MatchAddr, SameKey
<1>2. e # Free
  BY DEF Free
<1>3. QED
  BY <1>1, <1>2, PutShape

LEMMA AddUcastShape ==
  ASSUME NEW a \in Engine, NEW x \in Stations, NEW p \in Ports, NEW s \in BOOLEAN, NEW v \in Vids
  PROVE  StepShape(a.table, AddUcast(a, x, p, s, v).table)
<1> DEFINE e == UcastEntry(x, v, p, s, "persistant")
<1>1. e \in Entry /\ e.type = "addr" /\ e.addr = x /\ e.vid = v /\ ~Learnt(e)
  BY DEF UcastEntry, Entry, UcastEntries, Learnt
<1> HIDE DEF e
<1>2. StepShape(a.table, Put(a, Place(a.table, MatchAddr(a.table, x, v)), e).table)
  BY <1>1, PutAddrShape
<1>3. QED
  BY <1>2 DEF AddUcast, e

\* The ports of the multicast entry that a call adds to.
LEMMA OldMask ==
  ASSUME NEW a, Good(a), NEW x \in Groups, NEW v
  PROVE  (IF MatchAddr(a.table, x, v) = {} THEN {}
          ELSE a.table[First(MatchAddr(a.table, x, v))].mask) \in SUBSET Ports
<1>1. CASE MatchAddr(a.table, x, v) = {}
  BY <1>1
<1>2. CASE MatchAddr(a.table, x, v) # {}
  BY <1>2, AddrFound DEF Addrs, McastEntries
<1>3. QED
  BY <1>1, <1>2

LEMMA AddMcastShape ==
  ASSUME NEW a, Good(a), NEW x \in Groups, NEW m \in SUBSET Ports, m # {}, NEW s \in BOOLEAN,
         NEW v \in Vids
  PROVE  StepShape(a.table, AddMcast(a, x, m, s, v).table)
<1> DEFINE match == MatchAddr(a.table, x, v)
           old == IF match = {} THEN {} ELSE a.table[First(match)].mask
           e == McastEntry(x, v, old \cup m, s)
<1>1. old \in SUBSET Ports
  BY OldMask
<1> HIDE DEF old
<1>2. e \in Entry /\ e.type = "addr" /\ e.addr = x /\ e.vid = v /\ ~Learnt(e)
  BY <1>1 DEF McastEntry, Entry, McastEntries, Learnt, IsUcast
<1> HIDE DEF e
<1>3. StepShape(a.table, Put(a, Place(a.table, match), e).table)
  BY <1>2, PutAddrShape DEF Good
<1>4. AddMcast(a, x, m, s, v) = Put(a, Place(a.table, match), e)
  BY DEF AddMcast, e, old
<1>5. QED
  BY <1>3, <1>4

LEMMA AddVlanShape ==
  ASSUME NEW a \in Engine, NEW v \in Vids, NEW m \in SUBSET Ports, m # {},
         NEW u \in SUBSET Ports, NEW reg \in SUBSET Ports, NEW unreg \in SUBSET Ports
  PROVE  StepShape(a.table, AddVlan(a, v, m, u, reg, unreg).table)
<1> DEFINE e == VlanEntry(v, m, u, reg, unreg)
           c == [a EXCEPT !.untag = SetVlanUntag(@, v, u)]
<1>1. e \in Entry /\ e.type = "vlan" /\ e.vid = v /\ e # Free /\ ~Learnt(e)
  BY DEF VlanEntry, VlanEntries, Entry, Free, Learnt, IsUcast
<1>2. c \in Engine /\ c.table = a.table
  <2>1. a.untag \in SUBSET Vids
    BY DEF Engine
  <2>2. QED
    BY <2>1, UntagSet DEF Engine
<1>3. /\ MatchVlan(a.table, v) \subseteq Slot
      /\ \A i \in MatchVlan(a.table, v) : SameKey(e, a.table[i])
  BY <1>1 DEF MatchVlan, SameKey
<1> HIDE DEF e, c
<1>4. StepShape(a.table, Put(c, Place(a.table, MatchVlan(a.table, v)), e).table)
  BY <1>1, <1>2, <1>3, PutShape
<1>5. QED
  BY <1>4 DEF AddVlan, e, c

\* What an entry of a VLAN, or none, has for a call that adds to it.
LEMMA VlanAddModifyShape ==
  ASSUME NEW a, Good(a), NEW v \in Vids, NEW m \in SUBSET Ports, m # {},
         NEW u \in SUBSET Ports, NEW reg \in SUBSET Ports, NEW unreg \in SUBSET Ports
  PROVE  StepShape(a.table, VlanAddModify(a, v, m, u, reg, unreg).table)
<1> DEFINE match == MatchVlan(a.table, v)
           old == IF match = {} THEN VlanEntry(v, {}, {}, {}, {}) ELSE a.table[First(match)]
<1>1. /\ old.members \in SUBSET Ports /\ old.untag \in SUBSET Ports
      /\ old.reg \in SUBSET Ports /\ old.unreg \in SUBSET Ports
  <2>1. CASE match = {}
    BY <2>1 DEF VlanEntry
  <2>2. CASE match # {}
    BY <2>2, VlanFound DEF VlanEntries
  <2>3. QED
    BY <2>1, <2>2
<1>2. VlanAddModify(a, v, m, u, reg, unreg)
        = AddVlan(a, v, old.members \cup m, (old.untag \ m) \cup u,
                  (old.reg \ m) \cup reg, (old.unreg \ m) \cup unreg)
  BY DEF VlanAddModify
<1> HIDE DEF old
<1>3. /\ old.members \cup m \in SUBSET Ports /\ old.members \cup m # {}
      /\ (old.untag \ m) \cup u \in SUBSET Ports
      /\ (old.reg \ m) \cup reg \in SUBSET Ports
      /\ (old.unreg \ m) \cup unreg \in SUBSET Ports
  BY <1>1
<1>4. QED
  BY <1>2, <1>3, AddVlanShape DEF Good

\* An entry that is replaced by less of it.
LEMMA LessShape ==
  ASSUME NEW a, NEW k \in Slot, a.table[k] # Free, NEW e \in Entry, LessOf(a.table[k], e),
         NEW t, t = [a.table EXCEPT ![k] = e]
  PROVE  StepShape(a.table, t)
BY DEF StepShape, Shrunk

LEMMA DelUcastShape ==
  ASSUME NEW a, Good(a), NEW x \in Stations, NEW v \in Vids
  PROVE  StepShape(a.table, DelUcast(a, x, v).table)
<1> DEFINE match == MatchAddr(a.table, x, v)
           k == First(match)
<1>1. CASE match = {}
  BY <1>1 DEF DelUcast, Change, StepShape, Good, Engine
<1>2. CASE match # {}
  <2>1. DelUcast(a, x, v) = [a EXCEPT !.table[k] = Free, !.ret = OK]
    BY <1>2 DEF DelUcast, Change
  <2>2. k \in Slot /\ a.table[k] # Free
    BY <1>2, AddrFound DEF Addrs, Free
  <2>3. Free \in Entry /\ LessOf(a.table[k], Free) /\ a \in Engine
    BY DEF Entry, LessOf, Good
  <2> HIDE DEF k
  <2>4. DelUcast(a, x, v).table = [a.table EXCEPT ![k] = Free]
    BY <2>1, <2>3 DEF Engine
  <2>5. QED
    BY <2>2, <2>3, <2>4, LessShape
<1>3. QED
  BY <1>1, <1>2

\* A multicast entry that is left with fewer ports, or goes.
LEMMA FewerMcast ==
  ASSUME NEW e \in McastEntries, NEW m, NEW f,
         f = Free \/ (~(e.mask \subseteq m) /\ f = [e EXCEPT !.mask = @ \ m])
  PROVE  f \in Entry /\ LessOf(e, f)
<1>1. CASE f = Free
  BY <1>1 DEF Entry, LessOf
<1>2. CASE ~(e.mask \subseteq m) /\ f = [e EXCEPT !.mask = @ \ m]
  <2>1. f \in McastEntries /\ SameKey(e, f)
    BY <1>2, FewerPorts
  <2>2. f.mask = e.mask \ m /\ IsMcast(e) /\ IsMcast(f) /\ ~Learnt(f)
    BY <1>2, <2>1 DEF McastEntries, IsMcast, Learnt, IsUcast
  <2>3. e.type # "vlan" /\ f.type # "vlan"
    BY <2>1 DEF McastEntries
  <2>4. QED
    BY <2>1, <2>2, <2>3 DEF Entry, LessOf, PortsIn
<1>3. QED
  BY <1>1, <1>2

LEMMA DelMcastShape ==
  ASSUME NEW a, Good(a), NEW x \in Groups, NEW m \in SUBSET Ports, NEW v \in Vids
  PROVE  StepShape(a.table, DelMcast(a, x, m, v).table)
<1> DEFINE match == MatchAddr(a.table, x, v)
           k == First(match)
           e == IF m = {} \/ a.table[k].mask \subseteq m THEN Free
                ELSE [a.table[k] EXCEPT !.mask = @ \ m]
<1>1. CASE match = {}
  BY <1>1 DEF DelMcast, Change, StepShape, Good, Engine
<1>2. CASE match # {}
  <2>1. DelMcast(a, x, m, v) = [a EXCEPT !.table[k] = e, !.ret = OK]
    BY <1>2 DEF DelMcast, Change
  <2>2. k \in Slot /\ a.table[k].type = "addr" /\ a.table[k] \in McastEntries
    BY <1>2, AddrFound DEF Addrs
  <2>3. a.table[k] # Free /\ a \in Engine
    BY <2>2 DEF Free, Good
  <2>4. e = Free \/ (~(a.table[k].mask \subseteq m) /\ e = [a.table[k] EXCEPT !.mask = @ \ m])
    OBVIOUS
  <2> HIDE DEF e, k
  <2>5. e \in Entry /\ LessOf(a.table[k], e)
    BY <2>2, <2>4, FewerMcast
  <2>6. DelMcast(a, x, m, v).table = [a.table EXCEPT ![k] = e]
    BY <2>1, <2>3 DEF Engine
  <2>7. QED
    BY <2>2, <2>3, <2>5, <2>6, LessShape
<1>3. QED
  BY <1>1, <1>2

\* A VLAN without some ports.
LEMMA FewerVlan ==
  ASSUME NEW e \in VlanEntries, NEW m, NEW f, f = Free \/ f = Without(e, m)
  PROVE  f \in Entry /\ LessOf(e, f)
<1>1. CASE f = Free
  BY <1>1 DEF Entry, LessOf
<1>2. CASE f # Free
  <2>1. f \in VlanEntries /\ f.vid = e.vid
    BY <1>2, WithoutOK
  <2>2. f.members \subseteq e.members
    BY <1>2 DEF Without, VlanEntry
  <2>3. e.type = "vlan" /\ f.type = "vlan"
    BY <2>1 DEF VlanEntries
  <2>4. QED
    BY <2>1, <2>2, <2>3 DEF Entry, LessOf, SameKey, PortsIn, Learnt, IsUcast
<1>3. QED
  BY <1>1, <1>2

\* The entry of a VLAN that ports leave, with the bit of the VLAN.
LEMMA ModifyShape ==
  ASSUME NEW a, Good(a), NEW v \in Vids, MatchVlan(a.table, v) # {},
         NEW k, k = First(MatchVlan(a.table, v)), NEW m,
         NEW e, e = Free \/ e = Without(a.table[k], m),
         NEW c, c = [a EXCEPT !.table[k] = e, !.ret = OK],
         NEW b, b = [c EXCEPT !.untag = SetVlanUntag(@, v, UntagOf(e))]
  PROVE  StepShape(a.table, b.table)
<1>1. k \in Slot /\ a.table[k].type = "vlan" /\ a.table[k] \in VlanEntries
  BY VlanFound
<1>2. e \in Entry /\ LessOf(a.table[k], e) /\ a.table[k] # Free /\ a \in Engine
  BY <1>1, FewerVlan DEF Free, Good
<1>3. c.table = [a.table EXCEPT ![k] = e]
  BY <1>2 DEF Engine
<1>4. c \in Engine
  BY <1>1, <1>2 DEF Engine
<1>5. b.table = c.table
  BY <1>4 DEF Engine
<1>6. b.table = [a.table EXCEPT ![k] = e]
  BY <1>3, <1>5
<1>7. QED
  BY <1>1, <1>2, <1>6, LessShape

LEMMA VlanDelModifyShape ==
  ASSUME NEW a, Good(a), NEW v \in Vids, NEW m \in SUBSET Ports
  PROVE  StepShape(a.table, VlanDelModify(a, v, m).table)
<1> DEFINE match == MatchVlan(a.table, v)
           k == First(match)
           e == Without(a.table[k], m)
<1>1. CASE match = {}
  BY <1>1 DEF VlanDelModify, ModifyVlan, StepShape, Good, Engine
<1>2. CASE match # {}
  <2> DEFINE c == [a EXCEPT !.table[k] = e, !.ret = OK]
             b == [c EXCEPT !.untag = SetVlanUntag(@, v, UntagOf(e))]
  <2>1. VlanDelModify(a, v, m) = b
    BY <1>2 DEF VlanDelModify, ModifyVlan, Change
  <2>2. StepShape(a.table, b.table)
    BY <1>2, ModifyShape
  <2>3. QED
    BY <2>1, <2>2
<1>3. QED
  BY <1>1, <1>2

LEMMA DelVlanShape ==
  ASSUME NEW a, Good(a), NEW v \in Vids, NEW m \in SUBSET Ports
  PROVE  StepShape(a.table, DelVlan(a, v, m).table)
<1> DEFINE match == MatchVlan(a.table, v)
           k == First(match)
           e == IF m = {} \/ a.table[k].members \subseteq m THEN Free
                ELSE Without(a.table[k], m \ {HOST})
<1>1. CASE match = {}
  BY <1>1 DEF DelVlan, ModifyVlan, StepShape, Good, Engine
<1>2. CASE match # {}
  <2> DEFINE c == [a EXCEPT !.table[k] = e, !.ret = OK]
             b == [c EXCEPT !.untag = SetVlanUntag(@, v, UntagOf(e))]
  <2>1. DelVlan(a, v, m) = b
    BY <1>2 DEF DelVlan, ModifyVlan, Change
  <2>2. e = Free \/ e = Without(a.table[k], m \ {HOST})
    OBVIOUS
  <2>3. StepShape(a.table, b.table)
    <3> HIDE DEF e
    <3>1. QED
      BY <1>2, <2>2, ModifyShape
  <2>4. QED
    BY <2>1, <2>3
<1>3. QED
  BY <1>1, <1>2

\* Multicast entries that lose ports.
LEMMA FlushShape ==
  ASSUME NEW a, Good(a), NEW m \in SUBSET Ports, NEW vids
  PROVE  StepShape(a.table, FlushMulticast(a, m, vids).table)
<1> DEFINE hit(e) == IsMcast(e) /\ e.vid \in vids /\ ~e.super /\ e.addr # BCAST
           t == a.table
           u == [i \in Slot |-> IF hit(t[i]) THEN FlushMcast(t[i], m) ELSE t[i]]
<1>1. FlushMulticast(a, m, vids).table = u
  BY DEF FlushMulticast, Good, Engine
<1>2. ASSUME NEW i \in Slot
      PROVE  u[i] = t[i] \/ (IsMcast(t[i]) /\ ~t[i].super /\ LessOf(t[i], u[i]))
  <2>1. CASE ~hit(t[i])
    BY <2>1
  <2>2. CASE hit(t[i])
    <3>1. t[i] \in McastEntries
      BY <2>2, Kinds DEF Good, Engine, IsMcast
    <3>2. u[i] = FlushMcast(t[i], m)
      BY <2>2
    <3>3. \/ u[i] = t[i] \/ u[i] = Free
          \/ ~(t[i].mask \subseteq m) /\ u[i] = [t[i] EXCEPT !.mask = @ \ m]
      BY <3>2 DEF FlushMcast
    <3>4. u[i] = t[i] \/ LessOf(t[i], u[i])
      BY <3>1, <3>3, FewerMcast
    <3>5. QED
      BY <2>2, <3>4
  <2>3. QED
    BY <2>1, <2>2
<1> HIDE DEF u
<1>3. Flushed(t, u)
  BY <1>2 DEF Flushed
<1>4. QED
  BY <1>1, <1>3 DEF StepShape

\* A VLAN that changes where it floods.
LEMMA RefloodShape ==
  ASSUME NEW e \in VlanEntries, NEW m, NEW add, NEW f, f = Reflood(e, m, add)
  PROVE  f = [e EXCEPT !.unreg = f.unreg]
BY DEF Reflood, VlanEntries

LEMMA SetUnregShape ==
  ASSUME NEW a, Good(a), NEW m, NEW add
  PROVE  StepShape(a.table, SetUnregMcast(a, m, add).table)
<1> DEFINE t == a.table
           u == [i \in Slot |-> IF t[i].type # "vlan" THEN t[i] ELSE Reflood(t[i], m, add)]
<1>1. SetUnregMcast(a, m, add).table = u
  BY DEF SetUnregMcast, Good, Engine
<1>2. \A i \in Slot : t[i].type = "vlan" => t[i] \in VlanEntries
  BY Kinds DEF Good, Engine
<1>3. Redirected(t, u)
  BY <1>2, RefloodShape DEF Redirected
<1>4. QED
  BY <1>1, <1>3 DEF StepShape

LEMMA SetAllmultiShape ==
  ASSUME NEW a, Good(a), NEW p, NEW on
  PROVE  StepShape(a.table, SetAllmulti(a, on, p).table)
<1> DEFINE t == a.table
           u == [i \in Slot |-> IF t[i].type = "vlan" /\ p \in t[i].members
                                THEN Reflood(t[i], {HOST}, on) ELSE t[i]]
<1>1. SetAllmulti(a, on, p).table = u
  BY DEF SetAllmulti, Good, Engine
<1>2. \A i \in Slot : t[i].type = "vlan" => t[i] \in VlanEntries
  BY Kinds DEF Good, Engine
<1>3. Redirected(t, u)
  BY <1>2, RefloodShape DEF Redirected
<1>4. QED
  BY <1>1, <1>3 DEF StepShape

LEMMA AgeOutShape ==
  ASSUME NEW a, Good(a)
  PROVE  StepShape(a.table, AgeOut(a).table)
<1> DEFINE t == a.table
           u == [i \in Slot |->
                   IF i \notin FindAgeable(t) THEN t[i]
                   ELSE IF t[i].ucast = "ageable" THEN Free ELSE [t[i] EXCEPT !.ucast = "ageable"]]
<1>1. AgeOut(a).table = u
  BY DEF AgeOut, Good, Engine
<1>2. ASSUME NEW i \in Slot
      PROVE  \/ u[i] = t[i]
             \/ /\ Learnt(t[i])
                /\ u[i] = Free \/ (Learnt(u[i]) /\ SameKey(t[i], u[i]) /\ u[i].secure = t[i].secure)
  <2>1. CASE i \notin FindAgeable(t) \/ t[i].ucast = "ageable"
    BY <2>1 DEF FindAgeable, Learnt
  <2>2. CASE i \in FindAgeable(t) /\ t[i].ucast # "ageable"
    <3>1. t[i] \in UcastEntries /\ Learnt(t[i])
      BY <2>2, Kinds DEF FindAgeable, IsUcast, Learnt, Good, Engine
    <3>2. u[i] = [t[i] EXCEPT !.ucast = "ageable"]
      BY <2>2
    <3> HIDE DEF u
    <3>3. Learnt(u[i]) /\ SameKey(t[i], u[i]) /\ u[i].secure = t[i].secure
      BY <3>1, <3>2 DEF UcastEntries, Learnt, IsUcast, SameKey
    <3>4. QED
      BY <3>1, <3>3
  <2>3. QED
    BY <2>1, <2>2
<1> HIDE DEF u
<1>3. Aged(t, u)
  BY <1>2 DEF Aged
<1>4. QED
  BY <1>1, <1>3 DEF StepShape

LEMMA ClearShape ==
  ASSUME NEW a, Good(a)
  PROVE  StepShape(a.table, Clear(a).table)
BY DEF Clear, Cleared, Good, Engine, StepShape, NoneLeft

LEMMA LearnShape ==
  ASSUME NEW a, Good(a), NEW x \in Stations, NEW p \in Ports, NEW v \in Vids, NEW moves
  PROVE  StepShape(a.table, Learn(a, x, p, v, moves).table)
<1> DEFINE t == a.table
           match == MatchAddr(t, x, v)
           k == First(match)
           used == [t[k] EXCEPT !.ucast = IF @ = "ageable" THEN "touched" ELSE @]
           e == IF moves /\ ~t[k].secure THEN [used EXCEPT !.port = p] ELSE used
           b == Learn(a, x, p, v, moves)
<1>1. x \in Addrs /\ x \notin Groups /\ a \in Engine
  BY AddrsAssumption DEF Addrs, Good
<1>2. CASE match # {}
  <2>1. k \in Slot /\ t[k] \in UcastEntries /\ IsUcast(t[k])
    BY <1>1, <1>2, AddrFound DEF IsUcast
  <2>2. /\ used \in UcastEntries /\ SameKey(used, t[k]) /\ used.secure = t[k].secure
        /\ t[k].ucast = "persistant" => used = t[k]
    <3>1. PICK w : w = IF t[k].ucast = "ageable" THEN "touched" ELSE t[k].ucast
      OBVIOUS
    <3>2. used = [t[k] EXCEPT !.ucast = w]
      BY <3>1
    <3> HIDE DEF used, k
    <3>3. w \in {"persistant", "ageable", "touched"}
      BY <2>1, <3>1 DEF UcastEntries
    <3>4. QED
      BY <2>1, <3>1, <3>2, <3>3 DEF UcastEntries, SameKey
  <2>3. /\ e \in UcastEntries /\ SameKey(e, t[k]) /\ e.secure = t[k].secure
        /\ t[k].ucast = "persistant" => e.ucast = "persistant"
        /\ t[k].secure /\ t[k].ucast = "persistant" => e = t[k]
    <3>1. CASE moves /\ ~t[k].secure
      <4>1. e = [used EXCEPT !.port = p]
        BY <3>1
      <4> HIDE DEF e, used, k
      <4>2. QED
        BY <2>2, <3>1, <4>1 DEF UcastEntries, SameKey
    <3>2. CASE ~(moves /\ ~t[k].secure)
      <4>1. e = used
        BY <3>2
      <4> HIDE DEF e, used, k
      <4>2. QED
        BY <2>2, <4>1
    <3>3. QED
      BY <3>1, <3>2
  <2>4. b = [a EXCEPT !.table[k] = e]
    BY <1>2 DEF Learn
  <2> HIDE DEF b, e, used, k, match
  <2>5. b.table = [t EXCEPT ![k] = e]
    BY <1>1, <2>4 DEF Engine
  <2>6. e \in Entry /\ IsUcast(e)
    BY <2>1, <2>3 DEF Entry, UcastEntries, IsUcast, SameKey
  <2>7. Heard(t, b.table)
    BY <2>1, <2>3, <2>5, <2>6 DEF Heard
  <2>8. QED
    BY <2>7 DEF StepShape, b
<1>3. CASE match = {} /\ MatchFree(t) = {}
  BY <1>3 DEF Learn, StepShape
<1>4. CASE match = {} /\ MatchFree(t) # {}
  <2> DEFINE f == UcastEntry(x, v, p, FALSE, "touched")
             n == First(MatchFree(t))
  <2>1. f \in Entry /\ IsUcast(f) /\ ~f.secure
    BY <1>1 DEF UcastEntry, Entry, UcastEntries, IsUcast
  <2>2. b = [a EXCEPT !.table[n] = f]
    BY <1>4 DEF Learn
  <2>3. n \in MatchFree(t)
    <3>1. MatchFree(t) \subseteq Slot
      BY DEF MatchFree
    <3>2. QED
      BY <1>4, <3>1, FirstIn
  <2> HIDE DEF b, f, n
  <2>4. n \in Slot /\ t[n] = Free
    BY <1>1, <2>3, Kinds DEF MatchFree, Engine
  <2>5. b.table = [t EXCEPT ![n] = f]
    BY <1>1, <2>2 DEF Engine
  <2>6. Heard(t, b.table)
    BY <2>1, <2>4, <2>5 DEF Heard
  <2>7. QED
    BY <2>6 DEF StepShape, b
<1>5. QED
  BY <1>2, <1>3, <1>4

\* A caller that forgets the result.
LEMMA NowShape ==
  ASSUME NEW a, Good(a), Returns(a), StepShape(engine.table, a.table)
  PROVE  StepShape(engine.table, engine'.table)
<1>1. engine'.table = a.table
  BY DEF Returns, Good, Engine
<1>2. QED
  BY <1>1

LEMMA CallShape ==
  ASSUME Good(engine), Call
  PROVE  StepShape(engine.table, engine'.table)
<1>1. (\A m \in Masks : m \in SUBSET Ports) /\ engine \in Engine
  BY MasksAssumption DEF Good
<1>2. CASE DoAddUcast
  BY <1>1, <1>2, AddUcastGood, AddUcastShape, NowShape DEF DoAddUcast
<1>3. CASE DoDelUcast
  BY <1>3, DelUcastGood, DelUcastShape, NowShape DEF DoDelUcast
<1>4. CASE DoAddMcast
  BY <1>1, <1>4, AddMcastGood, AddMcastShape, NowShape DEF DoAddMcast
<1>5. CASE DoDelMcast
  BY <1>1, <1>5, DelMcastGood, DelMcastShape, NowShape DEF DoDelMcast
<1>6. CASE DoFlush
  BY <1>1, <1>6, FlushGood, FlushShape, NowShape DEF DoFlush
<1>7. CASE DoAddVlan
  <2>1. PICK m \in Masks \ {{}}, v \in Vids : \E u \in {{}, m}, un \in {{}, {HOST}} :
          Returns(AddVlan(engine, v, m, u, m, un))
    BY <1>7 DEF DoAddVlan
  <2>2. PICK u \in {{}, m}, un \in {{}, {HOST}} : Returns(AddVlan(engine, v, m, u, m, un))
    BY <2>1
  <2>3. m \in SUBSET Ports /\ m # {} /\ u \in SUBSET m /\ m \in SUBSET m /\ un \in SUBSET Ports
    BY <1>1, PortsAssumption
  <2>4. QED
    BY <1>1, <2>2, <2>3, AddVlanGood, AddVlanShape, NowShape
<1>8. CASE DoVlanAddModify
  <2>1. PICK m \in Masks \ {{}}, v \in Vids : \E u \in {{}, m} :
          Returns(VlanAddModify(engine, v, m, u, m, m))
    BY <1>8 DEF DoVlanAddModify
  <2>2. PICK u \in {{}, m} : Returns(VlanAddModify(engine, v, m, u, m, m))
    BY <2>1
  <2>3. m \in SUBSET Ports /\ m # {} /\ u \in SUBSET m /\ u \in SUBSET Ports /\ m \in SUBSET m
    BY <1>1
  <2>4. QED
    BY <2>2, <2>3, VlanAddModifyGood, VlanAddModifyShape, NowShape
<1>9. CASE DoVlanDelModify
  BY <1>1, <1>9, VlanDelModifyGood, VlanDelModifyShape, NowShape DEF DoVlanDelModify
<1>10. CASE DoDelVlan
  BY <1>1, <1>10, DelVlanGood, DelVlanShape, NowShape DEF DoDelVlan
<1>11. CASE DoSetUnreg
  BY <1>1, <1>11, SetUnregGood, SetUnregShape, NowShape DEF DoSetUnreg
<1>12. CASE DoSetAllmulti
  BY <1>12, SetAllmultiGood, SetAllmultiShape, NowShape DEF DoSetAllmulti
<1>13. QED
  BY <1>2, <1>3, <1>4, <1>5, <1>6, <1>7, <1>8, <1>9, <1>10, <1>11, <1>12 DEF Call

LEMMA NextShape ==
  ASSUME TableIInv, [TableNext]_tableVars
  PROVE  StepShape(engine.table, engine'.table)
<1>1. Good(engine)
  BY DEF TableIInv
<1>2. CASE Call
  BY <1>1, <1>2, CallShape
<1>3. CASE StartAle \/ StopAle
  BY <1>1, <1>3, ClearShape DEF StartAle, StopAle
<1>4. CASE Timer
  BY <1>1, <1>4, AgeOutShape DEF Timer
<1>5. CASE HearFrame
  BY <1>1, <1>5, LearnShape DEF HearFrame
<1>6. CASE UNCHANGED tableVars
  BY <1>6 DEF tableVars, StepShape
<1>7. QED
  BY <1>2, <1>3, <1>4, <1>5, <1>6 DEF TableNext

\* Secure entries are the driver's own: one that the engine has learned, and may age or move, is
\* never secure.
THEOREM TableSecured == TableSpec => []Secured(engine.table)
<1>1. TableInit => Secured(engine.table)
  BY DEF TableInit, Secured, Cleared, Free, IsUcast
<1>2. TableIInv /\ Secured(engine.table) /\ [TableNext]_tableVars => Secured(engine.table)'
  <2> SUFFICES ASSUME TableIInv, Secured(engine.table), [TableNext]_tableVars PROVE Secured(engine'.table)
    OBVIOUS
  <2>1. engine.table \in [Slot -> Entry]
    BY DEF TableIInv, Good, Engine
  <2>2. QED
    BY <2>1, NextShape, SecuredKept
<1>3. QED
  BY <1>1, <1>2, TableInv, PTL DEF TableSpec

\* The table implements AleMap: whatever is searched, a call changes no entry but its own, and
\* costs no entry but a learned one; ports only leave multicast entries and VLANs that are told
\* to lose them; the engine touches nothing but entries it may learn.
THEOREM TableIsMap == TableSpec => ImplementsMap
<1>1. TableInit => Map!Init
  BY DEF TableInit, Map!Init, Cleared, Map!Free, Free
<1>2. TableIInv /\ TableIInv' /\ Secured(engine.table) /\ [TableNext]_tableVars
        => [Map!Next]_({engine.table[i] : i \in Slot} \ {Free})
  <2> SUFFICES ASSUME TableIInv, TableIInv', Secured(engine.table), [TableNext]_tableVars
               PROVE  Map!Next \/ engine'.table = engine.table
    OBVIOUS
  <2>1. QED
    BY NextShape, ShapeIsMapStep DEF TableIInv
<1>3. QED
  BY <1>1, <1>2, TableInv, TableSecured, PTL DEF TableSpec, ImplementsMap, Map!Spec

-----------------------------------------------------------------------------
(* Folds over finite sets.                                                 *)

\* What holds of a set that it holds of every smaller subset of, holds of all subsets of a finite set.
LEMMA SubsetInduction ==
  ASSUME NEW S, IsFiniteSet(S), NEW P,
         \A T \in SUBSET S : (\A U \in SUBSET T : U # T => U \in P) => T \in P
  PROVE  \A T \in SUBSET S : T \in P
<1> DEFINE Bad == {T \in SUBSET S : T \notin P}
<1>1. SUFFICES ASSUME Bad # {} PROVE FALSE
  OBVIOUS
<1>2. Bad \subseteq FiniteSubsetsOf(S)
  BY FS_FiniteSubsetsOfFinite
<1>3. PICK T \in Bad : \A U \in Bad : ~(<<U, T>> \in StrictSubsetOrdering(S))
  <2> HIDE DEF Bad
  <2>1. QED
    BY <1>1, <1>2, FS_StrictSubsetOrderingWellFounded, WFMin
<1>4. \A U \in SUBSET T : U # T => U \in P
  <2>1. SUFFICES ASSUME NEW U \in SUBSET T, U # T, U \notin P PROVE FALSE
    OBVIOUS
  <2>2. U \in Bad
    BY <2>1
  <2>3. <<U, T>> \in StrictSubsetOrdering(S)
    BY <2>1 DEF StrictSubsetOrdering
  <2>4. QED
    BY <1>3, <2>2, <2>3
<1>5. QED
  BY <1>4

\* The element that a fold takes from a set, and the value that it gives the set.
Pick(s) == CHOOSE x \in s : TRUE
FoldStep(g, base, G, s) == IF s = {} THEN base ELSE G[<<Pick(s), g[s \ {Pick(s)}]>>]
IsFold(g, T, E, base, G) ==
  g \in [SUBSET T -> E] /\ \A s \in SUBSET T : g[s] = FoldStep(g, base, G, s)

\* A fold takes an element of the set.
LEMMA PickIn ==
  ASSUME NEW s, s # {}
  PROVE  Pick(s) \in s
BY DEF Pick

\* There is one fold at most.
LEMMA FoldUnique ==
  ASSUME NEW S, IsFiniteSet(S), NEW E, NEW base, NEW G,
         NEW T \in SUBSET S, NEW U \in SUBSET S,
         NEW g, IsFold(g, T, E, base, G), NEW h, IsFold(h, U, E, base, G)
  PROVE  \A s \in SUBSET (T \cap U) : g[s] = h[s]
<1> DEFINE P == {s \in SUBSET (T \cap U) : g[s] = h[s]}
<1>1. IsFiniteSet(T \cap U)
  BY FS_Subset
<1>2. ASSUME NEW s \in SUBSET (T \cap U), \A u \in SUBSET s : u # s => u \in P
      PROVE  s \in P
  <2>1. g[s] = FoldStep(g, base, G, s) /\ h[s] = FoldStep(h, base, G, s)
    BY DEF IsFold
  <2>2. CASE s = {}
    BY <2>1, <2>2 DEF FoldStep
  <2>3. CASE s # {}
    <3>1. g[s \ {Pick(s)}] = h[s \ {Pick(s)}]
      BY <1>2, <2>3, PickIn
    <3>2. QED
      BY <2>1, <2>3, <3>1 DEF FoldStep
  <2>4. QED
    BY <2>2, <2>3
<1> HIDE DEF P
<1>3. \A s \in SUBSET (T \cap U) : s \in P
  BY <1>1, <1>2, SubsetInduction
<1>4. QED
  BY <1>3 DEF P

\* A fold over a finite set has a value for each of its subsets.
LEMMA FoldExists ==
  ASSUME NEW S, IsFiniteSet(S), NEW E, NEW base \in E, NEW G \in [S \X E -> E]
  PROVE  \E g : IsFold(g, S, E, base, G)
<1> DEFINE P == {T \in SUBSET S : \E g : IsFold(g, T, E, base, G)}
<1>1. ASSUME NEW T \in SUBSET S, \A U \in SUBSET T : U # T => U \in P
      PROVE  T \in P
  <2> DEFINE F(U) == CHOOSE g : IsFold(g, U, E, base, G)
             less == T \ {Pick(T)}
             h == [s \in SUBSET T |->
                     IF s # T THEN F(s)[s] ELSE IF T = {} THEN base ELSE G[<<Pick(T), F(less)[less]>>]]
  <2>1. ASSUME NEW U \in SUBSET T, U # T PROVE IsFold(F(U), U, E, base, G)
    BY <1>1, <2>1
  <2>2. ASSUME NEW U \in SUBSET T, U # T PROVE F(U)[U] \in E
    BY <2>1, <2>2 DEF IsFold
  <2> HIDE DEF F
  <2>3. ASSUME NEW s \in SUBSET T, s # T PROVE h[s] = FoldStep(h, base, G, s) /\ h[s] \in E
    <3>1. h[s] = F(s)[s] /\ F(s)[s] = FoldStep(F(s), base, G, s)
      BY <2>1, <2>3 DEF IsFold
    <3>2. CASE s = {}
      BY <3>1, <3>2 DEF FoldStep
    <3>3. CASE s # {}
      <4> DEFINE u == s \ {Pick(s)}
      <4>1. u \in SUBSET s /\ u \in SUBSET T /\ u # T
        BY <2>3
      <4>2. F(u)[u] = F(s)[u]
        BY <2>1, <2>3, <4>1, FoldUnique
      <4>3. h[u] = F(u)[u]
        BY <4>1
      <4> HIDE DEF h, u
      <4>4. FoldStep(F(s), base, G, s) = FoldStep(h, base, G, s)
        BY <3>3, <4>2, <4>3 DEF FoldStep, u
      <4>5. QED
        BY <2>2, <2>3, <3>1, <4>4
    <3>4. QED
      BY <3>2, <3>3
  <2>4. h[T] = FoldStep(h, base, G, T) /\ h[T] \in E
    <3>1. CASE T = {}
      BY <3>1 DEF FoldStep
    <3>2. CASE T # {}
      <4>1. Pick(T) \in T /\ less \in SUBSET T /\ less # T
        BY <3>2, PickIn
      <4>2. h[T] = G[<<Pick(T), F(less)[less]>>] /\ h[less] = F(less)[less]
        BY <3>2, <4>1
      <4>3. F(less)[less] \in E
        BY <2>2, <4>1
      <4> HIDE DEF h
      <4>4. QED
        BY <3>2, <4>1, <4>2, <4>3 DEF FoldStep
    <3>3. QED
      BY <3>1, <3>2
  <2>5. h \in [SUBSET T -> E]
    <3>1. \A s \in SUBSET T : h[s] \in E
      BY <2>3, <2>4
    <3>2. h = [s \in SUBSET T |-> h[s]]
      OBVIOUS
    <3> HIDE DEF h
    <3>3. QED
      BY <3>1, <3>2
  <2> HIDE DEF h
  <2>6. \A s \in SUBSET T : h[s] = FoldStep(h, base, G, s)
    BY <2>3, <2>4
  <2>7. IsFold(h, T, E, base, G)
    BY <2>5, <2>6 DEF IsFold
  <2>8. QED
    BY <2>7
<1> HIDE DEF P
<1>2. \A T \in SUBSET S : T \in P
  BY <1>1, SubsetInduction
<1>3. QED
  BY <1>2 DEF P

\* What the empty set has, and a set has if it has it without the element that a fold takes first.
LEMMA FoldInduction ==
  ASSUME NEW S, IsFiniteSet(S), NEW P, {} \in P,
         \A s \in SUBSET S : s # {} /\ s \ {Pick(s)} \in P => s \in P
  PROVE  \A s \in SUBSET S : s \in P
<1>1. ASSUME NEW T \in SUBSET S, \A U \in SUBSET T : U # T => U \in P PROVE T \in P
  <2>1. CASE T # {}
    <3>1. T \ {Pick(T)} \in SUBSET T /\ T \ {Pick(T)} # T
      BY <2>1, PickIn
    <3>2. QED
      BY <1>1, <2>1, <3>1
  <2>2. QED
    BY <2>1
<1>2. QED
  BY <1>1, SubsetInduction

-----------------------------------------------------------------------------
(* What a call does to the contents of the table, key by key.              *)

VlanKey(v) == [type |-> "vlan", vid |-> v]
AddrKey(x, v) == [type |-> "addr", addr |-> x, vid |-> v]

\* The ports of a VLAN and of a group, as the table has them.
MembersAt(t, v) == UNION {e.members : e \in {f \in Contents(t) : SameKey(VlanKey(v), f)}}
MaskAt(t, x, v) == UNION {e.mask : e \in {f \in Contents(t) : SameKey(AddrKey(x, v), f)}}

\* From one table to the other only an entry changes, or a learned one is lost.
SameBut(t, u, key) ==
  /\ \A f \in Contents(t) : f \in Contents(u) \/ SameKey(key, f) \/ Learnt(f)
  /\ \A f \in Contents(u) : f \in Contents(t) \/ SameKey(key, f)

\* A call that puts an entry into the table, or fails.
Comes(a, b, e) ==
  /\ SameBut(a.table, b.table, e)
  /\ b.ret = OK => e \in Contents(b.table)
  /\ b.ret # OK => b.ret = ENOMEM /\ b.table = a.table

\* One entry for a key.
LEMMA UniqueIn ==
  ASSUME NEW a, Good(a), NEW e \in Contents(a.table), NEW f \in Contents(a.table), SameKey(e, f)
  PROVE  e = f
BY DEF Good, KeysUniqueIn, Contents

\* Nothing has changed.
LEMMA SameButSelf ==
  ASSUME NEW t, NEW key
  PROVE  SameBut(t, t, key)
BY DEF SameBut

\* What an entry of a good table is.
LEMMA KindIn ==
  ASSUME NEW a, Good(a), NEW e \in Contents(a.table)
  PROVE  /\ e \in Entry /\ e # Free /\ e.vid \in Vids
         /\ e.type = "vlan" => e \in VlanEntries
         /\ e.type = "addr" /\ e.addr \in Groups => e \in McastEntries
         /\ e.type = "addr" /\ e.addr \notin Groups => e \in UcastEntries
         /\ e.type \in {"vlan", "addr"}
<1>1. e \in Entry /\ e # Free
  BY DEF Contents, Good, Engine
<1>2. QED
  BY <1>1, Kinds DEF VlanEntries, McastEntries, UcastEntries

\* The ports of the one entry.
LEMMA MembersIs ==
  ASSUME NEW a, Good(a), NEW v
  PROVE  /\ \A e \in Contents(a.table) : SameKey(VlanKey(v), e) => MembersAt(a.table, v) = e.members
         /\ (\A e \in Contents(a.table) : ~SameKey(VlanKey(v), e)) => MembersAt(a.table, v) = {}
<1>1. ASSUME NEW e \in Contents(a.table), SameKey(VlanKey(v), e)
      PROVE  MembersAt(a.table, v) = e.members
  <2>1. \A f \in Contents(a.table) : SameKey(VlanKey(v), f) => f = e
    BY <1>1, UniqueIn DEF SameKey, VlanKey
  <2>2. {f \in Contents(a.table) : SameKey(VlanKey(v), f)} = {e}
    BY <1>1, <2>1
  <2>3. QED
    BY <2>2 DEF MembersAt
<1>2. QED
  BY <1>1 DEF MembersAt

\* The ports of the one entry of a group.
LEMMA MaskIs ==
  ASSUME NEW a, Good(a), NEW x, NEW v
  PROVE  /\ \A e \in Contents(a.table) : SameKey(AddrKey(x, v), e) => MaskAt(a.table, x, v) = e.mask
         /\ (\A e \in Contents(a.table) : ~SameKey(AddrKey(x, v), e)) => MaskAt(a.table, x, v) = {}
<1>1. ASSUME NEW e \in Contents(a.table), SameKey(AddrKey(x, v), e)
      PROVE  MaskAt(a.table, x, v) = e.mask
  <2>1. \A f \in Contents(a.table) : SameKey(AddrKey(x, v), f) => f = e
    BY <1>1, UniqueIn DEF SameKey, AddrKey
  <2>2. {f \in Contents(a.table) : SameKey(AddrKey(x, v), f)} = {e}
    BY <1>1, <2>1
  <2>3. QED
    BY <2>2 DEF MaskAt
<1>2. QED
  BY <1>1 DEF MaskAt

\* An entry that is put in the place found for it.
LEMMA PutComes ==
  ASSUME NEW a \in Engine, NEW e, SameKey(e, e),
         NEW match, match \subseteq Slot, \A i \in match : SameKey(e, a.table[i]),
         NEW c \in Engine, c.table = a.table
  PROVE  Comes(a, Put(c, Place(a.table, match), e), e)
<1> DEFINE t == a.table
           place == Place(t, match)
           k == First(place)
           b == Put(c, place, e)
<1>1. CASE place = {}
  <2>1. b = [c EXCEPT !.ret = ENOMEM]
    BY <1>1 DEF Put
  <2>2. b.table = t /\ b.ret = ENOMEM /\ ENOMEM # OK
    BY <2>1 DEF Engine, OK, ENOMEM
  <2>3. QED
    BY <2>2, SameButSelf DEF Comes
<1>2. CASE place # {}
  <2>1. place \subseteq Slot /\ \A i \in place : t[i] = Free \/ Learnt(t[i]) \/ SameKey(e, t[i])
    <3>1. \A i \in Slot : t[i].type = "free" => t[i] = Free
      BY Kinds DEF Engine
    <3>2. QED
      BY <3>1 DEF Place, MatchFree, FindAgeable, Learnt
  <2>2. k \in place
    <3> HIDE DEF place
    <3>1. QED
      BY <1>2, <2>1, FirstIn
  <2>3. b = [c EXCEPT !.table[k] = e, !.ret = OK]
    BY <1>2 DEF Put
  <2> HIDE DEF b, k, place
  <2>4. b.table = [t EXCEPT ![k] = e] /\ b.ret = OK
    BY <2>3 DEF Engine
  <2>5. t \in [Slot -> Entry] /\ k \in Slot
    BY <2>1, <2>2 DEF Engine
  <2>6. \A f \in Contents(t) : f \in Contents(b.table) \/ f = t[k]
    BY <2>4, <2>5 DEF Contents
  <2>7. \A f \in Contents(b.table) : f \in Contents(t) \/ f = e
    BY <2>4, <2>5 DEF Contents
  <2>8. e \in Contents(b.table)
    BY <2>4, <2>5 DEF Contents, SameKey, Free
  <2>9. Free \notin Contents(t)
    BY DEF Contents
  <2>10. QED
    BY <2>1, <2>2, <2>4, <2>6, <2>7, <2>8, <2>9 DEF Comes, SameBut, b, place
<1>3. QED
  BY <1>1, <1>2

\* Each call that adds puts its entry into the table, or fails for lack of memory.
LEMMA AddUcastComes ==
  ASSUME NEW a, Good(a), NEW x, NEW p, NEW s, NEW v
  PROVE  Comes(a, AddUcast(a, x, p, s, v), UcastEntry(x, v, p, s, "persistant"))
<1> DEFINE e == UcastEntry(x, v, p, s, "persistant")
           match == MatchAddr(a.table, x, v)
<1>1. SameKey(e, e) /\ match \subseteq Slot /\ \A i \in match : SameKey(e, a.table[i])
  BY DEF UcastEntry, SameKey, MatchAddr
<1>2. a \in Engine
  BY DEF Good
<1> HIDE DEF e, match
<1>3. Comes(a, Put(a, Place(a.table, match), e), e)
  BY <1>1, <1>2, PutComes
<1>4. QED
  BY <1>3 DEF AddUcast, e, match

\* The entry that a search for an address or a VLAN stops at is the one with the key.
LEMMA AddrIs ==
  ASSUME NEW a, Good(a), NEW x, NEW v
  PROVE  /\ MatchAddr(a.table, x, v) = {} => \A e \in Contents(a.table) : ~SameKey(AddrKey(x, v), e)
         /\ MatchAddr(a.table, x, v) # {} =>
              LET k == First(MatchAddr(a.table, x, v))
              IN k \in Slot /\ a.table[k] \in Contents(a.table) /\ SameKey(AddrKey(x, v), a.table[k])
<1> DEFINE match == MatchAddr(a.table, x, v)
<1>1. \A i \in Slot : i \in match <=> SameKey(AddrKey(x, v), a.table[i])
  BY DEF MatchAddr, SameKey, AddrKey
<1>2. match \subseteq Slot
  BY DEF MatchAddr
<1> HIDE DEF match
<1>3. match = {} => \A e \in Contents(a.table) : ~SameKey(AddrKey(x, v), e)
  BY <1>1 DEF Contents
<1>4. ASSUME match # {}
      PROVE  LET k == First(match)
             IN k \in Slot /\ a.table[k] \in Contents(a.table) /\ SameKey(AddrKey(x, v), a.table[k])
  <2>1. First(match) \in match
    BY <1>2, <1>4, FirstIn
  <2>2. SameKey(AddrKey(x, v), a.table[First(match)]) /\ First(match) \in Slot
    BY <1>1, <1>2, <2>1
  <2>3. a.table[First(match)] # Free
    BY <2>2 DEF SameKey, AddrKey, Free
  <2>4. QED
    BY <2>2, <2>3 DEF Contents
<1>5. QED
  BY <1>3, <1>4 DEF match

\* The same for a VLAN.
LEMMA VlanIs ==
  ASSUME NEW a, Good(a), NEW v
  PROVE  /\ MatchVlan(a.table, v) = {} => \A e \in Contents(a.table) : ~SameKey(VlanKey(v), e)
         /\ MatchVlan(a.table, v) # {} =>
              LET k == First(MatchVlan(a.table, v))
              IN k \in Slot /\ a.table[k] \in Contents(a.table) /\ SameKey(VlanKey(v), a.table[k])
<1> DEFINE match == MatchVlan(a.table, v)
<1>1. \A i \in Slot : i \in match <=> SameKey(VlanKey(v), a.table[i])
  BY DEF MatchVlan, SameKey, VlanKey
<1>2. match \subseteq Slot
  BY DEF MatchVlan
<1> HIDE DEF match
<1>3. match = {} => \A e \in Contents(a.table) : ~SameKey(VlanKey(v), e)
  BY <1>1 DEF Contents
<1>4. ASSUME match # {}
      PROVE  LET k == First(match)
             IN k \in Slot /\ a.table[k] \in Contents(a.table) /\ SameKey(VlanKey(v), a.table[k])
  <2>1. First(match) \in match
    BY <1>2, <1>4, FirstIn
  <2>2. SameKey(VlanKey(v), a.table[First(match)]) /\ First(match) \in Slot
    BY <1>1, <1>2, <2>1
  <2>3. a.table[First(match)] # Free
    BY <2>2 DEF SameKey, VlanKey, Free
  <2>4. QED
    BY <2>2, <2>3 DEF Contents
<1>5. QED
  BY <1>3, <1>4 DEF match

\* A group that has an entry keeps its ports.
LEMMA AddMcastComes ==
  ASSUME NEW a, Good(a), NEW x, NEW m, NEW s, NEW v
  PROVE  Comes(a, AddMcast(a, x, m, s, v), McastEntry(x, v, MaskAt(a.table, x, v) \cup m, s))
<1> DEFINE match == MatchAddr(a.table, x, v)
           old == IF match = {} THEN {} ELSE a.table[First(match)].mask
           e == McastEntry(x, v, old \cup m, s)
<1>1. SameKey(e, e) /\ match \subseteq Slot /\ \A i \in match : SameKey(e, a.table[i])
  BY DEF McastEntry, SameKey, MatchAddr
<1>2. old = MaskAt(a.table, x, v)
  <2>1. CASE match = {}
    BY <2>1, AddrIs, MaskIs
  <2>2. CASE match # {}
    BY <2>2, AddrIs, MaskIs
  <2>3. QED
    BY <2>1, <2>2
<1>3. a \in Engine
  BY DEF Good
<1>4. AddMcast(a, x, m, s, v) = Put(a, Place(a.table, match), e)
  BY DEF AddMcast
<1> HIDE DEF old, e, match
<1>5. Comes(a, Put(a, Place(a.table, match), e), e)
  BY <1>1, <1>3, PutComes
<1>6. QED
  BY <1>2, <1>4, <1>5 DEF e

\* A VLAN that has an entry loses it.
LEMMA AddVlanComes ==
  ASSUME NEW a, Good(a), NEW v \in Vids, NEW m, NEW u, NEW reg, NEW unreg
  PROVE  Comes(a, AddVlan(a, v, m, u, reg, unreg), VlanEntry(v, m, u, reg, unreg))
<1> DEFINE e == VlanEntry(v, m, u, reg, unreg)
           match == MatchVlan(a.table, v)
           c == [a EXCEPT !.untag = SetVlanUntag(@, v, u)]
<1>1. SameKey(e, e) /\ match \subseteq Slot /\ \A i \in match : SameKey(e, a.table[i])
  BY DEF VlanEntry, SameKey, MatchVlan
<1>2. a \in Engine
  BY DEF Good
<1>3. c \in Engine /\ c.table = a.table
  BY <1>2, UntagSet DEF Engine
<1>4. AddVlan(a, v, m, u, reg, unreg) = Put(c, Place(a.table, match), e)
  BY DEF AddVlan
<1> HIDE DEF e, match, c
<1>5. Comes(a, Put(c, Place(a.table, match), e), e)
  BY <1>1, <1>2, <1>3, PutComes
<1>6. QED
  BY <1>4, <1>5 DEF e

\* A VLAN that has an entry keeps its members.
LEMMA VlanAddModifyComes ==
  ASSUME NEW a, Good(a), NEW v \in Vids, NEW m, NEW u, NEW reg, NEW unreg
  PROVE  \E e : /\ e.type = "vlan" /\ e.vid = v /\ e.members = MembersAt(a.table, v) \cup m
                /\ Comes(a, VlanAddModify(a, v, m, u, reg, unreg), e)
<1> DEFINE match == MatchVlan(a.table, v)
           old == IF match = {} THEN VlanEntry(v, {}, {}, {}, {}) ELSE a.table[First(match)]
           e == VlanEntry(v, old.members \cup m, (old.untag \ m) \cup u,
                          (old.reg \ m) \cup reg, (old.unreg \ m) \cup unreg)
<1>1. old.members = MembersAt(a.table, v)
  <2>1. CASE match = {}
    BY <2>1, VlanIs, MembersIs DEF VlanEntry
  <2>2. CASE match # {}
    BY <2>2, VlanIs, MembersIs
  <2>3. QED
    BY <2>1, <2>2
<1>2. VlanAddModify(a, v, m, u, reg, unreg)
        = AddVlan(a, v, old.members \cup m, (old.untag \ m) \cup u,
                  (old.reg \ m) \cup reg, (old.unreg \ m) \cup unreg)
  BY DEF VlanAddModify
<1> HIDE DEF old, match
<1>3. Comes(a, VlanAddModify(a, v, m, u, reg, unreg), e)
  BY <1>2, AddVlanComes
<1>4. e.type = "vlan" /\ e.vid = v /\ e.members = MembersAt(a.table, v) \cup m
  BY <1>1 DEF VlanEntry
<1>5. QED
  BY <1>3, <1>4

\* An entry that changes in its place, or goes.
LEMMA ChangeDoes ==
  ASSUME NEW a, Good(a), NEW key, NEW k \in Slot, SameKey(key, a.table[k]),
         NEW f, f = Free \/ SameKey(key, f), NEW u, u = [a.table EXCEPT ![k] = f]
  PROVE  /\ SameBut(a.table, u, key)
         /\ \A g \in Contents(u) : SameKey(key, g) => g = f
         /\ f # Free => f \in Contents(u)
<1> DEFINE t == a.table
<1>1. t \in [Slot -> Entry]
  BY DEF Good, Engine
<1>2. \A g \in Contents(t) : g \in Contents(u) \/ g = t[k]
  BY <1>1 DEF Contents
<1>3. \A g \in Contents(u) : g = f \/ \E j \in Slot : j # k /\ g = t[j] /\ g # Free
  BY <1>1 DEF Contents
<1>4. ASSUME NEW g \in Contents(u), SameKey(key, g) PROVE g = f
  <2>1. SUFFICES ASSUME NEW j \in Slot, j # k, g = t[j] PROVE FALSE
    BY <1>3
  <2>2. SameKey(t[k], t[j])
    BY <1>4, <2>1 DEF SameKey
  <2>3. QED
    BY <2>1, <2>2 DEF Good, KeysUniqueIn
<1>5. f # Free => f \in Contents(u)
  BY <1>1 DEF Contents
<1>6. \A g \in Contents(u) : g \in Contents(t) \/ SameKey(key, g)
  <2>1. Free \notin Contents(u)
    BY DEF Contents
  <2>2. QED
    BY <1>3, <2>1 DEF Contents
<1>7. QED
  BY <1>2, <1>4, <1>5, <1>6 DEF SameBut

\* Each call that removes changes the entry of its key alone.
LEMMA DelUcastDoes ==
  ASSUME NEW a, Good(a), NEW x, NEW v
  PROVE  /\ SameBut(a.table, DelUcast(a, x, v).table, AddrKey(x, v))
         /\ \A g \in Contents(DelUcast(a, x, v).table) : ~SameKey(AddrKey(x, v), g)
<1> DEFINE match == MatchAddr(a.table, x, v)
           k == First(match)
           b == DelUcast(a, x, v)
<1>1. a \in Engine
  BY DEF Good
<1>2. CASE match = {}
  <2>1. b.table = a.table
    BY <1>1, <1>2 DEF DelUcast, Change, Engine
  <2>2. QED
    BY <1>2, <2>1, AddrIs, SameButSelf
<1>3. CASE match # {}
  <2>1. b = [a EXCEPT !.table[k] = Free, !.ret = OK]
    BY <1>3 DEF DelUcast, Change
  <2>2. k \in Slot /\ SameKey(AddrKey(x, v), a.table[k])
    BY <1>3, AddrIs
  <2> HIDE DEF b, k
  <2>3. b.table = [a.table EXCEPT ![k] = Free]
    BY <1>1, <2>1 DEF Engine
  <2>4. SameBut(a.table, b.table, AddrKey(x, v)) /\ \A g \in Contents(b.table) : SameKey(AddrKey(x, v), g) => g = Free
    BY <2>2, <2>3, ChangeDoes
  <2>5. Free \notin Contents(b.table)
    BY DEF Contents
  <2>6. QED
    BY <2>4, <2>5 DEF b
<1>4. QED
  BY <1>2, <1>3

\* A group loses the ports, and its entry with the last of them.
LEMMA DelMcastDoes ==
  ASSUME NEW a, Good(a), NEW x \in Groups, NEW m \in SUBSET Ports, m # {}, NEW v \in Vids
  PROVE  /\ SameBut(a.table, DelMcast(a, x, m, v).table, AddrKey(x, v))
         /\ MaskAt(DelMcast(a, x, m, v).table, x, v) = MaskAt(a.table, x, v) \ m
<1> DEFINE match == MatchAddr(a.table, x, v)
           k == First(match)
           e == a.table[k]
           f == IF m = {} \/ e.mask \subseteq m THEN Free ELSE [e EXCEPT !.mask = @ \ m]
           b == DelMcast(a, x, m, v)
           key == AddrKey(x, v)
<1>1. a \in Engine /\ Good(b)
  BY DelMcastGood DEF Good
<1>2. CASE match = {}
  <2>1. b.table = a.table
    BY <1>1, <1>2 DEF DelMcast, Change, Engine
  <2>2. QED
    BY <1>2, <2>1, AddrIs, MaskIs, SameButSelf
<1>3. CASE match # {}
  <2>1. b = [a EXCEPT !.table[k] = f, !.ret = OK]
    BY <1>3 DEF DelMcast, Change
  <2>2. k \in Slot /\ SameKey(key, e) /\ e \in Contents(a.table)
    BY <1>3, AddrIs
  <2>3. e \in McastEntries
    BY <2>2, KindIn DEF SameKey, AddrKey
  <2>4. f = Free \/ (SameKey(key, f) /\ f.mask = e.mask \ m /\ f # Free)
    <3>1. CASE e.mask \subseteq m
      BY <3>1
    <3>2. CASE ~(e.mask \subseteq m)
      <4>1. f = [e EXCEPT !.mask = @ \ m]
        BY <3>2
      <4> HIDE DEF f, e, key
      <4>2. QED
        BY <2>2, <2>3, <4>1 DEF McastEntries, SameKey, AddrKey, key, Free
    <3>3. QED
      BY <3>1, <3>2
  <2>5. f = Free <=> e.mask \subseteq m
    <3>1. e.mask \subseteq m => f = Free
      OBVIOUS
    <3>2. ~(e.mask \subseteq m) => f = [e EXCEPT !.mask = @ \ m]
      OBVIOUS
    <3> HIDE DEF f, e
    <3>3. QED
      BY <2>3, <3>1, <3>2 DEF McastEntries, Free
  <2> HIDE DEF b, k, f
  <2>6. b.table = [a.table EXCEPT ![k] = f]
    BY <1>1, <2>1 DEF Engine
  <2>7. /\ SameBut(a.table, b.table, key)
        /\ \A g \in Contents(b.table) : SameKey(key, g) => g = f
        /\ f # Free => f \in Contents(b.table)
    BY <2>2, <2>4, <2>6, ChangeDoes
  <2>8. MaskAt(a.table, x, v) = e.mask
    BY <2>2, MaskIs
  <2>9. CASE f = Free
    <3>1. \A g \in Contents(b.table) : ~SameKey(key, g)
      BY <2>7, <2>9 DEF Contents
    <3>2. MaskAt(b.table, x, v) = {}
      BY <1>1, <3>1, MaskIs
    <3>3. QED
      BY <2>5, <2>7, <2>8, <2>9, <3>2 DEF b
  <2>10. CASE f # Free
    <3>1. MaskAt(b.table, x, v) = e.mask \ m
      BY <1>1, <2>4, <2>7, <2>10, MaskIs
    <3>2. QED
      BY <2>7, <2>8, <3>1 DEF b
  <2>11. QED
    BY <2>9, <2>10
<1>4. QED
  BY <1>2, <1>3

\* A VLAN loses the ports, and its entry with the last of them.
LEMMA VlanDelModifyDoes ==
  ASSUME NEW a, Good(a), NEW v \in Vids, NEW m \in SUBSET Ports
  PROVE  /\ SameBut(a.table, VlanDelModify(a, v, m).table, VlanKey(v))
         /\ MembersAt(VlanDelModify(a, v, m).table, v) = MembersAt(a.table, v) \ m
<1> DEFINE match == MatchVlan(a.table, v)
           k == First(match)
           e == a.table[k]
           f == Without(e, m)
           b == VlanDelModify(a, v, m)
           key == VlanKey(v)
<1>1. a \in Engine /\ Good(b)
  BY VlanDelModifyGood DEF Good
<1>2. CASE match = {}
  <2>1. b.table = a.table
    BY <1>1, <1>2 DEF VlanDelModify, ModifyVlan, Engine
  <2>2. QED
    BY <1>2, <2>1, VlanIs, MembersIs, SameButSelf
<1>3. CASE match # {}
  <2> DEFINE c == [a EXCEPT !.table[k] = f, !.ret = OK]
  <2>1. b = [c EXCEPT !.untag = SetVlanUntag(@, v, UntagOf(f))]
    BY <1>3 DEF VlanDelModify, ModifyVlan, Change
  <2>2. k \in Slot /\ SameKey(key, e) /\ e \in Contents(a.table) /\ e.vid = v
    BY <1>3, VlanIs DEF SameKey, VlanKey
  <2>3. IF e.members \subseteq m THEN f = Free
        ELSE f # Free /\ SameKey(key, f) /\ f.members = e.members \ m
    BY <2>2 DEF Without, VlanEntry, Free, SameKey, VlanKey
  <2>4. b.table = [a.table EXCEPT ![k] = f]
    <3>1. c.table = [a.table EXCEPT ![k] = f]
      BY <1>1 DEF Engine
    <3>2. c = [c EXCEPT !.ret = c.ret]
      BY <1>1 DEF Engine
    <3> HIDE DEF b, f, k
    <3>3. b.table = c.table
      BY <1>1, <2>1 DEF Engine
    <3>4. QED
      BY <3>1, <3>3
  <2> HIDE DEF b, k, f, c
  <2>5. /\ SameBut(a.table, b.table, key)
        /\ \A g \in Contents(b.table) : SameKey(key, g) => g = f
        /\ f # Free => f \in Contents(b.table)
    <3>1. f = Free \/ SameKey(key, f)
      BY <2>3
    <3>2. QED
      BY <2>2, <2>4, <3>1, ChangeDoes
  <2>6. MembersAt(a.table, v) = e.members
    BY <2>2, MembersIs
  <2>7. CASE f = Free
    <3>1. \A g \in Contents(b.table) : ~SameKey(key, g)
      BY <2>5, <2>7 DEF Contents
    <3>2. MembersAt(b.table, v) = {}
      BY <1>1, <3>1, MembersIs
    <3>3. e.members \subseteq m
      BY <2>3, <2>7
    <3>4. QED
      BY <2>5, <2>6, <3>2, <3>3 DEF b
  <2>8. CASE f # Free
    <3>1. SameKey(key, f) /\ f.members = e.members \ m
      BY <2>3, <2>8
    <3>2. MembersAt(b.table, v) = e.members \ m
      BY <1>1, <2>5, <2>8, <3>1, MembersIs
    <3>3. QED
      BY <2>5, <2>6, <3>2 DEF b
  <2>9. QED
    BY <2>7, <2>8
<1>4. QED
  BY <1>2, <1>3

\* Nothing is left of the contents.
LEMMA ClearDoes ==
  ASSUME NEW a, Good(a)
  PROVE  Contents(Clear(a).table) = {}
<1>1. Clear(a).table = Cleared
  BY DEF Clear, Good, Engine
<1>2. QED
  BY <1>1 DEF Contents, Cleared

\* A station is heard at a port that may not move entries.
LEMMA LearnDoes ==
  ASSUME NEW a, Good(a), NEW x \in Stations, NEW p \in Ports, NEW v \in Vids
  PROVE  LET b == Learn(a, x, p, v, FALSE)
         IN /\ SameBut(a.table, b.table, AddrKey(x, v))
            /\ \A f \in Contents(a.table) : ~Learnt(f) => f \in Contents(b.table)
            /\ b.ret = a.ret
<1> DEFINE match == MatchAddr(a.table, x, v)
           t == a.table
           k == First(match)
           e == [t[k] EXCEPT !.ucast = IF @ = "ageable" THEN "touched" ELSE @]
           b == Learn(a, x, p, v, FALSE)
           key == AddrKey(x, v)
<1>1. a \in Engine /\ t \in [Slot -> Entry] /\ x \notin Groups
  BY AddrsAssumption DEF Good, Engine
<1>2. CASE match # {}
  <2>1. k \in Slot /\ SameKey(key, t[k]) /\ t[k] \in Contents(t)
    BY <1>2, AddrIs
  <2>2. t[k] \in UcastEntries
    BY <1>1, <2>1, KindIn DEF SameKey, AddrKey
  <2>3. b = [a EXCEPT !.table[k] = e]
    BY <1>2 DEF Learn
  <2>4. SameKey(key, e) /\ (~Learnt(t[k]) => e = t[k])
    <3>1. PICK w : w = IF t[k].ucast = "ageable" THEN "touched" ELSE t[k].ucast
      OBVIOUS
    <3>2. e = [t[k] EXCEPT !.ucast = w]
      BY <3>1
    <3> HIDE DEF e, k
    <3>3. SameKey(key, e)
      BY <2>1, <2>2, <3>2 DEF UcastEntries, SameKey, AddrKey
    <3>4. ~Learnt(t[k]) => t[k].ucast = "persistant"
      BY <1>1, <2>1, <2>2 DEF Learnt, IsUcast, UcastEntries, SameKey, AddrKey
    <3>5. ~Learnt(t[k]) => e = t[k]
      BY <2>2, <3>1, <3>2, <3>4 DEF UcastEntries
    <3>6. QED
      BY <3>3, <3>5
  <2> HIDE DEF b, e, k
  <2>5. b.table = [t EXCEPT ![k] = e] /\ b.ret = a.ret
    BY <1>1, <2>3 DEF Engine
  <2>6. SameBut(t, b.table, key) /\ (e # Free => e \in Contents(b.table))
    BY <2>1, <2>4, <2>5, ChangeDoes
  <2>7. \A f \in Contents(t) : ~Learnt(f) => f \in Contents(b.table)
    <3>1. SUFFICES ASSUME NEW f \in Contents(t), ~Learnt(f) PROVE f \in Contents(b.table)
      OBVIOUS
    <3>2. CASE SameKey(key, f)
      <4>1. f = t[k]
        BY <2>1, <3>2, UniqueIn DEF SameKey, AddrKey
      <4>2. f = e /\ f # Free
        BY <2>4, <3>1, <4>1 DEF Contents
      <4>3. QED
        BY <2>6, <4>2
    <3>3. CASE ~SameKey(key, f)
      BY <2>6, <3>1, <3>3 DEF SameBut
    <3>4. QED
      BY <3>2, <3>3
  <2>8. QED
    BY <2>5, <2>6, <2>7 DEF b
<1>3. CASE match = {} /\ MatchFree(t) = {}
  <2>1. b = a
    BY <1>3 DEF Learn
  <2>2. QED
    BY <2>1, SameButSelf
<1>4. CASE match = {} /\ MatchFree(t) # {}
  <2> DEFINE f == UcastEntry(x, v, p, FALSE, "touched")
             n == First(MatchFree(t))
  <2>1. b = [a EXCEPT !.table[n] = f]
    BY <1>4 DEF Learn
  <2>2. n \in MatchFree(t)
    <3>1. MatchFree(t) \subseteq Slot
      BY DEF MatchFree
    <3>2. QED
      BY <1>4, <3>1, FirstIn
  <2>3. SameKey(key, f)
    BY DEF UcastEntry, SameKey, AddrKey
  <2> HIDE DEF b, f, n
  <2>4. n \in Slot /\ t[n] = Free
    BY <1>1, <2>2, Kinds DEF MatchFree
  <2>5. b.table = [t EXCEPT ![n] = f] /\ b.ret = a.ret
    BY <1>1, <2>1 DEF Engine
  <2>6. \A g \in Contents(t) : g \in Contents(b.table)
    BY <1>1, <2>4, <2>5 DEF Contents
  <2>7. \A g \in Contents(b.table) : g \in Contents(t) \/ g = f
    BY <1>1, <2>4, <2>5 DEF Contents
  <2>8. QED
    BY <2>3, <2>5, <2>6, <2>7 DEF SameBut, b
<1>5. QED
  BY <1>2, <1>3, <1>4

-----------------------------------------------------------------------------
(* Results, and calls in a series (CpswModes).                             *)

Rets == {OK, ENOENT, ENOMEM}

\* The results of the calls differ.
LEMMA RetDiffer == OK # ENOMEM /\ OK # ENOENT /\ ENOENT # ENOMEM
BY DEF OK, ENOMEM, ENOENT

\* A good engine has a result.
LEMMA GoodRet ==
  ASSUME NEW a, Good(a)
  PROVE  a.ret \in Rets
BY DEF Good, Engine, Rets

\* A series of calls: the last table and the first error.
LEMMA ThenDoes ==
  ASSUME NEW a, a.ret \in Rets, NEW b, Good(b)
  PROVE  /\ Good(Then(a, b)) /\ Then(a, b).table = b.table
         /\ Then(a, b).ret = IF a.ret = OK THEN b.ret ELSE a.ret
<1> DEFINE r == IF a.ret = OK THEN b.ret ELSE a.ret
<1>1. Then(a, b) = [b EXCEPT !.ret = r]
  BY DEF Then
<1>2. r \in Rets /\ b \in Engine
  BY GoodRet DEF Good
<1> HIDE DEF r
<1>3. Good([b EXCEPT !.ret = r])
  BY <1>2, RetGood DEF Rets
<1>4. [b EXCEPT !.ret = r].table = b.table /\ [b EXCEPT !.ret = r].ret = r
  BY <1>2 DEF Engine
<1>5. QED
  BY <1>1, <1>3, <1>4 DEF r

\* A step of a fold.
LEMMA ThenGood ==
  ASSUME NEW a, Good(a), NEW b, Good(b)
  PROVE  Good(Then(a, b))
BY GoodRet, ThenDoes

\* The host port is added to, or removed from, the unregistered flooding of the VLANs of a port.
Flooding(e, on, i) == IF e.type = "vlan" /\ i \in e.members THEN Reflood(e, {HOST}, on) ELSE e

\* cpsw_ale_set_allmulti: every entry of a VLAN with the port floods as it is told.
LEMMA AllmultiDoes ==
  ASSUME NEW a, Good(a), NEW i, NEW on
  PROVE  Contents(SetAllmulti(a, on, i).table) = {Flooding(e, on, i) : e \in Contents(a.table)}
<1> DEFINE t == [k \in Slot |-> Flooding(a.table[k], on, i)]
           b == SetAllmulti(a, on, i)
<1>1. b.table = t
  BY DEF SetAllmulti, Flooding, Good, Engine
<1>2. \A e \in Entry : Flooding(e, on, i) = Free <=> e = Free
  <2>1. SUFFICES ASSUME NEW e \in Entry PROVE Flooding(e, on, i) = Free <=> e = Free
    OBVIOUS
  <2>2. Flooding(Free, on, i) = Free
    BY DEF Flooding, Free
  <2>3. e.type = "vlan" => Reflood(e, {HOST}, on).type = "vlan"
    BY Kinds DEF Reflood, VlanEntries
  <2>4. QED
    BY <2>2, <2>3 DEF Flooding, Free
<1>3. \A k \in Slot : a.table[k] \in Entry
  BY DEF Good, Engine
<1> HIDE DEF b
<1>4. QED
  BY <1>1, <1>2, <1>3 DEF Contents, b
=============================================================================
