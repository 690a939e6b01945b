------------------------------- MODULE CpswTable -------------------------------
(***************************************************************************)
(* The table of the ALE under every call of cpsw/my_cpsw_ale.c that        *)
(* changes it, made in any order, while the engine learns addresses and a  *)
(* timer makes it forget them: what the handlers of CpswAddr and           *)
(* CpswBridge can rely on.                                                 *)
(***************************************************************************)
EXTENDS CpswAle

CONSTANTS
  Masks,  \* the masks of ports that the callers pass
  MaxLearn \* how often an address is learned or seen again

ASSUME MasksAssumption == Masks \subseteq SUBSET Ports
ASSUME MaxLearnAssumption == MaxLearn \in Nat

VARIABLES
  engine,  \* the engine, see CpswAle
  running, \* has the ALE been started?
  armed,   \* is the ageing timer pending?
  learned  \* how often the engine has learned something

tableVars == <<engine, running, armed, learned>>
clockVars == <<running, armed, learned>>

TableInit ==
  /\ engine = [table |-> Cleared, untag |-> {}, ret |-> OK]
  /\ running = FALSE /\ armed = FALSE /\ learned = 0

\* What a caller does not look at is forgotten.
Returns(a) == engine' = [a EXCEPT !.ret = OK]

-----------------------------------------------------------------------------
(* The calls.  A member of a VLAN is registered in it, and an untagged port *)
(* is a member; the host port may get what is not registered.               *)

DoAddUcast ==
  \E x \in Stations, p \in Ports, s \in BOOLEAN, v \in Vids : Returns(AddUcast(engine, x, p, s, v))
DoDelUcast == \E x \in Stations, v \in Vids : Returns(DelUcast(engine, x, v))

DoAddMcast ==
  \E x \in Groups, m \in Masks \ {{}}, s \in BOOLEAN, v \in Vids :
    Returns(AddMcast(engine, x, m, s, v))
DoDelMcast == \E x \in Groups, m \in Masks, v \in Vids : Returns(DelMcast(engine, x, m, v))
DoFlush ==
  \E m \in Masks, v \in Vids : Returns(FlushMulticast(engine, m, {v})) \/ Returns(FlushMulticast(engine, m, Vids))

DoAddVlan ==
  \E m \in Masks \ {{}}, v \in Vids : \E u \in {{}, m}, un \in {{}, {HOST}} :
    Returns(AddVlan(engine, v, m, u, m, un))
DoVlanAddModify ==
  \E m \in Masks \ {{}}, v \in Vids : \E u \in {{}, m} :
    Returns(VlanAddModify(engine, v, m, u, m, m))
DoVlanDelModify == \E m \in Masks, v \in Vids : Returns(VlanDelModify(engine, v, m))
DoDelVlan == \E m \in Masks, v \in Vids : Returns(DelVlan(engine, v, m))

DoSetUnreg == \E m \in Masks, b \in BOOLEAN : Returns(SetUnregMcast(engine, m, b))
DoSetAllmulti == \E p \in Ports, b \in BOOLEAN : Returns(SetAllmulti(engine, b, p))

Call ==
  /\ \/ DoAddUcast \/ DoDelUcast \/ DoAddMcast \/ DoDelMcast \/ DoFlush
     \/ DoAddVlan \/ DoVlanAddModify \/ DoVlanDelModify \/ DoDelVlan
     \/ DoSetUnreg \/ DoSetAllmulti
  /\ UNCHANGED clockVars

-----------------------------------------------------------------------------
(* Start, stop and ageing.                                                 *)

\* cpsw_ale_start: with software ageing, of a timer.
StartAle ==
  /\ ~running /\ running' = TRUE
  /\ engine' = Clear(engine)
  /\ armed' = TRUE
  /\ UNCHANGED learned

\* cpsw_ale_stop.
StopAle ==
  /\ running /\ running' = FALSE
  /\ armed' = FALSE
  /\ engine' = Clear(engine)
  /\ UNCHANGED learned

\* cpsw_ale_timer: the timer starts itself again.
Timer == armed /\ engine' = AgeOut(engine) /\ UNCHANGED clockVars

\* A frame from a station.
HearFrame ==
  /\ running /\ learned < MaxLearn
  /\ \E x \in Stations, p \in Ports, v \in Vids, b \in BOOLEAN : engine' = Learn(engine, x, p, v, b)
  /\ learned' = learned + 1
  /\ UNCHANGED <<running, armed>>

TableNext == Call \/ StartAle \/ StopAle \/ Timer \/ HearFrame
TableSpec == TableInit /\ [][TableNext]_tableVars

-----------------------------------------------------------------------------
TableTypeOK ==
  /\ engine \in Engine
  /\ running \in BOOLEAN /\ armed \in BOOLEAN
  /\ learned \in 0..MaxLearn

\* A search has one answer: no two entries of the table are for the same VLAN, or for the same
\* address of a VLAN, though every call searches the table anew and places an entry at the first
\* that is free or learned.
KeysUnique == KeysUniqueIn(engine.table)

\* The bit map that the receive path asks, to know whether the frames of a VLAN come untagged,
\* says the same as the entry of the VLAN, however its ports came and went.
UntagAgrees == UntagAgreesIn(engine)

\* A port that has left a VLAN, by any of the calls that make it leave, is not among its
\* untagged ports nor its registered ones.
LeftForGood ==
  \A i \in Slot : LET e == engine.table[i]
                  IN e.type = "vlan" => e.untag \subseteq e.members /\ e.reg \subseteq e.members

\* What the table is to the functions that use it (see AleMap).
Map == INSTANCE AleMap WITH entries <- {engine.table[i] : i \in Slot} \ {Free}

\* A call changes no entry but its own, and costs no entry but a learned one.
ImplementsMap == Map!Spec
=============================================================================
