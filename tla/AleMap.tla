--------------------------------- MODULE AleMap ---------------------------------
(***************************************************************************)
(* What the table of the ALE is to the functions that use it: a set of     *)
(* entries, one for each VLAN and for each address of a VLAN, with no      *)
(* places, no order and no search.                                         *)
(*                                                                         *)
(*   - Add:     an entry comes in place of the one with its key; the price *)
(*              may be one learned entry, and never another;               *)
(*   - Shrink:  an entry goes, or stays with fewer ports;                  *)
(*   - Flush:   multicast entries lose ports;                              *)
(*   - Redirect: VLANs change where they flood;                            *)
(*   - Hear, Age: the engine adds, moves and removes learned entries;     *)
(*   - Empty:   everything goes.                                           *)
(*                                                                         *)
(* CpswTable implements this module (see CpswTable!Map).                   *)
(***************************************************************************)
EXTENDS CpswAle

VARIABLE entries

IsLearned(e) == IsUcast(e) /\ e.ucast # "persistant"

\* The ports of an entry of the driver's.
PortsOf(e) == IF e.type = "vlan" THEN e.members ELSE IF IsMcast(e) THEN e.mask ELSE {}

New == entries' \ entries
Gone == entries \ entries'

Init == entries = {}

Add ==
  \E e \in entries' :
    /\ ~IsLearned(e)
    /\ New \subseteq {e}
    /\ \E lost \in {{}} \cup {{l} : l \in {f \in entries : IsLearned(f)}} :
         Gone \subseteq lost \cup {f \in entries : SameKey(e, f)}

Shrink ==
  \E e \in entries :
    /\ Gone \subseteq {e}
    /\ \A f \in New : ~IsLearned(f) /\ SameKey(e, f) /\ PortsOf(f) \subseteq PortsOf(e)

Flush ==
  /\ \A e \in Gone : IsMcast(e) /\ ~e.super
  /\ \A f \in New : \E e \in Gone : SameKey(e, f) /\ PortsOf(f) \subseteq PortsOf(e)

Redirect ==
  /\ \A e \in Gone : e.type = "vlan" /\ \E f \in New : f = [e EXCEPT !.unreg = f.unreg]
  /\ \A f \in New : \E e \in Gone : SameKey(e, f)

\* A unicast entry appears or moves.
Hear ==
  \E e \in entries' :
    /\ IsUcast(e) /\ New \subseteq {e}
    /\ \A f \in Gone : SameKey(e, f) /\ IsUcast(f) /\ ~f.secure

\* Learned entries grow old, or go.
Age == \A e \in Gone \cup New : IsLearned(e)

Empty == entries' = {}

Next ==
  /\ \A e, f \in entries' : SameKey(e, f) => e = f
  /\ Add \/ Shrink \/ Flush \/ Redirect \/ Hear \/ Age \/ Empty

Spec == Init /\ [][Next]_entries
=============================================================================
