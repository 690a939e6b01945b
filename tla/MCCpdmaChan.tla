---------------------------- MODULE MCCpdmaChan ----------------------------
(***************************************************************************)
(* CpdmaChan on small instances.                                           *)
(***************************************************************************)
EXTENDS CpdmaChan, TLC

CONSTANTS d1, d2, d3

\* With two descriptors the race on the last one is there; with three a
\* chain can grow by two behind the descriptor the hardware is working on.
TwoDescs == {d1, d2}
ThreeDescs == {d1, d2, d3}

\* Sound for safety: the descriptors are only compared for equality.
Symmetry == Permutations(Descs)
=============================================================================
