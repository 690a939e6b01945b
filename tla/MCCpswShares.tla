---------------------------- MODULE MCCpswShares ----------------------------
(***************************************************************************)
(* CpswShares on small instances.                                          *)
(***************************************************************************)
EXTENDS CpswShares

\* What cpdma_chan_set_factors grants, with a bus of 250 MHz, for the rates of
\* the runs: exactly what it is asked for.
RatesGranted == [r \in Rates |-> 1000 * r]
=============================================================================
