---------------------------- MODULE CpswTraffic ----------------------------
(***************************************************************************)
(* How the network devices share the CPDMA channels and the pool: the      *)
(* transmit path, the completion of transmits, the refill of the receive   *)
(* ring and the transmit timeout.  eth/support.c, cpsw/eth.c and           *)
(* cpsw/my_cpsw_priv.c; the two drivers have the same code, except that    *)
(* eth/support.c has no ndo_tx_timeout.                                    *)
(*                                                                         *)
(* In dual-EMAC mode all network devices transmit on the same channel.     *)
(* The channel is module CpdmaFifo, of which only the owners of the        *)
(* packets and the number of descriptors matter here.  Its two halves of   *)
(* a completion are kept apart: a descriptor leaves the list with the      *)
(* channel's lock held, and goes back to the pool, which both channels     *)
(* share, after the lock has been dropped.                                 *)
(*                                                                         *)
(* On a machine with one processor (the AM335x of the BeagleBone) the      *)
(* polls, the transmit path and the timeout all run with bottom halves     *)
(* disabled, so that none of them interrupts another.                      *)
(***************************************************************************)
EXTENDS Integers, Sequences

CONSTANTS
  Ndevs,        \* the network devices
  NONE,
  TxNum, RxNum, \* desc_num of the two channels; the pool holds their sum
  Smp,          \* more than one processor?
  HasTimeout    \* does the driver have cpsw_ndo_tx_timeout?

ASSUME NoneAssumption == NONE \notin Ndevs
ASSUME NumAssumption == TxNum \in Nat \ {0} /\ RxNum \in Nat \ {0}
ASSUME PlatformAssumption == Smp \in BOOLEAN /\ HasTimeout \in BOOLEAN

\* who takes completed packets off the transmit channel
Completer == {"napi", "timeout"}

VARIABLES
  avail,     \* free descriptors in the pool
  txq,       \* owners of the packets on the transmit list, oldest first
  sent,      \* how many of them, from the front, the hardware has sent
  active,    \* is the transmit channel ACTIVE?
  rxcount,   \* descriptors on the receive list
  received,  \* how many of them, from the front, hold a packet
  stopped,   \* devices whose transmit queue is stopped
  xmit,      \* [Ndevs -> program counter of cpsw_ndo_start_xmit]
  at, pkt,   \* [Completer -> program counter], and the packet in hand
  rx,        \* program counter of the receive handler
  timeout,   \* program counter of cpsw_ndo_tx_timeout
  victim     \* the device whose timeout it is

txVars == <<txq, sent, active>>
rxVars == <<rxcount, received, rx>>
vars == <<avail, txVars, rxVars, stopped, xmit, at, pkt, timeout, victim>>

Init ==
  /\ avail = TxNum
  /\ txq = <<>> /\ sent = 0 /\ active = TRUE
  /\ rxcount = RxNum /\ received = 0
  /\ stopped = {}
  /\ xmit = [n \in Ndevs |-> "idle"]
  /\ at = [t \in Completer |-> "idle"] /\ pkt = [t \in Completer |-> NONE]
  /\ rx = "idle" /\ timeout = "idle" /\ victim = NONE

Quiet == /\ \A n \in Ndevs : xmit[n] = "idle"
         /\ \A t \in Completer : at[t] = "idle"
         /\ rx = "idle" /\ timeout = "idle"

\* May another of them begin?
MayRun == Smp \/ Quiet

-----------------------------------------------------------------------------
(* Transmit: cpsw_ndo_start_xmit.                                          *)

\* cpdma_check_free_tx_desc
FreeTxDesc == Len(txq) < TxNum /\ avail > 0

\* The stack calls it for a device whose queue is not stopped, for one packet
\* at a time.  cpdma_chan_submit may fail: channel not ACTIVE, its share of
\* the pool used up, or the pool empty.
XmitSubmit(n) ==
  /\ MayRun
  /\ xmit[n] = "idle"
  /\ n \notin stopped
  /\ IF active /\ FreeTxDesc
       THEN /\ txq' = Append(txq, n)
            /\ avail' = avail - 1
            /\ xmit' = [xmit EXCEPT ![n] = "check"]
       ELSE /\ xmit' = [xmit EXCEPT ![n] = "stop"]
            /\ UNCHANGED <<txq, avail>>
  /\ UNCHANGED <<sent, active, rxVars, stopped, at, pkt, timeout, victim>>

\* Was that the last descriptor?
XmitCheck(n) ==
  /\ xmit[n] = "check"
  /\ xmit' = [xmit EXCEPT ![n] = IF FreeTxDesc THEN "idle" ELSE "stop"]
  /\ UNCHANGED <<avail, txVars, rxVars, stopped, at, pkt, timeout, victim>>

XmitStop(n) ==
  /\ xmit[n] = "stop"
  /\ stopped' = stopped \cup {n}
  /\ xmit' = [xmit EXCEPT ![n] = "recheck"]
  /\ UNCHANGED <<avail, txVars, rxVars, at, pkt, timeout, victim>>

\* A descriptor may have become free before the stop was visible.
StillFull_NotChecked == TRUE
StillFull == ~FreeTxDesc
XmitRecheck(n) ==
  /\ xmit[n] = "recheck"
  /\ stopped' = IF StillFull THEN stopped ELSE stopped \ {n}
  /\ xmit' = [xmit EXCEPT ![n] = "idle"]
  /\ UNCHANGED <<avail, txVars, rxVars, at, pkt, timeout, victim>>

Xmit(n) == XmitSubmit(n) \/ XmitCheck(n) \/ XmitStop(n) \/ XmitRecheck(n)

-----------------------------------------------------------------------------
(* Completion of transmits, by the poller or by a stop of the channel.     *)

TakeOff(t) ==
  /\ at[t] = "idle"
  /\ txq # <<>>
  /\ txq' = Tail(txq)
  /\ sent' = IF sent = 0 THEN 0 ELSE sent - 1
  /\ pkt' = [pkt EXCEPT ![t] = Head(txq)]
  /\ at' = [at EXCEPT ![t] = "free"]
  /\ UNCHANGED <<avail, active, rxVars, stopped, xmit, timeout, victim>>

\* cpsw_tx_mq_poll
TxDequeue == MayRun /\ sent > 0 /\ TakeOff("napi")

\* __cpdma_chan_free
TxFree(t) ==
  /\ at[t] = "free"
  /\ avail' = avail + 1
  /\ at' = [at EXCEPT ![t] = "wake"]
  /\ UNCHANGED <<txVars, rxVars, stopped, xmit, pkt, timeout, victim>>

\* cpsw_tx_handler looks at the queue of the device that sent the packet, and
\* at no other.
Woken_None(t) == {}
Woken(t) == {pkt[t]}
TxWake(t) ==
  /\ at[t] = "wake"
  /\ stopped' = stopped \ Woken(t)
  /\ at' = [at EXCEPT ![t] = "idle"]
  /\ pkt' = [pkt EXCEPT ![t] = NONE]
  /\ UNCHANGED <<avail, txVars, rxVars, xmit, timeout, victim>>

-----------------------------------------------------------------------------
(* Receive: cpsw_rx_handler gives the channel a page for the one it took.  *)

RxDequeue ==
  /\ MayRun
  /\ rx = "idle"
  /\ received > 0
  /\ rxcount' = rxcount - 1
  /\ received' = received - 1
  /\ rx' = "free"
  /\ UNCHANGED <<avail, txVars, stopped, xmit, at, pkt, timeout, victim>>

RxFree ==
  /\ rx = "free"
  /\ avail' = avail + 1
  /\ rx' = "submit"
  /\ UNCHANGED <<txVars, rxcount, received, stopped, xmit, at, pkt, timeout, victim>>

\* cpdma_chan_submit_mapped; on failure the page is recycled and the ring has
\* one descriptor less.
RxResubmit_OffByOne == rxcount + 1 < RxNum /\ avail > 0
RxResubmit == rxcount < RxNum /\ avail > 0
RxSubmit_NotCounted ==
  /\ rx = "submit"
  /\ avail' = IF RxResubmit THEN avail - 1 ELSE avail
  /\ rx' = "idle"
  /\ UNCHANGED <<txVars, rxcount, received, stopped, xmit, at, pkt, timeout, victim>>
RxSubmit ==
  /\ rx = "submit"
  /\ IF RxResubmit
       THEN avail' = avail - 1 /\ rxcount' = rxcount + 1
       ELSE UNCHANGED <<avail, rxcount>>
  /\ rx' = "idle"
  /\ UNCHANGED <<txVars, received, stopped, xmit, at, pkt, timeout, victim>>

-----------------------------------------------------------------------------
(* cpsw_ndo_tx_timeout: the stack calls it when the queue of a device has  *)
(* been stopped for too long.  The channel is stopped and started, and     *)
(* what was on it is completed without having been sent.                   *)

TimeoutStop(n) ==
  /\ HasTimeout
  /\ MayRun
  /\ timeout = "idle"
  /\ n \in stopped
  /\ active' = FALSE
  /\ timeout' = "drain"
  /\ victim' = n
  /\ UNCHANGED <<avail, txq, sent, rxVars, stopped, xmit, at, pkt>>

TimeoutDequeue == timeout = "drain" /\ TakeOff("timeout")

TimeoutStart ==
  /\ timeout = "drain"
  /\ at["timeout"] = "idle"
  /\ txq = <<>>
  /\ active' = TRUE
  /\ timeout' = "wake"
  /\ UNCHANGED <<avail, txq, sent, rxVars, stopped, xmit, at, pkt, victim>>

TimeoutWake_Forgotten ==
  /\ timeout = "wake"
  /\ timeout' = "idle"
  /\ victim' = NONE
  /\ UNCHANGED <<avail, txVars, rxVars, stopped, xmit, at, pkt>>
TimeoutWake ==
  /\ timeout = "wake"
  /\ stopped' = stopped \ {victim}
  /\ timeout' = "idle"
  /\ victim' = NONE
  /\ UNCHANGED <<avail, txVars, rxVars, xmit, at, pkt>>

-----------------------------------------------------------------------------
(* The hardware.                                                           *)

HwSend ==
  /\ active
  /\ sent < Len(txq)
  /\ sent' = sent + 1
  /\ UNCHANGED <<avail, txq, active, rxVars, stopped, xmit, at, pkt, timeout, victim>>

HwReceive ==
  /\ received < rxcount
  /\ received' = received + 1
  /\ UNCHANGED <<avail, txVars, rxcount, rx, stopped, xmit, at, pkt, timeout, victim>>

-----------------------------------------------------------------------------
Complete(t) == TxFree(t) \/ TxWake(t)
Receive == RxDequeue \/ RxFree \/ RxSubmit
Timeout == TimeoutDequeue \/ TimeoutStart \/ TimeoutWake

Next ==
  \/ \E n \in Ndevs : Xmit(n) \/ TimeoutStop(n)
  \/ TxDequeue
  \/ \E t \in Completer : Complete(t)
  \/ Receive
  \/ Timeout
  \/ HwSend \/ HwReceive

Spec == Init /\ [][Next]_vars

\* The hardware sends, what has begun goes on, the poller runs when there is
\* work, and the stack reports a queue that stays stopped.  On one processor
\* the last two take turns with everything else that wants to run.  Nothing
\* makes the stack transmit or packets arrive.
Fairness ==
  /\ \A n \in Ndevs : WF_vars(XmitCheck(n) \/ XmitStop(n) \/ XmitRecheck(n))
  /\ \A n \in Ndevs : SF_vars(TimeoutStop(n))
  /\ SF_vars(TxDequeue)
  /\ \A t \in Completer : WF_vars(Complete(t))
  /\ WF_vars(RxFree \/ RxSubmit)
  /\ WF_vars(Timeout)
  /\ WF_vars(HwSend)

FairSpec == Spec /\ Fairness

-----------------------------------------------------------------------------
(* Properties.                                                             *)

\* The type invariant.
TypeOK ==
  /\ avail \in 0..(TxNum + RxNum)
  /\ txq \in Seq(Ndevs) /\ Len(txq) <= TxNum
  /\ sent \in 0..Len(txq)
  /\ active \in BOOLEAN
  /\ rxcount \in 0..RxNum
  /\ received \in 0..rxcount
  /\ stopped \in SUBSET Ndevs
  /\ xmit \in [Ndevs -> {"idle", "check", "stop", "recheck"}]
  /\ at \in [Completer -> {"idle", "free", "wake"}]
  /\ pkt \in [Completer -> Ndevs \cup {NONE}]
  /\ rx \in {"idle", "free", "submit"}
  /\ timeout \in {"idle", "drain", "wake"}
  /\ victim \in Ndevs \cup {NONE}

One(b) == IF b THEN 1 ELSE 0

\* The pool is shared by channels with locks of their own: what is free, on
\* either list, or in the hands of a thread that has not freed it yet, adds up
\* to the pool.
PoolBalanced ==
  avail + Len(txq) + rxcount + One(at["napi"] = "free")
    + One(at["timeout"] = "free") + One(rx = "free") = TxNum + RxNum

\* The receive ring keeps its size: the handler always finds a descriptor for
\* the page it gives back, as its WARN_ON(ret == -ENOMEM) demands.
RingKept == rxcount + One(rx # "idle") = RxNum

InFlight(n) == \/ \E i \in 1..Len(txq) : txq[i] = n
               \/ \E t \in Completer : at[t] # "idle" /\ pkt[t] = n

\* No lost wake-up: a device whose queue has been left stopped has a packet
\* under way, whose completion will start the queue again.
NoLostWakeup ==
  \A n \in Ndevs : n \in stopped /\ xmit[n] = "idle" => InFlight(n)

\* A queue that has been stopped is started again.
QueueRestarts == \A n \in Ndevs : (n \in stopped) ~> (n \notin stopped)
=============================================================================
