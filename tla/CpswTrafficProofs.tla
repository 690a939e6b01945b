------------------------- MODULE CpswTrafficProofs -------------------------
(***************************************************************************)
(* Proofs about the two models of the data path: CpswTraffic, the accounts *)
(* of descriptors, and CpswNapi, the interrupts and polls that make it go. *)
(* The models share no state, and each has its own specification.          *)
(*                                                                         *)
(* CpswTraffic, for any number of devices and descriptors: Balanced, the   *)
(* accounts of the pool, is inductive together with the types.  From it    *)
(* follow, each with one more conjunct: that on one processor the receive  *)
(* ring keeps its size, since while the receive handler runs no other      *)
(* thread holds a descriptor; and that a device that has the channel to    *)
(* itself loses no wake-up.                                                *)
(*                                                                         *)
(* CpswNapi, for any number of channels, any budget and any number of      *)
(* packets, on all three boards: the inductive invariant has one part for  *)
(* each actor: what the thread under RTNL has brought the engine to        *)
(* (EngineInv) and NAPI (NapiInv) at each of its steps, who owes the       *)
(* interrupt its enabling (IrqInv), and what a poll on one processor can   *)
(* rely on (PollInv).                                                      *)
(***************************************************************************)
EXTENDS CpswTraffic, CpswNapi, SequenceTheorems, TLAPS

-----------------------------------------------------------------------------
(* Descriptors: CpswTraffic.                                               *)

\* The ring never has more than its share, counting the descriptor the receive
\* handler is about to give back.
RingBound == rxcount + One(rx # "idle") <= RxNum

\* A completion that has begun is that of a device's packet.
PktOK == \A t \in Completer : at[t] # "idle" => pkt[t] \in Ndevs

Balanced == TypeOK /\ PoolBalanced /\ RingBound /\ PktOK

\* On one processor the receive handler runs alone.
RxAlone ==
  ~Smp /\ rx # "idle" =>
    /\ \A n \in Ndevs : xmit[n] = "idle"
    /\ \A t \in Completer : at[t] = "idle"
    /\ timeout = "idle"

\* What taking a packet off the transmit list leaves.
LEMMA TakeOffStep ==
  ASSUME Balanced, NEW t \in Completer, TakeOff(t)
  PROVE  /\ txq' \in Seq(Ndevs) /\ Len(txq') = Len(txq) - 1
         /\ sent' \in 0..Len(txq')
         /\ Len(txq) \in Nat \ {0}
         /\ txq[1] \in Ndevs
         /\ \A i \in 1..Len(txq') : txq'[i] = txq[i + 1]
<1>1. txq \in Seq(Ndevs) /\ txq # <<>> /\ txq' = Tail(txq) /\ sent \in 0..Len(txq)
  BY DEF Balanced, TypeOK, TakeOff
<1>2. /\ txq' \in Seq(Ndevs) /\ Len(txq') = Len(txq) - 1
      /\ \A i \in 1..Len(txq') : txq'[i] = txq[i + 1]
  BY <1>1, HeadTailProperties
<1>3. Len(txq) \in Nat \ {0}
  BY <1>1, LenProperties, EmptySeq
<1>4. txq[1] \in Ndevs
  BY <1>1, <1>3, ElementOfSeq
<1>5. sent' \in 0..Len(txq')
  BY <1>1, <1>2, <1>3 DEF TakeOff
<1>6. QED
  BY <1>2, <1>3, <1>4, <1>5

\* Every step keeps the accounts.
LEMMA BalancedStep ==
  ASSUME Balanced, [Next]_vars
  PROVE  Balanced'
<1> USE NumAssumption DEF Completer, txVars, rxVars
<1>1. TypeOK /\ PoolBalanced /\ RingBound /\ PktOK
  BY DEF Balanced
<1>2. Len(txq) \in Nat
  BY <1>1, LenProperties DEF TypeOK
<1>3. ASSUME NEW n \in Ndevs, XmitSubmit(n) PROVE Balanced'
  <2>1. CASE active /\ FreeTxDesc
    <3>1. /\ txq' \in Seq(Ndevs) /\ Len(txq') = Len(txq) + 1
          /\ avail' = avail - 1 /\ avail > 0 /\ Len(txq) < TxNum
          /\ xmit' = [xmit EXCEPT ![n] = "check"]
          /\ UNCHANGED <<sent, active, rxcount, received, rx, stopped, at, pkt, timeout,
                         victim>>
      BY <1>1, <1>3, <2>1, AppendProperties DEF TypeOK, XmitSubmit, FreeTxDesc
    <3>2. avail' \in 0..(TxNum + RxNum) /\ Len(txq') <= TxNum /\ sent' \in 0..Len(txq')
      BY <1>1, <1>2, <3>1 DEF TypeOK
    <3>3. TypeOK'
      BY <1>1, <3>1, <3>2 DEF TypeOK
    <3>4. PoolBalanced'
      <4>1. avail' + Len(txq') = avail + Len(txq)
        BY <1>1, <1>2, <3>1 DEF TypeOK
      <4>2. QED
        BY <1>1, <3>1, <4>1 DEF PoolBalanced, One
    <3>5. RingBound' /\ PktOK'
      BY <1>1, <3>1 DEF RingBound, PktOK
    <3>6. QED
      BY <3>3, <3>4, <3>5 DEF Balanced
  <2>2. CASE ~(active /\ FreeTxDesc)
    BY <1>1, <1>3, <2>2
       DEF Balanced, TypeOK, PoolBalanced, RingBound, PktOK, One, XmitSubmit
  <2>3. QED
    BY <2>1, <2>2
<1>4. ASSUME NEW n \in Ndevs, XmitCheck(n) \/ XmitStop(n) \/ XmitRecheck(n)
      PROVE  Balanced'
  BY <1>1, <1>4 DEF Balanced, TypeOK, PoolBalanced, RingBound, PktOK, One, XmitCheck,
                    XmitStop, XmitRecheck
<1>5. ASSUME NEW t \in Completer, TakeOff(t) PROVE Balanced'
  <2>1. /\ txq' \in Seq(Ndevs) /\ Len(txq') = Len(txq) - 1
        /\ sent' \in 0..Len(txq') /\ Len(txq) \in Nat \ {0} /\ txq[1] \in Ndevs
    BY <1>5, TakeOffStep
  <2>2. /\ at[t] = "idle" /\ at' = [at EXCEPT ![t] = "free"]
        /\ pkt' = [pkt EXCEPT ![t] = txq[1]]
        /\ UNCHANGED <<avail, active, rxcount, received, rx, stopped, xmit, timeout, victim>>
    BY <1>1, <1>5, HeadTailProperties DEF TakeOff, TypeOK
  <2>3. TypeOK'
    BY <1>1, <2>1, <2>2 DEF TypeOK
  <2>4. PoolBalanced'
    <3>1. CASE t = "napi"
      <4>1. /\ One(at["napi"] = "free") = 0 /\ One(at'["napi"] = "free") = 1
            /\ at'["timeout"] = at["timeout"] /\ avail \in Int /\ rxcount \in Int
        BY <1>1, <2>2, <3>1 DEF TypeOK, One
      <4>2. QED
        BY <1>1, <2>1, <2>2, <4>1 DEF PoolBalanced, One
    <3>2. CASE t = "timeout"
      <4>1. /\ One(at["timeout"] = "free") = 0 /\ One(at'["timeout"] = "free") = 1
            /\ at'["napi"] = at["napi"] /\ avail \in Int /\ rxcount \in Int
        BY <1>1, <2>2, <3>2 DEF TypeOK, One
      <4>2. QED
        BY <1>1, <2>1, <2>2, <4>1 DEF PoolBalanced, One
    <3>3. QED
      BY <3>1, <3>2
  <2>5. RingBound' /\ PktOK'
    BY <1>1, <2>1, <2>2 DEF TypeOK, RingBound, PktOK
  <2>6. QED
    BY <2>3, <2>4, <2>5 DEF Balanced
<1>6. ASSUME NEW t \in Completer, TxFree(t) PROVE Balanced'
  <2>1. CASE t = "napi"
    BY <1>1, <1>2, <1>6, <2>1
       DEF Balanced, TypeOK, PoolBalanced, RingBound, PktOK, One, TxFree
  <2>2. CASE t = "timeout"
    BY <1>1, <1>2, <1>6, <2>2
       DEF Balanced, TypeOK, PoolBalanced, RingBound, PktOK, One, TxFree
  <2>3. QED
    BY <2>1, <2>2
<1>7. ASSUME NEW t \in Completer, TxWake(t) PROVE Balanced'
  BY <1>1, <1>7 DEF Balanced, TypeOK, PoolBalanced, RingBound, PktOK, One, TxWake
<1>8. CASE RxDequeue
  BY <1>1, <1>8 DEF Balanced, TypeOK, PoolBalanced, RingBound, PktOK, One, RxDequeue
<1>9. CASE RxFree
  BY <1>1, <1>2, <1>9 DEF Balanced, TypeOK, PoolBalanced, RingBound, PktOK, One, RxFree
<1>10. CASE RxSubmit
  <2>1. /\ rx = "submit" /\ rx' = "idle"
        /\ UNCHANGED <<txq, sent, active, received, stopped, xmit, at, pkt, timeout, victim>>
    BY <1>10 DEF RxSubmit
  <2>2. CASE RxResubmit
    <3>1. avail' = avail - 1 /\ rxcount' = rxcount + 1 /\ avail > 0 /\ rxcount < RxNum
      BY <1>10, <2>2 DEF RxSubmit, RxResubmit
    <3>2. TypeOK'
      BY <1>1, <2>1, <3>1 DEF TypeOK
    <3>3. avail' + Len(txq') + rxcount' = avail + Len(txq) + rxcount
      BY <1>1, <1>2, <2>1, <3>1 DEF TypeOK
    <3>4. PoolBalanced' /\ RingBound' /\ PktOK'
      BY <1>1, <2>1, <3>1, <3>3 DEF TypeOK, PoolBalanced, RingBound, PktOK, One
    <3>5. QED
      BY <3>2, <3>4 DEF Balanced
  <2>3. CASE ~RxResubmit
    <3>1. UNCHANGED <<avail, rxcount>>
      BY <1>10, <2>3 DEF RxSubmit
    <3>2. QED
      BY <1>1, <2>1, <3>1
         DEF Balanced, TypeOK, PoolBalanced, RingBound, PktOK, One
  <2>4. QED
    BY <2>2, <2>3
<1>11. CASE \/ \E n \in Ndevs : TimeoutStop(n)
            \/ TimeoutStart \/ TimeoutWake \/ HwSend \/ HwReceive
  <2>1. UNCHANGED <<avail, txq, rxcount, at, pkt, rx>>
    BY <1>11 DEF TimeoutStop, TimeoutStart, TimeoutWake, HwSend, HwReceive
  <2>2. PoolBalanced' /\ RingBound' /\ PktOK'
    BY <1>1, <2>1 DEF PoolBalanced, RingBound, PktOK
  <2>3. TypeOK'
    <3>1. CASE \E n \in Ndevs : TimeoutStop(n)
      BY <1>1, <3>1 DEF TypeOK, TimeoutStop
    <3>2. CASE TimeoutStart \/ TimeoutWake
      BY <1>1, <3>2 DEF TypeOK, TimeoutStart, TimeoutWake
    <3>3. CASE HwSend
      BY <1>1, <1>2, <3>3 DEF TypeOK, HwSend
    <3>4. CASE HwReceive
      BY <1>1, <3>4 DEF TypeOK, HwReceive
    <3>5. QED
      BY <1>11, <3>1, <3>2, <3>3, <3>4
  <2>4. QED
    BY <2>2, <2>3 DEF Balanced
<1>12. CASE UNCHANGED vars
  BY <1>1, <1>12 DEF Balanced, TypeOK, PoolBalanced, RingBound, PktOK, vars
<1>13. QED
  BY <1>3, <1>4, <1>5, <1>6, <1>7, <1>8, <1>9, <1>10, <1>11, <1>12
     DEF Next, Xmit, Complete, Receive, Timeout, TxDequeue, TimeoutDequeue

\* The initial state balances.
LEMMA InitBalanced == Init => Balanced
BY NumAssumption, EmptySeq
   DEF Init, Balanced, TypeOK, PoolBalanced, RingBound, PktOK, One, Completer

\* Types and accounts hold in every reachable state.
THEOREM Balance == Spec => []Balanced
<1>1. Init => Balanced
  BY InitBalanced
<1>2. Balanced /\ [Next]_vars => Balanced'
  BY BalancedStep
<1>3. QED
  BY <1>1, <1>2, PTL DEF Spec

\* The type invariant, for any number of devices and descriptors.
THEOREM TypeCorrect == Spec => []TypeOK
<1>1. Balanced => TypeOK
  BY DEF Balanced
<1>2. QED
  BY <1>1, Balance, PTL

\* Whatever the threads of the two channels do to it, the pool is neither
\* leaked nor overdrawn.
THEOREM PoolIsBalanced == Spec => []PoolBalanced
<1>1. Balanced => PoolBalanced
  BY DEF Balanced
<1>2. QED
  BY <1>1, Balance, PTL

-----------------------------------------------------------------------------
(* One processor.                                                          *)

\* Every step keeps the receive handler alone and the ring at its size.
LEMMA RingStep ==
  ASSUME ~Smp, Balanced, RxAlone, RingKept, [Next]_vars
  PROVE  RxAlone' /\ RingKept'
<1> USE NumAssumption DEF txVars, rxVars
<1>1. TypeOK /\ PoolBalanced
  BY DEF Balanced
<1>2. CASE RxDequeue
  BY <1>1, <1>2 DEF TypeOK, RxAlone, RingKept, One, RxDequeue, MayRun, Quiet
<1>3. CASE RxFree
  BY <1>3 DEF RxAlone, RingKept, One, RxFree
<1>4. CASE RxSubmit
  <2>1. at["napi"] = "idle" /\ at["timeout"] = "idle" /\ rx = "submit"
    BY <1>4 DEF RxAlone, RxSubmit, Completer
  <2>2. Len(txq) \in Nat /\ Len(txq) <= TxNum
    BY <1>1, LenProperties DEF TypeOK
  <2>3. avail > 0 /\ rxcount < RxNum
    BY <1>1, <2>1, <2>2 DEF TypeOK, PoolBalanced, RingKept, One
  <2>4. QED
    BY <1>1, <1>4, <2>1, <2>3 DEF TypeOK, RxAlone, RingKept, One, RxSubmit, RxResubmit
<1>5. ASSUME UNCHANGED <<rx, rxcount>>,
             rx # "idle" => UNCHANGED <<xmit, at, timeout>>
      PROVE  RxAlone' /\ RingKept'
  BY <1>5 DEF RxAlone, RingKept, One
<1>6. ASSUME NEW n \in Ndevs, Xmit(n) \/ TimeoutStop(n) PROVE rx = "idle" /\ UNCHANGED <<rx, rxcount>>
  BY <1>6 DEF RxAlone, Xmit, XmitSubmit, XmitCheck, XmitStop, XmitRecheck, TimeoutStop,
              MayRun, Quiet
<1>7. ASSUME NEW t \in Completer, TxDequeue \/ Complete(t)
      PROVE  rx = "idle" /\ UNCHANGED <<rx, rxcount>>
  BY <1>7 DEF RxAlone, TxDequeue, TakeOff, Complete, TxFree, TxWake, MayRun, Quiet
<1>8. ASSUME Timeout PROVE rx = "idle" /\ UNCHANGED <<rx, rxcount>>
  BY <1>8 DEF RxAlone, Timeout, TimeoutDequeue, TakeOff, TimeoutStart, TimeoutWake
<1>9. ASSUME HwSend \/ HwReceive \/ UNCHANGED vars
      PROVE  UNCHANGED <<rx, rxcount, xmit, at, timeout>>
  BY <1>9 DEF HwSend, HwReceive, vars
<1>10. QED
  BY <1>2, <1>3, <1>4, <1>5, <1>6, <1>7, <1>8, <1>9 DEF Next, Receive, Completer

\* On one processor the receive ring never shrinks: cpsw_rx_handler always
\* finds room on its channel and a descriptor in the pool.
THEOREM RingIsKept == ASSUME ~Smp PROVE Spec => []RingKept
<1>1. Init => RxAlone /\ RingKept
  BY NumAssumption DEF Init, RxAlone, RingKept, One
<1>2. Balanced /\ (RxAlone /\ RingKept) /\ [Next]_vars => (RxAlone /\ RingKept)'
  BY RingStep
<1>3. QED
  BY <1>1, <1>2, Balance, PTL DEF Spec

-----------------------------------------------------------------------------
(* One device.                                                             *)

\* A packet of the device is under way whenever no descriptor is free.
LEMMA FullMeansInFlight ==
  ASSUME Balanced, \A m, n \in Ndevs : m = n, NEW n \in Ndevs, ~FreeTxDesc
  PROVE  InFlight(n)
<1> USE NumAssumption DEF Completer
<1>1. TypeOK /\ PoolBalanced /\ RingBound /\ PktOK
  BY DEF Balanced
<1>2. Len(txq) \in Nat
  BY <1>1, LenProperties DEF TypeOK
<1>3. CASE Len(txq) > 0
  <2>1. 1 \in 1..Len(txq) /\ txq[1] \in Ndevs
    BY <1>1, <1>2, <1>3, ElementOfSeq DEF TypeOK
  <2>2. txq[1] = n
    BY <2>1
  <2>3. QED
    BY <2>1, <2>2 DEF InFlight
<1>4. CASE Len(txq) = 0
  <2>1. avail = 0
    BY <1>1, <1>4 DEF FreeTxDesc, TypeOK
  <2>2. at["napi"] = "free" \/ at["timeout"] = "free"
    BY <1>1, <1>4, <2>1 DEF TypeOK, PoolBalanced, RingBound, One
  <2>3. PICK t \in Completer : at[t] = "free" /\ pkt[t] \in Ndevs
    BY <1>1, <2>2 DEF PktOK
  <2>4. QED
    BY <2>3 DEF InFlight
<1>5. QED
  BY <1>2, <1>3, <1>4

\* While cpsw_ndo_start_xmit runs up to its stop, the queue is not stopped.
XmitOK == \A n \in Ndevs : xmit[n] \in {"check", "stop"} => n \notin stopped

\* Every step of a device that has the channel to itself keeps a packet under
\* way as long as its queue is stopped.
LEMMA WakeupStep ==
  ASSUME Balanced, \A m, n \in Ndevs : m = n, NoLostWakeup /\ XmitOK, [Next]_vars
  PROVE  (NoLostWakeup /\ XmitOK)'
<1> USE DEF txVars, rxVars
<1>1. TypeOK /\ PktOK /\ Len(txq) \in Nat
  BY LenProperties DEF Balanced, TypeOK
<1>2. XmitOK'
  BY <1>1 DEF TypeOK, XmitOK, Next, Xmit, XmitSubmit, XmitCheck, XmitStop, XmitRecheck,
     TimeoutStop, TxDequeue, TakeOff, Complete, TxFree, TxWake, Receive, RxDequeue, RxFree,
     RxSubmit, Timeout, TimeoutDequeue, TimeoutStart, TimeoutWake, HwSend, HwReceive, vars
<1>3. SUFFICES ASSUME NEW n \in Ndevs, n \in stopped', xmit'[n] = "idle"
               PROVE  InFlight(n)'
  BY <1>2 DEF NoLostWakeup
<1>4. n \in stopped /\ xmit[n] = "idle" => InFlight(n)
  BY DEF NoLostWakeup
<1>5. ASSUME UNCHANGED <<txq, at, pkt, xmit>>, n \in stopped PROVE InFlight(n)'
  BY <1>3, <1>4, <1>5 DEF InFlight
<1>6. ASSUME NEW m \in Ndevs, Xmit(m) PROVE InFlight(n)'
  <2>1. m = n
    OBVIOUS
  <2>2. XmitRecheck(n) /\ ~FreeTxDesc
    BY <1>1, <1>3, <1>6, <2>1
       DEF TypeOK, XmitOK, Xmit, XmitSubmit, XmitCheck, XmitStop, XmitRecheck, StillFull
  <2>3. InFlight(n) /\ UNCHANGED <<txq, at, pkt>>
    BY <2>2, FullMeansInFlight DEF XmitRecheck
  <2>4. QED
    BY <2>3 DEF InFlight
<1>7. ASSUME NEW t \in Completer, TakeOff(t) PROVE InFlight(n)'
  <2>1. /\ txq \in Seq(Ndevs) /\ txq # <<>> /\ at' = [at EXCEPT ![t] = "free"]
        /\ pkt' = [pkt EXCEPT ![t] = Head(txq)]
    BY <1>1, <1>7 DEF TakeOff, TypeOK
  <2>2. Head(txq) \in Ndevs
    BY <2>1, HeadTailProperties
  <2>3. at'[t] = "free" /\ pkt'[t] = n
    BY <1>1, <2>1, <2>2 DEF TypeOK
  <2>4. QED
    BY <2>3 DEF InFlight
<1>8. ASSUME NEW t \in Completer, TxFree(t) PROVE InFlight(n)'
  <2>1. n \in stopped /\ xmit[n] = "idle" /\ UNCHANGED <<txq, pkt>>
        /\ at[t] = "free" /\ at' = [at EXCEPT ![t] = "wake"]
    BY <1>3, <1>8 DEF TxFree
  <2>2. \A u \in Completer : at[u] # "idle" => at'[u] # "idle"
    BY <1>1, <2>1 DEF TypeOK
  <2>3. QED
    BY <1>4, <2>1, <2>2 DEF InFlight
<1>9. ASSUME NEW t \in Completer, TxWake(t) PROVE InFlight(n)'
  <2>1. pkt[t] = n /\ stopped' = stopped \ {pkt[t]}
    BY <1>1, <1>9 DEF TxWake, PktOK, Woken
  <2>2. QED
    BY <1>3, <2>1
<1>10. ASSUME NEW m \in Ndevs, TimeoutStop(m) PROVE InFlight(n)'
  BY <1>3, <1>5, <1>10 DEF TimeoutStop
<1>11. ASSUME Receive \/ TimeoutStart \/ TimeoutWake \/ HwSend \/ HwReceive \/ UNCHANGED vars
       PROVE  UNCHANGED <<txq, at, pkt, xmit>> /\ n \in stopped
  BY <1>3, <1>11 DEF Receive, RxDequeue, RxFree, RxSubmit, TimeoutStart, TimeoutWake, HwSend,
                     HwReceive, vars
<1>12. QED
  BY <1>5, <1>6, <1>7, <1>8, <1>9, <1>10, <1>11
     DEF Next, TxDequeue, Complete, Timeout, TimeoutDequeue, Completer

\* A device that has the transmit channel to itself is never left with a
\* stopped queue and nothing under way that would start it again.
THEOREM WakeupNotLost ==
  ASSUME \A m, n \in Ndevs : m = n
  PROVE  Spec => []NoLostWakeup
<1>1. Init => NoLostWakeup /\ XmitOK
  BY DEF Init, NoLostWakeup, XmitOK
<1>2. Balanced /\ (NoLostWakeup /\ XmitOK) /\ [Next]_vars => (NoLostWakeup /\ XmitOK)'
  BY WakeupStep
<1>3. QED
  BY <1>1, <1>2, Balance, PTL DEF Spec

-----------------------------------------------------------------------------
(* Interrupts and polls: CpswNapi.                                         *)

Ops == {"none", "napi_enable", "irq_flag", "ctlr_start", "intr_enable", "napi_disable",
        "intr_disable", "ctlr_stop", "resize", "split"}

\* The part of the types that the argument needs.
Types ==
  /\ board \in {"one", "several", "quirk"}
  /\ users \in {0, 1, 2}
  /\ ctlr \in {"idle", "active", "teardown"}
  /\ chan \in [Chan -> {"none", "idle", "active", "teardown"}]
  /\ mask \subseteq Chan
  /\ off \in Int
  /\ isr \in {"none", "masked", "flagged"}
  /\ napi \in {"off", "idle", "scheduled", "polling"}
  /\ todo \subseteq Chan /\ rearm \in Nat
  /\ op \in Ops /\ want \in {-1} \cup 1..MaxCh

\* Where the operations with no new number of channels (want = -1) and those with one pass, and
\* with how many users.
Resizing == {"intr_disable", "ctlr_stop", "resize", "split"}
RtnlInv ==
  /\ op \in {"napi_enable", "irq_flag", "napi_disable"} => want = -1
  /\ op \in {"resize", "split"} => want # -1
  /\ board = "quirk" /\ op \in Resizing => want = -1
  /\ op \in {"napi_enable", "irq_flag"} => users = 0
  /\ op = "napi_disable" => users = 1
  /\ op \in Resizing /\ want = -1 => users = 1
  /\ op \in {"ctlr_start", "intr_enable"} => IF want = -1 THEN users < 2 ELSE users > 0

\* The engine is torn down only by who has masked the interrupts of all channels before, and while
\* it runs no channel is masked otherwise.
EngineInv ==
  /\ chan[0] # "none"
  /\ ctlr = "teardown" => op = "ctlr_stop"
  /\ op \in {"napi_enable", "irq_flag", "resize", "split"} => ctlr = "idle"
  /\ op = "intr_enable" => ctlr = "active"
  /\ op = "none" => (ctlr = "active" <=> users > 0)
  /\ ctlr = "idle" => mask = {} /\ \A c \in Chan : chan[c] \in {"none", "idle"}
  /\ ctlr = "active" => \A c \in Chan : chan[c] \in {"none", "active"}
  /\ ctlr = "active" /\ op # "ctlr_stop" => mask = Present
  /\ op = "ctlr_stop" => mask = {}

\* NAPI is on from before the engine starts until after the last user has begun to stop.
NapiInv ==
  /\ op \in {"irq_flag", "ctlr_start", "intr_enable", "napi_disable"} => napi # "off"
  /\ users > 0 /\ (op = "none" \/ (op \in Resizing /\ want # -1)) => napi # "off"

\* Somebody is under way who ends with enabling the interrupt.
Pending == isr # "none" \/ napi \in {"scheduled", "polling"} \/ rearm > 0

\* With a user, an interrupt that is masked, at either level, has somebody who will enable it.
IrqInv ==
  /\ LineBalanced
  /\ flag => board = "quirk"
  /\ isr = "masked" => ~flag
  /\ users > 0 /\ op = "none" => en \/ Pending
  /\ flag /\ (op \in {"ctlr_start", "intr_enable"} \/ (users > 0 /\ op = "none")) => Pending

\* On one processor there are channels left to poll only in a poll.
PollInv ==
  board # "several" => PolledChannelsLive /\ (todo # {} => napi = "polling")

NapiIInv == Types /\ RtnlInv /\ EngineInv /\ NapiInv /\ IrqInv /\ PollInv

-----------------------------------------------------------------------------
\* There is a channel 0.
LEMMA Chans == MaxCh \in Nat /\ MaxCh >= 1 /\ 0 \in Chan
BY BoundAssumption DEF Chan

\* The engine is idle, NAPI off and nothing masked in the beginning.
LEMMA NapiIInvInit == NapiInit => NapiIInv
<1> SUFFICES ASSUME NapiInit PROVE NapiIInv
  OBVIOUS
<1>1. Types
  <2>1. chan \in [Chan -> {"none", "idle", "active", "teardown"}]
    BY DEF NapiInit
  <2>2. want \in {-1} \cup 1..MaxCh
    BY Chans DEF NapiInit
  <2>3. QED
    BY <2>2 DEF NapiInit, Types, Ops
<1>2. RtnlInv /\ NapiInv
  BY DEF NapiInit, RtnlInv, NapiInv, Resizing
<1>3. EngineInv
  BY Chans DEF NapiInit, EngineInv
<1>4. IrqInv /\ PollInv
  BY DEF NapiInit, IrqInv, LineBalanced, PollInv, PolledChannelsLive
<1>5. QED
  BY <1>1, <1>2, <1>3, <1>4 DEF NapiIInv

\* The hardware, the interrupt handler and the poll leave the thread under RTNL where it is.
LEMMA SoftFrame ==
  ASSUME NapiIInv, UNCHANGED <<board, users, ctlr, chan, mask, op, want>>
  PROVE  RtnlInv' /\ EngineInv'
BY DEF NapiIInv, RtnlInv, EngineInv, Present

\* Each step of each actor keeps the parts of the others.
LEMMA NapiIInvNext == NapiIInv /\ [NapiNext]_napiVars => NapiIInv'
<1> SUFFICES ASSUME NapiIInv, [NapiNext]_napiVars PROVE NapiIInv'
  OBVIOUS
<1> USE DEF chanVars, irqVars, pollVars
<1>1. ASSUME NEW c \in Chan, Arrive(c) PROVE NapiIInv'
  <2>1. RtnlInv' /\ EngineInv'
    BY <1>1, SoftFrame DEF Arrive
  <2>2. Types'
    BY <1>1 DEF NapiIInv, Types, Arrive
  <2>3. NapiInv' /\ IrqInv'
    BY <1>1 DEF NapiIInv, NapiInv, IrqInv, LineBalanced, Pending, Arrive
  <2>4. PollInv'
    BY <1>1 DEF NapiIInv, PollInv, PolledChannelsLive, Arrive
  <2>5. QED
    BY <2>1, <2>2, <2>3, <2>4 DEF NapiIInv
<1>2. CASE Interrupt
  <2>1. RtnlInv' /\ EngineInv'
    BY <1>2, SoftFrame DEF Interrupt
  <2>2. Types'
    BY <1>2 DEF NapiIInv, Types, Interrupt
  <2>3. NapiInv' /\ IrqInv'
    BY <1>2 DEF NapiIInv, NapiInv, IrqInv, LineBalanced, Pending, Interrupt
  <2>4. PollInv'
    BY <1>2 DEF NapiIInv, PollInv, PolledChannelsLive, Interrupt
  <2>5. QED
    BY <2>1, <2>2, <2>3, <2>4 DEF NapiIInv
<1>3. CASE DisableLine
  <2>1. RtnlInv' /\ EngineInv'
    BY <1>3, SoftFrame DEF DisableLine
  <2>2. Types'
    BY <1>3 DEF NapiIInv, Types, DisableLine
  <2>3. NapiInv' /\ IrqInv'
    BY <1>3 DEF NapiIInv, NapiInv, IrqInv, LineBalanced, Pending, DisableLine
  <2>4. PollInv'
    BY <1>3 DEF NapiIInv, PollInv, PolledChannelsLive, DisableLine
  <2>5. QED
    BY <2>1, <2>2, <2>3, <2>4 DEF NapiIInv
<1>4. CASE Schedule
  <2>1. RtnlInv' /\ EngineInv'
    BY <1>4, SoftFrame DEF Schedule
  <2>2. Types'
    BY <1>4 DEF NapiIInv, Types, Schedule
  <2>3. NapiInv' /\ IrqInv'
    BY <1>4 DEF NapiIInv, Types, NapiInv, IrqInv, LineBalanced, Pending, Schedule
  <2>4. PollInv'
    BY <1>4 DEF NapiIInv, PollInv, PolledChannelsLive, Schedule
  <2>5. QED
    BY <2>1, <2>2, <2>3, <2>4 DEF NapiIInv
<1>5. CASE PollBegin
  <2>1. RtnlInv' /\ EngineInv'
    BY <1>5, SoftFrame DEF PollBegin
  <2>2. Types'
    BY <1>5, Chans DEF NapiIInv, Types, PollBegin, Status
  <2>3. NapiInv' /\ IrqInv'
    BY <1>5 DEF NapiIInv, NapiInv, IrqInv, LineBalanced, Pending, PollBegin
  <2>4. PollInv'
    BY <1>5 DEF NapiIInv, Types, EngineInv, PollInv, PolledChannelsLive, Present, PollBegin, Status
  <2>5. QED
    BY <2>1, <2>2, <2>3, <2>4 DEF NapiIInv
<1>6. CASE PollChan
  <2>1. RtnlInv' /\ EngineInv'
    BY <1>6, SoftFrame DEF PollChan
  <2>2. Types'
    BY <1>6 DEF NapiIInv, Types, PollChan
  <2>3. NapiInv' /\ IrqInv'
    BY <1>6 DEF NapiIInv, NapiInv, IrqInv, LineBalanced, Pending, PollChan
  <2>4. PollInv'
    BY <1>6 DEF NapiIInv, PollInv, PolledChannelsLive, PollChan
  <2>5. QED
    BY <2>1, <2>2, <2>3, <2>4 DEF NapiIInv
<1>7. CASE PollEnd
  <2>1. RtnlInv' /\ EngineInv'
    BY <1>7, SoftFrame DEF PollEnd
  <2>2. Types'
    BY <1>7 DEF NapiIInv, Types, PollEnd
  <2>3. NapiInv' /\ IrqInv'
    BY <1>7 DEF NapiIInv, Types, NapiInv, IrqInv, LineBalanced, Pending, PollEnd
  <2>4. PollInv'
    BY <1>7 DEF PollInv, PolledChannelsLive, PollEnd
  <2>5. QED
    BY <2>1, <2>2, <2>3, <2>4 DEF NapiIInv
<1>8. CASE Rearm
  <2>1. RtnlInv' /\ EngineInv'
    BY <1>8, SoftFrame DEF Rearm
  <2>2. Types'
    BY <1>8 DEF NapiIInv, Types, Rearm
  <2>3. NapiInv' /\ IrqInv'
    BY <1>8 DEF NapiIInv, NapiInv, IrqInv, LineBalanced, Rearm
  <2>4. PollInv'
    BY <1>8 DEF NapiIInv, PollInv, PolledChannelsLive, Rearm
  <2>5. QED
    BY <2>1, <2>2, <2>3, <2>4 DEF NapiIInv
<1>9. CASE Open
  <2>1. Types' /\ RtnlInv'
    BY <1>9 DEF NapiIInv, Types, RtnlInv, Resizing, Ops, Goto, Open
  <2>2. EngineInv'
    BY <1>9 DEF NapiIInv, Types, EngineInv, Present, Goto, Open
  <2>3. NapiInv' /\ IrqInv'
    BY <1>9 DEF NapiIInv, Types, NapiInv, IrqInv, LineBalanced, Pending, Goto, Open
  <2>4. PollInv'
    BY <1>9 DEF NapiIInv, PollInv, PolledChannelsLive, Open
  <2>5. QED
    BY <2>1, <2>2, <2>3, <2>4 DEF NapiIInv
<1>10. CASE Stop
  <2>1. Types' /\ RtnlInv'
    BY <1>10 DEF NapiIInv, Types, RtnlInv, Ops, Goto, Stop
  <2>2. EngineInv'
    BY <1>10 DEF NapiIInv, Types, EngineInv, Present, Goto, Stop
  <2>3. NapiInv' /\ IrqInv'
    BY <1>10 DEF NapiIInv, NapiInv, IrqInv, LineBalanced, Pending, Goto, Stop
  <2>4. PollInv'
    BY <1>10 DEF NapiIInv, PollInv, PolledChannelsLive, Stop
  <2>5. QED
    BY <2>1, <2>2, <2>3, <2>4 DEF NapiIInv
<1>11. ASSUME NEW k \in 1..MaxCh, board # "quirk", SetChannels(k) PROVE NapiIInv'
  <2>1. Types' /\ RtnlInv'
    BY <1>11 DEF NapiIInv, Types, RtnlInv, Ops, Goto, SetChannels
  <2>2. EngineInv'
    BY <1>11 DEF NapiIInv, EngineInv, Present, Goto, SetChannels
  <2>3. NapiInv' /\ IrqInv'
    BY <1>11 DEF NapiIInv, NapiInv, IrqInv, LineBalanced, Goto, SetChannels
  <2>4. PollInv'
    BY <1>11 DEF NapiIInv, PollInv, PolledChannelsLive, SetChannels
  <2>5. QED
    BY <2>1, <2>2, <2>3, <2>4 DEF NapiIInv
<1>12. CASE NapiEnable
  <2>1. Types' /\ RtnlInv'
    BY <1>12 DEF NapiIInv, Types, RtnlInv, Resizing, Ops, Goto, NapiEnable
  <2>2. EngineInv'
    BY <1>12 DEF NapiIInv, EngineInv, Goto, NapiEnable
  <2>3. NapiInv' /\ IrqInv'
    BY <1>12 DEF NapiIInv, NapiInv, IrqInv, LineBalanced, Goto, NapiEnable
  <2>4. PollInv'
    BY <1>12 DEF NapiIInv, PollInv, PolledChannelsLive, Goto, Process, PollRuns, NapiEnable
  <2>5. QED
    BY <2>1, <2>2, <2>3, <2>4 DEF NapiIInv
<1>13. CASE EnableLine
  <2>1. Types' /\ RtnlInv'
    BY <1>13 DEF NapiIInv, Types, RtnlInv, Resizing, Ops, Goto, EnableLine
  <2>2. EngineInv'
    BY <1>13 DEF NapiIInv, EngineInv, Goto, EnableLine
  <2>3. NapiInv' /\ IrqInv'
    BY <1>13 DEF NapiIInv, NapiInv, IrqInv, LineBalanced, Goto, EnableLine
  <2>4. PollInv'
    BY <1>13 DEF NapiIInv, PollInv, PolledChannelsLive, EnableLine
  <2>5. QED
    BY <2>1, <2>2, <2>3, <2>4 DEF NapiIInv
<1>14. CASE CtlrStart
  <2>1. Types' /\ RtnlInv'
    BY <1>14 DEF NapiIInv, Types, RtnlInv, Resizing, Ops, Goto, Present, CtlrStart
  <2>2. EngineInv'
    BY <1>14, Chans DEF NapiIInv, Types, EngineInv, Present, Goto, CtlrStart
  <2>3. NapiInv' /\ IrqInv'
    BY <1>14 DEF NapiIInv, NapiInv, IrqInv, LineBalanced, Pending, Goto, CtlrStart
  <2>4. PollInv'
    BY <1>14 DEF NapiIInv, PollInv, PolledChannelsLive, Goto, Process, PollRuns, CtlrStart
  <2>5. QED
    BY <2>1, <2>2, <2>3, <2>4 DEF NapiIInv
<1>15. CASE IntrEnable
  <2>1. Types' /\ RtnlInv'
    BY <1>15, Chans DEF NapiIInv, Types, RtnlInv, Resizing, Ops, Goto, IntrEnable, IntCtrl
  <2>2. EngineInv'
    BY <1>15 DEF NapiIInv, Types, RtnlInv, EngineInv, Present, Goto, IntrEnable, IntCtrl
  <2>3. NapiInv' /\ IrqInv'
    BY <1>15 DEF NapiIInv, NapiInv, IrqInv, LineBalanced, Pending, Goto, IntrEnable
  <2>4. PollInv'
    BY <1>15 DEF NapiIInv, PollInv, PolledChannelsLive, IntrEnable
  <2>5. QED
    BY <2>1, <2>2, <2>3, <2>4 DEF NapiIInv
<1>16. CASE NapiDisable
  <2>1. Types' /\ RtnlInv'
    BY <1>16 DEF NapiIInv, Types, RtnlInv, Ops, Goto, NapiDisable
  <2>2. EngineInv'
    BY <1>16 DEF NapiIInv, EngineInv, Present, Goto, NapiDisable
  <2>3. NapiInv' /\ IrqInv'
    BY <1>16 DEF NapiIInv, RtnlInv, NapiInv, IrqInv, LineBalanced, Goto, NapiDisable
  <2>4. PollInv'
    BY <1>16 DEF NapiIInv, PollInv, PolledChannelsLive, NapiDisable
  <2>5. QED
    BY <2>1, <2>2, <2>3, <2>4 DEF NapiIInv
<1>17. CASE IntrDisable
  <2>1. Types' /\ RtnlInv'
    BY <1>17 DEF NapiIInv, Types, RtnlInv, Resizing, Ops, Goto, IntrDisable, IntCtrl
  <2>2. EngineInv'
    BY <1>17 DEF NapiIInv, Types, EngineInv, Present, Goto, IntrDisable, IntCtrl
  <2>3. NapiInv' /\ IrqInv'
    BY <1>17 DEF NapiIInv, NapiInv, IrqInv, LineBalanced, Resizing, Goto, IntrDisable
  <2>4. PollInv'
    BY <1>17 DEF NapiIInv, PollInv, PolledChannelsLive, IntrDisable
  <2>5. QED
    BY <2>1, <2>2, <2>3, <2>4 DEF NapiIInv
<1>18. CASE CtlrStopped
  <2>1. Types' /\ RtnlInv'
    BY <1>18 DEF NapiIInv, Types, RtnlInv, Resizing, Ops, Goto, CtlrStopped
  <2>2. EngineInv'
    BY <1>18 DEF NapiIInv, RtnlInv, EngineInv, Resizing, Goto, CtlrStopped, Stopped
  <2>3. NapiInv' /\ IrqInv'
    BY <1>18 DEF NapiIInv, RtnlInv, NapiInv, IrqInv, LineBalanced, Resizing, Goto, CtlrStopped
  <2>4. PollInv'
    BY <1>18 DEF NapiIInv, PollInv, PolledChannelsLive, CtlrStopped
  <2>5. QED
    BY <2>1, <2>2, <2>3, <2>4 DEF NapiIInv
<1>19. CASE Resize
  <2>1. Types' /\ RtnlInv'
    BY <1>19 DEF NapiIInv, Types, RtnlInv, Resizing, Ops, Goto, Resize
  <2>2. EngineInv'
    BY <1>19, Chans DEF NapiIInv, Types, RtnlInv, EngineInv, Goto, Resize
  <2>3. NapiInv' /\ IrqInv'
    BY <1>19 DEF NapiIInv, NapiInv, IrqInv, LineBalanced, Resizing, Goto, Resize
  <2>4. PollInv'
    BY <1>19 DEF NapiIInv, PollInv, PolledChannelsLive, Goto, Process, PollRuns, Resize
  <2>5. QED
    BY <2>1, <2>2, <2>3, <2>4 DEF NapiIInv
<1>20. CASE Split
  <2>1. Types' /\ RtnlInv'
    BY <1>20 DEF NapiIInv, Types, RtnlInv, Resizing, Ops, Goto, Split
  <2>2. EngineInv'
    BY <1>20 DEF NapiIInv, EngineInv, Goto, Split
  <2>3. NapiInv' /\ IrqInv'
    BY <1>20 DEF NapiIInv, RtnlInv, NapiInv, IrqInv, LineBalanced, Resizing, Goto, Split
  <2>4. PollInv'
    BY <1>20 DEF NapiIInv, PollInv, PolledChannelsLive, Split
  <2>5. QED
    BY <2>1, <2>2, <2>3, <2>4 DEF NapiIInv
<1>21. ASSUME NEW c \in Chan, ChanStop(c) PROVE NapiIInv'
  <2>1. Types' /\ RtnlInv'
    BY <1>21 DEF NapiIInv, Types, RtnlInv, Goto, ChanStop
  <2>2. EngineInv'
    BY <1>21, Chans DEF NapiIInv, Types, EngineInv, Goto, ChanStop
  <2>3. NapiInv' /\ IrqInv'
    BY <1>21 DEF NapiIInv, NapiInv, IrqInv, LineBalanced, Goto, ChanStop
  <2>4. PollInv'
    BY <1>21 DEF NapiIInv, PollInv, PolledChannelsLive, Goto, Process, PollRuns, ChanStop
  <2>5. QED
    BY <2>1, <2>2, <2>3, <2>4 DEF NapiIInv
<1>22. CASE UNCHANGED napiVars
  BY <1>22 DEF napiVars, NapiIInv, Types, RtnlInv, EngineInv, NapiInv, IrqInv, PollInv, LineBalanced,
     PolledChannelsLive, Pending, Present
<1>23. CASE Resplit
  BY <1>23 DEF Resplit, NapiIInv, Types, RtnlInv, EngineInv, NapiInv, IrqInv, PollInv, LineBalanced,
     PolledChannelsLive, Pending, Present
<1>24. QED
  BY <1>1, <1>2, <1>3, <1>4, <1>5, <1>6, <1>7, <1>8, <1>9, <1>10, <1>11, <1>12, <1>13, <1>14,
     <1>15, <1>16, <1>17, <1>18, <1>19, <1>20, <1>21, <1>22, <1>23 DEF NapiNext, IsrStep, PollStep, RtnlStep

\* What each actor can rely on of the others holds in every state.
THEOREM NapiInvariant == NapiSpec => []NapiIInv
BY NapiIInvInit, NapiIInvNext, PTL DEF NapiSpec

\* No interrupt is forgotten: with a user and nothing in progress, the direction is enabled at
\* the wrapper, at the interrupt line and for every channel, whichever poll or handler came last
\* and however the operations under RTNL met them.
THEOREM NothingStaysMasked == NapiSpec => []NothingMasked
<1>1. NapiIInv => NothingMasked
  BY DEF NapiIInv, EngineInv, IrqInv, LineBalanced, Pending, NothingMasked
<1>2. QED
  BY <1>1, NapiInvariant, PTL

\* The interrupt line is disabled at most once, and enabled only when it is disabled.
THEOREM LineStaysBalanced == NapiSpec => []LineBalanced
<1>1. NapiIInv => LineBalanced
  BY DEF NapiIInv, IrqInv
<1>2. QED
  BY <1>1, NapiInvariant, PTL

\* On one processor a poll never meets a channel that set_channels has destroyed.
THEOREM PolledChannelsStayLive == NapiSpec => []PolledChannelsLive
<1>1. NapiIInv => PolledChannelsLive
  BY DEF NapiIInv, PollInv, PolledChannelsLive
<1>2. QED
  BY <1>1, NapiInvariant, PTL

\* No interrupt is taken from an engine that is stopped or being stopped, though a late poll
\* enables the direction again.
THEOREM StoppedIsQuiet == NapiSpec => NoInterruptWhenStopped
<1>1. NapiIInv /\ [NapiNext]_napiVars => [Interrupt => ctlr = "active"]_napiVars
  <2>1. ASSUME NapiIInv, Interrupt PROVE ctlr = "active"
    BY <2>1 DEF NapiIInv, Types, EngineInv, Interrupt, Status
  <2>2. QED
    BY <2>1
<1>2. QED
  BY <1>1, NapiInvariant, PTL DEF NapiSpec, NoInterruptWhenStopped
=============================================================================
