----------------------------- MODULE CpswShares -----------------------------
(***************************************************************************)
(* How the transmit and receive channels share the pool of descriptors,    *)
(* the poll budget and the bandwidth of the link: weights, rates and the   *)
(* split of the pool in cpsw/my_davinci_cpdma.c, cpsw_split_res and        *)
(* cpsw_ndo_set_tx_maxrate in cpsw/my_cpsw_priv.c, and the operations that *)
(* change what is shared: the number of channels, the rings, the links.    *)
(*                                                                         *)
(* The queues are 0 .. MaxQueues - 1; transmit queue q is on the channel   *)
(* with number 7 - q, so that a loop over the channels visits the queues   *)
(* from the last to the first.  What the controller's spin lock protects   *)
(* is one step.  cpsw_split_res takes it once for each channel, and runs   *)
(* both under RTNL (thread 0) and, without RTNL, in the PHY state machine  *)
(* of a port (threads 1..N): its steps interleave.                         *)
(***************************************************************************)
EXTENDS Integers, FiniteSets

CONSTANTS
  N,          \* the ports are 1..N
  MaxQueues,  \* CPSW_MAX_QUEUES
  Pool,       \* the number of descriptors in the pool
  Rates,      \* the rates in Mb/s that are asked for, but for 0
  Granted,    \* [Rates -> the rate in Kb/s that the shaper is set to]
  LinkSpeeds, \* the speeds of a link in Mb/s
  Rings,      \* the sizes of receive ring that are asked for
  Faults      \* can the ethtool operations fail?

ASSUME NumAssumption ==
  /\ N \in Nat \ {0} /\ MaxQueues \in Nat \ {0}
  /\ Pool \in Nat /\ Pool >= 2 * MaxQueues
  /\ Rings \subseteq MaxQueues..(Pool - MaxQueues)
  /\ Rates \subseteq Nat \ {0} /\ LinkSpeeds \subseteq Nat \ {0}
  /\ Faults \in BOOLEAN
\* cpdma_chan_set_factors never settles for less than it was asked for.
ASSUME GrantAssumption == Granted \in [Rates -> Nat] /\ \A r \in Rates : Granted[r] >= 1000 * r

Port == 1..N
Queue == 0..(MaxQueues - 1)
Thread == 0..N
NapiWeight == 64

VARIABLES
  txnum, rxnum,     \* tx_ch_num and rx_ch_num
  rate,             \* [Queue -> rate of its channel in Kb/s, 0 if not limited]
  weight,           \* [Queue -> weight of its channel in percent]
  desc, rxdesc,     \* [Queue -> desc_num of its transmit, receive channel]
  numRx,            \* num_rx_desc of the controller
  budget, rxbudget, \* [Queue -> budget of its vector]
  active,           \* is the engine ACTIVE?
  rlim, prio,       \* the registers TX_RLIM (as a set of queues), TX_PRIO_FIXED
  up,               \* the ports whose interface is open
  link,             \* [Port -> speed of its PHY, 0 if there is no link]
  speed,            \* cpsw->speed
  shown,            \* [Port -> [Queue -> tx_maxrate]]
  op, wantTx, wantRx, todo, \* the operation that holds RTNL
  split,            \* [Thread -> where it is in cpsw_split_res]
  disturbed         \* has anything interfered with the last cpsw_split_res?

chanVars == <<txnum, rxnum, rate, weight, desc, rxdesc, numRx>>
regVars == <<active, rlim, prio>>
budgetVars == <<budget, rxbudget>>
linkVars == <<up, link, speed>>
opVars == <<op, wantTx, wantRx, todo>>
vars == <<chanVars, regVars, budgetVars, linkVars, shown, opVars, split, disturbed>>

TxQueue == 0..(txnum - 1)
Limited(f) == {q \in Queue : f[q] > 0}
Total(f, n) ==
  LET sum[k \in 0..n] == IF k = 0 THEN 0 ELSE sum[k - 1] + f[k - 1]
  IN  sum[n]
Zero == [q \in Queue |-> 0]

-----------------------------------------------------------------------------
(* cpdma_chan_split_pool.                                                  *)

\* The shares of n transmit channels with weights w, rounded down.
RoundedShares(w, n, total) ==
  LET free == {q \in 0..(n - 1) : w[q] = 0}
      rest == total - (Total(w, n) * total) \div 100
  IN [q \in Queue |-> IF q >= n THEN 0
                      ELSE IF q \in free THEN rest \div Cardinality(free)
                      ELSE (w[q] * total) \div 100]

\* The remainder goes to the largest, the first of these in the order of the
\* channels, unless every share is 0.
TxShares_NoRest(w, n, total) == RoundedShares(w, n, total)
TxShares(w, n, total) ==
  LET share == RoundedShares(w, n, total)
      largest == {q \in 0..(n - 1) : share[q] > 0 /\ \A p \in 0..(n - 1) : share[p] <= share[q]}
  IN [q \in Queue |-> IF q \in largest /\ \A p \in largest : p <= q
                        THEN share[q] + total - Total(share, n)
                        ELSE share[q]]

\* Receive channels have no weight.
RxShares(n, total) ==
  [c \in Queue |-> IF c >= n THEN 0
                   ELSE (total \div n) + IF c = 0 /\ total >= n THEN total % n ELSE 0]

\* It is refused, and the shares stay, when the weights exceed 100 %.  A new
\* channel has no descriptors before, a destroyed one takes its own with it.
Fits(w, n) == Total(w, n) <= 100
SplitPool(w, ntx, nrx, rx) ==
  IF Fits(w, ntx)
    THEN desc' = TxShares(w, ntx, Pool - rx) /\ rxdesc' = RxShares(nrx, rx)
    ELSE /\ desc' = [q \in Queue |-> IF q < ntx THEN desc[q] ELSE 0]
         /\ rxdesc' = [c \in Queue |-> IF c < nrx THEN rxdesc[c] ELSE 0]

Init ==
  /\ txnum = 1 /\ rxnum = 1
  /\ rate = Zero /\ weight = Zero
  /\ numRx = Pool - Pool \div 2
  /\ desc = TxShares(Zero, 1, Pool \div 2) /\ rxdesc = RxShares(1, numRx)
  /\ budget = [q \in Queue |-> IF q = 0 THEN NapiWeight ELSE 0] /\ rxbudget = budget
  /\ active = FALSE /\ rlim = {} /\ prio = FALSE
  /\ up = {} /\ link = [n \in Port |-> 0] /\ speed = 0
  /\ shown = [n \in Port |-> Zero]
  /\ op = "none" /\ wantTx = 0 /\ wantRx = 0 /\ todo = {}
  /\ split = [t \in Thread |-> [pc |-> "idle"]]
  /\ disturbed = FALSE

-----------------------------------------------------------------------------
(* cpsw_split_res.                                                         *)

Busy == {t \in Thread : split[t].pc # "idle"}
Start(t) == split' = [split EXCEPT ![t] = [pc |-> "measure"]]

\* Division as in C; the kernel reports a division by zero and goes on with 0.
Quotient(a, b) == IF b = 0 THEN 0 ELSE IF a < 0 THEN -((-a) \div b) ELSE a \div b

\* "split proportionally according next potential max speed".
Potential(consumed) ==
  LET m == 1000 * speed
  IN IF m >= consumed THEN m ELSE IF 10 * m >= consumed THEN 10 * m ELSE 100 * m

\* More than any rate: a difference that has wrapped around, over the number of
\* channels.
Huge == 500000000

\* The first loop: what the limited channels consume, and what is left for each
\* of the others.
Measure(t) ==
  LET limited == Limited(rate)
      free == txnum - Cardinality(limited)
      consumed == Total(rate, txnum)
      mixed == free > 0 /\ limited # {}
      max == IF mixed THEN Potential(consumed) ELSE consumed
      each == IF mixed THEN Quotient(NapiWeight - Quotient(consumed * NapiWeight, max), free)
              ELSE IF free > 0 THEN NapiWeight \div txnum ELSE 0
      big == IF ~mixed THEN 0 ELSE IF max < consumed THEN Huge ELSE (max - consumed) \div free
  IN /\ split[t].pc = "measure"
     /\ split' = [split EXCEPT ![t] = [pc |-> "share", q |-> 0, max |-> max, each |-> each,
                                       big |-> big, bigQ |-> 0, left |-> NapiWeight]]
     /\ disturbed' = (Busy # {t})
     /\ UNCHANGED <<chanVars, regVars, budgetVars, linkVars, shown, opVars>>

AtLeastOne(x) == IF x = 0 THEN 1 ELSE x

\* The budget of a queue.
Share(t) ==
  LET s == split[t]
      r == rate[s.q]
      b == IF r > 0 THEN AtLeastOne(Quotient(r * NapiWeight, s.max)) ELSE s.each
      w == IF r > 0 THEN AtLeastOne(Quotient(r * 100, s.max)) ELSE 0
      larger == IF r > 0 THEN r > s.big ELSE s.bigQ = 0
  IN /\ s.pc = "share" /\ s.q < txnum
     /\ budget' = [budget EXCEPT ![s.q] = b]
     /\ split' = [split EXCEPT ![t] = [pc |-> "weigh", q |-> s.q, max |-> s.max, each |-> s.each,
                                       big |-> IF r > s.big THEN r ELSE s.big,
                                       bigQ |-> IF larger THEN s.q ELSE s.bigQ,
                                       left |-> s.left - b, w |-> w]]
     /\ UNCHANGED <<chanVars, regVars, rxbudget, linkVars, shown, opVars, disturbed>>

\* cpdma_chan_set_weight.
Weigh(t) ==
  LET s == split[t]
      new == [weight EXCEPT ![s.q] = s.w]
  IN /\ s.pc = "weigh"
     /\ IF s.q < txnum /\ weight[s.q] # s.w
          THEN weight' = new /\ SplitPool(new, txnum, rxnum, numRx)
          ELSE UNCHANGED <<weight, desc, rxdesc>>
     /\ split' = [split EXCEPT ![t] = [pc |-> "share", q |-> s.q + 1, max |-> s.max,
                                       each |-> s.each, big |-> s.big, bigQ |-> s.bigQ,
                                       left |-> s.left]]
     /\ UNCHANGED <<txnum, rxnum, rate, numRx, regVars, budgetVars, linkVars, shown, opVars,
                    disturbed>>

\* What is left of the budget, and the budgets of the receive channels.
RxBudgets == [c \in Queue |-> IF c >= rxnum THEN rxbudget[c]
                               ELSE (NapiWeight \div rxnum)
                                    + IF c = 0 THEN NapiWeight % rxnum ELSE 0]
Rest_Lost(t) ==
  LET s == split[t]
  IN /\ s.pc = "share" /\ s.q >= txnum
     /\ rxbudget' = RxBudgets
     /\ split' = [split EXCEPT ![t] = [pc |-> "idle"]]
     /\ UNCHANGED <<budget, chanVars, regVars, linkVars, shown, opVars, disturbed>>
Rest(t) ==
  LET s == split[t]
  IN /\ s.pc = "share" /\ s.q >= txnum
     /\ budget' = [budget EXCEPT ![s.bigQ] = @ + s.left]
     /\ rxbudget' = RxBudgets
     /\ split' = [split EXCEPT ![t] = [pc |-> "idle"]]
     /\ UNCHANGED <<chanVars, regVars, linkVars, shown, opVars, disturbed>>

\* cpsw_need_resplit, with the links l.
CommonSpeed(l) == Total([i \in 0..(N - 1) |-> l[i + 1]], N)
SpeedChanged(l) == CommonSpeed(l) \notin {0, speed}
Resplit(t, l) ==
  /\ speed' = IF SpeedChanged(l) THEN CommonSpeed(l) ELSE speed
  /\ IF SpeedChanged(l) /\ Limited(rate) # {} /\ Cardinality(Limited(rate)) # txnum
       THEN Start(t)
       ELSE UNCHANGED split

-----------------------------------------------------------------------------
(* The engine.                                                             *)

\* cpdma_ctlr_start: the soft reset clears the shapers, which are set again.
Started ==
  /\ active' = TRUE
  /\ rlim' = Limited(rate)
  /\ prio' = \E q \in TxQueue : rate[q] = 0
CtlrStart == IF active THEN UNCHANGED regVars ELSE Started

\* cpdma_ctlr_stop: from now on the control registers cannot be read, and the
\* next start resets them.
CtlrStop == active' = FALSE /\ rlim' = {} /\ prio' = FALSE

-----------------------------------------------------------------------------
(* cpsw_ndo_set_tx_maxrate.                                                *)

RtnlFree == op = "none" /\ split[0].pc = "idle"

\* cpdma_chan_fit_rate: the limited queues are the first ones.
FitRate(f) == \A q \in TxQueue : f[q] > 0 => \A p \in 0..q : f[p] > 0

\* cpdma_chan_set_rate, which takes a rate that is the same for an error, unless
\* it is 0.  The control registers refuse a write to an engine that is not ACTIVE.
SetRate_AnyOrder(q, r) ==
  LET new == [rate EXCEPT ![q] = IF r = 0 THEN 0 ELSE Granted[r]]
  IN IF rate[q] = 1000 * r
       THEN r = 0 /\ UNCHANGED <<rate, rlim, prio>>
       ELSE /\ rate' = new
            /\ rlim' = IF active THEN Limited(new) ELSE rlim
            /\ prio' = IF active THEN Limited(new) # {} ELSE prio
SetRate(q, r) ==
  LET new == [rate EXCEPT ![q] = IF r = 0 THEN 0 ELSE Granted[r]]
  IN IF rate[q] = 1000 * r
       THEN r = 0 /\ UNCHANGED <<rate, rlim, prio>>
       ELSE /\ FitRate(new)
            /\ rate' = new
            /\ rlim' = IF active THEN Limited(new) ELSE rlim
            /\ prio' = IF active THEN Limited(new) # {} ELSE prio

SetMaxrate(n, q, r) ==
  /\ RtnlFree
  /\ q \in TxQueue
  /\ shown[n][q] # r
  /\ r <= speed
  /\ SetRate(q, r)
  /\ shown' = [m \in Port |-> [shown[m] EXCEPT ![q] = r]]
  /\ Start(0)
  /\ disturbed' = TRUE
  /\ UNCHANGED <<txnum, rxnum, weight, desc, rxdesc, numRx, active, budgetVars, linkVars, opVars>>

-----------------------------------------------------------------------------
(* cpsw_set_channels_common, for the interface of port n, and              *)
(* cpsw_set_ringparam.                                                     *)

SetChannels(tx, rx) ==
  /\ RtnlFree
  /\ op' = "channels" /\ wantTx' = tx /\ wantRx' = rx
  /\ CtlrStop
  /\ UNCHANGED <<chanVars, budgetVars, linkVars, shown, todo, split, disturbed>>

\* cpsw_update_channels_res resets the tx_maxrate of the queue with the number
\* of the new channel, be it a transmit or a receive channel.
ResetMaxrate(n, q) == shown' = [shown EXCEPT ![n][q] = 0]

ChangeRx(n) ==
  /\ op = "channels" /\ rxnum # wantRx
  /\ rxnum' = IF rxnum < wantRx THEN rxnum + 1 ELSE rxnum - 1
  /\ IF rxnum < wantRx THEN ResetMaxrate(n, rxnum) ELSE UNCHANGED shown
  /\ SplitPool(weight, txnum, rxnum', numRx)
  /\ disturbed' = TRUE
  /\ UNCHANGED <<txnum, rate, weight, numRx, regVars, budgetVars, linkVars, opVars, split>>

ChangeTx(n) ==
  /\ op = "channels" /\ rxnum = wantRx /\ txnum # wantTx
  /\ txnum' = IF txnum < wantTx THEN txnum + 1 ELSE txnum - 1
  /\ IF txnum < wantTx THEN ResetMaxrate(n, txnum) ELSE UNCHANGED shown
  /\ rate' = [q \in Queue |-> IF q < txnum' THEN rate[q] ELSE 0]
  /\ weight' = [q \in Queue |-> IF q < txnum' THEN weight[q] ELSE 0]
  /\ SplitPool(weight', txnum', rxnum, numRx)
  /\ disturbed' = TRUE
  /\ UNCHANGED <<rxnum, numRx, regVars, budgetVars, linkVars, opVars, split>>

ChannelsSet ==
  /\ op = "channels" /\ rxnum = wantRx /\ txnum = wantTx
  /\ op' = "resume" /\ wantTx' = 0 /\ wantRx' = 0
  /\ Start(0)
  /\ UNCHANGED <<chanVars, regVars, budgetVars, linkVars, shown, todo, disturbed>>

\* cpsw_fail.
Fail ==
  /\ op' = IF up = {} THEN "none" ELSE "close"
  /\ todo' = up /\ wantTx' = 0 /\ wantRx' = 0

\* A channel cannot be created, and the queue that was to have it has lost its
\* tx_maxrate all the same; or the stack refuses the numbers of queues; or there
\* are no pools or pages for the receive channels.
ChannelsFail(n) ==
  /\ Faults
  /\ \/ op = "channels" /\ rxnum < wantRx /\ ResetMaxrate(n, rxnum)
     \/ op = "channels" /\ rxnum = wantRx /\ txnum < wantTx /\ ResetMaxrate(n, txnum)
     \/ op = "channels" /\ rxnum = wantRx /\ txnum = wantTx /\ up # {} /\ UNCHANGED shown
     \/ op = "resume" /\ split[0].pc = "idle" /\ up # {} /\ UNCHANGED shown
  /\ Fail
  /\ disturbed' = TRUE
  /\ UNCHANGED <<chanVars, regVars, budgetVars, linkVars, split>>

Resume ==
  /\ op = "resume" /\ split[0].pc = "idle"
  /\ op' = "none"
  /\ IF up # {} THEN CtlrStart ELSE UNCHANGED regVars
  /\ UNCHANGED <<chanVars, budgetVars, linkVars, shown, wantTx, wantRx, todo, split, disturbed>>

\* cpdma_set_num_rx_descs: a split that is refused leaves the rings as they were.
SetRing(k) ==
  /\ RtnlFree
  /\ k # numRx
  /\ numRx' = IF Fits(weight, txnum) THEN k ELSE numRx
  /\ SplitPool(weight, txnum, rxnum, numRx')
  /\ IF up # {} THEN Started ELSE UNCHANGED regVars
  /\ UNCHANGED <<txnum, rxnum, rate, weight, budgetVars, linkVars, shown, opVars, split, disturbed>>

\* The pools or pages for the new rings cannot be had.
RingFails ==
  /\ Faults /\ RtnlFree /\ up # {}
  /\ CtlrStop
  /\ Fail
  /\ UNCHANGED <<chanVars, budgetVars, linkVars, shown, split, disturbed>>

-----------------------------------------------------------------------------
(* The interfaces and their links.                                         *)

Open(n) ==
  /\ RtnlFree /\ n \notin up
  /\ up' = up \cup {n}
  /\ CtlrStart
  /\ UNCHANGED <<chanVars, budgetVars, link, speed, shown, opVars, split, disturbed>>

Close(n) ==
  /\ RtnlFree /\ n \in up
  /\ op' = "close" /\ todo' = {n}
  /\ UNCHANGED <<chanVars, regVars, budgetVars, linkVars, shown, wantTx, wantRx, split, disturbed>>

\* cpsw_ndo_stop; phy_disconnect waits for the state machine of the PHY.
NdoStop(n) ==
  /\ op = "close" /\ n \in todo /\ (\A m \in todo : n <= m)
  /\ split[0].pc = "idle" /\ split[n].pc = "idle"
  /\ up' = up \ {n}
  /\ link' = [link EXCEPT ![n] = 0]
  /\ IF up' = {} THEN CtlrStop ELSE UNCHANGED regVars
  /\ Resplit(0, link')
  /\ todo' = todo \ {n}
  /\ op' = IF todo' = {} THEN "none" ELSE op
  /\ UNCHANGED <<chanVars, budgetVars, shown, wantTx, wantRx, disturbed>>

\* The PHY of a port changes its speed; cpsw_adjust_link.
AdjustLink(n, s) ==
  /\ n \in up /\ split[n].pc = "idle"
  /\ s # link[n]
  /\ link' = [link EXCEPT ![n] = s]
  /\ IF s > 0 THEN Resplit(n, link') ELSE UNCHANGED <<speed, split>>
  /\ UNCHANGED <<chanVars, regVars, budgetVars, up, shown, opVars, disturbed>>

-----------------------------------------------------------------------------
SplitRes(t) == Measure(t) \/ Share(t) \/ Weigh(t) \/ Rest(t)

Next ==
  \/ \E t \in Thread : SplitRes(t)
  \/ \E n \in Port, q \in Queue, r \in Rates \cup {0} : SetMaxrate(n, q, r)
  \/ \E tx, rx \in 1..MaxQueues : SetChannels(tx, rx)
  \/ \E n \in Port : ChangeRx(n) \/ ChangeTx(n) \/ ChannelsFail(n)
  \/ ChannelsSet \/ Resume \/ RingFails
  \/ \E k \in Rings : SetRing(k)
  \/ \E n \in Port : Open(n) \/ Close(n) \/ NdoStop(n)
  \/ \E n \in Port, s \in LinkSpeeds \cup {0} : AdjustLink(n, s)

Spec == Init /\ [][Next]_vars

-----------------------------------------------------------------------------
(* Properties.                                                             *)

\* Whoever sets weights, in whatever order, the channels never promise more
\* descriptors than there are, and when the weights can be honoured they share
\* out all of them (or, when each share rounds to nothing, none).
PoolShared ==
  /\ Total(desc, txnum) <= Pool - numRx /\ Total(rxdesc, rxnum) <= numRx
  /\ Fits(weight, txnum) =>
       /\ Total(desc, txnum) \in {0, Pool - numRx}
       /\ Total(rxdesc, rxnum) = numRx

\* Across changes of rates, channels and restarts the shapers that are on in an
\* ACTIVE engine are those of the limited queues, and these are the first ones.
ShapersMatch ==
  /\ FitRate(rate)
  /\ active => rlim = Limited(rate)

\* When nothing has interfered with the last cpsw_split_res, the budgets share
\* out the NAPI weight, and the weights follow the rates.
BudgetsAddUp ==
  Busy = {} /\ op = "none" /\ ~disturbed =>
    /\ Total(budget, txnum) = NapiWeight /\ Total(rxbudget, rxnum) = NapiWeight
    /\ \A q \in TxQueue : (weight[q] > 0) = (rate[q] > 0)

=============================================================================
