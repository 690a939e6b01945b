------------------------------ MODULE CpswIfc ------------------------------
(***************************************************************************)
(* The life cycle of the network interfaces: open, stop, system suspend    *)
(* and resume, and the two ethtool operations that stop the DMA, change    *)
(* its channels or rings, and start it again.  cpsw/eth.c,                 *)
(* cpsw/my_cpsw_ethtool.c and cpsw/my_cpsw_priv.c; eth/support.c has the   *)
(* same open and stop, and none of the others.                             *)
(*                                                                         *)
(* The interfaces share one CPDMA engine, the NAPI contexts and the page   *)
(* pools of the receive channels: the first to open sets them up, the last *)
(* to stop tears them down.  All the operations run under RTNL, one at a   *)
(* time, and several of them visit the interfaces in turn: op is the       *)
(* operation that holds RTNL, todo the interfaces it has yet to visit.     *)
(* The link, the stack's transmissions and their completions are not under *)
(* RTNL and interleave with its steps.                                     *)
(*                                                                         *)
(* Ring and pool sizes are abstracted to empty, part and full.             *)
(***************************************************************************)
EXTENDS Integers, FiniteSets

CONSTANTS
  N,             \* the interfaces are 1..N, in the order of cpsw->slaves
  MaxRx,         \* the largest number of receive channels
  OpenFaults,    \* what can fail in an open ...
  ResumeFaults,  \* ... in the opens of a resume ...
  EthtoolFaults, \* ... and in the ethtool operations
  Links          \* can the link of an interface go up and down?

ASSUME NumAssumption == N \in Nat \ {0} /\ MaxRx \in Nat \ {0}
ASSUME FaultAssumption ==
  /\ OpenFaults \subseteq {"pm", "queues", "pool", "fill"}
  /\ ResumeFaults \subseteq {"pm", "pool", "fill"}
  /\ EthtoolFaults \subseteq {"descs", "create", "queues", "pool", "fill"}
ASSUME LinkAssumption == Links \in BOOLEAN

Ifc == 1..N
Chan == 1..MaxRx

VARIABLES
  running,  \* interfaces that are up, for the stack
  asleep,   \* between a suspend and the resume
  broken,   \* has runtime PM failed to power the device?
  usage,    \* usage_count
  napi,     \* are the two NAPI contexts enabled?
  irq,      \* is the interrupt enabled in the wrapper?
  dma,      \* is the CPDMA engine ACTIVE?
  rxch,     \* rx_ch_num
  pools,    \* receive channels that have a page pool
  ring,     \* [Chan -> how many descriptors are on the channel]
  phy,      \* interfaces that have their PHY connected
  txoff,    \* interfaces whose transmit queues are stopped
  tx,       \* interfaces with packets on a transmit channel
  op, todo, \* the operation under RTNL, and the interfaces yet to visit
  err,      \* is it in the error path of cpsw_ndo_open?
  want      \* the number of receive channels asked for

opVars == <<op, todo, err, want>>
devVars == <<usage, napi, irq, dma, rxch, pools, ring>>
vars == <<running, asleep, broken, devVars, phy, txoff, tx, opVars>>

Empty == [c \in Chan |-> "empty"]

Init ==
  /\ running = {} /\ asleep = FALSE /\ broken = FALSE
  /\ usage = 0 /\ napi = FALSE /\ irq = FALSE /\ dma = FALSE
  /\ rxch = 1 /\ pools = {} /\ ring = Empty
  /\ phy = {} /\ txoff = {} /\ tx = {}
  /\ op = "none" /\ todo = {} /\ err = FALSE /\ want = 1

\* The loops over cpsw->slaves.
Current(n) == n \in todo /\ \A m \in todo : n <= m
Visited(n) ==
  /\ todo' = todo \ {n}
  /\ op' = IF todo = {n} THEN "none" ELSE op
  /\ err' = FALSE

Begin(o, ifcs) ==
  /\ op' = IF ifcs = {} THEN "none" ELSE o
  /\ todo' = ifcs
  /\ UNCHANGED <<err, want>>

-----------------------------------------------------------------------------
(* Shared pieces.                                                          *)

\* cpdma_ctlr_stop, with "stopped" the queues that have been stopped before:
\* it does nothing unless the engine is ACTIVE.  What is on the channels is
\* completed, and cpsw_tx_handler wakes the queue of every packet's device.
DrainWakes(stopped) == IF dma THEN stopped \ tx ELSE stopped
CtlrStop(stopped) ==
  /\ dma' = FALSE
  /\ ring' = IF dma THEN Empty ELSE ring
  /\ tx' = IF dma THEN {} ELSE tx
  /\ txoff' = DrainWakes(stopped)

\* cpsw_fill_rx_channels on k channels that hold r.  It fails when no page can
\* be allocated, and at a channel that still has descriptors: that one is full
\* before all of its pages are on it.
Fill(r, k, faults, ok) ==
  LET left == {c \in 1..k : r[c] # "empty"}
      upTo(c, a) == [d \in Chan |-> IF d < c THEN "full" ELSE IF d = c THEN a ELSE r[d]]
  IN IF ok
       THEN left = {} /\ ring' = [d \in Chan |-> IF d <= k THEN "full" ELSE r[d]]
       ELSE \E c \in 1..k :
              /\ \A d \in left : c <= d
              /\ \/ c \in left /\ ring' = upTo(c, "full")
                 \/ "fill" \in faults /\ ring' \in {upTo(c, a) : a \in {r[c], "part"}}

-----------------------------------------------------------------------------
(* cpsw_ndo_open.                                                          *)

Faults == IF op = "resume" THEN ResumeFaults ELSE OpenFaults
Opening(n) == op \in {"open", "resume"} /\ ~err /\ Current(n)

\* Once runtime PM has failed to resume the device it refuses every request.
Powered == usage > 0 \/ ~broken

\* The early returns.  A failed open leaves the interface down; cpsw_resume
\* does not look at what cpsw_ndo_open returns.
OpenRefused(n) ==
  /\ Opening(n)
  /\ \/ usage = 0 /\ (broken \/ "pm" \in Faults) /\ broken' = TRUE
     \/ Powered /\ "queues" \in Faults /\ UNCHANGED broken
  /\ running' = IF op = "open" THEN running \ {n} ELSE running
  /\ Visited(n)
  /\ UNCHANGED <<asleep, devVars, phy, txoff, tx, want>>

\* The jump to err_cleanup, where cpsw_ndo_stop begins by stopping the queues.
OpenFails(n) ==
  /\ Opening(n) /\ Powered
  /\ usage = 0
  /\ \/ "pool" \in Faults /\ pools' = pools \ (1..rxch) /\ UNCHANGED ring
     \/ pools' = pools \cup (1..rxch) /\ Fill(ring, rxch, Faults, FALSE)
  /\ txoff' = txoff \cup {n}
  /\ err' = TRUE
  /\ UNCHANGED <<running, asleep, broken, usage, napi, irq, dma, rxch, phy, tx,
                 op, todo, want>>

OpenSucceeds(n) ==
  /\ Opening(n) /\ Powered
  /\ IF usage = 0
       THEN /\ pools' = pools \cup (1..rxch)
            /\ Fill(ring, rxch, Faults, TRUE)
            /\ napi' = TRUE
       ELSE UNCHANGED <<pools, ring, napi>>
  /\ dma' = TRUE /\ irq' = TRUE
  /\ usage' = usage + 1
  /\ phy' = phy \cup {n}
  /\ Visited(n)
  /\ UNCHANGED <<running, asleep, broken, rxch, txoff, tx, want>>

-----------------------------------------------------------------------------
(* cpsw_ndo_stop.                                                          *)

\* napi_disable waits for ever when the NAPI context is not enabled.
TearDown_KeepDma(n) ==
  /\ napi /\ napi' = FALSE
  /\ irq' = FALSE
  /\ pools' = pools \ (1..rxch)
  /\ txoff' = txoff \cup {n}
  /\ UNCHANGED <<dma, ring, tx>>
TearDown(n) ==
  /\ napi /\ napi' = FALSE
  /\ irq' = FALSE
  /\ CtlrStop(txoff \cup {n})
  /\ pools' = pools \ (1..rxch)

LastUser_OffByOne == usage <= 2
LastUser == usage <= 1
NdoStop(n) ==
  /\ op \in {"close", "suspend", "fail"} \/ err
  /\ Current(n)
  /\ IF LastUser
       THEN TearDown(n)
       ELSE txoff' = txoff \cup {n} /\ UNCHANGED <<napi, irq, dma, ring, tx, pools>>
  /\ usage' = usage - 1
  /\ phy' = phy \ {n}
  /\ running' = IF op \in {"suspend", "resume"} THEN running ELSE running \ {n}
  /\ Visited(n)
  /\ UNCHANGED <<asleep, broken, rxch, want>>

-----------------------------------------------------------------------------
(* What takes RTNL: the stack's open and close, and system sleep.          *)

RtnlFree == op = "none"

Open(n) ==
  /\ RtnlFree /\ ~asleep
  /\ n \notin running
  /\ running' = running \cup {n}
  /\ Begin("open", {n})
  /\ UNCHANGED <<asleep, broken, devVars, phy, txoff, tx>>

Close(n) ==
  /\ RtnlFree /\ ~asleep
  /\ n \in running
  /\ Begin("close", {n})
  /\ UNCHANGED <<running, asleep, broken, devVars, phy, txoff, tx>>

Suspend ==
  /\ RtnlFree /\ ~asleep
  /\ asleep' = TRUE
  /\ Begin("suspend", running)
  /\ UNCHANGED <<running, broken, devVars, phy, txoff, tx>>

Resume_All ==
  /\ RtnlFree /\ asleep
  /\ asleep' = FALSE
  /\ Begin("resume", Ifc)
  /\ UNCHANGED <<running, broken, devVars, phy, txoff, tx>>
Resume ==
  /\ RtnlFree /\ asleep
  /\ asleep' = FALSE
  /\ Begin("resume", running)
  /\ UNCHANGED <<running, broken, devVars, phy, txoff, tx>>

-----------------------------------------------------------------------------
(* cpsw_set_channels_common and cpsw_set_ringparam.                        *)

\* cpsw_suspend_data_pass, after which "want" channels are to be set up, or
\* rings of another size.
SuspendDataPass(o, k) ==
  /\ RtnlFree /\ ~asleep
  /\ Powered
  /\ irq' = FALSE
  /\ CtlrStop(txoff \cup running)
  /\ op' = o /\ want' = k
  /\ UNCHANGED <<running, asleep, broken, usage, napi, rxch, pools, phy, todo, err>>

\* cpsw_fail: close every interface.
Fail_FirstOnly == Begin("fail", {n \in running : \A m \in running : n <= m})
Fail == Begin("fail", running)

\* A channel that is destroyed takes its descriptors with it.
Kept(k) == [c \in Chan |-> IF c <= k THEN ring[c] ELSE "empty"]

\* cpsw_resume_data_pass with k receive channels.
ResumeDataPass(k) ==
  \/ /\ IF usage > 0
          THEN Fill(Kept(k), k, EthtoolFaults, TRUE) /\ dma' = TRUE /\ irq' = TRUE
          ELSE ring' = Kept(k) /\ UNCHANGED <<dma, irq>>
     /\ txoff' = txoff \ running
     /\ Begin("none", {})
  \/ /\ usage > 0
     /\ Fill(Kept(k), k, EthtoolFaults, FALSE)
     /\ Fail
     /\ UNCHANGED <<dma, irq, txoff>>

NewPools == want # rxch /\ usage > 0

ChannelsFail ==
  /\ op = "channels"
  /\ \/ /\ "create" \in EthtoolFaults
        /\ \/ want > rxch /\ rxch' \in rxch..(want - 1)
           \/ rxch' = want           \* a transmit channel
        /\ UNCHANGED pools
     \/ /\ "queues" \in EthtoolFaults /\ running # {}
        /\ rxch' = want
        /\ UNCHANGED pools
     \/ /\ "pool" \in EthtoolFaults /\ NewPools
        /\ rxch' = want
        /\ pools' = pools \ (1..want)
  /\ ring' = Kept(rxch')
  /\ Fail
  /\ UNCHANGED <<running, asleep, broken, usage, napi, irq, dma, phy, txoff, tx>>

ChannelsSet ==
  /\ op = "channels"
  /\ rxch' = want
  /\ pools' = IF NewPools THEN pools \cup (1..want) ELSE pools
  /\ ResumeDataPass(want)
  /\ UNCHANGED <<running, asleep, broken, usage, napi, phy, tx>>

RingFails ==
  /\ op = "ring"
  /\ "pool" \in EthtoolFaults /\ usage > 0
  /\ pools' = pools \ (1..rxch)
  /\ Fail
  /\ UNCHANGED <<running, asleep, broken, usage, napi, irq, dma, rxch, ring, phy,
                 txoff, tx>>

\* When the split of the descriptors is refused, the old rings are resumed.
RingSet ==
  /\ op = "ring"
  /\ \/ "descs" \in EthtoolFaults /\ UNCHANGED pools
     \/ pools' = IF usage > 0 THEN pools \cup (1..rxch) ELSE pools
  /\ ResumeDataPass(rxch)
  /\ UNCHANGED <<running, asleep, broken, usage, napi, rxch, phy, tx>>

-----------------------------------------------------------------------------
(* Outside RTNL.                                                           *)

\* cpsw_adjust_link, from the PHY state machine.
LinkUp(n) ==
  /\ Links /\ n \in phy
  /\ txoff' = txoff \ {n}
  /\ UNCHANGED <<running, asleep, broken, devVars, phy, tx, opVars>>

LinkDown(n) ==
  /\ Links /\ n \in phy
  /\ txoff' = txoff \cup {n}
  /\ UNCHANGED <<running, asleep, broken, devVars, phy, tx, opVars>>

Xmit(n) ==
  /\ n \in running /\ n \notin txoff
  /\ dma
  /\ tx' = tx \cup {n}
  /\ UNCHANGED <<running, asleep, broken, devVars, phy, txoff, opVars>>

\* The last packet of an interface completes: the poller calls cpsw_tx_handler.
Sent(n) ==
  /\ n \in tx
  /\ dma /\ irq /\ napi
  /\ tx' = tx \ {n}
  /\ txoff' = txoff \ {n}
  /\ UNCHANGED <<running, asleep, broken, devVars, phy, opVars>>

-----------------------------------------------------------------------------
NdoOpen(n) == OpenRefused(n) \/ OpenFails(n) \/ OpenSucceeds(n)
Reconfigure == ChannelsFail \/ ChannelsSet \/ RingFails \/ RingSet

Next ==
  \/ \E n \in Ifc : Open(n) \/ Close(n) \/ NdoOpen(n) \/ NdoStop(n)
  \/ Suspend \/ Resume
  \/ \E k \in Chan : SuspendDataPass("channels", k)
  \/ SuspendDataPass("ring", want)
  \/ Reconfigure
  \/ \E n \in Ifc : LinkUp(n) \/ LinkDown(n) \/ Xmit(n) \/ Sent(n)

Spec == Init /\ [][Next]_vars

\* Whoever holds RTNL goes on.
Fairness ==
  /\ \A n \in Ifc : WF_vars(NdoOpen(n)) /\ WF_vars(NdoStop(n))
  /\ WF_vars(Reconfigure)

FairSpec == Spec /\ Fairness

-----------------------------------------------------------------------------
(* Properties.                                                             *)

\* Whenever RTNL is free, usage_count is the number of interfaces that are up,
\* but for a sleep and for a device that runtime PM could not power again: the
\* operations that visit all the interfaces keep open and stop paired.
UsageCounted ==
  RtnlFree => usage = IF asleep \/ broken THEN 0 ELSE Cardinality(running)

\* The shared resources are there exactly as long as somebody uses them, and a
\* user is served: every channel has its page pool and a full ring.
Served ==
  RtnlFree =>
    /\ napi = (usage > 0)
    /\ dma = (usage > 0)
    /\ usage > 0 => /\ irq
                    /\ \A c \in 1..rxch : c \in pools /\ ring[c] = "full"
    /\ usage = 0 => ring = Empty

\* A page pool outlives the pages on the ring of its channel, in the middle of
\* an operation too.
PoolOutlivesPages == \A c \in Chan : ring[c] # "empty" => c \in pools

\* Every operation under RTNL ends and releases it, except a stop when there is
\* no user, which waits for NAPI for ever: the error path of a first open, and
\* the stop of an interface that a resume could not open.
StopWithoutUser == usage = 0 /\ (op \in {"close", "suspend", "fail"} \/ err)
RtnlReleased == ~RtnlFree ~> (RtnlFree \/ StopWithoutUser)

=============================================================================
