----------------------------- MODULE CpswNapi -----------------------------
(***************************************************************************)
(* NAPI and the interrupts: the interrupt handler masks its direction in   *)
(* the wrapper and schedules the poll, the poll takes packets off the      *)
(* channels and enables the interrupt again.  Meanwhile the operations     *)
(* under RTNL enable and disable NAPI, the interrupts and the engine, and  *)
(* create and destroy channels.  cpsw/my_cpsw_priv.c, with the callers in  *)
(* cpsw/eth.c and cpsw/my_cpsw_ethtool.c; eth/support.c has the same       *)
(* handlers and polls.                                                     *)
(*                                                                         *)
(* The receive and the transmit direction do not touch each other: a       *)
(* behaviour is about one of them.  The receive status is scanned from bit *)
(* 0 up, the transmit status from bit 7 down, where vector c is channel    *)
(* 7 - c: either way the vectors are visited in order.                     *)
(* board says on which machine: one or several processors, or the early    *)
(* AM33xx ("quirk", one processor) where the interrupt line must be        *)
(* disabled as well.                                                       *)
(***************************************************************************)
EXTENDS Integers, FiniteSets, FiniteSetsExt

CONSTANTS
  MaxCh,   \* the largest number of channels
  MaxWork, \* bound: packets waiting on a channel
  Budget,  \* NAPI_POLL_WEIGHT
  EINVAL

ASSUME BoundAssumption ==
  /\ MaxCh \in 1..8 /\ MaxWork \in Nat \ {0}
  /\ Budget \in Nat \ {0} /\ Budget >= MaxCh
  /\ EINVAL \in Nat \ {0}

Chan == 0..(MaxCh - 1)

VARIABLES
  board,       \* chosen at the start
  users,       \* usage_count
  ctlr,        \* the state of the CPDMA engine
  chan,        \* [Chan -> "none", or the state of the channel]
  mask,        \* channels whose interrupt is enabled in the CPDMA
  share,       \* [Chan -> the budget of its vector]
  work,        \* [Chan -> packets that the hardware has completed]
  en,          \* is the direction enabled in the wrapper (rx_en, tx_en)?
  off, flag,   \* the interrupt line's disable depth; rx_irq_disabled
  isr,         \* the interrupt handler: "none", "masked", "flagged"
  napi,        \* the NAPI context: "off", "idle", "scheduled", "polling"
  missed,      \* has it been scheduled again while scheduled?
  todo, num,   \* in a poll: the channels still to visit, the count
  rearm,       \* polls that have completed NAPI and not yet the rest
  op,          \* what the thread under RTNL does next
  want         \* the number of channels it is to set

irqVars == <<en, off, flag>>
pollVars == <<napi, missed, todo, num>>
chanVars == <<ctlr, chan, mask, work, share>>
napiVars == <<board, users, chanVars, irqVars, isr, pollVars, rearm, op, want>>

Present == {c \in Chan : chan[c] # "none"}

NapiInit ==
  /\ board \in {"one", "several", "quirk"}
  /\ users = 0 /\ ctlr = "idle"
  /\ chan = [c \in Chan |-> IF c = 0 THEN "idle" ELSE "none"]
  /\ mask = {} /\ work = [c \in Chan |-> 0]
  /\ share = [c \in Chan |-> IF c = 0 THEN Budget ELSE 0]
  /\ en = FALSE /\ off = 0 /\ flag = FALSE
  /\ isr = "none" /\ napi = "off" /\ missed = FALSE
  /\ todo = {} /\ num = 0 /\ rearm = 0
  /\ op = "none" /\ want = 1

\* On one processor the interrupt handler runs to its end, and so does the
\* poll, but for interrupts.
PollRuns == napi = "polling" \/ rearm > 0
Softirq == board = "several" \/ isr = "none"
Process == Softirq /\ (board = "several" \/ ~PollRuns)

-----------------------------------------------------------------------------
(* The hardware.                                                           *)

Arrive(c) ==
  /\ ctlr = "active" /\ chan[c] = "active"
  /\ work[c] < MaxWork
  /\ work' = [work EXCEPT ![c] = @ + 1]
  /\ UNCHANGED <<board, users, ctlr, chan, mask, share, irqVars, isr,
                 pollVars, rearm, op, want>>

\* The masked status of the direction.
Status == {c \in mask : work[c] > 0}

-----------------------------------------------------------------------------
(* cpsw_tx_interrupt and cpsw_rx_interrupt.                                *)

\* The direction is masked in the wrapper.
Interrupt ==
  /\ isr = "none" /\ en /\ off = 0
  /\ Status # {}
  /\ en' = FALSE
  /\ isr' = "masked"
  /\ UNCHANGED <<board, users, chanVars, off, flag, pollVars, rearm, op, want>>

\* On the early AM33xx the line is disabled too.
DisableLine ==
  /\ isr = "masked"
  /\ isr' = "flagged"
  /\ IF board = "quirk" THEN off' = off + 1 /\ flag' = TRUE ELSE UNCHANGED <<off, flag>>
  /\ UNCHANGED <<board, users, chanVars, en, pollVars, rearm, op, want>>

\* napi_schedule: nothing when NAPI is off or being disabled; a note when it is
\* already scheduled.
Schedule ==
  /\ isr = "flagged"
  /\ isr' = "none"
  /\ IF op = "napi_disable"
       THEN UNCHANGED <<napi, missed>>
       ELSE /\ napi' = IF napi = "idle" THEN "scheduled" ELSE napi
            /\ missed' = (missed \/ napi \in {"scheduled", "polling"})
  /\ UNCHANGED <<board, users, chanVars, irqVars, todo, num, rearm, op, want>>

-----------------------------------------------------------------------------
(* The poll: cpsw_tx_mq_poll, cpsw_rx_mq_poll, and cpsw_tx_poll,           *)
(* cpsw_rx_poll on the early AM33xx.                                       *)

\* One processor may still be in the rest of a poll when another one begins the
\* next: "several" are two.
PollBegin ==
  /\ Softirq
  /\ rearm <= IF board = "several" THEN 1 ELSE 0
  /\ napi = "scheduled"
  /\ napi' = "polling"
  /\ todo' = IF board = "quirk" THEN {0} ELSE Status
  /\ num' = 0
  /\ UNCHANGED <<board, users, chanVars, irqVars, isr, missed, rearm, op, want>>

\* cpdma_chan_process with a quota: what it returns.  A channel that has been
\* destroyed is freed memory, which at best still shows its last state.
Processed(c, quota) ==
  CASE chan[c] = "active" -> {IF work[c] < quota THEN work[c] ELSE quota}
    [] chan[c] = "none"   -> {-EINVAL, 0}
    [] OTHER              -> {-EINVAL}

Quota(c) ==
  CASE board = "quirk"          -> Budget
    [] share[c] > Budget - num -> Budget - num
    [] OTHER                    -> share[c]

PollChan_FirstOnly ==
  /\ Softirq /\ napi = "polling" /\ todo # {}
  /\ LET c == Min(todo)
     IN \E k \in Processed(c, Quota(c)) :
          /\ num' = num + k
          /\ work' = IF k > 0 THEN [work EXCEPT ![c] = @ - k] ELSE work
          /\ todo' = {}
  /\ UNCHANGED <<board, users, ctlr, chan, mask, share, irqVars, isr, napi,
                 missed, rearm, op, want>>
PollChan ==
  /\ Softirq /\ napi = "polling" /\ todo # {}
  /\ LET c == Min(todo)
     IN \E k \in Processed(c, Quota(c)) :
          /\ num' = num + k
          /\ work' = IF k > 0 THEN [work EXCEPT ![c] = @ - k] ELSE work
          /\ todo' = IF num + k >= Budget THEN {} ELSE todo \ {c}
  /\ UNCHANGED <<board, users, ctlr, chan, mask, share, irqVars, isr, napi,
                 missed, rearm, op, want>>

\* Below the budget NAPI is completed (and scheduled again if an interrupt came
\* meanwhile, which the poll does not look at), at the budget it goes on, unless
\* somebody waits in napi_disable.
PollEnd ==
  /\ Softirq /\ napi = "polling" /\ todo = {}
  /\ IF num < Budget
       THEN /\ napi' = IF missed /\ op # "napi_disable" THEN "scheduled" ELSE "idle"
            /\ missed' = FALSE
            /\ rearm' = rearm + 1
       ELSE /\ napi' = IF op = "napi_disable" THEN "idle" ELSE "scheduled"
            /\ UNCHANGED <<missed, rearm>>
  /\ num' = 0
  /\ UNCHANGED <<board, users, chanVars, irqVars, isr, todo, op, want>>

\* The rest of the poll.
Rearm_Masked ==
  /\ Softirq /\ rearm > 0
  /\ rearm' = rearm - 1
  /\ IF flag THEN flag' = FALSE /\ off' = off - 1 ELSE UNCHANGED <<flag, off>>
  /\ UNCHANGED <<board, users, chanVars, en, isr, pollVars, op, want>>
Rearm ==
  /\ Softirq /\ rearm > 0
  /\ rearm' = rearm - 1
  /\ en' = TRUE
  /\ IF flag THEN flag' = FALSE /\ off' = off - 1 ELSE UNCHANGED <<flag, off>>
  /\ UNCHANGED <<board, users, chanVars, isr, pollVars, op, want>>

-----------------------------------------------------------------------------
(* The thread under RTNL.                                                  *)

Goto(from, to) == Process /\ op = from /\ op' = to

\* cpdma_ctlr_int_ctrl: only the channels of an ACTIVE engine.
IntCtrl(on) ==
  mask' = IF ctlr # "active" THEN mask
          ELSE IF on THEN mask \cup {c \in Chan : chan[c] = "active"}
          ELSE mask \ {c \in Chan : chan[c] = "active"}

\* cpsw_ndo_open; NAPI for the first user only.
Open ==
  /\ users < 2
  /\ Goto("none", IF users = 0 THEN "napi_enable" ELSE "ctlr_start")
  /\ want' = -1
  /\ UNCHANGED <<board, users, chanVars, irqVars, isr, pollVars, rearm>>

NapiEnable ==
  /\ Goto("napi_enable", "irq_flag")
  /\ napi' = "idle" /\ missed' = FALSE
  /\ UNCHANGED <<board, users, chanVars, irqVars, isr, todo, num, rearm, want>>

EnableLine_FlagOnly ==
  /\ Goto("irq_flag", "ctlr_start")
  /\ flag' = FALSE
  /\ UNCHANGED <<board, users, chanVars, en, off, isr, pollVars, rearm, want>>
EnableLine ==
  /\ Goto("irq_flag", "ctlr_start")
  /\ IF flag THEN flag' = FALSE /\ off' = off - 1 ELSE UNCHANGED <<flag, off>>
  /\ UNCHANGED <<board, users, chanVars, en, isr, pollVars, rearm, want>>

\* cpdma_ctlr_start, which does nothing on an engine that runs.
CtlrStart ==
  /\ Goto("ctlr_start", "intr_enable")
  /\ IF ctlr = "idle"
       THEN /\ ctlr' = "active"
            /\ chan' = [c \in Chan |-> IF chan[c] = "none" THEN "none" ELSE "active"]
            /\ mask' = Present
       ELSE UNCHANGED <<ctlr, chan, mask>>
  /\ UNCHANGED <<board, users, work, share, irqVars, isr, pollVars, rearm, want>>

\* cpsw_intr_enable, the last step of an open and of a resume.
IntrEnable ==
  /\ Goto("intr_enable", "none")
  /\ en' = TRUE
  /\ IntCtrl(TRUE)
  /\ users' = IF want = -1 THEN users + 1 ELSE users
  /\ want' = 1
  /\ UNCHANGED <<board, ctlr, chan, work, share, off, flag, isr, pollVars, rearm>>

\* cpsw_ndo_stop; the last user takes everything down.
Stop ==
  /\ users > 0
  /\ IF users = 1
       THEN Goto("none", "napi_disable") /\ UNCHANGED users
       ELSE Goto("none", "none") /\ users' = users - 1
  /\ want' = -1
  /\ UNCHANGED <<board, chanVars, irqVars, isr, pollVars, rearm>>

\* napi_disable waits until NAPI is not scheduled.
NapiDisable ==
  /\ napi = "idle"
  /\ Goto("napi_disable", "intr_disable")
  /\ napi' = "off"
  /\ UNCHANGED <<board, users, chanVars, irqVars, isr, missed, todo, num, rearm, want>>

\* cpsw_intr_disable.
IntrDisable_WrapperOnly ==
  /\ Goto("intr_disable", "ctlr_stop")
  /\ en' = FALSE
  /\ UNCHANGED <<board, users, chanVars, off, flag, isr, pollVars, rearm, want>>
IntrDisable ==
  /\ Goto("intr_disable", "ctlr_stop")
  /\ en' = FALSE
  /\ IntCtrl(FALSE)
  /\ UNCHANGED <<board, users, ctlr, chan, work, share, off, flag, isr,
                 pollVars, rearm, want>>

\* cpdma_ctlr_stop: each channel in turn is torn down, which masks it, and
\* drained.
ChanStop(c) ==
  /\ Goto("ctlr_stop", "ctlr_stop")
  /\ ctlr # "idle"
  /\ \/ /\ chan[c] = "active" /\ \A d \in Chan : chan[d] # "teardown"
        /\ ctlr' = "teardown"
        /\ chan' = [chan EXCEPT ![c] = "teardown"]
        /\ mask' = mask \ {c}
        /\ UNCHANGED work
     \/ /\ chan[c] = "teardown"
        /\ chan' = [chan EXCEPT ![c] = "idle"]
        /\ work' = [work EXCEPT ![c] = 0]
        /\ UNCHANGED <<ctlr, mask>>
  /\ UNCHANGED <<board, users, share, irqVars, isr, pollVars, rearm, want>>

Stopped == \A c \in Chan : chan[c] \in {"none", "idle"}
CtlrStopped ==
  /\ Stopped
  /\ Goto("ctlr_stop", IF want = -1 THEN "none" ELSE "resize")
  /\ ctlr' = "idle"
  /\ mask' = {}
  /\ users' = IF want = -1 THEN users - 1 ELSE users
  /\ UNCHANGED <<board, chan, work, share, irqVars, isr, pollVars, rearm, want>>

\* cpsw_set_channels_common for k channels: the data pass is suspended, with
\* NAPI left enabled ...
SetChannels_Running(k) ==
  /\ Goto("none", "resize")
  /\ want' = k
  /\ UNCHANGED <<board, users, chanVars, irqVars, isr, pollVars, rearm>>
SetChannels(k) ==
  /\ Goto("none", "intr_disable")
  /\ want' = k
  /\ UNCHANGED <<board, users, chanVars, irqVars, isr, pollVars, rearm>>

\* ... channels are created at the end or destroyed from the end ...
Resize ==
  /\ Goto("resize", "split")
  /\ chan' = [c \in Chan |-> IF c < want THEN "idle" ELSE "none"]
  /\ UNCHANGED <<board, users, ctlr, mask, work, share, irqVars, isr,
                 pollVars, rearm, want>>

\* What cpsw_split_res can make of the budget for n vectors.  Without limited queues the shares are
\* even; with them they follow the rates, and a queue without limit may be left with nothing.  In
\* either case they add up (CpswShares has the rates).  Two splits that overlap may leave shares that
\* do not, and the last vectors then behind the others: a split is one step here.
Budgets(n) ==
  {s \in [Chan -> 0..Budget] : /\ \A c \in Chan : c >= n => s[c] = 0
                               /\ MapThenSumSet(LAMBDA c : s[c], Chan) = Budget}

\* ... the budget is split again, and the data pass resumed if there is a user.
Split ==
  /\ Goto("split", IF users > 0 THEN "ctlr_start" ELSE "none")
  /\ share' \in Budgets(want)
  /\ UNCHANGED <<board, users, ctlr, chan, mask, work, irqVars, isr,
                 pollVars, rearm, want>>

\* It is also split for another rate (cpsw_ndo_set_tx_maxrate) and for another speed of the link,
\* by cpsw_adjust_link in the PHY state machine, which does not wait for RTNL.
Resplit ==
  /\ Process
  /\ share' \in Budgets(Cardinality(Present)) /\ share' # share
  /\ UNCHANGED <<board, users, ctlr, chan, mask, work, irqVars, isr,
                 pollVars, rearm, op, want>>

-----------------------------------------------------------------------------
RtnlStep ==
  \/ NapiEnable \/ EnableLine \/ CtlrStart \/ IntrEnable
  \/ NapiDisable \/ IntrDisable \/ CtlrStopped \/ Resize \/ Split
  \/ \E c \in Chan : ChanStop(c)

PollStep == PollBegin \/ PollChan \/ PollEnd \/ Rearm
IsrStep == Interrupt \/ DisableLine \/ Schedule

NapiNext ==
  \/ \E c \in Chan : Arrive(c)
  \/ IsrStep \/ PollStep
  \/ Open \/ Stop
  \/ \E k \in 1..MaxCh : board # "quirk" /\ SetChannels(k)
  \/ RtnlStep \/ Resplit

NapiSpec == NapiInit /\ [][NapiNext]_napiVars

\* An interrupt that is raised is taken, the softirq runs, and so does the
\* thread that holds RTNL, which shares its processor with the softirq.
NapiFairness ==
  WF_napiVars(IsrStep) /\ SF_napiVars(PollStep) /\ SF_napiVars(RtnlStep)
NapiFairSpec == NapiSpec /\ NapiFairness

-----------------------------------------------------------------------------
(* Properties.                                                             *)

\* No interrupt is forgotten: with a user, nothing in progress under RTNL, and
\* neither the handler nor a poll under way, the direction is enabled at every
\* level, so that the next packet of any channel raises an interrupt.
NothingMasked ==
  users > 0 /\ op = "none" /\ isr = "none" /\ napi = "idle" /\ rearm = 0
    => en /\ off = 0 /\ ctlr = "active" /\ mask = Present

\* A poll that was running when cpsw_intr_disable masked the wrapper enables it
\* again when it ends.  All the same no interrupt is taken from an engine that
\* is not running.
NoInterruptWhenStopped == [][Interrupt => ctlr = "active"]_napiVars

\* The line's disable depth follows the flag: enable_irq is never called for a
\* line that is enabled, whoever ends it, the poll or the open.
LineBalanced == off = IF flag THEN 1 ELSE 0

\* On one processor a poll never meets a channel that has been destroyed: the
\* status bits of a stopped channel are masked.
PolledChannelsLive ==
  board # "several" => \A c \in todo : chan[c] # "none"

\* Packets on a channel that keeps a budget are processed, or its engine is stopped: no such channel
\* starves behind the others, however the budget is split again, and no interrupt is lost.  One that
\* cpsw_split_res leaves with a budget of 0 does starve, and is excepted.
Polled == \A c \in Chan : work[c] = MaxWork ~> work[c] < MaxWork \/ share[c] = 0
=============================================================================
