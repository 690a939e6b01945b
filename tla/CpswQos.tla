-------------------------------- MODULE CpswQos --------------------------------
(***************************************************************************)
(* The traffic classes that one port of the switch is asked to take over   *)
(* (cpsw/my_cpsw_priv.c): the credit-based shapers of its transmit FIFOs   *)
(* (CBS), the map from priorities to FIFOs (mqprio) and the policers of    *)
(* the broadcast and multicast frames it receives (clsflower).             *)
(*                                                                         *)
(* Each is kept twice, in the driver and in registers.  An open of the     *)
(* first of the two ports clears registers of both, and every open brings  *)
(* back from the driver's copy what it can.  All calls come with RTNL      *)
(* held, so that each is one step.                                         *)
(*                                                                         *)
(* A bandwidth is in kbit/s, a speed in Mbit/s, a share in percent.        *)
(*                                                                         *)
(* Left out: a shaper for a queue of no traffic class.  The class of such  *)
(* a queue is -1, its FIFO 4, of which fifo_bw has no element.             *)
(***************************************************************************)
EXTENDS Integers, FiniteSets, FiniteSetsExt

CONSTANTS
  Speeds,  \* the speeds of the link
  Slopes,  \* the bandwidths asked for
  Prios,   \* the priorities
  Cookies, \* the filters: one name for each
  Rates,   \* the rates of policers, in packets per second
  MaxOps   \* the number of requests

ASSUME SpeedsAssumption == Speeds \subseteq Nat \ {0}
ASSUME SlopesAssumption == Slopes \subseteq Nat \ {0}
ASSUME RatesAssumption == Rates \subseteq Nat \ {0}
ASSUME CookiesAssumption == "none" \notin Cookies

TcNum == 4               \* CPSW_TC_NUM
Fifo == 1..(TcNum - 1)   \* the FIFOs with a shaper: CPSW_FIFO_SHAPERS_NUM
NoCookie == "none"       \* cookie 0
Kind == {"bc", "mc"}
MinPps == 1000           \* ALE_RATE_LIMIT_MIN_PPS
LimitMask == 255         \* the 8 bits of bcast_limit and of mcast_limit

VARIABLES
  up, others,  \* the port is open; the other one is
  link,        \* the speed of the link, 0 without one
  cbs,         \* the shapers: see Shapers
  map,         \* TX_PRI_MAP: [Prios -> FIFO]
  numTc, tcOf, \* num_tc and prio_tc_map of the device
  mqprioHw,    \* mqprio_hw
  policer,     \* ale_bc_ratelimit, ale_mc_ratelimit
  limit,       \* bcast_limit and mcast_limit, in units of MinPps
  filters,     \* the filters that have been accepted
  odd,         \* what has happened that the driver does not cope with
  ops

mapVars == <<map, numTc, tcOf, mqprioHw>>
policeVars == <<policer, limit, filters>>
vars == <<up, others, link, cbs, mapVars, policeVars, odd, ops>>

\* shp: shp_cfg_speed; bw: fifo_bw; pct: SEND_PERCENT; rate and type: TX_IN_CTL;
\* shape: the bits of the port in ptype; ok: whether the last call succeeded.
Shapers ==
  [shp : Speeds \cup {0}, bw : [Fifo -> Slopes \cup {0}], pct : [Fifo -> 0..100],
   rate : SUBSET Fifo, type : {"normal", "limited"}, shape : SUBSET Fifo, ok : BOOLEAN]

\* "rejected": a request was rejected and the speed that the shapers were set up for went with it;
\* "speed": a shaper was set up for another speed than the others; "order": one was turned off
\* below which there are others; "asleep": one was changed while the registers were cleared;
\* "few": priorities were restored with fewer classes than FIFOs; "fast": a policer has a rate that
\* its register cannot hold; "second": there were two policers of a kind.
Oddities == {"rejected", "speed", "order", "asleep", "few", "fast", "second"}

NoPolicer == [cookie |-> NoCookie, rate |-> 0]

\* TX_PRIORITY_MAPPING.
DefaultMap == [q \in Prios |-> q \div 2]

Init ==
  /\ up = FALSE /\ others = FALSE /\ link = 0
  /\ cbs = [shp |-> 0, bw |-> [f \in Fifo |-> 0], pct |-> [f \in Fifo |-> 0],
            rate |-> {}, type |-> "normal", shape |-> {}, ok |-> TRUE]
  /\ map = DefaultMap /\ numTc = 0 /\ tcOf = [q \in Prios |-> 0] /\ mqprioHw = FALSE
  /\ policer = [k \in Kind |-> NoPolicer] /\ limit = [k \in Kind |-> 0] /\ filters = {}
  /\ odd = {} /\ ops = 0

Op == ops < MaxOps /\ ops' = ops + 1

\* cpsw_tc_to_fifo: the last class gets FIFO 0, which has no shaper.
TcToFifo(tc, num) == IF tc = num - 1 THEN 0 ELSE TcNum - 1 - tc

-----------------------------------------------------------------------------
(* The shapers.                                                            *)

CeilDiv(a, b) == (a + b - 1) \div b

\* FIFOs for which a bandwidth has been accepted.
Configured(c) == {f \in Fifo : c.bw[f] # 0}

\* The share of a bandwidth, in percent of the speed.
Share(c, b) == CeilDiv(b, c.shp * 10)

\* The sum of the shares, one for each FIFO, of the FIFOs in S.
Total(pct, S) ==
  LET part(f) == IF f \in S THEN pct[f] ELSE 0
  IN part(1) + part(2) + part(3)

\* The share of the FIFO alone.
SharesWith_Alone(c, fifo, b) == Share(c, b)

\* All the shares, if the FIFO gets the bandwidth.
SharesWith(c, fifo, b) == Share(c, b) + Total(c.pct, Configured(c) \ {fifo})

\* cpsw_set_fifo_bw: the FIFOs above must be shaped, and less than the whole link shared out.
SetFifoBw(c, fifo, b) ==
  IF b = 0 THEN [c EXCEPT !.bw[fifo] = 0, !.ok = TRUE]
  ELSE IF /\ b <= c.shp * 1000
          /\ \A f \in Fifo : f > fifo => f \in Configured(c)
          /\ SharesWith(c, fifo, b) < 100
  THEN [c EXCEPT !.bw[fifo] = b, !.pct[fifo] = Share(c, b), !.ok = TRUE]
  ELSE [c EXCEPT !.ok = FALSE]

\* cpsw_set_fifo_rlimit: the first shaper that is turned on, and the last that is turned off,
\* change the mode of the port; the last one forgets the speed.
SetRlimit(c, fifo, b) ==
  LET set == SetFifoBw(c, fifo, b)
      left == IF b = 0 THEN c.shape \ {fifo} ELSE c.shape
      rated == IF left = {} THEN {} ELSE c.rate
  IN IF ~set.ok THEN set
     ELSE [set EXCEPT
       !.shp = IF left = {} /\ b = 0 THEN 0 ELSE @,
       !.type = IF left # {} THEN @ ELSE IF b = 0 THEN "normal" ELSE "limited",
       !.rate = IF b = 0 THEN rated \ {fifo} ELSE rated \cup {fifo},
       !.shape = IF b = 0 THEN left ELSE left \cup {fifo}]

\* A resume that ends with the first FIFO it finds.
CbsResume_One(c) ==
  IF Configured(c) = {} THEN c ELSE SetRlimit(c, Max(Configured(c)), c.bw[Max(Configured(c))])

\* cpsw_cbs_resume, from the highest FIFO down; nobody looks at the results.
CbsResume(c) ==
  LET Again(d, f) == IF d.bw[f] = 0 THEN d ELSE SetRlimit(d, f, d.bw[f])
  IN Again(Again(Again(c, 3), 2), 1)

\* The speed after a request that fails: 0 if it has not changed.
Shp(prev, speed) == IF prev \notin {0, speed} /\ speed # 0 THEN prev ELSE 0

\* cpsw_set_cbs.
SetCbs(tc, b) ==
  LET fifo == TcToFifo(tc, numTc)
      c == [cbs EXCEPT !.shp = IF link # 0 THEN link ELSE @]
      set == SetRlimit(c, fifo, b)
  IN /\ Op /\ fifo # 0 /\ (b # 0 \/ cbs.bw[fifo] # 0)
     /\ c.shp # 0
     /\ cbs' = IF set.ok THEN set ELSE [set EXCEPT !.shp = Shp(cbs.shp, link)]
     /\ odd' = odd
          \cup (IF ~set.ok /\ Configured(cbs) # {} /\ Shp(cbs.shp, link) # cbs.shp
                THEN {"rejected"} ELSE {})
          \cup (IF set.ok /\ c.shp # cbs.shp /\ Configured(cbs) \ {fifo} # {} THEN {"speed"} ELSE {})
          \cup (IF b = 0 /\ \E f \in Configured(cbs) : f < fifo THEN {"order"} ELSE {})
          \cup (IF cbs.shape # Configured(cbs) THEN {"asleep"} ELSE {})
  /\ UNCHANGED <<up, others, link, mapVars, policeVars>>

\* cpsw_set_cbs that cannot resume the device: the new speed is kept.
SetCbsNoPm(tc) ==
  /\ Op /\ TcToFifo(tc, numTc) # 0
  /\ link # 0 /\ cbs.shp # link
  /\ cbs' = [cbs EXCEPT !.shp = link]
  /\ odd' = odd \cup IF Configured(cbs) # {} THEN {"speed"} ELSE {}
  /\ UNCHANGED <<up, others, link, mapVars, policeVars>>

-----------------------------------------------------------------------------
(* The priorities.                                                         *)

\* cpsw_set_mqprio with a number of classes, and (with none) the way back to no classes.
SetMqprio(num, of) ==
  /\ Op
  /\ numTc' = num /\ tcOf' = of /\ mqprioHw' = (num # 0)
  /\ map' = IF num = 0 THEN DefaultMap ELSE [q \in Prios |-> TcToFifo(of[q], num)]
  /\ UNCHANGED <<up, others, link, cbs, policeVars, odd>>

\* cpsw_mqprio_resume, after the open has written the default: there it is not asked whether the
\* class is the last one.
ResumedMap == IF mqprioHw THEN [q \in Prios |-> TcNum - 1 - tcOf[q]] ELSE DefaultMap

-----------------------------------------------------------------------------
(* The policers.                                                           *)

\* cpsw_ale_rx_ratelimit_bc and _mc: a value that is too large is not written, and nobody is told.
Limited(old, rate) == IF rate \div MinPps > LimitMask THEN old ELSE rate \div MinPps

\* cpsw_qos_clsflower_add_policer: the filter that was there is forgotten.
AddPolicer(k, cookie, rate) ==
  /\ Op /\ \A f \in filters : f.cookie # cookie
  /\ rate >= MinPps
  /\ limit' = [limit EXCEPT ![k] = Limited(@, rate)]
  /\ policer' = [policer EXCEPT ![k] = [cookie |-> cookie, rate |-> rate]]
  /\ filters' = filters \cup {[cookie |-> cookie, kind |-> k, rate |-> rate]}
  /\ odd' = odd \cup (IF rate \div MinPps > LimitMask THEN {"fast"} ELSE {})
                \cup (IF policer[k].cookie # NoCookie THEN {"second"} ELSE {})
  /\ UNCHANGED <<up, others, link, cbs, mapVars>>

\* The kinds whose policer is that of the filter.
Owned(cookie) == {k \in Kind : policer[k].cookie = cookie}

\* cpsw_qos_delete_clsflower.
DelPolicer(f) ==
  /\ Op /\ f \in filters
  /\ filters' = filters \ {f}
  /\ policer' = [k \in Kind |-> IF k \in Owned(f.cookie) THEN NoPolicer ELSE policer[k]]
  /\ limit' = [k \in Kind |-> IF k \in Owned(f.cookie) THEN 0 ELSE limit[k]]
  /\ UNCHANGED <<up, others, link, cbs, mapVars, odd>>

\* cpsw_qos_clsflower_resume.
ResumedLimit(was) ==
  [k \in Kind |-> IF policer[k].cookie = NoCookie THEN was[k] ELSE Limited(was[k], policer[k].rate)]

-----------------------------------------------------------------------------
(* The ports and the link.                                                 *)

\* cpsw_init_host_port clears ptype, and the reset before it may have cleared the other registers.
Cleared(lost) ==
  [cbs EXCEPT !.shape = {}, !.rate = IF lost THEN {} ELSE @, !.type = IF lost THEN "normal" ELSE @,
              !.pct = IF lost THEN [f \in Fifo |-> 0] ELSE @]

NoLimit == [k \in Kind |-> 0]

\* cpsw_ndo_open: the first port clears the registers, and cpsw_restore brings back this port's.
Open(lost) ==
  /\ ~up /\ up' = TRUE
  /\ lost => ~others
  /\ cbs' = [CbsResume(IF others THEN cbs ELSE Cleared(lost)) EXCEPT !.ok = TRUE]
  /\ map' = ResumedMap
  /\ limit' = ResumedLimit(IF lost THEN NoLimit ELSE limit)
  /\ odd' = odd \cup IF mqprioHw /\ numTc < TcNum THEN {"few"} ELSE {}
  /\ UNCHANGED <<others, link, numTc, tcOf, mqprioHw, policer, filters, ops>>

\* cpsw_ndo_stop: the PHY goes.
Stop ==
  /\ Op /\ up /\ up' = FALSE /\ link' = 0
  /\ UNCHANGED <<others, cbs, mapVars, policeVars, odd>>

\* The other port is opened.
OtherOpen(lost) ==
  /\ ~others /\ others' = TRUE
  /\ lost => ~up
  /\ cbs' = IF up THEN cbs ELSE Cleared(lost)
  /\ limit' = IF lost THEN NoLimit ELSE limit
  /\ UNCHANGED <<up, link, mapVars, policer, filters, odd, ops>>

OtherStop ==
  /\ Op /\ others /\ others' = FALSE
  /\ UNCHANGED <<up, link, cbs, mapVars, policeVars, odd>>

\* The PHY finds a link, or none: cpsw_adjust_link only warns that the shapers are set up for
\* another speed.
Link(s) ==
  /\ up /\ link # s /\ link' = s
  /\ UNCHANGED <<up, others, cbs, mapVars, policeVars, odd, ops>>

Classes == IF numTc = 0 THEN {0} ELSE 0..(numTc - 1)

Next ==
  \/ \E lost \in BOOLEAN : Open(lost) \/ OtherOpen(lost)
  \/ Stop \/ OtherStop
  \/ \E s \in Speeds \cup {0} : Link(s)
  \/ \E tc \in Classes : SetCbsNoPm(tc) \/ \E b \in Slopes \cup {0} : SetCbs(tc, b)
  \/ \E num \in 1..TcNum : \E of \in [Prios -> 0..(num - 1)] : SetMqprio(num, of)
  \/ SetMqprio(0, [q \in Prios |-> 0])
  \/ \E k \in Kind, c \in Cookies, r \in Rates : AddPolicer(k, c, r)
  \/ \E f \in filters : DelPolicer(f)

Spec == Init /\ [][Next]_vars

-----------------------------------------------------------------------------
\* The shapers of a port never share out the whole link, through all changes of speed, closings
\* and requests that are turned down: something is left for the frames of the other classes.
LeavesRoom == Total(cbs.pct, Configured(cbs)) < 100

\* While the port is open the hardware shapes the FIFOs that a bandwidth has been accepted for, in
\* the mode for it, from the highest down, and gives each the bandwidth at the speed it was set up
\* for, unless something has happened that the driver does not cope with.
ShapesKept ==
  up /\ odd \cap {"rejected", "speed", "order", "asleep"} = {} =>
    /\ cbs.shape = Configured(cbs) /\ cbs.rate = cbs.shape
    /\ cbs.type = (IF cbs.shape = {} THEN "normal" ELSE "limited")
    /\ \A f \in cbs.shape : \A g \in Fifo : g > f => g \in cbs.shape
    /\ \A f \in cbs.shape : cbs.pct[f] * cbs.shp * 10 >= cbs.bw[f]

\* While the port is open its priorities go to the FIFOs of their classes.
PrioritiesKept ==
  up /\ "few" \notin odd =>
    map = IF numTc = 0 THEN DefaultMap ELSE [q \in Prios |-> TcToFifo(tcOf[q], numTc)]

\* While the port is open, its limits are those of the filters that were accepted, and there is no
\* limit where there is no filter.
FiltersKept ==
  up /\ odd \cap {"fast", "second"} = {} =>
    \A k \in Kind :
      /\ \A f \in filters : f.kind = k => limit[k] = f.rate \div MinPps
      /\ (\A f \in filters : f.kind # k) => limit[k] = 0

\* What the port was asked to take over is what its registers say, over closings and openings of
\* both ports.
QosKept == ShapesKept /\ PrioritiesKept /\ FiltersKept
=============================================================================
