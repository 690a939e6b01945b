---------------------------- MODULE CpswQosProofs ----------------------------
(***************************************************************************)
(* Proofs about CpswQos, for every set of speeds, bandwidths, priorities,  *)
(* filters and rates and any number of requests: what the shapers of a     *)
(* port share out leaves room for other frames, and the shapers, the map   *)
(* of priorities and the limits are what the port was asked for.           *)
(*                                                                         *)
(* The three parts do not depend on each other, and each has an invariant  *)
(* of its own: ShapesInv, MapInv and PoliceInv.                            *)
(***************************************************************************)
EXTENDS CpswQos, TLAPS

-----------------------------------------------------------------------------
(* The invariants.                                                         *)

\* The shapers, with any number as a share.
ShaperType ==
  [shp : Nat, bw : [Fifo -> Nat], pct : [Fifo -> Nat],
   rate : SUBSET Fifo, type : {"normal", "limited"}, shape : SUBSET Fifo, ok : BOOLEAN]

\* The shares of the bandwidths at the speed they were set up for.
Shares(c) == [f \in Fifo |-> Share(c, c.bw[f])]

\* The bandwidths fit together: from the highest FIFO down, none above the speed, and less than
\* the whole link shared out.
Fits(c) ==
  /\ \A f \in Configured(c) : \A g \in Fifo : g > f => g \in Configured(c)
  /\ \A f \in Configured(c) : c.bw[f] <= c.shp * 1000
  /\ Total(Shares(c), Configured(c)) < 100

\* What the registers hold of them: the FIFOs that are shaped have their share, a FIFO that is not
\* shaped has its own or none, and the mode of the port goes with them.
Holds(c) ==
  /\ c.shape \subseteq Configured(c)
  /\ \A f \in Configured(c) : c.pct[f] = Share(c, c.bw[f]) \/ (f \notin c.shape /\ c.pct[f] = 0)
  /\ c.shape # {} => c.rate = c.shape /\ c.type = "limited"
  /\ Configured(c) = {} => c.rate = {} /\ c.type = "normal"

Steady == odd \cap {"rejected", "speed", "order", "asleep"} = {}

Shaped(c) == Fits(c) /\ Holds(c)

ShapesInv == Steady => Shaped(cbs) /\ (up => cbs.shape = Configured(cbs))

MapInv ==
  /\ numTc \in 0..TcNum /\ tcOf \in [Prios -> 0..(TcNum - 1)]
  /\ mqprioHw \in BOOLEAN /\ (mqprioHw <=> numTc # 0)
  /\ PrioritiesKept

\* The filters and what the driver keeps of them.
PoliceType ==
  /\ filters \subseteq [cookie : Cookies, kind : Kind, rate : Rates]
  /\ policer \in [Kind -> [cookie : Cookies \cup {NoCookie}, rate : Rates \cup {0}]]
  /\ limit \in [Kind -> Nat]
  /\ \A f, g \in filters : f.cookie = g.cookie => f = g

\* The filter of the policer of a kind is the only one of that kind, and the register holds its
\* rate while the port is open.
Policed(k) ==
  /\ policer[k].cookie = NoCookie => (\A f \in filters : f.kind # k) /\ limit[k] = 0
  /\ policer[k].cookie # NoCookie =>
       /\ [cookie |-> policer[k].cookie, kind |-> k, rate |-> policer[k].rate] \in filters
       /\ \A f \in filters : f.kind = k => f.cookie = policer[k].cookie
       /\ policer[k].rate \div MinPps <= LimitMask
       /\ up => limit[k] = policer[k].rate \div MinPps

PoliceInv == PoliceType /\ (odd \cap {"fast", "second"} = {} => \A k \in Kind : Policed(k))

-----------------------------------------------------------------------------
(* Numbers.                                                                *)

\* DIV_ROUND_UP: a natural number that, times the divisor, is not below the dividend.
LEMMA CeilDivUp ==
  ASSUME NEW a \in Nat, NEW n \in Nat \ {0}
  PROVE  CeilDiv(a, n) \in Nat /\ CeilDiv(a, n) * n >= a
<1> DEFINE q == (a + n - 1) \div n
<1>1. (a + n - 1) \in Nat
  OBVIOUS
<1>2. q \in Nat /\ n * q + ((a + n - 1) % n) = a + n - 1 /\ (a + n - 1) % n \in 0..(n - 1)
  BY <1>1, SMT
<1>3. n * q \in Nat /\ n * q >= a
  BY <1>2
<1>4. q * n = n * q
  BY <1>2
<1> QED
  BY <1>2, <1>3, <1>4 DEF CeilDiv

\* What is shared out grows with each share and with the FIFOs.
LEMMA TotalMonotone ==
  ASSUME NEW p \in [Fifo -> Nat], NEW r \in [Fifo -> Nat],
         NEW S \in SUBSET Fifo, NEW T \in SUBSET Fifo,
         \A f \in S : f \in T /\ p[f] <= r[f]
  PROVE  Total(p, S) \in Nat /\ Total(p, S) <= Total(r, T)
<1> 1 \in Fifo /\ 2 \in Fifo /\ 3 \in Fifo
  BY DEF Fifo, TcNum
<1> DEFINE a(f) == IF f \in S THEN p[f] ELSE 0
           b(f) == IF f \in T THEN r[f] ELSE 0
<1>1. \A f \in Fifo : a(f) \in Nat /\ b(f) \in Nat /\ a(f) <= b(f)
  OBVIOUS
<1>2. Total(p, S) = a(1) + a(2) + a(3) /\ Total(r, T) = b(1) + b(2) + b(3)
  BY DEF Total
<1> HIDE DEF a, b
<1> QED
  BY <1>1, <1>2

\* One more FIFO adds its share to those of the others.
LEMMA TotalWith ==
  ASSUME NEW p \in [Fifo -> Nat], NEW r \in [Fifo -> Nat], NEW f \in Fifo,
         NEW S \in SUBSET Fifo, NEW T \in SUBSET Fifo, f \notin S, T = S \cup {f},
         \A g \in S : r[g] = p[g]
  PROVE  Total(r, T) = r[f] + Total(p, S)
<1> 1 \in Fifo /\ 2 \in Fifo /\ 3 \in Fifo /\ f \in {1, 2, 3}
  BY DEF Fifo, TcNum
<1> DEFINE a(g) == IF g \in S THEN p[g] ELSE 0
           b(g) == IF g \in T THEN r[g] ELSE 0
<1>1. \A g \in Fifo : a(g) \in Nat /\ b(g) = (IF g = f THEN r[f] ELSE a(g)) /\ (g = f => a(g) = 0)
  OBVIOUS
<1>2. Total(p, S) = a(1) + a(2) + a(3) /\ Total(r, T) = b(1) + b(2) + b(3)
  BY DEF Total
<1> HIDE DEF a, b
<1>3. CASE f = 1
  BY <1>1, <1>2, <1>3
<1>4. CASE f = 2
  BY <1>1, <1>2, <1>4
<1>5. CASE f = 3
  BY <1>1, <1>2, <1>5
<1> QED
  BY <1>3, <1>4, <1>5

\* A class is given one of the four FIFOs.
LEMMA TcToFifoType ==
  ASSUME NEW num \in 0..TcNum, NEW tc \in 0..(TcNum - 1)
  PROVE  TcToFifo(tc, num) \in {0} \cup Fifo
BY DEF TcToFifo, TcNum, Fifo

\* The classes of a device are among the four.
LEMMA ClassesType ==
  ASSUME numTc \in 0..TcNum
  PROVE  Classes \subseteq 0..(TcNum - 1)
BY DEF Classes, TcNum

-----------------------------------------------------------------------------
(* What the requests do to the fields.                                     *)

\* A speed above 0 gives a bandwidth a share, which is enough for it.
LEMMA ShareType ==
  ASSUME NEW c \in ShaperType, NEW b \in Nat, c.shp # 0
  PROVE  Share(c, b) \in Nat /\ Share(c, b) * (c.shp * 10) >= b
<1>1. c.shp * 10 \in Nat \ {0}
  BY DEF ShaperType
<1> QED
  BY <1>1, CeilDivUp DEF Share

\* What cpsw_set_fifo_bw asks of a bandwidth.
Accepts(c, fifo, b) ==
  /\ b <= c.shp * 1000
  /\ \A f \in Fifo : f > fifo => f \in Configured(c)
  /\ SharesWith(c, fifo, b) < 100

\* From c to d a bandwidth has been turned down, taken away or accepted.
Asked(c, d, fifo, b) ==
  \/ ~d.ok /\ b # 0 /\ ~Accepts(c, fifo, b) /\ d.bw = c.bw /\ d.pct = c.pct
  \/ d.ok /\ b = 0 /\ d.bw = [c.bw EXCEPT ![fifo] = 0] /\ d.pct = c.pct
  \/ /\ d.ok /\ b # 0 /\ Accepts(c, fifo, b) /\ c.shp # 0
     /\ d.bw = [c.bw EXCEPT ![fifo] = b]
     /\ d.pct = [c.pct EXCEPT ![fifo] = Share(c, b)]

\* The mode of the port, the speed and the FIFOs that are shaped go with it.
Moded(c, d, fifo, b) ==
  /\ ~d.ok => d.shp = c.shp /\ d.rate = c.rate /\ d.type = c.type /\ d.shape = c.shape
  /\ d.ok /\ b = 0 =>
       /\ d.shape = c.shape \ {fifo}
       /\ d.shape = {} => d.shp = 0 /\ d.type = "normal" /\ d.rate = {}
       /\ d.shape # {} => d.shp = c.shp /\ d.type = c.type /\ d.rate = c.rate \ {fifo}
  /\ d.ok /\ b # 0 =>
       /\ d.shape = c.shape \cup {fifo} /\ d.shp = c.shp
       /\ c.shape = {} => d.type = "limited" /\ d.rate = {fifo}
       /\ c.shape # {} => d.type = c.type /\ d.rate = c.rate \cup {fifo}

\* cpsw_set_fifo_bw changes the bandwidth and the share of its FIFO, or nothing.
LEMMA SetFifoBwFields ==
  ASSUME NEW c \in ShaperType, NEW fifo \in Fifo, NEW b \in Nat,
         NEW d, d = SetFifoBw(c, fifo, b)
  PROVE  /\ d \in ShaperType /\ Asked(c, d, fifo, b)
         /\ d.shp = c.shp /\ d.rate = c.rate /\ d.type = c.type /\ d.shape = c.shape
<1> DEFINE Typed == d \in ShaperType
           Kept == d.shp = c.shp /\ d.rate = c.rate /\ d.type = c.type /\ d.shape = c.shape
<1>1. ASSUME NEW bw \in [Fifo -> Nat], NEW pct \in [Fifo -> Nat],
             d = [c EXCEPT !.bw = bw, !.pct = pct, !.ok = TRUE]
      PROVE  Typed /\ Kept /\ d.ok /\ d.bw = bw /\ d.pct = pct
  BY <1>1, Zenon DEF ShaperType
<1>2. c.bw \in [Fifo -> Nat] /\ c.pct \in [Fifo -> Nat]
  BY DEF ShaperType
<1>3. CASE b # 0 /\ ~Accepts(c, fifo, b)
  <2>1. d = [c EXCEPT !.ok = FALSE]
    BY <1>3 DEF SetFifoBw, Accepts
  <2>2. Typed /\ Kept /\ ~d.ok /\ d.bw = c.bw /\ d.pct = c.pct
    BY <2>1, Zenon DEF ShaperType
  <2> QED
    BY <1>3, <2>2, Zenon DEF Asked
<1>4. CASE b = 0
  <2>1. d = [c EXCEPT !.bw[fifo] = 0, !.ok = TRUE]
    BY <1>4 DEF SetFifoBw
  <2>2. d = [c EXCEPT !.bw = [c.bw EXCEPT ![fifo] = 0], !.pct = c.pct, !.ok = TRUE]
    BY <2>1 DEF ShaperType
  <2>3. [c.bw EXCEPT ![fifo] = 0] \in [Fifo -> Nat]
    BY <1>2
  <2>4. Typed /\ Kept /\ d.ok /\ d.bw = [c.bw EXCEPT ![fifo] = 0] /\ d.pct = c.pct
    BY <1>1, <1>2, <2>2, <2>3, Zenon
  <2> QED
    BY <1>4, <2>4, Zenon DEF Asked
<1>5. CASE b # 0 /\ Accepts(c, fifo, b)
  <2>1. d = [c EXCEPT !.bw[fifo] = b, !.pct[fifo] = Share(c, b), !.ok = TRUE]
    BY <1>5 DEF SetFifoBw, Accepts
  <2>2. d = [c EXCEPT !.bw = [c.bw EXCEPT ![fifo] = b],
                      !.pct = [c.pct EXCEPT ![fifo] = Share(c, b)], !.ok = TRUE]
    BY <2>1
  <2>3. c.shp # 0
    BY <1>5 DEF Accepts, ShaperType
  <2>4. Share(c, b) \in Nat
    BY <2>3, ShareType
  <2>5. /\ [c.bw EXCEPT ![fifo] = b] \in [Fifo -> Nat]
        /\ [c.pct EXCEPT ![fifo] = Share(c, b)] \in [Fifo -> Nat]
    BY <1>2, <2>4
  <2>6. /\ Typed /\ Kept /\ d.ok /\ d.bw = [c.bw EXCEPT ![fifo] = b]
        /\ d.pct = [c.pct EXCEPT ![fifo] = Share(c, b)]
    BY <1>1, <2>2, <2>5, Zenon
  <2> QED
    BY <1>5, <2>3, <2>6, Zenon DEF Asked
<1> QED
  BY <1>3, <1>4, <1>5

\* cpsw_set_fifo_rlimit changes the mode of the port besides, if the bandwidth is accepted.
LEMMA SetRlimitFields ==
  ASSUME NEW c \in ShaperType, NEW fifo \in Fifo, NEW b \in Nat,
         NEW d, d = SetRlimit(c, fifo, b)
  PROVE  d \in ShaperType /\ Asked(c, d, fifo, b) /\ Moded(c, d, fifo, b)
<1> DEFINE set == SetFifoBw(c, fifo, b)
           left == IF b = 0 THEN c.shape \ {fifo} ELSE c.shape
           rated == IF left = {} THEN {} ELSE c.rate
           shp == IF left = {} /\ b = 0 THEN 0 ELSE c.shp
           type == IF left # {} THEN c.type ELSE IF b = 0 THEN "normal" ELSE "limited"
           rate == IF b = 0 THEN rated \ {fifo} ELSE rated \cup {fifo}
           shape == IF b = 0 THEN left ELSE left \cup {fifo}
<1>1. /\ set \in ShaperType /\ Asked(c, set, fifo, b)
      /\ set.shp = c.shp /\ set.rate = c.rate /\ set.type = c.type /\ set.shape = c.shape
  BY SetFifoBwFields
<1>2. ~set.ok => d = set
  BY DEF SetRlimit
<1>3. set.ok => d = [set EXCEPT !.shp = IF left = {} /\ b = 0 THEN 0 ELSE @,
                       !.type = IF left # {} THEN @ ELSE IF b = 0 THEN "normal" ELSE "limited",
                       !.rate = rate, !.shape = shape]
  BY DEF SetRlimit
<1>4. set.ok => d = [set EXCEPT !.shp = shp, !.type = type, !.rate = rate, !.shape = shape]
  <2> HIDE DEF set, left, rate, shape
  <2> QED
    BY <1>1, <1>3
<1>5. shp \in Nat /\ type \in {"normal", "limited"} /\ rate \in SUBSET Fifo /\ shape \in SUBSET Fifo
  <2>1. c.shp \in Nat /\ c.type \in {"normal", "limited"} /\ c.rate \in SUBSET Fifo
        /\ c.shape \in SUBSET Fifo
    BY DEF ShaperType
  <2> HIDE DEF set
  <2> QED
    BY <2>1
<1>6. CASE ~set.ok
  <2> HIDE DEF set
  <2>1. Moded(c, set, fifo, b)
    BY <1>1, <1>6, Zenon DEF Moded
  <2> QED
    BY <1>1, <1>2, <1>6, <2>1, Zenon
<1>7. CASE set.ok
  <2> HIDE DEF set
  <2>1. /\ d \in ShaperType /\ d.bw = set.bw /\ d.pct = set.pct /\ d.ok
        /\ d.shp = shp /\ d.type = type /\ d.rate = rate /\ d.shape = shape
    <3> HIDE DEF shp, type, rate, shape
    <3> QED
      BY <1>1, <1>4, <1>5, <1>7, Zenon DEF ShaperType
  <2>2. Asked(c, d, fifo, b)
    BY <1>1, <1>7, <2>1, Zenon DEF Asked
  <2>3. b = 0 => /\ shape = c.shape \ {fifo}
                 /\ shape = {} => shp = 0 /\ type = "normal" /\ rate = {}
                 /\ shape # {} => shp = c.shp /\ type = c.type /\ rate = c.rate \ {fifo}
    OBVIOUS
  <2>4. b # 0 => /\ shape = c.shape \cup {fifo} /\ shp = c.shp
                 /\ c.shape = {} => type = "limited" /\ rate = {fifo}
                 /\ c.shape # {} => type = c.type /\ rate = c.rate \cup {fifo}
    OBVIOUS
  <2>5. Moded(c, d, fifo, b)
    <3> HIDE DEF shp, type, rate, shape
    <3> QED
      BY <2>1, <2>3, <2>4, Zenon DEF Moded
  <2> QED
    BY <2>1, <2>2, <2>5, Zenon
<1> QED
  BY <1>6, <1>7

\* What an open of the first port does to the registers of a closed one.
LEMMA ClearedFields ==
  ASSUME cbs \in ShaperType, NEW lost \in BOOLEAN, NEW d, d = Cleared(lost)
  PROVE  /\ d \in ShaperType /\ d.shp = cbs.shp /\ d.bw = cbs.bw /\ d.shape = {}
         /\ ~lost => d.rate = cbs.rate /\ d.type = cbs.type /\ d.pct = cbs.pct
         /\ lost => d.rate = {} /\ d.type = "normal" /\ d.pct = [f \in Fifo |-> 0]
<1> DEFINE rate == IF lost THEN {} ELSE cbs.rate
           type == IF lost THEN "normal" ELSE cbs.type
           pct == IF lost THEN [f \in Fifo |-> 0] ELSE cbs.pct
<1>1. d = [cbs EXCEPT !.shape = {}, !.rate = rate, !.type = type, !.pct = pct]
  BY DEF Cleared
<1>2. cbs.rate \in SUBSET Fifo /\ cbs.type \in {"normal", "limited"} /\ cbs.pct \in [Fifo -> Nat]
  BY DEF ShaperType
<1>3. rate \in SUBSET Fifo /\ type \in {"normal", "limited"} /\ pct \in [Fifo -> Nat]
  BY <1>2
<1>4. /\ d \in ShaperType /\ d.shp = cbs.shp /\ d.bw = cbs.bw /\ d.shape = {}
      /\ d.rate = rate /\ d.type = type /\ d.pct = pct
  <2> HIDE DEF rate, type, pct
  <2> {} \in SUBSET Fifo
    OBVIOUS
  <2> QED
    BY <1>1, <1>3, Zenon DEF ShaperType
<1> QED
  BY <1>4

-----------------------------------------------------------------------------
(* The room that is left.                                                  *)

Roomy(c) == c \in ShaperType /\ Total(c.pct, Configured(c)) < 100

\* Only FIFOs with a shaper are configured.
LEMMA ConfiguredType ==
  ASSUME NEW c
  PROVE  Configured(c) \in SUBSET Fifo
BY DEF Configured

\* The FIFOs that are configured after a request.
LEMMA AskedConfigured ==
  ASSUME NEW c \in ShaperType, NEW fifo \in Fifo, NEW b \in Nat,
         NEW d \in ShaperType, Asked(c, d, fifo, b)
  PROVE  /\ ~d.ok => Configured(d) = Configured(c)
         /\ d.ok /\ b = 0 => Configured(d) = Configured(c) \ {fifo}
         /\ d.ok /\ b # 0 => Configured(d) = Configured(c) \cup {fifo}
<1>1. c.bw \in [Fifo -> Nat]
  BY DEF ShaperType
<1>2. d.bw = c.bw => Configured(d) = Configured(c)
  BY DEF Configured
<1>3. d.bw = [c.bw EXCEPT ![fifo] = 0] => Configured(d) = Configured(c) \ {fifo}
  BY <1>1 DEF Configured
<1>4. b # 0 /\ d.bw = [c.bw EXCEPT ![fifo] = b] => Configured(d) = Configured(c) \cup {fifo}
  BY <1>1 DEF Configured
<1> QED
  BY <1>2, <1>3, <1>4, Zenon DEF Asked

\* A request leaves room, whatever its result.
LEMMA AskedRoom ==
  ASSUME NEW c, Roomy(c), NEW fifo \in Fifo, NEW b \in Nat,
         NEW d \in ShaperType, Asked(c, d, fifo, b)
  PROVE  Roomy(d)
<1>1. c \in ShaperType /\ Total(c.pct, Configured(c)) < 100
  BY DEF Roomy
<1>2. c.pct \in [Fifo -> Nat] /\ c.bw \in [Fifo -> Nat] /\ d.pct \in [Fifo -> Nat]
  BY <1>1 DEF ShaperType
<1>3. Configured(c) \in SUBSET Fifo /\ Configured(d) \in SUBSET Fifo
  BY ConfiguredType
<1>4. CASE d.pct = c.pct /\ Configured(d) \subseteq Configured(c)
  <2>1. Total(d.pct, Configured(d)) \in Nat /\ Total(c.pct, Configured(c)) \in Nat
    BY <1>2, <1>3, TotalMonotone
  <2>2. Total(d.pct, Configured(d)) <= Total(c.pct, Configured(c))
    BY <1>2, <1>3, <1>4, TotalMonotone
  <2> QED
    BY <1>1, <2>1, <2>2 DEF Roomy
<1>5. CASE /\ Configured(d) = Configured(c) \cup {fifo} /\ Accepts(c, fifo, b) /\ c.shp # 0
           /\ d.pct = [c.pct EXCEPT ![fifo] = Share(c, b)]
  <2>1. Share(c, b) \in Nat
    BY <1>1, <1>5, ShareType
  <2>2. Total(d.pct, Configured(d)) = d.pct[fifo] + Total(c.pct, Configured(c) \ {fifo})
    <3> DEFINE S == Configured(c) \ {fifo}
    <3>1. /\ fifo \notin S /\ S \in SUBSET Fifo /\ Configured(d) = S \cup {fifo}
          /\ \A g \in S : d.pct[g] = c.pct[g]
      BY <1>2, <1>3, <1>5
    <3> HIDE DEF S
    <3>2. Total(d.pct, Configured(d)) = d.pct[fifo] + Total(c.pct, S)
      BY <1>2, <1>3, <3>1, TotalWith
    <3> QED
      BY <3>2 DEF S
  <2>3. d.pct[fifo] + Total(c.pct, Configured(c) \ {fifo}) < 100
    BY <1>2, <1>5 DEF Accepts, SharesWith
  <2> QED
    BY <2>2, <2>3 DEF Roomy
<1>6. /\ ~d.ok => Configured(d) = Configured(c)
      /\ d.ok /\ b = 0 => Configured(d) = Configured(c) \ {fifo}
      /\ d.ok /\ b # 0 => Configured(d) = Configured(c) \cup {fifo}
  BY <1>1, AskedConfigured
<1>7. Configured(c) \ {fifo} \subseteq Configured(c) /\ Configured(c) \subseteq Configured(c)
  OBVIOUS
<1> QED
  BY <1>4, <1>5, <1>6, <1>7, Zenon DEF Asked

\* One step of the resume.
Again(d, f) == IF d.bw[f] = 0 THEN d ELSE SetRlimit(d, f, d.bw[f])

\* A resume is one step for each FIFO, from the highest down.
LEMMA CbsResumeSteps ==
  ASSUME NEW c
  PROVE  CbsResume(c) = Again(Again(Again(c, 3), 2), 1)
BY DEF CbsResume, Again

\* A step of a resume leaves room,
LEMMA AgainRoom ==
  ASSUME NEW c, Roomy(c), NEW f \in Fifo
  PROVE  Roomy(Again(c, f))
<1>1. c \in ShaperType /\ c.bw[f] \in Nat
  BY DEF ShaperType, Roomy
<1>2. CASE c.bw[f] # 0
  <2> DEFINE d == SetRlimit(c, f, c.bw[f])
  <2>1. d \in ShaperType /\ Asked(c, d, f, c.bw[f])
    BY <1>1, SetRlimitFields
  <2> HIDE DEF d
  <2>2. Roomy(d)
    BY <1>1, <2>1, AskedRoom
  <2> QED
    BY <1>2, <2>2 DEF Again, d
<1> QED
  BY <1>2 DEF Again

\* and so does the resume,
LEMMA CbsResumeRoom ==
  ASSUME NEW c, Roomy(c)
  PROVE  Roomy(CbsResume(c))
<1> 1 \in Fifo /\ 2 \in Fifo /\ 3 \in Fifo
  BY DEF Fifo, TcNum
<1> QED
  BY AgainRoom, CbsResumeSteps, Zenon

\* and a reset of the registers.
LEMMA ClearedRoom ==
  ASSUME Roomy(cbs), NEW lost \in BOOLEAN
  PROVE  Roomy(Cleared(lost))
<1> DEFINE d == Cleared(lost)
<1>1. /\ d \in ShaperType /\ d.bw = cbs.bw
      /\ ~lost => d.pct = cbs.pct
      /\ lost => d.pct = [f \in Fifo |-> 0]
  BY ClearedFields DEF Roomy
<1> HIDE DEF d
<1>2. Configured(d) = Configured(cbs) /\ Configured(d) \in SUBSET Fifo
  BY <1>1 DEF Configured
<1>3. d.pct \in [Fifo -> Nat] /\ cbs.pct \in [Fifo -> Nat]
  BY <1>1 DEF ShaperType, Roomy
<1>4. \A f \in Fifo : d.pct[f] <= cbs.pct[f]
  BY <1>1, <1>3
<1>5. Total(d.pct, Configured(d)) \in Nat /\ Total(cbs.pct, Configured(cbs)) \in Nat
  BY <1>2, <1>3, TotalMonotone
<1>6. Total(d.pct, Configured(d)) <= Total(cbs.pct, Configured(cbs))
  BY <1>2, <1>3, <1>4, TotalMonotone
<1>7. Roomy(d)
  BY <1>1, <1>5, <1>6 DEF Roomy
<1> QED
  BY <1>7 DEF d

\* Another speed and another result leave the rest alone.
LEMMA Respeeded ==
  ASSUME NEW c \in ShaperType, NEW shp \in Nat, NEW d, d = [c EXCEPT !.shp = shp]
  PROVE  /\ d \in ShaperType /\ d.shp = shp /\ d.bw = c.bw /\ d.pct = c.pct
         /\ d.rate = c.rate /\ d.type = c.type /\ d.shape = c.shape
BY Zenon DEF ShaperType

LEMMA Succeeded ==
  ASSUME NEW c \in ShaperType, NEW d, d = [c EXCEPT !.ok = TRUE]
  PROVE  /\ d \in ShaperType /\ d.shp = c.shp /\ d.bw = c.bw /\ d.pct = c.pct
         /\ d.rate = c.rate /\ d.type = c.type /\ d.shape = c.shape
BY Zenon DEF ShaperType

\* The room depends on the bandwidths and on the shares alone.
LEMMA SameRoom ==
  ASSUME NEW c, Roomy(c), NEW d \in ShaperType, d.bw = c.bw, d.pct = c.pct
  PROVE  Roomy(d)
BY DEF Roomy, Configured

\* The shapers that cpsw_set_cbs starts from: the speed is that of the link, if there is one.
Respeed == [cbs EXCEPT !.shp = IF link # 0 THEN link ELSE @]

\* Only the speed is another one then.
LEMMA RespeedFields ==
  ASSUME cbs \in ShaperType, link \in Nat
  PROVE  /\ Respeed \in ShaperType /\ Respeed.bw = cbs.bw /\ Respeed.pct = cbs.pct
         /\ Respeed.rate = cbs.rate /\ Respeed.type = cbs.type /\ Respeed.shape = cbs.shape
         /\ Respeed.shp = IF link # 0 THEN link ELSE cbs.shp
<1> DEFINE shp == IF link # 0 THEN link ELSE cbs.shp
<1>1. shp \in Nat
  BY DEF ShaperType
<1>2. Respeed = [cbs EXCEPT !.shp = shp]
  BY DEF Respeed
<1> HIDE DEF shp
<1>3. /\ Respeed \in ShaperType /\ Respeed.bw = cbs.bw /\ Respeed.pct = cbs.pct
      /\ Respeed.rate = cbs.rate /\ Respeed.type = cbs.type /\ Respeed.shape = cbs.shape
      /\ Respeed.shp = shp
  BY <1>1, <1>2, Respeeded
<1> QED
  BY <1>3 DEF shp

\* The speed after a refused request is one that there was, or 0.
LEMMA ShpType ==
  ASSUME NEW prev \in Nat, NEW speed \in Nat
  PROVE  Shp(prev, speed) \in Nat
BY DEF Shp

\* A request, with the shapers it starts from and what comes out of them.
LEMMA SetCbsSteps ==
  ASSUME NEW tc, NEW b, SetCbs(tc, b)
  PROVE  LET fifo == TcToFifo(tc, numTc)
             set == SetRlimit(Respeed, fifo, b)
         IN /\ fifo # 0
            /\ cbs' = IF set.ok THEN set ELSE [set EXCEPT !.shp = Shp(cbs.shp, link)]
BY DEF SetCbs, Respeed

\* A request that gets as far as a FIFO other than 0 gets to one with a shaper.
LEMMA ClassFifo ==
  ASSUME numTc \in 0..TcNum, NEW tc \in Classes, TcToFifo(tc, numTc) # 0
  PROVE  TcToFifo(tc, numTc) \in Fifo
BY ClassesType, TcToFifoType

RoomInv == Roomy(cbs) /\ link \in Nat /\ numTc \in 0..TcNum

\* There is room in the beginning,
LEMMA RoomInit == Init => RoomInv
<1> SUFFICES ASSUME Init PROVE RoomInv
  OBVIOUS
<1>1. /\ cbs = [shp |-> 0, bw |-> [f \in Fifo |-> 0], pct |-> [f \in Fifo |-> 0],
                rate |-> {}, type |-> "normal", shape |-> {}, ok |-> TRUE]
      /\ link = 0 /\ numTc = 0
  BY DEF Init
<1>2. [f \in Fifo |-> 0] \in [Fifo -> Nat] /\ 0 \in Nat /\ {} \in SUBSET Fifo
  OBVIOUS
<1>3. cbs \in ShaperType /\ cbs.bw = [f \in Fifo |-> 0]
  BY <1>1, <1>2, Zenon DEF ShaperType
<1>4. Configured(cbs) = {}
  BY <1>3 DEF Configured
<1>5. Total(cbs.pct, Configured(cbs)) = 0
  BY <1>4 DEF Total
<1> QED
  BY <1>1, <1>3, <1>5 DEF RoomInv, Roomy, TcNum

\* a request for a bandwidth leaves some,
LEMMA RoomSetCbs ==
  ASSUME RoomInv, NEW tc \in Classes, NEW b \in Slopes \cup {0}, SetCbs(tc, b)
  PROVE  Roomy(cbs')
<1> DEFINE fifo == TcToFifo(tc, numTc)
           set == SetRlimit(Respeed, fifo, b)
<1>1. fifo \in Fifo /\ cbs' = IF set.ok THEN set ELSE [set EXCEPT !.shp = Shp(cbs.shp, link)]
  BY SetCbsSteps, ClassFifo DEF RoomInv
<1>2. b \in Nat /\ cbs \in ShaperType /\ link \in Nat /\ Roomy(cbs)
  BY SlopesAssumption DEF RoomInv, Roomy
<1>3. Roomy(Respeed) /\ Respeed \in ShaperType
  BY <1>2, RespeedFields, SameRoom
<1> HIDE DEF fifo
<1>4. set \in ShaperType /\ Asked(Respeed, set, fifo, b)
  BY <1>1, <1>2, <1>3, SetRlimitFields
<1> HIDE DEF set
<1>5. Roomy(set)
  BY <1>1, <1>2, <1>3, <1>4, AskedRoom
<1>6. Shp(cbs.shp, link) \in Nat
  BY <1>2, ShpType DEF ShaperType
<1>7. Roomy([set EXCEPT !.shp = Shp(cbs.shp, link)])
  BY <1>4, <1>5, <1>6, Respeeded, SameRoom
<1> QED
  BY <1>1, <1>5, <1>7

\* and every step does.
LEMMA RoomNext == RoomInv /\ [Next]_vars => RoomInv'
<1> SUFFICES ASSUME RoomInv, [Next]_vars PROVE RoomInv'
  OBVIOUS
<1>0. Roomy(cbs) /\ cbs \in ShaperType /\ link \in Nat /\ numTc \in 0..TcNum
  BY DEF RoomInv, Roomy
<1>1. ASSUME cbs' = cbs, link' \in Nat, numTc' \in 0..TcNum
      PROVE  RoomInv'
  BY <1>0, <1>1 DEF RoomInv, Roomy, Configured
<1>2. ASSUME Roomy(cbs'), link' = link, numTc' = numTc
      PROVE  RoomInv'
  BY <1>0, <1>2 DEF RoomInv, Roomy, Configured
<1>3. ASSUME NEW lost \in BOOLEAN, Open(lost)
      PROVE  RoomInv'
  <2> DEFINE c == IF others THEN cbs ELSE Cleared(lost)
             d == CbsResume(c)
  <2>1. Roomy(d)
    BY <1>0, ClearedRoom, CbsResumeRoom
  <2>2. cbs' = [d EXCEPT !.ok = TRUE] /\ link' = link /\ numTc' = numTc
    BY <1>3 DEF Open
  <2> HIDE DEF d
  <2>3. Roomy(cbs')
    BY <2>1, <2>2, Succeeded, SameRoom DEF Roomy
  <2> QED
    BY <2>2, <2>3, <1>2
<1>4. ASSUME NEW lost \in BOOLEAN, OtherOpen(lost)
      PROVE  RoomInv'
  <2>1. Roomy(cbs') /\ link' = link /\ numTc' = numTc
    BY <1>0, <1>4, ClearedRoom DEF OtherOpen, mapVars
  <2> QED
    BY <2>1, <1>2
<1>5. CASE Stop
  BY <1>0, <1>1, <1>5 DEF Stop, mapVars
<1>6. CASE OtherStop
  BY <1>0, <1>1, <1>6 DEF OtherStop, mapVars
<1>7. ASSUME NEW s \in Speeds \cup {0}, Link(s)
      PROVE  RoomInv'
  BY <1>0, <1>1, <1>7, SpeedsAssumption DEF Link, mapVars
<1>8. ASSUME NEW tc \in Classes, SetCbsNoPm(tc)
      PROVE  RoomInv'
  <2>1. cbs' = [cbs EXCEPT !.shp = link] /\ link' = link /\ numTc' = numTc
    BY <1>8 DEF SetCbsNoPm, mapVars
  <2>2. Roomy(cbs')
    BY <1>0, <2>1, Respeeded, SameRoom
  <2> QED
    BY <2>1, <2>2, <1>2
<1>9. ASSUME NEW tc \in Classes, NEW b \in Slopes \cup {0}, SetCbs(tc, b)
      PROVE  RoomInv'
  <2>1. link' = link /\ numTc' = numTc
    BY <1>9 DEF SetCbs, mapVars
  <2> QED
    BY <1>9, <2>1, <1>2, RoomSetCbs
<1>10. ASSUME NEW num \in 0..TcNum, NEW of, SetMqprio(num, of)
       PROVE  RoomInv'
  BY <1>0, <1>1, <1>10 DEF SetMqprio
<1>11. ASSUME NEW k \in Kind, NEW c \in Cookies, NEW r \in Rates, AddPolicer(k, c, r)
       PROVE  RoomInv'
  BY <1>0, <1>1, <1>11 DEF AddPolicer, mapVars
<1>12. ASSUME NEW f \in filters, DelPolicer(f)
       PROVE  RoomInv'
  BY <1>0, <1>1, <1>12 DEF DelPolicer, mapVars
<1>13. CASE UNCHANGED vars
  BY <1>0, <1>1, <1>13 DEF vars, mapVars
<1>14. 0 \in 0..TcNum /\ 1..TcNum \subseteq 0..TcNum
  BY DEF TcNum
<1> QED
  BY <1>3, <1>4, <1>5, <1>6, <1>7, <1>8, <1>9, <1>10, <1>11, <1>12, <1>13, <1>14 DEF Next

\* The shapers have their types and leave room, in every state.
THEOREM RoomInvariant == Spec => []RoomInv
BY RoomInit, RoomNext, PTL DEF Spec

\* The shapers of a port leave something of the link to other frames, through all requests, changes
\* of speed, and opens of either port.
THEOREM RoomIsLeft == Spec => []LeavesRoom
<1>1. RoomInv => LeavesRoom
  BY DEF RoomInv, Roomy, LeavesRoom
<1> QED
  BY <1>1, RoomInvariant, PTL

-----------------------------------------------------------------------------
(* The map of priorities.                                                  *)

\* The map is that of a device without classes in the beginning,
LEMMA MapInit == Init => MapInv
<1> SUFFICES ASSUME Init PROVE MapInv
  OBVIOUS
<1>1. numTc = 0 /\ tcOf = [q \in Prios |-> 0] /\ up = FALSE /\ mqprioHw = FALSE
  BY DEF Init
<1>2. numTc \in 0..TcNum /\ tcOf \in [Prios -> 0..(TcNum - 1)]
  BY <1>1 DEF TcNum
<1>3. mqprioHw \in BOOLEAN /\ (mqprioHw <=> numTc # 0) /\ PrioritiesKept
  BY <1>1, Zenon DEF PrioritiesKept
<1> QED
  BY <1>2, <1>3 DEF MapInv

\* is restored by an open, if there are as many classes as FIFOs,
LEMMA MapOpen ==
  ASSUME MapInv, NEW lost \in BOOLEAN, Open(lost)
  PROVE  MapInv'
<1>1. /\ map' = ResumedMap /\ numTc' = numTc /\ tcOf' = tcOf /\ (mqprioHw' <=> mqprioHw)
      /\ "few" \notin odd' => ~(mqprioHw /\ numTc < TcNum)
  BY DEF Open
<1>2. /\ numTc \in 0..TcNum /\ tcOf \in [Prios -> 0..(TcNum - 1)] /\ (mqprioHw <=> numTc # 0)
  BY DEF MapInv
<1>3. ASSUME "few" \notin odd'
      PROVE  ResumedMap =
               IF numTc = 0 THEN DefaultMap ELSE [q \in Prios |-> TcToFifo(tcOf[q], numTc)]
  <2>1. CASE numTc = 0
    BY <1>2, <2>1 DEF ResumedMap
  <2>2. CASE numTc # 0
    <3>1. numTc = TcNum
      BY <1>1, <1>2, <1>3, <2>2 DEF TcNum
    <3>2. \A q \in Prios : TcToFifo(tcOf[q], numTc) = TcNum - 1 - tcOf[q]
      BY <1>2, <3>1 DEF TcToFifo, TcNum
    <3> QED
      BY <1>2, <2>2, <3>2 DEF ResumedMap
  <2> QED
    BY <2>1, <2>2
<1>4. PrioritiesKept'
  BY <1>1, <1>3 DEF PrioritiesKept, DefaultMap, TcToFifo
<1>5. mqprioHw' \in BOOLEAN
  BY Zenon DEF Open, MapInv
<1> QED
  BY <1>1, <1>2, <1>4, <1>5 DEF MapInv

\* is what a request makes it,
LEMMA MapSetMqprio ==
  ASSUME MapInv, NEW num \in 0..TcNum, NEW of \in [Prios -> 0..(TcNum - 1)], SetMqprio(num, of)
  PROVE  MapInv'
<1>1. /\ numTc' = num /\ tcOf' = of /\ (mqprioHw' <=> num # 0) /\ up' = up /\ odd' = odd
      /\ map' = IF num = 0 THEN DefaultMap ELSE [q \in Prios |-> TcToFifo(of[q], num)]
  BY DEF SetMqprio
<1>2. mqprioHw' \in BOOLEAN
  BY Zenon DEF SetMqprio
<1>3. PrioritiesKept'
  BY <1>1 DEF PrioritiesKept, DefaultMap, TcToFifo
<1> QED
  BY <1>1, <1>2, <1>3 DEF MapInv

\* and is left alone by every other step.
LEMMA MapNext == MapInv /\ [Next]_vars => MapInv'
<1> SUFFICES ASSUME MapInv, [Next]_vars PROVE MapInv'
  OBVIOUS
<1>1. ASSUME UNCHANGED mapVars, up' => up, odd \subseteq odd'
      PROVE  MapInv'
  <2>1. map' = map /\ numTc' = numTc /\ tcOf' = tcOf /\ mqprioHw' = mqprioHw
    BY <1>1, Zenon DEF mapVars
  <2>2. /\ numTc \in 0..TcNum /\ tcOf \in [Prios -> 0..(TcNum - 1)]
        /\ mqprioHw \in BOOLEAN /\ (mqprioHw <=> numTc # 0)
    BY DEF MapInv
  <2>3. PrioritiesKept'
    BY <1>1, <2>1 DEF MapInv, PrioritiesKept, DefaultMap, TcToFifo
  <2> QED
    BY <2>1, <2>2, <2>3, Zenon DEF MapInv
<1>2. ASSUME NEW lost \in BOOLEAN, Open(lost)
      PROVE  MapInv'
  BY <1>2, MapOpen
<1>3. ASSUME NEW lost \in BOOLEAN, OtherOpen(lost)
      PROVE  MapInv'
  BY <1>1, <1>3 DEF OtherOpen
<1>4. CASE Stop
  BY <1>1, <1>4 DEF Stop
<1>5. CASE OtherStop
  BY <1>1, <1>5 DEF OtherStop
<1>6. ASSUME NEW s \in Speeds \cup {0}, Link(s)
      PROVE  MapInv'
  BY <1>1, <1>6 DEF Link
<1>7. ASSUME NEW tc \in Classes, SetCbsNoPm(tc)
      PROVE  MapInv'
  BY <1>1, <1>7 DEF SetCbsNoPm
<1>8. ASSUME NEW tc \in Classes, NEW b \in Slopes \cup {0}, SetCbs(tc, b)
      PROVE  MapInv'
  <2>1. UNCHANGED mapVars /\ up' = up /\ odd \subseteq odd'
    BY <1>8 DEF SetCbs
  <2> QED
    BY <1>1, <2>1
<1>9. ASSUME NEW num \in 1..TcNum, NEW of \in [Prios -> 0..(num - 1)], SetMqprio(num, of)
      PROVE  MapInv'
  <2>1. num \in 0..TcNum /\ of \in [Prios -> 0..(TcNum - 1)]
    BY <1>9 DEF TcNum
  <2> QED
    BY <1>9, <2>1, MapSetMqprio
<1>10. CASE SetMqprio(0, [q \in Prios |-> 0])
  <2>1. 0 \in 0..TcNum /\ [q \in Prios |-> 0] \in [Prios -> 0..(TcNum - 1)]
    BY DEF TcNum
  <2> QED
    BY <1>10, <2>1, MapSetMqprio
<1>11. ASSUME NEW k \in Kind, NEW c \in Cookies, NEW r \in Rates, AddPolicer(k, c, r)
       PROVE  MapInv'
  BY <1>1, <1>11 DEF AddPolicer
<1>12. ASSUME NEW f \in filters, DelPolicer(f)
       PROVE  MapInv'
  BY <1>1, <1>12 DEF DelPolicer
<1>13. CASE UNCHANGED vars
  BY <1>1, <1>13 DEF vars
<1> QED
  BY <1>2, <1>3, <1>4, <1>5, <1>6, <1>7, <1>8, <1>9, <1>10, <1>11, <1>12, <1>13 DEF Next

\* While the port is open its priorities go to the FIFOs of their classes, if there were as many
\* classes as FIFOs at each open: an open restores the map without asking for the last class.
THEOREM PrioritiesAreKept == Spec => []PrioritiesKept
<1>1. MapInv => PrioritiesKept
  BY DEF MapInv
<1> QED
  BY <1>1, MapInit, MapNext, PTL DEF Spec

-----------------------------------------------------------------------------
(* The policers.                                                           *)

\* A rate that fits its register is written to it.
LEMMA LimitedType ==
  ASSUME NEW old \in Nat, NEW rate \in Nat
  PROVE  /\ Limited(old, rate) \in Nat
         /\ rate \div MinPps <= LimitMask => Limited(old, rate) = rate \div MinPps
<1>1. rate \div MinPps \in Nat
  BY DEF MinPps
<1> QED
  BY <1>1 DEF Limited, LimitMask

\* There are no policers in the beginning.
LEMMA PoliceInit == Init => PoliceInv
BY DEF Init, PoliceInv, PoliceType, Policed, NoPolicer, Kind, NoCookie

\* The policers, the filters and the oddities are left alone: the registers may be written.
LEMMA PoliceKeptInv ==
  ASSUME PoliceInv, policer' = policer, filters' = filters, limit' \in [Kind -> Nat],
         odd \subseteq odd',
         \A k \in Kind : /\ policer[k].cookie = NoCookie /\ limit[k] = 0 => limit'[k] = 0
                         /\ policer[k].cookie # NoCookie /\ up'
                              /\ policer[k].rate \div MinPps <= LimitMask
                            => \/ limit'[k] = policer[k].rate \div MinPps
                               \/ up /\ limit'[k] = limit[k]
  PROVE  PoliceInv'
BY DEF PoliceInv, PoliceType, Policed

\* A policer that is added is the only one of its kind, if nothing odd has happened,
LEMMA PoliceAdd ==
  ASSUME PoliceInv, NEW k \in Kind, NEW c \in Cookies, NEW r \in Rates, AddPolicer(k, c, r)
  PROVE  PoliceInv'
<1> DEFINE new == [cookie |-> c, kind |-> k, rate |-> r]
<1>1. /\ \A f \in filters : f.cookie # c
      /\ limit' = [limit EXCEPT ![k] = Limited(limit[k], r)]
      /\ policer' = [policer EXCEPT ![k] = [cookie |-> c, rate |-> r]]
      /\ filters' = filters \cup {new} /\ up' = up /\ odd \subseteq odd'
      /\ r \div MinPps > LimitMask => "fast" \in odd'
      /\ policer[k].cookie # NoCookie => "second" \in odd'
  BY DEF AddPolicer
<1>2. PoliceType /\ r \in Nat /\ c # NoCookie
  BY RatesAssumption, CookiesAssumption DEF PoliceInv, NoCookie
<1>3. limit[k] \in Nat
  BY <1>2 DEF PoliceType
<1>4. Limited(limit[k], r) \in Nat
  BY <1>2, <1>3, LimitedType
<1>5. limit' \in [Kind -> Nat]
  BY <1>1, <1>2, <1>4 DEF PoliceType
<1>6. policer' \in [Kind -> [cookie : Cookies \cup {NoCookie}, rate : Rates \cup {0}]]
  BY <1>1, <1>2 DEF PoliceType
<1>7. /\ filters' \subseteq [cookie : Cookies, kind : Kind, rate : Rates]
      /\ \A f, g \in filters' : f.cookie = g.cookie => f = g
  BY <1>1, <1>2 DEF PoliceType
<1>8. PoliceType'
  BY <1>5, <1>6, <1>7 DEF PoliceType
<1>9. ASSUME odd' \cap {"fast", "second"} = {}, NEW j \in Kind
      PROVE  Policed(j)'
  <2>1. odd \cap {"fast", "second"} = {}
    BY <1>1, <1>9
  <2>2. Policed(j) /\ Policed(k)
    BY <2>1 DEF PoliceInv
  <2>3. policer[k].cookie = NoCookie /\ ~(r \div MinPps > LimitMask)
    BY <1>1, <1>9
  <2>4. CASE j # k
    <3>1. policer'[j] = policer[j] /\ limit'[j] = limit[j]
      BY <1>1, <1>2, <2>4 DEF PoliceType
    <3>2. \A f \in filters' : f.kind = j => f \in filters
      BY <1>1, <2>4
    <3> QED
      BY <1>1, <2>2, <3>1, <3>2 DEF Policed
  <2>5. CASE j = k
    <3>1. policer'[j] = [cookie |-> c, rate |-> r] /\ limit'[j] = Limited(limit[k], r)
      BY <1>1, <1>2, <2>5 DEF PoliceType
    <3>2. r \div MinPps \in Nat /\ r \div MinPps <= LimitMask
      BY <1>2, <2>3 DEF MinPps, LimitMask
    <3>3. limit'[j] = r \div MinPps
      BY <1>2, <1>3, <3>1, <3>2, LimitedType
    <3>4. \A f \in filters : f.kind # k
      BY <2>2, <2>3 DEF Policed
    <3>5. \A f \in filters' : f.kind = j => f = new
      BY <1>1, <2>5, <3>4
    <3>6. /\ new \in filters'
          /\ new = [cookie |-> policer'[j].cookie, kind |-> j, rate |-> policer'[j].rate]
      BY <1>1, <2>5, <3>1
    <3> QED
      BY <1>2, <3>1, <3>2, <3>3, <3>5, <3>6 DEF Policed
  <2> QED
    BY <2>4, <2>5
<1> QED
  BY <1>8, <1>9 DEF PoliceInv

\* one that is deleted takes its limit with it,
LEMMA PoliceDel ==
  ASSUME PoliceInv, NEW f \in filters, DelPolicer(f)
  PROVE  PoliceInv'
<1>1. /\ filters' = filters \ {f} /\ up' = up /\ odd' = odd
      /\ policer' = [k \in Kind |-> IF k \in Owned(f.cookie) THEN NoPolicer ELSE policer[k]]
      /\ limit' = [k \in Kind |-> IF k \in Owned(f.cookie) THEN 0 ELSE limit[k]]
  BY DEF DelPolicer
<1>2. PoliceType /\ f.cookie \in Cookies /\ f.cookie # NoCookie
  BY CookiesAssumption DEF PoliceInv, PoliceType, NoCookie
<1>3. limit' \in [Kind -> Nat]
  BY <1>1, <1>2 DEF PoliceType
<1>4. policer' \in [Kind -> [cookie : Cookies \cup {NoCookie}, rate : Rates \cup {0}]]
  BY <1>1, <1>2 DEF PoliceType, NoPolicer
<1>5. PoliceType'
  BY <1>1, <1>2, <1>3, <1>4 DEF PoliceType
<1>6. ASSUME odd' \cap {"fast", "second"} = {}, NEW k \in Kind
      PROVE  Policed(k)'
  <2>1. Policed(k)
    BY <1>1, <1>6 DEF PoliceInv
  <2>2. CASE k \in Owned(f.cookie)
    <3>1. policer[k].cookie = f.cookie
      BY <2>2 DEF Owned
    <3>2. \A g \in filters : g.kind = k => g = f
      BY <1>2, <2>1, <3>1 DEF Policed, PoliceType
    <3>3. policer'[k].cookie = NoCookie /\ limit'[k] = 0
      BY <1>1, <2>2 DEF NoPolicer
    <3> QED
      BY <1>1, <3>2, <3>3 DEF Policed
  <2>3. CASE k \notin Owned(f.cookie)
    <3>1. policer'[k] = policer[k] /\ limit'[k] = limit[k] /\ policer[k].cookie # f.cookie
      BY <1>1, <2>3 DEF Owned
    <3>2. [cookie |-> policer[k].cookie, kind |-> k, rate |-> policer[k].rate] # f
      BY <3>1
    <3> QED
      BY <1>1, <2>1, <3>1, <3>2 DEF Policed
  <2> QED
    BY <2>2, <2>3
<1> QED
  BY <1>5, <1>6 DEF PoliceInv

\* an open brings the limits back,
LEMMA PoliceOpen ==
  ASSUME PoliceInv, NEW lost \in BOOLEAN, Open(lost)
  PROVE  PoliceInv'
<1> DEFINE was == IF lost THEN NoLimit ELSE limit
<1>1. /\ limit' = ResumedLimit(was) /\ policer' = policer /\ filters' = filters
      /\ odd \subseteq odd'
  BY DEF Open
<1>2. was \in [Kind -> Nat] /\ \A k \in Kind : limit[k] = 0 => was[k] = 0
  BY DEF PoliceInv, PoliceType, NoLimit
<1> HIDE DEF was
<1>3. ASSUME NEW k \in Kind PROVE policer[k].rate \in Nat
  <2>1. policer[k] \in [cookie : Cookies \cup {NoCookie}, rate : Rates \cup {0}]
    BY DEF PoliceInv, PoliceType
  <2>2. policer[k].rate \in Rates \cup {0}
    BY <2>1
  <2> QED
    BY <2>2, RatesAssumption, 0 \in Nat
<1>4. \A k \in Kind : Limited(was[k], policer[k].rate) \in Nat
  BY <1>2, <1>3, LimitedType
<1>5. limit' \in [Kind -> Nat]
  BY <1>1, <1>2, <1>4 DEF ResumedLimit
<1>6. ASSUME NEW k \in Kind
      PROVE  /\ policer[k].cookie = NoCookie /\ limit[k] = 0 => limit'[k] = 0
             /\ policer[k].cookie # NoCookie /\ policer[k].rate \div MinPps <= LimitMask
                  => limit'[k] = policer[k].rate \div MinPps
  <2>1. limit'[k] = IF policer[k].cookie = NoCookie THEN was[k]
                    ELSE Limited(was[k], policer[k].rate)
    BY <1>1 DEF ResumedLimit
  <2> QED
    BY <1>2, <1>3, <2>1, LimitedType
<1> QED
  BY <1>1, <1>5, <1>6, PoliceKeptInv

\* and every step keeps the policers and the filters in agreement.
LEMMA PoliceNext == PoliceInv /\ [Next]_vars => PoliceInv'
<1> SUFFICES ASSUME PoliceInv, [Next]_vars PROVE PoliceInv'
  OBVIOUS
<1>1. ASSUME UNCHANGED policeVars, up' => up, odd \subseteq odd'
      PROVE  PoliceInv'
  BY <1>1 DEF policeVars, PoliceInv, PoliceType, Policed
<1>2. ASSUME NEW lost \in BOOLEAN, Open(lost)
      PROVE  PoliceInv'
  BY <1>2, PoliceOpen
<1>3. ASSUME NEW lost \in BOOLEAN, OtherOpen(lost)
      PROVE  PoliceInv'
  <2>1. /\ policer' = policer /\ filters' = filters /\ odd' = odd /\ up' = up
        /\ lost => ~up
        /\ limit' = IF lost THEN NoLimit ELSE limit
    BY <1>3 DEF OtherOpen
  <2>2. limit' \in [Kind -> Nat] /\ \A k \in Kind : limit[k] = 0 => limit'[k] = 0
    BY <2>1 DEF PoliceInv, PoliceType, NoLimit
  <2> QED
    BY <2>1, <2>2 DEF PoliceInv, PoliceType, Policed
<1>4. CASE Stop
  BY <1>1, <1>4 DEF Stop
<1>5. CASE OtherStop
  BY <1>1, <1>5 DEF OtherStop
<1>6. ASSUME NEW s \in Speeds \cup {0}, Link(s)
      PROVE  PoliceInv'
  BY <1>1, <1>6 DEF Link
<1>7. ASSUME NEW tc \in Classes, SetCbsNoPm(tc)
      PROVE  PoliceInv'
  BY <1>1, <1>7 DEF SetCbsNoPm
<1>8. ASSUME NEW tc \in Classes, NEW b \in Slopes \cup {0}, SetCbs(tc, b)
      PROVE  PoliceInv'
  <2>1. UNCHANGED policeVars /\ up' = up /\ odd \subseteq odd'
    BY <1>8 DEF SetCbs
  <2> QED
    BY <1>1, <2>1
<1>9. ASSUME NEW num, NEW of, SetMqprio(num, of)
      PROVE  PoliceInv'
  BY <1>1, <1>9 DEF SetMqprio
<1>10. ASSUME NEW k \in Kind, NEW c \in Cookies, NEW r \in Rates, AddPolicer(k, c, r)
       PROVE  PoliceInv'
  BY <1>10, PoliceAdd
<1>11. ASSUME NEW f \in filters, DelPolicer(f)
       PROVE  PoliceInv'
  BY <1>11, PoliceDel
<1>12. CASE UNCHANGED vars
  BY <1>1, <1>12 DEF vars
<1> QED
  BY <1>2, <1>3, <1>4, <1>5, <1>6, <1>7, <1>8, <1>9, <1>10, <1>11, <1>12 DEF Next

\* While the port is open its limits are those of the filters that were accepted, unless one was
\* faster than its register holds or there were two of a kind.
THEOREM FiltersAreKept == Spec => []FiltersKept
<1>1. PoliceInv => FiltersKept
  <2> SUFFICES ASSUME PoliceInv, up, odd \cap {"fast", "second"} = {}, NEW k \in Kind
               PROVE  /\ \A f \in filters : f.kind = k => limit[k] = f.rate \div MinPps
                      /\ (\A f \in filters : f.kind # k) => limit[k] = 0
    BY DEF FiltersKept
  <2>1. PoliceType /\ Policed(k)
    BY DEF PoliceInv
  <2>2. CASE policer[k].cookie = NoCookie
    BY <2>1, <2>2 DEF Policed
  <2>3. CASE policer[k].cookie # NoCookie
    <3> DEFINE g == [cookie |-> policer[k].cookie, kind |-> k, rate |-> policer[k].rate]
    <3>1. /\ g \in filters /\ limit[k] = policer[k].rate \div MinPps
          /\ \A f \in filters : f.kind = k => f.cookie = policer[k].cookie
      BY <2>1, <2>3 DEF Policed
    <3>2. \A f \in filters : f.kind = k => f = g
      BY <2>1, <3>1 DEF PoliceType
    <3> QED
      BY <3>1, <3>2
  <2> QED
    BY <2>2, <2>3
<1> QED
  BY <1>1, PoliceInit, PoliceNext, PTL DEF Spec

-----------------------------------------------------------------------------
(* The shapers.                                                            *)

\* The sum depends on the shares of the FIFOs in question alone.
LEMMA TotalSame ==
  ASSUME NEW p, NEW r, NEW S, \A f \in S : p[f] = r[f]
  PROVE  Total(p, S) = Total(r, S)
BY DEF Total

\* Without a bandwidth there is nothing to fit together.
LEMMA NoneFits ==
  ASSUME NEW c, Configured(c) = {}
  PROVE  Fits(c)
<1>1. Total(Shares(c), {}) = 0
  BY DEF Total
<1> QED
  BY <1>1 DEF Fits

\* The fit of the bandwidths depends on them and on the speed alone.
LEMMA SameFits ==
  ASSUME NEW c, Fits(c), NEW d, d.bw = c.bw, d.shp = c.shp
  PROVE  Fits(d)
<1>1. Configured(d) = Configured(c) /\ Shares(d) = Shares(c)
  BY DEF Configured, Shares, Share
<1> QED
  BY <1>1 DEF Fits

\* If each FIFO has its share, then what is shared out fits.
LEMMA SharedFits ==
  ASSUME NEW c, Roomy(c), \A f \in Configured(c) : c.pct[f] = Share(c, c.bw[f])
  PROVE  Total(Shares(c), Configured(c)) < 100
<1>1. \A f \in Configured(c) : Shares(c)[f] = c.pct[f]
  BY DEF Shares, Configured
<1>2. Total(Shares(c), Configured(c)) = Total(c.pct, Configured(c))
  BY <1>1, TotalSame
<1> QED
  BY <1>2 DEF Roomy

\* With a bandwidth there is a speed.
LEMMA SpeedOfConfigured ==
  ASSUME NEW c \in ShaperType, Fits(c), Configured(c) # {}
  PROVE  c.shp # 0
<1>1. PICK f \in Configured(c) : c.bw[f] <= c.shp * 1000
  BY DEF Fits
<1>2. c.bw[f] \in Nat /\ c.bw[f] # 0
  BY <1>1 DEF Configured, ShaperType
<1> QED
  BY <1>1, <1>2

\* A bandwidth that fits is accepted again, whatever the registers hold of the others.
LEMMA FitsAccepts ==
  ASSUME NEW c \in ShaperType, Fits(c), Holds(c), NEW f \in Configured(c)
  PROVE  Accepts(c, f, c.bw[f])
<1> DEFINE S == Configured(c) \ {f}
           p == Shares(c)
<1>1. c.shp # 0 /\ f \in Fifo
  BY SpeedOfConfigured DEF Configured
<1>2. c.bw \in [Fifo -> Nat] /\ c.pct \in [Fifo -> Nat]
  BY DEF ShaperType
<1>3. \A g \in Fifo : Share(c, c.bw[g]) \in Nat
  BY <1>1, <1>2, ShareType
<1>4. p \in [Fifo -> Nat] /\ p[f] = Share(c, c.bw[f])
  BY <1>1, <1>3 DEF Shares
<1>5. /\ f \notin S /\ S \in SUBSET Fifo /\ Configured(c) \in SUBSET Fifo
      /\ Configured(c) = S \cup {f}
  BY DEF Configured
<1>6. \A g \in S : c.pct[g] <= p[g]
  BY <1>2, <1>3, <1>5 DEF Holds, Shares
<1> HIDE DEF S, p
<1>7. Total(p, Configured(c)) = p[f] + Total(p, S)
  BY <1>1, <1>4, <1>5, TotalWith
<1>8. Total(c.pct, S) \in Nat /\ Total(c.pct, S) <= Total(p, S)
  BY <1>2, <1>4, <1>5, <1>6, TotalMonotone
<1>9. Total(p, S) \in Nat
  BY <1>4, <1>5, TotalMonotone
<1>10. Total(p, Configured(c)) < 100
  BY DEF Fits, p
<1>11. SharesWith(c, f, c.bw[f]) = p[f] + Total(c.pct, S)
  BY <1>4 DEF SharesWith, S
<1>12. SharesWith(c, f, c.bw[f]) < 100
  BY <1>1, <1>4, <1>7, <1>8, <1>9, <1>10, <1>11
<1> QED
  BY <1>12 DEF Accepts, Fits

\* One step of a resume shapes its FIFO, if that is to be shaped.
Ready(c) == Roomy(c) /\ Fits(c) /\ Holds(c)

LEMMA AgainShapes ==
  ASSUME NEW c, Ready(c), NEW f \in Fifo
  PROVE  LET d == Again(c, f)
         IN /\ Ready(d) /\ Configured(d) = Configured(c)
            /\ d.shape = c.shape \cup (Configured(c) \cap {f})
<1> DEFINE b == c.bw[f]
           d == SetRlimit(c, f, b)
<1>1. c \in ShaperType /\ b \in Nat /\ Roomy(c) /\ Fits(c) /\ Holds(c)
  BY DEF ShaperType, Ready, Roomy
<1>2. CASE b = 0
  BY <1>2 DEF Again, Configured
<1>3. CASE b # 0
  <2>1. f \in Configured(c)
    BY <1>3 DEF Configured
  <2>2. d \in ShaperType /\ Asked(c, d, f, b) /\ Moded(c, d, f, b)
    BY <1>1, SetRlimitFields
  <2>3. Accepts(c, f, b)
    BY <1>1, <2>1, FitsAccepts
  <2>4. Again(c, f) = d
    BY <1>3 DEF Again
  <2> HIDE DEF d
  <2>5. Roomy(d)
    BY <1>1, <2>2, AskedRoom
  <2>6. /\ d.ok /\ d.bw = [c.bw EXCEPT ![f] = b]
        /\ d.pct = [c.pct EXCEPT ![f] = Share(c, b)]
    BY <1>3, <2>2, <2>3, Zenon DEF Asked
  <2>7. /\ d.shape = c.shape \cup {f} /\ d.shp = c.shp
        /\ c.shape = {} => d.type = "limited" /\ d.rate = {f}
        /\ c.shape # {} => d.type = c.type /\ d.rate = c.rate \cup {f}
    BY <1>3, <2>2, <2>6, Zenon DEF Moded
  <2>8. c.bw \in [Fifo -> Nat] /\ c.pct \in [Fifo -> Nat]
    BY <1>1 DEF ShaperType
  <2>9. d.bw = c.bw
    BY <2>6, <2>8
  <2>10. Configured(d) = Configured(c) /\ \A g \in Fifo : Share(d, d.bw[g]) = Share(c, c.bw[g])
    BY <2>7, <2>9 DEF Configured, Share
  <2>11. Fits(d)
    BY <1>1, <2>7, <2>9, SameFits
  <2>12. Holds(d)
    <3>1. d.shape \subseteq Configured(d) /\ Configured(d) # {}
      BY <1>1, <2>1, <2>7, <2>10 DEF Holds
    <3>2. ASSUME NEW g \in Configured(d)
          PROVE  d.pct[g] = Share(d, d.bw[g]) \/ (g \notin d.shape /\ d.pct[g] = 0)
      <4>1. g \in Fifo /\ g \in Configured(c)
        BY <2>10 DEF Configured
      <4>2. CASE g = f
        <5>1. d.pct[g] = Share(c, b)
          BY <2>6, <2>8, <4>1, <4>2
        <5> QED
          BY <2>10, <4>1, <4>2, <5>1
      <4>3. CASE g # f
        <5>1. d.pct[g] = c.pct[g]
          BY <2>6, <2>8, <4>1, <4>3
        <5>2. c.pct[g] = Share(c, c.bw[g]) \/ (g \notin c.shape /\ c.pct[g] = 0)
          BY <1>1, <4>1 DEF Holds
        <5> QED
          BY <2>7, <2>10, <4>1, <4>3, <5>1, <5>2
      <4> QED
        BY <4>2, <4>3
    <3>3. d.rate = d.shape /\ d.type = "limited"
      BY <1>1, <2>7 DEF Holds
    <3> QED
      BY <3>1, <3>2, <3>3 DEF Holds
  <2> QED
    BY <2>1, <2>4, <2>5, <2>7, <2>10, <2>11, <2>12 DEF Ready
<1> QED
  BY <1>2, <1>3

\* A resume shapes all of them.
LEMMA CbsResumeShapes ==
  ASSUME NEW c, Ready(c)
  PROVE  Ready(CbsResume(c)) /\ CbsResume(c).shape = Configured(CbsResume(c))
<1> DEFINE d3 == Again(c, 3)
           d2 == Again(d3, 2)
           d1 == Again(d2, 1)
<1>1. 1 \in Fifo /\ 2 \in Fifo /\ 3 \in Fifo /\ Fifo = {1, 2, 3}
  BY DEF Fifo, TcNum
<1>2. /\ Ready(d3) /\ Configured(d3) = Configured(c)
      /\ d3.shape = c.shape \cup (Configured(c) \cap {3})
  BY <1>1, AgainShapes
<1> HIDE DEF d3
<1>3. /\ Ready(d2) /\ Configured(d2) = Configured(c)
      /\ d2.shape = d3.shape \cup (Configured(c) \cap {2})
  BY <1>1, <1>2, AgainShapes
<1> HIDE DEF d2
<1>4. /\ Ready(d1) /\ Configured(d1) = Configured(c)
      /\ d1.shape = d2.shape \cup (Configured(c) \cap {1})
  BY <1>1, <1>3, AgainShapes
<1>5. CbsResume(c) = d1
  BY CbsResumeSteps DEF d2, d3
<1> HIDE DEF d1
<1>6. c.shape \subseteq Configured(c) /\ Configured(c) \in SUBSET Fifo
  BY ConfiguredType DEF Ready, Holds
<1>7. d1.shape = Configured(c)
  BY <1>1, <1>2, <1>3, <1>4, <1>6
<1> QED
  BY <1>4, <1>5, <1>7

\* A reset of the registers leaves the bandwidths to be brought back.
LEMMA ClearedShapes ==
  ASSUME Ready(cbs), NEW lost \in BOOLEAN
  PROVE  Ready(Cleared(lost))
<1> DEFINE d == Cleared(lost)
<1>1. Roomy(cbs) /\ cbs \in ShaperType /\ Fits(cbs) /\ Holds(cbs)
  BY DEF Ready, Roomy
<1>2. /\ d \in ShaperType /\ d.shp = cbs.shp /\ d.bw = cbs.bw /\ d.shape = {}
      /\ ~lost => d.rate = cbs.rate /\ d.type = cbs.type /\ d.pct = cbs.pct
      /\ lost => d.rate = {} /\ d.type = "normal" /\ d.pct = [f \in Fifo |-> 0]
  BY <1>1, ClearedFields
<1>3. Roomy(d)
  BY <1>1, ClearedRoom
<1> HIDE DEF d
<1>4. Fits(d)
  BY <1>1, <1>2, SameFits
<1>5. /\ Configured(d) = Configured(cbs) /\ Configured(d) \in SUBSET Fifo
      /\ \A f \in Fifo : Share(d, d.bw[f]) = Share(cbs, cbs.bw[f])
  BY <1>2 DEF Configured, Share
<1>6. \A f \in Configured(d) : d.pct[f] = Share(d, d.bw[f]) \/ (f \notin d.shape /\ d.pct[f] = 0)
  BY <1>1, <1>2, <1>5 DEF Holds
<1>7. Configured(d) = {} => d.rate = {} /\ d.type = "normal"
  BY <1>1, <1>2, <1>5 DEF Holds
<1>8. Holds(d)
  BY <1>2, <1>6, <1>7 DEF Holds
<1> QED
  BY <1>3, <1>4, <1>8 DEF Ready, d

\* A request that is turned down changes the speed at most.
LEMMA RefusedShapes ==
  ASSUME NEW c \in ShaperType, Shaped(c), c.shape = Configured(c),
         NEW d, d.bw = c.bw, d.pct = c.pct, d.rate = c.rate, d.type = c.type, d.shape = c.shape,
         Configured(c) # {} => d.shp = c.shp
  PROVE  Shaped(d) /\ d.shape = Configured(d)
<1>1. Configured(d) = Configured(c)
  BY DEF Configured
<1>2. Fits(d)
  BY <1>1, NoneFits, SameFits DEF Shaped
<1>3. \A f \in Configured(d) : Share(d, d.bw[f]) = Share(c, c.bw[f])
  BY <1>1 DEF Share
<1>4. Holds(d)
  BY <1>1, <1>3 DEF Shaped, Holds
<1> QED
  BY <1>1, <1>2, <1>4 DEF Shaped

\* The bandwidth of the lowest shaped FIFO, or of one that is not shaped, is taken away.
LEMMA TakenShapes ==
  ASSUME NEW c \in ShaperType, Shaped(c), c.shape = Configured(c), NEW fifo \in Fifo,
         \A f \in Configured(c) : ~(f < fifo),
         NEW r \in ShaperType, r.bw = c.bw, r.pct = c.pct, r.rate = c.rate, r.type = c.type,
         r.shape = c.shape, Configured(c) \ {fifo} # {} => r.shp = c.shp,
         NEW d, Roomy(d), d.ok, Asked(r, d, fifo, 0), Moded(r, d, fifo, 0)
  PROVE  Shaped(d) /\ d.shape = Configured(d)
<1>1. d \in ShaperType /\ Configured(r) = Configured(c) /\ c.bw \in [Fifo -> Nat]
  BY DEF Roomy, Configured, ShaperType
<1>2. Configured(d) = Configured(c) \ {fifo}
  BY <1>1, AskedConfigured
<1>3. d.bw = [c.bw EXCEPT ![fifo] = 0] /\ d.pct = c.pct
  BY Zenon DEF Asked
<1>4. /\ d.shape = c.shape \ {fifo}
      /\ d.shape = {} => d.type = "normal" /\ d.rate = {}
      /\ d.shape # {} => d.shp = r.shp /\ d.type = c.type /\ d.rate = c.rate \ {fifo}
  BY Zenon DEF Moded
<1>5. d.shape = Configured(d)
  BY <1>2, <1>4
<1>6. CASE Configured(d) = {}
  <2>1. Fits(d)
    BY <1>6, NoneFits
  <2> QED
    BY <1>4, <1>5, <1>6, <2>1 DEF Shaped, Holds
<1>7. CASE Configured(d) # {}
  <2>1. d.shp = c.shp /\ d.type = c.type /\ d.rate = c.rate \ {fifo}
    BY <1>2, <1>4, <1>5, <1>7
  <2>2. ASSUME NEW f \in Configured(d)
        PROVE  /\ f \in Configured(c) /\ f \in Fifo /\ d.bw[f] = c.bw[f]
               /\ Share(d, d.bw[f]) = Share(c, c.bw[f])
               /\ d.pct[f] = Share(d, d.bw[f])
    <3>1. f \in Configured(c) /\ f # fifo /\ f \in Fifo /\ f \in c.shape
      BY <1>2 DEF Configured
    <3>2. d.bw[f] = c.bw[f]
      BY <1>1, <1>3, <3>1
    <3>3. c.pct[f] = Share(c, c.bw[f])
      BY <3>1 DEF Shaped, Holds
    <3>4. Share(d, d.bw[f]) = Share(c, c.bw[f])
      BY <2>1, <3>2 DEF Share
    <3> QED
      BY <1>3, <3>1, <3>2, <3>3, <3>4
  <2>3. Total(Shares(d), Configured(d)) < 100
    BY <2>2, SharedFits
  <2>4. \A f \in Configured(d) : \A g \in Fifo : g > f => g \in Configured(d)
    <3> SUFFICES ASSUME NEW f \in Configured(d), NEW g \in Fifo, g > f PROVE g \in Configured(d)
      OBVIOUS
    <3>1. f \in Configured(c) /\ f \in Fifo
      BY <2>2
    <3>2. g \in Configured(c)
      BY <3>1 DEF Shaped, Fits
    <3>3. g # fifo
      BY <3>1
    <3> QED
      BY <1>2, <3>2, <3>3
  <2>5. \A f \in Configured(d) : d.bw[f] <= d.shp * 1000
    BY <2>1, <2>2 DEF Shaped, Fits
  <2>6. Fits(d)
    BY <2>3, <2>4, <2>5 DEF Fits
  <2>7. d.rate = d.shape /\ d.type = "limited"
    <3>1. c.shape # {}
      BY <1>2, <1>7
    <3> QED
      BY <1>4, <2>1, <3>1 DEF Shaped, Holds
  <2> QED
    BY <1>5, <1>7, <2>2, <2>6, <2>7 DEF Shaped, Holds
<1> QED
  BY <1>6, <1>7

\* A bandwidth is accepted.
LEMMA AcceptedShapes ==
  ASSUME NEW c \in ShaperType, Shaped(c), c.shape = Configured(c), NEW fifo \in Fifo,
         NEW b \in Nat, b # 0,
         NEW r \in ShaperType, r.bw = c.bw, r.pct = c.pct, r.rate = c.rate, r.type = c.type,
         r.shape = c.shape, Configured(c) \ {fifo} # {} => r.shp = c.shp,
         NEW d, Roomy(d), d.ok, Asked(r, d, fifo, b), Moded(r, d, fifo, b)
  PROVE  Shaped(d) /\ d.shape = Configured(d)
<1>1. /\ d \in ShaperType /\ Configured(r) = Configured(c)
      /\ c.bw \in [Fifo -> Nat] /\ c.pct \in [Fifo -> Nat]
  BY DEF Roomy, Configured, ShaperType
<1>2. Configured(d) = Configured(c) \cup {fifo}
  BY <1>1, AskedConfigured
<1>3. /\ Accepts(r, fifo, b) /\ d.bw = [c.bw EXCEPT ![fifo] = b]
      /\ d.pct = [c.pct EXCEPT ![fifo] = Share(r, b)]
  BY Zenon DEF Asked
<1>4. /\ d.shape = c.shape \cup {fifo} /\ d.shp = r.shp
      /\ c.shape = {} => d.type = "limited" /\ d.rate = {fifo}
      /\ c.shape # {} => d.type = c.type /\ d.rate = c.rate \cup {fifo}
  BY Zenon DEF Moded
<1>5. d.shape = Configured(d)
  BY <1>2, <1>4
<1>6. d.bw[fifo] = b /\ d.pct[fifo] = Share(d, b)
  BY <1>1, <1>3, <1>4 DEF Share
<1>7. ASSUME NEW f \in Configured(d), f # fifo
      PROVE  /\ f \in Configured(c) /\ f \in Fifo /\ d.shp = c.shp /\ d.bw[f] = c.bw[f]
             /\ d.pct[f] = Share(d, d.bw[f])
  <2>1. f \in Configured(c) /\ f \in Fifo /\ f \in c.shape /\ d.shp = c.shp
    BY <1>2, <1>4, <1>7 DEF Configured
  <2>2. d.bw[f] = c.bw[f] /\ d.pct[f] = c.pct[f]
    BY <1>1, <1>3, <1>7, <2>1
  <2>3. c.pct[f] = Share(c, c.bw[f])
    BY <2>1 DEF Shaped, Holds
  <2>4. Share(d, d.bw[f]) = Share(c, c.bw[f])
    BY <2>1, <2>2 DEF Share
  <2> QED
    BY <2>1, <2>2, <2>3, <2>4
<1>8. \A f \in Configured(d) : d.pct[f] = Share(d, d.bw[f])
  BY <1>6, <1>7
<1>9. Total(Shares(d), Configured(d)) < 100
  BY <1>8, SharedFits
<1>10. ASSUME NEW f \in Configured(d), NEW g \in Fifo, g > f PROVE g \in Configured(d)
  <2>1. CASE f = fifo
    BY <1>1, <1>2, <1>3, <1>10, <2>1 DEF Accepts
  <2>2. CASE f # fifo
    BY <1>2, <1>7, <1>10, <2>2 DEF Shaped, Fits
  <2> QED
    BY <2>1, <2>2
<1>11. ASSUME NEW f \in Configured(d) PROVE d.bw[f] <= d.shp * 1000
  <2>1. CASE f = fifo
    BY <1>3, <1>4, <1>6, <2>1 DEF Accepts
  <2>2. CASE f # fifo
    BY <1>7, <2>2 DEF Shaped, Fits
  <2> QED
    BY <2>1, <2>2
<1>12. Fits(d)
  BY <1>9, <1>10, <1>11 DEF Fits
<1>13. d.rate = d.shape /\ d.type = "limited" /\ Configured(d) # {}
  BY <1>2, <1>4 DEF Shaped, Holds
<1> QED
  BY <1>5, <1>8, <1>12, <1>13 DEF Shaped, Holds

\* A request keeps the registers to what is configured, whatever its result.
LEMMA ShapesSetCbs ==
  ASSUME RoomInv, ShapesInv, NEW tc \in Classes, NEW b \in Slopes \cup {0}, SetCbs(tc, b)
  PROVE  ShapesInv'
<1> DEFINE fifo == TcToFifo(tc, numTc)
           set == SetRlimit(Respeed, fifo, b)
<1> SUFFICES ASSUME Steady' PROVE Shaped(cbs') /\ cbs'.shape = Configured(cbs')
  BY DEF ShapesInv, Shaped, Fits, Holds, Configured, Shares, Share
<1>1. fifo \in Fifo /\ cbs' = IF set.ok THEN set ELSE [set EXCEPT !.shp = Shp(cbs.shp, link)]
  BY SetCbsSteps, ClassFifo DEF RoomInv
<1>2. b \in Nat /\ cbs \in ShaperType /\ link \in Nat /\ Roomy(cbs)
  BY SlopesAssumption DEF RoomInv, Roomy
<1>3. /\ Respeed \in ShaperType /\ Respeed.bw = cbs.bw /\ Respeed.pct = cbs.pct
      /\ Respeed.rate = cbs.rate /\ Respeed.type = cbs.type /\ Respeed.shape = cbs.shape
  BY <1>2, RespeedFields
<1>4. odd \cap {"rejected", "speed", "order", "asleep"} = {}
  BY DEF SetCbs, Steady
<1>5. /\ ~set.ok /\ Configured(cbs) # {} => Shp(cbs.shp, link) = cbs.shp
      /\ set.ok /\ Configured(cbs) \ {fifo} # {} => Respeed.shp = cbs.shp
      /\ b = 0 => \A f \in Configured(cbs) : ~(f < fifo)
      /\ cbs.shape = Configured(cbs)
  BY DEF SetCbs, Steady, Respeed
<1>6. Shaped(cbs)
  BY <1>4 DEF ShapesInv, Steady
<1> HIDE DEF fifo
<1>7. set \in ShaperType /\ Asked(Respeed, set, fifo, b) /\ Moded(Respeed, set, fifo, b)
  BY <1>1, <1>2, <1>3, SetRlimitFields
<1> HIDE DEF set
<1>8. Roomy(Respeed)
  BY <1>2, <1>3, SameRoom
<1>9. Roomy(set)
  BY <1>1, <1>2, <1>7, <1>8, AskedRoom
<1>10. CASE ~set.ok
  <2> DEFINE d == [set EXCEPT !.shp = Shp(cbs.shp, link)]
  <2>1. set.bw = Respeed.bw /\ set.pct = Respeed.pct
    BY <1>7, <1>10, Zenon DEF Asked
  <2>2. set.rate = Respeed.rate /\ set.type = Respeed.type /\ set.shape = Respeed.shape
    BY <1>7, <1>10, Zenon DEF Moded
  <2>3. Shp(cbs.shp, link) \in Nat
    BY <1>2, ShpType DEF ShaperType
  <2>4. /\ d.shp = Shp(cbs.shp, link) /\ d.bw = set.bw /\ d.pct = set.pct
        /\ d.rate = set.rate /\ d.type = set.type /\ d.shape = set.shape
    BY <1>7, <2>3, Respeeded
  <2>5. cbs' = d
    BY <1>1, <1>10
  <2> HIDE DEF d
  <2> QED
    BY <1>2, <1>3, <1>5, <1>6, <1>10, <2>1, <2>2, <2>4, <2>5, RefusedShapes
<1>11. CASE set.ok /\ b = 0
  BY <1>1, <1>2, <1>3, <1>5, <1>6, <1>7, <1>9, <1>11, TakenShapes
<1>12. CASE set.ok /\ b # 0
  BY <1>1, <1>2, <1>3, <1>5, <1>6, <1>7, <1>9, <1>12, AcceptedShapes
<1> QED
  BY <1>10, <1>11, <1>12

\* No FIFO is shaped in the beginning.
LEMMA ShapesInit == Init => ShapesInv
<1> SUFFICES ASSUME Init PROVE ShapesInv
  OBVIOUS
<1>1. /\ cbs.bw = [f \in Fifo |-> 0] /\ cbs.rate = {} /\ cbs.type = "normal" /\ cbs.shape = {}
      /\ up = FALSE
  BY DEF Init
<1>2. Configured(cbs) = {}
  BY <1>1 DEF Configured
<1>3. Fits(cbs)
  BY <1>2, NoneFits
<1> QED
  BY <1>1, <1>2, <1>3 DEF ShapesInv, Shaped, Holds

\* Every step keeps the registers of an open port to what is configured.
LEMMA ShapesNext == RoomInv /\ ShapesInv /\ [Next]_vars => ShapesInv'
<1> SUFFICES ASSUME RoomInv, ShapesInv, [Next]_vars PROVE ShapesInv'
  OBVIOUS
<1>0. Roomy(cbs)
  BY DEF RoomInv
<1>1. ASSUME Steady' => Steady /\ Shaped(cbs') /\ (up' => cbs'.shape = Configured(cbs'))
      PROVE  ShapesInv'
  BY <1>1 DEF ShapesInv, Shaped, Fits, Holds, Configured, Shares, Share
<1>2. ASSUME cbs' = cbs, up' => up, odd' = odd
      PROVE  ShapesInv'
  BY <1>1, <1>2 DEF ShapesInv, Steady
<1>3. ASSUME NEW lost \in BOOLEAN, Open(lost)
      PROVE  ShapesInv'
  <2> SUFFICES ASSUME Steady' PROVE Steady /\ Shaped(cbs') /\ cbs'.shape = Configured(cbs')
    BY <1>1
  <2> DEFINE c == IF others THEN cbs ELSE Cleared(lost)
             d == CbsResume(c)
  <2>1. Steady
    BY <1>3 DEF Open, Steady
  <2>2. Ready(cbs)
    BY <1>0, <2>1 DEF ShapesInv, Shaped, Ready
  <2>3. Ready(c)
    BY <2>2, ClearedShapes
  <2> HIDE DEF c
  <2>4. Ready(d) /\ d.shape = Configured(d)
    BY <2>3, CbsResumeShapes
  <2>5. cbs' = [d EXCEPT !.ok = TRUE]
    BY <1>3 DEF Open, c
  <2> HIDE DEF d
  <2>6. d \in ShaperType /\ Shaped(d)
    BY <2>4 DEF Ready, Roomy, Shaped
  <2>7. /\ cbs'.shp = d.shp /\ cbs'.bw = d.bw /\ cbs'.pct = d.pct
        /\ cbs'.rate = d.rate /\ cbs'.type = d.type /\ cbs'.shape = d.shape
    BY <2>5, <2>6, Succeeded
  <2> QED
    BY <2>1, <2>4, <2>6, <2>7, RefusedShapes
<1>4. ASSUME NEW lost \in BOOLEAN, OtherOpen(lost)
      PROVE  ShapesInv'
  <2>1. cbs' = (IF up THEN cbs ELSE Cleared(lost)) /\ up' = up /\ odd' = odd
    BY <1>4 DEF OtherOpen
  <2>2. CASE up
    BY <1>2, <2>1, <2>2
  <2>3. CASE ~up
    <3> SUFFICES ASSUME Steady' PROVE Steady /\ Shaped(cbs')
      BY <1>1, <2>1, <2>3
    <3>1. Steady
      BY <2>1 DEF Steady
    <3>2. Ready(cbs)
      BY <1>0, <3>1 DEF ShapesInv, Shaped, Ready
    <3>3. Ready(Cleared(lost))
      BY <3>2, ClearedShapes
    <3> QED
      BY <2>1, <2>3, <3>1, <3>3 DEF Ready, Shaped
  <2> QED
    BY <2>2, <2>3
<1>5. CASE Stop
  BY <1>2, <1>5 DEF Stop
<1>6. CASE OtherStop
  BY <1>2, <1>6 DEF OtherStop
<1>7. ASSUME NEW s \in Speeds \cup {0}, Link(s)
      PROVE  ShapesInv'
  BY <1>2, <1>7 DEF Link
<1>8. ASSUME NEW tc \in Classes, SetCbsNoPm(tc)
      PROVE  ShapesInv'
  <2> SUFFICES ASSUME Steady'
               PROVE  Steady /\ Shaped(cbs') /\ (up' => cbs'.shape = Configured(cbs'))
    BY <1>1
  <2>1. Steady /\ Configured(cbs) = {} /\ cbs' = [cbs EXCEPT !.shp = link] /\ up' = up
    BY <1>8 DEF SetCbsNoPm, Steady
  <2>2. cbs \in ShaperType /\ link \in Nat /\ Shaped(cbs)
    BY <2>1 DEF RoomInv, Roomy, ShapesInv
  <2>3. /\ cbs'.bw = cbs.bw /\ cbs'.pct = cbs.pct
        /\ cbs'.rate = cbs.rate /\ cbs'.type = cbs.type /\ cbs'.shape = cbs.shape
    BY <2>1, <2>2, Respeeded
  <2>4. cbs.shape = Configured(cbs)
    BY <2>1, <2>2 DEF Shaped, Holds
  <2> QED
    BY <2>1, <2>2, <2>3, <2>4, RefusedShapes
<1>9. ASSUME NEW tc \in Classes, NEW b \in Slopes \cup {0}, SetCbs(tc, b)
      PROVE  ShapesInv'
  BY <1>9, ShapesSetCbs
<1>10. ASSUME NEW num, NEW of, SetMqprio(num, of)
       PROVE  ShapesInv'
  BY <1>2, <1>10 DEF SetMqprio
<1>11. ASSUME NEW k \in Kind, NEW c \in Cookies, NEW r \in Rates, AddPolicer(k, c, r)
       PROVE  ShapesInv'
  <2>1. /\ cbs' = cbs /\ up' = up /\ odd \subseteq odd'
    BY <1>11 DEF AddPolicer
  <2> QED
    BY <1>1, <2>1 DEF ShapesInv, Steady
<1>12. ASSUME NEW f \in filters, DelPolicer(f)
       PROVE  ShapesInv'
  BY <1>2, <1>12 DEF DelPolicer
<1>13. CASE UNCHANGED vars
  BY <1>2, <1>13 DEF vars
<1> QED
  BY <1>3, <1>4, <1>5, <1>6, <1>7, <1>8, <1>9, <1>10, <1>11, <1>12, <1>13 DEF Next

\* While the port is open the hardware shapes the FIFOs that a bandwidth was accepted for, unless a
\* request was turned down and took the speed with it, or shapers were changed at another speed, in
\* another order or while the registers were cleared.
THEOREM ShapesAreKept == Spec => []ShapesKept
<1>1. RoomInv /\ ShapesInv => ShapesKept
  <2> SUFFICES ASSUME RoomInv, ShapesInv, up, Steady
               PROVE  /\ cbs.shape = Configured(cbs) /\ cbs.rate = cbs.shape
                      /\ cbs.type = (IF cbs.shape = {} THEN "normal" ELSE "limited")
                      /\ \A f \in cbs.shape : \A g \in Fifo : g > f => g \in cbs.shape
                      /\ \A f \in cbs.shape : cbs.pct[f] * cbs.shp * 10 >= cbs.bw[f]
    BY DEF ShapesKept, Steady
  <2>1. /\ cbs \in ShaperType /\ Fits(cbs) /\ Holds(cbs) /\ cbs.shape = Configured(cbs)
    BY DEF RoomInv, Roomy, ShapesInv, Shaped
  <2>2. cbs.rate = cbs.shape /\ cbs.type = (IF cbs.shape = {} THEN "normal" ELSE "limited")
    BY <2>1 DEF Holds
  <2>3. \A f \in cbs.shape : \A g \in Fifo : g > f => g \in cbs.shape
    BY <2>1 DEF Fits
  <2>4. ASSUME NEW f \in cbs.shape PROVE cbs.pct[f] * cbs.shp * 10 >= cbs.bw[f]
    <3>1. cbs.shp # 0 /\ cbs.pct[f] = Share(cbs, cbs.bw[f])
      BY <2>1, SpeedOfConfigured DEF Holds
    <3>2. f \in Fifo /\ cbs.bw[f] \in Nat /\ cbs.shp \in Nat
      BY <2>1 DEF Configured, ShaperType
    <3>3. Share(cbs, cbs.bw[f]) \in Nat /\ Share(cbs, cbs.bw[f]) * (cbs.shp * 10) >= cbs.bw[f]
      BY <2>1, <3>1, <3>2, ShareType
    <3>4. cbs.pct[f] * cbs.shp * 10 = cbs.pct[f] * (cbs.shp * 10)
      BY <3>1, <3>2, <3>3
    <3> QED
      BY <3>1, <3>3, <3>4
  <2> QED
    BY <2>1, <2>2, <2>3, <2>4
<1> QED
  BY <1>1, RoomInit, RoomNext, ShapesInit, ShapesNext, PTL DEF Spec

\* What the port was asked to take over is what its registers say.
THEOREM QosIsKept == Spec => []QosKept
<1>1. ShapesKept /\ PrioritiesKept /\ FiltersKept => QosKept
  BY DEF QosKept
<1> QED
  BY <1>1, ShapesAreKept, PrioritiesAreKept, FiltersAreKept, PTL

=============================================================================
