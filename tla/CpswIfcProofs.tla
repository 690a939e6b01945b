----------------------------- MODULE CpswIfcProofs -----------------------------
(***************************************************************************)
(* Proofs about CpswIfc, for any number of interfaces and receive          *)
(* channels.                                                               *)
(*                                                                         *)
(* usage_count is compared with the set of interfaces that are open at     *)
(* each point of an operation (UserSet); that it is right is inductive     *)
(* together with NAPI being enabled exactly while it is not zero, whatever *)
(* fails.  What the users are served with (DataInv) is not: a refill that  *)
(* fails half-way in an ethtool operation leaves descriptors on a channel  *)
(* for good.  Those theorems assume that this does not happen.             *)
(***************************************************************************)
EXTENDS CpswIfc, FiniteSetTheorems, TLAPS

Levels == {"empty", "part", "full"}
Ops == {"none", "open", "close", "suspend", "resume", "fail", "channels", "ring"}

Types ==
  /\ running \subseteq Ifc /\ todo \subseteq running
  /\ usage \in Nat
  /\ rxch \in Chan /\ want \in Chan
  /\ pools \subseteq Chan
  /\ ring \in [Chan -> Levels]
  /\ op \in Ops

\* What the interfaces yet to visit are in each operation, and when an open can be in its error
\* path: only before it has a user.
OpInv ==
  /\ op \in {"none", "channels", "ring"} => todo = {}
  /\ op = "fail" => todo = running
  /\ asleep => op \in {"none", "suspend"}
  /\ op = "suspend" => asleep
  /\ err => op \in {"open", "resume"} /\ usage = 0

\* The interfaces whose open has been done and whose stop has not.
UserSet ==
  IF op = "suspend" THEN todo
  ELSE IF op \in {"open", "resume"} THEN running \ todo
  ELSE IF asleep THEN {} ELSE running

UsersInv ==
  /\ usage = IF broken THEN 0 ELSE Cardinality(UserSet)
  /\ napi <=> usage > 0

UsageInv == Types /\ OpInv /\ UsersInv

\* What users are served with, and nobody else.
ServedNow ==
  /\ dma <=> usage > 0
  /\ usage > 0 => irq /\ \A c \in 1..rxch : c \in pools /\ ring[c] = "full"
  /\ usage = 0 => ring = Empty

\* The operations that have stopped the engine while there are users.
Suspended == op \in {"channels", "ring", "fail"}

DataInv ==
  /\ PoolOutlivesPages
  /\ Suspended => ~dma /\ ring = Empty
  /\ op \in {"channels", "ring"} /\ usage > 0 => \A c \in 1..rxch : c \in pools
  /\ ~Suspended /\ ~err => ServedNow

-----------------------------------------------------------------------------
(* The numbers of interfaces.                                              *)

\* The numbers of the users, with one more and with one less.
LEMMA Cards ==
  ASSUME NEW S, S \subseteq Ifc
  PROVE  /\ Cardinality(S) \in Nat
         /\ Cardinality(S) = 0 <=> S = {}
         /\ \A n \in S : Cardinality(S \ {n}) = Cardinality(S) - 1
         /\ \A n \in Ifc \ S : Cardinality(S \cup {n}) = Cardinality(S) + 1
<1>1. IsFiniteSet(S)
  <2>1. IsFiniteSet(Ifc)
    BY NumAssumption, FS_Interval DEF Ifc
  <2>2. QED
    BY <2>1, FS_Subset
<1>2. QED
  BY <1>1, FS_CardinalityType, FS_EmptySet, FS_RemoveElement, FS_AddElement

\* There is a channel 1.
LEMMA Chans ==
  ASSUME NEW k \in Chan
  PROVE  k \in Nat /\ 1..k \subseteq Chan
BY NumAssumption DEF Chan

-----------------------------------------------------------------------------
(* What a fill of the channels up to k does to rings r.                    *)

\* One that succeeds fills them all, and touches no other.
LEMMA FillAll ==
  ASSUME NEW r \in [Chan -> Levels], NEW k \in Chan, NEW faults, Fill(r, k, faults, TRUE)
  PROVE  /\ ring' \in [Chan -> Levels]
         /\ \A c \in 1..k : ring'[c] = "full"
         /\ \A c \in Chan : c > k => ring'[c] = r[c]
<1>1. ring' = [d \in Chan |-> IF d <= k THEN "full" ELSE r[d]]
  BY DEF Fill
<1>2. QED
  BY <1>1, Chans DEF Levels, Chan

\* One that fails puts descriptors on those channels only.
LEMMA FillSome ==
  ASSUME NEW r \in [Chan -> Levels], NEW k \in Chan, NEW faults, Fill(r, k, faults, FALSE)
  PROVE  /\ ring' \in [Chan -> Levels]
         /\ \A c \in Chan : c > k => ring'[c] = r[c]
<1> DEFINE UpTo(c, a) == [d \in Chan |-> IF d < c THEN "full" ELSE IF d = c THEN a ELSE r[d]]
<1>1. PICK c \in 1..k, a \in Levels : ring' = UpTo(c, a)
  <2>1. PICK c \in 1..k : \/ ring' = UpTo(c, "full")
                          \/ ring' \in {UpTo(c, a) : a \in {r[c], "part"}}
    BY DEF Fill
  <2>2. c \in Chan /\ r[c] \in Levels /\ {"part", "full"} \subseteq Levels
    BY NumAssumption DEF Chan, Levels
  <2>3. QED
    BY <2>1, <2>2
<1>2. k \in Nat /\ c <= k /\ "full" \in Levels
  BY NumAssumption DEF Chan, Levels
<1>3. QED
  BY <1>1, <1>2 DEF Chan

\* No user, and NAPI off, in the beginning.
LEMMA UsageInit == Init => UsageInv
<1> SUFFICES ASSUME Init PROVE UsageInv
  OBVIOUS
<1>1. Types
  BY NumAssumption DEF Init, Types, Ops, Levels, Chan, Empty
<1>2. UserSet = {}
  BY DEF Init, UserSet
<1>3. Cardinality({}) = 0
  BY FS_EmptySet
<1>4. UsersInv
  BY <1>2, <1>3 DEF Init, UsersInv
<1>5. QED
  BY <1>1, <1>4 DEF Init, UsageInv, OpInv

-----------------------------------------------------------------------------
(* The steps of open and stop.                                             *)

\* What Visited makes of the operation.
LEMMA VisitedOp ==
  ASSUME UsageInv, NEW n \in Ifc, n \in todo, Visited(n)
  PROVE  /\ todo' = todo \ {n} /\ ~err'
         /\ op' \in {op, "none"} /\ (op' = "none" => todo' = {})
         /\ op \notin {"none", "channels", "ring"}
BY DEF UsageInv, Types, OpInv, Visited

\* An interface that is visited by an open or a resume joins the users.
LEMMA OpenedUserSet ==
  ASSUME UsageInv, NEW n \in Ifc, Opening(n), Visited(n), UNCHANGED <<running, asleep>>
  PROVE  /\ UserSet = running \ todo /\ UserSet' = UserSet \cup {n}
         /\ n \notin UserSet /\ UserSet \subseteq Ifc
<1>1. n \in todo /\ op \in {"open", "resume"}
  BY DEF Opening, Current
<1>2. /\ todo' = todo \ {n} /\ op' \in {op, "none"} /\ (op' = "none" => todo' = {})
  BY <1>1, VisitedOp
<1>3. n \in running /\ running \subseteq Ifc /\ ~asleep
  BY <1>1 DEF UsageInv, Types, OpInv
<1>4. UserSet' = running \ todo'
  BY <1>1, <1>2, <1>3 DEF UserSet
<1>5. QED
  BY <1>1, <1>2, <1>3, <1>4 DEF UserSet

\* An open counts its interface, or leaves the count alone when it fails.
LEMMA OpenUsage ==
  ASSUME UsageInv, NEW n \in Ifc, NdoOpen(n)
  PROVE  UsageInv'
<1> USE DEF devVars
<1>1. n \in todo /\ op \in {"open", "resume"} /\ ~err /\ n \in running
  BY DEF NdoOpen, OpenRefused, OpenFails, OpenSucceeds, Opening, Current, UsageInv, Types
<1>2. CASE OpenRefused(n)
  <2>1. /\ todo' = todo \ {n} /\ ~err' /\ op' \in {op, "none"} /\ (op' = "none" => todo' = {})
    BY <1>1, <1>2, VisitedOp DEF OpenRefused
  <2>2. Types' /\ OpInv'
    BY <1>1, <1>2, <2>1 DEF OpenRefused, UsageInv, Types, OpInv, Ops
  <2>3. CASE broken'
    <3>1. usage = 0
      BY <1>2, <2>3 DEF OpenRefused, UsageInv, UsersInv
    <3>2. QED
      BY <1>2, <2>2, <2>3, <3>1 DEF OpenRefused, UsageInv, UsersInv
  <2>4. CASE ~broken'
    <3>1. op = "open" /\ ~broken /\ running' = running \ {n}
      BY <1>1, <1>2, <2>4, FaultAssumption DEF OpenRefused, Faults
    <3>2. UserSet' = UserSet
      BY <1>1, <1>2, <2>1, <3>1 DEF OpenRefused, UserSet, UsageInv, Types, OpInv
    <3>3. QED
      BY <1>2, <2>2, <2>4, <3>1, <3>2 DEF OpenRefused, UsageInv, UsersInv
  <2>5. QED
    BY <2>3, <2>4
<1>3. CASE OpenFails(n)
  <2>1. Types'
    <3>1. ring' \in [Chan -> Levels]
      <4>1. ring \in [Chan -> Levels] /\ rxch \in Chan
        BY DEF UsageInv, Types
      <4>2. ring' = ring \/ Fill(ring, rxch, Faults, FALSE)
        BY <1>3 DEF OpenFails
      <4>3. CASE Fill(ring, rxch, Faults, FALSE)
        BY <4>1, <4>3, FillSome
      <4>4. QED
        BY <4>1, <4>2, <4>3
    <3>2. pools' \subseteq Chan
      BY <1>3, Chans DEF OpenFails, UsageInv, Types
    <3>3. QED
      BY <1>3, <3>1, <3>2 DEF OpenFails, UsageInv, Types
  <2>2. OpInv' /\ UsersInv'
    BY <1>1, <1>3 DEF OpenFails, UsageInv, OpInv, UsersInv, UserSet
  <2>3. QED
    BY <2>1, <2>2 DEF UsageInv
<1>4. CASE OpenSucceeds(n)
  <2>1. /\ todo' = todo \ {n} /\ ~err' /\ op' \in {op, "none"} /\ (op' = "none" => todo' = {})
    BY <1>1, <1>4, VisitedOp DEF OpenSucceeds
  <2>2. Types'
    <3>1. ring' \in [Chan -> Levels]
      <4>1. ring \in [Chan -> Levels] /\ rxch \in Chan
        BY DEF UsageInv, Types
      <4>2. ring' = ring \/ Fill(ring, rxch, Faults, TRUE)
        BY <1>4 DEF OpenSucceeds
      <4>3. CASE Fill(ring, rxch, Faults, TRUE)
        BY <4>1, <4>3, FillAll
      <4>4. QED
        BY <4>1, <4>2, <4>3
    <3>2. pools' \subseteq Chan
      BY <1>4, Chans DEF OpenSucceeds, UsageInv, Types
    <3>3. QED
      BY <1>1, <1>4, <2>1, <3>1, <3>2 DEF OpenSucceeds, UsageInv, Types, Ops
  <2>3. OpInv'
    BY <1>1, <1>4, <2>1 DEF OpenSucceeds, UsageInv, OpInv
  <2>4. ~broken
    BY <1>4 DEF OpenSucceeds, Powered, UsageInv, UsersInv
  <2>5. /\ UserSet' = UserSet \cup {n} /\ n \notin UserSet /\ UserSet \subseteq Ifc
    BY <1>4, OpenedUserSet DEF OpenSucceeds
  <2>6. Cardinality(UserSet') = Cardinality(UserSet) + 1
    BY <2>5, Cards
  <2>7. usage' = usage + 1 /\ broken' = broken /\ usage \in Nat
    BY <1>4 DEF OpenSucceeds, UsageInv, Types
  <2>8. napi'
    <3>1. CASE usage = 0
      BY <1>4, <3>1 DEF OpenSucceeds
    <3>2. CASE usage # 0
      <4>1. usage > 0 /\ napi
        BY <3>2, <2>7 DEF UsageInv, UsersInv
      <4>2. QED
        BY <1>4, <3>2, <4>1 DEF OpenSucceeds
    <3>3. QED
      BY <3>1, <3>2
  <2>9. UsersInv'
    BY <2>4, <2>6, <2>7, <2>8 DEF UsageInv, UsersInv
  <2>10. QED
    BY <2>2, <2>3, <2>9 DEF UsageInv
<1>5. QED
  BY <1>2, <1>3, <1>4 DEF NdoOpen

\* A stop only gets through when there is a user: otherwise it waits for NAPI.
LEMMA StopHasUser ==
  ASSUME UsageInv, NEW n \in Ifc, NdoStop(n)
  PROVE  /\ napi /\ usage \in Nat \ {0} /\ ~broken /\ ~err /\ ~err'
         /\ op \in {"close", "suspend", "fail"}
         /\ n \in todo /\ n \in running
         /\ todo' = todo \ {n} /\ op' \in {op, "none"} /\ (op' = "none" => todo' = {})
<1>1. n \in todo /\ n \in running /\ usage \in Nat /\ Visited(n)
  BY DEF NdoStop, Current, UsageInv, Types
<1>2. napi
  <2>1. CASE LastUser
    BY <2>1 DEF NdoStop, TearDown
  <2>2. CASE ~LastUser
    <3>1. usage > 0
      BY <1>1, <2>2 DEF LastUser
    <3>2. QED
      BY <3>1 DEF UsageInv, UsersInv
  <2>3. QED
    BY <2>1, <2>2
<1>3. usage # 0 /\ ~broken /\ ~err
  BY <1>1, <1>2 DEF UsageInv, UsersInv, OpInv
<1>4. QED
  BY <1>1, <1>2, <1>3, VisitedOp DEF NdoStop

\* A stop takes its interface off the count.
LEMMA StopUsage ==
  ASSUME UsageInv, NEW n \in Ifc, NdoStop(n)
  PROVE  UsageInv'
<1>1. /\ napi /\ usage \in Nat \ {0} /\ ~broken /\ ~err /\ ~err'
      /\ op \in {"close", "suspend", "fail"}
      /\ n \in todo /\ n \in running
      /\ todo' = todo \ {n} /\ op' \in {op, "none"} /\ (op' = "none" => todo' = {})
  BY StopHasUser
<1>2. /\ usage' = usage - 1
      /\ UNCHANGED <<asleep, broken, rxch, want>>
      /\ running' = IF op = "suspend" THEN running ELSE running \ {n}
  BY <1>1 DEF NdoStop
<1>3. Types'
  <2>1. ring' \in [Chan -> Levels] /\ pools' \subseteq Chan
    BY DEF NdoStop, TearDown, CtlrStop, UsageInv, Types, Empty, Levels
  <2>2. QED
    BY <1>1, <1>2, <2>1 DEF UsageInv, Types, Ops
<1>4. OpInv'
  BY <1>1, <1>2 DEF UsageInv, OpInv
<1>5. n \in UserSet /\ UserSet \subseteq Ifc /\ UserSet' = UserSet \ {n}
  BY <1>1, <1>2 DEF UserSet, UsageInv, OpInv, Types
<1>6. UsersInv'
  <2>1. usage' = Cardinality(UserSet') /\ ~broken'
    BY <1>1, <1>2, <1>5, Cards DEF UsageInv, UsersInv
  <2>2. CASE usage = 1
    BY <1>2, <2>1, <2>2 DEF NdoStop, LastUser, TearDown, UsersInv
  <2>3. CASE usage # 1
    <3>1. ~LastUser /\ usage' > 0
      BY <1>1, <1>2, <2>3 DEF LastUser
    <3>2. napi'
      BY <1>1, <3>1 DEF NdoStop
    <3>3. QED
      BY <2>1, <3>1, <3>2 DEF UsersInv
  <2>4. QED
    BY <2>2, <2>3
<1>7. QED
  BY <1>3, <1>4, <1>6 DEF UsageInv

-----------------------------------------------------------------------------
(* The steps that take RTNL, those of the ethtool operations, and the rest.*)

\* With the users and the device as they were, the count is still theirs.
LEMMA SameUsers ==
  ASSUME UsersInv, UserSet' = UserSet, UNCHANGED <<usage, napi, broken>>
  PROVE  UsersInv'
BY DEF UsersInv

\* An operation that begins has not visited anybody yet.
LEMMA TakeUsage ==
  ASSUME UsageInv, (\E n \in Ifc : Open(n) \/ Close(n)) \/ Suspend \/ Resume
  PROVE  UsageInv'
<1>1. op = "none" /\ ~err /\ UsersInv
  BY DEF Open, Close, Suspend, Resume, RtnlFree, UsageInv, OpInv
<1>2. UNCHANGED <<usage, napi, broken, rxch, pools, ring, err, want>>
  BY DEF Open, Close, Suspend, Resume, Begin, devVars
<1>3. Types' /\ OpInv' /\ UserSet' = UserSet
  <2>1. ASSUME NEW n \in Ifc, Open(n)
        PROVE  Types' /\ OpInv' /\ UserSet' = UserSet
    BY <1>1, <1>2, <2>1 DEF Open, Begin, UsageInv, Types, Ops, OpInv, UserSet
  <2>2. ASSUME NEW n \in Ifc, Close(n)
        PROVE  Types' /\ OpInv' /\ UserSet' = UserSet
    BY <1>1, <1>2, <2>2 DEF Close, Begin, UsageInv, Types, Ops, OpInv, UserSet
  <2>3. CASE Suspend
    BY <1>1, <1>2, <2>3 DEF Suspend, Begin, UsageInv, Types, Ops, OpInv, UserSet
  <2>4. CASE Resume
    BY <1>1, <1>2, <2>4 DEF Resume, Begin, UsageInv, Types, Ops, OpInv, UserSet
  <2>5. QED
    BY <2>1, <2>2, <2>3, <2>4
<1>4. QED
  BY <1>1, <1>2, <1>3, SameUsers DEF UsageInv

\* Stopping the engine for an ethtool operation leaves the users alone,
LEMMA SuspendPassUsage ==
  ASSUME UsageInv, NEW o \in {"channels", "ring"}, NEW k \in Chan, SuspendDataPass(o, k)
  PROVE  UsageInv'
<1>1. op = "none" /\ ~asleep /\ ~err /\ UsersInv
  BY DEF SuspendDataPass, RtnlFree, UsageInv, OpInv
<1>2. UNCHANGED <<running, asleep, broken, usage, napi, rxch, pools, todo, err>>
  BY DEF SuspendDataPass
<1>3. ring' \in [Chan -> Levels]
  BY DEF SuspendDataPass, CtlrStop, UsageInv, Types, Empty, Levels
<1>4. Types'
  BY <1>2, <1>3 DEF SuspendDataPass, UsageInv, Types, Ops
<1>5. OpInv'
  BY <1>1, <1>2 DEF SuspendDataPass, UsageInv, OpInv
<1>6. UserSet' = UserSet
  BY <1>1, <1>2 DEF SuspendDataPass, UserSet
<1>7. QED
  BY <1>1, <1>2, <1>4, <1>5, <1>6, SameUsers DEF UsageInv

\* The rings of the channels that are left.
LEMMA KeptRings ==
  ASSUME Types, NEW k \in Chan
  PROVE  /\ Kept(k) \in [Chan -> Levels]
         /\ \A c \in 1..k : Kept(k)[c] = ring[c]
         /\ \A c \in Chan : c > k => Kept(k)[c] = "empty"
<1>1. k \in Nat /\ 1..k \subseteq Chan
  BY Chans
<1>2. QED
  BY <1>1 DEF Kept, Types, Levels, Chan

\* How cpsw_resume_data_pass ends: with RTNL free, or closing every interface.
LEMMA PassEnds ==
  ASSUME Types, NEW k \in Chan, ResumeDataPass(k)
  PROVE  /\ ring' \in [Chan -> Levels]
         /\ UNCHANGED <<err, want>>
         /\ \/ op' = "none" /\ todo' = {}
            \/ op' = "fail" /\ todo' = running
<1>1. Kept(k) \in [Chan -> Levels]
  BY KeptRings
<1>2. ring' \in [Chan -> Levels]
  <2>1. \/ ring' = Kept(k)
        \/ Fill(Kept(k), k, EthtoolFaults, TRUE)
        \/ Fill(Kept(k), k, EthtoolFaults, FALSE)
    BY DEF ResumeDataPass
  <2>2. QED
    BY <1>1, <2>1, FillAll, FillSome
<1>3. QED
  BY <1>2 DEF ResumeDataPass, Fail, Begin

\* and so does starting it again, unless every interface is to be closed.
LEMMA ReconfigureUsage ==
  ASSUME UsageInv, Reconfigure
  PROVE  UsageInv'
<1>1. op \in {"channels", "ring"} /\ ~err /\ ~asleep /\ Types /\ UsersInv
  BY DEF Reconfigure, ChannelsFail, ChannelsSet, RingFails, RingSet, UsageInv, OpInv
<1>2. /\ UNCHANGED <<running, asleep, broken, usage, napi, err, want>>
      /\ \/ op' = "none" /\ todo' = {}
         \/ op' = "fail" /\ todo' = running
  BY <1>1, PassEnds
     DEF Reconfigure, ChannelsFail, ChannelsSet, RingFails, RingSet, Fail, Begin, Types
<1>3. rxch' \in Chan /\ pools' \subseteq Chan
  BY <1>1, Chans DEF Reconfigure, ChannelsFail, ChannelsSet, RingFails, RingSet, Types
<1>4. ring' \in [Chan -> Levels]
  <2>1. CASE ChannelsFail
    BY <1>1, <1>3, <2>1, KeptRings DEF ChannelsFail
  <2>2. CASE RingFails
    BY <1>1, <2>2 DEF RingFails, Types
  <2>3. CASE ChannelsSet \/ RingSet
    BY <1>1, <2>3, PassEnds DEF ChannelsSet, RingSet, Types
  <2>4. QED
    BY <2>1, <2>2, <2>3 DEF Reconfigure
<1>5. Types'
  BY <1>1, <1>2, <1>3, <1>4 DEF Types, Ops
<1>6. OpInv'
  BY <1>1, <1>2 DEF OpInv, UsageInv
<1>7. UserSet' = UserSet
  BY <1>1, <1>2 DEF UserSet
<1>8. QED
  BY <1>1, <1>2, <1>5, <1>6, <1>7, SameUsers DEF UsageInv

\* What happens outside RTNL moves packets and queues only.
LEMMA OutsideRtnl ==
  ASSUME UsageInv, (\E n \in Ifc : LinkUp(n) \/ LinkDown(n) \/ Xmit(n) \/ Sent(n)) \/ UNCHANGED vars
  PROVE  /\ UsageInv'
         /\ UNCHANGED <<running, asleep, broken, devVars, opVars>>
<1>1. UNCHANGED <<running, asleep, broken, devVars, opVars>>
  BY DEF LinkUp, LinkDown, Xmit, Sent, vars
<1>2. UserSet' = UserSet
  BY <1>1 DEF UserSet, opVars
<1>3. Types' /\ OpInv' /\ UsersInv'
  BY <1>1, <1>2, SameUsers DEF UsageInv, Types, OpInv, devVars, opVars
<1>4. QED
  BY <1>1, <1>3 DEF UsageInv

\* Every step keeps the count.
LEMMA UsageNext == UsageInv /\ [Next]_vars => UsageInv'
<1> SUFFICES ASSUME UsageInv, [Next]_vars PROVE UsageInv'
  OBVIOUS
<1>1. CASE (\E n \in Ifc : Open(n) \/ Close(n)) \/ Suspend \/ Resume
  BY <1>1, TakeUsage
<1>2. ASSUME NEW n \in Ifc, NdoOpen(n) PROVE UsageInv'
  BY <1>2, OpenUsage
<1>3. ASSUME NEW n \in Ifc, NdoStop(n) PROVE UsageInv'
  BY <1>3, StopUsage
<1>4. CASE (\E k \in Chan : SuspendDataPass("channels", k)) \/ SuspendDataPass("ring", want)
  <2>1. want \in Chan
    BY DEF UsageInv, Types
  <2>2. QED
    BY <1>4, <2>1, SuspendPassUsage
<1>5. CASE Reconfigure
  BY <1>5, ReconfigureUsage
<1>6. CASE (\E n \in Ifc : LinkUp(n) \/ LinkDown(n) \/ Xmit(n) \/ Sent(n)) \/ UNCHANGED vars
  BY <1>6, OutsideRtnl
<1>7. QED
  BY <1>1, <1>2, <1>3, <1>4, <1>5, <1>6 DEF Next

\* usage_count stays paired with the interfaces through every operation.
THEOREM UsageInvariant == Spec => []UsageInv
<1>1. QED
  BY UsageInit, UsageNext, PTL DEF Spec

\* Whenever RTNL is free usage_count is the number of interfaces that are up, whatever has
\* failed before: an open, the opens of a resume, or an ethtool operation.
THEOREM UsageIsCounted == Spec => []UsageCounted
<1>1. UsageInv => UsageCounted
  <2> SUFFICES ASSUME UsageInv PROVE UsageCounted
    OBVIOUS
  <2>1. op = "none" => UserSet = IF asleep THEN {} ELSE running
    BY DEF UserSet
  <2>2. Cardinality({}) = 0
    BY FS_EmptySet
  <2>3. QED
    BY <2>1, <2>2 DEF UsageInv, UsersInv, UsageCounted, RtnlFree
<1>2. QED
  BY <1>1, UsageInvariant, PTL

-----------------------------------------------------------------------------
(* What the users are served with.                                         *)

\* napi and dma are never anything but TRUE or FALSE.
Flags == napi \in BOOLEAN /\ dma \in BOOLEAN

\* The flags stay Booleans.
LEMMA FlagsNext == Flags /\ [Next]_vars => Flags'
<1> SUFFICES ASSUME Flags, [Next]_vars PROVE Flags'
  OBVIOUS
<1>1. ASSUME NEW n \in Ifc, Open(n) \/ Close(n) PROVE Flags'
  BY <1>1 DEF Flags, Open, Close, devVars
<1>2. ASSUME NEW n \in Ifc, NdoOpen(n) PROVE Flags'
  BY <1>2 DEF Flags, NdoOpen, OpenRefused, OpenFails, OpenSucceeds, devVars
<1>3. ASSUME NEW n \in Ifc, NdoStop(n) PROVE Flags'
  BY <1>3 DEF Flags, NdoStop, TearDown, CtlrStop
<1>4. CASE Suspend \/ Resume
  BY <1>4 DEF Flags, Suspend, Resume, devVars
<1>5. ASSUME NEW o, NEW k, SuspendDataPass(o, k) PROVE Flags'
  BY <1>5 DEF Flags, SuspendDataPass, CtlrStop
<1>6. CASE Reconfigure
  BY <1>6 DEF Flags, Reconfigure, ChannelsFail, ChannelsSet, RingFails, RingSet, ResumeDataPass
<1>7. ASSUME NEW n \in Ifc, LinkUp(n) \/ LinkDown(n) \/ Xmit(n) \/ Sent(n) PROVE Flags'
  BY <1>7 DEF Flags, LinkUp, LinkDown, Xmit, Sent, devVars
<1>8. CASE UNCHANGED vars
  BY <1>8 DEF Flags, vars, devVars
<1>9. QED
  BY <1>1, <1>2, <1>3, <1>4, <1>5, <1>6, <1>7, <1>8 DEF Next

\* The descriptors of an ethtool operation do not run out half-way.
NoEthtoolFill == "fill" \notin EthtoolFaults

\* The channels that are in use have their pools and full rings, the others nothing.
LEMMA Filled ==
  ASSUME NEW r, r = Empty, NEW k \in Chan, NEW faults, Fill(r, k, faults, TRUE),
         1..k \subseteq pools'
  PROVE  /\ \A c \in 1..k : c \in pools' /\ ring'[c] = "full"
         /\ PoolOutlivesPages'
<1>1. r \in [Chan -> Levels]
  BY DEF Empty, Levels
<1>2. /\ \A c \in 1..k : ring'[c] = "full"
      /\ \A c \in Chan : c > k => ring'[c] = "empty"
  BY <1>1, FillAll DEF Empty
<1>3. \A c \in Chan : c > k \/ c \in 1..k
  BY Chans DEF Chan
<1>4. QED
  BY <1>2, <1>3 DEF PoolOutlivesPages

\* Empty rings need no pools.
LEMMA EmptyPools == ring' = Empty => PoolOutlivesPages'
BY DEF PoolOutlivesPages, Empty

\* An open of the first user sets up what it needs, or takes it down again.
LEMMA OpenData ==
  ASSUME UsageInv, DataInv, NEW n \in Ifc, NdoOpen(n)
  PROVE  DataInv'
<1> USE DEF devVars
<1>1. n \in todo /\ op \in {"open", "resume"} /\ ~err /\ rxch \in Chan /\ usage \in Nat
  BY DEF NdoOpen, OpenRefused, OpenFails, OpenSucceeds, Opening, Current, UsageInv, Types
<1>2. ServedNow /\ PoolOutlivesPages
  BY <1>1 DEF DataInv, Suspended
<1>3. CASE OpenRefused(n)
  <2>1. op' \in {"open", "resume", "none"}
    BY <1>1, <1>3, VisitedOp DEF OpenRefused
  <2>2. ServedNow' /\ PoolOutlivesPages'
    BY <1>2, <1>3 DEF OpenRefused, ServedNow, PoolOutlivesPages
  <2>3. QED
    BY <2>1, <2>2 DEF DataInv, Suspended
<1>4. CASE OpenFails(n)
  <2>1. op' \in {"open", "resume"} /\ err' /\ ring = Empty
    BY <1>1, <1>2, <1>4 DEF OpenFails, ServedNow
  <2>2. PoolOutlivesPages'
    <3>1. CASE ring' = ring
      BY <2>1, <3>1, EmptyPools
    <3>2. CASE pools' = pools \cup 1..rxch /\ Fill(ring, rxch, Faults, FALSE)
      <4>1. ring \in [Chan -> Levels]
        BY <2>1 DEF Empty, Levels
      <4>2. \A c \in Chan : c > rxch => ring'[c] = "empty"
        BY <1>1, <2>1, <3>2, <4>1, FillSome DEF Empty
      <4>3. \A c \in Chan : c > rxch \/ c \in 1..rxch
        BY <1>1, Chans DEF Chan
      <4>4. QED
        BY <3>2, <4>2, <4>3 DEF PoolOutlivesPages
    <3>3. QED
      BY <1>4, <3>1, <3>2 DEF OpenFails
  <2>3. QED
    BY <2>1, <2>2 DEF DataInv, Suspended
<1>5. CASE OpenSucceeds(n)
  <2>1. op' \in {"open", "resume", "none"}
    BY <1>1, <1>5, VisitedOp DEF OpenSucceeds
  <2>2. usage' = usage + 1 /\ usage' > 0 /\ dma' /\ irq' /\ rxch' = rxch
    BY <1>1, <1>5 DEF OpenSucceeds
  <2>3. (\A c \in 1..rxch : c \in pools' /\ ring'[c] = "full") /\ PoolOutlivesPages'
    <3>1. CASE usage = 0
      <4>1. ring = Empty /\ 1..rxch \subseteq pools' /\ Fill(ring, rxch, Faults, TRUE)
        BY <1>2, <1>5, <3>1 DEF OpenSucceeds, ServedNow
      <4>2. QED
        BY <1>1, <4>1, Filled
    <3>2. CASE usage # 0
      <4>1. usage > 0 /\ pools' = pools /\ ring' = ring
        BY <1>1, <1>5, <3>2 DEF OpenSucceeds
      <4>2. QED
        BY <1>2, <4>1 DEF ServedNow, PoolOutlivesPages
    <3>3. QED
      BY <3>1, <3>2
  <2>4. ServedNow'
    BY <2>2, <2>3 DEF ServedNow
  <2>5. QED
    BY <2>1, <2>3, <2>4 DEF DataInv, Suspended
<1>6. QED
  BY <1>3, <1>4, <1>5 DEF NdoOpen

\* The last stop takes everything down.
LEMMA StopData ==
  ASSUME UsageInv, UsageInv', DataInv, NEW n \in Ifc, NdoStop(n)
  PROVE  DataInv'
<1>1. /\ usage \in Nat \ {0} /\ ~err /\ ~err' /\ ~broken
      /\ op \in {"close", "suspend", "fail"} /\ op' \in {op, "none"}
      /\ (op' = "none" => todo' = {})
  BY StopHasUser
<1>2. usage' = usage - 1 /\ rxch' = rxch /\ broken' = broken
  BY DEF NdoStop
<1>3. CASE LastUser
  <2>1. usage' = 0 /\ ~dma'
    BY <1>1, <1>2, <1>3 DEF NdoStop, LastUser, TearDown, CtlrStop
  <2>2. ring' = Empty
    <3>1. dma \/ ring = Empty
      BY <1>1 DEF DataInv, Suspended, ServedNow
    <3>2. QED
      BY <1>3, <3>1 DEF NdoStop, TearDown, CtlrStop
  <2>3. ServedNow'
    BY <2>1, <2>2 DEF ServedNow
  <2>4. QED
    BY <1>1, <2>1, <2>2, <2>3, EmptyPools DEF DataInv, Suspended
<1>4. CASE ~LastUser
  <2>1. UNCHANGED <<irq, dma, ring, pools>> /\ usage > 0 /\ usage' > 0
    BY <1>1, <1>2, <1>4 DEF NdoStop, LastUser
  <2>2. PoolOutlivesPages'
    BY <2>1 DEF DataInv, PoolOutlivesPages
  <2>3. CASE op = "fail"
    <3>1. op' = "fail"
      <4>1. SUFFICES ASSUME op' = "none" PROVE FALSE
        BY <1>1, <2>3
      <4>2. running' = {}
        <5>1. todo = running
          BY <2>3 DEF UsageInv, OpInv
        <5>2. QED
          BY <1>1, <2>3, <4>1, <5>1 DEF NdoStop, Visited
      <4>3. UserSet' = {}
        BY <4>1, <4>2 DEF UserSet
      <4>4. usage' = 0
        BY <4>3, FS_EmptySet DEF UsageInv, UsersInv
      <4>5. QED
        BY <2>1, <4>4
    <3>2. QED
      BY <2>1, <2>2, <2>3, <3>1 DEF DataInv, Suspended
  <2>4. CASE op # "fail"
    <3>1. ServedNow
      BY <1>1, <2>4 DEF DataInv, Suspended
    <3>2. ServedNow'
      BY <1>2, <2>1, <3>1 DEF ServedNow
    <3>3. QED
      BY <1>1, <2>2, <2>4, <3>2 DEF DataInv, Suspended
  <2>5. QED
    BY <2>3, <2>4
<1>5. QED
  BY <1>3, <1>4

\* An operation that begins changes nothing for the users.
LEMMA TakeData ==
  ASSUME UsageInv, DataInv, (\E n \in Ifc : Open(n) \/ Close(n)) \/ Suspend \/ Resume
  PROVE  DataInv'
<1>1. op = "none" /\ ~err
  BY DEF Open, Close, Suspend, Resume, RtnlFree, UsageInv, OpInv
<1>2. /\ UNCHANGED <<usage, dma, irq, rxch, pools, ring>>
      /\ op' \in {"none", "open", "close", "suspend", "resume"}
  BY DEF Open, Close, Suspend, Resume, Begin, devVars
<1>3. ServedNow /\ PoolOutlivesPages
  BY <1>1 DEF DataInv, Suspended
<1>4. ServedNow' /\ PoolOutlivesPages'
  BY <1>2, <1>3 DEF ServedNow, PoolOutlivesPages
<1>5. QED
  BY <1>2, <1>4 DEF DataInv, Suspended

\* An ethtool operation stops the engine, with the rings emptied,
LEMMA SuspendPassData ==
  ASSUME UsageInv, DataInv, NEW o \in {"channels", "ring"}, NEW k, SuspendDataPass(o, k)
  PROVE  DataInv'
<1>1. op = "none" /\ ~err
  BY DEF SuspendDataPass, RtnlFree, UsageInv, OpInv
<1>2. ServedNow
  BY <1>1 DEF DataInv, Suspended
<1>3. op' \in {"channels", "ring"} /\ UNCHANGED <<usage, rxch, pools>> /\ ~dma'
  BY DEF SuspendDataPass, CtlrStop
<1>4. ring' = Empty
  <2>1. dma \/ ring = Empty
    BY <1>2 DEF ServedNow, UsageInv, Types
  <2>2. QED
    BY <2>1 DEF SuspendDataPass, CtlrStop
<1>5. QED
  BY <1>2, <1>3, <1>4, EmptyPools DEF DataInv, Suspended, ServedNow

\* cpsw_resume_data_pass from an engine that is stopped with nothing on it.
LEMMA PassData ==
  ASSUME NoEthtoolFill, Types, ring = Empty, ~dma, NEW k \in Chan, rxch' = k, usage' = usage,
         usage > 0 => 1..k \subseteq pools', ResumeDataPass(k)
  PROVE  DataInv'
<1>1. Kept(k) = Empty
  BY DEF Kept, Empty
<1>2. ~Fill(Kept(k), k, EthtoolFaults, FALSE)
  BY <1>1, Chans DEF Fill, Empty, NoEthtoolFill
<1>3. op' = "none"
  BY <1>2 DEF ResumeDataPass, Begin
<1>4. CASE usage > 0
  <2>1. Fill(Kept(k), k, EthtoolFaults, TRUE) /\ dma' /\ irq'
    BY <1>2, <1>4 DEF ResumeDataPass
  <2>2. (\A c \in 1..k : c \in pools' /\ ring'[c] = "full") /\ PoolOutlivesPages'
    BY <1>1, <1>4, <2>1, Filled
  <2>3. ServedNow'
    BY <1>4, <2>1, <2>2 DEF ServedNow
  <2>4. QED
    BY <1>3, <2>2, <2>3 DEF DataInv, Suspended
<1>5. CASE ~(usage > 0)
  <2>1. ring' = Empty /\ ~dma'
    BY <1>1, <1>2, <1>5 DEF ResumeDataPass
  <2>2. ServedNow'
    BY <1>5, <2>1 DEF ServedNow
  <2>3. QED
    BY <1>3, <2>1, <2>2, EmptyPools DEF DataInv, Suspended
<1>6. QED
  BY <1>4, <1>5

\* and sets it up for the users that there are.
LEMMA ReconfigureData ==
  ASSUME NoEthtoolFill, UsageInv, UsageInv', DataInv, Reconfigure
  PROVE  DataInv'
<1>1. op \in {"channels", "ring"} /\ ~err /\ Types /\ rxch \in Chan /\ want \in Chan
  BY DEF Reconfigure, ChannelsFail, ChannelsSet, RingFails, RingSet, UsageInv, OpInv, Types
<1>2. ~dma /\ ring = Empty /\ (usage > 0 => 1..rxch \subseteq pools)
  BY <1>1 DEF DataInv, Suspended
<1>3. CASE ChannelsFail \/ RingFails
  <2>1. ring' = Empty /\ ~dma' /\ Fail /\ usage' = usage /\ running' = running
    BY <1>2, <1>3 DEF ChannelsFail, RingFails, Kept, Empty
  <2>2. op' = "fail" \/ (op' = "none" /\ running' = {})
    BY <2>1 DEF Fail, Begin
  <2>3. op' = "none" => usage' = 0
    <3>1. SUFFICES ASSUME op' = "none" PROVE usage' = 0
      OBVIOUS
    <3>2. UserSet' = {}
      BY <2>2, <3>1 DEF UserSet
    <3>3. QED
      BY <3>2, FS_EmptySet DEF UsageInv, UsersInv
  <2>4. QED
    BY <2>1, <2>2, <2>3, EmptyPools DEF DataInv, Suspended, ServedNow
<1>4. CASE ChannelsSet
  <2>1. usage > 0 => 1..want \subseteq pools'
    BY <1>2, <1>4 DEF ChannelsSet, NewPools
  <2>2. QED
    BY <1>1, <1>2, <1>4, <2>1, PassData DEF ChannelsSet
<1>5. CASE RingSet
  <2>1. usage > 0 => 1..rxch \subseteq pools'
    BY <1>2, <1>5 DEF RingSet
  <2>2. QED
    BY <1>1, <1>2, <1>5, <2>1, PassData DEF RingSet
<1>6. QED
  BY <1>3, <1>4, <1>5 DEF Reconfigure

\* Every step serves the users.
LEMMA DataNext == NoEthtoolFill /\ UsageInv /\ DataInv /\ [Next]_vars => DataInv'
<1> SUFFICES ASSUME NoEthtoolFill, UsageInv, DataInv, [Next]_vars PROVE DataInv'
  OBVIOUS
<1>0. UsageInv'
  BY UsageNext
<1>1. CASE (\E n \in Ifc : Open(n) \/ Close(n)) \/ Suspend \/ Resume
  BY <1>1, TakeData
<1>2. ASSUME NEW n \in Ifc, NdoOpen(n) PROVE DataInv'
  BY <1>2, OpenData
<1>3. ASSUME NEW n \in Ifc, NdoStop(n) PROVE DataInv'
  BY <1>0, <1>3, StopData
<1>4. CASE (\E k \in Chan : SuspendDataPass("channels", k)) \/ SuspendDataPass("ring", want)
  BY <1>4, SuspendPassData
<1>5. CASE Reconfigure
  BY <1>0, <1>5, ReconfigureData
<1>6. CASE (\E n \in Ifc : LinkUp(n) \/ LinkDown(n) \/ Xmit(n) \/ Sent(n)) \/ UNCHANGED vars
  <2>1. UNCHANGED <<devVars, opVars>>
    BY <1>6, OutsideRtnl
  <2>2. QED
    BY <2>1 DEF DataInv, Suspended, ServedNow, PoolOutlivesPages, devVars, opVars
<1>7. QED
  BY <1>1, <1>2, <1>3, <1>4, <1>5, <1>6 DEF Next

\* Nothing is set up in the beginning.
LEMMA DataInit == Init => DataInv /\ Flags
<1>1. Init => DataInv
  BY DEF Init, DataInv, Suspended, ServedNow, PoolOutlivesPages, Empty
<1>2. Init => Flags
  BY Zenon DEF Init, Flags
<1>3. QED
  BY <1>1, <1>2

\* Unless an ethtool operation runs out of pages half-way through the refill, what the users are
\* served with is right at each point of an operation.
THEOREM DataInvariant ==
  ASSUME NoEthtoolFill
  PROVE  Spec => [](DataInv /\ Flags)
<1>1. UsageInv /\ DataInv /\ Flags /\ [Next]_vars => DataInv' /\ Flags'
  BY DataNext, FlagsNext
<1>2. QED
  BY <1>1, DataInit, UsageInvariant, PTL DEF Spec

\* Unless an ethtool operation runs out of pages half-way through the refill: whenever RTNL is
\* free the users are served, and nothing is left set up when there is none.
THEOREM UsersAreServed ==
  ASSUME NoEthtoolFill
  PROVE  Spec => []Served
<1>1. UsageInv /\ DataInv /\ Flags => Served
  <2> SUFFICES ASSUME UsageInv, DataInv, Flags, RtnlFree PROVE Served
    BY DEF Served
  <2>1. ServedNow
    BY DEF RtnlFree, DataInv, Suspended, UsageInv, OpInv
  <2>2. napi = (usage > 0) /\ dma = (usage > 0)
    <3>1. (napi <=> usage > 0) /\ (dma <=> usage > 0)
      BY <2>1 DEF ServedNow, UsageInv, UsersInv
    <3>2. (usage > 0) \in BOOLEAN
      BY DEF UsageInv, Types
    <3>3. QED
      BY <3>1, <3>2, Zenon DEF Flags
  <2>3. QED
    BY <2>1, <2>2 DEF Served, ServedNow
<1>2. QED
  BY <1>1, UsageInvariant, DataInvariant, PTL

\* Under the same assumption a page pool outlives the pages on the ring of its channel, in the
\* middle of every operation too.
THEOREM PoolsOutliveTheirPages ==
  ASSUME NoEthtoolFill
  PROVE  Spec => []PoolOutlivesPages
<1>1. DataInv => PoolOutlivesPages
  BY DEF DataInv
<1>2. QED
  BY <1>1, DataInvariant, PTL
=============================================================================
