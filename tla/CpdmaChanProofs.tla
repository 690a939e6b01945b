-------------------------- MODULE CpdmaChanProofs --------------------------
(***************************************************************************)
(* Proofs about CpdmaChan, for every pool and every share of it.           *)
(*                                                                         *)
(* The inductive invariant IInv has two halves.  QueueInv speaks of the    *)
(* driver alone: types, the threads' positions, the linked list, and where *)
(* every descriptor is; it holds whatever the hardware does.  HwInv says   *)
(* where the hardware is in the list: there is a k such that the           *)
(* descriptors before the k-th are finished and the others are not, the    *)
(* hardware is at the k-th or stopped, and the EOQ and TD_COMPLETE marks   *)
(* can stand only on the (k-1)-th.  HwInv is claimed until stray is set:   *)
(* until HDP has been written on a channel that is not ACTIVE, or the wait *)
(* for a teardown has run out.                                             *)
(***************************************************************************)
EXTENDS CpdmaChan, SequenceTheorems, TLAPS

\* Where each thread is, as far as the others can tell from the shared state.
ThreadsOK ==
  /\ held["napi"] # NULL <=> napi = "callback"
  /\ held["stop"] # NULL <=> stop \in {"callback", "cleanCallback"}
  /\ state = "teardown" <=> stop \in {"wait", "drain", "callback", "clean", "cleanCallback"}
  /\ ctlr = "idle" => state = "idle" /\ stop = "out"
  /\ stop = "ctlr" => state = "idle" /\ ctlr = "teardown"

\* A submitter between its two steps has chained the last descriptor to prev.
SubmitterOK ==
  prev # NULL =>
    /\ stop # "wait"
    /\ Len(queue) >= 2
    /\ prev = queue[Len(queue) - 1]
    /\ count < DescNum

\* The hardware works on a descriptor or on none.
BusyOK == fetched => hdp # NULL

QueueInv == TypeOK /\ ThreadsOK /\ BusyOK /\ SubmitterOK /\ ListIsQueue /\ Accounting

OwnedFrom(k) == \A i \in 1..Len(queue) : queue[i] \in owner <=> i >= k

\* Where the hardware is.
EngineOK ==
  /\ fetched => latch \in {NULL, hw_next[hdp]}
  /\ ~fetched => latch = NULL
  /\ hdp # NULL => state = "active" \/ stop = "wait"
  /\ td # "none" => stop = "wait"
  /\ td = "done" => hdp = NULL

\* What it has left behind in the queue: the finished descriptors are those
\* before the k-th.  The hardware is at the k-th or stopped.  EOQ and
\* TD_COMPLETE can only stand on the last finished one, when it is stopped.
MarksAt(k) ==
  /\ OwnedFrom(k)
  /\ hdp # NULL => k <= Len(queue) /\ hdp = queue[k]
  /\ \A i \in 1..Len(queue) :
       /\ queue[i] \in eoq => hdp = NULL /\ i = k - 1
       /\ queue[i] \in td_complete => state = "teardown" /\ hdp = NULL /\ i = k - 1
  /\ state = "active" /\ hdp = NULL /\ queue # <<>> => k > 1 /\ queue[k - 1] \in eoq
  /\ state = "idle" \/ stop \in {"clean", "cleanCallback"} => k = 1
  /\ stop = "callback" /\ held["stop"] \in td_complete => k = 1

MarksOK == \E k \in 1..(Len(queue) + 1) : MarksAt(k)

CleanOK == stop = "cleanCallback" => held["stop"] \in owner

HwInv == ~stray => EngineOK /\ MarksOK /\ CleanOK

-----------------------------------------------------------------------------
(* Sequences.                                                              *)

\* What appending a descriptor does to the queue.
LEMMA AppendQueue ==
  ASSUME queue \in Seq(Descs), NEW d \in Descs, queue' = Append(queue, d)
  PROVE  /\ queue' \in Seq(Descs)
         /\ Len(queue') = Len(queue) + 1
         /\ \A i \in 1..Len(queue) : queue'[i] = queue[i]
         /\ queue'[Len(queue) + 1] = d
         /\ Queued' = Queued \cup {d}
<1>1. /\ queue' \in Seq(Descs)
      /\ Len(queue') = Len(queue) + 1
      /\ \A i \in 1..Len(queue) : queue'[i] = queue[i]
      /\ queue'[Len(queue) + 1] = d
  BY AppendProperties
<1>2. Len(queue) \in Nat
  BY LenProperties
<1>3. Queued' = Queued \cup {d}
  BY <1>1, <1>2 DEF Queued
<1>4. QED
  BY <1>1, <1>3

\* What taking the oldest descriptor does to the queue.
LEMMA TailQueue ==
  ASSUME queue \in Seq(Descs), queue # <<>>, queue' = Tail(queue)
  PROVE  /\ queue' \in Seq(Descs)
         /\ Len(queue') = Len(queue) - 1
         /\ \A i \in 1..Len(queue') : queue'[i] = queue[i + 1]
         /\ Queued = Queued' \cup {queue[1]}
<1>1. /\ queue' \in Seq(Descs)
      /\ Len(queue') = Len(queue) - 1
      /\ \A i \in 1..Len(queue') : queue'[i] = queue[i + 1]
  BY HeadTailProperties
<1>2. Len(queue) \in Nat /\ Len(queue) # 0
  BY LenProperties, EmptySeq
<1>3. Queued \subseteq Queued' \cup {queue[1]}
  <2>1. SUFFICES ASSUME NEW i \in 1..Len(queue), i # 1
                 PROVE  queue[i] \in Queued'
    BY DEF Queued
  <2>2. i - 1 \in 1..Len(queue') /\ queue'[i - 1] = queue[i]
    BY <1>1, <1>2, <2>1
  <2>3. QED
    BY <2>2 DEF Queued
<1>4. Queued' \cup {queue[1]} \subseteq Queued
  BY <1>1, <1>2 DEF Queued
<1>5. QED
  BY <1>1, <1>3, <1>4

-----------------------------------------------------------------------------
(* Types, threads and the critical section of the submitters.              *)

\* The length and the elements of the queue, from its type.
LEMMA QueueFacts ==
  ASSUME TypeOK
  PROVE  /\ Len(queue) \in Nat
         /\ queue = <<>> <=> Len(queue) = 0
         /\ \A i \in 1..Len(queue) : queue[i] \in Descs
         /\ Queued \subseteq Descs
<1>1. queue \in Seq(Descs)
  BY DEF TypeOK
<1>2. Len(queue) \in Nat /\ (queue = <<>> <=> Len(queue) = 0)
  BY <1>1, LenProperties, EmptySeq
<1>3. \A i \in 1..Len(queue) : queue[i] \in Descs
  BY <1>1, ElementOfSeq
<1>4. QED
  BY <1>2, <1>3 DEF Queued

\* The empty channel satisfies the first half of the invariant.
LEMMA InitQueueInv == Init => QueueInv
<1> SUFFICES ASSUME Init PROVE QueueInv
  OBVIOUS
<1> USE DescNumAssumption, DescsAssumption DEF Init
<1>1. queue \in Seq(Descs) /\ Len(queue) = 0
  BY EmptySeq
<1>2. TypeOK
  <2>1. held \in [Thread -> Ptr] /\ hw_next \in [Descs -> Ptr]
    BY DEF Ptr
  <2>2. count \in 0..DescNum
    OBVIOUS
  <2>3. fetched \in BOOLEAN /\ stray \in BOOLEAN
    OBVIOUS
  <2>4. NULL \in Ptr
    BY DEF Ptr
  <2>5. QED
    BY <1>1, <2>1, <2>2, <2>3, <2>4, Zenon DEF TypeOK
<1>3. ThreadsOK /\ SubmitterOK
  BY DEF ThreadsOK, SubmitterOK, Thread
<1>4. ListIsQueue
  BY <1>1 DEF ListIsQueue
<1>5. Queued = {} /\ Held = {}
  BY <1>1 DEF Queued, Held, Thread
<1>6. Accounting
  BY <1>1, <1>5 DEF Accounting, Thread
<1>7. QED
  BY <1>2, <1>3, <1>4, <1>6 DEF QueueInv, BusyOK

\* Every step keeps the program counters in line with the shared state.
LEMMA ThreadsStep ==
  ASSUME TypeOK, ThreadsOK, [Next]_vars
  PROVE  ThreadsOK'
<1> USE DescsAssumption
<1> USE DEF ThreadsOK, TypeOK, Ptr, Thread, vars, chanVars, memVars, hwVars, histVars
<1>1. ASSUME NEW d \in Descs, SubmitDesc(d) PROVE ThreadsOK'
  BY <1>1 DEF SubmitDesc
<1>2. CASE MisqueueCheck
  BY <1>2 DEF MisqueueCheck
<1>3. CASE Napi
  <2>1. CASE NapiBegin
    BY <2>1 DEF NapiBegin
  <2>2. CASE NapiDequeue
    BY <2>2 DEF NapiDequeue, Dequeue, TakeHead, HeadDone
  <2>3. CASE NapiFree
    BY <2>3 DEF NapiFree, Free
  <2>4. CASE NapiEnd
    BY <2>4 DEF NapiEnd
  <2>5. QED
    BY <1>3, <2>1, <2>2, <2>3, <2>4 DEF Napi
<1>4. CASE ChanStart \/ CtlrStart
  BY <1>4 DEF ChanStart, CtlrStart, ChanOn
<1>5. CASE ChanStop \/ CtlrStop
  BY <1>5 DEF ChanStop, CtlrStop, StopChan
<1>6. CASE Stopper
  <2>1. CASE StopWaited \/ StopTimeout \/ StopDrained
    BY <2>1 DEF StopWaited, StopTimeout, StopDrained
  <2>2. CASE StopDequeue
    BY <2>2 DEF StopDequeue, Dequeue, TakeHead, HeadDone
  <2>3. CASE StopFree \/ CleanFree
    BY <2>3 DEF StopFree, CleanFree, Free
  <2>4. CASE CleanDequeue
    BY <2>4 DEF CleanDequeue, TakeHead
  <2>5. CASE StopEnd \/ CtlrStopEnd
    BY <2>5 DEF StopEnd, CtlrStopEnd
  <2>6. QED
    BY <1>6, <2>1, <2>2, <2>3, <2>4, <2>5 DEF Stopper
<1>7. CASE Hardware
  BY <1>7 DEF Hardware, HwFetch, HwComplete, HwTeardown
<1>8. CASE UNCHANGED vars
  BY <1>8
<1>9. QED
  BY <1>1, <1>2, <1>3, <1>4, <1>5, <1>6, <1>7, <1>8 DEF Next, Submit, IdleSubmit

-----------------------------------------------------------------------------
(* The list and the accounting of descriptors, step by step.               *)

ListInv == SubmitterOK /\ ListIsQueue /\ Accounting

\* The first step of a submission keeps types, list and accounts.
LEMMA SubmitStep ==
  ASSUME QueueInv, NEW d \in Descs, SubmitDesc(d)
  PROVE  TypeOK' /\ ListInv'
<1> USE DescNumAssumption, DescsAssumption
<1>1. /\ TypeOK /\ ListIsQueue /\ Accounting
      /\ prev = NULL /\ stop # "wait" /\ count < DescNum /\ d \in pool
      /\ queue' = Append(queue, d)
      /\ tail' = d /\ pool' = pool \ {d} /\ held' = held
  BY DEF QueueInv, SubmitDesc, Locked, HasRoom
<1>2. /\ queue' \in Seq(Descs)
      /\ Len(queue') = Len(queue) + 1
      /\ \A i \in 1..Len(queue) : queue'[i] = queue[i]
      /\ queue'[Len(queue) + 1] = d
      /\ Queued' = Queued \cup {d}
  BY <1>1, AppendQueue DEF TypeOK
<1>3. /\ Len(queue) \in Nat
      /\ queue = <<>> <=> Len(queue) = 0
      /\ \A i \in 1..Len(queue) : queue[i] \in Descs
      /\ queue' # <<>>
  <2>1. queue' # <<>>
    BY <1>1, AppendProperties DEF TypeOK
  <2>2. QED
    BY <1>1, <2>1, QueueFacts
<1>4. d \notin Queued /\ d \notin Held /\ count = Len(queue)
  <2>1. count \in Int
    BY <1>1 DEF TypeOK
  <2>2. QED
    BY <1>1, <1>3, <2>1 DEF Accounting
<1>5. \A i \in 1..Len(queue) : queue[i] # d
  BY <1>4 DEF Queued
<1>6. /\ Held' = Held
     /\ pool' \cup Queued' \cup Held' = Descs
     /\ pool' \cap (Queued' \cup Held') = {}
     /\ Queued' \cap Held' = {}
  <2>1. Held' = Held
    BY <1>1 DEF Held
  <2>2. QED
    BY <1>1, <1>2, <1>4, <2>1 DEF Accounting
<1>7. \A i, j \in 1..Len(queue') : queue'[i] = queue'[j] => i = j
  <2>1. TAKE i, j \in 1..Len(queue')
  <2>2. HAVE queue'[i] = queue'[j]
  <2>3. QED
    BY <1>1, <1>2, <1>3, <1>5, <2>2 DEF Accounting
<1>8. CASE head = NULL
  <2>1. /\ head' = d /\ count' = count + 1 /\ prev' = NULL
        /\ hw_next' = [hw_next EXCEPT ![d] = NULL]
        /\ hdp' \in {d, hdp}
    BY <1>1, <1>8 DEF SubmitDesc, Link
  <2>2. Len(queue) = 0
    BY <1>1, <1>3, <1>8 DEF ListIsQueue
  <2>3. hw_next'[d] = NULL /\ hw_next' \in [Descs -> Ptr]
    BY <1>1, <2>1 DEF TypeOK, Ptr
  <2>4. ListIsQueue'
    BY <1>2, <1>3, <1>1, <2>1, <2>2, <2>3 DEF ListIsQueue
  <2>5. TypeOK'
    BY <1>1, <1>2, <2>1, <2>3 DEF SubmitDesc, TypeOK, Ptr
  <2>6. Accounting'
    BY <1>1, <1>2, <1>4, <1>6, <1>7, <2>1, <2>2 DEF Accounting
  <2>7. QED
    BY <2>1, <2>4, <2>5, <2>6 DEF ListInv, SubmitterOK
<1>9. CASE head # NULL
  <2>1. /\ head' = head /\ count' = count /\ prev' = tail /\ hdp' = hdp
        /\ hw_next' = [hw_next EXCEPT ![d] = NULL, ![tail] = d]
        /\ stop' = stop
    BY <1>1, <1>9 DEF SubmitDesc, Link
  <2>2. /\ Len(queue) >= 1 /\ head = queue[1] /\ tail = queue[Len(queue)]
        /\ tail \in Descs /\ tail # d
    BY <1>1, <1>3, <1>5, <1>9 DEF ListIsQueue
  <2>3. /\ hw_next' \in [Descs -> Ptr]
        /\ hw_next'[d] = NULL /\ hw_next'[tail] = d
        /\ \A e \in Descs \ {d, tail} : hw_next'[e] = hw_next[e]
    BY <1>1, <2>1, <2>2 DEF TypeOK, Ptr
  <2>4. \A i \in 1..Len(queue') :
          hw_next'[queue'[i]] = IF i = Len(queue') THEN NULL ELSE queue'[i + 1]
    <3>1. TAKE i \in 1..Len(queue')
    <3>2. CASE i = Len(queue) + 1
      BY <3>2, <1>2, <2>3
    <3>3. CASE i = Len(queue)
      BY <3>3, <1>2, <1>3, <2>2, <2>3
    <3>4. CASE i \in 1..(Len(queue) - 1)
      <4>1. queue[i] # tail
        BY <3>4, <1>1, <1>3, <2>2 DEF Accounting
      <4>2. queue'[i] = queue[i] /\ queue'[i + 1] = queue[i + 1]
        BY <3>4, <1>2, <1>3
      <4>3. hw_next'[queue[i]] = hw_next[queue[i]]
        BY <3>4, <4>1, <1>3, <1>5, <2>3
      <4>4. hw_next[queue[i]] = queue[i + 1]
        BY <3>4, <1>1, <1>3 DEF ListIsQueue
      <4>5. QED
        BY <3>4, <4>2, <4>3, <4>4, <1>2, <1>3
    <3>5. QED
      BY <1>2, <1>3, <3>2, <3>3, <3>4
  <2>5. ListIsQueue'
    <3>1. queue'[1] = head' /\ queue'[Len(queue')] = tail' /\ head' # NULL
      BY <1>1, <1>2, <1>3, <1>9, <2>1, <2>2
    <3>2. QED
      BY <1>3, <2>4, <3>1 DEF ListIsQueue
  <2>6. TypeOK'
    BY <1>1, <1>2, <2>1, <2>2, <2>3 DEF SubmitDesc, TypeOK, Ptr
  <2>7. SubmitterOK'
    BY <1>1, <1>2, <1>3, <2>1, <2>2 DEF SubmitterOK
  <2>8. Accounting'
    BY <1>1, <1>2, <1>3, <1>4, <1>6, <1>7, <2>1, <2>2 DEF Accounting
  <2>9. QED
    BY <2>5, <2>6, <2>7, <2>8 DEF ListInv
<1>10. QED
  BY <1>8, <1>9

\* So does its second step.
LEMMA MisqueueStep ==
  ASSUME QueueInv, MisqueueCheck
  PROVE  TypeOK' /\ ListInv'
<1>1. /\ TypeOK /\ ListIsQueue /\ Accounting /\ prev # NULL /\ count < DescNum
      /\ prev' = NULL /\ count' = count + 1
      /\ UNCHANGED <<head, tail, pool, hw_next, held, queue>>
  BY DEF QueueInv, SubmitterOK, MisqueueCheck, histVars
<1>2. count' \in 0..DescNum /\ count \in Int
  BY <1>1, DescNumAssumption DEF TypeOK
<1>3. TypeOK'
  BY <1>1, <1>2 DEF MisqueueCheck, TypeOK, Ptr, histVars
<1>4. ListIsQueue'
  BY <1>1 DEF ListIsQueue
<1>5. Queued' = Queued /\ Held' = Held
  BY <1>1 DEF Queued, Held
<1>6. Accounting'
  BY <1>1, <1>2, <1>5, QueueFacts DEF Accounting
<1>7. QED
  BY <1>1, <1>3, <1>4, <1>6 DEF ListInv, SubmitterOK

\* What stands in hw_next of the oldest descriptor.
LEMMA NextOfHead ==
  ASSUME TypeOK, ListIsQueue, queue # <<>>
  PROVE  hw_next[queue[1]] = IF Len(queue) = 1 THEN NULL ELSE queue[2]
<1>1. Len(queue) \in Nat /\ 1 \in 1..Len(queue)
  BY QueueFacts
<1>2. hw_next[queue[1]] = IF 1 = Len(queue) THEN NULL ELSE queue[1 + 1]
  BY <1>1 DEF ListIsQueue
<1>3. QED
  BY <1>2

\* So does taking the head off the list, which moves one descriptor from the
\* queue to the hands of the thread.
LEMMA TakeHeadStep ==
  ASSUME QueueInv, NEW t \in Thread, held[t] = NULL,
         ~Locked, head # NULL, TakeHead(t),
         UNCHANGED <<tail, pool, hw_next, prev>>
  PROVE  /\ count' \in 0..DescNum /\ queue' \in Seq(Descs)
         /\ head' \in Ptr /\ held' \in [Thread -> Ptr]
         /\ queue # <<>> /\ head = queue[1] /\ queue' = Tail(queue)
         /\ Queued' = Queued \ {head} /\ Held' = Held \cup {head}
         /\ ListInv'
<1> USE DescsAssumption
<1>1. /\ TypeOK /\ ListIsQueue /\ Accounting /\ prev = NULL /\ prev' = NULL
      /\ held' = [held EXCEPT ![t] = head]
      /\ head' = hw_next[head] /\ count' = count - 1 /\ queue' = Tail(queue)
  BY DEF QueueInv, Locked, TakeHead
<1>2. queue # <<>> /\ head = queue[1] /\ tail = queue[Len(queue)]
  BY <1>1 DEF ListIsQueue
<1>3. /\ Len(queue) \in Nat /\ Len(queue) >= 1
      /\ \A i \in 1..Len(queue) : queue[i] \in Descs
      /\ head \in Descs
  BY <1>1, <1>2, QueueFacts
<1>4. /\ queue' \in Seq(Descs)
      /\ Len(queue') = Len(queue) - 1
      /\ \A i \in 1..Len(queue') : queue'[i] = queue[i + 1]
      /\ Queued = Queued' \cup {head}
  BY <1>1, <1>2, TailQueue DEF TypeOK
<1>5. queue' = <<>> <=> Len(queue') = 0
  BY <1>4, EmptySeq
<1>6. count = Len(queue) /\ count' \in 0..DescNum
  <2>1. count \in 0..DescNum
    BY <1>1 DEF TypeOK
  <2>2. count = Len(queue)
    BY <1>1, <1>3, <2>1, DescNumAssumption DEF Accounting
  <2>3. QED
    BY <1>1, <1>3, <2>1, <2>2, DescNumAssumption
<1>7. head' \in Ptr /\ held' \in [Thread -> Ptr]
  BY <1>1, <1>3 DEF TypeOK, Ptr
<1>8. \A i, j \in 1..Len(queue') : queue'[i] = queue'[j] => i = j
  BY <1>1, <1>3, <1>4 DEF Accounting
<1>9. head \notin Queued'
  <2>1. \A i \in 1..Len(queue') : queue'[i] # head
    BY <1>1, <1>2, <1>3, <1>4 DEF Accounting
  <2>2. QED
    BY <2>1 DEF Queued
<1>10. Held' = Held \cup {head}
  <2>1. held'[t] = head /\ \A u \in Thread \ {t} : held'[u] = held[u]
    BY <1>1 DEF TypeOK
  <2>2. QED
    BY <2>1, <1>3 DEF Held
<1>11. head \notin Held /\ head \notin pool
  BY <1>1, <1>4 DEF Accounting
<1>12. held'["napi"] = held'["stop"] => held'["napi"] = NULL
  <2>1. \A u \in Thread : held[u] # head
    BY <1>3, <1>11 DEF Held
  <2>2. QED
    BY <1>1, <2>1 DEF TypeOK, Thread
<1>13. Accounting'
  <2>1. /\ pool' \cup Queued' \cup Held' = Descs
        /\ pool' \cap (Queued' \cup Held') = {}
        /\ Queued' \cap Held' = {}
    BY <1>1, <1>4, <1>9, <1>10, <1>11 DEF Accounting
  <2>2. Len(queue') = count' + 0
    BY <1>1, <1>3, <1>4, <1>6
  <2>3. QED
    BY <1>1, <1>8, <1>12, <2>1, <2>2 DEF Accounting
<1>14. ListIsQueue'
  <2>1. hw_next[head] = IF Len(queue) = 1 THEN NULL ELSE queue[2]
    BY <1>1, <1>2, NextOfHead
  <2>2. (head' = NULL) <=> (queue' = <<>>)
    BY <1>1, <1>3, <1>4, <1>5, <2>1
  <2>3. queue' # <<>> => head' = queue'[1] /\ tail' = queue'[Len(queue')]
    BY <1>1, <1>2, <1>3, <1>4, <1>5, <2>1
  <2>4. \A i \in 1..Len(queue') :
          hw_next'[queue'[i]] = IF i = Len(queue') THEN NULL ELSE queue'[i + 1]
    <3>1. TAKE i \in 1..Len(queue')
    <3>2. i + 1 \in 1..Len(queue) /\ queue'[i] = queue[i + 1]
      BY <1>3, <1>4
    <3>3. hw_next[queue[i + 1]] =
            IF i + 1 = Len(queue) THEN NULL ELSE queue[(i + 1) + 1]
      BY <1>1, <3>2 DEF ListIsQueue
    <3>4. i # Len(queue') => queue'[i + 1] = queue[(i + 1) + 1]
      BY <1>3, <1>4
    <3>5. QED
      BY <1>3, <1>4, <3>2, <3>3, <3>4
  <2>5. QED
    BY <2>2, <2>3, <2>4 DEF ListIsQueue
<1>15. QED
  BY <1>1, <1>2, <1>4, <1>6, <1>7, <1>9, <1>10, <1>13, <1>14 DEF ListInv, SubmitterOK

\* So does giving a descriptor back to the pool.
LEMMA FreeStep ==
  ASSUME QueueInv, NEW t \in Thread, held[t] # NULL, Free(t),
         prev # NULL => stop' # "wait"
  PROVE  /\ pool' \in SUBSET Descs /\ held' \in [Thread -> Ptr]
         /\ held[t] \in Held /\ Held' = Held \ {held[t]} /\ Queued' = Queued
         /\ ListInv'
<1> USE DescsAssumption
<1>1. /\ TypeOK /\ ListIsQueue /\ Accounting /\ SubmitterOK
      /\ pool' = pool \cup {held[t]}
      /\ held' = [held EXCEPT ![t] = NULL]
      /\ UNCHANGED <<head, tail, count, hw_next, prev, queue>>
  BY DEF QueueInv, Free, memVars, histVars
<1>2. held[t] \in Held /\ held' \in [Thread -> Ptr]
  BY <1>1 DEF TypeOK, Ptr, Held
<1>3. \A u \in Thread \ {t} : held'[u] = held[u] /\ held[u] # held[t]
  BY <1>1 DEF TypeOK, Thread, Accounting
<1>4. held'[t] = NULL
  BY <1>1 DEF TypeOK
<1>5. Held' = Held \ {held[t]} /\ Queued' = Queued
  BY <1>1, <1>3, <1>4 DEF Held, Queued
<1>6. held'["napi"] = held'["stop"] => held'["napi"] = NULL
  BY <1>1, <1>3, <1>4 DEF Thread
<1>7. Accounting'
  <2>1. /\ pool' \cup Queued' \cup Held' = Descs
        /\ pool' \cap (Queued' \cup Held') = {}
        /\ Queued' \cap Held' = {}
    BY <1>1, <1>2, <1>5 DEF Accounting
  <2>2. QED
    BY <1>1, <1>6, <2>1 DEF Accounting
<1>8. ListIsQueue'
  BY <1>1 DEF ListIsQueue
<1>9. SubmitterOK'
  BY <1>1 DEF SubmitterOK
<1>10. pool' \in SUBSET Descs
  BY <1>1, <1>2 DEF Accounting
<1>11. QED
  BY <1>2, <1>5, <1>7, <1>8, <1>9, <1>10 DEF ListInv

\* A step that leaves the list, the pool and the descriptors in hand alone.
LEMMA OffListStep ==
  ASSUME QueueInv, UNCHANGED <<head, tail, count, pool, hw_next, prev, held, queue>>,
         prev # NULL => stop' # "wait"
  PROVE  ListInv'
<1>1. ListIsQueue'
  BY DEF QueueInv, ListIsQueue
<1>2. Queued' = Queued /\ Held' = Held
  BY DEF Queued, Held
<1>3. Accounting'
  BY <1>2 DEF QueueInv, Accounting
<1>4. SubmitterOK'
  BY DEF QueueInv, SubmitterOK
<1>5. QED
  BY <1>1, <1>3, <1>4 DEF ListInv

\* A step of a thread that takes the head off the list.
LEMMA DequeueStep ==
  ASSUME QueueInv, NEW t \in Thread, held[t] = NULL, Dequeue(t)
  PROVE  /\ ListInv'
         /\ napi' \in {"out", "loop", "callback"}
            /\ stop' \in {"out", "wait", "drain", "callback", "clean", "cleanCallback", "ctlr"}
            => TypeOK'
<1> USE DescsAssumption
<1>1. /\ TypeOK /\ ~Locked /\ head # NULL /\ TakeHead(t)
      /\ UNCHANGED <<tail, pool, hw_next, prev>>
  BY DEF QueueInv, Dequeue, HeadDone, memVars
<1>2. /\ count' \in 0..DescNum /\ queue' \in Seq(Descs)
      /\ head' \in Ptr /\ held' \in [Thread -> Ptr]
      /\ ListInv'
  BY <1>1, TakeHeadStep
<1>3. /\ UNCHANGED <<tail, state, ctlr, pool, memVars, fetched, latch, td, prev>>
      /\ hdp' = hdp \/ hdp' = hw_next[head]
      /\ stray' = stray \/ stray' = (stray \/ state # "active")
      /\ head' = hw_next[head]
  BY <1>1 DEF Dequeue, TakeHead
<1>4. stray' \in BOOLEAN
  BY <1>1, <1>3 DEF TypeOK
<1>5. hdp' \in Ptr
  BY <1>1, <1>2, <1>3 DEF TypeOK
<1>6. QED
  BY <1>1, <1>2, <1>3, <1>4, <1>5 DEF TypeOK, memVars

\* Every step keeps HDP set while the hardware works on a descriptor.
LEMMA BusyStep ==
  ASSUME QueueInv, [Next]_vars
  PROVE  BusyOK'
<1> USE DescsAssumption DEF BusyOK, vars, chanVars, memVars, hwVars, histVars
<1>1. TypeOK /\ BusyOK /\ ListIsQueue
  BY DEF QueueInv
<1>2. ASSUME NEW d \in Descs, SubmitDesc(d) PROVE BusyOK'
  BY <1>1, <1>2 DEF SubmitDesc
<1>3. CASE MisqueueCheck
  <2>1. tail # NULL
    <3>1. Len(queue) >= 2 /\ Len(queue) \in Nat
      BY <1>1, <1>3, QueueFacts DEF QueueInv, SubmitterOK, MisqueueCheck
    <3>2. queue[Len(queue)] \in Descs /\ queue # <<>>
      BY <1>1, <3>1, QueueFacts
    <3>3. QED
      BY <1>1, <3>2 DEF ListIsQueue
  <2>2. QED
    BY <1>1, <1>3, <2>1 DEF MisqueueCheck
<1>4. ASSUME NEW t \in Thread, Dequeue(t) PROVE BusyOK'
  BY <1>1, <1>4 DEF Dequeue, MustRequeue
<1>5. CASE NapiFree \/ StopFree \/ CleanFree
  BY <1>1, <1>5 DEF NapiFree, StopFree, CleanFree, Free
<1>6. CASE NapiBegin \/ NapiEnd \/ StopWaited \/ StopTimeout \/ StopDrained
           \/ CleanDequeue \/ StopEnd \/ CtlrStopEnd \/ UNCHANGED vars
  BY <1>1, <1>6 DEF NapiBegin, NapiEnd, StopWaited, StopTimeout, StopDrained,
                    CleanDequeue, StopEnd, CtlrStopEnd
<1>7. CASE ChanStart \/ CtlrStart \/ ChanStop \/ CtlrStop
  BY <1>1, <1>7 DEF ChanStart, CtlrStart, ChanStop, CtlrStop, StopChan
<1>8. CASE Hardware
  BY <1>1, <1>8 DEF Hardware, HwFetch, HwComplete, HwTeardown
<1>9. QED
  BY <1>2, <1>3, <1>4, <1>5, <1>6, <1>7, <1>8
     DEF Next, Submit, IdleSubmit, Napi, NapiDequeue, Stopper, StopDequeue, Thread

\* Every step keeps the first half of the invariant.
LEMMA QueueStep ==
  ASSUME QueueInv, [Next]_vars
  PROVE  QueueInv'
<1> USE DescsAssumption
<1>1. TypeOK /\ ThreadsOK /\ BusyOK /\ ThreadsOK' /\ BusyOK'
  BY ThreadsStep, BusyStep DEF QueueInv
<1>2. SUFFICES TypeOK' /\ ListInv'
  BY <1>1 DEF QueueInv, ListInv
<1>3. ASSUME NEW d \in Descs, SubmitDesc(d) PROVE TypeOK' /\ ListInv'
  BY <1>3, SubmitStep
<1>4. CASE MisqueueCheck
  BY <1>4, MisqueueStep
<1>5. CASE NapiDequeue \/ StopDequeue
  <2>1. "napi" \in Thread /\ "stop" \in Thread
    BY DEF Thread
  <2>2. CASE NapiDequeue
    BY <1>1, <2>1, <2>2, DequeueStep DEF NapiDequeue, ThreadsOK, TypeOK
  <2>3. CASE StopDequeue
    BY <1>1, <2>1, <2>3, DequeueStep DEF StopDequeue, ThreadsOK, TypeOK
  <2>4. QED
    BY <1>5, <2>2, <2>3
<1>6. CASE CleanDequeue
  <2>1. /\ "stop" \in Thread /\ held["stop"] = NULL /\ ~Locked /\ head # NULL
        /\ TakeHead("stop") /\ UNCHANGED <<tail, pool, hw_next, prev>>
    BY <1>1, <1>6 DEF Thread, ThreadsOK, CleanDequeue, memVars
  <2>2. /\ count' \in 0..DescNum /\ queue' \in Seq(Descs)
        /\ head' \in Ptr /\ held' \in [Thread -> Ptr]
        /\ ListInv'
    BY <2>1, TakeHeadStep
  <2>3. TypeOK'
    BY <1>1, <1>6, <2>2 DEF TypeOK, CleanDequeue, memVars, hwVars
  <2>4. QED
    BY <2>2, <2>3
<1>7. CASE NapiFree
  <2>1. /\ "napi" \in Thread /\ held["napi"] # NULL /\ Free("napi") /\ stop' = stop
        /\ napi' \in {"loop", "out"}
    BY <1>1, <1>7 DEF Thread, ThreadsOK, NapiFree
  <2>2. prev # NULL => stop' # "wait"
    BY <2>1 DEF QueueInv, SubmitterOK
  <2>3. pool' \in SUBSET Descs /\ held' \in [Thread -> Ptr] /\ ListInv'
    BY <2>1, <2>2, FreeStep
  <2>4. TypeOK'
    BY <1>1, <2>1, <2>3 DEF TypeOK, Free, memVars, hwVars, histVars
  <2>5. QED
    BY <2>3, <2>4
<1>8. CASE StopFree \/ CleanFree
  <2>1. /\ "stop" \in Thread /\ held["stop"] # NULL /\ Free("stop") /\ napi' = napi
        /\ stop' \in {"drain", "clean"}
    BY <1>1, <1>8 DEF Thread, ThreadsOK, StopFree, CleanFree
  <2>2. pool' \in SUBSET Descs /\ held' \in [Thread -> Ptr] /\ ListInv'
    BY <2>1, FreeStep
  <2>3. TypeOK'
    BY <1>1, <2>1, <2>2 DEF TypeOK, Free, memVars, hwVars, histVars
  <2>4. QED
    BY <2>2, <2>3
<1>9. CASE \/ NapiBegin \/ NapiEnd \/ ChanStart \/ CtlrStart \/ ChanStop \/ CtlrStop
           \/ StopWaited \/ StopTimeout \/ StopDrained \/ StopEnd \/ CtlrStopEnd
           \/ Hardware \/ UNCHANGED vars
  <2> USE <1>9 DEF NapiBegin, NapiEnd, ChanStart, CtlrStart, ChanStop, CtlrStop,
        StopWaited, StopTimeout, StopDrained, StopEnd, CtlrStopEnd, Hardware,
        HwFetch, HwComplete, HwTeardown, StopChan, ChanOn, Locked, CleanedUp,
        vars, chanVars, memVars, hwVars, histVars
  <2>1. UNCHANGED <<head, tail, count, pool, hw_next, prev, held, queue>>
    OBVIOUS
  <2>2. prev # NULL => stop' # "wait"
    BY DEF QueueInv, SubmitterOK
  <2>3. ListInv'
    BY <2>1, <2>2, OffListStep
  <2>4. /\ state' \in {"idle", "active", "teardown"}
        /\ ctlr' \in {"idle", "active", "teardown"}
        /\ td' \in {"none", "requested", "done"}
        /\ napi' \in {"out", "loop", "callback"}
        /\ stop' \in {"out", "wait", "drain", "callback", "clean", "cleanCallback", "ctlr"}
    BY <1>1 DEF TypeOK
  <2>5. /\ hdp' \in Ptr /\ latch' \in Ptr
        /\ owner' \in SUBSET Descs
        /\ eoq' \in SUBSET Descs
        /\ td_complete' \in SUBSET Descs
    <3>1. /\ hdp \in Ptr /\ latch \in Ptr /\ head \in Ptr /\ NULL \in Ptr
          /\ owner \in SUBSET Descs /\ eoq \in SUBSET Descs
          /\ td_complete \in SUBSET Descs
      BY <1>1 DEF TypeOK, Ptr
    <3>2. /\ fetched => hdp \in Descs
          /\ hdp # NULL => hdp \in Descs /\ hw_next[hdp] \in Ptr
      BY <1>1 DEF TypeOK, Ptr, BusyOK
    <3>3. CASE ~Hardware
      BY <3>1, <3>3
    <3>4. CASE Hardware
      BY <3>1, <3>2, <3>4
    <3>5. QED
      BY <3>3, <3>4
  <2>6. fetched' \in BOOLEAN /\ stray' \in BOOLEAN
    <3>1. fetched \in BOOLEAN /\ stray \in BOOLEAN
      BY <1>1 DEF TypeOK
    <3>2. fetched' = fetched \/ fetched' = TRUE \/ fetched' = FALSE
      OBVIOUS
    <3>3. stray' = stray \/ stray' = TRUE
      OBVIOUS
    <3>4. QED
      BY ONLY <3>1, <3>2, <3>3
  <2>7. TypeOK'
    BY <1>1, <2>1, <2>4, <2>5, <2>6 DEF TypeOK
  <2>8. QED
    BY <2>3, <2>7
<1>10. QED
  BY <1>3, <1>4, <1>5, <1>6, <1>7, <1>8, <1>9
     DEF Next, Submit, IdleSubmit, Napi, Stopper

\* For any pool and any share of it, the descriptors are accounted for and
\* the linked list is the queue of what was submitted, in every reachable state.
THEOREM QueueInvariant == Spec => []QueueInv
<1>1. Init => QueueInv
  BY InitQueueInv
<1>2. QueueInv /\ [Next]_vars => QueueInv'
  BY QueueStep
<1>3. QED
  BY <1>1, <1>2, PTL DEF Spec

\* The type invariant of the channel: in particular count never leaves
\* 0..desc_num.
THEOREM TypeCorrect == Spec => []TypeOK
<1>1. QueueInv => TypeOK
  BY DEF QueueInv
<1>2. QED
  BY <1>1, QueueInvariant, PTL

\* The linked list is the queue, for any number of descriptors.
THEOREM ListCorrect == Spec => []ListIsQueue
<1>1. QueueInv => ListIsQueue
  BY DEF QueueInv
<1>2. QED
  BY <1>1, QueueInvariant, PTL

\* No descriptor is leaked or freed twice, for any number of descriptors.
THEOREM NoLeak == Spec => []Accounting
<1>1. QueueInv => Accounting
  BY DEF QueueInv
<1>2. QED
  BY <1>1, QueueInvariant, PTL

-----------------------------------------------------------------------------
(* The hardware and the marks it leaves.                                   *)

HwOK == EngineOK /\ MarksOK /\ CleanOK

\* The empty channel satisfies the second half of the invariant.
LEMMA InitHwInv == Init => HwInv
<1> SUFFICES ASSUME Init PROVE EngineOK /\ MarksOK /\ CleanOK
  BY DEF HwInv
<1>1. Len(queue) = 0
  BY EmptySeq DEF Init
<1>2. EngineOK /\ CleanOK
  BY DEF Init, EngineOK, CleanOK
<1>3. MarksAt(1)
  BY <1>1 DEF Init, MarksAt, OwnedFrom
<1>4. MarksOK
  BY <1>1, <1>3 DEF MarksOK
<1>5. QED
  BY <1>2, <1>4

\* The first step of a submission: the hardware has one more descriptor to
\* come, whether it is running, stopped, or was never started.
LEMMA HwSubmit ==
  ASSUME QueueInv, HwOK, NEW d \in Descs, SubmitDesc(d)
  PROVE  HwOK'
<1> USE DescsAssumption
<1>1. /\ TypeOK /\ ListIsQueue /\ Accounting /\ ThreadsOK /\ BusyOK
      /\ prev = NULL /\ stop # "wait" /\ d \in pool
      /\ queue' = Append(queue, d)
      /\ owner' = owner \cup {d} /\ eoq' = eoq \ {d}
      /\ td_complete' = td_complete \ {d}
      /\ UNCHANGED <<state, ctlr, fetched, latch, td, napi, stop, held, stray>>
  BY DEF QueueInv, SubmitDesc, Locked
<1>2. /\ Len(queue') = Len(queue) + 1
      /\ \A i \in 1..Len(queue) : queue'[i] = queue[i]
      /\ queue'[Len(queue) + 1] = d
  BY <1>1, AppendQueue DEF TypeOK
<1>3. /\ Len(queue) \in Nat
      /\ queue = <<>> <=> Len(queue) = 0
      /\ \A i \in 1..Len(queue) : queue[i] \in Descs
  BY <1>1, QueueFacts
<1>4. \A i \in 1..Len(queue) : queue[i] # d
  BY <1>1 DEF Accounting, Queued
<1>5. d # held["stop"]
  BY <1>1 DEF Accounting, Held, Thread
<1>6. PICK k \in 1..(Len(queue) + 1) : MarksAt(k)
  BY DEF HwOK, MarksOK
<1>7. /\ hdp # NULL => hdp \in Descs /\ hdp # d /\ k <= Len(queue) /\ hdp = queue[k]
  BY <1>3, <1>4, <1>6 DEF MarksAt
<1>8. \/ /\ head = NULL /\ Len(queue) = 0 /\ hdp = NULL /\ ~fetched
         /\ hdp' = IF state = "active" THEN d ELSE NULL
      \/ /\ head # NULL /\ queue # <<>> /\ hdp' = hdp /\ tail = queue[Len(queue)]
         /\ hw_next' = [hw_next EXCEPT ![d] = NULL, ![tail] = d]
         /\ hw_next[tail] = NULL
  <2>1. CASE head = NULL
    <3>1. Len(queue) = 0 /\ hdp = NULL
      BY <2>1, <1>1, <1>3, <1>7 DEF ListIsQueue
    <3>2. ~fetched
      BY <1>1, <3>1 DEF BusyOK
    <3>3. QED
      BY <2>1, <3>1, <3>2 DEF SubmitDesc
  <2>2. CASE head # NULL
    <3>1. queue # <<>> /\ tail = queue[Len(queue)] /\ Len(queue) \in 1..Len(queue)
      BY <2>2, <1>1, <1>3 DEF ListIsQueue
    <3>2. hw_next[queue[Len(queue)]] = NULL
      BY <1>1, <3>1 DEF ListIsQueue
    <3>3. QED
      BY <2>2, <3>1, <3>2 DEF SubmitDesc, Link
  <2>3. QED
    BY <2>1, <2>2
<1>9. EngineOK'
  <2>1. fetched => hdp' = hdp /\ hw_next'[hdp] \in {hw_next[hdp], d}
                   /\ (hw_next'[hdp] = d => hw_next[hdp] = NULL \/ hw_next[hdp] = d)
    <3>1. ASSUME fetched PROVE hdp \in Descs /\ hdp # d /\ head # NULL
      BY <1>1, <1>7, <1>8, <3>1 DEF BusyOK
    <3>2. QED
      BY <1>1, <1>8, <3>1 DEF TypeOK
  <2>2. fetched => latch \in {NULL, hw_next'[hdp]}
    <3>1. CASE hw_next'[hdp] = hw_next[hdp]
      BY <3>1 DEF HwOK, EngineOK
    <3>2. CASE hw_next'[hdp] # hw_next[hdp]
      BY <2>1, <3>2 DEF HwOK, EngineOK
    <3>3. QED
      BY <3>1, <3>2
  <2>3. hdp' # NULL => state' = "active" \/ stop' = "wait"
    BY <1>1, <1>8 DEF HwOK, EngineOK
  <2>4. td' # "none" => stop' = "wait"
    BY <1>1 DEF HwOK, EngineOK
  <2>5. td' = "done" => hdp' = NULL
    BY <1>1, <2>4
  <2>6. QED
    BY <1>1, <2>1, <2>2, <2>3, <2>4, <2>5 DEF HwOK, EngineOK
<1>10. MarksAt(k)'
  <2>1. OwnedFrom(k)'
    BY <1>1, <1>2, <1>3, <1>4, <1>6 DEF MarksAt, OwnedFrom
  <2>2. hdp' # NULL => k <= Len(queue') /\ hdp' = queue'[k]
    BY <1>2, <1>3, <1>7, <1>8
  <2>3. \A i \in 1..Len(queue') :
          /\ queue'[i] \in eoq' => hdp' = NULL /\ i = k - 1
          /\ queue'[i] \in td_complete' =>
               state' = "teardown" /\ hdp' = NULL /\ i = k - 1
    BY <1>1, <1>2, <1>3, <1>6, <1>8 DEF MarksAt
  <2>4. state' = "active" /\ hdp' = NULL => k > 1 /\ queue'[k - 1] \in eoq'
    BY <1>1, <1>2, <1>3, <1>4, <1>6, <1>8 DEF MarksAt
  <2>5. /\ state' = "idle" \/ stop' \in {"clean", "cleanCallback"} => k = 1
        /\ stop' = "callback" /\ held'["stop"] \in td_complete' => k = 1
    BY <1>1, <1>6 DEF MarksAt
  <2>6. QED
    BY <2>1, <2>2, <2>3, <2>4, <2>5 DEF MarksAt
<1>11. MarksOK'
  BY <1>2, <1>3, <1>10 DEF MarksOK
<1>12. CleanOK'
  BY <1>1 DEF HwOK, CleanOK
<1>13. QED
  BY <1>9, <1>11, <1>12 DEF HwOK

\* The second step: if the hardware stopped at the old tail it is restarted at
\* the new one; otherwise it is still ahead of it, or the poller will find EOQ.
LEMMA HwMisqueue ==
  ASSUME QueueInv, HwOK, MisqueueCheck
  PROVE  HwOK'
<1> USE DescsAssumption
<1>1. /\ TypeOK /\ ListIsQueue /\ Accounting /\ BusyOK
      /\ prev # NULL /\ stop # "wait"
      /\ Len(queue) \in Nat /\ Len(queue) >= 2 /\ prev = queue[Len(queue) - 1]
      /\ \A i \in 1..Len(queue) : queue[i] \in Descs
      /\ UNCHANGED <<head, tail, state, pool, hw_next, owner, td_complete,
                     fetched, latch, td, stop, held, queue>>
  BY QueueFacts DEF QueueInv, SubmitterOK, MisqueueCheck, histVars
<1>2. tail = queue[Len(queue)] /\ tail # prev /\ tail # NULL /\ queue # <<>>
  <2>1. queue # <<>>
    BY <1>1, QueueFacts
  <2>2. tail = queue[Len(queue)] /\ tail # NULL
    BY <1>1, <2>1 DEF ListIsQueue
  <2>3. tail # prev
    <3>1. Len(queue) \in 1..Len(queue) /\ Len(queue) - 1 \in 1..Len(queue)
      BY <1>1
    <3>2. queue[Len(queue)] = queue[Len(queue) - 1] => Len(queue) = Len(queue) - 1
      BY <1>1, <3>1 DEF Accounting
    <3>3. QED
      BY <1>1, <2>2, <3>2
  <2>4. QED
    BY <2>1, <2>2, <2>3
<1>3. PICK k \in 1..(Len(queue) + 1) : MarksAt(k)
  BY DEF HwOK, MarksOK
<1>4. CASE ~Misqueued
  <2>1. UNCHANGED <<eoq, hdp>>
    BY <1>4 DEF MisqueueCheck
  <2>2. EngineOK' /\ CleanOK'
    BY <1>1, <2>1 DEF HwOK, EngineOK, CleanOK
  <2>3. MarksAt(k)'
    BY <1>1, <1>3, <2>1 DEF MarksAt, OwnedFrom
  <2>4. QED
    BY <1>1, <2>2, <2>3 DEF HwOK, MarksOK
<1>5. CASE Misqueued
  <2>1. /\ eoq' = eoq \ {prev} /\ hdp' = tail /\ state = "active"
        /\ prev \in eoq
    BY <1>5 DEF Misqueued, MisqueueCheck
  <2>2. hdp = NULL /\ Len(queue) - 1 = k - 1
    BY <1>1, <1>3, <2>1 DEF MarksAt
  <2>3. ~fetched /\ td # "done"
    BY <1>1, <2>2 DEF BusyOK, HwOK, EngineOK
  <2>4. EngineOK' /\ CleanOK'
    BY <1>1, <2>1, <2>3 DEF HwOK, EngineOK, CleanOK
  <2>5. \A i \in 1..Len(queue) : queue[i] \notin eoq' \cup td_complete'
    BY <1>1, <1>3, <2>1, <2>2 DEF MarksAt
  <2>6. OwnedFrom(k)'
    BY <1>1, <1>3 DEF MarksAt, OwnedFrom
  <2>7. MarksAt(k)'
    BY <1>1, <1>2, <1>3, <2>1, <2>2, <2>5, <2>6 DEF MarksAt
  <2>8. QED
    BY <1>1, <2>4, <2>7 DEF HwOK, MarksOK
<1>6. QED
  BY <1>4, <1>5

\* The head leaves the list: every mark moves one place down.
LEMMA MarksShift ==
  ASSUME TypeOK, ListIsQueue, queue # <<>>, queue' = Tail(queue),
         NEW k \in 1..(Len(queue) + 1), OwnedFrom(k), owner' = owner
  PROVE  /\ k > 1 => OwnedFrom(k - 1)'
         /\ k = 1 => OwnedFrom(1)'
<1>1. /\ Len(queue') = Len(queue) - 1
      /\ \A i \in 1..Len(queue') : queue'[i] = queue[i + 1]
  BY TailQueue DEF TypeOK
<1>2. Len(queue) \in Nat
  BY QueueFacts
<1>3. QED
  BY <1>1, <1>2 DEF OwnedFrom

\* A completed head leaves the list; if the hardware stopped there it is
\* restarted behind it.
LEMMA HwDequeue ==
  ASSUME QueueInv, HwOK, NEW t \in Thread, Dequeue(t), held[t] = NULL, ~stray',
         \/ t = "napi" /\ stop' = stop
         \/ t = "stop" /\ stop = "drain" /\ stop' = "callback"
  PROVE  HwOK'
<1> USE DescsAssumption
<1>1. /\ TypeOK /\ ThreadsOK /\ ListIsQueue /\ Accounting /\ BusyOK
      /\ stop # "wait" /\ head \notin owner /\ queue # <<>> /\ head = queue[1]
      /\ queue' = Tail(queue) /\ head' = hw_next[head]
      /\ held' = [held EXCEPT ![t] = head]
      /\ UNCHANGED <<tail, state, ctlr, pool, hw_next, owner, eoq, td_complete,
                     fetched, latch, td, prev>>
  BY DEF QueueInv, Dequeue, TakeHead, HeadDone, Locked, ListIsQueue, memVars
<1>2. /\ Len(queue) \in Nat /\ Len(queue) >= 1
      /\ \A i \in 1..Len(queue) : queue[i] \in Descs
  BY <1>1, QueueFacts
<1>3. /\ Len(queue') = Len(queue) - 1
      /\ \A i \in 1..Len(queue') : queue'[i] = queue[i + 1]
  BY <1>1, TailQueue DEF TypeOK
<1>4. PICK k \in 1..(Len(queue) + 1) : MarksAt(k)
  BY DEF HwOK, MarksOK
<1>5. k > 1
  BY <1>1, <1>2, <1>4 DEF MarksAt, OwnedFrom
<1>6. OwnedFrom(k - 1)'
  BY <1>1, <1>4, <1>5, MarksShift DEF MarksAt
<1>7. k - 1 \in 1..(Len(queue') + 1)
  BY <1>2, <1>3, <1>5
<1>8. queue' = <<>> <=> Len(queue') = 0
  <2>1. queue' \in Seq(Descs)
    BY <1>1, TailQueue DEF TypeOK
  <2>2. QED
    BY <2>1, EmptySeq
<1>9. \A i \in 1..Len(queue') :
        /\ queue'[i] \in eoq' => hdp = NULL /\ i = (k - 1) - 1
        /\ queue'[i] \in td_complete' =>
             state' = "teardown" /\ hdp = NULL /\ i = (k - 1) - 1
  BY <1>1, <1>2, <1>3, <1>4 DEF MarksAt
<1>10. /\ state' # "idle" /\ stop' \notin {"clean", "cleanCallback"}
       /\ stop' = "callback" /\ held'["stop"] \in td_complete' => k - 1 = 1
  <2>1. state # "idle" /\ stop \notin {"clean", "cleanCallback"}
    BY <1>4, <1>5 DEF MarksAt
  <2>2. stop' \notin {"clean", "cleanCallback"}
    BY <2>1
  <2>3. CASE t = "napi"
    <3>1. held'["stop"] = held["stop"] /\ stop' = stop
      BY <1>1, <2>3 DEF TypeOK, Thread
    <3>2. ~(stop = "callback" /\ held["stop"] \in td_complete)
      BY <1>4, <1>5 DEF MarksAt
    <3>3. QED
      BY <1>1, <2>1, <2>2, <3>1, <3>2
  <2>4. CASE t = "stop"
    <3>1. held'["stop"] = queue[1]
      BY <1>1, <2>4 DEF TypeOK
    <3>2. queue[1] \in td_complete => 1 = k - 1
      BY <1>2, <1>4 DEF MarksAt
    <3>3. QED
      BY <1>1, <2>1, <2>2, <3>1, <3>2
  <2>5. QED
    BY <2>3, <2>4
<1>11. CleanOK'
  BY <1>10 DEF CleanOK
<1>12. CASE ~MustRequeue
  <2>1. hdp' = hdp
    BY <1>12 DEF Dequeue
  <2>2. EngineOK'
    BY <1>1, <2>1 DEF HwOK, EngineOK
  <2>3. state = "active" /\ hdp = NULL /\ queue' # <<>> =>
          k - 1 > 1 /\ queue'[(k - 1) - 1] \in eoq
    <3>1. HAVE state = "active" /\ hdp = NULL /\ queue' # <<>>
    <3>2. queue[k - 1] \in eoq
      BY <1>1, <1>4, <3>1 DEF MarksAt
    <3>3. hw_next[queue[1]] # NULL
      <4>1. Len(queue) >= 2 /\ queue[2] \in Descs
        BY <1>2, <1>3, <1>8, <3>1
      <4>2. QED
        BY <1>1, <4>1, NextOfHead
    <3>4. k - 1 # 1
      BY <1>1, <1>12, <3>2, <3>3 DEF MustRequeue
    <3>5. QED
      BY <1>2, <1>3, <1>5, <3>2, <3>4
  <2>4. MarksAt(k - 1)'
    BY <1>1, <1>2, <1>3, <1>4, <1>5, <1>6, <1>9, <1>10, <2>1, <2>3 DEF MarksAt
  <2>5. QED
    BY <1>7, <1>11, <2>2, <2>4 DEF HwOK, MarksOK
<1>13. CASE MustRequeue
  <2>1. hdp' = hw_next[head] /\ state = "active" /\ head \in eoq /\ hdp' # NULL
    BY <1>13 DEF Dequeue, MustRequeue
  <2>2. hdp = NULL /\ k = 2
    BY <1>1, <1>2, <1>4, <2>1 DEF MarksAt
  <2>3. Len(queue) >= 2 /\ hdp' = queue[2]
    <3>1. hdp' = IF Len(queue) = 1 THEN NULL ELSE queue[2]
      BY <1>1, <2>1, NextOfHead
    <3>2. Len(queue) # 1
      BY <2>1, <3>1, Zenon
    <3>3. \A n \in Nat : n >= 1 /\ n # 1 => n >= 2
      OBVIOUS
    <3>4. Len(queue) >= 2
      BY <1>2, <3>2, <3>3, Zenon
    <3>5. QED
      BY <3>1, <3>2, <3>4, Zenon
  <2>4. ~fetched
    BY <1>1, <2>2 DEF BusyOK
  <2>5. EngineOK'
    BY <1>1, <2>1, <2>4 DEF HwOK, EngineOK
  <2>6. \A i \in 1..Len(queue') : queue'[i] \notin eoq' \cup td_complete'
    BY <1>2, <1>3, <1>9, <2>2
  <2>7. MarksAt(k - 1)'
    BY <1>1, <1>2, <1>3, <1>6, <1>10, <2>1, <2>2, <2>3, <2>6 DEF MarksAt
  <2>8. QED
    BY <1>7, <1>11, <2>5, <2>7 DEF HwOK, MarksOK
<1>14. QED
  BY <1>12, <1>13

\* Clean-up after the teardown takes descriptors the hardware still owned.
LEMMA HwCleanDequeue ==
  ASSUME QueueInv, HwOK, CleanDequeue
  PROVE  HwOK'
<1>1. /\ TypeOK /\ ThreadsOK /\ ListIsQueue /\ BusyOK
      /\ stop = "clean" /\ stop' = "cleanCallback" /\ queue # <<>> /\ head = queue[1]
      /\ queue' = Tail(queue)
      /\ held' = [held EXCEPT !["stop"] = head]
      /\ UNCHANGED <<state, hw_next, owner, eoq, td_complete, hdp, fetched, latch, td>>
  BY DEF QueueInv, CleanDequeue, TakeHead, ListIsQueue, memVars, hwVars
<1>2. Len(queue) \in Nat /\ Len(queue) # 0 /\ 1 \in 1..Len(queue)
  BY <1>1, QueueFacts
<1>3. /\ Len(queue') = Len(queue) - 1
      /\ \A i \in 1..Len(queue') : queue'[i] = queue[i + 1]
  BY <1>1, TailQueue DEF TypeOK
<1>4. state = "teardown" /\ hdp = NULL
  BY <1>1 DEF ThreadsOK, HwOK, EngineOK
<1>5. PICK k \in 1..(Len(queue) + 1) : MarksAt(k)
  BY DEF HwOK, MarksOK
<1>6. MarksAt(1)
  BY <1>1, <1>5 DEF MarksAt
<1>7. EngineOK'
  BY <1>1 DEF HwOK, EngineOK
<1>8. CleanOK'
  <2>1. queue[1] \in owner
    BY <1>2, <1>6 DEF MarksAt, OwnedFrom
  <2>2. held'["stop"] = queue[1]
    BY <1>1 DEF TypeOK, Thread
  <2>3. QED
    BY <1>1, <2>1, <2>2 DEF CleanOK
<1>9. MarksAt(1)'
  <2>1. OwnedFrom(1)'
    BY <1>1, <1>2, <1>3, <1>6 DEF MarksAt, OwnedFrom
  <2>2. \A i \in 1..Len(queue') : queue'[i] \notin eoq' \cup td_complete'
    BY <1>1, <1>2, <1>3, <1>6 DEF MarksAt
  <2>3. QED
    BY <1>1, <1>4, <2>1, <2>2 DEF MarksAt
<1>10. QED
  BY <1>2, <1>3, <1>7, <1>8, <1>9 DEF HwOK, MarksOK

\* Steps that change neither the queue nor any mark.
LEMMA HwSameMarks ==
  ASSUME TypeOK, HwOK, NEW k \in 1..(Len(queue) + 1), MarksAt(k),
         UNCHANGED <<queue, owner, eoq, td_complete, hdp>>,
         state' = "active" => state = "active" \/ hdp # NULL \/ queue = <<>>,
         state = "teardown" => state' = "teardown" \/ queue = <<>>,
         state' = "idle" \/ stop' \in {"clean", "cleanCallback"} =>
           k = 1 \/ queue = <<>>,
         stop' = "callback" => stop = "callback" /\ held'["stop"] = held["stop"]
  PROVE  MarksOK'
<1>1. Len(queue) \in Nat /\ (queue = <<>> <=> Len(queue) = 0)
  BY QueueFacts
<1>2. MarksAt(k)'
  <2>1. OwnedFrom(k)'
    BY DEF MarksAt, OwnedFrom
  <2>2. queue = <<>> => k = 1
    BY <1>1
  <2>3. QED
    BY <1>1, <2>1, <2>2 DEF MarksAt
<1>3. QED
  BY <1>1, <1>2 DEF MarksOK

\* Giving a descriptor back touches no mark; after a teardown descriptor
\* nothing finished is left in the queue.
LEMMA HwFree ==
  ASSUME QueueInv, HwOK, NapiFree \/ StopFree \/ CleanFree
  PROVE  HwOK'
<1>1. /\ TypeOK /\ ThreadsOK
      /\ UNCHANGED <<head, state, hw_next, owner, eoq, td_complete, hdp, fetched,
                     latch, td, queue>>
  BY DEF QueueInv, NapiFree, StopFree, CleanFree, Free, memVars, hwVars, histVars
<1>2. PICK k \in 1..(Len(queue) + 1) : MarksAt(k)
  BY DEF HwOK, MarksOK
<1>3. CASE NapiFree
  <2>1. stop' = stop /\ held' = [held EXCEPT !["napi"] = NULL]
    BY <1>3 DEF NapiFree, Free
  <2>2. held'["stop"] = held["stop"]
    BY <1>1, <2>1 DEF TypeOK, Thread
  <2>3. EngineOK' /\ CleanOK'
    BY <1>1, <2>1, <2>2 DEF HwOK, EngineOK, CleanOK
  <2>4. state = "idle" \/ stop \in {"clean", "cleanCallback"} => k = 1
    BY <1>2 DEF MarksAt
  <2>5. MarksOK'
    BY <1>1, <1>2, <2>1, <2>2, <2>4, HwSameMarks
  <2>6. QED
    BY <2>3, <2>5 DEF HwOK
<1>4. CASE StopFree \/ CleanFree
  <2>1. /\ stop \in {"callback", "cleanCallback"}
        /\ stop' \in {"drain", "clean"} /\ state = "teardown"
    BY <1>1, <1>4 DEF StopFree, CleanFree, ThreadsOK
  <2>2. stop' = "clean" => k = 1
    <3>1. CASE StopFree
      BY <1>2, <3>1 DEF StopFree, MarksAt
    <3>2. CASE CleanFree
      BY <1>2, <3>2 DEF CleanFree, MarksAt
    <3>3. QED
      BY <1>4, <3>1, <3>2
  <2>3. EngineOK' /\ CleanOK'
    BY <1>1, <2>1 DEF HwOK, EngineOK, CleanOK
  <2>4. MarksOK'
    BY <1>1, <1>2, <2>1, <2>2, HwSameMarks
  <2>5. QED
    BY <2>3, <2>4 DEF HwOK
<1>5. QED
  BY <1>3, <1>4

\* The poller's test of the state, and the end of its loop.
LEMMA HwNapi ==
  ASSUME QueueInv, HwOK, NapiBegin \/ NapiEnd
  PROVE  HwOK'
<1>1. UNCHANGED <<state, hw_next, owner, eoq, td_complete, hdp, fetched, latch, td,
                  queue, stop, held>>
  BY DEF NapiBegin, NapiEnd, chanVars, memVars, hwVars, histVars
<1>2. QED
  BY <1>1 DEF HwOK, EngineOK, MarksOK, MarksAt, OwnedFrom, CleanOK

\* Turning the channel on: everything that was queued while it was idle is
\* still the hardware's, and the hardware starts at its head.
LEMMA HwStart ==
  ASSUME QueueInv, HwOK, ChanStart \/ CtlrStart
  PROVE  HwOK'
<1>1. /\ TypeOK /\ ThreadsOK /\ BusyOK /\ ListIsQueue
      /\ state = "idle" /\ state' = "active" /\ stop = "out" /\ stop' = "out"
      /\ UNCHANGED <<head, hw_next, owner, eoq, td_complete, queue, held>>
  BY DEF QueueInv, ChanStart, CtlrStart, ChanOn, memVars, histVars
<1>2. hdp = NULL /\ ~fetched /\ latch = NULL /\ td = "none"
  BY <1>1 DEF HwOK, EngineOK, BusyOK
<1>3. /\ hdp' = head /\ ~fetched' /\ latch' = NULL /\ td' = "none"
  BY <1>2 DEF ChanStart, CtlrStart
<1>4. PICK k \in 1..(Len(queue) + 1) : MarksAt(k)
  BY DEF HwOK, MarksOK
<1>5. MarksAt(1)
  BY <1>1, <1>4 DEF MarksAt
<1>6. Len(queue) \in Nat /\ (queue = <<>> <=> Len(queue) = 0)
  BY <1>1, QueueFacts
<1>7. EngineOK' /\ CleanOK'
  BY <1>1, <1>3 DEF EngineOK, CleanOK
<1>8. MarksAt(1)'
  <2>1. OwnedFrom(1)'
    BY <1>1, <1>5 DEF MarksAt, OwnedFrom
  <2>2. \A i \in 1..Len(queue) : queue[i] \notin eoq \cup td_complete
    BY <1>5, <1>6 DEF MarksAt
  <2>3. head # NULL => 1 <= Len(queue) /\ head = queue[1]
    BY <1>1, <1>6 DEF ListIsQueue
  <2>4. head = NULL => queue = <<>>
    BY <1>1 DEF ListIsQueue
  <2>5. QED
    BY <1>1, <1>3, <2>1, <2>2, <2>3, <2>4 DEF MarksAt
<1>9. QED
  BY <1>1, <1>6, <1>7, <1>8 DEF HwOK, MarksOK

\* The steps of stopping that touch neither the queue nor a mark.
LEMMA HwStop ==
  ASSUME QueueInv, HwOK,
         ChanStop \/ CtlrStop \/ StopWaited \/ StopDrained \/ StopEnd \/ CtlrStopEnd
  PROVE  HwOK'
<1>1. /\ TypeOK /\ ThreadsOK /\ BusyOK /\ ListIsQueue
      /\ UNCHANGED <<head, hw_next, owner, eoq, td_complete, hdp, fetched, latch,
                     queue, held>>
  BY DEF QueueInv, ChanStop, CtlrStop, StopChan, StopWaited, StopDrained, StopEnd,
         CtlrStopEnd, chanVars, memVars, hwVars, histVars
<1>2. PICK k \in 1..(Len(queue) + 1) : MarksAt(k)
  BY DEF HwOK, MarksOK
<1>3. Len(queue) \in Nat /\ (queue = <<>> <=> Len(queue) = 0)
  BY <1>1, QueueFacts
<1>4. CASE ChanStop \/ CtlrStop
  <2>1. stop' = "wait" /\ state' = "teardown" /\ td' = "requested"
    BY <1>4 DEF ChanStop, CtlrStop, StopChan
  <2>2. EngineOK' /\ CleanOK'
    BY <1>1, <2>1 DEF HwOK, EngineOK, CleanOK
  <2>3. MarksOK'
    BY <1>1, <1>2, <2>1, HwSameMarks
  <2>4. QED
    BY <2>2, <2>3 DEF HwOK
<1>5. CASE StopWaited
  <2>1. /\ stop = "wait" /\ stop' = "drain" /\ state' = state /\ state = "teardown"
        /\ td = "done" /\ td' = "none"
    BY <1>1, <1>5 DEF StopWaited, TeardownSeen, chanVars, ThreadsOK
  <2>2. hdp = NULL
    BY <2>1 DEF HwOK, EngineOK
  <2>3. EngineOK' /\ CleanOK'
    BY <1>1, <2>1, <2>2 DEF HwOK, EngineOK, CleanOK
  <2>4. MarksOK'
    BY <1>1, <1>2, <2>1, HwSameMarks
  <2>5. QED
    BY <2>3, <2>4 DEF HwOK
<1>6. CASE StopDrained
  <2>1. /\ stop = "drain" /\ stop' = "clean" /\ state' = state /\ state = "teardown"
        /\ td' = td /\ (head = NULL \/ head \in owner)
    BY <1>1, <1>6 DEF StopDrained, NothingToDequeue, chanVars, hwVars, ThreadsOK
  <2>2. k = 1 \/ queue = <<>>
    <3>1. ASSUME queue # <<>> PROVE k = 1
      <4>1. queue[1] \in owner /\ 1 \in 1..Len(queue)
        BY <1>1, <1>3, <2>1, <3>1 DEF ListIsQueue
      <4>2. 1 >= k
        BY <1>2, <4>1 DEF MarksAt, OwnedFrom
      <4>3. QED
        BY <1>3, <4>2
    <3>2. QED
      BY <3>1
  <2>3. EngineOK' /\ CleanOK'
    BY <1>1, <2>1 DEF HwOK, EngineOK, CleanOK
  <2>4. MarksOK'
    BY <1>1, <1>2, <2>1, <2>2, HwSameMarks
  <2>5. QED
    BY <2>3, <2>4 DEF HwOK
<1>7. CASE StopEnd
  <2>1. /\ stop = "clean" /\ stop' \in {"ctlr", "out"} /\ state' = "idle"
        /\ state = "teardown" /\ td' = td /\ queue = <<>>
    BY <1>1, <1>7 DEF StopEnd, CleanedUp, hwVars, ThreadsOK, ListIsQueue
  <2>2. EngineOK' /\ CleanOK'
    BY <1>1, <2>1 DEF HwOK, EngineOK, CleanOK
  <2>3. MarksOK'
    BY <1>1, <1>2, <2>1, HwSameMarks
  <2>4. QED
    BY <2>2, <2>3 DEF HwOK
<1>8. CASE CtlrStopEnd
  <2>1. stop = "ctlr" /\ stop' = "out" /\ state' = state /\ state = "idle" /\ td' = td
    BY <1>1, <1>8 DEF CtlrStopEnd, hwVars, ThreadsOK
  <2>2. EngineOK' /\ CleanOK'
    BY <1>1, <2>1 DEF HwOK, EngineOK, CleanOK
  <2>3. k = 1
    BY <1>2, <2>1 DEF MarksAt
  <2>4. MarksOK'
    BY <1>1, <1>2, <2>1, <2>3, HwSameMarks
  <2>5. QED
    BY <2>2, <2>4 DEF HwOK
<1>9. QED
  BY <1>4, <1>5, <1>6, <1>7, <1>8

\* The steps of the hardware.
LEMMA HwMoves ==
  ASSUME QueueInv, HwOK, Hardware
  PROVE  HwOK'
<1> USE DescsAssumption
<1>1. /\ TypeOK /\ ThreadsOK /\ BusyOK /\ ListIsQueue /\ Accounting
      /\ UNCHANGED <<head, state, hw_next, queue, stop, held>>
  BY DEF QueueInv, Hardware, HwFetch, HwComplete, HwTeardown, chanVars, memVars,
         histVars
<1>2. PICK k \in 1..(Len(queue) + 1) : MarksAt(k)
  BY DEF HwOK, MarksOK
<1>3. /\ Len(queue) \in Nat
      /\ \A i \in 1..Len(queue) : queue[i] \in Descs
  BY <1>1, QueueFacts
<1>4. \A i, j \in 1..Len(queue) : queue[i] = queue[j] => i = j
  BY <1>1 DEF Accounting
<1>5. CASE HwFetch
  <2>1. /\ UNCHANGED <<owner, eoq, td_complete, hdp, td>>
        /\ hdp # NULL /\ fetched' /\ latch' = hw_next[hdp]
    BY <1>5 DEF HwFetch, memVars
  <2>2. EngineOK' /\ CleanOK'
    BY <1>1, <2>1 DEF HwOK, EngineOK, CleanOK
  <2>3. MarksAt(k)'
    BY <1>1, <1>2, <2>1 DEF MarksAt, OwnedFrom
  <2>4. QED
    BY <1>1, <2>2, <2>3 DEF HwOK, MarksOK
<1>6. CASE HwComplete
  <2>1. /\ fetched /\ hdp # NULL /\ hdp' = latch /\ ~fetched' /\ latch' = NULL
        /\ owner' = owner \ {hdp}
        /\ eoq' = IF latch = NULL THEN eoq \cup {hdp} ELSE eoq
        /\ UNCHANGED <<td_complete, td>>
    BY <1>1, <1>6 DEF HwComplete, BusyOK
  <2>2. /\ hdp = queue[k] /\ k \in 1..Len(queue)
        /\ latch \in {NULL, hw_next[hdp]}
        /\ state = "active" \/ stop = "wait"
    BY <1>2, <1>3, <2>1 DEF MarksAt, HwOK, EngineOK
  <2>3. latch # NULL => k + 1 \in 1..Len(queue) /\ latch = queue[k + 1]
    <3>1. hw_next[queue[k]] = IF k = Len(queue) THEN NULL ELSE queue[k + 1]
      BY <1>1, <2>2 DEF ListIsQueue
    <3>2. CASE k = Len(queue)
      BY <2>2, <3>1, <3>2
    <3>3. CASE k # Len(queue)
      BY <1>3, <2>2, <3>1, <3>3
    <3>4. QED
      BY <3>2, <3>3
  <2>4. state # "idle" /\ stop \notin {"clean", "cleanCallback", "callback"}
    BY <1>1, <2>2 DEF ThreadsOK
  <2>5. EngineOK'
    BY <1>1, <2>1, <2>2 DEF HwOK, EngineOK
  <2>6. CleanOK'
    BY <1>1, <2>4 DEF CleanOK
  <2>7. OwnedFrom(k + 1)'
    BY <1>1, <1>2, <1>3, <1>4, <2>1, <2>2 DEF MarksAt, OwnedFrom
  <2>8. \A i \in 1..Len(queue) :
          /\ queue[i] \in eoq' => latch = NULL /\ i = (k + 1) - 1
          /\ queue[i] \notin td_complete
    BY <1>2, <1>3, <1>4, <2>1, <2>2 DEF MarksAt
  <2>9. latch = NULL => k + 1 > 1 /\ queue[(k + 1) - 1] \in eoq'
    BY <2>1, <2>2
  <2>10. MarksAt(k + 1)'
    BY <1>1, <2>1, <2>3, <2>4, <2>7, <2>8, <2>9 DEF MarksAt
  <2>11. k + 1 \in 1..(Len(queue') + 1)
    BY <1>1, <1>3, <2>2
  <2>12. QED
    BY <2>5, <2>6, <2>10, <2>11 DEF HwOK, MarksOK
<1>7. CASE HwTeardown
  <2>1. /\ td = "requested" /\ ~fetched /\ td' = "done" /\ hdp' = NULL
        /\ UNCHANGED <<eoq, fetched, latch>>
        /\ \/ UNCHANGED <<owner, td_complete>>
           \/ /\ hdp # NULL
              /\ owner' = owner \ {hdp}
              /\ td_complete' = td_complete \cup {hdp}
    BY <1>7 DEF HwTeardown
  <2>2. stop = "wait" /\ state = "teardown"
    BY <1>1, <2>1 DEF HwOK, EngineOK, ThreadsOK
  <2>3. EngineOK' /\ CleanOK'
    BY <1>1, <2>1, <2>2 DEF HwOK, EngineOK, CleanOK
  <2>4. CASE UNCHANGED <<owner, td_complete>>
    <3>1. MarksAt(k)'
      BY <1>1, <1>2, <2>1, <2>2, <2>4 DEF MarksAt, OwnedFrom
    <3>2. QED
      BY <1>1, <2>3, <3>1 DEF HwOK, MarksOK
  <2>5. CASE /\ hdp # NULL
             /\ owner' = owner \ {hdp}
             /\ td_complete' = td_complete \cup {hdp}
    <3>1. hdp = queue[k] /\ k \in 1..Len(queue)
      BY <1>2, <1>3, <2>5 DEF MarksAt
    <3>2. OwnedFrom(k + 1)'
      BY <1>1, <1>2, <1>3, <1>4, <2>5, <3>1 DEF MarksAt, OwnedFrom
    <3>3. \A i \in 1..Len(queue) :
            /\ queue[i] \notin eoq
            /\ queue[i] \in td_complete' => i = (k + 1) - 1
      BY <1>2, <1>3, <1>4, <2>5, <3>1 DEF MarksAt
    <3>4. MarksAt(k + 1)'
      BY <1>1, <2>1, <2>2, <3>2, <3>3 DEF MarksAt
    <3>5. k + 1 \in 1..(Len(queue') + 1)
      BY <1>1, <1>3, <3>1
    <3>6. QED
      BY <2>3, <3>4, <3>5 DEF HwOK, MarksOK
  <2>6. QED
    BY <2>1, <2>4, <2>5
<1>8. QED
  BY <1>5, <1>6, <1>7 DEF Hardware

\* Every step keeps the second half of the invariant.
LEMMA HwStep ==
  ASSUME QueueInv, HwInv, [Next]_vars
  PROVE  HwInv'
<1>1. SUFFICES ASSUME ~stray' PROVE HwOK'
  BY DEF HwInv, HwOK
<1>2. TypeOK /\ ThreadsOK
  BY DEF QueueInv
<1>3. ~stray
  <2>1. UNCHANGED stray \/ stray' \/ stray' = (stray \/ state # "active")
    BY DEF Next, Submit, IdleSubmit, SubmitDesc, MisqueueCheck, Napi, NapiBegin,
           NapiDequeue, Dequeue, NapiFree, Free, NapiEnd, ChanStart, CtlrStart,
           ChanStop, CtlrStop, StopChan, Stopper, StopWaited, StopTimeout,
           StopDequeue, StopFree, StopDrained, CleanDequeue, CleanFree, StopEnd,
           CtlrStopEnd, Hardware, HwFetch, HwComplete, HwTeardown, vars, histVars
  <2>2. QED
    BY <1>1, <2>1
<1>4. HwOK
  BY <1>3 DEF HwInv, HwOK
<1>5. ASSUME NEW d \in Descs, SubmitDesc(d) PROVE HwOK'
  BY <1>4, <1>5, HwSubmit
<1>6. CASE MisqueueCheck
  BY <1>4, <1>6, HwMisqueue
<1>7. CASE NapiDequeue
  BY <1>1, <1>2, <1>4, <1>7, HwDequeue DEF NapiDequeue, Thread, ThreadsOK, TypeOK
<1>8. CASE StopDequeue
  BY <1>1, <1>2, <1>4, <1>8, HwDequeue DEF StopDequeue, Thread, ThreadsOK, TypeOK
<1>9. CASE NapiFree \/ StopFree \/ CleanFree
  BY <1>4, <1>9, HwFree
<1>10. CASE NapiBegin \/ NapiEnd
  BY <1>4, <1>10, HwNapi
<1>11. CASE ChanStart \/ CtlrStart
  BY <1>4, <1>11, HwStart
<1>12. CASE ChanStop \/ CtlrStop \/ StopWaited \/ StopDrained \/ StopEnd \/ CtlrStopEnd
  BY <1>4, <1>12, HwStop
<1>13. CASE StopTimeout
  BY <1>1, <1>13 DEF StopTimeout
<1>14. CASE CleanDequeue
  BY <1>4, <1>14, HwCleanDequeue
<1>15. CASE Hardware
  BY <1>4, <1>15, HwMoves
<1>16. CASE UNCHANGED vars
  BY <1>4, <1>16 DEF vars, chanVars, memVars, hwVars, histVars, HwOK, EngineOK,
                     MarksOK, MarksAt, OwnedFrom, CleanOK
<1>17. QED
  BY <1>5, <1>6, <1>7, <1>8, <1>9, <1>10, <1>11, <1>12, <1>13, <1>14, <1>15, <1>16
     DEF Next, Submit, IdleSubmit, Napi, Stopper

-----------------------------------------------------------------------------
(* What follows from the invariant.                                        *)

IInv == QueueInv /\ HwInv

\* The inductive invariant holds in every reachable state.
THEOREM Invariance == Spec => []IInv
<1>1. Init => IInv
  BY InitQueueInv, InitHwInv DEF IInv
<1>2. IInv /\ [Next]_vars => IInv'
  BY QueueStep, HwStep DEF IInv
<1>3. QED
  BY <1>1, <1>2, PTL DEF Spec

\* For any number of descriptors, the hardware is never at one that has been
\* taken off the list, as long as no HDP write strayed.
THEOREM HwStaysInQueue == Spec => []HwInQueue
<1>1. ASSUME IInv PROVE HwInQueue
  <2>1. SUFFICES ASSUME ~stray, hdp # NULL
                 PROVE \E k \in 1..Len(queue) :
                         /\ queue[k] = hdp
                         /\ \A i \in 1..Len(queue) : queue[i] \in owner <=> i >= k
    BY DEF HwInQueue
  <2>2. TypeOK /\ MarksOK
    BY <1>1, <2>1 DEF IInv, QueueInv, HwInv
  <2>3. PICK k \in 1..(Len(queue) + 1) : MarksAt(k)
    BY <2>2 DEF MarksOK
  <2>4. k \in 1..Len(queue) /\ queue[k] = hdp
    BY <2>1, <2>2, <2>3, QueueFacts DEF MarksAt
  <2>5. QED
    BY <2>3, <2>4 DEF MarksAt, OwnedFrom
<1>2. QED
  BY <1>1, Invariance, PTL

\* For any number of descriptors, an active channel never stops with work
\* left that nobody will restart.
THEOREM NeverForgotten == Spec => []NoLostDescriptor
<1>1. ASSUME IInv PROVE NoLostDescriptor
  <2>1. SUFFICES ASSUME ~stray, state = "active", hdp = NULL,
                        NEW i \in 1..Len(queue), queue[i] \in owner
                 PROVE \E j \in 1..(i - 1) : queue[j] \in eoq \ owner
    BY DEF NoLostDescriptor
  <2>2. TypeOK /\ MarksOK
    BY <1>1, <2>1 DEF IInv, QueueInv, HwInv
  <2>3. PICK k \in 1..(Len(queue) + 1) : MarksAt(k)
    BY <2>2 DEF MarksOK
  <2>4. Len(queue) \in Nat /\ queue # <<>>
    BY <2>1, <2>2, QueueFacts
  <2>5. k > 1 /\ queue[k - 1] \in eoq /\ i >= k
    BY <2>1, <2>3, <2>4 DEF MarksAt, OwnedFrom
  <2>6. k - 1 \in 1..(i - 1) /\ k - 1 \in 1..Len(queue) /\ ~(k - 1 >= k)
    BY <2>4, <2>5
  <2>7. queue[k - 1] \notin owner
    BY <2>3, <2>6 DEF MarksAt, OwnedFrom
  <2>8. QED
    BY <2>5, <2>6, <2>7
<1>2. QED
  BY <1>1, Invariance, PTL

\* For any number of descriptors, what a stop hands back as not transmitted
\* has not been transmitted and is not being transmitted.
THEOREM CleanedIsUnsent == Spec => []CleanedNotSent
<1>1. ASSUME IInv PROVE CleanedNotSent
  <2>1. SUFFICES ASSUME ~stray, stop = "cleanCallback"
                 PROVE held["stop"] \in owner /\ held["stop"] # hdp
    BY DEF CleanedNotSent
  <2>2. TypeOK /\ ThreadsOK /\ EngineOK /\ CleanOK
    BY <1>1, <2>1 DEF IInv, QueueInv, HwInv
  <2>3. hdp = NULL /\ held["stop"] # NULL
    BY <2>1, <2>2 DEF EngineOK, ThreadsOK
  <2>4. QED
    BY <2>1, <2>2, <2>3 DEF CleanOK
<1>2. QED
  BY <1>1, Invariance, PTL

\* For any number of descriptors, the driver never writes HDP while the
\* hardware is running.
THEOREM HdpWritesWait == Spec => HdpNotOverwritten
<1> DEFINE Safe == ~stray /\ hdp # NULL => hdp' \in {hdp, latch, NULL}
<1>1. ASSUME IInv, [Next]_vars PROVE [Safe]_vars
  <2>1. SUFFICES ASSUME ~stray, hdp # NULL PROVE hdp' \in {hdp, latch, NULL}
    OBVIOUS
  <2>2. TypeOK /\ ThreadsOK /\ ListIsQueue /\ SubmitterOK /\ EngineOK /\ MarksOK
    BY <1>1, <2>1 DEF IInv, QueueInv, HwInv
  <2>3. PICK k \in 1..(Len(queue) + 1) : MarksAt(k)
    BY <2>2 DEF MarksOK
  <2>4. /\ Len(queue) \in Nat /\ (queue = <<>> <=> Len(queue) = 0)
        /\ queue # <<>>
        /\ \A i \in 1..Len(queue) : queue[i] \notin eoq
    BY <2>1, <2>2, <2>3, QueueFacts DEF MarksAt
  <2>5. head # NULL /\ head \notin eoq
    <3>1. head = queue[1] /\ head # NULL /\ 1 \in 1..Len(queue)
      BY <2>2, <2>4 DEF ListIsQueue
    <3>2. QED
      BY <2>4, <3>1
  <2>6. state = "active" \/ stop = "wait"
    BY <2>1, <2>2 DEF EngineOK
  <2>7. ASSUME NEW d \in Descs, SubmitDesc(d) PROVE hdp' = hdp
    BY <2>5, <2>7 DEF SubmitDesc
  <2>8. CASE MisqueueCheck
    <3>1. prev \notin eoq
      BY <2>2, <2>4, <2>8 DEF MisqueueCheck, SubmitterOK
    <3>2. QED
      BY <2>8, <3>1 DEF MisqueueCheck, Misqueued
  <2>9. ASSUME NEW t \in Thread, Dequeue(t) PROVE hdp' = hdp
    BY <2>5, <2>9 DEF Dequeue, MustRequeue
  <2>10. CASE ChanStart \/ CtlrStart
    BY <2>2, <2>6, <2>10 DEF ChanStart, CtlrStart, ChanOn, Locked
  <2>11. CASE Hardware
    BY <2>11 DEF Hardware, HwFetch, HwComplete, HwTeardown
  <2>12. CASE \/ NapiBegin \/ NapiFree \/ NapiEnd \/ ChanStop \/ CtlrStop \/ StopWaited
              \/ StopTimeout \/ StopFree \/ StopDrained \/ CleanDequeue \/ CleanFree
              \/ StopEnd \/ CtlrStopEnd \/ UNCHANGED vars
    BY <2>12 DEF NapiBegin, NapiFree, NapiEnd, ChanStop, CtlrStop, StopChan, StopWaited,
                 StopTimeout, StopFree, StopDrained, CleanDequeue, CleanFree, Free,
                 StopEnd, CtlrStopEnd, vars, hwVars
  <2>13. QED
    BY <1>1, <2>7, <2>8, <2>9, <2>10, <2>11, <2>12
       DEF Next, Submit, IdleSubmit, Napi, NapiDequeue, Stopper, StopDequeue, Thread
<1>2. QED
  BY <1>1, Invariance, PTL DEF Spec, HdpNotOverwritten


-----------------------------------------------------------------------------
(* Refinement.                                                             *)

\* Taking the head off the list is taking back the oldest descriptor.
LEMMA FifoTakeBack ==
  ASSUME QueueInv, NEW t \in Thread, held[t] = NULL,
         ~Locked, head # NULL, TakeHead(t),
         UNCHANGED <<tail, pool, hw_next, prev, owner, state>>,
         head \notin owner \/ state = "teardown"
  PROVE  Fifo!TakeBack
<1>1. /\ queue # <<>> /\ head = queue[1] /\ queue' = Tail(queue)
      /\ Queued' = Queued \ {head} /\ Held' = Held \cup {head}
  BY TakeHeadStep
<1>2. Head(queue) = head
  BY <1>1 DEF QueueInv, TypeOK
<1>3. head \in Queued
  BY <1>1, QueueFacts DEF QueueInv, Queued
<1>4. QED
  BY <1>1, <1>2, <1>3 DEF Fifo!TakeBack

\* Giving a descriptor back is the return of one that was taken out.
LEMMA FifoReturn ==
  ASSUME QueueInv, NEW t \in Thread, held[t] # NULL, Free(t),
         prev # NULL => stop' # "wait"
  PROVE  \E d \in Descs : Fifo!Return(d)
<1>1. held[t] \in Held /\ Held' = Held \ {held[t]} /\ Queued' = Queued
  BY FreeStep
<1>2. held[t] \in Descs
  BY <1>1 DEF QueueInv, Accounting
<1>3. UNCHANGED <<queue, owner, state>>
  BY DEF Free, memVars, histVars
<1>4. Fifo!Return(held[t])
  BY <1>1, <1>3 DEF Fifo!Return
<1>5. QED
  BY <1>2, <1>4

\* The domain of the queue, as a set of indices.
LEMMA DomQueue == TypeOK => DOMAIN queue = 1..Len(queue)
BY LenProperties DEF TypeOK

\* The hardware finishes one of the queued descriptors, or touches none.
LEMMA FifoFinish ==
  ASSUME QueueInv, NEW d, owner' = owner \ {d}, UNCHANGED <<queue, held, state>>
  PROVE  \/ \E e \in Descs : Fifo!Finish(e)
         \/ UNCHANGED Fifo!vars
<1>1. Queued' = Queued /\ Held' = Held
  BY DEF Queued, Held
<1>2. CASE d \in Queued \cap owner
  <2>1. d \in Descs
    BY <1>2, QueueFacts DEF QueueInv
  <2>2. Fifo!Queued = Queued
    BY DomQueue DEF QueueInv, Fifo!Queued, Queued
  <2>3. (Queued \ owner)' = (Queued \ owner) \cup {d}
    BY <1>1, <1>2
  <2>4. UNCHANGED Held
    BY <1>1
  <2>5. Fifo!Finish(d)
    BY <1>2, <2>2, <2>3, <2>4 DEF Fifo!Finish
  <2>6. QED
    BY <2>1, <2>5
<1>3. CASE d \notin Queued \cap owner
  BY <1>1, <1>3 DEF Fifo!vars
<1>4. QED
  BY <1>2, <1>3

\* Every step of the channel is a step of the FIFO, or a stutter.
LEMMA FifoStep ==
  ASSUME QueueInv, [Next]_vars
  PROVE  [Fifo!Next]_(Fifo!vars)
<1> USE DEF Fifo!Next
<1>1. TypeOK /\ ThreadsOK /\ BusyOK /\ ListIsQueue /\ Accounting /\ SubmitterOK
  BY DEF QueueInv
<1>2. "napi" \in Thread /\ "stop" \in Thread
  BY DEF Thread
<1>3. ASSUME NEW d \in Descs, Submit(d) \/ IdleSubmit(d) PROVE Fifo!Accept(d)
  <2>1. /\ SubmitDesc(d) /\ state # "teardown" /\ prev = NULL /\ count < DescNum
        /\ d \in pool /\ queue' = Append(queue, d) /\ owner' = owner \cup {d}
        /\ UNCHANGED <<held, state>>
    BY <1>3 DEF Submit, IdleSubmit, SubmitDesc, Locked, HasRoom
  <2>2. Queued' = Queued \cup {d} /\ Held' = Held
    BY <1>1, <2>1, AppendQueue DEF TypeOK, Held
  <2>3. d \notin Queued /\ d \notin Held
    BY <1>1, <2>1 DEF Accounting
  <2>4. Len(queue) < DescNum
    <3>1. Len(queue) \in Nat /\ count \in Int
      BY <1>1, QueueFacts DEF TypeOK
    <3>2. Len(queue) = count
      BY <1>1, <2>1, <3>1 DEF Accounting
    <3>3. QED
      BY <2>1, <3>2
  <2>5. Fifo!Queued = Queued
    <3>1. DOMAIN queue = 1..Len(queue)
      BY <1>1, LenProperties DEF TypeOK
    <3>2. QED
      BY <3>1 DEF Fifo!Queued, Queued
  <2>6. QED
    BY <2>1, <2>2, <2>3, <2>4, <2>5 DEF Fifo!Accept
<1>4. CASE NapiDequeue \/ StopDequeue
  <2>1. PICK t \in Thread : Dequeue(t) /\ held[t] = NULL
    BY <1>1, <1>2, <1>4 DEF NapiDequeue, StopDequeue, ThreadsOK, TypeOK
  <2>2. /\ ~Locked /\ head # NULL /\ head \notin owner /\ TakeHead(t)
        /\ UNCHANGED <<tail, pool, hw_next, prev, owner, state>>
    BY <2>1 DEF Dequeue, HeadDone, memVars
  <2>3. QED
    BY <2>1, <2>2, FifoTakeBack
<1>5. CASE CleanDequeue
  <2>1. /\ ~Locked /\ head # NULL /\ TakeHead("stop") /\ held["stop"] = NULL
        /\ state = "teardown"
        /\ UNCHANGED <<tail, pool, hw_next, prev, owner, state>>
    BY <1>1, <1>5 DEF CleanDequeue, ThreadsOK, memVars
  <2>2. QED
    BY <1>2, <2>1, FifoTakeBack
<1>6. CASE NapiFree \/ StopFree \/ CleanFree
  <2>1. PICK t \in Thread : Free(t) /\ held[t] # NULL
    BY <1>1, <1>2, <1>6 DEF NapiFree, StopFree, CleanFree, ThreadsOK
  <2>2. prev # NULL => stop' # "wait"
    BY <1>1, <1>6 DEF NapiFree, StopFree, CleanFree, SubmitterOK
  <2>3. QED
    BY <2>1, <2>2, FifoReturn
<1>7. CASE Hardware
  <2>1. CASE HwFetch
    <3>1. UNCHANGED <<queue, held, state, owner>>
      BY <2>1 DEF HwFetch, memVars, histVars, chanVars
    <3>2. QED
      BY <3>1 DEF Fifo!vars, Queued, Held
  <2>2. CASE HwComplete
    <3>1. owner' = owner \ {hdp} /\ UNCHANGED <<queue, held, state>>
      BY <2>2 DEF HwComplete, histVars, chanVars
    <3>2. QED
      BY <3>1, FifoFinish
  <2>3. CASE HwTeardown
    <3>1. UNCHANGED <<queue, held, state>>
      BY <2>3 DEF HwTeardown, histVars, chanVars
    <3>2. CASE owner' = owner \ {hdp}
      BY <3>1, <3>2, FifoFinish
    <3>3. CASE owner' = owner
      BY <3>1, <3>3 DEF Fifo!vars, Queued, Held
    <3>4. QED
      BY <2>3, <3>2, <3>3 DEF HwTeardown
  <2>4. QED
    BY <1>7, <2>1, <2>2, <2>3 DEF Hardware
<1>8. CASE ChanStart \/ CtlrStart \/ ChanStop \/ CtlrStop \/ StopEnd
  <2>1. UNCHANGED <<queue, held, owner>>
    BY <1>8 DEF ChanStart, CtlrStart, ChanStop, CtlrStop, StopChan, StopEnd, memVars,
                histVars
  <2>2. Queued' = Queued /\ Held' = Held
    BY <2>1 DEF Queued, Held
  <2>3. CASE ChanStart \/ CtlrStart
    <3>1. state = "idle" /\ state' = "active"
      BY <2>3 DEF ChanStart, CtlrStart, ChanOn
    <3>2. Fifo!Open
      BY <2>1, <2>2, <3>1 DEF Fifo!Open
    <3>3. QED
      BY <3>2
  <2>4. CASE ChanStop \/ CtlrStop
    <3>1. state # "teardown" /\ state' = "teardown"
      BY <2>4 DEF ChanStop, CtlrStop, StopChan
    <3>2. Fifo!Close
      BY <2>1, <2>2, <3>1 DEF Fifo!Close
    <3>3. QED
      BY <3>2
  <2>5. CASE StopEnd
    <3>1. state = "teardown" /\ state' = "idle" /\ queue = <<>>
      BY <1>1, <2>5 DEF StopEnd, CleanedUp, ThreadsOK, ListIsQueue
    <3>2. Fifo!Closed
      BY <2>1, <2>2, <3>1 DEF Fifo!Closed
    <3>3. QED
      BY <3>2
  <2>6. QED
    BY <1>8, <2>3, <2>4, <2>5
<1>9. CASE \/ MisqueueCheck \/ NapiBegin \/ NapiEnd \/ StopWaited \/ StopTimeout
           \/ StopDrained \/ CtlrStopEnd \/ UNCHANGED vars
  <2>1. UNCHANGED <<queue, held, state, owner>>
    BY <1>9 DEF MisqueueCheck, NapiBegin, NapiEnd, StopWaited, StopTimeout, StopDrained,
                CtlrStopEnd, vars, chanVars, memVars, hwVars, histVars
  <2>2. QED
    BY <2>1 DEF Fifo!vars, Queued, Held
<1>10. QED
  BY <1>3, <1>4, <1>5, <1>6, <1>7, <1>8, <1>9 DEF Next, Napi, Stopper

\* The channel implements the bounded FIFO, for any number of descriptors and
\* any limit, with stops, restarts and teardowns that time out.
THEOREM ChannelIsFifo == Spec => ImplementsFifo
<1>1. Init => Fifo!Init
  BY EmptySeq DEF Init, Fifo!Init, Queued, Held
<1>2. QueueInv /\ [Next]_vars => [Fifo!Next]_(Fifo!vars)
  BY FifoStep
<1>3. QED
  BY <1>1, <1>2, QueueInvariant, PTL DEF Spec, ImplementsFifo, Fifo!Spec
=============================================================================
