----------------------------- MODULE CpdmaChan -----------------------------
(***************************************************************************)
(* One channel of the CPDMA engine of the CPSW switch, and the hardware it *)
(* feeds: cpsw/my_davinci_cpdma.c (eth/cpdma.c is the same file).          *)
(*                                                                         *)
(* Descriptors live in a pool.  The queue of a channel is a singly linked  *)
(* list in descriptor memory: chan->head, chan->tail and the hw_next word  *)
(* of each descriptor.  The hardware walks the same list from the HDP      *)
(* register while the driver appends to its tail, so the two race on the   *)
(* last descriptor: the hardware reads hw_next when it starts a descriptor *)
(* (HwFetch) and acts on what it read when it finishes (HwComplete).  If   *)
(* it read 0 it marks the descriptor EOQ and stops; a driver that chained  *)
(* a descriptor in between has to notice and write HDP again, either in    *)
(* the submission ("misqueued") or when it processes the descriptor        *)
(* ("requeue").                                                            *)
(*                                                                         *)
(* Threads: any number of submitters (one at a time, under chan->lock),    *)
(* one NAPI poller (cpdma_chan_process), and one thread that starts and    *)
(* stops the channel or the controller.  The completion callback runs      *)
(* with the lock dropped, so the poller and the stopping thread may each   *)
(* hold one descriptor that has left the list and is not yet in the pool.  *)
(*                                                                         *)
(* Abstracted: buffer contents, lengths and DMA mappings, port bits,       *)
(* statistics, the rxfree flow-control register, the rate shaper.          *)
(***************************************************************************)
EXTENDS Integers, Sequences

CONSTANTS
  Descs,            \* descriptors of the pool
  DescNum,          \* chan->desc_num, the channel's share of the pool
  NULL,             \* the null descriptor pointer
  TeardownTimesOut  \* may the 100 ms wait for the teardown run out?

ASSUME DescsAssumption == NULL \notin Descs
ASSUME DescNumAssumption == DescNum \in Nat \ {0}
ASSUME TimeoutAssumption == TeardownTimesOut \in BOOLEAN

Ptr == Descs \cup {NULL}
Thread == {"napi", "stop"}

VARIABLES
  \* struct cpdma_chan and struct cpdma_ctlr
  head, tail, count, state, ctlr,
  pool,        \* free descriptors of the pool
  \* descriptor memory
  hw_next,     \* [Descs -> Ptr]
  owner,       \* descriptors whose OWNER bit is set
  eoq,         \* descriptors whose EOQ bit is set
  td_complete, \* descriptors whose TD_COMPLETE bit is set
  \* the hardware
  hdp,         \* head descriptor pointer, NULL when the channel is stopped
  fetched,     \* has the hardware read the descriptor at hdp?
  latch,       \* the hw_next it read, NULL while ~fetched
  td,          \* teardown handshake: "none", "requested", "done" (seen in CP)
  \* the threads
  prev,        \* tail before the chaining a submitter is in the middle of
  napi,        \* poller: "out", "loop", "callback"
  stop,        \* stopper: "out", "wait", "drain", "callback", "clean",
               \*          "cleanCallback", "ctlr"
  held,        \* [Thread -> Ptr]: descriptor taken off the list, to be freed
  \* history variables, read by no action
  queue,       \* the descriptors on the list, in the order of submission
  stray        \* has HDP been written on a channel that was not ACTIVE, or
               \* a teardown timed out?

chanVars == <<head, tail, count, state, ctlr, pool>>
memVars  == <<hw_next, owner, eoq, td_complete>>
hwVars   == <<hdp, fetched, latch, td>>
histVars == <<queue, stray>>
vars == <<chanVars, memVars, hwVars, prev, napi, stop, held, histVars>>

\* chan->lock is held across two steps in the middle of a submission and for
\* the whole wait of cpdma_chan_stop; every other critical section is one step.
Locked_ByStopOnly == stop = "wait"
Locked == prev # NULL \/ stop = "wait"

Queued == {queue[i] : i \in 1..Len(queue)}
Held == {held[t] : t \in Thread} \ {NULL}

Init ==
  /\ head = NULL /\ tail = NULL /\ count = 0
  /\ state = "idle" /\ ctlr = "idle"
  /\ pool = Descs
  /\ hw_next = [d \in Descs |-> NULL]
  /\ owner = {} /\ eoq = {} /\ td_complete = {}
  /\ hdp = NULL /\ fetched = FALSE /\ latch = NULL /\ td = "none"
  /\ prev = NULL /\ napi = "out" /\ stop = "out"
  /\ held = [t \in Thread |-> NULL]
  /\ queue = <<>> /\ stray = FALSE

-----------------------------------------------------------------------------
(* Submission.                                                             *)

\* the channel's share of the pool is not used up
HasRoom == count < DescNum

\* The writes to hw_next: the new descriptor ends the list, and the old tail,
\* if the list has one, points to it.
Link_KeepNext(d) ==
  hw_next' = IF head = NULL THEN hw_next ELSE [hw_next EXCEPT ![tail] = d]
Link(d) ==
  hw_next' = IF head = NULL
               THEN [hw_next EXCEPT ![d] = NULL]
               ELSE [hw_next EXCEPT ![d] = NULL, ![tail] = d]

\* cpdma_chan_submit_si and the first half of __cpdma_chan_submit: take a
\* descriptor, give it to the hardware and put it on the list.  On an empty
\* list the submission is over; otherwise the last descriptor now points to
\* it and the EOQ check on that descriptor is still to come.
SubmitDesc(d) ==
  /\ ~Locked
  /\ HasRoom
  /\ d \in pool
  /\ pool' = pool \ {d}
  /\ owner' = owner \cup {d}
  /\ eoq' = eoq \ {d}
  /\ td_complete' = td_complete \ {d}
  /\ tail' = d
  /\ queue' = Append(queue, d)
  /\ Link(d)
  /\ \/ /\ head = NULL
        /\ head' = d
        /\ hdp' = IF state = "active" THEN d ELSE hdp
        /\ count' = count + 1
        /\ UNCHANGED prev
     \/ /\ head # NULL
        /\ prev' = tail
        /\ UNCHANGED <<head, hdp, count>>
  /\ UNCHANGED <<state, ctlr, fetched, latch, td, napi, stop, held, stray>>

\* cpdma_chan_submit and cpdma_chan_submit_mapped
Submit(d) == state = "active" /\ SubmitDesc(d)

\* cpdma_chan_idle_submit and cpdma_chan_idle_submit_mapped
IdleSubmit(d) == state # "teardown" /\ SubmitDesc(d)

\* Has the hardware stopped at the old tail, so that it will not see the
\* descriptor chained to it?
Misqueued_Unchecked == state = "active"
Misqueued == prev \in eoq \ owner /\ state = "active"

\* The second half of __cpdma_chan_submit: if so, clear EOQ at the old tail and
\* start the hardware on the new descriptor.
MisqueueCheck ==
  /\ prev # NULL
  /\ IF Misqueued
       THEN eoq' = eoq \ {prev} /\ hdp' = tail
       ELSE UNCHANGED <<eoq, hdp>>
  /\ count' = count + 1
  /\ prev' = NULL
  /\ UNCHANGED <<head, tail, state, ctlr, pool, hw_next, owner, td_complete,
                 fetched, latch, td, napi, stop, held, histVars>>

-----------------------------------------------------------------------------
(* Completion.                                                             *)

\* the hardware is done with the head of the list
HeadDone_OwnerIgnored == head # NULL
HeadDone == head # NULL /\ head \notin owner

\* the hardware stopped at the head of the list, with more behind it
MustRequeue_Never == FALSE
MustRequeue == head \in eoq /\ hw_next[head] # NULL

\* Thread t takes the head off the list.
TakeHead_CountedTwice(t) ==
  /\ held' = [held EXCEPT ![t] = head]
  /\ head' = hw_next[head]
  /\ count' = count - 2
  /\ queue' = Tail(queue)
TakeHead(t) ==
  /\ held' = [held EXCEPT ![t] = head]
  /\ head' = hw_next[head]
  /\ count' = count - 1
  /\ queue' = Tail(queue)

\* The locked part of __cpdma_chan_process, by thread t: the head of the list
\* is completed; it leaves the list, and if the hardware stopped there with
\* more descriptors behind it, HDP is written again, whatever chan->state is.
Dequeue(t) ==
  /\ ~Locked
  /\ HeadDone
  /\ TakeHead(t)
  /\ IF MustRequeue
       THEN hdp' = hw_next[head] /\ stray' = (stray \/ state # "active")
       ELSE UNCHANGED <<hdp, stray>>
  /\ UNCHANGED <<tail, state, ctlr, pool, memVars, fetched, latch, td, prev>>

\* __cpdma_chan_process finds the list empty (-ENOENT) or its head still
\* owned by the hardware (-EBUSY).
NothingToDequeue_BusyIgnored == ~Locked /\ head = NULL
NothingToDequeue == ~Locked /\ (head = NULL \/ head \in owner)

\* __cpdma_chan_free: the descriptor returns to the pool, then the callback
\* runs, with no lock held.
Free(t) ==
  /\ pool' = pool \cup {held[t]}
  /\ held' = [held EXCEPT ![t] = NULL]
  /\ UNCHANGED <<head, tail, count, state, ctlr, memVars, hwVars, prev, histVars>>

\* cpdma_chan_process: the state is tested once, without the lock, and then
\* descriptors are processed until there is none or the quota is used up.
NapiBegin ==
  /\ napi = "out"
  /\ state = "active"
  /\ napi' = "loop"
  /\ UNCHANGED <<chanVars, memVars, hwVars, prev, stop, held, histVars>>

NapiDequeue ==
  /\ napi = "loop"
  /\ Dequeue("napi")
  /\ napi' = "callback"
  /\ UNCHANGED stop

NapiFree ==
  /\ napi = "callback"
  /\ Free("napi")
  /\ napi' \in {"loop", "out"}
  /\ UNCHANGED stop

NapiEnd ==
  /\ napi = "loop"
  /\ NothingToDequeue
  /\ napi' = "out"
  /\ UNCHANGED <<chanVars, memVars, hwVars, prev, stop, held, histVars>>

-----------------------------------------------------------------------------
(* Starting and stopping.                                                  *)

\* cpdma_chan_on: the queue filled while the channel was idle is handed to
\* the hardware.
ChanOn ==
  /\ ~Locked
  /\ state = "idle"
  /\ state' = "active"

\* cpdma_chan_start, as after a transmit timeout
ChanStart ==
  /\ stop = "out"
  /\ ctlr = "active"
  /\ ChanOn
  /\ hdp' = IF head # NULL THEN head ELSE hdp
  /\ UNCHANGED <<head, tail, count, ctlr, pool, memVars, fetched, latch, td,
                 prev, napi, stop, held, histVars>>

\* cpdma_ctlr_start: soft reset, HDP and CP cleared, channel turned on.
CtlrStart ==
  /\ stop = "out"
  /\ ctlr = "idle"
  /\ ctlr' = "active"
  /\ ChanOn
  /\ hdp' = head
  /\ fetched' = FALSE
  /\ latch' = NULL
  /\ td' = "none"
  /\ UNCHANGED <<head, tail, count, pool, memVars, prev, napi, stop, held, histVars>>

\* cpdma_chan_stop up to its wait loop; the lock stays held.
StopChan ==
  /\ ~Locked
  /\ state # "teardown"
  /\ state' = "teardown"
  /\ td' = "requested"
  /\ stop' = "wait"
  /\ UNCHANGED <<head, tail, count, pool, memVars, hdp, fetched, latch, prev,
                 napi, held, histVars>>

\* called for one channel, as after a transmit timeout
ChanStop ==
  /\ stop = "out"
  /\ ctlr = "active"
  /\ StopChan
  /\ UNCHANGED ctlr

\* cpdma_ctlr_stop: the same, for the whole controller
CtlrStop ==
  /\ stop = "out"
  /\ ctlr = "active"
  /\ ctlr' = "teardown"
  /\ StopChan

\* the teardown value shows up in CP
TeardownSeen_NotAwaited == td # "none"
TeardownSeen == td = "done"

\* The driver acknowledges it and drops the lock.
StopWaited ==
  /\ stop = "wait"
  /\ TeardownSeen
  /\ td' = "none"
  /\ stop' = "drain"
  /\ UNCHANGED <<chanVars, memVars, hdp, fetched, latch, prev, napi, held, histVars>>

\* The wait runs out (WARN_ON): the driver goes on as if it had been answered.
StopTimeout ==
  /\ TeardownTimesOut
  /\ stop = "wait"
  /\ td = "requested"
  /\ stop' = "drain"
  /\ stray' = TRUE
  /\ UNCHANGED <<chanVars, memVars, hwVars, prev, napi, held, queue>>

\* "handle completed packets"
StopDequeue ==
  /\ stop = "drain"
  /\ Dequeue("stop")
  /\ stop' = "callback"
  /\ UNCHANGED napi

StopFree ==
  /\ stop = "callback"
  /\ Free("stop")
  /\ stop' = IF held["stop"] \in td_complete THEN "clean" ELSE "drain"
  /\ UNCHANGED napi

StopDrained ==
  /\ stop = "drain"
  /\ NothingToDequeue
  /\ stop' = "clean"
  /\ UNCHANGED <<chanVars, memVars, hwVars, prev, napi, held, histVars>>

\* "remaining packets haven't been tx/rx'ed, clean them up"
CleanDequeue ==
  /\ stop = "clean"
  /\ ~Locked
  /\ head # NULL
  /\ TakeHead("stop")
  /\ stop' = "cleanCallback"
  /\ UNCHANGED <<tail, state, ctlr, pool, memVars, hwVars, prev, napi, stray>>

CleanFree ==
  /\ stop = "cleanCallback"
  /\ Free("stop")
  /\ stop' = "clean"
  /\ UNCHANGED napi

CleanedUp_Unchecked == ~Locked
CleanedUp == ~Locked /\ head = NULL

StopEnd ==
  /\ stop = "clean"
  /\ CleanedUp
  /\ state' = "idle"
  /\ stop' = IF ctlr = "teardown" THEN "ctlr" ELSE "out"
  /\ UNCHANGED <<head, tail, count, ctlr, pool, memVars, hwVars, prev, napi,
                 held, histVars>>

\* the end of cpdma_ctlr_stop: the engine is switched off
CtlrStopEnd ==
  /\ stop = "ctlr"
  /\ ctlr' = "idle"
  /\ stop' = "out"
  /\ UNCHANGED <<head, tail, count, state, pool, memVars, hwVars, prev, napi,
                 held, histVars>>

-----------------------------------------------------------------------------
(* The hardware, as the driver relies on it.                               *)

\* It reads the descriptor, hw_next included, and starts the transfer.
HwFetch ==
  /\ ctlr # "idle"
  /\ hdp # NULL
  /\ ~fetched
  /\ fetched' = TRUE
  /\ latch' = hw_next[hdp]
  /\ UNCHANGED <<chanVars, memVars, hdp, td, prev, napi, stop, held, histVars>>

\* It writes the descriptor back, and moves on to what it read, or stops.
HwComplete ==
  /\ ctlr # "idle"
  /\ fetched
  /\ owner' = owner \ {hdp}
  /\ eoq' = IF latch = NULL THEN eoq \cup {hdp} ELSE eoq
  /\ hdp' = latch
  /\ fetched' = FALSE
  /\ latch' = NULL
  /\ UNCHANGED <<chanVars, hw_next, td_complete, td, prev, napi, stop, held, histVars>>

\* It stops between two descriptors.  The one it would have taken next may be
\* handed back with TD_COMPLETE set.
HwTeardown ==
  /\ ctlr # "idle"
  /\ td = "requested"
  /\ ~fetched
  /\ td' = "done"
  /\ hdp' = NULL
  /\ \/ UNCHANGED <<owner, td_complete>>
     \/ /\ hdp # NULL
        /\ owner' = owner \ {hdp}
        /\ td_complete' = td_complete \cup {hdp}
  /\ UNCHANGED <<chanVars, hw_next, eoq, fetched, latch, prev, napi, stop, held, histVars>>

-----------------------------------------------------------------------------
Napi == NapiBegin \/ NapiDequeue \/ NapiFree \/ NapiEnd
Stopper == \/ StopWaited \/ StopTimeout \/ StopDequeue \/ StopFree \/ StopDrained
           \/ CleanDequeue \/ CleanFree \/ StopEnd \/ CtlrStopEnd
Hardware == HwFetch \/ HwComplete \/ HwTeardown

Next ==
  \/ \E d \in Descs : Submit(d) \/ IdleSubmit(d)
  \/ MisqueueCheck
  \/ Napi
  \/ ChanStart \/ CtlrStart \/ ChanStop \/ CtlrStop
  \/ Stopper
  \/ Hardware

Spec == Init /\ [][Next]_vars

\* Submitters and the callers of start and stop do as they like.  The hardware
\* transmits and answers a teardown, a submitter leaves its critical section,
\* the poller is scheduled again while the channel is active (the interrupt is
\* level triggered), and a stop that has begun runs to its end.
Fairness ==
  /\ WF_vars(MisqueueCheck)
  /\ WF_vars(HwFetch) /\ WF_vars(HwComplete) /\ WF_vars(HwTeardown)
  /\ WF_vars(Napi)
  /\ WF_vars(Stopper)

FairSpec == Spec /\ Fairness

-----------------------------------------------------------------------------
(* Safety.                                                                 *)

\* The type invariant of the channel.
TypeOK ==
  /\ head \in Ptr /\ tail \in Ptr /\ prev \in Ptr
  /\ hdp \in Ptr /\ latch \in Ptr
  /\ count \in 0..DescNum
  /\ state \in {"idle", "active", "teardown"}
  /\ ctlr \in {"idle", "active", "teardown"}
  /\ pool \in SUBSET Descs
  /\ hw_next \in [Descs -> Ptr]
  /\ owner \in SUBSET Descs
  /\ eoq \in SUBSET Descs
  /\ td_complete \in SUBSET Descs
  /\ fetched \in BOOLEAN
  /\ td \in {"none", "requested", "done"}
  /\ napi \in {"out", "loop", "callback"}
  /\ stop \in {"out", "wait", "drain", "callback", "clean", "cleanCallback", "ctlr"}
  /\ held \in [Thread -> Ptr]
  /\ queue \in Seq(Descs)
  /\ stray \in BOOLEAN

\* The linked list in descriptor memory holds exactly the descriptors that
\* were submitted and not yet taken off, in the order of submission, whatever
\* submitters, poller, stopping thread and hardware do to it.
ListIsQueue ==
  /\ (head = NULL) <=> (queue = <<>>)
  /\ queue # <<>> => head = queue[1] /\ tail = queue[Len(queue)]
  /\ \A i \in 1..Len(queue) :
       hw_next[queue[i]] = IF i = Len(queue) THEN NULL ELSE queue[i + 1]

\* Every descriptor is in exactly one place, the pool, the list or the hands
\* of one thread: none is leaked by an error path or a stop, and none is freed
\* twice.  chan->count is the length of the list (a submitter between its two
\* steps has still to count its descriptor).
Accounting ==
  /\ pool \cup Queued \cup Held = Descs
  /\ pool \cap (Queued \cup Held) = {}
  /\ Queued \cap Held = {}
  /\ \A i, j \in 1..Len(queue) : queue[i] = queue[j] => i = j
  /\ held["napi"] = held["stop"] => held["napi"] = NULL
  /\ Len(queue) = count + (IF prev = NULL THEN 0 ELSE 1)

\* The hardware is never at a descriptor that has been taken off the list: all
\* before it are finished, and it and all behind it are still to come.
HwInQueue ==
  ~stray /\ hdp # NULL =>
    \E k \in 1..Len(queue) :
      /\ queue[k] = hdp
      /\ \A i \in 1..Len(queue) : queue[i] \in owner <=> i >= k

\* No descriptor is forgotten: if the channel is active, the hardware has
\* stopped, and a descriptor still waits for it, then a finished descriptor
\* with EOQ is queued in front of it, so that the poller, or the submitter
\* that is between its two steps, will start the hardware again.
NoLostDescriptor ==
  ~stray /\ state = "active" /\ hdp = NULL =>
    \A i \in 1..Len(queue) : queue[i] \in owner =>
      \E j \in 1..(i - 1) : queue[j] \in eoq \ owner

\* A packet that cpdma_chan_stop hands back with -ENOSYS as not transmitted is
\* one that the hardware neither has finished nor is working on.
CleanedNotSent ==
  ~stray /\ stop = "cleanCallback" =>
    held["stop"] \in owner /\ held["stop"] # hdp

\* The driver writes HDP only while the hardware is stopped: a running
\* channel moves only to what it has read, or is stopped by a teardown or
\* by the reset of the controller.
HdpNotOverwritten ==
  [][~stray /\ hdp # NULL => hdp' \in {hdp, latch, NULL}]_vars

\* The linked-list channel implements the bounded FIFO of module CpdmaFifo.
Fifo == INSTANCE CpdmaFifo WITH fifo <- queue,
                                done <- Queued \ owner,
                                out <- Held,
                                phase <- state
ImplementsFifo == Fifo!Spec

-----------------------------------------------------------------------------
(* Liveness.                                                               *)

\* On a channel that has been turned on, every queued descriptor is taken
\* back, whether the channel is stopped meanwhile or not.
Reclaimed ==
  \A d \in Descs :
    (d \in Queued /\ state = "active") ~> (d \notin Queued \/ stray)

\* A stop that has begun always ends, and ends with the list emptied.
StopTerminates == (state = "teardown") ~> (state = "idle")
=============================================================================
