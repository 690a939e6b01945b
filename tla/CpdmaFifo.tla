----------------------------- MODULE CpdmaFifo -----------------------------
(***************************************************************************)
(* What a CPDMA channel promises to the driver that uses it, with no       *)
(* linked list, no hardware registers and no locks: a bounded FIFO of      *)
(* descriptors.                                                            *)
(*                                                                         *)
(*   - Accept:   a submitted descriptor enters at the tail, unless the     *)
(*               limit is reached or the channel is being closed;          *)
(*   - Finish:   the hardware is done with a descriptor that is queued;    *)
(*   - TakeBack: the OLDEST descriptor leaves the queue; while the channel *)
(*               is open only if the hardware is done with it;             *)
(*   - Return:   it goes back to the pool, once, and the completion        *)
(*               callback runs.                                            *)
(*                                                                         *)
(* CpdmaChan implements this module (see CpdmaChan!Fifo).                  *)
(***************************************************************************)
EXTENDS Naturals, Sequences

CONSTANTS Descs,     \* the descriptors of the pool
          DescNum    \* the channel's share of the pool (chan->desc_num)

VARIABLES fifo,      \* the queued descriptors, oldest first
          done,      \* the queued descriptors the hardware is done with
          out,       \* taken from the queue, not yet given back to the pool
          phase      \* "idle", "active" or "teardown"

vars == <<fifo, done, out, phase>>

Queued == {fifo[i] : i \in DOMAIN fifo}

Init == /\ fifo = <<>>
        /\ done = {}
        /\ out = {}
        /\ phase = "idle"

Accept(d) ==
  /\ phase # "teardown"
  /\ d \in Descs \ (Queued \cup out)
  /\ Len(fifo) < DescNum
  /\ fifo' = Append(fifo, d)
  /\ UNCHANGED <<done, out, phase>>

Finish(d) ==
  /\ d \in Queued \ done
  /\ done' = done \cup {d}
  /\ UNCHANGED <<fifo, out, phase>>

TakeBack ==
  /\ fifo # <<>>
  /\ Head(fifo) \in done \/ phase = "teardown"
  /\ fifo' = Tail(fifo)
  /\ done' = done \ {Head(fifo)}
  /\ out' = out \cup {Head(fifo)}
  /\ UNCHANGED phase

Return(d) ==
  /\ d \in out
  /\ out' = out \ {d}
  /\ UNCHANGED <<fifo, done, phase>>

\* The phases follow each other in a fixed order, and a channel is idle
\* again only once its queue has been emptied.
Open  == phase = "idle" /\ phase' = "active" /\ UNCHANGED <<fifo, done, out>>
Close == phase # "teardown" /\ phase' = "teardown" /\ UNCHANGED <<fifo, done, out>>
Closed == /\ phase = "teardown"
          /\ fifo = <<>>
          /\ phase' = "idle"
          /\ UNCHANGED <<fifo, done, out>>

Next == \/ \E d \in Descs : Accept(d) \/ Finish(d) \/ Return(d)
        \/ TakeBack
        \/ Open \/ Close \/ Closed

Spec == Init /\ [][Next]_vars
=============================================================================
