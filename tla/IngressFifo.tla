----------------------------- MODULE IngressFifo -----------------------------
(***************************************************************************)
(* What the ingress rings promise: a bounded first-in first-out queue that *)
(* any thread may add to, from which the render thread takes the oldest    *)
(* item, and which it may clear in one indivisible step: what was accepted *)
(* before is never delivered, what is accepted later is not affected.      *)
(***************************************************************************)
EXTENDS Naturals, Sequences

CONSTANTS Items, Bound

VARIABLES
    queue,      \* accepted items that are still to be delivered, oldest first
    delivered   \* what the render thread has received, in order

fifoVars == <<queue, delivered>>

FifoInit == queue = <<>> /\ delivered = <<>>

Accept == /\ Len(queue) < Bound
          /\ \E i \in Items : queue' = Append(queue, i)
          /\ UNCHANGED delivered

Deliver == /\ queue # <<>>
           /\ delivered' = Append(delivered, Head(queue))
           /\ queue' = Tail(queue)

Clear == queue' = <<>> /\ UNCHANGED delivered

FifoSpec == FifoInit /\ [][Accept \/ Deliver \/ Clear]_fifoVars
=============================================================================
