--------------------------- MODULE BoundedMpscRing ---------------------------
(***************************************************************************)
(* The bounded lock-free ring of arpsid_bounded_mpsc_ring.h that carries   *)
(* MIDI and parameter intents from any thread to the render thread.  Every *)
(* access to an atomic is a step of its own, and so is every access to the *)
(* plain data of a cell, whose publication the acquire/release pair on the *)
(* cell's sequence orders.  A weak compare-exchange that fails spuriously  *)
(* only repeats the check before it and is not modelled.  Positions are    *)
(* 64-bit in the code and never wrap; Capacity cells hold them in turn.    *)
(***************************************************************************)
EXTENDS Integers, Sequences

CONSTANTS
    Capacity,    \* number of cells
    Producers,   \* threads that push
    MaxPushes,   \* bound on the number of push() calls
    MaxClears    \* bound on the number of clearEnqueuedBeforeNow() calls

\* The header accepts one cell too, in which a committed cell would look free to
\* the next lap; every ring of the program has at least 256.
ASSUME CapacityAssumption == Capacity \in Nat /\ Capacity >= 2
ASSUME BoundsAssumption == MaxPushes \in Nat /\ MaxClears \in Nat

Cells == 0 .. Capacity - 1
CellOf(pos) == pos % Capacity
Items == 1 .. MaxPushes     \* the n-th call pushes item n
NoItem == 0

VARIABLES
    sequence,      \* cells_[c].sequence
    data,          \* cells_[c].data
    enqueuePos, dequeuePos,
    resetBarrier,  \* resetBarrier_, owned by the consumer
    producer,      \* per thread: where it is in push(), its item and position
    consumer,      \* where the render thread is; the call it is in; its locals
    calls, clears, \* calls made so far
    delivered      \* history: items pop() returned, in order

ring == <<sequence, data, enqueuePos, dequeuePos, resetBarrier>>
vars == <<sequence, data, enqueuePos, dequeuePos, resetBarrier, producer, consumer,
          calls, clears, delivered>>

Idle == [at |-> "idle", item |-> NoItem, pos |-> 0]

Init ==
    /\ sequence = [c \in Cells |-> c] /\ data = [c \in Cells |-> NoItem]
    /\ enqueuePos = 0 /\ dequeuePos = 0 /\ resetBarrier = 0
    /\ producer = [p \in Producers |-> Idle]
    /\ consumer = [at |-> "idle", call |-> "pop", out |-> NoItem, barrier |-> 0]
    /\ calls = 0 /\ clears = 0 /\ delivered = <<>>

-----------------------------------------------------------------------------
(* push: the steps of a producer thread p.                                  *)

StartPush(p) ==
    /\ producer[p].at = "idle" /\ calls < MaxPushes
    /\ calls' = calls + 1
    /\ producer' = [producer EXCEPT ![p] = [at |-> "load", item |-> calls + 1, pos |-> 0]]
    /\ UNCHANGED <<ring, consumer, clears, delivered>>

LoadPos(p) ==
    /\ producer[p].at = "load"
    /\ producer' = [producer EXCEPT ![p] = [@ EXCEPT !.at = "check", !.pos = enqueuePos]]
    /\ UNCHANGED <<ring, consumer, calls, clears, delivered>>

\* How far the cell's sequence is from the position p wants to claim: at it, the
\* cell is free; behind it, the ring is full; past it, another thread was faster.
Distance(p) == sequence[CellOf(producer[p].pos)] - producer[p].pos

FindFree(p) ==
    /\ producer[p].at = "check" /\ Distance(p) >= 0
    /\ producer' = [producer EXCEPT ![p].at = IF Distance(p) = 0 THEN "claim" ELSE "load"]
    /\ UNCHANGED <<ring, consumer, calls, clears, delivered>>

FindFull(p) ==
    /\ producer[p].at = "check" /\ Distance(p) < 0
    /\ producer' = [producer EXCEPT ![p] = Idle]
    /\ UNCHANGED <<ring, consumer, calls, clears, delivered>>

\* Mutant: the position is advanced without comparing it.
ClaimCell_Blindly(p) ==
    /\ producer[p].at = "claim"
    /\ enqueuePos' = producer[p].pos + 1
    /\ producer' = [producer EXCEPT ![p].at = "write"]
    /\ UNCHANGED <<sequence, data, dequeuePos, resetBarrier, consumer, calls, clears, delivered>>

\* The compare-exchange; when it fails it hands back the current position.
ClaimCell(p) ==
    /\ producer[p].at = "claim"
    /\ \/ /\ enqueuePos = producer[p].pos
          /\ enqueuePos' = enqueuePos + 1
          /\ producer' = [producer EXCEPT ![p].at = "write"]
       \/ /\ enqueuePos # producer[p].pos
          /\ producer' = [producer EXCEPT ![p] = [@ EXCEPT !.at = "check", !.pos = enqueuePos]]
          /\ UNCHANGED enqueuePos
    /\ UNCHANGED <<sequence, data, dequeuePos, resetBarrier, consumer, calls, clears, delivered>>

WriteData(p) ==
    /\ producer[p].at = "write"
    /\ data' = [data EXCEPT ![CellOf(producer[p].pos)] = producer[p].item]
    /\ producer' = [producer EXCEPT ![p].at = "commit"]
    /\ UNCHANGED <<sequence, enqueuePos, dequeuePos, resetBarrier, consumer, calls, clears,
                   delivered>>

CommitAs(p, committed) ==
    /\ producer[p].at = "commit"
    /\ sequence' = [sequence EXCEPT ![CellOf(producer[p].pos)] = committed]
    /\ producer' = [producer EXCEPT ![p] = Idle]
    /\ UNCHANGED <<data, enqueuePos, dequeuePos, resetBarrier, consumer, calls, clears, delivered>>

\* Mutant: off by one, the filled cell still looks free.
Commit_AsFree(p) == CommitAs(p, producer[p].pos)

Commit(p) == CommitAs(p, producer[p].pos + 1)

-----------------------------------------------------------------------------
(* pop and clearEnqueuedBeforeNow: the render thread.                       *)

StartPop ==
    /\ consumer.at = "idle"
    /\ consumer' = [consumer EXCEPT !.at = "check", !.call = "pop"]
    /\ UNCHANGED <<ring, producer, calls, clears, delivered>>

StartClear ==
    /\ consumer.at = "idle" /\ clears < MaxClears
    /\ clears' = clears + 1
    /\ consumer' = [consumer EXCEPT !.at = "check", !.call = "clear", !.barrier = enqueuePos]
    /\ UNCHANGED <<ring, producer, calls, delivered>>

Committed == sequence[CellOf(dequeuePos)] = dequeuePos + 1

\* clear() has reached the barrier it read and scans no further.
AtBarrier == consumer.call = "clear" /\ dequeuePos >= consumer.barrier

\* popInternal_: claims the next committed cell.
ClaimNext ==
    /\ consumer.at = "check" /\ ~AtBarrier /\ Committed
    /\ dequeuePos' = dequeuePos + 1
    /\ consumer' = [consumer EXCEPT !.at = "copy"]
    /\ UNCHANGED <<sequence, data, enqueuePos, resetBarrier, producer, calls, clears, delivered>>

\* The end of the call with nothing, or nothing more, to take out; a clear
\* leaves its barrier behind.
FinishWith(barrier) ==
    /\ consumer.at = "check" /\ (AtBarrier \/ ~Committed)
    /\ resetBarrier' = IF consumer.call = "clear" THEN barrier ELSE resetBarrier
    /\ consumer' = [consumer EXCEPT !.at = "idle"]
    /\ UNCHANGED <<sequence, data, enqueuePos, dequeuePos, producer, calls, clears, delivered>>

\* Mutant: the barrier is where the scan stopped, not where it was to stop.
Finish_AtScan == FinishWith(dequeuePos)

Finish == FinishWith(consumer.barrier)

CopyOut ==
    /\ consumer.at = "copy"
    /\ consumer' = [consumer EXCEPT !.at = "recycle", !.out = data[CellOf(dequeuePos - 1)]]
    /\ UNCHANGED <<ring, producer, calls, clears, delivered>>

\* The claimed cell is given back to the producers, as the cell of position
\* reuse.  pop() returns the item unless it was claimed before the barrier;
\* then, and in a clear, the scan goes on.
RecycleFor(reuse) ==
    /\ consumer.at = "recycle"
    /\ sequence' = [sequence EXCEPT ![CellOf(dequeuePos - 1)] = reuse]
    /\ LET returned == consumer.call = "pop" /\ dequeuePos - 1 >= resetBarrier
       IN  /\ delivered' = IF returned THEN Append(delivered, consumer.out) ELSE delivered
           /\ consumer' = [consumer EXCEPT !.at = IF returned THEN "idle" ELSE "check"]
    /\ UNCHANGED <<data, enqueuePos, dequeuePos, resetBarrier, producer, calls, clears>>

\* Mutant: the cell is recycled for the next position, not for the next lap.
Recycle_NextPosition == RecycleFor(dequeuePos)

Recycle == RecycleFor(dequeuePos - 1 + Capacity)

-----------------------------------------------------------------------------
Push(p) == LoadPos(p) \/ FindFree(p) \/ FindFull(p) \/ ClaimCell(p) \/ WriteData(p) \/ Commit(p)

Consume == StartPop \/ ClaimNext \/ Finish \/ CopyOut \/ Recycle

Next ==
    \/ \E p \in Producers : StartPush(p) \/ Push(p)
    \/ StartClear \/ Consume

Spec == Init /\ [][Next]_vars

\* The render thread drains the ring every block; a push that was begun goes on.
FairSpec == Spec /\ WF_vars(Consume) /\ \A p \in Producers : WF_vars(Push(p))

-----------------------------------------------------------------------------
(* Correctness.                                                             *)

TypeOK ==
    /\ sequence \in [Cells -> Nat] /\ data \in [Cells -> Items \cup {NoItem}]
    /\ enqueuePos \in 0 .. MaxPushes /\ dequeuePos \in 0 .. enqueuePos
    /\ resetBarrier \in 0 .. enqueuePos
    /\ producer \in [Producers -> [at : {"idle", "load", "check", "claim", "write", "commit"},
                                   item : Items \cup {NoItem}, pos : 0 .. MaxPushes]]
    /\ consumer \in [at : {"idle", "check", "copy", "recycle"}, call : {"pop", "clear"},
                     out : Items \cup {NoItem}, barrier : 0 .. enqueuePos]
    /\ calls \in 0 .. MaxPushes /\ clears \in 0 .. MaxClears /\ delivered \in Seq(Items)

\* The oldest position whose cell has not been given back.
OldestInUse == IF consumer.at \in {"copy", "recycle"} THEN dequeuePos - 1 ELSE dequeuePos

\* The producer p has claimed a position and not yet committed it.
Filling(p) == producer[p].at \in {"write", "commit"}

\* The plain data of a cell is never touched by two threads at once: neither by
\* two producers of different laps nor by a producer and the copying consumer.
CellHasOneUser ==
    /\ \A p, q \in Producers : p # q /\ Filling(p) /\ Filling(q)
           => CellOf(producer[p].pos) # CellOf(producer[q].pos)
    /\ consumer.at \in {"copy", "recycle"} => \A p \in Producers : Filling(p)
           => CellOf(producer[p].pos) # CellOf(dequeuePos - 1)

\* push() fails only when every cell is in use, never because of contention,
\* although the position it looks at may be out of date by then.
FullAnswerIsTrue ==
    \A p \in Producers : producer[p].at = "check" /\ Distance(p) < 0
        => enqueuePos - OldestInUse = Capacity

\* No claimed cell is stuck: its position is popped or cleared, even behind a
\* producer that was interrupted between its claim and its commit.
ClaimedCellsDrain == \A n \in 0 .. MaxPushes : enqueuePos > n ~> OldestInUse > n

\* The ring implements the queue: a push takes effect when it claims its cell, a
\* clear when it reads its barrier (items claimed before but committed after it
\* are gone, too), a pop when it gives the cell back.
Barrier == IF consumer.call = "clear" /\ consumer.at # "idle" THEN consumer.barrier
                                                             ELSE resetBarrier
ItemAt(pos) ==
    IF \E p \in Producers : Filling(p) /\ producer[p].pos = pos
    THEN producer[CHOOSE p \in Producers : Filling(p) /\ producer[p].pos = pos].item
    ELSE data[CellOf(pos)]
Oldest == IF OldestInUse < Barrier THEN Barrier ELSE OldestInUse
Fifo == INSTANCE IngressFifo WITH
            Bound <- Capacity, delivered <- delivered,
            queue <- [i \in 1 .. enqueuePos - Oldest |-> ItemAt(Oldest + i - 1)]
ImplementsFifo == Fifo!FifoSpec
=============================================================================
