--------------------------- MODULE EventPipeline ---------------------------
(***************************************************************************)
(* SidRuntimeModel's way from an event to the engine, all on the render    *)
(* thread.  While a block is prepared, events are pushed into the lane of  *)
(* their source; what the lane cannot take goes to a stack of nodes, from  *)
(* there to a spill array, and from there to latches or nowhere.  Then the *)
(* lanes are merged, which numbers the events, and everything is put into  *)
(* the pending queue, which makes room for releases at the cost of other   *)
(* events; the queue is swapped out, sorted and dispatched.                *)
(*                                                                         *)
(* Two of the five lanes and four event types stand for all: a kill, a     *)
(* release, a note and a controller of the lowest priority.  Events carry  *)
(* a sample or none; cycle and subphase refine the sample and are left     *)
(* out.  All notes are of one key.  The local number of a lane is the      *)
(* number of the push.  Scratch space holds all lanes, as in the code.     *)
(***************************************************************************)
EXTENDS Integers, Sequences, FiniteSets, Functions

CONSTANTS
    LaneCapacity,      \* kMergeLaneCapacity
    CriticalCapacity,  \* kSidCriticalRingCapacity
    NodeCapacity,      \* kIngressCapacity_
    SpillCapacity,     \* kIngressSpillCapacity_
    QueueCapacity,     \* kMaxSidTimedEvents
    Reserve,           \* kReleaseReserve
    Frames,            \* samples in a block
    CounterLimit,      \* 2^32, where arrival_order and its counters start again
    MaxPushes,         \* bound on the events pushed
    MaxBlocks          \* bound on the blocks with events

ASSUME CapacityAssumption ==
    /\ {LaneCapacity, CriticalCapacity, NodeCapacity, SpillCapacity, Frames} \subseteq Nat \ {0}
    /\ CounterLimit \in Nat \ {0, 1}
    /\ QueueCapacity \in Nat \ {0} /\ Reserve \in 0 .. QueueCapacity - 1

ASSUME BoundAssumption == MaxPushes \in Nat /\ MaxBlocks \in Nat

Types == {"AllNotesOff", "NoteOff", "NoteOn", "PitchBend"}

\* kSidUnresolvedSampleOffset sorts after every sample.
Unresolved == Frames
Samples == 0 .. Frames

Arrivals == 0 .. CounterLimit - 1
After(n) == IF n + 1 = CounterLimit THEN 0 ELSE n + 1

Events == [n : Nat, type : Types, sample : Samples, arrival : Arrivals]

VARIABLES
    stage,    \* what the render thread is doing with the block
    input,    \* the number of the last push, the blocks so far, and whether the block is
              \* rendered in fractions of a sample
    lanes,    \* mergeLanes_: the events of both rings of all lanes
    critical, \* the numbers of those that are in a critical ring
    count,    \* mergeArrivalCounter_ and ingress_sequence_
    nodes,    \* the list at ingress_pending_head_, newest first
    spill,    \* ingress_spill_events_
    latch,    \* ingress_fallback_all_notes_off_ and ingress_fallback_pitch_bend_dirty_
    queue,    \* pending_events_
    lost,     \* types of the events that the queue of this block refused or gave up
    block,    \* the swapped-out queue: the events that are still to be dispatched
    key,      \* whether the key is down for the source and sounds in the engine, and whether
              \* its last release overflowed, or may be played before a note, or a release was
              \* lost since
    strayed   \* the numbers of the events that found their lane full

vars == <<stage, input, lanes, critical, count, nodes, spill, latch, queue, lost, block, key, strayed>>

Init ==
    /\ stage = "fill"
    /\ input = [n |-> 0, blocks |-> 0, fractional |-> FALSE]
    /\ lanes = {} /\ critical = {}
    /\ count = [arrivals |-> 1, sequence |-> 1]
    /\ nodes = <<>> /\ spill = <<>>
    /\ latch = [notesOff |-> FALSE, bend |-> FALSE]
    /\ queue = <<>> /\ lost = {} /\ block = {}
    /\ key = [down |-> FALSE, sounds |-> FALSE, astray |-> FALSE]
    /\ strayed = {}

-----------------------------------------------------------------------------
(* What the types mean.                                                    *)

\* sidTimedEventIsReleaseCritical, sidIngressIsCriticalEvent, sidTimedEventIsSampleBoundaryKill.
ReleaseCritical(event) == event.type \in {"AllNotesOff", "NoteOff"}
IngressCritical(event) == event.type \in {"AllNotesOff", "NoteOff"}
Kill(event) == event.type = "AllNotesOff"

\* sidTimedEventPriority: the lower, the more important.
Priority(event) ==
    CASE event.type = "AllNotesOff" -> 2
      [] event.type = "NoteOff" -> 3
      [] event.type = "NoteOn" -> 10
      [] event.type = "PitchBend" -> 14

\* sidCanonicalSourcePriority, which is also the lane.
Source(event) == IF event.type = "AllNotesOff" THEN 0 ELSE 2

\* A block in fractions of a sample takes events without a sample for those of its first one,
\* any other block plays them at its end.
Time(event) == IF input.fractional /\ event.sample = Unresolved THEN 0 ELSE event.sample

\* Types before arrival: the second ordering law that the code warns of.
Before_TypeFirst(a, b) ==
    \/ Time(a) < Time(b)
    \/ Time(a) = Time(b) /\ Priority(a) < Priority(b)
    \/ Time(a) = Time(b) /\ Priority(a) = Priority(b) /\ a.arrival < b.arrival

\* SidTimedEvent::before.
Before(a, b) ==
    \/ Time(a) < Time(b)
    \/ /\ Time(a) = Time(b)
       /\ LET first(e) == Time(e) # Unresolved /\ Kill(e)
          IN  \/ first(a) /\ ~ first(b)
              \/ /\ first(a) = first(b)
                 /\ \/ a.arrival < b.arrival
                    \/ a.arrival = b.arrival /\ Priority(a) < Priority(b)

\* The order of sidIngressMerge, without the local number.
MergedBefore_NoLocalNumber(a, b) ==
    \/ a.sample < b.sample
    \/ a.sample = b.sample /\ Source(a) < Source(b)

\* The order of sidIngressMerge.
MergedBefore(a, b) ==
    \/ a.sample < b.sample
    \/ a.sample = b.sample /\ Source(a) < Source(b)
    \/ a.sample = b.sample /\ Source(a) = Source(b) /\ a.n < b.n

-----------------------------------------------------------------------------
(* An event is pushed.                                                     *)

InLane(event) == {e \in lanes : Source(e) = Source(event)}
\* The ring is filled past its capacity.
PrimaryHasRoom_OneMore(event) == Cardinality({e \in InLane(event) : e.n \notin critical}) <= LaneCapacity
PrimaryHasRoom(event) == Cardinality({e \in InLane(event) : e.n \notin critical}) < LaneCapacity
CriticalHasRoom(event) == Cardinality({e \in InLane(event) : e.n \in critical}) < CriticalCapacity

\* pushIngress_: a node, which gets a number; the spill array; captureIngressFallback_.
Overflow(event) ==
    IF Len(nodes) < NodeCapacity
    THEN /\ nodes' = <<[event EXCEPT !.arrival = count.sequence]>> \o nodes
         /\ count' = [count EXCEPT !.sequence = After(@)]
         /\ UNCHANGED <<spill, latch>>
    ELSE IF Len(spill) < SpillCapacity
    THEN /\ spill' = Append(spill, event)
         /\ UNCHANGED <<nodes, count, latch>>
    ELSE /\ latch' = CASE event.type \in {"AllNotesOff", "NoteOff"} -> [latch EXCEPT !.notesOff = TRUE]
                       [] event.type = "PitchBend" -> [latch EXCEPT !.bend = TRUE]
                       [] event.type = "NoteOn" -> latch
         /\ UNCHANGED <<nodes, count, spill>>

\* SidIngressLane::push, then pushToLane.
ToLane(event) ==
    IF PrimaryHasRoom(event)
    THEN lanes' = lanes \cup {event} /\ UNCHANGED <<critical, nodes, count, spill, latch>>
    ELSE IF IngressCritical(event) /\ CriticalHasRoom(event)
    THEN /\ lanes' = lanes \cup {event} /\ critical' = critical \cup {event.n}
         /\ UNCHANGED <<nodes, count, spill, latch>>
    ELSE Overflow(event) /\ UNCHANGED <<lanes, critical>>

\* An event may be played before a note that came before it: its sample is the smaller, or
\* will be if it has none and the block takes it for one of the first; or the number of the
\* note's node is not below the one that the merge gives the event.
Overtakes(event) ==
    \/ \E e \in lanes \cup Range(nodes) \cup Range(spill) :
          /\ e.type = "NoteOn"
          /\ \/ event.sample < e.sample
             \/ event.sample = Unresolved /\ e.sample \in 1 .. Frames - 1
    \/ \E e \in Range(nodes) :
          /\ e.type = "NoteOn"
          /\ e.arrival >= count.arrivals + Cardinality({other \in lanes : MergedBefore(other, event)})

\* Keys go down and up in turn; the samples of the events are in any order, as the kernel's
\* are: a release without a time gets sample 0, a latched one the last sample of the block,
\* a note without a time none.
Push(type, sample) ==
    LET event == [n |-> input.n + 1, type |-> type, sample |-> sample, arrival |-> 0]
    IN  /\ stage = "fill" /\ input.n < MaxPushes /\ input.blocks < MaxBlocks
        /\ type = "NoteOn" => ~ key.down
        /\ type = "NoteOff" => key.down
        /\ input' = [input EXCEPT !.n = @ + 1]
        /\ ToLane(event)
        /\ strayed' = IF event \in lanes' THEN strayed ELSE strayed \cup {event.n}
        /\ key' = [key EXCEPT !.down = IF type \in {"NoteOn", "NoteOff"} THEN type = "NoteOn" ELSE @,
                              !.astray = IF type = "NoteOff" THEN event \notin lanes' \/ Overtakes(event) ELSE @]
        /\ UNCHANGED <<stage, queue, lost, block>>

-----------------------------------------------------------------------------
(* consumePendingEventsInto.                                               *)

\* The event that came last is given up, whatever it is.
Worst_Last(q) == {i \in DOMAIN q : \A j \in DOMAIN q : q[j].arrival <= q[i].arrival}

\* The event to give up: the least important, the last that came, the first in the array.
Worst(q) ==
    {i \in DOMAIN q : \A j \in DOMAIN q :
        \/ Priority(q[j]) < Priority(q[i])
        \/ Priority(q[j]) = Priority(q[i]) /\ q[j].arrival < q[i].arrival
        \/ Priority(q[j]) = Priority(q[i]) /\ q[j].arrival = q[i].arrival /\ i <= j}

AdmissionLimit(event) == IF ReleaseCritical(event) THEN QueueCapacity ELSE QueueCapacity - Reserve

\* SidTimedEventQueue::push.
Enqueue(event) ==
    \/ /\ Len(queue) < AdmissionLimit(event)
       /\ queue' = Append(queue, event)
       /\ UNCHANGED lost
    \/ /\ Len(queue) >= AdmissionLimit(event)
       /\ \E worst \in Worst(queue) :
             IF Priority(event) < Priority(queue[worst])
             THEN /\ queue' = [queue EXCEPT ![worst] = event]
                  /\ lost' = lost \cup {queue[worst].type}
             ELSE /\ lost' = lost \cup {event.type}
                  /\ UNCHANGED queue

\* What the block is rendered by is only looked at after the merge.
Consume ==
    /\ stage = "fill" /\ input.n > 0 /\ input.blocks < MaxBlocks
    /\ stage' = "merge"
    /\ lost' = {}
    /\ \E fractional \in BOOLEAN :
          input' = [input EXCEPT !.blocks = @ + 1, !.fractional = fractional]
    /\ UNCHANGED <<lanes, critical, count, nodes, spill, latch, queue, block, key, strayed>>

\* sidIngressMerge: events are numbered in the merged order.
MergeEvent ==
    /\ stage = "merge"
    /\ \E event \in lanes :
          /\ \A other \in lanes : ~ MergedBefore(other, event)
          /\ lanes' = lanes \ {event}
          /\ critical' = critical \ {event.n}
          /\ count' = [count EXCEPT !.arrivals = After(@)]
          /\ Enqueue([event EXCEPT !.arrival = count.arrivals])
    /\ UNCHANGED <<stage, input, nodes, spill, latch, block, key, strayed>>

\* flushIngressToPending_: the nodes, newest first.
FlushNode ==
    /\ stage = "merge" /\ lanes = {} /\ nodes # <<>>
    /\ Enqueue(Head(nodes))
    /\ nodes' = Tail(nodes)
    /\ UNCHANGED <<stage, input, lanes, critical, count, spill, latch, block, key, strayed>>

\* flushIngressSpillToPending_.
FlushSpill ==
    /\ stage = "merge" /\ lanes = {} /\ nodes = <<>> /\ spill # <<>>
    /\ Enqueue(Head(spill))
    /\ spill' = Tail(spill)
    /\ UNCHANGED <<stage, input, lanes, critical, count, nodes, latch, block, key, strayed>>

\* flushIngressFallbacksToPending_: events without sample and without number.
Fallback(type) == [n |-> 0, type |-> type, sample |-> Unresolved, arrival |-> 0]

FlushFallback ==
    /\ stage = "merge" /\ lanes = {} /\ nodes = <<>> /\ spill = <<>>
    /\ IF latch.notesOff
       THEN Enqueue(Fallback("AllNotesOff")) /\ latch' = [latch EXCEPT !.notesOff = FALSE]
       ELSE latch.bend /\ Enqueue(Fallback("PitchBend")) /\ latch' = [latch EXCEPT !.bend = FALSE]
    /\ UNCHANGED <<stage, input, lanes, critical, count, nodes, spill, block, key, strayed>>

\* The queue is sorted and swapped out.
Swap ==
    /\ stage = "merge" /\ lanes = {} /\ nodes = <<>> /\ spill = <<>> /\ ~ latch.notesOff /\ ~ latch.bend
    /\ stage' = "play"
    /\ block' = Range(queue)
    /\ queue' = <<>>
    /\ count' = [count EXCEPT !.sequence = 1]
    /\ UNCHANGED <<input, lanes, critical, nodes, spill, latch, lost, key, strayed>>

\* SidHostCycleDispatcher::dispatchBlock; std::sort leaves open the order of equal events.
Dispatch ==
    /\ stage = "play"
    /\ \E event \in block :
          /\ \A other \in block : ~ Before(other, event)
          /\ block' = block \ {event}
          /\ key' = CASE event.type = "NoteOn" -> [key EXCEPT !.sounds = TRUE]
                      [] event.type \in {"NoteOff", "AllNotesOff"} -> [key EXCEPT !.sounds = FALSE]
                      [] event.type = "PitchBend" -> key
    /\ UNCHANGED <<stage, input, lanes, critical, count, nodes, spill, latch, queue, lost, strayed>>

EndBlock ==
    /\ stage = "play" /\ block = {}
    /\ stage' = "fill"
    /\ key' = [key EXCEPT !.astray = @ \/ "NoteOff" \in lost]
    /\ UNCHANGED <<input, lanes, critical, count, nodes, spill, latch, queue, lost, block, strayed>>

Next ==
    \/ \E type \in Types, sample \in Samples : Push(type, sample)
    \/ Consume \/ MergeEvent \/ FlushNode \/ FlushSpill \/ FlushFallback \/ Swap
    \/ Dispatch \/ EndBlock

Spec == Init /\ [][Next]_vars

-----------------------------------------------------------------------------
(* Properties.                                                             *)

Typed ==
    /\ stage \in {"fill", "merge", "play"}
    /\ input \in [n : 0 .. MaxPushes, blocks : 0 .. MaxBlocks, fractional : BOOLEAN]
    /\ lanes \subseteq Events /\ critical \subseteq {e.n : e \in lanes}
    /\ count \in [arrivals : Arrivals, sequence : Arrivals]
    /\ nodes \in Seq(Events) /\ spill \in Seq(Events) /\ queue \in Seq(Events)
    /\ latch \in [notesOff : BOOLEAN, bend : BOOLEAN]
    /\ lost \subseteq Types /\ block \subseteq Events
    /\ key \in [down : BOOLEAN, sounds : BOOLEAN, astray : BOOLEAN]
    /\ strayed \subseteq Nat

Sizes ==
    /\ \A event \in lanes :
          /\ Cardinality({e \in InLane(event) : e.n \notin critical}) <= LaneCapacity
          /\ Cardinality({e \in InLane(event) : e.n \in critical}) <= CriticalCapacity
    /\ Len(nodes) <= NodeCapacity /\ Len(spill) <= SpillCapacity /\ Len(queue) <= QueueCapacity

\* The state stays well formed, and nothing holds more than its capacity.
TypeOK == Typed /\ Sizes

\* A block that lost a release has no note left: the queue refuses a release, or gives one
\* up, only when there is nothing less important to give up (SidTimedEventQueue::push).
ReleasesOutliveNotes ==
    "NoteOff" \in lost => \A event \in Range(queue) \cup block : event.type # "NoteOn"

\* Events of one source that went through its lane, in whichever of its two rings, are
\* dispatched in the order in which they were pushed if their samples are in that order, and
\* stay so when an event without a sample is taken for one of the first.
SourceOrder ==
    \A a, b \in block :
        /\ a.n \in 1 .. b.n - 1 /\ Source(a) = Source(b) /\ {a.n, b.n} \cap strayed = {}
        /\ a.sample <= b.sample /\ Time(a) <= Time(b)
        => ~ Before(b, a)

\* Between two blocks with nothing on its way, a key that went up is silent, whatever its
\* earlier releases met: unless the last one found its lane full, was lost, or may be played
\* before a note of its block, as its sample is before the note's, it was taken for an event
\* of the first sample, or the note's node got a number that the merge had not reached.
\* The first of these is what the kernel's own stamps do: a note without a time plays behind
\* the release without a time, which gets sample 0.
ReleaseSilences ==
    stage = "fill" /\ lanes = {} /\ ~ key.down /\ ~ key.astray => ~ key.sounds
=============================================================================
