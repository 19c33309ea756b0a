------------------------ MODULE EventPipelineProofs ------------------------
(***************************************************************************)
(* Proofs about EventPipeline: nothing holds more than its capacity, a     *)
(* block that lost a release has no note left, the events of a lane are    *)
(* dispatched in the order in which they were pushed, and a key that went  *)
(* up is silent between two blocks; for every capacity of lanes, nodes,    *)
(* spill and queue and every reserve.                                      *)
(***************************************************************************)
EXTENDS EventPipeline, SequenceTheorems, FiniteSetTheorems, TLAPS

-----------------------------------------------------------------------------
(* Types.                                                                  *)

\* The type of every variable but the two that the pushes bound, and the numbers of the
\* events in the lanes, which tell them apart.
Numbered ==
    /\ IsFiniteSet(lanes)
    /\ \A e \in lanes : e.n \in 1 .. input.n
    /\ \A a, b \in lanes : a.n = b.n => a = b

\* An event stays an event when it is numbered.
LEMMA NumberedEvent ==
    ASSUME NEW event \in Events, NEW arrival \in Arrivals
    PROVE  /\ [event EXCEPT !.arrival = arrival] \in Events
           /\ [event EXCEPT !.arrival = arrival].n = event.n
           /\ [event EXCEPT !.arrival = arrival].type = event.type
           /\ [event EXCEPT !.arrival = arrival].sample = event.sample
           /\ [event EXCEPT !.arrival = arrival].arrival = arrival
    BY DEF Events

\* The counters stay in their range.
LEMMA AfterIsArrival ==
    ASSUME NEW n \in Arrivals
    PROVE  After(n) \in Arrivals
    BY CapacityAssumption DEF After, Arrivals

\* The elements of a sequence, by their places.
LEMMA RangeOfSequence ==
    ASSUME NEW S, NEW s \in Seq(S)
    PROVE  /\ DOMAIN s = 1 .. Len(s) /\ Len(s) \in Nat
           /\ \A i \in 1 .. Len(s) : s[i] \in S /\ s[i] \in Range(s)
           /\ \A x \in Range(s) : x \in S /\ \E i \in 1 .. Len(s) : x = s[i]
    BY LenProperties, ElementOfSeq DEF Range

\* What enters the queue keeps it a queue of events within its capacity, and is the only
\* event that is new in it.
LEMMA EnqueueTypes ==
    ASSUME queue \in Seq(Events), lost \subseteq Types, Len(queue) <= QueueCapacity,
           NEW event \in Events, Enqueue(event)
    PROVE  /\ queue' \in Seq(Events) /\ lost' \subseteq Types
           /\ Len(queue') <= QueueCapacity
           /\ Range(queue') \subseteq Range(queue) \cup {event}
    <1>1. CASE Len(queue) < AdmissionLimit(event) /\ queue' = Append(queue, event) /\ lost' = lost
        <2>1. AdmissionLimit(event) <= QueueCapacity /\ AdmissionLimit(event) \in Int
            BY CapacityAssumption DEF AdmissionLimit
        <2>2. /\ queue' \in Seq(Events) /\ Len(queue') = Len(queue) + 1
              /\ \A i \in 1 .. Len(queue) : queue'[i] = queue[i]
              /\ queue'[Len(queue) + 1] = event
            BY <1>1, AppendProperties
        <2>3. ASSUME NEW x \in Range(queue')
              PROVE  x \in Range(queue) \cup {event}
            <3>1. PICK i \in 1 .. Len(queue) + 1 : x = queue'[i]
                BY <2>2, RangeOfSequence
            <3>2. CASE i = Len(queue) + 1
                BY <3>1, <3>2, <2>2
            <3>3. CASE i # Len(queue) + 1
                <4>1. i \in 1 .. Len(queue) /\ x = queue[i]
                    BY <3>1, <3>3, <2>2, LenProperties
                <4> QED BY <4>1, RangeOfSequence
            <3> QED BY <3>2, <3>3
        <2>4. Len(queue) \in Nat
            BY LenProperties
        <2> QED BY <1>1, <2>1, <2>2, <2>3, <2>4, CapacityAssumption
    <1>2. ASSUME NEW worst \in DOMAIN queue, queue' = [queue EXCEPT ![worst] = event],
                 lost' = lost \cup {queue[worst].type}
          PROVE  /\ queue' \in Seq(Events) /\ lost' \subseteq Types
                 /\ Len(queue') <= QueueCapacity
                 /\ Range(queue') \subseteq Range(queue) \cup {event}
        <2>1. worst \in 1 .. Len(queue) /\ queue[worst] \in Events
            BY <1>2, RangeOfSequence
        <2>2. /\ queue' \in Seq(Events) /\ Len(queue') = Len(queue)
              /\ \A i \in 1 .. Len(queue) : queue'[i] = IF i = worst THEN event ELSE queue[i]
            BY <1>2, <2>1, ExceptSeq
        <2>3. ASSUME NEW x \in Range(queue')
              PROVE  x \in Range(queue) \cup {event}
            <3>1. PICK i \in 1 .. Len(queue) : x = queue'[i]
                BY <2>2, RangeOfSequence
            <3> QED BY <3>1, <2>2, RangeOfSequence
        <2>4. lost' \subseteq Types
            BY <1>2, <2>1 DEF Events
        <2> QED BY <2>2, <2>3, <2>4
    <1>3. CASE queue' = queue /\ lost' = lost \cup {event.type}
        BY <1>3 DEF Events
    <1> QED BY <1>1, <1>2, <1>3 DEF Enqueue, Worst

\* The first element of a queue is one of it, and the rest are its other elements.
LEMMA HeadAndTail ==
    ASSUME NEW s \in Seq(Events), s # <<>>
    PROVE  /\ Head(s) \in Events /\ Head(s) \in Range(s)
           /\ Tail(s) \in Seq(Events) /\ Len(Tail(s)) = Len(s) - 1
           /\ Range(Tail(s)) \subseteq Range(s)
    <1>1. /\ Head(s) \in Events /\ Tail(s) \in Seq(Events) /\ Len(Tail(s)) = Len(s) - 1
          /\ \A i \in 1 .. Len(Tail(s)) : Tail(s)[i] = s[i + 1]
        BY HeadTailProperties
    <1>2. Len(s) \in Nat \ {0} /\ Head(s) = s[1]
        BY EmptySeq
    <1>3. Head(s) \in Range(s)
        BY <1>2, RangeOfSequence
    <1>4. ASSUME NEW x \in Range(Tail(s))
          PROVE  x \in Range(s)
        <2>1. PICK i \in 1 .. Len(Tail(s)) : x = Tail(s)[i]
            <3>1. Tail(s) \in Seq(Events)
                BY <1>1
            <3>2. \A y \in Range(Tail(s)) : \E i \in 1 .. Len(Tail(s)) : y = Tail(s)[i]
                BY <3>1, RangeOfSequence
            <3> QED BY <1>4, <3>2
        <2>2. i + 1 \in 1 .. Len(s)
            BY <1>1, <1>2
        <2>3. x = s[i + 1]
            BY <1>1, <2>1
        <2> QED BY <2>2, <2>3, RangeOfSequence
    <1> QED BY <1>1, <1>3, <1>4

-----------------------------------------------------------------------------
(* The lanes.                                                              *)

\* A smaller set of events has no more of them.
LEMMA FewerEvents ==
    ASSUME NEW T, IsFiniteSet(T), NEW S, S \subseteq T, NEW limit \in Nat,
           Cardinality(T) <= limit
    PROVE  Cardinality(S) <= limit
    BY FS_Subset, FS_CardinalityType

\* One event more is counted once.
LEMMA OneEventMore ==
    ASSUME NEW T, IsFiniteSet(T), NEW event, NEW S, S \subseteq T \cup {event},
           NEW limit \in Nat, Cardinality(T) < limit
    PROVE  Cardinality(S) <= limit
    <1>1. /\ IsFiniteSet(T \cup {event}) /\ Cardinality(T) \in Nat
          /\ Cardinality(T \cup {event}) <= Cardinality(T) + 1
        BY FS_AddElement, FS_CardinalityType
    <1>2. Cardinality(T \cup {event}) <= limit
        BY <1>1, FS_CardinalityType
    <1> QED BY <1>1, <1>2, FewerEvents

\* The events of the two rings of a source.
Primary(source) == {e \in lanes : Source(e) = source /\ e.n \notin critical}
Second(source) == {e \in lanes : Source(e) = source /\ e.n \in critical}

Sources == {0, 2}

\* The rings are full at most, told by source rather than by event.
RingSizes ==
    \A source \in Sources :
        /\ Cardinality(Primary(source)) <= LaneCapacity
        /\ Cardinality(Second(source)) <= CriticalCapacity

LEMMA SourceType ==
    ASSUME NEW event
    PROVE  Source(event) \in Sources
    BY DEF Source, Sources

\* The rings are finite sets.
LEMMA RingsFinite ==
    ASSUME IsFiniteSet(lanes), NEW source
    PROVE  IsFiniteSet(Primary(source)) /\ IsFiniteSet(Second(source))
    BY FS_Subset DEF Primary, Second

\* The sizes in the type invariant are those of the rings.
LEMMA RingsOfEvents ==
    ASSUME RingSizes, NEW event \in lanes
    PROVE  /\ Cardinality({e \in InLane(event) : e.n \notin critical}) <= LaneCapacity
           /\ Cardinality({e \in InLane(event) : e.n \in critical}) <= CriticalCapacity
    <1>1. /\ {e \in InLane(event) : e.n \notin critical} = Primary(Source(event))
          /\ {e \in InLane(event) : e.n \in critical} = Second(Source(event))
        BY DEF InLane, Primary, Second
    <1> QED BY <1>1, SourceType DEF RingSizes

\* The numbers in the critical rings are those of events of the lanes.
CriticalInLanes == critical \subseteq {e.n : e \in lanes}

Lanes == Numbered /\ RingSizes /\ CriticalInLanes

\* A pushed event goes to a ring with room, or to neither.
LEMMA ToLaneKeepsLanes ==
    ASSUME Lanes, input.n \in Nat, NEW event, event.n = input.n + 1, ToLane(event),
           input'.n = input.n + 1
    PROVE  Lanes'
    <1> USE CapacityAssumption
    <1>1. /\ \A e \in lanes : e.n \in 1 .. input.n
          /\ event.n \notin critical
        BY DEF Lanes, Numbered, CriticalInLanes
    <1>2. CASE lanes' = lanes \cup {event} /\ critical' = critical /\ PrimaryHasRoom(event)
        <2>1. Numbered'
            BY <1>1, <1>2, FS_AddElement DEF Lanes, Numbered
        <2>2. ASSUME NEW source \in Sources
              PROVE  /\ Cardinality(Primary(source)') <= LaneCapacity
                     /\ Cardinality(Second(source)') <= CriticalCapacity
            <3>1. Second(source)' \subseteq Second(source)
                BY <1>1, <1>2 DEF Second
            <3>2. CASE source = Source(event)
                <4>1. Cardinality(Primary(source)) < LaneCapacity
                    <5>1. {e \in InLane(event) : e.n \notin critical} = Primary(source)
                        BY <3>2 DEF InLane, Primary
                    <5> QED BY <1>2, <5>1 DEF PrimaryHasRoom
                <4>2. Primary(source)' \subseteq Primary(source) \cup {event}
                    BY <1>2 DEF Primary
                <4> QED BY <3>1, <4>1, <4>2, RingsFinite, OneEventMore, FewerEvents
                        DEF Lanes, Numbered, RingSizes
            <3>3. CASE source # Source(event)
                <4>1. Primary(source)' \subseteq Primary(source)
                    BY <1>2, <3>3 DEF Primary
                <4> QED BY <3>1, <4>1, RingsFinite, FewerEvents DEF Lanes, Numbered, RingSizes
            <3> QED BY <3>2, <3>3
        <2>3. CriticalInLanes'
            BY <1>2 DEF Lanes, CriticalInLanes
        <2> QED BY <2>1, <2>2, <2>3 DEF Lanes, RingSizes
    <1>3. CASE lanes' = lanes \cup {event} /\ critical' = critical \cup {event.n} /\ CriticalHasRoom(event)
        <2>1. Numbered'
            BY <1>1, <1>3, FS_AddElement DEF Lanes, Numbered
        <2>2. ASSUME NEW source \in Sources
              PROVE  /\ Cardinality(Primary(source)') <= LaneCapacity
                     /\ Cardinality(Second(source)') <= CriticalCapacity
            <3>1. Primary(source)' \subseteq Primary(source)
                BY <1>1, <1>3 DEF Primary
            <3>2. CASE source = Source(event)
                <4>1. Cardinality(Second(source)) < CriticalCapacity
                    <5>1. {e \in InLane(event) : e.n \in critical} = Second(source)
                        BY <3>2 DEF InLane, Second
                    <5> QED BY <1>3, <5>1 DEF CriticalHasRoom
                <4>2. Second(source)' \subseteq Second(source) \cup {event}
                    BY <1>1, <1>3 DEF Second, Lanes, Numbered
                <4> QED BY <3>1, <4>1, <4>2, RingsFinite, OneEventMore, FewerEvents
                        DEF Lanes, Numbered, RingSizes
            <3>3. CASE source # Source(event)
                <4>1. Second(source)' \subseteq Second(source)
                    BY <1>1, <1>3, <3>3 DEF Second
                <4> QED BY <3>1, <4>1, RingsFinite, FewerEvents DEF Lanes, Numbered, RingSizes
            <3> QED BY <3>2, <3>3
        <2>3. CriticalInLanes'
            BY <1>3 DEF Lanes, CriticalInLanes
        <2> QED BY <2>1, <2>2, <2>3 DEF Lanes, RingSizes
    <1>4. CASE lanes' = lanes /\ critical' = critical
        <2>1. Numbered' /\ CriticalInLanes'
            BY <1>4 DEF Lanes, Numbered, CriticalInLanes
        <2>2. \A source : Primary(source)' = Primary(source) /\ Second(source)' = Second(source)
            BY <1>4 DEF Primary, Second
        <2> QED BY <2>1, <2>2 DEF Lanes, RingSizes
    <1> QED BY <1>2, <1>3, <1>4 DEF ToLane

\* A merged event leaves its ring.
LEMMA MergeKeepsLanes ==
    ASSUME Lanes, NEW event \in lanes, lanes' = lanes \ {event},
           critical' = critical \ {event.n}, input' = input
    PROVE  Lanes'
    <1> USE CapacityAssumption
    <1>1. Numbered'
        BY FS_RemoveElement DEF Lanes, Numbered
    <1>2. CriticalInLanes'
        BY DEF Lanes, CriticalInLanes
    <1>3. ASSUME NEW source \in Sources
          PROVE  /\ Cardinality(Primary(source)') <= LaneCapacity
                 /\ Cardinality(Second(source)') <= CriticalCapacity
        <2>1. Primary(source)' \subseteq Primary(source) /\ Second(source)' \subseteq Second(source)
            BY DEF Primary, Second, Lanes, Numbered
        <2> QED BY <2>1, RingsFinite, FewerEvents DEF Lanes, Numbered, RingSizes
    <1> QED BY <1>1, <1>2, <1>3 DEF Lanes, RingSizes

\* A step that leaves the lanes alone.
LEMMA LanesUnchanged ==
    ASSUME Lanes, lanes' = lanes, critical' = critical, input'.n = input.n
    PROVE  Lanes'
    <1>1. Numbered' /\ CriticalInLanes'
        BY DEF Lanes, Numbered, CriticalInLanes
    <1>2. \A source : Primary(source)' = Primary(source) /\ Second(source)' = Second(source)
        BY DEF Primary, Second
    <1> QED BY <1>1, <1>2 DEF Lanes, RingSizes

-----------------------------------------------------------------------------
(* TypeOK.                                                                 *)

Fields ==
    /\ stage \in {"fill", "merge", "play"}
    /\ input \in [n : 0 .. MaxPushes, blocks : 0 .. MaxBlocks, fractional : BOOLEAN]
    /\ lanes \subseteq Events
    /\ count \in [arrivals : Arrivals, sequence : Arrivals]
    /\ latch \in [notesOff : BOOLEAN, bend : BOOLEAN]
    /\ lost \subseteq Types /\ block \subseteq Events
    /\ key \in [down : BOOLEAN, sounds : BOOLEAN, astray : BOOLEAN]
    /\ strayed \subseteq Nat

Queues ==
    /\ nodes \in Seq(Events) /\ spill \in Seq(Events) /\ queue \in Seq(Events)
    /\ Len(nodes) <= NodeCapacity /\ Len(spill) <= SpillCapacity /\ Len(queue) <= QueueCapacity

TypeInv == Fields /\ Queues /\ Lanes

LEMMA TypeInvImpliesTypeOK ==
    ASSUME TypeInv
    PROVE  TypeOK
    BY RingsOfEvents DEF TypeInv, Fields, Queues, Lanes, CriticalInLanes, TypeOK, Typed, Sizes

LEMMA TypeInvInit ==
    ASSUME Init
    PROVE  TypeInv
    <1>1. Fields
        BY CapacityAssumption, BoundAssumption DEF Init, Fields, Samples, Arrivals, Types
    <1>2. Queues
        BY CapacityAssumption, EmptySeq DEF Init, Queues
    <1>3. Numbered /\ CriticalInLanes
        BY FS_EmptySet DEF Init, Numbered, CriticalInLanes
    <1>4. RingSizes
        <2>1. \A source : Primary(source) = {} /\ Second(source) = {}
            BY DEF Init, Primary, Second
        <2> QED BY <2>1, FS_EmptySet, CapacityAssumption DEF RingSizes
    <1> QED BY <1>1, <1>2, <1>3, <1>4 DEF TypeInv, Lanes

\* What overflows a lane goes to a node, to the spill array, to a latch, or nowhere.
LEMMA OverflowTypes ==
    ASSUME Fields, Queues, NEW event \in Events, Overflow(event), queue' = queue
    PROVE  /\ Queues'
           /\ count' \in [arrivals : Arrivals, sequence : Arrivals]
           /\ latch' \in [notesOff : BOOLEAN, bend : BOOLEAN]
    <1>1. CASE /\ Len(nodes) < NodeCapacity
               /\ nodes' = <<[event EXCEPT !.arrival = count.sequence]>> \o nodes
               /\ count' = [count EXCEPT !.sequence = After(@)]
               /\ UNCHANGED <<spill, latch>>
        <2> DEFINE first == <<[event EXCEPT !.arrival = count.sequence]>>
        <2>1. count.sequence \in Arrivals /\ After(count.sequence) \in Arrivals
            BY AfterIsArrival DEF Fields
        <2>2. first \in Seq(Events) /\ Len(first) = 1
            BY <2>1, NumberedEvent
        <2>3. nodes' \in Seq(Events) /\ Len(nodes') = 1 + Len(nodes) /\ Len(nodes) \in Nat
            BY <1>1, <2>2, ConcatProperties, LenProperties DEF Queues
        <2>4. Len(nodes') <= NodeCapacity
            BY <1>1, <2>3, CapacityAssumption
        <2>5. count' \in [arrivals : Arrivals, sequence : Arrivals] /\ latch' = latch
            BY <1>1, <2>1 DEF Fields
        <2>6. Queues'
            BY <1>1, <2>3, <2>4 DEF Queues
        <2> QED BY <2>5, <2>6 DEF Fields
    <1>2. CASE /\ Len(spill) < SpillCapacity /\ spill' = Append(spill, event)
               /\ UNCHANGED <<nodes, count, latch>>
        <2>1. spill' \in Seq(Events) /\ Len(spill') = Len(spill) + 1 /\ Len(spill) \in Nat
            BY <1>2, AppendProperties, LenProperties DEF Queues
        <2> QED BY <1>2, <2>1, CapacityAssumption DEF Fields, Queues
    <1>3. CASE /\ UNCHANGED <<nodes, count, spill>>
               /\ latch' \in {latch, [latch EXCEPT !.notesOff = TRUE], [latch EXCEPT !.bend = TRUE]}
        BY <1>3 DEF Fields, Queues
    <1>4. event.type \in {"AllNotesOff", "NoteOff", "NoteOn", "PitchBend"}
        BY DEF Events, Types
    <1> QED BY <1>1, <1>2, <1>3, <1>4 DEF Overflow

LEMMA TypeInvPush ==
    ASSUME TypeInv, NEW type \in Types, NEW sample \in Samples, Push(type, sample)
    PROVE  TypeInv'
    <1> DEFINE event == [n |-> input.n + 1, type |-> type, sample |-> sample, arrival |-> 0]
    <1>1. event \in Events /\ event.n = input.n + 1 /\ input.n \in Nat
        BY CapacityAssumption DEF TypeInv, Fields, Events, Arrivals
    <1>2. ToLane(event) /\ input' = [input EXCEPT !.n = @ + 1]
        BY DEF Push
    <1>3. Lanes'
        BY <1>1, <1>2, ToLaneKeepsLanes DEF TypeInv, Fields
    <1>4. /\ lanes' \subseteq Events
          /\ Queues'
          /\ count' \in [arrivals : Arrivals, sequence : Arrivals]
          /\ latch' \in [notesOff : BOOLEAN, bend : BOOLEAN]
        <2>1. queue' = queue
            BY DEF Push
        <2>2. CASE lanes' = lanes \cup {event} /\ UNCHANGED <<nodes, count, spill, latch>>
            BY <1>1, <2>1, <2>2 DEF TypeInv, Fields, Queues
        <2>3. CASE Overflow(event) /\ UNCHANGED <<lanes, critical>>
            BY <1>1, <2>1, <2>3, OverflowTypes DEF TypeInv, Fields
        <2> QED BY <1>2, <2>2, <2>3 DEF ToLane
    <1>5. input' \in [n : 0 .. MaxPushes, blocks : 0 .. MaxBlocks, fractional : BOOLEAN]
        <2>1. input.n + 1 \in 0 .. MaxPushes
            BY <1>1, BoundAssumption DEF Push
        <2> QED BY <1>2, <2>1 DEF TypeInv, Fields
    <1>6. strayed' \subseteq Nat
        BY <1>1 DEF Push, TypeInv, Fields
    <1>7. key' \in [down : BOOLEAN, sounds : BOOLEAN, astray : BOOLEAN]
        BY DEF Push, TypeInv, Fields
    <1> QED BY <1>3, <1>4, <1>5, <1>6, <1>7 DEF Push, TypeInv, Fields

LEMMA TypeInvConsume ==
    ASSUME TypeInv, Consume
    PROVE  TypeInv'
    <1>1. Lanes'
        BY LanesUnchanged DEF TypeInv, Fields, Consume
    <1>2. Fields'
        <2>1. input.blocks + 1 \in 0 .. MaxBlocks
            BY BoundAssumption DEF TypeInv, Fields, Consume
        <2>2. input' \in [n : 0 .. MaxPushes, blocks : 0 .. MaxBlocks, fractional : BOOLEAN]
            BY <2>1 DEF TypeInv, Fields, Consume
        <2> QED BY <2>2 DEF TypeInv, Fields, Consume
    <1> QED BY <1>1, <1>2 DEF TypeInv, Queues, Consume

LEMMA TypeInvMergeEvent ==
    ASSUME TypeInv, MergeEvent
    PROVE  TypeInv'
    <1>1. PICK event \in lanes :
              /\ lanes' = lanes \ {event} /\ critical' = critical \ {event.n}
              /\ count' = [count EXCEPT !.arrivals = After(@)]
              /\ Enqueue([event EXCEPT !.arrival = count.arrivals])
        BY DEF MergeEvent
    <1>2. Lanes'
        BY <1>1, MergeKeepsLanes DEF TypeInv, MergeEvent
    <1>3. count.arrivals \in Arrivals /\ After(count.arrivals) \in Arrivals /\ event \in Events
        BY AfterIsArrival DEF TypeInv, Fields
    <1>4. queue' \in Seq(Events) /\ lost' \subseteq Types /\ Len(queue') <= QueueCapacity
        BY <1>1, <1>3, NumberedEvent, EnqueueTypes DEF TypeInv, Fields, Queues
    <1>5. Fields' /\ Queues'
        BY <1>1, <1>3, <1>4 DEF TypeInv, Fields, Queues, MergeEvent
    <1> QED BY <1>2, <1>5 DEF TypeInv

LEMMA TypeInvFlushNode ==
    ASSUME TypeInv, FlushNode
    PROVE  TypeInv'
    <1>1. Lanes'
        BY LanesUnchanged DEF TypeInv, FlushNode
    <1>2. Head(nodes) \in Events /\ Tail(nodes) \in Seq(Events) /\ Len(Tail(nodes)) <= NodeCapacity
        BY HeadAndTail, LenProperties, CapacityAssumption DEF TypeInv, Queues, FlushNode
    <1>3. queue' \in Seq(Events) /\ lost' \subseteq Types /\ Len(queue') <= QueueCapacity
        BY <1>2, EnqueueTypes DEF TypeInv, Fields, Queues, FlushNode
    <1>4. Fields' /\ Queues'
        BY <1>2, <1>3 DEF TypeInv, Fields, Queues, FlushNode
    <1> QED BY <1>1, <1>4 DEF TypeInv

LEMMA TypeInvFlushSpill ==
    ASSUME TypeInv, FlushSpill
    PROVE  TypeInv'
    <1>1. Lanes'
        BY LanesUnchanged DEF TypeInv, FlushSpill
    <1>2. Head(spill) \in Events /\ Tail(spill) \in Seq(Events) /\ Len(Tail(spill)) <= SpillCapacity
        BY HeadAndTail, LenProperties, CapacityAssumption DEF TypeInv, Queues, FlushSpill
    <1>3. queue' \in Seq(Events) /\ lost' \subseteq Types /\ Len(queue') <= QueueCapacity
        BY <1>2, EnqueueTypes DEF TypeInv, Fields, Queues, FlushSpill
    <1>4. Fields' /\ Queues'
        BY <1>2, <1>3 DEF TypeInv, Fields, Queues, FlushSpill
    <1> QED BY <1>1, <1>4 DEF TypeInv

LEMMA FallbackIsEvent ==
    ASSUME NEW type \in Types
    PROVE  Fallback(type) \in Events
    BY CapacityAssumption DEF Fallback, Events, Samples, Unresolved, Arrivals

LEMMA TypeInvFlushFallback ==
    ASSUME TypeInv, FlushFallback
    PROVE  TypeInv'
    <1>1. Lanes'
        BY LanesUnchanged DEF TypeInv, FlushFallback
    <1>2. PICK type \in Types : Enqueue(Fallback(type))
        BY DEF FlushFallback, Types
    <1>3. queue' \in Seq(Events) /\ lost' \subseteq Types /\ Len(queue') <= QueueCapacity
        BY <1>2, FallbackIsEvent, EnqueueTypes DEF TypeInv, Fields, Queues
    <1>4. latch' \in [notesOff : BOOLEAN, bend : BOOLEAN]
        BY DEF TypeInv, Fields, FlushFallback
    <1>5. Fields' /\ Queues'
        BY <1>3, <1>4 DEF TypeInv, Fields, Queues, FlushFallback
    <1> QED BY <1>1, <1>5 DEF TypeInv

LEMMA TypeInvSwap ==
    ASSUME TypeInv, Swap
    PROVE  TypeInv'
    <1>1. Lanes'
        BY LanesUnchanged DEF TypeInv, Swap
    <1>2. Range(queue) \subseteq Events
        BY RangeOfSequence DEF TypeInv, Queues
    <1>3. count' \in [arrivals : Arrivals, sequence : Arrivals]
        <2>1. 1 \in Arrivals
            BY CapacityAssumption DEF Arrivals
        <2>2. count' = [count EXCEPT !.sequence = 1]
            BY DEF Swap
        <2> QED BY <2>1, <2>2 DEF TypeInv, Fields
    <1>4. stage' = "play" /\ block' \subseteq Events
        BY <1>2 DEF Swap
    <1>5. Fields'
        BY <1>3, <1>4 DEF TypeInv, Fields, Swap
    <1>6. Queues'
        BY EmptySeq, CapacityAssumption DEF TypeInv, Queues, Swap
    <1> QED BY <1>1, <1>5, <1>6 DEF TypeInv

LEMMA TypeInvDispatch ==
    ASSUME TypeInv, Dispatch
    PROVE  TypeInv'
    <1>1. Lanes'
        BY LanesUnchanged DEF TypeInv, Dispatch
    <1>2. PICK event \in block :
              /\ block' = block \ {event}
              /\ key' = CASE event.type = "NoteOn" -> [key EXCEPT !.sounds = TRUE]
                          [] event.type \in {"NoteOff", "AllNotesOff"} -> [key EXCEPT !.sounds = FALSE]
                          [] event.type = "PitchBend" -> key
        BY DEF Dispatch
    <1>3. event.type \in {"AllNotesOff", "NoteOff", "NoteOn", "PitchBend"}
        BY <1>2 DEF TypeInv, Fields, Events, Types
    <1>4. key' \in [down : BOOLEAN, sounds : BOOLEAN, astray : BOOLEAN]
        BY <1>2, <1>3 DEF TypeInv, Fields
    <1>5. Fields' /\ Queues'
        BY <1>2, <1>4 DEF TypeInv, Fields, Queues, Dispatch
    <1> QED BY <1>1, <1>5 DEF TypeInv

LEMMA TypeInvEndBlock ==
    ASSUME TypeInv, EndBlock
    PROVE  TypeInv'
    <1>1. Lanes'
        BY LanesUnchanged DEF TypeInv, EndBlock
    <1>2. Fields' /\ Queues'
        BY DEF TypeInv, Fields, Queues, EndBlock
    <1> QED BY <1>1, <1>2 DEF TypeInv

LEMMA TypeInvNext ==
    ASSUME TypeInv, [Next]_vars
    PROVE  TypeInv'
    <1>1. CASE UNCHANGED vars
        BY <1>1, LanesUnchanged DEF vars, TypeInv, Fields, Queues
    <1> QED BY <1>1, TypeInvPush, TypeInvConsume, TypeInvMergeEvent, TypeInvFlushNode, TypeInvFlushSpill,
               TypeInvFlushFallback, TypeInvSwap, TypeInvDispatch, TypeInvEndBlock DEF Next

THEOREM TypeInvAlways == Spec => []TypeInv
    BY TypeInvInit, TypeInvNext, PTL DEF Spec

\* The state stays well formed, and nothing holds more than its capacity.
THEOREM TypeCorrect == Spec => []TypeOK
    BY TypeInvAlways, TypeInvImpliesTypeOK, PTL

-----------------------------------------------------------------------------
(* ReleasesOutliveNotes.                                                   *)

\* The queue is in use while a block is merged, what it was while the block is played.
Stages ==
    /\ stage # "merge" => queue = <<>>
    /\ stage # "play" => block = {}

\* Nothing less important than a release.
Important(event) == Priority(event) <= 3

\* A queue that lost a release is full of releases and more important events.
FullOfReleases ==
    "NoteOff" \in lost =>
        /\ stage = "merge" => Len(queue) = QueueCapacity
        /\ \A event \in Range(queue) \cup block : Important(event)

LossInv == TypeInv /\ Stages /\ FullOfReleases

\* The priorities are numbers, of which only those of notes and controllers are above 3.
LEMMA Priorities ==
    ASSUME NEW event \in Events
    PROVE  /\ Priority(event) \in Nat
           /\ event.type = "NoteOff" <=> Priority(event) = 3
           /\ event.type = "AllNotesOff" <=> Priority(event) < 3
           /\ Important(event) => event.type # "NoteOn"
    <1>1. event.type \in {"AllNotesOff", "NoteOff", "NoteOn", "PitchBend"}
        BY DEF Events, Types
    <1> QED BY <1>1 DEF Priority, Important

\* No event of the queue is less important than one it would give up.
LEMMA WorstIsLeastImportant ==
    ASSUME queue \in Seq(Events), NEW worst \in Worst(queue)
    PROVE  /\ worst \in 1 .. Len(queue) /\ queue[worst] \in Events
           /\ \A event \in Range(queue) : Priority(event) <= Priority(queue[worst])
    <1>1. worst \in 1 .. Len(queue) /\ queue[worst] \in Events
        BY RangeOfSequence DEF Worst
    <1>2. ASSUME NEW event \in Range(queue)
          PROVE  Priority(event) <= Priority(queue[worst])
        <2>1. PICK i \in DOMAIN queue : event = queue[i]
            BY RangeOfSequence
        <2>2. event \in Events
            BY RangeOfSequence
        <2>3. \/ Priority(event) < Priority(queue[worst])
              \/ Priority(event) = Priority(queue[worst])
            BY <2>1 DEF Worst
        <2> QED BY <2>2, <2>3, <1>1, Priorities
    <1> QED BY <1>1, <1>2

\* The queue gives up or refuses a release only when it is full of them.
LEMMA EnqueueKeepsReleases ==
    ASSUME queue \in Seq(Events), lost \subseteq Types, Len(queue) <= QueueCapacity,
           NEW event \in Events, Enqueue(event), block = {}, block' = {},
           stage = "merge", FullOfReleases
    PROVE  FullOfReleases'
    <1> SUFFICES ASSUME "NoteOff" \in lost'
                 PROVE  Len(queue') = QueueCapacity /\ \A e \in Range(queue') : Important(e)
        BY DEF FullOfReleases
    <1> USE CapacityAssumption
    <1>1. Len(queue) \in Nat /\ (ReleaseCritical(event) => AdmissionLimit(event) = QueueCapacity)
          /\ AdmissionLimit(event) \in Int /\ AdmissionLimit(event) <= QueueCapacity
        BY LenProperties DEF AdmissionLimit
    <1>2. CASE Len(queue) < AdmissionLimit(event) /\ lost' = lost
        BY <1>1, <1>2 DEF FullOfReleases
    <1>3. ASSUME Len(queue) >= AdmissionLimit(event), NEW worst \in Worst(queue),
                 Priority(event) < Priority(queue[worst]),
                 queue' = [queue EXCEPT ![worst] = event], lost' = lost \cup {queue[worst].type}
          PROVE  Len(queue') = QueueCapacity /\ \A e \in Range(queue') : Important(e)
        <2>1. /\ worst \in 1 .. Len(queue) /\ queue[worst] \in Events
              /\ \A e \in Range(queue) : Priority(e) <= Priority(queue[worst])
            BY <1>3, WorstIsLeastImportant
        <2>2. Len(queue') = Len(queue) /\ Range(queue') \subseteq Range(queue) \cup {event}
            <3>1. Len([queue EXCEPT ![worst] = event]) = Len(queue)
                BY <2>1, ExceptSeq
            <3>2. Range(queue') \subseteq Range(queue) \cup {event}
                BY EnqueueTypes
            <3> QED BY <1>3, <3>1, <3>2
        <2>3. Len(queue) = QueueCapacity /\ \A e \in Range(queue) : Important(e)
            <3>1. CASE "NoteOff" \in lost
                BY <3>1 DEF FullOfReleases
            <3>2. CASE queue[worst].type = "NoteOff"
                <4>1. Priority(queue[worst]) = 3 /\ event.type = "AllNotesOff"
                    BY <1>3, <2>1, <3>2, Priorities
                <4>2. Len(queue) = QueueCapacity
                    BY <1>1, <1>3, <4>1 DEF ReleaseCritical
                <4> QED BY <2>1, <4>1, <4>2 DEF Important
            <3> QED BY <1>3, <3>1, <3>2
        <2>4. Important(queue[worst])
            BY <2>1, <2>3, RangeOfSequence
        <2>5. Important(event)
            BY <1>3, <2>1, <2>4, Priorities DEF Important
        <2> QED BY <2>2, <2>3, <2>5
    <1>4. ASSUME Len(queue) >= AdmissionLimit(event), NEW worst \in Worst(queue),
                 ~ (Priority(event) < Priority(queue[worst])),
                 queue' = queue, lost' = lost \cup {event.type}
          PROVE  Len(queue') = QueueCapacity /\ \A e \in Range(queue') : Important(e)
        <2>1. /\ queue[worst] \in Events
              /\ \A e \in Range(queue) : e \in Events /\ Priority(e) <= Priority(queue[worst])
            BY <1>4, WorstIsLeastImportant, RangeOfSequence
        <2>2. CASE "NoteOff" \in lost
            BY <1>4, <2>2 DEF FullOfReleases
        <2>3. CASE event.type = "NoteOff"
            <3>1. Len(queue) = QueueCapacity
                BY <1>1, <1>4, <2>3 DEF ReleaseCritical
            <3>2. Priority(queue[worst]) <= 3
                BY <1>4, <2>1, <2>3, Priorities
            <3>3. ASSUME NEW e \in Range(queue)
                  PROVE  Important(e)
                BY <2>1, <3>2, <3>3, Priorities DEF Important
            <3> QED BY <1>4, <3>1, <3>3
        <2> QED BY <1>4, <2>2, <2>3
    <1> QED BY <1>2, <1>3, <1>4 DEF Enqueue

LEMMA StagesNext ==
    ASSUME Stages, [Next]_vars
    PROVE  Stages'
    <1>1. ASSUME NEW type \in Types, NEW sample \in Samples, Push(type, sample)
          PROVE  Stages'
        BY <1>1 DEF Push, Stages
    <1>2. CASE Consume \/ MergeEvent \/ FlushNode \/ FlushSpill \/ FlushFallback
        BY <1>2 DEF Consume, MergeEvent, FlushNode, FlushSpill, FlushFallback, Stages
    <1>3. CASE Swap \/ EndBlock \/ UNCHANGED vars
        BY <1>3 DEF Swap, EndBlock, Stages, vars
    <1>4. CASE Dispatch
        BY <1>4 DEF Dispatch, Stages
    <1> QED BY <1>1, <1>2, <1>3, <1>4 DEF Next

LEMMA LossInvNext ==
    ASSUME LossInv, [Next]_vars
    PROVE  LossInv'
    <1> SUFFICES FullOfReleases'
        BY TypeInvNext, StagesNext DEF LossInv
    <1>2. queue \in Seq(Events) /\ lost \subseteq Types /\ Len(queue) <= QueueCapacity
        BY DEF LossInv, TypeInv, Fields, Queues
    <1>3. Range(<<>>) = {}
        BY DEF Range
    <1>4. ASSUME NEW type \in Types, NEW sample \in Samples, Push(type, sample)
          PROVE  FullOfReleases'
        BY <1>4 DEF Push, LossInv, FullOfReleases
    <1>5. CASE Consume
        BY <1>5 DEF Consume, FullOfReleases
    <1>6. ASSUME stage = "merge", block' = block, NEW event \in Events, Enqueue(event)
          PROVE  FullOfReleases'
        BY <1>2, <1>6, EnqueueKeepsReleases DEF LossInv, Stages
    <1>7. CASE MergeEvent
        <2>1. PICK event \in lanes : Enqueue([event EXCEPT !.arrival = count.arrivals])
            BY <1>7 DEF MergeEvent
        <2>2. [event EXCEPT !.arrival = count.arrivals] \in Events
            BY NumberedEvent DEF LossInv, TypeInv, Fields
        <2> QED BY <1>6, <1>7, <2>1, <2>2 DEF MergeEvent
    <1>8. CASE FlushNode
        <2>1. Head(nodes) \in Events /\ Enqueue(Head(nodes))
            BY <1>8, HeadAndTail DEF LossInv, TypeInv, Queues, FlushNode
        <2> QED BY <1>6, <1>8, <2>1 DEF FlushNode
    <1>9. CASE FlushSpill
        <2>1. Head(spill) \in Events /\ Enqueue(Head(spill))
            BY <1>9, HeadAndTail DEF LossInv, TypeInv, Queues, FlushSpill
        <2> QED BY <1>6, <1>9, <2>1 DEF FlushSpill
    <1>10. CASE FlushFallback
        <2>1. PICK type \in Types : Enqueue(Fallback(type))
            BY <1>10 DEF FlushFallback, Types
        <2> QED BY <1>6, <1>10, <2>1, FallbackIsEvent DEF FlushFallback
    <1>11. CASE Swap
        BY <1>3, <1>11 DEF Swap, LossInv, FullOfReleases
    <1>12. CASE Dispatch
        BY <1>12 DEF Dispatch, LossInv, FullOfReleases
    <1>13. CASE EndBlock \/ UNCHANGED vars
        BY <1>13 DEF EndBlock, vars, LossInv, FullOfReleases
    <1> QED BY <1>4, <1>5, <1>7, <1>8, <1>9, <1>10, <1>11, <1>12, <1>13 DEF Next

LEMMA LossInvInit ==
    ASSUME Init
    PROVE  LossInv
    BY TypeInvInit DEF Init, LossInv, Stages, FullOfReleases

THEOREM LossInvAlways == Spec => []LossInv
    BY LossInvInit, LossInvNext, PTL DEF Spec

LEMMA LossInvImpliesReleasesOutliveNotes ==
    ASSUME LossInv
    PROVE  ReleasesOutliveNotes
    <1>1. \A event \in Range(queue) \cup block : event \in Events
        BY RangeOfSequence DEF LossInv, TypeInv, Fields, Queues
    <1> QED BY <1>1, Priorities DEF LossInv, FullOfReleases, ReleasesOutliveNotes

\* A block that lost a release has no note left, whatever the sizes of lanes, overflow
\* and queue and whatever the reserve.
THEOREM ReleasesLast == Spec => []ReleasesOutliveNotes
    BY LossInvAlways, LossInvImpliesReleasesOutliveNotes, PTL

-----------------------------------------------------------------------------
(* SourceOrder.                                                            *)

\* The counter of arrivals does not start again.
CountersDoNotWrap == MaxPushes + 1 < CounterLimit

\* The events that went through a lane and are in the queue or in the block.
Merged == {e \in Range(queue) \cup block : e.n # 0 /\ e.n \notin strayed}

\* What overflowed a lane is known by its number.
Strays ==
    /\ strayed \subseteq 1 .. input.n
    /\ \A e \in lanes : e.n \notin strayed
    /\ \A e \in Range(nodes) \cup Range(spill) : e.n \in strayed

\* What is played left nothing to merge.
LanesMerged == stage = "play" => lanes = {}

\* What is merged comes before what is not, in time, number and arrival.
MergeOrder ==
    /\ \A a \in Merged, b \in lanes : Source(a) = Source(b) => MergedBefore(a, b)
    /\ stage = "merge" => \A a \in Merged : a.arrival < count.arrivals
    /\ count.arrivals + Cardinality(lanes) <= input.n + 1

\* Pushes with their samples in order arrive in that order.
ArrivalOrder ==
    \A a, b \in Merged : Source(a) = Source(b) /\ a.n < b.n /\ a.sample <= b.sample =>
        a.arrival < b.arrival

OrderInv == TypeInv /\ Stages /\ Strays /\ LanesMerged /\ MergeOrder /\ ArrivalOrder

LEMMA OrderInvInit ==
    ASSUME Init
    PROVE  OrderInv
    <1>1. TypeInv /\ Stages
        BY TypeInvInit DEF Init, Stages
    <1>2. Range(<<>>) = {} /\ Cardinality({}) = 0
        BY FS_EmptySet DEF Range
    <1>3. Merged = {} /\ lanes = {}
        BY <1>2 DEF Init, Merged
    <1>4. Strays
        BY <1>2 DEF Init, Strays
    <1>5. LanesMerged /\ MergeOrder /\ ArrivalOrder
        BY <1>2, <1>3 DEF Init, LanesMerged, MergeOrder, ArrivalOrder
    <1> QED BY <1>1, <1>4, <1>5 DEF OrderInv

\* The fields of an event are numbers.
LEMMA EventFields ==
    ASSUME NEW event \in Events
    PROVE  /\ event.n \in Nat /\ event.sample \in Nat /\ event.arrival \in Nat
    BY CapacityAssumption DEF Events, Samples, Unresolved, Arrivals

LEMMA MergedAreEvents ==
    ASSUME TypeInv
    PROVE  Merged \subseteq Events /\ lanes \subseteq Events
    BY RangeOfSequence DEF TypeInv, Fields, Queues, Merged

\* The order of the merge is total on the events of a source.
LEMMA MergedBeforeIsTotal ==
    ASSUME NEW a \in Events, NEW b \in Events, Source(a) = Source(b), a.n # b.n,
           ~ MergedBefore(b, a)
    PROVE  MergedBefore(a, b)
    BY EventFields, SourceType DEF MergedBefore, Sources

\* Outside a merge a step that adds nothing to the queue and the block keeps the orders.
LEMMA FewerMerged ==
    ASSUME OrderInv, Merged' \subseteq Merged, lanes' = lanes, count'.arrivals = count.arrivals,
           input' = input, stage' = stage
    PROVE  LanesMerged' /\ MergeOrder' /\ ArrivalOrder'
    <1>1. LanesMerged'
        BY DEF OrderInv, LanesMerged
    <1>2. MergeOrder'
        BY DEF OrderInv, MergeOrder, MergedBefore, Source
    <1>3. ArrivalOrder'
        BY DEF OrderInv, ArrivalOrder, Source
    <1> QED BY <1>1, <1>2, <1>3

LEMMA OrderInvPush ==
    ASSUME OrderInv, NEW type \in Types, NEW sample \in Samples, Push(type, sample)
    PROVE  Strays' /\ LanesMerged' /\ MergeOrder' /\ ArrivalOrder'
    <1> DEFINE event == [n |-> input.n + 1, type |-> type, sample |-> sample, arrival |-> 0]
    <1>1. event.n = input.n + 1 /\ input.n \in Nat /\ event \in Events
        BY CapacityAssumption DEF Push, OrderInv, TypeInv, Fields, Samples, Unresolved, Events, Arrivals
    <1>2. /\ stage = "fill" /\ stage' = "fill" /\ queue' = queue /\ block' = block
          /\ input'.n = input.n + 1
          /\ ToLane(event)
          /\ strayed' = IF event \in lanes' THEN strayed ELSE strayed \cup {event.n}
        BY DEF Push, OrderInv, TypeInv, Fields
    <1>3. queue = <<>> /\ block = {} /\ Range(<<>>) = {}
        BY <1>2 DEF OrderInv, Stages, Range
    <1>4. Merged = {} /\ Merged' = {}
        BY <1>2, <1>3 DEF Merged
    <1>5. IsFiniteSet(lanes) /\ (\A e \in lanes : e.n \in 1 .. input.n) /\ event \notin lanes
        BY <1>1 DEF OrderInv, TypeInv, Lanes, Numbered
    <1>6. strayed \subseteq 1 .. input.n /\ event.n \notin strayed
        BY <1>1 DEF OrderInv, Strays
    <1>8. /\ count.arrivals + Cardinality(lanes) <= input.n + 1
          /\ Cardinality(lanes) \in Nat /\ count.arrivals \in Nat
        BY <1>5, FS_CardinalityType, CapacityAssumption
           DEF OrderInv, LanesMerged, MergeOrder, TypeInv, Fields, Arrivals
    <1>9. CASE /\ lanes' = lanes \cup {event} /\ UNCHANGED <<nodes, count, spill>>
        <2>1. strayed' = strayed
            BY <1>2, <1>9
        <2>2. Strays'
            BY <1>1, <1>2, <1>6, <1>9, <2>1 DEF OrderInv, Strays
        <2>5. LanesMerged'
            BY <1>2 DEF LanesMerged
        <2>6. Cardinality(lanes') = Cardinality(lanes) + 1
            BY <1>5, <1>9, FS_AddElement
        <2>7. MergeOrder'
            BY <1>1, <1>2, <1>4, <1>8, <1>9, <2>6 DEF MergeOrder
        <2> QED BY <1>4, <2>2, <2>5, <2>7 DEF ArrivalOrder
    <1>10. CASE Overflow(event) /\ lanes' = lanes
        <2>1. strayed' = strayed \cup {event.n}
            BY <1>2, <1>5, <1>10
        <2>2. \A e \in Range(nodes)' \cup Range(spill)' : e.n \in strayed'
            <3>1. \A e \in Range(nodes) \cup Range(spill) : e.n \in strayed
                BY DEF OrderInv, Strays
            <3>2. CASE nodes' = <<[event EXCEPT !.arrival = count.sequence]>> \o nodes /\ spill' = spill
                <4> DEFINE first == [event EXCEPT !.arrival = count.sequence]
                <4>1. first \in Events /\ first.n = event.n
                    BY <1>1, NumberedEvent DEF OrderInv, TypeInv, Fields
                <4>2. nodes \in Seq(Events) /\ <<first>> \in Seq(Events) /\ Len(<<first>>) = 1
                    BY <4>1 DEF OrderInv, TypeInv, Queues
                <4>3. /\ nodes' \in Seq(Events) /\ Len(nodes') = 1 + Len(nodes)
                      /\ \A i \in 1 .. 1 + Len(nodes) :
                             nodes'[i] = IF i <= 1 THEN <<first>>[i] ELSE nodes[i - 1]
                    BY <3>2, <4>2, ConcatProperties
                <4>4. ASSUME NEW e \in Range(nodes)'
                      PROVE  e.n \in strayed'
                    <5>1. PICK i \in 1 .. 1 + Len(nodes) : e = nodes'[i]
                        BY <4>3, RangeOfSequence
                    <5>2. CASE i <= 1
                        BY <4>1, <4>3, <5>1, <5>2, <2>1
                    <5>3. CASE ~ (i <= 1)
                        <6>1. Len(nodes) \in Nat
                            BY <4>2, LenProperties
                        <6>2. i - 1 \in 1 .. Len(nodes) /\ e = nodes[i - 1]
                            BY <4>3, <5>1, <5>3, <6>1
                        <6> QED BY <6>2, <4>2, <2>1, <3>1, RangeOfSequence
                    <5> QED BY <5>2, <5>3
                <4> QED BY <3>1, <3>2, <4>4, <2>1
            <3>3. CASE spill' = Append(spill, event) /\ nodes' = nodes
                <4>1. spill \in Seq(Events)
                    BY DEF OrderInv, TypeInv, Queues
                <4>2. /\ spill' \in Seq(Events) /\ Len(spill') = Len(spill) + 1
                      /\ \A i \in 1 .. Len(spill) : spill'[i] = spill[i]
                      /\ spill'[Len(spill) + 1] = event
                    BY <1>1, <3>3, <4>1, AppendProperties
                <4>3. ASSUME NEW e \in Range(spill)'
                      PROVE  e.n \in strayed'
                    <5>1. PICK i \in 1 .. Len(spill) + 1 : e = spill'[i]
                        BY <4>2, RangeOfSequence
                    <5>2. CASE i = Len(spill) + 1
                        BY <4>2, <5>1, <5>2, <2>1
                    <5>3. CASE i # Len(spill) + 1
                        <6>1. i \in 1 .. Len(spill) /\ e = spill[i]
                            BY <4>1, <4>2, <5>1, <5>3, LenProperties
                        <6> QED BY <6>1, <4>1, <2>1, <3>1, RangeOfSequence
                    <5> QED BY <5>2, <5>3
                <4> QED BY <3>1, <3>3, <4>3, <2>1
            <3>4. CASE nodes' = nodes /\ spill' = spill
                BY <3>1, <3>4, <2>1
            <3> QED BY <1>10, <3>2, <3>3, <3>4 DEF Overflow
        <2>3. Strays'
            <3>1. strayed' \subseteq 1 .. input'.n
                <4>1. event.n \in 1 .. input.n + 1 /\ 1 .. input.n \subseteq 1 .. input.n + 1
                    BY <1>1
                <4> HIDE DEF event
                <4> QED BY <1>2, <1>6, <2>1, <4>1
            <3>2. \A e \in lanes' : e.n \notin strayed'
                BY <1>1, <1>5, <1>10, <2>1 DEF OrderInv, Strays
            <3> QED BY <2>2, <3>1, <3>2 DEF Strays
        <2>4. LanesMerged'
            BY <1>2 DEF LanesMerged
        <2>5. count'.arrivals = count.arrivals
            BY <1>10 DEF Overflow, OrderInv, TypeInv, Fields
        <2>6. MergeOrder'
            BY <1>1, <1>2, <1>4, <1>8, <1>10, <2>5 DEF MergeOrder
        <2> QED BY <1>4, <2>3, <2>4, <2>6 DEF ArrivalOrder
    <1> QED BY <1>2, <1>9, <1>10 DEF ToLane

LEMMA OrderInvMergeEvent ==
    ASSUME OrderInv, CountersDoNotWrap, MergeEvent
    PROVE  Strays' /\ LanesMerged' /\ MergeOrder' /\ ArrivalOrder'
    <1>1. PICK event \in lanes :
              /\ \A other \in lanes : ~ MergedBefore(other, event)
              /\ lanes' = lanes \ {event}
              /\ count' = [count EXCEPT !.arrivals = After(@)]
              /\ Enqueue([event EXCEPT !.arrival = count.arrivals])
        BY DEF MergeEvent
    <1>2. stage = "merge" /\ stage' = "merge" /\ UNCHANGED <<input, nodes, spill, block, strayed>>
        BY DEF MergeEvent
    <1> DEFINE next == [event EXCEPT !.arrival = count.arrivals]
    <1>3. /\ event \in Events /\ next \in Events /\ next.n = event.n /\ next.type = event.type
          /\ next.sample = event.sample /\ next.arrival = count.arrivals
          /\ count.arrivals \in Nat
        BY <1>1, NumberedEvent DEF OrderInv, TypeInv, Fields, Arrivals
    <1>4. Source(next) = Source(event)
        BY <1>3 DEF Source
    <1> HIDE DEF next
    <1>5. /\ Merged' \subseteq Merged \cup {next}
          /\ Merged \subseteq Events /\ lanes \subseteq Events
        <2>1. Range(queue') \subseteq Range(queue) \cup {next}
            BY <1>1, <1>3, EnqueueTypes DEF OrderInv, TypeInv, Fields, Queues, next
        <2>2. Merged' \subseteq Merged \cup {next}
            BY <1>2, <2>1 DEF Merged
        <2> QED BY <2>2, MergedAreEvents DEF OrderInv
    <1>6. IsFiniteSet(lanes) /\ \A a, b \in lanes : a.n = b.n => a = b
        BY DEF OrderInv, TypeInv, Lanes, Numbered
    <1>7. Strays'
        BY <1>1, <1>2 DEF OrderInv, Strays
    <1>8. LanesMerged'
        BY <1>2 DEF LanesMerged
    <1>9. Cardinality(lanes') = Cardinality(lanes) - 1 /\ Cardinality(lanes) \in Nat \ {0}
        <2>1. Cardinality(lanes) # 0
            BY <1>1, <1>6, FS_EmptySet
        <2> QED BY <1>1, <1>6, <2>1, FS_RemoveElement, FS_CardinalityType
    <1>10. count'.arrivals = count.arrivals + 1
        <2>1. count.arrivals + Cardinality(lanes) <= input.n + 1 /\ input.n \in Nat /\ input.n <= MaxPushes
            BY BoundAssumption DEF OrderInv, MergeOrder, TypeInv, Fields
        <2>2. After(count.arrivals) = count.arrivals + 1
            BY <1>3, <1>9, <2>1, BoundAssumption, CapacityAssumption DEF After, CountersDoNotWrap
        <2> QED BY <1>1, <2>2 DEF OrderInv, TypeInv, Fields
    <1>11. MergeOrder'
        <2>1. \A a \in Merged : Source(a) = Source(event) => MergedBefore(a, event)
            BY <1>1 DEF OrderInv, MergeOrder
        <2>2. ASSUME NEW a \in Merged', NEW b \in lanes', Source(a) = Source(b)
              PROVE  MergedBefore(a, b)
            <3>1. CASE a \in Merged
                BY <1>1, <2>2, <3>1 DEF OrderInv, MergeOrder
            <3>2. CASE a = next
                <4>1. b \in lanes /\ b # event /\ b.n # event.n /\ ~ MergedBefore(b, event)
                    BY <1>1, <1>6
                <4>2. MergedBefore(event, b)
                    BY <1>3, <1>4, <1>5, <2>2, <3>2, <4>1, MergedBeforeIsTotal
                <4> QED BY <1>3, <1>4, <3>2, <4>2 DEF MergedBefore
            <3> QED BY <1>5, <3>1, <3>2
        <2>3. ASSUME NEW a \in Merged'
              PROVE  a.arrival < count'.arrivals
            <3>1. CASE a \in Merged
                BY <1>2, <1>3, <1>5, <1>10, <3>1, EventFields DEF OrderInv, MergeOrder
            <3>2. CASE a = next
                BY <1>3, <1>10, <3>2
            <3> QED BY <1>5, <3>1, <3>2
        <2>4. count'.arrivals + Cardinality(lanes') <= input'.n + 1
            BY <1>2, <1>3, <1>9, <1>10 DEF OrderInv, MergeOrder
        <2>5. \A a \in Merged', b \in lanes' : Source(a) = Source(b) => MergedBefore(a, b)
            BY <2>2
        <2> QED BY <2>3, <2>4, <2>5 DEF MergeOrder, Source, MergedBefore
    <1>12. ASSUME NEW a \in Merged', NEW b \in Merged', Source(a) = Source(b), a.n < b.n,
                  a.sample <= b.sample
           PROVE  a.arrival < b.arrival
        <2>1. CASE a \in Merged /\ b \in Merged
            BY <1>12, <2>1 DEF OrderInv, ArrivalOrder
        <2>2. CASE a \in Merged /\ b = next
            BY <1>2, <1>3, <2>2 DEF OrderInv, MergeOrder
        <2>3. CASE a = next /\ b \in Merged
            <3>1. MergedBefore(b, event)
                BY <1>1, <1>4, <1>12, <2>3 DEF OrderInv, MergeOrder
            <3>2. Source(b) = Source(event) /\ event.n < b.n /\ event.sample <= b.sample /\ b \in Events
                BY <1>3, <1>4, <1>5, <1>12, <2>3
            <3> QED BY <1>3, <3>1, <3>2, EventFields, SourceType DEF MergedBefore, Sources
        <2>4. CASE a = next /\ b = next
            BY <1>3, <1>12, <2>4, EventFields
        <2> QED BY <1>5, <2>1, <2>2, <2>3, <2>4
    <1>13. ArrivalOrder'
        BY <1>12 DEF ArrivalOrder, Source
    <1> QED BY <1>7, <1>8, <1>11, <1>13

\* What comes from the nodes, the spill array and the latches went through no lane.
LEMMA OrderInvFlush ==
    ASSUME OrderInv, NEW event \in Events, Enqueue(event), event.n \in strayed \cup {0},
           UNCHANGED <<stage, input, lanes, block, strayed>>, count' = count
    PROVE  LanesMerged' /\ MergeOrder' /\ ArrivalOrder'
    <1>1. Range(queue') \subseteq Range(queue) \cup {event}
        BY EnqueueTypes DEF OrderInv, TypeInv, Fields, Queues
    <1>2. Merged' \subseteq Merged
        BY <1>1 DEF Merged
    <1> QED BY <1>2, FewerMerged

LEMMA OrderInvNext ==
    ASSUME OrderInv, CountersDoNotWrap, [Next]_vars
    PROVE  OrderInv'
    <1> SUFFICES Strays' /\ LanesMerged' /\ MergeOrder' /\ ArrivalOrder'
        BY TypeInvNext, StagesNext DEF OrderInv
    <1>1. ASSUME NEW type \in Types, NEW sample \in Samples, Push(type, sample)
          PROVE  Strays' /\ LanesMerged' /\ MergeOrder' /\ ArrivalOrder'
        BY <1>1, OrderInvPush
    <1>2. CASE Consume
        <2>1. queue = <<>> /\ block = {} /\ Range(<<>>) = {}
            BY <1>2 DEF Consume, OrderInv, Stages, Range
        <2>2. Merged = {} /\ Merged' = {}
            BY <1>2, <2>1 DEF Consume, Merged
        <2>3. input'.n = input.n
            BY <1>2 DEF Consume, OrderInv, TypeInv, Fields
        <2>4. Strays'
            BY <1>2, <2>3 DEF Consume, OrderInv, Strays
        <2>5. LanesMerged' /\ MergeOrder' /\ ArrivalOrder'
            BY <1>2, <2>2, <2>3 DEF Consume, OrderInv, LanesMerged, MergeOrder, ArrivalOrder
        <2> QED BY <2>4, <2>5
    <1>3. CASE MergeEvent
        BY <1>3, OrderInvMergeEvent
    <1>4. CASE FlushNode
        <2>1. /\ Head(nodes) \in Events /\ Head(nodes) \in Range(nodes)
              /\ Range(Tail(nodes)) \subseteq Range(nodes)
            BY <1>4, HeadAndTail DEF FlushNode, OrderInv, TypeInv, Queues
        <2>2. Head(nodes).n \in strayed
            BY <2>1 DEF OrderInv, Strays
        <2>3. Strays'
            BY <1>4, <2>1 DEF FlushNode, OrderInv, Strays
        <2> QED BY <1>4, <2>1, <2>2, <2>3, OrderInvFlush DEF FlushNode
    <1>5. CASE FlushSpill
        <2>1. /\ Head(spill) \in Events /\ Head(spill) \in Range(spill)
              /\ Range(Tail(spill)) \subseteq Range(spill)
            BY <1>5, HeadAndTail DEF FlushSpill, OrderInv, TypeInv, Queues
        <2>2. Head(spill).n \in strayed
            BY <2>1 DEF OrderInv, Strays
        <2>3. Strays'
            BY <1>5, <2>1 DEF FlushSpill, OrderInv, Strays
        <2> QED BY <1>5, <2>1, <2>2, <2>3, OrderInvFlush DEF FlushSpill
    <1>6. CASE FlushFallback
        <2>1. PICK type \in Types : Enqueue(Fallback(type))
            BY <1>6 DEF FlushFallback, Types
        <2>2. Fallback(type) \in Events /\ Fallback(type).n = 0
            BY FallbackIsEvent DEF Fallback
        <2>3. Strays'
            BY <1>6 DEF FlushFallback, OrderInv, Strays
        <2> QED BY <1>6, <2>1, <2>2, <2>3, OrderInvFlush DEF FlushFallback
    <1>7. CASE Swap
        <2>1. Range(<<>>) = {} /\ block = {}
            BY <1>7 DEF Swap, OrderInv, Stages, Range
        <2>2. Merged' = Merged /\ lanes = {} /\ lanes' = {}
            BY <1>7, <2>1 DEF Swap, Merged
        <2>3. count'.arrivals = count.arrivals /\ stage' = "play" /\ input' = input
            BY <1>7 DEF Swap, OrderInv, TypeInv, Fields
        <2>4. Strays'
            BY <1>7 DEF Swap, OrderInv, Strays
        <2>5. LanesMerged' /\ MergeOrder'
            BY <2>2, <2>3 DEF OrderInv, LanesMerged, MergeOrder
        <2>6. ArrivalOrder'
            BY <2>2 DEF OrderInv, ArrivalOrder
        <2> QED BY <2>4, <2>5, <2>6
    <1>8. CASE Dispatch
        <2>1. Merged' \subseteq Merged
            BY <1>8 DEF Dispatch, Merged
        <2>2. Strays'
            BY <1>8 DEF Dispatch, OrderInv, Strays
        <2> QED BY <1>8, <2>1, <2>2, FewerMerged DEF Dispatch
    <1>9. CASE EndBlock
        <2>1. Range(<<>>) = {} /\ queue = <<>> /\ block = {} /\ lanes = {}
            BY <1>9 DEF EndBlock, OrderInv, Stages, LanesMerged, Range
        <2>2. Merged = {} /\ Merged' = {}
            BY <1>9, <2>1 DEF EndBlock, Merged
        <2>3. Strays'
            BY <1>9 DEF EndBlock, OrderInv, Strays
        <2>4. LanesMerged' /\ MergeOrder' /\ ArrivalOrder'
            BY <1>9, <2>1, <2>2 DEF EndBlock, OrderInv, LanesMerged, MergeOrder, ArrivalOrder
        <2> QED BY <2>3, <2>4
    <1>10. CASE UNCHANGED vars
        <2>1. Merged' = Merged /\ Strays'
            BY <1>10 DEF vars, OrderInv, Merged, Strays
        <2> QED BY <1>10, <2>1, FewerMerged DEF vars
    <1> QED BY <1>1, <1>2, <1>3, <1>4, <1>5, <1>6, <1>7, <1>8, <1>9, <1>10 DEF Next

LEMMA OrderInvImpliesSourceOrder ==
    ASSUME OrderInv
    PROVE  SourceOrder
    <1> SUFFICES ASSUME NEW a \in block, NEW b \in block, a.n \in 1 .. b.n - 1,
                        Source(a) = Source(b), {a.n, b.n} \cap strayed = {}, a.sample <= b.sample,
                        Time(a) <= Time(b)
                 PROVE  ~ Before(b, a)
        BY DEF SourceOrder
    <1>1. a \in Events /\ b \in Events
        BY DEF OrderInv, TypeInv, Fields
    <1>2. a.n < b.n /\ a \in Merged /\ b \in Merged
        BY <1>1, EventFields DEF Merged
    <1>3. a.arrival < b.arrival
        BY <1>2 DEF OrderInv, ArrivalOrder
    <1>4. Kill(a) <=> Kill(b)
        BY DEF Source, Kill
    <1>5. Time(a) \in Nat /\ Time(b) \in Nat
        BY <1>1, EventFields DEF Time
    <1>6. CASE Time(a) < Time(b)
        BY <1>5, <1>6 DEF Before
    <1>7. CASE Time(a) = Time(b)
        BY <1>1, <1>3, <1>4, <1>5, <1>7, EventFields DEF Before
    <1> QED BY <1>5, <1>6, <1>7

\* Events of one source that went through its lane are dispatched in the order in which
\* they were pushed, as long as their samples are in that order when they are pushed and
\* when they are played, and the counter of arrivals does not wrap around.
THEOREM SourcesInOrder ==
    ASSUME CountersDoNotWrap
    PROVE  Spec => []SourceOrder
    <1>1. Init => OrderInv
        BY OrderInvInit
    <1>2. OrderInv /\ [Next]_vars => OrderInv'
        BY OrderInvNext
    <1>3. OrderInv => SourceOrder
        BY OrderInvImpliesSourceOrder
    <1> QED BY <1>1, <1>2, <1>3, PTL DEF Spec
-----------------------------------------------------------------------------
(* ReleaseSilences.                                                        *)

\* What waits outside the lanes: nothing while the block is played; what is in the spill
\* array has no number yet.
Backlog ==
    /\ stage = "play" => nodes = <<>> /\ spill = <<>>
    /\ \A e \in Range(spill) : e.arrival = 0
    /\ count.arrivals >= 1

\* The notes that may still sound.
Notes == {e \in lanes \cup Range(nodes) \cup Range(spill) \cup Range(queue) \cup block : e.type = "NoteOn"}

\* The first is not played later than the second, in whatever way the block is rendered.
InTime(note, release) ==
    /\ note.sample <= release.sample
    /\ release.sample = Unresolved => note.sample \notin 1 .. Frames - 1

\* The events of the lanes that are merged before this one.
Earlier(event) == {e \in lanes : MergedBefore(e, event)}

\* A release in a lane that will be numbered after every note.
ReleaseToMerge(release) ==
    /\ release.type = "NoteOff"
    /\ \A note \in Notes : InTime(note, release)
    /\ \A note \in Notes \cap lanes : MergedBefore(note, release)
    /\ \A note \in Notes \cap Range(queue) : note.arrival < count.arrivals
    /\ \A note \in Notes \cap (Range(nodes) \cup Range(spill)) :
          note.arrival < count.arrivals + Cardinality(Earlier(release))

\* A release in the queue or the block that is dispatched after every note.
MergedRelease(release) ==
    /\ release.type = "NoteOff"
    /\ \A note \in Notes : note \notin lanes /\ InTime(note, release) /\ note.arrival < release.arrival

Silenced ==
    \/ ~ key.sounds /\ Notes = {}
    \/ \E release \in lanes : ReleaseToMerge(release)
    \/ \E release \in Range(queue) \cup block : MergedRelease(release)

\* A key that went up is silent, or its release is on its way behind every note.
UpIsSilenced ==
    ~ key.down /\ ~ key.astray /\ (stage # "fill" => "NoteOff" \notin lost) => Silenced

SilenceInv == OrderInv /\ Backlog /\ UpIsSilenced

\* The union of what waits and what is played, place by place.
LEMMA NotesAreEvents ==
    ASSUME TypeInv
    PROVE  /\ \A note \in Notes : note \in Events /\ note.type = "NoteOn"
           /\ lanes \subseteq Events /\ block \subseteq Events
           /\ Range(nodes) \subseteq Events /\ Range(spill) \subseteq Events /\ Range(queue) \subseteq Events
    <1>1. /\ lanes \subseteq Events /\ block \subseteq Events
          /\ Range(nodes) \subseteq Events /\ Range(spill) \subseteq Events /\ Range(queue) \subseteq Events
        BY RangeOfSequence DEF TypeInv, Fields, Queues
    <1> QED BY <1>1 DEF Notes

\* A note that is in time and has a smaller number than a release is dispatched before it.
LEMMA InTimeBefore ==
    ASSUME NEW note \in Events, NEW release \in Events, note.type = "NoteOn", release.type = "NoteOff",
           InTime(note, release), note.arrival < release.arrival
    PROVE  Before(note, release)
    <1>1. /\ note.sample \in 0 .. Frames /\ release.sample \in 0 .. Frames /\ Frames \in Nat
          /\ note.arrival \in Nat /\ release.arrival \in Nat
        BY CapacityAssumption, EventFields DEF Events, Samples
    <1>2. Time(note) \in Nat /\ Time(release) \in Nat /\ Time(note) <= Time(release)
        BY <1>1 DEF Time, InTime, Unresolved
    <1>3. ~ Kill(note) /\ ~ Kill(release)
        BY DEF Kill
    <1>4. CASE Time(note) < Time(release)
        BY <1>4 DEF Before
    <1>5. CASE Time(note) = Time(release)
        BY <1>3, <1>5 DEF Before
    <1> QED BY <1>2, <1>4, <1>5

\* An event that is no note adds no note to the queue, and what the queue gives up is no
\* release as long as no release is lost.
LEMMA EnqueueKeeps ==
    ASSUME queue \in Seq(Events), lost \subseteq Types, Len(queue) <= QueueCapacity,
           NEW event \in Events, Enqueue(event), "NoteOff" \notin lost'
    PROVE  /\ "NoteOff" \notin lost
           /\ \A release \in Range(queue) : release.type = "NoteOff" => release \in Range(queue')
           /\ event.type = "NoteOff" => event \in Range(queue')
    <1>0. Len(queue) \in Nat
        BY LenProperties
    <1>1. CASE Len(queue) < AdmissionLimit(event) /\ queue' = Append(queue, event) /\ lost' = lost
        <2>1. /\ queue' \in Seq(Events) /\ Len(queue') = Len(queue) + 1
              /\ \A i \in 1 .. Len(queue) : queue'[i] = queue[i]
              /\ queue'[Len(queue) + 1] = event
            BY <1>1, AppendProperties
        <2>2. \A i \in 1 .. Len(queue') : queue'[i] \in Range(queue')
            BY <2>1, RangeOfSequence
        <2>3. event \in Range(queue')
            <3>1. Len(queue) + 1 \in 1 .. Len(queue')
                BY <1>0, <2>1
            <3> QED BY <2>1, <2>2, <3>1
        <2>4. ASSUME NEW release \in Range(queue)
              PROVE  release \in Range(queue')
            <3>1. PICK i \in 1 .. Len(queue) : release = queue[i]
                BY RangeOfSequence
            <3>2. i \in 1 .. Len(queue') /\ release = queue'[i]
                BY <1>0, <2>1, <3>1
            <3> QED BY <2>2, <3>2
        <2> QED BY <1>1, <2>3, <2>4
    <1>2. ASSUME NEW worst \in Worst(queue), queue' = [queue EXCEPT ![worst] = event],
                 lost' = lost \cup {queue[worst].type}
          PROVE  /\ "NoteOff" \notin lost
                 /\ \A release \in Range(queue) : release.type = "NoteOff" => release \in Range(queue')
                 /\ event.type = "NoteOff" => event \in Range(queue')
        <2>1. worst \in 1 .. Len(queue) /\ queue[worst] \in Events
            BY <1>2, WorstIsLeastImportant
        <2>2. /\ queue' \in Seq(Events) /\ Len(queue') = Len(queue)
              /\ \A i \in 1 .. Len(queue) : queue'[i] = IF i = worst THEN event ELSE queue[i]
            BY <1>2, <2>1, ExceptSeq
        <2>3. \A i \in 1 .. Len(queue') : queue'[i] \in Range(queue')
            BY <2>2, RangeOfSequence
        <2>4. event \in Range(queue')
            BY <2>1, <2>2, <2>3
        <2>5. queue[worst].type # "NoteOff" /\ "NoteOff" \notin lost
            BY <1>2
        <2>6. ASSUME NEW release \in Range(queue), release.type = "NoteOff"
              PROVE  release \in Range(queue')
            <3>1. PICK i \in 1 .. Len(queue) : release = queue[i]
                BY RangeOfSequence
            <3>2. i # worst
                BY <2>5, <2>6, <3>1
            <3> QED BY <2>2, <2>3, <3>1, <3>2
        <2> QED BY <2>4, <2>5, <2>6
    <1>3. CASE queue' = queue /\ lost' = lost \cup {event.type}
        BY <1>3
    <1> QED BY <1>1, <1>2, <1>3 DEF Enqueue

LEMMA SilenceInvInit ==
    ASSUME Init
    PROVE  Backlog /\ UpIsSilenced
    <1>1. Range(<<>>) = {}
        BY DEF Range
    <1>2. Notes = {}
        BY <1>1 DEF Init, Notes
    <1> QED BY <1>1, <1>2 DEF Init, Backlog, UpIsSilenced, Silenced

\* Where an event that overflows can go.
LEMMA OverflowPlaces ==
    ASSUME TypeInv, NEW event \in Events, Overflow(event)
    PROVE  \E node \in Events :
              /\ node.type = event.type /\ node.sample = event.sample
              /\ \A e \in Range(nodes') : e \in Range(nodes) \/ e = node
              /\ \A e \in Range(spill') : e \in Range(spill) \/ e = event
              /\ count'.arrivals = count.arrivals
    <1> DEFINE node == [event EXCEPT !.arrival = count.sequence]
    <1>1. /\ node \in Events /\ node.type = event.type /\ node.sample = event.sample
          /\ count \in [arrivals : Arrivals, sequence : Arrivals]
          /\ nodes \in Seq(Events) /\ spill \in Seq(Events)
        BY NumberedEvent DEF TypeInv, Fields, Queues
    <1>2. Overflow(event) => \/ nodes' = <<node>> \o nodes /\ spill' = spill /\ count' = [count EXCEPT !.sequence = After(@)]
                             \/ nodes' = nodes /\ spill' = Append(spill, event) /\ count' = count
                             \/ nodes' = nodes /\ spill' = spill /\ count' = count
        BY DEF Overflow
    <1> HIDE DEF node
    <1>3. CASE nodes' = <<node>> \o nodes /\ spill' = spill /\ count' = [count EXCEPT !.sequence = After(@)]
        <2>1. <<node>> \in Seq(Events) /\ Len(<<node>>) = 1 /\ <<node>>[1] = node /\ Len(nodes) \in Nat
            BY <1>1, LenProperties
        <2>2. /\ nodes' \in Seq(Events) /\ Len(nodes') = 1 + Len(nodes)
              /\ \A i \in 1 .. 1 + Len(nodes) : nodes'[i] = IF i <= 1 THEN <<node>>[i] ELSE nodes[i - 1]
            BY <1>1, <1>3, <2>1, ConcatProperties
        <2>3. ASSUME NEW e \in Range(nodes')
              PROVE  e \in Range(nodes) \/ e = node
            <3>1. PICK i \in 1 .. 1 + Len(nodes) : e = nodes'[i]
                BY <2>2, RangeOfSequence
            <3>2. CASE i <= 1
                BY <2>1, <2>2, <3>1, <3>2
            <3>3. CASE ~ (i <= 1)
                <4>1. i - 1 \in 1 .. Len(nodes) /\ e = nodes[i - 1]
                    BY <2>1, <2>2, <3>1, <3>3
                <4> QED BY <1>1, <4>1, RangeOfSequence
            <3> QED BY <3>2, <3>3
        <2>4. count'.arrivals = count.arrivals
            BY <1>1, <1>3
        <2> QED BY <1>1, <1>3, <2>3, <2>4
    <1>4. CASE nodes' = nodes /\ spill' = Append(spill, event) /\ count' = count
        <2>1. /\ spill' \in Seq(Events) /\ Len(spill') = Len(spill) + 1 /\ Len(spill) \in Nat
              /\ \A i \in 1 .. Len(spill) : spill'[i] = spill[i]
              /\ spill'[Len(spill) + 1] = event
            BY <1>1, <1>4, AppendProperties, LenProperties
        <2>2. ASSUME NEW e \in Range(spill')
              PROVE  e \in Range(spill) \/ e = event
            <3>1. PICK i \in 1 .. Len(spill) + 1 : e = spill'[i]
                BY <2>1, RangeOfSequence
            <3>2. CASE i = Len(spill) + 1
                BY <2>1, <3>1, <3>2
            <3>3. CASE i # Len(spill) + 1
                <4>1. i \in 1 .. Len(spill) /\ e = spill[i]
                    BY <2>1, <3>1, <3>3
                <4> QED BY <1>1, <4>1, RangeOfSequence
            <3> QED BY <3>2, <3>3
        <2> QED BY <1>1, <1>4, <2>2
    <1>5. CASE nodes' = nodes /\ spill' = spill /\ count' = count
        BY <1>1, <1>5
    <1> QED BY <1>2, <1>3, <1>4, <1>5

\* A larger set of earlier events has no fewer of them.
LEMMA MoreEarlier ==
    ASSUME NEW T, IsFiniteSet(T), NEW S, S \subseteq T
    PROVE  Cardinality(S) \in Nat /\ Cardinality(T) \in Nat /\ Cardinality(S) <= Cardinality(T)
    BY FS_Subset, FS_CardinalityType

LEMMA SilenceInvPush ==
    ASSUME SilenceInv, OrderInv', NEW type \in Types, NEW sample \in Samples, Push(type, sample)
    PROVE  Backlog' /\ UpIsSilenced'
    <1>0. PICK event : event = [n |-> input.n + 1, type |-> type, sample |-> sample, arrival |-> 0]
        OBVIOUS
    <1>1. /\ event.n = input.n + 1 /\ event.sample = sample /\ event.type = type /\ event.arrival = 0
          /\ input.n \in Nat /\ sample \in Nat /\ event \in Events
        BY <1>0, CapacityAssumption
           DEF Push, SilenceInv, OrderInv, TypeInv, Fields, Samples, Unresolved, Events, Arrivals
    <1>2. /\ stage = "fill" /\ stage' = "fill" /\ queue' = queue /\ block' = block
          /\ key'.down = (IF type \in {"NoteOn", "NoteOff"} THEN type = "NoteOn" ELSE key.down)
          /\ key'.astray = (IF type = "NoteOff" THEN event \notin lanes' \/ Overtakes(event) ELSE key.astray)
          /\ key'.sounds = key.sounds
          /\ ToLane(event)
        BY <1>0 DEF Push, SilenceInv, OrderInv, TypeInv, Fields
    <1>3. TypeInv /\ queue = <<>> /\ block = {} /\ Range(<<>>) = {}
        BY <1>2 DEF SilenceInv, OrderInv, Stages, Range
    <1>4. /\ IsFiniteSet(lanes) /\ (\A e \in lanes : e.n \in 1 .. input.n) /\ event \notin lanes
          /\ \A e \in lanes : e \in Events
        BY <1>1, <1>2 DEF SilenceInv, OrderInv, TypeInv, Fields, Lanes, Numbered
    <1>5. IsFiniteSet(lanes') /\ lanes' \subseteq Events
        BY DEF OrderInv, TypeInv, Fields, Lanes, Numbered
    <1>6. /\ \A e \in Range(nodes) \cup Range(spill) : e \in Events
          /\ \A e \in Range(spill) : e.arrival = 0
          /\ count.arrivals >= 1 /\ count.arrivals \in Nat
        <2>1. count.arrivals \in Nat
            BY DEF SilenceInv, OrderInv, TypeInv, Fields, Arrivals
        <2> QED BY <1>2, <1>3, <2>1, NotesAreEvents DEF SilenceInv, Backlog
    <1>7. PICK node \in Events :
              /\ node.type = type /\ node.sample = sample
              /\ \A e \in Range(nodes') : e \in Range(nodes) \/ e = node
              /\ \A e \in Range(spill') : e \in Range(spill) \/ e = event
              /\ count'.arrivals = count.arrivals
              /\ \A e \in lanes' : e \in lanes \/ e = event
              /\ \A e \in lanes : e \in lanes'
        <2>1. CASE lanes' = lanes \cup {event} /\ UNCHANGED <<nodes, count, spill>>
            BY <1>1, <2>1
        <2>2. CASE Overflow(event) /\ lanes' = lanes
            BY <1>1, <1>3, <2>2, OverflowPlaces
        <2> QED BY <1>2, <2>1, <2>2 DEF ToLane
    <1>8. Backlog'
        <2>1. \A e \in Range(spill)' : e.arrival = 0
            BY <1>1, <1>6, <1>7
        <2> QED BY <1>2, <1>6, <1>7, <2>1 DEF Backlog
    <1>9. ASSUME ~ key'.down, ~ key'.astray, type = "NoteOff"
          PROVE  Silenced'
        <2>1. event \in lanes' /\ ~ Overtakes(event)
            BY <1>2, <1>9
        <2>2. lanes' = lanes \cup {event} /\ nodes' = nodes /\ spill' = spill
            BY <1>2, <1>4, <2>1 DEF ToLane
        <2>3. Notes' \subseteq lanes \cup Range(nodes) \cup Range(spill)
            BY <1>1, <1>2, <1>3, <1>9, <2>2 DEF Notes
        <2>4. ASSUME NEW note \in Notes'
              PROVE  note.type = "NoteOn" /\ note \in Events /\ InTime(note, event)
            <3>1. note.type = "NoteOn"
                BY DEF Notes
            <3>2. note \in Events
                BY <1>4, <1>6, <2>3
            <3>3. ~ (event.sample < note.sample)
                BY <2>1, <2>3, <3>1 DEF Overtakes
            <3>4. note.sample <= event.sample
                BY <1>1, <3>2, <3>3, EventFields
            <3>5. event.sample = Unresolved => note.sample \notin 1 .. Frames - 1
                BY <2>1, <2>3, <3>1 DEF Overtakes
            <3> QED BY <3>1, <3>2, <3>4, <3>5 DEF InTime
        <2>5. \A note \in Notes' \cap lanes' : MergedBefore(note, event)
            <3>1. ASSUME NEW note \in Notes' \cap lanes'
                  PROVE  MergedBefore(note, event)
                <4>1. note.type = "NoteOn" /\ note \in Events /\ note.sample <= event.sample
                    BY <2>4 DEF InTime
                <4>2. note \in lanes
                    BY <1>1, <1>7, <1>9, <4>1
                <4>3. note.n < event.n
                    BY <1>1, <1>4, <4>2
                <4>4. Source(event) = 2 /\ Source(note) = 2
                    BY <1>1, <1>9, <4>1 DEF Source
                <4> QED BY <1>1, <4>1, <4>3, <4>4, EventFields DEF MergedBefore
            <3> QED BY <3>1
        <2>6. /\ Cardinality(Earlier(event)') >= Cardinality({other \in lanes : MergedBefore(other, event)})
              /\ Cardinality({other \in lanes : MergedBefore(other, event)}) \in Nat
              /\ Cardinality(Earlier(event)') \in Nat
            <3>1. /\ {other \in lanes : MergedBefore(other, event)} \subseteq Earlier(event)'
                  /\ Earlier(event)' \subseteq lanes'
                BY <2>2 DEF Earlier, MergedBefore, Source
            <3>2. IsFiniteSet(Earlier(event)')
                BY <1>5, <3>1, FS_Subset
            <3> QED BY <3>1, <3>2, MoreEarlier
        <2>7. ASSUME NEW note \in Notes' \cap (Range(nodes) \cup Range(spill))
              PROVE  note.arrival < count.arrivals + Cardinality(Earlier(event)')
            <3>1. note \in Events /\ note.arrival \in Nat
                BY <1>6, EventFields
            <3>2. CASE note \in Range(nodes)
                <4>1. ~ (note.arrival >= count.arrivals
                                         + Cardinality({other \in lanes : MergedBefore(other, event)}))
                    BY <2>1, <2>4, <3>2 DEF Overtakes
                <4> QED BY <1>6, <2>6, <3>1, <4>1
            <3>3. CASE note \in Range(spill)
                BY <1>6, <2>6, <3>3
            <3> QED BY <3>2, <3>3
        <2>8. Notes' \cap Range(queue)' = {}
            BY <1>2, <1>3
        <2>9. ReleaseToMerge(event)'
            <3>1. Range(nodes)' = Range(nodes) /\ Range(spill)' = Range(spill)
                BY <2>2
            <3> QED BY <1>1, <1>7, <1>9, <2>4, <2>5, <2>7, <2>8, <3>1
                    DEF ReleaseToMerge, InTime, MergedBefore, Source
        <2> QED BY <2>1, <2>9 DEF Silenced
    <1>10. ASSUME ~ key'.down, ~ key'.astray, type \notin {"NoteOn", "NoteOff"}
           PROVE  Silenced'
        <2>1. Silenced
            BY <1>2, <1>10 DEF SilenceInv, UpIsSilenced
        <2>2. event.type # "NoteOn" /\ node.type # "NoteOn"
            BY <1>1, <1>7, <1>10
        <2>3. Notes' \subseteq Notes
            BY <1>2, <1>3, <1>7, <2>2 DEF Notes
        <2>4. /\ Notes' \cap lanes' \subseteq Notes \cap lanes
              /\ Notes' \cap (Range(nodes)' \cup Range(spill)') \subseteq Notes \cap (Range(nodes) \cup Range(spill))
              /\ Notes' \cap Range(queue)' = {}
            <3>1. \A note \in Notes' : note.type = "NoteOn"
                BY DEF Notes
            <3> QED BY <1>2, <1>3, <1>7, <2>2, <2>3, <3>1
        <2>5. CASE ~ key.sounds /\ Notes = {}
            BY <1>2, <2>3, <2>5 DEF Silenced
        <2>6. ASSUME NEW release \in lanes, ReleaseToMerge(release)
              PROVE  Silenced'
            <3>1. Cardinality(Earlier(release)) <= Cardinality(Earlier(release)')
                  /\ Cardinality(Earlier(release)) \in Nat /\ Cardinality(Earlier(release)') \in Nat
                <4>1. Earlier(release) \subseteq Earlier(release)' /\ Earlier(release)' \subseteq lanes'
                    BY <1>7 DEF Earlier, MergedBefore, Source
                <4>2. IsFiniteSet(Earlier(release)')
                    BY <1>5, <4>1, FS_Subset
                <4> QED BY <4>1, <4>2, MoreEarlier
            <3>2. ASSUME NEW note \in Notes' \cap (Range(nodes)' \cup Range(spill)')
                  PROVE  note.arrival < count'.arrivals + Cardinality(Earlier(release)')
                <4>1. note \in Notes \cap (Range(nodes) \cup Range(spill))
                    BY <2>4
                <4>2. note.arrival < count.arrivals + Cardinality(Earlier(release)) /\ note \in Events
                    BY <1>3, <2>6, <4>1, NotesAreEvents DEF ReleaseToMerge
                <4> QED BY <1>6, <1>7, <3>1, <4>2, EventFields
            <3>3. ReleaseToMerge(release)'
                BY <2>3, <2>4, <2>6, <3>2 DEF ReleaseToMerge, InTime, MergedBefore, Source
            <3> QED BY <1>7, <3>3 DEF Silenced
        <2>7. ASSUME NEW release \in Range(queue) \cup block
              PROVE  FALSE
            BY <1>3, <2>7
        <2> QED BY <2>1, <2>5, <2>6, <2>7 DEF Silenced
    <1>11. ASSUME ~ key'.down, type = "NoteOn"
           PROVE  FALSE
        BY <1>2, <1>11
    <1>12. UpIsSilenced'
        BY <1>2, <1>9, <1>10, <1>11 DEF UpIsSilenced
    <1> QED BY <1>8, <1>12

LEMMA SilenceInvMergeEvent ==
    ASSUME SilenceInv, CountersDoNotWrap, MergeEvent
    PROVE  Backlog' /\ UpIsSilenced'
    <1>1. PICK event \in lanes :
              /\ \A other \in lanes : ~ MergedBefore(other, event)
              /\ lanes' = lanes \ {event}
              /\ count' = [count EXCEPT !.arrivals = After(@)]
              /\ Enqueue([event EXCEPT !.arrival = count.arrivals])
        BY DEF MergeEvent
    <1>2. stage = "merge" /\ stage' = "merge" /\ UNCHANGED <<input, nodes, spill, block, key>>
        BY DEF MergeEvent
    <1>0. PICK next : next = [event EXCEPT !.arrival = count.arrivals]
        OBVIOUS
    <1>3. /\ event \in Events /\ next \in Events /\ next.n = event.n /\ next.type = event.type
          /\ next.sample = event.sample /\ next.arrival = count.arrivals
          /\ count.arrivals \in Nat
        BY <1>0, <1>1, NumberedEvent DEF SilenceInv, OrderInv, TypeInv, Fields, Arrivals
    <1>4. /\ TypeInv /\ block = {} /\ IsFiniteSet(lanes) /\ lanes \subseteq Events
          /\ queue \in Seq(Events) /\ lost \subseteq Types /\ Len(queue) <= QueueCapacity
          /\ \A a, b \in lanes : a.n = b.n => a = b
        BY <1>2 DEF SilenceInv, OrderInv, Stages, TypeInv, Fields, Queues, Lanes, Numbered
    <1>5. count'.arrivals = count.arrivals + 1
        <2>1. count.arrivals + Cardinality(lanes) <= input.n + 1 /\ input.n \in Nat /\ input.n <= MaxPushes
            BY BoundAssumption DEF SilenceInv, OrderInv, MergeOrder, TypeInv, Fields
        <2>2. Cardinality(lanes) \in Nat
            BY <1>4, FS_CardinalityType
        <2>3. After(count.arrivals) = count.arrivals + 1
            <3>1. Cardinality(lanes) # 0
                BY <1>1, <1>4, FS_EmptySet
            <3>2. count.arrivals + 1 < CounterLimit
                BY <1>3, <2>1, <2>2, <3>1, BoundAssumption, CapacityAssumption DEF CountersDoNotWrap
            <3> QED BY <1>3, <3>2, CapacityAssumption DEF After
        <2> QED BY <1>1, <2>3 DEF SilenceInv, OrderInv, TypeInv, Fields
    <1>6. Range(queue') \subseteq Range(queue) \cup {next}
        BY <1>0, <1>1, <1>3, <1>4, EnqueueTypes
    <1>7. Backlog'
        <2>1. count'.arrivals >= 1
            BY <1>3, <1>5
        <2> QED BY <1>2, <2>1 DEF SilenceInv, Backlog
    <1>8. ASSUME ~ key'.down, ~ key'.astray, "NoteOff" \notin lost'
          PROVE  Silenced'
        <2>1. /\ "NoteOff" \notin lost
              /\ \A release \in Range(queue) : release.type = "NoteOff" => release \in Range(queue')
              /\ next.type = "NoteOff" => next \in Range(queue')
            BY <1>0, <1>1, <1>3, <1>4, <1>8, EnqueueKeeps
        <2>2. Silenced
            BY <1>2, <1>8, <2>1 DEF SilenceInv, UpIsSilenced
        <2>3. \A note \in Notes' : note.type = "NoteOn" /\ (note \in Notes \/ (note = next /\ event \in Notes))
            <3>1. ASSUME NEW note \in Notes'
                  PROVE  note.type = "NoteOn" /\ (note \in Notes \/ (note = next /\ event \in Notes))
                <4>1. note.type = "NoteOn"
                    BY DEF Notes
                <4>2. CASE note = next
                    BY <1>1, <1>3, <4>1, <4>2 DEF Notes
                <4>3. CASE note # next
                    BY <1>1, <1>2, <1>6, <4>1, <4>3 DEF Notes
                <4> QED BY <4>1, <4>2, <4>3
            <3> QED BY <3>1
        <2>4. CASE ~ key.sounds /\ Notes = {}
            BY <1>2, <2>3, <2>4 DEF Silenced
        <2>5. ASSUME NEW release \in Range(queue) \cup block, MergedRelease(release)
              PROVE  Silenced'
            <3>1. event \notin Notes
                BY <1>1, <2>5 DEF MergedRelease
            <3>2. Notes' \subseteq Notes
                BY <2>3, <3>1
            <3>3. \A note \in Notes' : note \notin lanes'
                BY <1>1, <2>5, <3>2 DEF MergedRelease
            <3>4. release \in Range(queue') \cup block'
                BY <1>2, <2>1, <2>5 DEF MergedRelease
            <3>5. MergedRelease(release)'
                BY <2>5, <3>2, <3>3 DEF MergedRelease, InTime
            <3> QED BY <3>4, <3>5 DEF Silenced
        <2>6. ASSUME ReleaseToMerge(event)
              PROVE  Silenced'
            <3>1. Earlier(event) = {} /\ Cardinality(Earlier(event)) = 0
                BY <1>1, FS_EmptySet DEF Earlier
            <3>2. event \notin Notes /\ next.type = "NoteOff"
                BY <1>3, <2>6 DEF Notes, ReleaseToMerge
            <3>3. Notes' \subseteq Notes
                BY <2>3, <3>2
            <3>4. Notes \cap lanes = {}
                BY <1>1, <2>6 DEF ReleaseToMerge
            <3>5. ASSUME NEW note \in Notes'
                  PROVE  note \notin lanes' /\ InTime(note, next) /\ note.arrival < next.arrival
                <4>1. note \notin lanes' /\ note \in Events
                    BY <1>1, <1>4, <3>3, <3>4, NotesAreEvents
                <4>2. InTime(note, next)
                    BY <1>3, <2>6, <3>3 DEF ReleaseToMerge, InTime
                <4>3. note \in Range(queue) \cup Range(nodes) \cup Range(spill)
                    BY <1>4, <3>3, <3>4 DEF Notes
                <4>4. CASE note \in Range(queue)
                    <5>1. note \in Notes \cap Range(queue)
                        BY <3>3, <4>4
                    <5>2. note.arrival < count.arrivals
                        BY <2>6, <5>1 DEF ReleaseToMerge
                    <5> QED BY <1>3, <4>1, <4>2, <5>2
                <4>5. CASE note \in Range(nodes) \cup Range(spill)
                    <5>1. note.arrival < count.arrivals + 0
                        BY <2>6, <3>1, <3>3, <4>5 DEF ReleaseToMerge
                    <5>2. note.arrival \in Nat
                        BY <4>1, EventFields
                    <5> QED BY <1>3, <4>1, <4>2, <5>1, <5>2
                <4> QED BY <4>1, <4>2, <4>3, <4>4, <4>5
            <3>6. MergedRelease(next)'
                BY <3>2, <3>5 DEF MergedRelease, InTime
            <3> QED BY <2>1, <3>2, <3>6 DEF Silenced
        <2>7. ASSUME NEW release \in lanes, ReleaseToMerge(release), release # event
              PROVE  Silenced'
            <3>1. release \in lanes' /\ release \in Events
                BY <1>1, <1>4, <2>7
            <3>2. Earlier(release)' = Earlier(release) \ {event}
                BY <1>1 DEF Earlier, MergedBefore, Source
            <3>3. /\ Cardinality(Earlier(release)) <= Cardinality(Earlier(release)') + 1
                  /\ Cardinality(Earlier(release)) \in Nat /\ Cardinality(Earlier(release)') \in Nat
                <4>1. IsFiniteSet(Earlier(release)) /\ Cardinality(Earlier(release)) \in Nat
                    BY <1>4, FS_Subset, FS_CardinalityType DEF Earlier
                <4>2. CASE event \in Earlier(release)
                    <5>1. Cardinality(Earlier(release) \ {event}) = Cardinality(Earlier(release)) - 1
                        BY <4>1, <4>2, FS_RemoveElement
                    <5>2. IsFiniteSet(Earlier(release) \ {event})
                        BY <4>1, FS_Subset
                    <5>3. Cardinality(Earlier(release) \ {event}) \in Nat
                        BY <5>2, FS_CardinalityType
                    <5> QED BY <3>2, <4>1, <5>1, <5>3
                <4>3. CASE event \notin Earlier(release)
                    <5>1. Earlier(release)' = Earlier(release)
                        BY <3>2, <4>3
                    <5> QED BY <4>1, <5>1
                <4> QED BY <4>2, <4>3
            <3>4. \A note \in Notes' : InTime(note, release)
                <4>1. \A note \in Notes : InTime(note, release)
                    BY <2>7 DEF ReleaseToMerge
                <4> QED BY <1>3, <2>3, <4>1 DEF InTime
            <3>5. \A note \in Notes' \cap lanes' : MergedBefore(note, release)
                <4>1. \A note \in Notes' \cap lanes' : note \in Notes \cap lanes
                    BY <1>1, <2>3 DEF Notes
                <4> QED BY <2>7, <4>1 DEF ReleaseToMerge
            <3>6. ASSUME NEW note \in Notes' \cap Range(queue')
                  PROVE  note.arrival < count'.arrivals
                <4>1. CASE note = next
                    BY <1>3, <1>5, <4>1
                <4>2. CASE note # next
                    <5>1. note \in Notes /\ note \in Range(queue)
                        BY <1>6, <2>3, <4>2
                    <5>2. note.arrival < count.arrivals /\ note.arrival \in Nat
                        BY <1>4, <2>7, <5>1, NotesAreEvents, EventFields DEF ReleaseToMerge
                    <5> QED BY <1>3, <1>5, <5>2
                <4> QED BY <4>1, <4>2
            <3>7. ASSUME NEW note \in Notes' \cap (Range(nodes) \cup Range(spill))
                  PROVE  note.arrival < count'.arrivals + Cardinality(Earlier(release)')
                <4>1. note \in Notes
                    BY <2>3, <3>7 DEF Notes
                <4>2. note.arrival < count.arrivals + Cardinality(Earlier(release)) /\ note.arrival \in Nat
                    BY <1>4, <2>7, <3>7, <4>1, NotesAreEvents, EventFields DEF ReleaseToMerge
                <4> QED BY <1>3, <1>5, <3>3, <4>2
            <3>8. ReleaseToMerge(release)'
                <4>1. Range(nodes)' = Range(nodes) /\ Range(spill)' = Range(spill)
                    BY <1>2
                <4> QED BY <2>7, <3>4, <3>5, <3>6, <3>7, <4>1
                        DEF ReleaseToMerge, InTime, MergedBefore, Source
            <3> QED BY <3>1, <3>8 DEF Silenced
        <2> QED BY <1>1, <2>2, <2>4, <2>5, <2>6, <2>7 DEF Silenced
    <1>9. UpIsSilenced'
        BY <1>2, <1>8 DEF UpIsSilenced
    <1> QED BY <1>7, <1>9

\* What comes from the nodes, the spill array and the latches comes when every release of
\* the lanes has its number.
LEMMA SilenceInvFlush ==
    ASSUME SilenceInv, NEW event \in Events, Enqueue(event),
           event.type = "NoteOn" => event \in Range(nodes) \cup Range(spill),
           Range(nodes') \subseteq Range(nodes), Range(spill') \subseteq Range(spill),
           stage = "merge", stage' = "merge", lanes = {}, lanes' = {}, count' = count,
           block' = block, key' = key
    PROVE  Backlog' /\ UpIsSilenced'
    <1>1. /\ queue \in Seq(Events) /\ lost \subseteq Types /\ Len(queue) <= QueueCapacity
        BY DEF SilenceInv, OrderInv, TypeInv, Fields, Queues
    <1>2. Range(queue') \subseteq Range(queue) \cup {event}
        BY <1>1, EnqueueTypes
    <1>3. Notes' \subseteq Notes
        BY <1>2 DEF Notes
    <1>4. Backlog'
        BY DEF SilenceInv, Backlog
    <1>5. ASSUME ~ key'.down, ~ key'.astray, "NoteOff" \notin lost'
          PROVE  Silenced'
        <2>1. /\ "NoteOff" \notin lost
              /\ \A release \in Range(queue) : release.type = "NoteOff" => release \in Range(queue')
            BY <1>1, <1>5, EnqueueKeeps
        <2>2. Silenced
            BY <1>5, <2>1 DEF SilenceInv, UpIsSilenced
        <2>3. CASE ~ key.sounds /\ Notes = {}
            BY <1>3, <2>3 DEF Silenced
        <2>4. ASSUME NEW release \in Range(queue) \cup block, MergedRelease(release)
              PROVE  Silenced'
            <3>1. release \in Range(queue') \cup block'
                BY <2>1, <2>4 DEF MergedRelease
            <3>2. MergedRelease(release)'
                BY <1>3, <2>4 DEF MergedRelease, InTime
            <3> QED BY <3>1, <3>2 DEF Silenced
        <2> QED BY <2>2, <2>3, <2>4 DEF Silenced
    <1>6. UpIsSilenced'
        BY <1>5 DEF UpIsSilenced
    <1> QED BY <1>4, <1>6

\* The event that is dispatched is a note before its release, the release behind every
\* note, or neither.
LEMMA SilenceInvDispatch ==
    ASSUME SilenceInv, Dispatch
    PROVE  Backlog' /\ UpIsSilenced'
    <1>1. PICK event \in block :
              /\ \A other \in block : ~ Before(other, event)
              /\ block' = block \ {event}
              /\ key' = CASE event.type = "NoteOn" -> [key EXCEPT !.sounds = TRUE]
                          [] event.type \in {"NoteOff", "AllNotesOff"} -> [key EXCEPT !.sounds = FALSE]
                          [] event.type = "PitchBend" -> key
        BY DEF Dispatch
    <1>2. /\ stage = "play" /\ stage' = "play"
          /\ UNCHANGED <<input, lanes, count, nodes, spill, queue, lost>>
        BY DEF Dispatch
    <1>3. /\ TypeInv /\ queue = <<>> /\ lanes = {} /\ nodes = <<>> /\ spill = <<>> /\ Range(<<>>) = {}
          /\ event.type \in {"AllNotesOff", "NoteOff", "NoteOn", "PitchBend"}
          /\ key \in [down : BOOLEAN, sounds : BOOLEAN, astray : BOOLEAN]
        BY <1>1, <1>2 DEF SilenceInv, OrderInv, Stages, LanesMerged, Backlog, TypeInv, Fields, Events, Types, Range
    <1>4. /\ key'.down = key.down /\ key'.astray = key.astray
          /\ key'.sounds = (IF event.type = "NoteOn" THEN TRUE
                            ELSE IF event.type = "PitchBend" THEN key.sounds ELSE FALSE)
        BY <1>1, <1>3
    <1>5. Notes' = Notes \ {event} /\ Notes \subseteq block
        BY <1>1, <1>2, <1>3 DEF Notes
    <1>6. Backlog'
        BY <1>2 DEF SilenceInv, Backlog
    <1>7. ASSUME ~ key'.down, ~ key'.astray, "NoteOff" \notin lost'
          PROVE  Silenced'
        <2>1. Silenced
            BY <1>2, <1>4, <1>7 DEF SilenceInv, UpIsSilenced
        <2>2. CASE ~ key.sounds /\ Notes = {}
            <3>1. event.type # "NoteOn"
                BY <1>1, <2>2 DEF Notes
            <3> QED BY <1>4, <1>5, <2>2, <3>1 DEF Silenced
        <2>3. ASSUME NEW release \in block, MergedRelease(release)
              PROVE  Silenced'
            <3>1. CASE release # event
                <4>1. release \in block' /\ MergedRelease(release)'
                    BY <1>1, <1>2, <1>5, <2>3, <3>1 DEF MergedRelease, InTime
                <4> QED BY <4>1 DEF Silenced
            <3>2. CASE release = event
                <4>1. ASSUME NEW note \in Notes
                      PROVE  FALSE
                    <5>1. note \in Events /\ note.type = "NoteOn" /\ note \in block /\ event \in Events
                        BY <1>1, <1>3, <1>5, NotesAreEvents
                    <5>2. Before(note, event)
                        BY <2>3, <3>2, <5>1, InTimeBefore DEF MergedRelease
                    <5> QED BY <1>1, <5>1, <5>2
                <4>2. Notes' = {} /\ ~ key'.sounds
                    BY <1>4, <1>5, <2>3, <3>2, <4>1 DEF MergedRelease
                <4> QED BY <4>2 DEF Silenced
            <3> QED BY <3>1, <3>2
        <2> QED BY <1>3, <2>1, <2>2, <2>3 DEF Silenced
    <1>8. UpIsSilenced'
        BY <1>2, <1>7 DEF UpIsSilenced
    <1> QED BY <1>6, <1>8

\* A step that changes neither the key nor where the notes and the releases are, or that
\* takes the queue for the block.
LEMMA SilencedStays ==
    ASSUME Silenced, key'.sounds = key.sounds, lanes' = lanes, nodes' = nodes, spill' = spill,
           count'.arrivals = count.arrivals,
           Range(queue') \subseteq Range(queue),
           Range(queue') \cup block' = Range(queue) \cup block
    PROVE  Silenced'
    <1>1. Notes' = Notes
        BY DEF Notes
    <1>2. CASE ~ key.sounds /\ Notes = {}
        BY <1>1, <1>2 DEF Silenced
    <1>3. ASSUME NEW release \in lanes, ReleaseToMerge(release)
          PROVE  Silenced'
        <2>1. Earlier(release)' = Earlier(release)
            BY DEF Earlier, MergedBefore, Source
        <2>2. ReleaseToMerge(release)'
            BY <1>1, <1>3, <2>1 DEF ReleaseToMerge, InTime, MergedBefore, Source
        <2> QED BY <2>2 DEF Silenced
    <1>4. ASSUME NEW release \in Range(queue) \cup block, MergedRelease(release)
          PROVE  Silenced'
        <2>1. MergedRelease(release)'
            BY <1>1, <1>4 DEF MergedRelease, InTime
        <2> QED BY <2>1 DEF Silenced
    <1> QED BY <1>2, <1>3, <1>4 DEF Silenced

LEMMA SilenceInvNext ==
    ASSUME SilenceInv, CountersDoNotWrap, [Next]_vars
    PROVE  SilenceInv'
    <1>1. OrderInv'
        BY OrderInvNext DEF SilenceInv
    <1> SUFFICES Backlog' /\ UpIsSilenced'
        BY <1>1 DEF SilenceInv
    <1>2. TypeInv /\ Range(<<>>) = {}
        BY DEF SilenceInv, OrderInv, Range
    <1>3. ASSUME NEW type \in Types, NEW sample \in Samples, Push(type, sample)
          PROVE  Backlog' /\ UpIsSilenced'
        BY <1>1, <1>3, SilenceInvPush
    <1>4. CASE Consume
        <2>1. Backlog'
            BY <1>4 DEF Consume, SilenceInv, Backlog
        <2>2. UpIsSilenced'
            <3>1. ASSUME Silenced
                  PROVE  Silenced'
                BY <1>4, <3>1, SilencedStays DEF Consume
            <3> QED BY <1>4, <3>1 DEF Consume, SilenceInv, UpIsSilenced
        <2> QED BY <2>1, <2>2
    <1>5. CASE MergeEvent
        BY <1>5, SilenceInvMergeEvent
    <1>6. CASE FlushNode
        <2>1. /\ Head(nodes) \in Events /\ Head(nodes) \in Range(nodes)
              /\ Range(Tail(nodes)) \subseteq Range(nodes)
            BY <1>2, <1>6, HeadAndTail DEF FlushNode, TypeInv, Queues
        <2> QED BY <1>6, <2>1, SilenceInvFlush DEF FlushNode
    <1>7. CASE FlushSpill
        <2>1. /\ Head(spill) \in Events /\ Head(spill) \in Range(spill)
              /\ Range(Tail(spill)) \subseteq Range(spill)
            BY <1>2, <1>7, HeadAndTail DEF FlushSpill, TypeInv, Queues
        <2> QED BY <1>7, <2>1, SilenceInvFlush DEF FlushSpill
    <1>8. CASE FlushFallback
        <2>1. PICK type \in {"AllNotesOff", "PitchBend"} : Enqueue(Fallback(type))
            BY <1>8 DEF FlushFallback
        <2>2. Fallback(type) \in Events /\ Fallback(type).type # "NoteOn"
            <3>1. type \in Types
                BY DEF Types
            <3> QED BY <3>1, FallbackIsEvent DEF Fallback
        <2> QED BY <1>8, <2>1, <2>2, SilenceInvFlush DEF FlushFallback
    <1>9. CASE Swap
        <2>1. block = {} /\ count'.arrivals = count.arrivals
            BY <1>2, <1>9 DEF Swap, SilenceInv, OrderInv, Stages, TypeInv, Fields
        <2>2. Backlog'
            BY <1>9, <2>1 DEF Swap, SilenceInv, Backlog
        <2>3. UpIsSilenced'
            <3>1. ASSUME Silenced
                  PROVE  Silenced'
                BY <1>2, <1>9, <2>1, <3>1, SilencedStays DEF Swap
            <3> QED BY <1>9, <3>1 DEF Swap, SilenceInv, UpIsSilenced
        <2> QED BY <2>2, <2>3
    <1>10. CASE Dispatch
        BY <1>10, SilenceInvDispatch
    <1>11. CASE EndBlock
        <2>1. /\ key'.down = key.down /\ key'.sounds = key.sounds
              /\ key'.astray = (key.astray \/ "NoteOff" \in lost)
            BY <1>2, <1>11 DEF EndBlock, TypeInv, Fields
        <2>2. Backlog'
            BY <1>2, <1>11 DEF EndBlock, SilenceInv, Backlog
        <2>3. UpIsSilenced'
            <3>1. ASSUME Silenced
                  PROVE  Silenced'
                BY <1>11, <2>1, <3>1, SilencedStays DEF EndBlock
            <3> QED BY <1>11, <2>1, <3>1 DEF EndBlock, SilenceInv, UpIsSilenced
        <2> QED BY <2>2, <2>3
    <1>12. CASE UNCHANGED vars
        <2>1. Backlog'
            BY <1>12 DEF vars, SilenceInv, Backlog
        <2>2. UpIsSilenced'
            <3>1. ASSUME Silenced
                  PROVE  Silenced'
                BY <1>12, <3>1, SilencedStays DEF vars
            <3> QED BY <1>12, <3>1 DEF vars, SilenceInv, UpIsSilenced
        <2> QED BY <2>1, <2>2
    <1> QED BY <1>3, <1>4, <1>5, <1>6, <1>7, <1>8, <1>9, <1>10, <1>11, <1>12 DEF Next

LEMMA SilenceInvImpliesReleaseSilences ==
    ASSUME SilenceInv
    PROVE  ReleaseSilences
    <1> SUFFICES ASSUME stage = "fill", lanes = {}, ~ key.down, ~ key.astray
                 PROVE  ~ key.sounds
        BY DEF ReleaseSilences
    <1>1. Silenced
        BY DEF SilenceInv, UpIsSilenced
    <1>2. Range(queue) \cup block = {}
        BY DEF SilenceInv, OrderInv, Stages, Range
    <1> QED BY <1>1, <1>2 DEF Silenced

\* A key that went up is silent between two blocks, for events with samples in any order,
\* every size of the lanes, of what catches their overflow and of the queue, as long as the
\* counter of arrivals does not wrap around.  The exceptions are the property's, and are made
\* for the last release of the key alone: that it overflowed, that a block lost one since, or
\* that its own stamp or number lets it be played before a note of its block, as the stamps of
\* the kernel can.
THEOREM ReleasesSilence ==
    ASSUME CountersDoNotWrap
    PROVE  Spec => []ReleaseSilences
    <1>1. Init => SilenceInv
        BY OrderInvInit, SilenceInvInit DEF SilenceInv
    <1>2. SilenceInv /\ [Next]_vars => SilenceInv'
        BY SilenceInvNext
    <1>3. SilenceInv => ReleaseSilences
        BY SilenceInvImpliesReleaseSilences
    <1> QED BY <1>1, <1>2, <1>3, PTL DEF Spec
=============================================================================
