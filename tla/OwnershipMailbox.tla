-------------------------- MODULE OwnershipMailbox --------------------------
(***************************************************************************)
(* The lock-free latest-value handoff of sid_ownership_mailbox.h, driven   *)
(* by its main client: schedulePendingStateRestore (any non-realtime       *)
(* thread, serialized by pendingStateRestoreWriterMutex_) hands a          *)
(* canonicalized state root to the render thread, which takes it at the    *)
(* top of processBlock and SWAPS it, part by part, with the live root.     *)
(*                                                                         *)
(* A root is a function of its Parts, so that a torn root is a state the   *)
(* model can be in.  Every step between two accesses to memory another     *)
(* thread can reach is an action; an exchange of state_ and the assignment *)
(* of the exchanging thread's private index are one.  The exchanges are    *)
(* acq_rel, so the plain accesses they order are sequentially consistent.  *)
(***************************************************************************)
EXTENDS Naturals

CONSTANTS
    NSlots,       \* template parameter NSlots, number of buffers
    Parts,        \* the fields of SidStateRootV1 told apart
    Producers,    \* threads that schedule restores
    NoProducer,   \* the writer mutex is free
    MaxRestores   \* bound on the number of restores scheduled

ASSUME NSlotsAssumption == NSlots \in Nat /\ NSlots >= 3
ASSUME PartsAssumption == Parts # {}
ASSUME ProducersAssumption == NoProducer \notin Producers
ASSUME MaxRestoresAssumption == MaxRestores \in Nat

Slots == 0 .. NSlots - 1
Restores == 0 .. MaxRestores

\* One field of a root: which restore it belongs to (0 is the default
\* constructed root) and whether sidCanonicalizeStateRootForApply has run on
\* it.  The render thread may not allocate, so it may only see TRUE.
PartValues == [restore : Restores, canonical : BOOLEAN]
Roots == [Parts -> PartValues]

WholeRoot(n) == [w \in Parts |-> [restore |-> n, canonical |-> TRUE]]

VARIABLES
    slots,           \* slots_
    state,           \* state_: index of the parked buffer, fresh flag
    producerIndex,   \* producerIndex_
    consumerIndex,   \* consumerIndex_
    writer,          \* holder of pendingStateRestoreWriterMutex_
    copied,          \* parts the holder has copied into its buffer
    prepared,        \* parts the holder has canonicalized
    render,          \* where the render thread is in the drain
    swapped,         \* parts swapped with the live root so far
    live,            \* runtimeModel_.state_root_
    published        \* history: number of publish() calls

mailbox == <<slots, state, producerIndex, consumerIndex>>
producerVars == <<writer, copied, prepared, published>>
renderVars == <<render, swapped, live>>
vars == <<slots, state, producerIndex, consumerIndex, writer, copied, prepared,
          render, swapped, live, published>>

Init ==
    /\ slots = [i \in Slots |-> [w \in Parts |-> [restore |-> 0, canonical |-> FALSE]]]
    /\ state = [index |-> 2, fresh |-> FALSE]
    /\ producerIndex = 0
    /\ consumerIndex = 1
    /\ writer = NoProducer /\ copied = {} /\ prepared = {}
    /\ render = "idle" /\ swapped = {} /\ live = WholeRoot(0)
    /\ published = 0

-----------------------------------------------------------------------------
(* schedulePendingStateRestore: the steps of a producer thread p.          *)

LockWriterMutex(p) ==
    /\ writer = NoProducer
    /\ published < MaxRestores
    /\ writer' = p /\ copied' = {} /\ prepared' = {}
    /\ UNCHANGED <<mailbox, renderVars, published>>

\* dst = root, one field; the buffer holds a mix of two roots meanwhile.
CopyPart(p, w) ==
    /\ writer = p /\ w \notin copied
    /\ slots' = [slots EXCEPT ![producerIndex][w] =
                     [restore |-> published + 1, canonical |-> FALSE]]
    /\ copied' = copied \cup {w}
    /\ UNCHANGED <<state, producerIndex, consumerIndex, writer, prepared,
                   renderVars, published>>

\* prepareStateRootForApplyNonRealtime_(dst), one field.
PreparePart(p, w) ==
    /\ writer = p /\ copied = Parts /\ w \notin prepared
    /\ slots' = [slots EXCEPT ![producerIndex][w].canonical = TRUE]
    /\ prepared' = prepared \cup {w}
    /\ UNCHANGED <<state, producerIndex, consumerIndex, writer, copied,
                   renderVars, published>>

\* publish() and the release of the mutex at the end of the scope: when ready,
\* state_ is exchanged for parked and the buffer that was parked is reclaimed.
PublishAs(p, ready, parked, reclaimed) ==
    /\ writer = p /\ ready
    /\ state' = parked /\ producerIndex' = reclaimed
    /\ published' = published + 1
    /\ writer' = NoProducer
    /\ UNCHANGED <<slots, consumerIndex, copied, prepared, renderVars>>

Filled(fresh) == [index |-> producerIndex, fresh |-> fresh]

\* Mutants: the parked buffer is not reclaimed; its index is not decoded; the
\* root is published before it is prepared; the fresh bit is toggled, not set.
Publish_NoReclaim(p) == PublishAs(p, prepared = Parts, Filled(TRUE), producerIndex)
Publish_Undecoded(p) == PublishAs(p, prepared = Parts, Filled(TRUE), 2 * state.index)
Publish_BeforePrepare(p) == PublishAs(p, copied = Parts, Filled(TRUE), state.index)
Publish_TogglesFresh(p) == PublishAs(p, prepared = Parts, Filled(~state.fresh), state.index)

Publish(p) == PublishAs(p, prepared = Parts, Filled(TRUE), state.index)

-----------------------------------------------------------------------------
(* drainPendingStateRestore_: the steps of the render thread.              *)

\* tryConsume: the early-out load.  An empty mailbox changes nothing.
SeeFresh ==
    /\ render = "idle" /\ state.fresh
    /\ render' = "claim"
    /\ UNCHANGED <<mailbox, producerVars, swapped, live>>

\* tryConsume: the exchange; nullptr if what it took was not fresh after all.
ClaimAs(parked, taken) ==
    /\ render = "claim"
    /\ state' = parked /\ consumerIndex' = taken
    /\ render' = IF state.fresh THEN "owns" ELSE "idle"
    /\ swapped' = {}
    /\ UNCHANGED <<slots, producerIndex, producerVars, live>>

\* Mutants: the old buffer is parked as fresh; only the fresh bit is cleared.
Claim_ParksFresh == ClaimAs([index |-> consumerIndex, fresh |-> TRUE], state.index)
Claim_KeepsBuffer == ClaimAs([index |-> state.index, fresh |-> FALSE], consumerIndex)

Claim == ClaimAs([index |-> consumerIndex, fresh |-> FALSE], state.index)

\* applyStateRootBySwap: swap(state_root_, inOut), one field.  The render thread frees
\* nothing: the producer that overwrites the buffer releases the field.  Its check of the
\* root's magic and schema version passes for every root that is claimed, as both are set
\* by sidCanonicalizeStateRootForApply before the root is published.
SwapPart(w) ==
    /\ render = "owns" /\ w \notin swapped
    /\ live' = [live EXCEPT ![w] = slots[consumerIndex][w]]
    /\ slots' = [slots EXCEPT ![consumerIndex][w] = live[w]]
    /\ swapped' = swapped \cup {w}
    /\ UNCHANGED <<state, producerIndex, consumerIndex, producerVars, render>>

\* applyPreparedStateRootRT_ returns; the block goes on with the new root.
FinishApply ==
    /\ render = "owns" /\ swapped = Parts
    /\ render' = "idle"
    /\ UNCHANGED <<mailbox, producerVars, swapped, live>>

-----------------------------------------------------------------------------
Schedule(p) ==
    \/ LockWriterMutex(p)
    \/ \E w \in Parts : CopyPart(p, w) \/ PreparePart(p, w)
    \/ Publish(p)

Drain ==
    \/ SeeFresh \/ Claim \/ FinishApply
    \/ \E w \in Parts : SwapPart(w)

Next == Drain \/ \E p \in Producers : Schedule(p)

Spec == Init /\ [][Next]_vars

\* The host keeps calling processBlock; nothing makes a producer finish.
FairSpec == Spec /\ WF_vars(Drain)

-----------------------------------------------------------------------------
(* Correctness.                                                            *)

TypeOK ==
    /\ slots \in [Slots -> Roots]
    /\ state \in [index : Slots, fresh : BOOLEAN]
    /\ producerIndex \in Slots /\ consumerIndex \in Slots
    /\ writer \in Producers \cup {NoProducer}
    /\ copied \subseteq Parts /\ prepared \subseteq Parts
    /\ render \in {"idle", "claim", "owns"} /\ swapped \subseteq Parts
    /\ live \in Roots
    /\ published \in Restores

\* A buffer has one owner: the producer that fills it, the mailbox that parks
\* it or the render thread that swaps it, never two, however far a producer
\* laps a stalled render thread.
OneOwnerPerSlot ==
    /\ producerIndex # consumerIndex
    /\ producerIndex # state.index
    /\ consumerIndex # state.index

\* Outside the swap itself the render thread lives on exactly one scheduled
\* root, all of its fields from the same restore and all of them prepared off
\* the audio thread: no torn root, and nothing left that would allocate.
RenderSeesWholeCanonicalRoot ==
    render # "owns" => \E n \in Restores : live = WholeRoot(n)

\* The root the render thread has taken: the live one, or during the swap the
\* one that is becoming live.
TakenRoot ==
    [w \in Parts |-> IF render = "owns" /\ w \notin swapped
                     THEN slots[consumerIndex][w]
                     ELSE live[w]]

\* Latest value wins: the newest restore is parked and marked fresh, or it is
\* the one the render thread has taken.  It is never dropped for an older one.
NewestNeverLost ==
    IF state.fresh THEN slots[state.index] = WholeRoot(published)
                   ELSE TakenRoot = WholeRoot(published)

\* No field of the live root ever goes back to an earlier restore, although
\* the buffers that come back to the producers still hold old roots.
RestoresInOrder ==
    [][\A w \in Parts : live'[w].restore >= live[w].restore]_vars

\* A scheduled restore, or a newer one, is eventually live as a whole.
NewestEventuallyLive ==
    \A n \in 1 .. MaxRestores :
        published >= n ~> /\ render = "idle"
                          /\ \A w \in Parts : live[w].restore >= n

\* The mailbox with its client implements the latest-value contract: exchanges
\* are the offers and the takes, and every other step is invisible.
LV == INSTANCE LatestValue WITH
          Root <- WholeRoot, offered <- published,
          pending <- state.fresh, current <- TakenRoot
ImplementsLatestValue == LV!LVSpec
=============================================================================
