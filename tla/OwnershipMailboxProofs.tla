----------------------- MODULE OwnershipMailboxProofs -----------------------
(***************************************************************************)
(* Proofs about OwnershipMailbox for every number of buffers, of parts, of *)
(* producers and of restores: its inductive invariant, its safety          *)
(* properties, and that it implements LatestValue.                         *)
(***************************************************************************)
EXTENDS OwnershipMailbox, TLAPS

USE NSlotsAssumption, MaxRestoresAssumption, ProducersAssumption

-----------------------------------------------------------------------------
(* A field of a root is what restore n left there, ready for the render.   *)
Canonical(n) == [restore |-> n, canonical |-> TRUE]

\* What the holder of the writer mutex has done so far is what its buffer holds.
FilledByWriter ==
    writer # NoProducer =>
        /\ published < MaxRestores
        /\ prepared # {} => copied = Parts
        /\ prepared \subseteq copied
        /\ \A w \in copied : slots[producerIndex][w].restore = published + 1
        /\ \A w \in prepared : slots[producerIndex][w].canonical = TRUE

\* The render thread takes a root that is newer than the live one, and while it
\* swaps, each field of the live root is the old root's or the new one's.
TakesNewer ==
    /\ render = "claim" => state.fresh
    /\ \E o \in Restores : \E n \in Restores :
          /\ o <= n /\ n <= published
          /\ state.fresh => n < published
          /\ ~state.fresh => n = published
          /\ render = "owns" => \A w \in Parts :
                /\ live[w] = IF w \in swapped THEN Canonical(n) ELSE Canonical(o)
                /\ w \notin swapped => slots[consumerIndex][w] = Canonical(n)
          /\ render # "owns" => \A w \in Parts : live[w] = Canonical(n)

\* A fresh buffer holds the newest restore, whole.
ParkedIsNewest ==
    state.fresh => \A w \in Parts : slots[state.index][w] = Canonical(published)

IInv == TypeOK /\ OneOwnerPerSlot /\ FilledByWriter /\ TakesNewer /\ ParkedIsNewest

-----------------------------------------------------------------------------
LEMMA InitIInv == Init => IInv
<1> SUFFICES ASSUME Init PROVE IInv
    OBVIOUS
<1>1. TypeOK
      BY DEF Init, TypeOK, Slots, Roots, PartValues, WholeRoot, Restores
<1>2. OneOwnerPerSlot
      BY DEF Init, OneOwnerPerSlot
<1>3. FilledByWriter
      BY DEF Init, FilledByWriter
<1>4. TakesNewer
  <2>1. 0 \in Restores
        BY DEF Restores
  <2>2. \A w \in Parts : live[w] = Canonical(0)
        BY DEF Init, WholeRoot, Canonical
  <2> QED BY <2>1, <2>2 DEF Init, TakesNewer
<1>5. ParkedIsNewest
      BY DEF Init, ParkedIsNewest
<1> QED BY <1>1, <1>2, <1>3, <1>4, <1>5 DEF IInv

\* The steps of a producer, one lemma each.
LEMMA LockIInv == ASSUME IInv, NEW p \in Producers, LockWriterMutex(p) PROVE IInv'
<1> USE DEF IInv, LockWriterMutex, mailbox, renderVars
<1>1. TypeOK'
      BY DEF TypeOK
<1>2. OneOwnerPerSlot'
      BY DEF OneOwnerPerSlot
<1>3. FilledByWriter'
      BY DEF FilledByWriter
<1>4. TakesNewer'
      BY DEF TakesNewer
<1>5. ParkedIsNewest'
      BY DEF ParkedIsNewest
<1> QED BY <1>1, <1>2, <1>3, <1>4, <1>5 DEF IInv

LEMMA CopyIInv ==
    ASSUME IInv, NEW p \in Producers, NEW w \in Parts, CopyPart(p, w) PROVE IInv'
<1> USE DEF IInv, CopyPart, renderVars
<1>0. published + 1 \in Restores /\ writer # NoProducer
      BY DEF FilledByWriter, TypeOK, Restores
<1>1. TypeOK'
      BY <1>0 DEF TypeOK, Roots, PartValues
<1>2. OneOwnerPerSlot'
      BY DEF OneOwnerPerSlot
<1>3. FilledByWriter'
  <2>1. \A v \in copied' : slots'[producerIndex'][v].restore = published' + 1
        BY <1>0 DEF FilledByWriter, TypeOK, Roots, PartValues
  <2>2. \A v \in prepared' : slots'[producerIndex'][v].canonical = TRUE
        BY <1>0 DEF FilledByWriter, TypeOK, Roots, PartValues
  <2> QED BY <1>0, <2>1, <2>2 DEF FilledByWriter
<1>4. TakesNewer'
  <2>1. slots'[consumerIndex] = slots[consumerIndex]
        BY DEF OneOwnerPerSlot, TypeOK
  <2> QED BY <2>1 DEF TakesNewer
<1>5. ParkedIsNewest'
      BY DEF ParkedIsNewest, OneOwnerPerSlot, TypeOK
<1> QED BY <1>1, <1>2, <1>3, <1>4, <1>5 DEF IInv

LEMMA PrepareIInv ==
    ASSUME IInv, NEW p \in Producers, NEW w \in Parts, PreparePart(p, w) PROVE IInv'
<1> USE DEF IInv, PreparePart, renderVars
<1>0. writer # NoProducer
      OBVIOUS
<1>1. TypeOK'
  <2>0. slots[producerIndex][w] \in PartValues
        BY DEF TypeOK, Roots
  <2>1. [slots[producerIndex][w] EXCEPT !.canonical = TRUE] \in PartValues
        BY <2>0 DEF PartValues
  <2>2. slots' \in [Slots -> Roots]
        BY <2>1 DEF TypeOK, Roots
  <2> QED BY <2>2 DEF TypeOK
<1>2. OneOwnerPerSlot'
      BY DEF OneOwnerPerSlot
<1>3. FilledByWriter'
  <2>1. \A v \in copied' : slots'[producerIndex'][v].restore = published' + 1
        BY <1>0 DEF FilledByWriter, TypeOK, Roots, PartValues
  <2>2. \A v \in prepared' : slots'[producerIndex'][v].canonical = TRUE
        BY <1>0 DEF FilledByWriter, TypeOK, Roots, PartValues
  <2> QED BY <1>0, <2>1, <2>2 DEF FilledByWriter
<1>4. TakesNewer'
  <2>1. slots'[consumerIndex] = slots[consumerIndex]
        BY DEF OneOwnerPerSlot, TypeOK
  <2> QED BY <2>1 DEF TakesNewer
<1>5. ParkedIsNewest'
      BY DEF ParkedIsNewest, OneOwnerPerSlot, TypeOK
<1> QED BY <1>1, <1>2, <1>3, <1>4, <1>5 DEF IInv

LEMMA PublishIInv == ASSUME IInv, NEW p \in Producers, Publish(p) PROVE IInv'
<1> USE DEF IInv, Publish, PublishAs, Filled, renderVars
<1>0. writer # NoProducer /\ published + 1 \in Restores /\ published \in Nat
      BY DEF FilledByWriter, TypeOK, Restores
<1>1. TypeOK'
      BY <1>0 DEF TypeOK
<1>2. OneOwnerPerSlot'
      BY DEF OneOwnerPerSlot, TypeOK
<1>3. FilledByWriter'
      BY DEF FilledByWriter
<1>4. TakesNewer'
  <2>1. PICK o \in Restores, n \in Restores :
            /\ o <= n /\ n <= published
            /\ render = "owns" => \A w \in Parts :
                  /\ live[w] = IF w \in swapped THEN Canonical(n) ELSE Canonical(o)
                  /\ w \notin swapped => slots[consumerIndex][w] = Canonical(n)
            /\ render # "owns" => \A w \in Parts : live[w] = Canonical(n)
        BY DEF TakesNewer
  <2>2. n < published'
        BY <1>0, <2>1 DEF Restores
  <2>3. n <= published' /\ state'.fresh
        BY <1>0, <2>1 DEF Restores
  <2> QED BY <2>1, <2>2, <2>3 DEF TakesNewer
<1>5. ParkedIsNewest'
  <2> SUFFICES ASSUME NEW w \in Parts
               PROVE  slots[producerIndex][w] = Canonical(published + 1)
      BY DEF ParkedIsNewest
  <2>1. slots[producerIndex][w] \in PartValues
        BY DEF TypeOK, Roots
  <2>2. /\ slots[producerIndex][w].restore = published + 1
        /\ slots[producerIndex][w].canonical = TRUE
        BY <1>0 DEF FilledByWriter
  <2> QED BY <2>1, <2>2 DEF PartValues, Canonical
<1> QED BY <1>1, <1>2, <1>3, <1>4, <1>5 DEF IInv

\* The steps of the render thread.
LEMMA SeeFreshIInv == ASSUME IInv, SeeFresh PROVE IInv'
<1> USE DEF IInv, SeeFresh, mailbox, producerVars
<1>1. TypeOK'
      BY DEF TypeOK
<1>2. OneOwnerPerSlot'
      BY DEF OneOwnerPerSlot
<1>3. FilledByWriter'
      BY DEF FilledByWriter
<1>4. TakesNewer'
      BY DEF TakesNewer
<1>5. ParkedIsNewest'
      BY DEF ParkedIsNewest
<1> QED BY <1>1, <1>2, <1>3, <1>4, <1>5 DEF IInv

LEMMA ClaimIInv == ASSUME IInv, Claim PROVE IInv'
<1> USE DEF IInv, Claim, ClaimAs, producerVars
<1>0. state.fresh /\ render' = "owns" /\ ~state'.fresh
      BY DEF TakesNewer
<1>1. TypeOK'
      BY <1>0 DEF TypeOK
<1>2. OneOwnerPerSlot'
      BY DEF OneOwnerPerSlot, TypeOK
<1>3. FilledByWriter'
      BY DEF FilledByWriter
<1>4. TakesNewer'
  <2>1. PICK o \in Restores :
            o < published /\ \A w \in Parts : live[w] = Canonical(o)
        BY <1>0 DEF TakesNewer
  <2>2. \A w \in Parts : slots[state.index][w] = Canonical(published)
        BY <1>0 DEF ParkedIsNewest
  <2>3. published \in Restores /\ o <= published /\ published <= published
        BY <2>1 DEF TypeOK, Restores
  <2>4. \A w \in Parts :
            /\ live'[w] = IF w \in swapped' THEN Canonical(published') ELSE Canonical(o)
            /\ w \notin swapped' => slots'[consumerIndex'][w] = Canonical(published')
        BY <2>1, <2>2
  <2> QED BY <1>0, <2>3, <2>4 DEF TakesNewer
<1>5. ParkedIsNewest'
      BY <1>0 DEF ParkedIsNewest
<1> QED BY <1>1, <1>2, <1>3, <1>4, <1>5 DEF IInv

LEMMA SwapIInv == ASSUME IInv, NEW w \in Parts, SwapPart(w) PROVE IInv'
<1> USE DEF IInv, SwapPart, producerVars
<1>1. TypeOK'
      BY DEF TypeOK, Roots
<1>2. OneOwnerPerSlot'
      BY DEF OneOwnerPerSlot
<1>3. FilledByWriter'
  <2>1. slots'[producerIndex] = slots[producerIndex]
        BY DEF OneOwnerPerSlot, TypeOK
  <2> QED BY <2>1 DEF FilledByWriter
<1>4. TakesNewer'
  <2>1. PICK o \in Restores, n \in Restores :
            /\ o <= n /\ n <= published
            /\ state.fresh => n < published
            /\ ~state.fresh => n = published
            /\ \A v \in Parts :
                  /\ live[v] = IF v \in swapped THEN Canonical(n) ELSE Canonical(o)
                  /\ v \notin swapped => slots[consumerIndex][v] = Canonical(n)
        BY DEF TakesNewer
  <2>2. \A v \in Parts :
            /\ live'[v] = IF v \in swapped' THEN Canonical(n) ELSE Canonical(o)
            /\ v \notin swapped' => slots'[consumerIndex'][v] = Canonical(n)
        BY <2>1 DEF TypeOK, Roots
  <2> QED BY <2>1, <2>2 DEF TakesNewer
<1>5. ParkedIsNewest'
  <2>1. slots'[state.index] = slots[state.index]
        BY DEF OneOwnerPerSlot, TypeOK
  <2> QED BY <2>1 DEF ParkedIsNewest
<1> QED BY <1>1, <1>2, <1>3, <1>4, <1>5 DEF IInv

LEMMA FinishIInv == ASSUME IInv, FinishApply PROVE IInv'
<1> USE DEF IInv, FinishApply, mailbox, producerVars
<1>1. TypeOK'
      BY DEF TypeOK
<1>2. OneOwnerPerSlot'
      BY DEF OneOwnerPerSlot
<1>3. FilledByWriter'
      BY DEF FilledByWriter
<1>4. TakesNewer'
  <2>1. PICK n \in Restores :
            /\ n <= published
            /\ state.fresh => n < published
            /\ ~state.fresh => n = published
            /\ \A v \in Parts : live[v] = Canonical(n)
        BY DEF TakesNewer
  <2>2. n <= n
        BY DEF Restores
  <2> QED BY <2>1, <2>2 DEF TakesNewer
<1>5. ParkedIsNewest'
      BY DEF ParkedIsNewest
<1> QED BY <1>1, <1>2, <1>3, <1>4, <1>5 DEF IInv

LEMMA StutterIInv == ASSUME IInv, UNCHANGED vars PROVE IInv'
BY DEF IInv, vars, TypeOK, OneOwnerPerSlot, FilledByWriter, TakesNewer, ParkedIsNewest

LEMMA NextIInv == IInv /\ [Next]_vars => IInv'
<1> SUFFICES ASSUME IInv, [Next]_vars PROVE IInv'
    OBVIOUS
<1>1. ASSUME NEW p \in Producers, Schedule(p) PROVE IInv'
      BY <1>1, LockIInv, CopyIInv, PrepareIInv, PublishIInv DEF Schedule
<1>2. CASE Drain
      BY <1>2, SeeFreshIInv, ClaimIInv, SwapIInv, FinishIInv DEF Drain
<1>3. CASE UNCHANGED vars
      BY <1>3, StutterIInv
<1> QED BY <1>1, <1>2, <1>3 DEF Next

\* The strengthening that the invariants below follow from holds in every
\* reachable state of the mailbox and its client.
THEOREM InductiveInvariant == Spec => []IInv
BY InitIInv, NextIInv, PTL DEF Spec

-----------------------------------------------------------------------------
(* The invariants of OwnershipMailbox.                                     *)

\* Every variable stays in its type: the indices the exchanges hand back and
\* forth always name a buffer.
THEOREM TypeCorrect == Spec => []TypeOK
BY InductiveInvariant, PTL DEF IInv

\* The producer, the mailbox and the render thread never share a buffer.
THEOREM OneOwner == Spec => []OneOwnerPerSlot
BY InductiveInvariant, PTL DEF IInv

LEMMA WholeFromParts ==
    ASSUME TypeOK, NEW r, r \in Roots, NEW n, \A w \in Parts : r[w] = Canonical(n)
    PROVE  r = WholeRoot(n)
BY DEF Roots, WholeRoot, Canonical

LEMMA IInvRenderSees == IInv => RenderSeesWholeCanonicalRoot
<1> SUFFICES ASSUME IInv, render # "owns"
             PROVE  \E n \in Restores : live = WholeRoot(n)
    BY DEF RenderSeesWholeCanonicalRoot
<1>1. PICK n \in Restores : \A w \in Parts : live[w] = Canonical(n)
      BY DEF IInv, TakesNewer
<1> QED BY <1>1, WholeFromParts DEF IInv, TypeOK

\* Outside the swap the live root is one whole canonical root.
THEOREM RenderSeesWhole == Spec => []RenderSeesWholeCanonicalRoot
BY InductiveInvariant, IInvRenderSees, PTL

LEMMA IInvTaken ==
    ASSUME IInv
    PROVE  \E n \in Restores : /\ TakenRoot = WholeRoot(n)
                               /\ ~state.fresh => n = published
<1>1. PICK n \in Restores :
          /\ ~state.fresh => n = published
          /\ render = "owns" => \A w \in Parts :
                /\ w \in swapped => live[w] = Canonical(n)
                /\ w \notin swapped => slots[consumerIndex][w] = Canonical(n)
          /\ render # "owns" => \A w \in Parts : live[w] = Canonical(n)
      BY DEF IInv, TakesNewer
<1>2. TakenRoot = WholeRoot(n)
      BY <1>1 DEF TakenRoot, WholeRoot, Canonical
<1> QED BY <1>1, <1>2

LEMMA IInvNewest == IInv => NewestNeverLost
<1> SUFFICES ASSUME IInv PROVE NewestNeverLost
    OBVIOUS
<1>1. CASE state.fresh
  <2>1. slots[state.index] \in Roots
        BY DEF IInv, TypeOK
  <2> QED BY <1>1, <2>1, WholeFromParts DEF IInv, ParkedIsNewest, NewestNeverLost
<1>2. CASE ~state.fresh
      BY <1>2, IInvTaken DEF NewestNeverLost
<1> QED BY <1>1, <1>2

\* The newest restore is parked fresh or already taken.
THEOREM NewestKept == Spec => []NewestNeverLost
BY InductiveInvariant, IInvNewest, PTL

-----------------------------------------------------------------------------
(* What a step may never do.                                               *)

LEMMA LiveChangesBySwap ==
    ASSUME IInv, [Next]_vars, live' # live
    PROVE  \E w \in Parts : SwapPart(w)
BY DEF Next, Drain, Schedule, SeeFresh, Claim, ClaimAs, FinishApply, LockWriterMutex,
       CopyPart, PreparePart, Publish, PublishAs, mailbox, producerVars, renderVars, vars

LEMMA StepInOrder ==
    IInv /\ [Next]_vars => \A w \in Parts : live'[w].restore >= live[w].restore
<1> SUFFICES ASSUME IInv, [Next]_vars, NEW w \in Parts
             PROVE  live'[w].restore >= live[w].restore
    OBVIOUS
<1>1. live[w] \in PartValues /\ live[w].restore \in Nat
      BY DEF IInv, TypeOK, Roots, PartValues, Restores
<1>2. CASE live'[w] = live[w]
      BY <1>1, <1>2
<1>3. CASE live'[w] # live[w]
  <2>1. PICK v \in Parts : SwapPart(v)
        BY <1>3, LiveChangesBySwap
  <2>2. v = w
        BY <1>3, <2>1 DEF SwapPart, IInv, TypeOK, Roots
  <2>3. PICK o \in Restores, n \in Restores :
            /\ o <= n /\ live[w] = Canonical(o)
            /\ slots[consumerIndex][w] = Canonical(n)
        BY <2>1, <2>2 DEF SwapPart, IInv, TakesNewer
  <2>4. live'[w] = Canonical(n)
        BY <2>1, <2>2, <2>3 DEF SwapPart, IInv, TypeOK, Roots
  <2> QED BY <2>3, <2>4 DEF Canonical, Restores
<1> QED BY <1>2, <1>3

\* No field of the live root goes back to an earlier restore.
THEOREM InOrder == Spec => RestoresInOrder
BY InductiveInvariant, StepInOrder, PTL DEF Spec, RestoresInOrder

-----------------------------------------------------------------------------
(* Implementation of LatestValue.                                          *)

LEMMA InitRefines == Init => LV!LVInit
BY DEF Init, LV!LVInit, TakenRoot, WholeRoot

LEMMA StepRefines == IInv /\ IInv' /\ [Next]_vars => [LV!LVNext]_(LV!lvVars)
<1> SUFFICES ASSUME IInv, IInv', [Next]_vars PROVE [LV!LVNext]_(LV!lvVars)
    OBVIOUS
<1> USE DEF LV!lvVars, LV!LVNext
<1>1. ASSUME NEW p \in Producers, Publish(p) PROVE LV!Offer
  <2>1. UNCHANGED TakenRoot
        BY <1>1 DEF Publish, PublishAs, Filled, renderVars, TakenRoot
  <2> QED BY <1>1, <2>1 DEF Publish, PublishAs, Filled, LV!Offer
<1>2. ASSUME NEW p \in Producers, Schedule(p), ~Publish(p) PROVE UNCHANGED LV!lvVars
  <2>1. UNCHANGED <<published, state, renderVars, consumerIndex>>
        BY <1>2 DEF Schedule, LockWriterMutex, CopyPart, PreparePart, mailbox, renderVars
  <2>2. slots'[consumerIndex] = slots[consumerIndex]
        BY <1>2 DEF Schedule, LockWriterMutex, CopyPart, PreparePart, mailbox, IInv,
                    OneOwnerPerSlot, TypeOK
  <2>3. UNCHANGED TakenRoot
        BY <2>1, <2>2 DEF TakenRoot, renderVars
  <2> QED BY <2>1, <2>3
<1>3. CASE Claim
  <2>1. state.fresh /\ ~state'.fresh /\ published' = published
        BY <1>3 DEF IInv, TakesNewer, Claim, ClaimAs, producerVars
  <2>2. TakenRoot' = slots[state.index]
        BY <1>3, <2>1 DEF Claim, ClaimAs, TakenRoot, IInv, TypeOK, Roots
  <2>3. slots[state.index] = WholeRoot(published)
        BY <2>1, IInvNewest DEF NewestNeverLost
  <2> QED BY <2>1, <2>2, <2>3 DEF LV!Take, IInv, TypeOK
<1>4. ASSUME NEW w \in Parts, SwapPart(w) PROVE UNCHANGED LV!lvVars
  <2>1. UNCHANGED TakenRoot
        BY <1>4 DEF SwapPart, TakenRoot, IInv, TypeOK, Roots
  <2> QED BY <1>4, <2>1 DEF SwapPart, producerVars
<1>5. CASE SeeFresh \/ FinishApply
  <2>1. UNCHANGED TakenRoot
        BY <1>5 DEF SeeFresh, FinishApply, mailbox, TakenRoot
  <2> QED BY <1>5, <2>1 DEF SeeFresh, FinishApply, mailbox, producerVars
<1>6. CASE UNCHANGED vars
      BY <1>6 DEF vars, TakenRoot
<1> QED BY <1>1, <1>2, <1>3, <1>4, <1>5, <1>6 DEF Next, Drain

\* The mailbox with its client implements the latest-value contract.
THEOREM Refinement == Spec => ImplementsLatestValue
BY InitRefines, InductiveInvariant, StepRefines, PTL
   DEF Spec, ImplementsLatestValue, LV!LVSpec
=============================================================================
