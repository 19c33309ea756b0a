-------------------------- MODULE ParameterIngress --------------------------
(***************************************************************************)
(* One parameter of ArpSIDDSPKernel on its way from any thread to the      *)
(* render thread.  setParameter / enqueueParameterIntent writes the atomic *)
(* mirror params_, marks it dirty, draws a generation and queues an intent *)
(* for its sample offset; when the ring is full the intent becomes the     *)
(* packed latest-value fallback instead.  A render block flushes dirty     *)
(* parameters and then, unless the C64 player renders the block, drains    *)
(* the ring and stages the drained intents in order; a block that finds a  *)
(* scheduled state restore first makes the root the parameter's only       *)
(* authority.                                                              *)
(*                                                                         *)
(* Parameters do not interact on this path, so one is modelled.  The ring  *)
(* is the FIFO that BoundedMpscRing implements, of a small capacity.  Each *)
(* access to an atomic of another thread is a step of its own.  No block   *)
(* is larger than kMaxFramesPerBlock (a larger one drains the ring before  *)
(* its chunks flush).                                                      *)
(***************************************************************************)
EXTENDS Naturals, Sequences

CONSTANTS
    Setters,       \* threads that set the parameter
    Values,        \* normalized values after sanitizing, told apart by 1e-6
    Default,       \* the parameter's default value
    RingCapacity,  \* ArpSIDParamIntentRingBuffer::kCap
    MaxRequests,   \* bound on the number of calls
    MaxRestores    \* bound on the number of state restores

ASSUME DefaultAssumption == Default \in Values
ASSUME BoundsAssumption ==
    RingCapacity \in Nat \ {0} /\ MaxRequests \in Nat /\ MaxRestores \in Nat

Generations == 0 .. MaxRequests
Intents == [generation : Generations, value : Values]

\* A bare value, not an intent; a packed fallback of 0 is no fallback.
Bare(v) == [generation |-> 0, value |-> v]
NoFallback == Bare(Default)

VARIABLES
    param,    \* the parameter's atomics: params_ (mirror), dirty_, paramIntentGeneration_,
              \* paramIntentFallbackPacked_, paramIntentAppliedFallbackGeneration_
    ring,     \* paramIntentQueue_
    setter,   \* per thread: where it is in the call, and its intent
    render,   \* the render thread: where it is in processBlock, what it has in hand,
              \* renderParams_ (value), the parameter in runtimeModel_.stateRoot() (model)
    batch,    \* intents of this block, in the order they will be staged
    history   \* calls and restores made, the latest value called for, whether a push
              \* failed, whether a call was taken for a repetition with another in flight,
              \* whether two threads called at once

vars == <<param, ring, setter, render, batch, history>>

Idle == [at |-> "idle", intent |-> NoFallback]

Init ==
    /\ param = [mirror |-> Default, dirty |-> FALSE, generation |-> 0,
                fallback |-> NoFallback, applied |-> 0]
    /\ ring = <<>> /\ batch = <<>>
    /\ setter = [s \in Setters |-> Idle]
    /\ render = [at |-> "idle", work |-> NoFallback, value |-> Default, model |-> Default]
    /\ history = [requests |-> 0, restores |-> 0, last |-> Default,
                  overflowed |-> FALSE, deduplicated |-> FALSE,
                  overlapped |-> FALSE]

\* An earlier call is still on its way to the render thread.
InFlight ==
    \/ \E s \in Setters : setter[s].at # "idle"
    \/ render.at # "idle" \/ ring # <<>> \/ param.dirty

-----------------------------------------------------------------------------
(* enqueueParameterIntent: the steps of a setter thread s.                 *)

\* A value equal to the mirror is taken for already set; otherwise go on.
Request(s, v) ==
    /\ setter[s].at = "idle" /\ history.requests < MaxRequests
    /\ history' = [history EXCEPT !.requests = @ + 1, !.last = v,
                       !.deduplicated = @ \/ (param.mirror = v /\ InFlight),
                       !.overlapped = @ \/ \E t \in Setters : setter[t].at # "idle"]
    /\ setter' = IF param.mirror = v THEN setter
                 ELSE [setter EXCEPT ![s] = [at |-> "mirror", intent |-> Bare(v)]]
    /\ UNCHANGED <<param, ring, render, batch>>

\* A step of the call that changes only the parameter's atomics.
CallStep(s, from, to, newParam) ==
    /\ setter[s].at = from /\ setter' = [setter EXCEPT ![s].at = to]
    /\ param' = newParam
    /\ UNCHANGED <<ring, render, batch, history>>

WriteMirror(s) == CallStep(s, "mirror", "dirty", [param EXCEPT !.mirror = setter[s].intent.value])

MarkDirty(s) == CallStep(s, "dirty", "generation", [param EXCEPT !.dirty = TRUE])

DrawGeneration(s) ==
    /\ setter[s].at = "generation"
    /\ param' = [param EXCEPT !.generation = @ + 1]
    /\ setter' = [setter EXCEPT ![s] = [at |-> "push",
                      intent |-> [@.intent EXCEPT !.generation = param.generation + 1]]]
    /\ UNCHANGED <<ring, render, batch, history>>

PushWithin(s, capacity) ==
    /\ setter[s].at = "push" /\ Len(ring) < capacity
    /\ ring' = Append(ring, setter[s].intent)
    /\ setter' = [setter EXCEPT ![s] = Idle]
    /\ UNCHANGED <<param, render, batch, history>>

\* Mutant: off by one, the ring takes an intent more than it holds.
PushIntent_OneMore(s) == PushWithin(s, RingCapacity + 1)

PushIntent(s) == PushWithin(s, RingCapacity)

PushFails(s) ==
    /\ setter[s].at = "push" /\ Len(ring) >= RingCapacity
    /\ setter' = [setter EXCEPT ![s].at = "fallback"]
    /\ history' = [history EXCEPT !.overflowed = TRUE]
    /\ UNCHANGED <<param, ring, render, batch>>

\* publishParamIntentFallback_: the newest failed intent is kept (the
\* compare-exchange loop), then the parameter is marked dirty.
PublishFallback(s) ==
    CallStep(s, "fallback", "remark",
             IF param.fallback.generation < setter[s].intent.generation
             THEN [param EXCEPT !.fallback = setter[s].intent] ELSE param)

MarkFallbackDirty(s) == CallStep(s, "remark", "idle", [param EXCEPT !.dirty = TRUE])

-----------------------------------------------------------------------------
(* applyStateRootCanonical, at the top of a block: the root v has been      *)
(* swapped in; the queued ingress is scrubbed, the mirror takes the root's  *)
(* value and is flushed into the render snapshot.                           *)

\* A step of the render thread that changes only the parameter's atomics.
BlockStep(from, to, newParam) ==
    /\ render.at = from /\ render' = [render EXCEPT !.at = to]
    /\ param' = newParam
    /\ UNCHANGED <<ring, setter, batch, history>>

StartRestore(v) ==
    /\ render.at = "idle" /\ history.restores < MaxRestores
    /\ history' = [history EXCEPT !.restores = @ + 1]
    /\ render' = [render EXCEPT !.at = "scrub", !.work = Bare(v), !.model = v]
    /\ ring' = <<>>
    /\ UNCHANGED <<param, setter, batch>>

ScrubFallback == BlockStep("scrub", "supersede", [param EXCEPT !.fallback = NoFallback])

\* An intent that drew its generation before the scrub is superseded by it.
SupersedeQueued ==
    BlockStep("supersede", "rootMirror", [param EXCEPT !.applied = param.generation])

RootToMirror == BlockStep("rootMirror", "rootDirty", [param EXCEPT !.mirror = render.work.value])

RootDirty == BlockStep("rootDirty", "rootFlush", [param EXCEPT !.dirty = TRUE])

RootFlush ==
    /\ render.at = "rootFlush"
    /\ render' = [render EXCEPT !.at = "rootClean", !.value = param.mirror]
    /\ UNCHANGED <<param, ring, setter, batch, history>>

RootClean == BlockStep("rootClean", "flush", [param EXCEPT !.dirty = FALSE])

-----------------------------------------------------------------------------
(* flushDirtyParams_, at the start of every block.                          *)

StartBlock == BlockStep("idle", "flush", param)

TakeDirty ==
    BlockStep("flush", IF param.dirty THEN "takeFallback" ELSE "decide",
              [param EXCEPT !.dirty = FALSE])

TakeFallback ==
    /\ render.at = "takeFallback"
    /\ render' = [render EXCEPT !.work = param.fallback,
                      !.at = IF param.fallback = NoFallback THEN "loadMirror"
                                                            ELSE "fallbackMirror"]
    /\ param' = [param EXCEPT !.fallback = NoFallback]
    /\ UNCHANGED <<ring, setter, batch, history>>

LoadMirror ==
    /\ render.at = "loadMirror"
    /\ render' = [render EXCEPT !.at = "storeMirror", !.work = Bare(param.mirror)]
    /\ UNCHANGED <<param, ring, setter, batch, history>>

\* The sanitized value is written back, whatever the mirror holds by now.
StoreMirror ==
    /\ render.at = "storeMirror"
    /\ param' = [param EXCEPT !.mirror = render.work.value]
    /\ render' = [render EXCEPT !.at = "decide", !.value = render.work.value,
                      !.model = render.work.value]
    /\ UNCHANGED <<ring, setter, batch, history>>

FallbackToMirror ==
    BlockStep("fallbackMirror", "markApplied", [param EXCEPT !.mirror = render.work.value])

MarkApplied ==
    BlockStep("markApplied", "stageFallback", [param EXCEPT !.applied = render.work.generation])

-----------------------------------------------------------------------------
(* runtimeStageNormalizedParameterOnly, through the execution owner: the    *)
(* mirror, the render snapshot, the dirty flag and the model, in that order.*)

Stage(from, to, intent) ==
    /\ render.at = from
    /\ render' = [render EXCEPT !.at = to, !.work = intent, !.value = intent.value]
    /\ param' = [param EXCEPT !.mirror = intent.value]
    /\ UNCHANGED <<ring, setter, history>>

FinishWith(from, to, model) ==
    /\ render.at = from
    /\ render' = [render EXCEPT !.at = to, !.model = model]
    /\ param' = [param EXCEPT !.dirty = FALSE]
    /\ UNCHANGED <<ring, setter, batch, history>>

\* Mutant: the state root is not told.
FinishStage_NoModel(from, to) == FinishWith(from, to, render.model)

FinishStage(from, to) == FinishWith(from, to, render.work.value)

StageFallback == Stage("stageFallback", "fallbackStaged", render.work) /\ UNCHANGED batch

FallbackStaged == FinishStage("fallbackStaged", "decide")

-----------------------------------------------------------------------------
(* After the flush processBlock asks renderC64SidplayPathIfActive_: while a *)
(* tune plays, or the C64 player idles, the block returns here.  Otherwise  *)
(* the ring is drained and what was popped is staged.                       *)

RenderTune == BlockStep("decide", "tune", param)

TuneRendered == BlockStep("tune", "idle", param)

StartDrain == BlockStep("decide", "drain", param)

\* Mutant: an intent of the applied generation itself is not superseded.
Superseded_Strictly(intent) == param.applied # 0 /\ intent.generation < param.applied

\* paramIntentWasSupersededByFallback_
Superseded(intent) == param.applied # 0 /\ intent.generation <= param.applied

PopInto(newBatch) ==
    /\ render.at = "drain" /\ ring # <<>>
    /\ ring' = Tail(ring) /\ batch' = newBatch
    /\ UNCHANGED <<param, setter, render, history>>

\* Mutants: a superseded intent goes back to the end of the ring; the intents of
\* a block are staged newest first.
PopIntent_Requeues ==
    /\ render.at = "drain" /\ ring # <<>>
    /\ IF Superseded(Head(ring))
       THEN ring' = Append(Tail(ring), Head(ring)) /\ UNCHANGED batch
       ELSE ring' = Tail(ring) /\ batch' = Append(batch, Head(ring))
    /\ UNCHANGED <<param, setter, render, history>>
PopIntent_NewestFirst ==
    ring # <<>> /\ PopInto(IF Superseded(Head(ring)) THEN batch ELSE <<Head(ring)>> \o batch)

\* The drain loop: pop until the ring is empty, then dispatch.
PopIntent ==
    ring # <<>> /\ PopInto(IF Superseded(Head(ring)) THEN batch ELSE Append(batch, Head(ring)))

DrainDone == ring = <<>> /\ BlockStep("drain", "dispatch", param)

StageIntent ==
    /\ batch # <<>> /\ Stage("dispatch", "intentStaged", Head(batch))
    /\ batch' = Tail(batch)

IntentStaged == FinishStage("intentStaged", "dispatch")

EndBlock == batch = <<>> /\ BlockStep("dispatch", "idle", param)

-----------------------------------------------------------------------------
Call(s) ==
    \/ WriteMirror(s) \/ MarkDirty(s) \/ DrawGeneration(s)
    \/ PushIntent(s) \/ PushFails(s) \/ PublishFallback(s) \/ MarkFallbackDirty(s)

Restore ==
    \/ ScrubFallback \/ SupersedeQueued
    \/ RootToMirror \/ RootDirty \/ RootFlush \/ RootClean

Flush ==
    \/ TakeDirty \/ TakeFallback \/ LoadMirror \/ StoreMirror
    \/ FallbackToMirror \/ MarkApplied \/ StageFallback \/ FallbackStaged

Block == StartBlock \/ Restore \/ Flush
         \/ RenderTune \/ TuneRendered \/ StartDrain
         \/ PopIntent \/ DrainDone \/ StageIntent \/ IntentStaged \/ EndBlock

Next ==
    \/ \E s \in Setters : Call(s) \/ \E v \in Values : Request(s, v)
    \/ \E v \in Values : StartRestore(v)
    \/ Block

Spec == Init /\ [][Next]_vars

\* The host keeps rendering and a call that was made returns; nothing makes a
\* thread call, schedules a restore or ends a tune.
FairSpec == Spec /\ WF_vars(Block) /\ \A s \in Setters : WF_vars(Call(s))

-----------------------------------------------------------------------------
(* Correctness.                                                             *)

\* Where the threads can be, and that the ring never exceeds its capacity.
TypeOK ==
    /\ param \in [mirror : Values, dirty : BOOLEAN, generation : Generations,
                  fallback : Intents, applied : Generations]
    /\ ring \in Seq(Intents) /\ Len(ring) <= RingCapacity /\ batch \in Seq(Intents)
    /\ setter \in [Setters -> [intent : Intents, at : {"idle", "mirror", "dirty",
                      "generation", "push", "fallback", "remark"}]]
    /\ render \in [work : Intents, value : Values, model : Values,
                   at : {"idle", "scrub", "supersede", "rootMirror", "rootDirty",
                         "rootFlush", "rootClean", "flush", "takeFallback", "loadMirror",
                         "storeMirror", "fallbackMirror", "markApplied", "stageFallback",
                         "fallbackStaged", "decide", "tune", "drain", "dispatch", "intentStaged"}]
    /\ history \in [requests : 0 .. MaxRequests, restores : 0 .. MaxRestores,
                    last : Values, overflowed : BOOLEAN, deduplicated : BOOLEAN,
                    overlapped : BOOLEAN]

\* Nothing waits for a later block.
Settled == ~InFlight

\* What the host reads (getParameter), what the engines render with and what a
\* saved state holds are one value once everything has settled, however calls,
\* blocks and restores interleave, as long as the ring never fills up.  (When
\* a push failed, staging an older intent of the block clears the dirty mark that
\* the fallback was published with.)
NoSplitBrain ==
    Settled /\ ~history.overflowed
        => param.mirror = render.value /\ render.value = render.model

\* Whichever thread called last decides the value the engines render with,
\* unless two called at once, a restore came, a push failed, or a call was taken
\* for a repetition although an earlier one was still in flight.
LastRequestWins ==
    /\ Settled /\ history.restores = 0
    /\ ~history.overflowed /\ ~history.deduplicated /\ ~history.overlapped
    => render.value = history.last

\* The same without the last exception: docs/internals/RUNTIME.md says of a call
\* that it is "staged or queued".  The code does not keep this: a call that
\* finds its value in the mirror returns, even when the render thread has only
\* just put it there for an older intent and a newer, different one is queued.
EveryRequestTakesEffect ==
    Settled /\ history.restores = 0 /\ ~history.overflowed => render.value = history.last

\* An intent older than an applied fallback, or drawn before a restore scrubbed
\* the ingress, is never staged after it.
OlderIntentsStaySuperseded ==
    \A i \in 1 .. Len(batch) : batch[i].generation > param.applied

\* A queued intent is popped, unless the C64 player renders a block first; so it
\* is popped once blocks are no longer the player's.  (While a tune plays no block
\* reaches the drain, and a queued intent waits for the tune's end.)
QueuedIntentsDrain ==
    \A g \in 1 .. MaxRequests :
        LET queued == \E i \in 1 .. Len(ring) : ring[i].generation = g
        IN  queued ~> (~queued \/ render.at = "tune")
=============================================================================
