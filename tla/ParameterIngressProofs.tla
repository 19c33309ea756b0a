------------------------ MODULE ParameterIngressProofs ------------------------
(***************************************************************************)
(* Proofs about ParameterIngress for every number of setters, calls and    *)
(* restores, every ring and every set of values.  An intent is live if it  *)
(* was drawn after the last restore or fallback was applied.  As long as   *)
(* none is live (Quiet), what the render thread holds in hand decides      *)
(* which of mirror, snapshot and model agree (Agreement), and as long as   *)
(* calls follow one another the newest of the live ones is the last call   *)
(* (Latest).                                                               *)
(***************************************************************************)
EXTENDS ParameterIngress, FiniteSets, FiniteSetTheorems, SequenceTheorems, TLAPS

Fresh == {i \in Intents : i.generation > 0}
Newer == {i \in Intents : i.generation > param.applied}
Stale == {i \in Intents : i.generation <= param.applied}

RestoreSteps == {"scrub", "supersede", "rootMirror", "rootDirty", "rootFlush", "rootClean"}
FallbackSteps == {"fallbackMirror", "markApplied", "stageFallback", "fallbackStaged"}
RenderSteps == RestoreSteps \cup FallbackSteps \cup
    {"idle", "flush", "takeFallback", "loadMirror", "storeMirror",
     "decide", "tune", "drain", "dispatch", "intentStaged"}
SetterSteps == {"idle", "mirror", "dirty", "generation", "push", "fallback", "remark"}

ParamShape == param \in [mirror : Values, dirty : BOOLEAN, generation : Generations,
                         fallback : Intents, applied : Generations]
SetterShape == setter \in [Setters -> [intent : Intents, at : SetterSteps]]
RenderShape == render \in [work : Intents, value : Values, model : Values, at : RenderSteps]
HistoryShape == history \in [requests : 0 .. MaxRequests, restores : 0 .. MaxRestores,
                             last : Values, overflowed : BOOLEAN, deduplicated : BOOLEAN,
                             overlapped : BOOLEAN]
Shapes == ParamShape /\ SetterShape /\ RenderShape /\ HistoryShape

\* Queued intents have a generation; a block's intents are newer than what was applied.
Sequences == ring \in Seq(Fresh) /\ Len(ring) <= RingCapacity /\ batch \in Seq(Newer)
Drained == render.at \notin {"drain", "dispatch", "intentStaged"} => batch = <<>>

Drawn ==
    /\ param.applied <= param.generation
    /\ param.fallback.generation <= param.generation
    /\ render.at \in {"fallbackMirror", "markApplied"} => render.work.generation <= param.generation
    /\ \A s \in Setters :
          /\ setter[s].intent.generation <= param.generation
          /\ setter[s].at \in {"push", "fallback"} => setter[s].intent \in Fresh

\* Calls that have not drawn a generation yet.
Drawing == {s \in Setters : setter[s].at \in {"mirror", "dirty", "generation"}}
Counted == IsFiniteSet(Drawing) /\ param.generation + Cardinality(Drawing) <= history.requests

IInv == Shapes /\ Sequences /\ Drained /\ Drawn /\ Counted

-----------------------------------------------------------------------------
(* Sequences.                                                              *)

LEMMA EmptySequence == \A S : <<>> \in Seq(S) /\ Len(<<>>) = 0
BY EmptySeq

LEMMA Appended ==
    ASSUME NEW S, NEW q \in Seq(S), NEW e \in S
    PROVE  Append(q, e) \in Seq(S) /\ Len(Append(q, e)) = Len(q) + 1
           /\ Len(q) \in Nat /\ Append(q, e)[Len(Append(q, e))] = e /\ Append(q, e) # <<>>
<1>1. /\ Append(q, e) \in Seq(S) /\ Len(Append(q, e)) = Len(q) + 1
      /\ Append(q, e)[Len(q) + 1] = e
  BY AppendProperties
<1>2. Len(q) \in Nat
  BY LenProperties
<1> QED BY <1>1, <1>2, EmptySeq

LEMMA Taken ==
    ASSUME NEW S, NEW q \in Seq(S), q # <<>>
    PROVE  /\ Head(q) \in S /\ Tail(q) \in Seq(S) /\ Len(Tail(q)) = Len(q) - 1
           /\ Len(q) \in Nat \ {0} /\ Head(q) = q[1]
           /\ Tail(q) = <<>> => q[Len(q)] = Head(q)
           /\ Tail(q) # <<>> => Tail(q)[Len(Tail(q))] = q[Len(q)]
<1>1. /\ Head(q) \in S /\ Tail(q) \in Seq(S) /\ Len(Tail(q)) = Len(q) - 1
      /\ \A i \in 1 .. Len(Tail(q)) : Tail(q)[i] = q[i + 1]
  BY HeadTailProperties
<1>2. Len(q) \in Nat \ {0} /\ Head(q) = q[1]
  BY EmptySeq
<1>3. Tail(q) = <<>> => Len(q) = 1
  BY <1>1, <1>2, EmptySeq
<1>4. Tail(q) # <<>> => Len(Tail(q)) \in Nat \ {0}
  BY <1>1, EmptySeq
<1> QED BY <1>1, <1>2, <1>3, <1>4

LEMMA Widened ==
    ASSUME NEW S, NEW T, S \subseteq T, NEW q \in Seq(S)
    PROVE  q \in Seq(T)
BY SeqDef, LenProperties, ElementOfSeq

LEMMA Whole ==
    ASSUME NEW S, NEW T, NEW q \in Seq(S)
    PROVE  /\ \A e \in S : Append(q, e) \in Seq(T) => q \in Seq(T) /\ e \in T
           /\ q # <<>> /\ Head(q) \in T /\ Tail(q) \in Seq(T) => q \in Seq(T)
<1>1. ASSUME \A i \in 1 .. Len(q) : q[i] \in T
      PROVE  q \in Seq(T)
  BY <1>1, SeqDef, LenProperties
<1>2. ASSUME NEW e \in S, Append(q, e) \in Seq(T) PROVE q \in Seq(T) /\ e \in T
  <2>1. /\ Len(q) \in Nat /\ Len(Append(q, e)) = Len(q) + 1
        /\ \A i \in 1 .. Len(q) : Append(q, e)[i] = q[i]
        /\ Append(q, e)[Len(q) + 1] = e
    BY AppendProperties, LenProperties
  <2>2. \A i \in 1 .. Len(q) + 1 : Append(q, e)[i] \in T
    BY <1>2, <2>1, ElementOfSeq
  <2> QED BY <1>1, <2>1, <2>2
<1>3. ASSUME q # <<>>, Head(q) \in T, Tail(q) \in Seq(T) PROVE q \in Seq(T)
  <2>1. /\ Len(q) \in Nat \ {0} /\ Head(q) = q[1] /\ Len(Tail(q)) = Len(q) - 1
        /\ \A i \in 1 .. Len(Tail(q)) : Tail(q)[i] = q[i + 1]
    BY <1>3, HeadTailProperties, EmptySeq
  <2>2. \A i \in 1 .. Len(Tail(q)) : Tail(q)[i] \in T
    BY <1>3, ElementOfSeq
  <2>3. ASSUME NEW i \in 1 .. Len(q), i # 1 PROVE q[i] \in T
    <3>1. i - 1 \in 1 .. Len(Tail(q)) /\ q[(i - 1) + 1] = q[i]
      BY <2>1, <2>3
    <3> QED BY <2>1, <2>2, <3>1
  <2> QED BY <1>1, <1>3, <2>1, <2>3
<1> QED BY <1>2, <1>3

-----------------------------------------------------------------------------
(* Types, and which intents there are.                                     *)

LEMMA BareValues ==
    /\ \A v \in Values : Bare(v) \in Intents /\ Bare(v).generation = 0 /\ Bare(v).value = v
    /\ NoFallback \in Intents /\ NoFallback.generation = 0
BY DefaultAssumption, BoundsAssumption DEF Bare, NoFallback, Intents, Generations

LEMMA InitInvariant == Init => IInv
<1> SUFFICES ASSUME Init PROVE IInv
  OBVIOUS
<1> USE DEF Init, Idle
<1>1. NoFallback \in Intents /\ NoFallback.generation = 0 /\ 0 \in Generations
  BY BareValues, DefaultAssumption, BoundsAssumption DEF NoFallback, Generations
<1>2. ParamShape /\ SetterShape /\ RenderShape /\ HistoryShape
  BY <1>1, DefaultAssumption, BoundsAssumption
     DEF ParamShape, SetterShape, RenderShape, HistoryShape, RenderSteps, SetterSteps
<1>3. Sequences /\ Drained
  BY EmptySequence, BoundsAssumption DEF Sequences, Drained
<1>4. Drawn
  BY <1>1 DEF Drawn
<1>5. Counted
  <2>1. Drawing = {}
    BY DEF Drawing
  <2> QED BY <2>1, FS_EmptySet, BoundsAssumption DEF Counted
<1> QED BY <1>2, <1>3, <1>4, <1>5 DEF IInv, Shapes

LEMMA Components ==
    ASSUME Shapes
    PROVE  /\ \A i \in Intents : i.value \in Values /\ i.generation \in Generations
           /\ \A s \in Setters : setter[s] \in [intent : Intents, at : SetterSteps]
           /\ \A s \in Setters : setter[s].intent \in Intents
           /\ render.work \in Intents /\ render.work.value \in Values
           /\ param.fallback \in Intents
           /\ param.mirror \in Values /\ render.value \in Values /\ render.model \in Values
BY DEF Shapes, ParamShape, SetterShape, RenderShape, Intents

LEMMA Queued ==
    ASSUME Sequences
    PROVE  /\ ring # <<>> => Head(ring) \in Intents /\ Head(ring).generation > 0
           /\ batch # <<>> => Head(batch) \in Intents /\ Head(batch).generation > param.applied
                              /\ Head(batch).value \in Values
BY Taken DEF Sequences, Fresh, Newer, Intents

\* A setter about to draw a generation leaves room for it.
LEMMA RoomToDraw ==
    ASSUME IInv, NEW s \in Setters, setter[s].at = "generation"
    PROVE  param.generation + 1 \in Generations /\ param.generation + 1 \in Nat
<1>1. s \in Drawing
  BY DEF Drawing
<1>2. Cardinality(Drawing) \in Nat /\ Cardinality(Drawing) # 0
  BY <1>1, FS_CardinalityType, FS_EmptySet DEF IInv, Counted
<1>3. param.generation \in Nat /\ history.requests \in 0 .. MaxRequests
  BY BoundsAssumption DEF IInv, Shapes, ParamShape, HistoryShape, Generations
<1> QED BY <1>2, <1>3, BoundsAssumption DEF IInv, Counted, Generations

LEMMA ParamStep == IInv /\ [Next]_vars => ParamShape'
<1> SUFFICES ASSUME IInv, [Next]_vars PROVE ParamShape'
  OBVIOUS
<1>0. Shapes /\ ParamShape
  BY DEF IInv, Shapes
<1> USE Components, BareValues, <1>0 DEF ParamShape
<1>1. ASSUME NEW s \in Setters, NEW v \in Values, Request(s, v) PROVE ParamShape'
  BY <1>1 DEF Request, Idle
<1>2. ASSUME NEW s \in Setters, Call(s) PROVE ParamShape'
  <2>1. CASE WriteMirror(s) BY <2>1 DEF WriteMirror, CallStep
  <2>2. CASE MarkDirty(s) BY <2>2 DEF MarkDirty, CallStep
  <2>3. CASE DrawGeneration(s)
    BY <2>3, RoomToDraw DEF DrawGeneration
  <2>4. CASE PushIntent(s) BY <2>4 DEF PushIntent, PushWithin, Idle
  <2>5. CASE PushFails(s) BY <2>5 DEF PushFails
  <2>6. CASE PublishFallback(s) BY <2>6 DEF PublishFallback, CallStep
  <2>7. CASE MarkFallbackDirty(s) BY <2>7 DEF MarkFallbackDirty, CallStep
  <2> QED BY <1>2, <2>1, <2>2, <2>3, <2>4, <2>5, <2>6, <2>7 DEF Call
<1>3. ASSUME NEW v \in Values, StartRestore(v) PROVE ParamShape'
  BY <1>3 DEF StartRestore, Bare
<1>4. CASE Restore
  <2>1. CASE ScrubFallback BY <2>1 DEF ScrubFallback, BlockStep
  <2>2. CASE SupersedeQueued BY <2>2 DEF SupersedeQueued, BlockStep
  <2>3. CASE RootToMirror BY <2>3 DEF RootToMirror, BlockStep
  <2>4. CASE RootDirty BY <2>4 DEF RootDirty, BlockStep
  <2>5. CASE RootFlush BY <2>5 DEF RootFlush
  <2>6. CASE RootClean BY <2>6 DEF RootClean, BlockStep
  <2> QED BY <1>4, <2>1, <2>2, <2>3, <2>4, <2>5, <2>6 DEF Restore
<1>5. CASE Flush
  <2>1. CASE TakeDirty BY <2>1 DEF TakeDirty, BlockStep
  <2>2. CASE TakeFallback BY <2>2 DEF TakeFallback
  <2>3. CASE LoadMirror BY <2>3 DEF LoadMirror, Bare
  <2>4. CASE StoreMirror BY <2>4 DEF StoreMirror
  <2>5. CASE FallbackToMirror BY <2>5 DEF FallbackToMirror, BlockStep
  <2>6. CASE MarkApplied BY <2>6 DEF MarkApplied, BlockStep
  <2>7. CASE StageFallback BY <2>7 DEF StageFallback, Stage
  <2>8. CASE FallbackStaged BY <2>8 DEF FallbackStaged, FinishStage, FinishWith
  <2> QED BY <1>5, <2>1, <2>2, <2>3, <2>4, <2>5, <2>6, <2>7, <2>8 DEF Flush
<1>6. CASE StartBlock BY <1>6 DEF StartBlock, BlockStep
<1>7. CASE PopIntent BY <1>7 DEF PopIntent, PopInto
<1>8. CASE DrainDone BY <1>8 DEF DrainDone, BlockStep
<1>9. CASE StageIntent
  <2>1. Sequences
    BY DEF IInv
  <2> QED BY <1>9, <2>1, Queued DEF StageIntent, Stage
<1>10. CASE IntentStaged BY <1>10 DEF IntentStaged, FinishStage, FinishWith
<1>11. CASE EndBlock BY <1>11 DEF EndBlock, BlockStep
<1>12. CASE RenderTune \/ TuneRendered \/ StartDrain
  BY <1>12 DEF RenderTune, TuneRendered, StartDrain, BlockStep
<1>13. CASE UNCHANGED vars BY <1>13 DEF vars
<1> QED BY <1>1, <1>2, <1>3, <1>4, <1>5, <1>6, <1>7, <1>8, <1>9, <1>10, <1>11, <1>12, <1>13 DEF Next, Block

LEMMA SetterStep == IInv /\ [Next]_vars => SetterShape'
<1> SUFFICES ASSUME IInv, [Next]_vars PROVE SetterShape'
  OBVIOUS
<1>0. Shapes /\ SetterShape
  BY DEF IInv, Shapes
<1> USE Components, BareValues, <1>0 DEF SetterShape, SetterSteps
<1>1. ASSUME NEW s \in Setters, NEW v \in Values, Request(s, v) PROVE SetterShape'
  BY <1>1 DEF Request, Idle
<1>2. ASSUME NEW s \in Setters, Call(s) PROVE SetterShape'
  <2>1. CASE WriteMirror(s) BY <2>1 DEF WriteMirror, CallStep
  <2>2. CASE MarkDirty(s) BY <2>2 DEF MarkDirty, CallStep
  <2>3. CASE DrawGeneration(s)
    <3>1. param.generation + 1 \in Generations
      BY <2>3, RoomToDraw DEF DrawGeneration
    <3>2. [setter[s].intent EXCEPT !.generation = param.generation + 1] \in Intents
      BY <3>1 DEF Intents
    <3> QED BY <2>3, <3>2 DEF DrawGeneration
  <2>4. CASE PushIntent(s) BY <2>4 DEF PushIntent, PushWithin, Idle
  <2>5. CASE PushFails(s) BY <2>5 DEF PushFails
  <2>6. CASE PublishFallback(s) BY <2>6 DEF PublishFallback, CallStep
  <2>7. CASE MarkFallbackDirty(s) BY <2>7 DEF MarkFallbackDirty, CallStep
  <2> QED BY <1>2, <2>1, <2>2, <2>3, <2>4, <2>5, <2>6, <2>7 DEF Call
<1>3. ASSUME NEW v \in Values, StartRestore(v) PROVE SetterShape'
  BY <1>3 DEF StartRestore, Bare
<1>4. CASE Restore
  <2>1. CASE ScrubFallback BY <2>1 DEF ScrubFallback, BlockStep
  <2>2. CASE SupersedeQueued BY <2>2 DEF SupersedeQueued, BlockStep
  <2>3. CASE RootToMirror BY <2>3 DEF RootToMirror, BlockStep
  <2>4. CASE RootDirty BY <2>4 DEF RootDirty, BlockStep
  <2>5. CASE RootFlush BY <2>5 DEF RootFlush
  <2>6. CASE RootClean BY <2>6 DEF RootClean, BlockStep
  <2> QED BY <1>4, <2>1, <2>2, <2>3, <2>4, <2>5, <2>6 DEF Restore
<1>5. CASE Flush
  <2>1. CASE TakeDirty BY <2>1 DEF TakeDirty, BlockStep
  <2>2. CASE TakeFallback BY <2>2 DEF TakeFallback
  <2>3. CASE LoadMirror BY <2>3 DEF LoadMirror, Bare
  <2>4. CASE StoreMirror BY <2>4 DEF StoreMirror
  <2>5. CASE FallbackToMirror BY <2>5 DEF FallbackToMirror, BlockStep
  <2>6. CASE MarkApplied BY <2>6 DEF MarkApplied, BlockStep
  <2>7. CASE StageFallback BY <2>7 DEF StageFallback, Stage
  <2>8. CASE FallbackStaged BY <2>8 DEF FallbackStaged, FinishStage, FinishWith
  <2> QED BY <1>5, <2>1, <2>2, <2>3, <2>4, <2>5, <2>6, <2>7, <2>8 DEF Flush
<1>6. CASE StartBlock BY <1>6 DEF StartBlock, BlockStep
<1>7. CASE PopIntent BY <1>7 DEF PopIntent, PopInto
<1>8. CASE DrainDone BY <1>8 DEF DrainDone, BlockStep
<1>9. CASE StageIntent BY <1>9 DEF StageIntent, Stage
<1>10. CASE IntentStaged BY <1>10 DEF IntentStaged, FinishStage, FinishWith
<1>11. CASE EndBlock BY <1>11 DEF EndBlock, BlockStep
<1>12. CASE RenderTune \/ TuneRendered \/ StartDrain
  BY <1>12 DEF RenderTune, TuneRendered, StartDrain, BlockStep
<1>13. CASE UNCHANGED vars BY <1>13 DEF vars
<1> QED BY <1>1, <1>2, <1>3, <1>4, <1>5, <1>6, <1>7, <1>8, <1>9, <1>10, <1>11, <1>12, <1>13 DEF Next, Block

LEMMA RenderStep == IInv /\ [Next]_vars => RenderShape'
<1> SUFFICES ASSUME IInv, [Next]_vars PROVE RenderShape'
  OBVIOUS
<1>0. Shapes /\ RenderShape
  BY DEF IInv, Shapes
<1> USE Components, BareValues, <1>0 DEF RenderShape, RenderSteps, RestoreSteps, FallbackSteps
<1>1. ASSUME NEW s \in Setters, NEW v \in Values, Request(s, v) PROVE RenderShape'
  BY <1>1 DEF Request, Idle
<1>2. ASSUME NEW s \in Setters, Call(s) PROVE RenderShape'
  <2>1. CASE WriteMirror(s) BY <2>1 DEF WriteMirror, CallStep
  <2>2. CASE MarkDirty(s) BY <2>2 DEF MarkDirty, CallStep
  <2>3. CASE DrawGeneration(s) BY <2>3 DEF DrawGeneration
  <2>4. CASE PushIntent(s) BY <2>4 DEF PushIntent, PushWithin, Idle
  <2>5. CASE PushFails(s) BY <2>5 DEF PushFails
  <2>6. CASE PublishFallback(s) BY <2>6 DEF PublishFallback, CallStep
  <2>7. CASE MarkFallbackDirty(s) BY <2>7 DEF MarkFallbackDirty, CallStep
  <2> QED BY <1>2, <2>1, <2>2, <2>3, <2>4, <2>5, <2>6, <2>7 DEF Call
<1>3. ASSUME NEW v \in Values, StartRestore(v) PROVE RenderShape'
  BY <1>3 DEF StartRestore, Bare
<1>4. CASE Restore
  <2>1. CASE ScrubFallback BY <2>1 DEF ScrubFallback, BlockStep
  <2>2. CASE SupersedeQueued BY <2>2 DEF SupersedeQueued, BlockStep
  <2>3. CASE RootToMirror BY <2>3 DEF RootToMirror, BlockStep
  <2>4. CASE RootDirty BY <2>4 DEF RootDirty, BlockStep
  <2>5. CASE RootFlush BY <2>5 DEF RootFlush
  <2>6. CASE RootClean BY <2>6 DEF RootClean, BlockStep
  <2> QED BY <1>4, <2>1, <2>2, <2>3, <2>4, <2>5, <2>6 DEF Restore
<1>5. CASE Flush
  <2>1. CASE TakeDirty BY <2>1 DEF TakeDirty, BlockStep
  <2>2. CASE TakeFallback BY <2>2 DEF TakeFallback
  <2>3. CASE LoadMirror BY <2>3 DEF LoadMirror, Bare
  <2>4. CASE StoreMirror BY <2>4 DEF StoreMirror
  <2>5. CASE FallbackToMirror BY <2>5 DEF FallbackToMirror, BlockStep
  <2>6. CASE MarkApplied BY <2>6 DEF MarkApplied, BlockStep
  <2>7. CASE StageFallback BY <2>7 DEF StageFallback, Stage
  <2>8. CASE FallbackStaged BY <2>8 DEF FallbackStaged, FinishStage, FinishWith
  <2> QED BY <1>5, <2>1, <2>2, <2>3, <2>4, <2>5, <2>6, <2>7, <2>8 DEF Flush
<1>6. CASE StartBlock BY <1>6 DEF StartBlock, BlockStep
<1>7. CASE PopIntent BY <1>7 DEF PopIntent, PopInto
<1>8. CASE DrainDone BY <1>8 DEF DrainDone, BlockStep
<1>9. CASE StageIntent
  <2>1. Sequences
    BY DEF IInv
  <2> QED BY <1>9, <2>1, Queued DEF StageIntent, Stage
<1>10. CASE IntentStaged BY <1>10 DEF IntentStaged, FinishStage, FinishWith
<1>11. CASE EndBlock BY <1>11 DEF EndBlock, BlockStep
<1>12. CASE RenderTune \/ TuneRendered \/ StartDrain
  BY <1>12 DEF RenderTune, TuneRendered, StartDrain, BlockStep
<1>13. CASE UNCHANGED vars BY <1>13 DEF vars
<1> QED BY <1>1, <1>2, <1>3, <1>4, <1>5, <1>6, <1>7, <1>8, <1>9, <1>10, <1>11, <1>12, <1>13 DEF Next, Block

LEMMA HistoryStep == IInv /\ [Next]_vars => HistoryShape'
<1> SUFFICES ASSUME IInv, [Next]_vars PROVE HistoryShape'
  OBVIOUS
<1>0. HistoryShape
  BY DEF IInv, Shapes
<1> USE <1>0, BoundsAssumption DEF HistoryShape
<1>1. ASSUME NEW s \in Setters, NEW v \in Values, Request(s, v) PROVE HistoryShape'
  <2>1. history.requests + 1 \in 0 .. MaxRequests
    BY <1>1 DEF Request
  <2>2. history' = [history EXCEPT !.requests = @ + 1, !.last = v,
                        !.deduplicated = history'.deduplicated,
                        !.overlapped = history'.overlapped]
        /\ history'.deduplicated \in BOOLEAN /\ history'.overlapped \in BOOLEAN
    BY <1>1 DEF Request
  <2> QED BY <2>1, <2>2
<1>2. ASSUME NEW s \in Setters, Call(s) PROVE HistoryShape'
  <2>1. CASE WriteMirror(s) BY <2>1 DEF WriteMirror, CallStep
  <2>2. CASE MarkDirty(s) BY <2>2 DEF MarkDirty, CallStep
  <2>3. CASE DrawGeneration(s) BY <2>3 DEF DrawGeneration
  <2>4. CASE PushIntent(s) BY <2>4 DEF PushIntent, PushWithin, Idle
  <2>5. CASE PushFails(s) BY <2>5 DEF PushFails
  <2>6. CASE PublishFallback(s) BY <2>6 DEF PublishFallback, CallStep
  <2>7. CASE MarkFallbackDirty(s) BY <2>7 DEF MarkFallbackDirty, CallStep
  <2> QED BY <1>2, <2>1, <2>2, <2>3, <2>4, <2>5, <2>6, <2>7 DEF Call
<1>3. ASSUME NEW v \in Values, StartRestore(v) PROVE HistoryShape'
  BY <1>3 DEF StartRestore, Bare
<1>4. CASE Restore
  <2>1. CASE ScrubFallback BY <2>1 DEF ScrubFallback, BlockStep
  <2>2. CASE SupersedeQueued BY <2>2 DEF SupersedeQueued, BlockStep
  <2>3. CASE RootToMirror BY <2>3 DEF RootToMirror, BlockStep
  <2>4. CASE RootDirty BY <2>4 DEF RootDirty, BlockStep
  <2>5. CASE RootFlush BY <2>5 DEF RootFlush
  <2>6. CASE RootClean BY <2>6 DEF RootClean, BlockStep
  <2> QED BY <1>4, <2>1, <2>2, <2>3, <2>4, <2>5, <2>6 DEF Restore
<1>5. CASE Flush
  <2>1. CASE TakeDirty BY <2>1 DEF TakeDirty, BlockStep
  <2>2. CASE TakeFallback BY <2>2 DEF TakeFallback
  <2>3. CASE LoadMirror BY <2>3 DEF LoadMirror, Bare
  <2>4. CASE StoreMirror BY <2>4 DEF StoreMirror
  <2>5. CASE FallbackToMirror BY <2>5 DEF FallbackToMirror, BlockStep
  <2>6. CASE MarkApplied BY <2>6 DEF MarkApplied, BlockStep
  <2>7. CASE StageFallback BY <2>7 DEF StageFallback, Stage
  <2>8. CASE FallbackStaged BY <2>8 DEF FallbackStaged, FinishStage, FinishWith
  <2> QED BY <1>5, <2>1, <2>2, <2>3, <2>4, <2>5, <2>6, <2>7, <2>8 DEF Flush
<1>6. CASE StartBlock BY <1>6 DEF StartBlock, BlockStep
<1>7. CASE PopIntent BY <1>7 DEF PopIntent, PopInto
<1>8. CASE DrainDone BY <1>8 DEF DrainDone, BlockStep
<1>9. CASE StageIntent BY <1>9 DEF StageIntent, Stage
<1>10. CASE IntentStaged BY <1>10 DEF IntentStaged, FinishStage, FinishWith
<1>11. CASE EndBlock BY <1>11 DEF EndBlock, BlockStep
<1>12. CASE RenderTune \/ TuneRendered \/ StartDrain
  BY <1>12 DEF RenderTune, TuneRendered, StartDrain, BlockStep
<1>13. CASE UNCHANGED vars BY <1>13 DEF vars
<1> QED BY <1>1, <1>2, <1>3, <1>4, <1>5, <1>6, <1>7, <1>8, <1>9, <1>10, <1>11, <1>12, <1>13 DEF Next, Block

LEMMA SequencesStep == IInv /\ [Next]_vars => Sequences'
<1> SUFFICES ASSUME IInv, [Next]_vars PROVE Sequences'
  OBVIOUS
<1>0. /\ Sequences /\ Drained /\ ParamShape
      /\ param'.applied = param.applied => Newer' = Newer
  BY DEF IInv, Shapes, Newer
<1> USE EmptySequence, <1>0, BoundsAssumption DEF Sequences, ParamShape
<1>1. ASSUME NEW s \in Setters, NEW v \in Values, Request(s, v) PROVE Sequences'
  BY <1>1 DEF Request, Idle
<1>2. ASSUME NEW s \in Setters, Call(s) PROVE Sequences'
  <2>1. CASE WriteMirror(s) BY <2>1 DEF WriteMirror, CallStep
  <2>2. CASE MarkDirty(s) BY <2>2 DEF MarkDirty, CallStep
  <2>3. CASE DrawGeneration(s) BY <2>3 DEF DrawGeneration
  <2>4. CASE PushIntent(s)
    <3>1. setter[s].intent \in Fresh
      BY <2>4 DEF PushIntent, PushWithin, IInv, Drawn
    <3> QED BY <2>4, <3>1, Appended DEF PushIntent, PushWithin
  <2>5. CASE PushFails(s) BY <2>5 DEF PushFails
  <2>6. CASE PublishFallback(s) BY <2>6 DEF PublishFallback, CallStep
  <2>7. CASE MarkFallbackDirty(s) BY <2>7 DEF MarkFallbackDirty, CallStep
  <2> QED BY <1>2, <2>1, <2>2, <2>3, <2>4, <2>5, <2>6, <2>7 DEF Call
<1>3. ASSUME NEW v \in Values, StartRestore(v) PROVE Sequences'
  BY <1>3 DEF StartRestore, Bare
<1>4. CASE Restore
  <2>1. CASE ScrubFallback BY <2>1 DEF ScrubFallback, BlockStep
  <2>2. CASE SupersedeQueued
    <3>1. batch' = <<>> /\ ring' = ring
      BY <2>2 DEF SupersedeQueued, BlockStep, Drained
    <3>2. <<>> \in Seq(Newer')
      BY EmptySequence
    <3> QED BY <3>1, <3>2
  <2>3. CASE RootToMirror BY <2>3 DEF RootToMirror, BlockStep
  <2>4. CASE RootDirty BY <2>4 DEF RootDirty, BlockStep
  <2>5. CASE RootFlush BY <2>5 DEF RootFlush
  <2>6. CASE RootClean BY <2>6 DEF RootClean, BlockStep
  <2> QED BY <1>4, <2>1, <2>2, <2>3, <2>4, <2>5, <2>6 DEF Restore
<1>5. CASE Flush
  <2>1. CASE TakeDirty BY <2>1 DEF TakeDirty, BlockStep
  <2>2. CASE TakeFallback BY <2>2 DEF TakeFallback
  <2>3. CASE LoadMirror BY <2>3 DEF LoadMirror, Bare
  <2>4. CASE StoreMirror BY <2>4 DEF StoreMirror
  <2>5. CASE FallbackToMirror BY <2>5 DEF FallbackToMirror, BlockStep
  <2>6. CASE MarkApplied
    <3>1. batch' = <<>> /\ ring' = ring
      BY <2>6 DEF MarkApplied, BlockStep, Drained
    <3>2. <<>> \in Seq(Newer')
      BY EmptySequence
    <3> QED BY <3>1, <3>2
  <2>7. CASE StageFallback BY <2>7 DEF StageFallback, Stage
  <2>8. CASE FallbackStaged BY <2>8 DEF FallbackStaged, FinishStage, FinishWith
  <2> QED BY <1>5, <2>1, <2>2, <2>3, <2>4, <2>5, <2>6, <2>7, <2>8 DEF Flush
<1>6. CASE StartBlock BY <1>6 DEF StartBlock, BlockStep
<1>7. CASE PopIntent
  <2>1. ring # <<>> /\ Head(ring) \in Fresh /\ Tail(ring) \in Seq(Fresh)
        /\ Len(Tail(ring)) <= RingCapacity
    BY <1>7, Taken DEF PopIntent
  <2>2. CASE Superseded(Head(ring))
    BY <1>7, <2>1, <2>2 DEF PopIntent, PopInto
  <2>3. CASE ~Superseded(Head(ring))
    <3>1. Head(ring) \in Newer
      BY <2>1, <2>3 DEF Superseded, Fresh, Newer, Intents, Generations
    <3> QED BY <1>7, <2>1, <2>3, <3>1, Appended DEF PopIntent, PopInto
  <2> QED BY <2>2, <2>3
<1>8. CASE DrainDone BY <1>8 DEF DrainDone, BlockStep
<1>9. CASE StageIntent
  BY <1>9, Taken DEF StageIntent, Stage
<1>10. CASE IntentStaged BY <1>10 DEF IntentStaged, FinishStage, FinishWith
<1>11. CASE EndBlock BY <1>11 DEF EndBlock, BlockStep
<1>12. CASE RenderTune \/ TuneRendered \/ StartDrain
  BY <1>12 DEF RenderTune, TuneRendered, StartDrain, BlockStep
<1>13. CASE UNCHANGED vars BY <1>13 DEF vars
<1> QED BY <1>1, <1>2, <1>3, <1>4, <1>5, <1>6, <1>7, <1>8, <1>9, <1>10, <1>11, <1>12, <1>13 DEF Next, Block

LEMMA DrainedStep == IInv /\ [Next]_vars => Drained'
<1> SUFFICES ASSUME IInv, [Next]_vars PROVE Drained'
  OBVIOUS
<1>0. Drained /\ RenderShape
  BY DEF IInv, Shapes
<1> USE <1>0 DEF Drained, RenderShape
<1>1. ASSUME NEW s \in Setters, NEW v \in Values, Request(s, v) PROVE Drained'
  BY <1>1 DEF Request, Idle
<1>2. ASSUME NEW s \in Setters, Call(s) PROVE Drained'
  <2>1. CASE WriteMirror(s) BY <2>1 DEF WriteMirror, CallStep
  <2>2. CASE MarkDirty(s) BY <2>2 DEF MarkDirty, CallStep
  <2>3. CASE DrawGeneration(s) BY <2>3 DEF DrawGeneration
  <2>4. CASE PushIntent(s) BY <2>4 DEF PushIntent, PushWithin, Idle
  <2>5. CASE PushFails(s) BY <2>5 DEF PushFails
  <2>6. CASE PublishFallback(s) BY <2>6 DEF PublishFallback, CallStep
  <2>7. CASE MarkFallbackDirty(s) BY <2>7 DEF MarkFallbackDirty, CallStep
  <2> QED BY <1>2, <2>1, <2>2, <2>3, <2>4, <2>5, <2>6, <2>7 DEF Call
<1>3. ASSUME NEW v \in Values, StartRestore(v) PROVE Drained'
  BY <1>3 DEF StartRestore, Bare
<1>4. CASE Restore
  <2>1. CASE ScrubFallback BY <2>1 DEF ScrubFallback, BlockStep
  <2>2. CASE SupersedeQueued BY <2>2 DEF SupersedeQueued, BlockStep
  <2>3. CASE RootToMirror BY <2>3 DEF RootToMirror, BlockStep
  <2>4. CASE RootDirty BY <2>4 DEF RootDirty, BlockStep
  <2>5. CASE RootFlush BY <2>5 DEF RootFlush
  <2>6. CASE RootClean BY <2>6 DEF RootClean, BlockStep
  <2> QED BY <1>4, <2>1, <2>2, <2>3, <2>4, <2>5, <2>6 DEF Restore
<1>5. CASE Flush
  <2>1. CASE TakeDirty BY <2>1 DEF TakeDirty, BlockStep
  <2>2. CASE TakeFallback BY <2>2 DEF TakeFallback
  <2>3. CASE LoadMirror BY <2>3 DEF LoadMirror, Bare
  <2>4. CASE StoreMirror BY <2>4 DEF StoreMirror
  <2>5. CASE FallbackToMirror BY <2>5 DEF FallbackToMirror, BlockStep
  <2>6. CASE MarkApplied BY <2>6 DEF MarkApplied, BlockStep
  <2>7. CASE StageFallback BY <2>7 DEF StageFallback, Stage
  <2>8. CASE FallbackStaged BY <2>8 DEF FallbackStaged, FinishStage, FinishWith
  <2> QED BY <1>5, <2>1, <2>2, <2>3, <2>4, <2>5, <2>6, <2>7, <2>8 DEF Flush
<1>6. CASE StartBlock BY <1>6 DEF StartBlock, BlockStep
<1>7. CASE PopIntent BY <1>7 DEF PopIntent, PopInto
<1>8. CASE DrainDone BY <1>8 DEF DrainDone, BlockStep
<1>9. CASE StageIntent BY <1>9 DEF StageIntent, Stage
<1>10. CASE IntentStaged BY <1>10 DEF IntentStaged, FinishStage, FinishWith
<1>11. CASE EndBlock BY <1>11 DEF EndBlock, BlockStep
<1>12. CASE RenderTune \/ TuneRendered \/ StartDrain
  BY <1>12 DEF RenderTune, TuneRendered, StartDrain, BlockStep
<1>13. CASE UNCHANGED vars BY <1>13 DEF vars
<1> QED BY <1>1, <1>2, <1>3, <1>4, <1>5, <1>6, <1>7, <1>8, <1>9, <1>10, <1>11, <1>12, <1>13 DEF Next, Block

LEMMA DrawnStep == IInv /\ [Next]_vars => Drawn'
<1> SUFFICES ASSUME IInv, [Next]_vars PROVE Drawn'
  OBVIOUS
<1>0. /\ Drawn /\ ParamShape /\ SetterShape /\ RenderShape /\ Shapes
      /\ param.generation \in Nat
  BY DEF IInv, Shapes, ParamShape, Generations
<1> USE Components, BareValues, <1>0 DEF Drawn, ParamShape, SetterShape, RenderShape
<1>1. ASSUME NEW s \in Setters, NEW v \in Values, Request(s, v) PROVE Drawn'
  BY <1>1 DEF Request, Idle
<1>2. ASSUME NEW s \in Setters, Call(s) PROVE Drawn'
  <2>1. CASE WriteMirror(s) BY <2>1 DEF WriteMirror, CallStep
  <2>2. CASE MarkDirty(s) BY <2>2 DEF MarkDirty, CallStep
  <2>3. CASE DrawGeneration(s)
    <3> DEFINE drawn == [setter[s].intent EXCEPT !.generation = param.generation + 1]
    <3>1. param.generation + 1 \in Generations /\ param' = [param EXCEPT !.generation = @ + 1]
          /\ setter' = [setter EXCEPT ![s] = [at |-> "push", intent |-> drawn]]
          /\ render' = render
      BY <2>3, RoomToDraw DEF DrawGeneration
    <3>2. drawn \in Fresh /\ drawn.generation = param.generation + 1
      BY <3>1 DEF Fresh, Intents
    <3>3. \A i \in Intents : i.generation \in Nat
      BY DEF Generations
    <3>4. param'.generation = param.generation + 1 /\ param'.applied = param.applied
          /\ param'.fallback = param.fallback
      BY <3>1
    <3>5. /\ setter'[s].intent = drawn
          /\ \A t \in Setters : t # s => setter'[t] = setter[t]
      BY <3>1
    <3>6. param.applied \in Nat
      BY DEF Generations
    <3> HIDE DEF drawn
    <3> QED BY ONLY <1>0, <3>1, <3>2, <3>3, <3>4, <3>5, <3>6, Components DEF Drawn
  <2>4. CASE PushIntent(s) BY <2>4 DEF PushIntent, PushWithin, Idle
  <2>5. CASE PushFails(s) BY <2>5 DEF PushFails
  <2>6. CASE PublishFallback(s) BY <2>6 DEF PublishFallback, CallStep
  <2>7. CASE MarkFallbackDirty(s) BY <2>7 DEF MarkFallbackDirty, CallStep
  <2> QED BY <1>2, <2>1, <2>2, <2>3, <2>4, <2>5, <2>6, <2>7 DEF Call
<1>3. ASSUME NEW v \in Values, StartRestore(v) PROVE Drawn'
  BY <1>3 DEF StartRestore, Bare
<1>4. CASE Restore
  <2>1. CASE ScrubFallback
    BY <2>1 DEF ScrubFallback, BlockStep, Generations
  <2>2. CASE SupersedeQueued BY <2>2 DEF SupersedeQueued, BlockStep
  <2>3. CASE RootToMirror BY <2>3 DEF RootToMirror, BlockStep
  <2>4. CASE RootDirty BY <2>4 DEF RootDirty, BlockStep
  <2>5. CASE RootFlush BY <2>5 DEF RootFlush
  <2>6. CASE RootClean BY <2>6 DEF RootClean, BlockStep
  <2> QED BY <1>4, <2>1, <2>2, <2>3, <2>4, <2>5, <2>6 DEF Restore
<1>5. CASE Flush
  <2>1. CASE TakeDirty BY <2>1 DEF TakeDirty, BlockStep
  <2>2. CASE TakeFallback BY <2>2 DEF TakeFallback
  <2>3. CASE LoadMirror BY <2>3 DEF LoadMirror, Bare
  <2>4. CASE StoreMirror BY <2>4 DEF StoreMirror
  <2>5. CASE FallbackToMirror BY <2>5 DEF FallbackToMirror, BlockStep
  <2>6. CASE MarkApplied BY <2>6 DEF MarkApplied, BlockStep
  <2>7. CASE StageFallback BY <2>7 DEF StageFallback, Stage
  <2>8. CASE FallbackStaged BY <2>8 DEF FallbackStaged, FinishStage, FinishWith
  <2> QED BY <1>5, <2>1, <2>2, <2>3, <2>4, <2>5, <2>6, <2>7, <2>8 DEF Flush
<1>6. CASE StartBlock BY <1>6 DEF StartBlock, BlockStep
<1>7. CASE PopIntent BY <1>7 DEF PopIntent, PopInto
<1>8. CASE DrainDone BY <1>8 DEF DrainDone, BlockStep
<1>9. CASE StageIntent BY <1>9 DEF StageIntent, Stage
<1>10. CASE IntentStaged BY <1>10 DEF IntentStaged, FinishStage, FinishWith
<1>11. CASE EndBlock BY <1>11 DEF EndBlock, BlockStep
<1>12. CASE RenderTune \/ TuneRendered \/ StartDrain
  BY <1>12 DEF RenderTune, TuneRendered, StartDrain, BlockStep
<1>13. CASE UNCHANGED vars BY <1>13 DEF vars
<1> QED BY <1>1, <1>2, <1>3, <1>4, <1>5, <1>6, <1>7, <1>8, <1>9, <1>10, <1>11, <1>12, <1>13 DEF Next, Block

LEMMA CountedStep == IInv /\ [Next]_vars => Counted'
<1> SUFFICES ASSUME IInv, [Next]_vars PROVE Counted'
  OBVIOUS
<1>0. /\ Counted /\ ParamShape /\ HistoryShape /\ SetterShape
      /\ param.generation \in Nat /\ history.requests \in Nat
      /\ Cardinality(Drawing) \in Nat
  BY FS_CardinalityType, BoundsAssumption
     DEF IInv, Shapes, ParamShape, HistoryShape, Generations, Counted
<1>a. setter' = setter => Drawing' = Drawing
  BY DEF Drawing
<1>b. Drawing' = Drawing /\ param'.generation = param.generation
        /\ history'.requests = history.requests => Counted'
  BY <1>0 DEF Counted
<1> USE <1>0, <1>a, <1>b DEF ParamShape, HistoryShape
<1>1. ASSUME NEW s \in Setters, NEW v \in Values, Request(s, v) PROVE Counted'
  <2>1. CASE param.mirror = v
    BY <1>1, <2>1 DEF Request, Counted
  <2>2. CASE param.mirror # v
    <3>1. s \notin Drawing /\ Drawing' = Drawing \cup {s}
      BY <1>1, <2>2 DEF Request, Drawing, SetterShape
    <3>2. IsFiniteSet(Drawing') /\ Cardinality(Drawing') = Cardinality(Drawing) + 1
      BY <3>1, FS_AddElement DEF Counted
    <3> QED BY <1>1, <2>2, <3>2 DEF Request, Counted
  <2> QED BY <2>1, <2>2
<1>2. ASSUME NEW s \in Setters, Call(s) PROVE Counted'
  <2>1. CASE WriteMirror(s)
    <3>1. Drawing' = Drawing
      BY <2>1 DEF WriteMirror, CallStep, Drawing, SetterShape
    <3> QED BY <2>1, <3>1 DEF WriteMirror, CallStep
  <2>2. CASE MarkDirty(s)
    <3>1. Drawing' = Drawing
      BY <2>2 DEF MarkDirty, CallStep, Drawing, SetterShape
    <3> QED BY <2>2, <3>1 DEF MarkDirty, CallStep
  <2>3. CASE DrawGeneration(s)
    <3>1. s \in Drawing /\ Drawing' = Drawing \ {s}
      BY <2>3 DEF DrawGeneration, Drawing, SetterShape
    <3>2. IsFiniteSet(Drawing') /\ Cardinality(Drawing') = Cardinality(Drawing) - 1
      BY <3>1, FS_RemoveElement DEF Counted
    <3> QED BY <2>3, <3>2 DEF DrawGeneration, Counted
  <2>4. CASE PushIntent(s)
    <3>1. Drawing' = Drawing
      BY <2>4 DEF PushIntent, PushWithin, Idle, Drawing, SetterShape
    <3> QED BY <2>4, <3>1 DEF PushIntent, PushWithin, Idle
  <2>5. CASE PushFails(s)
    <3>1. Drawing' = Drawing
      BY <2>5 DEF PushFails, Drawing, SetterShape
    <3> QED BY <2>5, <3>1 DEF PushFails
  <2>6. CASE PublishFallback(s)
    <3>1. Drawing' = Drawing
      BY <2>6 DEF PublishFallback, CallStep, Drawing, SetterShape
    <3> QED BY <2>6, <3>1 DEF PublishFallback, CallStep
  <2>7. CASE MarkFallbackDirty(s)
    <3>1. Drawing' = Drawing
      BY <2>7 DEF MarkFallbackDirty, CallStep, Drawing, SetterShape
    <3> QED BY <2>7, <3>1 DEF MarkFallbackDirty, CallStep
  <2> QED BY <1>2, <2>1, <2>2, <2>3, <2>4, <2>5, <2>6, <2>7 DEF Call
<1>3. ASSUME NEW v \in Values, StartRestore(v) PROVE Counted'
  BY <1>3 DEF StartRestore, Bare
<1>4. CASE Restore
  <2>1. CASE ScrubFallback BY <2>1 DEF ScrubFallback, BlockStep
  <2>2. CASE SupersedeQueued BY <2>2 DEF SupersedeQueued, BlockStep
  <2>3. CASE RootToMirror BY <2>3 DEF RootToMirror, BlockStep
  <2>4. CASE RootDirty BY <2>4 DEF RootDirty, BlockStep
  <2>5. CASE RootFlush BY <2>5 DEF RootFlush
  <2>6. CASE RootClean BY <2>6 DEF RootClean, BlockStep
  <2> QED BY <1>4, <2>1, <2>2, <2>3, <2>4, <2>5, <2>6 DEF Restore
<1>5. CASE Flush
  <2>1. CASE TakeDirty BY <2>1 DEF TakeDirty, BlockStep
  <2>2. CASE TakeFallback BY <2>2 DEF TakeFallback
  <2>3. CASE LoadMirror BY <2>3 DEF LoadMirror, Bare
  <2>4. CASE StoreMirror BY <2>4 DEF StoreMirror
  <2>5. CASE FallbackToMirror BY <2>5 DEF FallbackToMirror, BlockStep
  <2>6. CASE MarkApplied BY <2>6 DEF MarkApplied, BlockStep
  <2>7. CASE StageFallback BY <2>7 DEF StageFallback, Stage
  <2>8. CASE FallbackStaged BY <2>8 DEF FallbackStaged, FinishStage, FinishWith
  <2> QED BY <1>5, <2>1, <2>2, <2>3, <2>4, <2>5, <2>6, <2>7, <2>8 DEF Flush
<1>6. CASE StartBlock BY <1>6 DEF StartBlock, BlockStep
<1>7. CASE PopIntent BY <1>7 DEF PopIntent, PopInto
<1>8. CASE DrainDone BY <1>8 DEF DrainDone, BlockStep
<1>9. CASE StageIntent BY <1>9 DEF StageIntent, Stage
<1>10. CASE IntentStaged BY <1>10 DEF IntentStaged, FinishStage, FinishWith
<1>11. CASE EndBlock BY <1>11 DEF EndBlock, BlockStep
<1>12. CASE RenderTune \/ TuneRendered \/ StartDrain
  BY <1>12 DEF RenderTune, TuneRendered, StartDrain, BlockStep
<1>13. CASE UNCHANGED vars BY <1>13 DEF vars
<1> QED BY <1>1, <1>2, <1>3, <1>4, <1>5, <1>6, <1>7, <1>8, <1>9, <1>10, <1>11, <1>12, <1>13 DEF Next, Block

\* Which generations the intents in the ring, in the block and in a caller's hand
\* can carry, at every step of every thread.
THEOREM InductiveInvariant == Spec => []IInv
<1>1. IInv /\ [Next]_vars => IInv'
  BY ParamStep, SetterStep, RenderStep, HistoryStep, SequencesStep, DrainedStep, DrawnStep,
     CountedStep DEF IInv, Shapes
<1> QED BY <1>1, InitInvariant, PTL DEF Spec

\* Every thread is where the code can be, and the ring never exceeds its capacity
\* (ArpSIDParamIntentRingBuffer, the packed fallback, the render and setter steps).
THEOREM TypeCorrect == Spec => []TypeOK
<1>1. IInv => TypeOK
  <2> SUFFICES ASSUME IInv PROVE TypeOK
    OBVIOUS
  <2>1. Shapes /\ ring \in Seq(Fresh) /\ Len(ring) <= RingCapacity /\ batch \in Seq(Newer)
    BY DEF IInv, Sequences
  <2>2. ring \in Seq(Intents) /\ batch \in Seq(Intents)
    BY <2>1, Widened DEF Fresh, Newer
  <2> QED
    BY <2>1, <2>2 DEF TypeOK, Shapes, ParamShape, SetterShape, RenderShape, HistoryShape,
       SetterSteps, RenderSteps, RestoreSteps, FallbackSteps
<1> QED BY <1>1, InductiveInvariant, PTL

\* An intent that a fallback or a restore superseded is never among those a block
\* will stage (paramIntentWasSupersededByFallback_).
THEOREM NoneSuperseded == Spec => []OlderIntentsStaySuperseded
<1>1. IInv => OlderIntentsStaySuperseded
  <2> SUFFICES ASSUME IInv PROVE OlderIntentsStaySuperseded
    OBVIOUS
  <2>1. batch \in Seq(Newer)
    BY DEF IInv, Sequences
  <2>2. \A i \in 1 .. Len(batch) : batch[i] \in Newer
    BY <2>1, ElementOfSeq
  <2> QED BY <2>2 DEF Newer, OlderIntentsStaySuperseded
<1> QED BY <1>1, InductiveInvariant, PTL

-----------------------------------------------------------------------------
(* No split brain.                                                         *)

\* No setter is on its way and no intent is queued, but for superseded ones.
Quiet ==
    /\ \A s \in Setters : \/ setter[s].at = "idle"
                          \/ setter[s].at = "push" /\ setter[s].intent \in Stale
    /\ ring \in Seq(Stale) /\ batch = <<>>

\* Without a failed push the fallback is never used.
Unused ==
    ~history.overflowed =>
        /\ param.fallback = NoFallback /\ render.at \notin FallbackSteps
        /\ \A s \in Setters : setter[s].at \notin {"fallback", "remark"}

Rooted == render.at \in RestoreSteps => render.model = render.work.value

\* What agrees already, by where the render thread is.
InHand ==
    /\ render.at \in {"rootDirty", "rootFlush", "storeMirror"} => param.mirror = render.work.value
    /\ render.at \in {"rootClean", "intentStaged"} =>
          param.mirror = render.work.value /\ render.value = render.work.value
    /\ render.at \in {"idle", "flush", "decide", "tune", "drain", "dispatch"} /\ ~param.dirty =>
          param.mirror = render.value /\ render.value = render.model

Agreement == ~history.overflowed /\ Quiet => InHand

LEMMA UnusedStep == IInv /\ Unused /\ [Next]_vars => Unused'
<1> SUFFICES ASSUME IInv, Unused, [Next]_vars PROVE Unused'
  OBVIOUS
<1>0. ParamShape /\ SetterShape /\ RenderShape /\ HistoryShape /\ Unused
  BY DEF IInv, Shapes
<1> USE <1>0 DEF Unused, ParamShape, SetterShape, RenderShape, HistoryShape, FallbackSteps
<1>1. ASSUME NEW s \in Setters, NEW v \in Values, Request(s, v) PROVE Unused'
  BY <1>1 DEF Request, Idle
<1>2. ASSUME NEW s \in Setters, Call(s) PROVE Unused'
  <2>1. CASE WriteMirror(s) BY <2>1 DEF WriteMirror, CallStep
  <2>2. CASE MarkDirty(s) BY <2>2 DEF MarkDirty, CallStep
  <2>3. CASE DrawGeneration(s) BY <2>3 DEF DrawGeneration
  <2>4. CASE PushIntent(s) BY <2>4 DEF PushIntent, PushWithin, Idle
  <2>5. CASE PushFails(s) BY <2>5 DEF PushFails
  <2>6. CASE PublishFallback(s) BY <2>6 DEF PublishFallback, CallStep
  <2>7. CASE MarkFallbackDirty(s) BY <2>7 DEF MarkFallbackDirty, CallStep
  <2> QED BY <1>2, <2>1, <2>2, <2>3, <2>4, <2>5, <2>6, <2>7 DEF Call
<1>3. ASSUME NEW v \in Values, StartRestore(v) PROVE Unused'
  BY <1>3 DEF StartRestore, Bare
<1>4. CASE Restore
  <2>1. CASE ScrubFallback BY <2>1 DEF ScrubFallback, BlockStep
  <2>2. CASE SupersedeQueued BY <2>2 DEF SupersedeQueued, BlockStep
  <2>3. CASE RootToMirror BY <2>3 DEF RootToMirror, BlockStep
  <2>4. CASE RootDirty BY <2>4 DEF RootDirty, BlockStep
  <2>5. CASE RootFlush BY <2>5 DEF RootFlush
  <2>6. CASE RootClean BY <2>6 DEF RootClean, BlockStep
  <2> QED BY <1>4, <2>1, <2>2, <2>3, <2>4, <2>5, <2>6 DEF Restore
<1>5. CASE Flush
  <2>1. CASE TakeDirty BY <2>1 DEF TakeDirty, BlockStep
  <2>2. CASE TakeFallback BY <2>2 DEF TakeFallback
  <2>3. CASE LoadMirror BY <2>3 DEF LoadMirror, Bare
  <2>4. CASE StoreMirror BY <2>4 DEF StoreMirror
  <2>5. CASE FallbackToMirror BY <2>5 DEF FallbackToMirror, BlockStep
  <2>6. CASE MarkApplied BY <2>6 DEF MarkApplied, BlockStep
  <2>7. CASE StageFallback BY <2>7 DEF StageFallback, Stage
  <2>8. CASE FallbackStaged BY <2>8 DEF FallbackStaged, FinishStage, FinishWith
  <2> QED BY <1>5, <2>1, <2>2, <2>3, <2>4, <2>5, <2>6, <2>7, <2>8 DEF Flush
<1>6. CASE StartBlock BY <1>6 DEF StartBlock, BlockStep
<1>7. CASE PopIntent BY <1>7 DEF PopIntent, PopInto
<1>8. CASE DrainDone BY <1>8 DEF DrainDone, BlockStep
<1>9. CASE StageIntent BY <1>9 DEF StageIntent, Stage
<1>10. CASE IntentStaged BY <1>10 DEF IntentStaged, FinishStage, FinishWith
<1>11. CASE EndBlock BY <1>11 DEF EndBlock, BlockStep
<1>12. CASE RenderTune \/ TuneRendered \/ StartDrain
  BY <1>12 DEF RenderTune, TuneRendered, StartDrain, BlockStep
<1>13. CASE UNCHANGED vars BY <1>13 DEF vars
<1> QED BY <1>1, <1>2, <1>3, <1>4, <1>5, <1>6, <1>7, <1>8, <1>9, <1>10, <1>11, <1>12, <1>13 DEF Next, Block

LEMMA RootedStep == IInv /\ Rooted /\ [Next]_vars => Rooted'
<1> SUFFICES ASSUME IInv, Rooted, [Next]_vars PROVE Rooted'
  OBVIOUS
<1>0. RenderShape /\ Rooted
  BY DEF IInv, Shapes
<1> USE <1>0, BareValues DEF Rooted, RenderShape, RestoreSteps
<1>1. ASSUME NEW s \in Setters, NEW v \in Values, Request(s, v) PROVE Rooted'
  BY <1>1 DEF Request, Idle
<1>2. ASSUME NEW s \in Setters, Call(s) PROVE Rooted'
  <2>1. CASE WriteMirror(s) BY <2>1 DEF WriteMirror, CallStep
  <2>2. CASE MarkDirty(s) BY <2>2 DEF MarkDirty, CallStep
  <2>3. CASE DrawGeneration(s) BY <2>3 DEF DrawGeneration
  <2>4. CASE PushIntent(s) BY <2>4 DEF PushIntent, PushWithin, Idle
  <2>5. CASE PushFails(s) BY <2>5 DEF PushFails
  <2>6. CASE PublishFallback(s) BY <2>6 DEF PublishFallback, CallStep
  <2>7. CASE MarkFallbackDirty(s) BY <2>7 DEF MarkFallbackDirty, CallStep
  <2> QED BY <1>2, <2>1, <2>2, <2>3, <2>4, <2>5, <2>6, <2>7 DEF Call
<1>3. ASSUME NEW v \in Values, StartRestore(v) PROVE Rooted'
  BY <1>3 DEF StartRestore, Bare
<1>4. CASE Restore
  <2>1. CASE ScrubFallback BY <2>1 DEF ScrubFallback, BlockStep
  <2>2. CASE SupersedeQueued BY <2>2 DEF SupersedeQueued, BlockStep
  <2>3. CASE RootToMirror BY <2>3 DEF RootToMirror, BlockStep
  <2>4. CASE RootDirty BY <2>4 DEF RootDirty, BlockStep
  <2>5. CASE RootFlush BY <2>5 DEF RootFlush
  <2>6. CASE RootClean BY <2>6 DEF RootClean, BlockStep
  <2> QED BY <1>4, <2>1, <2>2, <2>3, <2>4, <2>5, <2>6 DEF Restore
<1>5. CASE Flush
  <2>1. CASE TakeDirty BY <2>1 DEF TakeDirty, BlockStep
  <2>2. CASE TakeFallback BY <2>2 DEF TakeFallback
  <2>3. CASE LoadMirror BY <2>3 DEF LoadMirror, Bare
  <2>4. CASE StoreMirror BY <2>4 DEF StoreMirror
  <2>5. CASE FallbackToMirror BY <2>5 DEF FallbackToMirror, BlockStep
  <2>6. CASE MarkApplied BY <2>6 DEF MarkApplied, BlockStep
  <2>7. CASE StageFallback BY <2>7 DEF StageFallback, Stage
  <2>8. CASE FallbackStaged BY <2>8 DEF FallbackStaged, FinishStage, FinishWith
  <2> QED BY <1>5, <2>1, <2>2, <2>3, <2>4, <2>5, <2>6, <2>7, <2>8 DEF Flush
<1>6. CASE StartBlock BY <1>6 DEF StartBlock, BlockStep
<1>7. CASE PopIntent BY <1>7 DEF PopIntent, PopInto
<1>8. CASE DrainDone BY <1>8 DEF DrainDone, BlockStep
<1>9. CASE StageIntent BY <1>9 DEF StageIntent, Stage
<1>10. CASE IntentStaged BY <1>10 DEF IntentStaged, FinishStage, FinishWith
<1>11. CASE EndBlock BY <1>11 DEF EndBlock, BlockStep
<1>12. CASE RenderTune \/ TuneRendered \/ StartDrain
  BY <1>12 DEF RenderTune, TuneRendered, StartDrain, BlockStep
<1>13. CASE UNCHANGED vars BY <1>13 DEF vars
<1> QED BY <1>1, <1>2, <1>3, <1>4, <1>5, <1>6, <1>7, <1>8, <1>9, <1>10, <1>11, <1>12, <1>13 DEF Next, Block

LEMMA AgreementStep == IInv /\ Unused /\ Rooted /\ Agreement /\ [Next]_vars => Agreement'
<1> SUFFICES ASSUME IInv, Unused, Rooted, Agreement, [Next]_vars PROVE Agreement'
  OBVIOUS
<1>0. /\ ParamShape /\ RenderShape /\ HistoryShape /\ SetterShape
      /\ Unused /\ Rooted /\ Agreement
  BY DEF IInv, Shapes
<1>a. /\ param'.applied = param.applied => Stale' = Stale
      /\ param'.applied = param.applied /\ setter' = setter /\ ring' = ring /\ batch' = batch
           => Quiet' = Quiet
  BY DEF Stale, Quiet
<1>b. ASSUME NEW s \in Setters, setter'[s].at \in {"mirror", "dirty", "generation"}
      PROVE  Agreement'
  BY <1>b DEF Agreement, Quiet
<1> USE <1>0, <1>a, <1>b, BareValues, Components
    DEF Agreement, InHand, ParamShape, RenderShape, HistoryShape
<1>1. ASSUME NEW s \in Setters, NEW v \in Values, Request(s, v) PROVE Agreement'
  <2>1. CASE param.mirror = v
    BY <1>1, <2>1 DEF Request
  <2>2. CASE param.mirror # v
    <3>1. setter'[s].at = "mirror"
      BY <1>1, <2>2 DEF Request, SetterShape
    <3> QED BY <3>1, <1>b
  <2> QED BY <2>1, <2>2
<1>2. ASSUME NEW s \in Setters, Call(s) PROVE Agreement'
  <2>1. CASE WriteMirror(s) BY <2>1 DEF WriteMirror, CallStep
  <2>2. CASE MarkDirty(s) BY <2>2 DEF MarkDirty, CallStep
  <2>3. CASE DrawGeneration(s)
    <3>1. setter'[s].at = "push" /\ param'.applied = param.applied
          /\ setter'[s].intent.generation = param.generation + 1
      BY <2>3 DEF DrawGeneration, SetterShape, Intents
    <3>2. param.applied \in Nat /\ param.generation \in Nat /\ param.applied <= param.generation
      BY DEF Generations, IInv, Drawn
    <3>3. setter'[s].intent \notin Stale /\ Stale' = Stale
      BY <3>1, <3>2 DEF Stale
    <3> QED BY <3>1, <3>3 DEF Quiet
  <2>4. CASE PushIntent(s)
    <3>1. Quiet' => Quiet
      <4> SUFFICES ASSUME Quiet' PROVE Quiet
        OBVIOUS
      <4>1. /\ setter[s].at = "push" /\ ring' = Append(ring, setter[s].intent)
            /\ Stale' = Stale /\ batch' = batch
            /\ \A t \in Setters : t # s => setter'[t] = setter[t]
        BY <2>4 DEF PushIntent, PushWithin, SetterShape
      <4>2. ring \in Seq(Intents) /\ setter[s].intent \in Intents
        BY Widened DEF IInv, Sequences, Fresh
      <4>3. ring' \in Seq(Stale)
        BY <4>1 DEF Quiet
      <4>4. ring \in Seq(Stale) /\ setter[s].intent \in Stale
        BY <4>1, <4>2, <4>3, Whole
      <4> QED BY <4>1, <4>4 DEF Quiet
    <3> QED BY <2>4, <3>1 DEF PushIntent, PushWithin
  <2>5. CASE PushFails(s)
    BY <2>5 DEF PushFails
  <2>6. CASE PublishFallback(s)
    <3>1. history.overflowed /\ history' = history
      BY <2>6 DEF PublishFallback, CallStep, Unused
    <3> QED BY ONLY <3>1 DEF Agreement
  <2>7. CASE MarkFallbackDirty(s)
    <3>1. history.overflowed /\ history' = history
      BY <2>7 DEF MarkFallbackDirty, CallStep, Unused
    <3> QED BY ONLY <3>1 DEF Agreement
  <2> QED BY <1>2, <2>1, <2>2, <2>3, <2>4, <2>5, <2>6, <2>7 DEF Call
<1>3. ASSUME NEW v \in Values, StartRestore(v) PROVE Agreement'
  BY <1>3 DEF StartRestore, Bare
<1>4. CASE Restore
  <2>1. CASE ScrubFallback BY <2>1 DEF ScrubFallback, BlockStep
  <2>2. CASE SupersedeQueued BY <2>2 DEF SupersedeQueued, BlockStep
  <2>3. CASE RootToMirror BY <2>3 DEF RootToMirror, BlockStep
  <2>4. CASE RootDirty BY <2>4 DEF RootDirty, BlockStep
  <2>5. CASE RootFlush BY <2>5 DEF RootFlush
  <2>6. CASE RootClean
    BY <2>6 DEF RootClean, BlockStep, Rooted, RestoreSteps
  <2> QED BY <1>4, <2>1, <2>2, <2>3, <2>4, <2>5, <2>6 DEF Restore
<1>5. CASE Flush
  <2>1. CASE TakeDirty BY <2>1 DEF TakeDirty, BlockStep
  <2>2. CASE TakeFallback BY <2>2 DEF TakeFallback
  <2>3. CASE LoadMirror BY <2>3 DEF LoadMirror, Bare
  <2>4. CASE StoreMirror BY <2>4 DEF StoreMirror
  <2>5. CASE FallbackToMirror BY <2>5 DEF FallbackToMirror, BlockStep
  <2>6. CASE MarkApplied BY <2>6 DEF MarkApplied, BlockStep
  <2>7. CASE StageFallback BY <2>7 DEF StageFallback, Stage
  <2>8. CASE FallbackStaged
    <3>1. history.overflowed /\ history' = history
      BY <2>8 DEF FallbackStaged, FinishStage, FinishWith, Unused, FallbackSteps
    <3> QED BY ONLY <3>1 DEF Agreement
  <2> QED BY <1>5, <2>1, <2>2, <2>3, <2>4, <2>5, <2>6, <2>7, <2>8 DEF Flush
<1>6. CASE StartBlock BY <1>6 DEF StartBlock, BlockStep
<1>7. CASE PopIntent
  <2>1. Quiet' => Quiet
    <3> SUFFICES ASSUME Quiet' PROVE Quiet
      OBVIOUS
    <3>1. ring # <<>> /\ ring' = Tail(ring) /\ Stale' = Stale /\ setter' = setter
          /\ batch' = IF Superseded(Head(ring)) THEN batch ELSE Append(batch, Head(ring))
      BY <1>7 DEF PopIntent, PopInto
    <3>2. ring \in Seq(Fresh) /\ Head(ring) \in Fresh /\ batch \in Seq(Newer)
      BY <3>1, Taken DEF IInv, Sequences
    <3>3. batch' = <<>> /\ ring' \in Seq(Stale)
      BY <3>1 DEF Quiet
    <3>4. Append(batch, Head(ring)) # <<>>
      <4>1. batch \in Seq(Intents) /\ Head(ring) \in Intents
        BY <3>2, Widened DEF Newer, Fresh
      <4> QED BY <4>1, Appended
    <3>5. Superseded(Head(ring)) /\ batch = <<>>
      BY <3>1, <3>3, <3>4
    <3>6. Head(ring) \in Stale
      BY <3>2, <3>5 DEF Superseded, Stale, Fresh
    <3>7. ring \in Seq(Stale)
      BY <3>1, <3>2, <3>3, <3>6, Whole
    <3> QED BY <3>1, <3>3, <3>5, <3>7 DEF Quiet
  <2> QED BY <1>7, <2>1 DEF PopIntent, PopInto
<1>8. CASE DrainDone BY <1>8 DEF DrainDone, BlockStep
<1>9. CASE StageIntent BY <1>9 DEF StageIntent, Stage
<1>10. CASE IntentStaged BY <1>10 DEF IntentStaged, FinishStage, FinishWith
<1>11. CASE EndBlock BY <1>11 DEF EndBlock, BlockStep
<1>12. CASE RenderTune \/ TuneRendered \/ StartDrain
  <2>1. CASE RenderTune BY <2>1 DEF RenderTune, BlockStep
  <2>2. CASE TuneRendered BY <2>2 DEF TuneRendered, BlockStep
  <2>3. CASE StartDrain BY <2>3 DEF StartDrain, BlockStep
  <2> QED BY <1>12, <2>1, <2>2, <2>3
<1>13. CASE UNCHANGED vars BY <1>13 DEF vars
<1> QED BY <1>1, <1>2, <1>3, <1>4, <1>5, <1>6, <1>7, <1>8, <1>9, <1>10, <1>11, <1>12, <1>13 DEF Next, Block

Agreed == IInv /\ Unused /\ Rooted /\ Agreement

\* While no live intent is under way, mirror, snapshot and model agree as far as
\* the render thread has come with a flush, a restore or a staged intent.
THEOREM Agrees == Spec => []Agreed
<1>1. Init => Agreed
  <2> SUFFICES ASSUME Init PROVE Agreed
    OBVIOUS
  <2>1. IInv
    BY InitInvariant
  <2> QED BY <2>1 DEF Init, Idle, Agreed, Unused, Rooted, Agreement, InHand, RestoreSteps, FallbackSteps
<1>2. Agreed /\ [Next]_vars => Agreed'
  <2>1. IInv /\ [Next]_vars => IInv'
    BY ParamStep, SetterStep, RenderStep, HistoryStep, SequencesStep, DrainedStep, DrawnStep,
       CountedStep DEF IInv, Shapes
  <2> QED BY <2>1, UnusedStep, RootedStep, AgreementStep DEF Agreed
<1> QED BY <1>1, <1>2, PTL DEF Spec

LEMMA SettledIsQuiet ==
    ASSUME Agreed, Settled
    PROVE  /\ Quiet /\ render.at = "idle" /\ ~param.dirty
           /\ ring = <<>> /\ batch = <<>> /\ \A s \in Setters : setter[s].at = "idle"
<1>1. /\ render.at = "idle" /\ ring = <<>> /\ ~param.dirty
      /\ \A s \in Setters : setter[s].at = "idle"
  BY DEF Settled, InFlight
<1>2. batch = <<>>
  BY <1>1 DEF Agreed, IInv, Drained
<1> QED BY <1>1, <1>2, EmptySequence DEF Quiet

\* Once everything has settled the mirror a host reads, the snapshot the engines
\* render with and the model a saved state is taken from hold one value, if no
\* push ever failed.
THEOREM MirrorsAgree == Spec => []NoSplitBrain
<1>1. Agreed => NoSplitBrain
  <2> SUFFICES ASSUME Agreed, Settled, ~history.overflowed
               PROVE  param.mirror = render.value /\ render.value = render.model
    BY DEF NoSplitBrain
  <2> QED BY SettledIsQuiet DEF Agreed, Agreement, InHand
<1> QED BY <1>1, Agrees, PTL

-----------------------------------------------------------------------------
(* The last request wins.                                                  *)

\* Neither a restore nor a failed push, and calls one after another.
Orderly == /\ history.restores = 0
           /\ ~history.overflowed /\ ~history.deduplicated /\ ~history.overlapped

Calling == \E s \in Setters : setter[s].at # "idle"

\* The last call's value is in the calling thread's hand, else it is the newest
\* of the ring, else of the block, else it has been staged.
LastIsNewest ==
    /\ \A s, t \in Setters : setter[s].at # "idle" /\ setter[t].at # "idle" => s = t
    /\ \A s \in Setters : setter[s].at # "idle" => setter[s].intent.value = history.last
    /\ ~Calling =>
          /\ ring # <<>> => ring[Len(ring)].value = history.last
          /\ ring = <<>> /\ batch # <<>> => batch[Len(batch)].value = history.last
          /\ ring = <<>> /\ batch = <<>> =>
                /\ param.mirror = history.last
                /\ render.at \in {"storeMirror", "intentStaged"} => render.work.value = history.last

Latest == Orderly => param.applied = 0 /\ render.at \notin RestoreSteps /\ LastIsNewest

LEMMA LatestStep == Agreed /\ Latest /\ [Next]_vars => Latest'
<1> SUFFICES ASSUME Agreed, Latest, [Next]_vars, Orderly' PROVE Latest'
  BY DEF Latest
<1>0. /\ ParamShape /\ RenderShape /\ HistoryShape /\ SetterShape /\ Shapes
      /\ Unused /\ Latest /\ ring \in Seq(Fresh) /\ batch \in Seq(Newer)
  BY DEF Agreed, IInv, Shapes, Sequences
<1>a. history' = history =>
         /\ Orderly /\ param.applied = 0 /\ render.at \notin RestoreSteps /\ LastIsNewest
         /\ render.at \notin FallbackSteps
         /\ \A s \in Setters : setter[s].at \notin {"fallback", "remark"}
  BY <1>0 DEF Latest, Orderly, Unused
<1>b. setter' = setter => Calling' = Calling
  BY DEF Calling
<1>c. ASSUME NEW s \in Setters, setter[s].at # "idle", setter'[s].at # "idle",
             \A t \in Setters : t # s => setter'[t] = setter[t],
             setter'[s].intent.value = setter[s].intent.value,
             history' = history, render' = render, param'.applied = param.applied
      PROVE  Latest'
  <2>1. Calling'
    BY <1>c DEF Calling
  <2>2. \A t \in Setters : t # s => setter'[t].at = "idle"
    BY <1>c, <1>a DEF LastIsNewest
  <2> QED BY <1>c, <1>a, <2>1, <2>2 DEF Latest, LastIsNewest
<1> USE <1>0, <1>a, <1>b, BareValues, Components
    DEF Latest, LastIsNewest, ParamShape, RenderShape, RestoreSteps, FallbackSteps
<1>1. ASSUME NEW s \in Setters, NEW v \in Values, Request(s, v) PROVE Latest'
  <2>1. /\ Orderly /\ \A t \in Setters : setter[t].at = "idle"
        /\ ~(param.mirror = v /\ InFlight) /\ history'.last = v
        /\ param' = param /\ render' = render /\ ring' = ring /\ batch' = batch
    <3> DEFINE repeated == param.mirror = v /\ InFlight
               crossed == \E t \in Setters : setter[t].at # "idle"
    <3>1. history' = [history EXCEPT !.requests = @ + 1, !.last = v,
                          !.deduplicated = @ \/ repeated, !.overlapped = @ \/ crossed]
          /\ param' = param /\ render' = render /\ ring' = ring /\ batch' = batch
      BY <1>1 DEF Request
    <3> HIDE DEF repeated, crossed
    <3>2. /\ history'.deduplicated = (history.deduplicated \/ repeated)
          /\ history'.overlapped = (history.overlapped \/ crossed)
          /\ history'.restores = history.restores /\ history'.last = v
          /\ history'.overflowed = history.overflowed
      BY <3>1 DEF HistoryShape
    <3>3. Orderly /\ ~repeated /\ ~crossed
      BY ONLY <3>2, Orderly' DEF Orderly
    <3> QED BY <3>1, <3>2, <3>3 DEF repeated, crossed
  <2>2. param.applied = 0 /\ render.at \notin RestoreSteps
    BY <2>1 DEF Latest
  <2>3. CASE param.mirror = v
    <3>1. ~Calling' /\ setter' = setter
      BY <1>1, <2>1, <2>3 DEF Request, Calling
    <3>2. Settled
      BY <2>1, <2>3 DEF Settled
    <3>3. ring = <<>> /\ batch = <<>> /\ render.at = "idle"
      BY <3>2, SettledIsQuiet
    <3> QED BY <2>1, <2>2, <2>3, <3>1, <3>3 DEF Latest, LastIsNewest
  <2>4. CASE param.mirror # v
    <3>1. /\ setter'[s].at = "mirror" /\ setter'[s].intent.value = v
          /\ \A t \in Setters : t # s => setter'[t].at = "idle"
      BY <1>1, <2>1, <2>4 DEF Request, SetterShape
    <3>2. Calling'
      BY <3>1 DEF Calling
    <3> QED BY <2>1, <2>2, <3>1, <3>2 DEF Latest, LastIsNewest
  <2> QED BY <2>3, <2>4
<1>2. ASSUME NEW s \in Setters, Call(s) PROVE Latest'
  <2>1. CASE WriteMirror(s)
    <3>1. /\ setter[s].at # "idle" /\ setter'[s].at # "idle"
          /\ \A t \in Setters : t # s => setter'[t] = setter[t]
          /\ setter'[s].intent.value = setter[s].intent.value
          /\ history' = history /\ render' = render /\ param'.applied = param.applied
      BY <2>1 DEF WriteMirror, CallStep, SetterShape, Intents
    <3> QED BY ONLY <3>1, <1>c
  <2>2. CASE MarkDirty(s)
    <3>1. /\ setter[s].at # "idle" /\ setter'[s].at # "idle"
          /\ \A t \in Setters : t # s => setter'[t] = setter[t]
          /\ setter'[s].intent.value = setter[s].intent.value
          /\ history' = history /\ render' = render /\ param'.applied = param.applied
      BY <2>2 DEF MarkDirty, CallStep, SetterShape, Intents
    <3> QED BY ONLY <3>1, <1>c
  <2>3. CASE DrawGeneration(s)
    <3>1. /\ setter[s].at # "idle" /\ setter'[s].at # "idle"
          /\ \A t \in Setters : t # s => setter'[t] = setter[t]
          /\ setter'[s].intent.value = setter[s].intent.value
          /\ history' = history /\ render' = render /\ param'.applied = param.applied
      BY <2>3 DEF DrawGeneration, SetterShape, Intents
    <3> QED BY ONLY <3>1, <1>c
  <2>4. CASE PushIntent(s) BY <2>4 DEF PushIntent, PushWithin, Idle
  <2>5. CASE PushFails(s)
    <3>1. history'.overflowed
      BY <2>5 DEF PushFails
    <3> QED BY <3>1 DEF Orderly
  <2>6. CASE PublishFallback(s) BY <2>6 DEF PublishFallback, CallStep
  <2>7. CASE MarkFallbackDirty(s) BY <2>7 DEF MarkFallbackDirty, CallStep
  <2> QED BY <1>2, <2>1, <2>2, <2>3, <2>4, <2>5, <2>6, <2>7 DEF Call
<1>3. ASSUME NEW v \in Values, StartRestore(v) PROVE Latest'
  <2>1. history'.restores = history.restores + 1 /\ history.restores \in Nat
    BY <1>3, BoundsAssumption DEF StartRestore, HistoryShape
  <2> QED BY <2>1 DEF Orderly
<1>4. CASE Restore
  <2>1. CASE ScrubFallback BY <2>1 DEF ScrubFallback, BlockStep
  <2>2. CASE SupersedeQueued BY <2>2 DEF SupersedeQueued, BlockStep
  <2>3. CASE RootToMirror BY <2>3 DEF RootToMirror, BlockStep
  <2>4. CASE RootDirty BY <2>4 DEF RootDirty, BlockStep
  <2>5. CASE RootFlush BY <2>5 DEF RootFlush
  <2>6. CASE RootClean BY <2>6 DEF RootClean, BlockStep
  <2> QED BY <1>4, <2>1, <2>2, <2>3, <2>4, <2>5, <2>6 DEF Restore
<1>5. CASE Flush
  <2>1. CASE TakeDirty BY <2>1 DEF TakeDirty, BlockStep
  <2>2. CASE TakeFallback BY <2>2 DEF TakeFallback
  <2>3. CASE LoadMirror BY <2>3 DEF LoadMirror, Bare
  <2>4. CASE StoreMirror BY <2>4 DEF StoreMirror
  <2>5. CASE FallbackToMirror BY <2>5 DEF FallbackToMirror, BlockStep
  <2>6. CASE MarkApplied BY <2>6 DEF MarkApplied, BlockStep
  <2>7. CASE StageFallback BY <2>7 DEF StageFallback, Stage
  <2>8. CASE FallbackStaged BY <2>8 DEF FallbackStaged, FinishStage, FinishWith
  <2> QED BY <1>5, <2>1, <2>2, <2>3, <2>4, <2>5, <2>6, <2>7, <2>8 DEF Flush
<1>6. CASE StartBlock BY <1>6 DEF StartBlock, BlockStep
<1>7. CASE PopIntent
  <2>1. /\ ring # <<>> /\ ring' = Tail(ring) /\ history' = history /\ setter' = setter
        /\ batch' = IF Superseded(Head(ring)) THEN batch ELSE Append(batch, Head(ring))
        /\ param' = param /\ render' = render
    BY <1>7 DEF PopIntent, PopInto
  <2>2. Head(ring) \in Fresh /\ batch \in Seq(Intents)
    BY <2>1, Taken, Widened DEF Newer
  <2>3. batch' = Append(batch, Head(ring))
    BY <2>1, <1>a DEF Superseded
  <2>4. /\ batch' # <<>> /\ batch'[Len(batch')] = Head(ring)
    BY <2>2, <2>3, Appended DEF Fresh
  <2>5. /\ ring' = <<>> => ring[Len(ring)] = Head(ring)
        /\ ring' # <<>> => ring'[Len(ring')] = ring[Len(ring)]
    BY <2>1, Taken
  <2> QED BY <2>1, <2>4, <2>5
<1>8. CASE DrainDone BY <1>8 DEF DrainDone, BlockStep
<1>9. CASE StageIntent
  <2>1. /\ batch # <<>> /\ batch' = Tail(batch) /\ history' = history /\ setter' = setter
        /\ ring' = ring /\ param'.applied = param.applied
        /\ param'.mirror = Head(batch).value
        /\ render'.at = "intentStaged" /\ render'.work = Head(batch)
    BY <1>9 DEF StageIntent, Stage
  <2>2. /\ batch' = <<>> => batch[Len(batch)] = Head(batch)
        /\ batch' # <<>> => batch'[Len(batch')] = batch[Len(batch)]
    BY <2>1, Taken
  <2> QED BY <2>1, <2>2
<1>10. CASE IntentStaged BY <1>10 DEF IntentStaged, FinishStage, FinishWith
<1>11. CASE EndBlock BY <1>11 DEF EndBlock, BlockStep
<1>12. CASE RenderTune \/ TuneRendered \/ StartDrain
  BY <1>12 DEF RenderTune, TuneRendered, StartDrain, BlockStep
<1>13. CASE UNCHANGED vars BY <1>13 DEF vars
<1> QED BY <1>1, <1>2, <1>3, <1>4, <1>5, <1>6, <1>7, <1>8, <1>9, <1>10, <1>11, <1>12, <1>13 DEF Next, Block

\* Whichever thread called last decides what the engines render with, when calls
\* do not overlap and neither a restore nor a full ring intervenes.
THEOREM LastCallPlays == Spec => []LastRequestWins
<1>1. Init => Latest
  BY DEF Init, Idle, Latest, LastIsNewest, RestoreSteps
<1>2. Agreed /\ Latest => LastRequestWins
  <2> SUFFICES ASSUME Agreed, Latest, Settled, Orderly
               PROVE  render.value = history.last
    BY DEF LastRequestWins, Orderly
  <2>1. param.mirror = history.last
    BY SettledIsQuiet DEF Latest, LastIsNewest, Calling
  <2>2. ~param.dirty /\ Quiet /\ render.at = "idle"
    BY SettledIsQuiet
  <2> QED BY <2>1, <2>2 DEF Agreed, Agreement, InHand, Orderly
<1> QED BY <1>1, <1>2, LatestStep, Agrees, PTL DEF Spec
=============================================================================
