---------------------------- MODULE MidiIngress ----------------------------
(***************************************************************************)
(* MIDI from the thread that sends it to the voices of the engine, for one *)
(* channel and one note.  A message goes through the ring; when the ring   *)
(* is full, releases and controllers are latched per channel instead, and  *)
(* a press is lost.  Two mirrors say what the player holds: the pedal      *)
(* mirror is written by the sender, the held-note mirror by the render     *)
(* thread when it dispatches a note and by the sender when it latches a    *)
(* release.  The mirrors decide what a state restore plays again and which *)
(* voices the reconciler at the end of a block takes for orphans.          *)
(*                                                                         *)
(* While a tune plays, the C64 player renders the blocks: they drain       *)
(* nothing, and the first of them silences the voices and forgets what is  *)
(* held.                                                                   *)
(*                                                                         *)
(* Each atomic store of the sender is a step, as are the read and the      *)
(* write of the held-note mirror; the ring is a queue (BoundedMpscRing is  *)
(* the detailed one), and the drains of the latches and the start of a     *)
(* tune are single steps.  No block is larger than kMaxFramesPerBlock (a   *)
(* larger one drains the ring before the latches).  The engine is in Poly  *)
(* without arpeggiator or sequencer; voices do not age and their release   *)
(* tails end with the block, since all presses are alike and a tail gives  *)
(* way to any press.                                                       *)
(***************************************************************************)
EXTENDS VoiceManager, Sequences, Functions

CONSTANTS
    RingCapacities,  \* capacities of midiQueue_ to try
    DroppedLimit,    \* latched releases of a key before a channel cleanup
    MaxMessages,     \* bound on the messages sent
    MaxRestores,     \* bound on the state restores
    MaxTunes,        \* bound on the tunes that start
    MaxEvents        \* bound on messages, restores and tunes together, the last two counted twice

ASSUME CapacityAssumption == RingCapacities \subseteq Nat \ {0}
ASSUME DroppedLimitAssumption == DroppedLimit \in Nat \ {0}
ASSUME BoundAssumption ==
    MaxMessages \in Nat /\ MaxRestores \in Nat /\ MaxTunes \in Nat /\ MaxEvents \in Nat
ASSUME KeyAssumption == Channels # {} /\ Notes # {}

channel == CHOOSE c \in Channels : TRUE
note == CHOOSE n \in Notes : TRUE

\* NoteOn, NoteOff, CC64 with and without the pedal, CC123 (or CC120), CC121.
Messages == {"on", "off", "down", "up", "notesOff", "reset"}

VARIABLES
    setup,    \* the capacity of the ring, and whether its messages carry a sample offset
    player,   \* the key and the pedal as the player holds them; messages sent
    sender,   \* enqueueMidiIntent: the message and the stores that are still to be done,
              \* and what it read of the held-note mirror
    ring,     \* midiQueue_
    latch,    \* pendingDroppedNoteOffCount_, pendingAllNotesOff_, pendingResetControllers_,
              \* pendingSustain_, pendingSustainDirty_ and pendingSustainOff_
    mirror,   \* heldIngressChannelGeneration, heldIngressNoteGeneration, heldIngressDepth
              \* and liveSustainPedalDown_
    render,   \* where the render thread is in its block, the message it dispatches, what it
              \* read of the mirror, the lane that collects the block's messages, those that
              \* are due, in the order in which it plays them, and whether the block before
              \* was a tune's (c64BypassedPerformanceStateCleared_)
    pool,     \* the VoiceManager of the engine
    history   \* what excuses a difference: see Excuses

vars == <<setup, player, sender, ring, latch, mirror, render, pool, history>>

\* The sender between two messages.
Idle == [message |-> "on", todo |-> <<>>, gen |-> 0, depth |-> 0]

NoLatch == [noteOffs |-> 0, notesOff |-> FALSE, reset |-> FALSE,
            sustain |-> FALSE, dirty |-> FALSE, off |-> FALSE]

\* "pressLost"  a press found the ring full
\* "killed"     notes were turned off for the whole channel
\* "phantom"    a latched release was mirrored before the press it belongs to
\* "reordered"  of two pedal messages one was latched and the other went through the ring
\* "doubled"    a release under the pedal let go of two voices
\* "orphaned"   the reconciler let go of a voice whose release was still latched
\* "scrubbed"   a restore threw away messages, or read the pedal mirror before it was written
\* "stolen"     a press took the voice of a key that is down
\* "bypassed"   a tune started: the voices were silenced, the mirrors cleared
Excuses == {"pressLost", "killed", "phantom", "reordered", "doubled", "orphaned", "scrubbed",
            "stolen", "bypassed"}

Init ==
    /\ setup \in [capacity : RingCapacities, stamped : BOOLEAN]
    /\ player = [key |-> FALSE, pedal |-> FALSE, sent |-> 0]
    /\ sender = Idle
    /\ ring = <<>>
    /\ latch = NoLatch
    /\ mirror = [gen |-> 0, noteGen |-> 0, depth |-> 0, pedal |-> FALSE]
    /\ render = [pc |-> "idle", message |-> "on", gen |-> 0, depth |-> 0, lane |-> <<>>,
               due |-> <<>>, restores |-> 0, bypassed |-> FALSE, tunes |-> 0]
    /\ pool = EmptyPool
    /\ history = {}

Events == player.sent + 2 * (render.restores + render.tunes)

-----------------------------------------------------------------------------
(* The held-note mirror: mirrorMidiHeldIngress_.                           *)

MirrorDepth == IF mirror.noteGen = mirror.gen THEN mirror.depth ELSE 0

\* kHeldIngressIdentityLanes is larger than any number of presses here.
NextDepth(message, depth) ==
    IF message = "on" THEN depth + 1 ELSE IF depth > 0 THEN depth - 1 ELSE 0

WriteMirror(message, seen) ==
    [mirror EXCEPT !.noteGen = seen.gen, !.depth = NextDepth(message, seen.depth)]

\* clearHeldIngressChannel_.
Bump == [mirror EXCEPT !.gen = @ + 1]

\* Where an event is put in the block: 0 at the first frame, which a late release of the
\* ring is too, 1 without a position, 2 the notes of a restore, which have none either,
\* 3 at a later frame, 4 at the last frame, where the latched releases go.
At(class, message) == [class |-> class, message |-> message]

-----------------------------------------------------------------------------
(* The sender: enqueueMidiIntent.                                          *)

\* What a message is for the player, and whether the player can send it.
Sensible(message) ==
    CASE message = "on" -> ~ player.key
      [] message = "off" -> player.key
      [] message = "down" -> ~ player.pedal
      [] message = "up" -> player.pedal
      [] OTHER -> TRUE

Played(message) ==
    [player EXCEPT !.sent = @ + 1,
                   !.key = IF message \in {"on", "off"} THEN message = "on" ELSE @,
                   !.pedal = IF message \in {"down", "up", "reset"} THEN message = "down" ELSE @]

\* The stores that follow when the ring took the message, and when it was full.
Accepted(message) ==
    CASE message \in {"down", "up"} -> <<"pedal">>
      [] message = "notesOff" -> <<"bump">>
      [] message = "reset" -> <<"pedal">>
      [] OTHER -> <<>>

\* A latched release that leaves the key in the held-note mirror.
Rejected_ReleaseIsNotMirrored(message) ==
    CASE message = "on" -> <<>>
      [] message = "off" -> <<"count">>
      [] message = "down" -> <<"pedal", "sustain", "dirty">>
      [] message = "up" -> <<"pedal", "sustain", "dirty", "off">>
      [] message = "notesOff" -> <<"bump", "notesOff", "bump">>
      [] message = "reset" -> <<"pedal", "reset">>

Rejected(message) ==
    CASE message = "on" -> <<>>
      [] message = "off" -> <<"count", "read", "write">>
      [] message = "down" -> <<"pedal", "sustain", "dirty">>
      [] message = "up" -> <<"pedal", "sustain", "dirty", "off">>
      [] message = "notesOff" -> <<"bump", "notesOff", "bump">>
      [] message = "reset" -> <<"pedal", "reset">>

PressesUnderWay == "on" \in Range(ring) \/ render.pc = "mirror"

Pedals == {"down", "up", "reset"}

Excused(message, full) ==
    (IF message = "on" /\ full THEN {"pressLost"} ELSE {})
        \cup (IF message = "notesOff" THEN {"killed"} ELSE {})
        \cup (IF message = "off" /\ full /\ PressesUnderWay THEN {"phantom"} ELSE {})
        \cup (IF /\ message \in Pedals
                 /\ IF full THEN Pedals \cap Range(ring) # {}
                    ELSE \/ latch.dirty \/ latch.off
                         \/ At(1, "down") \in Range(render.lane)
              THEN {"reordered"} ELSE {})

\* A ring that takes one message too many.
Full_OneMore == Len(ring) > setup.capacity

Full == Len(ring) = setup.capacity

Send(message) ==
    LET full == Full
    IN  /\ sender.todo = <<>> /\ player.sent < MaxMessages /\ Events < MaxEvents /\ Sensible(message)
        /\ player' = Played(message)
        /\ ring' = IF full THEN ring ELSE Append(ring, message)
        /\ LET todo == IF full THEN Rejected(message) ELSE Accepted(message)
           IN  sender' = IF todo = <<>> THEN Idle
                         ELSE [Idle EXCEPT !.message = message, !.todo = todo]
        /\ history' = history \cup Excused(message, full)
        /\ UNCHANGED <<setup, latch, mirror, render, pool>>

\* latchDroppedNoteOff_.
Count ==
    IF latch.noteOffs < DroppedLimit THEN [latch EXCEPT !.noteOffs = @ + 1]
    ELSE [latch EXCEPT !.notesOff = TRUE]

Store ==
    LET op == Head(sender.todo)
        done == IF Tail(sender.todo) = <<>> THEN Idle ELSE [sender EXCEPT !.todo = Tail(@)]
    IN  /\ sender.todo # <<>>
        /\ sender' = IF op = "read" THEN [done EXCEPT !.gen = mirror.gen, !.depth = MirrorDepth]
                     ELSE done
        /\ mirror' = CASE op = "pedal" -> [mirror EXCEPT !.pedal = sender.message = "down"]
                       [] op = "bump" -> Bump
                       [] op = "write" -> WriteMirror("off", sender)
                       [] OTHER -> mirror
        /\ latch' = CASE op = "count" -> Count
                      [] op = "notesOff" -> [latch EXCEPT !.notesOff = TRUE]
                      [] op = "reset" -> [latch EXCEPT !.reset = TRUE]
                      [] op = "sustain" -> [latch EXCEPT !.sustain = sender.message = "down"]
                      [] op = "dirty" -> [latch EXCEPT !.dirty = TRUE]
                      [] op = "off" -> [latch EXCEPT !.off = TRUE]
                      [] OTHER -> latch
        /\ history' = IF op = "count" /\ latch.noteOffs = DroppedLimit
                      THEN history \cup {"killed"} ELSE history
        /\ UNCHANGED <<setup, player, ring, render, pool>>

-----------------------------------------------------------------------------
(* The render thread: one block.                                           *)

\* Positions come in order; without one, a release is already due.
RingEvents(message) ==
    LET late == \E k \in DOMAIN render.lane : render.lane[k].class = 3
        classes == IF ~ setup.stamped THEN {IF message = "off" THEN 0 ELSE 1}
                   ELSE IF late THEN {3} ELSE {0, 3}
    IN  {At(class, message) : class \in classes}

\* What has no position is played with the first frame, behind what is there; in a block
\* with a structural change (of model, clock or mode) it is played at the end.
Turn(event, structural) ==
    IF structural /\ event.class \in {1, 2} THEN event.class + 4 ELSE event.class

InOrder(lane, structural) ==
    LET Before(j, k) == \/ Turn(lane[j], structural) < Turn(lane[k], structural)
                        \/ Turn(lane[j], structural) = Turn(lane[k], structural) /\ j < k
        rank == [k \in DOMAIN lane |-> 1 + Cardinality({j \in DOMAIN lane : Before(j, k)})]
    IN  [i \in DOMAIN lane |-> lane[CHOOSE k \in DOMAIN lane : rank[k] = i].message]

Put(lane, class, message, present) ==
    IF present THEN Append(lane, At(class, message)) ELSE lane

\* applyStateRootCanonical: the notes that are held are captured, the engine is reset.
Capture ==
    /\ render.pc = "idle" /\ render.restores < MaxRestores /\ Events + 2 <= MaxEvents
    /\ render' = [render EXCEPT !.pc = "scrub", !.restores = @ + 1, !.depth = MirrorDepth]
    /\ pool' = [pool EXCEPT !.slot = [i \in Slots |-> Free], !.orphans = {}]
    /\ UNCHANGED <<setup, player, sender, ring, latch, mirror, history>>

\* The notes that are held are not played again.
Scrub_NoReplay ==
    /\ render.pc = "scrub"
    /\ ring' = <<>>
    /\ latch' = [NoLatch EXCEPT !.sustain = latch.sustain \/ mirror.pedal, !.dirty = mirror.pedal]
    /\ render' = [render EXCEPT !.pc = "critical", !.depth = 0]
    /\ history' = IF /\ ring = <<>> /\ [latch EXCEPT !.sustain = FALSE] = NoLatch
                     /\ sender.todo = <<>>
                  THEN history ELSE history \cup {"scrubbed"}
    /\ UNCHANGED <<setup, player, sender, mirror, pool>>

\* clearQueuedFactoryPatchIngress_, then sidReplayHeldNotes.
Scrub ==
    /\ render.pc = "scrub"
    /\ ring' = <<>>
    /\ latch' = [NoLatch EXCEPT !.sustain = latch.sustain \/ mirror.pedal, !.dirty = mirror.pedal]
    /\ render' = [render EXCEPT !.pc = "critical", !.depth = 0,
                                !.lane = [k \in 1 .. render.depth |-> At(2, "on")]]
    /\ history' = IF /\ ring = <<>> /\ [latch EXCEPT !.sustain = FALSE] = NoLatch
                     /\ sender.todo = <<>>
                  THEN history ELSE history \cup {"scrubbed"}
    /\ UNCHANGED <<setup, player, sender, mirror, pool>>

\* The first block of a tune: clearC64BypassedPerformanceState_.  What waits in the
\* ring and in the latches goes on waiting, and the engine keeps its pedals.
StartTune ==
    /\ render.pc \in {"idle", "critical"} /\ ~ render.bypassed
    /\ render.tunes < MaxTunes /\ Events + 2 <= MaxEvents
    /\ mirror' = [Bump EXCEPT !.pedal = FALSE]
    /\ pool' = [pool EXCEPT !.slot = [i \in Slots |-> Free], !.orphans = {}]
    /\ render' = [render EXCEPT !.pc = "tune", !.lane = <<>>, !.bypassed = TRUE, !.tunes = @ + 1]
    /\ history' = history \cup {"bypassed"}
    /\ UNCHANGED <<setup, player, sender, ring, latch>>

\* Any later block of it; the notes of a restore wait for the tune's end.
RenderTune ==
    /\ render.pc \in {"idle", "critical"} /\ render.bypassed
    /\ render' = [render EXCEPT !.pc = "tune"]
    /\ UNCHANGED <<setup, player, sender, ring, latch, mirror, pool, history>>

TuneRendered ==
    /\ render.pc = "tune"
    /\ render' = [render EXCEPT !.pc = "idle"]
    /\ UNCHANGED <<setup, player, sender, ring, latch, mirror, pool, history>>

\* Any other block: drainPendingCriticalMidiFallbacks_.
DrainCritical ==
    LET pedal == latch.dirty \/ latch.off
        value == IF latch.dirty /\ latch.sustain THEN "down" ELSE "up"
        lane == Put(Put(Put(render.lane, 1, "notesOff", latch.notesOff), 1, value, pedal),
                    1, "reset", latch.reset)
    IN  /\ render.pc \in {"idle", "critical"}
        /\ latch' = [latch EXCEPT !.notesOff = FALSE, !.reset = FALSE, !.dirty = FALSE,
                                  !.off = @ /\ latch.dirty]
        /\ mirror' = IF latch.reset THEN [mirror EXCEPT !.pedal = FALSE] ELSE mirror
        /\ render' = [render EXCEPT !.pc = "pop", !.lane = lane, !.bypassed = FALSE]
        /\ UNCHANGED <<setup, player, sender, ring, pool, history>>

\* dispatchCanonicalIngressEvent_: notes are mirrored here, in a read and a write.
Pop ==
    /\ render.pc = "pop" /\ ring # <<>>
    /\ ring' = Tail(ring)
    /\ IF Head(ring) \in {"on", "off"}
       THEN render' = [render EXCEPT !.pc = "mirror", !.message = Head(ring),
                                     !.gen = mirror.gen, !.depth = MirrorDepth]
       ELSE \E event \in RingEvents(Head(ring)) :
                render' = [render EXCEPT !.lane = Append(@, event)]
    /\ UNCHANGED <<setup, player, sender, latch, mirror, pool, history>>

Dispatch ==
    /\ render.pc = "mirror"
    /\ mirror' = WriteMirror(render.message, render)
    /\ \E event \in RingEvents(render.message) :
           render' = [render EXCEPT !.pc = "pop", !.message = "on", !.gen = 0, !.depth = 0,
                                    !.lane = Append(@, event)]
    /\ UNCHANGED <<setup, player, sender, ring, latch, pool, history>>

\* The ring is found empty: drainPendingDroppedNoteOffs_, and the block is put in order.
DrainDropped ==
    /\ render.pc = "pop" /\ ring = <<>>
    /\ latch' = [latch EXCEPT !.noteOffs = 0]
    /\ \E structural \in BOOLEAN :
           render' = [render EXCEPT !.pc = "play", !.lane = <<>>,
               !.due = InOrder(render.lane \o [k \in 1 .. latch.noteOffs |-> At(4, "off")],
                               structural)]
    /\ UNCHANGED <<setup, player, sender, ring, mirror, pool, history>>

\* A controller reset that the engine's pedal does not follow.
Voices_ResetKeepsPedal(message) ==
    CASE message = "on" -> NoteOn(pool, note, channel, Anonymous)
      [] message = "off" -> NoteOff(pool, note, channel, Anonymous)
      [] message \in {"down", "up"} -> SetSustainPedal(pool, channel, message = "down")
      [] message = "notesOff" -> AllNotesOffChannel(SetSustainPedal(pool, channel, FALSE), channel)
      [] OTHER -> pool

\* The engine gets the event; CC123 invalidates the held-note mirror once more.
Voices(message) ==
    CASE message = "on" -> NoteOn(pool, note, channel, Anonymous)
      [] message = "off" -> NoteOff(pool, note, channel, Anonymous)
      [] message \in {"down", "up", "reset"} -> SetSustainPedal(pool, channel, message = "down")
      [] message = "notesOff" -> AllNotesOffChannel(SetSustainPedal(pool, channel, FALSE), channel)

Play ==
    LET message == Head(render.due)
    IN  /\ render.pc = "play" /\ render.due # <<>>
        /\ pool' = Voices(message)
        /\ mirror' = IF message = "notesOff" THEN Bump ELSE mirror
        /\ render' = [render EXCEPT !.due = Tail(@)]
        /\ history' = history
             \cup (IF /\ message = "off" /\ channel \in pool.sustain
                      /\ Cardinality(KeyDownVoices(pool, note, channel)) > 1
                   THEN {"doubled"} ELSE {})
             \cup (IF /\ message = "on"
                      /\ pool.slot[NoteOnSlot(pool, note, channel, Anonymous)].keyDown
                   THEN {"stolen"} ELSE {})
        /\ UNCHANGED <<setup, player, sender, ring, latch>>

\* The end of the block: reconcileUnheldPolyVoices.
Reconcile ==
    LET Held == IF MirrorDepth > 0 THEN {<<channel, note>>} ELSE {}
        pedals == IF mirror.pedal THEN {channel} ELSE {}
        p == ReconcileUnheldVoices(pool, Held, pedals)
    IN  /\ render.pc = "play" /\ render.due = <<>>
        /\ pool' = ReleaseFinished(p, {i \in Slots : Released(p.slot[i])})
        /\ render' = [render EXCEPT !.pc = "idle"]
        /\ history' = IF Silenced(pool, p) # {} /\ latch.noteOffs > 0
                      THEN history \cup {"orphaned"} ELSE history
        /\ UNCHANGED <<setup, player, sender, ring, latch, mirror>>

Block == \/ Capture \/ Scrub
         \/ StartTune \/ RenderTune \/ TuneRendered
         \/ DrainCritical \/ Pop \/ Dispatch \/ DrainDropped \/ Play \/ Reconcile

Next == (\E message \in Messages : Send(message)) \/ Store \/ Block

\* A call that was begun goes on, and the host keeps asking for blocks; nothing ends a
\* tune.
Fairness == WF_vars(Store) /\ WF_vars(Block)

Spec == Init /\ [][Next]_vars /\ Fairness

-----------------------------------------------------------------------------
(* Properties.                                                             *)

Ops == {"pedal", "bump", "count", "read", "write", "sustain", "dirty", "off", "notesOff", "reset"}

\* The state stays well formed.
TypeOK ==
    /\ setup \in [capacity : RingCapacities, stamped : BOOLEAN]
    /\ player \in [key : BOOLEAN, pedal : BOOLEAN, sent : 0 .. MaxMessages]
    /\ sender.message \in Messages /\ sender.todo \in Seq(Ops) /\ sender.gen \in Nat /\ sender.depth \in Nat
    /\ ring \in Seq(Messages) /\ Len(ring) <= setup.capacity
    /\ latch \in [noteOffs : 0 .. DroppedLimit, notesOff : BOOLEAN, reset : BOOLEAN,
                  sustain : BOOLEAN, dirty : BOOLEAN, off : BOOLEAN]
    /\ mirror \in [gen : Nat, noteGen : Nat, depth : Nat, pedal : BOOLEAN]
    /\ render.pc \in {"idle", "scrub", "critical", "pop", "mirror", "play", "tune"}
    /\ render.bypassed \in BOOLEAN /\ render.tunes \in 0 .. MaxTunes
    /\ render.lane \in Seq([class : 0 .. 4, message : Messages]) /\ render.due \in Seq(Messages)
    /\ pool \in Pools
    /\ history \subseteq Excuses

\* Nothing is under way from the player to the voices.
AtRest ==
    /\ sender.todo = <<>> /\ ring = <<>> /\ [latch EXCEPT !.sustain = FALSE] = NoLatch
    /\ render.pc = "idle" /\ render.lane = <<>>

\* Once all messages have arrived, the mirror holds the key exactly when the player does.
\* (A tune forgets it on purpose.)
MirrorFollowsTheKey ==
    AtRest /\ history \cap {"pressLost", "killed", "phantom", "scrubbed", "bypassed"} = {} =>
        MirrorDepth = IF player.key THEN 1 ELSE 0

\* Once all messages have arrived, a key that is down has a voice: neither a full ring,
\* nor a restore, nor the reconciler takes it away.  A press that finds no other voice may, and a tune does.
HeldKeySounds ==
    /\ AtRest /\ player.key
    /\ history \cap {"pressLost", "killed", "doubled", "orphaned", "scrubbed", "stolen",
                     "bypassed"} = {}
    => \E i \in Slots : pool.slot[i].keyDown

\* When key and pedal are up, all voices fall silent in the end: releases that found the
\* ring full arrive, and the reconciler finds the presses that overtook their release.  A
\* tune silences them itself.
AllSilent(p) == \A i \in Slots : ~ Holds(p.slot[i])
ReleasedKeyFallsSilent ==
    (~ player.key /\ ~ player.pedal)
        ~> (player.key \/ player.pedal \/ AllSilent(pool)
            \/ history \cap {"phantom", "reordered", "scrubbed"} # {})

\* The engine learns in the end that the pedal is up, unless a tune plays: its blocks take
\* no message, and the engine keeps the pedal down until it is over.
PedalUpReachesTheEngine ==
    (~ player.pedal)
        ~> (player.pedal \/ channel \notin pool.sustain \/ render.pc = "tune"
            \/ history \cap {"reordered", "scrubbed"} # {})

\* "clearing the raw MIDI queue does not lose canonical held-note replay state": once all
\* messages have arrived, what a restore would play is what the player holds.
RestoreLosesNoHeldNote ==
    AtRest /\ history \subseteq {"scrubbed"} => MirrorDepth = IF player.key THEN 1 ELSE 0
=============================================================================
