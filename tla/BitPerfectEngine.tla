-------------------------- MODULE BitPerfectEngine --------------------------
(***************************************************************************)
(* The voices of BitPerfectEngine (multi-chip topology) between the notes, *)
(* pedals and mode changes that the render thread gives it and the gates   *)
(* of its chips.  In Poly the VoiceManager owns the voices, one chip each. *)
(* In Mono, Legato and Unison, the forced modes, a held stack owns one or  *)
(* more chips that all play the note on its top.  setVoiceMode carries the *)
(* held notes from one authority to the other.                             *)
(*                                                                         *)
(* A chip that starts a note goes through a hard restart: its gate is low  *)
(* for 46 SID cycles and is then raised by a countdown.                    *)
(*                                                                         *)
(* Pitch, glide, velocity and unison detune are left out: they start and   *)
(* stop no note.                                                           *)
(***************************************************************************)
EXTENDS VoiceManager, SequencesExt

CONSTANTS
    ForcedCapacity,   \* kForcedHeldCapacity
    UnisonCounts,     \* the values of unisonCount, set by the voice spread
    Presses,          \* bound on what is played: keys [note, channel, id] with their channel
    MaxKeys,          \* bound on the keys that are down at the same time
    MaxPedals         \* bound on the pedals that are down at the same time

ASSUME ForcedCapacityAssumption == ForcedCapacity \in Nat /\ ForcedCapacity >= MaxVoices
ASSUME PressAssumption == Presses \subseteq [note : Notes, channel : Channels, id : NoteIds \cup {Anonymous}]
ASSUME UnisonAssumption == UnisonCounts \subseteq Slots /\ UnisonCounts # {}

Modes == {"poly", "mono", "legato", "unison"}
ForcedModes == Modes \ {"poly"}
Entries == 1 .. ForcedCapacity

VARIABLES
    engine,   \* the engine: mode, unison; pool (VoiceManager); the forced plane with its
              \* held stack (forcedHeld_), voice (forcedActive_, forcedMidi_, ...: what each
              \* chip plays), sustain and sostenuto (its pedal flags); the chips' gate and
              \* restart (a hard restart is pending).  early and cut are history: the
              \* gates dropped while a restart was pending, and those that an all-notes-off
              \* of a channel dropped though a key of another channel should sound
    player,   \* what was played: keys in press order, pedals that are down, and whether the
              \* arpeggiator plays (its notes have no channel and are not reconciled); an
              \* all-notes-off takes the keys it kills, whose note-offs find no note
    history   \* since voices and keys were last at rest: "none", "order" when the order of
              \* the presses was lost, "notes" when a note went to another key or was stolen

\* The count matters in Unison only: it is any count when that mode is entered.
NoUnison == 0

vars == <<engine, player, history>>

NoteIdentities ==
    [note : Notes, channel : Channels \cup {AnyChannel}, id : NoteIds \cup {Anonymous}]
Silent == [note |-> NoNote, channel |-> AnyChannel, id |-> Anonymous]
Identity(x) == [note |-> x.note, channel |-> x.channel, id |-> x.id]

\* ForcedHeldEntry, with the order of the presses as ranks.
NoEntry == [note |-> NoNote, channel |-> AnyChannel, id |-> Anonymous, order |-> 0,
            isActive |-> FALSE, keyDown |-> FALSE, isSustained |-> FALSE, isSostenuto |-> FALSE]

Init ==
    /\ engine = [mode |-> "poly", unison |-> NoUnison,
                 pool |-> EmptyPool,
                 held |-> [k \in Entries |-> NoEntry], voice |-> [i \in Slots |-> Silent],
                 sustain |-> {}, sostenuto |-> {},
                 gate |-> {}, restart |-> {}, early |-> {}, cut |-> {}]
    /\ \E arp \in BOOLEAN :
           player = [keys |-> <<>>, sustain |-> {}, sostenuto |-> {}, arp |-> arp]
    /\ history = "none"

-----------------------------------------------------------------------------
(* Chips.                                                                  *)

\* setGate(false) leaves a pending restart alone.
GateOff(e, S) ==
    [e EXCEPT !.gate = @ \ S, !.early = (@ \ S) \cup (S \cap e.restart)]

\* startVoice: scheduleHardRestart.
StartVoices(e, S) ==
    [e EXCEPT !.gate = @ \ S, !.restart = @ \cup S, !.early = @ \ S, !.cut = @ \ S]

\* The new pool, with the gates dropped of the voices that hold no note any more.
WithPool(e, pool) ==
    GateOff([e EXCEPT !.pool = pool], Silenced(e.pool, pool))

\* Tails whose chip has neither gate nor restart: their envelope may have ended.
Finished(e) == {i \in Slots : Released(e.pool.slot[i]) /\ i \notin e.gate \cup e.restart}

-----------------------------------------------------------------------------
(* The forced plane.                                                       *)

\* forcedTopIndex: the newest entry that a key or a pedal holds.
SoundingEntries(held) == {k \in Entries : Holds(held[k])}
Newest_Oldest(held, K) == CHOOSE k \in K : \A j \in K : held[j].order >= held[k].order
Newest(held, K) == CHOOSE k \in K : \A j \in K : held[j].order <= held[k].order
First(held, K) == CHOOSE k \in K : \A j \in K : held[j].order >= held[k].order

\* updateForcedModeFromHeld.
Resolve(e, retrigger) ==
    LET sounding == SoundingEntries(e.held)
        top == Identity(e.held[Newest(e.held, sounding)])
        used == IF e.mode = "unison" THEN 1 .. e.unison ELSE {1}
    IN  IF sounding = {}
        THEN GateOff([e EXCEPT !.voice = [i \in Slots |-> Silent]], Slots)
        ELSE StartVoices(
                 GateOff([e EXCEPT !.voice = [i \in Slots |-> IF i \in used THEN top ELSE Silent]],
                         {i \in Slots \ used : e.voice[i] # Silent}),
                 {i \in used : e.voice[i] = Silent \/ retrigger})

\* findForcedHeldMatch: an entry of that host identity, the very channel first, the newest.
HeldMatch(held, note, channel, id) ==
    LET match == {k \in Entries : /\ held[k].isActive /\ id # Anonymous
                                  /\ held[k].note = note /\ held[k].id = id
                                  /\ SameChannel(channel, held[k])}
        exact == {k \in match : held[k].channel = channel /\ channel # AnyChannel}
    IN  IF exact # {} THEN exact ELSE match

Rank(held, k) == Cardinality({j \in Entries : held[j].isActive /\ held[j].order <= held[k].order})

\* The entry that is replaced still counts.
PutOnTop_CountsReplaced(held, k, entry) ==
    [held EXCEPT ![k] = [entry EXCEPT !.order =
        1 + Cardinality({i \in Entries : held[i].isActive})]]

\* Puts an entry at k on top of the stack.
PutOnTop(held, k, entry) ==
    LET others == [held EXCEPT ![k] = NoEntry]
    IN  [j \in Entries |->
            IF j = k THEN [entry EXCEPT !.order = 1 + Cardinality({i \in Entries : others[i].isActive})]
            ELSE IF held[j].isActive THEN [held[j] EXCEPT !.order = Rank(others, j)]
            ELSE held[j]]

\* forcedRegisterNoteOn: a match, else a free entry, else the oldest.
RegisterNoteOn(held, note, channel, id) ==
    LET match == HeldMatch(held, note, channel, id)
        free == {k \in Entries : ~ held[k].isActive}
        k == IF match # {} THEN Newest(held, match)
             ELSE IF free # {} THEN Lowest(free)
             ELSE First(held, Entries)
    IN  PutOnTop(held, k, [NoEntry EXCEPT !.note = note, !.channel = channel, !.id = id,
                                          !.isActive = TRUE, !.keyDown = TRUE])

\* forcedRegisterNoteOff: the oldest key that is down of that identity.
RegisterNoteOff(e, note, channel, id) ==
    LET held == e.held
        match == {k \in Entries : /\ held[k].isActive /\ held[k].keyDown
                                  /\ held[k].note = note /\ held[k].id = id
                                  /\ SameChannel(channel, held[k])}
        k == First(held, match)
        pedal == IF held[k].channel # AnyChannel THEN held[k].channel \in e.sustain
                 ELSE e.sustain # {}
        up == [held[k] EXCEPT !.keyDown = FALSE, !.isSustained = pedal]
    IN  IF match = {} THEN held
        ELSE [held EXCEPT ![k] = IF Pedalled(up) THEN up ELSE NoEntry]

\* Entries of the channel whose key is up lose the pedal; those without another are reset.
LiftSustain(held, channel) ==
    [k \in Entries |->
        IF ~ held[k].isActive \/ held[k].keyDown \/ ~ SameChannel(channel, held[k]) THEN held[k]
        ELSE IF held[k].isSostenuto THEN [held[k] EXCEPT !.isSustained = FALSE]
        ELSE NoEntry]

LatchSostenuto(held, channel) ==
    [k \in Entries |->
        [held[k] EXCEPT !.isSostenuto =
            @ \/ (held[k].isActive /\ held[k].keyDown /\ SameChannel(channel, held[k]))]]

LiftSostenuto(held, channel) ==
    [k \in Entries |->
        IF ~ held[k].isActive \/ ~ held[k].isSostenuto \/ ~ SameChannel(channel, held[k]) THEN held[k]
        ELSE IF held[k].keyDown \/ held[k].isSustained THEN [held[k] EXCEPT !.isSostenuto = FALSE]
        ELSE NoEntry]

-----------------------------------------------------------------------------
(* Changing the mode.                                                      *)

\* seedForcedHeldFromPolyState: every allocated voice, tails too, youngest first.
SeedFromPoly(e) ==
    LET active == {i \in Slots : e.pool.slot[i].isActive}
        Before(i, j) == \/ e.pool.slot[i].age < e.pool.slot[j].age
                        \/ e.pool.slot[i].age = e.pool.slot[j].age /\ i < j
        position == [i \in active |-> 1 + Cardinality({j \in active : Before(j, i)})]
        Entry(k) == LET v == e.pool.slot[CHOOSE i \in active : position[i] = k]
                    IN  [note |-> v.note, channel |-> v.channel, id |-> v.id, order |-> k,
                         isActive |-> TRUE, keyDown |-> v.keyDown,
                         isSustained |-> v.isSustained, isSostenuto |-> v.isSostenuto]
    IN  [k \in Entries |-> IF k <= Cardinality(active) THEN Entry(k) ELSE NoEntry]

\* An entry is pressed again as if its key were down; that of a pedal is marked as well.
PressAgain(e, entry) ==
    LET i == NoteOnSlot(e.pool, entry.note, entry.channel, entry.id)
        pool == NoteOn(e.pool, entry.note, entry.channel, entry.id)
        pedal == ~ entry.keyDown
    IN  StartVoices(
            [e EXCEPT !.pool = [pool EXCEPT !.slot[i].isSustained = pedal /\ entry.isSustained,
                                            !.slot[i].isSostenuto = pedal /\ entry.isSostenuto]],
            {i})

\* rebuildPolyFromForcedState: the entries are pressed again, the oldest first.
RebuildPoly(e, held) ==
    LET sounding == SoundingEntries(held)
        Nth(n) == CHOOSE k \in sounding :
                      Cardinality({j \in sounding : held[j].order <= held[k].order}) = n
        Pressed[n \in 0 .. Cardinality(sounding)] ==
            IF n = 0 THEN e ELSE PressAgain(Pressed[n - 1], held[Nth(n)])
    IN  Pressed[Cardinality(sounding)]

NoHeld == [k \in Entries |-> NoEntry]

\* setVoiceMode.  seedForcedHeldFromForcedVoices finds the stack in use and does nothing.
ChangeMode(e, mode, count) ==
    LET held == IF e.mode = "poly" THEN SeedFromPoly(e) ELSE e.held
        quiet == GateOff([e EXCEPT !.mode = mode, !.unison = count, !.pool = ResetPool(e.pool), !.held = held,
                                   !.voice = [i \in Slots |-> Silent]], Slots)
    IN  IF mode = "poly"
        THEN [RebuildPoly(quiet, held) EXCEPT !.held = NoHeld, !.sustain = {}, !.sostenuto = {}]
        ELSE Resolve(quiet, TRUE)

-----------------------------------------------------------------------------
(* What the render thread asks of the engine.                              *)

\* Voices and keys are at rest when no key is down on either side.
KeyDown(e, x) ==
    IF e.mode = "poly"
    THEN Cardinality({i \in Slots : e.pool.slot[i].keyDown /\ Identity(e.pool.slot[i]) = x})
    ELSE Cardinality({k \in Entries : e.held[k].keyDown /\ Identity(e.held[k]) = x})

Remember(notesLost, orderLost) ==
    history' = IF player'.keys = <<>> /\ \A x \in NoteIdentities : KeyDown(engine', x) = 0
               THEN "none"
               ELSE IF notesLost THEN "notes"
               ELSE IF orderLost /\ history = "none" THEN "order" ELSE history

\* The engine puts the note at the place of one that is still held.
Steals(e) ==
    IF e.mode = "poly" THEN \A i \in Slots : Holds(e.pool.slot[i])
    ELSE \A k \in Entries : e.held[k].isActive

\* The note as noteOn registers and starts it.
NoteOnEngine(e, note, channel, id) ==
    IF e.mode = "poly"
    THEN StartVoices([e EXCEPT !.pool = NoteOn(@, note, channel, id)],
                     {NoteOnSlot(e.pool, note, channel, id)})
    ELSE Resolve([e EXCEPT !.held = RegisterNoteOn(@, note, channel, id)],
                 CASE e.mode = "mono" -> TRUE
                   [] e.mode = "legato" -> e.voice[1] = Silent
                   [] e.mode = "unison" -> \A i \in Slots : e.voice[i] = Silent)

\* Bounds: MaxKeys, and no further key once a note has been lost.
NoteOnEvent(note, channel, id) ==
    /\ Len(player.keys) < MaxKeys /\ history # "notes"
    /\ \A k \in DOMAIN player.keys :
           id # Anonymous => player.keys[k].note # note \/ player.keys[k].id # id
    /\ \E silent \in SUBSET (IF engine.mode = "poly" THEN Finished(engine) ELSE {}) :
           LET e == [engine EXCEPT !.pool = ReleaseFinished(@, silent)]
           IN  /\ engine' = NoteOnEngine(e, note, channel, id)
               /\ player' = [player EXCEPT !.keys = Append(@, [note |-> note, channel |-> channel,
                                                              id |-> id])]
               /\ Remember(Steals(e), FALSE)

\* A pedal holds the voice of the key, so that the loose release takes another one too.
TakesTwo(e, note, channel, id) ==
    /\ e.mode = "poly"
    /\ LET strict == StrictNoteOff(e.pool, note, channel, id)
       IN  strict # e.pool /\ NoteOff(e.pool, note, channel, id) # strict

NoteOffEngine(e, note, channel, id) ==
    IF e.mode = "poly" THEN WithPool(e, NoteOff(e.pool, note, channel, id))
    ELSE Resolve([e EXCEPT !.held = RegisterNoteOff(e, note, channel, id)], FALSE)

\* A host may leave out the identity of the note.  Keys that are pressed alike cannot be told
\* apart: a release is one of the key that was pressed first.
NoteOffEvent(k, id) ==
    LET key == player.keys[k]
    IN  /\ id \in {key.id, Anonymous}
        /\ \A j \in 1 .. k - 1 : player.keys[j] # key
        /\ engine' = NoteOffEngine(engine, key.note, key.channel, id)
        /\ player' = [player EXCEPT !.keys = RemoveAt(@, k)]
        /\ Remember(id # key.id \/ TakesTwo(engine, key.note, key.channel, id), FALSE)

SustainEngine(e, channel, down) ==
    IF e.mode = "poly" THEN WithPool(e, SetSustainPedal(e.pool, channel, down))
    ELSE IF down THEN [e EXCEPT !.sustain = @ \cup {channel}]
    ELSE Resolve([e EXCEPT !.sustain = @ \ {channel}, !.held = LiftSustain(@, channel)],
                 e.mode # "legato")

SostenutoEngine(e, channel, down) ==
    IF e.mode = "poly" THEN WithPool(e, SetSostenutoPedal(e.pool, channel, down))
    ELSE Resolve(IF down THEN [e EXCEPT !.sostenuto = @ \cup {channel},
                                        !.held = LatchSostenuto(@, channel)]
                 ELSE [e EXCEPT !.sostenuto = @ \ {channel}, !.held = LiftSostenuto(@, channel)],
                 e.mode # "legato")

PedalsUp(e, channel) == SostenutoEngine(SustainEngine(e, channel, FALSE), channel, FALSE)

Moves(pedals, channel, down) ==
    /\ (channel \in pedals) # down
    /\ down => Cardinality(player.sustain) + Cardinality(player.sostenuto) < MaxPedals

Sustain(channel, down) ==
    /\ Moves(player.sustain, channel, down)
    /\ engine' = SustainEngine(engine, channel, down)
    /\ player' = [player EXCEPT !.sustain = IF down THEN @ \cup {channel} ELSE @ \ {channel}]
    /\ Remember(FALSE, FALSE)

Sostenuto(channel, down) ==
    /\ Moves(player.sostenuto, channel, down)
    /\ engine' = SostenutoEngine(engine, channel, down)
    /\ player' = [player EXCEPT !.sostenuto = IF down THEN @ \cup {channel} ELSE @ \ {channel}]
    /\ Remember(FALSE, FALSE)

\* CC121.
ResetAllControllers(channel) ==
    /\ channel \in player.sustain \cup player.sostenuto
    /\ engine' = PedalsUp(engine, channel)
    /\ player' = [player EXCEPT !.sustain = @ \ {channel}, !.sostenuto = @ \ {channel}]
    /\ Remember(FALSE, FALSE)

\* allNotesOffChannel.  A forced slot that plays nothing belongs to no channel and is
\* cleared, gate included: in Poly those are all slots.  In a forced mode the chips that play
\* the channel's note are cleared and not resolved again: entries of other channels stay silent.
AllNotesOffChannelEngine(e, channel) ==
    LET mine == {i \in Slots : e.pool.slot[i].isActive /\ SameChannel(channel, e.pool.slot[i])}
        slots == {i \in Slots : SameChannel(channel, e.voice[i])}
        held == [k \in Entries |-> IF e.held[k].isActive /\ SameChannel(channel, e.held[k])
                                   THEN NoEntry ELSE e.held[k]]
        owed == {i \in slots \ mine : \/ Holds(e.pool.slot[i])
                                     \/ (e.voice[i] # Silent /\ SoundingEntries(held) # {})}
        off == GateOff(e, mine \cup slots)
    IN  [off EXCEPT !.pool = AllNotesOffChannel(@, channel), !.held = held,
                    !.voice = [i \in Slots |-> IF i \in slots THEN Silent ELSE @[i]],
                    !.sustain = @ \ {channel}, !.sostenuto = @ \ {channel},
                    !.cut = (@ \cup owed) \ mine]

\* The keys that are not of the channel, in press order.
OtherKeys(keys, channel) ==
    LET others == {k \in DOMAIN keys : ~ SameChannel(channel, keys[k])}
        Nth(n) == CHOOSE k \in others : Cardinality({j \in others : j <= k}) = n
    IN  [n \in 1 .. Cardinality(others) |-> keys[Nth(n)]]

\* CC123 and CC120.
AllNotesOffOn(channel) ==
    /\ engine' = AllNotesOffChannelEngine(PedalsUp(engine, channel), channel)
    /\ player' = [keys |-> OtherKeys(player.keys, channel), sustain |-> player.sustain \ {channel},
                  sostenuto |-> player.sostenuto \ {channel}, arp |-> player.arp]
    /\ Remember(FALSE, FALSE)

\* allNotesOff: a state restore or a panic.  The pedals of the pool stay as they are.
AllNotesOff ==
    /\ engine' = GateOff([engine EXCEPT
                              !.pool.slot = [i \in Slots |-> Free], !.pool.orphans = {},
                              !.held = NoHeld, !.voice = [i \in Slots |-> Silent],
                              !.sustain = {}, !.sostenuto = {}, !.cut = {}], Slots)
    /\ player' = [player EXCEPT !.keys = <<>>]
    /\ Remember(FALSE, FALSE)

\* A pedal-held entry loses its pedal, voices are stolen, the oldest key gets on top.
SetVoiceMode(mode, count) ==
    LET e == ChangeMode(engine, mode, count)
        sounding == IF engine.mode = "poly" THEN {i \in Slots : Holds(engine.pool.slot[i])}
                    ELSE SoundingEntries(engine.held)
        kept == IF mode = "poly" THEN {i \in Slots : Holds(e.pool.slot[i])}
                ELSE SoundingEntries(e.held)
    IN  /\ mode # engine.mode /\ (mode # "unison" <=> count = NoUnison)
        /\ engine' = [e EXCEPT !.cut = {}]
        /\ UNCHANGED player
        /\ Remember(\/ Cardinality(kept) < Cardinality(sounding)
                    \/ mode = "poly" /\ \E k \in sounding : ~ engine.held[k].keyDown,
                    engine.mode = "poly" /\ Cardinality(sounding) > 1)

\* setVoiceSpread.
SetUnisonCount(n) ==
    /\ engine.mode = "unison" /\ n # engine.unison
    /\ engine' = Resolve([engine EXCEPT !.unison = n], FALSE)
    /\ UNCHANGED <<player, history>>

\* processBlock in Poly: the voices age, tails that have ended are freed.
RenderSlice ==
    /\ engine.mode = "poly"
    /\ \E silent \in SUBSET Finished(engine) :
           engine' = [engine EXCEPT !.pool = ReleaseFinished(UpdateVoiceAges(@), silent)]
    /\ UNCHANGED <<player, history>>

\* The end of the kernel's block: reconcileUnheldPolyVoices.
Reconcile ==
    LET keys == {<<player.keys[k].channel, player.keys[k].note>> : k \in DOMAIN player.keys}
        Held == IF player.arp THEN Channels \X Notes ELSE keys
        pool == ReconcileUnheldVoices(engine.pool, Held, player.sustain \cup player.sostenuto)
    IN  /\ engine' = IF engine.mode = "poly" THEN WithPool(engine, pool)
                     ELSE [engine EXCEPT !.pool.orphans = {}]
        /\ UNCHANGED player
        /\ Remember(FALSE, FALSE)

\* The countdown of a hard restart ends: the gate goes up.
RestartEnds(i) ==
    /\ i \in engine.restart
    /\ engine' = [engine EXCEPT !.restart = @ \ {i}, !.gate = @ \cup {i}]
    /\ UNCHANGED <<player, history>>

Next ==
    \/ \E key \in Presses :
           IF player.arp THEN NoteOnEvent(key.note, AnyChannel, Anonymous)
           ELSE NoteOnEvent(key.note, key.channel, key.id)
    \/ \E k \in DOMAIN player.keys, id \in NoteIds \cup {Anonymous} : NoteOffEvent(k, id)
    \/ \E channel \in Channels :
           \/ \E down \in BOOLEAN : Sustain(channel, down) \/ Sostenuto(channel, down)
           \/ ResetAllControllers(channel)
           \/ AllNotesOffOn(channel)
    \/ AllNotesOff
    \/ \E mode \in Modes, count \in UnisonCounts \cup {NoUnison} : SetVoiceMode(mode, count)
    \/ \E n \in UnisonCounts : SetUnisonCount(n)
    \/ RenderSlice
    \/ Reconcile
    \/ \E i \in Slots : RestartEnds(i)

Spec == Init /\ [][Next]_vars

-----------------------------------------------------------------------------
(* Properties.                                                             *)

\* The state stays well formed.
TypeOK ==
    /\ engine.mode \in Modes /\ engine.unison \in UnisonCounts \cup {NoUnison}
    /\ engine.pool \in Pools
    /\ engine.held \in [Entries -> [note : Notes \cup {NoNote}, channel : Channels \cup {AnyChannel},
                                    id : NoteIds \cup {Anonymous}, order : 0 .. ForcedCapacity,
                                    isActive : BOOLEAN, keyDown : BOOLEAN,
                                    isSustained : BOOLEAN, isSostenuto : BOOLEAN]]
    /\ engine.voice \in [Slots -> NoteIdentities \cup {Silent}]
    /\ engine.sustain \subseteq Channels /\ engine.sostenuto \subseteq Channels
    /\ {engine.gate, engine.restart, engine.early, engine.cut} \subseteq SUBSET Slots
    /\ history \in {"none", "order", "notes"}

\* As long as no voice was stolen and the host named its note-offs, the authority in
\* charge holds exactly the keys that are down, through pedals, resets and mode changes.
KeysMatchPresses ==
    history # "notes" =>
        \A x \in NoteIdentities :
            KeyDown(engine, x) = Cardinality({k \in DOMAIN player.keys :
                                    Identity(player.keys[k]) = x})

\* What sounds without its key is under a pedal the player still has down.
PedalNotesUnderPedal ==
    LET Under(v, pedals) == IF v.channel = AnyChannel THEN pedals # {} ELSE v.channel \in pedals
        notes == IF engine.mode = "poly" THEN {engine.pool.slot[i] : i \in Slots}
                 ELSE {engine.held[k] : k \in Entries}
    IN  \A v \in notes : v.isActive /\ ~ v.keyDown =>
            /\ v.isSustained => Under(v, player.sustain)
            /\ v.isSostenuto => Under(v, player.sostenuto)

Owners == IF engine.mode = "poly" THEN {i \in Slots : Holds(engine.pool.slot[i])}
          ELSE {i \in Slots : engine.voice[i] # Silent}

\* A gate is up only on a chip whose voice holds a note, and such a chip has its gate up
\* or is about to raise it; except for gates dropped during a hard restart, which come
\* back, and those an all-notes-off of another channel takes.
GatesFollowNotes ==
    /\ engine.gate \subseteq Owners \cup engine.early
    /\ Owners \subseteq engine.gate \cup engine.restart \cup engine.cut

\* In a forced mode the chip plays the key pressed last, unless a pedal holds notes.  After
\* an all-notes-off of the channel it played the chip is silent though keys of other channels
\* are down, and only until the stack is resolved again (cut): allNotesOffChannel clears the
\* chip and calls no updateForcedModeFromHeld.
LastNotePriority ==
    /\ engine.mode \in ForcedModes /\ history = "none" /\ player.keys # <<>>
    /\ \A k \in Entries : ~ Pedalled(engine.held[k])
    => engine.voice[1] = IF 1 \in engine.cut THEN Silent ELSE Identity(Last(player.keys))

\* "silence only the voices/chips assigned to channel": a held voice has its gate.
HeldVoicesSound == Owners \subseteq engine.gate \cup engine.restart
=============================================================================
