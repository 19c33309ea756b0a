---------------------------- MODULE VoiceManager ----------------------------
(***************************************************************************)
(* VoiceManager: the allocator of the eight poly voices of                 *)
(* BitPerfectEngine, as operators on a pool                                *)
(*     slot       one VoiceState per voice                                 *)
(*     sustain    sustainPedalDownByChannel, as the set of channels        *)
(*     sostenuto  sostenutoPedalDownByChannel, likewise                    *)
(*     orphans    orphanPrevMask_, as a set of slots                       *)
(* The gate callbacks an operation makes are not part of its result: they  *)
(* go to the slots that held a note before it and hold none after it (see  *)
(* Silenced), and to a slot that a new note takes over.                    *)
(*                                                                         *)
(* Velocities and voice tokens are stored and handed on, never looked at   *)
(* on these paths, and are left out.  Ages only matter by their order: all *)
(* active voices age together, so an age is the number of different ages   *)
(* below it, plus one once a block has been rendered.                      *)
(***************************************************************************)
EXTENDS Integers, FiniteSets

CONSTANTS
    MaxVoices,   \* VoiceManager::MAX_VOICES
    Notes,       \* MIDI notes
    Channels,    \* MIDI channels
    NoteIds      \* note identities a host may give to a note

ASSUME MaxVoicesAssumption == MaxVoices \in Nat \ {0}
ASSUME IdentityAssumption == Notes \subseteq Nat /\ Channels \subseteq Nat /\ NoteIds \subseteq Nat

Slots == 1 .. MaxVoices

\* Notes of the arpeggiator have no channel; raw MIDI notes have no identity.
AnyChannel == -1
Anonymous == -1
NoNote == -1

VoiceStates == [note : Notes \cup {NoNote}, channel : Channels \cup {AnyChannel},
                id : NoteIds \cup {Anonymous}, age : Nat, isActive : BOOLEAN,
                keyDown : BOOLEAN, isSustained : BOOLEAN, isSostenuto : BOOLEAN]

Pools == [slot : [Slots -> VoiceStates], sustain : SUBSET Channels,
          sostenuto : SUBSET Channels, orphans : SUBSET Slots]

\* VoiceState::reset().
Free == [note |-> NoNote, channel |-> AnyChannel, id |-> Anonymous, age |-> 0,
         isActive |-> FALSE, keyDown |-> FALSE, isSustained |-> FALSE, isSostenuto |-> FALSE]

Started(note, channel, id) ==
    [note |-> note, channel |-> channel, id |-> id, age |-> 0, isActive |-> TRUE,
     keyDown |-> TRUE, isSustained |-> FALSE, isSostenuto |-> FALSE]

EmptyPool == [slot |-> [i \in Slots |-> Free], sustain |-> {}, sostenuto |-> {}, orphans |-> {}]

\* reset() forgets voices and pedals, and keeps the orphans of the last pass.
ResetPool(p) == [EmptyPool EXCEPT !.orphans = p.orphans]

-----------------------------------------------------------------------------
(* What a voice is doing.                                                  *)

Pedalled(v) == v.isSustained \/ v.isSostenuto
Holds(v) == v.isActive /\ (v.keyDown \/ Pedalled(v))
Released(v) == v.isActive /\ ~ Holds(v)

\* A channel that is not known matches every channel.
SameChannel(channel, v) ==
    channel = AnyChannel \/ v.channel = AnyChannel \/ v.channel = channel

Oldest(p, S) ==
    CHOOSE i \in S : \A j \in S : \/ p.slot[j].age < p.slot[i].age
                                  \/ p.slot[j].age = p.slot[i].age /\ i <= j

Lowest(S) == CHOOSE i \in S : \A j \in S : i <= j

\* A freed voice whose gate nobody lowers (as before FIX #04).
Silenced_NotFreed(p, q) ==
    {i \in Slots : Holds(p.slot[i]) /\ ~ Holds(q.slot[i]) /\ q.slot[i].isActive}

\* The slots that get a gate-off while p becomes q.
Silenced(p, q) == {i \in Slots : Holds(p.slot[i]) /\ ~ Holds(q.slot[i])}

-----------------------------------------------------------------------------
(* A note.                                                                 *)

\* Without an identity the pitch is the identity.
SameIdentity_ByPitch(p, note, channel, id) ==
    {i \in Slots : /\ p.slot[i].isActive
                   /\ p.slot[i].note = note /\ p.slot[i].id = id
                   /\ SameChannel(channel, p.slot[i])}

\* voiceIdentityMatches: only an identity the host gave makes a retrigger.
SameIdentity(p, note, channel, id) ==
    {i \in Slots : /\ p.slot[i].isActive /\ id # Anonymous
                   /\ p.slot[i].note = note /\ p.slot[i].id = id
                   /\ SameChannel(channel, p.slot[i])}

\* stealVoice: a tail first, then a voice no pedal holds, then any.
Victim(p) ==
    LET tails == {i \in Slots : Released(p.slot[i])}
        plain == {i \in Slots : p.slot[i].isActive /\ ~ Pedalled(p.slot[i])}
    IN  IF tails # {} THEN Oldest(p, tails)
        ELSE IF plain # {} THEN Oldest(p, plain)
        ELSE Oldest(p, Slots)

NoteOnSlot(p, note, channel, id) ==
    LET same == SameIdentity(p, note, channel, id)
        free == {i \in Slots : ~ p.slot[i].isActive}
    IN  IF same # {} THEN Lowest(same)
        ELSE IF free # {} THEN Lowest(free)
        ELSE Victim(p)

NoteOn(p, note, channel, id) ==
    [p EXCEPT !.slot[NoteOnSlot(p, note, channel, id)] = Started(note, channel, id)]

\* Any channel's pedal holds the note.
KeyUp_AnyPedal(p, i, channel) ==
    [p EXCEPT !.slot[i].keyDown = FALSE, !.slot[i].isSustained = p.sustain # {}]

\* The key of voice i goes up; the pedal of its channel may hold it.
KeyUp(p, i, channel) ==
    LET known == IF p.slot[i].channel # AnyChannel THEN p.slot[i].channel ELSE channel
        held == IF known # AnyChannel THEN known \in p.sustain ELSE p.sustain # {}
    IN  [p EXCEPT !.slot[i].keyDown = FALSE, !.slot[i].isSustained = held]

KeyDownVoices(p, note, channel) ==
    {i \in Slots : /\ p.slot[i].isActive /\ p.slot[i].keyDown /\ p.slot[i].note = note
                   /\ SameChannel(channel, p.slot[i])}

\* noteOffDetailedResult: the same identity, the very channel first, the oldest.
StrictNoteOff(p, note, channel, id) ==
    LET match == {i \in KeyDownVoices(p, note, channel) : p.slot[i].id = id}
        exact == {i \in match : p.slot[i].channel = channel /\ channel # AnyChannel}
    IN  IF match = {} THEN p
        ELSE KeyUp(p, Oldest(p, IF exact # {} THEN exact ELSE match), channel)

\* noteOffLooseSameNote: the oldest whatever its identity.
LooseNoteOff(p, note, channel) ==
    LET match == KeyDownVoices(p, note, channel)
    IN  IF match = {} THEN p ELSE KeyUp(p, Oldest(p, match), channel)

\* noteOff of the engine: the loose release follows whenever the strict one
\* returned no voice, which it also does when a pedal holds the one it found.
NoteOff(p, note, channel, id) ==
    LET strict == StrictNoteOff(p, note, channel, id)
    IN  IF Silenced(p, strict) # {} THEN strict ELSE LooseNoteOff(strict, note, channel)

-----------------------------------------------------------------------------
(* Pedals, cleaning up.                                                    *)

\* A pedal of the channel lets go of its voices in S; those nothing holds are freed.
LetGo(p, q, channel, S) ==
    [q EXCEPT !.slot = [i \in Slots |->
        IF i \notin S \/ ~ SameChannel(channel, p.slot[i]) THEN p.slot[i]
        ELSE IF Holds(q.slot[i]) THEN q.slot[i] ELSE Free]]

SetSustainPedal(p, channel, down) ==
    IF down THEN [p EXCEPT !.sustain = @ \cup {channel}]
    ELSE LET up == [p EXCEPT !.sustain = @ \ {channel},
                             !.slot = [i \in Slots |-> [p.slot[i] EXCEPT !.isSustained = FALSE]]]
         IN  LetGo(p, up, channel, {i \in Slots : p.slot[i].isSustained})

SetSostenutoPedal(p, channel, down) ==
    IF down
    THEN [p EXCEPT !.sostenuto = @ \cup {channel},
                   !.slot = [i \in Slots |->
                       [p.slot[i] EXCEPT !.isSostenuto =
                           @ \/ (/\ p.slot[i].isActive /\ p.slot[i].keyDown
                                 /\ SameChannel(channel, p.slot[i]))]]]
    ELSE LET up == [p EXCEPT !.sostenuto = @ \ {channel},
                             !.slot = [i \in Slots |-> [p.slot[i] EXCEPT !.isSostenuto = FALSE]]]
         IN  LetGo(p, up, channel, {i \in Slots : p.slot[i].isActive /\ p.slot[i].isSostenuto})

AllNotesOffChannel(p, channel) ==
    [p EXCEPT !.slot = [i \in Slots |->
        IF SameChannel(channel, p.slot[i]) THEN Free ELSE p.slot[i]]]

\* A pass that does not remember its orphans for the next.
ReconcileUnheldVoices_ForgetsPass(p, Held, pedals) ==
    LET orphan == {i \in Slots : /\ p.slot[i].isActive /\ p.slot[i].keyDown
                                 /\ p.slot[i].channel # AnyChannel
                                 /\ <<p.slot[i].channel, p.slot[i].note>> \notin Held
                                 /\ p.slot[i].channel \notin pedals}
    IN  [p EXCEPT !.slot = [i \in Slots |->
                      IF i \notin orphan \cap p.orphans THEN p.slot[i]
                      ELSE [p.slot[i] EXCEPT !.keyDown = FALSE, !.isSustained = FALSE,
                                             !.isSostenuto = FALSE]]]

\* reconcileUnheldVoices: keys that are down here but not in Held, a set of
\* <<channel, note>>, nor under a pedal, in two passes one after the other.
ReconcileUnheldVoices(p, Held, pedals) ==
    LET orphan == {i \in Slots : /\ p.slot[i].isActive /\ p.slot[i].keyDown
                                 /\ p.slot[i].channel # AnyChannel
                                 /\ <<p.slot[i].channel, p.slot[i].note>> \notin Held
                                 /\ p.slot[i].channel \notin pedals}
    IN  [p EXCEPT !.orphans = orphan,
                  !.slot = [i \in Slots |->
                      IF i \notin orphan \cap p.orphans THEN p.slot[i]
                      ELSE [p.slot[i] EXCEPT !.keyDown = FALSE, !.isSustained = FALSE,
                                             !.isSostenuto = FALSE]]]

\* reclaimSilentPolyVoices, releaseFinished: tails whose envelope has ended.
ReleaseFinished(p, silent) ==
    [p EXCEPT !.slot = [i \in Slots |-> IF i \in silent THEN Free ELSE p.slot[i]]]

UpdateVoiceAges(p) ==
    LET younger(i) == {p.slot[j].age : j \in {k \in Slots : /\ p.slot[k].isActive
                                                            /\ p.slot[k].age < p.slot[i].age}}
    IN  [p EXCEPT !.slot = [i \in Slots |->
            IF p.slot[i].isActive
            THEN [p.slot[i] EXCEPT !.age = 1 + Cardinality(younger(i))]
            ELSE p.slot[i]]]
=============================================================================
