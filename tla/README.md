# Verification of ArpSID's real-time core

ArpSID is a SID/C64 synthesizer that runs as AUv2, AUv3, VST3 and Standalone. All four
wrappers share one kernel, `ArpSIDDSPKernel`, and the kernel's hardest code is not the sound:
it is how UI, host, MIDI and file threads hand state to a render thread that may never lock,
wait or allocate. This directory holds TLA+ specifications of that part of the program, TLC
configurations that check them on small instances, and proofs, checked by TLAPS, that hold
for every value of the constants.

Paths in this document are relative to the repository root.

## The system

### Threads

`docs/ARCHITECTURE.md` states the thread contract. *Any thread* may call `setParameter`,
`enqueueParameterIntent`, `pushMidi`, `schedulePendingStateRestore`,
`publishGuiRealtimeModels`, `loadPsidData` and `readTelemetry`; these only hand data over.
*One render thread* runs `processBlock`, never concurrently with itself, and owns every
engine. `setup` and `reset` do not overlap rendering.

### Components, their state and how they interact

| Component | State it keeps | Operations | Talks to |
|---|---|---|---|
| Ownership mailbox (`include/arpsid/core/sid_ownership_mailbox.h`) | three slots, one atomic word (parked slot, fresh bit), an index per side | `producerSlot`, `publish`, `tryConsume` | carries state roots, serializable templates, GUI models, DIGI banks, prepared SID-808 kits to the render thread |
| State restore (`schedulePendingStateRestore`, `drainPendingStateRestore_`, `applyStateRootCanonical` in `source/au3/ArpSIDDSPKernel.hpp`) | writer mutex, mailbox, live root in `SidRuntimeModel` | schedule on any thread, apply at the top of a block | scrubs the rings, rewrites every parameter, re-arms held notes, activates drum kits |
| Parameter ingress (`enqueueParameterIntent`, `flushDirtyParams_`, `runtimeStageNormalizedParameterOnly`) | per parameter: mirror, dirty flag, generation, packed fallback, applied generation; the intent ring; `renderParams_`; the parameter in the state root | set, flush, drain, stage | the ring below; the runtime execution owner |
| Bounded MPSC ring (`source/arpsid_bounded_mpsc_ring.h`) | cells with sequence numbers, enqueue and dequeue position, reset barrier | `push`, `pop`, `clearEnqueuedBeforeNow` | MIDI and parameter intents, both wrappers |
| Ingress lanes and merge (`sid_ingress_lane.h`, `sid_ingress_merge.h`, `sid_runtime_model.h`) | per lane a ring and a ring for critical events; behind them nodes, a spill array and latches | push, overflow, merge by sample, source and number | event queue |
| Canonical event queue and dispatcher (`sid_event_queue.h`, `sid_host_cycle_dispatcher.h`) | bounded block of events | push with eviction by priority, sort, dispatch between rendered spans | wrappers, arpeggiator, sequencer; engines |
| MIDI ingress and held replay (`enqueueMidiIntent`, the drains of `processBlock`, `sid_runtime_held_replay.h`) | ring, latches per channel for what it refuses, held-note and pedal mirrors | send, latch, drain, mirror, reconcile, capture and replay at a restore | senders on any thread; event lanes; engine voices; state restore |
| BitPerfectEngine voices (`bitperfect_engine.h`, `voice_manager.h`) | the voice table of Poly; the held stack of Mono, Legato and Unison; the chips' gates and hard restarts | notes, pedals, cleanups, mode changes, reconciliation, stealing | event dispatch; SID chips |
| Voice tokens and canonical allocator (`sid_voice_token*.h`, `sid_voice_allocator.h`, `sid_runtime_voice_policy.h`) | token pool, the root's own voice table | allocate, release, steal | engines, event dispatch |
| Performance generators (`arpeggiator.h`, `source/au3/ArpSIDSequencerEngine.h`, `kit_sequencer.h`) | held notes, step position, gate deadline | note in/out, advance by samples | event queue |
| Engines and chip (`include/arpsid/engines/`, `sid_chip.h`, filter and envelope cores) | oscillators, envelopes, filters | register writes, render | event dispatch |
| C64 machine (`include/arpsid/core/c64_*.h`) | 6510, CIA, VIC-II, PLA, RAM, SID bridge, render mutation journal | run cycles, journal begin/commit/rollback | PSID player |
| PSID handoff (`loadPsidDataForRequest`, `unloadPsid`, `drainPendingPsidHandoff_`) | load generation, incoming, active and retired player pointers | load, eject, install, retire | any thread to render thread and back |
| SID-808 bridge (`drum_engine_host_bridge.h`) | active kit, queued slot, prepared-kit mailbox, plan atomic | prepare, activate, queue, apply | state restore |
| Snapshots to the GUI (`scope_triple_buffer.h`, `host_transport_snapshot.h`, telemetry) | generation counter and words | store, load with retries | render thread to GUI |
| State codec and banks (`sid_state_codec.h`, `source/patchbank`, `arpsid_file_bank.cpp`) | none across calls | encode, decode, sanitize | wrappers |
| Wrappers (`source/au2`, `source/au3`, `source/vst3`, `source/standalone`) | host-facing parameter caches | translate host events | kernel |
| Editors (`source/gui`, the Cocoa view controller) | GUI models | draw, edit | wrappers |

The three interactions that carry the program's correctness are: a *setter* racing a render
block over one parameter's four atomics and its ring; a *restore* racing both; and any number
of *MIDI and UI threads* racing in one ring that the render thread clears when a patch changes.

### What is hard here

* Threads interleave between any two atomics; there is no lock on the render side.
* A restore replaces values that calls in flight are about to write.
* Rings overflow, and a second path (the packed fallback) then has to carry the value.
* A ring is cleared while producers are between claiming and committing a cell.
* The render thread must not free memory, so the mailbox swaps parts instead of copying them.
* A release must never be lost, whatever overflows, and never overtake its note; every overflow
  path has an order of its own.
* Two mirrors, written by different threads at different times, decide which voices the reconciler
  cuts and what a restore plays again.
* Held notes change hands between the voice table and the held stack whenever the play mode changes.

`PROJECT.json` lists each hazard at its line, with the properties that cover it or the reason
that none does yet.

### What makes each part correct

* Mailbox: one owner per slot; the render thread sees only whole, canonicalized roots; the newest
  root is never lost and becomes live; restores never go backwards.
* Parameter ingress: mirror, engine value and saved value agree when nothing is in flight; the last
  call wins; nothing superseded is staged later; every queued intent is drained.
* Ring: a cell has one user at a time; `push` fails only when the ring really is full; first in,
  first out; a clear cuts at one point in time; an interrupted producer delays but never blocks for good.
* Event queue, lanes and merge: events of a source keep their order; a block that loses a release
  has no note left; a released key is silent.
* MIDI ingress: the mirrors follow the player; a held key keeps its voice through full rings,
  restores and the reconciler; a released key and a released pedal arrive in the end.
* Voices: the authority in charge holds exactly the keys that are down; pedals hold what they must;
  gates follow notes; in the forced modes the key pressed last plays.
* C64 journal: rollback restores every cell of RAM and colour RAM, whatever was written how often.
* PSID handoff: the render thread never uses a freed player, a player is freed once, the newest
  request wins.
* GUI snapshots: a successful load is one store's snapshot.

## Modules

| Module | Role |
|---|---|
| `LatestValue` | abstract: a register that offers the latest value once, in order |
| `OwnershipMailbox` | mailbox, writer mutex, preparation and part-wise swap of a state restore |
| `MCOwnershipMailbox` | its instance for TLC |
| `OwnershipMailboxProofs` | its inductive invariant and theorems |
| `ParameterIngress` | one parameter from any thread to the engines and the saved state, with blocks and restores |
| `MCParameterIngress` | its instances |
| `ParameterIngressProofs` | its inductive invariants and theorems |
| `IngressFifo` | abstract: a bounded FIFO with an indivisible clear |
| `BoundedMpscRing` | the lock-free ring, one step per atomic access |
| `MCBoundedMpscRing` | its instance |
| `BoundedMpscRingProofs` | its inductive invariant, theorems and the refinement of `IngressFifo` |
| `RenderTransaction` | machine, mirror, dirty-write log and journal of the C64 runtime, one play with commit, rollback and recovery |
| `MCRenderTransaction` | its instances |
| `RenderTransactionProofs` | its inductive invariants and theorems |
| `PsidHandoff` | loads, unloads and ejects on any thread against the render thread's hand-over of players |
| `MCPsidHandoff` | its instances |
| `PsidHandoffProofs` | its inductive invariant and theorems |
| `EventPipeline` | lanes, overflow, merge, event queue and dispatch of a block's events |
| `MCEventPipeline` | its instance |
| `EventPipelineProofs` | its inductive invariants and theorems |
| `VoiceManager` | the allocator of the poly voices, as operators on a pool |
| `BitPerfectEngine` | the engine's two authorities over voices, its modes and gates; extends `VoiceManager` |
| `MCBitPerfectEngine` | its instances |
| `BitPerfectEngineProofs` | its inductive invariant, a lemma per action, and theorems |
| `MidiIngress` | MIDI from its sender through ring and latches to the voices of `VoiceManager`, with mirrors, reconciler and restore |
| `MCMidiIngress` | its instances |
| `MidiIngressProofs` | its inductive invariant and theorems |

An `MC` module extends its component's module; the `.cfg` files of the same prefix give the
constants their values. Definitions with an underscore (`Publish_NoReclaim`) are mutants: a
plausible bug in the definition named before the underscore, which the property of the same
row in `PROJECT.json` must detect. Variables and fields that only record what happened (`history`, `published`, `delivered`, `before`,
`wanted`, `owed`, `overlapped`, `early`, `cut`, `astray`, `strayed`, `lost`) are history: no action's
guard reads them, except to keep a bound.

### How a module corresponds to the code

Atomics are sequentially consistent in the models: every access to an atomic, or to plain data
of which an atomic decides who may touch it, is one step. The code orders these accesses by
acquire/release pairs on the same atomics, so the order of each thread's steps is kept. The one
place where that argument fails, the seqlock of the GUI snapshots, is not modelled yet.

**`OwnershipMailbox`** (`sid_ownership_mailbox.h:52-104`, `ArpSIDDSPKernel.hpp:5856-5910`,
`sid_runtime_model.h:224-247`). `state` is the one atomic word, split into the parked index and
the fresh bit. `LockWriterMutex`, `CopyPart`, `PreparePart` and `Publish` are
`schedulePendingStateRestore`; `SeeFresh` is the load and test of `tryConsume`, `Claim` its
exchange; `SwapPart` and `FinishApply` are the apply that exchanges one part of the live root
after the other. A part holds the number of the restore it came from and whether it was
canonicalized, so mixtures are visible. `LatestValue` says what a mailbox is for: a register
that offers the newest value once; `ImplementsLatestValue` is the refinement.

**`ParameterIngress`** (`ArpSIDDSPKernel.hpp:4532-4606`, `4660-4700`, `10500-10540`,
`4320-4345`). `param` holds the five atomics of one parameter. `Request` to `MarkFallbackDirty`
are `enqueueParameterIntent` with `publishParamIntentFallback_`, `StartRestore` to `RootClean`
the scrub and flush of a restore, `TakeDirty` to `FallbackStaged` `flushDirtyParams_`. Then the block
is either the C64 player's and returns (`RenderTune`, `TuneRendered`, `ArpSIDDSPKernel.hpp:7009-7018`),
or goes on with `StartDrain` to `EndBlock`, drain and dispatch. Nothing decides which: a tune may play
for any number of blocks. A step of staging writes the mirror first and the
dirty flag later, as the code does: finding 1 lives between these two stores. The ring
is the FIFO that `BoundedMpscRing` is shown to implement.

**`BoundedMpscRing`** (`arpsid_bounded_mpsc_ring.h`). One step per load, compare-exchange, data
access and store of `push`, `pop` and `clearEnqueuedBeforeNow`. `IngressFifo` is the bounded
FIFO with an indivisible clear. `Fifo` maps to it: an item is in the queue from the
compare-exchange that claims its cell on, and a clear takes effect where it reads the enqueue
position.

**`RenderTransaction`** (`c64_psid_runtime.h:1115-1183`, `1900-2018`, `2108-2184`,
`c64_platform.h:376-430`, `1521-1545`, `c64_memory_matrix.h:247-396`, and
`renderC64SidPlayer_` with its bridge transaction in the kernel). `pc` walks through a block:
`begun`, `running` (any sequence of `CpuWrite`, each routed by the banking that the port cell
holds), `syncing` (one `SyncEntry` per entry of the log, with `LogRam` and `LogColor` saving the
old cell in the journal), `publishing`, `decide` (`Commit`, `Rollback` or `RollbackAndResync`).
An address stands for the class of addresses that banking and mirror treat alike.

**`PsidHandoff`** (`ArpSIDDSPKernel.hpp:1588-1728`, `1830-1881`, `1940-2010`). A player is named
by the ticket of its load. `at[c]` walks a caller through collection, the three comparisons of
the ticket, subtune and publication, or through the four stores of an unload or eject.
`TakeUnload`, `TakeHardReset`, `TakeIncoming`, `Install` and `Park` are the render thread's
drain; `Park` is one compare-exchange on one retired slot. Only the render thread writes
`c64PsidLive_`, so its exchange is part of the step before it.

**`EventPipeline`** (`sid_ingress_lane.h`, `sid_ingress_merge.h:48-141`, `sid_event_queue.h:22-416`,
`sid_runtime_model.h:155-173`, `680-857`, `1082-1526`, `sid_host_cycle_dispatcher.h:47-291`).
`stage` walks through a block: `fill` (any number of `Push`), `merge` (`MergeEvent` numbers the
lanes' events in merged order, then nodes, spill and latches follow), `play` (`Dispatch` in the order
of `Before`). `Enqueue` is the queue's admission and eviction. A block may be rendered in fractions
of a sample, which moves events without a sample to its first one (`Time`). The samples of a block's
events come in any order, because the kernel's do: a note without a time has no sample, a release
without a time gets sample 0 (`ArpSIDDSPKernel.hpp:4884-4887`), a latched release the last sample. A
NoteOn and its NoteOff are of one key, so `key` says whether a source that let go of its key hears it
still, and whether its last release may come before a note (`Overtakes`): its stamp is the earlier one,
or it has no stamp, or the note overflowed with a number that the merge has not reached at the release.

**`VoiceManager`** (`voice_manager.h`) has no state of its own: a pool is a value, and each operation
maps a pool to a pool. **`BitPerfectEngine`** (`bitperfect_engine.h`) holds the pool, the held stack of the
forced modes and the chips' gates in one record `engine`; `player` is what was really pressed. One
action per call the render thread makes: notes, pedals, CC121, CC120/123, a panic, mode and unison
changes, a rendered slice (voices age, tails end), the reconciler, and the end of a hard restart.
Keys pressed alike, with the same note, channel and identity, cannot be told apart, so a release is
taken to be that of the one pressed first, as the comments of `findForcedHeldMatch` and
`findForcedHeldReleaseMatch` say (FIFO).

**`MidiIngress`** (`ArpSIDDSPKernel.hpp:4320-4527`, `4724-4892`, `5919-5949`, `6082-6221`, `7095-7108`,
`7367-7401`, `sid_runtime_held_replay.h:38-81`). `Send` is a message up to the answer of the ring;
`sender.todo` are the stores that follow, one `Store` each. `Capture` to `Reconcile` are the render
thread's block: an optional restore, the latches that come before the ring, `Pop` and `Dispatch`, the
latched releases, then `Play` in the order of the dispatcher (`InOrder`), then the reconciler. A block
of the C64 player returns before all of these (`StartTune`, `RenderTune`, `TuneRendered`); the first one
of a tune silences the voices and clears the mirrors (2843-2858), but leaves ring, latches and the
engine's pedals as they are.
`Excuses` names every circumstance under which a property is allowed to fail and the code accepts it
(a press the ring refused, one that took the voice of a key that is down, a tune that silenced
the voices) or has a gap (`phantom`, `reordered`, `scrubbed`).

## What is checked

| Run | Instance | Properties | Shows |
|---|---|---|---|
| `mailbox` | 2 producers, 3 parts, 4 restores | all of `OwnershipMailbox`, refinement, liveness | the hand-over loses, repeats and mixes nothing |
| `params` | 2 setters, 2 values, ring of 2, 3 calls, 1 restore | `NoSplitBrain`, `LastRequestWins`, `OlderIntentsStaySuperseded`, `QueuedIntentsDrain` | one value everywhere once settled; queued intents drain when no tune plays |
| `params_dedupe` | 1 setter, 3 values, 3 calls | `EveryRequestTakesEffect`, violated | finding 1 |
| `ring` | 2 producers, 2 cells, 4 pushes, 1 clear | all of `BoundedMpscRing`, refinement, liveness | the ring is a FIFO, its full answers are true |
| `render_tx` | 5 classes of addresses, log of 3, 3 writes a window, journal of 1 | `MirrorFollowsMachine`, `NoWriteIsSkipped`, `RollbackLeavesNoTrace` | a failed play leaves no trace, even after an overflowed journal |
| `psid` | 2 callers, 2 retired slots, 5 tickets (3 once calls overlapped) | `OneHolder`, `NobodyForgotten`, `NoOlderTunePlays`, `SubtuneOfLive` | no use after free, no double free, no silent leak; the newest tune or none |
| `psid_stale` | 2 callers | `NoStalePublish`, violated | finding 2 |
| `voices` | 2 voices, 2 stack entries, 2 identities on 2 channels, 3 keys, 1 pedal | `KeysMatchPresses`, `PedalNotesUnderPedal`, `GatesFollowNotes`, `LastNotePriority` | the two authorities and the gates agree with the player |
| `voices_channel` | the same, 2 keys | `HeldVoicesSound`, violated | finding 3 |
| `midi` | 1 key, ring of 1, 5 events: at most 4 messages, 1 restore, 1 tune (these two count double) | `MirrorFollowsTheKey`, `HeldKeySounds`, `ReleasedKeyFallsSilent`, `PedalUpReachesTheEngine` | no key hangs or is lost, but for the excuses; pedals arrive when no tune plays |
| `midi_restore` | the same | `RestoreLosesNoHeldNote`, violated | finding 4 |
| `events` | 6 events, 2 blocks of 2 samples, lane of 1+1, 1 node, spill of 1, queue of 3 | `ReleasesOutliveNotes`, `SourceOrder`, `ReleaseSilences` | releases are lost last; what is stamped in order is played in order |

Every passing run also checks its component's `TypeOK`.

### Bounds, and why they are enough

* *Mailbox.* Three parts tell "none, some, all" of a copy apart. Four restores pass once through
  all slots and come back to the first with a newer root. The proofs lift every bound.
* *Parameter.* Three calls on a ring of two fill the ring, leave one value to the fallback and one
  older intent behind it. One restore meets every step of a call. Two values are enough to see which
  of two intents was staged last; the run with three also tells a lost value from a restored default.
* *Ring.* Four pushes into two cells lap the ring twice; two producers are the least that can
  race for a cell, and one clear cuts among claimed, committed and free cells.
* *Render transaction.* A log of three wraps within the three writes of a window or not; a journal
  of one RAM and one colour cell overflows, or not. Blocks are not bounded: the state space is finite
  because a transaction ends where it began. With the code's sizes the journal never overflows, which
  is proved (`NeverOverflows`).
* *PSID.* With two slots two players are parked and the third is leaked. Two callers overlap in every
  way until three tickets are drawn; calls that follow one another go on to five and pass the ring
  twice. The code has eight slots.
* *Voices.* Two voices and three keys: one steal at most is needed to lose a key, and every table is
  full before. One key twice (with and without an identity, on two channels) has all the matching cases,
  because the matching rules compare pitch first; two pitches would only add keys that never meet. One
  pedal at a time separates sustain from sostenuto.
* *MIDI.* A ring of one and four messages: a press in the ring, a release and a pedal that find it full,
  and one more. A restore or a tune meets three messages, both together one (`MaxEvents`, where each
  counts as two); an excuse is met by one tune already, and blocks of a tune are not bounded. One latched
  release leads to the channel cleanup at the second (the ninth in the code).
  Blocks have more than one frame. Two voices are enough for the one key; the excuse `stolen` (a press
  that takes the voice of a key still down) needs a pool of one voice and is met by the proofs only.
* *Events.* Five events of a key in a block overflow every stage of their lane (`CriticalCapacity` 1, one
  node, one spill), six the queue with those of another source, and the number of an overflowed note may
  reach that of a release in its lane; with three events in each of two blocks what a block leaves behind
  carries over. Each event has any sample or none. The counter does not wrap (`CounterLimit` 16).

### Fairness

`FairSpec` of `ParameterIngress` and `BoundedMpscRing`: the host calls `processBlock` again and
again (weak fairness of the render thread's steps), and a call that has begun returns (weak
fairness per thread; nothing in it blocks). No thread is assumed to call at all, and nothing is
strongly fair. In `OwnershipMailbox` the same holds for a producer that has the writer mutex, in
`MidiIngress` for `Store` (a call that was begun) and `Block`. The other modules state safety only.

A block is not a block that drains. While the C64 player renders (a tune plays, or the component is the
C64 SID Player, whose idle blocks return there too) `processBlock` returns after the flush of dirty
parameters and before all rings and latches are drained (7009-7018), for as long as the user lets it.
Fairness of `Block` therefore promises one of the two kinds of block, and nothing ends a tune. What is
claimed of queued intents and of a released pedal is claimed of the other kind: `QueuedIntentsDrain` and
`PedalUpReachesTheEngine` are satisfied when the C64 player takes a block. `ReleasedKeyFallsSilent` needs
no such excuse, because a tune silences the voices itself, nor does `NewestEventuallyLive`, because the
restore is drained at the top of every block. In the other modules the question does not arise.

`mailbox` and `events` run with `CHECK_DEADLOCK FALSE`: when the last restore has been applied, or the
last block played, nothing is left to do. All other runs check for deadlock.

## What is proved

TLAPS checks the following for all values of the constants.

* **`OwnershipMailboxProofs`** (any number of producers, parts, slots from three on, restores).
  `IInv` adds to the slots' ownership how far the mutex holder has filled its slot
  (`FilledByWriter`), which versions the live root and the slot taken from the mailbox mix
  (`TakesNewer`) and that a fresh slot holds the newest root (`ParkedIsNewest`). Without the second
  the next producer could not be shown to overwrite all of the old root. All safety properties of the
  run and the refinement to `LatestValue` follow.
* **`RenderTransactionProofs`** (any address space, log, journal and number of writes). `IInv` says
  for every phase which cells of the mirror may differ from the machine (those still in the log or in
  the rest of the sync, `MirrorTracked`), and what the journal knows of a cell (`JournalFaithful`): an
  unsaved cell is unchanged unless *its* part of the journal is full. That distinction is needed
  because RAM and colour RAM share one overflow flag. A second invariant (`Counts`) counts saved cells
  and entries to copy against the log's size and gives `NeverOverflows` under `JournalFits`; the code's
  sizes (log 4096, RAM journal 8192, colour journal 1024) satisfy it.
* **`PsidHandoffProofs`** (any number of callers, slots, requests). Ownership alone is not inductive:
  an allocation could name a player that already exists. `IInv` adds that tickets are drawn once
  (`Drawn`), who builds what (`Builds`) and that a ticket names nothing until its player is allocated
  (`Unused`). Then no player is ever in two hands, none is used after it was freed, and none disappears. `Sequential`
  is the second invariant, for calls that follow one another: at most one call is at work (`Alone`),
  what is in flight or plays is the newest request's (`Newest`), and the subtune is its (`Shown`).
  `NewestTunePlays` and `SubtuneFollows` are its values at rest.
* **`BoundedMpscRingProofs`** (any capacity from two on, any number of producers, pushes and clears).
  The argument is about positions, not cells. The `Capacity` positions from the oldest in use on lie in
  different cells; for each of them the cell's sequence number says free, claimed or committed (`Window`),
  and the cell of any older position has moved on (`Past`). So a producer that slept for laps finds its
  old position past, and neither free nor full. `Claims` and `Copied` say what a producer or the
  consumer between two accesses still knows, `Counted` bounds positions by the calls made. `Refinement`
  maps the claimed positions to the queue of `IngressFifo`: a claim appends, a pop takes the head, the
  rest stutters, and a clear is one step where it reads the enqueue position.
* **`ParameterIngressProofs`** (any number of setters, values, calls, restores, any ring). `IInv` says
  which generations intents may carry: a queued one has been drawn, a block's is newer than what was
  applied; setters about to draw are counted against the calls. `Agreement` is the heart: while no live
  intent is under way (`Quiet`), mirror, snapshot and model agree as far as the render thread's step
  says (`InHand`), whatever superseded intents are still queued. `MirrorsAgree` is its value at rest.
  `Latest` follows the last call's value from the caller's hand through ring and block to the mirror
  (`LastIsNewest`), which gives `LastCallPlays`.
* **`EventPipelineProofs`** (any capacities, samples and bounds). `TypeCorrect` carries the capacities
  of both rings of every lane; for it a lane's events have different numbers. `LossInv` says that what
  the queue gave up or refused was no more important than anything left in it, together with the
  admission limits; `ReleasesLast` follows, because a reserve below the limit of other events is all
  that a release can find taken. `SourcesInOrder` needs that the queue is numbered in merged order,
  and assumes that the arrival counter does not wrap; it speaks of events whose samples are in the order
  of their pushes, and no step assumes that they are. `ReleasesSilence` rests on that order. `SilenceInv`
  says of a key that is up, and whose last release is not excused, that no note is left anywhere or that
  a release is on its way behind every note that is: still in a lane, where the merge will number it behind them, or
  numbered already (`Silenced`). Every way in which a release or a note changes its place then keeps it.
* **`BitPerfectEngineProofs`** (any number of voices and stack entries, any notes, channels, identities
  and unison counts). The engine has two authorities, the pool of Poly and the held stack of the forced
  modes, and everything is said of both: what is in use is well formed and what is not in charge is
  empty (`Sane`), what is held without a key is under a pedal that is down (`PedalsKnown`), gates and
  restarts agree with what is held (`GatesAgree`), no two entries are of one age (`Ranked`), each key is
  held as often as it is pressed (`KeysMatch`), and the stack has the keys in press order, the newest of
  them playing (`Ordered`). None is inductive by itself: that a mode change hands over the right notes
  needs that the side it empties was the only one in use. `Ordered` counts: the n-th key in press order
  is the entry with n entries up to its age. A press puts an entry on top of that order (`OnTop`), a
  release takes the oldest of the keys pressed alike away, an all-notes-off those of a channel
  (`ChannelOrdered`), after which the newest of the others may be owed its sound (`CutSilent`). `Continues` is shared by the actions that
  leave keys alone. Poly is rebuilt by a recursive function over the entries; that the function exists
  and that each press keeps the invariant is an induction on its length, stated for a set of numbers so
  that no operator has to be instantiated.
* **`MidiIngressProofs`** (any ring, number of voices, messages, restores and limit of latched releases).
  Both invariants hold only at rest, so `IInv` says what will hold once what is under way has arrived, by
  counting presses and releases at each place where they can be: ring, latch, a sender's stores to come,
  lane and dispatched block. `MirrorInv` is exact: with the messages before it mirrored, the mirror is 0
  or 1 before every message of the ring. `HeldInv` is one-sided, and so survives a phantom press: what the player
  holds and the releases under way never exceed what mirror or voices have and the presses under way
  (`MirrorHolds`, `VoicesHold`); `ReplayHolds` carries it through a restore. The two parts have
  different excuses, and neither follows from the other.

The assumptions are those named `...Assumption` in the components' modules, and `JournalFits`.

### Only model-checked

All safety properties of the passing runs are proved. Left to TLC are:

* Liveness (`NewestEventuallyLive`, `QueuedIntentsDrain`, `ClaimedCellsDrain`, `ReleasedKeyFallsSilent`,
  `PedalUpReachesTheEngine`): fairness and `ENABLED` are out of the prover's reach.
* What a sequence of calls computes beyond these invariants, which would be induction over data: for
  instance that merging sorts as the code's sorts do, which the model defines by its order.
* Everything that the runs with a violation show.

## Findings

1. A call whose value equals the mirror is dropped, although the mirror holds it only because an
   older queued intent was just staged and a newer one is still queued (`params_dedupe`).
2. The last comparison of the load ticket and the publication are separate steps: an overtaken load
   can replace the newer one (`psid_stale`). Needs two threads that load.
3. An all-notes-off on one channel drops the gates of all chips in Poly, because the idle slots of
   the forced modes have no channel and so match every one (`voices_channel`). The voices on other
   channels stay allocated and silent until their key goes up. The forced modes have a case of their own:
   `allNotesOffChannel` clears the chips and entries of its channel and does not resolve the stack again
   (`bitperfect_engine.h:838-852`), so after it the key on top, of another channel and still held, is silent
   until the next note, release or pedal, against the comment at 819-821 and the last-note priority of
   698-702. `LastNotePriority` states this case exactly: chip 1 is silent when it is in `cut`, and plays
   the key pressed last in every other.
4. A restore throws away queued notes whose mirror is only written when they are dispatched; the
   comment there says that they are mirrored already (`midi_restore`).

Behaviour found on the way that no run of its own shows; each is at its line under `hazards`:

* Staging an older intent clears the dirty mark of a fallback; its value waits for some later call.
* An eject and a load between two exchanges of the hand-over end with the new tune unloaded, and
  an installation there drops the hard reset of the eject.
* A note-off within the 46 cycles of a hard restart does not stop its countdown from raising the gate.
* The kernel stamps a release without a time with sample 0 and gives its press no sample (4884-4887), and
  plays latched releases at the last frame: a release of the same block is then played before its note.
  `SourceOrder` and `ReleaseSilences` hold for such events in any order and say what is left: played by
  their stamps, with the release silencing its key unless its own stamp is the earlier one.
  `ReleasedKeyFallsSilent` shows that the reconciler ends the voice.
* While the C64 player renders the blocks, queued parameter intents, MIDI messages and latches wait; the
  first block of a tune silences the voices, but leaves the engine's pedals down.
* What overflows is numbered apart from the lanes, so an overflowed release can sort before its note; so
  can a release that its lane still takes, as a critical event, when its note overflowed with a number
  not below the one that the merge gives the release. TLC found the second case while the proof of
  `ReleaseSilences` was being prepared; the property excuses both (`Overtakes`).
* With three stack entries, releases that are not matched first in, first out would leave another key on
  top than the one pressed last. The stack matches FIFO and documents it; `NoteOffEvent` now says it of
  the player, where two entries had hidden it.
* A note-off under a pedal lets go of a second voice of the same pitch.

## What is not modelled

Signal processing, the instruction set, codecs, file formats, host glue and editors: they are
sequential or numeric, or belong to toolkits outside the repository; `PROJECT.json` gives the
reason per component. That is most of the repository: of its 84,000 lines of implementation the
register-level engines, chips, the 6510 and VIC-II, the tables of parameters and drawing code make up
more than two thirds, and the map covers about a twentieth, the part in which threads, orders and
overflows decide. Inside the modelled components: other parameters' side effects, the host
retention overlay and time conversion (parameters); CPU, chip and cycle state, and the cells that
bootstrap, port and colour-RAM shadow keep outside the mirror (render transaction); what `runInit`
and an installation do to the engines (PSID); cycles and subphases (events); velocity, pitch, glide,
the single-chip topology (voices); controllers other than CC64, 120, 121 and 123, and host timed events
(MIDI). Blocks of more than `kMaxFramesPerBlock` frames (`ArpSIDDSPKernel.hpp:6921-6990`), which drain the
rings before the latches and before the flush, are left out of `ParameterIngress` and `MidiIngress`. Allocation failure is part of `GiveUp`.

## Plan

1. *The canonical root's voice table* beside the engine's (`sid_voice_allocator.h`): two tables that
   one dispatcher updates in an order that depends on the event.
2. *SID-808 restore and GUI model pair*: two mailboxes and a root that are published one after the
   other (hazard at `ArpSIDDSPKernel.hpp:6026`). Abstract specification: a pair of latest
   values that belong together.
3. *Seqlock of the GUI snapshots* (`scope_triple_buffer.h:145-185`), with a model of store order.
4. *Blocks over `kMaxFramesPerBlock`*: the second order of the drains, for parameters and MIDI.
5. *Arpeggiator and sequencer*, then *CIA timers*.
