------------------------- MODULE RenderTransaction -------------------------
(***************************************************************************)
(* A C64 tune plays on the PHI2 machine of C64Runtime.  The platform next  *)
(* to it is a mirror that bootstraps, telemetry and the GUI projection     *)
(* read; after each window of machine cycles it is brought up to date from *)
(* the machine's dirty-write log.  A play routine that jams, runs out of   *)
(* budget or overflows the timed-write list must leave no trace, so the    *)
(* kernel wraps it in a transaction: machine, sink and bridge are saved by *)
(* value, the platform by a bounded journal of the cells that are poked.   *)
(*                                                                         *)
(* All of it runs on the render thread; what is hard is the number of      *)
(* partial copies of one memory.  One byte has two values here; addresses  *)
(* differ by what the banking and the mirror do with them.                 *)
(***************************************************************************)
EXTENDS Naturals, Sequences

CONSTANTS
    Addresses,       \* the CPU's address space
    Port,            \* $0001, which selects what the CPU sees at $D000-$DFFF
    ColorRange,      \* $D800-$DBFF: colour RAM, with I/O banked out plain RAM
    SidRange,        \* $D400-$D7FF: SID registers, with I/O banked out RAM
    CodeCells,       \* where the play bootstrap's code goes
    VectorCells,     \* $FFFC/$FFFD, set by the bootstrap in the platform only
    Bootstrap,       \* the bytes of the bootstrap, fixed for a tune
    AddressOrder,    \* all addresses, ascending
    Values,          \* byte values
    PowerOn,         \* the byte all cells hold when the tune is ready to play
    IoMaps,          \* port values that show I/O
    NotSaved,        \* no journal entry
    LogSize,         \* kDirtyWriteLogSize
    MaxDirtyRam,     \* kMaxDirtyRam
    MaxDirtyColor,   \* kMaxDirtyColor
    MaxTimedWrites,  \* C64SidBridgeState::kMaxTimedWrites
    MaxWrites        \* bound on the CPU writes of one window

ASSUME AddressAssumption ==
    /\ Port \in Addresses
    /\ ColorRange \subseteq Addresses /\ SidRange \subseteq Addresses
    /\ CodeCells \subseteq Addresses /\ VectorCells \subseteq Addresses
    /\ Port \notin ColorRange \cup CodeCells \cup VectorCells
    /\ (CodeCells \cup VectorCells) \cap ColorRange = {}
    /\ AddressOrder \in Seq(Addresses)
    /\ \A a \in Addresses : \E i \in 1 .. Len(AddressOrder) : AddressOrder[i] = a
ASSUME ValueAssumption ==
    /\ PowerOn \in Values /\ NotSaved \notin Values
    /\ Bootstrap \in [CodeCells \cup VectorCells -> Values]
ASSUME LimitAssumption ==
    /\ LogSize \in Nat \ {0} /\ MaxTimedWrites \in Nat /\ MaxWrites \in Nat
    /\ MaxDirtyRam \in Nat /\ MaxDirtyColor \in Nat

\* A VBI tune is called once a frame, with passive catch-up in between; a CIA
\* tune is serviced by its timer; RSID and play-less PSID run continuously.
Tunes == {"vbi", "cia", "continuous"}
Windows == {"none", "play", "service", "continuous", "passive"}

Ram == [Addresses -> Values]
Color == [ColorRange -> Values]
Machines == [ram : Ram, color : Color, log : Seq(Addresses), wrapped : BOOLEAN]
Platforms == [ram : Ram, color : Color, sid : Values]
Bridges == [count : Nat, overflow : Nat]
Journals ==
    [active : BOOLEAN, overflow : BOOLEAN, ramCount : Nat, colorCount : Nat,
     ram : [Addresses -> Values \cup {NotSaved}],
     color : [ColorRange -> Values \cup {NotSaved}], sid : Values]

VARIABLES
    tune,      \* what the loaded image is
    machine,   \* phi2Machine_: RAM, colour RAM and the dirty-write log
    sink,      \* sink_: SID registers of the runtime
    bridge,    \* c64SidBridge_: timed writes of this block, and those dropped
    platform,  \* platform_: RAM, colour RAM and SID image of the mirror
    journal,   \* platform_.renderJournal_ with its seen-bits
    tx,        \* renderTxActive_, renderTxDeferredFullRamSync_
    saved,     \* the value snapshots of machine, sink and bridge
    pc,        \* where the render thread is
    window,    \* which window of cycles is running
    ok,        \* what the window reports: play returned, service did not jam
    written,   \* CPU writes of this window
    start,     \* entries the log held when the window began
    queue,     \* addresses the sync has yet to copy
    before     \* history: everything, when the transaction began

vars == <<tune, machine, sink, bridge, platform, journal, tx, saved, pc, window,
          ok, written, start, queue, before>>
windowVars == <<window, ok, written, start>>
txVars == <<tx, saved, before>>

NoBridge == [count |-> 0, overflow |-> 0]
NoTx == [active |-> FALSE, deferred |-> FALSE]
PowerOnRam == [a \in Addresses |-> PowerOn]
PowerOnColor == [a \in ColorRange |-> PowerOn]
PowerOnMachine == [ram |-> PowerOnRam, color |-> PowerOnColor, log |-> <<>>, wrapped |-> FALSE]
PowerOnPlatform == [ram |-> PowerOnRam, color |-> PowerOnColor, sid |-> PowerOn]

\* The snapshot buffers keep their content after a transaction, but nobody
\* reads it: they go back to one value so that TLC sees fewer states.
NoSnapshot == [machine |-> PowerOnMachine, sink |-> PowerOn, bridge |-> NoBridge]
NoHistory == [machine |-> PowerOnMachine, sink |-> PowerOn, bridge |-> NoBridge,
              platform |-> PowerOnPlatform]

NoJournal ==
    [active |-> FALSE, overflow |-> FALSE, ramCount |-> 0, colorCount |-> 0,
     ram |-> [a \in Addresses |-> NotSaved], color |-> [a \in ColorRange |-> NotSaved],
     sid |-> PowerOn]

\* Right after runInit: machine and mirror agree.
Init ==
    /\ tune \in Tunes
    /\ machine = PowerOnMachine /\ sink = PowerOn /\ bridge = NoBridge
    /\ platform = PowerOnPlatform /\ journal = NoJournal
    /\ tx = NoTx /\ saved = NoSnapshot /\ before = NoHistory
    /\ pc = "idle" /\ window = "none" /\ ok = TRUE
    /\ written = 0 /\ start = 0 /\ queue = <<>>

-----------------------------------------------------------------------------
(* Opening a window of machine cycles.                                     *)

\* renderC64SidPlayer_ begins a block with resetTimedWrites and then plays as
\* many frames, or services the timer as often, as the block is long.
StartBlock ==
    /\ pc = "idle" /\ tune \in {"vbi", "cia"}
    /\ bridge' = NoBridge
    /\ UNCHANGED <<tune, machine, sink, platform, journal, txVars, pc, windowVars, queue>>

\* beginBridgeTransaction_, beginRenderTransaction, beginRenderMutationJournal.
BeginTransaction ==
    /\ pc = "idle" /\ tune \in {"vbi", "cia"}
    /\ ~tx.active /\ ~journal.active
    /\ tx' = [active |-> TRUE, deferred |-> FALSE]
    /\ saved' = [machine |-> machine, sink |-> sink, bridge |-> bridge]
    /\ journal' = [NoJournal EXCEPT !.active = TRUE, !.sid = platform.sid]
    /\ before' = [machine |-> machine, sink |-> sink, bridge |-> bridge,
                  platform |-> platform]
    /\ pc' = "begun"
    /\ UNCHANGED <<tune, machine, sink, bridge, platform, windowVars, queue>>

OpenWindow(w) ==
    /\ pc' = "running" /\ window' = w /\ written' = 0
    /\ start' = Len(machine.log)
    /\ UNCHANGED ok

\* runPlay: installPsidPlayBootstrap writes the platform past the journal, and
\* runPsidVbiPlayViaPhi2_ copies the code into the machine past the log.
DispatchPlay ==
    /\ pc = "begun" /\ tune = "vbi"
    /\ platform' = [platform EXCEPT !.ram = [a \in Addresses |->
                       IF a \in CodeCells \cup VectorCells THEN Bootstrap[a] ELSE @[a]]]
    /\ machine' = [machine EXCEPT !.ram = [a \in Addresses |->
                       IF a \in CodeCells THEN Bootstrap[a] ELSE @[a]]]
    /\ OpenWindow("play")
    /\ UNCHANGED <<tune, sink, bridge, journal, txVars, queue>>

ServiceCia ==
    /\ pc = "begun" /\ tune = "cia"
    /\ OpenWindow("service")
    /\ UNCHANGED <<tune, machine, sink, bridge, platform, journal, txVars, queue>>

\* runContinuousMachineCycles, once a block; no transaction around it.
RunContinuous ==
    /\ pc = "idle" /\ tune = "continuous"
    /\ bridge' = NoBridge
    /\ OpenWindow("continuous")
    /\ UNCHANGED <<tune, machine, sink, platform, journal, txVars, queue>>

\* runPsidVbiPassivePhi2Cycles: the CPU is suppressed, timers advance.
RunPassive ==
    /\ pc = "idle" /\ tune = "vbi"
    /\ OpenWindow("passive")
    /\ UNCHANGED <<tune, machine, sink, bridge, platform, journal, txVars, queue>>

-----------------------------------------------------------------------------
(* MemoryMatrix::cpuWrite                                                  *)

IoVisible == machine.ram[Port] \in IoMaps

\* recordDirtyWrite_; once wrapped, what the log holds is never looked at.
LogWriteAs(m, a, last) ==
    IF last THEN [m EXCEPT !.log = <<>>, !.wrapped = TRUE]
            ELSE [m EXCEPT !.log = Append(@, a)]

\* Mutant: the head runs one entry too far.
LogWrite_OneMore(m, a) == LogWriteAs(m, a, Len(m.log) = LogSize)

LogWrite(m, a) == LogWriteAs(m, a, Len(m.log) + 1 = LogSize)

WriteColor(a, v) ==
    /\ IoVisible /\ a \in ColorRange
    /\ machine' = LogWrite([machine EXCEPT !.color[a] = v], a)
    /\ UNCHANGED <<sink, bridge>>

\* C64SidBridgeState::sidWrite counts what no longer fits.
WriteSid(a, v) ==
    /\ IoVisible /\ a \in SidRange
    /\ machine' = LogWrite(machine, a)
    /\ sink' = v
    /\ bridge' = IF bridge.count < MaxTimedWrites
                 THEN [bridge EXCEPT !.count = @ + 1]
                 ELSE [bridge EXCEPT !.overflow = @ + 1]

WriteRam(a, v) ==
    /\ ~(IoVisible /\ a \in ColorRange \cup SidRange)
    /\ machine' = LogWrite([machine EXCEPT !.ram[a] = v], a)
    /\ UNCHANGED <<sink, bridge>>

CpuWrite(a, v) ==
    /\ pc = "running" /\ window # "passive"
    /\ written < MaxWrites
    /\ WriteColor(a, v) \/ WriteSid(a, v) \/ WriteRam(a, v)
    /\ written' = written + 1
    /\ UNCHANGED <<tune, platform, journal, txVars, pc, window, ok, start, queue>>

-----------------------------------------------------------------------------
(* syncPlatformRamFromPhi2Writes_ and the platform's journal.              *)

LogOfWindow == SubSeq(machine.log, start + 1, Len(machine.log))

\* Mutant: a log that wrapped is taken for complete.
SyncQueue_TrustsLog == LogOfWindow

\* What a sync copies: entries from before the window are skipped, and a log
\* that wrapped says nothing, so everything is copied.
SyncQueue ==
    IF machine.wrapped THEN AddressOrder
                       ELSE LogOfWindow

\* The window is over.  Inside a transaction a wrapped log is not synced now:
\* a full copy would not fit into the journal.
EndWindow(result) ==
    LET defer == machine.wrapped /\ tx.active /\ journal.active IN
    /\ pc = "running"
    /\ window \in {"continuous", "passive"} => result
    /\ ok' = result
    /\ tx' = [tx EXCEPT !.deferred = @ \/ defer]
    /\ pc' = IF defer THEN "publishing" ELSE "syncing"
    /\ queue' = IF defer THEN <<>> ELSE SyncQueue
    /\ UNCHANGED <<tune, machine, sink, bridge, platform, journal, saved, before,
                   window, written, start>>

\* logMemoryWrite_: the value before the first write of the transaction.
LogRam(a) ==
    IF ~journal.active \/ journal.ram[a] # NotSaved THEN journal
    ELSE IF journal.ramCount >= MaxDirtyRam THEN [journal EXCEPT !.overflow = TRUE]
    ELSE [journal EXCEPT !.ram[a] = platform.ram[a], !.ramCount = @ + 1]

\* logColorRamWrite_
LogColor(a) ==
    IF ~journal.active \/ journal.color[a] # NotSaved THEN journal
    ELSE IF journal.colorCount >= MaxDirtyColor THEN [journal EXCEPT !.overflow = TRUE]
    ELSE [journal EXCEPT !.color[a] = platform.color[a], !.colorCount = @ + 1]

PokeMemory(a) ==
    /\ a \notin ColorRange
    /\ journal' = LogRam(a)
    /\ platform' = [platform EXCEPT !.ram[a] = machine.ram[a]]

\* An address in $D800-$DBFF always goes to the visible colour RAM, whether or
\* not the CPU's write did.
PokeColorRam(a) ==
    /\ a \in ColorRange
    /\ journal' = LogColor(a)
    /\ platform' = [platform EXCEPT !.color[a] = machine.color[a]]

SyncEntry ==
    /\ pc = "syncing" /\ queue # <<>>
    /\ PokeMemory(Head(queue)) \/ PokeColorRam(Head(queue))
    /\ queue' = Tail(queue)
    /\ UNCHANGED <<tune, machine, sink, bridge, txVars, pc, windowVars>>

\* clearDirtyWriteLog; a sync deferred to the commit is the last step of it.
FinishSync ==
    /\ pc = "syncing" /\ queue = <<>>
    /\ machine' = [machine EXCEPT !.log = <<>>, !.wrapped = FALSE]
    /\ pc' = IF window = "none" THEN "idle" ELSE "publishing"
    /\ UNCHANGED <<tune, sink, bridge, platform, journal, txVars, windowVars, queue>>

CloseWindow ==
    /\ pc' = IF tx.active THEN "decide" ELSE "idle"
    /\ window' = IF tx.active THEN window ELSE "none"
    /\ UNCHANGED <<ok, written, start>>

\* syncPlatformInspectionFromPhi2_ writes the port past the journal;
\* syncPlatformSidMirrorFromSink_ copies the SID image.
Publish ==
    /\ pc = "publishing" /\ (window = "play" => ok)
    /\ platform' = [platform EXCEPT !.ram[Port] = machine.ram[Port], !.sid = sink]
    /\ CloseWindow
    /\ UNCHANGED <<tune, machine, sink, bridge, journal, txVars, queue>>

\* A play routine that did not return publishes nothing.
PublishNothing ==
    /\ pc = "publishing" /\ window = "play" /\ ~ok
    /\ CloseWindow
    /\ UNCHANGED <<tune, machine, sink, bridge, platform, journal, txVars, queue>>

-----------------------------------------------------------------------------
(* Commit or rollback.                                                     *)

\* bridgeTimedWriteOverflowedSinceTransaction_
TimedWritesLost == bridge.overflow # saved.bridge.overflow

EndTransaction ==
    /\ tx' = NoTx /\ saved' = NoSnapshot /\ before' = NoHistory
    /\ journal' = NoJournal
    /\ window' = "none"
    /\ UNCHANGED <<tune, ok, written, start>>

\* commitRenderTransaction: journal first, then the sync that was deferred.
CommitAs(resume) ==
    /\ pc = "decide" /\ ok /\ ~TimedWritesLost
    /\ pc' = IF resume THEN "syncing" ELSE "idle"
    /\ queue' = IF resume THEN SyncQueue ELSE <<>>
    /\ EndTransaction
    /\ UNCHANGED <<machine, sink, bridge, platform>>

\* Mutant: the deferred sync is forgotten.
Commit_NoResume == CommitAs(FALSE)

Commit == CommitAs(tx.deferred)

\* rollbackRenderMutationJournal: entries go back where they came from.
Restored ==
    [ram |-> [a \in Addresses |->
                 IF journal.ram[a] # NotSaved THEN journal.ram[a] ELSE platform.ram[a]],
     color |-> [a \in ColorRange |->
                 IF journal.color[a] # NotSaved THEN journal.color[a] ELSE platform.color[a]],
     sid |-> journal.sid]

\* resyncPlatformFromAuthoritativePhi2, on the machine just restored.
Resynced ==
    [ram |-> [a \in Addresses |->
                 IF a \in ColorRange THEN Restored.ram[a] ELSE saved.machine.ram[a]],
     color |-> saved.machine.color,
     sid |-> saved.sink]

RollbackAs(recovering, mirror) ==
    /\ pc = "decide" /\ (~ok \/ TimedWritesLost)
    /\ journal.overflow = recovering
    /\ bridge' = saved.bridge /\ sink' = saved.sink
    /\ platform' = mirror
    /\ pc' = "idle" /\ queue' = <<>>
    /\ EndTransaction

\* rollbackBridgeTransaction_ when the journal held everything.
Rollback ==
    /\ RollbackAs(FALSE, Restored)
    /\ machine' = saved.machine

\* The same when it did not: the platform is seeded again, the log cleared.
RecoverAs(mirror) ==
    /\ RollbackAs(TRUE, mirror)
    /\ machine' = [saved.machine EXCEPT !.log = <<>>, !.wrapped = FALSE]

\* Mutant: the partial restore is kept.
RollbackAndResync_NoSeed == RecoverAs(Restored)

RollbackAndResync == RecoverAs(Resynced)

-----------------------------------------------------------------------------
Next ==
    \/ StartBlock \/ BeginTransaction \/ DispatchPlay \/ ServiceCia
    \/ RunContinuous \/ RunPassive
    \/ \E a \in Addresses, v \in Values : CpuWrite(a, v)
    \/ \E result \in BOOLEAN : EndWindow(result)
    \/ SyncEntry \/ FinishSync \/ Publish \/ PublishNothing
    \/ Commit \/ Rollback \/ RollbackAndResync

Spec == Init /\ [][Next]_vars

-----------------------------------------------------------------------------
(* Correctness.                                                            *)

TypeOK ==
    /\ tune \in Tunes
    /\ machine \in Machines /\ Len(machine.log) < LogSize
    /\ sink \in Values /\ bridge \in Bridges
    /\ platform \in Platforms
    /\ journal \in Journals
    /\ tx \in [active : BOOLEAN, deferred : BOOLEAN]
    /\ saved \in [machine : Machines, sink : Values, bridge : Bridges]
    /\ Len(saved.machine.log) < LogSize
    /\ before \in [machine : Machines, sink : Values, bridge : Bridges, platform : Platforms]
    /\ pc \in {"idle", "begun", "running", "syncing", "publishing", "decide"}
    /\ window \in Windows /\ ok \in BOOLEAN
    /\ written \in Nat /\ start \in Nat
    /\ queue \in Seq(Addresses)

\* Cells that only the machine's writes and the sync change.  The bootstrap and
\* the port are written past the journal and stay after a rollback, until the
\* next play writes them again; RAM under the colour RAM is never mirrored, as
\* the sync goes by address.
SyncedCells == Addresses \ (ColorRange \cup CodeCells \cup VectorCells \cup {Port})

\* Between windows the platform shows the machine's memory, colour RAM and SID
\* registers, whatever committed, rolled back or wrapped the log before.
MirrorFollowsMachine ==
    pc = "idle" =>
        /\ \A a \in SyncedCells : platform.ram[a] = machine.ram[a]
        /\ platform.color = machine.color
        /\ platform.sid = sink

\* A window starts with an empty log, so that the filter on the cycle of an
\* entry never drops a write that nobody has mirrored.
NoWriteIsSkipped ==
    pc \in {"idle", "begun"} => machine.log = <<>> /\ ~machine.wrapped

\* A play that fails leaves no trace: machine, sink and bridge are what they
\* were when the transaction began, and so is the mirror, although its journal
\* is bounded and a wrapped log is not mirrored before the decision.
RollbackLeavesNoTrace ==
    [][pc = "decide" /\ (~ok \/ TimedWritesLost) /\ pc' = "idle" =>
           /\ machine' = before.machine /\ sink' = before.sink
           /\ bridge' = before.bridge
           /\ \A a \in SyncedCells : platform'.ram[a] = before.platform.ram[a]
           /\ platform'.color = before.platform.color
           /\ platform'.sid = before.platform.sid]_vars

\* Where the journal is at least as long as a log that has not wrapped, and
\* has room for all of colour RAM, it never overflows.
JournalNeverOverflows == ~journal.overflow
=============================================================================
