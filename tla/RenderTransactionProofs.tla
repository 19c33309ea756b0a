----------------------- MODULE RenderTransactionProofs -----------------------
(***************************************************************************)
(* Proofs about RenderTransaction for every address space, log size and    *)
(* journal size.  The invariant says, for every phase of a window, which   *)
(* cells of the mirror may still differ from the machine (those in the     *)
(* log, those in the rest of the sync) and what the journal knows of the   *)
(* cells that already differ from the state before the transaction.        *)
(***************************************************************************)
EXTENDS RenderTransaction, FiniteSets, SequenceTheorems, FiniteSetTheorems, TLAPS

Occurs(a, s) == \E i \in 1 .. Len(s) : s[i] = a

\* Which phase goes with an open transaction, an open window, a deferred sync
\* and a log that still holds something.
Control ==
    /\ tx.active = journal.active
    /\ pc \in {"begun", "decide"} => tx.active
    /\ pc = "idle" => ~tx.active
    /\ ~tx.active => ~tx.deferred
    /\ pc \in {"running", "publishing", "decide"} => window # "none"
    /\ window = "none" /\ pc = "syncing" => ~tx.active
    /\ window # "none" /\ pc \in {"running", "syncing", "publishing", "decide"} =>
           (tx.active <=> window \in {"play", "service"})
    /\ ~tx.active /\ pc \in {"syncing", "publishing"} => ok
    /\ tx.deferred => machine.wrapped /\ pc \in {"publishing", "decide"}
    /\ pc \in {"idle", "begun"} => machine.log = <<>> /\ ~machine.wrapped
    /\ pc \in {"publishing", "decide"} /\ ~tx.deferred =>
           machine.log = <<>> /\ ~machine.wrapped
    /\ pc = "running" => start = 0
    /\ pc # "syncing" => queue = <<>>

\* The snapshots are the state before the transaction, which was settled.
Snapshots ==
    tx.active =>
        /\ saved.machine = before.machine /\ saved.sink = before.sink
        /\ saved.bridge = before.bridge
        /\ before.machine.log = <<>> /\ ~before.machine.wrapped
        /\ \A a \in SyncedCells : before.platform.ram[a] = before.machine.ram[a]
        /\ before.platform.color = before.machine.color
        /\ before.platform.sid = before.sink

\* A cell whose mirror is stale is still going to be copied.
Pending(a) ==
    \/ pc = "running" /\ (machine.wrapped \/ Occurs(a, machine.log))
    \/ pc = "syncing" /\ Occurs(a, queue)
    \/ pc \in {"publishing", "decide"} /\ tx.deferred

MirrorTracked ==
    /\ \A a \in SyncedCells : platform.ram[a] = machine.ram[a] \/ Pending(a)
    /\ \A a \in ColorRange : platform.color[a] = machine.color[a] \/ Pending(a)
    /\ \/ pc \in {"idle", "begun"}
       \/ pc = "decide" /\ ok
       \/ pc = "syncing" /\ window = "none"
       => platform.sid = sink

\* A saved cell holds the old value.  An unsaved one still is the old value,
\* unless its part of the journal is full and overflowed: the flag alone would
\* not do, as RAM and colour RAM share it and only one of them may be full.
RamLost == journal.overflow /\ journal.ramCount >= MaxDirtyRam
ColorLost == journal.overflow /\ journal.colorCount >= MaxDirtyColor

JournalFaithful ==
    journal.active =>
        /\ \A a \in SyncedCells :
               IF journal.ram[a] # NotSaved
               THEN journal.ram[a] = before.platform.ram[a]
               ELSE RamLost \/ platform.ram[a] = before.platform.ram[a]
        /\ \A a \in ColorRange :
               IF journal.color[a] # NotSaved
               THEN journal.color[a] = before.platform.color[a]
               ELSE ColorLost \/ platform.color[a] = before.platform.color[a]
        /\ journal.sid = before.platform.sid

IInv == TypeOK /\ Control /\ Snapshots /\ MirrorTracked /\ JournalFaithful

-----------------------------------------------------------------------------
\* A sync of a log that began empty copies every entry of it.
LEMMA SyncQueueType ==
    ASSUME TypeOK
    PROVE  /\ SyncQueue \in Seq(Addresses)
           /\ ~machine.wrapped /\ start = 0 => SyncQueue = machine.log
<1>1. machine.log \in Seq(Addresses) /\ start \in Nat
  BY DEF TypeOK, Machines
<1>2. Len(machine.log) \in Nat /\ \A i \in start + 1 .. Len(machine.log) : machine.log[i] \in Addresses
  BY <1>1
<1>3. LogOfWindow \in Seq(Addresses)
  BY <1>1, <1>2, SubSeqProperties DEF LogOfWindow
<1>4. ASSUME start = 0 PROVE LogOfWindow = machine.log
  BY <1>1, <1>4, SubSeqFull DEF LogOfWindow
<1> QED
  BY <1>3, <1>4, AddressAssumption DEF SyncQueue

LEMMA ClearedType ==
    ASSUME NEW m \in Machines, NEW b \in BOOLEAN
    PROVE  [m EXCEPT !.log = <<>>, !.wrapped = b] \in Machines
<1>1. <<>> \in Seq(Addresses)
  OBVIOUS
<1> QED
  BY <1>1 DEF Machines

LEMMA LogWriteType ==
    ASSUME NEW m \in Machines, Len(m.log) < LogSize, NEW a \in Addresses
    PROVE  /\ LogWrite(m, a) \in Machines /\ Len(LogWrite(m, a).log) < LogSize
           /\ LogWrite(m, a).ram = m.ram /\ LogWrite(m, a).color = m.color
           /\ m.wrapped => LogWrite(m, a).wrapped
           /\ LogWrite(m, a).wrapped \/ Occurs(a, LogWrite(m, a).log)
           /\ \A b : Occurs(b, m.log) =>
                  LogWrite(m, a).wrapped \/ Occurs(b, LogWrite(m, a).log)
<1> USE LimitAssumption
<1>1. m.log \in Seq(Addresses) /\ Len(m.log) \in Nat /\ m.wrapped \in BOOLEAN
  BY DEF Machines
<1>2. CASE Len(m.log) + 1 = LogSize
  <2>1. LogWrite(m, a) = [m EXCEPT !.log = <<>>, !.wrapped = TRUE]
    BY <1>2 DEF LogWrite, LogWriteAs
  <2>2. <<>> \in Seq(Addresses) /\ Len(<<>>) = 0
    OBVIOUS
  <2>3. [m EXCEPT !.log = <<>>, !.wrapped = TRUE] \in Machines
    BY <2>2, ClearedType
  <2>4. [m EXCEPT !.log = <<>>, !.wrapped = TRUE].wrapped
        /\ [m EXCEPT !.log = <<>>, !.wrapped = TRUE].log = <<>>
        /\ [m EXCEPT !.log = <<>>, !.wrapped = TRUE].ram = m.ram
        /\ [m EXCEPT !.log = <<>>, !.wrapped = TRUE].color = m.color
    BY DEF Machines
  <2> QED
    BY <2>1, <2>2, <2>3, <2>4
<1>3. CASE Len(m.log) + 1 # LogSize
  <2> DEFINE t == Append(m.log, a)
  <2>1. LogWrite(m, a) = [m EXCEPT !.log = t]
    BY <1>3 DEF LogWrite, LogWriteAs
  <2>2. t \in Seq(Addresses) /\ Len(t) = Len(m.log) + 1 /\ t[Len(m.log) + 1] = a
        /\ \A i \in 1 .. Len(m.log) : t[i] = m.log[i]
    BY <1>1, AppendProperties
  <2> HIDE DEF t
  <2>3. LogWrite(m, a) \in Machines /\ LogWrite(m, a).log = t
        /\ LogWrite(m, a).ram = m.ram /\ LogWrite(m, a).color = m.color
        /\ LogWrite(m, a).wrapped = m.wrapped
    BY <2>1, <2>2 DEF Machines
  <2>4. Len(t) < LogSize
    BY <1>1, <1>3, <2>2
  <2>5. Occurs(a, t)
    BY <1>1, <2>2 DEF Occurs
  <2>6. ASSUME NEW b, Occurs(b, m.log) PROVE Occurs(b, t)
    BY <1>1, <2>2, <2>6 DEF Occurs
  <2> QED
    BY <2>3, <2>4, <2>5, <2>6
<1> QED
  BY <1>2, <1>3

LEMMA CountType ==
    ASSUME NEW b \in Bridges
    PROVE  [b EXCEPT !.count = @ + 1] \in Bridges /\ [b EXCEPT !.overflow = @ + 1] \in Bridges
<1>1. b.count + 1 \in Nat /\ b.overflow + 1 \in Nat
  BY DEF Bridges
<1> QED
  BY <1>1 DEF Bridges

LEMMA LogRamType ==
    ASSUME TypeOK, NEW a \in Addresses
    PROVE  LogRam(a) \in Journals
<1>1. journal.ramCount \in Nat /\ platform.ram[a] \in Values
  BY DEF TypeOK, Journals, Platforms, Ram, Color
<1>2. [journal EXCEPT !.overflow = TRUE] \in Journals
  BY DEF TypeOK, Journals
<1>3. [journal.ram EXCEPT ![a] = platform.ram[a]] \in [Addresses -> Values \cup {NotSaved}]
  BY <1>1 DEF TypeOK, Journals
<1> DEFINE s == [journal.ram EXCEPT ![a] = platform.ram[a]]
<1>4. [journal EXCEPT !.ram[a] = platform.ram[a], !.ramCount = @ + 1]
          = [journal EXCEPT !.ram = s, !.ramCount = journal.ramCount + 1]
  BY DEF TypeOK, Journals
<1>5. journal.ramCount + 1 \in Nat
  BY <1>1
<1> HIDE DEF s
<1>6. [journal EXCEPT !.ram = s, !.ramCount = journal.ramCount + 1] \in Journals
  BY <1>3, <1>5 DEF s, TypeOK, Journals
<1> QED
  BY <1>2, <1>4, <1>6 DEF LogRam, TypeOK

LEMMA LogColorType ==
    ASSUME TypeOK, NEW a \in ColorRange
    PROVE  LogColor(a) \in Journals
<1>1. journal.colorCount \in Nat /\ platform.color[a] \in Values
  BY DEF TypeOK, Journals, Platforms, Ram, Color
<1>2. [journal EXCEPT !.overflow = TRUE] \in Journals
  BY DEF TypeOK, Journals
<1>3. [journal.color EXCEPT ![a] = platform.color[a]] \in [ColorRange -> Values \cup {NotSaved}]
  BY <1>1 DEF TypeOK, Journals
<1> DEFINE s == [journal.color EXCEPT ![a] = platform.color[a]]
<1>4. [journal EXCEPT !.color[a] = platform.color[a], !.colorCount = @ + 1]
          = [journal EXCEPT !.color = s, !.colorCount = journal.colorCount + 1]
  BY DEF TypeOK, Journals
<1>5. journal.colorCount + 1 \in Nat
  BY <1>1
<1> HIDE DEF s
<1>6. [journal EXCEPT !.color = s, !.colorCount = journal.colorCount + 1] \in Journals
  BY <1>3, <1>5 DEF s, TypeOK, Journals
<1> QED
  BY <1>2, <1>4, <1>6 DEF LogColor, TypeOK

\* Type correctness of one step.
LEMMA TypeStep ==
    ASSUME TypeOK, Control, [Next]_vars
    PROVE  TypeOK'
<1> USE AddressAssumption, ValueAssumption, LimitAssumption
<1>1. CASE StartBlock
  BY <1>1 DEF TypeOK, StartBlock, txVars, windowVars, NoBridge, Bridges
<1>2. CASE BeginTransaction
  BY <1>2 DEF TypeOK, BeginTransaction, windowVars, NoJournal, Journals, Platforms, Ram, Color
<1>3. CASE DispatchPlay
  <2> DEFINE shown == [a \in Addresses |->
                 IF a \in CodeCells \cup VectorCells THEN Bootstrap[a] ELSE platform.ram[a]]
             own == [a \in Addresses |->
                 IF a \in CodeCells THEN Bootstrap[a] ELSE machine.ram[a]]
  <2>1. shown \in Ram /\ own \in Ram
    BY DEF TypeOK, Machines, Platforms, Ram
  <2>2. platform' = [platform EXCEPT !.ram = shown] /\ machine' = [machine EXCEPT !.ram = own]
    BY <1>3 DEF DispatchPlay
  <2> HIDE DEF shown, own
  <2>3. platform' \in Platforms /\ machine' \in Machines /\ machine'.log = machine.log
    BY <2>1, <2>2 DEF TypeOK, Machines, Platforms
  <2>4. start' \in Nat
    BY <1>3 DEF DispatchPlay, OpenWindow, TypeOK, Machines
  <2> QED
    BY <1>3, <2>3, <2>4 DEF TypeOK, DispatchPlay, OpenWindow, txVars, Windows
<1>4. CASE ServiceCia
  BY <1>4 DEF TypeOK, ServiceCia, OpenWindow, txVars, Machines, Windows
<1>5. CASE RunContinuous
  BY <1>5 DEF TypeOK, RunContinuous, OpenWindow, txVars, Machines, Windows, NoBridge, Bridges
<1>6. CASE RunPassive
  BY <1>6 DEF TypeOK, RunPassive, OpenWindow, txVars, Machines, Windows
<1>7. ASSUME NEW a \in Addresses, NEW v \in Values, CpuWrite(a, v)
      PROVE  TypeOK'
  <2>2. [machine EXCEPT !.color[a] = v] \in Machines
        /\ [machine EXCEPT !.color[a] = v].log = machine.log
    BY DEF TypeOK, Machines, Color
  <2>3. [machine EXCEPT !.ram[a] = v] \in Machines
        /\ [machine EXCEPT !.ram[a] = v].log = machine.log
    BY DEF TypeOK, Machines, Ram
  <2>4. machine' \in Machines /\ Len(machine'.log) < LogSize
    <3>1. \A m \in Machines : Len(m.log) < LogSize =>
              LogWrite(m, a) \in Machines /\ Len(LogWrite(m, a).log) < LogSize
      BY LogWriteType
    <3>2. machine \in Machines /\ Len(machine.log) < LogSize
      BY DEF TypeOK
    <3>3. \/ machine' = LogWrite([machine EXCEPT !.color[a] = v], a)
          \/ machine' = LogWrite(machine, a)
          \/ machine' = LogWrite([machine EXCEPT !.ram[a] = v], a)
      BY <1>7 DEF CpuWrite, WriteColor, WriteSid, WriteRam
    <3> QED
      BY <2>2, <2>3, <3>1, <3>2, <3>3
  <2>5. sink' \in Values /\ bridge' \in Bridges
    <3>1. [bridge EXCEPT !.count = @ + 1] \in Bridges /\ [bridge EXCEPT !.overflow = @ + 1] \in Bridges
      BY CountType DEF TypeOK
    <3> QED
      BY <1>7, <3>1 DEF CpuWrite, WriteColor, WriteSid, WriteRam, TypeOK
  <2> QED
    BY <1>7, <2>4, <2>5 DEF CpuWrite, TypeOK, txVars
<1>8. ASSUME NEW result \in BOOLEAN, EndWindow(result)
      PROVE  TypeOK'
  <2>1. tx' \in [active : BOOLEAN, deferred : BOOLEAN]
    BY <1>8 DEF TypeOK, EndWindow
  <2>2. pc' \in {"publishing", "syncing"} /\ queue' \in Seq(Addresses) /\ ok' \in BOOLEAN
    BY <1>8, SyncQueueType DEF EndWindow
  <2> QED
    BY <1>8, <2>1, <2>2 DEF TypeOK, EndWindow
<1>9. CASE SyncEntry
  <2>1. Head(queue) \in Addresses /\ Tail(queue) \in Seq(Addresses)
    BY <1>9 DEF SyncEntry, TypeOK
  <2>2. CASE PokeMemory(Head(queue))
    <3>1. journal' \in Journals
      BY <2>1, <2>2, LogRamType DEF PokeMemory
    <3>2. platform' \in Platforms
      BY <2>1, <2>2 DEF PokeMemory, TypeOK, Platforms, Machines, Ram
    <3> QED
      BY <1>9, <2>1, <3>1, <3>2 DEF SyncEntry, TypeOK, txVars, windowVars
  <2>3. CASE PokeColorRam(Head(queue))
    <3>1. journal' \in Journals
      BY <2>1, <2>3, LogColorType DEF PokeColorRam
    <3>2. platform' \in Platforms
      BY <2>1, <2>3 DEF PokeColorRam, TypeOK, Platforms, Machines, Color
    <3> QED
      BY <1>9, <2>1, <3>1, <3>2 DEF SyncEntry, TypeOK, txVars, windowVars
  <2> QED
    BY <1>9, <2>2, <2>3 DEF SyncEntry
<1>10. CASE FinishSync
  <2>1. machine' \in Machines /\ machine'.log = <<>>
    BY <1>10 DEF FinishSync, TypeOK, Machines
  <2> QED
    BY <1>10, <2>1 DEF FinishSync, TypeOK, txVars, windowVars
<1>11. CASE Publish
  BY <1>11 DEF Publish, CloseWindow, TypeOK, txVars, Platforms, Machines, Ram, Windows
<1>12. CASE PublishNothing
  BY <1>12 DEF PublishNothing, CloseWindow, TypeOK, txVars, Windows
<1>13. NoTx \in [active : BOOLEAN, deferred : BOOLEAN]
       /\ NoSnapshot \in [machine : Machines, sink : Values, bridge : Bridges]
       /\ Len(NoSnapshot.machine.log) < LogSize
       /\ NoHistory \in [machine : Machines, sink : Values, bridge : Bridges,
                         platform : Platforms]
       /\ NoJournal \in Journals
  BY DEF NoTx, NoSnapshot, NoHistory, NoJournal, NoBridge, PowerOnMachine, PowerOnPlatform,
         PowerOnRam, PowerOnColor, Machines, Platforms, Bridges, Journals, Ram, Color
<1>14. CASE Commit
  <2>1. SyncQueue \in Seq(Addresses)
    BY SyncQueueType
  <2> QED
    BY <1>13, <1>14, <2>1 DEF Commit, CommitAs, EndTransaction, TypeOK, Windows
<1>15. Restored \in Platforms /\ Resynced \in Platforms
  <2>1. Restored \in Platforms
    BY DEF Restored, TypeOK, Platforms, Journals, Ram, Color
  <2>2. Restored.ram \in Ram
    BY <2>1 DEF Platforms
  <2> QED
    BY <2>1, <2>2 DEF Resynced, TypeOK, Platforms, Machines, Ram, Color
<1>16. CASE Rollback
  BY <1>13, <1>15, <1>16 DEF Rollback, RollbackAs, EndTransaction, TypeOK, Windows
<1>17. CASE RollbackAndResync
  <2>1. machine' \in Machines /\ machine'.log = <<>>
    <3>1. [saved.machine EXCEPT !.log = <<>>, !.wrapped = FALSE] \in Machines
      BY ClearedType DEF TypeOK
    <3> QED
      BY <1>17, <3>1 DEF RollbackAndResync, RecoverAs, Machines
  <2> QED
    BY <1>13, <1>15, <1>17, <2>1
       DEF RollbackAndResync, RecoverAs, RollbackAs, EndTransaction, TypeOK, Windows
<1>18. CASE UNCHANGED vars
  BY <1>18 DEF vars, TypeOK
<1> QED
  BY <1>1, <1>2, <1>3, <1>4, <1>5, <1>6, <1>7, <1>8, <1>9, <1>10, <1>11, <1>12,
     <1>14, <1>16, <1>17, <1>18 DEF Next

-----------------------------------------------------------------------------
\* The phases stay in step with the transaction and with the log.
LEMMA ControlStep ==
    ASSUME IInv, [Next]_vars
    PROVE  Control'
<1> USE DEF IInv, Control, OpenWindow, EndTransaction, CloseWindow, NoTx, NoJournal
<1>1. CASE StartBlock
  BY <1>1 DEF StartBlock, txVars, windowVars
<1>2. CASE BeginTransaction
  BY <1>2 DEF BeginTransaction, windowVars
<1>3. CASE DispatchPlay
  <2>1. machine'.log = machine.log /\ machine'.wrapped = machine.wrapped
    BY <1>3 DEF DispatchPlay, TypeOK, Machines
  <2> QED
    BY <1>3, <2>1 DEF DispatchPlay, txVars
<1>4. CASE ServiceCia
  BY <1>4 DEF ServiceCia, txVars
<1>5. CASE RunContinuous
  BY <1>5 DEF RunContinuous, txVars
<1>6. CASE RunPassive
  BY <1>6 DEF RunPassive, txVars
<1>7. ASSUME NEW a \in Addresses, NEW v \in Values, CpuWrite(a, v)
      PROVE  Control'
  BY <1>7 DEF CpuWrite, txVars
<1>8. ASSUME NEW result \in BOOLEAN, EndWindow(result)
      PROVE  Control'
  BY <1>8 DEF EndWindow, TypeOK, Windows
<1>9. CASE SyncEntry
  <2>1. journal'.active = journal.active
    BY <1>9 DEF SyncEntry, PokeMemory, PokeColorRam, LogRam, LogColor,
                TypeOK, Journals
  <2> QED
    BY <1>9, <2>1 DEF SyncEntry, txVars, windowVars
<1>10. CASE FinishSync
  <2>1. machine'.log = <<>> /\ machine'.wrapped = FALSE
    BY <1>10 DEF FinishSync, TypeOK, Machines
  <2> QED
    BY <1>10, <2>1 DEF FinishSync, txVars, windowVars
<1>11. CASE Publish
  BY <1>11 DEF Publish, txVars
<1>12. CASE PublishNothing
  BY <1>12 DEF PublishNothing, txVars
<1>13. CASE Commit
  BY <1>13 DEF Commit, CommitAs
<1>14. CASE Rollback
  BY <1>14 DEF Rollback, RollbackAs, Snapshots
<1>15. CASE RollbackAndResync
  <2>1. machine'.log = <<>> /\ machine'.wrapped = FALSE
    BY <1>15 DEF RollbackAndResync, RecoverAs, TypeOK, Machines
  <2> QED
    BY <1>15, <2>1 DEF RollbackAndResync, RecoverAs, RollbackAs
<1>16. CASE UNCHANGED vars
  BY <1>16 DEF vars
<1> QED
  BY <1>1, <1>2, <1>3, <1>4, <1>5, <1>6, <1>7, <1>8, <1>9, <1>10, <1>11, <1>12,
     <1>13, <1>14, <1>15, <1>16 DEF Next

\* Only BeginTransaction takes a snapshot, of a settled state.
LEMMA SnapshotsStep ==
    ASSUME IInv, [Next]_vars
    PROVE  Snapshots'
<1>1. CASE BeginTransaction
  BY <1>1 DEF BeginTransaction, IInv, Control, MirrorTracked, Pending, TypeOK, Snapshots,
              Platforms, Machines, Color
<1>2. CASE ~BeginTransaction
  <2>1. tx'.active => tx.active /\ UNCHANGED <<saved, before>>
    BY <1>2 DEF Next, StartBlock, DispatchPlay, ServiceCia, RunContinuous, RunPassive,
                CpuWrite, EndWindow, SyncEntry, FinishSync, Publish,
                PublishNothing, Commit, CommitAs, Rollback, RollbackAndResync, RecoverAs,
                RollbackAs, EndTransaction, NoTx, txVars, vars, IInv, TypeOK
  <2> QED
    BY <2>1 DEF IInv, Snapshots
<1> QED
  BY <1>1, <1>2

\* What a rollback puts into the platform, with and without an overflow.
LEMMA RollbackRestores ==
    ASSUME IInv, pc = "decide"
    PROVE  /\ saved.machine = before.machine /\ saved.sink = before.sink
           /\ saved.bridge = before.bridge
           /\ \A mirror \in {Restored, Resynced} :
                  mirror = Resynced \/ ~journal.overflow =>
                      /\ \A a \in SyncedCells : mirror.ram[a] = before.platform.ram[a]
                      /\ mirror.color = before.platform.color
                      /\ mirror.sid = before.platform.sid
<1> USE DEF IInv
<1>1. tx.active /\ journal.active
  BY DEF Control
<1>2. /\ saved.machine = before.machine /\ saved.sink = before.sink /\ saved.bridge = before.bridge
      /\ \A a \in SyncedCells : before.platform.ram[a] = before.machine.ram[a]
      /\ before.platform.color = before.machine.color /\ before.platform.sid = before.sink
  BY <1>1 DEF Snapshots
<1>3. ASSUME ~journal.overflow
      PROVE  /\ \A a \in SyncedCells : Restored.ram[a] = before.platform.ram[a]
             /\ Restored.color = before.platform.color
             /\ Restored.sid = before.platform.sid
  <2>1. \A a \in SyncedCells : Restored.ram[a] = before.platform.ram[a]
    BY <1>1, <1>3 DEF JournalFaithful, RamLost, ColorLost, Restored, SyncedCells
  <2>2. \A a \in ColorRange : Restored.color[a] = before.platform.color[a]
    BY <1>1, <1>3 DEF JournalFaithful, RamLost, ColorLost, Restored
  <2>3. Restored.color = before.platform.color
    BY <2>2 DEF Restored, TypeOK, Platforms, Color
  <2> QED
    BY <1>1, <2>1, <2>3 DEF JournalFaithful, RamLost, ColorLost, Restored
<1>4. /\ \A a \in SyncedCells : Resynced.ram[a] = before.platform.ram[a]
      /\ Resynced.color = before.platform.color
      /\ Resynced.sid = before.platform.sid
  BY <1>2 DEF Resynced, SyncedCells
<1> QED
  BY <1>2, <1>3, <1>4

\* No step leaves a stale cell behind that nothing is going to copy.
LEMMA MirrorStep ==
    ASSUME IInv, TypeOK', [Next]_vars
    PROVE  MirrorTracked'
<1> USE DEF IInv
<1>0. Port \notin SyncedCells /\ (CodeCells \cup VectorCells) \cap SyncedCells = {}
      /\ SyncedCells \subseteq Addresses /\ SyncedCells \cap ColorRange = {}
      /\ ColorRange \subseteq Addresses
  BY AddressAssumption DEF SyncedCells
<1>1. CASE StartBlock
  BY <1>1 DEF StartBlock, txVars, windowVars, MirrorTracked, Pending
<1>2. CASE BeginTransaction
  BY <1>2 DEF BeginTransaction, windowVars, MirrorTracked, Pending
<1>3. CASE DispatchPlay
  <2>1. \A a \in SyncedCells : platform'.ram[a] = platform.ram[a]
                               /\ machine'.ram[a] = machine.ram[a]
    BY <1>0, <1>3 DEF DispatchPlay, TypeOK, Platforms, Machines, Ram
  <2>2. platform'.color = platform.color /\ machine'.color = machine.color
    BY <1>3 DEF DispatchPlay, TypeOK, Platforms, Machines
  <2>3. pc = "begun" /\ pc' = "running"
    BY <1>3 DEF DispatchPlay, OpenWindow
  <2> QED
    BY <2>1, <2>2, <2>3 DEF MirrorTracked, Pending
<1>4. CASE ServiceCia
  BY <1>4 DEF ServiceCia, OpenWindow, txVars, MirrorTracked, Pending
<1>5. CASE RunContinuous
  BY <1>5 DEF RunContinuous, OpenWindow, txVars, MirrorTracked, Pending
<1>6. CASE RunPassive
  BY <1>6 DEF RunPassive, OpenWindow, txVars, MirrorTracked, Pending
<1>7. ASSUME NEW c \in Addresses, NEW v \in Values, CpuWrite(c, v)
      PROVE  MirrorTracked'
  <2>1. pc = "running" /\ pc' = "running" /\ platform' = platform
    BY <1>7 DEF CpuWrite
  <2>2. PICK m \in Machines :
            /\ machine' = LogWrite(m, c) /\ m.log = machine.log /\ m.wrapped = machine.wrapped
            /\ \A a \in Addresses : a # c => m.ram[a] = machine.ram[a]
            /\ \A a \in ColorRange : a # c => m.color[a] = machine.color[a]
    <3>1. machine \in Machines /\ [machine EXCEPT !.color[c] = v] \in Machines
          /\ [machine EXCEPT !.ram[c] = v] \in Machines
      BY DEF TypeOK, Machines, Ram, Color
    <3>2. CASE WriteColor(c, v)
      BY <3>1, <3>2 DEF WriteColor, Machines, Ram, Color
    <3>3. CASE WriteSid(c, v)
      BY <3>1, <3>3 DEF WriteSid
    <3>4. CASE WriteRam(c, v)
      BY <3>1, <3>4 DEF WriteRam, Machines, Ram, Color
    <3> QED
      BY <1>7, <3>2, <3>3, <3>4 DEF CpuWrite
  <2>3. Len(m.log) < LogSize
    BY <2>2 DEF TypeOK
  <2>4. /\ machine'.ram = m.ram /\ machine'.color = m.color
        /\ m.wrapped => machine'.wrapped
        /\ machine'.wrapped \/ Occurs(c, machine'.log)
        /\ \A b : Occurs(b, m.log) => machine'.wrapped \/ Occurs(b, machine'.log)
    BY <2>2, <2>3, LogWriteType
  <2>5. ASSUME NEW a, Pending(a) \/ a = c
        PROVE  Pending(a)'
    BY <2>1, <2>2, <2>4, <2>5 DEF Pending
  <2>6. \A a \in SyncedCells : a # c => machine'.ram[a] = machine.ram[a]
    BY <1>0, <2>2, <2>4
  <2>7. \A a \in ColorRange : a # c => machine'.color[a] = machine.color[a]
    BY <2>2, <2>4
  <2> QED
    BY <2>1, <2>5, <2>6, <2>7 DEF MirrorTracked
<1>8. ASSUME NEW result \in BOOLEAN, EndWindow(result)
      PROVE  MirrorTracked'
  <2>1. pc = "running" /\ start = 0 /\ UNCHANGED <<machine, platform, sink, window>>
        /\ window # "none" /\ pc' \in {"publishing", "syncing"}
    BY <1>8 DEF EndWindow, Control
  <2>2. ASSUME NEW a \in Addresses, Pending(a)
        PROVE  Pending(a)'
    <3>1. CASE machine.wrapped /\ tx.active /\ journal.active
      BY <1>8, <3>1 DEF EndWindow, Pending, TypeOK
    <3>2. CASE ~(machine.wrapped /\ tx.active /\ journal.active)
      <4>1. pc' = "syncing" /\ queue' = SyncQueue
        BY <1>8, <3>2 DEF EndWindow
      <4>2. CASE machine.wrapped
        BY <4>1, <4>2, AddressAssumption DEF SyncQueue, Pending, Occurs
      <4>3. CASE ~machine.wrapped
        BY <2>1, <2>2, <4>1, <4>3, SyncQueueType DEF Pending
      <4> QED
        BY <4>2, <4>3
    <3> QED
      BY <3>1, <3>2
  <2> QED
    BY <1>0, <2>1, <2>2 DEF MirrorTracked
<1>9. CASE SyncEntry
  <2> DEFINE c == Head(queue)
  <2>1. pc = "syncing" /\ pc' = "syncing" /\ queue # <<>> /\ queue' = Tail(queue)
        /\ UNCHANGED <<machine, sink, window, ok>>
    BY <1>9 DEF SyncEntry, windowVars
  <2>2. c \in Addresses /\ \A a : Occurs(a, queue) => a = c \/ Occurs(a, queue')
    <3>1. queue \in Seq(Addresses)
      BY DEF TypeOK
    <3>2. Len(queue) \in Nat /\ c = queue[1] /\ Len(queue) >= 1
      BY <2>1, <3>1
    <3>3. queue' \in Seq(Addresses) /\ Len(queue') = Len(queue) - 1
          /\ \A i \in 1 .. Len(queue') : queue'[i] = queue[i + 1]
      BY <2>1, <3>1, HeadTailProperties
    <3>4. ASSUME NEW a, NEW i \in 1 .. Len(queue), queue[i] = a, a # c
          PROVE  Occurs(a, queue')
      <4>1. i - 1 \in 1 .. Len(queue') /\ queue'[i - 1] = a
        BY <3>2, <3>3, <3>4
      <4> QED
        BY <4>1 DEF Occurs
    <3> QED
      BY <3>1, <3>2, <3>4 DEF Occurs
  <2>3. \A a : Pending(a) => a = c \/ Pending(a)'
    BY <2>1, <2>2 DEF Pending
  <2>4. CASE PokeMemory(c)
    <3>1. c \notin ColorRange
          /\ platform'.color = platform.color /\ platform'.sid = platform.sid
          /\ platform'.ram[c] = machine.ram[c]
          /\ \A a \in Addresses : a # c => platform'.ram[a] = platform.ram[a]
      BY <2>2, <2>4 DEF PokeMemory, TypeOK, Platforms, Ram
    <3> QED
      BY <1>0, <2>1, <2>3, <3>1 DEF MirrorTracked
  <2>5. CASE PokeColorRam(c)
    <3>1. c \in ColorRange
          /\ platform'.ram = platform.ram /\ platform'.sid = platform.sid
          /\ platform'.color[c] = machine.color[c]
          /\ \A a \in ColorRange : a # c => platform'.color[a] = platform.color[a]
      BY <2>5 DEF PokeColorRam, TypeOK, Platforms, Color
    <3> QED
      BY <1>0, <2>1, <2>3, <3>1 DEF MirrorTracked
  <2> QED
    BY <1>9, <2>4, <2>5 DEF SyncEntry
<1>10. CASE FinishSync
  <2>1. machine'.ram = machine.ram /\ machine'.color = machine.color
    BY <1>10 DEF FinishSync, TypeOK, Machines
  <2>2. \A a : ~Pending(a)
    BY <1>10 DEF FinishSync, Pending, Occurs
  <2>3. pc = "syncing" /\ pc' \in {"idle", "publishing"} /\ (pc' = "idle" => window = "none")
        /\ UNCHANGED <<platform, sink, ok, window>>
    BY <1>10 DEF FinishSync, windowVars
  <2> QED
    BY <2>1, <2>2, <2>3 DEF MirrorTracked
<1>11. CASE Publish
  <2>1. \A a \in SyncedCells : platform'.ram[a] = platform.ram[a]
    BY <1>0, <1>11 DEF Publish, TypeOK, Platforms, Ram
  <2>2. platform'.color = platform.color /\ platform'.sid = sink
    BY <1>11 DEF Publish, TypeOK, Platforms
  <2>3. \A a : Pending(a) => Pending(a)'
    BY <1>11 DEF Publish, CloseWindow, txVars, Pending, Control
  <2> QED
    BY <1>11, <2>1, <2>2, <2>3 DEF Publish, MirrorTracked
<1>12. CASE PublishNothing
  BY <1>12 DEF PublishNothing, CloseWindow, txVars, MirrorTracked, Pending, Control
<1>13. CASE Commit
  <2>1. UNCHANGED <<machine, sink, platform>> /\ pc = "decide" /\ ok
    BY <1>13 DEF Commit, CommitAs
  <2>2. CASE tx.deferred
    <3>1. pc' = "syncing" /\ queue' = AddressOrder
      BY <1>13, <2>2 DEF Commit, CommitAs, SyncQueue, Control
    <3>2. \A a \in Addresses : Pending(a)'
      BY <3>1, AddressAssumption DEF Pending, Occurs
    <3> QED
      BY <1>0, <2>1, <3>2 DEF MirrorTracked
  <2>3. CASE ~tx.deferred
    BY <2>1, <2>3 DEF MirrorTracked, Pending
  <2> QED
    BY <2>2, <2>3
<1>14. CASE Rollback \/ RollbackAndResync
  <2>1. PICK mirror \in {Restored, Resynced} :
            /\ platform' = mirror /\ (mirror = Resynced \/ ~journal.overflow)
            /\ pc = "decide" /\ pc' = "idle" /\ sink' = saved.sink
    BY <1>14 DEF Rollback, RollbackAndResync, RecoverAs, RollbackAs
  <2>2. machine'.ram = saved.machine.ram /\ machine'.color = saved.machine.color
    BY <1>14 DEF Rollback, RollbackAndResync, RecoverAs, TypeOK, Machines
  <2>3. /\ saved.machine = before.machine /\ saved.sink = before.sink
        /\ \A a \in SyncedCells : mirror.ram[a] = before.platform.ram[a]
        /\ mirror.color = before.platform.color /\ mirror.sid = before.platform.sid
    BY <2>1, RollbackRestores
  <2>4. /\ \A a \in SyncedCells : before.platform.ram[a] = before.machine.ram[a]
        /\ before.platform.color = before.machine.color /\ before.platform.sid = before.sink
    BY <2>1 DEF Control, Snapshots
  <2> QED
    BY <2>1, <2>2, <2>3, <2>4 DEF MirrorTracked
<1>15. CASE UNCHANGED vars
  BY <1>15 DEF vars, MirrorTracked, Pending
<1> QED
  BY <1>1, <1>2, <1>3, <1>4, <1>5, <1>6, <1>7, <1>8, <1>9, <1>10, <1>11, <1>12,
     <1>13, <1>14, <1>15 DEF Next

\* The journal never forgets or falsifies an old value.
LEMMA JournalStep ==
    ASSUME IInv, TypeOK', [Next]_vars
    PROVE  JournalFaithful'
<1> USE DEF IInv
<1>0. Port \notin SyncedCells /\ (CodeCells \cup VectorCells) \cap SyncedCells = {}
      /\ SyncedCells \subseteq Addresses
  BY AddressAssumption DEF SyncedCells
<1>1. CASE BeginTransaction
  BY <1>0, <1>1 DEF BeginTransaction, NoJournal, JournalFaithful, TypeOK
<1>2. CASE DispatchPlay
  <2>1. \A a \in SyncedCells : platform'.ram[a] = platform.ram[a]
    BY <1>0, <1>2 DEF DispatchPlay, TypeOK, Platforms, Ram
  <2>2. platform'.color = platform.color /\ UNCHANGED <<journal, before>>
    BY <1>2 DEF DispatchPlay, TypeOK, Platforms, txVars
  <2> QED
    BY <2>1, <2>2 DEF JournalFaithful, RamLost, ColorLost
<1>3. CASE SyncEntry
  <2> DEFINE c == Head(queue)
  <2>1. c \in Addresses /\ before' = before
    BY <1>3 DEF SyncEntry, txVars, TypeOK
  <2>2. ASSUME PokeMemory(c), journal'.active
        PROVE  JournalFaithful'
    <3>1. journal.active /\ journal'.color = journal.color /\ journal'.sid = journal.sid
          /\ (RamLost => RamLost') /\ (ColorLost => ColorLost')
      BY <2>2 DEF PokeMemory, LogRam, TypeOK, Journals, RamLost, ColorLost
    <3>2. \A a \in Addresses : a # c => journal'.ram[a] = journal.ram[a]
                                        /\ platform'.ram[a] = platform.ram[a]
      BY <2>2 DEF PokeMemory, LogRam, TypeOK, Journals, Platforms, Ram
    <3>3. platform'.color = platform.color
      BY <2>2 DEF PokeMemory, TypeOK, Platforms
    <3>4. \/ journal.ram[c] # NotSaved /\ journal'.ram[c] = journal.ram[c]
          \/ journal.ram[c] = NotSaved /\ journal'.ram[c] = NotSaved /\ RamLost'
          \/ journal.ram[c] = NotSaved /\ journal'.ram[c] = platform.ram[c] /\ ~RamLost
      BY <2>1, <2>2, <3>1 DEF PokeMemory, LogRam, TypeOK, Journals, RamLost
    <3>5. platform.ram[c] # NotSaved
      BY <2>1, ValueAssumption DEF TypeOK, Platforms, Ram
    <3>6. ASSUME NEW a \in SyncedCells
          PROVE  IF journal'.ram[a] # NotSaved
                 THEN journal'.ram[a] = before.platform.ram[a]
                 ELSE RamLost' \/ platform'.ram[a] = before.platform.ram[a]
      <4>1. IF journal.ram[a] # NotSaved
            THEN journal.ram[a] = before.platform.ram[a]
            ELSE RamLost \/ platform.ram[a] = before.platform.ram[a]
        BY <3>1 DEF JournalFaithful
      <4>2. CASE a # c
        <5>1. journal'.ram[a] = journal.ram[a] /\ platform'.ram[a] = platform.ram[a]
          BY <1>0, <3>2, <4>2
        <5> QED
          BY <3>1, <4>1, <5>1
      <4>3. CASE a = c
        BY <3>1, <3>4, <3>5, <4>1, <4>3
      <4> QED
        BY <4>2, <4>3
    <3> QED
      BY <2>1, <3>1, <3>3, <3>6 DEF JournalFaithful
  <2>3. ASSUME PokeColorRam(c), journal'.active
        PROVE  JournalFaithful'
    <3>1. journal.active /\ journal'.ram = journal.ram /\ journal'.sid = journal.sid
          /\ (RamLost => RamLost') /\ (ColorLost => ColorLost') /\ c \in ColorRange
      BY <2>3 DEF PokeColorRam, LogColor, TypeOK, Journals, RamLost, ColorLost
    <3>2. \A a \in ColorRange : a # c => journal'.color[a] = journal.color[a]
                                         /\ platform'.color[a] = platform.color[a]
      BY <2>3 DEF PokeColorRam, LogColor, TypeOK, Journals, Platforms, Color
    <3>3. platform'.ram = platform.ram
      BY <2>3 DEF PokeColorRam, TypeOK, Platforms
    <3>4. \/ journal.color[c] # NotSaved /\ journal'.color[c] = journal.color[c]
          \/ journal.color[c] = NotSaved /\ journal'.color[c] = NotSaved /\ ColorLost'
          \/ journal.color[c] = NotSaved /\ journal'.color[c] = platform.color[c] /\ ~ColorLost
      BY <2>3, <3>1 DEF PokeColorRam, LogColor, TypeOK, Journals, ColorLost
    <3>5. platform.color[c] # NotSaved
      BY <3>1, ValueAssumption DEF TypeOK, Platforms, Color
    <3>6. ASSUME NEW a \in ColorRange
          PROVE  IF journal'.color[a] # NotSaved
                 THEN journal'.color[a] = before.platform.color[a]
                 ELSE ColorLost' \/ platform'.color[a] = before.platform.color[a]
      <4>1. IF journal.color[a] # NotSaved
            THEN journal.color[a] = before.platform.color[a]
            ELSE ColorLost \/ platform.color[a] = before.platform.color[a]
        BY <3>1 DEF JournalFaithful
      <4>2. CASE a # c
        <5>1. journal'.color[a] = journal.color[a] /\ platform'.color[a] = platform.color[a]
          BY <3>2, <4>2
        <5> QED
          BY <3>1, <4>1, <5>1
      <4>3. CASE a = c
        BY <3>1, <3>4, <3>5, <4>1, <4>3
      <4> QED
        BY <4>2, <4>3
    <3> QED
      BY <2>1, <3>1, <3>3, <3>6 DEF JournalFaithful
  <2> QED
    BY <1>3, <2>2, <2>3 DEF SyncEntry, JournalFaithful
<1>4. CASE Publish
  <2>1. \A a \in SyncedCells : platform'.ram[a] = platform.ram[a]
    BY <1>0, <1>4 DEF Publish, TypeOK, Platforms, Ram
  <2>2. platform'.color = platform.color /\ UNCHANGED <<journal, before>>
    BY <1>4 DEF Publish, TypeOK, Platforms, txVars
  <2> QED
    BY <2>1, <2>2 DEF JournalFaithful, RamLost, ColorLost
<1>5. CASE Commit \/ Rollback \/ RollbackAndResync
  BY <1>5 DEF Commit, CommitAs, Rollback, RollbackAndResync, RecoverAs, RollbackAs,
              EndTransaction, NoJournal, JournalFaithful
<1>6. CASE ~(\/ BeginTransaction \/ DispatchPlay \/ SyncEntry \/ Publish
             \/ Commit \/ Rollback \/ RollbackAndResync)
  <2>1. UNCHANGED <<journal, platform, before>>
    BY <1>6 DEF Next, StartBlock, ServiceCia, RunContinuous, RunPassive, CpuWrite,
                EndWindow, FinishSync, PublishNothing, txVars, vars
  <2> QED
    BY <2>1 DEF JournalFaithful, RamLost, ColorLost
<1> QED
  BY <1>1, <1>2, <1>3, <1>4, <1>5, <1>6

LEMMA InitIInv == Init => IInv
<1> SUFFICES ASSUME Init PROVE IInv
  OBVIOUS
<1> USE AddressAssumption, ValueAssumption, LimitAssumption
<1>1. TypeOK
  BY DEF Init, TypeOK, Tunes, Windows, NoTx, NoSnapshot, NoHistory, NoJournal, NoBridge,
         PowerOnMachine, PowerOnPlatform, PowerOnRam, PowerOnColor, Machines, Platforms,
         Bridges, Journals, Ram, Color
<1>2. Control /\ Snapshots /\ JournalFaithful
  BY DEF Init, Control, Snapshots, JournalFaithful, NoTx, NoJournal, PowerOnMachine
<1>3. MirrorTracked
  BY DEF Init, MirrorTracked, PowerOnMachine, PowerOnPlatform
<1> QED
  BY <1>1, <1>2, <1>3 DEF IInv

LEMMA NextIInv == IInv /\ [Next]_vars => IInv'
BY TypeStep, ControlStep, SnapshotsStep, MirrorStep, JournalStep DEF IInv

\* The strengthening that the results below follow from holds in every
\* reachable state of machine, mirror and journal.
THEOREM InductiveInvariant == Spec => []IInv
BY InitIInv, NextIInv, PTL DEF Spec

-----------------------------------------------------------------------------
(* The properties of RenderTransaction.                                    *)

\* Every variable keeps its type, and the head of the log stays inside it.
THEOREM TypeCorrect == Spec => []TypeOK
BY InductiveInvariant, PTL DEF IInv

LEMMA IInvMirror == IInv => MirrorFollowsMachine
<1> SUFFICES ASSUME IInv, pc = "idle"
             PROVE  /\ \A a \in SyncedCells : platform.ram[a] = machine.ram[a]
                    /\ platform.color = machine.color
                    /\ platform.sid = sink
  BY DEF MirrorFollowsMachine
<1>1. \A a : ~Pending(a)
  BY DEF Pending
<1>2. \A a \in ColorRange : platform.color[a] = machine.color[a]
  BY <1>1 DEF IInv, MirrorTracked
<1>3. platform.color = machine.color
  BY <1>2 DEF IInv, TypeOK, Platforms, Machines, Color
<1> QED
  BY <1>1, <1>3 DEF IInv, MirrorTracked

\* Between windows the platform shows the machine, whatever sizes the log and
\* the journal have.
THEOREM MirrorFollows == Spec => []MirrorFollowsMachine
BY InductiveInvariant, IInvMirror, PTL

\* Every window starts with an empty log.
THEOREM NothingSkipped == Spec => []NoWriteIsSkipped
<1>1. IInv => NoWriteIsSkipped
  BY DEF IInv, Control, NoWriteIsSkipped
<1> QED
  BY <1>1, InductiveInvariant, PTL

LEMMA RollbackStep ==
    ASSUME IInv, [Next]_vars, pc = "decide", ~ok \/ TimedWritesLost, pc' = "idle"
    PROVE  /\ machine' = before.machine /\ sink' = before.sink /\ bridge' = before.bridge
           /\ \A a \in SyncedCells : platform'.ram[a] = before.platform.ram[a]
           /\ platform'.color = before.platform.color
           /\ platform'.sid = before.platform.sid
<1>1. Rollback \/ RollbackAndResync
  BY DEF Next, StartBlock, BeginTransaction, DispatchPlay, ServiceCia, RunContinuous,
         RunPassive, CpuWrite, EndWindow, SyncEntry, FinishSync, Publish,
         PublishNothing, Commit, CommitAs, vars
<1>2. PICK mirror \in {Restored, Resynced} :
          /\ platform' = mirror /\ (mirror = Resynced \/ ~journal.overflow)
          /\ sink' = saved.sink /\ bridge' = saved.bridge
  BY <1>1 DEF Rollback, RollbackAndResync, RecoverAs, RollbackAs
<1>3. saved.machine = before.machine /\ before.machine.log = <<>> /\ before.machine.wrapped = FALSE
      /\ before.machine \in Machines
  BY DEF IInv, Control, Snapshots, TypeOK, Machines
<1>4. [before.machine EXCEPT !.log = <<>>, !.wrapped = FALSE] = before.machine
  BY <1>3 DEF Machines
<1>5. machine' = before.machine
  BY <1>1, <1>3, <1>4 DEF Rollback, RollbackAndResync, RecoverAs
<1> QED
  BY <1>2, <1>5, RollbackRestores

\* A failed play leaves no trace in machine, sink, bridge or mirror, even when
\* the log wrapped or the journal overflowed.
THEOREM NoTrace == Spec => RollbackLeavesNoTrace
<1>1. IInv /\ [Next]_vars =>
          [pc = "decide" /\ (~ok \/ TimedWritesLost) /\ pc' = "idle" =>
           /\ machine' = before.machine /\ sink' = before.sink
           /\ bridge' = before.bridge
           /\ \A a \in SyncedCells : platform'.ram[a] = before.platform.ram[a]
           /\ platform'.color = before.platform.color
           /\ platform'.sid = before.platform.sid]_vars
  BY RollbackStep
<1> QED
  BY <1>1, InductiveInvariant, PTL DEF Spec, RollbackLeavesNoTrace

-----------------------------------------------------------------------------
(* The size of the journal.                                                *)

\* kMaxDirtyRam is at least what a log that has not wrapped can name, and
\* kMaxDirtyColor covers colour RAM (8192, 4096 and 1024 in the code).
JournalFits ==
    /\ LogSize <= MaxDirtyRam + 1
    /\ IsFiniteSet(ColorRange) /\ Cardinality(ColorRange) <= MaxDirtyColor

SavedColor(j) == {a \in ColorRange : j.color[a] # NotSaved}

\* A transaction has one window and one sync of an unwrapped log, so the cells
\* saved and the entries still to copy are together fewer than the log holds.
Counts ==
    /\ ~journal.overflow
    /\ journal.active =>
           /\ pc \in {"begun", "running"} => journal.ramCount = 0
           /\ pc = "syncing" => journal.ramCount + Len(queue) < LogSize
           /\ pc \in {"publishing", "decide"} => journal.ramCount < LogSize
           /\ journal.colorCount = Cardinality(SavedColor(journal))

\* One more saved colour cell: the count follows the set, and there is room.
LEMMA LogColorCounts ==
    ASSUME JournalFits, TypeOK, ~journal.overflow, journal.active, NEW a \in ColorRange,
           journal.colorCount = Cardinality(SavedColor(journal))
    PROVE  /\ ~LogColor(a).overflow /\ LogColor(a).active
           /\ LogColor(a).ramCount = journal.ramCount
           /\ LogColor(a).colorCount = Cardinality(SavedColor(LogColor(a)))
<1>1. CASE journal.color[a] # NotSaved
  BY <1>1 DEF LogColor
<1>2. CASE journal.color[a] = NotSaved
  <2> DEFINE S == SavedColor(journal)
  <2>1. S \subseteq ColorRange /\ a \notin S
    BY <1>2 DEF SavedColor
  <2>2. IsFiniteSet(S) /\ Cardinality(S) \in Nat /\ Cardinality(ColorRange) \in Nat
        /\ Cardinality(S) <= Cardinality(ColorRange)
        /\ Cardinality(S) # Cardinality(ColorRange)
    BY <2>1, FS_Subset, FS_CardinalityType DEF JournalFits
  <2>3. Cardinality(S) < MaxDirtyColor
    BY <2>2, LimitAssumption DEF JournalFits
  <2>4. journal.colorCount < MaxDirtyColor /\ ~(journal.colorCount >= MaxDirtyColor)
    BY <2>2, <2>3, LimitAssumption
  <2>5. LogColor(a) = [journal EXCEPT !.color[a] = platform.color[a], !.colorCount = @ + 1]
    BY <1>2, <2>4 DEF LogColor
  <2>6. /\ LogColor(a).overflow = journal.overflow /\ LogColor(a).active = journal.active
        /\ LogColor(a).ramCount = journal.ramCount
        /\ LogColor(a).colorCount = journal.colorCount + 1
        /\ LogColor(a).color = [journal.color EXCEPT ![a] = platform.color[a]]
    BY <2>5 DEF TypeOK, Journals
  <2>7. platform.color[a] # NotSaved /\ journal.color \in [ColorRange -> Values \cup {NotSaved}]
    BY ValueAssumption DEF TypeOK, Platforms, Journals, Color
  <2>8. SavedColor(LogColor(a)) = S \cup {a}
    BY <2>6, <2>7 DEF SavedColor
  <2>9. Cardinality(S \cup {a}) = Cardinality(S) + 1
    BY <2>1, <2>2, FS_AddElement
  <2> QED
    BY <2>6, <2>8, <2>9
<1> QED
  BY <1>1, <1>2

\* One more saved RAM cell.
LEMMA LogRamCounts ==
    ASSUME JournalFits, TypeOK, ~journal.overflow, NEW a \in Addresses,
           journal.ramCount + 1 < LogSize
    PROVE  /\ ~LogRam(a).overflow /\ LogRam(a).active = journal.active
           /\ LogRam(a).ramCount \in {journal.ramCount, journal.ramCount + 1}
           /\ LogRam(a).colorCount = journal.colorCount
           /\ LogRam(a).color = journal.color
<1>1. journal.ramCount \in Nat
  BY DEF TypeOK, Journals
<1>2. ~(journal.ramCount >= MaxDirtyRam)
  BY <1>1, LimitAssumption DEF JournalFits
<1> QED
  BY <1>2 DEF LogRam, TypeOK, Journals

LEMMA CountsSync ==
    ASSUME JournalFits, IInv, Counts, SyncEntry
    PROVE  Counts'
<1> DEFINE a == Head(queue)
<1>1. queue \in Seq(Addresses) /\ queue # <<>> /\ pc = "syncing" /\ pc' = pc /\ queue' = Tail(queue)
  BY DEF SyncEntry, IInv, TypeOK
<1>2. a \in Addresses /\ Len(queue) \in Nat /\ Len(queue) >= 1 /\ Len(queue') = Len(queue) - 1
  BY <1>1, HeadTailProperties
<1>3. journal.ramCount \in Nat /\ journal.active \in BOOLEAN /\ LogSize \in Nat
  BY LimitAssumption DEF IInv, TypeOK, Journals
<1>4. CASE ~journal.active
  <2>1. journal' = journal
    BY <1>4 DEF SyncEntry, PokeMemory, PokeColorRam, LogRam, LogColor
  <2> QED
    BY <1>4, <2>1 DEF Counts
<1>5. CASE journal.active /\ PokeMemory(a)
  <2>1. journal.ramCount + Len(queue) < LogSize
    BY <1>1, <1>5 DEF Counts
  <2>2. journal.ramCount + 1 < LogSize
    BY <1>2, <1>3, <2>1
  <2>3. journal' = LogRam(a)
    BY <1>5 DEF PokeMemory
  <2>4. ~journal'.overflow /\ journal'.active
        /\ journal'.ramCount \in {journal.ramCount, journal.ramCount + 1}
        /\ journal'.colorCount = journal.colorCount /\ journal'.color = journal.color
    BY <1>2, <1>5, <2>2, <2>3, LogRamCounts DEF IInv, Counts
  <2>5. journal'.ramCount + Len(queue') < LogSize
    BY <1>2, <1>3, <2>1, <2>4
  <2>6. SavedColor(journal') = SavedColor(journal)
    BY <2>4 DEF SavedColor
  <2> QED
    BY <1>1, <1>5, <2>4, <2>5, <2>6 DEF Counts
<1>6. CASE journal.active /\ PokeColorRam(a)
  <2>1. journal.ramCount + Len(queue) < LogSize
    BY <1>1, <1>6 DEF Counts
  <2>2. journal' = LogColor(a) /\ a \in ColorRange
    BY <1>6 DEF PokeColorRam
  <2>3. ~journal'.overflow /\ journal'.active /\ journal'.ramCount = journal.ramCount
        /\ journal'.colorCount = Cardinality(SavedColor(journal'))
    BY <1>6, <2>2, LogColorCounts DEF IInv, Counts
  <2>4. journal'.ramCount + Len(queue') < LogSize
    BY <1>2, <1>3, <2>1, <2>3
  <2> QED
    BY <1>1, <1>6, <2>3, <2>4 DEF Counts
<1> QED
  BY <1>4, <1>5, <1>6 DEF SyncEntry

\* Inside a transaction the sync only ever gets a log that has not wrapped.
LEMMA CountsEndWindow ==
    ASSUME IInv, Counts, NEW result \in BOOLEAN, EndWindow(result)
    PROVE  Counts'
<1>1. journal' = journal /\ pc = "running"
  BY DEF EndWindow
<1>2. ASSUME journal.active PROVE journal.ramCount = 0 /\ 0 < LogSize /\ tx.active
  BY <1>1, <1>2, LimitAssumption DEF Counts, IInv, Control
<1>3. CASE ~journal.active
  BY <1>1, <1>3 DEF Counts
<1>4. CASE journal.active /\ machine.wrapped
  <2>1. pc' = "publishing"
    BY <1>2, <1>4 DEF EndWindow
  <2> QED
    BY <1>1, <1>2, <1>4, <2>1 DEF Counts
<1>5. CASE journal.active /\ ~machine.wrapped
  <2>1. pc' = "syncing" /\ queue' = SyncQueue
    BY <1>5 DEF EndWindow
  <2>2. start = 0
    BY <1>1 DEF IInv, Control
  <2>3. queue' = machine.log
    BY <1>5, <2>1, <2>2, SyncQueueType DEF IInv
  <2>4. Len(machine.log) < LogSize /\ Len(machine.log) \in Nat
    BY DEF IInv, TypeOK, Machines
  <2>5. journal'.ramCount + Len(queue') < LogSize
    BY <1>1, <1>2, <1>5, <2>3, <2>4
  <2> QED
    BY <1>1, <1>5, <2>1, <2>5 DEF Counts
<1> QED
  BY <1>3, <1>4, <1>5

LEMMA CountsStep ==
    ASSUME JournalFits, IInv, Counts, [Next]_vars
    PROVE  Counts'
<1>1. ASSUME journal' = NoJournal PROVE Counts'
  BY <1>1 DEF Counts, NoJournal
<1>2. CASE StartBlock
  BY <1>2 DEF StartBlock, Counts
<1>3. CASE BeginTransaction
  <2>1. ~journal'.overflow /\ journal'.ramCount = 0 /\ journal'.colorCount = 0
        /\ journal'.color = [a \in ColorRange |-> NotSaved] /\ pc' = "begun"
    BY <1>3 DEF BeginTransaction, NoJournal
  <2>2. SavedColor(journal') = {}
    BY <2>1 DEF SavedColor
  <2> QED
    BY <2>1, <2>2, FS_EmptySet DEF Counts
<1>4. CASE DispatchPlay \/ ServiceCia \/ RunContinuous \/ RunPassive
  BY <1>4 DEF DispatchPlay, ServiceCia, RunContinuous, RunPassive, OpenWindow, Counts, IInv, Control
<1>5. CASE \E a \in Addresses, v \in Values : CpuWrite(a, v)
  BY <1>5 DEF CpuWrite, Counts
<1>6. CASE \E result \in BOOLEAN : EndWindow(result)
  BY <1>6, CountsEndWindow
<1>7. CASE SyncEntry
  BY <1>7, CountsSync
<1>8. CASE FinishSync
  <2>1. journal' = journal /\ pc = "syncing" /\ pc' \in {"idle", "publishing"} /\ Len(queue) = 0
    BY <1>8 DEF FinishSync
  <2>2. journal.ramCount \in Nat
    BY DEF IInv, TypeOK, Journals
  <2>3. journal.active => journal.ramCount < LogSize
    BY <2>1, <2>2 DEF Counts
  <2> QED
    BY <2>1, <2>3 DEF Counts
<1>9. CASE Publish \/ PublishNothing
  BY <1>9 DEF Publish, PublishNothing, CloseWindow, Counts
<1>10. CASE Commit \/ Rollback \/ RollbackAndResync
  BY <1>1, <1>10 DEF Commit, CommitAs, Rollback, RollbackAndResync, RecoverAs, RollbackAs,
         EndTransaction
<1>11. CASE UNCHANGED vars
  BY <1>11 DEF vars, Counts
<1> QED
  BY <1>2, <1>3, <1>4, <1>5, <1>6, <1>7, <1>8, <1>9, <1>10, <1>11 DEF Next

\* With sizes that fit, no transaction ever needs the recovery path.
THEOREM NeverOverflows ==
    ASSUME JournalFits
    PROVE  Spec => []JournalNeverOverflows
<1>1. Init => Counts
  BY DEF Init, NoJournal, Counts
<1>2. IInv /\ Counts /\ [Next]_vars => Counts'
  BY CountsStep
<1>3. Counts => JournalNeverOverflows
  BY DEF Counts, JournalNeverOverflows
<1> QED
  BY <1>1, <1>2, <1>3, InductiveInvariant, PTL DEF Spec
=============================================================================
