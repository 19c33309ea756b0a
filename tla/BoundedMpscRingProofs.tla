------------------------ MODULE BoundedMpscRingProofs ------------------------
(***************************************************************************)
(* Proofs about BoundedMpscRing for every number of cells from two on, of  *)
(* producers, pushes and clears.  The argument is about positions, not     *)
(* cells: the Capacity positions from the oldest in use on lie in          *)
(* different cells (CellsOfWindow), each cell says of its position whether *)
(* it is free, claimed or committed (Window), and a cell of a position     *)
(* that was given back has moved on to a later lap (Past).  A producer     *)
(* that looks at an old position finds it past, never free and never full. *)
(***************************************************************************)
EXTENDS BoundedMpscRing, FiniteSets, FiniteSetTheorems, SequenceTheorems, TLAPS

InWindow(pos) == OldestInUse <= pos /\ pos < OldestInUse + Capacity

\* Free, claimed or committed; committed data is an item.
Window ==
    \A pos \in Nat : InWindow(pos) =>
        /\ sequence[CellOf(pos)] \in {pos, pos + 1}
        /\ pos >= enqueuePos => sequence[CellOf(pos)] = pos
        /\ pos < dequeuePos => sequence[CellOf(pos)] = pos + 1
        /\ sequence[CellOf(pos)] = pos + 1 => data[CellOf(pos)] \in Items

Past == \A pos \in Nat : pos < OldestInUse => sequence[CellOf(pos)] > pos

Positions ==
    /\ enqueuePos \in Nat /\ dequeuePos \in Nat /\ OldestInUse \in Nat
    /\ dequeuePos <= enqueuePos /\ enqueuePos <= OldestInUse + Capacity
    /\ resetBarrier \in 0 .. enqueuePos

Shapes ==
    /\ sequence \in [Cells -> Nat] /\ data \in [Cells -> Items \cup {NoItem}]
    /\ producer \in [Producers -> [at : {"idle", "load", "check", "claim", "write", "commit"},
                                   item : Items \cup {NoItem}, pos : Nat]]
    /\ consumer \in [at : {"idle", "check", "copy", "recycle"}, call : {"pop", "clear"},
                     out : Items \cup {NoItem}, barrier : Nat]
    /\ calls \in 0 .. MaxPushes /\ clears \in 0 .. MaxClears /\ delivered \in Seq(Items)

\* A producer that claims has seen its position free, so it lies in the window; one
\* that fills has it to itself.
Claims ==
    \A p \in Producers :
        /\ producer[p].pos <= enqueuePos
        /\ producer[p].at # "idle" => producer[p].item \in Items
        /\ producer[p].at = "claim" => producer[p].pos < OldestInUse + Capacity
        /\ Filling(p) =>
              /\ dequeuePos <= producer[p].pos /\ producer[p].pos < enqueuePos
              /\ sequence[CellOf(producer[p].pos)] = producer[p].pos
              /\ \A q \in Producers \ {p} : Filling(q) => producer[q].pos # producer[p].pos
        /\ producer[p].at = "commit" => data[CellOf(producer[p].pos)] = producer[p].item

\* What the render thread copied is still what the cell holds; a clear takes out only
\* what lies before its barrier.
Copied ==
    /\ consumer.barrier <= enqueuePos
    /\ consumer.at \in {"copy", "recycle"} /\ consumer.call = "clear" =>
           dequeuePos <= consumer.barrier
    /\ consumer.at = "recycle" => consumer.out = data[CellOf(dequeuePos - 1)]

\* Calls that have not claimed a position yet.
Pending == {p \in Producers : producer[p].at \in {"load", "check", "claim"}}
Counted == IsFiniteSet(Pending) /\ enqueuePos + Cardinality(Pending) <= calls

IInv == Shapes /\ Positions /\ Window /\ Past /\ Claims /\ Copied /\ Counted

-----------------------------------------------------------------------------
(* Positions and cells.                                                    *)

LEMMA CellTypes == \A pos \in Nat : CellOf(pos) \in Cells
BY CapacityAssumption DEF CellOf, Cells

LEMMA FirstLap == \A pos \in Cells : CellOf(pos) = pos
BY CapacityAssumption DEF CellOf, Cells

LEMMA Laps == \A pos \in Nat : pos \div Capacity \in Nat
                                /\ pos = Capacity * (pos \div Capacity) + CellOf(pos)
BY CapacityAssumption DEF CellOf, Cells

LEMMA Multiples ==
    /\ \A x \in Int : Capacity * x \in Int
    /\ \A x, y \in Int : Capacity * x - Capacity * y = Capacity * (x - y)
    /\ \A x \in Int : x >= 1 => Capacity * x >= Capacity
    /\ \A x \in Int : x <= 0 => Capacity * x <= 0
<1>1. \A x \in Int : Capacity * x \in Int
  BY CapacityAssumption
<1>2. \A x, y \in Int : Capacity * x - Capacity * y = Capacity * (x - y)
  BY CapacityAssumption
<1>3. \A x \in Int : x >= 1 => Capacity * x >= Capacity
  BY CapacityAssumption
<1>4. \A x \in Int : x <= 0 => Capacity * x <= 0
  BY CapacityAssumption
<1> QED BY <1>1, <1>2, <1>3, <1>4

\* Two positions less than a lap apart are in different cells.
LEMMA CellsOfWindow ==
    \A a, b \in Nat : a < b /\ b < a + Capacity => CellOf(a) # CellOf(b)
<1> SUFFICES ASSUME NEW a \in Nat, NEW b \in Nat, a < b, b < a + Capacity,
                    CellOf(a) = CellOf(b)
             PROVE  FALSE
  OBVIOUS
<1> DEFINE x == a \div Capacity
           y == b \div Capacity
<1>1. x \in Nat /\ y \in Nat /\ a = Capacity * x + CellOf(a) /\ b = Capacity * y + CellOf(b)
  BY Laps
<1>2. CellOf(a) \in Nat /\ Capacity \in Nat
  BY CellTypes, CapacityAssumption DEF Cells
<1> HIDE DEF x, y
<1>3. b - a = Capacity * y - Capacity * x
  BY <1>1, <1>2, Multiples
<1>4. b - a = Capacity * (y - x)
  BY <1>1, <1>3, Multiples
<1>5. y - x >= 1 \/ y - x <= 0
  BY <1>1
<1> QED BY <1>1, <1>2, <1>4, <1>5, Multiples

\* A lap later it is the same cell.
LEMMA NextLap == \A pos \in Nat : CellOf(pos + Capacity) = CellOf(pos)
<1> SUFFICES ASSUME NEW pos \in Nat PROVE CellOf(pos + Capacity) = CellOf(pos)
  OBVIOUS
<1> DEFINE x == pos \div Capacity
           y == (pos + Capacity) \div Capacity
<1>1. /\ x \in Nat /\ y \in Nat /\ pos = Capacity * x + CellOf(pos)
      /\ pos + Capacity = Capacity * y + CellOf(pos + Capacity)
  BY Laps, CapacityAssumption
<1>2. CellOf(pos) \in Cells /\ CellOf(pos + Capacity) \in Cells /\ Capacity \in Nat
  BY CellTypes, CapacityAssumption
<1> HIDE DEF x, y
<1>3. Capacity * (y - x) = Capacity + CellOf(pos) - CellOf(pos + Capacity)
  BY <1>1, <1>2, Multiples DEF Cells
<1>4. y - x >= 2 => Capacity * (y - x) >= Capacity + Capacity
  BY <1>1, <1>2
<1>5. y - x <= 0 => Capacity * (y - x) <= 0
  BY <1>1, Multiples
<1>6. y - x = 1
  BY <1>1, <1>2, <1>3, <1>4, <1>5 DEF Cells
<1>7. Capacity * (y - x) = Capacity
  BY <1>6, <1>2
<1> QED BY <1>2, <1>3, <1>7 DEF Cells

-----------------------------------------------------------------------------
(* Steps.                                                                  *)

LEMMA InitInvariant == Init => IInv
<1> SUFFICES ASSUME Init PROVE IInv
  OBVIOUS
<1> USE CapacityAssumption, BoundsAssumption DEF Init, Idle, OldestInUse
<1>1. Shapes
  <2>1. Cells \subseteq Nat
    BY DEF Cells
  <2> QED BY <2>1 DEF Shapes, NoItem
<1>2. Positions /\ Past /\ Copied
  BY DEF Positions, Past, Copied
<1>3. Window
  <2>1. ASSUME NEW pos \in Nat, InWindow(pos) PROVE pos \in Cells /\ sequence[CellOf(pos)] = pos
    <3>1. pos \in Cells
      BY <2>1 DEF InWindow, Cells
    <3> QED BY <3>1, FirstLap
  <2>2. ASSUME NEW pos \in Nat
        PROVE  pos # pos + 1 /\ ~ pos < dequeuePos
    OBVIOUS
  <2> HIDE DEF InWindow, OldestInUse
  <2> QED BY <2>1, <2>2 DEF Window
<1>4. Claims
  BY DEF Claims, Filling
<1>5. Counted
  <2>1. Pending = {}
    BY DEF Pending
  <2> QED BY <2>1, FS_EmptySet DEF Counted
<1> QED BY <1>1, <1>2, <1>3, <1>4, <1>5 DEF IInv

LEMMA ShapesStep == IInv /\ [Next]_vars => Shapes'
<1> SUFFICES ASSUME IInv, [Next]_vars PROVE Shapes'
  OBVIOUS
<1> USE CapacityAssumption, BoundsAssumption, CellTypes DEF IInv, Shapes, Positions, ring, Idle, NoItem
<1>1. ASSUME NEW p \in Producers, StartPush(p) \/ Push(p) PROVE Shapes'
  <2>1. CASE StartPush(p)
    <3>1. calls + 1 \in Items /\ calls + 1 \in 0 .. MaxPushes
      BY <2>1 DEF StartPush, Items
    <3> QED BY <2>1, <3>1 DEF StartPush
  <2>2. CASE LoadPos(p) BY <2>2 DEF LoadPos
  <2>3. CASE FindFree(p) BY <2>3 DEF FindFree, Distance
  <2>4. CASE FindFull(p) BY <2>4 DEF FindFull, Distance
  <2>5. CASE ClaimCell(p)
    <3>1. \E r \in [at : {"write", "check"}, item : Items \cup {NoItem}, pos : Nat] :
              producer' = [producer EXCEPT ![p] = r]
      <4>1. CASE enqueuePos = producer[p].pos
        <5>1. producer' = [producer EXCEPT ![p] = [producer[p] EXCEPT !.at = "write"]]
          BY <2>5, <4>1 DEF ClaimCell
        <5> QED BY <5>1
      <4>2. CASE enqueuePos # producer[p].pos
        <5>1. producer' = [producer EXCEPT ![p] =
                               [producer[p] EXCEPT !.at = "check", !.pos = enqueuePos]]
          BY <2>5, <4>2 DEF ClaimCell
        <5> QED BY <5>1
      <4> QED BY <4>1, <4>2
    <3>2. producer' \in [Producers -> [at : {"idle", "load", "check", "claim", "write", "commit"},
                                       item : Items \cup {NoItem}, pos : Nat]]
      BY <3>1
    <3> QED BY <2>5, <3>2 DEF ClaimCell
  <2>6. CASE WriteData(p) BY <2>6 DEF WriteData
  <2>7. CASE Commit(p)
    <3>1. producer[p].pos \in Nat /\ CellOf(producer[p].pos) \in Cells
      OBVIOUS
    <3>2. sequence' \in [Cells -> Nat]
      BY <2>7, <3>1 DEF Commit, CommitAs
    <3> QED BY <2>7, <3>2 DEF Commit, CommitAs
  <2> QED BY <1>1, <2>1, <2>2, <2>3, <2>4, <2>5, <2>6, <2>7 DEF Push
<1>2. CASE StartPop BY <1>2 DEF StartPop
<1>3. CASE StartClear
  <2>1. clears + 1 \in 0 .. MaxClears
    <3>1. clears \in 0 .. MaxClears /\ clears < MaxClears
      BY <1>3 DEF StartClear
    <3> QED BY ONLY <3>1, BoundsAssumption
  <2>2. consumer' \in [at : {"idle", "check", "copy", "recycle"}, call : {"pop", "clear"},
                      out : Items \cup {NoItem}, barrier : Nat]
    <3>1. consumer' = [consumer EXCEPT !.at = "check", !.call = "clear", !.barrier = enqueuePos]
      BY <1>3 DEF StartClear
    <3> QED BY <3>1
  <2> QED BY <1>3, <2>1, <2>2 DEF StartClear
<1>4. CASE ClaimNext BY <1>4 DEF ClaimNext
<1>5. CASE Finish BY <1>5 DEF Finish, FinishWith
<1>6. CASE CopyOut
  <2>1. dequeuePos - 1 \in Nat
    BY <1>6 DEF CopyOut, OldestInUse
  <2>2. data[CellOf(dequeuePos - 1)] \in Items \cup {NoItem}
    BY <2>1
  <2>3. consumer' \in [at : {"idle", "check", "copy", "recycle"}, call : {"pop", "clear"},
                      out : Items \cup {NoItem}, barrier : Nat]
    BY <1>6, <2>2 DEF CopyOut
  <2> QED BY <1>6, <2>3 DEF CopyOut
<1>7. CASE Recycle
  <2>1. dequeuePos - 1 \in Nat /\ OldestInUse = dequeuePos - 1
    BY <1>7 DEF Recycle, RecycleFor, OldestInUse
  <2>2. InWindow(dequeuePos - 1)
    BY <2>1 DEF InWindow
  <2>3. data[CellOf(dequeuePos - 1)] \in Items
    BY <2>1, <2>2 DEF Window
  <2>4. consumer.out \in Items
    BY <1>7, <2>3 DEF Recycle, RecycleFor, Copied
  <2>5. delivered' \in Seq(Items)
    BY <1>7, <2>4, AppendProperties DEF Recycle, RecycleFor
  <2>6. dequeuePos - 1 + Capacity \in Nat /\ CellOf(dequeuePos - 1) \in Cells
    BY <2>1
  <2>7. sequence' \in [Cells -> Nat]
    BY <1>7, <2>6 DEF Recycle, RecycleFor
  <2>8. consumer' \in [at : {"idle", "check", "copy", "recycle"}, call : {"pop", "clear"},
                      out : Items \cup {NoItem}, barrier : Nat]
    BY <1>7 DEF Recycle, RecycleFor
  <2> QED BY <1>7, <2>5, <2>7, <2>8 DEF Recycle, RecycleFor
<1>8. CASE UNCHANGED vars BY <1>8 DEF vars
<1> QED BY <1>1, <1>2, <1>3, <1>4, <1>5, <1>6, <1>7, <1>8 DEF Next, Consume

LEMMA PositionsStep == IInv /\ [Next]_vars => Positions'
<1> SUFFICES ASSUME IInv, [Next]_vars PROVE Positions'
  OBVIOUS
<1> USE CapacityAssumption, CellTypes DEF IInv, Shapes, Positions, Claims, Copied, OldestInUse, ring, Idle
<1>1. ASSUME NEW p \in Producers, StartPush(p) \/ Push(p) PROVE Positions'
  <2>1. CASE StartPush(p) BY <2>1 DEF StartPush
  <2>2. CASE LoadPos(p) BY <2>2 DEF LoadPos
  <2>3. CASE FindFree(p) BY <2>3 DEF FindFree, Distance
  <2>4. CASE FindFull(p) BY <2>4 DEF FindFull, Distance
  <2>5. CASE ClaimCell(p)
    <3>1. CASE enqueuePos = producer[p].pos
      <4>1. enqueuePos' = enqueuePos + 1 /\ enqueuePos < OldestInUse + Capacity
        BY <2>5, <3>1 DEF ClaimCell
      <4>2. UNCHANGED <<dequeuePos, resetBarrier, consumer>>
        BY <2>5 DEF ClaimCell
      <4>3. OldestInUse' = OldestInUse
        BY <4>2
      <4>4. enqueuePos' \in Nat /\ resetBarrier' \in 0 .. enqueuePos'
        BY <4>1, <4>2
      <4> HIDE DEF OldestInUse
      <4>5. enqueuePos + 1 <= OldestInUse + Capacity /\ dequeuePos <= enqueuePos + 1
        BY <4>1
      <4> QED BY <4>1, <4>2, <4>3, <4>4, <4>5
    <3>2. CASE enqueuePos # producer[p].pos
      BY <2>5, <3>2 DEF ClaimCell
    <3> QED BY <3>1, <3>2
  <2>6. CASE WriteData(p) BY <2>6 DEF WriteData
  <2>7. CASE Commit(p) BY <2>7 DEF Commit, CommitAs
  <2> QED BY <1>1, <2>1, <2>2, <2>3, <2>4, <2>5, <2>6, <2>7 DEF Push
<1>2. CASE StartPop BY <1>2 DEF StartPop
<1>3. CASE StartClear BY <1>3 DEF StartClear
<1>4. CASE ClaimNext
  <2>1. InWindow(dequeuePos) /\ sequence[CellOf(dequeuePos)] = dequeuePos + 1
    <3>1. consumer.at = "check" /\ Committed
      BY <1>4 DEF ClaimNext
    <3>2. OldestInUse = dequeuePos
      BY <3>1
    <3> QED BY <3>1, <3>2 DEF Committed, InWindow
  <2>2. dequeuePos < enqueuePos
    <3>1. sequence[CellOf(dequeuePos)] # dequeuePos
      BY <2>1
    <3> QED BY <2>1, <3>1 DEF Window
  <2>3. consumer'.at = "copy" /\ dequeuePos' = dequeuePos + 1 /\ OldestInUse = dequeuePos
        /\ UNCHANGED <<enqueuePos, resetBarrier>>
    BY <1>4 DEF ClaimNext
  <2>4. OldestInUse' = dequeuePos
    BY <2>3
  <2> QED BY <2>2, <2>3, <2>4
<1>5. CASE Finish BY <1>5 DEF Finish, FinishWith
<1>6. CASE CopyOut BY <1>6 DEF CopyOut
<1>7. CASE Recycle BY <1>7 DEF Recycle, RecycleFor
<1>8. CASE UNCHANGED vars BY <1>8 DEF vars
<1> QED BY <1>1, <1>2, <1>3, <1>4, <1>5, <1>6, <1>7, <1>8 DEF Next, Consume

\* The oldest position in use moves on only when a cell is given back.
OldestMoves == OldestInUse' = OldestInUse \/ (Recycle /\ OldestInUse' = OldestInUse + 1)

LEMMA OldestMovesOn == IInv /\ [Next]_vars => OldestMoves
<1> SUFFICES ASSUME IInv, [Next]_vars PROVE OldestMoves
  OBVIOUS
<1> USE DEF IInv, Positions, Shapes, OldestInUse, OldestMoves, ring, Idle
<1>1. ASSUME NEW p \in Producers, StartPush(p) \/ Push(p) PROVE OldestMoves
  <2>1. CASE StartPush(p) BY <2>1 DEF StartPush
  <2>2. CASE LoadPos(p) BY <2>2 DEF LoadPos
  <2>3. CASE FindFree(p) BY <2>3 DEF FindFree, Distance
  <2>4. CASE FindFull(p) BY <2>4 DEF FindFull, Distance
  <2>5. CASE ClaimCell(p) BY <2>5 DEF ClaimCell
  <2>6. CASE WriteData(p) BY <2>6 DEF WriteData
  <2>7. CASE Commit(p) BY <2>7 DEF Commit, CommitAs
  <2> QED BY <1>1, <2>1, <2>2, <2>3, <2>4, <2>5, <2>6, <2>7 DEF Push
<1>2. CASE StartPop BY <1>2 DEF StartPop
<1>3. CASE StartClear BY <1>3 DEF StartClear
<1>4. CASE ClaimNext BY <1>4 DEF ClaimNext
<1>5. CASE Finish BY <1>5 DEF Finish, FinishWith
<1>6. CASE CopyOut BY <1>6 DEF CopyOut
<1>7. CASE Recycle BY <1>7 DEF Recycle, RecycleFor
<1>8. CASE UNCHANGED vars BY <1>8 DEF vars
<1> QED BY <1>1, <1>2, <1>3, <1>4, <1>5, <1>6, <1>7, <1>8 DEF Next, Consume

LEMMA OldestStep ==
    ASSUME IInv, [Next]_vars
    PROVE  /\ OldestMoves
           /\ OldestInUse \in Nat /\ OldestInUse' \in Nat
           /\ dequeuePos \in Nat /\ enqueuePos \in Nat /\ Capacity \in Nat
           /\ sequence \in [Cells -> Nat] /\ data \in [Cells -> Items \cup {NoItem}]
BY OldestMovesOn, PositionsStep, CapacityAssumption DEF IInv, Positions, Shapes

\* A cell belongs to one position of the window.
LEMMA OnePosition ==
    ASSUME IInv, NEW a \in Nat, NEW b \in Nat, InWindow(a), InWindow(b), CellOf(a) = CellOf(b)
    PROVE  a = b
<1>1. OldestInUse \in Nat /\ Capacity \in Nat
  BY CapacityAssumption DEF IInv, Positions
<1>2. ~ (a < b /\ b < a + Capacity) /\ ~ (b < a /\ a < b + Capacity)
  BY CellsOfWindow
<1> HIDE DEF OldestInUse
<1> QED BY <1>1, <1>2 DEF InWindow

\* A claimed position lies in the window, behind the positions the consumer has reached.
LEMMA FillersInWindow ==
    ASSUME IInv, NEW p \in Producers, Filling(p)
    PROVE  /\ producer[p].pos \in Nat /\ InWindow(producer[p].pos)
           /\ dequeuePos <= producer[p].pos /\ producer[p].pos < enqueuePos
           /\ sequence[CellOf(producer[p].pos)] = producer[p].pos
           /\ producer[p].item \in Items /\ CellOf(producer[p].pos) \in Cells
<1>1. producer[p].pos \in Nat
  BY DEF IInv, Shapes
<1>2. /\ dequeuePos <= producer[p].pos /\ producer[p].pos < enqueuePos
      /\ sequence[CellOf(producer[p].pos)] = producer[p].pos
      /\ producer[p].item \in Items
  BY DEF IInv, Claims, Filling
<1>3. /\ OldestInUse \in Nat /\ enqueuePos \in Nat /\ dequeuePos \in Nat
      /\ OldestInUse <= dequeuePos /\ enqueuePos <= OldestInUse + Capacity
  BY DEF IInv, Positions, OldestInUse
<1>4. InWindow(producer[p].pos)
  <2> HIDE DEF OldestInUse
  <2> QED BY <1>1, <1>2, <1>3, CapacityAssumption DEF InWindow
<1> QED BY <1>1, <1>2, <1>4, CellTypes

\* A producer's step does not move the oldest position.
LEMMA OldestUnchanged == UNCHANGED <<consumer, dequeuePos>> => OldestInUse' = OldestInUse
BY DEF OldestInUse

\* Window and Past speak of the cells and the positions only.
LEMMA RingUnchanged ==
    ASSUME IInv, UNCHANGED <<sequence, data, enqueuePos, dequeuePos>>, OldestInUse' = OldestInUse
    PROVE  Window' /\ Past'
<1> HIDE DEF OldestInUse
<1> QED BY DEF IInv, Window, Past, InWindow

LEMMA PastStep == IInv /\ [Next]_vars => Past'
<1> SUFFICES ASSUME IInv, [Next]_vars PROVE Past'
  OBVIOUS
<1> USE OldestStep DEF OldestMoves, ring
<1>1. ASSUME NEW p \in Producers, StartPush(p) \/ Push(p) PROVE Past'
  <2>1. CASE StartPush(p)
    BY <2>1, RingUnchanged, OldestUnchanged DEF StartPush, ring
  <2>2. CASE LoadPos(p)
    BY <2>2, RingUnchanged, OldestUnchanged DEF LoadPos, ring
  <2>3. CASE FindFree(p)
    BY <2>3, RingUnchanged, OldestUnchanged DEF FindFree, ring
  <2>4. CASE FindFull(p)
    BY <2>4, RingUnchanged, OldestUnchanged DEF FindFull, ring
  <2>5. CASE ClaimCell(p)
    BY <2>5, OldestUnchanged DEF ClaimCell, IInv, Past
  <2>6. CASE WriteData(p)
    BY <2>6, OldestUnchanged DEF WriteData, IInv, Past
  <2>7. CASE Commit(p)
    <3> DEFINE mine == producer[p].pos
    <3>1. /\ mine \in Nat /\ sequence[CellOf(mine)] = mine
          /\ sequence' = [sequence EXCEPT ![CellOf(mine)] = mine + 1]
          /\ OldestInUse' = OldestInUse
      BY <2>7, FillersInWindow, OldestUnchanged DEF Commit, CommitAs, Filling
    <3> HIDE DEF mine, OldestInUse
    <3> QED BY <3>1, CellTypes DEF IInv, Past
  <2> QED BY <1>1, <2>1, <2>2, <2>3, <2>4, <2>5, <2>6, <2>7 DEF Push
<1>2. CASE StartPop
  BY <1>2, RingUnchanged DEF StartPop, Recycle, RecycleFor
<1>3. CASE StartClear
  BY <1>3, RingUnchanged DEF StartClear, Recycle, RecycleFor
<1>4. CASE ClaimNext
  BY <1>4 DEF ClaimNext, Recycle, RecycleFor, IInv, Past
<1>5. CASE Finish
  BY <1>5, RingUnchanged DEF Finish, Recycle, RecycleFor, FinishWith
<1>6. CASE CopyOut
  BY <1>6, RingUnchanged DEF CopyOut, Recycle, RecycleFor
<1>7. CASE Recycle
  <2> DEFINE last == dequeuePos - 1
  <2>1. last \in Nat /\ OldestInUse = last /\ OldestInUse' = last + 1
    BY <1>7 DEF Recycle, RecycleFor, OldestInUse
  <2>2. sequence' = [sequence EXCEPT ![CellOf(last)] = last + Capacity]
    BY <1>7 DEF Recycle, RecycleFor
  <2>3. ASSUME NEW pos \in Nat, pos < last + 1 PROVE sequence'[CellOf(pos)] > pos
    <3> HIDE DEF last, OldestInUse
    <3>1. CASE CellOf(pos) = CellOf(last)
      BY <2>1, <2>2, <2>3, <3>1, CellTypes, CapacityAssumption
    <3>2. CASE CellOf(pos) # CellOf(last)
      BY <2>1, <2>2, <2>3, <3>2, CellTypes DEF IInv, Past
    <3> QED BY <3>1, <3>2
  <2> QED BY <2>1, <2>3 DEF Past
<1>8. CASE UNCHANGED vars BY <1>8, RingUnchanged DEF vars, OldestInUse
<1> QED BY <1>1, <1>2, <1>3, <1>4, <1>5, <1>6, <1>7, <1>8 DEF Next, Consume

LEMMA WindowStep == IInv /\ [Next]_vars => Window'
<1> SUFFICES ASSUME IInv, [Next]_vars PROVE Window'
  OBVIOUS
<1> USE OldestStep DEF OldestMoves, ring
<1>0. /\ \A pos \in Nat : InWindow(pos) =>
            /\ sequence[CellOf(pos)] \in {pos, pos + 1}
            /\ pos >= enqueuePos => sequence[CellOf(pos)] = pos
            /\ pos < dequeuePos => sequence[CellOf(pos)] = pos + 1
            /\ sequence[CellOf(pos)] = pos + 1 => data[CellOf(pos)] \in Items
  BY DEF IInv, Window
<1>1. ASSUME NEW p \in Producers, StartPush(p) \/ Push(p) PROVE Window'
  <2>1. CASE StartPush(p)
    BY <2>1, RingUnchanged, OldestUnchanged DEF StartPush, ring
  <2>2. CASE LoadPos(p)
    BY <2>2, RingUnchanged, OldestUnchanged DEF LoadPos, ring
  <2>3. CASE FindFree(p)
    BY <2>3, RingUnchanged, OldestUnchanged DEF FindFree, ring
  <2>4. CASE FindFull(p)
    BY <2>4, RingUnchanged, OldestUnchanged DEF FindFull, ring
  <2>5. CASE ClaimCell(p)
    <3>1. /\ enqueuePos' \in Nat /\ enqueuePos <= enqueuePos' /\ OldestInUse' = OldestInUse
          /\ UNCHANGED <<sequence, data, dequeuePos>>
      BY <2>5, OldestUnchanged DEF ClaimCell
    <3> HIDE DEF OldestInUse
    <3> QED BY <3>1, <1>0 DEF Window, InWindow
  <2>6. CASE WriteData(p)
    <3>1. /\ data' = [data EXCEPT ![CellOf(producer[p].pos)] = producer[p].item]
          /\ producer[p].item \in Items
          /\ OldestInUse' = OldestInUse /\ UNCHANGED <<sequence, enqueuePos, dequeuePos>>
      BY <2>6, FillersInWindow, OldestUnchanged DEF WriteData, Filling
    <3> HIDE DEF OldestInUse
    <3> QED BY <3>1, <1>0, CellTypes DEF Window, InWindow
  <2>7. CASE Commit(p)
    <3> DEFINE mine == producer[p].pos
    <3>1. /\ mine \in Nat /\ InWindow(mine) /\ mine < enqueuePos /\ dequeuePos <= mine
          /\ producer[p].item \in Items
      BY <2>7, FillersInWindow DEF Commit, CommitAs, Filling
    <3>2. data[CellOf(mine)] \in Items
      BY <2>7, <3>1 DEF Commit, CommitAs, IInv, Claims
    <3>3. /\ sequence' = [sequence EXCEPT ![CellOf(mine)] = mine + 1]
          /\ OldestInUse' = OldestInUse /\ UNCHANGED <<data, enqueuePos, dequeuePos>>
      BY <2>7, OldestUnchanged DEF Commit, CommitAs
    <3> HIDE DEF mine, OldestInUse
    <3>4. ASSUME NEW pos \in Nat, InWindow(pos)
          PROVE  /\ sequence'[CellOf(pos)] \in {pos, pos + 1}
                 /\ pos >= enqueuePos => sequence'[CellOf(pos)] = pos
                 /\ pos < dequeuePos => sequence'[CellOf(pos)] = pos + 1
                 /\ sequence'[CellOf(pos)] = pos + 1 => data[CellOf(pos)] \in Items
      <4>1. CASE pos = mine
        BY <4>1, <3>1, <3>2, <3>3, CellTypes
      <4>2. CASE pos # mine
        <5>1. CellOf(pos) # CellOf(mine)
          BY <4>2, <3>1, <3>4, OnePosition
        <5>2. sequence'[CellOf(pos)] = sequence[CellOf(pos)]
          BY <5>1, <3>3, CellTypes
        <5> QED BY <5>2, <3>4, <1>0
      <4> QED BY <4>1, <4>2
    <3> QED BY <3>3, <3>4 DEF Window, InWindow
  <2> QED BY <1>1, <2>1, <2>2, <2>3, <2>4, <2>5, <2>6, <2>7 DEF Push
<1>2. CASE StartPop
  BY <1>2, RingUnchanged DEF StartPop, Recycle, RecycleFor
<1>3. CASE StartClear
  BY <1>3, RingUnchanged DEF StartClear, Recycle, RecycleFor
<1>4. CASE ClaimNext
  <2>1. /\ Committed /\ dequeuePos' = dequeuePos + 1
        /\ OldestInUse = dequeuePos /\ OldestInUse' = dequeuePos
        /\ UNCHANGED <<sequence, data, enqueuePos>>
    BY <1>4 DEF ClaimNext, OldestInUse
  <2> HIDE DEF OldestInUse
  <2> QED BY <2>1, <1>0 DEF Window, InWindow, Committed
<1>5. CASE Finish
  BY <1>5, RingUnchanged DEF Finish, Recycle, RecycleFor, FinishWith
<1>6. CASE CopyOut
  BY <1>6, RingUnchanged DEF CopyOut, Recycle, RecycleFor
<1>7. CASE Recycle
  <2> DEFINE last == dequeuePos - 1
  <2>1. /\ last \in Nat /\ OldestInUse = last /\ OldestInUse' = last + 1
        /\ UNCHANGED <<data, enqueuePos, dequeuePos>>
    BY <1>7 DEF Recycle, RecycleFor, OldestInUse
  <2>2. sequence' = [sequence EXCEPT ![CellOf(last)] = last + Capacity]
    BY <1>7 DEF Recycle, RecycleFor
  <2>3. enqueuePos <= last + Capacity
    BY <2>1 DEF IInv, Positions
  <2>4. dequeuePos = last + 1
    BY <2>1
  <2> HIDE DEF last, OldestInUse
  <2>5. ASSUME NEW pos \in Nat, last + 1 <= pos, pos < last + 1 + Capacity
        PROVE  /\ sequence'[CellOf(pos)] \in {pos, pos + 1}
               /\ pos >= enqueuePos => sequence'[CellOf(pos)] = pos
               /\ pos < dequeuePos => sequence'[CellOf(pos)] = pos + 1
               /\ sequence'[CellOf(pos)] = pos + 1 => data[CellOf(pos)] \in Items
    <3>1. CASE pos = last + Capacity
      <4>1. CellOf(pos) = CellOf(last)
        BY <3>1, <2>1, NextLap
      <4>2. sequence'[CellOf(pos)] = pos
        BY <3>1, <4>1, <2>2, <2>1, CellTypes
      <4> QED BY <2>4, <2>5, <4>2
    <3>2. CASE pos # last + Capacity
      <4>1. InWindow(pos) /\ InWindow(last) /\ pos # last
        BY <3>2, <2>1, <2>5, CapacityAssumption DEF InWindow
      <4>2. CellOf(pos) # CellOf(last)
        BY <4>1, <2>1, OnePosition
      <4>3. sequence'[CellOf(pos)] = sequence[CellOf(pos)]
        BY <4>2, <2>2, CellTypes
      <4> QED BY <4>1, <4>3, <1>0
    <3> QED BY <3>1, <3>2
  <2> QED BY <2>1, <2>5 DEF Window, InWindow
<1>8. CASE UNCHANGED vars BY <1>8, RingUnchanged DEF vars, OldestInUse
<1> QED BY <1>1, <1>2, <1>3, <1>4, <1>5, <1>6, <1>7, <1>8 DEF Next, Consume

LEMMA ClaimsStep == IInv /\ [Next]_vars => Claims'
<1> SUFFICES ASSUME IInv, [Next]_vars PROVE Claims'
  OBVIOUS
<1> USE OldestStep DEF OldestMoves, ring
<1>0. /\ producer \in [Producers -> [at : {"idle", "load", "check", "claim", "write", "commit"},
                                     item : Items \cup {NoItem}, pos : Nat]]
      /\ OldestInUse <= dequeuePos /\ dequeuePos <= enqueuePos
      /\ enqueuePos <= OldestInUse + Capacity
      /\ Capacity >= 2 /\ calls \in Nat /\ Claims
  BY CapacityAssumption, BoundsAssumption DEF IInv, Shapes, Positions, OldestInUse
<1>1. ASSUME NEW p \in Producers, StartPush(p) \/ Push(p) PROVE Claims'
  <2>1. CASE StartPush(p)
    <3>1. calls + 1 \in Items
      BY <2>1, <1>0, BoundsAssumption DEF StartPush, Items
    <3>2. /\ producer' = [producer EXCEPT ![p] = [at |-> "load", item |-> calls + 1, pos |-> 0]]
          /\ OldestInUse' = OldestInUse
          /\ UNCHANGED <<sequence, data, enqueuePos, dequeuePos>>
      BY <2>1, OldestUnchanged DEF StartPush
    <3> HIDE DEF OldestInUse
    <3> QED BY <1>0, <3>1, <3>2 DEF Claims, Filling
  <2>2. CASE LoadPos(p)
    <3>1. /\ producer[p].at = "load"
          /\ producer' = [producer EXCEPT ![p] = [@ EXCEPT !.at = "check", !.pos = enqueuePos]]
          /\ OldestInUse' = OldestInUse
          /\ UNCHANGED <<sequence, data, enqueuePos, dequeuePos>>
      BY <2>2, OldestUnchanged DEF LoadPos
    <3> HIDE DEF OldestInUse
    <3> QED BY <1>0, <3>1 DEF Claims, Filling
  <2>3. CASE FindFree(p)
    <3> DEFINE seen == producer[p].pos
    <3>1. /\ producer[p].at = "check" /\ seen \in Nat /\ seen <= enqueuePos
          /\ sequence[CellOf(seen)] - seen >= 0
          /\ producer' = [producer EXCEPT ![p].at =
                 IF sequence[CellOf(seen)] - seen = 0 THEN "claim" ELSE "load"]
          /\ OldestInUse' = OldestInUse
          /\ UNCHANGED <<sequence, data, enqueuePos, dequeuePos>>
      BY <2>3, <1>0, OldestUnchanged DEF FindFree, Distance, Claims
    <3>2. sequence[CellOf(seen)] \in Nat
      BY <3>1, CellTypes
    <3>3. ASSUME sequence[CellOf(seen)] - seen = 0 PROVE seen < OldestInUse + Capacity
      <4> HIDE DEF OldestInUse, seen
      <4>1. sequence[CellOf(seen)] = seen
        BY <3>1, <3>2, <3>3
      <4>2. seen # OldestInUse + Capacity
        <5>1. InWindow(OldestInUse)
          BY <1>0 DEF InWindow
        <5>2. sequence[CellOf(OldestInUse)] \in {OldestInUse, OldestInUse + 1}
          BY <5>1 DEF IInv, Window
        <5>3. seen = OldestInUse + Capacity => CellOf(seen) = CellOf(OldestInUse)
          BY NextLap
        <5> QED BY <4>1, <5>2, <5>3, <1>0
      <4> QED BY <3>1, <4>2, <1>0
    <3> HIDE DEF OldestInUse
    <3> QED BY <1>0, <3>1, <3>3 DEF Claims, Filling
  <2>4. CASE FindFull(p)
    <3>1. /\ producer' = [producer EXCEPT ![p] = Idle] /\ OldestInUse' = OldestInUse
          /\ UNCHANGED <<sequence, data, enqueuePos, dequeuePos>>
      BY <2>4, OldestUnchanged DEF FindFull
    <3> HIDE DEF OldestInUse
    <3> QED BY <1>0, <3>1 DEF Claims, Filling, Idle
  <2>5. CASE ClaimCell(p)
    <3>1. producer[p].at = "claim" /\ OldestInUse' = OldestInUse
          /\ UNCHANGED <<sequence, data, dequeuePos>>
      BY <2>5, OldestUnchanged DEF ClaimCell
    <3>2. CASE enqueuePos = producer[p].pos
      <4>1. /\ enqueuePos' = enqueuePos + 1
            /\ producer' = [producer EXCEPT ![p].at = "write"]
        BY <2>5, <3>2 DEF ClaimCell
      <4>2. InWindow(enqueuePos)
        BY <3>1, <3>2, <1>0 DEF Claims, InWindow
      <4>3. sequence[CellOf(enqueuePos)] = enqueuePos
        BY <4>2 DEF IInv, Window
      <4> HIDE DEF OldestInUse
      <4> QED BY <1>0, <3>1, <3>2, <4>1, <4>3 DEF Claims, Filling
    <3>3. CASE enqueuePos # producer[p].pos
      <4>1. /\ UNCHANGED enqueuePos
            /\ producer' = [producer EXCEPT ![p] = [@ EXCEPT !.at = "check", !.pos = enqueuePos]]
        BY <2>5, <3>3 DEF ClaimCell
      <4> HIDE DEF OldestInUse
      <4> QED BY <1>0, <3>1, <4>1 DEF Claims, Filling
    <3> QED BY <3>2, <3>3
  <2>6. CASE WriteData(p)
    <3> DEFINE mine == producer[p].pos
    <3>1. /\ producer[p].at = "write" /\ OldestInUse' = OldestInUse
          /\ data' = [data EXCEPT ![CellOf(mine)] = producer[p].item]
          /\ producer' = [producer EXCEPT ![p].at = "commit"]
          /\ UNCHANGED <<sequence, enqueuePos, dequeuePos>>
      BY <2>6, OldestUnchanged DEF WriteData
    <3>2. ASSUME NEW q \in Producers \ {p}, Filling(q) PROVE CellOf(producer[q].pos) # CellOf(mine)
      BY <1>0, <3>1, <3>2, FillersInWindow, OnePosition DEF Claims, Filling
    <3>3. mine \in Nat /\ CellOf(mine) \in Cells
      BY <1>0, CellTypes
    <3>4. \A q \in Producers : producer'[q].at = "commit" =>
              data'[CellOf(producer'[q].pos)] = producer'[q].item
      <4> HIDE DEF OldestInUse
      <4> QED BY <1>0, <3>1, <3>2, <3>3, CellTypes DEF Claims, Filling
    <3> HIDE DEF OldestInUse
    <3> QED BY <1>0, <3>1, <3>4 DEF Claims, Filling
  <2>7. CASE Commit(p)
    <3> DEFINE mine == producer[p].pos
    <3>1. /\ producer[p].at = "commit" /\ OldestInUse' = OldestInUse
          /\ sequence' = [sequence EXCEPT ![CellOf(mine)] = mine + 1]
          /\ producer' = [producer EXCEPT ![p] = Idle]
          /\ UNCHANGED <<data, enqueuePos, dequeuePos>>
      BY <2>7, OldestUnchanged DEF Commit, CommitAs
    <3>2. ASSUME NEW q \in Producers \ {p}, Filling(q) PROVE CellOf(producer[q].pos) # CellOf(mine)
      BY <1>0, <3>1, <3>2, FillersInWindow, OnePosition DEF Claims, Filling
    <3> HIDE DEF OldestInUse
    <3> QED BY <1>0, <3>1, <3>2, CellTypes DEF Claims, Filling, Idle
  <2> QED BY <1>1, <2>1, <2>2, <2>3, <2>4, <2>5, <2>6, <2>7 DEF Push
<1>2. CASE StartPop
  <2>1. UNCHANGED <<producer, sequence, data, enqueuePos, dequeuePos>> /\ OldestInUse' = OldestInUse
    BY <1>2 DEF StartPop, Recycle, RecycleFor
  <2> HIDE DEF OldestInUse
  <2> QED BY <1>0, <2>1 DEF Claims, Filling
<1>3. CASE StartClear
  <2>1. UNCHANGED <<producer, sequence, data, enqueuePos, dequeuePos>> /\ OldestInUse' = OldestInUse
    BY <1>3 DEF StartClear, Recycle, RecycleFor
  <2> HIDE DEF OldestInUse
  <2> QED BY <1>0, <2>1 DEF Claims, Filling
<1>4. CASE ClaimNext
  <2>1. /\ Committed /\ dequeuePos' = dequeuePos + 1 /\ OldestInUse' = OldestInUse
        /\ UNCHANGED <<producer, sequence, data, enqueuePos>>
    BY <1>4 DEF ClaimNext, Recycle, RecycleFor
  <2>2. ASSUME NEW p \in Producers, Filling(p) PROVE dequeuePos + 1 <= producer[p].pos
    <3>1. producer[p].pos # dequeuePos
      BY <2>1, <2>2, FillersInWindow DEF Committed
    <3> QED BY <2>2, <3>1, FillersInWindow
  <2> HIDE DEF OldestInUse
  <2> QED BY <1>0, <2>1, <2>2 DEF Claims, Filling
<1>5. CASE Finish
  <2>1. UNCHANGED <<producer, sequence, data, enqueuePos, dequeuePos>> /\ OldestInUse' = OldestInUse
    BY <1>5 DEF Finish, FinishWith, Recycle, RecycleFor
  <2> HIDE DEF OldestInUse
  <2> QED BY <1>0, <2>1 DEF Claims, Filling
<1>6. CASE CopyOut
  <2>1. UNCHANGED <<producer, sequence, data, enqueuePos, dequeuePos>> /\ OldestInUse' = OldestInUse
    BY <1>6 DEF CopyOut, Recycle, RecycleFor
  <2> HIDE DEF OldestInUse
  <2> QED BY <1>0, <2>1 DEF Claims, Filling
<1>7. CASE Recycle
  <2> DEFINE last == dequeuePos - 1
  <2>1. /\ last \in Nat /\ OldestInUse = last /\ OldestInUse' = last + 1 /\ dequeuePos = last + 1
        /\ UNCHANGED <<producer, data, enqueuePos, dequeuePos>>
        /\ sequence' = [sequence EXCEPT ![CellOf(last)] = last + Capacity]
    BY <1>7 DEF Recycle, RecycleFor, OldestInUse
  <2>2. ASSUME NEW p \in Producers, Filling(p)
        PROVE  sequence'[CellOf(producer[p].pos)] = sequence[CellOf(producer[p].pos)]
    <3> HIDE DEF last, OldestInUse
    <3>1. InWindow(last) /\ last # producer[p].pos
      BY <2>1, <2>2, <1>0, FillersInWindow DEF InWindow
    <3>2. CellOf(producer[p].pos) # CellOf(last)
      BY <2>1, <2>2, <3>1, FillersInWindow, OnePosition
    <3> QED BY <2>1, <2>2, <3>2, FillersInWindow
  <2> HIDE DEF last, OldestInUse
  <2> QED BY <1>0, <2>1, <2>2 DEF Claims, Filling
<1>8. CASE UNCHANGED vars BY <1>8, <1>0 DEF vars, OldestInUse, Claims, Filling
<1> QED BY <1>1, <1>2, <1>3, <1>4, <1>5, <1>6, <1>7, <1>8 DEF Next, Consume

LEMMA CopiedStep == IInv /\ [Next]_vars => Copied'
<1> SUFFICES ASSUME IInv, [Next]_vars PROVE Copied'
  OBVIOUS
<1> USE OldestStep DEF ring
<1>0. /\ consumer \in [at : {"idle", "check", "copy", "recycle"}, call : {"pop", "clear"},
                       out : Items \cup {NoItem}, barrier : Nat]
      /\ Copied
  BY DEF IInv, Shapes
<1> USE <1>0 DEF Copied
<1>1. ASSUME NEW p \in Producers, StartPush(p) \/ Push(p) PROVE Copied'
  <2>1. CASE StartPush(p) BY <2>1 DEF StartPush
  <2>2. CASE LoadPos(p) BY <2>2 DEF LoadPos
  <2>3. CASE FindFree(p) BY <2>3 DEF FindFree, Distance
  <2>4. CASE FindFull(p) BY <2>4 DEF FindFull, Distance
  <2>5. CASE ClaimCell(p) BY <2>5 DEF ClaimCell
  <2>6. CASE WriteData(p)
    <3> DEFINE mine == producer[p].pos
    <3>1. Filling(p) /\ data' = [data EXCEPT ![CellOf(mine)] = producer[p].item]
          /\ UNCHANGED <<consumer, enqueuePos, dequeuePos>>
      BY <2>6 DEF WriteData, Filling
    <3>2. ASSUME consumer.at = "recycle" PROVE data'[CellOf(dequeuePos - 1)] = data[CellOf(dequeuePos - 1)]
      <4>1. OldestInUse = dequeuePos - 1 /\ dequeuePos - 1 \in Nat /\ dequeuePos <= mine /\ mine \in Nat
        BY <3>1, <3>2, FillersInWindow DEF OldestInUse
      <4>2. InWindow(dequeuePos - 1) /\ dequeuePos - 1 # mine
        BY <4>1, CapacityAssumption DEF InWindow
      <4>3. CellOf(dequeuePos - 1) # CellOf(mine)
        BY <3>1, <4>1, <4>2, FillersInWindow, OnePosition
      <4> QED BY <3>1, <4>1, <4>3, CellTypes
    <3> QED BY <3>1, <3>2
  <2>7. CASE Commit(p) BY <2>7 DEF Commit, CommitAs
  <2> QED BY <1>1, <2>1, <2>2, <2>3, <2>4, <2>5, <2>6, <2>7 DEF Push
<1>2. CASE StartPop BY <1>2 DEF StartPop
<1>3. CASE StartClear BY <1>3 DEF StartClear
<1>4. CASE ClaimNext
  <2>1. /\ consumer' = [consumer EXCEPT !.at = "copy"] /\ ~ AtBarrier
        /\ dequeuePos' = dequeuePos + 1 /\ UNCHANGED enqueuePos
    BY <1>4 DEF ClaimNext
  <2>2. consumer.call = "clear" => dequeuePos + 1 <= consumer.barrier
    BY <2>1 DEF AtBarrier
  <2> QED BY <2>1, <2>2
<1>5. CASE Finish BY <1>5 DEF Finish, FinishWith
<1>6. CASE CopyOut BY <1>6 DEF CopyOut
<1>7. CASE Recycle BY <1>7 DEF Recycle, RecycleFor
<1>8. CASE UNCHANGED vars BY <1>8 DEF vars
<1> QED BY <1>1, <1>2, <1>3, <1>4, <1>5, <1>6, <1>7, <1>8 DEF Next, Consume

-----------------------------------------------------------------------------
(* A position is claimed by a call, and by one.                            *)

LEMMA CountedStep == IInv /\ [Next]_vars => Counted'
<1> SUFFICES ASSUME IInv, [Next]_vars PROVE Counted'
  OBVIOUS
<1>0. /\ producer \in [Producers -> [at : {"idle", "load", "check", "claim", "write", "commit"},
                                     item : Items \cup {NoItem}, pos : Nat]]
      /\ IsFiniteSet(Pending) /\ Cardinality(Pending) \in Nat
      /\ calls \in Nat /\ enqueuePos \in Nat
      /\ enqueuePos + Cardinality(Pending) <= calls
  BY FS_CardinalityType, BoundsAssumption DEF IInv, Shapes, Positions, Counted
<1>1. ASSUME Pending' = Pending, UNCHANGED <<enqueuePos, calls>> PROVE Counted'
  BY <1>0, <1>1 DEF Counted
<1>2. ASSUME NEW p \in Producers, StartPush(p) \/ Push(p) PROVE Counted'
  <2>1. CASE StartPush(p)
    <3>1. Pending' = Pending \cup {p} /\ p \notin Pending
      BY <1>0, <2>1 DEF StartPush, Pending
    <3>2. IsFiniteSet(Pending') /\ Cardinality(Pending') = Cardinality(Pending) + 1
      BY <1>0, <3>1, FS_AddElement
    <3>3. calls' = calls + 1 /\ UNCHANGED enqueuePos
      BY <2>1 DEF StartPush, ring
    <3> QED BY <1>0, <3>2, <3>3 DEF Counted
  <2>2. CASE LoadPos(p)
    <3>1. Pending' = Pending
      BY <1>0, <2>2 DEF LoadPos, Pending
    <3> QED BY <2>2, <3>1, <1>1 DEF LoadPos, ring
  <2>3. CASE FindFree(p)
    <3>1. Pending' = Pending
      BY <1>0, <2>3 DEF FindFree, Pending
    <3> QED BY <2>3, <3>1, <1>1 DEF FindFree, ring
  <2>4. ASSUME FindFull(p) \/ (ClaimCell(p) /\ enqueuePos = producer[p].pos)
        PROVE  IsFiniteSet(Pending') /\ Cardinality(Pending') = Cardinality(Pending) - 1
    <3>1. Pending' = Pending \ {p} /\ p \in Pending
      BY <1>0, <2>4 DEF FindFull, ClaimCell, Pending, Idle
    <3> QED BY <1>0, <3>1, FS_RemoveElement
  <2>5. CASE FindFull(p)
    <3>1. UNCHANGED <<calls, enqueuePos>>
      BY <2>5 DEF FindFull, ring
    <3> QED BY <1>0, <2>4, <2>5, <3>1 DEF Counted
  <2>6. CASE ClaimCell(p)
    <3>1. CASE enqueuePos = producer[p].pos
      <4>1. enqueuePos' = enqueuePos + 1 /\ UNCHANGED calls
        BY <2>6, <3>1 DEF ClaimCell
      <4> QED BY <1>0, <2>4, <2>6, <3>1, <4>1 DEF Counted
    <3>2. CASE enqueuePos # producer[p].pos
      <4>1. Pending' = Pending
        BY <1>0, <2>6, <3>2 DEF ClaimCell, Pending
      <4> QED BY <2>6, <3>2, <4>1, <1>1 DEF ClaimCell
    <3> QED BY <3>1, <3>2
  <2>7. CASE WriteData(p)
    <3>1. Pending' = Pending
      BY <1>0, <2>7 DEF WriteData, Pending
    <3> QED BY <2>7, <3>1, <1>1 DEF WriteData
  <2>8. CASE Commit(p)
    <3>1. Pending' = Pending
      BY <1>0, <2>8 DEF Commit, CommitAs, Pending, Idle
    <3> QED BY <2>8, <3>1, <1>1 DEF Commit, CommitAs
  <2> QED BY <1>2, <2>1, <2>2, <2>3, <2>5, <2>6, <2>7, <2>8 DEF Push
<1>3. CASE StartClear \/ Consume
  <2>1. UNCHANGED <<producer, enqueuePos, calls>>
    BY <1>3 DEF StartClear, Consume, StartPop, ClaimNext, Finish, FinishWith, CopyOut, Recycle,
                RecycleFor, ring
  <2> QED BY <2>1, <1>1 DEF Pending
<1>4. CASE UNCHANGED vars
  BY <1>4, <1>1 DEF vars, Pending
<1> QED BY <1>2, <1>3, <1>4 DEF Next

-----------------------------------------------------------------------------
\* Sequence numbers, positions and what sleeping threads remember fit together at
\* every step of push, pop and clearEnqueuedBeforeNow.
THEOREM InductiveInvariant == Spec => []IInv
<1>1. IInv /\ [Next]_vars => IInv'
  BY ShapesStep, PositionsStep, WindowStep, PastStep, ClaimsStep, CopiedStep, CountedStep DEF IInv
<1> QED BY InitInvariant, <1>1, PTL DEF Spec

\* Every position is below the number of calls, every index in the ring, every
\* item that pop() returns one that was pushed.
THEOREM TypeCorrect == Spec => []TypeOK
<1>1. IInv => TypeOK
  <2> SUFFICES ASSUME IInv PROVE TypeOK
    OBVIOUS
  <2>1. enqueuePos \in 0 .. MaxPushes
    <3>1. /\ enqueuePos \in Nat /\ Cardinality(Pending) \in Nat /\ calls \in 0 .. MaxPushes
          /\ enqueuePos + Cardinality(Pending) <= calls
      BY FS_CardinalityType DEF IInv, Positions, Counted, Shapes
    <3> QED BY <3>1, BoundsAssumption
  <2>2. dequeuePos \in 0 .. enqueuePos /\ resetBarrier \in 0 .. enqueuePos
    BY DEF IInv, Positions
  <2>3. producer \in [Producers -> [at : {"idle", "load", "check", "claim", "write", "commit"},
                                   item : Items \cup {NoItem}, pos : 0 .. MaxPushes]]
    <3>1. \A p \in Producers : producer[p].pos \in 0 .. MaxPushes
      BY <2>1, BoundsAssumption DEF IInv, Shapes, Claims
    <3> QED BY <3>1 DEF IInv, Shapes
  <2>4. consumer \in [at : {"idle", "check", "copy", "recycle"}, call : {"pop", "clear"},
                     out : Items \cup {NoItem}, barrier : 0 .. enqueuePos]
    <3>1. consumer.barrier \in 0 .. enqueuePos
      BY <2>1 DEF IInv, Shapes, Copied
    <3> QED BY <3>1 DEF IInv, Shapes
  <2> QED BY <2>1, <2>2, <2>3, <2>4 DEF TypeOK, IInv, Shapes
<1> QED BY InductiveInvariant, <1>1, PTL

\* No two threads are at the plain data of one cell, whatever laps they are in.
THEOREM OneUser == Spec => []CellHasOneUser
<1>1. IInv => CellHasOneUser
  <2> SUFFICES ASSUME IInv PROVE CellHasOneUser
    OBVIOUS
  <2>1. ASSUME NEW p \in Producers, NEW q \in Producers, p # q, Filling(p), Filling(q)
        PROVE  CellOf(producer[p].pos) # CellOf(producer[q].pos)
    <3>1. producer[p].pos # producer[q].pos
      BY <2>1 DEF IInv, Claims
    <3> QED BY <2>1, <3>1, FillersInWindow, OnePosition
  <2>2. ASSUME consumer.at \in {"copy", "recycle"}, NEW p \in Producers, Filling(p)
        PROVE  CellOf(producer[p].pos) # CellOf(dequeuePos - 1)
    <3>1. OldestInUse = dequeuePos - 1 /\ dequeuePos - 1 \in Nat
      BY <2>2 DEF IInv, Positions, OldestInUse
    <3>2. InWindow(dequeuePos - 1) /\ dequeuePos - 1 # producer[p].pos
      BY <2>2, <3>1, FillersInWindow, CapacityAssumption DEF IInv, Positions, InWindow
    <3> QED BY <2>2, <3>1, <3>2, FillersInWindow, OnePosition
  <2> QED BY <2>1, <2>2 DEF CellHasOneUser
<1> QED BY InductiveInvariant, <1>1, PTL

\* A push that fails has found every cell in use.
THEOREM FullIsFull == Spec => []FullAnswerIsTrue
<1>1. IInv => FullAnswerIsTrue
  <2> SUFFICES ASSUME IInv, NEW p \in Producers, producer[p].at = "check", Distance(p) < 0
               PROVE  enqueuePos - OldestInUse = Capacity
    BY DEF FullAnswerIsTrue
  <2> DEFINE seen == producer[p].pos
  <2>1. /\ seen \in Nat /\ seen <= enqueuePos /\ enqueuePos \in Nat /\ OldestInUse \in Nat
        /\ Capacity \in Nat /\ enqueuePos <= OldestInUse + Capacity
    BY CapacityAssumption DEF IInv, Shapes, Claims, Positions
  <2>2. sequence[CellOf(seen)] \in Nat /\ sequence[CellOf(seen)] < seen
    <3>1. sequence[CellOf(seen)] \in Nat
      BY <2>1, CellTypes DEF IInv, Shapes
    <3> QED BY <3>1, <2>1 DEF Distance
  <2> HIDE DEF OldestInUse, seen
  <2>3. ~ seen < OldestInUse
    BY <2>1, <2>2 DEF IInv, Past
  <2>4. ~ InWindow(seen)
    BY <2>1, <2>2 DEF IInv, Window
  <2> QED BY <2>1, <2>3, <2>4 DEF InWindow
<1> QED BY InductiveInvariant, <1>1, PTL

-----------------------------------------------------------------------------
(* Sequences that a step makes longer or shorter by one.                   *)

LEMMA FunctionIsSequence ==
    ASSUME NEW S, NEW n \in Nat, NEW f \in [1 .. n -> S]
    PROVE  f \in Seq(S) /\ Len(f) = n
<1>1. f \in Seq(S)
  OBVIOUS
<1>2. Len(f) \in Nat /\ DOMAIN f = 1 .. Len(f)
  BY <1>1, LenProperties
<1>3. DOMAIN f = 1 .. n
  OBVIOUS
<1> QED BY <1>1, <1>2, <1>3

LEMMA LongerIsAppend ==
    ASSUME NEW S, NEW n \in Nat, NEW f \in [1 .. n -> S], NEW g \in [1 .. n + 1 -> S],
           \A i \in 1 .. n : g[i] = f[i]
    PROVE  g = Append(f, g[n + 1])
<1>1. /\ f \in Seq(S) /\ Len(f) = n /\ g \in Seq(S) /\ Len(g) = n + 1
      /\ g[n + 1] \in S
  BY FunctionIsSequence
<1>2. /\ Append(f, g[n + 1]) \in Seq(S) /\ Len(Append(f, g[n + 1])) = n + 1
      /\ \A i \in 1 .. n : Append(f, g[n + 1])[i] = f[i]
      /\ Append(f, g[n + 1])[n + 1] = g[n + 1]
  BY <1>1, AppendProperties
<1>3. \A i \in 1 .. n + 1 : i \in 1 .. n \/ i = n + 1
  OBVIOUS
<1>4. \A i \in 1 .. Len(g) : g[i] = Append(f, g[n + 1])[i]
  BY <1>1, <1>2, <1>3
<1>5. \A s, t \in Seq(S) : Len(s) = Len(t) /\ (\A i \in 1 .. Len(s) : s[i] = t[i]) => s = t
  BY SeqEqual
<1> QED BY <1>1, <1>2, <1>4, <1>5

LEMMA ShorterIsTail ==
    ASSUME NEW S, NEW n \in Nat, NEW f \in [1 .. n + 1 -> S], NEW g \in [1 .. n -> S],
           \A i \in 1 .. n : g[i] = f[i + 1]
    PROVE  f # <<>> /\ Head(f) = f[1] /\ g = Tail(f)
<1>1. f \in Seq(S) /\ Len(f) = n + 1 /\ g \in Seq(S) /\ Len(g) = n
  BY FunctionIsSequence
<1>2. f # <<>>
  BY <1>1, EmptySeq
<1>3. Tail(f) \in Seq(S) /\ Len(Tail(f)) = n /\ \A i \in 1 .. n : Tail(f)[i] = f[i + 1]
  BY <1>1, <1>2, HeadTailProperties
<1>4. \A s, t \in Seq(S) : Len(s) = Len(t) /\ (\A i \in 1 .. Len(s) : s[i] = t[i]) => s = t
  BY SeqEqual
<1>5. g = Tail(f)
  BY <1>1, <1>3, <1>4
<1>6. Head(f) = f[1]
  BY <1>1
<1> QED BY <1>2, <1>5, <1>6

-----------------------------------------------------------------------------
(* Implementation of IngressFifo.                                          *)

FillerOf(pos) == {p \in Producers : Filling(p) /\ producer[p].pos = pos}
Queue == [i \in 1 .. enqueuePos - Oldest |-> ItemAt(Oldest + i - 1)]
Stored == Items \cup {NoItem}

\* What lies at a position is its producer's until the commit, then its cell's.
Contents ==
    \A pos \in Nat :
        /\ \A p \in FillerOf(pos) : ItemAt(pos) = producer[p].item
        /\ FillerOf(pos) = {} => ItemAt(pos) = data[CellOf(pos)]
        /\ ItemAt(pos) \in Stored

LEMMA ContentsKnown == IInv => Contents
<1> SUFFICES ASSUME IInv, NEW pos \in Nat
             PROVE  /\ \A p \in FillerOf(pos) : ItemAt(pos) = producer[p].item
                    /\ FillerOf(pos) = {} => ItemAt(pos) = data[CellOf(pos)]
                    /\ ItemAt(pos) \in Stored
  BY DEF Contents
<1>1. ASSUME NEW p \in FillerOf(pos) PROVE ItemAt(pos) = producer[p].item
  <2>1. \A q \in Producers : Filling(q) /\ producer[q].pos = pos => q = p
    BY <1>1 DEF FillerOf, IInv, Claims
  <2> DEFINE filler == CHOOSE q \in Producers : Filling(q) /\ producer[q].pos = pos
  <2>2. filler \in Producers /\ Filling(filler) /\ producer[filler].pos = pos
    BY <1>1 DEF FillerOf
  <2>3. filler = p
    BY <2>1, <2>2
  <2> QED BY <1>1, <2>3 DEF ItemAt, FillerOf
<1>2. ASSUME FillerOf(pos) = {} PROVE ItemAt(pos) = data[CellOf(pos)]
  BY <1>2 DEF FillerOf, ItemAt
<1>3. ItemAt(pos) \in Stored
  <2>1. CASE FillerOf(pos) = {}
    BY <1>2, <2>1, CellTypes DEF IInv, Shapes, Stored
  <2>2. CASE FillerOf(pos) # {}
    <3>1. PICK p \in FillerOf(pos) : TRUE
      BY <2>2
    <3> QED BY <1>1, <3>1 DEF FillerOf, IInv, Shapes, Stored
  <2> QED BY <2>1, <2>2
<1> QED BY <1>1, <1>2, <1>3

\* No step changes what lies at a position between its claim and its return.
LEMMA ItemStable ==
    ASSUME IInv, Contents, Contents', [Next]_vars,
           NEW pos \in Nat, InWindow(pos), pos < enqueuePos
    PROVE  ItemAt(pos)' = ItemAt(pos)
<1>0. producer \in [Producers -> [at : {"idle", "load", "check", "claim", "write", "commit"},
                                  item : Items \cup {NoItem}, pos : Nat]]
  BY DEF IInv, Shapes
<1>1. ASSUME FillerOf(pos)' = FillerOf(pos),
             FillerOf(pos) = {} => data'[CellOf(pos)] = data[CellOf(pos)],
             \A p \in FillerOf(pos) : producer'[p].item = producer[p].item
      PROVE  ItemAt(pos)' = ItemAt(pos)
  <2>1. CASE FillerOf(pos) = {}
    BY <1>1, <2>1 DEF Contents
  <2>2. CASE FillerOf(pos) # {}
    BY <1>1, <2>2 DEF Contents
  <2> QED BY <2>1, <2>2
<1>2. ASSUME UNCHANGED <<data, producer>> PROVE ItemAt(pos)' = ItemAt(pos)
  BY <1>2 DEF ItemAt, Filling
<1>3. ASSUME NEW p \in Producers, ~ Filling(p), UNCHANGED data,
             \A q \in Producers \ {p} : producer'[q] = producer[q],
             Filling(p)' => producer'[p].pos # pos
      PROVE  ItemAt(pos)' = ItemAt(pos)
  <2>1. FillerOf(pos)' = FillerOf(pos)
    BY <1>3 DEF FillerOf, Filling
  <2>2. \A q \in FillerOf(pos) : producer'[q].item = producer[q].item
    BY <1>3 DEF FillerOf
  <2> QED BY <1>1, <1>3, <2>1, <2>2
<1>4. ASSUME NEW p \in Producers, StartPush(p) \/ Push(p) PROVE ItemAt(pos)' = ItemAt(pos)
  <2>1. CASE StartPush(p)
    BY <1>0, <1>3, <2>1 DEF StartPush, Filling, ring
  <2>2. CASE LoadPos(p)
    BY <1>0, <1>3, <2>2 DEF LoadPos, Filling, ring
  <2>3. CASE FindFree(p)
    BY <1>0, <1>3, <2>3 DEF FindFree, Filling, ring
  <2>4. CASE FindFull(p)
    BY <1>0, <1>3, <2>4 DEF FindFull, Filling, Idle, ring
  <2>5. CASE ClaimCell(p)
    <3>1. producer'[p].pos = enqueuePos
      <4>1. CASE enqueuePos = producer[p].pos
        <5>1. producer' = [producer EXCEPT ![p].at = "write"]
          BY <2>5, <4>1 DEF ClaimCell
        <5> QED BY <1>0, <4>1, <5>1
      <4>2. CASE enqueuePos # producer[p].pos
        <5>1. producer' = [producer EXCEPT ![p] = [@ EXCEPT !.at = "check", !.pos = enqueuePos]]
          BY <2>5, <4>2 DEF ClaimCell
        <5> QED BY <1>0, <5>1
      <4> QED BY <4>1, <4>2
    <3>2. producer'[p].pos # pos
      BY <3>1 DEF IInv, Positions
    <3> QED BY <1>0, <1>3, <2>5, <3>2 DEF ClaimCell, Filling
  <2>6. CASE WriteData(p)
    <3> DEFINE mine == producer[p].pos
    <3>1. /\ Filling(p) /\ data' = [data EXCEPT ![CellOf(mine)] = producer[p].item]
          /\ producer' = [producer EXCEPT ![p].at = "commit"]
      BY <2>6 DEF WriteData, Filling
    <3>2. FillerOf(pos)' = FillerOf(pos)
      BY <1>0, <2>6 DEF WriteData, FillerOf, Filling
    <3>3. \A q \in FillerOf(pos) : producer'[q].item = producer[q].item
      BY <1>0, <3>1 DEF FillerOf
    <3>4. ASSUME FillerOf(pos) = {} PROVE data'[CellOf(pos)] = data[CellOf(pos)]
      <4>1. mine # pos
        BY <3>1, <3>4 DEF FillerOf
      <4>2. CellOf(mine) # CellOf(pos)
        BY <3>1, <4>1, FillersInWindow, OnePosition
      <4> QED BY <3>1, <4>2, CellTypes DEF IInv, Shapes
    <3> QED BY <1>1, <3>2, <3>3, <3>4
  <2>7. CASE Commit(p)
    <3> DEFINE mine == producer[p].pos
    <3>1. /\ Filling(p) /\ UNCHANGED data /\ producer' = [producer EXCEPT ![p] = Idle]
          /\ data[CellOf(mine)] = producer[p].item
      BY <2>7 DEF Commit, CommitAs, Filling, IInv, Claims
    <3>2. FillerOf(pos)' = FillerOf(pos) \ {p}
      BY <1>0, <3>1 DEF FillerOf, Filling, Idle
    <3>3. CASE mine = pos
      <4>1. FillerOf(pos) = {p}
        BY <3>1, <3>3 DEF FillerOf, IInv, Claims
      <4> QED BY <3>1, <3>2, <3>3, <4>1 DEF Contents
    <3>4. CASE mine # pos
      <4>1. FillerOf(pos)' = FillerOf(pos) /\ p \notin FillerOf(pos)
        BY <3>2, <3>4 DEF FillerOf
      <4>2. \A q \in FillerOf(pos) : producer'[q].item = producer[q].item
        BY <1>0, <3>1, <4>1 DEF FillerOf
      <4> QED BY <3>1, <4>1, <4>2, <1>1
    <3> QED BY <3>3, <3>4
  <2> QED BY <1>4, <2>1, <2>2, <2>3, <2>4, <2>5, <2>6, <2>7 DEF Push
<1>5. CASE StartClear \/ Consume
  BY <1>2, <1>5 DEF StartClear, Consume, StartPop, ClaimNext, Finish, FinishWith, CopyOut,
                    Recycle, RecycleFor, ring
<1>6. CASE UNCHANGED vars
  BY <1>2, <1>6 DEF vars
<1> QED BY <1>4, <1>5, <1>6 DEF Next

\* The queue's positions are a part of the window.
LEMMA OldestTypes ==
    ASSUME IInv
    PROVE  /\ OldestInUse \in Nat /\ Barrier \in Nat /\ Oldest \in Nat /\ enqueuePos \in Nat
           /\ OldestInUse <= Oldest /\ Barrier <= Oldest /\ Oldest <= enqueuePos
           /\ Oldest \in {OldestInUse, Barrier}
           /\ enqueuePos <= OldestInUse + Capacity /\ OldestInUse <= enqueuePos
           /\ Capacity \in Nat
<1>1. /\ OldestInUse \in Nat /\ enqueuePos \in Nat /\ OldestInUse <= enqueuePos
      /\ enqueuePos <= OldestInUse + Capacity
  BY DEF IInv, Positions, OldestInUse
<1>2. Barrier \in Nat /\ Barrier <= enqueuePos
  BY DEF IInv, Positions, Copied, Shapes, Barrier
<1> HIDE DEF OldestInUse, Barrier
<1> QED BY <1>1, <1>2, CapacityAssumption DEF Oldest

LEMMA QueueTypes ==
    ASSUME IInv
    PROVE  /\ enqueuePos - Oldest \in Nat
           /\ Queue \in [1 .. enqueuePos - Oldest -> Stored]
           /\ Queue \in Seq(Stored) /\ Len(Queue) = enqueuePos - Oldest
<1>1. enqueuePos - Oldest \in Nat /\ Oldest \in Nat
  BY OldestTypes
<1>2. \A i \in 1 .. enqueuePos - Oldest : Oldest + i - 1 \in Nat
  BY <1>1
<1>3. Queue \in [1 .. enqueuePos - Oldest -> Stored]
  BY <1>2, ContentsKnown DEF Queue, Contents
<1> QED BY <1>1, <1>3, FunctionIsSequence

\* What the queue says of its length and its items, in a form that can be primed.
Held == [pos \in Nat |-> ItemAt(pos)]
Queued ==
    /\ Oldest \in Nat /\ enqueuePos - Oldest \in Nat
    /\ Queue \in [1 .. enqueuePos - Oldest -> Stored]
    /\ \A i \in 1 .. enqueuePos - Oldest : Queue[i] = Held[Oldest + i - 1]

LEMMA QueuedKnown == IInv => Queued
<1> SUFFICES ASSUME IInv PROVE Queued
  OBVIOUS
<1>1. /\ Oldest \in Nat /\ enqueuePos - Oldest \in Nat
      /\ Queue \in [1 .. enqueuePos - Oldest -> Stored]
  BY QueueTypes, OldestTypes
<1>2. ASSUME NEW i \in 1 .. enqueuePos - Oldest PROVE Queue[i] = Held[Oldest + i - 1]
  <2>1. Oldest + i - 1 \in Nat
    BY <1>1
  <2> QED BY <2>1 DEF Queue, Held
<1> QED BY <1>1, <1>2 DEF Queued

\* A step keeps what it does not take out.
LEMMA HeldStable ==
    ASSUME IInv, Contents, Contents', [Next]_vars,
           NEW pos \in Nat, OldestInUse <= pos, pos < enqueuePos
    PROVE  Held'[pos] = Held[pos]
<1>1. InWindow(pos)
  <2> HIDE DEF OldestInUse
  <2> QED BY OldestTypes DEF InWindow
<1>2. ItemAt(pos)' = ItemAt(pos)
  BY <1>1, ItemStable
<1> QED BY <1>2 DEF Held

\* As long as the oldest position and the number of claims stay, so does the queue.
LEMMA QueueUnchanged ==
    ASSUME IInv, Contents, Contents', Queued, Queued', [Next]_vars,
           UNCHANGED enqueuePos, Oldest' = Oldest
    PROVE  Queue' = Queue
<1>1. ASSUME NEW i \in 1 .. enqueuePos - Oldest PROVE Held'[Oldest + i - 1] = Held[Oldest + i - 1]
  <2>1. \E pos \in Nat : pos = Oldest + i - 1 /\ OldestInUse <= pos /\ pos < enqueuePos
    <3> HIDE DEF Oldest, OldestInUse
    <3> QED BY OldestTypes
  <2> QED BY <2>1, HeldStable
<1> HIDE DEF Oldest, Queue, Held
<1> QED BY <1>1 DEF Queued

\* One more claim adds its item at the end.
LEMMA QueueLonger ==
    ASSUME IInv, Contents, Contents', Queued, Queued', [Next]_vars,
           enqueuePos' = enqueuePos + 1, Oldest' = Oldest
    PROVE  Queue' = Append(Queue, Held'[enqueuePos])
<1>1. ASSUME NEW i \in 1 .. enqueuePos - Oldest PROVE Held'[Oldest + i - 1] = Held[Oldest + i - 1]
  <2>1. \E pos \in Nat : pos = Oldest + i - 1 /\ OldestInUse <= pos /\ pos < enqueuePos
    <3> HIDE DEF Oldest, OldestInUse
    <3> QED BY OldestTypes
  <2> QED BY <2>1, HeldStable
<1> HIDE DEF Oldest, Queue, Held
<1>2. enqueuePos - Oldest \in Nat /\ Oldest \in Nat /\ enqueuePos \in Nat
  BY OldestTypes
<1>3. enqueuePos' - Oldest' = enqueuePos - Oldest + 1
  BY <1>2
<1>4. /\ Queue \in [1 .. enqueuePos - Oldest -> Stored]
      /\ Queue' \in [1 .. enqueuePos - Oldest + 1 -> Stored]
  BY <1>3 DEF Queued
<1>5. ASSUME NEW i \in 1 .. enqueuePos - Oldest PROVE Queue'[i] = Queue[i]
  <2>1. i \in 1 .. enqueuePos' - Oldest'
    BY <1>2, <1>3
  <2>2. Queue'[i] = Held'[Oldest + i - 1]
    BY <2>1 DEF Queued
  <2> QED BY <1>1, <2>2 DEF Queued
<1>6. Queue'[enqueuePos - Oldest + 1] = Held'[enqueuePos]
  BY <1>2, <1>3 DEF Queued
<1> QED BY <1>2, <1>4, <1>5, <1>6, LongerIsAppend

\* A position that is given back was the head of the queue.
LEMMA QueueShorter ==
    ASSUME IInv, Contents, Contents', Queued, Queued', [Next]_vars,
           UNCHANGED enqueuePos, Oldest' = Oldest + 1, Oldest < enqueuePos
    PROVE  Queue # <<>> /\ Head(Queue) = Held[Oldest] /\ Queue' = Tail(Queue)
<1>1. ASSUME NEW i \in 1 .. enqueuePos - Oldest - 1 PROVE Held'[Oldest + i] = Held[Oldest + i]
  <2>1. \E pos \in Nat : pos = Oldest + i /\ OldestInUse <= pos /\ pos < enqueuePos
    <3> HIDE DEF Oldest, OldestInUse
    <3> QED BY OldestTypes
  <2> QED BY <2>1, HeldStable
<1> HIDE DEF Oldest, Queue, Held
<1> DEFINE n == enqueuePos - Oldest - 1
<1>2. Oldest \in Nat /\ enqueuePos \in Nat /\ n \in Nat
      /\ enqueuePos - Oldest = n + 1 /\ enqueuePos' - Oldest' = n
  BY OldestTypes
<1>3. Queue \in [1 .. n + 1 -> Stored] /\ Queue' \in [1 .. n -> Stored]
  BY <1>2 DEF Queued
<1>4. ASSUME NEW i \in 1 .. n PROVE Queue'[i] = Queue[i + 1]
  <2>1. Queue'[i] = Held'[Oldest + 1 + i - 1]
    BY <1>2 DEF Queued
  <2>2. i + 1 \in 1 .. n + 1 /\ Oldest + 1 + i - 1 = Oldest + i /\ Oldest + (i + 1) - 1 = Oldest + i
    BY <1>2
  <2>3. Queue[i + 1] = Held[Oldest + (i + 1) - 1]
    BY <1>2, <2>2 DEF Queued
  <2> QED BY <1>1, <2>1, <2>2, <2>3
<1>5. Queue[1] = Held[Oldest]
  <2>1. 1 \in 1 .. n + 1 /\ Oldest + 1 - 1 = Oldest
    BY <1>2
  <2> QED BY <1>2, <2>1 DEF Queued
<1> HIDE DEF n
<1> QED BY <1>2, <1>3, <1>4, <1>5, ShorterIsTail

LEMMA InitRefines == Init => Fifo!FifoInit
<1> SUFFICES ASSUME Init PROVE Queue = <<>> /\ delivered = <<>>
  BY DEF Fifo!FifoInit, Queue
<1>1. enqueuePos - Oldest = 0
  BY DEF Init, Oldest, OldestInUse, Barrier
<1> QED BY <1>1 DEF Queue, Init

FifoStep ==
    \/ Len(Queue) < Capacity /\ (\E i \in Items : Queue' = Append(Queue, i)) /\ UNCHANGED delivered
    \/ Queue # <<>> /\ delivered' = Append(delivered, Head(Queue)) /\ Queue' = Tail(Queue)
    \/ Queue' = <<>> /\ UNCHANGED delivered
    \/ UNCHANGED <<Queue, delivered>>

LEMMA StepRefines ==
    ASSUME IInv, IInv', Contents, Contents', Queued, Queued', [Next]_vars
    PROVE  FifoStep
<1> USE DEF ring
<1>0. /\ OldestInUse \in Nat /\ Barrier \in Nat /\ Oldest \in Nat /\ enqueuePos \in Nat
      /\ OldestInUse <= Oldest /\ Barrier <= Oldest /\ Oldest <= enqueuePos
      /\ Oldest \in {OldestInUse, Barrier}
      /\ enqueuePos <= OldestInUse + Capacity /\ OldestInUse <= enqueuePos /\ Capacity \in Nat
      /\ Len(Queue) = enqueuePos - Oldest
  BY OldestTypes, QueueTypes
\* Only a claim, a barrier and a return change the queue.
<1>1. ASSUME UNCHANGED <<enqueuePos, delivered>>, OldestInUse' = OldestInUse, Barrier' = Barrier
      PROVE  FifoStep
  <2>1. Oldest' = Oldest
    BY <1>1 DEF Oldest
  <2> QED BY <1>1, <2>1, QueueUnchanged DEF FifoStep
<1>2. ASSUME UNCHANGED <<consumer, dequeuePos, resetBarrier>>
      PROVE  OldestInUse' = OldestInUse /\ Barrier' = Barrier
  BY <1>2 DEF OldestInUse, Barrier
<1>3. ASSUME NEW p \in Producers, StartPush(p) \/ Push(p) PROVE FifoStep
  <2>1. CASE ClaimCell(p) /\ enqueuePos = producer[p].pos
    <3>1. /\ enqueuePos' = enqueuePos + 1 /\ producer' = [producer EXCEPT ![p].at = "write"]
          /\ producer[p].at = "claim" /\ UNCHANGED <<consumer, dequeuePos, resetBarrier, delivered>>
      BY <2>1 DEF ClaimCell
    <3>2. Oldest' = Oldest
      BY <1>2, <3>1 DEF Oldest
    <3>3. Queue' = Append(Queue, Held'[enqueuePos])
      BY <3>1, <3>2, QueueLonger
    <3>4. /\ producer'[p].at = "write" /\ producer'[p].pos = enqueuePos
          /\ producer'[p].item = producer[p].item /\ producer[p].item \in Items
      BY <2>1, <3>1 DEF IInv, Shapes, Claims
    <3>5. Held'[enqueuePos] = producer[p].item
      <4>1. \A pos \in Nat : pos = enqueuePos => p \in FillerOf(pos)'
        BY <3>4 DEF FillerOf, Filling
      <4>2. \A pos \in Nat : pos = enqueuePos => Held'[pos] = producer'[p].item
        BY <4>1 DEF Contents, Held
      <4> QED BY <1>0, <3>4, <4>2
    <3>6. Len(Queue) < Capacity
      <4>1. enqueuePos < OldestInUse + Capacity
        BY <2>1, <3>1 DEF IInv, Claims
      <4> HIDE DEF OldestInUse, Oldest, Queue
      <4> QED BY <1>0, <4>1
    <3> QED BY <3>1, <3>3, <3>4, <3>5, <3>6 DEF FifoStep
  <2>2. CASE ~ (ClaimCell(p) /\ enqueuePos = producer[p].pos)
    <3>1. UNCHANGED <<enqueuePos, delivered, consumer, dequeuePos, resetBarrier>>
      BY <1>3, <2>2 DEF StartPush, Push, LoadPos, FindFree, FindFull, ClaimCell, WriteData, Commit,
                        CommitAs
    <3> QED BY <1>1, <1>2, <3>1
  <2> QED BY <2>1, <2>2
<1>4. CASE StartPop
  <2>1. OldestInUse' = OldestInUse /\ Barrier' = Barrier
    BY <1>4 DEF StartPop, OldestInUse, Barrier, IInv, Shapes
  <2> QED BY <1>1, <1>4, <2>1 DEF StartPop
<1>5. CASE StartClear
  <2>1. /\ consumer' = [consumer EXCEPT !.at = "check", !.call = "clear", !.barrier = enqueuePos]
        /\ UNCHANGED <<enqueuePos, dequeuePos, delivered>>
    BY <1>5 DEF StartClear
  <2>2. consumer' = [at |-> "check", call |-> "clear", out |-> consumer.out, barrier |-> enqueuePos]
    BY <2>1 DEF IInv, Shapes
  <2>3. Barrier' = enqueuePos /\ OldestInUse' = dequeuePos
    BY <2>1, <2>2 DEF Barrier, OldestInUse
  <2>4. Oldest' = enqueuePos
    BY <2>3, <1>0 DEF Oldest, IInv, Positions
  <2>5. Queue' = <<>>
    <3>1. enqueuePos' - Oldest' = 0
      BY <2>1, <2>4, <1>0
    <3> QED BY <3>1 DEF Queue
  <2> QED BY <2>1, <2>5 DEF FifoStep
<1>6. CASE ClaimNext
  <2>1. OldestInUse' = OldestInUse /\ Barrier' = Barrier
    BY <1>6 DEF ClaimNext, OldestInUse, Barrier, IInv, Shapes, Positions
  <2> QED BY <1>1, <1>6, <2>1 DEF ClaimNext
<1>7. CASE Finish
  <2>1. OldestInUse' = OldestInUse /\ Barrier' = Barrier
    BY <1>7 DEF Finish, FinishWith, OldestInUse, Barrier, IInv, Shapes
  <2> QED BY <1>1, <1>7, <2>1 DEF Finish, FinishWith
<1>8. CASE CopyOut
  <2>1. OldestInUse' = OldestInUse /\ Barrier' = Barrier
    BY <1>8 DEF CopyOut, OldestInUse, Barrier, IInv, Shapes
  <2> QED BY <1>1, <1>8, <2>1 DEF CopyOut
<1>9. CASE Recycle
  <2> DEFINE last == dequeuePos - 1
             returned == consumer.call = "pop" /\ last >= resetBarrier
  <2>1. /\ consumer.at = "recycle" /\ last \in Nat /\ OldestInUse = last
        /\ OldestInUse' = last + 1 /\ last < enqueuePos
        /\ UNCHANGED <<enqueuePos, dequeuePos, resetBarrier>>
        /\ delivered' = IF returned THEN Append(delivered, consumer.out) ELSE delivered
        /\ consumer' = [consumer EXCEPT !.at = IF returned THEN "idle" ELSE "check"]
    BY <1>9 DEF Recycle, RecycleFor, OldestInUse, IInv, Positions
  <2>2. /\ consumer'.at = (IF returned THEN "idle" ELSE "check")
        /\ consumer'.call = consumer.call /\ consumer'.barrier = consumer.barrier
    BY <2>1 DEF IInv, Shapes
  <2>3. CASE returned
    <3>1. Barrier = resetBarrier /\ Barrier' = resetBarrier
      BY <2>1, <2>2, <2>3 DEF Barrier
    <3>2. Oldest = last /\ Oldest' = last + 1
      <4>1. resetBarrier \in Nat /\ last >= resetBarrier
        BY <2>3 DEF IInv, Positions
      <4> HIDE DEF last, OldestInUse, Barrier
      <4> QED BY <2>1, <3>1, <4>1 DEF Oldest
    <3>3. Queue # <<>> /\ Head(Queue) = Held[last] /\ Queue' = Tail(Queue)
      <4> HIDE DEF last, Oldest, Queue, Held
      <4> QED BY <2>1, <3>2, QueueShorter
    <3>4. Held[last] = consumer.out
      <4>1. FillerOf(last) = {}
        <5>1. ASSUME NEW p \in Producers, Filling(p) PROVE producer[p].pos # last
          <6>1. dequeuePos <= producer[p].pos /\ producer[p].pos \in Nat /\ dequeuePos \in Nat
            BY <5>1, FillersInWindow DEF IInv, Positions
          <6> QED BY <6>1
        <5> QED BY <5>1 DEF FillerOf
      <4>2. Held[last] = data[CellOf(last)]
        BY <2>1, <4>1 DEF Contents, Held
      <4> QED BY <2>1, <4>2 DEF IInv, Copied
    <3> QED BY <2>1, <2>3, <3>3, <3>4 DEF FifoStep
  <2>4. CASE ~ returned
    <3>1. Barrier' = Barrier /\ last + 1 <= Barrier
      <4>1. CASE consumer.call = "clear"
        <5>1. Barrier = consumer.barrier /\ dequeuePos <= consumer.barrier
          BY <2>1, <4>1 DEF Barrier, IInv, Copied
        <5>2. Barrier' = consumer.barrier
          BY <2>2, <4>1 DEF Barrier
        <5>3. dequeuePos \in Nat /\ consumer.barrier \in Nat /\ last + 1 = dequeuePos
          BY DEF IInv, Positions, Shapes
        <5> HIDE DEF last, Barrier
        <5> QED BY <5>1, <5>2, <5>3
      <4>2. CASE consumer.call = "pop"
        <5>1. ~ last >= resetBarrier
          BY <2>4, <4>2
        <5> QED BY <2>1, <2>2, <4>2, <5>1 DEF Barrier, IInv, Positions
      <4> QED BY <4>1, <4>2 DEF IInv, Shapes
    <3>2. Oldest' = Oldest
      <4> HIDE DEF last, OldestInUse, Barrier
      <4> QED BY <1>0, <2>1, <3>1 DEF Oldest
    <3>3. UNCHANGED delivered
      BY <2>1, <2>4
    <3> QED BY <2>1, <3>2, <3>3, QueueUnchanged DEF FifoStep
  <2> QED BY <2>3, <2>4
<1>10. CASE UNCHANGED vars
  BY <1>1, <1>2, <1>10 DEF vars
<1> QED BY <1>3, <1>4, <1>5, <1>6, <1>7, <1>8, <1>9, <1>10 DEF Next, Consume

\* The ring is a bounded first-in first-out queue with an indivisible clear.
THEOREM Refinement == Spec => ImplementsFifo
<1>1. FifoStep => [Fifo!Accept \/ Fifo!Deliver \/ Fifo!Clear]_(Fifo!fifoVars)
  BY DEF FifoStep, Queue, Fifo!Accept, Fifo!Deliver, Fifo!Clear, Fifo!fifoVars
<1>2. IInv /\ IInv' /\ [Next]_vars => [Fifo!Accept \/ Fifo!Deliver \/ Fifo!Clear]_(Fifo!fifoVars)
  <2>1. (IInv => Contents /\ Queued) /\ (IInv' => Contents' /\ Queued')
    BY ContentsKnown, QueuedKnown, PTL
  <2> QED BY <1>1, <2>1, StepRefines
<1> QED BY InitRefines, InductiveInvariant, <1>2, PTL DEF Spec, ImplementsFifo, Fifo!FifoSpec
=============================================================================
