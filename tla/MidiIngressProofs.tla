-------------------------- MODULE MidiIngressProofs --------------------------
(***************************************************************************)
(* Proofs about MidiIngress for every number of voices, messages and       *)
(* restores, every ring and every limit of latched releases.  Both of its  *)
(* invariants compare what the player holds with what the mirror and the   *)
(* voices will hold once the messages under way have arrived: presses and  *)
(* releases are counted at each place where they can be.  Without a        *)
(* phantom the mirror is exact (MirrorInv); without a lost press the       *)
(* mirror and the voices hold at least what the player holds (HeldInv).    *)
(***************************************************************************)
EXTENDS MidiIngress, FiniteSetTheorems, FunctionTheorems, SequenceTheorems, NaturalsInduction, TLAPS

LaneEvents == [class : 0 .. 4, message : Messages]

\* The stores of a release, and those of the other messages, that may be still to be done.
ReleaseTodos == {<<"count", "read", "write">>, <<"read", "write">>, <<"write">>}
PedalTodos == {<<"pedal">>, <<"pedal", "sustain", "dirty">>, <<"sustain", "dirty">>, <<"dirty">>,
               <<"pedal", "sustain", "dirty", "off">>, <<"sustain", "dirty", "off">>,
               <<"dirty", "off">>, <<"off">>, <<"pedal", "reset">>, <<"reset">>}
CleanupTodos == {<<"bump">>, <<"bump", "notesOff", "bump">>, <<"notesOff", "bump">>}

SetupShape == setup \in [capacity : RingCapacities, stamped : BOOLEAN]
PlayerShape == player \in [key : BOOLEAN, pedal : BOOLEAN, sent : 0 .. MaxMessages]
SenderShape ==
    /\ sender \in [message : Messages, todo : {<<>>} \cup ReleaseTodos \cup PedalTodos \cup CleanupTodos,
                   gen : Nat, depth : Nat]
    /\ sender.todo \in ReleaseTodos => sender.message = "off"
    /\ sender.todo \in PedalTodos => sender.message \in Pedals
    /\ sender.todo \in CleanupTodos => sender.message = "notesOff"
RingShape == ring \in Seq(Messages) /\ Len(ring) <= setup.capacity
LatchShape == latch \in [noteOffs : 0 .. DroppedLimit, notesOff : BOOLEAN, reset : BOOLEAN,
                         sustain : BOOLEAN, dirty : BOOLEAN, off : BOOLEAN]
MirrorShape == mirror \in [gen : Nat, noteGen : Nat, depth : Nat, pedal : BOOLEAN]
RenderShape ==
    /\ render \in [pc : {"idle", "scrub", "critical", "pop", "mirror", "play", "tune"},
                   message : {"on", "off"}, gen : Nat, depth : Nat, lane : Seq(LaneEvents),
                   due : Seq(Messages), restores : Nat, bypassed : BOOLEAN,
                   tunes : 0 .. MaxTunes]
    /\ render.pc # "play" => render.due = <<>>
    /\ render.pc \in {"idle", "scrub", "play", "tune"} => render.lane = <<>> \/ render.bypassed
HistoryShape == history \subseteq Excuses /\ (render.bypassed => "bypassed" \in history)

\* The voices belong to the one channel and note, no sostenuto pedal is down.
OwnVoice(v) ==
    /\ v.keyDown => v.isActive
    /\ v.isActive => v.note = note /\ v.channel = channel
    /\ v.id = Anonymous /\ ~ v.isSostenuto
Own(p) == p \in Pools /\ \A i \in Slots : OwnVoice(p.slot[i])
PoolShape == Own(pool)

Shapes == /\ SetupShape /\ PlayerShape /\ SenderShape /\ RingShape /\ LatchShape
          /\ MirrorShape /\ RenderShape /\ PoolShape /\ HistoryShape

MessagesOf(lane) == [k \in DOMAIN lane |-> lane[k].message]

\* How often a message is in a sequence from a place on.
Times(s, m, k) == Cardinality({j \in k .. Len(s) : s[j] = m})
Bit(b) == IF b THEN 1 ELSE 0
Key == Bit(player.key)
Queued(m) == Times(ring, m, 1)
Mirroring(m) == Bit(render.pc = "mirror" /\ render.message = m)
Laid(m) == Times(MessagesOf(render.lane), m, 1) + Times(render.due, m, 1)
Latching == sender.todo \in ReleaseTodos
Counting == Bit(sender.todo = <<"count", "read", "write">>)
Reading == Bit(sender.todo \in {<<"count", "read", "write">>, <<"read", "write">>})
KeysDown(p) == Cardinality({i \in Slots : p.slot[i].keyDown})

\* Without a cleanup of the channel the generations stand still.
Uncleaned ==
    /\ mirror.gen = 0 /\ mirror.noteGen = 0 /\ sender.gen = 0 /\ render.gen = 0
    /\ ~ latch.notesOff /\ sender.message # "notesOff"
    /\ Queued("notesOff") = 0 /\ Laid("notesOff") = 0

ReleasedKey == Latching => ~ player.key

-----------------------------------------------------------------------------
(* The mirror.                                                             *)

\* The depth of the mirror before message k of the ring is mirrored.
DepthBefore(k) == Key + Times(ring, "off", k) - Times(ring, "on", k)
DepthBeforeThis == DepthBefore(1) + Mirroring("off") - Mirroring("on")

MirrorExcuses == {"pressLost", "killed", "phantom", "scrubbed", "bypassed"}

MirrorInv ==
    /\ \A k \in 1 .. Len(ring) + 1 : DepthBefore(k) \in {0, 1}
    /\ DepthBeforeThis \in {0, 1}
    /\ ~ Latching => mirror.depth = DepthBeforeThis
    /\ render.pc = "mirror" => ~ Latching /\ render.depth = DepthBeforeThis
    /\ Latching => Queued("on") = 0 /\ Queued("off") = 0 /\ mirror.depth = 1
    /\ sender.todo = <<"write">> => sender.depth = 1

-----------------------------------------------------------------------------
(* The voices.                                                             *)

Slack == Bit(~ player.key /\ ~ Latching)

Alternate ==
    /\ \A k \in 1 .. Len(ring) + 1 : Times(ring, "off", k) <= Times(ring, "on", k) + Slack
    /\ Queued("off") + Mirroring("off") <= Queued("on") + Mirroring("on") + Slack

MirrorHolds ==
    Key + Queued("off") + Mirroring("off") + Reading
        <= mirror.depth + Queued("on") + Mirroring("on")

MirrorWillHold ==
    render.pc = "mirror" =>
        Key + Queued("off") + Reading <= NextDepth(render.message, render.depth) + Queued("on")

ReplayHolds == render.pc = "scrub" /\ ring = <<>> => Key <= render.depth

VoicesHold ==
    render.pc # "scrub" =>
        Key + Queued("off") + Mirroring("off") + Laid("off") + latch.noteOffs + Counting
            <= KeysDown(pool) + Queued("on") + Mirroring("on") + Laid("on")

HeldExcuses == {"pressLost", "killed", "doubled", "orphaned", "scrubbed", "stolen", "bypassed"}

HeldInv == Alternate /\ MirrorHolds /\ MirrorWillHold /\ ReplayHolds /\ VoicesHold

IInv == /\ Shapes /\ ReleasedKey
        /\ history \cap {"killed", "bypassed"} = {} => Uncleaned
        /\ history \cap MirrorExcuses = {} => MirrorInv
        /\ history \cap HeldExcuses = {} => HeldInv

-----------------------------------------------------------------------------
(* Counting messages.                                                      *)

LEMMA Matched ==
    ASSUME NEW A, NEW B, IsFiniteSet(A), NEW f \in [A -> B],
           \A i, j \in A : f[i] = f[j] => i = j,
           \A j \in B : \E i \in A : f[i] = j
    PROVE  IsFiniteSet(B) /\ Cardinality(A) = Cardinality(B)
<1>1. f \in Bijection(A, B)
  BY Fun_IsBij
<1> QED BY <1>1, FS_Bijection DEF ExistsBijection

LEMMA TimesType ==
    ASSUME NEW S, NEW s \in Seq(S), NEW m, NEW k \in Nat
    PROVE  IsFiniteSet({j \in k .. Len(s) : s[j] = m}) /\ Times(s, m, k) \in Nat
<1>1. Len(s) \in Nat
  BY LenProperties
<1>2. IsFiniteSet(k .. Len(s)) /\ {j \in k .. Len(s) : s[j] = m} \in SUBSET (k .. Len(s))
  BY <1>1, FS_Interval
<1>3. IsFiniteSet({j \in k .. Len(s) : s[j] = m})
  BY <1>2, FS_Subset
<1> QED BY <1>3, FS_CardinalityType DEF Times

LEMMA TimesEmpty ==
    /\ \A m : Times(<<>>, m, 1) = 0
    /\ \A S : \A s \in Seq(S) : \A m : Times(s, m, Len(s) + 1) = 0
<1>1. ASSUME NEW S, NEW s \in Seq(S), NEW m PROVE Times(s, m, Len(s) + 1) = 0
  <2>1. {j \in Len(s) + 1 .. Len(s) : s[j] = m} = {}
    BY LenProperties
  <2> QED BY <2>1, FS_EmptySet DEF Times
<1>2. <<>> \in Seq({}) /\ Len(<<>>) + 1 = 1
  BY EmptySeq
<1> QED BY <1>1, <1>2

LEMMA TimesAppend ==
    ASSUME NEW S, NEW s \in Seq(S), NEW e \in S, NEW m, NEW k \in 1 .. Len(s) + 1
    PROVE  Times(Append(s, e), m, k) = Times(s, m, k) + Bit(e = m)
<1> DEFINE A == {j \in k .. Len(s) : s[j] = m}
           B == {j \in k .. Len(Append(s, e)) : Append(s, e)[j] = m}
<1>1. /\ Len(s) \in Nat /\ Len(Append(s, e)) = Len(s) + 1
      /\ \A i \in 1 .. Len(s) : Append(s, e)[i] = s[i]
      /\ Append(s, e)[Len(s) + 1] = e
  BY AppendProperties, LenProperties
<1>2. k \in Nat
  BY <1>1
<1>5. IsFiniteSet(A) /\ Cardinality(A) \in Nat
  BY <1>2, TimesType DEF Times
<1>3. CASE e = m
  <2>1. B = A \cup {Len(s) + 1} /\ Len(s) + 1 \notin A
    BY <1>1, <1>2, <1>3
  <2> QED BY <1>5, <1>3, <2>1, FS_AddElement DEF Times, Bit
<1>4. CASE e # m
  <2>1. B = A
    BY <1>1, <1>2, <1>4
  <2>2. Bit(e = m) = 0
    BY <1>4 DEF Bit
  <2>3. Times(Append(s, e), m, k) = Cardinality(B) /\ Times(s, m, k) = Cardinality(A)
    BY DEF Times
  <2> HIDE DEF A, B
  <2> QED BY <1>5, <2>1, <2>2, <2>3
<1> QED BY <1>3, <1>4

LEMMA TimesOfTail ==
    ASSUME NEW S, NEW s \in Seq(S), s # <<>>, NEW m, NEW k \in Nat, k > 0
    PROVE  Times(Tail(s), m, k) = Times(s, m, k + 1)
<1>1. /\ Len(s) \in Nat \ {0} /\ Head(s) = s[1] /\ Tail(s) \in Seq(S) /\ Len(Tail(s)) = Len(s) - 1
      /\ \A i \in 1 .. Len(Tail(s)) : Tail(s)[i] = s[i + 1]
  BY HeadTailProperties, EmptySeq
<1> DEFINE A == {j \in k .. Len(Tail(s)) : Tail(s)[j] = m}
           B == {j \in k + 1 .. Len(s) : s[j] = m}
           f == [j \in A |-> j + 1]
<1>2. IsFiniteSet(A)
  BY <1>1, TimesType
<1>3. \A j \in A : j \in Int /\ j + 1 \in B
  BY <1>1
<1>4. \A j \in B : j - 1 \in A /\ f[j - 1] = j
  BY <1>1
<1>5. f \in [A -> B] /\ \A i, j \in A : f[i] = f[j] => i = j
  BY <1>3
<1>6. Times(Tail(s), m, k) = Cardinality(A) /\ Times(s, m, k + 1) = Cardinality(B)
  BY DEF Times
<1> HIDE DEF A, B, f
<1>7. \A j \in B : \E i \in A : f[i] = j
  BY <1>4
<1> QED BY <1>2, <1>5, <1>6, <1>7, Matched

LEMMA TimesTail ==
    ASSUME NEW S, NEW s \in Seq(S), s # <<>>, NEW m
    PROVE  Times(s, m, 1) = Times(s, m, 2) + Bit(Head(s) = m)
<1>1. /\ Len(s) \in Nat \ {0} /\ Head(s) = s[1] /\ Tail(s) \in Seq(S) /\ Len(Tail(s)) = Len(s) - 1
      /\ \A i \in 1 .. Len(Tail(s)) : Tail(s)[i] = s[i + 1]
  BY HeadTailProperties, EmptySeq
<1>2. Times(s, m, 1) = Times(s, m, 2) + Bit(Head(s) = m)
  <2> DEFINE A == {j \in 2 .. Len(s) : s[j] = m}
             B == {j \in 1 .. Len(s) : s[j] = m}
  <2>1. IsFiniteSet(A) /\ Cardinality(A) \in Nat
    BY TimesType DEF Times
  <2>2. CASE s[1] = m
    <3>1. B = A \cup {1} /\ 1 \notin A
      BY <1>1, <2>2
    <3> QED BY <1>1, <2>1, <2>2, <3>1, FS_AddElement DEF Times, Bit
  <2>3. CASE s[1] # m
    <3>1. B = A
      BY <1>1, <2>3
    <3>2. Bit(Head(s) = m) = 0
      BY <1>1, <2>3 DEF Bit
    <3>3. Times(s, m, 1) = Cardinality(B) /\ Times(s, m, 2) = Cardinality(A)
      BY DEF Times
    <3> HIDE DEF A, B
    <3> QED BY <2>1, <3>1, <3>2, <3>3
  <2> QED BY <2>2, <2>3
<1> QED BY <1>2

\* A message that is in the sequence is counted.
LEMMA TimesPositive ==
    ASSUME NEW S, NEW s \in Seq(S), NEW m, NEW i \in 1 .. Len(s), s[i] = m
    PROVE  Times(s, m, 1) > 0
<1>1. i \in {j \in 1 .. Len(s) : s[j] = m}
  OBVIOUS
<1>2. IsFiniteSet({j \in 1 .. Len(s) : s[j] = m}) /\ Times(s, m, 1) \in Nat
  BY TimesType
<1>3. Times(s, m, 1) # 0
  BY <1>1, <1>2, FS_EmptySet DEF Times
<1> QED BY <1>2, <1>3

\* n messages x behind a sequence.
LEMMA TimesRepeated ==
    ASSUME NEW S, NEW s \in Seq(S), NEW x \in S, NEW n \in Nat, NEW m
    PROVE  /\ s \o [k \in 1 .. n |-> x] \in Seq(S)
           /\ Times(s \o [k \in 1 .. n |-> x], m, 1)
                = Times(s, m, 1) + (IF x = m THEN n ELSE 0)
<1> DEFINE t == [k \in 1 .. n |-> x]
           A == {j \in 1 .. Len(s) : s[j] = m}
           C == Len(s) + 1 .. Len(s) + n
           B == {j \in 1 .. Len(s \o t) : (s \o t)[j] = m}
<1>1. t \in Seq(S) /\ Len(t) = n /\ \A k \in 1 .. n : t[k] = x
  BY SeqDef
<1> HIDE DEF t
<1>2. /\ s \o t \in Seq(S) /\ Len(s) \in Nat /\ Len(s \o t) = Len(s) + n
      /\ \A i \in 1 .. Len(s) + n : (s \o t)[i] = IF i <= Len(s) THEN s[i] ELSE t[i - Len(s)]
  BY <1>1, ConcatProperties, LenProperties
<1>3. \A i \in C : i \in 1 .. Len(s) + n /\ ~ i <= Len(s) /\ i - Len(s) \in 1 .. n
  BY <1>2
<1>4. \A i \in 1 .. Len(s) : (s \o t)[i] = s[i]
  BY <1>2
<1>5. \A i \in C : (s \o t)[i] = x
  BY <1>1, <1>2, <1>3
<1>6. IsFiniteSet(A) /\ Cardinality(A) \in Nat
  BY TimesType DEF Times
<1>7. CASE x = m
  <2>1. B = A \cup C
    BY <1>2, <1>4, <1>5, <1>7
  <2>2. A \cap C = {}
    BY <1>2
  <2>3. IsFiniteSet(C) /\ Cardinality(C) = n
    BY <1>2, FS_Interval
  <2>4. Cardinality(B) = Cardinality(A) + n
    <3> HIDE DEF A, B, C
    <3>1. Cardinality(A \cup C) = Cardinality(A) + Cardinality(C) - Cardinality(A \cap C)
      BY <1>6, <2>3, FS_Union
    <3>2. Cardinality(A \cap C) = 0
      BY <2>2, FS_EmptySet
    <3> QED BY <1>6, <2>1, <2>3, <3>1, <3>2
  <2> QED BY <1>2, <1>7, <2>4 DEF Times, t
<1>8. CASE x # m
  <2>1. B = A
    BY <1>2, <1>4, <1>5, <1>8
  <2>2. Times(s \o t, m, 1) = Times(s, m, 1) /\ Times(s, m, 1) \in Nat
    BY <1>6, <2>1 DEF Times
  <2> QED BY <1>2, <1>8, <2>2 DEF t
<1> QED BY <1>7, <1>8

LEMMA LaneMessages ==
    ASSUME NEW lane \in Seq(LaneEvents)
    PROVE  /\ MessagesOf(lane) \in Seq(Messages) /\ Len(MessagesOf(lane)) = Len(lane)
           /\ \A i \in 1 .. Len(lane) : MessagesOf(lane)[i] = lane[i].message
           /\ \A event \in LaneEvents :
                 MessagesOf(Append(lane, event)) = Append(MessagesOf(lane), event.message)
<1>1. ASSUME NEW l \in Seq(LaneEvents)
      PROVE  /\ MessagesOf(l) \in Seq(Messages) /\ Len(MessagesOf(l)) = Len(l)
             /\ \A i \in 1 .. Len(l) : MessagesOf(l)[i] = l[i].message
  <2>0. Len(l) \in Nat /\ DOMAIN l = 1 .. Len(l) /\ \A i \in 1 .. Len(l) : l[i] \in LaneEvents
    BY LenProperties, ElementOfSeq
  <2>1. \A i \in 1 .. Len(l) : l[i].message \in Messages
    BY <2>0 DEF LaneEvents
  <2>2. MessagesOf(l) \in [1 .. Len(l) -> Messages]
    BY <2>0, <2>1 DEF MessagesOf
  <2> QED BY <2>0, <2>2, SeqDef DEF MessagesOf
<1>2. ASSUME NEW event \in LaneEvents
      PROVE  MessagesOf(Append(lane, event)) = Append(MessagesOf(lane), event.message)
  <2> DEFINE s == MessagesOf(Append(lane, event))
             t == Append(MessagesOf(lane), event.message)
  <2>1. event.message \in Messages /\ Append(lane, event) \in Seq(LaneEvents)
    BY AppendProperties DEF LaneEvents
  <2>2. s \in Seq(Messages) /\ t \in Seq(Messages)
    BY <1>1, <2>1, AppendProperties
  <2>8. MessagesOf(lane) \in Seq(Messages) /\ Len(MessagesOf(lane)) = Len(lane)
    BY <1>1
  <2>9. Len(lane) \in Nat /\ Len(Append(lane, event)) = Len(lane) + 1
        /\ Len(Append(MessagesOf(lane), event.message)) = Len(MessagesOf(lane)) + 1
    BY <2>1, <2>8, AppendProperties, LenProperties
  <2>3. Len(s) = Len(lane) + 1 /\ Len(t) = Len(lane) + 1
    BY <1>1, <2>1, <2>8, <2>9
  <2>4. \A i \in 1 .. Len(lane) + 1 : s[i] = Append(lane, event)[i].message
    BY <1>1, <2>1, <2>9
  <2>5. \A i \in 1 .. Len(lane) : s[i] = t[i]
    <3>1. \A i \in 1 .. Len(lane) : Append(lane, event)[i] = lane[i]
      BY AppendProperties
    <3>2. \A i \in 1 .. Len(lane) : Append(MessagesOf(lane), event.message)[i] = MessagesOf(lane)[i]
      BY <2>1, <2>8, AppendProperties
    <3> QED BY <1>1, <2>4, <2>9, <3>1, <3>2
  <2>6. s[Len(lane) + 1] = t[Len(lane) + 1]
    BY <2>1, <2>4, <2>8, <2>9, AppendProperties
  <2>7. \A i \in 1 .. Len(s) : s[i] = t[i]
    BY <2>3, <2>5, <2>6
  <2> QED BY <2>2, <2>3, <2>7, SeqEqual
<1> QED BY <1>1, <1>2

-----------------------------------------------------------------------------
(* Order.                                                                  *)

\* Fewer elements than in a finite set it is a proper part of.
LEMMA ProperPart ==
    ASSUME NEW S, IsFiniteSet(S), NEW T, T \subseteq S, NEW x \in S, x \notin T
    PROVE  /\ IsFiniteSet(T) /\ Cardinality(T) \in Nat /\ Cardinality(S) \in Nat
           /\ Cardinality(T) < Cardinality(S)
<1>1. IsFiniteSet(T) /\ Cardinality(T) <= Cardinality(S) /\ Cardinality(S) # Cardinality(T)
  BY FS_Subset
<1> QED BY <1>1, FS_CardinalityType

\* A strict order has a first element in every finite set.
LEMMA FirstExists ==
    ASSUME NEW S, IsFiniteSet(S), S # {}, NEW R,
           \A i \in S : <<i, i>> \notin R,
           \A i, j, k \in S : <<i, j>> \in R /\ <<j, k>> \in R => <<i, k>> \in R
    PROVE  \E i \in S : \A j \in S : <<j, i>> \notin R
<1> DEFINE below(i) == {j \in S : <<j, i>> \in R}
           N == {n \in Nat : \E i \in S : Cardinality(below(i)) = n}
<1>1. \A i \in S : IsFiniteSet(below(i)) /\ Cardinality(below(i)) \in Nat
  BY FS_Subset, FS_CardinalityType
<1>2. N \subseteq Nat /\ N # {}
  <2>1. PICK i \in S : TRUE
    OBVIOUS
  <2>2. Cardinality(below(i)) \in N
    BY <1>1
  <2> QED BY <2>2
<1> HIDE DEF N
<1>3. PICK n \in N : \A k \in N : ~ <<k, n>> \in OpToRel(<, Nat)
  BY <1>2, WFMin, NatLessThanWellFounded
<1>4. \A k \in N : ~ k < n
  BY <1>2, <1>3 DEF OpToRel
<1>5. PICK i \in S : Cardinality(below(i)) = n
  BY DEF N
<1>6. ASSUME NEW j \in S, <<j, i>> \in R PROVE FALSE
  <2>1. below(j) \subseteq below(i) /\ j \in below(i) /\ j \notin below(j)
    BY <1>6
  <2>2. Cardinality(below(j)) < Cardinality(below(i))
    BY <1>1, <2>1, ProperPart
  <2>3. Cardinality(below(j)) \in N
    BY <1>1 DEF N
  <2> QED BY <1>4, <1>5, <2>2, <2>3
<1> QED BY <1>6

\* The block's messages are put in order, none is lost and none is played twice.
LEMMA InOrderKeepsMessages ==
    ASSUME NEW lane \in Seq(LaneEvents), NEW structural \in BOOLEAN
    PROVE  /\ InOrder(lane, structural) \in Seq(Messages)
           /\ \A m : Times(InOrder(lane, structural), m, 1) = Times(MessagesOf(lane), m, 1)
<1> DEFINE D == DOMAIN lane
           Before(j, k) == \/ Turn(lane[j], structural) < Turn(lane[k], structural)
                           \/ Turn(lane[j], structural) = Turn(lane[k], structural) /\ j < k
           below(k) == {j \in D : Before(j, k)}
           rank == [k \in D |-> 1 + Cardinality(below(k))]
           place(i) == CHOOSE k \in D : rank[k] = i
           s == InOrder(lane, structural)
<1>1. /\ Len(lane) \in Nat /\ D = 1 .. Len(lane) /\ \A k \in D : lane[k] \in LaneEvents
      /\ \A k \in D : k \in Int
  BY LenProperties, ElementOfSeq
<1>2. \A k \in D : Turn(lane[k], structural) \in Int /\ lane[k].message \in Messages
  BY <1>1 DEF Turn, LaneEvents
<1>3. s = [i \in D |-> lane[place(i)].message]
  BY DEF InOrder
<1>4. /\ \A k \in D : ~ Before(k, k)
      /\ \A i, j, k \in D : Before(i, j) /\ Before(j, k) => Before(i, k)
      /\ \A j, k \in D : j # k => Before(j, k) \/ Before(k, j)
  BY <1>1, <1>2
<1> HIDE DEF Before, s
<1>5. IsFiniteSet(D) /\ Cardinality(D) = Len(lane)
  BY <1>1, FS_Interval
<1>6. \A k \in D : /\ IsFiniteSet(below(k)) /\ Cardinality(below(k)) \in Nat
                   /\ Cardinality(below(k)) < Len(lane)
  <2> SUFFICES ASSUME NEW k \in D
               PROVE  /\ IsFiniteSet(below(k)) /\ Cardinality(below(k)) \in Nat
                      /\ Cardinality(below(k)) < Len(lane)
    OBVIOUS
  <2>1. below(k) \subseteq D /\ k \notin below(k)
    BY <1>4
  <2> HIDE DEF below
  <2> QED BY <1>5, <2>1, ProperPart
<1>7. \A j, k \in D : Before(j, k) => Cardinality(below(j)) < Cardinality(below(k))
  <2> SUFFICES ASSUME NEW j \in D, NEW k \in D, Before(j, k)
               PROVE  Cardinality(below(j)) < Cardinality(below(k))
    OBVIOUS
  <2>1. below(j) \subseteq below(k) /\ j \in below(k) /\ j \notin below(j)
    BY <1>4
  <2>2. IsFiniteSet(below(k))
    BY <1>6
  <2> HIDE DEF below
  <2> QED BY <2>1, <2>2, ProperPart
<1>8. rank \in [D -> D] /\ \A j, k \in D : rank[j] = rank[k] => j = k
  <2> HIDE DEF below
  <2>1. \A k \in D : 1 + Cardinality(below(k)) \in D
    BY <1>1, <1>6
  <2>2. \A j, k \in D : Cardinality(below(j)) = Cardinality(below(k)) => j = k
    <3> SUFFICES ASSUME NEW j \in D, NEW k \in D, j # k,
                        Cardinality(below(j)) = Cardinality(below(k))
                 PROVE  FALSE
      OBVIOUS
    <3>1. Before(j, k) \/ Before(k, j)
      BY <1>4
    <3> QED BY <1>6, <1>7, <3>1
  <2> QED BY <1>6, <2>1, <2>2
<1>9. \A i \in D : \E k \in D : rank[k] = i
  <2> HIDE DEF rank
  <2>1. rank \in Injection(D, D)
    BY <1>8, Fun_IsInj
  <2>2. rank \in Surjection(D, D)
    BY <1>5, <2>1, FS_Injection
  <2> QED BY <2>2, Fun_SurjectionProperties
<1> HIDE DEF rank
<1>10. \A i \in D : place(i) \in D /\ rank[place(i)] = i
  BY <1>9
<1>11. \A k \in D : rank[k] \in D /\ place(rank[k]) = k
  BY <1>8, <1>10
<1> HIDE DEF place
<1>12. s \in [1 .. Len(lane) -> Messages]
  BY <1>1, <1>2, <1>3, <1>10
<1>13. s \in Seq(Messages) /\ Len(s) = Len(lane)
  BY <1>1, <1>12, SeqDef
<1>14. ASSUME NEW m PROVE Times(s, m, 1) = Times(MessagesOf(lane), m, 1)
  <2> DEFINE A == {j \in 1 .. Len(MessagesOf(lane)) : MessagesOf(lane)[j] = m}
             B == {i \in 1 .. Len(s) : s[i] = m}
             f == [k \in A |-> rank[k]]
  <2>1. Times(s, m, 1) = Cardinality(B) /\ Times(MessagesOf(lane), m, 1) = Cardinality(A)
    BY DEF Times
  <2>2. MessagesOf(lane) \in Seq(Messages)
    BY LaneMessages
  <2>3. IsFiniteSet(A)
    BY <2>2, TimesType
  <2>4. A = {k \in D : lane[k].message = m} /\ B = {i \in D : lane[place(i)].message = m}
    <3>1. Len(MessagesOf(lane)) = Len(lane)
          /\ \A i \in 1 .. Len(lane) : MessagesOf(lane)[i] = lane[i].message
      BY LaneMessages
    <3> QED BY <1>1, <1>3, <1>13, <3>1
  <2>5. \A k \in A : k \in D /\ rank[k] \in B
    BY <1>11, <2>4
  <2>6. \A i \in B : place(i) \in A /\ rank[place(i)] = i
    BY <1>10, <2>4
  <2> HIDE DEF A, B
  <2>7. f \in [A -> B] /\ (\A i, j \in A : f[i] = f[j] => i = j)
        /\ (\A j \in B : \E i \in A : f[i] = j)
    BY <1>8, <2>5, <2>6
  <2> HIDE DEF f
  <2> QED BY <2>1, <2>3, <2>7, Matched
<1> QED BY <1>13, <1>14 DEF s

-----------------------------------------------------------------------------
(* The voices of the one channel and note.                                 *)

LEMMA OneKey == /\ channel \in Channels /\ note \in Notes /\ channel \in Nat /\ note \in Nat
                /\ channel # AnyChannel
<1>1. channel \in Channels /\ note \in Notes
  BY KeyAssumption DEF channel, note
<1>2. channel \in Nat /\ note \in Nat
  BY <1>1, IdentityAssumption
<1> HIDE DEF channel
<1>3. channel # AnyChannel
  BY <1>2 DEF AnyChannel
<1> QED BY <1>1, <1>2, <1>3

LEMMA SlotsFinite ==
    /\ IsFiniteSet(Slots) /\ Slots # {} /\ Slots \subseteq Int
    /\ \A S \in SUBSET Slots : IsFiniteSet(S) /\ Cardinality(S) \in Nat
<1>1. IsFiniteSet(Slots)
  BY MaxVoicesAssumption, FS_Interval DEF Slots
<1>2. Slots # {} /\ Slots \subseteq Int
  <2>1. 1 \in Slots
    BY MaxVoicesAssumption DEF Slots
  <2> QED BY <2>1 DEF Slots
<1> QED BY <1>1, <1>2, FS_Subset, FS_CardinalityType

LEMMA LowestExists == ASSUME NEW S \in SUBSET Slots, S # {} PROVE Lowest(S) \in S
<1> DEFINE R == {r \in S \X S : r[1] < r[2]}
<1>1. S \subseteq Int /\ IsFiniteSet(S)
  BY SlotsFinite
<1>2. /\ \A i \in S : <<i, i>> \notin R
      /\ \A i, j, k \in S : <<i, j>> \in R /\ <<j, k>> \in R => <<i, k>> \in R
      /\ \A i, j \in S : <<j, i>> \notin R => i <= j
  BY <1>1
<1> HIDE DEF R
<1>3. \E i \in S : \A j \in S : <<j, i>> \notin R
  BY <1>1, <1>2, FirstExists
<1> QED BY <1>2, <1>3 DEF Lowest

LEMMA OldestExists == ASSUME NEW p \in Pools, NEW S \in SUBSET Slots, S # {} PROVE Oldest(p, S) \in S
<1> DEFINE age(i) == p.slot[i].age
           R == {r \in S \X S : age(r[2]) < age(r[1]) \/ (age(r[1]) = age(r[2]) /\ r[1] < r[2])}
<1>1. S \subseteq Int /\ IsFiniteSet(S)
  BY SlotsFinite
<1>2. \A i \in S : age(i) \in Nat
  BY DEF Pools, VoiceStates
<1> HIDE DEF age
<1>3. /\ \A i \in S : <<i, i>> \notin R
      /\ \A i, j, k \in S : <<i, j>> \in R /\ <<j, k>> \in R => <<i, k>> \in R
      /\ \A i, j \in S : <<j, i>> \notin R => (age(j) < age(i) \/ (age(j) = age(i) /\ i <= j))
  BY <1>1, <1>2
<1> HIDE DEF R
<1>4. \E i \in S : \A j \in S : <<j, i>> \notin R
  BY <1>1, <1>3, FirstExists
<1>5. \E i \in S : \A j \in S : age(j) < age(i) \/ (age(j) = age(i) /\ i <= j)
  BY <1>3, <1>4
<1> QED BY <1>5 DEF Oldest, age

LEMMA VictimExists == ASSUME NEW p \in Pools PROVE Victim(p) \in Slots
<1> DEFINE tails == {i \in Slots : Released(p.slot[i])}
           plain == {i \in Slots : p.slot[i].isActive /\ ~ Pedalled(p.slot[i])}
<1>1. /\ tails \in SUBSET Slots /\ plain \in SUBSET Slots /\ Slots \in SUBSET Slots
      /\ Victim(p) = IF tails # {} THEN Oldest(p, tails)
                     ELSE IF plain # {} THEN Oldest(p, plain)
                     ELSE Oldest(p, Slots)
  BY DEF Victim
<1> HIDE DEF tails, plain
<1>2. \A S \in SUBSET Slots : S # {} => Oldest(p, S) \in Slots
  BY OldestExists
<1> QED BY <1>1, <1>2, SlotsFinite

\* A press always finds a voice.
LEMMA VoiceForPress ==
    ASSUME NEW p \in Pools PROVE NoteOnSlot(p, note, channel, Anonymous) \in Slots
<1> DEFINE free == {i \in Slots : ~ p.slot[i].isActive}
<1>1. SameIdentity(p, note, channel, Anonymous) = {}
  BY DEF SameIdentity
<1>2. NoteOnSlot(p, note, channel, Anonymous) = IF free # {} THEN Lowest(free) ELSE Victim(p)
  BY <1>1 DEF NoteOnSlot
<1>3. free \in SUBSET Slots
  OBVIOUS
<1> HIDE DEF free
<1> QED BY <1>2, <1>3, LowestExists, VictimExists

LEMMA Voice ==
    ASSUME NEW p, Own(p)
    PROVE  /\ p \in Pools /\ p.slot \in [Slots -> VoiceStates]
           /\ \A i \in Slots : p.slot[i] \in VoiceStates /\ OwnVoice(p.slot[i])
           /\ KeysDown(p) \in Nat
BY SlotsFinite DEF Own, Pools, KeysDown

\* The voices may change as long as their keys do not.
LEMMA SameKeys ==
    ASSUME NEW p, NEW q, \A i \in Slots : q.slot[i].keyDown = p.slot[i].keyDown
    PROVE  KeysDown(q) = KeysDown(p)
<1>1. {i \in Slots : q.slot[i].keyDown} = {i \in Slots : p.slot[i].keyDown}
  OBVIOUS
<1> QED BY <1>1 DEF KeysDown

LEMMA PressStarts ==
    ASSUME NEW p, Own(p)
    PROVE  LET i == NoteOnSlot(p, note, channel, Anonymous)
               q == NoteOn(p, note, channel, Anonymous)
           IN  Own(q) /\ (~ p.slot[i].keyDown => KeysDown(q) = KeysDown(p) + 1)
<1> DEFINE i == NoteOnSlot(p, note, channel, Anonymous)
           v == Started(note, channel, Anonymous)
           q == [p EXCEPT !.slot[i] = v]
<1>1. i \in Slots
  BY VoiceForPress, Voice
<1>2. q = NoteOn(p, note, channel, Anonymous)
  BY DEF NoteOn
<1> HIDE DEF i
<1>3. v \in VoiceStates /\ OwnVoice(v) /\ v.keyDown
  BY OneKey DEF Started, VoiceStates, OwnVoice
<1> HIDE DEF v
<1>4. q \in Pools /\ \A j \in Slots : q.slot[j] = IF j = i THEN v ELSE p.slot[j]
  BY <1>1, <1>3, Voice DEF Pools
<1>5. Own(q)
  BY <1>3, <1>4, Voice DEF Own
<1> HIDE DEF q
<1>6. ASSUME ~ p.slot[i].keyDown PROVE KeysDown(q) = KeysDown(p) + 1
  <2> DEFINE A == {j \in Slots : p.slot[j].keyDown}
             B == {j \in Slots : q.slot[j].keyDown}
  <2>1. B = A \cup {i} /\ i \notin A
    BY <1>1, <1>3, <1>4, <1>6
  <2>2. KeysDown(p) = Cardinality(A) /\ KeysDown(q) = Cardinality(B) /\ A \in SUBSET Slots
    BY DEF KeysDown
  <2> HIDE DEF A, B
  <2> QED BY <2>1, <2>2, SlotsFinite, FS_AddElement
<1> QED BY <1>2, <1>5, <1>6 DEF i

LEMMA KeyUpOwn ==
    ASSUME NEW p, Own(p), NEW i \in Slots
    PROVE  LET q == KeyUp(p, i, channel)
           IN  /\ Own(q) /\ KeysDown(p) <= KeysDown(q) + 1
               /\ q.sustain = p.sustain
               /\ ~ q.slot[i].keyDown
               /\ \A j \in Slots : j # i => q.slot[j] = p.slot[j]
               /\ p.slot[i].isActive /\ channel \notin p.sustain => ~ Holds(q.slot[i])
<1> DEFINE known == IF p.slot[i].channel # AnyChannel THEN p.slot[i].channel ELSE channel
           held == IF known # AnyChannel THEN known \in p.sustain ELSE p.sustain # {}
           v == [p.slot[i] EXCEPT !.keyDown = FALSE, !.isSustained = held]
           q == KeyUp(p, i, channel)
<1>1. q = [p EXCEPT !.slot[i].keyDown = FALSE, !.slot[i].isSustained = held]
  BY DEF KeyUp
<1>2. held \in BOOLEAN /\ (p.slot[i].isActive /\ channel \notin p.sustain => ~ held)
  <2>1. known # AnyChannel /\ (p.slot[i].isActive => known = channel)
    BY OneKey, Voice DEF OwnVoice
  <2> HIDE DEF known
  <2>2. held = (known \in p.sustain)
    BY <2>1
  <2> QED BY <2>1, <2>2
<1> HIDE DEF held, q
<1>3. /\ v \in VoiceStates /\ OwnVoice(v) /\ ~ v.keyDown
      /\ p.slot[i].isActive /\ channel \notin p.sustain => ~ Holds(v)
  <2>1. p.slot[i] \in VoiceStates /\ OwnVoice(p.slot[i])
    BY Voice
  <2>2. v \in VoiceStates /\ ~ v.keyDown /\ v.isSustained = held /\ v.isSostenuto = p.slot[i].isSostenuto
    BY <1>2, <2>1 DEF VoiceStates
  <2>3. OwnVoice(v)
    BY <1>2, <2>1 DEF OwnVoice, VoiceStates
  <2> HIDE DEF v
  <2> QED BY <1>2, <2>1, <2>2, <2>3 DEF Holds, Pedalled, OwnVoice
<1>4. /\ q \in Pools /\ q.sustain = p.sustain
      /\ \A j \in Slots : q.slot[j] = IF j = i THEN v ELSE p.slot[j]
  <2>1. q = [p EXCEPT !.slot = [p.slot EXCEPT ![i] = v]]
    BY <1>1, Voice DEF Pools, VoiceStates
  <2>2. [p.slot EXCEPT ![i] = v] \in [Slots -> VoiceStates]
    BY <1>3, Voice
  <2> HIDE DEF v
  <2> QED BY <2>1, <2>2, Voice DEF Pools
<1> HIDE DEF v
<1>5. Own(q)
  BY <1>3, <1>4, Voice DEF Own
<1>6. KeysDown(p) <= KeysDown(q) + 1
  <2> DEFINE A == {j \in Slots : p.slot[j].keyDown}
             B == {j \in Slots : q.slot[j].keyDown}
  <2>1. A \subseteq B \cup {i} /\ A \in SUBSET Slots /\ B \in SUBSET Slots /\ B \cup {i} \in SUBSET Slots
    BY <1>4
  <2>2. KeysDown(p) = Cardinality(A) /\ KeysDown(q) = Cardinality(B)
    BY DEF KeysDown
  <2> HIDE DEF A, B
  <2>3. Cardinality(A) <= Cardinality(B \cup {i}) /\ Cardinality(B \cup {i}) <= Cardinality(B) + 1
    <3>1. Cardinality(A) <= Cardinality(B \cup {i})
      BY <2>1, SlotsFinite, FS_Subset
    <3>2. Cardinality(B \cup {i}) = IF i \in B THEN Cardinality(B) ELSE Cardinality(B) + 1
      BY <2>1, SlotsFinite, FS_AddElement
    <3> QED BY <2>1, <3>1, <3>2, SlotsFinite
  <2> QED BY <2>1, <2>2, <2>3, SlotsFinite
<1> QED BY <1>3, <1>4, <1>5, <1>6 DEF q

\* A release takes one key, unless a pedal makes it take two.
LEMMA ReleaseTakesOne ==
    ASSUME NEW p, Own(p)
    PROVE  LET q == NoteOff(p, note, channel, Anonymous)
           IN  /\ Own(q)
               /\ ~ (channel \in p.sustain /\ Cardinality(KeyDownVoices(p, note, channel)) > 1)
                    => KeysDown(p) <= KeysDown(q) + 1
<1> DEFINE match == KeyDownVoices(p, note, channel)
           strict == StrictNoteOff(p, note, channel, Anonymous)
           q == NoteOff(p, note, channel, Anonymous)
<1>1. match \in SUBSET Slots
  BY DEF KeyDownVoices
<1>2. match = {i \in Slots : p.slot[i].keyDown}
  BY OneKey, Voice DEF KeyDownVoices, OwnVoice, SameChannel
<1>3. KeysDown(p) = Cardinality(match)
  BY <1>2 DEF KeysDown
<1>4. {i \in match : p.slot[i].id = Anonymous} = match
      /\ {i \in match : p.slot[i].channel = channel /\ channel # AnyChannel} = match
  <2> HIDE DEF match
  <2>1. \A i \in match : p.slot[i].id = Anonymous /\ p.slot[i].channel = channel
    BY <1>2, Voice DEF OwnVoice
  <2> QED BY <2>1, OneKey
<1>5. q = IF Silenced(p, strict) # {} THEN strict ELSE LooseNoteOff(strict, note, channel)
  BY DEF NoteOff
<1>6. ASSUME NEW r, Own(r)
      PROVE  /\ Own(LooseNoteOff(r, note, channel))
             /\ KeysDown(r) <= KeysDown(LooseNoteOff(r, note, channel)) + 1
  <2> DEFINE m == KeyDownVoices(r, note, channel)
  <2>1. m \in SUBSET Slots
    BY DEF KeyDownVoices
  <2>2. LooseNoteOff(r, note, channel) = IF m = {} THEN r ELSE KeyUp(r, Oldest(r, m), channel)
    BY DEF LooseNoteOff
  <2> HIDE DEF m
  <2>3. m # {} => Oldest(r, m) \in Slots
    BY <1>6, <2>1, OldestExists, Voice
  <2>4. KeysDown(r) \in Nat
    BY <1>6, Voice
  <2> QED BY <1>6, <2>2, <2>3, <2>4, KeyUpOwn
<1>7. CASE match = {}
  <2>1. strict = p
    BY <1>4, <1>7 DEF StrictNoteOff
  <2>2. Silenced(p, strict) = {}
    BY <2>1 DEF Silenced
  <2> QED BY <1>5, <1>6, <2>1, <2>2
<1>8. CASE match # {}
  <2> DEFINE o == Oldest(p, match)
  <2>1. strict = KeyUp(p, o, channel)
    BY <1>4, <1>8 DEF StrictNoteOff
  <2>2. o \in match
    BY <1>1, <1>8, OldestExists, Voice
  <2> HIDE DEF o, match, strict, q
  <2>3. o \in Slots /\ p.slot[o].keyDown /\ p.slot[o].isActive
    BY <1>2, <2>2, Voice DEF OwnVoice
  <2>4. /\ Own(strict) /\ KeysDown(p) <= KeysDown(strict) + 1
        /\ channel \notin p.sustain => ~ Holds(strict.slot[o])
    BY <2>1, <2>3, KeyUpOwn
  <2>5. Own(q)
    BY <1>5, <1>6, <2>4
  <2>6. CASE channel \notin p.sustain
    <3>1. o \in Silenced(p, strict)
      BY <2>3, <2>4, <2>6 DEF Silenced, Holds
    <3> QED BY <1>5, <2>4, <2>5, <3>1 DEF q, match
  <2>7. CASE channel \in p.sustain
    <3>1. KeysDown(p) \in Nat /\ KeysDown(q) \in Nat
      BY <2>5, Voice
    <3> QED BY <1>3, <2>5, <2>7, <3>1 DEF q, match
  <2> QED BY <2>6, <2>7
<1> QED BY <1>7, <1>8

\* The pedal takes no key.
LEMMA PedalTakesNoKey ==
    ASSUME NEW p, Own(p), NEW down \in BOOLEAN
    PROVE  LET q == SetSustainPedal(p, channel, down)
           IN  Own(q) /\ KeysDown(q) = KeysDown(p)
<1> DEFINE q == SetSustainPedal(p, channel, down)
<1>1. CASE down
  <2>1. q = [p EXCEPT !.sustain = @ \cup {channel}]
    BY <1>1 DEF SetSustainPedal
  <2> HIDE DEF q
  <2>2. q \in Pools /\ q.slot = p.slot
    BY <2>1, OneKey, Voice DEF Pools
  <2>3. Own(q)
    BY <2>2, Voice DEF Own
  <2>4. KeysDown(q) = KeysDown(p)
    BY <2>2 DEF KeysDown
  <2> QED BY <2>3, <2>4 DEF q
<1>2. CASE ~ down
  <2> DEFINE S == {i \in Slots : p.slot[i].isSustained}
             Up(i) == [p.slot[i] EXCEPT !.isSustained = FALSE]
             up == [p EXCEPT !.sustain = @ \ {channel}, !.slot = [i \in Slots |-> Up(i)]]
             New(i) == IF i \notin S \/ ~ SameChannel(channel, p.slot[i]) THEN p.slot[i]
                       ELSE IF Holds(Up(i)) THEN Up(i) ELSE Free
  <2>1. q = LetGo(p, up, channel, S)
    BY <1>2 DEF SetSustainPedal
  <2>2. up \in [slot : [Slots -> VoiceStates], sustain : SUBSET Channels,
                sostenuto : SUBSET Channels, orphans : SUBSET Slots]
        /\ up.slot = [i \in Slots |-> Up(i)]
    <3>1. \A i \in Slots : Up(i) \in VoiceStates
      BY Voice DEF VoiceStates
    <3> HIDE DEF Up
    <3>2. [i \in Slots |-> Up(i)] \in [Slots -> VoiceStates]
      BY <3>1
    <3> DEFINE slots == [i \in Slots |-> Up(i)]
               rest == p.sustain \ {channel}
    <3>3. p \in Pools /\ rest \in SUBSET Channels
      BY Voice DEF Pools
    <3>4. up = [p EXCEPT !.sustain = rest, !.slot = slots]
      OBVIOUS
    <3>5. slots \in [Slots -> VoiceStates]
      BY <3>2
    <3> HIDE DEF slots, rest, up
    <3>6. up \in Pools /\ up.slot = slots
      BY <3>3, <3>4, <3>5 DEF Pools
    <3> QED BY <3>6 DEF Pools, slots
  <2>3. \A i \in Slots : up.slot[i] = Up(i)
    BY <2>2
  <2> HIDE DEF up, S
  <2>4. q = [up EXCEPT !.slot = [i \in Slots |-> New(i)]]
    BY <2>1, <2>3 DEF LetGo
  <2>5. \A i \in Slots : /\ New(i) \in VoiceStates /\ OwnVoice(New(i))
                         /\ New(i).keyDown = p.slot[i].keyDown
    <3> SUFFICES ASSUME NEW i \in Slots
                 PROVE  /\ New(i) \in VoiceStates /\ OwnVoice(New(i))
                        /\ New(i).keyDown = p.slot[i].keyDown
      OBVIOUS
    <3>1. p.slot[i] \in VoiceStates /\ OwnVoice(p.slot[i])
      BY Voice
    <3>2. Up(i) \in VoiceStates /\ OwnVoice(Up(i)) /\ Up(i).keyDown = p.slot[i].keyDown
          /\ Up(i).isActive = p.slot[i].isActive
      BY <3>1 DEF VoiceStates, OwnVoice
    <3>3. Free \in VoiceStates /\ OwnVoice(Free) /\ Free.keyDown = FALSE
      BY DEF Free, VoiceStates, OwnVoice, Anonymous, AnyChannel, NoNote
    <3>4. ~ Holds(Up(i)) => p.slot[i].keyDown = FALSE
      BY <3>1, <3>2 DEF Holds, OwnVoice, VoiceStates
    <3> HIDE DEF Up
    <3> HIDE DEF Free
    <3>6. CASE i \notin S \/ ~ SameChannel(channel, p.slot[i])
      BY <3>1, <3>6
    <3>7. CASE ~ (i \notin S \/ ~ SameChannel(channel, p.slot[i])) /\ Holds(Up(i))
      BY <3>2, <3>7
    <3>8. CASE ~ (i \notin S \/ ~ SameChannel(channel, p.slot[i])) /\ ~ Holds(Up(i))
      <4>1. New(i) = Free
        BY <3>8
      <4> HIDE DEF New
      <4> QED BY <3>3, <3>4, <3>8, <4>1
    <3> QED BY <3>6, <3>7, <3>8
  <2> HIDE DEF New, q
  <2>6. q \in Pools /\ \A i \in Slots : q.slot[i] = New(i)
    BY <2>2, <2>4, <2>5 DEF Pools
  <2>7. Own(q)
    BY <2>5, <2>6 DEF Own
  <2>8. KeysDown(q) = KeysDown(p)
    BY <2>5, <2>6, SameKeys
  <2> QED BY <2>7, <2>8 DEF q
<1> QED BY <1>1, <1>2

LEMMA CleanupOwn ==
    ASSUME NEW p, Own(p) PROVE Own(AllNotesOffChannel(p, channel))
<1> DEFINE q == AllNotesOffChannel(p, channel)
<1>1. Free \in VoiceStates /\ OwnVoice(Free)
  BY DEF Free, VoiceStates, OwnVoice, Anonymous, AnyChannel, NoNote
<1>2. q = [p EXCEPT !.slot = [i \in Slots |->
             IF SameChannel(channel, p.slot[i]) THEN Free ELSE p.slot[i]]]
  BY DEF AllNotesOffChannel
<1> HIDE DEF q
<1>3. q \in Pools /\ \A i \in Slots : q.slot[i] \in {Free, p.slot[i]}
  BY <1>1, <1>2, Voice DEF Pools
<1> QED BY <1>1, <1>3, Voice DEF Own, q

\* Tails that end take no key.
LEMMA TailsTakeNoKey ==
    ASSUME NEW p, Own(p), NEW S \in SUBSET Slots, \A i \in S : Released(p.slot[i])
    PROVE  LET q == ReleaseFinished(p, S) IN Own(q) /\ KeysDown(q) = KeysDown(p)
<1> DEFINE q == ReleaseFinished(p, S)
<1>1. Free \in VoiceStates /\ OwnVoice(Free) /\ ~ Free.keyDown
  BY DEF Free, VoiceStates, OwnVoice, Anonymous, AnyChannel, NoNote
<1>2. q = [p EXCEPT !.slot = [i \in Slots |-> IF i \in S THEN Free ELSE p.slot[i]]]
  BY DEF ReleaseFinished
<1> HIDE DEF q
<1>3. q \in Pools /\ \A i \in Slots : q.slot[i] = IF i \in S THEN Free ELSE p.slot[i]
  BY <1>1, <1>2, Voice DEF Pools
<1>4. \A i \in S : ~ p.slot[i].keyDown
  BY Voice DEF Released, Holds, VoiceStates
<1>5. \A i \in Slots : q.slot[i].keyDown = p.slot[i].keyDown
  BY <1>1, <1>3, <1>4, Voice DEF VoiceStates
<1>6. Own(q)
  BY <1>1, <1>3, Voice DEF Own
<1> QED BY <1>5, <1>6, SameKeys DEF q

\* The reconciler takes no key that the mirror holds, and silences those it takes.
LEMMA ReconcilerOwn ==
    ASSUME NEW p, Own(p), NEW Held, NEW pedals
    PROVE  LET q == ReconcileUnheldVoices(p, Held, pedals)
           IN  /\ Own(q)
               /\ <<channel, note>> \in Held \/ Silenced(p, q) = {} => KeysDown(q) = KeysDown(p)
<1> DEFINE orphan == {i \in Slots : /\ p.slot[i].isActive /\ p.slot[i].keyDown
                                    /\ p.slot[i].channel # AnyChannel
                                    /\ <<p.slot[i].channel, p.slot[i].note>> \notin Held
                                    /\ p.slot[i].channel \notin pedals}
           Up(i) == [p.slot[i] EXCEPT !.keyDown = FALSE, !.isSustained = FALSE, !.isSostenuto = FALSE]
           gone == orphan \cap p.orphans
           q == ReconcileUnheldVoices(p, Held, pedals)
<1>1. q = [p EXCEPT !.orphans = orphan,
                    !.slot = [i \in Slots |-> IF i \notin gone THEN p.slot[i] ELSE Up(i)]]
  BY DEF ReconcileUnheldVoices
<1>2. \A i \in orphan : /\ i \in Slots /\ p.slot[i].isActive /\ p.slot[i].keyDown
                        /\ <<channel, note>> \notin Held
  BY Voice DEF OwnVoice
<1>3. orphan \subseteq Slots
  OBVIOUS
<1> HIDE DEF q, orphan
<1>4. \A i \in Slots : /\ Up(i) \in VoiceStates /\ OwnVoice(Up(i)) /\ ~ Holds(Up(i))
  BY Voice DEF VoiceStates, OwnVoice, Holds, Pedalled
<1> HIDE DEF Up
<1>5. q \in Pools /\ \A i \in Slots : q.slot[i] = IF i \notin gone THEN p.slot[i] ELSE Up(i)
  <2> DEFINE slots == [i \in Slots |-> IF i \notin gone THEN p.slot[i] ELSE Up(i)]
  <2>1. slots \in [Slots -> VoiceStates]
    BY <1>4, Voice
  <2>2. \A i \in Slots : slots[i] = IF i \notin gone THEN p.slot[i] ELSE Up(i)
    OBVIOUS
  <2>3. q = [p EXCEPT !.orphans = orphan, !.slot = slots]
    BY <1>1
  <2> HIDE DEF slots
  <2>4. q \in Pools /\ q.slot = slots
    <3>1. p \in Pools /\ orphan \in SUBSET Slots
      BY <1>3, Voice
    <3> QED BY <2>1, <2>3, <3>1 DEF Pools
  <2> QED BY <2>2, <2>4
<1>6. Own(q)
  BY <1>4, <1>5, Voice DEF Own
<1>7. \A i \in gone : i \in Silenced(p, q) /\ <<channel, note>> \notin Held
  BY <1>2, <1>4, <1>5 DEF Silenced, Holds
<1>8. ASSUME gone = {} PROVE KeysDown(q) = KeysDown(p)
  BY <1>5, <1>8, SameKeys
<1> HIDE DEF gone
<1>9. <<channel, note>> \in Held \/ Silenced(p, q) = {} => gone = {}
  BY <1>7
<1> QED BY <1>6, <1>8, <1>9 DEF q

\* The engine is reset.
LEMMA EmptyOwn ==
    /\ Own(EmptyPool)
    /\ \A p : Own(p) => Own([p EXCEPT !.slot = [i \in Slots |-> Free], !.orphans = {}])
<1>1. Free \in VoiceStates /\ OwnVoice(Free)
  BY DEF Free, VoiceStates, OwnVoice, Anonymous, AnyChannel, NoNote
<1>2. Own(EmptyPool)
  BY <1>1 DEF EmptyPool, Own, Pools
<1>3. ASSUME NEW p, Own(p) PROVE Own([p EXCEPT !.slot = [i \in Slots |-> Free], !.orphans = {}])
  BY <1>1, <1>3, Voice DEF Own, Pools
<1> QED BY <1>2, <1>3

-----------------------------------------------------------------------------
(* The sender's stores.                                                    *)

LEMMA TodosDisjoint ==
    /\ \A t \in ReleaseTodos \cup PedalTodos \cup CleanupTodos : t # <<>>
    /\ \A t \in ReleaseTodos : t \notin PedalTodos /\ t \notin CleanupTodos
    /\ \A t \in PedalTodos : t \notin CleanupTodos
    /\ \A s, t \in ReleaseTodos : Head(s) = Head(t) => s = t
BY DEF ReleaseTodos, PedalTodos, CleanupTodos

\* What a store leaves to be done.
LEMMA TodoTails ==
    /\ \A t \in PedalTodos : /\ Tail(t) \in {<<>>} \cup PedalTodos
                             /\ Head(t) \in {"pedal", "sustain", "dirty", "off", "reset"}
    /\ \A t \in CleanupTodos : /\ Tail(t) \in {<<>>} \cup CleanupTodos
                               /\ Head(t) \in {"bump", "notesOff"}
    /\ \A t \in ReleaseTodos :
          /\ Head(t) \in {"count", "read", "write"}
          /\ Head(t) = "count" <=> t = <<"count", "read", "write">>
          /\ Head(t) = "read" <=> t = <<"read", "write">>
          /\ Head(t) = "write" <=> t = <<"write">>
    /\ Tail(<<"count", "read", "write">>) = <<"read", "write">>
    /\ Tail(<<"read", "write">>) = <<"write">> /\ Tail(<<"write">>) = <<>>
BY DEF ReleaseTodos, PedalTodos, CleanupTodos

-----------------------------------------------------------------------------
(* Types.                                                                  *)

LEMMA Components ==
    ASSUME Shapes
    PROVE  /\ render.lane \in Seq(LaneEvents) /\ render.due \in Seq(Messages) /\ ring \in Seq(Messages)
           /\ render.message \in Messages /\ render.depth \in Nat /\ render.gen \in Nat
           /\ latch.noteOffs \in Nat /\ mirror.depth \in Nat /\ MirrorDepth \in Nat
           /\ sender.message \in Messages /\ sender.gen \in Nat /\ sender.depth \in Nat
           /\ Own(pool) /\ Idle \in [message : Messages, todo : {<<>>}, gen : {0}, depth : {0}]
BY DroppedLimitAssumption
   DEF Shapes, RenderShape, RingShape, LatchShape, MirrorShape, SenderShape, PoolShape, MirrorDepth,
       Messages, Idle

LEMMA DepthType == \A message : \A depth \in Nat : NextDepth(message, depth) \in Nat
BY DEF NextDepth

LEMMA EventsOfRing ==
    \A message \in Messages : \A event \in RingEvents(message) :
        event \in LaneEvents /\ event.message = message
BY DEF RingEvents, At, LaneEvents

LEMMA InitInvariant == Init => IInv
<1> SUFFICES ASSUME Init PROVE IInv
  OBVIOUS
<1> USE DEF Init
<1>1. \A m : Times(<<>>, m, 1) = 0
  BY TimesEmpty
<1>2. <<>> \in Seq(Messages) /\ <<>> \in Seq(LaneEvents) /\ Len(<<>>) = 0
  BY EmptySeq
<1>3. MessagesOf(<<>>) = <<>>
  BY <1>2, LaneMessages, EmptySeq
<1>5. Shapes
  <2>1. SetupShape /\ PlayerShape /\ MirrorShape /\ HistoryShape
    BY BoundAssumption DEF SetupShape, PlayerShape, MirrorShape, HistoryShape
  <2>2. SenderShape
    BY TodosDisjoint DEF SenderShape, Idle, Messages
  <2>3. RingShape
    <3>1. setup.capacity \in Nat
      BY CapacityAssumption
    <3> QED BY <1>2, <3>1 DEF RingShape
  <2>4. LatchShape
    BY DroppedLimitAssumption DEF LatchShape, NoLatch
  <2>5. RenderShape
    <3>1. 0 \in 0 .. MaxTunes
      BY BoundAssumption
    <3> QED BY <1>2, <3>1 DEF RenderShape
  <2>6. PoolShape
    BY EmptyOwn DEF PoolShape
  <2> QED BY <2>1, <2>2, <2>3, <2>4, <2>5, <2>6 DEF Shapes
<1>7. ~ Latching /\ Reading = 0 /\ Counting = 0
  <2>1. sender.todo = <<>>
    BY DEF Idle
  <2> QED BY <2>1, TodosDisjoint DEF Latching, Reading, Counting, Bit, ReleaseTodos
<1>8. /\ Key = 0 /\ Mirroring("on") = 0 /\ Mirroring("off") = 0 /\ Queued("on") = 0 /\ Queued("off") = 0
      /\ Laid("on") = 0 /\ Laid("off") = 0 /\ Slack = 1
  BY <1>1, <1>3, <1>7 DEF Key, Mirroring, Queued, Laid, Bit, Slack
<1>6. Uncleaned
  <2>1. Queued("notesOff") = 0 /\ Laid("notesOff") = 0
    BY <1>1, <1>3 DEF Queued, Laid
  <2> QED BY <2>1 DEF Uncleaned, Idle, NoLatch
<1>9. \A k \in 1 .. Len(ring) + 1 : Times(ring, "on", k) = 0 /\ Times(ring, "off", k) = 0
  BY <1>1, <1>2
<1>10. ReleasedKey
  BY <1>7 DEF ReleasedKey
<1>11. MirrorInv
  <2>1. sender.todo = <<>>
    BY DEF Idle
  <2> QED BY <1>7, <1>8, <1>9, <1>2, <2>1 DEF MirrorInv, DepthBefore, DepthBeforeThis
<1>12. HeldInv
  <2>1. KeysDown(pool) \in Nat
    BY EmptyOwn, Voice
  <2>2. latch.noteOffs = 0
    BY DEF NoLatch
  <2> QED BY <1>7, <1>8, <1>9, <2>1, <2>2
          DEF HeldInv, Alternate, MirrorHolds, MirrorWillHold, ReplayHolds, VoicesHold
<1> QED BY <1>5, <1>6, <1>10, <1>11, <1>12 DEF IInv

LEMMA SetupStep == Shapes /\ [Next]_vars => SetupShape'
<1> SUFFICES ASSUME Shapes, [Next]_vars PROVE SetupShape'
  OBVIOUS
<1> USE DEF Shapes, SetupShape
<1>1. ASSUME NEW message \in Messages, Send(message) PROVE SetupShape'
  BY <1>1 DEF Send
<1>2. CASE Store BY <1>2 DEF Store
<1>3. CASE Capture BY <1>3 DEF Capture
<1>4. CASE Scrub BY <1>4 DEF Scrub
<1>5. CASE DrainCritical BY <1>5 DEF DrainCritical
<1>6. CASE Pop BY <1>6 DEF Pop
<1>7. CASE Dispatch BY <1>7 DEF Dispatch
<1>8. CASE DrainDropped BY <1>8 DEF DrainDropped
<1>9. CASE Play BY <1>9 DEF Play
<1>10. CASE Reconcile BY <1>10 DEF Reconcile
<1>11. CASE UNCHANGED vars BY <1>11 DEF vars
<1>12. CASE StartTune BY <1>12 DEF StartTune
<1>13. CASE RenderTune \/ TuneRendered BY <1>13 DEF RenderTune, TuneRendered
<1> QED
  BY <1>1, <1>2, <1>3, <1>4, <1>5, <1>6, <1>7, <1>8, <1>9, <1>10, <1>11, <1>12, <1>13
  DEF Next, Block

LEMMA PlayerStep == Shapes /\ [Next]_vars => PlayerShape'
<1> SUFFICES ASSUME Shapes, [Next]_vars PROVE PlayerShape'
  OBVIOUS
<1> USE DEF Shapes, PlayerShape
<1>1. ASSUME NEW message \in Messages, Send(message) PROVE PlayerShape'
  <2>1. player' = Played(message) /\ player.sent < MaxMessages
    BY <1>1 DEF Send
  <2> DEFINE key == IF message \in {"on", "off"} THEN message = "on" ELSE player.key
             pedal == IF message \in {"down", "up", "reset"} THEN message = "down" ELSE player.pedal
  <2>2. key \in BOOLEAN /\ pedal \in BOOLEAN
    OBVIOUS
  <2>3. player.sent + 1 \in 0 .. MaxMessages
    BY <2>1, BoundAssumption
  <2>4. player' = [player EXCEPT !.sent = @ + 1, !.key = key, !.pedal = pedal]
    BY <2>1 DEF Played
  <2> HIDE DEF key, pedal
  <2> QED BY <2>2, <2>3, <2>4
<1>2. CASE Store BY <1>2 DEF Store
<1>3. CASE Capture BY <1>3 DEF Capture
<1>4. CASE Scrub BY <1>4 DEF Scrub
<1>5. CASE DrainCritical BY <1>5 DEF DrainCritical
<1>6. CASE Pop BY <1>6 DEF Pop
<1>7. CASE Dispatch BY <1>7 DEF Dispatch
<1>8. CASE DrainDropped BY <1>8 DEF DrainDropped
<1>9. CASE Play BY <1>9 DEF Play
<1>10. CASE Reconcile BY <1>10 DEF Reconcile
<1>11. CASE UNCHANGED vars BY <1>11 DEF vars
<1>12. CASE StartTune BY <1>12 DEF StartTune
<1>13. CASE RenderTune \/ TuneRendered BY <1>13 DEF RenderTune, TuneRendered
<1> QED
  BY <1>1, <1>2, <1>3, <1>4, <1>5, <1>6, <1>7, <1>8, <1>9, <1>10, <1>11, <1>12, <1>13
  DEF Next, Block

LEMMA SenderStep == Shapes /\ [Next]_vars => SenderShape'
<1> SUFFICES ASSUME Shapes, [Next]_vars PROVE SenderShape'
  OBVIOUS
<1>0. SenderShape /\ Idle.todo = <<>>
  BY DEF Shapes, Idle
<1> USE <1>0, Components DEF SenderShape
<1>1. ASSUME NEW message \in Messages, Send(message) PROVE SenderShape'
  <2>1. \A t : t = Accepted(message) \/ t = Rejected(message) =>
           /\ t \in {<<>>} \cup ReleaseTodos \cup PedalTodos \cup CleanupTodos
           /\ t \in ReleaseTodos => message = "off"
           /\ t \in PedalTodos => message \in Pedals
           /\ t \in CleanupTodos => message = "notesOff"
    BY TodosDisjoint DEF Accepted, Rejected, ReleaseTodos, PedalTodos, CleanupTodos, Pedals, Messages
  <2>2. PICK t : /\ t = Accepted(message) \/ t = Rejected(message)
                 /\ sender' = IF t = <<>> THEN Idle ELSE [Idle EXCEPT !.message = message, !.todo = t]
    BY <1>1 DEF Send
  <2>3. CASE t = <<>>
    BY <2>2, <2>3, TodosDisjoint DEF Idle, Messages
  <2>4. CASE t # <<>>
    BY <2>1, <2>2, <2>4 DEF Idle
  <2> QED BY <2>3, <2>4
<1>2. CASE Store
  <2> DEFINE t == Tail(sender.todo)
             done == IF t = <<>> THEN Idle ELSE [sender EXCEPT !.todo = t]
  <2>1. sender' = done \/ sender' = [done EXCEPT !.gen = mirror.gen, !.depth = MirrorDepth]
    BY <1>2 DEF Store
  <2>2. /\ t \in {<<>>} \cup ReleaseTodos \cup PedalTodos \cup CleanupTodos
        /\ t \in ReleaseTodos => sender.message = "off"
        /\ t \in PedalTodos => sender.message \in Pedals
        /\ t \in CleanupTodos => sender.message = "notesOff"
    <3>1. sender.todo # <<>>
      BY <1>2 DEF Store
    <3>2. CASE sender.todo \in ReleaseTodos
      <4>1. t \in {<<>>} \cup ReleaseTodos
        BY <3>2, TodoTails DEF ReleaseTodos
      <4> QED BY <3>2, <4>1, TodosDisjoint
    <3>3. CASE sender.todo \in PedalTodos
      BY <3>3, TodoTails, TodosDisjoint
    <3>4. CASE sender.todo \in CleanupTodos
      BY <3>4, TodoTails, TodosDisjoint
    <3> QED BY <3>1, <3>2, <3>3, <3>4
  <2> HIDE DEF t
  <2>3. /\ done.message \in Messages /\ done.gen \in Nat /\ done.depth \in Nat /\ done.todo = t
        /\ done \in [message : Messages, todo : {t}, gen : Nat, depth : Nat]
        /\ t # <<>> => done.message = sender.message
    BY DEF Idle, Messages
  <2> HIDE DEF done
  <2>4. mirror.gen \in Nat /\ MirrorDepth \in Nat
    BY DEF Shapes, MirrorShape, MirrorDepth
  <2>5. /\ sender' \in [message : Messages, todo : {t}, gen : Nat, depth : Nat]
        /\ sender'.message = done.message /\ sender'.todo = t
    BY <2>1, <2>3, <2>4
  <2> QED BY <2>2, <2>3, <2>5, TodosDisjoint
<1>3. CASE Capture BY <1>3 DEF Capture
<1>4. CASE Scrub BY <1>4 DEF Scrub
<1>5. CASE DrainCritical BY <1>5 DEF DrainCritical
<1>6. CASE Pop BY <1>6 DEF Pop
<1>7. CASE Dispatch BY <1>7 DEF Dispatch
<1>8. CASE DrainDropped BY <1>8 DEF DrainDropped
<1>9. CASE Play BY <1>9 DEF Play
<1>10. CASE Reconcile BY <1>10 DEF Reconcile
<1>11. CASE UNCHANGED vars BY <1>11 DEF vars
<1>12. CASE StartTune BY <1>12 DEF StartTune
<1>13. CASE RenderTune \/ TuneRendered BY <1>13 DEF RenderTune, TuneRendered
<1> QED
  BY <1>1, <1>2, <1>3, <1>4, <1>5, <1>6, <1>7, <1>8, <1>9, <1>10, <1>11, <1>12, <1>13
  DEF Next, Block

LEMMA RingStep == Shapes /\ [Next]_vars => RingShape'
<1> SUFFICES ASSUME Shapes, [Next]_vars PROVE RingShape'
  OBVIOUS
<1>0. RingShape /\ Len(ring) \in Nat /\ setup.capacity \in Nat
  BY CapacityAssumption, LenProperties DEF Shapes, RingShape, SetupShape
<1> USE <1>0 DEF RingShape
<1>1. ASSUME NEW message \in Messages, Send(message) PROVE RingShape'
  <2>1. /\ setup' = setup
        /\ ring' = IF Full THEN ring ELSE Append(ring, message)
    BY <1>1 DEF Send
  <2> QED BY <2>1, AppendProperties DEF Full
<1>2. CASE Store BY <1>2 DEF Store
<1>3. CASE Capture BY <1>3 DEF Capture
<1>4. CASE Scrub
  <2>1. setup' = setup /\ ring' = <<>>
    BY <1>4 DEF Scrub
  <2> QED BY <2>1, EmptySeq
<1>5. CASE DrainCritical BY <1>5 DEF DrainCritical
<1>6. CASE Pop
  <2>1. setup' = setup /\ ring # <<>> /\ ring' = Tail(ring)
    BY <1>6 DEF Pop
  <2> QED BY <2>1, HeadTailProperties
<1>7. CASE Dispatch BY <1>7 DEF Dispatch
<1>8. CASE DrainDropped BY <1>8 DEF DrainDropped
<1>9. CASE Play BY <1>9 DEF Play
<1>10. CASE Reconcile BY <1>10 DEF Reconcile
<1>11. CASE UNCHANGED vars BY <1>11 DEF vars
<1>12. CASE StartTune BY <1>12 DEF StartTune
<1>13. CASE RenderTune \/ TuneRendered BY <1>13 DEF RenderTune, TuneRendered
<1> QED
  BY <1>1, <1>2, <1>3, <1>4, <1>5, <1>6, <1>7, <1>8, <1>9, <1>10, <1>11, <1>12, <1>13
  DEF Next, Block

LEMMA LatchStep == Shapes /\ [Next]_vars => LatchShape'
<1> SUFFICES ASSUME Shapes, [Next]_vars PROVE LatchShape'
  OBVIOUS
<1>0. LatchShape
  BY DEF Shapes
<1> USE <1>0, DroppedLimitAssumption DEF LatchShape
<1>1. ASSUME NEW message \in Messages, Send(message) PROVE LatchShape'
  BY <1>1 DEF Send
<1>2. CASE Store
  <2>1. Count \in [noteOffs : 0 .. DroppedLimit, notesOff : BOOLEAN, reset : BOOLEAN,
                   sustain : BOOLEAN, dirty : BOOLEAN, off : BOOLEAN]
    <3>1. CASE latch.noteOffs < DroppedLimit
      <4>1. latch.noteOffs + 1 \in 0 .. DroppedLimit
        BY <3>1
      <4> QED BY <3>1, <4>1 DEF Count
    <3>2. CASE ~ latch.noteOffs < DroppedLimit
      BY <3>2 DEF Count
    <3> QED BY <3>1, <3>2
  <2>2. (sender.message = "down") \in BOOLEAN
    OBVIOUS
  <2> QED BY <1>2, <2>1, <2>2 DEF Store
<1>3. CASE Capture BY <1>3 DEF Capture
<1>4. CASE Scrub
  <2>1. mirror.pedal \in BOOLEAN /\ (latch.sustain \/ mirror.pedal) \in BOOLEAN
    BY DEF Shapes, MirrorShape
  <2>2. PICK down, dirty \in BOOLEAN : latch' = [NoLatch EXCEPT !.sustain = down, !.dirty = dirty]
    BY <1>4, <2>1 DEF Scrub
  <2>3. 0 \in 0 .. DroppedLimit
    OBVIOUS
  <2> QED BY <2>2, <2>3 DEF NoLatch
<1>5. CASE DrainCritical BY <1>5 DEF DrainCritical
<1>6. CASE Pop BY <1>6 DEF Pop
<1>7. CASE Dispatch BY <1>7 DEF Dispatch
<1>8. CASE DrainDropped BY <1>8 DEF DrainDropped
<1>9. CASE Play BY <1>9 DEF Play
<1>10. CASE Reconcile BY <1>10 DEF Reconcile
<1>11. CASE UNCHANGED vars BY <1>11 DEF vars
<1>12. CASE StartTune BY <1>12 DEF StartTune
<1>13. CASE RenderTune \/ TuneRendered BY <1>13 DEF RenderTune, TuneRendered
<1> QED
  BY <1>1, <1>2, <1>3, <1>4, <1>5, <1>6, <1>7, <1>8, <1>9, <1>10, <1>11, <1>12, <1>13
  DEF Next, Block

LEMMA MirrorTypeStep == Shapes /\ [Next]_vars => MirrorShape'
<1> SUFFICES ASSUME Shapes, [Next]_vars PROVE MirrorShape'
  OBVIOUS
<1>0. MirrorShape
  BY DEF Shapes
<1> USE <1>0 DEF MirrorShape
<1>1. ASSUME NEW message \in Messages, Send(message) PROVE MirrorShape'
  BY <1>1 DEF Send
<1>2. CASE Store
  <2>1. WriteMirror("off", sender) \in [gen : Nat, noteGen : Nat, depth : Nat, pedal : BOOLEAN]
    BY Components, DepthType DEF WriteMirror
  <2>2. /\ Bump \in [gen : Nat, noteGen : Nat, depth : Nat, pedal : BOOLEAN]
        /\ \A b \in BOOLEAN : [mirror EXCEPT !.pedal = b]
                \in [gen : Nat, noteGen : Nat, depth : Nat, pedal : BOOLEAN]
    BY DEF Bump
  <2>3. mirror' \in {[mirror EXCEPT !.pedal = b] : b \in BOOLEAN} \cup {Bump, WriteMirror("off", sender), mirror}
    <3>1. (sender.message = "down") \in BOOLEAN
      OBVIOUS
    <3> QED BY <1>2, <3>1 DEF Store
  <2> QED BY <2>1, <2>2, <2>3
<1>3. CASE Capture BY <1>3 DEF Capture
<1>4. CASE Scrub BY <1>4 DEF Scrub
<1>5. CASE DrainCritical BY <1>5 DEF DrainCritical
<1>6. CASE Pop BY <1>6 DEF Pop
<1>7. CASE Dispatch
  <2>1. WriteMirror(render.message, render) \in [gen : Nat, noteGen : Nat, depth : Nat, pedal : BOOLEAN]
    BY Components, DepthType DEF WriteMirror
  <2> QED BY <1>7, <2>1 DEF Dispatch
<1>8. CASE DrainDropped BY <1>8 DEF DrainDropped
<1>9. CASE Play
  BY <1>9 DEF Play, Bump
<1>10. CASE Reconcile BY <1>10 DEF Reconcile
<1>11. CASE UNCHANGED vars BY <1>11 DEF vars
<1>12. CASE StartTune
  <2>1. Bump \in [gen : Nat, noteGen : Nat, depth : Nat, pedal : BOOLEAN]
    BY DEF Bump
  <2> QED BY <1>12, <2>1 DEF StartTune
<1>13. CASE RenderTune \/ TuneRendered BY <1>13 DEF RenderTune, TuneRendered
<1> QED
  BY <1>1, <1>2, <1>3, <1>4, <1>5, <1>6, <1>7, <1>8, <1>9, <1>10, <1>11, <1>12, <1>13
  DEF Next, Block

LEMMA HistoryStep == Shapes /\ [Next]_vars => HistoryShape'
<1> SUFFICES ASSUME Shapes, [Next]_vars PROVE HistoryShape'
  OBVIOUS
<1>0. HistoryShape /\ RenderShape
  BY DEF Shapes
<1> USE <1>0 DEF HistoryShape, Excuses
<1>1. ASSUME NEW message \in Messages, Send(message) PROVE HistoryShape'
  BY <1>1 DEF Send, Excused
<1>2. CASE Store BY <1>2 DEF Store
<1>3. CASE Capture BY <1>3 DEF Capture
<1>4. CASE Scrub BY <1>4 DEF Scrub
<1>5. CASE DrainCritical BY <1>5 DEF DrainCritical
<1>6. CASE Pop
  <2>1. history' = history /\ render'.bypassed = render.bypassed
    BY <1>6 DEF Pop, RenderShape
  <2> QED BY <2>1
<1>7. CASE Dispatch BY <1>7 DEF Dispatch
<1>8. CASE DrainDropped BY <1>8 DEF DrainDropped
<1>9. CASE Play BY <1>9 DEF Play
<1>10. CASE Reconcile BY <1>10 DEF Reconcile
<1>11. CASE UNCHANGED vars BY <1>11 DEF vars
<1>12. CASE StartTune BY <1>12 DEF StartTune
<1>13. CASE RenderTune \/ TuneRendered BY <1>13 DEF RenderTune, TuneRendered, RenderShape
<1> QED
  BY <1>1, <1>2, <1>3, <1>4, <1>5, <1>6, <1>7, <1>8, <1>9, <1>10, <1>11, <1>12, <1>13
  DEF Next, Block

LEMMA PutType ==
    ASSUME NEW lane \in Seq(LaneEvents), NEW class \in 0 .. 4, NEW message \in Messages, NEW present
    PROVE  Put(lane, class, message, present) \in Seq(LaneEvents)
<1>1. At(class, message) \in LaneEvents
  BY DEF At, LaneEvents
<1> QED BY <1>1, AppendProperties DEF Put

\* The presses that a restore plays, and the latched releases.
LEMMA ManyEvents ==
    ASSUME NEW n \in Nat, NEW class \in 0 .. 4, NEW message \in Messages
    PROVE  /\ [k \in 1 .. n |-> At(class, message)] \in Seq(LaneEvents)
           /\ MessagesOf([k \in 1 .. n |-> At(class, message)]) = [k \in 1 .. n |-> message]
<1>1. At(class, message) \in LaneEvents
  BY DEF At, LaneEvents
<1> QED BY <1>1, SeqDef DEF MessagesOf, At

LEMMA RenderStep == Shapes /\ [Next]_vars => RenderShape'
<1> SUFFICES ASSUME Shapes, [Next]_vars PROVE RenderShape'
  OBVIOUS
<1>0. RenderShape /\ <<>> \in Seq(LaneEvents) /\ <<>> \in Seq(Messages) /\ mirror.gen \in Nat
  BY EmptySeq DEF Shapes, MirrorShape
<1> USE <1>0, Components DEF RenderShape
<1>1. ASSUME NEW message \in Messages, Send(message) PROVE RenderShape'
  BY <1>1 DEF Send
<1>2. CASE Store BY <1>2 DEF Store
<1>3. CASE Capture
  <2>1. render.restores + 1 \in Nat
    OBVIOUS
  <2>2. render' = [render EXCEPT !.pc = "scrub", !.restores = render.restores + 1, !.depth = MirrorDepth]
    BY <1>3 DEF Capture
  <2>3. render.due = <<>> /\ (render.lane = <<>> \/ render.bypassed)
    BY <1>3 DEF Capture
  <2> HIDE DEF MirrorDepth
  <2> QED BY <2>1, <2>2, <2>3
<1>4. CASE Scrub
  <2>1. \A n \in Nat : [k \in 1 .. n |-> At(2, "on")] \in Seq(LaneEvents)
    <3>1. At(2, "on") \in LaneEvents
      BY DEF At, LaneEvents, Messages
    <3> QED BY <3>1, SeqDef
  <2> QED BY <1>4, <2>1 DEF Scrub
<1>5. CASE DrainCritical
  <2>1. PICK value \in {"down", "up"}, pedal \in BOOLEAN :
            render' = [render EXCEPT !.pc = "pop", !.bypassed = FALSE,
                !.lane = Put(Put(Put(render.lane, 1, "notesOff", latch.notesOff), 1, value, pedal),
                             1, "reset", latch.reset)]
    BY <1>5 DEF DrainCritical
  <2>2. Put(Put(Put(render.lane, 1, "notesOff", latch.notesOff), 1, value, pedal),
            1, "reset", latch.reset) \in Seq(LaneEvents)
    BY PutType DEF Messages
  <2> QED BY <1>5, <2>1, <2>2 DEF DrainCritical
<1>6. CASE Pop
  <2>1. ring # <<>> /\ Head(ring) \in Messages
    BY <1>6, HeadTailProperties DEF Pop
  <2>2. CASE Head(ring) \in {"on", "off"}
    <3>1. /\ render' = [render EXCEPT !.pc = "mirror", !.message = Head(ring),
                                      !.gen = mirror.gen, !.depth = MirrorDepth]
          /\ render.pc = "pop"
      BY <1>6, <2>2 DEF Pop
    <3> HIDE DEF MirrorDepth
    <3> QED BY <2>2, <3>1
  <2>3. CASE Head(ring) \notin {"on", "off"}
    <3>1. PICK event \in LaneEvents : render' = [render EXCEPT !.lane = Append(@, event)]
      BY <1>6, <2>1, <2>3, EventsOfRing DEF Pop
    <3>2. Append(render.lane, event) \in Seq(LaneEvents)
      BY AppendProperties
    <3> QED BY <1>6, <3>1, <3>2 DEF Pop
  <2> QED BY <2>2, <2>3
<1>7. CASE Dispatch
  <2>1. PICK event \in LaneEvents :
            render' = [render EXCEPT !.pc = "pop", !.message = "on", !.gen = 0, !.depth = 0,
                                     !.lane = Append(@, event)]
    BY <1>7, EventsOfRing DEF Dispatch
  <2>2. Append(render.lane, event) \in Seq(LaneEvents)
    BY AppendProperties
  <2> QED BY <1>7, <2>1, <2>2 DEF Dispatch
<1>8. CASE DrainDropped
  <2> DEFINE offs == [k \in 1 .. latch.noteOffs |-> At(4, "off")]
  <2>1. PICK structural \in BOOLEAN :
            render' = [render EXCEPT !.pc = "play", !.lane = <<>>,
                                     !.due = InOrder(render.lane \o offs, structural)]
    BY <1>8 DEF DrainDropped
  <2>2. offs \in Seq(LaneEvents)
    <3>1. At(4, "off") \in LaneEvents
      BY DEF At, LaneEvents, Messages
    <3>2. \A n \in Nat : [k \in 1 .. n |-> At(4, "off")] \in Seq(LaneEvents)
      BY <3>1, SeqDef
    <3> QED BY <3>2
  <2> HIDE DEF offs
  <2>3. InOrder(render.lane \o offs, structural) \in Seq(Messages)
    BY <2>2, ConcatProperties, InOrderKeepsMessages
  <2> QED BY <1>8, <2>1, <2>3 DEF DrainDropped
<1>9. CASE Play
  <2>1. render.due # <<>> /\ render' = [render EXCEPT !.due = Tail(@)] /\ render.pc = "play"
    BY <1>9 DEF Play
  <2>2. Tail(render.due) \in Seq(Messages)
    BY <2>1, HeadTailProperties
  <2> QED BY <2>1, <2>2
<1>10. CASE Reconcile BY <1>10 DEF Reconcile
<1>11. CASE UNCHANGED vars BY <1>11 DEF vars
<1>12. CASE StartTune
  <2>1. render.tunes + 1 \in 0 .. MaxTunes
    <3>1. render.tunes < MaxTunes /\ MaxTunes \in Nat
      BY <1>12, BoundAssumption DEF StartTune
    <3>2. render.tunes \in 0 .. MaxTunes
      OBVIOUS
    <3> QED BY ONLY <3>1, <3>2
  <2>2. render' = [render EXCEPT !.pc = "tune", !.lane = <<>>, !.bypassed = TRUE,
                                 !.tunes = render.tunes + 1]
    BY <1>12 DEF StartTune
  <2> QED BY <1>12, <2>1, <2>2 DEF StartTune
<1>13. CASE RenderTune \/ TuneRendered BY <1>13 DEF RenderTune, TuneRendered
<1> QED
  BY <1>1, <1>2, <1>3, <1>4, <1>5, <1>6, <1>7, <1>8, <1>9, <1>10, <1>11, <1>12, <1>13
  DEF Next, Block

LEMMA PoolStep == Shapes /\ [Next]_vars => PoolShape'
<1> SUFFICES ASSUME Shapes, [Next]_vars PROVE PoolShape'
  OBVIOUS
<1>0. Own(pool)
  BY Components
<1> USE <1>0 DEF PoolShape
<1>1. ASSUME NEW message \in Messages, Send(message) PROVE PoolShape'
  BY <1>1 DEF Send
<1>2. CASE Store BY <1>2 DEF Store
<1>3. CASE Capture
  <2>1. pool' = [pool EXCEPT !.slot = [i \in Slots |-> Free], !.orphans = {}]
    BY <1>3 DEF Capture
  <2> QED BY <2>1, EmptyOwn
<1>4. CASE Scrub BY <1>4 DEF Scrub
<1>5. CASE DrainCritical BY <1>5 DEF DrainCritical
<1>6. CASE Pop BY <1>6 DEF Pop
<1>7. CASE Dispatch BY <1>7 DEF Dispatch
<1>8. CASE DrainDropped BY <1>8 DEF DrainDropped
<1>9. CASE Play
  <2>1. pool' = Voices(Head(render.due)) /\ Head(render.due) \in Messages
    BY <1>9, Components, HeadTailProperties DEF Play
  <2>2. Own(SetSustainPedal(pool, channel, FALSE)) /\ Own(SetSustainPedal(pool, channel, TRUE))
    BY PedalTakesNoKey
  <2>3. Own(AllNotesOffChannel(SetSustainPedal(pool, channel, FALSE), channel))
    BY <2>2, CleanupOwn
  <2>4. Own(NoteOn(pool, note, channel, Anonymous)) /\ Own(NoteOff(pool, note, channel, Anonymous))
    BY PressStarts, ReleaseTakesOne
  <2>5. \A m \in Messages : Own(Voices(m))
    <3> SUFFICES ASSUME NEW m \in Messages PROVE Own(Voices(m))
      OBVIOUS
    <3>1. CASE m \in {"on", "off", "notesOff"}
      BY <2>3, <2>4, <3>1 DEF Voices
    <3>2. CASE m \in {"up", "reset"}
      <4>1. Voices(m) = SetSustainPedal(pool, channel, FALSE)
        BY <3>2 DEF Voices
      <4> QED BY <2>2, <4>1
    <3>3. CASE m = "down"
      <4>1. Voices(m) = SetSustainPedal(pool, channel, TRUE)
        BY <3>3 DEF Voices
      <4> QED BY <2>2, <4>1
    <3> QED BY <3>1, <3>2, <3>3 DEF Messages
  <2> QED BY <2>1, <2>5
<1>10. CASE Reconcile
  <2>1. PICK Held, pedals :
            LET p == ReconcileUnheldVoices(pool, Held, pedals)
            IN  pool' = ReleaseFinished(p, {i \in Slots : Released(p.slot[i])})
    BY <1>10 DEF Reconcile
  <2> DEFINE p == ReconcileUnheldVoices(pool, Held, pedals)
             tails == {i \in Slots : Released(p.slot[i])}
  <2>2. pool' = ReleaseFinished(p, tails)
    BY <2>1
  <2>3. Own(p)
    BY ReconcilerOwn
  <2>4. tails \in SUBSET Slots /\ \A i \in tails : Released(p.slot[i])
    OBVIOUS
  <2> HIDE DEF p, tails
  <2> QED BY <2>2, <2>3, <2>4, TailsTakeNoKey
<1>11. CASE UNCHANGED vars BY <1>11 DEF vars
<1>12. CASE StartTune
  <2>1. pool' = [pool EXCEPT !.slot = [i \in Slots |-> Free], !.orphans = {}]
    BY <1>12 DEF StartTune
  <2> QED BY <2>1, EmptyOwn
<1>13. CASE RenderTune \/ TuneRendered BY <1>13 DEF RenderTune, TuneRendered
<1> QED
  BY <1>1, <1>2, <1>3, <1>4, <1>5, <1>6, <1>7, <1>8, <1>9, <1>10, <1>11, <1>12, <1>13
  DEF Next, Block

LEMMA ShapesStep == Shapes /\ [Next]_vars => Shapes'
BY SetupStep, PlayerStep, SenderStep, RingStep, LatchStep, MirrorTypeStep, RenderStep, PoolStep,
   HistoryStep DEF Shapes

-----------------------------------------------------------------------------
(* How the messages under way are counted.                                 *)

LEMMA CountTypes ==
    ASSUME Shapes
    PROVE  /\ \A m : \A k \in Nat : Times(ring, m, k) \in Nat
           /\ \A m : /\ Queued(m) \in Nat /\ Laid(m) \in Nat /\ Mirroring(m) \in {0, 1}
                     /\ Times(MessagesOf(render.lane), m, 1) \in Nat /\ Times(render.due, m, 1) \in Nat
           /\ Len(ring) \in Nat /\ KeysDown(pool) \in Nat
           /\ Key \in {0, 1} /\ Slack \in {0, 1} /\ Counting \in {0, 1} /\ Reading \in {0, 1}
           /\ Counting <= Reading /\ latch.noteOffs \in Nat /\ mirror.depth \in Nat
           /\ render.depth \in Nat
           /\ ~ Latching => Reading = 0
<1>1. Len(ring) \in Nat /\ KeysDown(pool) \in Nat /\ MessagesOf(render.lane) \in Seq(Messages)
  BY Components, Voice, LenProperties, LaneMessages
<1>2. \A m : \A k \in Nat : Times(ring, m, k) \in Nat
  BY Components, TimesType
<1>3. \A m : Times(MessagesOf(render.lane), m, 1) \in Nat /\ Times(render.due, m, 1) \in Nat
  BY <1>1, Components, TimesType
<1>4. \A m : Queued(m) \in Nat /\ Laid(m) \in Nat /\ Mirroring(m) \in {0, 1}
  BY <1>2, <1>3 DEF Queued, Laid, Mirroring, Bit
<1>5. /\ Key \in {0, 1} /\ Slack \in {0, 1} /\ Counting \in {0, 1} /\ Reading \in {0, 1}
      /\ Counting <= Reading
  BY DEF Key, Slack, Counting, Reading, Bit
<1>6. ~ Latching => Reading = 0
  BY DEF Latching, ReleaseTodos, Reading, Bit
<1> QED BY <1>1, <1>2, <1>3, <1>4, <1>5, <1>6, Components

LEMMA LaneAppend ==
    ASSUME NEW lane \in Seq(LaneEvents), NEW event \in LaneEvents, NEW m
    PROVE  /\ Append(lane, event) \in Seq(LaneEvents)
           /\ Times(MessagesOf(Append(lane, event)), m, 1)
                = Times(MessagesOf(lane), m, 1) + Bit(event.message = m)
<1>1. /\ MessagesOf(lane) \in Seq(Messages) /\ event.message \in Messages
      /\ MessagesOf(Append(lane, event)) = Append(MessagesOf(lane), event.message)
      /\ Len(MessagesOf(lane)) \in Nat
  BY LaneMessages, LenProperties DEF LaneEvents
<1>2. 1 \in 1 .. Len(MessagesOf(lane)) + 1
  BY <1>1
<1> QED BY <1>1, <1>2, TimesAppend, AppendProperties

LEMMA PutCounts ==
    ASSUME NEW lane \in Seq(LaneEvents), NEW class \in 0 .. 4, NEW message \in Messages,
           NEW present \in BOOLEAN, NEW m
    PROVE  /\ Put(lane, class, message, present) \in Seq(LaneEvents)
           /\ Times(MessagesOf(Put(lane, class, message, present)), m, 1)
                = Times(MessagesOf(lane), m, 1) + Bit(present /\ message = m)
<1>1. At(class, message) \in LaneEvents /\ At(class, message).message = message
  BY DEF At, LaneEvents
<1>2. Times(MessagesOf(lane), m, 1) \in Nat
  BY LaneMessages, TimesType
<1>3. CASE present
  BY <1>1, <1>3, LaneAppend DEF Put
<1>4. CASE ~ present
  BY <1>2, <1>4 DEF Put, Bit
<1> QED BY <1>3, <1>4

\* The presses of a restore.
LEMMA ReplayCounts ==
    ASSUME NEW n \in Nat, NEW m
    PROVE  Times(MessagesOf([k \in 1 .. n |-> At(2, "on")]), m, 1) = IF m = "on" THEN n ELSE 0
<1> DEFINE t == [k \in 1 .. n |-> "on"]
<1>1. MessagesOf([k \in 1 .. n |-> At(2, "on")]) = t
  BY DEF MessagesOf, At
<1>2. "on" \in Messages /\ <<>> \in Seq(Messages) /\ t \in Seq(Messages)
  <2>1. "on" \in Messages
    BY DEF Messages
  <2> QED BY <2>1, EmptySeq, SeqDef
<1>3. <<>> \o t = t
  BY <1>2, ConcatEmptySeq
<1>4. ASSUME NEW s \in Seq(Messages)
      PROVE  Times(s \o t, m, 1) = Times(s, m, 1) + (IF "on" = m THEN n ELSE 0)
  BY <1>2, TimesRepeated
<1> HIDE DEF t
<1>5. Times(<<>>, m, 1) = 0
  BY TimesEmpty
<1>6. Times(<<>> \o t, m, 1) = Times(<<>>, m, 1) + (IF "on" = m THEN n ELSE 0)
  BY <1>2, <1>4
<1> QED BY <1>1, <1>3, <1>5, <1>6

\* The releases that were latched come behind the other messages of the block.
LEMMA DroppedCounts ==
    ASSUME NEW lane \in Seq(LaneEvents), NEW n \in Nat, NEW structural \in BOOLEAN, NEW m
    PROVE  Times(InOrder(lane \o [k \in 1 .. n |-> At(4, "off")], structural), m, 1)
             = Times(MessagesOf(lane), m, 1) + IF m = "off" THEN n ELSE 0
<1> DEFINE offs == [k \in 1 .. n |-> At(4, "off")]
           t == [k \in 1 .. n |-> "off"]
<1>1. At(4, "off") \in LaneEvents /\ "off" \in Messages
  BY DEF At, LaneEvents, Messages
<1>2. /\ offs \in Seq(LaneEvents) /\ Len(offs) = n /\ \A k \in 1 .. n : offs[k].message = "off"
      /\ t \in Seq(Messages) /\ Len(t) = n /\ \A k \in 1 .. n : t[k] = "off"
  BY <1>1, SeqDef, LenProperties DEF At
<1> HIDE DEF offs
<1>3. /\ lane \o offs \in Seq(LaneEvents) /\ Len(lane \o offs) = Len(lane) + n /\ Len(lane) \in Nat
      /\ \A k \in 1 .. Len(lane) : (lane \o offs)[k] = lane[k]
      /\ \A k \in 1 .. n : (lane \o offs)[Len(lane) + k] = offs[k]
  <2>1. Len(lane) \in Nat
    BY LenProperties
  <2>2. lane \o offs \in Seq(LaneEvents)
    BY <1>2, ConcatProperties
  <2>3. Len(lane \o offs) = Len(lane) + n
    BY <1>2, ConcatProperties
  <2>4. \A k \in 1 .. Len(lane) + n :
            (lane \o offs)[k] = IF k <= Len(lane) THEN lane[k] ELSE offs[k - Len(lane)]
    BY <1>2, ConcatProperties
  <2>5. \A k \in 1 .. Len(lane) : (lane \o offs)[k] = lane[k]
    BY <2>1, <2>4
  <2>6. \A k \in 1 .. n : (lane \o offs)[Len(lane) + k] = offs[k]
    <3> SUFFICES ASSUME NEW k \in 1 .. n PROVE (lane \o offs)[Len(lane) + k] = offs[k]
      OBVIOUS
    <3>1. Len(lane) + k \in 1 .. Len(lane) + n /\ ~ (Len(lane) + k <= Len(lane))
          /\ (Len(lane) + k) - Len(lane) = k
      BY <2>1
    <3> QED BY <2>4, <3>1
  <2> QED BY <2>1, <2>2, <2>3, <2>5, <2>6
<1> DEFINE all == MessagesOf(lane \o offs)
           messages == MessagesOf(lane)
<1>4. /\ messages \in Seq(Messages) /\ Len(messages) = Len(lane)
      /\ \A i \in 1 .. Len(lane) : messages[i] = lane[i].message
  BY LaneMessages
<1>5. /\ all \in Seq(Messages) /\ Len(all) = Len(lane) + n
      /\ \A i \in 1 .. Len(lane) + n : all[i] = (lane \o offs)[i].message
  BY <1>3, LaneMessages
<1> HIDE DEF all, messages
<1>6. all = messages \o t
  <2> HIDE DEF t
  <2>1. /\ messages \o t \in Seq(Messages) /\ Len(messages \o t) = Len(lane) + n
        /\ \A k \in 1 .. Len(lane) + n :
              (messages \o t)[k] = IF k <= Len(lane) THEN messages[k] ELSE t[k - Len(lane)]
    <3>1. messages \o t \in Seq(Messages) /\ Len(messages \o t) = Len(messages) + Len(t)
      BY <1>2, <1>4, ConcatProperties
    <3>2. \A k \in 1 .. Len(messages) + Len(t) :
              (messages \o t)[k] = IF k <= Len(messages) THEN messages[k] ELSE t[k - Len(messages)]
      BY <1>2, <1>4, ConcatProperties
    <3> QED BY <1>2, <1>4, <3>1, <3>2
  <2>2. ASSUME NEW k \in 1 .. Len(lane) + n PROVE all[k] = (messages \o t)[k]
    <3>1. CASE k <= Len(lane)
      <4>1. k \in 1 .. Len(lane)
        BY <1>3, <3>1
      <4> QED BY <1>3, <1>4, <1>5, <2>1, <3>1, <4>1
    <3>2. CASE ~ k <= Len(lane)
      <4>1. k - Len(lane) \in 1 .. n /\ Len(lane) + (k - Len(lane)) = k
        BY <1>3, <3>2
      <4>2. (messages \o t)[k] = "off"
        BY <1>2, <2>1, <3>2, <4>1
      <4>3. (lane \o offs)[k] = offs[k - Len(lane)]
        BY <1>3, <4>1
      <4> QED BY <1>2, <1>5, <4>1, <4>2, <4>3
    <3> QED BY <3>1, <3>2
  <2> QED BY <1>5, <2>1, <2>2, SeqEqual
<1>7. Times(messages \o t, m, 1) = Times(messages, m, 1) + (IF "off" = m THEN n ELSE 0)
  BY <1>1, <1>4, TimesRepeated
<1>8. Times(InOrder(lane \o offs, structural), m, 1) = Times(all, m, 1)
  BY <1>3, InOrderKeepsMessages DEF all
<1> QED BY <1>6, <1>7, <1>8 DEF messages, offs

-----------------------------------------------------------------------------
(* What each step does to the counts.                                      *)

LEMMA SendCounts ==
    ASSUME Shapes, NEW message \in Messages, Send(message)
    PROVE  /\ Len(ring') = IF Full THEN Len(ring) ELSE Len(ring) + 1
           /\ \A m : \A k \in 1 .. Len(ring) + 1 :
                 Times(ring', m, k) = Times(ring, m, k) + Bit(~ Full /\ message = m)
           /\ ~ Full => \A m : Times(ring', m, Len(ring) + 2) = 0
           /\ \A m : Queued(m)' = Queued(m) + Bit(~ Full /\ message = m)
           /\ \A m : Mirroring(m)' = Mirroring(m) /\ Laid(m)' = Laid(m)
           /\ KeysDown(pool)' = KeysDown(pool)
<1>1. ring' = (IF Full THEN ring ELSE Append(ring, message)) /\ render' = render /\ pool' = pool
  BY DEF Send
<1>2. Len(ring) \in Nat /\ \A m : \A k \in Nat : Times(ring, m, k) \in Nat
  BY CountTypes
<1>3. CASE Full
  <2>1. ring' = ring /\ \A m : Bit(~ Full /\ message = m) = 0
    BY <1>1, <1>3 DEF Bit
  <2> QED BY <1>1, <1>2, <1>3, <2>1 DEF Queued, Mirroring, Laid, KeysDown
<1>4. CASE ~ Full
  <2>1. ring' = Append(ring, message) /\ \A m : Bit(~ Full /\ message = m) = Bit(message = m)
    BY <1>1, <1>4 DEF Bit
  <2>2. ring \in Seq(Messages) /\ Len(ring') = Len(ring) + 1 /\ ring' \in Seq(Messages)
    BY <2>1, Components, AppendProperties
  <2>3. \A m : \A k \in 1 .. Len(ring) + 1 : Times(ring', m, k) = Times(ring, m, k) + Bit(message = m)
    BY <2>1, <2>2, TimesAppend
  <2>4. \A m : Times(ring', m, Len(ring) + 2) = 0
    <3>1. \A m : Times(ring', m, Len(ring') + 1) = 0
      BY <2>2, TimesEmpty
    <3>2. Len(ring') + 1 = Len(ring) + 2
      BY <1>2, <2>2
    <3> QED BY <3>1, <3>2
  <2>5. 1 \in 1 .. Len(ring) + 1
    BY <1>2
  <2>6. \A m : Queued(m)' = Queued(m) + Bit(~ Full /\ message = m)
    BY <2>1, <2>3, <2>5 DEF Queued
  <2> QED BY <1>1, <1>4, <2>1, <2>2, <2>3, <2>4, <2>6 DEF Mirroring, Laid, KeysDown
<1> QED BY <1>3, <1>4

LEMMA PopCounts ==
    ASSUME Shapes, Pop
    PROVE  /\ Len(ring) > 0 /\ Len(ring') = Len(ring) - 1 /\ Head(ring) \in Messages
           /\ \A m : \A k \in 1 .. Len(ring) : Times(ring', m, k) = Times(ring, m, k + 1)
           /\ \A m : Queued(m) = Queued(m)' + Bit(Head(ring) = m) /\ Queued(m)' \in Nat
           /\ \A m : Mirroring(m) = 0
           /\ \A m : Mirroring(m)' = Bit(Head(ring) \in {"on", "off"} /\ Head(ring) = m)
           /\ \A m : Laid(m)' = Laid(m) + Bit(Head(ring) \notin {"on", "off"} /\ Head(ring) = m)
<1>1. ring # <<>> /\ ring' = Tail(ring) /\ ring \in Seq(Messages) /\ render.pc = "pop"
  BY Components DEF Pop
<1>2. Len(ring) > 0 /\ Len(ring') = Len(ring) - 1 /\ Head(ring) \in Messages
  BY <1>1, HeadTailProperties, LenProperties, EmptySeq
<1>3. \A m : /\ \A k \in 1 .. Len(ring) : Times(ring', m, k) = Times(ring, m, k + 1)
             /\ Times(ring, m, 1) = Times(ring, m, 2) + Bit(Head(ring) = m)
  <2>1. ASSUME NEW m
        PROVE  \A k \in 1 .. Len(ring) : Times(Tail(ring), m, k) = Times(ring, m, k + 1)
    <3> SUFFICES ASSUME NEW k \in 1 .. Len(ring) PROVE Times(Tail(ring), m, k) = Times(ring, m, k + 1)
      OBVIOUS
    <3>1. k \in Nat /\ k > 0
      BY <1>1, LenProperties
    <3> QED BY <1>1, <3>1, TimesOfTail
  <2>2. \A m : Times(ring, m, 1) = Times(ring, m, 2) + Bit(Head(ring) = m)
    BY <1>1, TimesTail
  <2> QED BY <1>1, <2>1, <2>2
<1>4. \A m : Queued(m) = Queued(m)' + Bit(Head(ring) = m) /\ Queued(m)' \in Nat
  <2>1. 1 \in 1 .. Len(ring) /\ 1 + 1 = 2
    BY <1>2, CountTypes
  <2>2. \A m : Queued(m) = Queued(m)' + Bit(Head(ring) = m)
    BY <1>3, <2>1 DEF Queued
  <2>3. ring' \in Seq(Messages)
    BY <1>1, HeadTailProperties
  <2> QED BY <2>2, <2>3, TimesType DEF Queued
<1>5. \A m : Mirroring(m) = 0
  BY <1>1 DEF Mirroring, Bit
<1>6. /\ \A m : Times(MessagesOf(render.lane), m, 1) \in Nat /\ Times(render.due, m, 1) \in Nat
      /\ \A m : Laid(m) \in Nat
  BY CountTypes
<1>7. CASE Head(ring) \in {"on", "off"}
  <2>1. render' = [render EXCEPT !.pc = "mirror", !.message = Head(ring),
                                 !.gen = mirror.gen, !.depth = MirrorDepth]
    BY <1>7 DEF Pop
  <2>2. /\ render'.pc = "mirror" /\ render'.message = Head(ring) /\ render'.lane = render.lane
        /\ render'.due = render.due
    BY <2>1, Shapes DEF Shapes, RenderShape
  <2>3. \A m : Mirroring(m)' = Bit(Head(ring) \in {"on", "off"} /\ Head(ring) = m)
    BY <1>7, <2>2 DEF Mirroring, Bit
  <2>4. \A m : Laid(m)' = Laid(m) + Bit(Head(ring) \notin {"on", "off"} /\ Head(ring) = m)
    BY <1>6, <1>7, <2>2 DEF Laid, Bit
  <2> QED BY <1>2, <1>3, <1>4, <1>5, <2>3, <2>4
<1>8. CASE Head(ring) \notin {"on", "off"}
  <2>1. PICK event \in LaneEvents :
            event.message = Head(ring) /\ render' = [render EXCEPT !.lane = Append(@, event)]
    <3>1. PICK event \in RingEvents(Head(ring)) : render' = [render EXCEPT !.lane = Append(@, event)]
      BY <1>8 DEF Pop
    <3> QED BY <1>2, <3>1, EventsOfRing
  <2>2. render'.pc = "pop" /\ render'.lane = Append(render.lane, event) /\ render'.due = render.due
    BY <1>1, <2>1 DEF Shapes, RenderShape
  <2>3. \A m : Mirroring(m)' = Bit(Head(ring) \in {"on", "off"} /\ Head(ring) = m)
    BY <1>8, <2>2 DEF Mirroring, Bit
  <2>4. \A m : Times(MessagesOf(render.lane)', m, 1)
                = Times(MessagesOf(render.lane), m, 1) + Bit(Head(ring) = m)
    BY <2>1, <2>2, Components, LaneAppend
  <2>5. \A m : Bit(Head(ring) \notin {"on", "off"} /\ Head(ring) = m) = Bit(Head(ring) = m)
               /\ Bit(Head(ring) = m) \in Nat
    BY <1>8 DEF Bit
  <2>6. \A m : Laid(m)' = Laid(m) + Bit(Head(ring) \notin {"on", "off"} /\ Head(ring) = m)
    <3> SUFFICES ASSUME NEW m
                 PROVE  Laid(m)' = Laid(m) + Bit(Head(ring) \notin {"on", "off"} /\ Head(ring) = m)
      OBVIOUS
    <3>1. Laid(m)' = Times(MessagesOf(render.lane)', m, 1) + Times(render.due, m, 1)
      BY <2>2 DEF Laid
    <3>2. /\ Times(MessagesOf(render.lane), m, 1) \in Nat /\ Times(render.due, m, 1) \in Nat
          /\ Bit(Head(ring) = m) \in Nat
      BY <1>6, <2>5
    <3>3. Laid(m)' = Laid(m) + Bit(Head(ring) = m)
      BY <2>4, <3>1, <3>2 DEF Laid
    <3> QED BY <2>5, <3>3
  <2> QED BY <1>2, <1>3, <1>4, <1>5, <2>3, <2>6
<1> QED BY <1>7, <1>8

LEMMA DispatchCounts ==
    ASSUME Shapes, Dispatch
    PROVE  /\ ring' = ring /\ render.message \in {"on", "off"}
           /\ \A m : Mirroring(m) = Bit(render.message = m) /\ Mirroring(m)' = 0
           /\ \A m : Laid(m)' = Laid(m) + Bit(render.message = m)
<1>1. PICK event \in LaneEvents :
          /\ event.message = render.message
          /\ render' = [render EXCEPT !.pc = "pop", !.message = "on", !.gen = 0, !.depth = 0,
                                      !.lane = Append(@, event)]
  <2>1. PICK event \in RingEvents(render.message) :
            render' = [render EXCEPT !.pc = "pop", !.message = "on", !.gen = 0, !.depth = 0,
                                     !.lane = Append(@, event)]
    BY DEF Dispatch
  <2> QED BY <2>1, Components, EventsOfRing
<1>2. /\ render'.pc = "pop" /\ render'.lane = Append(render.lane, event) /\ render'.due = render.due
      /\ render.pc = "mirror" /\ ring' = ring /\ render.message \in {"on", "off"}
  BY <1>1 DEF Dispatch, Shapes, RenderShape
<1>3. \A m : Times(MessagesOf(render.lane)', m, 1)
              = Times(MessagesOf(render.lane), m, 1) + Bit(render.message = m)
  BY <1>1, <1>2, Components, LaneAppend
<1>4. \A m : /\ Times(MessagesOf(render.lane), m, 1) \in Nat /\ Times(render.due, m, 1) \in Nat
             /\ Bit(render.message = m) \in Nat
  BY CountTypes DEF Bit
<1>5. \A m : Laid(m)' = Laid(m) + Bit(render.message = m)
  BY <1>2, <1>3, <1>4 DEF Laid
<1>6. \A m : Mirroring(m) = Bit(render.message = m) /\ Mirroring(m)' = 0
  BY <1>2 DEF Mirroring, Bit
<1> QED BY <1>2, <1>5, <1>6

LEMMA ScrubCounts ==
    ASSUME Shapes, Scrub
    PROVE  /\ ring' = <<>> /\ Len(ring') = 0 /\ \A m : Times(ring', m, 1) = 0
           /\ \A m : Queued(m)' = 0 /\ Mirroring(m) = 0 /\ Mirroring(m)' = 0
           /\ \A m : Laid(m)' = IF m = "on" THEN render.depth ELSE 0
           /\ latch'.noteOffs = 0
<1>1. /\ ring' = <<>> /\ Len(ring') = 0 /\ \A m : Times(ring', m, 1) = 0
      /\ \A m : Times(<<>>, m, 1) = 0
  BY TimesEmpty, EmptySeq DEF Scrub
<1>2. /\ render.pc = "scrub" /\ render'.pc = "critical" /\ render'.due = <<>>
      /\ render'.lane = [k \in 1 .. render.depth |-> At(2, "on")]
      /\ render.depth \in Nat
  BY DEF Scrub, Shapes, RenderShape
<1>4. \A m : Times(MessagesOf(render.lane)', m, 1) = IF m = "on" THEN render.depth ELSE 0
  BY <1>2, ReplayCounts
<1>5. \A m : Laid(m)' = IF m = "on" THEN render.depth ELSE 0
  BY <1>1, <1>2, <1>4 DEF Laid
<1>7. \A m : Queued(m)' = 0 /\ Mirroring(m) = 0 /\ Mirroring(m)' = 0
  BY <1>1, <1>2 DEF Queued, Mirroring, Bit
<1>8. latch'.noteOffs = 0
  BY DEF Scrub, NoLatch
<1> QED BY <1>1, <1>5, <1>7, <1>8

LEMMA DrainCriticalCounts ==
    ASSUME Shapes, DrainCritical
    PROVE  /\ ring' = ring
           /\ \A m : Mirroring(m) = 0 /\ Mirroring(m)' = 0
           /\ \A m \in {"on", "off"} : Laid(m)' = Laid(m)
           /\ Laid("notesOff")' = Laid("notesOff") + Bit(latch.notesOff)
           /\ latch'.noteOffs = latch.noteOffs
<1>1. PICK value \in {"down", "up"}, pedal \in BOOLEAN :
          render' = [render EXCEPT !.pc = "pop", !.bypassed = FALSE,
              !.lane = Put(Put(Put(render.lane, 1, "notesOff", latch.notesOff), 1, value, pedal),
                           1, "reset", latch.reset)]
  BY DEF DrainCritical
<1>2. latch.notesOff \in BOOLEAN /\ latch.reset \in BOOLEAN /\ render.lane \in Seq(LaneEvents)
  BY Components DEF Shapes, LatchShape
<1> DEFINE one == Put(render.lane, 1, "notesOff", latch.notesOff)
           two == Put(one, 1, value, pedal)
           three == Put(two, 1, "reset", latch.reset)
<1>3. render'.pc = "pop" /\ render'.lane = three /\ render'.due = render.due /\ ring' = ring
      /\ render.pc \in {"idle", "critical"}
  BY <1>1 DEF DrainCritical, Shapes, RenderShape
<1>4. 1 \in 0 .. 4 /\ "notesOff" \in Messages /\ value \in Messages /\ "reset" \in Messages
  BY DEF Messages
<1>5. one \in Seq(LaneEvents)
      /\ \A m : Times(MessagesOf(one), m, 1)
                  = Times(MessagesOf(render.lane), m, 1) + Bit(latch.notesOff /\ "notesOff" = m)
  <2>1. one \in Seq(LaneEvents)
    BY <1>2, <1>4, PutCounts
  <2>2. ASSUME NEW m
        PROVE  Times(MessagesOf(one), m, 1)
                 = Times(MessagesOf(render.lane), m, 1) + Bit(latch.notesOff /\ "notesOff" = m)
    <3>1. PICK cleanup \in BOOLEAN : cleanup = latch.notesOff
      BY <1>2
    <3>2. one = Put(render.lane, 1, "notesOff", cleanup)
      BY <3>1
    <3> HIDE DEF one
    <3>3. Times(MessagesOf(Put(render.lane, 1, "notesOff", cleanup)), m, 1)
            = Times(MessagesOf(render.lane), m, 1) + Bit(cleanup /\ "notesOff" = m)
      BY ONLY <1>2, <1>4, PutCounts
    <3> QED BY <3>1, <3>2, <3>3
  <2> QED BY <2>1, <2>2
<1> HIDE DEF one
<1>6. two \in Seq(LaneEvents)
      /\ \A m : Times(MessagesOf(two), m, 1) = Times(MessagesOf(one), m, 1) + Bit(pedal /\ value = m)
  BY <1>4, <1>5, PutCounts
<1> HIDE DEF two
<1>7. \A m : Times(MessagesOf(three), m, 1)
               = Times(MessagesOf(two), m, 1) + Bit(latch.reset /\ "reset" = m)
  <2> SUFFICES ASSUME NEW m
               PROVE  Times(MessagesOf(three), m, 1)
                        = Times(MessagesOf(two), m, 1) + Bit(latch.reset /\ "reset" = m)
    OBVIOUS
  <2>1. PICK reset \in BOOLEAN : reset = latch.reset
    BY <1>2
  <2>2. three = Put(two, 1, "reset", reset)
    BY <2>1
  <2> HIDE DEF three
  <2>3. Times(MessagesOf(Put(two, 1, "reset", reset)), m, 1)
          = Times(MessagesOf(two), m, 1) + Bit(reset /\ "reset" = m)
    BY ONLY <1>4, <1>6, PutCounts
  <2> QED BY <2>1, <2>2, <2>3
<1> HIDE DEF three
<1>8. \A m : Times(MessagesOf(render.lane), m, 1) \in Nat /\ Times(render.due, m, 1) \in Nat
  BY CountTypes
<1>9. ASSUME NEW m \in {"on", "off", "notesOff"}
      PROVE  Laid(m)' = Laid(m) + Bit(latch.notesOff /\ "notesOff" = m)
  <2>1. Bit(pedal /\ value = m) = 0 /\ Bit(latch.reset /\ "reset" = m) = 0
        /\ Bit(latch.notesOff /\ "notesOff" = m) \in Nat
    BY DEF Bit
  <2> QED BY <1>3, <1>5, <1>6, <1>7, <1>8, <2>1 DEF Laid
<1>10. \A m \in {"on", "off"} : Bit(latch.notesOff /\ "notesOff" = m) = 0 /\ Laid(m) \in Nat
  BY CountTypes DEF Bit
<1>11. Bit(latch.notesOff /\ "notesOff" = "notesOff") = Bit(latch.notesOff)
  BY DEF Bit
<1>12. \A m : Mirroring(m) = 0 /\ Mirroring(m)' = 0
  BY <1>3 DEF Mirroring, Bit
<1>13. latch'.noteOffs = latch.noteOffs
  BY DEF DrainCritical, Shapes, LatchShape
<1> QED BY <1>3, <1>9, <1>10, <1>11, <1>12, <1>13

LEMMA DrainDroppedCounts ==
    ASSUME Shapes, DrainDropped
    PROVE  /\ ring' = ring /\ ring = <<>>
           /\ \A m : Mirroring(m) = 0 /\ Mirroring(m)' = 0
           /\ \A m : Laid(m)' = Laid(m) + IF m = "off" THEN latch.noteOffs ELSE 0
           /\ latch'.noteOffs = 0
<1>1. PICK structural \in BOOLEAN :
          render' = [render EXCEPT !.pc = "play", !.lane = <<>>,
              !.due = InOrder(render.lane \o [k \in 1 .. latch.noteOffs |-> At(4, "off")], structural)]
  BY DEF DrainDropped
<1> DEFINE due == InOrder(render.lane \o [k \in 1 .. latch.noteOffs |-> At(4, "off")], structural)
<1>2. /\ render'.pc = "play" /\ render'.lane = <<>> /\ render'.due = due /\ ring' = ring /\ ring = <<>>
      /\ render.pc = "pop" /\ render.due = <<>>
  BY <1>1 DEF DrainDropped, Shapes, RenderShape
<1>3. \A m : Times(due, m, 1)
              = Times(MessagesOf(render.lane), m, 1) + IF m = "off" THEN latch.noteOffs ELSE 0
  BY Components, DroppedCounts
<1> HIDE DEF due
<1>4. MessagesOf(<<>>) = <<>> /\ \A m : Times(<<>>, m, 1) = 0
  <2>1. <<>> \in Seq(LaneEvents)
    BY EmptySeq
  <2> QED BY <2>1, LaneMessages, EmptySeq, TimesEmpty
<1>5. \A m : Times(MessagesOf(render.lane), m, 1) \in Nat
  BY CountTypes
<1>6. latch.noteOffs \in Nat
  BY CountTypes
<1>7. \A m : Laid(m)' = Laid(m) + IF m = "off" THEN latch.noteOffs ELSE 0
  BY <1>2, <1>3, <1>4, <1>5, <1>6 DEF Laid
<1>8. \A m : Mirroring(m) = 0 /\ Mirroring(m)' = 0
  BY <1>2 DEF Mirroring, Bit
<1>9. latch'.noteOffs = 0
  BY DEF DrainDropped, Shapes, LatchShape
<1> QED BY <1>2, <1>7, <1>8, <1>9

LEMMA PlayCounts ==
    ASSUME Shapes, Play
    PROVE  /\ ring' = ring /\ Head(render.due) \in Messages
           /\ \A m : Mirroring(m) = 0 /\ Mirroring(m)' = 0
           /\ \A m : Laid(m) = Laid(m)' + Bit(Head(render.due) = m) /\ Laid(m)' \in Nat
<1>1. /\ ring' = ring /\ render.due # <<>> /\ render'.pc = "play" /\ render.pc = "play"
      /\ render'.due = Tail(render.due) /\ render'.lane = render.lane /\ render.due \in Seq(Messages)
  BY DEF Play, Shapes, RenderShape
<1>2. /\ \A m : Times(render.due, m, 1) = Times(render'.due, m, 1) + Bit(Head(render.due) = m)
      /\ Head(render.due) \in Messages /\ Tail(render.due) \in Seq(Messages)
  <2>1. Len(render.due) \in Nat \ {0} /\ Head(render.due) \in Messages /\ Tail(render.due) \in Seq(Messages)
    BY <1>1, HeadTailProperties, LenProperties, EmptySeq
  <2>2. \A m : Times(render.due, m, 1) = Times(render.due, m, 2) + Bit(Head(render.due) = m)
    BY <1>1, TimesTail
  <2>3. ASSUME NEW m PROVE Times(Tail(render.due), m, 1) = Times(render.due, m, 2)
    <3>1. 1 \in Nat /\ 1 > 0 /\ 1 + 1 = 2
      OBVIOUS
    <3> QED BY <1>1, <3>1, TimesOfTail
  <2> QED BY <1>1, <2>1, <2>2, <2>3
<1>3. \A m : /\ Times(MessagesOf(render.lane), m, 1) \in Nat /\ Times(render.due, m, 1) \in Nat
             /\ Times(render'.due, m, 1) \in Nat /\ Bit(Head(render.due) = m) \in Nat
  BY <1>1, <1>2, CountTypes, TimesType DEF Bit
<1>4. \A m : Laid(m) = Laid(m)' + Bit(Head(render.due) = m) /\ Laid(m)' \in Nat
  BY <1>1, <1>2, <1>3 DEF Laid
<1>5. \A m : Mirroring(m) = 0 /\ Mirroring(m)' = 0
  BY <1>1 DEF Mirroring, Bit
<1> QED BY <1>1, <1>2, <1>4, <1>5

\* The steps that leave the messages under way as they are.
LEMMA SameCounts ==
    ASSUME Shapes, Store \/ Capture \/ RenderTune \/ TuneRendered \/ Reconcile \/ UNCHANGED vars
    PROVE  /\ ring' = ring
           /\ \A m : Mirroring(m)' = Mirroring(m) /\ Laid(m)' = Laid(m) /\ Queued(m)' = Queued(m)
<1>1. CASE Store \/ UNCHANGED vars
  BY <1>1 DEF Store, vars, Mirroring, Laid, Queued
<1>2. CASE Capture \/ RenderTune \/ TuneRendered \/ Reconcile
  <2>1. ring' = ring /\ render'.lane = render.lane /\ render'.due = render.due
        /\ render.pc # "mirror" /\ render'.pc # "mirror"
    BY <1>2 DEF Capture, RenderTune, TuneRendered, Reconcile, Shapes, RenderShape
  <2> QED BY <2>1 DEF Mirroring, Laid, Queued, Bit
<1> QED BY <1>1, <1>2

-----------------------------------------------------------------------------
(* Cleanups.                                                               *)

LEMMA HistoryGrows == [Next]_vars => history \subseteq history'
<1> SUFFICES ASSUME [Next]_vars PROVE history \subseteq history'
  OBVIOUS
<1>1. ASSUME NEW message \in Messages, Send(message) PROVE history \subseteq history'
  BY <1>1 DEF Send
<1>2. CASE Store BY <1>2 DEF Store
<1>3. CASE Capture BY <1>3 DEF Capture
<1>4. CASE Scrub BY <1>4 DEF Scrub
<1>5. CASE DrainCritical BY <1>5 DEF DrainCritical
<1>6. CASE Pop BY <1>6 DEF Pop
<1>7. CASE Dispatch BY <1>7 DEF Dispatch
<1>8. CASE DrainDropped BY <1>8 DEF DrainDropped
<1>9. CASE Play BY <1>9 DEF Play
<1>10. CASE Reconcile BY <1>10 DEF Reconcile
<1>11. CASE UNCHANGED vars BY <1>11 DEF vars
<1>12. CASE StartTune BY <1>12 DEF StartTune
<1>13. CASE RenderTune \/ TuneRendered BY <1>13 DEF RenderTune, TuneRendered
<1> QED
  BY <1>1, <1>2, <1>3, <1>4, <1>5, <1>6, <1>7, <1>8, <1>9, <1>10, <1>11, <1>12, <1>13
  DEF Next, Block

LEMMA UncleanedStep ==
    ASSUME Shapes, Uncleaned, history' \cap {"killed", "bypassed"} = {}, [Next]_vars
    PROVE  Uncleaned'
<1> USE DEF Uncleaned
<1>0. /\ Shapes /\ SenderShape /\ MirrorShape /\ LatchShape /\ RenderShape
      /\ Uncleaned /\ "killed" \notin history' /\ "bypassed" \notin history'
  BY DEF Shapes
<1>1. ASSUME NEW message \in Messages, Send(message) PROVE Uncleaned'
  <2>1. message # "notesOff"
    BY <1>0, <1>1 DEF Send, Excused
  <2>2. Bit(~ Full /\ message = "notesOff") = 0 /\ Queued("notesOff") \in Nat
    BY <2>1, CountTypes, <1>0 DEF Bit
  <2>3. Queued("notesOff")' = 0 /\ Laid("notesOff")' = 0
    BY <1>0, <1>1, <2>2, SendCounts
  <2>4. PICK t : sender' = Idle \/ sender' = [Idle EXCEPT !.message = message, !.todo = t]
    BY <1>1 DEF Send
  <2>5. sender'.gen = 0 /\ sender'.message # "notesOff"
    <3>1. CASE sender' = Idle
      BY <3>1 DEF Idle
    <3>2. CASE sender' = [Idle EXCEPT !.message = message, !.todo = t]
      BY <2>1, <3>2 DEF Idle
    <3> QED BY <2>4, <3>1, <3>2
  <2> QED BY <1>0, <1>1, <2>3, <2>5 DEF Send
<1>2. CASE Store
  <2> DEFINE op == Head(sender.todo)
  <2>1. op \notin {"bump", "notesOff"}
    <3>1. sender.todo \in ReleaseTodos \cup PedalTodos
      BY <1>0, <1>2 DEF Store, SenderShape
    <3> QED BY <3>1, TodoTails
  <2>2. Queued("notesOff")' = 0 /\ Laid("notesOff")' = 0
    BY <1>0, <1>2, SameCounts
  <2>3. mirror'.gen = 0 /\ mirror'.noteGen = 0
    <3>1. mirror' \in {[mirror EXCEPT !.pedal = (sender.message = "down")], mirror, WriteMirror("off", sender)}
      BY <1>2, <2>1 DEF Store
    <3> QED BY <1>0, <3>1 DEF WriteMirror, MirrorShape
  <2>4. sender'.gen = 0 /\ sender'.message # "notesOff"
    <3> DEFINE t == Tail(sender.todo)
               done == IF t = <<>> THEN Idle ELSE [sender EXCEPT !.todo = t]
    <3>1. sender' = done \/ sender' = [done EXCEPT !.gen = mirror.gen, !.depth = MirrorDepth]
      BY <1>2 DEF Store
    <3> HIDE DEF t
    <3>2. /\ done.gen = 0 /\ done.message # "notesOff"
          /\ done \in [message : Messages, todo : {t}, gen : Nat, depth : Nat]
      BY <1>0 DEF Idle, SenderShape, Messages
    <3> HIDE DEF done
    <3> QED BY <1>0, <3>1, <3>2
  <2>5. ~ latch'.notesOff
    <3>1. CASE op = "count"
      <4>1. latch.noteOffs # DroppedLimit
        BY <1>0, <1>2, <3>1 DEF Store
      <4>2. latch.noteOffs < DroppedLimit
        BY <1>0, <4>1, DroppedLimitAssumption DEF LatchShape
      <4>3. latch' = [latch EXCEPT !.noteOffs = @ + 1]
        BY <1>2, <3>1, <4>2 DEF Store, Count
      <4> QED BY <1>0, <4>3 DEF LatchShape
    <3>2. CASE op # "count"
      <4>1. latch' \in {latch, [latch EXCEPT !.reset = TRUE], [latch EXCEPT !.dirty = TRUE],
                        [latch EXCEPT !.off = TRUE], [latch EXCEPT !.sustain = (sender.message = "down")]}
        BY <1>2, <2>1, <3>2 DEF Store
      <4> QED BY <1>0, <4>1 DEF LatchShape
    <3> QED BY <3>1, <3>2
  <2>6. render' = render
    BY <1>2 DEF Store
  <2> QED BY <1>0, <2>2, <2>3, <2>4, <2>5, <2>6
<1>3. CASE Capture
  <2>1. Queued("notesOff")' = 0 /\ Laid("notesOff")' = 0
    BY <1>0, <1>3, SameCounts
  <2> QED BY <1>0, <1>3, <2>1 DEF Capture, RenderShape
<1>4. CASE Scrub
  <2>1. Queued("notesOff")' = 0 /\ Laid("notesOff")' = 0
    BY <1>0, <1>4, ScrubCounts
  <2> QED BY <1>0, <1>4, <2>1 DEF Scrub, RenderShape, NoLatch
<1>5. CASE DrainCritical
  <2>1. Bit(latch.notesOff) = 0
    BY <1>0 DEF Bit
  <2>2. Queued("notesOff")' = 0 /\ Laid("notesOff")' = 0
    BY <1>0, <1>5, <2>1, DrainCriticalCounts DEF Queued
  <2>3. ~ latch'.notesOff /\ sender' = sender /\ render'.gen = render.gen
        /\ mirror'.gen = mirror.gen /\ mirror'.noteGen = mirror.noteGen
    BY <1>0, <1>5 DEF DrainCritical, RenderShape, LatchShape, MirrorShape
  <2> QED BY <1>0, <2>2, <2>3
<1>6. CASE Pop
  <2>1. Queued("notesOff")' \in Nat /\ Bit(Head(ring) = "notesOff") \in {0, 1}
    <3>1. ring' \in Seq(Messages)
      BY <1>0, <1>6, Components, HeadTailProperties DEF Pop
    <3> QED BY <3>1, TimesType DEF Queued, Bit
  <2>2. Queued("notesOff")' = 0 /\ Bit(Head(ring) = "notesOff") = 0
    BY <1>0, <1>6, <2>1, PopCounts
  <2>3. Bit(Head(ring) \notin {"on", "off"} /\ Head(ring) = "notesOff") = 0
    BY <2>2 DEF Bit
  <2>4. Laid("notesOff")' = 0
    BY <1>0, <1>6, <2>3, PopCounts
  <2>5. render'.gen = 0
    BY <1>0, <1>6 DEF Pop, RenderShape
  <2> QED BY <1>0, <1>6, <2>2, <2>4, <2>5 DEF Pop
<1>7. CASE Dispatch
  <2>1. Bit(render.message = "notesOff") = 0
    BY <1>0, <1>7, DispatchCounts DEF Bit
  <2>2. Queued("notesOff")' = 0 /\ Laid("notesOff")' = 0
    BY <1>0, <1>7, <2>1, DispatchCounts DEF Queued
  <2>3. render'.gen = 0 /\ mirror'.gen = 0 /\ mirror'.noteGen = 0
    BY <1>0, <1>7 DEF Dispatch, RenderShape, MirrorShape, WriteMirror
  <2> QED BY <1>0, <1>7, <2>2, <2>3 DEF Dispatch
<1>8. CASE DrainDropped
  <2>1. Queued("notesOff")' = 0 /\ Laid("notesOff")' = 0
    BY <1>0, <1>8, DrainDroppedCounts DEF Queued
  <2>2. render'.gen = 0 /\ latch'.notesOff = latch.notesOff
    BY <1>0, <1>8 DEF DrainDropped, RenderShape, LatchShape
  <2> QED BY <1>0, <1>8, <2>1, <2>2 DEF DrainDropped
<1>9. CASE Play
  <2>1. Laid("notesOff")' \in Nat /\ Bit(Head(render.due) = "notesOff") \in {0, 1}
    <3>1. /\ render'.due \in Seq(Messages) /\ render'.lane \in Seq(LaneEvents)
      <4>1. render.due # <<>> /\ render'.due = Tail(render.due) /\ render'.lane = render.lane
        BY <1>0, <1>9 DEF Play, RenderShape
      <4> QED BY <1>0, <4>1, Components, HeadTailProperties
    <3>2. MessagesOf(render'.lane) \in Seq(Messages)
      BY <3>1, LaneMessages
    <3>3. Times(MessagesOf(render'.lane), "notesOff", 1) \in Nat /\ Times(render'.due, "notesOff", 1) \in Nat
      BY <3>1, <3>2, TimesType
    <3> QED BY <3>3 DEF Laid, Bit
  <2>2. Laid("notesOff")' = 0 /\ Head(render.due) # "notesOff"
    <3>1. Bit(Head(render.due) = "notesOff") = 0 /\ Laid("notesOff")' = 0
      BY <1>0, <1>9, <2>1, PlayCounts
    <3> QED BY <3>1 DEF Bit
  <2>3. Queued("notesOff")' = 0
    BY <1>0, <1>9, PlayCounts DEF Queued
  <2>4. mirror' = mirror /\ sender' = sender /\ latch' = latch /\ render'.gen = render.gen
    BY <1>0, <1>9, <2>2 DEF Play, RenderShape
  <2> QED BY <1>0, <2>2, <2>3, <2>4
<1>10. CASE Reconcile
  <2>1. Queued("notesOff")' = 0 /\ Laid("notesOff")' = 0
    BY <1>0, <1>10, SameCounts
  <2> QED BY <1>0, <1>10, <2>1 DEF Reconcile, RenderShape
<1>11. CASE UNCHANGED vars
  <2>1. Queued("notesOff")' = 0 /\ Laid("notesOff")' = 0
    BY <1>0, <1>11, SameCounts
  <2> QED BY <1>0, <1>11, <2>1 DEF vars
<1>12. CASE StartTune BY <1>0, <1>12 DEF StartTune
<1>13. CASE RenderTune \/ TuneRendered
  <2>1. Queued("notesOff")' = 0 /\ Laid("notesOff")' = 0
    BY <1>0, <1>13, SameCounts
  <2> QED BY <1>0, <1>13, <2>1 DEF RenderTune, TuneRendered, RenderShape
<1> QED
  BY <1>1, <1>2, <1>3, <1>4, <1>5, <1>6, <1>7, <1>8, <1>9, <1>10, <1>11, <1>12, <1>13
  DEF Next, Block

\* What a store leaves to be done.
LEMMA StoreTodo ==
    ASSUME Shapes, Store
    PROVE  /\ sender.todo # <<>> /\ sender'.todo = Tail(sender.todo)
           /\ Latching' => Latching /\ sender.todo # <<"write">>
           /\ Latching <=> Head(sender.todo) \in {"count", "read", "write"}
           /\ Counting' = 0
           /\ Reading' = Bit(sender.todo = <<"count", "read", "write">>)
           /\ ring' = ring /\ render' = render /\ pool' = pool /\ player' = player
<1> DEFINE t == Tail(sender.todo)
           done == IF t = <<>> THEN Idle ELSE [sender EXCEPT !.todo = t]
<1>1. /\ sender' = done \/ sender' = [done EXCEPT !.gen = mirror.gen, !.depth = MirrorDepth]
      /\ sender.todo # <<>> /\ ring' = ring /\ render' = render /\ pool' = pool /\ player' = player
  BY DEF Store
<1>2. SenderShape
  BY DEF Shapes
<1> HIDE DEF t
<1>3. done.todo = t /\ done \in [message : Messages, todo : {t}, gen : Nat, depth : Nat]
  BY <1>2 DEF Idle, SenderShape, Messages
<1> HIDE DEF done
<1>4. sender'.todo = t
  BY <1>1, <1>3
<1>5. CASE sender.todo \in ReleaseTodos
  <2>1. sender.todo \in {<<"count", "read", "write">>, <<"read", "write">>, <<"write">>}
    BY <1>5 DEF ReleaseTodos
  <2> DEFINE all == <<"count", "read", "write">>
             two == <<"read", "write">>
             one == <<"write">>
  <2>0. /\ all # two /\ all # one /\ two # one /\ all # <<>> /\ two # <<>> /\ one # <<>>
        /\ ReleaseTodos = {all, two, one} /\ Tail(all) = two /\ Tail(two) = one /\ Tail(one) = <<>>
    BY DEF ReleaseTodos
  <2>2. /\ t \in {two, one, <<>>}
        /\ t = two <=> sender.todo = all
        /\ t \in ReleaseTodos => sender.todo # one
        /\ t # all
    <3> HIDE DEF all, two, one
    <3> QED BY <2>1, <2>0 DEF t, all, two, one
  <2>3. Counting' = 0 /\ Reading' = Bit(sender.todo = <<"count", "read", "write">>)
    BY <1>4, <2>2 DEF Counting, Reading, Bit
  <2>4. Head(sender.todo) \in {"count", "read", "write"}
    BY <1>5, TodoTails
  <2> QED BY <1>1, <1>4, <1>5, <2>2, <2>3, <2>4 DEF t, Latching
<1>6. CASE sender.todo \notin ReleaseTodos
  <2>1. /\ t \in {<<>>} \cup PedalTodos \cup CleanupTodos
        /\ Head(sender.todo) \in {"pedal", "sustain", "dirty", "off", "reset", "bump", "notesOff"}
    BY <1>1, <1>2, <1>6, TodoTails DEF t, SenderShape
  <2>2. t \notin ReleaseTodos /\ sender.todo # <<"count", "read", "write">>
    BY <1>6, <2>1, TodosDisjoint DEF ReleaseTodos
  <2>3. Counting' = 0 /\ Reading' = Bit(sender.todo = <<"count", "read", "write">>)
    BY <1>4, <2>2 DEF Counting, Reading, Bit, ReleaseTodos
  <2> QED BY <1>1, <1>4, <1>6, <2>1, <2>2, <2>3 DEF t, Latching
<1> QED BY <1>5, <1>6

LEMMA ReleasedKeyStep ==
    ASSUME Shapes, ReleasedKey, [Next]_vars
    PROVE  ReleasedKey'
<1> USE DEF ReleasedKey
<1>1. ASSUME NEW message \in Messages, Send(message) PROVE ReleasedKey'
  <2>1. CASE message = "off"
    BY <1>1, <2>1, Components DEF Send, Played, Shapes, PlayerShape
  <2>2. CASE message # "off"
    <3>1. \A t : t = Accepted(message) \/ t = Rejected(message) => t \notin ReleaseTodos
      BY <2>2, TodosDisjoint DEF Accepted, Rejected, ReleaseTodos, Messages
    <3>2. sender'.todo \in {<<>>, Accepted(message), Rejected(message)}
      BY <1>1 DEF Send, Idle
    <3> QED BY <3>1, <3>2, TodosDisjoint DEF Latching
  <2> QED BY <2>1, <2>2
<1>2. CASE Store
  <2>1. player' = player
    BY <1>2 DEF Store
  <2>2. Latching' => Latching
    BY <1>2, StoreTodo
  <2> QED BY <2>1, <2>2
<1>3. CASE Capture BY <1>3 DEF Capture, Latching
<1>4. CASE Scrub BY <1>4 DEF Scrub, Latching
<1>5. CASE DrainCritical BY <1>5 DEF DrainCritical, Latching
<1>6. CASE Pop
  BY <1>6 DEF Pop, Latching
<1>7. CASE Dispatch BY <1>7 DEF Dispatch, Latching
<1>8. CASE DrainDropped BY <1>8 DEF DrainDropped, Latching
<1>9. CASE Play BY <1>9 DEF Play, Latching
<1>10. CASE Reconcile BY <1>10 DEF Reconcile, Latching
<1>11. CASE UNCHANGED vars BY <1>11 DEF vars, Latching
<1>12. CASE StartTune BY <1>12 DEF StartTune, Latching
<1>13. CASE RenderTune \/ TuneRendered BY <1>13 DEF RenderTune, TuneRendered, Latching
<1> QED
  BY <1>1, <1>2, <1>3, <1>4, <1>5, <1>6, <1>7, <1>8, <1>9, <1>10, <1>11, <1>12, <1>13
  DEF Next, Block

-----------------------------------------------------------------------------
(* The mirror is exact.                                                    *)

LEMMA MirrorIsCurrent == ASSUME Uncleaned PROVE MirrorDepth = mirror.depth
BY DEF Uncleaned, MirrorDepth

\* A message that is not in the ring is not counted.
LEMMA NotQueued ==
    ASSUME NEW s \in Seq(Messages), NEW m, m \notin Range(s), NEW k \in Nat, k > 0
    PROVE  Times(s, m, k) = 0
<1>1. Len(s) \in Nat /\ DOMAIN s = 1 .. Len(s)
  BY LenProperties
<1>2. {j \in k .. Len(s) : s[j] = m} = {}
  BY <1>1 DEF Range
<1> QED BY <1>2, FS_EmptySet DEF Times

LEMMA DepthTypes ==
    ASSUME Shapes PROVE \A k \in Nat : DepthBefore(k) \in Int
<1> SUFFICES ASSUME NEW k \in Nat PROVE DepthBefore(k) \in Int
  OBVIOUS
<1>1. Key \in Nat /\ Times(ring, "off", k) \in Nat /\ Times(ring, "on", k) \in Nat
  BY CountTypes
<1> QED BY <1>1 DEF DepthBefore

\* The steps that leave the mirror and the messages for it alone.
LEMMA MirrorStays ==
    ASSUME MirrorInv, ring' = ring, player' = player, mirror'.depth = mirror.depth,
           sender' = sender, \A m : Mirroring(m)' = Mirroring(m),
           render'.pc = "mirror" => render.pc = "mirror" /\ render'.depth = render.depth
    PROVE  MirrorInv'
BY DEF MirrorInv, DepthBefore, DepthBeforeThis, Key, Queued, Latching

\* What the player sends.
LEMMA SendKey ==
    ASSUME Shapes, NEW message \in Messages, Send(message)
    PROVE  /\ sender.todo = <<>> /\ ~ Latching
           /\ message = "on" => Key = 0 /\ Key' = 1
           /\ message = "off" => Key = 1 /\ Key' = 0
           /\ message \notin {"on", "off"} => Key' = Key
           /\ Latching' <=> Full /\ message = "off"
           /\ Latching' => sender'.todo = <<"count", "read", "write">>
           /\ mirror' = mirror /\ render' = render /\ latch' = latch /\ pool' = pool
<1>1. /\ sender.todo = <<>> /\ Sensible(message) /\ player' = Played(message)
      /\ mirror' = mirror /\ render' = render /\ latch' = latch /\ pool' = pool
  BY DEF Send
<1>2. ~ Latching
  BY <1>1, TodosDisjoint DEF Latching
<1>3. player'.key = IF message \in {"on", "off"} THEN message = "on" ELSE player.key
  BY <1>1 DEF Played, Shapes, PlayerShape
<1>4. /\ message = "on" => Key = 0 /\ Key' = 1
      /\ message = "off" => Key = 1 /\ Key' = 0
      /\ message \notin {"on", "off"} => Key' = Key
  BY <1>1, <1>3 DEF Sensible, Key, Bit
<1>5. CASE Full /\ message = "off"
  <2>1. Rejected(message) = <<"count", "read", "write">> /\ Rejected(message) # <<>>
    BY <1>5 DEF Rejected
  <2>2. sender' = [Idle EXCEPT !.message = message, !.todo = Rejected(message)]
    BY <1>5, <2>1 DEF Send
  <2>3. sender'.todo = <<"count", "read", "write">>
    BY <2>1, <2>2 DEF Idle
  <2>4. Latching'
    BY <2>3 DEF Latching, ReleaseTodos
  <2> QED BY <1>1, <1>2, <1>4, <1>5, <2>3, <2>4
<1>6. CASE ~ (Full /\ message = "off")
  <2>1. \A t : t = Accepted(message) \/ (message # "off" /\ t = Rejected(message))
                => t \notin ReleaseTodos
    BY TodosDisjoint DEF Accepted, Rejected, ReleaseTodos, Messages
  <2>2. sender'.todo \in {<<>>, IF Full THEN Rejected(message) ELSE Accepted(message)}
    BY DEF Send, Idle
  <2>3. ~ Latching'
    BY <1>6, <2>1, <2>2, TodosDisjoint DEF Latching
  <2> QED BY <1>1, <1>2, <1>4, <1>6, <2>3
<1> QED BY <1>5, <1>6

LEMMA MirrorStep ==
    ASSUME Shapes, Uncleaned, ReleasedKey, MirrorInv, history' \cap MirrorExcuses = {}, [Next]_vars
    PROVE  MirrorInv'
<1>0. /\ Shapes /\ MirrorShape /\ RenderShape /\ MirrorInv
      /\ history' \cap MirrorExcuses = {} /\ MirrorDepth = mirror.depth
  BY MirrorIsCurrent DEF Shapes
<1>1. ASSUME NEW message \in Messages, Send(message) PROVE MirrorInv'
  <2>1. /\ \A k \in Nat : DepthBefore(k) \in Int
        /\ \A m : \A k \in Nat : Times(ring, m, k) \in Nat
        /\ Len(ring) \in Nat /\ Key \in {0, 1} /\ \A m : Mirroring(m) \in {0, 1}
    BY <1>0, CountTypes, DepthTypes
  <2>2. Key' \in {0, 1}
    BY DEF Key, Bit
  <2>3. history' = history \cup Excused(message, Full)
    BY <1>1 DEF Send
  <2>4. CASE Full /\ message = "off"
    <3>1. "on" \notin Range(ring) /\ render.pc # "mirror"
      BY <1>0, <2>3, <2>4 DEF Excused, MirrorExcuses, PressesUnderWay
    <3>2. \A k \in Nat : k > 0 => Times(ring, "on", k) = 0
      BY <1>0, <3>1, Components, NotQueued
    <3>3. ring' = ring /\ Key = 1 /\ Key' = 0
      BY <1>0, <1>1, <2>4, SendKey DEF Send
    <3>4. ASSUME NEW k \in 1 .. Len(ring) + 1
          PROVE  Times(ring, "off", k) = 0 /\ DepthBefore(k) = 1 /\ DepthBefore(k)' = 0
      <4>1. k \in Nat /\ k > 0
        BY <2>1
      <4>2. DepthBefore(k) \in {0, 1} /\ Times(ring, "off", k) \in Nat /\ Times(ring, "on", k) = 0
        BY <1>0, <2>1, <3>2, <4>1 DEF MirrorInv
      <4>3. Times(ring, "off", k) = 0
        BY <3>3, <4>2 DEF DepthBefore
      <4> QED BY <3>3, <4>2, <4>3 DEF DepthBefore
    <3>5. 1 \in 1 .. Len(ring) + 1
      BY <2>1
    <3>6. Queued("on") = 0 /\ Queued("off") = 0 /\ DepthBefore(1) = 1 /\ DepthBefore(1)' = 0
      BY <3>2, <3>4, <3>5 DEF Queued
    <3>7. Mirroring("on") = 0 /\ Mirroring("off") = 0
      BY <3>1 DEF Mirroring, Bit
    <3>8. DepthBeforeThis = 1 /\ mirror.depth = 1 /\ Latching'
      <4>1. ~ Latching /\ Latching'
        BY <1>0, <1>1, <2>4, SendKey
      <4> QED BY <1>0, <3>6, <3>7, <4>1 DEF MirrorInv, DepthBeforeThis
    <3>9. render' = render /\ mirror' = mirror /\ sender'.todo # <<"write">>
      <4>1. <<"count", "read", "write">> # <<"write">>
        OBVIOUS
      <4> QED BY <1>0, <1>1, <2>4, <4>1, SendKey
    <3>10. DepthBeforeThis' = 0
      BY <3>6, <3>7, <3>9 DEF DepthBeforeThis, Mirroring
    <3>11. \A k \in 1 .. Len(ring') + 1 : DepthBefore(k)' \in {0, 1}
      BY <3>3, <3>4
    <3>12. Queued("on")' = 0 /\ Queued("off")' = 0
      BY <3>3, <3>6 DEF Queued
    <3> QED BY <3>1, <3>8, <3>9, <3>10, <3>11, <3>12 DEF MirrorInv
  <2>5. CASE ~ (Full /\ message = "off")
    <3>1. ~ (Full /\ message = "on")
      BY <1>0, <2>3 DEF Excused, MirrorExcuses
    <3>2. \A k \in 1 .. Len(ring) + 1 :
            /\ Times(ring', "on", k) = Times(ring, "on", k) + Bit(message = "on")
            /\ Times(ring', "off", k) = Times(ring, "off", k) + Bit(message = "off")
      <4>1. Bit(~ Full /\ message = "on") = Bit(message = "on")
            /\ Bit(~ Full /\ message = "off") = Bit(message = "off")
        BY <2>5, <3>1 DEF Bit
      <4> QED BY <1>0, <1>1, <4>1, SendCounts
    <3>3. Key' = Key + Bit(message = "on") - Bit(message = "off")
      BY <1>0, <1>1, <2>1, SendKey DEF Bit
    <3>4. Bit(message = "on") \in {0, 1} /\ Bit(message = "off") \in {0, 1}
      BY DEF Bit
    <3>5. ASSUME NEW k \in 1 .. Len(ring) + 1 PROVE DepthBefore(k)' = DepthBefore(k)
      <4>1. Times(ring, "on", k) \in Nat /\ Times(ring, "off", k) \in Nat
        BY <2>1
      <4>2. DepthBefore(k)' = Key' + Times(ring', "off", k) - Times(ring', "on", k)
        BY DEF DepthBefore
      <4>3. DepthBefore(k)' = (Key + Bit(message = "on") - Bit(message = "off"))
                               + (Times(ring, "off", k) + Bit(message = "off"))
                               - (Times(ring, "on", k) + Bit(message = "on"))
        BY <3>2, <3>3, <4>2
      <4>4. DepthBefore(k) = Key + Times(ring, "off", k) - Times(ring, "on", k)
        BY DEF DepthBefore
      <4> DEFINE on == Bit(message = "on")
                 off == Bit(message = "off")
                 ons == Times(ring, "on", k)
                 offs == Times(ring, "off", k)
      <4>5. on \in Int /\ off \in Int /\ Key \in Int /\ ons \in Int /\ offs \in Int
        BY <2>1, <3>4, <4>1
      <4> HIDE DEF on, off, ons, offs
      <4>6. (Key + on - off) + (offs + off) - (ons + on) = Key + offs - ons
        BY <4>5
      <4> QED BY <4>3, <4>4, <4>6 DEF on, off, ons, offs
    <3>6. ASSUME NEW k \in 1 .. Len(ring') + 1 PROVE DepthBefore(k)' \in {0, 1}
      <4>1. CASE k \in 1 .. Len(ring) + 1
        BY <1>0, <3>5, <4>1 DEF MirrorInv
      <4>2. CASE k \notin 1 .. Len(ring) + 1
        <5>1. ~ Full /\ k = Len(ring) + 2
          BY <1>0, <1>1, <2>1, <4>2, SendCounts
        <5>2. Times(ring', "on", k) = 0 /\ Times(ring', "off", k) = 0
          BY <1>0, <1>1, <5>1, SendCounts
        <5> QED BY <2>2, <5>2 DEF DepthBefore
      <4> QED BY <4>1, <4>2
    <3>7. ~ Latching /\ ~ Latching' /\ render' = render /\ mirror' = mirror
      BY <1>0, <1>1, <2>5, SendKey
    <3>8. DepthBeforeThis' = DepthBeforeThis
      <4>1. 1 \in 1 .. Len(ring) + 1
        BY <2>1
      <4>2. DepthBefore(1)' = DepthBefore(1)
        BY <3>5, <4>1
      <4> QED BY <3>7, <4>2 DEF DepthBeforeThis, Mirroring
    <3>9. sender'.todo # <<"write">>
      BY <3>7 DEF Latching, ReleaseTodos
    <3> QED BY <1>0, <3>6, <3>7, <3>8, <3>9 DEF MirrorInv
  <2> QED BY <2>4, <2>5
<1>2. CASE Store
  <2> DEFINE op == Head(sender.todo)
  <2>1. /\ ring' = ring /\ render' = render /\ player' = player
        /\ sender.todo # <<>> /\ sender'.todo = Tail(sender.todo)
    BY <1>0, <1>2, StoreTodo
  <2>2. /\ DepthBeforeThis' = DepthBeforeThis /\ Queued("on")' = Queued("on") /\ Queued("off")' = Queued("off")
        /\ \A k \in 1 .. Len(ring') + 1 : DepthBefore(k)' \in {0, 1}
    BY <1>0, <2>1 DEF MirrorInv, DepthBefore, DepthBeforeThis, Key, Mirroring, Queued
  <2>3. CASE op = "write"
    <3>1. Latching /\ sender.todo = <<"write">> /\ ~ Latching'
      <4>1. Latching /\ sender.todo = <<"write">>
        BY <1>0, <1>2, <2>3, StoreTodo, TodoTails DEF Latching
      <4>2. ~ Latching'
        BY <1>0, <1>2, <4>1, StoreTodo
      <4> QED BY <4>1, <4>2
    <3>2. sender.depth = 1 /\ mirror'.depth = 0
      <4>1. sender.depth = 1
        BY <1>0, <3>1 DEF MirrorInv
      <4>2. mirror' = WriteMirror("off", sender)
        BY <1>2, <2>3 DEF Store
      <4>3. NextDepth("off", 1) = 0
        BY DEF NextDepth
      <4> QED BY <1>0, <4>1, <4>2, <4>3 DEF WriteMirror, MirrorShape
    <3>3. DepthBeforeThis = 0
      <4>1. Key = 0 /\ Queued("on") = 0 /\ Queued("off") = 0 /\ render.pc # "mirror"
        BY <1>0, <3>1 DEF MirrorInv, ReleasedKey, Key, Bit
      <4> QED BY <4>1 DEF DepthBeforeThis, DepthBefore, Queued, Mirroring, Bit
    <3>4. render'.pc # "mirror" /\ sender'.todo # <<"write">>
      BY <1>0, <2>1, <3>1 DEF MirrorInv, Latching, ReleaseTodos
    <3> QED BY <2>2, <3>1, <3>2, <3>3, <3>4 DEF MirrorInv
  <2>4. CASE op # "write"
    <3>1. mirror'.depth = mirror.depth
      <4>1. mirror' \in {[mirror EXCEPT !.pedal = (sender.message = "down")], mirror, Bump}
        BY <1>2, <2>4 DEF Store
      <4> QED BY <1>0, <4>1 DEF Bump, MirrorShape
    <3>2. Latching' <=> Latching
      <4>1. CASE Latching
        <5>1. sender.todo \in {<<"count", "read", "write">>, <<"read", "write">>}
          BY <2>4, <4>1, TodoTails DEF Latching, ReleaseTodos
        <5>2. sender'.todo \in ReleaseTodos
          BY <2>1, <5>1, TodoTails DEF ReleaseTodos
        <5> QED BY <4>1, <5>2 DEF Latching
      <4>2. CASE ~ Latching
        BY <1>0, <1>2, <4>2, StoreTodo
      <4> QED BY <4>1, <4>2
    <3>3. sender'.todo = <<"write">> => sender'.depth = 1
      <4> SUFFICES ASSUME sender'.todo = <<"write">> PROVE sender'.depth = 1
        OBVIOUS
      <4>1. Latching
        BY <3>2 DEF Latching, ReleaseTodos
      <4>2. op = "read"
        <5>1. sender.todo # <<"count", "read", "write">>
          <6>1. <<"read", "write">> # <<"write">>
            OBVIOUS
          <6> QED BY <2>1, <6>1, TodoTails
        <5>2. sender.todo = <<"read", "write">>
          BY <2>4, <4>1, <5>1, TodoTails DEF Latching, ReleaseTodos
        <5> QED BY <5>2
      <4> DEFINE done == IF Tail(sender.todo) = <<>> THEN Idle ELSE [sender EXCEPT !.todo = Tail(@)]
      <4>3. sender' = [done EXCEPT !.gen = mirror.gen, !.depth = MirrorDepth]
        BY <1>2, <4>2 DEF Store
      <4>4. done \in [message : Messages, todo : {Tail(sender.todo)}, gen : Nat, depth : Nat]
        BY <1>0 DEF Shapes, SenderShape, Idle, Messages
      <4> HIDE DEF done
      <4>5. sender'.depth = mirror.depth
        BY <1>0, <4>3, <4>4
      <4> QED BY <1>0, <4>1, <4>5 DEF MirrorInv
    <3> QED BY <1>0, <2>1, <2>2, <3>1, <3>2, <3>3 DEF MirrorInv
  <2> QED BY <2>3, <2>4
<1>3. CASE Capture
  <2>1. /\ ring' = ring /\ sender' = sender /\ mirror' = mirror /\ player' = player
        /\ render'.pc # "mirror" /\ \A m : Mirroring(m)' = Mirroring(m)
    BY <1>0, <1>3, SameCounts DEF Capture, RenderShape
  <2> QED BY <1>0, <2>1, MirrorStays
<1>4. CASE Scrub
  <2>1. ring = <<>> /\ sender' = sender /\ mirror' = mirror /\ player' = player
    BY <1>0, <1>4 DEF Scrub, MirrorExcuses
  <2>2. /\ ring' = ring /\ render'.pc # "mirror"
        /\ \A m : Mirroring(m)' = Mirroring(m)
    BY <1>0, <1>4, <2>1, ScrubCounts DEF Scrub, RenderShape
  <2> QED BY <1>0, <2>1, <2>2, MirrorStays
<1>5. CASE DrainCritical
  <2>1. /\ ring' = ring /\ sender' = sender /\ mirror'.depth = mirror.depth /\ player' = player
        /\ render'.pc # "mirror" /\ \A m : Mirroring(m)' = Mirroring(m)
    BY <1>0, <1>5, DrainCriticalCounts DEF DrainCritical, RenderShape, MirrorShape
  <2> QED BY <1>0, <2>1, MirrorStays
<1>6. CASE Pop
  <2>1. /\ \A k \in Nat : DepthBefore(k) \in Int
        /\ \A m : \A k \in Nat : Times(ring, m, k) \in Nat
        /\ Len(ring) \in Nat /\ Key \in {0, 1}
        /\ ring' \in Seq(Messages) /\ ring \in Seq(Messages)
    <3>1. ring' \in Seq(Messages)
      BY <1>0, <1>6, Components, HeadTailProperties DEF Pop
    <3> QED BY <1>0, <3>1, CountTypes, DepthTypes, Components
  <2>2. sender' = sender /\ mirror' = mirror /\ player' = player
    BY <1>6 DEF Pop
  <2>3. Key' = Key /\ (Latching' <=> Latching)
    BY <2>2 DEF Key, Latching
  <2>4. ASSUME NEW k \in 1 .. Len(ring) PROVE DepthBefore(k)' = DepthBefore(k + 1)
    BY <1>0, <1>6, <2>3, PopCounts DEF DepthBefore
  <2>5. \A k \in 1 .. Len(ring') + 1 : DepthBefore(k)' \in {0, 1}
    <3>1. Len(ring') + 1 = Len(ring)
      BY <1>0, <1>6, <2>1, PopCounts
    <3>2. \A k \in 1 .. Len(ring) : k + 1 \in 1 .. Len(ring) + 1
      BY <2>1
    <3> QED BY <1>0, <2>4, <3>1, <3>2 DEF MirrorInv
  <2>6. \A m : Queued(m) \in Nat /\ Queued(m)' \in Nat /\ Bit(Head(ring) = m) \in {0, 1}
    BY <2>1, TimesType DEF Queued, Bit
  <2>7. Latching => Queued("on")' = 0 /\ Queued("off")' = 0
    BY <1>0, <1>6, <2>6, PopCounts DEF MirrorInv
  <2>8. DepthBefore(1)' = DepthBefore(1) - Bit(Head(ring) = "off") + Bit(Head(ring) = "on")
    <3>1. DepthBefore(1)' = Key + Queued("off")' - Queued("on")'
      BY <2>3 DEF DepthBefore, Queued
    <3>2. /\ Queued("off") = Queued("off")' + Bit(Head(ring) = "off")
          /\ Queued("on") = Queued("on")' + Bit(Head(ring) = "on")
      BY <1>0, <1>6, PopCounts
    <3>3. DepthBefore(1) = Key + Queued("off") - Queued("on")
      BY DEF DepthBefore, Queued
    <3>4. /\ Queued("off")' \in Nat /\ Queued("on")' \in Nat
          /\ Bit(Head(ring) = "off") \in Nat /\ Bit(Head(ring) = "on") \in Nat /\ Key \in Nat
      BY <2>1, <2>6 DEF Bit
    <3> QED BY <3>1, <3>2, <3>3, <3>4
  <2>9. DepthBeforeThis = DepthBefore(1)
    <3>1. Mirroring("on") = 0 /\ Mirroring("off") = 0
      BY <1>0, <1>6, PopCounts
    <3> QED BY <2>1, <3>1 DEF DepthBeforeThis
  <2>10. DepthBeforeThis' = DepthBeforeThis
    <3>1. Mirroring("on")' = Bit(Head(ring) = "on") /\ Mirroring("off")' = Bit(Head(ring) = "off")
      BY <1>0, <1>6, PopCounts DEF Bit
    <3>2. /\ DepthBefore(1) \in Int /\ Bit(Head(ring) = "off") \in Nat /\ Bit(Head(ring) = "on") \in Nat
      BY <2>1, <2>6 DEF Bit
    <3>3. DepthBeforeThis' = DepthBefore(1)' + Mirroring("off")' - Mirroring("on")'
      BY DEF DepthBeforeThis
    <3> QED BY <2>8, <2>9, <3>1, <3>2, <3>3
  <2>11. render'.pc = "mirror" => ~ Latching /\ render'.depth = mirror.depth
    <3>1. CASE Head(ring) \in {"on", "off"}
      <4>1. render'.depth = mirror.depth
        BY <1>0, <1>6, <3>1 DEF Pop, RenderShape
      <4>2. Bit(Head(ring) = Head(ring)) = 1
        BY DEF Bit
      <4>3. Queued(Head(ring)) > 0
        BY <1>0, <1>6, <2>6, <4>2, PopCounts
      <4>4. ~ Latching
        BY <1>0, <3>1, <4>3 DEF MirrorInv
      <4> QED BY <4>1, <4>4
    <3>2. CASE Head(ring) \notin {"on", "off"}
      BY <1>0, <1>6, <3>2 DEF Pop, RenderShape
    <3> QED BY <3>1, <3>2
  <2> QED BY <1>0, <2>2, <2>3, <2>5, <2>7, <2>10, <2>11 DEF MirrorInv
<1>7. CASE Dispatch
  <2>1. /\ ring' = ring /\ render.pc = "mirror" /\ render'.pc = "pop"
        /\ player' = player /\ sender' = sender /\ render.message \in {"on", "off"}
    BY <1>0, <1>7 DEF Dispatch, RenderShape
  <2>2. ~ Latching /\ ~ Latching' /\ render.depth = DepthBeforeThis
    BY <1>0, <2>1 DEF MirrorInv, Latching
  <2>3. /\ DepthBefore(1)' = DepthBefore(1)
        /\ \A k \in 1 .. Len(ring') + 1 : DepthBefore(k)' = DepthBefore(k)
    BY <2>1 DEF DepthBefore, Key
  <2>4. DepthBefore(1) \in {0, 1}
    <3>1. 1 \in 1 .. Len(ring) + 1
      BY <1>0, CountTypes
    <3> QED BY <1>0, <3>1 DEF MirrorInv
  <2>5. DepthBeforeThis' = DepthBefore(1)
    <3>1. Mirroring("on")' = 0 /\ Mirroring("off")' = 0
      BY <1>0, <1>7, DispatchCounts
    <3> QED BY <2>3, <2>4, <3>1 DEF DepthBeforeThis
  <2>6. DepthBeforeThis \in {0, 1}
    BY <1>0 DEF MirrorInv
  <2>7. mirror'.depth = NextDepth(render.message, render.depth)
    BY <1>0, <1>7 DEF Dispatch, WriteMirror, MirrorShape
  <2>8. mirror'.depth = DepthBefore(1)
    <3>1. CASE render.message = "on"
      <4>1. DepthBeforeThis = DepthBefore(1) - 1
        <5>1. Mirroring("on") = 1 /\ Mirroring("off") = 0
          BY <2>1, <3>1 DEF Mirroring, Bit
        <5> QED BY <2>4, <5>1 DEF DepthBeforeThis
      <4> QED BY <2>2, <2>4, <2>6, <2>7, <3>1, <4>1 DEF NextDepth
    <3>2. CASE render.message = "off"
      <4>1. DepthBeforeThis = DepthBefore(1) + 1
        <5>1. Mirroring("on") = 0 /\ Mirroring("off") = 1
          BY <2>1, <3>2 DEF Mirroring, Bit
        <5> QED BY <2>4, <5>1 DEF DepthBeforeThis
      <4> QED BY <2>2, <2>4, <2>6, <2>7, <3>2, <4>1 DEF NextDepth
    <3> QED BY <2>1, <3>1, <3>2
  <2>9. sender'.todo # <<"write">>
    BY <2>2 DEF Latching, ReleaseTodos
  <2>10. \A k \in 1 .. Len(ring') + 1 : DepthBefore(k)' \in {0, 1}
    BY <1>0, <2>1, <2>3 DEF MirrorInv
  <2> QED BY <2>1, <2>2, <2>4, <2>5, <2>8, <2>9, <2>10 DEF MirrorInv
<1>8. CASE DrainDropped
  <2>1. /\ ring' = ring /\ sender' = sender /\ mirror' = mirror /\ player' = player
        /\ render'.pc # "mirror" /\ \A m : Mirroring(m)' = Mirroring(m)
    BY <1>0, <1>8, DrainDroppedCounts DEF DrainDropped, RenderShape
  <2> QED BY <1>0, <2>1, MirrorStays
<1>9. CASE Play
  <2>1. /\ ring' = ring /\ sender' = sender /\ mirror'.depth = mirror.depth /\ player' = player
        /\ render'.pc # "mirror" /\ \A m : Mirroring(m)' = Mirroring(m)
    BY <1>0, <1>9, PlayCounts DEF Play, RenderShape, MirrorShape, Bump
  <2> QED BY <1>0, <2>1, MirrorStays
<1>10. CASE Reconcile
  <2>1. /\ ring' = ring /\ sender' = sender /\ mirror' = mirror /\ player' = player
        /\ render'.pc # "mirror" /\ \A m : Mirroring(m)' = Mirroring(m)
    BY <1>0, <1>10, SameCounts DEF Reconcile, RenderShape
  <2> QED BY <1>0, <2>1, MirrorStays
<1>11. CASE UNCHANGED vars
  <2>1. /\ ring' = ring /\ sender' = sender /\ mirror' = mirror /\ player' = player
        /\ render' = render /\ \A m : Mirroring(m)' = Mirroring(m)
    BY <1>0, <1>11, SameCounts DEF vars
  <2> QED BY <1>0, <2>1, MirrorStays
<1>12. CASE StartTune BY <1>0, <1>12 DEF StartTune, MirrorExcuses
<1>13. CASE RenderTune \/ TuneRendered
  <2>1. /\ ring' = ring /\ sender' = sender /\ mirror' = mirror /\ player' = player
        /\ render'.pc # "mirror" /\ \A m : Mirroring(m)' = Mirroring(m)
    BY <1>0, <1>13, SameCounts DEF RenderTune, TuneRendered, RenderShape
  <2> QED BY <1>0, <2>1, MirrorStays
<1> QED
  BY <1>1, <1>2, <1>3, <1>4, <1>5, <1>6, <1>7, <1>8, <1>9, <1>10, <1>11, <1>12, <1>13
  DEF Next, Block

-----------------------------------------------------------------------------
(* The mirror and the voices hold enough.                                  *)

\* A press adds to what is queued, a release to what is queued or latched.
LEMMA SendBalance ==
    ASSUME Shapes, NEW message \in Messages, Send(message), ~ (Full /\ message = "on")
    PROVE  /\ Key' + Queued("off")' + Reading' + Queued("on") = Key + Queued("off") + Queued("on")'
           /\ Queued("on")' \in Nat /\ Queued("off")' \in Nat /\ Key' \in {0, 1}
           /\ Reading = 0 /\ Counting = 0 /\ Reading' \in {0, 1} /\ Counting' = Reading'
<1>1. ~ Latching /\ Reading = 0 /\ Counting = 0 /\ Key' \in {0, 1}
  BY SendKey, CountTypes DEF Key, Bit
<1>2. Reading' = Counting' /\ Reading' = IF Full /\ message = "off" THEN 1 ELSE 0
  <2>1. CASE Full /\ message = "off"
    <3>1. sender'.todo = <<"count", "read", "write">>
      BY <2>1, SendKey
    <3> QED BY <2>1, <3>1 DEF Reading, Counting, Bit
  <2>2. CASE ~ (Full /\ message = "off")
    <3>1. sender'.todo \notin ReleaseTodos
      BY <2>2, SendKey DEF Latching
    <3> QED BY <2>2, <3>1 DEF Reading, Counting, Bit, ReleaseTodos
  <2> QED BY <2>1, <2>2
<1>3. /\ Queued("on")' = Queued("on") + Bit(~ Full /\ message = "on")
      /\ Queued("off")' = Queued("off") + Bit(~ Full /\ message = "off")
      /\ Queued("on") \in Nat /\ Queued("off") \in Nat
  BY SendCounts, CountTypes
<1>4. CASE message = "on"
  <2>1. Bit(~ Full /\ message = "on") = 1 /\ Bit(~ Full /\ message = "off") = 0
    BY <1>4 DEF Bit
  <2>2. Key = 0 /\ Key' = 1
    BY <1>4, SendKey
  <2> QED BY <1>1, <1>2, <1>3, <1>4, <2>1, <2>2
<1>5. CASE message = "off"
  <2>1. Key = 1 /\ Key' = 0
    BY <1>5, SendKey
  <2>2. CASE Full
    <3>1. Bit(~ Full /\ message = "on") = 0 /\ Bit(~ Full /\ message = "off") = 0
      BY <2>2 DEF Bit
    <3> QED BY <1>1, <1>2, <1>3, <1>5, <2>1, <2>2, <3>1
  <2>3. CASE ~ Full
    <3>1. Bit(~ Full /\ message = "on") = 0 /\ Bit(~ Full /\ message = "off") = 1
      BY <1>5, <2>3 DEF Bit
    <3> QED BY <1>1, <1>2, <1>3, <1>5, <2>1, <2>3, <3>1
  <2> QED BY <2>2, <2>3
<1>6. CASE message \notin {"on", "off"}
  <2>1. Bit(~ Full /\ message = "on") = 0 /\ Bit(~ Full /\ message = "off") = 0
    BY <1>6 DEF Bit
  <2>2. Key' = Key
    BY <1>6, SendKey
  <2> QED BY <1>1, <1>2, <1>3, <1>6, <2>1, <2>2, CountTypes
<1> QED BY <1>4, <1>5, <1>6

\* A message that is taken out of the ring is being mirrored, or laid.
LEMMA PopBalance ==
    ASSUME Shapes, Pop, NEW m \in {"on", "off"}
    PROVE  /\ Queued(m)' + Mirroring(m)' = Queued(m) + Mirroring(m) /\ Laid(m)' = Laid(m)
           /\ Queued(m) = Queued(m)' + Mirroring(m)'
           /\ Queued(m)' \in Nat /\ Mirroring(m)' \in {0, 1}
<1>1. /\ Queued(m) = Queued(m)' + Bit(Head(ring) = m) /\ Queued(m)' \in Nat
      /\ Mirroring(m) = 0
      /\ Mirroring(m)' = Bit(Head(ring) \in {"on", "off"} /\ Head(ring) = m)
      /\ Laid(m)' = Laid(m) + Bit(Head(ring) \notin {"on", "off"} /\ Head(ring) = m)
      /\ Laid(m) \in Nat
  BY PopCounts, CountTypes
<1>2. /\ Bit(Head(ring) \in {"on", "off"} /\ Head(ring) = m) = Bit(Head(ring) = m)
      /\ Bit(Head(ring) \notin {"on", "off"} /\ Head(ring) = m) = 0
      /\ Bit(Head(ring) = m) \in {0, 1}
  BY DEF Bit
<1> QED BY <1>1, <1>2

LEMMA AlternateStays ==
    ASSUME Shapes, Alternate, ring' = ring, player' = player,
           sender'.todo \in ReleaseTodos => sender.todo \in ReleaseTodos,
           \A m : Mirroring(m)' = Mirroring(m)
    PROVE  Alternate'
<1>1. /\ \A m : \A k \in Nat : Times(ring, m, k) \in Nat
      /\ \A m : Queued(m) \in Nat /\ Mirroring(m) \in {0, 1}
      /\ Len(ring) \in Nat
  BY CountTypes
<1>2. Slack \in {0, 1} /\ Slack' \in {0, 1} /\ Slack <= Slack'
  BY DEF Slack, Bit, Latching
<1>3. ASSUME NEW k \in 1 .. Len(ring') + 1
      PROVE  Times(ring', "off", k) <= Times(ring', "on", k) + Slack'
  <2>1. k \in Nat /\ Times(ring, "off", k) <= Times(ring, "on", k) + Slack
    BY <1>1 DEF Alternate
  <2>2. Times(ring, "off", k) \in Nat /\ Times(ring, "on", k) \in Nat
    BY <1>1, <2>1
  <2> QED BY <1>2, <2>1, <2>2
<1>4. Queued("off")' + Mirroring("off")' <= Queued("on")' + Mirroring("on")' + Slack'
  <2>1. Queued("off")' = Queued("off") /\ Queued("on")' = Queued("on")
    BY DEF Queued
  <2>2. Queued("off") + Mirroring("off") <= Queued("on") + Mirroring("on") + Slack
    BY DEF Alternate
  <2> QED BY <1>1, <1>2, <2>1, <2>2
<1> QED BY <1>3, <1>4 DEF Alternate

LEMMA AlternateStep ==
    ASSUME Shapes, Uncleaned, ReleasedKey, HeldInv, history' \cap HeldExcuses = {}, [Next]_vars
    PROVE  Alternate'
<1>0. /\ Shapes /\ RenderShape /\ HeldInv /\ Alternate /\ history' \cap HeldExcuses = {}
  BY DEF Shapes, HeldInv
<1>1. ASSUME NEW message \in Messages, Send(message) PROVE Alternate'
  <2>1. ~ (Full /\ message = "on")
    BY <1>0, <1>1 DEF Send, Excused, HeldExcuses
  <2>2. /\ \A m : \A k \in Nat : Times(ring, m, k) \in Nat
        /\ Len(ring) \in Nat /\ Key \in {0, 1} /\ \A m : Mirroring(m) \in {0, 1}
        /\ \A m : Queued(m) \in Nat
    BY <1>0, CountTypes
  <2>3. Slack \in {0, 1} /\ Slack' \in {0, 1}
    BY DEF Slack, Bit
  <2>4. /\ Bit(~ Full /\ message = "off") \in {0, 1} /\ Bit(~ Full /\ message = "on") \in {0, 1}
        /\ Bit(~ Full /\ message = "off") + Slack = Bit(~ Full /\ message = "on") + Slack'
    <3>1. /\ ~ Latching /\ (Latching' <=> Full /\ message = "off")
          /\ message = "on" => Key = 0 /\ Key' = 1
          /\ message = "off" => Key = 1 /\ Key' = 0
          /\ message \notin {"on", "off"} => Key' = Key
      BY <1>0, <1>1, SendKey
    <3>2. Slack = (IF Key = 0 THEN 1 ELSE 0) /\ Slack' = (IF Key' = 0 /\ ~ Latching' THEN 1 ELSE 0)
      BY <3>1 DEF Slack, Key, Bit
    <3>3. CASE message = "on"
      BY <2>1, <3>1, <3>2, <3>3 DEF Bit
    <3>4. CASE message = "off"
      BY <3>1, <3>2, <3>4 DEF Bit
    <3>5. CASE message \notin {"on", "off"}
      BY <3>1, <3>2, <3>5 DEF Bit
    <3> QED BY <3>3, <3>4, <3>5
  <2> DEFINE off == Bit(~ Full /\ message = "off")
             on == Bit(~ Full /\ message = "on")
  <2>5. /\ \A k \in 1 .. Len(ring) + 1 : /\ Times(ring', "off", k) = Times(ring, "off", k) + off
                                         /\ Times(ring', "on", k) = Times(ring, "on", k) + on
        /\ ~ Full => Times(ring', "off", Len(ring) + 2) = 0 /\ Times(ring', "on", Len(ring) + 2) = 0
        /\ Queued("off")' = Queued("off") + off /\ Queued("on")' = Queued("on") + on
        /\ Mirroring("off")' = Mirroring("off") /\ Mirroring("on")' = Mirroring("on")
        /\ Len(ring') = IF Full THEN Len(ring) ELSE Len(ring) + 1
    BY <1>0, <1>1, SendCounts
  <2> DEFINE s == Slack
             t == Slack'
  <2>6. /\ off \in Int /\ on \in Int /\ s \in Int /\ t \in Int /\ off + s = on + t
        /\ s \in {0, 1} /\ t \in {0, 1}
    BY <2>3, <2>4
  <2> HIDE DEF off, on, s, t
  <2>7. ASSUME NEW k \in 1 .. Len(ring') + 1
        PROVE  Times(ring', "off", k) <= Times(ring', "on", k) + Slack'
    <3>1. CASE k \in 1 .. Len(ring) + 1
      <4>1. /\ Times(ring, "off", k) <= Times(ring, "on", k) + Slack
            /\ Times(ring, "off", k) \in Nat /\ Times(ring, "on", k) \in Nat
        BY <1>0, <2>2, <3>1 DEF Alternate
      <4>2. /\ Times(ring', "off", k) = Times(ring, "off", k) + off
            /\ Times(ring', "on", k) = Times(ring, "on", k) + on
        BY <2>5, <3>1
      <4> DEFINE a == Times(ring, "off", k)
                 b == Times(ring, "on", k)
      <4>3. a \in Int /\ b \in Int /\ a <= b + s
        BY <4>1 DEF s
      <4> HIDE DEF a, b
      <4>4. a + off <= (b + on) + t
        BY ONLY <2>6, <4>3
      <4> QED BY <4>2, <4>4 DEF a, b, t
    <3>2. CASE k \notin 1 .. Len(ring) + 1
      <4>1. ~ Full /\ k = Len(ring) + 2
        BY <2>2, <2>5, <3>2
      <4> QED BY <2>3, <2>5, <4>1
    <3> QED BY <3>1, <3>2
  <2>8. Queued("off")' + Mirroring("off")' <= Queued("on")' + Mirroring("on")' + Slack'
    <3>1. Queued("off") + Mirroring("off") <= Queued("on") + Mirroring("on") + Slack
      BY <1>0 DEF Alternate
    <3>2. /\ Queued("off") \in Nat /\ Mirroring("off") \in Nat /\ Queued("on") \in Nat
          /\ Mirroring("on") \in Nat
      BY <2>2
    <3> DEFINE a == Queued("off")
               b == Queued("on")
               c == Mirroring("off")
               d == Mirroring("on")
    <3>3. a \in Int /\ b \in Int /\ c \in Int /\ d \in Int /\ a + c <= b + d + s
      BY <3>1, <3>2 DEF s
    <3>4. Queued("off")' = a + off /\ Queued("on")' = b + on /\ Mirroring("off")' = c /\ Mirroring("on")' = d
      BY <2>5
    <3> HIDE DEF a, b, c, d
    <3>5. (a + off) + c <= (b + on) + d + t
      BY ONLY <2>6, <3>3
    <3> QED BY <3>4, <3>5 DEF t
  <2> QED BY <2>7, <2>8 DEF Alternate
<1>2. CASE Store
  <2>1. /\ ring' = ring /\ player' = player /\ \A m : Mirroring(m)' = Mirroring(m)
    BY <1>0, <1>2, StoreTodo, SameCounts
  <2>2. sender'.todo \in ReleaseTodos => sender.todo \in ReleaseTodos
    BY <1>0, <1>2, StoreTodo DEF Latching
  <2> QED BY <1>0, <2>1, <2>2, AlternateStays
<1>3. CASE Capture
  <2>1. /\ ring' = ring /\ sender' = sender /\ player' = player
        /\ \A m : Mirroring(m)' = Mirroring(m)
    BY <1>0, <1>3, SameCounts DEF Capture
  <2> QED BY <1>0, <2>1, AlternateStays DEF Latching
<1>4. CASE Scrub
  <2>1. /\ Len(ring') + 1 = 1 /\ \A m : Times(ring', m, 1) = 0 /\ Queued(m)' = 0 /\ Mirroring(m)' = 0
    BY <1>0, <1>4, ScrubCounts
  <2>2. Slack' \in {0, 1}
    BY DEF Slack, Bit
  <2> QED BY <2>1, <2>2 DEF Alternate
<1>5. CASE DrainCritical
  <2>1. /\ ring' = ring /\ sender' = sender /\ player' = player
        /\ \A m : Mirroring(m)' = Mirroring(m)
    BY <1>0, <1>5, DrainCriticalCounts DEF DrainCritical
  <2> QED BY <1>0, <2>1, AlternateStays DEF Latching
<1>6. CASE Pop
  <2>1. /\ \A m : \A k \in Nat : Times(ring, m, k) \in Nat
        /\ Len(ring) \in Nat /\ Slack \in {0, 1} /\ Slack' = Slack
    BY <1>0, <1>6, CountTypes DEF Pop, Slack, Latching
  <2>2. ASSUME NEW k \in 1 .. Len(ring') + 1
        PROVE  Times(ring', "off", k) <= Times(ring', "on", k) + Slack'
    <3>1. k \in 1 .. Len(ring) /\ k + 1 \in 1 .. Len(ring) + 1
      BY <1>0, <1>6, <2>1, PopCounts
    <3>2. Times(ring', "off", k) = Times(ring, "off", k + 1) /\ Times(ring', "on", k) = Times(ring, "on", k + 1)
      BY <1>0, <1>6, <3>1, PopCounts
    <3> QED BY <1>0, <2>1, <3>1, <3>2 DEF Alternate
  <2>3. /\ Queued("off")' + Mirroring("off")' = Queued("off") + Mirroring("off")
        /\ Queued("on")' + Mirroring("on")' = Queued("on") + Mirroring("on")
    BY <1>0, <1>6, PopBalance
  <2>4. Queued("off")' + Mirroring("off")' <= Queued("on")' + Mirroring("on")' + Slack'
    BY <1>0, <2>1, <2>3 DEF Alternate
  <2> QED BY <2>2, <2>4 DEF Alternate
<1>7. CASE Dispatch
  <2>1. /\ ring' = ring /\ Slack' = Slack /\ Slack \in {0, 1}
        /\ Mirroring("on")' = 0 /\ Mirroring("off")' = 0 /\ Len(ring) \in Nat
        /\ Queued("on") \in Nat /\ Queued("off") \in Nat
    BY <1>0, <1>7, DispatchCounts, CountTypes DEF Dispatch, Slack, Latching
  <2>2. Queued("off")' = Queued("off") /\ Queued("on")' = Queued("on")
    BY <2>1 DEF Queued
  <2>3. Queued("off") <= Queued("on") + Slack
    <3>1. 1 \in 1 .. Len(ring) + 1
      BY <2>1
    <3> QED BY <1>0, <3>1 DEF Alternate, Queued
  <2>4. Queued("off")' + Mirroring("off")' <= Queued("on")' + Mirroring("on")' + Slack'
    BY <2>1, <2>2, <2>3
  <2>5. \A k \in 1 .. Len(ring') + 1 : Times(ring', "off", k) <= Times(ring', "on", k) + Slack'
    BY <1>0, <2>1 DEF Alternate
  <2> QED BY <2>4, <2>5 DEF Alternate
<1>8. CASE DrainDropped
  <2>1. /\ ring' = ring /\ sender' = sender /\ player' = player
        /\ \A m : Mirroring(m)' = Mirroring(m)
    BY <1>0, <1>8, DrainDroppedCounts DEF DrainDropped
  <2> QED BY <1>0, <2>1, AlternateStays DEF Latching
<1>9. CASE Play
  <2>1. /\ ring' = ring /\ sender' = sender /\ player' = player
        /\ \A m : Mirroring(m)' = Mirroring(m)
    BY <1>0, <1>9, PlayCounts DEF Play
  <2> QED BY <1>0, <2>1, AlternateStays DEF Latching
<1>10. CASE Reconcile
  <2>1. /\ ring' = ring /\ sender' = sender /\ player' = player
        /\ \A m : Mirroring(m)' = Mirroring(m)
    BY <1>0, <1>10, SameCounts DEF Reconcile
  <2> QED BY <1>0, <2>1, AlternateStays DEF Latching
<1>11. CASE UNCHANGED vars
  <2>1. /\ ring' = ring /\ sender' = sender /\ player' = player
        /\ \A m : Mirroring(m)' = Mirroring(m)
    BY <1>0, <1>11, SameCounts DEF vars
  <2> QED BY <1>0, <2>1, AlternateStays DEF Latching
<1>12. CASE StartTune BY <1>0, <1>12 DEF StartTune, HeldExcuses
<1>13. CASE RenderTune \/ TuneRendered
  <2>1. /\ ring' = ring /\ sender' = sender /\ mirror' = mirror /\ player' = player
        /\ render'.pc # "mirror" /\ \A m : Mirroring(m)' = Mirroring(m)
    BY <1>0, <1>13, SameCounts DEF RenderTune, TuneRendered, RenderShape
  <2> QED BY <1>0, <2>1, AlternateStays DEF Latching
<1> QED
  BY <1>1, <1>2, <1>3, <1>4, <1>5, <1>6, <1>7, <1>8, <1>9, <1>10, <1>11, <1>12, <1>13
  DEF Next, Block

LEMMA MirrorHoldsStays ==
    ASSUME MirrorHolds, ring' = ring, player' = player, sender' = sender, mirror'.depth = mirror.depth,
           \A m : Mirroring(m)' = Mirroring(m)
    PROVE  MirrorHolds'
BY DEF MirrorHolds, Key, Queued, Reading

LEMMA MirrorHoldsStep ==
    ASSUME Shapes, Uncleaned, ReleasedKey, HeldInv, history' \cap HeldExcuses = {}, [Next]_vars
    PROVE  MirrorHolds'
<1>0. /\ Shapes /\ RenderShape /\ MirrorShape /\ HeldInv /\ MirrorHolds /\ history' \cap HeldExcuses = {}
  BY DEF Shapes, HeldInv
<1>1. ASSUME NEW message \in Messages, Send(message) PROVE MirrorHolds'
  <2>1. ~ (Full /\ message = "on")
    BY <1>0, <1>1 DEF Send, Excused, HeldExcuses
  <2>2. /\ Key' + Queued("off")' + Reading' + Queued("on") = Key + Queued("off") + Queued("on")'
        /\ Queued("on")' \in Nat /\ Queued("off")' \in Nat /\ Key' \in {0, 1}
        /\ Reading = 0 /\ Reading' \in {0, 1}
    BY <1>0, <1>1, <2>1, SendBalance
  <2>3. /\ Key \in {0, 1} /\ Queued("on") \in Nat /\ Queued("off") \in Nat
        /\ Mirroring("on") \in {0, 1} /\ Mirroring("off") \in {0, 1} /\ mirror.depth \in Nat
    BY <1>0, CountTypes
  <2>4. mirror' = mirror /\ Mirroring("on")' = Mirroring("on") /\ Mirroring("off")' = Mirroring("off")
    BY <1>0, <1>1, SendCounts, SendKey
  <2>5. Key + Queued("off") + Mirroring("off") + Reading <= mirror.depth + Queued("on") + Mirroring("on")
    BY <1>0 DEF MirrorHolds
  <2>6. Key' + Queued("off")' + Mirroring("off")' + Reading'
           <= mirror'.depth + Queued("on")' + Mirroring("on")'
    BY ONLY <2>2, <2>3, <2>4, <2>5
  <2> QED BY <2>6 DEF MirrorHolds
<1>2. CASE Store
  <2>1. /\ ring' = ring /\ render' = render /\ player' = player /\ sender.todo # <<>>
        /\ Reading' = Bit(sender.todo = <<"count", "read", "write">>) /\ Reading' \in {0, 1}
        /\ Reading' <= Reading
    <3>1. Bit(sender.todo = <<"count", "read", "write">>) <= Reading
      BY DEF Bit, Reading
    <3>2. Bit(sender.todo = <<"count", "read", "write">>) \in {0, 1}
      BY DEF Bit
    <3> QED BY <1>0, <1>2, <3>1, <3>2, StoreTodo
  <2>2. /\ Key \in {0, 1} /\ Queued("on") \in Nat /\ Queued("off") \in Nat /\ Reading \in {0, 1}
        /\ Mirroring("on") \in {0, 1} /\ Mirroring("off") \in {0, 1} /\ mirror.depth \in Nat
    BY <1>0, CountTypes
  <2>3. /\ Key' = Key /\ Queued("on")' = Queued("on") /\ Queued("off")' = Queued("off")
        /\ Mirroring("on")' = Mirroring("on") /\ Mirroring("off")' = Mirroring("off")
    BY <2>1 DEF Key, Queued, Mirroring
  <2>4. Key + Queued("off") + Mirroring("off") + Reading <= mirror.depth + Queued("on") + Mirroring("on")
    BY <1>0 DEF MirrorHolds
  <2>5. CASE Head(sender.todo) = "write"
    <3>1. sender.todo \in ReleaseTodos /\ sender.todo = <<"write">>
      BY <1>0, <1>2, <2>5, StoreTodo, TodoTails DEF Latching
    <3>2. Key = 0 /\ Slack = 0
      BY <3>1 DEF ReleasedKey, Latching, Key, Slack, Bit
    <3>3. Queued("off") + Mirroring("off") <= Queued("on") + Mirroring("on")
      BY <1>0, <2>2, <3>2 DEF HeldInv, Alternate
    <3>4. Reading' = 0
      <4>1. <<"count", "read", "write">> # <<"write">>
        OBVIOUS
      <4> QED BY <2>1, <3>1, <4>1 DEF Bit
    <3>5. mirror'.depth \in Nat
      <4>1. mirror' = WriteMirror("off", sender) /\ sender.depth \in Nat
        BY <1>0, <1>2, <2>5, Components DEF Store
      <4> QED BY <1>0, <4>1, DepthType DEF WriteMirror, MirrorShape
    <3>6. Key' + Queued("off")' + Mirroring("off")' + Reading'
             <= mirror'.depth + Queued("on")' + Mirroring("on")'
      BY <2>2, <2>3, <3>2, <3>3, <3>4, <3>5
    <3> QED BY <3>6 DEF MirrorHolds
  <2>6. CASE Head(sender.todo) # "write"
    <3>1. mirror'.depth = mirror.depth
      <4>1. mirror' \in {[mirror EXCEPT !.pedal = (sender.message = "down")], mirror, Bump}
        BY <1>2, <2>6 DEF Store
      <4> QED BY <1>0, <4>1 DEF Bump, MirrorShape
    <3>2. Key' + Queued("off")' + Mirroring("off")' + Reading'
             <= mirror'.depth + Queued("on")' + Mirroring("on")'
      BY ONLY <2>1, <2>2, <2>3, <2>4, <3>1
    <3> QED BY <3>2 DEF MirrorHolds
  <2> QED BY <2>5, <2>6
<1>3. CASE Capture
  <2>1. /\ ring' = ring /\ sender' = sender /\ player' = player /\ mirror'.depth = mirror.depth
        /\ \A m : Mirroring(m)' = Mirroring(m)
    BY <1>0, <1>3, SameCounts DEF Capture
  <2> QED BY <1>0, <2>1, MirrorHoldsStays
<1>4. CASE Scrub
  <2>1. ring = <<>> /\ sender' = sender /\ mirror' = mirror /\ player' = player
    BY <1>0, <1>4 DEF Scrub, HeldExcuses
  <2>2. ring' = ring /\ \A m : Mirroring(m)' = Mirroring(m)
    BY <1>0, <1>4, <2>1, ScrubCounts
  <2> QED BY <1>0, <2>1, <2>2, MirrorHoldsStays
<1>5. CASE DrainCritical
  <2>1. /\ ring' = ring /\ sender' = sender /\ player' = player /\ mirror'.depth = mirror.depth
        /\ \A m : Mirroring(m)' = Mirroring(m)
    BY <1>0, <1>5, DrainCriticalCounts DEF DrainCritical, MirrorShape
  <2> QED BY <1>0, <2>1, MirrorHoldsStays
<1>6. CASE Pop
  <2>1. /\ Queued("on")' + Mirroring("on")' = Queued("on") + Mirroring("on")
        /\ Queued("off")' + Mirroring("off")' = Queued("off") + Mirroring("off")
        /\ Queued("on")' \in Nat /\ Queued("off")' \in Nat
        /\ Mirroring("on")' \in {0, 1} /\ Mirroring("off")' \in {0, 1}
    BY <1>0, <1>6, PopBalance
  <2>2. Key' = Key /\ Reading' = Reading /\ mirror' = mirror
    BY <1>6 DEF Pop, Key, Reading
  <2>3. /\ Key \in {0, 1} /\ Queued("on") \in Nat /\ Queued("off") \in Nat /\ Reading \in {0, 1}
        /\ Mirroring("on") \in {0, 1} /\ Mirroring("off") \in {0, 1} /\ mirror.depth \in Nat
    BY <1>0, CountTypes
  <2>4. Key + Queued("off") + Mirroring("off") + Reading <= mirror.depth + Queued("on") + Mirroring("on")
    BY <1>0 DEF MirrorHolds
  <2>5. Key' + Queued("off")' + Mirroring("off")' + Reading'
           <= mirror'.depth + Queued("on")' + Mirroring("on")'
    BY ONLY <2>1, <2>2, <2>3, <2>4
  <2> QED BY <2>5 DEF MirrorHolds
<1>7. CASE Dispatch
  <2>1. Key + Queued("off") + Reading <= NextDepth(render.message, render.depth) + Queued("on")
    BY <1>0, <1>7 DEF Dispatch, HeldInv, MirrorWillHold
  <2>2. /\ ring' = ring /\ Key' = Key /\ Reading' = Reading
        /\ mirror'.depth = NextDepth(render.message, render.depth)
    BY <1>0, <1>7 DEF Dispatch, Key, Reading, WriteMirror, MirrorShape
  <2>3. Mirroring("on")' = 0 /\ Mirroring("off")' = 0
    BY <1>0, <1>7, DispatchCounts
  <2>4. Queued("on")' = Queued("on") /\ Queued("off")' = Queued("off")
    BY <2>2 DEF Queued
  <2>5. /\ Key \in {0, 1} /\ Queued("on") \in Nat /\ Queued("off") \in Nat /\ Reading \in {0, 1}
        /\ NextDepth(render.message, render.depth) \in Nat
    BY <1>0, CountTypes, DepthType
  <2>6. Key' + Queued("off")' + Mirroring("off")' + Reading'
           <= mirror'.depth + Queued("on")' + Mirroring("on")'
    BY ONLY <2>1, <2>2, <2>3, <2>4, <2>5
  <2> QED BY <2>6 DEF MirrorHolds
<1>8. CASE DrainDropped
  <2>1. /\ ring' = ring /\ sender' = sender /\ player' = player /\ mirror'.depth = mirror.depth
        /\ \A m : Mirroring(m)' = Mirroring(m)
    BY <1>0, <1>8, DrainDroppedCounts DEF DrainDropped
  <2> QED BY <1>0, <2>1, MirrorHoldsStays
<1>9. CASE Play
  <2>1. /\ ring' = ring /\ sender' = sender /\ player' = player /\ mirror'.depth = mirror.depth
        /\ \A m : Mirroring(m)' = Mirroring(m)
    BY <1>0, <1>9, PlayCounts DEF Play, Bump, MirrorShape
  <2> QED BY <1>0, <2>1, MirrorHoldsStays
<1>10. CASE Reconcile
  <2>1. /\ ring' = ring /\ sender' = sender /\ player' = player /\ mirror'.depth = mirror.depth
        /\ \A m : Mirroring(m)' = Mirroring(m)
    BY <1>0, <1>10, SameCounts DEF Reconcile
  <2> QED BY <1>0, <2>1, MirrorHoldsStays
<1>11. CASE UNCHANGED vars
  <2>1. /\ ring' = ring /\ sender' = sender /\ player' = player /\ mirror'.depth = mirror.depth
        /\ \A m : Mirroring(m)' = Mirroring(m)
    BY <1>0, <1>11, SameCounts DEF vars
  <2> QED BY <1>0, <2>1, MirrorHoldsStays
<1>12. CASE StartTune BY <1>0, <1>12 DEF StartTune, HeldExcuses
<1>13. CASE RenderTune \/ TuneRendered
  <2>1. /\ ring' = ring /\ sender' = sender /\ mirror' = mirror /\ player' = player
        /\ render'.pc # "mirror" /\ \A m : Mirroring(m)' = Mirroring(m)
    BY <1>0, <1>13, SameCounts DEF RenderTune, TuneRendered, RenderShape
  <2> QED BY <1>0, <2>1, MirrorHoldsStays
<1> QED
  BY <1>1, <1>2, <1>3, <1>4, <1>5, <1>6, <1>7, <1>8, <1>9, <1>10, <1>11, <1>12, <1>13
  DEF Next, Block

LEMMA MirrorWillHoldStep ==
    ASSUME Shapes, Uncleaned, ReleasedKey, HeldInv, history' \cap HeldExcuses = {}, [Next]_vars
    PROVE  MirrorWillHold'
<1>0. /\ Shapes /\ RenderShape /\ MirrorShape /\ HeldInv /\ MirrorHolds /\ MirrorWillHold /\ history' \cap HeldExcuses = {}
  BY DEF Shapes, HeldInv
<1>1. ASSUME NEW message \in Messages, Send(message) PROVE MirrorWillHold'
  <2>1. ~ (Full /\ message = "on")
    BY <1>0, <1>1 DEF Send, Excused, HeldExcuses
  <2> SUFFICES ASSUME render'.pc = "mirror"
               PROVE  Key' + Queued("off")' + Reading'
                        <= NextDepth(render'.message, render'.depth) + Queued("on")'
    BY DEF MirrorWillHold
  <2>2. /\ Key' + Queued("off")' + Reading' + Queued("on") = Key + Queued("off") + Queued("on")'
        /\ Queued("on")' \in Nat /\ Queued("off")' \in Nat /\ Key' \in {0, 1}
        /\ Reading = 0 /\ Reading' \in {0, 1}
    BY <1>0, <1>1, <2>1, SendBalance
  <2> DEFINE depth == NextDepth(render.message, render.depth)
  <2>3. render' = render
    BY <1>1 DEF Send
  <2>4. /\ Key \in {0, 1} /\ Queued("on") \in Nat /\ Queued("off") \in Nat /\ depth \in Nat
    BY <1>0, CountTypes, DepthType
  <2>5. Key + Queued("off") + Reading <= depth + Queued("on")
    BY <1>0, <2>3 DEF MirrorWillHold
  <2>6. NextDepth(render'.message, render'.depth) = depth
    BY <2>3
  <2> HIDE DEF depth
  <2>7. Key' + Queued("off")' + Reading' <= depth + Queued("on")'
    BY ONLY <2>2, <2>4, <2>5
  <2> QED BY <2>6, <2>7
<1>2. CASE Store
  <2> SUFFICES ASSUME render'.pc = "mirror"
               PROVE  Key' + Queued("off")' + Reading'
                        <= NextDepth(render'.message, render'.depth) + Queued("on")'
    BY DEF MirrorWillHold
  <2> DEFINE depth == NextDepth(render.message, render.depth)
  <2>1. /\ ring' = ring /\ render' = render /\ player' = player
        /\ Reading' = Bit(sender.todo = <<"count", "read", "write">>)
    BY <1>0, <1>2, StoreTodo
  <2>2. Reading' \in {0, 1} /\ Reading' <= Reading
    BY <2>1 DEF Bit, Reading
  <2>3. Key' = Key /\ Queued("on")' = Queued("on") /\ Queued("off")' = Queued("off")
    BY <2>1 DEF Key, Queued
  <2>4. /\ Key \in {0, 1} /\ Queued("on") \in Nat /\ Queued("off") \in Nat /\ depth \in Nat
        /\ Reading \in {0, 1}
    BY <1>0, CountTypes, DepthType
  <2>5. Key + Queued("off") + Reading <= depth + Queued("on")
    BY <1>0, <2>1 DEF MirrorWillHold
  <2>6. NextDepth(render'.message, render'.depth) = depth
    BY <2>1
  <2> HIDE DEF depth
  <2>7. Key' + Queued("off")' + Reading' <= depth + Queued("on")'
    BY ONLY <2>2, <2>3, <2>4, <2>5
  <2> QED BY <2>6, <2>7
<1>3. CASE Capture BY <1>3, <1>0 DEF Capture, MirrorWillHold, RenderShape
<1>4. CASE Scrub BY <1>4, <1>0 DEF Scrub, MirrorWillHold, RenderShape
<1>5. CASE DrainCritical BY <1>5, <1>0 DEF DrainCritical, MirrorWillHold, RenderShape
<1>6. CASE Pop
  <2> SUFFICES ASSUME render'.pc = "mirror"
               PROVE  Key' + Queued("off")' + Reading'
                        <= NextDepth(render'.message, render'.depth) + Queued("on")'
    BY DEF MirrorWillHold
  <2>1. /\ Head(ring) \in {"on", "off"} /\ render'.message = Head(ring)
        /\ render'.depth = mirror.depth /\ Key' = Key /\ Reading' = Reading
    BY <1>0, <1>6, MirrorIsCurrent DEF Pop, RenderShape, Key, Reading
  <2>2. /\ Queued("on") = Queued("on")' + Mirroring("on")'
        /\ Queued("off") = Queued("off")' + Mirroring("off")'
        /\ Queued("on")' \in Nat /\ Queued("off")' \in Nat
    BY <1>0, <1>6, PopBalance
  <2>3. /\ Mirroring("on")' = (IF Head(ring) = "on" THEN 1 ELSE 0)
        /\ Mirroring("off")' = (IF Head(ring) = "off" THEN 1 ELSE 0)
        /\ Mirroring("on") = 0 /\ Mirroring("off") = 0
    BY <1>0, <1>6, <2>1, PopCounts DEF Bit
  <2>4. Key \in {0, 1} /\ Reading \in {0, 1} /\ mirror.depth \in Nat
    BY <1>0, CountTypes
  <2>5. Key + Queued("off") + Mirroring("off") + Reading <= mirror.depth + Queued("on") + Mirroring("on")
    BY <1>0 DEF MirrorHolds
  <2>6. CASE Head(ring) = "on"
    <3>1. NextDepth(render'.message, render'.depth) = mirror.depth + 1
      BY <2>1, <2>6 DEF NextDepth
    <3> QED BY <2>1, <2>2, <2>3, <2>4, <2>5, <2>6, <3>1
  <2>7. CASE Head(ring) = "off"
    <3>1. NextDepth(render'.message, render'.depth) = IF mirror.depth > 0 THEN mirror.depth - 1 ELSE 0
      BY <2>1, <2>7 DEF NextDepth
    <3> QED BY <2>1, <2>2, <2>3, <2>4, <2>5, <2>7, <3>1
  <2> QED BY <2>1, <2>6, <2>7
<1>7. CASE Dispatch BY <1>7, <1>0 DEF Dispatch, MirrorWillHold, RenderShape
<1>8. CASE DrainDropped BY <1>8, <1>0 DEF DrainDropped, MirrorWillHold, RenderShape
<1>9. CASE Play BY <1>9, <1>0 DEF Play, MirrorWillHold, RenderShape
<1>10. CASE Reconcile BY <1>10, <1>0 DEF Reconcile, MirrorWillHold, RenderShape
<1>11. CASE UNCHANGED vars
  BY <1>0, <1>11 DEF vars, MirrorWillHold, Key, Queued, Reading
<1>12. CASE StartTune BY <1>0, <1>12 DEF StartTune, HeldExcuses
<1>13. CASE RenderTune \/ TuneRendered
  BY <1>0, <1>13 DEF RenderTune, TuneRendered, MirrorWillHold, RenderShape
<1> QED
  BY <1>1, <1>2, <1>3, <1>4, <1>5, <1>6, <1>7, <1>8, <1>9, <1>10, <1>11, <1>12, <1>13
  DEF Next, Block

LEMMA ReplayStep ==
    ASSUME Shapes, Uncleaned, ReleasedKey, HeldInv, history' \cap HeldExcuses = {}, [Next]_vars
    PROVE  ReplayHolds'
<1>0. /\ Shapes /\ RenderShape /\ MirrorShape /\ HeldInv /\ MirrorHolds /\ ReplayHolds /\ history' \cap HeldExcuses = {}
  BY DEF Shapes, HeldInv
<1>1. ASSUME NEW message \in Messages, Send(message) PROVE ReplayHolds'
  <2>1. ring' # <<>>
    <3>1. /\ ring \in Seq(Messages) /\ Len(<<>>) = 0 /\ setup.capacity # 0
          /\ ring' = IF Full THEN ring ELSE Append(ring, message)
      BY <1>0, <1>1, Components, EmptySeq, CapacityAssumption DEF Send, Shapes, SetupShape
    <3>2. Append(ring, message) # <<>>
      BY <3>1, AppendProperties
    <3> QED BY <3>1, <3>2 DEF Full
  <2> QED BY <2>1 DEF ReplayHolds
<1>2. CASE Store
  <2>1. ring' = ring /\ render' = render /\ Key' = Key
    BY <1>0, <1>2, StoreTodo DEF Key
  <2> QED BY <1>0, <2>1 DEF ReplayHolds
<1>3. CASE Capture
  <2> SUFFICES ASSUME ring' = <<>> PROVE Key' <= render'.depth
    BY DEF ReplayHolds
  <2>1. ring = <<>> /\ Key' = Key /\ render'.depth = mirror.depth /\ render.pc = "idle"
    BY <1>0, <1>3, MirrorIsCurrent DEF Capture, RenderShape, Key
  <2>2. \A m : Mirroring(m) = 0 /\ Queued(m) = 0
    BY <2>1, TimesEmpty DEF Mirroring, Queued, Bit
  <2>3. Key + Queued("off") + Mirroring("off") + Reading <= mirror.depth + Queued("on") + Mirroring("on")
    BY <1>0 DEF MirrorHolds
  <2>4. Key \in {0, 1} /\ Reading \in {0, 1} /\ mirror.depth \in Nat
    BY <1>0, CountTypes
  <2> QED BY <2>1, <2>2, <2>3, <2>4
<1>4. CASE Scrub BY <1>4, <1>0 DEF Scrub, ReplayHolds, RenderShape
<1>5. CASE DrainCritical BY <1>5, <1>0 DEF DrainCritical, ReplayHolds, RenderShape
<1>6. CASE Pop BY <1>6, <1>0 DEF Pop, ReplayHolds, RenderShape
<1>7. CASE Dispatch BY <1>7, <1>0 DEF Dispatch, ReplayHolds, RenderShape
<1>8. CASE DrainDropped BY <1>8, <1>0 DEF DrainDropped, ReplayHolds, RenderShape
<1>9. CASE Play BY <1>9, <1>0 DEF Play, ReplayHolds, RenderShape
<1>10. CASE Reconcile BY <1>10, <1>0 DEF Reconcile, ReplayHolds, RenderShape
<1>11. CASE UNCHANGED vars
  BY <1>0, <1>11 DEF vars, ReplayHolds, Key
<1>12. CASE StartTune BY <1>0, <1>12 DEF StartTune, HeldExcuses
<1>13. CASE RenderTune \/ TuneRendered
  BY <1>0, <1>13 DEF RenderTune, TuneRendered, ReplayHolds, RenderShape
<1> QED
  BY <1>1, <1>2, <1>3, <1>4, <1>5, <1>6, <1>7, <1>8, <1>9, <1>10, <1>11, <1>12, <1>13
  DEF Next, Block

\* What the voices have to hold, and what they hold or will.
Owed == Key + Queued("off") + Mirroring("off") + Laid("off") + latch.noteOffs + Counting
Sounding == KeysDown(pool) + Queued("on") + Mirroring("on") + Laid("on")

LEMMA OwedTypes ==
    ASSUME Shapes
    PROVE  /\ Key \in Int /\ Queued("off") \in Int /\ Mirroring("off") \in Int /\ Laid("off") \in Int
           /\ latch.noteOffs \in Int /\ Counting \in Int /\ KeysDown(pool) \in Int
           /\ Queued("on") \in Int /\ Mirroring("on") \in Int /\ Laid("on") \in Int
           /\ Owed \in Int /\ Sounding \in Int
<1>1. /\ Key \in Int /\ Queued("off") \in Int /\ Mirroring("off") \in Int /\ Laid("off") \in Int
      /\ latch.noteOffs \in Int /\ Counting \in Int /\ KeysDown(pool) \in Int
      /\ Queued("on") \in Int /\ Mirroring("on") \in Int /\ Laid("on") \in Int
  BY CountTypes
<1> QED BY <1>1 DEF Owed, Sounding

LEMMA VoicesStay ==
    ASSUME VoicesHold, render.pc # "scrub", ring' = ring, player' = player,
           latch'.noteOffs = latch.noteOffs, sender' = sender, KeysDown(pool)' = KeysDown(pool),
           \A m \in {"on", "off"} : Mirroring(m)' = Mirroring(m) /\ Laid(m)' = Laid(m)
    PROVE  VoicesHold'
BY DEF VoicesHold, Key, Queued, Counting

LEMMA VoicesStep ==
    ASSUME Shapes, Uncleaned, ReleasedKey, HeldInv, history' \cap HeldExcuses = {}, [Next]_vars
    PROVE  VoicesHold'
<1>0. /\ Shapes /\ RenderShape /\ LatchShape /\ HeldInv /\ VoicesHold /\ history' \cap HeldExcuses = {}
      /\ render.pc # "scrub" => Owed <= Sounding
      /\ Owed' <= Sounding' => VoicesHold'
  BY DEF Shapes, HeldInv, VoicesHold, Owed, Sounding
<1>1. ASSUME NEW message \in Messages, Send(message) PROVE VoicesHold'
  <2>1. ~ (Full /\ message = "on")
    BY <1>0, <1>1 DEF Send, Excused, HeldExcuses
  <2>2. CASE render.pc = "scrub"
    BY <1>1, <2>2 DEF Send, VoicesHold
  <2>3. CASE render.pc # "scrub"
    <3>1. /\ Key' + Queued("off")' + Reading' + Queued("on") = Key + Queued("off") + Queued("on")'
          /\ Queued("on")' \in Int /\ Queued("off")' \in Int /\ Key' \in Int
          /\ Counting = 0 /\ Reading' \in Int /\ Counting' = Reading'
      BY <1>0, <1>1, <2>1, SendBalance
    <3>2. /\ \A m : Mirroring(m)' = Mirroring(m) /\ Laid(m)' = Laid(m)
          /\ latch' = latch /\ KeysDown(pool)' = KeysDown(pool)
      BY <1>0, <1>1, SendCounts, SendKey
    <3>3. /\ Owed' = Key' + Queued("off")' + Mirroring("off") + Laid("off") + latch.noteOffs + Reading'
          /\ Sounding' = KeysDown(pool) + Queued("on")' + Mirroring("on") + Laid("on")
      BY <3>1, <3>2 DEF Owed, Sounding
    <3>4. /\ Owed = Key + Queued("off") + Mirroring("off") + Laid("off") + latch.noteOffs
          /\ Sounding = KeysDown(pool) + Queued("on") + Mirroring("on") + Laid("on")
          /\ Owed <= Sounding
      BY <1>0, <2>3, <3>1, OwedTypes DEF Owed, Sounding
    <3>5. /\ Key \in Int /\ Queued("off") \in Int /\ Mirroring("off") \in Int /\ Laid("off") \in Int
          /\ latch.noteOffs \in Int /\ KeysDown(pool) \in Int
          /\ Queued("on") \in Int /\ Mirroring("on") \in Int /\ Laid("on") \in Int
      BY <1>0, OwedTypes
    <3>6. Owed' <= Sounding'
      BY ONLY <3>1, <3>3, <3>4, <3>5
    <3> QED BY <1>0, <3>6
  <2> QED BY <2>2, <2>3
<1>2. CASE Store
  <2>1. /\ ring' = ring /\ render' = render /\ player' = player /\ pool' = pool /\ Counting' = 0
    BY <1>0, <1>2, StoreTodo
  <2>2. CASE render.pc = "scrub"
    BY <2>1, <2>2 DEF VoicesHold
  <2>3. CASE render.pc # "scrub"
    <3>1. latch'.noteOffs + 0 <= latch.noteOffs + Counting /\ latch'.noteOffs \in Int
      <4>1. CASE Head(sender.todo) = "count"
        <5>1. sender.todo = <<"count", "read", "write">>
          BY <1>0, <1>2, <4>1, StoreTodo, TodoTails DEF Latching
        <5>2. Counting = 1
          BY <5>1 DEF Counting, Bit
        <5>3. latch.noteOffs # DroppedLimit
          BY <1>0, <1>2, <4>1 DEF Store, HeldExcuses
        <5>4. latch.noteOffs < DroppedLimit
          BY <1>0, <5>3, DroppedLimitAssumption DEF LatchShape
        <5>5. latch' = [latch EXCEPT !.noteOffs = @ + 1]
          BY <1>2, <4>1, <5>4 DEF Store, Count
        <5>6. latch'.noteOffs = latch.noteOffs + 1 /\ latch.noteOffs \in Int
          BY <1>0, <5>5 DEF LatchShape
        <5> QED BY <5>2, <5>6
      <4>2. CASE Head(sender.todo) # "count"
        <5>1. latch' \in {latch, [latch EXCEPT !.notesOff = TRUE], [latch EXCEPT !.reset = TRUE],
                          [latch EXCEPT !.dirty = TRUE], [latch EXCEPT !.off = TRUE],
                          [latch EXCEPT !.sustain = (sender.message = "down")]}
          BY <1>2, <4>2 DEF Store
        <5>2. latch'.noteOffs = latch.noteOffs
          BY <1>0, <5>1 DEF LatchShape
        <5>3. Counting \in {0, 1} /\ latch.noteOffs \in Nat
          BY <1>0, CountTypes
        <5> QED BY <5>2, <5>3
      <4> QED BY <4>1, <4>2
    <3>2. /\ Owed' = Key + Queued("off") + Mirroring("off") + Laid("off") + latch'.noteOffs + 0
          /\ Sounding' = Sounding
      BY <2>1 DEF Owed, Sounding, Key, Queued, Mirroring, Laid
    <3>3. /\ Owed = Key + Queued("off") + Mirroring("off") + Laid("off") + latch.noteOffs + Counting
          /\ Owed <= Sounding
      BY <1>0, <2>3 DEF Owed
    <3>4. /\ Key \in Int /\ Queued("off") \in Int /\ Mirroring("off") \in Int /\ Laid("off") \in Int
          /\ latch.noteOffs \in Int /\ Counting \in Int /\ Sounding \in Int
      BY <1>0, OwedTypes
    <3>5. Owed' <= Sounding'
      BY ONLY <3>1, <3>2, <3>3, <3>4
    <3> QED BY <1>0, <3>5
  <2> QED BY <2>2, <2>3
<1>3. CASE Capture
  BY <1>0, <1>3 DEF Capture, RenderShape, VoicesHold
<1>4. CASE Scrub
  <2>1. ring = <<>> /\ sender.todo = <<>> /\ render.pc = "scrub" /\ Key' = Key /\ pool' = pool
    BY <1>0, <1>4 DEF Scrub, HeldExcuses, Key
  <2>2. Key <= render.depth
    BY <1>0, <2>1 DEF HeldInv, ReplayHolds
  <2>3. sender' = sender
    BY <1>4 DEF Scrub
  <2>4. Counting' = 0
    BY <2>1, <2>3, TodosDisjoint DEF Counting, Bit, ReleaseTodos
  <2>5. /\ Queued("on")' = 0 /\ Queued("off")' = 0 /\ Mirroring("on")' = 0 /\ Mirroring("off")' = 0
        /\ Laid("off")' = 0 /\ Laid("on")' = render.depth /\ latch'.noteOffs = 0
    BY <1>0, <1>4, ScrubCounts
  <2>6. Key \in {0, 1} /\ render.depth \in Nat /\ KeysDown(pool) \in Nat /\ KeysDown(pool)' = KeysDown(pool)
    BY <1>0, <2>1, CountTypes DEF KeysDown
  <2>7. Owed' = Key /\ Sounding' = KeysDown(pool) + render.depth
    BY <2>1, <2>4, <2>5, <2>6 DEF Owed, Sounding
  <2>8. Owed' <= Sounding'
    BY ONLY <2>2, <2>6, <2>7
  <2> QED BY <1>0, <2>8
<1>5. CASE DrainCritical
  <2>1. /\ ring' = ring /\ sender' = sender /\ player' = player
        /\ latch'.noteOffs = latch.noteOffs /\ KeysDown(pool)' = KeysDown(pool)
        /\ render.pc # "scrub"
        /\ \A m \in {"on", "off"} : Mirroring(m)' = Mirroring(m) /\ Laid(m)' = Laid(m)
    BY <1>0, <1>5, DrainCriticalCounts DEF DrainCritical
  <2> QED BY <1>0, <2>1, VoicesStay
<1>6. CASE Pop
  <2>1. /\ Queued("on")' + Mirroring("on")' = Queued("on") + Mirroring("on")
        /\ Queued("off")' + Mirroring("off")' = Queued("off") + Mirroring("off")
        /\ Laid("on")' = Laid("on") /\ Laid("off")' = Laid("off")
        /\ Queued("on")' \in Int /\ Queued("off")' \in Int
        /\ Mirroring("on")' \in Int /\ Mirroring("off")' \in Int
    BY <1>0, <1>6, PopBalance
  <2>2. Key' = Key /\ Counting' = Counting /\ latch' = latch /\ pool' = pool /\ render.pc # "scrub"
    BY <1>6 DEF Pop, Key, Counting
  <2>3. /\ Owed' = Key + Queued("off")' + Mirroring("off")' + Laid("off") + latch.noteOffs + Counting
        /\ Sounding' = KeysDown(pool) + Queued("on")' + Mirroring("on")' + Laid("on")
    BY <2>1, <2>2 DEF Owed, Sounding, KeysDown
  <2>4. /\ Owed = Key + Queued("off") + Mirroring("off") + Laid("off") + latch.noteOffs + Counting
        /\ Sounding = KeysDown(pool) + Queued("on") + Mirroring("on") + Laid("on")
        /\ Owed <= Sounding
    BY <1>0, <2>2 DEF Owed, Sounding
  <2>5. /\ Key \in Int /\ Queued("off") \in Int /\ Mirroring("off") \in Int /\ Laid("off") \in Int
        /\ latch.noteOffs \in Int /\ Counting \in Int /\ KeysDown(pool) \in Int
        /\ Queued("on") \in Int /\ Mirroring("on") \in Int /\ Laid("on") \in Int
    BY <1>0, OwedTypes
  <2>6. Owed' <= Sounding'
    BY ONLY <2>1, <2>3, <2>4, <2>5
  <2> QED BY <1>0, <2>6
<1>7. CASE Dispatch
  <2>1. /\ Mirroring("on") = Bit(render.message = "on") /\ Mirroring("off") = Bit(render.message = "off")
        /\ Mirroring("on")' = 0 /\ Mirroring("off")' = 0
        /\ Laid("on")' = Laid("on") + Bit(render.message = "on")
        /\ Laid("off")' = Laid("off") + Bit(render.message = "off")
    BY <1>0, <1>7, DispatchCounts
  <2>2. /\ Key' = Key /\ Counting' = Counting /\ latch' = latch /\ pool' = pool /\ render.pc # "scrub"
        /\ ring' = ring
    BY <1>7 DEF Dispatch, Key, Counting
  <2>3. /\ Owed' = Key + Queued("off") + 0 + (Laid("off") + Mirroring("off")) + latch.noteOffs + Counting
        /\ Sounding' = KeysDown(pool) + Queued("on") + 0 + (Laid("on") + Mirroring("on"))
    BY <2>1, <2>2 DEF Owed, Sounding, KeysDown, Queued
  <2>4. /\ Owed = Key + Queued("off") + Mirroring("off") + Laid("off") + latch.noteOffs + Counting
        /\ Sounding = KeysDown(pool) + Queued("on") + Mirroring("on") + Laid("on")
        /\ Owed <= Sounding
    BY <1>0, <2>2 DEF Owed, Sounding
  <2>5. /\ Key \in Int /\ Queued("off") \in Int /\ Mirroring("off") \in Int /\ Laid("off") \in Int
        /\ latch.noteOffs \in Int /\ Counting \in Int /\ KeysDown(pool) \in Int
        /\ Queued("on") \in Int /\ Mirroring("on") \in Int /\ Laid("on") \in Int
    BY <1>0, OwedTypes
  <2>6. Owed' <= Sounding'
    BY ONLY <2>3, <2>4, <2>5
  <2> QED BY <1>0, <2>6
<1>8. CASE DrainDropped
  <2>1. /\ Mirroring("on")' = Mirroring("on") /\ Mirroring("off")' = Mirroring("off")
        /\ Laid("on")' = Laid("on") + 0 /\ Laid("off")' = Laid("off") + latch.noteOffs
        /\ latch'.noteOffs = 0
    BY <1>0, <1>8, DrainDroppedCounts
  <2>2. /\ Key' = Key /\ Counting' = Counting /\ pool' = pool /\ render.pc # "scrub" /\ ring' = ring
    BY <1>8 DEF DrainDropped, Key, Counting
  <2>3. /\ Owed' = Key + Queued("off") + Mirroring("off") + (Laid("off") + latch.noteOffs) + 0 + Counting
        /\ Sounding' = KeysDown(pool) + Queued("on") + Mirroring("on") + (Laid("on") + 0)
    BY <2>1, <2>2 DEF Owed, Sounding, KeysDown, Queued
  <2>4. /\ Owed = Key + Queued("off") + Mirroring("off") + Laid("off") + latch.noteOffs + Counting
        /\ Sounding = KeysDown(pool) + Queued("on") + Mirroring("on") + Laid("on")
        /\ Owed <= Sounding
    BY <1>0, <2>2 DEF Owed, Sounding
  <2>5. /\ Key \in Int /\ Queued("off") \in Int /\ Mirroring("off") \in Int /\ Laid("off") \in Int
        /\ latch.noteOffs \in Int /\ Counting \in Int /\ KeysDown(pool) \in Int
        /\ Queued("on") \in Int /\ Mirroring("on") \in Int /\ Laid("on") \in Int
    BY <1>0, OwedTypes
  <2>6. Owed' <= Sounding'
    BY ONLY <2>3, <2>4, <2>5
  <2> QED BY <1>0, <2>6
<1>9. CASE Play
  <2> DEFINE message == Head(render.due)
             on == IF message = "on" THEN 1 ELSE 0
             off == IF message = "off" THEN 1 ELSE 0
  <2>1. /\ Mirroring("on")' = Mirroring("on") /\ Mirroring("off")' = Mirroring("off")
        /\ Laid("on") = Laid("on")' + on /\ Laid("off") = Laid("off")' + off
        /\ Laid("on")' \in Int /\ Laid("off")' \in Int
        /\ message \in Messages
    <3>1. on = Bit(message = "on") /\ off = Bit(message = "off")
      BY DEF Bit
    <3> QED BY <1>0, <1>9, <3>1, PlayCounts
  <2>2. /\ Key' = Key /\ Counting' = Counting /\ latch' = latch /\ render.pc # "scrub" /\ ring' = ring
        /\ pool' = Voices(message)
    BY <1>9 DEF Play, Key, Counting
  <2>3. message # "notesOff"
    <3>1. Laid("notesOff")' \in Nat /\ Laid("notesOff")' + Bit(message = "notesOff") = 0
      BY <1>0, <1>9, PlayCounts DEF Uncleaned
    <3> QED BY <3>1 DEF Bit
  <2>4. /\ ~ (/\ message = "off" /\ channel \in pool.sustain
              /\ Cardinality(KeyDownVoices(pool, note, channel)) > 1)
        /\ ~ (message = "on" /\ pool.slot[NoteOnSlot(pool, note, channel, Anonymous)].keyDown)
    BY <1>0, <1>9 DEF Play, HeldExcuses
  <2>5. Own(pool) /\ KeysDown(pool) \in Nat /\ KeysDown(Voices(message)) \in Nat
    <3>1. Own(pool) /\ Own(pool')
      BY <1>0, Components, PoolStep DEF PoolShape
    <3>2. Own(Voices(message))
      BY <2>2, <3>1
    <3> QED BY <3>1, <3>2, Voice
  <2>6. KeysDown(pool) + on <= KeysDown(Voices(message)) + off
    <3>1. CASE message = "on"
      <4>1. Voices(message) = NoteOn(pool, note, channel, Anonymous)
        BY <3>1 DEF Voices
      <4>2. KeysDown(NoteOn(pool, note, channel, Anonymous)) = KeysDown(pool) + 1
        BY <2>4, <2>5, <3>1, PressStarts
      <4>3. on = 1 /\ off = 0
        BY <3>1
      <4> QED BY <2>5, <4>1, <4>2, <4>3
    <3>2. CASE message = "off"
      <4>1. Voices(message) = NoteOff(pool, note, channel, Anonymous)
        BY <3>2 DEF Voices
      <4>2. KeysDown(pool) <= KeysDown(NoteOff(pool, note, channel, Anonymous)) + 1
        BY <2>4, <2>5, <3>2, ReleaseTakesOne
      <4>3. on = 0 /\ off = 1
        BY <3>2
      <4> QED BY <2>5, <4>1, <4>2, <4>3
    <3>3. CASE message \in {"down", "up", "reset"}
      <4>1. Voices(message) = SetSustainPedal(pool, channel, message = "down")
        BY <3>3 DEF Voices
      <4>2. (message = "down") \in BOOLEAN
        OBVIOUS
      <4>3. KeysDown(Voices(message)) = KeysDown(pool)
        BY <2>5, <4>1, <4>2, PedalTakesNoKey
      <4> QED BY <2>5, <3>3, <4>3
    <3> HIDE DEF message
    <3> QED BY <2>1, <2>3, <3>1, <3>2, <3>3 DEF Messages
  <2>7. KeysDown(pool)' = KeysDown(Voices(message))
    BY <2>2 DEF KeysDown
  <2> DEFINE keys == KeysDown(Voices(message))
  <2>8. /\ Owed' = Key + Queued("off") + Mirroring("off") + Laid("off")' + latch.noteOffs + Counting
        /\ Sounding' = keys + Queued("on") + Mirroring("on") + Laid("on")'
    BY <2>1, <2>2, <2>7 DEF Owed, Sounding, Queued
  <2>9. /\ Owed = Key + Queued("off") + Mirroring("off") + (Laid("off")' + off) + latch.noteOffs + Counting
        /\ Sounding = KeysDown(pool) + Queued("on") + Mirroring("on") + (Laid("on")' + on)
        /\ Owed <= Sounding
    BY <1>0, <2>1, <2>2 DEF Owed, Sounding
  <2>10. /\ Key \in Int /\ Queued("off") \in Int /\ Mirroring("off") \in Int
         /\ latch.noteOffs \in Int /\ Counting \in Int /\ KeysDown(pool) \in Int
         /\ Queued("on") \in Int /\ Mirroring("on") \in Int
         /\ Laid("on")' \in Int /\ Laid("off")' \in Int
    BY <1>0, <2>1, OwedTypes
  <2>11. keys \in Int /\ on \in Int /\ off \in Int /\ KeysDown(pool) + on <= keys + off
    BY <2>5, <2>6
  <2> HIDE DEF keys, on, off
  <2>12. Owed' <= Sounding'
    BY ONLY <2>8, <2>9, <2>10, <2>11
  <2> QED BY <1>0, <2>12
<1>10. CASE Reconcile
  <2> DEFINE Held == IF MirrorDepth > 0 THEN {<<channel, note>>} ELSE {}
             pedals == IF mirror.pedal THEN {channel} ELSE {}
             p == ReconcileUnheldVoices(pool, Held, pedals)
             tails == {i \in Slots : Released(p.slot[i])}
  <2>1. /\ pool' = ReleaseFinished(p, tails) /\ render.pc = "play" /\ render.due = <<>>
        /\ history' = IF Silenced(pool, p) # {} /\ latch.noteOffs > 0
                      THEN history \cup {"orphaned"} ELSE history
        /\ ring' = ring /\ latch' = latch /\ sender' = sender /\ player' = player
    BY <1>10 DEF Reconcile
  <2>2. /\ Own(p)
        /\ <<channel, note>> \in Held \/ Silenced(pool, p) = {} => KeysDown(p) = KeysDown(pool)
    BY <1>0, Components, ReconcilerOwn
  <2>3. tails \in SUBSET Slots /\ \A i \in tails : Released(p.slot[i])
    OBVIOUS
  <2>4. MirrorDepth > 0 => <<channel, note>> \in Held
    OBVIOUS
  <2> HIDE DEF p, tails, Held
  <2>5. KeysDown(pool') = KeysDown(p) /\ KeysDown(p) \in Nat /\ KeysDown(pool)' = KeysDown(p)
    BY <2>1, <2>2, <2>3, TailsTakeNoKey, Voice DEF KeysDown
  <2>6. \A m : Mirroring(m)' = Mirroring(m) /\ Laid(m)' = Laid(m) /\ Mirroring(m) = 0
    BY <1>0, <1>10, <2>1, SameCounts DEF Mirroring, Bit
  <2>7. CASE MirrorDepth > 0 \/ Silenced(pool, p) = {}
    <3>1. KeysDown(pool)' = KeysDown(pool)
      BY <2>2, <2>4, <2>5, <2>7
    <3> QED BY <1>0, <2>1, <2>6, <3>1, VoicesStay
  <2>8. CASE ~ (MirrorDepth > 0) /\ Silenced(pool, p) # {}
    <3>1. latch.noteOffs = 0
      <4>1. ~ (latch.noteOffs > 0)
        BY <1>0, <2>1, <2>8 DEF HeldExcuses
      <4> QED BY <1>0, <4>1, CountTypes
    <3>2. mirror.depth = 0
      BY <1>0, <2>8, MirrorIsCurrent, CountTypes
    <3>3. Laid("on") = 0 /\ Laid("off") = 0
      <4>1. render.lane = <<>> /\ MessagesOf(<<>>) = <<>>
        <5>1. <<>> \in Seq(LaneEvents)
          BY EmptySeq
        <5>2. ~ render.bypassed
          BY <1>0, <2>1 DEF HeldExcuses, Shapes, HistoryShape
        <5> QED BY <1>0, <2>1, <5>1, <5>2, LaneMessages, EmptySeq DEF RenderShape
      <4> QED BY <2>1, <4>1, TimesEmpty DEF Laid
    <3>4. Key + Queued("off") + Mirroring("off") + Reading <= mirror.depth + Queued("on") + Mirroring("on")
      BY <1>0 DEF HeldInv, MirrorHolds
    <3>5. /\ Owed' = Key + Queued("off") + 0 + 0 + 0 + Counting
          /\ Sounding' = KeysDown(p) + Queued("on") + 0 + 0
      BY <2>1, <2>5, <2>6, <3>1, <3>3 DEF Owed, Sounding, Key, Queued, Counting
    <3>6. /\ Key \in Nat /\ Queued("off") \in Nat /\ Queued("on") \in Nat
          /\ Counting \in Nat /\ Reading \in Nat /\ Counting <= Reading
          /\ Mirroring("on") = 0 /\ Mirroring("off") = 0
      BY <1>0, <2>6, CountTypes
    <3>7. Owed' <= Sounding'
      BY ONLY <2>5, <3>2, <3>4, <3>5, <3>6
    <3> QED BY <1>0, <3>7
  <2> QED BY <2>7, <2>8
<1>11. CASE UNCHANGED vars
  <2>1. /\ ring' = ring /\ render' = render /\ player' = player /\ pool' = pool /\ latch' = latch
        /\ sender' = sender
    BY <1>11 DEF vars
  <2> QED BY <1>0, <2>1 DEF VoicesHold, Key, Queued, Mirroring, Laid, Counting, KeysDown
<1>12. CASE StartTune BY <1>0, <1>12 DEF StartTune, HeldExcuses
<1>13. CASE RenderTune \/ TuneRendered
  <2>1. /\ ring' = ring /\ sender' = sender /\ player' = player /\ latch' = latch
        /\ pool' = pool /\ render.pc # "scrub"
    BY <1>13 DEF RenderTune, TuneRendered
  <2>2. \A m : Mirroring(m)' = Mirroring(m) /\ Laid(m)' = Laid(m)
    BY <1>0, <1>13, SameCounts
  <2>3. KeysDown(pool)' = KeysDown(pool)
    BY <2>1 DEF KeysDown
  <2> QED BY <1>0, <2>1, <2>2, <2>3, VoicesStay
<1> QED
  BY <1>1, <1>2, <1>3, <1>4, <1>5, <1>6, <1>7, <1>8, <1>9, <1>10, <1>11, <1>12, <1>13
  DEF Next, Block

LEMMA HeldStep ==
    ASSUME Shapes, Uncleaned, ReleasedKey, HeldInv, history' \cap HeldExcuses = {}, [Next]_vars
    PROVE  HeldInv'
BY AlternateStep, MirrorHoldsStep, MirrorWillHoldStep, ReplayStep, VoicesStep DEF HeldInv

-----------------------------------------------------------------------------
(* The theorems.                                                           *)

LEMMA InvariantStep == IInv /\ [Next]_vars => IInv'
<1> SUFFICES ASSUME IInv, [Next]_vars PROVE IInv'
  OBVIOUS
<1>1. Shapes /\ ReleasedKey /\ history \subseteq history'
  BY HistoryGrows DEF IInv
<1>2. Shapes' /\ ReleasedKey'
  BY <1>1, ShapesStep, ReleasedKeyStep
<1>3. ASSUME history' \cap {"killed", "bypassed"} = {} PROVE Uncleaned /\ Uncleaned'
  <2>1. Uncleaned
    BY <1>1, <1>3 DEF IInv
  <2> QED BY <1>1, <1>3, <2>1, UncleanedStep
<1>4. ASSUME history' \cap MirrorExcuses = {} PROVE MirrorInv'
  <2>1. MirrorInv
    BY <1>1, <1>4 DEF IInv
  <2>2. Uncleaned
    BY <1>3, <1>4 DEF MirrorExcuses
  <2> QED BY <1>1, <1>4, <2>1, <2>2, MirrorStep
<1>5. ASSUME history' \cap HeldExcuses = {} PROVE HeldInv'
  <2>1. HeldInv
    BY <1>1, <1>5 DEF IInv
  <2>2. Uncleaned
    BY <1>3, <1>5 DEF HeldExcuses
  <2> QED BY <1>1, <1>5, <2>1, <2>2, HeldStep
<1> QED BY <1>2, <1>3, <1>4, <1>5 DEF IInv

\* The shapes hold in every reachable state; where nothing excuses a difference, the mirror
\* follows the key through the ring, and mirror and voices hold what the player holds.
THEOREM InductiveInvariant == Spec => []IInv
<1>1. Init => IInv
  BY InitInvariant
<1>2. IInv /\ [Next]_vars => IInv'
  BY InvariantStep
<1> QED BY <1>1, <1>2, PTL DEF Spec

LEMMA ShapesAreTyped == IInv => TypeOK
<1> SUFFICES ASSUME IInv PROVE TypeOK
  OBVIOUS
<1> USE DEF IInv, Shapes
<1>1. sender.message \in Messages /\ sender.todo \in Seq(Ops) /\ sender.gen \in Nat /\ sender.depth \in Nat
  <2>1. \A t \in {<<>>} \cup ReleaseTodos \cup PedalTodos \cup CleanupTodos : t \in Seq(Ops)
    <3>1. <<>> \in Seq(Ops)
      BY EmptySeq
    <3>2. \A a, b, c, d \in Ops : /\ <<a>> \in Seq(Ops) /\ <<a, b>> \in Seq(Ops)
                                  /\ <<a, b, c>> \in Seq(Ops) /\ <<a, b, c, d>> \in Seq(Ops)
      OBVIOUS
    <3>3. \A t \in ReleaseTodos : t \in Seq(Ops)
      <4>1. {"count", "read", "write"} \subseteq Ops
        BY DEF Ops
      <4> QED BY <3>2, <4>1 DEF ReleaseTodos
    <3>4. \A t \in CleanupTodos : t \in Seq(Ops)
      <4>1. {"bump", "notesOff"} \subseteq Ops
        BY DEF Ops
      <4> QED BY <3>2, <4>1 DEF CleanupTodos
    <3>5. \A t \in PedalTodos : t \in Seq(Ops)
      <4>1. {"pedal", "sustain", "dirty", "off", "reset"} \subseteq Ops
        BY DEF Ops
      <4> QED BY <3>2, <4>1 DEF PedalTodos
    <3> QED BY <3>1, <3>3, <3>4, <3>5
  <2> QED BY <2>1 DEF SenderShape
<1>2. setup \in [capacity : RingCapacities, stamped : BOOLEAN]
  BY DEF SetupShape
<1>3. player \in [key : BOOLEAN, pedal : BOOLEAN, sent : 0 .. MaxMessages]
  BY DEF PlayerShape
<1>4. ring \in Seq(Messages) /\ Len(ring) <= setup.capacity
  BY DEF RingShape
<1>5. latch \in [noteOffs : 0 .. DroppedLimit, notesOff : BOOLEAN, reset : BOOLEAN,
                 sustain : BOOLEAN, dirty : BOOLEAN, off : BOOLEAN]
  BY DEF LatchShape
<1>6. mirror \in [gen : Nat, noteGen : Nat, depth : Nat, pedal : BOOLEAN]
  BY DEF MirrorShape
<1>7. /\ render.pc \in {"idle", "scrub", "critical", "pop", "mirror", "play", "tune"}
      /\ render.bypassed \in BOOLEAN /\ render.tunes \in 0 .. MaxTunes
      /\ render.lane \in Seq([class : 0 .. 4, message : Messages]) /\ render.due \in Seq(Messages)
  BY DEF RenderShape, LaneEvents
<1>8. pool \in Pools /\ history \subseteq Excuses
  BY DEF PoolShape, Own, HistoryShape
<1> QED BY ONLY <1>1, <1>2, <1>3, <1>4, <1>5, <1>6, <1>7, <1>8 DEF TypeOK

\* The state stays well formed, for every ring and every number of voices.
THEOREM TypeCorrect == Spec => []TypeOK
BY InductiveInvariant, ShapesAreTyped, PTL

\* Nothing is counted once everything has arrived.
LEMMA NothingUnderWay ==
    ASSUME Shapes, AtRest
    PROVE  /\ ~ Latching /\ Reading = 0 /\ Counting = 0 /\ latch.noteOffs = 0
           /\ \A m : Queued(m) = 0 /\ Mirroring(m) = 0 /\ Laid(m) = 0
           /\ 1 \in 1 .. Len(ring) + 1
<1>1. /\ sender.todo = <<>> /\ ring = <<>> /\ [latch EXCEPT !.sustain = FALSE] = NoLatch
      /\ render.pc = "idle" /\ render.lane = <<>> /\ render.due = <<>>
  BY DEF AtRest, Shapes, RenderShape
<1>2. ~ Latching
  BY <1>1, TodosDisjoint DEF Latching
<1>3. Reading = 0 /\ Counting = 0
  BY <1>2 DEF Latching, Reading, Counting, Bit, ReleaseTodos
<1>4. latch.noteOffs = 0
  <2>1. [latch EXCEPT !.sustain = FALSE].noteOffs = NoLatch.noteOffs
    BY <1>1
  <2> QED BY <2>1 DEF NoLatch, Shapes, LatchShape
<1>5. MessagesOf(<<>>) = <<>>
  <2>1. <<>> \in Seq(LaneEvents)
    BY EmptySeq
  <2> QED BY <2>1, LaneMessages, EmptySeq
<1>6. \A m : Queued(m) = 0 /\ Mirroring(m) = 0 /\ Laid(m) = 0
  BY <1>1, <1>5, TimesEmpty DEF Queued, Mirroring, Laid, Bit
<1>7. 1 \in 1 .. Len(ring) + 1
  BY CountTypes
<1> QED BY <1>2, <1>3, <1>4, <1>6, <1>7

\* Once all messages have arrived, the mirror of the held notes holds the key exactly when
\* the player does, unless a press was lost, a cleanup, a restore or a tune came between, or
\* a latched release was mirrored before its press.
THEOREM MirrorExact == Spec => []MirrorFollowsTheKey
<1>1. IInv => MirrorFollowsTheKey
  <2> SUFFICES ASSUME IInv, AtRest, history \cap MirrorExcuses = {}
               PROVE  MirrorDepth = IF player.key THEN 1 ELSE 0
    BY DEF MirrorFollowsTheKey, MirrorExcuses
  <2>1. Shapes /\ MirrorInv
    BY DEF IInv
  <2>2. MirrorDepth = mirror.depth
    <3>1. Uncleaned
      BY DEF IInv, MirrorExcuses
    <3> QED BY <3>1, MirrorIsCurrent
  <2>3. mirror.depth = DepthBeforeThis
    BY <2>1, NothingUnderWay DEF MirrorInv
  <2>4. DepthBeforeThis = Key
    <3>1. /\ Queued("on") = 0 /\ Queued("off") = 0 /\ Mirroring("on") = 0 /\ Mirroring("off") = 0
          /\ Key \in {0, 1}
      BY <2>1, NothingUnderWay, CountTypes
    <3> QED BY <3>1 DEF DepthBeforeThis, DepthBefore, Queued
  <2> QED BY <2>2, <2>3, <2>4 DEF Key, Bit
<1> QED BY <1>1, InductiveInvariant, PTL

\* Once all messages have arrived, a key that is down has a voice: a full ring, a restore and
\* the reconciler take none away that the player still holds (a tune silences all).
THEOREM HeldSounds == Spec => []HeldKeySounds
<1>1. IInv => HeldKeySounds
  <2> SUFFICES ASSUME IInv, AtRest, player.key, history \cap HeldExcuses = {}
               PROVE  \E i \in Slots : pool.slot[i].keyDown
    BY DEF HeldKeySounds, HeldExcuses
  <2>1. Shapes /\ HeldInv /\ render.pc # "scrub"
    BY DEF IInv, AtRest
  <2>2. Key = 1 /\ KeysDown(pool) \in Nat
    BY <2>1, CountTypes DEF Key, Bit
  <2>3. /\ Queued("on") = 0 /\ Queued("off") = 0 /\ Mirroring("on") = 0 /\ Mirroring("off") = 0
        /\ Laid("on") = 0 /\ Laid("off") = 0 /\ latch.noteOffs = 0 /\ Counting = 0
    BY <2>1, NothingUnderWay
  <2>4. KeysDown(pool) # 0
    BY <2>1, <2>2, <2>3 DEF HeldInv, VoicesHold
  <2>5. {i \in Slots : pool.slot[i].keyDown} # {}
    BY <2>4, FS_EmptySet DEF KeysDown
  <2> QED BY <2>5
<1> QED BY <1>1, InductiveInvariant, PTL
=============================================================================
