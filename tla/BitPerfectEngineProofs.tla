----------------------- MODULE BitPerfectEngineProofs -----------------------
(***************************************************************************)
(* Proofs about BitPerfectEngine, for every number of voices, every size   *)
(* of the held stack and every set of notes, channels and identities.      *)
(* The invariant IInv says the same of the pool of Poly and of the stack   *)
(* of the forced modes: what is in charge agrees with gates, pedals and    *)
(* player, and what is not in charge is empty.  It has a lemma per action; *)
(* a mode change is the step that carries it from one side to the other,   *)
(* by the ranks of the keys in press order (InPressOrder).                 *)
(***************************************************************************)
EXTENDS BitPerfectEngine, FiniteSetTheorems, FunctionTheorems, SequenceTheorems, NaturalsInduction, TLAPS

HeldEntries == [note : Notes \cup {NoNote}, channel : Channels \cup {AnyChannel},
                id : NoteIds \cup {Anonymous}, order : 0 .. ForcedCapacity, isActive : BOOLEAN,
                keyDown : BOOLEAN, isSustained : BOOLEAN, isSostenuto : BOOLEAN]

Engines == [mode : Modes, unison : UnisonCounts \cup {NoUnison}, pool : Pools,
            held : [Entries -> HeldEntries], voice : [Slots -> NoteIdentities \cup {Silent}],
            sustain : SUBSET Channels, sostenuto : SUBSET Channels, gate : SUBSET Slots,
            restart : SUBSET Slots, early : SUBSET Slots, cut : SUBSET Slots]

Players == [keys : Seq(NoteIdentities), sustain : SUBSET Channels, sostenuto : SUBSET Channels,
            arp : BOOLEAN]

Histories == {"none", "order", "notes"}

\* What is not in use is blank.
PlainVoice(v) == IF v.isActive THEN v.note \in Notes ELSE v = Free
PlainEntry(x) == IF x.isActive THEN x.note \in Notes ELSE x = NoEntry

PlainPool(p) == p \in Pools /\ \A i \in Slots : PlainVoice(p.slot[i])
PlainHeld(held) == held \in [Entries -> HeldEntries] /\ \A k \in Entries : PlainEntry(held[k])

\* In a forced mode a chip that an all-notes-off has cut plays nothing.
CutSilent(e) == \A i \in e.cut : e.voice[i] = Silent

\* The authority that is not in charge holds nothing.
OneAuthority(e) ==
    /\ e.mode = "poly" => /\ e.held = NoHeld /\ e.sustain = {} /\ e.sostenuto = {}
                          /\ \A i \in Slots : e.voice[i] = Silent
    /\ e.mode # "poly" => /\ \A i \in Slots : e.pool.slot[i] = Free
                          /\ e.pool.sustain = {} /\ e.pool.sostenuto = {} /\ CutSilent(e)
    /\ e.mode = "unison" => e.unison \in UnisonCounts

Sane(e) == e \in Engines /\ PlainPool(e.pool) /\ PlainHeld(e.held) /\ OneAuthority(e)

\* The arpeggiator's keys have no channel, the player's have one.
KeysOfPlayer ==
    \A k \in DOMAIN player.keys :
        IF player.arp THEN player.keys[k].channel = AnyChannel ELSE player.keys[k].channel \in Channels

\* The pedals that the engine knows are down, and what they hold is under them.
Under(v, pedals) == IF v.channel = AnyChannel THEN pedals # {} ELSE v.channel \in pedals

UnderPedals(v, sustain, sostenuto) ==
    /\ v.isActive /\ ~ v.keyDown /\ v.isSustained => Under(v, sustain)
    /\ v.isActive /\ v.isSostenuto => Under(v, sostenuto)

HeldUnder(held, sustain, sostenuto) ==
    \A k \in Entries : UnderPedals(held[k], sustain, sostenuto)

PoolUnder(p, sustain, sostenuto) ==
    /\ p.sustain \subseteq sustain /\ p.sostenuto \subseteq sostenuto
    /\ \A i \in Slots : UnderPedals(p.slot[i], sustain, sostenuto)

PedalsKnown(e, sustain, sostenuto) ==
    /\ PoolUnder(e.pool, sustain, sostenuto) /\ HeldUnder(e.held, sustain, sostenuto)
    /\ e.sustain \subseteq sustain /\ e.sostenuto \subseteq sostenuto

\* The chips that must sound.
OwnersOf(e) == IF e.mode = "poly" THEN {i \in Slots : Holds(e.pool.slot[i])}
               ELSE {i \in Slots : e.voice[i] # Silent}

\* The gates on one side, the chips that must sound on the other.
Agree(e, owners) ==
    /\ e.gate \cup e.restart \subseteq owners \cup e.early
    /\ owners \subseteq e.gate \cup e.restart \cup e.cut
GatesAgree(e) == Agree(e, OwnersOf(e))

\* Beyond GatesAgree: no gate has been cut.
Uncut(e, owners) == owners \subseteq e.gate \cup e.restart

\* No two entries are of the same age.
Ranked(held) ==
    \A j, k \in Entries : held[j].isActive /\ held[k].isActive /\ held[j].order = held[k].order => j = k

\* How often x is held by the keys of a pool or of a stack, and by the player.
KeyCount(f, D, x) == Cardinality({i \in D : f[i].keyDown /\ Identity(f[i]) = x})
CountKeys(keys, x) == Cardinality({k \in DOMAIN keys : Identity(keys[k]) = x})

\* The keys that are down stay what they are.
KeysStay(f, g, D) ==
    \A i \in D : (f[i].keyDown <=> g[i].keyDown) /\ (f[i].keyDown => Identity(g[i]) = Identity(f[i]))

\* No voice of q sounds that was silent in p.
NoneStarts(p, q) == \A i \in Slots : Holds(q.slot[i]) => Holds(p.slot[i])

\* Entries may go away, and those that stay keep their age.
AgesStay(f, g) ==
    \A k \in Entries : g[k].isActive => f[k].isActive /\ g[k].order = f[k].order

\* Entry k goes on top, the others keep their order.
OnTop(f, g, k) ==
    /\ \A j \in Entries \ {k} :
          /\ g[j].isActive = f[j].isActive /\ g[j].keyDown = f[j].keyDown
          /\ Identity(g[j]) = Identity(f[j])
          /\ g[j].isActive => g[j].order < g[k].order
    /\ \A i, j \in Entries \ {k} : f[i].isActive /\ f[j].isActive =>
          (g[i].order <= g[j].order <=> f[i].order <= f[j].order)

KeysMatch(e, keys) == \A x \in NoteIdentities : KeyDown(e, x) = CountKeys(keys, x)

\* The held stack has the keys that are down in the order in which they were pressed.
KeyEntries(held) == {k \in Entries : held[k].keyDown}
Place(held, k) == Cardinality({j \in KeyEntries(held) : held[j].order <= held[k].order})
InPressOrder(held, keys) ==
    /\ Cardinality(KeyEntries(held)) = Len(keys)
    /\ \A k \in KeyEntries(held) : Identity(held[k]) = keys[Place(held, k)]

PlaysTop(e) == e.voice[1] = IF 1 \in e.cut THEN Silent
                            ELSE Identity(e.held[Newest(e.held, SoundingEntries(e.held))])

\* Whatever was played, with these pedals down.
Fit(e, sustain, sostenuto) ==
    Sane(e) /\ PedalsKnown(e, sustain, sostenuto) /\ GatesAgree(e) /\ Ranked(e.held)

\* The keys that are down and their order do not change.
Continues(e, r) ==
    /\ r.mode = e.mode
    /\ KeysStay(e.pool.slot, r.pool.slot, Slots) /\ KeysStay(e.held, r.held, Entries)
    /\ AgesStay(e.held, r.held)
    /\ e.mode # "poly" /\ KeyEntries(e.held) # {} /\ PlaysTop(e) => PlaysTop(r)

\* What a forced mode plays is the key pressed last, unless that has been cut.
Ordered(e, keys) ==
    e.mode # "poly" => /\ InPressOrder(e.held, keys)
                       /\ keys # <<>> => PlaysTop(e)

IInv ==
    /\ Fit(engine, player.sustain, player.sostenuto)
    /\ player \in Players /\ history \in Histories /\ KeysOfPlayer
    /\ history # "notes" => KeysMatch(engine, player.keys)
    /\ history = "none" => Ordered(engine, player.keys)

-----------------------------------------------------------------------------
(* Finite sets.                                                            *)

LEMMA Matched ==
    ASSUME NEW A, NEW B, IsFiniteSet(A), NEW f \in [A -> B],
           \A i, j \in A : f[i] = f[j] => i = j,
           \A j \in B : \E i \in A : f[i] = j
    PROVE  IsFiniteSet(B) /\ Cardinality(A) = Cardinality(B)
<1>1. f \in Bijection(A, B)
  BY Fun_IsBij
<1> QED BY <1>1, FS_Bijection DEF ExistsBijection

\* Fewer elements than in a finite set it is a proper part of.
LEMMA ProperPart ==
    ASSUME NEW S, IsFiniteSet(S), NEW T, T \subseteq S, NEW x \in S, x \notin T
    PROVE  /\ IsFiniteSet(T) /\ Cardinality(T) \in Nat /\ Cardinality(S) \in Nat
           /\ Cardinality(T) < Cardinality(S)
<1>1. IsFiniteSet(T) /\ Cardinality(T) <= Cardinality(S) /\ Cardinality(S) # Cardinality(T)
  BY FS_Subset
<1> QED BY <1>1, FS_CardinalityType

\* A strict order has a first element in every finite set.
LEMMA FirstExists ==
    ASSUME NEW S, IsFiniteSet(S), S # {}, NEW R,
           \A i \in S : <<i, i>> \notin R,
           \A i, j, k \in S : <<i, j>> \in R /\ <<j, k>> \in R => <<i, k>> \in R
    PROVE  \E i \in S : \A j \in S : <<j, i>> \notin R
<1> DEFINE below(i) == {j \in S : <<j, i>> \in R}
           N == {n \in Nat : \E i \in S : Cardinality(below(i)) = n}
<1>1. \A i \in S : IsFiniteSet(below(i)) /\ Cardinality(below(i)) \in Nat
  BY FS_Subset, FS_CardinalityType
<1>2. N \subseteq Nat /\ N # {}
  <2>1. PICK i \in S : TRUE
    OBVIOUS
  <2>2. Cardinality(below(i)) \in N
    BY <1>1
  <2> QED BY <2>2
<1> HIDE DEF N
<1>3. PICK n \in N : \A k \in N : ~ <<k, n>> \in OpToRel(<, Nat)
  BY <1>2, WFMin, NatLessThanWellFounded
<1>4. \A k \in N : ~ k < n
  BY <1>2, <1>3 DEF OpToRel
<1>5. PICK i \in S : Cardinality(below(i)) = n
  BY DEF N
<1>6. ASSUME NEW j \in S, <<j, i>> \in R PROVE FALSE
  <2>1. below(j) \subseteq below(i) /\ j \in below(i) /\ j \notin below(j)
    BY <1>6
  <2>2. Cardinality(below(j)) < Cardinality(below(i))
    BY <1>1, <2>1, ProperPart
  <2>3. Cardinality(below(j)) \in N
    BY <1>1 DEF N
  <2> QED BY <1>4, <1>5, <2>2, <2>3
<1> QED BY <1>6

LEMMA SlotsFinite ==
    /\ IsFiniteSet(Slots) /\ Slots # {} /\ Slots \subseteq Int
    /\ \A S \in SUBSET Slots : IsFiniteSet(S) /\ Cardinality(S) \in Nat
<1>1. IsFiniteSet(Slots)
  BY MaxVoicesAssumption, FS_Interval DEF Slots
<1>2. Slots # {} /\ Slots \subseteq Int
  <2>1. 1 \in Slots
    BY MaxVoicesAssumption DEF Slots
  <2> QED BY <2>1 DEF Slots
<1> QED BY <1>1, <1>2, FS_Subset, FS_CardinalityType

LEMMA EntriesFinite ==
    /\ IsFiniteSet(Entries) /\ Entries # {} /\ Entries \subseteq Int /\ ForcedCapacity \in Nat
    /\ MaxVoices \in Nat /\ MaxVoices <= ForcedCapacity
    /\ Cardinality(Entries) = ForcedCapacity /\ Cardinality(Slots) = MaxVoices
    /\ \A S \in SUBSET Entries : IsFiniteSet(S) /\ Cardinality(S) \in 0 .. ForcedCapacity
<1>1. ForcedCapacity \in Nat /\ MaxVoices \in Nat \ {0} /\ MaxVoices <= ForcedCapacity
  BY MaxVoicesAssumption, ForcedCapacityAssumption
<1>2. /\ IsFiniteSet(Entries) /\ Cardinality(Entries) = ForcedCapacity
      /\ Cardinality(Slots) = MaxVoices
  BY <1>1, FS_Interval DEF Entries, Slots
<1>3. 1 \in Entries /\ Entries \subseteq Int
  BY <1>1 DEF Entries
<1>4. \A S \in SUBSET Entries :
          IsFiniteSet(S) /\ Cardinality(S) <= ForcedCapacity /\ Cardinality(S) \in Nat
  BY <1>2, FS_Subset, FS_CardinalityType
<1> HIDE DEF Entries
<1> QED BY <1>1, <1>2, <1>3, <1>4

LEMMA LowestExists ==
    ASSUME NEW S, IsFiniteSet(S), S # {}, S \subseteq Int PROVE Lowest(S) \in S
<1> DEFINE R == {r \in S \X S : r[1] < r[2]}
<1>2. /\ \A i \in S : <<i, i>> \notin R
      /\ \A i, j, k \in S : <<i, j>> \in R /\ <<j, k>> \in R => <<i, k>> \in R
      /\ \A i, j \in S : <<j, i>> \notin R => i <= j
  OBVIOUS
<1> HIDE DEF R
<1>3. \E i \in S : \A j \in S : <<j, i>> \notin R
  BY <1>2, FirstExists
<1> QED BY <1>2, <1>3 DEF Lowest

LEMMA OldestExists ==
    ASSUME NEW p \in Pools, NEW S \in SUBSET Slots, S # {} PROVE Oldest(p, S) \in S
<1> DEFINE age(i) == p.slot[i].age
           R == {r \in S \X S : age(r[2]) < age(r[1]) \/ (age(r[1]) = age(r[2]) /\ r[1] < r[2])}
<1>1. S \subseteq Int /\ IsFiniteSet(S)
  BY SlotsFinite
<1>2. \A i \in S : age(i) \in Nat
  BY DEF Pools, VoiceStates
<1> HIDE DEF age
<1>3. /\ \A i \in S : <<i, i>> \notin R
      /\ \A i, j, k \in S : <<i, j>> \in R /\ <<j, k>> \in R => <<i, k>> \in R
      /\ \A i, j \in S : <<j, i>> \notin R => (age(j) < age(i) \/ (age(j) = age(i) /\ i <= j))
  BY <1>1, <1>2
<1> HIDE DEF R
<1>4. \E i \in S : \A j \in S : <<j, i>> \notin R
  BY <1>1, <1>3, FirstExists
<1>5. \E i \in S : \A j \in S : age(j) < age(i) \/ (age(j) = age(i) /\ i <= j)
  BY <1>3, <1>4
<1> QED BY <1>5 DEF Oldest, age

LEMMA VictimExists == ASSUME NEW p \in Pools PROVE Victim(p) \in Slots
<1> DEFINE tails == {i \in Slots : Released(p.slot[i])}
           plain == {i \in Slots : p.slot[i].isActive /\ ~ Pedalled(p.slot[i])}
<1>1. /\ tails \in SUBSET Slots /\ plain \in SUBSET Slots /\ Slots \in SUBSET Slots
      /\ Victim(p) = IF tails # {} THEN Oldest(p, tails)
                     ELSE IF plain # {} THEN Oldest(p, plain)
                     ELSE Oldest(p, Slots)
  BY DEF Victim
<1> HIDE DEF tails, plain
<1>2. \A S \in SUBSET Slots : S # {} => Oldest(p, S) \in Slots
  BY OldestExists
<1> QED BY <1>1, <1>2, SlotsFinite

LEMMA NewestExists ==
    ASSUME NEW held \in [Entries -> HeldEntries], NEW K \in SUBSET Entries, K # {}
    PROVE  /\ Newest(held, K) \in K /\ \A j \in K : held[j].order <= held[Newest(held, K)].order
           /\ First(held, K) \in K /\ \A j \in K : held[j].order >= held[First(held, K)].order
<1> DEFINE age(k) == held[k].order
           R == {r \in K \X K : age(r[1]) > age(r[2])}
           Q == {r \in K \X K : age(r[1]) < age(r[2])}
<1>1. IsFiniteSet(K)
  BY EntriesFinite
<1>2. \A k \in K : age(k) \in Int
  BY EntriesFinite DEF HeldEntries
<1> HIDE DEF age
<1>3. /\ \A i \in K : <<i, i>> \notin R
      /\ \A i, j, k \in K : <<i, j>> \in R /\ <<j, k>> \in R => <<i, k>> \in R
      /\ \A i, j \in K : <<j, i>> \notin R => age(j) <= age(i)
  BY <1>2
<1>4. /\ \A i \in K : <<i, i>> \notin Q
      /\ \A i, j, k \in K : <<i, j>> \in Q /\ <<j, k>> \in Q => <<i, k>> \in Q
      /\ \A i, j \in K : <<j, i>> \notin Q => age(j) >= age(i)
  BY <1>2
<1> HIDE DEF R, Q
<1>5. \E i \in K : \A j \in K : <<j, i>> \notin R
  BY <1>1, <1>3, FirstExists
<1>6. \E i \in K : \A j \in K : <<j, i>> \notin Q
  BY <1>1, <1>4, FirstExists
<1>7. \E i \in K : \A j \in K : age(j) <= age(i)
  BY <1>3, <1>5
<1>8. \E i \in K : \A j \in K : age(j) >= age(i)
  BY <1>4, <1>6
<1>9. Newest(held, K) \in K /\ \A j \in K : held[j].order <= held[Newest(held, K)].order
  BY <1>7 DEF Newest, age
<1>10. First(held, K) \in K /\ \A j \in K : held[j].order >= held[First(held, K)].order
  BY <1>8 DEF First, age
<1> QED BY <1>9, <1>10

-----------------------------------------------------------------------------
(* Counting keys.                                                          *)

LEMMA KeyCountSame ==
    ASSUME NEW D, NEW f, NEW g, NEW x,
           \A i \in D : (f[i].keyDown <=> g[i].keyDown) /\ (f[i].keyDown => Identity(g[i]) = Identity(f[i]))
    PROVE  KeyCount(g, D, x) = KeyCount(f, D, x)
<1>1. {i \in D : g[i].keyDown /\ Identity(g[i]) = x} = {i \in D : f[i].keyDown /\ Identity(f[i]) = x}
  OBVIOUS
<1> QED BY <1>1 DEF KeyCount

LEMMA KeyCountType ==
    ASSUME NEW D, IsFiniteSet(D), NEW f, NEW x
    PROVE  /\ IsFiniteSet({i \in D : f[i].keyDown /\ Identity(f[i]) = x})
           /\ KeyCount(f, D, x) \in Nat
           /\ KeyCount(f, D, x) = 0 <=> \A i \in D : f[i].keyDown => Identity(f[i]) # x
<1> DEFINE A == {i \in D : f[i].keyDown /\ Identity(f[i]) = x}
<1>1. IsFiniteSet(A)
  <2>1. A \in SUBSET D
    OBVIOUS
  <2> HIDE DEF A
  <2> QED BY <2>1, FS_Subset
<1>2. Cardinality(A) \in Nat /\ (Cardinality(A) = 0 <=> A = {})
  <2> HIDE DEF A
  <2> QED BY <1>1, FS_CardinalityType, FS_EmptySet
<1> QED BY <1>1, <1>2 DEF KeyCount

\* A key that goes down counts once.
LEMMA KeyCountAdd ==
    ASSUME NEW D, IsFiniteSet(D), NEW f, NEW g, NEW x, NEW k \in D, ~ f[k].keyDown, g[k].keyDown,
           \A i \in D : i # k => (f[i].keyDown <=> g[i].keyDown)
                                 /\ (f[i].keyDown => Identity(g[i]) = Identity(f[i]))
    PROVE  KeyCount(g, D, x) = KeyCount(f, D, x) + (IF Identity(g[k]) = x THEN 1 ELSE 0)
<1> DEFINE A == {i \in D : f[i].keyDown /\ Identity(f[i]) = x}
           B == {i \in D : g[i].keyDown /\ Identity(g[i]) = x}
<1>1. /\ IsFiniteSet(A) /\ KeyCount(f, D, x) = Cardinality(A) /\ KeyCount(g, D, x) = Cardinality(B)
      /\ Cardinality(A) \in Nat
  BY KeyCountType DEF KeyCount
<1>2. CASE Identity(g[k]) = x
  <2>1. B = A \cup {k} /\ k \notin A
    BY <1>2
  <2> HIDE DEF A, B
  <2> QED BY <1>1, <1>2, <2>1, FS_AddElement
<1>3. CASE Identity(g[k]) # x
  <2>1. B = A
    BY <1>3
  <2> HIDE DEF A, B
  <2> QED BY <1>1, <1>3, <2>1
<1> QED BY <1>2, <1>3

\* A key that goes up no longer counts.
LEMMA KeyCountRemove ==
    ASSUME NEW D, IsFiniteSet(D), NEW f, NEW g, NEW x, NEW k \in D, f[k].keyDown, ~ g[k].keyDown,
           \A i \in D : i # k => (f[i].keyDown <=> g[i].keyDown)
                                 /\ (f[i].keyDown => Identity(g[i]) = Identity(f[i]))
    PROVE  KeyCount(f, D, x) = KeyCount(g, D, x) + (IF Identity(f[k]) = x THEN 1 ELSE 0)
<1>1. \A i \in D : i # k => (g[i].keyDown <=> f[i].keyDown)
                            /\ (g[i].keyDown => Identity(f[i]) = Identity(g[i]))
  OBVIOUS
<1> QED BY <1>1, KeyCountAdd

LEMMA CountType ==
    ASSUME NEW keys \in Seq(NoteIdentities), NEW x
    PROVE  /\ IsFiniteSet({k \in DOMAIN keys : Identity(keys[k]) = x})
           /\ CountKeys(keys, x) \in Nat
           /\ CountKeys(keys, x) = 0 <=> \A k \in DOMAIN keys : Identity(keys[k]) # x
<1> DEFINE A == {k \in DOMAIN keys : Identity(keys[k]) = x}
<1>1. IsFiniteSet(DOMAIN keys)
  BY LenProperties, FS_Interval
<1>2. IsFiniteSet(A)
  BY <1>1, FS_Subset
<1>3. Cardinality(A) \in Nat /\ (Cardinality(A) = 0 <=> A = {})
  <2> HIDE DEF A
  <2> QED BY <1>2, FS_CardinalityType, FS_EmptySet
<1> QED BY <1>2, <1>3 DEF CountKeys

\* The identities are themselves.
LEMMA IdentitiesAre ==
    /\ \A x \in NoteIdentities : Identity(x) = x
    /\ \A keys \in Seq(NoteIdentities) : \A k \in DOMAIN keys :
          keys[k] \in NoteIdentities /\ Identity(keys[k]) = keys[k]
<1>1. \A x \in NoteIdentities : Identity(x) = x
  BY DEF NoteIdentities, Identity
<1>2. \A keys \in Seq(NoteIdentities) : \A k \in DOMAIN keys : keys[k] \in NoteIdentities
  BY ElementOfSeq, LenProperties
<1> QED BY <1>1, <1>2

LEMMA CountAppend ==
    ASSUME NEW keys \in Seq(NoteIdentities), NEW y \in NoteIdentities, NEW x
    PROVE  CountKeys(Append(keys, y), x) = CountKeys(keys, x) + (IF y = x THEN 1 ELSE 0)
<1> DEFINE A == {k \in DOMAIN keys : Identity(keys[k]) = x}
           B == {k \in DOMAIN Append(keys, y) : Identity(Append(keys, y)[k]) = x}
<1>1. /\ IsFiniteSet(A) /\ CountKeys(keys, x) = Cardinality(A) /\ Cardinality(A) \in Nat
      /\ CountKeys(Append(keys, y), x) = Cardinality(B)
  BY CountType DEF CountKeys
<1>2. /\ Len(keys) \in Nat /\ DOMAIN keys = 1 .. Len(keys)
      /\ DOMAIN Append(keys, y) = 1 .. Len(keys) + 1
      /\ \A k \in 1 .. Len(keys) : Append(keys, y)[k] = keys[k]
      /\ Append(keys, y)[Len(keys) + 1] = y
  BY AppendProperties, LenProperties
<1>3. Identity(y) = y /\ 1 .. Len(keys) + 1 = (1 .. Len(keys)) \cup {Len(keys) + 1}
  BY <1>2, IdentitiesAre
<1>4. Len(keys) + 1 \notin 1 .. Len(keys)
  BY <1>2
<1>5. CASE y = x
  <2>1. B = A \cup {Len(keys) + 1} /\ Len(keys) + 1 \notin A
    BY <1>2, <1>3, <1>4, <1>5
  <2> HIDE DEF A, B
  <2> QED BY <1>1, <1>5, <2>1, FS_AddElement
<1>6. CASE y # x
  <2>1. B = A
    BY <1>2, <1>3, <1>6
  <2> HIDE DEF A, B
  <2> QED BY <1>1, <1>6, <2>1
<1> QED BY <1>5, <1>6

LEMMA RemoveAtProperties ==
    ASSUME NEW S, NEW s \in Seq(S), NEW k \in 1 .. Len(s)
    PROVE  /\ RemoveAt(s, k) \in Seq(S) /\ Len(s) \in Nat /\ Len(RemoveAt(s, k)) = Len(s) - 1
           /\ DOMAIN s = 1 .. Len(s) /\ DOMAIN RemoveAt(s, k) = 1 .. Len(s) - 1
           /\ \A j \in 1 .. Len(s) - 1 : RemoveAt(s, k)[j] = IF j < k THEN s[j] ELSE s[j + 1]
<1>1. Len(s) \in Nat /\ DOMAIN s = 1 .. Len(s) /\ k \in Nat /\ k <= Len(s)
  BY LenProperties
<1> DEFINE a == SubSeq(s, 1, k - 1)
           b == SubSeq(s, k + 1, Len(s))
<1>2. /\ a \in Seq(S) /\ Len(a) = k - 1 /\ \A j \in 1 .. k - 1 : a[j] = s[j]
  <2>1. \A i \in 1 .. k - 1 : s[i] \in S
    BY <1>1, ElementOfSeq
  <2> QED BY <1>1, <2>1, SubSeqProperties
<1>3. /\ b \in Seq(S) /\ Len(b) = Len(s) - k /\ \A j \in 1 .. Len(s) - k : b[j] = s[j + k]
  <2>1. \A i \in k + 1 .. Len(s) : s[i] \in S
    BY <1>1, ElementOfSeq
  <2>2. /\ b \in Seq(S) /\ Len(b) = IF k + 1 <= Len(s) THEN Len(s) - (k + 1) + 1 ELSE 0
        /\ \A j \in 1 .. Len(s) - (k + 1) + 1 : b[j] = s[k + 1 + j - 1]
    BY <1>1, <2>1, SubSeqProperties
  <2>3. \A j \in 1 .. Len(s) - k : k + 1 + j - 1 = j + k
    BY <1>1
  <2>4. Len(s) - (k + 1) + 1 = Len(s) - k /\ (~ k + 1 <= Len(s) => Len(s) - k = 0)
    <3>1. PICK n \in Nat : n = Len(s)
      BY <1>1
    <3>2. k \in Nat /\ k <= n
      BY <1>1, <3>1
    <3>3. n - (k + 1) + 1 = n - k
      BY <3>2
    <3>4. ~ k + 1 <= n => n - k = 0
      BY <3>2
    <3> QED BY <3>1, <3>3, <3>4
  <2> HIDE DEF b
  <2>5. 1 .. Len(s) - (k + 1) + 1 = 1 .. Len(s) - k
    BY <2>4
  <2>6. ASSUME NEW j \in 1 .. Len(s) - k PROVE b[j] = s[j + k]
    BY <2>2, <2>3, <2>5
  <2>7. k + 1 <= Len(s) \/ ~ k + 1 <= Len(s)
    OBVIOUS
  <2> QED BY <1>1, <2>2, <2>4, <2>6, <2>7
<1>4. RemoveAt(s, k) = a \o b
  BY DEF RemoveAt
<1> HIDE DEF a, b
<1>5. /\ a \o b \in Seq(S) /\ Len(a \o b) = Len(a) + Len(b)
      /\ \A i \in 1 .. Len(a) + Len(b) : (a \o b)[i] = IF i <= Len(a) THEN a[i] ELSE b[i - Len(a)]
  BY <1>2, <1>3, ConcatProperties
<1>6. Len(a) + Len(b) = Len(s) - 1
  BY <1>1, <1>2, <1>3
<1>7. ASSUME NEW j \in 1 .. Len(s) - 1 PROVE (a \o b)[j] = IF j < k THEN s[j] ELSE s[j + 1]
  <2>1. CASE j < k
    <3>1. j \in 1 .. k - 1 /\ j <= Len(a)
      BY <1>1, <1>2, <2>1
    <3> QED BY <1>2, <1>5, <1>6, <2>1, <3>1
  <2>2. CASE ~ j < k
    <3>1. ~ j <= Len(a) /\ j - Len(a) \in 1 .. Len(s) - k /\ (j - Len(a)) + k = j + 1
      BY <1>1, <1>2, <2>2
    <3> QED BY <1>3, <1>5, <1>6, <2>2, <3>1
  <2> QED BY <2>1, <2>2
<1>8. DOMAIN (a \o b) = 1 .. Len(s) - 1
  BY <1>5, <1>6, LenProperties
<1> QED BY <1>1, <1>4, <1>5, <1>6, <1>7, <1>8

LEMMA CountRemove ==
    ASSUME NEW keys \in Seq(NoteIdentities), NEW k \in 1 .. Len(keys), NEW x
    PROVE  CountKeys(keys, x) = CountKeys(RemoveAt(keys, k), x) + (IF keys[k] = x THEN 1 ELSE 0)
<1> DEFINE rest == RemoveAt(keys, k)
           A == {j \in DOMAIN keys : Identity(keys[j]) = x}
           B == {j \in DOMAIN rest : Identity(rest[j]) = x}
           C == A \ {k}
           f == [j \in C |-> IF j < k THEN j ELSE j - 1]
<1>1. /\ rest \in Seq(NoteIdentities) /\ Len(keys) \in Nat
      /\ DOMAIN keys = 1 .. Len(keys) /\ DOMAIN rest = 1 .. Len(keys) - 1
      /\ \A j \in 1 .. Len(keys) - 1 : rest[j] = IF j < k THEN keys[j] ELSE keys[j + 1]
  BY RemoveAtProperties
<1> HIDE DEF rest
<1>2. /\ IsFiniteSet(A) /\ CountKeys(keys, x) = Cardinality(A) /\ Cardinality(A) \in Nat
      /\ CountKeys(rest, x) = Cardinality(B)
  BY CountType DEF CountKeys
<1>3. IsFiniteSet(C)
  BY <1>2, FS_Subset
<1>4. \A j \in C : /\ j \in 1 .. Len(keys) /\ j # k /\ Identity(keys[j]) = x
                   /\ (IF j < k THEN j ELSE j - 1) \in B
  <2> SUFFICES ASSUME NEW j \in C PROVE (IF j < k THEN j ELSE j - 1) \in B
    BY <1>1
  <2>1. CASE j < k
    <3>1. j \in 1 .. Len(keys) - 1
      BY <1>1, <2>1
    <3> QED BY <1>1, <2>1, <3>1
  <2>2. CASE ~ j < k
    <3>1. j - 1 \in 1 .. Len(keys) - 1 /\ ~ j - 1 < k /\ j - 1 + 1 = j
      BY <1>1, <2>2
    <3> QED BY <1>1, <2>2, <3>1
  <2> QED BY <2>1, <2>2
<1>5. \A i, j \in C : f[i] = f[j] => i = j
  BY <1>1
<1>6. \A j \in B : \E i \in C : f[i] = j
  <2> SUFFICES ASSUME NEW j \in B PROVE \E i \in C : f[i] = j
    OBVIOUS
  <2>0. j \in 1 .. Len(keys) - 1 /\ Identity(rest[j]) = x
    BY <1>1
  <2>1. CASE j < k
    <3>1. j \in C /\ f[j] = j
      BY <1>1, <2>0, <2>1
    <3> QED BY <3>1
  <2>2. CASE ~ j < k
    <3>1. j + 1 \in C /\ f[j + 1] = j
      BY <1>1, <2>0, <2>2
    <3> QED BY <3>1
  <2> QED BY <2>1, <2>2
<1>7. f \in [C -> B]
  BY <1>4
<1>10. keys[k] = Identity(keys[k]) /\ k \in DOMAIN keys
  BY <1>1, IdentitiesAre
<1>11. IF keys[k] = x THEN k \in A /\ A = C \cup {k} /\ k \notin C ELSE A = C
  BY <1>10
<1> HIDE DEF f
<1>8. Cardinality(C) = Cardinality(B)
  <2> HIDE DEF A, B, C
  <2> QED BY <1>3, <1>5, <1>6, <1>7, Matched
<1> HIDE DEF A, B, C
<1>9. Cardinality(C) \in Nat
  BY <1>3, FS_CardinalityType
<1>12. CASE keys[k] = x
  BY <1>2, <1>3, <1>8, <1>9, <1>11, <1>12, FS_AddElement DEF rest
<1>13. CASE keys[k] # x
  BY <1>2, <1>8, <1>9, <1>11, <1>13 DEF rest
<1> QED BY <1>12, <1>13

-----------------------------------------------------------------------------
(* The parts of an engine.                                                 *)

LEMMA Blanks ==
    /\ Free \in VoiceStates /\ PlainVoice(Free) /\ ~ Holds(Free) /\ ~ Free.keyDown /\ ~ Free.isActive
    /\ NoEntry \in HeldEntries /\ PlainEntry(NoEntry) /\ ~ Holds(NoEntry) /\ ~ NoEntry.keyDown
    /\ ~ NoEntry.isActive
    /\ \A note \in Notes : note # NoNote
    /\ \A channel \in Channels : channel # AnyChannel
    /\ \A id \in NoteIds : id # Anonymous
    /\ Silent.channel = AnyChannel
<1>1. /\ Free \in VoiceStates /\ PlainVoice(Free) /\ ~ Holds(Free) /\ ~ Free.keyDown /\ ~ Free.isActive
  BY DEF Free, VoiceStates, PlainVoice, Holds
<1>2. /\ PlainEntry(NoEntry) /\ ~ Holds(NoEntry) /\ ~ NoEntry.keyDown /\ ~ NoEntry.isActive
      /\ NoEntry \in HeldEntries
  BY EntriesFinite DEF NoEntry, HeldEntries, PlainEntry, Holds
<1>3. /\ \A note \in Notes : note # NoNote
      /\ \A channel \in Channels : channel # AnyChannel
      /\ \A id \in NoteIds : id # Anonymous
  BY IdentityAssumption DEF NoNote, AnyChannel, Anonymous
<1> QED BY <1>1, <1>2, <1>3 DEF Silent

LEMMA EngineFields ==
    ASSUME NEW e \in Engines
    PROVE  /\ e.mode \in Modes /\ e.unison \in UnisonCounts \cup {NoUnison} /\ e.pool \in Pools
           /\ e.held \in [Entries -> HeldEntries] /\ e.voice \in [Slots -> NoteIdentities \cup {Silent}]
           /\ e.sustain \in SUBSET Channels /\ e.sostenuto \in SUBSET Channels
           /\ e.gate \in SUBSET Slots /\ e.restart \in SUBSET Slots
           /\ e.early \in SUBSET Slots /\ e.cut \in SUBSET Slots
BY DEF Engines

LEMMA PoolFields ==
    ASSUME NEW p \in Pools
    PROVE  /\ p.slot \in [Slots -> VoiceStates] /\ p.sustain \in SUBSET Channels
           /\ p.sostenuto \in SUBSET Channels /\ p.orphans \in SUBSET Slots
           /\ \A i \in Slots : p.slot[i] \in VoiceStates
BY DEF Pools

\* Only the chips may differ.
SameNotes(r, e) ==
    /\ r.mode = e.mode /\ r.unison = e.unison /\ r.pool = e.pool /\ r.held = e.held
    /\ r.voice = e.voice /\ r.sustain = e.sustain /\ r.sostenuto = e.sostenuto

LEMMA GateOffChips ==
    ASSUME NEW e \in Engines, NEW S \in SUBSET Slots
    PROVE  /\ GateOff(e, S) \in Engines /\ SameNotes(GateOff(e, S), e)
           /\ GateOff(e, S).cut = e.cut
           /\ \A O : Agree(e, O) => Agree(GateOff(e, S), O \ S)
           /\ \A O : Uncut(e, O) => Uncut(GateOff(e, S), O \ S)
<1> DEFINE r == GateOff(e, S)
<1>1. /\ r \in Engines /\ SameNotes(r, e) /\ r.gate = e.gate \ S /\ r.restart = e.restart
      /\ r.early = (e.early \ S) \cup (S \cap e.restart) /\ r.cut = e.cut
  BY DEF GateOff, Engines, SameNotes
<1> HIDE DEF r
<1>2. \A O : Agree(e, O) => Agree(r, O \ S)
  BY <1>1 DEF Agree
<1>3. \A O : Uncut(e, O) => Uncut(r, O \ S)
  BY <1>1 DEF Uncut
<1> QED BY <1>1, <1>2, <1>3 DEF r

LEMMA StartVoicesChips ==
    ASSUME NEW e \in Engines, NEW S \in SUBSET Slots
    PROVE  /\ StartVoices(e, S) \in Engines /\ SameNotes(StartVoices(e, S), e)
           /\ StartVoices(e, S).cut = e.cut \ S
           /\ \A O : Agree(e, O) => Agree(StartVoices(e, S), O \cup S)
           /\ \A O : Uncut(e, O) => Uncut(StartVoices(e, S), O \cup S)
<1> DEFINE r == StartVoices(e, S)
<1>1. /\ r \in Engines /\ SameNotes(r, e) /\ r.gate = e.gate \ S /\ r.restart = e.restart \cup S
      /\ r.early = e.early \ S /\ r.cut = e.cut \ S
  BY DEF StartVoices, Engines, SameNotes
<1> HIDE DEF r
<1>2. \A O : Agree(e, O) => Agree(r, O \cup S)
  BY <1>1 DEF Agree
<1>3. \A O : Uncut(e, O) => Uncut(r, O \cup S)
  BY <1>1 DEF Uncut
<1> QED BY <1>1, <1>2, <1>3 DEF r

\* An engine with another pool or another held stack.
LEMMA OtherPool ==
    ASSUME NEW e \in Engines, NEW pool \in Pools
    PROVE  LET r == [e EXCEPT !.pool = pool]
           IN  /\ r \in Engines /\ r.pool = pool /\ r.mode = e.mode /\ r.unison = e.unison
               /\ r.held = e.held /\ r.voice = e.voice /\ r.sustain = e.sustain
               /\ r.sostenuto = e.sostenuto /\ r.gate = e.gate /\ r.restart = e.restart
               /\ r.early = e.early /\ r.cut = e.cut
BY DEF Engines

LEMMA OtherHeld ==
    ASSUME NEW e \in Engines, NEW held \in [Entries -> HeldEntries]
    PROVE  LET r == [e EXCEPT !.held = held]
           IN  /\ r \in Engines /\ r.pool = e.pool /\ r.mode = e.mode /\ r.unison = e.unison
               /\ r.held = held /\ r.voice = e.voice /\ r.sustain = e.sustain
               /\ r.sostenuto = e.sostenuto /\ r.gate = e.gate /\ r.restart = e.restart
               /\ r.early = e.early /\ r.cut = e.cut
BY DEF Engines

LEMMA OtherVoice ==
    ASSUME NEW e \in Engines, NEW voice \in [Slots -> NoteIdentities \cup {Silent}]
    PROVE  LET r == [e EXCEPT !.voice = voice]
           IN  /\ r \in Engines /\ r.pool = e.pool /\ r.mode = e.mode /\ r.unison = e.unison
               /\ r.held = e.held /\ r.voice = voice /\ r.sustain = e.sustain
               /\ r.sostenuto = e.sostenuto /\ r.gate = e.gate /\ r.restart = e.restart
               /\ r.early = e.early /\ r.cut = e.cut
BY DEF Engines

\* Agreement is about the chips only.
LEMMA SameChipsAgree ==
    ASSUME NEW e, NEW r, NEW O, r.gate = e.gate, r.restart = e.restart, r.early = e.early, r.cut = e.cut
    PROVE  (Agree(e, O) => Agree(r, O)) /\ (Uncut(e, O) => Uncut(r, O))
BY DEF Agree, Uncut

-----------------------------------------------------------------------------
(* The forced plane plays what is on top of its stack.                     *)

Resolvable(e) == /\ e \in Engines /\ e.mode \in ForcedModes /\ PlainHeld(e.held) /\ CutSilent(e)
                 /\ e.mode = "unison" => e.unison \in UnisonCounts

LEMMA TopIdentity ==
    ASSUME NEW held, PlainHeld(held), NEW k \in Entries, Holds(held[k])
    PROVE  Identity(held[k]) \in NoteIdentities /\ Identity(held[k]) # Silent
<1>1. held[k] \in HeldEntries /\ held[k].note \in Notes
  BY DEF PlainHeld, PlainEntry, Holds
<1>2. Identity(held[k]) \in NoteIdentities /\ Identity(held[k]).note \in Notes
  BY <1>1 DEF Identity, NoteIdentities, HeldEntries
<1>3. Silent.note \notin Notes
  BY Blanks DEF Silent
<1> QED BY <1>2, <1>3

LEMMA ResolvePlaysTop ==
    ASSUME NEW e, Resolvable(e), NEW retrigger \in BOOLEAN
    PROVE  LET r == Resolve(e, retrigger)
           IN  /\ r \in Engines /\ r.mode = e.mode /\ r.unison = e.unison /\ r.pool = e.pool
               /\ r.held = e.held /\ r.sustain = e.sustain /\ r.sostenuto = e.sostenuto
               /\ GatesAgree(e) => GatesAgree(r)
               /\ Uncut(e, OwnersOf(e)) => Uncut(r, OwnersOf(r))
               /\ SoundingEntries(e.held) # {} => PlaysTop(r) /\ 1 \notin r.cut
               /\ CutSilent(r)
<1> DEFINE sounding == SoundingEntries(e.held)
           top == Identity(e.held[Newest(e.held, sounding)])
           used == IF e.mode = "unison" THEN 1 .. e.unison ELSE {1}
           O == {i \in Slots : e.voice[i] # Silent}
           r == Resolve(e, retrigger)
<1>1. /\ e \in Engines /\ e.mode # "poly" /\ OwnersOf(e) = O /\ O \in SUBSET Slots
      /\ e.held \in [Entries -> HeldEntries] /\ sounding \in SUBSET Entries
  BY EngineFields DEF Resolvable, OwnersOf, ForcedModes, Modes, SoundingEntries
<1>2. used \in SUBSET Slots /\ 1 \in used
  <2>1. MaxVoices \in Nat \ {0} /\ \A n \in UnisonCounts : n \in Nat /\ n > 0 /\ n <= MaxVoices
    BY MaxVoicesAssumption, UnisonAssumption DEF Slots
  <2>2. CASE e.mode = "unison"
    <3>1. e.unison \in Nat /\ e.unison > 0 /\ e.unison <= MaxVoices /\ used = 1 .. e.unison
      BY <2>1, <2>2 DEF Resolvable
    <3> QED BY <2>1, <3>1 DEF Slots
  <2>3. CASE e.mode # "unison"
    BY <2>1, <2>3 DEF Slots
  <2> QED BY <2>2, <2>3
<1>3. CASE sounding = {}
  <2> DEFINE voice == [i \in Slots |-> Silent]
             a == [e EXCEPT !.voice = voice]
  <2>1. voice \in [Slots -> NoteIdentities \cup {Silent}]
    OBVIOUS
  <2>2. r = GateOff(a, Slots)
    BY <1>3 DEF Resolve
  <2>9. \A i \in Slots : voice[i] = Silent
    OBVIOUS
  <2> HIDE DEF voice
  <2>3. /\ a \in Engines /\ a.pool = e.pool /\ a.mode = e.mode /\ a.unison = e.unison
        /\ a.held = e.held /\ a.voice = voice /\ a.sustain = e.sustain /\ a.sostenuto = e.sostenuto
        /\ a.gate = e.gate /\ a.restart = e.restart /\ a.early = e.early /\ a.cut = e.cut
    BY <1>1, <2>1, OtherVoice
  <2> HIDE DEF a
  <2>4. /\ Agree(e, O) => Agree(a, O)
        /\ Uncut(e, O) => Uncut(a, O)
    BY <2>3, SameChipsAgree
  <2>5. /\ r \in Engines /\ SameNotes(r, a)
        /\ Agree(e, O) => Agree(r, O \ Slots)
        /\ Uncut(e, O) => Uncut(r, O \ Slots)
    BY <2>2, <2>3, <2>4, GateOffChips
  <2>6. OwnersOf(r) = {} /\ O \ Slots = {}
    BY <1>1, <2>3, <2>5, <2>9 DEF OwnersOf, SameNotes
  <2>7. CutSilent(r)
    BY <2>3, <2>5, <2>9, EngineFields DEF CutSilent, SameNotes
  <2> HIDE DEF r, sounding, O
  <2> QED BY <1>1, <1>3, <2>3, <2>5, <2>6, <2>7 DEF SameNotes, GatesAgree, r, sounding
<1>4. CASE sounding # {}
  <2> DEFINE voice == [i \in Slots |-> IF i \in used THEN top ELSE Silent]
             a == [e EXCEPT !.voice = voice]
             S == {i \in Slots \ used : e.voice[i] # Silent}
             T == {i \in used : e.voice[i] = Silent \/ retrigger}
             b == GateOff(a, S)
  <2>1. r = StartVoices(b, T)
    BY <1>4 DEF Resolve
  <2>2. top \in NoteIdentities /\ top # Silent
    <3>1. Newest(e.held, sounding) \in sounding
      BY <1>1, <1>4, NewestExists
    <3>2. Newest(e.held, sounding) \in Entries /\ Holds(e.held[Newest(e.held, sounding)])
      BY <3>1 DEF SoundingEntries
    <3> QED BY <3>2, TopIdentity DEF Resolvable
  <2>3. top = Identity(e.held[Newest(e.held, SoundingEntries(e.held))])
    OBVIOUS
  <2> HIDE DEF top, used
  <2>4. voice \in [Slots -> NoteIdentities \cup {Silent}]
    BY <2>2
  <2>5. \A i \in Slots : voice[i] = IF i \in used THEN top ELSE Silent
    OBVIOUS
  <2> HIDE DEF voice
  <2>6. /\ a \in Engines /\ a.pool = e.pool /\ a.mode = e.mode /\ a.unison = e.unison
        /\ a.held = e.held /\ a.voice = voice /\ a.sustain = e.sustain /\ a.sostenuto = e.sostenuto
        /\ a.gate = e.gate /\ a.restart = e.restart /\ a.early = e.early /\ a.cut = e.cut
    BY <1>1, <2>4, OtherVoice
  <2> HIDE DEF a
  <2>7. /\ Agree(e, O) => Agree(a, O)
        /\ Uncut(e, O) => Uncut(a, O)
    BY <2>6, SameChipsAgree
  <2>8. S \in SUBSET Slots /\ T \in SUBSET Slots
    BY <1>2
  <2>9. (O \ S) \cup T = used
    BY <1>2
  <2> HIDE DEF S, T, O, r
  <2>10. /\ b \in Engines /\ SameNotes(b, a)
         /\ Agree(e, O) => Agree(b, O \ S)
         /\ Uncut(e, O) => Uncut(b, O \ S)
         /\ b.cut = e.cut
    BY <2>6, <2>7, <2>8, GateOffChips
  <2> HIDE DEF b
  <2>11. /\ r \in Engines /\ SameNotes(r, b)
         /\ Agree(e, O) => Agree(r, used)
         /\ Uncut(e, O) => Uncut(r, used)
         /\ r.cut = e.cut \ T
    BY <2>1, <2>8, <2>9, <2>10, StartVoicesChips
  <2>12. /\ r.mode = e.mode /\ r.unison = e.unison /\ r.pool = e.pool
         /\ r.held = e.held /\ r.sustain = e.sustain /\ r.sostenuto = e.sostenuto
         /\ r.voice = voice
    BY <2>6, <2>10, <2>11 DEF SameNotes
  <2>13. OwnersOf(r) = used
    BY <1>1, <1>2, <2>2, <2>5, <2>12 DEF OwnersOf
  <2>14. \A i \in r.cut : i \in Slots /\ i \notin used
    <3>1. \A i \in e.cut : i \in Slots /\ e.voice[i] = Silent
      BY <1>1, EngineFields DEF Resolvable, CutSilent
    <3> QED BY <2>11, <3>1 DEF T
  <2>15. PlaysTop(r) /\ 1 \notin r.cut /\ CutSilent(r)
    BY <1>2, <2>3, <2>5, <2>12, <2>14 DEF PlaysTop, CutSilent
  <2> QED BY <1>1, <2>11, <2>12, <2>13, <2>15 DEF GatesAgree, r
<1> QED BY <1>3, <1>4

-----------------------------------------------------------------------------
(* The operations on the pool.                                             *)

AnyNoteChannel == Channels \cup {AnyChannel}

LEMMA PlainFields ==
    ASSUME NEW p, PlainPool(p)
    PROVE  /\ p \in Pools /\ p.slot \in [Slots -> VoiceStates] /\ p.sustain \in SUBSET Channels
           /\ p.sostenuto \in SUBSET Channels
           /\ \A i \in Slots : /\ p.slot[i] \in VoiceStates /\ PlainVoice(p.slot[i])
                               /\ p.slot[i].keyDown => Holds(p.slot[i]) /\ p.slot[i].isActive
                               /\ p.slot[i].isActive => Identity(p.slot[i]) \in NoteIdentities
                               /\ p.slot[i].keyDown => Identity(p.slot[i]) \in NoteIdentities
<1>1. p \in Pools /\ \A i \in Slots : PlainVoice(p.slot[i])
  BY DEF PlainPool
<1>2. ASSUME NEW v \in VoiceStates, PlainVoice(v)
      PROVE  /\ v.keyDown => Holds(v) /\ v.isActive
             /\ v.isActive => Identity(v) \in NoteIdentities
  <2>1. v.keyDown => v.isActive
    BY <1>2, Blanks DEF PlainVoice
  <2>2. v.isActive => Identity(v) \in NoteIdentities
    BY <1>2 DEF PlainVoice, Identity, NoteIdentities, VoiceStates
  <2> QED BY <2>1, <2>2 DEF Holds
<1> QED BY <1>1, <1>2, PoolFields

\* A pool with other slots.
LEMMA OtherSlots ==
    ASSUME NEW p, PlainPool(p), NEW slot \in [Slots -> VoiceStates], \A i \in Slots : PlainVoice(slot[i])
    PROVE  LET q == [p EXCEPT !.slot = slot]
           IN  /\ PlainPool(q) /\ q.slot = slot /\ q.sustain = p.sustain
               /\ q.sostenuto = p.sostenuto /\ q.orphans = p.orphans
<1> DEFINE q == [p EXCEPT !.slot = slot]
<1>1. p \in Pools
  BY DEF PlainPool
<1>2. /\ q \in Pools /\ q.slot = slot /\ q.sustain = p.sustain
      /\ q.sostenuto = p.sostenuto /\ q.orphans = p.orphans
  BY <1>1 DEF Pools
<1> HIDE DEF q
<1> QED BY <1>2 DEF PlainPool, q

\* The key of a voice goes up: the voice keeps its identity, and what holds it is a pedal.
LEMMA KeyUpVoice ==
    ASSUME NEW p, PlainPool(p), NEW i \in Slots, p.slot[i].keyDown, NEW channel \in AnyNoteChannel
    PROVE  LET q == KeyUp(p, i, channel)
           IN  /\ PlainPool(q) /\ NoneStarts(p, q)
               /\ q.sustain = p.sustain /\ q.sostenuto = p.sostenuto
               /\ ~ q.slot[i].keyDown /\ \A j \in Slots : j # i => q.slot[j] = p.slot[j]
               /\ \A sustain, sostenuto : PoolUnder(p, sustain, sostenuto) => PoolUnder(q, sustain, sostenuto)
<1> DEFINE known == IF p.slot[i].channel # AnyChannel THEN p.slot[i].channel ELSE channel
           held == IF known # AnyChannel THEN known \in p.sustain ELSE p.sustain # {}
           v == [p.slot[i] EXCEPT !.keyDown = FALSE, !.isSustained = held]
           slot == [p.slot EXCEPT ![i] = v]
           q == KeyUp(p, i, channel)
<1>1. q = [p EXCEPT !.slot[i].keyDown = FALSE, !.slot[i].isSustained = held]
  BY DEF KeyUp
<1>2. held \in BOOLEAN
  <2> HIDE DEF known
  <2>1. CASE known # AnyChannel
    <3>1. held = (known \in p.sustain)
      BY <2>1
    <3> HIDE DEF held
    <3> QED BY <3>1
  <2>2. CASE known = AnyChannel
    <3>1. held = (p.sustain # {})
      BY <2>2
    <3> HIDE DEF held
    <3> QED BY <3>1
  <2> QED BY <2>1, <2>2
<1>9. ASSUME NEW sustain, p.sustain \subseteq sustain, held PROVE Under(p.slot[i], sustain)
  BY <1>9 DEF Under
<1> HIDE DEF held, q
<1>3. p.slot[i] \in VoiceStates /\ p.slot[i].isActive /\ p.slot[i].note \in Notes
  BY PlainFields DEF PlainVoice
<1>4. /\ v \in VoiceStates /\ ~ v.keyDown /\ v.isSustained = held /\ v.isSostenuto = p.slot[i].isSostenuto
      /\ v.note = p.slot[i].note /\ v.isActive = p.slot[i].isActive /\ v.channel = p.slot[i].channel
  BY <1>2, <1>3 DEF VoiceStates
<1>5. q = [p EXCEPT !.slot = slot]
  BY <1>1, PlainFields DEF Pools, VoiceStates
<1> HIDE DEF v
<1>6. slot \in [Slots -> VoiceStates] /\ \A j \in Slots : slot[j] = IF j = i THEN v ELSE p.slot[j]
  BY <1>4, PlainFields
<1> HIDE DEF slot
<1>7. \A j \in Slots : PlainVoice(slot[j])
  BY <1>3, <1>4, <1>6, PlainFields DEF PlainVoice
<1>8. PlainPool(q) /\ q.slot = slot /\ q.sustain = p.sustain /\ q.sostenuto = p.sostenuto
  BY <1>5, <1>6, <1>7, OtherSlots
<1>10. NoneStarts(p, q)
  BY <1>6, <1>8, PlainFields DEF NoneStarts
<1>11. ASSUME NEW sustain, NEW sostenuto, PoolUnder(p, sustain, sostenuto) PROVE PoolUnder(q, sustain, sostenuto)
  <2>1. UnderPedals(v, sustain, sostenuto)
    <3>1. v.isSustained => Under(p.slot[i], sustain)
      BY <1>4, <1>9, <1>11 DEF PoolUnder
    <3>2. v.isSostenuto => Under(p.slot[i], sostenuto)
      BY <1>3, <1>4, <1>11 DEF PoolUnder, UnderPedals
    <3> QED BY <1>4, <3>1, <3>2 DEF UnderPedals, Under
  <2> QED BY <1>6, <1>8, <1>11, <2>1 DEF PoolUnder
<1> QED BY <1>4, <1>6, <1>8, <1>10, <1>11 DEF q

\* A strict release takes a key of that note and identity, of the very channel if there is one.
LEMMA StrictTakes ==
    ASSUME NEW p, PlainPool(p), NEW note, NEW channel, NEW id
    PROVE  LET match == {i \in KeyDownVoices(p, note, channel) : p.slot[i].id = id}
               q == StrictNoteOff(p, note, channel, id)
           IN  IF match = {} THEN q = p
               ELSE \E i \in match : /\ q = KeyUp(p, i, channel)
                                     /\ channel # AnyChannel /\ (\E j \in match : p.slot[j].channel = channel)
                                          => p.slot[i].channel = channel
<1> DEFINE match == {i \in KeyDownVoices(p, note, channel) : p.slot[i].id = id}
           exact == {i \in match : p.slot[i].channel = channel /\ channel # AnyChannel}
           q == StrictNoteOff(p, note, channel, id)
<1>1. q = IF match = {} THEN p ELSE KeyUp(p, Oldest(p, IF exact # {} THEN exact ELSE match), channel)
  BY DEF StrictNoteOff
<1>2. match \in SUBSET Slots
  BY DEF KeyDownVoices
<1> HIDE DEF match
<1>3. exact \in SUBSET match
  OBVIOUS
<1>4. ASSUME match # {} PROVE Oldest(p, IF exact # {} THEN exact ELSE match)
                                \in (IF exact # {} THEN exact ELSE match)
  <2> HIDE DEF exact
  <2> QED BY <1>2, <1>3, <1>4, OldestExists, PlainFields
<1>5. CASE match = {}
  BY <1>1, <1>5 DEF match
<1>6. CASE match # {}
  <2> DEFINE o == Oldest(p, IF exact # {} THEN exact ELSE match)
  <2>1. q = KeyUp(p, o, channel)
    BY <1>1, <1>6
  <2>2. o \in match /\ (exact # {} => o \in exact)
    BY <1>3, <1>4, <1>6
  <2> HIDE DEF o, q
  <2>3. channel # AnyChannel /\ (\E j \in match : p.slot[j].channel = channel)
          => p.slot[o].channel = channel
    BY <2>2
  <2>4. \E i \in match : /\ q = KeyUp(p, i, channel)
                         /\ channel # AnyChannel /\ (\E j \in match : p.slot[j].channel = channel)
                              => p.slot[i].channel = channel
    BY <2>1, <2>2, <2>3
  <2> QED BY <1>6, <2>4 DEF match, q
<1> QED BY <1>5, <1>6

LEMMA ReleaseCalm ==
    ASSUME NEW p, PlainPool(p), NEW note, NEW channel \in AnyNoteChannel, NEW id
    PROVE  /\ \A q \in {StrictNoteOff(p, note, channel, id), LooseNoteOff(p, note, channel),
                        NoteOff(p, note, channel, id)} :
                 /\ PlainPool(q) /\ NoneStarts(p, q)
                 /\ q.sustain = p.sustain /\ q.sostenuto = p.sostenuto
                 /\ \A sustain, sostenuto : PoolUnder(p, sustain, sostenuto) => PoolUnder(q, sustain, sostenuto)
<1> DEFINE Calm(r, q) ==
               /\ PlainPool(q) /\ NoneStarts(r, q)
               /\ q.sustain = r.sustain /\ q.sostenuto = r.sostenuto
               /\ \A sustain, sostenuto : PoolUnder(r, sustain, sostenuto) => PoolUnder(q, sustain, sostenuto)
           strict == StrictNoteOff(p, note, channel, id)
<1>1. ASSUME NEW r, PlainPool(r) PROVE Calm(r, r)
  BY <1>1 DEF NoneStarts
<1>2. ASSUME NEW r, PlainPool(r), NEW i \in KeyDownVoices(r, note, channel) PROVE Calm(r, KeyUp(r, i, channel))
  <2>1. i \in Slots /\ r.slot[i].keyDown
    BY DEF KeyDownVoices
  <2> QED BY <1>2, <2>1, KeyUpVoice
<1>3. ASSUME NEW r, PlainPool(r) PROVE Calm(r, LooseNoteOff(r, note, channel))
  <2> DEFINE match == KeyDownVoices(r, note, channel)
  <2>1. match \in SUBSET Slots
    BY DEF KeyDownVoices
  <2>2. LooseNoteOff(r, note, channel) = IF match = {} THEN r ELSE KeyUp(r, Oldest(r, match), channel)
    BY DEF LooseNoteOff
  <2>3. match # {} => Oldest(r, match) \in match
    <3> HIDE DEF match
    <3> QED BY <1>3, <2>1, OldestExists, PlainFields
  <2>4. CASE match = {}
    BY <1>1, <1>3, <2>2, <2>4
  <2>5. CASE match # {}
    <3>1. Calm(r, KeyUp(r, Oldest(r, match), channel))
      BY <1>2, <1>3, <2>3, <2>5
    <3> QED BY <2>2, <2>5, <3>1
  <2> QED BY <2>4, <2>5
<1>4. Calm(p, strict)
  <2> DEFINE match == {i \in KeyDownVoices(p, note, channel) : p.slot[i].id = id}
  <2>1. strict = p \/ \E i \in match : strict = KeyUp(p, i, channel)
    BY StrictTakes
  <2>2. \A i \in match : Calm(p, KeyUp(p, i, channel))
    <3> HIDE DEF Calm
    <3> QED BY <1>2
  <2> HIDE DEF strict, match, Calm
  <2> QED BY <1>1, <2>1, <2>2
<1>5. Calm(p, LooseNoteOff(strict, note, channel))
  <2> DEFINE q == LooseNoteOff(strict, note, channel)
  <2>1. Calm(strict, q)
    <3> HIDE DEF q, strict
    <3> QED BY <1>3, <1>4 DEF q
  <2> HIDE DEF q, strict
  <2> QED BY <1>4, <2>1 DEF NoneStarts, q
<1>6. NoteOff(p, note, channel, id) \in {strict, LooseNoteOff(strict, note, channel)}
  BY DEF NoteOff
<1> HIDE DEF Calm, strict
<1>7. Calm(p, LooseNoteOff(p, note, channel)) /\ Calm(p, NoteOff(p, note, channel, id))
  BY <1>3, <1>4, <1>5, <1>6
<1> QED BY <1>4, <1>7 DEF Calm, strict

LEMMA UpTwice ==
    /\ [Free EXCEPT !.isSustained = FALSE] = Free
    /\ [Free EXCEPT !.isSostenuto = FALSE] = Free
<1>1. ASSUME NEW v \in VoiceStates, v.isSustained = FALSE PROVE [v EXCEPT !.isSustained = FALSE] = v
  BY <1>1 DEF VoiceStates
<1>2. ASSUME NEW v \in VoiceStates, v.isSostenuto = FALSE PROVE [v EXCEPT !.isSostenuto = FALSE] = v
  BY <1>2 DEF VoiceStates
<1>3. Free \in VoiceStates /\ Free.isSustained = FALSE /\ Free.isSostenuto = FALSE
  BY Blanks DEF Free
<1> QED BY <1>1, <1>2, <1>3

\* A pedal that comes up lets go of some voices; the others stay as they are.
LEMMA LetGoCalm ==
    ASSUME NEW p, PlainPool(p), NEW up \in Pools, NEW channel \in Channels, NEW S \in SUBSET Slots,
           \A i \in Slots : /\ PlainVoice(up.slot[i])
                            /\ Identity(up.slot[i]) = Identity(p.slot[i])
                            /\ (up.slot[i].keyDown <=> p.slot[i].keyDown)
                            /\ (Holds(up.slot[i]) => Holds(p.slot[i]))
    PROVE  LET q == LetGo(p, up, channel, S)
           IN  /\ PlainPool(q) /\ NoneStarts(p, q) /\ KeysStay(p.slot, q.slot, Slots)
               /\ q.sustain = up.sustain /\ q.sostenuto = up.sostenuto
               /\ \A i \in Slots : \/ q.slot[i] = p.slot[i] /\ (i \notin S \/ ~ SameChannel(channel, p.slot[i]))
                                   \/ q.slot[i] \in {up.slot[i], Free}
<1> DEFINE slot == [i \in Slots |->
                       IF i \notin S \/ ~ SameChannel(channel, p.slot[i]) THEN p.slot[i]
                       ELSE IF Holds(up.slot[i]) THEN up.slot[i] ELSE Free]
           q == LetGo(p, up, channel, S)
<1>1. q = [up EXCEPT !.slot = slot]
  BY DEF LetGo
<1>2. \A i \in Slots : \/ slot[i] = p.slot[i] /\ (i \notin S \/ ~ SameChannel(channel, p.slot[i]))
                       \/ slot[i] = up.slot[i]
                       \/ slot[i] = Free /\ ~ Holds(up.slot[i])
  OBVIOUS
<1>3. slot \in [Slots -> VoiceStates]
  BY PlainFields, PoolFields, Blanks
<1> HIDE DEF slot
<1>4. PlainPool(up)
  BY DEF PlainPool
<1>5. \A i \in Slots : PlainVoice(slot[i])
  BY <1>2, PlainFields, Blanks
<1>6. PlainPool(q) /\ q.slot = slot /\ q.sustain = up.sustain /\ q.sostenuto = up.sostenuto
  BY <1>1, <1>3, <1>4, <1>5, OtherSlots
<1> HIDE DEF q
<1>7. NoneStarts(p, q)
  BY <1>2, <1>6, Blanks DEF NoneStarts
<1>8. KeysStay(p.slot, q.slot, Slots)
  <2> SUFFICES ASSUME NEW i \in Slots
               PROVE  /\ (p.slot[i].keyDown <=> slot[i].keyDown)
                      /\ p.slot[i].keyDown => Identity(slot[i]) = Identity(p.slot[i])
    BY <1>6 DEF KeysStay
  <2>1. CASE slot[i] = p.slot[i]
    BY <2>1
  <2>2. CASE slot[i] = up.slot[i]
    BY <2>2
  <2>3. CASE slot[i] = Free /\ ~ Holds(up.slot[i])
    <3>1. ~ up.slot[i].keyDown
      BY <1>4, <2>3, PlainFields
    <3> QED BY <2>3, <3>1, Blanks
  <2> QED BY <1>2, <2>1, <2>2, <2>3
<1> QED BY <1>2, <1>6, <1>7, <1>8 DEF q

LEMMA SustainPool ==
    ASSUME NEW p, PlainPool(p), NEW channel \in Channels
    PROVE  /\ LET q == SetSustainPedal(p, channel, TRUE)
              IN  /\ PlainPool(q) /\ NoneStarts(p, q) /\ KeysStay(p.slot, q.slot, Slots)
                  /\ \A sustain, sostenuto : PoolUnder(p, sustain, sostenuto)
                        => PoolUnder(q, sustain \cup {channel}, sostenuto)
           /\ LET q == SetSustainPedal(p, channel, FALSE)
              IN  /\ PlainPool(q) /\ NoneStarts(p, q) /\ KeysStay(p.slot, q.slot, Slots)
                  /\ \A sustain, sostenuto : PoolUnder(p, sustain, sostenuto)
                        => PoolUnder(q, sustain \ {channel}, sostenuto)
<1>0. channel # AnyChannel
  BY Blanks
<1>1. LET q == SetSustainPedal(p, channel, TRUE)
      IN  /\ PlainPool(q) /\ NoneStarts(p, q) /\ KeysStay(p.slot, q.slot, Slots)
          /\ \A sustain, sostenuto : PoolUnder(p, sustain, sostenuto)
                => PoolUnder(q, sustain \cup {channel}, sostenuto)
  <2> DEFINE q == [p EXCEPT !.sustain = @ \cup {channel}]
  <2>1. q \in Pools /\ q.slot = p.slot /\ q.sustain = p.sustain \cup {channel} /\ q.sostenuto = p.sostenuto
    BY PlainFields DEF Pools
  <2>2. q = SetSustainPedal(p, channel, TRUE)
    BY DEF SetSustainPedal
  <2> HIDE DEF q
  <2>3. PlainPool(q) /\ NoneStarts(p, q) /\ KeysStay(p.slot, q.slot, Slots)
    BY <2>1 DEF PlainPool, NoneStarts, KeysStay
  <2>4. ASSUME NEW sustain, NEW sostenuto, PoolUnder(p, sustain, sostenuto)
        PROVE  PoolUnder(q, sustain \cup {channel}, sostenuto)
    BY <2>1, <2>4 DEF PoolUnder, UnderPedals, Under
  <2> QED BY <2>2, <2>3, <2>4
<1>2. LET q == SetSustainPedal(p, channel, FALSE)
      IN  /\ PlainPool(q) /\ NoneStarts(p, q) /\ KeysStay(p.slot, q.slot, Slots)
          /\ \A sustain, sostenuto : PoolUnder(p, sustain, sostenuto)
                => PoolUnder(q, sustain \ {channel}, sostenuto)
  <2> DEFINE Up(i) == [p.slot[i] EXCEPT !.isSustained = FALSE]
             slot == [i \in Slots |-> Up(i)]
             up == [p EXCEPT !.sustain = @ \ {channel}, !.slot = slot]
             S == {i \in Slots : p.slot[i].isSustained}
             q == SetSustainPedal(p, channel, FALSE)
  <2>1. q = LetGo(p, up, channel, S)
    BY DEF SetSustainPedal
  <2>2. ASSUME NEW i \in Slots
        PROVE  /\ Up(i) \in VoiceStates /\ PlainVoice(Up(i)) /\ Identity(Up(i)) = Identity(p.slot[i])
               /\ (Up(i).keyDown <=> p.slot[i].keyDown)
               /\ (Holds(Up(i)) => Holds(p.slot[i]))
               /\ ~ Up(i).isSustained /\ Up(i).isActive = p.slot[i].isActive
               /\ Up(i).isSostenuto = p.slot[i].isSostenuto /\ Up(i).channel = p.slot[i].channel
    <3>1. p.slot[i] \in VoiceStates /\ PlainVoice(p.slot[i])
      BY PlainFields
    <3>2. /\ Up(i) \in VoiceStates /\ ~ Up(i).isSustained
          /\ Up(i).note = p.slot[i].note /\ Up(i).channel = p.slot[i].channel /\ Up(i).id = p.slot[i].id
          /\ Up(i).isActive = p.slot[i].isActive /\ Up(i).keyDown = p.slot[i].keyDown
          /\ Up(i).isSostenuto = p.slot[i].isSostenuto
      BY <3>1 DEF VoiceStates
    <3>3. p.slot[i] = Free => Up(i) = Free
      <4>1. [Free EXCEPT !.isSustained = FALSE] = Free
        BY UpTwice
      <4> QED BY <4>1
    <3> HIDE DEF Up
    <3> QED BY <3>1, <3>2, <3>3 DEF PlainVoice, Identity, Holds, Pedalled
  <2> HIDE DEF Up
  <2>3. slot \in [Slots -> VoiceStates] /\ \A i \in Slots : slot[i] = Up(i)
    BY <2>2
  <2> HIDE DEF slot
  <2>4. up \in Pools /\ up.slot = slot /\ up.sustain = p.sustain \ {channel} /\ up.sostenuto = p.sostenuto
    <3>1. PICK rest \in SUBSET Channels : rest = p.sustain \ {channel}
      BY PlainFields
    <3>2. up = [p EXCEPT !.sustain = rest, !.slot = slot]
      BY <3>1
    <3>3. p \in Pools
      BY PlainFields
    <3> HIDE DEF up
    <3> QED BY <2>3, <3>1, <3>2, <3>3 DEF Pools
  <2>5. S \in SUBSET Slots /\ \A i \in Slots : i \in S <=> p.slot[i].isSustained
    OBVIOUS
  <2> HIDE DEF up, S
  <2>6. /\ PlainPool(q) /\ NoneStarts(p, q) /\ KeysStay(p.slot, q.slot, Slots)
        /\ q.sustain = up.sustain /\ q.sostenuto = up.sostenuto
        /\ \A i \in Slots : \/ q.slot[i] = p.slot[i] /\ (i \notin S \/ ~ SameChannel(channel, p.slot[i]))
                            \/ q.slot[i] \in {up.slot[i], Free}
    <3>1. \A i \in Slots : /\ PlainVoice(up.slot[i])
                            /\ Identity(up.slot[i]) = Identity(p.slot[i])
                            /\ (up.slot[i].keyDown <=> p.slot[i].keyDown)
                            /\ (Holds(up.slot[i]) => Holds(p.slot[i]))
      <4> SUFFICES ASSUME NEW i \in Slots
                   PROVE  /\ PlainVoice(up.slot[i])
                          /\ Identity(up.slot[i]) = Identity(p.slot[i])
                          /\ (up.slot[i].keyDown <=> p.slot[i].keyDown)
                          /\ (Holds(up.slot[i]) => Holds(p.slot[i]))
        OBVIOUS
      <4>1. up.slot[i] = Up(i)
        BY <2>3, <2>4
      <4> QED BY <2>2, <4>1
    <3>2. up \in Pools /\ S \in SUBSET Slots
      BY <2>4, <2>5
    <3> HIDE DEF q
    <3> QED BY <2>1, <3>1, <3>2, LetGoCalm
  <2>7. ASSUME NEW sustain, NEW sostenuto, PoolUnder(p, sustain, sostenuto)
        PROVE  PoolUnder(q, sustain \ {channel}, sostenuto)
    <3>1. q.sustain \subseteq sustain \ {channel} /\ q.sostenuto \subseteq sostenuto
      BY <2>4, <2>6, <2>7 DEF PoolUnder
    <3>2. ASSUME NEW i \in Slots PROVE UnderPedals(q.slot[i], sustain \ {channel}, sostenuto)
      <4>0. UnderPedals(p.slot[i], sustain, sostenuto) /\ p.slot[i] \in VoiceStates
        BY <2>7, PlainFields DEF PoolUnder
      <4>1. CASE q.slot[i] = p.slot[i] /\ (i \notin S \/ ~ SameChannel(channel, p.slot[i]))
        <5>1. CASE i \notin S
          BY <2>5, <4>0, <4>1, <5>1 DEF UnderPedals
        <5>2. CASE ~ SameChannel(channel, p.slot[i])
          <6>1. p.slot[i].channel # AnyChannel /\ p.slot[i].channel # channel
            BY <5>2 DEF SameChannel
          <6> QED BY <4>0, <4>1, <6>1 DEF UnderPedals, Under
        <5> QED BY <4>1, <5>1, <5>2
      <4>2. CASE q.slot[i] = up.slot[i]
        <5>1. q.slot[i] = Up(i)
          BY <2>3, <2>4, <4>2
        <5> QED BY <2>2, <4>0, <5>1 DEF UnderPedals, Under
      <4>3. CASE q.slot[i] = Free
        BY <4>3, Blanks DEF UnderPedals
      <4> QED BY <2>6, <4>1, <4>2, <4>3
    <3> QED BY <3>1, <3>2 DEF PoolUnder
  <2> QED BY <2>6, <2>7
<1> QED BY <1>1, <1>2

LEMMA SostenutoPool ==
    ASSUME NEW p, PlainPool(p), NEW channel \in Channels
    PROVE  /\ LET q == SetSostenutoPedal(p, channel, TRUE)
              IN  /\ PlainPool(q) /\ NoneStarts(p, q) /\ KeysStay(p.slot, q.slot, Slots)
                  /\ \A sustain, sostenuto : PoolUnder(p, sustain, sostenuto)
                        => PoolUnder(q, sustain, sostenuto \cup {channel})
           /\ LET q == SetSostenutoPedal(p, channel, FALSE)
              IN  /\ PlainPool(q) /\ NoneStarts(p, q) /\ KeysStay(p.slot, q.slot, Slots)
                  /\ \A sustain, sostenuto : PoolUnder(p, sustain, sostenuto)
                        => PoolUnder(q, sustain, sostenuto \ {channel})
<1>0. channel # AnyChannel
  BY Blanks
<1>1. LET q == SetSostenutoPedal(p, channel, TRUE)
      IN  /\ PlainPool(q) /\ NoneStarts(p, q) /\ KeysStay(p.slot, q.slot, Slots)
          /\ \A sustain, sostenuto : PoolUnder(p, sustain, sostenuto)
                => PoolUnder(q, sustain, sostenuto \cup {channel})
  <2> DEFINE Caught(i) == p.slot[i].isSostenuto
                          \/ (/\ p.slot[i].isActive /\ p.slot[i].keyDown
                              /\ SameChannel(channel, p.slot[i]))
             New(i) == [p.slot[i] EXCEPT !.isSostenuto = Caught(i)]
             slot == [i \in Slots |-> New(i)]
             q == SetSostenutoPedal(p, channel, TRUE)
  <2>1. q = [p EXCEPT !.sostenuto = @ \cup {channel}, !.slot = slot]
    BY PlainFields DEF SetSostenutoPedal, VoiceStates
  <2>2. ASSUME NEW i \in Slots
        PROVE  /\ New(i) \in VoiceStates /\ PlainVoice(New(i)) /\ Identity(New(i)) = Identity(p.slot[i])
               /\ (New(i).keyDown <=> p.slot[i].keyDown)
               /\ (Holds(New(i)) => Holds(p.slot[i]))
               /\ New(i).isSustained = p.slot[i].isSustained /\ New(i).isActive = p.slot[i].isActive
               /\ New(i).channel = p.slot[i].channel
               /\ New(i).isSostenuto => p.slot[i].isSostenuto \/ SameChannel(channel, p.slot[i])
    <3>1. p.slot[i] \in VoiceStates /\ PlainVoice(p.slot[i])
      BY PlainFields
    <3>0. Caught(i) \in BOOLEAN /\ (p.slot[i] = Free => Caught(i) = FALSE)
          /\ (Caught(i) => p.slot[i].isSostenuto \/ (p.slot[i].keyDown /\ SameChannel(channel, p.slot[i])))
      BY <3>1 DEF Free, VoiceStates
    <3> HIDE DEF Caught
    <3>2. /\ New(i) \in VoiceStates /\ New(i).isSostenuto = Caught(i)
          /\ New(i).note = p.slot[i].note /\ New(i).channel = p.slot[i].channel /\ New(i).id = p.slot[i].id
          /\ New(i).isActive = p.slot[i].isActive /\ New(i).keyDown = p.slot[i].keyDown
          /\ New(i).isSustained = p.slot[i].isSustained
      BY <3>0, <3>1 DEF VoiceStates
    <3>3. p.slot[i] = Free => New(i) = Free
      <4>1. [Free EXCEPT !.isSostenuto = FALSE] = Free
        BY UpTwice
      <4> QED BY <3>0, <4>1
    <3> HIDE DEF New
    <3> QED BY <3>0, <3>1, <3>2, <3>3 DEF PlainVoice, Identity, Holds, Pedalled
  <2> HIDE DEF New
  <2>3. slot \in [Slots -> VoiceStates] /\ \A i \in Slots : slot[i] = New(i)
    BY <2>2
  <2> HIDE DEF slot
  <2>4. q \in Pools /\ q.slot = slot /\ q.sustain = p.sustain /\ q.sostenuto = p.sostenuto \cup {channel}
    <3>1. PICK more \in SUBSET Channels : more = p.sostenuto \cup {channel}
      BY PlainFields
    <3>2. q = [p EXCEPT !.sostenuto = more, !.slot = slot]
      BY <2>1, <3>1
    <3>3. p \in Pools
      BY PlainFields
    <3> HIDE DEF q
    <3> QED BY <2>3, <3>1, <3>2, <3>3 DEF Pools
  <2> HIDE DEF q
  <2>5. PlainPool(q) /\ NoneStarts(p, q) /\ KeysStay(p.slot, q.slot, Slots)
    BY <2>2, <2>3, <2>4 DEF PlainPool, NoneStarts, KeysStay
  <2>6. ASSUME NEW sustain, NEW sostenuto, PoolUnder(p, sustain, sostenuto)
        PROVE  PoolUnder(q, sustain, sostenuto \cup {channel})
    <3>1. q.sustain \subseteq sustain /\ q.sostenuto \subseteq sostenuto \cup {channel}
      BY <2>4, <2>6 DEF PoolUnder
    <3>2. ASSUME NEW i \in Slots PROVE UnderPedals(New(i), sustain, sostenuto \cup {channel})
      <4>1. UnderPedals(p.slot[i], sustain, sostenuto)
        BY <2>6 DEF PoolUnder
      <4>2. SameChannel(channel, p.slot[i]) => Under(p.slot[i], sostenuto \cup {channel})
        BY <1>0 DEF SameChannel, Under
      <4> QED BY <2>2, <4>1, <4>2 DEF UnderPedals, Under
    <3> QED BY <2>3, <2>4, <3>1, <3>2 DEF PoolUnder
  <2> QED BY <2>5, <2>6 DEF q
<1>2. LET q == SetSostenutoPedal(p, channel, FALSE)
      IN  /\ PlainPool(q) /\ NoneStarts(p, q) /\ KeysStay(p.slot, q.slot, Slots)
          /\ \A sustain, sostenuto : PoolUnder(p, sustain, sostenuto)
                => PoolUnder(q, sustain, sostenuto \ {channel})
  <2> DEFINE Up(i) == [p.slot[i] EXCEPT !.isSostenuto = FALSE]
             slot == [i \in Slots |-> Up(i)]
             up == [p EXCEPT !.sostenuto = @ \ {channel}, !.slot = slot]
             S == {i \in Slots : p.slot[i].isActive /\ p.slot[i].isSostenuto}
             q == SetSostenutoPedal(p, channel, FALSE)
  <2>1. q = LetGo(p, up, channel, S)
    BY DEF SetSostenutoPedal
  <2>2. ASSUME NEW i \in Slots
        PROVE  /\ Up(i) \in VoiceStates /\ PlainVoice(Up(i)) /\ Identity(Up(i)) = Identity(p.slot[i])
               /\ (Up(i).keyDown <=> p.slot[i].keyDown)
               /\ (Holds(Up(i)) => Holds(p.slot[i]))
               /\ ~ Up(i).isSostenuto /\ Up(i).isActive = p.slot[i].isActive
               /\ Up(i).isSustained = p.slot[i].isSustained /\ Up(i).channel = p.slot[i].channel
    <3>1. p.slot[i] \in VoiceStates /\ PlainVoice(p.slot[i])
      BY PlainFields
    <3>2. /\ Up(i) \in VoiceStates /\ ~ Up(i).isSostenuto
          /\ Up(i).note = p.slot[i].note /\ Up(i).channel = p.slot[i].channel /\ Up(i).id = p.slot[i].id
          /\ Up(i).isActive = p.slot[i].isActive /\ Up(i).keyDown = p.slot[i].keyDown
          /\ Up(i).isSustained = p.slot[i].isSustained
      BY <3>1 DEF VoiceStates
    <3>3. p.slot[i] = Free => Up(i) = Free
      <4>1. [Free EXCEPT !.isSostenuto = FALSE] = Free
        BY UpTwice
      <4> QED BY <4>1
    <3> HIDE DEF Up
    <3> QED BY <3>1, <3>2, <3>3 DEF PlainVoice, Identity, Holds, Pedalled
  <2> HIDE DEF Up
  <2>3. slot \in [Slots -> VoiceStates] /\ \A i \in Slots : slot[i] = Up(i)
    BY <2>2
  <2> HIDE DEF slot
  <2>4. up \in Pools /\ up.slot = slot /\ up.sustain = p.sustain /\ up.sostenuto = p.sostenuto \ {channel}
    <3>1. PICK rest \in SUBSET Channels : rest = p.sostenuto \ {channel}
      BY PlainFields
    <3>2. up = [p EXCEPT !.sostenuto = rest, !.slot = slot]
      BY <3>1
    <3>3. p \in Pools
      BY PlainFields
    <3> HIDE DEF up
    <3> QED BY <2>3, <3>1, <3>2, <3>3 DEF Pools
  <2>5. S \in SUBSET Slots /\ \A i \in Slots : i \in S <=> p.slot[i].isActive /\ p.slot[i].isSostenuto
    OBVIOUS
  <2> HIDE DEF up, S
  <2>6. /\ PlainPool(q) /\ NoneStarts(p, q) /\ KeysStay(p.slot, q.slot, Slots)
        /\ q.sustain = up.sustain /\ q.sostenuto = up.sostenuto
        /\ \A i \in Slots : \/ q.slot[i] = p.slot[i] /\ (i \notin S \/ ~ SameChannel(channel, p.slot[i]))
                            \/ q.slot[i] \in {up.slot[i], Free}
    <3>1. \A i \in Slots : /\ PlainVoice(up.slot[i])
                            /\ Identity(up.slot[i]) = Identity(p.slot[i])
                            /\ (up.slot[i].keyDown <=> p.slot[i].keyDown)
                            /\ (Holds(up.slot[i]) => Holds(p.slot[i]))
      <4> SUFFICES ASSUME NEW i \in Slots
                   PROVE  /\ PlainVoice(up.slot[i])
                          /\ Identity(up.slot[i]) = Identity(p.slot[i])
                          /\ (up.slot[i].keyDown <=> p.slot[i].keyDown)
                          /\ (Holds(up.slot[i]) => Holds(p.slot[i]))
        OBVIOUS
      <4>1. up.slot[i] = Up(i)
        BY <2>3, <2>4
      <4> QED BY <2>2, <4>1
    <3>2. up \in Pools /\ S \in SUBSET Slots
      BY <2>4, <2>5
    <3> HIDE DEF q
    <3> QED BY <2>1, <3>1, <3>2, LetGoCalm
  <2>7. ASSUME NEW sustain, NEW sostenuto, PoolUnder(p, sustain, sostenuto)
        PROVE  PoolUnder(q, sustain, sostenuto \ {channel})
    <3>1. q.sustain \subseteq sustain /\ q.sostenuto \subseteq sostenuto \ {channel}
      BY <2>4, <2>6, <2>7 DEF PoolUnder
    <3>2. ASSUME NEW i \in Slots PROVE UnderPedals(q.slot[i], sustain, sostenuto \ {channel})
      <4>0. UnderPedals(p.slot[i], sustain, sostenuto) /\ p.slot[i] \in VoiceStates
        BY <2>7, PlainFields DEF PoolUnder
      <4>1. CASE q.slot[i] = p.slot[i] /\ (i \notin S \/ ~ SameChannel(channel, p.slot[i]))
        <5>1. CASE i \notin S
          BY <2>5, <4>0, <4>1, <5>1 DEF UnderPedals
        <5>2. CASE ~ SameChannel(channel, p.slot[i])
          <6>1. p.slot[i].channel # AnyChannel /\ p.slot[i].channel # channel
            BY <5>2 DEF SameChannel
          <6> QED BY <4>0, <4>1, <6>1 DEF UnderPedals, Under
        <5> QED BY <4>1, <5>1, <5>2
      <4>2. CASE q.slot[i] = up.slot[i]
        <5>1. q.slot[i] = Up(i)
          BY <2>3, <2>4, <4>2
        <5> QED BY <2>2, <4>0, <5>1 DEF UnderPedals, Under
      <4>3. CASE q.slot[i] = Free
        BY <4>3, Blanks DEF UnderPedals
      <4> QED BY <2>6, <4>1, <4>2, <4>3
    <3> QED BY <3>1, <3>2 DEF PoolUnder
  <2> QED BY <2>6, <2>7
<1> QED BY <1>1, <1>2

LEMMA CleanupPool ==
    ASSUME NEW p, PlainPool(p), NEW channel \in Channels
    PROVE  LET q == AllNotesOffChannel(p, channel)
           IN  /\ PlainPool(q) /\ NoneStarts(p, q) /\ q.sustain = p.sustain /\ q.sostenuto = p.sostenuto
               /\ \A i \in Slots : q.slot[i] = IF SameChannel(channel, p.slot[i]) THEN Free ELSE p.slot[i]
<1> DEFINE slot == [i \in Slots |-> IF SameChannel(channel, p.slot[i]) THEN Free ELSE p.slot[i]]
           q == AllNotesOffChannel(p, channel)
<1>1. q = [p EXCEPT !.slot = slot]
  BY DEF AllNotesOffChannel
<1>2. \A i \in Slots : slot[i] = IF SameChannel(channel, p.slot[i]) THEN Free ELSE p.slot[i]
  OBVIOUS
<1>3. slot \in [Slots -> VoiceStates]
  BY PlainFields, Blanks
<1> HIDE DEF slot
<1>4. \A i \in Slots : PlainVoice(slot[i])
  BY <1>2, PlainFields, Blanks
<1>5. PlainPool(q) /\ q.slot = slot /\ q.sustain = p.sustain /\ q.sostenuto = p.sostenuto
  BY <1>1, <1>3, <1>4, OtherSlots
<1> HIDE DEF q
<1> QED BY <1>2, <1>5, Blanks DEF NoneStarts, q

\* Tails that end: who holds a note and which keys are down stays the same.
LEMMA TailsPool ==
    ASSUME NEW p, PlainPool(p), NEW S \in SUBSET Slots, \A i \in S : Released(p.slot[i])
    PROVE  LET q == ReleaseFinished(p, S)
           IN  /\ PlainPool(q) /\ KeysStay(p.slot, q.slot, Slots)
               /\ q.sustain = p.sustain /\ q.sostenuto = p.sostenuto
               /\ \A i \in Slots : (Holds(q.slot[i]) <=> Holds(p.slot[i])) /\ q.slot[i] \in {p.slot[i], Free}
<1> DEFINE slot == [i \in Slots |-> IF i \in S THEN Free ELSE p.slot[i]]
           q == ReleaseFinished(p, S)
<1>1. q = [p EXCEPT !.slot = slot]
  BY DEF ReleaseFinished
<1>2. \A i \in Slots : slot[i] = IF i \in S THEN Free ELSE p.slot[i]
  OBVIOUS
<1>3. slot \in [Slots -> VoiceStates]
  BY PlainFields, Blanks
<1> HIDE DEF slot
<1>4. \A i \in Slots : PlainVoice(slot[i])
  BY <1>2, PlainFields, Blanks
<1>5. PlainPool(q) /\ q.slot = slot /\ q.sustain = p.sustain /\ q.sostenuto = p.sostenuto
  BY <1>1, <1>3, <1>4, OtherSlots
<1>6. \A i \in S : ~ Holds(p.slot[i]) /\ ~ p.slot[i].keyDown
  BY PlainFields DEF Released
<1>7. \A i \in Slots : (Holds(slot[i]) <=> Holds(p.slot[i])) /\ slot[i] \in {p.slot[i], Free}
  BY <1>2, <1>6, Blanks
<1>8. KeysStay(p.slot, slot, Slots)
  BY <1>2, <1>6, Blanks DEF KeysStay
<1> HIDE DEF q
<1> QED BY <1>5, <1>7, <1>8 DEF q

LEMMA AgesPool ==
    ASSUME NEW p, PlainPool(p)
    PROVE  LET q == UpdateVoiceAges(p)
           IN  /\ PlainPool(q) /\ KeysStay(p.slot, q.slot, Slots)
               /\ q.sustain = p.sustain /\ q.sostenuto = p.sostenuto
               /\ \A i \in Slots : /\ (Holds(q.slot[i]) <=> Holds(p.slot[i]))
                                   /\ (Released(q.slot[i]) <=> Released(p.slot[i]))
                                   /\ q.slot[i].isActive = p.slot[i].isActive
                                   /\ q.slot[i].keyDown = p.slot[i].keyDown
                                   /\ q.slot[i].channel = p.slot[i].channel
                                   /\ q.slot[i].isSustained = p.slot[i].isSustained
                                   /\ q.slot[i].isSostenuto = p.slot[i].isSostenuto
<1> DEFINE younger(i) == {p.slot[j].age : j \in {k \in Slots : /\ p.slot[k].isActive
                                                            /\ p.slot[k].age < p.slot[i].age}}
           New(i) == IF p.slot[i].isActive THEN [p.slot[i] EXCEPT !.age = 1 + Cardinality(younger(i))]
                     ELSE p.slot[i]
           slot == [i \in Slots |-> New(i)]
           q == UpdateVoiceAges(p)
<1>1. q = [p EXCEPT !.slot = slot]
  BY DEF UpdateVoiceAges
<1>2. ASSUME NEW i \in Slots PROVE 1 + Cardinality(younger(i)) \in Nat
  <2> DEFINE S == {k \in Slots : p.slot[k].isActive /\ p.slot[k].age < p.slot[i].age}
  <2>1. IsFiniteSet(S)
    BY SlotsFinite, FS_Subset
  <2> DEFINE T == {p.slot[j].age : j \in S}
             f == [j \in S |-> p.slot[j].age]
  <2>2. f \in Surjection(S, T)
    BY DEF Surjection
  <2> HIDE DEF f, S
  <2>3. IsFiniteSet(T)
    BY <2>1, <2>2, FS_Surjection
  <2>4. younger(i) = T
    BY DEF S
  <2> HIDE DEF younger, T
  <2> QED BY <2>3, <2>4, FS_CardinalityType
<1> HIDE DEF younger
<1>3. ASSUME NEW i \in Slots
      PROVE  /\ New(i) \in VoiceStates /\ PlainVoice(New(i)) /\ Identity(New(i)) = Identity(p.slot[i])
             /\ (Holds(New(i)) <=> Holds(p.slot[i]))
             /\ New(i).isActive = p.slot[i].isActive
             /\ New(i).keyDown = p.slot[i].keyDown
             /\ New(i).channel = p.slot[i].channel
             /\ New(i).isSustained = p.slot[i].isSustained
             /\ New(i).isSostenuto = p.slot[i].isSostenuto
  <2>1. p.slot[i] \in VoiceStates /\ PlainVoice(p.slot[i])
    BY PlainFields
  <2>2. CASE ~ p.slot[i].isActive
    BY <2>1, <2>2
  <2>3. CASE p.slot[i].isActive
    <3>1. PICK n \in Nat : n = 1 + Cardinality(younger(i))
      BY <1>2
    <3>2. New(i) = [p.slot[i] EXCEPT !.age = n]
      BY <2>3, <3>1
    <3> HIDE DEF New
    <3>3. /\ New(i) \in VoiceStates /\ New(i).note = p.slot[i].note /\ New(i).id = p.slot[i].id
          /\ New(i).isActive = p.slot[i].isActive
          /\ New(i).keyDown = p.slot[i].keyDown
          /\ New(i).channel = p.slot[i].channel
          /\ New(i).isSustained = p.slot[i].isSustained
          /\ New(i).isSostenuto = p.slot[i].isSostenuto
      BY <2>1, <3>1, <3>2 DEF VoiceStates
    <3> QED BY <2>1, <2>3, <3>3 DEF PlainVoice, Identity, Holds, Pedalled
  <2> QED BY <2>2, <2>3
<1> HIDE DEF New
<1>4. slot \in [Slots -> VoiceStates] /\ \A i \in Slots : slot[i] = New(i)
  BY <1>3
<1> HIDE DEF slot
<1>5. PlainPool(q) /\ q.slot = slot /\ q.sustain = p.sustain /\ q.sostenuto = p.sostenuto
  <2>1. \A i \in Slots : PlainVoice(slot[i])
    BY <1>3, <1>4
  <2> HIDE DEF q
  <2> QED BY <1>1, <1>4, <2>1, OtherSlots
<1> HIDE DEF q
<1>6. KeysStay(p.slot, slot, Slots)
  BY <1>3, <1>4 DEF KeysStay
<1>7. ASSUME NEW i \in Slots
      PROVE  /\ (Holds(q.slot[i]) <=> Holds(p.slot[i]))
             /\ (Released(q.slot[i]) <=> Released(p.slot[i]))
             /\ q.slot[i].isActive = p.slot[i].isActive
             /\ q.slot[i].keyDown = p.slot[i].keyDown
             /\ q.slot[i].channel = p.slot[i].channel
             /\ q.slot[i].isSustained = p.slot[i].isSustained
             /\ q.slot[i].isSostenuto = p.slot[i].isSostenuto
  <2>1. q.slot[i] = New(i)
    BY <1>4, <1>5
  <2> QED BY <1>3, <2>1 DEF Released
<1> QED BY <1>5, <1>6, <1>7 DEF q

\* A cleanup pass: it changes the voices that were orphans in two passes, and silences them.
LEMMA ReconcilePool ==
    ASSUME NEW p, PlainPool(p), NEW Held, NEW pedals
    PROVE  LET q == ReconcileUnheldVoices(p, Held, pedals)
           IN  /\ PlainPool(q) /\ NoneStarts(p, q) /\ q.sustain = p.sustain /\ q.sostenuto = p.sostenuto
               /\ \A i \in Slots : q.slot[i] = p.slot[i] \/ (/\ p.slot[i].keyDown
                                                             /\ p.slot[i].channel # AnyChannel
                                                             /\ <<p.slot[i].channel, p.slot[i].note>> \notin Held
                                                             /\ ~ Holds(q.slot[i]))
<1> DEFINE orphan == {i \in Slots : /\ p.slot[i].isActive /\ p.slot[i].keyDown
                                    /\ p.slot[i].channel # AnyChannel
                                    /\ <<p.slot[i].channel, p.slot[i].note>> \notin Held
                                    /\ p.slot[i].channel \notin pedals}
           Up(i) == [p.slot[i] EXCEPT !.keyDown = FALSE, !.isSustained = FALSE, !.isSostenuto = FALSE]
           gone == orphan \cap p.orphans
           slot == [i \in Slots |-> IF i \notin gone THEN p.slot[i] ELSE Up(i)]
           q == ReconcileUnheldVoices(p, Held, pedals)
<1>1. q = [p EXCEPT !.orphans = orphan, !.slot = slot]
  BY DEF ReconcileUnheldVoices
<1>2. \A i \in gone : /\ i \in Slots /\ p.slot[i].isActive /\ p.slot[i].keyDown
                      /\ p.slot[i].channel # AnyChannel
                      /\ <<p.slot[i].channel, p.slot[i].note>> \notin Held
  OBVIOUS
<1>3. orphan \in SUBSET Slots
  OBVIOUS
<1> HIDE DEF q, orphan
<1>4. ASSUME NEW i \in Slots, p.slot[i].isActive
      PROVE  Up(i) \in VoiceStates /\ PlainVoice(Up(i)) /\ ~ Holds(Up(i))
  <2>1. p.slot[i] \in VoiceStates /\ PlainVoice(p.slot[i])
    BY PlainFields
  <2>2. /\ Up(i) \in VoiceStates /\ Up(i).note = p.slot[i].note /\ Up(i).isActive
        /\ ~ Up(i).keyDown /\ ~ Up(i).isSustained /\ ~ Up(i).isSostenuto
    BY <1>4, <2>1 DEF VoiceStates
  <2> HIDE DEF Up
  <2> QED BY <1>4, <2>1, <2>2 DEF PlainVoice, Holds, Pedalled
<1> HIDE DEF Up, gone
<1>5. \A i \in Slots : slot[i] = IF i \notin gone THEN p.slot[i] ELSE Up(i)
  OBVIOUS
<1>6. slot \in [Slots -> VoiceStates]
  BY <1>2, <1>4, PlainFields
<1> HIDE DEF slot
<1>7. q \in Pools /\ q.slot = slot /\ q.sustain = p.sustain /\ q.sostenuto = p.sostenuto
  <2>1. p \in Pools
    BY PlainFields
  <2> QED BY <1>1, <1>3, <1>6, <2>1 DEF Pools
<1>8. PlainPool(q)
  BY <1>2, <1>4, <1>5, <1>7, PlainFields DEF PlainPool
<1>9. NoneStarts(p, q)
  BY <1>2, <1>4, <1>5, <1>7 DEF NoneStarts
<1>10. ASSUME NEW i \in Slots
       PROVE  q.slot[i] = p.slot[i] \/ (/\ p.slot[i].keyDown
                                        /\ p.slot[i].channel # AnyChannel
                                        /\ <<p.slot[i].channel, p.slot[i].note>> \notin Held
                                        /\ ~ Holds(q.slot[i]))
  BY <1>2, <1>4, <1>5, <1>7
<1> QED BY <1>7, <1>8, <1>9, <1>10 DEF q

\* Keys that are not the note's own are taken away only when every voice holds a note.
LEMMA NoteOnPool ==
    ASSUME NEW p, PlainPool(p), NEW note \in Notes, NEW channel \in AnyNoteChannel,
           NEW id \in NoteIds \cup {Anonymous}
    PROVE  LET i == NoteOnSlot(p, note, channel, id)
               q == NoteOn(p, note, channel, id)
               x == [note |-> note, channel |-> channel, id |-> id]
           IN  /\ i \in Slots /\ PlainPool(q) /\ q.sustain = p.sustain /\ q.sostenuto = p.sostenuto
               /\ q.orphans = p.orphans
               /\ x \in NoteIdentities /\ Identity(q.slot[i]) = x /\ q.slot[i].keyDown
               /\ q.slot[i] = Started(note, channel, id)
               /\ Holds(q.slot[i]) /\ ~ q.slot[i].isSostenuto
               /\ \A j \in Slots : j # i => q.slot[j] = p.slot[j]
               /\ p.slot[i].keyDown => \/ (id # Anonymous /\ p.slot[i].note = note /\ p.slot[i].id = id)
                                       \/ \A j \in Slots : Holds(p.slot[j])
<1> DEFINE same == SameIdentity(p, note, channel, id)
           free == {j \in Slots : ~ p.slot[j].isActive}
           tails == {j \in Slots : Released(p.slot[j])}
           plain == {j \in Slots : p.slot[j].isActive /\ ~ Pedalled(p.slot[j])}
           i == NoteOnSlot(p, note, channel, id)
           v == Started(note, channel, id)
           slot == [p.slot EXCEPT ![i] = v]
           q == NoteOn(p, note, channel, id)
           x == [note |-> note, channel |-> channel, id |-> id]
<1>1. /\ i = IF same # {} THEN Lowest(same) ELSE IF free # {} THEN Lowest(free) ELSE Victim(p)
      /\ Victim(p) = IF tails # {} THEN Oldest(p, tails)
                     ELSE IF plain # {} THEN Oldest(p, plain) ELSE Oldest(p, Slots)
  BY DEF NoteOnSlot, Victim
<1>2. /\ same \in SUBSET Slots /\ \A j \in same : id # Anonymous /\ p.slot[j].note = note /\ p.slot[j].id = id
      /\ free \in SUBSET Slots /\ \A j \in free : ~ p.slot[j].keyDown
      /\ tails \in SUBSET Slots /\ \A j \in tails : ~ p.slot[j].keyDown
      /\ plain \in SUBSET Slots /\ Slots \in SUBSET Slots
      /\ (free = {} /\ tails = {} => \A j \in Slots : Holds(p.slot[j]))
  BY PlainFields DEF SameIdentity, Released
<1>3. q = [p EXCEPT !.slot = slot]
  BY PlainFields DEF NoteOn, Pools
<1> HIDE DEF i, same, free, tails, plain, q
<1>4. /\ \A S \in SUBSET Slots : S # {} => Lowest(S) \in S /\ Oldest(p, S) \in S
      /\ Slots # {}
  BY SlotsFinite, LowestExists, OldestExists, PlainFields
<1>5. /\ i \in Slots
      /\ (i \in same \/ i \in free \/ i \in tails \/ \A j \in Slots : Holds(p.slot[j]))
  <2>1. CASE same # {}
    BY <1>1, <1>2, <1>4, <2>1
  <2>2. CASE same = {} /\ free # {}
    BY <1>1, <1>2, <1>4, <2>2
  <2>3. CASE same = {} /\ free = {} /\ tails # {}
    BY <1>1, <1>2, <1>4, <2>3
  <2>4. CASE same = {} /\ free = {} /\ tails = {}
    <3>1. (i = Oldest(p, plain) /\ plain # {}) \/ i = Oldest(p, Slots)
      BY <1>1, <2>4
    <3> QED BY <1>2, <1>4, <2>4, <3>1
  <2> QED BY <2>1, <2>2, <2>3, <2>4
<1>6. p.slot[i].keyDown => \/ (id # Anonymous /\ p.slot[i].note = note /\ p.slot[i].id = id)
                           \/ \A j \in Slots : Holds(p.slot[j])
  BY <1>2, <1>5
<1>7. /\ v \in VoiceStates /\ PlainVoice(v) /\ Identity(v) = x /\ v.keyDown /\ Holds(v)
      /\ ~ v.isSostenuto /\ x \in NoteIdentities
  BY DEF Started, VoiceStates, PlainVoice, Identity, Holds, AnyNoteChannel, NoteIdentities
<1> HIDE DEF v
<1>8. slot \in [Slots -> VoiceStates] /\ \A j \in Slots : slot[j] = IF j = i THEN v ELSE p.slot[j]
  BY <1>5, <1>7, PlainFields
<1> HIDE DEF slot
<1>9. \A j \in Slots : PlainVoice(slot[j])
  BY <1>7, <1>8, PlainFields
<1>10. /\ PlainPool(q) /\ q.slot = slot /\ q.sustain = p.sustain /\ q.sostenuto = p.sostenuto
       /\ q.orphans = p.orphans
  BY <1>3, <1>8, <1>9, OtherSlots
<1> QED BY <1>5, <1>6, <1>7, <1>8, <1>10 DEF i, q, v

-----------------------------------------------------------------------------
(* The operations on the held stack.                                       *)

LEMMA HeldFields ==
    ASSUME NEW held, PlainHeld(held)
    PROVE  /\ held \in [Entries -> HeldEntries]
           /\ \A k \in Entries : /\ held[k] \in HeldEntries /\ PlainEntry(held[k])
                                 /\ (held[k].keyDown => Holds(held[k]) /\ held[k].isActive)
                                 /\ (held[k].isActive => Identity(held[k]) \in NoteIdentities)
                                 /\ held[k].order \in 0 .. ForcedCapacity /\ held[k].order \in Int
<1>1. /\ held \in [Entries -> HeldEntries]
      /\ \A k \in Entries : held[k] \in HeldEntries /\ PlainEntry(held[k])
  BY DEF PlainHeld
<1>2. ASSUME NEW v \in HeldEntries, PlainEntry(v)
      PROVE  /\ (v.keyDown => Holds(v) /\ v.isActive)
             /\ (v.isActive => Identity(v) \in NoteIdentities)
             /\ v.order \in 0 .. ForcedCapacity /\ v.order \in Int
  <2>1. v.keyDown => v.isActive
    BY <1>2, Blanks DEF PlainEntry
  <2>2. v.isActive => Identity(v) \in NoteIdentities
    BY <1>2 DEF PlainEntry, Identity, NoteIdentities, HeldEntries
  <2>3. v.order \in 0 .. ForcedCapacity
    BY DEF HeldEntries
  <2> QED BY <2>1, <2>2, <2>3 DEF Holds
<1> QED BY <1>1, <1>2

LEMMA AgesStayRanked ==
    ASSUME NEW f, NEW g, Ranked(f), AgesStay(f, g) PROVE Ranked(g)
BY DEF Ranked, AgesStay

\* An entry of which only flags have changed is a plain one still.
LEMMA FlagsOnly ==
    ASSUME NEW v \in HeldEntries, PlainEntry(v), v.isActive, NEW w \in HeldEntries,
           w.note = v.note, w.id = v.id, w.channel = v.channel, w.isActive = v.isActive
    PROVE  PlainEntry(w) /\ Identity(w) = Identity(v)
BY DEF PlainEntry, Identity

LEMMA LiftSustainHeld ==
    ASSUME NEW held, PlainHeld(held), NEW channel \in Channels
    PROVE  LET q == LiftSustain(held, channel)
           IN  /\ PlainHeld(q) /\ AgesStay(held, q) /\ KeysStay(held, q, Entries)
               /\ \A sustain, sostenuto :
                     HeldUnder(held, sustain, sostenuto) => HeldUnder(q, sustain \ {channel}, sostenuto)
<1> DEFINE q == LiftSustain(held, channel)
           Stays(k) == ~ held[k].isActive \/ held[k].keyDown \/ ~ SameChannel(channel, held[k])
           Up(k) == [held[k] EXCEPT !.isSustained = FALSE]
<1>1. q = [k \in Entries |-> IF Stays(k) THEN held[k]
                             ELSE IF held[k].isSostenuto THEN Up(k) ELSE NoEntry]
  BY DEF LiftSustain
<1>2. ASSUME NEW k \in Entries, ~ Stays(k)
      PROVE  /\ Up(k) \in HeldEntries /\ PlainEntry(Up(k)) /\ Identity(Up(k)) = Identity(held[k])
             /\ ~ Up(k).keyDown /\ Up(k).isActive /\ Up(k).order = held[k].order
             /\ Up(k).channel = held[k].channel /\ ~ Up(k).isSustained
             /\ Up(k).isSostenuto = held[k].isSostenuto
  <2>1. held[k] \in HeldEntries /\ PlainEntry(held[k]) /\ held[k].isActive
    BY <1>2, HeldFields
  <2>2. PICK w : w = Up(k)
    OBVIOUS
  <2>3. /\ w \in HeldEntries /\ PlainEntry(w) /\ Identity(w) = Identity(held[k])
        /\ w.isActive = held[k].isActive /\ w.order = held[k].order /\ w.channel = held[k].channel
        /\ w.keyDown = held[k].keyDown
        /\ w.isSustained = FALSE /\ w.isSostenuto = held[k].isSostenuto
    <3>1. /\ w \in HeldEntries /\ w.note = held[k].note /\ w.id = held[k].id
          /\ w.isActive = held[k].isActive /\ w.order = held[k].order
          /\ w.channel = held[k].channel /\ w.keyDown = held[k].keyDown
          /\ w.isSustained = FALSE /\ w.isSostenuto = held[k].isSostenuto
      BY <2>1, <2>2 DEF HeldEntries
    <3> QED BY <2>1, <3>1, FlagsOnly
  <2> HIDE DEF Up
  <2> QED BY <1>2, <2>1, <2>2, <2>3
<1> HIDE DEF q, Up
<1>3. \A k \in Entries : q[k] = IF Stays(k) THEN held[k]
                                ELSE IF held[k].isSostenuto THEN Up(k) ELSE NoEntry
  BY <1>1
<1>4. PlainHeld(q)
  <2> HIDE DEF Stays
  <2> QED BY <1>1, <1>2, <1>3, HeldFields, Blanks DEF PlainHeld
<1>5. AgesStay(held, q)
  BY <1>2, <1>3, Blanks DEF AgesStay
<1>6. KeysStay(held, q, Entries)
  BY <1>2, <1>3, Blanks DEF KeysStay
<1>7. ASSUME NEW sustain, NEW sostenuto, HeldUnder(held, sustain, sostenuto), NEW k \in Entries
      PROVE  UnderPedals(q[k], sustain \ {channel}, sostenuto)
  <2>0. UnderPedals(held[k], sustain, sostenuto)
    BY <1>7 DEF HeldUnder
  <2>1. CASE ~ held[k].isActive
    BY <1>3, <2>1 DEF UnderPedals
  <2>2. CASE held[k].keyDown
    BY <1>3, <2>0, <2>2 DEF UnderPedals
  <2>3. CASE ~ SameChannel(channel, held[k])
    <3>1. held[k].channel # AnyChannel /\ held[k].channel # channel
      BY <2>3 DEF SameChannel
    <3> QED BY <1>3, <2>0, <2>3, <3>1 DEF UnderPedals, Under
  <2>4. CASE ~ Stays(k)
    <3>1. CASE held[k].isSostenuto
      BY <1>2, <1>3, <2>0, <2>4, <3>1 DEF UnderPedals, Under
    <3>2. CASE ~ held[k].isSostenuto
      BY <1>3, <2>4, <3>2, Blanks DEF UnderPedals
    <3> QED BY <3>1, <3>2
  <2> QED BY <2>1, <2>2, <2>3, <2>4
<1> QED BY <1>4, <1>5, <1>6, <1>7 DEF HeldUnder, q

LEMMA LiftSostenutoHeld ==
    ASSUME NEW held, PlainHeld(held), NEW channel \in Channels
    PROVE  LET q == LiftSostenuto(held, channel)
           IN  /\ PlainHeld(q) /\ AgesStay(held, q) /\ KeysStay(held, q, Entries)
               /\ \A sustain, sostenuto :
                     HeldUnder(held, sustain, sostenuto) => HeldUnder(q, sustain, sostenuto \ {channel})
<1> DEFINE q == LiftSostenuto(held, channel)
           Stays(k) == ~ held[k].isActive \/ ~ held[k].isSostenuto \/ ~ SameChannel(channel, held[k])
           Up(k) == [held[k] EXCEPT !.isSostenuto = FALSE]
<1>1. q = [k \in Entries |-> IF Stays(k) THEN held[k]
                             ELSE IF held[k].keyDown \/ held[k].isSustained THEN Up(k) ELSE NoEntry]
  BY DEF LiftSostenuto
<1>2. ASSUME NEW k \in Entries, ~ Stays(k)
      PROVE  /\ Up(k) \in HeldEntries /\ PlainEntry(Up(k)) /\ Identity(Up(k)) = Identity(held[k])
             /\ Up(k).keyDown = held[k].keyDown /\ Up(k).isActive /\ Up(k).order = held[k].order
             /\ Up(k).channel = held[k].channel /\ ~ Up(k).isSostenuto
             /\ Up(k).isSustained = held[k].isSustained
  <2>1. held[k] \in HeldEntries /\ PlainEntry(held[k]) /\ held[k].isActive
    BY <1>2, HeldFields
  <2>2. PICK w : w = Up(k)
    OBVIOUS
  <2>3. /\ w \in HeldEntries /\ PlainEntry(w) /\ Identity(w) = Identity(held[k])
        /\ w.isActive = held[k].isActive /\ w.order = held[k].order /\ w.channel = held[k].channel
        /\ w.keyDown = held[k].keyDown
        /\ w.isSostenuto = FALSE /\ w.isSustained = held[k].isSustained
    <3>1. /\ w \in HeldEntries /\ w.note = held[k].note /\ w.id = held[k].id
          /\ w.isActive = held[k].isActive /\ w.order = held[k].order
          /\ w.channel = held[k].channel /\ w.keyDown = held[k].keyDown
          /\ w.isSostenuto = FALSE /\ w.isSustained = held[k].isSustained
      BY <2>1, <2>2 DEF HeldEntries
    <3> QED BY <2>1, <3>1, FlagsOnly
  <2> HIDE DEF Up
  <2> QED BY <1>2, <2>1, <2>2, <2>3
<1> HIDE DEF q, Up
<1>3. \A k \in Entries : q[k] = IF Stays(k) THEN held[k]
                                ELSE IF held[k].keyDown \/ held[k].isSustained THEN Up(k) ELSE NoEntry
  BY <1>1
<1>4. PlainHeld(q)
  <2> HIDE DEF Stays
  <2> QED BY <1>1, <1>2, <1>3, HeldFields, Blanks DEF PlainHeld
<1>5. AgesStay(held, q)
  BY <1>2, <1>3, Blanks DEF AgesStay
<1>6. KeysStay(held, q, Entries)
  BY <1>2, <1>3, Blanks DEF KeysStay
<1>7. ASSUME NEW sustain, NEW sostenuto, HeldUnder(held, sustain, sostenuto), NEW k \in Entries
      PROVE  UnderPedals(q[k], sustain, sostenuto \ {channel})
  <2>0. UnderPedals(held[k], sustain, sostenuto)
    BY <1>7 DEF HeldUnder
  <2>1. CASE ~ held[k].isActive
    BY <1>3, <2>1 DEF UnderPedals
  <2>2. CASE ~ held[k].isSostenuto
    BY <1>3, <2>0, <2>2 DEF UnderPedals
  <2>3. CASE ~ SameChannel(channel, held[k])
    <3>1. held[k].channel # AnyChannel /\ held[k].channel # channel
      BY <2>3 DEF SameChannel
    <3> QED BY <1>3, <2>0, <2>3, <3>1 DEF UnderPedals, Under
  <2>4. CASE ~ Stays(k)
    <3>1. CASE held[k].keyDown \/ held[k].isSustained
      BY <1>2, <1>3, <2>0, <2>4, <3>1 DEF UnderPedals, Under
    <3>2. CASE ~ (held[k].keyDown \/ held[k].isSustained)
      BY <1>3, <2>4, <3>2, Blanks DEF UnderPedals
    <3> QED BY <3>1, <3>2
  <2> QED BY <2>1, <2>2, <2>3, <2>4
<1> QED BY <1>4, <1>5, <1>6, <1>7 DEF HeldUnder, q

LEMMA LatchSostenutoHeld ==
    ASSUME NEW held, PlainHeld(held), NEW channel \in Channels
    PROVE  LET q == LatchSostenuto(held, channel)
           IN  /\ PlainHeld(q) /\ AgesStay(held, q) /\ KeysStay(held, q, Entries)
               /\ \A sustain, sostenuto :
                     HeldUnder(held, sustain, sostenuto) => HeldUnder(q, sustain, sostenuto \cup {channel})
<1> DEFINE q == LatchSostenuto(held, channel)
           Caught(k) == held[k].isSostenuto
                        \/ (held[k].isActive /\ held[k].keyDown /\ SameChannel(channel, held[k]))
           New(k) == [held[k] EXCEPT !.isSostenuto = Caught(k)]
<1>0. channel # AnyChannel
  BY Blanks
<1>1. q = [k \in Entries |-> New(k)]
  BY HeldFields DEF LatchSostenuto, HeldEntries
<1>2. ASSUME NEW k \in Entries
      PROVE  /\ New(k) \in HeldEntries /\ PlainEntry(New(k)) /\ Identity(New(k)) = Identity(held[k])
             /\ New(k).keyDown = held[k].keyDown /\ New(k).isActive = held[k].isActive
             /\ New(k).order = held[k].order /\ New(k).channel = held[k].channel
             /\ New(k).isSustained = held[k].isSustained
             /\ (New(k).isSostenuto => held[k].isSostenuto \/ SameChannel(channel, held[k]))
  <2>1. held[k] \in HeldEntries /\ PlainEntry(held[k])
    BY HeldFields
  <2>2. Caught(k) \in BOOLEAN /\ (~ held[k].isActive => Caught(k) = FALSE)
        /\ (Caught(k) => held[k].isSostenuto \/ SameChannel(channel, held[k]))
    BY <2>1 DEF PlainEntry, NoEntry, HeldEntries
  <2> HIDE DEF Caught
  <2>3. CASE held[k].isActive
    <3>1. PICK b \in BOOLEAN : b = Caught(k)
      BY <2>2
    <3>2. New(k) = [held[k] EXCEPT !.isSostenuto = b]
      BY <3>1
    <3> HIDE DEF New
    <3>3. /\ New(k) \in HeldEntries /\ PlainEntry(New(k)) /\ Identity(New(k)) = Identity(held[k])
          /\ New(k).isActive = held[k].isActive /\ New(k).order = held[k].order
          /\ New(k).channel = held[k].channel
          /\ New(k).keyDown = held[k].keyDown /\ New(k).isSostenuto = b
          /\ New(k).isSustained = held[k].isSustained
      <4>1. /\ New(k) \in HeldEntries /\ New(k).note = held[k].note /\ New(k).id = held[k].id
            /\ New(k).isActive = held[k].isActive /\ New(k).order = held[k].order
            /\ New(k).channel = held[k].channel
            /\ New(k).keyDown = held[k].keyDown /\ New(k).isSostenuto = b
            /\ New(k).isSustained = held[k].isSustained
        BY <2>1, <3>2 DEF HeldEntries
      <4> QED BY <2>1, <2>3, <4>1, FlagsOnly
    <3> QED BY <2>2, <3>1, <3>3
  <2>4. CASE ~ held[k].isActive
    <3>1. held[k].isSostenuto = FALSE
      BY <2>1, <2>4 DEF PlainEntry, NoEntry
    <3>2. New(k) = held[k]
      BY <2>1, <2>2, <2>4, <3>1 DEF HeldEntries
    <3> HIDE DEF New
    <3> QED BY <2>1, <3>2
  <2> QED BY <2>3, <2>4
<1> HIDE DEF New
<1>3. q \in [Entries -> HeldEntries] /\ \A k \in Entries : q[k] = New(k)
  BY <1>1, <1>2
<1> HIDE DEF q
<1>4. PlainHeld(q)
  BY <1>2, <1>3 DEF PlainHeld
<1>5. AgesStay(held, q)
  BY <1>2, <1>3 DEF AgesStay
<1>6. KeysStay(held, q, Entries)
  BY <1>2, <1>3 DEF KeysStay
<1>7. ASSUME NEW sustain, NEW sostenuto, HeldUnder(held, sustain, sostenuto), NEW k \in Entries
      PROVE  UnderPedals(New(k), sustain, sostenuto \cup {channel})
  <2>1. UnderPedals(held[k], sustain, sostenuto)
    BY <1>7 DEF HeldUnder
  <2>2. SameChannel(channel, held[k]) => Under(held[k], sostenuto \cup {channel})
    BY <1>0 DEF SameChannel, Under
  <2> QED BY <1>2, <2>1, <2>2 DEF UnderPedals, Under
<1> QED BY <1>3, <1>4, <1>5, <1>6, <1>7 DEF HeldUnder, q

\* A stack of which the entries of a channel are reset.
LEMMA CleanupHeld ==
    ASSUME NEW held, PlainHeld(held), NEW channel \in Channels
    PROVE  LET q == [k \in Entries |->
                        IF held[k].isActive /\ SameChannel(channel, held[k]) THEN NoEntry ELSE held[k]]
           IN  PlainHeld(q) /\ AgesStay(held, q)
<1> DEFINE Goes(k) == held[k].isActive /\ SameChannel(channel, held[k])
           q == [k \in Entries |-> IF Goes(k) THEN NoEntry ELSE held[k]]
<1> HIDE DEF Goes
<1>1. \A k \in Entries : q[k] = IF Goes(k) THEN NoEntry ELSE held[k]
  OBVIOUS
<1>2. PlainHeld(q)
  BY HeldFields, Blanks DEF PlainHeld
<1> HIDE DEF q
<1>3. AgesStay(held, q)
  BY <1>1, Blanks DEF AgesStay
<1> QED BY <1>2, <1>3 DEF q, Goes

\* An entry that is put on top takes no other's place and is newer than they are.
LEMMA PutOnTopHeld ==
    ASSUME NEW held, PlainHeld(held), Ranked(held), NEW k \in Entries,
           NEW entry \in HeldEntries, PlainEntry(entry), entry.isActive
    PROVE  LET q == PutOnTop(held, k, entry)
           IN  /\ PlainHeld(q) /\ Ranked(q) /\ OnTop(held, q, k)
               /\ q[k].isActive /\ q[k].keyDown = entry.keyDown /\ Identity(q[k]) = Identity(entry)
               /\ q[k].isSustained = entry.isSustained /\ q[k].isSostenuto = entry.isSostenuto
               /\ q[k].channel = entry.channel
               /\ \A j \in Entries \ {k} : /\ q[j].isSustained = held[j].isSustained
                                           /\ q[j].isSostenuto = held[j].isSostenuto
                                           /\ q[j].channel = held[j].channel
<1> DEFINE others == [held EXCEPT ![k] = NoEntry]
           A == {i \in Entries : others[i].isActive}
           below(j) == {i \in Entries : others[i].isActive /\ others[i].order <= others[j].order}
           top == 1 + Cardinality(A)
           new == [entry EXCEPT !.order = top]
           Again(j) == [held[j] EXCEPT !.order = Rank(others, j)]
           q == PutOnTop(held, k, entry)
<1>1. q = [j \in Entries |-> IF j = k THEN new ELSE IF held[j].isActive THEN Again(j) ELSE held[j]]
  BY DEF PutOnTop
<1>2. \A j \in Entries : others[j] = IF j = k THEN NoEntry ELSE held[j]
  BY HeldFields
<1>3. A = {i \in Entries \ {k} : held[i].isActive}
  BY <1>2, Blanks
<1>4. \A j \in Entries \ {k} : /\ Rank(others, j) = Cardinality(below(j))
                               /\ below(j) = {i \in A : held[i].order <= held[j].order}
  <2> HIDE DEF A, others
  <2>1. \A i \in Entries : others[i].isActive <=> i \in A
    BY DEF A
  <2>2. \A i \in A : i \in Entries /\ i # k /\ others[i] = held[i]
    BY <1>2, <1>3
  <2> QED BY <1>2, <2>1, <2>2 DEF Rank
<1> HIDE DEF others, below
<1>5. A \in SUBSET Entries /\ k \notin A /\ IsFiniteSet(A)
  BY <1>3, EntriesFinite
<1> HIDE DEF A
<1>6. Cardinality(A) \in Nat /\ Cardinality(A) < ForcedCapacity /\ ForcedCapacity \in Nat
  BY <1>5, EntriesFinite, ProperPart
<1>7. \A j \in Entries \ {k} : /\ below(j) \in SUBSET A /\ IsFiniteSet(below(j))
                               /\ Cardinality(below(j)) \in Nat /\ Cardinality(below(j)) <= Cardinality(A)
  BY <1>4, <1>5, FS_Subset, FS_CardinalityType
<1>8. top \in 0 .. ForcedCapacity /\ top \in Nat
  BY <1>6
<1>9. \A j \in Entries \ {k} : Rank(others, j) \in 0 .. ForcedCapacity /\ Rank(others, j) < top
  BY <1>4, <1>6, <1>7
<1>10. \A j \in Entries : held[j].order \in Int
  BY HeldFields
<1>11. ASSUME NEW i \in A, NEW j \in A
       PROVE  Rank(others, i) <= Rank(others, j) <=> held[i].order <= held[j].order
  <2>0. i \in Entries \ {k} /\ j \in Entries \ {k}
    BY <1>5
  <2>1. ASSUME held[i].order <= held[j].order PROVE Rank(others, i) <= Rank(others, j)
    <3>1. below(i) \subseteq below(j)
      BY <1>4, <1>5, <1>10, <2>0, <2>1
    <3> QED BY <1>4, <1>7, <2>0, <3>1, FS_Subset
  <2>2. ASSUME held[j].order < held[i].order PROVE Rank(others, j) < Rank(others, i)
    <3>1. below(j) \subseteq below(i) /\ i \in below(i) /\ i \notin below(j)
      BY <1>4, <1>5, <1>10, <2>0, <2>2
    <3> QED BY <1>4, <1>7, <2>0, <3>1, ProperPart
  <2>3. Rank(others, i) \in Int /\ Rank(others, j) \in Int
    BY <1>9, <2>0
  <2> QED BY <1>10, <2>0, <2>1, <2>2, <2>3
<1>12. PICK rank \in [Entries \ {k} -> 0 .. ForcedCapacity] : \A j \in Entries \ {k} : rank[j] = Rank(others, j)
  <2>1. [j \in Entries \ {k} |-> Rank(others, j)] \in [Entries \ {k} -> 0 .. ForcedCapacity]
    BY <1>9
  <2> QED BY <2>1
<1>13. /\ new \in HeldEntries /\ PlainEntry(new) /\ Identity(new) = Identity(entry) /\ new.isActive
       /\ new.keyDown = entry.keyDown /\ new.isSustained = entry.isSustained
       /\ new.isSostenuto = entry.isSostenuto /\ new.channel = entry.channel /\ new.order = top
  <2>1. PICK n \in 0 .. ForcedCapacity : n = top
    BY <1>8
  <2>2. new = [entry EXCEPT !.order = n]
    BY <2>1
  <2> HIDE DEF new
  <2>3. /\ new \in HeldEntries /\ new.note = entry.note /\ new.id = entry.id
        /\ new.channel = entry.channel /\ new.isActive = entry.isActive /\ new.order = n
        /\ new.keyDown = entry.keyDown /\ new.isSustained = entry.isSustained
        /\ new.isSostenuto = entry.isSostenuto
    BY <2>2 DEF HeldEntries
  <2> QED BY <2>1, <2>3, FlagsOnly
<1>14. ASSUME NEW j \in Entries \ {k}, held[j].isActive
       PROVE  /\ Again(j) \in HeldEntries /\ PlainEntry(Again(j)) /\ Identity(Again(j)) = Identity(held[j])
              /\ Again(j).isActive = held[j].isActive
              /\ Again(j).keyDown = held[j].keyDown /\ Again(j).isSustained = held[j].isSustained
              /\ Again(j).isSostenuto = held[j].isSostenuto /\ Again(j).channel = held[j].channel
              /\ Again(j).order = Rank(others, j)
  <2>0. held[j] \in HeldEntries /\ PlainEntry(held[j])
    BY HeldFields
  <2>1. PICK n \in 0 .. ForcedCapacity : n = Rank(others, j)
    BY <1>9
  <2>2. Again(j) = [held[j] EXCEPT !.order = n]
    BY <2>1
  <2> HIDE DEF Again
  <2>3. /\ Again(j) \in HeldEntries /\ Again(j).note = held[j].note /\ Again(j).id = held[j].id
        /\ Again(j).channel = held[j].channel /\ Again(j).isActive = held[j].isActive
        /\ Again(j).keyDown = held[j].keyDown /\ Again(j).isSustained = held[j].isSustained
        /\ Again(j).isSostenuto = held[j].isSostenuto /\ Again(j).order = n
    BY <2>0, <2>2 DEF HeldEntries
  <2> QED BY <1>14, <2>0, <2>1, <2>3, FlagsOnly
<1> HIDE DEF new, Again, q, top
<1>15. /\ q[k] = new
       /\ \A j \in Entries \ {k} : q[j] = IF held[j].isActive THEN Again(j) ELSE held[j]
  BY <1>1
<1>16. ASSUME NEW j \in Entries \ {k}
       PROVE  /\ q[j] \in HeldEntries /\ PlainEntry(q[j]) /\ Identity(q[j]) = Identity(held[j])
              /\ q[j].isActive = held[j].isActive
              /\ q[j].keyDown = held[j].keyDown /\ q[j].isSustained = held[j].isSustained
              /\ q[j].isSostenuto = held[j].isSostenuto /\ q[j].channel = held[j].channel
              /\ (held[j].isActive => q[j].order = Rank(others, j) /\ j \in A)
  <2>1. CASE held[j].isActive
    BY <1>3, <1>14, <1>15, <2>1
  <2>2. CASE ~ held[j].isActive
    BY <1>15, <2>2, HeldFields
  <2> QED BY <2>1, <2>2
<1>17. q \in [Entries -> HeldEntries] /\ \A j \in Entries : PlainEntry(q[j])
  <2>1. \A j \in Entries : q[j] \in HeldEntries /\ PlainEntry(q[j])
    BY <1>13, <1>15, <1>16
  <2>2. q = [j \in Entries |-> q[j]]
    BY <1>1
  <2> QED BY <2>1, <2>2
<1>18. \A i, j \in Entries \ {k} : held[i].isActive /\ held[j].isActive =>
           (q[i].order <= q[j].order <=> held[i].order <= held[j].order)
  BY <1>11, <1>16
<1>19. \A j \in Entries \ {k} : q[j].isActive => q[j].order < q[k].order
  BY <1>9, <1>13, <1>15, <1>16
<1>20. Ranked(q)
  <2>1. SUFFICES ASSUME NEW i \in Entries, NEW j \in Entries, q[i].isActive, q[j].isActive,
                        q[i].order = q[j].order, i # j
                 PROVE  FALSE
    BY DEF Ranked
  <2>2. q[i].order \in Int /\ q[j].order \in Int
    BY <1>17, EntriesFinite DEF HeldEntries
  <2>3. CASE i = k \/ j = k
    BY <1>19, <2>1, <2>2, <2>3
  <2>4. CASE i # k /\ j # k
    <3>1. held[i].order <= held[j].order /\ held[j].order <= held[i].order
      BY <1>16, <1>18, <2>1, <2>2, <2>4
    <3> QED BY <1>10, <1>16, <2>1, <2>4, <3>1 DEF Ranked
  <2> QED BY <2>3, <2>4
<1> QED BY <1>13, <1>15, <1>16, <1>17, <1>18, <1>19, <1>20 DEF PlainHeld, OnTop, q

\* A key that goes down takes away another's only when the stack is full or it is the same note.
LEMMA RegisterOnHeld ==
    ASSUME NEW held, PlainHeld(held), Ranked(held), NEW note \in Notes, NEW channel \in AnyNoteChannel,
           NEW id \in NoteIds \cup {Anonymous}
    PROVE  LET q == RegisterNoteOn(held, note, channel, id)
               x == [note |-> note, channel |-> channel, id |-> id]
           IN  /\ PlainHeld(q) /\ Ranked(q)
               /\ \A sustain, sostenuto :
                     HeldUnder(held, sustain, sostenuto) => HeldUnder(q, sustain, sostenuto)
               /\ \E k \in Entries :
                     /\ OnTop(held, q, k) /\ q[k].isActive /\ q[k].keyDown /\ Identity(q[k]) = x
                     /\ held[k].keyDown => \/ (id # Anonymous /\ held[k].note = note /\ held[k].id = id)
                                           \/ \A j \in Entries : held[j].isActive
<1> DEFINE match == HeldMatch(held, note, channel, id)
           free == {k \in Entries : ~ held[k].isActive}
           entry == [NoEntry EXCEPT !.note = note, !.channel = channel, !.id = id,
                                    !.isActive = TRUE, !.keyDown = TRUE]
           k == IF match # {} THEN Newest(held, match)
                ELSE IF free # {} THEN Lowest(free) ELSE First(held, Entries)
           q == RegisterNoteOn(held, note, channel, id)
           x == [note |-> note, channel |-> channel, id |-> id]
<1>1. q = PutOnTop(held, k, entry)
  BY DEF RegisterNoteOn
<1>2. /\ match \in SUBSET Entries
      /\ \A j \in match : id # Anonymous /\ held[j].note = note /\ held[j].id = id
  BY DEF HeldMatch
<1>3. /\ free \in SUBSET Entries /\ \A j \in free : ~ held[j].keyDown
      /\ (free = {} => \A j \in Entries : held[j].isActive)
  BY HeldFields
<1>4. /\ entry \in HeldEntries /\ PlainEntry(entry) /\ entry.isActive /\ entry.keyDown
      /\ Identity(entry) = x /\ ~ entry.isSustained /\ ~ entry.isSostenuto
  <2>1. NoEntry \in HeldEntries /\ ~ NoEntry.isSustained /\ ~ NoEntry.isSostenuto
    BY Blanks DEF NoEntry
  <2>2. /\ entry \in HeldEntries /\ entry.note = note /\ entry.channel = channel /\ entry.id = id
        /\ entry.isActive = TRUE /\ entry.keyDown = TRUE
        /\ ~ entry.isSustained /\ ~ entry.isSostenuto
    BY <2>1 DEF HeldEntries, AnyNoteChannel
  <2> HIDE DEF entry
  <2> QED BY <2>2 DEF PlainEntry, Identity
<1> HIDE DEF entry, match, free
<1>5. k \in Entries /\ (k \in match \/ k \in free \/ \A j \in Entries : held[j].isActive)
  <2>1. CASE match # {}
    <3>1. Newest(held, match) \in match
      BY <1>2, <2>1, NewestExists, HeldFields
    <3> QED BY <1>2, <2>1, <3>1
  <2>2. CASE match = {} /\ free # {}
    <3>1. IsFiniteSet(free) /\ free \subseteq Int
      BY <1>3, EntriesFinite
    <3>2. Lowest(free) \in free
      BY <2>2, <3>1, LowestExists
    <3> QED BY <1>3, <2>2, <3>2
  <2>3. CASE match = {} /\ free = {}
    <3>1. First(held, Entries) \in Entries
      BY NewestExists, HeldFields, EntriesFinite
    <3> QED BY <1>3, <2>3, <3>1
  <2> QED BY <2>1, <2>2, <2>3
<1> HIDE DEF k, q
<1>6. /\ PlainHeld(q) /\ Ranked(q) /\ OnTop(held, q, k)
      /\ q[k].isActive /\ q[k].keyDown = entry.keyDown /\ Identity(q[k]) = Identity(entry)
      /\ q[k].isSustained = entry.isSustained /\ q[k].isSostenuto = entry.isSostenuto
      /\ \A j \in Entries \ {k} : /\ q[j].isSustained = held[j].isSustained
                                  /\ q[j].isSostenuto = held[j].isSostenuto
                                  /\ q[j].channel = held[j].channel
  <2>1. entry \in HeldEntries /\ PlainEntry(entry) /\ entry.isActive
    BY <1>4
  <2> HIDE DEF x
  <2>2. PICK r : r = PutOnTop(held, k, entry)
    OBVIOUS
  <2>3. /\ PlainHeld(r) /\ Ranked(r) /\ OnTop(held, r, k)
        /\ r[k].isActive /\ r[k].keyDown = entry.keyDown /\ Identity(r[k]) = Identity(entry)
        /\ r[k].isSustained = entry.isSustained /\ r[k].isSostenuto = entry.isSostenuto
        /\ \A j \in Entries \ {k} : /\ r[j].isSustained = held[j].isSustained
                                    /\ r[j].isSostenuto = held[j].isSostenuto
                                    /\ r[j].channel = held[j].channel
    BY <1>5, <2>1, <2>2, PutOnTopHeld
  <2> QED BY <1>1, <2>2, <2>3
<1>7. ASSUME NEW sustain, NEW sostenuto, HeldUnder(held, sustain, sostenuto), NEW j \in Entries
      PROVE  UnderPedals(q[j], sustain, sostenuto)
  <2>1. CASE j = k
    BY <1>4, <1>6, <2>1 DEF UnderPedals
  <2>2. CASE j # k
    BY <1>6, <1>7, <2>2 DEF UnderPedals, Under, HeldUnder, OnTop
  <2> QED BY <2>1, <2>2
<1>8. held[k].keyDown => \/ (id # Anonymous /\ held[k].note = note /\ held[k].id = id)
                         \/ \A j \in Entries : held[j].isActive
  BY <1>2, <1>3, <1>5
<1>9. PlainHeld(q) /\ Ranked(q) /\ \A sustain, sostenuto :
          HeldUnder(held, sustain, sostenuto) => HeldUnder(q, sustain, sostenuto)
  BY <1>6, <1>7 DEF HeldUnder
<1>10. OnTop(held, q, k) /\ q[k].isActive /\ q[k].keyDown /\ Identity(q[k]) = x
  BY <1>4, <1>6
<1> QED BY <1>5, <1>8, <1>9, <1>10 DEF q

\* The entries whose key a release may let go.
Releasable(held, note, channel, id) ==
    {k \in Entries : /\ held[k].isActive /\ held[k].keyDown
                     /\ held[k].note = note /\ held[k].id = id
                     /\ SameChannel(channel, held[k])}

\* A key that goes up is the oldest of its identity; a pedal that is down holds its entry.
LEMMA RegisterOffHeld ==
    ASSUME NEW e, PlainHeld(e.held), NEW note, NEW channel, NEW id
    PROVE  LET held == e.held
               q == RegisterNoteOff(e, note, channel, id)
               match == Releasable(held, note, channel, id)
           IN  /\ PlainHeld(q) /\ AgesStay(held, q)
               /\ \A sustain, sostenuto : HeldUnder(held, sustain, sostenuto) /\ e.sustain \subseteq sustain
                     => HeldUnder(q, sustain, sostenuto)
               /\ match # {} => \E k \in match :
                                    /\ ~ q[k].keyDown
                                    /\ \A j \in match : held[j].order >= held[k].order
                                    /\ \A j \in Entries : j # k => q[j] = held[j]
<1> DEFINE held == e.held
           q == RegisterNoteOff(e, note, channel, id)
           match == Releasable(held, note, channel, id)
           k == First(held, match)
           pedal == IF held[k].channel # AnyChannel THEN held[k].channel \in e.sustain
                    ELSE e.sustain # {}
           up == [held[k] EXCEPT !.keyDown = FALSE, !.isSustained = pedal]
           entry == IF Pedalled(up) THEN up ELSE NoEntry
<1>1. q = IF match = {} THEN held ELSE [held EXCEPT ![k] = entry]
  BY DEF RegisterNoteOff, Releasable
<1>2. match \in SUBSET Entries /\ \A j \in match : held[j].isActive /\ held[j].keyDown
  BY DEF Releasable
<1> HIDE DEF match, q
<1>3. CASE match = {}
  <2>1. q = held
    BY <1>1, <1>3
  <2>2. AgesStay(held, q)
    BY <2>1 DEF AgesStay
  <2> QED BY <1>3, <2>1, <2>2 DEF match, q
<1>4. CASE match # {}
  <2>1. k \in match /\ \A j \in match : held[j].order >= held[k].order
    BY <1>2, <1>4, NewestExists, HeldFields
  <2> HIDE DEF k, held
  <2>2. k \in Entries /\ held[k].isActive /\ held[k] \in HeldEntries /\ PlainEntry(held[k])
    BY <1>2, <2>1, HeldFields DEF held
  <2>3. pedal \in BOOLEAN
    <3>1. CASE held[k].channel # AnyChannel
      <4>1. pedal = (held[k].channel \in e.sustain)
        BY <3>1
      <4> HIDE DEF pedal
      <4> QED BY <4>1
    <3>2. CASE held[k].channel = AnyChannel
      <4>1. pedal = (e.sustain # {})
        BY <3>2
      <4> HIDE DEF pedal
      <4> QED BY <4>1
    <3> QED BY <3>1, <3>2
  <2>4. \A sustain : pedal /\ e.sustain \subseteq sustain => Under(held[k], sustain)
    BY DEF Under
  <2> HIDE DEF pedal
  <2>5. /\ up \in HeldEntries /\ PlainEntry(up) /\ ~ up.keyDown /\ up.isActive
        /\ up.order = held[k].order /\ up.channel = held[k].channel
        /\ up.isSustained = pedal /\ up.isSostenuto = held[k].isSostenuto
    <3>1. PICK b \in BOOLEAN : b = pedal
      BY <2>3
    <3>2. up = [held[k] EXCEPT !.keyDown = FALSE, !.isSustained = b]
      BY <3>1
    <3> HIDE DEF up
    <3>3. /\ up \in HeldEntries /\ up.note = held[k].note /\ up.id = held[k].id
          /\ up.isActive = held[k].isActive /\ up.keyDown = FALSE
          /\ up.order = held[k].order /\ up.channel = held[k].channel
          /\ up.isSustained = b /\ up.isSostenuto = held[k].isSostenuto
      BY <2>2, <3>2 DEF HeldEntries
    <3> QED BY <2>2, <3>1, <3>3, FlagsOnly
  <2> HIDE DEF up
  <2>6. /\ entry \in HeldEntries /\ PlainEntry(entry) /\ ~ entry.keyDown
        /\ (entry.isActive => entry.order = held[k].order)
        /\ entry \in {up, NoEntry}
    BY <2>5, Blanks
  <2> HIDE DEF entry
  <2>7. /\ q \in [Entries -> HeldEntries]
        /\ \A j \in Entries : q[j] = IF j = k THEN entry ELSE held[j]
    BY <1>1, <1>4, <2>2, <2>6, HeldFields DEF held
  <2>8. PlainHeld(q)
    BY <2>6, <2>7, HeldFields DEF PlainHeld, held
  <2>9. AgesStay(held, q)
    BY <2>2, <2>6, <2>7 DEF AgesStay
  <2>10. ASSUME NEW sustain, NEW sostenuto, HeldUnder(held, sustain, sostenuto), e.sustain \subseteq sustain,
                NEW j \in Entries
         PROVE  UnderPedals(q[j], sustain, sostenuto)
    <3>1. UnderPedals(held[j], sustain, sostenuto)
      BY <2>10 DEF HeldUnder
    <3>2. CASE j # k
      BY <2>7, <3>1, <3>2
    <3>3. CASE j = k /\ entry = NoEntry
      BY <2>7, <3>3, Blanks DEF UnderPedals
    <3>4. CASE j = k /\ entry = up
      BY <2>2, <2>4, <2>5, <2>7, <2>10, <3>1, <3>4 DEF UnderPedals, Under
    <3> QED BY <2>6, <3>2, <3>3, <3>4
  <2>11. ~ q[k].keyDown /\ \A j \in Entries : j # k => q[j] = held[j]
    BY <2>2, <2>6, <2>7
  <2>12. \A sustain, sostenuto : HeldUnder(held, sustain, sostenuto) /\ e.sustain \subseteq sustain
             => HeldUnder(q, sustain, sostenuto)
    BY <2>10 DEF HeldUnder
  <2> QED BY <1>4, <2>1, <2>8, <2>9, <2>11, <2>12 DEF k, held, match, q
<1> QED BY <1>3, <1>4

-----------------------------------------------------------------------------
(* What the render thread asks of the engine.                              *)

\* A new pool in Poly of which no voice starts.
LEMMA PoolStep ==
    ASSUME NEW e, NEW sustain, NEW sostenuto, Fit(e, sustain, sostenuto), e.mode = "poly",
           NEW q, PlainPool(q), NoneStarts(e.pool, q), NEW s, NEW t, PoolUnder(q, s, t)
    PROVE  LET r == WithPool(e, q)
           IN  Fit(r, s, t) /\ r.mode = e.mode /\ r.pool = q /\ r.held = e.held
<1> DEFINE a == [e EXCEPT !.pool = q]
           S == Silenced(e.pool, q)
           r == WithPool(e, q)
           O == {i \in Slots : Holds(e.pool.slot[i])}
<1>1. /\ e \in Engines /\ OneAuthority(e) /\ Agree(e, O) /\ PlainHeld(e.held) /\ Ranked(e.held)
      /\ q \in Pools /\ e.mode # "unison"
  BY DEF Fit, Sane, GatesAgree, OwnersOf, PlainPool
<1>2. r = GateOff(a, S)
  BY DEF WithPool
<1>3. /\ a \in Engines /\ a.pool = q /\ a.mode = e.mode /\ a.unison = e.unison
      /\ a.held = e.held /\ a.voice = e.voice /\ a.sustain = e.sustain /\ a.sostenuto = e.sostenuto
      /\ a.gate = e.gate /\ a.restart = e.restart /\ a.early = e.early /\ a.cut = e.cut
  BY <1>1, OtherPool
<1>4. S \in SUBSET Slots /\ O \ S = {i \in Slots : Holds(q.slot[i])}
  BY DEF Silenced, NoneStarts
<1> HIDE DEF a, S, O, r
<1>5. r \in Engines /\ SameNotes(r, a) /\ Agree(r, O \ S)
  BY <1>1, <1>2, <1>3, <1>4, GateOffChips, SameChipsAgree
<1>6. /\ r.mode = "poly" /\ r.pool = q /\ r.held = e.held /\ r.voice = e.voice
      /\ r.sustain = {} /\ r.sostenuto = {} /\ r.held = NoHeld /\ \A i \in Slots : r.voice[i] = Silent
  BY <1>1, <1>3, <1>5 DEF SameNotes, OneAuthority
<1>7. GatesAgree(r)
  BY <1>4, <1>5, <1>6 DEF GatesAgree, OwnersOf
<1>8. Sane(r) /\ Ranked(r.held)
  BY <1>1, <1>5, <1>6 DEF Sane, OneAuthority
<1>9. HeldUnder(r.held, s, t)
  BY <1>6, Blanks DEF HeldUnder, NoHeld, UnderPedals
<1> QED BY <1>6, <1>7, <1>8, <1>9 DEF Fit, PedalsKnown, r

\* A new stack in a forced mode, which plays what is on top.
LEMMA StackStep ==
    ASSUME NEW e, NEW sustain, NEW sostenuto, Fit(e, sustain, sostenuto), e.mode # "poly",
           NEW a \in Engines, a.mode = e.mode, a.pool = e.pool, a.voice = e.voice,
           a.gate = e.gate, a.restart = e.restart, a.early = e.early, a.cut = e.cut,
           e.mode = "unison" => a.unison \in UnisonCounts,
           PlainHeld(a.held), Ranked(a.held), NEW s, NEW t, HeldUnder(a.held, s, t),
           a.sustain \subseteq s, a.sostenuto \subseteq t, NEW retrigger \in BOOLEAN
    PROVE  LET r == Resolve(a, retrigger)
           IN  /\ Fit(r, s, t) /\ r.mode = e.mode /\ r.pool = e.pool /\ r.held = a.held
               /\ r.sustain = a.sustain /\ r.sostenuto = a.sostenuto /\ r.unison = a.unison
               /\ (SoundingEntries(a.held) # {} => PlaysTop(r))
<1> DEFINE r == Resolve(a, retrigger)
           O == {i \in Slots : e.voice[i] # Silent}
<1>1. /\ e \in Engines /\ OneAuthority(e) /\ Agree(e, O)
      /\ PlainPool(e.pool) /\ OwnersOf(a) = O
  BY DEF Fit, Sane, GatesAgree, OwnersOf
<1> HIDE DEF O
<1>2. GatesAgree(a)
  BY <1>1, SameChipsAgree DEF GatesAgree
<1>3. Resolvable(a)
  BY <1>1, EngineFields DEF Resolvable, ForcedModes, OneAuthority, CutSilent
<1>4. /\ r \in Engines /\ r.mode = a.mode /\ r.unison = a.unison /\ r.pool = a.pool
      /\ r.held = a.held /\ r.sustain = a.sustain /\ r.sostenuto = a.sostenuto
      /\ (GatesAgree(a) => GatesAgree(r))
      /\ (SoundingEntries(a.held) # {} => PlaysTop(r)) /\ CutSilent(r)
  BY <1>3, ResolvePlaysTop
<1> HIDE DEF r
<1>5. Sane(r) /\ Ranked(r.held)
  BY <1>1, <1>4 DEF Sane, OneAuthority
<1>6. PoolUnder(r.pool, s, t)
  BY <1>1, <1>4, Blanks DEF PoolUnder, OneAuthority, UnderPedals
<1> QED BY <1>2, <1>4, <1>5, <1>6 DEF Fit, PedalsKnown, r

LEMMA Composed ==
    ASSUME NEW e, NEW a, NEW r, Continues(e, a), Continues(a, r) PROVE Continues(e, r)
<1>1. KeysStay(e.pool.slot, r.pool.slot, Slots) /\ KeysStay(e.held, r.held, Entries)
  BY DEF Continues, KeysStay
<1>2. AgesStay(e.held, r.held)
  BY DEF Continues, AgesStay
<1>3. KeyEntries(a.held) = KeyEntries(e.held)
  BY DEF Continues, KeysStay, KeyEntries
<1> QED BY <1>1, <1>2, <1>3 DEF Continues

\* An engine that continues another keeps its keys and their order.
LEMMA ContinuedKeys ==
    ASSUME NEW e, NEW r, Sane(e), Sane(r), Continues(e, r)
    PROVE  /\ \A x : KeyDown(r, x) = KeyDown(e, x)
           /\ \A keys : KeysMatch(e, keys) => KeysMatch(r, keys)
           /\ \A keys \in Seq(NoteIdentities) : Ordered(e, keys) => Ordered(r, keys)
<1>1. ASSUME NEW x PROVE KeyDown(r, x) = KeyDown(e, x)
  <2>1. /\ KeyCount(r.pool.slot, Slots, x) = KeyCount(e.pool.slot, Slots, x)
        /\ KeyCount(r.held, Entries, x) = KeyCount(e.held, Entries, x)
    <3>1. KeysStay(e.pool.slot, r.pool.slot, Slots) /\ KeysStay(e.held, r.held, Entries)
      BY DEF Continues
    <3> QED BY <3>1, KeyCountSame DEF KeysStay
  <2> QED BY <2>1 DEF KeyDown, KeyCount, Continues
<1>2. ASSUME NEW keys, KeysMatch(e, keys) PROVE KeysMatch(r, keys)
  BY <1>1, <1>2 DEF KeysMatch
<1>3. ASSUME NEW keys \in Seq(NoteIdentities), Ordered(e, keys), r.mode # "poly" PROVE Ordered(r, keys)
  <2>1. e.mode # "poly" /\ InPressOrder(e.held, keys) /\ (keys # <<>> => PlaysTop(e))
    BY <1>3 DEF Ordered, Continues
  <2>2. /\ KeyEntries(r.held) = KeyEntries(e.held)
        /\ \A k \in KeyEntries(e.held) : k \in Entries /\ Identity(r.held[k]) = Identity(e.held[k])
    BY DEF Continues, KeysStay, KeyEntries
  <2>3. \A k \in KeyEntries(e.held) : r.held[k].order = e.held[k].order
    <3>1. ASSUME NEW k \in KeyEntries(e.held) PROVE r.held[k].order = e.held[k].order
      <4>1. k \in Entries /\ r.held[k].isActive
        BY <2>2, HeldFields DEF KeyEntries, Sane
      <4> QED BY <4>1 DEF Continues, AgesStay
    <3> QED BY <3>1
  <2>4. \A k \in KeyEntries(e.held) : Place(r.held, k) = Place(e.held, k)
    <3>1. ASSUME NEW k \in KeyEntries(e.held) PROVE Place(r.held, k) = Place(e.held, k)
      <4>1. {j \in KeyEntries(r.held) : r.held[j].order <= r.held[k].order}
              = {j \in KeyEntries(e.held) : e.held[j].order <= e.held[k].order}
        BY <2>2, <2>3
      <4> QED BY <4>1 DEF Place
    <3> QED BY <3>1
  <2>5. InPressOrder(r.held, keys)
    BY <2>1, <2>2, <2>4 DEF InPressOrder
  <2>6. keys # <<>> => KeyEntries(e.held) # {}
    <3>1. KeyEntries(e.held) = {} => Len(keys) = 0
      BY <2>1, FS_EmptySet DEF InPressOrder
    <3> QED BY <3>1, EmptySeq
  <2> QED BY <2>1, <2>5, <2>6 DEF Ordered, Continues
<1>4. \A keys \in Seq(NoteIdentities) : Ordered(e, keys) => Ordered(r, keys)
  BY <1>3 DEF Ordered
<1> QED BY <1>1, <1>2, <1>4

\* At rest there is nothing to compare.
LEMMA AtRest ==
    ASSUME NEW e, Sane(e), \A x \in NoteIdentities : KeyDown(e, x) = 0
    PROVE  KeysMatch(e, <<>>) /\ Ordered(e, <<>>)
<1>1. <<>> \in Seq(NoteIdentities) /\ Len(<<>>) = 0 /\ DOMAIN <<>> = {}
  BY EmptySeq, LenProperties
<1>2. \A x : CountKeys(<<>>, x) = 0
  BY <1>1, CountType
<1>3. KeysMatch(e, <<>>)
  BY <1>2 DEF KeysMatch
<1>4. ASSUME e.mode # "poly" PROVE KeyEntries(e.held) = {}
  <2>1. ASSUME NEW k \in KeyEntries(e.held) PROVE FALSE
    <3>1. k \in Entries /\ e.held[k].keyDown /\ Identity(e.held[k]) \in NoteIdentities
      BY HeldFields DEF KeyEntries, Sane
    <3>2. KeyCount(e.held, Entries, Identity(e.held[k])) = 0
      BY <1>4, <3>1 DEF KeyDown, KeyCount
    <3> QED BY <3>1, <3>2, KeyCountType, EntriesFinite
  <2> QED BY <2>1
<1>5. Ordered(e, <<>>)
  BY <1>1, <1>4, FS_EmptySet DEF Ordered, InPressOrder
<1> QED BY <1>3, <1>5


\* What a pedal holds is under more pedals as well.
LEMMA MorePedals ==
    ASSUME NEW s, NEW t, NEW s1, NEW t1, s \subseteq s1, t \subseteq t1
    PROVE  /\ \A held : HeldUnder(held, s, t) => HeldUnder(held, s1, t1)
           /\ \A p : PoolUnder(p, s, t) => PoolUnder(p, s1, t1)
BY DEF HeldUnder, PoolUnder, UnderPedals, Under

\* An engine continues when the authority in charge does.
LEMMA PoolContinues ==
    ASSUME NEW e, NEW r, e.mode = "poly", r.mode = e.mode, r.held = e.held,
           KeysStay(e.pool.slot, r.pool.slot, Slots)
    PROVE  Continues(e, r)
BY DEF Continues, KeysStay, AgesStay

LEMMA StackContinues ==
    ASSUME NEW e, NEW r, e.mode # "poly", r.mode = e.mode, r.pool = e.pool, PlainHeld(r.held),
           KeysStay(e.held, r.held, Entries), AgesStay(e.held, r.held),
           SoundingEntries(r.held) # {} => PlaysTop(r)
    PROVE  Continues(e, r)
<1>1. KeyEntries(r.held) = KeyEntries(e.held)
  BY DEF KeysStay, KeyEntries
<1>2. KeyEntries(r.held) \subseteq SoundingEntries(r.held)
  BY HeldFields DEF KeyEntries, SoundingEntries
<1>3. KeysStay(e.pool.slot, r.pool.slot, Slots)
  BY DEF KeysStay
<1> QED BY <1>1, <1>2, <1>3 DEF Continues

LEMMA SustainStep ==
    ASSUME NEW e, NEW s, NEW t, Fit(e, s, t), NEW channel \in Channels
    PROVE  /\ Fit(SustainEngine(e, channel, TRUE), s \cup {channel}, t)
           /\ Continues(e, SustainEngine(e, channel, TRUE))
           /\ Fit(SustainEngine(e, channel, FALSE), s \ {channel}, t)
           /\ Continues(e, SustainEngine(e, channel, FALSE))
<1>1. /\ e \in Engines /\ PlainPool(e.pool) /\ PlainHeld(e.held) /\ OneAuthority(e) /\ Ranked(e.held)
      /\ PoolUnder(e.pool, s, t) /\ HeldUnder(e.held, s, t) /\ e.sustain \subseteq s
      /\ e.sostenuto \subseteq t /\ GatesAgree(e)
      /\ e.held \in [Entries -> HeldEntries] /\ e.sustain \in SUBSET Channels
      /\ e.sostenuto \in SUBSET Channels
  BY EngineFields DEF Fit, Sane, PedalsKnown
<1>2. CASE e.mode = "poly"
  <2> DEFINE d == SetSustainPedal(e.pool, channel, TRUE)
             u == SetSustainPedal(e.pool, channel, FALSE)
  <2>1. /\ SustainEngine(e, channel, TRUE) = WithPool(e, d)
        /\ SustainEngine(e, channel, FALSE) = WithPool(e, u)
    BY <1>2 DEF SustainEngine
  <2>2. /\ PlainPool(d) /\ NoneStarts(e.pool, d) /\ KeysStay(e.pool.slot, d.slot, Slots)
        /\ PoolUnder(d, s \cup {channel}, t)
        /\ PlainPool(u) /\ NoneStarts(e.pool, u) /\ KeysStay(e.pool.slot, u.slot, Slots)
        /\ PoolUnder(u, s \ {channel}, t)
    BY <1>1, SustainPool
  <2> HIDE DEF d, u
  <2> DEFINE rd == WithPool(e, d)
             ru == WithPool(e, u)
  <2>3. Fit(rd, s \cup {channel}, t) /\ rd.mode = e.mode /\ rd.pool = d /\ rd.held = e.held
    BY <1>2, <2>2, PoolStep
  <2>4. Fit(ru, s \ {channel}, t) /\ ru.mode = e.mode /\ ru.pool = u /\ ru.held = e.held
    BY <1>2, <2>2, PoolStep
  <2> HIDE DEF rd, ru
  <2>5. Continues(e, rd) /\ Continues(e, ru)
    BY <1>2, <2>2, <2>3, <2>4, PoolContinues
  <2> QED BY <2>1, <2>3, <2>4, <2>5 DEF rd, ru
<1>3. CASE e.mode # "poly"
  <2> DEFINE down == e.sustain \cup {channel}
             up == e.sustain \ {channel}
             lifted == LiftSustain(e.held, channel)
             sd == s \cup {channel}
             su == s \ {channel}
  <2>1. PICK b \in BOOLEAN : b = (e.mode # "legato")
    OBVIOUS
  <2> DEFINE rd == [e EXCEPT !.sustain = down]
             a == [e EXCEPT !.sustain = up, !.held = lifted]
             ru == Resolve(a, b)
  <2>2. SustainEngine(e, channel, TRUE) = rd /\ SustainEngine(e, channel, FALSE) = ru
    BY <1>3, <2>1 DEF SustainEngine
  <2>3. down \in SUBSET Channels /\ up \in SUBSET Channels /\ down \subseteq sd /\ up \subseteq su /\ s \subseteq sd
    BY <1>1
  <2>4. /\ PlainHeld(lifted) /\ AgesStay(e.held, lifted) /\ KeysStay(e.held, lifted, Entries)
        /\ HeldUnder(lifted, su, t)
    BY <1>1, LiftSustainHeld
  <2>5. lifted \in [Entries -> HeldEntries] /\ Ranked(lifted)
    BY <1>1, <2>4, AgesStayRanked DEF PlainHeld
  <2> HIDE DEF down, up, lifted, sd, su
  <2>6. /\ rd \in Engines /\ rd.pool = e.pool /\ rd.mode = e.mode /\ rd.unison = e.unison
        /\ rd.held = e.held /\ rd.voice = e.voice /\ rd.sustain = down
        /\ rd.sostenuto = e.sostenuto /\ rd.gate = e.gate /\ rd.restart = e.restart
        /\ rd.early = e.early /\ rd.cut = e.cut
    BY <1>1, <2>3 DEF Engines
  <2>7. /\ a \in Engines /\ a.pool = e.pool /\ a.mode = e.mode /\ a.unison = e.unison
        /\ a.held = lifted /\ a.voice = e.voice /\ a.sustain = up
        /\ a.sostenuto = e.sostenuto /\ a.gate = e.gate /\ a.restart = e.restart
        /\ a.early = e.early /\ a.cut = e.cut
    BY <1>1, <2>3, <2>5 DEF Engines
  <2> HIDE DEF rd, a
  <2>8. Fit(rd, sd, t)
    <3>1. Sane(rd)
      BY <1>1, <1>3, <2>6 DEF Sane, OneAuthority, CutSilent
    <3>2. OwnersOf(rd) = OwnersOf(e)
      BY <2>6 DEF OwnersOf
    <3>3. GatesAgree(rd)
      BY <1>1, <2>6, <3>2, SameChipsAgree DEF GatesAgree
    <3>4. PedalsKnown(rd, sd, t)
      BY <1>1, <2>3, <2>6, MorePedals DEF PedalsKnown
    <3> QED BY <1>1, <2>6, <3>1, <3>3, <3>4 DEF Fit
  <2>9. Continues(e, rd)
    BY <1>3, <2>6 DEF Continues, KeysStay, AgesStay, PlaysTop
  <2>12. e.mode = "unison" => a.unison \in UnisonCounts
    BY <1>1, <2>7 DEF OneAuthority
  <2>13. /\ Fit(ru, su, t) /\ ru.mode = e.mode /\ ru.pool = e.pool /\ ru.held = lifted
         /\ (SoundingEntries(lifted) # {} => PlaysTop(ru))
    <3>1. a.sostenuto \subseteq t /\ a.sustain \subseteq su /\ PlainHeld(a.held) /\ Ranked(a.held) /\ HeldUnder(a.held, su, t)
      BY <1>1, <2>3, <2>4, <2>5, <2>7
    <3> QED BY <1>3, <2>1, <2>7, <2>12, <3>1, StackStep
  <2> HIDE DEF ru
  <2>14. Continues(e, ru)
    BY <1>3, <2>4, <2>13, StackContinues
  <2> QED BY <2>2, <2>8, <2>9, <2>13, <2>14 DEF sd, su
<1> QED BY <1>2, <1>3

LEMMA SostenutoStep ==
    ASSUME NEW e, NEW s, NEW t, Fit(e, s, t), NEW channel \in Channels
    PROVE  /\ Fit(SostenutoEngine(e, channel, TRUE), s, t \cup {channel})
           /\ Continues(e, SostenutoEngine(e, channel, TRUE))
           /\ Fit(SostenutoEngine(e, channel, FALSE), s, t \ {channel})
           /\ Continues(e, SostenutoEngine(e, channel, FALSE))
<1>1. /\ e \in Engines /\ PlainPool(e.pool) /\ PlainHeld(e.held) /\ OneAuthority(e) /\ Ranked(e.held)
      /\ PoolUnder(e.pool, s, t) /\ HeldUnder(e.held, s, t) /\ e.sustain \subseteq s
      /\ e.sostenuto \subseteq t
      /\ e.sustain \in SUBSET Channels /\ e.sostenuto \in SUBSET Channels
  BY EngineFields DEF Fit, Sane, PedalsKnown
<1>2. CASE e.mode = "poly"
  <2> DEFINE d == SetSostenutoPedal(e.pool, channel, TRUE)
             u == SetSostenutoPedal(e.pool, channel, FALSE)
  <2>1. /\ SostenutoEngine(e, channel, TRUE) = WithPool(e, d)
        /\ SostenutoEngine(e, channel, FALSE) = WithPool(e, u)
    BY <1>2 DEF SostenutoEngine
  <2>2. /\ PlainPool(d) /\ NoneStarts(e.pool, d) /\ KeysStay(e.pool.slot, d.slot, Slots)
        /\ PoolUnder(d, s, t \cup {channel})
        /\ PlainPool(u) /\ NoneStarts(e.pool, u) /\ KeysStay(e.pool.slot, u.slot, Slots)
        /\ PoolUnder(u, s, t \ {channel})
    BY <1>1, SostenutoPool
  <2> HIDE DEF d, u
  <2> DEFINE rd == WithPool(e, d)
             ru == WithPool(e, u)
  <2>3. Fit(rd, s, t \cup {channel}) /\ rd.mode = e.mode /\ rd.pool = d /\ rd.held = e.held
    BY <1>2, <2>2, PoolStep
  <2>4. Fit(ru, s, t \ {channel}) /\ ru.mode = e.mode /\ ru.pool = u /\ ru.held = e.held
    BY <1>2, <2>2, PoolStep
  <2> HIDE DEF rd, ru
  <2>5. Continues(e, rd) /\ Continues(e, ru)
    BY <1>2, <2>2, <2>3, <2>4, PoolContinues
  <2> QED BY <2>1, <2>3, <2>4, <2>5 DEF rd, ru
<1>3. CASE e.mode # "poly"
  <2>0. PICK b \in BOOLEAN : b = (e.mode # "legato")
    OBVIOUS
  <2>1. ASSUME NEW held, PlainHeld(held), AgesStay(e.held, held), KeysStay(e.held, held, Entries),
               NEW pedals \in SUBSET Channels, NEW new, pedals \subseteq new, HeldUnder(held, s, new),
               NEW r, r = Resolve([e EXCEPT !.sostenuto = pedals, !.held = held], b)
        PROVE  Fit(r, s, new) /\ Continues(e, r)
    <3> DEFINE a == [e EXCEPT !.sostenuto = pedals, !.held = held]
    <3>2. held \in [Entries -> HeldEntries] /\ Ranked(held)
      BY <1>1, <2>1, AgesStayRanked DEF PlainHeld
    <3>3. r = Resolve(a, b)
      BY <2>1
    <3>4. /\ a \in Engines /\ a.pool = e.pool /\ a.mode = e.mode /\ a.unison = e.unison
          /\ a.held = held /\ a.voice = e.voice /\ a.sustain = e.sustain
          /\ a.sostenuto = pedals /\ a.gate = e.gate /\ a.restart = e.restart
          /\ a.early = e.early /\ a.cut = e.cut
      BY <1>1, <2>1, <3>2 DEF Engines
    <3> HIDE DEF a
    <3>5. e.mode = "unison" => a.unison \in UnisonCounts
      BY <1>1, <3>4 DEF OneAuthority
    <3>6. /\ Fit(r, s, new) /\ r.mode = e.mode /\ r.pool = e.pool /\ r.held = held
          /\ (SoundingEntries(held) # {} => PlaysTop(r))
      BY <1>1, <1>3, <2>1, <3>2, <3>3, <3>4, <3>5, StackStep
    <3>7. Continues(e, r)
      BY <1>3, <2>1, <3>6, StackContinues
    <3> QED BY <3>6, <3>7
  <2> DEFINE down == e.sostenuto \cup {channel}
             up == e.sostenuto \ {channel}
             latched == LatchSostenuto(e.held, channel)
             lifted == LiftSostenuto(e.held, channel)
             td == t \cup {channel}
             tu == t \ {channel}
             rd == Resolve([e EXCEPT !.sostenuto = down, !.held = latched], b)
             ru == Resolve([e EXCEPT !.sostenuto = up, !.held = lifted], b)
  <2>2. SostenutoEngine(e, channel, TRUE) = rd /\ SostenutoEngine(e, channel, FALSE) = ru
    BY <1>3, <2>0 DEF SostenutoEngine
  <2>3. /\ PlainHeld(latched) /\ AgesStay(e.held, latched) /\ KeysStay(e.held, latched, Entries)
        /\ HeldUnder(latched, s, td)
    BY <1>1, LatchSostenutoHeld
  <2>4. /\ PlainHeld(lifted) /\ AgesStay(e.held, lifted) /\ KeysStay(e.held, lifted, Entries)
        /\ HeldUnder(lifted, s, tu)
    BY <1>1, LiftSostenutoHeld
  <2>5. down \in SUBSET Channels /\ down \subseteq td /\ up \in SUBSET Channels /\ up \subseteq tu
    BY <1>1
  <2>6. rd = Resolve([e EXCEPT !.sostenuto = down, !.held = latched], b)
        /\ ru = Resolve([e EXCEPT !.sostenuto = up, !.held = lifted], b)
    OBVIOUS
  <2> HIDE DEF down, up, latched, lifted, td, tu, rd, ru
  <2>7. Fit(rd, s, td) /\ Continues(e, rd)
    BY <2>1, <2>3, <2>5, <2>6
  <2>8. Fit(ru, s, tu) /\ Continues(e, ru)
    BY <2>1, <2>4, <2>5, <2>6
  <2> QED BY <2>2, <2>7, <2>8 DEF td, tu
<1> QED BY <1>2, <1>3

\* Both pedals of a channel come up.
LEMMA PedalsUpStep ==
    ASSUME NEW e, NEW s, NEW t, Fit(e, s, t), NEW channel \in Channels
    PROVE  Fit(PedalsUp(e, channel), s \ {channel}, t \ {channel}) /\ Continues(e, PedalsUp(e, channel))
<1> DEFINE a == SustainEngine(e, channel, FALSE)
<1>1. Fit(a, s \ {channel}, t) /\ Continues(e, a)
  BY SustainStep
<1> HIDE DEF a
<1>2. Fit(SostenutoEngine(a, channel, FALSE), s \ {channel}, t \ {channel})
      /\ Continues(a, SostenutoEngine(a, channel, FALSE))
  BY <1>1, SostenutoStep
<1> QED BY <1>1, <1>2, Composed DEF PedalsUp, a

-----------------------------------------------------------------------------
(* The steps that leave the keys alone.                                    *)

Rest(e, keys) == keys = <<>> /\ \A x \in NoteIdentities : KeyDown(e, x) = 0

\* The invariant holds again when what the history says about the keys does.
LEMMA Closes ==
    ASSUME Fit(engine', player'.sustain, player'.sostenuto), player' \in Players, KeysOfPlayer',
           history' \in Histories,
           history' # "notes" => Rest(engine', player'.keys) \/ KeysMatch(engine', player'.keys),
           history' = "none" => Rest(engine', player'.keys) \/ Ordered(engine', player'.keys)
    PROVE  IInv'
<1>1. Sane(engine')
  BY DEF Fit
<1>2. Rest(engine', player'.keys) => KeysMatch(engine', player'.keys) /\ Ordered(engine', player'.keys)
  BY <1>1, AtRest DEF Rest
<1> QED BY <1>2 DEF IInv

\* The engine continues and the player's keys are as they were.
LEMMA Stays ==
    ASSUME IInv, Fit(engine', player'.sustain, player'.sostenuto), player' \in Players,
           player'.keys = player.keys, player'.arp = player.arp,
           history # "notes" => Continues(engine, engine'),
           UNCHANGED history \/ Remember(FALSE, FALSE)
    PROVE  IInv'
<1>1. /\ Sane(engine) /\ Sane(engine') /\ player.keys \in Seq(NoteIdentities) /\ history \in Histories
      /\ (history # "notes" => KeysMatch(engine, player.keys))
      /\ (history = "none" => Ordered(engine, player.keys)) /\ KeysOfPlayer
  BY DEF IInv, Fit, Players
<1>2. KeysOfPlayer'
  BY <1>1 DEF KeysOfPlayer
<1>3. history # "notes" => KeysMatch(engine', player'.keys)
  BY <1>1, ContinuedKeys
<1>4. history = "none" => Ordered(engine', player'.keys)
  BY <1>1, ContinuedKeys
<1>5. Rest(engine', player'.keys) \/ history' = history
  BY DEF Remember, Rest
<1>6. history' \in Histories
  BY <1>1 DEF Remember, Histories
<1> QED BY <1>2, <1>3, <1>4, <1>5, <1>6, Closes

LEMMA Sustained ==
    ASSUME IInv, NEW channel \in Channels, NEW down \in BOOLEAN, Sustain(channel, down) PROVE IInv'
<1>1. Fit(engine, player.sustain, player.sostenuto) /\ player \in Players
  BY DEF IInv
<1>2. CASE down = TRUE
  <2>1. engine' = SustainEngine(engine, channel, TRUE) /\ Remember(FALSE, FALSE)
    BY <1>2 DEF Sustain
  <2>2. /\ player' \in Players /\ player'.keys = player.keys /\ player'.arp = player.arp
        /\ player'.sustain = player.sustain \cup {channel} /\ player'.sostenuto = player.sostenuto
    BY <1>1, <1>2 DEF Sustain, Players
  <2>3. Fit(SustainEngine(engine, channel, TRUE), player.sustain \cup {channel}, player.sostenuto) /\ Continues(engine, SustainEngine(engine, channel, TRUE))
    BY <1>1, SustainStep
  <2>4. Fit(engine', player'.sustain, player'.sostenuto) /\ Continues(engine, engine')
    BY <2>1, <2>2, <2>3
  <2> QED BY <2>1, <2>2, <2>4, Stays
<1>3. CASE down = FALSE
  <2>1. engine' = SustainEngine(engine, channel, FALSE) /\ Remember(FALSE, FALSE)
    BY <1>3 DEF Sustain
  <2>2. /\ player' \in Players /\ player'.keys = player.keys /\ player'.arp = player.arp
        /\ player'.sustain = player.sustain \ {channel} /\ player'.sostenuto = player.sostenuto
    BY <1>1, <1>3 DEF Sustain, Players
  <2>3. Fit(SustainEngine(engine, channel, FALSE), player.sustain \ {channel}, player.sostenuto) /\ Continues(engine, SustainEngine(engine, channel, FALSE))
    BY <1>1, SustainStep
  <2>4. Fit(engine', player'.sustain, player'.sostenuto) /\ Continues(engine, engine')
    BY <2>1, <2>2, <2>3
  <2> QED BY <2>1, <2>2, <2>4, Stays
<1> QED BY <1>2, <1>3

LEMMA SostenutoHeld ==
    ASSUME IInv, NEW channel \in Channels, NEW down \in BOOLEAN, Sostenuto(channel, down) PROVE IInv'
<1>1. Fit(engine, player.sustain, player.sostenuto) /\ player \in Players
  BY DEF IInv
<1>2. CASE down = TRUE
  <2>1. engine' = SostenutoEngine(engine, channel, TRUE) /\ Remember(FALSE, FALSE)
    BY <1>2 DEF Sostenuto
  <2>2. /\ player' \in Players /\ player'.keys = player.keys /\ player'.arp = player.arp
        /\ player'.sustain = player.sustain /\ player'.sostenuto = player.sostenuto \cup {channel}
    BY <1>1, <1>2 DEF Sostenuto, Players
  <2>3. Fit(SostenutoEngine(engine, channel, TRUE), player.sustain, player.sostenuto \cup {channel}) /\ Continues(engine, SostenutoEngine(engine, channel, TRUE))
    BY <1>1, SostenutoStep
  <2>4. Fit(engine', player'.sustain, player'.sostenuto) /\ Continues(engine, engine')
    BY <2>1, <2>2, <2>3
  <2> QED BY <2>1, <2>2, <2>4, Stays
<1>3. CASE down = FALSE
  <2>1. engine' = SostenutoEngine(engine, channel, FALSE) /\ Remember(FALSE, FALSE)
    BY <1>3 DEF Sostenuto
  <2>2. /\ player' \in Players /\ player'.keys = player.keys /\ player'.arp = player.arp
        /\ player'.sustain = player.sustain /\ player'.sostenuto = player.sostenuto \ {channel}
    BY <1>1, <1>3 DEF Sostenuto, Players
  <2>3. Fit(SostenutoEngine(engine, channel, FALSE), player.sustain, player.sostenuto \ {channel}) /\ Continues(engine, SostenutoEngine(engine, channel, FALSE))
    BY <1>1, SostenutoStep
  <2>4. Fit(engine', player'.sustain, player'.sostenuto) /\ Continues(engine, engine')
    BY <2>1, <2>2, <2>3
  <2> QED BY <2>1, <2>2, <2>4, Stays
<1> QED BY <1>2, <1>3

LEMMA ControllersReset ==
    ASSUME IInv, NEW channel \in Channels, ResetAllControllers(channel) PROVE IInv'
<1>1. Fit(engine, player.sustain, player.sostenuto) /\ player \in Players
  BY DEF IInv
<1>2. engine' = PedalsUp(engine, channel) /\ Remember(FALSE, FALSE)
  BY DEF ResetAllControllers
<1>3. /\ player' \in Players /\ player'.keys = player.keys /\ player'.arp = player.arp
      /\ player'.sustain = player.sustain \ {channel} /\ player'.sostenuto = player.sostenuto \ {channel}
  BY <1>1 DEF ResetAllControllers, Players
<1>4. Fit(engine', player'.sustain, player'.sostenuto) /\ Continues(engine, engine')
  BY <1>1, <1>2, <1>3, PedalsUpStep
<1> QED BY <1>2, <1>3, <1>4, Stays

\* The number of chips of a unison changes.
LEMMA UnisonSet ==
    ASSUME IInv, NEW n \in UnisonCounts, SetUnisonCount(n) PROVE IInv'
<1> DEFINE a == [engine EXCEPT !.unison = n]
<1>1. /\ Fit(engine, player.sustain, player.sostenuto) /\ player \in Players
      /\ engine.mode = "unison" /\ engine.mode # "poly" /\ UNCHANGED history
      /\ player'.sustain = player.sustain /\ player'.sostenuto = player.sostenuto
      /\ player'.keys = player.keys /\ player'.arp = player.arp /\ player' \in Players
  BY DEF IInv, SetUnisonCount
<1>2. PICK b \in BOOLEAN : b = FALSE
  OBVIOUS
<1>3. engine' = Resolve(a, b)
  BY <1>2 DEF SetUnisonCount
<1>4. /\ engine \in Engines /\ PlainHeld(engine.held) /\ Ranked(engine.held)
      /\ HeldUnder(engine.held, player.sustain, player.sostenuto)
      /\ engine.sustain \subseteq player.sustain /\ engine.sostenuto \subseteq player.sostenuto
  BY <1>1 DEF Fit, Sane, PedalsKnown
<1>5. /\ a \in Engines /\ a.pool = engine.pool /\ a.mode = engine.mode /\ a.unison = n
      /\ a.held = engine.held /\ a.voice = engine.voice /\ a.sustain = engine.sustain
      /\ a.sostenuto = engine.sostenuto /\ a.gate = engine.gate /\ a.restart = engine.restart
      /\ a.early = engine.early /\ a.cut = engine.cut
  BY <1>4 DEF Engines
<1> HIDE DEF a
<1>6. PICK r : r = Resolve(a, b)
  OBVIOUS
<1>7. /\ Fit(r, player.sustain, player.sostenuto) /\ r.mode = engine.mode /\ r.pool = engine.pool
      /\ r.held = a.held /\ (SoundingEntries(a.held) # {} => PlaysTop(r))
  BY <1>1, <1>2, <1>4, <1>5, <1>6, StackStep
<1>8. Continues(engine, r)
  <2>1. KeysStay(engine.held, r.held, Entries) /\ AgesStay(engine.held, r.held)
    BY <1>5, <1>7 DEF KeysStay, AgesStay
  <2> QED BY <1>1, <1>4, <1>5, <1>7, <2>1, StackContinues
<1> QED BY <1>1, <1>3, <1>6, <1>7, <1>8, Stays

\* A gate goes up after its restart.
LEMMA RestartEnded ==
    ASSUME IInv, NEW i \in Slots, RestartEnds(i) PROVE IInv'
<1>1. /\ Fit(engine, player.sustain, player.sostenuto) /\ player \in Players
      /\ i \in engine.restart /\ UNCHANGED history
      /\ player'.sustain = player.sustain /\ player'.sostenuto = player.sostenuto
      /\ player'.keys = player.keys /\ player'.arp = player.arp /\ player' \in Players
  BY DEF IInv, RestartEnds
<1>2. engine \in Engines /\ Agree(engine, OwnersOf(engine))
  BY <1>1 DEF Fit, Sane, GatesAgree
<1>3. PICK r : r = engine'
  OBVIOUS
<1>4. /\ r \in Engines /\ SameNotes(r, engine)
      /\ r.restart = engine.restart \ {i} /\ r.gate = engine.gate \cup {i}
      /\ r.early = engine.early /\ r.cut = engine.cut
  BY <1>2, <1>3 DEF RestartEnds, Engines, SameNotes
<1>5. OwnersOf(r) = OwnersOf(engine)
  BY <1>4 DEF OwnersOf, SameNotes
<1>6. GatesAgree(r)
  BY <1>1, <1>2, <1>4, <1>5 DEF GatesAgree, Agree
<1>7. Fit(r, player.sustain, player.sostenuto)
  BY <1>1, <1>4, <1>6 DEF Fit, Sane, OneAuthority, CutSilent, PedalsKnown, SameNotes
<1>8. Continues(engine, r)
  BY <1>4 DEF Continues, SameNotes, KeysStay, AgesStay, PlaysTop
<1> QED BY <1>1, <1>3, <1>7, <1>8, Stays

-----------------------------------------------------------------------------
(* Ranks.                                                                  *)

\* In a strict total order the ranks of a finite set number its elements.
LEMMA StrictRanks ==
    ASSUME NEW S, IsFiniteSet(S), NEW below, NEW rank,
           \A k \in S : below[k] \subseteq S /\ k \notin below[k] /\ rank[k] = 1 + Cardinality(below[k]),
           \A j, k \in S : j \in below[k] => below[j] \subseteq below[k],
           \A j, k \in S : j # k => j \in below[k] \/ k \in below[j]
    PROVE  /\ Cardinality(S) \in Nat
           /\ \A k \in S : rank[k] \in 1 .. Cardinality(S)
           /\ \A j, k \in S : j \in below[k] => rank[j] < rank[k]
           /\ \A j, k \in S : rank[j] = rank[k] => j = k
           /\ \A n \in 1 .. Cardinality(S) : \E k \in S : rank[k] = n
<1> DEFINE N == Cardinality(S)
<1>1. N \in Nat
  BY FS_CardinalityType
<1>2. \A k \in S : IsFiniteSet(below[k]) /\ Cardinality(below[k]) \in Nat /\ Cardinality(below[k]) < N
  BY ProperPart
<1>3. \A j, k \in S : j \in below[k] => Cardinality(below[j]) < Cardinality(below[k])
  BY <1>2, ProperPart
<1>4. \A k \in S : rank[k] = 1 + Cardinality(below[k])
  OBVIOUS
<1> HIDE DEF N
<1>5. \A k \in S : rank[k] \in 1 .. N
  BY <1>1, <1>2, <1>4
<1>6. \A j, k \in S : j \in below[k] => rank[j] < rank[k]
  BY <1>2, <1>3, <1>4
<1>7. \A j, k \in S : rank[j] = rank[k] => j = k
  <2> SUFFICES ASSUME NEW j \in S, NEW k \in S, j # k, rank[j] = rank[k] PROVE FALSE
    OBVIOUS
  <2>1. rank[j] < rank[k] \/ rank[k] < rank[j]
    BY <1>6
  <2> QED BY <1>1, <1>5, <2>1
<1>8. ASSUME NEW n \in 1 .. N PROVE \E k \in S : rank[k] = n
  <2> DEFINE f == [k \in S |-> rank[k]]
             D == 1 .. N
  <2>1. f \in [S -> D] /\ \A j, k \in S : f[j] = f[k] => j = k
    BY <1>5, <1>7
  <2>2. IsFiniteSet(D) /\ Cardinality(D) = N
    BY <1>1, FS_Interval
  <2> HIDE DEF f, D
  <2>3. f \in Injection(S, D)
    BY <2>1, Fun_IsInj
  <2>4. f \in Surjection(S, D)
    BY <2>2, <2>3, FS_Injection DEF N
  <2>5. n \in D
    BY <1>8 DEF D
  <2>6. \E k \in S : f[k] = n
    BY <2>4, <2>5, Fun_SurjectionProperties
  <2> QED BY <2>6 DEF f
<1> QED BY <1>1, <1>5, <1>6, <1>7, <1>8 DEF N

\* Likewise of integers, no two of which are the same.
LEMMA IntegerRanks ==
    ASSUME NEW S, IsFiniteSet(S), NEW o, \A k \in S : o[k] \in Int,
           \A j, k \in S : o[j] = o[k] => j = k,
           NEW upto, NEW rank,
           \A k \in S : upto[k] \subseteq S /\ rank[k] = Cardinality(upto[k]),
           \A j, k \in S : j \in upto[k] <=> o[j] <= o[k]
    PROVE  /\ Cardinality(S) \in Nat
           /\ \A k \in S : rank[k] \in 1 .. Cardinality(S)
           /\ \A j, k \in S : o[j] < o[k] => rank[j] < rank[k]
           /\ \A j, k \in S : rank[j] = rank[k] => j = k
           /\ \A n \in 1 .. Cardinality(S) : \E k \in S : rank[k] = n
<1> DEFINE below == [k \in S |-> upto[k] \ {k}]
<1>1. \A k \in S : below[k] = upto[k] \ {k} /\ k \in upto[k]
  OBVIOUS
<1> HIDE DEF below
<1>2. \A j, k \in S : j \in below[k] <=> o[j] < o[k]
  BY <1>1
<1>3. ASSUME NEW k \in S PROVE rank[k] = 1 + Cardinality(below[k])
  <2>1. IsFiniteSet(below[k]) /\ upto[k] = below[k] \cup {k} /\ k \notin below[k]
    BY <1>1, FS_Subset
  <2>2. Cardinality(upto[k]) = Cardinality(below[k]) + 1 /\ Cardinality(below[k]) \in Nat
    BY <2>1, FS_AddElement, FS_CardinalityType
  <2> QED BY <2>2
<1>4. \A k \in S : below[k] \subseteq S /\ k \notin below[k] /\ rank[k] = 1 + Cardinality(below[k])
  BY <1>1, <1>3
<1>5. \A j, k \in S : j \in below[k] => below[j] \subseteq below[k]
  BY <1>2, <1>4
<1>6. \A j, k \in S : j # k => j \in below[k] \/ k \in below[j]
  BY <1>2
<1>7. /\ Cardinality(S) \in Nat
      /\ \A k \in S : rank[k] \in 1 .. Cardinality(S)
      /\ \A j, k \in S : j \in below[k] => rank[j] < rank[k]
      /\ \A j, k \in S : rank[j] = rank[k] => j = k
      /\ \A n \in 1 .. Cardinality(S) : \E k \in S : rank[k] = n
  BY <1>4, <1>5, <1>6, StrictRanks
<1> QED BY <1>2, <1>7

\* The places in the press order of the keys that are of other channels.
Others(keys, channel) == {k \in DOMAIN keys : ~ SameChannel(channel, keys[k])}

\* The keys of the other channels, counted and in their order.
LEMMA OtherKeysCount ==
    ASSUME NEW keys \in Seq(NoteIdentities), NEW channel \in Channels
    PROVE  LET others == OtherKeys(keys, channel)
           IN  /\ others \in Seq(NoteIdentities)
               /\ \A n \in DOMAIN others : \E k \in DOMAIN keys : others[n] = keys[k]
               /\ \A x : CountKeys(others, x) = IF SameChannel(channel, x) THEN 0 ELSE CountKeys(keys, x)
               /\ Len(others) = Cardinality(Others(keys, channel))
               /\ \A k \in Others(keys, channel) :
                     others[Cardinality({j \in Others(keys, channel) : j <= k})] = keys[k]
<1> DEFINE others == {k \in DOMAIN keys : ~ SameChannel(channel, keys[k])}
           Nth(n) == CHOOSE k \in others : Cardinality({j \in others : j <= k}) = n
           s == OtherKeys(keys, channel)
           rank == [k \in others |-> Cardinality({j \in others : j <= k})]
           o == [k \in others |-> k]
           upto == [k \in others |-> {j \in others : j <= k}]
           N == Cardinality(others)
<1>1. s = [n \in 1 .. N |-> keys[Nth(n)]]
  BY DEF OtherKeys
<1>2. /\ Len(keys) \in Nat /\ DOMAIN keys = 1 .. Len(keys) /\ IsFiniteSet(DOMAIN keys)
      /\ \A k \in DOMAIN keys : keys[k] \in NoteIdentities /\ Identity(keys[k]) = keys[k]
  BY LenProperties, FS_Interval, IdentitiesAre
<1>3. others \subseteq DOMAIN keys /\ \A k \in others : k \in Int
  BY <1>2
<1>4. /\ \A k \in DOMAIN keys : k \in others <=> ~ SameChannel(channel, keys[k])
      /\ others = Others(keys, channel)
  BY DEF Others
<1>5. \A n : Nth(n) = CHOOSE k \in others : rank[k] = n
  <2> HIDE DEF others
  <2> QED OBVIOUS
<1> HIDE DEF others, s
<1>6. IsFiniteSet(others)
  BY <1>2, <1>3, FS_Subset
<1>7. /\ \A k \in others : o[k] = k /\ upto[k] = {j \in others : j <= k}
      /\ \A k \in others : upto[k] \subseteq others /\ rank[k] = Cardinality(upto[k])
  OBVIOUS
<1> HIDE DEF o, rank, upto
<1>8. /\ N \in Nat /\ \A k \in others : rank[k] \in 1 .. N
      /\ \A j, k \in others : rank[j] = rank[k] => j = k
      /\ \A n \in 1 .. N : \E k \in others : rank[k] = n
  <2>1. /\ \A k \in others : o[k] \in Int
        /\ \A j, k \in others : o[j] = o[k] => j = k
        /\ \A j, k \in others : j \in upto[k] <=> o[j] <= o[k]
    BY <1>3, <1>7
  <2> QED BY <1>6, <1>7, <2>1, IntegerRanks DEF N
<1> HIDE DEF N, Nth
<1>9. \A n \in 1 .. N : Nth(n) \in others /\ rank[Nth(n)] = n
  BY <1>5, <1>8
<1>10. \A k \in others : rank[k] \in 1 .. N /\ Nth(rank[k]) = k
  BY <1>8, <1>9
<1>11. s \in [1 .. N -> NoteIdentities] /\ \A n \in 1 .. N : s[n] = keys[Nth(n)]
  BY <1>1, <1>2, <1>3, <1>9
<1>12. s \in Seq(NoteIdentities) /\ DOMAIN s = 1 .. N
  BY <1>8, <1>11, SeqDef
<1>13. \A n \in DOMAIN s : \E k \in DOMAIN keys : s[n] = keys[k]
  BY <1>3, <1>9, <1>11, <1>12
<1>14. ASSUME NEW x PROVE CountKeys(s, x) = IF SameChannel(channel, x) THEN 0 ELSE CountKeys(keys, x)
  <2>1. \A n \in DOMAIN s : Identity(s[n]) = keys[Nth(n)] /\ Nth(n) \in DOMAIN keys
                            /\ ~ SameChannel(channel, keys[Nth(n)])
    BY <1>2, <1>3, <1>4, <1>9, <1>11, <1>12
  <2>2. CASE SameChannel(channel, x)
    <3>1. \A n \in DOMAIN s : Identity(s[n]) # x
      BY <2>1, <2>2
    <3> QED BY <1>12, <2>2, <3>1, CountType
  <2>3. CASE ~ SameChannel(channel, x)
    <3> DEFINE A == {k \in DOMAIN keys : Identity(keys[k]) = x}
               B == {n \in DOMAIN s : Identity(s[n]) = x}
               f == [k \in A |-> rank[k]]
    <3>1. A \subseteq others /\ IsFiniteSet(A)
      BY <1>2, <1>4, <2>3, CountType
    <3>2. \A k \in A : rank[k] \in B
      BY <1>2, <1>10, <1>12, <2>1, <3>1
    <3>3. \A n \in B : Nth(n) \in A /\ rank[Nth(n)] = n
      BY <1>2, <1>9, <1>12, <2>1
    <3>4. CountKeys(s, x) = Cardinality(B) /\ CountKeys(keys, x) = Cardinality(A)
      BY DEF CountKeys
    <3> HIDE DEF A, B
    <3>5. f \in [A -> B] /\ (\A i, j \in A : f[i] = f[j] => i = j) /\ (\A j \in B : \E i \in A : f[i] = j)
      BY <1>8, <3>1, <3>2, <3>3
    <3> HIDE DEF f
    <3>6. Cardinality(A) = Cardinality(B)
      BY <3>1, <3>5, Matched
    <3> QED BY <2>3, <3>4, <3>6
  <2> QED BY <2>2, <2>3
<1>15. /\ Len(s) = Cardinality(others)
       /\ \A k \in others : s[Cardinality({j \in others : j <= k})] = keys[k]
  <2>1. Len(s) = N
    BY <1>8, <1>11, LenProperties
  <2>2. \A k \in others : rank[k] = Cardinality({j \in others : j <= k})
    BY <1>7
  <2> QED BY <1>10, <1>11, <2>1, <2>2 DEF N
<1> QED BY <1>4, <1>12, <1>13, <1>14, <1>15 DEF s

\* The keys of a channel are gone on one side.
LEMMA KeyCountChannel ==
    ASSUME NEW D, IsFiniteSet(D), NEW f, NEW g, NEW channel,
           \A i \in D : (g[i].keyDown <=> f[i].keyDown /\ ~ SameChannel(channel, f[i]))
                        /\ (g[i].keyDown => Identity(g[i]) = Identity(f[i])),
           NEW x
    PROVE  KeyCount(g, D, x) = IF SameChannel(channel, x) THEN 0 ELSE KeyCount(f, D, x)
<1>1. \A v : Identity(v) = x => (SameChannel(channel, x) <=> SameChannel(channel, v))
  BY DEF Identity, SameChannel
<1>2. CASE SameChannel(channel, x)
  <2>1. \A i \in D : g[i].keyDown => Identity(g[i]) # x
    BY <1>1, <1>2
  <2> QED BY <1>2, <2>1, KeyCountType
<1>3. CASE ~ SameChannel(channel, x)
  <2>1. {i \in D : g[i].keyDown /\ Identity(g[i]) = x} = {i \in D : f[i].keyDown /\ Identity(f[i]) = x}
    BY <1>1, <1>3
  <2> QED BY <1>3, <2>1 DEF KeyCount
<1> QED BY <1>2, <1>3

\* The places of the keys in a stack are the numbers up to how many there are.
LEMMA Places ==
    ASSUME NEW held, PlainHeld(held), Ranked(held)
    PROVE  /\ IsFiniteSet(KeyEntries(held)) /\ Cardinality(KeyEntries(held)) \in Nat
           /\ \A k \in KeyEntries(held) : /\ held[k].order \in Int
                                          /\ Place(held, k) \in 1 .. Cardinality(KeyEntries(held))
           /\ \A j, k \in KeyEntries(held) : held[j].order < held[k].order => Place(held, j) < Place(held, k)
           /\ \A j, k \in KeyEntries(held) : held[j].order = held[k].order => j = k
           /\ \A n \in 1 .. Cardinality(KeyEntries(held)) : \E k \in KeyEntries(held) : Place(held, k) = n
<1>1. PICK K : K = KeyEntries(held)
  OBVIOUS
<1>2. K \in SUBSET Entries /\ \A k \in K : held[k].keyDown
  BY <1>1 DEF KeyEntries
<1>3. IsFiniteSet(K) /\ Cardinality(K) \in Nat
  BY <1>2, EntriesFinite
<1>4. \A k \in K : held[k].order \in Int /\ held[k].isActive
  BY <1>2, HeldFields
<1>5. \A j, k \in K : held[j].order = held[k].order => j = k
  BY <1>2, <1>4 DEF Ranked
<1>6. PICK o : o = [k \in K |-> held[k].order]
  OBVIOUS
<1>7. PICK upto : upto = [k \in K |-> {j \in K : held[j].order <= held[k].order}]
  OBVIOUS
<1>8. PICK rank : rank = [k \in K |-> Place(held, k)]
  OBVIOUS
<1>9. \A k \in K : o[k] \in Int
  BY <1>4, <1>6
<1>10. \A j, k \in K : o[j] = o[k] => j = k
  BY <1>5, <1>6
<1>11. \A k \in K : upto[k] \subseteq K /\ rank[k] = Cardinality(upto[k])
  BY <1>1, <1>7, <1>8 DEF Place
<1>12. \A j, k \in K : j \in upto[k] <=> o[j] <= o[k]
  BY <1>6, <1>7
<1>13. /\ \A k \in K : rank[k] \in 1 .. Cardinality(K)
       /\ \A j, k \in K : o[j] < o[k] => rank[j] < rank[k]
       /\ \A n \in 1 .. Cardinality(K) : \E k \in K : rank[k] = n
  BY <1>3, <1>9, <1>10, <1>11, <1>12, IntegerRanks
<1> QED BY <1>1, <1>3, <1>4, <1>5, <1>6, <1>8, <1>13


-----------------------------------------------------------------------------
(* Cleaning up.                                                            *)

\* A pool in Poly that sounds the same.
LEMMA SamePoolStep ==
    ASSUME NEW e, NEW s, NEW t, Fit(e, s, t), e.mode = "poly", NEW q, PlainPool(q), PoolUnder(q, s, t),
           \A i \in Slots : Holds(q.slot[i]) <=> Holds(e.pool.slot[i])
    PROVE  LET r == [e EXCEPT !.pool = q] IN Fit(r, s, t) /\ r.mode = e.mode /\ r.pool = q /\ r.held = e.held
<1> DEFINE r == [e EXCEPT !.pool = q]
<1>1. /\ e \in Engines /\ OneAuthority(e) /\ PlainHeld(e.held) /\ Ranked(e.held) /\ q \in Pools
      /\ GatesAgree(e) /\ HeldUnder(e.held, s, t) /\ e.sustain \subseteq s /\ e.sostenuto \subseteq t
  BY DEF Fit, Sane, PlainPool, PedalsKnown
<1>2. /\ r \in Engines /\ r.pool = q /\ r.mode = e.mode /\ r.unison = e.unison
      /\ r.held = e.held /\ r.voice = e.voice /\ r.sustain = e.sustain /\ r.sostenuto = e.sostenuto
      /\ r.gate = e.gate /\ r.restart = e.restart /\ r.early = e.early /\ r.cut = e.cut
  BY <1>1, OtherPool
<1> HIDE DEF r
<1>3. OwnersOf(r) = OwnersOf(e)
  BY <1>2 DEF OwnersOf
<1>4. GatesAgree(r)
  BY <1>1, <1>2, <1>3, SameChipsAgree DEF GatesAgree
<1>5. Sane(r)
  BY <1>1, <1>2 DEF Sane, OneAuthority
<1> QED BY <1>1, <1>2, <1>4, <1>5 DEF Fit, PedalsKnown, r

\* A block is rendered: the voices age and tails end.
LEMMA Rendered == ASSUME IInv, RenderSlice PROVE IInv'
<1>1. /\ Fit(engine, player.sustain, player.sostenuto) /\ player \in Players
      /\ engine.mode = "poly" /\ UNCHANGED history
      /\ player'.sustain = player.sustain /\ player'.sostenuto = player.sostenuto
      /\ player'.keys = player.keys /\ player'.arp = player.arp /\ player' \in Players
  BY DEF IInv, RenderSlice
<1>2. PICK silent \in SUBSET Finished(engine) :
          engine' = [engine EXCEPT !.pool = ReleaseFinished(UpdateVoiceAges(@), silent)]
  BY DEF RenderSlice
<1>3. PICK p : p = UpdateVoiceAges(engine.pool)
  OBVIOUS
<1>4. PICK q : q = ReleaseFinished(p, silent)
  OBVIOUS
<1>5. engine' = [engine EXCEPT !.pool = q]
  BY <1>2, <1>3, <1>4
<1>6. PlainPool(engine.pool) /\ PoolUnder(engine.pool, player.sustain, player.sostenuto)
  BY <1>1 DEF Fit, Sane, PedalsKnown
<1>7. /\ PlainPool(p) /\ KeysStay(engine.pool.slot, p.slot, Slots)
      /\ p.sustain = engine.pool.sustain /\ p.sostenuto = engine.pool.sostenuto
      /\ \A i \in Slots : /\ (Holds(p.slot[i]) <=> Holds(engine.pool.slot[i]))
                          /\ (Released(p.slot[i]) <=> Released(engine.pool.slot[i]))
                          /\ p.slot[i].isActive = engine.pool.slot[i].isActive
                          /\ p.slot[i].keyDown = engine.pool.slot[i].keyDown
                          /\ p.slot[i].channel = engine.pool.slot[i].channel
                          /\ p.slot[i].isSustained = engine.pool.slot[i].isSustained
                          /\ p.slot[i].isSostenuto = engine.pool.slot[i].isSostenuto
  BY <1>3, <1>6, AgesPool
<1>8. silent \in SUBSET Slots /\ \A i \in silent : Released(p.slot[i])
  BY <1>2, <1>7 DEF Finished
<1>9. /\ PlainPool(q) /\ KeysStay(p.slot, q.slot, Slots)
      /\ q.sustain = p.sustain /\ q.sostenuto = p.sostenuto
      /\ \A i \in Slots : (Holds(q.slot[i]) <=> Holds(p.slot[i])) /\ q.slot[i] \in {p.slot[i], Free}
  BY <1>4, <1>7, <1>8, TailsPool
<1>10. PoolUnder(p, player.sustain, player.sostenuto)
  BY <1>6, <1>7 DEF PoolUnder, UnderPedals, Under
<1>11. PoolUnder(q, player.sustain, player.sostenuto)
  BY <1>9, <1>10, Blanks DEF PoolUnder, UnderPedals
<1>12. KeysStay(engine.pool.slot, q.slot, Slots)
  BY <1>7, <1>9 DEF KeysStay
<1>13. PICK r : r = [engine EXCEPT !.pool = q]
  OBVIOUS
<1>14. /\ Fit(r, player.sustain, player.sostenuto) /\ r.mode = engine.mode /\ r.pool = q
       /\ r.held = engine.held
  <2>1. \A i \in Slots : Holds(q.slot[i]) <=> Holds(engine.pool.slot[i])
    BY <1>7, <1>9
  <2> QED BY <1>1, <1>9, <1>11, <1>13, <2>1, SamePoolStep
<1>15. Continues(engine, r)
  BY <1>1, <1>12, <1>14, PoolContinues
<1> QED BY <1>1, <1>5, <1>13, <1>14, <1>15, Stays

\* What a key of the engine is, the player pressed, and the other way round.
LEMMA KeyIsPlayed ==
    ASSUME NEW e, Sane(e), NEW keys \in Seq(NoteIdentities), KeysMatch(e, keys)
    PROVE  /\ e.mode = "poly" => \A i \in Slots : e.pool.slot[i].keyDown =>
                  \E k \in DOMAIN keys : keys[k] = Identity(e.pool.slot[i])
           /\ e.mode = "poly" => \A k \in DOMAIN keys : \E i \in Slots :
                  e.pool.slot[i].keyDown /\ Identity(e.pool.slot[i]) = keys[k]
           /\ e.mode # "poly" => \A i \in Entries : e.held[i].keyDown =>
                  \E k \in DOMAIN keys : keys[k] = Identity(e.held[i])
           /\ e.mode # "poly" => \A k \in DOMAIN keys : \E i \in Entries :
                  e.held[i].keyDown /\ Identity(e.held[i]) = keys[k]
<1>1. ASSUME NEW D, IsFiniteSet(D), NEW f, \A i \in D : f[i].keyDown => Identity(f[i]) \in NoteIdentities,
             \A x \in NoteIdentities : KeyCount(f, D, x) = CountKeys(keys, x)
      PROVE  /\ \A i \in D : f[i].keyDown => \E k \in DOMAIN keys : keys[k] = Identity(f[i])
             /\ \A k \in DOMAIN keys : \E i \in D : f[i].keyDown /\ Identity(f[i]) = keys[k]
  <2>1. ASSUME NEW i \in D, f[i].keyDown PROVE \E k \in DOMAIN keys : keys[k] = Identity(f[i])
    <3>1. Identity(f[i]) \in NoteIdentities
      BY <1>1, <2>1
    <3>2. KeyCount(f, D, Identity(f[i])) # 0
      BY <1>1, <2>1, KeyCountType
    <3>3. CountKeys(keys, Identity(f[i])) # 0
      BY <1>1, <3>1, <3>2
    <3>4. CountKeys(keys, Identity(f[i])) = 0 <=> \A k \in DOMAIN keys : Identity(keys[k]) # Identity(f[i])
      BY CountType
    <3>5. PICK k \in DOMAIN keys : Identity(keys[k]) = Identity(f[i])
      BY <3>3, <3>4
    <3>6. Identity(keys[k]) = keys[k]
      BY IdentitiesAre
    <3> QED BY <3>5, <3>6
  <2>2. ASSUME NEW k \in DOMAIN keys PROVE \E i \in D : f[i].keyDown /\ Identity(f[i]) = keys[k]
    <3>1. keys[k] \in NoteIdentities /\ Identity(keys[k]) = keys[k]
      BY IdentitiesAre
    <3>2. CountKeys(keys, keys[k]) # 0
      BY <3>1, CountType
    <3>3. KeyCount(f, D, keys[k]) # 0
      BY <1>1, <3>1, <3>2
    <3>4. KeyCount(f, D, keys[k]) = 0 <=> \A i \in D : f[i].keyDown => Identity(f[i]) # keys[k]
      BY <1>1, KeyCountType
    <3> QED BY <3>3, <3>4
  <2> QED BY <2>1, <2>2
<1>2. CASE e.mode = "poly"
  <2>1. \A x \in NoteIdentities : KeyCount(e.pool.slot, Slots, x) = CountKeys(keys, x)
    BY <1>2 DEF KeysMatch, KeyDown, KeyCount
  <2>2. \A i \in Slots : e.pool.slot[i].keyDown => Identity(e.pool.slot[i]) \in NoteIdentities
    BY PlainFields DEF Sane
  <2>3. PICK f : f = e.pool.slot
    OBVIOUS
  <2>4. /\ \A i \in Slots : f[i].keyDown => \E k \in DOMAIN keys : keys[k] = Identity(f[i])
        /\ \A k \in DOMAIN keys : \E i \in Slots : f[i].keyDown /\ Identity(f[i]) = keys[k]
    <3>1. /\ \A i \in Slots : f[i].keyDown => Identity(f[i]) \in NoteIdentities
          /\ \A x \in NoteIdentities : KeyCount(f, Slots, x) = CountKeys(keys, x)
          /\ IsFiniteSet(Slots)
      BY <2>1, <2>2, <2>3, SlotsFinite
    <3> QED BY <1>1, <3>1
  <2> QED BY <1>2, <2>3, <2>4
<1>3. CASE e.mode # "poly"
  <2>1. \A x \in NoteIdentities : KeyCount(e.held, Entries, x) = CountKeys(keys, x)
    BY <1>3 DEF KeysMatch, KeyDown, KeyCount
  <2>2. \A i \in Entries : e.held[i].keyDown => Identity(e.held[i]) \in NoteIdentities
    BY HeldFields DEF Sane
  <2>3. PICK f : f = e.held
    OBVIOUS
  <2>4. /\ \A i \in Entries : f[i].keyDown => \E k \in DOMAIN keys : keys[k] = Identity(f[i])
        /\ \A k \in DOMAIN keys : \E i \in Entries : f[i].keyDown /\ Identity(f[i]) = keys[k]
    <3>1. /\ \A i \in Entries : f[i].keyDown => Identity(f[i]) \in NoteIdentities
          /\ \A x \in NoteIdentities : KeyCount(f, Entries, x) = CountKeys(keys, x)
          /\ IsFiniteSet(Entries)
      BY <2>1, <2>2, <2>3, EntriesFinite
    <3> QED BY <1>1, <3>1
  <2> QED BY <1>3, <2>3, <2>4
<1> QED BY <1>2, <1>3

\* The cleanup pass finds no key that the player holds down.
LEMMA Reconciled == ASSUME IInv, Reconcile PROVE IInv'
<1>1. /\ Fit(engine, player.sustain, player.sostenuto) /\ player \in Players
      /\ Remember(FALSE, FALSE)
      /\ player'.sustain = player.sustain /\ player'.sostenuto = player.sostenuto
      /\ player'.keys = player.keys /\ player'.arp = player.arp /\ player' \in Players
      /\ (history # "notes" => KeysMatch(engine, player.keys)) /\ KeysOfPlayer
  BY DEF IInv, Reconcile
<1>2. /\ PlainPool(engine.pool) /\ PoolUnder(engine.pool, player.sustain, player.sostenuto)
      /\ Sane(engine) /\ engine \in Engines /\ player.keys \in Seq(NoteIdentities)
  BY <1>1 DEF Fit, Sane, PedalsKnown, Players
<1>3. CASE engine.mode = "poly"
  <2> DEFINE keys == {<<player.keys[k].channel, player.keys[k].note>> : k \in DOMAIN player.keys}
             Held == IF player.arp THEN Channels \X Notes ELSE keys
             p == engine.pool
  <2>1. PICK q : q = ReconcileUnheldVoices(p, Held, player.sustain \cup player.sostenuto)
    OBVIOUS
  <2>2. engine' = WithPool(engine, q)
    BY <1>3, <2>1 DEF Reconcile
  <2>9. ASSUME history # "notes", NEW i \in Slots, p.slot[i].keyDown, p.slot[i].channel # AnyChannel
        PROVE  <<p.slot[i].channel, p.slot[i].note>> \in Held
    <3>1. PICK k \in DOMAIN player.keys : player.keys[k] = Identity(p.slot[i])
      BY <1>1, <1>2, <1>3, <2>9, KeyIsPlayed
    <3>2. player.keys[k].channel = p.slot[i].channel /\ player.keys[k].note = p.slot[i].note
      BY <3>1 DEF Identity
    <3>3. CASE player.arp
      <4>1. player.keys[k].channel = AnyChannel
        BY <1>1, <3>3 DEF KeysOfPlayer
      <4> QED BY <2>9, <3>2, <4>1
    <3>4. CASE ~ player.arp
      BY <3>2, <3>4
    <3> QED BY <3>3, <3>4
  <2> HIDE DEF Held
  <2>3. /\ PlainPool(q) /\ NoneStarts(p, q) /\ q.sustain = p.sustain /\ q.sostenuto = p.sostenuto
        /\ \A i \in Slots : q.slot[i] = p.slot[i] \/ (/\ p.slot[i].keyDown
                                                      /\ p.slot[i].channel # AnyChannel
                                                      /\ <<p.slot[i].channel, p.slot[i].note>> \notin Held
                                                      /\ ~ Holds(q.slot[i]))
    BY <1>2, <2>1, ReconcilePool
  <2>4. PoolUnder(q, player.sustain, player.sostenuto)
    BY <1>2, <2>3 DEF PoolUnder, UnderPedals, Holds, Pedalled
  <2>5. history # "notes" => KeysStay(p.slot, q.slot, Slots)
    BY <2>3, <2>9 DEF KeysStay
  <2>6. PICK r : r = WithPool(engine, q)
    OBVIOUS
  <2>7. /\ Fit(r, player.sustain, player.sostenuto) /\ r.mode = engine.mode /\ r.pool = q
        /\ r.held = engine.held
    BY <1>1, <1>3, <2>3, <2>4, <2>6, PoolStep
  <2>8. history # "notes" => Continues(engine, r)
    BY <1>3, <2>5, <2>7, PoolContinues
  <2> QED BY <1>1, <2>2, <2>6, <2>7, <2>8, Stays
<1>4. CASE engine.mode # "poly"
  <2>1. PICK r : r = engine'
    OBVIOUS
  <2>2. r = [engine EXCEPT !.pool.orphans = {}]
    BY <1>4, <2>1 DEF Reconcile
  <2>3. engine.pool \in Pools
    BY <1>2 DEF PlainPool
  <2>4. /\ r \in Engines /\ r.mode = engine.mode /\ r.unison = engine.unison
        /\ r.held = engine.held /\ r.voice = engine.voice /\ r.sustain = engine.sustain
        /\ r.sostenuto = engine.sostenuto /\ r.gate = engine.gate /\ r.restart = engine.restart
        /\ r.early = engine.early /\ r.cut = engine.cut
        /\ r.pool.slot = engine.pool.slot /\ r.pool.sustain = engine.pool.sustain
        /\ r.pool.sostenuto = engine.pool.sostenuto /\ r.pool \in Pools
    BY <1>2, <2>2, <2>3 DEF Engines, Pools
  <2>5. OwnersOf(r) = OwnersOf(engine)
    BY <2>4 DEF OwnersOf
  <2>6. GatesAgree(r)
    BY <1>1, <2>4, <2>5, SameChipsAgree DEF GatesAgree, Fit
  <2>7. Sane(r)
    BY <1>2, <2>4 DEF Sane, OneAuthority, CutSilent, PlainPool
  <2>8. PedalsKnown(r, player.sustain, player.sostenuto) /\ Ranked(r.held)
    BY <1>1, <2>4 DEF Fit, PedalsKnown, PoolUnder
  <2>9. Continues(engine, r)
    BY <2>4 DEF Continues, KeysStay, AgesStay, PlaysTop
  <2> QED BY <1>1, <2>1, <2>6, <2>7, <2>8, <2>9, Stays DEF Fit
<1> QED BY <1>3, <1>4

\* Everything is off: nothing sounds and no key is down.
LEMMA AllOff == ASSUME IInv, AllNotesOff PROVE IInv'
<1>1. /\ Fit(engine, player.sustain, player.sostenuto) /\ player \in Players /\ KeysOfPlayer
      /\ player'.sustain = player.sustain /\ player'.sostenuto = player.sostenuto
      /\ player'.keys = <<>> /\ player'.arp = player.arp /\ Remember(FALSE, FALSE)
      /\ history \in Histories
  BY DEF IInv, AllNotesOff, Players
<1>2. player' \in Players
  BY <1>1, EmptySeq DEF AllNotesOff, Players
<1>3. KeysOfPlayer'
  BY <1>1 DEF KeysOfPlayer
<1>4. /\ engine \in Engines /\ engine.pool \in Pools /\ OneAuthority(engine)
      /\ PoolUnder(engine.pool, player.sustain, player.sostenuto)
  BY <1>1 DEF Fit, Sane, PlainPool, PedalsKnown
<1> DEFINE voice == [i \in Slots |-> Silent]
           slot == [i \in Slots |-> Free]
           a == [engine EXCEPT !.pool.slot = slot, !.pool.orphans = {}, !.held = NoHeld, !.voice = voice,
                               !.sustain = {}, !.sostenuto = {}, !.cut = {}]
<1>5. engine' = GateOff(a, Slots)
  BY DEF AllNotesOff
<1>6. /\ voice \in [Slots -> NoteIdentities \cup {Silent}] /\ \A i \in Slots : voice[i] = Silent
      /\ slot \in [Slots -> VoiceStates] /\ \A i \in Slots : slot[i] = Free
      /\ NoHeld \in [Entries -> HeldEntries] /\ \A k \in Entries : NoHeld[k] = NoEntry
  BY Blanks DEF NoHeld
<1> HIDE DEF voice, slot
<1>7. /\ a \in Engines /\ a.mode = engine.mode /\ a.unison = engine.unison
      /\ a.held = NoHeld /\ a.voice = voice /\ a.sustain = {}
      /\ a.sostenuto = {} /\ a.gate = engine.gate /\ a.restart = engine.restart
      /\ a.early = engine.early /\ a.cut = {}
      /\ a.pool.slot = slot /\ a.pool.sustain = engine.pool.sustain
      /\ a.pool.sostenuto = engine.pool.sostenuto /\ a.pool \in Pools
  BY <1>4, <1>6 DEF Engines, Pools
<1> HIDE DEF a
<1>8. PICK r : r = GateOff(a, Slots)
  OBVIOUS
<1>9. /\ r \in Engines /\ SameNotes(r, a) /\ r.gate = {} /\ r.restart = a.restart
      /\ r.restart \subseteq r.early /\ r.cut = {}
  <2>1. r \in Engines /\ SameNotes(r, a) /\ r.cut = {}
    BY <1>7, <1>8, GateOffChips
  <2>2. a.gate \subseteq Slots /\ a.restart \subseteq Slots
    BY <1>7, EngineFields
  <2>3. r.gate = {} /\ r.restart = a.restart /\ r.restart \subseteq r.early
    BY <1>7, <1>8, <2>2 DEF GateOff, Engines
  <2> QED BY <2>1, <2>3
<1>10. OwnersOf(r) = {}
  BY <1>6, <1>7, <1>9, Blanks DEF OwnersOf, SameNotes
<1>11. GatesAgree(r)
  BY <1>9, <1>10 DEF GatesAgree, Agree
<1>12. Sane(r)
  BY <1>4, <1>6, <1>7, <1>9, Blanks DEF Sane, SameNotes, PlainPool, PlainHeld, OneAuthority, CutSilent
<1>13. Ranked(r.held) /\ PedalsKnown(r, player.sustain, player.sostenuto)
  <2>1. r.held = NoHeld /\ r.pool = a.pool /\ r.sustain = {} /\ r.sostenuto = {}
    BY <1>7, <1>9 DEF SameNotes
  <2>2. PoolUnder(a.pool, player.sustain, player.sostenuto)
    BY <1>4, <1>6, <1>7, Blanks DEF PoolUnder, UnderPedals
  <2>3. HeldUnder(NoHeld, player.sustain, player.sostenuto) /\ Ranked(NoHeld)
    BY <1>6, Blanks DEF HeldUnder, UnderPedals, Ranked
  <2> QED BY <2>1, <2>2, <2>3 DEF PedalsKnown
<1>14. ASSUME NEW x PROVE KeyDown(r, x) = 0
  <2>1. r.held = NoHeld /\ r.pool.slot = slot
    BY <1>7, <1>9 DEF SameNotes
  <2>2. {k \in Entries : NoHeld[k].keyDown /\ Identity(NoHeld[k]) = x} = {}
        /\ {i \in Slots : slot[i].keyDown /\ Identity(slot[i]) = x} = {}
    BY <1>6, Blanks
  <2> QED BY <2>1, <2>2, FS_EmptySet DEF KeyDown
<1>15. Rest(engine', player'.keys)
  BY <1>1, <1>5, <1>8, <1>14 DEF Rest
<1>16. history' \in Histories
  BY <1>1 DEF Remember, Histories
<1> QED BY <1>1, <1>2, <1>3, <1>5, <1>8, <1>11, <1>12, <1>13, <1>15, <1>16, Closes DEF Fit

\* What is left of the forced plane: a chip of the channel is cut if anything should sound.
ChannelGone(e, r, channel) ==
    /\ \A k \in Entries : r.held[k] = IF e.held[k].isActive /\ SameChannel(channel, e.held[k])
                                      THEN NoEntry ELSE e.held[k]
    /\ \A i \in Slots : r.voice[i] = IF SameChannel(channel, e.voice[i]) THEN Silent ELSE e.voice[i]
    /\ \A i \in Slots : i \in r.cut <=> \/ i \in e.cut
                                        \/ /\ SameChannel(channel, e.voice[i]) /\ e.voice[i] # Silent
                                           /\ SoundingEntries(r.held) # {}

\* The notes of a channel go: in Poly the gates of the other channels' voices go with them.
LEMMA ChannelOff ==
    ASSUME NEW e, NEW s, NEW t, Fit(e, s, t), NEW channel \in Channels
    PROVE  LET r == AllNotesOffChannelEngine(e, channel)
           IN  /\ Fit(r, s, t) /\ r.mode = e.mode
               /\ \A x : KeyDown(r, x) = IF SameChannel(channel, x) THEN 0 ELSE KeyDown(e, x)
               /\ e.mode # "poly" => ChannelGone(e, r, channel)
<1> DEFINE mine == {i \in Slots : e.pool.slot[i].isActive /\ SameChannel(channel, e.pool.slot[i])}
           slots == {i \in Slots : SameChannel(channel, e.voice[i])}
           off == GateOff(e, mine \cup slots)
           pool == AllNotesOffChannel(e.pool, channel)
           held == [k \in Entries |->
                        IF e.held[k].isActive /\ SameChannel(channel, e.held[k]) THEN NoEntry ELSE e.held[k]]
           voice == [i \in Slots |-> IF i \in slots THEN Silent ELSE e.voice[i]]
           lost == {i \in slots \ mine : \/ Holds(e.pool.slot[i])
                                        \/ (e.voice[i] # Silent /\ SoundingEntries(held) # {})}
           cut == (e.cut \cup lost) \ mine
           r == AllNotesOffChannelEngine(e, channel)
<1>1. /\ e \in Engines /\ OneAuthority(e) /\ PlainPool(e.pool) /\ PlainHeld(e.held) /\ Ranked(e.held)
      /\ PoolUnder(e.pool, s, t) /\ HeldUnder(e.held, s, t) /\ e.sustain \subseteq s /\ e.sostenuto \subseteq t
      /\ Agree(e, OwnersOf(e))
  BY DEF Fit, Sane, PedalsKnown, GatesAgree
<1>2. /\ \A i \in Slots : i \in mine <=> e.pool.slot[i].isActive /\ SameChannel(channel, e.pool.slot[i])
      /\ \A i \in Slots : i \in slots <=> SameChannel(channel, e.voice[i])
      /\ \A i \in Slots : i \in lost <=> /\ i \in slots /\ i \notin mine
                                        /\ \/ Holds(e.pool.slot[i])
                                           \/ (e.voice[i] # Silent /\ SoundingEntries(held) # {})
      /\ mine \in SUBSET Slots /\ slots \in SUBSET Slots /\ lost \in SUBSET Slots
      /\ \A k \in Entries : held[k] = IF e.held[k].isActive /\ SameChannel(channel, e.held[k])
                                      THEN NoEntry ELSE e.held[k]
      /\ \A i \in Slots : voice[i] = IF i \in slots THEN Silent ELSE e.voice[i]
      /\ voice \in [Slots -> NoteIdentities \cup {Silent}]
  BY <1>1, EngineFields
<1>3. r = [off EXCEPT !.pool = AllNotesOffChannel(off.pool, channel), !.held = held,
                      !.voice = [i \in Slots |-> IF i \in slots THEN Silent ELSE off.voice[i]],
                      !.sustain = off.sustain \ {channel}, !.sostenuto = off.sostenuto \ {channel},
                      !.cut = (off.cut \cup lost) \ mine]
  BY DEF AllNotesOffChannelEngine
<1>4. /\ PlainPool(pool) /\ pool.sustain = e.pool.sustain /\ pool.sostenuto = e.pool.sostenuto
      /\ \A i \in Slots : pool.slot[i] = IF SameChannel(channel, e.pool.slot[i]) THEN Free ELSE e.pool.slot[i]
  BY <1>1, CleanupPool
<1>5. PlainHeld(held) /\ AgesStay(e.held, held)
  BY <1>1, CleanupHeld
<1>6. PICK n : n = off
  OBVIOUS
<1> HIDE DEF mine, slots, lost
<1>7. /\ n \in Engines /\ SameNotes(n, e) /\ n.cut = e.cut
      /\ n.gate = e.gate \ (mine \cup slots) /\ n.restart = e.restart
      /\ n.early = (e.early \ (mine \cup slots)) \cup ((mine \cup slots) \cap e.restart)
  <2>1. n \in Engines /\ SameNotes(n, e) /\ n.cut = e.cut
    BY <1>1, <1>2, <1>6, GateOffChips
  <2>2. /\ n.gate = e.gate \ (mine \cup slots) /\ n.restart = e.restart
        /\ n.early = (e.early \ (mine \cup slots)) \cup ((mine \cup slots) \cap e.restart)
    BY <1>1, <1>6 DEF GateOff, Engines
  <2> QED BY <2>1, <2>2
<1>8. r = [n EXCEPT !.pool = pool, !.held = held, !.voice = voice, !.sustain = e.sustain \ {channel},
                    !.sostenuto = e.sostenuto \ {channel}, !.cut = cut]
  BY <1>3, <1>6, <1>7 DEF SameNotes
<1> HIDE DEF off, pool, held, voice, r
<1>9. e.cut \in SUBSET Slots /\ e.sustain \in SUBSET Channels /\ e.sostenuto \in SUBSET Channels
  BY <1>1, EngineFields
<1>10. /\ r \in Engines /\ r.mode = e.mode /\ r.unison = e.unison /\ r.pool = pool /\ r.held = held
       /\ r.voice = voice /\ r.sustain = e.sustain \ {channel} /\ r.sostenuto = e.sostenuto \ {channel}
       /\ r.gate = n.gate /\ r.restart = n.restart /\ r.early = n.early /\ r.cut = cut
  <2>1. cut \in SUBSET Slots /\ pool \in Pools /\ held \in [Entries -> HeldEntries]
    BY <1>2, <1>4, <1>5, <1>9 DEF PlainPool, PlainHeld
  <2> HIDE DEF cut
  <2> QED BY <1>2, <1>7, <1>8, <1>9, <2>1 DEF Engines, SameNotes
<1>11. ASSUME e.mode = "poly" PROVE OneAuthority(r) /\ GatesAgree(r)
  <2>1. /\ e.held = NoHeld /\ e.sustain = {} /\ e.sostenuto = {} /\ r.mode = "poly"
        /\ \A i \in Slots : e.voice[i] = Silent
    BY <1>1, <1>10, <1>11 DEF OneAuthority
  <2>2. slots = Slots
    BY <1>2, <2>1, Blanks DEF SameChannel
  <2>3. held = NoHeld
    <3>1. \A k \in Entries : e.held[k] = NoEntry
      BY <2>1 DEF NoHeld
    <3>2. held = [k \in Entries |-> NoEntry]
      BY <3>1 DEF held
    <3> QED BY <3>2 DEF NoHeld
  <2>4. OneAuthority(r)
    BY <1>2, <1>10, <2>1, <2>3 DEF OneAuthority
  <2>5. OwnersOf(r) = {i \in Slots : Holds(e.pool.slot[i]) /\ i \notin mine}
    <3>1. OwnersOf(r) = {i \in Slots : Holds(pool.slot[i])}
      BY <1>10, <2>1 DEF OwnersOf
    <3>2. \A i \in Slots : Holds(pool.slot[i]) <=> Holds(e.pool.slot[i]) /\ i \notin mine
      BY <1>2, <1>4, Blanks DEF Holds
    <3> QED BY <3>1, <3>2
  <2>6. GatesAgree(r)
    <3>1. r.gate = {} /\ r.restart \subseteq r.early
      <4>1. e.gate \subseteq Slots /\ e.restart \subseteq Slots
        BY <1>1, EngineFields
      <4> QED BY <1>7, <1>10, <2>2, <4>1
    <3>2. OwnersOf(r) \subseteq r.cut
      BY <1>2, <1>10, <2>2, <2>5
    <3> QED BY <3>1, <3>2 DEF GatesAgree, Agree
  <2> QED BY <2>4, <2>6
<1>12. ASSUME e.mode # "poly" PROVE OneAuthority(r) /\ GatesAgree(r) /\ ChannelGone(e, r, channel)
  <2>1. /\ e.pool.sustain = {} /\ e.pool.sostenuto = {}
        /\ r.mode # "poly" /\ (e.mode = "unison" => e.unison \in UnisonCounts)
        /\ \A i \in Slots : e.pool.slot[i] = Free
    BY <1>1, <1>10, <1>12 DEF OneAuthority
  <2>2. /\ mine = {} /\ r.cut = e.cut \cup lost /\ lost \subseteq slots
        /\ \A i \in Slots : i \in lost <=> /\ SameChannel(channel, e.voice[i]) /\ e.voice[i] # Silent
                                          /\ SoundingEntries(held) # {}
    BY <1>2, <1>10, <2>1, Blanks
  <2>3. OneAuthority(r)
    <3>1. CutSilent(r)
      BY <1>1, <1>2, <1>9, <1>10, <1>12, <2>2 DEF OneAuthority, CutSilent
    <3> QED BY <1>4, <1>10, <2>1, <3>1 DEF OneAuthority
  <2>4. OwnersOf(e) = {i \in Slots : e.voice[i] # Silent} /\ OwnersOf(r) = {i \in Slots : voice[i] # Silent}
    BY <1>10, <1>12, <2>1 DEF OwnersOf
  <2>5. OwnersOf(r) = OwnersOf(e) \ slots
    BY <1>2, <2>4
  <2>6. /\ r.gate = e.gate \ slots /\ r.restart = e.restart /\ e.cut \subseteq r.cut
        /\ r.early = (e.early \ slots) \cup (slots \cap e.restart)
    BY <1>7, <1>10, <2>2
  <2>7. GatesAgree(r)
    BY <1>1, <2>5, <2>6 DEF GatesAgree, Agree
  <2>8. ChannelGone(e, r, channel)
    BY <1>2, <1>9, <1>10, <2>2 DEF ChannelGone
  <2> QED BY <2>3, <2>7, <2>8
<1>13. Sane(r) /\ GatesAgree(r) /\ Ranked(r.held)
  BY <1>1, <1>4, <1>5, <1>10, <1>11, <1>12, AgesStayRanked DEF Sane
<1>14. PedalsKnown(r, s, t)
  <2>1. PoolUnder(pool, s, t)
    BY <1>1, <1>4, Blanks DEF PoolUnder, UnderPedals
  <2>2. HeldUnder(held, s, t)
    BY <1>1, <1>2, Blanks DEF HeldUnder, UnderPedals
  <2> QED BY <1>1, <1>10, <2>1, <2>2 DEF PedalsKnown
<1>15. ASSUME NEW x PROVE KeyDown(r, x) = IF SameChannel(channel, x) THEN 0 ELSE KeyDown(e, x)
  <2>1. CASE e.mode = "poly"
    <3>1. PICK f, g : f = e.pool.slot /\ g = pool.slot
      OBVIOUS
    <3>2. \A i \in Slots : (g[i].keyDown <=> f[i].keyDown /\ ~ SameChannel(channel, f[i]))
                           /\ (g[i].keyDown => Identity(g[i]) = Identity(f[i]))
      BY <1>4, <3>1, Blanks
    <3>3. KeyCount(g, Slots, x) = IF SameChannel(channel, x) THEN 0 ELSE KeyCount(f, Slots, x)
      <4>1. IsFiniteSet(Slots)
        BY SlotsFinite
      <4> QED BY <3>2, <4>1, KeyCountChannel
    <3> QED BY <1>10, <2>1, <3>1, <3>3 DEF KeyDown, KeyCount
  <2>2. CASE e.mode # "poly"
    <3>1. PICK f, g : f = e.held /\ g = held
      OBVIOUS
    <3>2. \A i \in Entries : (g[i].keyDown <=> f[i].keyDown /\ ~ SameChannel(channel, f[i]))
                             /\ (g[i].keyDown => Identity(g[i]) = Identity(f[i]))
      BY <1>1, <1>2, <3>1, HeldFields, Blanks
    <3>3. KeyCount(g, Entries, x) = IF SameChannel(channel, x) THEN 0 ELSE KeyCount(f, Entries, x)
      <4>1. IsFiniteSet(Entries)
        BY EntriesFinite
      <4> QED BY <3>2, <4>1, KeyCountChannel
    <3> QED BY <1>10, <2>2, <3>1, <3>3 DEF KeyDown, KeyCount
  <2> QED BY <2>1, <2>2
<1> QED BY <1>10, <1>12, <1>13, <1>14, <1>15 DEF Fit, r

\* The entries that are left are of the keys that are left, in the same order.
LEMMA OthersInOrder ==
    ASSUME NEW held, PlainHeld(held), Ranked(held), NEW channel \in Channels, NEW q,
           \A k \in Entries : q[k] = IF held[k].isActive /\ SameChannel(channel, held[k])
                                     THEN NoEntry ELSE held[k],
           NEW keys \in Seq(NoteIdentities), InPressOrder(held, keys)
    PROVE  InPressOrder(q, OtherKeys(keys, channel))
<1>1. PICK K : K = KeyEntries(held)
  OBVIOUS
<1>2. PICK L : L = KeyEntries(q)
  OBVIOUS
<1>3. PICK I : I = Others(keys, channel)
  OBVIOUS
<1>4. PICK n \in Nat : n = Len(keys)
  BY LenProperties
<1>5. DOMAIN keys = 1 .. n /\ Cardinality(K) = n /\ \A j \in K : Identity(held[j]) = keys[Place(held, j)]
  BY <1>1, <1>4, LenProperties DEF InPressOrder
<1>6. PICK place : place = [k \in K |-> Place(held, k)]
  OBVIOUS
<1>7. /\ IsFiniteSet(K)
      /\ \A j \in K : held[j].order \in Int /\ place[j] \in 1 .. n
      /\ \A i, j \in K : held[i].order < held[j].order => place[i] < place[j]
      /\ \A i, j \in K : held[i].order = held[j].order => i = j
      /\ \A m \in 1 .. n : \E k \in K : place[k] = m
  BY <1>1, <1>5, <1>6, Places
<1>8. \A i, j \in K : /\ held[i].order <= held[j].order <=> place[i] <= place[j]
                      /\ place[i] = place[j] => i = j
  BY <1>7
<1>9. \A k \in K : /\ Identity(held[k]) = keys[place[k]]
                   /\ SameChannel(channel, held[k]) <=> SameChannel(channel, keys[place[k]])
  <2>1. \A v : SameChannel(channel, Identity(v)) <=> SameChannel(channel, v)
    BY DEF Identity, SameChannel
  <2> QED BY <1>5, <1>6, <2>1
<1>10. /\ L \subseteq K /\ \A k \in K : k \in L <=> ~ SameChannel(channel, held[k])
       /\ \A k \in L : q[k] = held[k]
  BY <1>1, <1>2, HeldFields, Blanks DEF KeyEntries
<1>11. I \subseteq 1 .. n /\ \A m \in 1 .. n : m \in I <=> ~ SameChannel(channel, keys[m])
  BY <1>3, <1>5 DEF Others
<1>12. \A k \in K : place[k] \in I <=> k \in L
  BY <1>7, <1>9, <1>10, <1>11
<1>13. ASSUME NEW A, NEW B, A \subseteq L, B \subseteq I, \A k \in L : k \in A <=> place[k] \in B
       PROVE  Cardinality(A) = Cardinality(B)
  <2> DEFINE f == [k \in A |-> place[k]]
  <2>1. IsFiniteSet(A)
    BY <1>7, <1>10, <1>13, FS_Subset
  <2>2. /\ f \in [A -> B] /\ \A i, j \in A : f[i] = f[j] => i = j
        /\ \A m \in B : \E k \in A : f[k] = m
    BY <1>7, <1>8, <1>10, <1>11, <1>12, <1>13
  <2> HIDE DEF f
  <2> QED BY <2>1, <2>2, Matched
<1>14. Cardinality(L) = Cardinality(I)
  <2>1. \A k \in L : k \in L <=> place[k] \in I
    BY <1>10, <1>12
  <2> QED BY <1>13, <2>1
<1>15. PICK others : others = OtherKeys(keys, channel)
  OBVIOUS
<1>16. /\ Len(others) = Cardinality(I)
       /\ \A m \in I : others[Cardinality({j \in I : j <= m})] = keys[m]
  BY <1>3, <1>15, OtherKeysCount
<1>17. ASSUME NEW k \in L PROVE Identity(q[k]) = others[Place(q, k)]
  <2> DEFINE A == {j \in L : q[j].order <= q[k].order}
             B == {m \in I : m <= place[k]}
  <2>1. k \in K /\ place[k] \in I
    BY <1>10, <1>12, <1>17
  <2>2. \A j \in L : j \in A <=> place[j] \in B
    BY <1>8, <1>10, <1>12, <2>1
  <2>3. A \subseteq L /\ B \subseteq I
    OBVIOUS
  <2>4. Place(q, k) = Cardinality(A) /\ others[Cardinality(B)] = keys[place[k]]
    BY <1>2, <1>16, <2>1 DEF Place
  <2> HIDE DEF A, B
  <2>5. Cardinality(A) = Cardinality(B)
    BY <1>13, <2>2, <2>3
  <2> QED BY <1>9, <1>10, <2>1, <2>4, <2>5
<1> QED BY <1>2, <1>14, <1>15, <1>16, <1>17 DEF InPressOrder

\* What the chip played goes on, or it has been cut.
LEMMA ChannelOrdered ==
    ASSUME NEW e, NEW r, Sane(e), Sane(r), Ranked(e.held), e.mode # "poly", r.mode = e.mode,
           NEW channel \in Channels, ChannelGone(e, r, channel),
           NEW keys \in Seq(NoteIdentities), Ordered(e, keys)
    PROVE  Ordered(r, OtherKeys(keys, channel))
<1>1. /\ e \in Engines /\ PlainHeld(e.held) /\ PlainHeld(r.held) /\ CutSilent(e)
      /\ e.held \in [Entries -> HeldEntries] /\ r.held \in [Entries -> HeldEntries]
  BY EngineFields DEF Sane, OneAuthority, PlainHeld
<1>2. InPressOrder(e.held, keys) /\ (keys # <<>> => PlaysTop(e))
  BY DEF Ordered
<1>3. PICK others : others = OtherKeys(keys, channel)
  OBVIOUS
<1>4. /\ InPressOrder(r.held, others) /\ others \in Seq(NoteIdentities)
      /\ \A n \in DOMAIN others : \E k \in DOMAIN keys : others[n] = keys[k]
  BY <1>1, <1>2, <1>3, OthersInOrder, OtherKeysCount DEF ChannelGone
<1>5. ASSUME others # <<>> PROVE PlaysTop(r)
  <2>1. Len(others) # 0 /\ Len(others) \in Nat /\ DOMAIN others = 1 .. Len(others)
    BY <1>4, <1>5, EmptySeq, LenProperties
  <2>2. SoundingEntries(r.held) # {}
    <3>1. KeyEntries(r.held) # {}
      BY <1>4, <2>1, FS_EmptySet DEF InPressOrder
    <3> QED BY <1>1, <3>1, HeldFields DEF KeyEntries, SoundingEntries
  <2>3. keys # <<>>
    <3>1. 1 \in DOMAIN others
      BY <2>1
    <3>2. PICK k \in DOMAIN keys : TRUE
      BY <1>4, <3>1
    <3> QED BY <3>2, EmptySeq, LenProperties
  <2>4. 1 \in Slots
    BY MaxVoicesAssumption DEF Slots
  <2>5. PICK S, T : S = SoundingEntries(e.held) /\ T = SoundingEntries(r.held)
    OBVIOUS
  <2>6. /\ S \in SUBSET Entries /\ T \in SUBSET S
        /\ \A k \in T : r.held[k] = e.held[k] /\ ~ SameChannel(channel, e.held[k])
        /\ \A k \in S : ~ SameChannel(channel, e.held[k]) => k \in T
    BY <1>1, <2>5, Blanks DEF SoundingEntries, ChannelGone, Holds
  <2>7. S # {}
    BY <2>2, <2>5, <2>6
  <2>8. PICK top : top = Newest(e.held, S)
    OBVIOUS
  <2>9. top \in S /\ \A j \in S : e.held[j].order <= e.held[top].order
    BY <1>1, <2>6, <2>7, <2>8, NewestExists
  <2>10. Identity(e.held[top]) # Silent /\ top \in Entries
    BY <1>1, <2>5, <2>6, <2>9, TopIdentity DEF SoundingEntries
  <2>11. e.voice[1] = IF 1 \in e.cut THEN Silent ELSE Identity(e.held[top])
    BY <1>2, <2>3, <2>5, <2>8 DEF PlaysTop
  <2>12. /\ r.voice[1] = IF SameChannel(channel, e.voice[1]) THEN Silent ELSE e.voice[1]
         /\ 1 \in r.cut <=> 1 \in e.cut \/ (SameChannel(channel, e.voice[1]) /\ e.voice[1] # Silent)
    BY <2>2, <2>4 DEF ChannelGone
  <2>13. CASE 1 \in e.cut
    BY <2>11, <2>12, <2>13 DEF PlaysTop
  <2>14. CASE 1 \notin e.cut /\ SameChannel(channel, e.held[top])
    <3>1. SameChannel(channel, e.voice[1]) /\ e.voice[1] # Silent
      BY <2>10, <2>11, <2>14 DEF SameChannel, Identity
    <3> QED BY <2>12, <3>1 DEF PlaysTop
  <2>15. CASE 1 \notin e.cut /\ ~ SameChannel(channel, e.held[top])
    <3>1. ~ SameChannel(channel, e.voice[1])
      BY <2>11, <2>15 DEF SameChannel, Identity
    <3>2. 1 \notin r.cut /\ r.voice[1] = Identity(e.held[top])
      BY <2>11, <2>12, <2>15, <3>1
    <3>3. top \in T /\ r.held[top] = e.held[top] /\ \A j \in T : r.held[j].order <= r.held[top].order
      BY <2>6, <2>9, <2>15
    <3>4. PICK k : k = Newest(r.held, T)
      OBVIOUS
    <3>5. k \in T /\ \A j \in T : r.held[j].order <= r.held[k].order
      BY <1>1, <2>6, <3>3, <3>4, NewestExists
    <3>6. /\ k \in Entries /\ top \in Entries /\ e.held[k].isActive /\ e.held[top].isActive
          /\ e.held[k].order \in Int /\ e.held[top].order \in Int
          /\ e.held[k].order <= e.held[top].order /\ e.held[top].order <= e.held[k].order
      BY <1>1, <2>5, <2>6, <2>9, <3>3, <3>5, HeldFields DEF SoundingEntries, Holds
    <3>7. k = top
      <4>1. e.held[k].order = e.held[top].order
        BY <3>6
      <4> QED BY <3>6, <4>1 DEF Ranked
    <3> QED BY <2>5, <3>2, <3>3, <3>4, <3>7 DEF PlaysTop
  <2> QED BY <2>13, <2>14, <2>15
<1> QED BY <1>3, <1>4, <1>5 DEF Ordered

LEMMA ChannelNotesOff ==
    ASSUME IInv, NEW channel \in Channels, AllNotesOffOn(channel) PROVE IInv'
<1>1. /\ Fit(engine, player.sustain, player.sostenuto) /\ player \in Players /\ KeysOfPlayer
      /\ history \in Histories /\ (history # "notes" => KeysMatch(engine, player.keys))
      /\ player.keys \in Seq(NoteIdentities) /\ (history = "none" => Ordered(engine, player.keys))
  BY DEF IInv, Players
<1>2. PICK others : others = OtherKeys(player.keys, channel)
  OBVIOUS
<1>3. /\ others \in Seq(NoteIdentities)
      /\ \A n \in DOMAIN others : \E k \in DOMAIN player.keys : others[n] = player.keys[k]
      /\ \A x : CountKeys(others, x) = IF SameChannel(channel, x) THEN 0 ELSE CountKeys(player.keys, x)
  BY <1>1, <1>2, OtherKeysCount
<1>4. PICK a : a = PedalsUp(engine, channel)
  OBVIOUS
<1>5. PICK r : r = AllNotesOffChannelEngine(a, channel)
  OBVIOUS
<1>6. engine' = r
  BY <1>4, <1>5 DEF AllNotesOffOn
<1>7. /\ player'.keys = others /\ player'.arp = player.arp /\ player' \in Players
      /\ player'.sustain = player.sustain \ {channel} /\ player'.sostenuto = player.sostenuto \ {channel}
  BY <1>1, <1>2, <1>3 DEF AllNotesOffOn, Players
<1>8. KeysOfPlayer'
  BY <1>1, <1>3, <1>7 DEF KeysOfPlayer
<1>9. /\ history' \in Histories
      /\ Rest(engine', player'.keys) \/ history' = history
  BY <1>1 DEF AllNotesOffOn, Remember, Rest, Histories
<1>10. PICK s : s = player.sustain \ {channel}
  OBVIOUS
<1>11. PICK t : t = player.sostenuto \ {channel}
  OBVIOUS
<1>12. Fit(a, s, t) /\ Continues(engine, a)
  BY <1>1, <1>4, <1>10, <1>11, PedalsUpStep
<1>13. /\ Fit(r, s, t) /\ r.mode = a.mode /\ (a.mode # "poly" => ChannelGone(a, r, channel))
       /\ \A x : KeyDown(r, x) = IF SameChannel(channel, x) THEN 0 ELSE KeyDown(a, x)
  BY <1>5, <1>12, ChannelOff
<1>14. /\ Sane(engine) /\ Sane(a) /\ Sane(r) /\ Ranked(a.held)
       /\ (history # "notes" => KeysMatch(a, player.keys))
       /\ (history = "none" => Ordered(a, player.keys))
  <2>1. Sane(engine) /\ Sane(a) /\ Sane(r) /\ Ranked(a.held)
    BY <1>1, <1>12, <1>13 DEF Fit
  <2> QED BY <1>1, <1>12, <2>1, ContinuedKeys
<1>15. history # "notes" => KeysMatch(r, others)
  BY <1>3, <1>13, <1>14 DEF KeysMatch
<1>16. history = "none" => Ordered(r, others)
  <2>1. CASE a.mode = "poly"
    BY <1>13, <2>1 DEF Ordered
  <2>2. CASE a.mode # "poly"
    BY <1>1, <1>2, <1>13, <1>14, <2>2, ChannelOrdered
  <2> QED BY <2>1, <2>2
<1> QED BY <1>6, <1>7, <1>8, <1>9, <1>10, <1>11, <1>13, <1>15, <1>16, Closes

-----------------------------------------------------------------------------
(* A note.                                                                 *)

\* Tails that have ended are freed before the note.
LEMMA TailsEnd ==
    ASSUME NEW e, NEW s, NEW t, Fit(e, s, t),
           NEW silent \in SUBSET (IF e.mode = "poly" THEN Finished(e) ELSE {})
    PROVE  LET r == [e EXCEPT !.pool = ReleaseFinished(e.pool, silent)]
           IN  Fit(r, s, t) /\ Continues(e, r)
<1>1. PlainPool(e.pool) /\ PoolUnder(e.pool, s, t) /\ e \in Engines
  BY DEF Fit, Sane, PedalsKnown
<1>2. PICK q : q = ReleaseFinished(e.pool, silent)
  OBVIOUS
<1>3. PICK r : r = [e EXCEPT !.pool = q]
  OBVIOUS
<1>4. CASE e.mode = "poly"
  <2>1. silent \in SUBSET Slots /\ \A i \in silent : Released(e.pool.slot[i])
    BY <1>4 DEF Finished
  <2>2. /\ PlainPool(q) /\ KeysStay(e.pool.slot, q.slot, Slots)
        /\ q.sustain = e.pool.sustain /\ q.sostenuto = e.pool.sostenuto
        /\ \A i \in Slots : (Holds(q.slot[i]) <=> Holds(e.pool.slot[i])) /\ q.slot[i] \in {e.pool.slot[i], Free}
    BY <1>1, <1>2, <2>1, TailsPool
  <2>3. PoolUnder(q, s, t)
    BY <1>1, <2>2, Blanks DEF PoolUnder, UnderPedals
  <2>4. Fit(r, s, t) /\ r.mode = e.mode /\ r.pool = q /\ r.held = e.held
    BY <1>3, <1>4, <2>2, <2>3, SamePoolStep
  <2>5. Continues(e, r)
    BY <1>4, <2>2, <2>4, PoolContinues
  <2> QED BY <1>2, <1>3, <2>4, <2>5
<1>5. CASE e.mode # "poly"
  <2>1. silent = {}
    BY <1>5
  <2>2. e.pool \in Pools /\ e.pool.slot = [i \in Slots |-> e.pool.slot[i]]
    BY <1>1, PoolFields DEF PlainPool
  <2>3. q = e.pool
    BY <1>2, <2>1, <2>2 DEF ReleaseFinished, Pools
  <2>4. r = e
    BY <1>1, <1>3, <2>3 DEF Engines
  <2>5. Continues(e, e)
    BY DEF Continues, KeysStay, AgesStay
  <2> QED BY <1>2, <1>3, <2>4, <2>5
<1> QED BY <1>4, <1>5

\* A note in Poly: its voice counts, unless it takes the place of a key that is down.
LEMMA NoteOnPoly ==
    ASSUME NEW e, NEW s, NEW t, Fit(e, s, t), e.mode = "poly", NEW note \in Notes,
           NEW channel \in AnyNoteChannel, NEW id \in NoteIds \cup {Anonymous}
    PROVE  LET r == NoteOnEngine(e, note, channel, id)
               i == NoteOnSlot(e.pool, note, channel, id)
               y == [note |-> note, channel |-> channel, id |-> id]
           IN  /\ Fit(r, s, t) /\ r.mode = e.mode
               /\ i \in Slots
               /\ e.pool.slot[i].keyDown => \/ (id # Anonymous /\ e.pool.slot[i].note = note /\ e.pool.slot[i].id = id)
                                            \/ Steals(e)
               /\ ~ e.pool.slot[i].keyDown => \A x : KeyDown(r, x) = KeyDown(e, x) + (IF y = x THEN 1 ELSE 0)
<1>1. /\ e \in Engines /\ OneAuthority(e) /\ PlainHeld(e.held) /\ Ranked(e.held) /\ PlainPool(e.pool)
      /\ GatesAgree(e) /\ HeldUnder(e.held, s, t) /\ e.sustain \subseteq s /\ e.sostenuto \subseteq t
      /\ PoolUnder(e.pool, s, t)
  BY DEF Fit, Sane, PedalsKnown
<1>2. PICK i : i = NoteOnSlot(e.pool, note, channel, id)
  OBVIOUS
<1>3. PICK q : q = NoteOn(e.pool, note, channel, id)
  OBVIOUS
<1>4. PICK y : y = [note |-> note, channel |-> channel, id |-> id]
  OBVIOUS
<1>5. /\ i \in Slots /\ PlainPool(q) /\ q.sustain = e.pool.sustain /\ q.sostenuto = e.pool.sostenuto
      /\ y \in NoteIdentities /\ Identity(q.slot[i]) = y /\ q.slot[i].keyDown
      /\ Holds(q.slot[i]) /\ ~ q.slot[i].isSostenuto
      /\ \A j \in Slots : j # i => q.slot[j] = e.pool.slot[j]
      /\ e.pool.slot[i].keyDown => \/ (id # Anonymous /\ e.pool.slot[i].note = note /\ e.pool.slot[i].id = id)
                                   \/ \A j \in Slots : Holds(e.pool.slot[j])
  BY <1>1, <1>2, <1>3, <1>4, NoteOnPool
<1>6. q \in Pools
  BY <1>5 DEF PlainPool
<1>7. PICK a : a = [e EXCEPT !.pool = q]
  OBVIOUS
<1>8. /\ a \in Engines /\ a.pool = q /\ a.mode = e.mode /\ a.unison = e.unison
      /\ a.held = e.held /\ a.voice = e.voice /\ a.sustain = e.sustain /\ a.sostenuto = e.sostenuto
      /\ a.gate = e.gate /\ a.restart = e.restart /\ a.early = e.early /\ a.cut = e.cut
  BY <1>1, <1>6, <1>7, OtherPool
<1>9. PICK S : S = {i}
  OBVIOUS
<1>10. PICK r : r = StartVoices(a, S)
  OBVIOUS
<1>11. NoteOnEngine(e, note, channel, id) = r
  BY <1>2, <1>3, <1>7, <1>9, <1>10 DEF NoteOnEngine
<1>12. S \in SUBSET Slots
  BY <1>5, <1>9
<1>13. PICK O : O = OwnersOf(e)
  OBVIOUS
<1>14. Agree(a, O)
  BY <1>1, <1>8, <1>13, SameChipsAgree DEF GatesAgree
<1>15. r \in Engines /\ SameNotes(r, a) /\ Agree(r, O \cup S)
  BY <1>8, <1>10, <1>12, <1>14, StartVoicesChips
<1>16. OwnersOf(r) = O \cup S
  <2>1. OwnersOf(r) = {j \in Slots : Holds(q.slot[j])} /\ O = {j \in Slots : Holds(e.pool.slot[j])}
    BY <1>8, <1>13, <1>15 DEF OwnersOf, SameNotes
  <2> QED BY <1>5, <1>9, <2>1
<1>17. /\ r.mode = e.mode /\ r.unison = e.unison /\ r.pool = q /\ r.held = e.held
       /\ r.voice = e.voice /\ r.sustain = e.sustain /\ r.sostenuto = e.sostenuto
  BY <1>8, <1>15 DEF SameNotes
<1>18. Sane(r) /\ GatesAgree(r) /\ Ranked(r.held)
  BY <1>1, <1>5, <1>15, <1>16, <1>17 DEF Sane, OneAuthority, GatesAgree
<1>19. PedalsKnown(r, s, t)
  <2>1. PoolUnder(q, s, t)
    BY <1>1, <1>5 DEF PoolUnder, UnderPedals
  <2> QED BY <1>1, <1>17, <2>1 DEF PedalsKnown
<1>20. ASSUME ~ e.pool.slot[i].keyDown, NEW x
       PROVE  KeyDown(r, x) = KeyDown(e, x) + (IF y = x THEN 1 ELSE 0)
  <2>1. PICK f, g : f = e.pool.slot /\ g = q.slot
    OBVIOUS
  <2>2. /\ i \in Slots /\ ~ f[i].keyDown /\ g[i].keyDown /\ Identity(g[i]) = y
        /\ \A j \in Slots : j # i => (f[j].keyDown <=> g[j].keyDown)
                                     /\ (f[j].keyDown => Identity(g[j]) = Identity(f[j]))
    BY <1>5, <1>20, <2>1
  <2>3. IsFiniteSet(Slots)
    BY SlotsFinite
  <2>4. KeyCount(g, Slots, x) = KeyCount(f, Slots, x) + (IF Identity(g[i]) = x THEN 1 ELSE 0)
    BY <2>2, <2>3, KeyCountAdd
  <2> QED BY <1>17, <2>1, <2>2, <2>4 DEF KeyDown, KeyCount
<1>21. e.pool.slot[i].keyDown => \/ (id # Anonymous /\ e.pool.slot[i].note = note /\ e.pool.slot[i].id = id)
                                 \/ Steals(e)
  BY <1>5 DEF Steals
<1> QED BY <1>2, <1>4, <1>5, <1>11, <1>17, <1>18, <1>19, <1>20, <1>21 DEF Fit

\* A key that goes down is the last of the stack.
LEMMA PressOrder ==
    ASSUME NEW held, PlainHeld(held), NEW q, PlainHeld(q), NEW k \in Entries, OnTop(held, q, k),
           ~ held[k].keyDown, q[k].keyDown, NEW keys \in Seq(NoteIdentities), InPressOrder(held, keys),
           NEW y, Identity(q[k]) = y
    PROVE  InPressOrder(q, Append(keys, y))
<1> DEFINE K == KeyEntries(held)
           L == KeyEntries(q)
<1>1. /\ \A j \in Entries \ {k} : q[j].keyDown = held[j].keyDown /\ Identity(q[j]) = Identity(held[j])
      /\ \A j \in Entries \ {k} : q[j].isActive => q[j].order < q[k].order
      /\ \A i, j \in Entries \ {k} : held[i].isActive /\ held[j].isActive =>
            (q[i].order <= q[j].order <=> held[i].order <= held[j].order)
  BY DEF OnTop
<1>2. /\ L = K \cup {k} /\ k \notin K /\ K \subseteq Entries
      /\ \A j \in K : j \in Entries \ {k} /\ held[j].isActive /\ q[j].isActive
      /\ \A j \in L : q[j].order \in Int
  <2>1. L = K \cup {k} /\ k \notin K /\ K \subseteq Entries
    BY <1>1 DEF KeyEntries
  <2>2. \A j \in K : j \in Entries \ {k} /\ held[j].keyDown /\ q[j].keyDown
    BY <1>1 DEF KeyEntries
  <2> QED BY <2>1, <2>2, HeldFields
<1> HIDE DEF K, L
<1>3. IsFiniteSet(K) /\ Cardinality(L) = Cardinality(K) + 1 /\ Cardinality(K) \in Nat
  BY <1>2, EntriesFinite, FS_AddElement, FS_CardinalityType
<1>4. PICK n \in Nat : n = Len(keys)
  BY LenProperties
<1>5. Cardinality(K) = n /\ \A j \in K : Identity(held[j]) = keys[Place(held, j)]
  BY <1>4 DEF InPressOrder, K
<1>6. PICK new : new = Append(keys, y)
  OBVIOUS
<1>7. Len(new) = n + 1 /\ new[n + 1] = y /\ \A m \in 1 .. n : new[m] = keys[m]
  <2>1. Len(Append(keys, y)) = n + 1 /\ Append(keys, y)[n + 1] = y /\ \A m \in 1 .. n : Append(keys, y)[m] = keys[m]
    BY <1>4, AppendProperties
  <2> QED BY <1>6, <2>1
<1>8. Place(q, k) = n + 1
  <2>1. {j \in L : q[j].order <= q[k].order} = L
    BY <1>1, <1>2
  <2> QED BY <1>3, <1>5, <2>1 DEF Place, L
<1>9. ASSUME NEW j \in K PROVE Place(q, j) = Place(held, j) /\ Place(held, j) \in 1 .. n
  <2>1. {i \in L : q[i].order <= q[j].order} = {i \in K : held[i].order <= held[j].order}
    <3>1. ~ (q[k].order <= q[j].order)
      BY <1>1, <1>2
    <3> QED BY <1>1, <1>2, <3>1
  <2>2. Place(q, j) = Place(held, j)
    BY <2>1 DEF Place, K, L
  <2>3. /\ {i \in K : held[i].order <= held[j].order} \subseteq K
        /\ j \in {i \in K : held[i].order <= held[j].order}
    BY <1>2, HeldFields
  <2>4. Place(held, j) \in Nat /\ Place(held, j) <= n /\ Place(held, j) # 0
    <3> DEFINE A == {i \in K : held[i].order <= held[j].order}
    <3>1. Place(held, j) = Cardinality(A)
      BY DEF Place, K
    <3>2. A \subseteq K /\ A # {}
      BY <2>3
    <3> HIDE DEF A
    <3> QED BY <1>3, <1>5, <3>1, <3>2, FS_Subset, FS_EmptySet, FS_CardinalityType
  <2> QED BY <2>2, <2>4
<1>10. ASSUME NEW j \in L PROVE Identity(q[j]) = new[Place(q, j)]
  <2>1. CASE j = k
    BY <1>7, <1>8, <2>1
  <2>2. CASE j # k
    <3>1. j \in K /\ Identity(q[j]) = Identity(held[j])
      BY <1>1, <1>2, <1>10, <2>2
    <3> QED BY <1>5, <1>7, <1>9, <3>1
  <2> QED BY <2>1, <2>2
<1> QED BY <1>3, <1>5, <1>6, <1>7, <1>10 DEF InPressOrder, L

\* A note in a forced mode: it goes on top and is played.
LEMMA NoteOnForced ==
    ASSUME NEW e, NEW s, NEW t, Fit(e, s, t), e.mode # "poly", NEW note \in Notes,
           NEW channel \in AnyNoteChannel, NEW id \in NoteIds \cup {Anonymous}
    PROVE  LET r == NoteOnEngine(e, note, channel, id)
               y == [note |-> note, channel |-> channel, id |-> id]
           IN  /\ Fit(r, s, t) /\ r.mode = e.mode /\ PlaysTop(r)
               /\ \E k \in Entries :
                    /\ e.held[k].keyDown => \/ (id # Anonymous /\ e.held[k].note = note /\ e.held[k].id = id)
                                            \/ Steals(e)
                    /\ ~ e.held[k].keyDown =>
                          /\ \A x : KeyDown(r, x) = KeyDown(e, x) + (IF y = x THEN 1 ELSE 0)
                          /\ \A keys \in Seq(NoteIdentities) :
                                InPressOrder(e.held, keys) => InPressOrder(r.held, Append(keys, y))
<1>1. /\ e \in Engines /\ OneAuthority(e) /\ PlainHeld(e.held) /\ Ranked(e.held)
      /\ HeldUnder(e.held, s, t) /\ e.sustain \subseteq s /\ e.sostenuto \subseteq t
  BY DEF Fit, Sane, PedalsKnown
<1>2. PICK q : q = RegisterNoteOn(e.held, note, channel, id)
  OBVIOUS
<1>3. PICK y : y = [note |-> note, channel |-> channel, id |-> id]
  OBVIOUS
<1>4. /\ PlainHeld(q) /\ Ranked(q) /\ HeldUnder(q, s, t)
      /\ \E k \in Entries :
            /\ OnTop(e.held, q, k) /\ q[k].isActive /\ q[k].keyDown /\ Identity(q[k]) = y
            /\ e.held[k].keyDown => \/ (id # Anonymous /\ e.held[k].note = note /\ e.held[k].id = id)
                                    \/ \A j \in Entries : e.held[j].isActive
  BY <1>1, <1>2, <1>3, RegisterOnHeld
<1>5. PICK k \in Entries :
            /\ OnTop(e.held, q, k) /\ q[k].isActive /\ q[k].keyDown /\ Identity(q[k]) = y
            /\ e.held[k].keyDown => \/ (id # Anonymous /\ e.held[k].note = note /\ e.held[k].id = id)
                                    \/ \A j \in Entries : e.held[j].isActive
  BY <1>4
<1>6. q \in [Entries -> HeldEntries]
  BY <1>4 DEF PlainHeld
<1>7. PICK a : a = [e EXCEPT !.held = q]
  OBVIOUS
<1>8. /\ a \in Engines /\ a.pool = e.pool /\ a.mode = e.mode /\ a.unison = e.unison
      /\ a.held = q /\ a.voice = e.voice /\ a.sustain = e.sustain /\ a.sostenuto = e.sostenuto
      /\ a.gate = e.gate /\ a.restart = e.restart /\ a.early = e.early /\ a.cut = e.cut
  BY <1>1, <1>6, <1>7, OtherHeld
<1>9. PICK b \in BOOLEAN : NoteOnEngine(e, note, channel, id) = Resolve(a, b)
  <2>1. e.mode \in {"mono", "legato", "unison"}
    BY <1>1, EngineFields DEF Modes
  <2>2. CASE e.mode = "mono"
    <3>1. NoteOnEngine(e, note, channel, id) = Resolve(a, TRUE)
      BY <1>2, <1>7, <2>2 DEF NoteOnEngine
    <3> QED BY <3>1
  <2>3. CASE e.mode = "legato"
    <3>1. NoteOnEngine(e, note, channel, id) = Resolve(a, e.voice[1] = Silent)
      BY <1>2, <1>7, <2>3 DEF NoteOnEngine
    <3> QED BY <3>1
  <2>4. CASE e.mode = "unison"
    <3>1. NoteOnEngine(e, note, channel, id) = Resolve(a, \A i \in Slots : e.voice[i] = Silent)
      BY <1>2, <1>7, <2>4 DEF NoteOnEngine
    <3> QED BY <3>1
  <2> QED BY <2>1, <2>2, <2>3, <2>4
<1>10. PICK r : r = Resolve(a, b)
  OBVIOUS
<1>11. /\ Fit(r, s, t) /\ r.mode = e.mode /\ r.held = q
       /\ (SoundingEntries(q) # {} => PlaysTop(r))
  <2>1. e.mode = "unison" => a.unison \in UnisonCounts
    BY <1>1, <1>8 DEF OneAuthority
  <2> QED BY <1>1, <1>4, <1>8, <1>9, <1>10, <2>1, StackStep
<1>12. PlaysTop(r)
  <2>1. k \in SoundingEntries(q)
    BY <1>5 DEF SoundingEntries, Holds
  <2> QED BY <1>11, <2>1
<1>13. ASSUME ~ e.held[k].keyDown, NEW x
       PROVE  KeyDown(r, x) = KeyDown(e, x) + (IF y = x THEN 1 ELSE 0)
  <2>1. PICK f : f = e.held
    OBVIOUS
  <2>2. /\ k \in Entries /\ ~ f[k].keyDown /\ q[k].keyDown /\ Identity(q[k]) = y
        /\ \A j \in Entries : j # k => (f[j].keyDown <=> q[j].keyDown)
                                       /\ (f[j].keyDown => Identity(q[j]) = Identity(f[j]))
    BY <1>5, <1>13, <2>1 DEF OnTop
  <2>3. PICK D : D = Entries
    OBVIOUS
  <2>4. IsFiniteSet(D)
    BY <2>3, EntriesFinite
  <2>5. /\ k \in D /\ ~ f[k].keyDown /\ q[k].keyDown
        /\ \A j \in D : j # k => (f[j].keyDown <=> q[j].keyDown)
                                 /\ (f[j].keyDown => Identity(q[j]) = Identity(f[j]))
    BY <2>2, <2>3
  <2>6. KeyCount(q, D, x) = KeyCount(f, D, x) + (IF Identity(q[k]) = x THEN 1 ELSE 0)
    BY <2>4, <2>5, KeyCountAdd
  <2>7. KeyCount(q, Entries, x) = KeyCount(f, Entries, x) + (IF y = x THEN 1 ELSE 0)
    BY <2>2, <2>3, <2>6
  <2> QED BY <1>11, <2>1, <2>7 DEF KeyDown, KeyCount
<1>14. ASSUME ~ e.held[k].keyDown, NEW keys \in Seq(NoteIdentities), InPressOrder(e.held, keys)
       PROVE  InPressOrder(r.held, Append(keys, y))
  BY <1>1, <1>4, <1>5, <1>11, <1>14, PressOrder
<1>15. e.held[k].keyDown => \/ (id # Anonymous /\ e.held[k].note = note /\ e.held[k].id = id)
                            \/ Steals(e)
  BY <1>5 DEF Steals
<1>16. NoteOnEngine(e, note, channel, id) = r
  BY <1>9, <1>10
<1> QED BY <1>3, <1>11, <1>12, <1>13, <1>14, <1>15, <1>16

\* The key of a press: the arpeggiator's have no channel.
PlayersKey(channel) == IF player.arp THEN channel = AnyChannel ELSE channel \in Channels

LEMMA NotePressed ==
    ASSUME IInv, NEW note \in Notes, NEW channel, PlayersKey(channel),
           NEW id \in NoteIds \cup {Anonymous}, NoteOnEvent(note, channel, id)
    PROVE  IInv'
<1>1. /\ Fit(engine, player.sustain, player.sostenuto) /\ player \in Players /\ KeysOfPlayer
      /\ history # "notes" /\ history \in Histories /\ KeysMatch(engine, player.keys)
      /\ (history = "none" => Ordered(engine, player.keys))
      /\ player.keys \in Seq(NoteIdentities) /\ channel \in AnyNoteChannel
      /\ \A k \in DOMAIN player.keys :
            id # Anonymous => player.keys[k].note # note \/ player.keys[k].id # id
  BY DEF IInv, NoteOnEvent, Players, PlayersKey, AnyNoteChannel
<1>2. PICK silent \in SUBSET (IF engine.mode = "poly" THEN Finished(engine) ELSE {}) :
         LET e == [engine EXCEPT !.pool = ReleaseFinished(@, silent)]
         IN  /\ engine' = NoteOnEngine(e, note, channel, id)
             /\ player' = [player EXCEPT !.keys = Append(@, [note |-> note, channel |-> channel, id |-> id])]
             /\ Remember(Steals(e), FALSE)
  BY DEF NoteOnEvent
<1>3. PICK e : e = [engine EXCEPT !.pool = ReleaseFinished(engine.pool, silent)]
  OBVIOUS
<1>4. PICK y : y = [note |-> note, channel |-> channel, id |-> id]
  OBVIOUS
<1>5. PICK r : r = NoteOnEngine(e, note, channel, id)
  OBVIOUS
<1>6. /\ engine' = r /\ player' = [player EXCEPT !.keys = Append(player.keys, y)]
      /\ Remember(Steals(e), FALSE)
  BY <1>2, <1>3, <1>4, <1>5
<1>7. y \in NoteIdentities /\ y.channel = channel
  BY <1>1, <1>4 DEF NoteIdentities, AnyNoteChannel
<1>8. PICK keys : keys = Append(player.keys, y)
  OBVIOUS
<1>9. /\ keys \in Seq(NoteIdentities) /\ keys # <<>>
      /\ DOMAIN keys = DOMAIN player.keys \cup {Len(player.keys) + 1}
      /\ keys[Len(player.keys) + 1] = y /\ \A k \in DOMAIN player.keys : keys[k] = player.keys[k]
  <2>1. PICK n \in Nat : n = Len(player.keys)
    BY <1>1, LenProperties
  <2>2. /\ keys \in Seq(NoteIdentities) /\ Len(keys) = n + 1 /\ keys[n + 1] = y
        /\ \A k \in 1 .. n : keys[k] = player.keys[k]
    BY <1>1, <1>7, <1>8, <2>1, AppendProperties
  <2>3. DOMAIN keys = 1 .. n + 1 /\ DOMAIN player.keys = 1 .. n
    BY <1>1, <2>1, <2>2, LenProperties
  <2>4. keys # <<>>
    BY <2>1, <2>2, EmptySeq
  <2> QED BY <2>1, <2>2, <2>3, <2>4
<1>10. /\ player' \in Players /\ player'.keys = keys /\ player'.arp = player.arp
       /\ player'.sustain = player.sustain /\ player'.sostenuto = player.sostenuto
  BY <1>1, <1>6, <1>8, <1>9 DEF Players
<1>11. KeysOfPlayer'
  BY <1>1, <1>7, <1>9, <1>10 DEF KeysOfPlayer, PlayersKey
<1>12. history' \in Histories /\ (history' # "notes" => ~ Steals(e)) /\ (history' = "none" => history = "none")
  BY <1>1, <1>6, <1>9, <1>10 DEF Remember, Histories
<1>13. Fit(e, player.sustain, player.sostenuto) /\ Continues(engine, e)
  BY <1>1, <1>2, <1>3, TailsEnd
<1>14. /\ KeysMatch(e, player.keys) /\ (history = "none" => Ordered(e, player.keys)) /\ Sane(e)
  <2>1. Sane(engine) /\ Sane(e)
    BY <1>1, <1>13 DEF Fit
  <2> QED BY <1>1, <1>13, <2>1, ContinuedKeys
<1>15. /\ Fit(r, player.sustain, player.sostenuto)
       /\ ~ Steals(e) => KeysMatch(r, keys)
       /\ ~ Steals(e) /\ history = "none" => Ordered(r, keys)
  <2>1. ASSUME \A x : KeyDown(r, x) = KeyDown(e, x) + (IF y = x THEN 1 ELSE 0) PROVE KeysMatch(r, keys)
    <3>1. ASSUME NEW x \in NoteIdentities PROVE KeyDown(r, x) = CountKeys(keys, x)
      <4>1. KeyDown(e, x) = CountKeys(player.keys, x)
        BY <1>14 DEF KeysMatch
      <4>2. CountKeys(keys, x) = CountKeys(player.keys, x) + (IF y = x THEN 1 ELSE 0)
        BY <1>1, <1>7, <1>8, CountAppend
      <4> QED BY <2>1, <4>1, <4>2
    <3> QED BY <3>1 DEF KeysMatch
  <2>2. ASSUME NEW x, x.note = note, x.id = id, id # Anonymous,
               NEW k \in DOMAIN player.keys, player.keys[k] = x
        PROVE  FALSE
    BY <1>1, <2>2
  <2>3. CASE e.mode = "poly"
    <3>1. PICK i : i = NoteOnSlot(e.pool, note, channel, id)
      OBVIOUS
    <3>2. /\ Fit(r, player.sustain, player.sostenuto) /\ r.mode = e.mode
          /\ i \in Slots
          /\ e.pool.slot[i].keyDown => \/ (id # Anonymous /\ e.pool.slot[i].note = note /\ e.pool.slot[i].id = id)
                                       \/ Steals(e)
          /\ ~ e.pool.slot[i].keyDown => \A x : KeyDown(r, x) = KeyDown(e, x) + (IF y = x THEN 1 ELSE 0)
      BY <1>1, <1>4, <1>5, <1>13, <2>3, <3>1, NoteOnPoly
    <3>3. ASSUME ~ Steals(e), e.pool.slot[i].keyDown PROVE FALSE
      <4>1. id # Anonymous /\ e.pool.slot[i].note = note /\ e.pool.slot[i].id = id
        BY <3>2, <3>3
      <4>2. PICK k \in DOMAIN player.keys : player.keys[k] = Identity(e.pool.slot[i])
        BY <1>1, <1>14, <2>3, <3>2, <3>3, KeyIsPlayed
      <4>3. Identity(e.pool.slot[i]).note = note /\ Identity(e.pool.slot[i]).id = id
        BY <4>1 DEF Identity
      <4> QED BY <2>2, <4>1, <4>2, <4>3
    <3>4. ~ Steals(e) => KeysMatch(r, keys)
      BY <2>1, <3>2, <3>3
    <3> QED BY <2>3, <3>2, <3>4 DEF Ordered
  <2>4. CASE e.mode # "poly"
    <3>1. /\ Fit(r, player.sustain, player.sostenuto) /\ r.mode = e.mode /\ PlaysTop(r)
          /\ \E k \in Entries :
               /\ e.held[k].keyDown => \/ (id # Anonymous /\ e.held[k].note = note /\ e.held[k].id = id)
                                       \/ Steals(e)
               /\ ~ e.held[k].keyDown =>
                     /\ \A x : KeyDown(r, x) = KeyDown(e, x) + (IF y = x THEN 1 ELSE 0)
                     /\ \A ks \in Seq(NoteIdentities) :
                           InPressOrder(e.held, ks) => InPressOrder(r.held, Append(ks, y))
      BY <1>1, <1>4, <1>5, <1>13, <2>4, NoteOnForced
    <3>2. PICK i \in Entries :
               /\ e.held[i].keyDown => \/ (id # Anonymous /\ e.held[i].note = note /\ e.held[i].id = id)
                                       \/ Steals(e)
               /\ ~ e.held[i].keyDown =>
                     /\ \A x : KeyDown(r, x) = KeyDown(e, x) + (IF y = x THEN 1 ELSE 0)
                     /\ \A ks \in Seq(NoteIdentities) :
                           InPressOrder(e.held, ks) => InPressOrder(r.held, Append(ks, y))
      BY <3>1
    <3>3. ASSUME ~ Steals(e), e.held[i].keyDown PROVE FALSE
      <4>1. id # Anonymous /\ e.held[i].note = note /\ e.held[i].id = id
        BY <3>2, <3>3
      <4>2. PICK k \in DOMAIN player.keys : player.keys[k] = Identity(e.held[i])
        BY <1>1, <1>14, <2>4, <3>2, <3>3, KeyIsPlayed
      <4>3. Identity(e.held[i]).note = note /\ Identity(e.held[i]).id = id
        BY <4>1 DEF Identity
      <4> QED BY <2>2, <4>1, <4>2, <4>3
    <3>4. ~ Steals(e) => KeysMatch(r, keys)
      BY <2>1, <3>2, <3>3
    <3>5. ASSUME ~ Steals(e), history = "none" PROVE Ordered(r, keys)
      <4>1. InPressOrder(e.held, player.keys)
        BY <1>14, <2>4, <3>5 DEF Ordered
      <4>2. InPressOrder(r.held, keys)
        BY <1>1, <1>8, <3>2, <3>3, <3>5, <4>1
      <4> QED BY <3>1, <4>2 DEF Ordered
    <3> QED BY <3>1, <3>4, <3>5
  <2> QED BY <2>3, <2>4
<1> QED BY <1>6, <1>10, <1>11, <1>12, <1>15, Closes

\* A release in Poly.
LEMMA NoteOffPoly ==
    ASSUME NEW e, NEW s, NEW t, Fit(e, s, t), e.mode = "poly", NEW note,
           NEW channel \in AnyNoteChannel, NEW id
    PROVE  LET r == NoteOffEngine(e, note, channel, id)
           IN  Fit(r, s, t) /\ r.mode = e.mode /\ r.pool = NoteOff(e.pool, note, channel, id)
<1>1. PlainPool(e.pool) /\ PoolUnder(e.pool, s, t)
  BY DEF Fit, Sane, PedalsKnown
<1>2. PICK q : q = NoteOff(e.pool, note, channel, id)
  OBVIOUS
<1>3. PlainPool(q) /\ NoneStarts(e.pool, q) /\ PoolUnder(q, s, t)
  BY <1>1, <1>2, ReleaseCalm
<1>4. PICK r : r = WithPool(e, q)
  OBVIOUS
<1>5. Fit(r, s, t) /\ r.mode = e.mode /\ r.pool = q
  BY <1>3, <1>4, PoolStep
<1> QED BY <1>2, <1>4, <1>5 DEF NoteOffEngine

\* No two keys of the player are of the same note on channels that match without being equal.
OneKindOfKeys(keys) ==
    \/ \A k \in DOMAIN keys : keys[k].channel = AnyChannel
    \/ \A k \in DOMAIN keys : keys[k].channel \in Channels

LEMMA SameKey ==
    ASSUME NEW keys \in Seq(NoteIdentities), OneKindOfKeys(keys), NEW k \in DOMAIN keys,
           NEW v, NEW j \in DOMAIN keys, keys[j] = Identity(v), SameChannel(keys[k].channel, v),
           v.note = keys[k].note, v.id = keys[k].id
    PROVE  Identity(v) = keys[k] /\ v.channel = keys[k].channel
<1>1. keys[k] \in NoteIdentities /\ keys[j] \in NoteIdentities
  BY IdentitiesAre
<1>2. v.channel = keys[j].channel
  BY DEF Identity
<1>3. v.channel = keys[k].channel
  BY <1>2, Blanks DEF OneKindOfKeys, SameChannel
<1>4. keys[k] = [note |-> keys[k].note, channel |-> keys[k].channel, id |-> keys[k].id]
  BY <1>1 DEF NoteIdentities
<1> QED BY <1>3, <1>4 DEF Identity

\* It takes the key that the player lets go of, and no other.
LEMMA NoteOffPolyExact ==
    ASSUME NEW e, NEW s, NEW t, Fit(e, s, t), e.mode = "poly", NEW keys \in Seq(NoteIdentities),
           KeysMatch(e, keys), OneKindOfKeys(keys), NEW k \in DOMAIN keys,
           ~ TakesTwo(e, keys[k].note, keys[k].channel, keys[k].id)
    PROVE  KeysMatch(NoteOffEngine(e, keys[k].note, keys[k].channel, keys[k].id), RemoveAt(keys, k))
<1>1. Sane(e) /\ PlainPool(e.pool)
  BY DEF Fit, Sane
<1>2. PICK note, channel, id : note = keys[k].note /\ channel = keys[k].channel /\ id = keys[k].id
  OBVIOUS
<1>3. /\ keys[k] \in NoteIdentities /\ channel \in AnyNoteChannel
      /\ keys[k] = [note |-> note, channel |-> channel, id |-> id]
  <2>1. keys[k] \in NoteIdentities
    BY IdentitiesAre
  <2> QED BY <1>2, <2>1 DEF NoteIdentities, AnyNoteChannel
<1>4. PICK p : p = e.pool
  OBVIOUS
<1>5. PICK r : r = NoteOffEngine(e, note, channel, id)
  OBVIOUS
<1>6. r.mode = "poly" /\ r.pool = NoteOff(p, note, channel, id)
  BY <1>3, <1>4, <1>5, NoteOffPoly
<1>7. PICK match : match = {i \in KeyDownVoices(p, note, channel) : p.slot[i].id = id}
  OBVIOUS
<1>8. PICK q : q = StrictNoteOff(p, note, channel, id)
  OBVIOUS
<1>9. /\ match = {} => q = p
      /\ match # {} => \E i \in match : q = KeyUp(p, i, channel)
  BY <1>1, <1>4, <1>7, <1>8, StrictTakes
<1>10. \A i \in Slots : i \in match <=> /\ p.slot[i].isActive /\ p.slot[i].keyDown /\ p.slot[i].note = note
                                        /\ SameChannel(channel, p.slot[i]) /\ p.slot[i].id = id
  BY <1>7 DEF KeyDownVoices
<1>11. match \in SUBSET Slots
  BY <1>7 DEF KeyDownVoices
<1>12. match # {}
  <2>1. PICK i \in Slots : p.slot[i].keyDown /\ Identity(p.slot[i]) = keys[k]
    BY <1>1, <1>4, KeyIsPlayed
  <2>2. p.slot[i].isActive /\ p.slot[i].note = note /\ p.slot[i].channel = channel /\ p.slot[i].id = id
    BY <1>1, <1>2, <1>4, <2>1, PlainFields DEF Identity
  <2>3. SameChannel(channel, p.slot[i])
    BY <2>2 DEF SameChannel
  <2> QED BY <1>10, <2>1, <2>2, <2>3
<1>13. PICK i \in match : q = KeyUp(p, i, channel)
  BY <1>9, <1>12
<1>14. i \in Slots /\ p.slot[i].keyDown /\ Identity(p.slot[i]) = keys[k]
  <2>1. i \in Slots /\ p.slot[i].keyDown /\ p.slot[i].note = note /\ SameChannel(channel, p.slot[i])
        /\ p.slot[i].id = id
    BY <1>10, <1>11, <1>13
  <2>2. PICK j \in DOMAIN keys : keys[j] = Identity(p.slot[i])
    BY <1>1, <1>4, <2>1, KeyIsPlayed
  <2> QED BY <1>2, <2>1, <2>2, SameKey
<1>15. /\ ~ q.slot[i].keyDown /\ \A j \in Slots : j # i => q.slot[j] = p.slot[j]
  BY <1>1, <1>3, <1>4, <1>13, <1>14, KeyUpVoice
<1>16. NoteOff(p, note, channel, id) = q
  <2>1. q # p
    BY <1>14, <1>15
  <2>2. ~ TakesTwo(e, note, channel, id)
    BY <1>2
  <2> QED BY <1>4, <1>8, <2>1, <2>2 DEF TakesTwo
<1>17. ASSUME NEW x \in NoteIdentities PROVE KeyDown(r, x) = CountKeys(RemoveAt(keys, k), x)
  <2>1. PICK f, g : f = p.slot /\ g = q.slot
    OBVIOUS
  <2>2. PICK D : D = Slots
    OBVIOUS
  <2>3. IsFiniteSet(D)
    BY <2>2, SlotsFinite
  <2>4. /\ i \in D /\ f[i].keyDown /\ ~ g[i].keyDown
        /\ \A j \in D : j # i => (f[j].keyDown <=> g[j].keyDown)
                                 /\ (f[j].keyDown => Identity(g[j]) = Identity(f[j]))
    BY <1>14, <1>15, <2>1, <2>2
  <2>5. KeyCount(f, D, x) = KeyCount(g, D, x) + (IF Identity(f[i]) = x THEN 1 ELSE 0)
    BY <2>3, <2>4, KeyCountRemove
  <2>6. Identity(f[i]) = keys[k] /\ KeyCount(g, D, x) \in Nat
    BY <1>14, <2>1, <2>3, KeyCountType
  <2>7. k \in 1 .. Len(keys)
    BY LenProperties
  <2>8. /\ CountKeys(keys, x) = CountKeys(RemoveAt(keys, k), x) + (IF keys[k] = x THEN 1 ELSE 0)
        /\ CountKeys(RemoveAt(keys, k), x) \in Nat
    <3>1. CountKeys(keys, x) = CountKeys(RemoveAt(keys, k), x) + (IF keys[k] = x THEN 1 ELSE 0)
      BY <2>7, CountRemove
    <3>2. RemoveAt(keys, k) \in Seq(NoteIdentities)
      BY <2>7, RemoveAtProperties
    <3>3. CountKeys(RemoveAt(keys, k), x) \in Nat
      BY <3>2, CountType
    <3> QED BY <3>1, <3>3
  <2>9. KeyCount(f, D, x) = CountKeys(keys, x)
    BY <1>4, <2>1, <2>2 DEF KeysMatch, KeyDown, KeyCount
  <2>10. KeyDown(r, x) = KeyCount(g, D, x)
    BY <1>6, <1>16, <2>1, <2>2 DEF KeyDown, KeyCount
  <2> QED BY <2>5, <2>6, <2>8, <2>9, <2>10
<1> QED BY <1>2, <1>5, <1>17 DEF KeysMatch

\* A release in a forced mode.
LEMMA NoteOffForced ==
    ASSUME NEW e, NEW s, NEW t, Fit(e, s, t), e.mode # "poly", NEW note, NEW channel, NEW id
    PROVE  LET r == NoteOffEngine(e, note, channel, id)
           IN  /\ Fit(r, s, t) /\ r.mode = e.mode /\ r.held = RegisterNoteOff(e, note, channel, id)
               /\ SoundingEntries(r.held) # {} => PlaysTop(r)
<1>1. /\ e \in Engines /\ OneAuthority(e) /\ PlainHeld(e.held) /\ Ranked(e.held)
      /\ HeldUnder(e.held, s, t) /\ e.sustain \subseteq s /\ e.sostenuto \subseteq t
  BY DEF Fit, Sane, PedalsKnown
<1>2. PICK q : q = RegisterNoteOff(e, note, channel, id)
  OBVIOUS
<1>3. PlainHeld(q) /\ AgesStay(e.held, q) /\ HeldUnder(q, s, t)
  BY <1>1, <1>2, RegisterOffHeld
<1>4. q \in [Entries -> HeldEntries] /\ Ranked(q)
  BY <1>1, <1>3, AgesStayRanked DEF PlainHeld
<1>5. PICK a : a = [e EXCEPT !.held = q]
  OBVIOUS
<1>6. /\ a \in Engines /\ a.pool = e.pool /\ a.mode = e.mode /\ a.unison = e.unison
      /\ a.held = q /\ a.voice = e.voice /\ a.sustain = e.sustain /\ a.sostenuto = e.sostenuto
      /\ a.gate = e.gate /\ a.restart = e.restart /\ a.early = e.early /\ a.cut = e.cut
  BY <1>1, <1>4, <1>5, OtherHeld
<1>7. NoteOffEngine(e, note, channel, id) = Resolve(a, FALSE)
  BY <1>2, <1>5 DEF NoteOffEngine
<1>8. PICK b \in BOOLEAN : NoteOffEngine(e, note, channel, id) = Resolve(a, b)
  BY <1>7
<1>9. PICK r : r = Resolve(a, b)
  OBVIOUS
<1>10. e.mode = "unison" => a.unison \in UnisonCounts
  BY <1>1, <1>6 DEF OneAuthority
<1>11. /\ Fit(r, s, t) /\ r.mode = e.mode /\ r.held = q
       /\ (SoundingEntries(q) # {} => PlaysTop(r))
  BY <1>1, <1>3, <1>4, <1>6, <1>8, <1>9, <1>10, StackStep
<1> QED BY <1>2, <1>8, <1>9, <1>11

\* A key of the stack goes up, the key at its place is let go.
LEMMA ReleaseOrder ==
    ASSUME NEW held, PlainHeld(held), Ranked(held), NEW q, NEW k \in Entries, held[k].keyDown,
           ~ q[k].keyDown, \A j \in Entries : j # k => q[j] = held[j],
           NEW keys \in Seq(NoteIdentities), InPressOrder(held, keys)
    PROVE  /\ Place(held, k) \in DOMAIN keys
           /\ InPressOrder(q, RemoveAt(keys, Place(held, k)))
<1>1. PICK K : K = KeyEntries(held)
  OBVIOUS
<1>2. PICK L : L = KeyEntries(q)
  OBVIOUS
<1>3. k \in K /\ K \subseteq Entries /\ L = K \ {k}
  BY <1>1, <1>2 DEF KeyEntries
<1>4. PICK n \in Nat : n = Len(keys)
  BY LenProperties
<1>5. DOMAIN keys = 1 .. n /\ Cardinality(K) = n /\ \A j \in K : Identity(held[j]) = keys[Place(held, j)]
  BY <1>1, <1>4, LenProperties DEF InPressOrder
<1>6. /\ IsFiniteSet(K)
      /\ \A j \in K : held[j].order \in Int /\ Place(held, j) \in 1 .. n
      /\ \A i, j \in K : held[i].order < held[j].order => Place(held, i) < Place(held, j)
      /\ \A i, j \in K : held[i].order = held[j].order => i = j
  BY <1>1, <1>5, Places
<1>7. PICK m \in 1 .. n : m = Place(held, k)
  BY <1>3, <1>6
<1>8. PICK new : new = RemoveAt(keys, m)
  OBVIOUS
<1>9. Len(new) = n - 1 /\ \A j \in 1 .. n - 1 : new[j] = IF j < m THEN keys[j] ELSE keys[j + 1]
  BY <1>4, <1>7, <1>8, RemoveAtProperties
<1>10. Cardinality(L) = n - 1
  BY <1>3, <1>5, <1>6, FS_RemoveElement
<1>11. ASSUME NEW j \in L PROVE Identity(q[j]) = new[Place(q, j)]
  <2>1. j \in K /\ j # k /\ q[j] = held[j]
    BY <1>3, <1>11
  <2>2. PICK p \in 1 .. n : p = Place(held, j)
    BY <1>6, <2>1
  <2>3. PICK U : U = {i \in K : held[i].order <= held[j].order}
    OBVIOUS
  <2>4. Cardinality(U) = p /\ IsFiniteSet(U)
    <3>1. Cardinality(U) = p
      BY <1>1, <2>2, <2>3 DEF Place
    <3>2. U \subseteq K
      BY <2>3
    <3> QED BY <1>6, <3>1, <3>2, FS_Subset
  <2>5. Place(q, j) = Cardinality(U \ {k})
    <3>1. {i \in L : q[i].order <= q[j].order} = U \ {k}
      BY <1>3, <2>1, <2>3
    <3> QED BY <1>2, <3>1 DEF Place
  <2>6. keys[p] = Identity(q[j])
    BY <1>5, <2>1, <2>2
  <2>7. CASE held[k].order < held[j].order
    <3>1. k \in U
      BY <1>3, <1>6, <2>1, <2>3, <2>7
    <3>2. Place(q, j) = p - 1
      BY <2>4, <2>5, <3>1, FS_RemoveElement
    <3>3. m < p
      BY <1>3, <1>6, <1>7, <2>1, <2>2, <2>7
    <3>4. p - 1 \in 1 .. n - 1 /\ ~ (p - 1 < m) /\ (p - 1) + 1 = p
      BY <1>7, <2>2, <3>3
    <3> QED BY <1>9, <2>6, <3>2, <3>4
  <2>8. CASE held[j].order < held[k].order
    <3>1. k \notin U
      BY <1>3, <1>6, <2>1, <2>3, <2>8
    <3>2. U \ {k} = U
      BY <3>1
    <3>3. p < m
      BY <1>3, <1>6, <1>7, <2>1, <2>2, <2>8
    <3>4. p \in 1 .. n - 1
      BY <1>7, <2>2, <3>3
    <3> QED BY <1>9, <2>4, <2>5, <2>6, <3>2, <3>3, <3>4
  <2>9. held[k].order < held[j].order \/ held[j].order < held[k].order
    BY <1>3, <1>6, <2>1
  <2> QED BY <2>7, <2>8, <2>9
<1> QED BY <1>2, <1>5, <1>7, <1>8, <1>9, <1>10, <1>11 DEF InPressOrder

\* The release takes the key that the player lets go of, and no other; in their order it takes
\* the first of those that are alike.
LEMMA NoteOffForcedExact ==
    ASSUME NEW e, NEW s, NEW t, Fit(e, s, t), e.mode # "poly", NEW keys \in Seq(NoteIdentities),
           KeysMatch(e, keys), OneKindOfKeys(keys), NEW k \in DOMAIN keys,
           \A j \in 1 .. k - 1 : keys[j] # keys[k]
    PROVE  LET r == NoteOffEngine(e, keys[k].note, keys[k].channel, keys[k].id)
           IN  /\ KeysMatch(r, RemoveAt(keys, k))
               /\ Ordered(e, keys) => Ordered(r, RemoveAt(keys, k))
<1>1. Sane(e) /\ PlainHeld(e.held) /\ Ranked(e.held)
  BY DEF Fit, Sane
<1>2. PICK note, channel, id : note = keys[k].note /\ channel = keys[k].channel /\ id = keys[k].id
  OBVIOUS
<1>3. PICK held : held = e.held
  OBVIOUS
<1>4. PICK r : r = NoteOffEngine(e, note, channel, id)
  OBVIOUS
<1>5. PICK q : q = RegisterNoteOff(e, note, channel, id)
  OBVIOUS
<1>6. /\ Sane(r) /\ r.mode = e.mode /\ r.held = q
      /\ (SoundingEntries(q) # {} => PlaysTop(r))
  <2>1. LET u == NoteOffEngine(e, note, channel, id)
        IN  /\ Fit(u, s, t) /\ u.mode = e.mode /\ u.held = RegisterNoteOff(e, note, channel, id)
            /\ SoundingEntries(u.held) # {} => PlaysTop(u)
    BY NoteOffForced
  <2>2. /\ Fit(r, s, t) /\ r.mode = e.mode /\ r.held = q
        /\ (SoundingEntries(q) # {} => PlaysTop(r))
    BY <1>4, <1>5, <2>1
  <2>3. Sane(r)
    BY <2>2 DEF Fit
  <2> QED BY <2>2, <2>3
<1>7. PICK match : match = Releasable(held, note, channel, id)
  OBVIOUS
<1>8. /\ PlainHeld(q)
      /\ match # {} => \E f \in match :
                           /\ ~ q[f].keyDown
                           /\ \A j \in match : held[j].order >= held[f].order
                           /\ \A j \in Entries : j # f => q[j] = held[j]
  <2>1. PlainHeld(e.held)
    BY <1>1
  <2>2. PlainHeld(q)
    BY <1>5, <2>1, RegisterOffHeld
  <2>3. Releasable(e.held, note, channel, id) # {} =>
            \E f \in Releasable(e.held, note, channel, id) :
                /\ ~ RegisterNoteOff(e, note, channel, id)[f].keyDown
                /\ \A j \in Releasable(e.held, note, channel, id) : e.held[j].order >= e.held[f].order
                /\ \A j \in Entries : j # f => RegisterNoteOff(e, note, channel, id)[j] = e.held[j]
    BY <2>1, RegisterOffHeld
  <2> QED BY <1>3, <1>5, <1>7, <2>2, <2>3
<1>9. \A i \in Entries : i \in match <=> held[i].keyDown /\ Identity(held[i]) = keys[k]
  <2>1. ASSUME NEW i \in match PROVE held[i].keyDown /\ Identity(held[i]) = keys[k]
    <3>1. i \in Entries /\ held[i].keyDown /\ held[i].note = note /\ held[i].id = id
          /\ SameChannel(channel, held[i])
      BY <1>7, <2>1 DEF Releasable
    <3>2. PICK j \in DOMAIN keys : keys[j] = Identity(held[i])
      BY <1>1, <1>3, <3>1, KeyIsPlayed
    <3> QED BY <1>2, <3>1, <3>2, SameKey
  <2>2. ASSUME NEW i \in Entries, held[i].keyDown, Identity(held[i]) = keys[k] PROVE i \in match
    <3>1. held[i].isActive /\ held[i].note = note /\ held[i].channel = channel /\ held[i].id = id
      BY <1>1, <1>2, <1>3, <2>2, HeldFields DEF Identity
    <3>2. SameChannel(channel, held[i])
      BY <3>1 DEF SameChannel
    <3> QED BY <1>7, <2>2, <3>1, <3>2 DEF Releasable
  <2> QED BY <2>1, <2>2
<1>10. match # {}
  <2>1. PICK i \in Entries : held[i].keyDown /\ Identity(held[i]) = keys[k]
    BY <1>1, <1>3, KeyIsPlayed
  <2> QED BY <1>9, <2>1
<1>11. PICK f \in match :
           /\ ~ q[f].keyDown
           /\ \A j \in match : held[j].order >= held[f].order
           /\ \A j \in Entries : j # f => q[j] = held[j]
  BY <1>8, <1>10
<1>12. f \in match /\ f \in Entries /\ held[f].keyDown /\ Identity(held[f]) = keys[k] /\ ~ q[f].keyDown
  <2>1. match \subseteq Entries
    BY <1>7 DEF Releasable
  <2> QED BY <1>9, <1>11, <2>1
<1>13. PICK n \in Nat : n = Len(keys)
  BY LenProperties
<1>14. DOMAIN keys = 1 .. n /\ k \in 1 .. n
  BY <1>13, LenProperties
<1>15. ASSUME NEW x \in NoteIdentities PROVE KeyDown(r, x) = CountKeys(RemoveAt(keys, k), x)
  <2>1. PICK D : D = Entries
    OBVIOUS
  <2>2. IsFiniteSet(D) /\ f \in D
    BY <1>12, <2>1, EntriesFinite
  <2>3. /\ held[f].keyDown /\ ~ q[f].keyDown
        /\ \A j \in D : j # f => (held[j].keyDown <=> q[j].keyDown)
                                 /\ (held[j].keyDown => Identity(q[j]) = Identity(held[j]))
    BY <1>11, <1>12, <2>1
  <2>4. KeyCount(held, D, x) = KeyCount(q, D, x) + (IF Identity(held[f]) = x THEN 1 ELSE 0)
    BY <2>2, <2>3, KeyCountRemove
  <2>5. KeyCount(q, D, x) \in Nat
    BY <2>2, KeyCountType
  <2>6. CountKeys(keys, x) = CountKeys(RemoveAt(keys, k), x) + (IF keys[k] = x THEN 1 ELSE 0)
    BY <1>13, <1>14, CountRemove
  <2>7. RemoveAt(keys, k) \in Seq(NoteIdentities)
    BY <1>13, <1>14, RemoveAtProperties
  <2>8. CountKeys(RemoveAt(keys, k), x) \in Nat
    BY <2>7, CountType
  <2>9. KeyCount(held, D, x) = CountKeys(keys, x)
    BY <1>3, <2>1 DEF KeysMatch, KeyDown, KeyCount
  <2>10. KeyDown(r, x) = KeyCount(q, D, x)
    BY <1>6, <2>1 DEF KeyDown, KeyCount
  <2> QED BY <1>12, <2>4, <2>5, <2>6, <2>8, <2>9, <2>10
<1>16. ASSUME Ordered(e, keys) PROVE Ordered(r, RemoveAt(keys, k))
  <2>1. InPressOrder(held, keys)
    BY <1>3, <1>16 DEF Ordered
  <2>2. /\ Place(held, f) \in 1 .. n /\ InPressOrder(q, RemoveAt(keys, Place(held, f)))
    BY <1>1, <1>3, <1>11, <1>12, <1>14, <2>1, ReleaseOrder
  <2>3. f \in KeyEntries(held) /\ Cardinality(KeyEntries(held)) = n
    BY <1>12, <1>13, <2>1 DEF KeyEntries, InPressOrder
  <2>4. keys[Place(held, f)] = keys[k]
    BY <1>12, <2>1, <2>3 DEF InPressOrder
  <2>5. PICK i \in KeyEntries(held) : Place(held, i) = k
    BY <1>1, <1>3, <1>14, <2>3, Places
  <2>6. Identity(held[i]) = keys[k]
    BY <2>1, <2>5 DEF InPressOrder
  <2>7. held[f].order <= held[i].order
    <3>1. i \in match
      BY <1>9, <2>5, <2>6 DEF KeyEntries
    <3>2. held[i].order \in Int /\ held[f].order \in Int
      BY <1>1, <1>3, <2>3, <2>5, Places
    <3> QED BY <1>11, <3>1, <3>2
  <2>8. Place(held, f) <= k
    <3>1. held[i].order \in Int /\ held[f].order \in Int
      BY <1>1, <1>3, <2>3, <2>5, Places
    <3>2. CASE held[f].order = held[i].order
      <4>1. f = i
        BY <1>1, <1>3, <2>3, <2>5, <3>2, Places
      <4> QED BY <1>14, <2>5, <4>1
    <3>3. CASE held[f].order < held[i].order
      <4>1. Place(held, f) < Place(held, i)
        BY <1>1, <1>3, <2>3, <2>5, <3>3, Places
      <4> QED BY <1>14, <2>2, <2>5, <4>1
    <3> QED BY <2>7, <3>1, <3>2, <3>3
  <2>9. Place(held, f) = k
    BY <1>14, <2>2, <2>4, <2>8
  <2>10. InPressOrder(q, RemoveAt(keys, k))
    BY <2>2, <2>9
  <2>11. ASSUME RemoveAt(keys, k) # <<>> PROVE SoundingEntries(q) # {}
    <3>1. RemoveAt(keys, k) \in Seq(NoteIdentities)
      BY <1>13, <1>14, RemoveAtProperties
    <3>2. Len(RemoveAt(keys, k)) # 0
      BY <2>11, <3>1, EmptySeq
    <3>3. KeyEntries(q) # {}
      BY <2>10, <3>2, FS_EmptySet DEF InPressOrder
    <3> QED BY <1>8, <3>3, HeldFields DEF KeyEntries, SoundingEntries
  <2> QED BY <1>6, <2>10, <2>11 DEF Ordered
<1> QED BY <1>2, <1>4, <1>15, <1>16 DEF KeysMatch

LEMMA NoteReleased ==
    ASSUME IInv, NEW k \in DOMAIN player.keys, NEW id \in NoteIds \cup {Anonymous}, NoteOffEvent(k, id)
    PROVE  IInv'
<1>1. /\ Fit(engine, player.sustain, player.sostenuto) /\ player \in Players /\ KeysOfPlayer
      /\ history \in Histories /\ (history # "notes" => KeysMatch(engine, player.keys))
      /\ (history = "none" => Ordered(engine, player.keys))
      /\ player.keys \in Seq(NoteIdentities)
  BY DEF IInv, Players
<1>2. PICK keys : keys = player.keys
  OBVIOUS
<1>3. PICK note, channel : note = keys[k].note /\ channel = keys[k].channel
  OBVIOUS
<1>4. PICK key : key = keys[k]
  OBVIOUS
<1>5. /\ \A j \in 1 .. k - 1 : keys[j] # keys[k]
      /\ engine' = NoteOffEngine(engine, note, channel, id)
      /\ player' = [player EXCEPT !.keys = RemoveAt(player.keys, k)]
  BY <1>2, <1>3 DEF NoteOffEvent
<1>6. Remember((id # key.id \/ TakesTwo(engine, note, channel, id)), FALSE)
  BY <1>2, <1>3, <1>4 DEF NoteOffEvent
<1>7. PICK n \in Nat : n = Len(keys)
  BY <1>1, <1>2, LenProperties
<1>8. keys \in Seq(NoteIdentities) /\ DOMAIN keys = 1 .. n /\ k \in 1 .. n
  BY <1>1, <1>2, <1>7, LenProperties
<1>9. PICK new : new = RemoveAt(keys, k)
  OBVIOUS
<1>10. /\ new \in Seq(NoteIdentities) /\ DOMAIN new = 1 .. n - 1
       /\ \A j \in 1 .. n - 1 : new[j] = IF j < k THEN keys[j] ELSE keys[j + 1]
  BY <1>7, <1>8, <1>9, RemoveAtProperties
<1>11. /\ player' \in Players /\ player'.keys = new /\ player'.arp = player.arp
       /\ player'.sustain = player.sustain /\ player'.sostenuto = player.sostenuto
  BY <1>1, <1>2, <1>5, <1>9, <1>10 DEF Players
<1>12. KeysOfPlayer'
  <2>1. ASSUME NEW j \in DOMAIN new PROVE \E i \in DOMAIN keys : new[j] = keys[i]
    <3>1. j \in 1 .. n - 1
      BY <1>10, <2>1
    <3>2. CASE j < k
      <4>1. new[j] = keys[j] /\ j \in 1 .. n
        BY <1>7, <1>10, <3>1, <3>2
      <4> QED BY <1>8, <4>1
    <3>3. CASE ~ (j < k)
      <4>1. new[j] = keys[j + 1] /\ j + 1 \in 1 .. n
        BY <1>7, <1>10, <3>1, <3>3
      <4> QED BY <1>8, <4>1
    <3> QED BY <3>2, <3>3
  <2> QED BY <1>1, <1>2, <1>11, <2>1 DEF KeysOfPlayer
<1>13. /\ history' \in Histories
       /\ history' # "notes" => \/ Rest(engine', new)
                                \/ /\ id = key.id /\ ~ TakesTwo(engine, note, channel, id)
                                   /\ history' = history
       /\ history' = "none" => Rest(engine', new) \/ history = "none"
  BY <1>1, <1>6, <1>11 DEF Remember, Histories, Rest
<1>14. channel \in AnyNoteChannel /\ OneKindOfKeys(keys)
  <2>1. keys[k] \in NoteIdentities
    BY <1>8, IdentitiesAre
  <2>2. channel \in AnyNoteChannel
    BY <1>3, <2>1 DEF NoteIdentities, AnyNoteChannel
  <2> QED BY <1>1, <1>2, <2>2 DEF KeysOfPlayer, OneKindOfKeys
<1>15. Fit(engine', player.sustain, player.sostenuto) /\ engine'.mode = engine.mode
  <2>1. CASE engine.mode = "poly"
    BY <1>1, <1>5, <1>14, <2>1, NoteOffPoly
  <2>2. CASE engine.mode # "poly"
    BY <1>1, <1>5, <2>2, NoteOffForced
  <2> QED BY <2>1, <2>2
<1>16. ASSUME id = key.id, ~ TakesTwo(engine, note, channel, id), history # "notes"
       PROVE  KeysMatch(engine', new) /\ (history = "none" => Ordered(engine', new))
  <2>1. engine' = NoteOffEngine(engine, keys[k].note, keys[k].channel, keys[k].id)
    BY <1>3, <1>4, <1>5, <1>16
  <2>2. KeysMatch(engine, keys)
    BY <1>1, <1>2, <1>16
  <2>3. CASE engine.mode = "poly"
    <3>1. ~ TakesTwo(engine, keys[k].note, keys[k].channel, keys[k].id)
      BY <1>3, <1>4, <1>16
    <3>2. KeysMatch(engine', new)
      BY <1>1, <1>8, <1>9, <1>14, <2>1, <2>2, <2>3, <3>1, NoteOffPolyExact
    <3> QED BY <1>15, <2>3, <3>2 DEF Ordered
  <2>4. CASE engine.mode # "poly"
    <3>1. /\ KeysMatch(engine', new)
          /\ Ordered(engine, keys) => Ordered(engine', new)
      BY <1>1, <1>5, <1>8, <1>9, <1>14, <2>1, <2>2, <2>4, NoteOffForcedExact
    <3> QED BY <1>1, <1>2, <3>1
  <2> QED BY <2>3, <2>4
<1> QED BY <1>11, <1>12, <1>13, <1>15, <1>16, Closes

\* The engine between two authorities.
Quiet(e, mode, count, held) ==
    GateOff([e EXCEPT !.mode = mode, !.unison = count, !.pool = ResetPool(e.pool),
                      !.held = held, !.voice = [i \in Slots |-> Silent]], Slots)

\* While the mode changes nothing sounds: every gate is down, and those of the restarts that are
\* pending come back.
LEMMA QuietEngine ==
    ASSUME NEW e \in Engines, NEW mode \in Modes, NEW count \in UnisonCounts \cup {NoUnison},
           NEW held \in [Entries -> HeldEntries]
    PROVE  LET q == Quiet(e, mode, count, held)
           IN  /\ q \in Engines /\ q.mode = mode /\ q.unison = count /\ q.pool = ResetPool(e.pool)
               /\ q.held = held /\ q.voice = [i \in Slots |-> Silent]
               /\ q.sustain = e.sustain /\ q.sostenuto = e.sostenuto
               /\ Agree(q, {}) /\ Uncut(q, {})
               /\ PlainPool(q.pool) /\ \A i \in Slots : q.pool.slot[i] = Free
               /\ q.pool.sustain = {} /\ q.pool.sostenuto = {}
<1>1. PICK p : p = ResetPool(e.pool)
  OBVIOUS
<1>2. /\ PlainPool(p) /\ \A i \in Slots : p.slot[i] = Free
      /\ p.sustain = {} /\ p.sostenuto = {}
  <2>1. e.pool.orphans \in SUBSET Slots
    BY EngineFields, PoolFields
  <2>2. /\ p \in Pools /\ p.slot = [i \in Slots |-> Free] /\ p.sustain = {} /\ p.sostenuto = {}
    BY <1>1, <2>1, Blanks DEF ResetPool, EmptyPool, Pools
  <2> QED BY <2>2, Blanks DEF PlainPool
<1>3. PICK voice : voice = [i \in Slots |-> Silent]
  OBVIOUS
<1>4. voice \in [Slots -> NoteIdentities \cup {Silent}]
  BY <1>3
<1>5. PICK a : a = [e EXCEPT !.mode = mode, !.unison = count, !.pool = p, !.held = held, !.voice = voice]
  OBVIOUS
<1>6. /\ a \in Engines /\ a.mode = mode /\ a.unison = count /\ a.pool = p /\ a.held = held
      /\ a.voice = voice /\ a.sustain = e.sustain /\ a.sostenuto = e.sostenuto
      /\ a.gate = e.gate /\ a.restart = e.restart /\ a.early = e.early /\ a.cut = e.cut
  <2>1. p \in Pools
    BY <1>2 DEF PlainPool
  <2> QED BY <1>4, <1>5, <2>1 DEF Engines
<1>7. PICK S : S = Slots
  OBVIOUS
<1>8. PICK q : q = GateOff(a, S)
  OBVIOUS
<1>9. q \in Engines /\ SameNotes(q, a)
  BY <1>6, <1>7, <1>8, GateOffChips
<1>10. q.gate = a.gate \ S /\ q.early = (a.early \ S) \cup (S \cap a.restart) /\ q.restart = a.restart
  BY <1>6, <1>8 DEF GateOff, Engines
<1>11. a.restart \subseteq S /\ a.gate \subseteq S
  BY <1>6, <1>7, EngineFields
<1>12. Agree(q, {}) /\ Uncut(q, {})
  BY <1>10, <1>11 DEF Agree, Uncut
<1>13. q = Quiet(e, mode, count, held)
  BY <1>1, <1>3, <1>5, <1>7, <1>8 DEF Quiet
<1> QED BY <1>1, <1>2, <1>3, <1>6, <1>9, <1>12, <1>13 DEF SameNotes

\* The cuts are forgotten where nothing is cut.
LEMMA CutsForgotten ==
    ASSUME NEW e, NEW s, NEW t, Fit(e, s, t), Uncut(e, OwnersOf(e))
    PROVE  LET r == [e EXCEPT !.cut = {}]
           IN  /\ Fit(r, s, t) /\ r.mode = e.mode /\ r.pool = e.pool /\ r.held = e.held
               /\ r.voice = e.voice /\ r.cut = {}
<1>1. PICK r : r = [e EXCEPT !.cut = {}]
  OBVIOUS
<1>2. e \in Engines /\ Sane(e) /\ PedalsKnown(e, s, t) /\ GatesAgree(e) /\ Ranked(e.held)
  BY DEF Fit, Sane
<1>3. /\ r \in Engines /\ r.mode = e.mode /\ r.pool = e.pool /\ r.held = e.held /\ r.voice = e.voice
      /\ r.unison = e.unison /\ r.sustain = e.sustain /\ r.sostenuto = e.sostenuto
      /\ r.gate = e.gate /\ r.restart = e.restart /\ r.early = e.early /\ r.cut = {}
  BY <1>1, <1>2 DEF Engines
<1>4. Sane(r) /\ PedalsKnown(r, s, t)
  BY <1>2, <1>3 DEF Sane, OneAuthority, CutSilent, PedalsKnown
<1>5. OwnersOf(r) = OwnersOf(e)
  BY <1>3 DEF OwnersOf
<1>6. GatesAgree(r)
  BY <1>2, <1>3, <1>5 DEF GatesAgree, Agree, Uncut
<1> QED BY <1>1, <1>2, <1>3, <1>4, <1>6 DEF Fit

\* The stack that is made from the voices has an entry for every active voice and no other.
LEMMA SeedMap ==
    ASSUME NEW e, PlainPool(e.pool)
    PROVE  \E n \in Nat : \E V :
              /\ n <= MaxVoices
              /\ \A k \in 1 .. n : V[k] \in Slots /\ e.pool.slot[V[k]].isActive
              /\ \A j, k \in 1 .. n : V[j] = V[k] => j = k
              /\ \A i \in Slots : e.pool.slot[i].isActive => \E k \in 1 .. n : V[k] = i
              /\ \A k \in Entries : k > n => SeedFromPoly(e)[k] = NoEntry
              /\ \A k \in Entries : k <= n =>
                    SeedFromPoly(e)[k] =
                        [note |-> e.pool.slot[V[k]].note, channel |-> e.pool.slot[V[k]].channel,
                         id |-> e.pool.slot[V[k]].id, order |-> k, isActive |-> TRUE,
                         keyDown |-> e.pool.slot[V[k]].keyDown,
                         isSustained |-> e.pool.slot[V[k]].isSustained,
                         isSostenuto |-> e.pool.slot[V[k]].isSostenuto]
<1> DEFINE active == {i \in Slots : e.pool.slot[i].isActive}
           Before(i, j) == \/ e.pool.slot[i].age < e.pool.slot[j].age
                           \/ e.pool.slot[i].age = e.pool.slot[j].age /\ i < j
           position == [i \in active |-> 1 + Cardinality({j \in active : Before(j, i)})]
           V == [k \in 1 .. Cardinality(active) |-> CHOOSE i \in active : position[i] = k]
           Entry(k) == LET v == e.pool.slot[CHOOSE i \in active : position[i] = k]
                       IN  [note |-> v.note, channel |-> v.channel, id |-> v.id, order |-> k,
                            isActive |-> TRUE, keyDown |-> v.keyDown,
                            isSustained |-> v.isSustained, isSostenuto |-> v.isSostenuto]
<1>1. SeedFromPoly(e) = [k \in Entries |-> IF k <= Cardinality(active) THEN Entry(k) ELSE NoEntry]
  BY DEF SeedFromPoly
<1>2. active \in SUBSET Slots /\ \A i \in active : i \in Int /\ e.pool.slot[i].age \in Nat
  BY PlainFields, SlotsFinite DEF VoiceStates
<1>3. IsFiniteSet(active) /\ Cardinality(active) \in Nat /\ Cardinality(active) <= MaxVoices
  BY <1>2, SlotsFinite, EntriesFinite, FS_Subset
<1>4. PICK S : S = active
  OBVIOUS
<1>5. PICK below : below = [i \in S |-> {j \in active : Before(j, i)}]
  OBVIOUS
<1>6. PICK rank : rank = position
  OBVIOUS
<1>7. \A i \in S : below[i] \subseteq S /\ i \notin below[i] /\ rank[i] = 1 + Cardinality(below[i])
  BY <1>2, <1>4, <1>5, <1>6
<1>8. \A i, j \in S : j \in below[i] <=> Before(j, i)
  BY <1>4, <1>5
<1>9. \A j, k \in S : j \in below[k] => below[j] \subseteq below[k]
  <2>1. ASSUME NEW j \in S, NEW k \in S, j \in below[k], NEW i \in below[j] PROVE i \in below[k]
    <3>1. i \in S
      BY <1>7, <2>1
    <3>2. Before(i, j) /\ Before(j, k)
      BY <1>8, <2>1, <3>1
    <3>3. Before(i, k)
      BY <1>2, <1>4, <2>1, <3>1, <3>2
    <3> QED BY <1>8, <2>1, <3>1, <3>3
  <2> QED BY <2>1
<1>10. \A j, k \in S : j # k => j \in below[k] \/ k \in below[j]
  <2>1. ASSUME NEW j \in S, NEW k \in S, j # k PROVE Before(j, k) \/ Before(k, j)
    BY <1>2, <1>4, <2>1
  <2> QED BY <1>8, <2>1
<1> HIDE DEF active, position
<1>11. /\ \A i \in S : rank[i] \in 1 .. Cardinality(S)
       /\ \A n \in 1 .. Cardinality(S) : \E i \in S : rank[i] = n
  BY <1>3, <1>4, <1>7, <1>9, <1>10, StrictRanks
<1>12. \A k \in 1 .. Cardinality(active) : V[k] \in active /\ position[V[k]] = k
  BY <1>4, <1>6, <1>11
<1>13. \A i \in active : \E k \in 1 .. Cardinality(active) : V[k] = i
  <2>1. ASSUME NEW i \in active PROVE V[rank[i]] = i /\ rank[i] \in 1 .. Cardinality(active)
    <3>1. rank[i] \in 1 .. Cardinality(active)
      BY <1>4, <1>11, <2>1
    <3>2. V[rank[i]] \in S /\ rank[V[rank[i]]] = rank[i]
      BY <1>4, <1>6, <1>12, <3>1
    <3>3. \A j, k \in S : rank[j] = rank[k] => j = k
      BY <1>3, <1>4, <1>7, <1>9, <1>10, StrictRanks
    <3> QED BY <1>4, <2>1, <3>1, <3>2, <3>3
  <2> QED BY <2>1
<1>14. \A k \in Entries : k <= Cardinality(active) =>
           SeedFromPoly(e)[k] =
                        [note |-> e.pool.slot[V[k]].note, channel |-> e.pool.slot[V[k]].channel,
                         id |-> e.pool.slot[V[k]].id, order |-> k, isActive |-> TRUE,
                         keyDown |-> e.pool.slot[V[k]].keyDown,
                         isSustained |-> e.pool.slot[V[k]].isSustained,
                         isSostenuto |-> e.pool.slot[V[k]].isSostenuto]
  <2>1. ASSUME NEW k \in Entries, k <= Cardinality(active)
        PROVE  V[k] = (CHOOSE i \in active : position[i] = k)
    BY <1>3, <2>1 DEF Entries
  <2> QED BY <1>1, <2>1
<1>15. \A k \in Entries : k > Cardinality(active) => SeedFromPoly(e)[k] = NoEntry
  <2>1. \A k \in Entries : k > Cardinality(active) => ~ (k <= Cardinality(active))
    BY <1>3, EntriesFinite
  <2> QED BY <1>1, <2>1
<1>16. /\ \A j, k \in 1 .. Cardinality(active) : V[j] = V[k] => j = k
       /\ \A i \in active : i \in Slots /\ e.pool.slot[i].isActive
       /\ \A i \in Slots : e.pool.slot[i].isActive => i \in active
  BY <1>12 DEF active
<1> HIDE DEF V
<1>17. PICK n \in Nat : n = Cardinality(active)
  BY <1>3
<1>18. PICK W : W = V
  OBVIOUS
<1> SUFFICES \E V_ : /\ n <= MaxVoices
                     /\ \A k \in 1 .. n : V_[k] \in Slots /\ e.pool.slot[V_[k]].isActive
                     /\ \A j, k \in 1 .. n : V_[j] = V_[k] => j = k
                     /\ \A i \in Slots : e.pool.slot[i].isActive => \E k \in 1 .. n : V_[k] = i
                     /\ \A k \in Entries : k > n => SeedFromPoly(e)[k] = NoEntry
                     /\ \A k \in Entries : k <= n =>
                           SeedFromPoly(e)[k] =
                               [note |-> e.pool.slot[V_[k]].note, channel |-> e.pool.slot[V_[k]].channel,
                                id |-> e.pool.slot[V_[k]].id, order |-> k, isActive |-> TRUE,
                                keyDown |-> e.pool.slot[V_[k]].keyDown,
                                isSustained |-> e.pool.slot[V_[k]].isSustained,
                                isSostenuto |-> e.pool.slot[V_[k]].isSostenuto]
  BY <1>17
<1> WITNESS W
<1> QED BY <1>3, <1>12, <1>13, <1>14, <1>15, <1>16, <1>17, <1>18

LEMMA SeedHeld ==
    ASSUME NEW e, PlainPool(e.pool)
    PROVE  LET h == SeedFromPoly(e)
           IN  /\ PlainHeld(h) /\ Ranked(h)
               /\ \A x : KeyCount(h, Entries, x) = KeyCount(e.pool.slot, Slots, x)
               /\ Cardinality({i \in Slots : Holds(e.pool.slot[i])}) <= 1 =>
                     \A j, k \in KeyEntries(h) : j = k
               /\ \A s, t : PoolUnder(e.pool, s, t) => HeldUnder(h, s, t)
<1>1. PICK h : h = SeedFromPoly(e)
  OBVIOUS
<1>2. PICK f : f = e.pool.slot
  OBVIOUS
<1>3. PICK n \in Nat : \E V :
              /\ n <= MaxVoices
              /\ \A k \in 1 .. n : V[k] \in Slots /\ e.pool.slot[V[k]].isActive
              /\ \A j, k \in 1 .. n : V[j] = V[k] => j = k
              /\ \A i \in Slots : e.pool.slot[i].isActive => \E k \in 1 .. n : V[k] = i
              /\ \A k \in Entries : k > n => SeedFromPoly(e)[k] = NoEntry
              /\ \A k \in Entries : k <= n =>
                    SeedFromPoly(e)[k] = [note |-> e.pool.slot[V[k]].note, channel |-> e.pool.slot[V[k]].channel,
                            id |-> e.pool.slot[V[k]].id, order |-> k, isActive |-> TRUE,
                            keyDown |-> e.pool.slot[V[k]].keyDown,
                            isSustained |-> e.pool.slot[V[k]].isSustained,
                            isSostenuto |-> e.pool.slot[V[k]].isSostenuto]
  BY SeedMap
<1>3a. PICK V :
              /\ n <= MaxVoices
              /\ \A k \in 1 .. n : V[k] \in Slots /\ e.pool.slot[V[k]].isActive
              /\ \A j, k \in 1 .. n : V[j] = V[k] => j = k
              /\ \A i \in Slots : e.pool.slot[i].isActive => \E k \in 1 .. n : V[k] = i
              /\ \A k \in Entries : k > n => SeedFromPoly(e)[k] = NoEntry
              /\ \A k \in Entries : k <= n =>
                    SeedFromPoly(e)[k] = [note |-> e.pool.slot[V[k]].note, channel |-> e.pool.slot[V[k]].channel,
                            id |-> e.pool.slot[V[k]].id, order |-> k, isActive |-> TRUE,
                            keyDown |-> e.pool.slot[V[k]].keyDown,
                            isSustained |-> e.pool.slot[V[k]].isSustained,
                            isSostenuto |-> e.pool.slot[V[k]].isSostenuto]
  BY <1>3
<1>4. /\ n <= MaxVoices
      /\ \A k \in 1 .. n : V[k] \in Slots /\ f[V[k]].isActive
      /\ \A j, k \in 1 .. n : V[j] = V[k] => j = k
      /\ \A i \in Slots : f[i].isActive => \E k \in 1 .. n : V[k] = i
      /\ \A k \in Entries : k > n => h[k] = NoEntry
      /\ \A k \in Entries : k <= n =>
            h[k] = [note |-> f[V[k]].note, channel |-> f[V[k]].channel,
                    id |-> f[V[k]].id, order |-> k, isActive |-> TRUE,
                    keyDown |-> f[V[k]].keyDown,
                    isSustained |-> f[V[k]].isSustained,
                    isSostenuto |-> f[V[k]].isSostenuto]
  BY <1>1, <1>2, <1>3a
<1>5. ForcedCapacity \in Nat /\ n <= ForcedCapacity /\ 1 .. n \subseteq Entries
      /\ \A k \in Entries : k \in 1 .. n \/ k > n
  <2>1. ForcedCapacity \in Nat /\ MaxVoices <= ForcedCapacity /\ MaxVoices \in Nat
    BY EntriesFinite
  <2> QED BY <1>4, <2>1 DEF Entries
<1>6. \A i \in Slots : /\ f[i] \in VoiceStates /\ PlainVoice(f[i])
                       /\ (f[i].keyDown => Holds(f[i]) /\ f[i].isActive)
  BY <1>2, PlainFields
<1>7. ASSUME NEW k \in 1 .. n
      PROVE  /\ V[k] \in Slots /\ f[V[k]].isActive
             /\ h[k].note = f[V[k]].note /\ h[k].channel = f[V[k]].channel /\ h[k].id = f[V[k]].id
             /\ h[k].order = k /\ h[k].isActive /\ h[k].keyDown = f[V[k]].keyDown
             /\ h[k].isSustained = f[V[k]].isSustained /\ h[k].isSostenuto = f[V[k]].isSostenuto
             /\ h[k] \in HeldEntries /\ PlainEntry(h[k]) /\ Identity(h[k]) = Identity(f[V[k]])
  <2>1. PICK v : v = f[V[k]]
    OBVIOUS
  <2>2. k \in Entries /\ k <= n /\ V[k] \in Slots /\ v.isActive
    BY <1>4, <1>5, <2>1
  <2>3. v \in VoiceStates /\ v.note \in Notes
    BY <1>6, <2>1, <2>2 DEF PlainVoice
  <2>4. h[k] = [note |-> v.note, channel |-> v.channel, id |-> v.id, order |-> k, isActive |-> TRUE,
                keyDown |-> v.keyDown, isSustained |-> v.isSustained, isSostenuto |-> v.isSostenuto]
    BY <1>4, <2>1, <2>2
  <2>5. k \in 0 .. ForcedCapacity
    BY <1>5, <2>2 DEF Entries
  <2>6. h[k] \in HeldEntries /\ h[k].isActive /\ h[k].note = v.note /\ h[k].channel = v.channel
        /\ h[k].id = v.id /\ h[k].order = k /\ h[k].keyDown = v.keyDown
        /\ h[k].isSustained = v.isSustained /\ h[k].isSostenuto = v.isSostenuto
    BY <2>3, <2>4, <2>5 DEF HeldEntries, VoiceStates
  <2>7. PlainEntry(h[k]) /\ Identity(h[k]) = Identity(v)
    BY <2>3, <2>6 DEF PlainEntry, Identity
  <2> QED BY <2>1, <2>2, <2>6, <2>7
<1>8. \A k \in Entries : k \notin 1 .. n => h[k] = NoEntry
  BY <1>4, <1>5
<1>9. PlainHeld(h)
  <2>1. \A k \in Entries : h[k] \in HeldEntries /\ PlainEntry(h[k])
    BY <1>7, <1>8, Blanks
  <2>2. \E body : h = [k \in Entries |-> body[k]]
    <3>1. h = [k \in Entries |-> h[k]]
      BY <1>1 DEF SeedFromPoly
    <3> QED BY <3>1
  <2> QED BY <2>1, <2>2 DEF PlainHeld
<1>10. \A k \in Entries : h[k].isActive => k \in 1 .. n
  BY <1>8, Blanks
<1>11. Ranked(h)
  BY <1>7, <1>10 DEF Ranked
<1>12. ASSUME NEW s, NEW t, PoolUnder(e.pool, s, t) PROVE HeldUnder(h, s, t)
  <2>1. ASSUME NEW k \in Entries PROVE UnderPedals(h[k], s, t)
    <3>1. CASE k \in 1 .. n
      <4>1. UnderPedals(f[V[k]], s, t)
        BY <1>2, <1>7, <1>12, <3>1 DEF PoolUnder
      <4> QED BY <1>7, <3>1, <4>1 DEF UnderPedals, Under
    <3>2. CASE k \notin 1 .. n
      BY <1>8, <3>2, Blanks DEF UnderPedals
    <3> QED BY <3>1, <3>2
  <2> QED BY <2>1 DEF HeldUnder
<1>13. ASSUME NEW x PROVE KeyCount(h, Entries, x) = KeyCount(f, Slots, x)
  <2>1. PICK A : A = {k \in Entries : h[k].keyDown /\ Identity(h[k]) = x}
    OBVIOUS
  <2>2. PICK B : B = {i \in Slots : f[i].keyDown /\ Identity(f[i]) = x}
    OBVIOUS
  <2>3. A \in SUBSET Entries /\ \A k \in A : k \in 1 .. n
    BY <1>8, <2>1, Blanks
  <2>4. IsFiniteSet(A)
    BY <2>3, EntriesFinite
  <2>5. PICK g : g = [k \in A |-> V[k]]
    OBVIOUS
  <2>6. g \in [A -> B]
    BY <1>7, <2>1, <2>2, <2>3, <2>5
  <2>7. \A i, j \in A : g[i] = g[j] => i = j
    BY <1>4, <2>3, <2>5
  <2>8. ASSUME NEW j \in B PROVE \E i \in A : g[i] = j
    <3>1. j \in Slots /\ f[j].isActive /\ f[j].keyDown /\ Identity(f[j]) = x
      BY <1>6, <2>2, <2>8
    <3>2. PICK k \in 1 .. n : V[k] = j
      BY <1>4, <3>1
    <3>3. k \in Entries /\ h[k].keyDown /\ Identity(h[k]) = x
      BY <1>5, <1>7, <3>1, <3>2
    <3>4. k \in A
      BY <2>1, <3>3
    <3> QED BY <2>5, <3>2, <3>4
  <2>9. Cardinality(A) = Cardinality(B)
    BY <2>4, <2>6, <2>7, <2>8, Matched
  <2> QED BY <2>1, <2>2, <2>9 DEF KeyCount
<1>14. ASSUME Cardinality({i \in Slots : Holds(f[i])}) <= 1,
              NEW j \in KeyEntries(h), NEW k \in KeyEntries(h)
       PROVE  j = k
  <2>1. PICK H : H = {i \in Slots : Holds(f[i])}
    OBVIOUS
  <2>2. H \in SUBSET Slots
    BY <2>1
  <2>3. IsFiniteSet(H) /\ Cardinality(H) \in Nat /\ Cardinality(H) <= 1
    BY <1>14, <2>1, <2>2, SlotsFinite
  <2>4. j \in 1 .. n /\ k \in 1 .. n /\ h[j].keyDown /\ h[k].keyDown
    BY <1>8, Blanks DEF KeyEntries
  <2>5. V[j] \in H /\ V[k] \in H
    BY <1>6, <1>7, <2>1, <2>4
  <2>6. V[j] = V[k]
    <3>1. ASSUME V[j] # V[k] PROVE FALSE
      <4>1. PICK a, b : a = V[j] /\ b = V[k]
        OBVIOUS
      <4>2. {a, b} \subseteq H /\ a # b
        BY <2>5, <3>1, <4>1
      <4>3. Cardinality({a, b}) = 2
        <5>1. IsFiniteSet({a}) /\ Cardinality({a}) = 1 /\ b \notin {a}
          BY <4>2, FS_Singleton
        <5>2. Cardinality({a} \cup {b}) = 1 + 1
          BY <5>1, FS_AddElement
        <5>3. {a} \cup {b} = {a, b}
          OBVIOUS
        <5> QED BY <5>2, <5>3
      <4>4. Cardinality({a, b}) <= Cardinality(H)
        BY <2>3, <4>2, FS_Subset
      <4> QED BY <2>3, <4>3, <4>4
    <3> QED BY <3>1
  <2> QED BY <1>4, <2>4, <2>6
<1> QED BY <1>1, <1>2, <1>9, <1>11, <1>12, <1>13, <1>14

\* A player with no more than one key down has it in order.
LEMMA OneKey ==
    ASSUME NEW e, Sane(e), e.mode # "poly", NEW keys \in Seq(NoteIdentities), KeysMatch(e, keys),
           \A j, k \in KeyEntries(e.held) : j = k
    PROVE  InPressOrder(e.held, keys)
<1>1. PICK held : held = e.held
  OBVIOUS
<1>2. PlainHeld(held)
  BY <1>1 DEF Sane
<1>3. PICK n \in Nat : n = Len(keys)
  BY LenProperties
<1>4. DOMAIN keys = 1 .. n
  BY <1>3, LenProperties
<1>5. CASE KeyEntries(held) = {}
  <2>1. ASSUME n # 0 PROVE FALSE
    <3>1. 1 \in DOMAIN keys
      BY <1>4, <2>1
    <3>2. PICK i \in Entries : held[i].keyDown
      BY <1>1, <3>1, KeyIsPlayed
    <3> QED BY <1>5, <3>2 DEF KeyEntries
  <2> QED BY <1>1, <1>3, <1>5, <2>1, FS_EmptySet DEF InPressOrder
<1>6. CASE KeyEntries(held) # {}
  <2>1. PICK k \in KeyEntries(held) : TRUE
    BY <1>6
  <2>2. KeyEntries(held) = {k} /\ k \in Entries /\ held[k].keyDown
    <3>1. KeyEntries(held) = {k}
      BY <1>1, <2>1
    <3> QED BY <2>1, <3>1 DEF KeyEntries
  <2>3. PICK x : x = Identity(held[k])
    OBVIOUS
  <2>4. x \in NoteIdentities
    BY <1>2, <2>2, <2>3, HeldFields
  <2>5. KeyDown(e, x) = 1
    <3>1. {j \in Entries : held[j].keyDown /\ Identity(held[j]) = x} = {k}
      BY <2>2, <2>3 DEF KeyEntries
    <3> QED BY <1>1, <3>1, FS_Singleton DEF KeyDown
  <2>6. CountKeys(keys, x) = 1
    BY <2>4, <2>5 DEF KeysMatch
  <2>7. \A j \in 1 .. n : keys[j] = x /\ Identity(keys[j]) = x
    <3>1. ASSUME NEW j \in 1 .. n PROVE keys[j] = x
      <4>1. PICK i \in Entries : held[i].keyDown /\ Identity(held[i]) = keys[j]
        BY <1>1, <1>4, <3>1, KeyIsPlayed
      <4>2. i = k
        BY <2>2, <4>1 DEF KeyEntries
      <4> QED BY <2>3, <4>1, <4>2
    <3> QED BY <1>4, <3>1, IdentitiesAre
  <2>8. n = 1
    <3>1. {j \in DOMAIN keys : Identity(keys[j]) = x} = 1 .. n
      BY <1>4, <2>7
    <3>2. Cardinality(1 .. n) = 1
      BY <2>6, <3>1 DEF CountKeys
    <3>3. n # 0
      BY <1>4, <2>1, <2>2, <3>2, FS_EmptySet
    <3>4. Cardinality(1 .. n) = n
      BY <3>3, FS_Interval
    <3> QED BY <3>2, <3>4
  <2>9. Place(held, k) = 1
    <3>1. {j \in KeyEntries(held) : held[j].order <= held[k].order} = {k}
      BY <1>2, <2>2, HeldFields
    <3> QED BY <3>1, FS_Singleton DEF Place
  <2>10. Cardinality(KeyEntries(held)) = 1
    BY <2>2, FS_Singleton
  <2> QED BY <1>1, <1>3, <2>2, <2>3, <2>7, <2>8, <2>9, <2>10 DEF InPressOrder
<1> QED BY <1>5, <1>6

\* What an engine in that mode holds.
HeldIn(e, mode) ==
    IF mode = "poly" THEN {i \in Slots : Holds(e.pool.slot[i])} ELSE SoundingEntries(e.held)

\* What a change of the mode leaves in the history.
LEMMA ModeRemembered ==
    ASSUME IInv, NEW mode, NEW count, SetVoiceMode(mode, count),
           NEW S, S = HeldIn(engine, engine.mode), NEW e, e = ChangeMode(engine, mode, count),
           NEW K, K = HeldIn(e, mode)
    PROVE  /\ mode # engine.mode /\ (mode # "unison" <=> count = NoUnison)
           /\ engine' = [e EXCEPT !.cut = {}] /\ player' = player
           /\ history' \in Histories
           /\ history' # "notes" =>
                 \/ Rest(engine', player'.keys)
                 \/ /\ history # "notes"
                    /\ ~ (Cardinality(K) < Cardinality(S))
                    /\ mode = "poly" => \A k \in S : engine.held[k].keyDown
           /\ history' = "none" =>
                 \/ Rest(engine', player'.keys)
                 \/ history = "none" /\ (engine.mode = "poly" => ~ (Cardinality(S) > 1))
<1>1. /\ mode # engine.mode /\ (mode # "unison" <=> count = NoUnison)
      /\ engine' = [e EXCEPT !.cut = {}] /\ player' = player
  BY DEF SetVoiceMode
<1>2. Remember((\/ Cardinality(K) < Cardinality(S)
                \/ (mode = "poly" /\ \E k \in S : ~ engine.held[k].keyDown)),
               (engine.mode = "poly" /\ Cardinality(S) > 1))
  BY DEF SetVoiceMode, HeldIn
<1>3. history \in Histories
  BY DEF IInv
<1>4. \/ history' = "none" /\ Rest(engine', player'.keys)
      \/ history' = "notes"
      \/ /\ ~ (Cardinality(K) < Cardinality(S))
         /\ mode = "poly" => \A k \in S : engine.held[k].keyDown
         /\ \/ history' = "order" /\ history = "none"
            \/ history' = history /\ ~ (engine.mode = "poly" /\ Cardinality(S) > 1 /\ history = "none")
  BY <1>2 DEF Remember, Rest
<1> QED BY <1>1, <1>3, <1>4 DEF Histories

\* The mode is now a forced one.
LEMMA ModeForced ==
    ASSUME IInv, NEW mode \in Modes, mode # "poly", NEW count \in UnisonCounts \cup {NoUnison},
           SetVoiceMode(mode, count)
    PROVE  IInv'
<1>1. /\ Fit(engine, player.sustain, player.sostenuto) /\ player \in Players /\ KeysOfPlayer
      /\ history \in Histories /\ (history # "notes" => KeysMatch(engine, player.keys))
      /\ (history = "none" => Ordered(engine, player.keys))
      /\ player.keys \in Seq(NoteIdentities)
  BY DEF IInv, Players
<1>2. PICK s, t : s = player.sustain /\ t = player.sostenuto
  OBVIOUS
<1>3. /\ Sane(engine) /\ engine \in Engines /\ PlainPool(engine.pool) /\ PlainHeld(engine.held)
      /\ Ranked(engine.held) /\ PoolUnder(engine.pool, s, t) /\ HeldUnder(engine.held, s, t)
      /\ engine.sustain \subseteq s /\ engine.sostenuto \subseteq t
  BY <1>1, <1>2 DEF Fit, Sane, PedalsKnown
<1>4. PICK held : held = IF engine.mode = "poly" THEN SeedFromPoly(engine) ELSE engine.held
  OBVIOUS
<1>5. /\ PlainHeld(held) /\ Ranked(held) /\ HeldUnder(held, s, t)
      /\ \A x : KeyCount(held, Entries, x) = KeyDown(engine, x)
  <2>1. CASE engine.mode = "poly"
    <3>1. held = SeedFromPoly(engine)
      BY <1>4, <2>1
    <3>2. /\ PlainHeld(held) /\ Ranked(held)
          /\ \A x : KeyCount(held, Entries, x) = KeyCount(engine.pool.slot, Slots, x)
          /\ HeldUnder(held, s, t)
      BY <1>3, <3>1, SeedHeld
    <3>3. \A x : KeyDown(engine, x) = KeyCount(engine.pool.slot, Slots, x)
      BY <2>1 DEF KeyDown, KeyCount
    <3> QED BY <3>2, <3>3
  <2>2. CASE engine.mode # "poly"
    <3>1. held = engine.held
      BY <1>4, <2>2
    <3>2. \A x : KeyDown(engine, x) = KeyCount(held, Entries, x)
      BY <2>2, <3>1 DEF KeyDown, KeyCount
    <3> QED BY <1>3, <3>1, <3>2
  <2> QED BY <2>1, <2>2
<1>6. PICK q : q = Quiet(engine, mode, count, held)
  OBVIOUS
<1>7. /\ q \in Engines /\ q.mode = mode /\ q.unison = count
      /\ q.held = held /\ q.voice = [i \in Slots |-> Silent]
      /\ q.sustain = engine.sustain /\ q.sostenuto = engine.sostenuto
      /\ Agree(q, {}) /\ Uncut(q, {})
      /\ PlainPool(q.pool) /\ \A i \in Slots : q.pool.slot[i] = Free
      /\ q.pool.sustain = {} /\ q.pool.sostenuto = {}
  <2>1. held \in [Entries -> HeldEntries]
    BY <1>5 DEF PlainHeld
  <2> QED BY <1>3, <1>6, <2>1, QuietEngine
<1>8. OwnersOf(q) = {}
  BY <1>7 DEF OwnersOf
<1>9. GatesAgree(q) /\ Uncut(q, OwnersOf(q))
  BY <1>7, <1>8 DEF GatesAgree
<1>10. PICK r : r = Resolve(q, TRUE)
  OBVIOUS
<1>11. PICK S : S = HeldIn(engine, engine.mode)
  OBVIOUS
<1>12. r = ChangeMode(engine, mode, count)
  BY <1>4, <1>6, <1>10 DEF ChangeMode, Quiet
<1>13. PICK K : K = HeldIn(r, mode)
  OBVIOUS
<1>14. /\ mode # engine.mode /\ (mode # "unison" <=> count = NoUnison)
       /\ engine' = [r EXCEPT !.cut = {}] /\ player' = player
       /\ history' \in Histories
       /\ history' # "notes" => Rest(engine', player'.keys) \/ history # "notes"
       /\ history' = "none" =>
             \/ Rest(engine', player'.keys)
             \/ history = "none" /\ (engine.mode = "poly" => ~ (Cardinality(S) > 1))
  BY <1>11, <1>12, <1>13, ModeRemembered
<1>15. Resolvable(q)
  <2>1. CutSilent(q)
    BY <1>7, EngineFields DEF CutSilent
  <2> QED BY <1>5, <1>7, <1>14, <2>1 DEF Resolvable, ForcedModes, Modes
<1>16. /\ r \in Engines /\ r.mode = mode /\ r.unison = count /\ r.pool = q.pool
       /\ r.held = held /\ r.sustain = engine.sustain /\ r.sostenuto = engine.sostenuto
       /\ GatesAgree(r) /\ Uncut(r, OwnersOf(r))
       /\ (SoundingEntries(held) # {} => PlaysTop(r) /\ 1 \notin r.cut) /\ CutSilent(r)
  <2>1. PICK b \in BOOLEAN : r = Resolve(q, b)
    BY <1>10
  <2>2. /\ r \in Engines /\ r.mode = q.mode /\ r.unison = q.unison /\ r.pool = q.pool
        /\ r.held = q.held /\ r.sustain = q.sustain /\ r.sostenuto = q.sostenuto
        /\ GatesAgree(r) /\ Uncut(r, OwnersOf(r))
        /\ (SoundingEntries(q.held) # {} => PlaysTop(r) /\ 1 \notin r.cut) /\ CutSilent(r)
    BY <1>9, <1>15, <2>1, ResolvePlaysTop
  <2> QED BY <1>7, <2>2
<1>17. Fit(r, s, t)
  <2>1. OneAuthority(r)
    BY <1>7, <1>14, <1>16 DEF OneAuthority
  <2>2. PoolUnder(q.pool, s, t)
    BY <1>7, Blanks DEF PoolUnder, UnderPedals
  <2>3. PedalsKnown(r, s, t)
    BY <1>3, <1>5, <1>16, <2>2 DEF PedalsKnown
  <2> QED BY <1>5, <1>7, <1>16, <2>1, <2>3 DEF Fit, Sane
<1>18. /\ Fit(engine', s, t) /\ engine'.mode = mode /\ engine'.held = held /\ engine'.voice = r.voice
       /\ engine'.cut = {}
  <2>1. LET z == [r EXCEPT !.cut = {}]
        IN  Fit(z, s, t) /\ z.mode = r.mode /\ z.held = r.held /\ z.voice = r.voice /\ z.cut = {}
    BY <1>16, <1>17, CutsForgotten
  <2> QED BY <1>14, <1>16, <2>1
<1>19. KeysMatch(engine, player.keys) => KeysMatch(engine', player.keys)
  <2>1. \A x : KeyDown(engine', x) = KeyCount(held, Entries, x)
    BY <1>18 DEF KeyDown, KeyCount
  <2> QED BY <1>5, <2>1 DEF KeysMatch
<1>20. ASSUME history = "none", engine.mode = "poly" => ~ (Cardinality(S) > 1)
       PROVE  Ordered(engine', player.keys)
  <2>1. KeysMatch(engine, player.keys) /\ KeysMatch(engine', player.keys) /\ Sane(engine')
    BY <1>1, <1>18, <1>19, <1>20 DEF Fit
  <2>2. InPressOrder(held, player.keys)
    <3>1. CASE engine.mode = "poly"
      <4>1. S = {i \in Slots : Holds(engine.pool.slot[i])} /\ ~ (Cardinality(S) > 1)
        BY <1>11, <1>20, <3>1 DEF HeldIn
      <4>2. Cardinality(S) <= 1
        <5>1. S \in SUBSET Slots
          BY <4>1
        <5>2. Cardinality(S) \in Nat
          BY <5>1, SlotsFinite
        <5> QED BY <4>1, <5>2
      <4>3. held = SeedFromPoly(engine)
        BY <1>4, <3>1
      <4>4. \A j, k \in KeyEntries(held) : j = k
        BY <1>3, <4>1, <4>2, <4>3, SeedHeld
      <4>5. engine'.mode # "poly" /\ \A j, k \in KeyEntries(engine'.held) : j = k
        BY <1>18, <4>4
      <4> QED BY <1>1, <1>18, <2>1, <4>5, OneKey
    <3>2. CASE engine.mode # "poly"
      BY <1>1, <1>4, <1>20, <3>2 DEF Ordered
    <3> QED BY <3>1, <3>2
  <2>3. ASSUME player.keys # <<>> PROVE PlaysTop(engine')
    <3>1. Len(player.keys) # 0
      BY <1>1, <2>3, EmptySeq
    <3>2. KeyEntries(held) # {}
      BY <2>2, <3>1, FS_EmptySet DEF InPressOrder
    <3>3. SoundingEntries(held) # {}
      BY <1>5, <3>2, HeldFields DEF KeyEntries, SoundingEntries
    <3> QED BY <1>16, <1>18, <3>3 DEF PlaysTop
  <2> QED BY <1>18, <2>2, <2>3 DEF Ordered
<1>21. KeysOfPlayer'
  BY <1>1, <1>14 DEF KeysOfPlayer
<1> QED BY <1>1, <1>2, <1>14, <1>18, <1>19, <1>20, <1>21, Closes

\* The entry that is pressed again as the n-th.
NthEntry(held, n) ==
    CHOOSE k \in SoundingEntries(held) :
        Cardinality({j \in SoundingEntries(held) : held[j].order <= held[k].order}) = n

\* The voices are made again entry by entry.
LEMMA Replayed ==
    ASSUME NEW e, NEW held
    PROVE  LET N == Cardinality(SoundingEntries(held))
           IN  /\ N \in Nat
               /\ \E f : /\ f[0] = e
                         /\ \A n \in 1 .. N : f[n] = PressAgain(f[n - 1], held[NthEntry(held, n)])
                         /\ RebuildPoly(e, held) = f[N]
<1> DEFINE N == Cardinality(SoundingEntries(held))
           Replay(f, m) == f = [n \in 0 .. m |-> IF n = 0 THEN e
                                                 ELSE PressAgain(f[n - 1], held[NthEntry(held, n)])]
           Bad == {m \in Nat : ~ \E f : Replay(f, m)}
<1>1. N \in Nat
  <2>1. SoundingEntries(held) \in SUBSET Entries
    BY DEF SoundingEntries
  <2> QED BY <2>1, EntriesFinite
<1>2. \E f : Replay(f, 0)
  <2>1. Replay([n \in 0 .. 0 |-> e], 0)
    OBVIOUS
  <2> QED BY <2>1
<1>3. ASSUME NEW m \in Nat, NEW f, Replay(f, m) PROVE \E g : Replay(g, m + 1)
  <2> HIDE DEF Replay
  <2>1. PICK g : g = [n \in 0 .. m + 1 |-> IF n = m + 1 THEN PressAgain(f[m], held[NthEntry(held, m + 1)])
                                           ELSE f[n]]
    OBVIOUS
  <2>2. /\ g[m + 1] = PressAgain(f[m], held[NthEntry(held, m + 1)])
        /\ \A n \in 0 .. m : g[n] = f[n]
    BY <1>3, <2>1
  <2>3. \A n \in 0 .. m : f[n] = IF n = 0 THEN e ELSE PressAgain(f[n - 1], held[NthEntry(held, n)])
    BY <1>3 DEF Replay
  <2>4. ASSUME NEW n \in 0 .. m + 1
        PROVE  g[n] = IF n = 0 THEN e ELSE PressAgain(g[n - 1], held[NthEntry(held, n)])
    <3>1. CASE n = m + 1
      <4>1. n # 0 /\ n - 1 = m /\ m \in 0 .. m
        BY <1>3, <3>1
      <4>2. g[n - 1] = f[m]
        BY <2>2, <4>1
      <4> QED BY <2>2, <3>1, <4>1, <4>2
    <3>2. CASE n = 0
      <4>1. n \in 0 .. m
        BY <1>3, <3>2
      <4> QED BY <2>2, <2>3, <3>2, <4>1
    <3>3. CASE n # 0 /\ n # m + 1
      <4>1. n \in 0 .. m /\ n - 1 \in 0 .. m
        BY <1>3, <2>4, <3>3
      <4> QED BY <2>2, <2>3, <3>3, <4>1
    <3> QED BY <3>1, <3>2, <3>3
  <2>5. g = [n \in 0 .. m + 1 |-> g[n]]
    BY <2>1
  <2>6. Replay(g, m + 1)
    BY <2>4, <2>5 DEF Replay
  <2> QED BY <2>6
<1> HIDE DEF Replay
<1>4. Bad = {}
  <2>1. ASSUME Bad # {} PROVE FALSE
    <3>1. PICK m \in Bad : \A k \in Bad : ~ (<<k, m>> \in OpToRel(<, Nat))
      BY <2>1, NatLessThanWellFounded, WFMin
    <3>2. m \in Bad /\ m \in Nat /\ \A k \in Nat : k < m => k \notin Bad
      BY <3>1 DEF OpToRel
    <3>3. CASE m = 0
      BY <1>2, <3>2, <3>3
    <3>4. CASE m # 0
      <4>1. m - 1 \in Nat /\ (m - 1) + 1 = m /\ m - 1 \notin Bad
        BY <3>2, <3>4
      <4> QED BY <1>3, <3>2, <4>1
    <3> QED BY <3>3, <3>4
  <2> QED BY <2>1
<1>5. PICK g : g = CHOOSE f : Replay(f, N)
  OBVIOUS
<1>6. Replay(g, N)
  BY <1>1, <1>4, <1>5
<1>7. RebuildPoly(e, held) = g[N]
  BY <1>5 DEF RebuildPoly, Replay, NthEntry
<1>8. g[0] = e /\ \A n \in 1 .. N : g[n] = PressAgain(g[n - 1], held[NthEntry(held, n)])
  <2> HIDE DEF N
  <2>1. \A n \in 0 .. N : g[n] = IF n = 0 THEN e ELSE PressAgain(g[n - 1], held[NthEntry(held, n)])
    BY <1>6 DEF Replay
  <2> QED BY <1>1, <2>1
<1> QED BY <1>1, <1>7, <1>8

\* The voices while they are made again.
Rebuilt(e, s, t) ==
    /\ e \in Engines /\ e.mode = "poly" /\ \A i \in Slots : e.voice[i] = Silent
    /\ PlainPool(e.pool) /\ e.pool.sustain = {} /\ e.pool.sostenuto = {}
    /\ \A i \in Slots : UnderPedals(e.pool.slot[i], s, t)
    /\ Agree(e, OwnersOf(e)) /\ Uncut(e, OwnersOf(e))

LEMMA PressedAgain ==
    ASSUME NEW e, NEW s, NEW t, Rebuilt(e, s, t), NEW entry \in HeldEntries, PlainEntry(entry),
           Holds(entry), UnderPedals(entry, s, t)
    PROVE  LET r == PressAgain(e, entry)
           IN  /\ Rebuilt(r, s, t)
               /\ \E i \in Slots :
                     /\ r.pool.slot[i].keyDown /\ Identity(r.pool.slot[i]) = Identity(entry)
                     /\ Holds(r.pool.slot[i])
                     /\ \A j \in Slots : j # i => r.pool.slot[j] = e.pool.slot[j]
<1>1. /\ e \in Engines /\ e.mode = "poly" /\ \A i \in Slots : e.voice[i] = Silent
      /\ PlainPool(e.pool) /\ e.pool.sustain = {} /\ e.pool.sostenuto = {}
      /\ \A i \in Slots : UnderPedals(e.pool.slot[i], s, t)
      /\ Agree(e, OwnersOf(e)) /\ Uncut(e, OwnersOf(e))
  BY DEF Rebuilt
<1>2. PICK note, channel, id : note = entry.note /\ channel = entry.channel /\ id = entry.id
  OBVIOUS
<1>3. /\ entry.isActive /\ note \in Notes /\ channel \in AnyNoteChannel /\ id \in NoteIds \cup {Anonymous}
      /\ entry.isSustained \in BOOLEAN /\ entry.isSostenuto \in BOOLEAN /\ entry.keyDown \in BOOLEAN
  BY <1>2 DEF Holds, PlainEntry, HeldEntries, AnyNoteChannel
<1>4. PICK i : i = NoteOnSlot(e.pool, note, channel, id)
  OBVIOUS
<1>5. PICK q : q = NoteOn(e.pool, note, channel, id)
  OBVIOUS
<1>6. PICK y : y = [note |-> note, channel |-> channel, id |-> id]
  OBVIOUS
<1>7. /\ i \in Slots /\ PlainPool(q) /\ q.sustain = e.pool.sustain /\ q.sostenuto = e.pool.sostenuto
      /\ y \in NoteIdentities /\ Identity(q.slot[i]) = y /\ q.slot[i].keyDown
      /\ q.slot[i] = Started(note, channel, id)
      /\ \A j \in Slots : j # i => q.slot[j] = e.pool.slot[j]
  BY <1>1, <1>3, <1>4, <1>5, <1>6, NoteOnPool
<1>8. PICK b \in BOOLEAN : b = (~ entry.keyDown /\ entry.isSustained)
  OBVIOUS
<1>9. PICK c \in BOOLEAN : c = (~ entry.keyDown /\ entry.isSostenuto)
  OBVIOUS
<1>10. PICK v : v = [note |-> note, channel |-> channel, id |-> id, age |-> 0, isActive |-> TRUE,
                     keyDown |-> TRUE, isSustained |-> b, isSostenuto |-> c]
  OBVIOUS
<1>11. v \in VoiceStates /\ PlainVoice(v) /\ v.keyDown /\ Holds(v) /\ Identity(v) = Identity(entry)
  <2>1. /\ v \in VoiceStates /\ v.note = note /\ v.channel = channel /\ v.id = id /\ v.isActive
        /\ v.keyDown
    BY <1>3, <1>10 DEF VoiceStates, AnyNoteChannel
  <2> QED BY <1>2, <1>3, <2>1 DEF PlainVoice, Holds, Identity
<1>12. UnderPedals(v, s, t)
  <2>1. v.keyDown /\ v.isSostenuto = c /\ v.channel = entry.channel
    BY <1>2, <1>10
  <2>2. c => Under(entry, t)
    BY <1>3, <1>9 DEF UnderPedals
  <2> QED BY <2>1, <2>2 DEF UnderPedals, Under
<1>13. PICK slot : slot = [q.slot EXCEPT ![i] = v]
  OBVIOUS
<1>14. /\ slot \in [Slots -> VoiceStates] /\ slot[i] = v
       /\ \A j \in Slots : j # i => slot[j] = q.slot[j]
  BY <1>7, <1>11, <1>13, PlainFields
<1>15. \A j \in Slots : PlainVoice(slot[j])
  BY <1>7, <1>11, <1>14, PlainFields
<1>16. PICK p : p = [q EXCEPT !.slot = slot]
  OBVIOUS
<1>17. PlainPool(p) /\ p.slot = slot /\ p.sustain = {} /\ p.sostenuto = {}
  BY <1>1, <1>7, <1>14, <1>15, <1>16, OtherSlots
<1>18. p = [q EXCEPT !.slot[i].isSustained = ~ entry.keyDown /\ entry.isSustained,
                     !.slot[i].isSostenuto = ~ entry.keyDown /\ entry.isSostenuto]
  <2>1. PICK w : w = q.slot[i]
    OBVIOUS
  <2>2. [w EXCEPT !.isSustained = b, !.isSostenuto = c] = v
    <3>1. w = [note |-> note, channel |-> channel, id |-> id, age |-> 0, isActive |-> TRUE,
               keyDown |-> TRUE, isSustained |-> FALSE, isSostenuto |-> FALSE]
      BY <1>7, <2>1 DEF Started
    <3>2. w \in VoiceStates
      BY <1>7, <2>1, PlainFields
    <3>3. /\ w.note = note /\ w.channel = channel /\ w.id = id /\ w.age = 0 /\ w.isActive = TRUE
          /\ w.keyDown = TRUE
      BY <3>1
    <3>4. PICK u : u = [w EXCEPT !.isSustained = b, !.isSostenuto = c]
      OBVIOUS
    <3>5. /\ u \in VoiceStates /\ u.note = note /\ u.channel = channel /\ u.id = id /\ u.age = 0
          /\ u.isActive = TRUE /\ u.keyDown = TRUE /\ u.isSustained = b /\ u.isSostenuto = c
      BY <3>2, <3>3, <3>4 DEF VoiceStates
    <3>6. u = v
      BY <1>10, <3>5 DEF VoiceStates
    <3> QED BY <3>4, <3>6
  <2>3. q \in Pools /\ q.slot \in [Slots -> VoiceStates]
    BY <1>7, PlainFields
  <2> QED BY <1>7, <1>8, <1>9, <1>13, <1>16, <2>1, <2>2, <2>3 DEF Pools
<1>19. PICK a : a = [e EXCEPT !.pool = p]
  OBVIOUS
<1>20. /\ a \in Engines /\ a.pool = p /\ a.mode = e.mode /\ a.voice = e.voice
       /\ a.gate = e.gate /\ a.restart = e.restart /\ a.early = e.early /\ a.cut = e.cut
  <2>1. p \in Pools
    BY <1>17 DEF PlainPool
  <2> QED BY <1>1, <1>19, <2>1, OtherPool
<1>21. PICK S : S = {i}
  OBVIOUS
<1>22. PICK r : r = StartVoices(a, S)
  OBVIOUS
<1>23. PressAgain(e, entry) = r
  BY <1>2, <1>4, <1>5, <1>18, <1>19, <1>21, <1>22 DEF PressAgain
<1>24. S \in SUBSET Slots
  BY <1>7, <1>21
<1>25. PICK O : O = OwnersOf(e)
  OBVIOUS
<1>26. Agree(a, O) /\ Uncut(a, O)
  BY <1>1, <1>20, <1>25, SameChipsAgree
<1>27. r \in Engines /\ SameNotes(r, a) /\ Agree(r, O \cup S) /\ Uncut(r, O \cup S)
  BY <1>20, <1>22, <1>24, <1>26, StartVoicesChips
<1>28. r.mode = "poly" /\ r.pool = p /\ r.voice = e.voice
  BY <1>1, <1>20, <1>27 DEF SameNotes
<1>29. /\ p.slot[i] = v /\ \A j \in Slots : j # i => p.slot[j] = e.pool.slot[j]
  BY <1>7, <1>14, <1>17
<1>30. OwnersOf(r) = O \cup S
  <2>1. OwnersOf(r) = {j \in Slots : Holds(p.slot[j])} /\ O = {j \in Slots : Holds(e.pool.slot[j])}
    BY <1>1, <1>25, <1>28 DEF OwnersOf
  <2> QED BY <1>7, <1>11, <1>21, <1>29, <2>1
<1>31. \A j \in Slots : UnderPedals(p.slot[j], s, t)
  BY <1>1, <1>12, <1>29
<1>32. Rebuilt(r, s, t)
  BY <1>1, <1>17, <1>27, <1>28, <1>30, <1>31 DEF Rebuilt
<1> QED BY <1>7, <1>11, <1>23, <1>28, <1>29, <1>32

\* An entry that is pressed again takes one voice.
LEMMA OneVoiceMore ==
    ASSUME NEW e, NEW s, NEW t, Rebuilt(e, s, t), NEW entry \in HeldEntries, PlainEntry(entry),
           Holds(entry), UnderPedals(entry, s, t), NEW n \in Nat, Cardinality(OwnersOf(e)) <= n
    PROVE  LET r == PressAgain(e, entry)
           IN  /\ Rebuilt(r, s, t) /\ Cardinality(OwnersOf(r)) <= n + 1
               /\ Cardinality(OwnersOf(r)) = n + 1 =>
                     /\ Cardinality(OwnersOf(e)) = n
                     /\ \A x : KeyCount(r.pool.slot, Slots, x) =
                               KeyCount(e.pool.slot, Slots, x) + (IF Identity(entry) = x THEN 1 ELSE 0)
<1>1. PICK r : r = PressAgain(e, entry)
  OBVIOUS
<1>2. /\ Rebuilt(r, s, t)
      /\ \E i \in Slots :
            /\ r.pool.slot[i].keyDown /\ Identity(r.pool.slot[i]) = Identity(entry)
            /\ Holds(r.pool.slot[i])
            /\ \A j \in Slots : j # i => r.pool.slot[j] = e.pool.slot[j]
  BY <1>1, PressedAgain
<1>3. PICK i \in Slots :
            /\ r.pool.slot[i].keyDown /\ Identity(r.pool.slot[i]) = Identity(entry)
            /\ Holds(r.pool.slot[i])
            /\ \A j \in Slots : j # i => r.pool.slot[j] = e.pool.slot[j]
  BY <1>2
<1>4. PICK f, g : f = e.pool.slot /\ g = r.pool.slot
  OBVIOUS
<1>5. PICK O : O = OwnersOf(e)
  OBVIOUS
<1>6. /\ O = {j \in Slots : Holds(f[j])} /\ OwnersOf(r) = {j \in Slots : Holds(g[j])}
      /\ PlainPool(e.pool)
  BY <1>2, <1>4, <1>5 DEF OwnersOf, Rebuilt
<1>7. /\ g[i].keyDown /\ Identity(g[i]) = Identity(entry) /\ Holds(g[i])
      /\ \A j \in Slots : j # i => g[j] = f[j]
  BY <1>3, <1>4
<1>8. OwnersOf(r) = O \cup {i}
  BY <1>3, <1>6, <1>7
<1>9. O \in SUBSET Slots
  BY <1>6
<1>10. IsFiniteSet(O) /\ Cardinality(O) \in Nat /\ Cardinality(O) <= n
  BY <1>5, <1>9, SlotsFinite
<1>11. CASE i \in O
  <2>1. OwnersOf(r) = O
    BY <1>8, <1>11
  <2> QED BY <1>1, <1>2, <1>10, <2>1
<1>12. CASE i \notin O
  <2>1. Cardinality(O \cup {i}) = Cardinality(O) + 1
    BY <1>10, <1>12, FS_AddElement
  <2>2. ~ f[i].keyDown
    <3>1. ~ Holds(f[i])
      BY <1>3, <1>6, <1>12
    <3> QED BY <1>3, <1>4, <1>6, <3>1, PlainFields
  <2>3. ASSUME NEW x PROVE KeyCount(g, Slots, x) = KeyCount(f, Slots, x) + (IF Identity(entry) = x THEN 1 ELSE 0)
    <3>1. PICK D : D = Slots
      OBVIOUS
    <3>2. IsFiniteSet(D) /\ i \in D
      BY <1>3, <3>1, SlotsFinite
    <3>3. /\ i \in D /\ ~ f[i].keyDown /\ g[i].keyDown
          /\ \A j \in D : j # i => (f[j].keyDown <=> g[j].keyDown)
                                   /\ (f[j].keyDown => Identity(g[j]) = Identity(f[j]))
      BY <1>7, <2>2, <3>1, <3>2
    <3>4. KeyCount(g, D, x) = KeyCount(f, D, x) + (IF Identity(g[i]) = x THEN 1 ELSE 0)
      BY <3>2, <3>3, KeyCountAdd
    <3> QED BY <1>7, <3>1, <3>4
  <2>4. Cardinality(OwnersOf(r)) = Cardinality(O) + 1
    BY <1>8, <2>1
  <2> QED BY <1>1, <1>2, <1>4, <1>5, <1>10, <2>3, <2>4
<1> QED BY <1>11, <1>12

\* The entries in the order in which they are pressed again.
LEMMA EntryOrder ==
    ASSUME NEW held, PlainHeld(held), Ranked(held), NEW S, S = SoundingEntries(held), NEW N, N = Cardinality(S)
    PROVE  /\ S \in SUBSET Entries /\ IsFiniteSet(S) /\ N \in Nat
           /\ \E rank : /\ \A k \in S : rank[k] \in 1 .. N
                        /\ \A n \in 1 .. N : NthEntry(held, n) \in S /\ rank[NthEntry(held, n)] = n
                        /\ \A j, k \in S : rank[j] = rank[k] => j = k
<1>1. S \in SUBSET Entries /\ \A k \in S : Holds(held[k])
  BY DEF SoundingEntries
<1>2. IsFiniteSet(S) /\ Cardinality(S) \in Nat
  BY <1>1, EntriesFinite
<1>3. \A k \in S : held[k].order \in Int /\ held[k].isActive
  BY <1>1, HeldFields DEF Holds
<1>4. PICK o : o = [k \in S |-> held[k].order]
  OBVIOUS
<1>5. PICK upto : upto = [k \in S |-> {j \in S : held[j].order <= held[k].order}]
  OBVIOUS
<1>6. PICK rank : rank = [k \in S |-> Cardinality({j \in S : held[j].order <= held[k].order})]
  OBVIOUS
<1>7. \A k \in S : o[k] \in Int
  BY <1>3, <1>4
<1>8. \A j, k \in S : o[j] = o[k] => j = k
  BY <1>1, <1>3, <1>4 DEF Ranked
<1>9. \A k \in S : upto[k] \subseteq S /\ rank[k] = Cardinality(upto[k])
  BY <1>5, <1>6
<1>10. \A j, k \in S : j \in upto[k] <=> o[j] <= o[k]
  BY <1>4, <1>5
<1>11. /\ \A k \in S : rank[k] \in 1 .. Cardinality(S)
       /\ \A j, k \in S : rank[j] = rank[k] => j = k
       /\ \A n \in 1 .. Cardinality(S) : \E k \in S : rank[k] = n
  BY <1>2, <1>7, <1>8, <1>9, <1>10, IntegerRanks
<1>12. ASSUME NEW n \in 1 .. N PROVE NthEntry(held, n) \in S /\ rank[NthEntry(held, n)] = n
  <2>1. NthEntry(held, n) = CHOOSE k \in S : Cardinality({j \in S : held[j].order <= held[k].order}) = n
    BY DEF NthEntry
  <2>2. \E k \in S : Cardinality({j \in S : held[j].order <= held[k].order}) = n
    BY <1>6, <1>11, <1>12
  <2>3. NthEntry(held, n) \in S
        /\ Cardinality({j \in S : held[j].order <= held[NthEntry(held, n)].order}) = n
    BY <2>1, <2>2
  <2> QED BY <1>6, <2>3
<1> QED BY <1>1, <1>2, <1>11, <1>12

\* The entries of x up to the n-th.
UpTo(S, held, rank, n, x) == {j \in S : rank[j] <= n /\ Identity(held[j]) = x}

LEMMA EntriesUpTo ==
    ASSUME NEW S, IsFiniteSet(S), NEW held, NEW rank, NEW n \in Nat, NEW k \in S, rank[k] = n + 1,
           \A j \in S : rank[j] \in Int, \A j \in S : rank[j] = rank[k] => j = k, NEW x
    PROVE  Cardinality(UpTo(S, held, rank, n + 1, x)) =
           Cardinality(UpTo(S, held, rank, n, x)) + (IF Identity(held[k]) = x THEN 1 ELSE 0)
<1>1. PICK A, B : A = {j \in S : rank[j] <= n /\ Identity(held[j]) = x}
                  /\ B = {j \in S : rank[j] <= n + 1 /\ Identity(held[j]) = x}
  OBVIOUS
<1>2. A \subseteq S /\ k \notin A
  BY <1>1
<1>3. IsFiniteSet(A) /\ Cardinality(A) \in Nat
  BY <1>2, FS_Subset, FS_CardinalityType
<1>4. \A j \in S : rank[j] <= n + 1 <=> (rank[j] <= n \/ j = k)
  OBVIOUS
<1>5. ASSUME Identity(held[k]) = x PROVE Cardinality(B) = Cardinality(A) + 1
  <2>1. B = A \cup {k}
    BY <1>1, <1>4, <1>5
  <2>2. Cardinality(A \cup {k}) = Cardinality(A) + 1
    BY <1>2, <1>3, FS_AddElement
  <2> QED BY <1>5, <2>1, <2>2
<1>6. ASSUME Identity(held[k]) # x PROVE Cardinality(B) = Cardinality(A) + 0
  <2>1. B = A
    BY <1>1, <1>4, <1>6
  <2> QED BY <1>3, <1>6, <2>1
<1> QED BY <1>1, <1>5, <1>6 DEF UpTo

\* The voices that are made again are under the pedals of their entries.  Where every entry has
\* got a voice of its own, the keys are those of the entries.
LEMMA RebuiltKeys ==
    ASSUME NEW e, NEW s, NEW t, Rebuilt(e, s, t), \A i \in Slots : e.pool.slot[i] = Free,
           NEW held, PlainHeld(held), Ranked(held), HeldUnder(held, s, t)
    PROVE  LET r == RebuildPoly(e, held)
               S == SoundingEntries(held)
           IN  /\ Rebuilt(r, s, t)
               /\ ~ (Cardinality(OwnersOf(r)) < Cardinality(S)) =>
                     \A x : KeyCount(r.pool.slot, Slots, x) = Cardinality({k \in S : Identity(held[k]) = x})
<1>1. PICK S : S = SoundingEntries(held)
  OBVIOUS
<1>2. PICK N : N = Cardinality(S)
  OBVIOUS
<1>3. /\ S \in SUBSET Entries /\ IsFiniteSet(S) /\ N \in Nat
      /\ \E rank : /\ \A k \in S : rank[k] \in 1 .. N
                   /\ \A n \in 1 .. N : NthEntry(held, n) \in S /\ rank[NthEntry(held, n)] = n
                   /\ \A j, k \in S : rank[j] = rank[k] => j = k
  BY <1>1, <1>2, EntryOrder
<1>4. PICK rank : /\ \A k \in S : rank[k] \in 1 .. N
                  /\ \A n \in 1 .. N : NthEntry(held, n) \in S /\ rank[NthEntry(held, n)] = n
                  /\ \A j, k \in S : rank[j] = rank[k] => j = k
  BY <1>3
<1>5. PICK f : /\ f[0] = e
               /\ \A n \in 1 .. N : f[n] = PressAgain(f[n - 1], held[NthEntry(held, n)])
               /\ RebuildPoly(e, held) = f[N]
  BY <1>1, <1>2, Replayed
<1> DEFINE Upto(n, x) == UpTo(S, held, rank, n, x)
           Good(n) == /\ Rebuilt(f[n], s, t) /\ Cardinality(OwnersOf(f[n])) <= n
                      /\ Cardinality(OwnersOf(f[n])) = n =>
                            \A x : KeyCount(f[n].pool.slot, Slots, x) = Cardinality(Upto(n, x))
           Bad == {n \in Nat : n <= N /\ ~ Good(n)}
<1>6. Good(0)
  <2>1. OwnersOf(e) = {}
    BY Blanks DEF OwnersOf, Rebuilt
  <2>2. ASSUME NEW x PROVE KeyCount(e.pool.slot, Slots, x) = 0 /\ Cardinality(Upto(0, x)) = 0
    <3>1. \A i \in Slots : ~ e.pool.slot[i].keyDown
      BY Blanks
    <3>2. KeyCount(e.pool.slot, Slots, x) = 0
      BY <3>1, SlotsFinite, KeyCountType
    <3>3. Upto(0, x) = {}
      BY <1>3, <1>4 DEF UpTo
    <3> HIDE DEF Upto
    <3> QED BY <3>2, <3>3, FS_EmptySet
  <2> HIDE DEF Upto
  <2>3. Cardinality(OwnersOf(e)) = 0
    BY <2>1, FS_EmptySet
  <2> QED BY <1>5, <2>2, <2>3
<1>7. ASSUME NEW n \in Nat, n + 1 <= N, Good(n) PROVE Good(n + 1)
  <2>1. n + 1 \in 1 .. N /\ (n + 1) - 1 = n
    BY <1>3, <1>7
  <2>2. PICK k : k = NthEntry(held, n + 1)
    OBVIOUS
  <2>3. /\ k \in S /\ k \in Entries /\ rank[k] = n + 1 /\ f[n + 1] = PressAgain(f[n], held[k])
    BY <1>3, <1>4, <1>5, <2>1, <2>2
  <2>4. PICK a, b : a = f[n] /\ b = f[n + 1]
    OBVIOUS
  <2>5. PICK entry : entry = held[k]
    OBVIOUS
  <2>6. entry \in HeldEntries /\ PlainEntry(entry) /\ Holds(entry) /\ UnderPedals(entry, s, t)
    BY <1>1, <2>3, <2>5, HeldFields DEF SoundingEntries, HeldUnder
  <2>7. Rebuilt(a, s, t) /\ Cardinality(OwnersOf(a)) <= n /\ b = PressAgain(a, entry)
    BY <1>7, <2>3, <2>4, <2>5
  <2>8. /\ Rebuilt(b, s, t) /\ Cardinality(OwnersOf(b)) <= n + 1
        /\ Cardinality(OwnersOf(b)) = n + 1 =>
              /\ Cardinality(OwnersOf(a)) = n
              /\ \A x : KeyCount(b.pool.slot, Slots, x) =
                        KeyCount(a.pool.slot, Slots, x) + (IF Identity(entry) = x THEN 1 ELSE 0)
    BY <1>7, <2>6, <2>7, OneVoiceMore
  <2>9. ASSUME NEW x, Cardinality(OwnersOf(b)) = n + 1
        PROVE  KeyCount(b.pool.slot, Slots, x) = Cardinality(Upto(n + 1, x))
    <3>1. KeyCount(a.pool.slot, Slots, x) = Cardinality(Upto(n, x))
      BY <1>7, <2>4, <2>8, <2>9
    <3>2. \A j \in S : rank[j] \in Int
      BY <1>3, <1>4
    <3>3. Cardinality(Upto(n + 1, x)) = Cardinality(Upto(n, x)) + (IF Identity(held[k]) = x THEN 1 ELSE 0)
      BY <1>3, <1>4, <1>7, <2>3, <3>2, EntriesUpTo
    <3> HIDE DEF Upto
    <3> QED BY <2>5, <2>8, <2>9, <3>1, <3>3
  <2> HIDE DEF Upto
  <2> QED BY <2>4, <2>8, <2>9
<1> HIDE DEF Good
<1>8. Good(N)
  <2>1. ASSUME Bad # {} PROVE FALSE
    <3>1. PICK m \in Bad : \A k \in Bad : ~ (<<k, m>> \in OpToRel(<, Nat))
      BY <2>1, NatLessThanWellFounded, WFMin
    <3>2. m \in Nat /\ m <= N /\ ~ Good(m) /\ \A k \in Nat : k < m => k \notin Bad
      BY <3>1 DEF OpToRel
    <3>3. CASE m = 0
      BY <1>6, <3>2, <3>3
    <3>4. CASE m # 0
      <4>1. m - 1 \in Nat /\ (m - 1) + 1 = m /\ m - 1 < m /\ m - 1 <= N
        BY <1>3, <3>2, <3>4
      <4>2. Good(m - 1)
        BY <3>2, <4>1
      <4> QED BY <1>7, <3>2, <4>1, <4>2
    <3> QED BY <3>3, <3>4
  <2> QED BY <1>3, <2>1
<1>9. PICK r : r = f[N]
  OBVIOUS
<1>10. /\ Rebuilt(r, s, t) /\ Cardinality(OwnersOf(r)) <= N
       /\ Cardinality(OwnersOf(r)) = N =>
             \A x : KeyCount(r.pool.slot, Slots, x) = Cardinality(Upto(N, x))
  BY <1>8, <1>9 DEF Good
<1>11. \A x : Upto(N, x) = {k \in S : Identity(held[k]) = x}
  BY <1>3, <1>4 DEF UpTo
<1>12. Cardinality(OwnersOf(r)) \in Nat
  <2>1. OwnersOf(r) \in SUBSET Slots
    BY DEF OwnersOf
  <2> QED BY <2>1, SlotsFinite
<1> HIDE DEF Upto
<1>13. ~ (Cardinality(OwnersOf(r)) < N) => Cardinality(OwnersOf(r)) = N
  BY <1>3, <1>10, <1>12
<1> QED BY <1>1, <1>2, <1>5, <1>9, <1>10, <1>11, <1>13

\* The mode is now Poly.
LEMMA ModePoly ==
    ASSUME IInv, NEW count \in UnisonCounts \cup {NoUnison}, SetVoiceMode("poly", count)
    PROVE  IInv'
<1>1. /\ Fit(engine, player.sustain, player.sostenuto) /\ player \in Players /\ KeysOfPlayer
      /\ (history # "notes" => KeysMatch(engine, player.keys))
  BY DEF IInv
<1>2. PICK s, t : s = player.sustain /\ t = player.sostenuto
  OBVIOUS
<1>3. /\ engine \in Engines /\ PlainHeld(engine.held) /\ Ranked(engine.held)
      /\ HeldUnder(engine.held, s, t)
  BY <1>1, <1>2 DEF Fit, Sane, PedalsKnown
<1>4. PICK held : held = engine.held
  OBVIOUS
<1>5. PICK q : q = Quiet(engine, "poly", count, held)
  OBVIOUS
<1>6. /\ q \in Engines /\ q.mode = "poly" /\ q.voice = [i \in Slots |-> Silent]
      /\ Agree(q, {}) /\ Uncut(q, {})
      /\ PlainPool(q.pool) /\ \A i \in Slots : q.pool.slot[i] = Free
      /\ q.pool.sustain = {} /\ q.pool.sostenuto = {}
  <2>1. held \in [Entries -> HeldEntries] /\ "poly" \in Modes
    BY <1>3, <1>4 DEF PlainHeld, Modes
  <2> QED BY <1>3, <1>5, <2>1, QuietEngine
<1>7. OwnersOf(q) = {}
  BY <1>6, Blanks DEF OwnersOf
<1>8. Rebuilt(q, s, t)
  BY <1>6, <1>7, Blanks DEF Rebuilt, UnderPedals
<1>9. PICK r : r = RebuildPoly(q, held)
  OBVIOUS
<1>10. PICK S : S = SoundingEntries(held)
  OBVIOUS
<1>11. /\ Rebuilt(r, s, t)
       /\ ~ (Cardinality(OwnersOf(r)) < Cardinality(S)) =>
             \A x : KeyCount(r.pool.slot, Slots, x) = Cardinality({k \in S : Identity(held[k]) = x})
  BY <1>3, <1>4, <1>6, <1>8, <1>9, <1>10, RebuiltKeys
<1>12. PICK z : z = [r EXCEPT !.held = NoHeld, !.sustain = {}, !.sostenuto = {}]
  OBVIOUS
<1>13. engine.mode # "poly"
  BY DEF SetVoiceMode
<1>14. ChangeMode(engine, "poly", count) = z
  BY <1>4, <1>5, <1>9, <1>12, <1>13 DEF ChangeMode, Quiet
<1>15. /\ z \in Engines /\ z.mode = "poly" /\ z.pool = r.pool /\ z.held = NoHeld /\ z.voice = r.voice
       /\ z.sustain = {} /\ z.sostenuto = {}
       /\ z.gate = r.gate /\ z.restart = r.restart /\ z.early = r.early /\ z.cut = r.cut
  <2>1. NoHeld \in [Entries -> HeldEntries]
    BY Blanks DEF NoHeld
  <2>2. r \in Engines /\ r.mode = "poly"
    BY <1>11 DEF Rebuilt
  <2> QED BY <1>12, <2>1, <2>2 DEF Engines
<1>16. OwnersOf(z) = OwnersOf(r)
  BY <1>11, <1>15 DEF OwnersOf, Rebuilt
<1>17. Fit(z, s, t) /\ Uncut(z, OwnersOf(z))
  <2>1. /\ PlainPool(r.pool) /\ r.pool.sustain = {} /\ r.pool.sostenuto = {}
        /\ \A i \in Slots : UnderPedals(r.pool.slot[i], s, t)
        /\ \A i \in Slots : r.voice[i] = Silent
        /\ Agree(r, OwnersOf(r)) /\ Uncut(r, OwnersOf(r))
    BY <1>11 DEF Rebuilt
  <2>2. PlainHeld(NoHeld) /\ Ranked(NoHeld) /\ HeldUnder(NoHeld, s, t)
    BY Blanks DEF NoHeld, PlainHeld, Ranked, HeldUnder, UnderPedals
  <2>3. Sane(z)
    BY <1>15, <2>1, <2>2 DEF Sane, OneAuthority
  <2>4. PoolUnder(r.pool, s, t)
    BY <2>1 DEF PoolUnder
  <2>5. PedalsKnown(z, s, t)
    BY <1>15, <2>2, <2>4 DEF PedalsKnown
  <2>6. Agree(z, OwnersOf(z)) /\ Uncut(z, OwnersOf(z))
    BY <1>15, <1>16, <2>1, SameChipsAgree
  <2> QED BY <1>15, <2>2, <2>3, <2>5, <2>6 DEF Fit, GatesAgree
<1>18. PICK K : K = {i \in Slots : Holds(z.pool.slot[i])}
  OBVIOUS
<1>19. /\ engine' = [z EXCEPT !.cut = {}] /\ player' = player /\ history' \in Histories
       /\ history' # "notes" =>
             \/ Rest(engine', player'.keys)
             \/ /\ history # "notes" /\ ~ (Cardinality(K) < Cardinality(S))
                /\ \A k \in S : engine.held[k].keyDown
  <2>1. PICK mode : mode = "poly"
    OBVIOUS
  <2>2a. S = HeldIn(engine, engine.mode)
    BY <1>4, <1>10, <1>13 DEF HeldIn
  <2>2b. K = HeldIn(z, mode)
    BY <1>18, <2>1 DEF HeldIn
  <2>2c. z = ChangeMode(engine, mode, count)
    BY <1>14, <2>1
  <2>2d. SetVoiceMode(mode, count)
    BY <2>1
  <2>3. /\ engine' = [z EXCEPT !.cut = {}] /\ player' = player
        /\ history' \in Histories
        /\ history' # "notes" =>
              \/ Rest(engine', player'.keys)
              \/ /\ history # "notes"
                 /\ ~ (Cardinality(K) < Cardinality(S))
                 /\ mode = "poly" => \A k \in S : engine.held[k].keyDown
    BY <2>2a, <2>2b, <2>2c, <2>2d, ModeRemembered
  <2> QED BY <2>1, <2>3
<1>20. Fit(engine', s, t) /\ engine'.mode = "poly" /\ engine'.pool = r.pool
  <2>1. LET y == [z EXCEPT !.cut = {}]
        IN  Fit(y, s, t) /\ y.mode = z.mode /\ y.pool = z.pool
    BY <1>17, CutsForgotten
  <2> QED BY <1>15, <1>19, <2>1
<1>21. ASSUME history # "notes", ~ (Cardinality(K) < Cardinality(S)), \A k \in S : engine.held[k].keyDown
       PROVE  KeysMatch(engine', player.keys)
  <2>1. K = OwnersOf(r)
    BY <1>15, <1>16, <1>18 DEF OwnersOf
  <2>2. ASSUME NEW x PROVE KeyDown(engine', x) = KeyDown(engine, x)
    <3>1. KeyDown(engine', x) = KeyCount(r.pool.slot, Slots, x)
      BY <1>20 DEF KeyDown, KeyCount
    <3>2. KeyCount(r.pool.slot, Slots, x) = Cardinality({k \in S : Identity(held[k]) = x})
      BY <1>11, <1>21, <2>1
    <3>3. {k \in S : Identity(held[k]) = x} = {k \in Entries : held[k].keyDown /\ Identity(held[k]) = x}
      <4>1. \A k \in Entries : k \in S <=> held[k].keyDown
        BY <1>3, <1>4, <1>10, <1>21, HeldFields DEF SoundingEntries
      <4>2. S \subseteq Entries
        BY <1>10 DEF SoundingEntries
      <4> QED BY <4>1, <4>2
    <3>4. KeyDown(engine, x) = Cardinality({k \in Entries : held[k].keyDown /\ Identity(held[k]) = x})
      BY <1>4, <1>13 DEF KeyDown
    <3> QED BY <3>1, <3>2, <3>3, <3>4
  <2> QED BY <1>1, <1>21, <2>2 DEF KeysMatch
<1>22. KeysOfPlayer' /\ Ordered(engine', player'.keys)
  BY <1>1, <1>19, <1>20 DEF KeysOfPlayer, Ordered
<1> QED BY <1>1, <1>2, <1>19, <1>20, <1>21, <1>22, Closes

-----------------------------------------------------------------------------
(* The invariant.                                                          *)

LEMMA InitiallyInvariant == Init => IInv
<1> SUFFICES ASSUME Init PROVE IInv
  OBVIOUS
<1>1. PICK arp \in BOOLEAN : player = [keys |-> <<>>, sustain |-> {}, sostenuto |-> {}, arp |-> arp]
  BY DEF Init
<1>2. /\ player \in Players /\ player.keys = <<>> /\ player.sustain = {} /\ player.sostenuto = {}
  BY <1>1 DEF Players
<1>3. PICK held : held = [k \in Entries |-> NoEntry]
  OBVIOUS
<1>4. PICK voice : voice = [i \in Slots |-> Silent]
  OBVIOUS
<1>5. engine = [mode |-> "poly", unison |-> NoUnison, pool |-> EmptyPool, held |-> held, voice |-> voice,
                sustain |-> {}, sostenuto |-> {}, gate |-> {}, restart |-> {}, early |-> {}, cut |-> {}]
  BY <1>3, <1>4 DEF Init
<1>6. held \in [Entries -> HeldEntries] /\ voice \in [Slots -> NoteIdentities \cup {Silent}]
  BY <1>3, <1>4, Blanks
<1>7. EmptyPool \in Pools /\ \A i \in Slots : EmptyPool.slot[i] = Free
  BY Blanks DEF EmptyPool, Pools
<1>8. /\ engine \in Engines /\ engine.mode = "poly" /\ engine.pool = EmptyPool /\ engine.held = held
      /\ engine.voice = voice /\ engine.sustain = {} /\ engine.sostenuto = {}
      /\ engine.gate = {} /\ engine.restart = {}
  BY <1>5, <1>6, <1>7 DEF Engines, Modes
<1>9. PlainPool(engine.pool) /\ PlainHeld(engine.held)
  BY <1>3, <1>6, <1>7, <1>8, Blanks DEF PlainPool, PlainHeld
<1>10. Sane(engine)
  BY <1>3, <1>4, <1>8, <1>9 DEF Sane, OneAuthority, NoHeld
<1>11. PedalsKnown(engine, player.sustain, player.sostenuto)
  BY <1>2, <1>3, <1>7, <1>8, Blanks DEF PedalsKnown, PoolUnder, HeldUnder, UnderPedals, EmptyPool
<1>12. OwnersOf(engine) = {}
  BY <1>7, <1>8, Blanks DEF OwnersOf
<1>13. GatesAgree(engine)
  BY <1>8, <1>12 DEF GatesAgree, Agree
<1>14. Ranked(engine.held)
  BY <1>3, <1>8, Blanks DEF Ranked
<1>15. \A x \in NoteIdentities : KeyDown(engine, x) = 0
  <2>1. ASSUME NEW x PROVE KeyCount(engine.pool.slot, Slots, x) = 0
    <3>1. \A i \in Slots : ~ engine.pool.slot[i].keyDown
      BY <1>7, <1>8, Blanks
    <3> QED BY <3>1, SlotsFinite, KeyCountType
  <2> QED BY <1>8, <2>1 DEF KeyDown, KeyCount
<1>16. KeysMatch(engine, player.keys) /\ Ordered(engine, player.keys)
  BY <1>2, <1>10, <1>15, AtRest
<1>17. history \in Histories
  BY DEF Init, Histories
<1>18. KeysOfPlayer
  BY <1>2 DEF KeysOfPlayer
<1> QED BY <1>2, <1>10, <1>11, <1>13, <1>14, <1>16, <1>17, <1>18 DEF IInv, Fit

LEMMA StepKeepsInvariant == IInv /\ [Next]_vars => IInv'
<1> SUFFICES ASSUME IInv, [Next]_vars PROVE IInv'
  OBVIOUS
<1>1. ASSUME NEW key \in Presses,
             IF player.arp THEN NoteOnEvent(key.note, AnyChannel, Anonymous)
             ELSE NoteOnEvent(key.note, key.channel, key.id)
      PROVE  IInv'
  <2>1. key.note \in Notes /\ key.channel \in Channels /\ key.id \in NoteIds \cup {Anonymous}
    BY PressAssumption
  <2>2. CASE player.arp
    <3>1. NoteOnEvent(key.note, AnyChannel, Anonymous) /\ PlayersKey(AnyChannel)
      BY <1>1, <2>2 DEF PlayersKey
    <3> QED BY <2>1, <3>1, NotePressed
  <2>3. CASE ~ player.arp
    <3>1. NoteOnEvent(key.note, key.channel, key.id) /\ PlayersKey(key.channel)
      BY <1>1, <2>1, <2>3 DEF PlayersKey
    <3> QED BY <2>1, <3>1, NotePressed
  <2> QED BY <2>2, <2>3
<1>2. ASSUME NEW k \in DOMAIN player.keys, NEW id \in NoteIds \cup {Anonymous}, NoteOffEvent(k, id)
      PROVE  IInv'
  BY <1>2, NoteReleased
<1>3. ASSUME NEW channel \in Channels, NEW down \in BOOLEAN, Sustain(channel, down) PROVE IInv'
  BY <1>3, Sustained
<1>4. ASSUME NEW channel \in Channels, NEW down \in BOOLEAN, Sostenuto(channel, down) PROVE IInv'
  BY <1>4, SostenutoHeld
<1>5. ASSUME NEW channel \in Channels, ResetAllControllers(channel) PROVE IInv'
  BY <1>5, ControllersReset
<1>6. ASSUME NEW channel \in Channels, AllNotesOffOn(channel) PROVE IInv'
  BY <1>6, ChannelNotesOff
<1>7. CASE AllNotesOff
  BY <1>7, AllOff
<1>8. ASSUME NEW mode \in Modes, NEW count \in UnisonCounts \cup {NoUnison}, SetVoiceMode(mode, count)
      PROVE  IInv'
  <2>1. CASE mode = "poly"
    BY <1>8, <2>1, ModePoly
  <2>2. CASE mode # "poly"
    BY <1>8, <2>2, ModeForced
  <2> QED BY <2>1, <2>2
<1>9. ASSUME NEW n \in UnisonCounts, SetUnisonCount(n) PROVE IInv'
  BY <1>9, UnisonSet
<1>10. CASE RenderSlice
  BY <1>10, Rendered
<1>11. CASE Reconcile
  BY <1>11, Reconciled
<1>12. ASSUME NEW i \in Slots, RestartEnds(i) PROVE IInv'
  BY <1>12, RestartEnded
<1>13. CASE UNCHANGED vars
  BY <1>13 DEF vars, IInv, KeysOfPlayer
<1> QED BY <1>1, <1>2, <1>3, <1>4, <1>5, <1>6, <1>7, <1>8, <1>9, <1>10, <1>11, <1>12, <1>13 DEF Next

\* The invariant from which the others follow: the authority in charge holds the keys that are
\* down, in their order where it is known; what it holds without a key is under a pedal that is
\* down; the gates follow what it holds; the other authority holds nothing.
THEOREM InductiveInvariant == Spec => []IInv
<1>1. Init => IInv
  BY InitiallyInvariant
<1>2. IInv /\ [Next]_vars => IInv'
  BY StepKeepsInvariant
<1> QED BY <1>1, <1>2, PTL DEF Spec

\* The engine, its pool of voices and its held stack stay well formed.
THEOREM TypeCorrect == Spec => []TypeOK
<1>1. IInv => TypeOK
  <2> SUFFICES ASSUME IInv PROVE TypeOK
    OBVIOUS
  <2>1. engine \in Engines /\ history \in Histories
    BY DEF IInv, Fit, Sane
  <2> QED BY <2>1 DEF TypeOK, Engines, HeldEntries, Histories
<1> QED BY <1>1, InductiveInvariant, PTL

\* As long as no voice was stolen and the host named its note-offs, the authority in charge holds
\* exactly the keys that are down, however many voices, pedals, resets and mode changes there were.
THEOREM HoldsTheKeys == Spec => []KeysMatchPresses
<1>1. IInv => KeysMatchPresses
  BY DEF IInv, KeysMatchPresses, KeysMatch, CountKeys
<1> QED BY <1>1, InductiveInvariant, PTL

\* No note sounds without its key unless it is under a pedal that the player still has down.
THEOREM HoldsUnderPedals == Spec => []PedalNotesUnderPedal
<1>1. IInv => PedalNotesUnderPedal
  <2> SUFFICES ASSUME IInv PROVE PedalNotesUnderPedal
    OBVIOUS
  <2>1. PedalsKnown(engine, player.sustain, player.sostenuto)
    BY DEF IInv, Fit
  <2>2. /\ \A i \in Slots : UnderPedals(engine.pool.slot[i], player.sustain, player.sostenuto)
        /\ \A k \in Entries : UnderPedals(engine.held[k], player.sustain, player.sostenuto)
    BY <2>1 DEF PedalsKnown, PoolUnder, HeldUnder
  <2> QED BY <2>2 DEF PedalNotesUnderPedal, UnderPedals, Under
<1> QED BY <1>1, InductiveInvariant, PTL

\* A gate is up only where a note is held, and a note that is held has its gate up or about to go
\* up, except for what is dropped during a hard restart or cut with another channel.
THEOREM GatesFollow == Spec => []GatesFollowNotes
<1>1. IInv => GatesFollowNotes
  <2> SUFFICES ASSUME IInv PROVE GatesFollowNotes
    OBVIOUS
  <2>1. Agree(engine, OwnersOf(engine))
    BY DEF IInv, Fit, GatesAgree
  <2>2. Owners = OwnersOf(engine)
    BY DEF Owners, OwnersOf
  <2> QED BY <2>1, <2>2 DEF GatesFollowNotes, Agree
<1> QED BY <1>1, InductiveInvariant, PTL

\* In a forced mode the first chip plays the key pressed last, for as long as the order of the
\* presses is known and no pedal holds a note; or it is silent, when an all-notes-off of that
\* key's channel took the note and nothing has resolved the stack since.
THEOREM PlaysTheLastKey == Spec => []LastNotePriority
<1>1. IInv => LastNotePriority
  <2> SUFFICES ASSUME IInv, engine.mode \in ForcedModes, history = "none", player.keys # <<>>,
                      \A k \in Entries : ~ Pedalled(engine.held[k])
               PROVE  engine.voice[1] = IF 1 \in engine.cut THEN Silent ELSE Identity(Last(player.keys))
    BY DEF LastNotePriority
  <2>1. PICK held : held = engine.held
    OBVIOUS
  <2>2. PICK keys : keys = player.keys
    OBVIOUS
  <2>3. /\ PlainHeld(held) /\ Ranked(held) /\ InPressOrder(held, keys) /\ PlaysTop(engine)
        /\ keys \in Seq(NoteIdentities)
    BY <2>1, <2>2 DEF IInv, Fit, Sane, Ordered, ForcedModes, Players
  <2>4. PICK n \in Nat : n = Len(keys)
    BY <2>3, LenProperties
  <2>5. n # 0 /\ DOMAIN keys = 1 .. n
    BY <2>2, <2>3, <2>4, EmptySeq, LenProperties
  <2>6. PICK K : K = SoundingEntries(held)
    OBVIOUS
  <2>7. K = KeyEntries(held) /\ K \in SUBSET Entries
    <3>1. \A k \in Entries : Holds(held[k]) <=> held[k].keyDown
      BY <2>1, <2>3, HeldFields DEF Holds
    <3> QED BY <2>6, <3>1 DEF SoundingEntries, KeyEntries
  <2>8. Cardinality(K) = n /\ K # {}
    BY <2>3, <2>4, <2>5, <2>7, FS_EmptySet DEF InPressOrder
  <2>9. PICK top : top = Newest(held, K)
    OBVIOUS
  <2>10. top \in K /\ \A j \in K : held[j].order <= held[top].order
    BY <2>3, <2>7, <2>8, <2>9, NewestExists DEF PlainHeld
  <2>11. Place(held, top) = n
    <3>1. {j \in K : held[j].order <= held[top].order} = K
      BY <2>10
    <3> QED BY <2>7, <2>8, <3>1 DEF Place
  <2>12. Identity(held[top]) = keys[n]
    BY <2>3, <2>7, <2>10, <2>11 DEF InPressOrder
  <2>13. Identity(keys[n]) = keys[n] /\ Last(keys) = keys[n]
    BY <2>3, <2>4, <2>5, IdentitiesAre DEF Last
  <2>14. engine.voice[1] = IF 1 \in engine.cut THEN Silent ELSE Identity(held[top])
    BY <2>1, <2>3, <2>6, <2>9 DEF PlaysTop
  <2> QED BY <2>2, <2>12, <2>13, <2>14
<1> QED BY <1>1, InductiveInvariant, PTL
=============================================================================
