-------------------------- MODULE PsidHandoffProofs --------------------------
(***************************************************************************)
(* Proofs about PsidHandoff for every number of callers, slots and         *)
(* requests.  A ticket is drawn once, so a player that is allocated under  *)
(* it is nowhere else; from there every step moves a player from one hand  *)
(* to the next or deletes it.                                              *)
(***************************************************************************)
EXTENDS PsidHandoff, TLAPS

Gone == freed \cup leaked

\* OneHolder, place by place.
OnePlace ==
    /\ \A c \in Callers : held[c] # Nobody =>
           /\ held[c] \notin Gone /\ held[c] \notin {incoming, live, hand}
           /\ \A s \in Ring : retired[s] # held[c]
           /\ \A d \in Callers \ {c} : held[d] # held[c]
    /\ \A s \in Ring : retired[s] # Nobody =>
           /\ retired[s] \notin Gone /\ retired[s] \notin {incoming, live, hand}
           /\ \A t \in Ring \ {s} : retired[t] # retired[s]
    /\ incoming # Nobody => incoming \notin Gone /\ incoming \notin {live, hand}
    /\ live # Nobody => live \notin Gone /\ live # hand
    /\ hand # Nobody => hand \notin Gone

\* Known, place by place.
Somewhere(p) ==
    \/ \E c \in Callers : held[c] = p
    \/ \E s \in Ring : retired[s] = p
    \/ p \in {incoming, live, hand} \/ p \in Gone

\* A player more only by an allocation, and under a ticket nobody else has.
SamePlayers ==
    /\ \A p : Somewhere(p) /\ p # Nobody => Somewhere(p)'
    /\ \A p : Somewhere(p)' /\ p # Nobody =>
           Somewhere(p) \/
               \E c \in Callers : at[c] = "admit" /\ at'[c] = "init" /\ p = ticket[c]

Building == {"init", "ready", "subtune", "publish"}

\* Tickets are drawn once.
Drawn ==
    \A c \in Callers :
        /\ ticket[c] <= generation
        /\ \A d \in Callers \ {c} : ticket[c] # Nobody => ticket[d] # ticket[c]

\* A caller has a player from its allocation to its publication, the one of its
\* ticket.
Builds ==
    \A c \in Callers :
        /\ IF at[c] \in Building THEN held[c] = ticket[c] ELSE held[c] = Nobody
        /\ at[c] = "admit" => request[c] = "load"

Waiting(c) == at[c] \in {"collect", "admit"} /\ request[c] = "load"

\* Until then, nothing of that name exists; nor of a name that nobody has drawn.
Unused ==
    /\ Known \subseteq 0 .. generation
    /\ \A c \in Callers : Waiting(c) => ticket[c] # Nobody /\ ticket[c] \notin Known

\* How a step gets a caller to wait with its ticket.
Admission ==
    /\ generation <= generation'
    /\ \A c \in Callers : Waiting(c)' =>
           \/ Waiting(c) /\ ticket'[c] = ticket[c]
           \/ /\ ticket'[c] = generation + 1 /\ generation' = generation + 1
              /\ \A d \in Callers : at[d] = "admit" => at'[d] # "init"

Tickets == Drawn /\ Builds /\ Unused

\* The render thread has a player in hand while it parks or installs it.
HandUsed == hand # Nobody <=> render \in {"park", "install"}

IInv == TypeOK /\ OnePlace /\ Tickets /\ HandUsed

-----------------------------------------------------------------------------
LEMMA PlayersAt ==
    /\ \A c \in Callers : <<"caller", c>> \in Places /\ PlayerAt(<<"caller", c>>) = held[c]
    /\ \A s \in Ring : <<"slot", s>> \in Places /\ PlayerAt(<<"slot", s>>) = retired[s]
    /\ <<"incoming">> \in Places /\ PlayerAt(<<"incoming">>) = incoming
    /\ <<"live">> \in Places /\ PlayerAt(<<"live">>) = live
    /\ <<"render">> \in Places /\ PlayerAt(<<"render">>) = hand
    /\ \A x \in Places :
           \/ \E c \in Callers : x = <<"caller", c>>
           \/ \E s \in Ring : x = <<"slot", s>>
           \/ x \in {<<"incoming">>, <<"live">>, <<"render">>}
BY DEF Places, PlayerAt

KnownPlaces == \A p : p \in Known <=> Somewhere(p)

LEMMA KnownIsSomewhere == KnownPlaces
<1>1. ASSUME NEW p, p \in Known PROVE Somewhere(p)
  <2>1. CASE p \in Gone
    BY <2>1 DEF Somewhere
  <2>2. CASE p \notin Gone
    <3>1. PICK x \in Places : p = PlayerAt(x)
      BY <1>1, <2>2 DEF Known, Gone
    <3> QED BY <3>1, PlayersAt DEF Somewhere
  <2> QED BY <2>1, <2>2
<1>2. ASSUME NEW p, Somewhere(p) PROVE p \in Known
  <2>1. CASE p \in Gone
    BY <2>1 DEF Known, Gone
  <2>2. CASE p \notin Gone
    <3>1. \E x \in Places : p = PlayerAt(x)
      BY <1>2, <2>2, PlayersAt DEF Somewhere
    <3> QED BY <3>1 DEF Known
  <2> QED BY <2>1, <2>2
<1> QED BY <1>1, <1>2 DEF KnownPlaces

LEMMA OnePlaceMeansOneHolder == OnePlace => OneHolder
<1> SUFFICES ASSUME OnePlace, NEW x \in Places, PlayerAt(x) # Nobody
             PROVE  /\ PlayerAt(x) \notin freed \cup leaked
                    /\ \A y \in Places \ {x} : PlayerAt(y) # PlayerAt(x)
  BY DEF OneHolder
<1>1. PlayerAt(x) \notin freed \cup leaked
  BY PlayersAt DEF OnePlace, Gone
<1>2. ASSUME NEW y \in Places \ {x} PROVE PlayerAt(y) # PlayerAt(x)
  <2>1. CASE \E c \in Callers : x = <<"caller", c>>
    BY <2>1, PlayersAt DEF OnePlace
  <2>2. CASE \E s \in Ring : x = <<"slot", s>>
    BY <2>2, PlayersAt DEF OnePlace
  <2>3. CASE x \in {<<"incoming">>, <<"live">>, <<"render">>}
    BY <2>3, PlayersAt DEF OnePlace
  <2> QED BY <2>1, <2>2, <2>3, PlayersAt
<1> QED BY <1>1, <1>2

-----------------------------------------------------------------------------
LEMMA RingIndices == 1 \in Ring /\ \A s \in Ring : s < Slots => s + 1 \in Ring
BY SlotsAssumption DEF Ring

LEMMA InitInvariant == Init => IInv
<1> SUFFICES ASSUME Init PROVE IInv
  OBVIOUS
<1> USE DEF Init, Nobody
<1>1. TypeOK
  BY RingIndices DEF TypeOK, SharedTypeOK, CallersTypeOK, RenderTypeOK
<1>2. OnePlace
  BY DEF OnePlace, Gone
<1>3. Known = {0}
  BY KnownIsSomewhere, PlayersAt DEF KnownPlaces, Somewhere, Gone
<1>4. Tickets
  BY <1>3 DEF Tickets, Drawn, Builds, Unused, Waiting, Building
<1> QED BY <1>1, <1>2, <1>4 DEF IInv, HandUsed

LEMMA TypeStep == TypeOK /\ [Next]_vars => TypeOK'
<1> SUFFICES ASSUME TypeOK, [Next]_vars PROVE TypeOK'
  OBVIOUS
<1> USE DEF Nobody, Player, Step, atomics, heap, history, callerVars, renderVars
<1> USE RingIndices DEF TypeOK
<1>1. ASSUME NEW c \in Callers, Load(c) PROVE TypeOK'
  <2>1. RenderTypeOK'
    BY <1>1 DEF Load, BeginLoad, LoadNothing, Admit, PassCheck, GiveUp, StoreSubtune,
                StoreSubtuneAs, Publish, RenderTypeOK
  <2>2. CallersTypeOK'
    <3> USE DEF CallersTypeOK
    <3>1. CASE BeginLoad(c) BY <3>1 DEF BeginLoad, Begin, SharedTypeOK
    <3>2. CASE LoadNothing(c) BY <3>2 DEF LoadNothing
    <3>3. CASE Admit(c) BY <3>3 DEF Admit
    <3>4. CASE PassCheck(c) BY <3>4 DEF PassCheck
    <3>5. CASE GiveUp(c) BY <3>5 DEF GiveUp
    <3>6. CASE StoreSubtune(c) BY <3>6 DEF StoreSubtune, StoreSubtuneAs
    <3>7. CASE Publish(c) BY <3>7 DEF Publish
    <3> QED BY <1>1, <3>1, <3>2, <3>3, <3>4, <3>5, <3>6, <3>7 DEF Load
  <2>3. SharedTypeOK'
    <3> USE DEF SharedTypeOK, CallersTypeOK
    <3>1. CASE BeginLoad(c) BY <3>1 DEF BeginLoad, Begin
    <3>2. CASE LoadNothing(c) BY <3>2 DEF LoadNothing
    <3>3. CASE Admit(c) BY <3>3 DEF Admit
    <3>4. CASE PassCheck(c) BY <3>4 DEF PassCheck
    <3>5. CASE GiveUp(c) BY <3>5 DEF GiveUp
    <3>6. CASE StoreSubtune(c) BY <3>6 DEF StoreSubtune, StoreSubtuneAs
    <3>7. CASE Publish(c) BY <3>7 DEF Publish
    <3> QED BY <1>1, <3>1, <3>2, <3>3, <3>4, <3>5, <3>6, <3>7 DEF Load
  <2> QED BY <2>1, <2>2, <2>3
<1>2. ASSUME NEW c \in Callers, Unload(c) PROVE TypeOK'
  <2>1. RenderTypeOK'
    BY <1>2 DEF Unload, BeginUnload, Bump, DropIncoming, DropAs, ClearSubtune,
                AskHardReset, AskUnload, RenderTypeOK
  <2>2. CallersTypeOK'
    <3> USE DEF CallersTypeOK
    <3>1. ASSUME NEW kind \in {"unload", "eject"}, BeginUnload(c, kind)
          PROVE CallersTypeOK'
      BY <3>1 DEF BeginUnload, Begin
    <3>2. CASE Bump(c) BY <3>2 DEF Bump
    <3>3. CASE DropIncoming(c) BY <3>3 DEF DropIncoming, DropAs
    <3>4. CASE ClearSubtune(c) BY <3>4 DEF ClearSubtune
    <3>5. CASE AskHardReset(c) BY <3>5 DEF AskHardReset
    <3>6. CASE AskUnload(c) BY <3>6 DEF AskUnload
    <3> QED BY <1>2, <3>1, <3>2, <3>3, <3>4, <3>5, <3>6 DEF Unload
  <2>3. SharedTypeOK'
    <3> USE DEF SharedTypeOK
    <3>1. ASSUME NEW kind \in {"unload", "eject"}, BeginUnload(c, kind)
          PROVE SharedTypeOK'
      BY <3>1 DEF BeginUnload, Begin
    <3>2. CASE Bump(c) BY <3>2 DEF Bump
    <3>3. CASE DropIncoming(c) BY <3>3 DEF DropIncoming, DropAs
    <3>4. CASE ClearSubtune(c) BY <3>4 DEF ClearSubtune
    <3>5. CASE AskHardReset(c) BY <3>5 DEF AskHardReset
    <3>6. CASE AskUnload(c) BY <3>6 DEF AskUnload
    <3> QED BY <1>2, <3>1, <3>2, <3>3, <3>4, <3>5, <3>6 DEF Unload
  <2> QED BY <2>1, <2>2, <2>3
<1>3. ASSUME NEW c \in Callers, Collect(c) PROVE TypeOK'
  <2>1. RenderTypeOK'
    BY <1>3 DEF Collect, RenderTypeOK
  <2>2. CallersTypeOK'
    BY <1>3 DEF Collect, CallersTypeOK
  <2>3. SharedTypeOK'
    <3> USE DEF SharedTypeOK, CallersTypeOK
    <3>1. freed' \subseteq Nat
      <4>1. retired[cursor[c]] \in Nat
        OBVIOUS
      <4>2. freed' = freed \cup ({retired[cursor[c]]} \ {0})
        BY <1>3 DEF Collect
      <4> QED BY <4>1, <4>2
    <3>2. retired' \in [Ring -> Nat] BY <1>3 DEF Collect
    <3> QED BY <1>3, <3>1, <3>2 DEF Collect
  <2> QED BY <2>1, <2>2, <2>3
<1>4. CASE Drain
  <2>1. CallersTypeOK'
    BY <1>4 DEF Drain, TakeUnload, Park, ParkWithin, TakeHardReset, TakeIncoming,
                TakeIncomingAs, Install, CallersTypeOK
  <2>2. RenderTypeOK'
    <3> USE DEF RenderTypeOK, SharedTypeOK
    <3>1. CASE TakeUnload BY <3>1 DEF TakeUnload, Retire
    <3>2. CASE Park BY <3>2 DEF Park, ParkWithin
    <3>3. CASE TakeHardReset BY <3>3 DEF TakeHardReset
    <3>4. CASE TakeIncoming BY <3>4 DEF TakeIncoming, TakeIncomingAs
    <3>5. CASE Install BY <3>5 DEF Install, Retire
    <3> QED BY <1>4, <3>1, <3>2, <3>3, <3>4, <3>5 DEF Drain
  <2>3. SharedTypeOK'
    <3> USE DEF RenderTypeOK, SharedTypeOK
    <3>1. CASE TakeUnload BY <3>1 DEF TakeUnload
    <3>2. CASE Park BY <3>2 DEF Park, ParkWithin
    <3>3. CASE TakeHardReset BY <3>3 DEF TakeHardReset
    <3>4. CASE TakeIncoming BY <3>4 DEF TakeIncoming, TakeIncomingAs
    <3>5. CASE Install BY <3>5 DEF Install
    <3> QED BY <1>4, <3>1, <3>2, <3>3, <3>4, <3>5 DEF Drain
  <2> QED BY <2>1, <2>2, <2>3
<1>5. CASE UNCHANGED vars
  BY <1>5 DEF vars, SharedTypeOK, CallersTypeOK, RenderTypeOK
<1> QED BY <1>1, <1>2, <1>3, <1>4, <1>5 DEF Next

\* The render thread has a player in hand exactly while it parks or installs it.
LEMMA HandStep == IInv /\ [Next]_vars => HandUsed'
<1> SUFFICES ASSUME IInv, [Next]_vars PROVE HandUsed'
  OBVIOUS
<1> USE DEF Nobody, Player, Step, atomics, heap, history, callerVars, renderVars
<1> USE DEF IInv, TypeOK, SharedTypeOK, CallersTypeOK, RenderTypeOK, HandUsed
<1>1. ASSUME NEW c \in Callers, Load(c) PROVE HandUsed'
  <2>1. CASE BeginLoad(c) BY <2>1 DEF BeginLoad, Begin
  <2>2. CASE LoadNothing(c) BY <2>2 DEF LoadNothing
  <2>3. CASE Admit(c) BY <2>3 DEF Admit
  <2>4. CASE PassCheck(c) BY <2>4 DEF PassCheck
  <2>5. CASE GiveUp(c) BY <2>5 DEF GiveUp
  <2>6. CASE StoreSubtune(c) BY <2>6 DEF StoreSubtune, StoreSubtuneAs
  <2>7. CASE Publish(c) BY <2>7 DEF Publish
  <2> QED BY <1>1, <2>1, <2>2, <2>3, <2>4, <2>5, <2>6, <2>7 DEF Load
<1>2. ASSUME NEW c \in Callers, Unload(c) PROVE HandUsed'
  <2>1. ASSUME NEW kind \in {"unload", "eject"}, BeginUnload(c, kind)
        PROVE HandUsed'
    BY <2>1 DEF BeginUnload, Begin
  <2>2. CASE Bump(c) BY <2>2 DEF Bump
  <2>3. CASE DropIncoming(c) BY <2>3 DEF DropIncoming, DropAs
  <2>4. CASE ClearSubtune(c) BY <2>4 DEF ClearSubtune
  <2>5. CASE AskHardReset(c) BY <2>5 DEF AskHardReset
  <2>6. CASE AskUnload(c) BY <2>6 DEF AskUnload
  <2> QED BY <1>2, <2>1, <2>2, <2>3, <2>4, <2>5, <2>6 DEF Unload
<1>3. ASSUME NEW c \in Callers, Collect(c) PROVE HandUsed'
  BY <1>3 DEF Collect
<1>4. CASE Drain
  <2>1. CASE TakeUnload BY <2>1 DEF TakeUnload, Retire
  <2>2. CASE Park BY <2>2 DEF Park, ParkWithin
  <2>3. CASE TakeHardReset BY <2>3 DEF TakeHardReset
  <2>4. CASE TakeIncoming BY <2>4 DEF TakeIncoming, TakeIncomingAs
  <2>5. CASE Install BY <2>5 DEF Install, Retire
  <2> QED BY <1>4, <2>1, <2>2, <2>3, <2>4, <2>5 DEF Drain
<1>5. CASE UNCHANGED vars
  BY <1>5 DEF vars
<1> QED BY <1>1, <1>2, <1>3, <1>4, <1>5 DEF Next

\* A step never leaves a player in two places, nor in the hands of anyone once it is gone.
LEMMA OnePlaceStep == IInv /\ [Next]_vars => OnePlace'
<1> SUFFICES ASSUME IInv, [Next]_vars PROVE OnePlace'
  OBVIOUS
<1> USE DEF Nobody, Player, Step, atomics, heap, history, callerVars, renderVars
<1> USE DEF IInv, TypeOK, SharedTypeOK, CallersTypeOK, RenderTypeOK, HandUsed, OnePlace, Gone, Tickets, Drawn,
        Builds, Unused, Building
<1>1. ASSUME NEW c \in Callers, Load(c) PROVE OnePlace'
  <2>1. CASE BeginLoad(c) BY <2>1 DEF BeginLoad, Begin
  <2>2. CASE LoadNothing(c) BY <2>2 DEF LoadNothing
  <2>3. CASE Admit(c)
    <3>1. ~Somewhere(ticket[c]) /\ held[c] = Nobody
      BY <2>3, KnownIsSomewhere DEF Admit, KnownPlaces, Waiting
    <3>2. UNCHANGED <<retired, incoming, live, hand, freed, leaked>>
          /\ held' = [held EXCEPT ![c] = ticket[c]]
      BY <2>3 DEF Admit
    <3> QED BY <3>1, <3>2 DEF Somewhere
  <2>4. CASE PassCheck(c) BY <2>4 DEF PassCheck
  <2>5. CASE GiveUp(c) BY <2>5 DEF GiveUp
  <2>6. CASE StoreSubtune(c) BY <2>6 DEF StoreSubtune, StoreSubtuneAs
  <2>7. CASE Publish(c) BY <2>7 DEF Publish
  <2> QED BY <1>1, <2>1, <2>2, <2>3, <2>4, <2>5, <2>6, <2>7 DEF Load
<1>2. ASSUME NEW c \in Callers, Unload(c) PROVE OnePlace'
  <2>1. ASSUME NEW kind \in {"unload", "eject"}, BeginUnload(c, kind)
        PROVE OnePlace'
    BY <2>1 DEF BeginUnload, Begin
  <2>2. CASE Bump(c) BY <2>2 DEF Bump
  <2>3. CASE DropIncoming(c) BY <2>3 DEF DropIncoming, DropAs
  <2>4. CASE ClearSubtune(c) BY <2>4 DEF ClearSubtune
  <2>5. CASE AskHardReset(c) BY <2>5 DEF AskHardReset
  <2>6. CASE AskUnload(c) BY <2>6 DEF AskUnload
  <2> QED BY <1>2, <2>1, <2>2, <2>3, <2>4, <2>5, <2>6 DEF Unload
<1>3. ASSUME NEW c \in Callers, Collect(c) PROVE OnePlace'
  BY <1>3 DEF Collect
<1>4. CASE Drain
  <2>1. CASE TakeUnload BY <2>1 DEF TakeUnload, Retire
  <2>2. CASE Park BY <2>2 DEF Park, ParkWithin
  <2>3. CASE TakeHardReset BY <2>3 DEF TakeHardReset
  <2>4. CASE TakeIncoming BY <2>4 DEF TakeIncoming, TakeIncomingAs
  <2>5. CASE Install BY <2>5 DEF Install, Retire
  <2> QED BY <1>4, <2>1, <2>2, <2>3, <2>4, <2>5 DEF Drain
<1>5. CASE UNCHANGED vars
  BY <1>5 DEF vars
<1> QED BY <1>1, <1>2, <1>3, <1>4, <1>5 DEF Next

\* No step but an allocation adds a player, and none forgets one.
LEMMA PlayersStep == IInv /\ [Next]_vars => SamePlayers
<1> SUFFICES ASSUME IInv, [Next]_vars PROVE SamePlayers
  OBVIOUS
<1> USE DEF Nobody, Player, Step, atomics, heap, history, callerVars, renderVars
<1> USE DEF IInv, TypeOK, SharedTypeOK, CallersTypeOK, RenderTypeOK, HandUsed, Gone, Tickets, Drawn,
        Builds, Unused, Building,
        Somewhere, SamePlayers
<1>1. ASSUME NEW c \in Callers, Load(c) PROVE SamePlayers
  <2>1. CASE BeginLoad(c) BY <2>1 DEF BeginLoad, Begin
  <2>2. CASE LoadNothing(c) BY <2>2 DEF LoadNothing
  <2>3. CASE Admit(c) BY <2>3 DEF Admit
  <2>4. CASE PassCheck(c) BY <2>4 DEF PassCheck
  <2>5. CASE GiveUp(c) BY <2>5 DEF GiveUp
  <2>6. CASE StoreSubtune(c) BY <2>6 DEF StoreSubtune, StoreSubtuneAs
  <2>7. CASE Publish(c) BY <2>7 DEF Publish
  <2> QED BY <1>1, <2>1, <2>2, <2>3, <2>4, <2>5, <2>6, <2>7 DEF Load
<1>2. ASSUME NEW c \in Callers, Unload(c) PROVE SamePlayers
  <2>1. ASSUME NEW kind \in {"unload", "eject"}, BeginUnload(c, kind)
        PROVE SamePlayers
    BY <2>1 DEF BeginUnload, Begin
  <2>2. CASE Bump(c) BY <2>2 DEF Bump
  <2>3. CASE DropIncoming(c) BY <2>3 DEF DropIncoming, DropAs
  <2>4. CASE ClearSubtune(c) BY <2>4 DEF ClearSubtune
  <2>5. CASE AskHardReset(c) BY <2>5 DEF AskHardReset
  <2>6. CASE AskUnload(c) BY <2>6 DEF AskUnload
  <2> QED BY <1>2, <2>1, <2>2, <2>3, <2>4, <2>5, <2>6 DEF Unload
<1>3. ASSUME NEW c \in Callers, Collect(c) PROVE SamePlayers
  BY <1>3 DEF Collect
<1>4. CASE Drain
  <2>1. CASE TakeUnload BY <2>1 DEF TakeUnload, Retire
  <2>2. CASE Park BY <2>2 DEF Park, ParkWithin
  <2>3. CASE TakeHardReset BY <2>3 DEF TakeHardReset
  <2>4. CASE TakeIncoming BY <2>4 DEF TakeIncoming, TakeIncomingAs
  <2>5. CASE Install BY <2>5 DEF Install, Retire
  <2> QED BY <1>4, <2>1, <2>2, <2>3, <2>4, <2>5 DEF Drain
<1>5. CASE UNCHANGED vars
  BY <1>5 DEF vars
<1> QED BY <1>1, <1>2, <1>3, <1>4, <1>5 DEF Next

\* Tickets stay different.
LEMMA DrawnStep == IInv /\ [Next]_vars => Drawn'
<1> SUFFICES ASSUME IInv, [Next]_vars PROVE Drawn'
  OBVIOUS
<1> USE DEF Nobody, Player, Step, atomics, heap, history, callerVars, renderVars
<1> USE DEF IInv, TypeOK, SharedTypeOK, CallersTypeOK, Tickets, Building, Drawn
<1>1. ASSUME NEW c \in Callers, Load(c) PROVE Drawn'
  <2>1. CASE BeginLoad(c) BY <2>1 DEF BeginLoad, Begin
  <2>2. CASE LoadNothing(c) BY <2>2 DEF LoadNothing
  <2>3. CASE Admit(c) BY <2>3 DEF Admit
  <2>4. CASE PassCheck(c) BY <2>4 DEF PassCheck
  <2>5. CASE GiveUp(c) BY <2>5 DEF GiveUp
  <2>6. CASE StoreSubtune(c) BY <2>6 DEF StoreSubtune, StoreSubtuneAs
  <2>7. CASE Publish(c) BY <2>7 DEF Publish
  <2> QED BY <1>1, <2>1, <2>2, <2>3, <2>4, <2>5, <2>6, <2>7 DEF Load
<1>2. ASSUME NEW c \in Callers, Unload(c) PROVE Drawn'
  <2>1. ASSUME NEW kind \in {"unload", "eject"}, BeginUnload(c, kind)
        PROVE Drawn'
    BY <2>1 DEF BeginUnload, Begin
  <2>2. CASE Bump(c) BY <2>2 DEF Bump
  <2>3. CASE DropIncoming(c) BY <2>3 DEF DropIncoming, DropAs
  <2>4. CASE ClearSubtune(c) BY <2>4 DEF ClearSubtune
  <2>5. CASE AskHardReset(c) BY <2>5 DEF AskHardReset
  <2>6. CASE AskUnload(c) BY <2>6 DEF AskUnload
  <2> QED BY <1>2, <2>1, <2>2, <2>3, <2>4, <2>5, <2>6 DEF Unload
<1>3. ASSUME NEW c \in Callers, Collect(c) PROVE Drawn'
  BY <1>3 DEF Collect
<1>4. CASE Drain
  <2>1. CASE TakeUnload BY <2>1 DEF TakeUnload, Retire
  <2>2. CASE Park BY <2>2 DEF Park, ParkWithin
  <2>3. CASE TakeHardReset BY <2>3 DEF TakeHardReset
  <2>4. CASE TakeIncoming BY <2>4 DEF TakeIncoming, TakeIncomingAs
  <2>5. CASE Install BY <2>5 DEF Install, Retire
  <2> QED BY <1>4, <2>1, <2>2, <2>3, <2>4, <2>5 DEF Drain
<1>5. CASE UNCHANGED vars
  BY <1>5 DEF vars
<1> QED BY <1>1, <1>2, <1>3, <1>4, <1>5 DEF Next

\* A caller holds the player of its ticket while it builds it.
LEMMA BuildsStep == IInv /\ [Next]_vars => Builds'
<1> SUFFICES ASSUME IInv, [Next]_vars PROVE Builds'
  OBVIOUS
<1> USE DEF Nobody, Player, Step, atomics, heap, history, callerVars, renderVars
<1> USE DEF IInv, TypeOK, SharedTypeOK, CallersTypeOK, Tickets, Building, Builds
<1>1. ASSUME NEW c \in Callers, Load(c) PROVE Builds'
  <2>1. CASE BeginLoad(c) BY <2>1 DEF BeginLoad, Begin
  <2>2. CASE LoadNothing(c) BY <2>2 DEF LoadNothing
  <2>3. CASE Admit(c) BY <2>3 DEF Admit
  <2>4. CASE PassCheck(c) BY <2>4 DEF PassCheck
  <2>5. CASE GiveUp(c) BY <2>5 DEF GiveUp
  <2>6. CASE StoreSubtune(c) BY <2>6 DEF StoreSubtune, StoreSubtuneAs
  <2>7. CASE Publish(c) BY <2>7 DEF Publish
  <2> QED BY <1>1, <2>1, <2>2, <2>3, <2>4, <2>5, <2>6, <2>7 DEF Load
<1>2. ASSUME NEW c \in Callers, Unload(c) PROVE Builds'
  <2>1. ASSUME NEW kind \in {"unload", "eject"}, BeginUnload(c, kind)
        PROVE Builds'
    BY <2>1 DEF BeginUnload, Begin
  <2>2. CASE Bump(c) BY <2>2 DEF Bump
  <2>3. CASE DropIncoming(c) BY <2>3 DEF DropIncoming, DropAs
  <2>4. CASE ClearSubtune(c) BY <2>4 DEF ClearSubtune
  <2>5. CASE AskHardReset(c) BY <2>5 DEF AskHardReset
  <2>6. CASE AskUnload(c) BY <2>6 DEF AskUnload
  <2> QED BY <1>2, <2>1, <2>2, <2>3, <2>4, <2>5, <2>6 DEF Unload
<1>3. ASSUME NEW c \in Callers, Collect(c) PROVE Builds'
  BY <1>3 DEF Collect
<1>4. CASE Drain
  <2>1. CASE TakeUnload BY <2>1 DEF TakeUnload, Retire
  <2>2. CASE Park BY <2>2 DEF Park, ParkWithin
  <2>3. CASE TakeHardReset BY <2>3 DEF TakeHardReset
  <2>4. CASE TakeIncoming BY <2>4 DEF TakeIncoming, TakeIncomingAs
  <2>5. CASE Install BY <2>5 DEF Install, Retire
  <2> QED BY <1>4, <2>1, <2>2, <2>3, <2>4, <2>5 DEF Drain
<1>5. CASE UNCHANGED vars
  BY <1>5 DEF vars
<1> QED BY <1>1, <1>2, <1>3, <1>4, <1>5 DEF Next

\* A caller that has not built its player keeps its ticket, or has just drawn a new one.
LEMMA AdmissionStep == IInv /\ [Next]_vars => Admission
<1> SUFFICES ASSUME IInv, [Next]_vars PROVE Admission
  OBVIOUS
<1> USE DEF Nobody, Player, Step, atomics, heap, history, callerVars, renderVars
<1> USE DEF IInv, TypeOK, SharedTypeOK, CallersTypeOK, Tickets, Building, Builds,
        Waiting, Admission
<1>1. ASSUME NEW c \in Callers, Load(c) PROVE Admission
  <2>1. CASE BeginLoad(c) BY <2>1 DEF BeginLoad, Begin
  <2>2. CASE LoadNothing(c) BY <2>2 DEF LoadNothing
  <2>3. CASE Admit(c) BY <2>3 DEF Admit
  <2>4. CASE PassCheck(c) BY <2>4 DEF PassCheck
  <2>5. CASE GiveUp(c) BY <2>5 DEF GiveUp
  <2>6. CASE StoreSubtune(c) BY <2>6 DEF StoreSubtune, StoreSubtuneAs
  <2>7. CASE Publish(c) BY <2>7 DEF Publish
  <2> QED BY <1>1, <2>1, <2>2, <2>3, <2>4, <2>5, <2>6, <2>7 DEF Load
<1>2. ASSUME NEW c \in Callers, Unload(c) PROVE Admission
  <2>1. ASSUME NEW kind \in {"unload", "eject"}, BeginUnload(c, kind)
        PROVE Admission
    BY <2>1 DEF BeginUnload, Begin
  <2>2. CASE Bump(c) BY <2>2 DEF Bump
  <2>3. CASE DropIncoming(c) BY <2>3 DEF DropIncoming, DropAs
  <2>4. CASE ClearSubtune(c) BY <2>4 DEF ClearSubtune
  <2>5. CASE AskHardReset(c) BY <2>5 DEF AskHardReset
  <2>6. CASE AskUnload(c) BY <2>6 DEF AskUnload
  <2> QED BY <1>2, <2>1, <2>2, <2>3, <2>4, <2>5, <2>6 DEF Unload
<1>3. ASSUME NEW c \in Callers, Collect(c) PROVE Admission
  BY <1>3 DEF Collect
<1>4. CASE Drain
  <2>1. CASE TakeUnload BY <2>1 DEF TakeUnload, Retire
  <2>2. CASE Park BY <2>2 DEF Park, ParkWithin
  <2>3. CASE TakeHardReset BY <2>3 DEF TakeHardReset
  <2>4. CASE TakeIncoming BY <2>4 DEF TakeIncoming, TakeIncomingAs
  <2>5. CASE Install BY <2>5 DEF Install, Retire
  <2> QED BY <1>4, <2>1, <2>2, <2>3, <2>4, <2>5 DEF Drain
<1>5. CASE UNCHANGED vars
  BY <1>5 DEF vars
<1> QED BY <1>1, <1>2, <1>3, <1>4, <1>5 DEF Next

\* Known changes as the players do.
LEMMA KnownStep ==
    IInv /\ [Next]_vars =>
        /\ Known \ {Nobody} \subseteq Known'
        /\ \A p \in Known' \ {Nobody} :
               p \in Known \/
               \E c \in Callers : at[c] = "admit" /\ at'[c] = "init" /\ p = ticket[c]
<1>1. KnownPlaces /\ KnownPlaces'
  BY KnownIsSomewhere, PTL
<1> QED BY <1>1, PlayersStep DEF KnownPlaces, SamePlayers

\* A ticket names nothing until its player is built.
LEMMA UnusedStep == IInv /\ [Next]_vars => Unused'
<1> SUFFICES ASSUME IInv, [Next]_vars PROVE Unused'
  OBVIOUS
<1> USE DEF Nobody
<1>1. generation \in Nat /\ generation' \in Nat
  BY TypeStep DEF IInv, TypeOK, SharedTypeOK
<1>2. \A c \in Callers : ticket[c] \in Nat /\ ticket[c] <= generation
  BY DEF IInv, TypeOK, CallersTypeOK, Tickets, Drawn
<1>3. generation <= generation'
  BY AdmissionStep DEF Admission
<1>4. Known \subseteq 0 .. generation
  BY DEF IInv, Tickets, Unused
<1>5. ASSUME NEW p \in Known' PROVE p \in 0 .. generation'
  <2>1. p = 0 \/ p \in Known \/ \E c \in Callers : p = ticket[c]
    BY KnownStep
  <2>2. p \in Nat /\ p <= generation
    <3>1. CASE p \in Known BY <3>1, <1>1, <1>4
    <3>2. CASE \E c \in Callers : p = ticket[c] BY <3>2, <1>2
    <3>3. CASE p = 0 BY <3>3, <1>1
    <3> QED BY <2>1, <3>1, <3>2, <3>3
  <2> QED BY <2>2, <1>1, <1>3
<1>6. ASSUME NEW c \in Callers, Waiting(c)'
      PROVE  ticket'[c] # 0 /\ ticket'[c] \notin Known'
  <2>1. CASE Waiting(c) /\ ticket'[c] = ticket[c]
    <3>1. ticket[c] # 0 /\ ticket[c] \notin Known
      BY <2>1 DEF IInv, Tickets, Unused
    <3>2. \A d \in Callers : at'[d] = "init" => ticket[d] # ticket[c]
      BY <1>6, <3>1 DEF IInv, Tickets, Drawn, Waiting
    <3> QED BY <2>1, <3>1, <3>2, KnownStep
  <2>2. CASE /\ ticket'[c] = generation + 1
             /\ \A d \in Callers : at[d] = "admit" => at'[d] # "init"
    <3>1. \A p \in Known' \ {0} : p \in Known
      BY <2>2, KnownStep
    <3> QED BY <2>2, <3>1, <1>1, <1>4
  <2> QED BY <1>6, <2>1, <2>2, AdmissionStep DEF Admission
<1> QED BY <1>5, <1>6 DEF Unused, Waiting

-----------------------------------------------------------------------------
\* The invariant holds for any number of callers, of slots and of requests.
THEOREM InductiveInvariant == Spec => []IInv
<1>1. IInv /\ [Next]_vars => IInv'
  BY TypeStep, HandStep, OnePlaceStep, DrawnStep, BuildsStep, UnusedStep
     DEF IInv, Tickets
<1> QED BY InitInvariant, <1>1, PTL DEF Spec

\* Every index stays inside the ring and no thread is in an unknown step.
THEOREM TypeCorrect == Spec => []TypeOK
BY InductiveInvariant, PTL DEF IInv

\* No player is in two places, and nobody, in particular not the render thread,
\* still has a player that was freed or leaked.
THEOREM OnlyOneHolder == Spec => []OneHolder
<1>1. IInv => OneHolder
  BY OnePlaceMeansOneHolder DEF IInv
<1> QED BY InductiveInvariant, <1>1, PTL

\* Every player stays known until it is freed or counted as leaked.
THEOREM NothingForgotten == Spec => NobodyForgotten
<1>1. IInv /\ [Next]_vars => [Known \ {Nobody} \subseteq Known']_vars
  BY KnownStep
<1> QED BY InductiveInvariant, <1>1, PTL DEF Spec, NobodyForgotten

-----------------------------------------------------------------------------
(* The newest request wins when calls follow one another.                  *)

Withdrawing == {"drop", "clear", "reset", "flag"}

\* At most one call is under way.
Alone == \A c, d \in Callers : at[c] # "idle" /\ at[d] # "idle" => c = d

\* What waits to be installed is the newest tune; if nothing waits, what is being
\* installed, or else what plays, is, unless an unload is still to be served.
Newest ==
    /\ (\A c \in Callers : at[c] # "drop") => incoming \in {wanted, Nobody}
    /\ \A c \in Callers : at[c] \in Withdrawing => wanted = Nobody
    /\ \A c \in Callers : at[c] \in Building => ticket[c] # Nobody
    /\ \/ unload \/ incoming # Nobody
       \/ \E c \in Callers : at[c] \in Withdrawing
       \/ IF render = "install" THEN hand = wanted ELSE live \in {wanted, Nobody}

\* The subtune shown is of the newest tune, but while a call is changing both.
Shown ==
    /\ (\A c \in Callers : at[c] \notin {"publish", "drop", "clear"}) => subtune = wanted
    /\ \A c \in Callers : at[c] = "publish" => subtune = ticket[c]

Sequential == ~ overlapped => Alone /\ Newest /\ Shown

-----------------------------------------------------------------------------
\* Calls do not overlap unless overlapped says so.
LEMMA AloneStep == IInv /\ Sequential /\ [Next]_vars /\ ~ overlapped' => ~ overlapped /\ Alone'
<1> SUFFICES ASSUME IInv, Sequential, [Next]_vars, ~ overlapped' PROVE ~ overlapped /\ Alone'
  OBVIOUS
<1> USE DEF Step, history, callerVars
<1> USE DEF IInv, TypeOK, SharedTypeOK, CallersTypeOK, Sequential, Alone
<1>1. ASSUME NEW c \in Callers, Load(c) PROVE ~ overlapped /\ Alone'
  <2>1. CASE BeginLoad(c) BY <2>1 DEF BeginLoad, Begin
  <2>2. CASE LoadNothing(c) BY <2>2 DEF LoadNothing
  <2>3. CASE Admit(c) BY <2>3 DEF Admit
  <2>4. CASE PassCheck(c) BY <2>4 DEF PassCheck
  <2>5. CASE GiveUp(c) BY <2>5 DEF GiveUp
  <2>6. CASE StoreSubtune(c) BY <2>6 DEF StoreSubtune, StoreSubtuneAs
  <2>7. CASE Publish(c) BY <2>7 DEF Publish, Tickets, Builds, Building
  <2> QED BY <1>1, <2>1, <2>2, <2>3, <2>4, <2>5, <2>6, <2>7 DEF Load
<1>2. ASSUME NEW c \in Callers, Unload(c) PROVE ~ overlapped /\ Alone'
  <2>1. ASSUME NEW kind \in {"unload", "eject"}, BeginUnload(c, kind)
        PROVE ~ overlapped /\ Alone'
    BY <2>1 DEF BeginUnload, Begin
  <2>2. CASE Bump(c) BY <2>2 DEF Bump
  <2>3. CASE DropIncoming(c) BY <2>3 DEF DropIncoming, DropAs
  <2>4. CASE ClearSubtune(c) BY <2>4 DEF ClearSubtune
  <2>5. CASE AskHardReset(c) BY <2>5 DEF AskHardReset
  <2>6. CASE AskUnload(c) BY <2>6 DEF AskUnload
  <2> QED BY <1>2, <2>1, <2>2, <2>3, <2>4, <2>5, <2>6 DEF Unload
<1>3. ASSUME NEW c \in Callers, Collect(c) PROVE ~ overlapped /\ Alone'
  BY <1>3 DEF Collect
<1>4. CASE Drain
  <2>1. CASE TakeUnload BY <2>1 DEF TakeUnload, Retire
  <2>2. CASE Park BY <2>2 DEF Park, ParkWithin
  <2>3. CASE TakeHardReset BY <2>3 DEF TakeHardReset
  <2>4. CASE TakeIncoming BY <2>4 DEF TakeIncoming, TakeIncomingAs
  <2>5. CASE Install BY <2>5 DEF Install, Retire
  <2> QED BY <1>4, <2>1, <2>2, <2>3, <2>4, <2>5 DEF Drain
<1>5. CASE UNCHANGED vars
  BY <1>5 DEF vars
<1> QED BY <1>1, <1>2, <1>3, <1>4, <1>5 DEF Next

\* Every step keeps the newest tune on its way to the engines.
LEMMA NewestStep == IInv /\ Sequential /\ [Next]_vars /\ ~ overlapped' => Newest'
<1> SUFFICES ASSUME IInv, Sequential, [Next]_vars, ~ overlapped' PROVE Newest'
  OBVIOUS
<1>0. ~ overlapped /\ Alone /\ Newest /\ Shown
  BY AloneStep DEF Sequential
<1> USE <1>0 DEF Nobody, Step, atomics, heap, history, callerVars, renderVars
<1> USE DEF IInv, TypeOK, SharedTypeOK, CallersTypeOK, RenderTypeOK, Alone, Newest, Withdrawing,
        Building
<1>1. ASSUME NEW c \in Callers, Load(c) PROVE Newest'
  <2>1. CASE BeginLoad(c) BY <2>1 DEF BeginLoad, Begin
  <2>2. CASE LoadNothing(c) BY <2>2 DEF LoadNothing
  <2>3. CASE Admit(c) BY <2>3 DEF Admit, Tickets, Builds, Unused, Waiting
  <2>4. CASE PassCheck(c) BY <2>4 DEF PassCheck
  <2>5. CASE GiveUp(c) BY <2>5 DEF GiveUp
  <2>6. CASE StoreSubtune(c) BY <2>6 DEF StoreSubtune, StoreSubtuneAs
  <2>7. CASE Publish(c)
    <3>1. at[c] = "publish" /\ held[c] = ticket[c]
      BY <2>7 DEF Publish, Tickets, Builds, Building
    <3>2. incoming' = ticket[c] /\ wanted' = ticket[c]
      BY <2>7, <3>1 DEF Publish
    <3>3. \A d \in Callers \ {c} : at[d] = "idle" /\ at'[d] = "idle"
      BY <2>7, <3>1 DEF Publish
    <3>4. UNCHANGED <<unload, render, hand, live>> /\ at'[c] = "idle"
      BY <2>7 DEF Publish
    <3>5. ticket[c] # Nobody
      BY <3>1
    <3> QED BY <3>1, <3>2, <3>3, <3>4, <3>5
  <2> QED BY <1>1, <2>1, <2>2, <2>3, <2>4, <2>5, <2>6, <2>7 DEF Load
<1>2. ASSUME NEW c \in Callers, Unload(c) PROVE Newest'
  <2>1. ASSUME NEW kind \in {"unload", "eject"}, BeginUnload(c, kind)
        PROVE Newest'
    BY <2>1 DEF BeginUnload, Begin
  <2>2. CASE Bump(c) BY <2>2 DEF Bump
  <2>3. CASE DropIncoming(c) BY <2>3 DEF DropIncoming, DropAs
  <2>4. CASE ClearSubtune(c) BY <2>4 DEF ClearSubtune
  <2>5. CASE AskHardReset(c) BY <2>5 DEF AskHardReset
  <2>6. CASE AskUnload(c) BY <2>6 DEF AskUnload
  <2> QED BY <1>2, <2>1, <2>2, <2>3, <2>4, <2>5, <2>6 DEF Unload
<1>3. ASSUME NEW c \in Callers, Collect(c) PROVE Newest'
  BY <1>3 DEF Collect
<1>4. CASE Drain
  <2>1. CASE TakeUnload BY <2>1 DEF TakeUnload, Retire
  <2>2. CASE Park BY <2>2 DEF Park, ParkWithin
  <2>3. CASE TakeHardReset BY <2>3 DEF TakeHardReset
  <2>4. CASE TakeIncoming BY <2>4 DEF TakeIncoming, TakeIncomingAs
  <2>5. CASE Install BY <2>5 DEF Install, Retire
  <2> QED BY <1>4, <2>1, <2>2, <2>3, <2>4, <2>5 DEF Drain
<1>5. CASE UNCHANGED vars
  BY <1>5 DEF vars
<1> QED BY <1>1, <1>2, <1>3, <1>4, <1>5 DEF Next

\* The subtune follows the newest tune.
LEMMA ShownStep == IInv /\ Sequential /\ [Next]_vars /\ ~ overlapped' => Shown'
<1> SUFFICES ASSUME IInv, Sequential, [Next]_vars, ~ overlapped' PROVE Shown'
  OBVIOUS
<1>0. ~ overlapped /\ Alone /\ Newest /\ Shown
  BY AloneStep DEF Sequential
<1> USE <1>0 DEF Nobody, Step, atomics, heap, history, callerVars, renderVars
<1> USE DEF IInv, TypeOK, SharedTypeOK, CallersTypeOK, RenderTypeOK, Alone, Shown
<1>1. ASSUME NEW c \in Callers, Load(c) PROVE Shown'
  <2>1. CASE BeginLoad(c) BY <2>1 DEF BeginLoad, Begin
  <2>2. CASE LoadNothing(c) BY <2>2 DEF LoadNothing
  <2>3. CASE Admit(c) BY <2>3 DEF Admit
  <2>4. CASE PassCheck(c) BY <2>4 DEF PassCheck
  <2>5. CASE GiveUp(c) BY <2>5 DEF GiveUp
  <2>6. CASE StoreSubtune(c) BY <2>6 DEF StoreSubtune, StoreSubtuneAs
  <2>7. CASE Publish(c) BY <2>7 DEF Publish, Tickets, Builds, Building
  <2> QED BY <1>1, <2>1, <2>2, <2>3, <2>4, <2>5, <2>6, <2>7 DEF Load
<1>2. ASSUME NEW c \in Callers, Unload(c) PROVE Shown'
  <2>1. ASSUME NEW kind \in {"unload", "eject"}, BeginUnload(c, kind)
        PROVE Shown'
    BY <2>1 DEF BeginUnload, Begin
  <2>2. CASE Bump(c) BY <2>2 DEF Bump
  <2>3. CASE DropIncoming(c) BY <2>3 DEF DropIncoming, DropAs
  <2>4. CASE ClearSubtune(c)
    <3>1. at[c] = "clear" /\ at'[c] \in {"reset", "flag"} /\ subtune' = 0
      BY <2>4 DEF ClearSubtune
    <3>2. \A d \in Callers \ {c} : at[d] = "idle" /\ at'[d] = "idle"
      BY <2>4, <3>1 DEF ClearSubtune
    <3>3. wanted = 0
      BY <3>1, <1>0 DEF Newest, Withdrawing
    <3> QED BY <2>4, <3>1, <3>2, <3>3 DEF ClearSubtune
  <2>5. CASE AskHardReset(c) BY <2>5 DEF AskHardReset
  <2>6. CASE AskUnload(c) BY <2>6 DEF AskUnload
  <2> QED BY <1>2, <2>1, <2>2, <2>3, <2>4, <2>5, <2>6 DEF Unload
<1>3. ASSUME NEW c \in Callers, Collect(c) PROVE Shown'
  BY <1>3 DEF Collect
<1>4. CASE Drain
  <2>1. CASE TakeUnload BY <2>1 DEF TakeUnload, Retire
  <2>2. CASE Park BY <2>2 DEF Park, ParkWithin
  <2>3. CASE TakeHardReset BY <2>3 DEF TakeHardReset
  <2>4. CASE TakeIncoming BY <2>4 DEF TakeIncoming, TakeIncomingAs
  <2>5. CASE Install BY <2>5 DEF Install, Retire
  <2> QED BY <1>4, <2>1, <2>2, <2>3, <2>4, <2>5 DEF Drain
<1>5. CASE UNCHANGED vars
  BY <1>5 DEF vars
<1> QED BY <1>1, <1>2, <1>3, <1>4, <1>5 DEF Next

\* As long as no call began during another one, the newest request is the one on its way.
THEOREM NewestOnItsWay == Spec => []Sequential
<1>1. Init => Sequential
  BY DEF Init, Sequential, Alone, Newest, Shown, Nobody, Withdrawing, Building
<1>2. IInv /\ Sequential /\ [Next]_vars => Sequential'
  BY AloneStep, NewestStep, ShownStep DEF Sequential
<1> QED BY InductiveInvariant, <1>1, <1>2, PTL DEF Spec

\* Once everything is done, what plays is the tune of the newest request or nothing:
\* neither an eject nor a later load leaves an older tune behind.
THEOREM NewestTunePlays == Spec => []NoOlderTunePlays
<1>1. Sequential => NoOlderTunePlays
  BY DEF Sequential, Newest, Withdrawing, NoOlderTunePlays, Settled
<1> QED BY NewestOnItsWay, <1>1, PTL

\* The subtune that the editor shows is a song of the tune that plays.
THEOREM SubtuneFollows == Spec => []SubtuneOfLive
<1>1. Sequential => SubtuneOfLive
  BY DEF Sequential, Newest, Shown, Withdrawing, SubtuneOfLive, Settled, Nobody
<1> QED BY NewestOnItsWay, <1>1, PTL
=============================================================================
