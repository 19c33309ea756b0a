---------------------------- MODULE PsidHandoff ----------------------------
(***************************************************************************)
(* A C64 tune is parsed, given to a new C64Runtime and initialized on the  *)
(* calling thread; the render thread only swaps pointers.  It must not     *)
(* free memory, so the player it takes out of service is parked in a ring  *)
(* of retired slots that the next call on another thread empties.  A       *)
(* ticket, compared three times during a load, is to keep a load that has  *)
(* been overtaken by an eject or by another load from being published.     *)
(*                                                                         *)
(* One step is one access to an atomic; several callers, one render        *)
(* thread.  A player is named by the ticket of its load.                   *)
(***************************************************************************)
EXTENDS Naturals

CONSTANTS
    Callers,       \* threads that load, unload and eject
    Slots,         \* kRetiredPsidSlots
    MaxRequests,   \* bound on tickets when a call begins, as long as calls did not overlap
    MaxShared      \* the same once they did

ASSUME SlotsAssumption == Slots \in Nat \ {0}
ASSUME RequestsAssumption == MaxRequests \in Nat /\ MaxShared \in Nat

Nobody == 0
Ring == 1 .. Slots

VARIABLES
    generation,  \* c64PsidLoadGeneration_
    incoming,    \* c64PsidIncoming_
    live,        \* c64PsidLive_
    retired,     \* c64PsidRetired_
    unload,      \* c64PsidUnloadRequested_
    hardReset,   \* c64PsidHardResetRequested_
    subtune,     \* c64PsidCurrentSubtune_: the tune it is a song of
    freed,       \* players that were deleted
    leaked,      \* players that found no slot
    at,          \* next step of every caller
    request,     \* what its call is
    ticket,      \* requestTicket of its call
    held,        \* the player it is building
    cursor,      \* slot its collection has reached
    render,      \* next step of drainPendingPsidHandoff_
    hand,        \* player the render thread is about to install or park
    slot,        \* slot its search has reached
    resume,      \* where it goes on after parking
    wanted,      \* history: the tune of the newest request that took effect
    overlapped   \* history: a call began while another one was under way

atomics == <<generation, incoming, retired, unload, hardReset, subtune>>
heap == <<freed, leaked>>
history == <<wanted, overlapped>>
callerVars == <<at, request, ticket, held, cursor, history>>
renderVars == <<live, render, hand, slot, resume>>
vars == <<atomics, heap, callerVars, renderVars>>

Init ==
    /\ generation = 0 /\ incoming = Nobody /\ live = Nobody
    /\ retired = [s \in Ring |-> Nobody]
    /\ unload = FALSE /\ hardReset = FALSE /\ subtune = Nobody
    /\ freed = {} /\ leaked = {}
    /\ at = [c \in Callers |-> "idle"]
    /\ request = [c \in Callers |-> "load"]
    /\ ticket = [c \in Callers |-> 0]
    /\ held = [c \in Callers |-> Nobody]
    /\ cursor = [c \in Callers |-> 1]
    /\ render = "idle" /\ hand = Nobody /\ slot = 1 /\ resume = "idle"
    /\ wanted = Nobody /\ overlapped = FALSE

Player(p) == {p} \ {Nobody}

Step(c, from, to) ==
    /\ at[c] = from
    /\ at' = [at EXCEPT ![c] = to]

\* A call begins; the bounds are here.
Begin(c) ==
    LET shared == overlapped \/ \E d \in Callers \ {c} : at[d] # "idle"
    IN  /\ Step(c, "idle", "collect")
        /\ generation < IF shared THEN MaxShared ELSE MaxRequests
        /\ overlapped' = shared

-----------------------------------------------------------------------------
(* loadPsidData and unloadPsid on any thread but the render thread.        *)

\* beginPsidLoadRequest draws the ticket before the file is looked at.
BeginLoad(c) ==
    /\ Begin(c)
    /\ generation' = generation + 1
    /\ ticket' = [ticket EXCEPT ![c] = generation + 1]
    /\ request' = [request EXCEPT ![c] = "load"]
    /\ cursor' = [cursor EXCEPT ![c] = 1]
    /\ UNCHANGED <<incoming, retired, unload, hardReset, subtune, heap, held, wanted, renderVars>>

BeginUnload(c, kind) ==
    /\ Begin(c)
    /\ request' = [request EXCEPT ![c] = kind]
    /\ cursor' = [cursor EXCEPT ![c] = 1]
    /\ UNCHANGED <<atomics, heap, ticket, held, wanted, renderVars>>

\* collectRetiredPsidPlayer_ empties one slot after the other.
Collect(c) ==
    /\ freed' = freed \cup Player(retired[cursor[c]])
    /\ retired' = [retired EXCEPT ![cursor[c]] = Nobody]
    /\ IF cursor[c] < Slots
       THEN /\ cursor' = [cursor EXCEPT ![c] = @ + 1]
            /\ UNCHANGED at
       ELSE /\ Step(c, "collect", IF request[c] = "load" THEN "admit" ELSE "bump")
            /\ UNCHANGED cursor
    /\ at[c] = "collect"
    /\ UNCHANGED <<generation, incoming, unload, hardReset, subtune, leaked, request,
                   ticket, held, history, renderVars>>

\* No file: the load turns into an unload.
LoadNothing(c) ==
    /\ Step(c, "admit", "collect")
    /\ ticket[c] = generation
    /\ request' = [request EXCEPT ![c] = "unload"]
    /\ cursor' = [cursor EXCEPT ![c] = 1]
    /\ UNCHANGED <<atomics, heap, ticket, held, history, renderVars>>

\* The header was parsed and a runtime allocated.
Admit(c) ==
    /\ Step(c, "admit", "init")
    /\ ticket[c] = generation
    /\ held' = [held EXCEPT ![c] = ticket[c]]
    /\ UNCHANGED <<atomics, heap, request, ticket, cursor, history, renderVars>>

\* The ticket is compared before the player is initialized and after.
PassCheck(c) ==
    /\ Step(c, "init", "ready") \/ Step(c, "ready", "subtune")
    /\ ticket[c] = generation
    /\ UNCHANGED <<atomics, heap, request, ticket, held, cursor, history, renderVars>>

\* Overtaken, not a SID file, or init did not finish.
GiveUp(c) ==
    /\ \E step \in {"admit", "init", "ready"} : Step(c, step, "idle")
    /\ freed' = freed \cup Player(held[c])
    /\ held' = [held EXCEPT ![c] = Nobody]
    /\ UNCHANGED <<atomics, leaked, request, ticket, cursor, history, renderVars>>

StoreSubtuneAs(c, shown) ==
    /\ Step(c, "subtune", "publish")
    /\ subtune' = shown
    /\ UNCHANGED <<generation, incoming, retired, unload, hardReset, heap, request, ticket,
                   held, cursor, history, renderVars>>

\* Mutant: the subtune that is shown is the one of the tune before.
StoreSubtune_Keeps(c) == StoreSubtuneAs(c, subtune)

StoreSubtune(c) == StoreSubtuneAs(c, ticket[c])

Publish(c) ==
    /\ Step(c, "publish", "idle")
    /\ incoming' = held[c]
    /\ freed' = freed \cup Player(incoming)
    /\ held' = [held EXCEPT ![c] = Nobody]
    /\ wanted' = ticket[c]
    /\ UNCHANGED <<generation, retired, unload, hardReset, subtune, leaked, request, ticket,
                   cursor, overlapped, renderVars>>

Bump(c) ==
    /\ Step(c, "bump", "drop")
    /\ generation' = generation + 1
    /\ wanted' = Nobody
    /\ UNCHANGED <<incoming, retired, unload, hardReset, subtune, heap, request, ticket,
                   held, cursor, overlapped, renderVars>>

DropAs(c, next) ==
    /\ Step(c, "drop", "clear")
    /\ incoming' = next
    /\ freed' = freed \cup (Player(incoming) \ {next})
    /\ UNCHANGED <<generation, retired, unload, hardReset, subtune, leaked, request, ticket,
                   held, cursor, history, renderVars>>

\* Mutant: a player that waits to be installed is forgotten by an eject.
DropIncoming_Keeps(c) == DropAs(c, incoming)

DropIncoming(c) == DropAs(c, Nobody)

ClearSubtune(c) ==
    /\ Step(c, "clear", IF request[c] = "eject" THEN "reset" ELSE "flag")
    /\ subtune' = Nobody
    /\ UNCHANGED <<generation, incoming, retired, unload, hardReset, heap, request, ticket,
                   held, cursor, history, renderVars>>

\* Only resetC64SidPlayerForEject.
AskHardReset(c) ==
    /\ Step(c, "reset", "flag")
    /\ hardReset' = TRUE
    /\ UNCHANGED <<generation, incoming, retired, unload, subtune, heap, request, ticket,
                   held, cursor, history, renderVars>>

AskUnload(c) ==
    /\ Step(c, "flag", "idle")
    /\ unload' = TRUE
    /\ UNCHANGED <<generation, incoming, retired, hardReset, subtune, heap, request, ticket,
                   held, cursor, history, renderVars>>

Load(c) ==
    \/ BeginLoad(c) \/ LoadNothing(c) \/ Admit(c) \/ PassCheck(c) \/ GiveUp(c)
    \/ StoreSubtune(c) \/ Publish(c)

Unload(c) ==
    \/ \E kind \in {"unload", "eject"} : BeginUnload(c, kind)
    \/ Bump(c) \/ DropIncoming(c) \/ ClearSubtune(c) \/ AskHardReset(c) \/ AskUnload(c)

-----------------------------------------------------------------------------
(* drainPendingPsidHandoff_, once a block.                                 *)

\* retirePsidPlayer_ is given what live held; nothing to do for nobody.
Retire(old, next) ==
    IF old = Nobody
    THEN /\ render' = next
         /\ UNCHANGED <<hand, slot, resume>>
    ELSE /\ render' = "park" /\ resume' = next
         /\ hand' = old /\ slot' = 1

\* Mutant: the parked player replaces the one in the slot.
Park_Overwrites ==
    /\ render = "park"
    /\ retired' = [retired EXCEPT ![slot] = hand]
    /\ hand' = Nobody /\ render' = resume
    /\ UNCHANGED <<generation, incoming, unload, hardReset, subtune, heap, callerVars,
                   live, slot, resume>>

\* The first free slot takes the player; without one it is leaked.
ParkWithin(last) ==
    /\ render = "park"
    /\ \/ /\ retired[slot] = Nobody
          /\ retired' = [retired EXCEPT ![slot] = hand]
          /\ hand' = Nobody /\ render' = resume
          /\ UNCHANGED <<leaked, slot>>
       \/ /\ retired[slot] # Nobody /\ slot < last
          /\ slot' = slot + 1
          /\ UNCHANGED <<retired, leaked, hand, render>>
       \/ /\ retired[slot] # Nobody /\ slot = last
          /\ leaked' = leaked \cup {hand}
          /\ hand' = Nobody /\ render' = resume
          /\ UNCHANGED <<retired, slot>>
    /\ UNCHANGED <<generation, incoming, unload, hardReset, subtune, freed, callerVars,
                   live, resume>>

\* Mutant: the search runs one slot too far.
Park_OneMore == ParkWithin(Slots + 1)

Park == ParkWithin(Slots)

\* Only the render thread writes live, so its exchange needs no step.
TakeUnload ==
    /\ render = "idle"
    /\ unload' = FALSE
    /\ IF unload
       THEN /\ live' = Nobody
            /\ Retire(live, "reset")
       ELSE /\ render' = "incoming"
            /\ UNCHANGED <<live, hand, slot, resume>>
    /\ UNCHANGED <<generation, incoming, retired, hardReset, subtune, heap, callerVars>>

TakeHardReset ==
    /\ render = "reset"
    /\ hardReset' = FALSE
    /\ render' = "incoming"
    /\ UNCHANGED <<generation, incoming, retired, unload, subtune, heap, callerVars,
                   live, hand, slot, resume>>

TakeIncomingAs(left) ==
    /\ render = "incoming"
    /\ incoming' = left
    /\ hand' = incoming
    /\ render' = IF incoming = Nobody THEN "idle" ELSE "install"
    /\ UNCHANGED <<generation, retired, unload, hardReset, subtune, heap, callerVars,
                   live, slot, resume>>

\* Mutant: the pointer is loaded instead of exchanged.
TakeIncoming_Loads == TakeIncomingAs(incoming)

TakeIncoming == TakeIncomingAs(Nobody)

Install ==
    /\ render = "install"
    /\ hardReset' = FALSE
    /\ live' = hand
    /\ IF live = Nobody
       THEN /\ render' = "idle" /\ hand' = Nobody
            /\ UNCHANGED <<slot, resume>>
       ELSE Retire(live, "idle")
    /\ UNCHANGED <<generation, incoming, retired, unload, subtune, heap, callerVars>>

Drain == TakeUnload \/ Park \/ TakeHardReset \/ TakeIncoming \/ Install

Next == (\E c \in Callers : Collect(c) \/ Load(c) \/ Unload(c)) \/ Drain

Spec == Init /\ [][Next]_vars

-----------------------------------------------------------------------------
(* Correctness.                                                            *)

SharedTypeOK ==
    /\ generation \in Nat /\ incoming \in Nat
    /\ retired \in [Ring -> Nat]
    /\ unload \in BOOLEAN /\ hardReset \in BOOLEAN /\ subtune \in Nat
    /\ freed \subseteq Nat /\ leaked \subseteq Nat
    /\ wanted \in Nat /\ overlapped \in BOOLEAN
CallersTypeOK ==
    /\ at \in [Callers -> {"idle", "collect", "admit", "init", "ready", "subtune",
                           "publish", "bump", "drop", "clear", "reset", "flag"}]
    /\ request \in [Callers -> {"load", "unload", "eject"}]
    /\ ticket \in [Callers -> Nat] /\ held \in [Callers -> Nat]
    /\ cursor \in [Callers -> Ring]
RenderTypeOK ==
    /\ live \in Nat /\ hand \in Nat /\ slot \in Ring
    /\ render \in {"idle", "park", "reset", "incoming", "install"}
    /\ resume \in {"idle", "reset"}

\* Indices stay inside the ring; every name of a player is a ticket.
TypeOK == SharedTypeOK /\ CallersTypeOK /\ RenderTypeOK

\* Where a player can be, and who is there.
Places ==
    {<<"caller", c>> : c \in Callers} \cup {<<"slot", s>> : s \in Ring}
        \cup {<<"incoming">>, <<"live">>, <<"render">>}
PlayerAt(x) ==
    CASE x[1] = "caller" -> held[x[2]]
      [] x[1] = "slot" -> retired[x[2]]
      [] x[1] = "incoming" -> incoming
      [] x[1] = "live" -> live
      [] x[1] = "render" -> hand

\* A player is in one pair of hands; once it is freed or leaked nobody has it
\* any more, in particular not the render thread.
OneHolder ==
    \A x \in Places : PlayerAt(x) # Nobody =>
        /\ PlayerAt(x) \notin freed \cup leaked
        /\ \A y \in Places \ {x} : PlayerAt(y) # PlayerAt(x)

\* No player is forgotten without being counted as leaked.
Known == {PlayerAt(x) : x \in Places} \cup freed \cup leaked
NobodyForgotten == [][Known \ {Nobody} \subseteq Known']_vars

Settled ==
    /\ \A c \in Callers : at[c] = "idle"
    /\ render = "idle" /\ ~unload /\ incoming = Nobody

\* If the calls came one after the other, then once everything is done what plays is the
\* tune of the newest request that took effect, or nothing.
NoOlderTunePlays == Settled /\ ~overlapped => live \in {wanted, Nobody}

\* Likewise, the subtune that the editor shows is a song of the tune that plays.
SubtuneOfLive == Settled /\ ~overlapped /\ live # Nobody => subtune = live

\* What the comment on the tickets claims: a load that was overtaken by another
\* one does not publish its player over the newer one.
NoStalePublish ==
    [][incoming # Nobody /\ incoming' # Nobody => incoming <= incoming']_vars
=============================================================================
