---------------------------- MODULE LatestValue ----------------------------
(***************************************************************************)
(* What a latest-value handoff promises, with no buffers in sight: writers *)
(* offer roots, numbered in the order they are offered; a later offer      *)
(* replaces an untaken one; the reader's root changes only by taking the   *)
(* newest offer, once and whole.  This is the contract the header comment  *)
(* of sid_ownership_mailbox.h gives; OwnershipMailbox implements it.       *)
(***************************************************************************)
EXTENDS Naturals

CONSTANT Root(_)   \* the root that was offered n-th; Root(0) is the first one

VARIABLES
    offered,    \* number of roots offered so far
    pending,    \* has the newest offer not been taken yet?
    current     \* the root the reader lives on

lvVars == <<offered, pending, current>>

LVInit == offered = 0 /\ pending = FALSE /\ current = Root(0)

\* A writer offers a root; an untaken one is lost to it.
Offer == offered' = offered + 1 /\ pending' = TRUE /\ UNCHANGED current

\* The reader takes the newest root, whole.
Take == pending /\ pending' = FALSE /\ current' = Root(offered) /\ UNCHANGED offered

LVNext == Offer \/ Take

LVSpec == LVInit /\ [][LVNext]_lvVars
=============================================================================
