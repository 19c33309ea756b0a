------------------------- MODULE MCOwnershipMailbox -------------------------
(* Two producers and roots of three parts: none, some or all of a root can  *)
(* be copied, prepared or swapped when the other threads take a step.       *)
EXTENDS OwnershipMailbox
=============================================================================
