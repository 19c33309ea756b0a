-------------------------- MODULE MCEventPipeline --------------------------
(***************************************************************************)
(* Six events in two blocks of two samples, with any samples in any order. *)
(* A lane takes one and a release, the nodes and the spill one each, the   *)
(* queue three: a block of six overflows all of them, the number of a note *)
(* in the node reaches that of a release in the lane, and a block of three *)
(* leaves room for a second one.                                           *)
(***************************************************************************)
EXTENDS EventPipeline
=============================================================================
