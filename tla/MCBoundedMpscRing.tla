-------------------------- MODULE MCBoundedMpscRing --------------------------
(* Bounded instance of BoundedMpscRing for TLC: two cells, so that every push *)
(* after the second laps the ring.                                           *)
EXTENDS BoundedMpscRing
=============================================================================
