--------------------------- MODULE MCMidiIngress ---------------------------
(***************************************************************************)
(* A ring of one message, so that most of the four find it full; a second  *)
(* latched release leads to a cleanup (the ninth in the code).             *)
(***************************************************************************)
EXTENDS MidiIngress
=============================================================================
