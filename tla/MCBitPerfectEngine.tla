------------------------- MODULE MCBitPerfectEngine -------------------------
(***************************************************************************)
(* Two voices and a held stack of two entries; three keys and one pedal at *)
(* a time, so that voices are stolen.  A note is played without an         *)
(* identity on one channel and with one on another.                        *)
(***************************************************************************)
EXTENDS BitPerfectEngine

MCPresses == {[note |-> 60, channel |-> 0, id |-> Anonymous],
              [note |-> 60, channel |-> 1, id |-> 5]}
=============================================================================
