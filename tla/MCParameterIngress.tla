------------------------- MODULE MCParameterIngress -------------------------
(* Bounded instances of ParameterIngress for TLC: two concurrent setters     *)
(* with blocks and a restore; and one setter, for a claim that the code does *)
(* not keep.                                                                 *)
EXTENDS ParameterIngress
=============================================================================
