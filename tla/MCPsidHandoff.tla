--------------------------- MODULE MCPsidHandoff ---------------------------
(***************************************************************************)
(* Two callers.  MaxRequests tickets are drawn as long as calls follow one *)
(* another, which fills the ring of two slots (eight in the code) and      *)
(* leaks players; MaxShared once two calls have overlapped.                *)
(***************************************************************************)
EXTENDS PsidHandoff
=============================================================================
