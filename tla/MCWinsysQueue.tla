--------------------------- MODULE MCWinsysQueue ---------------------------
(***************************************************************************)
(* Instances of WinsysQueue for TLC: two programs, the listener, mouse     *)
(* handlers and two operations to tell their order apart.                  *)
(***************************************************************************)
EXTENDS WinsysQueue

CONSTANTS p, q, winsys, display, focus
=============================================================================
