--------------------------- MODULE MCModelRelease ---------------------------
(***************************************************************************)
(* Two callers and four evaluations, one of which fails a gate.             *)
(***************************************************************************)
EXTENDS ModelRelease

CONSTANTS e1, e2, e3, e4
=============================================================================
