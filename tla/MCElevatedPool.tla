--------------------------- MODULE MCElevatedPool ---------------------------
(***************************************************************************)
(* Two calls of any policy on one key, and up to two sessions.             *)
(***************************************************************************)
EXTENDS ElevatedPool

=============================================================================
