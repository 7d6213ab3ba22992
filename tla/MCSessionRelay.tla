--------------------------- MODULE MCSessionRelay ---------------------------
(* Instances of SessionRelay for TLC: the constants are in the cfg. *)
EXTENDS SessionRelay

CONSTANT Two

=============================================================================
