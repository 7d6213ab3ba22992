-------------------------- MODULE MCManageInstance --------------------------
(***************************************************************************)
(* Two brokre manage, one brokre mcp that starts one server.               *)
(***************************************************************************)
EXTENDS ManageInstance

=============================================================================
