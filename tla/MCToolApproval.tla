--------------------------- MODULE MCToolApproval ---------------------------
(***************************************************************************)
(* Instances of ToolApproval for TLC.                                      *)
(***************************************************************************)
EXTENDS ToolApproval
=============================================================================
