---------------------------- MODULE MCRunService ----------------------------
(* Small instances of RunService for TLC. *)
EXTENDS RunService, TLC

CONSTANTS j1, j2
=============================================================================
