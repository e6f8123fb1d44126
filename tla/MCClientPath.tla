---------------------------- MODULE MCClientPath ----------------------------
(***************************************************************************)
(* ClientPath for the model checker.                                       *)
(***************************************************************************)
EXTENDS ClientPath
=============================================================================
