---------------------------- MODULE MCCanReceive ----------------------------
(***************************************************************************)
(* Small instances of CanReceive.                                           *)
(***************************************************************************)
EXTENDS CanReceive
=============================================================================
