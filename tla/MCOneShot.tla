----------------------------- MODULE MCOneShot -----------------------------
(***************************************************************************)
(* Two drives, so that one can answer while the other does not.  They are   *)
(* found enabled; what is not a move disables them first.                   *)
(***************************************************************************)
EXTENDS OneShotAction

AllBuilds == {TRUE, FALSE}
=============================================================================
