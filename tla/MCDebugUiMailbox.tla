-------------------------- MODULE MCDebugUiMailbox --------------------------
(***************************************************************************)
(* Small instances of DebugUiMailbox.                                       *)
(***************************************************************************)
EXTENDS DebugUiMailbox

CONSTANTS m1, m2

TwoMotors == {m1, m2}
Bench == {TRUE}
=============================================================================
