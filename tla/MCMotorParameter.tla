-------------------------- MODULE MCMotorParameter --------------------------
(***************************************************************************)
(* Two drives with two registers each: the mode, and one of the registers    *)
(* read after it.  The deadlines keep the proportions of the code: four      *)
(* registers times two attempts times the timeout, and a margin, for a       *)
(* discovery; less than two drives times the attempts for a mode switch.     *)
(***************************************************************************)
EXTENDS MotorParameter

Read == <<"mode", "range">>
=============================================================================
