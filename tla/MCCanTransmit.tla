--------------------------- MODULE MCCanTransmit ---------------------------
(***************************************************************************)
(* Two joints, so that a group has two frames and one joint's traffic can   *)
(* overtake the other's; queue and FIFO that a cycle can fill.              *)
(***************************************************************************)
EXTENDS CanTransmit

AllBuilds == {TRUE, FALSE}
=============================================================================
