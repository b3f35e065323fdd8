------------------------- MODULE MCCommandLifecycle -------------------------
(* Bounded instance of CommandLifecycle for TLC. *)
EXTENDS CommandLifecycle

CONSTANTS m1, m2
OneMotor == {m1}
BothProfiles == {TRUE, FALSE}
BenchOnly == {TRUE}
TwoMotors == {m1, m2}
=============================================================================
