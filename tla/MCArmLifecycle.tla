--------------------------- MODULE MCArmLifecycle ---------------------------
(***************************************************************************)
(* Two joints are enough for a fault on a joint outside the scope of a      *)
(* CLEAR and for a half-enabled arm; the joints are interchangeable.        *)
(***************************************************************************)
EXTENDS ArmLifecycle, TLC
CONSTANTS j1, j2
MCJoints == {j1, j2}
MCConfigs == {"ready", "incomplete", "invalid"}
JointSymmetry == Permutations(MCJoints)
=============================================================================
