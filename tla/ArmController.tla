--------------------------- MODULE ArmController ---------------------------
(***************************************************************************)
(* The seven-axis safety state machine of App/Arm/arm_controller.c.  Each   *)
(* public function is one action whose guard is the function's rejection    *)
(* test; a rejected call changes nothing and is not a step.  Time stamps,   *)
(* diagnostics and fault_detail are left out: no decision reads them.       *)
(*                                                                          *)
(* Who calls which function, and when, is ArmLifecycle's subject; here any  *)
(* order of calls is allowed.                                               *)
(***************************************************************************)

CONSTANTS
  Bench,    \* TRUE for the profile AETHOR_PROFILE_USB_BENCH_RELATIVE
  Configs   \* the self-test verdicts the build's ArmConfig may have

ConfigVerdicts == {"ready", "incomplete", "invalid"}

ASSUME BenchAssumption == Bench \in BOOLEAN
ASSUME ConfigsAssumption == Configs \subseteq ConfigVerdicts

VARIABLES
  config,   \* what arm_config_validate_schema / _is_enable_ready answer
  state,    \* ArmController.state
  fault,    \* ArmController.fault
  mode,     \* ArmController.control_mode
  aligned,
  enabled,
  moving

ctlVars == <<config, state, fault, mode, aligned, enabled, moving>>

ArmStates == {"BOOT", "SELF_TEST", "UNALIGNED", "DISABLED", "ENABLING",
              "READY", "MOVING", "STOPPING", "FAULT"}
ConfigFaults == {"CONFIG_INVALID", "CONFIG_INCOMPLETE"}
RuntimeFaults == {"LINK_TIMEOUT", "MOTION_CONTROL", "TRANSPORT",
                  "CONTROL_DEADLINE", "DRIVER", "FEEDBACK_STALE"}
ArmFaults == {"NONE"} \cup ConfigFaults \cup RuntimeFaults
ControlModes == {"POSITION_VELOCITY", "MIT"}

\* The state a de-energised, fault-free controller returns to.
RestState == IF aligned THEN "DISABLED" ELSE "UNALIGNED"

ArmInit ==
  /\ config \in Configs
  /\ state = "BOOT"
  /\ fault = "NONE"
  /\ mode = "UNKNOWN"
  /\ aligned = FALSE
  /\ enabled = FALSE
  /\ moving = FALSE

-----------------------------------------------------------------------------
\* arm_controller_step: BOOT and SELF_TEST are left one service cycle each;
\* the bench profile tolerates an incomplete configuration.
EnterSelfTest ==
  /\ state = "BOOT"
  /\ state' = "SELF_TEST"
  /\ UNCHANGED <<config, fault, mode, aligned, enabled, moving>>

SelfTestFails ==
  /\ state = "SELF_TEST"
  /\ \/ config = "invalid" /\ fault' = "CONFIG_INVALID"
     \/ config = "incomplete" /\ ~Bench /\ fault' = "CONFIG_INCOMPLETE"
  /\ state' = "FAULT"
  /\ UNCHANGED <<config, mode, aligned, enabled, moving>>

SelfTestPasses ==
  /\ state = "SELF_TEST"
  /\ config = "ready" \/ (config = "incomplete" /\ Bench)
  /\ state' = "UNALIGNED"
  /\ fault' = "NONE"
  /\ UNCHANGED <<config, mode, aligned, enabled, moving>>

Step == EnterSelfTest \/ SelfTestFails \/ SelfTestPasses

\* arm_controller_mark_reference_aligned: its only caller has just aligned the
\* joint reference, which an unfinished configuration refuses.
MarkReferenceAligned ==
  /\ config = "ready"
  /\ \/ state = "UNALIGNED"
     \/ state = "DISABLED" /\ ~enabled /\ ~moving
  /\ state' = "DISABLED"
  /\ aligned' = TRUE
  /\ enabled' = FALSE
  /\ moving' = FALSE
  /\ UNCHANGED <<config, fault, mode>>

\* Common effect of the two functions that latch a runtime fault.
Latch(f) ==
  /\ state' = "FAULT"
  /\ fault' = f
  /\ enabled' = FALSE
  /\ moving' = FALSE
  /\ UNCHANGED <<config, mode, aligned>>

ForceStopDisable == Latch("LINK_TIMEOUT")

LatchRuntimeFault(f) == f \in RuntimeFaults /\ Latch(f)

ConfirmControlMode(m) ==
  /\ m \in ControlModes
  /\ state = "DISABLED" /\ ~enabled /\ ~moving
  /\ mode' = m
  /\ UNCHANGED <<config, state, fault, aligned, enabled, moving>>

\* Variant: a latched fault does not refuse the enable.
BeginEnable_FaultIgnored ==
  /\ state = "DISABLED" /\ aligned /\ mode # "UNKNOWN"
  /\ state' = "ENABLING" /\ enabled' = FALSE /\ moving' = FALSE
  /\ UNCHANGED <<config, fault, mode, aligned>>

BeginEnable ==
  /\ state = "DISABLED"
  /\ aligned
  /\ mode # "UNKNOWN"
  /\ fault = "NONE"
  /\ state' = "ENABLING"
  /\ enabled' = FALSE
  /\ moving' = FALSE
  /\ UNCHANGED <<config, fault, mode, aligned>>

ConfirmEnabled ==
  /\ state = "ENABLING"
  /\ state' = "READY"
  /\ enabled' = TRUE
  /\ moving' = FALSE
  /\ UNCHANGED <<config, fault, mode, aligned>>

MotionAllowed ==
  /\ state = "READY" /\ aligned /\ enabled /\ ~moving
  /\ fault = "NONE"
  /\ mode # "UNKNOWN"

BeginMotion ==
  /\ MotionAllowed
  /\ state' = "MOVING"
  /\ moving' = TRUE
  /\ UNCHANGED <<config, fault, mode, aligned, enabled>>

BeginControlledStop ==
  /\ state \in {"READY", "MOVING", "STOPPING"}
  /\ enabled
  /\ fault = "NONE"
  /\ state' = "STOPPING"
  /\ moving' = TRUE
  /\ UNCHANGED <<config, fault, mode, aligned, enabled>>

CompleteMotion ==
  /\ state \in {"MOVING", "STOPPING"}
  /\ enabled
  /\ fault = "NONE"
  /\ state' = "READY"
  /\ moving' = FALSE
  /\ UNCHANGED <<config, fault, mode, aligned, enabled>>

\* arm_controller_confirm_disabled has no state guard: it leaves any state,
\* FAULT included, and forgets only a link timeout.
ConfirmDisabled ==
  /\ state' = RestState
  /\ enabled' = FALSE
  /\ moving' = FALSE
  /\ fault' = IF fault = "LINK_TIMEOUT" THEN "NONE" ELSE fault
  /\ UNCHANGED <<config, mode, aligned>>

ClearFault ==
  /\ state = "FAULT" /\ ~enabled /\ ~moving
  /\ fault \notin ConfigFaults
  /\ fault' = "NONE"
  /\ state' = RestState
  /\ UNCHANGED <<config, mode, aligned, enabled, moving>>

ArmNext ==
  \/ Step
  \/ MarkReferenceAligned
  \/ ForceStopDisable
  \/ \E f \in RuntimeFaults : LatchRuntimeFault(f)
  \/ \E m \in ControlModes : ConfirmControlMode(m)
  \/ BeginEnable
  \/ ConfirmEnabled
  \/ BeginMotion
  \/ BeginControlledStop
  \/ CompleteMotion
  \/ ConfirmDisabled
  \/ ClearFault

ArmSpec == ArmInit /\ [][ArmNext]_ctlVars

-----------------------------------------------------------------------------
\* Every field stays within its enumeration.
ArmTypeOK ==
  /\ config \in Configs
  /\ state \in ArmStates
  /\ fault \in ArmFaults
  /\ mode \in ControlModes \cup {"UNKNOWN"}
  /\ aligned \in BOOLEAN
  /\ enabled \in BOOLEAN
  /\ moving \in BOOLEAN

\* The arm is energised, or about to be, only with a verified configuration, an
\* aligned reference, a confirmed drive mode and no latched fault: no order of
\* calls may carry a fault or a missing alignment past begin_enable's gate.
EnergisedIsGated ==
  (state \in {"ENABLING", "READY", "MOVING", "STOPPING"} \/ enabled \/ moving)
    => /\ config = "ready"
       /\ aligned
       /\ mode # "UNKNOWN"
       /\ fault = "NONE"

\* The redundant fields agree with the state: telemetry, the watchdog and the
\* runtime fault check read the flags, the gates read the state, and the host is
\* told the reason.
FlagsAgree ==
  /\ enabled <=> state \in {"READY", "MOVING", "STOPPING"}
  /\ moving <=> state \in {"MOVING", "STOPPING"}
  /\ state = "FAULT" => fault # "NONE"

=============================================================================
