---------------------------- MODULE ArmLifecycle ----------------------------
(***************************************************************************)
(* The formal-arm executor of App/aethor_app.c around the safety state      *)
(* machine of ArmController: the 4 ms service of ArmControlTask starts,     *)
(* advances, pre-empts and times out one seven-axis action at a time while  *)
(* the drives, the feedback and the link fail underneath it.                *)
(*                                                                          *)
(* One service cycle is one task activation and is atomic for everybody     *)
(* else.  It is written as two steps ("begin", "service") because it may    *)
(* call arm_controller_step and one further controller function; the        *)
(* environment moves only between cycles.  Deadlines are abstracted to the  *)
(* choice that an unfinished action expires; the stop plan, the motion plan *)
(* and the frame builders to their success or failure.                      *)
(* A terminal always finds room here: the bounded stores of terminals are    *)
(* the subject of CommandLifecycle.                                         *)
(***************************************************************************)
EXTENDS ArmController

CONSTANT Joints   \* the joints of the arm

VARIABLES
  phase,       \* where ArmControlTask is inside aethor_app_service
  action,      \* application_action.state, restricted to the arm profile
  scope,       \* command.motor_mask of a CLEAR_FAULT, else {}
  drive,       \* what each drive reports: "off", "on" or "fault"
  fresh,       \* every joint's feedback is younger than the stale limit
  emergency,   \* application_emergency_disable_batch still has frames
  result       \* terminal code of the last finished command

plantVars == <<drive, fresh>>
vars == <<config, state, fault, mode, aligned, enabled, moving,
          phase, action, scope, drive, fresh, emergency, result>>

\* aethor_app_selected_motors_have_state / _are_fault_free: stale feedback of a
\* selected joint answers no.
AllReport(s) == fresh /\ \A j \in Joints : drive[j] = s
FaultFree(js) == fresh /\ \A j \in js : drive[j] # "fault"

Init ==
  /\ ArmInit
  /\ phase = "begin"
  /\ action = "IDLE"
  /\ scope = {}
  /\ drive \in [Joints -> {"off", "on"}]
  /\ fresh = FALSE
  /\ emergency = FALSE
  /\ result = "NONE"

\* aethor_app_complete_action: the action is cleared with its terminal.
Complete(code) ==
  /\ action' = "IDLE"
  /\ scope' = {}
  /\ result' = code

EndCycle == phase' = "begin"
Plant == UNCHANGED plantVars
KeepArm == UNCHANGED ctlVars
KeepEmergency == UNCHANGED emergency

-----------------------------------------------------------------------------
\* Variant: the fault is latched but the running action is not completed.
TransportFault_ActionKept ==
  /\ phase = "begin"
  /\ LatchRuntimeFault("TRANSPORT")
  /\ emergency' = TRUE
  /\ UNCHANGED <<phase, action, scope, result>> /\ Plant

\* Start of aethor_app_service.  A reported transport fault is applied before
\* anything else and ends the cycle (aethor_app_apply_transport_fault).
TransportFault ==
  /\ phase = "begin"
  /\ IF action = "IDLE" THEN UNCHANGED <<action, scope, result>>
                        ELSE Complete("FAILED")
  /\ LatchRuntimeFault("TRANSPORT")
  /\ emergency' = TRUE
  /\ UNCHANGED phase /\ Plant

\* Otherwise the controller is stepped.
BeginCycle ==
  /\ phase = "begin"
  /\ phase' = "service"
  /\ Step \/ (state \notin {"BOOT", "SELF_TEST"} /\ KeepArm)
  /\ UNCHANGED <<action, scope, result>> /\ Plant /\ KeepEmergency

\* What the cycle finds on the link and the drives, in the order it is tested.
Armed == enabled \/ moving
DriverFaulted == \E j \in Joints : drive[j] = "fault"
RuntimeFaultSeen == Armed /\ (DriverFaulted \/ ~fresh)

\* The runtime fault check: the driver fault wins over stale feedback, which
\* wins over three consecutive missed control deadlines.
RuntimeFault ==
  /\ phase = "service" /\ EndCycle
  /\ Armed
  /\ IF DriverFaulted THEN LatchRuntimeFault("DRIVER")
     ELSE IF ~fresh THEN LatchRuntimeFault("FEEDBACK_STALE")
     ELSE LatchRuntimeFault("CONTROL_DEADLINE")
  /\ IF action = "IDLE" THEN UNCHANGED <<action, scope, result>>
                        ELSE Complete("FAILED")
  /\ emergency' = TRUE
  /\ Plant

\* protocol_engine_watchdog_expired judges the masks of the last processed
\* line, at least a second old: any present state is possible.
WatchdogExpires ==
  /\ phase = "service" /\ EndCycle
  /\ ~RuntimeFaultSeen
  /\ IF action = "IDLE" THEN UNCHANGED <<action, scope, result>>
                        ELSE Complete("CANCELLED")
  /\ ForceStopDisable
  /\ emergency' = TRUE
  /\ Plant

\* A cycle in which neither fires goes on to the foreground work.
Foreground == phase = "service" /\ EndCycle /\ ~RuntimeFaultSeen /\ Plant

-----------------------------------------------------------------------------
\* aethor_app_start_lifecycle_action, one disjunct per command type.
Begin(a) == action' = a /\ scope' = {} /\ UNCHANGED result
Reject == action' = "IDLE" /\ scope' = {} /\ result' = "FAILED"

StartAlign ==
  /\ \/ fresh /\ MarkReferenceAligned /\ result' = "COMPLETED"
     \/ KeepArm /\ result' = "FAILED"
  /\ UNCHANGED <<action, scope>> /\ KeepEmergency

StartSetMode ==
  Begin("MODE_SWITCH") /\ KeepArm /\ KeepEmergency

StartEnable ==
  /\ \/ BeginEnable /\ Begin("ENABLE_WAIT")
     \/ KeepArm /\ Reject
  /\ KeepEmergency

\* A plan that cannot be put on the bus is a motion-control failure: begin_motion
\* and the latch happen in the same call.
StartMove ==
  \/ BeginMotion /\ Begin("MOTION") /\ KeepEmergency
  \/ /\ MotionAllowed
     /\ LatchRuntimeFault("MOTION_CONTROL")
     /\ Reject
     /\ emergency' = TRUE
  \/ KeepArm /\ Reject /\ KeepEmergency

StartDisable ==
  Begin("DISABLE_WAIT") /\ KeepArm /\ KeepEmergency

StartClear ==
  /\ \/ /\ mode # "UNKNOWN"
        /\ action' = "CLEAR_FAULT_WAIT"
        /\ scope' \in (SUBSET Joints) \ {{}}
        /\ UNCHANGED result
     \/ mode = "UNKNOWN" /\ Reject
  /\ KeepArm /\ KeepEmergency

\* STOP decelerates under power when the feedback and the plan allow it; if not,
\* or if the first control group cannot be queued (the controller has then
\* already entered STOPPING), it disables every axis.
StartStop ==
  /\ \/ fresh /\ BeginControlledStop /\ action' = "CONTROLLED_STOP"
     \/ fresh /\ BeginControlledStop /\ action' = "STOP_DISABLE_WAIT"
     \/ KeepArm /\ action' = "STOP_DISABLE_WAIT"
  /\ scope' = {}
  /\ result' = IF action = "IDLE" THEN result ELSE "CANCELLED"
  /\ KeepEmergency

\* The idle executor takes the next command from the normal ring.
StartCommand ==
  /\ Foreground
  /\ action = "IDLE"
  /\ \/ StartAlign \/ StartSetMode \/ StartEnable \/ StartMove
     \/ StartDisable \/ StartClear

\* STOP has its own slot and pre-empts whatever is active.
TakeStop == Foreground /\ StartStop

-----------------------------------------------------------------------------
\* aethor_app_service_active_action, one disjunct per action state.
FinishModeSwitch ==
  /\ action = "MODE_SWITCH"
  /\ \/ /\ \E m \in ControlModes : ConfirmControlMode(m)
        /\ Complete("COMPLETED")
     \/ KeepArm /\ Complete("FAILED")
  /\ KeepEmergency

FinishEnable ==
  /\ action = "ENABLE_WAIT"
  /\ AllReport("on")
  /\ ConfirmEnabled
  /\ Complete("COMPLETED")
  /\ KeepEmergency

FinishMotion ==
  /\ action = "MOTION" /\ fresh
  /\ CompleteMotion
  /\ Complete("COMPLETED")
  /\ KeepEmergency

FinishControlledStop ==
  /\ action = "CONTROLLED_STOP" /\ fresh
  /\ CompleteMotion
  /\ Complete("STOPPED")
  /\ KeepEmergency

\* Variant: the failed group latches the fault without disabling the drives.
MotionGroupFails_NoDisable ==
  /\ action \in {"MOTION", "CONTROLLED_STOP"}
  /\ LatchRuntimeFault("MOTION_CONTROL")
  /\ Complete("FAILED")
  /\ KeepEmergency

\* A periodic control group that cannot be built or queued.
MotionGroupFails ==
  /\ action \in {"MOTION", "CONTROLLED_STOP"}
  /\ LatchRuntimeFault("MOTION_CONTROL")
  /\ Complete("FAILED")
  /\ emergency' = TRUE

\* Variant: the executor forgets that an unaligned arm rests UNALIGNED.
FinishDisable_AlwaysDisabled ==
  /\ action \in {"STOP_DISABLE_WAIT", "DISABLE_WAIT"}
  /\ AllReport("off")
  /\ state' = "DISABLED" /\ enabled' = FALSE /\ moving' = FALSE
  /\ UNCHANGED <<config, fault, mode, aligned>>
  /\ Complete("STOPPED")
  /\ KeepEmergency

FinishDisable ==
  /\ action \in {"STOP_DISABLE_WAIT", "DISABLE_WAIT"}
  /\ AllReport("off")
  /\ ConfirmDisabled
  /\ Complete(IF action = "DISABLE_WAIT" THEN "COMPLETED" ELSE "STOPPED")
  /\ KeepEmergency

FinishClear ==
  /\ action = "CLEAR_FAULT_WAIT"
  /\ FaultFree(scope)
  /\ ClearFault
  /\ Complete("COMPLETED")
  /\ KeepEmergency

\* The deadline of an action that has not finished.
Expire ==
  /\ action # "IDLE"
  /\ \/ /\ action = "ENABLE_WAIT"
        /\ ForceStopDisable
        /\ emergency' = TRUE
     \/ /\ action \in {"MOTION", "CONTROLLED_STOP"}
        /\ LatchRuntimeFault("MOTION_CONTROL")
        /\ emergency' = TRUE
     \/ /\ action \notin {"ENABLE_WAIT", "MOTION", "CONTROLLED_STOP"}
        /\ KeepArm /\ KeepEmergency
  /\ Complete("FAILED")

Wait == KeepArm /\ KeepEmergency /\ UNCHANGED <<action, scope, result>>

ServiceAction ==
  /\ Foreground
  /\ \/ FinishModeSwitch \/ FinishEnable \/ FinishMotion
     \/ FinishControlledStop \/ MotionGroupFails \/ FinishDisable
     \/ FinishClear \/ Expire \/ Wait

-----------------------------------------------------------------------------
\* The drives and the feedback, between two cycles.
Outside ==
  /\ phase = "begin"
  /\ UNCHANGED <<phase, action, scope, result>> /\ KeepArm

SetDrive(j, s) == drive' = [drive EXCEPT ![j] = s]

DriveEnables ==
  /\ Outside /\ action = "ENABLE_WAIT"
  /\ \E j \in Joints : drive[j] = "off" /\ SetDrive(j, "on")
  /\ UNCHANGED <<fresh, emergency>>

DriveDisables ==
  /\ Outside
  /\ emergency \/ action \in {"STOP_DISABLE_WAIT", "DISABLE_WAIT"}
  /\ \E j \in Joints : drive[j] = "on" /\ SetDrive(j, "off")
  /\ UNCHANGED <<fresh, emergency>>

DriveFaults ==
  /\ Outside
  /\ \E j \in Joints : SetDrive(j, "fault")
  /\ UNCHANGED <<fresh, emergency>>

DriveClears ==
  /\ Outside /\ action = "CLEAR_FAULT_WAIT"
  /\ \E j \in scope : drive[j] = "fault" /\ SetDrive(j, "off")
  /\ UNCHANGED <<fresh, emergency>>

FeedbackChanges ==
  Outside /\ fresh' = ~fresh /\ UNCHANGED <<drive, emergency>>

\* aethor_app_pop_emergency_can_frame drains the batch after the service.
EmergencySent ==
  Outside /\ emergency /\ emergency' = FALSE /\ Plant

Environment ==
  \/ DriveEnables \/ DriveDisables \/ DriveFaults \/ DriveClears
  \/ FeedbackChanges \/ EmergencySent

Cycle ==
  \/ TransportFault \/ BeginCycle \/ RuntimeFault \/ WatchdogExpires
  \/ StartCommand \/ TakeStop \/ ServiceAction

Next == Cycle \/ Environment

Spec == Init /\ [][Next]_vars

-----------------------------------------------------------------------------
\* The executor and the controller agree on what the arm is doing.  The arm is
\* ENABLING or MOVING on somebody's behalf: the action that put it there, or the
\* STOP or DISABLE that took it over; it is left there without an owner only
\* after the takeover itself was reported FAILED.
ArmHasOwner ==
  /\ state = "ENABLING" =>
       action \in {"ENABLE_WAIT", "STOP_DISABLE_WAIT", "DISABLE_WAIT"}
         \/ result = "FAILED"
  /\ action = "ENABLE_WAIT" => state = "ENABLING"
  /\ action = "MOTION" => state = "MOVING"
  /\ action = "CONTROLLED_STOP" => state = "STOPPING"

\* Losing power because of a fault always arms a fresh emergency disable batch:
\* no path into FAULT from an energised arm leaves the drives to themselves.
FaultDisablesDrives ==
  [][Armed /\ state' = "FAULT" => emergency']_vars

\* Nothing but a COMPLETED ENABLE energises the logical arm, and only while
\* every drive reports itself enabled.
EnableIsConfirmed ==
  [][~enabled /\ enabled' =>
       action = "ENABLE_WAIT" /\ result' = "COMPLETED" /\ AllReport("on")]_vars

=============================================================================
