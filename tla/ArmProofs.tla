------------------------------ MODULE ArmProofs ------------------------------
(***************************************************************************)
(* Proofs about the arm: the controller's inductive invariant, and that the *)
(* executor around it only ever moves the controller by calls the           *)
(* controller allows, so that everything proved of the controller alone     *)
(* holds of the composed system.                                            *)
(***************************************************************************)
EXTENDS ArmLifecycle, TLAPS

\* An arm that rests DISABLED has been aligned, and only a verified
\* configuration can be aligned: this is what begin_enable relies on without
\* testing the configuration again.
AlignedIsVerified ==
  /\ aligned => config = "ready"
  /\ state = "DISABLED" => aligned

ArmInv == ArmTypeOK /\ EnergisedIsGated /\ FlagsAgree /\ AlignedIsVerified

\* The initial controller (arm_controller_init) satisfies the invariant.
LEMMA ArmInvInit == ArmInit => ArmInv
  BY DEF ArmInit, ArmInv, ArmTypeOK, EnergisedIsGated, FlagsAgree,
         AlignedIsVerified, ArmStates, ArmFaults, ControlModes

\* Every controller function, called in any order, preserves the invariant.
LEMMA ArmInvStep == ArmInv /\ [ArmNext]_ctlVars => ArmInv'
<1> SUFFICES ASSUME ArmInv, [ArmNext]_ctlVars
             PROVE  ArmInv'
  OBVIOUS
<1> USE DEF ArmInv, ArmTypeOK, EnergisedIsGated, FlagsAgree, AlignedIsVerified,
            ArmStates, ArmFaults, ConfigFaults, RuntimeFaults, ControlModes
<1>1. CASE Step
  BY <1>1 DEF Step, EnterSelfTest, SelfTestFails, SelfTestPasses
<1>2. CASE MarkReferenceAligned
  BY <1>2 DEF MarkReferenceAligned
<1>3. CASE ForceStopDisable
  BY <1>3 DEF ForceStopDisable, Latch
<1>4. CASE \E f \in RuntimeFaults : LatchRuntimeFault(f)
  <2> PICK f \in RuntimeFaults : LatchRuntimeFault(f)
    BY <1>4
  <2>1. f # "NONE" /\ f \in ArmFaults
    BY DEF RuntimeFaults
  <2>2. /\ state' = "FAULT" /\ fault' = f
        /\ enabled' = FALSE /\ moving' = FALSE
        /\ UNCHANGED <<config, mode, aligned>>
    BY DEF LatchRuntimeFault, Latch
  <2> QED
    BY <2>1, <2>2
<1>5. CASE \E m \in ControlModes : ConfirmControlMode(m)
  BY <1>5 DEF ConfirmControlMode
<1>6. CASE BeginEnable
  BY <1>6 DEF BeginEnable
<1>7. CASE ConfirmEnabled
  BY <1>7 DEF ConfirmEnabled
<1>8. CASE BeginMotion
  BY <1>8 DEF BeginMotion, MotionAllowed
<1>9. CASE BeginControlledStop
  BY <1>9 DEF BeginControlledStop
<1>10. CASE CompleteMotion
  BY <1>10 DEF CompleteMotion
<1>11. CASE ConfirmDisabled
  BY <1>11 DEF ConfirmDisabled, RestState
<1>12. CASE ClearFault
  BY <1>12 DEF ClearFault, RestState
<1>13. CASE UNCHANGED ctlVars
  BY <1>13 DEF ctlVars
<1> QED
  BY <1>1, <1>2, <1>3, <1>4, <1>5, <1>6, <1>7, <1>8, <1>9, <1>10, <1>11,
     <1>12, <1>13 DEF ArmNext

\* The strengthened invariant holds in every state of the controller, whoever
\* calls its functions and in whatever order.
THEOREM ArmInvariance == ArmSpec => []ArmInv
<1>1. ArmInit => ArmInv
  BY ArmInvInit
<1>2. ArmInv /\ [ArmNext]_ctlVars => ArmInv'
  BY ArmInvStep
<1> QED
  BY <1>1, <1>2, PTL DEF ArmSpec

\* For every configuration verdict and both profiles, no sequence of calls
\* energises the arm past a missing configuration, alignment, drive mode or a
\* latched fault.
THEOREM ArmGated == ArmSpec => []EnergisedIsGated
<1>1. ArmInv => EnergisedIsGated
  BY DEF ArmInv
<1> QED
  BY <1>1, ArmInvariance, PTL

-----------------------------------------------------------------------------
\* One service cycle step or environment step calls at most one controller
\* function, or leaves the controller alone.
LEMMA ExecutorStep == [Next]_vars => [ArmNext]_ctlVars
<1> SUFFICES ASSUME [Next]_vars
             PROVE  [ArmNext]_ctlVars
  OBVIOUS
<1> USE DEF ArmNext, ctlVars, KeepArm
<1>1. CASE TransportFault
  BY <1>1 DEF TransportFault, RuntimeFaults, LatchRuntimeFault
<1>2. CASE BeginCycle
  BY <1>2 DEF BeginCycle
<1>3. CASE RuntimeFault
  BY <1>3 DEF RuntimeFault, LatchRuntimeFault
<1>4. CASE WatchdogExpires
  BY <1>4 DEF WatchdogExpires
<1>5. CASE StartCommand
  BY <1>5 DEF StartCommand, StartAlign, StartSetMode, StartEnable, StartMove,
     StartDisable, StartClear, LatchRuntimeFault
<1>6. CASE TakeStop
  BY <1>6 DEF TakeStop, StartStop
<1>7. CASE ServiceAction
  BY <1>7 DEF ServiceAction, FinishModeSwitch, FinishEnable, FinishMotion,
     FinishControlledStop, MotionGroupFails, FinishDisable, FinishClear,
     Expire, Wait, LatchRuntimeFault
<1>8. CASE Environment
  BY <1>8 DEF Environment, DriveEnables, DriveDisables, DriveFaults,
     DriveClears, FeedbackChanges, EmergencySent, Outside
<1>9. CASE UNCHANGED vars
  BY <1>9 DEF vars
<1> QED
  BY <1>1, <1>2, <1>3, <1>4, <1>5, <1>6, <1>7, <1>8, <1>9 DEF Next, Cycle

\* The executor implements the controller's specification.
THEOREM ExecutorImplementsController == Spec => ArmSpec
<1>1. Init => ArmInit
  BY DEF Init
<1>2. [Next]_vars => [ArmNext]_ctlVars
  BY ExecutorStep
<1> QED
  BY <1>1, <1>2, PTL DEF Spec, ArmSpec

\* Hence the gate holds of the whole executor, for any number of joints.
THEOREM ExecutorGated == Spec => []EnergisedIsGated
  BY ExecutorImplementsController, ArmGated, PTL
-----------------------------------------------------------------------------
\* The executor's own invariant rests on the controller's.
OwnerInv == ArmInv /\ ArmHasOwner

\* Nobody waits for an action in the state aethor_app_init leaves.
LEMMA OwnerInit == Init => OwnerInv
<1> SUFFICES ASSUME Init PROVE OwnerInv
  OBVIOUS
<1>1. ArmInv
  BY ArmInvInit DEF Init
<1>2. ArmHasOwner
  BY DEF Init, ArmInit, ArmHasOwner
<1> QED
  BY <1>1, <1>2 DEF OwnerInv

\* Starting a command, or a STOP that takes the running one over, leaves every
\* energising state with an owner.
LEMMA OwnerStarts ==
  ASSUME OwnerInv, StartCommand \/ TakeStop
  PROVE  ArmHasOwner'
<1> USE DEF OwnerInv, ArmHasOwner, Begin, Reject, KeepArm, ctlVars
<1>1. CASE TakeStop
  BY <1>1 DEF TakeStop, StartStop, BeginControlledStop
<1>2. CASE StartCommand
  <2>1. CASE StartAlign
    BY <1>2, <2>1 DEF StartCommand, StartAlign, MarkReferenceAligned
  <2>2. CASE StartSetMode
    BY <1>2, <2>2 DEF StartCommand, StartSetMode
  <2>3. CASE StartEnable
    BY <1>2, <2>3 DEF StartCommand, StartEnable, BeginEnable
  <2>4. CASE StartMove
    BY <1>2, <2>4 DEF StartCommand, StartMove, BeginMotion, LatchRuntimeFault, Latch
  <2>5. CASE StartDisable
    BY <1>2, <2>5 DEF StartCommand, StartDisable
  <2>6. CASE StartClear
    BY <1>2, <2>6 DEF StartCommand, StartClear
  <2> QED
    BY <1>2, <2>1, <2>2, <2>3, <2>4, <2>5, <2>6 DEF StartCommand
<1> QED
  BY <1>1, <1>2

\* So does whatever ends an action, or lets it go on.
LEMMA OwnerServes ==
  ASSUME OwnerInv, ServiceAction
  PROVE  ArmHasOwner'
<1> USE DEF OwnerInv, ArmHasOwner, Complete, KeepArm, ctlVars
<1>1. CASE FinishModeSwitch
  BY <1>1 DEF FinishModeSwitch, ConfirmControlMode
<1>2. CASE FinishEnable
  BY <1>2 DEF FinishEnable, ConfirmEnabled
<1>3. CASE FinishMotion \/ FinishControlledStop
  BY <1>3 DEF FinishMotion, FinishControlledStop, CompleteMotion
<1>4. CASE MotionGroupFails
  BY <1>4 DEF MotionGroupFails, LatchRuntimeFault, Latch
<1>5. CASE FinishDisable
  BY <1>5 DEF FinishDisable, ConfirmDisabled, RestState
<1>6. CASE FinishClear
  BY <1>6 DEF FinishClear, ClearFault, RestState
<1>7. CASE Expire
  BY <1>7 DEF Expire, ForceStopDisable, LatchRuntimeFault, Latch
<1>8. CASE Wait
  BY <1>8 DEF Wait
<1> QED
  BY <1>1, <1>2, <1>3, <1>4, <1>5, <1>6, <1>7, <1>8 DEF ServiceAction

\* Every step of the composed system preserves both invariants.
LEMMA OwnerStep == OwnerInv /\ [Next]_vars => OwnerInv'
<1> SUFFICES ASSUME OwnerInv, [Next]_vars
             PROVE  OwnerInv'
  OBVIOUS
<1> USE DEF OwnerInv
<1>1. ArmInv'
  BY ExecutorStep, ArmInvStep
<1>2. ArmHasOwner'
  <2> USE DEF ArmHasOwner, Complete, KeepArm, ctlVars, Latch
  <2>1. CASE TransportFault
    BY <2>1 DEF TransportFault, LatchRuntimeFault
  <2>2. CASE BeginCycle
    BY <2>2 DEF BeginCycle, Step, EnterSelfTest, SelfTestFails, SelfTestPasses
  <2>3. CASE RuntimeFault
    BY <2>3 DEF RuntimeFault, LatchRuntimeFault
  <2>4. CASE WatchdogExpires
    BY <2>4 DEF WatchdogExpires, ForceStopDisable
  <2>5. CASE StartCommand \/ TakeStop
    BY <2>5, OwnerStarts
  <2>6. CASE ServiceAction
    BY <2>6, OwnerServes
  <2>7. CASE Environment
    BY <2>7 DEF Environment, DriveEnables, DriveDisables, DriveFaults,
       DriveClears, FeedbackChanges, EmergencySent, Outside
  <2>8. CASE UNCHANGED vars
    BY <2>8 DEF vars
  <2> QED
    BY <2>1, <2>2, <2>3, <2>4, <2>5, <2>6, <2>7, <2>8 DEF Next, Cycle
<1> QED
  BY <1>1, <1>2

\* Whatever pre-empts, expires or fails underneath it, an arm that is ENABLING or
\* in motion belongs to the action that put it there or to the one that took it
\* over, for any number of joints.
THEOREM ArmIsOwned == Spec => []ArmHasOwner
<1>1. Init => OwnerInv
  BY OwnerInit
<1>2. OwnerInv /\ [Next]_vars => OwnerInv'
  BY OwnerStep
<1>3. OwnerInv => ArmHasOwner
  BY DEF OwnerInv
<1> QED
  BY <1>1, <1>2, <1>3, PTL DEF Spec

\* An energised arm is not in FAULT, so the step into FAULT is the one that must
\* arm the emergency batch.
LEMMA FaultStep ==
  ArmInv /\ [Next]_vars /\ Armed /\ state' = "FAULT" => emergency'
<1> SUFFICES ASSUME ArmInv, [Next]_vars, Armed, state' = "FAULT"
             PROVE  emergency'
  OBVIOUS
<1> USE DEF Armed, KeepArm, ctlVars, Latch
<1>0. state \in {"READY", "MOVING", "STOPPING"}
  BY DEF ArmInv, ArmTypeOK, FlagsAgree
<1>1. CASE TransportFault \/ RuntimeFault \/ WatchdogExpires
  BY <1>1 DEF TransportFault, RuntimeFault, WatchdogExpires
<1>2. CASE BeginCycle
  BY <1>0, <1>2 DEF BeginCycle, Step, EnterSelfTest, SelfTestFails, SelfTestPasses
<1>3. CASE StartCommand
  BY <1>0, <1>3 DEF StartCommand, StartAlign, StartSetMode, StartEnable, StartMove,
     StartDisable, StartClear, MarkReferenceAligned, BeginEnable, BeginMotion
<1>4. CASE TakeStop
  BY <1>0, <1>4 DEF TakeStop, StartStop, BeginControlledStop
<1>5. CASE ServiceAction
  BY <1>0, <1>5 DEF ServiceAction, FinishModeSwitch, FinishEnable, FinishMotion,
     FinishControlledStop, MotionGroupFails, FinishDisable, FinishClear, Expire,
     Wait, ConfirmControlMode, ConfirmEnabled, CompleteMotion, ConfirmDisabled,
     ClearFault, RestState
<1>6. CASE Environment
  BY <1>0, <1>6 DEF Environment, DriveEnables, DriveDisables, DriveFaults,
     DriveClears, FeedbackChanges, EmergencySent, Outside
<1>7. CASE UNCHANGED vars
  BY <1>0, <1>7 DEF vars
<1> QED
  BY <1>1, <1>2, <1>3, <1>4, <1>5, <1>6, <1>7 DEF Next, Cycle

\* No way from an energised arm into FAULT leaves the drives to themselves.
THEOREM FaultsDisableDrives == Spec => FaultDisablesDrives
<1>1. ArmInv /\ [Next]_vars => [Armed /\ state' = "FAULT" => emergency']_vars
  BY FaultStep
<1>2. Spec => []ArmInv
  BY ExecutorImplementsController, ArmInvariance, PTL
<1> QED
  BY <1>1, <1>2, PTL DEF Spec, FaultDisablesDrives

\* Only FinishEnable raises the flag of a de-energised arm.
LEMMA EnableStep ==
  ArmInv /\ [Next]_vars /\ ~enabled /\ enabled'
    => action = "ENABLE_WAIT" /\ result' = "COMPLETED" /\ AllReport("on")
<1> SUFFICES ASSUME ArmInv, [Next]_vars, ~enabled, enabled'
             PROVE  FinishEnable
  BY DEF FinishEnable, Complete
<1> USE DEF KeepArm, ctlVars, Latch
<1>1. CASE TransportFault \/ RuntimeFault \/ WatchdogExpires
  BY <1>1 DEF TransportFault, RuntimeFault, WatchdogExpires, LatchRuntimeFault,
     ForceStopDisable
<1>2. CASE BeginCycle
  BY <1>2 DEF BeginCycle, Step, EnterSelfTest, SelfTestFails, SelfTestPasses
<1>3. CASE StartCommand
  BY <1>3 DEF StartCommand, StartAlign, StartSetMode, StartEnable, StartMove,
     StartDisable, StartClear, MarkReferenceAligned, BeginEnable, BeginMotion,
     LatchRuntimeFault
<1>4. CASE TakeStop
  BY <1>4 DEF TakeStop, StartStop, BeginControlledStop
<1>5. CASE ServiceAction
  BY <1>5 DEF ServiceAction, FinishModeSwitch, FinishMotion, FinishControlledStop,
     MotionGroupFails, FinishDisable, FinishClear, Expire, Wait,
     ConfirmControlMode, CompleteMotion, ConfirmDisabled, ClearFault,
     LatchRuntimeFault, ForceStopDisable
<1>6. CASE Environment
  BY <1>6 DEF Environment, DriveEnables, DriveDisables, DriveFaults,
     DriveClears, FeedbackChanges, EmergencySent, Outside
<1>7. CASE UNCHANGED vars
  BY <1>7 DEF vars
<1> QED
  BY <1>1, <1>2, <1>3, <1>4, <1>5, <1>6, <1>7 DEF Next, Cycle

\* The logical arm is energised only by an ENABLE that ends COMPLETED while every
\* drive reports itself enabled.
THEOREM EnableIsReported == Spec => EnableIsConfirmed
<1>1. ArmInv /\ [Next]_vars
        => [~enabled /\ enabled' =>
              action = "ENABLE_WAIT" /\ result' = "COMPLETED" /\ AllReport("on")]_vars
  BY EnableStep
<1>2. Spec => []ArmInv
  BY ExecutorImplementsController, ArmInvariance, PTL
<1> QED
  BY <1>1, <1>2, PTL DEF Spec, EnableIsConfirmed
=============================================================================
