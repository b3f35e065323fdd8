--------------------------- MODULE OneShotAction ---------------------------
(***************************************************************************)
(* The self-contained bench actions of App/aethor_app.c (`bench move`,      *)
(* `bench mit`, `bench mode`), from the discovery of the selected drives to *)
(* their disable, with the cleanup of what fails and the STOP or the global *)
(* fault that ends them early.                                              *)
(*                                                                          *)
(* ArmControlTask builds a batch of frames, hands one to the CAN scheduler  *)
(* per cycle, and waits for feedback newer than the batch.  The drives see  *)
(* a frame some time later; what is known of them may be old.  The bus is   *)
(* CanTransmit seen from outside: frames of one priority stay in order, an  *)
(* emergency may overtake, a frame that is no emergency may be lost, and in *)
(* the builds that withdraw a disable takes the controls of its drive that  *)
(* it overtook with it.                                                     *)
(***************************************************************************)
EXTENDS Naturals, FiniteSets, SequencesExt

CONSTANTS
  JointCount,  \* ARM_JOINT_COUNT
  Kinds,       \* the kinds of action that are requested
  Builds,      \* TRUE: the static-load and POS-load builds, which withdraw
  Found,       \* the states the drives are found in
  MaxBus,      \* bound: frames on their way when another is handed over
  MaxEvents    \* bound: actions, STOPs, global faults and drives that trip

ASSUME OneShotAssumption ==
  /\ JointCount \in Nat \ {0} /\ MaxBus \in Nat \ {0}
  /\ Kinds \subseteq {"move", "mit", "hold", "mode"}
  /\ Builds \subseteq BOOLEAN /\ Found \subseteq {"off", "on", "fault"}

VARIABLES
  withdraw,  \* the build withdraws the controls a disable overtakes
  app,       \* application_action, and what the runtime verified of the drives
  seen,      \* the snapshot: the state of each drive, "none" when it is stale
  drive,     \* the state each drive is in
  mode,      \* the control mode each drive is in
  bus,       \* frames on their way to the drives, in order of submission
  spent      \* how many of MaxEvents happened

vars == <<withdraw, app, seen, drive, mode, bus, spent>>

Joints == 1..JointCount
Modes == {"mit", "pos"}
States == {"off", "on", "fault"}

\* "mit" moves and then holds, "hold" only holds; both select one drive.
Commands ==
  {c \in [kind : Kinds, mode : Modes, mask : (SUBSET Joints) \ {{}}] :
     /\ c.kind = "move" => c.mode = "pos"
     /\ c.kind \in {"mit", "hold"} => c.mode = "mit" /\ Cardinality(c.mask) = 1}

\* The phases that feedback is watched in, with the stage a failure is of.
Watched == [enable |-> "enable", move |-> "motion", hold |-> "hold",
            disable |-> "disable"]
OneShot == DOMAIN Watched \cup
  {"discovery", "preflight", "mode", "clear", "cleanupHold", "cleanupDisable"}

NoCommand == [kind |-> "none", mode |-> "pos", mask |-> {}]
NoResult == [code |-> "none", off |-> {}]

\* failed: the first failure; own: enabled_by_action_mask is the selection;
\* sound: history, when it was validated no selected drive was enabled or about to
\* be; asked: history, an ENABLE batch was built; batch: the frames not handed over;
\* newer: the drives heard since the batch was built; ended: history, the last
\* result, with the drives that the action is answerable for being off.
Action(c, v) ==
  [phase |-> "idle", cmd |-> c, failed |-> "none", own |-> FALSE,
   sound |-> FALSE, asked |-> FALSE, batch |-> <<>>, newer |-> {}, verified |-> v,
   ended |-> NoResult]

Init ==
  /\ withdraw \in Builds
  /\ app = Action(NoCommand, [j \in Joints |-> "none"])
  /\ seen = [j \in Joints |-> "none"]
  /\ drive \in [Joints -> Found]
  /\ mode \in [Joints -> Modes]
  /\ bus = <<>>
  /\ spent = 0
-----------------------------------------------------------------------------
(* What the executor knows, and the batches it builds.                      *)

Selected == app.cmd.mask
Fresh(m) == \A j \in m : seen[j] # "none"
All(m, state) == \A j \in m : seen[j] = state
FaultFree(m) == \A j \in m : seen[j] \in {"off", "on"}

\* The entries of s whose places are in K, in order.
Kept(s, K) ==
  LET upTo[n \in 0..Len(s)] ==
        IF n = 0 THEN <<>>
        ELSE IF n \in K THEN Append(upTo[n - 1], s[n]) ELSE upTo[n - 1]
  IN upTo[Len(s)]

Frame(op, md, j) == [op |-> op, mode |-> md, joint |-> j]
Batch(op, md, m) == Kept([j \in Joints |-> Frame(op, md, j)], m)

\* motor_runtime_build_emergency_disable_subset: in the verified mode, or in
\* both when the mode is not known.
EmergencyDisable(v, m) ==
  LET all == [n \in 1..2 * JointCount |->
                Frame("disable", IF n % 2 = 1 THEN "mit" ELSE "pos", (n + 1) \div 2)]
  IN Kept(all, {n \in DOMAIN all : /\ all[n].joint \in m
                                   /\ v[all[n].joint] \in {"none", all[n].mode}})

Wait(s, phase, frames) ==
  [s EXCEPT !.phase = phase, !.batch = frames, !.newer = {}]
Send(s, phase, op) == Wait(s, phase, Batch(op, s.cmd.mode, s.cmd.mask))

\* aethor_app_complete_action; the terminal finds room.
End(s, code) ==
  [Action(NoCommand, s.verified) EXCEPT !.ended =
     [code |-> code,
      off |-> IF s.asked \/ (s.phase = "stopDisable"
                             /\ \A j \in s.cmd.mask : s.verified[j] # "none")
                THEN s.cmd.mask ELSE {}]]

\* Variant: what is not yet confirmed enabled is not disabled either.
Cleanup_OwnOnly(s, stage) ==
  LET t == [s EXCEPT !.failed = IF @ = "none" THEN stage ELSE @]
  IN IF s.own THEN {Send(t, "cleanupDisable", "disable")}
     ELSE {End(t, "FAILED")}

\* aethor_app_begin_one_shot_cleanup: the first failure decides.  Before any
\* frame that could energise there is nothing to clean up, or the mode is
\* uncertain; later a drive that is healthy and enabled is first held.  That
\* batch is refused when the position is out of range.
Cleanup(s, stage) ==
  LET t == [s EXCEPT !.failed = IF @ = "none" THEN stage ELSE @]
      direct == Send(t, "cleanupDisable", "disable")
  IN CASE t.failed = "validate" -> {End(t, "FAILED")}
       [] t.failed \in {"discovery", "mode"} ->
            {Wait(t, "cleanupDisable", EmergencyDisable(s.verified, s.cmd.mask))}
       [] OTHER ->
            {direct} \cup (IF s.own /\ All(s.cmd.mask, "on")
                             THEN {Send(t, "cleanupHold", "target")} ELSE {})

\* Variant: the modes read before stay verified during the switch.
Forget_Kept(v, m) == v

\* motor_runtime_begin_control_mode_switch_mask
Forget(v, m) == [j \in Joints |-> IF j \in m THEN "none" ELSE v[j]]

\* An ENABLE for the drive is under way.
Enabling(j) == \E n \in DOMAIN bus : bus[n].op = "enable" /\ bus[n].joint = j

\* aethor_app_validate_one_shot_targets: a move accepts drives that are enabled,
\* the others only disabled ones.  Ranges and speeds may refuse as well, and
\* the switch while the motor task still discovers or switches.
Validate(s) ==
  LET m == s.cmd.mask
      ready == IF s.cmd.kind = "move" THEN FaultFree(m) ELSE All(m, "off")
  IN Cleanup(s, "validate") \cup
     (IF ready THEN {[Send(s, "mode", "write") EXCEPT
                        !.verified = Forget(@, m),
                        !.sound = \A j \in m : drive[j] # "on" /\ ~Enabling(j)]}
                    \cup Cleanup(s, "mode")
               ELSE {})

\* aethor_app_prepare_one_shot_validation; drives that still turn are not fit
\* for a mode switch and are disabled first.
Prepare(s) ==
  LET m == s.cmd.mask
  IN (IF Fresh(m) /\ (s.cmd.kind = "move" \/ All(m, "off"))
        THEN Validate(s) ELSE {}) \cup
     (IF Fresh(m) /\ s.cmd.kind = "move" THEN {}
        ELSE {Wait(s, "preflight", EmergencyDisable(s.verified, m))})
-----------------------------------------------------------------------------
(* aethor_app_service.                                                      *)

Outside == UNCHANGED <<withdraw, seen, drive, mode>>
Handled == Outside /\ UNCHANGED <<bus, spent>>
Event == spent < MaxEvents /\ spent' = spent + 1

\* aethor_app_start_one_shot_move
Start ==
  /\ app.phase = "idle" /\ Event
  /\ \E c \in Commands :
       LET s == Action(c, app.verified)
       IN app' \in IF \E j \in c.mask : s.verified[j] = "none"
                     THEN {Wait(s, "discovery", <<>>)} \cup Cleanup(s, "discovery")
                     ELSE Prepare(s)
  /\ Outside /\ UNCHANGED bus

\* aethor_app_check_one_shot_motor_safety, before anything else of the cycle.
Unsafe == app.phase \in DOMAIN Watched /\ ~FaultFree(Selected)
SafetyTrip ==
  /\ Unsafe
  /\ app' \in Cleanup(app, Watched[app.phase])
  /\ Handled

Sent == app.batch = <<>>
Answered == Sent /\ Selected \subseteq app.newer /\ Fresh(Selected)

\* Variant: any newer answer is taken for the wanted one.
Confirmed_AnyState(state) == Answered
Confirmed(state) == Answered /\ All(Selected, state)

\* motor_runtime_next_control_mode_frame: all are written, then all are read.
\* Variant: the switch is done once it is written.
Switched_NotRead == Sent
Switched == Sent /\ \A j \in Selected : app.verified[j] = app.cmd.mode

\* One phase of aethor_app_advance_one_shot_setup: what it waits for, or, when a
\* batch that is handed over is not answered, the deadline.
Step(phase, ready, done, late) ==
  /\ app.phase = phase /\ ~Unsafe
  /\ \/ ready /\ app' \in done
     \/ ~ready /\ Sent /\ app' \in late
  /\ Handled

Discover ==
  Step("discovery", \A j \in Selected : app.verified[j] # "none",
       Prepare(app), Cleanup(app, "discovery"))

\* Newer feedback of drives that are disabled, or faulty: the validation decides.
Preflight ==
  Step("preflight", Answered /\ (All(Selected, "off") \/ ~FaultFree(Selected)),
       Validate(app), Cleanup(app, "validate"))

SwitchMode ==
  Step("mode", Switched,
       IF app.cmd.kind = "mode" THEN {End(app, "COMPLETED")}
         ELSE {Send(app, "clear", "clear")},
       Cleanup(app, "mode"))

Clear ==
  Step("clear", Answered /\ FaultFree(Selected),
       {[Send(app, "enable", "enable") EXCEPT !.asked = TRUE]},
       Cleanup(app, "clear"))

\* aethor_app_start_one_shot_motion: the plan may be refused.
Enable ==
  LET s == [app EXCEPT !.own = TRUE]
  IN Step("enable", Confirmed("on"),
          IF s.cmd.kind = "hold" THEN {Send(s, "hold", "target")}
            ELSE {Send(s, "move", "target")} \cup Cleanup(s, "motion"),
          Cleanup(app, "enable"))

\* The targets are reached, or the sender or the deadline gives up.
Move ==
  Step("move", TRUE, {Send(app, "hold", "target")} \cup Cleanup(app, "motion"), {})

\* In MIT the hold ends with its duration, else with its last frame.
Hold ==
  Step("hold", app.cmd.mode = "mit" \/ Sent, {Send(app, "disable", "disable")}, {})

Disable ==
  Step("disable", Confirmed("off"), {End(app, "COMPLETED")},
       Cleanup(app, "disable"))

CleanupHold ==
  Step("cleanupHold", Sent, {Send(app, "cleanupDisable", "disable")}, {})

\* Variant: the cleanup waits for its answer without a deadline.
CleanupDisable_NoDeadline ==
  Step("cleanupDisable", Confirmed("off"), {End(app, "FAILED")}, {})

CleanupDisable ==
  Step("cleanupDisable", Confirmed("off"), {End(app, "FAILED")},
       {End(app, "FAILED")})

\* aethor_app_service_active_action on the STOP that pre-empted.
StopHold ==
  Step("stopHold", TRUE,
       {End(app, "FAILED")} \cup
         (IF Sent /\ FaultFree(Selected) THEN {End(app, "STOPPED")} ELSE {}), {})

StopDisable ==
  Step("stopDisable", Sent /\ All(Selected, "off"), {End(app, "STOPPED")},
       {End(app, "FAILED")})

\* A batch that was handed over whole is rebuilt while its phase lasts.
Resend ==
  /\ \/ app.phase \in {"move", "stopHold"}
     \/ app.phase = "hold" /\ app.cmd.mode = "mit"
  /\ Sent /\ ~Unsafe
  /\ app' = [app EXCEPT !.batch = Batch("target", app.cmd.mode, Selected)]
  /\ Handled

\* aethor_app_start_lifecycle_action on a STOP: drives that are known to be enabled
\* are held where they are, unless no frame can be built for it (MIT without gains,
\* a mode that is not verified, a position out of range); others are disabled.
StopAction(s) ==
  LET m == s.cmd.mask
      hold == /\ All(m, "on") /\ s.cmd.mode # "none"
              /\ \A j \in m : s.verified[j] # "none"
  IN {Wait(s, "stopDisable", EmergencyDisable(s.verified, m))}
       \cup (IF hold THEN {Send(s, "stopHold", "target")} ELSE {})

\* A STOP ends the action as CANCELLED and takes over its drives, with the mode and
\* the gains of the command that was cancelled; that of `bench mode` has no gains.
TakeStop ==
  /\ app.phase # "idle" /\ ~Unsafe /\ Event
  /\ \E m \in SUBSET Joints :
       LET c == [kind |-> "stop",
                 mode |-> IF app.cmd.kind = "mode" /\ app.cmd.mode = "mit"
                            THEN "none" ELSE app.cmd.mode,
                 mask |-> Selected \cup m]
       IN app' \in StopAction([Action(c, app.verified) EXCEPT
                                !.ended = [code |-> "CANCELLED", off |-> {}]])
  /\ Outside /\ UNCHANGED bus

\* A global fault ends the action and disables every drive; its batch is handed
\* over before anything else.
GlobalFault ==
  /\ Event
  /\ app' = IF app.phase = "idle" THEN app ELSE End(app, "FAILED")
  /\ bus' = bus \o EmergencyDisable(app.verified, Joints)
  /\ Outside

Service ==
  \/ SafetyTrip \/ Discover \/ Preflight \/ SwitchMode \/ Clear \/ Enable \/ Move
  \/ Hold \/ Disable \/ CleanupHold \/ CleanupDisable \/ StopHold \/ StopDisable
-----------------------------------------------------------------------------
(* aethor_app_next_can_frame and the frames on their way.                   *)

Rank == [disable |-> 0, clear |-> 0, enable |-> 1, target |-> 1, write |-> 3]

\* A frame that is no emergency may find no room.
Pop ==
  /\ ~Sent /\ Len(bus) < MaxBus
  /\ app' = [app EXCEPT !.batch = Tail(@)]
  /\ \/ bus' = Append(bus, Head(app.batch))
     \/ Rank[Head(app.batch).op] # 0 /\ bus' = bus
  /\ UNCHANGED <<withdraw, seen, drive, mode, spent>>

\* The parameters of a drive are read by a discovery (that of `bench init`, or the
\* action's own) and after a mode write.  The request is submitted last and has
\* the lowest priority: what was on its way before it has arrived.
Read ==
  /\ \E j \in Joints :
       /\ app.verified[j] = "none" /\ bus = <<>>
       /\ \/ app.phase = "idle"
          \/ app.phase = "discovery" /\ j \in Selected
          \/ app.phase = "mode" /\ j \in Selected /\ Sent /\ mode[j] = app.cmd.mode
       /\ app' = [app EXCEPT !.verified[j] = mode[j]]
  /\ Handled
-----------------------------------------------------------------------------
(* The drives.                                                              *)

\* What a frame in the mode of the drive makes of its state.
Obeys(f, d) ==
  CASE f.op = "disable" /\ d = "on" -> {"off"}
    [] f.op = "enable" /\ d = "off" -> {"on"}
    [] f.op = "clear" /\ d = "fault" -> {"off", "fault"}
    [] OTHER -> {d}

IsNext(n) == \A k \in 1..(n - 1) : Rank[bus[k].op] > Rank[bus[n].op]

\* A disable of a build that withdraws takes with it the controls it overtook.
Left(n) ==
  LET Gone(f) == /\ withdraw /\ bus[n].op = "disable"
                 /\ Rank[f.op] = 1 /\ f.joint = bus[n].joint
  IN Kept(bus, {k \in DOMAIN bus : k > n \/ (k < n /\ ~Gone(bus[k]))})

Deliver ==
  /\ \E n \in DOMAIN bus :
       LET f == bus[n]
           j == f.joint
       IN /\ IsNext(n)
          /\ bus' = Left(n)
          /\ IF f.op = "write"
               THEN mode' = [mode EXCEPT ![j] = f.mode] /\ drive' = drive
               ELSE /\ mode' = mode
                    /\ \E d \in IF f.mode = mode[j] THEN Obeys(f, drive[j])
                                  ELSE {drive[j]} :
                         drive' = [drive EXCEPT ![j] = d]
  /\ UNCHANGED <<withdraw, app, seen, spent>>

\* A drive answers a frame with the state it is in after it, and
\* motor_runtime_accept_control_feedback puts the answer into the bank.
Report ==
  /\ \E j \in Joints :
       /\ seen' = [seen EXCEPT ![j] = drive[j]]
       /\ app' = IF app.phase \in {"preflight", "clear", "enable", "disable",
                                   "cleanupDisable"} /\ j \in Selected
                   THEN [app EXCEPT !.newer = @ \cup {j}] ELSE app
  /\ UNCHANGED <<withdraw, drive, mode, bus, spent>>

\* motor_runtime_get_snapshot leaves out a drive that was silent for too long.
Stale ==
  /\ \E j \in Joints : seen' = [seen EXCEPT ![j] = "none"]
  /\ UNCHANGED <<withdraw, app, drive, mode, bus, spent>>

Trip ==
  /\ Event
  /\ \E j \in Joints :
       drive[j] = "on" /\ drive' = [drive EXCEPT ![j] = "fault"]
  /\ UNCHANGED <<withdraw, app, seen, mode, bus>>
-----------------------------------------------------------------------------
Next ==
  \/ Start \/ Service \/ Resend \/ TakeStop \/ GlobalFault
  \/ Pop \/ Read \/ Deliver \/ Report \/ Stale \/ Trip

\* The task is periodic, the scheduler is serviced, the bus carries frames; no
\* feedback is owed by anyone.
Spec ==
  /\ Init /\ [][Next]_vars
  /\ WF_vars(Service) /\ WF_vars(Pop) /\ WF_vars(Deliver)
-----------------------------------------------------------------------------
\* What the runtime holds for the verified mode of a drive is the mode the drive
\* is in, and nothing on its way changes it: an aborted switch leaves the drives
\* it reached unverified.  Every frame is packed for a mode on this knowledge.
VerifiedModeIsTrue ==
  \A j \in Joints :
    app.verified[j] # "none" =>
      /\ mode[j] = app.verified[j]
      /\ \A n \in DOMAIN bus : bus[n].op = "write" => bus[n].joint # j

\* An ENABLE that reaches its drive finds it in the mode it is packed for, though
\* the mode write has the lowest priority and ENABLE may overtake it.
EnablesFindTheirMode ==
  \A n \in DOMAIN bus :
    bus[n].op = "enable" /\ IsNext(n) => bus[n].mode = mode[bus[n].joint]

\* Once an action that may have energised drives has ended, however it ended, and
\* its frames are through, none of its drives is enabled: the cleanup disables
\* what it asked to enable even if no answer ever comes.  So does a STOP that
\* disables drives whose mode is verified; of the two frames for an unverified one
\* each may find it in the other mode, with a mode write between them.  This is so
\* in the builds that withdraw; elsewhere the ENABLE a disable overtakes comes
\* after it.
QuietIsOff ==
  withdraw /\ app.phase = "idle" /\ bus = <<>>
    => \A j \in app.ended.off : drive[j] # "on"

\* An action that found its drives disabled is reported COMPLETED only with all of
\* them disabled again: enabled and disabled are confirmed by feedback newer than
\* the batch, and no ENABLE is left on the way.  Where an action began with a drive
\* enabled (a move may; another may by feedback older than an ENABLE that was left
\* on the way), what confirms its own ENABLE can be older than its arrival.
CompletedIsOff ==
  [][app.phase = "disable" /\ app.sound /\ app'.ended.code = "COMPLETED"
       => \A j \in Selected : drive[j] # "on"]_vars

\* Every action ends, though drives never answer, frames are lost and STOP holds.
ActionEnds == app.phase # "idle" ~> app.phase = "idle"
=============================================================================
