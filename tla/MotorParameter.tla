--------------------------- MODULE MotorParameter ---------------------------
(***************************************************************************)
(* Parameter traffic with the drives: App/Motor/motor_discovery.c (reads     *)
(* every register of every selected drive), the control-mode write and       *)
(* readback cycle of motor_runtime.c, and the table by which its receive     *)
(* path tells the answer to a parameter request from a feedback frame: a     *)
(* frame that no entry explains is decoded as feedback.  Requests of a       *)
(* sequence that was cut short stay behind as tombstones for one timeout.    *)
(*                                                                           *)
(* ArmControlTask runs once per cycle: the service of the active action,     *)
(* then at most one request.  In between, the CAN task delivers answers.     *)
(* Drives may lose requests and answers, and answer late up to Delay.  Time  *)
(* is counted in control cycles.                                             *)
(***************************************************************************)
EXTENDS Naturals, Sequences, SequencesExt

CONSTANTS
  N,               \* joints: ARM_JOINT_COUNT
  Registers,       \* the registers read, in the order of discovery_registers
  Timeout,         \* MOTOR_DISCOVERY_REQUEST_TIMEOUT_US
  Attempts,        \* MOTOR_DISCOVERY_MAX_ATTEMPTS
  Capacity,        \* MOTOR_RUNTIME_PARAMETER_EXPECTATION_CAPACITY
  DiscoveryTicks,  \* AETHOR_APP_DISCOVERY_TIMEOUT_US
  ActionTicks,     \* AETHOR_APP_ACTION_TIMEOUT_US
  Delay            \* the oldest an answer gets on its way

Joints == 1..N
Fields == ToSet(Registers)
Modes == {"MIT", "POS_VEL"}
Sequence == {"DISCOVERY", "MODE_WRITE", "MODE_READ"}
ModeSources == {"MODE_WRITE", "MODE_READ"}
Switching == {"WRITING", "READ_READY", "READ_WAITING"}

ASSUME ParameterAssumption ==
  /\ {N, Timeout, Attempts, Capacity, DiscoveryTicks, ActionTicks} \subseteq Nat \ {0}
  /\ Delay \in Nat
  /\ Registers \in Seq(STRING) /\ "mode" \in Fields

\* An answer that comes at all comes within the timeout of its request.  The time
\* for a discovery is enough for every attempt at every register of every drive,
\* and for one timeout before the first.  No register is read twice, and the mode
\* is not the last.
ASSUME TimingAssumption ==
  /\ Delay < Timeout
  /\ DiscoveryTicks >= Timeout * (1 + N * Len(Registers) * Attempts) + 2
  /\ \A m, n \in DOMAIN Registers : Registers[m] = Registers[n] => m = n
  /\ Registers[Len(Registers)] # "mode"

VARIABLES
  discovery,     \* MotorDiscovery, with discovery_active of the runtime
  verified,      \* verified_fields_mask of each result
  complete,      \* verified_joint_mask
  observed,      \* observed_control_mode of each result
  switch,        \* the mode_switch_* fields of the runtime
  expectations,  \* parameter_expectations
  quarantine,    \* parameter_quarantine
  action,        \* the active action, as far as it uses parameters
  turn,          \* whose step it is in the control cycle
  drive,         \* external: the mode each drive is in
  wire           \* external: requests and answers under way, per drive

results == <<verified, complete, observed>>
tables == <<expectations, quarantine>>
vars == <<discovery, results, switch, tables, action, turn, drive, wire>>

None == "none"
Idle == [kind |-> "IDLE", shot |-> FALSE, mask |-> {}, mode |-> None, elapsed |-> 0]
First(mask, from) == Min({j \in mask : j >= from} \cup {N + 1})

\* motor_discovery_init: the whole arm is read from the first cycle on, before
\* any command asks for it.
Init ==
  /\ discovery = [state |-> "READY", target |-> Joints, joint |-> 1, register |-> 1,
                  attempts |-> 0, age |-> 0, active |-> FALSE]
  /\ verified = [j \in Joints |-> {}]
  /\ complete = {}
  /\ observed = [j \in Joints |-> None]
  /\ switch = [state |-> "IDLE", mode |-> None, mask |-> {}, joint |-> 1,
               attempts |-> 0, rollover |-> FALSE, age |-> 0]
  /\ expectations = <<>> /\ quarantine = <<>>
  /\ action = Idle
  /\ turn = "service"
  /\ drive \in [Joints -> Modes \cup {"BAD"}]
  /\ wire = [j \in Joints |-> <<>>]
-----------------------------------------------------------------------------
(* The table of expected answers.                                          *)

\* The entries of keep, in their order: the tables are compacted in place.
Kept(set, keep) ==
  LET kept[n \in 0..Len(set)] ==
        IF n = 0 THEN <<>>
        ELSE IF set[n] \in keep THEN Append(kept[n - 1], set[n]) ELSE kept[n - 1]
  IN kept[Len(set)]
Live(set) == Kept(set, {e \in ToSet(set) : e.age < Timeout})

Same(e, f) == e.joint = f.joint /\ e.op = f.op /\ e.register = f.register
Entry(source, j, op, r) ==
  [source |-> source, joint |-> j, op |-> op, register |-> r, age |-> 0,
   quarantined |-> FALSE]

\* One entry for each tuple and source: asking again refreshes it.
Has(set, e) == \E k \in DOMAIN set : set[k].source = e.source /\ Same(set[k], e)
Fits(set, e) == Has(Live(set), e) \/ Len(Live(set)) < Capacity
Recorded(set, e) ==
  LET live == Live(set)
  IN IF Has(live, e)
       THEN [k \in DOMAIN live |->
               IF live[k].source = e.source /\ Same(live[k], e) THEN e ELSE live[k]]
       ELSE Append(live, e)

\* motor_runtime_mark_parameter_sources_quarantined
Marked(set, sources, reset) ==
  [k \in DOMAIN set |->
     IF set[k].source \in sources
       THEN [set[k] EXCEPT !.quarantined = TRUE, !.age = IF reset THEN 0 ELSE @]
       ELSE set[k]]

\* ..._move_parameter_sources_to_quarantine: all of them, or none without room.
Dead(e, sources) == e.quarantined /\ e.source \in sources
Moving(set, sources) == Kept(Live(set), {e \in ToSet(set) : Dead(e, sources)})
MoveFits(set, sources) == Len(Live(quarantine)) + Len(Moving(set, sources)) <= Capacity
MovedQuarantine(set, sources) ==
  Live(quarantine) \o (IF MoveFits(set, sources) THEN Moving(set, sources) ELSE <<>>)
MovedExpectations(set, sources) ==
  Kept(Live(set), {e \in ToSet(set) : MoveFits(set, sources) => ~Dead(e, sources)})
Move(set, sources) ==
  /\ quarantine' = MovedQuarantine(set, sources)
  /\ expectations' = MovedExpectations(set, sources)

Tombstones ==
  ToSet(Live(quarantine)) \cup {e \in ToSet(Live(expectations)) : e.quarantined}
\* Variant: requests do not wait for tombstones.
Blocks_Never == FALSE
Blocks == Tombstones # {}
IsQuarantined(e) == \E f \in Tombstones : Same(f, e)
Expire == quarantine' = Live(quarantine) /\ expectations' = Live(expectations)
-----------------------------------------------------------------------------
(* The wire.  An item is a request until its drive has answered it; "fate"  *)
(* is history: what became of the sequence that sent it.                    *)

Sent(source, op, r, m) ==
  [source |-> source, op |-> op, register |-> r, mode |-> m, answered |-> FALSE,
   age |-> 0, fate |-> "current"]
Emit(j, item) == wire' = [wire EXCEPT ![j] = Append(@, item)]
Fates == {"current", "stale", "orphan"}
Fated(sources, fates, fate) ==
  [j \in Joints |-> [k \in DOMAIN wire[j] |->
     IF wire[j][k].source \in sources /\ wire[j][k].fate \in fates
       THEN [wire[j][k] EXCEPT !.fate = fate] ELSE wire[j][k]]]
-----------------------------------------------------------------------------
(* Sequences: begin and abort.                                             *)

\* motor_runtime_begin_discovery drops the entries of a pass under way: their
\* answers are orphans.
BeginDiscovery(mask) ==
  /\ discovery' = [state |-> "READY", target |-> mask, joint |-> First(mask, 1),
                   register |-> 1, attempts |-> 0, age |-> 0, active |-> TRUE]
  /\ verified' = [j \in Joints |-> IF j \in mask THEN {} ELSE verified[j]]
  /\ observed' = [j \in Joints |-> IF j \in mask THEN None ELSE observed[j]]
  /\ complete' = complete \ mask
  /\ expectations' = Kept(expectations, {e \in ToSet(expectations) :
                                            e.source # "DISCOVERY"})
  /\ wire' = Fated({"DISCOVERY"}, Fates, "orphan")
  /\ UNCHANGED <<switch, quarantine>>

ModeReady(mask) ==
  /\ \A j \in mask : Fields \ {"mode"} \subseteq verified[j]
  /\ switch.state \notin Switching

\* Variant: the mode read before the switch is still taken for verified.
BeginMode_VerifiedKept(mask, m) ==
  /\ switch' = [state |-> "WRITING", mode |-> m, mask |-> mask,
                joint |-> First(mask, 1), attempts |-> 0, rollover |-> TRUE, age |-> 0]
  /\ expectations' = Marked(expectations, ModeSources, FALSE)
  /\ wire' = Fated(ModeSources, Fates, "stale")
  /\ UNCHANGED <<discovery, verified, complete, observed, quarantine>>

\* motor_runtime_begin_control_mode_switch_mask, past its guards.
BeginMode(mask, m) ==
  /\ switch' = [state |-> "WRITING", mode |-> m, mask |-> mask,
                joint |-> First(mask, 1), attempts |-> 0, rollover |-> TRUE, age |-> 0]
  /\ expectations' = Marked(expectations, ModeSources, FALSE)
  /\ verified' = [j \in Joints |-> verified[j] \ (IF j \in mask THEN {"mode"} ELSE {})]
  /\ complete' = complete \ mask
  /\ wire' = Fated(ModeSources, Fates, "stale")
  /\ UNCHANGED <<discovery, observed, quarantine>>

AbortedDiscovery ==
  IF discovery.active
    THEN [state |-> "COMPLETE", target |-> {}, joint |-> 1, register |-> 1,
          attempts |-> 0, age |-> 0, active |-> FALSE]
    ELSE discovery
AbortedSwitch ==
  IF switch.state \in Switching
    THEN [switch EXCEPT !.state = "IDLE", !.mask = {}, !.joint = 1, !.attempts = 0,
                        !.rollover = FALSE, !.age = 0]
    ELSE switch

\* Variant: the requests under way leave no tombstone.
AbortSequences_Forgotten ==
  /\ expectations' = <<>> /\ quarantine' = Live(quarantine)
  /\ discovery' = AbortedDiscovery
  /\ switch' = AbortedSwitch
  /\ wire' = Fated(Sequence, {"current"}, "stale")
  /\ UNCHANGED results

\* motor_runtime_abort_active_parameter_sequences
AbortSequences ==
  /\ Move(Marked(expectations, Sequence, TRUE), Sequence)
  /\ discovery' = AbortedDiscovery
  /\ switch' = AbortedSwitch
  /\ wire' = Fated(Sequence, {"current"}, "stale")
  /\ UNCHANGED results

Keep == UNCHANGED <<discovery, results, switch, tables, wire>>
-----------------------------------------------------------------------------
(* The service of the active action.                                       *)

InService == turn = "service" /\ turn' = "pump" /\ UNCHANGED drive
Act(kind, shot, mask, m) ==
  action' = [kind |-> kind, shot |-> shot, mask |-> mask, mode |-> m, elapsed |-> 0]

\* INIT_MOTORS
StartInit(mask) ==
  /\ action.kind = "IDLE"
  /\ BeginDiscovery(mask)
  /\ Act("DISCOVERY", FALSE, mask, "POS_VEL")

\* SET_MODE of the whole arm; a refusal is a result and no action.
StartSetMode(m) ==
  /\ action.kind = "IDLE"
  /\ IF ModeReady(Joints) THEN BeginMode(Joints, m) /\ Act("MODE", FALSE, Joints, m)
                          ELSE Keep /\ UNCHANGED action

\* A one-shot action (module OneShotAction): discovery of the joints that
\* are not verified, then the mode of all.  It aborts its sequences whenever it fails.
StartShot(mask, m) ==
  /\ action.kind = "IDLE"
  /\ IF ~(mask \subseteq complete)
       THEN BeginDiscovery(mask \ complete) /\ Act("DISCOVERY", TRUE, mask, m)
       ELSE IF ModeReady(mask)
              THEN BeginMode(mask, m) /\ Act("MODE", TRUE, mask, m)
              ELSE AbortSequences /\ UNCHANGED action

Finish == action' = Idle
Fail == Finish /\ (IF action.shot THEN AbortSequences ELSE Keep)

DiscoveryDone == discovery.state = "COMPLETE" /\ action.mask \subseteq complete
Advance ==
  \/ /\ action.kind = "DISCOVERY" /\ DiscoveryDone
     /\ IF ModeReady(action.mask)
          THEN /\ BeginMode(action.mask, action.mode)
               /\ Act("MODE", action.shot, action.mask, action.mode)
          ELSE Fail
  \/ action.kind = "DISCOVERY" /\ discovery.state = "FAILED" /\ Fail
  \/ action.kind = "MODE" /\ switch.state = "COMPLETE" /\ Keep /\ Finish
  \/ action.kind = "MODE" /\ switch.state = "FAILED" /\ Fail

Concluded ==
  \/ action.kind = "DISCOVERY" /\ (DiscoveryDone \/ discovery.state = "FAILED")
  \/ action.kind = "MODE" /\ switch.state \in {"COMPLETE", "FAILED"}
Overdue ==
  /\ action.kind # "IDLE" /\ ~Concluded
  /\ action.elapsed >= (IF action.kind = "MODE" THEN ActionTicks ELSE DiscoveryTicks)

\* The deadline of the action.
Deadline == Overdue /\ Fail
Wait == ~Concluded /\ ~Overdue /\ Keep /\ UNCHANGED action

\* STOP, a fault, the watchdog: they abort whatever is under way.
Abort == AbortSequences /\ Finish

Service ==
  /\ InService
  /\ \/ \E mask \in (SUBSET Joints) \ {{}} : StartInit(mask)
     \/ \E m \in Modes : StartSetMode(m)
     \/ \E mask \in (SUBSET Joints) \ {{}}, m \in Modes : StartShot(mask, m)
     \/ Abort
     \/ Advance \/ Deadline \/ Wait
-----------------------------------------------------------------------------
(* The request of this cycle: aethor_app_next_can_frame.                   *)

InPump == turn = "pump" /\ turn' = "network" /\ UNCHANGED <<action, results, drive>>

Asking == Entry("DISCOVERY", discovery.joint, "read", Registers[discovery.register])
FailDiscovery == discovery' = [discovery EXCEPT !.state = "FAILED", !.active = FALSE]

Waiting == discovery.state = "WAITING"
\* Variant: one attempt too many.
Spent_OneMore == Waiting /\ discovery.attempts > Attempts
Spent == Waiting /\ discovery.attempts >= Attempts

\* motor_runtime_next_discovery_frame
NextDiscoveryFrame ==
  /\ InPump
  /\ action.kind # "MODE"
  /\ UNCHANGED switch
  /\ LET due == discovery.state = "READY" \/ (Waiting /\ discovery.age >= Timeout)
         expire == IF discovery.active THEN Expire ELSE UNCHANGED tables
     IN \/ /\ discovery.active /\ Blocks
           /\ Expire /\ UNCHANGED <<discovery, wire>>
        \/ /\ ~(discovery.active /\ Blocks)
           /\ ~due
           /\ discovery' = [discovery EXCEPT
                              !.active = @ /\ Waiting]
           /\ expire /\ UNCHANGED wire
        \/ /\ ~(discovery.active /\ Blocks)
           /\ due /\ Spent
           /\ FailDiscovery
           /\ expire /\ UNCHANGED wire
        \/ /\ ~(discovery.active /\ Blocks)
           /\ due /\ ~Spent
           /\ quarantine' = IF discovery.active THEN Live(quarantine) ELSE quarantine
           /\ IF Fits(expectations, Asking)
                THEN /\ expectations' = Recorded(expectations, Asking)
                     /\ discovery' = [discovery EXCEPT !.state = "WAITING",
                                        !.attempts = @ + 1, !.age = 0]
                     /\ Emit(discovery.joint,
                             Sent("DISCOVERY", "read", Asking.register, None))
                ELSE /\ expectations' = Live(expectations)
                     /\ FailDiscovery
                     /\ UNCHANGED wire

\* After the last selected joint the cursor returns to the first, for the reads.
Written(s) ==
  LET next == First(s.mask, s.joint + 1)
  IN IF next > N THEN [s EXCEPT !.joint = First(s.mask, 1), !.state = "READ_READY"]
                 ELSE [s EXCEPT !.joint = next]

\* One request, unless a tombstone would hide its answer; the tombstones are
\* those of the table before, which this call may just have moved over.
Request(source, op, before, after) ==
  LET e == Entry(source, before.joint, op, "mode")
      moved == IF switch.rollover THEN MovedExpectations(expectations, ModeSources)
                                  ELSE Live(expectations)
  IN /\ quarantine' = IF switch.rollover THEN MovedQuarantine(expectations, ModeSources)
                                         ELSE Live(quarantine)
     /\ IF IsQuarantined(e)
          THEN switch' = before /\ expectations' = moved /\ UNCHANGED wire
        ELSE IF Fits(moved, e)
          THEN /\ switch' = after /\ expectations' = Recorded(moved, e)
               /\ Emit(before.joint, Sent(source, op, "mode",
                                          IF op = "write" THEN switch.mode ELSE None))
          ELSE /\ switch' = [after EXCEPT !.state = "FAILED"]
               /\ expectations' = moved /\ UNCHANGED wire

\* motor_runtime_next_control_mode_frame
NextControlModeFrame ==
  /\ InPump
  /\ action.kind = "MODE"
  /\ UNCHANGED discovery
  /\ LET stuck == switch.rollover /\ ~MoveFits(expectations, ModeSources)
         free == [switch EXCEPT !.rollover = FALSE]
         late == switch.state = "READ_WAITING" /\ switch.age >= Timeout
         again == IF late THEN [free EXCEPT !.attempts = @ + 1, !.age = 0,
                                            !.state = "READ_READY"]
                          ELSE free
     IN \/ /\ switch.state \notin Switching
           /\ UNCHANGED <<switch, tables, wire>>
        \/ /\ switch.state \in Switching /\ stuck
           /\ Expire /\ UNCHANGED <<switch, wire>>
        \/ /\ switch.state = "READ_WAITING" /\ ~stuck /\ ~late
           /\ UNCHANGED <<switch, tables, wire>>
        \/ /\ late /\ ~stuck /\ again.attempts >= Attempts
           /\ switch' = [again EXCEPT !.state = "FAILED"]
           /\ UNCHANGED <<tables, wire>>
        \/ /\ switch.state = "WRITING" /\ ~stuck
           /\ Request("MODE_WRITE", "write", again, Written(again))
        \/ /\ switch.state = "READ_READY" \/ (late /\ again.attempts < Attempts)
           /\ ~stuck
           /\ Request("MODE_READ", "read", again,
                      [again EXCEPT !.state = "READ_WAITING"])

Pump == NextDiscoveryFrame \/ NextControlModeFrame
-----------------------------------------------------------------------------
(* The CAN task: motor_runtime_accept_frame on the answer of a drive.      *)

InNetwork == turn = "network" /\ UNCHANGED <<turn, action>>

Answer(j) == [joint |-> j, op |-> Head(wire[j]).op, register |-> Head(wire[j]).register]
Entries(set, j, sources, dead) ==
  {k \in DOMAIN set : /\ set[k].source \in sources
                      /\ set[k].quarantined = dead
                      /\ Same(set[k], Answer(j))}

\* What the receive path takes the answer for, in the order it asks.
Route(j) ==
  LET live == Live(expectations)
      own(source) == Entries(live, j, {source}, FALSE) # {}
  IN IF own("MODE_READ") /\ switch.state = "READ_WAITING" /\ switch.joint = j
       THEN "readback"
     ELSE IF own("MODE_WRITE") THEN "written"
     ELSE IF own("DISCOVERY") /\ discovery.state = "WAITING" THEN "discovered"
     ELSE IF Entries(Live(quarantine), j, Sequence, TRUE) # {} THEN "buried"
     ELSE IF Entries(live, j, Sequence, TRUE) # {} THEN "buried_early"
     ELSE "feedback"

Without(set, entries) ==
  IF entries = {} THEN set ELSE RemoveAt(set, Min(entries))
Taken(j, sources, dead) ==
  expectations' = Without(Live(expectations), Entries(Live(expectations), j, sources, dead))

\* motor_runtime_accept_mode_readback: the wrong mode fails the switch.
AcceptReadback(j, m) ==
  LET next == First(switch.mask, j + 1)
  IN IF m # switch.mode
       THEN switch' = [switch EXCEPT !.state = "FAILED", !.age = 0] /\ UNCHANGED results
       ELSE /\ observed' = [observed EXCEPT ![j] = m]
            /\ verified' = [verified EXCEPT ![j] = @ \cup {"mode"}]
            /\ complete' = IF verified'[j] = Fields THEN complete \cup {j} ELSE complete
            /\ switch' = [switch EXCEPT !.joint = next, !.attempts = 0, !.age = 0,
                            !.state = IF next > N THEN "COMPLETE" ELSE "READ_READY"]

\* motor_discovery_advance
Advanced ==
  LET last == discovery.register = Len(Registers)
      next == IF last THEN First(discovery.target, discovery.joint + 1)
                      ELSE discovery.joint
  IN [discovery EXCEPT !.register = IF last THEN 1 ELSE @ + 1, !.joint = next,
                       !.attempts = 0, !.age = 0,
                       !.state = IF next > N THEN "COMPLETE" ELSE "READY",
                       !.active = @ /\ next <= N]

\* motor_runtime_accept_parameter_response and motor_discovery_accept_response: an
\* answer to another request than the current one changes nothing, a value out
\* of range fails the pass.
AcceptDiscovered(j, m) ==
  LET r == Registers[discovery.register]
      current == Same(Answer(j), [joint |-> discovery.joint, op |-> "read", register |-> r])
  IN IF ~current THEN UNCHANGED <<discovery, results>>
     ELSE /\ observed' = IF r = "mode" THEN [observed EXCEPT ![j] = m] ELSE observed
          /\ IF m = "BAD"
               THEN /\ discovery' = [discovery EXCEPT !.state = "FAILED", !.age = 0,
                                                      !.active = FALSE]
                    /\ UNCHANGED <<verified, complete>>
               ELSE /\ verified' = [verified EXCEPT ![j] = @ \cup {r}]
                    /\ complete' = IF discovery.register = Len(Registers)
                                        /\ verified'[j] = Fields
                                     THEN complete \cup {j} ELSE complete
                    /\ discovery' = Advanced

\* An orphan that is taken for the answer to the same request of the new pass
\* leaves the real answer an orphan.
Bequeath(head, tail) ==
  [k \in DOMAIN tail |->
     IF head.fate = "orphan" /\ tail[k].op = head.op /\ tail[k].register = head.register
       THEN [tail[k] EXCEPT !.fate = "orphan"] ELSE tail[k]]

Receive(j) ==
  /\ InNetwork
  /\ wire[j] # <<>> /\ Head(wire[j]).answered
  /\ wire' = [wire EXCEPT ![j] = Bequeath(Head(@), Tail(@))]
  /\ UNCHANGED drive
  /\ LET way == Route(j)
         m == Head(wire[j]).mode
     IN \/ /\ way = "readback" /\ AcceptReadback(j, m)
           /\ Taken(j, {"MODE_READ"}, FALSE) /\ UNCHANGED <<discovery, quarantine>>
        \/ /\ way = "written"
           /\ Taken(j, {"MODE_WRITE"}, FALSE)
           /\ UNCHANGED <<discovery, switch, results, quarantine>>
        \/ /\ way = "discovered" /\ AcceptDiscovered(j, m)
           /\ Taken(j, {"DISCOVERY"}, FALSE) /\ UNCHANGED <<switch, quarantine>>
        \/ /\ way = "buried"
           /\ quarantine' = Without(Live(quarantine),
                                    Entries(Live(quarantine), j, Sequence, TRUE))
           /\ expectations' = Live(expectations)
           /\ UNCHANGED <<discovery, switch, results>>
        \/ /\ way = "buried_early" /\ Taken(j, Sequence, TRUE)
           /\ quarantine' = Live(quarantine)
           /\ UNCHANGED <<discovery, switch, results>>
        \/ /\ way = "feedback" /\ Expire
           /\ UNCHANGED <<discovery, switch, results>>
-----------------------------------------------------------------------------
(* The drives and the bus; and the end of the cycle.                       *)

\* A drive answers its requests in order; a register may hold a value that the
\* program does not accept ("BAD"), that of the mode from the beginning.
DriveAnswers(j) ==
  /\ InNetwork
  /\ \E k \in DOMAIN wire[j] :
       LET i == wire[j][k]
       IN /\ ~i.answered
          /\ \A n \in 1..k - 1 : wire[j][n].answered
          /\ drive' = IF i.op = "write" THEN [drive EXCEPT ![j] = i.mode] ELSE drive
          /\ \E m \in IF i.op = "write" THEN {i.mode}
                      ELSE IF i.register = "mode" THEN {drive[j]} ELSE {None, "BAD"} :
               wire' = [wire EXCEPT ![j][k] = [i EXCEPT !.answered = TRUE, !.mode = m]]
  /\ UNCHANGED <<discovery, results, switch, tables>>

Lose(j) ==
  /\ InNetwork
  /\ \E k \in DOMAIN wire[j] : wire' = [wire EXCEPT ![j] = RemoveAt(@, k)]
  /\ UNCHANGED <<discovery, results, switch, tables, drive>>

Network == \E j \in Joints : Receive(j) \/ DriveAnswers(j) \/ Lose(j)

Later(n, bound) == IF n < bound THEN n + 1 ELSE n
Older(set) == [k \in DOMAIN set |-> [set[k] EXCEPT !.age = Later(@, Timeout)]]

\* Nothing is under way for longer than Delay.
Tick ==
  /\ turn = "network" /\ turn' = "service"
  /\ \A j \in Joints : \A k \in DOMAIN wire[j] : wire[j][k].age < Delay
  /\ wire' = [j \in Joints |-> [k \in DOMAIN wire[j] |->
                                  [wire[j][k] EXCEPT !.age = @ + 1]]]
  /\ expectations' = Older(expectations) /\ quarantine' = Older(quarantine)
  /\ discovery' = IF discovery.state = "WAITING"
                    THEN [discovery EXCEPT !.age = Later(@, Timeout)] ELSE discovery
  /\ switch' = IF switch.state = "READ_WAITING"
                 THEN [switch EXCEPT !.age = Later(@, Timeout)] ELSE switch
  /\ action' = IF action.kind = "IDLE" THEN action
                 ELSE [action EXCEPT !.elapsed = Later(@, DiscoveryTicks + ActionTicks)]
  /\ UNCHANGED <<results, drive>>

Next == Service \/ Pump \/ Network \/ Tick

Spec == Init /\ [][Next]_vars
-----------------------------------------------------------------------------
(* Properties.                                                             *)

Arriving(j) == turn = "network" /\ wire[j] # <<>> /\ Head(wire[j]).answered

\* An answer to a parameter request is never decoded as feedback of the drive,
\* whether its sequence goes on, was aborted or was overtaken by a mode switch;
\* only the answer to a discovery that was started over (AnswerExpected) may be.
AnswerRecognised ==
  \A j \in Joints :
    Arriving(j) /\ Head(wire[j]).fate # "orphan" => Route(j) # "feedback"

\* What an aborted or repeated sequence asked for is never taken for the answer
\* to the sequence that runs now.
AnswerIsCurrent ==
  \A j \in Joints :
    Arriving(j) /\ Head(wire[j]).fate = "stale" => Route(j) \notin {"readback", "discovered"}

\* A mode that is marked verified is the mode the drive is in, whatever was lost,
\* aborted, repeated or cut off on the way; and a joint is complete only with
\* every field.
ReadBackIsTrue ==
  \A j \in Joints :
    /\ "mode" \in verified[j] => observed[j] = drive[j]
    /\ j \in complete => verified[j] = Fields

\* A discovery comes to its end by itself, retries and quarantine included, before
\* the deadline of its action cuts it off.
DiscoveryInTime == action.kind = "DISCOVERY" => action.elapsed < DiscoveryTicks

\* motor_runtime.h: the set holds every unique parameter response that can still
\* arrive.
AnswerExpected == \A j \in Joints : Arriving(j) => Route(j) # "feedback"

=============================================================================
