----------------------------- MODULE CanReceive -----------------------------
(***************************************************************************)
(* The way of a drive's answer from the bus to a decision: the hardware     *)
(* FIFO and its interrupt (App/Platform/stm32_platform.c), the inbox        *)
(* App/Platform/can_rx_inbox.c, CanRxTask, the sample it becomes in         *)
(* App/Motor/motor_bank.c, and the gates of aethor_app.c that wait for a    *)
(* sample newer than themselves.                                            *)
(*                                                                          *)
(* No frame carries the time of its arrival.  ArmControlTask reads the      *)
(* clock, then looks whether the bus is drained; a frame is dated with the  *)
(* last reading that found it so, a lower bound of its arrival.             *)
(*                                                                          *)
(* The drives are external: one executes the frames meant for it in order   *)
(* and answers each with its state before it executes the next.  What is    *)
(* submitted reaches the hardware in the same cycle; CanTransmit has the    *)
(* queue in between.                                                        *)
(***************************************************************************)
EXTENDS Naturals, SequencesExt

CONSTANTS
  JointCount,  \* ARM_JOINT_COUNT: the drives
  Capacity,    \* CAN_RX_INBOX_CAPACITY
  RxDepth,     \* elements of the hardware receive FIFO
  Stale,       \* MOTOR_RUNTIME_FEEDBACK_STALE_AFTER_US
  MaxTime,     \* bound: readings of the clock, from 1
  MaxGates,    \* bound: commands that wait for an answer
  MaxTx        \* bound: frames pending in the hardware when a command starts

ASSUME ReceiveAssumption ==
  /\ {JointCount, Capacity, RxDepth} \subseteq Nat \ {0}
  /\ {Stale, MaxTime, MaxGates, MaxTx} \subseteq Nat

VARIABLES
  now,     \* AethorMonotonicTimestampUs: the clock, which may stand still
  pc,      \* where ArmControlTask is in its cycle
  stamp,   \* its reading of the clock in this cycle
  bound,   \* platform_rx_lower_bound_us; 0 is unknown
  busOff,  \* bus_off_latched
  tx,      \* TXBRP: frames pending in the hardware
  drive,   \* the state each drive is in, and whether it owes an answer
  fifo,    \* the hardware receive FIFO
  slots,   \* frames[] and arrival_lower_bound_us[] of the inbox
  write, read,  \* its indices
  rx,      \* CanRxTask: where it is, and its local copies
  bank,    \* the sample of each motor
  gate     \* the command that waits for an answer

hardware == <<tx, drive, fifo>>
inbox == <<slots, write, read>>
vars == <<now, pc, stamp, bound, busOff, hardware, inbox, rx, bank, gate>>

Joints == 1..JointCount

\* time: the lower bound.  History: when the frame really arrived, and the gate
\* that was the last to begin then (era).
NoFrame == [joint |-> 1, state |-> "off", arrived |-> 0, era |-> 0]
NoSlot == [frame |-> NoFrame, time |-> 0]
NoSample ==
  [valid |-> FALSE, state |-> "off", time |-> 0, arrived |-> 0, era |-> 0]
NoGate == [no |-> 0, kind |-> "none", floor |-> [j \in Joints |-> 0],
           batch |-> <<>>]

Init ==
  /\ now = 1 /\ pc = "sample" /\ stamp = 0 /\ bound = 0 /\ busOff = FALSE
  /\ tx = <<>> /\ fifo = <<>>
  /\ drive \in [Joints -> [state : {"off", "on"}, owes : {FALSE}]]
  /\ slots = [n \in 0..Capacity |-> NoSlot] /\ write = 0 /\ read = 0
  /\ rx = [at |-> "idle", slot |-> NoSlot]
  /\ bank = [j \in Joints |-> NoSample]
  /\ gate = NoGate
-----------------------------------------------------------------------------
(* The bus and the clock, at any moment.                                    *)

Tick ==
  /\ now < MaxTime /\ now' = now + 1
  /\ UNCHANGED <<pc, stamp, bound, busOff, hardware, inbox, rx, bank, gate>>

\* The first pending frame is sent; its drive obeys.
Transmit ==
  /\ tx # <<>>
  /\ LET f == Head(tx)
     IN /\ ~drive[f.joint].owes
        /\ drive' = [drive EXCEPT ![f.joint] =
                        [state |-> f.state, owes |-> TRUE]]
  /\ tx' = Tail(tx)
  /\ UNCHANGED <<now, pc, stamp, bound, busOff, fifo, inbox, rx, bank, gate>>

\* An answer arrives; a full FIFO loses it.
Arrive(j) ==
  /\ drive[j].owes
  /\ drive' = [drive EXCEPT ![j].owes = FALSE]
  /\ fifo' = IF Len(fifo) < RxDepth
               THEN Append(fifo, [joint |-> j, state |-> drive[j].state,
                                  arrived |-> now, era |-> gate.no])
               ELSE fifo
  /\ UNCHANGED <<now, pc, stamp, bound, busOff, tx, inbox, rx, bank, gate>>

BusOff ==
  /\ ~busOff /\ busOff' = TRUE
  /\ UNCHANGED <<now, pc, stamp, bound, hardware, inbox, rx, bank, gate>>
-----------------------------------------------------------------------------
(* The interrupt and the inbox.                                             *)

After(n) == (n + 1) % (Capacity + 1)

\* Variant: the slot that tells a full ring from an empty one is used too.
Full_Overrun == FALSE

Full == After(write) = read

\* HAL_FDCAN_RxFifo0Callback, one turn of its loop; the critical section of
\* ArmControlTask masks it.  can_rx_inbox_push_isr_at dates the frame; when a
\* frame is dropped the bound is unknown until the next observation.
Interrupt ==
  /\ fifo # <<>> /\ pc # "observe"
  /\ fifo' = Tail(fifo)
  /\ IF Full
       THEN bound' = 0 /\ UNCHANGED inbox
       ELSE /\ slots' = [slots EXCEPT ![write] =
                           [frame |-> Head(fifo), time |-> bound]]
            /\ write' = After(write)
            /\ UNCHANGED <<bound, read>>
  /\ UNCHANGED <<now, pc, stamp, busOff, tx, drive, rx, bank, gate>>

\* CanRxTask runs when ArmControlTask, which has the higher priority, waits.
RxAt(step) == pc = "sample" /\ rx.at = step

\* can_rx_inbox_pop_at, which the interrupt may enter between any two lines.
PopFrame ==
  /\ RxAt("idle") /\ read # write
  /\ rx' = [at |-> "frame", slot |-> [frame |-> slots[read].frame, time |-> 0]]
  /\ UNCHANGED <<now, pc, stamp, bound, busOff, hardware, inbox, bank, gate>>

PopTime ==
  /\ RxAt("frame")
  /\ rx' = [rx EXCEPT !.at = "time", !.slot.time = slots[read].time]
  /\ UNCHANGED <<now, pc, stamp, bound, busOff, hardware, inbox, bank, gate>>

PopAdvance ==
  /\ RxAt("time")
  /\ rx' = [rx EXCEPT !.at = "popped"]
  /\ read' = After(read)
  /\ UNCHANGED <<now, pc, stamp, bound, busOff, hardware, slots, write, bank,
                 gate>>

\* motor_bank_update_feedback: only a sample with a later date is taken.
Newer(j, time) == ~bank[j].valid \/ time > bank[j].time

Deliver ==
  LET f == rx.slot.frame
  IN /\ RxAt("popped")
     /\ rx' = [at |-> "idle", slot |-> NoSlot]
     /\ bank' = IF Newer(f.joint, rx.slot.time)
                  THEN [bank EXCEPT ![f.joint] =
                          [valid |-> TRUE, state |-> f.state,
                           time |-> rx.slot.time, arrived |-> f.arrived,
                           era |-> f.era]]
                  ELSE bank
     /\ UNCHANGED <<now, pc, stamp, bound, busOff, hardware, inbox, gate>>
-----------------------------------------------------------------------------
(* ArmControlTask: the lower bound.                                         *)

\* StartArmControlTask reads the clock inside its critical section ...
Sample ==
  /\ pc = "sample" /\ pc' = "observe" /\ stamp' = now
  /\ UNCHANGED <<now, bound, busOff, hardware, inbox, rx, bank, gate>>

\* Variant: commands that wait in the hardware are forgotten.
Drained_TxIgnored == fifo = <<>>

Drained == fifo = <<>> /\ tx = <<>>

\* ... and can_rx_inbox_observe_lower_bound takes the reading over when nothing
\* waits in either direction.
Observed ==
  IF stamp = 0 \/ stamp < bound THEN 0 ELSE IF Drained THEN stamp ELSE bound

Observe ==
  /\ pc = "observe" /\ pc' = "serve"
  /\ bound' = IF stamp # 0 /\ ~busOff THEN Observed ELSE 0
  /\ UNCHANGED <<now, stamp, busOff, hardware, inbox, rx, bank, gate>>
-----------------------------------------------------------------------------
(* ArmControlTask: the gates.  "enable" is a phase of any action and waits  *)
(* for a sample newer than the last one; "request" is the first disable of  *)
(* an action of the local user interface, "lock" the disable of a latched   *)
(* STOP: both wait for a sample newer than themselves.                      *)

Kinds == {"enable", "request", "lock"}
Later(s, t) == IF s > t THEN s ELSE t

\* Variant: the request counts from the last sample like other phases.
Floor_SampleOnly(kind, j) == bank[j].time

\* aethor_app_capture_feedback_baseline, _begin_one_shot_preflight_disable and
\* aethor_app_debug_ui_lock_targets.
Floor(kind, j) ==
  CASE kind = "enable" -> bank[j].time
    [] kind = "request" -> Later(bank[j].time, stamp)
    [] kind = "lock" -> stamp

\* motor_bank_get_snapshot: the joint is in the snapshot's valid mask.
Fresh(j) ==
  /\ bank[j].valid
  /\ bank[j].time <= stamp /\ stamp - bank[j].time <= Stale

Wanted(kind) == IF kind = "enable" THEN "on" ELSE "off"

\* aethor_app_selected_feedback_advanced and _selected_motors_have_state, or
\* aethor_app_debug_ui_recovery_reason.
Passes ==
  /\ gate.kind # "none" /\ gate.batch = <<>>
  /\ \A j \in Joints : /\ Fresh(j) /\ bank[j].time > gate.floor[j]
                       /\ bank[j].state = Wanted(gate.kind)

Frame(j, kind) == [joint |-> j, state |-> Wanted(kind)]

\* aethor_app_next_can_frame: a request waits until the clock has moved on, so
\* that the answer of a fast drive is dated later than the request.
Due(g) == g.kind = "request" => \A j \in Joints : stamp > g.floor[j]

\* One frame of a phase is handed over per cycle, all those of a lock at once.
HandOver(g) ==
  IF g.batch = <<>> \/ ~Due(g) THEN tx' = tx /\ gate' = g
  ELSE IF g.kind = "lock"
    THEN /\ tx' = tx \o [n \in 1..Len(g.batch) |-> Frame(g.batch[n], g.kind)]
         /\ gate' = [g EXCEPT !.batch = <<>>]
    ELSE /\ tx' = Append(tx, Frame(Head(g.batch), g.kind))
         /\ gate' = [g EXCEPT !.batch = Tail(@)]

Cycle == pc = "serve" /\ pc' = "sample"
          /\ UNCHANGED <<now, stamp, bound, busOff, drive, fifo, inbox, rx, bank>>

\* A command begins: the last one has ended, or this one ends it.
Begin(kind) ==
  /\ Cycle
  /\ gate.no < MaxGates /\ Len(tx) <= MaxTx
  /\ HandOver([no |-> gate.no + 1, kind |-> kind,
               floor |-> [j \in Joints |-> Floor(kind, j)],
               batch |-> [j \in Joints |-> j]])

\* The command goes on, or its gate opens.
Serve ==
  /\ Cycle
  /\ IF Passes THEN gate' = [NoGate EXCEPT !.no = gate.no] /\ tx' = tx
     ELSE HandOver(gate)
-----------------------------------------------------------------------------
Next ==
  \/ Tick \/ Transmit \/ BusOff \/ Interrupt
  \/ \E j \in Joints : Arrive(j)
  \/ PopFrame \/ PopTime \/ PopAdvance \/ Deliver
  \/ Sample \/ Observe \/ Serve
  \/ \E kind \in Kinds : Begin(kind)

Spec == Init /\ [][Next]_vars
-----------------------------------------------------------------------------
\* A sample is never dated later than it arrived: what a snapshot calls fresh
\* (motor_bank_get_snapshot) is at least as young as it says.
DatedSafely == \A j \in Joints : bank[j].time <= bank[j].arrived

\* The gates that count from their own beginning open only on samples that
\* arrived afterwards (docs/debug-ui: "feedback after this request", "after the
\* STOP"), however long frames waited in the FIFO, the inbox or CanRxTask.
OpensAfterwards ==
  pc = "serve" /\ Passes /\ gate.kind \in {"request", "lock"} =>
    \A j \in Joints : bank[j].era = gate.no

\* When such a gate opens the drives are off, and no ENABLE of an earlier
\* command is still on its way to one of them.
OffIsOff ==
  pc = "serve" /\ Passes /\ gate.kind \in {"request", "lock"} =>
    \A j \in Joints : /\ drive[j].state = "off"
                      /\ \A f \in ToSet(tx) : f.joint = j => f.state = "off"
=============================================================================
