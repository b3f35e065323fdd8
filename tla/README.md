# Verification of the Aethor arm firmware

TLA+ models, TLC runs and TLAPS proofs for the firmware in `src/App`, `src/Core`
and `src/USB_DEVICE`: a seven-axis arm controller on an STM32H7 under FreeRTOS,
driven by text commands over USB CDC and driving S3519 motor drives over CAN.

## 1. The system

### Tasks and shared state

| Task (priority, high to low) | Does | Shares |
|---|---|---|
| ArmControlTask, every 4 ms | `aethor_app_service`, then hands CAN frames to the scheduler and the hardware | command channels, motor snapshots, CAN scheduler |
| CanRxTask | empties the receive inbox into the motor runtime and bank | inbox (with the FDCAN interrupt), bank |
| ProtocolTask, when notified | drains results, processes received lines, queues output | command channels, USB rings |
| UsbTxTask, every 1 ms | `usb_cdc_stream_service_tx` | USB rings, in-flight flag (with the USB interrupt) |
| telemetry, diagnostics, LCD, debug UI | display and counters | mailbox |

A line becomes a command (`protocol_engine_process_text_line`), is accepted or
answered with an error, waits in the command ring or, for STOP, in a slot of its
own, becomes the active action of ArmControlTask, and ends with one terminal that
goes through a deferred ring and a result ring back to ProtocolTask, which prints
`done ...`. Two gates in the engine (active motion, active STOP) refuse what may
not be admitted meanwhile. Faults (transport, drive, stale feedback, missed
deadlines, host watchdog) end everything at once and send an emergency disable.

### Components

*Core*

- **Arm safety state machine** (`App/Arm/arm_controller.c`). State: `ArmState`,
  fault, drive mode, the flags aligned, enabled, moving. Operations: step, align,
  confirm mode, begin/confirm enable, begin/complete motion, controlled stop,
  confirm disabled, force stop, latch, clear. Correct when the arm is energised
  only past all gates and flags agree with the state. Hard: any order of calls.
- **Executor** (`App/aethor_app.c`). State: the active action with its phase,
  command, deadline and frame batch; the deferred terminals; the emergency batch.
  One service call flushes terminals, applies faults, checks the watchdog, then
  pre-empts, advances or starts an action. Correct when the action and the
  controller agree, faults disable the drives and each request ends once. Hard:
  the order in which causes of one ending compete; full stores; late feedback.
- **Protocol engine** (`App/Protocol/protocol_engine.c`). State: command ring,
  STOP slot, gates, tombstone, result ring, session, cache of recent results.
  Correct when nothing accepted disappears, nothing ended runs, no gate stays
  closed. Hard: two tasks without locks, cancellation of what is still queued.
- **USB CDC stream** (`App/Platform/usb_cdc_stream.c`). State: a byte ring and a
  partial line; three transmit rings and the in-flight flag. Hard: interrupt, two
  tasks, wrap-around, host resets.
- **CAN transmission** (`App/Motor/can_tx_scheduler.c`, CAN part of
  `App/Platform/stm32_platform.c`). State: a priority queue, the hardware FIFO,
  pending aborts, the bus-off latch. Hard: eviction, overtaking, cancellation.

*Feedback and drives*

- **CAN inbox and motor bank** (`can_rx_inbox.c`, `motor_bank.c`): a ring filled
  by the interrupt, and snapshots protected by a sequence counter.
- **Motor runtime and discovery** (`motor_runtime.c`, `motor_discovery.c`):
  parameter requests matched with answers, mode switches, quarantine of late
  answers, retries. **Parameter persistence**: reserved transactions.
- **Capability collector, ADRC commands, ADRC bridge and experiments**.

*Local control and display*

- **Debug UI mailbox, model, input**: local requests with reserved results, STOP
  intents. **LCD, keys, LVGL views**.

*Supporting*

- **Parsers** (`text_protocol.c`, `ascii_protocol.c`), **codec**
  (`s3519_codec.c`), **motion planning**, **joint reference**, **configuration**,
  **diagnostics**.

`PROJECT.json` lists all components with their status and every hazard at its line.

## 2. Modules

| Module | Models | Uses |
|---|---|---|
| `ArmController` | `arm_controller.c`: one action per function | |
| `ArmLifecycle` | executor of the formal arm profile, over failing drives | extends `ArmController` |
| `ProtocolEngine` | command and result channels, as operators on a record | |
| `CommandLifecycle` | ArmControlTask and ProtocolTask around the channels | extends `ProtocolEngine` |
| `RequestContract` | abstract: what the host may rely on for each request | refined by `CommandLifecycle` |
| `OneShotAction` | the self-contained bench actions, the drives and the bus between | |
| `UsbTransmit` | rings, in-flight flag, `service_tx` per memory access | |
| `UsbReceive` | receive ring and line extraction | |
| `CanTransmit` | scheduler, submission and service, hardware FIFO | |
| `DebugUiMailbox` | requests of the local user interface, their records, the fallback STOP | extends `ProtocolEngine`, instantiates `CommandLifecycle` |
| `MotorParameter` | discovery, mode switch, expectations and quarantine of parameter answers | |
| `CanReceive` | interrupt, inbox, CanRxTask, dates of samples, the gates that judge them | |
| `ArmProofs`, `CommandProofs`, `OneShotProofs` | theorems | extend `ArmLifecycle`, `CommandLifecycle`, `OneShotAction` |
| `CanProofs`, `ReceiveProofs` | theorems | extend `CanTransmit`, `CanReceive` |
| `UsbProofs` | theorems about both halves of the stream | extends `UsbTransmit`, `UsbReceive` |
| `DebugUiProofs`, `MotorProofs` | theorems | extend `DebugUiMailbox`, `MotorParameter` |
| `MC...` | instances for TLC | |

**ArmController / ArmLifecycle.** The controller's fields are the variables of the
same names. A call the code rejects changes nothing and is no step. `config` is
the verdict of the configuration checks. `ArmLifecycle` adds the action, the
drives and the freshness of feedback. One service call is two steps: `BeginCycle`
(the controller's own step) and one of `RuntimeFault`, `WatchdogExpires`,
`StartCommand`, `TakeStop`, `ServiceAction`, in the order of the code's tests;
`TransportFault` ends the call before. Only between calls do the drives move.
Deadlines are a free choice to expire, so every race of a deadline with an answer
is covered; trajectories, plans and frames are their success or failure.
`ArmSpec` is the abstract specification of the pair: the executor only makes
legal controller calls.

**CommandLifecycle.** `sys` is the state of the two tasks that share the
channels; a record, so that the C functions are operators that compose
(`Complete`, `GlobalCancel`, ...). ArmControlTask pre-empts ProtocolTask, so a
service call is one step that may fall between the closing of a gate (`Line`) and
the publication of the command (`PublishPending`). Kinds of requests: *plain*,
*oneshot* (self-contained bench motions), *movej* (arm trajectories), *stop*. What
an action does is abstracted to how long it takes (`MaxAge` services) and how it
ends. `ended` and `requests` are histories. `ContractSpec` is the refinement of
`RequestContract`: a refused request gets no terminal, an accepted one at most
one (that it gets one is liveness), it is reported once and after it ended, and no session change takes a request
that holds a gate away before it ended.

**OneShotAction.** `bench move`, `bench mit` and `bench mode` as the ten ONE_SHOT
phases of `aethor_app.c`. `app` is `application_action` with the modes the runtime
has verified; `seen` is the snapshot the executor decides on, `drive` and `mode`
what the drives really are, `bus` what is on its way between them, so that a
decision may rest on old feedback. One action per phase (`Discover` ... `Disable`,
`CleanupHold`, `CleanupDisable`), plus `SafetyTrip`, `TakeStop`, `GlobalFault`,
`Pop` (one frame handed over) and `Read` (a parameter answer). A phase that waits
does so until it is answered or its deadline comes, whichever the environment
chooses. The bus is `CanTransmit` seen from outside: frames of a priority stay in
order, a more urgent one may overtake, an ordinary one may be lost, and in the
builds that withdraw (`withdraw`, static load and POS load) a disable removes the
controls of its drive that it overtook. Abstracted: a batch is handed over well
inside its deadline, the terminal finds room (that it may not is in
`CommandLifecycle`), the emergency batch goes out at once, plans and arrivals
succeed or fail freely, and a drive answers with the state it is in after a frame.
Requests come from the host; those of the local user interface, home prepare, and
a STOP that finds nothing active are left out. `sound` is history: when the action was
validated, no selected drive was enabled and no ENABLE was under way; `ended.off` are
the drives the last action answers for being off. Batches, and what a withdrawal leaves
of the bus, are written as the entries of a sequence at given places (`Kept`).

**MotorParameter.** `discovery`, `switch`, `expectations`, `quarantine`, `verified`
and `complete` are the fields of `MotorDiscovery` and `MotorRuntime`; time is counted
in control cycles, and each entry, request and answer carries its age. A cycle is
`Service` (the active action begins, advances, meets its deadline or is aborted),
`Pump` (at most one request, chosen as `aethor_app_next_can_frame` chooses), any
number of network steps, and `Tick`. `Receive` asks the tables in the order of
`motor_runtime_accept_frame`; what none explains is decoded as feedback. Drives and
bus are external: requests and answers are lost, delayed up to `Delay` and in order
per drive. `fate` is history: the sequence that sent a request goes on ("current"),
was cut short ("stale"), or was forgotten by a discovery started over ("orphan").
One-shot actions appear as their discovery and mode switch only.

**CanReceive.** `fifo` is the hardware FIFO, `slots`, `write`, `read` the inbox, `rx`
the local copies of CanRxTask, one step per line of `can_rx_inbox_pop_at`, because
the interrupt may come between any two. `Sample` and `Observe` are the two lines of
ArmControlTask that date what arrives; `Observe` masks the interrupt. A gate is an
action's wait for feedback: "enable" stands for the phases that count from the last
sample, "request" for the preflight of a local action, which counts from its own
beginning and waits a tick (`Due`), "lock" for the recovery after a latched STOP.
`arrived` and `era` are history. A submitted frame reaches the hardware in the same
cycle; a drive answers a frame before it executes the next.

**DebugUiMailbox.** `app` holds `sys` (the channels and the executor, on which the
operators of `ProtocolEngine` and `CommandLifecycle` work), the transactions of the
mailbox, the latched `intent`, the `authority` over the arm, the motors not confirmed
off, and the fallback STOP. The steps are those of three tasks: the user interface
submits and polls, ProtocolTask routes results and admits (`Process`), ArmControlTask
serves. Feedback is whether the drives confirm that they are off; the health of the
user interface is a free choice to expire; a start may be refused for reasons of
data. `owed` is history: which STOP was taken over for which motor.

**UsbTransmit.** `service_tx` runs unmasked, so each load and store is a step; the
queueing functions run in a critical section and the interrupt is not
interrupted, so each is one step. `ring`, `active`, `inFlight`, `cdc` are the
rings, `active_message` (two halves: the copy is not atomic), `tx_in_flight` and
the CDC class. `queued`, `taken` and `sent` are history: what each ring took, and what
the controller took from it, in halves. `MaxPreemptions` bounds the steps of others
inside a call.

**UsbReceive.** One step per packet, one per byte taken; the result history is
compared with a reference parser over the whole stream (`LinesAreParsed`).

**CanTransmit.** One cycle of ArmControlTask: emergencies, a control group, one
frame, then the service. The queue is a set: the array is searched for the entry to send
(`Foremost`) and the one to evict (`Hindmost`), and where an entry stands matters only
between equal sequence numbers. The FDCAN is external: it sends in order, removes an
aborted frame or sends it all the same, and may go bus-off. `withdraw` tells the
builds apart that withdraw queued controls when a disable is submitted.

## 3. Runs

| Run | Bounds | Shows |
|---|---|---|
| `MCArmLifecycle` | 2 joints (symmetric), all configurations; no bound on the length of behaviours | energising is gated and owned, faults disable the drives; refinement of `ArmSpec` |
| `MCStops` | 3 requests, 2 STOPs, 1 fault, 2 motors, one slot for results and one for deferred terminals, 2 commands | pre-emption, widening, cancellation with full stores; what a fault may drop; STOPs are answered |
| `MCAnswers` | 3 requests, 1 STOP, 2 sessions, both profiles, no fault | everything accepted is answered once, gates are backed; refinement of `RequestContract` |
| `MCMailbox` | 2 requests of the user interface, 1 host command, 2 motors, 2 records, room for one result and two deferred ones, any number of transport faults | local requests are in one place, no STOP is dropped, the arm has one owner, everything is answered |
| `MCOneShot` | 2 drives, enabled at first; moves and MIT holds; 2 frames on their way; 2 events out of requests, STOPs, global faults and tripping drives; both builds | what is believed of the drives is true, every ending leaves them off, every action ends |
| `MCMotorParameter` | 2 drives in any mode, 2 registers, 2 attempts, timeout 3, answers up to 2 cycles late, 4 entries | answers are recognised and go to their own request, a verified mode is true, a discovery ends in time |
| `MCUsbTx` | 4 frames, rings of 2, 1 and 2, 2 interruptions, 1 reset | the buffer is held and the counts are close under any interleaving; the content of the rings without interruptions |
| `MCUsbRx` | ring of 5 bytes, lines of 3, 4 packets out of 8 | wrap, exact fit, overflow, overlong and empty lines, split CR LF |
| `MCCanTx` | 2 joints, queue of 3, FIFO of 2, 4 frames, both builds | eviction, overtaking, abort, bus-off |
| `MCCanRx` | 1 drive, inbox of 1, FIFO of 2, 3 readings of the clock, 3 commands, bus-off | no sample is dated too late, gates open only on later evidence and on drives that are off |

The bounds are enough because each store is small enough to be full, to wrap and
to be empty with the requests or frames allowed: the deferred and result rings
(4 and 8 in the code) hold one each in the command runs, so that a third terminal finds no room; two
commands in the ring hold a tombstone and a live command; two joints make
"some but not all" possible; a ring of two evicts and wraps with four frames; two frames on their way are
enough for one to overtake the other, and one event after the request puts a STOP,
a fault or a trip at each step of an action. In `MotorParameter` the constants keep
the proportions of the code: the timeout of a request is longer than the longest way
of an answer, the deadline of a discovery (8 s) is longer than all its attempts
(7.28 s), that of a mode switch (500 ms) is shorter than its own (560 ms), and the
table of expected answers has two entries more than there are drives. In
`CanReceive` an inbox of one wraps with each frame and overflows with the second, and
three readings of the clock are what a command, an answer of before it and one of
after it need; two drives with two commands and a FIFO of one hold as well (11.3 M
states, 186 s). In `DebugUiMailbox` two records are one for a STOP and one for an
ordinary request, so that a second STOP has to be latched. Four requests are needed
before a STOP waits while no terminal can be deferred: all four properties hold on one
motor with two requests and two commands (322,637 states, where this happens), and the
three invariants with three and two, two and three, and on two motors with two of each
(up to 2.0 M states); that they hold for every number is proved. The
mutants listed in `PROJECT.json` show that the interesting case is reached: each
is a plausible bug of the code, and TLC finds it within the same bounds.

The two runs named `..._<Property>` are expected to fail:

- `MCStops_StopCancelsMotion`: only the STOP found while idle takes the queued
  one-shot; a STOP that pre-empts leaves it, and it starts after the STOP.
- `MCMotorParameter_AnswerExpected`: `motor_runtime.h:92` says that the set holds every
  answer that can still arrive. `begin_discovery` drops the outstanding request
  without a tombstone, unlike an abort; INIT_MOTORS does not ask whether the
  discovery from boot is still running, and its answer is then decoded as feedback, or
  taken for the answer to the same register in the new pass. `ReadBackIsTrue` holds
  all the same: a register has not changed in between.

The same models show more, with other constants or without a condition of a
property; no run is kept for these:
the documents draw one edge out of FAULT, a completed clear, but DISABLE and STOP take
it too (`confirm_disabled` has no state guard) and leave the fault latched, so that
ENABLE is refused, and clear, which needs FAULT, as well;
a lossless USB frame is lost when `service_tx` is interrupted (`--count` in UsbTxTask
is not atomic against the `++count` of ProtocolTask: the count then misses a frame, and
`CountsAreClose` says that it misses no more than that; once the ring seems to have room
although it is full, the next frame overwrites the oldest);
a completion interrupt between the transmit call and the store of `tx_in_flight` is
overwritten, and nothing clears the flag again;
while a tombstone waits in the ring, a second one-shot may be queued, and a global
fault discards that one with neither a terminal nor an open gate;
`NoTerminalLost` fails with `MaxFaults = 1` (a global fault drops queued
commands without a terminal; that it drops nothing else is `OnlyFaultsDrop`); `MotionGateBacked` fails in the arm profile with a
fault (a queued MOVE_JOINTS is dropped and its gate stays closed);
with two STOPs and result and deferred rings of two the tombstone of the first hides
the motion of the second, which an idle STOP then does not cancel; a bus reset during a
transfer leaves `tx_in_flight` set, and nothing is sent any more; `InOrder` fails when `SeqModulus` is reached (the
numbers are compared with a plain `<`, `can_tx_scheduler.c:226`, although
`can_tx_scheduler.h:51` calls the ring stable); a telemetry slot may be overwritten while it is copied, and so may any slot once a
count was lost; a CLEAR of some joints clears the DRIVER fault of the arm while
another joint still reports one. `QuietIsOff` fails in the default builds, where the
ENABLE that a disable overtook arrives after it. In every build a STOP that disables a
drive of unverified mode sends two frames, and each may find the drive in the other
mode, with a mode write between them; so `QuietIsOff` asks of a STOP only that it
disables drives whose mode it knows. COMPLETED is not the whole truth of an action that
began with a drive enabled (a move accepts it; another action may, by feedback older
than an ENABLE that a cancelled action left on its way): feedback of the old state is
taken for the answer to the new ENABLE, which then arrives after the disable;
`CompletedIsOff` speaks of the others (`sound`). With two events both hold without
these conditions; with one drive and five events TLC finds the counterexamples, and
shows that the properties as stated, and the invariant of `OneShotProofs`, hold.
`OneShotAction` was also explored with the kinds "mit" and "mode".

`HeldOnce` needs room for two deferred terminals (`MailboxAssumption`; the code has four,
`aethor_app.c:175`). A local motion can be queued while a STOP waits. With room for one,
a full result ring and a latched STOP, the fallback cancels the waiting STOP into the only
place that is left, and a transport fault then discards the motion without a terminal: its
record stays open for good. TLC finds it with four requests and two commands on one
motor; the proof found that one place was not enough.

`AnswerIsCurrent` fails when an answer may be as late as the timeout: the discovery from
boot has `discovery_active` clear, so an abort gives its request a tombstone but does
not end it, and it asks again over the tombstone. The value is the same register's.
`AnswerRecognised` fails then, too. `ReadBackIsTrue` and
`DiscoveryInTime` still hold for answers exactly as late as the timeout (two drives,
timeout 3, 11.1 M states), and `ReadBackIsTrue` fails for answers a cycle later.
Of a mode switch, the deadline of the action (`aethor_app.c:6029`) ends plain
`MODE_SWITCH` without aborting the sequence of the runtime, which then refuses the next
switch as running until something aborts it. After a local cleanup that failed, the
authority is revoked and the motors stay locked, but a host command that was queued
before the user interface took the arm over still starts, because the test at the start
of a command (`aethor_app.c:5133`) asks for the authority of local commands only;
`docs/debug-ui/README.md:47` speaks of a control lock that stays. `OpensAfterwards`
makes no claim about "enable": these phases count from the last sample, and an answer
that waits in the FIFO while they begin may open them. A latched STOP whose own answer
comes within the tick of the STOP does not open the lock; it takes one more sample.

A STOP ends the pre-empted bench action as CANCELLED at once and then holds its
drives where they are enabled. The one-shot design note
(`docs/superpowers/specs/2026-08-14-one-shot-bench-move-design.md:146`) speaks of a
terminal after the disable cleanup; the later compatibility documents agree with
the code. `QuietIsOff` therefore leaves CANCELLED out.

**Deadlock** is checked where the system never stops (arm, commands, CAN, parameters).
The USB runs stop when the bounded input is used up; so do `MCOneShot` and `MCMailbox`,
where nothing is left to happen once the events or requests are spent.

### Fairness

- `CommandLifecycle`: weak fairness of `Service` (the 4 ms tick of the task with
  the highest priority) and of `Protocol` (ProtocolTask is notified after every
  service that produced a result, and runs whenever ArmControlTask sleeps). None
  for lines, sessions and faults, which need not come.
- `UsbTransmit`: weak fairness of `Service` (1 ms tick) and of `Complete` (a host
  that is there reads); strong fairness of `Attach`: a host that left comes back,
  although interruptions inside a call are bounded by the model.
- `CanTransmit`: weak fairness of the cycle, of sending and of aborting. The bus
  may go off for ever, and `DisableDelivered` says so.
- `OneShotAction`: weak fairness of `Service` (4 ms tick), of `Pop` (the same task
  hands frames over each cycle) and of `Deliver` (the bus carries what it took).
  None for feedback, reads, retransmission, requests, STOPs and faults: deadlines
  alone end an action whose drives stay silent.
- `DebugUiMailbox`: weak fairness of `Service` and `SendFrame` (every 4 ms), of routing
  and printing results and of `Process` (ProtocolTask, woken by each of them). None for
  the user interface: it may hang and never poll, and STOPs are answered all the same.
- `ArmLifecycle`, `UsbReceive`, `MotorParameter` and `CanReceive` state no liveness; that
  a discovery ends is the bound `DiscoveryInTime`, stronger than that it ends at all.

## 4. Proofs

Assumptions are those of the modules, evaluated by TLC on the runs: `BenchAssumption` and
`ConfigsAssumption` (arm), `CapacityAssumption`, `ProfileAssumption` and
`DeferredAssumption` (commands), `OneShotAssumption`, `CanAssumption`,
`ReceiveAssumption` (of `CanReceive` and of `UsbReceive`), `RingAssumption`,
`MailboxAssumption`, `ParameterAssumption` and `TimingAssumption` (of `MotorParameter`).
Two of them ask for more than a type: `MailboxAssumption` for two records and for room
for two deferred terminals (four and four in the code), and `TimingAssumption`, which is
explained under MotorProofs. The others bound nothing: the theorems hold for every number
of joints, requests, packets, frames and events, every capacity and, where a build makes
a difference, every build. The one further hypothesis is that of `CanProofs`, named below.

**ArmProofs.** `ArmInvariance`: `ArmInv` is inductive. `EnergisedIsGated` is not inductive
as it stands: `BeginEnable` does not look at the configuration, and `ConfirmDisabled`
returns to DISABLED whenever the arm is aligned. `AlignedIsVerified` adds that an aligned
arm has a ready configuration and that DISABLED implies aligned; `FlagsAgree` adds that
`BeginEnable` starts de-energised and that `ConfirmEnabled` keeps `fault = "NONE"`. One
step per controller function. `ArmGated` follows. `ExecutorImplementsController` is the
refinement `Spec => ArmSpec`: every step of a service or of the environment is one
controller call or a stutter; `ExecutorGated`: hence the gate holds of the executor.
`ArmIsOwned`: `ArmHasOwner` is inductive together with `ArmInv` (`OwnerInv`).
`FaultsDisableDrives` and `EnableIsReported` are action properties, from the same
invariants, one step per action of the service. `EnableIsReported` (the arm
becomes enabled only when every drive reports it) is proved and no run checks it.

**CommandProofs.** One service call moves a command through several hands: it is popped,
widened, given a terminal or started. The invariant `CInv` is therefore a predicate of the
channels, of the command ProtocolTask is publishing, of the requests, and of the command
`h` that the call holds between two operations; one lemma per C function (`Complete`,
`Store`, `Flush`, `Pop`, `GlobalCancel`, ...) says what it does to `CInv` and to the hand,
and the lemma of a service step composes them in the order of the code. `Distinct`: a
request is in one place, only a tombstoned one in two. `Finished`: whatever has a terminal
is in none. `Gated`: who owns each gate, and who will open that of STOP. `Ordered`: the two
stores continue the history. From it `FinishedNeverRuns`, `StopGateOpens` and
`TerminalsInOrder`, faults and full stores included. `Kept` is the part that a global fault
breaks (it drops queued commands without a terminal, see 3), so it is kept under the flag
`calm`, which is `faults = 0`: `NothingLostBeforeFaults` and `MotionGateOpens` are
`Spec => [](faults = 0 => ...)`, for the behaviours of `MCAnswers` and for the part before
the first fault of all others. The motion gate needs that its terminal is delivered in its
own session (`Backed`). `StopsCoverWhatTheyCancel` and `StopsHoldOthersBack` are action
properties: `CInv` names the STOP that waits, and each lemma adds which terminals are new
and what they cover (`ScopeKept`, `OthersHeld`).

`ContractKept` is the refinement `Spec => ContractSpec`. A service call runs through up to
six operations, so what it does to the requests is a relation between two states of the
channels and what is in hand, `Serves`, that composes (`ServesOn`): nothing comes to life;
whoever gets a terminal was alive, is no longer, and gets no other. One lemma per operation
shows it, one per branch of the call composes them. What each request is owed is the
invariant `Owed`: no two terminals for one request; whoever is not to be answered can no
longer run and has none on its way. It needs `CInv` (a finished request is in no place, and
the stores continue the history, so each of them holds one terminal once). Each step of
ProtocolTask, and by `Serves` each service call, then moves every request along an edge of
the contract (`HonouredStep`); at a new session the open gates leave only plain requests in
the queue. All this holds with faults: a global fault leaves a queued plain request
accepted for ever, which the contract, being a safety property, allows.

**OneShotProofs.** `OneShotInv` relates what the executor believes to the drives and to the
frames on their way. `Aware`: what is verified is true, and no write under way changes it.
`EnablesFit`: an ENABLE is packed for the mode its drive is in, with no write in front of
it, because the executor builds it only when the mode was read back (`Starting`,
`Settled`), and what is read was behind every write. `Owes`: for a drive that may have been
energised, a disable phase has the disable still to hand over, or the drive `GoesOff`: it
is not enabled and no ENABLE comes, or a disable in its mode comes behind the last one.
`Certain`: in an action that is `sound` newer feedback that says enabled excludes that an
ENABLE is still under way. `VerifiedIsTrue`, `EnablesMeetTheirMode`, `EndedIsOff` and
`CompletedFoundOff` follow. `Kept` is a recursive function over the places of a sequence;
that it selects those entries in their order (`KeptPlaces`) is proved by the least place at
which it would fail (`Climb`). TLC checks `OneShotInv` on one drive with five events and on
the bounds of `MCOneShot`.

**CanProofs.** `CanInv` states, of any two frames, that the second may reach the bus after
the first (`MayFollow`): not out of order within a priority, and no control after a younger
disable that withdrew it. It holds within what was sent, within the FIFO, and from each to
what comes behind it (`OnTheWay`); in the queue only the withdrawal holds, since an urgent
frame overtakes. `FramesInOrder` and `DisablesAreFinal` assume
`MaxFrames <= SeqModulus`: the sequence number is compared with `<`, so order is promised
only until it wraps (2^32 frames; `InOrder` fails beyond).

**ReceiveProofs.** `ReceiveInvariance`: `IInv` is inductive, and `SamplesAreDatedSafely`
follows. A sample is dated by what `bound` was when the interrupt came, so the invariant
has to follow the frame all the way. `BoundBehind`: the bound is never ahead of the clock
nor of a frame that waits in the FIFO; this is where it matters that the clock is read
before the FIFO is found empty, and that `Observe` excludes the interrupt. `CopyWhole`:
between the two copies of a pop the slot is not rewritten, because the interrupt never
fills the last slot of the ring. `AllDated`: the date is at most the arrival in every slot,
in the task's copy and in the bank. `EvidenceInvariance` adds the gates: an answer whose
date lies behind the floor of the gate dates from that gate, no frame that energises is
left, and an answer "off" is still true (`Fits`), in each place an answer can be and for
what the bound will date. `GatesOpenAfterwards` and `OpenGatesAreOff` follow.

**UsbProofs.** `BufferIsHeld`: `FlagCovers` says what the flag guarantees
although it may be wrong: it is set, or about to be set, whenever the controller holds the
buffer, and clear while a copy goes on. The counts of the transmit rings are changed
without a lock. `CountsStayClose` says how wrong they get under any interruption: `CountInv`
follows the count that a call will leave (`Leaves`), which is that of the register once it
is loaded; an increment that comes then is lost, and the step that makes it is an
interruption. It needs that a loaded count is at most the present one and that the others
never empty a ring. The content of the rings is claimed, as the properties do,
only while `preemptions = 0`; queueing, completions and resets between two calls are not limited.
`CalmInv` follows it through a call: each ring holds the newest frames it took from the
read index on (`Content`), a lossless one has sent the others, whole (`Delivered`), and
both are off by one frame (`Has`, `Left`) while `service_tx` has sent it and has not yet
moved the index, or has moved the index and not yet the count (`InCall`). `RingsAreCalm`,
hence `RingsKeepTheirFrames`. `RingInvariance`: the unread places of
the receive ring hold, in order, the stored bytes not yet taken; the rest is arithmetic of
the wrap (`AfterIs`, `DistanceIs`) and that a packet which does not fit leaves the ring
alone. `NothingUnreadIsLost` follows.

**DebugUiProofs.** `Invariance`: `IInv` is inductive; TLC checks it too, on the bounds of
`MCMailbox` and on one motor with three requests and two commands. Its parts are
predicates of the channels, so that the operations of one call can be composed. `Core`
says where identifiers are: each in one place at most (`Single`) of the queue, the STOP
slot, the executor, the two stores and the hand `H` of the call, and those of the user
interface exactly where a transaction is open. `HeldOnce` alone is not inductive: a fault
discards the queue, so one must know that no local command is in it then. `Lonely` says
why: one that waits is alone, holds the motion gate, nothing runs and nothing is deferred,
so that `FailQueuedMotion` takes it back and finds room, and the fallback has two places
for it and a STOP (`Behind`, over the turns of `CancelAll`, by the climb up to
`CommandCapacity + 1`). `Stops` strengthens `StopKept`: outside the intent, a STOP that is
owed lies outside the mask of the fallback, and once it is taken over it is the STOP in
the slot with its motor in the mask; so the fallback, whose frames cover all that waits,
owes nothing when it cancels (`StopIntentKeeps`). `Owned` strengthens `OneOwner`: a local
command excludes the authority of the host, so that no line is admitted beside it. One
lemma per C function says what it does to these parts (`Outcome` for those inside a service
call), one per step of the three tasks composes them. `HeldInOnePlace`, `StopsAreKept` and
`ArmHasOneOwner` follow; `TypeCorrect` gives the types.

**MotorProofs.** `MotorInvariant`: `IInv` is inductive. None of the four properties is. An
answer is recognised because an entry for it is still in a table, so the invariant first
says which entry covers which request (`Covered`): its own for a request of the running
sequence, a tombstone for one that was cut short, one of its own source if a mode switch
sent it. Covering is not enough: two items on the wire may ask the same, and the first
answer takes the entry of both. `Twins` says when that happens (a mode readback in
front of a discovery, both current or both stale) and that two tombstones stand by;
`OrderOK` and `AnsweredOK` give the order of the wire, `Fresh` that an
entry which is not quarantined covers nothing stale, `CurrentOK` and `BootOK` that what is
current belongs to the request the cursor is at. A discovery that starts over forgets its
request, whose orphaned answer may then be taken for the answer to the same register of
the new pass, and the real answer is an orphan in its turn. This stops at one: `NoThree`
and `Locked` say that never three requests of discoveries are on their way, because a
tombstone holds the next back until the older ones are gone. Such an orphan still tells
the truth (`ReadTrue`): while a read of the mode is on its way the last register of its
joint is not verified (`ReadWhilePending`), and no switch begins before all are. This is
where it matters that the mode is not the last register read. With it `ModeTrue`: what is
verified is the mode of the drive, and no write is under way. `TimeOK` counts a discovery in
attempts: what has elapsed is at most a timeout for each attempt behind the cursor
(`Slot`), and one more before the first, in which the tombstones of earlier sequences
die out. One lemma per action composes what it does to the wire, the tables and the
course of the sequences. Emitting, losing, answering, ageing and taking an entry are
stated once, as how the items and entries of the next state come from those before
(`Still`, `Thins`, `Drops`). `AnswersAreRecognised`, `AnswersAreCurrent`,
`ReadBacksAreTrue` and `DiscoveriesEndInTime` follow.

`TimingAssumption` is what the argument needs of the numbers. No register is read twice
and the mode is not the last one (it is the third of `discovery_registers`,
`motor_discovery.c:12`). The deadline of a discovery is longer than every attempt at every
register of every joint, and one timeout: 7 joints, 13 registers and 4 attempts of 20 ms
are 7.28 s, and 7.30 s are less than 8 s (`motor_discovery.h:15`, `aethor_app.c:158`), or
1827 cycles of 4 ms less than 2000. This counts the 20 ms as five cycles; a clock that
always reads a little less after five cycles would make each timeout six, and the budget
2192 cycles, so the bound holds of cycles, not of a clock that drifts against them. An answer
that comes at all comes within the timeout; without it `AnswerIsCurrent` fails (see 3).

Only model-checked:

- Liveness (`AllAnswered`, `StopsAnswered`, `AllSent`, `DisableDelivered`, `ActionEnds`,
  `StopsAndAnswers`), which the prover cannot reach.
- `LinesAreParsed`, which compares two parsers of a stream: induction over data.
- `NoTerminalLost` and `MotionGateBacked` are not claimed after a global fault at all:
  there they fail (see 3). What a fault may drop is bounded by `OnlyFaultsDrop`, which
  is checked and not proved.

## 5. What is left out

- The codec, trajectories, load-test pages and LVGL: floating point and drawing.
- Of `stm32_platform.c`, the paths that own a dedicated transmit buffer (static
  load, capability, persistence); the service models the ordinary frames.
- The phases of local requests inside `DebugUiMailbox` (they are those of
  `OneShotAction`) and load tests; the ADRC and persistence owners of the action and of
  the bus. The cache of recent results (repeated requests).
- Reads of position registers (`motor_runtime.c:885-1008`): they use the same tables, in
  builds of their own.
- The sequence counter of the motor bank: ArmControlTask, which reads, pre-empts
  CanRxTask, which writes, so a snapshot sees at most one write in progress and skips
  that motor.
- Deadlines as numbers, except in `MotorParameter`; request identifiers are taken as
  unique.
- `ArmLifecycle` assumes room for each terminal; with all stores full
  `aethor_app_complete_action` keeps the action, which `CommandLifecycle` models.
- The legacy code in `User/`, the desktop studio, vendored code, models and tools.

## 6. Plan

Done: `ArmController`, `ArmLifecycle`, `ProtocolEngine`, `CommandLifecycle`,
`RequestContract`, `OneShotAction`, `UsbTransmit`, `UsbReceive`, `CanTransmit`,
`CanReceive`, `MotorParameter`, `DebugUiMailbox`, and the theorems above. Next:

1. Composition of `OneShotAction` with `CommandLifecycle` through its action, and
   with `CanTransmit` in place of `bus`.
2. `AdrcOwnership` and `CapabilityCollector`; parameter persistence on top of
   `MotorParameter`.
3. The cache of recent results: a repeated request is answered, never run again.

Each module gets one run (two where safety and liveness need different bounds),
with the bounds that fill, wrap and empty its stores; runs of this list give way
to runs of the new modules where one shows the same.
