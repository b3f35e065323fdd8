---------------------------- MODULE CanTransmit ----------------------------
(***************************************************************************)
(* The way of a CAN frame from ArmControlTask to the bus: the bounded       *)
(* priority scheduler App/Motor/can_tx_scheduler.c, the submission and      *)
(* service functions of App/Platform/stm32_platform.c, and the hardware     *)
(* FIFO, which sends, cancels and goes bus-off whenever it likes.           *)
(*                                                                          *)
(* A frame is "disable" (one drive off, EMERGENCY), "control" (ENABLE, or a *)
(* target, JOINT_CONTROL) or "query" (FEEDBACK_QUERY and PARAMETER, which   *)
(* differ only in rank).  Its id counts the accepted frames; the code keeps *)
(* the id modulo 2^32.                                                      *)
(***************************************************************************)
EXTENDS Naturals, FiniteSets, SequencesExt

CONSTANTS
  JointCount,  \* ARM_JOINT_COUNT: also the most frames a cycle hands over
  Capacity,    \* CAN_TX_SCHEDULER_CAPACITY
  FifoDepth,   \* elements of the hardware FIFO
  SeqModulus,  \* 2^32 in the code
  Builds,      \* TRUE: the static-load and POS-load builds, which withdraw
  MaxFrames    \* bound: accepted frames

ASSUME CanAssumption ==
  /\ {JointCount, Capacity, FifoDepth} \subseteq Nat \ {0}
  /\ SeqModulus \in Nat /\ Capacity <= SeqModulus
  /\ Builds \subseteq BOOLEAN

VARIABLES
  withdraw,  \* the build withdraws the controls a disable overtakes
  queue,   \* scheduler entries, without their order in the array
  fifo,    \* frames pending in the hardware
  cancel,  \* platform_pos_cancel_pending: the frames asked to be aborted
  next,    \* next_sequence, before it is cut to its width
  pc,      \* where ArmControlTask is in its cycle
  moved,   \* frames handed over in this cycle
  busOff,  \* bus_off_latched
  sent     \* history: the frames on the bus

vars == <<withdraw, queue, fifo, cancel, next, pc, moved, busOff, sent>>

Joints == 1..JointCount
Kinds == {"disable", "control", "query"}
Emergency(e) == e.kind = "disable"
Rank(e) == CASE e.kind = "disable" -> 0
             [] e.kind = "control" -> 1
             [] e.kind = "query" -> 2

Init ==
  /\ withdraw \in Builds
  /\ queue = {} /\ fifo = <<>> /\ cancel = {}
  /\ next = 0 /\ pc = "emergency" /\ moved = 0
  /\ busOff = FALSE /\ sent = <<>>
-----------------------------------------------------------------------------
(* The scheduler.                                                          *)

Sequence(e) == e.id % SeqModulus

\* Variant: of one rank the newest is taken.
Before_NewestFirst(e, f) ==
  Rank(e) < Rank(f) \/ (Rank(e) = Rank(f) /\ Sequence(e) > Sequence(f))

Before(e, f) ==
  Rank(e) < Rank(f) \/ (Rank(e) = Rank(f) /\ Sequence(e) < Sequence(f))

\* can_tx_scheduler_pop takes an entry that no other is before (the first one
\* in the array, which matters only if two sequence numbers are equal) ...
Foremost(q) == {e \in q : \A f \in q : ~Before(f, e)}

\* ... and can_tx_scheduler_make_emergency_room removes one that is before no
\* other, the emergencies left aside.
Evictable(q) == {e \in q : ~Emergency(e)}
Hindmost(q) == {e \in Evictable(q) : \A f \in Evictable(q) : ~Before(e, f)}

Room(q, n) == Cardinality(q) + n <= Capacity
Accepts(q, e) == Room(q, 1) \/ (Emergency(e) /\ Evictable(q) # {})

\* What is left of the queue when one frame is appended.
Remaining(q) == IF Room(q, 1) THEN {q} ELSE {q \ {e} : e \in Hindmost(q)}

Frame(kind, j, id) == [kind |-> kind, joint |-> j, id |-> id]
Controls(es, j) == {e \in es : e.kind = "control" /\ e.joint = j}
Ids(es) == {e.id : e \in es}

\* Variant: the queued controls stay where they are.
Withdrawn_Kept(q, e) == q

\* stm32_platform_can_submit: a disable first withdraws the queued controls of
\* its joint ...
Withdrawn(q, e) ==
  IF withdraw /\ Emergency(e) THEN q \ Controls(q, e.joint) ELSE q

\* ... and asks the hardware to abort those it already has.
Submit(e) ==
  /\ cancel' = IF withdraw /\ Emergency(e)
                 THEN cancel \cup Ids(Controls(ToSet(fifo), e.joint))
                 ELSE cancel
  /\ LET q == Withdrawn(queue, e)
     IN IF Accepts(q, e)
          THEN /\ \E rest \in Remaining(q) : queue' = rest \cup {e}
               /\ next' = next + 1
          ELSE queue' = q /\ next' = next
-----------------------------------------------------------------------------
(* ArmControlTask: StartArmControlTask after aethor_app_service.           *)

At(from, to) == pc = from /\ pc' = to
Hardware == UNCHANGED <<withdraw, fifo, busOff, sent>>
Skip == UNCHANGED <<queue, cancel, next>>

SubmitEmergency ==
  /\ At("emergency", "emergency")
  /\ next < MaxFrames
  /\ \E j \in Joints : Submit(Frame("disable", j, next))
  /\ UNCHANGED moved /\ Hardware

EndEmergency ==
  At("emergency", "group") /\ Skip /\ UNCHANGED moved /\ Hardware

GroupFits == Room(queue, JointCount)

\* can_tx_scheduler_submit_control_group: one control for every joint, or none.
SubmitGroup ==
  /\ At("group", "frame")
  /\ \/ /\ next + JointCount <= MaxFrames /\ GroupFits
        /\ queue' = queue \cup {Frame("control", j, next + j - 1) : j \in Joints}
        /\ next' = next + JointCount
        /\ UNCHANGED cancel
     \/ Skip
  /\ UNCHANGED moved /\ Hardware

\* aethor_app_next_can_frame yields at most one frame, of any priority.
SubmitFrame ==
  /\ At("frame", "service")
  /\ \/ /\ next < MaxFrames
        /\ \/ \E k \in {"disable", "control"}, j \in Joints :
                Submit(Frame(k, j, next))
           \/ Submit(Frame("query", 1, next))
     \/ Skip
  /\ moved' = 0 /\ Hardware

\* Variant: an abort that is done still counts as pending.
Aborting_NotMasked == cancel # {}

\* stm32_platform_can_service_tx goes on while it can.
Aborting == cancel \cap Ids(ToSet(fifo)) # {}
CanMove == /\ ~busOff /\ moved < JointCount /\ ~Aborting
           /\ Len(fifo) < FifoDepth /\ queue # {}

Move ==
  /\ At("service", "service") /\ CanMove
  /\ \E e \in Foremost(queue) :
       fifo' = Append(fifo, e) /\ queue' = queue \ {e}
  /\ cancel' = {} /\ moved' = moved + 1
  /\ UNCHANGED <<withdraw, next, busOff, sent>>

EndCycle ==
  At("service", "emergency") /\ ~CanMove /\ Skip /\ UNCHANGED moved /\ Hardware

Cycle == \/ SubmitEmergency \/ EndEmergency \/ SubmitGroup \/ SubmitFrame
         \/ Move \/ EndCycle
-----------------------------------------------------------------------------
(* The FDCAN controller.  A frame whose abort is requested is removed, or   *)
(* sent all the same when it is already on the wire.                        *)

Task == UNCHANGED <<withdraw, queue, cancel, next, pc, moved>>

Send ==
  /\ ~busOff /\ fifo # <<>>
  /\ sent' = Append(sent, Head(fifo)) /\ fifo' = Tail(fifo)
  /\ Task /\ UNCHANGED busOff

Abort ==
  /\ \E n \in DOMAIN fifo : fifo[n].id \in cancel /\ fifo' = RemoveAt(fifo, n)
  /\ Task /\ UNCHANGED <<sent, busOff>>

\* The latch is never reset: only a reboot leaves bus-off.
GoBusOff == ~busOff /\ busOff' = TRUE /\ Task /\ UNCHANGED <<fifo, sent>>

Next == Cycle \/ Send \/ Abort \/ GoBusOff

\* The control task runs every 4 ms; the bus takes frames unless it is off.
Spec == /\ Init /\ [][Next]_vars
        /\ WF_vars(Cycle) /\ WF_vars(Send) /\ WF_vars(Abort)
-----------------------------------------------------------------------------
(* Properties.                                                             *)

OnBus(P(_, _)) ==
  \A m, n \in DOMAIN sent : m < n => P(sent[m], sent[n])

\* can_tx_scheduler.h promises a stable-priority ring: frames of one priority
\* reach the bus in the order in which they were submitted.
InOrder ==
  LET P(first, second) == Rank(first) = Rank(second) => first.id < second.id
  IN OnBus(P)

\* In the builds that withdraw: once a drive was disabled no older frame enables
\* or moves it again.
NoControlAfterDisable ==
  LET P(first, second) ==
        /\ Emergency(first) /\ second.kind = "control"
        /\ first.joint = second.joint
        => first.id < second.id
  IN withdraw => OnBus(P)

\* Every accepted disable reaches the bus, unless the bus is off.
DisableDelivered ==
  \A id \in 0..MaxFrames - 1 :
    (\E e \in queue : Emergency(e) /\ e.id = id)
      ~> (busOff \/ \E e \in ToSet(sent) : e.id = id)
=============================================================================
