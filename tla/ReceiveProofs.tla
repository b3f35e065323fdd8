---------------------------- MODULE ReceiveProofs ----------------------------
(***************************************************************************)
(* Proofs that no sample is dated later than it arrived, and that a gate    *)
(* which counts from its own beginning opens only on later samples of       *)
(* drives that are off: for any number of drives and commands, any sizes of *)
(* the inbox and of the FIFO, and however the interrupt, the two tasks and  *)
(* the bus interleave.                                                      *)
(***************************************************************************)
EXTENDS CanReceive, TLAPS

States == {"off", "on"}
Commands == [joint : Joints, state : States]
Frames == [joint : Joints, state : States, arrived : Nat, era : Nat]
Slots == [frame : Frames, time : Nat]
Samples ==
  [valid : BOOLEAN, state : States, time : Nat, arrived : Nat, era : Nat]
Floors == [Joints -> Nat]
Batches == Seq(Joints)
Gates == [no : Nat, kind : Kinds \cup {"none"}, floor : Floors,
          batch : Batches]
Indices == 0..Capacity

TypeInv ==
  /\ now \in Nat /\ stamp \in Nat /\ bound \in Nat
  /\ fifo \in Seq(Frames) /\ tx \in Seq(Commands)
  /\ slots \in [Indices -> Slots] /\ write \in Indices /\ read \in Indices
  /\ rx \in [at : {"idle", "frame", "time", "popped"}, slot : Slots]
  /\ bank \in [Joints -> Samples]
  /\ drive \in [Joints -> [state : States, owes : BOOLEAN]]
  /\ gate \in Gates

\* No reading is ahead of the clock, and while an answer waits in the FIFO the
\* bound does not pass it.
BoundBehind ==
  /\ stamp <= now /\ bound <= now
  /\ \A n \in 1..Len(fifo) : bound <= fifo[n].arrived

\* The slot CanRxTask is copying stays what it is: the interrupt writes another.
CopyWhole ==
  rx.at = "frame" => read # write /\ slots[read].frame = rx.slot.frame

\* Wherever a frame is, its date is not after its arrival.
Dated(s) == s.time <= s.frame.arrived
AllDated ==
  /\ \A n \in Indices : Dated(slots[n])
  /\ Dated(rx.slot)
  /\ DatedSafely

IInv == TypeInv /\ BoundBehind /\ CopyWhole /\ AllDated

\* The constants the platform starts with.
LEMMA Nothing == NoFrame \in Frames /\ NoSlot \in Slots /\ NoSample \in Samples
  BY ReceiveAssumption
     DEF NoFrame, NoSlot, NoSample, Frames, Slots, Samples, States, Joints

\* The invariant holds when the platform starts.
LEMMA ReceiveInit == Init => IInv
<1> SUFFICES ASSUME Init
             PROVE  IInv
  OBVIOUS
<1>1. TypeInv
  <2>1. now \in Nat /\ stamp \in Nat /\ bound \in Nat
    BY DEF Init
  <2>2. fifo \in Seq(Frames) /\ tx \in Seq(Commands)
    BY DEF Init
  <2>3. /\ slots \in [Indices -> Slots] /\ write \in Indices
        /\ read \in Indices
    BY Nothing, ReceiveAssumption DEF Init, Indices
  <2>4. rx \in [at : {"idle", "frame", "time", "popped"}, slot : Slots]
    BY Nothing DEF Init
  <2>5. bank \in [Joints -> Samples]
    BY Nothing DEF Init
  <2>6. drive \in [Joints -> [state : States, owes : BOOLEAN]]
    BY DEF Init, States
  <2>7. gate \in Gates
    BY DEF Init, NoGate, Gates, Floors, Batches
  <2> QED
    BY <2>1, <2>2, <2>3, <2>4, <2>5, <2>6, <2>7 DEF TypeInv
<1>2. BoundBehind /\ CopyWhole
  BY DEF Init, BoundBehind, CopyWhole
<1>3. AllDated
  BY DEF Init, AllDated, Dated, DatedSafely, Indices, NoSlot, NoFrame, NoSample
<1> QED
  BY <1>1, <1>2, <1>3 DEF IInv

-----------------------------------------------------------------------------
\* The clock, the bus and the drives: an answer arrives at the time of the
\* clock, which every bound is behind.
LEMMA HardwareStep ==
  ASSUME IInv, Tick \/ Transmit \/ BusOff \/ (\E j \in Joints : Arrive(j))
  PROVE  IInv'
<1>1. CASE Tick
  BY <1>1 DEF Tick, IInv, TypeInv, BoundBehind, CopyWhole, AllDated, Dated,
              DatedSafely, inbox, hardware
<1>2. CASE BusOff
  BY <1>2 DEF BusOff, IInv, TypeInv, BoundBehind, CopyWhole, AllDated, Dated,
              DatedSafely, inbox, hardware
<1>3. CASE Transmit
  <2>1. Head(tx) \in Commands /\ Tail(tx) \in Seq(Commands)
    BY <1>3 DEF Transmit, IInv, TypeInv
  <2>2. drive' \in [Joints -> [state : States, owes : BOOLEAN]]
    BY <1>3, <2>1 DEF Transmit, IInv, TypeInv, Commands
  <2>3. TypeInv'
    BY <1>3, <2>1, <2>2 DEF Transmit, IInv, TypeInv, inbox
  <2> QED
    BY <1>3, <2>3 DEF Transmit, IInv, BoundBehind, CopyWhole, AllDated, Dated,
                      DatedSafely, inbox
<1>4. ASSUME NEW j \in Joints, Arrive(j)
      PROVE  IInv'
  <2>1. PICK f \in Frames : /\ f.arrived = now
                            /\ fifo' = fifo \/ fifo' = Append(fifo, f)
    <3> DEFINE g == [joint |-> j, state |-> drive[j].state,
                     arrived |-> now, era |-> gate.no]
    <3>1. g \in Frames
      BY <1>4 DEF IInv, TypeInv, Frames, Gates
    <3>2. fifo' = fifo \/ fifo' = Append(fifo, g)
      BY <1>4 DEF Arrive
    <3> QED
      BY <3>1, <3>2
  <2>2. fifo \in Seq(Frames) /\ fifo' \in Seq(Frames)
    <3>1. fifo \in Seq(Frames)
      BY DEF IInv, TypeInv
    <3>2. Append(fifo, f) \in Seq(Frames)
      BY <3>1
    <3> QED
      BY <2>1, <3>1, <3>2
  <2>3. drive' \in [Joints -> [state : States, owes : BOOLEAN]]
    BY <1>4, ZenonT(30) DEF Arrive, IInv, TypeInv
  <2>4. TypeInv'
    BY <1>4, <2>2, <2>3 DEF Arrive, IInv, TypeInv, inbox
  <2>5. \A n \in 1..Len(fifo') : bound <= fifo'[n].arrived
    BY <2>1, <2>2 DEF IInv, BoundBehind
  <2> QED
    BY <1>4, <2>4, <2>5 DEF Arrive, IInv, BoundBehind, CopyWhole, AllDated,
                            Dated, DatedSafely, inbox
<1> QED
  BY <1>1, <1>2, <1>3, <1>4

\* The interrupt dates a frame with the bound, which is behind the whole FIFO.
LEMMA InterruptStep ==
  ASSUME IInv, Interrupt
  PROVE  IInv'
<1>1. /\ Head(fifo) \in Frames /\ Tail(fifo) \in Seq(Frames)
      /\ Len(Tail(fifo)) = Len(fifo) - 1 /\ Len(fifo) \in Nat /\ Len(fifo) > 0
      /\ Head(fifo) = fifo[1]
      /\ \A n \in 1..Len(Tail(fifo)) : Tail(fifo)[n] = fifo[n + 1]
  BY DEF Interrupt, IInv, TypeInv
<1>2. bound <= Head(fifo).arrived
  BY <1>1 DEF IInv, BoundBehind
<1>3. \A n \in 1..Len(Tail(fifo)) : bound <= Tail(fifo)[n].arrived
  BY <1>1 DEF IInv, BoundBehind
<1>4. \A n \in 1..Len(fifo') : fifo'[n].arrived \in Nat
  <2>1. fifo' \in Seq(Frames)
    BY <1>1 DEF Interrupt
  <2>2. \A n \in 1..Len(fifo') : fifo'[n] \in Frames
    BY <2>1
  <2> QED
    BY <2>2 DEF Frames
<1>5. CASE Full
  <2>1. TypeInv'
    BY <1>1, <1>5 DEF Interrupt, IInv, TypeInv, inbox
  <2>2. BoundBehind'
    BY <1>4, <1>5 DEF Interrupt, IInv, TypeInv, BoundBehind
  <2> QED
    BY <1>5, <2>1, <2>2
       DEF Interrupt, IInv, CopyWhole, AllDated, Dated, DatedSafely, inbox
<1>6. CASE ~Full
  <2> DEFINE s == [frame |-> Head(fifo), time |-> bound]
  <2>1. s \in Slots /\ Dated(s)
    BY <1>1, <1>2 DEF IInv, TypeInv, Slots, Dated
  <2>2. slots' = [slots EXCEPT ![write] = s] /\ write' = After(write)
    BY <1>6 DEF Interrupt
  <2> HIDE DEF s
  <2>3. After(write) \in Indices
    BY ReceiveAssumption DEF IInv, TypeInv, After, Indices
  <2>4. TypeInv'
    BY <1>1, <1>6, <2>1, <2>2, <2>3 DEF Interrupt, IInv, TypeInv
  <2>5. BoundBehind'
    BY <1>3, <1>6 DEF Interrupt, IInv, BoundBehind
  <2>6. CopyWhole'
    BY <1>6, <2>2 DEF Interrupt, IInv, TypeInv, CopyWhole, Full
  <2>7. AllDated'
    BY <1>6, <2>1, <2>2
       DEF Interrupt, IInv, TypeInv, AllDated, Dated, DatedSafely
  <2> QED
    BY <2>4, <2>5, <2>6, <2>7 DEF IInv
<1> QED
  BY <1>5, <1>6

\* CanRxTask copies the frame and its date from the same slot, since the
\* interrupt cannot reach that slot before the index is advanced.
LEMMA CopyStep ==
  ASSUME IInv, PopFrame \/ PopTime \/ PopAdvance \/ Deliver
  PROVE  IInv'
<1>1. CASE PopFrame
  <2> DEFINE s == [frame |-> slots[read].frame, time |-> 0]
  <2>1. s \in Slots /\ Dated(s) /\ s.frame = slots[read].frame
    BY DEF IInv, TypeInv, Slots, Frames, Dated
  <2>2. rx' = [at |-> "frame", slot |-> s]
    BY <1>1 DEF PopFrame
  <2> HIDE DEF s
  <2>3. TypeInv'
    BY <1>1, <2>1, <2>2 DEF PopFrame, IInv, TypeInv, inbox, hardware
  <2> QED
    BY <1>1, <2>1, <2>2, <2>3 DEF PopFrame, RxAt, IInv, BoundBehind, CopyWhole,
                                  AllDated, Dated, DatedSafely, inbox, hardware
<1>2. CASE PopTime
  <2>1. slots[read] \in Slots /\ Dated(slots[read])
        /\ rx.slot.frame = slots[read].frame
    BY <1>2 DEF PopTime, RxAt, IInv, TypeInv, CopyWhole, AllDated
  <2>2. rx' = [at |-> "time", slot |-> slots[read]]
    BY <1>2, <2>1 DEF PopTime, IInv, TypeInv, Slots
  <2>3. TypeInv'
    BY <1>2, <2>1, <2>2 DEF PopTime, IInv, TypeInv, inbox, hardware
  <2>4. rx'.at # "frame" /\ rx'.slot = slots[read]
    BY <2>2
  <2>5. UNCHANGED <<now, stamp, bound, fifo, slots, bank>>
    BY <1>2 DEF PopTime, inbox, hardware
  <2> QED
    BY <2>1, <2>3, <2>4, <2>5 DEF IInv, BoundBehind, CopyWhole, AllDated,
                                  Dated, DatedSafely
<1>3. CASE PopAdvance
  <2>1. After(read) \in Indices
    BY ReceiveAssumption, SMTT(30) DEF IInv, TypeInv, After, Indices
  <2>2. rx' = [rx EXCEPT !.at = "popped"] /\ rx'.at = "popped"
        /\ rx'.slot = rx.slot
    BY <1>3 DEF PopAdvance, IInv, TypeInv
  <2>3. TypeInv'
    BY <1>3, <2>1, <2>2 DEF PopAdvance, IInv, TypeInv, hardware
  <2> QED
    BY <1>3, <2>2, <2>3 DEF PopAdvance, IInv, BoundBehind, CopyWhole,
                            AllDated, Dated, DatedSafely, hardware
<1>4. CASE Deliver
  <2> DEFINE f == rx.slot.frame
             b == [valid |-> TRUE, state |-> f.state, time |-> rx.slot.time,
                   arrived |-> f.arrived, era |-> f.era]
  <2>1. f.joint \in Joints /\ b \in Samples /\ b.time <= b.arrived
    BY DEF IInv, TypeInv, AllDated, Dated, Slots, Frames, Samples
  <2>2. rx' = [at |-> "idle", slot |-> NoSlot]
        /\ (bank' = bank \/ bank' = [bank EXCEPT ![f.joint] = b])
    BY <1>4 DEF Deliver
  <2> HIDE DEF b
  <2>3. bank' \in [Joints -> Samples] /\ DatedSafely'
    BY <2>1, <2>2 DEF IInv, TypeInv, AllDated, DatedSafely
  <2>4. rx' \in [at : {"idle", "frame", "time", "popped"}, slot : Slots]
    BY <2>2, Nothing
  <2>5. TypeInv'
    BY <1>4, <2>3, <2>4 DEF Deliver, IInv, TypeInv, inbox, hardware
  <2>6. Dated(NoSlot)
    BY DEF Dated, NoSlot, NoFrame
  <2> QED
    BY <1>4, <2>2, <2>3, <2>5, <2>6 DEF Deliver, IInv, BoundBehind, CopyWhole,
                                        AllDated, Dated, inbox, hardware
<1> QED
  BY <1>1, <1>2, <1>3, <1>4

\* The bound is moved only when the FIFO is empty, and only to a reading.
LEMMA ObserveStep ==
  ASSUME IInv, Sample \/ Observe
  PROVE  IInv'
<1>1. CASE Sample
  BY <1>1 DEF Sample, IInv, TypeInv, BoundBehind, CopyWhole, AllDated, Dated,
              DatedSafely, inbox, hardware
<1>2. CASE Observe
  <2>1. bound' \in Nat /\ bound' <= now
        /\ \/ bound' = 0 \/ bound' = bound \/ fifo = <<>>
    BY <1>2 DEF Observe, Observed, Drained, IInv, TypeInv, BoundBehind
  <2>2. \A n \in 1..Len(fifo) : fifo[n] \in Frames
    BY DEF IInv, TypeInv
  <2>3. \A n \in 1..Len(fifo) : bound' <= fifo[n].arrived
    BY <2>1, <2>2 DEF IInv, BoundBehind, Frames
  <2>4. TypeInv'
    BY <1>2, <2>1 DEF Observe, IInv, TypeInv, inbox, hardware
  <2> QED
    BY <1>2, <2>1, <2>3, <2>4 DEF Observe, IInv, BoundBehind, CopyWhole,
                                  AllDated, Dated, DatedSafely, inbox, hardware
<1> QED
  BY <1>1, <1>2

\* Handing a frame over keeps the types of the gate and of what is pending.
LEMMA HandOverTyped ==
  ASSUME NEW g \in Gates, tx \in Seq(Commands), HandOver(g)
  PROVE  gate' \in Gates /\ tx' \in Seq(Commands)
<1>1. \A j \in Joints : \A kind : Frame(j, kind) \in Commands
  BY DEF Frame, Wanted, Commands, States
<1>2. CASE g.batch = <<>> \/ ~Due(g)
  BY <1>2 DEF HandOver
<1>3. ASSUME NEW b \in Batches
      PROVE  [g EXCEPT !.batch = b] \in Gates
  BY DEF Gates
<1>4. CASE ~(g.batch = <<>> \/ ~Due(g)) /\ g.kind = "lock"
  <2> DEFINE fs == [n \in 1..Len(g.batch) |-> Frame(g.batch[n], g.kind)]
  <2>1. g.batch \in Seq(Joints) /\ <<>> \in Batches
    BY DEF Gates, Batches
  <2>2. fs \in Seq(Commands)
    BY <1>1, <2>1
  <2>3. tx' = tx \o fs /\ gate' = [g EXCEPT !.batch = <<>>]
    BY <1>4 DEF HandOver
  <2> HIDE DEF fs
  <2>4. tx \o fs \in Seq(Commands)
    BY <2>2
  <2> QED
    BY <1>3, <2>1, <2>3, <2>4
<1>5. CASE ~(g.batch = <<>> \/ ~Due(g)) /\ g.kind # "lock"
  <2>1. g.batch \in Seq(Joints) /\ g.batch # <<>>
    BY <1>5 DEF Gates, Batches
  <2>2. Frame(Head(g.batch), g.kind) \in Commands /\ Tail(g.batch) \in Batches
    BY <1>1, <2>1 DEF Batches
  <2>3. tx' = Append(tx, Frame(Head(g.batch), g.kind))
        /\ gate' = [g EXCEPT !.batch = Tail(@)]
    BY <1>5 DEF HandOver
  <2>4. Append(tx, Frame(Head(g.batch), g.kind)) \in Seq(Commands)
    BY <2>2
  <2> QED
    BY <1>3, <2>2, <2>3, <2>4
<1> QED
  BY <1>2, <1>4, <1>5

\* The gates only send, and what they send has not been answered yet.
LEMMA GateStep ==
  ASSUME IInv, Serve \/ (\E kind \in Kinds : Begin(kind))
  PROVE  IInv'
<1>1. gate \in Gates /\ tx \in Seq(Commands)
  BY DEF IInv, TypeInv
<1>2. ASSUME NEW kind \in Kinds, Begin(kind)
      PROVE  gate' \in Gates /\ tx' \in Seq(Commands)
  <2> DEFINE g == [no |-> gate.no + 1, kind |-> kind,
                   floor |-> [j \in Joints |-> Floor(kind, j)],
                   batch |-> [j \in Joints |-> j]]
  <2>1. \A j \in Joints : Floor(kind, j) \in Nat
    BY DEF Floor, Later, IInv, TypeInv, Samples, Kinds
  <2>2. [j \in Joints |-> j] \in Seq(Joints)
    BY ReceiveAssumption DEF Joints
  <2>3. g \in Gates
    BY <1>1, <2>1, <2>2 DEF Gates, Floors, Batches
  <2>4. HandOver(g)
    BY <1>2 DEF Begin
  <2> QED
    BY <1>1, <2>3, <2>4, HandOverTyped
<1>3. ASSUME Serve
      PROVE  gate' \in Gates /\ tx' \in Seq(Commands)
  <2>1. NoGate \in Gates
    BY DEF Gates, NoGate, Floors, Batches
  <2>2. [NoGate EXCEPT !.no = gate.no] \in Gates
    BY <1>1, <2>1 DEF Gates
  <2>3. CASE Passes
    BY <1>1, <1>3, <2>2, <2>3 DEF Serve
  <2>4. CASE ~Passes
    <3>1. HandOver(gate)
      BY <1>3, <2>4 DEF Serve
    <3> QED
      BY <1>1, <3>1, HandOverTyped
  <2> QED
    BY <2>3, <2>4
<1>4. gate' \in Gates /\ tx' \in Seq(Commands)
  BY <1>2, <1>3
<1>5. UNCHANGED <<now, stamp, bound, drive, fifo, inbox, rx, bank>>
  BY DEF Serve, Begin, Cycle
<1> QED
  BY <1>4, <1>5 DEF IInv, TypeInv, BoundBehind, CopyWhole, AllDated, Dated,
                    DatedSafely, inbox

\* The invariant of every behaviour: no reading, bound or date is ahead of what
\* it stands for.
THEOREM ReceiveInvariance == Spec => []IInv
<1>1. IInv /\ [Next]_vars => IInv'
  <2> SUFFICES ASSUME IInv, [Next]_vars
               PROVE  IInv'
    OBVIOUS
  <2>1. CASE Next
    BY <2>1, HardwareStep, InterruptStep, CopyStep, ObserveStep, GateStep
       DEF Next
  <2>2. CASE UNCHANGED vars
    BY <2>2 DEF vars, IInv, TypeInv, BoundBehind, CopyWhole, AllDated, Dated,
                DatedSafely, inbox, hardware
  <2> QED
    BY <2>1, <2>2
<1> QED
  BY <1>1, ReceiveInit, PTL DEF Spec

\* A sample is never dated later than it arrived.
THEOREM SamplesAreDatedSafely == Spec => []DatedSafely
<1>1. IInv => DatedSafely
  BY DEF IInv, AllDated
<1> QED
  BY <1>1, ReceiveInvariance, PTL

-----------------------------------------------------------------------------
(* The gates.  A date later than the floor of a gate stands for a reading of *)
(* the clock after the gate began, at which nothing waited on either side:   *)
(* no frame of an earlier command is left then, and none is sent afterwards. *)

Judged == gate.kind \in {"request", "lock"}
Counts(j, time) == Judged /\ time > gate.floor[j]

\* Every frame still to be sent switches off, and what the answer f of drive j
\* says dates from this gate and is still true.
Quiet == \A n \in 1..Len(tx) : tx[n].state = "off"
Fits(j, f) ==
  /\ Quiet
  /\ f.era = gate.no
  /\ f.state = "off" => drive[j].state = "off"

SlotFits(s) ==
  /\ s.time <= stamp
  /\ Counts(s.frame.joint, s.time) => Fits(s.frame.joint, s.frame)

SampleFits(j) ==
  /\ bank[j].time <= stamp
  /\ Counts(j, bank[j].time) => Fits(j, bank[j])

\* What waits in the FIFO will be dated with the bound.
BoundFits(j) ==
  Counts(j, bound) =>
    /\ Quiet
    /\ \A n \in 1..Len(fifo) : fifo[n].joint = j => Fits(j, fifo[n])

EvidenceInv ==
  /\ bound <= stamp
  /\ \A n \in Indices : SlotFits(slots[n])
  /\ SlotFits(rx.slot)
  /\ \A j \in Joints : SampleFits(j)
  /\ \A j \in Joints : BoundFits(j)

\* No gate is waiting when the platform starts.
LEMMA EvidenceInit == Init => EvidenceInv
  BY DEF Init, EvidenceInv, SlotFits, SampleFits, BoundFits, Counts, Judged,
         NoGate, NoSlot, NoSample, Indices

\* The bus: the drives obey frames that switch off, and their answers are of the
\* present gate.
LEMMA EvidenceHardware ==
  ASSUME IInv, EvidenceInv,
         Tick \/ Transmit \/ BusOff \/ (\E j \in Joints : Arrive(j))
  PROVE  EvidenceInv'
<1> USE DEF EvidenceInv, SlotFits, SampleFits, BoundFits, Counts, Judged, Fits,
            Quiet, inbox, hardware
<1>1. CASE Tick \/ BusOff
  BY <1>1 DEF Tick, BusOff
<1>2. CASE Transmit
  <2>1. tx \in Seq(Commands) /\ tx # <<>>
    BY <1>2 DEF Transmit, IInv, TypeInv
  <2>2. /\ Head(tx) = tx[1] /\ Len(tx) \in Nat \ {0}
        /\ Len(Tail(tx)) = Len(tx) - 1
        /\ \A n \in 1..Len(Tail(tx)) : Tail(tx)[n] = tx[n + 1]
    BY <2>1
  <2>3. Quiet => Quiet'
    BY <1>2, <2>2 DEF Transmit
  <2>4. ASSUME Quiet, NEW j \in Joints, drive[j].state = "off"
        PROVE  drive'[j].state = "off"
    BY <1>2, <2>2, <2>4 DEF Transmit, IInv, TypeInv
  <2>5. UNCHANGED <<stamp, bound, fifo, slots, rx, bank, gate>>
    BY <1>2 DEF Transmit
  <2>6. ASSUME NEW j \in Joints, NEW f, Fits(j, f)
        PROVE  /\ Quiet' /\ f.era = gate'.no
               /\ f.state = "off" => drive'[j].state = "off"
    BY <2>3, <2>4, <2>5, <2>6
  <2>7. \A n \in Indices : slots[n].frame.joint \in Joints
    BY DEF IInv, TypeInv, Slots, Frames
  <2>8. rx.slot.frame.joint \in Joints
    BY DEF IInv, TypeInv, Slots, Frames
  <2> QED
    BY <2>3, <2>5, <2>6, <2>7, <2>8
<1>3. ASSUME NEW j \in Joints, Arrive(j)
      PROVE  EvidenceInv'
  <2> DEFINE g == [joint |-> j, state |-> drive[j].state,
                   arrived |-> now, era |-> gate.no]
  <2>1. g \in Frames /\ fifo \in Seq(Frames)
    BY DEF IInv, TypeInv, Frames, Gates
  <2>2. fifo' = fifo \/ fifo' = Append(fifo, g)
    BY <1>3 DEF Arrive
  <2>3. UNCHANGED <<stamp, bound, tx, slots, rx, bank, gate>>
        /\ \A i \in Joints : drive'[i].state = drive[i].state
    BY <1>3 DEF Arrive, IInv, TypeInv
  <2>4. \A n \in 1..Len(fifo') : (n \in 1..Len(fifo) /\ fifo'[n] = fifo[n])
                                   \/ fifo'[n] = g
    BY <2>1, <2>2
  <2>5. g.era = gate.no /\ g.joint = j /\ g.state = drive[j].state
    OBVIOUS
  <2> HIDE DEF g
  <2>6. \A i \in Joints : BoundFits(i)'
    BY <2>3, <2>4, <2>5
  <2>7. \A n \in Indices : slots[n].frame.joint \in Joints
    BY DEF IInv, TypeInv, Slots, Frames
  <2>8. rx.slot.frame.joint \in Joints
    BY DEF IInv, TypeInv, Slots, Frames
  <2> QED
    BY <2>3, <2>6, <2>7, <2>8
<1> QED
  BY <1>1, <1>2, <1>3

\* The interrupt dates a frame with the bound, which it fits.
LEMMA EvidenceInterrupt ==
  ASSUME IInv, EvidenceInv, Interrupt
  PROVE  EvidenceInv'
<1> USE DEF EvidenceInv, SlotFits, SampleFits, BoundFits, Counts, Judged, Fits,
            Quiet, inbox
<1>1. /\ Head(fifo) = fifo[1] /\ Len(fifo) \in Nat \ {0}
      /\ Head(fifo) \in Frames
      /\ Len(Tail(fifo)) = Len(fifo) - 1
      /\ \A n \in 1..Len(Tail(fifo)) : Tail(fifo)[n] = fifo[n + 1]
  BY DEF Interrupt, IInv, TypeInv
<1>2. UNCHANGED <<stamp, tx, drive, rx, bank, gate>> /\ fifo' = Tail(fifo)
  BY DEF Interrupt
<1>3. CASE Full
  <2>1. bound' = 0 /\ slots' = slots
    BY <1>3 DEF Interrupt
  <2>2. gate.floor \in [Joints -> Nat] /\ stamp \in Nat
    BY DEF IInv, TypeInv, Gates, Floors
  <2> QED
    BY <1>2, <2>1, <2>2
<1>4. CASE ~Full
  <2> DEFINE s == [frame |-> Head(fifo), time |-> bound]
  <2>1. bound' = bound /\ slots' = [slots EXCEPT ![write] = s]
    BY <1>4 DEF Interrupt
  <2>2. SlotFits(s)
    BY <1>1 DEF Frames
  <2> HIDE DEF s
  <2>3. \A n \in Indices : slots'[n] = slots[n] \/ slots'[n] = s
    BY <2>1 DEF IInv, TypeInv
  <2>4. \A n \in Indices : SlotFits(slots[n])'
    BY <1>2, <2>2, <2>3
  <2>5. \A j \in Joints : BoundFits(j)'
    BY <1>1, <1>2, <2>1
  <2> QED
    BY <1>2, <2>1, <2>4, <2>5
<1> QED
  BY <1>3, <1>4

\* CanRxTask only moves what fits.
LEMMA EvidenceCopy ==
  ASSUME IInv, EvidenceInv, PopFrame \/ PopTime \/ PopAdvance \/ Deliver
  PROVE  EvidenceInv'
<1> USE DEF EvidenceInv, SlotFits, SampleFits, BoundFits, Counts, Judged, Fits,
            Quiet, inbox, hardware
<1>0. UNCHANGED <<stamp, bound, tx, drive, fifo, slots, gate>>
  BY DEF PopFrame, PopTime, PopAdvance, Deliver
<1>1. CASE PopFrame
  <2>1. rx'.slot = [frame |-> slots[read].frame, time |-> 0] /\ bank' = bank
    BY <1>1 DEF PopFrame
  <2>2. /\ stamp \in Nat /\ gate.floor \in [Joints -> Nat]
        /\ slots[read].frame.joint \in Joints
    BY DEF IInv, TypeInv, Gates, Floors, Slots, Frames
  <2> QED
    BY <1>0, <2>1, <2>2
<1>2. CASE PopTime
  <2>1. rx'.slot = slots[read] /\ bank' = bank /\ read \in Indices
    BY <1>2 DEF PopTime, RxAt, IInv, TypeInv, CopyWhole, Slots
  <2> QED
    BY <1>0, <2>1
<1>3. CASE PopAdvance
  <2>1. rx'.slot = rx.slot /\ bank' = bank
    BY <1>3 DEF PopAdvance, IInv, TypeInv
  <2> QED
    BY <1>0, <2>1
<1>4. CASE Deliver
  <2> DEFINE f == rx.slot.frame
             b == [valid |-> TRUE, state |-> f.state, time |-> rx.slot.time,
                   arrived |-> f.arrived, era |-> f.era]
  <2>1. f.joint \in Joints /\ b.time = rx.slot.time /\ b.state = f.state
        /\ b.era = f.era
    BY DEF IInv, TypeInv, Slots, Frames
  <2>2. rx'.slot = NoSlot
        /\ (bank' = bank \/ bank' = [bank EXCEPT ![f.joint] = b])
    BY <1>4 DEF Deliver
  <2>3. NoSlot.time = 0 /\ NoSlot.frame.joint \in Joints
        /\ stamp \in Nat /\ gate.floor \in [Joints -> Nat]
    BY Nothing DEF NoSlot, Slots, Frames, IInv, TypeInv, Gates, Floors
  <2> HIDE DEF b
  <2>4. \A j \in Joints : bank'[j] = bank[j] \/ (j = f.joint /\ bank'[j] = b)
    BY <2>1, <2>2 DEF IInv, TypeInv
  <2>5. \A j \in Joints : SampleFits(j)'
    BY <1>0, <2>1, <2>4
  <2> QED
    BY <1>0, <2>2, <2>3, <2>5
<1> QED
  BY <1>1, <1>2, <1>3, <1>4

\* The bound is moved only when nothing waits in either direction.
LEMMA EvidenceObserve ==
  ASSUME IInv, EvidenceInv, Sample \/ Observe
  PROVE  EvidenceInv'
<1> USE DEF EvidenceInv, SlotFits, SampleFits, BoundFits, Counts, Judged, Fits,
            Quiet, inbox, hardware
<1>0. UNCHANGED <<tx, drive, fifo, slots, rx, bank, gate>>
  BY DEF Sample, Observe
<1>1. /\ stamp \in Nat /\ now \in Nat /\ bound \in Nat
      /\ \A n \in Indices : slots[n].time \in Nat
      /\ rx.slot.time \in Nat
      /\ \A j \in Joints : bank[j].time \in Nat /\ gate.floor[j] \in Nat
  BY DEF IInv, TypeInv, Slots, Samples, Gates, Floors
<1>2. CASE Sample
  <2>1. stamp <= stamp' /\ stamp' \in Nat /\ bound' = bound
    BY <1>2 DEF Sample, IInv, TypeInv, BoundBehind
  <2> QED
    BY <1>0, <1>1, <2>1
<1>3. CASE Observe
  <2>1. /\ stamp' = stamp /\ bound' <= stamp
        /\ bound' = 0 \/ bound' = bound \/ (fifo = <<>> /\ tx = <<>>)
    BY <1>1, <1>3 DEF Observe, Observed, Drained
  <2>2. \A j \in Joints : BoundFits(j)'
    BY <1>0, <1>1, <2>1
  <2> QED
    BY <1>0, <1>1, <2>1, <2>2
<1> QED
  BY <1>2, <1>3

\* What a gate that is judged hands over switches off.
LEMMA HandOverQuiet ==
  ASSUME NEW g \in Gates, tx \in Seq(Commands), HandOver(g)
  PROVE  /\ gate'.no = g.no /\ gate'.kind = g.kind /\ gate'.floor = g.floor
         /\ g.kind # "enable" /\ Quiet => Quiet'
<1>1. \A j, kind : kind # "enable" => Frame(j, kind).state = "off"
  BY DEF Frame, Wanted
<1>2. \A j \in Joints : \A kind : Frame(j, kind) \in Commands
  BY DEF Frame, Wanted, Commands, States
<1>3. CASE g.batch = <<>> \/ ~Due(g)
  BY <1>3 DEF HandOver, Quiet
<1>4. CASE ~(g.batch = <<>> \/ ~Due(g)) /\ g.kind = "lock"
  <2> DEFINE fs == [n \in 1..Len(g.batch) |-> Frame(g.batch[n], g.kind)]
  <2>1. g.batch \in Seq(Joints)
    BY DEF Gates, Batches
  <2>2. fs \in Seq(Commands) /\ \A n \in 1..Len(fs) : fs[n].state = "off"
    BY <1>1, <1>2, <1>4, <2>1
  <2>3. tx' = tx \o fs /\ gate' = [g EXCEPT !.batch = <<>>]
    BY <1>4 DEF HandOver
  <2> HIDE DEF fs
  <2>4. Quiet => Quiet'
    BY <2>2, <2>3 DEF Quiet
  <2> QED
    BY <2>3, <2>4 DEF Gates
<1>5. CASE ~(g.batch = <<>> \/ ~Due(g)) /\ g.kind # "lock"
  <2> DEFINE f == Frame(Head(g.batch), g.kind)
  <2>1. g.batch \in Seq(Joints) /\ g.batch # <<>>
    BY <1>5 DEF Gates, Batches
  <2>2. f \in Commands /\ (g.kind # "enable" => f.state = "off")
    BY <1>1, <1>2, <2>1
  <2>3. tx' = Append(tx, f) /\ gate' = [g EXCEPT !.batch = Tail(@)]
    BY <1>5 DEF HandOver
  <2> HIDE DEF f
  <2>4. g.kind # "enable" /\ Quiet => Quiet'
    BY <2>2, <2>3 DEF Quiet
  <2> QED
    BY <2>3, <2>4 DEF Gates
<1> QED
  BY <1>3, <1>4, <1>5

\* A new gate starts from the present reading: no date counts for it yet.
LEMMA EvidenceBegin ==
  ASSUME IInv, EvidenceInv, NEW kind \in Kinds, Begin(kind)
  PROVE  EvidenceInv'
<1> DEFINE g == [no |-> gate.no + 1, kind |-> kind,
                 floor |-> [j \in Joints |-> Floor(kind, j)],
                 batch |-> [j \in Joints |-> j]]
<1>1. \A j \in Joints : Floor(kind, j) \in Nat
  BY DEF Floor, Later, IInv, TypeInv, Samples, Kinds
<1>2. [j \in Joints |-> j] \in Seq(Joints)
  BY ReceiveAssumption DEF Joints
<1>3. g \in Gates
  BY <1>1, <1>2 DEF Gates, Floors, Batches, IInv, TypeInv
<1>4. HandOver(g)
  BY DEF Begin
<1>5. gate'.kind = kind /\ \A j \in Joints : gate'.floor[j] = Floor(kind, j)
  BY <1>3, <1>4, HandOverQuiet DEF IInv, TypeInv
<1>6. UNCHANGED <<stamp, bound, drive, fifo, slots, rx, bank>>
  BY DEF Begin, Cycle, inbox
<1>7. kind # "enable" => \A j \in Joints : stamp <= Floor(kind, j)
  BY DEF Floor, Later, Kinds, IInv, TypeInv, Samples
<1>8. ASSUME NEW j \in Joints, NEW time \in Nat, time <= stamp
      PROVE  ~Counts(j, time)'
  BY <1>1, <1>5, <1>7, <1>8 DEF Counts, Judged, IInv, TypeInv
<1>9. /\ bound \in Nat
      /\ \A n \in Indices : slots[n].time \in Nat /\ slots[n].frame.joint \in Joints
      /\ rx.slot.time \in Nat /\ rx.slot.frame.joint \in Joints
      /\ \A j \in Joints : bank[j].time \in Nat
  BY DEF IInv, TypeInv, Slots, Frames, Samples
<1> HIDE DEF g
<1> QED
  BY <1>6, <1>8, <1>9 DEF EvidenceInv, SlotFits, SampleFits, BoundFits, Counts, Judged

\* A gate that goes on keeps what counts for it; one that opens waits no more.
LEMMA EvidenceServe ==
  ASSUME IInv, EvidenceInv, Serve
  PROVE  EvidenceInv'
<1> USE DEF EvidenceInv, SlotFits, SampleFits, BoundFits, Counts, Judged
<1>1. UNCHANGED <<stamp, bound, drive, fifo, slots, rx, bank>>
  BY DEF Serve, Cycle, inbox
<1>2. CASE Passes
  <2>1. gate'.kind = "none"
    BY <1>2 DEF Serve, NoGate
  <2> QED
    BY <1>1, <2>1
<1>3. CASE ~Passes
  <2>1. gate \in Gates /\ tx \in Seq(Commands) /\ HandOver(gate)
    BY <1>3 DEF IInv, TypeInv, Serve
  <2>2. /\ gate'.no = gate.no /\ gate'.kind = gate.kind
        /\ gate'.floor = gate.floor
        /\ Judged /\ Quiet => Quiet'
    BY <2>1, HandOverQuiet
  <2> QED
    BY <1>1, <2>2 DEF Fits
<1> QED
  BY <1>2, <1>3

\* What counts for a gate fits it, in every behaviour.
THEOREM EvidenceInvariance == Spec => []EvidenceInv
<1>1. IInv /\ EvidenceInv /\ [Next]_vars => EvidenceInv'
  <2> SUFFICES ASSUME IInv, EvidenceInv, [Next]_vars
               PROVE  EvidenceInv'
    OBVIOUS
  <2>1. CASE Next
    BY <2>1, EvidenceHardware, EvidenceInterrupt, EvidenceCopy, EvidenceObserve,
       EvidenceBegin, EvidenceServe DEF Next
  <2>2. CASE UNCHANGED vars
    BY <2>2 DEF vars, EvidenceInv, SlotFits, SampleFits, BoundFits, Counts,
                Judged, Fits, Quiet, inbox, hardware
  <2> QED
    BY <2>1, <2>2
<1> QED
  BY <1>1, EvidenceInit, ReceiveInvariance, PTL DEF Spec

\* The gate of a local request and that of a latched STOP open only on answers
\* that arrived after the gate began, however long frames waited on the way.
THEOREM GatesOpenAfterwards == Spec => []OpensAfterwards
<1>1. EvidenceInv => OpensAfterwards
  BY DEF EvidenceInv, SampleFits, Counts, Judged, Fits, Passes, OpensAfterwards
<1> QED
  BY <1>1, EvidenceInvariance, PTL

\* When they open, every drive is off and no frame on its way switches one on.
THEOREM OpenGatesAreOff == Spec => []OffIsOff
<1>1. IInv /\ EvidenceInv => OffIsOff
  <2> SUFFICES ASSUME IInv, EvidenceInv, Passes, Judged, NEW j \in Joints
               PROVE  /\ drive[j].state = "off"
                      /\ \A f \in ToSet(tx) : f.joint = j => f.state = "off"
    BY DEF OffIsOff, Judged
  <2>1. Fits(j, bank[j]) /\ bank[j].state = "off"
    BY DEF EvidenceInv, SampleFits, Counts, Passes, Judged, Wanted
  <2>2. tx \in Seq(Commands)
    BY DEF IInv, TypeInv
  <2> QED
    BY <2>1, <2>2 DEF Fits, Quiet, ToSet
<1> QED
  BY <1>1, ReceiveInvariance, EvidenceInvariance, PTL
=============================================================================
