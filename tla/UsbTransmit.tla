---------------------------- MODULE UsbTransmit ----------------------------
(***************************************************************************)
(* The transmit half of App/Platform/usb_cdc_stream.c: three bounded rings, *)
(* the frame handed to the CDC controller, and the flag that says it is     *)
(* still there.  Three parties touch them.  UsbTxTask runs                  *)
(* usb_cdc_stream_service_tx with nothing masked; ProtocolTask, which has   *)
(* the higher priority, queues frames inside a critical section; the USB    *)
(* interrupt completes a transfer, and resets the controller when the host  *)
(* goes away.  So service_tx is one memory access per step here, and the    *)
(* other two are one step each.                                             *)
(*                                                                          *)
(* A frame is its number; a frame being copied is two halves, because the   *)
(* 520-byte copy is not atomic.                                             *)
(***************************************************************************)
EXTENDS Naturals, SequencesExt

CONSTANTS
  Capacity,        \* slots of each ring: USB_CDC_STREAM_*_CAPACITY
  MaxFrames,       \* bound: frames queued
  MaxPreemptions,  \* bound: steps of others inside a call of service_tx
  MaxResets        \* bound: controller resets

Rings == {"high", "query", "telemetry"}
Lossless == {"high", "query"}

ASSUME RingAssumption == Capacity \in [Rings -> Nat \ {0}]

VARIABLES
  ring,      \* [ring -> slot contents, write index, read index, count]
  active,    \* active_message, as its two halves
  inFlight,  \* tx_in_flight
  cdc,       \* the controller: "idle", "busy" or "detached"
  pc,        \* where UsbTxTask is in service_tx
  pick,      \* its local variables: the ring it selected, and a register
  reg,
  queued,    \* history: how many frames were queued
  taken,     \* history: the frames each ring took
  sent,      \* history: what the controller took from each ring, as halves
  preemptions, resets

vars == <<ring, active, inFlight, cdc, pc, pick, reg, queued, taken, sent,
          preemptions, resets>>

Init ==
  /\ ring = [q \in Rings |-> [slot |-> [n \in 0..Capacity[q] - 1 |-> 0],
                              w |-> 0, r |-> 0, n |-> 0]]
  /\ active = <<0, 0>>
  /\ inFlight = FALSE
  /\ cdc = "detached"
  /\ pc = "idle" /\ pick = "high" /\ reg = 0
  /\ queued = 0
  /\ taken = [q \in Rings |-> <<>>] /\ sent = [q \in Rings |-> <<>>]
  /\ preemptions = 0 /\ resets = 0
-----------------------------------------------------------------------------
(* UsbTxTask: usb_cdc_stream_service_tx.                                   *)

After(q, n) == (n + 1) % Capacity[q]
History == UNCHANGED <<queued, taken, preemptions, resets>>
Others == UNCHANGED cdc /\ History

\* The controller takes the frame.
Take == cdc' = "busy" /\ sent' = [sent EXCEPT ![pick] = Append(@, active)]

\* Selecting a ring starts the copy of its oldest frame.
Select(q) ==
  /\ pc = "idle"
  /\ ring[q].n > 0
  /\ q = "query" => ring["high"].n = 0
  /\ q = "telemetry" => ring["high"].n = 0 /\ ring["query"].n = 0
  /\ pick' = q /\ reg' = ring[q].r
  /\ active' = [active EXCEPT ![1] = ring[q].slot[ring[q].r]]
  /\ pc' = "copy"
  /\ UNCHANGED <<ring, inFlight, sent>> /\ Others

\* Variant: the flag is not tested.
Pick_FlagIgnored(q) == Select(q)

\* The first non-empty ring in order of priority, if no frame is in flight.
Pick(q) == ~inFlight /\ Select(q)

Copy ==
  /\ pc = "copy"
  /\ active' = [active EXCEPT ![2] = ring[pick].slot[reg]]
  /\ pc' = "send"
  /\ UNCHANGED <<ring, inFlight, pick, reg, sent>> /\ Others

\* Variant: a refused frame is taken from its ring all the same.
Transmit_RefusedDropped ==
  /\ pc = "send"
  /\ pc' = "flag"
  /\ IF cdc = "idle" THEN Take ELSE UNCHANGED <<cdc, sent>>
  /\ UNCHANGED <<ring, active, inFlight, pick, reg>> /\ History

\* CDC_Transmit_HS takes the frame, or is busy or without a host; the frame then
\* stays in its ring.
Transmit ==
  /\ pc = "send"
  /\ IF cdc = "idle"
       THEN Take /\ pc' = "flag"
       ELSE pc' = "idle" /\ UNCHANGED <<cdc, sent>>
  /\ UNCHANGED <<ring, active, inFlight, pick, reg>> /\ History

Flag ==
  /\ pc = "flag"
  /\ inFlight' = TRUE
  /\ pc' = "advance"
  /\ UNCHANGED <<ring, active, pick, reg, sent>> /\ Others

\* read_index = (read_index + 1) % capacity and --count, each a load and a store.
Load(from, to, value) ==
  /\ pc = from /\ pc' = to
  /\ reg' = value
  /\ UNCHANGED <<ring, active, inFlight, pick, sent>> /\ Others

Stored(from, to, value) ==
  /\ pc = from /\ pc' = to
  /\ ring' = value
  /\ UNCHANGED <<active, inFlight, pick, reg, sent>> /\ Others

\* Variant: the count of the ring stays where it is.
Pop_CountKept ==
  \/ Load("advance", "advanced", ring[pick].r)
  \/ Stored("advanced", "count", [ring EXCEPT ![pick].r = After(pick, reg)])
  \/ Load("count", "counted", ring[pick].n)
  \/ Stored("counted", "idle", ring)

\* Variant: the read index stays where it is.
Pop_IndexKept ==
  \/ Load("advance", "advanced", ring[pick].r)
  \/ Stored("advanced", "count", ring)
  \/ Load("count", "counted", ring[pick].n)
  \/ Stored("counted", "idle", [ring EXCEPT ![pick].n = reg - 1])

Pop ==
  \/ Load("advance", "advanced", ring[pick].r)
  \/ Stored("advanced", "count", [ring EXCEPT ![pick].r = After(pick, reg)])
  \/ Load("count", "counted", ring[pick].n)
  \/ Stored("counted", "idle", [ring EXCEPT ![pick].n = reg - 1])

Service == (\E q \in Rings : Pick(q)) \/ Copy \/ Transmit \/ Flag \/ Pop
-----------------------------------------------------------------------------
(* ProtocolTask and the interrupt, between two calls or inside one.        *)

Preempts ==
  /\ pc # "idle" => preemptions < MaxPreemptions
  /\ preemptions' = preemptions + (IF pc = "idle" THEN 0 ELSE 1)
  /\ UNCHANGED <<pc, pick, reg, sent>>

Full(q) == ring[q].n >= Capacity[q]
Put(q, x, f) == [x EXCEPT !.slot[x.w] = f, !.w = After(q, @), !.n = @ + 1]
Evict(q, x) == [x EXCEPT !.r = After(q, @), !.n = @ - 1]

\* usb_cdc_stream_queue_fifo refuses when full; _queue_telemetry makes room.
Queue(q) ==
  /\ Preempts
  /\ queued < MaxFrames /\ queued' = queued + 1
  /\ IF Full(q) /\ q \in Lossless THEN UNCHANGED <<ring, taken>>
     ELSE /\ taken' = [taken EXCEPT ![q] = Append(@, queued + 1)]
          /\ ring' = [ring EXCEPT ![q] =
                        Put(q, IF Full(q) THEN Evict(q, @) ELSE @, queued + 1)]
  /\ UNCHANGED <<active, inFlight, cdc, resets>>

\* The host has read the frame: the controller is idle before the callback
\* usb_cdc_stream_on_tx_complete_isr.
Complete ==
  /\ Preempts
  /\ cdc = "busy"
  /\ cdc' = "idle" /\ inFlight' = FALSE
  /\ UNCHANGED <<ring, active, queued, taken, resets>>

\* Cable pulled, or bus reset: the class is torn down with the transfer, and no
\* completion follows.  A host that comes back initialises it again.
Detach ==
  /\ Preempts
  /\ cdc # "detached" /\ resets < MaxResets
  /\ cdc' = "detached" /\ resets' = resets + 1
  /\ UNCHANGED <<ring, active, inFlight, queued, taken>>

Attach ==
  /\ Preempts
  /\ cdc = "detached"
  /\ cdc' = "idle"
  /\ UNCHANGED <<ring, active, inFlight, queued, taken, resets>>

Next ==
  \/ Service
  \/ (\E q \in Rings : Queue(q))
  \/ Complete \/ Detach \/ Attach

\* UsbTxTask runs every millisecond; a host that is there reads, and one that
\* left comes back, whenever service_tx lets the bounded interruptions in.
Spec == /\ Init /\ [][Next]_vars
        /\ WF_vars(Service)
        /\ WF_vars(Complete) /\ SF_vars(Attach)
-----------------------------------------------------------------------------
(* Properties.                                                             *)

Frames == 1..MaxFrames
Pending(q) == [k \in 1..ring[q].n |->
                 ring[q].slot[(ring[q].r + k - 1) % Capacity[q]]]
Whole(s) == [k \in DOMAIN s |-> <<s[k], s[k]>>]

\* The buffer the controller is reading is not written, whoever interrupts
\* service_tx wherever: the host never gets a frame that changes under it.
BufferHeld == [][cdc = "busy" /\ cdc' = "busy" => active' = active]_vars

\* Unless somebody interrupted service_tx (the ring counts are read, changed and
\* written without a lock), nothing of the lossless rings is lost, repeated or
\* out of order, and no frame is sent half of one and half of another: between two
\* calls what was sent and what is pending is what was taken, controller resets or
\* not.
NothingLost ==
  pc = "idle" /\ preemptions = 0 =>
    \A q \in Lossless : sent[q] \o Whole(Pending(q)) = Whole(taken[q])

\* Then telemetry gives up old frames and only old ones: the newest are pending.
NewestTelemetry ==
  pc = "idle" /\ preemptions = 0 =>
    IsSuffix(Pending("telemetry"), taken["telemetry"])

\* What the rings keep in calls nobody interrupts: the lossless ones everything,
\* the telemetry ring the newest frames.
RingsKeep == NothingLost /\ NewestTelemetry

\* The count of a lossless ring is changed by two tasks without a lock: an
\* increment that comes between the load and the store of service_tx is lost.
\* However service_tx is interrupted, between two calls the count claims no frame
\* that was sent already or never taken, and it misses at most one frame for each
\* interruption.
CountsAreClose ==
  pc = "idle" =>
    \A q \in Lossless :
      LET counted == ring[q].n + Len(sent[q])
      IN counted <= Len(taken[q]) /\ Len(taken[q]) <= counted + preemptions

\* Every frame a lossless ring took is handed to the controller in the end,
\* unless service_tx is interrupted or the controller is reset (a reset may leave
\* tx_in_flight set for ever).
AllSent ==
  \A q \in Lossless, f \in Frames :
    f \in ToSet(taken[q])
      ~> <<f, f>> \in ToSet(sent[q]) \/ preemptions > 0 \/ resets > 0
=============================================================================
