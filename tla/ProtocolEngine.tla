--------------------------- MODULE ProtocolEngine ---------------------------
(***************************************************************************)
(* The command and result channels of App/Protocol/protocol_engine.c:       *)
(* the FIFO of ordinary commands, the single priority STOP slot, the two    *)
(* admission gates (active motion, active STOP), the tombstone that cancels *)
(* a one-shot motion while it is still queued, and the FIFO of results.     *)
(*                                                                          *)
(* Each operator takes the channel state e, a record with the fields        *)
(*   bench, cmds, slot, motion, stop, tomb, results, session                *)
(* and returns the state the C function leaves.  The indices of the rings   *)
(* are abstracted to sequences.  Request identifiers are unique, so the     *)
(* (id, origin, epoch) triples of the code are identifiers here; 0 is none. *)
(* Kinds: "plain" owns no gate; "oneshot" is a self-contained bench motion, *)
(* mode or MIT action; "movej" is the arm trajectory; "stop" is STOP.       *)
(***************************************************************************)
EXTENDS Naturals, Sequences

CONSTANTS CommandCapacity,  \* PROTOCOL_ENGINE_COMMAND_CAPACITY
          ResultCapacity,   \* PROTOCOL_ENGINE_RESULT_CAPACITY
          Profiles          \* builds: TRUE for the bench profile

ASSUME CapacityAssumption ==
  CommandCapacity \in Nat \ {0} /\ ResultCapacity \in Nat \ {0}
ASSUME ProfileAssumption == Profiles \subseteq BOOLEAN

Kinds == {"plain", "stop", "oneshot", "movej"}
KindsOf(e) == Kinds \ {IF e.bench THEN "movej" ELSE "oneshot"}

NoCommand == [id |-> 0, kind |-> "plain", mask |-> {}, session |-> 0]

StopPending(e) == e.slot # NoCommand
OwnsMotion(c) == c.kind \in {"oneshot", "movej"}
-----------------------------------------------------------------------------
\* The busy tests of the bench handler, and those of
\* protocol_engine_enqueue_command and protocol_engine_publish_normal_command.
Admits(e, c) ==
  IF c.kind = "stop" THEN ~StopPending(e)
  ELSE /\ e.stop = 0
       /\ e.bench \/ OwnsMotion(c) => e.motion = 0
       /\ Len(e.cmds) < CommandCapacity

\* The gate is written before the command becomes visible ...
Claim(e, c) ==
  IF c.kind = "stop" THEN [e EXCEPT !.stop = c.id]
  ELSE IF OwnsMotion(c) THEN [e EXCEPT !.motion = c.id]
  ELSE e

\* ... by the increment of the write sequence.
Publish(e, c) ==
  IF c.kind = "stop" THEN [e EXCEPT !.slot = c]
                     ELSE [e EXCEPT !.cmds = Append(@, c)]

PopStop(e) == [e EXCEPT !.slot = NoCommand]

\* protocol_engine_widen_pending_stop_mask: the safety scope of what is being
\* cancelled is merged into the STOP that waits in the slot.
WidenPendingStop(e, mask) ==
  IF StopPending(e) THEN [e EXCEPT !.slot.mask = @ \cup mask] ELSE e

Tombstoned(e, c) == c.kind = "oneshot" /\ c.id = e.tomb

\* Variant: the tombstone is not looked at.
SkipTombstone_Ignored(e) == e

\* protocol_engine_pop_command: a tombstoned head is discarded together with
\* the tombstone; at most one entry can be tombstoned.
SkipTombstone(e) ==
  IF e.cmds # <<>> /\ Tombstoned(e, Head(e.cmds))
    THEN [e EXCEPT !.cmds = Tail(@), !.tomb = 0] ELSE e

PopCommand(e) == [e EXCEPT !.cmds = Tail(@)]

\* protocol_engine_take_queued_active_motion: the queued one-shot that holds the
\* motion gate is tombstoned, unless an earlier tombstone is still outstanding.
QueuedMotions(e) ==
  {c \in {e.cmds[n] : n \in DOMAIN e.cmds} :
     c.kind = "oneshot" /\ c.id = e.motion}
CanTakeQueuedMotion(e) == e.motion # 0 /\ e.tomb = 0 /\ QueuedMotions(e) # {}
QueuedMotion(e) == CHOOSE c \in QueuedMotions(e) : TRUE
TakeQueuedMotion(e) == [e EXCEPT !.tomb = e.motion]

\* Variant: the waiting STOP is discarded with the ordinary commands.
CancelPendingNormal_StopToo(e) ==
  [e EXCEPT !.cmds = <<>>, !.tomb = 0, !.slot = NoCommand]

\* protocol_engine_cancel_pending_normal_commands: the STOP slot and the gates
\* are left alone.
CancelPendingNormal(e) == [e EXCEPT !.cmds = <<>>, !.tomb = 0]

ResultRoom(e) == Len(e.results) < ResultCapacity

Opens(rs, kind, id) == \E n \in DOMAIN rs : rs[n].kind = kind /\ rs[n].id = id

\* Variant: a finished STOP leaves its gate closed.
SubmitResults_StopGateKept(e, rs) ==
  [e EXCEPT !.results = @ \o rs,
            !.motion = IF Opens(rs, "oneshot", @) THEN 0 ELSE @]

\* protocol_engine_submit_command_result, called for each result of rs in turn:
\* the terminal of a one-shot or a STOP opens its gate; the gate of a trajectory
\* is opened when the result is popped.
SubmitResults(e, rs) ==
  [e EXCEPT !.results = @ \o rs,
            !.motion = IF Opens(rs, "oneshot", @) THEN 0 ELSE @,
            !.stop = IF Opens(rs, "stop", @) THEN 0 ELSE @]

SubmitResult(e, r) == SubmitResults(e, <<r>>)

\* protocol_engine_pop_result_output: results of another session are consumed
\* without output.
Deliverable(e, r) == r.session = e.session

\* Variant: the gate of a finished trajectory stays closed.
PopResult_GateKept(e) == [e EXCEPT !.results = Tail(@)]

PopResult(e) ==
  LET r == Head(e.results)
  IN [e EXCEPT !.results = Tail(@),
               !.motion = IF /\ Deliverable(e, r)
                             /\ r.kind = "movej" /\ r.id = @ THEN 0 ELSE @]

\* Variant: a session can change while a gate is closed.
AdmitsHello_Always(e) == TRUE

\* protocol_engine_handle_text_hello: refused while a gate is closed.  A plain
\* hello tears the session down; hello ui= only rotates its identity.
AdmitsHello(e) == e.motion = 0 /\ e.stop = 0
Teardown(e) ==
  [e EXCEPT !.cmds = <<>>, !.slot = NoCommand, !.results = <<>>,
            !.tomb = 0, !.session = @ + 1]
RotateSession(e) == [e EXCEPT !.session = @ + 1]
=============================================================================
