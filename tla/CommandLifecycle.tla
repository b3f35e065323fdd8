-------------------------- MODULE CommandLifecycle --------------------------
(***************************************************************************)
(* The life of a request between ProtocolTask, which admits lines and       *)
(* reports terminals, and ArmControlTask, whose 4 ms service                *)
(* (aethor_app_service of App/aethor_app.c) executes, pre-empts, times out  *)
(* and globally cancels them, over the channels of ProtocolEngine.          *)
(*                                                                          *)
(* ArmControlTask has the higher priority: one service call is one step,    *)
(* and it may fall between any two steps of ProtocolTask, in particular     *)
(* between the moment a gate is written and the moment the command becomes  *)
(* visible.  What the motors do is the choice of how long an action lasts   *)
(* and how it ends.                                                         *)
(***************************************************************************)
EXTENDS ProtocolEngine, SequencesExt

CONSTANTS
  Motors,            \* motors a command can select
  DeferredCapacity,  \* AETHOR_APP_DEFERRED_RESULT_CAPACITY
  MaxAge,            \* service calls before the deadline of an action
  MaxRequests,       \* bound: lines that carry a command
  MaxStops,          \* bound: those of them that are STOPs
  MaxSessions,       \* bound: sessions
  MaxFaults          \* bound: transport faults, runtime faults, watchdogs

ASSUME DeferredAssumption == DeferredCapacity \in Nat \ {0}

VARIABLES
  sys,       \* the channels; the executor's action, stage, age and deferred
             \* results; ended, the history of retained terminals
  pc,        \* where ProtocolTask is: "drain", "lines" or "publish"
  pending,   \* the command it is publishing
  requests,  \* the requests so far: kind, and what the host was told of them
  faults     \* faults so far

vars == <<sys, pc, pending, requests, faults>>

Ids == 1..MaxRequests
Codes == {"COMPLETED", "STOPPED", "CANCELLED", "FAILED"}

Init ==
  /\ \E profile \in Profiles :
       sys = [bench |-> profile, cmds |-> <<>>, slot |-> NoCommand,
              motion |-> 0, stop |-> 0, tomb |-> 0,
              results |-> <<>>, session |-> 1,
              action |-> NoCommand, stage |-> "run", age |-> 0,
              deferred |-> <<>>, ended |-> <<>>]
  /\ pc = "drain"
  /\ pending = NoCommand
  /\ requests = <<>>
  /\ faults = 0
-----------------------------------------------------------------------------
(* Terminals.                                                              *)

Idle(s) == s.action = NoCommand
DeferredRoom(s) == Len(s.deferred) < DeferredCapacity
Result(c, code) ==
  [id |-> c.id, kind |-> c.kind, code |-> code, session |-> c.session]

CanStore(s) == DeferredRoom(s) \/ (s.deferred = <<>> /\ ResultRoom(s))

\* aethor_app_submit_or_defer_result: a terminal goes to the result ring only
\* when no older one is deferred; with no room anywhere it is lost.
Store(s, r) ==
  IF ~CanStore(s) THEN s
  ELSE LET t == [s EXCEPT !.ended = Append(@, r)]
       IN IF s.deferred = <<>> /\ ResultRoom(s) THEN SubmitResult(t, r)
          ELSE [t EXCEPT !.deferred = Append(@, r)]

\* Variant: a flushed result also stays deferred.
Flush_NotConsumed(s) ==
  LET room == ResultCapacity - Len(s.results)
      n == IF Len(s.deferred) < room THEN Len(s.deferred) ELSE room
  IN SubmitResults(s, SubSeq(s.deferred, 1, n))

\* aethor_app_flush_deferred_results
Flush(s) ==
  LET room == ResultCapacity - Len(s.results)
      n == IF Len(s.deferred) < room THEN Len(s.deferred) ELSE room
  IN SubmitResults([s EXCEPT !.deferred = SubSeq(@, n + 1, Len(@))],
                   SubSeq(s.deferred, 1, n))

Activate(s, c) ==
  [s EXCEPT !.action = c, !.stage = "run", !.age = 0]

\* Variant: the action is cleared although its terminal found no room.
Complete_Unstored(s, code) ==
  Activate(Store(s, Result(s.action, code)), NoCommand)

\* aethor_app_complete_action: the action is cleared only once storage owns its
\* terminal; otherwise it stays and is serviced again.
Complete(s, code) ==
  IF CanStore(s)
    THEN Activate(Store(s, Result(s.action, code)), NoCommand) ELSE s

\* aethor_app_fail_queued_motion
FailQueuedMotion(s) ==
  IF ~CanTakeQueuedMotion(s) THEN s
  ELSE LET c == QueuedMotion(s)
       IN Store(WidenPendingStop(TakeQueuedMotion(s), c.mask),
                Result(c, "FAILED"))

\* Variant: the action is dropped without a terminal.
GlobalCancel_Dropped(s, code) ==
  CancelPendingNormal(FailQueuedMotion(
    Activate(WidenPendingStop(s, s.action.mask), NoCommand)))

\* What a transport fault, a runtime fault and the watchdog share: a pending
\* STOP inherits the scope of the action, the action and the queued motion get
\* terminals, and the other queued commands are discarded.
GlobalCancel(s, code) ==
  LET widened == WidenPendingStop(s, s.action.mask)
      ended == IF Idle(s) THEN widened ELSE Complete(widened, code)
  IN CancelPendingNormal(FailQueuedMotion(ended))
-----------------------------------------------------------------------------
(* ArmControlTask: one call of aethor_app_service.  It first flushes the    *)
(* deferred results; the branches below are tested in this order.           *)

now == Flush(sys)
Keep == UNCHANGED <<pc, pending, requests, faults>>
Fault == faults < MaxFaults /\ faults' = faults + 1
           /\ UNCHANGED <<pc, pending, requests>>

GlobalFault == Fault /\ sys' = GlobalCancel(now, "FAILED")

\* aethor_app_check_one_shot_motor_safety: ends the call, before any STOP.
SafetyTrip ==
  /\ now.action.kind = "oneshot" /\ now.stage = "run"
  /\ \/ sys' = [now EXCEPT !.stage = "cleanup", !.age = 0]
     \/ sys' = Complete(now, "FAILED")
  /\ Keep

\* A one-shot owns the link lifecycle and holds the watchdog off.
LinkTimeout == [id |-> 0, kind |-> "plain", code |-> "STOPPED",
                session |-> sys.session]
Watchdog ==
  /\ now.action.kind # "oneshot"
  /\ Fault
  /\ sys' = Store(GlobalCancel(now, "CANCELLED"), LinkTimeout)

\* aethor_app_start_lifecycle_action: a STOP always becomes the action; another
\* command does, or ends at once.
Start(s, c) ==
  {Activate(s, c)} \cup
  (IF c.kind = "stop" THEN {}
   ELSE {Store(s, Result(c, code)) :
           code \in IF OwnsMotion(c) THEN {"FAILED"}
                    ELSE {"COMPLETED", "FAILED"}})

StopReady == StopPending(now) /\ DeferredRoom(now)

\* Variant: the STOP forgets the scope of the action it cancels.
StopPreempts_ScopeForgotten ==
  /\ ~Idle(now) /\ StopReady
  /\ sys' \in Start(Complete(PopStop(now), "CANCELLED"), now.slot)
  /\ Keep

StopPreempts ==
  /\ ~Idle(now) /\ StopReady
  /\ LET stop == [now.slot EXCEPT !.mask = @ \cup now.action.mask]
     IN sys' \in Start(Complete(PopStop(now), "CANCELLED"), stop)
  /\ Keep

\* No room for the terminal of the running STOP: it takes over the scope of the
\* STOP behind it and is started again.
StopWidens ==
  /\ now.action.kind = "stop" /\ StopPending(now) /\ ~DeferredRoom(now)
  /\ ~(now.slot.mask \subseteq now.action.mask)
  /\ LET widened == WidenPendingStop(now, now.action.mask)
     IN sys' = Activate(widened,
                        [now.action EXCEPT !.mask = widened.slot.mask])
  /\ Keep

Outcomes(c) == IF c.kind = "stop" THEN {"STOPPED", "FAILED"}
               ELSE {"COMPLETED", "FAILED"}

\* Variant: the deadline is moved with every service.
Advance_DeadlineMoves ==
  /\ ~Idle(now) /\ ~StopReady
  /\ \/ sys' = [now EXCEPT !.age = 1 - @]
     \/ \E code \in Outcomes(now.action) : sys' = Complete(now, code)
  /\ Keep

\* aethor_app_service_active_action: before its deadline the action goes on, or
\* ends; a failing one-shot is cleaned up first, and cleanup ends in failure.
Advance ==
  /\ ~Idle(now) /\ ~StopReady
  /\ LET blocked == now.action.kind = "stop" /\ StopPending(now)
         s == IF blocked THEN WidenPendingStop(now, now.action.mask) ELSE now
     IN /\ ~(blocked /\ ~(now.slot.mask \subseteq now.action.mask))
        /\ \/ s.age < MaxAge /\ sys' = [s EXCEPT !.age = @ + 1]
           \/ /\ s.stage = "run"
              /\ \E code \in Outcomes(s.action) : sys' = Complete(s, code)
           \/ s.stage = "cleanup" /\ sys' = Complete(s, "FAILED")
           \/ /\ s.action.kind = "oneshot" /\ s.stage = "run"
              /\ sys' = [s EXCEPT !.stage = "cleanup", !.age = 0]
  /\ Keep

\* A STOP found while idle cancels the motion that is still queued.
StopStarts ==
  /\ Idle(now) /\ StopReady
  /\ LET s == PopStop(now)
     IN sys' \in
          IF ~CanTakeQueuedMotion(s) THEN Start(s, now.slot)
          ELSE LET c == QueuedMotion(s)
               IN Start(Store(TakeQueuedMotion(s), Result(c, "CANCELLED")),
                        [now.slot EXCEPT !.mask = @ \cup c.mask])
  /\ Keep

\* Variant: ordinary commands are popped although a STOP waits.
CommandStarts_BeforeStop ==
  /\ Idle(now) /\ now.deferred = <<>>
  /\ LET s == SkipTombstone(now)
     IN sys' \in IF s.cmds = <<>> THEN {s}
                 ELSE Start(PopCommand(s), Head(s.cmds))
  /\ Keep

\* An ordinary command waits until no terminal is deferred.
CommandStarts ==
  /\ Idle(now) /\ ~StopReady
  /\ LET s == SkipTombstone(now)
     IN sys' \in IF now.deferred # <<>> THEN {now}
                 ELSE IF s.cmds = <<>> THEN {s}
                 ELSE Start(PopCommand(s), Head(s.cmds))
  /\ Keep

Service == \/ SafetyTrip \/ StopPreempts \/ StopWidens \/ Advance
           \/ StopStarts \/ CommandStarts
-----------------------------------------------------------------------------
(* ProtocolTask: drain the results, then process lines.                    *)

SetStatus(id, status) ==
  IF id = 0 THEN requests ELSE [requests EXCEPT ![id].status = status]

Drain ==
  /\ pc = "drain" /\ sys.results # <<>>
  /\ LET r == Head(sys.results)
     IN requests' = SetStatus(r.id, IF Deliverable(sys, r)
                                    THEN "reported" ELSE "dropped")
  /\ sys' = PopResult(sys)
  /\ UNCHANGED <<pc, pending, faults>>

EndDrain ==
  /\ pc = "drain" /\ sys.results = <<>>
  /\ pc' = "lines"
  /\ UNCHANGED <<sys, pending, requests, faults>>

Count(kind) == Len(SelectSeq(requests, LAMBDA q : q.kind = kind))

\* A line that carries a command is refused, or closes its gate.
Line(kind, mask) ==
  /\ pc = "lines" /\ Len(requests) < MaxRequests
  /\ kind = "stop" => Count("stop") < MaxStops
  /\ LET c == [id |-> Len(requests) + 1, kind |-> kind, mask |-> mask,
               session |-> sys.session]
     IN IF Admits(sys, c)
          THEN /\ sys' = Claim(sys, c)
               /\ pc' = "publish" /\ pending' = c
               /\ requests' = Append(requests, [kind |-> kind,
                                                status |-> "accepted"])
          ELSE /\ requests' = Append(requests, [kind |-> kind,
                                                status |-> "refused"])
               /\ UNCHANGED <<sys, pc, pending>>
  /\ UNCHANGED faults

PublishPending ==
  /\ pc = "publish"
  /\ sys' = Publish(sys, pending)
  /\ pc' = "lines" /\ pending' = NoCommand
  /\ UNCHANGED <<requests, faults>>

\* Sessions are torn down or, by hello ui=, only renamed.
Hello ==
  /\ pc = "lines" /\ sys.session < MaxSessions /\ AdmitsHello(sys)
  /\ \/ /\ sys' = Teardown(sys)
        /\ requests' =
             [i \in DOMAIN requests |->
                IF \/ \E n \in DOMAIN sys.results : sys.results[n].id = i
                   \/ \E n \in DOMAIN sys.cmds :
                        /\ sys.cmds[n].id = i
                        /\ ~Tombstoned(sys, sys.cmds[n])
                THEN [requests[i] EXCEPT !.status = "dropped"]
                ELSE requests[i]]
     \/ sys' = RotateSession(sys) /\ UNCHANGED requests
  /\ UNCHANGED <<pc, pending, faults>>

EndPass ==
  /\ pc = "lines"
  /\ pc' = "drain"
  /\ UNCHANGED <<sys, pending, requests, faults>>

Protocol == Drain \/ EndDrain \/ PublishPending \/ EndPass
-----------------------------------------------------------------------------
Next ==
  \/ GlobalFault \/ Watchdog \/ Service
  \/ Protocol \/ Hello
  \/ \E kind \in KindsOf(sys), m \in Motors : Line(kind, {m})

\* The 4 ms tick never stops, and ProtocolTask runs whenever ArmControlTask
\* sleeps.  No fairness for faults, lines and sessions: they need not come.
Spec == Init /\ [][Next]_vars /\ WF_vars(Service) /\ WF_vars(Protocol)
-----------------------------------------------------------------------------
(* Properties.                                                             *)

\* Where an unfinished request can be, and a finished one.
Runnable(i) ==
  \/ i \in {pending.id, sys.slot.id, sys.action.id}
  \/ \E n \in DOMAIN sys.cmds :
       sys.cmds[n].id = i /\ ~Tombstoned(sys, sys.cmds[n])
Holds(rs, i) == \E n \in DOMAIN rs : rs[n].id = i
Ended(i) == Holds(sys.ended, i)
InHand(i) == Runnable(i) \/ Holds(sys.results \o sys.deferred, i)

\* A request whose terminal was retained can never run (again): it is neither
\* active nor about to start, and the queue holds it at most tombstoned.
FinishedIsDead == \A i \in DOMAIN requests : Ended(i) => ~Runnable(i)

\* A closed motion gate always has somebody who will open it: the request can
\* still run, or its terminal still has to pass.  (A gate nobody opens answers
\* every later motion, and every hello, with busy.)
MotionGateBacked ==
  sys.motion # 0 => \/ Runnable(sys.motion)
                    \/ Holds(sys.deferred, sys.motion)
                    \/ ~sys.bench /\ Holds(sys.results, sys.motion)

\* The same for the STOP gate, which blocks every ordinary command.
StopGateBacked ==
  sys.stop # 0 => Runnable(sys.stop) \/ Holds(sys.deferred, sys.stop)

\* No request the host was told is accepted disappears: it can still run or its
\* terminal is on the way.
NoTerminalLost ==
  \A i \in DOMAIN requests : requests[i].status = "accepted" => InHand(i)

\* A global fault discards queued commands without a terminal, and drops no more
\* than that: from the moment the host is told that a request is accepted, nothing
\* but a fault takes it away unanswered, and only while it waits in the ring of
\* ordinary commands; never a STOP, the action, or what is being published.
OnlyFaultsDrop ==
  [][\A i \in DOMAIN requests :
       /\ InHand(i) /\ requests[i].status = "accepted"
       /\ ~InHand(i)' /\ requests'[i].status = "accepted"
       => /\ faults' # faults
          /\ \E n \in DOMAIN sys.cmds : sys.cmds[n].id = i]_vars

\* Terminals are reported in the order in which the actions ended, although two
\* stores hold them: what is still to be reported is the tail of the history.
TerminalOrder == IsSuffix(sys.results \o sys.deferred, sys.ended)

NewlyEnded(c, codes) ==
  /\ c.id # 0 /\ ~Ended(c.id)
  /\ \E n \in DOMAIN sys'.ended :
       sys'.ended[n].id = c.id /\ sys'.ended[n].code \in codes

\* Motors are never dropped from the scope of a STOP: whenever a STOP or a
\* global fault cancels a command while a STOP is pending, that STOP, pending
\* or started, covers every motor of the command.
StopCoversCancelled ==
  [][\A c \in {sys.action} \cup ToSet(sys.cmds) :
       /\ sys.slot # NoCommand
       /\ NewlyEnded(c, {"CANCELLED"}
                          \cup (IF faults' # faults THEN {"FAILED"} ELSE {}))
       => \E stop \in {sys'.slot, sys'.action} :
            stop.id = sys.slot.id /\ c.mask \subseteq stop.mask]_vars

StopBegins == sys'.action.kind = "stop" /\ sys'.action.id # sys.action.id
MotionsSilenced == \A c \in ToSet(sys'.cmds) :
                     c.kind = "oneshot" => Tombstoned(sys', c)

\* A STOP that starts leaves no queued one-shot that could start after it
\* (aethor_app_service takes the queued motion back when the STOP finds nothing
\* active; phase0_test_main.c expects it of every queued STOP).
StopCancelsMotion == [][StopBegins => MotionsSilenced]_vars

\* While an accepted STOP is unfinished, waiting in its slot or running, no
\* ordinary command becomes the action.
StopHoldsOthersBack ==
  [][/\ sys.stop # 0 /\ Runnable(sys.stop) /\ pending.kind # "stop"
     /\ sys'.action.id # sys.action.id
     => sys'.action.kind = "stop" \/ Idle(sys')]_vars

Answered(i) == i \in DOMAIN requests
                 => requests[i].status \in {"reported", "dropped", "refused"}

\* Every accepted STOP is answered with a terminal, whatever faults, timeouts
\* and full stores come in between (a teardown may drop the answer).
StopsAnswered ==
  \A i \in Ids : (i \in DOMAIN requests /\ requests[i].kind = "stop")
                  ~> Answered(i)

\* Every accepted request is answered with a terminal.
AllAnswered == \A i \in Ids : (i \in DOMAIN requests) ~> Answered(i)

-----------------------------------------------------------------------------
(* The contract each request is given.                                     *)

TerminalsOf(i) ==
  {[place |-> n, code |-> sys.ended[n].code] :
     n \in {m \in DOMAIN sys.ended : sys.ended[m].id = i}}

StateOf(i) ==
  IF i \notin DOMAIN requests THEN "none"
  ELSE IF requests[i].status = "accepted" /\ Ended(i) THEN "ended"
  ELSE requests[i].status

Contract == INSTANCE RequestContract
  WITH state <- [i \in Ids |-> StateOf(i)],
       owner <- {i \in DOMAIN requests : requests[i].kind # "plain"},
       terminals <- [i \in Ids |-> TerminalsOf(i)]

\* The two tasks and their stores implement the contract: one terminal for each
\* request, reported once and after it was retained, none for refused requests.
ContractSpec == Contract!Spec
=============================================================================
