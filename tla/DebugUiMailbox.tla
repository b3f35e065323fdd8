--------------------------- MODULE DebugUiMailbox ---------------------------
(***************************************************************************)
(* Requests of the local user interface: the mailbox                        *)
(* App/DebugUi/debug_ui_mailbox.c that its task shares with ProtocolTask,   *)
(* their admission, the way of their terminals back, and the fallback STOP  *)
(* of aethor_app.c, which bypasses the channels when a STOP finds no room.  *)
(*                                                                          *)
(* Host requests share the channels of ProtocolEngine and the executor of   *)
(* CommandLifecycle, whose operators are used here.  Every operation on the *)
(* mailbox is one critical section and one call of aethor_app_service runs  *)
(* undisturbed by the other two tasks, so each is one step.  What a command *)
(* does is how it ends (OneShotAction has its phases); what the drives      *)
(* answer is whether they confirm that they are off.                        *)
(***************************************************************************)
EXTENDS ProtocolEngine, FiniteSets

CONSTANTS
  Motors,            \* motors a request can select
  DeferredCapacity,  \* AETHOR_APP_DEFERRED_RESULT_CAPACITY
  Slots,             \* DEBUG_UI_RESULT_CAPACITY
  MaxUi,             \* bound: requests of the user interface
  MaxUsb             \* bound: commands of the host

\* A queued local command and a waiting STOP may be cancelled by one call, and
\* both terminals must find room: the code has four records and four results.
ASSUME MailboxAssumption ==
  /\ {Slots, DeferredCapacity, MaxUi, MaxUsb} \subseteq Nat
  /\ Slots >= 2 /\ DeferredCapacity >= 2

VARIABLES
  app,     \* what the three tasks share: the channels and the executor (sys),
           \* the mailbox (box, intent) and application_debug_ui
  asked,   \* last_request_id
  lines    \* commands of the host so far

vars == <<app, asked, lines>>

L == INSTANCE CommandLifecycle
       WITH sys <- app.sys, pc <- "lines", pending <- NoCommand,
            requests <- <<>>, MaxAge <- 0, MaxRequests <- MaxUi + MaxUsb,
            MaxStops <- MaxUi + MaxUsb, MaxSessions <- 1,
            MaxFaults <- 0, faults <- 0

Local(c) == c.id \in 1..MaxUi

\* box: the transactions of the mailbox; old when its epoch has passed, told and
\* read when the user interface has consumed admission and completion.  owed is
\* history: the STOPs taken over for a motor that was not stopped since.
Init ==
  /\ app = [sys |-> [bench |-> TRUE, cmds |-> <<>>, slot |-> NoCommand,
                     motion |-> 0, stop |-> 0, tomb |-> 0, results |-> <<>>,
                     session |-> 1, action |-> NoCommand, stage |-> "run",
                     age |-> 0, deferred |-> <<>>, ended |-> <<>>],
            box |-> {}, intent |-> {}, authority |-> "remote",
            unconfirmed |-> {}, fallback |-> {}, frames |-> {},
            cleanup |-> FALSE, owed |-> {}]
  /\ asked = 0 /\ lines = 0
-----------------------------------------------------------------------------
(* The task of the user interface.                                         *)

Of(box, stop) == {t \in box : (t.op = "stop") = stop}
Unfinished(box, stop) == {t \in Of(box, stop) : ~t.done}
Full(box) == Cardinality(box) >= Slots

Owes(id, mask) == {[id |-> id, motor |-> m] : m \in mask}

\* The id-free intent.
Latch(x, id, mask) ==
  [x EXCEPT !.intent = @ \cup mask, !.owed = @ \cup Owes(id, mask)]

Reserve(x, id, op, mask, old) ==
  [x EXCEPT !.box = @ \cup {[id |-> id, op |-> op, mask |-> mask, old |-> old,
                             taken |-> FALSE, told |-> FALSE,
                             done |-> FALSE, read |-> FALSE]},
            !.owed = IF op # "stop" THEN @
                     ELSE @ \cup Owes(id, mask \ x.fallback)]

\* debug_ui_mailbox_submit: one unfinished request of each kind, and the last
\* slot for a STOP; a STOP that must wait is latched.  Refusals change nothing.
Submit(op, mask, old) ==
  LET stop == op = "stop"
      busy == Unfinished(app.box, stop) # {}
  IN /\ asked < MaxUi /\ asked' = asked + 1
     /\ IF stop /\ (app.intent # {} \/ busy \/ Full(app.box))
          THEN app' = Latch(app, asked', mask)
          ELSE /\ ~busy /\ ~Full(app.box)
               /\ stop \/ Cardinality(Of(app.box, FALSE)) < Slots - 1
               /\ app' = Reserve(app, asked', op, mask, old)
     /\ UNCHANGED lines

\* A record is released when both its results were consumed.
Consumed(t, u) ==
  app' = [app EXCEPT !.box = (@ \ {t}) \cup
                               (IF u.told /\ u.read THEN {} ELSE {u})]

PollAdmission ==
  /\ \E t \in app.box : /\ t.taken /\ ~t.told
                        /\ Consumed(t, [t EXCEPT !.told = TRUE])
  /\ UNCHANGED <<asked, lines>>

PollCompletion ==
  /\ \E t \in app.box : /\ t.done /\ ~t.read
                        /\ Consumed(t, [t EXCEPT !.read = TRUE])
  /\ UNCHANGED <<asked, lines>>
-----------------------------------------------------------------------------
(* Ownership.                                                              *)

\* aethor_app_debug_ui_revoke: the epoch advances; it does not matter to a STOP.
Revoke(x, authority) ==
  [x EXCEPT !.authority = authority,
            !.box = {[t EXCEPT !.old = t.op # "stop"] : t \in @}]

Fault(x) == IF x.authority = "fault" THEN x ELSE Revoke(x, "fault")

\* aethor_app_debug_ui_lock_targets
Lock(x, mask) == [x EXCEPT !.unconfirmed = @ \cup mask]

\* Variant: a command that still waits does not count.
ExecutorBusy_QueueForgotten(x) ==
  \/ ~L!Idle(x.sys) \/ StopPending(x.sys)
  \/ x.sys.motion # 0 \/ x.sys.stop # 0 \/ x.sys.deferred # <<>>
  \/ x.fallback # {} \/ x.intent # {}

\* aethor_app_debug_ui_executor_busy
ExecutorBusy(x) ==
  \/ ~L!Idle(x.sys) \/ x.sys.cmds # <<>> \/ StopPending(x.sys)
  \/ x.sys.motion # 0 \/ x.sys.stop # 0 \/ x.sys.deferred # <<>>
  \/ x.fallback # {} \/ x.intent # {}

Done(x, ids) ==
  [x EXCEPT !.box = {[t EXCEPT !.done = @ \/ t.id \in ids] : t \in @}]
-----------------------------------------------------------------------------
(* ProtocolTask.                                                           *)

\* aethor_app_debug_ui_route_results: the local results at the head of the ring
\* whose transaction is still open ...
Routed(x) ==
  {n \in DOMAIN x.sys.results : \A k \in 1..n :
     /\ Local(x.sys.results[k])
     /\ \E t \in x.box : t.id = x.sys.results[k].id /\ ~t.done}

\* ... become completions; a failure revokes the authority.
Complete(x, rs) ==
  LET y == Done(x, {rs[k].id : k \in DOMAIN rs})
  IN IF \E k \in DOMAIN rs : rs[k].code = "FAILED" THEN Fault(y) ELSE y

Route ==
  /\ \E n \in Routed(app) :
       /\ n + 1 \notin Routed(app)
       /\ app' = [Complete(app, SubSeq(app.sys.results, 1, n))
                    EXCEPT !.sys.results = SubSeq(@, n + 1, Len(@))]
  /\ UNCHANGED <<asked, lines>>

\* aethor_app_pop_protocol_result_output
PopHostResult ==
  /\ app.sys.results # <<>> /\ ~Local(Head(app.sys.results))
  /\ app' = [app EXCEPT !.sys = PopResult(@)]
  /\ UNCHANGED <<asked, lines>>

Command(t) == [id |-> t.id, kind |-> IF t.op = "stop" THEN "stop" ELSE "oneshot",
               mask |-> t.mask, session |-> 0]

Take(x, t) ==
  [x EXCEPT !.box = (@ \ {t}) \cup {[t EXCEPT !.taken = TRUE]}]
Enqueue(x, c) == [x EXCEPT !.sys = Publish(Claim(@, c), c)]

Waiting(x, stop) == {t \in Of(x.box, stop) : ~t.taken}

\* The first pass of aethor_app_debug_ui_process: a STOP is always admitted, once
\* the slot is free.
TakeStop(x) ==
  IF StopPending(x.sys) \/ Waiting(x, TRUE) = {} THEN x
  ELSE LET t == CHOOSE u \in Waiting(x, TRUE) : TRUE
       IN Enqueue(Take(x, t), Command(t))

\* aethor_app_debug_ui_admit_request
Admissible(x, t) ==
  /\ ~t.old /\ ~ExecutorBusy(x)
  /\ IF t.op = "move" THEN x.authority = "armed" ELSE Cardinality(x.box) = 1

Grant(x, authority) == [Revoke(x, authority) EXCEPT !.unconfirmed = {}]

Admitted(x, t) ==
  CASE t.op = "acquire" -> Done(Grant(x, "armed"), {t.id})
    [] t.op = "release" -> Done(Grant(x, "remote"), {t.id})
    [] t.op = "move" -> Enqueue([x EXCEPT !.authority = "busy"], Command(t))

\* The second pass.  A request may also be refused: it is stale, the user
\* interface is unhealthy, or the drives' feedback does not permit it.
TakeOrdinary(x) ==
  IF Waiting(x, FALSE) = {} THEN {x}
  ELSE LET t == CHOOSE u \in Waiting(x, FALSE) : TRUE
           y == Take(x, t)
       IN {Done(y, {t.id})} \cup
            (IF Admissible(y, t) THEN {Admitted(y, t)} ELSE {})

Rearmed(x) ==
  IF x.authority = "busy" /\ ~ExecutorBusy(x) /\ x.box = {}
    THEN [x EXCEPT !.authority = "armed"] ELSE x

Process ==
  /\ app' \in TakeOrdinary(TakeStop(Rearmed(app)))
  /\ UNCHANGED <<asked, lines>>

\* A line of the host; local_control_locked lets only STOPs through.
Line(kind, m) ==
  LET c == [id |-> MaxUi + lines + 1, kind |-> kind, mask |-> {m}, session |-> 1]
  IN /\ lines < MaxUsb /\ lines' = lines + 1
     /\ kind = "stop" \/ app.authority = "remote"
     /\ Admits(app.sys, c)
     /\ app' = Enqueue(app, c)
     /\ UNCHANGED asked
-----------------------------------------------------------------------------
(* ArmControlTask: one call of aethor_app_service.                         *)

\* aethor_app_complete_action: a local failure revokes the authority, and locks
\* the motors unless all of them confirmed that they are off.
End(x, code) ==
  LET a == x.sys.action
      y == [x EXCEPT !.sys = L!Complete(@, code), !.cleanup = FALSE]
  IN IF ~L!CanStore(x.sys) THEN {x}
     ELSE IF code = "FAILED" /\ (Local(a) \/ x.cleanup)
       THEN {Fault(y), Fault(Lock(y, a.mask))}
     ELSE {y}

\* aethor_app_debug_ui_service_health: the lock is lifted by the drives; a user
\* interface that is not healthy loses the arm.
Health(x) ==
  LET seen == {x} \cup (IF x.unconfirmed = {} \/ ExecutorBusy(x) THEN {}
                        ELSE {[x EXCEPT !.unconfirmed = {}]})
  IN seen \cup {Fault(y) : y \in {z \in seen : z.authority # "remote"}}

\* aethor_app_apply_transport_fault
GlobalCancel(x) ==
  LET widened == [x EXCEPT !.sys = WidenPendingStop(@, @.action.mask
                                                        \cup x.unconfirmed)]
      ended == IF L!Idle(x.sys) THEN {widened} ELSE End(widened, "FAILED")
  IN {[y EXCEPT !.sys = CancelPendingNormal(L!FailQueuedMotion(@))] : y \in ended}

StopMask(x) == x.sys.slot.mask \cup UNION {t.mask : t \in Unfinished(x.box, TRUE)}

\* aethor_app_debug_ui_service_stop_intent takes latched STOPs, those that wait
\* without room for their terminals, and during the fallback those beyond it.
Wanted(x) ==
  x.intent \cup (IF x.fallback # {} THEN StopMask(x) \ x.fallback
                 ELSE IF ~L!DeferredRoom(x.sys) THEN StopMask(x) ELSE {})

Stopped(x, mask) == [x EXCEPT !.owed = {o \in @ : o.motor \notin mask}]

Waiters(x) == {x.sys.cmds[n] : n \in DOMAIN x.sys.cmds}

\* Variant: STOPs that still wait are left out.
Scope_WaitingLeftOut(x) ==
  x.fallback \cup x.intent \cup x.unconfirmed \cup x.sys.action.mask
    \cup UNION {c.mask : c \in Waiters(x)}

\* All that runs, waits or is not confirmed yet falls under the new frames.
Scope(x) ==
  x.fallback \cup Wanted(x) \cup StopMask(x) \cup x.unconfirmed
    \cup x.sys.action.mask \cup UNION {c.mask : c \in Waiters(x)}

StopIntent(x) ==
  LET mask == Scope(x)
  IN IF Wanted(x) = {} THEN x
     ELSE Stopped(Fault(Lock([x EXCEPT !.intent = {}, !.fallback = mask,
                                       !.frames = mask], mask)), mask)

\* Variant: the commands are discarded like after a global fault.
CancelNext_Silent(s) == [CancelPendingNormal(s) EXCEPT !.slot = NoCommand]

\* protocol_engine_pop_command and its terminal, while there is room for one.
CancelNext(s) ==
  LET t == SkipTombstone(s)
  IN IF ~L!DeferredRoom(s) THEN s
     ELSE IF StopPending(s)
       THEN L!Store(PopStop(s), L!Result(s.slot, "CANCELLED"))
     ELSE IF t.cmds = <<>> THEN t
     ELSE L!Store(PopCommand(t), L!Result(Head(t.cmds), "CANCELLED"))

CancelAll(s) ==
  LET after[n \in 0..CommandCapacity + 1] ==
        IF n = 0 THEN s ELSE CancelNext(after[n - 1])
  IN after[CommandCapacity + 1]

\* The rest of it: while the fallback lasts nothing else is serviced; it ends
\* when everything is cancelled and sent, and confirmed or overdue.
Fallback(x) ==
  LET ended == IF L!Idle(x.sys) \/ ~L!DeferredRoom(x.sys) THEN {x}
               ELSE End(x, "CANCELLED")
      after == {[y EXCEPT !.sys = CancelAll(@)] : y \in ended}
      over == {y \in after : /\ L!Idle(y.sys) /\ y.sys.cmds = <<>>
                             /\ ~StopPending(y.sys) /\ y.frames = {}}
  IN after \cup {[y EXCEPT !.fallback = {}] : y \in over}

StartStop(x, c, cleanup) ==
  Stopped([x EXCEPT !.sys = L!Activate(@, c), !.cleanup = cleanup], c.mask)

\* A STOP pre-empts the action: it inherits its scope and what is unconfirmed.
Preempt(x) ==
  LET a == x.sys.action
      stop == [x.sys.slot EXCEPT !.mask = @ \cup a.mask \cup x.unconfirmed]
      cleanup == Local(a) \/ x.cleanup \/ x.unconfirmed # {}
  IN {StartStop(y, stop, cleanup) :
        y \in End([x EXCEPT !.sys = PopStop(@)], "CANCELLED")}

\* A STOP behind a STOP waits, but widens it.
ServiceAction(x) ==
  LET a == x.sys.action
      behind == a.kind = "stop" /\ StopPending(x.sys)
      y == IF behind THEN [x EXCEPT !.sys = WidenPendingStop(@, a.mask)] ELSE x
      scope == y.sys.slot.mask
  IN IF behind /\ scope # a.mask
       THEN {StartStop(y, [a EXCEPT !.mask = scope], x.cleanup)}
       ELSE {y} \cup UNION {End(y, code) : code \in L!Outcomes(a)}

\* A STOP found while idle cancels the queued motion.
StopWhileIdle(x) ==
  LET s == PopStop(x.sys)
      c == QueuedMotion(s)
      stop == [x.sys.slot EXCEPT !.mask = @ \cup x.unconfirmed]
      dirty == x.unconfirmed # {}
  IN IF ~CanTakeQueuedMotion(s)
       THEN StartStop([x EXCEPT !.sys = s], stop, dirty)
       ELSE StartStop([x EXCEPT !.sys = L!Store(TakeQueuedMotion(s),
                                                L!Result(c, "CANCELLED"))],
                      [stop EXCEPT !.mask = @ \cup c.mask], dirty \/ Local(c))

\* aethor_app_debug_ui_validate_start: a local command is judged again when it
\* starts, by its epoch and the authority of now.
Current(x, c) ==
  \/ ~Local(c)
  \/ /\ x.authority \in {"armed", "busy"}
     /\ \E t \in x.box : t.id = c.id /\ ~t.old

\* An ordinary command becomes the action, or ends at once.
StartCommand(x) ==
  LET s == SkipTombstone(x.sys)
      c == Head(s.cmds)
      y == PopCommand(s)
      refused == L!Store(y, L!Result(c, "FAILED"))
  IN IF s.cmds = <<>> THEN {[x EXCEPT !.sys = s]}
     ELSE {[x EXCEPT !.sys = z] :
             z \in IF Current(x, c) THEN L!Start(y, c) ELSE {refused}}

Execute(x) ==
  LET ready == StopPending(x.sys) /\ L!DeferredRoom(x.sys)
  IN CASE ~L!Idle(x.sys) /\ ready -> Preempt(x)
       [] ~L!Idle(x.sys) /\ ~ready -> ServiceAction(x)
       [] L!Idle(x.sys) /\ ready -> {StopWhileIdle(x)}
       [] L!Idle(x.sys) /\ ~ready ->
            IF x.sys.deferred = <<>> THEN StartCommand(x) ELSE {x}

Called == Health([app EXCEPT !.sys = L!Flush(@)])
Forget(x) == [x EXCEPT !.sys.ended = <<>>]

TransportFault ==
  /\ \E x \in Called : \E y \in GlobalCancel(x) : app' = Forget(y)
  /\ UNCHANGED <<asked, lines>>

Service ==
  /\ \E x \in Called :
       LET y == StopIntent(x)
       IN \E z \in IF y.fallback # {} THEN Fallback(y) ELSE Execute(y) :
            app' = Forget(z)
  /\ UNCHANGED <<asked, lines>>

\* aethor_app_pop_emergency_frame hands the frames of the fallback over.
SendFrame ==
  /\ \E m \in app.frames : app' = [app EXCEPT !.frames = @ \ {m}]
  /\ UNCHANGED <<asked, lines>>
-----------------------------------------------------------------------------
Next ==
  \/ \E m \in Motors : Submit("stop", {m}, FALSE)
  \/ \E m \in Motors, old \in BOOLEAN : Submit("move", {m}, old)
  \/ \E op \in {"acquire", "release"}, old \in BOOLEAN : Submit(op, {}, old)
  \/ PollAdmission \/ PollCompletion
  \/ Route \/ PopHostResult \/ Process
  \/ \E kind \in {"plain", "oneshot", "stop"}, m \in Motors : Line(kind, m)
  \/ TransportFault \/ Service \/ SendFrame

\* The tick of ArmControlTask never stops, and ProtocolTask and the frame pump
\* run in every period.  The user interface may stall and never poll.
Spec == /\ Init /\ [][Next]_vars
        /\ WF_vars(Service) /\ WF_vars(SendFrame)
        /\ WF_vars(Route \/ PopHostResult) /\ WF_vars(Process)
-----------------------------------------------------------------------------
\* Where a local request or its terminal is, between admission and completion.
Holders(id) ==
  LET s == app.sys
      queued == {n \in DOMAIN s.cmds : s.cmds[n].id = id /\ s.tomb # id}
      ended(q) == {n \in DOMAIN q : q[n].id = id}
  IN Cardinality(queued) + Cardinality({c \in {s.slot} : c.id = id})
       + Cardinality({c \in {s.action} : c.id = id})
       + Cardinality(ended(s.deferred)) + Cardinality(ended(s.results))

\* An admitted request of the user interface is in exactly one place until its
\* completion is stored, and nowhere afterwards: no pre-emption, fallback, global
\* fault or full store loses its terminal or doubles it, so none is left without
\* its reserved record (debug_ui_mailbox_complete fails instead, and would block
\* the ring of results for good).
HeldOnce ==
  \A id \in 1..MaxUi :
    Holders(id) = IF \E t \in app.box : t.id = id /\ t.taken /\ ~t.done
                  THEN 1 ELSE 0

\* A STOP that was accepted or latched is not dropped: until its motor has been
\* stopped it is in the intent, or its transaction is open (debug_ui_mailbox.c:
\* an id-free intent beside the records; the fallback widens before it cancels).
StopKept ==
  \A o \in app.owed :
    o.motor \in app.intent \/ \E t \in app.box : t.id = o.id /\ ~t.done

\* The arm has one owner: no ordinary command of the host waits or runs together
\* with one of the user interface, whatever is acquired, released, revoked and
\* rearmed around them (executor_busy at admission, local_control_locked for the
\* host, and an authority that is given back only when nothing is left).
OneOwner ==
  LET commands == {app.sys.action} \cup
                    {app.sys.cmds[n] : n \in DOMAIN app.sys.cmds}
      ordinary == {c \in commands \ {NoCommand} : c.kind # "stop"}
  IN \A c, d \in ordinary : Local(c) = Local(d)

\* Every STOP stops its motor in the end and every request gets its completion,
\* though the user interface never polls and results find no room.
StopsAndAnswers ==
  []<>(app.owed = {} /\ \A t \in app.box : t.done)
=============================================================================
