---------------------------- MODULE DebugUiProofs ----------------------------
(***************************************************************************)
(* Proofs about the requests of the user interface, for any capacities of   *)
(* the stores, any number of motors, requests and lines: a request that was *)
(* admitted is in exactly one place until its completion is stored, no STOP *)
(* that was taken over is dropped, and the arm has one owner.               *)
(*                                                                          *)
(* Core says where the identifiers are: in the queue (unless tombstoned),   *)
(* the STOP slot, the executor, one of the two stores, or, between two      *)
(* operations of one call, in the hand H of that call.  It is a predicate   *)
(* of the channels s, of H, of the identifiers K of the open transactions   *)
(* and of those that were ever enqueued, I.  One lemma per operation of the *)
(* channels shows what it does to Core; the steps are composed of them.     *)
(***************************************************************************)
EXTENDS DebugUiMailbox, SequenceTheorems, FiniteSetTheorems,
        WellFoundedInduction, TLAPS

Commands == [id : Nat, kind : Kinds \ {"movej"}, mask : SUBSET Motors,
             session : Nat]
Results == [id : Nat, kind : Kinds \ {"movej"},
            code : {"COMPLETED", "STOPPED", "CANCELLED", "FAILED"},
            session : Nat]
Systems ==
  [bench : BOOLEAN, cmds : Seq(Commands), slot : Commands, motion : Nat,
   stop : Nat, tomb : Nat, results : Seq(Results), session : Nat,
   action : Commands, stage : {"run", "cleanup"}, age : Nat,
   deferred : Seq(Results), ended : Seq(Results)]
Transactions ==
  [id : Nat, op : {"stop", "move", "acquire", "release"}, mask : SUBSET Motors,
   old : BOOLEAN, taken : BOOLEAN, told : BOOLEAN, done : BOOLEAN,
   read : BOOLEAN]
Apps ==
  [sys : Systems, box : SUBSET Transactions, intent : SUBSET Motors,
   authority : {"remote", "armed", "busy", "fault"},
   unconfirmed : SUBSET Motors, fallback : SUBSET Motors,
   frames : SUBSET Motors, cleanup : BOOLEAN,
   owed : SUBSET [id : Nat, motor : Motors]]

Ids(q) == {q[n].id : n \in DOMAIN q}
Unique(q) == \A m, n \in DOMAIN q : q[m].id = q[n].id => m = n

\* The places of an identifier; at most one of them holds it.
Queued(s, i) == i \in Ids(s.cmds) /\ i # s.tomb
Somewhere(s, H, i) ==
  \/ i \in H \/ Queued(s, i) \/ i = s.slot.id \/ i = s.action.id
  \/ i \in Ids(s.deferred) \/ i \in Ids(s.results)
Single(s, H) ==
  \A i \in Nat \ {0} :
    /\ i \in H => /\ ~Queued(s, i) /\ i # s.slot.id /\ i # s.action.id
                  /\ i \notin Ids(s.deferred) /\ i \notin Ids(s.results)
    /\ Queued(s, i) => /\ i # s.slot.id /\ i # s.action.id
                       /\ i \notin Ids(s.deferred) /\ i \notin Ids(s.results)
    /\ i = s.slot.id => /\ i # s.action.id /\ i \notin Ids(s.deferred)
                        /\ i \notin Ids(s.results)
    /\ i = s.action.id => i \notin Ids(s.deferred) /\ i \notin Ids(s.results)
    /\ i \in Ids(s.deferred) => i \notin Ids(s.results)

\* Who is where, by kind.
Named(s, H, I) ==
  /\ s.slot = NoCommand \/ (s.slot.kind = "stop" /\ s.slot.id \in I)
  /\ s.action = NoCommand \/ s.action.id \in I
  /\ \A n \in DOMAIN s.cmds :
       /\ s.cmds[n].id \in I /\ s.cmds[n].kind # "stop"
       /\ Local(s.cmds[n]) => s.cmds[n].kind = "oneshot"
  /\ H \subseteq I /\ Ids(s.deferred) \subseteq I /\ Ids(s.results) \subseteq I
  /\ s.tomb # 0 => \E n \in DOMAIN s.cmds :
                     s.cmds[n].id = s.tomb /\ s.cmds[n].kind = "oneshot"

Core(s, H, K, I) ==
  /\ s \in Systems /\ I \subseteq Nat \ {0}
  /\ Len(s.results) <= ResultCapacity
  /\ Named(s, H, I)
  /\ Unique(s.cmds) /\ Unique(s.deferred) /\ Unique(s.results)
  /\ Single(s, H)
  /\ \A i \in 1..MaxUi : i \in K <=> Somewhere(s, H, i)

\* A local command waits alone, with the gate and room for two terminals.
NoLocal(s) == \A n \in DOMAIN s.cmds : Local(s.cmds[n]) => s.cmds[n].id = s.tomb
Lonely(s) ==
  \/ NoLocal(s)
  \/ /\ Len(s.cmds) = 1 /\ s.tomb = 0 /\ s.motion = s.cmds[1].id
     /\ s.action = NoCommand /\ s.deferred = <<>>

\* The ordinary commands that wait or run, and who owns them.
Runs(s) ==
  {c \in {s.action} \cup {s.cmds[n] : n \in DOMAIN s.cmds} :
     c # NoCommand /\ c.kind # "stop"}
Owned(s, authority) ==
  /\ \A c, d \in Runs(s) : Local(c) = Local(d)
  /\ \A c \in Runs(s) : Local(c) => authority # "remote"

\* The transactions: what of them is open, and what was not enqueued yet.
Open(box) == {t.id : t \in {u \in box : u.taken /\ ~u.done}}
Waits(box) == {t.id : t \in {u \in box : ~u.taken}}
Boxed(box, a) ==
  /\ \A t \in box : /\ t.id \in 1..a
                    /\ t.read => t.done
                    /\ t.done \/ t.told => t.taken
  /\ \A t, u \in box : t.id = u.id => t = u
Issued(box, a, l) == ((1..a) \ Waits(box)) \cup ((MaxUi + 1)..(MaxUi + l))

\* Who remembers that a motor is to be stopped.
Remembered(x, o) ==
  \E t \in x.box :
    /\ t.id = o.id /\ ~t.done /\ t.op = "stop" /\ o.motor \in t.mask
    /\ t.taken => x.sys.slot.id = o.id /\ o.motor \in x.sys.slot.mask
Stops(x) ==
  \A o \in x.owed :
    /\ o.motor \in x.intent \/ (o.motor \notin x.fallback /\ Remembered(x, o))

AInv(x, a, l) ==
  /\ x \in Apps /\ a \in 0..MaxUi /\ l \in Nat
  /\ Boxed(x.box, a)
  /\ Core(x.sys, {}, Open(x.box), Issued(x.box, a, l))
  /\ Lonely(x.sys)
  /\ Owned(x.sys, x.authority)
  /\ Stops(x)

IInv == AInv(app, asked, lines)
-----------------------------------------------------------------------------
(* Sequences of commands and results.                                      *)

\* What an appended sequence holds, and what it keeps apart.
LEMMA IdsAppend ==
  ASSUME NEW S, NEW q \in Seq(S), NEW r \in S
  PROVE  /\ Append(q, r) \in Seq(S)
         /\ Ids(Append(q, r)) = Ids(q) \cup {r.id}
         /\ Unique(q) /\ r.id \notin Ids(q) => Unique(Append(q, r))
         /\ Len(Append(q, r)) = Len(q) + 1
<1> DEFINE a == Append(q, r)
<1>1. /\ DOMAIN q = 1..Len(q) /\ Len(q) \in Nat /\ a \in Seq(S)
      /\ DOMAIN a = 1..(Len(q) + 1) /\ Len(a) = Len(q) + 1
      /\ \A n \in 1..Len(q) : a[n] = q[n]
      /\ a[Len(q) + 1] = r
  OBVIOUS
<1> HIDE DEF a
<1>2. Ids(a) = Ids(q) \cup {r.id}
  <2>1. Len(q) + 1 \in 1..(Len(q) + 1) /\ 1..Len(q) \subseteq 1..(Len(q) + 1)
    BY <1>1
  <2>2. \A n \in 1..(Len(q) + 1) : n \in 1..Len(q) \/ n = Len(q) + 1
    BY <1>1
  <2> QED
    BY <1>1, <2>1, <2>2, Zenon DEF Ids
<1>3. ASSUME Unique(q), r.id \notin Ids(q), NEW m \in DOMAIN a, NEW n \in DOMAIN a,
             a[m].id = a[n].id
      PROVE  m = n
  BY <1>1, <1>3 DEF Unique, Ids
<1>4. Unique(q) /\ r.id \notin Ids(q) => Unique(a)
  BY <1>3 DEF Unique
<1> QED
  BY <1>1, <1>2, <1>4 DEF a

\* A sequence cut in two.
LEMMA IdsCut ==
  ASSUME NEW S, NEW q \in Seq(S), NEW n \in 0..Len(q)
  PROVE  /\ SubSeq(q, 1, n) \in Seq(S) /\ SubSeq(q, n + 1, Len(q)) \in Seq(S)
         /\ Ids(q) = Ids(SubSeq(q, 1, n)) \cup Ids(SubSeq(q, n + 1, Len(q)))
         /\ Unique(q) =>
              /\ Unique(SubSeq(q, 1, n)) /\ Unique(SubSeq(q, n + 1, Len(q)))
              /\ \A i \in Ids(SubSeq(q, 1, n)) : i \notin Ids(SubSeq(q, n + 1, Len(q)))
         /\ Len(SubSeq(q, 1, n)) = n /\ Len(SubSeq(q, n + 1, Len(q))) = Len(q) - n
<1> DEFINE a == SubSeq(q, 1, n)
           b == SubSeq(q, n + 1, Len(q))
<1>1. DOMAIN q = 1..Len(q) /\ Len(q) \in Nat /\ n \in Nat /\ n <= Len(q)
  OBVIOUS
<1>2. /\ a \in Seq(S) /\ DOMAIN a = 1..n /\ Len(a) = n
      /\ \A k \in 1..n : a[k] = q[k]
  OBVIOUS
<1>3. /\ b \in Seq(S) /\ DOMAIN b = 1..(Len(q) - n) /\ Len(b) = Len(q) - n
      /\ \A k \in 1..(Len(q) - n) : b[k] = q[n + k]
  OBVIOUS
<1> HIDE DEF a, b
<1>4. ASSUME NEW k \in 1..Len(q)
      PROVE  q[k].id \in Ids(a) \cup Ids(b)
  <2>1. CASE k <= n
    BY <1>1, <1>2, <2>1 DEF Ids
  <2>2. CASE k > n
    <3> DEFINE m == k - n
    <3>1. m \in 1..(Len(q) - n) /\ n + m = k
      BY <1>1, <2>2
    <3>2. b[m] = q[k]
      BY <1>3, <3>1
    <3> HIDE DEF m
    <3> QED
      BY <1>3, <3>1, <3>2 DEF Ids
  <2> QED
    BY <1>1, <2>1, <2>2
<1>5. Ids(q) \subseteq Ids(a) \cup Ids(b)
  BY <1>1, <1>4 DEF Ids
<1>6. Ids(a) \subseteq Ids(q)
  BY <1>1, <1>2 DEF Ids
<1>7. \A k \in 1..(Len(q) - n) : n + k \in 1..Len(q)
  BY <1>1
<1>8. Ids(b) \subseteq Ids(q)
  BY <1>1, <1>3, <1>7 DEF Ids
<1>9. Unique(q) => Unique(a)
  BY <1>1, <1>2 DEF Unique
<1>10. ASSUME Unique(q), NEW j \in DOMAIN b, NEW k \in DOMAIN b, b[j].id = b[k].id
       PROVE  j = k
  <2>1. n + j \in 1..Len(q) /\ n + k \in 1..Len(q) /\ q[n + j].id = q[n + k].id
    BY <1>3, <1>7, <1>10
  <2>2. n + j = n + k
    BY <1>1, <1>10, <2>1 DEF Unique
  <2> QED
    BY <1>1, <1>3, <2>2
<1>11. ASSUME Unique(q), NEW j \in DOMAIN a, NEW k \in DOMAIN b
       PROVE  a[j].id # b[k].id
  <2>1. j \in 1..Len(q) /\ n + k \in 1..Len(q) /\ j # n + k
    BY <1>1, <1>2, <1>3, <1>7
  <2>2. q[j].id # q[n + k].id
    BY <1>1, <1>11, <2>1 DEF Unique
  <2> QED
    BY <1>2, <1>3, <2>2
<1>12. Unique(q) => Unique(b) /\ \A i \in Ids(a) : i \notin Ids(b)
  BY <1>10, <1>11 DEF Unique, Ids
<1> QED
  BY <1>2, <1>3, <1>5, <1>6, <1>8, <1>9, <1>12 DEF a, b

\* Two sequences, one after the other.
LEMMA IdsConcat ==
  ASSUME NEW S, NEW a \in Seq(S), NEW b \in Seq(S)
  PROVE  /\ a \o b \in Seq(S) /\ Len(a \o b) = Len(a) + Len(b)
         /\ Ids(a \o b) = Ids(a) \cup Ids(b)
         /\ Unique(a) /\ Unique(b) /\ (\A i \in Ids(a) : i \notin Ids(b))
              => Unique(a \o b)
<1> DEFINE c == a \o b
<1>1. /\ c \in Seq(S) /\ Len(c) = Len(a) + Len(b) /\ DOMAIN c = 1..Len(c)
      /\ DOMAIN a = 1..Len(a) /\ DOMAIN b = 1..Len(b)
      /\ Len(a) \in Nat /\ Len(b) \in Nat
      /\ \A k \in 1..(Len(a) + Len(b)) :
           c[k] = IF k <= Len(a) THEN a[k] ELSE b[k - Len(a)]
  BY ConcatProperties
<1> HIDE DEF c
<1>2. \A k \in 1..Len(a) : k \in 1..Len(c) /\ c[k] = a[k]
  BY <1>1
<1>3. \A k \in 1..Len(b) : /\ Len(a) + k \in 1..Len(c)
                           /\ ~(Len(a) + k <= Len(a))
                           /\ (Len(a) + k) - Len(a) = k
  BY <1>1
<1>4. \A k \in 1..Len(b) : c[Len(a) + k] = b[k]
  BY <1>1, <1>3
<1>5. \A k \in 1..Len(c) : \/ k \in 1..Len(a)
                           \/ ~(k <= Len(a)) /\ k - Len(a) \in 1..Len(b)
  BY <1>1
<1>6. Ids(c) \subseteq Ids(a) \cup Ids(b)
  <2>1. \A k \in 1..Len(c) : \/ k \in 1..Len(a) /\ c[k] = a[k]
                             \/ k - Len(a) \in 1..Len(b) /\ c[k] = b[k - Len(a)]
    BY <1>1, <1>5
  <2> QED
    BY <1>1, <2>1 DEF Ids
<1>7. Ids(a) \subseteq Ids(c) /\ Ids(b) \subseteq Ids(c)
  <2>1. Ids(a) \subseteq Ids(c)
    BY <1>1, <1>2, Zenon DEF Ids
  <2>2. \A k \in DOMAIN b : Len(a) + k \in DOMAIN c /\ c[Len(a) + k].id = b[k].id
    BY <1>1, <1>3, <1>4
  <2>3. Ids(b) \subseteq Ids(c)
    BY <2>2, Zenon DEF Ids
  <2> QED
    BY <2>1, <2>3
<1>8. ASSUME Unique(a), Unique(b), \A i \in Ids(a) : i \notin Ids(b),
             NEW j \in DOMAIN c, NEW k \in DOMAIN c, c[j].id = c[k].id
      PROVE  j = k
  <2>1. CASE j <= Len(a) /\ k <= Len(a)
    BY <1>1, <1>2, <1>8, <2>1 DEF Unique
  <2>2. CASE j > Len(a) /\ k > Len(a)
    <3>1. /\ j - Len(a) \in 1..Len(b) /\ k - Len(a) \in 1..Len(b)
          /\ c[j] = b[j - Len(a)] /\ c[k] = b[k - Len(a)]
      BY <1>1, <1>5, <2>2
    <3>2. j - Len(a) = k - Len(a)
      BY <1>1, <1>8, <3>1, Zenon DEF Unique
    <3>3. j \in Nat /\ k \in Nat /\ Len(a) \in Nat
      BY <1>1
    <3>4. \A x, y, z \in Nat : x - z = y - z => x = y
      OBVIOUS
    <3> QED
      BY <3>2, <3>3, <3>4
  <2>3. CASE j <= Len(a) /\ k > Len(a)
    <3>1. j \in 1..Len(a) /\ k - Len(a) \in 1..Len(b) /\ c[j] = a[j] /\ c[k] = b[k - Len(a)]
      BY <1>1, <1>5, <2>3
    <3>2. a[j].id \in Ids(a) /\ b[k - Len(a)].id \in Ids(b)
      BY <1>1, <3>1 DEF Ids
    <3> QED
      BY <1>8, <3>1, <3>2
  <2>4. CASE j > Len(a) /\ k <= Len(a)
    <3>1. k \in 1..Len(a) /\ j - Len(a) \in 1..Len(b) /\ c[k] = a[k] /\ c[j] = b[j - Len(a)]
      BY <1>1, <1>5, <2>4
    <3>2. a[k].id \in Ids(a) /\ b[j - Len(a)].id \in Ids(b)
      BY <1>1, <3>1 DEF Ids
    <3> QED
      BY <1>8, <3>1, <3>2
  <2> QED
    BY <1>1, <2>1, <2>2, <2>3, <2>4
<1>9. Unique(a) /\ Unique(b) /\ (\A i \in Ids(a) : i \notin Ids(b)) => Unique(c)
  BY <1>8 DEF Unique
<1> QED
  BY <1>1, <1>6, <1>7, <1>9 DEF c

\* A queue without its head.
LEMMA IdsTail ==
  ASSUME NEW S, NEW q \in Seq(S), q # <<>>
  PROVE  /\ Head(q) \in S /\ Head(q) = q[1] /\ 1 \in DOMAIN q
         /\ Tail(q) \in Seq(S) /\ Len(Tail(q)) = Len(q) - 1
         /\ \A n \in DOMAIN Tail(q) : n + 1 \in DOMAIN q /\ Tail(q)[n] = q[n + 1]
         /\ \A n \in DOMAIN q : n = 1 \/ (n - 1 \in DOMAIN Tail(q)
                                          /\ Tail(q)[n - 1] = q[n])
         /\ Ids(q) = {Head(q).id} \cup Ids(Tail(q))
         /\ Unique(q) => Unique(Tail(q)) /\ Head(q).id \notin Ids(Tail(q))
<1> DEFINE t == Tail(q)
           h == Head(q)
<1>1. /\ h = q[1] /\ DOMAIN q = 1..Len(q) /\ Len(q) \in Nat /\ Len(q) >= 1
      /\ t \in Seq(S) /\ Len(t) = Len(q) - 1 /\ DOMAIN t = 1..(Len(q) - 1)
      /\ \A n \in 1..(Len(q) - 1) : t[n] = q[n + 1]
      /\ h \in S
  OBVIOUS
<1> HIDE DEF t, h
<1>2. \A n \in DOMAIN t : n + 1 \in DOMAIN q /\ t[n] = q[n + 1]
  BY <1>1
<1>3. \A n \in DOMAIN q : n = 1 \/ (n - 1 \in DOMAIN t /\ (n - 1) + 1 = n)
  BY <1>1
<1>4. \A n \in DOMAIN q : n = 1 \/ (n - 1 \in DOMAIN t /\ t[n - 1] = q[n])
  BY <1>2, <1>3
<1>5. 1 \in DOMAIN q
  BY <1>1
<1>6. Ids(q) \subseteq {h.id} \cup Ids(t)
  BY <1>1, <1>4 DEF Ids
<1>7. {h.id} \cup Ids(t) \subseteq Ids(q)
  BY <1>1, <1>2, <1>5 DEF Ids
<1>8. ASSUME Unique(q), NEW m \in DOMAIN t, NEW n \in DOMAIN t, t[m].id = t[n].id
      PROVE  m = n
  <2>1. m + 1 = n + 1
    BY <1>2, <1>8 DEF Unique
  <2> QED
    BY <1>1, <2>1
<1>9. ASSUME Unique(q), NEW n \in DOMAIN t
      PROVE  t[n].id # h.id
  <2>1. n + 1 # 1
    BY <1>1
  <2> QED
    BY <1>1, <1>2, <1>5, <1>9, <2>1 DEF Unique
<1>10. Unique(q) => Unique(t) /\ h.id \notin Ids(t)
  BY <1>8, <1>9 DEF Unique, Ids
<1> QED
  BY <1>1, <1>2, <1>4, <1>5, <1>6, <1>7, <1>10 DEF t, h

\* The empty sequence.
LEMMA IdsNone == Ids(<<>>) = {} /\ Unique(<<>>) /\ DOMAIN <<>> = {}
  BY DEF Ids, Unique
-----------------------------------------------------------------------------
(* What the operations on the channels leave.                              *)

LEMMA SystemFields ==
  ASSUME NEW s \in Systems
  PROVE  /\ s.cmds \in Seq(Commands) /\ s.slot \in Commands
         /\ s.action \in Commands /\ s.results \in Seq(Results)
         /\ s.deferred \in Seq(Results) /\ s.ended \in Seq(Results)
         /\ s.motion \in Nat /\ s.stop \in Nat /\ s.tomb \in Nat
         /\ \A n \in DOMAIN s.cmds : s.cmds[n] \in Commands
  BY DEF Systems

LEMMA NoCommandType ==
  NoCommand \in Commands /\ NoCommand.id = 0 /\ NoCommand.kind = "plain"
  BY DEF NoCommand, Commands, Kinds

\* An identifier is never 0, so an empty place holds none.
LEMMA PlaceIds ==
  ASSUME NEW s, NEW H, NEW K, NEW I, Core(s, H, K, I)
  PROVE  /\ s \in Systems /\ I \subseteq Nat \ {0} /\ Len(s.results) <= ResultCapacity
         /\ s.slot = NoCommand <=> s.slot.id = 0
         /\ s.action = NoCommand <=> s.action.id = 0
         /\ s.slot # NoCommand => s.slot.id \in I /\ s.slot.kind = "stop"
         /\ s.action # NoCommand => s.action.id \in I
         /\ \A i \in H \cup Ids(s.cmds) \cup Ids(s.deferred) \cup Ids(s.results) :
              i \in I /\ i \in Nat \ {0}
  BY NoCommandType DEF Core, Named, Ids

\* L!Store: the terminal of r is in one of the two stores.
Stored(s, t, r) ==
  /\ t \in Systems
  /\ t.cmds = s.cmds /\ t.slot = s.slot /\ t.tomb = s.tomb /\ t.action = s.action
  /\ t.motion = s.motion \/ (r.kind = "oneshot" /\ r.id = s.motion)
  /\ \/ /\ s.deferred = <<>> /\ t.deferred = s.deferred
        /\ t.results = Append(s.results, r) /\ Len(s.results) < ResultCapacity
     \/ /\ ~(s.deferred = <<>> /\ Len(s.results) < ResultCapacity)
        /\ t.deferred = Append(s.deferred, r) /\ t.results = s.results

LEMMA StoreEffect ==
  ASSUME NEW s \in Systems, NEW r \in Results, L!CanStore(s)
  PROVE  Stored(s, L!Store(s, r), r)
<1> DEFINE e == Append(s.ended, r)
           t == [s EXCEPT !.ended = e]
<1>1. e \in Seq(Results)
  BY SystemFields
<1> HIDE DEF e
<1>2. t \in Systems /\ t.cmds = s.cmds /\ t.slot = s.slot /\ t.tomb = s.tomb
      /\ t.action = s.action /\ t.motion = s.motion /\ t.stop = s.stop
      /\ t.results = s.results /\ t.deferred = s.deferred
  BY <1>1 DEF Systems
<1>3. CASE s.deferred = <<>> /\ L!ResultRoom(s)
  <2> DEFINE u == L!SubmitResult(t, r)
             rs == t.results \o <<r>>
             m == IF L!Opens(<<r>>, "oneshot", t.motion) THEN 0 ELSE t.motion
             p == IF L!Opens(<<r>>, "stop", t.stop) THEN 0 ELSE t.stop
  <2>1. L!Store(s, r) = u
    BY <1>3 DEF L!Store, t, e, L!CanStore
  <2> HIDE DEF t
  <2>2. \A kind, id : L!Opens(<<r>>, kind, id) <=> r.kind = kind /\ r.id = id
    BY DEF L!Opens
  <2>3. /\ rs \in Seq(Results) /\ rs = Append(t.results, r)
        /\ m \in Nat /\ p \in Nat
    BY <1>2, SystemFields
  <2>4. u = [t EXCEPT !.results = rs, !.motion = m, !.stop = p]
    BY DEF L!SubmitResult, L!SubmitResults
  <2>5. m = t.motion \/ (r.kind = "oneshot" /\ r.id = t.motion)
    BY <2>2
  <2> HIDE DEF u, rs, m, p
  <2>6. u \in Systems /\ u.cmds = t.cmds /\ u.slot = t.slot /\ u.tomb = t.tomb
        /\ u.action = t.action /\ u.motion = m /\ u.results = rs
        /\ u.deferred = t.deferred
    BY <1>2, <2>3, <2>4 DEF Systems
  <2>7. Len(s.results) < ResultCapacity
    BY <1>3 DEF L!ResultRoom
  <2> QED
    BY <1>2, <1>3, <2>1, <2>3, <2>5, <2>6, <2>7 DEF Stored
<1>4. CASE ~(s.deferred = <<>> /\ L!ResultRoom(s))
  <2> DEFINE d == Append(t.deferred, r)
             u == [t EXCEPT !.deferred = d]
  <2>1. L!Store(s, r) = u
    BY <1>4 DEF L!Store, t, e, L!CanStore
  <2> HIDE DEF t
  <2>2. d \in Seq(Results)
    BY <1>2, SystemFields
  <2> HIDE DEF d
  <2>3. u \in Systems /\ u.cmds = t.cmds /\ u.slot = t.slot /\ u.tomb = t.tomb
        /\ u.action = t.action /\ u.motion = t.motion /\ u.results = t.results
        /\ u.deferred = d
    BY <1>2, <2>2 DEF Systems
  <2> HIDE DEF u
  <2> QED
    BY <1>2, <1>4, <2>1, <2>3 DEF Stored, d, L!ResultRoom
<1> QED
  BY <1>3, <1>4

\* L!Flush: a prefix of the deferred terminals is moved behind the results.
Flushed(s, t, n) ==
  /\ t \in Systems
  /\ t.cmds = s.cmds /\ t.slot = s.slot /\ t.tomb = s.tomb /\ t.action = s.action
  /\ t.deferred = SubSeq(s.deferred, n + 1, Len(s.deferred))
  /\ t.results = s.results \o SubSeq(s.deferred, 1, n)
  /\ Len(s.results) + n <= ResultCapacity
  /\ s.deferred = <<>> => t.motion = s.motion

LEMMA FlushEffect ==
  ASSUME NEW s \in Systems, Len(s.results) <= ResultCapacity
  PROVE  \E n \in 0..Len(s.deferred) : Flushed(s, L!Flush(s), n)
<1> DEFINE room == ResultCapacity - Len(s.results)
           n == IF Len(s.deferred) < room THEN Len(s.deferred) ELSE room
           moved == SubSeq(s.deferred, 1, n)
           rest == SubSeq(s.deferred, n + 1, Len(s.deferred))
           d == [s EXCEPT !.deferred = rest]
           rs == s.results \o moved
           m == IF L!Opens(moved, "oneshot", s.motion) THEN 0 ELSE s.motion
           p == IF L!Opens(moved, "stop", s.stop) THEN 0 ELSE s.stop
           t == [d EXCEPT !.results = rs, !.motion = m, !.stop = p]
<1>1. /\ s.deferred \in Seq(Results) /\ s.results \in Seq(Results)
      /\ s.motion \in Nat /\ s.stop \in Nat
      /\ ResultCapacity \in Nat
      /\ Len(s.deferred) \in Nat /\ Len(s.results) \in Nat
  BY SystemFields, CapacityAssumption
<1>2. n \in 0..Len(s.deferred) /\ Len(s.results) + n <= ResultCapacity
  <2>1. \A a, b, c \in Nat : b <= c =>
          LET k == IF a < c - b THEN a ELSE c - b
          IN k \in 0..a /\ b + k <= c
    OBVIOUS
  <2> QED
    BY <1>1, <2>1
<1> HIDE DEF room, n
<1>3. moved \in Seq(Results) /\ rest \in Seq(Results) /\ Len(moved) = n
  BY <1>1, <1>2
<1>4. s.deferred = <<>> => n = 0
  BY <1>1, <1>2
<1> HIDE DEF moved, rest
<1>5. s.deferred = <<>> => DOMAIN moved = {}
  BY <1>3, <1>4
<1>6. rs \in Seq(Results) /\ m \in Nat /\ p \in Nat
  BY <1>1, <1>2, <1>3, ConcatProperties
<1>7. s.deferred = <<>> => m = s.motion
  BY <1>5 DEF L!Opens
<1>8. /\ d \in Systems /\ d.cmds = s.cmds /\ d.slot = s.slot /\ d.tomb = s.tomb
      /\ d.action = s.action /\ d.motion = s.motion /\ d.stop = s.stop
      /\ d.results = s.results /\ d.deferred = rest
  BY <1>3 DEF Systems
<1> HIDE DEF d, rs, m, p
<1>9. /\ t \in Systems /\ t.cmds = d.cmds /\ t.slot = d.slot /\ t.tomb = d.tomb
      /\ t.action = d.action /\ t.motion = m /\ t.results = rs
      /\ t.deferred = d.deferred
  BY <1>6, <1>8 DEF Systems
<1>10. L!Flush(s) = t
  <2>1. L!Flush(s) = L!SubmitResults(d, moved)
    BY DEF L!Flush, d, moved, rest, n, room
  <2>2. /\ d.results \o moved = rs
        /\ (IF L!Opens(moved, "oneshot", d.motion) THEN 0 ELSE d.motion) = m
        /\ (IF L!Opens(moved, "stop", d.stop) THEN 0 ELSE d.stop) = p
    BY <1>8 DEF rs, m, p
  <2> QED
    BY <2>1, <2>2 DEF L!SubmitResults
<1> HIDE DEF t
<1>11. Flushed(s, t, n)
  BY <1>2, <1>7, <1>8, <1>9 DEF Flushed, rs, moved, rest
<1> QED
  BY <1>2, <1>10, <1>11
-----------------------------------------------------------------------------
(* What they do to Core: identifiers move from place to place.             *)

\* A terminal out of the hand goes to a store.
LEMMA StoreKeeps ==
  ASSUME NEW s, NEW H, NEW K, NEW I, Core(s, H, K, I),
         NEW r \in Results, r.id \in H, L!CanStore(s)
  PROVE  Core(L!Store(s, r), H \ {r.id}, K, I)
<1> DEFINE t == L!Store(s, r)
           G == H \ {r.id}
<1>1. s \in Systems
  BY DEF Core
<1>2. Stored(s, t, r)
  BY <1>1, StoreEffect
<1> HIDE DEF t
<1>3. /\ t \in Systems /\ I \subseteq Nat \ {0} /\ r.id \in Nat \ {0} /\ r.id \in I
      /\ s.results \in Seq(Results) /\ s.deferred \in Seq(Results)
      /\ r.id \notin Ids(s.deferred) /\ r.id \notin Ids(s.results)
  BY <1>1, <1>2, PlaceIds, SystemFields DEF Core, Single, Stored
<1>4. \/ /\ Ids(t.results) = Ids(s.results) \cup {r.id} /\ t.deferred = s.deferred
         /\ Unique(t.results)
      \/ /\ Ids(t.deferred) = Ids(s.deferred) \cup {r.id} /\ t.results = s.results
         /\ Unique(t.deferred)
  <2>1. Unique(s.results) /\ Unique(s.deferred)
    BY DEF Core
  <2>2. /\ Ids(Append(s.results, r)) = Ids(s.results) \cup {r.id}
        /\ Unique(Append(s.results, r))
    BY <1>3, <2>1, IdsAppend
  <2>3. /\ Ids(Append(s.deferred, r)) = Ids(s.deferred) \cup {r.id}
        /\ Unique(Append(s.deferred, r))
    BY <1>3, <2>1, IdsAppend
  <2> QED
    BY <1>2, <2>2, <2>3 DEF Stored
<1>5. Len(t.results) <= ResultCapacity
  <2>1. Len(Append(s.results, r)) = Len(s.results) + 1 /\ Len(s.results) \in Nat
    BY <1>3
  <2> QED
    BY <1>2, <2>1, CapacityAssumption DEF Stored, Core
<1>6. Unique(t.cmds) /\ Unique(t.deferred) /\ Unique(t.results)
  BY <1>2, <1>4 DEF Stored, Core
<1>7. Named(t, G, I)
  BY <1>2, <1>3, <1>4 DEF Stored, Core, Named
<1>8. \A i : Queued(t, i) <=> Queued(s, i)
  BY <1>2 DEF Stored, Queued
<1>9. t.slot = s.slot /\ t.action = s.action
  BY <1>2 DEF Stored
<1>10. Single(s, H) /\ \A i \in 1..MaxUi : i \in K <=> Somewhere(s, H, i)
  BY DEF Core
<1>11. Single(t, G)
  BY <1>3, <1>4, <1>8, <1>9, <1>10 DEF Single
<1>12. \A i : Somewhere(t, G, i) <=> Somewhere(s, H, i)
  BY <1>3, <1>4, <1>8, <1>9 DEF Somewhere
<1> HIDE DEF G
<1>13. Core(t, G, K, I)
  BY <1>3, <1>5, <1>6, <1>7, <1>10, <1>11, <1>12 DEF Core
<1> QED
  BY <1>13 DEF t, G

\* A command out of the hand becomes the action.
LEMMA ActivateEffect ==
  ASSUME NEW s \in Systems, NEW c \in Commands
  PROVE  LET t == L!Activate(s, c)
         IN /\ t \in Systems /\ t.cmds = s.cmds /\ t.slot = s.slot
            /\ t.tomb = s.tomb /\ t.motion = s.motion /\ t.action = c
            /\ t.deferred = s.deferred /\ t.results = s.results
  BY DEF L!Activate, Systems

LEMMA ActivateKeeps ==
  ASSUME NEW s, NEW H, NEW K, NEW I, Core(s, H, K, I),
         NEW c \in Commands, c.id \in H, s.action = NoCommand
  PROVE  Core(L!Activate(s, c), H \ {c.id}, K, I)
<1> DEFINE t == L!Activate(s, c)
           G == H \ {c.id}
<1>1. s \in Systems
  BY DEF Core
<1>2. /\ t \in Systems /\ t.cmds = s.cmds /\ t.slot = s.slot
      /\ t.tomb = s.tomb /\ t.action = c
      /\ t.deferred = s.deferred /\ t.results = s.results
  BY <1>1, ActivateEffect
<1> HIDE DEF t
<1>3. /\ I \subseteq Nat \ {0} /\ c.id \in Nat \ {0} /\ c.id \in I /\ s.action.id = 0
  BY PlaceIds
<1>4. \A i : Queued(t, i) <=> Queued(s, i)
  BY <1>2 DEF Queued
<1>5. Named(t, G, I)
  BY <1>2, <1>3 DEF Core, Named
<1>6. Single(t, G)
  BY <1>2, <1>3, <1>4 DEF Core, Single
<1>7. \A i \in 1..MaxUi : Somewhere(t, G, i) <=> Somewhere(s, H, i)
  BY <1>2, <1>3, <1>4 DEF Somewhere
<1>8. Core(t, G, K, I)
  BY <1>2, <1>5, <1>6, <1>7 DEF Core
<1> QED
  BY <1>8 DEF t, G

\* A STOP that runs is started again with a wider mask.
LEMMA RestartKeeps ==
  ASSUME NEW s, NEW H, NEW K, NEW I, Core(s, H, K, I),
         NEW c \in Commands, c.id = s.action.id, s.action # NoCommand
  PROVE  Core(L!Activate(s, c), H, K, I)
<1> DEFINE t == L!Activate(s, c)
<1>1. s \in Systems
  BY DEF Core
<1>2. /\ t \in Systems /\ t.cmds = s.cmds /\ t.slot = s.slot
      /\ t.tomb = s.tomb /\ t.action = c
      /\ t.deferred = s.deferred /\ t.results = s.results
  BY <1>1, ActivateEffect
<1> HIDE DEF t
<1>3. c.id \in I
  BY PlaceIds
<1>4. \A i : Queued(t, i) <=> Queued(s, i)
  BY <1>2 DEF Queued
<1>5. Named(t, H, I)
  BY <1>2, <1>3 DEF Core, Named
<1>6. Single(t, H)
  BY <1>2, <1>4 DEF Core, Single
<1>7. \A i \in 1..MaxUi : Somewhere(t, H, i) <=> Somewhere(s, H, i)
  BY <1>2, <1>4 DEF Somewhere
<1>8. Core(t, H, K, I)
  BY <1>2, <1>5, <1>6, <1>7 DEF Core
<1> QED
  BY <1>8 DEF t

\* The action into the hand.
LEMMA ActionInHand ==
  ASSUME NEW s, NEW H, NEW K, NEW I, Core(s, H, K, I), s.action # NoCommand
  PROVE  /\ Core(L!Activate(s, NoCommand), H \cup {s.action.id}, K, I)
         /\ s.action.id \notin H
<1> DEFINE t == L!Activate(s, NoCommand)
           G == H \cup {s.action.id}
<1>1. s \in Systems
  BY DEF Core
<1>2. /\ t \in Systems /\ t.cmds = s.cmds /\ t.slot = s.slot
      /\ t.tomb = s.tomb /\ t.action = NoCommand
      /\ t.deferred = s.deferred /\ t.results = s.results
  BY <1>1, NoCommandType, ActivateEffect
<1> HIDE DEF t
<1>3. /\ I \subseteq Nat \ {0} /\ s.action.id \in Nat \ {0} /\ s.action.id \in I
      /\ NoCommand.id = 0
  BY PlaceIds, NoCommandType
<1>4. \A i : Queued(t, i) <=> Queued(s, i)
  BY <1>2 DEF Queued
<1>5. Named(t, G, I)
  BY <1>2, <1>3 DEF Core, Named
<1>6. Single(t, G) /\ s.action.id \notin H
  BY <1>2, <1>3, <1>4 DEF Core, Single
<1>7. \A i \in 1..MaxUi : Somewhere(t, G, i) <=> Somewhere(s, H, i)
  BY <1>2, <1>3, <1>4 DEF Somewhere
<1>8. Core(t, G, K, I)
  BY <1>2, <1>5, <1>6, <1>7 DEF Core
<1> QED
  BY <1>6, <1>8 DEF t, G

\* The STOP out of its slot into the hand.
LEMMA PopStopEffect ==
  ASSUME NEW s \in Systems
  PROVE  LET t == PopStop(s)
         IN /\ t \in Systems /\ t.cmds = s.cmds /\ t.slot = NoCommand
            /\ t.tomb = s.tomb /\ t.motion = s.motion /\ t.action = s.action
            /\ t.deferred = s.deferred /\ t.results = s.results
  BY NoCommandType DEF PopStop, Systems

LEMMA StopInHand ==
  ASSUME NEW s, NEW H, NEW K, NEW I, Core(s, H, K, I), s.slot # NoCommand
  PROVE  Core(PopStop(s), H \cup {s.slot.id}, K, I)
<1> DEFINE t == PopStop(s)
           G == H \cup {s.slot.id}
<1>1. s \in Systems
  BY DEF Core
<1>2. /\ t \in Systems /\ t.cmds = s.cmds /\ t.slot = NoCommand
      /\ t.tomb = s.tomb /\ t.action = s.action
      /\ t.deferred = s.deferred /\ t.results = s.results
  BY <1>1, PopStopEffect
<1> HIDE DEF t
<1>3. /\ I \subseteq Nat \ {0} /\ s.slot.id \in Nat \ {0} /\ s.slot.id \in I
      /\ NoCommand.id = 0
  BY PlaceIds, NoCommandType
<1>4. \A i : Queued(t, i) <=> Queued(s, i)
  BY <1>2 DEF Queued
<1>5. Named(t, G, I)
  BY <1>2, <1>3 DEF Core, Named
<1>6. Single(t, G)
  BY <1>2, <1>3, <1>4 DEF Core, Single
<1>7. \A i \in 1..MaxUi : Somewhere(t, G, i) <=> Somewhere(s, H, i)
  BY <1>2, <1>3, <1>4 DEF Somewhere
<1>8. Core(t, G, K, I)
  BY <1>2, <1>5, <1>6, <1>7 DEF Core
<1> QED
  BY <1>8 DEF t, G

\* The head of the queue into the hand.
LEMMA PopCommandEffect ==
  ASSUME NEW s \in Systems, s.cmds # <<>>
  PROVE  LET t == PopCommand(s)
         IN /\ t \in Systems /\ t.cmds = Tail(s.cmds) /\ t.slot = s.slot
            /\ t.tomb = s.tomb /\ t.motion = s.motion /\ t.action = s.action
            /\ t.deferred = s.deferred /\ t.results = s.results
<1> DEFINE q == Tail(s.cmds)
<1>1. q \in Seq(Commands)
  BY SystemFields, IdsTail
<1>2. PopCommand(s) = [s EXCEPT !.cmds = q]
  BY DEF PopCommand
<1> HIDE DEF q
<1>3. LET t == PopCommand(s)
      IN /\ t \in Systems /\ t.cmds = q /\ t.slot = s.slot
         /\ t.tomb = s.tomb /\ t.motion = s.motion /\ t.action = s.action
         /\ t.deferred = s.deferred /\ t.results = s.results
  BY <1>1, <1>2 DEF Systems
<1> QED
  BY <1>3 DEF q

LEMMA CommandInHand ==
  ASSUME NEW s, NEW H, NEW K, NEW I, Core(s, H, K, I),
         s.cmds # <<>>, Head(s.cmds).id # s.tomb
  PROVE  Core(PopCommand(s), H \cup {Head(s.cmds).id}, K, I)
<1> DEFINE t == PopCommand(s)
           h == Head(s.cmds)
           q == Tail(s.cmds)
           G == H \cup {h.id}
<1>1. s \in Systems
  BY DEF Core
<1>2. /\ t \in Systems /\ t.cmds = q /\ t.slot = s.slot
      /\ t.tomb = s.tomb /\ t.action = s.action
      /\ t.deferred = s.deferred /\ t.results = s.results
  BY <1>1, PopCommandEffect
<1> HIDE DEF t
<1>3. /\ s.cmds \in Seq(Commands) /\ Unique(s.cmds)
  BY <1>1, SystemFields DEF Core
<1>4. /\ h = s.cmds[1] /\ 1 \in DOMAIN s.cmds
      /\ \A n \in DOMAIN q : n + 1 \in DOMAIN s.cmds /\ q[n] = s.cmds[n + 1]
      /\ \A n \in DOMAIN s.cmds : n = 1 \/ (n - 1 \in DOMAIN q
                                           /\ q[n - 1] = s.cmds[n])
      /\ Ids(s.cmds) = {h.id} \cup Ids(q)
      /\ Unique(q) /\ h.id \notin Ids(q)
  BY <1>3, IdsTail
<1> HIDE DEF q, h
<1>5. I \subseteq Nat \ {0} /\ h.id \in I /\ h.id # s.tomb
  BY <1>4, PlaceIds DEF h
<1>6. \A i : Queued(s, i) <=> i = h.id \/ Queued(t, i)
  BY <1>2, <1>4, <1>5 DEF Queued
<1>7. ~Queued(t, h.id)
  BY <1>2, <1>4 DEF Queued
<1>8. Named(t, G, I)
  <2>1. ASSUME s.tomb # 0
        PROVE  \E n \in DOMAIN q : q[n].id = s.tomb /\ q[n].kind = "oneshot"
    <3>1. PICK n \in DOMAIN s.cmds :
             s.cmds[n].id = s.tomb /\ s.cmds[n].kind = "oneshot"
      BY <2>1 DEF Core, Named
    <3>2. n - 1 \in DOMAIN q /\ q[n - 1] = s.cmds[n]
      BY <1>4, <1>5, <3>1
    <3> QED
      BY <3>1, <3>2
  <2>2. \A n \in DOMAIN q : /\ q[n].id \in I /\ q[n].kind # "stop"
                            /\ Local(q[n]) => q[n].kind = "oneshot"
    BY <1>4 DEF Core, Named
  <2>3. G \subseteq I
    BY <1>5 DEF Core, Named
  <2> HIDE DEF G
  <2> QED
    BY <1>2, <2>1, <2>2, <2>3 DEF Core, Named
<1>9. Single(t, G)
  BY <1>2, <1>5, <1>6, <1>7 DEF Core, Single
<1>10. \A i \in 1..MaxUi : Somewhere(t, G, i) <=> Somewhere(s, H, i)
  BY <1>2, <1>6 DEF Somewhere
<1>11. Core(t, G, K, I)
  BY <1>2, <1>4, <1>8, <1>9, <1>10 DEF Core
<1> QED
  BY <1>11 DEF t, G, h

\* A tombstoned head is nowhere: it is skipped together with the tombstone.
LEMMA SkipKeeps ==
  ASSUME NEW s, NEW H, NEW K, NEW I, Core(s, H, K, I)
  PROVE  LET t == SkipTombstone(s)
         IN /\ Core(t, H, K, I)
            /\ t.slot = s.slot /\ t.action = s.action /\ t.motion = s.motion
            /\ t.deferred = s.deferred /\ t.results = s.results
            /\ t = s \/ (s.cmds # <<>> /\ t.cmds = Tail(s.cmds) /\ t.tomb = 0
                         /\ s.tomb = Head(s.cmds).id /\ s.tomb # 0)
            /\ t.cmds # <<>> => Head(t.cmds).id # t.tomb
<1> DEFINE t == SkipTombstone(s)
           h == Head(s.cmds)
           q == Tail(s.cmds)
<1>1. s \in Systems /\ s.cmds \in Seq(Commands) /\ Unique(s.cmds)
  BY SystemFields DEF Core
<1>2. CASE ~(s.cmds # <<>> /\ Tombstoned(s, h))
  <2>1. t = s
    BY <1>2 DEF SkipTombstone
  <2>2. ASSUME s.cmds # <<>>, h.id = s.tomb
        PROVE  FALSE
    <3>1. h = s.cmds[1] /\ 1 \in DOMAIN s.cmds
      BY <1>1, <2>2, IdsTail
    <3>2. s.tomb # 0
      <4>1. h.id \in Ids(s.cmds)
        BY <3>1 DEF Ids
      <4> QED
        BY <2>2, <4>1, PlaceIds
    <3>3. PICK n \in DOMAIN s.cmds :
             s.cmds[n].id = s.tomb /\ s.cmds[n].kind = "oneshot"
      BY <3>2 DEF Core, Named
    <3>4. n = 1
      BY <1>1, <2>2, <3>1, <3>3 DEF Unique
    <3> QED
      BY <1>2, <2>2, <3>1, <3>3, <3>4 DEF Tombstoned
  <2> QED
    BY <2>1, <2>2
<1>3. CASE s.cmds # <<>> /\ Tombstoned(s, h)
  <2>1. /\ h = s.cmds[1] /\ 1 \in DOMAIN s.cmds /\ q \in Seq(Commands)
        /\ \A n \in DOMAIN q : n + 1 \in DOMAIN s.cmds /\ q[n] = s.cmds[n + 1]
        /\ Ids(s.cmds) = {h.id} \cup Ids(q)
        /\ Unique(q) /\ h.id \notin Ids(q)
    BY <1>1, <1>3, IdsTail
  <2>2. h.id = s.tomb
    BY <1>3 DEF Tombstoned
  <2>3. t = [s EXCEPT !.cmds = q, !.tomb = 0]
    BY <1>3 DEF SkipTombstone
  <2>4. I \subseteq Nat \ {0} /\ h.id \in I /\ 0 \notin Ids(q)
    BY <2>1, PlaceIds
  <2> HIDE DEF q, h, t
  <2>5. /\ t \in Systems /\ t.cmds = q /\ t.slot = s.slot
        /\ t.tomb = 0 /\ t.action = s.action /\ t.motion = s.motion
        /\ t.deferred = s.deferred /\ t.results = s.results
    BY <1>1, <2>1, <2>3 DEF Systems
  <2>6. \A i : Queued(s, i) <=> Queued(t, i)
    BY <2>1, <2>2, <2>4, <2>5 DEF Queued
  <2>7. Named(t, H, I)
    BY <2>1, <2>5 DEF Core, Named
  <2>8. Single(t, H)
    BY <2>5, <2>6 DEF Core, Single
  <2>9. \A i \in 1..MaxUi : Somewhere(t, H, i) <=> Somewhere(s, H, i)
    BY <2>5, <2>6 DEF Somewhere
  <2>10. Core(t, H, K, I)
    BY <2>1, <2>5, <2>7, <2>8, <2>9 DEF Core
  <2>11. s.tomb # 0
    BY <2>2, <2>4
  <2>12. t.cmds # <<>> => Head(t.cmds).id # t.tomb
    <3>1. ASSUME q # <<>>
          PROVE  Head(q).id \in Ids(q)
      BY <2>1, <3>1, IdsTail
    <3> QED
      BY <2>4, <2>5, <3>1
  <2> QED
    BY <1>3, <2>2, <2>5, <2>10, <2>11, <2>12 DEF t, q, h
<1> QED
  BY <1>2, <1>3

\* The queued motion of the gate into the hand: it stays in the queue as a
\* tombstone.
LEMMA MotionInHand ==
  ASSUME NEW s, NEW H, NEW K, NEW I, Core(s, H, K, I), CanTakeQueuedMotion(s)
  PROVE  LET t == TakeQueuedMotion(s)
             c == QueuedMotion(s)
         IN /\ Core(t, H \cup {c.id}, K, I)
            /\ c \in Commands /\ c.kind = "oneshot" /\ c.id = s.motion
            /\ c.id \notin H
            /\ t.cmds = s.cmds /\ t.slot = s.slot /\ t.tomb = s.motion
            /\ t.motion = s.motion /\ t.action = s.action
            /\ t.deferred = s.deferred /\ t.results = s.results
<1> DEFINE t == TakeQueuedMotion(s)
           c == QueuedMotion(s)
           G == H \cup {c.id}
<1>1. s \in Systems /\ s.cmds \in Seq(Commands) /\ s.motion \in Nat
      /\ \A n \in DOMAIN s.cmds : s.cmds[n] \in Commands
  BY SystemFields DEF Core
<1>2. c \in QueuedMotions(s)
  BY DEF CanTakeQueuedMotion, QueuedMotion
<1>3. s.motion # 0 /\ s.tomb = 0
  BY DEF CanTakeQueuedMotion
<1>4. PICK n \in DOMAIN s.cmds : s.cmds[n] = c
  BY <1>2 DEF QueuedMotions
<1>5. c \in Commands /\ c.kind = "oneshot" /\ c.id = s.motion
  BY <1>1, <1>2, <1>4 DEF QueuedMotions
<1> HIDE DEF c
<1>6. t \in Systems /\ t.cmds = s.cmds /\ t.slot = s.slot /\ t.tomb = s.motion
      /\ t.motion = s.motion /\ t.action = s.action
      /\ t.deferred = s.deferred /\ t.results = s.results
  BY <1>1 DEF Systems, TakeQueuedMotion
<1> HIDE DEF t
<1>7. c.id \in Ids(s.cmds)
  BY <1>4 DEF Ids
<1>8. c.id \in I /\ c.id # 0 /\ I \subseteq Nat \ {0} /\ \A i \in Ids(s.cmds) : i # 0
  BY <1>7, PlaceIds
<1>9. \A i : Queued(s, i) <=> i = c.id \/ Queued(t, i)
  BY <1>3, <1>5, <1>6, <1>7, <1>8 DEF Queued
<1>10. ~Queued(t, c.id)
  BY <1>5, <1>6 DEF Queued
<1>11. Named(t, G, I)
  BY <1>4, <1>5, <1>6, <1>8 DEF Core, Named
<1>12. Single(t, G)
  BY <1>6, <1>8, <1>9, <1>10 DEF Core, Single
<1>13. c.id \notin H
  BY <1>8, <1>9 DEF Core, Single
<1>14. \A i \in 1..MaxUi : Somewhere(t, G, i) <=> Somewhere(s, H, i)
  BY <1>6, <1>9 DEF Somewhere
<1>15. Core(t, G, K, I)
  BY <1>6, <1>11, <1>12, <1>14 DEF Core
<1> QED
  BY <1>5, <1>6, <1>13, <1>15 DEF t, c, G

\* A pending STOP is widened: nothing moves.
LEMMA WidenEffect ==
  ASSUME NEW s \in Systems, NEW mask \in SUBSET Motors
  PROVE  LET t == WidenPendingStop(s, mask)
         IN /\ t \in Systems /\ t.cmds = s.cmds
            /\ t.slot.id = s.slot.id /\ t.slot.kind = s.slot.kind
            /\ s.slot.mask \subseteq t.slot.mask
            /\ s.slot = NoCommand => t.slot = NoCommand
            /\ t.tomb = s.tomb /\ t.motion = s.motion /\ t.action = s.action
            /\ t.deferred = s.deferred /\ t.results = s.results
<1> DEFINE c == [s.slot EXCEPT !.mask = @ \cup mask]
<1>1. s.slot \in Commands
  BY SystemFields
<1>2. c \in Commands /\ c.id = s.slot.id /\ c.kind = s.slot.kind
      /\ s.slot.mask \subseteq c.mask
  BY <1>1 DEF Commands
<1>3. StopPending(s) => WidenPendingStop(s, mask) = [s EXCEPT !.slot = c]
  BY DEF WidenPendingStop, Systems
<1>4. ~StopPending(s) => WidenPendingStop(s, mask) = s
  BY DEF WidenPendingStop
<1> HIDE DEF c
<1>5. CASE StopPending(s)
  BY <1>2, <1>3, <1>5 DEF Systems, StopPending
<1>6. CASE ~StopPending(s)
  BY <1>4, <1>6
<1> QED
  BY <1>5, <1>6

LEMMA WidenKeeps ==
  ASSUME NEW s, NEW H, NEW K, NEW I, Core(s, H, K, I), NEW mask \in SUBSET Motors
  PROVE  Core(WidenPendingStop(s, mask), H, K, I)
<1> DEFINE t == WidenPendingStop(s, mask)
<1>1. s \in Systems
  BY DEF Core
<1>2. /\ t \in Systems /\ t.cmds = s.cmds
      /\ t.slot.id = s.slot.id /\ t.slot.kind = s.slot.kind
      /\ s.slot = NoCommand => t.slot = NoCommand
      /\ t.tomb = s.tomb /\ t.action = s.action
      /\ t.deferred = s.deferred /\ t.results = s.results
  BY <1>1, WidenEffect
<1> HIDE DEF t
<1>3. \A i : Queued(t, i) <=> Queued(s, i)
  BY <1>2 DEF Queued
<1>4. Named(t, H, I)
  BY <1>2 DEF Core, Named
<1>5. Single(t, H)
  BY <1>2, <1>3 DEF Core, Single
<1>6. \A i \in 1..MaxUi : Somewhere(t, H, i) <=> Somewhere(s, H, i)
  BY <1>2, <1>3 DEF Somewhere
<1>7. Core(t, H, K, I)
  BY <1>2, <1>4, <1>5, <1>6 DEF Core
<1> QED
  BY <1>7 DEF t

\* The queue is discarded: no local command may be lost with it.
LEMMA DiscardKeeps ==
  ASSUME NEW s, NEW H, NEW K, NEW I, Core(s, H, K, I), NoLocal(s)
  PROVE  LET t == CancelPendingNormal(s)
         IN /\ Core(t, H, K, I) /\ t.cmds = <<>>
            /\ t.slot = s.slot /\ t.action = s.action
<1> DEFINE t == CancelPendingNormal(s)
           none == <<>>
<1>1. s \in Systems /\ none \in Seq(Commands) /\ s.cmds \in Seq(Commands)
  BY SystemFields DEF Core
<1>2. Ids(none) = {} /\ Unique(none) /\ DOMAIN none = {}
  BY IdsNone
<1>3. t = [s EXCEPT !.cmds = none, !.tomb = 0]
  BY DEF CancelPendingNormal
<1> HIDE DEF none, t
<1>4. t \in Systems /\ t.cmds = none /\ t.slot = s.slot /\ t.tomb = 0
      /\ t.action = s.action /\ t.deferred = s.deferred /\ t.results = s.results
  BY <1>1, <1>3 DEF Systems
<1>5. \A i : ~Queued(t, i)
  BY <1>2, <1>4 DEF Queued
<1>6. \A i \in 1..MaxUi : ~Queued(s, i)
  BY DEF NoLocal, Local, Queued, Ids
<1>7. Named(t, H, I)
  BY <1>2, <1>4 DEF Core, Named
<1>8. Single(t, H)
  BY <1>4, <1>5 DEF Core, Single
<1>9. \A i \in 1..MaxUi : Somewhere(t, H, i) <=> Somewhere(s, H, i)
  BY <1>4, <1>5, <1>6 DEF Somewhere
<1>10. Core(t, H, K, I)
  BY <1>2, <1>4, <1>7, <1>8, <1>9 DEF Core
<1> QED
  BY <1>4, <1>10 DEF t, none

\* Deferred terminals move to the results.
LEMMA FlushKeeps ==
  ASSUME NEW s, NEW H, NEW K, NEW I, Core(s, H, K, I)
  PROVE  LET t == L!Flush(s)
         IN /\ Core(t, H, K, I)
            /\ t.cmds = s.cmds /\ t.slot = s.slot /\ t.tomb = s.tomb
            /\ t.action = s.action
            /\ s.deferred = <<>> => t.deferred = <<>> /\ t.motion = s.motion
<1> DEFINE t == L!Flush(s)
<1>1. s \in Systems /\ s.deferred \in Seq(Results) /\ s.results \in Seq(Results)
      /\ Unique(s.deferred) /\ Unique(s.results)
  BY SystemFields DEF Core
<1>2. PICK n \in 0..Len(s.deferred) : Flushed(s, t, n)
  BY <1>1, FlushEffect DEF Core
<1> HIDE DEF t
<1> DEFINE a == SubSeq(s.deferred, 1, n)
           b == SubSeq(s.deferred, n + 1, Len(s.deferred))
<1>3. /\ a \in Seq(Results) /\ b \in Seq(Results)
      /\ Ids(s.deferred) = Ids(a) \cup Ids(b)
      /\ Unique(a) /\ Unique(b) /\ \A i \in Ids(a) : i \notin Ids(b)
      /\ Len(a) = n
  BY <1>1, IdsCut
<1>4. s.deferred = <<>> => b = <<>>
  BY <1>1
<1>5. /\ t \in Systems /\ t.cmds = s.cmds /\ t.slot = s.slot /\ t.tomb = s.tomb
      /\ t.action = s.action /\ t.deferred = b /\ t.results = s.results \o a
      /\ Len(s.results) + n <= ResultCapacity
      /\ s.deferred = <<>> => t.motion = s.motion
  BY <1>2 DEF Flushed
<1> HIDE DEF a, b
<1>6. I \subseteq Nat \ {0} /\ Ids(s.deferred) \subseteq I /\ Ids(s.results) \subseteq I
  BY PlaceIds
<1>7. \A i \in Ids(s.results) : i \notin Ids(a)
  BY <1>3, <1>6 DEF Core, Single
<1>8. /\ Ids(t.results) = Ids(s.results) \cup Ids(a)
      /\ Unique(t.results) /\ Len(t.results) = Len(s.results) + Len(a)
  <2> DEFINE x == s.results
  <2>1. /\ x \in Seq(Results) /\ a \in Seq(Results) /\ Unique(x) /\ Unique(a)
        /\ \A i \in Ids(x) : i \notin Ids(a)
    BY <1>1, <1>3, <1>7
  <2>2. t.results = x \o a
    BY <1>5
  <2> HIDE DEF x
  <2>3. /\ Ids(x \o a) = Ids(x) \cup Ids(a)
        /\ Unique(x \o a) /\ Len(x \o a) = Len(x) + Len(a)
    BY <2>1, IdsConcat
  <2> QED
    BY <2>2, <2>3 DEF x
<1>9. \A i : Queued(t, i) <=> Queued(s, i)
  BY <1>5 DEF Queued
<1>10. Named(t, H, I)
  BY <1>3, <1>5, <1>6, <1>8 DEF Core, Named
<1>11. Single(t, H)
  BY <1>3, <1>5, <1>8, <1>9 DEF Core, Single
<1>12. \A i : Somewhere(t, H, i) <=> Somewhere(s, H, i)
  <2>2. t.slot = s.slot /\ t.action = s.action
    BY <1>5
  <2>3. ASSUME NEW i
        PROVE  Somewhere(t, H, i) <=> Somewhere(s, H, i)
    <3>1. Queued(t, i) <=> Queued(s, i)
      BY <1>9
    <3>2. /\ i \in Ids(t.results) <=> i \in Ids(s.results) \/ i \in Ids(a)
          /\ i \in Ids(s.deferred) <=> i \in Ids(a) \/ i \in Ids(t.deferred)
      BY <1>3, <1>5, <1>8
    <3> QED
      BY <2>2, <3>1, <3>2 DEF Somewhere
  <2> QED
    BY <2>3
<1>13. Len(t.results) <= ResultCapacity
  <2>1. Len(t.results) = Len(s.results) + n
    BY <1>3, <1>8
  <2>2. Len(s.results) + n <= ResultCapacity
    BY <1>5
  <2> QED
    BY <2>1, <2>2
<1>14. Core(t, H, K, I)
  <2>1. Unique(t.deferred) /\ Unique(t.results) /\ t.cmds = s.cmds /\ t \in Systems
    BY <1>3, <1>5, <1>8
  <2> QED
    BY <1>6, <1>10, <1>11, <1>12, <1>13, <2>1 DEF Core
<1> QED
  BY <1>4, <1>5, <1>14 DEF t

\* The first results are taken out of the ring.
LEMMA CutKeeps ==
  ASSUME NEW s, NEW H, NEW K, NEW I, NEW K2, Core(s, H, K, I),
         NEW n \in 0..Len(s.results), NEW t \in Systems,
         t.cmds = s.cmds, t.slot = s.slot, t.tomb = s.tomb, t.action = s.action,
         t.deferred = s.deferred,
         t.results = SubSeq(s.results, n + 1, Len(s.results)),
         \A i \in 1..MaxUi :
           i \in K2 <=> i \in K /\ i \notin Ids(SubSeq(s.results, 1, n))
  PROVE  Core(t, H, K2, I)
<1> DEFINE a == SubSeq(s.results, 1, n)
           b == SubSeq(s.results, n + 1, Len(s.results))
<1>1. s \in Systems /\ s.results \in Seq(Results) /\ Unique(s.results)
      /\ Len(s.results) \in Nat /\ Len(s.results) <= ResultCapacity
      /\ I \subseteq Nat \ {0} /\ ResultCapacity \in Nat
  BY SystemFields, CapacityAssumption DEF Core
<1>2. /\ Ids(s.results) = Ids(a) \cup Ids(b)
      /\ Unique(b) /\ \A i \in Ids(a) : i \notin Ids(b)
      /\ Len(b) = Len(s.results) - n
  BY <1>1, IdsCut
<1>3. t.results = b /\ \A i \in 1..MaxUi : i \in K2 <=> i \in K /\ i \notin Ids(a)
  OBVIOUS
<1> HIDE DEF a, b
<1>4. Len(t.results) <= ResultCapacity
  BY <1>1, <1>2, <1>3
<1>5. \A i : Queued(t, i) <=> Queued(s, i)
  BY DEF Queued
<1>6. Named(t, H, I)
  BY <1>2, <1>3 DEF Core, Named
<1>7. Single(t, H)
  BY <1>2, <1>3, <1>5 DEF Core, Single
<1>8. ASSUME NEW i \in 1..MaxUi
      PROVE  i \in K2 <=> Somewhere(t, H, i)
  <2>1. i \in K <=> Somewhere(s, H, i)
    BY DEF Core
  <2>2. i \in Nat \ {0}
    BY <1>8
  <2>3. i \in Ids(a) => ~Somewhere(t, H, i)
    BY <1>2, <1>3, <1>5, <2>2 DEF Core, Single, Somewhere
  <2>4. i \notin Ids(a) => (Somewhere(t, H, i) <=> Somewhere(s, H, i))
    BY <1>2, <1>3, <1>5 DEF Somewhere
  <2> QED
    BY <1>3, <2>1, <2>3, <2>4
<1> QED
  BY <1>1, <1>2, <1>3, <1>4, <1>6, <1>7, <1>8 DEF Core

\* A new identifier enters the queue or the STOP slot.
LEMMA EnqueueEffect ==
  ASSUME NEW s \in Systems, NEW c \in Commands
  PROVE  LET t == Publish(Claim(s, c), c)
         IN /\ t \in Systems /\ t.tomb = s.tomb /\ t.action = s.action
            /\ t.deferred = s.deferred /\ t.results = s.results
            /\ c.kind = "stop" => t.slot = c /\ t.cmds = s.cmds /\ t.motion = s.motion
            /\ c.kind # "stop" => t.slot = s.slot /\ t.cmds = Append(s.cmds, c)
            /\ c.kind = "oneshot" => t.motion = c.id
<1> DEFINE u == Claim(s, c)
           q == Append(s.cmds, c)
<1>1. c.id \in Nat /\ q \in Seq(Commands)
  <2>1. c.id \in Nat
    BY DEF Commands
  <2>2. s.cmds \in Seq(Commands)
    BY SystemFields
  <2> QED
    BY <2>1, <2>2
<1>2. /\ u \in Systems /\ u.tomb = s.tomb /\ u.action = s.action
      /\ u.deferred = s.deferred /\ u.results = s.results
      /\ u.slot = s.slot /\ u.cmds = s.cmds
      /\ c.kind = "stop" => u.motion = s.motion
      /\ c.kind = "oneshot" => u.motion = c.id
  BY <1>1 DEF Claim, Systems, OwnsMotion
<1> HIDE DEF u
<1>3. CASE c.kind = "stop"
  <2>1. Publish(u, c) = [u EXCEPT !.slot = c]
    BY <1>3 DEF Publish
  <2> QED
    BY <1>2, <1>3, <2>1 DEF Systems, u
<1>4. CASE c.kind # "stop"
  <2>1. Publish(u, c) = [u EXCEPT !.cmds = q]
    BY <1>2, <1>4 DEF Publish, Systems
  <2> HIDE DEF q
  <2>2. LET t == Publish(u, c)
        IN /\ t \in Systems /\ t.tomb = s.tomb /\ t.action = s.action
           /\ t.deferred = s.deferred /\ t.results = s.results
           /\ t.slot = s.slot /\ t.cmds = q
           /\ c.kind = "oneshot" => t.motion = c.id
    BY <1>1, <1>2, <2>1 DEF Systems
  <2> QED
    BY <1>4, <2>2 DEF u, q
<1> QED
  BY <1>3, <1>4

LEMMA EnqueueKeeps ==
  ASSUME NEW s, NEW K, NEW I, NEW K2, NEW I2, NEW c \in Commands,
         Core(s, {}, K, I), c.id \notin I,
         I \subseteq I2, c.id \in I2, I2 \subseteq Nat \ {0},
         \A i \in 1..MaxUi : i \in K2 <=> i \in K \/ i = c.id,
         c.kind = "stop" => s.slot = NoCommand,
         c.kind # "stop" /\ Local(c) => c.kind = "oneshot"
  PROVE  Core(Publish(Claim(s, c), c), {}, K2, I2)
<1> DEFINE t == Publish(Claim(s, c), c)
           q == Append(s.cmds, c)
<1>1. s \in Systems /\ s.cmds \in Seq(Commands) /\ Unique(s.cmds)
      /\ Ids(s.cmds) \subseteq I /\ Ids(s.deferred) \subseteq I
      /\ Ids(s.results) \subseteq I
  BY SystemFields, PlaceIds DEF Core
<1>2. /\ t \in Systems /\ t.tomb = s.tomb /\ t.action = s.action
      /\ t.deferred = s.deferred /\ t.results = s.results
      /\ c.kind = "stop" => t.slot = c /\ t.cmds = s.cmds
      /\ c.kind # "stop" => t.slot = s.slot /\ t.cmds = q
  BY <1>1, EnqueueEffect
<1>3. q \in Seq(Commands) /\ Ids(q) = Ids(s.cmds) \cup {c.id} /\ Unique(q)
  BY <1>1, IdsAppend
<1>4. /\ DOMAIN s.cmds \subseteq DOMAIN q
      /\ \A n \in DOMAIN s.cmds : q[n] = s.cmds[n]
      /\ \A n \in DOMAIN q : n \in DOMAIN s.cmds \/ q[n] = c
  BY <1>1
<1> HIDE DEF t, q
<1>5. c.id # 0 /\ s.slot.id # c.id /\ s.action.id # c.id
      /\ s.slot.id \in I \cup {0} /\ s.action.id \in I \cup {0}
  BY PlaceIds
<1>6. s.tomb # c.id
  <2>1. s.tomb # 0 => s.tomb \in Ids(s.cmds)
    BY DEF Core, Named, Ids
  <2> QED
    BY <1>1, <1>5, <2>1
<1>7. CASE c.kind = "stop"
  <2>1. \A i : Queued(t, i) <=> Queued(s, i)
    BY <1>2, <1>7 DEF Queued
  <2>2. Named(t, {}, I2)
    BY <1>2, <1>7 DEF Core, Named
  <2>3. s.slot.id = 0
    BY <1>7, NoCommandType
  <2>4. ~Queued(s, c.id) /\ c.id \notin Ids(s.deferred) /\ c.id \notin Ids(s.results)
    BY <1>1 DEF Queued
  <2>5. Single(t, {})
    BY <1>2, <1>5, <1>7, <2>1, <2>3, <2>4 DEF Core, Single
  <2>6. \A i \in 1..MaxUi : Somewhere(t, {}, i) <=> Somewhere(s, {}, i) \/ i = c.id
    BY <1>2, <1>7, <2>1, <2>3 DEF Somewhere
  <2> QED
    BY <1>1, <1>2, <1>7, <2>2, <2>5, <2>6 DEF Core, t
<1>8. CASE c.kind # "stop"
  <2>1. \A i : Queued(t, i) <=> Queued(s, i) \/ i = c.id
    BY <1>2, <1>3, <1>6, <1>8 DEF Queued
  <2>2. Named(t, {}, I2)
    <3>1. \A n \in DOMAIN q : /\ q[n].id \in I2 /\ q[n].kind # "stop"
                              /\ Local(q[n]) => q[n].kind = "oneshot"
      BY <1>4, <1>8 DEF Core, Named
    <3>2. s.tomb # 0 => \E n \in DOMAIN q :
                          q[n].id = s.tomb /\ q[n].kind = "oneshot"
      BY <1>4 DEF Core, Named
    <3> QED
      BY <1>2, <1>8, <3>1, <3>2 DEF Core, Named
  <2>3. c.id \notin Ids(s.deferred) /\ c.id \notin Ids(s.results)
    BY <1>1
  <2>4. Single(t, {})
    BY <1>2, <1>5, <1>8, <2>1, <2>3 DEF Core, Single
  <2>5. \A i \in 1..MaxUi : Somewhere(t, {}, i) <=> Somewhere(s, {}, i) \/ i = c.id
    BY <1>2, <1>8, <2>1 DEF Somewhere
  <2> QED
    BY <1>2, <1>3, <1>8, <2>2, <2>4, <2>5 DEF Core, t
<1> QED
  BY <1>7, <1>8

\* The action ends; it stays when its terminal finds no room.
LEMMA CompleteKeeps ==
  ASSUME NEW s, NEW H, NEW K, NEW I, Core(s, H, K, I), s.action # NoCommand,
         NEW code \in {"COMPLETED", "STOPPED", "CANCELLED", "FAILED"}
  PROVE  LET t == L!Complete(s, code)
         IN /\ Core(t, H, K, I)
            /\ t.cmds = s.cmds /\ t.slot = s.slot /\ t.tomb = s.tomb
            /\ t.action \in {s.action, NoCommand}
            /\ L!CanStore(s) => t.action = NoCommand
<1> DEFINE r == L!Result(s.action, code)
           u == L!Store(s, r)
           v == L!Activate(s, NoCommand)
           t == L!Activate(u, NoCommand)
<1>1. s \in Systems /\ s.action \in Commands
  BY SystemFields DEF Core
<1>2. r \in Results /\ r.id = s.action.id
  BY <1>1 DEF L!Result, Results, Commands
<1> HIDE DEF r
<1>3. CASE ~L!CanStore(s)
  BY <1>3 DEF L!Complete
<1>4. CASE L!CanStore(s)
  <2>1. Core(v, H \cup {r.id}, K, I) /\ r.id \notin H
    BY <1>2, ActionInHand
  <2>2. /\ v \in Systems /\ v.cmds = s.cmds /\ v.slot = s.slot /\ v.tomb = s.tomb
        /\ v.motion = s.motion /\ v.action = NoCommand
        /\ v.deferred = s.deferred /\ v.results = s.results
    BY <1>1, NoCommandType, ActivateEffect
  <2>3. L!CanStore(v)
    BY <1>4, <2>2 DEF L!CanStore, L!DeferredRoom, L!ResultRoom
  <2>4. Core(L!Store(v, r), (H \cup {r.id}) \ {r.id}, K, I)
    BY <1>2, <2>1, <2>3, StoreKeeps
  <2>5. (H \cup {r.id}) \ {r.id} = H
    BY <2>1
  <2> DEFINE w == L!Store(v, r)
  <2>6. Stored(v, w, r) /\ Stored(s, u, r)
    BY <1>1, <1>2, <1>4, <2>2, <2>3, StoreEffect
  <2>7. Core(w, H, K, I)
    BY <2>4, <2>5
  <2> HIDE DEF u, v, w
  <2>8. u \in Systems /\ w \in Systems /\ u.slot = s.slot
    BY <2>6 DEF Stored
  <2>9. /\ t \in Systems /\ t.cmds = u.cmds /\ t.slot = u.slot /\ t.tomb = u.tomb
        /\ t.action = NoCommand
        /\ t.deferred = u.deferred /\ t.results = u.results
    BY <2>8, NoCommandType, ActivateEffect
  <2>10. L!Complete(s, code) = t
    BY <1>4 DEF L!Complete, L!NoCommand, NoCommand, u, r
  <2> HIDE DEF t
  <2>11. /\ t.cmds = s.cmds /\ t.slot = s.slot /\ t.tomb = s.tomb
         /\ w.cmds = s.cmds /\ w.slot = s.slot /\ w.tomb = s.tomb
         /\ w.action = NoCommand
    BY <2>2, <2>6, <2>9 DEF Stored
  <2>12. t.deferred = w.deferred /\ t.results = w.results
    BY <2>2, <2>6, <2>9 DEF Stored
  <2>13. Core(t, H, K, I)
    BY <2>7, <2>9, <2>11, <2>12
    DEF Core, Named, Single, Somewhere, Queued
  <2> QED
    BY <2>9, <2>10, <2>11, <2>13
<1> QED
  BY <1>3, <1>4
-----------------------------------------------------------------------------
(* What waits in the queue.                                                *)

Entries(s) == {s.cmds[n] : n \in DOMAIN s.cmds}

\* A terminal carries the identifier and the kind of its command.
LEMMA ResultType ==
  ASSUME NEW c \in Commands,
         NEW code \in {"COMPLETED", "STOPPED", "CANCELLED", "FAILED"}
  PROVE  /\ L!Result(c, code) \in Results
         /\ L!Result(c, code).id = c.id /\ L!Result(c, code).kind = c.kind
         /\ L!Result(c, code).code = code
  BY DEF L!Result, Results, Commands

\* There is room for a terminal where one may be deferred.
LEMMA RoomStores ==
  ASSUME NEW s, NEW t, t.deferred = s.deferred, L!DeferredRoom(s)
  PROVE  L!CanStore(t) /\ L!DeferredRoom(t)
  BY DEF L!CanStore, L!DeferredRoom

\* Nothing deferred leaves room.
LEMMA EmptyHasRoom ==
  ASSUME NEW s \in Systems, s.deferred = <<>> \/ Len(s.deferred) <= 1
  PROVE  L!DeferredRoom(s)
<1>1. DeferredCapacity \in Nat /\ DeferredCapacity >= 2
  BY MailboxAssumption
<1>2. Len(s.deferred) \in Nat /\ (s.deferred = <<>> => Len(s.deferred) = 0)
  BY SystemFields
<1> QED
  BY <1>1, <1>2 DEF L!DeferredRoom

\* A local command waits alone, or not at all: then the next command that is
\* popped leaves none.
Alone(s) == NoLocal(s) \/ (Len(s.cmds) = 1 /\ s.tomb = 0)

LEMMA SkippedEntries ==
  ASSUME NEW s, NEW H, NEW K, NEW I, Core(s, H, K, I), Alone(s)
  PROVE  LET t == SkipTombstone(s)
         IN /\ Alone(t) /\ Entries(t) \subseteq Entries(s)
            /\ t.cmds = <<>> => NoLocal(t)
            /\ NoLocal(s) => NoLocal(t)
<1> DEFINE t == SkipTombstone(s)
           h == Head(s.cmds)
           q == Tail(s.cmds)
<1>1. s.cmds \in Seq(Commands) /\ Unique(s.cmds)
  BY SystemFields DEF Core
<1>2. /\ t = s \/ (s.cmds # <<>> /\ t.cmds = q /\ t.tomb = 0
                   /\ s.tomb = h.id /\ s.tomb # 0)
  BY SkipKeeps
<1>3. t.cmds = <<>> => NoLocal(t)
  BY IdsNone DEF NoLocal
<1> HIDE DEF t
<1>4. CASE t = s
  BY <1>3, <1>4 DEF t
<1>5. CASE s.cmds # <<>> /\ t.cmds = q /\ t.tomb = 0 /\ s.tomb = h.id /\ s.tomb # 0
  <2>1. /\ h = s.cmds[1] /\ 1 \in DOMAIN s.cmds
        /\ \A n \in DOMAIN q : n + 1 \in DOMAIN s.cmds /\ q[n] = s.cmds[n + 1]
        /\ h.id \notin Ids(q)
    BY <1>1, <1>5, IdsTail
  <2> HIDE DEF q, h
  <2>2. Entries(t) \subseteq Entries(s)
    BY <1>5, <2>1 DEF Entries
  <2>3. NoLocal(s)
    BY <1>5 DEF Alone
  <2>4. NoLocal(t)
    <3>1. ASSUME NEW n \in DOMAIN q, Local(q[n])
          PROVE  FALSE
      <4>1. q[n].id = s.tomb
        BY <2>1, <2>3, <3>1 DEF NoLocal
      <4>2. q[n].id \in Ids(q)
        BY DEF Ids
      <4> QED
        BY <1>5, <2>1, <4>1, <4>2
    <3> QED
      BY <1>5, <3>1 DEF NoLocal
  <2> QED
    BY <2>2, <2>4 DEF Alone, t
<1> QED
  BY <1>2, <1>3, <1>4, <1>5 DEF t

LEMMA PoppedEntries ==
  ASSUME NEW s \in Systems, s.cmds # <<>>, Alone(s)
  PROVE  LET t == PopCommand(s)
         IN /\ NoLocal(t) /\ Entries(t) \subseteq Entries(s)
            /\ Head(s.cmds) \in Entries(s)
<1> DEFINE t == PopCommand(s)
           q == Tail(s.cmds)
<1>1. s.cmds \in Seq(Commands)
  BY SystemFields
<1>2. /\ Head(s.cmds) = s.cmds[1] /\ 1 \in DOMAIN s.cmds
      /\ \A n \in DOMAIN q : n + 1 \in DOMAIN s.cmds /\ q[n] = s.cmds[n + 1]
      /\ Len(q) = Len(s.cmds) - 1 /\ q \in Seq(Commands)
  BY <1>1, IdsTail
<1>3. t.cmds = q /\ t.tomb = s.tomb
  BY PopCommandEffect
<1>4. Len(s.cmds) = 1 => DOMAIN q = {}
  <2>1. DOMAIN q = 1..Len(q)
    BY <1>2
  <2> QED
    BY <1>2, <2>1
<1> HIDE DEF t, q
<1>5. Entries(t) \subseteq Entries(s)
  BY <1>2, <1>3 DEF Entries
<1>6. NoLocal(t)
  <2>1. CASE NoLocal(s)
    BY <1>2, <1>3, <2>1 DEF NoLocal
  <2>2. CASE Len(s.cmds) = 1
    BY <1>3, <1>4, <2>2 DEF NoLocal
  <2> QED
    BY <2>1, <2>2 DEF Alone
<1> QED
  BY <1>2, <1>5, <1>6 DEF Entries, t
-----------------------------------------------------------------------------
(* The cancellation of everything that waits.                              *)

\* Where a local command can still be after one turn: behind a STOP whose
\* terminal found a place.
Behind(s) ==
  \/ NoLocal(s)
  \/ /\ Len(s.cmds) = 1 /\ s.tomb = 0 /\ s.slot = NoCommand
     /\ Len(s.deferred) <= 1

\* One turn, which cancels at most one command.
LEMMA CancelNextKeeps ==
  ASSUME NEW s, NEW K, NEW I, Core(s, {}, K, I), Alone(s)
  PROVE  LET t == CancelNext(s)
         IN /\ Core(t, {}, K, I)
            /\ t.action = s.action /\ Entries(t) \subseteq Entries(s)
            /\ Alone(t)
            /\ NoLocal(s) => NoLocal(t)
            /\ s.deferred = <<>> => Behind(t)
            /\ Behind(s) => NoLocal(t)
<1> DEFINE t == CancelNext(s)
           u == SkipTombstone(s)
<1>1. s \in Systems /\ s.slot \in Commands /\ Len(s.deferred) \in Nat
      /\ s.deferred \in Seq(Results)
  BY SystemFields DEF Core
<1>2. CASE ~L!DeferredRoom(s)
  <2>1. t = s
    BY <1>2 DEF CancelNext
  <2>2. s.deferred # <<>> /\ ~(Len(s.deferred) <= 1)
    BY <1>1, <1>2, EmptyHasRoom
  <2> QED
    BY <2>1, <2>2 DEF Behind
<1>3. CASE L!DeferredRoom(s) /\ StopPending(s)
  <2> DEFINE p == PopStop(s)
             r == L!Result(s.slot, "CANCELLED")
             w == L!Store(p, r)
  <2>1. s.slot # NoCommand
    BY <1>3 DEF StopPending
  <2>2. Core(p, {} \cup {s.slot.id}, K, I)
    BY <2>1, StopInHand
  <2>3. r \in Results /\ r.id = s.slot.id
    BY <1>1, ResultType
  <2>4. /\ p \in Systems /\ p.cmds = s.cmds /\ p.slot = NoCommand
        /\ p.tomb = s.tomb /\ p.action = s.action
        /\ p.deferred = s.deferred
    BY <1>1, PopStopEffect
  <2>5. t = w
    BY <1>3 DEF CancelNext
  <2> HIDE DEF p, r, t
  <2>6. L!CanStore(p)
    BY <1>3, <2>4, RoomStores
  <2>7. Core(w, ({} \cup {s.slot.id}) \ {r.id}, K, I)
    BY <2>2, <2>3, <2>6, StoreKeeps
  <2>8. ({} \cup {s.slot.id}) \ {r.id} = {}
    BY <2>3
  <2>9. Stored(p, w, r)
    BY <2>3, <2>4, <2>6, StoreEffect
  <2> HIDE DEF w
  <2>10. /\ w.cmds = s.cmds /\ w.slot = NoCommand /\ w.tomb = s.tomb
         /\ w.action = s.action
    BY <2>4, <2>9 DEF Stored
  <2>11. s.deferred = <<>> => Len(w.deferred) <= 1
    <3>1. s.deferred = <<>> => Len(s.deferred) = 0
      OBVIOUS
    <3>2. Len(Append(s.deferred, r)) = Len(s.deferred) + 1
      BY <1>1, <2>3
    <3>3. \/ w.deferred = s.deferred /\ Len(w.deferred) = Len(s.deferred)
          \/ Len(w.deferred) = Len(s.deferred) + 1
      BY <2>4, <2>9, <3>2, Zenon DEF Stored
    <3>4. Len(w.deferred) = Len(s.deferred) \/ Len(w.deferred) = Len(s.deferred) + 1
      BY <3>3
    <3> DEFINE a == Len(w.deferred)
               b == Len(s.deferred)
               none == s.deferred = <<>>
    <3>5. b \in Nat /\ (none => b = 0) /\ (a = b \/ a = b + 1)
      BY <1>1, <3>1, <3>4
    <3> HIDE DEF a, b, none
    <3>6. none => a <= 1
      BY <3>5
    <3> QED
      BY <3>6 DEF a, none
  <2>12. Core(w, {}, K, I)
    BY <2>7, <2>8
  <2>13. Behind(s) => NoLocal(s)
    BY <2>1 DEF Behind
  <2>14. Alone(w) /\ (NoLocal(s) => NoLocal(w)) /\ Entries(w) = Entries(s)
    BY <2>10 DEF Alone, NoLocal, Entries
  <2>15. s.deferred = <<>> => Behind(w)
    BY <2>10, <2>11, <2>14 DEF Behind, Alone
  <2> QED
    BY <2>5, <2>10, <2>12, <2>13, <2>14, <2>15 DEF t
<1>4. CASE L!DeferredRoom(s) /\ ~StopPending(s)
  <2>1. /\ Core(u, {}, K, I)
        /\ u.slot = s.slot /\ u.action = s.action
        /\ u.deferred = s.deferred
        /\ u.cmds # <<>> => Head(u.cmds).id # u.tomb
    BY SkipKeeps
  <2>2. /\ Alone(u) /\ Entries(u) \subseteq Entries(s)
        /\ u.cmds = <<>> => NoLocal(u)
    BY SkippedEntries
  <2> DEFINE p == PopCommand(u)
             h == Head(u.cmds)
             r == L!Result(h, "CANCELLED")
             w == L!Store(p, r)
  <2>3. t = IF u.cmds = <<>> THEN u ELSE w
    BY <1>4 DEF CancelNext
  <2> HIDE DEF t, u
  <2>4. CASE u.cmds = <<>>
    BY <2>1, <2>2, <2>3, <2>4 DEF Alone, Behind, t, u
  <2>5. CASE u.cmds # <<>>
    <3>1. u \in Systems /\ u.cmds \in Seq(Commands)
      BY <2>1, SystemFields DEF Core
    <3>2. h \in Commands
      BY <2>5, <3>1, IdsTail
    <3>3. Core(p, {} \cup {h.id}, K, I)
      BY <2>1, <2>5, CommandInHand
    <3>4. p \in Systems /\ p.slot = u.slot /\ p.action = u.action
          /\ p.deferred = u.deferred
      BY <2>5, <3>1, PopCommandEffect
    <3>5. NoLocal(p) /\ Entries(p) \subseteq Entries(u)
      BY <2>2, <2>5, <3>1, PoppedEntries
    <3> HIDE DEF p, h
    <3>6. r \in Results /\ r.id = h.id
      BY <3>2, ResultType
    <3> HIDE DEF r
    <3>7. L!CanStore(p)
      BY <1>4, <2>1, <3>4, RoomStores
    <3>8. Core(w, ({} \cup {h.id}) \ {r.id}, K, I)
      BY <3>3, <3>6, <3>7, StoreKeeps
    <3>9. ({} \cup {h.id}) \ {r.id} = {}
      BY <3>6
    <3>10. Stored(p, w, r)
      BY <3>4, <3>6, <3>7, StoreEffect
    <3> HIDE DEF w
    <3>11. Core(w, {}, K, I)
      BY <3>8, <3>9
    <3>12. NoLocal(w) /\ Entries(w) = Entries(p) /\ w.action = s.action
      BY <2>1, <3>4, <3>5, <3>10 DEF Stored, NoLocal, Entries
    <3> QED
      BY <2>2, <2>3, <2>5, <3>5, <3>11, <3>12 DEF Alone, Behind, t
  <2> QED
    BY <2>4, <2>5
<1> QED
  BY <1>2, <1>3, <1>4

\* A set of natural numbers has a least element.
LEMMA Least ==
  ASSUME NEW T, T \subseteq Nat, T # {}
  PROVE  \E n \in T : \A m \in T : n <= m
<1> DEFINE R == OpToRel(<, Nat)
<1>1. IsWellFoundedOn(R, Nat)
  BY NatLessThanWellFounded
<1>2. \A a, b \in Nat : a < b => <<a, b>> \in R
  BY DEF OpToRel
<1> HIDE DEF R
<1>3. \E n \in T : \A m \in T : ~(<<m, n>> \in R)
  BY <1>1, WFMin, Zenon
<1>4. ASSUME NEW n \in T, \A m \in T : ~(<<m, n>> \in R), NEW m \in T
      PROVE  n <= m
  <2>1. n \in Nat /\ m \in Nat
    OBVIOUS
  <2>2. ~(m < n)
    BY <1>2, <1>4, <2>1
  <2> QED
    BY <2>1, <2>2
<1> QED
  BY <1>3, <1>4

\* What holds at zero and is passed on holds up to N.
LEMMA Climb ==
  ASSUME NEW N \in Nat, NEW T, 0 \in T,
         \A n \in 1..N : n - 1 \in T => n \in T
  PROVE  0..N \subseteq T
<1> DEFINE U == (0..N) \ T
<1>1. SUFFICES ASSUME U # {} PROVE FALSE
  OBVIOUS
<1>2. U \subseteq Nat
  OBVIOUS
<1>3. PICK n \in U : \A m \in U : n <= m
  BY <1>1, <1>2, Least
<1>4. n \in 1..N /\ n - 1 \in 0..N /\ ~(n <= n - 1)
  BY <1>3
<1>5. n - 1 \in T
  BY <1>3, <1>4
<1> QED
  BY <1>3, <1>4, <1>5

\* The turns of the cancellation.
LEMMA CancelUnfolds ==
  ASSUME NEW s
  PROVE  \E f : /\ f[0] = s /\ CancelAll(s) = f[CommandCapacity + 1]
                /\ \A n \in 1..(CommandCapacity + 1) : f[n] = CancelNext(f[n - 1])
<1> DEFINE N == CommandCapacity + 1
           Turn(g, n) == IF n = 0 THEN s ELSE CancelNext(g[n - 1])
           Is(g, m) == g = [n \in 0..m |-> Turn(g, n)]
           T == {m \in 0..N : \E g : Is(g, m)}
<1>1. N \in Nat
  BY CapacityAssumption
<1> HIDE DEF N
<1>2. 0 \in T
  <2> DEFINE g == [n \in 0..0 |-> s]
  <2>1. g = [n \in 0..0 |-> Turn(g, n)]
    OBVIOUS
  <2> HIDE DEF g
  <2> QED
    BY <1>1, <2>1
<1>3. ASSUME NEW m \in 1..N, m - 1 \in T
      PROVE  m \in T
  <2>1. PICK g : Is(g, m - 1)
    BY <1>3
  <2> DEFINE h == [n \in 0..m |-> IF n = m THEN Turn(g, m) ELSE g[n]]
  <2>2. m \in Nat /\ m - 1 \in Nat /\ m # 0
    BY <1>1
  <2>3. \A n \in 0..(m - 1) : n # m /\ n \in 0..m
    BY <2>2
  <2>4. \A n \in 0..(m - 1) : h[n] = g[n]
    BY <2>3
  <2>5. \A n \in 0..m : n # 0 => n - 1 \in 0..(m - 1)
    BY <2>2
  <2>6. \A n \in 0..m : h[n] = Turn(h, n)
    <3>1. \A n \in 0..m : Turn(h, n) = Turn(g, n)
      BY <2>4, <2>5
    <3>2. \A n \in 0..(m - 1) : g[n] = Turn(g, n)
      BY <2>1
    <3>3. \A n \in 0..m : n = m \/ n \in 0..(m - 1)
      BY <2>2
    <3>4. h[m] = Turn(g, m)
      BY <2>2
    <3> QED
      BY <2>4, <3>1, <3>2, <3>3, <3>4
  <2>7. Is(h, m)
    BY <2>6
  <2> HIDE DEF h
  <2> QED
    BY <2>7
<1> HIDE DEF T
<1>4. N \in T
  <2>1. 0..N \subseteq T
    BY <1>1, <1>2, <1>3, Climb, Zenon
  <2>2. N \in 0..N
    BY <1>1
  <2> QED
    BY <2>1, <2>2
<1>5. \E g : Is(g, N)
  BY <1>4 DEF T
<1> DEFINE f == CHOOSE g : Is(g, N)
<1>6. Is(f, N)
  BY <1>5
<1>7. CancelAll(s) = f[N]
  BY Zenon DEF CancelAll, N
<1> HIDE DEF f
<1>8. f[0] = s /\ \A n \in 1..N : f[n] = CancelNext(f[n - 1])
  <2>1. 0 \in 0..N /\ \A n \in 1..N : n \in 0..N /\ n # 0
    BY <1>1
  <2> QED
    BY <1>6, <2>1
<1> QED
  BY <1>7, <1>8 DEF N

\* Nothing is lost, and no local command is left.
LEMMA CancelAllKeeps ==
  ASSUME NEW s, NEW K, NEW I, Core(s, {}, K, I), Lonely(s)
  PROVE  LET t == CancelAll(s)
         IN /\ Core(t, {}, K, I) /\ NoLocal(t)
            /\ t.action = s.action /\ Entries(t) \subseteq Entries(s)
<1> DEFINE N == CommandCapacity + 1
<1>1. PICK f : /\ f[0] = s /\ CancelAll(s) = f[N]
               /\ \A n \in 1..N : f[n] = CancelNext(f[n - 1])
  BY CancelUnfolds
<1>2. N \in Nat /\ N >= 2
  BY CapacityAssumption
<1> HIDE DEF N
<1>3. Alone(s) /\ (NoLocal(s) \/ s.deferred = <<>>)
  BY DEF Alone, Lonely
<1> DEFINE T == {n \in 0..N : /\ Core(f[n], {}, K, I) /\ Alone(f[n])
                              /\ f[n].action = s.action
                              /\ Entries(f[n]) \subseteq Entries(s)
                              /\ n = 0 => f[n] = s
                              /\ n = 1 => Behind(f[n])
                              /\ n >= 2 => NoLocal(f[n])}
<1>4. 0 \in T
  BY <1>1, <1>2, <1>3
<1>5. ASSUME NEW n \in 1..N, n - 1 \in T
      PROVE  n \in T
  <2> DEFINE u == f[n - 1]
             t == f[n]
  <2>1. /\ Core(u, {}, K, I) /\ Alone(u) /\ u.action = s.action
        /\ Entries(u) \subseteq Entries(s)
        /\ n - 1 = 0 => u = s
        /\ n - 1 = 1 => Behind(u)
        /\ n - 1 >= 2 => NoLocal(u)
    BY <1>5
  <2>2. t = CancelNext(u)
    BY <1>1
  <2> HIDE DEF T, t, u
  <2>3. /\ Core(t, {}, K, I)
        /\ t.action = u.action /\ Entries(t) \subseteq Entries(u)
        /\ Alone(t)
        /\ NoLocal(u) => NoLocal(t)
        /\ u.deferred = <<>> => Behind(t)
        /\ Behind(u) => NoLocal(t)
    BY <2>1, <2>2, CancelNextKeeps
  <2>4. n \in Nat /\ n \in 0..N /\ n # 0 /\ (n = 1 <=> n - 1 = 0)
        /\ (n >= 2 => n - 1 = 1 \/ n - 1 >= 2)
    BY <1>2
  <2>5. n = 1 => Behind(t)
    BY <1>3, <2>1, <2>3, <2>4 DEF Behind
  <2>6. n >= 2 => NoLocal(t)
    BY <2>1, <2>3, <2>4
  <2> QED
    BY <2>1, <2>3, <2>4, <2>5, <2>6 DEF T, t
<1>6. N \in T
  <2>1. 0..N \subseteq T
    <3> HIDE DEF T
    <3> QED
      BY <1>2, <1>4, <1>5, Climb, Zenon
  <2>2. N \in 0..N
    BY <1>2
  <2> QED
    BY <2>1, <2>2
<1> QED
  BY <1>1, <1>2, <1>6
-----------------------------------------------------------------------------
(* What the executor does to the channels.                                 *)

\* No ordinary command appears.
LEMMA RunsShrink ==
  ASSUME NEW s, NEW t, Entries(t) \subseteq Entries(s),
         \/ t.action \in {s.action, NoCommand} \cup Entries(s)
         \/ t.action.kind = "stop"
  PROVE  Runs(t) \subseteq Runs(s)
  BY DEF Runs, Entries

\* The instance sees the same channels.
LEMMA SameChannels ==
  ASSUME NEW s, NEW mask
  PROVE  /\ L!NoCommand = NoCommand
         /\ L!Idle(s) <=> s.action = NoCommand
         /\ L!CanTakeQueuedMotion(s) <=> CanTakeQueuedMotion(s)
         /\ L!QueuedMotion(s) = QueuedMotion(s)
         /\ L!TakeQueuedMotion(s) = TakeQueuedMotion(s)
         /\ L!WidenPendingStop(s, mask) = WidenPendingStop(s, mask)
<1>1. L!NoCommand = NoCommand
  BY DEF L!NoCommand, NoCommand
<1>2. L!QueuedMotions(s) = QueuedMotions(s)
  BY DEF L!QueuedMotions, QueuedMotions
<1>3. L!StopPending(s) <=> StopPending(s)
  BY <1>1 DEF L!StopPending, StopPending
<1> QED
  BY <1>1, <1>2, <1>3
  DEF L!Idle, L!CanTakeQueuedMotion, CanTakeQueuedMotion, L!QueuedMotion,
      QueuedMotion, L!TakeQueuedMotion, TakeQueuedMotion,
      L!WidenPendingStop, WidenPendingStop

\* What is in the hand is forgotten: no request of the user interface.
LEMMA HandDropped ==
  ASSUME NEW s, NEW H, NEW K, NEW I, NEW i, Core(s, H, K, I), i \notin 1..MaxUi
  PROVE  Core(s, H \ {i}, K, I)
<1> DEFINE G == H \ {i}
<1>1. G \subseteq H
  OBVIOUS
<1>2. \A j \in 1..MaxUi : Somewhere(s, G, j) <=> Somewhere(s, H, j)
  BY DEF Somewhere
<1> HIDE DEF G
<1>3. Named(s, G, I) /\ Single(s, G)
  BY <1>1 DEF Core, Named, Single
<1>4. Core(s, G, K, I)
  BY <1>2, <1>3 DEF Core
<1> QED
  BY <1>4 DEF G

\* A local command that waits is the motion that can be taken back.
LEMMA TakenBack ==
  ASSUME NEW s, NEW H, NEW K, NEW I, Core(s, H, K, I), Lonely(s)
  PROVE  /\ ~CanTakeQueuedMotion(s) => NoLocal(s)
         /\ CanTakeQueuedMotion(s) =>
              /\ NoLocal(TakeQueuedMotion(s))
              /\ QueuedMotion(s).id \in 1..MaxUi => s.deferred = <<>>
<1>1. s \in Systems /\ s.cmds \in Seq(Commands)
  BY SystemFields DEF Core
<1>2. ASSUME NEW n \in DOMAIN s.cmds, Local(s.cmds[n]), s.cmds[n].id # s.tomb
      PROVE  /\ n = 1 /\ DOMAIN s.cmds = {1} /\ s.tomb = 0 /\ s.deferred = <<>>
             /\ s.motion = s.cmds[1].id /\ s.cmds[1].kind = "oneshot"
             /\ s.motion # 0
  <2>1. /\ Len(s.cmds) = 1 /\ s.tomb = 0 /\ s.motion = s.cmds[1].id
        /\ s.deferred = <<>>
    BY <1>2 DEF Lonely, NoLocal
  <2>2. DOMAIN s.cmds = {1}
    BY <1>1, <2>1
  <2>3. s.cmds[1].kind = "oneshot" /\ s.cmds[n].id # 0
    BY <1>2, <2>2, <2>1 DEF Core, Named
  <2> QED
    BY <1>2, <2>1, <2>2, <2>3
<1>3. ASSUME ~NoLocal(s)
      PROVE  CanTakeQueuedMotion(s)
  <2>1. PICK n \in DOMAIN s.cmds : Local(s.cmds[n]) /\ s.cmds[n].id # s.tomb
    BY <1>3 DEF NoLocal
  <2>2. s.cmds[1] \in QueuedMotions(s)
    BY <1>2, <2>1 DEF QueuedMotions
  <2> QED
    BY <1>2, <2>1, <2>2 DEF CanTakeQueuedMotion
<1>4. ASSUME CanTakeQueuedMotion(s)
      PROVE  /\ NoLocal(TakeQueuedMotion(s))
             /\ QueuedMotion(s).id \in 1..MaxUi => s.deferred = <<>>
  <2> DEFINE t == TakeQueuedMotion(s)
             c == QueuedMotion(s)
  <2>1. t.cmds = s.cmds /\ t.tomb = s.motion /\ c.id = s.motion
    BY <1>4, MotionInHand
  <2>2. s.tomb = 0 /\ s.motion # 0
    BY <1>4 DEF CanTakeQueuedMotion
  <2>3. c \in QueuedMotions(s)
    BY <1>4 DEF CanTakeQueuedMotion, QueuedMotion
  <2>4. PICK n \in DOMAIN s.cmds : s.cmds[n] = c
    BY <2>3 DEF QueuedMotions
  <2> HIDE DEF t, c
  <2>5. c.id \in 1..MaxUi => s.deferred = <<>>
    BY <1>2, <2>1, <2>2, <2>4 DEF Local
  <2>6. ASSUME NEW m \in DOMAIN s.cmds, Local(s.cmds[m])
        PROVE  s.cmds[m].id = s.motion
    <3>1. s.cmds[m].id # s.tomb
      BY <2>2, <2>6 DEF Core, Named
    <3> QED
      BY <1>2, <2>6, <3>1
  <2>7. NoLocal(t)
    BY <2>1, <2>6 DEF NoLocal
  <2> QED
    BY <2>5, <2>7 DEF t, c
<1> QED
  BY <1>3, <1>4

\* aethor_app_fail_queued_motion: the terminal of a local motion finds room.
LEMMA FailQueuedKeeps ==
  ASSUME NEW s, NEW K, NEW I, Core(s, {}, K, I), Lonely(s)
  PROVE  LET t == L!FailQueuedMotion(s)
         IN /\ Core(t, {}, K, I) /\ NoLocal(t)
            /\ t.action = s.action /\ Entries(t) = Entries(s)
            /\ t.slot.id = s.slot.id /\ s.slot.mask \subseteq t.slot.mask
<1> DEFINE c == QueuedMotion(s)
           u == TakeQueuedMotion(s)
           v == WidenPendingStop(u, c.mask)
           r == L!Result(c, "FAILED")
           w == L!Store(v, r)
           t == L!FailQueuedMotion(s)
<1>1. CASE ~CanTakeQueuedMotion(s)
  <2>1. t = s
    BY <1>1, SameChannels DEF L!FailQueuedMotion
  <2> QED
    BY <1>1, <2>1, TakenBack
<1>2. CASE CanTakeQueuedMotion(s)
  <2>1. t = w
    BY <1>2, SameChannels DEF L!FailQueuedMotion
  <2>2. /\ Core(u, {} \cup {c.id}, K, I) /\ c \in Commands
        /\ u.cmds = s.cmds /\ u.slot = s.slot /\ u.action = s.action
        /\ u.deferred = s.deferred
    BY <1>2, MotionInHand
  <2>3. /\ NoLocal(u)
        /\ c.id \in 1..MaxUi => s.deferred = <<>>
    BY <1>2, TakenBack
  <2> HIDE DEF c, u, t
  <2>4. u \in Systems /\ c.mask \in SUBSET Motors
    BY <2>2 DEF Core, Commands
  <2>5. Core(v, {} \cup {c.id}, K, I)
    BY <2>2, <2>4, WidenKeeps
  <2>6. /\ v \in Systems /\ v.cmds = u.cmds /\ v.tomb = u.tomb
        /\ v.slot.id = u.slot.id /\ u.slot.mask \subseteq v.slot.mask
        /\ v.action = u.action /\ v.deferred = u.deferred
    BY <2>4, WidenEffect
  <2> HIDE DEF v
  <2>7. r \in Results /\ r.id = c.id
    BY <2>2, ResultType
  <2> HIDE DEF r
  <2>8. CASE L!CanStore(v)
    <3>1. Core(w, ({} \cup {c.id}) \ {r.id}, K, I)
      BY <2>5, <2>7, <2>8, StoreKeeps
    <3>2. ({} \cup {c.id}) \ {r.id} = {}
      BY <2>7
    <3>3. Stored(v, w, r)
      BY <2>6, <2>7, <2>8, StoreEffect
    <3> HIDE DEF w
    <3>4. Core(w, {}, K, I)
      BY <3>1, <3>2
    <3>5. w.cmds = s.cmds /\ w.tomb = u.tomb /\ w.slot = v.slot /\ w.action = s.action
      BY <2>2, <2>6, <3>3 DEF Stored
    <3> QED
      BY <2>1, <2>2, <2>3, <2>6, <3>4, <3>5 DEF NoLocal, Entries, t
  <2>9. CASE ~L!CanStore(v)
    <3>1. w = v
      BY <2>9 DEF L!Store
    <3>2. v.deferred # <<>>
      BY <2>6, <2>9, EmptyHasRoom, RoomStores
    <3>3. Core(v, ({} \cup {c.id}) \ {c.id}, K, I)
      BY <2>2, <2>3, <2>5, <2>6, <3>2, HandDropped
    <3>4. ({} \cup {c.id}) \ {c.id} = {}
      OBVIOUS
    <3>5. Core(v, {}, K, I)
      BY <3>3, <3>4
    <3> QED
      BY <2>1, <2>2, <2>3, <2>6, <3>1, <3>5 DEF NoLocal, Entries, t
  <2> QED
    BY <2>8, <2>9
<1> QED
  BY <1>1, <1>2

\* A command starts, or ends at once.
LEMMA StartKeeps ==
  ASSUME NEW s, NEW K, NEW I, NEW c \in Commands, Core(s, {c.id}, K, I),
         s.action = NoCommand, L!CanStore(s), NEW t \in L!Start(s, c)
  PROVE  /\ Core(t, {}, K, I)
         /\ t.cmds = s.cmds /\ t.slot = s.slot /\ t.tomb = s.tomb
         /\ t.action \in {c, NoCommand}
<1>1. \/ t = L!Activate(s, c)
      \/ \E code \in {"COMPLETED", "FAILED"} : t = L!Store(s, L!Result(c, code))
  BY DEF L!Start
<1>2. s \in Systems
  BY DEF Core
<1>3. CASE t = L!Activate(s, c)
  <2>1. Core(t, {c.id} \ {c.id}, K, I)
    BY <1>3, ActivateKeeps
  <2>2. {c.id} \ {c.id} = {}
    OBVIOUS
  <2>3. Core(t, {}, K, I)
    BY <2>1, <2>2
  <2> QED
    BY <1>2, <1>3, <2>3, ActivateEffect
<1>4. ASSUME NEW code \in {"COMPLETED", "FAILED"}, t = L!Store(s, L!Result(c, code))
      PROVE  /\ Core(t, {}, K, I)
             /\ t.cmds = s.cmds /\ t.slot = s.slot /\ t.tomb = s.tomb
             /\ t.action = NoCommand
  <2> DEFINE r == L!Result(c, code)
  <2>1. r \in Results /\ r.id = c.id
    BY ResultType
  <2>2. t = L!Store(s, r)
    BY <1>4
  <2> HIDE DEF r
  <2>3. Core(t, {c.id} \ {r.id}, K, I)
    BY <2>1, <2>2, StoreKeeps
  <2>4. {c.id} \ {r.id} = {}
    BY <2>1
  <2>5. Stored(s, t, r)
    BY <1>2, <2>1, <2>2, StoreEffect
  <2>6. Core(t, {}, K, I)
    BY <2>3, <2>4
  <2> QED
    BY <2>5, <2>6 DEF Stored
<1> QED
  BY <1>1, <1>3, <1>4
-----------------------------------------------------------------------------
(* The mailbox and the authority around it.                                *)

LEMMA AppFields ==
  ASSUME NEW x \in Apps
  PROVE  /\ x.sys \in Systems /\ x.box \in SUBSET Transactions
         /\ x.intent \in SUBSET Motors /\ x.unconfirmed \in SUBSET Motors
         /\ x.fallback \in SUBSET Motors /\ x.frames \in SUBSET Motors
         /\ x.sys.slot.mask \in SUBSET Motors
         /\ x.sys.action.mask \in SUBSET Motors
<1>1. x.sys \in Systems
  BY DEF Apps
<1>2. x.sys.slot \in Commands /\ x.sys.action \in Commands
  BY <1>1, SystemFields
<1> QED
  BY <1>1, <1>2 DEF Apps, Commands

\* Records that stay the same but for the mark of their epoch.
Boxes(b, c) ==
  /\ Open(c) = Open(b) /\ Waits(c) = Waits(b)
  /\ \A a : Boxed(b, a) => Boxed(c, a)
  /\ \A t \in b : \E u \in c : /\ u.id = t.id /\ u.op = t.op /\ u.mask = t.mask
                               /\ u.taken = t.taken /\ u.done = t.done

LEMMA BoxesTrans ==
  ASSUME NEW b, NEW c, NEW d, Boxes(b, c), Boxes(c, d)
  PROVE  Boxes(b, d)
<1>1. /\ Open(d) = Open(b) /\ Waits(d) = Waits(b)
      /\ \A a : Boxed(b, a) => Boxed(d, a)
  BY DEF Boxes
<1>2. ASSUME NEW t \in b
      PROVE  \E u \in d : /\ u.id = t.id /\ u.op = t.op /\ u.mask = t.mask
                          /\ u.taken = t.taken /\ u.done = t.done
  <2>1. PICK u \in c : /\ u.id = t.id /\ u.op = t.op /\ u.mask = t.mask
                       /\ u.taken = t.taken /\ u.done = t.done
    BY DEF Boxes
  <2>2. PICK v \in d : /\ v.id = u.id /\ v.op = u.op /\ v.mask = u.mask
                       /\ v.taken = u.taken /\ v.done = u.done
    BY DEF Boxes
  <2> QED
    BY <2>1, <2>2
<1> QED
  BY <1>1, <1>2 DEF Boxes

LEMMA BoxesSame ==
  ASSUME NEW b
  PROVE  Boxes(b, b)
  BY DEF Boxes

\* The epoch advances.
LEMMA Ageing ==
  ASSUME NEW b \in SUBSET Transactions
  PROVE  LET c == {[t EXCEPT !.old = t.op # "stop"] : t \in b}
         IN c \in SUBSET Transactions /\ Boxes(b, c)
<1> DEFINE Aged(t) == [t EXCEPT !.old = t.op # "stop"]
           c == {Aged(t) : t \in b}
<1>1. ASSUME NEW t \in b
      PROVE  /\ Aged(t) \in Transactions
             /\ Aged(t).id = t.id /\ Aged(t).op = t.op /\ Aged(t).mask = t.mask
             /\ Aged(t).taken = t.taken /\ Aged(t).told = t.told
             /\ Aged(t).done = t.done /\ Aged(t).read = t.read
  <2> DEFINE o == t.op # "stop"
  <2>1. o \in BOOLEAN /\ t \in Transactions
    OBVIOUS
  <2>2. Aged(t) = [t EXCEPT !.old = o]
    OBVIOUS
  <2> HIDE DEF o
  <2> QED
    BY <2>1, <2>2 DEF Transactions
<1> HIDE DEF Aged
<1>2. c \in SUBSET Transactions
  BY <1>1
<1>3. /\ \A u \in c : \E t \in b : u = Aged(t)
      /\ \A t \in b : Aged(t) \in c
  OBVIOUS
<1> HIDE DEF c
<1>4. Open(c) = Open(b)
  BY <1>1, <1>3 DEF Open
<1>5. Waits(c) = Waits(b)
  BY <1>1, <1>3 DEF Waits
<1>6. ASSUME NEW a, Boxed(b, a)
      PROVE  Boxed(c, a)
  <2>1. ASSUME NEW u \in c
        PROVE  /\ u.id \in 1..a
               /\ u.read => u.done
               /\ u.done \/ u.told => u.taken
    BY <1>1, <1>3, <1>6 DEF Boxed
  <2>2. ASSUME NEW u \in c, NEW v \in c, u.id = v.id
        PROVE  u = v
    <3>1. PICK t \in b : u = Aged(t)
      BY <1>3
    <3>2. PICK r \in b : v = Aged(r)
      BY <1>3
    <3>3. t = r
      BY <1>1, <1>6, <2>2, <3>1, <3>2 DEF Boxed
    <3> QED
      BY <3>1, <3>2, <3>3
  <2> QED
    BY <2>1, <2>2 DEF Boxed
<1>7. \A t \in b : \E u \in c : /\ u.id = t.id /\ u.op = t.op /\ u.mask = t.mask
                                /\ u.taken = t.taken /\ u.done = t.done
  BY <1>1, <1>3
<1>8. Boxes(b, c)
  BY <1>4, <1>5, <1>6, <1>7 DEF Boxes
<1> QED
  BY <1>2, <1>8 DEF c, Aged

\* y differs from x in the executor, in what is not confirmed and, but for the
\* marks in the box, in an authority that can only be lost.
Alike(x, y) ==
  /\ y \in Apps
  /\ y.intent = x.intent /\ y.fallback = x.fallback /\ y.owed = x.owed
  /\ y.authority = "remote" => x.authority = "remote"
  /\ Boxes(x.box, y.box)

LEMMA AlikeTrans ==
  ASSUME NEW x, NEW y, NEW z, Alike(x, y), Alike(y, z)
  PROVE  Alike(x, z)
  BY BoxesTrans DEF Alike

LEMMA AlikeSelf ==
  ASSUME NEW x \in Apps
  PROVE  Alike(x, x)
  BY BoxesSame DEF Alike

\* aethor_app_debug_ui_revoke
LEMMA RevokeEffect ==
  ASSUME NEW x \in Apps, NEW authority \in {"remote", "armed", "busy", "fault"}
  PROVE  LET y == Revoke(x, authority)
         IN /\ y \in Apps /\ y.sys = x.sys /\ y.authority = authority
            /\ y.intent = x.intent /\ y.fallback = x.fallback /\ y.owed = x.owed
            /\ y.frames = x.frames /\ y.unconfirmed = x.unconfirmed
            /\ Boxes(x.box, y.box)
<1> DEFINE c == {[t EXCEPT !.old = t.op # "stop"] : t \in x.box}
<1>1. c \in SUBSET Transactions /\ Boxes(x.box, c)
  BY AppFields, Ageing
<1>2. Revoke(x, authority) = [x EXCEPT !.authority = authority, !.box = c]
  BY DEF Revoke
<1> HIDE DEF c
<1> QED
  BY <1>1, <1>2 DEF Apps

LEMMA FaultEffect ==
  ASSUME NEW x \in Apps
  PROVE  /\ Alike(x, Fault(x)) /\ Fault(x).sys = x.sys
         /\ Fault(x).unconfirmed = x.unconfirmed
         /\ Fault(x).frames = x.frames
<1>1. CASE x.authority = "fault"
  BY <1>1, AlikeSelf DEF Fault
<1>2. CASE x.authority # "fault"
  <2> DEFINE y == Revoke(x, "fault")
  <2>1. Fault(x) = y
    BY <1>2 DEF Fault
  <2>2. /\ y \in Apps /\ y.sys = x.sys /\ y.authority = "fault"
        /\ y.intent = x.intent /\ y.fallback = x.fallback /\ y.owed = x.owed
        /\ y.frames = x.frames /\ y.unconfirmed = x.unconfirmed
        /\ Boxes(x.box, y.box)
    BY RevokeEffect
  <2> HIDE DEF y
  <2> QED
    BY <2>1, <2>2 DEF Alike
<1> QED
  BY <1>1, <1>2

LEMMA LockEffect ==
  ASSUME NEW x \in Apps, NEW mask \in SUBSET Motors
  PROVE  LET y == Lock(x, mask)
         IN /\ Alike(x, y) /\ y.sys = x.sys /\ y.frames = x.frames
            /\ y.box = x.box
<1> DEFINE m == x.unconfirmed \cup mask
<1>1. m \in SUBSET Motors
  BY AppFields
<1>2. Lock(x, mask) = [x EXCEPT !.unconfirmed = m]
  BY DEF Lock
<1> HIDE DEF m
<1>3. LET y == Lock(x, mask)
      IN /\ y \in Apps /\ y.sys = x.sys /\ y.intent = x.intent
         /\ y.fallback = x.fallback /\ y.owed = x.owed /\ y.frames = x.frames
         /\ y.authority = x.authority /\ y.box = x.box
  BY <1>1, <1>2 DEF Apps
<1> QED
  BY <1>3, BoxesSame DEF Alike

\* The executor is exchanged.
LEMMA SysEffect ==
  ASSUME NEW x \in Apps, NEW s \in Systems
  PROVE  LET y == [x EXCEPT !.sys = s]
         IN /\ Alike(x, y) /\ y.sys = s /\ y.frames = x.frames
            /\ y.unconfirmed = x.unconfirmed /\ y.box = x.box
            /\ y.cleanup = x.cleanup /\ y.authority = x.authority
<1>1. LET y == [x EXCEPT !.sys = s]
      IN /\ y \in Apps /\ y.sys = s /\ y.intent = x.intent
         /\ y.fallback = x.fallback /\ y.owed = x.owed /\ y.frames = x.frames
         /\ y.authority = x.authority /\ y.box = x.box
         /\ y.unconfirmed = x.unconfirmed /\ y.cleanup = x.cleanup
  BY DEF Apps
<1> QED
  BY <1>1, BoxesSame DEF Alike

\* aethor_app_complete_action
LEMMA EndEffect ==
  ASSUME NEW x \in Apps, NEW code, L!Complete(x.sys, code) \in Systems,
         NEW y \in End(x, code)
  PROVE  Alike(x, y) /\ y.sys = L!Complete(x.sys, code)
<1> DEFINE a == x.sys.action
           s == L!Complete(x.sys, code)
           z == [x EXCEPT !.sys = s, !.cleanup = FALSE]
<1>1. CASE ~L!CanStore(x.sys)
  <2>1. y = x /\ s = x.sys
    BY <1>1 DEF End, L!Complete
  <2> QED
    BY <2>1, AlikeSelf
<1>2. CASE L!CanStore(x.sys)
  <2>1. y \in {z, Fault(z), Fault(Lock(z, a.mask))}
    BY <1>2 DEF End
  <2> HIDE DEF s
  <2>2. /\ z \in Apps /\ z.sys = s /\ z.intent = x.intent
        /\ z.fallback = x.fallback /\ z.owed = x.owed
        /\ z.authority = x.authority /\ z.box = x.box
    BY DEF Apps, s
  <2> HIDE DEF z
  <2>3. Alike(x, z)
    BY <2>2, BoxesSame DEF Alike
  <2>4. CASE y = z
    BY <2>2, <2>3, <2>4 DEF s
  <2>5. CASE y = Fault(z)
    BY <2>2, <2>3, <2>5, FaultEffect, AlikeTrans DEF s
  <2>6. CASE y = Fault(Lock(z, a.mask))
    <3> DEFINE w == Lock(z, a.mask)
    <3>1. a.mask \in SUBSET Motors
      BY AppFields
    <3>2. Alike(z, w) /\ w.sys = z.sys
      BY <2>2, <3>1, LockEffect
    <3>3. w \in Apps
      BY <3>2 DEF Alike
    <3> HIDE DEF w
    <3>4. Alike(w, Fault(w)) /\ Fault(w).sys = w.sys
      BY <3>3, FaultEffect
    <3> QED
      BY <2>2, <2>3, <2>6, <3>2, <3>4, AlikeTrans DEF s, w
  <2> QED
    BY <2>1, <2>4, <2>5, <2>6
<1> QED
  BY <1>1, <1>2
-----------------------------------------------------------------------------
(* One call of aethor_app_service.                                         *)

\* What a part of the call is given, and what it may leave.
Ready(x, K, I) ==
  /\ x \in Apps /\ Core(x.sys, {}, K, I) /\ Lonely(x.sys) /\ Stops(x)
Outcome(x, z, K, I) ==
  /\ Ready(z, K, I)
  /\ Boxes(x.box, z.box) /\ Runs(z.sys) \subseteq Runs(x.sys)
  /\ z.authority = "remote" => x.authority = "remote"

LEMMA OutcomeTrans ==
  ASSUME NEW x, NEW y, NEW z, NEW K, NEW I,
         Outcome(x, y, K, I), Outcome(y, z, K, I)
  PROVE  Outcome(x, z, K, I)
  BY BoxesTrans DEF Outcome

\* STOPs are remembered as long as their transaction and their slot are.
LEMMA StopsAlike ==
  ASSUME NEW x, NEW y, Stops(x), Alike(x, y),
         y.sys.slot.id = x.sys.slot.id, x.sys.slot.mask \subseteq y.sys.slot.mask
  PROVE  Stops(y)
<1>1. ASSUME NEW o \in x.owed, Remembered(x, o)
      PROVE  Remembered(y, o)
  <2>1. PICK t \in x.box :
          /\ t.id = o.id /\ ~t.done /\ t.op = "stop" /\ o.motor \in t.mask
          /\ t.taken => x.sys.slot.id = o.id /\ o.motor \in x.sys.slot.mask
    BY <1>1 DEF Remembered
  <2>2. PICK u \in y.box : /\ u.id = t.id /\ u.op = t.op /\ u.mask = t.mask
                           /\ u.taken = t.taken /\ u.done = t.done
    BY DEF Alike, Boxes
  <2>3. u.taken => y.sys.slot.id = o.id /\ o.motor \in y.sys.slot.mask
    BY <2>1, <2>2
  <2> QED
    BY <2>1, <2>2, <2>3 DEF Remembered
<1> QED
  BY <1>1 DEF Stops, Alike

\* A STOP that starts with the scope of the slot is owed no longer.
LEMMA StopsForgotten ==
  ASSUME NEW x, NEW y, NEW mask, Stops(x), y.intent = x.intent,
         y.fallback = x.fallback, Boxes(x.box, y.box),
         y.owed = {o \in x.owed : o.motor \notin mask},
         x.sys.slot.mask \subseteq mask
  PROVE  Stops(y)
<1>1. ASSUME NEW o \in x.owed, o.motor \notin mask, Remembered(x, o)
      PROVE  Remembered(y, o)
  <2>1. PICK t \in x.box :
          /\ t.id = o.id /\ ~t.done /\ t.op = "stop" /\ o.motor \in t.mask
          /\ ~t.taken
    BY <1>1 DEF Remembered
  <2>2. PICK u \in y.box : /\ u.id = t.id /\ u.op = t.op /\ u.mask = t.mask
                           /\ u.taken = t.taken /\ u.done = t.done
    BY DEF Boxes
  <2> QED
    BY <2>1, <2>2 DEF Remembered
<1> QED
  BY <1>1 DEF Stops

\* The mailbox changes as Alike allows, the executor not at all.
LEMMA AlikeOutcome ==
  ASSUME NEW x, NEW y, NEW K, NEW I, Ready(x, K, I), Alike(x, y), y.sys = x.sys
  PROVE  Outcome(x, y, K, I)
<1>1. Stops(y)
  BY StopsAlike DEF Ready
<1> QED
  BY <1>1 DEF Ready, Outcome, Alike

\* aethor_app_debug_ui_service_health
LEMMA HealthEffect ==
  ASSUME NEW x \in Apps, NEW y \in Health(x)
  PROVE  Alike(x, y) /\ y.sys = x.sys
<1> DEFINE none == {}
           w == [x EXCEPT !.unconfirmed = none]
<1>1. none \in SUBSET Motors
  OBVIOUS
<1>2. \E z \in {x, w} : y = z \/ y = Fault(z)
  BY DEF Health
<1> HIDE DEF none
<1>3. /\ w \in Apps /\ w.sys = x.sys /\ w.intent = x.intent
      /\ w.fallback = x.fallback /\ w.owed = x.owed
      /\ w.authority = x.authority /\ w.box = x.box
  BY <1>1 DEF Apps
<1> HIDE DEF w
<1>4. Alike(x, w) /\ Alike(x, x)
  BY <1>3, BoxesSame, AlikeSelf DEF Alike
<1>5. ASSUME NEW z \in {x, w}
      PROVE  /\ Alike(x, z) /\ z.sys = x.sys
             /\ Alike(x, Fault(z)) /\ Fault(z).sys = x.sys
  <2>1. z \in Apps /\ Alike(x, z) /\ z.sys = x.sys
    BY <1>3, <1>4
  <2> QED
    BY <2>1, FaultEffect, AlikeTrans
<1> QED
  BY <1>2, <1>5

\* Its beginning: terminals are flushed, the user interface is watched.
LEMMA CalledKeeps ==
  ASSUME NEW x, NEW K, NEW I, Ready(x, K, I),
         NEW y \in Health([x EXCEPT !.sys = L!Flush(@)])
  PROVE  Outcome(x, y, K, I)
<1> DEFINE s == L!Flush(x.sys)
           w == [x EXCEPT !.sys = s]
<1>1. /\ Core(s, {}, K, I)
      /\ s.cmds = x.sys.cmds /\ s.slot = x.sys.slot /\ s.tomb = x.sys.tomb
      /\ s.action = x.sys.action
      /\ x.sys.deferred = <<>> => s.deferred = <<>> /\ s.motion = x.sys.motion
  BY FlushKeeps DEF Ready
<1>2. y \in Health(w) /\ x \in Apps
  BY DEF Ready
<1> HIDE DEF s
<1>3. s \in Systems
  BY <1>1 DEF Core
<1>4. Alike(x, w) /\ w.sys = s
  BY <1>2, <1>3, SysEffect
<1> HIDE DEF w
<1>5. Lonely(s) /\ Runs(s) = Runs(x.sys)
  BY <1>1 DEF Ready, Lonely, NoLocal, Runs
<1>6. Stops(w)
  BY <1>1, <1>4, StopsAlike DEF Ready
<1>7. Outcome(x, w, K, I)
  BY <1>1, <1>4, <1>5, <1>6 DEF Outcome, Ready, Alike
<1>8. w \in Apps /\ Ready(w, K, I)
  BY <1>7 DEF Outcome, Ready
<1>9. Alike(w, y) /\ y.sys = w.sys
  BY <1>2, <1>8, HealthEffect
<1> QED
  BY <1>7, <1>8, <1>9, AlikeOutcome, OutcomeTrans

\* aethor_app_debug_ui_service_stop_intent: after it the fallback owes nothing.
LEMMA StopIntentKeeps ==
  ASSUME NEW x, NEW K, NEW I, Ready(x, K, I)
  PROVE  LET y == StopIntent(x)
         IN /\ Outcome(x, y, K, I)
            /\ y.fallback # {} => y.owed = {}
<1>1. x \in Apps
  BY DEF Ready
<1>2. ASSUME NEW o \in x.owed
      PROVE  \/ o.motor \in x.intent
             \/ o.motor \notin x.fallback /\ o.motor \in StopMask(x)
  <2>1. ASSUME Remembered(x, o)
        PROVE  o.motor \in StopMask(x)
    <3>1. PICK t \in x.box : ~t.done /\ t.op = "stop" /\ o.motor \in t.mask
      BY <2>1 DEF Remembered
    <3>2. t \in Unfinished(x.box, TRUE)
      BY <3>1 DEF Unfinished, Of
    <3> QED
      BY <3>1, <3>2 DEF StopMask
  <2> QED
    BY <2>1, <1>2 DEF Ready, Stops
<1>3. CASE Wanted(x) = {}
  <2>1. StopIntent(x) = x
    BY <1>3 DEF StopIntent
  <2>2. x.fallback # {} => x.owed = {}
    <3>1. ASSUME x.fallback # {}, NEW o \in x.owed
          PROVE  FALSE
      BY <1>2, <1>3, <3>1 DEF Wanted
    <3> QED
      BY <3>1
  <2> QED
    BY <1>1, <2>1, <2>2, AlikeSelf, AlikeOutcome
<1>4. CASE Wanted(x) # {}
  <2> DEFINE mask == Scope(x)
             none == {}
             u == [x EXCEPT !.intent = none, !.fallback = mask, !.frames = mask]
             v == Lock(u, mask)
             w == Fault(v)
             y == Stopped(w, mask)
             q == {o \in w.owed : o.motor \notin mask}
  <2>1. StopIntent(x) = y
    BY <1>4 DEF StopIntent
  <2>2. \A o \in x.owed : o.motor \in mask
    BY <1>2 DEF Wanted, Scope
  <2>3. mask \in SUBSET Motors
    <3>1. \A n \in DOMAIN x.sys.cmds : x.sys.cmds[n] \in Commands
      BY <1>1, AppFields, SystemFields
    <3>2. \A c \in Waiters(x) : c.mask \in SUBSET Motors
      <4>1. \A c \in Commands : c.mask \in SUBSET Motors
        BY DEF Commands
      <4> QED
        BY <3>1, <4>1 DEF Waiters
    <3>3. \A t \in x.box : t.mask \in SUBSET Motors
      BY <1>1, AppFields DEF Transactions
    <3>4. StopMask(x) \in SUBSET Motors
      BY <1>1, <3>3, AppFields DEF StopMask, Unfinished, Of
    <3>5. Wanted(x) \in SUBSET Motors
      BY <1>1, <3>4, AppFields DEF Wanted
    <3> QED
      BY <1>1, <3>2, <3>4, <3>5, AppFields DEF Scope
  <2>4. none \in SUBSET Motors
    OBVIOUS
  <2> HIDE DEF mask, none
  <2>5. /\ u \in Apps /\ u.sys = x.sys /\ u.owed = x.owed
        /\ u.authority = x.authority /\ u.box = x.box
    BY <1>1, <2>3, <2>4 DEF Apps
  <2> HIDE DEF u
  <2>6. Alike(u, v) /\ v.sys = u.sys
    BY <2>3, <2>5, LockEffect
  <2> HIDE DEF v
  <2>7. v \in Apps
    BY <2>6 DEF Alike
  <2>8. Alike(v, w) /\ w.sys = v.sys
    BY <2>7, FaultEffect
  <2> HIDE DEF w
  <2>9. Alike(u, w)
    BY <2>6, <2>8, AlikeTrans
  <2>10. q = {}
    BY <2>2, <2>5, <2>9 DEF Alike
  <2>11. w \in Apps /\ w.owed = x.owed /\ q \subseteq w.owed
    BY <2>5, <2>9 DEF Alike
  <2>12. y = [w EXCEPT !.owed = q]
    BY DEF Stopped
  <2> HIDE DEF q, y
  <2>13. /\ y \in Apps /\ y.sys = w.sys /\ y.owed = q /\ y.authority = w.authority
         /\ y.box = w.box
    BY <2>11, <2>12 DEF Apps
  <2>14. Stops(y)
    BY <2>10, <2>13 DEF Stops
  <2>15. /\ Boxes(x.box, y.box) /\ y.sys = x.sys
         /\ y.authority = "remote" => x.authority = "remote"
    BY <2>5, <2>6, <2>8, <2>9, <2>13 DEF Alike
  <2>16. Outcome(x, y, K, I)
    BY <2>13, <2>14, <2>15 DEF Outcome, Ready
  <2> QED
    BY <2>1, <2>10, <2>13, <2>16
<1> QED
  BY <1>3, <1>4

\* The action ends, whatever becomes of its terminal and of the authority.
LEMMA EndKeeps ==
  ASSUME NEW x, NEW K, NEW I, Ready(x, K, I), x.sys.action # NoCommand,
         NEW code \in {"COMPLETED", "STOPPED", "CANCELLED", "FAILED"},
         NEW y \in End(x, code)
  PROVE  /\ Outcome(x, y, K, I) /\ Alike(x, y)
         /\ y.sys = L!Complete(x.sys, code) /\ NoLocal(y.sys)
<1> DEFINE s == L!Complete(x.sys, code)
<1>1. /\ Core(s, {}, K, I)
      /\ s.cmds = x.sys.cmds /\ s.slot = x.sys.slot /\ s.tomb = x.sys.tomb
      /\ s.action \in {x.sys.action, NoCommand}
  BY CompleteKeeps DEF Ready
<1>2. s \in Systems /\ x \in Apps
  BY <1>1 DEF Core, Ready
<1>3. Alike(x, y) /\ y.sys = s
  BY <1>2, EndEffect
<1> HIDE DEF s
<1>4. NoLocal(s)
  BY <1>1 DEF Ready, Lonely, NoLocal
<1>5. Runs(s) \subseteq Runs(x.sys)
  BY <1>1 DEF Runs
<1>6. Stops(y)
  BY <1>1, <1>3, StopsAlike DEF Ready
<1>7. Outcome(x, y, K, I)
  BY <1>1, <1>3, <1>4, <1>5, <1>6 DEF Outcome, Ready, Alike, Lonely
<1> QED
  BY <1>3, <1>4, <1>7 DEF s

\* A waiting STOP is widened.
LEMMA WidenOutcome ==
  ASSUME NEW x, NEW K, NEW I, Ready(x, K, I), NEW mask \in SUBSET Motors
  PROVE  LET y == [x EXCEPT !.sys = WidenPendingStop(@, mask)]
         IN /\ Outcome(x, y, K, I) /\ Alike(x, y)
            /\ y.sys = WidenPendingStop(x.sys, mask)
            /\ y.sys.action = x.sys.action /\ y.cleanup = x.cleanup
<1> DEFINE s == WidenPendingStop(x.sys, mask)
           y == [x EXCEPT !.sys = s]
<1>1. x \in Apps /\ x.sys \in Systems
  BY AppFields DEF Ready
<1>2. /\ s \in Systems /\ s.cmds = x.sys.cmds /\ s.slot.id = x.sys.slot.id
      /\ x.sys.slot.mask \subseteq s.slot.mask
      /\ s.tomb = x.sys.tomb /\ s.motion = x.sys.motion
      /\ s.action = x.sys.action /\ s.deferred = x.sys.deferred
  BY <1>1, WidenEffect
<1>3. Core(s, {}, K, I)
  BY WidenKeeps DEF Ready
<1>4. [x EXCEPT !.sys = WidenPendingStop(@, mask)] = y
  OBVIOUS
<1> HIDE DEF s
<1>5. Alike(x, y) /\ y.sys = s /\ y.cleanup = x.cleanup
  BY <1>1, <1>2, SysEffect
<1> HIDE DEF y
<1>6. Lonely(s) /\ Runs(s) = Runs(x.sys)
  BY <1>2 DEF Ready, Lonely, NoLocal, Runs
<1>7. Stops(y)
  BY <1>2, <1>5, StopsAlike DEF Ready
<1>8. Outcome(x, y, K, I)
  BY <1>3, <1>5, <1>6, <1>7 DEF Outcome, Ready, Alike
<1> QED
  BY <1>2, <1>4, <1>5, <1>8 DEF s

\* aethor_app_apply_transport_fault
LEMMA GlobalCancelKeeps ==
  ASSUME NEW x, NEW K, NEW I, Ready(x, K, I), NEW z \in GlobalCancel(x)
  PROVE  Outcome(x, z, K, I)
<1> DEFINE mask == x.sys.action.mask \cup x.unconfirmed
           w == [x EXCEPT !.sys = WidenPendingStop(@, mask)]
           ended == IF L!Idle(x.sys) THEN {w} ELSE End(w, "FAILED")
<1>1. mask \in SUBSET Motors
  BY AppFields DEF Ready
<1>2. PICK y \in ended :
         z = [y EXCEPT !.sys = CancelPendingNormal(L!FailQueuedMotion(@))]
  BY DEF GlobalCancel
<1> HIDE DEF mask
<1>3. Outcome(x, w, K, I) /\ w.sys.action = x.sys.action
  BY <1>1, WidenOutcome
<1> HIDE DEF w
<1>4. Outcome(x, y, K, I)
  <2>1. CASE L!Idle(x.sys)
    BY <1>2, <1>3, <2>1
  <2>2. CASE ~L!Idle(x.sys)
    <3>1. w.sys.action # NoCommand
      BY <1>3, <2>2, SameChannels
    <3>2. Outcome(w, y, K, I)
      BY <1>2, <1>3, <2>2, <3>1, EndKeeps DEF Outcome
    <3> QED
      BY <1>3, <3>2, OutcomeTrans
  <2> QED
    BY <2>1, <2>2
<1>5. Ready(y, K, I)
  BY <1>4 DEF Outcome
<1> DEFINE s == L!FailQueuedMotion(y.sys)
           t == CancelPendingNormal(s)
<1>6. /\ Core(s, {}, K, I) /\ NoLocal(s)
      /\ s.action = y.sys.action
      /\ s.slot.id = y.sys.slot.id /\ y.sys.slot.mask \subseteq s.slot.mask
  BY <1>5, FailQueuedKeeps DEF Ready
<1> HIDE DEF s
<1>7. /\ Core(t, {}, K, I) /\ t.cmds = <<>>
      /\ t.slot = s.slot /\ t.action = s.action
  BY <1>6, DiscardKeeps
<1>8. z = [y EXCEPT !.sys = t]
  BY <1>2 DEF s
<1> HIDE DEF t
<1>9. t \in Systems /\ y \in Apps
  BY <1>5, <1>7 DEF Core, Ready
<1>10. Alike(y, z) /\ z.sys = t
  BY <1>8, <1>9, SysEffect
<1>11. Entries(t) = {} /\ NoLocal(t)
  BY <1>7, IdsNone DEF Entries, NoLocal
<1>12. Runs(t) \subseteq Runs(y.sys)
  BY <1>6, <1>7, <1>11, RunsShrink
<1>13. Stops(z)
  BY <1>5, <1>6, <1>7, <1>10, StopsAlike DEF Ready
<1>14. Outcome(y, z, K, I)
  BY <1>7, <1>10, <1>11, <1>12, <1>13 DEF Outcome, Ready, Alike, Lonely
<1> QED
  BY <1>4, <1>14, OutcomeTrans

\* The fallback cancels what waits, and ends.
LEMMA FallbackKeeps ==
  ASSUME NEW x, NEW K, NEW I, Ready(x, K, I), x.owed = {},
         NEW z \in Fallback(x)
  PROVE  Outcome(x, z, K, I)
<1> DEFINE ended == IF L!Idle(x.sys) \/ ~L!DeferredRoom(x.sys) THEN {x}
                    ELSE End(x, "CANCELLED")
           none == {}
<1>1. PICK y \in ended :
         LET w == [y EXCEPT !.sys = CancelAll(@)]
         IN z = w \/ z = [w EXCEPT !.fallback = none]
  BY DEF Fallback
<1>2. x \in Apps
  BY DEF Ready
<1>3. Outcome(x, y, K, I) /\ y.owed = {}
  <2>1. CASE y = x
    BY <1>2, <2>1, AlikeSelf, AlikeOutcome
  <2>2. CASE ~L!Idle(x.sys) /\ y \in End(x, "CANCELLED")
    <3>1. x.sys.action # NoCommand
      BY <2>2, SameChannels
    <3>2. Outcome(x, y, K, I) /\ Alike(x, y)
      BY <2>2, <3>1, EndKeeps
    <3> QED
      BY <3>2 DEF Alike
  <2> QED
    BY <2>1, <2>2
<1>4. Ready(y, K, I)
  BY <1>3 DEF Outcome
<1> DEFINE t == CancelAll(y.sys)
           w == [y EXCEPT !.sys = t]
<1>5. /\ Core(t, {}, K, I) /\ NoLocal(t)
      /\ t.action = y.sys.action /\ Entries(t) \subseteq Entries(y.sys)
  BY <1>4, CancelAllKeeps DEF Ready
<1>6. z = w \/ z = [w EXCEPT !.fallback = none]
  BY <1>1
<1> HIDE DEF t
<1>7. t \in Systems /\ y \in Apps
  BY <1>4, <1>5 DEF Core, Ready
<1>8. Alike(y, w) /\ w.sys = t
  BY <1>7, SysEffect
<1> HIDE DEF w
<1>9. Runs(t) \subseteq Runs(y.sys)
  BY <1>5, RunsShrink
<1>10. w \in Apps /\ w.owed = {}
  BY <1>3, <1>8 DEF Alike
<1>11. none \in SUBSET Motors
  OBVIOUS
<1> HIDE DEF none
<1>12. /\ z \in Apps /\ z.sys = w.sys /\ z.owed = w.owed /\ z.box = w.box
       /\ z.authority = w.authority
  BY <1>6, <1>10, <1>11 DEF Apps
<1>13. Stops(z)
  BY <1>10, <1>12 DEF Stops
<1>14. Outcome(y, z, K, I)
  BY <1>5, <1>8, <1>9, <1>12, <1>13 DEF Outcome, Ready, Alike, Lonely
<1> QED
  BY <1>3, <1>14, OutcomeTrans

\* A STOP becomes the action and takes its motors out of what is owed.
LEMMA StartStopEffect ==
  ASSUME NEW y \in Apps, NEW c \in Commands, NEW cleanup \in BOOLEAN
  PROVE  LET z == StartStop(y, c, cleanup)
         IN /\ z \in Apps /\ z.sys = L!Activate(y.sys, c)
            /\ z.intent = y.intent /\ z.fallback = y.fallback
            /\ z.authority = y.authority /\ z.box = y.box
            /\ z.owed = {o \in y.owed : o.motor \notin c.mask}
<1> DEFINE s == L!Activate(y.sys, c)
           w == [y EXCEPT !.sys = s, !.cleanup = cleanup]
           q == {o \in w.owed : o.motor \notin c.mask}
<1>1. s \in Systems
  BY AppFields, ActivateEffect
<1>2. StartStop(y, c, cleanup) = [w EXCEPT !.owed = q]
  BY DEF StartStop, Stopped
<1> HIDE DEF s
<1>3. /\ w \in Apps /\ w.sys = s /\ w.intent = y.intent
      /\ w.fallback = y.fallback /\ w.owed = y.owed
      /\ w.authority = y.authority /\ w.box = y.box
  BY <1>1 DEF Apps
<1> HIDE DEF w
<1>4. q \in SUBSET w.owed /\ q = {o \in y.owed : o.motor \notin c.mask}
  BY <1>3
<1>5. q \in SUBSET [id : Nat, motor : Motors]
  BY <1>3, <1>4 DEF Apps
<1> HIDE DEF q
<1>6. LET z == [w EXCEPT !.owed = q]
      IN /\ z \in Apps /\ z.sys = w.sys /\ z.intent = w.intent
         /\ z.fallback = w.fallback /\ z.owed = q
         /\ z.authority = w.authority /\ z.box = w.box
  BY <1>3, <1>5 DEF Apps
<1> QED
  BY <1>2, <1>3, <1>4, <1>6 DEF s

LEMMA StopStarted ==
  ASSUME NEW x, NEW y, NEW K, NEW I, NEW c \in Commands, NEW cleanup \in BOOLEAN,
         Stops(x), Alike(x, y), Core(y.sys, {c.id}, K, I), c.kind = "stop",
         y.sys.action = NoCommand, NoLocal(y.sys),
         Entries(y.sys) \subseteq Entries(x.sys),
         x.sys.slot.mask \subseteq c.mask
  PROVE  Outcome(x, StartStop(y, c, cleanup), K, I)
<1> DEFINE z == StartStop(y, c, cleanup)
           s == y.sys
           t == L!Activate(s, c)
<1>1. y \in Apps /\ s \in Systems
  BY DEF Alike, Core
<1>2. /\ z \in Apps /\ z.sys = t
      /\ z.intent = y.intent /\ z.fallback = y.fallback
      /\ z.authority = y.authority /\ z.box = y.box
      /\ z.owed = {o \in y.owed : o.motor \notin c.mask}
  BY <1>1, StartStopEffect
<1>3. Core(t, {c.id} \ {c.id}, K, I)
  BY ActivateKeeps
<1>4. {c.id} \ {c.id} = {}
  OBVIOUS
<1>5. t.cmds = s.cmds /\ t.tomb = s.tomb /\ t.action = c
  BY <1>1, ActivateEffect
<1> HIDE DEF z, t
<1>6. Core(t, {}, K, I)
  BY <1>3, <1>4
<1>7. Runs(t) \subseteq Runs(x.sys) /\ Lonely(t)
  <2>1. Entries(t) \subseteq Entries(x.sys)
    BY <1>5 DEF Entries
  <2> QED
    BY <1>5, <2>1, RunsShrink DEF Lonely, NoLocal
<1>8. Stops(z)
  BY <1>2, StopsForgotten DEF Alike
<1>9. Outcome(x, z, K, I)
  BY <1>2, <1>6, <1>7, <1>8 DEF Outcome, Ready, Alike
<1> QED
  BY <1>9 DEF z

\* A wider STOP is a STOP.
LEMMA Widened ==
  ASSUME NEW c \in Commands, NEW mask \in SUBSET Motors
  PROVE  LET d == [c EXCEPT !.mask = @ \cup mask]
         IN d \in Commands /\ d.id = c.id /\ d.kind = c.kind /\ c.mask \subseteq d.mask
            /\ mask \subseteq d.mask
<1> DEFINE m == c.mask \cup mask
<1>1. m \in SUBSET Motors
  BY DEF Commands
<1>2. [c EXCEPT !.mask = @ \cup mask] = [c EXCEPT !.mask = m]
  OBVIOUS
<1>3. c.mask \subseteq m /\ mask \subseteq m
  OBVIOUS
<1> HIDE DEF m
<1> QED
  BY <1>1, <1>2, <1>3 DEF Commands

\* The STOP leaves its slot: what the hand has to know.
LEMMA SlotInHand ==
  ASSUME NEW x, NEW K, NEW I, Ready(x, K, I), StopPending(x.sys)
  PROVE  LET s == PopStop(x.sys)
             y == [x EXCEPT !.sys = s]
         IN /\ Core(s, {x.sys.slot.id}, K, I) /\ Lonely(s)
            /\ Entries(s) = Entries(x.sys) /\ s.action = x.sys.action
            /\ s.deferred = x.sys.deferred
            /\ x.sys.slot \in Commands /\ x.sys.slot.kind = "stop"
            /\ Alike(x, y) /\ y.sys = s
<1> DEFINE s == PopStop(x.sys)
           y == [x EXCEPT !.sys = s]
           i == x.sys.slot.id
<1>1. x \in Apps /\ x.sys \in Systems /\ x.sys.slot \in Commands
  BY AppFields, SystemFields DEF Ready
<1>2. x.sys.slot # NoCommand
  BY DEF StopPending
<1>3. Core(s, {} \cup {i}, K, I) /\ x.sys.slot.kind = "stop"
  BY <1>2, StopInHand, PlaceIds DEF Ready
<1>4. {} \cup {i} = {i}
  OBVIOUS
<1>5. /\ s \in Systems /\ s.cmds = x.sys.cmds
      /\ s.tomb = x.sys.tomb /\ s.motion = x.sys.motion
      /\ s.action = x.sys.action /\ s.deferred = x.sys.deferred
  BY <1>1, PopStopEffect
<1> HIDE DEF s
<1>6. Alike(x, y) /\ y.sys = s
  BY <1>1, <1>5, SysEffect
<1> HIDE DEF y
<1>7. Core(s, {i}, K, I)
  BY <1>3, <1>4
<1>8. Lonely(s) /\ Entries(s) = Entries(x.sys)
  BY <1>5 DEF Ready, Lonely, NoLocal, Entries
<1> QED
  BY <1>1, <1>3, <1>5, <1>6, <1>7, <1>8 DEF s, y, i

\* A STOP pre-empts the action.
LEMMA PreemptKeeps ==
  ASSUME NEW x, NEW K, NEW I, Ready(x, K, I), x.sys.action # NoCommand,
         StopPending(x.sys), L!DeferredRoom(x.sys), NEW z \in Preempt(x)
  PROVE  Outcome(x, z, K, I)
<1> DEFINE a == x.sys.action
           s == PopStop(x.sys)
           p == [x EXCEPT !.sys = s]
           mask == a.mask \cup x.unconfirmed
           stop == [x.sys.slot EXCEPT !.mask = @ \cup mask]
           cleanup == Local(a) \/ x.cleanup \/ x.unconfirmed # {}
           t == L!Complete(s, "CANCELLED")
<1>1. PICK y \in End(p, "CANCELLED") : z = StartStop(y, stop, cleanup)
  <2>1. [x.sys.slot EXCEPT !.mask = @ \cup a.mask \cup x.unconfirmed] = stop
    BY AppFields DEF Ready
  <2> QED
    BY <2>1 DEF Preempt
<1>2. /\ Core(s, {x.sys.slot.id}, K, I) /\ Lonely(s)
      /\ Entries(s) = Entries(x.sys) /\ s.action = x.sys.action
      /\ s.deferred = x.sys.deferred
      /\ x.sys.slot \in Commands /\ x.sys.slot.kind = "stop"
      /\ Alike(x, p) /\ p.sys = s
  BY SlotInHand
<1>3. mask \in SUBSET Motors /\ cleanup \in BOOLEAN
  BY AppFields DEF Ready, Apps, Local
<1> HIDE DEF mask, cleanup, s
<1>4. /\ stop \in Commands /\ stop.id = x.sys.slot.id /\ stop.kind = "stop"
      /\ x.sys.slot.mask \subseteq stop.mask
  BY <1>2, <1>3, Widened
<1>5. L!CanStore(s)
  BY <1>2, RoomStores
<1>6. /\ Core(t, {x.sys.slot.id}, K, I)
      /\ t.cmds = s.cmds /\ t.tomb = s.tomb /\ t.action = NoCommand
  BY <1>2, <1>5, CompleteKeeps
<1>7. p \in Apps /\ L!Complete(p.sys, "CANCELLED") \in Systems
  BY <1>2, <1>6 DEF Alike, Core
<1> HIDE DEF p, t
<1>8. Alike(p, y) /\ y.sys = t
  BY <1>1, <1>2, <1>7, EndEffect DEF t
<1>9. Alike(x, y)
  BY <1>2, <1>8, AlikeTrans
<1>10. NoLocal(t) /\ Entries(t) = Entries(x.sys)
  <2>1. NoLocal(s)
    BY <1>2 DEF Lonely
  <2> QED
    BY <1>2, <1>6, <2>1 DEF NoLocal, Entries
<1> HIDE DEF stop
<1> QED
  BY <1>1, <1>3, <1>4, <1>6, <1>8, <1>9, <1>10, StopStarted DEF Ready

\* The action goes on, ends, or is a STOP that takes over the scope of the next.
LEMMA ServiceActionKeeps ==
  ASSUME NEW x, NEW K, NEW I, Ready(x, K, I), x.sys.action # NoCommand,
         NEW z \in ServiceAction(x)
  PROVE  Outcome(x, z, K, I)
<1> DEFINE a == x.sys.action
           behind == a.kind = "stop" /\ StopPending(x.sys)
           w == [x EXCEPT !.sys = WidenPendingStop(@, a.mask)]
           y == IF behind THEN w ELSE x
           scope == y.sys.slot.mask
           c == [a EXCEPT !.mask = scope]
<1>1. x \in Apps /\ a \in Commands /\ a.mask \in SUBSET Motors
      /\ x.cleanup \in BOOLEAN
  BY AppFields, SystemFields DEF Ready, Apps
<1>2. Outcome(x, y, K, I) /\ y.sys.action = a /\ y.cleanup = x.cleanup
  <2>1. CASE behind
    BY <1>1, <2>1, WidenOutcome
  <2>2. CASE ~behind
    BY <1>1, <2>2, AlikeSelf, AlikeOutcome
  <2> QED
    BY <2>1, <2>2
<1>3. \/ behind /\ z = StartStop(y, c, x.cleanup)
      \/ z = y
      \/ \E code \in L!Outcomes(a) : z \in End(y, code)
  BY DEF ServiceAction
<1> HIDE DEF y
<1>4. Ready(y, K, I) /\ y \in Apps
  BY <1>2 DEF Outcome, Ready
<1>5. CASE z = y
  BY <1>2, <1>5
<1>6. ASSUME NEW code \in L!Outcomes(a), z \in End(y, code)
      PROVE  Outcome(x, z, K, I)
  <2>1. code \in {"COMPLETED", "STOPPED", "CANCELLED", "FAILED"}
    BY DEF L!Outcomes
  <2>2. Outcome(y, z, K, I)
    BY <1>2, <1>4, <1>6, <2>1, EndKeeps
  <2> QED
    BY <1>2, <2>2, OutcomeTrans
<1>7. CASE behind /\ z = StartStop(y, c, x.cleanup)
  <2>1. scope \in SUBSET Motors
    BY <1>4, AppFields
  <2> HIDE DEF scope
  <2>2. c \in Commands /\ c.id = a.id /\ c.kind = "stop" /\ c.mask = scope
    BY <1>1, <1>7, <2>1 DEF Commands
  <2> HIDE DEF c
  <2> DEFINE s == y.sys
             t == L!Activate(s, c)
  <2>3. /\ z \in Apps /\ z.sys = t
        /\ z.intent = y.intent /\ z.fallback = y.fallback
        /\ z.authority = y.authority /\ z.box = y.box
        /\ z.owed = {o \in y.owed : o.motor \notin scope}
    BY <1>1, <1>4, <1>7, <2>2, StartStopEffect
  <2>4. Core(t, {}, K, I)
    BY <1>2, <1>4, <2>2, RestartKeeps DEF Ready
  <2>5. s \in Systems /\ Stops(y) /\ Lonely(s)
    BY <1>4, AppFields DEF Ready
  <2>6. t.cmds = s.cmds /\ t.tomb = s.tomb /\ t.action = c
    BY <2>2, <2>5, ActivateEffect
  <2> HIDE DEF t
  <2>7. Runs(t) \subseteq Runs(s) /\ Lonely(t)
    <3>1. NoLocal(s)
      BY <1>2, <2>5 DEF Lonely
    <3>2. Entries(t) \subseteq Entries(s)
      BY <2>6 DEF Entries
    <3> QED
      BY <2>2, <2>6, <3>1, <3>2, RunsShrink DEF Lonely, NoLocal
  <2>8. Boxes(y.box, z.box)
    BY <2>3, BoxesSame
  <2>9. Stops(z)
    BY <2>3, <2>5, <2>8, StopsForgotten DEF scope
  <2>10. Outcome(y, z, K, I)
    BY <2>3, <2>4, <2>7, <2>8, <2>9 DEF Outcome, Ready
  <2> QED
    BY <1>2, <2>10, OutcomeTrans
<1> QED
  BY <1>3, <1>5, <1>6, <1>7

\* A STOP that is found while idle takes the queued motion back.
LEMMA StopWhileIdleKeeps ==
  ASSUME NEW x, NEW K, NEW I, Ready(x, K, I), x.sys.action = NoCommand,
         StopPending(x.sys), L!DeferredRoom(x.sys)
  PROVE  Outcome(x, StopWhileIdle(x), K, I)
<1> DEFINE s == PopStop(x.sys)
           c == QueuedMotion(s)
           i == x.sys.slot.id
           p == [x EXCEPT !.sys = s]
           stop == [x.sys.slot EXCEPT !.mask = @ \cup x.unconfirmed]
           wide == [stop EXCEPT !.mask = @ \cup c.mask]
           dirty == x.unconfirmed # {}
           u == TakeQueuedMotion(s)
           r == L!Result(c, "CANCELLED")
           t == L!Store(u, r)
           q == [x EXCEPT !.sys = t]
<1>1. /\ Core(s, {i}, K, I) /\ Lonely(s)
      /\ Entries(s) = Entries(x.sys) /\ s.action = NoCommand
      /\ s.deferred = x.sys.deferred
      /\ x.sys.slot \in Commands /\ x.sys.slot.kind = "stop"
      /\ Alike(x, p) /\ p.sys = s
  BY SlotInHand
<1>2. x \in Apps /\ x.unconfirmed \in SUBSET Motors /\ Stops(x)
  BY AppFields DEF Ready
<1>3. stop \in Commands /\ stop.id = i /\ stop.kind = "stop"
      /\ x.sys.slot.mask \subseteq stop.mask
  BY <1>1, <1>2, Widened
<1>4. dirty \in BOOLEAN /\ Local(c) \in BOOLEAN
  BY DEF Local
<1>5. StopWhileIdle(x) = IF ~CanTakeQueuedMotion(s) THEN StartStop(p, stop, dirty)
                         ELSE StartStop(q, wide, dirty \/ Local(c))
  BY DEF StopWhileIdle
<1> HIDE DEF s, p, stop, dirty
<1>6. CASE ~CanTakeQueuedMotion(s)
  <2>1. NoLocal(s)
    BY <1>1, <1>6, TakenBack
  <2> QED
    BY <1>1, <1>2, <1>3, <1>4, <1>5, <1>6, <2>1, StopStarted
<1>7. CASE CanTakeQueuedMotion(s)
  <2>1. /\ Core(u, {i} \cup {c.id}, K, I) /\ c \in Commands /\ c.id \notin {i}
        /\ u.cmds = s.cmds /\ u.tomb = s.motion
        /\ u.action = s.action /\ u.deferred = s.deferred
    BY <1>1, <1>7, MotionInHand
  <2>2. NoLocal(u)
    BY <1>1, <1>7, TakenBack
  <2> HIDE DEF u
  <2>3. c.mask \in SUBSET Motors
    BY <2>1 DEF Commands
  <2>4. r \in Results /\ r.id = c.id
    BY <2>1, ResultType
  <2>5. L!CanStore(u)
    BY <1>1, <2>1, RoomStores
  <2> HIDE DEF c, r
  <2>6. wide \in Commands /\ wide.id = i /\ wide.kind = "stop"
        /\ x.sys.slot.mask \subseteq wide.mask
    BY <1>3, <2>3, Widened
  <2> HIDE DEF wide
  <2>7. Core(t, ({i} \cup {c.id}) \ {r.id}, K, I)
    BY <2>1, <2>4, <2>5, StoreKeeps
  <2>8. ({i} \cup {c.id}) \ {r.id} = {i}
    BY <2>1, <2>4
  <2>9. u \in Systems
    BY <2>1 DEF Core
  <2>10. Stored(u, t, r)
    BY <2>4, <2>5, <2>9, StoreEffect
  <2> HIDE DEF t
  <2>11. t \in Systems /\ t.cmds = s.cmds /\ t.tomb = u.tomb /\ t.action = NoCommand
    BY <1>1, <2>1, <2>10 DEF Stored
  <2>12. NoLocal(t) /\ Entries(t) = Entries(x.sys)
    <3>1. t.cmds = u.cmds /\ t.tomb = u.tomb
      BY <2>1, <2>11
    <3>2. NoLocal(t)
      BY <2>2, <3>1 DEF NoLocal
    <3>3. Entries(t) = Entries(s)
      BY <2>11 DEF Entries
    <3> QED
      BY <1>1, <3>2, <3>3
  <2>13. Alike(x, q) /\ q.sys = t
    BY <1>2, <2>11, SysEffect
  <2> HIDE DEF q
  <2>14. (dirty \/ Local(c)) \in BOOLEAN
    BY <1>4 DEF Local
  <2>15. Core(t, {wide.id}, K, I)
    BY <2>6, <2>7, <2>8
  <2> DEFINE flag == dirty \/ Local(c)
  <2>16. flag \in BOOLEAN /\ StopWhileIdle(x) = StartStop(q, wide, flag)
    BY <1>5, <1>7, <2>14
  <2> HIDE DEF flag
  <2> QED
    BY <1>2, <2>6, <2>11, <2>12, <2>13, <2>15, <2>16, StopStarted
<1> QED
  BY <1>6, <1>7

\* The executor is exchanged for one that ran nothing new.
LEMMA SysOutcome ==
  ASSUME NEW x, NEW K, NEW I, Ready(x, K, I), NEW t,
         Core(t, {}, K, I), Lonely(t), Runs(t) \subseteq Runs(x.sys),
         t.slot = x.sys.slot
  PROVE  Outcome(x, [x EXCEPT !.sys = t], K, I)
<1> DEFINE y == [x EXCEPT !.sys = t]
<1>1. x \in Apps /\ t \in Systems
  BY DEF Ready, Core
<1>2. Alike(x, y) /\ y.sys = t
  BY <1>1, SysEffect
<1> HIDE DEF y
<1>3. Stops(y)
  BY <1>2, StopsAlike DEF Ready
<1>4. Outcome(x, y, K, I)
  BY <1>2, <1>3 DEF Outcome, Ready, Alike
<1> QED
  BY <1>4 DEF y

\* An ordinary command becomes the action, or ends at once.
LEMMA StartCommandKeeps ==
  ASSUME NEW x, NEW K, NEW I, Ready(x, K, I), x.sys.action = NoCommand,
         x.sys.deferred = <<>>, NEW z \in StartCommand(x)
  PROVE  Outcome(x, z, K, I)
<1> DEFINE e == x.sys
           s == SkipTombstone(e)
           c == Head(s.cmds)
           y == PopCommand(s)
           r == L!Result(c, "FAILED")
           refused == L!Store(y, r)
<1>1. Core(e, {}, K, I) /\ Lonely(e) /\ Alone(e)
  BY DEF Ready, Lonely, Alone
<1>2. /\ Core(s, {}, K, I)
      /\ s.slot = e.slot /\ s.action = NoCommand
      /\ s.deferred = <<>>
      /\ s.cmds # <<>> => Head(s.cmds).id # s.tomb
  BY <1>1, SkipKeeps
<1>3. /\ Alone(s) /\ Entries(s) \subseteq Entries(e)
      /\ s.cmds = <<>> => NoLocal(s)
  BY <1>1, SkippedEntries
<1>4. IF s.cmds = <<>> THEN z = [x EXCEPT !.sys = s]
      ELSE \E t \in L!Start(y, c) \cup {refused} : z = [x EXCEPT !.sys = t]
  BY DEF StartCommand
<1> HIDE DEF e, s
<1>5. CASE s.cmds = <<>>
  <2>1. Lonely(s) /\ Runs(s) \subseteq Runs(e)
    BY <1>2, <1>3, <1>5, RunsShrink DEF Lonely
  <2> QED
    BY <1>2, <1>4, <1>5, <2>1, SysOutcome DEF e
<1>6. CASE s.cmds # <<>>
  <2>1. s \in Systems
    BY <1>2 DEF Core
  <2>2. c \in Commands
    BY <1>6, <2>1, SystemFields, IdsTail
  <2>3. Core(y, {} \cup {c.id}, K, I)
    BY <1>2, <1>6, CommandInHand
  <2>4. NoLocal(y) /\ Entries(y) \subseteq Entries(s) /\ c \in Entries(s)
    BY <1>3, <1>6, <2>1, PoppedEntries
  <2>5. y \in Systems /\ y.slot = s.slot /\ y.action = NoCommand /\ y.deferred = <<>>
    BY <1>2, <1>6, <2>1, PopCommandEffect
  <2>6. L!CanStore(y)
    BY <2>5, EmptyHasRoom, RoomStores
  <2> HIDE DEF c, y
  <2>7. {} \cup {c.id} = {c.id} /\ {c.id} \ {c.id} = {}
    OBVIOUS
  <2>8. Core(y, {c.id}, K, I)
    BY <2>3, <2>7
  <2>9. r \in Results /\ r.id = c.id
    BY <2>2, ResultType
  <2> HIDE DEF r
  <2>10. PICK t \in L!Start(y, c) \cup {refused} : z = [x EXCEPT !.sys = t]
    BY <1>4, <1>6
  <2>11. /\ Core(t, {}, K, I)
         /\ t.cmds = y.cmds /\ t.slot = y.slot /\ t.tomb = y.tomb
         /\ t.action \in {c, NoCommand}
    <3>1. CASE t \in L!Start(y, c)
      BY <2>2, <2>5, <2>6, <2>8, <3>1, StartKeeps
    <3>2. CASE t = refused
      <4>1. Core(t, {c.id} \ {r.id}, K, I)
        BY <2>6, <2>8, <2>9, <3>2, StoreKeeps
      <4>2. Stored(y, t, r)
        BY <2>5, <2>6, <2>9, <3>2, StoreEffect
      <4> QED
        BY <2>5, <2>7, <2>9, <4>1, <4>2 DEF Stored
    <3> QED
      BY <2>10, <3>1, <3>2
  <2> HIDE DEF refused
  <2>12. Entries(t) = Entries(y) /\ NoLocal(t)
    BY <2>4, <2>11 DEF Entries, NoLocal
  <2>13. Runs(t) \subseteq Runs(e)
    BY <1>3, <2>4, <2>11, <2>12, RunsShrink
  <2>14. t.slot = x.sys.slot
    BY <1>2, <2>5, <2>11 DEF e
  <2> QED
    BY <2>10, <2>11, <2>12, <2>13, <2>14, SysOutcome DEF e, Lonely
<1> QED
  BY <1>5, <1>6

LEMMA ExecuteKeeps ==
  ASSUME NEW x, NEW K, NEW I, Ready(x, K, I), NEW z \in Execute(x)
  PROVE  Outcome(x, z, K, I)
<1> DEFINE ready == StopPending(x.sys) /\ L!DeferredRoom(x.sys)
<1>1. L!Idle(x.sys) <=> x.sys.action = NoCommand
  BY SameChannels
<1>2. CASE ~L!Idle(x.sys) /\ ready
  BY <1>1, <1>2, PreemptKeeps DEF Execute
<1>3. CASE ~L!Idle(x.sys) /\ ~ready
  BY <1>1, <1>3, ServiceActionKeeps DEF Execute
<1>4. CASE L!Idle(x.sys) /\ ready
  BY <1>1, <1>4, StopWhileIdleKeeps DEF Execute
<1>5. CASE L!Idle(x.sys) /\ ~ready
  <2>1. CASE x.sys.deferred = <<>>
    BY <1>1, <1>5, <2>1, StartCommandKeeps DEF Execute
  <2>2. CASE x.sys.deferred # <<>>
    <3>1. z = x /\ x \in Apps
      BY <1>5, <2>2 DEF Execute, Ready
    <3> QED
      BY <3>1, AlikeSelf, AlikeOutcome
  <2> QED
    BY <2>1, <2>2
<1> QED
  BY <1>2, <1>3, <1>4, <1>5
-----------------------------------------------------------------------------
(* The steps of ArmControlTask.                                            *)

\* The history of terminals is forgotten.
LEMMA ForgetKeeps ==
  ASSUME NEW x, NEW K, NEW I, Ready(x, K, I)
  PROVE  Outcome(x, Forget(x), K, I)
<1> DEFINE none == <<>>
           t == [x.sys EXCEPT !.ended = none]
<1>1. none \in Seq(Results)
  OBVIOUS
<1>2. Core(x.sys, {}, K, I) /\ Lonely(x.sys) /\ x.sys \in Systems
  BY DEF Ready, Core
<1>3. Forget(x) = [x EXCEPT !.sys = t]
  BY DEF Forget
<1> HIDE DEF none
<1>4. /\ t \in Systems /\ t.cmds = x.sys.cmds /\ t.slot = x.sys.slot
      /\ t.action = x.sys.action /\ t.tomb = x.sys.tomb
      /\ t.motion = x.sys.motion
      /\ t.deferred = x.sys.deferred /\ t.results = x.sys.results
  BY <1>1, <1>2 DEF Systems
<1> HIDE DEF t
<1>5. Core(t, {}, K, I)
  BY <1>2, <1>4 DEF Core, Named, Single, Somewhere, Queued
<1>6. Lonely(t) /\ Runs(t) \subseteq Runs(x.sys)
  BY <1>2, <1>4 DEF Lonely, NoLocal, Runs
<1> QED
  BY <1>3, <1>4, <1>5, <1>6, SysOutcome

\* What a call leaves of the invariant, given what it leaves of its parts.
LEMMA CallKeeps ==
  ASSUME NEW x, NEW a, NEW l, AInv(x, a, l), NEW z,
         Outcome(x, z, Open(x.box), Issued(x.box, a, l))
  PROVE  AInv(z, a, l)
<1>1. /\ z \in Apps /\ Boxes(x.box, z.box) /\ Lonely(z.sys) /\ Stops(z)
      /\ Core(z.sys, {}, Open(x.box), Issued(x.box, a, l))
      /\ Runs(z.sys) \subseteq Runs(x.sys)
      /\ z.authority = "remote" => x.authority = "remote"
  BY DEF Outcome, Ready
<1>2. Open(z.box) = Open(x.box) /\ Waits(z.box) = Waits(x.box) /\ Boxed(z.box, a)
  BY <1>1 DEF Boxes, AInv
<1>3. Issued(z.box, a, l) = Issued(x.box, a, l)
  BY <1>2 DEF Issued
<1>4. Owned(z.sys, z.authority)
  BY <1>1 DEF Owned, AInv
<1> QED
  BY <1>1, <1>2, <1>3, <1>4 DEF AInv

LEMMA ServiceKeeps ==
  ASSUME NEW x, NEW a, NEW l, AInv(x, a, l),
         NEW w \in Health([x EXCEPT !.sys = L!Flush(@)]),
         NEW z \in IF StopIntent(w).fallback # {} THEN Fallback(StopIntent(w))
                   ELSE Execute(StopIntent(w))
  PROVE  AInv(Forget(z), a, l)
<1> DEFINE K == Open(x.box)
           I == Issued(x.box, a, l)
           y == StopIntent(w)
<1>1. Ready(x, K, I)
  BY DEF AInv, Ready
<1> HIDE DEF K, I
<1>2. Outcome(x, w, K, I)
  BY <1>1, CalledKeeps
<1>3. Outcome(w, y, K, I) /\ (y.fallback # {} => y.owed = {})
  BY <1>2, StopIntentKeeps DEF Outcome
<1>4. z \in IF y.fallback # {} THEN Fallback(y) ELSE Execute(y)
  OBVIOUS
<1> HIDE DEF y
<1>5. Outcome(y, z, K, I)
  BY <1>3, <1>4, FallbackKeeps, ExecuteKeeps DEF Outcome
<1>6. Outcome(z, Forget(z), K, I)
  BY <1>5, ForgetKeeps DEF Outcome
<1>7. Outcome(x, Forget(z), K, I)
  BY <1>2, <1>3, <1>5, <1>6, OutcomeTrans
<1> QED
  BY <1>7, CallKeeps DEF K, I

LEMMA TransportFaultKeeps ==
  ASSUME NEW x, NEW a, NEW l, AInv(x, a, l),
         NEW w \in Health([x EXCEPT !.sys = L!Flush(@)]), NEW z \in GlobalCancel(w)
  PROVE  AInv(Forget(z), a, l)
<1> DEFINE K == Open(x.box)
           I == Issued(x.box, a, l)
<1>1. Ready(x, K, I)
  BY DEF AInv, Ready
<1> HIDE DEF K, I
<1>2. Outcome(x, w, K, I)
  BY <1>1, CalledKeeps
<1>3. Outcome(w, z, K, I)
  BY <1>2, GlobalCancelKeeps DEF Outcome
<1>4. Outcome(z, Forget(z), K, I)
  BY <1>3, ForgetKeeps DEF Outcome
<1>5. Outcome(x, Forget(z), K, I)
  BY <1>2, <1>3, <1>4, OutcomeTrans
<1> QED
  BY <1>5, CallKeeps DEF K, I

LEMMA SendFrameKeeps ==
  ASSUME NEW x, NEW a, NEW l, AInv(x, a, l), NEW m
  PROVE  AInv([x EXCEPT !.frames = @ \ {m}], a, l)
<1> DEFINE f == x.frames \ {m}
           y == [x EXCEPT !.frames = f]
<1>1. f \in SUBSET Motors /\ x \in Apps
  BY AppFields DEF AInv
<1> HIDE DEF f
<1>2. /\ y \in Apps /\ y.sys = x.sys /\ y.box = x.box /\ y.authority = x.authority
      /\ y.intent = x.intent /\ y.fallback = x.fallback /\ y.owed = x.owed
  BY <1>1 DEF Apps
<1> HIDE DEF y
<1>3. Stops(y)
  BY <1>2 DEF AInv, Stops, Remembered
<1>4. AInv(y, a, l)
  BY <1>2, <1>3 DEF AInv
<1> QED
  BY <1>4 DEF y, f
-----------------------------------------------------------------------------
(* The mailbox.                                                            *)

\* More identifiers were issued, and the same local transactions are open.
LEMMA CoreWeaker ==
  ASSUME NEW s, NEW H, NEW K, NEW I, NEW K2, NEW I2, Core(s, H, K, I),
         I \subseteq I2, I2 \subseteq Nat \ {0},
         \A i \in 1..MaxUi : i \in K2 <=> i \in K
  PROVE  Core(s, H, K2, I2)
<1>1. Named(s, H, I2)
  BY DEF Core, Named
<1> QED
  BY <1>1 DEF Core

\* An unfinished STOP has the same record.
Keeps(b, c) ==
  \A t \in b : t.op = "stop" /\ ~t.done =>
    \E u \in c : /\ u.id = t.id /\ u.op = t.op /\ u.mask = t.mask
                 /\ u.taken = t.taken /\ u.done = t.done

LEMMA StopsKept ==
  ASSUME NEW x, NEW y, Stops(x), Keeps(x.box, y.box),
         x.intent \subseteq y.intent, y.fallback = x.fallback, y.owed \subseteq x.owed,
         y.sys.slot = x.sys.slot
  PROVE  Stops(y)
<1>1. ASSUME NEW o, Remembered(x, o)
      PROVE  Remembered(y, o)
  <2>1. PICK t \in x.box :
          /\ t.id = o.id /\ ~t.done /\ t.op = "stop" /\ o.motor \in t.mask
          /\ t.taken => x.sys.slot.id = o.id /\ o.motor \in x.sys.slot.mask
    BY <1>1 DEF Remembered
  <2>2. PICK u \in y.box :
          /\ u.id = t.id /\ u.op = t.op /\ u.mask = t.mask
          /\ u.taken = t.taken /\ u.done = t.done
    BY <2>1 DEF Keeps
  <2> QED
    BY <2>1, <2>2 DEF Remembered
<1> QED
  BY <1>1 DEF Stops

\* A record that is taken over.
LEMMA TakeEffect ==
  ASSUME NEW x \in Apps, NEW a \in Nat, Boxed(x.box, a), NEW t \in x.box, ~t.taken
  PROVE  LET y == Take(x, t)
             u == [t EXCEPT !.taken = TRUE]
         IN /\ y \in Apps /\ y.sys = x.sys /\ y.authority = x.authority
            /\ y.intent = x.intent /\ y.fallback = x.fallback /\ y.owed = x.owed
            /\ Boxed(y.box, a)
            /\ Open(y.box) = Open(x.box) \cup {t.id}
            /\ Waits(y.box) = Waits(x.box) \ {t.id}
            /\ t.id \in 1..a /\ t.id \in Waits(x.box)
            /\ t \in Transactions /\ ~t.done
            /\ u \in y.box /\ u.id = t.id /\ u.op = t.op /\ u.mask = t.mask
            /\ u.taken /\ ~u.done
            /\ \A v \in x.box : v # t => v \in y.box /\ v.id # t.id
<1> DEFINE u == [t EXCEPT !.taken = TRUE]
           b == (x.box \ {t}) \cup {u}
           y == [x EXCEPT !.box = b]
<1>1. x.box \in SUBSET Transactions /\ t \in Transactions
  BY AppFields
<1>2. /\ u \in Transactions /\ u.id = t.id /\ u.op = t.op /\ u.mask = t.mask
      /\ u.taken /\ u.done = t.done /\ u.read = t.read /\ u.told = t.told
  BY <1>1 DEF Transactions
<1>3. ~t.done /\ t.id \in 1..a /\ ~t.read
  BY DEF Boxed
<1>4. Take(x, t) = y
  BY DEF Take
<1> HIDE DEF u
<1>5. b \in SUBSET Transactions
  BY <1>1, <1>2
<1>6. \A v \in x.box : v # t => v \in b /\ v.id # t.id
  BY DEF Boxed
<1>7. \A v \in b : v = u \/ (v \in x.box /\ v # t)
  OBVIOUS
<1>8. u \in b
  OBVIOUS
<1> HIDE DEF b
<1>9. Boxed(b, a)
  <2>1. \A v \in b : /\ v.id \in 1..a
                     /\ v.read => v.done
                     /\ v.done \/ v.told => v.taken
    BY <1>2, <1>3, <1>7 DEF Boxed
  <2>2. \A v, w \in b : v.id = w.id => v = w
    BY <1>2, <1>6, <1>7 DEF Boxed
  <2> QED
    BY <2>1, <2>2 DEF Boxed
<1>10. Open(b) = Open(x.box) \cup {t.id}
  <2>1. ASSUME NEW i \in Open(b)
        PROVE  i \in Open(x.box) \cup {t.id}
    BY <1>2, <1>7 DEF Open
  <2>2. ASSUME NEW i \in Open(x.box)
        PROVE  i \in Open(b)
    BY <1>6 DEF Open
  <2>3. t.id \in Open(b)
    BY <1>2, <1>3, <1>8 DEF Open
  <2> QED
    BY <2>1, <2>2, <2>3
<1>11. Waits(b) = Waits(x.box) \ {t.id}
  <2>1. ASSUME NEW i \in Waits(b)
        PROVE  i \in Waits(x.box) /\ i # t.id
    BY <1>2, <1>6, <1>7 DEF Waits
  <2>2. ASSUME NEW i \in Waits(x.box), i # t.id
        PROVE  i \in Waits(b)
    BY <1>6, <2>2 DEF Waits
  <2> QED
    BY <2>1, <2>2
<1>12. t.id \in Waits(x.box)
  BY DEF Waits
<1>13. /\ y \in Apps /\ y.box = b /\ y.sys = x.sys /\ y.authority = x.authority
       /\ y.intent = x.intent /\ y.fallback = x.fallback /\ y.owed = x.owed
  BY <1>5 DEF Apps
<1> HIDE DEF y
<1> QED
  BY <1>1, <1>2, <1>3, <1>4, <1>6, <1>8, <1>9, <1>10, <1>11, <1>12, <1>13 DEF u

\* The same, of what a record that is not a STOP leaves.
LEMMA TakeLeaves ==
  ASSUME NEW x \in Apps, NEW a \in Nat, Boxed(x.box, a), NEW t \in x.box, ~t.taken,
         NEW y, y = Take(x, t)
  PROVE  /\ y \in Apps /\ y.sys = x.sys /\ y.authority = x.authority
         /\ y.intent = x.intent /\ y.fallback = x.fallback /\ y.owed = x.owed
         /\ Boxed(y.box, a)
         /\ Open(y.box) = Open(x.box) \cup {t.id}
         /\ Waits(y.box) = Waits(x.box) \ {t.id}
         /\ t.id \in 1..a /\ t.id \in Waits(x.box)
         /\ t \in Transactions
         /\ \A v \in x.box : v # t => v \in y.box /\ v.id # t.id
<1> DEFINE z == Take(x, t)
           u == [t EXCEPT !.taken = TRUE]
<1>1. /\ z \in Apps /\ z.sys = x.sys /\ z.authority = x.authority
      /\ z.intent = x.intent /\ z.fallback = x.fallback /\ z.owed = x.owed
      /\ Boxed(z.box, a)
      /\ Open(z.box) = Open(x.box) \cup {t.id}
      /\ Waits(z.box) = Waits(x.box) \ {t.id}
      /\ t.id \in 1..a /\ t.id \in Waits(x.box)
      /\ t \in Transactions /\ ~t.done
      /\ u \in z.box /\ u.id = t.id /\ u.op = t.op /\ u.mask = t.mask
      /\ u.taken /\ ~u.done
      /\ \A v \in x.box : v # t => v \in z.box /\ v.id # t.id
  BY TakeEffect
<1> HIDE DEF u
<1>2. y = z
  OBVIOUS
<1> HIDE DEF z
<1> QED
  BY <1>1, <1>2

\* Completions are stored.
LEMMA DoneEffect ==
  ASSUME NEW x \in Apps, NEW a \in Nat, Boxed(x.box, a), NEW ids,
         \A i \in ids : i \notin Waits(x.box)
  PROVE  LET y == Done(x, ids)
         IN /\ y \in Apps /\ y.sys = x.sys /\ y.authority = x.authority
            /\ y.intent = x.intent /\ y.fallback = x.fallback /\ y.owed = x.owed
            /\ Boxed(y.box, a)
            /\ Open(y.box) = Open(x.box) \ ids
            /\ Waits(y.box) = Waits(x.box)
            /\ \A v \in x.box : v.id \notin ids => v \in y.box
<1> DEFINE After(t) == [t EXCEPT !.done = @ \/ t.id \in ids]
           b == {After(t) : t \in x.box}
           y == [x EXCEPT !.box = b]
<1>1. x.box \in SUBSET Transactions
  BY AppFields
<1>2. ASSUME NEW t \in x.box
      PROVE  /\ After(t) \in Transactions
             /\ After(t).id = t.id /\ After(t).op = t.op /\ After(t).mask = t.mask
             /\ After(t).taken = t.taken /\ After(t).read = t.read
             /\ After(t).told = t.told
             /\ After(t).done <=> t.done \/ t.id \in ids
             /\ t.id \notin ids => After(t) = t
             /\ t.id \in ids => t.taken
  <2> DEFINE d == t.done \/ t.id \in ids
  <2>1. t \in Transactions
    BY <1>1
  <2>2. d \in BOOLEAN
    BY <2>1 DEF Transactions
  <2>3. t.id \notin ids => d = t.done
    BY <2>1 DEF Transactions
  <2>4. After(t) = [t EXCEPT !.done = d]
    OBVIOUS
  <2>5. t.id \in ids => t.taken
    BY DEF Waits
  <2>6. d <=> t.done \/ t.id \in ids
    OBVIOUS
  <2> HIDE DEF d, After
  <2>7. d = t.done => [t EXCEPT !.done = d] = t
    BY <2>1 DEF Transactions
  <2> QED
    BY <2>1, <2>2, <2>3, <2>4, <2>5, <2>6, <2>7 DEF Transactions
<1>3. Done(x, ids) = y
  BY DEF Done
<1> HIDE DEF After
<1>4. b \in SUBSET Transactions
  BY <1>2
<1>5. \A v \in x.box : v.id \notin ids => v \in b
  BY <1>2
<1>6. \A v \in b : \E t \in x.box : v = After(t)
  OBVIOUS
<1>7. \A t \in x.box : After(t) \in b
  OBVIOUS
<1> HIDE DEF b
<1>8. Boxed(b, a)
  <2>1. \A v \in b : /\ v.id \in 1..a
                     /\ v.read => v.done
                     /\ v.done \/ v.told => v.taken
    BY <1>2, <1>6 DEF Boxed
  <2>2. ASSUME NEW v \in b, NEW w \in b, v.id = w.id
        PROVE  v = w
    <3>1. PICK t1 \in x.box : v = After(t1)
      BY <1>6
    <3>2. PICK t2 \in x.box : w = After(t2)
      BY <1>6
    <3>3. t1.id = t2.id
      BY <1>2, <2>2, <3>1, <3>2
    <3>4. t1 = t2
      BY <3>3 DEF Boxed
    <3> QED
      BY <3>1, <3>2, <3>4
  <2> QED
    BY <2>1, <2>2 DEF Boxed
<1>9. Open(b) = Open(x.box) \ ids
  <2>1. ASSUME NEW i \in Open(b)
        PROVE  i \in Open(x.box) /\ i \notin ids
    <3>1. PICK v \in b : v.id = i /\ v.taken /\ ~v.done
      BY DEF Open
    <3>2. PICK t \in x.box : v = After(t)
      BY <1>6
    <3>3. t.id = i /\ t.taken /\ ~t.done /\ i \notin ids
      BY <1>2, <3>1, <3>2
    <3> QED
      BY <3>3 DEF Open
  <2>2. ASSUME NEW i \in Open(x.box), i \notin ids
        PROVE  i \in Open(b)
    BY <1>5, <2>2 DEF Open
  <2> QED
    BY <2>1, <2>2
<1>10. Waits(b) = Waits(x.box)
  <2>1. ASSUME NEW i \in Waits(b)
        PROVE  i \in Waits(x.box)
    <3>1. PICK v \in b : v.id = i /\ ~v.taken
      BY DEF Waits
    <3>2. PICK t \in x.box : v = After(t)
      BY <1>6
    <3>3. t.id = i /\ ~t.taken
      BY <1>2, <3>1, <3>2
    <3> QED
      BY <3>3 DEF Waits
  <2>2. ASSUME NEW i \in Waits(x.box)
        PROVE  i \in Waits(b)
    <3>1. PICK t \in x.box : t.id = i /\ ~t.taken
      BY DEF Waits
    <3>2. After(t).id = i /\ ~After(t).taken /\ After(t) \in b
      BY <1>2, <1>7, <3>1
    <3> QED
      BY <3>2 DEF Waits
  <2> QED
    BY <2>1, <2>2
<1>11. /\ y \in Apps /\ y.box = b /\ y.sys = x.sys /\ y.authority = x.authority
       /\ y.intent = x.intent /\ y.fallback = x.fallback /\ y.owed = x.owed
  BY <1>4 DEF Apps
<1> HIDE DEF y
<1> QED
  BY <1>3, <1>5, <1>8, <1>9, <1>10, <1>11

\* The identifiers that were issued.
LEMMA IssuedEffect ==
  ASSUME NEW b, NEW a \in 0..MaxUi, NEW l \in Nat
  PROVE  /\ Issued(b, a, l) \subseteq Nat \ {0}
         /\ \A i \in 1..MaxUi : i \in Issued(b, a, l) <=> i \in 1..a /\ i \notin Waits(b)
         /\ MaxUi + l + 1 \notin Issued(b, a, l) /\ MaxUi + l + 1 \notin 1..MaxUi
         /\ MaxUi + l + 1 \in Nat \ {0}
         /\ Issued(b, a, l + 1) = Issued(b, a, l) \cup {MaxUi + l + 1}
<1>1. MaxUi \in Nat /\ a \in Nat /\ a <= MaxUi
  BY MailboxAssumption
<1>2. 1..a \subseteq 1..MaxUi /\ (\A i \in 1..MaxUi : i \notin (MaxUi + 1)..(MaxUi + l))
  BY <1>1
<1>3. Issued(b, a, l) \subseteq Nat \ {0}
  BY <1>1 DEF Issued
<1>4. \A i \in 1..MaxUi : i \in Issued(b, a, l) <=> i \in 1..a /\ i \notin Waits(b)
  BY <1>2, Zenon DEF Issued
<1>5. /\ MaxUi + l + 1 \notin 1..a /\ MaxUi + l + 1 \notin (MaxUi + 1)..(MaxUi + l)
      /\ MaxUi + l + 1 \notin 1..MaxUi /\ MaxUi + l + 1 \in Nat \ {0}
      /\ (MaxUi + 1)..(MaxUi + (l + 1)) = ((MaxUi + 1)..(MaxUi + l)) \cup {MaxUi + l + 1}
  BY <1>1
<1>6. MaxUi + l + 1 \notin Issued(b, a, l)
  BY <1>5, Zenon DEF Issued
<1>7. Issued(b, a, l + 1) = Issued(b, a, l) \cup {MaxUi + l + 1}
  BY <1>5, Zenon DEF Issued
<1> QED
  BY <1>3, <1>4, <1>5, <1>6, <1>7

\* A STOP that must wait is latched.
LEMMA LatchKeeps ==
  ASSUME NEW x, NEW a, NEW l, AInv(x, a, l), a < MaxUi, NEW mask \in SUBSET Motors
  PROVE  AInv(Latch(x, a + 1, mask), a + 1, l)
<1> DEFINE i == x.intent \cup mask
           q == x.owed \cup Owes(a + 1, mask)
           y == [x EXCEPT !.intent = i, !.owed = q]
           I == Issued(x.box, a, l)
           J == Issued(x.box, a + 1, l)
<1>1. /\ x \in Apps /\ a \in 0..MaxUi /\ l \in Nat /\ MaxUi \in Nat
      /\ a \in Nat /\ a + 1 \in 0..MaxUi
  BY MailboxAssumption DEF AInv
<1>2. /\ i \in SUBSET Motors
      /\ Owes(a + 1, mask) \in SUBSET [id : Nat, motor : Motors]
      /\ x.owed \in SUBSET [id : Nat, motor : Motors]
  BY <1>1 DEF Owes, Apps
<1>3. q \in SUBSET [id : Nat, motor : Motors]
  BY <1>2
<1>4. Latch(x, a + 1, mask) = y
  BY DEF Latch
<1>5. \A o \in q : o \in x.owed \/ o.motor \in mask
  BY DEF Owes
<1>6. x.intent \subseteq i /\ mask \subseteq i
  OBVIOUS
<1> HIDE DEF i, q
<1>7. /\ y \in Apps /\ y.sys = x.sys /\ y.box = x.box /\ y.authority = x.authority
      /\ y.intent = i /\ y.fallback = x.fallback /\ y.owed = q
  BY <1>1, <1>2, <1>3 DEF Apps
<1> HIDE DEF y
<1>8. Stops(y)
  BY <1>5, <1>6, <1>7 DEF AInv, Stops, Remembered
<1>9. Boxed(x.box, a + 1)
  <2>1. 1..a \subseteq 1..(a + 1)
    BY <1>1
  <2> QED
    BY <2>1 DEF AInv, Boxed
<1>10. Core(x.sys, {}, Open(x.box), J)
  <2>1. 1..a \subseteq 1..(a + 1)
    BY <1>1
  <2>2. I \subseteq J
    BY <2>1, Zenon DEF Issued
  <2>3. J \subseteq Nat \ {0}
    BY <1>1, IssuedEffect
  <2>4. Core(x.sys, {}, Open(x.box), I)
    BY DEF AInv
  <2> HIDE DEF I, J
  <2> QED
    BY <2>2, <2>3, <2>4, CoreWeaker
<1>11. AInv(y, a + 1, l)
  BY <1>1, <1>7, <1>8, <1>9, <1>10 DEF AInv
<1> QED
  BY <1>4, <1>11

\* A request gets its record.
LEMMA ReserveKeeps ==
  ASSUME NEW x, NEW a, NEW l, AInv(x, a, l), a < MaxUi, NEW mask \in SUBSET Motors,
         NEW op \in {"stop", "move", "acquire", "release"}, NEW old \in BOOLEAN
  PROVE  AInv(Reserve(x, a + 1, op, mask, old), a + 1, l)
<1> DEFINE t == [id |-> a + 1, op |-> op, mask |-> mask, old |-> old,
                 taken |-> FALSE, told |-> FALSE, done |-> FALSE, read |-> FALSE]
           b == x.box \cup {t}
           q == IF op # "stop" THEN x.owed
                ELSE x.owed \cup Owes(a + 1, mask \ x.fallback)
           y == [x EXCEPT !.box = b, !.owed = q]
<1>1. /\ x \in Apps /\ a \in 0..MaxUi /\ l \in Nat /\ MaxUi \in Nat
      /\ a \in Nat /\ a + 1 \in 0..MaxUi
  BY MailboxAssumption DEF AInv
<1>2. /\ t \in Transactions /\ t.id = a + 1 /\ t.op = op /\ t.mask = mask
      /\ ~t.taken /\ ~t.told /\ ~t.done /\ ~t.read
  BY <1>1 DEF Transactions
<1>3. Reserve(x, a + 1, op, mask, old) = y
  BY DEF Reserve
<1> HIDE DEF t
<1>4. /\ b \in SUBSET Transactions
      /\ x.owed \in SUBSET [id : Nat, motor : Motors]
      /\ Owes(a + 1, mask \ x.fallback) \in SUBSET [id : Nat, motor : Motors]
  BY <1>1, <1>2 DEF Apps, Owes
<1>5. q \in SUBSET [id : Nat, motor : Motors]
  BY <1>4
<1>6. \A o \in q : \/ o \in x.owed
                   \/ /\ op = "stop" /\ o.id = a + 1
                      /\ o.motor \in mask /\ o.motor \notin x.fallback
  BY DEF Owes
<1>7. t \in b /\ x.box \subseteq b /\ \A v \in b : v = t \/ v \in x.box
  OBVIOUS
<1> HIDE DEF b, q
<1>8. /\ y \in Apps /\ y.sys = x.sys /\ y.box = b /\ y.authority = x.authority
      /\ y.intent = x.intent /\ y.fallback = x.fallback /\ y.owed = q
  BY <1>1, <1>4, <1>5 DEF Apps
<1> HIDE DEF y
<1>9. \A v \in x.box : v.id \in 1..a
  BY DEF AInv, Boxed
<1>10. /\ a + 1 \notin 1..a /\ a + 1 \in 1..(a + 1) /\ 1..a \subseteq 1..(a + 1)
       /\ 1..(a + 1) = (1..a) \cup {a + 1}
  BY <1>1
<1>11. Boxed(b, a + 1)
  <2>1. \A v \in b : /\ v.id \in 1..(a + 1)
                     /\ v.read => v.done
                     /\ v.done \/ v.told => v.taken
    BY <1>2, <1>7, <1>10 DEF AInv, Boxed
  <2>2. \A v, w \in b : v.id = w.id => v = w
    BY <1>2, <1>7, <1>9, <1>10 DEF AInv, Boxed
  <2> QED
    BY <2>1, <2>2 DEF Boxed
<1>12. Open(b) = Open(x.box)
  BY <1>2, <1>7 DEF Open
<1>13. Waits(b) = Waits(x.box) \cup {a + 1}
  <2>1. ASSUME NEW j \in Waits(b)
        PROVE  j \in Waits(x.box) \cup {a + 1}
    BY <1>2, <1>7 DEF Waits
  <2>2. ASSUME NEW j \in Waits(x.box)
        PROVE  j \in Waits(b)
    BY <1>7 DEF Waits
  <2>3. a + 1 \in Waits(b)
    BY <1>2, <1>7 DEF Waits
  <2> QED
    BY <2>1, <2>2, <2>3
<1>14. Issued(b, a + 1, l) = Issued(x.box, a, l)
  <2>1. a + 1 \notin Waits(x.box)
    BY <1>9, <1>10 DEF Waits
  <2> QED
    BY <1>10, <1>13, <2>1, Zenon DEF Issued
<1>15. Stops(y)
  <2>1. ASSUME NEW o \in x.owed
        PROVE  o.motor \in y.intent \/ (o.motor \notin y.fallback /\ Remembered(y, o))
    BY <1>7, <1>8 DEF AInv, Stops, Remembered
  <2>2. ASSUME NEW o \in q, o \notin x.owed
        PROVE  o.motor \notin y.fallback /\ Remembered(y, o)
    BY <1>2, <1>6, <1>7, <1>8, <2>2 DEF Remembered
  <2> QED
    BY <1>8, <2>1, <2>2 DEF Stops
<1>16. AInv(y, a + 1, l)
  BY <1>1, <1>8, <1>11, <1>12, <1>14, <1>15 DEF AInv
<1> QED
  BY <1>3, <1>16

\* A record is read, or released when it is read completely.
LEMMA ConsumedKeeps ==
  ASSUME NEW x, NEW a, NEW l, AInv(x, a, l), NEW t \in x.box, t.taken,
         NEW u, \/ u = [t EXCEPT !.told = TRUE]
                \/ t.done /\ u = [t EXCEPT !.read = TRUE]
  PROVE  AInv([x EXCEPT !.box = (@ \ {t}) \cup (IF u.told /\ u.read THEN {} ELSE {u})],
              a, l)
<1> DEFINE b == (x.box \ {t}) \cup (IF u.told /\ u.read THEN {} ELSE {u})
           y == [x EXCEPT !.box = b]
<1>1. x \in Apps /\ x.box \in SUBSET Transactions /\ t \in Transactions
  BY AppFields DEF AInv
<1>2. /\ u \in Transactions /\ u.id = t.id /\ u.op = t.op /\ u.mask = t.mask
      /\ u.taken = t.taken /\ u.done = t.done
      /\ u.read => t.done
  BY <1>1 DEF Transactions, AInv, Boxed
<1>3. /\ \A v \in b : v = u \/ (v \in x.box /\ v # t)
      /\ \A v \in x.box : v # t => v \in b
      /\ ~t.done => u \in b
  BY <1>2
<1>4. b \in SUBSET Transactions
  BY <1>1, <1>2
<1> HIDE DEF b
<1>5. /\ y \in Apps /\ y.sys = x.sys /\ y.box = b /\ y.authority = x.authority
      /\ y.intent = x.intent /\ y.fallback = x.fallback /\ y.owed = x.owed
  BY <1>1, <1>4 DEF Apps
<1> HIDE DEF y
<1>6. Boxed(x.box, a)
  BY DEF AInv
<1>7. Boxed(b, a)
  <2>1. \A v \in b : /\ v.id \in 1..a
                     /\ v.read => v.done
                     /\ v.done \/ v.told => v.taken
    BY <1>2, <1>3, <1>6 DEF Boxed
  <2>2. \A v, w \in b : v.id = w.id => v = w
    BY <1>2, <1>3, <1>6 DEF Boxed
  <2> QED
    BY <2>1, <2>2 DEF Boxed
<1>8. Open(b) = Open(x.box)
  <2>1. ASSUME NEW v \in b, v.taken, ~v.done
        PROVE  \E w \in x.box : w.taken /\ ~w.done /\ w.id = v.id
    BY <1>2, <1>3, <2>1
  <2>2. ASSUME NEW v \in x.box, v.taken, ~v.done
        PROVE  \E w \in b : w.taken /\ ~w.done /\ w.id = v.id
    BY <1>2, <1>3, <2>2
  <2> QED
    BY <2>1, <2>2 DEF Open
<1>9. Waits(b) = Waits(x.box)
  BY <1>2, <1>3 DEF Waits
<1>10. Keeps(x.box, b)
  BY <1>2, <1>3 DEF Keeps
<1>11. Stops(y)
  BY <1>5, <1>10, StopsKept DEF AInv
<1>12. Issued(b, a, l) = Issued(x.box, a, l)
  BY <1>9 DEF Issued
<1>13. AInv(y, a, l)
  BY <1>5, <1>7, <1>8, <1>11, <1>12 DEF AInv
<1> QED
  BY <1>13 DEF y, b
-----------------------------------------------------------------------------
(* The steps of ProtocolTask.                                              *)

\* Local results become completions.
LEMMA RouteKeeps ==
  ASSUME NEW x, NEW a, NEW l, AInv(x, a, l), NEW n \in Routed(x)
  PROVE  AInv([Complete(x, SubSeq(x.sys.results, 1, n))
                 EXCEPT !.sys.results = SubSeq(@, n + 1, Len(@))], a, l)
<1> DEFINE s == x.sys
           rs == SubSeq(s.results, 1, n)
           rest == SubSeq(s.results, n + 1, Len(s.results))
           y == Done(x, Ids(rs))
           z == Complete(x, rs)
           t == [s EXCEPT !.results = rest]
           w == [z EXCEPT !.sys = t]
           I == Issued(x.box, a, l)
<1>1. /\ x \in Apps /\ a \in 0..MaxUi /\ a \in Nat /\ l \in Nat /\ s \in Systems
      /\ s.results \in Seq(Results) /\ Boxed(x.box, a)
      /\ Core(s, {}, Open(x.box), I)
  BY AppFields, SystemFields, MailboxAssumption DEF AInv
<1>2. n \in 0..Len(s.results) /\ n \in DOMAIN s.results
  BY <1>1 DEF Routed
<1>3. rs \in Seq(Results) /\ rest \in Seq(Results) /\ Len(rs) = n
      /\ Ids(s.results) = Ids(rs) \cup Ids(rest)
  BY <1>1, <1>2, IdsCut
<1>4. Ids(rs) \subseteq 1..MaxUi
  <2>1. \A k \in 1..n : k \in DOMAIN s.results /\ rs[k] = s.results[k]
    BY <1>1, <1>2
  <2>2. DOMAIN rs = 1..n
    BY <1>3
  <2>3. \A k \in 1..n : s.results[k].id \in 1..MaxUi
    BY DEF Routed, Local
  <2> HIDE DEF rs, s
  <2> QED
    BY <2>1, <2>2, <2>3, Zenon DEF Ids
<1>5. \A i \in Ids(rs) : i \in I /\ i \notin Waits(x.box) /\ i # s.slot.id
  <2>1. \A i \in Ids(rs) : i \in I
    BY <1>1, <1>3, PlaceIds
  <2>2. \A i \in Ids(rs) : i \notin Waits(x.box)
    BY <1>1, <1>4, <2>1, IssuedEffect
  <2>3. \A i \in Ids(rs) : i # s.slot.id
    <3>1. \A i \in Ids(rs) : i \in Nat \ {0}
      BY <1>1, <1>3, PlaceIds
    <3>2. Single(s, {})
      BY <1>1 DEF Core
    <3> HIDE DEF s, rs, rest
    <3> QED
      BY <1>3, <3>1, <3>2 DEF Single
  <2> QED
    BY <2>1, <2>2, <2>3
<1>6. z = y \/ z = Fault(y)
  BY DEF Complete, Ids
<1>7. [Complete(x, rs) EXCEPT !.sys.results = SubSeq(@, n + 1, Len(@))]
        = [z EXCEPT !.sys = [z.sys EXCEPT
                               !.results = SubSeq(z.sys.results, n + 1, Len(z.sys.results))]]
  OBVIOUS
<1> HIDE DEF z, y
<1>8. /\ y \in Apps /\ y.sys = s /\ y.authority = x.authority
      /\ y.intent = x.intent /\ y.fallback = x.fallback /\ y.owed = x.owed
      /\ Boxed(y.box, a)
      /\ Open(y.box) = Open(x.box) \ Ids(rs)
      /\ Waits(y.box) = Waits(x.box)
      /\ \A v \in x.box : v.id \notin Ids(rs) => v \in y.box
  BY <1>1, <1>5, DoneEffect DEF y
<1>9. Alike(y, z) /\ z.sys = s
  BY <1>6, <1>8, AlikeSelf, FaultEffect
<1>10. [Complete(x, rs) EXCEPT !.sys.results = SubSeq(@, n + 1, Len(@))] = w
  BY <1>7, <1>9
<1>11. /\ t \in Systems /\ t.cmds = s.cmds /\ t.slot = s.slot /\ t.tomb = s.tomb
       /\ t.action = s.action /\ t.motion = s.motion
       /\ t.deferred = s.deferred /\ t.results = rest
  <2> HIDE DEF rest, rs
  <2> QED
    BY <1>1, <1>3 DEF Systems
<1> HIDE DEF t
<1>12. Core(t, {}, Open(x.box) \ Ids(rs), I)
  <2>1. \A i \in 1..MaxUi :
          i \in Open(x.box) \ Ids(rs) <=> i \in Open(x.box) /\ i \notin Ids(rs)
    OBVIOUS
  <2> HIDE DEF I, s
  <2> QED
    BY <1>1, <1>2, <1>11, <2>1, CutKeeps
<1> HIDE DEF rs, rest
<1>13. Alike(z, w) /\ w.sys = t
  BY <1>9, <1>11, SysEffect DEF Alike
<1>14. Alike(y, w)
  BY <1>9, <1>13, AlikeTrans
<1> HIDE DEF w
<1>15. /\ w \in Apps /\ Open(w.box) = Open(x.box) \ Ids(rs)
       /\ Waits(w.box) = Waits(x.box) /\ Boxed(w.box, a)
       /\ w.intent = x.intent /\ w.fallback = x.fallback /\ w.owed = x.owed
       /\ w.authority = "remote" => x.authority = "remote"
  BY <1>8, <1>14 DEF Alike, Boxes
<1>16. Issued(w.box, a, l) = I
  BY <1>15 DEF Issued
<1>17. Lonely(t) /\ Runs(t) = Runs(s)
  BY <1>11 DEF AInv, Lonely, NoLocal, Runs
<1>18. Owned(t, w.authority)
  BY <1>15, <1>17 DEF AInv, Owned
<1>19. Stops(w)
  <2>1. ASSUME NEW o, Remembered(x, o)
        PROVE  Remembered(w, o)
    <3>1. PICK u \in x.box :
            /\ u.id = o.id /\ ~u.done /\ u.op = "stop" /\ o.motor \in u.mask
            /\ u.taken => s.slot.id = o.id /\ o.motor \in s.slot.mask
      BY <2>1 DEF Remembered
    <3>2. u.id \notin Ids(rs)
      <4>1. CASE u.taken
        BY <1>5, <3>1, <4>1
      <4>2. CASE ~u.taken
        BY <1>5, <4>2 DEF Waits
      <4> QED
        BY <4>1, <4>2
    <3>3. u \in y.box
      BY <1>8, <3>2
    <3>4. PICK v \in w.box : /\ v.id = u.id /\ v.op = u.op /\ v.mask = u.mask
                             /\ v.taken = u.taken /\ v.done = u.done
      BY <1>14, <3>3 DEF Alike, Boxes
    <3> QED
      BY <1>11, <1>13, <3>1, <3>4 DEF Remembered
  <2> QED
    BY <1>15, <2>1 DEF AInv, Stops
<1>20. AInv(w, a, l)
  BY <1>1, <1>12, <1>13, <1>15, <1>16, <1>17, <1>18, <1>19 DEF AInv
<1> QED
  BY <1>10, <1>20 DEF rs

\* A result of the host leaves the ring.
LEMMA PopHostKeeps ==
  ASSUME NEW x, NEW a, NEW l, AInv(x, a, l),
         x.sys.results # <<>>, ~Local(Head(x.sys.results))
  PROVE  AInv([x EXCEPT !.sys = PopResult(@)], a, l)
<1> DEFINE s == x.sys
           q == s.results
           t == PopResult(s)
           K == Open(x.box)
           I == Issued(x.box, a, l)
<1>1. /\ x \in Apps /\ s \in Systems /\ q \in Seq(Results) /\ s.motion \in Nat
      /\ Core(s, {}, K, I) /\ Ready(x, K, I)
  BY AppFields, SystemFields DEF AInv, Ready
<1>2. /\ Head(q) \in Results /\ Head(q) = q[1]
      /\ Tail(q) \in Seq(Results) /\ 1 \in 0..Len(q)
      /\ Tail(q) = SubSeq(q, 1 + 1, Len(q))
      /\ Len(SubSeq(q, 1, 1)) = 1 /\ SubSeq(q, 1, 1)[1] = q[1]
  BY <1>1
<1>3. Ids(SubSeq(q, 1, 1)) = {q[1].id}
  <2> DEFINE p == SubSeq(q, 1, 1)
  <2>1. DOMAIN p = {1} /\ p[1] = q[1]
    BY <1>1, <1>2
  <2> HIDE DEF p
  <2>2. Ids(p) = {q[1].id}
    BY <2>1 DEF Ids
  <2> QED
    BY <2>2 DEF p
<1>4. Head(q).kind # "movej"
  BY <1>2 DEF Results
<1>5. t = [s EXCEPT !.results = Tail(q), !.motion = s.motion]
  BY <1>4 DEF PopResult
<1>6. /\ t \in Systems /\ t.cmds = s.cmds /\ t.slot = s.slot /\ t.tomb = s.tomb
      /\ t.action = s.action /\ t.motion = s.motion
      /\ t.deferred = s.deferred /\ t.results = Tail(q)
  <2> DEFINE u == Tail(q)
  <2>1. u \in Seq(Results) /\ t = [s EXCEPT !.results = u, !.motion = s.motion]
    BY <1>2, <1>5
  <2> HIDE DEF u, t
  <2>2. /\ t \in Systems /\ t.cmds = s.cmds /\ t.slot = s.slot /\ t.tomb = s.tomb
        /\ t.action = s.action /\ t.motion = s.motion
        /\ t.deferred = s.deferred /\ t.results = u
    BY <1>1, <2>1 DEF Systems
  <2> QED
    BY <2>2 DEF u
<1> HIDE DEF t
<1>7. Core(t, {}, K, I)
  <2>1. \A i \in 1..MaxUi : i \in K <=> i \in K /\ i \notin Ids(SubSeq(q, 1, 1))
    BY <1>2, <1>3 DEF Local
  <2> HIDE DEF K, I
  <2> QED
    BY <1>1, <1>2, <1>6, <2>1, CutKeeps
<1>8. Lonely(t) /\ Runs(t) \subseteq Runs(s)
  BY <1>1, <1>6 DEF Ready, Lonely, NoLocal, Runs
<1>9. Outcome(x, [x EXCEPT !.sys = t], K, I)
  <2> HIDE DEF K, I
  <2> QED
    BY <1>1, <1>6, <1>7, <1>8, SysOutcome
<1> QED
  BY <1>9, CallKeeps DEF t

\* A line of the host: an ordinary one only while the arm is not local.
LEMMA LineKeeps ==
  ASSUME NEW x, NEW a, NEW l, AInv(x, a, l), NEW kind \in {"plain", "oneshot", "stop"},
         NEW m \in Motors, kind = "stop" \/ x.authority = "remote",
         NEW c, c = [id |-> MaxUi + l + 1, kind |-> kind, mask |-> {m}, session |-> 1],
         Admits(x.sys, c)
  PROVE  AInv(Enqueue(x, c), a, l + 1)
<1> DEFINE s == x.sys
           t == Publish(Claim(s, c), c)
           y == [x EXCEPT !.sys = t]
           K == Open(x.box)
           I == Issued(x.box, a, l)
           J == Issued(x.box, a, l + 1)
<1>1. /\ x \in Apps /\ s \in Systems /\ a \in 0..MaxUi /\ l \in Nat /\ l + 1 \in Nat
      /\ Core(s, {}, K, I) /\ MaxUi \in Nat
  BY AppFields, MailboxAssumption DEF AInv
<1>2. /\ MaxUi + l + 1 \notin I /\ MaxUi + l + 1 \notin 1..MaxUi
      /\ MaxUi + l + 1 \in Nat \ {0} /\ J = I \cup {MaxUi + l + 1}
      /\ J \subseteq Nat \ {0}
  BY <1>1, IssuedEffect
<1>3. /\ c \in Commands /\ c.id = MaxUi + l + 1 /\ c.kind = kind /\ ~Local(c)
      /\ c # NoCommand
  BY <1>2 DEF Commands, Kinds, Local, NoCommand
<1>4. c.kind = "stop" => s.slot = NoCommand
  BY <1>3 DEF Admits, StopPending
<1> HIDE DEF I, J, K
<1>5. Core(t, {}, K, J)
  <2>1. \A i \in 1..MaxUi : i \in K <=> i \in K \/ i = c.id
    BY <1>2, <1>3
  <2>2. c.id \notin I /\ I \subseteq J /\ c.id \in J
    BY <1>2, <1>3
  <2>3. c.kind # "stop" /\ Local(c) => c.kind = "oneshot"
    BY <1>3
  <2> QED
    BY <1>1, <1>2, <1>3, <1>4, <2>1, <2>2, <2>3, EnqueueKeeps
<1>6. /\ t \in Systems /\ t.tomb = s.tomb /\ t.action = s.action
      /\ t.deferred = s.deferred /\ t.results = s.results
      /\ c.kind = "stop" => t.slot = c /\ t.cmds = s.cmds /\ t.motion = s.motion
      /\ c.kind # "stop" => t.slot = s.slot /\ t.cmds = Append(s.cmds, c)
  BY <1>1, <1>3, EnqueueEffect
<1>7. Enqueue(x, c) = y
  BY DEF Enqueue
<1> HIDE DEF t
<1>8. /\ y \in Apps /\ y.sys = t /\ y.box = x.box /\ y.authority = x.authority
      /\ y.intent = x.intent /\ y.fallback = x.fallback /\ y.owed = x.owed
  BY <1>1, <1>6, SysEffect DEF Alike
<1> HIDE DEF y
<1>9. Lonely(t) /\ Owned(t, x.authority)
  <2>1. CASE kind = "stop"
    BY <1>3, <1>6, <2>1 DEF AInv, Lonely, NoLocal, Owned, Runs
  <2>2. CASE kind # "stop"
    <3>1. x.authority = "remote" /\ t.cmds = Append(s.cmds, c)
      BY <1>3, <1>6, <2>2
    <3>2. \A d \in Runs(s) : ~Local(d)
      BY <3>1 DEF AInv, Owned
    <3>3. \A n \in DOMAIN s.cmds : ~Local(s.cmds[n])
      <4>1. ASSUME NEW n \in DOMAIN s.cmds
            PROVE  s.cmds[n] \in Runs(s)
        <5>1. s.cmds[n].id \in I /\ s.cmds[n].kind # "stop"
          BY <1>1 DEF Core, Named
        <5>2. 0 \notin I
          BY <1>1 DEF Core
        <5>3. s.cmds[n] # NoCommand
          BY <5>1, <5>2, NoCommandType
        <5> QED
          BY <5>1, <5>3 DEF Runs
      <4> QED
        BY <3>2, <4>1
    <3>4. \A n \in DOMAIN t.cmds : (n \in DOMAIN s.cmds /\ t.cmds[n] = s.cmds[n])
                                     \/ t.cmds[n] = c
      BY <1>1, <1>3, <3>1, SystemFields
    <3>5. NoLocal(t)
      BY <1>3, <3>3, <3>4 DEF NoLocal
    <3>6. \A d \in Runs(t) : d = c \/ d \in Runs(s)
      BY <1>6, <3>4 DEF Runs
    <3>7. \A d \in Runs(t) : ~Local(d)
      BY <1>3, <3>2, <3>6
    <3>8. \A d, e \in Runs(t) : Local(d) = Local(e)
      BY <3>7 DEF Local
    <3> QED
      BY <3>5, <3>7, <3>8 DEF Lonely, Owned
  <2> QED
    BY <2>1, <2>2
<1>10. Stops(y)
  <2>1. CASE kind # "stop"
    BY <1>3, <1>6, <1>8, <2>1 DEF AInv, Stops, Remembered
  <2>2. CASE kind = "stop"
    <3>1. s.slot.id = 0
      BY <1>3, <1>4, <2>2, NoCommandType
    <3>2. \A u \in x.box : u.id # 0
      BY <1>1 DEF AInv, Boxed
    <3>3. \A o : Remembered(x, o) => Remembered(y, o)
      BY <1>8, <3>1, <3>2 DEF Remembered
    <3> QED
      BY <1>8, <3>3 DEF AInv, Stops
  <2> QED
    BY <2>1, <2>2
<1>11. AInv(y, a, l + 1)
  BY <1>1, <1>5, <1>8, <1>9, <1>10 DEF AInv, K, J
<1> QED
  BY <1>7, <1>11

LEMMA RearmedKeeps ==
  ASSUME NEW x, NEW a, NEW l, AInv(x, a, l)
  PROVE  AInv(Rearmed(x), a, l)
<1> DEFINE y == [x EXCEPT !.authority = "armed"]
<1>1. CASE Rearmed(x) = x
  BY <1>1
<1>2. CASE x.authority = "busy" /\ Rearmed(x) = y
  <2>1. /\ y \in Apps /\ y.sys = x.sys /\ y.box = x.box /\ y.authority = "armed"
        /\ y.intent = x.intent /\ y.fallback = x.fallback /\ y.owed = x.owed
    BY DEF AInv, Apps
  <2> HIDE DEF y
  <2>2. Stops(y) /\ Owned(y.sys, y.authority)
    BY <1>2, <2>1 DEF AInv, Stops, Remembered, Owned
  <2> QED
    BY <1>2, <2>1, <2>2 DEF AInv
<1> QED
  BY <1>1, <1>2 DEF Rearmed

\* The command of a record.
LEMMA CommandType ==
  ASSUME NEW t \in Transactions
  PROVE  LET c == Command(t)
         IN /\ c \in Commands /\ c.id = t.id /\ c.mask = t.mask
            /\ t.op = "stop" => c.kind = "stop"
            /\ t.op # "stop" => c.kind = "oneshot"
  BY DEF Transactions, Commands, Kinds, Command

\* A STOP is admitted into the free slot.
LEMMA TakeStopKeeps ==
  ASSUME NEW x, NEW a, NEW l, AInv(x, a, l)
  PROVE  AInv(TakeStop(x), a, l)
<1> DEFINE t == CHOOSE u \in Waiting(x, TRUE) : TRUE
           y == Take(x, t)
           c == Command(t)
           s == x.sys
           p == Publish(Claim(s, c), c)
           z == [y EXCEPT !.sys = p]
           u == [t EXCEPT !.taken = TRUE]
           I == Issued(x.box, a, l)
           J == Issued(y.box, a, l)
<1>1. CASE StopPending(s) \/ Waiting(x, TRUE) = {}
  <2>1. TakeStop(x) = x
    BY <1>1 DEF TakeStop
  <2> QED
    BY <2>1
<1>2. CASE ~(StopPending(s) \/ Waiting(x, TRUE) = {})
  <2>1. t \in Waiting(x, TRUE)
    BY <1>2
  <2>2. t \in x.box /\ t.op = "stop" /\ ~t.taken
    BY <2>1 DEF Waiting, Of
  <2>3. TakeStop(x) = Enqueue(y, c)
    BY <1>2 DEF TakeStop
  <2> HIDE DEF t
  <2>4. /\ x \in Apps /\ s \in Systems /\ a \in 0..MaxUi /\ a \in Nat /\ l \in Nat
        /\ Boxed(x.box, a) /\ Core(s, {}, Open(x.box), I) /\ MaxUi \in Nat
    BY AppFields, MailboxAssumption DEF AInv
  <2>5. /\ y \in Apps /\ y.sys = s /\ y.authority = x.authority
        /\ y.intent = x.intent /\ y.fallback = x.fallback /\ y.owed = x.owed
        /\ Boxed(y.box, a)
        /\ Open(y.box) = Open(x.box) \cup {t.id}
        /\ Waits(y.box) = Waits(x.box) \ {t.id}
        /\ t.id \in 1..a /\ t.id \in Waits(x.box)
        /\ t \in Transactions /\ ~t.done
        /\ u \in y.box /\ u.id = t.id /\ u.op = t.op /\ u.mask = t.mask
        /\ u.taken /\ ~u.done
        /\ \A v \in x.box : v # t => v \in y.box /\ v.id # t.id
    BY <2>2, <2>4, TakeEffect
  <2>6. c \in Commands /\ c.id = t.id /\ c.mask = t.mask /\ c.kind = "stop"
    BY <2>2, <2>5, CommandType
  <2>7. Enqueue(y, c) = z
    BY <2>5 DEF Enqueue
  <2>8. s.slot = NoCommand /\ s.slot.id = 0
    BY <1>2, NoCommandType DEF StopPending
  <2> HIDE DEF y, c, u
  <2>9. t.id \in 1..MaxUi /\ t.id \notin I /\ t.id \in J /\ I \subseteq J
        /\ J \subseteq Nat \ {0}
    <3>1. t.id \in 1..MaxUi
      BY <2>4, <2>5
    <3>2. t.id \notin I /\ t.id \in J
      BY <2>4, <2>5, <3>1, IssuedEffect
    <3>3. I \subseteq J
      BY <2>5, Zenon DEF Issued
    <3> QED
      BY <2>4, <3>1, <3>2, <3>3, IssuedEffect
  <2> HIDE DEF I, J
  <2>10. Core(p, {}, Open(y.box), J)
    <3>1. \A i \in 1..MaxUi : i \in Open(y.box) <=> i \in Open(x.box) \/ i = c.id
      BY <2>5, <2>6
    <3> QED
      BY <2>4, <2>6, <2>8, <2>9, <3>1, EnqueueKeeps
  <2>11. /\ p \in Systems /\ p.tomb = s.tomb /\ p.action = s.action
         /\ p.deferred = s.deferred /\ p.results = s.results
         /\ p.slot = c /\ p.cmds = s.cmds /\ p.motion = s.motion
    BY <2>4, <2>6, EnqueueEffect
  <2> HIDE DEF p
  <2>12. /\ z \in Apps /\ z.sys = p /\ z.box = y.box /\ z.authority = x.authority
         /\ z.intent = x.intent /\ z.fallback = x.fallback /\ z.owed = x.owed
    BY <2>5, <2>11, SysEffect DEF Alike
  <2> HIDE DEF z
  <2>13. Lonely(p) /\ Owned(p, x.authority)
    BY <2>11 DEF AInv, Lonely, NoLocal, Owned, Runs
  <2>14. Stops(z)
    <3>1. ASSUME NEW o, Remembered(x, o)
          PROVE  Remembered(z, o)
      <4>1. PICK v \in x.box :
              /\ v.id = o.id /\ ~v.done /\ v.op = "stop" /\ o.motor \in v.mask
              /\ v.taken => s.slot.id = o.id /\ o.motor \in s.slot.mask
        BY <3>1 DEF Remembered
      <4>2. CASE v = t
        BY <2>2, <2>5, <2>6, <2>11, <2>12, <4>1, <4>2 DEF Remembered
      <4>3. CASE v # t
        <5>1. v.id # 0
          BY <2>4 DEF Boxed
        <5>2. ~v.taken
          BY <2>8, <4>1, <5>1
        <5>3. v \in z.box
          BY <2>5, <2>12, <4>3
        <5> QED
          BY <4>1, <5>2, <5>3 DEF Remembered
      <4> QED
        BY <4>2, <4>3
    <3> QED
      BY <2>12, <3>1 DEF AInv, Stops
  <2>15. AInv(z, a, l)
    BY <2>4, <2>5, <2>10, <2>12, <2>13, <2>14 DEF AInv, J
  <2> QED
    BY <2>3, <2>7, <2>15
<1> QED
  BY <1>1, <1>2

\* Nothing runs, waits or is being cancelled: no ordinary command is there.
LEMMA NotBusy ==
  ASSUME NEW x, NEW K, NEW I, Core(x.sys, {}, K, I), ~ExecutorBusy(x)
  PROVE  /\ Runs(x.sys) = {} /\ x.sys.cmds = <<>> /\ x.sys.tomb = 0
         /\ x.sys.action = NoCommand /\ x.sys.deferred = <<>>
<1> DEFINE s == x.sys
<1>1. s.action = NoCommand /\ s.cmds = <<>> /\ s.deferred = <<>>
  BY SameChannels DEF ExecutorBusy
<1>2. DOMAIN s.cmds = {}
  BY <1>1, IdsNone
<1>3. s.tomb = 0
  BY <1>2 DEF Core, Named
<1>4. Runs(s) = {}
  BY <1>1, <1>2 DEF Runs
<1> QED
  BY <1>1, <1>3, <1>4

\* The authority changes hands while nothing runs.
LEMMA GrantEffect ==
  ASSUME NEW x \in Apps, NEW authority \in {"remote", "armed"}
  PROVE  LET y == Grant(x, authority)
         IN /\ y \in Apps /\ y.sys = x.sys /\ y.authority = authority
            /\ y.intent = x.intent /\ y.fallback = x.fallback /\ y.owed = x.owed
            /\ Boxes(x.box, y.box)
<1> DEFINE w == Revoke(x, authority)
           none == {}
           y == [w EXCEPT !.unconfirmed = none]
<1>1. /\ w \in Apps /\ w.sys = x.sys /\ w.authority = authority
      /\ w.intent = x.intent /\ w.fallback = x.fallback /\ w.owed = x.owed
      /\ Boxes(x.box, w.box)
  BY RevokeEffect
<1>2. Grant(x, authority) = y /\ none \in SUBSET Motors
  BY DEF Grant
<1> HIDE DEF w, none
<1>3. /\ y \in Apps /\ y.sys = w.sys /\ y.authority = w.authority /\ y.box = w.box
      /\ y.intent = w.intent /\ y.fallback = w.fallback /\ y.owed = w.owed
  BY <1>1, <1>2 DEF Apps
<1> QED
  BY <1>1, <1>2, <1>3

\* A record that was taken over and completed in one step.
LEMMA AnsweredKeeps ==
  ASSUME NEW x, NEW a, NEW l, AInv(x, a, l), NEW t \in x.box, ~t.taken,
         t.op # "stop", NEW y \in Apps, y.sys = x.sys,
         Owned(y.sys, y.authority), Boxed(y.box, a),
         y.intent = x.intent, y.fallback = x.fallback, y.owed = x.owed,
         Open(y.box) = (Open(x.box) \cup {t.id}) \ {t.id},
         Waits(y.box) = Waits(x.box) \ {t.id},
         Keeps(x.box, y.box)
  PROVE  AInv(y, a, l)
<1> DEFINE I == Issued(x.box, a, l)
           J == Issued(y.box, a, l)
<1>1. /\ a \in 0..MaxUi /\ l \in Nat /\ Core(x.sys, {}, Open(x.box), I)
      /\ Lonely(x.sys) /\ Stops(x)
  BY DEF AInv
<1>2. J \subseteq Nat \ {0} /\ t.id \notin I
  <2>1. t.id \in Waits(x.box) /\ t.id \in 1..a
    BY DEF Waits, AInv, Boxed
  <2>2. t.id \in 1..MaxUi
    BY <1>1, <2>1, MailboxAssumption
  <2> QED
    BY <1>1, <2>1, <2>2, IssuedEffect
<1>3. I \subseteq J
  BY Zenon DEF Issued
<1>4. t.id \notin Open(x.box)
  BY DEF Open, AInv, Boxed
<1>5. Open(y.box) = Open(x.box)
  BY <1>4
<1> HIDE DEF I, J
<1>6. Core(y.sys, {}, Open(y.box), J)
  BY <1>1, <1>2, <1>3, <1>5, CoreWeaker
<1>7. Stops(y)
  BY <1>1, StopsKept
<1> QED
  BY <1>1, <1>6, <1>7 DEF AInv, J

\* A local motion is admitted: it waits alone.
LEMMA MoveKeeps ==
  ASSUME NEW x, NEW a, NEW l, AInv(x, a, l), NEW t \in x.box, ~t.taken,
         t.op = "move", NEW y, y = Take(x, t), ~ExecutorBusy(y)
  PROVE  AInv(Enqueue([y EXCEPT !.authority = "busy"], Command(t)), a, l)
<1> DEFINE c == Command(t)
           w == [y EXCEPT !.authority = "busy"]
           s == x.sys
           p == Publish(Claim(s, c), c)
           z == [w EXCEPT !.sys = p]
           I == Issued(x.box, a, l)
           J == Issued(y.box, a, l)
<1>1. /\ x \in Apps /\ s \in Systems /\ a \in 0..MaxUi /\ a \in Nat /\ l \in Nat
      /\ Boxed(x.box, a) /\ Core(s, {}, Open(x.box), I) /\ MaxUi \in Nat
      /\ Stops(x)
  BY AppFields, MailboxAssumption DEF AInv
<1>2. /\ y \in Apps /\ y.sys = s /\ y.authority = x.authority
      /\ y.intent = x.intent /\ y.fallback = x.fallback /\ y.owed = x.owed
      /\ Boxed(y.box, a)
      /\ Open(y.box) = Open(x.box) \cup {t.id}
      /\ Waits(y.box) = Waits(x.box) \ {t.id}
      /\ t.id \in 1..a /\ t.id \in Waits(x.box)
      /\ t \in Transactions
      /\ \A v \in x.box : v # t => v \in y.box /\ v.id # t.id
  BY <1>1, TakeLeaves
<1>3. /\ c \in Commands /\ c.id = t.id /\ c.kind = "oneshot"
  BY <1>2, CommandType
<1>4. /\ w \in Apps /\ w.sys = s /\ w.box = y.box /\ w.authority = "busy"
      /\ w.intent = x.intent /\ w.fallback = x.fallback /\ w.owed = x.owed
  BY <1>2 DEF Apps
<1>5. Enqueue(w, c) = z
  BY <1>4 DEF Enqueue
<1>6. t.id \in 1..MaxUi /\ t.id \notin I /\ t.id \in J /\ I \subseteq J
      /\ J \subseteq Nat \ {0}
  <2>1. t.id \in 1..MaxUi
    BY <1>1, <1>2
  <2>2. t.id \notin I /\ t.id \in J
    BY <1>1, <1>2, <2>1, IssuedEffect
  <2>3. I \subseteq J
    BY <1>2, Zenon DEF Issued
  <2> QED
    BY <1>1, <2>1, <2>2, <2>3, IssuedEffect
<1> HIDE DEF c, w, I, J
<1>7. /\ s.cmds = <<>> /\ s.tomb = 0
      /\ s.action = NoCommand /\ s.deferred = <<>>
  BY <1>1, <1>2, NotBusy
<1>8. Core(p, {}, Open(y.box), J)
  <2>1. \A i \in 1..MaxUi : i \in Open(y.box) <=> i \in Open(x.box) \/ i = c.id
    BY <1>2, <1>3
  <2> QED
    BY <1>1, <1>3, <1>6, <2>1, EnqueueKeeps
<1>9. /\ p \in Systems /\ p.tomb = 0 /\ p.action = NoCommand
      /\ p.deferred = <<>> /\ p.slot = s.slot
      /\ p.cmds = Append(<<>>, c) /\ p.motion = c.id
  BY <1>1, <1>3, <1>7, EnqueueEffect
<1> HIDE DEF p
<1>10. /\ z \in Apps /\ z.sys = p /\ z.box = y.box /\ z.authority = "busy"
       /\ z.intent = x.intent /\ z.fallback = x.fallback /\ z.owed = x.owed
  BY <1>4, <1>9, SysEffect DEF Alike
<1> HIDE DEF z
<1>11. Len(p.cmds) = 1 /\ p.cmds[1] = c /\ DOMAIN p.cmds = {1}
  BY <1>9
<1>12. Lonely(p)
  BY <1>9, <1>11 DEF Lonely
<1>13. Owned(p, z.authority)
  <2>1. \A d \in Runs(p) : d = c
    BY <1>9, <1>11 DEF Runs
  <2> QED
    BY <1>10, <2>1 DEF Owned
<1>14. Keeps(x.box, z.box)
  BY <1>2, <1>10 DEF Keeps
<1>15. Stops(z)
  BY <1>1, <1>9, <1>10, <1>14, StopsKept
<1>16. AInv(z, a, l)
  BY <1>1, <1>2, <1>8, <1>10, <1>12, <1>13, <1>15 DEF AInv, J
<1> QED
  BY <1>5, <1>16 DEF c, w

\* An ordinary request is refused, or admitted while nothing runs.
LEMMA TakeOrdinaryKeeps ==
  ASSUME NEW x, NEW a, NEW l, AInv(x, a, l), NEW z \in TakeOrdinary(x)
  PROVE  AInv(z, a, l)
<1> DEFINE t == CHOOSE u \in Waiting(x, FALSE) : TRUE
           y == Take(x, t)
<1>1. CASE Waiting(x, FALSE) = {}
  BY <1>1 DEF TakeOrdinary
<1>2. CASE Waiting(x, FALSE) # {}
  <2>1. t \in Waiting(x, FALSE)
    BY <1>2
  <2>2. t \in x.box /\ t.op # "stop" /\ ~t.taken
    BY <2>1 DEF Waiting, Of
  <2>3. \/ z = Done(y, {t.id})
        \/ ~ExecutorBusy(y) /\ z = Admitted(y, t)
    BY <1>2 DEF TakeOrdinary, Admissible
  <2> HIDE DEF t
  <2>4. /\ x \in Apps /\ a \in Nat /\ Boxed(x.box, a)
        /\ Core(x.sys, {}, Open(x.box), Issued(x.box, a, l))
        /\ Owned(x.sys, x.authority)
    BY MailboxAssumption DEF AInv
  <2>5. /\ y \in Apps /\ y.sys = x.sys /\ y.authority = x.authority
        /\ y.intent = x.intent /\ y.fallback = x.fallback /\ y.owed = x.owed
        /\ Boxed(y.box, a)
        /\ Open(y.box) = Open(x.box) \cup {t.id}
        /\ Waits(y.box) = Waits(x.box) \ {t.id}
        /\ t \in Transactions
        /\ \A v \in x.box : v # t => v \in y.box /\ v.id # t.id
    <3>1. y = Take(x, t)
      OBVIOUS
    <3> HIDE DEF y
    <3> QED
      BY <2>2, <2>4, <3>1, TakeLeaves
  <2>6. t.id \notin Waits(y.box)
    BY <2>5
  <2> DEFINE c == Command(t)
  <2>7. CASE ~ExecutorBusy(y) /\ t.op = "move" /\ z = Admitted(y, t)
    <3>1. z = Enqueue([y EXCEPT !.authority = "busy"], c)
      BY <2>7 DEF Admitted
    <3> QED
      BY <2>2, <2>7, <3>1, MoveKeeps
  <2> HIDE DEF y
  <2>8. ASSUME NEW g \in Apps, g.sys = x.sys, Owned(g.sys, g.authority),
               g.intent = x.intent, g.fallback = x.fallback, g.owed = x.owed,
               Boxes(y.box, g.box), z = Done(g, {t.id})
        PROVE  AInv(z, a, l)
    <3>1. Boxed(g.box, a) /\ Open(g.box) = Open(y.box) /\ Waits(g.box) = Waits(y.box)
      BY <2>5, <2>8 DEF Boxes
    <3>2. \A i \in {t.id} : i \notin Waits(g.box)
      BY <2>6, <3>1
    <3>3. /\ z \in Apps /\ z.sys = g.sys /\ z.authority = g.authority
          /\ z.intent = g.intent /\ z.fallback = g.fallback /\ z.owed = g.owed
          /\ Boxed(z.box, a)
          /\ Open(z.box) = Open(g.box) \ {t.id}
          /\ Waits(z.box) = Waits(g.box)
          /\ \A v \in g.box : v.id \notin {t.id} => v \in z.box
      BY <2>4, <2>8, <3>1, <3>2, DoneEffect
    <3>4. Keeps(x.box, z.box)
      <4>1. ASSUME NEW v \in x.box, v.op = "stop"
            PROVE  \E u \in z.box : /\ u.id = v.id /\ u.op = v.op /\ u.mask = v.mask
                                    /\ u.taken = v.taken /\ u.done = v.done
        <5>1. v \in y.box /\ v.id # t.id
          BY <2>2, <2>5, <4>1
        <5>2. PICK u \in g.box : /\ u.id = v.id /\ u.op = v.op /\ u.mask = v.mask
                                 /\ u.taken = v.taken /\ u.done = v.done
          BY <2>8, <5>1 DEF Boxes
        <5>3. u \in z.box
          BY <3>3, <5>1, <5>2
        <5> QED
          BY <5>2, <5>3
      <4> QED
        BY <4>1 DEF Keeps
    <3> QED
      BY <2>2, <2>4, <2>5, <2>8, <3>1, <3>3, <3>4, AnsweredKeeps
  <2>9. CASE z = Done(y, {t.id})
    BY <2>4, <2>5, <2>8, <2>9, BoxesSame
  <2>10. CASE /\ ~ExecutorBusy(y) /\ t.op \in {"acquire", "release"}
              /\ z = Admitted(y, t)
    <3>1. PICK authority \in {"remote", "armed"} :
            z = Done(Grant(y, authority), {t.id})
      BY <2>10 DEF Admitted
    <3> DEFINE g == Grant(y, authority)
    <3>2. /\ g \in Apps /\ g.sys = y.sys
          /\ g.intent = y.intent /\ g.fallback = y.fallback /\ g.owed = y.owed
          /\ Boxes(y.box, g.box)
      BY <2>5, GrantEffect
    <3>3. Runs(y.sys) = {}
      BY <2>4, <2>5, <2>10, NotBusy
    <3>4. z = Done(g, {t.id})
      BY <3>1
    <3> HIDE DEF g
    <3>5. Owned(g.sys, g.authority)
      BY <3>2, <3>3 DEF Owned
    <3> QED
      BY <2>5, <2>8, <3>2, <3>4, <3>5
  <2> QED
    BY <2>2, <2>3, <2>5, <2>7, <2>9, <2>10 DEF Transactions
<1> QED
  BY <1>1, <1>2
-----------------------------------------------------------------------------
(* The invariant.                                                          *)

LEMMA InitInv == Init => IInv
<1> SUFFICES ASSUME Init PROVE IInv
  OBVIOUS
<1> DEFINE s == app.sys
           none == {}
           empty == <<>>
<1>1. /\ s = [bench |-> TRUE, cmds |-> empty, slot |-> NoCommand,
              motion |-> 0, stop |-> 0, tomb |-> 0, results |-> empty,
              session |-> 1, action |-> NoCommand, stage |-> "run",
              age |-> 0, deferred |-> empty, ended |-> empty]
      /\ app = [sys |-> s, box |-> none, intent |-> none, authority |-> "remote",
                unconfirmed |-> none, fallback |-> none, frames |-> none,
                cleanup |-> FALSE, owed |-> none]
      /\ asked = 0 /\ lines = 0
  BY DEF Init
<1>2. /\ empty \in Seq(Commands) /\ empty \in Seq(Results)
      /\ none \in SUBSET Transactions /\ none \in SUBSET Motors
      /\ none \in SUBSET [id : Nat, motor : Motors]
      /\ Ids(empty) = none /\ Unique(empty) /\ DOMAIN empty = none /\ Len(empty) = 0
      /\ \A i : i \notin none
  BY IdsNone
<1> HIDE DEF none, empty, s
<1>3. s \in Systems
  BY <1>1, <1>2, NoCommandType DEF Systems
<1>4. app \in Apps
  BY <1>1, <1>2, <1>3 DEF Apps
<1>5. /\ s.cmds = empty /\ s.slot = NoCommand /\ s.action = NoCommand
      /\ s.tomb = 0 /\ s.results = empty /\ s.deferred = empty
  BY <1>1
<1>6. /\ app.box = none /\ app.owed = none
  BY <1>1
<1>7. Open(none) = {} /\ Boxed(none, 0)
  BY <1>2 DEF Open, Boxed
<1>8. MaxUi \in Nat /\ asked \in 0..MaxUi /\ lines \in Nat /\ ResultCapacity \in Nat
  BY <1>1, MailboxAssumption, CapacityAssumption
<1>9. Issued(none, 0, 0) \subseteq Nat \ {0}
  BY <1>1, <1>8, IssuedEffect
<1>10. \A i \in Nat \ {0} : ~Somewhere(s, {}, i)
  BY <1>2, <1>5, NoCommandType DEF Somewhere, Queued
<1>11. Core(s, {}, Open(none), Issued(none, 0, 0))
  <2>1. Named(s, {}, Issued(none, 0, 0))
    BY <1>2, <1>5 DEF Named
  <2>2. Single(s, {})
    BY <1>2, <1>5, NoCommandType DEF Single, Queued
  <2>3. \A i \in 1..MaxUi : i \in Nat \ {0}
    BY <1>8
  <2>4. Len(s.results) <= ResultCapacity
    BY <1>2, <1>5, <1>8
  <2>5. \A i \in 1..MaxUi : i \in Open(none) <=> Somewhere(s, {}, i)
    BY <1>7, <1>10, <2>3
  <2> QED
    BY <1>2, <1>3, <1>5, <1>9, <2>1, <2>2, <2>4, <2>5 DEF Core
<1>12. Lonely(s)
  BY <1>2, <1>5 DEF Lonely, NoLocal
<1>13. Owned(s, app.authority)
  BY <1>2, <1>5 DEF Owned, Runs
<1>14. Stops(app)
  BY <1>2, <1>6 DEF Stops
<1> QED
  BY <1>1, <1>4, <1>6, <1>7, <1>8, <1>11, <1>12, <1>13, <1>14 DEF IInv, AInv, s

\* One step per action of the three tasks.
LEMMA NextInv == IInv /\ [Next]_vars => IInv'
<1> SUFFICES ASSUME AInv(app, asked, lines), [Next]_vars
             PROVE  AInv(app', asked', lines')
  BY DEF IInv
<1>1. ASSUME NEW op \in {"stop", "move", "acquire", "release"},
             NEW mask \in SUBSET Motors, NEW old \in BOOLEAN, Submit(op, mask, old)
      PROVE  AInv(app', asked', lines')
  <2>1. asked < MaxUi /\ asked' = asked + 1 /\ lines' = lines
    BY <1>1 DEF Submit
  <2>2. \/ app' = Latch(app, asked + 1, mask)
        \/ app' = Reserve(app, asked + 1, op, mask, old)
    BY <1>1 DEF Submit
  <2>3. CASE app' = Latch(app, asked + 1, mask)
    BY <2>1, <2>3, LatchKeeps
  <2>4. CASE app' = Reserve(app, asked + 1, op, mask, old)
    BY <2>1, <2>4, ReserveKeeps
  <2> QED
    BY <2>2, <2>3, <2>4
<1>2. ASSUME PollAdmission
      PROVE  AInv(app', asked', lines')
  <2>1. PICK t \in app.box : /\ t.taken
                             /\ Consumed(t, [t EXCEPT !.told = TRUE])
    BY <1>2 DEF PollAdmission
  <2> DEFINE u == [t EXCEPT !.told = TRUE]
  <2>2. app' = [app EXCEPT !.box = (@ \ {t}) \cup
                                     (IF u.told /\ u.read THEN {} ELSE {u})]
    BY <2>1 DEF Consumed
  <2>3. u = [t EXCEPT !.told = TRUE]
    OBVIOUS
  <2> HIDE DEF u
  <2>4. asked' = asked /\ lines' = lines
    BY <1>2 DEF PollAdmission
  <2> QED
    BY <2>1, <2>2, <2>3, <2>4, ConsumedKeeps
<1>3. ASSUME PollCompletion
      PROVE  AInv(app', asked', lines')
  <2>1. PICK t \in app.box : /\ t.done
                             /\ Consumed(t, [t EXCEPT !.read = TRUE])
    BY <1>3 DEF PollCompletion
  <2> DEFINE u == [t EXCEPT !.read = TRUE]
  <2>2. app' = [app EXCEPT !.box = (@ \ {t}) \cup
                                     (IF u.told /\ u.read THEN {} ELSE {u})]
    BY <2>1 DEF Consumed
  <2>3. u = [t EXCEPT !.read = TRUE]
    OBVIOUS
  <2> HIDE DEF u
  <2>4. asked' = asked /\ lines' = lines
    BY <1>3 DEF PollCompletion
  <2>5. t.taken
    BY <2>1 DEF AInv, Boxed
  <2> QED
    BY <2>1, <2>2, <2>3, <2>4, <2>5, ConsumedKeeps
<1>4. ASSUME Route
      PROVE  AInv(app', asked', lines')
  <2>1. PICK n \in Routed(app) :
          app' = [Complete(app, SubSeq(app.sys.results, 1, n))
                    EXCEPT !.sys.results = SubSeq(@, n + 1, Len(@))]
    BY <1>4 DEF Route
  <2>2. asked' = asked /\ lines' = lines
    BY <1>4 DEF Route
  <2> QED
    BY <2>1, <2>2, RouteKeeps
<1>5. ASSUME PopHostResult
      PROVE  AInv(app', asked', lines')
  BY <1>5, PopHostKeeps DEF PopHostResult
<1>6. ASSUME Process
      PROVE  AInv(app', asked', lines')
  <2>1. AInv(TakeStop(Rearmed(app)), asked, lines)
    BY RearmedKeeps, TakeStopKeeps
  <2>2. /\ app' \in TakeOrdinary(TakeStop(Rearmed(app)))
        /\ asked' = asked /\ lines' = lines
    BY <1>6 DEF Process
  <2> QED
    BY <2>1, <2>2, TakeOrdinaryKeeps
<1>7. ASSUME NEW kind \in {"plain", "oneshot", "stop"}, NEW m \in Motors, Line(kind, m)
      PROVE  AInv(app', asked', lines')
  <2> DEFINE c == [id |-> MaxUi + lines + 1, kind |-> kind, mask |-> {m}, session |-> 1]
  <2>1. /\ lines' = lines + 1 /\ asked' = asked
        /\ kind = "stop" \/ app.authority = "remote"
        /\ Admits(app.sys, c) /\ app' = Enqueue(app, c)
    BY <1>7 DEF Line
  <2>2. c = [id |-> MaxUi + lines + 1, kind |-> kind, mask |-> {m}, session |-> 1]
    OBVIOUS
  <2> HIDE DEF c
  <2> QED
    BY <2>1, <2>2, LineKeeps
<1>8. ASSUME TransportFault
      PROVE  AInv(app', asked', lines')
  <2>1. PICK w \in Called : \E z \in GlobalCancel(w) : app' = Forget(z)
    BY <1>8 DEF TransportFault
  <2>2. w \in Health([app EXCEPT !.sys = L!Flush(@)])
    BY DEF Called
  <2>3. asked' = asked /\ lines' = lines
    BY <1>8 DEF TransportFault
  <2> QED
    BY <2>1, <2>2, <2>3, TransportFaultKeeps
<1>9. ASSUME Service
      PROVE  AInv(app', asked', lines')
  <2>1. PICK w \in Called :
          \E z \in IF StopIntent(w).fallback # {} THEN Fallback(StopIntent(w))
                   ELSE Execute(StopIntent(w)) : app' = Forget(z)
    BY <1>9 DEF Service
  <2>2. w \in Health([app EXCEPT !.sys = L!Flush(@)])
    BY DEF Called
  <2>3. asked' = asked /\ lines' = lines
    BY <1>9 DEF Service
  <2> QED
    BY <2>1, <2>2, <2>3, ServiceKeeps
<1>10. ASSUME SendFrame
       PROVE  AInv(app', asked', lines')
  BY <1>10, SendFrameKeeps DEF SendFrame
<1>11. ASSUME UNCHANGED vars
       PROVE  AInv(app', asked', lines')
  BY <1>11 DEF vars
<1>12. \A m \in Motors : {m} \in SUBSET Motors
  OBVIOUS
<1>13. CASE \E m \in Motors : Submit("stop", {m}, FALSE)
  BY <1>1, <1>12, <1>13
<1>14. CASE \E m \in Motors, old \in BOOLEAN : Submit("move", {m}, old)
  BY <1>1, <1>12, <1>14
<1>15. CASE \E op \in {"acquire", "release"}, old \in BOOLEAN : Submit(op, {}, old)
  BY <1>1, <1>15
<1> QED
  BY <1>2, <1>3, <1>4, <1>5, <1>6, <1>7, <1>8, <1>9, <1>10, <1>11,
     <1>13, <1>14, <1>15 DEF Next

\* Invariance holds from the start and in every step of the three tasks,
\* whatever the user interface, the host and the drives do.
THEOREM Invariance == Spec => []IInv
BY InitInv, NextInv, PTL DEF Spec

\* Every field of what the three tasks share has its type, and no more requests
\* are taken than there are identifiers: box, channels and executor of
\* debug_ui_mailbox.c and aethor_app.c.
THEOREM TypeCorrect ==
  Spec => [](app \in Apps /\ asked \in 0..MaxUi /\ lines \in Nat)
<1>1. IInv => app \in Apps /\ asked \in 0..MaxUi /\ lines \in Nat
  BY DEF IInv, AInv
<1> QED
  BY <1>1, Invariance, PTL

\* A set that holds one element at most has a cardinality of 0 or 1.
LEMMA AtMostOne ==
  ASSUME NEW S, \A m, n \in S : m = n
  PROVE  Cardinality(S) = IF S = {} THEN 0 ELSE 1
<1>1. CASE S = {}
  BY <1>1, FS_EmptySet
<1>2. CASE S # {}
  <2>1. PICK m \in S : TRUE
    BY <1>2
  <2>2. S = {m}
    BY <2>1
  <2> QED
    BY <1>2, <2>2, FS_Singleton
<1> QED
  BY <1>1, <1>2

\* Whatever the capacities, the number of requests, of lines and of motors: an
\* admitted request is in exactly one of the queue, the STOP slot, the executor
\* and the two stores until its completion is stored, and in none afterwards.
THEOREM HeldInOnePlace == Spec => []HeldOnce
<1>1. IInv => HeldOnce
  <2> SUFFICES ASSUME IInv, NEW id \in 1..MaxUi
               PROVE  Holders(id) = IF \E t \in app.box : t.id = id /\ t.taken /\ ~t.done
                                    THEN 1 ELSE 0
    BY DEF HeldOnce
  <2> DEFINE s == app.sys
             queued == {n \in DOMAIN s.cmds : s.cmds[n].id = id /\ s.tomb # id}
             slot == {c \in {s.slot} : c.id = id}
             action == {c \in {s.action} : c.id = id}
             deferred == {n \in DOMAIN s.deferred : s.deferred[n].id = id}
             results == {n \in DOMAIN s.results : s.results[n].id = id}
  <2>1. Core(s, {}, Open(app.box), Issued(app.box, asked, lines))
    BY DEF IInv, AInv
  <2>2. id \in Nat \ {0}
    BY MailboxAssumption
  <2>3. Unique(s.cmds) /\ Unique(s.deferred) /\ Unique(s.results)
    BY <2>1 DEF Core
  <2>4. /\ queued # {} <=> Queued(s, id)
        /\ slot # {} <=> id = s.slot.id
        /\ action # {} <=> id = s.action.id
        /\ deferred # {} <=> id \in Ids(s.deferred)
        /\ results # {} <=> id \in Ids(s.results)
    BY DEF Queued, Ids
  <2>5. /\ \A m, n \in queued : m = n
        /\ \A m, n \in slot : m = n
        /\ \A m, n \in action : m = n
        /\ \A m, n \in deferred : m = n
        /\ \A m, n \in results : m = n
    BY <2>3 DEF Unique
  <2>6. Holders(id) = Cardinality(queued) + Cardinality(slot) + Cardinality(action)
                        + Cardinality(deferred) + Cardinality(results)
    BY DEF Holders
  <2>7. id \in Open(app.box) <=> Somewhere(s, {}, id)
    BY <2>1 DEF Core
  <2>8. id \in Open(app.box) <=> \E t \in app.box : t.id = id /\ t.taken /\ ~t.done
    BY DEF Open
  <2>9. Single(s, {})
    BY <2>1 DEF Core
  <2> HIDE DEF s, queued, slot, action, deferred, results
  <2>10. /\ Cardinality(queued) = IF queued = {} THEN 0 ELSE 1
         /\ Cardinality(slot) = IF slot = {} THEN 0 ELSE 1
         /\ Cardinality(action) = IF action = {} THEN 0 ELSE 1
         /\ Cardinality(deferred) = IF deferred = {} THEN 0 ELSE 1
         /\ Cardinality(results) = IF results = {} THEN 0 ELSE 1
    BY <2>5, AtMostOne
  <2>11. /\ queued # {} => slot = {} /\ action = {} /\ deferred = {} /\ results = {}
         /\ slot # {} => action = {} /\ deferred = {} /\ results = {}
         /\ action # {} => deferred = {} /\ results = {}
         /\ deferred # {} => results = {}
    BY <2>2, <2>4, <2>9 DEF Single
  <2>12. id \in Open(app.box) <=> \/ queued # {} \/ slot # {} \/ action # {}
                                  \/ deferred # {} \/ results # {}
    BY <2>4, <2>7 DEF Somewhere
  <2> QED
    BY <2>6, <2>8, <2>10, <2>11, <2>12
<1> QED
  BY <1>1, Invariance, PTL

\* A STOP that was accepted or latched is not dropped: until its motor has been
\* stopped it is in the intent, or its transaction is open, whatever pre-empts,
\* widens or cancels it and however full the stores are.
THEOREM StopsAreKept == Spec => []StopKept
<1>1. IInv => StopKept
  BY DEF IInv, AInv, Stops, Remembered, StopKept
<1> QED
  BY <1>1, Invariance, PTL

\* No ordinary command of the host waits or runs together with one of the user
\* interface.
THEOREM ArmHasOneOwner == Spec => []OneOwner
<1>1. IInv => OneOwner
  BY DEF IInv, AInv, Owned, Runs, OneOwner
<1> QED
  BY <1>1, Invariance, PTL
=============================================================================
