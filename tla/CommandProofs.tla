---------------------------- MODULE CommandProofs ----------------------------
(***************************************************************************)
(* Proofs about the life of a request, for any capacities of the queue and  *)
(* the two stores, any number of requests, sessions, faults and motors, and *)
(* both profiles: who is finished never runs, the STOP gate and the motion  *)
(* gate always have somebody who opens them, terminals keep their order,    *)
(* none is lost, and the requests get what RequestContract promises.        *)
(*                                                                          *)
(* One service call moves a command through several hands: it is popped,    *)
(* widened, given a terminal or started.  The invariant is therefore a      *)
(* predicate of the channels s, of the command p that ProtocolTask is       *)
(* publishing, of the requests rq, and of the command h that the service    *)
(* call has in its hand between two of those operations (NoCommand between  *)
(* two calls).  One lemma per operation shows that it is preserved.         *)
(***************************************************************************)
EXTENDS CommandLifecycle, SequenceTheorems, TLAPS

Commands == [id : Nat, kind : Kinds, mask : SUBSET Motors, session : Nat]
Results == [id : Nat, kind : Kinds, code : Codes, session : Nat]
Requests ==
  [kind : Kinds, status : {"accepted", "refused", "reported", "dropped"}]
Systems ==
  [bench : BOOLEAN, cmds : Seq(Commands), slot : Commands, motion : Nat,
   stop : Nat, tomb : Nat, results : Seq(Results), session : Nat,
   action : Commands, stage : {"run", "cleanup"}, age : Nat,
   deferred : Seq(Results), ended : Seq(Results)]

Typed(s, p, h, rq) ==
  s \in Systems /\ p \in Commands /\ h \in Commands /\ rq \in Seq(Requests)

\* Whatever carries an identifier carries the kind of that request.
Known(x, rq) == x.id \in DOMAIN rq /\ rq[x.id].kind = x.kind
KindOf(i, rq, kinds) == i = 0 \/ (i \in DOMAIN rq /\ rq[i].kind \in kinds)
Named(s, p, h, rq) ==
  /\ \A c \in {p, h, s.slot, s.action} : c = NoCommand \/ Known(c, rq)
  /\ \A n \in DOMAIN s.cmds : Known(s.cmds[n], rq) /\ s.cmds[n].kind # "stop"
  /\ s.slot = NoCommand \/ s.slot.kind = "stop"
  /\ \A rs \in {s.results, s.deferred, s.ended} : \A n \in DOMAIN rs :
       (rs[n].id = 0 /\ rs[n].kind = "plain") \/ Known(rs[n], rq)
  /\ KindOf(s.motion, rq, {"oneshot", "movej"})
  /\ KindOf(s.stop, rq, {"stop"})
  /\ KindOf(s.tomb, rq, {"oneshot"})

\* A request is in one place; only a tombstoned one may be in the hand and in the
\* queue.
Distinct(s, p, h) ==
  /\ p.id # 0 => p.id \notin {s.slot.id, s.action.id, h.id, s.tomb}
  /\ h.id # 0 => h.id \notin {s.slot.id, s.action.id}
  /\ s.slot.id # 0 => s.slot.id # s.action.id
  /\ \A n \in DOMAIN s.cmds :
       /\ s.cmds[n].id \notin {p.id, s.slot.id, s.action.id}
       /\ s.cmds[n].id = h.id => h.id = s.tomb
  /\ \A m, n \in DOMAIN s.cmds : s.cmds[m].id = s.cmds[n].id => m = n

\* A terminal is final.
Finished(s, p, h) ==
  /\ \A i \in Nat \ {0} : Holds(s.ended, i) =>
       /\ i \notin {p.id, h.id, s.slot.id, s.action.id}
       /\ \A n \in DOMAIN s.cmds : s.cmds[n].id = i => i = s.tomb
  /\ \A i \in Nat \ {0} :
       Holds(s.results, i) \/ Holds(s.deferred, i) => Holds(s.ended, i)

\* Who owns a gate, and who will open the STOP gate.
Gated(s, p, h) ==
  /\ s.slot = NoCommand \/ s.stop = s.slot.id
  /\ p.kind = "stop" => s.slot = NoCommand /\ s.stop = p.id
  /\ s.stop # 0 => \/ s.stop \in {p.id, h.id, s.slot.id, s.action.id}
                   \/ Holds(s.deferred, s.stop)
  /\ OwnsMotion(p) => s.motion = p.id
  /\ \A n \in DOMAIN s.cmds :
       OwnsMotion(s.cmds[n]) => s.cmds[n].id \in {s.motion, s.tomb}

\* The two stores continue the history, within their capacity.
Ordered(s) == /\ IsSuffix(s.results \o s.deferred, s.ended)
              /\ Len(s.results) <= ResultCapacity

\* As long as no fault cancels globally: nothing accepted is lost, and the
\* motion gate has somebody who opens it.
RunnableIn(s, p, h, i) ==
  \/ i \in {p.id, h.id, s.slot.id, s.action.id}
  \/ \E n \in DOMAIN s.cmds : s.cmds[n].id = i /\ s.cmds[n].id # s.tomb
OfSession(rs, i, session) ==
  \A n \in DOMAIN rs : rs[n].id = i => rs[n].session = session
\* Who opens the motion gate; its terminal is delivered in its own session.
Backed(s, p, h) ==
  s.motion # 0 =>
    /\ \/ RunnableIn(s, p, h, s.motion)
       \/ Holds(s.deferred, s.motion)
       \/ ~s.bench /\ Holds(s.results, s.motion)
    /\ \A c \in {p, h, s.action} : c.id = s.motion => c.session = s.session
    /\ OfSession(s.cmds, s.motion, s.session)
    /\ OfSession(s.results, s.motion, s.session)
    /\ OfSession(s.deferred, s.motion, s.session)
Kept(s, p, h, rq) ==
  /\ \A i \in DOMAIN rq : rq[i].kind \in KindsOf(s)
  /\ \A i \in DOMAIN rq : rq[i].status = "accepted" =>
       \/ RunnableIn(s, p, h, i)
       \/ Holds(s.results, i) \/ Holds(s.deferred, i)
  /\ Backed(s, p, h)

CInv(calm, s, p, h, rq) ==
  /\ Typed(s, p, h, rq) /\ Named(s, p, h, rq) /\ Distinct(s, p, h)
  /\ Finished(s, p, h) /\ Gated(s, p, h) /\ Ordered(s)
  /\ calm => Kept(s, p, h, rq)

IInv == /\ CInv(faults = 0, sys, pending, NoCommand, requests)
        /\ pc = "publish" <=> pending # NoCommand
        /\ faults \in Nat
-----------------------------------------------------------------------------
(* Sequences.                                                              *)

\* What an appended sequence holds.
LEMMA HoldsAppend ==
  ASSUME NEW S, NEW rs \in Seq(S), NEW r \in S, NEW i
  PROVE  Holds(Append(rs, r), i) <=> Holds(rs, i) \/ r.id = i
<1>1. /\ DOMAIN rs = 1..Len(rs) /\ Len(rs) \in Nat
      /\ DOMAIN Append(rs, r) = 1..(Len(rs) + 1)
      /\ \A n \in 1..Len(rs) : Append(rs, r)[n] = rs[n]
      /\ Append(rs, r)[Len(rs) + 1] = r
  OBVIOUS
<1> QED
  BY <1>1 DEF Holds

\* What a sequence cut in two holds.
LEMMA HoldsCut ==
  ASSUME NEW S, NEW rs \in Seq(S), NEW n \in 0..Len(rs), NEW i
  PROVE  Holds(rs, i) <=> \/ Holds(SubSeq(rs, 1, n), i)
                          \/ Holds(SubSeq(rs, n + 1, Len(rs)), i)
<1> DEFINE a == SubSeq(rs, 1, n)
           b == SubSeq(rs, n + 1, Len(rs))
<1>1. DOMAIN rs = 1..Len(rs) /\ Len(rs) \in Nat /\ n \in Nat
  OBVIOUS
<1>2. /\ a \in Seq(S) /\ Len(a) = n /\ DOMAIN a = 1..n
      /\ \A k \in 1..n : a[k] = rs[k]
  OBVIOUS
<1>3. /\ b \in Seq(S) /\ Len(b) = Len(rs) - n /\ DOMAIN b = 1..(Len(rs) - n)
      /\ \A k \in 1..(Len(rs) - n) : b[k] = rs[n + k]
  OBVIOUS
<1> HIDE DEF a, b
<1>4. ASSUME NEW k \in 1..Len(rs), rs[k].id = i
      PROVE  Holds(a, i) \/ Holds(b, i)
  <2>1. CASE k <= n
    BY <1>1, <1>2, <1>4, <2>1 DEF Holds
  <2>2. CASE k > n
    <3> DEFINE m == k - n
    <3>1. m \in 1..(Len(rs) - n) /\ n + m = k
      BY <1>1, <2>2
    <3>2. b[m] = rs[k]
      BY <1>3, <3>1
    <3> HIDE DEF m
    <3> QED
      BY <1>3, <1>4, <3>1, <3>2 DEF Holds
  <2> QED
    BY <1>1, <2>1, <2>2
<1>5. Holds(a, i) => Holds(rs, i)
  BY <1>1, <1>2 DEF Holds
<1>6. ASSUME NEW k \in 1..(Len(rs) - n), b[k].id = i
      PROVE  Holds(rs, i)
  <2>1. n + k \in 1..Len(rs) /\ rs[n + k].id = i
    BY <1>1, <1>3, <1>6
  <2> QED
    BY <1>1, <2>1 DEF Holds
<1> QED
  BY <1>1, <1>3, <1>4, <1>5, <1>6 DEF Holds, a, b

\* What two sequences hold together.
LEMMA HoldsConcat ==
  ASSUME NEW S, NEW a \in Seq(S), NEW b \in Seq(S), NEW i
  PROVE  Holds(a \o b, i) <=> Holds(a, i) \/ Holds(b, i)
<1> DEFINE c == a \o b
<1>1. c \in Seq(S) /\ Len(a) \in 0..Len(c)
  OBVIOUS
<1>2. SubSeq(c, 1, Len(a)) = a /\ SubSeq(c, Len(a) + 1, Len(c)) = b
  BY ConcatProperties, SubSeqProperties
<1> HIDE DEF c
<1>3. Holds(c, i) <=> \/ Holds(SubSeq(c, 1, Len(a)), i)
                      \/ Holds(SubSeq(c, Len(a) + 1, Len(c)), i)
  BY <1>1, HoldsCut
<1> QED
  BY <1>2, <1>3 DEF c

\* The two parts make the whole.
LEMMA CutIsWhole ==
  ASSUME NEW S, NEW a \in Seq(S), NEW k \in 0..Len(a)
  PROVE  /\ SubSeq(a, 1, k) \in Seq(S)
         /\ SubSeq(a, k + 1, Len(a)) \in Seq(S)
         /\ a = SubSeq(a, 1, k) \o SubSeq(a, k + 1, Len(a))
<1> DEFINE b == SubSeq(a, 1, k)
           c == SubSeq(a, k + 1, Len(a))
           d == b \o c
<1>1. /\ b \in Seq(S) /\ c \in Seq(S)
      /\ Len(b) = k /\ Len(c) = Len(a) - k
      /\ \A j \in 1..k : b[j] = a[j]
      /\ \A j \in 1..(Len(a) - k) : c[j] = a[k + j]
      /\ Len(a) \in Nat /\ k \in Nat /\ k <= Len(a)
  OBVIOUS
<1> HIDE DEF b, c
<1>2. Len(b) + Len(c) = Len(a)
  BY <1>1
<1>3. /\ d \in Seq(S) /\ Len(d) = Len(b) + Len(c)
      /\ \A j \in 1..(Len(b) + Len(c)) :
           d[j] = IF j <= Len(b) THEN b[j] ELSE c[j - Len(b)]
  BY <1>1, ConcatProperties
<1> HIDE DEF d
<1>4. /\ d \in Seq(S) /\ Len(d) = Len(a)
      /\ \A j \in 1..Len(a) : d[j] = IF j <= k THEN b[j] ELSE c[j - k]
  BY <1>1, <1>2, <1>3
<1>5. ASSUME NEW j \in 1..Len(a)
      PROVE  d[j] = a[j]
  <2>1. CASE j <= k
    BY <1>1, <1>4, <2>1
  <2>2. CASE j > k
    <3>1. j - k \in 1..(Len(a) - k) /\ k + (j - k) = j
      BY <1>1, <2>2
    <3> QED
      BY <1>1, <1>4, <2>2, <3>1
  <2> QED
    BY <1>1, <2>1, <2>2
<1>6. a = d
  BY <1>4, <1>5, SeqEqual
<1> QED
  BY <1>1, <1>6 DEF b, c, d

\* What is appended last is appended to both.
LEMMA ConcatAppend ==
  ASSUME NEW S, NEW a \in Seq(S), NEW b \in Seq(S), NEW r \in S
  PROVE  a \o Append(b, r) = Append(a \o b, r)
<1> DEFINE c == a \o Append(b, r)
           d == Append(a \o b, r)
<1>1. c \in Seq(S) /\ d \in Seq(S) /\ Len(c) = Len(d)
      /\ Len(d) = Len(a) + Len(b) + 1 /\ Len(a) \in Nat /\ Len(b) \in Nat
  BY ConcatProperties
<1>2. ASSUME NEW n \in 1..Len(c)
      PROVE  c[n] = d[n]
  BY <1>1, ConcatProperties
<1> HIDE DEF c, d
<1>3. c = d
  BY <1>1, <1>2, SeqEqual
<1> QED
  BY <1>3 DEF c, d

\* A suffix, index by index.
LEMMA SuffixByIndex ==
  ASSUME NEW S, NEW a \in Seq(S), NEW e \in Seq(S)
  PROVE  IsSuffix(a, e) <=>
           /\ Len(a) <= Len(e)
           /\ \A k \in 1..Len(a) : a[k] = e[Len(e) - Len(a) + k]
<1> DEFINE ra == Reverse(a)
           re == Reverse(e)
<1>1. /\ ra \in Seq(S) /\ Len(ra) = Len(a) /\ Len(a) \in Nat
      /\ \A k \in 1..Len(a) : ra[k] = a[Len(a) - k + 1]
  BY DEF Reverse
<1>2. /\ re \in Seq(S) /\ Len(re) = Len(e) /\ Len(e) \in Nat
      /\ \A k \in 1..Len(e) : re[k] = e[Len(e) - k + 1]
  BY DEF Reverse
<1>3. IsSuffix(a, e) <=>
        Len(ra) <= Len(re) /\ SubSeq(ra, 1, Len(ra)) = SubSeq(re, 1, Len(ra))
  BY DEF IsSuffix, IsPrefix
<1> HIDE DEF ra, re
<1>4. ASSUME Len(a) <= Len(e)
      PROVE  SubSeq(ra, 1, Len(ra)) = SubSeq(re, 1, Len(ra))
               <=> \A k \in 1..Len(a) : ra[k] = re[k]
  <2>1. /\ SubSeq(ra, 1, Len(ra)) \in Seq(S) /\ SubSeq(re, 1, Len(ra)) \in Seq(S)
        /\ Len(SubSeq(ra, 1, Len(ra))) = Len(a)
        /\ Len(SubSeq(re, 1, Len(ra))) = Len(a)
        /\ \A k \in 1..Len(a) : SubSeq(ra, 1, Len(ra))[k] = ra[k]
        /\ \A k \in 1..Len(a) : SubSeq(re, 1, Len(ra))[k] = re[k]
    BY <1>1, <1>2, <1>4
  <2> QED
    BY <2>1
<1>5. ASSUME Len(a) <= Len(e)
      PROVE  (\A k \in 1..Len(a) : ra[k] = re[k])
               <=> \A k \in 1..Len(a) : a[k] = e[Len(e) - Len(a) + k]
  <2>1. \A k \in 1..Len(a) : ra[k] = a[Len(a) - k + 1] /\ re[k] = e[Len(e) - k + 1]
    BY <1>1, <1>2, <1>5
  <2>2. \A k \in 1..Len(a) : /\ Len(a) - k + 1 \in 1..Len(a)
                              /\ Len(a) - (Len(a) - k + 1) + 1 = k
                              /\ Len(e) - Len(a) + (Len(a) - k + 1) = Len(e) - k + 1
                              /\ Len(e) - (Len(a) - k + 1) + 1 = Len(e) - Len(a) + k
    BY <1>1, <1>2
  <2>3. ASSUME \A k \in 1..Len(a) : ra[k] = re[k], NEW k \in 1..Len(a)
        PROVE  a[k] = e[Len(e) - Len(a) + k]
    <3> DEFINE m == Len(a) - k + 1
    <3>1. m \in 1..Len(a) /\ ra[m] = a[k] /\ re[m] = e[Len(e) - Len(a) + k]
      BY <2>1, <2>2
    <3> QED
      BY <2>3, <3>1
  <2>4. ASSUME \A k \in 1..Len(a) : a[k] = e[Len(e) - Len(a) + k], NEW k \in 1..Len(a)
        PROVE  ra[k] = re[k]
    BY <2>1, <2>2, <2>4
  <2> QED
    BY <2>3, <2>4
<1> QED
  BY <1>1, <1>2, <1>3, <1>4, <1>5

\* The history grows with what is still to be reported.
LEMMA SuffixGrows ==
  ASSUME NEW S, NEW a \in Seq(S), NEW e \in Seq(S), NEW r \in S, IsSuffix(a, e)
  PROVE  IsSuffix(Append(a, r), Append(e, r))
<1> DEFINE b == Append(a, r)
           f == Append(e, r)
<1>1. /\ Len(a) <= Len(e) /\ Len(a) \in Nat /\ Len(e) \in Nat
      /\ \A k \in 1..Len(a) : a[k] = e[Len(e) - Len(a) + k]
  BY SuffixByIndex
<1>2. /\ b \in Seq(S) /\ Len(b) = Len(a) + 1 /\ b[Len(a) + 1] = r
      /\ \A k \in 1..Len(a) : b[k] = a[k]
  OBVIOUS
<1>3. /\ f \in Seq(S) /\ Len(f) = Len(e) + 1 /\ f[Len(e) + 1] = r
      /\ \A k \in 1..Len(e) : f[k] = e[k]
  OBVIOUS
<1> HIDE DEF b, f
<1>4. ASSUME NEW k \in 1..Len(b)
      PROVE  b[k] = f[Len(f) - Len(b) + k]
  <2>1. CASE k \in 1..Len(a)
    <3>1. /\ Len(e) - Len(a) + k \in 1..Len(e)
          /\ Len(f) - Len(b) + k = Len(e) - Len(a) + k
      BY <1>1, <1>2, <1>3, <2>1
    <3> QED
      BY <1>1, <1>2, <1>3, <2>1, <3>1
  <2>2. CASE k = Len(a) + 1
    <3>1. Len(f) - Len(b) + k = Len(e) + 1
      BY <1>1, <1>2, <1>3, <2>2
    <3> QED
      BY <1>2, <1>3, <2>2, <3>1
  <2> QED
    BY <1>1, <1>2, <2>1, <2>2
<1>5. Len(b) <= Len(f)
  BY <1>1, <1>2, <1>3
<1>6. IsSuffix(b, f)
  BY <1>2, <1>3, <1>4, <1>5, SuffixByIndex
<1> QED
  BY <1>6 DEF b, f

\* What was reported leaves a suffix.
LEMMA SuffixShrinks ==
  ASSUME NEW S, NEW a \in Seq(S), NEW b \in Seq(S), NEW e \in Seq(S),
         IsSuffix(a \o b, e)
  PROVE  IsSuffix(b, e) /\ (a # <<>> => IsSuffix(Tail(a) \o b, e))
<1> DEFINE c == a \o b
<1>1. /\ c \in Seq(S) /\ Len(c) = Len(a) + Len(b)
      /\ Len(a) \in Nat /\ Len(b) \in Nat /\ Len(e) \in Nat
      /\ \A k \in 1..Len(a) : c[k] = a[k]
      /\ \A k \in 1..Len(b) : c[Len(a) + k] = b[k]
  BY ConcatProperties
<1>2. /\ Len(c) <= Len(e)
      /\ \A k \in 1..Len(c) : c[k] = e[Len(e) - Len(c) + k]
  BY <1>1, SuffixByIndex
<1> HIDE DEF c
<1>3. IsSuffix(b, e)
  <2>1. ASSUME NEW k \in 1..Len(b)
        PROVE  b[k] = e[Len(e) - Len(b) + k]
    <3>1. Len(a) + k \in 1..Len(c)
          /\ Len(e) - Len(c) + (Len(a) + k) = Len(e) - Len(b) + k
      BY <1>1
    <3> QED
      BY <1>1, <1>2, <3>1
  <2> QED
    BY <1>1, <1>2, <2>1, SuffixByIndex
<1>4. ASSUME a # <<>>
      PROVE  IsSuffix(Tail(a) \o b, e)
  <2> DEFINE d == Tail(a) \o b
  <2>1. /\ Tail(a) \in Seq(S) /\ Len(Tail(a)) = Len(a) - 1 /\ Len(a) > 0
        /\ \A k \in 1..(Len(a) - 1) : Tail(a)[k] = a[k + 1]
    BY <1>4
  <2>2. /\ d \in Seq(S) /\ Len(d) = Len(c) - 1
        /\ \A k \in 1..(Len(a) - 1) : d[k] = a[k + 1]
        /\ \A k \in 1..Len(b) : d[Len(a) - 1 + k] = b[k]
    BY <1>1, <2>1
  <2> HIDE DEF d
  <2>3. ASSUME NEW k \in 1..Len(d)
        PROVE  d[k] = c[k + 1]
    <3>1. CASE k \in 1..(Len(a) - 1)
      BY <1>1, <2>1, <2>2, <3>1
    <3>2. CASE k \notin 1..(Len(a) - 1)
      <4> DEFINE m == k - (Len(a) - 1)
      <4>1. m \in 1..Len(b) /\ Len(a) - 1 + m = k /\ Len(a) + m = k + 1
        BY <1>1, <2>1, <2>2, <3>2
      <4> QED
        <5>1. d[k] = b[m]
          BY <2>2, <4>1
        <5>2. c[k + 1] = b[m]
          BY <1>1, <4>1
        <5> QED
          BY <5>1, <5>2
    <3> QED
      BY <3>1, <3>2
  <2>4. ASSUME NEW k \in 1..Len(d)
        PROVE  d[k] = e[Len(e) - Len(d) + k]
    <3>1. k + 1 \in 1..Len(c) /\ Len(e) - Len(c) + (k + 1) = Len(e) - Len(d) + k
      BY <1>1, <2>2
    <3> QED
      BY <1>2, <2>3, <3>1
  <2>5. Len(d) <= Len(e)
    BY <1>1, <1>2, <2>2
  <2>6. IsSuffix(d, e)
    BY <2>2, <2>4, <2>5, SuffixByIndex
  <2> QED
    BY <2>6 DEF d
<1> QED
  BY <1>3, <1>4
-----------------------------------------------------------------------------
(* What a step may leave alone.                                            *)

SameBuild(s, t) == t.bench = s.bench /\ t.session = s.session
SameQueue(s, t) == t.cmds = s.cmds /\ t.tomb = s.tomb
SameGates(s, t) == t.motion = s.motion /\ t.stop = s.stop
SameStores(s, t) ==
  t.results = s.results /\ t.deferred = s.deferred /\ t.ended = s.ended

\* The same command, perhaps with another mask.
SameCommand(c, d) ==
  /\ d \in Commands /\ d.id = c.id /\ d.kind = c.kind
  /\ d.session = c.session /\ (d = NoCommand <=> c = NoCommand)

\* The terminal r was stored: in the results, which opens its gate, or deferred.
Stored(s, t, r) ==
  /\ t \in Systems /\ r \in Results
  /\ SameBuild(s, t) /\ SameQueue(s, t)
  /\ t.slot = s.slot /\ t.action = s.action
  /\ t.ended = Append(s.ended, r)
  /\ IF s.deferred = <<>> /\ ResultRoom(s)
       THEN /\ t.results = Append(s.results, r) /\ t.deferred = s.deferred
            /\ t.motion = (IF r.kind = "oneshot" /\ r.id = s.motion
                             THEN 0 ELSE s.motion)
            /\ t.stop = (IF r.kind = "stop" /\ r.id = s.stop
                           THEN 0 ELSE s.stop)
       ELSE /\ t.results = s.results /\ t.deferred = Append(s.deferred, r)
            /\ SameGates(s, t)

\* The fields of a system have their types.
LEMMA SystemFields ==
  ASSUME NEW s \in Systems
  PROVE  /\ s.bench \in BOOLEAN /\ s.cmds \in Seq(Commands)
         /\ s.slot \in Commands /\ s.motion \in Nat /\ s.stop \in Nat
         /\ s.tomb \in Nat /\ s.results \in Seq(Results) /\ s.session \in Nat
         /\ s.action \in Commands /\ s.stage \in {"run", "cleanup"}
         /\ s.age \in Nat
         /\ s.deferred \in Seq(Results) /\ s.ended \in Seq(Results)
  BY DEF Systems

\* The absence of a command is recorded as a command without identifier.
LEMMA NoCommandType == /\ NoCommand \in Commands
                       /\ NoCommand.id = 0 /\ NoCommand.kind = "plain"
  BY DEF NoCommand, Commands, Kinds

\* Identifiers of requests are positive, those of NoCommand are 0.
LEMMA KnownId ==
  ASSUME NEW c \in Commands, NEW rq \in Seq(Requests),
         c = NoCommand \/ Known(c, rq)
  PROVE  c.id = 0 <=> c = NoCommand
  BY NoCommandType DEF Known

\* What is queued is a command, with a positive identifier.
LEMMA QueuedId ==
  ASSUME NEW calm, NEW s, NEW p, NEW h, NEW rq,
         CInv(calm, s, p, h, rq), NEW n \in DOMAIN s.cmds
  PROVE  s.cmds[n] \in Commands /\ s.cmds[n].id # 0
<1>1. s.cmds[n] \in Commands
  BY SystemFields DEF CInv, Typed
<1>2. s.cmds[n].id # 0
  BY DEF CInv, Typed, Named, Known
<1> QED
  BY <1>1, <1>2

\* With room for it, a terminal is stored.
LEMMA StoreEffect ==
  ASSUME NEW s \in Systems, NEW r \in Results, CanStore(s)
  PROVE  Stored(s, Store(s, r), r)
<1> DEFINE e == Append(s.ended, r)
           t == [s EXCEPT !.ended = e]
<1>1. e \in Seq(Results)
  BY SystemFields
<1> HIDE DEF e
<1>2. t \in Systems /\ SameBuild(s, t) /\ SameQueue(s, t) /\ SameGates(s, t)
      /\ t.slot = s.slot /\ t.action = s.action /\ t.ended = e
      /\ t.results = s.results /\ t.deferred = s.deferred
  BY <1>1 DEF Systems, SameBuild, SameQueue, SameGates
<1>3. CASE s.deferred = <<>> /\ ResultRoom(s)
  <2> DEFINE u == SubmitResult(t, r)
             rs == t.results \o <<r>>
             m == IF Opens(<<r>>, "oneshot", t.motion) THEN 0 ELSE t.motion
             p == IF Opens(<<r>>, "stop", t.stop) THEN 0 ELSE t.stop
  <2>1. Store(s, r) = u
    BY <1>3 DEF Store, t, e, CanStore
  <2> HIDE DEF t
  <2>2. \A kind, id : Opens(<<r>>, kind, id) <=> r.kind = kind /\ r.id = id
    BY DEF Opens
  <2>3. /\ rs \in Seq(Results) /\ rs = Append(t.results, r)
        /\ m \in Nat /\ p \in Nat
    BY <1>2, SystemFields
  <2>4. u = [t EXCEPT !.results = rs, !.motion = m, !.stop = p]
    BY DEF SubmitResult, SubmitResults
  <2> HIDE DEF u, rs, m, p
  <2>5. u \in Systems /\ SameBuild(t, u) /\ SameQueue(t, u)
        /\ u.slot = t.slot /\ u.action = t.action /\ u.ended = t.ended
        /\ u.results = rs /\ u.deferred = t.deferred
        /\ u.motion = m /\ u.stop = p
    BY <1>2, <2>3, <2>4 DEF Systems, SameBuild, SameQueue
  <2> QED
    BY <1>2, <1>3, <2>1, <2>2, <2>3, <2>5
    DEF Stored, SameBuild, SameQueue, SameGates, e, m, p
<1>4. CASE ~(s.deferred = <<>> /\ ResultRoom(s))
  <2> DEFINE d == Append(t.deferred, r)
             u == [t EXCEPT !.deferred = d]
  <2>1. Store(s, r) = u
    BY <1>4 DEF Store, t, e, CanStore
  <2> HIDE DEF t
  <2>2. d \in Seq(Results)
    BY <1>2, SystemFields
  <2> HIDE DEF d
  <2>3. u \in Systems /\ SameBuild(t, u) /\ SameQueue(t, u) /\ SameGates(t, u)
        /\ u.slot = t.slot /\ u.action = t.action /\ u.ended = t.ended
        /\ u.results = t.results /\ u.deferred = d
    BY <1>2, <2>2 DEF Systems, SameBuild, SameQueue, SameGates
  <2> HIDE DEF u
  <2> QED
    BY <1>2, <1>4, <2>1, <2>3
    DEF Stored, SameBuild, SameQueue, SameGates, e, d
<1> QED
  BY <1>3, <1>4
-----------------------------------------------------------------------------
(* The hand of the service call takes a command ...                        *)

\* Whose requests are named stays so with the queue, the gates and the stores.
LEMMA NamedOver ==
  ASSUME NEW s, NEW t, NEW p, NEW g, NEW h, NEW rq, Named(s, p, g, rq),
         t.cmds = s.cmds, SameGates(s, t), SameStores(s, t),
         KindOf(t.tomb, rq, {"oneshot"}),
         \A c \in {h, t.slot, t.action} : c = NoCommand \/ Known(c, rq),
         t.slot = NoCommand \/ t.slot.kind = "stop"
  PROVE  Named(t, p, h, rq)
<1>1. \A c \in {p, h, t.slot, t.action} : c = NoCommand \/ Known(c, rq)
  BY DEF Named
<1>2. \A n \in DOMAIN t.cmds : Known(t.cmds[n], rq) /\ t.cmds[n].kind # "stop"
  BY DEF Named
<1>3. \A rs \in {t.results, t.deferred, t.ended} : \A n \in DOMAIN rs :
        (rs[n].id = 0 /\ rs[n].kind = "plain") \/ Known(rs[n], rq)
  BY DEF Named, SameStores
<1>4. KindOf(t.motion, rq, {"oneshot", "movej"}) /\ KindOf(t.stop, rq, {"stop"})
  BY DEF Named, SameGates
<1> QED
  BY <1>1, <1>2, <1>3, <1>4 DEF Named

\* Masks and clocks are not part of the invariant.
LEMMA Rescoped ==
  ASSUME NEW calm, NEW s, NEW t \in Systems, NEW p, NEW h, NEW rq,
         CInv(calm, s, p, h, rq),
         SameBuild(s, t), SameQueue(s, t), SameGates(s, t), SameStores(s, t),
         SameCommand(s.slot, t.slot), SameCommand(s.action, t.action)
  PROVE  CInv(calm, t, p, h, rq)
<1>1. Typed(t, p, h, rq)
  BY DEF CInv, Typed
<1>2. Named(t, p, h, rq)
  <2>1. Named(s, p, h, rq) /\ t.cmds = s.cmds /\ t.tomb = s.tomb
    BY DEF CInv, SameQueue
  <2>2. \A c, d : SameCommand(c, d) /\ (c = NoCommand \/ Known(c, rq)) =>
          d = NoCommand \/ Known(d, rq)
    BY DEF SameCommand, Known
  <2>3. \A c \in {h, t.slot, t.action} : c = NoCommand \/ Known(c, rq)
    BY <2>1, <2>2 DEF Named
  <2>4. t.slot = NoCommand \/ t.slot.kind = "stop"
    BY <2>1 DEF Named, SameCommand
  <2>5. KindOf(t.tomb, rq, {"oneshot"})
    BY <2>1 DEF Named
  <2> QED
    BY <2>1, <2>3, <2>4, <2>5, NamedOver
<1>3. Distinct(t, p, h)
  BY DEF CInv, Distinct, SameCommand, SameQueue
<1>4. Finished(t, p, h)
  BY DEF CInv, Finished, SameCommand, SameQueue, SameStores
<1>5. Gated(t, p, h)
  BY DEF CInv, Gated, SameCommand, SameQueue, SameGates, SameStores
<1>6. ASSUME calm
      PROVE  Kept(t, p, h, rq)
  BY <1>6 DEF CInv, Kept, Backed, RunnableIn, KindsOf, SameCommand, SameBuild,
              SameQueue, SameGates, SameStores
<1> QED
  BY <1>1, <1>2, <1>3, <1>4, <1>5, <1>6 DEF CInv, Ordered, SameStores

\* ... the action, of which only a terminal remains,
LEMMA ActionInHand ==
  ASSUME NEW calm, NEW s, NEW t \in Systems, NEW p, NEW rq,
         CInv(calm, s, p, NoCommand, rq),
         SameBuild(s, t), SameQueue(s, t), SameGates(s, t), SameStores(s, t),
         t.slot = s.slot, t.action = NoCommand
  PROVE  CInv(calm, t, p, s.action, rq)
<1> USE NoCommandType
<1>1. Typed(t, p, s.action, rq)
  BY SystemFields DEF CInv, Typed
<1>2. Named(t, p, s.action, rq)
  BY DEF CInv, Named, SameQueue, SameGates, SameStores
<1>3. Distinct(t, p, s.action)
  BY QueuedId DEF CInv, Distinct, SameQueue
<1>4. Finished(t, p, s.action)
  BY DEF CInv, Finished, SameQueue, SameStores
<1>5. Gated(t, p, s.action)
  BY DEF CInv, Gated, SameQueue, SameGates, SameStores
<1>6. ASSUME calm
      PROVE  Kept(t, p, s.action, rq)
  BY <1>6 DEF CInv, Kept, Backed, RunnableIn, KindsOf, SameBuild,
              SameQueue, SameGates, SameStores
<1> QED
  BY <1>1, <1>2, <1>3, <1>4, <1>5, <1>6 DEF CInv, Ordered, SameStores

\* the STOP that waits in the slot,
LEMMA StopInHand ==
  ASSUME NEW calm, NEW s, NEW t \in Systems, NEW p, NEW rq,
         CInv(calm, s, p, NoCommand, rq),
         SameBuild(s, t), SameQueue(s, t), SameGates(s, t), SameStores(s, t),
         t.slot = NoCommand, t.action = s.action
  PROVE  CInv(calm, t, p, s.slot, rq)
<1> USE NoCommandType
<1>1. Typed(t, p, s.slot, rq)
  BY SystemFields DEF CInv, Typed
<1>2. Named(t, p, s.slot, rq)
  BY DEF CInv, Named, SameQueue, SameGates, SameStores
<1>3. Distinct(t, p, s.slot)
  BY QueuedId DEF CInv, Distinct, SameQueue
<1>4. Finished(t, p, s.slot)
  BY DEF CInv, Finished, SameQueue, SameStores
<1>5. Gated(t, p, s.slot)
  BY DEF CInv, Gated, SameQueue, SameGates, SameStores
<1>6. ASSUME calm
      PROVE  Kept(t, p, s.slot, rq)
  BY <1>6 DEF CInv, Kept, Backed, RunnableIn, KindsOf, Named, Known, KindOf, SameBuild,
              SameQueue, SameGates, SameStores
<1> QED
  BY <1>1, <1>2, <1>3, <1>4, <1>5, <1>6 DEF CInv, Ordered, SameStores

\* the head of the queue, unless it is tombstoned,
LEMMA CommandInHand ==
  ASSUME NEW calm, NEW s, NEW t \in Systems, NEW p, NEW rq,
         CInv(calm, s, p, NoCommand, rq),
         s.cmds # <<>>, ~Tombstoned(s, Head(s.cmds)),
         SameBuild(s, t), SameGates(s, t), SameStores(s, t),
         t.cmds = Tail(s.cmds), t.tomb = s.tomb,
         t.slot = s.slot, t.action = s.action
  PROVE  CInv(calm, t, p, Head(s.cmds), rq)
<1> DEFINE c == Head(s.cmds)
<1>1. /\ s.cmds \in Seq(Commands) /\ c \in Commands /\ c = s.cmds[1]
      /\ 1 \in DOMAIN s.cmds
      /\ \A n \in DOMAIN t.cmds : /\ n + 1 \in DOMAIN s.cmds /\ n + 1 # 1
                                  /\ t.cmds[n] = s.cmds[n + 1]
      /\ \A n \in DOMAIN s.cmds :
           n = 1 \/ (n - 1 \in DOMAIN t.cmds /\ s.cmds[n] = t.cmds[n - 1])
  <2>1. s.cmds \in Seq(Commands)
    BY SystemFields DEF CInv, Typed
  <2> QED
    BY <2>1
<1> HIDE DEF c
<1>2. Typed(t, p, c, rq)
  BY <1>1 DEF CInv, Typed
<1>3. Named(t, p, c, rq)
  BY <1>1 DEF CInv, Named, SameGates, SameStores
<1>4. c.id # 0 /\ c.id # s.tomb
  BY <1>1 DEF CInv, Named, Known, KindOf, Typed, Tombstoned, c
<1>5. Distinct(t, p, c)
  BY <1>1 DEF CInv, Distinct
<1>6. Finished(t, p, c)
  BY <1>1, <1>4 DEF CInv, Finished, SameStores
<1>7. Gated(t, p, c)
  BY <1>1, NoCommandType DEF CInv, Gated, SameGates, SameStores
<1>8. ASSUME calm
      PROVE  Kept(t, p, c, rq)
  <2>1. \A i : i # 0 /\ RunnableIn(s, p, NoCommand, i) => RunnableIn(t, p, c, i)
    <3> SUFFICES ASSUME NEW i, i # 0, RunnableIn(s, p, NoCommand, i)
                 PROVE  RunnableIn(t, p, c, i)
      OBVIOUS
    <3>1. CASE i \in {p.id, s.slot.id, s.action.id}
      BY <3>1 DEF RunnableIn
    <3>2. CASE \E n \in DOMAIN s.cmds : s.cmds[n].id = i /\ s.cmds[n].id # s.tomb
      <4>1. PICK n \in DOMAIN s.cmds : s.cmds[n].id = i /\ s.cmds[n].id # s.tomb
        BY <3>2
      <4>2. CASE n = 1
        BY <1>1, <4>1, <4>2 DEF RunnableIn
      <4>3. CASE n # 1
        <5>1. n - 1 \in DOMAIN t.cmds /\ t.cmds[n - 1].id = i /\ t.cmds[n - 1].id # t.tomb
          BY <1>1, <4>1, <4>3
        <5> QED
          BY <5>1 DEF RunnableIn
      <4> QED
        BY <4>2, <4>3
    <3>3. i \in {p.id, s.slot.id, s.action.id}
          \/ \E n \in DOMAIN s.cmds : s.cmds[n].id = i /\ s.cmds[n].id # s.tomb
      BY NoCommandType DEF RunnableIn
    <3> QED
      BY <3>1, <3>2, <3>3
  <2>2. OfSession(s.cmds, s.motion, s.session) =>
          /\ OfSession(t.cmds, s.motion, s.session)
          /\ c.id = s.motion => c.session = s.session
    BY <1>1 DEF OfSession
  <2>3. \A i \in DOMAIN rq : i # 0
    BY DEF CInv, Typed
  <2> QED
    BY <1>8, <2>1, <2>2, <2>3
    DEF CInv, Kept, Backed, KindsOf, SameBuild, SameGates, SameStores
<1> QED
  BY <1>2, <1>3, <1>5, <1>6, <1>7, <1>8 DEF CInv, Ordered, SameStores, c

\* or the queued motion, which leaves its tombstone.
LEMMA MotionInHand ==
  ASSUME NEW calm, NEW s, NEW t \in Systems, NEW p, NEW rq,
         CInv(calm, s, p, NoCommand, rq),
         CanTakeQueuedMotion(s),
         SameBuild(s, t), SameGates(s, t), SameStores(s, t),
         t.cmds = s.cmds, t.tomb = s.motion,
         t.slot = s.slot, t.action = s.action
  PROVE  CInv(calm, t, p, QueuedMotion(s), rq)
<1> DEFINE c == QueuedMotion(s)
<1>1. c \in QueuedMotions(s)
  BY DEF CanTakeQueuedMotion, QueuedMotion
<1> HIDE DEF c
<1>2. PICK k \in DOMAIN s.cmds : c = s.cmds[k]
  BY <1>1 DEF QueuedMotions
<1>3. c.kind = "oneshot" /\ c.id = s.motion /\ s.motion # 0 /\ s.tomb = 0
  BY <1>1 DEF QueuedMotions, CanTakeQueuedMotion
<1>4. c \in Commands
  BY <1>2, SystemFields DEF CInv, Typed
<1>5. Typed(t, p, c, rq)
  BY <1>4 DEF CInv, Typed
<1>6. Named(t, p, c, rq)
  <2>1. Named(s, p, NoCommand, rq)
    BY DEF CInv
  <2>2. Known(c, rq)
    BY <1>2, <2>1 DEF Named
  <2>3. \A d \in {c, t.slot, t.action} : d = NoCommand \/ Known(d, rq)
    BY <2>1, <2>2 DEF Named
  <2>4. (t.slot = NoCommand \/ t.slot.kind = "stop") /\ KindOf(t.tomb, rq, {"oneshot"})
    BY <1>3, <2>1, <2>2 DEF Named, KindOf, Known
  <2> QED
    BY <2>1, <2>3, <2>4, NamedOver
<1>7. Distinct(t, p, c)
  BY <1>2, <1>3 DEF CInv, Distinct
<1>8. Finished(t, p, c)
  BY <1>2, <1>3 DEF CInv, Finished, SameStores
<1>9. Gated(t, p, c)
  BY <1>2, <1>3, QueuedId, NoCommandType
  DEF CInv, Gated, SameGates, SameStores
<1>10. ASSUME calm
       PROVE  Kept(t, p, c, rq)
  <2>1. \A i : i # 0 /\ RunnableIn(s, p, NoCommand, i) => RunnableIn(t, p, c, i)
    BY <1>3, NoCommandType DEF RunnableIn
  <2>2. OfSession(s.cmds, s.motion, s.session) => c.session = s.session
    BY <1>2, <1>3 DEF OfSession
  <2>3. \A i \in DOMAIN rq : i # 0
    BY DEF CInv, Typed
  <2> QED
    BY <1>3, <1>10, <2>1, <2>2, <2>3
    DEF CInv, Kept, Backed, KindsOf, SameBuild, SameGates, SameStores
<1> QED
  BY <1>5, <1>6, <1>7, <1>8, <1>9, <1>10 DEF CInv, Ordered, SameStores, c
-----------------------------------------------------------------------------
(* The hand gives its command away: it becomes the action ...              *)

\* What the service holds in its hand becomes the action, ...
LEMMA HandActivated ==
  ASSUME NEW calm, NEW s, NEW t \in Systems, NEW p, NEW h, NEW rq,
         CInv(calm, s, p, h, rq),
         s.action = NoCommand,
         SameBuild(s, t), SameQueue(s, t), SameGates(s, t), SameStores(s, t),
         t.slot = s.slot, SameCommand(h, t.action),
         \A n \in DOMAIN s.cmds : s.cmds[n].id # h.id
  PROVE  CInv(calm, t, p, NoCommand, rq)
<1> USE NoCommandType
<1>1. Typed(t, p, NoCommand, rq)
  BY DEF CInv, Typed
<1>2. Named(t, p, NoCommand, rq)
  <2>1. Named(s, p, h, rq) /\ t.cmds = s.cmds /\ t.tomb = s.tomb
    BY DEF CInv, SameQueue
  <2>2. t.action = NoCommand \/ Known(t.action, rq)
    BY <2>1 DEF Named, SameCommand, Known
  <2>3. \A c \in {NoCommand, t.slot, t.action} : c = NoCommand \/ Known(c, rq)
    BY <2>1, <2>2 DEF Named
  <2>4. (t.slot = NoCommand \/ t.slot.kind = "stop") /\ KindOf(t.tomb, rq, {"oneshot"})
    BY <2>1 DEF Named
  <2> QED
    BY <2>1, <2>3, <2>4, NamedOver
<1>3. Distinct(t, p, NoCommand)
  BY QueuedId DEF CInv, Distinct, SameCommand, SameQueue
<1>4. Finished(t, p, NoCommand)
  BY DEF CInv, Finished, SameCommand, SameQueue, SameStores
<1>5. Gated(t, p, NoCommand)
  BY DEF CInv, Gated, SameCommand, SameQueue, SameGates, SameStores
<1>6. ASSUME calm
      PROVE  Kept(t, p, NoCommand, rq)
  <2>1. \A i : i # 0 /\ RunnableIn(s, p, h, i) => RunnableIn(t, p, NoCommand, i)
    BY DEF RunnableIn, SameCommand, SameQueue
  <2>2. \A i \in DOMAIN rq : i # 0
    BY DEF CInv, Typed
  <2> QED
    BY <1>6, <2>1, <2>2 DEF CInv, Kept, Backed, KindsOf, SameCommand, SameBuild,
                            SameQueue, SameGates, SameStores
<1> QED
  BY <1>1, <1>2, <1>3, <1>4, <1>5, <1>6 DEF CInv, Ordered, SameStores

\* What the two stores and the history hold once r is stored.
LEMMA StoredHolds ==
  ASSUME NEW s \in Systems, NEW t, NEW r, Stored(s, t, r), NEW i
  PROVE  /\ Holds(t.ended, i) <=> Holds(s.ended, i) \/ r.id = i
         /\ Holds(t.results, i) \/ Holds(t.deferred, i)
              <=> Holds(s.results, i) \/ Holds(s.deferred, i) \/ r.id = i
<1>1. r \in Results /\ s.ended \in Seq(Results) /\ s.results \in Seq(Results)
      /\ s.deferred \in Seq(Results)
  BY SystemFields DEF Stored
<1>2. Holds(t.ended, i) <=> Holds(s.ended, i) \/ r.id = i
  BY <1>1, HoldsAppend DEF Stored
<1>3. Holds(Append(s.results, r), i) <=> Holds(s.results, i) \/ r.id = i
  BY <1>1, HoldsAppend
<1>4. Holds(Append(s.deferred, r), i) <=> Holds(s.deferred, i) \/ r.id = i
  BY <1>1, HoldsAppend
<1> QED
  BY <1>2, <1>3, <1>4 DEF Stored

\* Each entry of an extended sequence is an old one or the new one.
LEMMA AppendEntries ==
  ASSUME NEW S, NEW rs \in Seq(S), NEW r \in S, NEW n \in DOMAIN Append(rs, r)
  PROVE  (n \in DOMAIN rs /\ Append(rs, r)[n] = rs[n]) \/ Append(rs, r)[n] = r
  OBVIOUS

\* ... or a terminal of it is stored; with an empty hand the terminal is that
\* of a link timeout, which answers no request.
LEMMA HandStored ==
  ASSUME NEW calm, NEW s, NEW t, NEW p, NEW h, NEW rq, NEW r,
         CInv(calm, s, p, h, rq),
         Stored(s, t, r), r.id = h.id, r.kind = h.kind,
         r.id # 0 => r.session = h.session
  PROVE  CInv(calm, t, p, NoCommand, rq)
<1> USE NoCommandType
<1>1. /\ s \in Systems /\ t \in Systems /\ r \in Results
      /\ s.ended \in Seq(Results) /\ s.results \in Seq(Results)
      /\ s.deferred \in Seq(Results)
  BY SystemFields DEF CInv, Typed, Stored
<1>2. Typed(t, p, NoCommand, rq)
  BY <1>1 DEF CInv, Typed
<1>3. Named(t, p, NoCommand, rq)
  <2>1. (r.id = 0 /\ r.kind = "plain") \/ Known(r, rq)
    BY DEF CInv, Named, Known
  <2>2. ASSUME NEW rs \in {t.results, t.deferred, t.ended}, NEW n \in DOMAIN rs
        PROVE  (rs[n].id = 0 /\ rs[n].kind = "plain") \/ Known(rs[n], rq)
    <3>1. PICK qs \in {s.results, s.deferred, s.ended} :
            rs = qs \/ rs = Append(qs, r)
      BY DEF Stored
    <3>2. CASE rs = qs
      BY <3>1, <3>2 DEF CInv, Named
    <3>3. CASE rs = Append(qs, r)
      <4>1. qs \in Seq(Results)
        BY <1>1, <3>1
      <4>2. (n \in DOMAIN qs /\ rs[n] = qs[n]) \/ rs[n] = r
        BY <1>1, <3>3, <4>1, AppendEntries
      <4> QED
        BY <2>1, <3>1, <4>2 DEF CInv, Named
    <3> QED
      BY <3>1, <3>2, <3>3
  <2>3. KindOf(t.motion, rq, {"oneshot", "movej"}) /\ KindOf(t.stop, rq, {"stop"})
    BY DEF CInv, Named, KindOf, Stored, SameGates
  <2> QED
    BY <2>2, <2>3 DEF CInv, Named, Stored, SameQueue
<1>4. Distinct(t, p, NoCommand)
  BY QueuedId DEF CInv, Distinct, Stored, SameQueue
<1>5. Finished(t, p, NoCommand)
  <2>1. SameQueue(s, t) /\ t.slot = s.slot /\ t.action = s.action
    BY DEF Stored
  <2>2. ASSUME NEW i \in Nat \ {0}, Holds(t.ended, i)
        PROVE  /\ i \notin {p.id, 0, t.slot.id, t.action.id}
               /\ \A n \in DOMAIN t.cmds : t.cmds[n].id = i => i = t.tomb
    <3>1. Holds(s.ended, i) \/ h.id = i
      BY <1>1, <2>2, StoredHolds
    <3>2. CASE Holds(s.ended, i)
      BY <2>1, <3>2 DEF CInv, Finished, SameQueue
    <3>3. CASE h.id = i
      BY <2>1, <3>3 DEF CInv, Distinct, SameQueue
    <3> QED
      BY <3>1, <3>2, <3>3
  <2>3. ASSUME NEW i \in Nat \ {0}, Holds(t.results, i) \/ Holds(t.deferred, i)
        PROVE  Holds(t.ended, i)
    <3>1. Holds(s.results, i) \/ Holds(s.deferred, i) \/ r.id = i
      BY <1>1, <2>3, StoredHolds, ZenonT(30)
    <3>2. Holds(s.ended, i) \/ r.id = i
      BY <3>1 DEF CInv, Finished
    <3> QED
      BY <1>1, <3>2, StoredHolds
  <2> QED
    BY <2>2, <2>3 DEF Finished
<1>6. Gated(t, p, NoCommand)
  <2>1. t.slot = s.slot /\ t.action = s.action /\ SameQueue(s, t)
    BY DEF Stored
  <2>2. h.id # 0 => /\ h.id \notin {p.id, s.slot.id, s.action.id}
                    /\ \A n \in DOMAIN s.cmds :
                         s.cmds[n].id = h.id => h.id = s.tomb
    BY DEF CInv, Distinct
  <2>3. /\ t.motion = s.motion \/ (t.motion = 0 /\ s.motion = h.id)
        /\ t.stop = s.stop \/ (t.stop = 0 /\ s.stop = h.id)
    BY DEF Stored, SameGates
  <2>4. t.slot = NoCommand \/ t.stop = t.slot.id
    BY <2>1, <2>2, <2>3, KnownId DEF CInv, Gated, Named, Typed
  <2>5. p.kind = "stop" => t.slot = NoCommand /\ t.stop = p.id
    BY <2>1, <2>2, <2>3 DEF CInv, Gated
  <2>6. t.stop # 0 => \/ t.stop \in {p.id, 0, t.slot.id, t.action.id}
                      \/ Holds(t.deferred, t.stop)
    <3>1. CASE s.deferred = <<>> /\ ResultRoom(s)
      <4>1. t.deferred = s.deferred
            /\ t.stop = IF h.kind = "stop" /\ h.id = s.stop THEN 0 ELSE s.stop
        BY <3>1 DEF Stored
      <4>2. s.stop # 0 /\ h.id = s.stop => h.kind = "stop"
        BY DEF CInv, Named, Known, KindOf
      <4> QED
        BY <2>1, <4>1, <4>2 DEF CInv, Gated
    <3>2. CASE ~(s.deferred = <<>> /\ ResultRoom(s))
      <4>1. t.deferred = Append(s.deferred, r) /\ t.stop = s.stop
        BY <3>2 DEF Stored, SameGates
      <4>2. Holds(t.deferred, s.stop) <=> Holds(s.deferred, s.stop) \/ h.id = s.stop
        BY <1>1, <4>1, HoldsAppend
      <4> QED
        BY <2>1, <4>1, <4>2 DEF CInv, Gated
    <3> QED
      BY <3>1, <3>2
  <2>7. OwnsMotion(p) => t.motion = p.id
    BY <2>2, <2>3 DEF CInv, Gated
  <2>8. \A n \in DOMAIN t.cmds :
          OwnsMotion(t.cmds[n]) => t.cmds[n].id \in {t.motion, t.tomb}
    BY <2>1, <2>2, <2>3, QueuedId DEF CInv, Gated, SameQueue
  <2> QED
    BY <2>4, <2>5, <2>6, <2>7, <2>8 DEF Gated
<1>7. Ordered(t)
  <2> DEFINE a == s.results \o s.deferred
  <2>1. a \in Seq(Results) /\ IsSuffix(a, s.ended)
    BY <1>1 DEF CInv, Ordered
  <2>2. t.results \o t.deferred = Append(a, r)
    <3>1. CASE s.deferred = <<>> /\ ResultRoom(s)
      <4>1. t.results = Append(s.results, r) /\ t.deferred = <<>>
        BY <3>1 DEF Stored
      <4> QED
        BY <1>1, <3>1, <4>1
    <3>2. CASE ~(s.deferred = <<>> /\ ResultRoom(s))
      <4>1. t.results = s.results /\ t.deferred = Append(s.deferred, r)
        BY <3>2 DEF Stored
      <4>2. s.results \o Append(s.deferred, r) = Append(s.results \o s.deferred, r)
        <5>1. \A x, y \in Seq(Results), z \in Results :
                x \o Append(y, z) = Append(x \o y, z)
          BY ConcatAppend
        <5> QED
          BY <1>1, <5>1
      <4> QED
        BY <4>1, <4>2
    <3> QED
      BY <3>1, <3>2
  <2> HIDE DEF a
  <2>3. IsSuffix(Append(a, r), Append(s.ended, r))
    BY <1>1, <2>1, SuffixGrows
  <2>4. Len(t.results) <= ResultCapacity
    <3>1. CASE s.deferred = <<>> /\ ResultRoom(s)
      <4>1. Len(t.results) = Len(s.results) + 1
        BY <1>1, <3>1 DEF Stored
      <4> QED
        BY <1>1, <3>1, <4>1, CapacityAssumption DEF ResultRoom
    <3>2. CASE ~(s.deferred = <<>> /\ ResultRoom(s))
      BY <3>2 DEF Stored, CInv, Ordered
    <3> QED
      BY <3>1, <3>2
  <2> QED
    BY <2>2, <2>3, <2>4 DEF Ordered, Stored
<1>8. ASSUME calm
      PROVE  Kept(t, p, NoCommand, rq)
  <2>1. Kept(s, p, h, rq)
    BY <1>8 DEF CInv
  <2>2. SameBuild(s, t) /\ SameQueue(s, t)
        /\ t.slot = s.slot /\ t.action = s.action
    BY DEF Stored
  <2>3. \A i : i # 0 /\ RunnableIn(s, p, h, i) =>
                 RunnableIn(t, p, NoCommand, i) \/ r.id = i
    BY <2>2 DEF RunnableIn, SameQueue
  <2>4. ASSUME NEW i \in DOMAIN rq, rq[i].status = "accepted"
        PROVE  \/ RunnableIn(t, p, NoCommand, i)
               \/ Holds(t.results, i) \/ Holds(t.deferred, i)
    <3>1. \/ RunnableIn(s, p, h, i)
          \/ Holds(s.results, i) \/ Holds(s.deferred, i)
      BY <2>1, <2>4 DEF Kept
    <3>2. i # 0
      BY DEF CInv, Typed
    <3> QED
      BY <1>1, <2>3, <3>1, <3>2, StoredHolds
  <2>5. \A i, k : OfSession(s.results, i, k) /\ (r.id = i => r.session = k) =>
                    OfSession(Append(s.results, r), i, k)
    BY <1>1, AppendEntries DEF OfSession
  <2>6. \A i, k : OfSession(s.deferred, i, k) /\ (r.id = i => r.session = k) =>
                    OfSession(Append(s.deferred, r), i, k)
    BY <1>1, AppendEntries DEF OfSession
  <2>7. ASSUME t.motion # 0
        PROVE  /\ \/ RunnableIn(t, p, NoCommand, t.motion)
                  \/ Holds(t.deferred, t.motion)
                  \/ ~t.bench /\ Holds(t.results, t.motion)
               /\ \A c \in {p, NoCommand, t.action} :
                    c.id = t.motion => c.session = t.session
               /\ OfSession(t.cmds, t.motion, t.session)
               /\ OfSession(t.results, t.motion, t.session)
               /\ OfSession(t.deferred, t.motion, t.session)
    <3>1. t.motion = s.motion /\ t.session = s.session /\ t.bench = s.bench
      BY <2>2, <2>7 DEF Stored, SameGates, SameBuild
    <3>2. /\ \/ RunnableIn(s, p, h, s.motion)
             \/ Holds(s.deferred, s.motion)
             \/ ~s.bench /\ Holds(s.results, s.motion)
          /\ \A c \in {p, h, s.action} :
               c.id = s.motion => c.session = s.session
          /\ OfSession(s.cmds, s.motion, s.session)
          /\ OfSession(s.results, s.motion, s.session)
          /\ OfSession(s.deferred, s.motion, s.session)
      BY <2>1, <2>7, <3>1 DEF Kept, Backed
    <3>3. r.id = s.motion => r.session = s.session
      BY <2>7, <3>1, <3>2
    <3>4. CASE s.deferred = <<>> /\ ResultRoom(s)
      <4>1. t.results = Append(s.results, r) /\ t.deferred = s.deferred
            /\ ~(r.kind = "oneshot" /\ r.id = s.motion)
        BY <2>7, <3>1, <3>4 DEF Stored
      <4>2. r.id = s.motion => ~s.bench
        <5>1. r.id = s.motion => Known(h, rq) /\ h.id = s.motion
          BY <2>7, <3>1 DEF CInv, Named
        <5>2. s.motion \in DOMAIN rq /\ rq[s.motion].kind \in {"oneshot", "movej"}
          BY <2>7, <3>1 DEF CInv, Named, KindOf
        <5>3. r.id = s.motion => rq[s.motion].kind = "movej"
          BY <4>1, <5>1, <5>2 DEF Known
        <5> QED
          BY <2>1, <5>2, <5>3 DEF Kept, KindsOf
      <4>3. Holds(t.results, s.motion)
              <=> Holds(s.results, s.motion) \/ r.id = s.motion
        BY <1>1, <4>1, HoldsAppend
      <4>4. \/ RunnableIn(t, p, NoCommand, s.motion)
            \/ Holds(t.deferred, s.motion)
            \/ ~s.bench /\ Holds(t.results, s.motion)
        BY <2>3, <2>7, <3>1, <3>2, <4>1, <4>2, <4>3
      <4>5. OfSession(t.results, s.motion, s.session)
        BY <2>5, <3>2, <3>3, <4>1
      <4>6. \A c \in {p, NoCommand, t.action} :
              c.id = s.motion => c.session = s.session
        BY <2>2, <2>7, <3>1, <3>2
      <4> QED
        BY <2>2, <3>1, <3>2, <4>1, <4>4, <4>5, <4>6 DEF SameQueue
    <3>5. CASE ~(s.deferred = <<>> /\ ResultRoom(s))
      <4>1. t.results = s.results /\ t.deferred = Append(s.deferred, r)
        BY <3>5 DEF Stored
      <4>2. Holds(t.deferred, s.motion)
              <=> Holds(s.deferred, s.motion) \/ r.id = s.motion
        BY <1>1, <4>1, HoldsAppend
      <4> QED
        BY <2>2, <2>3, <2>6, <2>7, <3>1, <3>2, <3>3, <4>1, <4>2
        DEF SameQueue
    <3> QED
      BY <3>4, <3>5
  <2> QED
    BY <2>1, <2>2, <2>4, <2>7 DEF Kept, Backed, KindsOf, SameBuild
<1> QED
  BY <1>2, <1>3, <1>4, <1>5, <1>6, <1>7, <1>8 DEF CInv
-----------------------------------------------------------------------------
(* What a service call does to the channels and the stores.                *)

\* The oldest n deferred terminals went to the results.
Flushed(s, t, n) ==
  LET moved == SubSeq(s.deferred, 1, n) IN
  /\ t \in Systems
  /\ SameBuild(s, t) /\ SameQueue(s, t)
  /\ t.slot = s.slot /\ t.action = s.action /\ t.ended = s.ended
  /\ t.results = s.results \o moved
  /\ t.deferred = SubSeq(s.deferred, n + 1, Len(s.deferred))
  /\ t.motion = (IF Opens(moved, "oneshot", s.motion) THEN 0 ELSE s.motion)
  /\ t.stop = (IF Opens(moved, "stop", s.stop) THEN 0 ELSE s.stop)

\* Deferred terminals move to the results as far as there is room.
LEMMA FlushEffect ==
  ASSUME NEW s \in Systems, Len(s.results) <= ResultCapacity
  PROVE  /\ \E n \in 0..Len(s.deferred) : Flushed(s, Flush(s), n)
         /\ Len(Flush(s).results) <= ResultCapacity
         /\ Flush(s).stage = s.stage /\ Flush(s).age = s.age
<1> DEFINE room == ResultCapacity - Len(s.results)
           n == IF Len(s.deferred) < room THEN Len(s.deferred) ELSE room
           moved == SubSeq(s.deferred, 1, n)
           rest == SubSeq(s.deferred, n + 1, Len(s.deferred))
           d == [s EXCEPT !.deferred = rest]
           rs == s.results \o moved
           m == IF Opens(moved, "oneshot", s.motion) THEN 0 ELSE s.motion
           p == IF Opens(moved, "stop", s.stop) THEN 0 ELSE s.stop
           t == [d EXCEPT !.results = rs, !.motion = m, !.stop = p]
<1>1. /\ s.deferred \in Seq(Results) /\ s.results \in Seq(Results)
      /\ s.motion \in Nat /\ s.stop \in Nat
      /\ ResultCapacity \in Nat
      /\ Len(s.deferred) \in Nat /\ Len(s.results) \in Nat
  BY SystemFields, CapacityAssumption
<1>2. n \in 0..Len(s.deferred) /\ Len(s.results) + n <= ResultCapacity
  <2>1. \A a, b, c \in Nat : b <= c =>
          LET k == IF a < c - b THEN a ELSE c - b
          IN k \in 0..a /\ b + k <= c
    OBVIOUS
  <2> QED
    BY <1>1, <2>1
<1> HIDE DEF room, n
<1>3. /\ moved \in Seq(Results) /\ rest \in Seq(Results) /\ Len(moved) = n
  BY <1>1, <1>2
<1> HIDE DEF moved, rest
<1>4. /\ rs \in Seq(Results) /\ Len(rs) = Len(s.results) + n
      /\ m \in Nat /\ p \in Nat
  BY <1>1, <1>2, <1>3, ConcatProperties
<1>5. /\ d \in Systems /\ SameBuild(s, d) /\ SameQueue(s, d) /\ SameGates(s, d)
      /\ d.slot = s.slot /\ d.action = s.action /\ d.ended = s.ended
      /\ d.results = s.results /\ d.deferred = rest
      /\ d.stage = s.stage /\ d.age = s.age
  BY <1>3 DEF Systems, SameBuild, SameQueue, SameGates
<1> HIDE DEF d, rs, m, p
<1>6. /\ t \in Systems /\ SameBuild(d, t) /\ SameQueue(d, t)
      /\ t.slot = d.slot /\ t.action = d.action /\ t.ended = d.ended
      /\ t.results = rs /\ t.deferred = d.deferred
      /\ t.motion = m /\ t.stop = p
      /\ t.stage = d.stage /\ t.age = d.age
  BY <1>4, <1>5 DEF Systems, SameBuild, SameQueue
<1>7. Flush(s) = t
  <2>1. Flush(s) = SubmitResults(d, moved)
    BY DEF Flush, d, moved, rest, n, room
  <2>2. /\ d.results \o moved = rs
        /\ (IF Opens(moved, "oneshot", d.motion) THEN 0 ELSE d.motion) = m
        /\ (IF Opens(moved, "stop", d.stop) THEN 0 ELSE d.stop) = p
    BY <1>5 DEF rs, m, p, SameGates
  <2> QED
    BY <2>1, <2>2 DEF SubmitResults
<1> HIDE DEF t
<1>8. Flushed(s, t, n)
  BY <1>5, <1>6
  DEF Flushed, SameBuild, SameQueue, SameGates, rs, m, p, moved, rest
<1> QED
  BY <1>2, <1>4, <1>5, <1>6, <1>7, <1>8

\* Moving terminals from one store to the other keeps the invariant.
LEMMA FlushedKeeps ==
  ASSUME NEW calm, NEW s, NEW t, NEW p, NEW h, NEW rq,
         CInv(calm, s, p, h, rq),
         NEW n \in 0..Len(s.deferred), Flushed(s, t, n),
         Len(t.results) <= ResultCapacity
  PROVE  CInv(calm, t, p, h, rq)
<1> DEFINE moved == SubSeq(s.deferred, 1, n)
           rest == SubSeq(s.deferred, n + 1, Len(s.deferred))
<1> HIDE DEF moved, rest
<1>1. /\ s \in Systems /\ t \in Systems
      /\ s.results \in Seq(Results) /\ s.deferred \in Seq(Results)
      /\ n \in Nat /\ n <= Len(s.deferred) /\ Len(s.deferred) \in Nat
  BY SystemFields DEF CInv, Typed, Flushed
<1>2. moved \in Seq(Results) /\ rest \in Seq(Results)
      /\ s.deferred = moved \o rest
  <2>1. \A a \in Seq(Results) : \A k \in 0..Len(a) :
          /\ SubSeq(a, 1, k) \in Seq(Results)
          /\ SubSeq(a, k + 1, Len(a)) \in Seq(Results)
          /\ a = SubSeq(a, 1, k) \o SubSeq(a, k + 1, Len(a))
    BY CutIsWhole
  <2> QED
    BY <1>1, <2>1 DEF moved, rest
<1>3. /\ SameBuild(s, t) /\ SameQueue(s, t)
      /\ t.slot = s.slot /\ t.action = s.action /\ t.ended = s.ended
      /\ t.results = s.results \o moved /\ t.deferred = rest
      /\ t.motion = (IF Opens(moved, "oneshot", s.motion) THEN 0 ELSE s.motion)
      /\ t.stop = (IF Opens(moved, "stop", s.stop) THEN 0 ELSE s.stop)
  BY DEF Flushed, moved, rest
<1>4. \A i : Holds(s.deferred, i) <=> Holds(moved, i) \/ Holds(rest, i)
  BY <1>1, HoldsCut DEF moved, rest
<1>5. \A i : Holds(t.results, i) <=> Holds(s.results, i) \/ Holds(moved, i)
  <2>1. \A a, b \in Seq(Results) : \A i :
          Holds(a \o b, i) <=> Holds(a, i) \/ Holds(b, i)
    BY HoldsConcat
  <2> QED
    BY <1>1, <1>2, <1>3, <2>1
<1>6. Typed(t, p, h, rq)
  BY <1>1 DEF CInv, Typed
<1>7. Distinct(t, p, h)
  BY <1>3 DEF CInv, Distinct, SameQueue
<1>8. Finished(t, p, h)
  BY <1>3, <1>4, <1>5 DEF CInv, Finished, SameQueue
<1>9. Ordered(t)
  <2>1. t.results \o t.deferred = s.results \o s.deferred
    <3>1. \A a, b, c \in Seq(Results) : (a \o b) \o c = a \o (b \o c)
      BY ConcatAssociative, SMTT(30)
    <3>2. t.results \o t.deferred = (s.results \o moved) \o rest
      BY <1>3
    <3>3. (s.results \o moved) \o rest = s.results \o (moved \o rest)
      BY <1>1, <1>2, <3>1
    <3> QED
      BY <1>2, <3>2, <3>3
  <2> QED
    BY <1>3, <2>1 DEF CInv, Ordered
<1>10. \A x \in DOMAIN moved : \E y \in DOMAIN s.deferred :
         s.deferred[y] = moved[x]
  BY <1>1 DEF moved
<1>11. \A x \in DOMAIN rest : \E y \in DOMAIN s.deferred :
         s.deferred[y] = rest[x]
  <2>1. \A x \in DOMAIN rest : x + n \in DOMAIN s.deferred
                               /\ s.deferred[x + n] = rest[x]
    BY <1>1 DEF rest
  <2> QED
    BY <2>1
<1>12. \A x \in DOMAIN t.results :
         \/ \E y \in DOMAIN s.results : s.results[y] = t.results[x]
         \/ \E y \in DOMAIN s.deferred : s.deferred[y] = t.results[x]
  <2>1. \A a, b \in Seq(Results) : \A x \in DOMAIN (a \o b) :
          \/ x \in DOMAIN a /\ (a \o b)[x] = a[x]
          \/ x - Len(a) \in DOMAIN b /\ (a \o b)[x] = b[x - Len(a)]
    OBVIOUS
  <2> QED
    <3>1. \A x \in DOMAIN (s.results \o moved) :
            \/ \E y \in DOMAIN s.results :
                 s.results[y] = (s.results \o moved)[x]
            \/ \E y \in DOMAIN moved : moved[y] = (s.results \o moved)[x]
      BY <1>1, <1>2, <2>1
    <3> QED
      BY <1>3, <1>10, <3>1, SMTT(30)
<1>13. Named(t, p, h, rq)
  <2>1. \A rs \in {t.results, t.deferred, t.ended} : \A x \in DOMAIN rs :
          (rs[x].id = 0 /\ rs[x].kind = "plain") \/ Known(rs[x], rq)
    <3>1. \A rs \in {s.results, s.deferred, s.ended} : \A x \in DOMAIN rs :
            (rs[x].id = 0 /\ rs[x].kind = "plain") \/ Known(rs[x], rq)
      BY DEF CInv, Named
    <3>2. \A x \in DOMAIN t.results :
            (t.results[x].id = 0 /\ t.results[x].kind = "plain")
              \/ Known(t.results[x], rq)
      BY <1>12, <3>1
    <3>3. \A x \in DOMAIN rest :
            (rest[x].id = 0 /\ rest[x].kind = "plain") \/ Known(rest[x], rq)
      BY <1>11, <3>1
    <3> QED
      BY <1>3, <3>1, <3>2, <3>3
  <2> QED
    BY <1>3, <2>1 DEF CInv, Named, KindOf, SameQueue
<1>14. \A i \in Nat \ {0} : Holds(s.deferred, i) =>
         /\ i \notin {p.id, h.id, s.slot.id, s.action.id}
         /\ \A k \in DOMAIN s.cmds : s.cmds[k].id = i => i = s.tomb
  BY DEF CInv, Finished
<1>15. \A kind : \A i : Opens(moved, kind, i) => Holds(s.deferred, i)
  BY <1>4 DEF Opens, Holds
<1>16. s.stop # 0 /\ Holds(moved, s.stop) => t.stop = 0
  <2>1. ASSUME NEW x \in DOMAIN moved, moved[x].id = s.stop, s.stop # 0
        PROVE  moved[x].kind = "stop"
    <3>1. Known(moved[x], rq) /\ rq[s.stop].kind = "stop"
      BY <1>10, <2>1 DEF CInv, Named, KindOf
    <3> QED
      BY <2>1, <3>1 DEF Known
  <2> QED
    BY <1>3, <2>1 DEF Holds, Opens
<1>17. Gated(t, p, h)
  <2>1. s.motion \in Nat /\ s.stop \in Nat
    BY <1>1, SystemFields
  <2>2. /\ t.motion # s.motion =>
             t.motion = 0 /\ s.motion # 0 /\ Holds(s.deferred, s.motion)
        /\ t.stop # s.stop =>
             t.stop = 0 /\ s.stop # 0 /\ Holds(s.deferred, s.stop)
    BY <1>3, <1>15
  <2>3. t.slot = NoCommand \/ t.stop = t.slot.id
    BY <1>3, <1>14, <2>1, <2>2 DEF CInv, Gated
  <2>4. p.kind = "stop" => t.slot = NoCommand /\ t.stop = p.id
    BY <1>3, <1>14, <2>1, <2>2 DEF CInv, Gated
  <2>5. t.stop # 0 => \/ t.stop \in {p.id, h.id, t.slot.id, t.action.id}
                      \/ Holds(t.deferred, t.stop)
    BY <1>3, <1>4, <1>16 DEF CInv, Gated
  <2>6. OwnsMotion(p) => t.motion = p.id
    BY <1>14, <2>1, <2>2 DEF CInv, Gated
  <2>7. \A k \in DOMAIN t.cmds :
          OwnsMotion(t.cmds[k]) => t.cmds[k].id \in {t.motion, t.tomb}
    BY <1>3, <1>14, <2>1, <2>2 DEF CInv, Gated, SameQueue
  <2> QED
    BY <2>3, <2>4, <2>5, <2>6, <2>7 DEF Gated
<1>18. ASSUME calm
       PROVE  Kept(t, p, h, rq)
  <2>1. Kept(s, p, h, rq)
    BY <1>18 DEF CInv
  <2>2. \A i : RunnableIn(s, p, h, i) <=> RunnableIn(t, p, h, i)
    BY <1>3 DEF RunnableIn, SameQueue
  <2>3. \A i \in DOMAIN rq : rq[i].status = "accepted" =>
          \/ RunnableIn(t, p, h, i)
          \/ Holds(t.results, i) \/ Holds(t.deferred, i)
    BY <1>3, <1>4, <1>5, <2>1, <2>2 DEF Kept
  <2>4. \A i, k : OfSession(s.results, i, k) /\ OfSession(s.deferred, i, k) =>
                    OfSession(t.results, i, k) /\ OfSession(rest, i, k)
    <3>1. ASSUME NEW i, NEW k,
                 OfSession(s.results, i, k), OfSession(s.deferred, i, k)
          PROVE  OfSession(t.results, i, k)
      BY <1>12, <3>1 DEF OfSession
    <3>2. ASSUME NEW i, NEW k, OfSession(s.deferred, i, k)
          PROVE  OfSession(rest, i, k)
      BY <1>11, <3>2 DEF OfSession
    <3> QED
      BY <3>1, <3>2
  <2>5. t.motion # 0 => t.motion = s.motion
    BY <1>3
  <2>6. t.motion # 0 /\ Holds(moved, t.motion) => ~s.bench
    <3>1. ASSUME t.motion # 0, NEW x \in DOMAIN moved, moved[x].id = t.motion
          PROVE  ~s.bench
      <4>1. moved[x].kind # "oneshot"
        BY <1>3, <3>1, <2>5 DEF Opens
      <4>2. Known(moved[x], rq) /\ rq[s.motion].kind \in {"oneshot", "movej"}
        BY <1>10, <3>1, <2>5 DEF CInv, Named, KindOf
      <4> QED
        BY <2>1, <2>5, <3>1, <4>1, <4>2 DEF Known, Kept, KindsOf
    <3> QED
      BY <3>1 DEF Holds
  <2>7. Backed(t, p, h)
    BY <1>3, <1>4, <1>5, <2>1, <2>2, <2>4, <2>5, <2>6
    DEF Kept, Backed, SameBuild, SameQueue
  <2> QED
    BY <1>3, <2>1, <2>3, <2>7 DEF Kept, KindsOf, SameBuild
<1> QED
  BY <1>6, <1>7, <1>8, <1>9, <1>13, <1>17, <1>18 DEF CInv

\* The flush that opens every service call.
LEMMA FlushKeeps ==
  ASSUME NEW calm, NEW s, NEW p, NEW h, NEW rq,
         CInv(calm, s, p, h, rq)
  PROVE  CInv(calm, Flush(s), p, h, rq)
<1>1. s \in Systems /\ Len(s.results) <= ResultCapacity
  BY DEF CInv, Typed, Ordered
<1>2. PICK n \in 0..Len(s.deferred) : Flushed(s, Flush(s), n)
  BY <1>1, FlushEffect
<1>3. Len(Flush(s).results) <= ResultCapacity
  BY <1>1, FlushEffect
<1> QED
  BY <1>2, <1>3, FlushedKeeps

\* The terminal of a command bears its identifier, kind and session.
LEMMA ResultType ==
  ASSUME NEW c \in Commands, NEW code \in Codes
  PROVE  /\ Result(c, code) \in Results
         /\ Result(c, code).id = c.id /\ Result(c, code).kind = c.kind
         /\ Result(c, code).session = c.session
  BY DEF Commands, Results, Result

\* A terminal may find no room: after a fault, the motion that was cancelled in
\* the queue is then gone without one, but no STOP ever is.
LEMMA HandDropped ==
  ASSUME NEW calm, NEW s, NEW p, NEW h, NEW rq,
         CInv(calm, s, p, h, rq), h.kind # "stop",
         calm => h = NoCommand
  PROVE  CInv(calm, s, p, NoCommand, rq)
<1> USE NoCommandType
<1>1. Typed(s, p, NoCommand, rq)
  BY DEF CInv, Typed
<1>2. Named(s, p, NoCommand, rq)
  BY DEF CInv, Named
<1>3. Distinct(s, p, NoCommand)
  BY QueuedId DEF CInv, Distinct
<1>4. Finished(s, p, NoCommand)
  BY DEF CInv, Finished
<1>5. s.stop # 0 => s.stop # h.id
  BY DEF CInv, Named, Known, KindOf
<1>6. Gated(s, p, NoCommand)
  BY <1>5 DEF CInv, Gated
<1>7. calm => Kept(s, p, NoCommand, rq)
  BY DEF CInv
<1> QED
  BY <1>1, <1>2, <1>3, <1>4, <1>6, <1>7 DEF CInv

\* Storing the terminal of what is in the hand keeps the invariant, room or not.
LEMMA StoreKeeps ==
  ASSUME NEW calm, NEW s, NEW p, NEW h, NEW rq, NEW r \in Results,
         CInv(calm, s, p, h, rq),
         r.id = h.id, r.kind = h.kind, r.id # 0 => r.session = h.session,
         CanStore(s) \/ (h.kind # "stop" /\ (calm => h = NoCommand))
  PROVE  CInv(calm, Store(s, r), p, NoCommand, rq)
<1>1. s \in Systems
  BY DEF CInv, Typed
<1>2. CASE CanStore(s)
  <2>1. Stored(s, Store(s, r), r)
    BY <1>1, <1>2, StoreEffect
  <2> QED
    BY <2>1, HandStored
<1>3. CASE ~CanStore(s)
  <2>1. Store(s, r) = s
    BY <1>3 DEF Store
  <2> QED
    BY <1>3, <2>1, HandDropped
<1> QED
  BY <1>2, <1>3

\* What Activate changes.
LEMMA ActivateEffect ==
  ASSUME NEW s \in Systems, NEW c \in Commands
  PROVE  LET t == Activate(s, c) IN
         /\ t \in Systems /\ SameBuild(s, t) /\ SameQueue(s, t)
         /\ SameGates(s, t) /\ SameStores(s, t)
         /\ t.slot = s.slot /\ t.action = c
  BY DEF Activate, Systems, SameBuild, SameQueue, SameGates, SameStores

\* What widening the STOP that waits changes.
LEMMA WidenEffect ==
  ASSUME NEW s \in Systems, NEW mask \in SUBSET Motors,
         s.slot = NoCommand \/ s.slot.id # 0
  PROVE  LET t == WidenPendingStop(s, mask) IN
         /\ t \in Systems /\ SameBuild(s, t) /\ SameQueue(s, t)
         /\ SameGates(s, t) /\ SameStores(s, t)
         /\ SameCommand(s.slot, t.slot) /\ t.action = s.action
         /\ t.stage = s.stage /\ t.age = s.age
<1>1. CASE ~StopPending(s)
  BY <1>1, SystemFields
  DEF WidenPendingStop, SameBuild, SameQueue, SameGates, SameStores, SameCommand
<1>2. CASE StopPending(s)
  <2> DEFINE c == [s.slot EXCEPT !.mask = @ \cup mask]
             t == [s EXCEPT !.slot = c]
  <2>1. WidenPendingStop(s, mask) = t
    BY <1>2, SystemFields DEF WidenPendingStop, Systems
  <2>2. c \in Commands /\ c.id = s.slot.id /\ c.kind = s.slot.kind
        /\ c.session = s.slot.session
    BY SystemFields DEF Commands
  <2> HIDE DEF c
  <2>3. SameCommand(s.slot, c)
    BY <1>2, <2>2, NoCommandType DEF SameCommand, StopPending
  <2>4. /\ t \in Systems /\ SameBuild(s, t) /\ SameQueue(s, t)
        /\ SameGates(s, t) /\ SameStores(s, t)
        /\ t.slot = c /\ t.action = s.action
        /\ t.stage = s.stage /\ t.age = s.age
    BY <2>2 DEF Systems, SameBuild, SameQueue, SameGates, SameStores
  <2> QED
    BY <2>1, <2>3, <2>4
<1> QED
  BY <1>1, <1>2

\* A STOP in the slot has an identifier.
LEMMA SlotId ==
  ASSUME NEW calm, NEW s, NEW p, NEW h, NEW rq,
         CInv(calm, s, p, h, rq)
  PROVE  s.slot = NoCommand \/ s.slot.id # 0
  BY DEF CInv, Named, Typed, Known

\* A command is the same command as itself.
LEMMA SameCommandItself ==
  ASSUME NEW c \in Commands
  PROVE  SameCommand(c, c)
  BY DEF SameCommand

\* Widening touches nothing but the mask of the STOP that waits.
LEMMA WidenKeeps ==
  ASSUME NEW calm, NEW s, NEW p, NEW h, NEW rq,
         CInv(calm, s, p, h, rq),
         NEW mask \in SUBSET Motors
  PROVE  CInv(calm, WidenPendingStop(s, mask), p, h, rq)
<1>1. s \in Systems /\ s.action \in Commands
  BY SystemFields DEF CInv, Typed
<1> QED
  BY <1>1, SlotId, WidenEffect, Rescoped, SameCommandItself

\* What holds before the first fault holds without that knowledge.
LEMMA Weaker ==
  ASSUME NEW calm, NEW less, NEW s, NEW p, NEW h, NEW rq,
         CInv(calm, s, p, h, rq), less => calm
  PROVE  CInv(less, s, p, h, rq)
  BY DEF CInv

\* Completing stores the terminal of the action, or waits for room.
LEMMA CompleteEffect ==
  ASSUME NEW s \in Systems, NEW code \in Codes
  PROVE  LET t == Complete(s, code) IN
         /\ t \in Systems /\ SameBuild(s, t) /\ SameQueue(s, t)
         /\ t.slot = s.slot
         /\ CanStore(s) => /\ t.action = NoCommand
                           /\ Stored(Activate(s, NoCommand), t,
                                     Result(s.action, code))
         /\ ~CanStore(s) => t = s
<1> DEFINE r == Result(s.action, code)
           u == Store(s, r)
<1>1. r \in Results
  BY SystemFields, ResultType
<1> HIDE DEF r
<1>2. CASE CanStore(s)
  <2>1. Complete(s, code) = Activate(u, NoCommand)
    BY <1>2 DEF Complete, r
  <2>2. Stored(s, u, r)
    BY <1>1, <1>2, StoreEffect
  <2> HIDE DEF u
  <2>3. u \in Systems
    BY <2>2 DEF Stored
  <2> DEFINE t == Activate(u, NoCommand)
             v == Activate(s, NoCommand)
  <2>4. /\ t \in Systems /\ SameBuild(u, t) /\ SameQueue(u, t)
        /\ SameGates(u, t) /\ SameStores(u, t)
        /\ t.slot = u.slot /\ t.action = NoCommand
    BY <2>3, ActivateEffect, NoCommandType
  <2>5. /\ v \in Systems /\ SameBuild(s, v) /\ SameQueue(s, v)
        /\ SameGates(s, v) /\ SameStores(s, v)
        /\ v.slot = s.slot /\ v.action = NoCommand
    BY ActivateEffect, NoCommandType
  <2> HIDE DEF t, v
  <2>6. Stored(v, t, r)
    BY <2>2, <2>4, <2>5
    DEF Stored, SameBuild, SameQueue, SameGates, SameStores, ResultRoom
  <2>7. SameBuild(s, t) /\ SameQueue(s, t) /\ t.slot = s.slot
    BY <2>2, <2>4 DEF Stored, SameBuild, SameQueue
  <2> QED
    BY <1>2, <2>1, <2>4, <2>6, <2>7 DEF t, v, r
<1>3. CASE ~CanStore(s)
  BY <1>3 DEF Complete, SameBuild, SameQueue
<1> QED
  BY <1>2, <1>3

\* An action ends; without room for its terminal it goes on.
LEMMA CompleteKeeps ==
  ASSUME NEW calm, NEW s, NEW p, NEW rq, CInv(calm, s, p, NoCommand, rq),
         NEW code \in Codes
  PROVE  CInv(calm, Complete(s, code), p, NoCommand, rq)
<1>1. s \in Systems /\ s.action \in Commands
  BY SystemFields DEF CInv, Typed
<1>2. CASE CanStore(s)
  <2> DEFINE u == Activate(s, NoCommand)
             t == Complete(s, code)
             r == Result(s.action, code)
  <2>1. Stored(u, t, r)
    BY <1>1, <1>2, CompleteEffect
  <2>2. /\ u \in Systems /\ SameBuild(s, u) /\ SameQueue(s, u)
        /\ SameGates(s, u) /\ SameStores(s, u)
        /\ u.slot = s.slot /\ u.action = NoCommand
    BY <1>1, ActivateEffect, NoCommandType
  <2>3. /\ r.id = s.action.id /\ r.kind = s.action.kind
        /\ r.session = s.action.session
    BY <1>1, ResultType
  <2> HIDE DEF u, t, r
  <2>4. CInv(calm, u, p, s.action, rq)
    BY <2>2, ActionInHand
  <2>5. CInv(calm, t, p, NoCommand, rq)
    BY <2>1, <2>3, <2>4, HandStored
  <2> QED
    BY <2>5 DEF t
<1>3. CASE ~CanStore(s)
  BY <1>1, <1>3, CompleteEffect
<1> QED
  BY <1>2, <1>3

\* What taking the STOP out of its slot changes.
LEMMA PopStopEffect ==
  ASSUME NEW s \in Systems
  PROVE  LET t == PopStop(s) IN
         /\ t \in Systems /\ SameBuild(s, t) /\ SameQueue(s, t)
         /\ SameGates(s, t) /\ SameStores(s, t)
         /\ t.slot = NoCommand /\ t.action = s.action
  BY NoCommandType
  DEF PopStop, Systems, SameBuild, SameQueue, SameGates, SameStores

\* What taking the head of the queue changes.
LEMMA PopCommandEffect ==
  ASSUME NEW s \in Systems, s.cmds # <<>>
  PROVE  LET t == PopCommand(s) IN
         /\ t \in Systems /\ SameBuild(s, t)
         /\ SameGates(s, t) /\ SameStores(s, t)
         /\ t.cmds = Tail(s.cmds) /\ t.tomb = s.tomb
         /\ t.slot = s.slot /\ t.action = s.action
<1> DEFINE q == Tail(s.cmds)
<1>1. q \in Seq(Commands)
  <2>1. s.cmds \in Seq(Commands)
    BY SystemFields
  <2> QED
    BY <2>1
<1>2. PopCommand(s) = [s EXCEPT !.cmds = q]
  BY DEF PopCommand
<1> HIDE DEF q
<1> QED
  BY <1>1, <1>2 DEF Systems, SameBuild, SameGates, SameStores, q

\* What taking the queued motion back changes.
LEMMA TakeEffect ==
  ASSUME NEW s \in Systems
  PROVE  LET t == TakeQueuedMotion(s) IN
         /\ t \in Systems /\ SameBuild(s, t)
         /\ SameGates(s, t) /\ SameStores(s, t)
         /\ t.cmds = s.cmds /\ t.tomb = s.motion
         /\ t.slot = s.slot /\ t.action = s.action
  BY DEF TakeQueuedMotion, Systems, SameBuild, SameGates, SameStores

\* The STOP leaves its slot and becomes the action.
LEMMA StopStarted ==
  ASSUME NEW calm, NEW s, NEW t \in Systems, NEW p, NEW rq,
         CInv(calm, s, p, NoCommand, rq), s.action = NoCommand,
         s.slot # NoCommand,
         SameBuild(s, t), SameQueue(s, t), SameGates(s, t), SameStores(s, t),
         t.slot = NoCommand, SameCommand(s.slot, t.action)
  PROVE  CInv(calm, t, p, NoCommand, rq)
<1> DEFINE u == PopStop(s)
<1>1. s \in Systems
  BY DEF CInv, Typed
<1>2. /\ u \in Systems /\ SameBuild(s, u) /\ SameQueue(s, u)
      /\ SameGates(s, u) /\ SameStores(s, u)
      /\ u.slot = NoCommand /\ u.action = s.action
  BY <1>1, PopStopEffect
<1> HIDE DEF u
<1>3. CInv(calm, u, p, s.slot, rq)
  BY <1>2, StopInHand
<1>4. \A n \in DOMAIN u.cmds : u.cmds[n].id # s.slot.id
  BY <1>2 DEF CInv, Distinct, SameQueue
<1>5. SameBuild(u, t) /\ SameQueue(u, t) /\ SameGates(u, t) /\ SameStores(u, t)
  BY <1>2 DEF SameBuild, SameQueue, SameGates, SameStores
<1> QED
  BY <1>2, <1>3, <1>4, <1>5, HandActivated

\* An ordinary command leaves the queue and starts, or ends at once.
LEMMA CommandStarted ==
  ASSUME NEW calm, NEW s, NEW p, NEW rq, CInv(calm, s, p, NoCommand, rq),
         s.action = NoCommand, s.cmds # <<>>, ~Tombstoned(s, Head(s.cmds)),
         DeferredRoom(s), NEW t \in Start(PopCommand(s), Head(s.cmds))
  PROVE  CInv(calm, t, p, NoCommand, rq)
<1> DEFINE u == PopCommand(s)
           c == Head(s.cmds)
<1>1. /\ s \in Systems /\ s.cmds \in Seq(Commands) /\ c \in Commands
      /\ c = s.cmds[1] /\ 1 \in DOMAIN s.cmds
      /\ \A n \in DOMAIN Tail(s.cmds) : /\ n + 1 \in DOMAIN s.cmds /\ n + 1 # 1
                                        /\ Tail(s.cmds)[n] = s.cmds[n + 1]
  <2>1. s \in Systems /\ s.cmds \in Seq(Commands)
    BY SystemFields DEF CInv, Typed
  <2> QED
    BY <2>1
<1>2. /\ u \in Systems /\ SameBuild(s, u) /\ SameGates(s, u)
      /\ SameStores(s, u) /\ u.cmds = Tail(s.cmds) /\ u.tomb = s.tomb
      /\ u.slot = s.slot /\ u.action = s.action
  BY <1>1, PopCommandEffect
<1>3. CInv(calm, u, p, c, rq)
  BY <1>2, CommandInHand
<1>4. c.kind # "stop"
  BY <1>1 DEF CInv, Named
<1>5. \/ t = Activate(u, c)
      \/ \E code \in Codes : t = Store(u, Result(c, code))
  BY <1>4 DEF Start, Codes
<1> HIDE DEF u, c
<1>6. CASE t = Activate(u, c)
  <2>1. /\ t \in Systems /\ SameBuild(u, t) /\ SameQueue(u, t)
        /\ SameGates(u, t) /\ SameStores(u, t)
        /\ t.slot = u.slot /\ t.action = c
    BY <1>1, <1>2, <1>6, ActivateEffect
  <2>2. \A n \in DOMAIN u.cmds : u.cmds[n].id # c.id
    BY <1>1, <1>2 DEF CInv, Distinct
  <2>3. SameCommand(c, t.action)
    BY <1>1, <2>1, SameCommandItself
  <2> QED
    BY <1>2, <1>3, <2>1, <2>2, <2>3, HandActivated
<1>7. CASE \E code \in Codes : t = Store(u, Result(c, code))
  <2>1. PICK code \in Codes : t = Store(u, Result(c, code))
    BY <1>7
  <2>2. CanStore(u)
    BY <1>2 DEF CanStore, DeferredRoom, SameStores
  <2> DEFINE r == Result(c, code)
  <2>3. /\ r \in Results /\ r.id = c.id /\ r.kind = c.kind
        /\ r.session = c.session
    BY <1>1, ResultType
  <2> HIDE DEF r
  <2>4. CInv(calm, Store(u, r), p, NoCommand, rq)
    BY <1>3, <2>2, <2>3, StoreKeeps
  <2> QED
    BY <2>1, <2>4 DEF r
<1> QED
  BY <1>5, <1>6, <1>7

\* The tombstoned head is discarded together with its tombstone.
LEMMA SkipKeeps ==
  ASSUME NEW calm, NEW s, NEW p, NEW rq, CInv(calm, s, p, NoCommand, rq)
  PROVE  LET t == SkipTombstone(s) IN
         /\ CInv(calm, t, p, NoCommand, rq)
         /\ t.action = s.action /\ t.deferred = s.deferred
         /\ t.cmds # <<>> => ~Tombstoned(t, Head(t.cmds))
<1> DEFINE t == SkipTombstone(s)
           q == Tail(s.cmds)
<1> USE NoCommandType
<1>1. s \in Systems /\ s.cmds \in Seq(Commands) /\ s.tomb \in Nat
  BY SystemFields DEF CInv, Typed
<1>2. CASE ~(s.cmds # <<>> /\ Tombstoned(s, Head(s.cmds)))
  BY <1>2 DEF SkipTombstone
<1>3. CASE s.cmds # <<>> /\ Tombstoned(s, Head(s.cmds))
  <2>1. /\ q \in Seq(Commands)
        /\ Head(s.cmds) = s.cmds[1] /\ 1 \in DOMAIN s.cmds
        /\ \A n \in DOMAIN q : /\ n + 1 \in DOMAIN s.cmds /\ n + 1 # 1
                               /\ q[n] = s.cmds[n + 1]
        /\ \A n \in DOMAIN s.cmds :
             n = 1 \/ (n - 1 \in DOMAIN q /\ s.cmds[n] = q[n - 1])
        /\ q # <<>> => Head(q) = q[1] /\ 1 \in DOMAIN q
    BY <1>1, <1>3
  <2>2. t = [s EXCEPT !.cmds = q, !.tomb = 0]
    BY <1>3 DEF SkipTombstone
  <2> HIDE DEF t, q
  <2>3. /\ t \in Systems /\ SameBuild(s, t) /\ SameGates(s, t)
        /\ SameStores(s, t) /\ t.cmds = q /\ t.tomb = 0
        /\ t.slot = s.slot /\ t.action = s.action
    BY <1>1, <2>1, <2>2 DEF Systems, SameBuild, SameGates, SameStores
  <2>4. s.cmds[1].id = s.tomb
    BY <1>3, <2>1 DEF Tombstoned
  <2>5. \A n \in DOMAIN q : q[n].id # s.tomb /\ q[n].id # 0
    BY <2>1, <2>4, QueuedId DEF CInv, Distinct
  <2>6. Typed(t, p, NoCommand, rq)
    BY <2>3 DEF CInv, Typed
  <2>7. Named(t, p, NoCommand, rq)
    BY <2>1, <2>3 DEF CInv, Named, KindOf, SameGates, SameStores
  <2>8. Distinct(t, p, NoCommand)
    BY <2>1, <2>3, <2>5 DEF CInv, Distinct
  <2>9. Finished(t, p, NoCommand)
    BY <2>1, <2>3, <2>5 DEF CInv, Finished, SameStores
  <2>10. Gated(t, p, NoCommand)
    BY <2>1, <2>3, <2>5 DEF CInv, Gated, SameGates, SameStores
  <2>11. ASSUME calm
         PROVE  Kept(t, p, NoCommand, rq)
    <3>1. \A i : i # 0 /\ RunnableIn(s, p, NoCommand, i) =>
                 RunnableIn(t, p, NoCommand, i)
      BY <2>1, <2>3, <2>4 DEF RunnableIn
    <3>2. OfSession(s.cmds, s.motion, s.session) =>
            OfSession(t.cmds, s.motion, s.session)
      BY <2>1, <2>3 DEF OfSession
    <3>3. \A i \in DOMAIN rq : i # 0
      BY DEF CInv, Typed
    <3> QED
      BY <2>3, <2>11, <3>1, <3>2, <3>3
      DEF CInv, Kept, Backed, KindsOf, SameBuild, SameGates, SameStores
  <2>12. t.cmds # <<>> => ~Tombstoned(t, Head(t.cmds))
    BY <2>1, <2>3, <2>5 DEF Tombstoned
  <2> QED
    BY <2>3, <2>6, <2>7, <2>8, <2>9, <2>10, <2>11, <2>12
    DEF CInv, Ordered, SameStores, t
<1> QED
  BY <1>2, <1>3

\* A fault discards the queue; the STOP slot and the gates are left alone.
LEMMA DiscardKeeps ==
  ASSUME NEW calm, NEW s, NEW p, NEW rq, CInv(calm, s, p, NoCommand, rq), ~calm
  PROVE  CInv(calm, CancelPendingNormal(s), p, NoCommand, rq)
<1> DEFINE t == CancelPendingNormal(s)
<1>1. s \in Systems /\ <<>> \in Seq(Commands)
  BY DEF CInv, Typed
<1>2. /\ t \in Systems /\ SameBuild(s, t) /\ SameGates(s, t)
      /\ SameStores(s, t) /\ t.cmds = <<>> /\ t.tomb = 0
      /\ t.slot = s.slot /\ t.action = s.action
  BY <1>1 DEF CancelPendingNormal, Systems, SameBuild, SameGates, SameStores
<1> HIDE DEF t
<1>3. Typed(t, p, NoCommand, rq)
  BY <1>2 DEF CInv, Typed
<1>4. Named(t, p, NoCommand, rq)
  BY <1>2 DEF CInv, Named, KindOf, SameGates, SameStores
<1>5. Distinct(t, p, NoCommand)
  BY <1>2 DEF CInv, Distinct
<1>6. Finished(t, p, NoCommand)
  BY <1>2 DEF CInv, Finished, SameStores
<1>7. Gated(t, p, NoCommand)
  BY <1>2 DEF CInv, Gated, SameGates, SameStores
<1>8. CInv(calm, t, p, NoCommand, rq)
  BY <1>2, <1>3, <1>4, <1>5, <1>6, <1>7 DEF CInv, Ordered, SameStores
<1> QED
  BY <1>8 DEF t

\* The queued motion is taken back: it is tombstoned, and its terminal stored,
\* or, after a fault and with every store full, lost.
LEMMA TakenBack ==
  ASSUME NEW calm, NEW s, NEW p, NEW rq, CInv(calm, s, p, NoCommand, rq),
         CanTakeQueuedMotion(s), NEW mask \in SUBSET Motors,
         NEW code \in Codes, ~calm
  PROVE  CInv(calm, Store(WidenPendingStop(TakeQueuedMotion(s), mask),
                          Result(QueuedMotion(s), code)),
              p, NoCommand, rq)
<1> DEFINE c == QueuedMotion(s)
           u == TakeQueuedMotion(s)
           v == WidenPendingStop(u, mask)
           r == Result(c, code)
<1>1. s \in Systems
  BY DEF CInv, Typed
<1>2. CInv(calm, u, p, c, rq)
  BY <1>1, TakeEffect, MotionInHand
<1>3. c \in Commands /\ c.kind = "oneshot"
  <2>1. c \in QueuedMotions(s)
    BY DEF CanTakeQueuedMotion, QueuedMotion
  <2> HIDE DEF c
  <2> QED
    BY <2>1, QueuedId DEF QueuedMotions
<1> HIDE DEF c, u
<1>4. CInv(calm, v, p, c, rq)
  BY <1>2, WidenKeeps
<1>5. r \in Results /\ r.id = c.id /\ r.kind = c.kind /\ r.session = c.session
  BY <1>3, ResultType
<1> HIDE DEF v, r
<1>6. CInv(calm, Store(v, r), p, NoCommand, rq)
  BY <1>3, <1>4, <1>5, StoreKeeps
<1> QED
  BY <1>6 DEF c, u, v, r

\* The global cancellation of a fault keeps the invariant.
LEMMA GlobalCancelKeeps ==
  ASSUME NEW calm, NEW s, NEW p, NEW rq, CInv(calm, s, p, NoCommand, rq), ~calm,
         NEW code \in Codes
  PROVE  CInv(calm, GlobalCancel(s, code), p, NoCommand, rq)
<1> DEFINE widened == WidenPendingStop(s, s.action.mask)
           ended == IF Idle(s) THEN widened ELSE Complete(widened, code)
           failed == FailQueuedMotion(ended)
<1>1. s \in Systems /\ s.action.mask \in SUBSET Motors
  <2>1. s \in Systems /\ s.action \in Commands
    BY SystemFields DEF CInv, Typed
  <2> QED
    BY <2>1 DEF Commands
<1>2. CInv(calm, widened, p, NoCommand, rq)
  BY <1>1, WidenKeeps
<1> HIDE DEF widened
<1>3. CInv(calm, ended, p, NoCommand, rq)
  BY <1>2, CompleteKeeps
<1> HIDE DEF ended
<1>4. CInv(calm, failed, p, NoCommand, rq)
  <2>1. CASE ~CanTakeQueuedMotion(ended)
    BY <1>3, <2>1 DEF FailQueuedMotion
  <2>2. CASE CanTakeQueuedMotion(ended)
    <3> DEFINE c == QueuedMotion(ended)
    <3>1. c \in QueuedMotions(ended)
      BY <2>2 DEF CanTakeQueuedMotion, QueuedMotion
    <3> HIDE DEF c
    <3>2. c \in Commands
      BY <1>3, <3>1, QueuedId DEF QueuedMotions
    <3>3. c.mask \in SUBSET Motors
      BY <3>2 DEF Commands
    <3>4. "FAILED" \in Codes
      BY DEF Codes
    <3>5. failed = Store(WidenPendingStop(TakeQueuedMotion(ended), c.mask),
                         Result(QueuedMotion(ended), "FAILED"))
      BY <2>2 DEF FailQueuedMotion, c
    <3> QED
      BY <1>3, <2>2, <3>3, <3>4, <3>5, TakenBack
  <2> QED
    BY <2>1, <2>2
<1> HIDE DEF failed
<1>5. CInv(calm, CancelPendingNormal(failed), p, NoCommand, rq)
  BY <1>4, DiscardKeeps
<1> QED
  BY <1>5 DEF GlobalCancel, failed, ended, widened

\* The same with room for the terminal, as a STOP does that starts: nothing is
\* lost.
LEMMA TakenBackInTime ==
  ASSUME NEW calm, NEW s, NEW p, NEW rq, CInv(calm, s, p, NoCommand, rq),
         CanTakeQueuedMotion(s), DeferredRoom(s)
  PROVE  LET t == Store(TakeQueuedMotion(s), Result(QueuedMotion(s), "CANCELLED"))
         IN /\ CInv(calm, t, p, NoCommand, rq)
            /\ Stored(TakeQueuedMotion(s), t,
                      Result(QueuedMotion(s), "CANCELLED"))
            /\ QueuedMotion(s) \in Commands
<1> DEFINE c == QueuedMotion(s)
           u == TakeQueuedMotion(s)
           r == Result(c, "CANCELLED")
<1>1. s \in Systems
  BY DEF CInv, Typed
<1>2. CInv(calm, u, p, c, rq)
  BY <1>1, TakeEffect, MotionInHand
<1>3. c \in Commands
  <2>1. c \in QueuedMotions(s)
    BY DEF CanTakeQueuedMotion, QueuedMotion
  <2> HIDE DEF c
  <2> QED
    BY <2>1, QueuedId DEF QueuedMotions
<1>4. u \in Systems /\ CanStore(u)
  BY <1>1, TakeEffect DEF CanStore, DeferredRoom, SameStores
<1>5. "CANCELLED" \in Codes
  BY DEF Codes
<1> HIDE DEF c, u
<1>6. r \in Results /\ r.id = c.id /\ r.kind = c.kind /\ r.session = c.session
  BY <1>3, <1>5, ResultType
<1> HIDE DEF r
<1>7. Stored(u, Store(u, r), r)
  BY <1>4, <1>6, StoreEffect
<1>8. CInv(calm, Store(u, r), p, NoCommand, rq)
  BY <1>2, <1>6, <1>7, HandStored
<1> QED
  BY <1>3, <1>7, <1>8 DEF c, u, r
-----------------------------------------------------------------------------
(* ArmControlTask: the steps of a service call.                            *)

\* The service sees the system after the flush it begins with.
LEMMA NowKeeps ==
  ASSUME IInv
  PROVE  /\ CInv(faults = 0, now, pending, NoCommand, requests)
         /\ now \in Systems
<1>1. CInv(faults = 0, now, pending, NoCommand, requests)
  BY FlushKeeps DEF IInv, now
<1> QED
  BY <1>1 DEF CInv, Typed

\* What a step that keeps the requests has to show.
LEMMA KeepsIInv ==
  ASSUME IInv, Keep,
         CInv(faults = 0, sys', pending, NoCommand, requests)
  PROVE  IInv'
  BY DEF IInv, Keep

\* Stage and age of the action are no matter of the invariant.
LEMMA ClockKeeps ==
  ASSUME NEW calm, NEW s, NEW p, NEW h, NEW rq, CInv(calm, s, p, h, rq),
         NEW stage \in {"run", "cleanup"}, NEW age \in Nat
  PROVE  CInv(calm, [s EXCEPT !.stage = stage, !.age = age], p, h, rq)
<1> DEFINE t == [s EXCEPT !.stage = stage, !.age = age]
<1>1. s \in Systems /\ s.slot \in Commands /\ s.action \in Commands
  BY SystemFields DEF CInv, Typed
<1>2. /\ t \in Systems /\ SameBuild(s, t) /\ SameQueue(s, t)
      /\ SameGates(s, t) /\ SameStores(s, t)
      /\ t.slot = s.slot /\ t.action = s.action
  BY <1>1 DEF Systems, SameBuild, SameQueue, SameGates, SameStores
<1> HIDE DEF t
<1>3. CInv(calm, t, p, h, rq)
  BY <1>1, <1>2, SameCommandItself, Rescoped
<1> QED
  BY <1>3 DEF t

\* Each branch of aethor_app_service keeps the invariant: a drive that trips, ...
LEMMA SafetyTripStep ==
  ASSUME IInv, SafetyTrip
  PROVE  IInv'
<1>1. CASE sys' = [now EXCEPT !.stage = "cleanup", !.age = 0]
  BY <1>1, NowKeeps, ClockKeeps, KeepsIInv DEF SafetyTrip
<1>2. CASE sys' = Complete(now, "FAILED")
  <2>1. "FAILED" \in Codes
    BY DEF Codes
  <2> QED
    BY <1>2, <2>1, NowKeeps, CompleteKeeps, KeepsIInv DEF SafetyTrip
<1> QED
  BY <1>1, <1>2 DEF SafetyTrip

\* ... a fault of the whole arm, ...
LEMMA GlobalFaultStep ==
  ASSUME IInv, GlobalFault
  PROVE  IInv'
<1>1. /\ ~(faults' = 0) /\ faults' \in Nat
      /\ UNCHANGED <<pc, pending, requests>>
  BY DEF GlobalFault, Fault, IInv
<1>2. CInv(FALSE, now, pending, NoCommand, requests)
  BY NowKeeps, Weaker
<1>3. "FAILED" \in Codes
  BY DEF Codes
<1>4. CInv(FALSE, sys', pending, NoCommand, requests)
  BY <1>2, <1>3, GlobalCancelKeeps DEF GlobalFault
<1>5. CInv(faults' = 0, sys', pending, NoCommand, requests)
  BY <1>1, <1>4, Weaker
<1> QED
  BY <1>1, <1>5 DEF IInv

\* ... the link that timed out, ...
LEMMA WatchdogStep ==
  ASSUME IInv, Watchdog
  PROVE  IInv'
<1> DEFINE s == GlobalCancel(now, "CANCELLED")
<1>1. /\ ~(faults' = 0) /\ faults' \in Nat
      /\ UNCHANGED <<pc, pending, requests>>
  BY DEF Watchdog, Fault, IInv
<1>2. CInv(FALSE, now, pending, NoCommand, requests)
  BY NowKeeps, Weaker
<1>3. "CANCELLED" \in Codes
  BY DEF Codes
<1>4. CInv(FALSE, s, pending, NoCommand, requests)
  BY <1>2, <1>3, GlobalCancelKeeps
<1>5. LinkTimeout \in Results /\ LinkTimeout.id = 0 /\ LinkTimeout.kind = "plain"
  <2>1. sys.session \in Nat
    BY SystemFields DEF IInv, CInv, Typed
  <2> QED
    BY <2>1 DEF LinkTimeout, Results, Kinds, Codes
<1> HIDE DEF s
<1>6. CInv(FALSE, Store(s, LinkTimeout), pending, NoCommand, requests)
  BY <1>4, <1>5, NoCommandType, StoreKeeps
<1>7. sys' = Store(s, LinkTimeout)
  BY DEF Watchdog, s
<1>8. CInv(faults' = 0, sys', pending, NoCommand, requests)
  BY <1>1, <1>6, <1>7, Weaker
<1> QED
  BY <1>1, <1>8 DEF IInv

\* A STOP takes the place of the action, whose terminal is stored first; the
\* order of storing and popping makes no difference.
LEMMA StopPreemptsStep ==
  ASSUME IInv, StopPreempts
  PROVE  IInv'
<1> DEFINE s == now
           stop == [s.slot EXCEPT !.mask = @ \cup s.action.mask]
           x == Complete(s, "CANCELLED")
           w == Complete(PopStop(s), "CANCELLED")
           t == Activate(w, stop)
<1>1. /\ CInv(faults = 0, s, pending, NoCommand, requests) /\ s \in Systems
      /\ s.slot # NoCommand /\ DeferredRoom(s) /\ Keep
      /\ sys' \in Start(w, stop)
  BY NowKeeps DEF StopPreempts, StopReady, StopPending
<1> HIDE DEF s
<1>2. SameCommand(s.slot, stop) /\ stop.kind = "stop"
  <2>1. s.slot \in Commands /\ s.action \in Commands
    BY <1>1, SystemFields
  <2>2. s.slot.id # 0 /\ s.slot.kind = "stop"
    BY <1>1, SlotId DEF CInv, Named
  <2>3. stop \in Commands /\ stop.id = s.slot.id /\ stop.kind = s.slot.kind
        /\ stop.session = s.slot.session
    BY <2>1 DEF Commands
  <2> QED
    BY <1>1, <2>2, <2>3, NoCommandType DEF SameCommand
<1> HIDE DEF stop
<1>3. sys' = t
  BY <1>1, <1>2 DEF Start
<1>4. "CANCELLED" \in Codes
  BY DEF Codes
<1>5. CInv(faults = 0, x, pending, NoCommand, requests)
  BY <1>1, <1>4, CompleteKeeps
<1>6. CanStore(s) /\ CanStore(PopStop(s)) /\ PopStop(s) \in Systems
  BY <1>1, PopStopEffect DEF CanStore, DeferredRoom, SameStores
<1>7. /\ x.action = NoCommand /\ x.slot = s.slot
      /\ Stored(Activate(s, NoCommand), x, Result(s.action, "CANCELLED"))
  BY <1>1, <1>4, <1>6, CompleteEffect
<1>8. /\ w \in Systems /\ w.slot = PopStop(s).slot
      /\ Stored(Activate(PopStop(s), NoCommand), w,
                Result(PopStop(s).action, "CANCELLED"))
  BY <1>4, <1>6, CompleteEffect
<1>9. /\ SameBuild(s, PopStop(s)) /\ SameQueue(s, PopStop(s))
      /\ SameGates(s, PopStop(s)) /\ SameStores(s, PopStop(s))
      /\ PopStop(s).slot = NoCommand /\ PopStop(s).action = s.action
  BY <1>1, PopStopEffect
<1> DEFINE u == Activate(s, NoCommand)
           v == Activate(PopStop(s), NoCommand)
<1>10. /\ SameBuild(s, u) /\ SameQueue(s, u)
       /\ SameGates(s, u) /\ SameStores(s, u)
  BY <1>1, NoCommandType, ActivateEffect
<1>11. /\ SameBuild(PopStop(s), v) /\ SameQueue(PopStop(s), v)
       /\ SameGates(PopStop(s), v) /\ SameStores(PopStop(s), v)
  BY <1>6, NoCommandType, ActivateEffect
<1>12. /\ t \in Systems /\ SameBuild(w, t) /\ SameQueue(w, t)
       /\ SameGates(w, t) /\ SameStores(w, t)
       /\ t.slot = w.slot /\ t.action = stop
  BY <1>2, <1>8, ActivateEffect DEF SameCommand
<1> HIDE DEF t, u, v, w, x
<1>13. /\ SameBuild(u, v) /\ SameQueue(u, v)
       /\ SameGates(u, v) /\ SameStores(u, v)
  BY <1>9, <1>10, <1>11 DEF SameBuild, SameQueue, SameGates, SameStores
<1>14. Stored(u, x, Result(s.action, "CANCELLED"))
       /\ Stored(v, w, Result(s.action, "CANCELLED"))
  BY <1>7, <1>8, <1>9 DEF u, v
<1>15. /\ SameBuild(x, w) /\ SameQueue(x, w)
       /\ SameGates(x, w) /\ SameStores(x, w)
  BY <1>13, <1>14
  DEF Stored, SameBuild, SameQueue, SameGates, SameStores, ResultRoom
<1>16. /\ SameBuild(x, t) /\ SameQueue(x, t)
       /\ SameGates(x, t) /\ SameStores(x, t)
       /\ t.slot = NoCommand /\ SameCommand(x.slot, t.action)
  BY <1>2, <1>7, <1>8, <1>9, <1>12, <1>15
  DEF SameBuild, SameQueue, SameGates, SameStores
<1>17. CInv(faults = 0, t, pending, NoCommand, requests)
  BY <1>1, <1>5, <1>7, <1>12, <1>16, StopStarted
<1> QED
  BY <1>1, <1>3, <1>17, KeepsIInv

\* ... a STOP that finds a STOP running, ...
LEMMA StopWidensStep ==
  ASSUME IInv, StopWidens
  PROVE  IInv'
<1> DEFINE s == now
           w == WidenPendingStop(s, s.action.mask)
           c == [s.action EXCEPT !.mask = w.slot.mask]
           t == Activate(w, c)
<1>1. /\ CInv(faults = 0, s, pending, NoCommand, requests) /\ s \in Systems
      /\ s.action.kind = "stop" /\ Keep /\ sys' = t
  BY NowKeeps DEF StopWidens
<1> HIDE DEF s
<1>2. s.action \in Commands /\ s.action.mask \in SUBSET Motors
  <2>1. s.action \in Commands
    BY <1>1, SystemFields
  <2> QED
    BY <2>1 DEF Commands
<1>3. CInv(faults = 0, w, pending, NoCommand, requests)
      /\ w \in Systems /\ w.action = s.action
  BY <1>1, <1>2, WidenKeeps, WidenEffect, SlotId
<1> HIDE DEF w
<1>4. SameCommand(w.action, c)
  <2>1. w.slot \in Commands
    BY <1>3, SystemFields
  <2>2. s.action.id # 0
    BY <1>1, NoCommandType DEF CInv, Named, Typed, Known
  <2>3. c \in Commands /\ c.id = s.action.id /\ c.kind = s.action.kind
        /\ c.session = s.action.session
    BY <1>2, <2>1 DEF Commands
  <2> HIDE DEF c
  <2> QED
    BY <1>1, <1>3, <2>2, <2>3, NoCommandType DEF SameCommand
<1> HIDE DEF c
<1>5. /\ t \in Systems /\ SameBuild(w, t) /\ SameQueue(w, t)
      /\ SameGates(w, t) /\ SameStores(w, t)
      /\ t.slot = w.slot /\ t.action = c
  BY <1>3, <1>4, ActivateEffect DEF SameCommand
<1>6. w.slot \in Commands
  BY <1>3, SystemFields
<1> HIDE DEF t
<1>7. CInv(faults = 0, t, pending, NoCommand, requests)
  BY <1>3, <1>4, <1>5, <1>6, SameCommandItself, Rescoped
<1> QED
  BY <1>1, <1>7, KeepsIInv

\* ... an action that goes on or ends, ...
LEMMA AdvanceStep ==
  ASSUME IInv, Advance
  PROVE  IInv'
<1> DEFINE blocked == now.action.kind = "stop" /\ StopPending(now)
           s == IF blocked THEN WidenPendingStop(now, now.action.mask) ELSE now
<1>1. CInv(faults = 0, now, pending, NoCommand, requests)
      /\ now.action.mask \in SUBSET Motors
  <2>1. CInv(faults = 0, now, pending, NoCommand, requests) /\ now \in Systems
    BY NowKeeps
  <2>2. now.action \in Commands
    BY <2>1, SystemFields
  <2> QED
    BY <2>1, <2>2 DEF Commands
<1>2. CInv(faults = 0, s, pending, NoCommand, requests)
  BY <1>1, WidenKeeps
<1>3. /\ Keep
      /\ \/ sys' = [s EXCEPT !.age = @ + 1]
         \/ \E code \in Outcomes(s.action) \cup {"FAILED"} :
              sys' = Complete(s, code)
         \/ sys' = [s EXCEPT !.stage = "cleanup", !.age = 0]
  BY DEF Advance
<1> HIDE DEF s
<1>4. s \in Systems /\ s.stage \in {"run", "cleanup"} /\ s.age \in Nat
  BY <1>2, SystemFields DEF CInv, Typed
<1>5. CASE sys' = [s EXCEPT !.age = @ + 1]
  <2>1. [s EXCEPT !.age = @ + 1] = [s EXCEPT !.stage = s.stage, !.age = s.age + 1]
    BY <1>4 DEF Systems
  <2>2. s.age + 1 \in Nat
    BY <1>4
  <2> QED
    BY <1>2, <1>3, <1>4, <1>5, <2>1, <2>2, ClockKeeps, KeepsIInv, ZenonT(30)
<1>6. CASE \E code \in Outcomes(s.action) \cup {"FAILED"} :
             sys' = Complete(s, code)
  <2>1. PICK code \in Outcomes(s.action) \cup {"FAILED"} :
          sys' = Complete(s, code)
    BY <1>6
  <2>2. code \in Codes
    BY DEF Outcomes, Codes
  <2> QED
    BY <1>2, <1>3, <2>1, <2>2, CompleteKeeps, KeepsIInv
<1>7. CASE sys' = [s EXCEPT !.stage = "cleanup", !.age = 0]
  BY <1>2, <1>3, <1>7, ClockKeeps, KeepsIInv
<1> QED
  BY <1>3, <1>5, <1>6, <1>7

\* ... a STOP that becomes the action, ...
LEMMA StopStartsStep ==
  ASSUME IInv, StopStarts
  PROVE  IInv'
<1> DEFINE s == now
           q == PopStop(s)
<1>1. /\ CInv(faults = 0, s, pending, NoCommand, requests) /\ s \in Systems
      /\ s.slot # NoCommand /\ DeferredRoom(s) /\ Keep /\ s.action = NoCommand
      /\ sys' \in
           IF ~CanTakeQueuedMotion(q) THEN Start(q, s.slot)
           ELSE Start(Store(TakeQueuedMotion(q),
                            Result(QueuedMotion(q), "CANCELLED")),
                      [s.slot EXCEPT !.mask = @ \cup QueuedMotion(q).mask])
  BY NowKeeps DEF StopStarts, StopReady, StopPending, Idle
<1>2. s.slot \in Commands /\ s.slot.id # 0 /\ s.slot.kind = "stop"
  <2>1. s.slot \in Commands
    BY <1>1, SystemFields
  <2> QED
    BY <1>1, <2>1, SlotId DEF CInv, Named
<1>3. /\ q \in Systems /\ SameBuild(s, q) /\ SameQueue(s, q)
      /\ SameGates(s, q) /\ SameStores(s, q)
      /\ q.slot = NoCommand /\ q.action = s.action
  BY <1>1, PopStopEffect
<1> HIDE DEF s, q
<1>4. CASE ~CanTakeQueuedMotion(q)
  <2> DEFINE t == Activate(q, s.slot)
  <2>1. sys' = t
    BY <1>1, <1>2, <1>4 DEF Start
  <2>2. /\ t \in Systems /\ SameBuild(q, t) /\ SameQueue(q, t)
        /\ SameGates(q, t) /\ SameStores(q, t)
        /\ t.slot = q.slot /\ t.action = s.slot
    BY <1>2, <1>3, ActivateEffect
  <2> HIDE DEF t
  <2>3. /\ SameBuild(s, t) /\ SameQueue(s, t)
        /\ SameGates(s, t) /\ SameStores(s, t)
        /\ t.slot = NoCommand /\ SameCommand(s.slot, t.action)
    BY <1>2, <1>3, <2>2, SameCommandItself
    DEF SameBuild, SameQueue, SameGates, SameStores
  <2>4. CInv(faults = 0, t, pending, NoCommand, requests)
    BY <1>1, <2>2, <2>3, StopStarted
  <2> QED
    BY <1>1, <2>1, <2>4, KeepsIInv
<1>5. CASE CanTakeQueuedMotion(q)
  <2> DEFINE c == QueuedMotion(q)
             r == Result(c, "CANCELLED")
             a == TakeQueuedMotion(s)
             b == TakeQueuedMotion(q)
             x == Store(a, r)
             y == Store(b, r)
             stop == [s.slot EXCEPT !.mask = @ \cup c.mask]
             t == Activate(y, stop)
  <2>1. CanTakeQueuedMotion(s) /\ QueuedMotion(s) = c
    <3>1. QueuedMotions(q) = QueuedMotions(s)
      BY <1>3 DEF QueuedMotions, SameQueue, SameGates
    <3> QED
      BY <1>3, <1>5, <3>1
      DEF CanTakeQueuedMotion, QueuedMotion, SameQueue, SameGates
  <2> HIDE DEF c
  <2>2. /\ CInv(faults = 0, x, pending, NoCommand, requests)
        /\ Stored(a, x, r) /\ c \in Commands
    BY <1>1, <2>1, TakenBackInTime
  <2>3. /\ a \in Systems /\ SameBuild(s, a) /\ SameGates(s, a)
        /\ SameStores(s, a) /\ a.cmds = s.cmds /\ a.tomb = s.motion
        /\ a.slot = s.slot /\ a.action = s.action
    BY <1>1, TakeEffect
  <2>4. /\ b \in Systems /\ SameBuild(q, b) /\ SameGates(q, b)
        /\ SameStores(q, b) /\ b.cmds = q.cmds /\ b.tomb = q.motion
        /\ b.slot = q.slot /\ b.action = q.action
    BY <1>3, TakeEffect
  <2> HIDE DEF a, b
  <2>5. CanStore(b)
    BY <1>1, <1>3, <2>4 DEF CanStore, DeferredRoom, SameStores
  <2>6. r \in Results
    BY <2>2 DEF Stored
  <2> HIDE DEF r
  <2>7. Stored(b, y, r)
    BY <2>4, <2>5, <2>6, StoreEffect
  <2>8. SameCommand(s.slot, stop) /\ stop.kind = "stop"
    <3>1. stop \in Commands /\ stop.id = s.slot.id /\ stop.kind = s.slot.kind
          /\ stop.session = s.slot.session
      BY <1>2, <2>2 DEF Commands
    <3> QED
      BY <1>1, <1>2, <3>1, NoCommandType DEF SameCommand
  <2>9. sys' = t
    BY <1>1, <1>5, <2>8 DEF Start, c, b, r
  <2> HIDE DEF stop, x, y
  <2>10. /\ t \in Systems /\ SameBuild(y, t) /\ SameQueue(y, t)
         /\ SameGates(y, t) /\ SameStores(y, t)
         /\ t.slot = y.slot /\ t.action = stop
    BY <2>7, <2>8, ActivateEffect DEF Stored, SameCommand
  <2> HIDE DEF t
  <2>11. /\ SameBuild(a, b) /\ SameQueue(a, b)
         /\ SameGates(a, b) /\ SameStores(a, b)
    BY <1>3, <2>3, <2>4 DEF SameBuild, SameQueue, SameGates, SameStores
  <2>12. /\ SameBuild(x, y) /\ SameQueue(x, y)
         /\ SameGates(x, y) /\ SameStores(x, y)
    BY <2>2, <2>7, <2>11
    DEF Stored, SameBuild, SameQueue, SameGates, SameStores, ResultRoom
  <2>13. x.slot = s.slot /\ x.action = NoCommand /\ y.slot = NoCommand
    BY <1>1, <1>3, <2>2, <2>3, <2>4, <2>7 DEF Stored
  <2>14. /\ SameBuild(x, t) /\ SameQueue(x, t)
         /\ SameGates(x, t) /\ SameStores(x, t)
         /\ t.slot = NoCommand /\ SameCommand(x.slot, t.action)
    BY <2>8, <2>10, <2>12, <2>13
    DEF SameBuild, SameQueue, SameGates, SameStores
  <2>15. CInv(faults = 0, t, pending, NoCommand, requests)
    BY <1>1, <2>2, <2>10, <2>13, <2>14, StopStarted
  <2> QED
    BY <1>1, <2>9, <2>15, KeepsIInv
<1> QED
  BY <1>4, <1>5

\* ... and a command that does.
LEMMA CommandStartsStep ==
  ASSUME IInv, CommandStarts
  PROVE  IInv'
<1> DEFINE s == SkipTombstone(now)
<1>1. CInv(faults = 0, now, pending, NoCommand, requests)
  BY NowKeeps
<1>2. /\ CInv(faults = 0, s, pending, NoCommand, requests)
      /\ s.action = now.action /\ s.deferred = now.deferred
      /\ s.cmds # <<>> => ~Tombstoned(s, Head(s.cmds))
  BY <1>1, SkipKeeps
<1>3. /\ Keep /\ now.action = NoCommand
      /\ \/ sys' = now
         \/ sys' = s
         \/ /\ now.deferred = <<>> /\ s.cmds # <<>>
            /\ sys' \in Start(PopCommand(s), Head(s.cmds))
  BY DEF CommandStarts, Idle
<1> HIDE DEF s
<1>4. CASE sys' = now \/ sys' = s
  BY <1>1, <1>2, <1>3, <1>4, KeepsIInv
<1>5. CASE /\ now.deferred = <<>> /\ s.cmds # <<>>
           /\ sys' \in Start(PopCommand(s), Head(s.cmds))
  <2>1. DeferredRoom(s)
    BY <1>2, <1>5, DeferredAssumption DEF DeferredRoom
  <2>2. CInv(faults = 0, sys', pending, NoCommand, requests)
    BY <1>2, <1>3, <1>5, <2>1, CommandStarted
  <2> QED
    BY <1>3, <2>2, KeepsIInv
<1> QED
  BY <1>3, <1>4, <1>5

\* The control task keeps the invariant.
LEMMA ServiceStep ==
  ASSUME IInv, Service
  PROVE  IInv'
  BY SafetyTripStep, StopPreemptsStep, StopWidensStep, AdvanceStep,
     StopStartsStep, CommandStartsStep DEF Service
-----------------------------------------------------------------------------
(* ProtocolTask.                                                           *)

\* What reporting the first result changes.
LEMMA PopResultEffect ==
  ASSUME NEW s \in Systems, s.results # <<>>
  PROVE  LET t == PopResult(s)
             r == Head(s.results)
         IN /\ t \in Systems /\ SameBuild(s, t) /\ SameQueue(s, t)
            /\ t.slot = s.slot /\ t.action = s.action /\ t.stop = s.stop
            /\ t.deferred = s.deferred /\ t.ended = s.ended
            /\ t.results = Tail(s.results)
            /\ t.motion = (IF /\ Deliverable(s, r)
                              /\ r.kind = "movej" /\ r.id = s.motion
                             THEN 0 ELSE s.motion)
<1> DEFINE r == Head(s.results)
           q == Tail(s.results)
           m == IF Deliverable(s, r) /\ r.kind = "movej" /\ r.id = s.motion
                  THEN 0 ELSE s.motion
           t == [s EXCEPT !.results = q, !.motion = m]
<1>1. s.results \in Seq(Results) /\ s.motion \in Nat
  BY SystemFields
<1>2. q \in Seq(Results) /\ m \in Nat
  BY <1>1
<1>3. PopResult(s) = t
  BY DEF PopResult
<1> HIDE DEF q, m
<1>4. /\ t \in Systems /\ SameBuild(s, t) /\ SameQueue(s, t)
      /\ t.slot = s.slot /\ t.action = s.action /\ t.stop = s.stop
      /\ t.deferred = s.deferred /\ t.ended = s.ended
      /\ t.results = q /\ t.motion = m
  BY <1>2 DEF Systems, SameBuild, SameQueue
<1> QED
  BY <1>3, <1>4 DEF q, m

\* One terminal is reported, and opens the gate of a trajectory.
LEMMA Reported ==
  ASSUME NEW calm, NEW s, NEW p, NEW rq, CInv(calm, s, p, NoCommand, rq),
         s.results # <<>>, NEW status \in {"reported", "dropped"}
  PROVE  CInv(calm, PopResult(s), p, NoCommand,
              IF Head(s.results).id = 0 THEN rq
              ELSE [rq EXCEPT ![Head(s.results).id].status = status])
<1> DEFINE r == Head(s.results)
           t == PopResult(s)
           nq == IF r.id = 0 THEN rq ELSE [rq EXCEPT ![r.id].status = status]
<1> USE NoCommandType
<1>1. s \in Systems /\ s.results \in Seq(Results) /\ s.deferred \in Seq(Results)
      /\ s.ended \in Seq(Results) /\ rq \in Seq(Requests)
      /\ s.motion \in Nat
  BY SystemFields DEF CInv, Typed
<1>2. /\ t \in Systems /\ SameBuild(s, t) /\ SameQueue(s, t)
      /\ t.slot = s.slot /\ t.action = s.action /\ t.stop = s.stop
      /\ t.deferred = s.deferred /\ t.ended = s.ended
      /\ t.results = Tail(s.results)
      /\ t.motion = (IF Deliverable(s, r) /\ r.kind = "movej" /\ r.id = s.motion
                       THEN 0 ELSE s.motion)
  BY <1>1, PopResultEffect
<1>3. /\ r = s.results[1] /\ 1 \in DOMAIN s.results /\ r \in Results
      /\ \A n \in DOMAIN t.results : /\ n + 1 \in DOMAIN s.results
                                     /\ t.results[n] = s.results[n + 1]
      /\ \A n \in DOMAIN s.results :
           n = 1 \/ (n - 1 \in DOMAIN t.results
                     /\ s.results[n] = t.results[n - 1])
  BY <1>1, <1>2, SMTT(30)
<1> HIDE DEF r, t
<1>4. (r.id = 0 /\ r.kind = "plain") \/ Known(r, rq)
  BY <1>3 DEF CInv, Named
<1>5. /\ nq \in Seq(Requests) /\ DOMAIN nq = DOMAIN rq
      /\ \A i \in DOMAIN rq : nq[i].kind = rq[i].kind
      /\ \A i \in DOMAIN rq : nq[i].status = "accepted" =>
           rq[i].status = "accepted" /\ i # r.id
  <2>1. CASE r.id = 0
    BY <1>1, <2>1
  <2>2. CASE r.id # 0
    <3> DEFINE q == [rq[r.id] EXCEPT !.status = status]
    <3>1. r.id \in 1..Len(rq) /\ rq[r.id] \in Requests
      BY <1>1, <1>4, <2>2 DEF Known
    <3>2. q \in Requests /\ q.kind = rq[r.id].kind /\ q.status = status
      BY <3>1 DEF Requests
    <3>3. nq = [rq EXCEPT ![r.id] = q]
      BY <2>2
    <3> HIDE DEF q, nq
    <3>4. /\ nq \in Seq(Requests) /\ DOMAIN nq = DOMAIN rq
          /\ \A i \in DOMAIN rq : nq[i] = IF i = r.id THEN q ELSE rq[i]
      BY <1>1, <3>1, <3>2, <3>3, ExceptSeq
    <3> QED
      BY <3>2, <3>4
  <2> QED
    BY <2>1, <2>2
<1> HIDE DEF nq
<1>6. Typed(t, p, NoCommand, nq)
  BY <1>2, <1>5 DEF CInv, Typed
<1>7. Named(t, p, NoCommand, nq)
  <2>1. \A x : Known(x, rq) => Known(x, nq)
    BY <1>5 DEF Known
  <2>2. \A i, kinds : KindOf(i, rq, kinds) => KindOf(i, nq, kinds)
    BY <1>5 DEF KindOf
  <2>3. \A rs \in {t.results, t.deferred, t.ended} : \A n \in DOMAIN rs :
          (rs[n].id = 0 /\ rs[n].kind = "plain") \/ Known(rs[n], nq)
    BY <1>2, <1>3, <2>1 DEF CInv, Named
  <2>4. KindOf(t.motion, nq, {"oneshot", "movej"})
    BY <1>2, <2>2 DEF CInv, Named, KindOf
  <2> QED
    BY <1>2, <2>1, <2>2, <2>3, <2>4 DEF CInv, Named, SameQueue
<1>8. Distinct(t, p, NoCommand)
  BY <1>2 DEF CInv, Distinct, SameQueue
<1>9. \A i : Holds(t.results, i) => Holds(s.results, i)
  BY <1>3 DEF Holds
<1>10. \A i : Holds(s.results, i) => Holds(t.results, i) \/ r.id = i
  BY <1>3 DEF Holds
<1>11. Finished(t, p, NoCommand)
  BY <1>2, <1>9 DEF CInv, Finished, SameQueue
<1>12. t.motion = s.motion
         \/ /\ t.motion = 0 /\ s.motion # 0 /\ Holds(s.ended, s.motion)
  <2>1. Holds(s.results, r.id)
    BY <1>3 DEF Holds
  <2> QED
    BY <1>1, <1>2, <2>1 DEF CInv, Finished
<1>13. Gated(t, p, NoCommand)
  BY <1>1, <1>2, <1>12 DEF CInv, Gated, Finished, SameQueue
<1>14. Ordered(t)
  <2>1. IsSuffix(s.results \o s.deferred, s.ended)
    BY DEF CInv, Ordered
  <2>2. IsSuffix(Tail(s.results) \o s.deferred, s.ended)
    <3>1. \A a, b, e \in Seq(Results) : a # <<>> /\ IsSuffix(a \o b, e) =>
            IsSuffix(Tail(a) \o b, e)
      BY SuffixShrinks
    <3> QED
      BY <1>1, <2>1, <3>1
  <2>3. Len(t.results) <= ResultCapacity
    <3>1. Len(t.results) = Len(s.results) - 1
      BY <1>1, <1>2
    <3> QED
      BY <1>1, <3>1, CapacityAssumption DEF CInv, Ordered
  <2> QED
    BY <1>2, <2>2, <2>3 DEF Ordered
<1>15. ASSUME calm
       PROVE  Kept(t, p, NoCommand, nq)
  <2>1. Kept(s, p, NoCommand, rq)
    BY <1>15 DEF CInv
  <2>2. \A i : RunnableIn(s, p, NoCommand, i) <=> RunnableIn(t, p, NoCommand, i)
    BY <1>2 DEF RunnableIn, SameQueue
  <2>3. \A i \in DOMAIN nq : nq[i].status = "accepted" =>
          \/ RunnableIn(t, p, NoCommand, i)
          \/ Holds(t.results, i) \/ Holds(t.deferred, i)
    BY <1>2, <1>5, <1>10, <2>1, <2>2 DEF Kept
  <2>4. t.motion # 0 => t.motion = s.motion /\ s.motion # 0
    BY <1>2
  <2>5. \A i, k : OfSession(s.results, i, k) => OfSession(t.results, i, k)
    BY <1>3 DEF OfSession
  <2>6. t.motion # 0 /\ ~s.bench => r.id # s.motion
    <3>1. ASSUME t.motion # 0, ~s.bench, r.id = s.motion
          PROVE  FALSE
      <4>1. Known(r, rq) /\ rq[s.motion].kind \in {"oneshot", "movej"}
        BY <1>4, <2>4, <3>1 DEF CInv, Named, KindOf
      <4>2. r.kind = "movej"
        BY <2>1, <3>1, <4>1 DEF Known, Kept, KindsOf
      <4>3. r.session = s.session
        BY <1>3, <2>1, <2>4, <3>1 DEF Kept, Backed, OfSession
      <4> QED
        BY <1>2, <3>1, <4>2, <4>3 DEF Deliverable
    <3> QED
      BY <3>1
  <2>7. Backed(t, p, NoCommand)
    BY <1>2, <1>10, <2>1, <2>2, <2>4, <2>5, <2>6
    DEF Kept, Backed, SameBuild, SameQueue
  <2>8. \A i \in DOMAIN nq : nq[i].kind \in KindsOf(t)
    BY <1>2, <1>5, <2>1 DEF Kept, KindsOf, SameBuild
  <2> QED
    BY <2>3, <2>7, <2>8 DEF Kept
<1>16. CInv(calm, t, p, NoCommand, nq)
  BY <1>6, <1>7, <1>8, <1>11, <1>13, <1>14, <1>15 DEF CInv
<1> QED
  BY <1>16 DEF t, nq, r

\* Reporting results keeps the invariant.
LEMMA DrainStep ==
  ASSUME IInv, Drain
  PROVE  IInv'
<1> DEFINE r == Head(sys.results)
<1>1. PICK status \in {"reported", "dropped"} :
        requests' = SetStatus(r.id, status)
  BY DEF Drain
<1>2. CInv(faults = 0, sys', pending, NoCommand, requests')
  <2>1. /\ CInv(faults = 0, sys, pending, NoCommand, requests)
        /\ sys.results # <<>> /\ sys' = PopResult(sys)
    BY DEF IInv, Drain
  <2>2. requests' = IF Head(sys.results).id = 0 THEN requests
                    ELSE [requests EXCEPT ![Head(sys.results).id].status = status]
    BY <1>1 DEF SetStatus
  <2>3. CInv(faults = 0, PopResult(sys), pending, NoCommand,
             IF Head(sys.results).id = 0 THEN requests
             ELSE [requests EXCEPT ![Head(sys.results).id].status = status])
    BY <2>1, Reported
  <2> QED
    BY <2>1, <2>2, <2>3
<1> QED
  BY <1>2 DEF IInv, Drain

\* A refused line only leaves its trace.
LEMMA Refused ==
  ASSUME NEW calm, NEW s, NEW p, NEW h, NEW rq, CInv(calm, s, p, h, rq),
         NEW kind \in KindsOf(s)
  PROVE  CInv(calm, s, p, h,
              Append(rq, [kind |-> kind, status |-> "refused"]))
<1> DEFINE q == [kind |-> kind, status |-> "refused"]
           nq == Append(rq, q)
<1>1. q \in Requests /\ q.status = "refused" /\ q.kind = kind
  BY DEF Requests, KindsOf, Kinds
<1> HIDE DEF q
<1>2. /\ nq \in Seq(Requests)
      /\ DOMAIN nq = DOMAIN rq \cup {Len(rq) + 1}
      /\ nq[Len(rq) + 1] = q
      /\ \A i \in DOMAIN rq : nq[i] = rq[i]
  BY <1>1 DEF CInv, Typed
<1> HIDE DEF nq
<1>3. Typed(s, p, h, nq)
  BY <1>2 DEF CInv, Typed
<1>4. Named(s, p, h, nq)
  <2>1. \A x : Known(x, rq) => Known(x, nq)
    BY <1>2 DEF Known
  <2>2. \A i, kinds : KindOf(i, rq, kinds) => KindOf(i, nq, kinds)
    BY <1>2 DEF KindOf
  <2> QED
    BY <2>1, <2>2 DEF CInv, Named
<1>5. ASSUME calm
      PROVE  Kept(s, p, h, nq)
  BY <1>1, <1>2, <1>5 DEF CInv, Kept
<1>6. CInv(calm, s, p, h, nq)
  BY <1>3, <1>4, <1>5 DEF CInv
<1> QED
  BY <1>6 DEF nq, q

\* What claiming the gates for an accepted command changes.
LEMMA ClaimEffect ==
  ASSUME NEW s \in Systems, NEW c \in Commands
  PROVE  LET t == Claim(s, c) IN
         /\ t \in Systems /\ SameBuild(s, t) /\ SameQueue(s, t)
         /\ SameStores(s, t) /\ t.slot = s.slot /\ t.action = s.action
         /\ t.stop = (IF c.kind = "stop" THEN c.id ELSE s.stop)
         /\ t.motion = (IF OwnsMotion(c) THEN c.id ELSE s.motion)
<1>1. c.id \in Nat
  BY DEF Commands
<1>2. CASE c.kind = "stop"
  BY <1>1, <1>2
  DEF Claim, OwnsMotion, Systems, SameBuild, SameQueue, SameStores
<1>3. CASE c.kind # "stop" /\ OwnsMotion(c)
  BY <1>1, <1>3 DEF Claim, Systems, SameBuild, SameQueue, SameStores
<1>4. CASE c.kind # "stop" /\ ~OwnsMotion(c)
  BY <1>4 DEF Claim, SameBuild, SameQueue, SameStores
<1> QED
  BY <1>2, <1>3, <1>4

\* An admitted line closes its gate; its command is not visible yet.
LEMMA Admitted ==
  ASSUME NEW calm, NEW s, NEW rq, CInv(calm, s, NoCommand, NoCommand, rq),
         NEW c \in Commands, c.id = Len(rq) + 1, c.kind \in KindsOf(s),
         c.session = s.session, Admits(s, c)
  PROVE  CInv(calm, Claim(s, c), c, NoCommand,
              Append(rq, [kind |-> c.kind, status |-> "accepted"]))
<1> DEFINE q == [kind |-> c.kind, status |-> "accepted"]
           nq == Append(rq, q)
           t == Claim(s, c)
<1> USE NoCommandType
<1>1. q \in Requests /\ q.kind = c.kind
  BY DEF Requests, KindsOf, Kinds
<1> HIDE DEF q
<1>2. /\ nq \in Seq(Requests)
      /\ DOMAIN nq = DOMAIN rq \cup {c.id}
      /\ nq[c.id] = q
      /\ c.id \notin DOMAIN rq /\ c.id # 0
      /\ \A i \in DOMAIN rq : nq[i] = rq[i] /\ i # 0
  BY <1>1 DEF CInv, Typed
<1>3. s \in Systems
  BY DEF CInv, Typed
<1>4. /\ t \in Systems /\ SameBuild(s, t) /\ SameQueue(s, t)
      /\ SameStores(s, t) /\ t.slot = s.slot /\ t.action = s.action
      /\ t.stop = (IF c.kind = "stop" THEN c.id ELSE s.stop)
      /\ t.motion = (IF OwnsMotion(c) THEN c.id ELSE s.motion)
  BY <1>3, ClaimEffect
<1> HIDE DEF nq, t
<1>5. OwnsMotion(c) => s.motion = 0
  BY DEF Admits, OwnsMotion
<1>6. c.kind = "stop" => s.slot = NoCommand
  BY DEF Admits, StopPending
<1>7. /\ c.id \notin {s.slot.id, s.action.id}
      /\ \A n \in DOMAIN s.cmds : s.cmds[n].id # c.id
  BY <1>2 DEF CInv, Named, Known
<1>8. ~Holds(s.results, c.id) /\ ~Holds(s.deferred, c.id) /\ ~Holds(s.ended, c.id)
  BY <1>2 DEF CInv, Named, Known, Holds
<1>9. Typed(t, c, NoCommand, nq)
  BY <1>2, <1>4 DEF CInv, Typed
<1>10. Named(t, c, NoCommand, nq)
  <2>1. \A x : Known(x, rq) => Known(x, nq)
    BY <1>2 DEF Known
  <2>2. \A i, kinds : KindOf(i, rq, kinds) => KindOf(i, nq, kinds)
    BY <1>2 DEF KindOf
  <2>3. Known(c, nq)
    BY <1>1, <1>2 DEF Known
  <2>4. /\ KindOf(t.motion, nq, {"oneshot", "movej"})
        /\ KindOf(t.stop, nq, {"stop"})
    BY <1>1, <1>2, <1>4, <2>2 DEF CInv, Named, KindOf, OwnsMotion
  <2> QED
    BY <1>4, <2>1, <2>2, <2>3, <2>4 DEF CInv, Named, SameQueue, SameStores
<1>11. Distinct(t, c, NoCommand)
  <2>1. c.id # s.tomb
    BY <1>2 DEF CInv, Named, KindOf
  <2> QED
    BY <1>4, <1>7, <2>1 DEF CInv, Distinct, SameQueue
<1>12. Finished(t, c, NoCommand)
  BY <1>2, <1>4, <1>8 DEF CInv, Finished, SameQueue, SameStores
<1>13. Gated(t, c, NoCommand)
  BY <1>2, <1>4, <1>5, <1>6, QueuedId
  DEF CInv, Gated, OwnsMotion, SameQueue, SameStores
<1>14. ASSUME calm
       PROVE  Kept(t, c, NoCommand, nq)
  <2>1. Kept(s, NoCommand, NoCommand, rq)
    BY <1>14 DEF CInv
  <2>2. \A i : i # 0 /\ RunnableIn(s, NoCommand, NoCommand, i) =>
                 RunnableIn(t, c, NoCommand, i)
    BY <1>4 DEF RunnableIn, SameQueue
  <2>3. RunnableIn(t, c, NoCommand, c.id)
    BY DEF RunnableIn
  <2>4. \A i \in DOMAIN nq : nq[i].kind \in KindsOf(t)
    BY <1>1, <1>2, <1>4, <2>1 DEF Kept, KindsOf, SameBuild
  <2>5. \A i \in DOMAIN nq : nq[i].status = "accepted" =>
          \/ RunnableIn(t, c, NoCommand, i)
          \/ Holds(t.results, i) \/ Holds(t.deferred, i)
    BY <1>2, <1>4, <2>1, <2>2, <2>3 DEF Kept, SameStores
  <2>6. Backed(t, c, NoCommand)
    <3>1. CASE OwnsMotion(c)
      <4>1. t.motion = c.id /\ t.session = c.session
        BY <1>4, <3>1 DEF SameBuild
      <4>2. OfSession(t.cmds, c.id, c.session)
        BY <1>4, <1>7 DEF OfSession, SameQueue
      <4>3. OfSession(t.results, c.id, c.session)
            /\ OfSession(t.deferred, c.id, c.session)
        BY <1>4, <1>8 DEF OfSession, Holds, SameStores
      <4> QED
        BY <1>2, <1>4, <1>7, <2>3, <4>1, <4>2, <4>3 DEF Backed
    <3>2. CASE ~OwnsMotion(c)
      <4>1. t.motion = s.motion /\ t.session = s.session /\ t.bench = s.bench
        BY <1>4, <3>2 DEF SameBuild
      <4> QED
        BY <1>4, <2>1, <2>2, <4>1
        DEF Kept, Backed, SameQueue, SameStores
    <3> QED
      BY <3>1, <3>2
  <2> QED
    BY <2>4, <2>5, <2>6 DEF Kept
<1>15. CInv(calm, t, c, NoCommand, nq)
  BY <1>4, <1>9, <1>10, <1>11, <1>12, <1>13, <1>14
  DEF CInv, Ordered, SameStores
<1> QED
  BY <1>15 DEF t, nq, q

\* A request line keeps the invariant, accepted or refused.
LEMMA LineStep ==
  ASSUME IInv, NEW kind \in KindsOf(sys), NEW m \in Motors, Line(kind, {m})
  PROVE  IInv'
<1> DEFINE c == [id |-> Len(requests) + 1, kind |-> kind, mask |-> {m},
                 session |-> sys.session]
<1>1. /\ CInv(faults = 0, sys, NoCommand, NoCommand, requests)
      /\ pc = "lines" /\ pending = NoCommand /\ faults \in Nat
      /\ UNCHANGED faults
  BY DEF IInv, Line
<1>2. /\ c \in Commands /\ c.id = Len(requests) + 1 /\ c.id # 0
      /\ c.kind = kind /\ c.session = sys.session
  <2>1. sys.session \in Nat
    BY <1>1, SystemFields DEF CInv, Typed
  <2>2. requests \in Seq(Requests)
    BY <1>1 DEF CInv, Typed
  <2>3. Len(requests) + 1 \in Nat /\ Len(requests) + 1 # 0
    BY <2>2
  <2> QED
    BY <2>1, <2>3 DEF Commands, KindsOf, Kinds
<1>3. \/ /\ Admits(sys, c)
         /\ sys' = Claim(sys, c) /\ pc' = "publish" /\ pending' = c
         /\ requests' = Append(requests, [kind |-> kind, status |-> "accepted"])
      \/ /\ requests' = Append(requests, [kind |-> kind, status |-> "refused"])
         /\ UNCHANGED <<sys, pc, pending>>
  BY DEF Line
<1> HIDE DEF c
<1>4. CASE /\ Admits(sys, c)
           /\ sys' = Claim(sys, c) /\ pc' = "publish" /\ pending' = c
           /\ requests' = Append(requests,
                                 [kind |-> kind, status |-> "accepted"])
  <2>1. CInv(faults = 0, Claim(sys, c), c, NoCommand,
             Append(requests, [kind |-> c.kind, status |-> "accepted"]))
    BY <1>1, <1>2, <1>4, Admitted
  <2>2. c # NoCommand
    BY <1>2, NoCommandType
  <2> QED
    BY <1>1, <1>2, <1>4, <2>1, <2>2 DEF IInv
<1>5. CASE /\ requests' = Append(requests,
                                 [kind |-> kind, status |-> "refused"])
           /\ UNCHANGED <<sys, pc, pending>>
  <2>1. CInv(faults = 0, sys, NoCommand, NoCommand,
             Append(requests, [kind |-> kind, status |-> "refused"]))
    BY <1>1, Refused
  <2> QED
    BY <1>1, <1>5, <2>1 DEF IInv
<1> QED
  BY <1>3, <1>4, <1>5

\* The command becomes visible to the service.
LEMMA Published ==
  ASSUME NEW calm, NEW s, NEW p, NEW rq, CInv(calm, s, p, NoCommand, rq),
         p # NoCommand
  PROVE  CInv(calm, Publish(s, p), NoCommand, NoCommand, rq)
<1> DEFINE t == Publish(s, p)
<1> USE NoCommandType
<1>1. s \in Systems /\ p \in Commands /\ s.cmds \in Seq(Commands) /\ p.id # 0
      /\ rq \in Seq(Requests)
  <2>1. s \in Systems /\ p \in Commands /\ rq \in Seq(Requests)
    BY DEF CInv, Typed
  <2>2. Known(p, rq)
    BY DEF CInv, Named
  <2> QED
    BY <2>1, <2>2, SystemFields DEF Known
<1>2. CASE p.kind = "stop"
  <2>1. t = [s EXCEPT !.slot = p]
    BY <1>2 DEF Publish
  <2> HIDE DEF t
  <2>2. /\ t \in Systems /\ SameBuild(s, t) /\ SameQueue(s, t)
        /\ SameGates(s, t) /\ SameStores(s, t)
        /\ t.slot = p /\ t.action = s.action
    BY <1>1, <2>1 DEF Systems, SameBuild, SameQueue, SameGates, SameStores
  <2>3. Typed(t, NoCommand, NoCommand, rq)
    BY <2>2 DEF CInv, Typed
  <2>4. Named(t, NoCommand, NoCommand, rq)
    BY <1>2, <2>2 DEF CInv, Named, SameQueue, SameGates, SameStores
  <2>5. Distinct(t, NoCommand, NoCommand)
    BY <1>1, <2>2, QueuedId DEF CInv, Distinct, SameQueue
  <2>6. Finished(t, NoCommand, NoCommand)
    BY <2>2 DEF CInv, Finished, SameQueue, SameStores
  <2>7. Gated(t, NoCommand, NoCommand)
    BY <1>2, <2>2
    DEF CInv, Gated, OwnsMotion, SameQueue, SameGates, SameStores
  <2>8. ASSUME calm
        PROVE  Kept(t, NoCommand, NoCommand, rq)
    <3>1. s.slot = NoCommand
      BY <1>2 DEF CInv, Gated
    <3>2. \A i : i # 0 /\ RunnableIn(s, p, NoCommand, i) =>
                   RunnableIn(t, NoCommand, NoCommand, i)
      BY <2>2, <3>1 DEF RunnableIn, SameQueue
    <3>3. \A i \in DOMAIN rq : i # 0
      BY <1>1
    <3> QED
      BY <2>2, <2>8, <3>2, <3>3
      DEF CInv, Kept, Backed, KindsOf, SameBuild, SameQueue, SameGates,
          SameStores
  <2> QED
    BY <2>2, <2>3, <2>4, <2>5, <2>6, <2>7, <2>8
    DEF CInv, Ordered, SameStores, t
<1>3. CASE p.kind # "stop"
  <2> DEFINE q == Append(s.cmds, p)
  <2>1. /\ q \in Seq(Commands)
        /\ \A n \in DOMAIN s.cmds : n \in DOMAIN q /\ q[n] = s.cmds[n]
        /\ \A n \in DOMAIN q :
             (n \in DOMAIN s.cmds /\ q[n] = s.cmds[n])
               \/ (n = Len(s.cmds) + 1 /\ q[n] = p)
        /\ Len(s.cmds) + 1 \in DOMAIN q /\ q[Len(s.cmds) + 1] = p
    BY <1>1
  <2>2. t = [s EXCEPT !.cmds = q]
    BY <1>3 DEF Publish
  <2> HIDE DEF t, q
  <2>3. /\ t \in Systems /\ SameBuild(s, t)
        /\ SameGates(s, t) /\ SameStores(s, t)
        /\ t.cmds = q /\ t.tomb = s.tomb
        /\ t.slot = s.slot /\ t.action = s.action
    BY <1>1, <2>1, <2>2 DEF Systems, SameBuild, SameGates, SameStores
  <2>4. Typed(t, NoCommand, NoCommand, rq)
    BY <2>3 DEF CInv, Typed
  <2>5. Named(t, NoCommand, NoCommand, rq)
    BY <1>3, <2>1, <2>3 DEF CInv, Named, SameGates, SameStores
  <2>6. Distinct(t, NoCommand, NoCommand)
    <3>1. \A n \in DOMAIN s.cmds : s.cmds[n].id # p.id /\ s.cmds[n].id # 0
      BY QueuedId DEF CInv, Distinct
    <3> QED
      BY <1>1, <2>1, <2>3, <3>1, SMTT(30) DEF CInv, Distinct
  <2>7. Finished(t, NoCommand, NoCommand)
    BY <2>1, <2>3 DEF CInv, Finished, SameStores
  <2>8. Gated(t, NoCommand, NoCommand)
    <3>1. s.stop # p.id
      BY <1>1, <1>3 DEF CInv, Named, Known, KindOf
    <3> QED
      BY <1>1, <1>3, <2>1, <2>3, <3>1
      DEF CInv, Gated, OwnsMotion, SameGates, SameStores
  <2>9. ASSUME calm
        PROVE  Kept(t, NoCommand, NoCommand, rq)
    <3>1. p.id # s.tomb
      BY <1>1 DEF CInv, Distinct
    <3>2. \A i : i # 0 /\ RunnableIn(s, p, NoCommand, i) =>
                   RunnableIn(t, NoCommand, NoCommand, i)
      BY <2>1, <2>3, <3>1 DEF RunnableIn
    <3>3. \A i, k : /\ OfSession(s.cmds, i, k)
                    /\ p.id = i => p.session = k
                    => OfSession(t.cmds, i, k)
      BY <2>1, <2>3 DEF OfSession
    <3>4. \A i \in DOMAIN rq : i # 0
      BY <1>1
    <3>5. Kept(s, p, NoCommand, rq)
      BY <2>9 DEF CInv
    <3>6. Backed(t, NoCommand, NoCommand)
      BY <2>3, <3>2, <3>3, <3>5
      DEF Kept, Backed, SameBuild, SameGates, SameStores
    <3> QED
      BY <2>3, <3>2, <3>4, <3>5, <3>6
      DEF Kept, KindsOf, SameBuild, SameStores
  <2> QED
    BY <2>3, <2>4, <2>5, <2>6, <2>7, <2>8, <2>9
    DEF CInv, Ordered, SameStores, t
<1> QED
  BY <1>2, <1>3

\* Publishing the accepted command keeps the invariant.
LEMMA PublishStep ==
  ASSUME IInv, PublishPending
  PROVE  IInv'
<1>1. CInv(faults = 0, Publish(sys, pending), NoCommand, NoCommand, requests)
  BY Published DEF IInv, PublishPending
<1> QED
  BY <1>1 DEF IInv, PublishPending

\* A hello is admitted only while both gates are open: it discards what is
\* queued and what is still to be reported.
LEMMA TornDown ==
  ASSUME NEW calm, NEW s, NEW rq, CInv(calm, s, NoCommand, NoCommand, rq),
         AdmitsHello(s)
  PROVE  CInv(calm, Teardown(s), NoCommand, NoCommand,
              [i \in DOMAIN rq |->
                 IF \/ \E n \in DOMAIN s.results : s.results[n].id = i
                    \/ \E n \in DOMAIN s.cmds :
                         s.cmds[n].id = i /\ ~Tombstoned(s, s.cmds[n])
                 THEN [rq[i] EXCEPT !.status = "dropped"] ELSE rq[i]])
<1> DEFINE Gone(i) == \/ \E n \in DOMAIN s.results : s.results[n].id = i
                      \/ \E n \in DOMAIN s.cmds :
                           s.cmds[n].id = i /\ ~Tombstoned(s, s.cmds[n])
           nq == [i \in DOMAIN rq |->
                    IF Gone(i) THEN [rq[i] EXCEPT !.status = "dropped"]
                    ELSE rq[i]]
           t == Teardown(s)
<1> USE NoCommandType
<1>1. /\ s \in Systems /\ rq \in Seq(Requests) /\ s.session \in Nat
      /\ s.results \in Seq(Results) /\ s.deferred \in Seq(Results)
      /\ s.ended \in Seq(Results)
  BY SystemFields DEF CInv, Typed
<1>2. s.motion = 0 /\ s.stop = 0 /\ s.slot = NoCommand
  BY SlotId DEF AdmitsHello, CInv, Gated
<1>3. /\ t \in Systems /\ t.bench = s.bench /\ SameGates(s, t)
      /\ t.cmds = <<>> /\ t.tomb = 0 /\ t.slot = NoCommand
      /\ t.action = s.action /\ t.results = <<>>
      /\ t.deferred = s.deferred /\ t.ended = s.ended
  <2>1. /\ s.session + 1 \in Nat
        /\ <<>> \in Seq(Commands) /\ <<>> \in Seq(Results)
    BY <1>1
  <2> QED
    BY <1>1, <2>1 DEF Teardown, Systems, SameGates
<1> HIDE DEF t
<1>4. /\ nq \in Seq(Requests) /\ DOMAIN nq = DOMAIN rq
      /\ \A i \in DOMAIN rq : nq[i].kind = rq[i].kind
      /\ \A i \in DOMAIN rq : nq[i].status = "accepted" =>
           rq[i].status = "accepted" /\ ~Gone(i)
  <2>1. \A i \in DOMAIN rq : rq[i] \in Requests
    BY <1>1
  <2>2. \A q \in Requests :
          LET d == [q EXCEPT !.status = "dropped"]
          IN d \in Requests /\ d.kind = q.kind /\ d.status = "dropped"
    BY DEF Requests
  <2> HIDE DEF Gone
  <2>3. nq \in [DOMAIN rq -> Requests]
    BY <2>1, <2>2
  <2>4. DOMAIN rq = 1..Len(rq) /\ Len(rq) \in Nat
    BY <1>1
  <2>5. nq \in Seq(Requests)
    BY <2>3, <2>4, SeqDef
  <2> QED
    BY <2>1, <2>2, <2>5
<1> HIDE DEF nq
<1>5. Typed(t, NoCommand, NoCommand, nq)
  BY <1>3, <1>4 DEF CInv, Typed
<1>6. Named(t, NoCommand, NoCommand, nq)
  <2>1. \A x : Known(x, rq) => Known(x, nq)
    BY <1>4 DEF Known
  <2>2. \A rs \in {t.results, t.deferred, t.ended} : \A n \in DOMAIN rs :
          (rs[n].id = 0 /\ rs[n].kind = "plain") \/ Known(rs[n], nq)
    BY <1>3, <2>1 DEF CInv, Named
  <2> QED
    BY <1>2, <1>3, <2>1, <2>2 DEF CInv, Named, KindOf, SameGates
<1>7. Distinct(t, NoCommand, NoCommand)
  BY <1>3 DEF CInv, Distinct
<1>8. Finished(t, NoCommand, NoCommand)
  BY <1>3 DEF CInv, Finished, Holds
<1>9. Gated(t, NoCommand, NoCommand)
  BY <1>2, <1>3 DEF CInv, Gated, OwnsMotion, SameGates
<1>10. Ordered(t)
  <2>1. IsSuffix(s.results \o s.deferred, s.ended)
    BY DEF CInv, Ordered
  <2>2. IsSuffix(s.deferred, s.ended)
    <3>1. \A a, b, e \in Seq(Results) : IsSuffix(a \o b, e) => IsSuffix(b, e)
      BY SuffixShrinks
    <3> QED
      BY <1>1, <2>1, <3>1
  <2>3. t.results \o t.deferred = s.deferred
    BY <1>1, <1>3
  <2>4. Len(t.results) <= ResultCapacity
    BY <1>3, CapacityAssumption
  <2> QED
    BY <1>3, <2>2, <2>3, <2>4 DEF Ordered
<1>11. ASSUME calm
       PROVE  Kept(t, NoCommand, NoCommand, nq)
  <2>1. Kept(s, NoCommand, NoCommand, rq)
    BY <1>11 DEF CInv
  <2>2. ASSUME NEW i \in DOMAIN nq, nq[i].status = "accepted"
        PROVE  \/ RunnableIn(t, NoCommand, NoCommand, i)
               \/ Holds(t.results, i) \/ Holds(t.deferred, i)
    <3>1. /\ i \in DOMAIN rq /\ rq[i].status = "accepted" /\ ~Gone(i) /\ i # 0
      BY <1>1, <1>4, <2>2
    <3>2. ~Holds(s.results, i)
      BY <3>1 DEF Holds
    <3>3. \A n \in DOMAIN s.cmds : s.cmds[n].id = i => i = s.tomb
      BY <3>1 DEF Tombstoned
    <3>4. i = s.action.id \/ Holds(s.deferred, i)
      BY <1>2, <2>1, <3>1, <3>2, <3>3 DEF Kept, RunnableIn
    <3> QED
      BY <1>3, <3>4 DEF RunnableIn
  <2>3. \A i \in DOMAIN nq : nq[i].kind \in KindsOf(t)
    BY <1>3, <1>4, <2>1 DEF Kept, KindsOf
  <2> QED
    BY <1>2, <1>3, <2>2, <2>3 DEF Kept, Backed, SameGates
<1>12. CInv(calm, t, NoCommand, NoCommand, nq)
  BY <1>5, <1>6, <1>7, <1>8, <1>9, <1>10, <1>11 DEF CInv
<1> QED
  BY <1>12 DEF t, nq

\* hello ui= renames the session; the gates are open.
LEMMA Renamed ==
  ASSUME NEW calm, NEW s, NEW rq, CInv(calm, s, NoCommand, NoCommand, rq),
         AdmitsHello(s)
  PROVE  CInv(calm, RotateSession(s), NoCommand, NoCommand, rq)
<1> DEFINE t == RotateSession(s)
<1>1. s \in Systems /\ s.session \in Nat
  BY SystemFields DEF CInv, Typed
<1>2. s.session + 1 \in Nat
  BY <1>1
<1>3. /\ t \in Systems /\ t.bench = s.bench /\ SameQueue(s, t)
      /\ SameGates(s, t) /\ SameStores(s, t)
      /\ t.slot = s.slot /\ t.action = s.action
  BY <1>1, <1>2
  DEF RotateSession, Systems, SameQueue, SameGates, SameStores
<1> HIDE DEF t
<1>4. Typed(t, NoCommand, NoCommand, rq)
  BY <1>3 DEF CInv, Typed
<1>5. Named(t, NoCommand, NoCommand, rq)
  BY <1>3 DEF CInv, Named, SameQueue, SameGates, SameStores
<1>6. Distinct(t, NoCommand, NoCommand)
  BY <1>3 DEF CInv, Distinct, SameQueue
<1>7. Finished(t, NoCommand, NoCommand)
  BY <1>3 DEF CInv, Finished, SameQueue, SameStores
<1>8. Gated(t, NoCommand, NoCommand)
  BY <1>3 DEF CInv, Gated, SameQueue, SameGates, SameStores
<1>9. ASSUME calm
      PROVE  Kept(t, NoCommand, NoCommand, rq)
  BY <1>3, <1>9 DEF CInv, Kept, Backed, RunnableIn, KindsOf, AdmitsHello,
                    SameQueue, SameGates, SameStores
<1>10. CInv(calm, t, NoCommand, NoCommand, rq)
  BY <1>3, <1>4, <1>5, <1>6, <1>7, <1>8, <1>9 DEF CInv, Ordered, SameStores
<1> QED
  BY <1>10 DEF t

\* A new session keeps the invariant.
LEMMA HelloStep ==
  ASSUME IInv, Hello
  PROVE  IInv'
<1>1. /\ CInv(faults = 0, sys, NoCommand, NoCommand, requests)
      /\ pc = "lines" /\ pending = NoCommand /\ faults \in Nat
      /\ AdmitsHello(sys) /\ UNCHANGED <<pc, pending, faults>>
  BY DEF IInv, Hello
<1>2. \/ /\ sys' = Teardown(sys)
         /\ requests' =
              [i \in DOMAIN requests |->
                 IF \/ \E n \in DOMAIN sys.results : sys.results[n].id = i
                    \/ \E n \in DOMAIN sys.cmds :
                         /\ sys.cmds[n].id = i
                         /\ ~Tombstoned(sys, sys.cmds[n])
                 THEN [requests[i] EXCEPT !.status = "dropped"]
                 ELSE requests[i]]
      \/ sys' = RotateSession(sys) /\ UNCHANGED requests
  BY DEF Hello
<1>3. CInv(faults = 0, sys', NoCommand, NoCommand, requests')
  BY <1>1, <1>2, TornDown, Renamed
<1> QED
  BY <1>1, <1>3 DEF IInv
-----------------------------------------------------------------------------
(* The inductive invariant.                                                *)

\* The invariant holds initially ...
LEMMA CommandInit ==
  ASSUME Init
  PROVE  IInv
<1> USE NoCommandType
<1>1. /\ <<>> \in Seq(Commands) /\ <<>> \in Seq(Results)
      /\ <<>> \in Seq(Requests)
  OBVIOUS
<1>2. /\ sys \in Systems
      /\ sys.cmds = <<>> /\ sys.slot = NoCommand /\ sys.motion = 0
      /\ sys.stop = 0 /\ sys.tomb = 0 /\ sys.results = <<>>
      /\ sys.action = NoCommand /\ sys.deferred = <<>> /\ sys.ended = <<>>
      /\ pc = "drain" /\ pending = NoCommand /\ requests = <<>> /\ faults = 0
  BY <1>1, ProfileAssumption DEF Init, Systems
<1>3. Typed(sys, pending, NoCommand, requests)
  BY <1>1, <1>2 DEF Typed
<1>4. Named(sys, pending, NoCommand, requests)
  BY <1>2 DEF Named, KindOf
<1>5. Distinct(sys, pending, NoCommand)
  BY <1>2 DEF Distinct
<1>6. Finished(sys, pending, NoCommand)
  BY <1>2 DEF Finished, Holds
<1>7. Gated(sys, pending, NoCommand)
  BY <1>2 DEF Gated, OwnsMotion
<1>8. Ordered(sys)
  <2> DEFINE none == <<>>
  <2>1. none \in Seq(Results) /\ Len(none) = 0
    BY <1>1
  <2>2. sys.results \o sys.deferred = none /\ Len(sys.results) = 0
        /\ sys.ended = none
    BY <1>2
  <2> HIDE DEF none
  <2>3. IsSuffix(none, none)
    <3>1. IsSuffix(none, none) <=>
            /\ Len(none) <= Len(none)
            /\ \A k \in 1..Len(none) :
                 none[k] = none[Len(none) - Len(none) + k]
      BY <2>1, SuffixByIndex
    <3>2. \A k \in 1..Len(none) : FALSE
      BY <2>1
    <3>3. Len(none) <= Len(none)
      BY <2>1
    <3> QED
      BY <3>1, <3>2, <3>3
  <2> QED
    BY <2>2, <2>3, CapacityAssumption DEF Ordered
<1>9. Kept(sys, pending, NoCommand, requests)
  BY <1>2 DEF Kept, Backed
<1> QED
  BY <1>2, <1>3, <1>4, <1>5, <1>6, <1>7, <1>8, <1>9 DEF IInv, CInv

\* ... and every step keeps it.
LEMMA CommandStep ==
  ASSUME IInv, [Next]_vars
  PROVE  IInv'
<1>1. CASE GlobalFault
  BY <1>1, GlobalFaultStep
<1>2. CASE Watchdog
  BY <1>2, WatchdogStep
<1>3. CASE Service
  BY <1>3, ServiceStep
<1>4. CASE Protocol
  <2>1. CASE Drain
    BY <2>1, DrainStep
  <2>2. CASE EndDrain
    BY <2>2 DEF EndDrain, IInv
  <2>3. CASE PublishPending
    BY <2>3, PublishStep
  <2>4. CASE EndPass
    BY <2>4 DEF EndPass, IInv
  <2> QED
    BY <1>4, <2>1, <2>2, <2>3, <2>4 DEF Protocol
<1>5. CASE Hello
  BY <1>5, HelloStep
<1>6. CASE \E kind \in KindsOf(sys), m \in Motors : Line(kind, {m})
  BY <1>6, LineStep
<1>7. CASE UNCHANGED vars
  BY <1>7 DEF vars, IInv
<1> QED
  BY <1>1, <1>2, <1>3, <1>4, <1>5, <1>6, <1>7 DEF Next

\* Every state the two tasks reach satisfies the inductive invariant, for any
\* capacities, requests, sessions, faults and motors.
THEOREM CommandInvariance == Spec => []IInv
<1>1. Init => IInv
  BY CommandInit
<1>2. IInv /\ [Next]_vars => IInv'
  BY CommandStep
<1> QED
  BY <1>1, <1>2, PTL DEF Spec
-----------------------------------------------------------------------------
(* What it says about requests.                                            *)

\* A request whose terminal was retained is neither active nor about to start,
\* and the queue holds it at most tombstoned: nothing runs twice.
THEOREM FinishedNeverRuns == Spec => []FinishedIsDead
<1>1. IInv => FinishedIsDead
  <2> SUFFICES ASSUME IInv, NEW i \in DOMAIN requests, Ended(i)
               PROVE  ~Runnable(i)
    BY DEF FinishedIsDead
  <2>1. i \in Nat \ {0}
    BY DEF IInv, CInv, Typed
  <2>2. /\ i \notin {pending.id, sys.slot.id, sys.action.id}
        /\ \A n \in DOMAIN sys.cmds : sys.cmds[n].id = i => i = sys.tomb
    BY <2>1 DEF IInv, CInv, Finished, Ended
  <2>3. \A n \in DOMAIN sys.cmds :
          sys.cmds[n].id = i => Tombstoned(sys, sys.cmds[n])
    BY <2>1, <2>2 DEF IInv, CInv, Named, Known, KindOf, Tombstoned
  <2> QED
    BY <2>2, <2>3 DEF Runnable
<1> QED
  BY <1>1, CommandInvariance, PTL

\* The gate that refuses every ordinary command while a STOP is unfinished
\* always has somebody who will open it, whatever is cancelled meanwhile.
THEOREM StopGateOpens == Spec => []StopGateBacked
<1>1. IInv => StopGateBacked
  BY NoCommandType DEF IInv, CInv, Gated, StopGateBacked, Runnable
<1> QED
  BY <1>1, CommandInvariance, PTL

\* Terminals are reported in the order in which the actions ended, although two
\* bounded stores hold them and either may be full.
THEOREM TerminalsInOrder == Spec => []TerminalOrder
<1>1. IInv => TerminalOrder
  BY DEF IInv, CInv, Ordered, TerminalOrder
<1> QED
  BY <1>1, CommandInvariance, PTL

\* Until the first fault (which discards the queue), no accepted request
\* disappears: it can still run, or its terminal is on the way to the host.
THEOREM NothingLostBeforeFaults == Spec => [](faults = 0 => NoTerminalLost)
<1>1. IInv => (faults = 0 => NoTerminalLost)
  <2> SUFFICES ASSUME IInv, faults = 0,
                      NEW i \in DOMAIN requests, requests[i].status = "accepted"
               PROVE  Runnable(i) \/ Holds(sys.results \o sys.deferred, i)
    BY DEF NoTerminalLost, InHand
  <2>1. i # 0 /\ Kept(sys, pending, NoCommand, requests)
    BY DEF IInv, CInv, Typed
  <2>2. RunnableIn(sys, pending, NoCommand, i) => Runnable(i)
    BY <2>1, NoCommandType DEF RunnableIn, Runnable, Tombstoned
  <2>3. sys.results \in Seq(Results) /\ sys.deferred \in Seq(Results)
    BY SystemFields DEF IInv, CInv, Typed
  <2>4. Holds(sys.results \o sys.deferred, i)
          <=> Holds(sys.results, i) \/ Holds(sys.deferred, i)
    <3>1. \A a, b \in Seq(Results) : \A k :
            Holds(a \o b, k) <=> Holds(a, k) \/ Holds(b, k)
      BY HoldsConcat
    <3> QED
      BY <2>3, <3>1
  <2> QED
    BY <2>1, <2>2, <2>4 DEF Kept
<1> QED
  BY <1>1, CommandInvariance, PTL

\* Until the first fault, the motion gate, which answers every later motion and
\* every hello with busy, has somebody who will open it.
THEOREM MotionGateOpens == Spec => [](faults = 0 => MotionGateBacked)
<1>1. IInv => (faults = 0 => MotionGateBacked)
  BY NoCommandType
  DEF IInv, CInv, Kept, Backed, RunnableIn, MotionGateBacked, Runnable,
      Tombstoned
<1> QED
  BY <1>1, CommandInvariance, PTL
-----------------------------------------------------------------------------
(* What a step does to the action and to the scope of a STOP.              *)

\* Every terminal that t has and s had not is one of R.
NewTerminals(s, t, R) ==
  \A n \in DOMAIN t.ended : \/ \E m \in DOMAIN s.ended : t.ended[n] = s.ended[m]
                            \/ t.ended[n] \in R

\* Whatever of s has a terminal in t only is covered by the STOP that waits.
Covers(s, t) ==
  \A n \in DOMAIN t.ended :
    \/ \E m \in DOMAIN s.ended : t.ended[n] = s.ended[m]
    \/ \A c \in {s.action} \cup {s.cmds[k] : k \in DOMAIN s.cmds} :
         c.id # 0 /\ c.id = t.ended[n].id => c.mask \subseteq t.slot.mask

\* A terminal leaves the queue, the slot and the action alone.
LEMMA StoreEnds ==
  ASSUME NEW s \in Systems, NEW r \in Results
  PROVE  LET t == Store(s, r) IN
         /\ t \in Systems /\ SameQueue(s, t) /\ t.slot = s.slot
         /\ t.action = s.action /\ NewTerminals(s, t, {r})
<1>1. CASE CanStore(s)
  <2> DEFINE t == Store(s, r)
  <2>1. Stored(s, t, r)
    BY <1>1, StoreEffect
  <2> HIDE DEF t
  <2>2. t \in Systems /\ SameQueue(s, t) /\ t.slot = s.slot
        /\ t.action = s.action /\ t.ended = Append(s.ended, r)
    BY <2>1 DEF Stored
  <2>3. s.ended \in Seq(Results)
    BY SystemFields
  <2>4. NewTerminals(s, t, {r})
    BY <2>2, <2>3 DEF NewTerminals
  <2> QED
    BY <2>2, <2>4 DEF t
<1>2. CASE ~CanStore(s)
  BY <1>2 DEF Store, SameQueue, NewTerminals
<1> QED
  BY <1>1, <1>2

\* An action ends with its own terminal, or goes on.
LEMMA CompleteEnds ==
  ASSUME NEW s \in Systems, NEW code \in Codes
  PROVE  LET t == Complete(s, code) IN
         /\ t \in Systems /\ SameQueue(s, t) /\ t.slot = s.slot
         /\ t.action \in {s.action, NoCommand}
         /\ NewTerminals(s, t, {Result(s.action, code)})
<1> DEFINE t == Complete(s, code)
           r == Result(s.action, code)
<1>1. CASE CanStore(s)
  <2>1. /\ t \in Systems /\ SameQueue(s, t) /\ t.slot = s.slot
        /\ t.action = NoCommand /\ Stored(Activate(s, NoCommand), t, r)
    BY <1>1, CompleteEffect
  <2>2. Activate(s, NoCommand).ended = s.ended
    BY ActivateEffect, NoCommandType DEF SameStores
  <2> HIDE DEF t, r
  <2>3. t.ended = Append(s.ended, r) /\ r \in Results /\ s.ended \in Seq(Results)
    BY <2>1, <2>2, SystemFields DEF Stored
  <2>4. NewTerminals(s, t, {r})
    BY <2>3 DEF NewTerminals
  <2> QED
    BY <2>1, <2>4 DEF t, r
<1>2. CASE ~CanStore(s)
  BY <1>2 DEF Complete, SameQueue, NewTerminals
<1> QED
  BY <1>1, <1>2

\* Widening adds to the scope of the STOP that waits.
LEMMA WidenScope ==
  ASSUME NEW s \in Systems, NEW mask \in SUBSET Motors, StopPending(s)
  PROVE  /\ WidenPendingStop(s, mask).slot.mask = s.slot.mask \cup mask
         /\ WidenPendingStop(s, mask).slot.id = s.slot.id
<1> DEFINE c == [s.slot EXCEPT !.mask = @ \cup mask]
<1>1. s.slot \in Commands
  BY SystemFields
<1>2. c.mask = s.slot.mask \cup mask /\ c.id = s.slot.id
  BY <1>1 DEF Commands
<1>3. WidenPendingStop(s, mask) = [s EXCEPT !.slot = c]
  BY <1>1 DEF WidenPendingStop, Systems
<1> HIDE DEF c
<1>4. WidenPendingStop(s, mask).slot = c
  BY <1>3 DEF Systems
<1> QED
  BY <1>2, <1>4

\* A global cancellation ends the action and the queued motion; the STOP that
\* waits, if any, goes on waiting and covers both.
LEMMA GlobalCancelScope ==
  ASSUME NEW calm, NEW s, NEW p, NEW rq, CInv(calm, s, p, NoCommand, rq), ~calm,
         NEW code \in Codes
  PROVE  LET t == GlobalCancel(s, code) IN
         /\ t \in Systems /\ t.action \in {s.action, NoCommand}
         /\ s.slot # NoCommand => t.slot.id = s.slot.id /\ Covers(s, t)
<1> DEFINE a == WidenPendingStop(s, s.action.mask)
           b == IF Idle(s) THEN a ELSE Complete(a, code)
           c == QueuedMotion(b)
           u == TakeQueuedMotion(b)
           v == WidenPendingStop(u, c.mask)
           f == FailQueuedMotion(b)
           t == CancelPendingNormal(f)
           A == Result(s.action, code)
           C == Result(c, "FAILED")
<1>1. /\ s \in Systems /\ s.action \in Commands /\ s.action.mask \in SUBSET Motors
      /\ s.slot = NoCommand \/ s.slot.id # 0
      /\ s.slot \in Commands
  <2>1. s \in Systems /\ s.action \in Commands /\ s.slot \in Commands
    BY SystemFields DEF CInv, Typed
  <2> QED
    BY <2>1, SlotId DEF Commands
<1>2. /\ CInv(calm, a, p, NoCommand, rq)
      /\ a \in Systems /\ SameQueue(s, a) /\ SameGates(s, a)
      /\ a.ended = s.ended /\ a.action = s.action
      /\ SameCommand(s.slot, a.slot)
      /\ StopPending(s) => s.action.mask \subseteq a.slot.mask
  BY <1>1, WidenKeeps, WidenEffect, WidenScope DEF SameStores
<1> HIDE DEF a
<1>3. CInv(calm, b, p, NoCommand, rq)
  BY <1>2, CompleteKeeps
<1>4. /\ b \in Systems /\ SameQueue(a, b) /\ b.slot = a.slot
      /\ b.action \in {s.action, NoCommand}
      /\ NewTerminals(s, b, {A})
  <2>1. CASE Idle(s)
    BY <1>2, <2>1 DEF SameQueue, NewTerminals
  <2>2. CASE ~Idle(s)
    BY <1>2, <2>2, CompleteEnds DEF NewTerminals
  <2> QED
    BY <2>1, <2>2
<1> HIDE DEF b
<1>5. ASSUME CanTakeQueuedMotion(b)
      PROVE  /\ \E k \in DOMAIN s.cmds : c = s.cmds[k]
             /\ c \in Commands /\ c.mask \in SUBSET Motors
             /\ C \in Results /\ C.id = c.id
  <2>1. c \in QueuedMotions(b)
    BY <1>5 DEF CanTakeQueuedMotion, QueuedMotion
  <2> HIDE DEF c
  <2>2. c \in Commands /\ \E k \in DOMAIN s.cmds : c = s.cmds[k]
    BY <1>2, <1>3, <1>4, <2>1, QueuedId DEF QueuedMotions, SameQueue
  <2>3. c.mask \in SUBSET Motors /\ "FAILED" \in Codes
    BY <2>2 DEF Commands, Codes
  <2> QED
    BY <2>2, <2>3, ResultType
<1>6. ASSUME CanTakeQueuedMotion(b)
      PROVE  /\ f \in Systems /\ f.action = b.action
             /\ SameCommand(b.slot, f.slot)
             /\ NewTerminals(b, f, {C})
             /\ StopPending(b) => b.slot.mask \cup c.mask \subseteq f.slot.mask
  <2>1. f = Store(v, C)
    BY <1>6 DEF FailQueuedMotion
  <2>2. /\ u \in Systems /\ u.slot = b.slot /\ u.action = b.action
        /\ u.ended = b.ended
    BY <1>4, TakeEffect DEF SameStores
  <2>3. c.mask \in SUBSET Motors /\ C \in Results
    BY <1>5, <1>6
  <2>4. b.slot = NoCommand \/ b.slot.id # 0
    BY <1>3, SlotId
  <2> HIDE DEF c, C, u, f
  <2>5. /\ v \in Systems /\ SameCommand(b.slot, v.slot)
        /\ v.action = b.action /\ v.ended = b.ended
        /\ StopPending(b) => b.slot.mask \cup c.mask \subseteq v.slot.mask
    BY <2>2, <2>3, <2>4, WidenEffect, WidenScope DEF SameStores, StopPending
  <2> HIDE DEF v
  <2>6. /\ f \in Systems /\ f.slot = v.slot /\ f.action = v.action
        /\ NewTerminals(v, f, {C})
    BY <2>1, <2>3, <2>5, StoreEnds
  <2> QED
    BY <2>5, <2>6 DEF NewTerminals
<1>7. /\ f \in Systems /\ f.action \in {s.action, NoCommand}
      /\ SameCommand(s.slot, f.slot)
      /\ StopPending(s) => s.action.mask \subseteq f.slot.mask
      /\ \/ NewTerminals(s, f, {A})
         \/ /\ NewTerminals(s, f, {A, C})
            /\ StopPending(s) => c.mask \subseteq f.slot.mask
            /\ \E k \in DOMAIN s.cmds : c = s.cmds[k]
            /\ C.id = c.id
  <2>1. CASE ~CanTakeQueuedMotion(b)
    <3>1. f = b
      BY <2>1 DEF FailQueuedMotion
    <3> QED
      BY <1>2, <1>4, <3>1
  <2>2. CASE CanTakeQueuedMotion(b)
    <3> HIDE DEF c, C, f, A
    <3>1. StopPending(b) <=> StopPending(s)
      BY <1>2, <1>4 DEF SameCommand, StopPending
    <3>2. NewTerminals(s, f, {A, C})
      BY <1>4, <1>6, <2>2 DEF NewTerminals
    <3>3. SameCommand(s.slot, f.slot)
      BY <1>2, <1>4, <1>6, <2>2 DEF SameCommand
    <3> QED
      BY <1>2, <1>4, <1>5, <1>6, <2>2, <3>1, <3>2, <3>3
  <2> QED
    BY <2>1, <2>2
<1> HIDE DEF f
<1>8. t \in Systems /\ t.action = f.action /\ t.slot = f.slot /\ t.ended = f.ended
  <2>1. <<>> \in Seq(Commands)
    OBVIOUS
  <2> QED
    BY <1>7, <2>1 DEF CancelPendingNormal, Systems
<1>9. A.id = s.action.id
  BY <1>1, ResultType
<1> HIDE DEF t, A, C, c
<1>10. ASSUME s.slot # NoCommand
       PROVE  t.slot.id = s.slot.id /\ Covers(s, t)
  <2>1. t.slot.id = s.slot.id
    BY <1>7, <1>8 DEF SameCommand
  <2>2. s.action.mask \subseteq t.slot.mask
    BY <1>7, <1>8, <1>10 DEF StopPending
  <2>3. \A k \in DOMAIN s.cmds : s.cmds[k].id # s.action.id
    BY DEF CInv, Distinct
  <2>4. \A k, m \in DOMAIN s.cmds : s.cmds[k].id = s.cmds[m].id => k = m
    BY DEF CInv, Distinct
  <2>5. CASE NewTerminals(s, f, {A})
    BY <1>8, <1>9, <2>1, <2>2, <2>3, <2>5 DEF NewTerminals, Covers
  <2>6. CASE /\ NewTerminals(s, f, {A, C})
             /\ StopPending(s) => c.mask \subseteq f.slot.mask
             /\ \E k \in DOMAIN s.cmds : c = s.cmds[k]
             /\ C.id = c.id
    <3>1. c.mask \subseteq t.slot.mask
      BY <1>8, <1>10, <2>6 DEF StopPending
    <3>2. PICK k \in DOMAIN s.cmds : c = s.cmds[k]
      BY <2>6
    <3>3. SUFFICES ASSUME NEW n \in DOMAIN t.ended,
                          ~\E m \in DOMAIN s.ended : t.ended[n] = s.ended[m],
                          NEW d \in {s.action} \cup
                                    {s.cmds[j] : j \in DOMAIN s.cmds},
                          d.id = t.ended[n].id
                   PROVE  d.mask \subseteq t.slot.mask
      BY <2>1 DEF Covers
    <3>4. t.ended[n] = A \/ t.ended[n] = C
      BY <1>8, <2>6, <3>3 DEF NewTerminals
    <3>5. CASE t.ended[n] = A
      BY <1>9, <2>2, <2>3, <3>3, <3>5
    <3>6. CASE t.ended[n] = C
      BY <2>3, <2>4, <2>6, <3>1, <3>2, <3>3, <3>6
    <3> QED
      BY <3>4, <3>5, <3>6
  <2> QED
    BY <1>7, <2>1, <2>5, <2>6
<1>11. GlobalCancel(s, code) = t
  BY DEF GlobalCancel, t, f, b, a
<1> QED
  BY <1>7, <1>8, <1>10, <1>11
-----------------------------------------------------------------------------
(* ... and what each action does.                                          *)

\* The step StopHoldsOthersBack asks for.
OthersHeld ==
  /\ sys.stop # 0 /\ Runnable(sys.stop) /\ pending.kind # "stop"
  /\ sys'.action.id # sys.action.id
  => sys'.action.kind = "stop" \/ Idle(sys')

\* The step StopCoversCancelled asks for.
ScopeKept ==
  \A c \in {sys.action} \cup ToSet(sys.cmds) :
    /\ sys.slot # NoCommand
    /\ NewlyEnded(c, {"CANCELLED"}
                       \cup (IF faults' # faults THEN {"FAILED"} ELSE {}))
    => \E stop \in {sys'.slot, sys'.action} :
         stop.id = sys.slot.id /\ c.mask \subseteq stop.mask

\* The flush moves terminals and opens gates only.
LEMMA NowSame ==
  ASSUME IInv
  PROVE  /\ sys \in Systems /\ now \in Systems
         /\ SameQueue(sys, now) /\ now.slot = sys.slot
         /\ now.action = sys.action /\ now.ended = sys.ended
<1>1. sys \in Systems /\ Len(sys.results) <= ResultCapacity
  BY DEF IInv, CInv, Typed, Ordered
<1>2. PICK n \in 0..Len(sys.deferred) : Flushed(sys, Flush(sys), n)
  BY <1>1, FlushEffect
<1> QED
  BY <1>1, <1>2 DEF now, Flushed

\* An action that goes on, ends or gives way to a STOP.
LEMMA NoOtherStarts ==
  ASSUME \/ sys'.action.id = sys.action.id
         \/ sys'.action = NoCommand
         \/ sys'.action.kind = "stop"
  PROVE  OthersHeld
  BY DEF OthersHeld, Idle

\* A step that is no fault and cancels nothing has no scope to keep.
LEMMA NothingCancelled ==
  ASSUME faults' = faults, NEW R, NewTerminals(sys, sys', R),
         \A r \in R : r.code # "CANCELLED"
  PROVE  ScopeKept
  BY DEF ScopeKept, NewlyEnded, NewTerminals, Ended, Holds

\* A step in which nothing ends has no scope to keep.
LEMMA NothingEnded ==
  ASSUME sys'.ended = sys.ended
  PROVE  ScopeKept
  BY DEF ScopeKept, NewlyEnded, Ended, Holds

\* A STOP that goes on waiting and covers what ended.
LEMMA CoveredWaiting ==
  ASSUME sys.slot # NoCommand =>
           sys'.slot.id = sys.slot.id /\ Covers(sys, sys')
  PROVE  ScopeKept
<1> SUFFICES ASSUME NEW c \in {sys.action} \cup ToSet(sys.cmds),
                    sys.slot # NoCommand, c.id # 0, ~Ended(c.id),
                    NEW n \in DOMAIN sys'.ended, sys'.ended[n].id = c.id
             PROVE  c.mask \subseteq sys'.slot.mask
  BY DEF ScopeKept, NewlyEnded
<1>1. c \in {sys.action} \cup {sys.cmds[k] : k \in DOMAIN sys.cmds}
  BY DEF ToSet
<1>2. ~\E m \in DOMAIN sys.ended : sys'.ended[n] = sys.ended[m]
  BY DEF Ended, Holds
<1> QED
  BY <1>1, <1>2 DEF Covers

\* A STOP that starts and covers the one command that ended.
LEMMA CoveredStarting ==
  ASSUME NEW r, NewTerminals(sys, sys', {r}),
         sys'.action.id = sys.slot.id,
         \A c \in {sys.action} \cup ToSet(sys.cmds) :
           c.id # 0 /\ c.id = r.id => c.mask \subseteq sys'.action.mask
  PROVE  ScopeKept
<1> SUFFICES ASSUME NEW c \in {sys.action} \cup ToSet(sys.cmds),
                    sys.slot # NoCommand, c.id # 0, ~Ended(c.id),
                    NEW n \in DOMAIN sys'.ended, sys'.ended[n].id = c.id
             PROVE  c.mask \subseteq sys'.action.mask
  BY DEF ScopeKept, NewlyEnded
<1>1. sys'.ended[n] = r
  BY DEF NewTerminals, Ended, Holds
<1> QED
  BY <1>1

\* Each branch of the service keeps the scope of STOP and holds the others back: a
\* fault is exempt, ...
LEMMA GlobalFaultScope ==
  ASSUME IInv, GlobalFault
  PROVE  ScopeKept /\ OthersHeld
<1>1. CInv(FALSE, now, pending, NoCommand, requests) /\ "FAILED" \in Codes
  BY NowKeeps, Weaker DEF Codes
<1>2. sys' = GlobalCancel(now, "FAILED")
  BY DEF GlobalFault
<1>3. /\ sys'.action \in {now.action, NoCommand}
      /\ now.slot # NoCommand => sys'.slot.id = now.slot.id /\ Covers(now, sys')
  BY <1>1, <1>2, GlobalCancelScope
<1>4. /\ sys'.action \in {sys.action, NoCommand}
      /\ sys.slot # NoCommand => sys'.slot.id = sys.slot.id /\ Covers(sys, sys')
  BY <1>3, NowSame DEF SameQueue, Covers
<1> QED
  BY <1>4, CoveredWaiting, NoOtherStarts

\* ... and so is the link timeout, ...
LEMMA WatchdogScope ==
  ASSUME IInv, Watchdog
  PROVE  ScopeKept /\ OthersHeld
<1> DEFINE g == GlobalCancel(now, "CANCELLED")
<1>1. /\ CInv(FALSE, now, pending, NoCommand, requests)
      /\ "CANCELLED" \in Codes /\ "STOPPED" \in Codes
  BY NowKeeps, Weaker DEF Codes
<1>2. /\ g \in Systems /\ g.action \in {now.action, NoCommand}
      /\ now.slot # NoCommand => g.slot.id = now.slot.id /\ Covers(now, g)
  BY <1>1, GlobalCancelScope
<1>3. sys' = Store(g, LinkTimeout)
  BY DEF Watchdog
<1> HIDE DEF g
<1>4. LinkTimeout \in Results /\ LinkTimeout.id = 0
  BY <1>1, NowSame, SystemFields DEF LinkTimeout, Results, Kinds
<1>5. /\ sys'.slot = g.slot /\ sys'.action = g.action
      /\ NewTerminals(g, sys', {LinkTimeout})
  BY <1>2, <1>3, <1>4, StoreEnds
<1>6. /\ sys'.action \in {sys.action, NoCommand}
      /\ sys.slot # NoCommand => sys'.slot.id = sys.slot.id
  BY <1>2, <1>5, NowSame
<1>7. ASSUME sys.slot # NoCommand
      PROVE  Covers(sys, sys')
  <2>1. Covers(now, g)
    BY <1>2, <1>7, NowSame
  <2>2. SUFFICES ASSUME NEW n \in DOMAIN sys'.ended,
                        ~\E m \in DOMAIN sys.ended : sys'.ended[n] = sys.ended[m],
                        NEW c \in {sys.action} \cup
                                  {sys.cmds[k] : k \in DOMAIN sys.cmds},
                        c.id # 0, c.id = sys'.ended[n].id
                 PROVE  c.mask \subseteq sys'.slot.mask
    BY DEF Covers
  <2>3. PICK m \in DOMAIN g.ended : sys'.ended[n] = g.ended[m]
    BY <1>4, <1>5, <2>2 DEF NewTerminals
  <2>4. \A k \in DOMAIN now.ended : g.ended[m] # now.ended[k]
    BY <2>2, <2>3, NowSame
  <2>5. c \in {now.action} \cup {now.cmds[k] : k \in DOMAIN now.cmds}
    BY NowSame DEF SameQueue
  <2> QED
    BY <1>5, <2>1, <2>2, <2>3, <2>4, <2>5 DEF Covers
<1> QED
  BY <1>6, <1>7, CoveredWaiting, NoOtherStarts

\* ... a drive that trips cancels nothing, ...
LEMMA SafetyTripScope ==
  ASSUME IInv, SafetyTrip
  PROVE  ScopeKept /\ OthersHeld
<1>1. CASE sys' = [now EXCEPT !.stage = "cleanup", !.age = 0]
  <2>1. sys'.ended = sys.ended /\ sys'.action = sys.action
    BY <1>1, NowSame DEF Systems
  <2> QED
    BY <2>1, NothingEnded, NoOtherStarts
<1>2. CASE sys' = Complete(now, "FAILED")
  <2> DEFINE r == Result(now.action, "FAILED")
  <2>1. "FAILED" \in Codes /\ r.code # "CANCELLED"
    BY DEF Codes, Result
  <2>2. NewTerminals(now, sys', {r}) /\ sys'.action \in {now.action, NoCommand}
    BY <1>2, <2>1, NowSame, CompleteEnds
  <2> HIDE DEF r
  <2>3. NewTerminals(sys, sys', {r}) /\ sys'.action \in {sys.action, NoCommand}
    BY <2>2, NowSame DEF NewTerminals
  <2> QED
    BY <2>1, <2>3, NothingCancelled, NoOtherStarts DEF SafetyTrip, Keep
<1> QED
  BY <1>1, <1>2 DEF SafetyTrip

\* ... a STOP that runs is widened, ...
LEMMA StopWidensScope ==
  ASSUME IInv, StopWidens
  PROVE  ScopeKept /\ OthersHeld
<1> DEFINE w == WidenPendingStop(now, now.action.mask)
           c == [now.action EXCEPT !.mask = w.slot.mask]
<1>1. CInv(faults = 0, now, pending, NoCommand, requests) /\ now \in Systems
  BY NowKeeps
<1>2. now.action \in Commands /\ now.slot \in Commands
  BY <1>1, SystemFields
<1>3. now.action.mask \in SUBSET Motors
  BY <1>2 DEF Commands
<1>4. w \in Systems /\ w.ended = now.ended
  BY <1>1, <1>3, WidenEffect, SlotId DEF SameStores
<1>5. sys' = Activate(w, c)
  BY DEF StopWidens
<1> HIDE DEF w
<1>6. w.slot \in Commands
  BY <1>4, SystemFields
<1>7. c \in Commands /\ c.id = now.action.id
  BY <1>2, <1>6 DEF Commands
<1> HIDE DEF c
<1>8. sys'.action = c /\ sys'.ended = w.ended
  BY <1>4, <1>5, <1>7, ActivateEffect DEF SameStores
<1> QED
  BY <1>4, <1>7, <1>8, NowSame, NothingEnded, NoOtherStarts

\* ... an action that ends is not cancelled, ...
LEMMA AdvanceScope ==
  ASSUME IInv, Advance
  PROVE  ScopeKept /\ OthersHeld
<1> DEFINE blocked == now.action.kind = "stop" /\ StopPending(now)
           s == IF blocked THEN WidenPendingStop(now, now.action.mask) ELSE now
<1>1. CInv(faults = 0, now, pending, NoCommand, requests) /\ now \in Systems
  BY NowKeeps
<1>2. now.action.mask \in SUBSET Motors
  BY <1>1, SystemFields DEF Commands
<1>3. s \in Systems /\ s.ended = sys.ended /\ s.action = sys.action
  BY <1>1, <1>2, WidenEffect, SlotId, NowSame DEF SameStores
<1>4. \/ sys' = [s EXCEPT !.age = @ + 1]
      \/ \E code \in Outcomes(s.action) \cup {"FAILED"} :
           sys' = Complete(s, code)
      \/ sys' = [s EXCEPT !.stage = "cleanup", !.age = 0]
  BY DEF Advance
<1> HIDE DEF s
<1>5. CASE \/ sys' = [s EXCEPT !.age = @ + 1]
           \/ sys' = [s EXCEPT !.stage = "cleanup", !.age = 0]
  <2>1. sys'.ended = sys.ended /\ sys'.action = sys.action
    BY <1>3, <1>5 DEF Systems
  <2> QED
    BY <2>1, NothingEnded, NoOtherStarts
<1>6. CASE \E code \in Outcomes(s.action) \cup {"FAILED"} :
             sys' = Complete(s, code)
  <2>1. PICK code \in Outcomes(s.action) \cup {"FAILED"} :
          sys' = Complete(s, code)
    BY <1>6
  <2> DEFINE r == Result(s.action, code)
  <2>2. code \in Codes /\ r.code # "CANCELLED"
    BY DEF Outcomes, Codes, Result
  <2>3. NewTerminals(s, sys', {r}) /\ sys'.action \in {s.action, NoCommand}
    BY <1>3, <2>1, <2>2, CompleteEnds
  <2> HIDE DEF r
  <2>4. NewTerminals(sys, sys', {r}) /\ sys'.action \in {sys.action, NoCommand}
    BY <1>3, <2>3 DEF NewTerminals
  <2> QED
    BY <2>2, <2>4, NothingCancelled, NoOtherStarts DEF Advance, Keep
<1> QED
  BY <1>4, <1>5, <1>6

\* ... what a waiting STOP ends it covers, ...
LEMMA StopPreemptsScope ==
  ASSUME IInv, StopPreempts
  PROVE  ScopeKept /\ OthersHeld
<1> DEFINE q == PopStop(now)
           w == Complete(q, "CANCELLED")
           r == Result(q.action, "CANCELLED")
           stop == [now.slot EXCEPT !.mask = @ \cup now.action.mask]
<1>1. /\ CInv(faults = 0, now, pending, NoCommand, requests) /\ now \in Systems
      /\ now.slot # NoCommand /\ sys' \in Start(w, stop)
  BY NowKeeps DEF StopPreempts, StopReady, StopPending
<1>2. now.slot \in Commands /\ now.slot.kind = "stop" /\ now.action \in Commands
  BY <1>1, SystemFields DEF CInv, Named
<1>3. /\ stop \in Commands /\ stop.id = now.slot.id /\ stop.kind = "stop"
      /\ now.action.mask \subseteq stop.mask
  BY <1>2 DEF Commands
<1> HIDE DEF stop
<1>4. /\ q \in Systems /\ q.action = now.action /\ q.ended = now.ended
  BY <1>1, PopStopEffect DEF SameStores
<1>5. "CANCELLED" \in Codes
  BY DEF Codes
<1> HIDE DEF q
<1>6. w \in Systems /\ NewTerminals(q, w, {r}) /\ r.id = now.action.id
  BY <1>2, <1>4, <1>5, CompleteEnds, ResultType
<1> HIDE DEF w, r
<1>7. sys' = Activate(w, stop)
  BY <1>1, <1>3 DEF Start
<1>8. sys'.action = stop /\ sys'.ended = w.ended
  BY <1>3, <1>6, <1>7, ActivateEffect DEF SameStores
<1>9. NewTerminals(sys, sys', {r})
  BY <1>4, <1>6, <1>8, NowSame DEF NewTerminals
<1>10. \A k \in DOMAIN sys.cmds : sys.cmds[k].id # sys.action.id
  BY DEF IInv, CInv, Distinct
<1>11. \A c \in {sys.action} \cup ToSet(sys.cmds) :
         c.id # 0 /\ c.id = r.id => c.mask \subseteq sys'.action.mask
  BY <1>3, <1>6, <1>8, <1>10, NowSame DEF ToSet
<1>12. sys'.action.id = sys.slot.id /\ sys'.action.kind = "stop"
  BY <1>3, <1>8, NowSame
<1> QED
  BY <1>9, <1>11, <1>12, CoveredStarting, NoOtherStarts

\* ... as does the STOP that starts.
LEMMA StopStartsScope ==
  ASSUME IInv, StopStarts
  PROVE  ScopeKept /\ OthersHeld
<1> DEFINE q == PopStop(now)
<1>1. /\ CInv(faults = 0, now, pending, NoCommand, requests) /\ now \in Systems
      /\ sys' \in
           IF ~CanTakeQueuedMotion(q) THEN Start(q, now.slot)
           ELSE Start(Store(TakeQueuedMotion(q),
                            Result(QueuedMotion(q), "CANCELLED")),
                      [now.slot EXCEPT !.mask = @ \cup QueuedMotion(q).mask])
      /\ now.slot # NoCommand
  BY NowKeeps DEF StopStarts, StopReady, StopPending
<1>2. now.slot \in Commands /\ now.slot.kind = "stop"
  BY <1>1, SystemFields DEF CInv, Named
<1>3. q \in Systems /\ q.cmds = now.cmds /\ q.ended = now.ended
  BY <1>1, PopStopEffect DEF SameStores, SameQueue
<1> HIDE DEF q
<1>4. CASE ~CanTakeQueuedMotion(q)
  <2>1. sys' = Activate(q, now.slot)
    BY <1>1, <1>2, <1>4 DEF Start
  <2>2. sys'.action = now.slot /\ sys'.ended = q.ended
    BY <1>2, <1>3, <2>1, ActivateEffect DEF SameStores
  <2> QED
    BY <1>2, <1>3, <2>2, NowSame, NothingEnded, NoOtherStarts
<1>5. CASE CanTakeQueuedMotion(q)
  <2> DEFINE c == QueuedMotion(q)
             u == TakeQueuedMotion(q)
             r == Result(c, "CANCELLED")
             w == Store(u, r)
             stop == [now.slot EXCEPT !.mask = @ \cup c.mask]
  <2>1. sys' \in Start(w, stop)
    BY <1>1, <1>5
  <2>2. PICK k \in DOMAIN sys.cmds : c = sys.cmds[k]
    <3>1. c \in QueuedMotions(q)
      BY <1>5 DEF CanTakeQueuedMotion, QueuedMotion
    <3> HIDE DEF c
    <3> QED
      BY <1>3, <3>1, NowSame DEF QueuedMotions, SameQueue
  <2>3. c \in Commands
    BY <2>2, NowSame, SystemFields
  <2> HIDE DEF c
  <2>4. /\ stop \in Commands /\ stop.id = now.slot.id /\ stop.kind = "stop"
        /\ c.mask \subseteq stop.mask
    BY <1>2, <2>3 DEF Commands
  <2>5. u \in Systems /\ u.ended = q.ended
    BY <1>3, TakeEffect DEF SameStores
  <2>6. r \in Results /\ r.id = c.id
    BY <2>3, ResultType DEF Codes
  <2> HIDE DEF stop, u, r
  <2>7. w \in Systems /\ NewTerminals(u, w, {r})
    BY <2>5, <2>6, StoreEnds
  <2> HIDE DEF w
  <2>8. sys' = Activate(w, stop)
    BY <2>1, <2>4 DEF Start
  <2>9. sys'.action = stop /\ sys'.ended = w.ended
    BY <2>4, <2>7, <2>8, ActivateEffect DEF SameStores
  <2>10. NewTerminals(sys, sys', {r})
    BY <1>3, <2>5, <2>7, <2>9, NowSame DEF NewTerminals
  <2>11. \A m \in DOMAIN sys.cmds : /\ sys.cmds[m].id # sys.action.id
                                    /\ sys.cmds[m].id = sys.cmds[k].id => m = k
    BY <2>2 DEF IInv, CInv, Distinct
  <2>12. \A d \in {sys.action} \cup ToSet(sys.cmds) :
           d.id # 0 /\ d.id = r.id => d.mask \subseteq sys'.action.mask
    BY <2>2, <2>4, <2>6, <2>9, <2>11 DEF ToSet
  <2>13. sys'.action.id = sys.slot.id /\ sys'.action.kind = "stop"
    BY <2>4, <2>9, NowSame
  <2> QED
    BY <2>10, <2>12, <2>13, CoveredStarting, NoOtherStarts
<1> QED
  BY <1>4, <1>5

\* A STOP that is unfinished while nothing is active waits in its slot, unless
\* its terminal is deferred; then no ordinary command starts.
LEMMA CommandStartsScope ==
  ASSUME IInv, CommandStarts
  PROVE  ScopeKept /\ OthersHeld
<1> DEFINE s == SkipTombstone(now)
<1>1. CInv(faults = 0, now, pending, NoCommand, requests) /\ now \in Systems
  BY NowKeeps
<1>2. /\ s \in Systems /\ s.action = now.action /\ s.deferred = now.deferred
  BY <1>1, SkipKeeps DEF CInv, Typed
<1>3. s.ended = now.ended
  BY <1>1 DEF SkipTombstone, Systems
<1>4. /\ now.action = NoCommand /\ ~StopReady /\ Keep
      /\ \/ sys' = now
         \/ sys' = s
         \/ /\ now.deferred = <<>> /\ s.cmds # <<>>
            /\ sys' \in Start(PopCommand(s), Head(s.cmds))
  BY DEF CommandStarts, Idle
<1> HIDE DEF s
<1>5. CASE sys' = now \/ sys' = s
  BY <1>2, <1>3, <1>5, NowSame, NothingEnded, NoOtherStarts
<1>6. CASE /\ now.deferred = <<>> /\ s.cmds # <<>>
           /\ sys' \in Start(PopCommand(s), Head(s.cmds))
  <2> DEFINE u == PopCommand(s)
             c == Head(s.cmds)
  <2>1. u \in Systems /\ u.ended = s.ended /\ u.action = s.action
    BY <1>2, <1>6, PopCommandEffect DEF SameStores
  <2>2. c \in Commands
    <3>1. s.cmds \in Seq(Commands)
      BY <1>2, SystemFields
    <3> QED
      BY <1>6, <3>1
  <2>3. \/ sys' = Activate(u, c)
        \/ \E code \in {"COMPLETED", "FAILED"} :
             sys' = Store(u, Result(c, code))
    BY <1>6 DEF Start
  <2> HIDE DEF u, c
  <2>4. ScopeKept
    <3>1. CASE sys' = Activate(u, c)
      <4>1. sys'.ended = u.ended
        BY <2>1, <2>2, <3>1, ActivateEffect DEF SameStores
      <4> QED
        BY <1>3, <2>1, <4>1, NowSame, NothingEnded
    <3>2. CASE \E code \in {"COMPLETED", "FAILED"} :
                 sys' = Store(u, Result(c, code))
      <4>1. PICK code \in {"COMPLETED", "FAILED"} :
              sys' = Store(u, Result(c, code))
        BY <3>2
      <4> DEFINE r == Result(c, code)
      <4>2. r \in Results /\ r.code # "CANCELLED"
        <5>1. code \in Codes
          BY DEF Codes
        <5>2. r.code # "CANCELLED"
          BY DEF Result
        <5> QED
          BY <2>2, <5>1, <5>2, ResultType
      <4> HIDE DEF r
      <4>3. NewTerminals(u, sys', {r})
        BY <2>1, <4>1, <4>2, StoreEnds DEF r
      <4>4. NewTerminals(sys, sys', {r})
        BY <1>3, <2>1, <4>3, NowSame DEF NewTerminals
      <4> QED
        BY <1>4, <4>2, <4>4, NothingCancelled DEF Keep
    <3> QED
      BY <2>3, <3>1, <3>2
  <2>5. ASSUME sys.stop # 0, Runnable(sys.stop), pending.kind # "stop"
        PROVE  FALSE
    <3>1. sys.slot = NoCommand /\ sys.action = NoCommand
      <4>1. DeferredRoom(now)
        BY <1>6, DeferredAssumption DEF DeferredRoom
      <4> QED
        BY <1>4, <4>1, NowSame DEF StopReady, StopPending
    <3>2. sys.stop \in DOMAIN requests /\ requests[sys.stop].kind = "stop"
      BY <2>5 DEF IInv, CInv, Named, KindOf
    <3>3. pending.id # sys.stop
      BY <2>5, <3>2, NoCommandType DEF IInv, CInv, Named, Known
    <3>4. \A n \in DOMAIN sys.cmds : sys.cmds[n].id # sys.stop
      BY <3>2 DEF IInv, CInv, Named, Known
    <3> QED
      BY <2>5, <3>1, <3>3, <3>4, NoCommandType DEF Runnable
  <2> QED
    BY <2>4, <2>5 DEF OthersHeld
<1> QED
  BY <1>4, <1>5, <1>6

\* ProtocolTask touches neither the action nor the history.
LEMMA ProtocolScope ==
  ASSUME IInv,
         \/ Protocol
         \/ Hello
         \/ \E kind \in KindsOf(sys), m \in Motors : Line(kind, {m})
  PROVE  ScopeKept /\ OthersHeld
<1>1. sys \in Systems
  BY NowSame
<1>2. sys'.ended = sys.ended /\ sys'.action = sys.action
  <2>1. CASE Drain
    BY <1>1, <2>1, PopResultEffect DEF Drain
  <2>2. CASE EndDrain \/ EndPass
    BY <2>2 DEF EndDrain, EndPass
  <2>3. CASE PublishPending
    BY <1>1, <2>3 DEF PublishPending, Publish, Systems
  <2>4. CASE Hello
    BY <1>1, <2>4 DEF Hello, Teardown, RotateSession, Systems
  <2>5. CASE \E kind \in KindsOf(sys), m \in Motors : Line(kind, {m})
    BY <1>1, <2>5 DEF Line, Claim, Systems
  <2> QED
    BY <2>1, <2>2, <2>3, <2>4, <2>5 DEF Protocol
<1> QED
  BY <1>2, NothingEnded, NoOtherStarts

\* Every step keeps the scope and holds the others back.
LEMMA ScopeStep ==
  ASSUME IInv, [Next]_vars
  PROVE  ScopeKept /\ OthersHeld
<1>1. CASE Next
  BY <1>1, GlobalFaultScope, WatchdogScope, SafetyTripScope, StopPreemptsScope,
     StopWidensScope, AdvanceScope, StopStartsScope, CommandStartsScope,
     ProtocolScope DEF Next, Service
<1>2. CASE UNCHANGED vars
  BY <1>2, NothingEnded, NoOtherStarts DEF vars
<1> QED
  BY <1>1, <1>2

\* Motors are never dropped from the scope of a STOP: whenever a STOP or a global
\* fault cancels a command while a STOP is pending, that STOP covers its motors.
THEOREM StopsCoverWhatTheyCancel == Spec => StopCoversCancelled
<1>1. IInv /\ [Next]_vars => [ScopeKept]_vars
  BY ScopeStep
<1> QED
  BY <1>1, CommandInvariance, PTL DEF Spec, StopCoversCancelled, ScopeKept

\* While an accepted STOP is unfinished no ordinary command becomes the action.
THEOREM StopsHoldOthersBack == Spec => StopHoldsOthersBack
<1>1. IInv /\ [Next]_vars => [OthersHeld]_vars
  BY ScopeStep
<1> QED
  BY <1>1, CommandInvariance, PTL DEF Spec, StopHoldsOthersBack, OthersHeld
-----------------------------------------------------------------------------
(* The contract of the requests: one service call, operation by operation. *)

\* Request i can still run: it is one of H (those that the service, or
\* ProtocolTask, has in its hands), waits or is active.
Alive(s, H, i) ==
  \/ i \in H \cup {s.slot.id, s.action.id}
  \/ \E n \in DOMAIN s.cmds : s.cmds[n].id = i /\ s.cmds[n].id # s.tomb

\* From s to t nothing comes to life; who gets a terminal was alive, is no longer
\* and gets no other; whose terminal is stored had it stored or was alive.
Serves(s, G, t, H) ==
  /\ \A n \in DOMAIN s.ended : n \in DOMAIN t.ended /\ t.ended[n] = s.ended[n]
  /\ \A n \in DOMAIN t.ended \ DOMAIN s.ended :
       \/ t.ended[n].id = 0
       \/ Alive(s, G, t.ended[n].id) /\ ~Alive(t, H, t.ended[n].id)
  /\ \A m, n \in DOMAIN t.ended \ DOMAIN s.ended :
       t.ended[m].id = t.ended[n].id => t.ended[m].id = 0 \/ m = n
  /\ \A i \in Nat \ {0} : Alive(t, H, i) => Alive(s, G, i)
  /\ \A i \in Nat \ {0} :
       Holds(t.results, i) \/ Holds(t.deferred, i)
         => Holds(s.results, i) \/ Holds(s.deferred, i) \/ Alive(s, G, i)

\* One operation after the other.
LEMMA ServesOn ==
  ASSUME NEW s, NEW G, NEW t \in Systems, NEW H, NEW u \in Systems, NEW K,
         Serves(s, G, t, H), Serves(t, H, u, K)
  PROVE  Serves(s, G, u, K)
<1>1. /\ \A n \in DOMAIN t.ended : t.ended[n].id \in Nat
      /\ \A n \in DOMAIN u.ended : u.ended[n].id \in Nat
  <2>1. t.ended \in Seq(Results) /\ u.ended \in Seq(Results)
    BY SystemFields
  <2>2. /\ \A n \in DOMAIN t.ended : t.ended[n] \in Results
        /\ \A n \in DOMAIN u.ended : u.ended[n] \in Results
    BY <2>1
  <2> QED
    BY <2>2 DEF Results
<1>2. \A n \in DOMAIN s.ended : n \in DOMAIN u.ended /\ u.ended[n] = s.ended[n]
  BY DEF Serves
<1>3. \A i \in Nat \ {0} : Alive(u, K, i) => Alive(s, G, i)
  BY DEF Serves
<1>4. \A i \in Nat \ {0} :
        Holds(u.results, i) \/ Holds(u.deferred, i)
          => Holds(s.results, i) \/ Holds(s.deferred, i) \/ Alive(s, G, i)
  BY DEF Serves
<1>5. ASSUME NEW n \in DOMAIN u.ended \ DOMAIN s.ended, u.ended[n].id # 0
      PROVE  /\ Alive(s, G, u.ended[n].id) /\ ~Alive(u, K, u.ended[n].id)
             /\ n \in DOMAIN t.ended => t.ended[n] = u.ended[n]
                                          /\ ~Alive(t, H, u.ended[n].id)
             /\ n \notin DOMAIN t.ended => Alive(t, H, u.ended[n].id)
  BY <1>1, <1>5 DEF Serves
<1>6. ASSUME NEW m \in DOMAIN u.ended \ DOMAIN s.ended,
             NEW n \in DOMAIN u.ended \ DOMAIN s.ended,
             u.ended[m].id = u.ended[n].id, u.ended[m].id # 0
      PROVE  m = n
  <2>1. CASE m \in DOMAIN t.ended /\ n \in DOMAIN t.ended
    BY <1>5, <1>6, <2>1 DEF Serves
  <2>2. CASE m \notin DOMAIN t.ended /\ n \notin DOMAIN t.ended
    BY <1>6, <2>2 DEF Serves
  <2> QED
    BY <1>5, <1>6, <2>1, <2>2
<1> QED
  BY <1>2, <1>3, <1>4, <1>5, <1>6 DEF Serves

\* An operation that stores nothing.
LEMMA ServesStill ==
  ASSUME NEW s, NEW G, NEW t, NEW H, SameStores(s, t),
         \A i \in Nat \ {0} : Alive(t, H, i) => Alive(s, G, i)
  PROVE  Serves(s, G, t, H)
  BY DEF Serves, SameStores

\* ... nor touches the queue.
LEMMA ServesSame ==
  ASSUME NEW s, NEW G, NEW t, NEW H, SameStores(s, t), SameQueue(s, t),
         \A i \in H \cup {t.slot.id, t.action.id} :
           i = 0 \/ i \in G \cup {s.slot.id, s.action.id}
  PROVE  Serves(s, G, t, H)
<1>1. \A i \in Nat \ {0} : Alive(t, H, i) => Alive(s, G, i)
  BY DEF Alive, SameQueue
<1> QED
  BY <1>1, ServesStill

\* A terminal of what the service has in its hand, or of no request.
LEMMA ServesStored ==
  ASSUME NEW s \in Systems, NEW G, NEW t, NEW r, Stored(s, t, r),
         r.id = 0 \/ (r.id \in G /\ ~Alive(s, G \ {r.id}, r.id))
  PROVE  Serves(s, G, t, G \ {r.id})
<1> DEFINE H == G \ {r.id}
           e == s.ended
           k == Len(e) + 1
<1>1. e \in Seq(Results) /\ r \in Results
  BY SystemFields DEF Stored
<1>2. /\ DOMAIN t.ended = DOMAIN e \cup {k} /\ k \notin DOMAIN e
      /\ t.ended[k] = r /\ \A n \in DOMAIN e : t.ended[n] = e[n]
  BY <1>1 DEF Stored
<1>3. \A i : Alive(t, H, i) <=> Alive(s, H, i)
  BY DEF Alive, Stored, SameQueue
<1>4. \A i : Alive(s, H, i) => Alive(s, G, i)
  BY DEF Alive
<1>5. r.id = 0 \/ (Alive(s, G, r.id) /\ ~Alive(t, H, r.id))
  BY <1>3 DEF Alive
<1>6. \A i : Holds(t.results, i) \/ Holds(t.deferred, i)
               => Holds(s.results, i) \/ Holds(s.deferred, i) \/ i = r.id
  BY StoredHolds
<1> HIDE DEF e, k, H
<1>7. \A n \in DOMAIN s.ended : n \in DOMAIN t.ended /\ t.ended[n] = s.ended[n]
  BY <1>2 DEF e
<1>8. \A n \in DOMAIN t.ended \ DOMAIN s.ended : n = k /\ t.ended[n] = r
  BY <1>2 DEF e
<1>9. Serves(s, G, t, H)
  BY <1>3, <1>4, <1>5, <1>6, <1>7, <1>8 DEF Serves
<1> QED
  BY <1>9 DEF H

\* Storing it, if there is room.
LEMMA StoreServes ==
  ASSUME NEW s \in Systems, NEW G, NEW r \in Results,
         r.id = 0 \/ (r.id \in G /\ ~Alive(s, G \ {r.id}, r.id))
  PROVE  /\ Serves(s, G, Store(s, r), G \ {r.id})
         /\ Store(s, r) \in Systems
<1>1. CASE CanStore(s)
  <2>1. Stored(s, Store(s, r), r)
    BY <1>1, StoreEffect
  <2> QED
    BY <2>1, ServesStored DEF Stored
<1>2. CASE ~CanStore(s)
  <2>1. Store(s, r) = s
    BY <1>2 DEF Store
  <2>2. SameStores(s, s) /\ \A i : Alive(s, G \ {r.id}, i) => Alive(s, G, i)
    BY DEF SameStores, Alive
  <2>3. Serves(s, G, s, G \ {r.id})
    BY <2>2, ServesStill
  <2> QED
    BY <2>1, <2>3
<1> QED
  BY <1>1, <1>2

\* The action ends with its terminal, or waits for room.
LEMMA CompleteServes ==
  ASSUME NEW s \in Systems, NEW H, NEW code \in Codes,
         s.action.id \notin H, s.action.id # s.slot.id \/ s.action.id = 0,
         \A n \in DOMAIN s.cmds : s.cmds[n].id # s.action.id
  PROVE  Serves(s, H, Complete(s, code), H)
<1> DEFINE t == Complete(s, code)
           a == Activate(s, NoCommand)
           i == s.action.id
           G == H \cup {i}
           r == Result(s.action, code)
<1>1. s.action \in Commands
  BY SystemFields
<1>2. r \in Results /\ r.id = i
  BY <1>1, ResultType
<1>3. /\ a \in Systems /\ SameQueue(s, a) /\ SameStores(s, a)
      /\ a.slot = s.slot /\ a.action = NoCommand
  BY NoCommandType, ActivateEffect
<1>4. t \in Systems /\ (CanStore(s) => Stored(a, t, r)) /\ (~CanStore(s) => t = s)
  BY CompleteEffect
<1> HIDE DEF a, r, t
<1>5. Serves(s, H, a, G)
  BY <1>3, NoCommandType, ServesSame
<1>6. G \ {i} = H
  OBVIOUS
<1>7. i = 0 \/ (i \in G /\ ~Alive(a, H, i))
  BY <1>3, NoCommandType DEF Alive, SameQueue
<1> HIDE DEF G, i
<1>8. CASE CanStore(s)
  <2>1. Serves(a, G, t, H)
    BY <1>2, <1>3, <1>4, <1>6, <1>7, <1>8, ServesStored
  <2> QED
    BY <1>3, <1>4, <1>5, <2>1, ServesOn DEF t
<1>9. CASE ~CanStore(s)
  <2>1. Serves(s, H, s, H)
    BY ServesSame DEF SameStores, SameQueue
  <2> QED
    BY <1>4, <1>9, <2>1 DEF t
<1> QED
  BY <1>8, <1>9

\* The queued motion is taken into the hand; its tombstone stays behind.
LEMMA TakeServes ==
  ASSUME NEW s \in Systems, NEW G, CanTakeQueuedMotion(s)
  PROVE  Serves(s, G, TakeQueuedMotion(s), G \cup {QueuedMotion(s).id})
<1> DEFINE t == TakeQueuedMotion(s)
           c == QueuedMotion(s)
<1>1. c \in QueuedMotions(s)
  BY DEF CanTakeQueuedMotion, QueuedMotion
<1> HIDE DEF c
<1>2. PICK k \in DOMAIN s.cmds : s.cmds[k] = c
  BY <1>1 DEF QueuedMotions
<1>3. s.tomb = 0
  BY DEF CanTakeQueuedMotion
<1>4. /\ SameStores(s, t) /\ t.cmds = s.cmds
      /\ t.slot = s.slot /\ t.action = s.action
  BY TakeEffect
<1> HIDE DEF t
<1>5. \A i \in Nat \ {0} : Alive(t, G \cup {c.id}, i) => Alive(s, G, i)
  BY <1>2, <1>3, <1>4 DEF Alive
<1>6. Serves(s, G, t, G \cup {c.id})
  BY <1>4, <1>5, ServesStill
<1> QED
  BY <1>6 DEF t, c

\* Once it is taken it is nowhere else.
LEMMA TakenIsGone ==
  ASSUME NEW calm, NEW s, NEW p, NEW rq, CInv(calm, s, p, NoCommand, rq),
         CanTakeQueuedMotion(s)
  PROVE  LET t == TakeQueuedMotion(s)
             c == QueuedMotion(s)
         IN /\ t \in Systems /\ c \in Commands /\ c.id = t.tomb
            /\ t.slot = s.slot /\ t.action = s.action /\ t.cmds = s.cmds
            /\ c.id \notin {s.slot.id, s.action.id}
<1> DEFINE t == TakeQueuedMotion(s)
           c == QueuedMotion(s)
<1>1. c \in QueuedMotions(s)
  BY DEF CanTakeQueuedMotion, QueuedMotion
<1> HIDE DEF c
<1>2. PICK k \in DOMAIN s.cmds : s.cmds[k] = c /\ c.id = s.motion
  BY <1>1 DEF QueuedMotions
<1>3. c \in Commands
  BY <1>2, QueuedId
<1>4. s \in Systems /\ c.id \notin {s.slot.id, s.action.id}
  BY <1>2 DEF CInv, Typed, Distinct
<1>5. /\ t \in Systems /\ t.cmds = s.cmds /\ t.tomb = s.motion
      /\ t.slot = s.slot /\ t.action = s.action
  BY <1>4, TakeEffect
<1> QED
  BY <1>2, <1>3, <1>4, <1>5 DEF c

\* A running action is nowhere else.
LEMMA ActionIsAlone ==
  ASSUME NEW calm, NEW s, NEW p, NEW h, NEW rq, CInv(calm, s, p, h, rq)
  PROVE  /\ s \in Systems
         /\ s.action.id # s.slot.id \/ s.action.id = 0
         /\ \A n \in DOMAIN s.cmds : s.cmds[n].id # s.action.id
  BY DEF CInv, Typed, Distinct

\* An action ends between two calls.
LEMMA CompletingServes ==
  ASSUME NEW calm, NEW s, NEW p, NEW rq, CInv(calm, s, p, NoCommand, rq),
         NEW code \in Codes
  PROVE  Serves(s, {}, Complete(s, code), {})
  BY ActionIsAlone, CompleteServes

\* The global cancellation.
LEMMA GlobalCancelServes ==
  ASSUME NEW calm, NEW s, NEW p, NEW rq, CInv(calm, s, p, NoCommand, rq), ~calm,
         NEW code \in Codes
  PROVE  Serves(s, {}, GlobalCancel(s, code), {})
<1> DEFINE a == WidenPendingStop(s, s.action.mask)
           b == IF Idle(s) THEN a ELSE Complete(a, code)
           c == QueuedMotion(b)
           u == TakeQueuedMotion(b)
           v == WidenPendingStop(u, c.mask)
           r == Result(c, "FAILED")
           f == FailQueuedMotion(b)
           t == CancelPendingNormal(f)
<1>1. s \in Systems /\ s.action.mask \in SUBSET Motors
  <2>1. s \in Systems /\ s.action \in Commands
    BY SystemFields DEF CInv, Typed
  <2> QED
    BY <2>1 DEF Commands
<1>2. /\ CInv(calm, a, p, NoCommand, rq) /\ a \in Systems
      /\ SameQueue(s, a) /\ SameStores(s, a)
      /\ a.slot.id = s.slot.id /\ a.action = s.action
  BY <1>1, SlotId, WidenKeeps, WidenEffect DEF SameCommand
<1> HIDE DEF a
<1>3. Serves(s, {}, a, {})
  BY <1>2, ServesSame
<1>4. CInv(calm, b, p, NoCommand, rq) /\ b \in Systems
  BY <1>2, CompleteKeeps DEF CInv, Typed
<1>5. Serves(s, {}, b, {})
  <2>1. Serves(a, {}, Complete(a, code), {})
    BY <1>2, CompletingServes
  <2> QED
    BY <1>2, <1>3, <1>4, <2>1, ServesOn
<1> HIDE DEF b
<1>6. Serves(b, {}, f, {}) /\ f \in Systems
  <2>1. CASE ~CanTakeQueuedMotion(b)
    <3>1. f = b
      BY <2>1 DEF FailQueuedMotion
    <3>2. Serves(b, {}, b, {})
      BY ServesSame DEF SameStores, SameQueue
    <3> QED
      BY <1>4, <3>1, <3>2
  <2>2. CASE CanTakeQueuedMotion(b)
    <3>1. f = Store(v, r)
      BY <2>2 DEF FailQueuedMotion
    <3>2. /\ u \in Systems /\ c \in Commands /\ c.id = u.tomb
          /\ u.slot = b.slot /\ u.action = b.action /\ u.cmds = b.cmds
          /\ c.id \notin {b.slot.id, b.action.id}
      BY <1>4, <2>2, TakenIsGone
    <3>3. Serves(b, {}, u, {c.id})
      <4>1. Serves(b, {}, u, {} \cup {c.id})
        BY <1>4, <2>2, TakeServes
      <4> QED
        BY <4>1
    <3>4. u.slot = NoCommand \/ u.slot.id # 0
      BY <1>4, <3>2, SlotId
    <3>5. r \in Results /\ r.id = c.id /\ c.mask \in SUBSET Motors
      <4>1. "FAILED" \in Codes
        BY DEF Codes
      <4> QED
        BY <3>2, <4>1, ResultType DEF Commands
    <3> HIDE DEF r, c, u, f
    <3>6. /\ v \in Systems /\ SameQueue(u, v) /\ SameStores(u, v)
          /\ v.slot.id = u.slot.id /\ v.action = u.action
      BY <3>2, <3>4, <3>5, WidenEffect DEF SameCommand
    <3> HIDE DEF v
    <3>7. Serves(u, {c.id}, v, {c.id})
      BY <3>6, ServesSame
    <3>8. ~Alive(v, {c.id} \ {r.id}, r.id)
      BY <3>2, <3>5, <3>6 DEF Alive, SameQueue
    <3>9. Serves(v, {c.id}, f, {c.id} \ {r.id}) /\ f \in Systems
      BY <3>1, <3>5, <3>6, <3>8, StoreServes
    <3>10. {c.id} \ {r.id} = {}
      BY <3>5
    <3>11. Serves(b, {}, v, {c.id})
      BY <3>2, <3>3, <3>6, <3>7, ServesOn
    <3> QED
      BY <3>6, <3>9, <3>10, <3>11, ServesOn
  <2> QED
    BY <2>1, <2>2
<1> HIDE DEF f
<1>7. t \in Systems /\ Serves(f, {}, t, {})
  <2>1. <<>> \in Seq(Commands) /\ DOMAIN <<>> = {}
    OBVIOUS
  <2>2. /\ t \in Systems /\ SameStores(f, t) /\ DOMAIN t.cmds = {}
        /\ t.slot = f.slot /\ t.action = f.action
    BY <1>6, <2>1 DEF CancelPendingNormal, Systems, SameStores
  <2>3. \A i \in Nat \ {0} : Alive(t, {}, i) => Alive(f, {}, i)
    BY <2>2 DEF Alive
  <2> QED
    BY <2>2, <2>3, ServesStill
<1>8. Serves(s, {}, f, {})
  BY <1>4, <1>5, <1>6, ServesOn
<1>9. Serves(s, {}, t, {})
  BY <1>6, <1>7, <1>8, ServesOn
<1>10. GlobalCancel(s, code) = t
  BY DEF GlobalCancel, t, f, b, a
<1> QED
  BY <1>9, <1>10

\* The flush moves terminals from one store to the other.
LEMMA NowServes ==
  ASSUME IInv
  PROVE  /\ Serves(sys, {}, now, {}) /\ now \in Systems
         /\ CInv(faults = 0, now, pending, NoCommand, requests)
<1>1. sys \in Systems /\ Len(sys.results) <= ResultCapacity
  BY DEF IInv, CInv, Typed, Ordered
<1>2. PICK n \in 0..Len(sys.deferred) : Flushed(sys, now, n)
  BY <1>1, FlushEffect DEF now
<1> DEFINE s == sys
           t == now
           d == s.deferred
           a == SubSeq(d, 1, n)
           b == SubSeq(d, n + 1, Len(d))
<1>3. /\ SameQueue(s, t) /\ t.slot = s.slot /\ t.action = s.action
      /\ t.ended = s.ended /\ t.results = s.results \o a /\ t.deferred = b
  BY <1>2 DEF Flushed
<1>4. d \in Seq(Results) /\ s.results \in Seq(Results) /\ n \in 0..Len(d)
  BY <1>1, SystemFields
<1> HIDE DEF s, t, d
<1>5. a \in Seq(Results)
  BY <1>4
<1>6. \A i : Holds(d, i) <=> Holds(a, i) \/ Holds(b, i)
  BY <1>4, HoldsCut
<1> HIDE DEF a, b
<1>7. \A i : Holds(t.results, i) <=> Holds(s.results, i) \/ Holds(a, i)
  BY <1>3, <1>4, <1>5, HoldsConcat
<1>8. \A i : Alive(t, {}, i) <=> Alive(s, {}, i)
  BY <1>3 DEF Alive, SameQueue
<1>9. Serves(s, {}, t, {})
  BY <1>3, <1>6, <1>7, <1>8 DEF Serves, d
<1> QED
  BY <1>9, NowKeeps DEF s, t

\* What a branch of the service does after the flush.
LEMMA NowServesOn ==
  ASSUME IInv, IInv', Serves(now, {}, sys', {})
  PROVE  Serves(sys, {}, sys', {})
<1>1. sys' \in Systems
  BY DEF IInv, CInv, Typed
<1> QED
  BY <1>1, NowServes, ServesOn

\* A clock that is set is no matter here.
LEMMA ClockServes ==
  ASSUME NEW s \in Systems, NEW stage, NEW age, NEW t,
         t = [s EXCEPT !.stage = stage, !.age = age]
  PROVE  Serves(s, {}, t, {})
<1>1. /\ SameStores(s, t) /\ SameQueue(s, t)
      /\ t.slot = s.slot /\ t.action = s.action
  BY DEF Systems, SameStores, SameQueue
<1> QED
  BY <1>1, ServesSame

\* Each branch serves: a drive that trips, ...
LEMMA SafetyTripServes ==
  ASSUME IInv, IInv', SafetyTrip
  PROVE  Serves(sys, {}, sys', {})
<1>1. now \in Systems /\ CInv(faults = 0, now, pending, NoCommand, requests)
  BY NowServes
<1>2. CASE sys' = [now EXCEPT !.stage = "cleanup", !.age = 0]
  BY <1>1, <1>2, ClockServes, NowServesOn
<1>3. CASE sys' = Complete(now, "FAILED")
  <2>1. "FAILED" \in Codes
    BY DEF Codes
  <2> QED
    BY <1>1, <1>3, <2>1, CompletingServes, NowServesOn
<1> QED
  BY <1>2, <1>3 DEF SafetyTrip

\* ... the faults, ...
LEMMA FaultServes ==
  ASSUME IInv, IInv', GlobalFault \/ Watchdog
  PROVE  Serves(sys, {}, sys', {})
<1>1. now \in Systems /\ CInv(FALSE, now, pending, NoCommand, requests)
  BY NowServes, Weaker
<1>2. "FAILED" \in Codes /\ "CANCELLED" \in Codes
  BY DEF Codes
<1>3. CASE GlobalFault
  BY <1>1, <1>2, <1>3, GlobalCancelServes, NowServesOn DEF GlobalFault
<1>4. CASE Watchdog
  <2> DEFINE s == GlobalCancel(now, "CANCELLED")
             r == LinkTimeout
  <2>1. s \in Systems
    BY <1>1, <1>2, GlobalCancelKeeps DEF CInv, Typed
  <2>2. Serves(now, {}, s, {})
    BY <1>1, <1>2, GlobalCancelServes
  <2>3. sys' = Store(s, r)
    BY <1>4 DEF Watchdog
  <2>4. r \in Results /\ r.id = 0
    <3>1. sys.session \in Nat
      BY SystemFields DEF IInv, CInv, Typed
    <3> QED
      BY <3>1 DEF LinkTimeout, Results, Kinds, Codes
  <2> HIDE DEF s, r
  <2>5. Serves(s, {}, sys', {} \ {r.id}) /\ sys' \in Systems
    BY <2>1, <2>3, <2>4, StoreServes
  <2>6. Serves(s, {}, sys', {})
    <3>1. {} \ {r.id} = {}
      OBVIOUS
    <3> QED
      BY <2>5, <3>1
  <2>7. Serves(now, {}, sys', {})
    BY <2>1, <2>2, <2>5, <2>6, ServesOn
  <2> QED
    BY <2>7, NowServesOn
<1> QED
  BY <1>3, <1>4

\* ... a STOP that takes the place of the action, ...
LEMMA StopPreemptsServes ==
  ASSUME IInv, IInv', StopPreempts
  PROVE  Serves(sys, {}, sys', {})
<1> DEFINE s == now
           stop == [s.slot EXCEPT !.mask = @ \cup s.action.mask]
           q == PopStop(s)
           w == Complete(q, "CANCELLED")
           H == {s.slot.id}
<1>1. s \in Systems /\ CInv(faults = 0, s, pending, NoCommand, requests)
  BY NowServes
<1>2. sys' \in Start(w, stop) /\ s.slot # NoCommand
  BY DEF StopPreempts, StopReady, StopPending
<1> HIDE DEF s
<1>3. /\ s.slot.id # 0 /\ s.slot \in Commands /\ s.action \in Commands
      /\ s.slot.kind = "stop"
  BY <1>1, <1>2, SystemFields, SlotId DEF CInv, Named
<1>4. stop \in Commands /\ stop.id = s.slot.id /\ stop.kind = "stop"
  BY <1>3 DEF Commands
<1> HIDE DEF stop
<1>5. sys' = Activate(w, stop)
  BY <1>2, <1>4 DEF Start
<1>6. /\ q \in Systems /\ SameQueue(s, q) /\ SameStores(s, q)
      /\ q.slot = NoCommand /\ q.action = s.action
  BY <1>1, PopStopEffect
<1> HIDE DEF q
<1>7. Serves(s, {}, q, H)
  BY <1>6, NoCommandType, ServesSame
<1>8. "CANCELLED" \in Codes
  BY DEF Codes
<1>9. w \in Systems /\ SameQueue(q, w) /\ w.slot = q.slot
  BY <1>6, <1>8, CompleteEffect
<1>10. Serves(q, H, w, H)
  <2>1. /\ s.action.id # s.slot.id
        /\ \A n \in DOMAIN s.cmds : s.cmds[n].id # s.action.id
    BY <1>1, <1>3 DEF CInv, Distinct
  <2>2. /\ q.action.id \notin H
        /\ q.action.id # q.slot.id \/ q.action.id = 0
        /\ \A n \in DOMAIN q.cmds : q.cmds[n].id # q.action.id
    BY <1>6, <2>1, NoCommandType DEF SameQueue
  <2> HIDE DEF H
  <2> QED
    BY <1>6, <1>8, <2>2, CompleteServes
<1> HIDE DEF w
<1>11. Serves(w, H, sys', {}) /\ sys' \in Systems
  <2>1. /\ sys' \in Systems /\ SameQueue(w, sys') /\ SameStores(w, sys')
        /\ sys'.slot = w.slot /\ sys'.action = stop
    BY <1>4, <1>5, <1>9, ActivateEffect
  <2> QED
    BY <1>4, <2>1, ServesSame
<1> HIDE DEF H
<1>12. Serves(s, {}, w, H)
  BY <1>6, <1>7, <1>9, <1>10, ServesOn
<1>13. Serves(s, {}, sys', {})
  BY <1>9, <1>11, <1>12, ServesOn
<1> QED
  BY <1>13, NowServesOn DEF s

\* ... a STOP that finds a STOP running, ...
LEMMA StopWidensServes ==
  ASSUME IInv, IInv', StopWidens
  PROVE  Serves(sys, {}, sys', {})
<1> DEFINE s == now
           w == WidenPendingStop(s, s.action.mask)
           c == [s.action EXCEPT !.mask = w.slot.mask]
<1>1. s \in Systems /\ CInv(faults = 0, s, pending, NoCommand, requests)
  BY NowServes
<1>2. sys' = Activate(w, c)
  BY DEF StopWidens
<1> HIDE DEF s
<1>3. s.action \in Commands /\ s.action.mask \in SUBSET Motors
  <2>1. s.action \in Commands
    BY <1>1, SystemFields
  <2> QED
    BY <2>1 DEF Commands
<1>4. /\ w \in Systems /\ SameQueue(s, w) /\ SameStores(s, w)
      /\ w.slot.id = s.slot.id /\ w.action = s.action
  BY <1>1, <1>3, SlotId, WidenEffect DEF SameCommand
<1> HIDE DEF w
<1>5. c \in Commands /\ c.id = s.action.id
  <2>1. w.slot \in Commands
    BY <1>4, SystemFields
  <2> QED
    BY <1>3, <2>1 DEF Commands
<1> HIDE DEF c
<1>6. /\ SameQueue(w, sys') /\ SameStores(w, sys')
      /\ sys'.slot = w.slot /\ sys'.action = c
  BY <1>2, <1>4, <1>5, ActivateEffect
<1>7. Serves(s, {}, sys', {})
  BY <1>4, <1>5, <1>6, ServesSame DEF SameQueue, SameStores
<1> QED
  BY <1>7, NowServesOn DEF s

\* ... an action that goes on or ends, ...
LEMMA AdvanceServes ==
  ASSUME IInv, IInv', Advance
  PROVE  Serves(sys, {}, sys', {})
<1> DEFINE s == now
           blocked == s.action.kind = "stop" /\ StopPending(s)
           w == IF blocked THEN WidenPendingStop(s, s.action.mask) ELSE s
<1>1. s \in Systems /\ CInv(faults = 0, s, pending, NoCommand, requests)
  BY NowServes
<1>2. \/ sys' = [w EXCEPT !.age = @ + 1]
      \/ \E code \in Outcomes(w.action) \cup {"FAILED"} :
           sys' = Complete(w, code)
      \/ sys' = [w EXCEPT !.stage = "cleanup", !.age = 0]
  BY DEF Advance
<1> HIDE DEF s
<1>3. s.action.mask \in SUBSET Motors
  <2>1. s.action \in Commands
    BY <1>1, SystemFields
  <2> QED
    BY <2>1 DEF Commands
<1>4. /\ CInv(faults = 0, w, pending, NoCommand, requests) /\ w \in Systems
      /\ Serves(s, {}, w, {})
  <2>1. CASE blocked
    <3>1. /\ w \in Systems /\ SameQueue(s, w) /\ SameStores(s, w)
          /\ w.slot.id = s.slot.id /\ w.action = s.action
      BY <1>1, <1>3, <2>1, SlotId, WidenEffect DEF SameCommand
    <3>2. CInv(faults = 0, w, pending, NoCommand, requests)
      BY <1>1, <1>3, <2>1, WidenKeeps
    <3> HIDE DEF w
    <3> QED
      BY <3>1, <3>2, ServesSame
  <2>2. CASE ~blocked
    BY <1>1, <2>2, ServesSame DEF SameQueue, SameStores
  <2> QED
    BY <2>1, <2>2
<1> HIDE DEF w
<1>5. sys' \in Systems
  BY DEF IInv, CInv, Typed
<1>6. Serves(w, {}, sys', {})
  <2>1. CASE sys' = [w EXCEPT !.age = @ + 1]
    <3>1. [w EXCEPT !.age = @ + 1] = [w EXCEPT !.stage = w.stage, !.age = w.age + 1]
      BY <1>4 DEF Systems
    <3> QED
      BY <1>4, <2>1, <3>1, ClockServes
  <2>2. CASE \E code \in Outcomes(w.action) \cup {"FAILED"} :
               sys' = Complete(w, code)
    <3>1. PICK code \in Outcomes(w.action) \cup {"FAILED"} :
            sys' = Complete(w, code)
      BY <2>2
    <3>2. code \in Codes
      BY DEF Outcomes, Codes
    <3> QED
      BY <1>4, <3>1, <3>2, CompletingServes
  <2>3. CASE sys' = [w EXCEPT !.stage = "cleanup", !.age = 0]
    BY <1>4, <2>3, ClockServes
  <2> QED
    BY <1>2, <2>1, <2>2, <2>3
<1>7. Serves(s, {}, sys', {})
  BY <1>4, <1>5, <1>6, ServesOn
<1> QED
  BY <1>7, NowServesOn DEF s

\* ... a STOP that becomes the action, ...
LEMMA StopStartsServes ==
  ASSUME IInv, IInv', StopStarts
  PROVE  Serves(sys, {}, sys', {})
<1> DEFINE s == now
           q == PopStop(s)
           H == {s.slot.id}
<1>1. s \in Systems /\ CInv(faults = 0, s, pending, NoCommand, requests)
  BY NowServes
<1>2. /\ s.slot # NoCommand /\ s.action = NoCommand
      /\ sys' \in
           IF ~CanTakeQueuedMotion(q) THEN Start(q, s.slot)
           ELSE Start(Store(TakeQueuedMotion(q),
                            Result(QueuedMotion(q), "CANCELLED")),
                      [s.slot EXCEPT !.mask = @ \cup QueuedMotion(q).mask])
  BY DEF StopStarts, StopReady, StopPending, Idle
<1> HIDE DEF s
<1>3. s.slot.id # 0 /\ s.slot \in Commands /\ s.slot.kind = "stop"
  BY <1>1, <1>2, SystemFields, SlotId DEF CInv, Named
<1>4. /\ q \in Systems /\ SameQueue(s, q) /\ SameGates(s, q) /\ SameStores(s, q)
      /\ q.slot = NoCommand /\ q.action = NoCommand
  BY <1>1, <1>2, PopStopEffect
<1> HIDE DEF q
<1>5. Serves(s, {}, q, H)
  BY <1>4, NoCommandType, ServesSame
<1>6. ASSUME NEW w \in Systems, NEW c \in Commands, c.id = s.slot.id,
             w.slot = NoCommand, Serves(q, H, w, H), sys' = Activate(w, c)
      PROVE  Serves(sys, {}, sys', {})
  <2>1. /\ sys' \in Systems /\ SameQueue(w, sys') /\ SameStores(w, sys')
        /\ sys'.slot = w.slot /\ sys'.action = c
    BY <1>6, ActivateEffect
  <2>2. Serves(w, H, sys', {})
    BY <1>6, <2>1, NoCommandType, ServesSame
  <2>3. Serves(s, {}, w, H)
    BY <1>4, <1>5, <1>6, ServesOn
  <2>4. Serves(s, {}, sys', {})
    BY <2>1, <2>2, <2>3, ServesOn
  <2> QED
    BY <2>4, NowServesOn DEF s
<1>7. CASE ~CanTakeQueuedMotion(q)
  <2>1. sys' = Activate(q, s.slot)
    BY <1>2, <1>3, <1>7 DEF Start
  <2>2. Serves(q, H, q, H)
    BY ServesSame DEF SameQueue, SameStores
  <2> QED
    BY <1>3, <1>4, <1>6, <2>1, <2>2
<1>8. CASE CanTakeQueuedMotion(q)
  <2> DEFINE c == QueuedMotion(q)
             r == Result(c, "CANCELLED")
             u == TakeQueuedMotion(q)
             w == Store(u, r)
             stop == [s.slot EXCEPT !.mask = @ \cup c.mask]
             G == H \cup {c.id}
  <2>1. /\ CanTakeQueuedMotion(s) /\ QueuedMotion(s) = c
        /\ TakeQueuedMotion(s).tomb = u.tomb
    <3>1. QueuedMotions(q) = QueuedMotions(s)
      BY <1>4 DEF QueuedMotions, SameQueue, SameGates
    <3>2. TakeQueuedMotion(s).tomb = s.motion /\ u.tomb = q.motion
      BY <1>1, <1>4, TakeEffect
    <3> QED
      BY <1>4, <1>8, <3>1, <3>2
      DEF CanTakeQueuedMotion, QueuedMotion, SameQueue, SameGates
  <2>2. c \in Commands /\ c.id = u.tomb /\ c.id \notin {s.slot.id, 0}
    <3>1. /\ c \in Commands /\ c.id = u.tomb
          /\ c.id \notin {s.slot.id, s.action.id}
      BY <1>1, <2>1, TakenIsGone
    <3> QED
      BY <1>2, <3>1, NoCommandType
  <2>3. Serves(q, H, u, G)
    BY <1>4, <1>8, TakeServes
  <2>4. u \in Systems /\ u.slot = NoCommand /\ u.action = NoCommand
    BY <1>4, TakeEffect
  <2>5. "CANCELLED" \in Codes
    BY DEF Codes
  <2> HIDE DEF c, u
  <2>6. r \in Results /\ r.id = c.id
    BY <2>2, <2>5, ResultType
  <2>7. /\ stop \in Commands /\ stop.id = s.slot.id /\ stop.kind = "stop"
    BY <1>3, <2>2 DEF Commands
  <2>8. sys' = Activate(w, stop)
    BY <1>2, <1>8, <2>7 DEF Start, c, u
  <2> HIDE DEF r, stop
  <2>9. G \ {r.id} = H /\ r.id \in G
    BY <2>2, <2>6
  <2>10. ~Alive(u, H, r.id)
    BY <2>2, <2>4, <2>6, NoCommandType DEF Alive
  <2> HIDE DEF H, G
  <2>11. Serves(u, G, w, H) /\ w \in Systems
    BY <2>4, <2>6, <2>9, <2>10, StoreServes
  <2>12. w.slot = NoCommand
    BY <2>4, <2>6, StoreEnds
  <2> HIDE DEF w
  <2>13. Serves(q, H, w, H)
    BY <2>3, <2>4, <2>11, ServesOn
  <2> QED
    BY <1>6, <2>7, <2>8, <2>11, <2>12, <2>13 DEF H
<1> QED
  BY <1>7, <1>8

\* The tombstoned head was not alive.
LEMMA SkipServes ==
  ASSUME NEW calm, NEW s, NEW p, NEW rq, CInv(calm, s, p, NoCommand, rq)
  PROVE  LET t == SkipTombstone(s) IN
         t \in Systems /\ t.action = s.action /\ Serves(s, {}, t, {})
<1> DEFINE t == SkipTombstone(s)
           q == Tail(s.cmds)
           c == Head(s.cmds)
<1> s \in Systems
  BY DEF CInv, Typed
<1>1. CASE ~(s.cmds # <<>> /\ Tombstoned(s, c))
  BY <1>1, ServesSame DEF SkipTombstone, SameQueue, SameStores
<1>2. CASE s.cmds # <<>> /\ Tombstoned(s, c)
  <2>1. s.cmds \in Seq(Commands)
    BY SystemFields
  <2>2. /\ q \in Seq(Commands) /\ c = s.cmds[1] /\ 1 \in DOMAIN s.cmds
        /\ \A n \in DOMAIN q : /\ n + 1 \in DOMAIN s.cmds /\ n + 1 # 1
                               /\ q[n] = s.cmds[n + 1]
    BY <1>2, <2>1
  <2>3. c.id = s.tomb /\ t = [s EXCEPT !.cmds = q, !.tomb = 0]
    BY <1>2 DEF Tombstoned, SkipTombstone
  <2> HIDE DEF t, q, c
  <2>4. /\ t \in Systems /\ SameStores(s, t) /\ t.cmds = q
        /\ t.slot = s.slot /\ t.action = s.action
    BY <2>2, <2>3 DEF Systems, SameStores
  <2>5. t.tomb = 0
    BY <2>2, <2>3 DEF Systems
  <2>6. ASSUME NEW i \in Nat \ {0}, Alive(t, {}, i)
        PROVE  Alive(s, {}, i)
    <3>1. \A n \in DOMAIN q : q[n].id # s.tomb
      BY <2>2, <2>3 DEF CInv, Distinct
    <3> QED
      BY <2>2, <2>4, <2>6, <3>1 DEF Alive
  <2> QED
    BY <2>4, <2>6, ServesStill DEF t
<1> QED
  BY <1>1, <1>2

\* The head of the queue comes into the hand, and is nowhere else.
LEMMA PopCommandServes ==
  ASSUME NEW calm, NEW s, NEW p, NEW rq, CInv(calm, s, p, NoCommand, rq),
         s.cmds # <<>>, ~Tombstoned(s, Head(s.cmds)), s.action = NoCommand
  PROVE  LET t == PopCommand(s)
             c == Head(s.cmds)
         IN /\ t \in Systems /\ c \in Commands /\ c.kind # "stop"
            /\ Serves(s, {}, t, {c.id}) /\ ~Alive(t, {}, c.id)
<1> DEFINE t == PopCommand(s)
           c == Head(s.cmds)
           q == Tail(s.cmds)
<1>1. s \in Systems /\ s.cmds \in Seq(Commands)
  BY SystemFields DEF CInv, Typed
<1>2. /\ c = s.cmds[1] /\ 1 \in DOMAIN s.cmds
      /\ \A n \in DOMAIN q : /\ n + 1 \in DOMAIN s.cmds /\ n + 1 # 1
                             /\ q[n] = s.cmds[n + 1]
  BY <1>1
<1>3. /\ t \in Systems /\ SameStores(s, t) /\ t.cmds = q /\ t.tomb = s.tomb
      /\ t.slot = s.slot /\ t.action = s.action
  BY <1>1, PopCommandEffect
<1> HIDE DEF t, c, q
<1>4. c \in Commands /\ c.id # 0
  BY <1>2, QueuedId
<1>5. c.id # s.tomb /\ c.kind # "stop"
  <2>1. Known(c, rq) /\ c.kind # "stop" /\ KindOf(s.tomb, rq, {"oneshot"})
    BY <1>2 DEF CInv, Named
  <2>2. ~(c.kind = "oneshot" /\ c.id = s.tomb)
    BY DEF Tombstoned, c
  <2> QED
    BY <1>4, <2>1, <2>2 DEF Known, KindOf
<1>6. \A i \in Nat \ {0} : Alive(t, {c.id}, i) => Alive(s, {}, i)
  BY <1>2, <1>3, <1>5 DEF Alive
<1>7. Serves(s, {}, t, {c.id})
  BY <1>3, <1>6, ServesStill
<1>8. ~Alive(t, {}, c.id)
  <2>1. /\ c.id # s.slot.id
        /\ \A n \in DOMAIN s.cmds : s.cmds[n].id = c.id => n = 1
    BY <1>2 DEF CInv, Distinct
  <2> QED
    BY <1>2, <1>3, <1>4, <2>1, NoCommandType DEF Alive
<1> QED
  BY <1>3, <1>4, <1>5, <1>7, <1>8 DEF t, c

\* ... and a command that does, or ends at once.
LEMMA CommandStartsServes ==
  ASSUME IInv, IInv', CommandStarts
  PROVE  Serves(sys, {}, sys', {})
<1> DEFINE s == now
           k == SkipTombstone(s)
           u == PopCommand(k)
           c == Head(k.cmds)
<1>1. s \in Systems /\ CInv(faults = 0, s, pending, NoCommand, requests)
  BY NowServes
<1>2. /\ CInv(faults = 0, k, pending, NoCommand, requests)
      /\ k.cmds # <<>> => ~Tombstoned(k, c)
      /\ k \in Systems /\ Serves(s, {}, k, {}) /\ k.action = s.action
  BY <1>1, SkipKeeps, SkipServes
<1>3. /\ s.action = NoCommand
      /\ \/ sys' = s
         \/ sys' = k
         \/ k.cmds # <<>> /\ sys' \in Start(u, c)
  BY DEF CommandStarts, Idle
<1>4. sys' \in Systems
  BY DEF IInv, CInv, Typed
<1>5. CASE sys' = s \/ sys' = k
  <2>1. Serves(s, {}, s, {})
    BY ServesSame DEF SameQueue, SameStores
  <2> QED
    BY <1>2, <1>5, <2>1, NowServesOn
<1> HIDE DEF s, k
<1>6. CASE k.cmds # <<>> /\ sys' \in Start(u, c)
  <2>1. /\ u \in Systems /\ c \in Commands /\ c.kind # "stop"
        /\ Serves(k, {}, u, {c.id}) /\ ~Alive(u, {}, c.id)
    BY <1>2, <1>3, <1>6, PopCommandServes
  <2>2. \/ sys' = Activate(u, c)
        \/ \E code \in Codes : sys' = Store(u, Result(c, code))
    BY <1>6, <2>1 DEF Start, Codes
  <2> HIDE DEF u, c
  <2>3. Serves(u, {c.id}, sys', {})
    <3>1. CASE sys' = Activate(u, c)
      <4>1. /\ SameQueue(u, sys') /\ SameStores(u, sys')
            /\ sys'.slot = u.slot /\ sys'.action = c
        BY <2>1, <3>1, ActivateEffect
      <4> QED
        BY <4>1, ServesSame
    <3>2. CASE \E code \in Codes : sys' = Store(u, Result(c, code))
      <4>1. PICK code \in Codes : sys' = Store(u, Result(c, code))
        BY <3>2
      <4> DEFINE r == Result(c, code)
      <4>2. r \in Results /\ r.id = c.id
        BY <2>1, ResultType
      <4>3. sys' = Store(u, r)
        BY <4>1
      <4> HIDE DEF r
      <4>4. {c.id} \ {r.id} = {} /\ r.id \in {c.id}
        BY <4>2
      <4>5. Serves(u, {c.id}, sys', {c.id} \ {r.id})
        BY <2>1, <4>2, <4>3, <4>4, StoreServes
      <4> QED
        BY <4>4, <4>5
    <3> QED
      BY <2>2, <3>1, <3>2
  <2>4. Serves(k, {}, sys', {})
    BY <1>4, <2>1, <2>3, ServesOn
  <2>5. Serves(s, {}, sys', {})
    BY <1>2, <1>4, <2>4, ServesOn
  <2> QED
    BY <2>5, NowServesOn DEF s
<1> QED
  BY <1>3, <1>5, <1>6

\* A service call serves.
LEMMA ServiceServes ==
  ASSUME IInv, IInv', GlobalFault \/ Watchdog \/ Service
  PROVE  Serves(sys, {}, sys', {})
  BY FaultServes, SafetyTripServes, StopPreemptsServes, StopWidensServes,
     AdvanceServes, StopStartsServes, CommandStartsServes DEF Service
-----------------------------------------------------------------------------
(* The contract of the requests: what each is owed, step by step.          *)

\* No request got two terminals; whoever is not to be answered can no longer run
\* and has none on its way, and whoever was refused has none at all.
Once(s) ==
  \A m, n \in DOMAIN s.ended :
    s.ended[m].id = s.ended[n].id => s.ended[m].id = 0 \/ m = n
Owed(s, p, rq) ==
  /\ Once(s)
  /\ \A i \in DOMAIN rq :
       /\ rq[i].status # "accepted" => /\ ~Alive(s, {p.id}, i)
                                       /\ ~Holds(s.results, i)
                                       /\ ~Holds(s.deferred, i)
       /\ rq[i].status = "refused" => ~Holds(s.ended, i)

\* What the contract sees of request i.
StateIn(s, rq, i) ==
  IF i \notin DOMAIN rq THEN "none"
  ELSE IF rq[i].status = "accepted" /\ Holds(s.ended, i) THEN "ended"
  ELSE rq[i].status
TerminalsIn(s, i) ==
  {[place |-> n, code |-> s.ended[n].code] :
     n \in {m \in DOMAIN s.ended : s.ended[m].id = i}}

\* A step that the contract allows it.
Edge(s, rq, t, rr, i) ==
  LET a == StateIn(s, rq, i)
      b == StateIn(t, rr, i)
  IN \/ /\ a = "accepted" /\ b = "ended"
        /\ \E x \in TerminalsIn(t, i) : /\ TerminalsIn(t, i) = {x}
                                        /\ x.code \in Codes
     \/ /\ TerminalsIn(t, i) = TerminalsIn(s, i)
        /\ \/ a = b
           \/ a = "none" /\ b \in {"refused", "accepted"}
           \/ a = "ended" /\ b \in {"reported", "dropped"}
           \/ a = "accepted" /\ b = "dropped" /\ rq[i].kind = "plain"

SameKinds(rq, rr) ==
  \A i \in DOMAIN rq : i \in DOMAIN rr /\ rr[i].kind = rq[i].kind

\* What step by step is to be shown of the requests.
Honoured(s, p, rq, t, q, rr) ==
  /\ Owed(t, q, rr) /\ SameKinds(rq, rr)
  /\ \A i \in Nat \ {0} : Edge(s, rq, t, rr, i)

\* Identifiers are positive.
LEMMA RequestId ==
  ASSUME NEW calm, NEW s, NEW p, NEW h, NEW rq, CInv(calm, s, p, h, rq)
  PROVE  /\ \A i \in DOMAIN rq : i \in Nat \ {0}
         /\ \A n \in DOMAIN s.ended :
              /\ s.ended[n] \in Results
              /\ s.ended[n].id = 0 \/ s.ended[n].id \in DOMAIN rq
<1>1. s.ended \in Seq(Results) /\ rq \in Seq(Requests)
  BY SystemFields DEF CInv, Typed
<1>2. \A n \in DOMAIN s.ended : Known(s.ended[n], rq) \/ s.ended[n].id = 0
  BY DEF CInv, Named
<1> QED
  BY <1>1, <1>2 DEF Known

\* Who has a terminal can no longer run.
LEMMA FinishedIsNotAlive ==
  ASSUME NEW calm, NEW s, NEW p, NEW rq, CInv(calm, s, p, NoCommand, rq),
         NEW i \in Nat \ {0}
  PROVE  /\ Holds(s.ended, i) => ~Alive(s, {p.id}, i) /\ ~Alive(s, {}, i)
         /\ Holds(s.results, i) \/ Holds(s.deferred, i) => Holds(s.ended, i)
  BY DEF CInv, Finished, Alive

\* A service call ends each request at most once, and only accepted ones.
LEMMA ServesHonours ==
  ASSUME NEW calm, NEW s, NEW p, NEW rq, CInv(calm, s, p, NoCommand, rq),
         NEW less, NEW t, CInv(less, t, p, NoCommand, rq),
         Owed(s, p, rq), Serves(s, {}, t, {})
  PROVE  Honoured(s, p, rq, t, p, rq)
<1>1. /\ \A n \in DOMAIN s.ended : n \in DOMAIN t.ended /\ t.ended[n] = s.ended[n]
      /\ \A n \in DOMAIN t.ended \ DOMAIN s.ended :
           t.ended[n].id = 0 \/ Alive(s, {}, t.ended[n].id)
      /\ \A m, n \in DOMAIN t.ended \ DOMAIN s.ended :
           t.ended[m].id = t.ended[n].id => t.ended[m].id = 0 \/ m = n
      /\ \A i \in Nat \ {0} : Alive(t, {}, i) => Alive(s, {}, i)
      /\ \A i \in Nat \ {0} :
           Holds(t.results, i) \/ Holds(t.deferred, i)
             => Holds(s.results, i) \/ Holds(s.deferred, i) \/ Alive(s, {}, i)
  BY DEF Serves
<1>2. \A i \in Nat \ {0} : Holds(s.ended, i) => ~Alive(s, {}, i)
  BY FinishedIsNotAlive
<1>3. /\ \A i \in DOMAIN rq : i \in Nat \ {0}
      /\ \A n \in DOMAIN t.ended : /\ t.ended[n] \in Results
                                   /\ t.ended[n].id = 0 \/ t.ended[n].id \in DOMAIN rq
  BY RequestId
<1>4. Once(t)
  <2> SUFFICES ASSUME NEW m \in DOMAIN t.ended, NEW n \in DOMAIN t.ended,
                      t.ended[m].id = t.ended[n].id, t.ended[m].id # 0
               PROVE  m = n
    BY DEF Once
  <2>1. t.ended[m].id \in Nat \ {0}
    BY <1>3
  <2>2. CASE m \in DOMAIN s.ended /\ n \in DOMAIN s.ended
    BY <1>1, <2>2 DEF Owed, Once
  <2>3. CASE m \in DOMAIN s.ended /\ n \notin DOMAIN s.ended
    BY <1>1, <1>2, <2>1, <2>3 DEF Holds
  <2>4. CASE m \notin DOMAIN s.ended /\ n \in DOMAIN s.ended
    BY <1>1, <1>2, <2>1, <2>4 DEF Holds
  <2>5. CASE m \notin DOMAIN s.ended /\ n \notin DOMAIN s.ended
    BY <1>1, <2>5
  <2> QED
    BY <2>2, <2>3, <2>4, <2>5
<1>5. \A i \in DOMAIN rq : Alive(s, {}, i) => rq[i].status = "accepted"
  BY DEF Owed, Alive
<1>6. ASSUME NEW i \in DOMAIN rq, rq[i].status # "accepted"
      PROVE  /\ ~Alive(t, {p.id}, i)
             /\ ~Holds(t.results, i) /\ ~Holds(t.deferred, i)
             /\ rq[i].status = "refused" => ~Holds(t.ended, i)
  <2>1. /\ ~Alive(s, {p.id}, i) /\ ~Holds(s.results, i) /\ ~Holds(s.deferred, i)
        /\ rq[i].status = "refused" => ~Holds(s.ended, i)
    BY <1>6 DEF Owed
  <2>2. ~Alive(s, {}, i) /\ ~Alive(t, {}, i) /\ i # p.id
    BY <1>1, <1>3, <2>1 DEF Alive
  <2>3. ~Alive(t, {p.id}, i)
    BY <2>2 DEF Alive
  <2>4. Holds(t.ended, i) => Holds(s.ended, i)
    BY <1>1, <1>3, <2>2 DEF Holds
  <2> QED
    BY <1>1, <1>3, <2>1, <2>2, <2>3, <2>4
<1>7. Owed(t, p, rq)
  BY <1>4, <1>6 DEF Owed
<1>8. ASSUME NEW i \in Nat \ {0}
      PROVE  Edge(s, rq, t, rq, i)
  <2>1. CASE \E n \in DOMAIN t.ended \ DOMAIN s.ended : t.ended[n].id = i
    <3>1. PICK n \in DOMAIN t.ended \ DOMAIN s.ended : t.ended[n].id = i
      BY <2>1
    <3>2. Alive(s, {}, i) /\ i \in DOMAIN rq /\ t.ended[n] \in Results
      BY <1>1, <1>3, <3>1
    <3>3. rq[i].status = "accepted" /\ ~Holds(s.ended, i)
      BY <1>2, <1>5, <3>2
    <3>4. Holds(t.ended, i)
      BY <3>1 DEF Holds
    <3>5. {m \in DOMAIN t.ended : t.ended[m].id = i} = {n}
      BY <1>1, <3>1, <3>3 DEF Holds
    <3> DEFINE x == [place |-> n, code |-> t.ended[n].code]
    <3>6. TerminalsIn(t, i) = {x}
      BY <3>5 DEF TerminalsIn
    <3>7. x.code \in Codes
      BY <3>2 DEF Results
    <3> HIDE DEF x
    <3> QED
      BY <3>2, <3>3, <3>4, <3>6, <3>7 DEF Edge, StateIn
  <2>2. CASE ~\E n \in DOMAIN t.ended \ DOMAIN s.ended : t.ended[n].id = i
    <3>1. {m \in DOMAIN t.ended : t.ended[m].id = i}
            = {m \in DOMAIN s.ended : s.ended[m].id = i}
      BY <1>1, <2>2
    <3>2. TerminalsIn(t, i) = TerminalsIn(s, i)
      <4> DEFINE M == {m \in DOMAIN s.ended : s.ended[m].id = i}
      <4>1. \A m \in M : t.ended[m] = s.ended[m]
        BY <1>1
      <4>2. /\ TerminalsIn(t, i) = {[place |-> n, code |-> t.ended[n].code] : n \in M}
            /\ TerminalsIn(s, i) = {[place |-> n, code |-> s.ended[n].code] : n \in M}
        BY <3>1 DEF TerminalsIn
      <4> HIDE DEF M
      <4> QED
        BY <4>1, <4>2
    <3>3. Holds(t.ended, i) <=> Holds(s.ended, i)
      BY <1>1, <2>2 DEF Holds
    <3> QED
      BY <3>2, <3>3 DEF Edge, StateIn
  <2> QED
    BY <2>1, <2>2
<1> QED
  BY <1>7, <1>8 DEF Honoured, SameKinds

\* What is still to be reported of one request is one terminal.
LEMMA StoredOnce ==
  ASSUME NEW calm, NEW s, NEW p, NEW h, NEW rq, CInv(calm, s, p, h, rq), Once(s),
         NEW k \in DOMAIN s.results, s.results[k].id # 0
  PROVE  /\ ~Holds(s.deferred, s.results[k].id)
         /\ \A n \in DOMAIN s.results : s.results[n].id = s.results[k].id => n = k
<1> DEFINE a == s.results
           b == s.deferred
           c == a \o b
           e == s.ended
           d == Len(e) - Len(c)
<1>1. a \in Seq(Results) /\ b \in Seq(Results) /\ e \in Seq(Results)
      /\ IsSuffix(c, e)
  BY SystemFields DEF CInv, Typed, Ordered
<1>2. \A m, n \in DOMAIN e : e[m].id = e[n].id => e[m].id = 0 \/ m = n
  BY DEF Once
<1> HIDE DEF a, b, e
<1>3. /\ c \in Seq(Results) /\ Len(c) = Len(a) + Len(b)
      /\ \A n \in 1..Len(a) : c[n] = a[n]
      /\ \A n \in 1..Len(b) : c[Len(a) + n] = b[n]
      /\ Len(a) \in Nat /\ Len(b) \in Nat /\ Len(e) \in Nat
      /\ DOMAIN a = 1..Len(a) /\ DOMAIN b = 1..Len(b) /\ DOMAIN e = 1..Len(e)
  BY <1>1, ConcatProperties
<1> HIDE DEF c
<1>4. Len(c) <= Len(e) /\ \A n \in 1..Len(c) : c[n] = e[d + n]
  BY <1>1, <1>3, SuffixByIndex
<1>5. \A m, n \in 1..Len(c) : c[m].id = c[n].id => c[m].id = 0 \/ m = n
  <2> TAKE m, n \in 1..Len(c)
  <2>1. /\ d + m \in DOMAIN e /\ d + n \in DOMAIN e
        /\ d + m = d + n => m = n
    BY <1>3, <1>4
  <2> QED
    BY <1>2, <1>4, <2>1
<1>6. k \in 1..Len(a) /\ c[k] = a[k] /\ k \in 1..Len(c)
  BY <1>3 DEF a
<1>7. ASSUME NEW n \in 1..Len(b), b[n].id = a[k].id
      PROVE  a[k].id = 0
  <2>1. Len(a) + n \in 1..Len(c) /\ Len(a) + n # k /\ c[Len(a) + n] = b[n]
    BY <1>3, <1>6
  <2> QED
    BY <1>5, <1>6, <1>7, <2>1
<1>8. ASSUME NEW n \in 1..Len(a), a[n].id = a[k].id
      PROVE  a[k].id = 0 \/ n = k
  <2>1. n \in 1..Len(c) /\ c[n] = a[n]
    BY <1>3
  <2> QED
    BY <1>5, <1>6, <1>8, <2>1
<1> QED
  BY <1>3, <1>7, <1>8 DEF Holds, a, b

\* ProtocolTask retains no terminal: a request moves by its status alone.
LEMMA QuietEdge ==
  ASSUME NEW s, NEW rq, NEW t, NEW rr, t.ended = s.ended, NEW i,
         \/ /\ i \in DOMAIN rr <=> i \in DOMAIN rq
            /\ i \in DOMAIN rq => rr[i].status = rq[i].status
         \/ /\ i \notin DOMAIN rq /\ i \in DOMAIN rr /\ ~Holds(s.ended, i)
            /\ rr[i].status \in {"accepted", "refused"}
         \/ /\ i \in DOMAIN rq /\ i \in DOMAIN rr /\ rq[i].status = "accepted"
            /\ \/ Holds(s.ended, i) /\ rr[i].status \in {"reported", "dropped"}
               \/ rr[i].status = "dropped" /\ rq[i].kind = "plain"
  PROVE  Edge(s, rq, t, rr, i)
<1>1. TerminalsIn(t, i) = TerminalsIn(s, i)
  BY DEF TerminalsIn
<1> QED
  BY <1>1 DEF Edge, StateIn

\* Reporting, once, what has ended.
LEMMA DrainHonours ==
  ASSUME NEW calm, NEW s, NEW p, NEW rq, CInv(calm, s, p, NoCommand, rq),
         Owed(s, p, rq), s.results # <<>>,
         NEW status \in {"reported", "dropped"}
  PROVE  Honoured(s, p, rq, PopResult(s), p,
                  IF Head(s.results).id = 0 THEN rq
                  ELSE [rq EXCEPT ![Head(s.results).id].status = status])
<1> DEFINE r == Head(s.results)
           j == r.id
           t == PopResult(s)
           nq == IF j = 0 THEN rq ELSE [rq EXCEPT ![j].status = status]
<1>1. s \in Systems /\ s.results \in Seq(Results) /\ rq \in Seq(Requests)
  BY SystemFields DEF CInv, Typed
<1>2. /\ SameQueue(s, t) /\ t.slot = s.slot /\ t.action = s.action
      /\ t.deferred = s.deferred /\ t.ended = s.ended
      /\ t.results = Tail(s.results)
  BY <1>1, PopResultEffect
<1>3. /\ 1 \in DOMAIN s.results /\ r = s.results[1]
      /\ \A n \in DOMAIN Tail(s.results) :
           /\ n + 1 \in DOMAIN s.results /\ n + 1 # 1
           /\ Tail(s.results)[n] = s.results[n + 1]
  BY <1>1
<1>4. \A i : Holds(t.results, i) => Holds(s.results, i)
  BY <1>2, <1>3 DEF Holds
<1>5. \A i : Alive(t, {p.id}, i) <=> Alive(s, {p.id}, i)
  BY <1>2 DEF Alive, SameQueue
<1>6. j # 0 => /\ j \in DOMAIN rq /\ rq[j].status = "accepted"
               /\ Holds(s.ended, j) /\ ~Alive(s, {p.id}, j)
               /\ ~Holds(t.results, j) /\ ~Holds(t.deferred, j)
  <2> SUFFICES ASSUME j # 0
               PROVE  /\ j \in DOMAIN rq /\ rq[j].status = "accepted"
                      /\ Holds(s.ended, j) /\ ~Alive(s, {p.id}, j)
                      /\ ~Holds(t.results, j) /\ ~Holds(t.deferred, j)
    OBVIOUS
  <2>1. Holds(s.results, j)
    BY <1>3 DEF Holds
  <2>2. Known(r, rq)
    BY <1>3 DEF CInv, Named
  <2>3. j \in DOMAIN rq /\ j \in Nat \ {0}
    BY <1>1, <2>2 DEF Known
  <2>4. rq[j].status = "accepted"
    BY <2>1, <2>3 DEF Owed
  <2>5. Holds(s.ended, j) /\ ~Alive(s, {p.id}, j)
    BY <2>1, <2>3, FinishedIsNotAlive
  <2>6. /\ ~Holds(s.deferred, j)
        /\ \A n \in DOMAIN s.results : s.results[n].id = j => n = 1
    <3>1. s.results[1].id # 0 /\ Once(s)
      BY <1>3 DEF Owed
    <3>2. /\ ~Holds(s.deferred, s.results[1].id)
          /\ \A n \in DOMAIN s.results :
               s.results[n].id = s.results[1].id => n = 1
      BY <1>3, <3>1, StoredOnce
    <3> QED
      BY <1>3, <3>2
  <2>7. ~Holds(t.results, j)
    BY <1>2, <1>3, <2>6 DEF Holds
  <2> QED
    BY <1>2, <2>3, <2>4, <2>5, <2>6, <2>7
<1>7. /\ DOMAIN nq = DOMAIN rq
      /\ \A i \in DOMAIN rq : /\ nq[i].kind = rq[i].kind
                              /\ nq[i].status = IF i = j THEN status
                                                ELSE rq[i].status
  <2>1. \A i \in DOMAIN rq : rq[i] \in Requests /\ i # 0
    BY <1>1
  <2> HIDE DEF j
  <2> QED
    BY <2>1 DEF Requests
<1> HIDE DEF t, nq, r, j
<1>8. Owed(t, p, nq)
  <2>1. Once(t)
    BY <1>2 DEF Owed, Once
  <2>2. ASSUME NEW i \in DOMAIN nq, nq[i].status # "accepted"
        PROVE  /\ ~Alive(t, {p.id}, i)
               /\ ~Holds(t.results, i) /\ ~Holds(t.deferred, i)
               /\ nq[i].status = "refused" => ~Holds(t.ended, i)
    <3>0. i \in DOMAIN rq /\ i # 0
      BY <1>1, <1>7
    <3>1. CASE i = j
      BY <1>2, <1>5, <1>6, <1>7, <3>0, <3>1
    <3>2. CASE i # j
      BY <1>2, <1>4, <1>5, <1>7, <2>2, <3>0, <3>2 DEF Owed
    <3> QED
      BY <3>1, <3>2
  <2> QED
    BY <2>1, <2>2 DEF Owed
<1>9. ASSUME NEW i \in Nat \ {0}
      PROVE  Edge(s, rq, t, nq, i)
  <2>1. CASE i = j
    BY <1>2, <1>6, <1>7, <2>1, QuietEdge
  <2>2. CASE i # j
    BY <1>2, <1>7, <2>2, QuietEdge
  <2> QED
    BY <2>1, <2>2
<1>10. Honoured(s, p, rq, t, p, nq)
  BY <1>7, <1>8, <1>9 DEF Honoured, SameKinds
<1> QED
  BY <1>10 DEF t, nq, j, r

\* A new request, accepted or refused.
LEMMA LineHonours ==
  ASSUME NEW calm, NEW s, NEW rq, CInv(calm, s, NoCommand, NoCommand, rq),
         Owed(s, NoCommand, rq), NEW kind, NEW status \in {"accepted", "refused"},
         NEW t, t.ended = s.ended, t.results = s.results, t.deferred = s.deferred,
         SameQueue(s, t), t.slot = s.slot, t.action = s.action,
         NEW c, c.id \in {0, Len(rq) + 1},
         c.id = 0 \/ status = "accepted"
  PROVE  Honoured(s, NoCommand, rq, t, c,
                  Append(rq, [kind |-> kind, status |-> status]))
<1> DEFINE q == [kind |-> kind, status |-> status]
           nq == Append(rq, q)
           k == Len(rq) + 1
<1> USE NoCommandType
<1>1. /\ DOMAIN nq = DOMAIN rq \cup {k} /\ k \notin DOMAIN rq /\ k \in Nat \ {0}
      /\ nq[k] = q
      /\ \A i \in DOMAIN rq : nq[i] = rq[i] /\ i # 0
  <2>1. rq \in Seq(Requests)
    BY DEF CInv, Typed
  <2> HIDE DEF q
  <2> QED
    BY <2>1
<1>2. q.kind = kind /\ q.status = status
  OBVIOUS
<1> HIDE DEF nq, q
<1>3. c.id \in {0, k}
  OBVIOUS
<1> HIDE DEF k
<1>4. \A n \in DOMAIN s.ended : s.ended[n].id = 0 \/ s.ended[n].id \in DOMAIN rq
  BY RequestId
<1>5. ~Holds(s.ended, k)
  BY <1>1, <1>4 DEF Holds
<1>6. \A i \in DOMAIN rq : Alive(t, {c.id}, i) => Alive(s, {NoCommand.id}, i)
  BY <1>1, <1>3 DEF Alive, SameQueue
<1>7. Owed(t, c, nq)
  <2>1. Once(t)
    BY DEF Owed, Once
  <2>2. ASSUME NEW i \in DOMAIN nq, nq[i].status # "accepted"
        PROVE  /\ ~Alive(t, {c.id}, i)
               /\ ~Holds(t.results, i) /\ ~Holds(t.deferred, i)
               /\ nq[i].status = "refused" => ~Holds(t.ended, i)
    <3>1. CASE i \in DOMAIN rq
      BY <1>1, <1>6, <2>2, <3>1 DEF Owed
    <3>2. CASE i = k
      <4>1. c.id = 0
        BY <1>1, <1>2, <2>2, <3>2
      <4>2. /\ ~Holds(s.results, k) /\ ~Holds(s.deferred, k)
        BY <1>1, <1>5, FinishedIsNotAlive
      <4>3. ~Alive(s, {0}, k)
        BY <1>1 DEF CInv, Named, Known, Alive
      <4>4. ~Alive(t, {0}, k)
        BY <4>3 DEF Alive, SameQueue
      <4> QED
        BY <1>5, <3>2, <4>1, <4>2, <4>4
    <3> QED
      BY <1>1, <3>1, <3>2
  <2> QED
    BY <2>1, <2>2 DEF Owed
<1>8. ASSUME NEW i \in Nat \ {0}
      PROVE  Edge(s, rq, t, nq, i)
  <2>1. CASE i = k
    BY <1>1, <1>2, <1>5, <2>1, QuietEdge
  <2>2. CASE i # k
    BY <1>1, <2>2, QuietEdge
  <2> QED
    BY <2>1, <2>2
<1>9. Honoured(s, NoCommand, rq, t, c, nq)
  BY <1>1, <1>7, <1>8 DEF Honoured, SameKinds
<1> QED
  BY <1>9 DEF nq, q

\* What ProtocolTask had in its hands was alive already.
LEMMA PublishHonours ==
  ASSUME NEW calm, NEW s, NEW p, NEW rq, CInv(calm, s, p, NoCommand, rq),
         Owed(s, p, rq)
  PROVE  Honoured(s, p, rq, Publish(s, p), NoCommand, rq)
<1> DEFINE t == Publish(s, p)
<1> USE NoCommandType
<1>1. /\ s \in Systems /\ s.cmds \in Seq(Commands) /\ p \in Commands
      /\ \A i \in DOMAIN rq : i # 0
  BY SystemFields DEF CInv, Typed
<1>2. /\ SameStores(s, t) /\ t.action = s.action /\ t.tomb = s.tomb
      /\ \/ t.slot = p /\ t.cmds = s.cmds
         \/ t.slot = s.slot /\ t.cmds = Append(s.cmds, p)
  <2>1. CASE p.kind = "stop"
    <3>1. t = [s EXCEPT !.slot = p]
      BY <2>1 DEF Publish
    <3> HIDE DEF t
    <3> QED
      BY <1>1, <3>1 DEF Systems, SameStores
  <2>2. CASE p.kind # "stop"
    <3> DEFINE q == Append(s.cmds, p)
    <3>1. t = [s EXCEPT !.cmds = q]
      BY <2>2 DEF Publish
    <3> HIDE DEF t, q
    <3>2. SameStores(s, t) /\ t.action = s.action /\ t.tomb = s.tomb
          /\ t.slot = s.slot /\ t.cmds = q
      BY <1>1, <3>1 DEF Systems, SameStores
    <3> QED
      BY <3>2 DEF q
  <2> QED
    BY <2>1, <2>2
<1>3. \A n \in DOMAIN Append(s.cmds, p) :
        \/ n \in DOMAIN s.cmds /\ Append(s.cmds, p)[n] = s.cmds[n]
        \/ Append(s.cmds, p)[n] = p
  BY <1>1
<1> HIDE DEF t
<1>4. \A i : i # 0 /\ Alive(t, {NoCommand.id}, i) => Alive(s, {p.id}, i)
  BY <1>2, <1>3 DEF Alive
<1>5. Owed(t, NoCommand, rq)
  BY <1>1, <1>2, <1>4 DEF Owed, Once, SameStores
<1>6. \A i : Edge(s, rq, t, rq, i)
  BY <1>2, QuietEdge DEF SameStores
<1>7. Honoured(s, p, rq, t, NoCommand, rq)
  BY <1>5, <1>6 DEF Honoured, SameKinds
<1> QED
  BY <1>7 DEF t

\* A new session takes answers away, and with them the plain requests that wait:
\* the gates are open, so no other request waits.
LEMMA TornDownHonours ==
  ASSUME NEW calm, NEW s, NEW rq, CInv(calm, s, NoCommand, NoCommand, rq),
         AdmitsHello(s), Owed(s, NoCommand, rq)
  PROVE  Honoured(s, NoCommand, rq, Teardown(s), NoCommand,
              [i \in DOMAIN rq |->
                 IF \/ \E n \in DOMAIN s.results : s.results[n].id = i
                    \/ \E n \in DOMAIN s.cmds :
                         s.cmds[n].id = i /\ ~Tombstoned(s, s.cmds[n])
                 THEN [rq[i] EXCEPT !.status = "dropped"] ELSE rq[i]])
<1> DEFINE Gone(i) == \/ \E n \in DOMAIN s.results : s.results[n].id = i
                      \/ \E n \in DOMAIN s.cmds :
                           s.cmds[n].id = i /\ ~Tombstoned(s, s.cmds[n])
           nq == [i \in DOMAIN rq |->
                    IF Gone(i) THEN [rq[i] EXCEPT !.status = "dropped"]
                    ELSE rq[i]]
           t == Teardown(s)
<1> USE NoCommandType
<1>1. /\ s \in Systems /\ rq \in Seq(Requests)
      /\ \A i \in DOMAIN rq : rq[i] \in Requests /\ i \in Nat \ {0}
  BY DEF CInv, Typed
<1>2. s.motion = 0 /\ s.stop = 0 /\ s.slot = NoCommand
  BY SlotId DEF AdmitsHello, CInv, Gated
<1>3. /\ t.cmds = <<>> /\ t.slot = NoCommand
      /\ t.action = s.action /\ t.results = <<>>
      /\ t.deferred = s.deferred /\ t.ended = s.ended
  BY <1>1 DEF Teardown, Systems
<1>4. /\ DOMAIN nq = DOMAIN rq
      /\ \A i \in DOMAIN rq : /\ nq[i].kind = rq[i].kind
                              /\ nq[i].status = IF Gone(i) THEN "dropped"
                                                ELSE rq[i].status
  <2> HIDE DEF Gone
  <2> QED
    BY <1>1 DEF Requests
<1> HIDE DEF t, nq, Gone
\* What was in the queue can no longer run ...
<1>5. ASSUME NEW i, i # 0, Alive(t, {NoCommand.id}, i)
      PROVE  i = s.action.id /\ Alive(s, {NoCommand.id}, i)
  BY <1>3, <1>5 DEF Alive
\* ... and what is dropped was owed an answer, and is in no other place.
<1>6. ASSUME NEW i \in DOMAIN rq, Gone(i)
      PROVE  /\ rq[i].status = "accepted"
             /\ i # s.action.id /\ ~Holds(s.deferred, i)
             /\ Holds(s.ended, i) \/ rq[i].kind = "plain"
  <2>1. CASE Holds(s.results, i)
    <3>1. rq[i].status = "accepted"
      BY <2>1 DEF Owed
    <3>2. Holds(s.ended, i) /\ ~Alive(s, {NoCommand.id}, i)
      BY <1>1, <2>1, FinishedIsNotAlive
    <3>3. ~Holds(s.deferred, i)
      <4>1. PICK k \in DOMAIN s.results : s.results[k].id = i
        BY <2>1 DEF Holds
      <4>2. s.results[k].id # 0 /\ Once(s)
        BY <1>1, <4>1 DEF Owed
      <4>3. ~Holds(s.deferred, s.results[k].id)
        BY <4>2, StoredOnce
      <4> QED
        BY <4>1, <4>3
    <3> QED
      BY <3>1, <3>2, <3>3 DEF Alive
  <2>2. CASE \E n \in DOMAIN s.cmds :
               s.cmds[n].id = i /\ ~Tombstoned(s, s.cmds[n])
    <3>1. PICK n \in DOMAIN s.cmds :
                 s.cmds[n].id = i /\ ~Tombstoned(s, s.cmds[n])
      BY <2>2
    <3>2. Known(s.cmds[n], rq) /\ s.cmds[n].kind # "stop"
          /\ KindOf(s.tomb, rq, {"oneshot"}) /\ s.cmds[n] \in Commands
      BY <1>1, SystemFields, QueuedId DEF CInv, Named
    <3>3. i # s.tomb
      BY <1>1, <3>1, <3>2 DEF Known, KindOf, Tombstoned
    <3>4. ~OwnsMotion(s.cmds[n])
      BY <1>1, <1>2, <3>1, <3>3 DEF CInv, Gated
    <3>5. rq[i].kind = "plain"
      BY <3>1, <3>2, <3>4 DEF Known, OwnsMotion, Commands, Kinds
    <3>6. Alive(s, {NoCommand.id}, i)
      BY <3>1, <3>3 DEF Alive
    <3>7. rq[i].status = "accepted"
      BY <3>6 DEF Owed
    <3>8. ~Holds(s.ended, i)
      BY <1>1, <3>6, FinishedIsNotAlive
    <3>9. ~Holds(s.deferred, i)
      BY <1>1, <3>8, FinishedIsNotAlive
    <3>10. i # s.action.id
      BY <3>1 DEF CInv, Distinct
    <3> QED
      BY <3>5, <3>7, <3>9, <3>10
  <2> QED
    BY <1>6, <2>1, <2>2 DEF Gone, Holds
<1>7. Owed(t, NoCommand, nq)
  <2>1. Once(t)
    BY <1>3 DEF Owed, Once
  <2>2. ASSUME NEW i \in DOMAIN nq, nq[i].status # "accepted"
        PROVE  /\ ~Alive(t, {NoCommand.id}, i)
               /\ ~Holds(t.results, i) /\ ~Holds(t.deferred, i)
               /\ nq[i].status = "refused" => ~Holds(t.ended, i)
    <3>0. i \in DOMAIN rq /\ i # 0 /\ ~Holds(t.results, i)
      BY <1>1, <1>3, <1>4 DEF Holds
    <3>1. CASE Gone(i)
      BY <1>3, <1>4, <1>5, <1>6, <3>0, <3>1
    <3>2. CASE ~Gone(i)
      BY <1>3, <1>4, <1>5, <2>2, <3>0, <3>2 DEF Owed
    <3> QED
      BY <3>1, <3>2
  <2> QED
    BY <2>1, <2>2 DEF Owed
<1>8. ASSUME NEW i \in Nat \ {0}
      PROVE  Edge(s, rq, t, nq, i)
  <2>1. CASE i \in DOMAIN rq /\ Gone(i)
    BY <1>3, <1>4, <1>6, <2>1, QuietEdge
  <2>2. CASE ~(i \in DOMAIN rq /\ Gone(i))
    BY <1>3, <1>4, <2>2, QuietEdge
  <2> QED
    BY <2>1, <2>2
<1>9. Honoured(s, NoCommand, rq, t, NoCommand, nq)
  BY <1>4, <1>7, <1>8 DEF Honoured, SameKinds
<1> QED
  BY <1>9 DEF t, nq, Gone

\* Nothing happens to the requests.
LEMMA RestHonours ==
  ASSUME NEW s, NEW p, NEW rq, Owed(s, p, rq), NEW t,
         SameQueue(s, t), SameStores(s, t), t.slot = s.slot,
         t.action = s.action
  PROVE  Honoured(s, p, rq, t, p, rq)
<1>1. \A i : Alive(t, {p.id}, i) <=> Alive(s, {p.id}, i)
  BY DEF Alive, SameQueue
<1>2. Owed(t, p, rq)
  BY <1>1 DEF Owed, Once, SameStores
<1>3. \A i : Edge(s, rq, t, rq, i)
  BY QuietEdge DEF SameStores
<1> QED
  BY <1>2, <1>3 DEF Honoured, SameKinds

\* Nobody has been promised anything yet.
LEMMA NothingOwed ==
  ASSUME Init
  PROVE  Owed(sys, pending, requests)
<1>1. requests = <<>> /\ sys.ended = <<>>
  BY DEF Init
<1> QED
  BY <1>1 DEF Owed, Once

\* Whatever step the tasks take, it honours what the requests are owed.
LEMMA HonouredStep ==
  ASSUME IInv, [Next]_vars, Owed(sys, pending, requests)
  PROVE  Honoured(sys, pending, requests, sys', pending', requests')
<1> DEFINE calm == faults = 0
           less == faults' = 0
<1>1. /\ CInv(calm, sys, pending, NoCommand, requests)
      /\ pc = "publish" <=> pending # NoCommand
      /\ sys \in Systems
  BY DEF IInv, CInv, Typed
<1>2. IInv' /\ CInv(less, sys', pending', NoCommand, requests')
  <2>1. IInv'
    BY CommandStep
  <2> QED
    BY <2>1 DEF IInv
<1> HIDE DEF calm, less
<1>3. CASE GlobalFault \/ Watchdog \/ Service
  <2>1. Serves(sys, {}, sys', {})
    BY <1>2, <1>3, ServiceServes
  <2>2. UNCHANGED <<pending, requests>>
    BY <1>3 DEF GlobalFault, Watchdog, Service, Fault, Keep, SafetyTrip,
       StopPreempts, StopWidens, Advance, StopStarts, CommandStarts
  <2>3. PICK t : t = sys'
    OBVIOUS
  <2>4. CInv(less, t, pending, NoCommand, requests)
    BY <1>2, <2>2, <2>3
  <2>5. Honoured(sys, pending, requests, t, pending, requests)
    BY <1>1, <2>1, <2>3, <2>4, ServesHonours
  <2> QED
    BY <2>2, <2>3, <2>5
<1>4. CASE Drain
  <2>1. PICK status \in {"reported", "dropped"} :
          requests' = SetStatus(Head(sys.results).id, status)
    BY <1>4 DEF Drain
  <2>2. sys.results # <<>> /\ sys' = PopResult(sys) /\ pending' = pending
    BY <1>4 DEF Drain
  <2>3. Honoured(sys, pending, requests, PopResult(sys), pending,
                 IF Head(sys.results).id = 0 THEN requests
                 ELSE [requests EXCEPT ![Head(sys.results).id].status = status])
    BY <1>1, <2>2, DrainHonours
  <2> QED
    BY <2>1, <2>2, <2>3 DEF SetStatus
<1>5. CASE PublishPending
  BY <1>1, <1>5, PublishHonours DEF PublishPending
<1>6. CASE Hello
  <2>1. /\ pending = NoCommand /\ pending' = pending /\ AdmitsHello(sys)
    BY <1>1, <1>6 DEF Hello
  <2>2. CASE sys' = RotateSession(sys) /\ UNCHANGED requests
    <3>1. /\ SameQueue(sys, sys') /\ SameStores(sys, sys')
          /\ sys'.slot = sys.slot /\ sys'.action = sys.action
      BY <1>1, <2>2 DEF RotateSession, Systems, SameQueue, SameStores
    <3> QED
      BY <2>1, <2>2, <3>1, RestHonours
  <2>3. CASE /\ sys' = Teardown(sys)
             /\ requests' =
                  [i \in DOMAIN requests |->
                     IF \/ \E n \in DOMAIN sys.results : sys.results[n].id = i
                        \/ \E n \in DOMAIN sys.cmds :
                             /\ sys.cmds[n].id = i
                             /\ ~Tombstoned(sys, sys.cmds[n])
                     THEN [requests[i] EXCEPT !.status = "dropped"]
                     ELSE requests[i]]
    BY <1>1, <2>1, <2>3, TornDownHonours
  <2> QED
    BY <1>6, <2>2, <2>3 DEF Hello
<1>7. CASE \E kind \in KindsOf(sys), m \in Motors : Line(kind, {m})
  <2>1. PICK kind \in KindsOf(sys), m \in Motors : Line(kind, {m})
    BY <1>7
  <2> DEFINE c == [id |-> Len(requests) + 1, kind |-> kind, mask |-> {m},
                   session |-> sys.session]
  <2>2. /\ pending = NoCommand
        /\ \/ /\ sys' = Claim(sys, c) /\ pending' = c
              /\ requests' = Append(requests, [kind |-> kind,
                                               status |-> "accepted"])
           \/ /\ requests' = Append(requests, [kind |-> kind,
                                               status |-> "refused"])
              /\ UNCHANGED <<sys, pending>>
    BY <1>1, <2>1 DEF Line
  <2>3. c \in Commands /\ c.id = Len(requests) + 1
    <3>1. sys.session \in Nat /\ requests \in Seq(Requests)
      BY <1>1, SystemFields DEF CInv, Typed
    <3>2. Len(requests) + 1 \in Nat
      BY <3>1
    <3> QED
      BY <3>1, <3>2 DEF Commands, KindsOf, Kinds
  <2> HIDE DEF c
  <2>4. CASE /\ sys' = Claim(sys, c) /\ pending' = c
             /\ requests' = Append(requests, [kind |-> kind,
                                              status |-> "accepted"])
    <3> DEFINE t == Claim(sys, c)
    <3>1. /\ SameQueue(sys, t) /\ SameStores(sys, t)
          /\ t.slot = sys.slot /\ t.action = sys.action
      BY <1>1, <2>3, ClaimEffect
    <3> HIDE DEF t
    <3>2. Honoured(sys, NoCommand, requests, t, c,
                   Append(requests, [kind |-> kind, status |-> "accepted"]))
      BY <1>1, <2>2, <2>3, <3>1, LineHonours DEF SameStores
    <3> QED
      BY <2>2, <2>4, <3>2 DEF t
  <2>5. CASE /\ requests' = Append(requests, [kind |-> kind,
                                              status |-> "refused"])
             /\ UNCHANGED <<sys, pending>>
    <3>1. Honoured(sys, NoCommand, requests, sys, NoCommand,
                   Append(requests, [kind |-> kind, status |-> "refused"]))
      BY <1>1, <2>2, NoCommandType, LineHonours DEF SameQueue
    <3> QED
      BY <2>2, <2>5, <3>1
  <2> QED
    BY <2>2, <2>4, <2>5
<1>8. CASE EndDrain \/ EndPass \/ UNCHANGED vars
  <2>1. UNCHANGED <<sys, pending, requests>>
    BY <1>8 DEF EndDrain, EndPass, vars
  <2> QED
    BY <2>1, RestHonours DEF SameQueue, SameStores
<1> QED
  BY <1>3, <1>4, <1>5, <1>6, <1>7, <1>8 DEF Next, Protocol

\* The invariant behind the contract, always kept.
Promise == IInv /\ Owed(sys, pending, requests)

LEMMA PromiseKept ==
  /\ Init => Promise
  /\ Promise /\ [Next]_vars => Promise'
<1>1. Init => Promise
  BY CommandInit, NothingOwed DEF Promise
<1>2. ASSUME Promise, [Next]_vars
      PROVE  Promise'
  <2>1. IInv'
    BY <1>2, CommandStep DEF Promise
  <2>2. Honoured(sys, pending, requests, sys', pending', requests')
    BY <1>2, HonouredStep DEF Promise
  <2>3. Owed(sys, pending, requests)'
    BY <2>2 DEF Honoured
  <2> QED
    BY <2>1, <2>3 DEF Promise
<1> QED
  BY <1>1, <1>2

\* The requests start as the contract does ...
LEMMA ContractInit ==
  ASSUME Init
  PROVE  Contract!Init
<1>1. requests = <<>> /\ sys.ended = <<>>
  BY DEF Init
<1>2. \A i \in Ids : StateOf(i) = "none" /\ TerminalsOf(i) = {}
  BY <1>1 DEF StateOf, TerminalsOf
<1>3. {i \in DOMAIN requests : requests[i].kind # "plain"} = {}
  BY <1>1
<1> QED
  BY <1>2, <1>3 DEF Contract!Init

\* ... and every step moves each of them along an edge of the contract.
LEMMA ContractStep ==
  ASSUME Promise, [Next]_vars
  PROVE  Contract!Next
<1> DEFINE state == [i \in Ids |-> StateOf(i)]
           terminals == [i \in Ids |-> TerminalsOf(i)]
           owner == {i \in DOMAIN requests : requests[i].kind # "plain"}
<1>1. Honoured(sys, pending, requests, sys', pending', requests')
  BY HonouredStep DEF Promise
<1>2. owner \subseteq owner'
  BY <1>1 DEF Honoured, SameKinds
<1>3. ASSUME NEW i \in Ids
      PROVE  \/ Contract!End(i)
             \/ /\ \/ Contract!Refuse(i) \/ Contract!Accept(i)
                   \/ Contract!Report(i) \/ Contract!Drop(i)
                   \/ Contract!Rest(i)
                /\ terminals'[i] = terminals[i]
  <2>1. Edge(sys, requests, sys', requests', i)
    BY <1>1 DEF Honoured, Ids
  <2>2. /\ state[i] = StateIn(sys, requests, i)
        /\ state'[i] = StateIn(sys', requests', i)
        /\ terminals[i] = TerminalsIn(sys, i)
        /\ terminals'[i] = TerminalsIn(sys', i)
    BY DEF StateOf, StateIn, TerminalsOf, TerminalsIn, Ended
  <2>3. (state[i] = "accepted" /\ requests[i].kind = "plain") => i \notin owner
    OBVIOUS
  <2>4. /\ Contract!End(i) <=>
             /\ state[i] = "accepted" /\ state'[i] = "ended"
             /\ \E t \in terminals'[i] : terminals'[i] = {t} /\ t.code \in Codes
        /\ Contract!Refuse(i) <=> state[i] = "none" /\ state'[i] = "refused"
        /\ Contract!Accept(i) <=> state[i] = "none" /\ state'[i] = "accepted"
        /\ Contract!Report(i) <=> state[i] = "ended" /\ state'[i] = "reported"
        /\ Contract!Drop(i) <=>
             /\ state[i] = "ended" \/ (state[i] = "accepted" /\ i \notin owner)
             /\ state'[i] = "dropped"
        /\ Contract!Rest(i) <=> state'[i] = state[i]
    BY DEF Contract!End, Contract!Refuse, Contract!Accept, Contract!Report,
           Contract!Drop, Contract!Rest
  <2> HIDE DEF state, terminals, owner
  <2> QED
    BY <2>1, <2>2, <2>3, <2>4 DEF Edge
<1> QED
  BY <1>2, <1>3 DEF Contract!Next

\* The two tasks and their stores implement the contract, faults and full stores
\* included: every request is refused or accepted, gets at most one terminal, is
\* reported once and only then, and whoever owned a gate has ended before a new
\* session takes its answer away.
THEOREM ContractKept == Spec => ContractSpec
<1>1. Init => Promise /\ Contract!Init
  BY PromiseKept, ContractInit
<1>2. Promise /\ [Next]_vars => Promise'
  BY PromiseKept
<1>3. Promise /\ [Next]_vars => Contract!Next
  BY ContractStep
<1> QED
  BY <1>1, <1>2, <1>3, PTL DEF Spec, ContractSpec, Contract!Spec
=============================================================================
