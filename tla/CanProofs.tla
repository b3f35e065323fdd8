------------------------------ MODULE CanProofs ------------------------------
(***************************************************************************)
(* Proofs about the way of a CAN frame to the bus, for any number of joints *)
(* and frames, any capacity of the queue and of the hardware FIFO, and both *)
(* kinds of builds.                                                         *)
(***************************************************************************)
EXTENDS CanTransmit, SequenceTheorems, TLAPS

Frames == [kind : Kinds, joint : Joints, id : Nat]

TypeInv ==
  /\ queue \subseteq Frames /\ fifo \in Seq(Frames) /\ sent \in Seq(Frames)
  /\ next \in Nat

\* Frames are numbered as they are accepted.
Numbered ==
  /\ \A e \in queue : e.id < next
  /\ \A e, f \in queue : e.id = f.id => e = f
  /\ \A n \in DOMAIN fifo : fifo[n].id < next
  /\ \A n \in DOMAIN sent : sent[n].id < next

\* No control of the drive d is older than the disable that withdrew it.
NotWithdrawn(d, e) ==
  withdraw /\ Emergency(d) /\ e.kind = "control" /\ d.joint = e.joint
    => d.id < e.id

\* The second frame may reach the bus after the first.
MayFollow(first, second) ==
  /\ Rank(first) = Rank(second) => first.id < second.id
  /\ NotWithdrawn(first, second)

Chain(s) == \A m, n \in DOMAIN s : m < n => MayFollow(s[m], s[n])

\* What is on the bus, in the FIFO and in the queue may follow in this order;
\* in the queue, where an urgent frame overtakes, only the withdrawal is done.
OnTheWay ==
  /\ Chain(sent) /\ Chain(fifo)
  /\ \A m \in DOMAIN sent, n \in DOMAIN fifo : MayFollow(sent[m], fifo[n])
  /\ \A m \in DOMAIN sent, e \in queue : MayFollow(sent[m], e)
  /\ \A n \in DOMAIN fifo, e \in queue : MayFollow(fifo[n], e)
  /\ \A d, e \in queue : NotWithdrawn(d, e)

Bounded == next <= MaxFrames

CanInv == TypeInv /\ Numbered /\ OnTheWay /\ Bounded
-----------------------------------------------------------------------------
(* Arithmetic and sequences.                                               *)

\* Until the width of the counter is used up, a sequence number is an identifier.
LEMMA SequenceIsId ==
  ASSUME NEW e, e.id \in Nat, e.id < SeqModulus
  PROVE  Sequence(e) = e.id
<1>1. \A m \in Nat, a \in Nat : a < m => a % m = a
  OBVIOUS
<1> QED
  BY <1>1, CanAssumption DEF Sequence

\* What is left when one element is taken out of a sequence.
LEMMA RemoveAtByIndex ==
  ASSUME NEW S, NEW s \in Seq(S), NEW i \in DOMAIN s
  PROVE  LET t == RemoveAt(s, i) IN
         /\ t \in Seq(S) /\ Len(t) = Len(s) - 1
         /\ \A k \in 1..(Len(s) - 1) : t[k] = IF k < i THEN s[k] ELSE s[k + 1]
<1> DEFINE a == SubSeq(s, 1, i - 1)
           b == SubSeq(s, i + 1, Len(s))
<1>1. Len(s) \in Nat /\ i \in 1..Len(s)
  OBVIOUS
<1>2. /\ a \in Seq(S) /\ Len(a) = i - 1
      /\ \A k \in 1..(i - 1) : a[k] = s[k]
  BY <1>1
<1>3. /\ b \in Seq(S) /\ Len(b) = Len(s) - i
      /\ \A k \in 1..(Len(s) - i) : b[k] = s[i + k]
  BY <1>1
<1>4. RemoveAt(s, i) = a \o b
  BY DEF RemoveAt
<1> HIDE DEF a, b
<1>5. /\ a \o b \in Seq(S) /\ Len(a \o b) = Len(a) + Len(b)
      /\ \A k \in 1..(Len(a) + Len(b)) :
           (a \o b)[k] = IF k <= Len(a) THEN a[k] ELSE b[k - Len(a)]
  BY <1>2, <1>3, ConcatProperties
<1>6. Len(a) + Len(b) = Len(s) - 1
  BY <1>1, <1>2, <1>3
<1>7. ASSUME NEW k \in 1..(Len(s) - 1)
      PROVE  (a \o b)[k] = IF k < i THEN s[k] ELSE s[k + 1]
  <2>1. CASE k < i
    BY <1>1, <1>2, <1>5, <1>6, <2>1
  <2>2. CASE ~(k < i)
    <3> DEFINE m == k - Len(a)
    <3>1. m \in 1..(Len(s) - i) /\ i + m = k + 1
      BY <1>1, <1>2, <2>2
    <3>2. (a \o b)[k] = b[m]
      BY <1>1, <1>2, <1>5, <1>6, <2>2
    <3> HIDE DEF m
    <3> QED
      BY <1>3, <2>2, <3>1, <3>2
  <2> QED
    BY <2>1, <2>2
<1> QED
  BY <1>4, <1>5, <1>6, <1>7

\* A chain stays one without one of its frames ...
LEMMA ChainWithout ==
  ASSUME NEW s \in Seq(Frames), NEW i \in DOMAIN s, Chain(s)
  PROVE  /\ RemoveAt(s, i) \in Seq(Frames) /\ Chain(RemoveAt(s, i))
         /\ \A k \in DOMAIN RemoveAt(s, i) :
              \E n \in DOMAIN s : RemoveAt(s, i)[k] = s[n]
<1> DEFINE t == RemoveAt(s, i)
<1>1. Len(s) \in Nat /\ i \in 1..Len(s) /\ DOMAIN s = 1..Len(s)
  OBVIOUS
<1>2. /\ t \in Seq(Frames) /\ DOMAIN t = 1..(Len(s) - 1)
      /\ \A k \in 1..(Len(s) - 1) : t[k] = IF k < i THEN s[k] ELSE s[k + 1]
  <2>1. /\ t \in Seq(Frames) /\ Len(t) = Len(s) - 1
        /\ \A k \in 1..(Len(s) - 1) : t[k] = IF k < i THEN s[k] ELSE s[k + 1]
    BY RemoveAtByIndex
  <2> HIDE DEF t
  <2> QED
    BY <1>1, <2>1
<1> HIDE DEF t
<1>3. ASSUME NEW k \in 1..(Len(s) - 1)
      PROVE  \E n \in 1..Len(s) : /\ t[k] = s[n]
                                  /\ k < i => n = k
                                  /\ ~(k < i) => n = k + 1
  <2>1. CASE k < i
    <3>1. k \in 1..Len(s) /\ t[k] = s[k]
      BY <1>1, <1>2, <2>1
    <3> QED
      BY <2>1, <3>1
  <2>2. CASE ~(k < i)
    <3>1. k + 1 \in 1..Len(s) /\ t[k] = s[k + 1]
      BY <1>1, <1>2, <2>2
    <3> QED
      BY <2>2, <3>1
  <2> QED
    BY <2>1, <2>2
<1>4. ASSUME NEW m \in 1..(Len(s) - 1), NEW n \in 1..(Len(s) - 1), m < n
      PROVE  MayFollow(t[m], t[n])
  <2>1. PICK k \in 1..Len(s) : /\ t[m] = s[k]
                               /\ m < i => k = m
                               /\ ~(m < i) => k = m + 1
    BY <1>3
  <2>2. PICK l \in 1..Len(s) : /\ t[n] = s[l]
                               /\ n < i => l = n
                               /\ ~(n < i) => l = n + 1
    BY <1>3
  <2>3. k < l
    BY <1>1, <1>4, <2>1, <2>2
  <2> QED
    BY <1>1, <2>1, <2>2, <2>3 DEF Chain
<1> QED
  BY <1>1, <1>2, <1>3, <1>4 DEF Chain, t

\* ... and with one more at its end.
LEMMA ChainWith ==
  ASSUME NEW s \in Seq(Frames), Chain(s), NEW e \in Frames,
         \A n \in DOMAIN s : MayFollow(s[n], e)
  PROVE  /\ Append(s, e) \in Seq(Frames) /\ Chain(Append(s, e))
         /\ \A k \in DOMAIN Append(s, e) :
              Append(s, e)[k] = e \/ \E n \in DOMAIN s : Append(s, e)[k] = s[n]
<1> DEFINE t == Append(s, e)
<1>1. /\ Len(s) \in Nat /\ DOMAIN s = 1..Len(s)
      /\ t \in Seq(Frames) /\ DOMAIN t = 1..(Len(s) + 1)
      /\ \A k \in 1..Len(s) : t[k] = s[k]
      /\ t[Len(s) + 1] = e
  OBVIOUS
<1> HIDE DEF t
<1>2. ASSUME NEW m \in DOMAIN t, NEW n \in DOMAIN t, m < n
      PROVE  MayFollow(t[m], t[n])
  <2>1. m \in 1..Len(s)
    BY <1>1, <1>2
  <2>2. n \in 1..Len(s) \/ n = Len(s) + 1
    BY <1>1
  <2> QED
    BY <1>1, <1>2, <2>1, <2>2 DEF Chain
<1>3. \A k \in DOMAIN t : t[k] = e \/ \E n \in DOMAIN s : t[k] = s[n]
  BY <1>1
<1> QED
  BY <1>1, <1>2, <1>3 DEF Chain, t
-----------------------------------------------------------------------------
(* The scheduler.                                                          *)

\* A new frame follows everything that was accepted before it.
LEMMA NewFollows ==
  ASSUME CanInv, NEW e \in Frames, e.id >= next
  PROVE  /\ \A n \in DOMAIN sent : MayFollow(sent[n], e)
         /\ \A n \in DOMAIN fifo : MayFollow(fifo[n], e)
         /\ \A d \in queue : NotWithdrawn(d, e)
<1>1. /\ \A n \in DOMAIN sent : sent[n] \in Frames
      /\ \A n \in DOMAIN fifo : fifo[n] \in Frames
      /\ \A d \in queue : d \in Frames
      /\ next \in Nat
  BY DEF CanInv, TypeInv
<1>2. \A d \in Frames : d.id < next => d.id < e.id
  BY <1>1 DEF Frames
<1> QED
  BY <1>1, <1>2 DEF CanInv, Numbered, MayFollow, NotWithdrawn

\* One frame is submitted: a disable withdraws first, and may take the place of
\* another frame; whatever else has no room is refused.
LEMMA SubmitKeeps ==
  ASSUME CanInv, NEW kind \in Kinds, NEW j \in Joints, next < MaxFrames,
         Submit(Frame(kind, j, next)),
         UNCHANGED <<withdraw, fifo, sent>>, MaxFrames \in Nat
  PROVE  CanInv'
<1> DEFINE e == Frame(kind, j, next)
           q == Withdrawn(queue, e)
<1>1. /\ e \in Frames /\ e.id = next /\ e.kind = kind /\ e.joint = j
  BY DEF CanInv, TypeInv, Frame, Frames
<1> HIDE DEF e
<1>2. q \subseteq queue
  BY DEF Withdrawn
<1>3. \/ queue' \subseteq queue /\ next' = next
      \/ /\ queue' \subseteq q \cup {e}
         /\ next' = next + 1
  <2>1. \/ /\ \E rest \in Remaining(q) : queue' = rest \cup {e}
           /\ next' = next + 1
        \/ queue' = q /\ next' = next
    BY DEF Submit, e
  <2>2. \A rest \in Remaining(q) : rest \subseteq q
    BY DEF Remaining
  <2> QED
    BY <1>2, <2>1, <2>2
<1> HIDE DEF q
<1>4. CASE queue' \subseteq queue /\ next' = next
  BY <1>4
  DEF CanInv, TypeInv, Numbered, OnTheWay, Bounded, Chain, MayFollow,
      NotWithdrawn
<1>5. CASE queue' \subseteq q \cup {e} /\ next' = next + 1
  <2>1. queue' \subseteq queue \cup {e}
    BY <1>2, <1>5
  <2>2. next \in Nat /\ next < next'
    BY <1>5 DEF CanInv, TypeInv
  <2>3. TypeInv'
    BY <1>1, <1>5, <2>1 DEF CanInv, TypeInv
  <2>4. Numbered'
    <3>1. \A d \in Frames : d.id < next => d.id < next'
      BY <1>5, <2>2 DEF Frames
    <3>2. \A d \in queue : d.id # next
      BY <2>2 DEF CanInv, TypeInv, Numbered, Frames
    <3>3. \A d \in queue' : d.id < next'
      BY <1>1, <2>1, <2>2, <3>1 DEF CanInv, TypeInv, Numbered
    <3>4. \A d, f \in queue' : d.id = f.id => d = f
      BY <1>1, <2>1, <3>2 DEF CanInv, Numbered
    <3>5. \A n \in DOMAIN fifo : fifo[n] \in Frames
      BY DEF CanInv, TypeInv
    <3>6. \A n \in DOMAIN sent : sent[n] \in Frames
      BY DEF CanInv, TypeInv
    <3> QED
      BY <3>1, <3>3, <3>4, <3>5, <3>6 DEF CanInv, Numbered
  <2>5. OnTheWay'
    <3>1. e.id >= next
      BY <1>1, <2>2
    <3>2. /\ \A n \in DOMAIN sent : MayFollow(sent[n], e)
          /\ \A n \in DOMAIN fifo : MayFollow(fifo[n], e)
          /\ \A d \in queue : NotWithdrawn(d, e)
      BY <1>1, <3>1, NewFollows
    <3>3. \A d \in q : NotWithdrawn(e, d)
      BY <1>1 DEF q, Withdrawn, Controls, NotWithdrawn
    <3>4. NotWithdrawn(e, e)
      BY <1>1 DEF NotWithdrawn, Emergency
    <3>5. \A d, f \in queue' : NotWithdrawn(d, f)
      BY <1>2, <1>5, <3>2, <3>3, <3>4 DEF CanInv, OnTheWay
    <3>6. /\ \A n \in DOMAIN sent, d \in queue' : MayFollow(sent[n], d)
          /\ \A n \in DOMAIN fifo, d \in queue' : MayFollow(fifo[n], d)
      BY <2>1, <3>2 DEF CanInv, OnTheWay
    <3>7. /\ Chain(sent) /\ Chain(fifo)
          /\ \A m \in DOMAIN sent, n \in DOMAIN fifo :
               MayFollow(sent[m], fifo[n])
      BY DEF CanInv, OnTheWay
    <3> QED
      BY <3>5, <3>6, <3>7 DEF OnTheWay, Chain, MayFollow, NotWithdrawn
  <2>6. Bounded'
    BY <1>5, <2>2 DEF Bounded
  <2> QED
    BY <2>3, <2>4, <2>5, <2>6 DEF CanInv
<1> QED
  BY <1>3, <1>4, <1>5

\* A control group is queued as a whole, and numbered in the order of its joints.
LEMMA GroupKeeps ==
  ASSUME CanInv, next + JointCount <= MaxFrames, MaxFrames \in Nat,
         queue' = queue \cup
                  {Frame("control", j, next + j - 1) : j \in Joints},
         next' = next + JointCount,
         UNCHANGED <<withdraw, fifo, sent>>
  PROVE  CanInv'
<1> DEFINE group == {Frame("control", j, next + j - 1) : j \in Joints}
<1>1. next \in Nat /\ JointCount \in Nat \ {0}
  BY CanAssumption DEF CanInv, TypeInv
<1>2. \A e \in group : /\ e \in Frames /\ e.kind = "control"
                       /\ e.id = next + e.joint - 1
                       /\ e.id >= next /\ e.id < next'
  BY <1>1 DEF Frame, Frames, Joints, Kinds
<1>3. queue' = queue \cup group
  OBVIOUS
<1> HIDE DEF group
<1>4. TypeInv'
  BY <1>1, <1>2, <1>3 DEF CanInv, TypeInv
<1>5. Numbered'
  <2>1. \A d \in Frames : d.id < next => d.id < next'
    BY <1>1 DEF Frames
  <2>2. /\ \A d \in queue : d \in Frames /\ d.id < next
        /\ \A n \in DOMAIN fifo : fifo[n] \in Frames /\ fifo[n].id < next
        /\ \A n \in DOMAIN sent : sent[n] \in Frames /\ sent[n].id < next
    BY DEF CanInv, TypeInv, Numbered
  <2>3. \A d, e \in group : d.id = e.id => d = e
    <3>1. \A d \in group : d = Frame("control", d.joint, next + d.joint - 1)
                           /\ d.joint \in Nat
      BY DEF group, Frame, Joints
    <3>2. \A d, e \in group : d.id = e.id => d.joint = e.joint
      BY <1>1, <1>2, <3>1
    <3> QED
      BY <3>1, <3>2
  <2>4. \A d \in queue, e \in group : d.id # e.id
    BY <1>1, <1>2, <2>2 DEF Frames
  <2>5. \A d, e \in queue' : d.id = e.id => d = e
    BY <1>3, <2>3, <2>4 DEF CanInv, Numbered
  <2>6. \A d \in queue' : d.id < next'
    BY <1>2, <1>3, <2>1, <2>2
  <2> QED
    BY <2>1, <2>2, <2>5, <2>6 DEF Numbered
<1>6. OnTheWay'
  <2>1. \A e \in group : /\ \A n \in DOMAIN sent : MayFollow(sent[n], e)
                         /\ \A n \in DOMAIN fifo : MayFollow(fifo[n], e)
                         /\ \A d \in queue : NotWithdrawn(d, e)
    BY <1>2, NewFollows
  <2>2. \A d \in group : \A e : NotWithdrawn(d, e)
    BY <1>2 DEF NotWithdrawn, Emergency
  <2>3. \A d, e \in queue' : NotWithdrawn(d, e)
    BY <1>3, <2>1, <2>2 DEF CanInv, OnTheWay
  <2>4. /\ \A n \in DOMAIN sent, d \in queue' : MayFollow(sent[n], d)
        /\ \A n \in DOMAIN fifo, d \in queue' : MayFollow(fifo[n], d)
    BY <1>3, <2>1 DEF CanInv, OnTheWay
  <2>5. /\ Chain(sent) /\ Chain(fifo)
        /\ \A m \in DOMAIN sent, n \in DOMAIN fifo :
             MayFollow(sent[m], fifo[n])
    BY DEF CanInv, OnTheWay
  <2> QED
    BY <2>3, <2>4, <2>5 DEF OnTheWay, Chain, MayFollow, NotWithdrawn
<1>7. Bounded'
  BY DEF Bounded
<1> QED
  BY <1>4, <1>5, <1>6, <1>7 DEF CanInv

\* The foremost frame goes to the hardware.  It is the oldest of its rank,
\* because no sequence number has wrapped yet.
LEMMA MoveKeeps ==
  ASSUME CanInv, Move, MaxFrames \in Nat, MaxFrames <= SeqModulus
  PROVE  CanInv'
<1>1. PICK e \in Foremost(queue) :
        fifo' = Append(fifo, e) /\ queue' = queue \ {e}
  BY DEF Move
<1>2. UNCHANGED <<withdraw, next, sent>>
  BY DEF Move
<1>3. e \in queue /\ e \in Frames /\ \A f \in queue : ~Before(f, e)
  BY <1>1 DEF CanInv, TypeInv, Foremost
<1>4. \A f \in queue : Sequence(f) = f.id
  <2> TAKE f \in queue
  <2>1. f.id \in Nat /\ f.id < SeqModulus
    BY CanAssumption DEF CanInv, TypeInv, Numbered, Bounded, Frames
  <2> QED
    BY <2>1, SequenceIsId
<1>5. \A f \in queue' : Rank(e) = Rank(f) => e.id < f.id
  <2>1. \A f \in queue : Rank(e) = Rank(f) => ~(f.id < e.id)
    BY <1>3, <1>4 DEF Before
  <2>2. \A f \in queue : f.id \in Nat
    BY DEF CanInv, TypeInv, Frames
  <2>3. \A f \in queue' : f \in queue /\ f.id # e.id
    BY <1>1, <1>3 DEF CanInv, Numbered
  <2> QED
    BY <1>3, <2>1, <2>2, <2>3
<1>6. \A f \in queue' : MayFollow(e, f)
  BY <1>1, <1>3, <1>5 DEF CanInv, OnTheWay, MayFollow
<1>7. /\ Append(fifo, e) \in Seq(Frames) /\ Chain(Append(fifo, e))
      /\ \A k \in DOMAIN Append(fifo, e) :
           \/ Append(fifo, e)[k] = e
           \/ \E n \in DOMAIN fifo : Append(fifo, e)[k] = fifo[n]
  BY <1>3, ChainWith DEF CanInv, TypeInv, OnTheWay
<1>8. /\ fifo' \in Seq(Frames)
      /\ \A m, n \in DOMAIN fifo' : m < n => MayFollow(fifo'[m], fifo'[n])
      /\ \A k \in DOMAIN fifo' : \/ fifo'[k] = e
                                 \/ \E n \in DOMAIN fifo : fifo'[k] = fifo[n]
  BY <1>1, <1>7 DEF Chain
<1>9. TypeInv' /\ Numbered' /\ Bounded'
  BY <1>1, <1>2, <1>3, <1>8 DEF CanInv, TypeInv, Numbered, Bounded
<1>10. OnTheWay'
  <2>1. \A k \in DOMAIN fifo', f \in queue' : MayFollow(fifo'[k], f)
    BY <1>1, <1>6, <1>8 DEF CanInv, OnTheWay
  <2>2. \A m \in DOMAIN sent, k \in DOMAIN fifo' : MayFollow(sent[m], fifo'[k])
    BY <1>3, <1>8 DEF CanInv, OnTheWay
  <2>3. /\ Chain(sent)
        /\ \A m \in DOMAIN sent, f \in queue' : MayFollow(sent[m], f)
        /\ \A d, f \in queue' : NotWithdrawn(d, f)
    BY <1>1 DEF CanInv, OnTheWay
  <2> QED
    BY <1>2, <1>8, <2>1, <2>2, <2>3
    DEF OnTheWay, Chain, MayFollow, NotWithdrawn
<1> QED
  BY <1>9, <1>10 DEF CanInv
-----------------------------------------------------------------------------
(* The controller.                                                         *)

\* The oldest frame of the FIFO goes on the bus.
LEMMA SendKeeps ==
  ASSUME CanInv, Send
  PROVE  CanInv'
<1>1. /\ sent' = Append(sent, Head(fifo)) /\ fifo' = Tail(fifo)
      /\ UNCHANGED <<withdraw, queue, next>>
      /\ fifo # <<>> /\ fifo \in Seq(Frames) /\ sent \in Seq(Frames)
  BY DEF Send, Task, CanInv, TypeInv
<1> DEFINE e == Head(fifo)
<1>2. /\ e \in Frames /\ e = fifo[1] /\ 1 \in DOMAIN fifo
      /\ fifo' \in Seq(Frames)
      /\ \A k \in DOMAIN fifo' : /\ k + 1 \in DOMAIN fifo /\ k + 1 > 1
                                 /\ fifo'[k] = fifo[k + 1]
      /\ \A m, n \in DOMAIN fifo' : m < n => m + 1 < n + 1
  BY <1>1
<1> HIDE DEF e
<1>3. \A n \in DOMAIN sent : MayFollow(sent[n], e)
  BY <1>2 DEF CanInv, OnTheWay
<1>4. /\ Append(sent, e) \in Seq(Frames) /\ Chain(Append(sent, e))
      /\ \A k \in DOMAIN Append(sent, e) :
           \/ Append(sent, e)[k] = e
           \/ \E n \in DOMAIN sent : Append(sent, e)[k] = sent[n]
  BY <1>1, <1>2, <1>3, ChainWith DEF CanInv, OnTheWay
<1>5. /\ sent' \in Seq(Frames)
      /\ \A m, n \in DOMAIN sent' : m < n => MayFollow(sent'[m], sent'[n])
      /\ \A k \in DOMAIN sent' : \/ sent'[k] = e
                                 \/ \E n \in DOMAIN sent : sent'[k] = sent[n]
  BY <1>1, <1>4 DEF Chain, e
<1>6. TypeInv' /\ Numbered' /\ Bounded'
  <2>1. \A k \in DOMAIN sent' : sent'[k].id < next
    BY <1>2, <1>5 DEF CanInv, Numbered
  <2>2. \A k \in DOMAIN fifo' : fifo'[k].id < next
    BY <1>2 DEF CanInv, Numbered
  <2> QED
    BY <1>1, <1>2, <1>5, <2>1, <2>2 DEF CanInv, TypeInv, Numbered, Bounded
<1>7. OnTheWay'
  <2>1. \A m, n \in DOMAIN fifo' : m < n => MayFollow(fifo'[m], fifo'[n])
    BY <1>2 DEF CanInv, OnTheWay, Chain
  <2>2. \A n \in DOMAIN fifo' : MayFollow(e, fifo'[n])
    BY <1>2 DEF CanInv, OnTheWay, Chain
  <2>3. \A m \in DOMAIN sent', n \in DOMAIN fifo' : MayFollow(sent'[m], fifo'[n])
    BY <1>2, <1>5, <2>2 DEF CanInv, OnTheWay
  <2>4. \A m \in DOMAIN sent', f \in queue : MayFollow(sent'[m], f)
    BY <1>2, <1>5 DEF CanInv, OnTheWay
  <2>5. \A n \in DOMAIN fifo', f \in queue : MayFollow(fifo'[n], f)
    BY <1>2 DEF CanInv, OnTheWay
  <2> QED
    BY <1>1, <1>5, <2>1, <2>3, <2>4, <2>5, ZenonT(30)
    DEF CanInv, OnTheWay, Chain, MayFollow, NotWithdrawn
<1> QED
  BY <1>6, <1>7 DEF CanInv

\* A frame is aborted out of the FIFO; the others keep their order.
LEMMA AbortKeeps ==
  ASSUME CanInv, Abort
  PROVE  CanInv'
<1>1. UNCHANGED <<withdraw, queue, next, sent>>
  BY DEF Abort, Task
<1>2. PICK i \in DOMAIN fifo : fifo' = RemoveAt(fifo, i)
  BY DEF Abort
<1>3. /\ RemoveAt(fifo, i) \in Seq(Frames) /\ Chain(RemoveAt(fifo, i))
      /\ \A k \in DOMAIN RemoveAt(fifo, i) :
           \E n \in DOMAIN fifo : RemoveAt(fifo, i)[k] = fifo[n]
  BY ChainWithout DEF CanInv, TypeInv, OnTheWay
<1>4. /\ fifo' \in Seq(Frames)
      /\ \A m, n \in DOMAIN fifo' : m < n => MayFollow(fifo'[m], fifo'[n])
      /\ \A k \in DOMAIN fifo' : \E n \in DOMAIN fifo : fifo'[k] = fifo[n]
  BY <1>2, <1>3 DEF Chain
<1>5. TypeInv' /\ Numbered' /\ Bounded'
  BY <1>1, <1>4 DEF CanInv, TypeInv, Numbered, Bounded
<1>6. OnTheWay'
  <2>1. \A m \in DOMAIN sent, n \in DOMAIN fifo' : MayFollow(sent[m], fifo'[n])
    BY <1>4 DEF CanInv, OnTheWay
  <2>2. \A n \in DOMAIN fifo', f \in queue : MayFollow(fifo'[n], f)
    BY <1>4 DEF CanInv, OnTheWay
  <2> QED
    BY <1>1, <1>4, <2>1, <2>2
    DEF CanInv, OnTheWay, Chain, MayFollow, NotWithdrawn
<1> QED
  BY <1>5, <1>6 DEF CanInv
-----------------------------------------------------------------------------
\* What leaves the frames where they are preserves the invariant.
LEMMA Elsewhere ==
  ASSUME CanInv, UNCHANGED <<withdraw, queue, fifo, next, sent>>
  PROVE  CanInv'
  BY DEF CanInv, TypeInv, Numbered, OnTheWay, Bounded, Chain, MayFollow,
         NotWithdrawn

\* Every step keeps the invariant.
LEMMA CanStep ==
  ASSUME CanInv, [Next]_vars, MaxFrames \in Nat, MaxFrames <= SeqModulus
  PROVE  CanInv'
<1>1. CASE SubmitEmergency
  BY <1>1, SubmitKeeps DEF SubmitEmergency, Hardware, Kinds
<1>2. CASE EndEmergency \/ EndCycle
  BY <1>2, Elsewhere DEF EndEmergency, EndCycle, Skip, Hardware
<1>3. CASE SubmitGroup
  BY <1>3, GroupKeeps, Elsewhere DEF SubmitGroup, Skip, Hardware
<1>4. CASE SubmitFrame
  <2>1. 1 \in Joints
    BY CanAssumption DEF Joints
  <2> QED
    BY <1>4, <2>1, SubmitKeeps, Elsewhere DEF SubmitFrame, Skip, Hardware, Kinds
<1>5. CASE Move
  BY <1>5, MoveKeeps
<1>6. CASE Send
  BY <1>6, SendKeeps
<1>7. CASE Abort
  BY <1>7, AbortKeeps
<1>8. CASE GoBusOff
  BY <1>8, Elsewhere DEF GoBusOff, Task
<1>9. CASE UNCHANGED vars
  BY <1>9, Elsewhere DEF vars
<1> QED
  BY <1>1, <1>2, <1>3, <1>4, <1>5, <1>6, <1>7, <1>8, <1>9 DEF Next, Cycle

\* Up to the 2^32 frames the sequence numbers tell apart, every state the control
\* task and the controller reach satisfies the inductive invariant.
THEOREM CanInvariance ==
  ASSUME MaxFrames \in Nat, MaxFrames <= SeqModulus
  PROVE  Spec => []CanInv
<1>1. Init => CanInv
  BY DEF Init, CanInv, TypeInv, Numbered, OnTheWay, Bounded, Chain
<1>2. CanInv /\ [Next]_vars => CanInv'
  BY CanStep
<1> QED
  BY <1>1, <1>2, PTL DEF Spec

\* Frames of one priority reach the bus in the order in which they were accepted,
\* whatever is evicted, overtaken, withdrawn and aborted.
THEOREM FramesInOrder ==
  ASSUME MaxFrames \in Nat, MaxFrames <= SeqModulus
  PROVE  Spec => []InOrder
<1>1. CanInv => InOrder
  BY DEF CanInv, OnTheWay, Chain, MayFollow, InOrder, OnBus
<1> QED
  BY <1>1, CanInvariance, PTL

\* In the builds that withdraw, no control is sent to a drive after a disable
\* that was accepted later.
THEOREM DisablesAreFinal ==
  ASSUME MaxFrames \in Nat, MaxFrames <= SeqModulus
  PROVE  Spec => []NoControlAfterDisable
<1>1. CanInv => NoControlAfterDisable
  BY DEF CanInv, OnTheWay, Chain, MayFollow, NotWithdrawn,
         NoControlAfterDisable, OnBus
<1> QED
  BY <1>1, CanInvariance, PTL
=============================================================================
