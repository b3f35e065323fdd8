------------------------------ MODULE UsbProofs ------------------------------
(***************************************************************************)
(* Proofs that the transmit buffer is left alone while the controller reads *)
(* it, and that the rings lose nothing they must not as long as nobody      *)
(* interrupts service_tx, for any capacities, any number of frames,         *)
(* interruptions and resets.                                                *)
(***************************************************************************)
EXTENDS UsbTransmit, UsbReceive, SequenceTheorems, TLAPS

\* A transfer runs only while the flag is set or about to be; and a frame is
\* copied only when the flag was clear, which nobody but service_tx sets.
FlagCovers ==
  /\ cdc = "busy" => inFlight \/ pc = "flag"
  /\ pc \in {"copy", "send"} => ~inFlight

\* No transfer and no copy is under way after usb_cdc_stream_init.
LEMMA FlagCoversInit == Init => FlagCovers
  BY DEF Init, FlagCovers

\* service_tx, the queueing task and the interrupts preserve it in any order.
LEMMA FlagCoversStep == FlagCovers /\ [Next]_vars => FlagCovers'
<1> SUFFICES ASSUME FlagCovers, [Next]_vars
             PROVE  FlagCovers'
  OBVIOUS
<1> USE DEF FlagCovers, Others, Preempts
<1>1. CASE \E q \in Rings : Pick(q)
  BY <1>1 DEF Pick, Select
<1>2. CASE Copy
  BY <1>2 DEF Copy
<1>3. CASE Transmit
  BY <1>3 DEF Transmit
<1>4. CASE Flag
  BY <1>4 DEF Flag
<1>5. CASE Pop
  BY <1>5 DEF Pop, Load, Stored
<1>6. CASE \E q \in Rings : Queue(q)
  BY <1>6 DEF Queue
<1>7. CASE Complete
  BY <1>7 DEF Complete
<1>8. CASE Detach
  BY <1>8 DEF Detach
<1>9. CASE Attach
  BY <1>9 DEF Attach
<1>10. CASE UNCHANGED vars
  BY <1>10 DEF vars
<1> QED
  BY <1>1, <1>2, <1>3, <1>4, <1>5, <1>6, <1>7, <1>8, <1>9, <1>10
     DEF Next, Service

\* While both hold the buffer cannot be written: copies start and go on only
\* when no transfer runs.
LEMMA BusyKeepsBuffer ==
  FlagCovers /\ [Next]_vars /\ cdc = "busy" /\ cdc' = "busy"
    => active' = active
<1> SUFFICES ASSUME FlagCovers, [Next]_vars, cdc = "busy"
             PROVE  active' = active
  OBVIOUS
<1> USE DEF FlagCovers
<1>1. ASSUME NEW q \in Rings, Pick(q) PROVE FALSE
  BY <1>1 DEF Pick, Select
<1>2. ASSUME Copy PROVE FALSE
  BY <1>2 DEF Copy
<1>3. CASE Transmit \/ Flag \/ Pop
  BY <1>3 DEF Transmit, Flag, Pop, Load, Stored
<1>4. CASE \E q \in Rings : Queue(q)
  BY <1>4 DEF Queue
<1>5. CASE Complete \/ Detach \/ Attach
  BY <1>5 DEF Complete, Detach, Attach
<1>6. CASE UNCHANGED vars
  BY <1>6 DEF vars
<1> QED
  BY <1>1, <1>2, <1>3, <1>4, <1>5, <1>6 DEF Next, Service

\* The frame the host is reading never changes under it (usb_cdc_stream.h calls
\* the in-flight buffer immutable).
THEOREM BufferIsHeld == Spec => BufferHeld
<1>1. Init => FlagCovers
  BY FlagCoversInit
<1>2. FlagCovers /\ [Next]_vars => FlagCovers'
  BY FlagCoversStep
<1>3. FlagCovers /\ [Next]_vars
        => [cdc = "busy" /\ cdc' = "busy" => active' = active]_vars
  BY BusyKeepsBuffer
<1> QED
  BY <1>1, <1>2, <1>3, PTL DEF Spec, BufferHeld
-----------------------------------------------------------------------------
(* What the rings hold, as long as nobody interrupted service_tx.          *)

Record(c) ==
  [slot : [0..c - 1 -> Nat], w : 0..c - 1, r : 0..c - 1, n : 0..c]

\* The place k behind i in a ring of c places.
Place(c, i, k) == IF i + k < c THEN i + k ELSE i + k - c

\* The h frames that pend in the ring x are the newest of those it took, t.
Content(c, x, h, t) ==
  /\ h \in 0..c /\ h <= Len(t)
  /\ x.w = Place(c, x.r, h)
  /\ \A k \in 1..h : x.slot[Place(c, x.r, k - 1)] = t[Len(t) - h + k]

\* What was sent, s, is what was taken without the last l frames.
Delivered(s, l, t) ==
  /\ Len(s) + l = Len(t)
  /\ \A k \in 1..Len(s) : s[k] = <<t[k], t[k]>>

\* The frames behind the read index, and those not sent; service_tx sends, then
\* moves the index, then the count.
Has(q) == IF q = pick /\ pc \in {"count", "counted"}
            THEN ring[q].n - 1 ELSE ring[q].n
Left(q) == IF q = pick /\ pc \notin {"idle", "copy", "send"}
             THEN ring[q].n - 1 ELSE ring[q].n
Oldest == ring[pick].slot[ring[pick].r]

\* What service_tx has in its hands.
InCall ==
  /\ pc \in {"idle", "copy", "send", "flag", "advance", "advanced", "count",
             "counted"}
  /\ active \in Nat \X Nat
  /\ pc # "idle" => ring[pick].n > 0
  /\ pc = "copy" => reg = ring[pick].r /\ active[1] = Oldest
  /\ pc = "send" => active = <<Oldest, Oldest>>
  /\ pc = "advanced" => reg = ring[pick].r
  /\ pc = "counted" => reg = ring[pick].n

HistoryType ==
  /\ pick \in Rings /\ queued \in Nat
  /\ taken \in [Rings -> Seq(Nat)] /\ sent \in [Rings -> Seq(Nat \X Nat)]

RingsHold ==
  /\ ring = [q \in Rings |-> ring[q]]
  /\ \A q \in Rings : /\ ring[q] \in Record(Capacity[q])
                      /\ Content(Capacity[q], ring[q], Has(q), taken[q])
  /\ \A q \in Lossless : Delivered(sent[q], Left(q), taken[q])

CalmInv ==
  /\ preemptions \in Nat
  /\ preemptions = 0 => HistoryType /\ InCall /\ RingsHold
-----------------------------------------------------------------------------
(* The arithmetic of a ring.                                               *)

\* Every ring has a slot.
LEMMA CapacityIs ==
  ASSUME NEW q \in Rings
  PROVE  Capacity[q] \in Nat /\ Capacity[q] > 0
  BY RingAssumption

\* The places of a ring, and what the remainder computes.
LEMMA PlaceIs ==
  ASSUME NEW c \in Nat, c > 0, NEW i \in 0..c - 1, NEW k \in 0..c
  PROVE  Place(c, i, k) \in 0..c - 1 /\ (i + k) % c = Place(c, i, k)
<1> DEFINE a == i + k
<1>1. a \in Nat /\ a < c + c
  OBVIOUS
<1>2. a < c => a % c = a
  BY <1>1
<1>3. c <= a => a % c = a - c
  BY <1>1
<1> QED
  BY <1>1, <1>2, <1>3 DEF Place

\* A step further is a step further.
LEMMA PlaceNext ==
  ASSUME NEW c \in Nat, c > 0, NEW i \in 0..c - 1, NEW k \in 0..c - 1
  PROVE  /\ Place(c, Place(c, i, 1), k) = Place(c, i, k + 1)
         /\ Place(c, Place(c, i, k), 1) = Place(c, i, k + 1)
  BY DEF Place

\* A round visits each place once.
LEMMA PlaceDiffers ==
  ASSUME NEW c \in Nat, c > 0, NEW i \in 0..c - 1,
         NEW j \in 0..c - 1, NEW k \in 0..c - 1, j # k
  PROVE  Place(c, i, j) # Place(c, i, k)
  BY DEF Place

\* The index the code advances to.
LEMMA AfterIs ==
  ASSUME NEW q \in Rings, NEW n \in 0..Capacity[q] - 1
  PROVE  /\ After(q, n) = Place(Capacity[q], n, 1)
         /\ After(q, n) \in 0..Capacity[q] - 1
<1> DEFINE c == Capacity[q]
<1>1. c \in Nat /\ c > 0
  BY CapacityIs
<1>2. After(q, n) = (n + 1) % c
  BY DEF After
<1> HIDE DEF c
<1>3. 1 \in 0..c /\ n \in 0..c - 1
  BY <1>1 DEF c
<1>4. Place(c, n, 1) \in 0..c - 1 /\ (n + 1) % c = Place(c, n, 1)
  BY <1>1, <1>3, PlaceIs
<1> QED
  BY <1>2, <1>4 DEF c

\* Without its oldest frame the ring still holds the newest.
LEMMA Advance ==
  ASSUME NEW c \in Nat, c > 0, NEW x \in Record(c), NEW t \in Seq(Nat),
         NEW h, Content(c, x, h, t), h # 0,
         NEW y, y.slot = x.slot, y.w = x.w, y.r = Place(c, x.r, 1)
  PROVE  Content(c, y, h - 1, t)
<1>1. x.r \in 0..c - 1 /\ h \in 1..c /\ Len(t) \in Nat /\ h <= Len(t)
  BY DEF Record, Content
<1>2. h - 1 \in 0..c - 1 /\ h - 1 <= Len(t)
  BY <1>1
<1>3. y.w = Place(c, y.r, h - 1)
  <2>1. Place(c, Place(c, x.r, 1), h - 1) = Place(c, x.r, (h - 1) + 1)
    BY <1>1, <1>2, PlaceNext
  <2>2. (h - 1) + 1 = h
    BY <1>1
  <2> QED
    BY <2>1, <2>2 DEF Content
<1>4. ASSUME NEW k \in 1..h - 1
      PROVE  y.slot[Place(c, y.r, k - 1)] = t[Len(t) - (h - 1) + k]
  <2>1. k - 1 \in 0..c - 1 /\ k + 1 \in 1..h /\ (k - 1) + 1 = (k + 1) - 1
    BY <1>1
  <2>2. Place(c, y.r, k - 1) = Place(c, x.r, (k + 1) - 1)
    BY <1>1, <2>1, PlaceNext
  <2>3. x.slot[Place(c, x.r, (k + 1) - 1)] = t[Len(t) - h + (k + 1)]
    BY <2>1 DEF Content
  <2>4. Len(t) - h + (k + 1) = Len(t) - (h - 1) + k
    BY <1>1
  <2> QED
    BY <2>2, <2>3, <2>4
<1> QED
  BY <1>2, <1>3, <1>4 DEF Content

\* With one more frame it holds this one, too.
LEMMA Enter ==
  ASSUME NEW c \in Nat, c > 0, NEW x \in Record(c), NEW t \in Seq(Nat),
         NEW f \in Nat, x.n < c, Content(c, x, x.n, t),
         NEW y, y.slot = [x.slot EXCEPT ![x.w] = f], y.r = x.r,
         y.w = Place(c, x.w, 1)
  PROVE  Content(c, y, x.n + 1, Append(t, f))
<1> DEFINE h == x.n
           u == Append(t, f)
           old == x.slot
           new == [old EXCEPT ![x.w] = f]
<1>1. /\ x.r \in 0..c - 1 /\ x.w \in 0..c - 1 /\ h \in 0..c - 1
      /\ Len(t) \in Nat /\ h <= Len(t)
  BY DEF Record, Content
<1>2. /\ Len(u) = Len(t) + 1 /\ u[Len(t) + 1] = f
      /\ \A k \in 1..Len(t) : u[k] = t[k]
  OBVIOUS
<1>3. /\ x.w = Place(c, x.r, h)
      /\ \A k \in 1..h : old[Place(c, x.r, k - 1)] = t[Len(t) - h + k]
  BY DEF Content
<1>4. old \in [0..c - 1 -> Nat]
  BY DEF Record
<1> HIDE DEF h, u, old
<1>5. new[x.w] = f /\ \A i \in 0..c - 1 : i # x.w => new[i] = old[i]
  BY <1>1, <1>4
<1>6. y.slot = new
  BY DEF old
<1> HIDE DEF new
<1>7. y.w = Place(c, y.r, h + 1)
  BY <1>1, <1>3, PlaceNext
<1>8. ASSUME NEW k \in 1..h + 1
      PROVE  new[Place(c, x.r, k - 1)] = u[Len(u) - (h + 1) + k]
  <2>1. k - 1 \in 0..c - 1
    BY <1>1
  <2>2. Place(c, x.r, k - 1) \in 0..c - 1
    <3>1. k - 1 \in 0..c
      BY <2>1
    <3> QED
      BY <1>1, <3>1, PlaceIs
  <2>3. CASE k = h + 1
    <3>1. k - 1 = h /\ Len(u) - (h + 1) + k = Len(t) + 1
      BY <1>1, <1>2, <2>3
    <3> QED
      BY <1>2, <1>3, <1>5, <3>1
  <2>4. CASE k # h + 1
    <3>1. /\ k \in 1..h /\ k - 1 # h
          /\ Len(u) - (h + 1) + k = Len(t) - h + k
          /\ Len(t) - h + k \in 1..Len(t)
      BY <1>1, <1>2, <2>4
    <3>2. Place(c, x.r, k - 1) # x.w
      BY <1>1, <1>3, <2>1, <3>1, PlaceDiffers
    <3>3. new[Place(c, x.r, k - 1)] = old[Place(c, x.r, k - 1)]
      BY <1>5, <2>2, <3>2
    <3> QED
      BY <1>2, <1>3, <3>1, <3>3
  <2> QED
    BY <2>3, <2>4
<1>9. h + 1 \in 0..c /\ h + 1 <= Len(u)
  BY <1>1, <1>2
<1>10. \A k \in 1..h + 1 :
         y.slot[Place(c, y.r, k - 1)] = u[Len(u) - (h + 1) + k]
  BY <1>6, <1>8
<1>11. Content(c, y, h + 1, u)
  BY <1>7, <1>9, <1>10 DEF Content
<1> QED
  BY <1>11 DEF h, u
-----------------------------------------------------------------------------
(* The steps.                                                              *)

\* When at most the ring p changes, only p has to be looked at.
LEMMA OneRingChanges ==
  ASSUME RingsHold, HistoryType, NEW p \in Rings, NEW y \in Record(Capacity[p]),
         ring' = [ring EXCEPT ![p] = y],
         \A q \in Rings \ {p} : /\ Has(q)' = Has(q) /\ Left(q)' = Left(q)
                                /\ taken'[q] = taken[q] /\ sent'[q] = sent[q],
         Content(Capacity[p], y, Has(p)', taken'[p]),
         p \in Lossless => Delivered(sent'[p], Left(p)', taken'[p])
  PROVE  RingsHold'
<1>1. /\ ring' = [q \in Rings |-> IF q = p THEN y ELSE ring[q]]
      /\ ring'[p] = y
      /\ \A q \in Rings \ {p} : ring'[q] = ring[q]
  BY DEF RingsHold
<1>2. ring' = [q \in Rings |-> ring'[q]]
  BY <1>1
<1>3. ASSUME NEW q \in Rings
      PROVE  /\ ring'[q] \in Record(Capacity[q])
             /\ Content(Capacity[q], ring'[q], Has(q)', taken'[q])
  <2>1. CASE q = p
    BY <1>1, <2>1
  <2>2. CASE q # p
    BY <1>1, <2>2 DEF RingsHold
  <2> QED
    BY <2>1, <2>2
<1>4. ASSUME NEW q \in Lossless
      PROVE  Delivered(sent'[q], Left(q)', taken'[q])
  <2>1. q \in Rings
    BY DEF Lossless, Rings
  <2>2. CASE q = p
    BY <1>1, <2>2
  <2>3. CASE q # p
    BY <1>1, <2>1, <2>3 DEF RingsHold
  <2> QED
    BY <2>2, <2>3
<1> QED
  BY <1>2, <1>3, <1>4 DEF RingsHold

\* A step that leaves the rings and what was sent alone.
LEMMA NoRingChanges ==
  ASSUME RingsHold, HistoryType, UNCHANGED <<ring, taken, sent>>,
         \A q \in Rings : Has(q)' = Has(q) /\ Left(q)' = Left(q)
  PROVE  RingsHold'
<1>1. Lossless \subseteq Rings
  BY DEF Lossless, Rings
<1> QED
  BY <1>1 DEF RingsHold

\* The ring service_tx works on, field by field.
LEMMA PickedRing ==
  ASSUME HistoryType, RingsHold, InCall, pc # "idle"
  PROVE  /\ Capacity[pick] \in Nat /\ Capacity[pick] > 0
         /\ ring[pick] \in Record(Capacity[pick])
         /\ ring[pick].r \in 0..Capacity[pick] - 1
         /\ ring[pick].n \in 1..Capacity[pick]
         /\ Oldest \in Nat
         /\ pc \notin {"count", "counted"} =>
              /\ ring[pick].n <= Len(taken[pick])
              /\ Oldest = taken[pick][Len(taken[pick]) - ring[pick].n + 1]
<1> DEFINE c == Capacity[pick]
           x == ring[pick]
           t == taken[pick]
<1>1. pick \in Rings /\ c \in Nat /\ c > 0
  BY CapacityIs DEF HistoryType
<1>2. x \in Record(c) /\ Content(c, x, Has(pick), t)
  BY <1>1 DEF RingsHold
<1>3. x.n > 0
  BY DEF InCall
<1>4. Oldest = x.slot[x.r]
  BY DEF Oldest
<1>5. pc \notin {"count", "counted"} => Has(pick) = x.n
  BY DEF Has
<1> HIDE DEF c, x, t
<1>6. /\ x.r \in 0..c - 1 /\ x.n \in 1..c
      /\ x.slot \in [0..c - 1 -> Nat]
  BY <1>1, <1>2, <1>3 DEF Record
<1>7. Oldest \in Nat
  BY <1>4, <1>6
<1>8. Place(c, x.r, 1 - 1) = x.r
  BY <1>1, <1>6 DEF Place
<1>9. ASSUME Content(c, x, x.n, t)
      PROVE  x.n <= Len(t) /\ Oldest = t[Len(t) - x.n + 1]
  <2>1. 1 \in 1..x.n
    BY <1>6
  <2> QED
    BY <1>4, <1>8, <1>9, <2>1 DEF Content
<1> QED
  BY <1>1, <1>2, <1>5, <1>6, <1>7, <1>9 DEF c, x, t

\* Selecting, copying, raising the flag and loading leave the rings alone.
LEMMA CalmReads ==
  ASSUME HistoryType, RingsHold, InCall,
         \/ \E q \in Rings : Pick(q)
         \/ Copy \/ Flag
         \/ Load("advance", "advanced", ring[pick].r)
         \/ Load("count", "counted", ring[pick].n)
  PROVE  HistoryType' /\ InCall' /\ RingsHold'
<1> USE DEF Others, History
<1>1. ASSUME NEW q \in Rings, Pick(q)
      PROVE  HistoryType' /\ InCall' /\ RingsHold'
  <2>1. /\ pc = "idle" /\ pc' = "copy" /\ pick' = q /\ ring[q].n > 0
        /\ reg' = ring[q].r
        /\ active' = [active EXCEPT ![1] = ring[q].slot[ring[q].r]]
        /\ UNCHANGED <<ring, taken, sent, queued>>
    BY <1>1 DEF Pick, Select
  <2>2. ring[q].slot[ring[q].r] \in Nat
    <3> DEFINE c == Capacity[q]
               x == ring[q]
    <3>1. x \in Record(c)
      BY DEF RingsHold
    <3> HIDE DEF c, x
    <3>2. x.slot \in [0..c - 1 -> Nat] /\ x.r \in 0..c - 1
      BY <3>1 DEF Record
    <3>3. x.slot[x.r] \in Nat
      BY <3>2
    <3> QED
      BY <3>3 DEF x
  <2>3. active' \in Nat \X Nat /\ active'[1] = ring[q].slot[ring[q].r]
    BY <2>1, <2>2 DEF InCall
  <2>4. HistoryType'
    BY <2>1 DEF HistoryType
  <2>5. InCall'
    BY <2>1, <2>3 DEF InCall, Oldest
  <2>6. \A z \in Rings : Has(z)' = Has(z) /\ Left(z)' = Left(z)
    BY <2>1 DEF Has, Left
  <2> QED
    BY <2>1, <2>4, <2>5, <2>6, NoRingChanges
<1>2. CASE Copy
  <2>1. /\ pc = "copy" /\ pc' = "send"
        /\ active' = [active EXCEPT ![2] = ring[pick].slot[reg]]
        /\ UNCHANGED <<ring, taken, sent, queued, pick, reg>>
    BY <1>2 DEF Copy
  <2>2. active \in Nat \X Nat /\ active[1] = Oldest /\ reg = ring[pick].r
    BY <2>1 DEF InCall
  <2>3. active' = <<Oldest, Oldest>> /\ Oldest' = Oldest
    BY <2>1, <2>2 DEF Oldest
  <2>4. Oldest \in Nat /\ ring[pick].n > 0
    BY <2>1, PickedRing DEF InCall
  <2>5. HistoryType'
    BY <2>1 DEF HistoryType
  <2>6. InCall'
    BY <2>1, <2>3, <2>4 DEF InCall
  <2>7. \A z \in Rings : Has(z)' = Has(z) /\ Left(z)' = Left(z)
    BY <2>1 DEF Has, Left
  <2> QED
    BY <2>1, <2>5, <2>6, <2>7, NoRingChanges
<1>3. CASE Flag
  <2>1. \A z \in Rings : Has(z)' = Has(z) /\ Left(z)' = Left(z)
    BY <1>3 DEF Flag, Has, Left
  <2>2. HistoryType' /\ InCall'
    BY <1>3 DEF Flag, HistoryType, InCall
  <2> QED
    BY <1>3, <2>1, <2>2, NoRingChanges DEF Flag
<1>4. CASE Load("advance", "advanced", ring[pick].r)
  <2>1. \A z \in Rings : Has(z)' = Has(z) /\ Left(z)' = Left(z)
    BY <1>4 DEF Load, Has, Left
  <2>2. HistoryType' /\ InCall'
    BY <1>4 DEF Load, HistoryType, InCall
  <2> QED
    BY <1>4, <2>1, <2>2, NoRingChanges DEF Load
<1>5. CASE Load("count", "counted", ring[pick].n)
  <2>1. \A z \in Rings : Has(z)' = Has(z) /\ Left(z)' = Left(z)
    BY <1>5 DEF Load, Has, Left
  <2>2. HistoryType' /\ InCall'
    BY <1>5 DEF Load, HistoryType, InCall
  <2> QED
    BY <1>5, <2>1, <2>2, NoRingChanges DEF Load
<1> QED
  BY <1>1, <1>2, <1>3, <1>4, <1>5

\* A frame the controller takes is the next one that was to be sent.
LEMMA CalmTransmits ==
  ASSUME HistoryType, RingsHold, InCall, Transmit
  PROVE  HistoryType' /\ InCall' /\ RingsHold'
<1>0. PICK p \in Rings : p = pick
  BY DEF HistoryType
<1> DEFINE t == taken[p]
           s == sent[p]
           c == Capacity[p]
           x == ring[p]
<1>1. /\ pc = "send" /\ active = <<Oldest, Oldest>>
      /\ UNCHANGED <<ring, active, inFlight, pick, reg, queued, taken>>
  BY DEF Transmit, InCall, History
<1>2. /\ x \in Record(c) /\ x.n \in 1..c /\ c \in Nat /\ Oldest \in Nat
      /\ x.n <= Len(t) /\ Oldest = t[Len(t) - x.n + 1]
      /\ p \in Rings /\ t \in Seq(Nat) /\ s \in Seq(Nat \X Nat)
  BY <1>0, <1>1, PickedRing DEF HistoryType
<1>3. InCall'
  <2>1. active' \in Nat \X Nat /\ ring'[pick'].n > 0
    BY <1>0, <1>1, <1>2
  <2>2. pc' \in {"idle", "flag"}
    BY DEF Transmit
  <2> QED
    BY <2>1, <2>2 DEF InCall
<1>4. CASE cdc # "idle"
  <2>1. pc' = "idle" /\ sent' = sent
    BY <1>4 DEF Transmit
  <2>2. \A z \in Rings : Has(z)' = Has(z) /\ Left(z)' = Left(z)
    BY <1>0, <1>1, <2>1 DEF Has, Left
  <2>3. HistoryType'
    BY <1>0, <1>1, <2>1 DEF HistoryType
  <2> QED
    BY <1>0, <1>1, <1>3, <2>1, <2>2, <2>3, NoRingChanges
<1>5. CASE cdc = "idle"
  <2>1. pc' = "flag" /\ sent' = [sent EXCEPT ![p] = Append(s, active)]
    BY <1>0, <1>5 DEF Transmit, Take
  <2>2. sent'[p] = Append(s, active) /\ active \in Nat \X Nat
    BY <1>0, <1>1, <1>2, <2>1 DEF HistoryType
  <2>3. Append(s, active) \in Seq(Nat \X Nat)
    BY <1>2, <2>2
  <2>4. HistoryType'
    <3>1. sent' \in [Rings -> Seq(Nat \X Nat)]
      BY <2>1, <2>3 DEF HistoryType
    <3> QED
      BY <1>0, <1>1, <3>1 DEF HistoryType
  <2>5. \A z \in Rings \ {p} :
          /\ Has(z)' = Has(z) /\ Left(z)' = Left(z)
          /\ taken'[z] = taken[z] /\ sent'[z] = sent[z]
    BY <1>0, <1>1, <2>1 DEF Has, Left, HistoryType
  <2>6. Content(c, x, Has(p)', taken'[p])
    <3>1. Has(p)' = Has(p)
      BY <1>0, <1>1, <2>1 DEF Has
    <3> QED
      BY <1>0, <1>1, <1>2, <3>1 DEF RingsHold
  <2>7. ASSUME p \in Lossless
        PROVE  Delivered(sent'[p], Left(p)', taken'[p])
    <3>1. Left(p)' = x.n - 1 /\ Left(p) = x.n
      BY <1>0, <1>1, <2>1 DEF Left
    <3>2. Delivered(s, x.n, t)
      BY <2>7, <3>1 DEF RingsHold
    <3> HIDE DEF s, t, x, c
    <3>3. x.n \in Nat /\ Len(t) \in Nat /\ Len(s) \in Nat
      BY <1>2
    <3>4. Len(s) + x.n = Len(t) /\ \A k \in 1..Len(s) : s[k] = <<t[k], t[k]>>
      BY <3>2 DEF Delivered
    <3>5. Len(t) - x.n + 1 = Len(s) + 1
      BY <3>3, <3>4
    <3>6. active = <<t[Len(s) + 1], t[Len(s) + 1]>>
      BY <1>0, <1>1, <1>2, <3>5
    <3>7. /\ Len(Append(s, active)) = Len(s) + 1
          /\ \A k \in 1..Len(s) : Append(s, active)[k] = s[k]
          /\ Append(s, active)[Len(s) + 1] = active
      BY <1>2, <2>2
    <3>8. Len(Append(s, active)) + (x.n - 1) = Len(t)
      BY <3>3, <3>4, <3>7
    <3>9. \A k \in 1..Len(s) + 1 : k \in 1..Len(s) \/ k = Len(s) + 1
      BY <3>3
    <3>10. Delivered(Append(s, active), x.n - 1, t)
      BY <3>4, <3>6, <3>7, <3>8, <3>9 DEF Delivered
    <3>11. taken'[p] = t
      BY <1>0, <1>1 DEF t
    <3> QED
      BY <2>2, <3>1, <3>10, <3>11
  <2>8. ring' = [ring EXCEPT ![p] = x]
    BY <1>0, <1>1, <1>2 DEF RingsHold
  <2> QED
    BY <1>2, <1>3, <2>4, <2>5, <2>6, <2>7, <2>8, OneRingChanges
<1> QED
  BY <1>4, <1>5

\* The index moves past the frame that was sent, then the count.
LEMMA CalmStores ==
  ASSUME HistoryType, RingsHold, InCall,
         \/ Stored("advanced", "count",
                   [ring EXCEPT ![pick].r = After(pick, reg)])
         \/ Stored("counted", "idle", [ring EXCEPT ![pick].n = reg - 1])
  PROVE  HistoryType' /\ InCall' /\ RingsHold'
<1>0. PICK p \in Rings : p = pick
  BY DEF HistoryType
<1> DEFINE c == Capacity[p]
           x == ring[p]
<1>1. /\ UNCHANGED <<active, pick, queued, taken, sent>>
      /\ pc \in {"advanced", "counted"} /\ pc' \in {"count", "idle"}
  BY DEF Stored, Others, History
<1>2. /\ x \in Record(c) /\ x.n \in 1..c /\ c \in Nat /\ c > 0
      /\ x.r \in 0..c - 1 /\ p \in Rings
  BY <1>0, <1>1, PickedRing DEF HistoryType
<1>3. HistoryType'
  BY <1>0, <1>1 DEF HistoryType
<1>4. \A z \in Rings \ {p} :
        /\ taken'[z] = taken[z] /\ sent'[z] = sent[z]
  BY <1>1
<1>5. CASE Stored("advanced", "count",
                  [ring EXCEPT ![pick].r = After(pick, reg)])
  <2> DEFINE y == [x EXCEPT !.r = After(pick, reg)]
  <2>1. /\ pc = "advanced" /\ pc' = "count" /\ reg = x.r
        /\ ring' = [ring EXCEPT ![p] = y]
    BY <1>0, <1>5 DEF Stored, InCall
  <2>2. After(pick, reg) = Place(c, x.r, 1) /\ After(pick, reg) \in 0..c - 1
    BY <1>0, <1>2, <2>1, AfterIs
  <2>3. /\ y \in Record(c) /\ y.slot = x.slot /\ y.w = x.w /\ y.n = x.n
        /\ y.r = Place(c, x.r, 1)
    BY <1>2, <2>2 DEF Record
  <2> HIDE DEF y
  <2>4. ring'[p] = y
    BY <1>2, <2>1 DEF RingsHold
  <2>5. /\ Has(p) = x.n /\ Has(p)' = x.n - 1
        /\ Left(p) = x.n - 1 /\ Left(p)' = x.n - 1
    BY <1>0, <1>1, <2>1, <2>3, <2>4 DEF Has, Left
  <2>6. \A z \in Rings \ {p} : Has(z)' = Has(z) /\ Left(z)' = Left(z)
    BY <1>0, <1>1, <2>1 DEF Has, Left, RingsHold
  <2>7. Content(c, y, Has(p)', taken'[p])
    <3> DEFINE t == taken[p]
               h == x.n
    <3>1. t \in Seq(Nat) /\ Content(c, x, h, t) /\ h # 0
      BY <1>2, <2>5 DEF HistoryType, RingsHold
    <3> HIDE DEF t, h, c, x
    <3>2. Content(c, y, h - 1, t)
      BY <1>2, <2>3, <3>1, Advance
    <3> QED
      BY <1>0, <1>1, <2>5, <3>2 DEF t, h
  <2>8. p \in Lossless => Delivered(sent'[p], Left(p)', taken'[p])
    BY <1>0, <1>1, <2>5 DEF RingsHold
  <2>9. InCall'
    BY <1>0, <1>1, <1>2, <2>1, <2>3, <2>4 DEF InCall
  <2>10. \A z \in Rings \ {p} :
           /\ Has(z)' = Has(z) /\ Left(z)' = Left(z)
           /\ taken'[z] = taken[z] /\ sent'[z] = sent[z]
    BY <1>4, <2>6
  <2>11. RingsHold'
    BY <1>2, <2>1, <2>3, <2>7, <2>8, <2>10, OneRingChanges
  <2> QED
    BY <1>3, <2>9, <2>11
<1>6. CASE Stored("counted", "idle", [ring EXCEPT ![pick].n = reg - 1])
  <2> DEFINE y == [x EXCEPT !.n = reg - 1]
  <2>1. /\ pc = "counted" /\ pc' = "idle" /\ reg = x.n
        /\ ring' = [ring EXCEPT ![p] = y]
    BY <1>0, <1>6 DEF Stored, InCall
  <2>2. x.n - 1 \in 0..c
    BY <1>2
  <2>3. /\ y \in Record(c) /\ y.slot = x.slot /\ y.w = x.w /\ y.n = x.n - 1
        /\ y.r = x.r
    BY <1>2, <2>1, <2>2 DEF Record
  <2> HIDE DEF y
  <2>4. ring'[p] = y
    BY <1>2, <2>1 DEF RingsHold
  <2>5. /\ Has(p) = x.n - 1 /\ Has(p)' = x.n - 1
        /\ Left(p) = x.n - 1 /\ Left(p)' = x.n - 1
    BY <1>0, <1>1, <2>1, <2>3, <2>4 DEF Has, Left
  <2>6. \A z \in Rings \ {p} : Has(z)' = Has(z) /\ Left(z)' = Left(z)
    BY <1>0, <1>1, <2>1 DEF Has, Left, RingsHold
  <2>7. Content(c, y, Has(p)', taken'[p])
    <3>1. Content(c, x, Has(p), taken[p])
      BY <1>2 DEF RingsHold
    <3> QED
      BY <1>0, <1>1, <2>3, <2>5, <3>1 DEF Content
  <2>8. p \in Lossless => Delivered(sent'[p], Left(p)', taken'[p])
    BY <1>0, <1>1, <2>5 DEF RingsHold
  <2>9. InCall'
    BY <1>0, <1>1, <2>1 DEF InCall
  <2>10. \A z \in Rings \ {p} :
           /\ Has(z)' = Has(z) /\ Left(z)' = Left(z)
           /\ taken'[z] = taken[z] /\ sent'[z] = sent[z]
    BY <1>4, <2>6
  <2>11. RingsHold'
    BY <1>2, <2>1, <2>3, <2>7, <2>8, <2>10, OneRingChanges
  <2> QED
    BY <1>3, <2>9, <2>11
<1> QED
  BY <1>5, <1>6

\* Queueing between two calls.
LEMMA CalmQueues ==
  ASSUME HistoryType, RingsHold, InCall, pc = "idle", NEW p \in Rings, Queue(p)
  PROVE  HistoryType' /\ InCall' /\ RingsHold'
<1> DEFINE t == taken[p]
           c == Capacity[p]
           x == ring[p]
           f == queued + 1
<1>1. UNCHANGED <<active, pick, pc, reg, sent>>
  BY DEF Queue, Preempts
<1>2. /\ p \in Rings /\ c \in Nat /\ c > 0 /\ x \in Record(c) /\ t \in Seq(Nat)
      /\ Content(c, x, x.n, t) /\ f \in Nat /\ queued' = f
      /\ p \in Lossless => Delivered(sent[p], x.n, t)
  <2>1. Has(p) = x.n /\ Left(p) = x.n
    BY DEF Has, Left
  <2>2. /\ x \in Record(c) /\ Content(c, x, x.n, t)
        /\ p \in Lossless => Delivered(sent[p], x.n, t)
    BY <2>1 DEF RingsHold
  <2>3. f \in Nat /\ queued' = f /\ t \in Seq(Nat)
    BY DEF HistoryType, Queue
  <2> QED
    BY <2>2, <2>3, CapacityIs
<1>3. InCall'
  BY <1>1 DEF InCall
<1>4. CASE Full(p) /\ p \in Lossless
  <2>1. UNCHANGED <<ring, taken>>
    BY <1>4 DEF Queue
  <2>2. \A z \in Rings : Has(z)' = Has(z) /\ Left(z)' = Left(z)
    BY <1>1, <2>1 DEF Has, Left
  <2>3. HistoryType'
    BY <1>1, <1>2, <2>1 DEF HistoryType
  <2> QED
    BY <1>1, <1>3, <2>1, <2>2, <2>3, NoRingChanges
<1>5. CASE ~(Full(p) /\ p \in Lossless)
  <2> DEFINE v == IF Full(p) THEN Evict(p, x) ELSE x
             y == Put(p, v, f)
  <2>1. taken' = [taken EXCEPT ![p] = Append(t, f)]
        /\ ring' = [ring EXCEPT ![p] = y]
    BY <1>5 DEF Queue
  <2>2. /\ v \in Record(c) /\ v.n < c /\ Content(c, v, v.n, t)
        /\ p \in Lossless => v = x
    <3>1. CASE ~Full(p)
      <4>1. v = x /\ x.n < c
        BY <1>2, <3>1 DEF Full, Record
      <4> QED
        BY <1>2, <4>1
    <3>2. CASE Full(p)
      <4>1. v = [x EXCEPT !.r = After(p, x.r), !.n = x.n - 1]
        BY <3>2 DEF Evict
      <4>2. x.n = c /\ x.r \in 0..c - 1 /\ x.n \in 0..c
        BY <1>2, <3>2 DEF Full, Record
      <4>3. /\ After(p, x.r) = Place(c, x.r, 1) /\ After(p, x.r) \in 0..c - 1
        BY <4>2, AfterIs
      <4>4. x.n - 1 \in 0..c /\ x.n - 1 < c /\ x.n # 0
        BY <1>2, <4>2
      <4>5. /\ v \in Record(c) /\ v.slot = x.slot /\ v.w = x.w
            /\ v.n = x.n - 1 /\ v.r = Place(c, x.r, 1)
        BY <1>2, <4>1, <4>3, <4>4 DEF Record
      <4> HIDE DEF v, c, x, t
      <4> DEFINE h == x.n
      <4>6. Content(c, x, h, t) /\ h # 0
        BY <1>2, <4>4
      <4> HIDE DEF h
      <4>7. Content(c, v, h - 1, t)
        BY <1>2, <4>5, <4>6, Advance
      <4> QED
        BY <1>5, <3>2, <4>4, <4>5, <4>7 DEF h
    <3> QED
      BY <3>1, <3>2
  <2> HIDE DEF v
  <2>3. v.w \in 0..c - 1 /\ v.n \in 0..c - 1 /\ v.slot \in [0..c - 1 -> Nat]
        /\ v.r \in 0..c - 1
    <3>1. c \in Nat /\ v \in Record(c) /\ v.n < c
      BY <1>2, <2>2
    <3> HIDE DEF c, f, t, x, y
    <3>2. /\ v.w \in 0..c - 1 /\ v.n \in 0..c /\ v.slot \in [0..c - 1 -> Nat]
          /\ v.r \in 0..c - 1
      BY <3>1 DEF Record
    <3> QED
      BY <3>1, <3>2
  <2>4. After(p, v.w) = Place(c, v.w, 1) /\ After(p, v.w) \in 0..c - 1
    <3> DEFINE n == v.w
    <3>1. n \in 0..Capacity[p] - 1
      BY <2>3
    <3> HIDE DEF n, f, t, x
    <3>2. /\ After(p, n) = Place(Capacity[p], n, 1)
          /\ After(p, n) \in 0..Capacity[p] - 1
      BY <3>1, AfterIs
    <3> QED
      BY <3>2 DEF n
  <2>5. v.n + 1 \in 0..c /\ [v.slot EXCEPT ![v.w] = f] \in [0..c - 1 -> Nat]
    <3>1. v.n + 1 \in 0..c /\ f \in Nat
      BY <1>2, <2>3
    <3> HIDE DEF c, f
    <3>2. [v.slot EXCEPT ![v.w] = f] \in [0..c - 1 -> Nat]
      BY <2>3, <3>1
    <3> QED
      BY <3>1, <3>2
  <2>6. /\ y \in Record(c) /\ y.slot = [v.slot EXCEPT ![v.w] = f]
        /\ y.w = Place(c, v.w, 1) /\ y.r = v.r /\ y.n = v.n + 1
    BY <2>2, <2>3, <2>4, <2>5 DEF Put, Record
  <2> HIDE DEF y, f
  <2>7. Content(c, y, v.n + 1, Append(t, f))
    <3> HIDE DEF c, x, t
    <3> QED
      BY <1>2, <2>2, <2>6, Enter
  <2>8. taken'[p] = Append(t, f) /\ ring'[p] = y
    BY <1>2, <2>1 DEF HistoryType, RingsHold
  <2>9. Has(p)' = v.n + 1 /\ Left(p)' = v.n + 1
    BY <1>1, <2>6, <2>8 DEF Has, Left
  <2>10. \A z \in Rings \ {p} :
           /\ Has(z)' = Has(z) /\ Left(z)' = Left(z)
           /\ taken'[z] = taken[z] /\ sent'[z] = sent[z]
    BY <1>1, <2>1 DEF Has, Left, HistoryType, RingsHold
  <2>11. HistoryType'
    <3>1. Append(t, f) \in Seq(Nat)
      BY <1>2
    <3>2. taken' \in [Rings -> Seq(Nat)]
      BY <2>1, <3>1 DEF HistoryType
    <3> QED
      BY <1>1, <1>2, <3>2 DEF HistoryType
  <2>12. ASSUME p \in Lossless
         PROVE  Delivered(sent'[p], Left(p)', taken'[p])
    <3> DEFINE s == sent[p]
    <3>1. Delivered(s, v.n, t) /\ s \in Seq(Nat \X Nat)
      BY <1>2, <2>2, <2>12 DEF HistoryType
    <3> HIDE DEF s, t, c, x
    <3>2. Len(s) \in Nat /\ Len(t) \in Nat /\ v.n \in Nat
      BY <1>2, <2>3, <3>1
    <3>3. Len(Append(t, f)) = Len(t) + 1
          /\ \A k \in 1..Len(t) : Append(t, f)[k] = t[k]
      BY <1>2
    <3>4. Len(s) + (v.n + 1) = Len(t) + 1 /\ 1..Len(s) \subseteq 1..Len(t)
      <4>1. Len(s) + v.n = Len(t)
        BY <3>1 DEF Delivered
      <4> QED
        BY <3>2, <4>1
    <3>5. Delivered(s, v.n + 1, Append(t, f))
      BY <3>1, <3>3, <3>4 DEF Delivered
    <3> QED
      BY <1>1, <2>8, <2>9, <3>5 DEF s
  <2>13. RingsHold'
    BY <2>1, <2>6, <2>7, <2>8, <2>9, <2>10, <2>12, OneRingChanges
  <2> QED
    BY <1>3, <2>11, <2>13
<1> QED
  BY <1>4, <1>5

\* An interruption gives up the claim; otherwise others come between two calls.
LEMMA CalmStep == CalmInv /\ [Next]_vars => CalmInv'
<1> SUFFICES ASSUME CalmInv, [Next]_vars
             PROVE  CalmInv'
  OBVIOUS
<1> DEFINE Keeps == HistoryType' /\ InCall' /\ RingsHold'
<1>1. preemptions \in Nat
  BY DEF CalmInv
<1>2. CASE Service
  <2>1. preemptions' = preemptions
    BY <1>2 DEF Service, Pick, Select, Copy, Transmit, Flag, Pop, Load, Stored,
                Others, History
  <2>2. HistoryType /\ InCall /\ RingsHold => Keeps
    BY <1>2, CalmReads, CalmTransmits, CalmStores DEF Service, Pop
  <2> QED
    BY <1>1, <2>1, <2>2 DEF CalmInv
<1>3. CASE (\E q \in Rings : Queue(q)) \/ Complete \/ Detach \/ Attach
  <2>1. preemptions' = preemptions + (IF pc = "idle" THEN 0 ELSE 1)
    BY <1>3 DEF Queue, Complete, Detach, Attach, Preempts
  <2>2. preemptions' \in Nat
    BY <1>1, <2>1
  <2>3. preemptions' = 0 => preemptions = 0 /\ pc = "idle"
    BY <1>1, <2>1
  <2>4. ASSUME HistoryType, InCall, RingsHold, pc = "idle"
        PROVE  Keeps
    <3>1. CASE \E q \in Rings : Queue(q)
      BY <2>4, <3>1, CalmQueues
    <3>2. CASE Complete \/ Detach \/ Attach
      <4>1. UNCHANGED <<ring, active, pc, pick, reg, queued, taken, sent>>
        BY <3>2 DEF Complete, Detach, Attach, Preempts
      <4>2. \A z \in Rings : Has(z)' = Has(z) /\ Left(z)' = Left(z)
        BY <4>1 DEF Has, Left
      <4>3. HistoryType' /\ InCall'
        BY <2>4, <4>1 DEF HistoryType, InCall
      <4> QED
        BY <2>4, <4>1, <4>2, <4>3, NoRingChanges
    <3> QED
      BY <1>3, <3>1, <3>2
  <2> QED
    BY <2>2, <2>3, <2>4 DEF CalmInv
<1>4. CASE UNCHANGED vars
  <2>1. UNCHANGED <<ring, active, pc, pick, reg, queued, taken, sent,
                    preemptions>>
    BY <1>4 DEF vars
  <2>2. \A z \in Rings : Has(z)' = Has(z) /\ Left(z)' = Left(z)
    BY <2>1 DEF Has, Left
  <2>3. HistoryType /\ InCall => HistoryType' /\ InCall'
    BY <2>1 DEF HistoryType, InCall, Oldest
  <2> QED
    BY <2>1, <2>2, <2>3, NoRingChanges DEF CalmInv
<1> QED
  BY <1>2, <1>3, <1>4 DEF Next

\* usb_cdc_stream_init leaves empty rings.
LEMMA CalmInit == Init => CalmInv
<1> SUFFICES ASSUME Init PROVE CalmInv
  OBVIOUS
<1> DEFINE none == <<>>
<1>1. none \in Seq(Nat) /\ none \in Seq(Nat \X Nat) /\ Len(none) = 0
  OBVIOUS
<1>2. /\ pc = "idle" /\ pick = "high" /\ preemptions = 0 /\ queued = 0
      /\ taken = [q \in Rings |-> none] /\ sent = [q \in Rings |-> none]
      /\ active = <<0, 0>>
  BY DEF Init
<1> HIDE DEF none
<1>3. HistoryType
  BY <1>1, <1>2 DEF HistoryType, Rings
<1>4. InCall
  BY <1>2 DEF InCall
<1>5. ring = [q \in Rings |-> ring[q]]
  BY DEF Init
<1>6. ASSUME NEW q \in Rings
      PROVE  /\ ring[q] \in Record(Capacity[q]) /\ ring[q].n = 0
             /\ Content(Capacity[q], ring[q], 0, taken[q])
  <2> DEFINE c == Capacity[q]
             slot == [n \in 0..c - 1 |-> 0]
  <2>1. ring[q] = [slot |-> slot, w |-> 0, r |-> 0, n |-> 0]
    BY DEF Init
  <2>2. c \in Nat /\ c > 0 /\ taken[q] = none
    BY <1>2, CapacityIs
  <2> HIDE DEF c
  <2>3. slot \in [0..c - 1 -> Nat] /\ 0 \in 0..c - 1 /\ 0 \in 0..c
    BY <2>2
  <2> HIDE DEF slot
  <2>4. ring[q] \in Record(c) /\ ring[q].n = 0
    BY <2>1, <2>3 DEF Record
  <2>5. ring[q].w = 0 /\ ring[q].r = 0
    BY <2>1
  <2>6. Place(c, 0, 0) = 0 /\ 1..0 = {}
    BY <2>2 DEF Place
  <2>7. Content(c, ring[q], 0, none)
    BY <1>1, <2>3, <2>5, <2>6 DEF Content
  <2> QED
    BY <2>2, <2>4, <2>7 DEF c
<1>7. \A q \in Rings : Has(q) = ring[q].n /\ Left(q) = ring[q].n
  BY <1>2 DEF Has, Left
<1>8. ASSUME NEW q \in Lossless
      PROVE  Delivered(sent[q], Left(q), taken[q])
  <2>1. q \in Rings
    BY DEF Lossless, Rings
  <2>2. Left(q) = 0 /\ sent[q] = none /\ taken[q] = none
    BY <1>2, <1>6, <1>7, <2>1
  <2>3. 1..Len(none) = {}
    BY <1>1
  <2> QED
    BY <1>1, <2>2, <2>3 DEF Delivered
<1>9. RingsHold
  BY <1>5, <1>6, <1>7, <1>8 DEF RingsHold
<1> QED
  BY <1>2, <1>3, <1>4, <1>9 DEF CalmInv

\* As long as nobody interrupts service_tx the rings hold the newest of what they
\* took, and the lossless ones have sent the rest, wherever service_tx is.
THEOREM RingsAreCalm == Spec => []CalmInv
  BY CalmInit, CalmStep, PTL DEF Spec

\* A sequence is its places.
LEMMA SequenceIs ==
  ASSUME NEW n \in Nat, NEW S, NEW e,
         e = [k \in 1..n |-> e[k]], \A k \in 1..n : e[k] \in S
  PROVE  e \in Seq(S) /\ Len(e) = n
<1>1. e \in [1..n -> S]
  OBVIOUS
<1> QED
  BY <1>1

\* What the run asks the rings to hold, place by place.
LEMMA PendingIs ==
  ASSUME CalmInv, preemptions = 0, pc = "idle", NEW q \in Rings
  PROVE  /\ Pending(q) \in Seq(Nat) /\ Len(Pending(q)) = ring[q].n
         /\ taken[q] \in Seq(Nat) /\ ring[q].n <= Len(taken[q])
         /\ \A k \in 1..ring[q].n :
              Pending(q)[k] = taken[q][Len(taken[q]) - ring[q].n + k]
<1> DEFINE t == taken[q]
           c == Capacity[q]
           x == ring[q]
           h == x.n
           e == [k \in 1..h |-> x.slot[(x.r + k - 1) % c]]
<1>1. /\ c \in Nat /\ c > 0 /\ x \in Record(c) /\ Content(c, x, h, t)
      /\ t \in Seq(Nat)
  <2>1. Has(q) = h
    BY DEF Has
  <2> QED
    BY <2>1, CapacityIs DEF CalmInv, RingsHold, HistoryType
<1>2. Pending(q) = e
  BY DEF Pending
<1>3. /\ x.r \in 0..c - 1 /\ h \in 0..c /\ x.slot \in [0..c - 1 -> Nat]
  BY <1>1 DEF Record
<1> HIDE DEF c, x, t
<1>4. h <= Len(t) /\ \A k \in 1..h : x.slot[Place(c, x.r, k - 1)] = t[Len(t) - h + k]
  BY <1>1 DEF Content
<1>5. ASSUME NEW k \in 1..h
      PROVE  /\ x.slot[(x.r + k - 1) % c] = t[Len(t) - h + k]
             /\ x.slot[(x.r + k - 1) % c] \in Nat
  <2>1. k - 1 \in 0..c /\ x.r + k - 1 = x.r + (k - 1)
    BY <1>1, <1>3
  <2>2. /\ Place(c, x.r, k - 1) \in 0..c - 1
        /\ (x.r + (k - 1)) % c = Place(c, x.r, k - 1)
    BY <1>1, <1>3, <2>1, PlaceIs
  <2> QED
    BY <1>3, <1>4, <2>1, <2>2
<1>6. h \in Nat
  BY <1>1, <1>3
<1>7. \A k \in 1..h : e[k] \in Nat /\ e[k] = t[Len(t) - h + k]
  BY <1>5
<1>8. e = [k \in 1..h |-> e[k]]
  OBVIOUS
<1> HIDE DEF e, h
<1>9. e \in Seq(Nat) /\ Len(e) = h
  BY <1>6, <1>7, <1>8, SequenceIs
<1> QED
  BY <1>1, <1>2, <1>4, <1>7, <1>9 DEF t, x, h

\* A sequence that agrees with the end of another is a suffix of it.
LEMMA SuffixIs ==
  ASSUME NEW S, NEW a \in Seq(S), NEW e \in Seq(S), Len(a) <= Len(e),
         \A k \in 1..Len(a) : a[k] = e[Len(e) - Len(a) + k]
  PROVE  IsSuffix(a, e)
<1> DEFINE ra == Reverse(a)
           re == Reverse(e)
           m == Len(a)
<1>1. /\ ra \in Seq(S) /\ Len(ra) = m /\ m \in Nat
      /\ \A k \in 1..m : ra[k] = a[m - k + 1]
  BY DEF Reverse
<1>2. /\ re \in Seq(S) /\ Len(re) = Len(e) /\ Len(e) \in Nat
      /\ \A k \in 1..Len(e) : re[k] = e[Len(e) - k + 1]
  BY DEF Reverse
<1>3. IsSuffix(a, e)
        <=> Len(ra) <= Len(re) /\ SubSeq(ra, 1, Len(ra)) = SubSeq(re, 1, Len(ra))
  BY DEF IsSuffix, IsPrefix
<1> HIDE DEF ra, re
<1>4. ASSUME NEW k \in 1..m
      PROVE  ra[k] = re[k]
  <2>1. /\ m - k + 1 \in 1..m /\ k \in 1..Len(e)
        /\ Len(e) - m + (m - k + 1) = Len(e) - k + 1
    BY <1>1, <1>2
  <2>2. a[m - k + 1] = e[Len(e) - m + (m - k + 1)]
    BY <2>1
  <2> QED
    BY <1>1, <1>2, <2>1, <2>2
<1>5. /\ SubSeq(ra, 1, m) \in Seq(S) /\ SubSeq(re, 1, m) \in Seq(S)
      /\ Len(SubSeq(ra, 1, m)) = m /\ Len(SubSeq(re, 1, m)) = m
      /\ \A k \in 1..m : SubSeq(ra, 1, m)[k] = ra[k]
      /\ \A k \in 1..m : SubSeq(re, 1, m)[k] = re[k]
  BY <1>1, <1>2
<1>6. SubSeq(ra, 1, m) = SubSeq(re, 1, m)
  BY <1>4, <1>5, SeqEqual
<1> QED
  BY <1>1, <1>2, <1>3, <1>6

\* The places of a frame sent, or of all those pending, as halves.
LEMMA WholeIs ==
  ASSUME NEW s \in Seq(Nat)
  PROVE  /\ Whole(s) \in Seq(Nat \X Nat) /\ Len(Whole(s)) = Len(s)
         /\ \A k \in 1..Len(s) : Whole(s)[k] = <<s[k], s[k]>>
<1> DEFINE w == Whole(s)
<1>1. DOMAIN s = 1..Len(s) /\ Len(s) \in Nat /\ \A k \in 1..Len(s) : s[k] \in Nat
  OBVIOUS
<1>2. w = [k \in 1..Len(s) |-> <<s[k], s[k]>>]
  BY <1>1 DEF Whole
<1>3. \A k \in 1..Len(s) : w[k] = <<s[k], s[k]>> /\ w[k] \in Nat \X Nat
  BY <1>1, <1>2
<1>4. w = [k \in 1..Len(s) |-> w[k]]
  BY <1>2
<1> HIDE DEF w
<1>5. w \in Seq(Nat \X Nat) /\ Len(w) = Len(s)
  BY <1>1, <1>3, <1>4, SequenceIs
<1> QED
  BY <1>3, <1>5 DEF w

\* Between two calls the lossless rings have sent, or hold, all they took.
LEMMA CalmLosesNothing == CalmInv => NothingLost
<1> SUFFICES ASSUME CalmInv, pc = "idle", preemptions = 0, NEW q \in Lossless
             PROVE  sent[q] \o Whole(Pending(q)) = Whole(taken[q])
  BY DEF NothingLost
<1> DEFINE t == taken[q]
           s == sent[q]
           p == Pending(q)
           h == ring[q].n
           all == s \o Whole(p)
<1>1. q \in Rings
  BY DEF Lossless, Rings
<1>2. /\ p \in Seq(Nat) /\ Len(p) = h /\ t \in Seq(Nat) /\ h <= Len(t)
      /\ \A k \in 1..h : p[k] = t[Len(t) - h + k]
  BY <1>1, PendingIs
<1>3. s \in Seq(Nat \X Nat)
  BY <1>1 DEF CalmInv, HistoryType
<1>4. Len(s) + h = Len(t) /\ \A k \in 1..Len(s) : s[k] = <<t[k], t[k]>>
  <2>1. Left(q) = h
    BY DEF Left
  <2> QED
    BY <2>1 DEF CalmInv, RingsHold, Delivered
<1> HIDE DEF t, s, p, h
<1>5. /\ Whole(p) \in Seq(Nat \X Nat) /\ Len(Whole(p)) = h
      /\ \A k \in 1..h : Whole(p)[k] = <<p[k], p[k]>>
  BY <1>2, WholeIs
<1>6. /\ Whole(t) \in Seq(Nat \X Nat) /\ Len(Whole(t)) = Len(t)
      /\ \A k \in 1..Len(t) : Whole(t)[k] = <<t[k], t[k]>>
  BY <1>2, WholeIs
<1>7. /\ all \in Seq(Nat \X Nat) /\ Len(all) = Len(s) + h
      /\ \A k \in 1..Len(s) + h :
           all[k] = IF k <= Len(s) THEN s[k] ELSE Whole(p)[k - Len(s)]
  BY <1>3, <1>5, ConcatProperties
<1>8. Len(s) \in Nat /\ h \in Nat /\ Len(t) \in Nat
  BY <1>2, <1>3
<1> HIDE DEF all
<1>9. ASSUME NEW k \in 1..Len(t)
      PROVE  all[k] = Whole(t)[k]
  <2>1. CASE k <= Len(s)
    <3>1. k \in 1..Len(s) /\ k \in 1..Len(s) + h
      BY <1>4, <1>8, <2>1
    <3>2. all[k] = s[k]
      BY <1>7, <2>1, <3>1
    <3> QED
      BY <1>4, <1>6, <3>1, <3>2
  <2>2. CASE ~(k <= Len(s))
    <3> DEFINE j == k - Len(s)
    <3>1. j \in 1..h /\ Len(t) - h + j = k /\ k \in 1..Len(s) + h
      BY <1>4, <1>8, <2>2
    <3>2. all[k] = Whole(p)[j]
      BY <1>7, <2>2, <3>1
    <3> HIDE DEF j
    <3>3. all[k] = <<t[k], t[k]>>
      BY <1>2, <1>5, <3>1, <3>2
    <3> QED
      BY <1>6, <3>3
  <2> QED
    BY <2>1, <2>2
<1>10. all = Whole(t)
  BY <1>4, <1>6, <1>7, <1>9, SeqEqual
<1> QED
  BY <1>10 DEF all, t, s, p

\* And telemetry holds the newest it took.
LEMMA CalmKeepsNewest == CalmInv => NewestTelemetry
<1> SUFFICES ASSUME CalmInv, pc = "idle", preemptions = 0
             PROVE  IsSuffix(Pending("telemetry"), taken["telemetry"])
  BY DEF NewestTelemetry
<1>1. PICK q \in Rings : q = "telemetry"
  BY DEF Rings
<1> DEFINE t == taken[q]
           p == Pending(q)
<1>2. /\ p \in Seq(Nat) /\ t \in Seq(Nat) /\ Len(p) <= Len(t)
      /\ \A k \in 1..Len(p) : p[k] = t[Len(t) - Len(p) + k]
  BY PendingIs
<1> HIDE DEF t, p
<1>3. IsSuffix(p, t)
  BY <1>2, SuffixIs
<1> QED
  BY <1>1, <1>3 DEF t, p

\* Without an interruption of service_tx nothing of the high and query rings is
\* lost, repeated, out of order or sent in halves, whatever the controller does,
\* and telemetry drops only its oldest frames.
THEOREM RingsKeepTheirFrames == Spec => []RingsKeep
<1>1. CalmInv => RingsKeep
  BY CalmLosesNothing, CalmKeepsNewest DEF RingsKeep
<1> QED
  BY <1>1, RingsAreCalm, PTL
-----------------------------------------------------------------------------
(* The counts, whoever interrupts service_tx.                              *)

\* The types do not depend on the content of the rings; a count that service_tx
\* has loaded is at most the count of now, because others only increment it.
CountType ==
  /\ HistoryType /\ preemptions \in Nat
  /\ active \in Nat \X Nat
  /\ pc \in {"idle", "copy", "send", "flag", "advance", "advanced", "count",
             "counted"}
  /\ ring = [q \in Rings |-> ring[q]]
  /\ \A q \in Rings : ring[q] \in Record(Capacity[q])
  /\ pc # "idle" => ring[pick].n > 0
  /\ pc \in {"copy", "advanced"} => reg \in 0..Capacity[pick] - 1
  /\ pc = "counted" => reg \in 1..ring[pick].n

\* The count a call leaves when nobody else interrupts it.
Leaves(q) ==
  IF q = pick /\ pc = "counted" THEN reg - 1
  ELSE IF q = pick /\ pc \in {"flag", "advance", "advanced", "count"}
    THEN ring[q].n - 1 ELSE ring[q].n

Close(n, s, t, missed) == n + s <= t /\ t <= n + s + missed

CountInv ==
  /\ CountType
  /\ \A q \in Lossless :
       Close(Leaves(q), Len(sent[q]), Len(taken[q]), preemptions)

\* A frame that is sent, and one that is counted.
LEMMA CloseMoves ==
  ASSUME NEW n \in Int, NEW s \in Nat, NEW t \in Nat, NEW m \in Nat,
         NEW k \in Nat, m <= k, Close(n, s, t, m)
  PROVE  Close(n - 1, s + 1, t, k) /\ Close(n + 1, s, t + 1, k)
  BY DEF Close

\* The fields of a ring.
LEMMA RecordIs ==
  ASSUME NEW c, NEW x \in Record(c)
  PROVE  /\ x.slot \in [0..c - 1 -> Nat] /\ x.w \in 0..c - 1
         /\ x.r \in 0..c - 1 /\ x.n \in 0..c
  BY DEF Record

\* One ring changes and remains a ring.
LEMMA RingTypes ==
  ASSUME CountType, NEW p \in Rings, NEW y \in Record(Capacity[p]),
         ring' = [ring EXCEPT ![p] = y]
  PROVE  /\ ring'[p] = y /\ \A q \in Rings \ {p} : ring'[q] = ring[q]
         /\ ring' = [q \in Rings |-> ring'[q]]
         /\ \A q \in Rings : ring'[q] \in Record(Capacity[q])
<1>1. ring' = [q \in Rings |-> IF q = p THEN y ELSE ring[q]]
  BY DEF CountType
<1>2. ring'[p] = y /\ \A q \in Rings \ {p} : ring'[q] = ring[q]
  BY <1>1
<1>3. ASSUME NEW q \in Rings PROVE ring'[q] \in Record(Capacity[q])
  <2>1. CASE q = p
    BY <1>2, <2>1
  <2>2. CASE q # p
    BY <1>2, <2>2 DEF CountType
  <2> QED
    BY <2>1, <2>2
<1> QED
  BY <1>1, <1>2, <1>3

\* What the counts and lengths are.
LEMMA CountNumbers ==
  ASSUME CountType, NEW q \in Rings
  PROVE  /\ Capacity[q] \in Nat /\ ring[q].n \in 0..Capacity[q]
         /\ ring[q].r \in 0..Capacity[q] - 1
         /\ ring[q].slot \in [0..Capacity[q] - 1 -> Nat]
         /\ taken[q] \in Seq(Nat) /\ sent[q] \in Seq(Nat \X Nat)
         /\ Len(taken[q]) \in Nat /\ Len(sent[q]) \in Nat
         /\ preemptions \in Nat
<1>1. taken[q] \in Seq(Nat) /\ sent[q] \in Seq(Nat \X Nat) /\ preemptions \in Nat
  BY DEF CountType, HistoryType
<1>2. ring[q] \in Record(Capacity[q]) /\ Capacity[q] \in Nat
  BY CapacityIs DEF CountType
<1> DEFINE x == ring[q]
           c == Capacity[q]
<1> HIDE DEF x, c
<1>3. x.n \in 0..c /\ x.r \in 0..c - 1 /\ x.slot \in [0..c - 1 -> Nat]
  BY <1>2, RecordIs DEF x, c
<1> QED
  BY <1>1, <1>2, <1>3 DEF x, c

\* A step that leaves the rings and the history alone.
LEMMA CountStays ==
  ASSUME CountInv, UNCHANGED <<ring, taken, sent, queued, preemptions>>,
         pick' \in Rings, active' \in Nat \X Nat,
         pc' \in {"idle", "copy", "send", "advance", "advanced", "counted"},
         pc' # "idle" => ring[pick'].n > 0,
         pc' \in {"copy", "advanced"} => reg' \in 0..Capacity[pick'] - 1,
         pc' = "counted" => reg' \in 1..ring[pick'].n,
         \A q \in Lossless : Leaves(q)' = Leaves(q)
  PROVE  CountInv'
<1>1. CountType'
  BY DEF CountInv, CountType, HistoryType
<1>2. ASSUME NEW q \in Lossless
      PROVE  Close(Leaves(q), Len(sent[q]), Len(taken[q]), preemptions)'
  BY DEF CountInv, Close
<1> QED
  BY <1>1, <1>2 DEF CountInv

\* Copying, raising the flag and loading change no count.
LEMMA CountReads ==
  ASSUME CountInv,
         \/ \E q \in Rings : Pick(q)
         \/ Copy \/ Flag
         \/ Load("advance", "advanced", ring[pick].r)
         \/ Load("count", "counted", ring[pick].n)
  PROVE  CountInv'
<1>1. CountType /\ pick \in Rings /\ active \in Nat \X Nat
  BY DEF CountInv, CountType, HistoryType
<1>2. UNCHANGED <<ring, taken, sent, queued, preemptions>>
  BY DEF Pick, Select, Copy, Flag, Load, Others, History
<1>3. pc # "idle" => ring[pick].n > 0
  BY <1>1 DEF CountType
<1>4. ASSUME NEW q \in Rings, Pick(q) PROVE CountInv'
  <2>1. /\ pc = "idle" /\ pc' = "copy" /\ pick' = q /\ reg' = ring[q].r
        /\ ring[q].n > 0
        /\ active' = [active EXCEPT ![1] = ring[q].slot[ring[q].r]]
    BY <1>4 DEF Pick, Select
  <2>2. ring[q].r \in 0..Capacity[q] - 1 /\ ring[q].slot[ring[q].r] \in Nat
    BY <1>1, CountNumbers
  <2>3. active' \in Nat \X Nat
    BY <1>1, <2>1, <2>2
  <2>4. \A z \in Lossless : Leaves(z)' = Leaves(z)
    BY <1>2, <2>1 DEF Leaves
  <2> QED
    BY <1>2, <2>1, <2>2, <2>3, <2>4, CountStays
<1>5. CASE Copy
  <2>1. /\ pc = "copy" /\ pc' = "send" /\ UNCHANGED <<pick, reg>>
        /\ active' = [active EXCEPT ![2] = ring[pick].slot[reg]]
    BY <1>5 DEF Copy
  <2>2. ring[pick].slot \in [0..Capacity[pick] - 1 -> Nat]
    BY <1>1, CountNumbers
  <2>3. reg \in 0..Capacity[pick] - 1
    BY <1>1, <2>1 DEF CountType
  <2>4. ring[pick].slot[reg] \in Nat
    BY <2>2, <2>3
  <2>5. active' \in Nat \X Nat
    BY <1>1, <2>1, <2>4
  <2>6. \A z \in Lossless : Leaves(z)' = Leaves(z)
    BY <1>2, <2>1 DEF Leaves
  <2> QED
    BY <1>1, <1>2, <1>3, <2>1, <2>5, <2>6, CountStays
<1>6. CASE Flag
  <2>1. pc = "flag" /\ pc' = "advance" /\ UNCHANGED <<pick, active>>
    BY <1>6 DEF Flag
  <2>2. \A z \in Lossless : Leaves(z)' = Leaves(z)
    BY <1>2, <2>1 DEF Leaves
  <2> QED
    BY <1>1, <1>2, <1>3, <2>1, <2>2, CountStays
<1>7. CASE Load("advance", "advanced", ring[pick].r)
  <2>1. /\ pc = "advance" /\ pc' = "advanced" /\ reg' = ring[pick].r
        /\ UNCHANGED <<pick, active>>
    BY <1>7 DEF Load
  <2>2. \A z \in Lossless : Leaves(z)' = Leaves(z)
    BY <1>2, <2>1 DEF Leaves
  <2>3. ring[pick].r \in 0..Capacity[pick] - 1
    BY <1>1, CountNumbers
  <2> QED
    BY <1>1, <1>2, <1>3, <2>1, <2>2, <2>3, CountStays
<1>8. CASE Load("count", "counted", ring[pick].n)
  <2>1. /\ pc = "count" /\ pc' = "counted" /\ reg' = ring[pick].n
        /\ UNCHANGED <<pick, active>>
    BY <1>8 DEF Load
  <2>2. \A z \in Lossless : Leaves(z)' = Leaves(z)
    BY <1>2, <2>1 DEF Leaves
  <2>3. ring[pick].n \in 0..Capacity[pick] /\ Capacity[pick] \in Nat
    BY <1>1, CountNumbers
  <2>4. ring[pick].n \in 1..ring[pick].n
    BY <1>3, <2>1, <2>3
  <2> QED
    BY <1>1, <1>2, <1>3, <2>1, <2>2, <2>4, CountStays
<1> QED
  BY <1>4, <1>5, <1>6, <1>7, <1>8

\* A frame the controller takes is counted as sent, and one it refuses is not.
LEMMA CountTransmits ==
  ASSUME CountInv, Transmit
  PROVE  CountInv'
<1>1. PICK p \in Rings : p = pick
  BY DEF CountInv, CountType, HistoryType
<1>2. /\ pc = "send" /\ UNCHANGED <<ring, active, pick, queued, taken, preemptions>>
      /\ active \in Nat \X Nat /\ CountType /\ ring[p].n > 0
  BY <1>1 DEF Transmit, History, CountInv, CountType
<1>3. CASE cdc # "idle"
  <2>1. pc' = "idle" /\ sent' = sent
    BY <1>3 DEF Transmit
  <2>2. \A z \in Lossless : Leaves(z)' = Leaves(z)
    BY <1>2, <2>1 DEF Leaves
  <2> QED
    BY <1>1, <1>2, <2>1, <2>2, CountStays
<1>4. CASE cdc = "idle"
  <2>1. pc' = "flag" /\ sent' = [sent EXCEPT ![p] = Append(@, active)]
    BY <1>1, <1>4 DEF Transmit, Take
  <2>2. /\ sent \in [Rings -> Seq(Nat \X Nat)] /\ sent[p] \in Seq(Nat \X Nat)
        /\ Len(sent[p]) \in Nat /\ ring[p].n \in Nat
    BY <1>1, <1>2, CountNumbers DEF CountType, HistoryType
  <2>3. /\ sent' \in [Rings -> Seq(Nat \X Nat)]
        /\ Len(sent'[p]) = Len(sent[p]) + 1
        /\ \A z \in Rings \ {p} : sent'[z] = sent[z]
    BY <1>1, <1>2, <2>1, <2>2
  <2>4. CountType'
    BY <1>1, <1>2, <2>1, <2>3 DEF CountType, HistoryType
  <2>5. /\ Leaves(p) = ring[p].n /\ Leaves(p)' = ring[p].n - 1
        /\ \A z \in Rings \ {p} : Leaves(z)' = Leaves(z)
    BY <1>1, <1>2, <2>1 DEF Leaves
  <2>6. ASSUME NEW q \in Lossless
        PROVE  Close(Leaves(q), Len(sent[q]), Len(taken[q]), preemptions)'
    <3>1. /\ Close(Leaves(q), Len(sent[q]), Len(taken[q]), preemptions)
          /\ q \in Rings
      BY DEF CountInv, Lossless, Rings
    <3>2. CASE q # p
      <4>1. Leaves(q)' = Leaves(q) /\ sent'[q] = sent[q]
        BY <2>3, <2>5, <3>1, <3>2
      <4> QED
        BY <1>2, <3>1, <4>1 DEF Close
    <3>3. CASE q = p
      <4>1. Len(taken[p]) \in Nat /\ preemptions \in Nat /\ ring[p].n \in Int
        BY <1>2, <2>2, CountNumbers
      <4>2. Close(ring[p].n - 1, Len(sent[p]) + 1, Len(taken[p]), preemptions)
        BY <2>2, <2>5, <3>1, <3>3, <4>1, CloseMoves
      <4> QED
        BY <1>2, <2>3, <2>5, <3>3, <4>2 DEF Close
    <3> QED
      BY <3>2, <3>3
  <2> QED
    BY <2>4, <2>6 DEF CountInv
<1> QED
  BY <1>3, <1>4

\* The stores of service_tx: the read index, and the count it has loaded less one,
\* whatever the count is by now.
LEMMA CountStores ==
  ASSUME CountInv,
         \/ Stored("advanced", "count",
                   [ring EXCEPT ![pick].r = After(pick, reg)])
         \/ Stored("counted", "idle", [ring EXCEPT ![pick].n = reg - 1])
  PROVE  CountInv'
<1>1. PICK p \in Rings : p = pick
  BY DEF CountInv, CountType, HistoryType
<1> DEFINE x == ring[p]
           c == Capacity[p]
<1>2. /\ UNCHANGED <<active, pick, queued, taken, sent, preemptions>>
      /\ CountType /\ c \in Nat /\ x \in Record(c) /\ x.n \in 0..c
  BY <1>1, CountNumbers DEF Stored, Others, History, CountInv, CountType
<1>3. CASE Stored("advanced", "count",
                  [ring EXCEPT ![pick].r = After(pick, reg)])
  <2> DEFINE y == [x EXCEPT !.r = After(pick, reg)]
  <2>1. /\ pc = "advanced" /\ pc' = "count" /\ reg \in 0..c - 1 /\ x.n > 0
        /\ ring' = [ring EXCEPT ![p] = y]
    BY <1>1, <1>2, <1>3 DEF Stored, CountType
  <2>2. After(pick, reg) \in 0..c - 1
    BY <1>1, <2>1, AfterIs
  <2>3. y \in Record(c) /\ y.n = x.n
    BY <1>2, <2>2 DEF Record
  <2> HIDE DEF y
  <2>4. /\ ring'[p] = y /\ \A q \in Rings \ {p} : ring'[q] = ring[q]
        /\ ring' = [q \in Rings |-> ring'[q]]
        /\ \A q \in Rings : ring'[q] \in Record(Capacity[q])
    BY <1>2, <2>1, <2>3, RingTypes
  <2>5. CountType'
    BY <1>1, <1>2, <2>1, <2>3, <2>4 DEF CountType, HistoryType
  <2>6. \A q \in Rings : Leaves(q)' = Leaves(q)
    BY <1>1, <1>2, <2>1, <2>3, <2>4 DEF Leaves
  <2>7. ASSUME NEW q \in Lossless
        PROVE  Close(Leaves(q), Len(sent[q]), Len(taken[q]), preemptions)'
    <3>1. q \in Rings
      BY DEF Lossless, Rings
    <3> QED
      BY <1>2, <2>6, <3>1 DEF CountInv, Close
  <2> QED
    BY <2>5, <2>7 DEF CountInv
<1>4. CASE Stored("counted", "idle", [ring EXCEPT ![pick].n = reg - 1])
  <2> DEFINE y == [x EXCEPT !.n = reg - 1]
  <2>1. /\ pc = "counted" /\ pc' = "idle" /\ reg \in 1..x.n
        /\ ring' = [ring EXCEPT ![p] = y]
    BY <1>1, <1>2, <1>4 DEF Stored, CountType
  <2>2. reg - 1 \in 0..c
    BY <1>2, <2>1
  <2>3. y \in Record(c) /\ y.n = reg - 1
    BY <1>2, <2>2 DEF Record
  <2> HIDE DEF y
  <2>4. /\ ring'[p] = y /\ \A q \in Rings \ {p} : ring'[q] = ring[q]
        /\ ring' = [q \in Rings |-> ring'[q]]
        /\ \A q \in Rings : ring'[q] \in Record(Capacity[q])
    BY <1>2, <2>1, <2>3, RingTypes
  <2>5. CountType'
    BY <1>1, <1>2, <2>1, <2>4 DEF CountType, HistoryType
  <2>6. \A q \in Rings : Leaves(q)' = Leaves(q)
    BY <1>1, <1>2, <2>1, <2>3, <2>4 DEF Leaves
  <2>7. ASSUME NEW q \in Lossless
        PROVE  Close(Leaves(q), Len(sent[q]), Len(taken[q]), preemptions)'
    <3>1. q \in Rings
      BY DEF Lossless, Rings
    <3> QED
      BY <1>2, <2>6, <3>1 DEF CountInv, Close
  <2> QED
    BY <2>5, <2>7 DEF CountInv
<1> QED
  BY <1>3, <1>4

\* A frame more is counted, unless service_tx is about to store an older count:
\* then the step is one of its interruptions.
LEMMA CountQueues ==
  ASSUME CountInv, NEW p \in Rings, Queue(p)
  PROVE  CountInv'
<1> DEFINE t == taken[p]
           c == Capacity[p]
           x == ring[p]
           f == queued + 1
<1>1. /\ UNCHANGED <<active, pick, pc, reg, sent>> /\ CountType
      /\ preemptions' = preemptions + (IF pc = "idle" THEN 0 ELSE 1)
  BY DEF Queue, Preempts, CountInv
<1>2. /\ c \in Nat /\ c > 0 /\ x \in Record(c) /\ x.n \in 0..c
      /\ x.r \in 0..c - 1 /\ t \in Seq(Nat) /\ Len(t) \in Nat
      /\ preemptions \in Nat /\ f \in Nat /\ queued' = f
      /\ taken \in [Rings -> Seq(Nat)]
  <2>1. x \in Record(c) /\ f \in Nat /\ taken \in [Rings -> Seq(Nat)]
    BY <1>1 DEF CountType, HistoryType
  <2>2. queued' = f
    BY DEF Queue
  <2> QED
    BY <1>1, <2>1, <2>2, CountNumbers, CapacityIs
<1>3. preemptions' \in Nat /\ preemptions <= preemptions'
  BY <1>1, <1>2
<1>4. CASE Full(p) /\ p \in Lossless
  <2>1. UNCHANGED <<ring, taken>>
    BY <1>4 DEF Queue
  <2>2. CountType'
    BY <1>1, <1>2, <1>3, <2>1 DEF CountType, HistoryType
  <2>3. ASSUME NEW q \in Lossless
        PROVE  Close(Leaves(q), Len(sent[q]), Len(taken[q]), preemptions)'
    <3>1. q \in Rings /\ Leaves(q)' = Leaves(q)
      BY <1>1, <2>1 DEF Leaves, Lossless, Rings
    <3>2. Close(Leaves(q), Len(sent[q]), Len(taken[q]), preemptions)
      BY DEF CountInv
    <3>3. /\ Len(taken[q]) \in Nat /\ Len(sent[q]) \in Nat
          /\ ring[q].n \in Nat
      BY <1>1, <3>1, CountNumbers
    <3>4. Leaves(q) \in Int
      BY <1>1, <3>1, <3>3 DEF Leaves, CountType
    <3> QED
      BY <1>1, <1>2, <1>3, <2>1, <3>1, <3>2, <3>3, <3>4 DEF Close
  <2> QED
    BY <2>2, <2>3 DEF CountInv
<1>5. CASE ~(Full(p) /\ p \in Lossless)
  <2> DEFINE v == IF Full(p) THEN Evict(p, x) ELSE x
             y == Put(p, v, f)
  <2>1. taken' = [taken EXCEPT ![p] = Append(t, f)]
        /\ ring' = [ring EXCEPT ![p] = y]
    BY <1>5 DEF Queue
  <2>2. v \in Record(c) /\ v.n < c /\ v.n \in 0..c /\ (~Full(p) => v.n = x.n)
        /\ (Full(p) => v.n = x.n - 1 /\ x.n = c)
    <3>1. CASE ~Full(p)
      BY <1>2, <3>1 DEF Full
    <3>2. CASE Full(p)
      <4>1. v = [x EXCEPT !.r = After(p, x.r), !.n = x.n - 1] /\ x.n = c
        BY <1>2, <3>2 DEF Evict, Full
      <4>2. After(p, x.r) \in 0..c - 1
        BY <1>2, AfterIs
      <4>3. x.n - 1 \in 0..c /\ x.n - 1 < c
        BY <1>2, <4>1
      <4>4. v \in Record(c) /\ v.n = x.n - 1
        BY <1>2, <4>1, <4>2, <4>3 DEF Record
      <4> QED
        BY <3>2, <4>1, <4>3, <4>4
    <3> QED
      BY <3>1, <3>2
  <2> HIDE DEF v
  <2>3. /\ v.slot \in [0..c - 1 -> Nat] /\ v.w \in 0..c - 1
        /\ v.r \in 0..c - 1
    BY <2>2, RecordIs
  <2>4. After(p, v.w) \in 0..c - 1
    <3> DEFINE n == v.w
    <3>1. n \in 0..Capacity[p] - 1
      BY <2>3
    <3> HIDE DEF n, f, t, x
    <3>2. After(p, n) \in 0..Capacity[p] - 1
      BY <3>1, AfterIs
    <3> QED
      BY <3>2 DEF n
  <2>5. v.n + 1 \in 0..c /\ [v.slot EXCEPT ![v.w] = f] \in [0..c - 1 -> Nat]
    <3>1. v.n + 1 \in 0..c /\ f \in Nat
      BY <1>2, <2>2
    <3> HIDE DEF c, f
    <3>2. [v.slot EXCEPT ![v.w] = f] \in [0..c - 1 -> Nat]
      BY <2>3, <3>1
    <3> QED
      BY <3>1, <3>2
  <2>6. y \in Record(c) /\ y.n = v.n + 1
    BY <2>2, <2>3, <2>4, <2>5 DEF Put, Record
  <2> HIDE DEF y, f
  <2>7. /\ ring'[p] = y /\ \A q \in Rings \ {p} : ring'[q] = ring[q]
        /\ ring' = [q \in Rings |-> ring'[q]]
        /\ \A q \in Rings : ring'[q] \in Record(Capacity[q])
    BY <1>1, <2>1, <2>6, RingTypes
  <2>8. /\ taken' \in [Rings -> Seq(Nat)] /\ Len(taken'[p]) = Len(t) + 1
        /\ \A q \in Rings \ {p} : taken'[q] = taken[q]
    BY <1>2, <2>1
  <2>9. \A q \in Rings : ring'[q].n \in Nat /\ ring'[q].n >= ring[q].n
    <3>1. y.n \in Nat /\ y.n >= x.n
      BY <1>2, <2>2, <2>6
    <3>2. ASSUME NEW q \in Rings PROVE ring[q].n \in Nat /\ ring[q].n >= ring[q].n
      BY <1>1, CountNumbers
    <3> QED
      BY <2>7, <3>1, <3>2
  <2>10. CountType'
    <3>1. pick \in Rings /\ ring[pick].n \in Nat
      BY <1>1, CountNumbers DEF CountType, HistoryType
    <3>2. pc # "idle" => ring'[pick].n > 0
      BY <1>1, <2>9, <3>1 DEF CountType
    <3>3. pc = "counted" => reg \in 1..ring'[pick].n
      BY <1>1, <2>9, <3>1 DEF CountType
    <3> QED
      BY <1>1, <1>2, <1>3, <2>7, <2>8, <3>2, <3>3 DEF CountType, HistoryType
  <2>11. ASSUME NEW q \in Lossless
         PROVE  Close(Leaves(q), Len(sent[q]), Len(taken[q]), preemptions)'
    <3>1. Close(Leaves(q), Len(sent[q]), Len(taken[q]), preemptions)
      BY DEF CountInv
    <3>2. /\ q \in Rings /\ Len(taken[q]) \in Nat /\ Len(sent[q]) \in Nat
          /\ ring[q].n \in Nat
      <4>1. q \in Rings
        BY DEF Lossless, Rings
      <4> QED
        BY <1>1, <4>1, CountNumbers
    <3>3. Leaves(q) \in Int
      BY <1>1, <3>2 DEF Leaves, CountType
    <3>4. CASE q # p
      <4>1. Leaves(q)' = Leaves(q) /\ taken'[q] = taken[q] /\ sent' = sent
        BY <1>1, <2>7, <2>8, <3>2, <3>4 DEF Leaves
      <4> QED
        BY <1>2, <1>3, <3>1, <3>2, <3>3, <4>1 DEF Close
    <3>5. CASE q = p
      <4>1. ring'[q].n = ring[q].n + 1 /\ Len(taken'[q]) = Len(taken[q]) + 1
        BY <1>5, <2>2, <2>6, <2>7, <2>8, <3>5
      <4>2. CASE q = pick /\ pc = "counted"
        <5>1. Leaves(q)' = Leaves(q) /\ preemptions' = preemptions + 1
          BY <1>1, <4>2 DEF Leaves
        <5> QED
          BY <1>1, <1>2, <3>1, <3>2, <3>3, <4>1, <5>1 DEF Close
      <4>3. CASE ~(q = pick /\ pc = "counted")
        <5>1. Leaves(q)' = Leaves(q) + 1
          <6>1. Leaves(q) \in {ring[q].n, ring[q].n - 1}
                /\ (Leaves(q) = ring[q].n => Leaves(q)' = ring'[q].n)
                /\ (Leaves(q) # ring[q].n => Leaves(q)' = ring'[q].n - 1)
            BY <1>1, <3>2, <4>3 DEF Leaves
          <6> QED
            BY <3>2, <4>1, <6>1
        <5>2. Close(Leaves(q) + 1, Len(sent[q]), Len(taken[q]) + 1, preemptions')
          BY <1>2, <1>3, <3>1, <3>2, <3>3, CloseMoves
        <5> QED
          BY <1>1, <4>1, <5>1, <5>2
      <4> QED
        BY <4>2, <4>3
    <3> QED
      BY <3>4, <3>5
  <2> QED
    BY <2>10, <2>11 DEF CountInv
<1> QED
  BY <1>4, <1>5

\* Completions, resets and hosts that come back touch no count.
LEMMA CountUsb ==
  ASSUME CountInv, Complete \/ Detach \/ Attach
  PROVE  CountInv'
<1>1. /\ UNCHANGED <<ring, active, pc, pick, reg, queued, taken, sent>>
      /\ preemptions' = preemptions + (IF pc = "idle" THEN 0 ELSE 1)
      /\ CountType
  BY DEF Complete, Detach, Attach, Preempts, CountInv
<1>2. preemptions \in Nat /\ preemptions' \in Nat /\ preemptions <= preemptions'
  BY <1>1 DEF CountType
<1>3. CountType'
  BY <1>1, <1>2 DEF CountType, HistoryType
<1>4. ASSUME NEW q \in Lossless
      PROVE  Close(Leaves(q), Len(sent[q]), Len(taken[q]), preemptions)'
  <2>1. q \in Rings /\ Leaves(q)' = Leaves(q)
    BY <1>1 DEF Leaves, Lossless, Rings
  <2>2. Close(Leaves(q), Len(sent[q]), Len(taken[q]), preemptions)
    BY DEF CountInv
  <2>3. Len(taken[q]) \in Nat /\ Len(sent[q]) \in Nat /\ ring[q].n \in Nat
    BY <1>1, <2>1, CountNumbers
  <2>4. Leaves(q) \in Int
    BY <1>1, <2>1, <2>3 DEF Leaves, CountType
  <2> QED
    BY <1>1, <1>2, <2>1, <2>2, <2>3, <2>4 DEF Close
<1> QED
  BY <1>3, <1>4 DEF CountInv

LEMMA CountStep == CountInv /\ [Next]_vars => CountInv'
<1> SUFFICES ASSUME CountInv, [Next]_vars
             PROVE  CountInv'
  OBVIOUS
<1>1. CASE Service
  BY <1>1, CountReads, CountTransmits, CountStores DEF Service, Pop
<1>2. CASE \E q \in Rings : Queue(q)
  BY <1>2, CountQueues
<1>3. CASE Complete \/ Detach \/ Attach
  BY <1>3, CountUsb
<1>4. CASE UNCHANGED vars
  <2>1. UNCHANGED <<ring, active, pc, pick, reg, queued, taken, sent,
                    preemptions>>
    BY <1>4 DEF vars
  <2>2. CountType'
    BY <2>1 DEF CountInv, CountType, HistoryType
  <2>3. \A q \in Lossless : Leaves(q)' = Leaves(q)
    BY <2>1 DEF Leaves
  <2> QED
    BY <2>1, <2>2, <2>3 DEF CountInv, Close
<1> QED
  BY <1>1, <1>2, <1>3, <1>4 DEF Next

\* The empty rings of usb_cdc_stream_init have counted nothing and missed nothing.
LEMMA CountInit == Init => CountInv
<1> SUFFICES ASSUME Init PROVE CountInv
  OBVIOUS
<1>1. CalmInv /\ preemptions = 0 /\ pc = "idle"
  BY CalmInit DEF Init
<1>2. HistoryType /\ InCall /\ RingsHold
  BY <1>1 DEF CalmInv
<1>3. CountType
  BY <1>1, <1>2 DEF CountType, InCall, RingsHold
<1>4. ASSUME NEW q \in Lossless
      PROVE  Close(Leaves(q), Len(sent[q]), Len(taken[q]), preemptions)
  <2>1. Leaves(q) = ring[q].n /\ Left(q) = ring[q].n
    BY <1>1 DEF Leaves, Left
  <2>2. Len(sent[q]) + ring[q].n = Len(taken[q])
    BY <1>2, <2>1 DEF RingsHold, Delivered
  <2>3. q \in Rings
    BY DEF Lossless, Rings
  <2>4. Len(taken[q]) \in Nat /\ Len(sent[q]) \in Nat /\ ring[q].n \in Nat
    BY <1>3, <2>3, CountNumbers
  <2> QED
    BY <1>1, <2>1, <2>2, <2>4 DEF Close
<1> QED
  BY <1>3, <1>4 DEF CountInv

\* Types and counts of the transmit half, at every memory access of service_tx and
\* with any number of interruptions.
THEOREM CountInvariance == Spec => []CountInv
  BY CountInit, CountStep, PTL DEF Spec

\* The unlocked counts: whoever interrupts service_tx wherever, a count claims no
\* frame that is not there and misses at most one for each interruption.
THEOREM CountsStayClose == Spec => []CountsAreClose
<1>1. CountInv => CountsAreClose
  <2> SUFFICES ASSUME CountInv, pc = "idle", NEW q \in Lossless
               PROVE  /\ ring[q].n + Len(sent[q]) <= Len(taken[q])
                      /\ Len(taken[q]) <= ring[q].n + Len(sent[q]) + preemptions
    BY DEF CountsAreClose
  <2>1. Leaves(q) = ring[q].n
    BY DEF Leaves
  <2> QED
    BY <2>1 DEF CountInv, Close
<1> QED
  BY <1>1, CountInvariance, PTL
-----------------------------------------------------------------------------
(* The receive ring, for every capacity, every set of packets and any number *)
(* of them: what usb_cdc_stream_next_line reads is what the interrupt        *)
(* stored, in order, and nothing unread is overwritten.                      *)

\* What a place of the ring holds: a byte, or nothing yet.
Bytes == STRING \cup {"none"}

\* The bytes between the read and the write index.
Held == (rxWrite + Size - rxRead) % Size

\* The invariant: the unread places of the ring, counted from the read index, hold
\* the bytes that were stored and not taken yet, and there are as many of them.
RingInv ==
  /\ rx \in [0..RxCapacity -> Bytes]
  /\ rxWrite \in 0..RxCapacity /\ rxRead \in 0..RxCapacity
  /\ stored \in Seq(Bytes) /\ consumed \in Nat
  /\ Len(stored) = consumed + Held
  /\ \A n \in 1..Held : rx[Along(rxRead, n - 1)] = stored[consumed + n]
-----------------------------------------------------------------------------
(* Arithmetic of the ring.                                                  *)

\* A sum of two places of the ring wraps at most once.
LEMMA Wrap ==
  ASSUME NEW a \in Nat
  PROVE  /\ a < Size => a % Size = a
         /\ Size <= a /\ a < Size + Size => a % Size = a - Size
<1>1. Size \in Nat /\ Size > 0
  BY ReceiveAssumption DEF Size
<1> HIDE DEF Size
<1>2. a < Size => a % Size = a
  BY <1>1
<1>3. ASSUME Size <= a, a < Size + Size
      PROVE  a % Size = a - Size
  BY <1>1, <1>3
<1> QED
  BY <1>2, <1>3

\* The place n behind i.
LEMMA AlongIs ==
  ASSUME NEW i \in 0..RxCapacity, NEW n \in 0..Size
  PROVE  /\ Along(i, n) = (IF i + n < Size THEN i + n ELSE i + n - Size)
         /\ Along(i, n) \in 0..RxCapacity
<1>1. Size \in Nat /\ Size = RxCapacity + 1 /\ RxCapacity \in Nat
  BY ReceiveAssumption DEF Size
<1> HIDE DEF Size
<1> DEFINE a == i + n
<1>2. a \in Nat /\ a < Size + Size
  BY <1>1
<1>3. /\ a < Size => a % Size = a
      /\ Size <= a => a % Size = a - Size
  BY <1>2, Wrap
<1> QED
  BY <1>1, <1>2, <1>3 DEF Along

\* How far j is behind i.
LEMMA DistanceIs ==
  ASSUME NEW i \in 0..RxCapacity, NEW j \in 0..RxCapacity
  PROVE  /\ (j + Size - i) % Size = (IF i <= j THEN j - i ELSE j + Size - i)
         /\ (j + Size - i) % Size \in 0..RxCapacity
<1>1. Size \in Nat /\ Size = RxCapacity + 1 /\ RxCapacity \in Nat
  BY ReceiveAssumption DEF Size
<1> HIDE DEF Size
<1> DEFINE a == j + Size - i
<1>2. a \in Nat /\ a < Size + Size
  BY <1>1
<1>3. /\ a < Size => a % Size = a
      /\ Size <= a => a % Size = a - Size
  BY <1>2, Wrap
<1> QED
  BY <1>1, <1>2, <1>3

\* What is free and what is held make up the ring but for one place, which is
\* never used: it tells a full ring from an empty one.
LEMMA FreeIs ==
  ASSUME rxWrite \in 0..RxCapacity, rxRead \in 0..RxCapacity
  PROVE  /\ Held \in 0..RxCapacity
         /\ Held = (IF rxRead <= rxWrite THEN rxWrite - rxRead ELSE rxWrite + Size - rxRead)
         /\ Free = RxCapacity - Held
<1>1. Size \in Nat /\ Size = RxCapacity + 1 /\ RxCapacity \in Nat
  BY ReceiveAssumption DEF Size
<1> HIDE DEF Size
<1>2. /\ Held = (IF rxRead <= rxWrite THEN rxWrite - rxRead ELSE rxWrite + Size - rxRead)
      /\ Held \in 0..RxCapacity
  BY DistanceIs DEF Held
<1> DEFINE a == rxRead + Size - rxWrite - 1
<1>3. a \in Nat /\ a < Size + Size
  BY <1>1
<1>4. /\ a < Size => a % Size = a
      /\ Size <= a => a % Size = a - Size
  BY <1>3, Wrap
<1>5. Free = RxCapacity - Held
  BY <1>1, <1>2, <1>3, <1>4 DEF Free
<1> QED
  BY <1>2, <1>5
-----------------------------------------------------------------------------
\* Nothing is stored and nothing taken at first.
LEMMA RingInit == RxInit => RingInv
<1> SUFFICES ASSUME RxInit
             PROVE  RingInv
  OBVIOUS
<1>1. RxCapacity \in Nat /\ Size = RxCapacity + 1
  BY ReceiveAssumption DEF Size
<1>2. rxWrite = 0 /\ rxRead = 0 /\ stored = <<>> /\ consumed = 0
      /\ rx = [i \in 0..RxCapacity |-> "none"]
  BY DEF RxInit
<1>3. Held = 0
  BY <1>1, <1>2, FreeIs
<1>4. stored \in Seq(Bytes) /\ Len(stored) = 0
  BY <1>2
<1>5. rx \in [0..RxCapacity -> Bytes]
  BY <1>2 DEF Bytes
<1>6. \A n \in 1..Held : rx[Along(rxRead, n - 1)] = stored[consumed + n]
  BY <1>3
<1>7. rxWrite \in 0..RxCapacity /\ rxRead \in 0..RxCapacity /\ consumed \in Nat
      /\ Len(stored) = consumed + Held
  BY <1>1, <1>2, <1>3, <1>4
<1> QED
  BY <1>4, <1>5, <1>6, <1>7 DEF RingInv

\* A packet that fits goes behind the unread bytes and touches none of them.
LEMMA RingReceive ==
  ASSUME RingInv, NEW p \in Packets, Receive(p)
  PROVE  RingInv'
<1>1. /\ RxCapacity \in Nat /\ Size = RxCapacity + 1 /\ Size \in Nat
      /\ p \in Seq(Bytes) /\ Len(p) \in Nat
  BY ReceiveAssumption DEF Size, Bytes
<1>2. /\ rx \in [0..RxCapacity -> Bytes]
      /\ rxWrite \in 0..RxCapacity /\ rxRead \in 0..RxCapacity
      /\ stored \in Seq(Bytes)
  BY DEF RingInv
<1>9. \A n \in 1..Held : rx[Along(rxRead, n - 1)] = stored[consumed + n]
  BY DEF RingInv
<1>3. /\ Held \in 0..RxCapacity /\ Free = RxCapacity - Held
      /\ Held = (IF rxRead <= rxWrite THEN rxWrite - rxRead ELSE rxWrite + Size - rxRead)
      /\ Held \in Nat /\ consumed \in Nat /\ Len(stored) = consumed + Held
  BY <1>1, <1>2, FreeIs DEF RingInv
<1>4. rxRead' = rxRead /\ consumed' = consumed
  BY DEF Receive
<1>10. /\ RxCapacity \in Nat /\ Size = RxCapacity + 1 /\ Len(p) \in Nat
       /\ Held \in Nat /\ Held <= RxCapacity
       /\ rxWrite \in Nat /\ rxWrite <= RxCapacity /\ rxRead \in Nat /\ rxRead <= RxCapacity
       /\ Held = (IF rxRead <= rxWrite THEN rxWrite - rxRead ELSE rxWrite + Size - rxRead)
  BY <1>1, <1>2, <1>3
<1>5. CASE UNCHANGED <<rx, rxWrite, stored>>
  <2>1. Held' = Held
    BY <1>4, <1>5 DEF Held
  <2>2. \A n \in 1..Held : rx'[Along(rxRead', n - 1)] = rx[Along(rxRead, n - 1)]
    BY <1>4, <1>5 DEF Along
  <2> QED
    BY <1>2, <1>3, <1>4, <1>5, <1>9, <2>1, <2>2 DEF RingInv
<1>6. CASE ~(Len(p) > RxCapacity \/ Len(p) > Free)
  <2> DEFINE Nth(i) == 1 + ((i + Size - rxWrite) % Size)
             new == [i \in 0..RxCapacity |->
                       IF Nth(i) \in DOMAIN p THEN p[Nth(i)] ELSE rx[i]]
  <2>1. rx' = new /\ stored' = stored \o p
    BY <1>6 DEF Receive
  <2>2. Len(p) <= RxCapacity - Held /\ Len(p) \in 0..RxCapacity
    BY <1>1, <1>3, <1>6
  <2>3. DOMAIN p = 1..Len(p) /\ \A n \in 1..Len(p) : p[n] \in Bytes
    BY <1>1
  <2>4. new \in [0..RxCapacity -> Bytes]
    BY <1>2, <2>3
  <2>5. \A i \in 0..RxCapacity :
          Nth(i) = 1 + (IF rxWrite <= i THEN i - rxWrite ELSE i + Size - rxWrite)
    BY <1>2, DistanceIs
  <2>6. /\ rxWrite' \in 0..RxCapacity
        /\ rxWrite' = (IF rxWrite + Len(p) < Size THEN rxWrite + Len(p) ELSE rxWrite + Len(p) - Size)
    <3>1. rxWrite' = Along(rxWrite, Len(p))
      BY <1>6 DEF Receive
    <3>2. Len(p) \in 0..Size
      BY <1>10, <2>2
    <3> QED
      BY <1>2, <3>1, <3>2, AlongIs
  <2>7. Held' = (IF rxRead <= rxWrite' THEN rxWrite' - rxRead ELSE rxWrite' + Size - rxRead)
    BY <1>2, <1>4, <2>6, DistanceIs DEF Held
  <2>8. Held' = Held + Len(p)
    <3>1. rxWrite' \in Nat /\ rxWrite' <= RxCapacity
      BY <1>10, <2>6
    <3> QED
      <4> HIDE DEF Nth, new
      <4>1. Len(p) <= RxCapacity - Held
        BY <2>2
      <4>2. CASE rxRead <= rxWrite /\ rxWrite + Len(p) < Size
        <5>1. rxWrite' = rxWrite + Len(p) /\ rxRead <= rxWrite' /\ Held = rxWrite - rxRead
          BY <1>10, <2>6, <4>2
        <5> QED
          BY <1>10, <2>7, <5>1
      <4>3. CASE rxRead <= rxWrite /\ ~(rxWrite + Len(p) < Size)
        <5>1. rxWrite' = rxWrite + Len(p) - Size /\ ~(rxRead <= rxWrite') /\ Held = rxWrite - rxRead
          BY <1>10, <2>6, <4>1, <4>3
        <5> QED
          BY <1>10, <2>7, <5>1
      <4>4. CASE ~(rxRead <= rxWrite)
        <5>1. rxWrite' = rxWrite + Len(p) /\ ~(rxRead <= rxWrite') /\ Held = rxWrite + Size - rxRead
          BY <1>10, <2>6, <4>1, <4>4
        <5> QED
          BY <1>10, <2>7, <5>1
      <4> QED
        BY <4>2, <4>3, <4>4
  <2>9. /\ stored' \in Seq(Bytes) /\ Len(stored') = Len(stored) + Len(p)
        /\ \A n \in 1..(Len(stored) + Len(p)) :
             stored'[n] = IF n <= Len(stored) THEN stored[n]
                          ELSE p[n - Len(stored)]
    BY <1>1, <1>2, <2>1, ConcatProperties
  <2>10. ASSUME NEW n \in 1..(Held + Len(p))
         PROVE  rx'[Along(rxRead', n - 1)] = stored'[consumed' + n]
    <3> DEFINE i == Along(rxRead, n - 1)
    <3>1. n - 1 \in 0..Size /\ n \in Nat
      BY <1>1, <1>3, <2>2
    <3>2. /\ i \in 0..RxCapacity
          /\ i = (IF rxRead + (n - 1) < Size THEN rxRead + (n - 1) ELSE rxRead + (n - 1) - Size)
      BY <1>2, <3>1, AlongIs
    <3>3. Along(rxRead', n - 1) = i
      BY <1>4 DEF Along
    <3> HIDE DEF i
    <3>4. Nth(i) = 1 + (IF rxWrite <= i THEN i - rxWrite ELSE i + Size - rxWrite)
      BY <2>5, <3>2
    <3>5. rx'[i] = IF Nth(i) \in 1..Len(p) THEN p[Nth(i)] ELSE rx[i]
      BY <2>1, <2>3, <3>2
    <3>6. consumed + n \in 1..(Len(stored) + Len(p))
      BY <1>2, <1>3, <2>2, <3>1
    <3> HIDE DEF Nth
    <3>7. CASE n <= Held
      <4>1. Nth(i) > Len(p) /\ Nth(i) \in Nat
        BY <1>10, <2>2, <3>1, <3>2, <3>4, <3>7
      <4>2. rx'[i] = rx[i]
        BY <1>1, <3>5, <4>1
      <4>3. rx[i] = stored[consumed + n]
        BY <1>3, <1>9, <3>1, <3>7 DEF i
      <4>4. stored'[consumed + n] = stored[consumed + n]
        <5>1. consumed + n <= Len(stored)
          BY <1>3, <3>1, <3>7
        <5> QED
          BY <2>9, <3>6, <5>1
      <4> QED
        BY <1>4, <3>3, <4>2, <4>3, <4>4
    <3>8. CASE n > Held
      <4>1. Nth(i) = n - Held /\ n - Held \in 1..Len(p)
        BY <1>10, <2>2, <3>1, <3>2, <3>4, <3>8
      <4>2. rx'[i] = p[n - Held]
        BY <3>5, <4>1
      <4>3. consumed + n > Len(stored) /\ consumed + n - Len(stored) = n - Held
        BY <1>3, <3>1, <3>8
      <4>4. stored'[consumed + n] = p[n - Held]
        <5>1. ~(consumed + n <= Len(stored))
          BY <1>3, <3>1, <4>3
        <5> QED
          <6> DEFINE k == consumed + n
          <6>1. k \in 1..(Len(stored) + Len(p))
            BY <3>6
          <6>2. ~(k <= Len(stored))
            BY <5>1
          <6>3. k - Len(stored) = n - Held
            BY <1>3, <3>1
          <6> HIDE DEF k
          <6>4. stored'[k] = p[k - Len(stored)]
            BY <2>9, <6>1, <6>2
          <6>5. stored'[k] = p[n - Held]
            BY <6>3, <6>4
          <6> QED
            BY <6>5 DEF k
      <4> QED
        BY <1>4, <3>3, <4>2, <4>4
    <3> QED
      BY <1>3, <3>1, <3>7, <3>8
  <2>11. Len(stored') = consumed' + Held'
    BY <1>1, <1>3, <1>4, <2>8, <2>9
  <2>12. \A n \in 1..Held' : rx'[Along(rxRead', n - 1)] = stored'[consumed' + n]
    BY <2>8, <2>10
  <2>13. rx' \in [0..RxCapacity -> Bytes]
    BY <2>1, <2>4
  <2>14. \A n \in 1..Held' : rx'[Along(rxRead, n - 1)'] = stored'[consumed' + n]
    BY <2>12 DEF Along, Size
  <2> QED
    BY <1>2, <1>3, <1>4, <2>6, <2>9, <2>11, <2>13, <2>14 DEF RingInv
<1> QED
  BY <1>5, <1>6 DEF Receive

\* A byte that is read is the oldest one that was not taken.
LEMMA RingByte ==
  ASSUME RingInv, Byte
  PROVE  RingInv'
<1>1. RxCapacity \in Nat /\ Size = RxCapacity + 1 /\ Size \in Nat /\ 1 \in 0..Size
  BY ReceiveAssumption DEF Size
<1>2. /\ rx \in [0..RxCapacity -> Bytes]
      /\ rxWrite \in 0..RxCapacity /\ rxRead \in 0..RxCapacity
      /\ stored \in Seq(Bytes) /\ consumed \in Nat
      /\ Len(stored) = consumed + Held
      /\ \A n \in 1..Held : rx[Along(rxRead, n - 1)] = stored[consumed + n]
  BY DEF RingInv
<1>3. /\ Held \in 0..RxCapacity
      /\ Held = (IF rxRead <= rxWrite THEN rxWrite - rxRead ELSE rxWrite + Size - rxRead)
  BY <1>2, FreeIs
<1>4. /\ rxRead # rxWrite /\ rxRead' = Along(rxRead, 1) /\ consumed' = consumed + 1
      /\ rx' = rx /\ rxWrite' = rxWrite /\ stored' = stored
  BY DEF Byte
<1>5. /\ rxRead' \in 0..RxCapacity
      /\ rxRead' = (IF rxRead + 1 < Size THEN rxRead + 1 ELSE rxRead + 1 - Size)
  BY <1>1, <1>2, <1>4, AlongIs
<1>6. Held' = (IF rxRead' <= rxWrite THEN rxWrite - rxRead' ELSE rxWrite + Size - rxRead')
  BY <1>2, <1>4, <1>5, DistanceIs DEF Held
<1>7. Held >= 1 /\ Held' = Held - 1
  BY <1>1, <1>2, <1>3, <1>4, <1>5, <1>6
<1>8. ASSUME NEW n \in 1..(Held - 1)
      PROVE  rx'[Along(rxRead, n - 1)'] = stored'[consumed' + n]
  <2>1. n \in Nat /\ n + 1 \in 1..Held /\ n \in 0..Size /\ n - 1 \in 0..Size
    BY <1>1, <1>3
  <2>2. /\ Along(rxRead', n - 1) = (IF rxRead' + (n - 1) < Size THEN rxRead' + (n - 1)
                               ELSE rxRead' + (n - 1) - Size)
        /\ Along(rxRead, n) = (IF rxRead + n < Size THEN rxRead + n ELSE rxRead + n - Size)
    BY <1>2, <1>5, <2>1, AlongIs
  <2>3. Along(rxRead', n - 1) = Along(rxRead, n)
    BY <1>1, <1>2, <1>5, <2>1, <2>2
  <2>4. Along(rxRead, n - 1)' = Along(rxRead', n - 1)
    BY DEF Along, Size
  <2>5. rx[Along(rxRead, (n + 1) - 1)] = stored[consumed + (n + 1)]
    BY <1>2, <2>1
  <2>6. (n + 1) - 1 = n /\ consumed + (n + 1) = (consumed + 1) + n
    BY <1>2, <2>1
  <2> QED
    BY <1>4, <2>3, <2>4, <2>5, <2>6
<1>9. Len(stored') = consumed' + Held'
  BY <1>2, <1>3, <1>4, <1>7
<1>10. \A n \in 1..Held' : rx'[Along(rxRead, n - 1)'] = stored'[consumed' + n]
  BY <1>7, <1>8
<1> QED
  BY <1>2, <1>4, <1>5, <1>9, <1>10 DEF RingInv

\* Every step keeps the ring and what was stored in step.
LEMMA RingStep == RingInv /\ [RxNext]_rxVars => RingInv'
<1> SUFFICES ASSUME RingInv, [RxNext]_rxVars
             PROVE  RingInv'
  OBVIOUS
<1>1. CASE RxNext
  BY <1>1, RingReceive, RingByte DEF RxNext
<1>2. CASE UNCHANGED rxVars
  BY <1>2 DEF rxVars, RingInv, Held, Along
<1> QED
  BY <1>1, <1>2

\* The invariant says what UnreadIsStored says.
LEMMA RingHoldsTheRest == RingInv => UnreadIsStored
<1> SUFFICES ASSUME RingInv
             PROVE  Read \o Unread = stored
  BY DEF UnreadIsStored
<1>1. RxCapacity \in Nat /\ Size = RxCapacity + 1 /\ Size \in Nat
  BY ReceiveAssumption DEF Size
<1>2. /\ rx \in [0..RxCapacity -> Bytes]
      /\ rxWrite \in 0..RxCapacity /\ rxRead \in 0..RxCapacity
      /\ stored \in Seq(Bytes) /\ consumed \in Nat
      /\ Len(stored) = consumed + Held
      /\ \A n \in 1..Held : rx[Along(rxRead, n - 1)] = stored[consumed + n]
  BY DEF RingInv
<1>3. Held \in 0..RxCapacity
  BY <1>2, FreeIs
<1>4. \A n \in 1..Held : Along(rxRead, n - 1) \in 0..RxCapacity
  <2>1. \A n \in 1..Held : n - 1 \in 0..Size
    BY <1>1, <1>3
  <2> QED
    BY <1>2, <2>1, AlongIs
<1>5. Unread = [n \in 1..Held |-> rx[Along(rxRead, n - 1)]]
  BY DEF Unread, Held
<1>6. /\ Unread \in Seq(Bytes) /\ Len(Unread) = Held
      /\ \A n \in 1..Held : Unread[n] = stored[consumed + n]
  BY <1>2, <1>3, <1>4, <1>5
<1>7. /\ Read \in Seq(Bytes) /\ Len(Read) = consumed
      /\ \A n \in 1..consumed : Read[n] = stored[n]
  BY <1>2, <1>3 DEF Read
<1> DEFINE all == Read \o Unread
<1>8. /\ all \in Seq(Bytes) /\ Len(all) = consumed + Held
      /\ \A n \in 1..(consumed + Held) :
           all[n] = IF n <= consumed THEN Read[n] ELSE Unread[n - consumed]
  BY <1>6, <1>7, ConcatProperties, ZenonT(30)
<1> HIDE DEF all
<1>9. ASSUME NEW n \in 1..Len(stored)
      PROVE  all[n] = stored[n]
  <2>1. CASE n <= consumed
    BY <1>2, <1>7, <1>8, <2>1
  <2>2. CASE n > consumed
    <3>1. n - consumed \in 1..Held /\ consumed + (n - consumed) = n
      BY <1>2, <1>3, <2>2
    <3> QED
      BY <1>2, <1>3, <1>6, <1>8, <2>2, <3>1
  <2> QED
    BY <1>2, <2>1, <2>2
<1>10. all = stored
  BY <1>2, <1>8, <1>9, SeqEqual
<1> QED
  BY <1>10 DEF all

\* RingInv is an invariant of the receive path.
THEOREM RingInvariance == RxSpec => []RingInv
<1> QED
  BY RingInit, RingStep, PTL DEF RxSpec

\* UnreadIsStored holds for every capacity and every stream of packets: the
\* interrupt never overwrites a byte the task has not read, and the task never
\* reads one twice, wherever the two indices wrap.
THEOREM NothingUnreadIsLost == RxSpec => []UnreadIsStored
<1> QED
  BY RingInvariance, RingHoldsTheRest, PTL
=============================================================================
