----------------------------- MODULE MotorProofs -----------------------------
(***************************************************************************)
(* Proofs about parameter traffic: that no answer is taken for feedback or  *)
(* for the answer to another sequence, that a verified mode is the mode of  *)
(* the drive, and that a discovery ends before its deadline, for any number *)
(* of joints and registers, any timeout, attempts and capacity.             *)
(*                                                                          *)
(* The argument in short.  An answer is younger than the timeout, so the    *)
(* entry that covers it is live: an answer without an entry must come from  *)
(* a discovery that was started over.  While a discovery of an action runs  *)
(* nothing is in quarantine, so at most one such orphan is ever on the wire *)
(* beside the current request.  It may be taken for that request's answer,  *)
(* and then the two change places; but it was sent while the joint was not  *)
(* yet discovered, before any mode write, and so tells the truth.           *)
(***************************************************************************)
EXTENDS MotorParameter, SequenceTheorems, FiniteSetTheorems,
        WellFoundedInduction, TLAPS

Ops == {"read", "write"}
Values == Modes \cup {"BAD", None}
FinalRegister == Registers[Len(Registers)]

Item == [source : Sequence, op : Ops, register : Fields, mode : Values,
         answered : BOOLEAN, age : 0..Delay, fate : Fates]
TableEntry == [source : Sequence, joint : Joints, op : Ops, register : Fields,
               age : 0..Timeout, quarantined : BOOLEAN]
DiscoveryState ==
  [state : {"READY", "WAITING", "FAILED", "COMPLETE"}, target : SUBSET Joints,
   joint : 1..(N + 1), register : 1..Len(Registers), attempts : Nat,
   age : 0..Timeout, active : BOOLEAN]
SwitchState ==
  [state : Switching \cup {"IDLE", "FAILED", "COMPLETE"}, mode : Modes \cup {None},
   mask : SUBSET Joints, joint : 1..(N + 1), attempts : Nat, rollover : BOOLEAN,
   age : 0..Timeout]
ActionState ==
  [kind : {"IDLE", "DISCOVERY", "MODE"}, shot : BOOLEAN, mask : SUBSET Joints,
   mode : Modes \cup {None}, elapsed : Nat]

ResultsType ==
  /\ verified \in [Joints -> SUBSET Fields]
  /\ complete \subseteq Joints
  /\ observed \in [Joints -> Values]
TablesType == expectations \in Seq(TableEntry) /\ quarantine \in Seq(TableEntry)
TurnType == turn \in {"service", "pump", "network"}
DriveType == drive \in [Joints -> Modes \cup {"BAD"}]
WireType == wire \in [Joints -> Seq(Item)]

TypeOK ==
  /\ discovery \in DiscoveryState
  /\ ResultsType
  /\ switch \in SwitchState
  /\ TablesType
  /\ action \in ActionState
  /\ TurnType
  /\ DriveType
  /\ WireType
-----------------------------------------------------------------------------
(* What is said of an item x on the wire of joint j, and of an entry e.     *)

\* The requests a source sends.
Shaped(x) ==
  /\ x.source = "MODE_WRITE" <=> x.op = "write"
  /\ x.source \in ModeSources => x.register = "mode"
Alike(x, y) == x.op = y.op /\ x.register = y.register
Of(e, j, x) == e.joint = j /\ Alike(e, x)
Own(x) == x.fate = "current"
Sound(x) == x.fate # "orphan"
ModeRead(x) == x.source = "DISCOVERY" /\ x.register = "mode"

\* Only live entries count.
Alive(s) == {e \in ToSet(s) : e.age < Timeout}
Table == Alive(expectations) \cup Alive(quarantine)
Unique(s) ==
  \A m, n \in DOMAIN s : s[m].source = s[n].source /\ Same(s[m], s[n]) => m = n

\* A current item has an entry of its own, not quarantined.
CoveredCurrent(j, x, live) ==
  \E e \in live :
    e.source = x.source /\ Of(e, j, x) /\ ~e.quarantined /\ e.age <= x.age
\* A stale one has a tombstone, one of its own source if a mode switch sent it: a
\* discovery that starts over takes the tombstones of its predecessor away.
CoveredStale(j, x, table) ==
  \E e \in table :
    /\ Of(e, j, x) /\ e.quarantined /\ e.age <= x.age
    /\ x.source \in ModeSources => e.source = x.source
\* Two stale ones have two.
CoveredTwice(j, x, y, table) ==
  \E e, f \in table :
    /\ e.source # f.source /\ Of(e, j, x) /\ Of(f, j, x)
    /\ e.quarantined /\ f.quarantined
    /\ e.age <= x.age /\ e.age <= y.age /\ f.age <= x.age /\ f.age <= y.age

Requesting == discovery.state \in {"READY", "WAITING"}
Pending == {j \in discovery.target : Requesting /\ j >= discovery.joint}
IsAsked(j, x, d) ==
  /\ j = d.joint /\ x.register = Registers[d.register] /\ x.op = "read"
-----------------------------------------------------------------------------
(* The parts of the invariant.                                              *)

\* Tables.
TableOK(s) == \A e \in ToSet(s) : Shaped(e)
TablesOK ==
  /\ Len(expectations) <= Capacity
  /\ TableOK(expectations) /\ TableOK(quarantine)
  /\ \A e \in ToSet(quarantine) : e.quarantined
  /\ Unique(expectations)

\* The order of the wire: drives answer in order; modes are read by a discovery
\* only behind the requests of mode switches; a current request is the last of a
\* discovery, and behind every write.
WireOK ==
  \A j \in Joints : \A k \in DOMAIN wire[j] :
    /\ Shaped(wire[j][k])
    /\ wire[j][k].source \in ModeSources => Sound(wire[j][k])
    /\ wire[j][k].op = "write" => wire[j][k].mode \in Modes
AnsweredOK ==
  \A j \in Joints : \A k, n \in DOMAIN wire[j] :
    n < k /\ wire[j][k].answered => wire[j][n].answered
OrderOK ==
  \A j \in Joints : \A k, n \in DOMAIN wire[j] :
    n < k =>
      /\ wire[j][k].source \in ModeSources => ~ModeRead(wire[j][n])
      /\ wire[j][n].source = "DISCOVERY" /\ Own(wire[j][n]) =>
           wire[j][k].source # "DISCOVERY"
      /\ wire[j][n].source = "MODE_READ" /\ Own(wire[j][n]) =>
           wire[j][k].op # "write"

\* Two items that ask the same.
Twins ==
  \A j \in Joints : \A k, n \in DOMAIN wire[j] :
    k < n /\ Alike(wire[j][k], wire[j][n]) /\ Sound(wire[j][k]) /\ Sound(wire[j][n]) =>
      /\ wire[j][k].source = "MODE_READ" /\ wire[j][n].source = "DISCOVERY"
      /\ wire[j][k].fate = wire[j][n].fate
      /\ wire[j][k].fate = "stale" => CoveredTwice(j, wire[j][k], wire[j][n], Table)

Covered ==
  \A j \in Joints : \A k \in DOMAIN wire[j] :
    /\ wire[j][k].fate = "current" => CoveredCurrent(j, wire[j][k], Alive(expectations))
    /\ wire[j][k].fate = "stale" => CoveredStale(j, wire[j][k], Table)

\* An entry that is not quarantined covers nothing stale; that of a discovery is
\* the entry of its current request.
Fresh ==
  \A e \in Alive(expectations) : ~e.quarantined =>
    /\ \A k \in DOMAIN wire[e.joint] :
         Alike(e, wire[e.joint][k]) => wire[e.joint][k].fate # "stale"
    /\ e.source = "DISCOVERY" =>
         discovery.state = "WAITING" /\ IsAsked(e.joint, e, discovery) /\ discovery.age <= e.age

\* What is current belongs to the request its sequence is at.
CurrentOK ==
  \A j \in Joints : \A k \in DOMAIN wire[j] : Own(wire[j][k]) =>
    /\ wire[j][k].source = "DISCOVERY" =>
         /\ discovery.state = "WAITING" /\ IsAsked(j, wire[j][k], discovery)
         /\ discovery.age <= wire[j][k].age
    /\ wire[j][k].source = "MODE_READ" =>
         /\ switch.state = "READ_WAITING" /\ switch.joint = j
         /\ switch.age <= wire[j][k].age
    /\ wire[j][k].source = "MODE_WRITE" /\ switch.state = "WRITING" => j < switch.joint

\* Never three requests of discoveries at a time, and two only if one of them is
\* current, or as long as a tombstone keeps the next from being sent: one that no
\* item of a mode switch can take away before both are gone.
At(j, k) == j \in Joints /\ k \in DOMAIN wire[j] /\ wire[j][k].source = "DISCOVERY"
NoThree ==
  \A i, j, l \in Joints :
    \A k \in DOMAIN wire[i], n \in DOMAIN wire[j], m \in DOMAIN wire[l] :
      At(i, k) /\ At(j, n) /\ At(l, m) =>
        (i = j /\ k = n) \/ (i = l /\ k = m) \/ (j = l /\ n = m)
Locks(x, y, dead, w) ==
  \E e \in dead :
    /\ e.age <= x.age /\ e.age <= y.age
    /\ \A m \in DOMAIN w[e.joint] :
         w[e.joint][m].source \in ModeSources /\ Alike(e, w[e.joint][m]) =>
           \E f \in dead :
             f.source # e.source /\ Same(f, e) /\ f.age <= x.age /\ f.age <= y.age
Locked ==
  \A i, j \in Joints : \A k \in DOMAIN wire[i], n \in DOMAIN wire[j] :
    /\ At(i, k) /\ At(j, n) /\ ~(i = j /\ k = n)
    /\ ~Own(wire[i][k]) /\ ~Own(wire[j][n])
    => Locks(wire[i][k], wire[j][n], Alive(quarantine), wire)

\* The discovery of an action.
ActiveOK ==
  /\ discovery.active => Requesting /\ action.kind = "DISCOVERY"
  /\ Requesting /\ action.kind = "DISCOVERY" => discovery.active
  /\ discovery.active /\ discovery.state = "WAITING" => ~Blocks

\* The discovery from the start, before any action asks for one.
BootOK ==
  Requesting /\ ~discovery.active =>
    /\ \A j \in Joints : \A k \in DOMAIN wire[j] : At(j, k) =>
         /\ discovery.state = "WAITING" /\ Sound(wire[j][k])
         /\ discovery.age <= wire[j][k].age
    /\ \A i, j \in Joints : \A k \in DOMAIN wire[i], n \in DOMAIN wire[j] :
         At(i, k) /\ At(j, n) => i = j /\ k = n
    /\ \A j \in Pending : \A k \in DOMAIN wire[j] : wire[j][k].source \notin ModeSources

\* What is verified.
VerifiedOK ==
  /\ \A j \in complete : verified[j] = Fields
  /\ Requesting => discovery.joint \in discovery.target
  /\ \A j \in Pending : FinalRegister \notin verified[j]
ReadWhilePending ==
  \A j \in Joints : \A k \in DOMAIN wire[j] :
    ModeRead(wire[j][k]) => FinalRegister \notin verified[j]
ModeTrue ==
  \A j \in Joints : "mode" \in verified[j] =>
    /\ observed[j] = drive[j]
    /\ \A k \in DOMAIN wire[j] : wire[j][k].op = "write" => wire[j][k].answered

\* An answer that may be taken tells the truth.
ReadTrue ==
  \A j \in Joints : \A k \in DOMAIN wire[j] :
    /\ ModeRead(wire[j][k]) \/ (wire[j][k].source = "MODE_READ" /\ Own(wire[j][k]))
    /\ wire[j][k].answered
    => wire[j][k].mode = drive[j]

\* The mode switch of an action.
SwitchOK ==
  /\ action.kind # "IDLE" => action.mask # {} /\ action.mode \in Modes
  /\ switch.state \in Switching => switch.joint \in switch.mask /\ switch.mode \in Modes
  /\ switch.state \in {"WRITING", "READ_READY"} => switch.age = 0
  /\ action.kind = "MODE" /\ switch.state \in Switching =>
       \A j \in switch.mask :
         /\ FinalRegister \in verified[j]
         /\ switch.state = "WRITING" => "mode" \notin verified[j]

\* How far a discovery is.
ProgressOK ==
  action.kind = "DISCOVERY" =>
    /\ Requesting \/ discovery.state = "FAILED"
         \/ (discovery.state = "COMPLETE" /\ action.mask \subseteq complete)
    /\ Requesting => action.mask \subseteq complete \cup Pending
    /\ Requesting => \A n \in 1..(discovery.register - 1) :
                       Registers[n] \in verified[discovery.joint]
    /\ turn = "pump" => Requesting

\* The time it took: every attempt counts as one timeout, and the first may have
\* had to wait for the tombstones of earlier sequences.
Slot(j, r, n) == ((j - 1) * Len(Registers) + (r - 1)) * Attempts + n
Budget(slots) == Timeout * (1 + slots)
Slots == N * Len(Registers) * Attempts
TimeOK ==
  action.kind = "DISCOVERY" =>
    /\ discovery.state = "READY" =>
         /\ discovery.attempts = 0
         /\ action.elapsed + (IF turn = "network" THEN 1 ELSE 0)
              <= Budget(Slot(discovery.joint, discovery.register, 0))
    /\ discovery.state = "WAITING" =>
         /\ discovery.attempts \in 1..Attempts
         /\ turn = "network" => discovery.age < Timeout
         /\ action.elapsed <= discovery.age
              + Budget(Slot(discovery.joint, discovery.register, discovery.attempts - 1))
    /\ ~Requesting =>
         action.elapsed + (IF turn = "network" THEN 1 ELSE 0) <= Budget(Slots) + 1
    /\ discovery.active =>
         \A e \in Tombstones : action.elapsed <= e.age

\* The requests and their answers; and the course of the sequences.
Traffic ==
  /\ WireOK /\ AnsweredOK /\ OrderOK /\ Twins /\ Covered /\ Fresh /\ CurrentOK
  /\ NoThree /\ Locked /\ BootOK /\ VerifiedOK /\ ReadWhilePending /\ ModeTrue /\ ReadTrue
Course == ActiveOK /\ SwitchOK /\ ProgressOK /\ TimeOK
IInv == TypeOK /\ TablesOK /\ Traffic /\ Course
-----------------------------------------------------------------------------
(* Numbers and sequences.                                                   *)

\* The constants that are numbers.
LEMMA Counts ==
  /\ N \in Nat /\ N >= 1 /\ Timeout \in Nat /\ Timeout >= 1
  /\ Attempts \in Nat /\ Attempts >= 1 /\ Capacity \in Nat /\ Capacity >= 1
  /\ Delay \in Nat /\ Delay < Timeout
  /\ DiscoveryTicks \in Nat /\ ActionTicks \in Nat
<1>1. {N, Timeout, Attempts, Capacity, DiscoveryTicks, ActionTicks} \subseteq Nat \ {0}
  BY ParameterAssumption
<1>2. Delay \in Nat
  BY ParameterAssumption
<1>3. Delay < Timeout
  BY TimingAssumption
<1> QED
  BY <1>1, <1>2, <1>3

\* The constants.
LEMMA Numbers ==
  /\ N \in Nat /\ N >= 1 /\ Timeout \in Nat /\ Timeout >= 1
  /\ Attempts \in Nat /\ Attempts >= 1 /\ Capacity \in Nat /\ Capacity >= 1
  /\ Delay \in Nat /\ Delay < Timeout
  /\ DiscoveryTicks \in Nat /\ ActionTicks \in Nat
  /\ Len(Registers) \in Nat /\ Len(Registers) >= 1
  /\ DOMAIN Registers = 1..Len(Registers)
  /\ \A n \in 1..Len(Registers) : Registers[n] \in Fields
  /\ Fields = {Registers[n] : n \in 1..Len(Registers)}
  /\ "mode" \in Fields /\ FinalRegister \in Fields /\ FinalRegister # "mode"
<1>1. /\ N \in Nat /\ N >= 1 /\ Timeout \in Nat /\ Timeout >= 1
      /\ Attempts \in Nat /\ Attempts >= 1 /\ Capacity \in Nat /\ Capacity >= 1
      /\ Delay \in Nat /\ Delay < Timeout
      /\ DiscoveryTicks \in Nat /\ ActionTicks \in Nat
  BY Counts
<1>2. Registers \in Seq(STRING) /\ "mode" \in Fields
  BY ParameterAssumption
<1>3. Len(Registers) \in Nat /\ DOMAIN Registers = 1..Len(Registers)
  BY <1>2
<1>4. Fields = {Registers[n] : n \in 1..Len(Registers)}
  BY <1>3 DEF Fields, ToSet
<1>5. Len(Registers) >= 1
  BY <1>2, <1>3, <1>4
<1>6. Len(Registers) \in 1..Len(Registers)
  BY <1>3, <1>5
<1>7. FinalRegister \in Fields /\ FinalRegister # "mode"
  BY <1>4, <1>6, TimingAssumption DEF FinalRegister
<1> QED
  BY <1>1, <1>2, <1>3, <1>4, <1>5, <1>7

\* A set of natural numbers has a least element.
LEMMA Least ==
  ASSUME NEW T, T \subseteq Nat, T # {}
  PROVE  \E n \in T : \A m \in T : n <= m
<1> DEFINE R == OpToRel(<, Nat)
<1>1. IsWellFoundedOn(R, Nat)
  BY NatLessThanWellFounded
<1>2. \A a, b \in Nat : a < b => <<a, b>> \in R
  BY DEF OpToRel
<1> HIDE DEF R
<1>3. \E n \in T : \A m \in T : ~(<<m, n>> \in R)
  BY <1>1, WFMin, Zenon
<1>4. ASSUME NEW n \in T, \A m \in T : ~(<<m, n>> \in R), NEW m \in T
      PROVE  n <= m
  <2>1. n \in Nat /\ m \in Nat
    OBVIOUS
  <2>2. ~(m < n)
    BY <1>2, <1>4, <2>1
  <2> QED
    BY <2>1, <2>2
<1> QED
  BY <1>3, <1>4

\* What holds at zero and is passed on holds up to M.
LEMMA Climb ==
  ASSUME NEW M \in Nat, NEW T, 0 \in T,
         \A n \in 1..M : n - 1 \in T => n \in T
  PROVE  0..M \subseteq T
<1> DEFINE U == (0..M) \ T
<1>1. SUFFICES ASSUME U # {} PROVE FALSE
  OBVIOUS
<1>2. U \subseteq Nat
  OBVIOUS
<1>3. PICK n \in U : \A m \in U : n <= m
  BY <1>1, <1>2, Least
<1>4. n \in 1..M /\ n - 1 \in 0..M /\ ~(n <= n - 1)
  BY <1>3
<1>5. n - 1 \in T
  BY <1>3, <1>4
<1> QED
  BY <1>3, <1>4, <1>5

\* The least element of a set of natural numbers, as Min chooses it.
LEMMA MinIs ==
  ASSUME NEW T, T \subseteq Nat, T # {}
  PROVE  Min(T) \in T /\ \A m \in T : Min(T) <= m
<1>1. \E n \in T : \A m \in T : n <= m
  BY Least
<1> QED
  BY <1>1 DEF Min

\* The first selected joint from a place on.
LEMMA FirstIs ==
  ASSUME NEW mask \in SUBSET Joints, NEW from \in Nat
  PROVE  /\ First(mask, from) \in 1..(N + 1)
         /\ First(mask, from) <= N => First(mask, from) \in mask /\ First(mask, from) >= from
         /\ \A j \in mask : j >= from => First(mask, from) <= j
<1> DEFINE T == {j \in mask : j >= from} \cup {N + 1}
<1>1. N \in Nat /\ Joints = 1..N
  BY Numbers DEF Joints
<1>2. T \subseteq Nat /\ T # {} /\ T \subseteq 1..(N + 1)
  <2>1. mask \subseteq 1..N /\ 1..N \subseteq 1..(N + 1) /\ N + 1 \in 1..(N + 1)
    BY <1>1
  <2>2. T \subseteq 1..(N + 1) /\ N + 1 \in T
    BY <2>1
  <2>3. 1..(N + 1) \subseteq Nat
    BY <1>1
  <2> HIDE DEF T
  <2> QED
    BY <2>2, <2>3
<1>3. Min(T) \in T /\ \A m \in T : Min(T) <= m
  BY <1>2, MinIs
<1>4. First(mask, from) = Min(T)
  BY DEF First
<1> HIDE DEF T
<1>5. First(mask, from) \in T /\ \A m \in T : First(mask, from) <= m
  BY <1>3, <1>4
<1>6. First(mask, from) \in 1..(N + 1)
  BY <1>2, <1>5
<1>7. First(mask, from) <= N => First(mask, from) # N + 1
  BY <1>1, <1>6
<1> QED
  BY <1>5, <1>6, <1>7 DEF T

\* The first selected joint of all.
LEMMA FirstJoint ==
  ASSUME NEW mask \in SUBSET Joints, mask # {}
  PROVE  /\ First(mask, 1) \in mask /\ First(mask, 1) \in 1..(N + 1)
         /\ First(mask, 1) \in 1..N /\ \A j \in mask : j >= First(mask, 1)
<1> DEFINE first == First(mask, 1)
<1>1. N \in Nat /\ 1 \in Nat
  BY Counts
<1>2. PICK j \in mask : TRUE
  OBVIOUS
<1>3. /\ first \in 1..(N + 1) /\ (first <= N => first \in mask)
      /\ \A i \in mask : i >= 1 => first <= i
  BY <1>1, FirstIs
<1>4. \A i \in mask : i \in Nat /\ i >= 1 /\ i <= N
  BY <1>1 DEF Joints
<1> HIDE DEF first
<1>5. first <= j /\ j <= N
  BY <1>2, <1>3, <1>4
<1>6. first <= N
  BY <1>1, <1>2, <1>3, <1>4, <1>5
<1> QED
  BY <1>1, <1>3, <1>4, <1>6 DEF first

\* What a sequence contains.
LEMMA Holds ==
  ASSUME NEW S, NEW s \in Seq(S)
  PROVE  /\ Len(s) \in Nat /\ DOMAIN s = 1..Len(s)
         /\ ToSet(s) \subseteq S
         /\ \A n \in 1..Len(s) : s[n] \in ToSet(s)
         /\ \A e \in ToSet(s) : \E n \in 1..Len(s) : e = s[n]
<1>1. Len(s) \in Nat /\ DOMAIN s = 1..Len(s) /\ \A n \in 1..Len(s) : s[n] \in S
  OBVIOUS
<1> QED
  BY <1>1 DEF ToSet

\* A function over the places of a sequence is a sequence.
LEMMA MapIs ==
  ASSUME NEW S, NEW R, NEW s \in Seq(S), NEW t, DOMAIN t = DOMAIN s,
         t = [k \in DOMAIN s |-> t[k]], \A k \in DOMAIN s : t[k] \in R
  PROVE  t \in Seq(R) /\ Len(t) = Len(s)
<1>1. Len(s) \in Nat /\ DOMAIN s = 1..Len(s)
  OBVIOUS
<1>2. t \in [1..Len(s) -> R]
  BY <1>1
<1>3. t \in Seq(R)
  BY <1>1, <1>2
<1> QED
  BY <1>1, <1>3
-----------------------------------------------------------------------------
(* The tables.                                                              *)

\* The turns of Kept.
LEMMA KeptUnfolds ==
  ASSUME NEW S, NEW s \in Seq(S), NEW keep
  PROVE  \E f : /\ f[0] = <<>> /\ Kept(s, keep) = f[Len(s)]
                /\ \A n \in 1..Len(s) :
                     f[n] = IF s[n] \in keep THEN Append(f[n - 1], s[n]) ELSE f[n - 1]
<1> DEFINE M == Len(s)
           Turn(g, n) == IF n = 0 THEN <<>>
                         ELSE IF s[n] \in keep THEN Append(g[n - 1], s[n]) ELSE g[n - 1]
           Is(g, m) == g = [n \in 0..m |-> Turn(g, n)]
           T == {m \in 0..M : \E g : Is(g, m)}
<1>1. M \in Nat
  OBVIOUS
<1>7. Kept(s, keep) = (CHOOSE g : Is(g, M))[M]
  BY Zenon DEF Kept
<1> HIDE DEF M
<1>2. 0 \in T
  <2> DEFINE g == [n \in 0..0 |-> <<>>]
  <2>1. g = [n \in 0..0 |-> Turn(g, n)]
    OBVIOUS
  <2> HIDE DEF g
  <2> QED
    BY <1>1, <2>1
<1>3. ASSUME NEW m \in 1..M, m - 1 \in T
      PROVE  m \in T
  <2>1. PICK g : Is(g, m - 1)
    BY <1>3
  <2> DEFINE h == [n \in 0..m |-> IF n = m THEN Turn(g, m) ELSE g[n]]
  <2>2. m \in Nat /\ m - 1 \in Nat /\ m # 0 /\ m \in 0..M
    BY <1>1
  <2>3. \A n \in 0..(m - 1) : n # m /\ n \in 0..m
    BY <2>2
  <2>4. \A n \in 0..(m - 1) : h[n] = g[n]
    BY <2>3
  <2>5. \A n \in 0..m : n # 0 => n - 1 \in 0..(m - 1)
    BY <2>2
  <2>6. \A n \in 0..m : h[n] = Turn(h, n)
    <3>1. \A n \in 0..m : Turn(h, n) = Turn(g, n)
      BY <2>4, <2>5
    <3>2. \A n \in 0..(m - 1) : g[n] = Turn(g, n)
      BY <2>1
    <3>3. \A n \in 0..m : n = m \/ n \in 0..(m - 1)
      BY <2>2
    <3>4. h[m] = Turn(g, m)
      BY <2>2
    <3> QED
      BY <2>4, <3>1, <3>2, <3>3, <3>4
  <2>7. Is(h, m)
    BY <2>6
  <2> HIDE DEF h
  <2> QED
    BY <2>2, <2>7
<1> HIDE DEF T
<1>4. M \in T
  <2>1. 0..M \subseteq T
    BY <1>1, <1>2, <1>3, Climb, Zenon
  <2>2. M \in 0..M
    BY <1>1
  <2> QED
    BY <2>1, <2>2
<1>5. \E g : Is(g, M)
  BY <1>4 DEF T
<1> DEFINE f == CHOOSE g : Is(g, M)
<1>6. Is(f, M)
  BY <1>5
<1>8. Kept(s, keep) = f[M]
  BY <1>7
<1> HIDE DEF f
<1>9. f[0] = <<>> /\ \A n \in 1..M : f[n] = Turn(f, n) /\ n # 0
  <2>1. 0 \in 0..M /\ \A n \in 1..M : n \in 0..M /\ n # 0
    BY <1>1
  <2> QED
    BY <1>6, <2>1
<1> QED
  BY <1>8, <1>9 DEF M

\* A kept table holds the entries to keep, each as often as before.
LEMMA KeptIs ==
  ASSUME NEW S, NEW s \in Seq(S), NEW keep
  PROVE  LET t == Kept(s, keep)
         IN /\ t \in Seq(S) /\ Len(t) <= Len(s)
            /\ ToSet(t) = ToSet(s) \cap keep
            /\ \E g \in [1..Len(t) -> 1..Len(s)] :
                 /\ \A k \in 1..Len(t) : t[k] = s[g[k]]
                 /\ \A k, m \in 1..Len(t) : g[k] = g[m] => k = m
<1> DEFINE M == Len(s)
<1>1. PICK f : /\ f[0] = <<>> /\ Kept(s, keep) = f[M]
               /\ \A n \in 1..M :
                    f[n] = IF s[n] \in keep THEN Append(f[n - 1], s[n]) ELSE f[n - 1]
  BY KeptUnfolds
<1>2. M \in Nat /\ \A n \in 1..M : s[n] \in S
  OBVIOUS
<1> DEFINE Good(n) ==
      /\ f[n] \in Seq(S) /\ Len(f[n]) <= n
      /\ \A e : e \in ToSet(f[n]) <=> e \in keep /\ \E i \in 1..n : e = s[i]
      /\ \E g \in [1..Len(f[n]) -> 1..n] :
           /\ \A k \in 1..Len(f[n]) : f[n][k] = s[g[k]]
           /\ \A k, m \in 1..Len(f[n]) : g[k] = g[m] => k = m
           T == {n \in 0..M : Good(n)}
<1>3. 0 \in T
  <2>1. f[0] \in Seq(S) /\ Len(f[0]) = 0 /\ \A e : e \notin ToSet(f[0])
    BY <1>1 DEF ToSet
  <2>2. \E g : g \in [1..0 -> 1..0]
    <3>1. [k \in 1..0 |-> k] \in [1..0 -> 1..0]
      OBVIOUS
    <3> QED
      BY <3>1
  <2> QED
    BY <1>2, <2>1, <2>2
<1>4. ASSUME NEW n \in 1..M, n - 1 \in T
      PROVE  n \in T
  <2> DEFINE a == f[n - 1]
             b == f[n]
  <2>1. /\ n \in Nat /\ n - 1 \in Nat /\ n \in 1..M /\ n \in 0..M
        /\ \A i : i \in 1..n <=> i \in 1..(n - 1) \/ i = n
    BY <1>2
  <2>2. Good(n - 1)
    BY <1>4
  <2>3. PICK g \in [1..Len(a) -> 1..(n - 1)] :
          /\ \A k \in 1..Len(a) : a[k] = s[g[k]]
          /\ \A k, m \in 1..Len(a) : g[k] = g[m] => k = m
    BY <2>2
  <2>4. /\ a \in Seq(S) /\ Len(a) \in Nat /\ Len(a) <= n - 1
        /\ \A e : e \in ToSet(a) <=> e \in keep /\ \E i \in 1..(n - 1) : e = s[i]
    BY <2>2
  <2>5. CASE s[n] \in keep
    <3>1. b = Append(a, s[n])
      BY <1>1, <2>5
    <3>2. b \in Seq(S) /\ Len(b) = Len(a) + 1
          /\ \A k \in 1..Len(b) : b[k] = IF k = Len(a) + 1 THEN s[n] ELSE a[k]
      BY <1>2, <2>4, <3>1
    <3>3. Len(b) <= n
      BY <2>1, <2>4, <3>2
    <3>4. \A k : k \in 1..Len(b) <=> k \in 1..Len(a) \/ k = Len(a) + 1
      BY <2>4, <3>2
    <3>5. Len(a) + 1 \notin 1..Len(a)
      BY <2>4
    <3>6. \A e : e \in ToSet(b) <=> e \in ToSet(a) \/ e = s[n]
      <4>1. \A e : e \in ToSet(b) <=> \E k \in 1..Len(b) : e = b[k]
        BY <3>2, Holds
      <4>2. \A e : e \in ToSet(a) <=> \E k \in 1..Len(a) : e = a[k]
        BY <2>4, Holds
      <4>3. b[Len(a) + 1] = s[n] /\ \A k \in 1..Len(a) : b[k] = a[k]
        BY <3>2, <3>4, <3>5
      <4> DEFINE K == 1..Len(a)
                 L == 1..Len(b)
                 z == Len(a) + 1
      <4>4. z \in L /\ b[z] = s[n] /\ \A k \in L : k \in K \/ k = z
        BY <3>4, <4>3
      <4>5. \A k \in K : k \in L /\ b[k] = a[k]
        BY <3>4, <4>3
      <4>6. /\ \A e : e \in ToSet(b) <=> \E k \in L : e = b[k]
            /\ \A e : e \in ToSet(a) <=> \E k \in K : e = a[k]
        BY <4>1, <4>2
      <4> HIDE DEF a, b, K, L, z
      <4> QED
        BY <4>4, <4>5, <4>6
    <3>7. \A e : e \in ToSet(b) <=> e \in keep /\ \E i \in 1..n : e = s[i]
      <4> HIDE DEF a, b
      <4> QED
        BY <2>1, <2>4, <2>5, <3>6
    <3> DEFINE h == [k \in 1..Len(b) |-> IF k = Len(a) + 1 THEN n ELSE g[k]]
    <3>8. h \in [1..Len(b) -> 1..n]
      BY <2>1, <2>3, <3>4
    <3>9. \A k \in 1..Len(b) : b[k] = s[h[k]]
      BY <2>3, <3>2, <3>4, <3>5
    <3>10. \A k, m \in 1..Len(b) : h[k] = h[m] => k = m
      <4>1. \A k \in 1..Len(a) : g[k] # n
        BY <2>1, <2>3
      <4> QED
        BY <2>3, <3>4, <4>1
    <3> HIDE DEF h
    <3>11. \E g1 \in [1..Len(b) -> 1..n] :
             /\ \A k \in 1..Len(b) : b[k] = s[g1[k]]
             /\ \A k, m \in 1..Len(b) : g1[k] = g1[m] => k = m
      BY <3>8, <3>9, <3>10
    <3> QED
      BY <2>1, <3>2, <3>3, <3>7, <3>11
  <2>6. CASE s[n] \notin keep
    <3>1. b = a
      BY <1>1, <2>6
    <3>2. g \in [1..Len(a) -> 1..n]
      BY <2>1, <2>3
    <3>3. \A e : e \in ToSet(a) <=> e \in keep /\ \E i \in 1..n : e = s[i]
      BY <2>1, <2>4, <2>6
    <3>4. Len(a) <= n
      BY <2>1, <2>4
    <3>5. \E g1 \in [1..Len(b) -> 1..n] :
            /\ \A k \in 1..Len(b) : b[k] = s[g1[k]]
            /\ \A k, m \in 1..Len(b) : g1[k] = g1[m] => k = m
      <4> HIDE DEF a, b
      <4> QED
        BY <2>3, <3>1, <3>2
    <3>6. /\ b \in Seq(S) /\ Len(b) <= n
          /\ \A e : e \in ToSet(b) <=> e \in keep /\ \E i \in 1..n : e = s[i]
      <4> HIDE DEF a, b
      <4> QED
        BY <2>4, <3>1, <3>3, <3>4
    <3> QED
      BY <2>1, <3>5, <3>6
  <2> QED
    BY <2>5, <2>6
<1>5. M \in T
  <2> HIDE DEF T
  <2>1. 0..M \subseteq T
    BY <1>2, <1>3, <1>4, Climb, Zenon
  <2>2. M \in 0..M
    BY <1>2
  <2> QED
    BY <2>1, <2>2
<1>6. Good(M)
  BY <1>5
<1>7. \A e : e \in ToSet(f[M]) <=> e \in keep /\ e \in ToSet(s)
  <2> DEFINE t == f[M]
  <2>1. \A e : e \in ToSet(t) <=> e \in keep /\ \E i \in 1..M : e = s[i]
    BY <1>6
  <2>2. \A e : e \in ToSet(s) <=> \E i \in 1..M : e = s[i]
    <3>1. /\ \A n \in 1..M : s[n] \in ToSet(s)
          /\ \A e \in ToSet(s) : \E n \in 1..M : e = s[n]
      BY Holds
    <3> HIDE DEF M
    <3> QED
      BY <3>1
  <2> HIDE DEF t, M
  <2>3. \A e : e \in ToSet(t) <=> e \in keep /\ e \in ToSet(s)
    BY <2>1, <2>2
  <2> QED
    BY <2>3 DEF t
<1>8. ToSet(f[M]) = ToSet(s) \cap keep
  <2> DEFINE t == f[M]
  <2>1. \A e : e \in ToSet(t) <=> e \in keep /\ e \in ToSet(s)
    BY <1>7
  <2> HIDE DEF t
  <2>2. ToSet(t) = ToSet(s) \cap keep
    BY <2>1
  <2> QED
    BY <2>2 DEF t
<1> DEFINE t == f[M]
<1>9. /\ t \in Seq(S) /\ Len(t) <= M /\ ToSet(t) = ToSet(s) \cap keep
      /\ \E g \in [1..Len(t) -> 1..M] :
           /\ \A k \in 1..Len(t) : t[k] = s[g[k]]
           /\ \A k, m \in 1..Len(t) : g[k] = g[m] => k = m
  <2>1. Good(M) /\ ToSet(t) = ToSet(s) \cap keep
    BY <1>6, <1>8
  <2> QED
    BY <2>1, Zenon
<1>10. Kept(s, keep) = t
  BY <1>1
<1> HIDE DEF t, Good, T
<1> QED
  BY <1>9, <1>10

\* Every request has at most one entry; what is kept of a table has no more.
LEMMA UniqueKept ==
  ASSUME NEW s \in Seq(TableEntry), NEW keep, Unique(s)
  PROVE  Unique(Kept(s, keep))
<1> DEFINE t == Kept(s, keep)
<1>1. PICK g \in [1..Len(t) -> 1..Len(s)] :
        /\ \A k \in 1..Len(t) : t[k] = s[g[k]]
        /\ \A k, m \in 1..Len(t) : g[k] = g[m] => k = m
  BY KeptIs
<1>2. t \in Seq(TableEntry)
  BY KeptIs
<1>3. DOMAIN t = 1..Len(t) /\ DOMAIN s = 1..Len(s)
  BY <1>2
<1> HIDE DEF t
<1>4. ASSUME NEW m \in 1..Len(t), NEW n \in 1..Len(t),
             t[m].source = t[n].source, Same(t[m], t[n])
      PROVE  m = n
  <2>1. g[m] \in DOMAIN s /\ g[n] \in DOMAIN s
    BY <1>1, <1>3
  <2>2. t[m] = s[g[m]] /\ t[n] = s[g[n]]
    BY <1>1
  <2>3. g[m] = g[n]
    BY <1>4, <2>1, <2>2 DEF Unique
  <2> QED
    BY <1>1, <2>3
<1> QED
  BY <1>3, <1>4 DEF Unique, t

\* Expiry leaves the live entries.
LEMMA LiveIs ==
  ASSUME NEW s \in Seq(TableEntry)
  PROVE  /\ Live(s) \in Seq(TableEntry) /\ Len(Live(s)) <= Len(s)
         /\ ToSet(Live(s)) = Alive(s) /\ Alive(Live(s)) = Alive(s)
         /\ Unique(s) => Unique(Live(s))
<1> DEFINE keep == {e \in ToSet(s) : e.age < Timeout}
<1>1. Live(s) = Kept(s, keep)
  BY DEF Live
<1> HIDE DEF keep
<1>2. /\ Live(s) \in Seq(TableEntry) /\ Len(Live(s)) <= Len(s)
      /\ ToSet(Live(s)) = ToSet(s) \cap keep
      /\ Unique(s) => Unique(Live(s))
  BY <1>1, KeptIs, UniqueKept
<1>3. ToSet(Live(s)) = Alive(s)
  BY <1>2 DEF keep, Alive
<1>4. Alive(Live(s)) = Alive(s)
  BY <1>3 DEF Alive
<1> QED
  BY <1>2, <1>3, <1>4

\* One place is taken out of a sequence.
LEMMA RemoveIs ==
  ASSUME NEW S, NEW s \in Seq(S), NEW p \in 1..Len(s)
  PROVE  /\ RemoveAt(s, p) \in Seq(S) /\ Len(RemoveAt(s, p)) = Len(s) - 1
         /\ \A k \in 1..(Len(s) - 1) :
              RemoveAt(s, p)[k] = IF k < p THEN s[k] ELSE s[k + 1]
<1> DEFINE a == SubSeq(s, 1, p - 1)
           b == SubSeq(s, p + 1, Len(s))
<1>1. /\ Len(s) \in Nat /\ p \in Nat /\ p >= 1 /\ p <= Len(s)
      /\ \A i \in 1..Len(s) : s[i] \in S
  OBVIOUS
<1>2. /\ a \in Seq(S) /\ Len(a) = p - 1 /\ \A i \in 1..(p - 1) : a[i] = s[i]
  <2>1. \A i \in 1..(p - 1) : s[i] \in S
    BY <1>1
  <2>2. /\ a \in Seq(S) /\ Len(a) = IF 1 <= p - 1 THEN p - 1 - 1 + 1 ELSE 0
        /\ \A i \in 1..(p - 1 - 1 + 1) : a[i] = s[1 + i - 1]
    BY <1>1, <2>1, SubSeqProperties
  <2> HIDE DEF a
  <2>3. \A i \in 1..(p - 1) : a[i] = s[i]
    <3>1. p - 1 - 1 + 1 = p - 1
      BY <1>1
    <3>2. \A i \in 1..(p - 1) : 1 + i - 1 = i
      BY <1>1
    <3> QED
      BY <2>2, <3>1, <3>2
  <2> QED
    BY <1>1, <2>2, <2>3
<1>3. /\ b \in Seq(S) /\ Len(b) = Len(s) - p
      /\ \A i \in 1..(Len(s) - p) : b[i] = s[p + i]
  <2>1. \A i \in (p + 1)..Len(s) : s[i] \in S
    BY <1>1
  <2>2. /\ b \in Seq(S)
        /\ Len(b) = IF p + 1 <= Len(s) THEN Len(s) - (p + 1) + 1 ELSE 0
        /\ \A i \in 1..(Len(s) - (p + 1) + 1) : b[i] = s[p + 1 + i - 1]
    BY <1>1, <2>1, SubSeqProperties
  <2> HIDE DEF b
  <2>3. \A i \in 1..(Len(s) - p) : b[i] = s[p + i]
    <3>1. Len(s) - (p + 1) + 1 = Len(s) - p
      BY <1>1
    <3>2. \A i \in 1..(Len(s) - p) : p + 1 + i - 1 = p + i
      BY <1>1
    <3> QED
      BY <2>2, <3>1, <3>2
  <2> QED
    BY <1>1, <2>2, <2>3
<1>4. RemoveAt(s, p) = a \o b
  BY DEF RemoveAt
<1> HIDE DEF a, b
<1>5. /\ a \o b \in Seq(S) /\ Len(a \o b) = Len(s) - 1
      /\ \A k \in 1..(Len(s) - 1) :
           (a \o b)[k] = IF k <= p - 1 THEN a[k] ELSE b[k - (p - 1)]
  <2>1. /\ a \o b \in Seq(S) /\ Len(a \o b) = Len(a) + Len(b)
        /\ \A k \in 1..(Len(a) + Len(b)) :
             (a \o b)[k] = IF k <= Len(a) THEN a[k] ELSE b[k - Len(a)]
    BY <1>2, <1>3, ConcatProperties, Zenon
  <2>2. Len(a) = p - 1 /\ Len(a) + Len(b) = Len(s) - 1
    BY <1>1, <1>2, <1>3
  <2> QED
    BY <2>1, <2>2
<1>6. ASSUME NEW k \in 1..(Len(s) - 1)
      PROVE  (a \o b)[k] = IF k < p THEN s[k] ELSE s[k + 1]
  <2>1. CASE k < p
    <3>1. k \in 1..(p - 1) /\ k <= p - 1
      BY <1>1, <2>1
    <3> QED
      BY <1>2, <1>5, <2>1, <3>1
  <2>2. CASE ~(k < p)
    <3>1. k - (p - 1) \in 1..(Len(s) - p) /\ p + (k - (p - 1)) = k + 1 /\ ~(k <= p - 1)
      BY <1>1, <2>2
    <3>2. (a \o b)[k] = b[k - (p - 1)]
      BY <1>5, <3>1
    <3>3. b[k - (p - 1)] = s[k + 1]
      BY <1>3, <3>1
    <3> QED
      BY <2>2, <3>2, <3>3
  <2> QED
    BY <2>1, <2>2
<1> QED
  BY <1>4, <1>5, <1>6

\* An answer takes the first entry out that matches.
LEMMA WithoutIs ==
  ASSUME NEW s \in Seq(TableEntry), NEW T, T \subseteq DOMAIN s
  PROVE  LET t == Without(s, T)
         IN /\ t \in Seq(TableEntry) /\ Len(t) <= Len(s)
            /\ ToSet(t) \subseteq ToSet(s)
            /\ Unique(s) => Unique(t)
            /\ T = {} => t = s
            /\ T # {} => \E p \in T :
                 /\ \A n \in DOMAIN s : n # p => s[n] \in ToSet(t)
                 /\ Unique(s) => s[p] \notin ToSet(t)
<1> DEFINE t == Without(s, T)
<1>1. /\ Len(s) \in Nat /\ DOMAIN s = 1..Len(s)
      /\ \A n \in 1..Len(s) : s[n] \in ToSet(s)
  BY Holds
<1>2. CASE T = {}
  BY <1>1, <1>2 DEF Without
<1>3. CASE T # {}
  <2> DEFINE p == Min(T)
  <2>1. T \subseteq Nat
    BY <1>1
  <2>2. p \in T /\ p \in 1..Len(s)
    BY <1>1, <1>3, <2>1, MinIs
  <2>3. t = RemoveAt(s, p)
    BY <1>3 DEF Without
  <2> HIDE DEF p, t
  <2>4. /\ t \in Seq(TableEntry) /\ Len(t) = Len(s) - 1
        /\ \A k \in 1..(Len(s) - 1) : t[k] = IF k < p THEN s[k] ELSE s[k + 1]
    BY <2>2, <2>3, RemoveIs
  <2>5. /\ DOMAIN t = 1..(Len(s) - 1)
        /\ \A k \in 1..(Len(s) - 1) : t[k] \in ToSet(t)
        /\ \A e \in ToSet(t) : \E k \in 1..(Len(s) - 1) : e = t[k]
    BY <2>4, Holds
  <2> DEFINE g(k) == IF k < p THEN k ELSE k + 1
  <2>6. \A k \in 1..(Len(s) - 1) : g(k) \in 1..Len(s) /\ g(k) # p /\ t[k] = s[g(k)]
    BY <1>1, <2>2, <2>4
  <2>7. \A n \in 1..Len(s) : n # p => \E k \in 1..(Len(s) - 1) : g(k) = n
    <3> TAKE n \in 1..Len(s)
    <3> HAVE n # p
    <3>1. CASE n < p
      <4>1. n \in 1..(Len(s) - 1) /\ g(n) = n
        BY <1>1, <2>2, <3>1
      <4> QED
        BY <4>1
    <3>2. CASE ~(n < p)
      <4>1. n - 1 \in 1..(Len(s) - 1) /\ g(n - 1) = n
        BY <1>1, <2>2, <3>2
      <4> QED
        BY <4>1
    <3> QED
      BY <3>1, <3>2
  <2>8. \A k, m \in 1..(Len(s) - 1) : g(k) = g(m) => k = m
    BY <1>1, <2>2
  <2> HIDE DEF g
  <2>9. ToSet(t) \subseteq ToSet(s)
    BY <1>1, <2>5, <2>6
  <2>10. \A n \in DOMAIN s : n # p => s[n] \in ToSet(t)
    BY <1>1, <2>5, <2>6, <2>7
  <2>11. ASSUME Unique(s)
         PROVE  Unique(t) /\ s[p] \notin ToSet(t)
    <3>1. ASSUME NEW m \in 1..(Len(s) - 1), NEW n \in 1..(Len(s) - 1),
                 t[m].source = t[n].source, Same(t[m], t[n])
          PROVE  m = n
      <4>1. g(m) = g(n)
        BY <1>1, <2>6, <2>11, <3>1 DEF Unique
      <4> QED
        BY <2>8, <4>1
    <3>2. ASSUME NEW k \in 1..(Len(s) - 1), s[p] = t[k]
          PROVE  FALSE
      <4>1. s[p] = s[g(k)] /\ g(k) # p /\ g(k) \in DOMAIN s /\ p \in DOMAIN s
        BY <1>1, <2>2, <2>6, <3>2
      <4>2. s[p].source = s[g(k)].source /\ Same(s[p], s[g(k)])
        BY <4>1 DEF Same
      <4> QED
        BY <2>11, <4>1, <4>2 DEF Unique
    <3> QED
      BY <2>5, <3>1, <3>2 DEF Unique
  <2>12. Len(t) <= Len(s)
    BY <1>1, <2>4
  <2> QED
    BY <1>3, <2>2, <2>4, <2>9, <2>10, <2>11, <2>12 DEF t
<1> QED
  BY <1>2, <1>3

\* A request is recorded as the only entry of its kind.
LEMMA RecordedIs ==
  ASSUME NEW s \in Seq(TableEntry), NEW e \in TableEntry, e.age < Timeout,
         Unique(s), Len(s) <= Capacity, Fits(s, e)
  PROVE  LET t == Recorded(s, e)
         IN /\ t \in Seq(TableEntry) /\ Len(t) <= Capacity /\ Unique(t)
            /\ ToSet(t) = {f \in Alive(s) : ~(f.source = e.source /\ Same(f, e))} \cup {e}
            /\ Alive(t) = ToSet(t)
<1> DEFINE live == Live(s)
           t == Recorded(s, e)
           Hit(f) == f.source = e.source /\ Same(f, e)
<1>1. /\ live \in Seq(TableEntry) /\ Len(live) <= Len(s)
      /\ ToSet(live) = Alive(s) /\ Unique(live)
  BY LiveIs
<1>2. t = IF \E k \in DOMAIN live : Hit(live[k])
            THEN [k \in DOMAIN live |-> IF Hit(live[k]) THEN e ELSE live[k]]
            ELSE Append(live, e)
  BY DEF Recorded, Has
<1>3. (\E k \in DOMAIN live : Hit(live[k])) \/ Len(live) < Capacity
  BY DEF Fits, Has
<1>4. Len(s) \in Nat /\ Capacity \in Nat /\ Hit(e)
  BY Numbers DEF Same
<1>5. \A f \in Alive(s) : f.age < Timeout
  BY DEF Alive
<1> HIDE DEF live, t
<1>6. /\ Len(live) \in Nat /\ DOMAIN live = 1..Len(live)
      /\ \A n \in 1..Len(live) : live[n] \in Alive(s) /\ live[n] \in TableEntry
      /\ \A f \in Alive(s) : \E n \in 1..Len(live) : f = live[n]
  BY <1>1, Holds
<1>7. CASE \E k \in DOMAIN live : Hit(live[k])
  <2>1. PICK p \in 1..Len(live) : Hit(live[p])
    BY <1>6, <1>7
  <2>2. t = [k \in DOMAIN live |-> IF Hit(live[k]) THEN e ELSE live[k]]
    BY <1>2, <1>7
  <2>3. /\ DOMAIN t = DOMAIN live /\ t = [k \in DOMAIN live |-> t[k]]
        /\ \A k \in DOMAIN live : t[k] = IF Hit(live[k]) THEN e ELSE live[k]
    BY <2>2
  <2>4. \A k \in DOMAIN live : t[k] \in TableEntry
    BY <1>6, <2>3
  <2>5. t \in Seq(TableEntry) /\ Len(t) = Len(live)
    BY <1>1, <2>3, <2>4, MapIs
  <2>6. Unique(t)
    <3> SUFFICES ASSUME NEW m \in 1..Len(live), NEW n \in 1..Len(live),
                        t[m].source = t[n].source, Same(t[m], t[n])
                 PROVE  m = n
      BY <1>6, <2>3 DEF Unique
    <3>1. live[m].source = live[n].source /\ Same(live[m], live[n])
      <4>1. t[m] = (IF Hit(live[m]) THEN e ELSE live[m])
            /\ t[n] = (IF Hit(live[n]) THEN e ELSE live[n])
        BY <1>6, <2>3
      <4> QED
        BY <4>1 DEF Same
    <3> QED
      BY <1>1, <1>6, <3>1 DEF Unique
  <2>7. \A f : f \in ToSet(t) <=> f = e \/ (f \in Alive(s) /\ ~Hit(f))
    <3>1. \A f : f \in ToSet(t) <=> \E k \in 1..Len(live) : f = t[k]
      BY <1>6, <2>3 DEF ToSet
    <3>2. t[p] = e
      BY <1>6, <2>1, <2>3
    <3> HIDE DEF Hit
    <3> QED
      BY <1>6, <2>3, <3>1, <3>2
  <2>8. ToSet(t) = {f \in Alive(s) : ~Hit(f)} \cup {e}
    BY <2>7
  <2>9. Alive(t) = ToSet(t)
    BY <1>5, <2>8 DEF Alive
  <2>10. Len(t) <= Capacity
    BY <1>1, <1>4, <1>6, <2>5
  <2> QED
    BY <2>5, <2>6, <2>8, <2>9, <2>10 DEF t
<1>8. CASE ~\E k \in DOMAIN live : Hit(live[k])
  <2>1. t = Append(live, e) /\ Len(live) < Capacity
    BY <1>2, <1>3, <1>8
  <2>2. /\ t \in Seq(TableEntry) /\ Len(t) = Len(live) + 1
        /\ DOMAIN t = 1..(Len(live) + 1)
        /\ \A k \in 1..Len(live) : t[k] = live[k]
        /\ t[Len(live) + 1] = e
    BY <1>1, <1>6, <2>1
  <2>3. \A k : k \in 1..(Len(live) + 1) <=> k \in 1..Len(live) \/ k = Len(live) + 1
    BY <1>6
  <2>4. Unique(t)
    <3> SUFFICES ASSUME NEW m \in 1..(Len(live) + 1), NEW n \in 1..(Len(live) + 1),
                        t[m].source = t[n].source, Same(t[m], t[n])
                 PROVE  m = n
      BY <2>2 DEF Unique
    <3>1. CASE m \in 1..Len(live) /\ n \in 1..Len(live)
      BY <1>1, <1>6, <2>2, <3>1 DEF Unique
    <3>2. CASE m = Len(live) + 1 /\ n \in 1..Len(live)
      <4>1. Hit(live[n])
        BY <2>2, <3>2 DEF Same
      <4> QED
        BY <1>6, <1>8, <3>2, <4>1
    <3>3. CASE n = Len(live) + 1 /\ m \in 1..Len(live)
      <4>1. Hit(live[m])
        BY <2>2, <3>3 DEF Same
      <4> QED
        BY <1>6, <1>8, <3>3, <4>1
    <3> QED
      BY <2>3, <3>1, <3>2, <3>3
  <2>5. \A f : f \in ToSet(t) <=> f = e \/ (f \in Alive(s) /\ ~Hit(f))
    <3>1. \A f : f \in ToSet(t) <=> \E k \in 1..(Len(live) + 1) : f = t[k]
      BY <2>2 DEF ToSet
    <3> DEFINE K == 1..Len(live)
               z == Len(live) + 1
    <3>2. \A f : f \in ToSet(t) <=> f = t[z] \/ \E k \in K : f = t[k]
      BY <2>3, <3>1
    <3>3. /\ \A f \in Alive(s) : ~Hit(f) /\ \E n \in K : f = live[n]
          /\ \A n \in K : live[n] \in Alive(s) /\ t[n] = live[n]
          /\ t[z] = e
      BY <1>6, <1>8, <2>2
    <3> HIDE DEF Hit, K, z
    <3> QED
      BY <3>2, <3>3
  <2>6. ToSet(t) = {f \in Alive(s) : ~Hit(f)} \cup {e}
    BY <2>5
  <2>7. Alive(t) = ToSet(t)
    BY <1>5, <2>6 DEF Alive
  <2>8. Len(t) <= Capacity
    BY <1>4, <1>6, <2>1, <2>2
  <2> QED
    BY <2>2, <2>4, <2>6, <2>7, <2>8 DEF t
<1> QED
  BY <1>7, <1>8

\* A table is rewritten entry by entry.
LEMMA RewrittenIs ==
  ASSUME NEW s \in Seq(TableEntry), NEW t, DOMAIN t = DOMAIN s,
         t = [k \in DOMAIN s |-> t[k]],
         \A k \in DOMAIN s : /\ t[k] \in TableEntry
                             /\ t[k].source = s[k].source /\ Same(t[k], s[k])
  PROVE  /\ t \in Seq(TableEntry) /\ Len(t) = Len(s)
         /\ Unique(s) => Unique(t)
         /\ TableOK(s) => TableOK(t)
         /\ \A f \in ToSet(t) : \E k \in DOMAIN s : f = t[k] /\ s[k] \in ToSet(s)
         /\ \A e \in ToSet(s) : \E k \in DOMAIN s : e = s[k] /\ t[k] \in ToSet(t)
<1>1. t \in Seq(TableEntry) /\ Len(t) = Len(s)
  <2>1. \A k \in DOMAIN s : t[k] \in TableEntry
    OBVIOUS
  <2> QED
    BY <2>1, MapIs
<1>2. Unique(s) => Unique(t)
  <2> SUFFICES ASSUME Unique(s), NEW m \in DOMAIN s, NEW n \in DOMAIN s,
                      t[m].source = t[n].source, Same(t[m], t[n])
               PROVE  m = n
    BY DEF Unique
  <2>1. s[m].source = s[n].source /\ Same(s[m], s[n])
    BY DEF Same
  <2> QED
    BY <2>1 DEF Unique
<1>3. /\ \A f \in ToSet(t) : \E k \in DOMAIN s : f = t[k] /\ s[k] \in ToSet(s)
      /\ \A e \in ToSet(s) : \E k \in DOMAIN s : e = s[k] /\ t[k] \in ToSet(t)
  BY DEF ToSet
<1>4. TableOK(s) => TableOK(t)
  <2> SUFFICES ASSUME TableOK(s), NEW f \in ToSet(t)
               PROVE  Shaped(f)
    BY DEF TableOK
  <2>1. PICK k \in DOMAIN s : f = t[k] /\ s[k] \in ToSet(s)
    BY <1>3
  <2>2. Shaped(s[k])
    BY <2>1 DEF TableOK
  <2>3. f.source = s[k].source /\ f.op = s[k].op /\ f.register = s[k].register
    BY <2>1 DEF Same
  <2> QED
    BY <2>2, <2>3 DEF Shaped
<1> QED
  BY <1>1, <1>2, <1>3, <1>4

\* Marking: a switch marks the entries of its predecessor where they are, an
\* abort marks all and starts their time again.
Mark(e, sources, reset) ==
  IF e.source \in sources
    THEN [e EXCEPT !.quarantined = TRUE, !.age = IF reset THEN 0 ELSE @]
    ELSE e

LEMMA MarkIs ==
  ASSUME NEW e \in TableEntry, NEW sources, NEW reset \in BOOLEAN
  PROVE  LET f == Mark(e, sources, reset)
         IN /\ f \in TableEntry /\ f.source = e.source /\ Same(f, e)
            /\ f.quarantined = (e.quarantined \/ e.source \in sources)
            /\ f.age = (IF e.source \in sources /\ reset THEN 0 ELSE e.age)
<1>1. 0 \in 0..Timeout
  BY Numbers
<1>2. CASE e.source \in sources
  <2> DEFINE a == IF reset THEN 0 ELSE e.age
             f == [e EXCEPT !.quarantined = TRUE, !.age = a]
  <2>1. Mark(e, sources, reset) = f
    BY <1>2 DEF Mark
  <2>2. a \in 0..Timeout
    BY <1>1 DEF TableEntry
  <2> HIDE DEF a
  <2>3. /\ f \in TableEntry /\ f.source = e.source /\ f.joint = e.joint /\ f.op = e.op
        /\ f.register = e.register /\ f.quarantined = TRUE /\ f.age = a
    BY <2>2 DEF TableEntry
  <2> QED
    BY <1>2, <2>1, <2>3 DEF a, Same
<1>3. CASE e.source \notin sources
  BY <1>3 DEF Mark, Same, TableEntry
<1> QED
  BY <1>2, <1>3

LEMMA MarkedIs ==
  ASSUME NEW s \in Seq(TableEntry), NEW sources, NEW reset \in BOOLEAN
  PROVE  LET t == Marked(s, sources, reset)
         IN /\ t \in Seq(TableEntry) /\ Len(t) = Len(s)
            /\ Unique(s) => Unique(t)
            /\ TableOK(s) => TableOK(t)
            /\ \A f \in ToSet(t) : \E e \in ToSet(s) : f = Mark(e, sources, reset)
            /\ \A e \in ToSet(s) : Mark(e, sources, reset) \in ToSet(t)
<1> DEFINE t == Marked(s, sources, reset)
<1>1. t = [k \in DOMAIN s |-> Mark(s[k], sources, reset)]
  BY DEF Marked, Mark
<1> HIDE DEF t
<1>2. /\ DOMAIN t = DOMAIN s /\ t = [k \in DOMAIN s |-> t[k]]
      /\ \A k \in DOMAIN s : t[k] = Mark(s[k], sources, reset)
  BY <1>1
<1>3. \A k \in DOMAIN s : s[k] \in TableEntry
  OBVIOUS
<1>4. \A k \in DOMAIN s : /\ t[k] \in TableEntry
                          /\ t[k].source = s[k].source /\ Same(t[k], s[k])
  BY <1>2, <1>3, MarkIs
<1>5. /\ t \in Seq(TableEntry) /\ Len(t) = Len(s)
      /\ Unique(s) => Unique(t)
      /\ TableOK(s) => TableOK(t)
      /\ \A f \in ToSet(t) : \E k \in DOMAIN s : f = t[k] /\ s[k] \in ToSet(s)
      /\ \A e \in ToSet(s) : \E k \in DOMAIN s : e = s[k] /\ t[k] \in ToSet(t)
  BY <1>2, <1>4, RewrittenIs
<1> QED
  BY <1>2, <1>5 DEF t

\* Moving: all the dead entries, or none.
LEMMA MovedIs ==
  ASSUME NEW s \in Seq(TableEntry), NEW sources, quarantine \in Seq(TableEntry)
  PROVE  LET dead == {e \in Alive(s) : Dead(e, sources)}
             ts == MovedExpectations(s, sources)
             tq == MovedQuarantine(s, sources)
         IN /\ ts \in Seq(TableEntry) /\ Len(ts) <= Len(s)
            /\ Unique(s) => Unique(ts)
            /\ tq \in Seq(TableEntry)
            /\ MoveFits(s, sources) =>
                 ToSet(ts) = Alive(s) \ dead /\ ToSet(tq) = Alive(quarantine) \cup dead
            /\ ~MoveFits(s, sources) =>
                 ToSet(ts) = Alive(s) /\ ToSet(tq) = Alive(quarantine)
            /\ Alive(ts) = ToSet(ts) /\ Alive(tq) = ToSet(tq)
            /\ Alive(quarantine) = {} /\ Len(s) <= Capacity => MoveFits(s, sources)
<1> DEFINE dead == {e \in Alive(s) : Dead(e, sources)}
           live == Live(s)
           fits == MoveFits(s, sources)
           moving == Moving(s, sources)
           kept == {e \in ToSet(s) : fits => ~Dead(e, sources)}
           gone == {e \in ToSet(s) : Dead(e, sources)}
           ts == MovedExpectations(s, sources)
           tq == MovedQuarantine(s, sources)
<1>1. /\ live \in Seq(TableEntry) /\ Len(live) <= Len(s)
      /\ ToSet(live) = Alive(s) /\ (Unique(s) => Unique(live))
  BY LiveIs
<1>2. /\ Live(quarantine) \in Seq(TableEntry)
      /\ ToSet(Live(quarantine)) = Alive(quarantine)
  BY LiveIs
<1>3. ts = Kept(live, kept) /\ moving = Kept(live, gone)
  BY DEF MovedExpectations, Moving
<1>4. tq = Live(quarantine) \o (IF fits THEN moving ELSE <<>>)
  BY DEF MovedQuarantine
<1>5. Alive(s) \subseteq ToSet(s) /\ \A e \in Alive(s) : e.age < Timeout
  BY DEF Alive
<1>6. Alive(quarantine) \subseteq ToSet(quarantine)
      /\ \A e \in Alive(quarantine) : e.age < Timeout
  BY DEF Alive
<1> HIDE DEF live, moving, ts, tq
<1>7. /\ ts \in Seq(TableEntry) /\ Len(ts) <= Len(live)
      /\ ToSet(ts) = Alive(s) \cap kept /\ (Unique(s) => Unique(ts))
      /\ moving \in Seq(TableEntry) /\ Len(moving) <= Len(live)
      /\ ToSet(moving) = Alive(s) \cap gone
  <2> HIDE DEF kept, gone
  <2> QED
    BY <1>1, <1>3, KeptIs, UniqueKept
<1>8. /\ Len(live) \in Nat /\ Len(s) \in Nat /\ Len(ts) \in Nat /\ Len(moving) \in Nat
      /\ Len(Live(quarantine)) \in Nat
  BY <1>1, <1>2, <1>7
<1>9. Len(ts) <= Len(s) /\ Len(moving) <= Len(s)
  BY <1>1, <1>7, <1>8
<1>10. ToSet(moving) = dead
  BY <1>5, <1>7
<1>11. fits => ToSet(ts) = Alive(s) \ dead
  BY <1>5, <1>7
<1>12. ~fits => ToSet(ts) = Alive(s)
  BY <1>5, <1>7
<1>13. tq \in Seq(TableEntry) /\ (fits => ToSet(tq) = Alive(quarantine) \cup dead)
       /\ (~fits => ToSet(tq) = Alive(quarantine))
  <2> DEFINE a == Live(quarantine)
             b == IF fits THEN moving ELSE <<>>
  <2>1. a \in Seq(TableEntry) /\ b \in Seq(TableEntry)
    BY <1>2, <1>7
  <2>2. ToSet(b) = IF fits THEN dead ELSE {}
    BY <1>10 DEF ToSet
  <2> HIDE DEF a, b, dead, fits
  <2>3. /\ a \o b \in Seq(TableEntry) /\ Len(a \o b) = Len(a) + Len(b)
        /\ Len(a) \in Nat /\ Len(b) \in Nat
        /\ \A k \in 1..(Len(a) + Len(b)) :
             (a \o b)[k] = IF k <= Len(a) THEN a[k] ELSE b[k - Len(a)]
    BY <2>1, ConcatProperties
  <2>4. \A e : e \in ToSet(a \o b) <=> e \in ToSet(a) \/ e \in ToSet(b)
    <3> TAKE e
    <3>1. ASSUME e \in ToSet(a \o b)
          PROVE  e \in ToSet(a) \/ e \in ToSet(b)
      <4>1. PICK k \in 1..(Len(a) + Len(b)) : e = (a \o b)[k]
        BY <2>3, <3>1, Holds
      <4>2. CASE k <= Len(a)
        <5>1. k \in 1..Len(a) /\ e = a[k]
          BY <2>3, <4>1, <4>2
        <5> QED
          BY <2>1, <5>1, Holds
      <4>3. CASE ~(k <= Len(a))
        <5>1. k - Len(a) \in 1..Len(b) /\ e = b[k - Len(a)]
          BY <2>3, <4>1, <4>3
        <5> QED
          BY <2>1, <5>1, Holds
      <4> QED
        BY <4>2, <4>3
    <3>2. ASSUME e \in ToSet(a)
          PROVE  e \in ToSet(a \o b)
      <4>1. PICK k \in 1..Len(a) : e = a[k]
        BY <2>1, <3>2, Holds
      <4>2. k \in 1..(Len(a) + Len(b)) /\ (a \o b)[k] = e
        BY <2>3, <4>1
      <4> QED
        BY <2>3, <4>2, Holds
    <3>3. ASSUME e \in ToSet(b)
          PROVE  e \in ToSet(a \o b)
      <4>1. PICK k \in 1..Len(b) : e = b[k]
        BY <2>1, <3>3, Holds
      <4>2. k + Len(a) \in 1..(Len(a) + Len(b)) /\ (a \o b)[k + Len(a)] = e
        <5>1. k + Len(a) \in 1..(Len(a) + Len(b)) /\ ~(k + Len(a) <= Len(a))
              /\ (k + Len(a)) - Len(a) = k
          BY <2>3
        <5> QED
          BY <2>3, <4>1, <5>1
      <4> QED
        BY <2>3, <4>2, Holds
    <3> QED
      BY <3>1, <3>2, <3>3
  <2>5. ToSet(a \o b) = ToSet(a) \cup ToSet(b)
    BY <2>4
  <2>6. tq = a \o b
    BY <1>4 DEF a, b
  <2>7. ToSet(a) = Alive(quarantine)
    BY <1>2 DEF a
  <2> QED
    BY <2>2, <2>3, <2>5, <2>6, <2>7
<1>14. Alive(ts) = ToSet(ts) /\ Alive(tq) = ToSet(tq)
  <2>1. ToSet(ts) \subseteq Alive(s) /\ ToSet(tq) \subseteq Alive(s) \cup Alive(quarantine)
    BY <1>11, <1>12, <1>13
  <2> QED
    BY <1>5, <1>6, <2>1 DEF Alive
<1>15. ASSUME Alive(quarantine) = {}, Len(s) <= Capacity
       PROVE  fits
  <2>1. Len(Live(quarantine)) = 0
    <3>1. \A n \in 1..Len(Live(quarantine)) : Live(quarantine)[n] \in {}
      BY <1>2, <1>15, Holds
    <3>2. Len(Live(quarantine)) >= 1 => 1 \in 1..Len(Live(quarantine))
      BY <1>8
    <3> QED
      BY <1>8, <3>1, <3>2
  <2>2. Len(Live(quarantine)) + Len(moving) <= Capacity
    BY <1>8, <1>9, <1>15, <2>1, Numbers
  <2> QED
    BY <2>2 DEF MoveFits, moving
<1> QED
  BY <1>7, <1>9, <1>11, <1>12, <1>13, <1>14, <1>15 DEF ts, tq

\* Time passes for every entry.
Aged(e) == [e EXCEPT !.age = Later(@, Timeout)]

LEMMA OlderIs ==
  ASSUME NEW s \in Seq(TableEntry)
  PROVE  LET t == Older(s)
         IN /\ t \in Seq(TableEntry) /\ Len(t) = Len(s)
            /\ Unique(s) => Unique(t)
            /\ TableOK(s) => TableOK(t)
            /\ \A f \in ToSet(t) : \E e \in ToSet(s) : f = Aged(e)
            /\ \A e \in ToSet(s) : Aged(e) \in ToSet(t)
            /\ \A e \in TableEntry :
                 /\ Aged(e) \in TableEntry /\ Aged(e).source = e.source
                 /\ Same(Aged(e), e) /\ Aged(e).quarantined = e.quarantined
                 /\ Aged(e).age = IF e.age < Timeout THEN e.age + 1 ELSE e.age
<1> DEFINE t == Older(s)
<1>1. \A e \in TableEntry :
        /\ Aged(e) \in TableEntry /\ Aged(e).source = e.source
        /\ Same(Aged(e), e) /\ Aged(e).quarantined = e.quarantined
        /\ Aged(e).age = IF e.age < Timeout THEN e.age + 1 ELSE e.age
  <2> TAKE e \in TableEntry
  <2> DEFINE a == IF e.age < Timeout THEN e.age + 1 ELSE e.age
             f == [e EXCEPT !.age = a]
  <2>1. Aged(e) = f
    BY DEF Aged, Later
  <2>2. e.age \in 0..Timeout
    BY DEF TableEntry
  <2>3. a \in 0..Timeout
    <3>1. Timeout \in Nat
      BY Numbers
    <3>2. CASE e.age < Timeout
      <4>1. a = e.age + 1
        BY <3>2
      <4> QED
        BY <2>2, <3>1, <3>2, <4>1
    <3>3. CASE ~(e.age < Timeout)
      BY <2>2, <3>3
    <3> QED
      BY <3>2, <3>3
  <2> HIDE DEF a
  <2>4. /\ f \in TableEntry /\ f.source = e.source /\ f.joint = e.joint /\ f.op = e.op
        /\ f.register = e.register /\ f.quarantined = e.quarantined /\ f.age = a
    BY <2>3 DEF TableEntry
  <2> QED
    BY <2>1, <2>4 DEF Same, a
<1>2. t = [k \in DOMAIN s |-> Aged(s[k])]
  BY DEF Older, Aged
<1> HIDE DEF t
<1>3. /\ DOMAIN t = DOMAIN s /\ t = [k \in DOMAIN s |-> t[k]]
      /\ \A k \in DOMAIN s : t[k] = Aged(s[k]) /\ s[k] \in TableEntry
  BY <1>2
<1>4. \A k \in DOMAIN s : /\ t[k] \in TableEntry
                          /\ t[k].source = s[k].source /\ Same(t[k], s[k])
  BY <1>1, <1>3
<1>5. /\ t \in Seq(TableEntry) /\ Len(t) = Len(s)
      /\ Unique(s) => Unique(t)
      /\ TableOK(s) => TableOK(t)
      /\ \A f \in ToSet(t) : \E k \in DOMAIN s : f = t[k] /\ s[k] \in ToSet(s)
      /\ \A e \in ToSet(s) : \E k \in DOMAIN s : e = s[k] /\ t[k] \in ToSet(t)
  BY <1>3, <1>4, RewrittenIs
<1> QED
  BY <1>1, <1>3, <1>5 DEF t
-----------------------------------------------------------------------------
(* What the types say of the wire and of the tables.                        *)

LEMMA WireFacts ==
  ASSUME NEW w \in [Joints -> Seq(Item)]
  PROVE  \A j \in Joints :
           /\ w[j] \in Seq(Item) /\ Len(w[j]) \in Nat
           /\ DOMAIN w[j] = 1..Len(w[j])
           /\ \A k \in DOMAIN w[j] :
                /\ k \in Nat /\ k >= 1 /\ w[j][k] \in Item
                /\ w[j][k].source \in Sequence /\ w[j][k].fate \in Fates
                /\ w[j][k].age \in Nat /\ w[j][k].age <= Delay
                /\ w[j][k].age < Timeout
<1> TAKE j \in Joints
<1>1. w[j] \in Seq(Item)
  OBVIOUS
<1>2. Len(w[j]) \in Nat /\ DOMAIN w[j] = 1..Len(w[j])
  BY <1>1
<1>3. ASSUME NEW k \in DOMAIN w[j]
      PROVE  /\ k \in Nat /\ k >= 1 /\ w[j][k] \in Item
             /\ w[j][k].source \in Sequence /\ w[j][k].fate \in Fates
             /\ w[j][k].age \in Nat /\ w[j][k].age <= Delay
             /\ w[j][k].age < Timeout
  <2>1. k \in Nat /\ k >= 1 /\ w[j][k] \in Item
    BY <1>1, <1>2
  <2>2. w[j][k].source \in Sequence /\ w[j][k].fate \in Fates
        /\ w[j][k].age \in 0..Delay
    BY <2>1 DEF Item
  <2> QED
    BY <2>1, <2>2, Counts
<1> QED
  BY <1>1, <1>2, <1>3

LEMMA EntryFacts ==
  ASSUME TablesType
  PROVE  /\ Alive(expectations) \subseteq TableEntry
         /\ Alive(quarantine) \subseteq TableEntry
         /\ Table \subseteq TableEntry
         /\ \A e \in TableEntry :
              e.joint \in Joints /\ e.age \in Nat /\ e.source \in Sequence
              /\ e.quarantined \in BOOLEAN
         /\ \A e \in Table : e.age < Timeout
<1>1. ToSet(expectations) \subseteq TableEntry /\ ToSet(quarantine) \subseteq TableEntry
  BY Holds DEF TablesType
<1>2. /\ Alive(expectations) \subseteq TableEntry
      /\ Alive(quarantine) \subseteq TableEntry
      /\ \A e \in Alive(expectations) \cup Alive(quarantine) : e.age < Timeout
  BY <1>1 DEF Alive
<1>3. \A e \in TableEntry :
        e.joint \in Joints /\ e.age \in Nat /\ e.source \in Sequence
        /\ e.quarantined \in BOOLEAN
  <2> TAKE e \in TableEntry
  <2>1. e.joint \in Joints /\ e.age \in 0..Timeout /\ e.source \in Sequence
        /\ e.quarantined \in BOOLEAN
    BY DEF TableEntry
  <2> QED
    BY <2>1, Counts
<1> QED
  BY <1>2, <1>3 DEF Table

\* Tombstones are the quarantined among the live entries.
LEMMA TombstonesAre ==
  ASSUME TablesType, TablesOK
  PROVE  /\ \A e : e \in Tombstones <=> e \in Table /\ e.quarantined
         /\ ToSet(Live(expectations)) = Alive(expectations)
         /\ ToSet(Live(quarantine)) = Alive(quarantine)
<1>1. /\ ToSet(Live(expectations)) = Alive(expectations)
      /\ ToSet(Live(quarantine)) = Alive(quarantine)
  BY LiveIs DEF TablesType
<1>2. \A e \in Alive(quarantine) : e.quarantined
  BY DEF TablesOK, Alive
<1> QED
  BY <1>1, <1>2 DEF Tombstones, Table

\* Where there is no tombstone, nothing is stale.
LEMMA StaleBlocks ==
  ASSUME TablesType, TablesOK, Covered, NEW j \in Joints, NEW k \in DOMAIN wire[j],
         wire[j][k].fate = "stale"
  PROVE  \E e \in Tombstones : Of(e, j, wire[j][k])
<1>1. CoveredStale(j, wire[j][k], Table)
  BY DEF Covered
<1> QED
  BY <1>1, TombstonesAre DEF CoveredStale

\* Nothing is current of a discovery whose next request is due.
LEMMA NothingAsked ==
  ASSUME WireType, CurrentOK, Fresh, discovery.age \in Nat,
         discovery.state = "READY" \/ (Waiting /\ discovery.age >= Timeout)
         \/ ~Requesting,
         TablesType
  PROVE  /\ \A j \in Joints : \A k \in DOMAIN wire[j] :
              Own(wire[j][k]) => wire[j][k].source # "DISCOVERY"
         /\ \A e \in Alive(expectations) : ~e.quarantined => e.source # "DISCOVERY"
<1>1. discovery.state # "WAITING" \/ discovery.age >= Timeout
  BY DEF Waiting, Requesting
<1>2. ASSUME NEW j \in Joints, NEW k \in DOMAIN wire[j], Own(wire[j][k]),
             wire[j][k].source = "DISCOVERY"
      PROVE  FALSE
  <2>1. discovery.state = "WAITING" /\ discovery.age <= wire[j][k].age
    BY <1>2 DEF CurrentOK
  <2>2. wire[j][k].age \in Nat /\ wire[j][k].age < Timeout
    BY WireFacts DEF WireType
  <2> QED
    BY <1>1, <2>1, <2>2, Counts
<1>3. ASSUME NEW e \in Alive(expectations), ~e.quarantined, e.source = "DISCOVERY"
      PROVE  FALSE
  <2>1. discovery.state = "WAITING" /\ discovery.age <= e.age
    BY <1>3 DEF Fresh
  <2>2. e.age \in Nat /\ e.age < Timeout
    BY EntryFacts DEF Table
  <2> QED
    BY <1>1, <2>1, <2>2, Counts
<1> QED
  BY <1>2, <1>3
-----------------------------------------------------------------------------
(* What becomes of the items on the wire.  Every step but the sending of a  *)
(* request takes items away or changes those that are there: item k of the  *)
(* new wire of joint j was item g[j][k] of the old one.                      *)

\* What never changes, and how fates may.
Kin(y, x) ==
  /\ y.source = x.source /\ Alike(y, x)
  /\ Own(y) => Own(x)
  /\ Sound(y) => Sound(x)
  /\ x.source \in ModeSources /\ Sound(x) => Sound(y)
  /\ x.op = "write" => y.mode = x.mode
Places(g) ==
  \A j \in Joints : \A k \in DOMAIN wire'[j] :
    /\ g[j][k] \in DOMAIN wire[j]
    /\ \A n \in DOMAIN wire'[j] : n < k => g[j][n] < g[j][k]
Thins(g) ==
  /\ Places(g)
  /\ \A j \in Joints : \A k \in DOMAIN wire'[j] : Kin(wire'[j][k], wire[j][g[j][k]])

LEMMA ThinsApart ==
  ASSUME WireType, WireType', NEW g, Places(g), NEW j \in Joints,
         NEW k \in DOMAIN wire'[j], NEW n \in DOMAIN wire'[j]
  PROVE  /\ g[j][k] \in DOMAIN wire[j] /\ g[j][n] \in DOMAIN wire[j]
         /\ g[j][k] = g[j][n] <=> k = n
         /\ n < k <=> g[j][n] < g[j][k]
<1>1. k \in Nat /\ n \in Nat
  BY WireFacts DEF WireType
<1>2. /\ g[j][k] \in DOMAIN wire[j] /\ g[j][n] \in DOMAIN wire[j]
      /\ n < k => g[j][n] < g[j][k]
      /\ k < n => g[j][k] < g[j][n]
  BY DEF Places
<1>3. g[j][k] \in Nat /\ g[j][n] \in Nat
  BY <1>2, WireFacts DEF WireType
<1> QED
  BY <1>1, <1>2, <1>3

LEMMA ThinsShape ==
  ASSUME WireType, WireType', WireOK, OrderOK, NoThree, NEW g, Thins(g)
  PROVE  WireOK' /\ OrderOK' /\ NoThree'
<1>1. ASSUME NEW j \in Joints, NEW k \in DOMAIN wire'[j]
      PROVE  g[j][k] \in DOMAIN wire[j] /\ Kin(wire'[j][k], wire[j][g[j][k]])
  BY DEF Thins, Places
<1>2. WireOK'
  <2> SUFFICES ASSUME NEW j \in Joints, NEW k \in DOMAIN wire'[j]
               PROVE  /\ Shaped(wire'[j][k])
                      /\ wire'[j][k].source \in ModeSources => Sound(wire'[j][k])
                      /\ wire'[j][k].op = "write" => wire'[j][k].mode \in Modes
    BY DEF WireOK
  <2> DEFINE y == wire'[j][k]
             x == wire[j][g[j][k]]
  <2>1. Kin(y, x) /\ g[j][k] \in DOMAIN wire[j]
    BY <1>1
  <2>2. Shaped(x) /\ (x.source \in ModeSources => Sound(x))
        /\ (x.op = "write" => x.mode \in Modes)
    BY <2>1 DEF WireOK
  <2> HIDE DEF x, y
  <2>3. Shaped(y) /\ (y.source \in ModeSources => Sound(y))
        /\ (y.op = "write" => y.mode \in Modes)
    BY <2>1, <2>2 DEF Kin, Alike, Shaped
  <2> QED
    BY <2>3 DEF y
<1>3. OrderOK'
  <2> SUFFICES ASSUME NEW j \in Joints, NEW k \in DOMAIN wire'[j],
                      NEW n \in DOMAIN wire'[j], n < k
               PROVE  /\ wire'[j][k].source \in ModeSources => ~ModeRead(wire'[j][n])
                      /\ wire'[j][n].source = "DISCOVERY" /\ Own(wire'[j][n]) =>
                           wire'[j][k].source # "DISCOVERY"
                      /\ wire'[j][n].source = "MODE_READ" /\ Own(wire'[j][n]) =>
                           wire'[j][k].op # "write"
    BY DEF OrderOK
  <2> DEFINE y == wire'[j][k]
             z == wire'[j][n]
             x == wire[j][g[j][k]]
             w == wire[j][g[j][n]]
  <2>1. /\ Kin(y, x) /\ g[j][k] \in DOMAIN wire[j]
        /\ Kin(z, w) /\ g[j][n] \in DOMAIN wire[j]
    BY <1>1
  <2>2. g[j][n] < g[j][k]
    BY DEF Thins, Places
  <2>3. /\ x.source \in ModeSources => ~ModeRead(w)
        /\ w.source = "DISCOVERY" /\ Own(w) => x.source # "DISCOVERY"
        /\ w.source = "MODE_READ" /\ Own(w) => x.op # "write"
    BY <2>1, <2>2 DEF OrderOK
  <2> HIDE DEF x, y, z, w
  <2>4. /\ y.source \in ModeSources => ~ModeRead(z)
        /\ z.source = "DISCOVERY" /\ Own(z) => y.source # "DISCOVERY"
        /\ z.source = "MODE_READ" /\ Own(z) => y.op # "write"
    BY <2>1, <2>3 DEF Kin, Alike, ModeRead
  <2> QED
    BY <2>4 DEF y, z
<1>4. NoThree'
  <2> SUFFICES ASSUME NEW i \in Joints, NEW j \in Joints, NEW l \in Joints,
                      NEW k \in DOMAIN wire'[i], NEW n \in DOMAIN wire'[j],
                      NEW m \in DOMAIN wire'[l],
                      At(i, k)', At(j, n)', At(l, m)'
               PROVE  (i = j /\ k = n) \/ (i = l /\ k = m) \/ (j = l /\ n = m)
    BY DEF NoThree
  <2>1. At(i, g[i][k]) /\ At(j, g[j][n]) /\ At(l, g[l][m])
    BY <1>1 DEF At, Kin
  <2>2. \/ (i = j /\ g[i][k] = g[j][n]) \/ (i = l /\ g[i][k] = g[l][m])
        \/ (j = l /\ g[j][n] = g[l][m])
    BY <2>1 DEF NoThree, At
  <2> QED
    BY <2>2, ThinsApart DEF Thins
<1> QED
  BY <1>2, <1>3, <1>4

\* A calm step changes neither fates nor ages, and takes no entry away.
Calm(g) ==
  /\ Places(g)
  /\ \A j \in Joints : \A k \in DOMAIN wire'[j] :
       LET y == wire'[j][k]
           x == wire[j][g[j][k]]
       IN /\ y.source = x.source /\ Alike(y, x) /\ y.fate = x.fate /\ y.age = x.age
          /\ x.op = "write" => y.mode = x.mode
CalmTables ==
  /\ Table \subseteq Table'
  /\ Alive(quarantine) \subseteq Alive(quarantine')
  /\ \A e \in Alive(expectations) : ~e.quarantined => e \in Alive(expectations')
  /\ \A e \in Alive(expectations') : ~e.quarantined => e \in Alive(expectations)

LEMMA CalmThins ==
  ASSUME NEW g, Calm(g)
  PROVE  Thins(g)
<1> SUFFICES ASSUME NEW j \in Joints, NEW k \in DOMAIN wire'[j]
             PROVE  Kin(wire'[j][k], wire[j][g[j][k]])
  BY DEF Calm, Thins
<1>1. LET y == wire'[j][k]
          x == wire[j][g[j][k]]
      IN /\ y.source = x.source /\ Alike(y, x) /\ y.fate = x.fate /\ y.age = x.age
         /\ x.op = "write" => y.mode = x.mode
  BY DEF Calm
<1> QED
  BY <1>1 DEF Kin, Own, Sound

LEMMA CalmCover ==
  ASSUME WireType, WireType', TablesType, NEW g, Calm(g), CalmTables,
         Twins, Covered, Locked
  PROVE  Twins' /\ Covered' /\ Locked'
<1>1. ASSUME NEW j \in Joints, NEW k \in DOMAIN wire'[j]
      PROVE  LET y == wire'[j][k]
                 x == wire[j][g[j][k]]
             IN /\ g[j][k] \in DOMAIN wire[j]
                /\ y.source = x.source /\ Alike(y, x) /\ y.fate = x.fate /\ y.age = x.age
  BY DEF Calm, Places
<1>2. Twins'
  <2> SUFFICES ASSUME NEW j \in Joints, NEW k \in DOMAIN wire'[j],
                      NEW n \in DOMAIN wire'[j], k < n,
                      Alike(wire'[j][k], wire'[j][n]),
                      Sound(wire'[j][k]), Sound(wire'[j][n])
               PROVE  /\ wire'[j][k].source = "MODE_READ"
                      /\ wire'[j][n].source = "DISCOVERY"
                      /\ wire'[j][k].fate = wire'[j][n].fate
                      /\ wire'[j][k].fate = "stale" =>
                           CoveredTwice(j, wire'[j][k], wire'[j][n], Table')
    BY DEF Twins
  <2> DEFINE x == wire[j][g[j][k]]
             y == wire[j][g[j][n]]
             x1 == wire'[j][k]
             y1 == wire'[j][n]
  <2>1. /\ g[j][k] \in DOMAIN wire[j] /\ g[j][n] \in DOMAIN wire[j]
        /\ g[j][k] < g[j][n]
    BY DEF Calm, Places
  <2>2. /\ x1.source = x.source /\ Alike(x1, x) /\ x1.fate = x.fate /\ x1.age = x.age
        /\ y1.source = y.source /\ Alike(y1, y) /\ y1.fate = y.fate /\ y1.age = y.age
    BY <1>1
  <2>3. Alike(x, y) /\ Sound(x) /\ Sound(y)
    BY <2>2 DEF Alike, Sound
  <2>4. /\ x.source = "MODE_READ" /\ y.source = "DISCOVERY" /\ x.fate = y.fate
        /\ x.fate = "stale" => CoveredTwice(j, x, y, Table)
    BY <2>1, <2>3 DEF Twins
  <2> HIDE DEF x, y, x1, y1
  <2>5. x1.fate = "stale" => CoveredTwice(j, x1, y1, Table')
    BY <2>2, <2>4 DEF CoveredTwice, Of, Alike, CalmTables
  <2> QED
    BY <2>2, <2>4, <2>5 DEF x1, y1
<1>3. Covered'
  <2> SUFFICES ASSUME NEW j \in Joints, NEW k \in DOMAIN wire'[j]
               PROVE  /\ wire'[j][k].fate = "current" => CoveredCurrent(j, wire'[j][k], Alive(expectations'))
                      /\ wire'[j][k].fate = "stale" => CoveredStale(j, wire'[j][k], Table')
    BY DEF Covered
  <2> DEFINE x == wire[j][g[j][k]]
             x1 == wire'[j][k]
  <2>1. /\ g[j][k] \in DOMAIN wire[j]
        /\ x1.source = x.source /\ Alike(x1, x) /\ x1.fate = x.fate /\ x1.age = x.age
    BY <1>1
  <2>2. /\ x.fate = "current" => CoveredCurrent(j, x, Alive(expectations))
        /\ x.fate = "stale" => CoveredStale(j, x, Table)
    BY <2>1 DEF Covered
  <2> HIDE DEF x, x1
  <2>3. x1.fate = "current" => CoveredCurrent(j, x1, Alive(expectations'))
    BY <2>1, <2>2 DEF CoveredCurrent, Of, Alike, CalmTables
  <2>4. x1.fate = "stale" => CoveredStale(j, x1, Table')
    BY <2>1, <2>2 DEF CoveredStale, Of, Alike, CalmTables
  <2> QED
    BY <2>3, <2>4 DEF x1
<1>4. Locked'
  <2> SUFFICES ASSUME NEW i \in Joints, NEW j \in Joints, NEW k \in DOMAIN wire'[i],
                      NEW n \in DOMAIN wire'[j], At(i, k)', At(j, n)', ~(i = j /\ k = n),
                      ~Own(wire'[i][k]), ~Own(wire'[j][n])
               PROVE  Locks(wire'[i][k], wire'[j][n], Alive(quarantine'), wire')
    BY DEF Locked
  <2> DEFINE x == wire[i][g[i][k]]
             y == wire[j][g[j][n]]
             x1 == wire'[i][k]
             y1 == wire'[j][n]
  <2>1. /\ g[i][k] \in DOMAIN wire[i] /\ g[j][n] \in DOMAIN wire[j]
        /\ x1.source = x.source /\ x1.fate = x.fate /\ x1.age = x.age
        /\ y1.source = y.source /\ y1.fate = y.fate /\ y1.age = y.age
    BY <1>1
  <2>2. At(i, g[i][k]) /\ At(j, g[j][n]) /\ ~Own(x) /\ ~Own(y)
    BY <2>1 DEF At, Own
  <2>3. ~(i = j /\ g[i][k] = g[j][n])
    BY ThinsApart DEF Calm
  <2>4. Locks(x, y, Alive(quarantine), wire)
    BY <2>1, <2>2, <2>3 DEF Locked
  <2>5. PICK e \in Alive(quarantine) :
          /\ e.age <= x.age /\ e.age <= y.age
          /\ \A m \in DOMAIN wire[e.joint] :
               wire[e.joint][m].source \in ModeSources /\ Alike(e, wire[e.joint][m]) =>
                 \E f \in Alive(quarantine) :
                   f.source # e.source /\ Same(f, e) /\ f.age <= x.age /\ f.age <= y.age
    BY <2>4 DEF Locks
  <2>6. e.joint \in Joints
    BY EntryFacts
  <2> HIDE DEF x, y, x1, y1
  <2>7. ASSUME NEW m \in DOMAIN wire'[e.joint],
               wire'[e.joint][m].source \in ModeSources, Alike(e, wire'[e.joint][m])
        PROVE  \E f \in Alive(quarantine') :
                 f.source # e.source /\ Same(f, e) /\ f.age <= x1.age /\ f.age <= y1.age
    <3>1. /\ g[e.joint][m] \in DOMAIN wire[e.joint]
          /\ wire[e.joint][g[e.joint][m]].source \in ModeSources
          /\ Alike(e, wire[e.joint][g[e.joint][m]])
      BY <1>1, <2>6, <2>7 DEF Alike
    <3>2. \E f \in Alive(quarantine) :
            f.source # e.source /\ Same(f, e) /\ f.age <= x.age /\ f.age <= y.age
      BY <2>5, <3>1
    <3> QED
      BY <2>1, <3>2 DEF CalmTables
  <2>8. e \in Alive(quarantine') /\ e.age <= x1.age /\ e.age <= y1.age
    BY <2>1, <2>5 DEF CalmTables
  <2>9. Locks(x1, y1, Alive(quarantine'), wire')
    BY <2>7, <2>8 DEF Locks
  <2> QED
    BY <2>9 DEF x1, y1
<1> QED
  BY <1>2, <1>3, <1>4

LEMMA CalmFresh ==
  ASSUME WireType, WireType', TablesType, TablesType', NEW g, Calm(g), CalmTables,
         Fresh, CurrentOK,
         \/ /\ discovery'.state = discovery.state /\ discovery'.joint = discovery.joint
            /\ discovery'.register = discovery.register /\ discovery'.age = discovery.age
         \/ /\ \A j \in Joints : \A k \in DOMAIN wire[j] :
                 Own(wire[j][k]) => wire[j][k].source # "DISCOVERY"
            /\ \A e \in Alive(expectations) : ~e.quarantined => e.source # "DISCOVERY",
         \/ /\ switch'.state = switch.state /\ switch'.joint = switch.joint
            /\ switch'.age = switch.age
         \/ /\ \A j \in Joints : \A k \in DOMAIN wire[j] :
                 Own(wire[j][k]) => wire[j][k].source # "MODE_READ"
            /\ switch'.state # "WRITING"
  PROVE  Fresh' /\ CurrentOK'
<1>1. ASSUME NEW j \in Joints, NEW k \in DOMAIN wire'[j]
      PROVE  LET y == wire'[j][k]
                 x == wire[j][g[j][k]]
             IN /\ g[j][k] \in DOMAIN wire[j]
                /\ y.source = x.source /\ Alike(y, x) /\ y.fate = x.fate /\ y.age = x.age
  BY DEF Calm, Places
<1>2. Fresh'
  <2> SUFFICES ASSUME NEW e \in Alive(expectations'), ~e.quarantined
               PROVE  /\ \A k \in DOMAIN wire'[e.joint] :
                           Alike(e, wire'[e.joint][k]) => wire'[e.joint][k].fate # "stale"
                      /\ e.source = "DISCOVERY" =>
                           /\ discovery'.state = "WAITING" /\ IsAsked(e.joint, e, discovery')
                           /\ discovery'.age <= e.age
    BY DEF Fresh
  <2>1. e \in Alive(expectations)
    BY DEF CalmTables
  <2>2. e.joint \in Joints
    BY <2>1, EntryFacts
  <2>3. \A k \in DOMAIN wire'[e.joint] :
          Alike(e, wire'[e.joint][k]) => wire'[e.joint][k].fate # "stale"
    <3> SUFFICES ASSUME NEW k \in DOMAIN wire'[e.joint], Alike(e, wire'[e.joint][k])
                 PROVE  wire'[e.joint][k].fate # "stale"
      OBVIOUS
    <3>1. /\ g[e.joint][k] \in DOMAIN wire[e.joint]
          /\ Alike(e, wire[e.joint][g[e.joint][k]])
          /\ wire'[e.joint][k].fate = wire[e.joint][g[e.joint][k]].fate
      BY <1>1, <2>2 DEF Alike
    <3> QED
      BY <2>1, <3>1 DEF Fresh
  <2>4. e.source = "DISCOVERY" =>
          discovery.state = "WAITING" /\ IsAsked(e.joint, e, discovery) /\ discovery.age <= e.age
    BY <2>1 DEF Fresh
  <2> QED
    BY <2>1, <2>3, <2>4 DEF IsAsked
<1>3. CurrentOK'
  <2> SUFFICES ASSUME NEW j \in Joints, NEW k \in DOMAIN wire'[j], Own(wire'[j][k])
               PROVE  /\ wire'[j][k].source = "DISCOVERY" =>
                           /\ discovery'.state = "WAITING" /\ IsAsked(j, wire'[j][k], discovery')
                           /\ discovery'.age <= wire'[j][k].age
                      /\ wire'[j][k].source = "MODE_READ" =>
                           /\ switch'.state = "READ_WAITING" /\ switch'.joint = j
                           /\ switch'.age <= wire'[j][k].age
                      /\ wire'[j][k].source = "MODE_WRITE" /\ switch'.state = "WRITING" =>
                           j < switch'.joint
    BY DEF CurrentOK
  <2> DEFINE x == wire[j][g[j][k]]
             y == wire'[j][k]
  <2>1. /\ g[j][k] \in DOMAIN wire[j]
        /\ y.source = x.source /\ Alike(y, x) /\ y.fate = x.fate /\ y.age = x.age
    BY <1>1
  <2>2. Own(x)
    BY <2>1 DEF Own
  <2>3. /\ x.source = "DISCOVERY" =>
             discovery.state = "WAITING" /\ IsAsked(j, x, discovery) /\ discovery.age <= x.age
        /\ x.source = "MODE_READ" =>
             switch.state = "READ_WAITING" /\ switch.joint = j /\ switch.age <= x.age
        /\ x.source = "MODE_WRITE" /\ switch.state = "WRITING" => j < switch.joint
    BY <2>1, <2>2 DEF CurrentOK
  <2>4. /\ y.source = "DISCOVERY" => x.source = "DISCOVERY"
        /\ IsAsked(j, x, discovery) => IsAsked(j, y, discovery)
    BY <2>1 DEF IsAsked, Alike
  <2>5. y.source = "DISCOVERY" =>
          discovery'.state = "WAITING" /\ IsAsked(j, y, discovery') /\ discovery'.age <= y.age
    BY <2>1, <2>2, <2>3, <2>4 DEF IsAsked
  <2>6. y.source = "MODE_READ" =>
          switch'.state = "READ_WAITING" /\ switch'.joint = j /\ switch'.age <= y.age
    BY <2>1, <2>2, <2>3
  <2>7. y.source = "MODE_WRITE" /\ switch'.state = "WRITING" => j < switch'.joint
    BY <2>1, <2>2, <2>3
  <2> QED
    BY <2>5, <2>6, <2>7
<1> QED
  BY <1>2, <1>3

LEMMA CalmBoot ==
  ASSUME WireType, WireType', discovery \in DiscoveryState, NEW g, Calm(g),
         BootOK, VerifiedOK, ReadWhilePending,
         discovery' = discovery \/ ~Requesting',
         verified' = verified, complete' = complete
  PROVE  BootOK' /\ VerifiedOK' /\ ReadWhilePending'
<1>1. ASSUME NEW j \in Joints, NEW k \in DOMAIN wire'[j]
      PROVE  LET y == wire'[j][k]
                 x == wire[j][g[j][k]]
             IN /\ g[j][k] \in DOMAIN wire[j]
                /\ y.source = x.source /\ Alike(y, x) /\ y.fate = x.fate /\ y.age = x.age
  BY DEF Calm, Places
<1>2. BootOK'
  <2> SUFFICES ASSUME Requesting', ~discovery'.active
               PROVE  BootOK'
    BY DEF BootOK
  <2>1. discovery' = discovery /\ Requesting /\ ~discovery.active /\ Pending' = Pending
    BY DEF Requesting, Pending
  <2>2. \A j \in Joints : \A k \in DOMAIN wire'[j] : At(j, k)' =>
          /\ discovery.state = "WAITING" /\ Sound(wire'[j][k])
          /\ discovery.age <= wire'[j][k].age
    <3> SUFFICES ASSUME NEW j \in Joints, NEW k \in DOMAIN wire'[j], At(j, k)'
                 PROVE  /\ discovery.state = "WAITING" /\ Sound(wire'[j][k])
                        /\ discovery.age <= wire'[j][k].age
      OBVIOUS
    <3>1. At(j, g[j][k]) /\ g[j][k] \in DOMAIN wire[j]
      BY <1>1 DEF At
    <3> QED
      BY <1>1, <2>1, <3>1 DEF BootOK, Sound
  <2>3. \A i, j \in Joints : \A k \in DOMAIN wire'[i], n \in DOMAIN wire'[j] :
          At(i, k)' /\ At(j, n)' => i = j /\ k = n
    <3> SUFFICES ASSUME NEW i \in Joints, NEW j \in Joints, NEW k \in DOMAIN wire'[i],
                        NEW n \in DOMAIN wire'[j], At(i, k)', At(j, n)'
                 PROVE  i = j /\ k = n
      OBVIOUS
    <3>1. /\ At(i, g[i][k]) /\ g[i][k] \in DOMAIN wire[i]
          /\ At(j, g[j][n]) /\ g[j][n] \in DOMAIN wire[j]
      BY <1>1 DEF At
    <3>2. i = j /\ g[i][k] = g[j][n]
      BY <2>1, <3>1 DEF BootOK
    <3> QED
      BY <3>2, ThinsApart DEF Calm
  <2>4. \A j \in Pending : \A k \in DOMAIN wire'[j] :
          wire'[j][k].source \notin ModeSources
    <3>1. Pending \subseteq Joints
      BY DEF Pending, DiscoveryState
    <3> QED
      BY <1>1, <2>1, <3>1 DEF BootOK
  <2> QED
    BY <2>1, <2>2, <2>3, <2>4 DEF BootOK
<1>3. VerifiedOK'
  BY DEF VerifiedOK, Requesting, Pending
<1>4. ReadWhilePending'
  <2> SUFFICES ASSUME NEW j \in Joints, NEW k \in DOMAIN wire'[j], ModeRead(wire'[j][k])
               PROVE  FinalRegister \notin verified[j]
    BY DEF ReadWhilePending
  <2>1. g[j][k] \in DOMAIN wire[j] /\ ModeRead(wire[j][g[j][k]])
    BY <1>1 DEF ModeRead, Alike
  <2> QED
    BY <2>1 DEF ReadWhilePending
<1> QED
  BY <1>2, <1>3, <1>4

\* As long as no drive answers, what the answers say stays as it is.
Still(g) ==
  /\ Thins(g)
  /\ \A j \in Joints : \A k \in DOMAIN wire'[j] :
       /\ wire'[j][k].answered = wire[j][g[j][k]].answered
       /\ wire'[j][k].mode = wire[j][g[j][k]].mode

LEMMA StillTrue ==
  ASSUME NEW g, Still(g), AnsweredOK, ReadTrue, drive' = drive
  PROVE  AnsweredOK' /\ ReadTrue'
<1>1. ASSUME NEW j \in Joints, NEW k \in DOMAIN wire'[j]
      PROVE  /\ g[j][k] \in DOMAIN wire[j] /\ Kin(wire'[j][k], wire[j][g[j][k]])
             /\ wire'[j][k].answered = wire[j][g[j][k]].answered
             /\ wire'[j][k].mode = wire[j][g[j][k]].mode
  BY DEF Still, Thins, Places
<1>2. AnsweredOK'
  <2> SUFFICES ASSUME NEW j \in Joints, NEW k \in DOMAIN wire'[j],
                      NEW n \in DOMAIN wire'[j], n < k, wire'[j][k].answered
               PROVE  wire'[j][n].answered
    BY DEF AnsweredOK
  <2>1. g[j][n] < g[j][k]
    BY DEF Still, Thins, Places
  <2> QED
    BY <1>1, <2>1 DEF AnsweredOK
<1>3. ReadTrue'
  <2> SUFFICES ASSUME NEW j \in Joints, NEW k \in DOMAIN wire'[j], wire'[j][k].answered,
                      ModeRead(wire'[j][k])
                      \/ (wire'[j][k].source = "MODE_READ" /\ Own(wire'[j][k]))
               PROVE  wire'[j][k].mode = drive[j]
    BY DEF ReadTrue
  <2> DEFINE y == wire'[j][k]
             x == wire[j][g[j][k]]
  <2>1. g[j][k] \in DOMAIN wire[j] /\ Kin(y, x) /\ x.answered /\ y.mode = x.mode
    BY <1>1
  <2>2. ModeRead(x) \/ (x.source = "MODE_READ" /\ Own(x))
    BY <2>1 DEF Kin, Alike, ModeRead
  <2>3. x.mode = drive[j]
    BY <2>1, <2>2 DEF ReadTrue
  <2> QED
    BY <2>1, <2>3
<1> QED
  BY <1>2, <1>3

LEMMA StillMode ==
  ASSUME NEW g, Still(g), ModeTrue, drive' = drive,
         \A j \in Joints : "mode" \in verified'[j] =>
           "mode" \in verified[j] /\ observed'[j] = observed[j]
  PROVE  ModeTrue'
<1> SUFFICES ASSUME NEW j \in Joints, "mode" \in verified'[j]
             PROVE  /\ observed'[j] = drive[j]
                    /\ \A k \in DOMAIN wire'[j] :
                         wire'[j][k].op = "write" => wire'[j][k].answered
  BY DEF ModeTrue
<1>1. /\ observed'[j] = drive[j]
      /\ \A k \in DOMAIN wire[j] : wire[j][k].op = "write" => wire[j][k].answered
  BY DEF ModeTrue
<1>2. ASSUME NEW k \in DOMAIN wire'[j], wire'[j][k].op = "write"
      PROVE  wire'[j][k].answered
  <2>1. /\ g[j][k] \in DOMAIN wire[j] /\ Kin(wire'[j][k], wire[j][g[j][k]])
        /\ wire'[j][k].answered = wire[j][g[j][k]].answered
    BY DEF Still, Thins, Places
  <2> QED
    BY <1>1, <1>2, <2>1 DEF Kin, Alike
<1> QED
  BY <1>1, <1>2

-----------------------------------------------------------------------------
(* Time.                                                                    *)

LEMMA Products ==
  ASSUME NEW a \in Nat, NEW b \in Nat, NEW c \in Nat
  PROVE  /\ a * c \in Nat /\ (a + 1) * c = a * c + c
         /\ a <= b => a * c <= b * c
<1>1. a * c \in Nat
  OBVIOUS
<1>2. (a + 1) * c = a * c + c
  OBVIOUS
<1>3. ASSUME a <= b
      PROVE  a * c <= b * c
  <2> DEFINE d == b - a
  <2>1. d \in Nat /\ b = a + d
    BY <1>3
  <2> HIDE DEF d
  <2>2. (a + d) * c = a * c + d * c
    BY <2>1
  <2>3. d * c \in Nat
    BY <2>1
  <2> QED
    BY <1>1, <2>1, <2>2, <2>3
<1> QED
  BY <1>1, <1>2, <1>3

\* Attempts are counted one after the other, from register to register and from
\* joint to joint.
LEMMA SlotIs ==
  ASSUME NEW j \in 1..N, NEW r \in 1..Len(Registers), NEW n \in Nat
  PROVE  /\ Slot(j, r, n) \in Nat /\ Slot(j, r, n + 1) = Slot(j, r, n) + 1
         /\ n <= Attempts => Slot(j, r, n) <= Slots
         /\ Slots \in Nat
         /\ n <= Attempts => Slot(j, r, n) <= Slot(j, r, Attempts)
         /\ r + 1 <= Len(Registers) => Slot(j, r, Attempts) = Slot(j, r + 1, 0)
         /\ \A i \in 1..N : j < i => Slot(j, r, Attempts) <= Slot(i, 1, 0)
<1> DEFINE L == Len(Registers)
           A == Attempts
           q == (j - 1) * L + (r - 1)
<1>1. /\ L \in Nat /\ L >= 1 /\ A \in Nat /\ A >= 1 /\ N \in Nat /\ j \in Nat /\ j >= 1
      /\ j <= N /\ r \in Nat /\ r >= 1 /\ r <= L
  BY Numbers
<1> HIDE DEF L, A
<1>2. (j - 1) * L \in Nat /\ j * L = (j - 1) * L + L /\ j * L <= N * L /\ N * L \in Nat
  <2>1. j - 1 \in Nat /\ (j - 1) + 1 = j
    BY <1>1
  <2> QED
    BY <1>1, <2>1, Products
<1>3. q \in Nat /\ q + 1 <= j * L /\ q + 1 <= N * L
  BY <1>1, <1>2
<1>4. /\ q * A \in Nat /\ (q + 1) * A = q * A + A /\ (q + 1) * A <= (N * L) * A
      /\ (N * L) * A \in Nat
  <2> HIDE DEF q
  <2> QED
    BY <1>1, <1>2, <1>3, Products
<1>5. \A m : Slot(j, r, m) = q * A + m
  BY DEF Slot, L, A
<1>6. Slots = (N * L) * A
  BY DEF Slots, L, A
<1>7. ASSUME r + 1 <= L
      PROVE  Slot(j, r, A) = Slot(j, r + 1, 0)
  <2>1. Slot(j, r + 1, 0) = ((j - 1) * L + r) * A
    <3>1. ((j - 1) * L + ((r + 1) - 1)) * A + 0 = ((j - 1) * L + r) * A
      BY <1>1, <1>2, Products
    <3> QED
      BY <3>1 DEF Slot, L, A
  <2>2. (j - 1) * L + r = q + 1
    BY <1>1, <1>2
  <2> QED
    BY <1>4, <1>5, <2>1, <2>2
<1>8. ASSUME NEW i \in 1..N, j < i
      PROVE  Slot(j, r, A) <= Slot(i, 1, 0)
  <2>1. i - 1 \in Nat /\ j <= i - 1
    BY <1>1, <1>8
  <2>2. (i - 1) * L \in Nat /\ j * L <= (i - 1) * L
    BY <1>1, <2>1, Products
  <2>3. Slot(i, 1, 0) = ((i - 1) * L) * A
    <3>1. ((i - 1) * L + (1 - 1)) * A + 0 = ((i - 1) * L) * A
      BY <1>1, <2>2, Products
    <3> QED
      BY <3>1 DEF Slot, L, A
  <2>4. q + 1 <= (i - 1) * L
    <3>1. j * L \in Nat
      BY <1>1, Products
    <3> HIDE DEF q
    <3> QED
      BY <1>3, <2>2, <3>1
  <2>5. (q + 1) * A <= ((i - 1) * L) * A
    <3> HIDE DEF q
    <3> QED
      BY <1>1, <1>3, <2>2, <2>4, Products
  <2> QED
    BY <1>4, <1>5, <2>3, <2>5
<1>9. /\ Slot(j, r, n) \in Nat /\ Slot(j, r, n + 1) = Slot(j, r, n) + 1
      /\ n <= A => Slot(j, r, n) <= Slot(j, r, A) /\ Slot(j, r, n) <= (N * L) * A
  <2> HIDE DEF q
  <2> QED
    BY <1>1, <1>4, <1>5
<1> QED
  BY <1>4, <1>6, <1>7, <1>8, <1>9 DEF L, A

\* One slot takes one timeout.
LEMMA BudgetIs ==
  ASSUME NEW m \in Nat, NEW n \in Nat
  PROVE  /\ Budget(m) \in Nat /\ Budget(m) >= Timeout
         /\ Budget(m + 1) = Budget(m) + Timeout
         /\ m <= n => Budget(m) <= Budget(n)
<1>1. Timeout \in Nat
  BY Counts
<1>2. /\ \A k \in Nat : Timeout * (1 + k) = (k + 1) * Timeout
      /\ (m + 1) * Timeout = m * Timeout + Timeout /\ m * Timeout \in Nat
  BY <1>1, Products
<1>3. Budget(m) = m * Timeout + Timeout
  BY <1>2 DEF Budget
<1>4. ((m + 1) + 1) * Timeout = (m + 1) * Timeout + Timeout
  BY <1>1, Products
<1>5. Budget(m + 1) = (m + 1) * Timeout + Timeout
  <2>1. m + 1 \in Nat
    OBVIOUS
  <2> QED
    BY <1>2, <1>4, <2>1 DEF Budget
<1>6. ASSUME m <= n
      PROVE  Budget(m) <= Budget(n)
  <2>1. m + 1 \in Nat /\ n + 1 \in Nat /\ m + 1 <= n + 1
    BY <1>6
  <2>2. (m + 1) * Timeout <= (n + 1) * Timeout
    BY <1>1, <2>1, Products
  <2> QED
    BY <1>2, <2>2 DEF Budget
<1> QED
  BY <1>1, <1>2, <1>3, <1>5, <1>6

\* The deadline is later than the end of any discovery.
LEMMA DeadlineIs ==
  /\ Slots \in Nat /\ Budget(Slots) \in Nat
  /\ Budget(Slots) + 2 <= DiscoveryTicks
<1>1. /\ N \in Nat /\ Attempts \in Nat /\ Len(Registers) \in Nat /\ Timeout \in Nat
      /\ DiscoveryTicks \in Nat
  BY Numbers
<1>2. N * Len(Registers) \in Nat
  BY <1>1, Products
<1>3. Slots \in Nat
  BY <1>1, <1>2, Products DEF Slots
<1>4. Budget(Slots) \in Nat
  BY <1>3, BudgetIs
<1>5. DiscoveryTicks >= Timeout * (1 + N * Len(Registers) * Attempts) + 2
  BY TimingAssumption
<1>6. Budget(Slots) = Timeout * (1 + N * Len(Registers) * Attempts)
  BY DEF Budget, Slots
<1> QED
  BY <1>1, <1>3, <1>4, <1>5, <1>6

LEMMA Reading ==
  ASSUME discovery \in DiscoveryState, VerifiedOK
  PROVE  /\ discovery.register \in 1..Len(Registers) /\ discovery.attempts \in Nat
         /\ discovery.age \in Nat /\ discovery.age <= Timeout
         /\ discovery.active \in BOOLEAN /\ discovery.target \subseteq Joints
         /\ discovery.state \in {"READY", "WAITING", "FAILED", "COMPLETE"}
         /\ Requesting => /\ discovery.joint \in 1..N /\ discovery.joint \in Joints
                          /\ discovery.joint \in Pending
<1>1. /\ discovery.register \in 1..Len(Registers) /\ discovery.attempts \in Nat
      /\ discovery.age \in 0..Timeout
      /\ discovery.active \in BOOLEAN /\ discovery.target \subseteq Joints
      /\ discovery.state \in {"READY", "WAITING", "FAILED", "COMPLETE"}
      /\ discovery.joint \in 1..(N + 1)
  BY DEF DiscoveryState
<1>2. discovery.age \in Nat /\ discovery.age <= Timeout
  BY <1>1, Counts
<1>3. ASSUME Requesting
      PROVE  discovery.joint \in 1..N /\ discovery.joint \in Joints
             /\ discovery.joint \in Pending
  <2>1. discovery.joint \in discovery.target
    BY <1>3 DEF VerifiedOK
  <2>2. discovery.joint \in Joints /\ discovery.joint \in 1..N
    BY <1>1, <2>1 DEF Joints
  <2>3. discovery.joint >= discovery.joint
    BY <2>2, Counts
  <2> QED
    BY <1>3, <2>1, <2>2, <2>3 DEF Pending
<1> QED
  BY <1>1, <1>2, <1>3

\* What a discovery has spent of its time.
LEMMA Spending ==
  ASSUME discovery \in DiscoveryState, action \in ActionState, VerifiedOK, TimeOK,
         action.kind = "DISCOVERY", Requesting
  PROVE  LET last == Budget(Slot(discovery.joint, discovery.register, Attempts))
         IN /\ last \in Nat /\ last <= Budget(Slots)
            /\ action.elapsed <= last
            /\ discovery.state = "WAITING" =>
                 action.elapsed + Timeout <= last + discovery.age
<1> DEFINE s == Slot(discovery.joint, discovery.register, 0)
           t == Slot(discovery.joint, discovery.register, discovery.attempts - 1)
           z == Slot(discovery.joint, discovery.register, Attempts)
<1>1. /\ action.elapsed \in Nat
      /\ discovery.joint \in 1..N /\ discovery.register \in 1..Len(Registers)
      /\ discovery.age \in Nat /\ discovery.age <= Timeout
  BY Reading DEF ActionState
<1>2. /\ Slots \in Nat /\ Budget(Slots) \in Nat /\ Timeout \in Nat
      /\ Attempts \in Nat /\ Attempts >= 1 /\ Attempts <= Attempts
      /\ 0 \in Nat /\ 0 <= Attempts
  BY DeadlineIs, Counts
<1>3. z \in Nat /\ z <= Slots /\ s \in Nat /\ s <= z
  BY <1>1, <1>2, SlotIs
<1>4. CASE discovery.state = "READY"
  <2>1. action.elapsed + (IF turn = "network" THEN 1 ELSE 0) <= Budget(s)
    BY <1>4 DEF TimeOK
  <2> HIDE DEF s, z
  <2>2. /\ Budget(s) \in Nat /\ Budget(s) <= Budget(z)
        /\ Budget(z) \in Nat /\ Budget(z) <= Budget(Slots)
    BY <1>2, <1>3, BudgetIs
  <2> QED
    BY <1>1, <1>2, <1>4, <2>1, <2>2 DEF z
<1>5. CASE discovery.state = "WAITING"
  <2>1. discovery.attempts \in 1..Attempts /\ action.elapsed <= discovery.age + Budget(t)
    BY <1>5 DEF TimeOK
  <2>2. discovery.attempts - 1 \in Nat /\ discovery.attempts - 1 + 1 = discovery.attempts
        /\ discovery.attempts \in Nat /\ discovery.attempts <= Attempts
    BY <1>2, <2>1
  <2>3. t \in Nat /\ t + 1 <= z
    <3> DEFINE j == discovery.joint
               r == discovery.register
               n == discovery.attempts - 1
               m == discovery.attempts
    <3>1. j \in 1..N /\ r \in 1..Len(Registers) /\ n \in Nat /\ m \in Nat
          /\ n + 1 = m /\ m <= Attempts
      BY <1>1, <2>2
    <3>2. t = Slot(j, r, n) /\ z = Slot(j, r, Attempts)
      OBVIOUS
    <3> HIDE DEF j, r, n, m, t, z
    <3>3. Slot(j, r, n) \in Nat /\ Slot(j, r, n + 1) = Slot(j, r, n) + 1
      BY <3>1, SlotIs
    <3>4. Slot(j, r, m) <= Slot(j, r, Attempts)
      BY <3>1, SlotIs
    <3>5. Slot(j, r, n + 1) = Slot(j, r, m)
      BY <3>1
    <3> QED
      BY <3>2, <3>3, <3>4, <3>5
  <2> HIDE DEF t, z
  <2>5. /\ Budget(t) \in Nat /\ Budget(t + 1) = Budget(t) + Timeout
        /\ Budget(t + 1) <= Budget(z)
        /\ Budget(z) \in Nat /\ Budget(z) <= Budget(Slots)
    <3>1. t + 1 \in Nat
      BY <2>3
    <3> QED
      BY <1>2, <1>3, <2>3, <3>1, BudgetIs
  <2> DEFINE b == Budget(t)
             c == Budget(t + 1)
             last == Budget(z)
             e == action.elapsed
             age == discovery.age
             total == Budget(Slots)
  <2>6. /\ b \in Nat /\ c = b + Timeout /\ c <= last /\ last \in Nat /\ last <= total
        /\ e \in Nat /\ age \in Nat /\ age <= Timeout /\ e <= age + b
        /\ total \in Nat /\ Timeout \in Nat
    BY <1>1, <1>2, <2>1, <2>5
  <2> HIDE DEF b, c, last, e, age, total
  <2>7. e <= last /\ e + Timeout <= last + age
    BY <2>6
  <2>8. last \in Nat /\ last <= total
    BY <2>6
  <2> QED
    BY <2>7, <2>8 DEF last, e, age, total, z
<1> QED
  BY <1>4, <1>5 DEF Requesting

LEMMA InTime ==
  ASSUME discovery \in DiscoveryState, action \in ActionState, VerifiedOK, TimeOK
  PROVE  DiscoveryInTime
<1> SUFFICES ASSUME action.kind = "DISCOVERY"
             PROVE  action.elapsed < DiscoveryTicks
  BY DEF DiscoveryInTime
<1>1. /\ action.elapsed \in Nat /\ Budget(Slots) \in Nat /\ DiscoveryTicks \in Nat
      /\ Budget(Slots) + 2 <= DiscoveryTicks
  BY DeadlineIs, Counts DEF ActionState
<1>2. CASE Requesting
  <2> DEFINE last == Budget(Slot(discovery.joint, discovery.register, Attempts))
  <2>1. last \in Nat /\ last <= Budget(Slots) /\ action.elapsed <= last
    BY <1>2, Spending
  <2> HIDE DEF last
  <2> QED
    BY <1>1, <2>1
<1>3. CASE ~Requesting
  <2>1. action.elapsed + (IF turn = "network" THEN 1 ELSE 0) <= Budget(Slots) + 1
    BY <1>3 DEF TimeOK
  <2> QED
    BY <1>1, <2>1
<1> QED
  BY <1>2, <1>3
-----------------------------------------------------------------------------
(* Steps that leave the wire alone.                                         *)

Stay == [j \in Joints |-> [k \in Nat |-> k]]

LEMMA SameWire ==
  ASSUME WireType, wire' = wire
  PROVE  WireType' /\ Calm(Stay) /\ Still(Stay)
<1>1. \A j \in Joints : \A k \in DOMAIN wire[j] : k \in Nat /\ Stay[j][k] = k
  BY WireFacts DEF WireType, Stay
<1>2. Calm(Stay)
  BY <1>1 DEF Calm, Places, Alike
<1>3. Still(Stay)
  BY <1>1, <1>2, CalmThins DEF Still
<1> QED
  BY <1>2, <1>3 DEF WireType

LEMMA TombstonesAfter ==
  ASSUME TablesType', TablesOK'
  PROVE  \A e : e \in Tombstones' <=> e \in Table' /\ e.quarantined
<1>1. /\ ToSet(Live(expectations')) = Alive(expectations')
      /\ ToSet(Live(quarantine')) = Alive(quarantine')
  BY LiveIs DEF TablesType
<1>2. \A e \in Alive(quarantine') : e.quarantined
  BY DEF TablesOK, Alive
<1> QED
  BY <1>1, <1>2 DEF Tombstones, Table

\* Tables are compacted at most.
Expiry ==
  /\ expectations' \in {expectations, Live(expectations)}
  /\ quarantine' \in {quarantine, Live(quarantine)}

LEMMA ExpiryIs ==
  ASSUME TablesType, TablesOK, Expiry
  PROVE  /\ TablesType' /\ TablesOK' /\ CalmTables
         /\ \A e : e \in Tombstones' <=> e \in Tombstones
<1>1. /\ Live(expectations) \in Seq(TableEntry)
      /\ Len(Live(expectations)) <= Len(expectations)
      /\ ToSet(Live(expectations)) = Alive(expectations)
      /\ Alive(Live(expectations)) = Alive(expectations)
      /\ Unique(Live(expectations))
      /\ Live(quarantine) \in Seq(TableEntry)
      /\ ToSet(Live(quarantine)) = Alive(quarantine)
      /\ Alive(Live(quarantine)) = Alive(quarantine)
  BY LiveIs DEF TablesType, TablesOK
<1>2. TablesType' /\ Alive(expectations') = Alive(expectations)
      /\ Alive(quarantine') = Alive(quarantine)
  BY <1>1 DEF TablesType, Expiry
<1>3. ToSet(expectations') \subseteq ToSet(expectations)
      /\ ToSet(quarantine') \subseteq ToSet(quarantine)
  BY <1>1 DEF Expiry, Alive
<1>4. Len(expectations') <= Capacity /\ Unique(expectations')
  <2>1. Len(expectations) \in Nat /\ Len(Live(expectations)) \in Nat
    BY <1>1 DEF TablesType
  <2> QED
    BY <1>1, <2>1, Counts DEF TablesOK, Expiry
<1>5. TablesOK'
  BY <1>3, <1>4 DEF TablesOK, TableOK
<1>6. Table' = Table
  BY <1>2 DEF Table
<1>7. CalmTables
  BY <1>2, <1>6 DEF CalmTables
<1> QED
  BY <1>2, <1>5, <1>6, <1>7, TombstonesAre, TombstonesAfter

\* The traffic when requests, answers and results stay.
LEMMA CalmStep ==
  ASSUME TypeOK, Traffic, wire' = wire, TablesType', CalmTables,
         UNCHANGED <<results, drive>>,
         \/ discovery' = discovery
         \/ /\ \A j \in Joints : \A k \in DOMAIN wire[j] :
                 Own(wire[j][k]) => wire[j][k].source # "DISCOVERY"
            /\ \A e \in Alive(expectations) : ~e.quarantined => e.source # "DISCOVERY"
            /\ ~Requesting',
         \/ /\ switch'.state = switch.state /\ switch'.joint = switch.joint
            /\ switch'.age = switch.age
         \/ /\ \A j \in Joints : \A k \in DOMAIN wire[j] :
                 Own(wire[j][k]) => wire[j][k].source # "MODE_READ"
            /\ switch'.state # "WRITING"
  PROVE  Traffic' /\ WireType'
<1>1. /\ WireType /\ TablesType /\ discovery \in DiscoveryState
      /\ WireOK /\ AnsweredOK /\ OrderOK /\ Twins /\ Covered /\ Fresh /\ CurrentOK
      /\ NoThree /\ Locked /\ BootOK /\ VerifiedOK /\ ReadWhilePending /\ ModeTrue /\ ReadTrue
  BY DEF TypeOK, Traffic
<1>2. WireType' /\ Calm(Stay) /\ Still(Stay) /\ Thins(Stay)
  BY <1>1, SameWire, CalmThins
<1>3. UNCHANGED <<verified, complete, observed, drive>>
  BY DEF results
<1>4. WireOK' /\ OrderOK' /\ NoThree'
  BY <1>1, <1>2, ThinsShape
<1>5. AnsweredOK' /\ ReadTrue'
  BY <1>1, <1>2, <1>3, StillTrue
<1>6. Twins' /\ Covered' /\ Locked'
  BY <1>1, <1>2, CalmCover
<1>7. Fresh' /\ CurrentOK'
  BY <1>1, <1>2, CalmFresh
<1>8. BootOK' /\ VerifiedOK' /\ ReadWhilePending'
  BY <1>1, <1>2, <1>3, CalmBoot
<1>9. ModeTrue'
  BY <1>1, <1>2, <1>3, StillMode
<1> QED
  BY <1>2, <1>4, <1>5, <1>6, <1>7, <1>8, <1>9 DEF Traffic

\* A service that leaves the sequences alone.
LEMMA KeepStep ==
  ASSUME IInv, InService, Keep,
         \/ action' = action /\ (action.kind = "IDLE" \/ (~Concluded /\ ~Overdue))
         \/ action' = Idle /\ (Concluded \/ Overdue)
  PROVE  IInv'
<1>1. /\ TypeOK /\ TablesOK /\ Traffic
      /\ ActiveOK /\ SwitchOK /\ ProgressOK /\ TimeOK /\ VerifiedOK
  BY DEF IInv, Course, Traffic
<1>2. /\ discovery' = discovery /\ switch' = switch /\ wire' = wire
      /\ Expiry /\ UNCHANGED <<results, drive>>
      /\ turn = "service" /\ turn' = "pump"
  BY DEF Keep, InService, Expiry, tables
<1>3. TablesType' /\ TablesOK' /\ CalmTables /\ \A e : e \in Tombstones' <=> e \in Tombstones
  BY <1>1, <1>2, ExpiryIs DEF TypeOK
<1>4. Traffic' /\ WireType'
  BY <1>1, <1>2, <1>3, CalmStep
<1>5. Idle \in ActionState /\ Idle.kind = "IDLE"
  BY DEF Idle, ActionState
<1>6. TypeOK'
  <2>1. action' \in ActionState
    BY <1>1, <1>5 DEF TypeOK
  <2> QED
    BY <1>1, <1>2, <1>3, <1>4, <2>1
       DEF TypeOK, ResultsType, TurnType, DriveType, results
<1>7. CASE action' = action /\ (action.kind = "IDLE" \/ (~Concluded /\ ~Overdue))
  <2>1. ActiveOK'
    BY <1>1, <1>2, <1>3, <1>7 DEF ActiveOK, Requesting, Blocks
  <2>2. SwitchOK'
    BY <1>1, <1>2, <1>7 DEF SwitchOK, results
  <2>3. ProgressOK'
    <3>1. action.kind = "DISCOVERY" => Requesting
      BY <1>1, <1>7 DEF ProgressOK, Concluded, DiscoveryDone
    <3>2. UNCHANGED <<verified, complete, discovery>>
      BY <1>2 DEF results
    <3> QED
      BY <1>1, <1>7, <3>1, <3>2 DEF ProgressOK, Requesting, Pending
  <2>4. TimeOK'
    BY <1>1, <1>2, <1>3, <1>7 DEF TimeOK, Requesting
  <2> QED
    BY <1>3, <1>4, <1>6, <2>1, <2>2, <2>3, <2>4 DEF IInv, Course
<1>8. CASE action' = Idle /\ (Concluded \/ Overdue)
  <2>1. ~discovery.active
    <3>1. CASE Concluded
      BY <1>1, <3>1 DEF ActiveOK, Concluded, DiscoveryDone, Requesting
    <3>2. CASE Overdue
      <4>1. action.kind = "DISCOVERY" => action.elapsed < DiscoveryTicks
        BY <1>1, InTime DEF TypeOK, DiscoveryInTime
      <4>2. action.elapsed \in Nat /\ DiscoveryTicks \in Nat
        BY <1>1, Counts DEF TypeOK, ActionState
      <4>3. action.kind # "DISCOVERY"
        BY <3>2, <4>1, <4>2 DEF Overdue
      <4> QED
        BY <1>1, <4>3 DEF ActiveOK
    <3> QED
      BY <1>8, <3>1, <3>2
  <2>2. ActiveOK' /\ SwitchOK' /\ ProgressOK' /\ TimeOK'
    BY <1>1, <1>2, <1>5, <1>8, <2>1
       DEF ActiveOK, SwitchOK, ProgressOK, TimeOK, Requesting
  <2> QED
    BY <1>3, <1>4, <1>6, <2>2 DEF IInv, Course
<1> QED
  BY <1>7, <1>8

\* A cycle without a request.
LEMMA QuietPump ==
  ASSUME IInv, InPump, UNCHANGED <<discovery, switch, wire>>,
         Expiry,
         action.kind = "DISCOVERY" /\ discovery.state = "READY" => Blocks,
         action.kind = "DISCOVERY" /\ discovery.state = "WAITING" => discovery.age < Timeout
  PROVE  IInv'
<1>1. /\ TypeOK /\ TablesOK /\ Traffic
      /\ ActiveOK /\ SwitchOK /\ ProgressOK /\ TimeOK /\ VerifiedOK
  BY DEF IInv, Course, Traffic
<1>2. /\ discovery' = discovery /\ switch' = switch /\ wire' = wire
      /\ UNCHANGED <<results, drive>> /\ action' = action
      /\ turn = "pump" /\ turn' = "network"
  BY DEF InPump
<1>3. TablesType' /\ TablesOK' /\ CalmTables /\ \A e : e \in Tombstones' <=> e \in Tombstones
  BY <1>1, <1>2, ExpiryIs DEF TypeOK
<1>4. Traffic' /\ WireType'
  BY <1>1, <1>2, <1>3, CalmStep
<1>5. TypeOK'
  BY <1>1, <1>2, <1>3, <1>4
     DEF TypeOK, ResultsType, TurnType, DriveType, results
<1>6. UNCHANGED <<verified, complete, discovery, switch, action>>
  BY <1>2 DEF results
<1>7. ActiveOK'
  BY <1>1, <1>3, <1>6 DEF ActiveOK, Requesting, Blocks
<1>8. SwitchOK' /\ ProgressOK'
  BY <1>1, <1>2, <1>6 DEF SwitchOK, ProgressOK, Requesting, Pending
<1>9. TimeOK'
  <2> SUFFICES ASSUME action.kind = "DISCOVERY"
               PROVE  TimeOK'
    BY <1>6 DEF TimeOK
  <2>1. action.elapsed \in Nat /\ Requesting
    BY <1>1, <1>2 DEF TypeOK, ActionState, ProgressOK
  <2>2. ASSUME discovery.state = "READY"
        PROVE  action.elapsed + 1 <= Budget(Slot(discovery.joint, discovery.register, 0))
    <3>1. discovery.active
      BY <1>1, <2>1 DEF ActiveOK
    <3>2. PICK e \in Tombstones : action.elapsed <= e.age
      BY <1>1, <2>2, <3>1 DEF TimeOK, Blocks
    <3>3. e.age \in Nat /\ e.age < Timeout
      BY <1>1, <3>2, TombstonesAre, EntryFacts DEF TypeOK
    <3>4. Timeout \in Nat /\ Timeout <= Budget(Slot(discovery.joint, discovery.register, 0))
          /\ Budget(Slot(discovery.joint, discovery.register, 0)) \in Nat
      <4>1. /\ discovery.joint \in 1..N /\ discovery.register \in 1..Len(Registers)
            /\ 0 \in Nat
        BY <1>1, <2>1, Reading DEF TypeOK
      <4>2. Slot(discovery.joint, discovery.register, 0) \in Nat
        BY <4>1, SlotIs
      <4> QED
        BY <4>2, BudgetIs, Counts
    <3> QED
      BY <2>1, <3>2, <3>3, <3>4
  <2> QED
    BY <1>1, <1>2, <1>3, <1>6, <2>1, <2>2 DEF TimeOK, Requesting
<1> QED
  BY <1>3, <1>4, <1>5, <1>7, <1>8, <1>9 DEF IInv, Course

\* A discovery that is given up.
LEMMA FailPump ==
  ASSUME IInv, InPump, action.kind # "MODE", UNCHANGED <<switch, wire>>, Expiry,
         FailDiscovery, discovery.state = "READY" \/ (Waiting /\ discovery.age >= Timeout)
  PROVE  IInv'
<1>1. /\ TypeOK /\ TablesOK /\ Traffic /\ Fresh /\ CurrentOK
      /\ ActiveOK /\ SwitchOK /\ ProgressOK /\ TimeOK /\ VerifiedOK
  BY DEF IInv, Course, Traffic
<1>2. /\ switch' = switch /\ wire' = wire
      /\ UNCHANGED <<results, drive>> /\ action' = action
      /\ turn = "pump" /\ turn' = "network"
  BY DEF InPump
<1>3. TablesType' /\ TablesOK' /\ CalmTables
  BY <1>1, <1>2, ExpiryIs DEF TypeOK
<1>4. /\ discovery' \in DiscoveryState /\ discovery'.state = "FAILED"
      /\ discovery'.active = FALSE /\ ~Requesting'
  <2>1. discovery \in DiscoveryState
    BY <1>1 DEF TypeOK
  <2>2. discovery' \in DiscoveryState /\ discovery'.state = "FAILED"
        /\ discovery'.active = FALSE
    BY <2>1 DEF FailDiscovery, DiscoveryState
  <2> QED
    BY <2>2 DEF Requesting
<1>5. discovery.age \in Nat
  BY <1>1, Reading DEF TypeOK
<1>6. /\ \A j \in Joints : \A k \in DOMAIN wire[j] :
           Own(wire[j][k]) => wire[j][k].source # "DISCOVERY"
      /\ \A e \in Alive(expectations) : ~e.quarantined => e.source # "DISCOVERY"
  BY <1>1, <1>5, NothingAsked DEF TypeOK
<1>7. Traffic' /\ WireType'
  BY <1>1, <1>2, <1>3, <1>4, <1>6, CalmStep
<1>8. TypeOK'
  BY <1>1, <1>2, <1>3, <1>4, <1>7
     DEF TypeOK, ResultsType, TurnType, DriveType, results
<1>9. UNCHANGED <<verified, complete, switch, action>>
  BY <1>2 DEF results
<1>10. ActiveOK' /\ SwitchOK' /\ ProgressOK'
  BY <1>1, <1>2, <1>4, <1>9 DEF ActiveOK, SwitchOK, ProgressOK
<1>11. TimeOK'
  <2> SUFFICES ASSUME action.kind = "DISCOVERY"
               PROVE  action.elapsed + 1 <= Budget(Slots) + 1
    BY <1>2, <1>4 DEF TimeOK, Requesting
  <2> DEFINE last == Budget(Slot(discovery.joint, discovery.register, Attempts))
  <2>1. last \in Nat /\ last <= Budget(Slots) /\ action.elapsed <= last
    BY <1>1, Spending DEF TypeOK, Requesting, Waiting
  <2>2. action.elapsed \in Nat /\ Budget(Slots) \in Nat
    BY <1>1, DeadlineIs DEF TypeOK, ActionState
  <2> HIDE DEF last
  <2> QED
    BY <2>1, <2>2
<1> QED
  BY <1>3, <1>7, <1>8, <1>10, <1>11 DEF IInv, Course

-----------------------------------------------------------------------------
(* Requests.                                                                *)

\* The wire with a request z at its end.
LEMMA EmitIs ==
  ASSUME WireType, NEW d \in Joints, NEW z \in Item, Emit(d, z)
  PROVE  LET last == Len(wire[d]) + 1
         IN /\ WireType' /\ last \in DOMAIN wire'[d] /\ wire'[d][last] = z
            /\ \A j \in Joints : \A k \in DOMAIN wire'[j] :
                 \/ k \in DOMAIN wire[j] /\ wire'[j][k] = wire[j][k]
                 \/ j = d /\ k = last /\ wire'[j][k] = z
            /\ \A j \in Joints : \A k \in DOMAIN wire[j] :
                 /\ k \in DOMAIN wire'[j] /\ wire'[j][k] = wire[j][k]
                 /\ j = d => k < last /\ ~(last < k) /\ k # last
<1> DEFINE last == Len(wire[d]) + 1
           t == Append(wire[d], z)
<1>1. wire' = [wire EXCEPT ![d] = t]
  BY DEF Emit
<1>2. /\ \A j \in Joints : wire[j] \in Seq(Item)
      /\ wire \in [Joints -> Seq(Item)] /\ Len(wire[d]) \in Nat
      /\ DOMAIN wire[d] = 1..Len(wire[d])
  BY WireFacts DEF WireType
<1>3. /\ t \in Seq(Item) /\ DOMAIN t = 1..last /\ t[last] = z
      /\ \A k \in 1..Len(wire[d]) : t[k] = wire[d][k]
  BY <1>2
<1>4. \A k : k \in 1..last <=> k \in 1..Len(wire[d]) \/ k = last
  BY <1>2
<1> HIDE DEF t
<1>5. /\ wire' \in [Joints -> Seq(Item)] /\ wire'[d] = t
      /\ \A j \in Joints : j # d => wire'[j] = wire[j]
  BY <1>1, <1>2, <1>3
<1>6. \A k \in 1..Len(wire[d]) : k < last /\ ~(last < k) /\ k # last
  BY <1>2
<1> HIDE DEF last
<1> QED
  BY <1>2, <1>3, <1>4, <1>5, <1>6 DEF WireType, last

\* What there must be, and must not be, for a request to be sent.
Hits(f, e) == f.source = e.source /\ Same(f, e)
Adds(e) ==
  /\ e \in Alive(expectations') /\ ~e.quarantined /\ e.age = 0
  /\ \A f \in Table : f \in Table' \/ Hits(f, e)
  /\ Alive(quarantine) \subseteq Alive(quarantine')
  /\ \A f \in Alive(expectations) :
       ~f.quarantined => f \in Alive(expectations') \/ Hits(f, e)
  /\ \A f \in Alive(expectations') :
       ~f.quarantined => f \in Alive(expectations) \/ f = e
Sendable(d, z) ==
  /\ Shaped(z)
  /\ z.op = "write" => z.mode \in Modes
  /\ ~z.answered /\ z.fate = "current" /\ z.age = 0
  /\ \A k \in DOMAIN wire[d] :
       /\ z.source \in ModeSources => ~ModeRead(wire[d][k])
       /\ z.source = "DISCOVERY" /\ Own(wire[d][k]) => wire[d][k].source # "DISCOVERY"
       /\ z.op = "write" /\ Own(wire[d][k]) => wire[d][k].source # "MODE_READ"
       /\ Alike(wire[d][k], z) /\ Sound(wire[d][k]) =>
            /\ Own(wire[d][k]) /\ wire[d][k].source = "MODE_READ"
            /\ z.source = "DISCOVERY"
  /\ z.source = "DISCOVERY" =>
       \A i, j \in Joints : \A k \in DOMAIN wire[i], n \in DOMAIN wire[j] :
         At(i, k) /\ At(j, n) => i = j /\ k = n
  /\ z.source \in ModeSources => \A f \in Alive(quarantine) : ~Of(f, d, z)
  /\ z.op = "write" => "mode" \notin verified[d]
  /\ ModeRead(z) => FinalRegister \notin verified[d]

LEMMA EmitShape ==
  ASSUME WireType, WireOK, AnsweredOK, OrderOK, NoThree, ReadTrue, ModeTrue,
         ReadWhilePending, NEW d \in Joints, NEW z \in Item, Emit(d, z), Sendable(d, z),
         UNCHANGED <<results, drive>>
  PROVE  /\ WireOK' /\ AnsweredOK' /\ OrderOK' /\ NoThree' /\ ReadTrue' /\ ModeTrue'
         /\ ReadWhilePending'
<1> DEFINE last == Len(wire[d]) + 1
<1>1. /\ WireType' /\ last \in DOMAIN wire'[d] /\ wire'[d][last] = z
      /\ \A j \in Joints : \A k \in DOMAIN wire'[j] :
           \/ k \in DOMAIN wire[j] /\ wire'[j][k] = wire[j][k]
           \/ j = d /\ k = last /\ wire'[j][k] = z
      /\ \A j \in Joints : \A k \in DOMAIN wire[j] :
           /\ k \in DOMAIN wire'[j] /\ wire'[j][k] = wire[j][k]
           /\ j = d => k < last /\ ~(last < k) /\ k # last
  BY EmitIs
<1>2. UNCHANGED <<verified, complete, observed, drive>>
  BY DEF results
<1>3. ~(last < last)
  BY WireFacts DEF WireType
<1> HIDE DEF last
<1>4. WireOK'
  <2> SUFFICES ASSUME NEW j \in Joints, NEW k \in DOMAIN wire'[j]
               PROVE  /\ Shaped(wire'[j][k])
                      /\ wire'[j][k].source \in ModeSources => Sound(wire'[j][k])
                      /\ wire'[j][k].op = "write" => wire'[j][k].mode \in Modes
    BY DEF WireOK
  <2>1. CASE k \in DOMAIN wire[j] /\ wire'[j][k] = wire[j][k]
    BY <2>1 DEF WireOK
  <2>2. CASE wire'[j][k] = z
    BY <2>2 DEF Sendable, Sound
  <2> QED
    BY <1>1, <2>1, <2>2
<1>5. AnsweredOK'
  <2> SUFFICES ASSUME NEW j \in Joints, NEW k \in DOMAIN wire'[j],
                      NEW n \in DOMAIN wire'[j], n < k, wire'[j][k].answered
               PROVE  wire'[j][n].answered
    BY DEF AnsweredOK
  <2>1. k \in DOMAIN wire[j] /\ wire'[j][k] = wire[j][k]
    BY <1>1 DEF Sendable
  <2>2. n \in DOMAIN wire[j] /\ wire'[j][n] = wire[j][n]
    BY <1>1, <2>1
  <2> QED
    BY <2>1, <2>2 DEF AnsweredOK
<1>6. OrderOK'
  <2> SUFFICES ASSUME NEW j \in Joints, NEW k \in DOMAIN wire'[j],
                      NEW n \in DOMAIN wire'[j], n < k
               PROVE  /\ wire'[j][k].source \in ModeSources => ~ModeRead(wire'[j][n])
                      /\ wire'[j][n].source = "DISCOVERY" /\ Own(wire'[j][n]) =>
                           wire'[j][k].source # "DISCOVERY"
                      /\ wire'[j][n].source = "MODE_READ" /\ Own(wire'[j][n]) =>
                           wire'[j][k].op # "write"
    BY DEF OrderOK
  <2>1. n \in DOMAIN wire[j] /\ wire'[j][n] = wire[j][n]
    BY <1>1, <1>3
  <2>2. CASE k \in DOMAIN wire[j] /\ wire'[j][k] = wire[j][k]
    BY <2>1, <2>2 DEF OrderOK
  <2>3. CASE j = d /\ wire'[j][k] = z
    BY <2>1, <2>3 DEF Sendable
  <2> QED
    BY <1>1, <2>2, <2>3
<1>7. NoThree'
  <2> SUFFICES ASSUME NEW i \in Joints, NEW j \in Joints, NEW l \in Joints,
                      NEW k \in DOMAIN wire'[i], NEW n \in DOMAIN wire'[j],
                      NEW m \in DOMAIN wire'[l],
                      At(i, k)', At(j, n)', At(l, m)'
               PROVE  (i = j /\ k = n) \/ (i = l /\ k = m) \/ (j = l /\ n = m)
    BY DEF NoThree
  <2>1. /\ (k \in DOMAIN wire[i] /\ At(i, k))
             \/ (i = d /\ k = last /\ z.source = "DISCOVERY")
        /\ (n \in DOMAIN wire[j] /\ At(j, n))
             \/ (j = d /\ n = last /\ z.source = "DISCOVERY")
        /\ (m \in DOMAIN wire[l] /\ At(l, m))
             \/ (l = d /\ m = last /\ z.source = "DISCOVERY")
    BY <1>1 DEF At
  <2>2. CASE z.source = "DISCOVERY"
    BY <2>1, <2>2 DEF Sendable
  <2>3. CASE z.source # "DISCOVERY"
    BY <2>1, <2>3 DEF NoThree
  <2> QED
    BY <2>2, <2>3
<1>8. ReadTrue'
  <2> SUFFICES ASSUME NEW j \in Joints, NEW k \in DOMAIN wire'[j], wire'[j][k].answered,
                      ModeRead(wire'[j][k])
                      \/ (wire'[j][k].source = "MODE_READ" /\ Own(wire'[j][k]))
               PROVE  wire'[j][k].mode = drive[j]
    BY <1>2 DEF ReadTrue
  <2>1. k \in DOMAIN wire[j] /\ wire'[j][k] = wire[j][k]
    BY <1>1 DEF Sendable
  <2> QED
    BY <2>1 DEF ReadTrue
<1>9. ModeTrue'
  <2> SUFFICES ASSUME NEW j \in Joints, "mode" \in verified[j]
               PROVE  /\ observed[j] = drive[j]
                      /\ \A k \in DOMAIN wire'[j] :
                           wire'[j][k].op = "write" => wire'[j][k].answered
    BY <1>2 DEF ModeTrue
  <2>1. ASSUME NEW k \in DOMAIN wire'[j], wire'[j][k].op = "write"
        PROVE  wire'[j][k].answered
    <3>1. k \in DOMAIN wire[j] /\ wire'[j][k] = wire[j][k]
      BY <1>1, <2>1 DEF Sendable
    <3> QED
      BY <2>1, <3>1 DEF ModeTrue
  <2> QED
    BY <2>1 DEF ModeTrue
<1>10. ReadWhilePending'
  <2> SUFFICES ASSUME NEW j \in Joints, NEW k \in DOMAIN wire'[j], ModeRead(wire'[j][k])
               PROVE  FinalRegister \notin verified[j]
    BY <1>2 DEF ReadWhilePending
  <2>1. CASE k \in DOMAIN wire[j] /\ wire'[j][k] = wire[j][k]
    BY <2>1 DEF ReadWhilePending
  <2>2. CASE j = d /\ wire'[j][k] = z
    BY <2>2 DEF Sendable
  <2> QED
    BY <1>1, <2>1, <2>2
<1> QED
  BY <1>4, <1>5, <1>6, <1>7, <1>8, <1>9, <1>10

LEMMA EmitCover ==
  ASSUME WireType, TablesType, Twins, Covered, Locked, Fresh, NEW d \in Joints,
         NEW z \in Item, Emit(d, z), Sendable(d, z),
         NEW e \in TableEntry, e.source = z.source, Of(e, d, z), Adds(e)
  PROVE  /\ Twins' /\ Covered' /\ Locked'
         /\ \A f \in Alive(expectations') : ~f.quarantined =>
              \A k \in DOMAIN wire'[f.joint] :
                Alike(f, wire'[f.joint][k]) => wire'[f.joint][k].fate # "stale"
<1> DEFINE last == Len(wire[d]) + 1
<1>1. /\ WireType' /\ last \in DOMAIN wire'[d] /\ wire'[d][last] = z
      /\ \A j \in Joints : \A k \in DOMAIN wire'[j] :
           \/ k \in DOMAIN wire[j] /\ wire'[j][k] = wire[j][k]
           \/ j = d /\ k = last /\ wire'[j][k] = z
      /\ \A j \in Joints : \A k \in DOMAIN wire[j] :
           /\ k \in DOMAIN wire'[j] /\ wire'[j][k] = wire[j][k]
           /\ j = d => k < last /\ ~(last < k) /\ k # last
  BY EmitIs
<1>2. ~(last < last)
  BY WireFacts DEF WireType
<1> HIDE DEF last
\* An entry that is replaced covers nothing stale.
<1>3. ASSUME NEW j \in Joints, NEW k \in DOMAIN wire[j], wire[j][k].fate = "stale",
             NEW f, Of(f, j, wire[j][k])
      PROVE  ~Hits(f, e)
  <2> SUFFICES ASSUME Hits(f, e) PROVE FALSE
    OBVIOUS
  <2>1. j = d /\ Alike(wire[j][k], z)
    BY <1>3 DEF Hits, Same, Of, Alike
  <2>2. Sound(wire[j][k]) /\ ~Own(wire[j][k])
    BY <1>3 DEF Sound, Own
  <2> QED
    BY <2>1, <2>2 DEF Sendable
<1>4. Twins'
  <2> SUFFICES ASSUME NEW j \in Joints, NEW k \in DOMAIN wire'[j],
                      NEW n \in DOMAIN wire'[j], k < n,
                      Alike(wire'[j][k], wire'[j][n]),
                      Sound(wire'[j][k]), Sound(wire'[j][n])
               PROVE  /\ wire'[j][k].source = "MODE_READ"
                      /\ wire'[j][n].source = "DISCOVERY"
                      /\ wire'[j][k].fate = wire'[j][n].fate
                      /\ wire'[j][k].fate = "stale" =>
                           CoveredTwice(j, wire'[j][k], wire'[j][n], Table')
    BY DEF Twins
  <2>1. k \in DOMAIN wire[j] /\ wire'[j][k] = wire[j][k]
    BY <1>1, <1>2
  <2>2. CASE n \in DOMAIN wire[j] /\ wire'[j][n] = wire[j][n]
    <3>1. /\ wire[j][k].source = "MODE_READ" /\ wire[j][n].source = "DISCOVERY"
          /\ wire[j][k].fate = wire[j][n].fate
          /\ wire[j][k].fate = "stale" => CoveredTwice(j, wire[j][k], wire[j][n], Table)
      BY <2>1, <2>2 DEF Twins
    <3>2. ASSUME wire[j][k].fate = "stale"
          PROVE  CoveredTwice(j, wire[j][k], wire[j][n], Table')
      <4>1. CoveredTwice(j, wire[j][k], wire[j][n], Table)
        BY <3>1, <3>2
      <4>2. \A f \in Table : Of(f, j, wire[j][k]) => f \in Table'
        BY <1>3, <2>1, <3>2 DEF Adds
      <4> QED
        BY <4>1, <4>2 DEF CoveredTwice
    <3> QED
      BY <2>1, <2>2, <3>1, <3>2
  <2>3. CASE j = d /\ wire'[j][n] = z
    <3>1. Own(wire[j][k]) /\ wire[j][k].source = "MODE_READ" /\ z.source = "DISCOVERY"
      BY <2>1, <2>3 DEF Sendable
    <3>2. z.fate = "current"
      BY DEF Sendable
    <3> QED
      BY <2>1, <2>3, <3>1, <3>2 DEF Own
  <2> QED
    BY <1>1, <2>2, <2>3
<1>5. Covered'
  <2> SUFFICES ASSUME NEW j \in Joints, NEW k \in DOMAIN wire'[j]
               PROVE  /\ wire'[j][k].fate = "current" =>
                           CoveredCurrent(j, wire'[j][k], Alive(expectations'))
                      /\ wire'[j][k].fate = "stale" =>
                           CoveredStale(j, wire'[j][k], Table')
    BY DEF Covered
  <2>1. e.age <= 0
    BY DEF Adds
  <2>2. CASE k \in DOMAIN wire[j] /\ wire'[j][k] = wire[j][k]
    <3> DEFINE x == wire[j][k]
    <3>1. ASSUME x.fate = "current"
          PROVE  CoveredCurrent(j, x, Alive(expectations'))
      <4>1. PICK f \in Alive(expectations) :
              f.source = x.source /\ Of(f, j, x) /\ ~f.quarantined /\ f.age <= x.age
        BY <2>2, <3>1 DEF Covered, CoveredCurrent
      <4>2. CASE f \in Alive(expectations')
        BY <4>1, <4>2 DEF CoveredCurrent
      <4>3. CASE Hits(f, e)
        <5>1. e.source = x.source /\ Of(e, j, x) /\ ~e.quarantined
              /\ e \in Alive(expectations')
          BY <4>1, <4>3 DEF Hits, Same, Of, Alike, Adds
        <5>2. e.age = 0 /\ x.age \in Nat
          BY <2>2, WireFacts DEF WireType, Adds
        <5>3. e.age <= x.age
          BY <5>2
        <5> QED
          BY <5>1, <5>3 DEF CoveredCurrent
      <4> QED
        BY <4>1, <4>2, <4>3 DEF Adds
    <3>2. ASSUME x.fate = "stale"
          PROVE  CoveredStale(j, x, Table')
      <4>1. CoveredStale(j, x, Table)
        BY <2>2, <3>2 DEF Covered
      <4>2. \A f \in Table : Of(f, j, x) => f \in Table'
        BY <1>3, <2>2, <3>2 DEF Adds
      <4> QED
        BY <4>1, <4>2 DEF CoveredStale
    <3> QED
      BY <2>2, <3>1, <3>2
  <2>3. CASE j = d /\ wire'[j][k] = z
    <3>1. z.fate = "current" /\ z.age = 0
      BY DEF Sendable
    <3>2. CoveredCurrent(d, z, Alive(expectations'))
      BY <2>1, <3>1 DEF CoveredCurrent, Adds
    <3> QED
      BY <2>3, <3>1, <3>2
  <2> QED
    BY <1>1, <2>2, <2>3
<1>6. Locked'
  <2> SUFFICES ASSUME NEW i \in Joints, NEW j \in Joints, NEW k \in DOMAIN wire'[i],
                      NEW n \in DOMAIN wire'[j], At(i, k)', At(j, n)', ~(i = j /\ k = n),
                      ~Own(wire'[i][k]), ~Own(wire'[j][n])
               PROVE  Locks(wire'[i][k], wire'[j][n], Alive(quarantine'), wire')
    BY DEF Locked
  <2>1. /\ k \in DOMAIN wire[i] /\ wire'[i][k] = wire[i][k]
        /\ n \in DOMAIN wire[j] /\ wire'[j][n] = wire[j][n]
    BY <1>1 DEF Sendable, Own
  <2> DEFINE x == wire[i][k]
             y == wire[j][n]
  <2>2. Locks(x, y, Alive(quarantine), wire)
    BY <2>1 DEF Locked, At
  <2>3. PICK f \in Alive(quarantine) :
          /\ f.age <= x.age /\ f.age <= y.age
          /\ \A m \in DOMAIN wire[f.joint] :
               wire[f.joint][m].source \in ModeSources /\ Alike(f, wire[f.joint][m]) =>
                 \E h \in Alive(quarantine) :
                   h.source # f.source /\ Same(h, f) /\ h.age <= x.age /\ h.age <= y.age
    BY <2>2 DEF Locks
  <2>4. f.joint \in Joints
    BY EntryFacts
  <2> HIDE DEF x, y
  <2>5. ASSUME NEW m \in DOMAIN wire'[f.joint],
               wire'[f.joint][m].source \in ModeSources, Alike(f, wire'[f.joint][m])
        PROVE  \E h \in Alive(quarantine') :
                 h.source # f.source /\ Same(h, f) /\ h.age <= x.age /\ h.age <= y.age
    <3>1. CASE m \in DOMAIN wire[f.joint] /\ wire'[f.joint][m] = wire[f.joint][m]
      <4>1. \E h \in Alive(quarantine) :
              h.source # f.source /\ Same(h, f) /\ h.age <= x.age /\ h.age <= y.age
        BY <2>3, <2>5, <3>1
      <4> QED
        BY <4>1 DEF Adds
    <3>2. CASE f.joint = d /\ wire'[f.joint][m] = z
      BY <2>5, <3>2 DEF Sendable, Of
    <3> QED
      BY <1>1, <2>4, <3>1, <3>2
  <2>6. f \in Alive(quarantine')
    BY DEF Adds
  <2>7. Locks(x, y, Alive(quarantine'), wire')
    BY <2>3, <2>5, <2>6 DEF Locks
  <2> QED
    BY <2>1, <2>7 DEF x, y
<1>7. ASSUME NEW f \in Alive(expectations'), ~f.quarantined,
             NEW k \in DOMAIN wire'[f.joint], Alike(f, wire'[f.joint][k])
      PROVE  wire'[f.joint][k].fate # "stale"
  <2>1. CASE f = e
    <3>1. f.joint = d /\ f.joint \in Joints
      BY <2>1 DEF Of
    <3>2. CASE k \in DOMAIN wire[d] /\ wire'[d][k] = wire[d][k]
      <4>1. Of(e, d, wire[d][k]) /\ Hits(e, e)
        BY <1>7, <2>1, <3>1, <3>2 DEF Of, Hits, Same
      <4> QED
        BY <1>3, <3>1, <3>2, <4>1
    <3>3. CASE wire'[d][k] = z
      BY <3>1, <3>3 DEF Sendable
    <3> QED
      BY <1>1, <3>1, <3>2, <3>3
  <2>2. CASE f \in Alive(expectations)
    <3>1. f.joint \in Joints
      BY <2>2, EntryFacts
    <3>2. CASE k \in DOMAIN wire[f.joint] /\ wire'[f.joint][k] = wire[f.joint][k]
      BY <1>7, <2>2, <3>2 DEF Fresh
    <3>3. CASE wire'[f.joint][k] = z
      BY <3>3 DEF Sendable
    <3> QED
      BY <1>1, <3>1, <3>2, <3>3
  <2> QED
    BY <1>7, <2>1, <2>2 DEF Adds
<1> QED
  BY <1>4, <1>5, <1>6, <1>7

\* The tables when a request is recorded, s being what is left of the expectations.
LEMMA RecordStep ==
  ASSUME TablesType, TablesOK, NEW s \in Seq(TableEntry), Unique(s), TableOK(s),
         Len(s) <= Capacity, Alive(s) \subseteq Alive(expectations),
         \A f \in Table : f \in Alive(s) \/ f \in Alive(quarantine'),
         \A f \in Alive(expectations) : ~f.quarantined => f \in Alive(s),
         quarantine' \in Seq(TableEntry), TableOK(quarantine'),
         \A f \in ToSet(quarantine') : f.quarantined,
         Alive(quarantine) \subseteq Alive(quarantine'), Alive(quarantine') \subseteq Table,
         NEW e \in TableEntry, Shaped(e), ~e.quarantined, e.age = 0, Fits(s, e),
         expectations' = Recorded(s, e)
  PROVE  TablesType' /\ TablesOK' /\ Adds(e) /\ Tombstones' \subseteq Tombstones
<1>1. e.age < Timeout
  BY Counts
<1>2. /\ expectations' \in Seq(TableEntry) /\ Len(expectations') <= Capacity
      /\ Unique(expectations')
      /\ ToSet(expectations') = {f \in Alive(s) : ~(f.source = e.source /\ Same(f, e))} \cup {e}
      /\ Alive(expectations') = ToSet(expectations')
  BY <1>1, RecordedIs
<1>3. Alive(s) \subseteq ToSet(s)
  BY DEF Alive
<1>4. TablesType'
  BY <1>2 DEF TablesType
<1>5. TablesOK'
  BY <1>2, <1>3 DEF TablesOK, TableOK
<1>6. Adds(e)
  BY <1>2 DEF Adds, Hits, Table
<1>7. Table' \subseteq Table \cup {e}
  BY <1>2 DEF Table
<1>8. Tombstones' \subseteq Tombstones
  BY <1>4, <1>5, <1>7, TombstonesAre, TombstonesAfter
<1> QED
  BY <1>4, <1>5, <1>6, <1>8

\* What a discovery may ask.
LEMMA AskingIs ==
  ASSUME TypeOK, TablesOK, Traffic, Requesting, ~(discovery.active /\ Blocks),
         discovery.state = "READY" \/ (Waiting /\ discovery.age >= Timeout)
  PROVE  LET d == discovery.joint
             r == Registers[discovery.register]
             z == Sent("DISCOVERY", "read", r, None)
             e == Entry("DISCOVERY", d, "read", r)
         IN /\ d \in Joints /\ z \in Item /\ Sendable(d, z)
            /\ e \in TableEntry /\ Shaped(e) /\ ~e.quarantined /\ e.age = 0
            /\ e.source = z.source /\ Of(e, d, z)
            /\ ~discovery.active => \A i \in Joints : \A k \in DOMAIN wire[i] : ~At(i, k)
            /\ \A i \in Joints : \A k \in DOMAIN wire[i] :
                 Own(wire[i][k]) => wire[i][k].source # "DISCOVERY"
            /\ \A f \in Alive(expectations) : ~f.quarantined => f.source # "DISCOVERY"
<1> DEFINE d == discovery.joint
           r == Registers[discovery.register]
           z == Sent("DISCOVERY", "read", r, None)
           e == Entry("DISCOVERY", d, "read", r)
<1>1. /\ WireType /\ TablesType /\ discovery \in DiscoveryState
      /\ WireOK /\ Covered /\ Fresh /\ CurrentOK /\ Locked /\ BootOK /\ VerifiedOK
  BY DEF TypeOK, Traffic
<1>2. /\ d \in Joints /\ d \in Pending /\ discovery.register \in 1..Len(Registers)
      /\ discovery.age \in Nat /\ discovery.active \in BOOLEAN
  BY <1>1, Reading
<1>3. r \in Fields
  BY <1>2, Numbers
<1> HIDE DEF d, r
<1>4. z \in Item /\ z.source = "DISCOVERY" /\ z.op = "read" /\ z.register = r
      /\ z.answered = FALSE /\ z.age = 0 /\ z.fate = "current"
  <2>1. 0 \in 0..Delay
    BY Counts
  <2> QED
    BY <1>3, <2>1 DEF Sent, Item, Sequence, Ops, Values, Fates
<1>5. e \in TableEntry /\ e.source = "DISCOVERY" /\ e.joint = d /\ e.op = "read"
      /\ e.register = r /\ e.age = 0 /\ e.quarantined = FALSE
  <2>1. 0 \in 0..Timeout
    BY Counts
  <2> QED
    BY <1>2, <1>3, <2>1 DEF Entry, TableEntry, Sequence, Ops
<1> HIDE DEF z, e
<1>6. Shaped(z) /\ Shaped(e) /\ Of(e, d, z)
  BY <1>4, <1>5 DEF Shaped, Of, Alike, ModeSources
<1>7. /\ \A i \in Joints : \A k \in DOMAIN wire[i] :
           Own(wire[i][k]) => wire[i][k].source # "DISCOVERY"
      /\ \A f \in Alive(expectations) : ~f.quarantined => f.source # "DISCOVERY"
  BY <1>1, <1>2, NothingAsked
<1>8. ASSUME ~discovery.active, NEW i \in Joints, NEW k \in DOMAIN wire[i], At(i, k)
      PROVE  FALSE
  <2>1. discovery.state = "WAITING" /\ discovery.age <= wire[i][k].age
    BY <1>1, <1>8 DEF BootOK
  <2>2. wire[i][k].age \in Nat /\ wire[i][k].age < Timeout
    BY <1>1, WireFacts DEF WireType
  <2> QED
    BY <1>2, <2>1, <2>2, Counts
<1>9. ASSUME NEW k \in DOMAIN wire[d], Alike(wire[d][k], z), Sound(wire[d][k])
      PROVE  Own(wire[d][k]) /\ wire[d][k].source = "MODE_READ"
  <2>1. wire[d][k].source \in Sequence /\ wire[d][k].fate \in Fates
        /\ Shaped(wire[d][k]) /\ wire[d][k].op = "read"
    BY <1>1, <1>2, <1>4, <1>9, WireFacts DEF WireType, WireOK, Alike
  <2>2. CASE discovery.active
    <3>1. wire[d][k].fate # "stale"
      BY <1>1, <1>2, <2>2, StaleBlocks DEF Blocks, TypeOK
    <3>2. Own(wire[d][k])
      BY <1>9, <2>1, <3>1 DEF Own, Sound, Fates
    <3> QED
      BY <1>2, <1>7, <2>1, <3>2 DEF Sequence, Shaped
  <2>3. CASE ~discovery.active
    <3>1. wire[d][k].source \notin ModeSources
      BY <1>1, <1>2, <2>3 DEF BootOK
    <3>2. At(d, k)
      BY <1>2, <2>1, <3>1 DEF At, Sequence, ModeSources
    <3> QED
      BY <1>2, <1>8, <2>3, <3>2
  <2> QED
    BY <1>2, <2>2, <2>3
<1>10. ASSUME NEW i \in Joints, NEW j \in Joints, NEW k \in DOMAIN wire[i],
              NEW n \in DOMAIN wire[j], At(i, k), At(j, n), ~(i = j /\ k = n)
       PROVE  FALSE
  <2>1. ~Own(wire[i][k]) /\ ~Own(wire[j][n])
    BY <1>7, <1>10 DEF At
  <2>2. Locks(wire[i][k], wire[j][n], Alive(quarantine), wire)
    BY <1>1, <1>10, <2>1 DEF Locked
  <2>3. PICK f \in Alive(quarantine) : TRUE
    BY <2>2 DEF Locks
  <2>4. f \in Tombstones
    BY <1>1, <2>3, TombstonesAre DEF Tombstones
  <2>5. ~discovery.active
    BY <2>4 DEF Blocks
  <2> QED
    BY <1>8, <1>10, <2>5
<1>11. ModeRead(z) => FinalRegister \notin verified[d]
  BY <1>1, <1>2 DEF VerifiedOK
<1>12. Sendable(d, z)
  BY <1>2, <1>4, <1>6, <1>7, <1>9, <1>10, <1>11 DEF Sendable, ModeSources
<1> QED
  BY <1>2, <1>4, <1>5, <1>6, <1>7, <1>8, <1>12 DEF d, r, z, e

\* The request of a discovery.
LEMMA AskPump ==
  ASSUME IInv, InPump, action.kind # "MODE", UNCHANGED switch,
         ~(discovery.active /\ Blocks), ~Spent,
         discovery.state = "READY" \/ (Waiting /\ discovery.age >= Timeout),
         quarantine' = IF discovery.active THEN Live(quarantine) ELSE quarantine,
         Fits(expectations, Asking), expectations' = Recorded(expectations, Asking),
         discovery' = [discovery EXCEPT !.state = "WAITING", !.attempts = @ + 1, !.age = 0],
         Emit(discovery.joint, Sent("DISCOVERY", "read", Asking.register, None))
  PROVE  IInv'
<1> DEFINE d == discovery.joint
           r == Registers[discovery.register]
           z == Sent("DISCOVERY", "read", r, None)
           e == Entry("DISCOVERY", d, "read", r)
<1>1. /\ TypeOK /\ TablesOK /\ Traffic /\ WireType /\ TablesType
      /\ discovery \in DiscoveryState /\ switch \in SwitchState /\ action \in ActionState
      /\ WireOK /\ AnsweredOK /\ OrderOK /\ Twins /\ Covered /\ Fresh /\ CurrentOK
      /\ NoThree /\ Locked /\ BootOK /\ VerifiedOK /\ ReadWhilePending /\ ModeTrue /\ ReadTrue
      /\ ActiveOK /\ SwitchOK /\ ProgressOK /\ TimeOK
  BY DEF IInv, Course, Traffic, TypeOK
<1>2. Requesting /\ Pending \subseteq Joints
  BY <1>1, Reading DEF Requesting, Waiting, Pending
<1>3. /\ d \in Joints /\ z \in Item /\ Sendable(d, z)
      /\ e \in TableEntry /\ Shaped(e) /\ ~e.quarantined /\ e.age = 0
      /\ e.source = z.source /\ Of(e, d, z)
      /\ ~discovery.active => \A i \in Joints : \A k \in DOMAIN wire[i] : ~At(i, k)
      /\ \A i \in Joints : \A k \in DOMAIN wire[i] :
           Own(wire[i][k]) => wire[i][k].source # "DISCOVERY"
      /\ \A f \in Alive(expectations) : ~f.quarantined => f.source # "DISCOVERY"
  BY <1>1, <1>2, AskingIs
<1>4. Asking = e /\ e.register = r /\ z.source = "DISCOVERY" /\ z.op = "read"
      /\ z.register = r /\ e.op = "read" /\ e.joint = d /\ z.age = 0 /\ z.fate = "current"
      /\ e.source = "DISCOVERY"
  BY DEF Asking, Entry, Sent
<1> HIDE DEF z, e
<1>5. TablesType' /\ TablesOK' /\ Adds(e) /\ Tombstones' \subseteq Tombstones
  <2>1. /\ Live(quarantine) \in Seq(TableEntry) /\ ToSet(Live(quarantine)) = Alive(quarantine)
        /\ Alive(Live(quarantine)) = Alive(quarantine)
    BY <1>1, LiveIs DEF TablesType
  <2>2. /\ quarantine' \in Seq(TableEntry) /\ Alive(quarantine') = Alive(quarantine)
        /\ ToSet(quarantine') \subseteq ToSet(quarantine)
    BY <1>1, <2>1 DEF TablesType, Alive
  <2>3. TableOK(quarantine') /\ \A f \in ToSet(quarantine') : f.quarantined
    BY <1>1, <2>2 DEF TablesOK, TableOK
  <2>4. /\ expectations \in Seq(TableEntry) /\ Unique(expectations)
        /\ TableOK(expectations) /\ Len(expectations) <= Capacity
    BY <1>1 DEF TablesType, TablesOK
  <2>5. /\ \A f \in Table : f \in Alive(expectations) \/ f \in Alive(quarantine')
        /\ Alive(quarantine') \subseteq Table
    BY <2>2 DEF Table
  <2> QED
    BY <1>1, <1>3, <1>4, <2>2, <2>3, <2>4, <2>5, RecordStep
<1>6. Emit(d, z)
  BY <1>4 DEF z
<1> HIDE DEF d, r
<1>7. UNCHANGED <<results, drive>> /\ UNCHANGED <<verified, complete, observed, drive, action>>
      /\ turn = "pump" /\ turn' = "network"
  BY DEF InPump, results
<1>8. /\ WireOK' /\ AnsweredOK' /\ OrderOK' /\ NoThree' /\ ReadTrue' /\ ModeTrue'
      /\ ReadWhilePending'
  BY <1>1, <1>3, <1>6, <1>7, EmitShape
<1>9. /\ Twins' /\ Covered' /\ Locked'
      /\ \A f \in Alive(expectations') : ~f.quarantined =>
           \A k \in DOMAIN wire'[f.joint] :
             Alike(f, wire'[f.joint][k]) => wire'[f.joint][k].fate # "stale"
  BY <1>1, <1>3, <1>5, <1>6, EmitCover
<1>10. /\ WireType'
       /\ \A j \in Joints : \A k \in DOMAIN wire'[j] :
            \/ k \in DOMAIN wire[j] /\ wire'[j][k] = wire[j][k]
            \/ j = d /\ k = Len(wire[d]) + 1 /\ wire'[j][k] = z
  BY <1>1, <1>3, <1>6, EmitIs
<1>11. /\ discovery' \in DiscoveryState /\ discovery'.state = "WAITING" /\ discovery'.age = 0
       /\ discovery'.attempts = discovery.attempts + 1
       /\ discovery'.joint = discovery.joint /\ discovery'.register = discovery.register
       /\ discovery'.target = discovery.target /\ discovery'.active = discovery.active
       /\ Requesting' /\ Pending' = Pending
  <2>1. 0 \in 0..Timeout /\ discovery.attempts + 1 \in Nat
    BY <1>1, Counts, Reading
  <2>2. /\ discovery' \in DiscoveryState /\ discovery'.state = "WAITING" /\ discovery'.age = 0
        /\ discovery'.attempts = discovery.attempts + 1
        /\ discovery'.joint = discovery.joint /\ discovery'.register = discovery.register
        /\ discovery'.target = discovery.target /\ discovery'.active = discovery.active
    BY <1>1, <2>1 DEF DiscoveryState
  <2>3. Requesting'
    BY <2>2 DEF Requesting
  <2> QED
    BY <1>2, <2>2, <2>3 DEF Pending
<1>12. Fresh'
  <2>1. ASSUME NEW f \in Alive(expectations'), ~f.quarantined, f.source = "DISCOVERY"
        PROVE  IsAsked(f.joint, f, discovery') /\ discovery'.age <= f.age
    <3>1. f = e
      BY <1>3, <1>5, <2>1 DEF Adds
    <3> QED
      BY <1>3, <1>4, <1>11, <3>1 DEF IsAsked, d, r
  <2> QED
    BY <1>9, <1>11, <2>1 DEF Fresh
<1>13. CurrentOK'
  <2> SUFFICES ASSUME NEW j \in Joints, NEW k \in DOMAIN wire'[j], Own(wire'[j][k])
               PROVE  /\ wire'[j][k].source = "DISCOVERY" =>
                           /\ discovery'.state = "WAITING"
                           /\ IsAsked(j, wire'[j][k], discovery')
                           /\ discovery'.age <= wire'[j][k].age
                      /\ wire'[j][k].source = "MODE_READ" =>
                           /\ switch'.state = "READ_WAITING" /\ switch'.joint = j
                           /\ switch'.age <= wire'[j][k].age
                      /\ wire'[j][k].source = "MODE_WRITE" /\ switch'.state = "WRITING" =>
                           j < switch'.joint
    BY DEF CurrentOK
  <2>1. CASE k \in DOMAIN wire[j] /\ wire'[j][k] = wire[j][k]
    BY <1>1, <1>3, <2>1 DEF CurrentOK
  <2>2. CASE j = d /\ wire'[j][k] = z
    BY <1>4, <1>11, <2>2 DEF IsAsked, d, r
  <2> QED
    BY <1>10, <2>1, <2>2
<1>14. BootOK'
  <2> SUFFICES ASSUME ~discovery.active
               PROVE  BootOK'
    BY <1>11 DEF BootOK
  <2>1. \A j \in Joints : \A k \in DOMAIN wire'[j] : At(j, k)' =>
          j = d /\ k = Len(wire[d]) + 1 /\ wire'[j][k] = z
    BY <1>3, <1>10 DEF At
  <2>2. \A j \in Joints : \A k \in DOMAIN wire'[j] : At(j, k)' =>
          Sound(wire'[j][k]) /\ discovery'.age <= wire'[j][k].age
    BY <1>4, <1>11, <2>1 DEF Sound
  <2>3. \A j \in Pending : \A k \in DOMAIN wire'[j] : wire'[j][k].source \notin ModeSources
    BY <1>1, <1>2, <1>4, <1>10 DEF BootOK, ModeSources
  <2> QED
    BY <1>11, <2>1, <2>2, <2>3 DEF BootOK
<1>15. VerifiedOK'
  BY <1>1, <1>2, <1>7, <1>11 DEF VerifiedOK
<1>16. ActiveOK'
  BY <1>1, <1>2, <1>5, <1>7, <1>11 DEF ActiveOK, Blocks
<1>17. SwitchOK' /\ ProgressOK'
  BY <1>1, <1>2, <1>7, <1>11 DEF SwitchOK, ProgressOK
<1>18. TimeOK'
  <2> SUFFICES ASSUME action.kind = "DISCOVERY"
               PROVE  TimeOK'
    BY <1>7 DEF TimeOK
  <2> DEFINE s == Slot(discovery.joint, discovery.register, 0)
             t == Slot(discovery.joint, discovery.register, discovery.attempts - 1)
             u == Slot(discovery.joint, discovery.register, discovery.attempts)
  <2>1. /\ action.elapsed \in Nat /\ Timeout \in Nat /\ Timeout >= 1
        /\ Attempts \in Nat /\ Attempts >= 1
        /\ discovery.joint \in 1..N /\ discovery.register \in 1..Len(Registers)
        /\ discovery.age \in Nat /\ discovery.age <= Timeout /\ discovery.attempts \in Nat
    BY <1>1, <1>2, Reading, Counts DEF ActionState
  <2>2. discovery.attempts + 1 \in 1..Attempts /\ action.elapsed <= Budget(u)
    <3>1. CASE discovery.state = "READY"
      <4>1. discovery.attempts = 0 /\ action.elapsed + 0 <= Budget(s)
        BY <1>1, <1>7, <3>1 DEF TimeOK
      <4>2. action.elapsed <= Budget(s)
        BY <2>1, <4>1
      <4> QED
        BY <2>1, <4>1, <4>2
    <3>2. CASE discovery.state = "WAITING"
      <4>1. discovery.attempts \in 1..Attempts
            /\ action.elapsed <= discovery.age + Budget(t)
        BY <1>1, <3>2 DEF TimeOK
      <4>2. ~(discovery.attempts >= Attempts)
        BY <3>2 DEF Spent, Waiting
      <4>3. discovery.attempts - 1 \in Nat /\ discovery.attempts - 1 + 1 = discovery.attempts
        BY <2>1, <4>1
      <4>4. t \in Nat /\ u = t + 1
        BY <2>1, <4>3, SlotIs
      <4> HIDE DEF t, u
      <4>5. Budget(t) \in Nat /\ Budget(u) = Budget(t) + Timeout
        BY <4>4, BudgetIs
      <4>6. discovery.attempts + 1 \in 1..Attempts
        BY <2>1, <4>1, <4>2
      <4>7. action.elapsed <= Budget(u)
        BY <2>1, <4>1, <4>5
      <4> QED
        BY <4>6, <4>7
    <3> QED
      BY <3>1, <3>2 DEF Waiting
  <2>3. u \in Nat
    BY <2>1, SlotIs
  <2>4. action.elapsed <= 0 + Budget(u) /\ discovery.attempts + 1 - 1 = discovery.attempts
    <3> HIDE DEF u
    <3>1. Budget(u) \in Nat
      BY <2>3, BudgetIs
    <3> QED
      BY <2>1, <2>2, <3>1
  <2>5. action.elapsed
          <= discovery'.age + Budget(Slot(discovery'.joint, discovery'.register,
                                          discovery'.attempts - 1))
    <3>1. discovery'.attempts - 1 = discovery.attempts
      BY <1>11, <2>1
    <3>2. Slot(discovery'.joint, discovery'.register, discovery'.attempts - 1) = u
      BY <1>11, <3>1
    <3> HIDE DEF u
    <3> QED
      BY <1>11, <2>4, <3>2
  <2>6. discovery'.age < Timeout
    BY <1>11, <2>1
  <2>7. discovery.active => \A f \in Tombstones' : action.elapsed <= f.age
    BY <1>1, <1>5 DEF TimeOK
  <2> QED
    BY <1>7, <1>11, <2>2, <2>5, <2>6, <2>7 DEF TimeOK
<1>19. TypeOK'
  BY <1>1, <1>5, <1>7, <1>10, <1>11
     DEF TypeOK, ResultsType, TurnType, DriveType
<1> QED
  BY <1>5, <1>8, <1>9, <1>12, <1>13, <1>14, <1>15, <1>16, <1>17, <1>18, <1>19
     DEF IInv, Course, Traffic

\* The step of a discovery in a cycle.
LEMMA DiscoveryPump ==
  ASSUME IInv, NextDiscoveryFrame
  PROVE  IInv'
<1> DEFINE due == discovery.state = "READY" \/ (Waiting /\ discovery.age >= Timeout)
           expire == IF discovery.active THEN Expire ELSE UNCHANGED tables
<1>1. /\ ActiveOK /\ discovery \in DiscoveryState /\ VerifiedOK
  BY DEF IInv, Course, TypeOK, Traffic
<1>2. /\ InPump /\ action.kind # "MODE" /\ UNCHANGED switch
      /\ \/ /\ discovery.active /\ Blocks
            /\ Expire /\ UNCHANGED <<discovery, wire>>
         \/ /\ ~(discovery.active /\ Blocks)
            /\ ~due
            /\ discovery' = [discovery EXCEPT !.active = @ /\ Waiting]
            /\ expire /\ UNCHANGED wire
         \/ /\ ~(discovery.active /\ Blocks)
            /\ due /\ Spent
            /\ FailDiscovery
            /\ expire /\ UNCHANGED wire
         \/ /\ ~(discovery.active /\ Blocks)
            /\ due /\ ~Spent
            /\ quarantine' = IF discovery.active THEN Live(quarantine) ELSE quarantine
            /\ IF Fits(expectations, Asking)
                 THEN /\ expectations' = Recorded(expectations, Asking)
                      /\ discovery' = [discovery EXCEPT !.state = "WAITING",
                                         !.attempts = @ + 1, !.age = 0]
                      /\ Emit(discovery.joint,
                              Sent("DISCOVERY", "read", Asking.register, None))
                 ELSE /\ expectations' = Live(expectations)
                      /\ FailDiscovery
                      /\ UNCHANGED wire
  BY Zenon DEF NextDiscoveryFrame
<1>3. discovery.active \in BOOLEAN /\ discovery.age \in Nat /\ Timeout \in Nat
  BY <1>1, Reading, Counts
<1>4. Expire => Expiry
  BY DEF Expire, Expiry
<1>5. expire => Expiry
  BY <1>4 DEF Expiry, tables
<1>6. CASE /\ discovery.active /\ Blocks
           /\ Expire /\ UNCHANGED <<discovery, wire>>
  <2>1. discovery.state # "WAITING"
    BY <1>1, <1>6 DEF ActiveOK
  <2> QED
    BY <1>2, <1>4, <1>6, <2>1, QuietPump
<1>7. CASE /\ ~(discovery.active /\ Blocks)
           /\ ~due
           /\ discovery' = [discovery EXCEPT !.active = @ /\ Waiting]
           /\ expire /\ UNCHANGED wire
  <2>1. (discovery.active /\ Waiting) = discovery.active
    <3>1. discovery.active => Waiting
      BY <1>1, <1>7 DEF ActiveOK, Requesting, Waiting
    <3> QED
      BY <1>3, <3>1
  <2>2. discovery' = discovery
    BY <1>1, <1>7, <2>1 DEF DiscoveryState
  <2>3. /\ discovery.state # "READY"
        /\ discovery.state = "WAITING" => discovery.age < Timeout
    BY <1>3, <1>7 DEF Waiting
  <2> QED
    BY <1>2, <1>5, <1>7, <2>2, <2>3, QuietPump
<1>8. CASE /\ ~(discovery.active /\ Blocks)
           /\ due /\ Spent
           /\ FailDiscovery
           /\ expire /\ UNCHANGED wire
  BY <1>2, <1>5, <1>8, FailPump
<1>9. CASE /\ ~(discovery.active /\ Blocks)
           /\ due /\ ~Spent
           /\ quarantine' = IF discovery.active THEN Live(quarantine) ELSE quarantine
           /\ IF Fits(expectations, Asking)
                THEN /\ expectations' = Recorded(expectations, Asking)
                     /\ discovery' = [discovery EXCEPT !.state = "WAITING",
                                        !.attempts = @ + 1, !.age = 0]
                     /\ Emit(discovery.joint,
                             Sent("DISCOVERY", "read", Asking.register, None))
                ELSE /\ expectations' = Live(expectations)
                     /\ FailDiscovery
                     /\ UNCHANGED wire
  <2>1. CASE Fits(expectations, Asking)
    BY <1>2, <1>9, <2>1, AskPump
  <2>2. CASE ~Fits(expectations, Asking)
    <3>1. Expiry /\ FailDiscovery /\ UNCHANGED wire
      BY <1>9, <2>2 DEF Expiry
    <3> QED
      BY <1>2, <1>9, <3>1, FailPump
  <2> QED
    BY <2>1, <2>2
<1> QED
  BY <1>2, <1>6, <1>7, <1>8, <1>9

\* Tables after a move of the tombstones of mode switches, or without.
LEMMA MovedStep ==
  ASSUME TablesType, TablesOK, NEW rollover \in BOOLEAN,
         rollover => MoveFits(expectations, ModeSources),
         quarantine' = IF rollover THEN MovedQuarantine(expectations, ModeSources)
                                   ELSE Live(quarantine)
  PROVE  LET s == IF rollover THEN MovedExpectations(expectations, ModeSources)
                              ELSE Live(expectations)
         IN /\ s \in Seq(TableEntry) /\ Unique(s) /\ TableOK(s) /\ Len(s) <= Capacity
            /\ Alive(s) \subseteq Alive(expectations)
            /\ \A f \in Table : f \in Alive(s) \/ f \in Alive(quarantine')
            /\ \A f \in Alive(expectations) : ~f.quarantined => f \in Alive(s)
            /\ quarantine' \in Seq(TableEntry) /\ TableOK(quarantine')
            /\ \A f \in ToSet(quarantine') : f.quarantined
            /\ Alive(quarantine) \subseteq Alive(quarantine')
            /\ Alive(quarantine') \subseteq Table
            /\ expectations' = s => TablesType' /\ TablesOK' /\ CalmTables
<1> DEFINE s == IF rollover THEN MovedExpectations(expectations, ModeSources)
                            ELSE Live(expectations)
           dead == {f \in Alive(expectations) : Dead(f, ModeSources)}
<1>1. /\ expectations \in Seq(TableEntry) /\ quarantine \in Seq(TableEntry)
      /\ Unique(expectations) /\ TableOK(expectations) /\ TableOK(quarantine)
      /\ Len(expectations) <= Capacity /\ \A f \in ToSet(quarantine) : f.quarantined
  BY DEF TablesType, TablesOK
<1>2. /\ Alive(expectations) \subseteq ToSet(expectations)
      /\ Alive(quarantine) \subseteq ToSet(quarantine)
      /\ \A f \in Alive(expectations) \cup Alive(quarantine) : f.age < Timeout
  BY DEF Alive
<1>3. /\ s \in Seq(TableEntry) /\ Len(s) <= Len(expectations) /\ Unique(s)
      /\ quarantine' \in Seq(TableEntry)
      /\ Alive(s) = ToSet(s) /\ Alive(quarantine') = ToSet(quarantine')
      /\ ToSet(s) = (IF rollover THEN Alive(expectations) \ dead ELSE Alive(expectations))
      /\ ToSet(quarantine') =
           (IF rollover THEN Alive(quarantine) \cup dead ELSE Alive(quarantine))
  <2>1. CASE rollover
    <3> DEFINE ts == MovedExpectations(expectations, ModeSources)
               tq == MovedQuarantine(expectations, ModeSources)
    <3>1. MoveFits(expectations, ModeSources)
      BY <2>1
    <3>2. /\ ts \in Seq(TableEntry) /\ Len(ts) <= Len(expectations) /\ Unique(ts)
          /\ tq \in Seq(TableEntry) /\ Alive(ts) = ToSet(ts) /\ Alive(tq) = ToSet(tq)
          /\ ToSet(ts) = Alive(expectations) \ dead
          /\ ToSet(tq) = Alive(quarantine) \cup dead
      BY <1>1, <3>1, MovedIs
    <3>3. s = ts /\ quarantine' = tq
      BY <2>1
    <3> HIDE DEF ts, tq, s, dead
    <3> QED
      BY <2>1, <3>2, <3>3
  <2>2. CASE ~rollover
    BY <1>1, <2>2, LiveIs
  <2> QED
    BY <2>1, <2>2
<1> HIDE DEF s
<1>4. Len(s) <= Capacity
  BY <1>1, <1>3, Counts
<1>5. \A f \in dead : f.quarantined /\ f \in Alive(expectations)
  BY DEF Dead
<1> HIDE DEF dead
<1>6. TableOK(s) /\ TableOK(quarantine') /\ \A f \in ToSet(quarantine') : f.quarantined
  BY <1>1, <1>2, <1>3, <1>5 DEF TableOK
<1>7. /\ Alive(s) \subseteq Alive(expectations)
      /\ \A f \in Table : f \in Alive(s) \/ f \in Alive(quarantine')
      /\ \A f \in Alive(expectations) : ~f.quarantined => f \in Alive(s)
      /\ Alive(quarantine) \subseteq Alive(quarantine')
      /\ Alive(quarantine') \subseteq Table
  BY <1>3, <1>5 DEF Table
<1>8. ASSUME expectations' = s
      PROVE  TablesType' /\ TablesOK' /\ CalmTables
  <2>1. TablesType' /\ TablesOK'
    BY <1>3, <1>4, <1>6, <1>8 DEF TablesType, TablesOK
  <2>2. CalmTables
    BY <1>7, <1>8 DEF CalmTables, Table
  <2> QED
    BY <2>1, <2>2
<1> QED
  BY <1>3, <1>4, <1>6, <1>7, <1>8 DEF s

\* No mode is being read back before the read is sent, or once it is late.
LEMMA NothingRead ==
  ASSUME WireType, CurrentOK, switch \in SwitchState,
         switch.state # "READ_WAITING" \/ switch.age >= Timeout
  PROVE  \A j \in Joints : \A k \in DOMAIN wire[j] :
           Own(wire[j][k]) => wire[j][k].source # "MODE_READ"
<1> SUFFICES ASSUME NEW j \in Joints, NEW k \in DOMAIN wire[j], Own(wire[j][k]),
                    wire[j][k].source = "MODE_READ"
             PROVE  FALSE
  OBVIOUS
<1>1. switch.state = "READ_WAITING" /\ switch.age <= wire[j][k].age
  BY DEF CurrentOK
<1>2. wire[j][k].age \in Nat /\ wire[j][k].age < Timeout
  BY WireFacts DEF WireType
<1>3. switch.age \in 0..Timeout /\ Timeout \in Nat
  BY Counts DEF SwitchState
<1> QED
  BY <1>1, <1>2, <1>3

\* How a switch may go on.
SwitchGoes ==
  /\ switch' \in SwitchState
  /\ switch'.state \in Switching =>
       /\ switch.state \in Switching
       /\ switch'.mask = switch.mask /\ switch'.mode = switch.mode
       /\ switch'.joint \in switch'.mask
  /\ switch'.state = "WRITING" => switch.state = "WRITING"
  /\ switch'.state \in {"WRITING", "READ_READY"} => switch'.age = 0

LEMMA ModeCourse ==
  ASSUME ActiveOK, SwitchOK, action.kind = "MODE", action' = action,
         UNCHANGED <<discovery, verified, complete>>, SwitchGoes
  PROVE  Course'
<1>1. ~discovery.active
  BY DEF ActiveOK
<1>2. ActiveOK' /\ ProgressOK' /\ TimeOK'
  BY <1>1 DEF ActiveOK, ProgressOK, TimeOK
<1>3. SwitchOK'
  BY DEF SwitchOK, SwitchGoes
<1> QED
  BY <1>2, <1>3 DEF Course

\* A switch goes on without a request.
LEMMA SwitchStep ==
  ASSUME IInv, InPump, action.kind = "MODE", UNCHANGED <<discovery, wire>>,
         TablesType', TablesOK', CalmTables, SwitchGoes,
         \/ /\ switch'.state = switch.state /\ switch'.joint = switch.joint
            /\ switch'.age = switch.age
         \/ /\ \A j \in Joints : \A k \in DOMAIN wire[j] :
                 Own(wire[j][k]) => wire[j][k].source # "MODE_READ"
            /\ switch'.state # "WRITING"
  PROVE  IInv'
<1>1. TypeOK /\ TablesOK /\ Traffic /\ ActiveOK /\ SwitchOK
  BY DEF IInv, Course
<1>2. /\ UNCHANGED <<results, drive>> /\ UNCHANGED <<verified, complete, observed>>
      /\ action' = action /\ turn' = "network"
  BY DEF InPump, results
<1>3. Traffic' /\ WireType'
  BY <1>1, <1>2, CalmStep
<1>4. Course'
  BY <1>1, <1>2, ModeCourse
<1>5. TypeOK'
  BY <1>1, <1>2, <1>3
     DEF TypeOK, ResultsType, TurnType, DriveType, SwitchGoes
<1> QED
  BY <1>3, <1>4, <1>5 DEF IInv

\* What a mode switch may ask.
LEMMA ModeAskingIs ==
  ASSUME TypeOK, TablesOK, Traffic, SwitchOK, action.kind = "MODE",
         NEW source, NEW op,
         \/ source = "MODE_WRITE" /\ op = "write" /\ switch.state = "WRITING"
         \/ /\ source = "MODE_READ" /\ op = "read"
            /\ switch.state = "READ_READY"
               \/ (switch.state = "READ_WAITING" /\ switch.age >= Timeout),
         ~IsQuarantined(Entry(source, switch.joint, op, "mode"))
  PROVE  LET d == switch.joint
             z == Sent(source, op, "mode", IF op = "write" THEN switch.mode ELSE None)
             e == Entry(source, d, op, "mode")
         IN /\ d \in Joints /\ d \in switch.mask /\ z \in Item /\ Sendable(d, z)
            /\ e \in TableEntry /\ Shaped(e) /\ ~e.quarantined /\ e.age = 0
            /\ e.source = z.source /\ Of(e, d, z)
            /\ FinalRegister \in verified[d]
            /\ \A j \in Joints : \A k \in DOMAIN wire[j] :
                 Own(wire[j][k]) => wire[j][k].source # "MODE_READ"
<1> DEFINE d == switch.joint
           m == IF op = "write" THEN switch.mode ELSE None
           z == Sent(source, op, "mode", m)
           e == Entry(source, d, op, "mode")
<1>1. /\ WireType /\ TablesType /\ switch \in SwitchState
      /\ WireOK /\ Covered /\ CurrentOK /\ ReadWhilePending
  BY DEF TypeOK, Traffic
<1>2. /\ d \in switch.mask /\ d \in Joints /\ switch.mode \in Modes
      /\ FinalRegister \in verified[d]
      /\ switch.state = "WRITING" => "mode" \notin verified[d]
  <2>1. switch.state \in Switching
    BY DEF Switching
  <2>2. d \in switch.mask /\ switch.mode \in Modes
    BY <2>1 DEF SwitchOK
  <2>3. d \in Joints
    BY <1>1, <2>2 DEF SwitchState
  <2> QED
    BY <2>1, <2>2, <2>3 DEF SwitchOK
<1>3. d \in Nat
  BY <1>2, Counts DEF Joints
<1> HIDE DEF d
<1>4. /\ z \in Item /\ z.source = source /\ z.op = op /\ z.register = "mode" /\ z.mode = m
      /\ z.answered = FALSE /\ z.age = 0 /\ z.fate = "current"
  <2>1. 0 \in 0..Delay /\ "mode" \in Fields
    BY Numbers
  <2>2. m \in Values
    BY <1>2 DEF Values
  <2> HIDE DEF m
  <2> QED
    BY <2>1, <2>2 DEF Sent, Item, Sequence, Ops, Fates
<1>5. e \in TableEntry /\ e.source = source /\ e.joint = d /\ e.op = op
      /\ e.register = "mode" /\ e.age = 0 /\ e.quarantined = FALSE
  <2>1. 0 \in 0..Timeout /\ "mode" \in Fields
    BY Numbers
  <2> QED
    BY <1>2, <2>1 DEF Entry, TableEntry, Sequence, Ops
<1>6. ~IsQuarantined(e) /\ (op = "write" => m \in Modes)
  BY <1>2 DEF d
<1> HIDE DEF z, e, m
<1>7. Shaped(z) /\ Shaped(e) /\ Of(e, d, z) /\ source \in ModeSources
  BY <1>4, <1>5 DEF Shaped, Of, Alike, ModeSources
<1>8. \A j \in Joints : \A k \in DOMAIN wire[j] :
        Own(wire[j][k]) => wire[j][k].source # "MODE_READ"
  BY <1>1, NothingRead
<1>9. ASSUME NEW f \in Tombstones
      PROVE  ~Of(f, d, z)
  BY <1>4, <1>5, <1>6 DEF IsQuarantined, Of, Alike, Same
<1>10. \A f \in Alive(quarantine) : ~Of(f, d, z)
  BY <1>1, <1>9, TombstonesAre DEF Tombstones
<1>11. ASSUME NEW k \in DOMAIN wire[d], ModeRead(wire[d][k])
       PROVE  FALSE
  BY <1>1, <1>2, <1>11 DEF ReadWhilePending
<1>12. ASSUME NEW k \in DOMAIN wire[d], Alike(wire[d][k], z), Sound(wire[d][k])
       PROVE  FALSE
  <2>1. /\ wire[d][k].source \in Sequence /\ wire[d][k].fate \in Fates
        /\ Shaped(wire[d][k]) /\ wire[d][k].op = op /\ wire[d][k].register = "mode"
    BY <1>1, <1>2, <1>4, <1>12, WireFacts DEF WireType, WireOK, Alike
  <2>2. wire[d][k].fate # "stale"
    <3> SUFFICES ASSUME wire[d][k].fate = "stale" PROVE FALSE
      OBVIOUS
    <3>1. \E f \in Tombstones : Of(f, d, wire[d][k])
      BY <1>1, <1>2, StaleBlocks
    <3> QED
      BY <1>9, <1>12, <3>1 DEF Of, Alike
  <2>3. Own(wire[d][k])
    BY <1>12, <2>1, <2>2 DEF Own, Sound, Fates
  <2>4. wire[d][k].source # "DISCOVERY"
    BY <1>11, <2>1 DEF ModeRead
  <2>5. wire[d][k].source = "MODE_WRITE" /\ op = "write"
    BY <1>2, <1>8, <2>1, <2>3, <2>4 DEF Sequence, Shaped
  <2>6. d < d
    BY <1>1, <1>2, <2>3, <2>5 DEF CurrentOK, d
  <2> QED
    BY <1>3, <2>6
<1>13. Sendable(d, z)
  BY <1>2, <1>4, <1>6, <1>7, <1>8, <1>10, <1>11, <1>12
     DEF Sendable, ModeSources, ModeRead
<1> QED
  BY <1>2, <1>4, <1>5, <1>7, <1>8, <1>13 DEF d, z, e, m

\* A request of a mode switch.
LEMMA ModeAskPump ==
  ASSUME IInv, InPump, action.kind = "MODE", UNCHANGED discovery,
         NEW source, NEW op,
         \/ source = "MODE_WRITE" /\ op = "write" /\ switch.state = "WRITING"
         \/ /\ source = "MODE_READ" /\ op = "read"
            /\ switch.state = "READ_READY"
               \/ (switch.state = "READ_WAITING" /\ switch.age >= Timeout),
         ~IsQuarantined(Entry(source, switch.joint, op, "mode")),
         TablesType', TablesOK', Adds(Entry(source, switch.joint, op, "mode")),
         Emit(switch.joint, Sent(source, op, "mode",
                                 IF op = "write" THEN switch.mode ELSE None)),
         SwitchGoes,
         switch'.state = "WRITING" => source = "MODE_WRITE" /\ switch.joint < switch'.joint,
         source = "MODE_READ" => /\ switch'.state = "READ_WAITING" /\ switch'.age = 0
                                 /\ switch'.joint = switch.joint
  PROVE  IInv'
<1> DEFINE d == switch.joint
           z == Sent(source, op, "mode", IF op = "write" THEN switch.mode ELSE None)
           e == Entry(source, d, op, "mode")
<1>1. /\ TypeOK /\ TablesOK /\ Traffic /\ WireType /\ TablesType
      /\ discovery \in DiscoveryState /\ switch \in SwitchState
      /\ WireOK /\ AnsweredOK /\ OrderOK /\ Twins /\ Covered /\ Fresh /\ CurrentOK
      /\ NoThree /\ Locked /\ BootOK /\ VerifiedOK /\ ReadWhilePending /\ ModeTrue /\ ReadTrue
      /\ ActiveOK /\ SwitchOK
  BY DEF IInv, Course, Traffic, TypeOK
<1>2. /\ d \in Joints /\ d \in switch.mask /\ z \in Item /\ Sendable(d, z)
      /\ e \in TableEntry /\ Shaped(e) /\ ~e.quarantined /\ e.age = 0
      /\ e.source = z.source /\ Of(e, d, z)
      /\ FinalRegister \in verified[d]
      /\ \A j \in Joints : \A k \in DOMAIN wire[j] :
           Own(wire[j][k]) => wire[j][k].source # "MODE_READ"
  BY <1>1, ModeAskingIs
<1>3. Emit(d, z) /\ Adds(e)
  OBVIOUS
<1>4. /\ z.source = source /\ z.age = 0 /\ e.source = source
      /\ source \in {"MODE_WRITE", "MODE_READ"}
  BY DEF Sent, Entry
<1> HIDE DEF z, e
<1>5. /\ UNCHANGED <<results, drive>> /\ UNCHANGED <<verified, complete, observed, drive, action>>
      /\ turn = "pump" /\ turn' = "network"
  BY DEF InPump, results
<1>6. d \in Nat
  BY <1>2, Counts DEF Joints
<1>7. /\ WireOK' /\ AnsweredOK' /\ OrderOK' /\ NoThree' /\ ReadTrue' /\ ModeTrue'
      /\ ReadWhilePending'
  BY <1>1, <1>2, <1>3, <1>5, EmitShape
<1>8. /\ Twins' /\ Covered' /\ Locked'
      /\ \A f \in Alive(expectations') : ~f.quarantined =>
           \A k \in DOMAIN wire'[f.joint] :
             Alike(f, wire'[f.joint][k]) => wire'[f.joint][k].fate # "stale"
  BY <1>1, <1>2, <1>3, EmitCover
<1>9. /\ WireType'
      /\ \A j \in Joints : \A k \in DOMAIN wire'[j] :
           \/ k \in DOMAIN wire[j] /\ wire'[j][k] = wire[j][k]
           \/ j = d /\ k = Len(wire[d]) + 1 /\ wire'[j][k] = z
  BY <1>1, <1>2, <1>3, EmitIs
<1>10. Fresh'
  <2>1. ASSUME NEW f \in Alive(expectations'), ~f.quarantined, f.source = "DISCOVERY"
        PROVE  /\ discovery'.state = "WAITING" /\ IsAsked(f.joint, f, discovery')
               /\ discovery'.age <= f.age
    <3>1. f \in Alive(expectations)
      BY <1>3, <1>4, <2>1 DEF Adds
    <3> QED
      BY <1>1, <2>1, <3>1 DEF Fresh
  <2> QED
    BY <1>8, <2>1 DEF Fresh
<1>11. CurrentOK'
  <2> SUFFICES ASSUME NEW j \in Joints, NEW k \in DOMAIN wire'[j], Own(wire'[j][k])
               PROVE  /\ wire'[j][k].source = "DISCOVERY" =>
                           /\ discovery'.state = "WAITING"
                           /\ IsAsked(j, wire'[j][k], discovery')
                           /\ discovery'.age <= wire'[j][k].age
                      /\ wire'[j][k].source = "MODE_READ" =>
                           /\ switch'.state = "READ_WAITING" /\ switch'.joint = j
                           /\ switch'.age <= wire'[j][k].age
                      /\ wire'[j][k].source = "MODE_WRITE" /\ switch'.state = "WRITING" =>
                           j < switch'.joint
    BY DEF CurrentOK
  <2>1. CASE k \in DOMAIN wire[j] /\ wire'[j][k] = wire[j][k]
    <3>1. /\ wire[j][k].source = "DISCOVERY" =>
               /\ discovery.state = "WAITING" /\ IsAsked(j, wire[j][k], discovery)
               /\ discovery.age <= wire[j][k].age
          /\ wire[j][k].source # "MODE_READ"
          /\ wire[j][k].source = "MODE_WRITE" /\ switch.state = "WRITING" => j < d
      BY <1>1, <1>2, <2>1 DEF CurrentOK
    <3>2. wire[j][k].source = "MODE_WRITE" /\ switch'.state = "WRITING" => j < switch'.joint
      <4> SUFFICES ASSUME wire[j][k].source = "MODE_WRITE", switch'.state = "WRITING"
                   PROVE  j < switch'.joint
        OBVIOUS
      <4>1. j < d /\ d < switch'.joint /\ switch'.joint \in 1..(N + 1)
        BY <3>1 DEF SwitchGoes, SwitchState
      <4>2. j \in Nat /\ N \in Nat
        BY Counts DEF Joints
      <4> QED
        BY <1>6, <4>1, <4>2
    <3> QED
      BY <2>1, <3>1, <3>2
  <2>2. CASE j = d /\ wire'[j][k] = z
    <3>1. z.source = "MODE_READ" => switch'.age <= 0
      BY <1>4
    <3> QED
      BY <1>4, <2>2, <3>1
  <2> QED
    BY <1>9, <2>1, <2>2
<1>12. BootOK'
  <2> SUFFICES ASSUME Requesting, ~discovery.active
               PROVE  BootOK'
    BY DEF BootOK, Requesting
  <2>1. \A j \in Joints : \A k \in DOMAIN wire'[j] : At(j, k)' =>
          At(j, k) /\ k \in DOMAIN wire[j] /\ wire'[j][k] = wire[j][k]
    BY <1>4, <1>9 DEF At
  <2>2. d \notin Pending /\ Pending \subseteq Joints
    BY <1>1, <1>2, Reading DEF VerifiedOK, Pending
  <2>3. \A j \in Pending : \A k \in DOMAIN wire'[j] : wire'[j][k].source \notin ModeSources
    BY <1>1, <1>9, <2>2 DEF BootOK
  <2>4. Pending' = Pending
    BY DEF Pending, Requesting
  <2> QED
    BY <1>1, <2>1, <2>3, <2>4 DEF BootOK
<1>13. VerifiedOK'
  BY <1>1, <1>5 DEF VerifiedOK, Requesting, Pending
<1>14. Course'
  BY <1>1, <1>5, ModeCourse
<1>15. TypeOK'
  BY <1>1, <1>5, <1>9 DEF TypeOK, ResultsType, TurnType, DriveType, SwitchGoes
<1> QED
  BY <1>7, <1>8, <1>10, <1>11, <1>12, <1>13, <1>14, <1>15 DEF IInv, Traffic

\* The cursor of the writes.
LEMMA WrittenIs ==
  ASSUME NEW s \in SwitchState, s.state = "WRITING", s.joint \in s.mask
  PROVE  /\ Written(s) \in SwitchState
         /\ Written(s).state \in {"WRITING", "READ_READY"} /\ Written(s).joint \in s.mask
         /\ Written(s).mask = s.mask /\ Written(s).mode = s.mode /\ Written(s).age = s.age
         /\ Written(s).state = "WRITING" => s.joint < Written(s).joint
<1> DEFINE next == First(s.mask, s.joint + 1)
           first == First(s.mask, 1)
<1>1. /\ s.mask \in SUBSET Joints /\ s.joint \in Joints /\ N \in Nat /\ s.joint \in Nat
      /\ s.joint >= 1 /\ s.joint <= N
  BY Counts DEF SwitchState, Joints
<1>2. /\ next \in 1..(N + 1) /\ (next <= N => next \in s.mask /\ next >= s.joint + 1)
      /\ first \in 1..(N + 1) /\ (first <= N => first \in s.mask)
      /\ first <= s.joint
  <2>1. s.joint + 1 \in Nat /\ 1 \in Nat
    BY <1>1
  <2> QED
    BY <1>1, <2>1, FirstIs
<1>3. Written(s) = IF next > N THEN [s EXCEPT !.joint = first, !.state = "READ_READY"]
                               ELSE [s EXCEPT !.joint = next]
  BY DEF Written
<1> HIDE DEF next, first
<1>4. first \in s.mask
  BY <1>1, <1>2
<1>5. CASE next > N
  <2> DEFINE w == [s EXCEPT !.joint = first, !.state = "READ_READY"]
  <2>1. w \in SwitchState
    BY <1>2 DEF SwitchState, Switching
  <2>2. /\ w.state = "READ_READY" /\ w.joint = first /\ w.mask = s.mask
        /\ w.mode = s.mode /\ w.age = s.age
    BY DEF SwitchState
  <2>3. Written(s) = w
    BY <1>3, <1>5
  <2> HIDE DEF w
  <2> QED
    BY <1>4, <2>1, <2>2, <2>3
<1>6. CASE ~(next > N)
  <2>1. next \in s.mask /\ s.joint < next
    BY <1>1, <1>2, <1>6
  <2> QED
    BY <1>2, <1>3, <1>6, <2>1 DEF SwitchState
<1> QED
  BY <1>5, <1>6

\* A request of a mode switch, or what keeps it from being sent.
LEMMA RequestStep ==
  ASSUME IInv, InPump, action.kind = "MODE", UNCHANGED discovery,
         NEW source, NEW op, NEW before, NEW after,
         \/ source = "MODE_WRITE" /\ op = "write" /\ switch.state = "WRITING"
         \/ /\ source = "MODE_READ" /\ op = "read"
            /\ switch.state = "READ_READY"
               \/ (switch.state = "READ_WAITING" /\ switch.age >= Timeout),
         switch.rollover => MoveFits(expectations, ModeSources),
         before \in SwitchState, after \in SwitchState,
         before.joint = switch.joint, before.mask = switch.mask, before.mode = switch.mode,
         before.age = 0,
         before.state = IF switch.state = "WRITING" THEN "WRITING" ELSE "READ_READY",
         after.mask = switch.mask, after.mode = switch.mode, after.age = 0,
         after.joint \in switch.mask, after.state \in Switching,
         after.state = "WRITING" => source = "MODE_WRITE" /\ switch.joint < after.joint,
         source = "MODE_READ" => after.state = "READ_WAITING" /\ after.joint = switch.joint,
         Request(source, op, before, after)
  PROVE  IInv'
<1> DEFINE e == Entry(source, before.joint, op, "mode")
           moved == IF switch.rollover THEN MovedExpectations(expectations, ModeSources)
                                       ELSE Live(expectations)
<1>1. /\ TypeOK /\ TablesOK /\ Traffic /\ SwitchOK /\ WireType /\ TablesType /\ CurrentOK
      /\ switch \in SwitchState
  BY DEF IInv, Course, Traffic, TypeOK
<1>2. /\ switch.state \in Switching /\ switch.joint \in switch.mask
      /\ switch.rollover \in BOOLEAN
      /\ switch.state \in {"WRITING", "READ_READY"} => switch.age = 0
  BY <1>1 DEF SwitchOK, Switching, SwitchState
<1>3. quarantine' = IF switch.rollover THEN MovedQuarantine(expectations, ModeSources)
                                       ELSE Live(quarantine)
  BY DEF Request
<1>4. /\ moved \in Seq(TableEntry) /\ Unique(moved) /\ TableOK(moved)
      /\ Len(moved) <= Capacity /\ Alive(moved) \subseteq Alive(expectations)
      /\ \A f \in Table : f \in Alive(moved) \/ f \in Alive(quarantine')
      /\ \A f \in Alive(expectations) : ~f.quarantined => f \in Alive(moved)
      /\ quarantine' \in Seq(TableEntry) /\ TableOK(quarantine')
      /\ \A f \in ToSet(quarantine') : f.quarantined
      /\ Alive(quarantine) \subseteq Alive(quarantine')
      /\ Alive(quarantine') \subseteq Table
      /\ expectations' = moved => TablesType' /\ TablesOK' /\ CalmTables
  BY <1>1, <1>2, <1>3, MovedStep
<1>5. /\ IF IsQuarantined(e)
           THEN switch' = before /\ expectations' = moved /\ UNCHANGED wire
         ELSE IF Fits(moved, e)
           THEN /\ switch' = after /\ expectations' = Recorded(moved, e)
                /\ Emit(before.joint, Sent(source, op, "mode",
                                           IF op = "write" THEN switch.mode ELSE None))
           ELSE /\ switch' = [after EXCEPT !.state = "FAILED"]
                /\ expectations' = moved /\ UNCHANGED wire
  BY DEF Request
<1> HIDE DEF moved
<1>6. \A j \in Joints : \A k \in DOMAIN wire[j] :
        Own(wire[j][k]) => wire[j][k].source # "MODE_READ"
  BY <1>1, NothingRead
<1>7. CASE IsQuarantined(e)
  <2>1. switch' = before /\ TablesType' /\ TablesOK' /\ CalmTables /\ UNCHANGED wire
    BY <1>4, <1>5, <1>7
  <2>2. SwitchGoes
    BY <1>2, <2>1 DEF SwitchGoes, Switching
  <2>3. \/ /\ switch'.state = switch.state /\ switch'.joint = switch.joint
           /\ switch'.age = switch.age
        \/ switch'.state # "WRITING"
    BY <1>2, <2>1
  <2> QED
    BY <1>6, <2>1, <2>2, <2>3, SwitchStep
<1>8. CASE ~IsQuarantined(e) /\ Fits(moved, e)
  <2>1. /\ switch' = after /\ expectations' = Recorded(moved, e)
        /\ Emit(switch.joint, Sent(source, op, "mode",
                                   IF op = "write" THEN switch.mode ELSE None))
        /\ ~IsQuarantined(Entry(source, switch.joint, op, "mode"))
        /\ e = Entry(source, switch.joint, op, "mode")
    BY <1>5, <1>8
  <2>2. e \in TableEntry /\ Shaped(e) /\ ~e.quarantined /\ e.age = 0
    BY <1>1, <2>1, ModeAskingIs
  <2> HIDE DEF e
  <2>3. TablesType' /\ TablesOK' /\ Adds(e)
    BY <1>1, <1>4, <1>8, <2>1, <2>2, RecordStep
  <2>4. SwitchGoes
    BY <1>2, <2>1 DEF SwitchGoes, Switching
  <2> QED
    BY <2>1, <2>3, <2>4, ModeAskPump
<1>9. CASE ~IsQuarantined(e) /\ ~Fits(moved, e)
  <2>1. switch' = [after EXCEPT !.state = "FAILED"] /\ TablesType' /\ TablesOK'
        /\ CalmTables /\ UNCHANGED wire
    BY <1>4, <1>5, <1>9
  <2>2. switch' \in SwitchState /\ switch'.state = "FAILED"
    BY <2>1 DEF SwitchState
  <2>3. SwitchGoes
    BY <2>2 DEF SwitchGoes, Switching
  <2> QED
    BY <1>6, <2>1, <2>2, <2>3, SwitchStep
<1> QED
  BY <1>7, <1>8, <1>9

\* The step of a mode switch in a cycle.
LEMMA ModePump ==
  ASSUME IInv, NextControlModeFrame
  PROVE  IInv'
<1> DEFINE stuck == switch.rollover /\ ~MoveFits(expectations, ModeSources)
           free == [switch EXCEPT !.rollover = FALSE]
           late == switch.state = "READ_WAITING" /\ switch.age >= Timeout
           again == IF late THEN [free EXCEPT !.attempts = @ + 1, !.age = 0,
                                              !.state = "READ_READY"]
                            ELSE free
<1>1. InPump /\ action.kind = "MODE" /\ UNCHANGED discovery
  BY DEF NextControlModeFrame
<1>2. /\ TypeOK /\ TablesOK /\ Traffic /\ SwitchOK /\ WireType /\ TablesType /\ CurrentOK
      /\ switch \in SwitchState
  BY DEF IInv, Course, Traffic, TypeOK
<1>3. \/ switch.state \notin Switching /\ UNCHANGED <<switch, tables, wire>>
      \/ switch.state \in Switching /\ stuck /\ Expire /\ UNCHANGED <<switch, wire>>
      \/ /\ switch.state = "READ_WAITING" /\ ~stuck /\ ~late
         /\ UNCHANGED <<switch, tables, wire>>
      \/ /\ late /\ ~stuck /\ again.attempts >= Attempts
         /\ switch' = [again EXCEPT !.state = "FAILED"]
         /\ UNCHANGED <<tables, wire>>
      \/ /\ switch.state = "WRITING" /\ ~stuck
         /\ Request("MODE_WRITE", "write", again, Written(again))
      \/ /\ switch.state = "READ_READY" \/ (late /\ again.attempts < Attempts)
         /\ ~stuck
         /\ Request("MODE_READ", "read", again, [again EXCEPT !.state = "READ_WAITING"])
  BY DEF NextControlModeFrame
<1>4. /\ again \in SwitchState
      /\ again.joint = switch.joint /\ again.mask = switch.mask /\ again.mode = switch.mode
      /\ late => again.age = 0 /\ again.state = "READ_READY"
      /\ ~late => again.age = switch.age /\ again.state = switch.state
  <2>1. 0 \in 0..Timeout
    BY Counts
  <2>2. /\ free \in SwitchState
        /\ free.joint = switch.joint /\ free.mask = switch.mask /\ free.mode = switch.mode
        /\ free.age = switch.age /\ free.state = switch.state
    BY <1>2 DEF SwitchState
  <2> HIDE DEF free
  <2> DEFINE next == [free EXCEPT !.attempts = @ + 1, !.age = 0, !.state = "READ_READY"]
  <2>3. /\ next.joint = free.joint /\ next.mask = free.mask /\ next.mode = free.mode
        /\ next.age = 0 /\ next.state = "READ_READY"
    BY <2>2 DEF SwitchState
  <2>4. again = IF late THEN next ELSE free
    OBVIOUS
  <2>5. free.attempts + 1 \in Nat /\ "READ_READY" \in Switching
    BY <2>2 DEF SwitchState, Switching
  <2>6. next \in SwitchState
    BY <2>1, <2>2, <2>5 DEF SwitchState
  <2> HIDE DEF next
  <2> QED
    BY <2>2, <2>3, <2>4, <2>6
<1>5. late => switch.state = "READ_WAITING" /\ switch.age >= Timeout
  OBVIOUS
<1>6. ~stuck => (switch.rollover => MoveFits(expectations, ModeSources))
  OBVIOUS
<1> HIDE DEF stuck, late, again
<1>7. CASE Expiry /\ UNCHANGED <<switch, wire>>
  BY <1>1, <1>7, QuietPump
<1>8. CASE UNCHANGED <<switch, tables, wire>>
  BY <1>7, <1>8 DEF tables, Expiry
<1>9. CASE Expire /\ UNCHANGED <<switch, wire>>
  BY <1>7, <1>9 DEF Expire, Expiry
<1>10. CASE late /\ switch' = [again EXCEPT !.state = "FAILED"] /\ UNCHANGED <<tables, wire>>
  <2>1. Expiry
    BY <1>10 DEF tables, Expiry
  <2>2. TablesType' /\ TablesOK' /\ CalmTables
    BY <1>2, <2>1, ExpiryIs
  <2>3. switch' \in SwitchState /\ switch'.state = "FAILED"
    BY <1>4, <1>10 DEF SwitchState
  <2>4. SwitchGoes
    BY <2>3 DEF SwitchGoes, Switching
  <2>5. \A j \in Joints : \A k \in DOMAIN wire[j] :
          Own(wire[j][k]) => wire[j][k].source # "MODE_READ"
    BY <1>2, <1>5, <1>10, NothingRead
  <2> QED
    BY <1>1, <1>10, <2>2, <2>3, <2>4, <2>5, SwitchStep
<1>11. CASE /\ switch.state = "WRITING" /\ ~stuck
            /\ Request("MODE_WRITE", "write", again, Written(again))
  <2>1. again.state = "WRITING" /\ again.age = 0 /\ again.joint \in again.mask
    BY <1>2, <1>4, <1>5, <1>11 DEF SwitchOK, Switching
  <2> DEFINE after == Written(again)
  <2>2. /\ after \in SwitchState
        /\ after.state \in {"WRITING", "READ_READY"} /\ after.joint \in again.mask
        /\ after.mask = again.mask /\ after.mode = again.mode /\ after.age = again.age
        /\ after.state = "WRITING" => again.joint < after.joint
    BY <1>4, <2>1, WrittenIs
  <2>3. after.state \in Switching
    BY <2>2 DEF Switching
  <2>4. Request("MODE_WRITE", "write", again, after)
    BY <1>11
  <2> HIDE DEF after
  <2> QED
    BY <1>1, <1>4, <1>6, <1>11, <2>1, <2>2, <2>3, <2>4, RequestStep
<1>12. CASE /\ switch.state = "READ_READY" \/ (late /\ again.attempts < Attempts)
            /\ ~stuck
            /\ Request("MODE_READ", "read", again, [again EXCEPT !.state = "READ_WAITING"])
  <2>1. /\ again.state = "READ_READY" /\ again.age = 0 /\ switch.joint \in switch.mask
        /\ switch.state = "READ_READY"
           \/ (switch.state = "READ_WAITING" /\ switch.age >= Timeout)
        /\ switch.state # "WRITING"
    BY <1>2, <1>4, <1>5, <1>12 DEF SwitchOK, Switching
  <2> DEFINE after == [again EXCEPT !.state = "READ_WAITING"]
  <2>2. /\ after \in SwitchState /\ after.state = "READ_WAITING"
        /\ after.joint = again.joint /\ after.mask = again.mask /\ after.mode = again.mode
        /\ after.age = again.age
    BY <1>4 DEF SwitchState, Switching
  <2>3. after.state \in Switching
    BY <2>2 DEF Switching
  <2>4. Request("MODE_READ", "read", again, after)
    BY <1>12
  <2> HIDE DEF after
  <2> QED
    BY <1>1, <1>4, <1>6, <1>12, <2>1, <2>2, <2>3, <2>4, RequestStep
<1> QED
  BY <1>3, <1>8, <1>9, <1>10, <1>11, <1>12

-----------------------------------------------------------------------------
(* The beginning and the end of sequences.                                  *)

\* What became of the sequence of a request is noted at the request.
LEMMA FatedIs ==
  ASSUME WireType, NEW sources, NEW fates, NEW fate \in Fates,
         wire' = Fated(sources, fates, fate)
  PROVE  /\ WireType'
         /\ \A j \in Joints :
              /\ DOMAIN wire'[j] = DOMAIN wire[j]
              /\ \A k \in DOMAIN wire[j] :
                   LET x == wire[j][k]
                       y == wire'[j][k]
                   IN /\ k \in Nat /\ Stay[j][k] = k
                      /\ y.source = x.source /\ y.op = x.op /\ y.register = x.register
                      /\ y.mode = x.mode /\ y.answered = x.answered /\ y.age = x.age
                      /\ y.fate = IF x.source \in sources /\ x.fate \in fates
                                    THEN fate ELSE x.fate
<1>1. \A j \in Joints :
        wire'[j] = [k \in DOMAIN wire[j] |->
                      IF wire[j][k].source \in sources /\ wire[j][k].fate \in fates
                        THEN [wire[j][k] EXCEPT !.fate = fate] ELSE wire[j][k]]
  BY DEF Fated
<1>2. \A j \in Joints : wire[j] \in Seq(Item) /\ \A k \in DOMAIN wire[j] :
        k \in Nat /\ wire[j][k] \in Item
  BY WireFacts DEF WireType
<1>3. ASSUME NEW j \in Joints, NEW k \in DOMAIN wire[j]
      PROVE  LET x == wire[j][k]
                 y == wire'[j][k]
             IN /\ y \in Item
                /\ y.source = x.source /\ y.op = x.op /\ y.register = x.register
                /\ y.mode = x.mode /\ y.answered = x.answered /\ y.age = x.age
                /\ y.fate = IF x.source \in sources /\ x.fate \in fates
                              THEN fate ELSE x.fate
  <2> DEFINE x == wire[j][k]
  <2>1. x \in Item /\ wire'[j][k] = IF x.source \in sources /\ x.fate \in fates
                                      THEN [x EXCEPT !.fate = fate] ELSE x
    BY <1>1, <1>2
  <2> HIDE DEF x
  <2>2. LET y == [x EXCEPT !.fate = fate]
        IN /\ y \in Item /\ y.fate = fate
           /\ y.source = x.source /\ y.op = x.op /\ y.register = x.register
           /\ y.mode = x.mode /\ y.answered = x.answered /\ y.age = x.age
    BY <2>1 DEF Item
  <2> QED
    BY <2>1, <2>2 DEF x
<1>4. ASSUME NEW j \in Joints
      PROVE  DOMAIN wire'[j] = DOMAIN wire[j] /\ wire'[j] \in Seq(Item)
  <2> DEFINE s == wire[j]
             t == wire'[j]
  <2>1. /\ s \in Seq(Item) /\ DOMAIN t = DOMAIN s /\ t = [k \in DOMAIN s |-> t[k]]
    BY <1>1, <1>2
  <2>2. \A k \in DOMAIN s : t[k] \in Item
    BY <1>3
  <2> HIDE DEF s, t
  <2>3. t \in Seq(Item)
    BY <2>1, <2>2, MapIs
  <2> QED
    BY <2>1, <2>3 DEF s, t
<1>5. wire' = [j \in Joints |-> wire'[j]]
  BY DEF Fated
<1>6. WireType'
  BY <1>4, <1>5 DEF WireType
<1>7. \A j \in Joints : \A k \in DOMAIN wire[j] : Stay[j][k] = k
  BY <1>2 DEF Stay
<1> QED
  BY <1>2, <1>3, <1>4, <1>6, <1>7

\* That changes neither their order nor what they ask and answer.
LEMMA FatedStill ==
  ASSUME WireType, WireOK, NEW sources, NEW fates, NEW fate \in {"stale", "orphan"},
         fate = "orphan" => sources \cap ModeSources = {},
         fate = "stale" => sources \subseteq ModeSources \/ "orphan" \notin fates,
         wire' = Fated(sources, fates, fate)
  PROVE  Still(Stay)
<1>1. fate \in Fates /\ fate # "current"
  BY DEF Fates
<1>2. /\ WireType'
      /\ \A j \in Joints :
              /\ DOMAIN wire'[j] = DOMAIN wire[j]
              /\ \A k \in DOMAIN wire[j] :
                   LET x == wire[j][k]
                       y == wire'[j][k]
                   IN /\ k \in Nat /\ Stay[j][k] = k
                      /\ y.source = x.source /\ y.op = x.op /\ y.register = x.register
                      /\ y.mode = x.mode /\ y.answered = x.answered /\ y.age = x.age
                      /\ y.fate = IF x.source \in sources /\ x.fate \in fates
                                    THEN fate ELSE x.fate
  BY <1>1, FatedIs
<1>3. Places(Stay)
  BY <1>2 DEF Places
<1>4. \A j \in Joints : \A k \in DOMAIN wire[j] :
        wire[j][k].source \in ModeSources => Sound(wire[j][k])
  BY DEF WireOK
<1>5. ASSUME NEW j \in Joints, NEW k \in DOMAIN wire'[j]
      PROVE  /\ Kin(wire'[j][k], wire[j][Stay[j][k]])
             /\ wire'[j][k].answered = wire[j][Stay[j][k]].answered
             /\ wire'[j][k].mode = wire[j][Stay[j][k]].mode
  <2>1. /\ k \in DOMAIN wire[j] /\ Stay[j][k] = k
        /\ wire'[j][k].source = wire[j][k].source /\ wire'[j][k].op = wire[j][k].op
        /\ wire'[j][k].register = wire[j][k].register
        /\ wire'[j][k].mode = wire[j][k].mode /\ wire'[j][k].answered = wire[j][k].answered
        /\ wire'[j][k].fate =
             IF wire[j][k].source \in sources /\ wire[j][k].fate \in fates
               THEN fate ELSE wire[j][k].fate
        /\ wire[j][k].source \in ModeSources => wire[j][k].fate # "orphan"
    BY <1>2, <1>4, <1>5 DEF Sound
  <2>2. Kin(wire'[j][k], wire[j][k])
    BY <1>1, <2>1 DEF Kin, Alike, Own, Sound
  <2> QED
    BY <2>1, <2>2
<1> QED
  BY <1>3, <1>5 DEF Still, Thins


\* A table without the entries of discoveries.
LEMMA ForgottenIs ==
  ASSUME TablesType, TablesOK, quarantine' = quarantine,
         expectations' = Kept(expectations, {e \in ToSet(expectations) :
                                                e.source # "DISCOVERY"})
  PROVE  /\ TablesType' /\ TablesOK'
         /\ Alive(expectations') = {e \in Alive(expectations) : e.source # "DISCOVERY"}
         /\ Alive(quarantine') = Alive(quarantine)
<1> DEFINE keep == {e \in ToSet(expectations) : e.source # "DISCOVERY"}
           t == Kept(expectations, keep)
<1>1. /\ expectations \in Seq(TableEntry) /\ Unique(expectations)
      /\ Len(expectations) <= Capacity
  BY DEF TablesType, TablesOK
<1>2. /\ t \in Seq(TableEntry) /\ Len(t) <= Len(expectations)
      /\ ToSet(t) = ToSet(expectations) \cap keep /\ Unique(t)
  BY <1>1, KeptIs, UniqueKept
<1>3. expectations' = t
  OBVIOUS
<1>4. \A e : e \in keep <=> e \in ToSet(expectations) /\ e.source # "DISCOVERY"
  OBVIOUS
<1> HIDE DEF t, keep
<1>5. Len(t) <= Capacity
  BY <1>1, <1>2, Counts
<1>6. TablesType' /\ TablesOK'
  BY <1>2, <1>3, <1>5 DEF TablesType, TablesOK, TableOK
<1> QED
  BY <1>2, <1>3, <1>4, <1>6 DEF Alive

\* The requests when a discovery is started over.
LEMMA RestartTraffic ==
  ASSUME IInv, action.kind = "IDLE", NEW mask \in SUBSET Joints,
         BeginDiscovery(mask), drive' = drive
  PROVE  /\ WireType' /\ TablesType' /\ TablesOK'
         /\ WireOK' /\ AnsweredOK' /\ OrderOK' /\ Twins' /\ Covered' /\ Fresh' /\ CurrentOK'
         /\ NoThree' /\ Locked' /\ ReadWhilePending' /\ ModeTrue' /\ ReadTrue'
<1>1. /\ WireType /\ TablesType /\ TablesOK /\ ResultsType
      /\ WireOK /\ AnsweredOK /\ OrderOK /\ Twins /\ Covered /\ Fresh /\ CurrentOK
      /\ NoThree /\ Locked /\ BootOK /\ ReadWhilePending /\ ModeTrue /\ ReadTrue
      /\ ActiveOK
  BY DEF IInv, Course, Traffic, TypeOK
<1>2. /\ wire' = Fated({"DISCOVERY"}, Fates, "orphan") /\ switch' = switch
      /\ quarantine' = quarantine
      /\ expectations' = Kept(expectations, {e \in ToSet(expectations) :
                                                e.source # "DISCOVERY"})
      /\ \A j \in Joints :
           /\ verified'[j] = IF j \in mask THEN {} ELSE verified[j]
           /\ observed'[j] = IF j \in mask THEN None ELSE observed[j]
  BY DEF BeginDiscovery
<1>3. Still(Stay) /\ Thins(Stay)
  <2>1. {"DISCOVERY"} \cap ModeSources = {}
    BY DEF ModeSources
  <2> QED
    BY <1>1, <1>2, <2>1, FatedStill DEF Still
<1>4. /\ WireType'
      /\ \A j \in Joints :
           /\ DOMAIN wire'[j] = DOMAIN wire[j]
           /\ \A k \in DOMAIN wire[j] :
                /\ k \in Nat
                /\ wire'[j][k].source = wire[j][k].source
                /\ wire'[j][k].op = wire[j][k].op
                /\ wire'[j][k].register = wire[j][k].register
                /\ wire'[j][k].age = wire[j][k].age
                /\ wire[j][k].source # "DISCOVERY" => wire'[j][k].fate = wire[j][k].fate
                /\ wire[j][k].source = "DISCOVERY" => wire'[j][k].fate = "orphan"
  <2>1. "orphan" \in Fates
    BY DEF Fates
  <2> DEFINE S == {"DISCOVERY"}
  <2>2. \A x : x \in S <=> x = "DISCOVERY"
    OBVIOUS
  <2>3. wire' = Fated(S, Fates, "orphan")
    BY <1>2
  <2> HIDE DEF S
  <2>4. \A j \in Joints : \A k \in DOMAIN wire[j] : wire[j][k].fate \in Fates
    BY <1>1, WireFacts DEF WireType
  <2> QED
    BY <1>1, <2>1, <2>2, <2>3, <2>4, FatedIs
<1>5. WireOK' /\ OrderOK' /\ NoThree'
  BY <1>1, <1>3, <1>4, ThinsShape
<1>6. AnsweredOK' /\ ReadTrue'
  BY <1>1, <1>3, StillTrue
<1>7. ModeTrue'
  <2>1. ASSUME NEW j \in Joints, "mode" \in verified'[j]
        PROVE  "mode" \in verified[j] /\ observed'[j] = observed[j]
    BY <1>2, <2>1
  <2> QED
    BY <1>1, <1>3, <2>1, StillMode
<1>8. /\ TablesType' /\ TablesOK'
      /\ Alive(expectations') = {e \in Alive(expectations) : e.source # "DISCOVERY"}
      /\ Alive(quarantine') = Alive(quarantine)
  BY <1>1, <1>2, ForgottenIs
<1>9. \A e \in Table : e.source # "DISCOVERY" => e \in Table'
  BY <1>8 DEF Table
<1>10. Twins'
  <2> SUFFICES ASSUME NEW j \in Joints, NEW k \in DOMAIN wire'[j], NEW n \in DOMAIN wire'[j],
                      k < n, Alike(wire'[j][k], wire'[j][n]), Sound(wire'[j][k]),
                      Sound(wire'[j][n])
               PROVE  FALSE
    BY DEF Twins
  <2>1. /\ wire[j][k].source # "DISCOVERY" /\ wire[j][n].source # "DISCOVERY"
        /\ Sound(wire[j][k]) /\ Sound(wire[j][n]) /\ Alike(wire[j][k], wire[j][n])
        /\ k \in DOMAIN wire[j] /\ n \in DOMAIN wire[j]
    BY <1>4 DEF Sound, Alike
  <2> QED
    BY <1>1, <2>1 DEF Twins
<1>11. Covered'
  <2> SUFFICES ASSUME NEW j \in Joints, NEW k \in DOMAIN wire'[j]
               PROVE  /\ wire'[j][k].fate = "current" =>
                           CoveredCurrent(j, wire'[j][k], Alive(expectations'))
                      /\ wire'[j][k].fate = "stale" =>
                           CoveredStale(j, wire'[j][k], Table')
    BY DEF Covered
  <2>1. CASE wire[j][k].source = "DISCOVERY"
    BY <1>4, <2>1
  <2>2. CASE wire[j][k].source # "DISCOVERY"
    <3>1. /\ k \in DOMAIN wire[j] /\ wire[j][k].source \in ModeSources
          /\ wire'[j][k].source = wire[j][k].source /\ wire'[j][k].fate = wire[j][k].fate
          /\ wire'[j][k].op = wire[j][k].op /\ wire'[j][k].age = wire[j][k].age
          /\ wire'[j][k].register = wire[j][k].register
      BY <1>1, <1>4, <2>2, WireFacts DEF WireType, Sequence, ModeSources
    <3>2. /\ wire[j][k].fate = "current" =>
               CoveredCurrent(j, wire[j][k], Alive(expectations))
          /\ wire[j][k].fate = "stale" => CoveredStale(j, wire[j][k], Table)
      BY <1>1, <3>1 DEF Covered
    <3>3. wire[j][k].fate = "current" =>
            CoveredCurrent(j, wire'[j][k], Alive(expectations'))
      BY <1>8, <2>2, <3>1, <3>2 DEF CoveredCurrent, Of, Alike
    <3>4. wire[j][k].fate = "stale" => CoveredStale(j, wire'[j][k], Table')
      BY <1>9, <2>2, <3>1, <3>2 DEF CoveredStale, Of, Alike
    <3> QED
      BY <3>1, <3>3, <3>4
  <2> QED
    BY <2>1, <2>2
<1>12. Fresh'
  <2> SUFFICES ASSUME NEW e \in Alive(expectations'), ~e.quarantined
               PROVE  /\ e.source # "DISCOVERY"
                      /\ \A k \in DOMAIN wire'[e.joint] :
                           Alike(e, wire'[e.joint][k]) => wire'[e.joint][k].fate # "stale"
    BY DEF Fresh
  <2>1. e \in Alive(expectations) /\ e.source # "DISCOVERY" /\ e.joint \in Joints
    BY <1>1, <1>8, EntryFacts
  <2>2. \A k \in DOMAIN wire[e.joint] :
          Alike(e, wire[e.joint][k]) => wire[e.joint][k].fate # "stale"
    BY <1>1, <2>1 DEF Fresh
  <2>3. ASSUME NEW k \in DOMAIN wire'[e.joint], Alike(e, wire'[e.joint][k])
        PROVE  wire'[e.joint][k].fate # "stale"
    <3>1. k \in DOMAIN wire[e.joint] /\ Alike(e, wire[e.joint][k])
      BY <1>4, <2>1, <2>3 DEF Alike
    <3> QED
      BY <1>4, <2>1, <2>2, <3>1
  <2> QED
    BY <2>1, <2>3
<1>13. CurrentOK'
  <2> SUFFICES ASSUME NEW j \in Joints, NEW k \in DOMAIN wire'[j], Own(wire'[j][k])
               PROVE  /\ wire'[j][k].source # "DISCOVERY"
                      /\ wire'[j][k].source = "MODE_READ" =>
                           /\ switch'.state = "READ_WAITING" /\ switch'.joint = j
                           /\ switch'.age <= wire'[j][k].age
                      /\ wire'[j][k].source = "MODE_WRITE" /\ switch'.state = "WRITING" =>
                           j < switch'.joint
    BY DEF CurrentOK
  <2>1. /\ k \in DOMAIN wire[j] /\ wire[j][k].source # "DISCOVERY" /\ Own(wire[j][k])
        /\ wire'[j][k].source = wire[j][k].source /\ wire'[j][k].age = wire[j][k].age
    BY <1>4 DEF Own
  <2> QED
    BY <1>1, <1>2, <2>1 DEF CurrentOK
<1>14. Locked'
  <2> SUFFICES ASSUME NEW i \in Joints, NEW j \in Joints, NEW k \in DOMAIN wire'[i],
                      NEW n \in DOMAIN wire'[j], At(i, k)', At(j, n)', ~(i = j /\ k = n)
               PROVE  Locks(wire'[i][k], wire'[j][n], Alive(quarantine'), wire')
    BY DEF Locked
  <2>1. /\ k \in DOMAIN wire[i] /\ n \in DOMAIN wire[j] /\ At(i, k) /\ At(j, n)
        /\ wire'[i][k].age = wire[i][k].age /\ wire'[j][n].age = wire[j][n].age
    BY <1>4 DEF At
  <2>2. ASSUME Own(wire[i][k]) \/ Own(wire[j][n])
        PROVE  FALSE
    <3>1. Requesting /\ ~discovery.active
      BY <1>1, <2>1, <2>2 DEF CurrentOK, At, Requesting, ActiveOK
    <3> QED
      BY <1>1, <2>1, <3>1 DEF BootOK
  <2>3. Locks(wire[i][k], wire[j][n], Alive(quarantine), wire)
    BY <1>1, <2>1, <2>2 DEF Locked
  <2>4. PICK e \in Alive(quarantine) :
          /\ e.age <= wire[i][k].age /\ e.age <= wire[j][n].age
          /\ \A m \in DOMAIN wire[e.joint] :
               wire[e.joint][m].source \in ModeSources /\ Alike(e, wire[e.joint][m]) =>
                 \E f \in Alive(quarantine) :
                   /\ f.source # e.source /\ Same(f, e) /\ f.age <= wire[i][k].age
                   /\ f.age <= wire[j][n].age
    BY <2>3 DEF Locks
  <2>5. e.joint \in Joints
    BY <1>1, EntryFacts
  <2>6. \A m \in DOMAIN wire'[e.joint] :
          wire'[e.joint][m].source \in ModeSources /\ Alike(e, wire'[e.joint][m]) =>
            m \in DOMAIN wire[e.joint] /\ wire[e.joint][m].source \in ModeSources
            /\ Alike(e, wire[e.joint][m])
    BY <1>4, <2>5 DEF Alike
  <2>7. \A m \in DOMAIN wire'[e.joint] :
          wire'[e.joint][m].source \in ModeSources /\ Alike(e, wire'[e.joint][m]) =>
            \E f \in Alive(quarantine') :
              /\ f.source # e.source /\ Same(f, e) /\ f.age <= wire'[i][k].age
              /\ f.age <= wire'[j][n].age
    BY <1>8, <2>1, <2>4, <2>6
  <2> QED
    BY <1>8, <2>1, <2>4, <2>7 DEF Locks
<1>15. ReadWhilePending'
  <2> SUFFICES ASSUME NEW j \in Joints, NEW k \in DOMAIN wire'[j], ModeRead(wire'[j][k])
               PROVE  FinalRegister \notin verified'[j]
    BY DEF ReadWhilePending
  <2>1. k \in DOMAIN wire[j] /\ ModeRead(wire[j][k])
    BY <1>4 DEF ModeRead
  <2> QED
    BY <1>1, <1>2, <2>1 DEF ReadWhilePending
<1> QED
  BY <1>4, <1>5, <1>6, <1>7, <1>8, <1>10, <1>11, <1>12, <1>13, <1>14, <1>15

\* A discovery is started.
LEMMA BeginDiscoveryStep ==
  ASSUME IInv, InService, action.kind = "IDLE", NEW mask \in SUBSET Joints, mask # {},
         NEW goal \in SUBSET Joints, mask \subseteq goal, goal \ mask \subseteq complete,
         NEW shot \in BOOLEAN, NEW m \in Modes,
         BeginDiscovery(mask), Act("DISCOVERY", shot, goal, m)
  PROVE  IInv'
<1>1. /\ TypeOK /\ VerifiedOK /\ SwitchOK /\ ResultsType
  BY DEF IInv, Course, Traffic, TypeOK
<1>2. drive' = drive /\ turn' = "pump"
  BY DEF InService
<1>3. /\ WireType' /\ TablesType' /\ TablesOK'
      /\ WireOK' /\ AnsweredOK' /\ OrderOK' /\ Twins' /\ Covered' /\ Fresh' /\ CurrentOK'
      /\ NoThree' /\ Locked' /\ ReadWhilePending' /\ ModeTrue' /\ ReadTrue'
  BY <1>2, RestartTraffic
<1> DEFINE first == First(mask, 1)
<1>4. /\ first \in mask /\ first \in 1..(N + 1) /\ first \in 1..N
      /\ \A j \in mask : j >= first
  BY FirstJoint
<1>5. discovery' = [state |-> "READY", target |-> mask, joint |-> first,
                    register |-> 1, attempts |-> 0, age |-> 0, active |-> TRUE]
  BY DEF BeginDiscovery
<1> HIDE DEF first
<1>6. /\ discovery'.state = "READY" /\ discovery'.target = mask /\ discovery'.joint = first
      /\ discovery'.register = 1 /\ discovery'.attempts = 0 /\ discovery'.active
      /\ Requesting'
  BY <1>5 DEF Requesting
<1>7. discovery' \in DiscoveryState
  <2>1. 1 \in 1..Len(Registers) /\ 0 \in 0..Timeout /\ 0 \in Nat
    BY Numbers
  <2> QED
    BY <1>4, <1>5, <2>1 DEF DiscoveryState
<1>8. /\ switch' = switch /\ complete' = complete \ mask
      /\ verified' = [j \in Joints |-> IF j \in mask THEN {} ELSE verified[j]]
      /\ observed' = [j \in Joints |-> IF j \in mask THEN None ELSE observed[j]]
  BY DEF BeginDiscovery
<1>9. action' = [kind |-> "DISCOVERY", shot |-> shot, mask |-> goal, mode |-> m,
                 elapsed |-> 0]
  BY DEF Act
<1>10. TypeOK'
  <2>1. action' \in ActionState
    BY <1>9 DEF ActionState
  <2>2. None \in Values
    BY DEF Values
  <2>3. ResultsType'
    BY <1>1, <1>8, <2>2 DEF ResultsType
  <2> QED
    BY <1>1, <1>2, <1>3, <1>7, <1>8, <2>1, <2>3 DEF TypeOK, TurnType, DriveType
<1>11. Pending' = mask
  BY <1>4, <1>6 DEF Pending
<1>12. VerifiedOK'
  BY <1>1, <1>4, <1>6, <1>8, <1>11 DEF VerifiedOK, ResultsType
<1>13. BootOK'
  BY <1>6 DEF BootOK
<1>14. ActiveOK'
  BY <1>6, <1>9 DEF ActiveOK
<1>15. SwitchOK'
  BY <1>1, <1>8, <1>9 DEF SwitchOK
<1>16. ProgressOK'
  <2>1. goal \subseteq complete' \cup mask
    BY <1>8
  <2>2. 1..(1 - 1) = {}
    OBVIOUS
  <2> QED
    BY <1>6, <1>9, <1>11, <2>1, <2>2 DEF ProgressOK
<1>17. TimeOK'
  <2>1. /\ 1 \in 1..Len(Registers) /\ 0 \in Nat
    BY Numbers
  <2>2. Budget(Slot(first, 1, 0)) \in Nat
    BY <1>4, <2>1, SlotIs, BudgetIs
  <2>3. \A e \in Tombstones' : e \in TableEntry /\ e.age \in Nat
    <3>1. \A e \in Alive(expectations') \cup Alive(quarantine') : e \in TableEntry
      BY <1>3, Holds DEF TablesType, Alive
    <3>2. \A e \in TableEntry : e.age \in Nat
      BY Counts DEF TableEntry
    <3> QED
      BY <1>3, <3>1, <3>2, TombstonesAfter DEF Table
  <2>4. action'.elapsed = 0 /\ turn' # "network"
    BY <1>2, <1>9
  <2>5. 0 + 0 <= Budget(Slot(first, 1, 0)) /\ \A e \in Tombstones' : 0 <= e.age
    BY <2>2, <2>3
  <2> QED
    BY <1>6, <2>4, <2>5 DEF TimeOK
<1> QED
  BY <1>3, <1>10, <1>12, <1>13, <1>14, <1>15, <1>16, <1>17 DEF IInv, Course, Traffic


\* The requests when a mode switch begins.
LEMMA SwitchTraffic ==
  ASSUME IInv, action.kind \in {"IDLE", "DISCOVERY"}, action.kind = "DISCOVERY" => ~Requesting,
         NEW mask \in SUBSET Joints, NEW m, BeginMode(mask, m), drive' = drive
  PROVE  /\ WireType' /\ TablesType' /\ TablesOK'
         /\ WireOK' /\ AnsweredOK' /\ OrderOK' /\ Twins' /\ Covered' /\ Fresh' /\ CurrentOK'
         /\ NoThree' /\ Locked' /\ BootOK' /\ ReadWhilePending' /\ ModeTrue' /\ ReadTrue'
<1>1. /\ WireType /\ TablesType /\ TablesOK /\ ResultsType
      /\ WireOK /\ AnsweredOK /\ OrderOK /\ Twins /\ Covered /\ Fresh /\ CurrentOK
      /\ NoThree /\ Locked /\ BootOK /\ VerifiedOK /\ ReadWhilePending /\ ModeTrue /\ ReadTrue
      /\ ActiveOK /\ discovery \in DiscoveryState
  BY DEF IInv, Course, Traffic, TypeOK
<1>2. /\ wire' = Fated(ModeSources, Fates, "stale") /\ discovery' = discovery
      /\ quarantine' = quarantine /\ observed' = observed
      /\ expectations' = Marked(expectations, ModeSources, FALSE)
      /\ \A j \in Joints :
           verified'[j] = verified[j] \ (IF j \in mask THEN {"mode"} ELSE {})
  BY DEF BeginMode
<1>3. Still(Stay) /\ Thins(Stay)
  BY <1>1, <1>2, FatedStill DEF Still
<1>4. /\ WireType'
      /\ \A j \in Joints :
           /\ DOMAIN wire'[j] = DOMAIN wire[j]
           /\ \A k \in DOMAIN wire[j] :
                /\ k \in Nat
                /\ wire'[j][k].source = wire[j][k].source
                /\ wire'[j][k].op = wire[j][k].op
                /\ wire'[j][k].register = wire[j][k].register
                /\ wire'[j][k].age = wire[j][k].age
                /\ wire[j][k].source \in ModeSources => wire'[j][k].fate = "stale"
                /\ wire[j][k].source \notin ModeSources => wire'[j][k].fate = wire[j][k].fate
  <2>1. "stale" \in Fates
    BY DEF Fates
  <2>2. \A j \in Joints : \A k \in DOMAIN wire[j] : wire[j][k].fate \in Fates
    BY <1>1, WireFacts DEF WireType
  <2> QED
    BY <1>1, <1>2, <2>1, <2>2, FatedIs
<1>5. WireOK' /\ OrderOK' /\ NoThree'
  BY <1>1, <1>3, <1>4, ThinsShape
<1>6. AnsweredOK' /\ ReadTrue'
  BY <1>1, <1>3, StillTrue
<1>7. ModeTrue'
  <2>1. ASSUME NEW j \in Joints, "mode" \in verified'[j]
        PROVE  "mode" \in verified[j] /\ observed'[j] = observed[j]
    BY <1>2, <2>1
  <2> QED
    BY <1>1, <1>3, <2>1, StillMode
\* What is marked in the table.
<1>8. /\ TablesType' /\ TablesOK' /\ Alive(quarantine') = Alive(quarantine)
      /\ \A f \in Alive(expectations') : \E e \in Alive(expectations) :
           f = Mark(e, ModeSources, FALSE)
      /\ \A e \in Alive(expectations) : Mark(e, ModeSources, FALSE) \in Alive(expectations')
  <2>1. /\ expectations \in Seq(TableEntry) /\ Unique(expectations) /\ TableOK(expectations)
        /\ Len(expectations) <= Capacity /\ FALSE \in BOOLEAN
    BY <1>1 DEF TablesType, TablesOK
  <2> DEFINE t == Marked(expectations, ModeSources, FALSE)
  <2>2. /\ t \in Seq(TableEntry) /\ Len(t) = Len(expectations) /\ Unique(t) /\ TableOK(t)
        /\ \A f \in ToSet(t) : \E e \in ToSet(expectations) : f = Mark(e, ModeSources, FALSE)
        /\ \A e \in ToSet(expectations) : Mark(e, ModeSources, FALSE) \in ToSet(t)
    <3> DEFINE B == FALSE
    <3>1. t = Marked(expectations, ModeSources, B) /\ B \in BOOLEAN
          /\ \A e : Mark(e, ModeSources, FALSE) = Mark(e, ModeSources, B)
      BY <2>1
    <3> HIDE DEF B, t
    <3>2. /\ t \in Seq(TableEntry) /\ Len(t) = Len(expectations)
          /\ Unique(expectations) => Unique(t)
          /\ TableOK(expectations) => TableOK(t)
          /\ \A f \in ToSet(t) : \E e \in ToSet(expectations) : f = Mark(e, ModeSources, B)
          /\ \A e \in ToSet(expectations) : Mark(e, ModeSources, B) \in ToSet(t)
      BY <2>1, <3>1, MarkedIs
    <3> QED
      BY <2>1, <3>1, <3>2
  <2>3. \A e \in ToSet(expectations) : Mark(e, ModeSources, FALSE).age = e.age
    <3>1. ASSUME NEW e \in TableEntry
          PROVE  Mark(e, ModeSources, FALSE).age = e.age
      BY MarkIs DEF Mark
    <3> QED
      BY <2>1, <3>1, Holds
  <2>4. expectations' = t
    BY <1>2
  <2> HIDE DEF t
  <2>5. TablesType' /\ TablesOK'
    BY <1>1, <1>2, <2>1, <2>2, <2>4 DEF TablesType, TablesOK
  <2> QED
    BY <1>2, <2>2, <2>3, <2>4, <2>5 DEF Alive
<1>9. ASSUME NEW e \in TableEntry
      PROVE  LET f == Mark(e, ModeSources, FALSE)
             IN /\ f.source = e.source /\ Same(f, e) /\ f.age = e.age
                /\ f.quarantined = (e.quarantined \/ e.source \in ModeSources)
                /\ e.source \notin ModeSources => f = e
  BY MarkIs DEF Mark
<1>10. ASSUME NEW e \in Table
       PROVE  \E f \in Table' : /\ f.source = e.source /\ Same(f, e) /\ f.age = e.age
                                /\ f.quarantined = (e.quarantined \/ e.source \in ModeSources)
  <2>1. e \in TableEntry
    BY <1>1, EntryFacts
  <2>2. CASE e \in Alive(expectations)
    BY <1>8, <1>9, <2>1, <2>2 DEF Table
  <2>3. CASE e \in Alive(quarantine)
    <3>1. e.quarantined /\ e.quarantined \in BOOLEAN /\ e \in Table'
      BY <1>1, <1>8, <2>1, <2>3 DEF TablesOK, Alive, Table, TableEntry
    <3>2. Same(e, e) /\ e.quarantined = (e.quarantined \/ e.source \in ModeSources)
      BY <3>1 DEF Same
    <3> QED
      BY <3>1, <3>2
  <2> QED
    BY <2>2, <2>3 DEF Table
<1>11. \A j \in Joints, k \in Nat : k \in DOMAIN wire[j] /\ Own(wire[j][k])
                                  /\ wire[j][k].source = "DISCOVERY" =>
         j \in Pending /\ \A n \in DOMAIN wire[j] : wire[j][n].source \notin ModeSources
  <2> SUFFICES ASSUME NEW j \in Joints, NEW k \in DOMAIN wire[j], Own(wire[j][k]),
                      wire[j][k].source = "DISCOVERY"
               PROVE  j \in Pending /\ \A n \in DOMAIN wire[j] :
                                         wire[j][n].source \notin ModeSources
    OBVIOUS
  <2>1. j = discovery.joint /\ Requesting
    BY <1>1 DEF CurrentOK, IsAsked, Requesting
  <2>2. ~discovery.active /\ j \in Pending
    BY <1>1, <2>1, Reading DEF ActiveOK
  <2> QED
    BY <1>1, <2>1, <2>2 DEF BootOK
<1>12. Twins'
  <2> SUFFICES ASSUME NEW j \in Joints, NEW k \in DOMAIN wire'[j], NEW n \in DOMAIN wire'[j],
                      k < n, Alike(wire'[j][k], wire'[j][n]), Sound(wire'[j][k]),
                      Sound(wire'[j][n])
               PROVE  /\ wire'[j][k].source = "MODE_READ" /\ wire'[j][n].source = "DISCOVERY"
                      /\ wire'[j][k].fate = wire'[j][n].fate
                      /\ CoveredTwice(j, wire'[j][k], wire'[j][n], Table')
    BY DEF Twins
  <2>1. /\ k \in DOMAIN wire[j] /\ n \in DOMAIN wire[j] /\ k \in Nat /\ n \in Nat
        /\ Alike(wire[j][k], wire[j][n])
    BY <1>4 DEF Alike
  <2>2. Sound(wire[j][k]) /\ Sound(wire[j][n])
    BY <1>1, <1>4, <2>1 DEF Sound, WireOK
  <2>3. /\ wire[j][k].source = "MODE_READ" /\ wire[j][n].source = "DISCOVERY"
        /\ wire[j][k].fate = wire[j][n].fate
        /\ wire[j][k].fate = "stale" => CoveredTwice(j, wire[j][k], wire[j][n], Table)
    BY <1>1, <2>1, <2>2 DEF Twins
  <2>4. wire[j][k].source \in ModeSources /\ wire[j][n].source \notin ModeSources
    BY <2>3 DEF ModeSources
  <2>5. wire[j][n].fate = "stale"
    <3>1. ~Own(wire[j][n])
      BY <1>11, <2>1, <2>3, <2>4
    <3>2. wire[j][n].fate \in Fates
      BY <1>1, <2>1, WireFacts DEF WireType
    <3> QED
      BY <2>2, <3>1, <3>2 DEF Own, Sound, Fates
  <2>6. PICK e \in Table, f \in Table :
          /\ e.source # f.source /\ Of(e, j, wire[j][k]) /\ Of(f, j, wire[j][k])
          /\ e.quarantined /\ f.quarantined
          /\ e.age <= wire[j][k].age /\ e.age <= wire[j][n].age
          /\ f.age <= wire[j][k].age /\ f.age <= wire[j][n].age
    BY <2>3, <2>5 DEF CoveredTwice
  <2>7. PICK a \in Table' : a.source = e.source /\ Same(a, e) /\ a.age = e.age
                            /\ a.quarantined = (e.quarantined \/ e.source \in ModeSources)
    BY <1>10
  <2>8. PICK b \in Table' : b.source = f.source /\ Same(b, f) /\ b.age = f.age
                            /\ b.quarantined = (f.quarantined \/ f.source \in ModeSources)
    BY <1>10
  <2>9. Of(a, j, wire'[j][k]) /\ Of(b, j, wire'[j][k]) /\ a.quarantined /\ b.quarantined
    BY <1>4, <2>1, <2>6, <2>7, <2>8 DEF Of, Alike, Same
  <2>10. /\ a.age <= wire'[j][k].age /\ a.age <= wire'[j][n].age
         /\ b.age <= wire'[j][k].age /\ b.age <= wire'[j][n].age /\ a.source # b.source
    BY <1>4, <2>1, <2>6, <2>7, <2>8
  <2>11. CoveredTwice(j, wire'[j][k], wire'[j][n], Table')
    BY <2>9, <2>10 DEF CoveredTwice
  <2> QED
    BY <1>4, <2>1, <2>3, <2>4, <2>5, <2>11
<1>13. Covered'
  <2> SUFFICES ASSUME NEW j \in Joints, NEW k \in DOMAIN wire'[j]
               PROVE  /\ wire'[j][k].fate = "current" =>
                           CoveredCurrent(j, wire'[j][k], Alive(expectations'))
                      /\ wire'[j][k].fate = "stale" =>
                           CoveredStale(j, wire'[j][k], Table')
    BY DEF Covered
  <2>1. /\ k \in DOMAIN wire[j]
        /\ wire'[j][k].source = wire[j][k].source
        /\ wire'[j][k].op = wire[j][k].op /\ wire'[j][k].age = wire[j][k].age
        /\ wire'[j][k].register = wire[j][k].register
        /\ wire[j][k].fate \in Fates
    BY <1>1, <1>4, WireFacts DEF WireType
  <2>2. /\ wire[j][k].fate = "current" =>
             CoveredCurrent(j, wire[j][k], Alive(expectations))
        /\ wire[j][k].fate = "stale" => CoveredStale(j, wire[j][k], Table)
    BY <1>1, <2>1 DEF Covered
  <2>3. CASE wire[j][k].source \in ModeSources
    <3>1. wire'[j][k].fate = "stale" /\ wire[j][k].fate \in {"current", "stale"}
      BY <1>1, <1>4, <2>1, <2>3 DEF WireOK, Sound, Fates
    <3>2. PICK e \in Table : e.source = wire[j][k].source /\ Of(e, j, wire[j][k])
                             /\ e.age <= wire[j][k].age
      BY <2>2, <2>3, <3>1 DEF CoveredCurrent, CoveredStale, Table
    <3>3. PICK f \in Table' : f.source = e.source /\ Same(f, e) /\ f.age = e.age
                              /\ f.quarantined = (e.quarantined \/ e.source \in ModeSources)
      BY <1>10
    <3>4. /\ Of(f, j, wire'[j][k]) /\ f.quarantined /\ f.age <= wire'[j][k].age
          /\ f.source = wire'[j][k].source
      BY <2>1, <2>3, <3>2, <3>3 DEF Of, Alike, Same
    <3> QED
      BY <3>1, <3>4 DEF CoveredStale
  <2>4. CASE wire[j][k].source \notin ModeSources
    <3>1. wire'[j][k].fate = wire[j][k].fate
      BY <1>4, <2>1, <2>4
    <3>2. ASSUME wire[j][k].fate = "current"
          PROVE  CoveredCurrent(j, wire'[j][k], Alive(expectations'))
      <4>1. PICK e \in Alive(expectations) :
              e.source = wire[j][k].source /\ Of(e, j, wire[j][k]) /\ ~e.quarantined
              /\ e.age <= wire[j][k].age
        BY <2>2, <3>2 DEF CoveredCurrent
      <4>2. e \in TableEntry
        BY <1>1, <4>1, EntryFacts
      <4>3. Mark(e, ModeSources, FALSE) = e
        BY <1>9, <2>4, <4>1, <4>2
      <4>4. e \in Alive(expectations')
        BY <1>8, <4>1, <4>3
      <4> QED
        BY <2>1, <4>1, <4>4 DEF CoveredCurrent, Of, Alike
    <3>3. ASSUME wire[j][k].fate = "stale"
          PROVE  CoveredStale(j, wire'[j][k], Table')
      <4>1. PICK e \in Table : Of(e, j, wire[j][k]) /\ e.quarantined
                               /\ e.age <= wire[j][k].age
        BY <2>2, <3>3 DEF CoveredStale
      <4>2. PICK f \in Table' : Same(f, e) /\ f.age = e.age
                                /\ f.quarantined = (e.quarantined \/ e.source \in ModeSources)
        BY <1>10
      <4>3. Of(f, j, wire'[j][k]) /\ f.quarantined /\ f.age <= wire'[j][k].age
        BY <2>1, <4>1, <4>2 DEF Of, Alike, Same
      <4> QED
        BY <2>1, <2>4, <4>3 DEF CoveredStale
    <3> QED
      BY <3>1, <3>2, <3>3
  <2> QED
    BY <2>3, <2>4
<1>14. Fresh'
  <2> SUFFICES ASSUME NEW e \in Alive(expectations'), ~e.quarantined
               PROVE  /\ \A k \in DOMAIN wire'[e.joint] :
                           Alike(e, wire'[e.joint][k]) => wire'[e.joint][k].fate # "stale"
                      /\ e.source = "DISCOVERY" =>
                           /\ discovery'.state = "WAITING"
                           /\ IsAsked(e.joint, e, discovery') /\ discovery'.age <= e.age
    BY DEF Fresh
  <2>1. e \in Alive(expectations) /\ e.source \notin ModeSources /\ e \in TableEntry
    <3>1. PICK f \in Alive(expectations) : e = Mark(f, ModeSources, FALSE)
      BY <1>8
    <3>2. f \in TableEntry
      BY <1>1, EntryFacts
    <3> QED
      BY <1>9, <3>1, <3>2
  <2>2. e.joint \in Joints /\ e.source = "DISCOVERY"
    BY <1>1, <2>1, EntryFacts DEF Sequence, ModeSources
  <2>3. /\ \A k \in DOMAIN wire[e.joint] :
             Alike(e, wire[e.joint][k]) => wire[e.joint][k].fate # "stale"
        /\ discovery.state = "WAITING" /\ IsAsked(e.joint, e, discovery)
        /\ discovery.age <= e.age
    BY <1>1, <2>1, <2>2 DEF Fresh
  <2>4. \A k \in DOMAIN wire[e.joint] : wire[e.joint][k].source \notin ModeSources
    <3>1. Requesting /\ ~discovery.active /\ e.joint \in Pending
      BY <1>1, <2>3, Reading DEF Requesting, ActiveOK, IsAsked
    <3> QED
      BY <1>1, <2>2, <3>1 DEF BootOK
  <2>5. ASSUME NEW k \in DOMAIN wire'[e.joint], Alike(e, wire'[e.joint][k])
        PROVE  wire'[e.joint][k].fate # "stale"
    <3>1. k \in DOMAIN wire[e.joint] /\ Alike(e, wire[e.joint][k])
      BY <1>4, <2>2, <2>5 DEF Alike
    <3> QED
      BY <1>4, <2>2, <2>3, <2>4, <3>1
  <2> QED
    BY <1>2, <2>3, <2>5
<1>15. CurrentOK'
  <2> SUFFICES ASSUME NEW j \in Joints, NEW k \in DOMAIN wire'[j], Own(wire'[j][k])
               PROVE  /\ wire'[j][k].source = "DISCOVERY" =>
                           /\ discovery'.state = "WAITING"
                           /\ IsAsked(j, wire'[j][k], discovery')
                           /\ discovery'.age <= wire'[j][k].age
                      /\ wire'[j][k].source \notin ModeSources
    BY DEF CurrentOK, ModeSources
  <2>1. /\ k \in DOMAIN wire[j] /\ Own(wire[j][k]) /\ wire[j][k].source \notin ModeSources
        /\ wire'[j][k].source = wire[j][k].source /\ wire'[j][k].age = wire[j][k].age
        /\ wire'[j][k].op = wire[j][k].op /\ wire'[j][k].register = wire[j][k].register
    BY <1>4 DEF Own
  <2> QED
    BY <1>1, <1>2, <2>1 DEF CurrentOK, IsAsked
<1>16. \A j \in Joints : \A k \in DOMAIN wire'[j] : At(j, k)' =>
         /\ At(j, k) /\ k \in DOMAIN wire[j] /\ wire'[j][k].fate = wire[j][k].fate
         /\ wire'[j][k].age = wire[j][k].age
  BY <1>4 DEF At, ModeSources
<1>17. Locked'
  <2> SUFFICES ASSUME NEW i \in Joints, NEW j \in Joints, NEW k \in DOMAIN wire'[i],
                      NEW n \in DOMAIN wire'[j], At(i, k)', At(j, n)', ~(i = j /\ k = n),
                      ~Own(wire'[i][k]), ~Own(wire'[j][n])
               PROVE  Locks(wire'[i][k], wire'[j][n], Alive(quarantine'), wire')
    BY DEF Locked
  <2>1. /\ k \in DOMAIN wire[i] /\ n \in DOMAIN wire[j] /\ At(i, k) /\ At(j, n)
        /\ ~Own(wire[i][k]) /\ ~Own(wire[j][n])
        /\ wire'[i][k].age = wire[i][k].age /\ wire'[j][n].age = wire[j][n].age
    BY <1>16 DEF Own
  <2>2. Locks(wire[i][k], wire[j][n], Alive(quarantine), wire)
    BY <1>1, <2>1 DEF Locked
  <2>3. PICK e \in Alive(quarantine) :
          /\ e.age <= wire[i][k].age /\ e.age <= wire[j][n].age
          /\ \A p \in DOMAIN wire[e.joint] :
               wire[e.joint][p].source \in ModeSources /\ Alike(e, wire[e.joint][p]) =>
                 \E f \in Alive(quarantine) :
                   /\ f.source # e.source /\ Same(f, e) /\ f.age <= wire[i][k].age
                   /\ f.age <= wire[j][n].age
    BY <2>2 DEF Locks
  <2>4. e.joint \in Joints
    BY <1>1, EntryFacts
  <2>5. \A p \in DOMAIN wire'[e.joint] :
          wire'[e.joint][p].source \in ModeSources /\ Alike(e, wire'[e.joint][p]) =>
            p \in DOMAIN wire[e.joint] /\ wire[e.joint][p].source \in ModeSources
            /\ Alike(e, wire[e.joint][p])
    BY <1>4, <2>4 DEF Alike
  <2>6. \A p \in DOMAIN wire'[e.joint] :
          wire'[e.joint][p].source \in ModeSources /\ Alike(e, wire'[e.joint][p]) =>
            \E f \in Alive(quarantine') :
              /\ f.source # e.source /\ Same(f, e) /\ f.age <= wire'[i][k].age
              /\ f.age <= wire'[j][n].age
    BY <1>8, <2>1, <2>3, <2>5
  <2> QED
    BY <1>8, <2>1, <2>3, <2>6 DEF Locks
<1>18. BootOK'
  <2> SUFFICES ASSUME Requesting, ~discovery.active
               PROVE  BootOK'
    BY <1>2 DEF BootOK, Requesting
  <2>1. Pending' = Pending /\ Pending \subseteq Joints
    BY <1>1, <1>2 DEF Pending, Requesting, DiscoveryState
  <2>2. \A j \in Pending : \A k \in DOMAIN wire'[j] : wire'[j][k].source \notin ModeSources
    BY <1>1, <1>4, <2>1 DEF BootOK
  <2>3. \A j \in Joints : \A k \in DOMAIN wire'[j] : At(j, k)' =>
         /\ discovery'.state = "WAITING" /\ Sound(wire'[j][k])
         /\ discovery'.age <= wire'[j][k].age
    BY <1>1, <1>2, <1>16 DEF BootOK, Sound
  <2>4. \A i, j \in Joints : \A k \in DOMAIN wire'[i], n \in DOMAIN wire'[j] :
         At(i, k)' /\ At(j, n)' => i = j /\ k = n
    BY <1>1, <1>16 DEF BootOK
  <2> QED
    BY <2>1, <2>2, <2>3, <2>4 DEF BootOK
<1>19. ReadWhilePending'
  <2> SUFFICES ASSUME NEW j \in Joints, NEW k \in DOMAIN wire'[j], ModeRead(wire'[j][k])
               PROVE  FinalRegister \notin verified'[j]
    BY DEF ReadWhilePending
  <2>1. k \in DOMAIN wire[j] /\ ModeRead(wire[j][k])
    BY <1>4 DEF ModeRead
  <2> QED
    BY <1>1, <1>2, <2>1 DEF ReadWhilePending
<1> QED
  BY <1>4, <1>5, <1>6, <1>7, <1>8, <1>12, <1>13, <1>14, <1>15, <1>17, <1>18, <1>19

\* A mode switch is started.
LEMMA BeginModeStep ==
  ASSUME IInv, InService, action.kind \in {"IDLE", "DISCOVERY"},
         action.kind = "DISCOVERY" => ~Requesting,
         NEW mask \in SUBSET Joints, mask # {}, NEW shot \in BOOLEAN, NEW m \in Modes,
         ModeReady(mask), BeginMode(mask, m), Act("MODE", shot, mask, m)
  PROVE  IInv'
<1>1. /\ TypeOK /\ VerifiedOK /\ ActiveOK /\ ResultsType
  BY DEF IInv, Course, Traffic, TypeOK
<1>2. drive' = drive /\ turn' = "pump"
  BY DEF InService
<1>3. /\ WireType' /\ TablesType' /\ TablesOK'
      /\ WireOK' /\ AnsweredOK' /\ OrderOK' /\ Twins' /\ Covered' /\ Fresh' /\ CurrentOK'
      /\ NoThree' /\ Locked' /\ BootOK' /\ ReadWhilePending' /\ ModeTrue' /\ ReadTrue'
  BY <1>2, SwitchTraffic
<1>4. First(mask, 1) \in mask /\ First(mask, 1) \in 1..(N + 1)
  BY FirstJoint
<1>5. /\ switch' = [state |-> "WRITING", mode |-> m, mask |-> mask,
                    joint |-> First(mask, 1), attempts |-> 0, rollover |-> TRUE, age |-> 0]
      /\ verified' = [j \in Joints |-> verified[j] \ (IF j \in mask THEN {"mode"} ELSE {})]
      /\ complete' = complete \ mask /\ discovery' = discovery /\ observed' = observed
  BY DEF BeginMode
<1>6. action' = [kind |-> "MODE", shot |-> shot, mask |-> mask, mode |-> m, elapsed |-> 0]
  BY DEF Act
<1>7. TypeOK'
  <2>1. action' \in ActionState
    BY <1>6 DEF ActionState
  <2>2. switch' \in SwitchState
    <3>1. 0 \in 0..Timeout
      BY Counts
    <3> QED
      BY <1>4, <1>5, <3>1 DEF SwitchState, Switching
  <2>3. ResultsType'
    BY <1>1, <1>5 DEF ResultsType
  <2> QED
    BY <1>1, <1>2, <1>3, <1>5, <2>1, <2>2, <2>3 DEF TypeOK, TurnType, DriveType
<1>8. VerifiedOK'
  <2>1. Pending' = Pending /\ Pending \subseteq Joints
    BY <1>1, <1>5 DEF TypeOK, Pending, Requesting, DiscoveryState
  <2> QED
    BY <1>1, <1>5, <2>1 DEF VerifiedOK, Requesting, ResultsType
<1>9. ~discovery.active
  BY <1>1 DEF ActiveOK
<1>10. ActiveOK' /\ ProgressOK' /\ TimeOK'
  BY <1>5, <1>6, <1>9 DEF ActiveOK, ProgressOK, TimeOK
<1>11. SwitchOK'
  <2>1. ASSUME NEW j \in mask
        PROVE  FinalRegister \in verified'[j] /\ "mode" \notin verified'[j]
    <3>1. FinalRegister \in verified[j]
      BY Numbers DEF ModeReady
    <3> QED
      BY <1>5, <3>1, Numbers
  <2> QED
    BY <1>4, <1>5, <1>6, <2>1 DEF SwitchOK
<1> QED
  BY <1>3, <1>7, <1>8, <1>10, <1>11 DEF IInv, Course, Traffic


\* The tables after an abort: tombstones alone, and in quarantine if that was empty.
LEMMA AbortTables ==
  ASSUME TablesType, TablesOK, Move(Marked(expectations, Sequence, TRUE), Sequence)
  PROVE  /\ TablesType' /\ TablesOK'
         /\ \A e \in Table' : e.quarantined
         /\ Alive(quarantine) \subseteq Alive(quarantine')
         /\ \A e \in Table : \E f \in Table' :
              f.source = e.source /\ Same(f, e) /\ f.age <= e.age /\ f.quarantined
         /\ \A e \in Alive(expectations) : \E f \in Table' :
              f.source = e.source /\ Same(f, e) /\ f.age = 0 /\ f.quarantined
         /\ Alive(quarantine) = {} =>
              \A e \in Alive(expectations) : \E f \in Alive(quarantine') :
                f.source = e.source /\ Same(f, e) /\ f.age = 0
<1> DEFINE s == Marked(expectations, Sequence, TRUE)
           dead == {e \in Alive(s) : Dead(e, Sequence)}
<1>1. /\ expectations \in Seq(TableEntry) /\ quarantine \in Seq(TableEntry)
      /\ Unique(expectations) /\ TableOK(expectations) /\ TableOK(quarantine)
      /\ Len(expectations) <= Capacity /\ \A f \in ToSet(quarantine) : f.quarantined
  BY DEF TablesType, TablesOK
<1>2. /\ s \in Seq(TableEntry) /\ Len(s) = Len(expectations) /\ Unique(s) /\ TableOK(s)
      /\ \A f \in ToSet(s) : \E e \in ToSet(expectations) : f = Mark(e, Sequence, TRUE)
      /\ \A e \in ToSet(expectations) : Mark(e, Sequence, TRUE) \in ToSet(s)
  <2>1. expectations \in Seq(TableEntry) /\ TRUE \in BOOLEAN
    BY <1>1
  <2>2. /\ s \in Seq(TableEntry) /\ Len(s) = Len(expectations)
        /\ Unique(expectations) => Unique(s)
        /\ TableOK(expectations) => TableOK(s)
        /\ \A f \in ToSet(s) : \E e \in ToSet(expectations) : f = Mark(e, Sequence, TRUE)
        /\ \A e \in ToSet(expectations) : Mark(e, Sequence, TRUE) \in ToSet(s)
    BY <2>1, MarkedIs
  <2> QED
    BY <1>1, <2>2
<1>3. ASSUME NEW e \in ToSet(expectations)
      PROVE  LET f == Mark(e, Sequence, TRUE)
             IN f.source = e.source /\ Same(f, e) /\ f.age = 0 /\ f.quarantined
                /\ f.source \in Sequence
  <2>1. e \in TableEntry
    BY <1>1, Holds
  <2>2. e.source \in Sequence
    BY <2>1 DEF TableEntry
  <2> QED
    BY <1>1, <2>1, <2>2, MarkIs
<1>4. /\ quarantine' = MovedQuarantine(s, Sequence)
      /\ expectations' = MovedExpectations(s, Sequence)
  BY DEF Move
<1> HIDE DEF s
<1>5. /\ expectations' \in Seq(TableEntry) /\ Len(expectations') <= Len(s)
      /\ Unique(expectations') /\ quarantine' \in Seq(TableEntry)
      /\ MoveFits(s, Sequence) =>
           /\ ToSet(expectations') = Alive(s) \ dead
           /\ ToSet(quarantine') = Alive(quarantine) \cup dead
      /\ ~MoveFits(s, Sequence) =>
           ToSet(expectations') = Alive(s) /\ ToSet(quarantine') = Alive(quarantine)
      /\ Alive(expectations') = ToSet(expectations')
      /\ Alive(quarantine') = ToSet(quarantine')
      /\ Alive(quarantine) = {} /\ Len(s) <= Capacity => MoveFits(s, Sequence)
  BY <1>1, <1>2, <1>4, MovedIs
<1>6. \A f \in ToSet(s) : f.age = 0 /\ f.quarantined /\ f.source \in Sequence
  BY <1>2, <1>3
<1>7. Alive(s) = ToSet(s) /\ dead = ToSet(s)
  <2>1. 0 < Timeout
    BY Counts
  <2> QED
    BY <1>6, <2>1 DEF Alive, Dead
<1> HIDE DEF dead
<1>8. Len(s) <= Capacity /\ Len(expectations') <= Capacity
  <2>1. Len(s) \in Nat /\ Len(expectations') \in Nat /\ Len(s) <= Capacity
    BY <1>1, <1>2, <1>5
  <2> QED
    BY <1>5, <2>1, Counts
<1>9. /\ ToSet(expectations') \subseteq ToSet(s)
      /\ ToSet(quarantine') \subseteq Alive(quarantine) \cup ToSet(s)
      /\ Alive(quarantine) \subseteq ToSet(quarantine')
      /\ ToSet(s) \subseteq ToSet(expectations') \cup ToSet(quarantine')
      /\ Alive(quarantine) = {} => ToSet(s) \subseteq ToSet(quarantine')
  BY <1>5, <1>7, <1>8
<1>10. Alive(quarantine) \subseteq ToSet(quarantine)
       /\ Alive(expectations) \subseteq ToSet(expectations)
  BY DEF Alive
<1>11. TablesType' /\ TablesOK'
  <2>1. TableOK(expectations)' /\ TableOK(quarantine)'
    BY <1>1, <1>2, <1>9, <1>10 DEF TableOK
  <2>2. \A f \in ToSet(quarantine') : f.quarantined
    BY <1>1, <1>6, <1>9, <1>10
  <2> QED
    BY <1>5, <1>8, <2>1, <2>2 DEF TablesType, TablesOK
<1>12. \A e \in Table' : e.quarantined
  BY <1>1, <1>5, <1>6, <1>9, <1>10 DEF Table
<1>13. ASSUME NEW e \in Alive(expectations)
       PROVE  LET f == Mark(e, Sequence, TRUE)
              IN /\ f \in ToSet(s) /\ f.source = e.source /\ Same(f, e) /\ f.age = 0
                 /\ f.quarantined /\ f.age <= e.age
  <2>1. e \in ToSet(expectations) /\ e.age \in Nat
    BY <1>1, <1>10, EntryFacts
  <2> DEFINE f == Mark(e, Sequence, TRUE)
  <2>2. f \in ToSet(s) /\ f.source = e.source /\ Same(f, e) /\ f.age = 0 /\ f.quarantined
    BY <1>2, <1>3, <2>1
  <2> HIDE DEF f
  <2>3. f.age <= e.age
    BY <2>1, <2>2
  <2> QED
    BY <2>2, <2>3 DEF f
<1>14. ASSUME NEW e \in Table
       PROVE  \E f \in Table' :
                f.source = e.source /\ Same(f, e) /\ f.age <= e.age /\ f.quarantined
  <2>1. CASE e \in Alive(expectations)
    BY <1>5, <1>9, <1>13, <2>1 DEF Table
  <2>2. CASE e \in Alive(quarantine)
    <3>1. e \in Table' /\ e.quarantined /\ e.age \in Nat
      BY <1>1, <1>5, <1>9, <1>10, <2>2, EntryFacts DEF Table
    <3>2. e.age <= e.age /\ Same(e, e)
      BY <3>1 DEF Same
    <3> QED
      BY <3>1, <3>2
  <2> QED
    BY <2>1, <2>2 DEF Table
<1>15. ASSUME Alive(quarantine) = {}, NEW e \in Alive(expectations)
       PROVE  \E f \in Alive(quarantine') :
                f.source = e.source /\ Same(f, e) /\ f.age = 0
  BY <1>5, <1>9, <1>13, <1>15
<1>16. ASSUME NEW e \in Alive(expectations)
       PROVE  \E f \in Table' :
                f.source = e.source /\ Same(f, e) /\ f.age = 0 /\ f.quarantined
  BY <1>5, <1>9, <1>13 DEF Table
<1> QED
  BY <1>5, <1>9, <1>11, <1>12, <1>14, <1>15, <1>16

\* The requests when the sequences are aborted.
LEMMA AbortTraffic ==
  ASSUME IInv, AbortSequences, drive' = drive
  PROVE  /\ WireType' /\ TablesType' /\ TablesOK' /\ Traffic'
<1>1. /\ WireType /\ TablesType /\ TablesOK /\ ResultsType
      /\ WireOK /\ AnsweredOK /\ OrderOK /\ Twins /\ Covered /\ Fresh /\ CurrentOK
      /\ NoThree /\ Locked /\ BootOK /\ VerifiedOK /\ ReadWhilePending /\ ModeTrue /\ ReadTrue
      /\ ActiveOK /\ discovery \in DiscoveryState
  BY DEF IInv, Course, Traffic, TypeOK
<1>2. /\ wire' = Fated(Sequence, {"current"}, "stale") /\ discovery' = AbortedDiscovery
      /\ Move(Marked(expectations, Sequence, TRUE), Sequence)
      /\ UNCHANGED <<verified, complete, observed>>
  BY DEF AbortSequences, results
<1>3. Still(Stay) /\ Thins(Stay)
  <2>1. "orphan" \notin {"current"}
    OBVIOUS
  <2> QED
    BY <1>1, <1>2, <2>1, FatedStill DEF Still
<1>4. /\ WireType'
      /\ \A j \in Joints :
           /\ DOMAIN wire'[j] = DOMAIN wire[j]
           /\ \A k \in DOMAIN wire[j] :
                /\ k \in Nat
                /\ wire'[j][k].source = wire[j][k].source
                /\ wire'[j][k].op = wire[j][k].op
                /\ wire'[j][k].register = wire[j][k].register
                /\ wire'[j][k].age = wire[j][k].age
                /\ wire'[j][k].fate = IF wire[j][k].fate = "current" THEN "stale"
                                      ELSE wire[j][k].fate
  <2>1. "stale" \in Fates
    BY DEF Fates
  <2> DEFINE S == {"current"}
  <2>2. \A x : x \in S <=> x = "current"
    OBVIOUS
  <2>3. wire' = Fated(Sequence, S, "stale")
    BY <1>2
  <2> HIDE DEF S
  <2>4. \A j \in Joints : \A k \in DOMAIN wire[j] : wire[j][k].source \in Sequence
    BY <1>1, WireFacts DEF WireType
  <2> QED
    BY <1>1, <2>1, <2>2, <2>3, <2>4, FatedIs
<1>5. /\ TablesType' /\ TablesOK'
      /\ \A e \in Table' : e.quarantined
      /\ Alive(quarantine) \subseteq Alive(quarantine')
      /\ \A e \in Table : \E f \in Table' :
           f.source = e.source /\ Same(f, e) /\ f.age <= e.age /\ f.quarantined
      /\ \A e \in Alive(expectations) : \E f \in Table' :
           f.source = e.source /\ Same(f, e) /\ f.age = 0 /\ f.quarantined
      /\ Alive(quarantine) = {} =>
           \A e \in Alive(expectations) : \E f \in Alive(quarantine') :
             f.source = e.source /\ Same(f, e) /\ f.age = 0
  BY <1>1, <1>2, AbortTables
<1>6. WireOK' /\ OrderOK' /\ NoThree'
  BY <1>1, <1>3, <1>4, ThinsShape
<1>7. AnsweredOK' /\ ReadTrue'
  BY <1>1, <1>3, StillTrue
<1>8. ModeTrue'
  BY <1>1, <1>2, <1>3, StillMode
<1>9. \A j \in Joints : \A k \in DOMAIN wire'[j] : ~Own(wire'[j][k])
  BY <1>4 DEF Own
<1>10. CurrentOK' /\ Fresh'
  BY <1>5, <1>9 DEF CurrentOK, Fresh, Table
<1>11. ASSUME NEW j \in Joints, NEW k \in DOMAIN wire[j], Sound(wire[j][k])
       PROVE  \E e \in Table : /\ Of(e, j, wire[j][k]) /\ e.age <= wire[j][k].age
                               /\ wire[j][k].source \in ModeSources =>
                                    e.source = wire[j][k].source
  <2>1. wire[j][k].fate \in {"current", "stale"}
    BY <1>1, <1>11, WireFacts DEF WireType, Sound, Fates
  <2> QED
    BY <1>1, <2>1 DEF Covered, CoveredCurrent, CoveredStale, Table
<1>12. Covered'
  <2> SUFFICES ASSUME NEW j \in Joints, NEW k \in DOMAIN wire'[j], wire'[j][k].fate = "stale"
               PROVE  CoveredStale(j, wire'[j][k], Table')
    BY <1>9 DEF Covered, Own
  <2>1. k \in DOMAIN wire[j] /\ Sound(wire[j][k])
    BY <1>4 DEF Sound
  <2>2. PICK e \in Table : /\ Of(e, j, wire[j][k]) /\ e.age <= wire[j][k].age
                           /\ wire[j][k].source \in ModeSources =>
                                e.source = wire[j][k].source
    BY <1>11, <2>1
  <2>3. PICK f \in Table' :
          f.source = e.source /\ Same(f, e) /\ f.age <= e.age /\ f.quarantined
    BY <1>5
  <2>4. f.age <= wire'[j][k].age
    <3>1. e.age \in Nat /\ f.age \in Nat /\ wire[j][k].age \in Nat
          /\ wire'[j][k].age = wire[j][k].age
      <4>1. f \in TableEntry
        BY <1>5, Holds DEF TablesType, Table, Alive
      <4>2. f.age \in Nat
        BY <4>1, Counts DEF TableEntry
      <4> QED
        BY <1>1, <1>4, <2>1, <4>2, WireFacts, EntryFacts DEF WireType
    <3> QED
      BY <2>2, <2>3, <3>1
  <2>5. Of(f, j, wire'[j][k]) /\ wire'[j][k].source = wire[j][k].source
    BY <1>4, <2>1, <2>2, <2>3 DEF Of, Alike, Same
  <2> QED
    BY <2>2, <2>3, <2>4, <2>5 DEF CoveredStale
<1>13. \A e \in Table \cup Table' : e.age \in Nat
  <2>1. \A e \in Table' : e \in TableEntry
    BY <1>5, Holds DEF TablesType, Table, Alive
  <2>2. \A e \in TableEntry : e.age \in Nat
    BY Counts DEF TableEntry
  <2> QED
    BY <1>1, <2>1, <2>2, EntryFacts
<1>14. Twins'
  <2> SUFFICES ASSUME NEW j \in Joints, NEW k \in DOMAIN wire'[j], NEW n \in DOMAIN wire'[j],
                      k < n, Alike(wire'[j][k], wire'[j][n]), Sound(wire'[j][k]),
                      Sound(wire'[j][n])
               PROVE  /\ wire'[j][k].source = "MODE_READ" /\ wire'[j][n].source = "DISCOVERY"
                      /\ wire'[j][k].fate = wire'[j][n].fate
                      /\ CoveredTwice(j, wire'[j][k], wire'[j][n], Table')
    BY DEF Twins
  <2>1. /\ k \in DOMAIN wire[j] /\ n \in DOMAIN wire[j] /\ k \in Nat /\ n \in Nat
        /\ Alike(wire[j][k], wire[j][n]) /\ Sound(wire[j][k]) /\ Sound(wire[j][n])
    BY <1>4 DEF Alike, Sound
  <2>2. /\ wire[j][k].source = "MODE_READ" /\ wire[j][n].source = "DISCOVERY"
        /\ wire[j][k].fate = wire[j][n].fate
        /\ wire[j][k].fate = "stale" => CoveredTwice(j, wire[j][k], wire[j][n], Table)
    BY <1>1, <2>1 DEF Twins
  <2>3. wire[j][k].age \in Nat /\ wire[j][n].age \in Nat /\ wire[j][k].fate \in Fates
    BY <1>1, <2>1, WireFacts DEF WireType
  <2>4. CASE wire[j][k].fate = "stale"
    <3>1. PICK e \in Table, f \in Table :
            /\ e.source # f.source /\ Of(e, j, wire[j][k]) /\ Of(f, j, wire[j][k])
            /\ e.quarantined /\ f.quarantined
            /\ e.age <= wire[j][k].age /\ e.age <= wire[j][n].age
            /\ f.age <= wire[j][k].age /\ f.age <= wire[j][n].age
      BY <2>2, <2>4 DEF CoveredTwice
    <3>2. PICK a \in Table' :
            a.source = e.source /\ Same(a, e) /\ a.age <= e.age /\ a.quarantined
      BY <1>5
    <3>3. PICK b \in Table' :
            b.source = f.source /\ Same(b, f) /\ b.age <= f.age /\ b.quarantined
      BY <1>5
    <3>4. Of(a, j, wire'[j][k]) /\ Of(b, j, wire'[j][k])
      BY <1>4, <2>1, <3>1, <3>2, <3>3 DEF Of, Alike, Same
    <3>5. /\ a.age <= wire[j][k].age /\ a.age <= wire[j][n].age
          /\ b.age <= wire[j][k].age /\ b.age <= wire[j][n].age
      <4>1. a.age \in Nat /\ b.age \in Nat /\ e.age \in Nat /\ f.age \in Nat
        BY <1>13
      <4> QED
        BY <2>3, <3>1, <3>2, <3>3, <4>1
    <3> QED
      BY <1>4, <2>1, <2>2, <3>1, <3>2, <3>3, <3>4, <3>5 DEF CoveredTwice
  <2>5. CASE wire[j][k].fate = "current"
    <3>1. PICK e \in Alive(expectations) :
            e.source = "MODE_READ" /\ Of(e, j, wire[j][k])
      BY <1>1, <2>1, <2>2, <2>5 DEF Covered, CoveredCurrent
    <3>2. PICK f \in Alive(expectations) :
            f.source = "DISCOVERY" /\ Of(f, j, wire[j][n])
      BY <1>1, <2>1, <2>2, <2>5 DEF Covered, CoveredCurrent
    <3>5. PICK a \in Table' : a.source = "MODE_READ" /\ Same(a, e) /\ a.quarantined /\ a.age = 0
      BY <1>5, <3>1
    <3>6. PICK b \in Table' : b.source = "DISCOVERY" /\ Same(b, f) /\ b.quarantined /\ b.age = 0
      BY <1>5, <3>2
    <3>7. Of(a, j, wire'[j][k]) /\ Of(b, j, wire'[j][k])
      BY <1>4, <2>1, <3>1, <3>2, <3>5, <3>6 DEF Of, Alike, Same
    <3>8. 0 <= wire'[j][k].age /\ 0 <= wire'[j][n].age
      BY <1>4, <2>1, <2>3
    <3> QED
      BY <1>4, <2>1, <2>2, <3>5, <3>6, <3>7, <3>8 DEF CoveredTwice
  <2> QED
    BY <2>1, <2>3, <2>4, <2>5 DEF Sound, Fates
\* The tombstone of the current request of a discovery stays until both requests
\* are gone: what else asks the same has one of its own.
<1>15. ASSUME NEW i \in Joints, NEW j \in Joints, NEW k \in DOMAIN wire[i],
              NEW n \in DOMAIN wire[j], At(i, k), At(j, n), ~(i = j /\ k = n), Own(wire[i][k])
       PROVE  \E e \in Alive(quarantine') :
                /\ e.age = 0
                /\ \A p \in DOMAIN wire'[e.joint] :
                     wire'[e.joint][p].source \in ModeSources /\ Alike(e, wire'[e.joint][p]) =>
                       \E f \in Alive(quarantine') :
                         f.source # e.source /\ Same(f, e) /\ f.age = 0
  <2>1. Requesting /\ discovery.state = "WAITING"
    BY <1>1, <1>15 DEF CurrentOK, At, Requesting
  <2>2. discovery.active
    BY <1>1, <1>15, <2>1 DEF BootOK
  <2>3. ~Blocks
    BY <1>1, <2>1, <2>2 DEF ActiveOK
  <2>4. Alive(quarantine) = {}
    <3>1. \A e \in Alive(quarantine) : e \in Table /\ e.quarantined
      BY <1>1 DEF TablesOK, Alive, Table
    <3> QED
      BY <1>1, <2>3, <3>1, TombstonesAre DEF Blocks
  <2>5. \A e \in Alive(expectations) : \E f \in Alive(quarantine') :
          f.source = e.source /\ Same(f, e) /\ f.age = 0
    BY <1>5, <2>4
  <2>6. PICK e \in Alive(expectations) :
          e.source = "DISCOVERY" /\ Of(e, i, wire[i][k])
    BY <1>1, <1>15 DEF Covered, CoveredCurrent, Own, At
  <2>7. PICK a \in Alive(quarantine') : a.source = e.source /\ Same(a, e) /\ a.age = 0
    BY <2>5
  <2>8. ASSUME NEW p \in DOMAIN wire'[i], wire'[i][p].source \in ModeSources,
               Alike(a, wire'[i][p])
        PROVE  \E f \in Alive(quarantine') : f.source # a.source /\ Same(f, a) /\ f.age = 0
    <3>1. /\ p \in DOMAIN wire[i] /\ p \in Nat /\ k \in Nat
          /\ wire[i][p].source \in ModeSources /\ Alike(wire[i][p], wire[i][k])
      BY <1>4, <2>6, <2>7, <2>8 DEF Alike, Of, Same
    <3>2. Sound(wire[i][p]) /\ Sound(wire[i][k]) /\ wire[i][k].fate = "current"
      BY <1>1, <1>15, <3>1 DEF WireOK, Own, Sound
    <3>3. p # k /\ wire[i][k].source # "MODE_READ"
      BY <1>15, <3>1 DEF At, ModeSources
    <3>4. ~(k < p)
      BY <1>1, <3>1, <3>2, <3>3 DEF Twins, Alike
    <3>5. p < k
      BY <3>1, <3>3, <3>4
    <3>6. wire[i][p].source = "MODE_READ" /\ wire[i][p].fate = "current"
      BY <1>1, <3>1, <3>2, <3>5 DEF Twins
    <3>7. PICK b \in Alive(expectations) : b.source = "MODE_READ" /\ Of(b, i, wire[i][p])
      BY <1>1, <3>1, <3>6 DEF Covered, CoveredCurrent
    <3>8. PICK f \in Alive(quarantine') : f.source = b.source /\ Same(f, b) /\ f.age = 0
      BY <2>5
    <3>9. f.source # a.source /\ Same(f, a)
      BY <2>6, <2>7, <3>1, <3>7, <3>8 DEF Same, Of, Alike
    <3> QED
      BY <3>8, <3>9
  <2>9. a.joint = i
    BY <2>6, <2>7 DEF Same, Of
  <2> QED
    BY <2>7, <2>8, <2>9
<1>16. Locked'
  <2> SUFFICES ASSUME NEW i \in Joints, NEW j \in Joints, NEW k \in DOMAIN wire'[i],
                      NEW n \in DOMAIN wire'[j], At(i, k)', At(j, n)', ~(i = j /\ k = n)
               PROVE  Locks(wire'[i][k], wire'[j][n], Alive(quarantine'), wire')
    BY DEF Locked
  <2>1. /\ k \in DOMAIN wire[i] /\ n \in DOMAIN wire[j] /\ At(i, k) /\ At(j, n)
        /\ wire'[i][k].age = wire[i][k].age /\ wire'[j][n].age = wire[j][n].age
        /\ 0 <= wire[i][k].age /\ 0 <= wire[j][n].age
    <3>1. k \in DOMAIN wire[i] /\ n \in DOMAIN wire[j]
      BY <1>4
    <3>2. wire[i][k].age \in Nat /\ wire[j][n].age \in Nat
      BY <1>1, <3>1, WireFacts DEF WireType
    <3> QED
      BY <1>4, <3>1, <3>2 DEF At
  <2>2. CASE Own(wire[i][k]) \/ Own(wire[j][n])
    <3>1. PICK e \in Alive(quarantine') :
            /\ e.age = 0
            /\ \A p \in DOMAIN wire'[e.joint] :
                 wire'[e.joint][p].source \in ModeSources /\ Alike(e, wire'[e.joint][p]) =>
                   \E f \in Alive(quarantine') :
                     f.source # e.source /\ Same(f, e) /\ f.age = 0
      BY <1>15, <2>1, <2>2
    <3> QED
      BY <2>1, <3>1 DEF Locks
  <2>3. CASE ~Own(wire[i][k]) /\ ~Own(wire[j][n])
    <3>1. Locks(wire[i][k], wire[j][n], Alive(quarantine), wire)
      BY <1>1, <2>1, <2>3 DEF Locked
    <3>2. PICK e \in Alive(quarantine) :
            /\ e.age <= wire[i][k].age /\ e.age <= wire[j][n].age
            /\ \A p \in DOMAIN wire[e.joint] :
                 wire[e.joint][p].source \in ModeSources /\ Alike(e, wire[e.joint][p]) =>
                   \E f \in Alive(quarantine) :
                     /\ f.source # e.source /\ Same(f, e) /\ f.age <= wire[i][k].age
                     /\ f.age <= wire[j][n].age
      BY <3>1 DEF Locks
    <3>3. e.joint \in Joints
      BY <1>1, EntryFacts
    <3>4. \A p \in DOMAIN wire'[e.joint] :
            wire'[e.joint][p].source \in ModeSources /\ Alike(e, wire'[e.joint][p]) =>
              p \in DOMAIN wire[e.joint] /\ wire[e.joint][p].source \in ModeSources
              /\ Alike(e, wire[e.joint][p])
      BY <1>4, <3>3 DEF Alike
    <3>5. \A p \in DOMAIN wire'[e.joint] :
            wire'[e.joint][p].source \in ModeSources /\ Alike(e, wire'[e.joint][p]) =>
              \E f \in Alive(quarantine') :
                /\ f.source # e.source /\ Same(f, e) /\ f.age <= wire'[i][k].age
                /\ f.age <= wire'[j][n].age
      BY <1>5, <2>1, <3>2, <3>4
    <3> QED
      BY <1>5, <2>1, <3>2, <3>5 DEF Locks
  <2> QED
    BY <2>2, <2>3
<1>17. discovery' = discovery \/ (~Requesting' /\ ~discovery'.active)
  BY <1>2 DEF AbortedDiscovery, Requesting
<1>18. BootOK'
  <2> SUFFICES ASSUME Requesting, ~discovery.active, discovery' = discovery
               PROVE  BootOK'
    BY <1>17 DEF BootOK, Requesting
  <2>1. \A j \in Joints : \A k \in DOMAIN wire'[j] : At(j, k)' =>
          /\ At(j, k) /\ k \in DOMAIN wire[j] /\ (Sound(wire[j][k]) => Sound(wire'[j][k]))
          /\ wire'[j][k].age = wire[j][k].age
    BY <1>4 DEF At, Sound
  <2>2. Pending' = Pending /\ Pending \subseteq Joints
    BY <1>1 DEF Pending, Requesting, DiscoveryState
  <2>3. \A j \in Pending : \A k \in DOMAIN wire'[j] : wire'[j][k].source \notin ModeSources
    BY <1>1, <1>4, <2>2 DEF BootOK
  <2>4. \A j \in Joints : \A k \in DOMAIN wire'[j] : At(j, k)' =>
          /\ discovery'.state = "WAITING" /\ Sound(wire'[j][k])
          /\ discovery'.age <= wire'[j][k].age
    BY <1>1, <2>1 DEF BootOK
  <2>5. \A i, j \in Joints : \A k \in DOMAIN wire'[i], n \in DOMAIN wire'[j] :
          At(i, k)' /\ At(j, n)' => i = j /\ k = n
    BY <1>1, <2>1 DEF BootOK
  <2> QED
    BY <2>2, <2>3, <2>4, <2>5 DEF BootOK
<1>19. VerifiedOK'
  <2>1. CASE discovery' = discovery
    BY <1>1, <1>2, <2>1 DEF VerifiedOK, Requesting, Pending
  <2>2. CASE ~Requesting'
    BY <1>1, <1>2, <2>2 DEF VerifiedOK, Pending
  <2> QED
    BY <1>17, <2>1, <2>2
<1>20. ReadWhilePending'
  <2> SUFFICES ASSUME NEW j \in Joints, NEW k \in DOMAIN wire'[j], ModeRead(wire'[j][k])
               PROVE  FinalRegister \notin verified'[j]
    BY DEF ReadWhilePending
  <2>1. k \in DOMAIN wire[j] /\ ModeRead(wire[j][k])
    BY <1>4 DEF ModeRead
  <2> QED
    BY <1>1, <1>2, <2>1 DEF ReadWhilePending
<1> QED
  BY <1>4, <1>5, <1>6, <1>7, <1>8, <1>10, <1>12, <1>14, <1>16, <1>18, <1>19, <1>20
     DEF Traffic

\* The sequences are aborted, and the action is over.
LEMMA AbortStep ==
  ASSUME IInv, InService, AbortSequences,
         action' = Idle \/ (action' = action /\ action.kind = "IDLE")
  PROVE  IInv'
<1>1. TypeOK /\ SwitchOK
  BY DEF IInv, Course
<1>2. drive' = drive /\ turn' = "pump"
  BY DEF InService
<1>3. WireType' /\ TablesType' /\ TablesOK' /\ Traffic'
  BY <1>2, AbortTraffic
<1>4. /\ discovery' = AbortedDiscovery /\ switch' = AbortedSwitch
      /\ UNCHANGED <<verified, complete, observed>>
  BY DEF AbortSequences, results
<1>5. Idle \in ActionState /\ Idle.kind = "IDLE"
  BY DEF Idle, ActionState
<1>6. action' \in ActionState /\ action'.kind = "IDLE"
  BY <1>1, <1>5 DEF TypeOK
<1>7. 0 \in 0..Timeout /\ 1 \in 1..(N + 1) /\ 1 \in 1..Len(Registers)
  BY Numbers
<1>8. discovery' \in DiscoveryState /\ ~discovery'.active
  BY <1>1, <1>4, <1>7 DEF TypeOK, DiscoveryState, AbortedDiscovery
<1>9. switch' \in SwitchState /\ switch'.state \notin Switching
  <2>1. CASE switch.state \in Switching
    <3>1. switch' = [switch EXCEPT !.state = "IDLE", !.mask = {}, !.joint = 1,
                       !.attempts = 0, !.rollover = FALSE, !.age = 0]
      BY <1>4, <2>1 DEF AbortedSwitch
    <3> QED
      BY <1>1, <1>7, <3>1 DEF TypeOK, SwitchState, Switching
  <2>2. CASE switch.state \notin Switching
    BY <1>1, <1>4, <2>2 DEF TypeOK, AbortedSwitch
  <2> QED
    BY <2>1, <2>2
<1>10. TypeOK'
  BY <1>1, <1>2, <1>3, <1>4, <1>6, <1>8, <1>9
     DEF TypeOK, ResultsType, TurnType, DriveType
<1>11. ActiveOK' /\ ProgressOK' /\ TimeOK'
  BY <1>6, <1>8 DEF ActiveOK, ProgressOK, TimeOK
<1>12. SwitchOK'
  BY <1>6, <1>9 DEF SwitchOK, Switching
<1> QED
  BY <1>3, <1>10, <1>11, <1>12 DEF IInv, Course


\* An action fails.
LEMMA FailStep ==
  ASSUME IInv, InService, Fail, Concluded \/ Overdue
  PROVE  IInv'
<1>1. action' = Idle /\ (AbortSequences \/ Keep)
  BY DEF Fail, Finish
<1> QED
  BY <1>1, AbortStep, KeepStep

\* The service of the active action.
LEMMA ServiceStep ==
  ASSUME IInv, Service
  PROVE  IInv'
<1>1. InService
  BY DEF Service
<1>2. /\ action \in ActionState /\ complete \subseteq Joints
      /\ action.kind # "IDLE" => action.mask # {} /\ action.mode \in Modes
  BY DEF IInv, Course, SwitchOK, TypeOK, ResultsType
<1>3. "POS_VEL" \in Modes /\ FALSE \in BOOLEAN /\ TRUE \in BOOLEAN
  BY DEF Modes
<1>4. ASSUME NEW mask \in (SUBSET Joints) \ {{}}
       PROVE  mask \in SUBSET Joints /\ mask # {}
  OBVIOUS
<1>5. CASE \E mask \in (SUBSET Joints) \ {{}} : StartInit(mask)
  <2>1. PICK mask \in (SUBSET Joints) \ {{}} : StartInit(mask)
    BY <1>5
  <2>2. /\ action.kind = "IDLE" /\ BeginDiscovery(mask)
        /\ Act("DISCOVERY", FALSE, mask, "POS_VEL")
    BY <2>1 DEF StartInit
  <2>3. mask \in SUBSET Joints /\ mask # {}
    BY <1>4, <2>1
  <2>4. mask \subseteq mask /\ mask \ mask \subseteq complete
    OBVIOUS
  <2> QED
    BY <1>1, <1>3, <2>2, <2>3, <2>4, BeginDiscoveryStep
<1>6. CASE \E m \in Modes : StartSetMode(m)
  <2>1. PICK m \in Modes : StartSetMode(m)
    BY <1>6
  <2>2. action.kind = "IDLE"
    BY <2>1 DEF StartSetMode
  <2>3. CASE ModeReady(Joints)
    <3>1. BeginMode(Joints, m) /\ Act("MODE", FALSE, Joints, m)
      BY <2>1, <2>3 DEF StartSetMode
    <3>2. Joints \in SUBSET Joints /\ Joints # {}
      <4>1. 1 \in Joints
        BY Counts DEF Joints
      <4> QED
        BY <4>1
    <3> QED
      BY <1>1, <1>3, <2>2, <2>3, <3>1, <3>2, BeginModeStep
  <2>4. CASE ~ModeReady(Joints)
    <3>1. Keep /\ UNCHANGED action
      BY <2>1, <2>4 DEF StartSetMode
    <3> QED
      BY <1>1, <2>2, <3>1, KeepStep
  <2> QED
    BY <2>3, <2>4
<1>7. CASE \E mask \in (SUBSET Joints) \ {{}}, m \in Modes : StartShot(mask, m)
  <2>1. PICK mask \in (SUBSET Joints) \ {{}}, m \in Modes : StartShot(mask, m)
    BY <1>7
  <2>2. action.kind = "IDLE" /\ mask \in SUBSET Joints /\ mask # {}
    <3>1. mask \in SUBSET Joints /\ mask # {}
      BY <1>4, <2>1
    <3> QED
      BY <2>1, <3>1 DEF StartShot
  <2>3. CASE ~(mask \subseteq complete)
    <3>1. BeginDiscovery(mask \ complete) /\ Act("DISCOVERY", TRUE, mask, m)
      BY <2>1, <2>3 DEF StartShot
    <3>2. /\ mask \ complete \in SUBSET Joints /\ mask \ complete # {}
          /\ mask \ complete \subseteq mask /\ mask \ (mask \ complete) \subseteq complete
      BY <2>2, <2>3
    <3> QED
      BY <1>1, <1>3, <2>1, <2>2, <3>1, <3>2, BeginDiscoveryStep
  <2>4. CASE mask \subseteq complete /\ ModeReady(mask)
    <3>1. BeginMode(mask, m) /\ Act("MODE", TRUE, mask, m)
      BY <2>1, <2>4 DEF StartShot
    <3> QED
      BY <1>1, <1>3, <2>1, <2>2, <2>4, <3>1, BeginModeStep
  <2>5. CASE mask \subseteq complete /\ ~ModeReady(mask)
    <3>1. AbortSequences /\ UNCHANGED action
      BY <2>1, <2>5 DEF StartShot
    <3> QED
      BY <1>1, <2>2, <3>1, AbortStep
  <2> QED
    BY <2>3, <2>4, <2>5
<1>8. CASE Abort
  BY <1>1, <1>8, AbortStep DEF Abort, Finish
<1>9. CASE Advance
  <2>1. CASE action.kind = "DISCOVERY" /\ DiscoveryDone /\ ModeReady(action.mask)
    <3>1. /\ BeginMode(action.mask, action.mode)
          /\ Act("MODE", action.shot, action.mask, action.mode)
      BY <1>9, <2>1 DEF Advance, DiscoveryDone
    <3>2. action.mask \in SUBSET Joints /\ action.shot \in BOOLEAN
      BY <1>2 DEF ActionState
    <3>3. ~Requesting /\ action.mask # {} /\ action.mode \in Modes
      BY <1>2, <2>1 DEF Requesting, DiscoveryDone
    <3> QED
      BY <1>1, <2>1, <3>1, <3>2, <3>3, BeginModeStep
  <2>2. CASE (Fail \/ (Keep /\ Finish)) /\ Concluded
    BY <1>1, <2>2, FailStep, KeepStep DEF Finish
  <2> QED
    BY <1>9, <2>1, <2>2 DEF Advance, Concluded
<1>10. CASE Deadline
  BY <1>1, <1>10, FailStep DEF Deadline
<1>11. CASE Wait
  <2>1. ~Concluded /\ ~Overdue /\ Keep /\ action' = action
    BY <1>11 DEF Wait
  <2> QED
    BY <1>1, <2>1, KeepStep
<1> QED
  BY <1>5, <1>6, <1>7, <1>8, <1>9, <1>10, <1>11 DEF Service

-----------------------------------------------------------------------------
(* An answer arrives.                                                       *)

\* The answer of a drive goes: what stood behind it moves up.
Shift(j) == [i \in Joints |-> [k \in Nat |-> IF i = j THEN k + 1 ELSE k]]
Arrives(j) ==
  /\ j \in Joints /\ wire[j] # <<>> /\ wire[j][1].answered
  /\ wire' = [wire EXCEPT ![j] = Bequeath(Head(@), Tail(@))]

\* What is said of an item y that stood as x on the wire of joint i, when the head of
\* j goes: it is the same, or an orphan if the head is an orphan that asks the same.
Passed(y, x, i, j) ==
  /\ y.source = x.source /\ Alike(y, x) /\ y.age = x.age
  /\ y.mode = x.mode /\ y.answered = x.answered
  /\ y.fate = x.fate \/ y.fate = "orphan"
  /\ i = j /\ wire[j][1].fate = "orphan" /\ Alike(x, wire[j][1]) => y.fate = "orphan"
  /\ y.fate # x.fate => i = j /\ wire[j][1].fate = "orphan" /\ Alike(x, wire[j][1])

LEMMA ArrivedIs ==
  ASSUME WireType, WireOK, OrderOK, NEW j, Arrives(j)
  PROVE  /\ WireType' /\ Still(Shift(j)) /\ Thins(Shift(j))
         /\ 1 \in DOMAIN wire[j] /\ wire[j][1] \in Item
         /\ \A i \in Joints : \A k \in DOMAIN wire'[i] :
              LET n == Shift(j)[i][k]
              IN /\ k \in Nat /\ n \in DOMAIN wire[i] /\ n \in Nat
                 /\ i = j => n = k + 1 /\ 1 < n
                 /\ i # j => n = k
                 /\ Passed(wire'[i][k], wire[i][n], i, j)
<1> DEFINE h == wire[j][1]
           w == wire[j]
<1>1. /\ j \in Joints /\ w # <<>> /\ w \in Seq(Item)
      /\ wire' = [wire EXCEPT ![j] = Bequeath(Head(w), Tail(w))]
  BY DEF Arrives, WireType
<1>2. /\ Len(w) \in Nat /\ Len(w) >= 1 /\ DOMAIN w = 1..Len(w) /\ Head(w) = h
      /\ Tail(w) \in Seq(Item) /\ Len(Tail(w)) = Len(w) - 1
      /\ DOMAIN Tail(w) = 1..(Len(w) - 1)
      /\ \A k \in 1..(Len(w) - 1) : Tail(w)[k] = w[k + 1]
  BY <1>1, HeadTailProperties
<1>3. 1 \in DOMAIN wire[j] /\ h \in Item /\ Shaped(h) /\ h.source \in Sequence
      /\ (h.source \in ModeSources => Sound(h))
  <2>1. 1 \in DOMAIN wire[j]
    BY <1>2
  <2> QED
    BY <1>1, <2>1, WireFacts DEF WireType, WireOK
<1> DEFINE t == Bequeath(Head(w), Tail(w))
<1>4. /\ DOMAIN t = 1..(Len(w) - 1) /\ t = [k \in DOMAIN Tail(w) |-> t[k]]
      /\ \A k \in 1..(Len(w) - 1) :
           t[k] = IF h.fate = "orphan" /\ Alike(w[k + 1], h)
                    THEN [w[k + 1] EXCEPT !.fate = "orphan"] ELSE w[k + 1]
  BY <1>2 DEF Bequeath, Alike
<1>5. wire'[j] = t /\ (\A i \in Joints : i # j => wire'[i] = wire[i])
      /\ wire' = [i \in Joints |-> wire'[i]]
  BY <1>1 DEF WireType
<1> HIDE DEF t
<1>6. ASSUME NEW k \in 1..(Len(w) - 1)
      PROVE  /\ k \in Nat /\ k + 1 \in DOMAIN w /\ k + 1 \in Nat /\ 1 < k + 1
             /\ w[k + 1] \in Item /\ t[k] \in Item /\ Passed(t[k], w[k + 1], j, j)
  <2>1. k \in Nat /\ k + 1 \in DOMAIN w /\ k + 1 \in Nat /\ 1 < k + 1
    BY <1>2
  <2>2. w[k + 1] \in Item
    BY <1>1, <2>1, WireFacts DEF WireType
  <2> DEFINE x == w[k + 1]
  <2>3. t[k] = IF h.fate = "orphan" /\ Alike(x, h) THEN [x EXCEPT !.fate = "orphan"] ELSE x
    BY <1>4
  <2>4. x \in Item
    BY <2>2
  <2> HIDE DEF x
  <2>5. LET y == [x EXCEPT !.fate = "orphan"]
        IN /\ y \in Item /\ y.fate = "orphan" /\ y.source = x.source /\ Alike(y, x)
           /\ y.age = x.age /\ y.mode = x.mode /\ y.answered = x.answered
    BY <2>4 DEF Item, Fates, Alike
  <2>6. t[k] \in Item /\ Passed(t[k], x, j, j)
    <3>1. CASE h.fate = "orphan" /\ Alike(x, h)
      BY <2>3, <2>5, <3>1 DEF Passed
    <3>2. CASE ~(h.fate = "orphan" /\ Alike(x, h))
      BY <2>3, <2>4, <3>2 DEF Passed, Alike
    <3> QED
      BY <3>1, <3>2
  <2> QED
    BY <2>1, <2>2, <2>6 DEF x
<1>7. t \in Seq(Item)
  <2> DEFINE s == Tail(w)
  <2>1. s \in Seq(Item) /\ DOMAIN t = DOMAIN s /\ t = [k \in DOMAIN s |-> t[k]]
        /\ \A k \in DOMAIN s : t[k] \in Item
    BY <1>2, <1>4, <1>6
  <2> HIDE DEF s
  <2> QED
    BY <2>1, MapIs
<1>8. WireType'
  <2>1. \A i \in Joints : wire'[i] \in Seq(Item)
    BY <1>1, <1>5, <1>7 DEF WireType
  <2> QED
    BY <1>5, <2>1 DEF WireType
<1>9. ASSUME NEW i \in Joints, NEW k \in DOMAIN wire'[i]
      PROVE  LET n == Shift(j)[i][k]
              IN /\ k \in Nat /\ n \in DOMAIN wire[i] /\ n \in Nat
                 /\ i = j => n = k + 1 /\ 1 < n
                 /\ i # j => n = k
                 /\ Passed(wire'[i][k], wire[i][n], i, j)
  <2>1. CASE i = j
    <3>1. k \in 1..(Len(w) - 1) /\ wire'[i][k] = t[k]
      BY <1>4, <1>5, <2>1
    <3>2. k \in Nat /\ Shift(j)[i][k] = k + 1
      BY <1>6, <2>1, <3>1 DEF Shift
    <3> QED
      BY <1>6, <2>1, <3>1, <3>2
  <2>2. CASE i # j
    <3>1. k \in DOMAIN wire[i] /\ wire'[i][k] = wire[i][k]
      BY <1>5, <2>2
    <3>2. k \in Nat /\ Shift(j)[i][k] = k
      BY <2>2, <3>1, WireFacts DEF WireType, Shift
    <3> QED
      BY <2>2, <3>1, <3>2 DEF Passed, Alike
  <2> QED
    BY <2>1, <2>2
<1>10. Places(Shift(j))
  <2> SUFFICES ASSUME NEW i \in Joints, NEW k \in DOMAIN wire'[i]
               PROVE  /\ Shift(j)[i][k] \in DOMAIN wire[i]
                      /\ \A n \in DOMAIN wire'[i] : n < k => Shift(j)[i][n] < Shift(j)[i][k]
    BY DEF Places
  <2> SUFFICES ASSUME NEW n \in DOMAIN wire'[i], n < k
               PROVE  Shift(j)[i][n] < Shift(j)[i][k]
    BY <1>9
  <2>1. k \in Nat /\ n \in Nat
    BY <1>9
  <2>2. CASE i = j
    <3>1. Shift(j)[i][n] = n + 1 /\ Shift(j)[i][k] = k + 1
      BY <1>9, <2>2
    <3> QED
      BY <2>1, <3>1
  <2>3. CASE i # j
    BY <1>9, <2>3
  <2> QED
    BY <2>2, <2>3
<1>11. ASSUME NEW i \in Joints, NEW k \in DOMAIN wire'[i]
       PROVE  Kin(wire'[i][k], wire[i][Shift(j)[i][k]])
  <2> DEFINE n == Shift(j)[i][k]
             x == wire[i][n]
             y == wire'[i][k]
  <2>1. n \in DOMAIN wire[i] /\ n \in Nat /\ (i = j => 1 < n) /\ Passed(y, x, i, j)
    BY <1>9
  <2>2. ASSUME x.source \in ModeSources, Sound(x)
        PROVE  Sound(y)
    <3> SUFFICES ASSUME y.fate = "orphan"
                 PROVE  FALSE
      BY DEF Sound
    <3>1. i = j /\ h.fate = "orphan" /\ Alike(x, h)
      BY <2>1, <2>2 DEF Passed, Sound
    <3>2. h.source = "DISCOVERY"
      BY <1>3, <3>1 DEF Sound, Sequence, ModeSources
    <3>3. x.register = "mode"
      BY <2>1, <2>2 DEF WireOK, Shaped
    <3>4. ModeRead(h)
      BY <3>1, <3>2, <3>3 DEF ModeRead, Alike
    <3> QED
      BY <1>1, <1>3, <2>1, <2>2, <3>1, <3>4 DEF OrderOK
  <2> HIDE DEF x, y, n
  <2>3. Kin(y, x)
    BY <2>1, <2>2 DEF Kin, Passed, Own, Sound
  <2> QED
    BY <2>3 DEF x, y, n
<1>12. Thins(Shift(j)) /\ Still(Shift(j))
  <2>1. \A i \in Joints : \A k \in DOMAIN wire'[i] :
          /\ wire'[i][k].answered = wire[i][Shift(j)[i][k]].answered
          /\ wire'[i][k].mode = wire[i][Shift(j)[i][k]].mode
    BY <1>9 DEF Passed
  <2> QED
    BY <1>10, <1>11, <2>1 DEF Thins, Still
<1> QED
  BY <1>3, <1>8, <1>9, <1>12

\* The tables without the entries D, which explain the answer.
Drops(D) ==
  /\ Alive(expectations') \subseteq Alive(expectations)
  /\ Alive(quarantine') \subseteq Alive(quarantine)
  /\ \A e \in Alive(expectations) : e \in Alive(expectations') \/ e \in D
  /\ \A e \in Alive(quarantine) : e \in Alive(quarantine') \/ e \in D
Explains(D, j) ==
  /\ \A a \in D : Of(a, j, wire[j][1])
  /\ \A a, b \in D : a.source = b.source /\ a.quarantined = b.quarantined
  /\ \A a \in D : ~a.quarantined /\ a.source = "DISCOVERY" =>
       ~(Own(wire[j][1]) /\ wire[j][1].source = "MODE_READ")


LEMMA ArrivedCover ==
  ASSUME WireType, TablesType, WireOK, OrderOK, Twins, Covered, Locked, NoThree,
         NEW j, Arrives(j), NEW D, Drops(D), Explains(D, j)
  PROVE  Twins' /\ Covered' /\ Locked'
<1> DEFINE h == wire[j][1]
           g == Shift(j)
<1>1. /\ j \in Joints /\ 1 \in DOMAIN wire[j] /\ h \in Item /\ WireType'
      /\ Places(g)
      /\ \A i \in Joints : \A k \in DOMAIN wire'[i] :
           LET n == g[i][k]
           IN /\ k \in Nat /\ n \in DOMAIN wire[i] /\ n \in Nat
              /\ i = j => n = k + 1 /\ 1 < n
              /\ i # j => n = k
              /\ Passed(wire'[i][k], wire[i][n], i, j)
  BY ArrivedIs DEF Arrives, Thins
<1> HIDE DEF g
<1>2. /\ Alive(quarantine') \subseteq Alive(quarantine)
      /\ \A e \in Table : e \in Table' \/ e \in D
      /\ \A e \in Alive(expectations) : e \in Alive(expectations') \/ e \in D
      /\ \A e \in Alive(quarantine) : e \in Alive(quarantine') \/ e \in D
  BY DEF Drops, Table
<1>3. /\ \A a \in D : a.joint = j /\ Alike(a, h)
      /\ \A a, b \in D : a.source = b.source
      /\ \A a \in D : ~a.quarantined /\ a.source = "DISCOVERY" =>
           ~(Own(h) /\ h.source = "MODE_READ")
  BY DEF Explains, Of
\* Nothing sound that stays asks what the head asked, save a discovery.
<1>4. ASSUME NEW n \in DOMAIN wire[j], 1 < n, Alike(wire[j][n], h),
             Sound(wire[j][n]), Sound(h)
      PROVE  /\ h.source = "MODE_READ" /\ wire[j][n].source = "DISCOVERY"
             /\ h.fate = wire[j][n].fate
             /\ h.fate = "stale" => CoveredTwice(j, h, wire[j][n], Table)
  <2>1. Alike(h, wire[j][n])
    BY <1>4 DEF Alike
  <2> QED
    BY <1>1, <1>4, <2>1 DEF Twins
<1>5. ASSUME NEW i \in Joints, NEW k \in DOMAIN wire'[i], Sound(wire'[i][k]),
             i = j, Alike(wire[i][g[i][k]], h)
      PROVE  Sound(h) /\ Sound(wire[i][g[i][k]])
  <2>1. Passed(wire'[i][k], wire[i][g[i][k]], i, j)
    BY <1>1
  <2> QED
    BY <1>5, <2>1 DEF Passed, Sound
<1>6. Covered'
  <2> SUFFICES ASSUME NEW i \in Joints, NEW k \in DOMAIN wire'[i], Sound(wire'[i][k])
               PROVE  /\ wire'[i][k].fate = "current" =>
                           CoveredCurrent(i, wire'[i][k], Alive(expectations'))
                      /\ wire'[i][k].fate = "stale" =>
                           CoveredStale(i, wire'[i][k], Table')
    BY DEF Covered, Sound
  <2> DEFINE n == g[i][k]
             x == wire[i][n]
             y == wire'[i][k]
  <2>1. /\ n \in DOMAIN wire[i] /\ n \in Nat /\ (i = j => 1 < n)
        /\ Passed(y, x, i, j)
    BY <1>1
  <2>2. i = j /\ Alike(x, h) => /\ h.source = "MODE_READ" /\ x.source = "DISCOVERY"
                                /\ h.fate = x.fate
                                /\ h.fate = "stale" => CoveredTwice(j, h, x, Table)
    BY <1>4, <1>5, <2>1
  <2>3. /\ x.fate = "current" => CoveredCurrent(i, x, Alive(expectations))
        /\ x.fate = "stale" => CoveredStale(i, x, Table)
    BY <2>1 DEF Covered
  <2>4. y.source = x.source /\ Alike(y, x) /\ y.age = x.age /\ y.fate = x.fate
    BY <2>1 DEF Passed, Sound
  <2> HIDE DEF x, y, n
  <2>5. ASSUME y.fate = "current"
        PROVE  CoveredCurrent(i, y, Alive(expectations'))
    <3>1. PICK e \in Alive(expectations) :
            e.source = x.source /\ Of(e, i, x) /\ ~e.quarantined /\ e.age <= x.age
      BY <2>3, <2>4, <2>5 DEF CoveredCurrent
    <3>2. e \notin D
      <4> SUFFICES ASSUME e \in D PROVE FALSE
        OBVIOUS
      <4>1. i = j /\ Alike(x, h)
        BY <1>3, <3>1 DEF Of, Alike
      <4>2. h.source = "MODE_READ" /\ e.source = "DISCOVERY" /\ Own(h)
        BY <2>2, <2>4, <2>5, <3>1, <4>1 DEF Own
      <4> QED
        BY <1>3, <3>1, <4>2
    <3>3. e \in Alive(expectations') /\ Of(e, i, y)
      BY <1>2, <2>4, <3>1, <3>2 DEF Of, Alike
    <3> QED
      BY <2>4, <3>1, <3>3 DEF CoveredCurrent
  <2>6. ASSUME y.fate = "stale"
        PROVE  CoveredStale(i, y, Table')
    <3>1. PICK e \in Table : /\ Of(e, i, x) /\ e.quarantined /\ e.age <= x.age
                             /\ x.source \in ModeSources => e.source = x.source
      BY <2>3, <2>4, <2>6 DEF CoveredStale
    <3>2. CASE e \notin D
      <4>1. e \in Table' /\ Of(e, i, y)
        BY <1>2, <2>4, <3>1, <3>2 DEF Of, Alike
      <4> QED
        BY <2>4, <3>1, <4>1 DEF CoveredStale
    <3>3. CASE e \in D
      <4>1. i = j /\ Alike(x, h)
        BY <1>3, <3>1, <3>3 DEF Of, Alike
      <4>2. x.source = "DISCOVERY" /\ CoveredTwice(j, h, x, Table)
        BY <2>2, <2>4, <2>6, <4>1
      <4>3. PICK a \in Table, b \in Table :
              /\ a.source # b.source /\ Of(a, j, h) /\ Of(b, j, h)
              /\ a.quarantined /\ b.quarantined /\ a.age <= x.age /\ b.age <= x.age
        BY <4>2 DEF CoveredTwice
      <4>4. \E f \in Table' : f \in {a, b}
        BY <1>2, <1>3, <4>3
      <4>5. Of(a, i, y) /\ Of(b, i, y) /\ y.source \notin ModeSources
        BY <2>4, <4>1, <4>2, <4>3 DEF Of, Alike, ModeSources
      <4> QED
        BY <2>4, <4>3, <4>4, <4>5 DEF CoveredStale
    <3> QED
      BY <3>2, <3>3
  <2> QED
    BY <2>5, <2>6 DEF y
<1>7. Twins'
  <2> SUFFICES ASSUME NEW i \in Joints, NEW k \in DOMAIN wire'[i], NEW n \in DOMAIN wire'[i],
                      k < n, Alike(wire'[i][k], wire'[i][n]), Sound(wire'[i][k]),
                      Sound(wire'[i][n])
               PROVE  /\ wire'[i][k].source = "MODE_READ" /\ wire'[i][n].source = "DISCOVERY"
                      /\ wire'[i][k].fate = wire'[i][n].fate
                      /\ wire'[i][k].fate = "stale" =>
                           CoveredTwice(i, wire'[i][k], wire'[i][n], Table')
    BY DEF Twins
  <2> DEFINE x == wire[i][g[i][k]]
             u == wire[i][g[i][n]]
             y == wire'[i][k]
             v == wire'[i][n]
  <2>1. /\ g[i][k] \in DOMAIN wire[i] /\ g[i][n] \in DOMAIN wire[i] /\ g[i][k] < g[i][n]
        /\ i = j => 1 < g[i][k] /\ 1 < g[i][n]
        /\ Passed(y, x, i, j) /\ Passed(v, u, i, j)
    BY <1>1 DEF Places
  <2>2. /\ y.source = x.source /\ Alike(y, x) /\ y.age = x.age /\ y.fate = x.fate
        /\ v.source = u.source /\ Alike(v, u) /\ v.age = u.age /\ v.fate = u.fate
        /\ Sound(x) /\ Sound(u) /\ Alike(x, u)
    BY <2>1 DEF Passed, Sound, Alike
  <2>3. /\ x.source = "MODE_READ" /\ u.source = "DISCOVERY" /\ x.fate = u.fate
        /\ x.fate = "stale" => CoveredTwice(i, x, u, Table)
    <3> DEFINE a == g[i][k]
               b == g[i][n]
    <3>1. /\ a \in DOMAIN wire[i] /\ b \in DOMAIN wire[i] /\ a < b
          /\ Alike(wire[i][a], wire[i][b]) /\ Sound(wire[i][a]) /\ Sound(wire[i][b])
      BY <2>1, <2>2
    <3> HIDE DEF a, b
    <3>2. /\ wire[i][a].source = "MODE_READ" /\ wire[i][b].source = "DISCOVERY"
          /\ wire[i][a].fate = wire[i][b].fate
          /\ wire[i][a].fate = "stale" => CoveredTwice(i, wire[i][a], wire[i][b], Table)
      BY <3>1 DEF Twins
    <3> QED
      BY <3>2 DEF a, b
  <2>4. ~(i = j /\ Alike(x, h))
    <3> SUFFICES ASSUME i = j, Alike(x, h) PROVE FALSE
      OBVIOUS
    <3>1. x.source = "DISCOVERY"
      BY <1>4, <1>5, <2>1
    <3> QED
      BY <2>3, <3>1
  <2> HIDE DEF x, u, y, v
  <2>5. ASSUME x.fate = "stale"
        PROVE  CoveredTwice(i, y, v, Table')
    <3>1. PICK a \in Table, b \in Table :
            /\ a.source # b.source /\ Of(a, i, x) /\ Of(b, i, x)
            /\ a.quarantined /\ b.quarantined
            /\ a.age <= x.age /\ a.age <= u.age /\ b.age <= x.age /\ b.age <= u.age
      BY <2>3, <2>5 DEF CoveredTwice
    <3>2. a \notin D /\ b \notin D
      BY <1>3, <2>4, <3>1 DEF Of, Alike
    <3>3. Of(a, i, y) /\ Of(b, i, y)
      BY <2>2, <3>1 DEF Of, Alike
    <3> QED
      BY <1>2, <2>2, <3>1, <3>2, <3>3 DEF CoveredTwice
  <2> QED
    BY <2>2, <2>3, <2>5 DEF y, v
<1>8. Locked'
  <2> SUFFICES ASSUME NEW i \in Joints, NEW l \in Joints, NEW k \in DOMAIN wire'[i],
                      NEW n \in DOMAIN wire'[l], At(i, k)', At(l, n)', ~(i = l /\ k = n),
                      ~Own(wire'[i][k]), ~Own(wire'[l][n])
               PROVE  Locks(wire'[i][k], wire'[l][n], Alive(quarantine'), wire')
    BY DEF Locked
  <2> DEFINE x == wire[i][g[i][k]]
             u == wire[l][g[l][n]]
             y == wire'[i][k]
             v == wire'[l][n]
  <2>1. /\ g[i][k] \in DOMAIN wire[i] /\ g[l][n] \in DOMAIN wire[l]
        /\ (i = j => 1 < g[i][k]) /\ (l = j => 1 < g[l][n])
        /\ g[i][k] \in Nat /\ g[l][n] \in Nat
        /\ Passed(y, x, i, j) /\ Passed(v, u, l, j)
    BY <1>1
  <2>2. /\ At(i, g[i][k]) /\ At(l, g[l][n]) /\ ~(i = l /\ g[i][k] = g[l][n])
    <3>1. At(i, g[i][k]) /\ At(l, g[l][n])
      BY <2>1 DEF At, Passed
    <3>2. ASSUME i = l, g[i][k] = g[l][n]
          PROVE  FALSE
      <4>1. k \in Nat /\ n \in Nat
        BY <1>1
      <4>2. CASE i = j
        <5>1. g[i][k] = k + 1 /\ g[l][n] = n + 1
          BY <1>1, <3>2, <4>2
        <5>2. k + 1 = n + 1
          BY <3>2, <5>1
        <5>3. k = n
          BY <4>1, <5>2
        <5> QED
          BY <3>2, <5>3
      <4>3. CASE i # j
        BY <1>1, <3>2, <4>3
      <4> QED
        BY <4>2, <4>3
    <3> QED
      BY <3>1, <3>2
  <2>3. h.source # "DISCOVERY"
    <3> SUFFICES ASSUME h.source = "DISCOVERY" PROVE FALSE
      OBVIOUS
    <3>1. At(j, 1)
      BY <1>1 DEF At
    <3>2. ~(j = i /\ 1 = g[i][k]) /\ ~(j = l /\ 1 = g[l][n])
      BY <2>1
    <3> QED
      BY <1>1, <2>1, <2>2, <3>1, <3>2 DEF NoThree
  <2>4. Sound(h) /\ h.source \in ModeSources
    <3>1. h.source \in Sequence
      BY <1>1 DEF Item
    <3>2. h.source \in ModeSources
      BY <2>3, <3>1 DEF Sequence, ModeSources
    <3> QED
      BY <1>1, <3>2 DEF WireOK
  <2>5. /\ ~Own(x) /\ ~Own(u) /\ y.age = x.age /\ v.age = u.age
    BY <2>1, <2>4 DEF Passed, Sound, Own
  <2>6. Locks(x, u, Alive(quarantine), wire)
    BY <2>1, <2>2, <2>5 DEF Locked
  <2> HIDE DEF x, u, y, v
  <2>7. PICK e \in Alive(quarantine) :
          /\ e.age <= x.age /\ e.age <= u.age
          /\ \A m \in DOMAIN wire[e.joint] :
               wire[e.joint][m].source \in ModeSources /\ Alike(e, wire[e.joint][m]) =>
                 \E f \in Alive(quarantine) :
                   f.source # e.source /\ Same(f, e) /\ f.age <= x.age /\ f.age <= u.age
    BY <2>6 DEF Locks
  <2>8. e.joint \in Joints
    BY EntryFacts
\* Of two that a mode switch sent, only the head asks this.
  <2>9. ASSUME NEW a, a.joint = j, Alike(a, h), NEW m \in DOMAIN wire'[j],
               wire'[j][m].source \in ModeSources, Alike(a, wire'[j][m])
        PROVE  FALSE
    <3>1. /\ g[j][m] \in DOMAIN wire[j] /\ 1 < g[j][m]
          /\ wire[j][g[j][m]].source \in ModeSources /\ Alike(wire[j][g[j][m]], h)
      <4> DEFINE q == g[j][m]
      <4>1. q \in DOMAIN wire[j] /\ 1 < q /\ Passed(wire'[j][m], wire[j][q], j, j)
        BY <1>1
      <4> HIDE DEF q
      <4>2. wire[j][q].source \in ModeSources /\ Alike(wire[j][q], h)
        BY <2>9, <4>1 DEF Passed, Alike
      <4> QED
        BY <4>1, <4>2 DEF q
    <3>2. Sound(wire[j][g[j][m]])
      BY <1>1, <3>1 DEF WireOK
    <3>3. wire[j][g[j][m]].source = "DISCOVERY"
      BY <1>4, <2>4, <3>1, <3>2
    <3> QED
      BY <3>1, <3>3 DEF ModeSources
  <2>10. CASE e \notin D
    <3>1. ASSUME NEW m \in DOMAIN wire'[e.joint], wire'[e.joint][m].source \in ModeSources,
                 Alike(e, wire'[e.joint][m])
          PROVE  \E f \in Alive(quarantine') :
                   f.source # e.source /\ Same(f, e) /\ f.age <= x.age /\ f.age <= u.age
      <4>1. /\ g[e.joint][m] \in DOMAIN wire[e.joint]
            /\ wire[e.joint][g[e.joint][m]].source \in ModeSources
            /\ Alike(e, wire[e.joint][g[e.joint][m]])
        BY <1>1, <2>8, <3>1 DEF Passed, Alike
      <4>2. PICK f \in Alive(quarantine) :
              f.source # e.source /\ Same(f, e) /\ f.age <= x.age /\ f.age <= u.age
        BY <2>7, <4>1
      <4>3. f \notin D
        <5> SUFFICES ASSUME f \in D PROVE FALSE
          OBVIOUS
        <5>1. f.joint = j /\ Alike(f, h) /\ e.joint = j /\ Alike(f, wire'[j][m])
          BY <1>3, <3>1, <4>2 DEF Same, Alike
        <5> QED
          BY <2>9, <3>1, <5>1
      <4> QED
        BY <1>2, <4>2, <4>3
    <3>2. e \in Alive(quarantine')
      BY <1>2, <2>10
    <3> QED
      BY <2>5, <2>7, <3>1, <3>2 DEF Locks, x, u, y, v
  <2>11. CASE e \in D
    <3>1. e.joint = j /\ Alike(e, h)
      BY <1>3, <2>11
    <3>2. PICK f \in Alive(quarantine) :
            f.source # e.source /\ Same(f, e) /\ f.age <= x.age /\ f.age <= u.age
      BY <1>1, <2>4, <2>7, <3>1
    <3>3. f \in Alive(quarantine') /\ f.joint = j /\ Alike(f, h)
      BY <1>2, <1>3, <2>11, <3>1, <3>2 DEF Same, Alike
    <3>4. \A m \in DOMAIN wire'[f.joint] :
            ~(wire'[f.joint][m].source \in ModeSources /\ Alike(f, wire'[f.joint][m]))
      BY <2>9, <3>3
    <3> QED
      BY <2>5, <3>2, <3>3, <3>4 DEF Locks, x, u, y, v
  <2> QED
    BY <2>10, <2>11
<1> QED
  BY <1>6, <1>7, <1>8


LEMMA ArrivedFresh ==
  ASSUME WireType, TablesType, WireOK, OrderOK, Fresh, CurrentOK,
         NEW j, Arrives(j), NEW D, Drops(D),
         \/ discovery' = discovery
         \/ /\ \A e \in Alive(expectations') : ~e.quarantined => e.source # "DISCOVERY"
            /\ \A i \in Joints : \A k \in DOMAIN wire'[i] :
                 Own(wire'[i][k]) => wire'[i][k].source # "DISCOVERY",
         \/ switch' = switch
         \/ /\ switch'.state # "WRITING"
            /\ \A i \in Joints : \A k \in DOMAIN wire'[i] :
                 Own(wire'[i][k]) => wire'[i][k].source # "MODE_READ"
  PROVE  Fresh' /\ CurrentOK'
<1> DEFINE g == Shift(j)
<1>1. \A i \in Joints : \A k \in DOMAIN wire'[i] :
        g[i][k] \in DOMAIN wire[i] /\ Passed(wire'[i][k], wire[i][g[i][k]], i, j)
  BY ArrivedIs
<1> HIDE DEF g
<1>2. \A e \in Alive(expectations') : e \in Alive(expectations) /\ e.joint \in Joints
  BY EntryFacts DEF Drops
<1>3. Fresh'
  <2> SUFFICES ASSUME NEW e \in Alive(expectations'), ~e.quarantined
               PROVE  /\ \A k \in DOMAIN wire'[e.joint] :
                           Alike(e, wire'[e.joint][k]) => wire'[e.joint][k].fate # "stale"
                      /\ e.source = "DISCOVERY" =>
                           /\ discovery'.state = "WAITING"
                           /\ IsAsked(e.joint, e, discovery') /\ discovery'.age <= e.age
    BY DEF Fresh
  <2>1. e \in Alive(expectations) /\ e.joint \in Joints
    BY <1>2
  <2>2. /\ \A k \in DOMAIN wire[e.joint] :
             Alike(e, wire[e.joint][k]) => wire[e.joint][k].fate # "stale"
        /\ e.source = "DISCOVERY" =>
             /\ discovery.state = "WAITING"
             /\ IsAsked(e.joint, e, discovery) /\ discovery.age <= e.age
    BY <2>1 DEF Fresh
  <2>3. ASSUME NEW k \in DOMAIN wire'[e.joint], Alike(e, wire'[e.joint][k])
        PROVE  wire'[e.joint][k].fate # "stale"
    <3>1. /\ g[e.joint][k] \in DOMAIN wire[e.joint]
          /\ Passed(wire'[e.joint][k], wire[e.joint][g[e.joint][k]], e.joint, j)
      BY <1>1, <2>1
    <3>2. Alike(e, wire[e.joint][g[e.joint][k]])
      BY <2>3, <3>1 DEF Passed, Alike
    <3> QED
      BY <2>2, <3>1, <3>2 DEF Passed
  <2> QED
    BY <2>2, <2>3
<1>4. CurrentOK'
  <2> SUFFICES ASSUME NEW i \in Joints, NEW k \in DOMAIN wire'[i], Own(wire'[i][k])
               PROVE  /\ wire'[i][k].source = "DISCOVERY" =>
                           /\ discovery'.state = "WAITING"
                           /\ IsAsked(i, wire'[i][k], discovery')
                           /\ discovery'.age <= wire'[i][k].age
                      /\ wire'[i][k].source = "MODE_READ" =>
                           /\ switch'.state = "READ_WAITING" /\ switch'.joint = i
                           /\ switch'.age <= wire'[i][k].age
                      /\ wire'[i][k].source = "MODE_WRITE" /\ switch'.state = "WRITING" =>
                           i < switch'.joint
    BY DEF CurrentOK
  <2> DEFINE x == wire[i][g[i][k]]
             y == wire'[i][k]
  <2>1. g[i][k] \in DOMAIN wire[i] /\ Own(x) /\ y.source = x.source /\ Alike(y, x)
        /\ y.age = x.age
    BY <1>1 DEF Passed, Own
  <2>2. /\ x.source = "DISCOVERY" =>
             /\ discovery.state = "WAITING" /\ IsAsked(i, x, discovery)
             /\ discovery.age <= x.age
        /\ x.source = "MODE_READ" =>
             /\ switch.state = "READ_WAITING" /\ switch.joint = i /\ switch.age <= x.age
        /\ x.source = "MODE_WRITE" /\ switch.state = "WRITING" => i < switch.joint
    BY <2>1 DEF CurrentOK
  <2> HIDE DEF x
  <2>3. IsAsked(i, x, discovery) => IsAsked(i, y, discovery)
    BY <2>1 DEF IsAsked, Alike
  <2>4. y.source = "DISCOVERY" => discovery' = discovery
    OBVIOUS
  <2>5. y.source = "MODE_READ" => switch' = switch
    OBVIOUS
  <2> HIDE DEF y
  <2>6. switch'.state = "WRITING" => switch' = switch
    OBVIOUS
  <2> QED
    BY <2>1, <2>2, <2>3, <2>4, <2>5, <2>6 DEF y
<1> QED
  BY <1>3, <1>4

\* The entries that match an answer.
LEMMA EntriesAre ==
  ASSUME NEW s \in Seq(TableEntry), NEW j \in Joints, WireType, wire[j] # <<>>,
         NEW sources, NEW dead
  PROVE  /\ Head(wire[j]) = wire[j][1] /\ 1 \in DOMAIN wire[j]
         /\ Entries(s, j, sources, dead) \subseteq DOMAIN s
         /\ \A k \in Entries(s, j, sources, dead) :
              /\ s[k] \in ToSet(s) /\ s[k].source \in sources /\ s[k].quarantined = dead
              /\ Of(s[k], j, wire[j][1])
         /\ \A e \in ToSet(s) :
              e.source \in sources /\ e.quarantined = dead /\ Of(e, j, wire[j][1]) =>
                Entries(s, j, sources, dead) # {}
<1>1. wire[j] \in Seq(Item)
  BY DEF WireType
<1>2. Head(wire[j]) = wire[j][1] /\ 1 \in DOMAIN wire[j]
  <2> DEFINE w == wire[j]
  <2>1. w \in Seq(Item) /\ w # <<>>
    BY <1>1
  <2> HIDE DEF w
  <2>2. Len(w) \in Nat /\ Len(w) >= 1 /\ DOMAIN w = 1..Len(w) /\ Head(w) = w[1]
    BY <2>1, HeadTailProperties
  <2> QED
    BY <2>2 DEF w
<1>3. \A e : Same(e, Answer(j)) <=> Of(e, j, wire[j][1])
  BY <1>2 DEF Same, Answer, Of, Alike
<1>4. /\ DOMAIN s = 1..Len(s) /\ \A n \in 1..Len(s) : s[n] \in ToSet(s)
      /\ \A e \in ToSet(s) : \E n \in 1..Len(s) : e = s[n]
  BY Holds
<1> QED
  BY <1>2, <1>3, <1>4 DEF Entries

\* An answer takes its entry out of the expectations.
LEMMA TakenIs ==
  ASSUME TablesType, TablesOK, WireType, NEW j, Arrives(j), NEW sources, NEW dead,
         Entries(Live(expectations), j, sources, dead) # {}, Taken(j, sources, dead),
         quarantine' \in {quarantine, Live(quarantine)}
  PROVE  /\ TablesType' /\ TablesOK' /\ Tombstones' \subseteq Tombstones
         /\ \E a \in Alive(expectations) :
              /\ a.source \in sources /\ a.quarantined = dead /\ Of(a, j, wire[j][1])
              /\ Drops({a}) /\ a \notin Alive(expectations')
<1> DEFINE s == Live(expectations)
           T == Entries(s, j, sources, dead)
           t == Without(s, T)
<1>1. /\ s \in Seq(TableEntry) /\ Len(s) <= Len(expectations) /\ Unique(s)
      /\ ToSet(s) = Alive(expectations)
      /\ expectations \in Seq(TableEntry) /\ Len(expectations) <= Capacity
      /\ TableOK(expectations)
  BY LiveIs DEF TablesType, TablesOK
<1>2. j \in Joints /\ wire[j] # <<>>
  BY DEF Arrives
<1> HIDE DEF s
<1>3. /\ T \subseteq DOMAIN s
      /\ \A k \in T :
           /\ s[k] \in ToSet(s) /\ s[k].source \in sources /\ s[k].quarantined = dead
           /\ Of(s[k], j, wire[j][1])
  BY <1>1, <1>2, EntriesAre
<1>4. T # {} /\ expectations' = t
  BY DEF Taken, s
<1> HIDE DEF T
<1>5. /\ t \in Seq(TableEntry) /\ Len(t) <= Len(s) /\ ToSet(t) \subseteq ToSet(s) /\ Unique(t)
      /\ \E p \in T : /\ \A n \in DOMAIN s : n # p => s[n] \in ToSet(t)
                      /\ s[p] \notin ToSet(t)
  BY <1>1, <1>3, <1>4, WithoutIs
<1> HIDE DEF t
<1>6. PICK p \in T : /\ \A n \in DOMAIN s : n # p => s[n] \in ToSet(t)
                     /\ s[p] \notin ToSet(t)
  BY <1>5
<1>7. /\ Len(s) \in Nat /\ DOMAIN s = 1..Len(s) /\ Len(t) \in Nat /\ Len(expectations) \in Nat
      /\ \A e \in ToSet(s) : \E n \in 1..Len(s) : e = s[n]
  BY <1>1, <1>5, Holds
<1>8. \A e \in ToSet(t) : e.age < Timeout
  BY <1>1, <1>5 DEF Alive
<1>9. Alive(expectations') = ToSet(t)
  BY <1>4, <1>8 DEF Alive
<1>10. /\ quarantine' \in Seq(TableEntry) /\ Alive(quarantine') = Alive(quarantine)
       /\ TableOK(quarantine)' /\ \A e \in ToSet(quarantine') : e.quarantined
  <2>1. /\ quarantine \in Seq(TableEntry) /\ TableOK(quarantine)
        /\ \A e \in ToSet(quarantine) : e.quarantined
    BY DEF TablesType, TablesOK
  <2>2. /\ Live(quarantine) \in Seq(TableEntry) /\ ToSet(Live(quarantine)) = Alive(quarantine)
        /\ Alive(Live(quarantine)) = Alive(quarantine)
    BY <2>1, LiveIs
  <2>3. ToSet(quarantine') \subseteq ToSet(quarantine)
    BY <2>2 DEF Alive
  <2> QED
    BY <2>1, <2>2, <2>3 DEF TableOK
<1>11. TablesType' /\ TablesOK'
  <2>1. Len(t) <= Capacity
    BY <1>1, <1>5, <1>7, Counts
  <2>2. ToSet(t) \subseteq ToSet(expectations)
    BY <1>1, <1>5 DEF Alive
  <2>3. TableOK(expectations)'
    BY <1>1, <1>4, <2>2 DEF TableOK
  <2> QED
    BY <1>4, <1>5, <1>10, <2>1, <2>3 DEF TablesType, TablesOK
<1>12. Drops({s[p]})
  <2>1. ASSUME NEW e \in ToSet(s)
        PROVE  e \in ToSet(t) \/ e \in {s[p]}
    <3>1. PICK n \in 1..Len(s) : e = s[n]
      BY <1>7
    <3>2. CASE n = p
      BY <3>1, <3>2
    <3>3. CASE n # p
      BY <1>6, <1>7, <3>1, <3>3
    <3> QED
      BY <3>2, <3>3
  <2> DEFINE D == {s[p]}
  <2>2. \A e \in Alive(expectations) : e \in Alive(expectations') \/ e \in D
    BY <1>1, <1>9, <2>1
  <2> HIDE DEF D
  <2>3. Alive(expectations') \subseteq Alive(expectations)
    BY <1>1, <1>5, <1>9
  <2>4. Drops(D)
    BY <1>10, <2>2, <2>3 DEF Drops
  <2> QED
    BY <2>4 DEF D
<1>13. Tombstones' \subseteq Tombstones
  <2>1. Table' \subseteq Table
    BY <1>12 DEF Drops, Table
  <2>2. \A e : e \in Tombstones <=> e \in Table /\ e.quarantined
    BY TombstonesAre
  <2>3. \A e : e \in Tombstones' <=> e \in Table' /\ e.quarantined
    BY <1>11, TombstonesAfter
  <2> QED
    BY <2>1, <2>2, <2>3
<1> QED
  BY <1>1, <1>3, <1>6, <1>9, <1>11, <1>12, <1>13

\* Or out of the quarantine.
LEMMA BuriedIs ==
  ASSUME TablesType, TablesOK, WireType, NEW j, Arrives(j),
         Entries(Live(quarantine), j, Sequence, TRUE) # {},
         quarantine' = Without(Live(quarantine), Entries(Live(quarantine), j, Sequence, TRUE)),
         expectations' = Live(expectations)
  PROVE  /\ TablesType' /\ TablesOK' /\ Tombstones' \subseteq Tombstones
         /\ \E a \in Alive(quarantine) :
              a.quarantined /\ Of(a, j, wire[j][1]) /\ Drops({a})
<1> DEFINE s == Live(quarantine)
           T == Entries(s, j, Sequence, TRUE)
           t == Without(s, T)
<1>1. /\ s \in Seq(TableEntry) /\ ToSet(s) = Alive(quarantine)
      /\ quarantine \in Seq(TableEntry) /\ TableOK(quarantine)
      /\ \A e \in ToSet(quarantine) : e.quarantined
  BY LiveIs DEF TablesType, TablesOK
<1>2. j \in Joints /\ wire[j] # <<>>
  BY DEF Arrives
<1>3. T # {} /\ quarantine' = t
  OBVIOUS
<1> HIDE DEF s
<1>4. /\ T \subseteq DOMAIN s
      /\ \A k \in T :
           /\ s[k] \in ToSet(s) /\ s[k].source \in Sequence /\ s[k].quarantined = TRUE
           /\ Of(s[k], j, wire[j][1])
  BY <1>1, <1>2, EntriesAre
<1> HIDE DEF T
<1>5. /\ t \in Seq(TableEntry) /\ ToSet(t) \subseteq ToSet(s)
      /\ \E p \in T : \A n \in DOMAIN s : n # p => s[n] \in ToSet(t)
  BY <1>1, <1>3, <1>4, WithoutIs
<1> HIDE DEF t
<1>6. PICK p \in T : \A n \in DOMAIN s : n # p => s[n] \in ToSet(t)
  BY <1>5
<1>7. DOMAIN s = 1..Len(s) /\ \A e \in ToSet(s) : \E n \in 1..Len(s) : e = s[n]
  BY <1>1, Holds
<1>8. \A e \in ToSet(t) : e.age < Timeout
  BY <1>1, <1>5 DEF Alive
<1>9. Alive(quarantine') = ToSet(t)
  BY <1>3, <1>8 DEF Alive
<1>10. /\ expectations' \in Seq(TableEntry) /\ Alive(expectations') = Alive(expectations)
       /\ TableOK(expectations)' /\ Unique(expectations') /\ Len(expectations') <= Capacity
  <2>1. /\ expectations \in Seq(TableEntry) /\ TableOK(expectations) /\ Unique(expectations)
        /\ Len(expectations) <= Capacity
    BY DEF TablesType, TablesOK
  <2>2. /\ expectations' \in Seq(TableEntry) /\ ToSet(expectations') = Alive(expectations)
        /\ Alive(expectations') = Alive(expectations) /\ Unique(expectations')
        /\ Len(expectations') <= Len(expectations)
    BY <2>1, LiveIs
  <2>3. ToSet(expectations') \subseteq ToSet(expectations)
    BY <2>2 DEF Alive
  <2>4. Len(expectations') <= Capacity
    BY <2>1, <2>2, Counts
  <2> QED
    BY <2>1, <2>2, <2>3, <2>4 DEF TableOK
<1>11. TablesType' /\ TablesOK'
  <2>1. ToSet(t) \subseteq ToSet(quarantine)
    BY <1>1, <1>5 DEF Alive
  <2>2. TableOK(quarantine)' /\ \A e \in ToSet(quarantine') : e.quarantined
    BY <1>1, <1>3, <2>1 DEF TableOK
  <2> QED
    BY <1>3, <1>5, <1>10, <2>2 DEF TablesType, TablesOK
<1>12. Drops({s[p]})
  <2>1. ASSUME NEW e \in ToSet(s)
        PROVE  e \in ToSet(t) \/ e \in {s[p]}
    <3>1. PICK n \in 1..Len(s) : e = s[n]
      BY <1>7
    <3>2. CASE n = p
      BY <3>1, <3>2
    <3>3. CASE n # p
      BY <1>6, <1>7, <3>1, <3>3
    <3> QED
      BY <3>2, <3>3
  <2> DEFINE D == {s[p]}
  <2>2. \A e \in Alive(quarantine) : e \in Alive(quarantine') \/ e \in D
    BY <1>1, <1>9, <2>1
  <2> HIDE DEF D
  <2>3. Alive(quarantine') \subseteq Alive(quarantine)
    BY <1>1, <1>5, <1>9
  <2>4. Drops(D)
    BY <1>10, <2>2, <2>3 DEF Drops
  <2> QED
    BY <2>4 DEF D
<1>13. Tombstones' \subseteq Tombstones
  <2>1. Table' \subseteq Table
    BY <1>12 DEF Drops, Table
  <2>2. \A e : e \in Tombstones <=> e \in Table /\ e.quarantined
    BY TombstonesAre
  <2>3. \A e : e \in Tombstones' <=> e \in Table' /\ e.quarantined
    BY <1>11, TombstonesAfter
  <2> QED
    BY <2>1, <2>2, <2>3
<1> QED
  BY <1>1, <1>4, <1>6, <1>11, <1>12, <1>13

\* What an answer is taken for, and that it is taken for something.
LEMMA RouteIs ==
  ASSUME TablesType, TablesOK, WireType, Covered, CurrentOK, Fresh, NEW j \in Joints,
         wire[j] # <<>>
  PROVE  /\ Route(j) \in {"readback", "written", "discovered", "buried", "buried_early",
                           "feedback"}
         /\ Route(j) = "readback" =>
              /\ Entries(Live(expectations), j, {"MODE_READ"}, FALSE) # {}
              /\ switch.state = "READ_WAITING" /\ switch.joint = j
         /\ Route(j) = "written" => Entries(Live(expectations), j, {"MODE_WRITE"}, FALSE) # {}
         /\ Route(j) = "discovered" =>
              /\ Entries(Live(expectations), j, {"DISCOVERY"}, FALSE) # {}
              /\ discovery.state = "WAITING"
         /\ Route(j) = "buried" => Entries(Live(quarantine), j, Sequence, TRUE) # {}
         /\ Route(j) = "buried_early" => Entries(Live(expectations), j, Sequence, TRUE) # {}
         /\ Own(wire[j][1]) /\ wire[j][1].source = "MODE_READ" => Route(j) = "readback"
         /\ Sound(wire[j][1]) => Route(j) # "feedback"
         /\ wire[j][1].fate = "stale" => Route(j) \notin {"readback", "discovered"}
<1> DEFINE h == wire[j][1]
           own(source) == Entries(Live(expectations), j, {source}, FALSE) # {}
           dead(s) == Entries(s, j, Sequence, TRUE) # {}
           reading == switch.state = "READ_WAITING" /\ switch.joint = j
           asking == discovery.state = "WAITING"
           buried == dead(Live(quarantine))
           early == dead(Live(expectations))
<1>1. /\ Live(expectations) \in Seq(TableEntry)
      /\ Live(quarantine) \in Seq(TableEntry)
      /\ ToSet(Live(expectations)) = Alive(expectations)
      /\ ToSet(Live(quarantine)) = Alive(quarantine)
  BY LiveIs DEF TablesType
<1>2. 1 \in DOMAIN wire[j] /\ h.source \in Sequence /\ h.fate \in Fates
  <2>1. 1 \in DOMAIN wire[j]
    BY <1>1, EntriesAre
  <2> QED
    BY <2>1, WireFacts DEF WireType
<1>3. /\ Alive(expectations) \subseteq TableEntry /\ Alive(quarantine) \subseteq TableEntry
      /\ \A e \in TableEntry : e.source \in Sequence /\ e.quarantined \in BOOLEAN
  BY EntryFacts
<1>4. ASSUME NEW source, own(source)
      PROVE  h.fate # "stale"
  <2> DEFINE s == Live(expectations)
             X == {source}
             T == Entries(s, j, X, FALSE)
  <2>1. s \in Seq(TableEntry) /\ ToSet(s) = Alive(expectations) /\ T # {}
    BY <1>1, <1>4
  <2> HIDE DEF s, X
  <2>2. \A k \in T :
          /\ s[k] \in ToSet(s) /\ s[k].source \in X /\ s[k].quarantined = FALSE
          /\ Of(s[k], j, wire[j][1])
    BY <2>1, EntriesAre
  <2> HIDE DEF T
  <2>3. PICK k \in T : TRUE
    BY <2>1
  <2>4. s[k] \in Alive(expectations) /\ ~s[k].quarantined /\ s[k].joint = j
        /\ Alike(s[k], wire[j][1])
    BY <2>1, <2>2, <2>3 DEF Of
  <2> QED
    BY <1>2, <2>4 DEF Fresh
<1>5. ASSUME Own(h)
      PROVE  own(h.source)
  <2>1. PICK e \in Alive(expectations) : e.source = h.source /\ Of(e, j, h) /\ ~e.quarantined
    BY <1>2, <1>5 DEF Covered, CoveredCurrent, Own
  <2> DEFINE s == Live(expectations)
             X == {h.source}
             B == FALSE
  <2>2. s \in Seq(TableEntry) /\ e.quarantined = B /\ e \in ToSet(s) /\ e.source \in X
    BY <1>1, <1>3, <2>1
  <2>3. Of(e, j, wire[j][1])
    BY <2>1
  <2>4. own(h.source) <=> Entries(s, j, X, B) # {}
    OBVIOUS
  <2> HIDE DEF s, X, B, own
  <2>5. Entries(s, j, X, B) # {}
    BY <2>2, <2>3, EntriesAre
  <2> QED
    BY <2>4, <2>5
<1>6. ASSUME h.fate = "stale"
      PROVE  buried \/ early
  <2>1. PICK e \in Table : Of(e, j, h) /\ e.quarantined
    BY <1>2, <1>6 DEF Covered, CoveredStale
  <2>2. e \in Alive(expectations) \/ e \in Alive(quarantine)
    BY <2>1 DEF Table
  <2>3. e.quarantined = TRUE /\ e.source \in Sequence
    BY <1>3, <2>1, <2>2
  <2>4. CASE e \in Alive(expectations)
    <3> DEFINE s == Live(expectations)
               B == TRUE
    <3>1. s \in Seq(TableEntry) /\ e \in ToSet(s) /\ Of(e, j, wire[j][1])
      BY <1>1, <2>1, <2>4
    <3>2. early <=> Entries(s, j, Sequence, B) # {}
      OBVIOUS
    <3>3. e.quarantined = B
      BY <2>3
    <3>4. e.source \in Sequence
      BY <2>3
    <3> HIDE DEF s, B, early
    <3>5. Entries(s, j, Sequence, B) # {}
      BY <3>1, <3>3, <3>4, EntriesAre
    <3> QED
      BY <3>2, <3>5
  <2>5. CASE e \in Alive(quarantine)
    <3> DEFINE s == Live(quarantine)
               B == TRUE
    <3>1. s \in Seq(TableEntry) /\ e \in ToSet(s) /\ Of(e, j, wire[j][1])
      BY <1>1, <2>1, <2>5
    <3>2. buried <=> Entries(s, j, Sequence, B) # {}
      OBVIOUS
    <3>3. e.quarantined = B
      BY <2>3
    <3>4. e.source \in Sequence
      BY <2>3
    <3> HIDE DEF s, B, buried
    <3>5. Entries(s, j, Sequence, B) # {}
      BY <3>1, <3>3, <3>4, EntriesAre
    <3> QED
      BY <3>2, <3>5
  <2> QED
    BY <2>2, <2>4, <2>5
<1>7. Own(h) =>
        /\ h.source = "DISCOVERY" => asking
        /\ h.source = "MODE_READ" => reading
  BY <1>2 DEF CurrentOK
<1>8. Route(j) = IF own("MODE_READ") /\ reading THEN "readback"
                 ELSE IF own("MODE_WRITE") THEN "written"
                 ELSE IF own("DISCOVERY") /\ asking THEN "discovered"
                 ELSE IF buried THEN "buried" ELSE IF early THEN "buried_early" ELSE "feedback"
  BY DEF Route
<1>9. Sound(h) => Own(h) \/ h.fate = "stale"
  BY <1>2 DEF Sound, Own, Fates
<1>10. Own(h) => own(h.source) /\ h.source \in {"DISCOVERY", "MODE_WRITE", "MODE_READ"}
  BY <1>2, <1>5 DEF Sequence
<1>11. own("MODE_READ") \/ own("DISCOVERY") => h.fate # "stale"
  BY <1>4
<1>12. /\ own("MODE_READ") <=> Entries(Live(expectations), j, {"MODE_READ"}, FALSE) # {}
       /\ own("MODE_WRITE") <=> Entries(Live(expectations), j, {"MODE_WRITE"}, FALSE) # {}
       /\ own("DISCOVERY") <=> Entries(Live(expectations), j, {"DISCOVERY"}, FALSE) # {}
       /\ buried <=> Entries(Live(quarantine), j, Sequence, TRUE) # {}
       /\ early <=> Entries(Live(expectations), j, Sequence, TRUE) # {}
       /\ reading <=> switch.state = "READ_WAITING" /\ switch.joint = j
       /\ asking <=> discovery.state = "WAITING"
  OBVIOUS
<1> DEFINE r == Route(j)
           a == own("MODE_READ")
           b == own("MODE_WRITE")
           c == own("DISCOVERY")
<1>13. /\ r = IF a /\ reading THEN "readback" ELSE IF b THEN "written"
              ELSE IF c /\ asking THEN "discovered"
              ELSE IF buried THEN "buried" ELSE IF early THEN "buried_early" ELSE "feedback"
       /\ Own(h) /\ h.source = "MODE_READ" => a /\ reading
       /\ Own(h) => (h.source = "MODE_READ" /\ a /\ reading) \/ b \/ (c /\ asking)
       /\ h.fate = "stale" => ~a /\ ~c /\ (buried \/ early)
  BY <1>6, <1>7, <1>8, <1>10, <1>11
<1> HIDE DEF r, a, b, c, reading, asking, buried, early, own, dead
<1>14. /\ r = "readback" => a /\ reading
       /\ r = "written" => b
       /\ r = "discovered" => c /\ asking
       /\ r = "buried" => buried
       /\ r = "buried_early" => early
       /\ r \in {"readback", "written", "discovered", "buried", "buried_early", "feedback"}
       /\ Own(h) /\ h.source = "MODE_READ" => r = "readback"
       /\ Own(h) => r # "feedback"
       /\ h.fate = "stale" => r \notin {"readback", "discovered", "feedback"}
  BY <1>13
<1> QED
  BY <1>9, <1>12, <1>14 DEF r, a, b, c, h

\* What holds of the wire whatever the answer is taken for.
LEMMA ArrivedTraffic ==
  ASSUME IInv, NEW j, Arrives(j), NEW D, Drops(D), Explains(D, j), drive' = drive
  PROVE  /\ WireType' /\ WireOK' /\ AnsweredOK' /\ OrderOK' /\ Twins' /\ Covered'
         /\ NoThree' /\ Locked' /\ ReadTrue'
         /\ discovery' = discovery => BootOK'
<1>1. /\ WireType /\ TablesType /\ WireOK /\ AnsweredOK /\ OrderOK /\ Twins /\ Covered
      /\ NoThree /\ Locked /\ ReadTrue /\ BootOK
  BY DEF IInv, TypeOK, Traffic
<1> DEFINE g == Shift(j)
           h == wire[j][1]
<1>2. /\ WireType' /\ Still(g) /\ Thins(g) /\ Places(g)
      /\ 1 \in DOMAIN wire[j] /\ h \in Item
      /\ \A i \in Joints : \A k \in DOMAIN wire'[i] :
           g[i][k] \in DOMAIN wire[i] /\ Passed(wire'[i][k], wire[i][g[i][k]], i, j)
  BY <1>1, ArrivedIs DEF Thins
<1> HIDE DEF g
<1>3. WireOK' /\ OrderOK' /\ NoThree'
  BY <1>1, <1>2, ThinsShape
<1>4. AnsweredOK' /\ ReadTrue'
  BY <1>1, <1>2, StillTrue
<1>5. Twins' /\ Covered' /\ Locked'
  BY <1>1, ArrivedCover
<1>6. ASSUME discovery' = discovery
      PROVE  BootOK'
  <2> SUFFICES ASSUME Requesting, ~discovery.active
               PROVE  BootOK'
    BY <1>6 DEF BootOK, Requesting
  <2>1. Pending' = Pending
    BY <1>6 DEF Pending, Requesting
  <2>2. /\ \A i \in Joints : \A k \in DOMAIN wire[i] : At(i, k) =>
             /\ discovery.state = "WAITING" /\ Sound(wire[i][k])
             /\ discovery.age <= wire[i][k].age
        /\ \A i, l \in Joints : \A k \in DOMAIN wire[i], n \in DOMAIN wire[l] :
             At(i, k) /\ At(l, n) => i = l /\ k = n
        /\ \A i \in Pending : \A k \in DOMAIN wire[i] : wire[i][k].source \notin ModeSources
    BY <1>1 DEF BootOK
  <2>3. Sound(h)
    <3>1. h.source = "DISCOVERY" => At(j, 1)
      BY <1>2 DEF Arrives, At
    <3>2. h.source \in ModeSources => Sound(h)
      BY <1>1, <1>2 DEF WireOK, Arrives
    <3>3. h.source \in Sequence
      BY <1>2 DEF Item
    <3> QED
      BY <1>2, <2>2, <3>1, <3>2, <3>3 DEF Sequence, ModeSources, Arrives
  <2>4. \A i \in Joints : \A k \in DOMAIN wire'[i] :
          /\ wire'[i][k].fate = wire[i][g[i][k]].fate
          /\ wire'[i][k].source = wire[i][g[i][k]].source
          /\ wire'[i][k].age = wire[i][g[i][k]].age
    BY <1>2, <2>3 DEF Passed, Sound
  <2>5. \A i \in Joints : \A k \in DOMAIN wire'[i] : At(i, k)' => At(i, g[i][k])
    BY <1>2, <2>4 DEF At
  <2>6. ASSUME NEW i \in Joints, NEW k \in DOMAIN wire'[i], At(i, k)'
        PROVE  /\ discovery.state = "WAITING" /\ Sound(wire'[i][k])
               /\ discovery.age <= wire'[i][k].age
    <3>1. g[i][k] \in DOMAIN wire[i] /\ At(i, g[i][k])
      BY <1>2, <2>5, <2>6
    <3> QED
      BY <2>2, <2>4, <3>1 DEF Sound
  <2>7. ASSUME NEW i \in Joints, NEW l \in Joints, NEW k \in DOMAIN wire'[i],
               NEW n \in DOMAIN wire'[l], At(i, k)', At(l, n)'
        PROVE  i = l /\ k = n
    <3>1. At(i, g[i][k]) /\ At(l, g[l][n]) /\ g[i][k] \in DOMAIN wire[i]
          /\ g[l][n] \in DOMAIN wire[l]
      BY <1>2, <2>5, <2>7
    <3>2. i = l /\ g[i][k] = g[l][n]
      BY <2>2, <3>1
    <3> QED
      BY <1>1, <1>2, <3>2, ThinsApart
  <2>8. \A i \in Pending : \A k \in DOMAIN wire'[i] : wire'[i][k].source \notin ModeSources
    <3> SUFFICES ASSUME NEW i \in Pending, NEW k \in DOMAIN wire'[i]
                 PROVE  wire'[i][k].source \notin ModeSources
      OBVIOUS
    <3>1. i \in Joints
      BY DEF IInv, TypeOK, DiscoveryState, Pending
    <3> QED
      BY <1>2, <2>2, <2>4, <3>1
  <2> QED
    BY <1>6, <2>1, <2>6, <2>7, <2>8 DEF BootOK
<1> QED
  BY <1>2, <1>3, <1>4, <1>5, <1>6

\* An answer that changes only the tables.
LEMMA QuietArrival ==
  ASSUME IInv, NEW j, Arrives(j), NEW D, Drops(D), Explains(D, j),
         UNCHANGED <<discovery, results, switch, action, turn, drive>>,
         TablesType', TablesOK', Tombstones' \subseteq Tombstones
  PROVE  IInv'
<1>1. /\ discovery' = discovery /\ verified' = verified /\ complete' = complete
      /\ observed' = observed /\ switch' = switch /\ action' = action /\ turn' = turn
      /\ drive' = drive
  BY DEF results
<1>2. /\ TypeOK /\ Traffic /\ Course
  BY DEF IInv
<1>3. /\ WireType' /\ WireOK' /\ AnsweredOK' /\ OrderOK' /\ Twins' /\ Covered'
      /\ NoThree' /\ Locked' /\ ReadTrue' /\ BootOK'
  BY <1>1, ArrivedTraffic
<1>4. Fresh' /\ CurrentOK'
  BY <1>1, <1>2, ArrivedFresh DEF TypeOK, Traffic
<1>5. Still(Shift(j)) /\ Thins(Shift(j))
  BY <1>2, ArrivedIs DEF TypeOK, Traffic
<1>6. ModeTrue'
  BY <1>1, <1>2, <1>5, StillMode DEF Traffic
<1>7. Pending' = Pending /\ (Requesting' <=> Requesting)
  BY <1>1 DEF Pending, Requesting
<1>8. VerifiedOK'
  BY <1>1, <1>2, <1>7 DEF Traffic, VerifiedOK
<1>9. ReadWhilePending'
  <2>1. \A i \in Joints : \A k \in DOMAIN wire'[i] :
          /\ Shift(j)[i][k] \in DOMAIN wire[i]
          /\ ModeRead(wire'[i][k]) => ModeRead(wire[i][Shift(j)[i][k]])
    BY <1>5 DEF Thins, Places, Kin, ModeRead, Alike
  <2> QED
    BY <1>1, <1>2, <2>1 DEF Traffic, ReadWhilePending
<1>10. TypeOK'
  BY <1>1, <1>2, <1>3 DEF TypeOK, ResultsType, TurnType, DriveType
<1>11. Course'
  <2>1. ActiveOK'
    <3>1. Blocks' => Blocks
      BY DEF Blocks
    <3> QED
      BY <1>1, <1>2, <1>7, <3>1 DEF Course, ActiveOK
  <2>2. SwitchOK'
    BY <1>1, <1>2 DEF Course, SwitchOK
  <2>3. ProgressOK'
    BY <1>1, <1>2, <1>7 DEF Course, ProgressOK
  <2>4. TimeOK'
    BY <1>1, <1>2, <1>7 DEF Course, TimeOK
  <2> QED
    BY <2>1, <2>2, <2>3, <2>4 DEF Course
<1> QED
  BY <1>3, <1>4, <1>6, <1>8, <1>9, <1>10, <1>11 DEF IInv, Traffic

\* The entry of the discovery is the entry of its one request.
LEMMA OneEntry ==
  ASSUME TablesType, TablesOK, Fresh, NEW a \in Alive(expectations), ~a.quarantined,
         a.source = "DISCOVERY",
         Alive(expectations') \subseteq Alive(expectations) \ {a}
  PROVE  /\ discovery.state = "WAITING" /\ IsAsked(a.joint, a, discovery)
         /\ \A e \in Alive(expectations') : ~e.quarantined => e.source # "DISCOVERY"
<1>1. discovery.state = "WAITING" /\ IsAsked(a.joint, a, discovery)
  BY DEF Fresh
<1>2. ASSUME NEW e \in Alive(expectations'), ~e.quarantined, e.source = "DISCOVERY"
      PROVE  FALSE
  <2>1. e \in Alive(expectations) /\ e # a
    OBVIOUS
  <2>2. IsAsked(e.joint, e, discovery)
    BY <1>2, <2>1 DEF Fresh
  <2>3. Same(e, a) /\ e.source = a.source
    BY <1>1, <1>2, <2>2 DEF IsAsked, Same
  <2>4. PICK m \in 1..Len(expectations) : e = expectations[m]
    BY <2>1, Holds DEF Alive, TablesType
  <2>5. PICK n \in 1..Len(expectations) : a = expectations[n]
    BY Holds DEF Alive, TablesType
  <2>6. m = n
    BY <2>3, <2>4, <2>5 DEF TablesOK, Unique, TablesType
  <2> QED
    BY <2>1, <2>4, <2>5, <2>6
<1> QED
  BY <1>1, <1>2

\* The answer to the readback of a mode switch: it is the answer to the current one
\* or that of a discovery, and in both cases it tells the mode of the drive.
LEMMA ReadbackIs ==
  ASSUME IInv, NEW j, Arrives(j), NEW a \in Alive(expectations), a.source = "MODE_READ",
         ~a.quarantined, Of(a, j, wire[j][1]), switch.joint = j
  PROVE  /\ wire[j][1].mode = drive[j]
         /\ \A i \in Joints : \A k \in DOMAIN wire'[i] :
              Own(wire'[i][k]) => wire'[i][k].source # "MODE_READ"
         /\ \A k \in DOMAIN wire'[j] : wire'[j][k].op # "write"
<1> DEFINE h == wire[j][1]
           g == Shift(j)
<1>1. /\ WireType /\ TablesType /\ TablesOK /\ WireOK /\ OrderOK /\ Twins /\ Fresh
      /\ CurrentOK /\ ReadTrue
  BY DEF IInv, TypeOK, Traffic
<1> HIDE DEF g
<1>2. /\ 1 \in DOMAIN wire[j] /\ h \in Item /\ j \in Joints /\ h.answered
      /\ \A i \in Joints : \A k \in DOMAIN wire'[i] :
           /\ g[i][k] \in DOMAIN wire[i] /\ g[i][k] \in Nat
           /\ i = j => 1 < g[i][k]
           /\ Passed(wire'[i][k], wire[i][g[i][k]], i, j)
  <2>1. \A i \in Joints : \A k \in DOMAIN wire'[i] :
          LET n == Shift(j)[i][k]
          IN /\ n \in DOMAIN wire[i] /\ n \in Nat
             /\ i = j => n = k + 1 /\ 1 < n
             /\ Passed(wire'[i][k], wire[i][n], i, j)
    BY <1>1, ArrivedIs
  <2>2. 1 \in DOMAIN wire[j] /\ h \in Item
    BY <1>1, ArrivedIs
  <2> QED
    BY <2>1, <2>2 DEF Arrives, g
<1>3. a.op = "read" /\ a.register = "mode"
  <2>1. a \in ToSet(expectations) /\ a \in TableEntry
    BY <1>1, EntryFacts DEF Alive
  <2>2. Shaped(a)
    BY <1>1, <2>1 DEF TablesOK, TableOK
  <2> QED
    BY <2>1, <2>2 DEF Shaped, TableEntry, Ops, ModeSources
<1>4. h.op = "read" /\ h.register = "mode" /\ Alike(a, h) /\ a.joint = j
  BY <1>3 DEF Of, Alike
<1>5. h.fate # "stale"
  BY <1>1, <1>2, <1>4 DEF Fresh
<1>6. ModeRead(h) \/ (h.source = "MODE_READ" /\ Own(h))
  <2>1. Shaped(h) /\ (h.source \in ModeSources => Sound(h)) /\ h.source \in Sequence
        /\ h.fate \in Fates
    BY <1>1, <1>2 DEF WireOK, Item
  <2> QED
    BY <1>4, <1>5, <2>1 DEF Shaped, ModeRead, Own, Sound, Fates, Sequence, ModeSources
<1>7. h.mode = drive[j]
  BY <1>1, <1>2, <1>6 DEF ReadTrue
<1>8. ASSUME NEW i \in Joints, NEW k \in DOMAIN wire'[i], Own(wire'[i][k]),
             wire'[i][k].source = "MODE_READ"
      PROVE  FALSE
  <2> DEFINE n == g[i][k]
             x == wire[i][n]
  <2>1. n \in DOMAIN wire[i] /\ Passed(wire'[i][k], x, i, j) /\ n \in Nat /\ (i = j => 1 < n)
    BY <1>2
  <2>2. x.source = "MODE_READ" /\ Own(x)
    BY <1>8, <2>1 DEF Passed, Own
  <2>3. i = j /\ 1 < n
    BY <1>1, <2>1, <2>2 DEF CurrentOK
  <2>4. Alike(x, h)
    <3>1. Shaped(x) /\ x.op \in Ops
      BY <1>1, <2>1, WireFacts DEF WireOK, WireType, Item
    <3> QED
      BY <1>4, <2>2, <3>1 DEF Shaped, Alike, ModeSources, Ops
  <2> HIDE DEF n
  <2>5. CASE Sound(h)
    <3>1. Alike(h, x) /\ Sound(x)
      BY <2>2, <2>4 DEF Alike, Sound, Own
    <3>2. x.source = "DISCOVERY"
      BY <1>1, <1>2, <2>1, <2>3, <2>5, <3>1 DEF Twins
    <3> QED
      BY <2>2, <3>2
  <2>6. CASE h.fate = "orphan"
    BY <1>8, <2>1, <2>3, <2>4, <2>6 DEF Passed, Own
  <2> QED
    BY <2>5, <2>6 DEF Sound
<1>9. ASSUME NEW k \in DOMAIN wire'[j]
      PROVE  wire'[j][k].op # "write"
  <2>1. /\ g[j][k] \in DOMAIN wire[j] /\ 1 < g[j][k]
        /\ wire'[j][k].op = wire[j][g[j][k]].op
    BY <1>2 DEF Passed, Alike
  <2>2. Shaped(wire[j][g[j][k]])
    BY <1>1, <1>2, <2>1 DEF WireOK
  <2>3. ModeRead(h) => wire[j][g[j][k]].source \notin ModeSources
    BY <1>1, <1>2, <2>1 DEF OrderOK
  <2>4. h.source = "MODE_READ" /\ Own(h) => wire[j][g[j][k]].op # "write"
    BY <1>1, <1>2, <2>1 DEF OrderOK
  <2> QED
    BY <1>6, <2>1, <2>2, <2>3, <2>4 DEF Shaped, ModeSources
<1> QED
  BY <1>7, <1>8, <1>9

\* What a result adds to what is verified, for the invariant.
Verifies(j, r) ==
  /\ \A i \in Joints : verified[i] \subseteq verified'[i] /\ verified'[i] \subseteq Fields
  /\ \A i \in Joints : i # j => verified'[i] = verified[i] /\ observed'[i] = observed[i]
  /\ verified'[j] \subseteq verified[j] \cup {r}
  /\ complete \subseteq complete'
  /\ \A i \in complete' : i \in complete \/ (i = j /\ verified'[j] = Fields)

LEMMA ReadbackStep ==
  ASSUME IInv, NEW j, Arrives(j), NEW a \in Alive(expectations), a.source = "MODE_READ",
         ~a.quarantined, Of(a, j, wire[j][1]), Drops({a}), TablesType', TablesOK',
         Tombstones' \subseteq Tombstones,
         switch.state = "READ_WAITING", switch.joint = j,
         AcceptReadback(j, wire[j][1].mode),
         UNCHANGED <<discovery, action, turn, drive>>
  PROVE  IInv'
<1> DEFINE h == wire[j][1]
           g == Shift(j)
           m == h.mode
           next == First(switch.mask, j + 1)
<1>1. TypeOK /\ Traffic /\ Course /\ j \in Joints
  BY DEF IInv, Arrives
<1>2. /\ h.mode = drive[j]
      /\ \A i \in Joints : \A k \in DOMAIN wire'[i] :
           Own(wire'[i][k]) => wire'[i][k].source # "MODE_READ"
      /\ \A k \in DOMAIN wire'[j] : wire'[j][k].op # "write"
  BY ReadbackIs
<1>3. /\ discovery' = discovery /\ action' = action /\ turn' = turn /\ drive' = drive
  OBVIOUS
<1>4. Still(g) /\ Thins(g) /\ h \in Item /\ 1 \in DOMAIN wire[j]
  BY <1>1, ArrivedIs DEF TypeOK, Traffic
<1> HIDE DEF g
<1>5. /\ switch \in SwitchState /\ switch.mask \subseteq Joints /\ switch.mode \in Modes
      /\ switch.joint \in switch.mask
  <2>1. switch \in SwitchState
    BY <1>1 DEF TypeOK
  <2>2. switch.joint \in switch.mask /\ switch.mode \in Modes
    BY <1>1 DEF Course, SwitchOK, Switching
  <2> QED
    BY <2>1, <2>2 DEF SwitchState
<1>6. /\ verified \in [Joints -> SUBSET Fields] /\ complete \subseteq Joints
      /\ observed \in [Joints -> Values]
  BY <1>1 DEF TypeOK, ResultsType
<1>7. "mode" \in Fields /\ FinalRegister # "mode"
  BY Numbers
<1>8. next \in 1..(N + 1) /\ (next <= N => next \in switch.mask)
  <2>1. j + 1 \in Nat
    BY <1>1, Counts DEF Joints
  <2> QED
    BY <1>5, <2>1, FirstIs
<1> HIDE DEF next
<1>9. /\ switch' \in SwitchState /\ switch'.state \in {"FAILED", "COMPLETE", "READ_READY"}
      /\ switch'.age = 0 /\ switch'.mode = switch.mode /\ switch'.mask = switch.mask
      /\ switch'.state = "READ_READY" => switch'.joint \in switch'.mask
  <2>1. 0 \in 0..Timeout /\ 0 \in Nat
    BY Counts
  <2>2. CASE m # switch.mode
    <3>1. switch' = [switch EXCEPT !.state = "FAILED", !.age = 0]
      BY <2>2 DEF AcceptReadback
    <3> QED
      BY <1>5, <2>1, <3>1 DEF SwitchState
  <2>3. CASE m = switch.mode
    <3> DEFINE st == IF next > N THEN "COMPLETE" ELSE "READ_READY"
    <3>1. switch' = [switch EXCEPT !.joint = next, !.attempts = 0, !.age = 0, !.state = st]
      BY <2>3 DEF AcceptReadback, next
    <3>2. st \in {"COMPLETE", "READ_READY"} /\ (st = "READ_READY" => next \in switch.mask)
      BY <1>8, Counts
    <3> HIDE DEF st
    <3>3. st \in Switching \cup {"IDLE", "FAILED", "COMPLETE"}
      BY <3>2 DEF Switching
    <3> QED
      BY <1>5, <1>8, <2>1, <3>1, <3>2, <3>3 DEF SwitchState
  <2> QED
    BY <2>2, <2>3
<1>10. /\ ResultsType' /\ Verifies(j, "mode")
       /\ "mode" \in verified'[j] => observed'[j] = drive[j]
                                       \/ ("mode" \in verified[j] /\ observed'[j] = observed[j])
  <2>1. CASE m # switch.mode
    <3>1. verified' = verified /\ observed' = observed /\ complete' = complete
      BY <2>1 DEF AcceptReadback, results
    <3> QED
      BY <1>6, <3>1 DEF ResultsType, Verifies
  <2>2. CASE m = switch.mode
    <3>1. /\ observed' = [observed EXCEPT ![j] = m]
          /\ verified' = [verified EXCEPT ![j] = @ \cup {"mode"}]
          /\ complete' = IF verified'[j] = Fields THEN complete \cup {j} ELSE complete
      BY <2>2 DEF AcceptReadback
    <3>2. m \in Values /\ m = drive[j]
      BY <1>2, <1>5, <2>2 DEF Values
    <3> HIDE DEF m
    <3>3. /\ verified'[j] = verified[j] \cup {"mode"} /\ observed'[j] = m
          /\ \A i \in Joints : i # j => verified'[i] = verified[i] /\ observed'[i] = observed[i]
      BY <1>1, <1>6, <3>1
    <3>4. verified' \in [Joints -> SUBSET Fields] /\ observed' \in [Joints -> Values]
      BY <1>1, <1>6, <1>7, <3>1, <3>2
    <3>5. /\ complete \subseteq complete' /\ complete' \subseteq Joints
          /\ \A i \in complete' : i \in complete \/ (i = j /\ verified'[j] = Fields)
      BY <1>1, <1>6, <3>1
    <3>6. \A i \in Joints : verified[i] \subseteq verified'[i] /\ verified'[i] \subseteq Fields
      BY <1>6, <3>3, <3>4
    <3>7. Verifies(j, "mode")
      BY <3>3, <3>5, <3>6 DEF Verifies
    <3> QED
      BY <3>2, <3>3, <3>4, <3>5, <3>7 DEF ResultsType
  <2> QED
    BY <2>1, <2>2
<1>11. /\ WireType' /\ WireOK' /\ AnsweredOK' /\ OrderOK' /\ Twins' /\ Covered'
       /\ NoThree' /\ Locked' /\ ReadTrue' /\ BootOK'
  <2> DEFINE D == {a}
  <2>1. Drops(D) /\ Explains(D, j)
    BY DEF Explains
  <2> HIDE DEF D
  <2> QED
    BY <1>3, <2>1, ArrivedTraffic
<1>12. Fresh' /\ CurrentOK'
  <2> DEFINE D == {a}
  <2>1. Drops(D)
    OBVIOUS
  <2> HIDE DEF D
  <2>2. switch'.state # "WRITING"
    BY <1>9
  <2> QED
    BY <1>1, <1>2, <1>3, <2>1, <2>2, ArrivedFresh DEF TypeOK, Traffic
<1>13. Pending' = Pending /\ (Requesting' <=> Requesting) /\ Pending \subseteq Joints
  BY <1>1, <1>3 DEF Pending, Requesting, TypeOK, DiscoveryState
<1>14. \A i \in Joints : FinalRegister \in verified'[i] <=> FinalRegister \in verified[i]
  BY <1>7, <1>10 DEF Verifies
<1>15. VerifiedOK'
  <2>1. /\ \A i \in complete : verified[i] = Fields
        /\ Requesting => discovery.joint \in discovery.target
        /\ \A i \in Pending : FinalRegister \notin verified[i]
    BY <1>1 DEF Traffic, VerifiedOK
  <2>2. \A i \in complete' : verified'[i] = Fields
    <3> SUFFICES ASSUME NEW i \in complete', i \in complete
                 PROVE  verified'[i] = Fields
      BY <1>10 DEF Verifies
    <3>1. i \in Joints
      BY <1>6
    <3>2. Fields \subseteq verified'[i] /\ verified'[i] \subseteq Fields
      BY <1>10, <2>1, <3>1 DEF Verifies
    <3> QED
      BY <3>2
  <2> QED
    BY <1>3, <1>13, <1>14, <2>1, <2>2 DEF VerifiedOK
<1>16. ReadWhilePending'
  <2>1. \A i \in Joints : \A k \in DOMAIN wire'[i] :
          g[i][k] \in DOMAIN wire[i] /\ (ModeRead(wire'[i][k]) => ModeRead(wire[i][g[i][k]]))
    BY <1>4 DEF Thins, Places, Kin, ModeRead, Alike
  <2> QED
    BY <1>1, <1>14, <2>1 DEF Traffic, ReadWhilePending
<1>17. ModeTrue'
  <2> SUFFICES ASSUME NEW i \in Joints, "mode" \in verified'[i]
               PROVE  /\ observed'[i] = drive[i]
                      /\ \A k \in DOMAIN wire'[i] :
                           wire'[i][k].op = "write" => wire'[i][k].answered
    BY <1>3 DEF ModeTrue
  <2>1. "mode" \in verified[i] => observed[i] = drive[i]
    BY <1>1 DEF Traffic, ModeTrue
  <2>2. CASE i = j
    BY <1>2, <1>10, <2>1, <2>2
  <2>3. CASE i # j
    <3>1. "mode" \in verified[i] /\ observed'[i] = observed[i]
      BY <1>10, <2>3 DEF Verifies
    <3>2. \A k \in DOMAIN wire[i] : wire[i][k].op = "write" => wire[i][k].answered
      BY <1>1, <3>1 DEF Traffic, ModeTrue
    <3>3. \A k \in DOMAIN wire'[i] :
            /\ g[i][k] \in DOMAIN wire[i] /\ wire'[i][k].op = wire[i][g[i][k]].op
            /\ wire'[i][k].answered = wire[i][g[i][k]].answered
      BY <1>4 DEF Thins, Still, Places, Kin, Alike
    <3> QED
      BY <2>1, <3>1, <3>2, <3>3
  <2> QED
    BY <2>2, <2>3
<1>18. TypeOK'
  BY <1>1, <1>3, <1>9, <1>10, <1>11 DEF TypeOK, TurnType, DriveType
<1>19. ActiveOK'
  <2>1. Blocks' => Blocks
    BY DEF Blocks
  <2> QED
    BY <1>1, <1>3, <1>13, <2>1 DEF Course, ActiveOK
<1>20. SwitchOK'
  <2>1. action.kind = "MODE" => \A i \in switch.mask : FinalRegister \in verified[i]
    BY <1>1 DEF Course, SwitchOK, Switching
  <2>2. switch'.state \in Switching => switch'.state = "READ_READY"
    BY <1>9 DEF Switching
  <2>3. action.kind # "IDLE" => action.mask # {} /\ action.mode \in Modes
    BY <1>1 DEF Course, SwitchOK
  <2> QED
    BY <1>3, <1>5, <1>9, <1>14, <2>1, <2>2, <2>3 DEF SwitchOK
<1>21. ProgressOK'
  <2> SUFFICES ASSUME action.kind = "DISCOVERY"
               PROVE  ProgressOK'
    BY <1>3 DEF ProgressOK
  <2>1. complete \subseteq complete' /\ \A i \in Joints : verified[i] \subseteq verified'[i]
    BY <1>10 DEF Verifies
  <2>2. Requesting => discovery.joint \in Joints
    BY <1>1, Reading DEF TypeOK, Traffic
  <2> QED
    BY <1>1, <1>3, <1>13, <2>1, <2>2 DEF Course, ProgressOK
<1>22. TimeOK'
  BY <1>1, <1>3, <1>13 DEF Course, TimeOK
<1> QED
  BY <1>11, <1>12, <1>15, <1>16, <1>17, <1>18, <1>19, <1>20, <1>21, <1>22
     DEF IInv, Traffic, Course

\* The cursor of a discovery moves on.
LEMMA AdvancedIs ==
  ASSUME discovery \in DiscoveryState, VerifiedOK, Requesting
  PROVE  /\ Advanced \in DiscoveryState /\ Advanced.state \in {"READY", "COMPLETE"}
         /\ Advanced.target = discovery.target
         /\ Advanced.attempts = 0 /\ Advanced.age = 0
         /\ Advanced.active = (discovery.active /\ Advanced.state = "READY")
         /\ Advanced.state = "READY" => /\ Advanced.joint \in discovery.target
                                        /\ Advanced.joint \in 1..N
         /\ discovery.register # Len(Registers) =>
              /\ Advanced.state = "READY" /\ Advanced.joint = discovery.joint
              /\ Advanced.register = discovery.register + 1
              /\ discovery.register + 1 <= Len(Registers)
         /\ discovery.register = Len(Registers) =>
              /\ Advanced.register = 1
              /\ Advanced.state = "READY" =>
                   /\ discovery.joint < Advanced.joint
                   /\ \A i \in discovery.target : i > discovery.joint => i >= Advanced.joint
              /\ Advanced.state = "COMPLETE" =>
                   \A i \in discovery.target : i <= discovery.joint
<1> DEFINE last == discovery.register = Len(Registers)
           next == IF last THEN First(discovery.target, discovery.joint + 1)
                           ELSE discovery.joint
           reg == IF last THEN 1 ELSE discovery.register + 1
           st == IF next > N THEN "COMPLETE" ELSE "READY"
           act == discovery.active /\ next <= N
           d == Advanced
<1>1. d = [discovery EXCEPT !.register = reg, !.joint = next, !.attempts = 0, !.age = 0,
                            !.state = st, !.active = act]
  BY DEF Advanced
<1>2. /\ discovery.register \in 1..Len(Registers) /\ discovery.target \subseteq Joints
      /\ discovery.joint \in 1..N /\ discovery.active \in BOOLEAN
      /\ discovery.joint \in discovery.target
  BY Reading DEF VerifiedOK
<1>3. N \in Nat /\ Timeout \in Nat /\ Len(Registers) \in Nat /\ Len(Registers) >= 1
  BY Numbers
<1>4. /\ last => /\ next \in 1..(N + 1) /\ (next <= N => next \in discovery.target)
                 /\ next <= N => next >= discovery.joint + 1
                 /\ \A i \in discovery.target : i >= discovery.joint + 1 => next <= i
      /\ ~last => next = discovery.joint
  <2>1. discovery.joint + 1 \in Nat
    BY <1>2, <1>3
  <2> QED
    BY <1>2, <2>1, FirstIs
<1> HIDE DEF next
<1>5. next \in 1..(N + 1) /\ (next <= N => next \in discovery.target /\ next \in 1..N)
  BY <1>2, <1>3, <1>4
<1>6. reg \in 1..Len(Registers) /\ (~last => discovery.register + 1 <= Len(Registers))
  BY <1>2, <1>3
<1>7. /\ st \in {"READY", "COMPLETE"} /\ (st = "READY" <=> next <= N)
      /\ (st = "COMPLETE" <=> next = N + 1)
      /\ act = (discovery.active /\ st = "READY") /\ act \in BOOLEAN
  BY <1>3, <1>5
<1>8. \A i \in discovery.target : i \in Nat /\ i <= N
  BY <1>2, <1>3 DEF Joints
<1>9. last => /\ next <= N => discovery.joint < next
              /\ \A i \in discovery.target : i > discovery.joint => i >= next
              /\ next = N + 1 => \A i \in discovery.target : i <= discovery.joint
  BY <1>2, <1>3, <1>4, <1>5, <1>8
<1> HIDE DEF reg, st, act, d
<1>10. /\ d \in DiscoveryState /\ d.register = reg /\ d.joint = next /\ d.attempts = 0
       /\ d.age = 0 /\ d.state = st /\ d.active = act /\ d.target = discovery.target
  <2>1. /\ reg \in 1..Len(Registers) /\ next \in 1..(N + 1) /\ act \in BOOLEAN
        /\ st \in {"READY", "WAITING", "FAILED", "COMPLETE"}
        /\ 0 \in Nat /\ 0 \in 0..Timeout
    BY <1>3, <1>5, <1>6, <1>7
  <2>2. discovery \in DiscoveryState
    OBVIOUS
  <2>3. d = [state |-> st, target |-> discovery.target, joint |-> next, register |-> reg,
             attempts |-> 0, age |-> 0, active |-> act]
    BY <1>1, <2>2 DEF DiscoveryState
  <2>4. discovery.target \in SUBSET Joints
    BY <2>2 DEF DiscoveryState
  <2> QED
    BY <2>1, <2>3, <2>4 DEF DiscoveryState
<1>11. /\ last => reg = 1
       /\ ~last => reg = discovery.register + 1 /\ next = discovery.joint /\ next <= N
  BY <1>2, <1>3, <1>4 DEF reg
<1> QED
  BY <1>5, <1>6, <1>7, <1>9, <1>10, <1>11 DEF d

\* The answer that a discovery takes was sent by a discovery, and nothing current is left.
LEMMA DiscoveredIs ==
  ASSUME IInv, NEW j, Arrives(j), NEW a \in Alive(expectations), a.source = "DISCOVERY",
         ~a.quarantined, Of(a, j, wire[j][1]), Drops({a}), a \notin Alive(expectations'),
         ~(Own(wire[j][1]) /\ wire[j][1].source = "MODE_READ")
  PROVE  /\ discovery.state = "WAITING" /\ discovery.joint = j
         /\ wire[j][1].op = "read" /\ wire[j][1].register = Registers[discovery.register]
         /\ wire[j][1].source = "DISCOVERY"
         /\ \A e \in Alive(expectations') : ~e.quarantined => e.source # "DISCOVERY"
         /\ \A i \in Joints : \A k \in DOMAIN wire'[i] :
              Own(wire'[i][k]) => wire'[i][k].source # "DISCOVERY"
<1> DEFINE h == wire[j][1]
           g == Shift(j)
<1>1. /\ WireType /\ TablesType /\ TablesOK /\ WireOK /\ OrderOK /\ Twins /\ Fresh
      /\ CurrentOK
  BY DEF IInv, TypeOK, Traffic
<1>2. /\ 1 \in DOMAIN wire[j] /\ h \in Item /\ j \in Joints
      /\ \A i \in Joints : \A k \in DOMAIN wire'[i] :
           LET n == Shift(j)[i][k]
           IN /\ n \in DOMAIN wire[i] /\ n \in Nat
              /\ i = j => 1 < n
              /\ Passed(wire'[i][k], wire[i][n], i, j)
  BY <1>1, ArrivedIs DEF Arrives
<1>3. Alive(expectations') \subseteq Alive(expectations) \ {a}
  BY DEF Drops
<1>4. /\ discovery.state = "WAITING" /\ IsAsked(a.joint, a, discovery)
      /\ \A e \in Alive(expectations') : ~e.quarantined => e.source # "DISCOVERY"
  BY <1>1, <1>3, OneEntry
<1>5. /\ a.joint = j /\ discovery.joint = j
      /\ h.op = "read" /\ h.register = Registers[discovery.register]
  BY <1>4 DEF IsAsked, Of, Alike
<1>6. h.fate # "stale"
  <2>1. Alike(a, h) /\ a.joint = j
    BY DEF Of
  <2> QED
    BY <1>1, <1>2, <2>1 DEF Fresh
<1>7. h.source = "DISCOVERY"
  <2>1. Shaped(h) /\ (h.source \in ModeSources => Sound(h)) /\ h.source \in Sequence
        /\ h.fate \in Fates
    BY <1>1, <1>2 DEF WireOK, Item
  <2> QED
    BY <1>5, <1>6, <2>1 DEF Shaped, Own, Sound, Fates, Sequence, ModeSources
<1>8. ASSUME NEW i \in Joints, NEW k \in DOMAIN wire'[i], Own(wire'[i][k]),
             wire'[i][k].source = "DISCOVERY"
      PROVE  FALSE
  <2> DEFINE n == g[i][k]
             x == wire[i][n]
  <2>1. n \in DOMAIN wire[i] /\ Passed(wire'[i][k], x, i, j) /\ n \in Nat /\ (i = j => 1 < n)
    BY <1>2
  <2> HIDE DEF n
  <2>2. x.source = "DISCOVERY" /\ Own(x)
    BY <1>8, <2>1 DEF Passed, Own
  <2>3. IsAsked(i, x, discovery)
    BY <1>1, <2>1, <2>2 DEF CurrentOK
  <2>4. i = j /\ 1 < n /\ Alike(x, h)
    BY <1>5, <2>1, <2>3 DEF IsAsked, Alike
  <2>5. CASE Own(h)
    BY <1>1, <1>2, <1>7, <2>1, <2>2, <2>4, <2>5 DEF OrderOK
  <2>6. CASE h.fate = "orphan"
    BY <1>8, <2>1, <2>4, <2>6 DEF Passed, Own
  <2> QED
    BY <1>2, <1>6, <2>5, <2>6 DEF Own, Fates, Item
<1> QED
  BY <1>4, <1>5, <1>7, <1>8

\* What a discovery does with the answer it takes.
LEMMA DiscoveredDoes ==
  ASSUME IInv, NEW j \in Joints, NEW m \in Values, wire[j] # <<>>,
         discovery.state = "WAITING", discovery.joint = j,
         wire[j][1].op = "read", wire[j][1].register = Registers[discovery.register],
         AcceptDiscovered(j, m)
  PROVE  LET r == Registers[discovery.register]
         IN /\ ResultsType' /\ Verifies(j, r)
            /\ observed'[j] = IF r = "mode" THEN m ELSE observed[j]
            /\ \/ /\ discovery' = [discovery EXCEPT !.state = "FAILED", !.age = 0,
                                                    !.active = FALSE]
                  /\ verified' = verified /\ complete' = complete
               \/ /\ discovery' = Advanced
                  /\ verified'[j] = verified[j] \cup {r}
                  /\ discovery.register = Len(Registers) /\ verified'[j] = Fields =>
                       j \in complete'
<1> DEFINE r == Registers[discovery.register]
           asked == [joint |-> discovery.joint, op |-> "read", register |-> r]
<1>1. /\ verified \in [Joints -> SUBSET Fields] /\ complete \subseteq Joints
      /\ observed \in [Joints -> Values]
  BY DEF IInv, TypeOK, ResultsType
<1>2. r \in Fields
  <2>1. discovery.register \in 1..Len(Registers)
    BY DEF IInv, TypeOK, DiscoveryState
  <2> QED
    BY <2>1, Numbers
<1>3. Same(Answer(j), asked)
  <2>1. Head(wire[j]) = wire[j][1]
    <3>1. wire[j] \in Seq(Item)
      BY DEF IInv, TypeOK, WireType
    <3> QED
      BY <3>1, HeadTailProperties
  <2> QED
    BY <2>1 DEF Answer, Same
<1>4. /\ observed' = IF r = "mode" THEN [observed EXCEPT ![j] = m] ELSE observed
      /\ IF m = "BAD"
           THEN /\ discovery' = [discovery EXCEPT !.state = "FAILED", !.age = 0,
                                                  !.active = FALSE]
                /\ UNCHANGED <<verified, complete>>
           ELSE /\ verified' = [verified EXCEPT ![j] = @ \cup {r}]
                /\ complete' = IF discovery.register = Len(Registers) /\ verified'[j] = Fields
                                 THEN complete \cup {j} ELSE complete
                /\ discovery' = Advanced
  BY <1>3 DEF AcceptDiscovered
<1> HIDE DEF r, asked
<1>5. /\ observed' \in [Joints -> Values]
      /\ observed'[j] = IF r = "mode" THEN m ELSE observed[j]
      /\ \A i \in Joints : i # j => observed'[i] = observed[i]
  BY <1>1, <1>4
<1>6. CASE m = "BAD"
  <2>1. /\ verified' = verified /\ complete' = complete
        /\ discovery' = [discovery EXCEPT !.state = "FAILED", !.age = 0, !.active = FALSE]
    BY <1>4, <1>6
  <2>2. ResultsType' /\ Verifies(j, r)
    BY <1>1, <1>5, <2>1 DEF ResultsType, Verifies
  <2> QED
    BY <1>5, <2>1, <2>2 DEF r
<1>7. CASE m # "BAD"
  <2>1. /\ verified' = [verified EXCEPT ![j] = @ \cup {r}]
        /\ complete' = IF discovery.register = Len(Registers) /\ verified'[j] = Fields
                         THEN complete \cup {j} ELSE complete
        /\ discovery' = Advanced
    BY <1>4, <1>7
  <2>2. /\ verified' \in [Joints -> SUBSET Fields] /\ verified'[j] = verified[j] \cup {r}
        /\ \A i \in Joints : i # j => verified'[i] = verified[i]
    BY <1>1, <1>2, <2>1
  <2>3. /\ complete \subseteq complete' /\ complete' \subseteq Joints
        /\ \A i \in complete' : i \in complete \/ (i = j /\ verified'[j] = Fields)
        /\ discovery.register = Len(Registers) /\ verified'[j] = Fields => j \in complete'
    BY <1>1, <2>1
  <2>4. \A i \in Joints : verified[i] \subseteq verified'[i] /\ verified'[i] \subseteq Fields
    BY <1>1, <2>2
  <2>5. ResultsType' /\ Verifies(j, r)
    BY <1>5, <2>2, <2>3, <2>4 DEF ResultsType, Verifies
  <2> QED
    BY <1>5, <2>1, <2>2, <2>3, <2>5 DEF r
<1> QED
  BY <1>6, <1>7

\* Where the discovery is then.
LEMMA CursorIs ==
  ASSUME TypeOK, VerifiedOK, discovery.state = "WAITING",
         \/ discovery' = [discovery EXCEPT !.state = "FAILED", !.age = 0, !.active = FALSE]
         \/ discovery' = Advanced
  PROVE  /\ discovery' \in DiscoveryState /\ discovery'.state \in {"READY", "COMPLETE", "FAILED"}
         /\ Requesting' <=> discovery'.state = "READY"
         /\ discovery'.active <=> (discovery.active /\ discovery'.state = "READY")
         /\ discovery'.state = "READY" => discovery'.attempts = 0
         /\ Requesting' => discovery'.joint \in discovery'.target /\ discovery'.joint \in 1..N
         /\ Pending' \subseteq Pending
         /\ \A i \in Pending' : Registers[discovery.register] = FinalRegister =>
              i # discovery.joint
         /\ discovery'.state # "FAILED" => discovery' = Advanced
<1>1. /\ Requesting /\ discovery \in DiscoveryState
      /\ discovery.register \in 1..Len(Registers) /\ discovery.target \subseteq Joints
      /\ discovery.joint \in 1..N
  BY Reading DEF Requesting, TypeOK
<1>2. CASE discovery' = [discovery EXCEPT !.state = "FAILED", !.age = 0, !.active = FALSE]
  <2>1. 0 \in 0..Timeout
    BY Counts
  <2>2. discovery' \in DiscoveryState /\ discovery'.state = "FAILED" /\ discovery'.active = FALSE
    BY <1>1, <1>2, <2>1 DEF DiscoveryState
  <2> QED
    BY <2>2 DEF Requesting, Pending
<1>3. CASE discovery' = Advanced
  <2>1. /\ discovery' \in DiscoveryState /\ discovery'.state \in {"READY", "COMPLETE"}
        /\ discovery'.target = discovery.target /\ discovery'.attempts = 0
        /\ discovery'.active = (discovery.active /\ discovery'.state = "READY")
        /\ discovery'.state = "READY" =>
             discovery'.joint \in discovery.target /\ discovery'.joint \in 1..N
        /\ discovery.register # Len(Registers) =>
             discovery'.state = "READY" /\ discovery'.joint = discovery.joint
        /\ discovery.register = Len(Registers) /\ discovery'.state = "READY" =>
             discovery.joint < discovery'.joint
    BY <1>1, <1>3, AdvancedIs
  <2>2. Requesting' <=> discovery'.state = "READY"
    BY <2>1 DEF Requesting
  <2>3. discovery.register # Len(Registers) => Registers[discovery.register] # FinalRegister
    <3>1. Len(Registers) \in DOMAIN Registers /\ discovery.register \in DOMAIN Registers
      BY <1>1, Numbers
    <3> QED
      BY <3>1, TimingAssumption DEF FinalRegister
  <2>4. ASSUME NEW i \in Pending'
        PROVE  /\ i \in Pending
               /\ Registers[discovery.register] = FinalRegister => i # discovery.joint
    <3>1. Requesting' /\ i \in discovery.target /\ i >= discovery'.joint /\ i \in Nat
      BY <1>1, <2>1, <2>4 DEF Pending, Joints
    <3>2. discovery'.joint \in Nat /\ discovery.joint \in Nat
      BY <1>1, <2>1, <2>2, <3>1
    <3>3. i >= discovery.joint
      BY <2>1, <2>2, <3>1, <3>2
    <3>4. discovery.register = Len(Registers) => i # discovery.joint
      BY <2>1, <2>2, <3>1, <3>2
    <3> QED
      BY <1>1, <2>3, <3>1, <3>3, <3>4 DEF Pending
  <2> QED
    BY <1>3, <2>1, <2>2, <2>4
<1> QED
  BY <1>2, <1>3

\* The answer to the request of a discovery.
LEMMA DiscoveredTraffic ==
  ASSUME IInv, NEW j, Arrives(j), NEW a \in Alive(expectations), a.source = "DISCOVERY",
         ~a.quarantined, Of(a, j, wire[j][1]), Drops({a}), a \notin Alive(expectations'),
         ~(Own(wire[j][1]) /\ wire[j][1].source = "MODE_READ"), TablesType', TablesOK',
         AcceptDiscovered(j, wire[j][1].mode),
         UNCHANGED <<switch, drive>>
  PROVE  WireType' /\ ResultsType' /\ Traffic'
<1> DEFINE h == wire[j][1]
           g == Shift(j)
           r == Registers[discovery.register]
<1>1. TypeOK /\ Traffic /\ Course /\ j \in Joints /\ wire[j] # <<>> /\ h.answered
  BY DEF IInv, Arrives
<1>2. /\ discovery.state = "WAITING" /\ discovery.joint = j
      /\ h.op = "read" /\ h.register = r /\ h.source = "DISCOVERY"
      /\ \A e \in Alive(expectations') : ~e.quarantined => e.source # "DISCOVERY"
      /\ \A i \in Joints : \A k \in DOMAIN wire'[i] :
           Own(wire'[i][k]) => wire'[i][k].source # "DISCOVERY"
  BY DiscoveredIs
<1>3. /\ Still(g) /\ Thins(g) /\ h \in Item /\ 1 \in DOMAIN wire[j]
      /\ \A i \in Joints : \A k \in DOMAIN wire'[i] :
           LET n == g[i][k]
           IN /\ n \in DOMAIN wire[i] /\ n \in Nat
              /\ i = j => 1 < n
              /\ Passed(wire'[i][k], wire[i][n], i, j)
  BY <1>1, ArrivedIs DEF TypeOK, Traffic
<1> HIDE DEF g
<1>4. /\ ResultsType' /\ Verifies(j, r)
      /\ observed'[j] = IF r = "mode" THEN h.mode ELSE observed[j]
      /\ \/ discovery' = [discovery EXCEPT !.state = "FAILED", !.age = 0, !.active = FALSE]
         \/ discovery' = Advanced
  <2>1. h.mode \in Values
    BY <1>3 DEF Item
  <2> QED
    BY <1>1, <1>2, <2>1, DiscoveredDoes
<1>5. /\ Requesting' <=> discovery'.state = "READY"
      /\ discovery'.active <=> (discovery.active /\ discovery'.state = "READY")
      /\ Requesting' => discovery'.joint \in discovery'.target
      /\ Pending' \subseteq Pending
      /\ \A i \in Pending' : r = FinalRegister => i # j
  BY <1>1, <1>2, <1>4, CursorIs DEF Traffic
<1>6. drive' = drive /\ switch' = switch
  OBVIOUS
<1>7. /\ WireType' /\ WireOK' /\ AnsweredOK' /\ OrderOK' /\ Twins' /\ Covered'
      /\ NoThree' /\ Locked' /\ ReadTrue'
  <2> DEFINE D == {a}
  <2>1. Drops(D) /\ Explains(D, j)
    BY DEF Explains
  <2> HIDE DEF D
  <2> QED
    BY <1>6, <2>1, ArrivedTraffic
<1>8. Fresh' /\ CurrentOK'
  <2> DEFINE D == {a}
  <2>1. Drops(D)
    OBVIOUS
  <2> HIDE DEF D
  <2> QED
    BY <1>1, <1>2, <1>6, <2>1, ArrivedFresh DEF TypeOK, Traffic
<1> HIDE DEF r
<1>9. Requesting /\ At(j, 1) /\ Pending \subseteq Joints
  BY <1>1, <1>2, <1>3 DEF At, Requesting, TypeOK, DiscoveryState, Pending
\* Before the first action the head is the only request of a discovery.
<1>10. BootOK'
  <2> SUFFICES ASSUME Requesting', ~discovery.active
               PROVE  BootOK'
    BY <1>5 DEF BootOK
  <2>1. /\ \A i, l \in Joints : \A k \in DOMAIN wire[i], n \in DOMAIN wire[l] :
             At(i, k) /\ At(l, n) => i = l /\ k = n
        /\ \A i \in Pending : \A k \in DOMAIN wire[i] : wire[i][k].source \notin ModeSources
    BY <1>1, <1>9 DEF Traffic, BootOK
  <2>2. ASSUME NEW i \in Joints, NEW k \in DOMAIN wire'[i], At(i, k)'
        PROVE  FALSE
    <3>1. g[i][k] \in DOMAIN wire[i] /\ (i = j => g[i][k] # 1) /\ At(i, g[i][k])
      <4> DEFINE n == g[i][k]
      <4>1. n \in DOMAIN wire[i] /\ (i = j => n # 1) /\ Passed(wire'[i][k], wire[i][n], i, j)
        BY <1>3
      <4> HIDE DEF n
      <4>2. At(i, n)
        BY <2>2, <4>1 DEF At, Passed
      <4> QED
        BY <4>1, <4>2 DEF n
    <3> QED
      BY <1>1, <1>3, <1>9, <2>1, <3>1
  <2>3. \A i \in Pending' : \A k \in DOMAIN wire'[i] : wire'[i][k].source \notin ModeSources
    <3> SUFFICES ASSUME NEW i \in Pending', NEW k \in DOMAIN wire'[i]
                 PROVE  wire'[i][k].source \notin ModeSources
      OBVIOUS
    <3>1. i \in Pending /\ i \in Joints
      BY <1>5, <1>9
    <3>2. g[i][k] \in DOMAIN wire[i] /\ wire'[i][k].source = wire[i][g[i][k]].source
      BY <1>3, <3>1 DEF Passed
    <3> QED
      BY <2>1, <3>1, <3>2
  <2> QED
    BY <2>2, <2>3 DEF BootOK
<1>11. VerifiedOK'
  <2>1. /\ \A i \in complete : verified[i] = Fields
        /\ \A i \in Pending : FinalRegister \notin verified[i]
        /\ complete \subseteq Joints
    BY <1>1 DEF Traffic, VerifiedOK, TypeOK, ResultsType
  <2>2. \A i \in complete' : verified'[i] = Fields
    <3> SUFFICES ASSUME NEW i \in complete', i \in complete
                 PROVE  verified'[i] = Fields
      BY <1>4 DEF Verifies
    <3>1. Fields \subseteq verified'[i] /\ verified'[i] \subseteq Fields
      BY <1>4, <2>1 DEF Verifies
    <3> QED
      BY <3>1
  <2>3. ASSUME NEW i \in Pending', FinalRegister \in verified'[i]
        PROVE  FALSE
    <3>1. i \in Joints /\ FinalRegister \notin verified[i]
      BY <1>5, <1>9, <2>1
    <3>2. i = j /\ r = FinalRegister
      BY <1>4, <2>3, <3>1 DEF Verifies
    <3> QED
      BY <1>5, <3>2
  <2> QED
    BY <1>5, <2>2, <2>3 DEF VerifiedOK
\* Two requests of discoveries: one of them is current, and it is the head.
<1>12. ReadWhilePending'
  <2> SUFFICES ASSUME NEW i \in Joints, NEW k \in DOMAIN wire'[i], ModeRead(wire'[i][k]),
                      FinalRegister \in verified'[i]
               PROVE  FALSE
    BY DEF ReadWhilePending
  <2> DEFINE n == g[i][k]
             x == wire[i][n]
  <2>1. /\ n \in DOMAIN wire[i] /\ n \in Nat /\ (i = j => 1 < n) /\ ModeRead(x)
        /\ At(i, n)
    BY <1>3 DEF ModeRead, Passed, Alike, At
  <2> HIDE DEF n
  <2>2. FinalRegister \notin verified[i]
    BY <1>1, <2>1 DEF Traffic, ReadWhilePending
  <2>3. i = j /\ r = FinalRegister /\ r # "mode" /\ 1 < n
    <3>1. i = j /\ r = FinalRegister
      BY <1>4, <2>2 DEF Verifies
    <3>2. FinalRegister # "mode"
      BY Numbers
    <3> QED
      BY <2>1, <3>1, <3>2
  <2>4. ~(j = i /\ 1 = n)
    BY <2>1, <2>3
  <2>5. CASE ~discovery.active
    BY <1>1, <1>3, <1>9, <2>1, <2>4, <2>5 DEF Traffic, BootOK
  <2>6. CASE discovery.active
    <3>1. Alive(quarantine) = {}
      <4>1. Tombstones = {}
        BY <1>1, <1>2, <2>6 DEF Course, ActiveOK, Blocks
      <4>2. \A e \in Alive(quarantine) : e \in Tombstones
        <5>1. TablesType /\ TablesOK
          BY <1>1 DEF IInv, TypeOK
        <5>2. \A e \in Alive(quarantine) : e \in Table /\ e.quarantined
          BY <5>1 DEF TablesOK, Alive, Table
        <5> QED
          BY <5>1, <5>2, TombstonesAre
      <4> QED
        BY <4>1, <4>2
    <3>2. Own(h) \/ Own(x)
      <4>1. ~Locks(h, x, Alive(quarantine), wire)
        BY <3>1 DEF Locks
      <4> QED
        BY <1>1, <1>3, <1>9, <2>1, <2>4, <4>1 DEF Traffic, Locked
    <3>3. ~Own(x)
      <4> SUFFICES ASSUME Own(x) PROVE FALSE
        OBVIOUS
      <4>1. IsAsked(i, x, discovery)
        BY <1>1, <2>1 DEF Traffic, CurrentOK, ModeRead
      <4> QED
        BY <2>1, <2>3, <4>1 DEF IsAsked, ModeRead, r
    <3>4. ~Own(h)
      BY <1>1, <1>2, <1>3, <2>1, <2>3 DEF Traffic, OrderOK, ModeRead
    <3> QED
      BY <3>2, <3>3, <3>4
  <2> QED
    BY <2>5, <2>6
<1>13. ModeTrue'
  <2> SUFFICES ASSUME NEW i \in Joints, "mode" \in verified'[i]
               PROVE  /\ observed'[i] = drive[i]
                      /\ \A k \in DOMAIN wire'[i] :
                           wire'[i][k].op = "write" => wire'[i][k].answered
    BY <1>6 DEF ModeTrue
  <2>1. \A k \in DOMAIN wire'[i] :
          /\ g[i][k] \in DOMAIN wire[i] /\ g[i][k] \in Nat /\ (i = j => 1 < g[i][k])
          /\ wire'[i][k].op = wire[i][g[i][k]].op
          /\ wire'[i][k].answered = wire[i][g[i][k]].answered
    BY <1>3 DEF Passed, Alike
  <2>2. CASE i = j /\ r = "mode"
    <3>1. ModeRead(h)
      BY <1>2, <2>2 DEF ModeRead, r
    <3>2. h.mode = drive[j]
      BY <1>1, <1>3, <3>1 DEF Traffic, ReadTrue
    <3>3. \A k \in DOMAIN wire'[j] : wire'[j][k].op # "write"
      <4> SUFFICES ASSUME NEW k \in DOMAIN wire'[j], wire'[j][k].op = "write"
                   PROVE  FALSE
        OBVIOUS
      <4>1. g[j][k] \in DOMAIN wire[j] /\ 1 < g[j][k] /\ wire[j][g[j][k]].op = "write"
        BY <2>1, <2>2
      <4>2. wire[j][g[j][k]].source \notin ModeSources
        BY <1>1, <1>3, <3>1, <4>1 DEF Traffic, OrderOK
      <4>3. Shaped(wire[j][g[j][k]])
        BY <1>1, <4>1 DEF Traffic, WireOK
      <4> QED
        BY <4>1, <4>2, <4>3 DEF Shaped, ModeSources
    <3> QED
      BY <1>4, <2>2, <3>2, <3>3
  <2>3. CASE ~(i = j /\ r = "mode")
    <3>1. "mode" \in verified[i] /\ observed'[i] = observed[i]
      BY <1>4, <2>3 DEF Verifies
    <3>2. /\ observed[i] = drive[i]
          /\ \A k \in DOMAIN wire[i] : wire[i][k].op = "write" => wire[i][k].answered
      BY <1>1, <3>1 DEF Traffic, ModeTrue
    <3> QED
      BY <2>1, <3>1, <3>2
  <2> QED
    BY <2>2, <2>3
<1> QED
  BY <1>4, <1>7, <1>8, <1>10, <1>11, <1>12, <1>13 DEF Traffic

LEMMA DiscoveredStep ==
  ASSUME IInv, NEW j, Arrives(j), NEW a \in Alive(expectations), a.source = "DISCOVERY",
         ~a.quarantined, Of(a, j, wire[j][1]), Drops({a}), a \notin Alive(expectations'),
         ~(Own(wire[j][1]) /\ wire[j][1].source = "MODE_READ"), TablesType', TablesOK',
         Tombstones' \subseteq Tombstones, AcceptDiscovered(j, wire[j][1].mode),
         turn = "network", UNCHANGED <<switch, action, turn, drive>>
  PROVE  IInv'
<1> DEFINE h == wire[j][1]
           r == Registers[discovery.register]
<1>1. TypeOK /\ Traffic /\ Course /\ j \in Joints /\ wire[j] # <<>>
  BY DEF IInv, Arrives
<1>2. WireType' /\ ResultsType' /\ Traffic'
  BY DiscoveredTraffic
<1>3. /\ discovery.state = "WAITING" /\ discovery.joint = j
      /\ h.op = "read" /\ h.register = r
  BY DiscoveredIs
<1>4. /\ Verifies(j, r)
      /\ \/ /\ discovery' = [discovery EXCEPT !.state = "FAILED", !.age = 0,
                                              !.active = FALSE]
            /\ verified' = verified /\ complete' = complete
         \/ /\ discovery' = Advanced
            /\ verified'[j] = verified[j] \cup {r}
            /\ discovery.register = Len(Registers) /\ verified'[j] = Fields =>
                 j \in complete'
  <2>1. h.mode \in Values
    BY <1>1, ArrivedIs DEF TypeOK, Traffic, Item
  <2> QED
    BY <1>1, <1>3, <2>1, DiscoveredDoes
<1>5. /\ discovery' \in DiscoveryState /\ discovery'.state \in {"READY", "COMPLETE", "FAILED"}
      /\ Requesting' <=> discovery'.state = "READY"
      /\ discovery'.active <=> (discovery.active /\ discovery'.state = "READY")
      /\ discovery'.state = "READY" => discovery'.attempts = 0
      /\ Requesting' => discovery'.joint \in discovery'.target /\ discovery'.joint \in 1..N
      /\ Pending' \subseteq Pending
      /\ discovery'.state # "FAILED" => discovery' = Advanced
  BY <1>1, <1>3, <1>4, CursorIs DEF Traffic
<1>6. /\ Requesting /\ discovery \in DiscoveryState
      /\ discovery.register \in 1..Len(Registers) /\ discovery.target \subseteq Joints
      /\ j \in 1..N /\ j \in Joints /\ j \in Pending /\ discovery.age \in Nat
  BY <1>1, <1>3, Reading DEF Requesting, TypeOK, Traffic
<1>7. switch' = switch /\ action' = action /\ turn' = turn /\ drive' = drive
  OBVIOUS
<1>8. discovery' = Advanced =>
        /\ discovery'.state \in {"READY", "COMPLETE"} /\ discovery'.target = discovery.target
        /\ discovery.register # Len(Registers) =>
             /\ discovery'.state = "READY" /\ discovery'.joint = discovery.joint
             /\ discovery'.register = discovery.register + 1
             /\ discovery.register + 1 <= Len(Registers)
        /\ discovery.register = Len(Registers) =>
             /\ discovery'.register = 1
             /\ discovery'.state = "READY" =>
                  /\ discovery.joint < discovery'.joint
                  /\ \A i \in discovery.target :
                       i > discovery.joint => i >= discovery'.joint
             /\ discovery'.state = "COMPLETE" =>
                  \A i \in discovery.target : i <= discovery.joint
  BY <1>1, <1>6, AdvancedIs DEF Traffic
<1>9. /\ complete \subseteq complete' /\ \A i \in Joints : verified[i] \subseteq verified'[i]
      /\ \A i \in Joints : i # j => verified'[i] = verified[i]
      /\ verified'[j] \subseteq verified[j] \cup {r} /\ verified'[j] \subseteq Fields
  BY <1>6, <1>4 DEF Verifies
<1>9a. discovery'.state # "FAILED" =>
         /\ verified'[j] = verified[j] \cup {r}
         /\ discovery.register = Len(Registers) /\ verified'[j] = Fields => j \in complete'
  <2>1. discovery' = [discovery EXCEPT !.state = "FAILED", !.age = 0, !.active = FALSE] =>
          discovery'.state = "FAILED"
    BY <1>6 DEF DiscoveryState
  <2> QED
    BY <1>4, <2>1
<1>10. TypeOK'
  BY <1>1, <1>2, <1>5, <1>7 DEF TypeOK, TablesType, TurnType, DriveType
<1> HIDE DEF r
<1>11. ActiveOK'
  <2>1. discovery'.active => discovery.active /\ action.kind = "DISCOVERY"
    BY <1>1, <1>5 DEF Course, ActiveOK
  <2>2. Requesting' /\ action.kind = "DISCOVERY" => discovery'.active
    BY <1>1, <1>5, <1>6 DEF Course, ActiveOK
  <2>3. discovery'.state # "WAITING"
    BY <1>5
  <2> QED
    BY <1>5, <1>7, <2>1, <2>2, <2>3 DEF ActiveOK
\* The joint of a discovery lacks its last register: it takes no part in a switch.
<1>12. SwitchOK'
  <2>1. /\ action.kind # "IDLE" => action.mask # {} /\ action.mode \in Modes
        /\ switch.state \in Switching => switch.joint \in switch.mask /\ switch.mode \in Modes
        /\ switch.state \in {"WRITING", "READ_READY"} => switch.age = 0
        /\ action.kind = "MODE" /\ switch.state \in Switching =>
             \A i \in switch.mask :
               /\ FinalRegister \in verified[i]
               /\ switch.state = "WRITING" => "mode" \notin verified[i]
    BY <1>1 DEF Course, SwitchOK
  <2>2. FinalRegister \notin verified[j]
    BY <1>1, <1>6 DEF Traffic, VerifiedOK
  <2>3. switch.mask \subseteq Joints
    BY <1>1 DEF TypeOK, SwitchState
  <2>4. action.kind = "MODE" /\ switch.state \in Switching =>
             \A i \in switch.mask :
               /\ FinalRegister \in verified'[i]
               /\ switch.state = "WRITING" => "mode" \notin verified'[i]
    <3> SUFFICES ASSUME action.kind = "MODE", switch.state \in Switching, NEW i \in switch.mask
                 PROVE  /\ FinalRegister \in verified'[i]
                        /\ switch.state = "WRITING" => "mode" \notin verified'[i]
      OBVIOUS
    <3>1. i # j /\ i \in Joints
      BY <2>1, <2>2, <2>3
    <3> QED
      BY <1>9, <2>1, <3>1
  <2> QED
    BY <1>7, <2>1, <2>4 DEF SwitchOK
<1>13. ProgressOK'
  <2> SUFFICES ASSUME action.kind = "DISCOVERY"
               PROVE  ProgressOK'
    BY <1>7 DEF ProgressOK
  <2>1. /\ action.mask \subseteq complete \cup Pending
        /\ \A n \in 1..(discovery.register - 1) : Registers[n] \in verified[j]
    BY <1>1, <1>3, <1>6 DEF Course, ProgressOK
  <2>2. turn' # "pump"
    BY <1>7
  <2>3. CASE discovery'.state = "FAILED"
    BY <1>5, <1>7, <2>2, <2>3 DEF ProgressOK
  <2>4. CASE discovery'.state # "FAILED"
    <3>1. discovery' = Advanced /\ verified'[j] = verified[j] \cup {r}
      BY <1>5, <1>9a, <2>4
    <3>2. CASE discovery.register # Len(Registers)
      <4>1. /\ Requesting' /\ discovery'.joint = j /\ discovery'.target = discovery.target
            /\ discovery'.register = discovery.register + 1
        BY <1>3, <1>5, <1>8, <3>1, <3>2
      <4>2. Pending \subseteq Pending'
        BY <1>3, <4>1 DEF Pending
      <4>3. \A n \in 1..(discovery'.register - 1) :
              n = discovery.register \/ n \in 1..(discovery.register - 1)
        BY <1>6, <4>1
      <4>4. \A n \in 1..(discovery'.register - 1) : Registers[n] \in verified'[discovery'.joint]
        BY <2>1, <3>1, <4>1, <4>3 DEF r
      <4> QED
        BY <1>7, <1>9, <2>1, <2>2, <4>1, <4>2, <4>4 DEF ProgressOK
    <3>3. CASE discovery.register = Len(Registers)
      <4>1. j \in complete'
        <5>1. \A n \in 1..Len(Registers) :
                n = discovery.register \/ n \in 1..(discovery.register - 1)
          BY <1>6, <3>3
        <5>2. \A n \in 1..Len(Registers) : Registers[n] \in verified'[j]
          BY <2>1, <3>1, <5>1 DEF r
        <5>3. Fields \subseteq verified'[j]
          BY <5>2, Numbers
        <5>4. verified'[j] = Fields
          BY <1>9, <5>3
        <5>5. discovery'.state # "FAILED"
          BY <2>4
        <5> QED
          BY <1>9a, <3>3, <5>4, <5>5
      <4>2. ASSUME NEW i \in Pending
            PROVE  \/ i = j
                   \/ Requesting' /\ i \in Pending'
        <5>1. i \in discovery.target /\ i >= j /\ i \in Nat /\ j \in Nat
          BY <1>3, <1>6, <4>2 DEF Pending, Joints
        <5>2. CASE discovery'.state = "COMPLETE"
          BY <1>3, <1>8, <3>1, <3>3, <5>1, <5>2
        <5>3. CASE discovery'.state = "READY"
          <6>1. i > j => i >= discovery'.joint
            BY <1>3, <1>8, <3>1, <3>3, <5>1, <5>3
          <6>2. Requesting' /\ discovery'.target = discovery.target
            BY <1>5, <1>8, <3>1, <5>3
          <6> QED
            BY <5>1, <6>1, <6>2 DEF Pending
        <5> QED
          BY <1>8, <3>1, <5>2, <5>3
      <4>3. discovery'.state = "COMPLETE" \/ Requesting'
        BY <1>5, <1>8, <3>1
      <4>4. ~Requesting' => action.mask \subseteq complete'
        BY <1>9, <2>1, <4>1, <4>2
      <4>5. action.mask \subseteq complete' \cup Pending'
        BY <1>9, <2>1, <4>1, <4>2
      <4>6. 1..(discovery'.register - 1) = {}
        BY <1>8, <3>1, <3>3
      <4> QED
        BY <1>7, <2>2, <4>3, <4>4, <4>5, <4>6 DEF ProgressOK
    <3> QED
      BY <3>2, <3>3
  <2> QED
    BY <2>3, <2>4
<1>14. TimeOK'
  <2> SUFFICES ASSUME action.kind = "DISCOVERY"
               PROVE  TimeOK'
    BY <1>7 DEF TimeOK
  <2> DEFINE last == Budget(Slot(discovery.joint, discovery.register, Attempts))
             spent == action.elapsed
             age == discovery.age
  <2>1. /\ last \in Nat /\ last <= Budget(Slots) /\ spent + Timeout <= last + age
    BY <1>1, <1>3, <1>6, Spending DEF TypeOK, Traffic, Course
  <2>2. age < Timeout /\ age \in Nat
    BY <1>1, <1>3, <1>6 DEF Course, TimeOK
  <2>3. spent \in Nat /\ Budget(Slots) \in Nat
    BY <1>1, DeadlineIs DEF TypeOK, ActionState
  <2>4. CASE discovery'.state = "READY"
    <3> DEFINE next == Budget(Slot(discovery'.joint, discovery'.register, 0))
    <3>1. last <= next /\ next \in Nat
      <4> DEFINE s1 == Slot(discovery.joint, discovery.register, Attempts)
                 s2 == Slot(discovery'.joint, discovery'.register, 0)
      <4>1. discovery' = Advanced /\ Requesting' /\ discovery'.joint \in 1..N
        BY <1>5, <2>4
      <4>2. Attempts \in Nat /\ 0 \in Nat /\ Len(Registers) >= 1 /\ 1 \in 1..Len(Registers)
            /\ Len(Registers) \in Nat
        BY Numbers
      <4>3. s1 <= s2 /\ s1 \in Nat /\ s2 \in Nat
        <5>1. discovery'.register \in 1..Len(Registers)
          BY <1>5 DEF DiscoveryState
        <5>2. s1 \in Nat /\ s2 \in Nat
          BY <1>3, <1>6, <4>1, <4>2, <5>1, SlotIs
        <5>3. CASE discovery.register # Len(Registers)
          <6>1. s1 = s2
            BY <1>3, <1>6, <1>8, <4>1, <4>2, <5>3, SlotIs
          <6> QED
            BY <5>2, <6>1
        <5>4. CASE discovery.register = Len(Registers)
          BY <1>3, <1>6, <1>8, <2>4, <4>1, <4>2, <5>4, SlotIs
        <5> QED
          BY <5>3, <5>4, <5>2
      <4> HIDE DEF s1, s2
      <4>4. Budget(s1) <= Budget(s2) /\ Budget(s2) \in Nat
        BY <4>3, BudgetIs
      <4> QED
        BY <4>4 DEF s1, s2
    <3> HIDE DEF last, next, spent, age
    <3>2. spent + 1 <= next
      BY <2>1, <2>2, <2>3, <3>1, Counts
    <3>3. /\ discovery'.attempts = 0 /\ turn' = "network"
          /\ \A e \in Tombstones' : discovery'.active => spent <= e.age
      <4>1. discovery'.active => discovery.active
        BY <1>5
      <4>2. discovery.active => \A e \in Tombstones : spent <= e.age
        BY <1>1 DEF Course, TimeOK, spent
      <4> QED
        BY <1>5, <1>7, <2>4, <4>1, <4>2
    <3> QED
      BY <1>5, <1>7, <2>4, <3>2, <3>3 DEF TimeOK, spent, next
  <2>5. CASE discovery'.state # "READY"
    <3> HIDE DEF last, spent, age
    <3>1. spent + 1 <= Budget(Slots) + 1
      BY <2>1, <2>2, <2>3, Counts
    <3>2. ~Requesting' /\ discovery'.state # "WAITING" /\ ~discovery'.active /\ turn' = "network"
      BY <1>5, <1>7, <2>5
    <3> QED
      BY <1>7, <2>5, <3>1, <3>2 DEF TimeOK, spent
  <2> QED
    BY <2>4, <2>5
<1> QED
  BY <1>2, <1>10, <1>11, <1>12, <1>13, <1>14 DEF IInv, Course

\* An answer to a request that was not aborted takes the entry of its request.
LEMMA OwnTaken ==
  ASSUME IInv, NEW j, Arrives(j), NEW source,
         Entries(Live(expectations), j, {source}, FALSE) # {}, Taken(j, {source}, FALSE),
         quarantine' = quarantine
  PROVE  /\ TablesType' /\ TablesOK' /\ Tombstones' \subseteq Tombstones
         /\ \E a \in Alive(expectations) :
              /\ a.source = source /\ ~a.quarantined /\ Of(a, j, wire[j][1])
              /\ Drops({a}) /\ a \notin Alive(expectations')
<1> DEFINE X == {source}
           B == FALSE
<1>1. TablesType /\ TablesOK /\ WireType
  BY DEF IInv, TypeOK
<1>2. Entries(Live(expectations), j, X, B) # {} /\ Taken(j, X, B)
  OBVIOUS
<1> HIDE DEF X, B
<1>3. /\ TablesType' /\ TablesOK' /\ Tombstones' \subseteq Tombstones
      /\ \E a \in Alive(expectations) :
           /\ a.source \in X /\ a.quarantined = B /\ Of(a, j, wire[j][1])
           /\ Drops({a}) /\ a \notin Alive(expectations')
  BY <1>1, <1>2, TakenIs
<1>4. PICK a \in Alive(expectations) :
           /\ a.source \in X /\ a.quarantined = B /\ Of(a, j, wire[j][1])
           /\ Drops({a}) /\ a \notin Alive(expectations')
  BY <1>3
<1>5. a.source = source /\ ~a.quarantined
  BY <1>4 DEF X, B
<1> QED
  BY <1>3, <1>4, <1>5

\* And one to an aborted request takes a tombstone.
LEMMA TombstoneTaken ==
  ASSUME IInv, NEW j, Arrives(j),
         \/ /\ Entries(Live(expectations), j, Sequence, TRUE) # {}
            /\ Taken(j, Sequence, TRUE) /\ quarantine' = Live(quarantine)
         \/ /\ Entries(Live(quarantine), j, Sequence, TRUE) # {}
            /\ quarantine' = Without(Live(quarantine),
                                     Entries(Live(quarantine), j, Sequence, TRUE))
            /\ expectations' = Live(expectations)
  PROVE  /\ TablesType' /\ TablesOK' /\ Tombstones' \subseteq Tombstones
         /\ \E a \in Table : a.quarantined /\ Of(a, j, wire[j][1]) /\ Drops({a})
<1>1. TablesType /\ TablesOK /\ WireType
  BY DEF IInv, TypeOK
<1>2. CASE /\ Entries(Live(expectations), j, Sequence, TRUE) # {}
           /\ Taken(j, Sequence, TRUE) /\ quarantine' = Live(quarantine)
  <2> DEFINE B == TRUE
  <2>1. Entries(Live(expectations), j, Sequence, B) # {} /\ Taken(j, Sequence, B)
    BY <1>2
  <2>2. quarantine' \in {quarantine, Live(quarantine)}
    BY <1>2
  <2> HIDE DEF B
  <2>3. /\ TablesType' /\ TablesOK' /\ Tombstones' \subseteq Tombstones
        /\ \E a \in Alive(expectations) :
             /\ a.source \in Sequence /\ a.quarantined = B /\ Of(a, j, wire[j][1])
             /\ Drops({a}) /\ a \notin Alive(expectations')
    BY <1>1, <2>1, <2>2, TakenIs
  <2>4. PICK a \in Alive(expectations) :
             a.quarantined = B /\ Of(a, j, wire[j][1]) /\ Drops({a})
    BY <2>3
  <2>5. a \in Table /\ a.quarantined
    BY <2>4 DEF B, Table
  <2> QED
    BY <2>3, <2>4, <2>5
<1>3. CASE /\ Entries(Live(quarantine), j, Sequence, TRUE) # {}
           /\ quarantine' = Without(Live(quarantine),
                                    Entries(Live(quarantine), j, Sequence, TRUE))
           /\ expectations' = Live(expectations)
  <2>1. /\ TablesType' /\ TablesOK' /\ Tombstones' \subseteq Tombstones
        /\ \E a \in Alive(quarantine) :
             a.quarantined /\ Of(a, j, wire[j][1]) /\ Drops({a})
    BY <1>1, <1>3, BuriedIs
  <2> QED
    BY <2>1 DEF Table
<1> QED
  BY <1>2, <1>3

LEMMA ReceiveStep ==
  ASSUME IInv, NEW j \in Joints, Receive(j)
  PROVE  IInv'
<1> DEFINE h == wire[j][1]
           m == Head(wire[j]).mode
           live == Live(expectations)
<1>1. /\ TablesType /\ TablesOK /\ WireType /\ Covered /\ CurrentOK /\ Fresh
  BY DEF IInv, TypeOK, Traffic
<1>2. /\ turn = "network" /\ turn' = turn /\ action' = action /\ drive' = drive
      /\ wire[j] # <<>> /\ Head(wire[j]).answered
      /\ wire' = [wire EXCEPT ![j] = Bequeath(Head(@), Tail(@))]
  BY DEF Receive, InNetwork
<1>3. Head(wire[j]) = h
  <2>1. wire[j] \in Seq(Item)
    BY <1>1 DEF WireType
  <2> QED
    BY <1>2, <2>1, HeadTailProperties
<1>4. Arrives(j)
  BY <1>2, <1>3 DEF Arrives
<1>5. /\ Route(j) = "readback" =>
           /\ Entries(live, j, {"MODE_READ"}, FALSE) # {}
           /\ switch.state = "READ_WAITING" /\ switch.joint = j
      /\ Route(j) = "written" => Entries(live, j, {"MODE_WRITE"}, FALSE) # {}
      /\ Route(j) = "discovered" => Entries(live, j, {"DISCOVERY"}, FALSE) # {}
      /\ Route(j) = "buried" => Entries(Live(quarantine), j, Sequence, TRUE) # {}
      /\ Route(j) = "buried_early" => Entries(live, j, Sequence, TRUE) # {}
      /\ Own(h) /\ h.source = "MODE_READ" => Route(j) = "readback"
  BY <1>1, <1>2, RouteIs
<1>6. \/ /\ Route(j) = "readback" /\ AcceptReadback(j, m)
         /\ Taken(j, {"MODE_READ"}, FALSE) /\ UNCHANGED <<discovery, quarantine>>
      \/ /\ Route(j) = "written" /\ Taken(j, {"MODE_WRITE"}, FALSE)
         /\ UNCHANGED <<discovery, switch, results, quarantine>>
      \/ /\ Route(j) = "discovered" /\ AcceptDiscovered(j, m)
         /\ Taken(j, {"DISCOVERY"}, FALSE) /\ UNCHANGED <<switch, quarantine>>
      \/ /\ Route(j) = "buried"
         /\ quarantine' = Without(Live(quarantine),
                                  Entries(Live(quarantine), j, Sequence, TRUE))
         /\ expectations' = Live(expectations) /\ UNCHANGED <<discovery, switch, results>>
      \/ /\ Route(j) = "buried_early" /\ Taken(j, Sequence, TRUE)
         /\ quarantine' = Live(quarantine) /\ UNCHANGED <<discovery, switch, results>>
      \/ /\ Route(j) = "feedback" /\ Expire /\ UNCHANGED <<discovery, switch, results>>
  BY DEF Receive
<1> HIDE DEF h
<1>7. CASE /\ Route(j) = "readback" /\ AcceptReadback(j, m)
           /\ Taken(j, {"MODE_READ"}, FALSE) /\ UNCHANGED <<discovery, quarantine>>
  <2>1. /\ TablesType' /\ TablesOK' /\ Tombstones' \subseteq Tombstones
        /\ \E a \in Alive(expectations) :
             /\ a.source = "MODE_READ" /\ ~a.quarantined /\ Of(a, j, wire[j][1])
             /\ Drops({a}) /\ a \notin Alive(expectations')
    BY <1>4, <1>5, <1>7, OwnTaken
  <2>2. AcceptReadback(j, wire[j][1].mode)
    BY <1>3, <1>7 DEF h
  <2> QED
    BY <1>2, <1>4, <1>5, <1>7, <2>1, <2>2, ReadbackStep
<1>8. CASE /\ Route(j) = "written" /\ Taken(j, {"MODE_WRITE"}, FALSE)
           /\ UNCHANGED <<discovery, switch, results, quarantine>>
  <2>1. /\ TablesType' /\ TablesOK' /\ Tombstones' \subseteq Tombstones
        /\ \E a \in Alive(expectations) :
             /\ a.source = "MODE_WRITE" /\ ~a.quarantined /\ Of(a, j, wire[j][1])
             /\ Drops({a}) /\ a \notin Alive(expectations')
    BY <1>4, <1>5, <1>8, OwnTaken
  <2>2. PICK a : a.source = "MODE_WRITE" /\ Of(a, j, wire[j][1]) /\ Drops({a})
    BY <2>1
  <2> DEFINE D == {a}
  <2>3. Drops(D) /\ Explains(D, j)
    BY <2>2 DEF Explains
  <2> HIDE DEF D
  <2> QED
    BY <1>2, <1>4, <1>8, <2>1, <2>3, QuietArrival
<1>9. CASE /\ Route(j) = "discovered" /\ AcceptDiscovered(j, m)
           /\ Taken(j, {"DISCOVERY"}, FALSE) /\ UNCHANGED <<switch, quarantine>>
  <2>1. /\ TablesType' /\ TablesOK' /\ Tombstones' \subseteq Tombstones
        /\ \E a \in Alive(expectations) :
             /\ a.source = "DISCOVERY" /\ ~a.quarantined /\ Of(a, j, wire[j][1])
             /\ Drops({a}) /\ a \notin Alive(expectations')
    BY <1>4, <1>5, <1>9, OwnTaken
  <2>2. AcceptDiscovered(j, wire[j][1].mode)
    BY <1>3, <1>9 DEF h
  <2>3. ~(Own(wire[j][1]) /\ wire[j][1].source = "MODE_READ")
    BY <1>5, <1>9 DEF h
  <2> QED
    BY <1>2, <1>4, <1>9, <2>1, <2>2, <2>3, DiscoveredStep
<1>10. CASE Route(j) \in {"buried", "buried_early"}
  <2>1. /\ UNCHANGED <<discovery, switch, results>>
        /\ \/ /\ Entries(Live(expectations), j, Sequence, TRUE) # {}
              /\ Taken(j, Sequence, TRUE) /\ quarantine' = Live(quarantine)
           \/ /\ Entries(Live(quarantine), j, Sequence, TRUE) # {}
              /\ quarantine' = Without(Live(quarantine),
                                       Entries(Live(quarantine), j, Sequence, TRUE))
              /\ expectations' = Live(expectations)
    BY <1>5, <1>6, <1>10
  <2>2. /\ TablesType' /\ TablesOK' /\ Tombstones' \subseteq Tombstones
        /\ \E a \in Table : a.quarantined /\ Of(a, j, wire[j][1]) /\ Drops({a})
    BY <1>4, <2>1, TombstoneTaken
  <2>3. PICK a : a.quarantined /\ Of(a, j, wire[j][1]) /\ Drops({a})
    BY <2>2
  <2> DEFINE D == {a}
  <2>4. Drops(D) /\ Explains(D, j)
    BY <2>3 DEF Explains
  <2> HIDE DEF D
  <2> QED
    BY <1>2, <1>4, <2>1, <2>2, <2>4, QuietArrival
<1>11. CASE Route(j) = "feedback" /\ Expire /\ UNCHANGED <<discovery, switch, results>>
  <2>1. Expiry
    BY <1>11 DEF Expire, Expiry
  <2>2. /\ TablesType' /\ TablesOK' /\ \A e : e \in Tombstones' <=> e \in Tombstones
    BY <1>1, <2>1, ExpiryIs
  <2>3. Tombstones' \subseteq Tombstones
    BY <2>2
  <2> DEFINE D == {}
  <2>4. Drops(D) /\ Explains(D, j)
    <3>1. Alive(Live(expectations)) = Alive(expectations)
          /\ Alive(Live(quarantine)) = Alive(quarantine)
      BY <1>1, LiveIs DEF TablesType
    <3>2. Alive(expectations') = Alive(expectations) /\ Alive(quarantine') = Alive(quarantine)
      BY <1>11, <3>1 DEF Expire
    <3> QED
      BY <3>2 DEF Drops, Explains
  <2> HIDE DEF D
  <2> QED
    BY <1>2, <1>4, <1>11, <2>2, <2>3, <2>4, QuietArrival
<1> QED
  BY <1>6, <1>7, <1>8, <1>9, <1>10, <1>11

-----------------------------------------------------------------------------
(* The drives, the bus and the end of the cycle.                            *)

\* What depends on the wire only by who asked what, and when.
LEMMA WireChanges ==
  ASSUME IInv, UNCHANGED <<discovery, results, switch, tables, action, turn>>, WireType',
         NEW g, Calm(g)
  PROVE  /\ TablesType' /\ TablesOK' /\ Course'
         /\ WireOK' /\ OrderOK' /\ Twins' /\ Covered' /\ Fresh' /\ CurrentOK'
         /\ NoThree' /\ Locked' /\ BootOK' /\ VerifiedOK' /\ ReadWhilePending'
<1>1. TypeOK /\ TablesOK /\ Traffic /\ Course
  BY DEF IInv
<1>2. /\ discovery' = discovery /\ verified' = verified /\ complete' = complete
      /\ observed' = observed /\ switch' = switch /\ action' = action /\ turn' = turn
      /\ expectations' = expectations /\ quarantine' = quarantine
  BY DEF results, tables
<1>3. Expiry
  BY <1>2 DEF Expiry
<1>4. TablesType' /\ TablesOK' /\ CalmTables /\ \A e : e \in Tombstones' <=> e \in Tombstones
  BY <1>1, <1>3, ExpiryIs DEF TypeOK
<1>5. Thins(g)
  BY CalmThins
<1>6. WireOK' /\ OrderOK' /\ NoThree'
  BY <1>1, <1>5, ThinsShape DEF TypeOK, Traffic
<1>7. Twins' /\ Covered' /\ Locked'
  BY <1>1, <1>4, CalmCover DEF TypeOK, Traffic
<1>8. Fresh' /\ CurrentOK'
  BY <1>1, <1>2, <1>4, CalmFresh DEF TypeOK, Traffic
<1>9. BootOK' /\ VerifiedOK' /\ ReadWhilePending'
  BY <1>1, <1>2, CalmBoot DEF TypeOK, Traffic
<1>10. Course'
  <2>1. (Blocks' <=> Blocks) /\ Pending' = Pending /\ (Requesting' <=> Requesting)
    BY <1>2, <1>4 DEF Blocks, Pending, Requesting
  <2> QED
    BY <1>1, <1>2, <1>4, <2>1 DEF Course, ActiveOK, SwitchOK, ProgressOK, TimeOK
<1> QED
  BY <1>4, <1>6, <1>7, <1>8, <1>9, <1>10

\* What a drive may answer, and the wire with its answer.
Replies(j, x) ==
  IF x.op = "write" THEN {x.mode}
  ELSE IF x.register = "mode" THEN {drive[j]} ELSE {None, "BAD"}
Replied(j, k, m) ==
  [wire EXCEPT ![j][k] = [wire[j][k] EXCEPT !.answered = TRUE, !.mode = m]]

LEMMA AnswersIs ==
  ASSUME WireType, WireOK, DriveType, NEW j \in Joints, NEW k \in DOMAIN wire[j],
         NEW m \in Replies(j, wire[j][k]), wire' = Replied(j, k, m)
  PROVE  /\ WireType' /\ Calm(Stay)
         /\ \A i \in Joints : DOMAIN wire'[i] = DOMAIN wire[i]
         /\ \A i \in Joints : \A n \in DOMAIN wire[i] :
              ~(i = j /\ n = k) => wire'[i][n] = wire[i][n]
         /\ wire'[j][k].answered /\ wire'[j][k].mode = m
         /\ wire'[j][k].source = wire[j][k].source /\ Alike(wire'[j][k], wire[j][k])
         /\ wire'[j][k].fate = wire[j][k].fate
<1> DEFINE x == wire[j][k]
           y == [x EXCEPT !.answered = TRUE, !.mode = m]
           w == wire[j]
<1>1. x \in Item /\ w \in Seq(Item) /\ DOMAIN w = 1..Len(w) /\ Len(w) \in Nat
  BY WireFacts DEF WireType
<1>2. m \in Values
  <2>1. drive[j] \in Modes \cup {"BAD"} /\ (x.op = "write" => x.mode \in Modes)
    BY DEF DriveType, WireOK
  <2> QED
    BY <2>1 DEF Values, Replies
<1>3. wire'[j] = [w EXCEPT ![k] = y] /\ (\A i \in Joints : i # j => wire'[i] = wire[i])
      /\ wire' = [i \in Joints |-> wire'[i]]
  BY DEF WireType, Replied
<1> HIDE DEF x
<1>4. /\ y \in Item /\ y.answered /\ y.mode = m /\ y.source = x.source /\ Alike(y, x)
      /\ y.fate = x.fate /\ y.age = x.age
  BY <1>1, <1>2 DEF Item, Alike
<1> HIDE DEF y, w
<1>5. /\ wire'[j] \in Seq(Item) /\ DOMAIN wire'[j] = DOMAIN w /\ wire'[j][k] = y
      /\ \A n \in DOMAIN w : n # k => wire'[j][n] = w[n]
  <2>1. k \in 1..Len(w)
    BY <1>1 DEF w
  <2> DEFINE v == [w EXCEPT ![k] = y]
  <2>2. y \in Item /\ w \in Seq(Item)
    BY <1>1, <1>4
  <2>3. /\ v \in Seq(Item) /\ Len(v) = Len(w)
        /\ \A n \in 1..Len(w) : v[n] = IF n = k THEN y ELSE w[n]
    BY <2>1, <2>2, ExceptSeq
  <2>4. wire'[j] = v
    BY <1>3
  <2> HIDE DEF v
  <2>5. DOMAIN v = 1..Len(w)
    BY <2>3
  <2> QED
    BY <1>1, <2>1, <2>3, <2>4, <2>5
<1>6. WireType'
  <2>1. \A i \in Joints : wire'[i] \in Seq(Item)
    BY <1>3, <1>5 DEF WireType
  <2> QED
    BY <1>3, <2>1 DEF WireType
<1>7. /\ \A i \in Joints : DOMAIN wire'[i] = DOMAIN wire[i]
      /\ \A i \in Joints : \A n \in DOMAIN wire[i] :
           ~(i = j /\ n = k) => wire'[i][n] = wire[i][n]
  BY <1>3, <1>5 DEF w
<1>8. Calm(Stay)
  <2>1. \A i \in Joints : \A n \in DOMAIN wire'[i] : Stay[i][n] = n /\ n \in DOMAIN wire[i]
    BY <1>6, <1>7, WireFacts DEF WireType, Stay
  <2>2. ASSUME NEW i \in Joints, NEW n \in DOMAIN wire'[i]
        PROVE  LET u == wire'[i][n]
                   v == wire[i][n]
               IN /\ u.source = v.source /\ Alike(u, v) /\ u.fate = v.fate /\ u.age = v.age
                  /\ v.op = "write" => u.mode = v.mode
    <3>1. CASE i = j /\ n = k
      <4>1. wire'[i][n] = y /\ wire[i][n] = x
        BY <1>5, <3>1 DEF x
      <4>2. x.op = "write" => m = x.mode
        BY DEF x, Replies
      <4> QED
        BY <1>4, <4>1, <4>2
    <3>2. CASE ~(i = j /\ n = k)
      BY <1>7, <2>1, <3>2 DEF Alike
    <3> QED
      BY <3>1, <3>2
  <2> QED
    BY <2>1, <2>2 DEF Calm, Places
<1> QED
  BY <1>4, <1>5, <1>6, <1>7, <1>8 DEF x

LEMMA AnswersStep ==
  ASSUME IInv, NEW j \in Joints, DriveAnswers(j)
  PROVE  IInv'
<1>1. TypeOK /\ Traffic /\ Course
  BY DEF IInv
<1>2. /\ turn' = turn /\ action' = action
      /\ UNCHANGED <<discovery, results, switch, tables>>
  BY DEF DriveAnswers, InNetwork
<1>3. PICK k \in DOMAIN wire[j] :
        LET i == wire[j][k]
        IN /\ ~i.answered
           /\ \A n \in 1..k - 1 : wire[j][n].answered
           /\ drive' = IF i.op = "write" THEN [drive EXCEPT ![j] = i.mode] ELSE drive
           /\ \E m \in IF i.op = "write" THEN {i.mode}
                       ELSE IF i.register = "mode" THEN {drive[j]} ELSE {None, "BAD"} :
                wire' = [wire EXCEPT ![j][k] = [i EXCEPT !.answered = TRUE, !.mode = m]]
  BY DEF DriveAnswers
<1> DEFINE x == wire[j][k]
<1>4. PICK m \in IF x.op = "write" THEN {x.mode}
                 ELSE IF x.register = "mode" THEN {drive[j]} ELSE {None, "BAD"} :
        wire' = [wire EXCEPT ![j][k] = [x EXCEPT !.answered = TRUE, !.mode = m]]
  BY <1>3
<1>5. /\ ~x.answered /\ \A n \in 1..k - 1 : wire[j][n].answered
      /\ drive' = IF x.op = "write" THEN [drive EXCEPT ![j] = x.mode] ELSE drive
  BY <1>3
<1>6. /\ WireType' /\ Calm(Stay)
      /\ \A i \in Joints : DOMAIN wire'[i] = DOMAIN wire[i]
      /\ \A i \in Joints : \A n \in DOMAIN wire[i] :
           ~(i = j /\ n = k) => wire'[i][n] = wire[i][n]
      /\ wire'[j][k].answered /\ wire'[j][k].mode = m
      /\ wire'[j][k].source = x.source /\ Alike(wire'[j][k], x)
      /\ wire'[j][k].fate = x.fate
  <2>1. WireType /\ WireOK /\ DriveType
    BY <1>1 DEF TypeOK, Traffic
  <2>2. m \in Replies(j, wire[j][k]) /\ wire' = Replied(j, k, m)
    BY <1>4 DEF Replies, Replied
  <2> HIDE DEF x
  <2>3. /\ WireType' /\ Calm(Stay)
        /\ \A i \in Joints : DOMAIN wire'[i] = DOMAIN wire[i]
        /\ \A i \in Joints : \A n \in DOMAIN wire[i] :
             ~(i = j /\ n = k) => wire'[i][n] = wire[i][n]
        /\ wire'[j][k].answered /\ wire'[j][k].mode = m
        /\ wire'[j][k].source = wire[j][k].source /\ Alike(wire'[j][k], wire[j][k])
        /\ wire'[j][k].fate = wire[j][k].fate
    BY <2>1, <2>2, AnswersIs
  <2> QED
    BY <2>3 DEF x
<1>7. /\ TablesType' /\ TablesOK' /\ Course'
      /\ WireOK' /\ OrderOK' /\ Twins' /\ Covered' /\ Fresh' /\ CurrentOK'
      /\ NoThree' /\ Locked' /\ BootOK' /\ VerifiedOK' /\ ReadWhilePending'
  BY <1>2, <1>6, WireChanges
<1>8. /\ \A i \in Joints : \A n \in DOMAIN wire[i] : n \in Nat /\ n >= 1
      /\ x.op = "write" => x.mode \in Modes
      /\ Shaped(x) /\ x.op \in Ops /\ k \in Nat
  BY <1>1, WireFacts DEF TypeOK, WireType, Traffic, WireOK, Item
<1>9. /\ DriveType' /\ \A i \in Joints : i # j => drive'[i] = drive[i]
      /\ x.op = "write" => drive'[j] = x.mode
      /\ x.op # "write" => drive' = drive
  BY <1>1, <1>5, <1>8 DEF TypeOK, DriveType
<1>10. /\ verified' = verified /\ observed' = observed /\ complete' = complete
       /\ discovery' = discovery /\ switch' = switch
  BY <1>2 DEF results
<1>11. AnsweredOK'
  <2> SUFFICES ASSUME NEW i \in Joints, NEW p \in DOMAIN wire[i], NEW n \in DOMAIN wire[i],
                      n < p, wire'[i][p].answered
               PROVE  wire'[i][n].answered
    BY <1>6 DEF AnsweredOK
  <2>1. CASE i = j /\ p = k
    <3>1. n \in 1..k - 1 /\ n # k
      BY <1>8, <2>1
    <3> QED
      BY <1>5, <1>6, <2>1, <3>1
  <2>2. CASE ~(i = j /\ p = k)
    <3>1. wire[i][p].answered
      BY <1>6, <2>2
    <3>2. wire[i][n].answered
      BY <1>1, <3>1 DEF Traffic, AnsweredOK
    <3>3. ~(i = j /\ n = k)
      BY <1>5, <3>2
    <3> QED
      BY <1>6, <3>2, <3>3
  <2> QED
    BY <2>1, <2>2
<1>12. ReadTrue'
  <2> SUFFICES ASSUME NEW i \in Joints, NEW n \in DOMAIN wire[i], wire'[i][n].answered,
                      ModeRead(wire'[i][n])
                        \/ (wire'[i][n].source = "MODE_READ" /\ Own(wire'[i][n]))
               PROVE  wire'[i][n].mode = drive'[i]
    BY <1>6 DEF ReadTrue
  <2>1. CASE i = j /\ n = k
    <3>1. ModeRead(x) \/ x.source = "MODE_READ"
      BY <1>6, <2>1 DEF ModeRead, Alike
    <3>2. x.op # "write" /\ x.register = "mode"
      BY <1>8, <3>1 DEF ModeRead, Shaped, ModeSources
    <3>3. m = drive[j] /\ drive' = drive
      BY <1>4, <1>9, <3>2
    <3> QED
      BY <1>6, <2>1, <3>3
  <2>2. CASE ~(i = j /\ n = k)
    <3> DEFINE u == wire[i][n]
    <3>1. wire'[i][n] = u
      BY <1>6, <2>2
    <3>2. u.answered /\ (ModeRead(u) \/ (u.source = "MODE_READ" /\ Own(u)))
      BY <3>1
    <3>3. u.mode = drive[i]
      BY <1>1, <3>2 DEF Traffic, ReadTrue
    <3>4. i = j => x.op # "write"
      <4> SUFFICES ASSUME i = j, x.op = "write"
                   PROVE  FALSE
        OBVIOUS
      <4>1. ~(k < n)
        BY <1>1, <1>5, <3>2 DEF Traffic, AnsweredOK
      <4>2. n < k
        BY <1>8, <2>2, <4>1
      <4>3. x.source \in ModeSources
        BY <1>8 DEF Shaped, ModeSources
      <4> QED
        BY <1>1, <3>2, <4>2, <4>3 DEF Traffic, OrderOK
    <3> QED
      BY <1>9, <3>1, <3>3, <3>4
  <2> QED
    BY <2>1, <2>2
<1>13. ModeTrue'
  <2> SUFFICES ASSUME NEW i \in Joints, "mode" \in verified[i]
               PROVE  /\ observed[i] = drive'[i]
                      /\ \A n \in DOMAIN wire[i] :
                           wire'[i][n].op = "write" => wire'[i][n].answered
    BY <1>6, <1>10 DEF ModeTrue
  <2>1. /\ observed[i] = drive[i]
        /\ \A n \in DOMAIN wire[i] : wire[i][n].op = "write" => wire[i][n].answered
    BY <1>1 DEF Traffic, ModeTrue
  <2>2. drive'[i] = drive[i]
    BY <1>5, <1>9, <2>1
  <2> QED
    BY <1>6, <2>1, <2>2
<1>14. TypeOK'
  BY <1>1, <1>2, <1>6, <1>7, <1>9, <1>10 DEF TypeOK, ResultsType, TurnType
<1> QED
  BY <1>6, <1>7, <1>11, <1>12, <1>13, <1>14 DEF IInv, Traffic

\* A request or an answer is lost: what stood behind it moves up.
Gap(j, p) ==
  [i \in Joints |-> [k \in Nat |-> IF i = j /\ ~(k < p) THEN k + 1 ELSE k]]

LEMMA LostIs ==
  ASSUME WireType, NEW j \in Joints, NEW p \in DOMAIN wire[j],
         wire' = [wire EXCEPT ![j] = RemoveAt(@, p)]
  PROVE  WireType' /\ Calm(Gap(j, p)) /\ Still(Gap(j, p))
<1> DEFINE w == wire[j]
           g == Gap(j, p)
           t == RemoveAt(w, p)
<1>1. w \in Seq(Item) /\ DOMAIN w = 1..Len(w) /\ Len(w) \in Nat /\ p \in 1..Len(w)
  BY WireFacts DEF WireType
<1>2. wire'[j] = t /\ (\A i \in Joints : i # j => wire'[i] = wire[i])
      /\ wire' = [i \in Joints |-> wire'[i]]
  BY DEF WireType
<1> HIDE DEF w
<1>3. /\ t \in Seq(Item) /\ Len(t) = Len(w) - 1
      /\ \A k \in 1..(Len(w) - 1) : t[k] = IF k < p THEN w[k] ELSE w[k + 1]
  BY <1>1, RemoveIs
<1>4. DOMAIN t = 1..(Len(w) - 1)
  BY <1>3
<1> HIDE DEF t
<1>5. WireType'
  <2>1. \A i \in Joints : wire'[i] \in Seq(Item)
    BY <1>2, <1>3 DEF WireType
  <2> QED
    BY <1>2, <2>1 DEF WireType
<1>6. ASSUME NEW i \in Joints, NEW k \in DOMAIN wire'[i]
      PROVE  /\ k \in Nat /\ g[i][k] \in DOMAIN wire[i]
             /\ g[i][k] = IF i = j /\ ~(k < p) THEN k + 1 ELSE k
             /\ wire'[i][k] = wire[i][g[i][k]]
  <2>1. k \in Nat
    BY <1>5, WireFacts DEF WireType
  <2>2. g[i][k] = IF i = j /\ ~(k < p) THEN k + 1 ELSE k
    BY <2>1 DEF Gap
  <2> HIDE DEF g
  <2>3. CASE i = j
    <3>1. k \in 1..(Len(w) - 1) /\ wire'[i][k] = t[k] /\ wire[i] = w
      BY <1>2, <1>4, <2>3 DEF w
    <3>2. k \in 1..Len(w) /\ k + 1 \in 1..Len(w)
      BY <1>1, <3>1
    <3> QED
      BY <1>1, <1>3, <2>1, <2>2, <2>3, <3>1, <3>2
  <2>4. CASE i # j
    BY <1>2, <2>1, <2>2, <2>4
  <2> QED
    BY <2>3, <2>4
<1> HIDE DEF g
<1>7. Places(g)
  <2> SUFFICES ASSUME NEW i \in Joints, NEW k \in DOMAIN wire'[i], NEW n \in DOMAIN wire'[i],
                      n < k
               PROVE  g[i][n] < g[i][k]
    BY <1>6 DEF Places
  <2>1. k \in Nat /\ n \in Nat /\ p \in Nat
    BY <1>1, <1>6
  <2>2. /\ g[i][k] = IF i = j /\ ~(k < p) THEN k + 1 ELSE k
        /\ g[i][n] = IF i = j /\ ~(n < p) THEN n + 1 ELSE n
    BY <1>6
  <2> QED
    BY <2>1, <2>2
<1>8. Calm(g) /\ Still(g)
  <2>1. \A i \in Joints : \A k \in DOMAIN wire'[i] : wire'[i][k] = wire[i][g[i][k]]
    BY <1>6
  <2>2. Calm(g)
    BY <1>7, <2>1 DEF Calm, Alike
  <2>3. Thins(g)
    BY <2>2, CalmThins
  <2> QED
    BY <2>1, <2>2, <2>3 DEF Still
<1> QED
  BY <1>5, <1>8 DEF g

LEMMA LoseStep ==
  ASSUME IInv, NEW j \in Joints, Lose(j)
  PROVE  IInv'
<1>1. TypeOK /\ Traffic /\ Course
  BY DEF IInv
<1>2. /\ turn' = turn /\ action' = action /\ drive' = drive
      /\ UNCHANGED <<discovery, results, switch, tables>>
  BY DEF Lose, InNetwork
<1>3. PICK p \in DOMAIN wire[j] : wire' = [wire EXCEPT ![j] = RemoveAt(@, p)]
  BY DEF Lose
<1>4. WireType' /\ Calm(Gap(j, p)) /\ Still(Gap(j, p))
  BY <1>1, <1>3, LostIs DEF TypeOK
<1>5. /\ TablesType' /\ TablesOK' /\ Course'
      /\ WireOK' /\ OrderOK' /\ Twins' /\ Covered' /\ Fresh' /\ CurrentOK'
      /\ NoThree' /\ Locked' /\ BootOK' /\ VerifiedOK' /\ ReadWhilePending'
  BY <1>2, <1>4, WireChanges
<1>6. /\ verified' = verified /\ observed' = observed /\ complete' = complete
      /\ discovery' = discovery /\ switch' = switch
  BY <1>2 DEF results
<1>7. AnsweredOK' /\ ReadTrue'
  BY <1>1, <1>2, <1>4, StillTrue DEF Traffic
<1>8. ModeTrue'
  BY <1>1, <1>2, <1>4, <1>6, StillMode DEF Traffic
<1>9. TypeOK'
  BY <1>1, <1>2, <1>4, <1>5, <1>6 DEF TypeOK, ResultsType, TurnType, DriveType
<1> QED
  BY <1>5, <1>7, <1>8, <1>9 DEF IInv, Traffic

LEMMA NetworkStep ==
  ASSUME IInv, Network
  PROVE  IInv'
BY ReceiveStep, AnswersStep, LoseStep DEF Network

\* An entry and a request that it is not older than grow old together.
LEMMA AgedTables ==
  ASSUME TablesType, TablesOK,
         expectations' = Older(expectations), quarantine' = Older(quarantine)
  PROVE  /\ TablesType' /\ TablesOK'
         /\ \A e \in TableEntry : /\ Aged(e).source = e.source /\ Same(Aged(e), e)
                                  /\ Aged(e).quarantined = e.quarantined
         /\ \A e \in TableEntry : e.age < Timeout => Aged(e).age = e.age + 1
         /\ \A e \in Alive(expectations') : \E f \in Alive(expectations) : e = Aged(f)
         /\ \A e \in Table' : \E f \in Table : e = Aged(f)
         /\ \A e \in Alive(expectations) : e.age < Delay => Aged(e) \in Alive(expectations')
         /\ \A e \in Alive(quarantine) : e.age < Delay => Aged(e) \in Alive(quarantine')
         /\ \A e \in Table : e.age < Delay => Aged(e) \in Table'
<1>1. Timeout \in Nat /\ Delay \in Nat /\ Delay < Timeout /\ Capacity \in Nat
  BY Counts
<1>2. \A e \in TableEntry :
        /\ Aged(e) \in TableEntry /\ Aged(e).source = e.source
        /\ Same(Aged(e), e) /\ Aged(e).quarantined = e.quarantined
        /\ Aged(e).age = IF e.age < Timeout THEN e.age + 1 ELSE e.age
  <2>1. expectations \in Seq(TableEntry)
    BY DEF TablesType
  <2> QED
    BY <2>1, OlderIs
<1>3. \A e \in TableEntry : e.age \in Nat /\ e.age <= Timeout
  BY <1>1 DEF TableEntry
<1>4. ASSUME NEW s \in Seq(TableEntry)
      PROVE  /\ Older(s) \in Seq(TableEntry) /\ Len(Older(s)) = Len(s)
             /\ Unique(s) => Unique(Older(s))
             /\ TableOK(s) => TableOK(Older(s))
             /\ \A e \in ToSet(Older(s)) : \E f \in ToSet(s) : e = Aged(f) /\ f \in TableEntry
             /\ \A e \in Alive(Older(s)) : \E f \in Alive(s) : e = Aged(f)
             /\ \A e \in Alive(s) : e.age < Delay => Aged(e) \in Alive(Older(s))
  <2> DEFINE t == Older(s)
  <2>1. /\ t \in Seq(TableEntry) /\ Len(t) = Len(s)
        /\ Unique(s) => Unique(t)
        /\ TableOK(s) => TableOK(t)
        /\ \A f \in ToSet(t) : \E e \in ToSet(s) : f = Aged(e)
        /\ \A e \in ToSet(s) : Aged(e) \in ToSet(t)
    BY OlderIs
  <2> HIDE DEF t
  <2>2. ToSet(s) \subseteq TableEntry
    BY Holds
  <2>3. ASSUME NEW e \in Alive(t)
        PROVE  \E f \in Alive(s) : e = Aged(f)
    <3>1. e.age < Timeout
      BY DEF Alive
    <3>2. PICK f \in ToSet(s) : e = Aged(f)
      BY <2>1 DEF Alive
    <3>3. f \in TableEntry /\ Aged(f).age < Timeout
      BY <2>2, <3>1, <3>2
    <3>4. f.age < Timeout
      BY <1>2, <3>3
    <3> QED
      BY <3>2, <3>4 DEF Alive
  <2>4. ASSUME NEW e \in Alive(s), e.age < Delay
        PROVE  Aged(e) \in Alive(t)
    <3>1. e \in ToSet(s) /\ e \in TableEntry /\ e.age < Timeout
      BY <2>2 DEF Alive
    <3>2. Aged(e).age = e.age + 1 /\ e.age \in Nat
      BY <1>2, <1>3, <3>1
    <3>3. Aged(e).age < Timeout
      BY <1>1, <2>4, <3>2
    <3> QED
      BY <2>1, <3>1, <3>3 DEF Alive
  <2> QED
    BY <2>1, <2>2, <2>3, <2>4 DEF t
<1>5. /\ expectations \in Seq(TableEntry) /\ quarantine \in Seq(TableEntry)
      /\ Len(expectations) <= Capacity /\ TableOK(expectations) /\ TableOK(quarantine)
      /\ Unique(expectations) /\ \A e \in ToSet(quarantine) : e.quarantined
  BY DEF TablesType, TablesOK
<1>6. /\ TablesType' /\ Len(expectations') <= Capacity /\ TableOK(expectations')
      /\ TableOK(quarantine') /\ Unique(expectations')
  BY <1>4, <1>5 DEF TablesType
<1>7. \A e \in ToSet(quarantine') : e.quarantined
  <2> SUFFICES ASSUME NEW e \in ToSet(quarantine')
               PROVE  e.quarantined
    OBVIOUS
  <2>1. PICK f \in ToSet(quarantine) : e = Aged(f) /\ f \in TableEntry
    BY <1>4, <1>5
  <2>2. Aged(f).quarantined = f.quarantined /\ f.quarantined
    BY <1>2, <1>5, <2>1
  <2> QED
    BY <2>1, <2>2
<1>8. TablesOK'
  BY <1>6, <1>7 DEF TablesOK
<1>9. /\ \A e \in Alive(expectations') : \E f \in Alive(expectations) : e = Aged(f)
      /\ \A e \in Alive(quarantine') : \E f \in Alive(quarantine) : e = Aged(f)
      /\ \A e \in Alive(expectations) : e.age < Delay => Aged(e) \in Alive(expectations')
      /\ \A e \in Alive(quarantine) : e.age < Delay => Aged(e) \in Alive(quarantine')
  BY <1>4, <1>5
<1>10. /\ \A e \in Table' : \E f \in Table : e = Aged(f)
       /\ \A e \in Table : e.age < Delay => Aged(e) \in Table'
  BY <1>9 DEF Table
<1> QED
  BY <1>2, <1>6, <1>8, <1>9, <1>10

\* What is under way grows old.
OlderWire ==
  [j \in Joints |-> [k \in DOMAIN wire[j] |-> [wire[j][k] EXCEPT !.age = @ + 1]]]
LEMMA AgedWire ==
  ASSUME WireType, \A j \in Joints : \A k \in DOMAIN wire[j] : wire[j][k].age < Delay,
         wire' = OlderWire
  PROVE  /\ WireType' /\ Still(Stay)
         /\ \A j \in Joints :
              /\ DOMAIN wire'[j] = DOMAIN wire[j]
              /\ \A k \in DOMAIN wire[j] :
                   LET x == wire[j][k]
                       y == wire'[j][k]
                   IN /\ y.source = x.source /\ Alike(y, x) /\ y.fate = x.fate
                      /\ y.mode = x.mode /\ y.answered = x.answered
                      /\ y.age = x.age + 1 /\ x.age \in Nat
<1>1. ASSUME NEW j \in Joints
      PROVE  /\ wire'[j] \in Seq(Item) /\ DOMAIN wire'[j] = DOMAIN wire[j]
             /\ \A k \in DOMAIN wire[j] :
                   LET x == wire[j][k]
                       y == wire'[j][k]
                   IN /\ y.source = x.source /\ Alike(y, x) /\ y.fate = x.fate
                      /\ y.mode = x.mode /\ y.answered = x.answered
                      /\ y.age = x.age + 1 /\ x.age \in Nat
  <2> DEFINE s == wire[j]
             t == wire'[j]
  <2>1. s \in Seq(Item) /\ t = [k \in DOMAIN s |-> [s[k] EXCEPT !.age = @ + 1]]
        /\ \A k \in DOMAIN s : s[k] \in Item /\ s[k].age \in Nat /\ s[k].age < Delay
    BY WireFacts DEF WireType, OlderWire
  <2> HIDE DEF s, t
  <2>2. ASSUME NEW k \in DOMAIN s
        PROVE  /\ t[k] \in Item
               /\ t[k].source = s[k].source /\ Alike(t[k], s[k]) /\ t[k].fate = s[k].fate
               /\ t[k].mode = s[k].mode /\ t[k].answered = s[k].answered
               /\ t[k].age = s[k].age + 1
    <3> DEFINE x == s[k]
    <3>1. x \in Item /\ x.age + 1 \in 0..Delay
      BY <2>1, Counts
    <3>2. t[k] = [x EXCEPT !.age = x.age + 1]
      BY <2>1
    <3> HIDE DEF x
    <3>3. LET y == [x EXCEPT !.age = x.age + 1]
          IN /\ y \in Item /\ y.source = x.source /\ Alike(y, x) /\ y.fate = x.fate
             /\ y.mode = x.mode /\ y.answered = x.answered /\ y.age = x.age + 1
      BY <3>1 DEF Item, Alike
    <3> QED
      BY <3>2, <3>3 DEF x
  <2>3. DOMAIN t = DOMAIN s /\ t = [k \in DOMAIN s |-> t[k]]
    BY <2>1
  <2>4. t \in Seq(Item)
    <3>1. \A k \in DOMAIN s : t[k] \in Item
      BY <2>2
    <3>2. s \in Seq(Item)
      BY <2>1
    <3> QED
      BY <2>3, <3>1, <3>2, MapIs
  <2> QED
    BY <2>1, <2>2, <2>3, <2>4 DEF s, t
<1>2. WireType'
  <2>1. wire' = [j \in Joints |-> wire'[j]]
    BY DEF OlderWire
  <2>2. \A j \in Joints : wire'[j] \in Seq(Item)
    BY <1>1
  <2> QED
    BY <2>1, <2>2 DEF WireType
<1>3. Still(Stay)
  <2>1. \A j \in Joints : \A k \in DOMAIN wire'[j] : Stay[j][k] = k /\ k \in DOMAIN wire[j]
    BY <1>1, <1>2, WireFacts DEF WireType, Stay
  <2>2. ASSUME NEW j \in Joints, NEW k \in DOMAIN wire'[j]
        PROVE  /\ Kin(wire'[j][k], wire[j][Stay[j][k]])
               /\ wire'[j][k].answered = wire[j][Stay[j][k]].answered
               /\ wire'[j][k].mode = wire[j][Stay[j][k]].mode
    <3> DEFINE x == wire[j][k]
               y == wire'[j][k]
    <3>1. /\ y.source = x.source /\ Alike(y, x) /\ y.fate = x.fate
          /\ y.mode = x.mode /\ y.answered = x.answered
      <4>1. k \in DOMAIN wire[j]
        BY <2>1
      <4> QED
        BY <1>1, <4>1
    <3>2. Stay[j][k] = k
      BY <2>1
    <3> HIDE DEF x, y
    <3>3. Kin(y, x)
      BY <3>1 DEF Kin, Own, Sound
    <3> QED
      BY <3>1, <3>2, <3>3 DEF x, y
  <2>3. Places(Stay)
    BY <2>1 DEF Places
  <2> QED
    BY <2>2, <2>3 DEF Still, Thins
<1> QED
  BY <1>1, <1>2, <1>3

\* What covers the wire still does.
LEMMA TickCover ==
  ASSUME IInv, Tick
  PROVE  /\ Twins' /\ Covered' /\ Locked'
         /\ \A e \in Alive(expectations') : ~e.quarantined =>
              \A k \in DOMAIN wire'[e.joint] :
                Alike(e, wire'[e.joint][k]) => wire'[e.joint][k].fate # "stale"
<1>1. WireType /\ TablesType /\ TablesOK /\ Twins /\ Covered /\ Locked /\ Fresh
  BY DEF IInv, TypeOK, Traffic
<1>2. \A j \in Joints : \A k \in DOMAIN wire[j] : wire[j][k].age < Delay
  BY DEF Tick
<1>3. \A j \in Joints :
        /\ DOMAIN wire'[j] = DOMAIN wire[j]
        /\ \A k \in DOMAIN wire[j] :
             LET x == wire[j][k]
                 y == wire'[j][k]
             IN /\ y.source = x.source /\ Alike(y, x) /\ y.fate = x.fate
                /\ y.age = x.age + 1 /\ x.age \in Nat
  <2>1. wire' = OlderWire
    BY DEF Tick, OlderWire
  <2> QED
    BY <1>1, <1>2, <2>1, AgedWire
<1>4. /\ \A e \in TableEntry : /\ Aged(e).source = e.source /\ Same(Aged(e), e)
                               /\ Aged(e).quarantined = e.quarantined
      /\ \A e \in TableEntry : e.age < Timeout => Aged(e).age = e.age + 1
      /\ \A e \in Alive(expectations') : \E f \in Alive(expectations) : e = Aged(f)
      /\ \A e \in Alive(expectations) : e.age < Delay => Aged(e) \in Alive(expectations')
      /\ \A e \in Alive(quarantine) : e.age < Delay => Aged(e) \in Alive(quarantine')
      /\ \A e \in Table : e.age < Delay => Aged(e) \in Table'
  BY <1>1, AgedTables DEF Tick
<1>5. /\ Alive(expectations) \subseteq TableEntry /\ Alive(quarantine) \subseteq TableEntry
      /\ Table \subseteq TableEntry
      /\ \A e \in TableEntry : e.joint \in Joints /\ e.age \in Nat
  BY <1>1, EntryFacts
<1>6. Delay \in Nat /\ Timeout \in Nat /\ Delay < Timeout
  BY Counts
\* An entry that is not older than something under way lives on.
<1>7. ASSUME NEW e \in TableEntry, NEW n \in Nat, n < Delay, e.age <= n
      PROVE  e.age < Delay /\ Aged(e).age = e.age + 1
  BY <1>4, <1>5, <1>6, <1>7
<1>8. Covered'
  <2> SUFFICES ASSUME NEW j \in Joints, NEW k \in DOMAIN wire[j]
               PROVE  /\ wire'[j][k].fate = "current" =>
                           CoveredCurrent(j, wire'[j][k], Alive(expectations'))
                      /\ wire'[j][k].fate = "stale" => CoveredStale(j, wire'[j][k], Table')
    BY <1>3 DEF Covered
  <2> DEFINE x == wire[j][k]
             y == wire'[j][k]
  <2>1. /\ y.source = x.source /\ Alike(y, x) /\ y.fate = x.fate
        /\ y.age = x.age + 1 /\ x.age \in Nat /\ x.age < Delay
    BY <1>2, <1>3
  <2>2. /\ x.fate = "current" => CoveredCurrent(j, x, Alive(expectations))
        /\ x.fate = "stale" => CoveredStale(j, x, Table)
    BY <1>1 DEF Covered
  <2> HIDE DEF x, y
  <2>3. ASSUME CoveredCurrent(j, x, Alive(expectations))
        PROVE  CoveredCurrent(j, y, Alive(expectations'))
    <3>1. PICK e \in Alive(expectations) :
            e.source = x.source /\ Of(e, j, x) /\ ~e.quarantined /\ e.age <= x.age
      BY <2>3 DEF CoveredCurrent
    <3>2. e \in TableEntry /\ e.age \in Nat
      BY <1>5
    <3>3. e.age < Delay /\ Aged(e).age = e.age + 1
      BY <1>7, <2>1, <3>1, <3>2
    <3>4. /\ Aged(e) \in Alive(expectations') /\ Aged(e).age <= y.age
          /\ Aged(e).source = e.source /\ Same(Aged(e), e)
          /\ Aged(e).quarantined = e.quarantined
      BY <1>4, <2>1, <3>1, <3>2, <3>3
    <3>5. Of(Aged(e), j, y)
      BY <2>1, <3>1, <3>4 DEF Of, Alike, Same
    <3> QED
      BY <2>1, <3>1, <3>4, <3>5 DEF CoveredCurrent
  <2>4. ASSUME CoveredStale(j, x, Table)
        PROVE  CoveredStale(j, y, Table')
    <3>1. PICK e \in Table : /\ Of(e, j, x) /\ e.quarantined /\ e.age <= x.age
                             /\ x.source \in ModeSources => e.source = x.source
      BY <2>4 DEF CoveredStale
    <3>2. e \in TableEntry /\ e.age \in Nat
      BY <1>5
    <3>3. e.age < Delay /\ Aged(e).age = e.age + 1
      BY <1>7, <2>1, <3>1, <3>2
    <3>4. /\ Aged(e) \in Table' /\ Aged(e).age <= y.age
          /\ Aged(e).source = e.source /\ Same(Aged(e), e)
          /\ Aged(e).quarantined = e.quarantined
      <4>1. Aged(e).age <= y.age
        BY <2>1, <3>1, <3>2, <3>3
      <4> QED
        BY <1>4, <3>1, <3>2, <3>3, <4>1
    <3>5. Of(Aged(e), j, y)
      BY <2>1, <3>1, <3>4 DEF Of, Alike, Same
    <3> QED
      BY <2>1, <3>1, <3>4, <3>5 DEF CoveredStale
  <2> QED
    BY <2>1, <2>2, <2>3, <2>4 DEF y
<1>9. Twins'
  <2> SUFFICES ASSUME NEW j \in Joints, NEW k \in DOMAIN wire[j], NEW n \in DOMAIN wire[j],
                      k < n, Alike(wire'[j][k], wire'[j][n]), Sound(wire'[j][k]),
                      Sound(wire'[j][n])
               PROVE  /\ wire'[j][k].source = "MODE_READ" /\ wire'[j][n].source = "DISCOVERY"
                      /\ wire'[j][k].fate = wire'[j][n].fate
                      /\ wire'[j][k].fate = "stale" =>
                           CoveredTwice(j, wire'[j][k], wire'[j][n], Table')
    BY <1>3 DEF Twins
  <2> DEFINE x == wire[j][k]
             y == wire'[j][k]
             u == wire[j][n]
             v == wire'[j][n]
  <2>1. /\ y.source = x.source /\ Alike(y, x) /\ y.fate = x.fate
        /\ y.age = x.age + 1 /\ x.age \in Nat /\ x.age < Delay
        /\ v.source = u.source /\ Alike(v, u) /\ v.fate = u.fate
        /\ v.age = u.age + 1 /\ u.age \in Nat /\ u.age < Delay
    BY <1>2, <1>3
  <2>2. Alike(x, u) /\ Sound(x) /\ Sound(u)
    BY <2>1 DEF Alike, Sound
  <2>3. /\ x.source = "MODE_READ" /\ u.source = "DISCOVERY" /\ x.fate = u.fate
        /\ x.fate = "stale" => CoveredTwice(j, x, u, Table)
    BY <1>1, <2>2 DEF Twins
  <2> HIDE DEF x, y, u, v
  <2>4. ASSUME CoveredTwice(j, x, u, Table)
        PROVE  CoveredTwice(j, y, v, Table')
    <3>1. PICK e \in Table, f \in Table :
            /\ e.source # f.source /\ Of(e, j, x) /\ Of(f, j, x)
            /\ e.quarantined /\ f.quarantined
            /\ e.age <= x.age /\ e.age <= u.age /\ f.age <= x.age /\ f.age <= u.age
      BY <2>4 DEF CoveredTwice
    <3>2. e \in TableEntry /\ f \in TableEntry /\ e.age \in Nat /\ f.age \in Nat
      BY <1>5
    <3>3. /\ e.age < Delay /\ Aged(e).age = e.age + 1
          /\ f.age < Delay /\ Aged(f).age = f.age + 1
      BY <1>7, <2>1, <3>1, <3>2
    <3>4. /\ Aged(e) \in Table' /\ Aged(e).source = e.source /\ Same(Aged(e), e)
          /\ Aged(e).quarantined = e.quarantined
          /\ Aged(f) \in Table' /\ Aged(f).source = f.source /\ Same(Aged(f), f)
          /\ Aged(f).quarantined = f.quarantined
      BY <1>4, <3>2, <3>3
    <3>5. /\ Aged(e).age <= y.age /\ Aged(e).age <= v.age
          /\ Aged(f).age <= y.age /\ Aged(f).age <= v.age
      BY <2>1, <3>1, <3>2, <3>3
    <3>6. Of(Aged(e), j, y) /\ Of(Aged(f), j, y)
      BY <2>1, <3>1, <3>4 DEF Of, Alike, Same
    <3> QED
      BY <3>1, <3>4, <3>5, <3>6 DEF CoveredTwice
  <2>5. /\ y.source = "MODE_READ" /\ v.source = "DISCOVERY" /\ y.fate = v.fate
        /\ y.fate = "stale" => CoveredTwice(j, y, v, Table')
    BY <2>1, <2>3, <2>4
  <2> QED
    BY <2>5 DEF y, v
<1>10. Locked'
  <2> SUFFICES ASSUME NEW i \in Joints, NEW j \in Joints, NEW k \in DOMAIN wire[i],
                      NEW n \in DOMAIN wire[j], At(i, k)', At(j, n)', ~(i = j /\ k = n),
                      ~Own(wire'[i][k]), ~Own(wire'[j][n])
               PROVE  Locks(wire'[i][k], wire'[j][n], Alive(quarantine'), wire')
    BY <1>3 DEF Locked
  <2> DEFINE x == wire[i][k]
             y == wire'[i][k]
             u == wire[j][n]
             v == wire'[j][n]
  <2>1. /\ y.source = x.source /\ y.fate = x.fate
        /\ y.age = x.age + 1 /\ x.age \in Nat /\ x.age < Delay
        /\ v.source = u.source /\ v.fate = u.fate
        /\ v.age = u.age + 1 /\ u.age \in Nat /\ u.age < Delay
    BY <1>2, <1>3
  <2>2. At(i, k) /\ At(j, n) /\ ~Own(x) /\ ~Own(u)
    BY <2>1 DEF At, Own
  <2>3. Locks(x, u, Alive(quarantine), wire)
    BY <1>1, <2>2 DEF Locked
  <2> HIDE DEF x, y, u, v
  <2>4. PICK e \in Alive(quarantine) :
          /\ e.age <= x.age /\ e.age <= u.age
          /\ \A m \in DOMAIN wire[e.joint] :
               wire[e.joint][m].source \in ModeSources /\ Alike(e, wire[e.joint][m]) =>
                 \E f \in Alive(quarantine) :
                   f.source # e.source /\ Same(f, e) /\ f.age <= x.age /\ f.age <= u.age
    BY <2>3 DEF Locks
  <2>5. ASSUME NEW f \in Alive(quarantine), f.age <= x.age, f.age <= u.age
        PROVE  /\ Aged(f) \in Alive(quarantine') /\ Aged(f).source = f.source
               /\ Same(Aged(f), f) /\ Aged(f).age <= y.age /\ Aged(f).age <= v.age
    <3>1. f \in TableEntry /\ f.age \in Nat
      BY <1>5
    <3>2. f.age < Delay /\ Aged(f).age = f.age + 1
      BY <1>7, <2>1, <2>5, <3>1
    <3>3. Aged(f).age <= y.age /\ Aged(f).age <= v.age
      BY <2>1, <2>5, <3>1, <3>2
    <3> QED
      BY <1>4, <3>1, <3>2, <3>3
  <2>6. /\ Aged(e) \in Alive(quarantine') /\ Aged(e).source = e.source
        /\ Same(Aged(e), e) /\ Aged(e).age <= y.age /\ Aged(e).age <= v.age
    BY <2>4, <2>5
  <2>7. e.joint \in Joints /\ Aged(e).joint = e.joint /\ Alike(Aged(e), e)
    BY <1>5, <2>6 DEF Same, Alike
  <2>8. ASSUME NEW m \in DOMAIN wire'[e.joint], wire'[e.joint][m].source \in ModeSources,
               Alike(Aged(e), wire'[e.joint][m])
        PROVE  \E f \in Alive(quarantine') :
                 /\ f.source # Aged(e).source /\ Same(f, Aged(e))
                 /\ f.age <= y.age /\ f.age <= v.age
    <3>1. /\ m \in DOMAIN wire[e.joint] /\ wire[e.joint][m].source \in ModeSources
          /\ Alike(e, wire[e.joint][m])
      BY <1>3, <2>7, <2>8 DEF Alike
    <3>2. PICK f \in Alive(quarantine) :
            f.source # e.source /\ Same(f, e) /\ f.age <= x.age /\ f.age <= u.age
      BY <2>4, <3>1
    <3>3. /\ Aged(f) \in Alive(quarantine') /\ Aged(f).source = f.source
          /\ Same(Aged(f), f) /\ Aged(f).age <= y.age /\ Aged(f).age <= v.age
      BY <2>5, <3>2
    <3>4. Aged(f).source # Aged(e).source /\ Same(Aged(f), Aged(e))
      BY <2>6, <3>2, <3>3 DEF Same
    <3> QED
      BY <3>3, <3>4
  <2>9. Locks(y, v, Alive(quarantine'), wire')
    BY <2>6, <2>7, <2>8 DEF Locks
  <2> QED
    BY <2>9 DEF y, v
<1>11. ASSUME NEW e \in Alive(expectations'), ~e.quarantined, NEW k \in DOMAIN wire'[e.joint],
              Alike(e, wire'[e.joint][k])
       PROVE  wire'[e.joint][k].fate # "stale"
  <2>1. PICK f \in Alive(expectations) : e = Aged(f)
    BY <1>4
  <2>2. f.joint \in Joints /\ f.joint = e.joint /\ Alike(f, e) /\ ~f.quarantined
    BY <1>4, <1>5, <1>11, <2>1 DEF Same, Alike
  <2>3. k \in DOMAIN wire[f.joint] /\ Alike(f, wire[f.joint][k])
        /\ wire'[e.joint][k].fate = wire[f.joint][k].fate
    BY <1>3, <1>11, <2>2 DEF Alike
  <2> QED
    BY <1>1, <2>2, <2>3 DEF Fresh
<1> QED
  BY <1>8, <1>9, <1>10, <1>11

\* How the cursors and clocks go on.
LEMMA TickIs ==
  ASSUME TypeOK, Tick
  PROVE  /\ discovery' \in DiscoveryState /\ discovery'.state = discovery.state
         /\ discovery'.target = discovery.target /\ discovery'.joint = discovery.joint
         /\ discovery'.register = discovery.register
         /\ discovery'.attempts = discovery.attempts /\ discovery'.active = discovery.active
         /\ discovery'.age <= discovery.age + 1
         /\ discovery.state = "WAITING" /\ discovery.age < Timeout =>
              discovery'.age = discovery.age + 1
         /\ switch' \in SwitchState /\ switch'.state = switch.state
         /\ switch'.mode = switch.mode /\ switch'.mask = switch.mask
         /\ switch'.joint = switch.joint /\ switch'.age <= switch.age + 1
         /\ switch.state # "READ_WAITING" => switch'.age = switch.age
         /\ action' \in ActionState /\ action'.kind = action.kind /\ action'.mask = action.mask
         /\ action'.mode = action.mode /\ action'.elapsed <= action.elapsed + 1
         /\ turn = "network" /\ turn' = "service"
         /\ verified' = verified /\ complete' = complete /\ observed' = observed
         /\ drive' = drive
<1>1. Timeout \in Nat /\ DiscoveryTicks \in Nat /\ ActionTicks \in Nat
  BY Counts
<1>2. ASSUME NEW n \in Nat, NEW bound \in Nat
      PROVE  /\ Later(n, bound) \in Nat /\ Later(n, bound) <= n + 1
             /\ n < bound => Later(n, bound) = n + 1
             /\ n <= bound => Later(n, bound) <= bound
  BY DEF Later
<1>3. discovery \in DiscoveryState /\ switch \in SwitchState /\ action \in ActionState
  BY DEF TypeOK
<1>4. /\ discovery.age \in Nat /\ discovery.age <= Timeout
      /\ switch.age \in Nat /\ switch.age <= Timeout
      /\ action.elapsed \in Nat
  BY <1>1, <1>3 DEF DiscoveryState, SwitchState, ActionState
<1> DEFINE d == Later(discovery.age, Timeout)
           s == Later(switch.age, Timeout)
           e == Later(action.elapsed, DiscoveryTicks + ActionTicks)
<1>5. /\ d \in 0..Timeout /\ d <= discovery.age + 1
      /\ discovery.age < Timeout => d = discovery.age + 1
      /\ s \in 0..Timeout /\ s <= switch.age + 1
      /\ e \in Nat /\ e <= action.elapsed + 1
  <2>1. d \in Nat /\ d <= discovery.age + 1 /\ d <= Timeout
        /\ (discovery.age < Timeout => d = discovery.age + 1)
    BY <1>1, <1>2, <1>4
  <2>2. s \in Nat /\ s <= switch.age + 1 /\ s <= Timeout
    BY <1>1, <1>2, <1>4
  <2>3. DiscoveryTicks + ActionTicks \in Nat
    BY <1>1
  <2>4. e \in Nat /\ e <= action.elapsed + 1
    BY <1>2, <1>4, <2>3
  <2> HIDE DEF d, s, e
  <2> QED
    BY <1>1, <2>1, <2>2, <2>4
<1>6. /\ discovery' = IF discovery.state = "WAITING"
                        THEN [discovery EXCEPT !.age = d] ELSE discovery
      /\ switch' = IF switch.state = "READ_WAITING" THEN [switch EXCEPT !.age = s] ELSE switch
      /\ action' = IF action.kind = "IDLE" THEN action ELSE [action EXCEPT !.elapsed = e]
      /\ turn = "network" /\ turn' = "service"
      /\ verified' = verified /\ complete' = complete /\ observed' = observed
      /\ drive' = drive
  BY DEF Tick, results
<1> HIDE DEF d, s, e
<1>7. /\ discovery' \in DiscoveryState /\ discovery'.state = discovery.state
      /\ discovery'.target = discovery.target /\ discovery'.joint = discovery.joint
      /\ discovery'.register = discovery.register
      /\ discovery'.attempts = discovery.attempts /\ discovery'.active = discovery.active
      /\ discovery'.age = IF discovery.state = "WAITING" THEN d ELSE discovery.age
  BY <1>3, <1>5, <1>6 DEF DiscoveryState
<1>8. /\ switch' \in SwitchState /\ switch'.state = switch.state
      /\ switch'.mode = switch.mode /\ switch'.mask = switch.mask
      /\ switch'.joint = switch.joint
      /\ switch'.age = IF switch.state = "READ_WAITING" THEN s ELSE switch.age
  BY <1>3, <1>5, <1>6 DEF SwitchState
<1>9. /\ action' \in ActionState /\ action'.kind = action.kind /\ action'.mask = action.mask
      /\ action'.mode = action.mode
      /\ action'.elapsed = IF action.kind = "IDLE" THEN action.elapsed ELSE e
  BY <1>3, <1>5, <1>6 DEF ActionState
<1>10. /\ discovery'.age <= discovery.age + 1
       /\ discovery.state = "WAITING" /\ discovery.age < Timeout =>
            discovery'.age = discovery.age + 1
       /\ switch'.age <= switch.age + 1
       /\ switch.state # "READ_WAITING" => switch'.age = switch.age
       /\ action'.elapsed <= action.elapsed + 1
  BY <1>4, <1>5, <1>7, <1>8, <1>9
<1> QED
  BY <1>6, <1>7, <1>8, <1>9, <1>10

LEMMA TickTraffic ==
  ASSUME IInv, Tick
  PROVE  /\ WireType' /\ TablesType' /\ TablesOK' /\ Traffic'
         /\ \A e \in Tombstones' : \E f \in Tombstones : e.age = f.age + 1
<1>1. TypeOK /\ TablesOK /\ Traffic /\ WireType /\ TablesType
  BY DEF IInv, TypeOK
<1>2. \A j \in Joints : \A k \in DOMAIN wire[j] : wire[j][k].age < Delay
  BY DEF Tick
<1>3. /\ WireType' /\ Still(Stay)
      /\ \A j \in Joints :
           /\ DOMAIN wire'[j] = DOMAIN wire[j]
           /\ \A k \in DOMAIN wire[j] :
                LET x == wire[j][k]
                    y == wire'[j][k]
                IN /\ y.source = x.source /\ Alike(y, x) /\ y.fate = x.fate
                   /\ y.age = x.age + 1 /\ x.age \in Nat
  <2>1. wire' = OlderWire
    BY DEF Tick, OlderWire
  <2> QED
    BY <1>1, <1>2, <2>1, AgedWire
<1>4. /\ discovery'.state = discovery.state
      /\ discovery'.target = discovery.target /\ discovery'.joint = discovery.joint
      /\ discovery'.register = discovery.register /\ discovery'.active = discovery.active
      /\ discovery'.age <= discovery.age + 1
      /\ switch'.state = switch.state
      /\ switch'.joint = switch.joint /\ switch'.age <= switch.age + 1
      /\ verified' = verified /\ complete' = complete /\ observed' = observed
      /\ drive' = drive
      /\ discovery.age \in Nat /\ switch.age \in Nat /\ discovery'.age \in Nat
      /\ switch'.age \in Nat
  <2>1. discovery' \in DiscoveryState /\ switch' \in SwitchState
    BY <1>1, TickIs
  <2>2. /\ discovery.age \in Nat /\ switch.age \in Nat /\ discovery'.age \in Nat
        /\ switch'.age \in Nat
    BY <1>1, <2>1, Counts DEF TypeOK, DiscoveryState, SwitchState
  <2> QED
    BY <1>1, <2>2, TickIs
<1>5. /\ TablesType' /\ TablesOK'
      /\ \A e \in TableEntry : /\ Aged(e).source = e.source /\ Same(Aged(e), e)
                               /\ Aged(e).quarantined = e.quarantined
      /\ \A e \in TableEntry : e.age < Timeout => Aged(e).age = e.age + 1
      /\ \A e \in Alive(expectations') : \E f \in Alive(expectations) : e = Aged(f)
      /\ \A e \in Table' : \E f \in Table : e = Aged(f)
  BY <1>1, AgedTables DEF Tick
<1>6. /\ Alive(expectations) \subseteq TableEntry /\ Table \subseteq TableEntry
      /\ \A e \in TableEntry : e.joint \in Joints /\ e.age \in Nat
      /\ \A e \in Table : e.age < Timeout
  BY <1>1, EntryFacts
<1>7. /\ Twins' /\ Covered' /\ Locked'
      /\ \A e \in Alive(expectations') : ~e.quarantined =>
           \A k \in DOMAIN wire'[e.joint] :
             Alike(e, wire'[e.joint][k]) => wire'[e.joint][k].fate # "stale"
  BY TickCover
<1>8. WireOK' /\ OrderOK' /\ NoThree'
  BY <1>1, <1>3, ThinsShape DEF Still, Traffic
<1>9. AnsweredOK' /\ ReadTrue' /\ ModeTrue'
  BY <1>1, <1>3, <1>4, StillTrue, StillMode DEF Traffic
<1>10. Fresh'
  <2> SUFFICES ASSUME NEW e \in Alive(expectations'), ~e.quarantined, e.source = "DISCOVERY"
               PROVE  /\ discovery'.state = "WAITING" /\ IsAsked(e.joint, e, discovery')
                      /\ discovery'.age <= e.age
    BY <1>7 DEF Fresh
  <2>1. PICK f \in Alive(expectations) : e = Aged(f)
    BY <1>5
  <2>2. /\ f \in TableEntry /\ f.age < Timeout /\ f.age \in Nat
        /\ e.source = f.source /\ Same(e, f) /\ e.quarantined = f.quarantined
        /\ e.age = f.age + 1
    <3>1. f \in TableEntry /\ f.age < Timeout /\ f.age \in Nat
      BY <1>6 DEF Alive
    <3> QED
      BY <1>5, <2>1, <3>1
  <2>3. /\ discovery.state = "WAITING" /\ IsAsked(f.joint, f, discovery)
        /\ discovery.age <= f.age
    BY <1>1, <2>2 DEF Traffic, Fresh
  <2>4. discovery'.age <= e.age
    BY <1>4, <2>2, <2>3
  <2>5. IsAsked(e.joint, e, discovery')
    BY <1>4, <2>2, <2>3 DEF IsAsked, Same
  <2> QED
    BY <1>4, <2>3, <2>4, <2>5
<1>11. CurrentOK'
  <2> SUFFICES ASSUME NEW j \in Joints, NEW k \in DOMAIN wire[j], Own(wire'[j][k])
               PROVE  /\ wire'[j][k].source = "DISCOVERY" =>
                           /\ discovery'.state = "WAITING"
                           /\ IsAsked(j, wire'[j][k], discovery')
                           /\ discovery'.age <= wire'[j][k].age
                      /\ wire'[j][k].source = "MODE_READ" =>
                           /\ switch'.state = "READ_WAITING" /\ switch'.joint = j
                           /\ switch'.age <= wire'[j][k].age
                      /\ wire'[j][k].source = "MODE_WRITE" /\ switch'.state = "WRITING" =>
                           j < switch'.joint
    BY <1>3 DEF CurrentOK
  <2> DEFINE x == wire[j][k]
             y == wire'[j][k]
  <2>1. /\ y.source = x.source /\ Alike(y, x) /\ y.age = x.age + 1 /\ x.age \in Nat
        /\ Own(x)
    BY <1>3 DEF Own
  <2>2. /\ x.source = "DISCOVERY" =>
             /\ discovery.state = "WAITING" /\ IsAsked(j, x, discovery)
             /\ discovery.age <= x.age
        /\ x.source = "MODE_READ" =>
             /\ switch.state = "READ_WAITING" /\ switch.joint = j /\ switch.age <= x.age
        /\ x.source = "MODE_WRITE" /\ switch.state = "WRITING" => j < switch.joint
    BY <1>1, <2>1 DEF Traffic, CurrentOK
  <2> HIDE DEF x, y
  <2>3. IsAsked(j, x, discovery) => IsAsked(j, y, discovery')
    BY <1>4, <2>1 DEF IsAsked, Alike
  <2>4. /\ discovery.age <= x.age => discovery'.age <= y.age
        /\ switch.age <= x.age => switch'.age <= y.age
    BY <1>4, <2>1
  <2> QED
    BY <1>4, <2>1, <2>2, <2>3, <2>4 DEF y
<1>12. Pending' = Pending /\ (Requesting' <=> Requesting) /\ Pending \subseteq Joints
  BY <1>1, <1>4 DEF Pending, Requesting, TypeOK, DiscoveryState
<1>13. BootOK'
  <2> SUFFICES ASSUME Requesting, ~discovery.active
               PROVE  BootOK'
    BY <1>4, <1>12 DEF BootOK
  <2>1. /\ \A i \in Joints : \A k \in DOMAIN wire[i] : At(i, k) =>
             /\ discovery.state = "WAITING" /\ Sound(wire[i][k])
             /\ discovery.age <= wire[i][k].age
        /\ \A i, l \in Joints : \A k \in DOMAIN wire[i], n \in DOMAIN wire[l] :
             At(i, k) /\ At(l, n) => i = l /\ k = n
        /\ \A i \in Pending : \A k \in DOMAIN wire[i] : wire[i][k].source \notin ModeSources
    BY <1>1 DEF Traffic, BootOK
  <2>2. \A i \in Joints : \A k \in DOMAIN wire[i] : At(i, k)' <=> At(i, k)
    BY <1>3 DEF At
  <2>3. ASSUME NEW i \in Joints, NEW k \in DOMAIN wire[i], At(i, k)
        PROVE  /\ discovery'.state = "WAITING" /\ Sound(wire'[i][k])
               /\ discovery'.age <= wire'[i][k].age
    <3> DEFINE x == wire[i][k]
               y == wire'[i][k]
    <3>1. y.fate = x.fate /\ y.age = x.age + 1 /\ x.age \in Nat
      BY <1>3
    <3>2. discovery.state = "WAITING" /\ Sound(x) /\ discovery.age <= x.age
      BY <2>1, <2>3
    <3> HIDE DEF x, y
    <3>3. discovery'.age <= y.age /\ Sound(y)
      BY <1>4, <3>1, <3>2 DEF Sound
    <3> QED
      BY <1>4, <3>2, <3>3 DEF y
  <2>4. \A i \in Pending : \A k \in DOMAIN wire[i] : wire'[i][k].source \notin ModeSources
    <3> SUFFICES ASSUME NEW i \in Pending, NEW k \in DOMAIN wire[i]
                 PROVE  wire'[i][k].source \notin ModeSources
      OBVIOUS
    <3>1. i \in Joints
      BY <1>12
    <3> QED
      BY <1>3, <2>1, <3>1
  <2>5. \A i \in Pending : i \in Joints
    BY <1>12
  <2> QED
    BY <1>3, <1>12, <2>1, <2>2, <2>3, <2>4, <2>5 DEF BootOK
<1>14. VerifiedOK'
  BY <1>1, <1>4, <1>12 DEF Traffic, VerifiedOK
<1>15. ReadWhilePending'
  <2>1. \A j \in Joints : \A k \in DOMAIN wire[j] :
          ModeRead(wire'[j][k]) => ModeRead(wire[j][k])
    BY <1>3 DEF ModeRead, Alike
  <2> QED
    BY <1>1, <1>3, <1>4, <2>1 DEF Traffic, ReadWhilePending
<1>16. \A e \in Tombstones' : \E f \in Tombstones : e.age = f.age + 1
  <2> SUFFICES ASSUME NEW e \in Tombstones'
               PROVE  \E f \in Tombstones : e.age = f.age + 1
    OBVIOUS
  <2>1. e \in Table' /\ e.quarantined
    BY <1>5, TombstonesAfter
  <2>2. PICK f \in Table : e = Aged(f)
    BY <1>5, <2>1
  <2>3. f \in TableEntry /\ f.age < Timeout
    BY <1>6
  <2>4. e.age = f.age + 1 /\ f.quarantined
    BY <1>5, <2>1, <2>2, <2>3
  <2>5. f \in Tombstones
    BY <1>1, <2>4, TombstonesAre
  <2> QED
    BY <2>4, <2>5
<1> QED
  BY <1>3, <1>5, <1>7, <1>8, <1>9, <1>10, <1>11, <1>13, <1>14, <1>15, <1>16 DEF Traffic

\* The end of the cycle.
LEMMA TickStep ==
  ASSUME IInv, Tick
  PROVE  IInv'
<1>1. TypeOK /\ Course
  BY DEF IInv
<1>2. /\ discovery' \in DiscoveryState /\ discovery'.state = discovery.state
      /\ discovery'.target = discovery.target /\ discovery'.joint = discovery.joint
      /\ discovery'.register = discovery.register
      /\ discovery'.attempts = discovery.attempts /\ discovery'.active = discovery.active
      /\ discovery.state = "WAITING" /\ discovery.age < Timeout =>
           discovery'.age = discovery.age + 1
      /\ switch' \in SwitchState /\ switch'.state = switch.state
      /\ switch'.mode = switch.mode /\ switch'.mask = switch.mask
      /\ switch'.joint = switch.joint
      /\ switch.state # "READ_WAITING" => switch'.age = switch.age
      /\ action' \in ActionState /\ action'.kind = action.kind /\ action'.mask = action.mask
      /\ action'.mode = action.mode /\ action'.elapsed <= action.elapsed + 1
      /\ turn = "network" /\ turn' = "service"
      /\ verified' = verified /\ complete' = complete /\ observed' = observed
      /\ drive' = drive
  BY <1>1, TickIs
<1>3. /\ WireType' /\ TablesType' /\ TablesOK' /\ Traffic'
      /\ \A e \in Tombstones' : \E f \in Tombstones : e.age = f.age + 1
  BY TickTraffic
<1>4. Pending' = Pending /\ (Requesting' <=> Requesting)
  BY <1>2 DEF Pending, Requesting
<1>5. TypeOK'
  BY <1>1, <1>2, <1>3 DEF TypeOK, ResultsType, TurnType, DriveType
<1>6. ActiveOK'
  <2>1. Blocks' => Blocks
    BY <1>3 DEF Blocks
  <2> QED
    BY <1>1, <1>2, <1>4, <2>1 DEF Course, ActiveOK
<1>7. SwitchOK'
  <2>1. switch.state \in {"WRITING", "READ_READY"} => switch'.age = switch.age
    BY <1>2
  <2> QED
    BY <1>1, <1>2, <2>1 DEF Course, SwitchOK
<1>8. ProgressOK'
  BY <1>1, <1>2, <1>4 DEF Course, ProgressOK
<1>9. TimeOK'
  <2> SUFFICES ASSUME action.kind = "DISCOVERY"
               PROVE  TimeOK'
    BY <1>2 DEF TimeOK
  <2> DEFINE spent == action.elapsed
             ready == Budget(Slot(discovery.joint, discovery.register, 0))
             waiting == Budget(Slot(discovery.joint, discovery.register,
                                    discovery.attempts - 1))
             total == Budget(Slots) + 1
  <2>1. /\ discovery.state = "READY" => discovery.attempts = 0 /\ spent + 1 <= ready
        /\ discovery.state = "WAITING" =>
             /\ discovery.attempts \in 1..Attempts /\ discovery.age < Timeout
             /\ spent <= discovery.age + waiting
        /\ ~Requesting => spent + 1 <= total
        /\ discovery.active => \A e \in Tombstones : spent <= e.age
    BY <1>1, <1>2 DEF Course, TimeOK
  <2>2. spent \in Nat /\ action'.elapsed \in Nat /\ action'.elapsed <= spent + 1
    BY <1>1, <1>2 DEF TypeOK, ActionState
  <2>3. /\ discovery.state = "READY" => ready \in Nat
        /\ discovery.state = "WAITING" => waiting \in Nat
        /\ total \in Nat /\ discovery.age \in Nat
    <3>1. VerifiedOK /\ discovery \in DiscoveryState
      BY DEF IInv, Traffic, TypeOK
    <3>2. /\ discovery.register \in 1..Len(Registers) /\ discovery.age \in Nat
          /\ Requesting => discovery.joint \in 1..N
      BY <3>1, Reading
    <3>3. ASSUME Requesting, NEW n \in Nat
          PROVE  Budget(Slot(discovery.joint, discovery.register, n)) \in Nat
      <4>1. Slot(discovery.joint, discovery.register, n) \in Nat
        BY <3>2, <3>3, SlotIs
      <4> QED
        BY <4>1, BudgetIs
    <3>4. 0 \in Nat /\ (discovery.state = "WAITING" => discovery.attempts - 1 \in Nat)
      BY <2>1, Counts
    <3>5. discovery.state \in {"READY", "WAITING"} => Requesting
      BY DEF Requesting
    <3>6. discovery.state = "READY" => ready \in Nat
      BY <3>3, <3>4, <3>5
    <3>7. discovery.state = "WAITING" => waiting \in Nat
      <4> SUFFICES ASSUME discovery.state = "WAITING"
                   PROVE  waiting \in Nat
        OBVIOUS
      <4>1. Requesting /\ discovery.attempts - 1 \in Nat
        BY <3>4, <3>5
      <4> QED
        BY <3>3, <4>1
    <3>8. total \in Nat
      <4>1. Budget(Slots) \in Nat
        BY DeadlineIs
      <4> QED
        BY <4>1
    <3> QED
      BY <3>2, <3>6, <3>7, <3>8
  <2>4. discovery.active => \A e \in Tombstones' : action'.elapsed <= e.age
    <3> SUFFICES ASSUME discovery.active, NEW e \in Tombstones'
                 PROVE  action'.elapsed <= e.age
      OBVIOUS
    <3>1. PICK f \in Tombstones : e.age = f.age + 1
      BY <1>3
    <3>2. spent <= f.age
      BY <2>1
    <3>3. f.age \in Nat
      <4>1. TablesType /\ TablesOK
        BY DEF IInv, TypeOK
      <4> QED
        BY <4>1, EntryFacts, TombstonesAre
    <3> HIDE DEF spent
    <3> QED
      BY <2>2, <3>1, <3>2, <3>3
  <2> HIDE DEF spent, ready, waiting, total
  <2>5. /\ discovery.state = "READY" => action'.elapsed <= ready
        /\ discovery.state = "WAITING" => action'.elapsed <= discovery'.age + waiting
        /\ ~Requesting => action'.elapsed <= total
    BY <1>2, <2>1, <2>2, <2>3
  <2>6. /\ discovery.state = "READY" =>
             action'.elapsed + (IF turn' = "network" THEN 1 ELSE 0) <= ready
        /\ ~Requesting =>
             action'.elapsed + (IF turn' = "network" THEN 1 ELSE 0) <= total
    BY <1>2, <2>2, <2>5
  <2> QED
    BY <1>2, <1>4, <2>1, <2>4, <2>5, <2>6 DEF TimeOK, ready, waiting, total
<1> QED
  BY <1>3, <1>5, <1>6, <1>7, <1>8, <1>9 DEF IInv, Course

-----------------------------------------------------------------------------
(* The specification.                                                       *)

LEMMA InitStep ==
  ASSUME Init
  PROVE  IInv
<1>1. /\ discovery = [state |-> "READY", target |-> Joints, joint |-> 1, register |-> 1,
                      attempts |-> 0, age |-> 0, active |-> FALSE]
      /\ verified = [j \in Joints |-> {}] /\ complete = {}
      /\ observed = [j \in Joints |-> None]
      /\ switch = [state |-> "IDLE", mode |-> None, mask |-> {}, joint |-> 1,
                   attempts |-> 0, rollover |-> FALSE, age |-> 0]
      /\ expectations = <<>> /\ quarantine = <<>>
      /\ action = [kind |-> "IDLE", shot |-> FALSE, mask |-> {}, mode |-> None,
                   elapsed |-> 0]
      /\ turn = "service"
      /\ drive \in [Joints -> Modes \cup {"BAD"}]
      /\ wire = [j \in Joints |-> <<>>]
  BY DEF Init, Idle
<1>2. /\ 1 \in Joints /\ 1 \in 1..(N + 1) /\ 1 \in 1..Len(Registers) /\ 0 \in 0..Timeout
      /\ 0 \in Nat
  BY Numbers DEF Joints
<1>3. discovery \in DiscoveryState /\ Requesting /\ discovery.joint \in discovery.target
  BY <1>1, <1>2 DEF DiscoveryState, Requesting
<1>4. switch \in SwitchState /\ action \in ActionState
  BY <1>1, <1>2 DEF SwitchState, ActionState
<1>5. ResultsType /\ TablesType /\ TurnType /\ DriveType /\ WireType
  BY <1>1 DEF ResultsType, TablesType, TurnType, DriveType, WireType, Values
<1>6. \A j \in Joints : DOMAIN wire[j] = {} /\ verified[j] = {}
  BY <1>1
<1>7. ToSet(expectations) = {} /\ ToSet(quarantine) = {}
  BY <1>1 DEF ToSet
<1>8. Alive(expectations) = {} /\ Alive(quarantine) = {} /\ Table = {}
  BY <1>7 DEF Alive, Table
<1>9. TypeOK
  BY <1>3, <1>4, <1>5 DEF TypeOK
<1>10. TablesOK
  <2>1. Len(expectations) <= Capacity /\ DOMAIN expectations = {}
    BY <1>1, Counts
  <2> QED
    BY <1>7, <2>1 DEF TablesOK, TableOK, Unique
<1>11. /\ WireOK /\ AnsweredOK /\ OrderOK /\ Twins /\ Covered /\ CurrentOK
       /\ ReadWhilePending /\ ReadTrue
  BY <1>6 DEF WireOK, AnsweredOK, OrderOK, Twins, Covered, CurrentOK, ReadWhilePending,
              ReadTrue
<1>12. Fresh /\ NoThree /\ Locked /\ BootOK
  <2>1. Pending \subseteq Joints
    BY <1>1 DEF Pending
  <2> QED
    BY <1>6, <1>8, <2>1 DEF Fresh, NoThree, Locked, BootOK
<1>13. VerifiedOK /\ ModeTrue
  <2>1. \A j \in Pending : verified[j] = {}
    BY <1>1, <1>6 DEF Pending
  <2> QED
    BY <1>1, <1>3, <1>6, <2>1 DEF VerifiedOK, ModeTrue
<1>14. ActiveOK /\ SwitchOK /\ ProgressOK /\ TimeOK
  BY <1>1 DEF ActiveOK, SwitchOK, ProgressOK, TimeOK, Switching
<1> QED
  BY <1>9, <1>10, <1>11, <1>12, <1>13, <1>14 DEF IInv, Traffic, Course

LEMMA NextStep ==
  ASSUME IInv, [Next]_vars
  PROVE  IInv'
<1>1. CASE Service
  BY <1>1, ServiceStep
<1>2. CASE Pump
  BY <1>2, DiscoveryPump, ModePump DEF Pump
<1>3. CASE Network
  BY <1>3, NetworkStep
<1>4. CASE Tick
  BY <1>4, TickStep
<1>5. CASE UNCHANGED vars
  <2>1. /\ discovery' = discovery /\ verified' = verified /\ complete' = complete
        /\ observed' = observed /\ switch' = switch /\ expectations' = expectations
        /\ quarantine' = quarantine /\ action' = action /\ turn' = turn
        /\ drive' = drive /\ wire' = wire
    BY <1>5 DEF vars, results, tables
  <2>2. Requesting' = Requesting /\ Pending' = Pending /\ Table' = Table
        /\ Tombstones' = Tombstones /\ Blocks' = Blocks
    BY <2>1 DEF Requesting, Pending, Table, Tombstones, Blocks
  <2>3. TypeOK' /\ TablesOK'
    BY <2>1 DEF IInv, TypeOK, TablesOK, ResultsType, TablesType, TurnType, DriveType,
                WireType
  <2>4. WireOK' /\ AnsweredOK' /\ OrderOK' /\ Twins' /\ Covered' /\ Fresh' /\ CurrentOK'
    BY <2>1, <2>2 DEF IInv, Traffic, WireOK, AnsweredOK, OrderOK, Twins, Covered, Fresh,
                      CurrentOK
  <2>5. \A i, k : At(i, k)' <=> At(i, k)
    BY <2>1 DEF At
  <2>6. NoThree' /\ Locked' /\ BootOK'
    BY <2>1, <2>2, <2>5 DEF IInv, Traffic, NoThree, Locked, BootOK
  <2>7. VerifiedOK' /\ ReadWhilePending' /\ ModeTrue' /\ ReadTrue'
    BY <2>1, <2>2 DEF IInv, Traffic, VerifiedOK, ReadWhilePending, ModeTrue, ReadTrue
  <2>8. ActiveOK' /\ SwitchOK' /\ ProgressOK' /\ TimeOK'
    BY <2>1, <2>2 DEF IInv, Course, ActiveOK, SwitchOK, ProgressOK, TimeOK
  <2> QED
    BY <2>3, <2>4, <2>6, <2>7, <2>8 DEF IInv, Traffic, Course
<1> QED
  BY <1>1, <1>2, <1>3, <1>4, <1>5 DEF Next

\* What the invariant says of an answer that arrives.
LEMMA ArrivalIs ==
  ASSUME IInv, NEW j \in Joints, Arriving(j)
  PROVE  /\ Head(wire[j]).fate # "orphan" => Route(j) # "feedback"
         /\ Head(wire[j]).fate = "stale" => Route(j) \notin {"readback", "discovered"}
<1>1. /\ TablesType /\ TablesOK /\ WireType /\ Covered /\ CurrentOK /\ Fresh
  BY DEF IInv, TypeOK, Traffic
<1>2. wire[j] # <<>>
  BY DEF Arriving
<1>3. Head(wire[j]) = wire[j][1]
  <2>1. wire[j] \in Seq(Item)
    BY <1>1 DEF WireType
  <2> QED
    BY <1>2, <2>1, HeadTailProperties
<1>4. /\ Sound(wire[j][1]) => Route(j) # "feedback"
      /\ wire[j][1].fate = "stale" => Route(j) \notin {"readback", "discovered"}
  BY <1>1, <1>2, RouteIs
<1> QED
  BY <1>3, <1>4 DEF Sound

\* The inductive invariant: the traffic of the discovery and of the mode switch, the
\* tables that cover it, and the course of both sequences.
THEOREM MotorInvariant == Spec => []IInv
<1>1. Init => IInv
  BY InitStep
<1>2. IInv /\ [Next]_vars => IInv'
  BY NextStep
<1> QED
  BY <1>1, <1>2, PTL DEF Spec

\* The receive path never decodes the answer to a parameter request as feedback
\* of the drive, but for that to a discovery that was started over: for any number
\* of joints and registers, any timeout, retries and capacity, and whatever is lost,
\* late, aborted or overtaken.
THEOREM AnswersAreRecognised == Spec => []AnswerRecognised
<1>1. IInv => AnswerRecognised
  BY ArrivalIs DEF AnswerRecognised
<1> QED
  BY <1>1, MotorInvariant, PTL

\* What an aborted or overtaken sequence asked for is never taken for the readback
\* of the mode switch or for the answer to the discovery that runs now.
THEOREM AnswersAreCurrent == Spec => []AnswerIsCurrent
<1>1. IInv => AnswerIsCurrent
  BY ArrivalIs DEF AnswerIsCurrent
<1> QED
  BY <1>1, MotorInvariant, PTL

\* A mode that is marked verified is the mode the drive is in, and a joint of the
\* verified mask has every field.
THEOREM ReadBacksAreTrue == Spec => []ReadBackIsTrue
<1>1. IInv => ReadBackIsTrue
  BY DEF IInv, Traffic, ModeTrue, VerifiedOK, ReadBackIsTrue
<1> QED
  BY <1>1, MotorInvariant, PTL

\* A discovery ends before AETHOR_APP_DISCOVERY_TIMEOUT_US cuts its action off, even
\* if every request needs its last attempt and tombstones hold back the first.
THEOREM DiscoveriesEndInTime == Spec => []DiscoveryInTime
<1>1. IInv => DiscoveryInTime
  BY InTime DEF IInv, TypeOK, Traffic, Course
<1> QED
  BY <1>1, MotorInvariant, PTL
=============================================================================
