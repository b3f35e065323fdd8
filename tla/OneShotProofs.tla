---------------------------- MODULE OneShotProofs ---------------------------
(***************************************************************************)
(* Proofs about the bench actions of OneShotAction, for every number of     *)
(* joints, both kinds of build and any number of actions, STOPs, faults and *)
(* frames: what the runtime has verified is true, no ENABLE meets the wrong *)
(* mode, and what an action enabled is disabled in the end.                 *)
(***************************************************************************)
EXTENDS OneShotAction, SequenceTheorems, WellFoundedInduction, TLAPS

-----------------------------------------------------------------------------
(* Selecting entries of a sequence.                                        *)

\* A set of natural numbers has a least element.
LEMMA Least ==
  ASSUME NEW T, T \subseteq Nat, T # {}
  PROVE  \E n \in T : \A m \in T : n <= m
<1> DEFINE R == OpToRel(<, Nat)
<1>1. IsWellFoundedOn(R, Nat)
  BY NatLessThanWellFounded
<1>2. \A a, b \in Nat : a < b => <<a, b>> \in R
  BY DEF OpToRel
<1> HIDE DEF R
<1>3. \E n \in T : \A m \in T : ~(<<m, n>> \in R)
  BY <1>1, WFMin, Zenon
<1>4. ASSUME NEW n \in T, \A m \in T : ~(<<m, n>> \in R), NEW m \in T
      PROVE  n <= m
  <2>1. n \in Nat /\ m \in Nat
    OBVIOUS
  <2>2. ~(m < n)
    BY <1>2, <1>4, <2>1
  <2> QED
    BY <2>1, <2>2
<1> QED
  BY <1>3, <1>4

\* What holds at zero and is passed on holds up to N.
LEMMA Climb ==
  ASSUME NEW N \in Nat, NEW T, 0 \in T,
         \A n \in 1..N : n - 1 \in T => n \in T
  PROVE  0..N \subseteq T
<1> DEFINE U == (0..N) \ T
<1>1. SUFFICES ASSUME U # {} PROVE FALSE
  OBVIOUS
<1>2. U \subseteq Nat
  OBVIOUS
<1>3. PICK n \in U : \A m \in U : n <= m
  BY <1>1, <1>2, Least
<1>4. n \in 1..N /\ n - 1 \in 0..N /\ ~(n <= n - 1)
  BY <1>3
<1>5. n - 1 \in T
  BY <1>3, <1>4
<1> QED
  BY <1>3, <1>4, <1>5

\* One turn of the recursion of Kept.
Turn(s, K, g, n) ==
  IF n = 0 THEN <<>> ELSE IF n \in K THEN Append(g[n - 1], s[n]) ELSE g[n - 1]

\* The recursion defines a function.
LEMMA KeptUnfolds ==
  ASSUME NEW S, NEW s \in Seq(S), NEW K
  PROVE  \E f : /\ f = [n \in 0..Len(s) |-> Turn(s, K, f, n)]
                /\ Kept(s, K) = f[Len(s)]
<1> DEFINE Is(g, m) == g = [n \in 0..m |-> Turn(s, K, g, n)]
           T == {m \in 0..Len(s) : \E g : Is(g, m)}
<1>1. Len(s) \in Nat
  OBVIOUS
<1>2. 0 \in T
  <2> DEFINE g == [n \in 0..0 |-> <<>>]
  <2>1. g = [n \in 0..0 |-> Turn(s, K, g, n)]
    BY DEF Turn
  <2> HIDE DEF g
  <2> QED
    BY <1>1, <2>1
<1>3. ASSUME NEW m \in 1..Len(s), m - 1 \in T
      PROVE  m \in T
  <2>1. PICK g : Is(g, m - 1)
    BY <1>3
  <2> DEFINE h == [n \in 0..m |-> IF n = m THEN Turn(s, K, g, m) ELSE g[n]]
  <2>2. m \in Nat /\ m - 1 \in Nat /\ m # 0
    BY <1>1
  <2>3. \A n \in 0..(m - 1) : n # m /\ n \in 0..m
    BY <2>2
  <2>4. \A n \in 0..(m - 1) : h[n] = g[n]
    BY <2>3
  <2>5. \A n \in 0..m : n # 0 => n - 1 \in 0..(m - 1)
    BY <2>2
  <2>6. \A n \in 0..m : h[n] = Turn(s, K, h, n)
    <3>1. \A n \in 0..m : Turn(s, K, h, n) = Turn(s, K, g, n)
      BY <2>4, <2>5 DEF Turn
    <3>2. \A n \in 0..(m - 1) : g[n] = Turn(s, K, g, n)
      BY <2>1
    <3>3. \A n \in 0..m : n = m \/ n \in 0..(m - 1)
      BY <2>2
    <3>4. h[m] = Turn(s, K, g, m)
      BY <2>2
    <3> QED
      BY <2>4, <3>1, <3>2, <3>3, <3>4
  <2>7. Is(h, m)
    BY <2>6
  <2> HIDE DEF h
  <2> QED
    BY <2>7
<1> HIDE DEF T
<1>4. Len(s) \in T
  <2>1. 0..Len(s) \subseteq T
    BY <1>1, <1>2, <1>3, Climb, Zenon
  <2>2. Len(s) \in 0..Len(s)
    BY <1>1
  <2> QED
    BY <2>1, <2>2
<1>5. \E g : Is(g, Len(s))
  BY <1>4 DEF T
<1> DEFINE f == CHOOSE g : Is(g, Len(s))
<1>6. Is(f, Len(s))
  BY <1>5
<1>7. Kept(s, K) = f[Len(s)]
  BY Zenon DEF Kept, Turn
<1> QED
  BY <1>6, <1>7

\* e says where the entries of t, the selection from the first n entries of s,
\* come from.
Places(s, K, n, t, e) ==
  /\ e \in [1..Len(t) -> 1..n]
  /\ \A a \in 1..Len(t) : e[a] \in K /\ t[a] = s[e[a]]
  /\ \A a, b \in 1..Len(t) : a < b => e[a] < e[b]
  /\ \A k \in 1..n : k \in K => \E a \in 1..Len(t) : e[a] = k

\* Kept selects exactly the entries asked for, in their order.
LEMMA KeptPlaces ==
  ASSUME NEW S, NEW s \in Seq(S), NEW K
  PROVE  /\ Kept(s, K) \in Seq(S)
         /\ \E e : Places(s, K, Len(s), Kept(s, K), e)
<1>1. PICK f : /\ f = [n \in 0..Len(s) |-> Turn(s, K, f, n)]
               /\ Kept(s, K) = f[Len(s)]
  BY KeptUnfolds
<1> DEFINE T == {n \in 0..Len(s) : /\ f[n] \in Seq(S)
                                   /\ \E e : Places(s, K, n, f[n], e)}
<1>2. Len(s) \in Nat /\ \A n \in 1..Len(s) : s[n] \in S
  OBVIOUS
<1>3. 0 \in T
  <2> DEFINE none == <<>>
             e == [a \in 1..0 |-> 0]
  <2>1. f[0] = none
    BY <1>1, <1>2 DEF Turn
  <2>2. none \in Seq(S) /\ Len(none) = 0
    OBVIOUS
  <2> HIDE DEF none
  <2>3. 1..Len(none) = {} /\ 1..0 = {}
    BY <2>2
  <2>4. e \in [1..Len(none) -> 1..0]
    BY <2>3
  <2> HIDE DEF e
  <2>5. Places(s, K, 0, none, e)
    BY <2>3, <2>4, Zenon DEF Places
  <2>6. 0 \in 0..Len(s)
    BY <1>2
  <2>7. f[0] \in Seq(S) /\ Places(s, K, 0, f[0], e)
    BY <2>1, <2>2, <2>5
  <2> QED
    BY <2>6, <2>7, Zenon
<1>4. ASSUME NEW n \in 1..Len(s), n - 1 \in T
      PROVE  n \in T
  <2>1. n \in Nat /\ n # 0 /\ n \in 0..Len(s) /\ n - 1 \in Nat /\ s[n] \in S
    BY <1>2
  <2> DEFINE t == f[n - 1]
  <2>2. t \in Seq(S)
    BY <1>4
  <2>3. PICK e : Places(s, K, n - 1, t, e)
    BY <1>4
  <2>4. f[n] = IF n \in K THEN Append(t, s[n]) ELSE t
    BY <1>1, <2>1 DEF Turn
  <2> HIDE DEF t
  <2>5. Len(t) \in Nat
    BY <2>2
  <2>6. /\ e \in [1..Len(t) -> 1..(n - 1)]
        /\ \A a \in 1..Len(t) : e[a] \in K /\ t[a] = s[e[a]]
        /\ \A a, b \in 1..Len(t) : a < b => e[a] < e[b]
        /\ \A k \in 1..(n - 1) : k \in K => \E a \in 1..Len(t) : e[a] = k
    BY <2>3 DEF Places
  <2>7. CASE n \notin K
    <3>1. e \in [1..Len(t) -> 1..n]
      BY <2>1, <2>6
    <3>2. \A k \in 1..n : k \in K => k \in 1..(n - 1)
      BY <2>1, <2>7
    <3>3. Places(s, K, n, t, e)
      BY <2>6, <3>1, <3>2 DEF Places
    <3> QED
      BY <2>1, <2>2, <2>4, <2>7, <3>3
  <2>8. CASE n \in K
    <3> DEFINE u == Append(t, s[n])
               d == [a \in 1..(Len(t) + 1) |-> IF a = Len(t) + 1 THEN n ELSE e[a]]
    <3>1. /\ u \in Seq(S) /\ Len(u) = Len(t) + 1
          /\ \A a \in 1..Len(t) : u[a] = t[a]
          /\ u[Len(t) + 1] = s[n]
      BY <2>1, <2>2
    <3> HIDE DEF u
    <3>2. \A a \in 1..(Len(t) + 1) : a = Len(t) + 1 \/ a \in 1..Len(t)
      BY <2>5
    <3>3. \A a \in 1..Len(t) : /\ a # Len(t) + 1 /\ d[a] = e[a]
                               /\ e[a] \in 1..(n - 1) /\ e[a] < n
      BY <2>1, <2>5, <2>6
    <3>4. Len(t) + 1 \in 1..(Len(t) + 1) /\ d[Len(t) + 1] = n
      BY <2>5
    <3>5. d \in [1..Len(u) -> 1..n]
      <4>1. n \in 1..n /\ 1..(n - 1) \subseteq 1..n
        BY <2>1
      <4>2. \A a \in 1..(Len(t) + 1) : d[a] \in 1..n
        BY <3>2, <3>3, <3>4, <4>1
      <4>3. d = [a \in 1..(Len(t) + 1) |-> d[a]]
        OBVIOUS
      <4> HIDE DEF d
      <4> QED
        BY <3>1, <4>2, <4>3
    <3>6. \A a \in 1..Len(u) : d[a] \in K /\ u[a] = s[d[a]]
      BY <2>6, <2>8, <3>1, <3>2, <3>3, <3>4
    <3>7. ASSUME NEW a \in 1..Len(u), NEW b \in 1..Len(u), a < b
          PROVE  d[a] < d[b]
      <4>1. a \in 1..Len(t)
        BY <2>5, <3>1, <3>7
      <4>2. CASE b \in 1..Len(t)
        <5>1. d[a] = e[a] /\ d[b] = e[b]
          BY <3>3, <4>1, <4>2
        <5>2. e[a] < e[b]
          BY <2>6, <3>7, <4>1, <4>2
        <5> QED
          BY <5>1, <5>2
      <4>3. CASE b = Len(t) + 1
        BY <3>3, <3>4, <4>1, <4>3
      <4> QED
        BY <3>1, <3>2, <4>2, <4>3
    <3>8. ASSUME NEW k \in 1..n, k \in K
          PROVE  \E a \in 1..Len(u) : d[a] = k
      <4>1. CASE k = n
        BY <3>1, <3>4, <4>1
      <4>2. CASE k # n
        <5>1. k \in 1..(n - 1)
          BY <2>1, <4>2
        <5>2. PICK a \in 1..Len(t) : e[a] = k
          BY <2>6, <3>8, <5>1
        <5>3. a \in 1..Len(u)
          BY <2>5, <3>1
        <5> QED
          BY <3>3, <5>2, <5>3
      <4> QED
        BY <4>1, <4>2
    <3> HIDE DEF d
    <3>9. Places(s, K, n, u, d)
      BY <3>5, <3>6, <3>7, <3>8 DEF Places
    <3>10. f[n] = u
      BY <2>4, <2>8 DEF u
    <3> QED
      BY <2>1, <3>1, <3>9, <3>10
  <2> QED
    BY <2>7, <2>8
<1> HIDE DEF T
<1>5. 0..Len(s) \subseteq T
  BY <1>2, <1>3, <1>4, Climb, Zenon
<1>6. Len(s) \in 0..Len(s)
  BY <1>2
<1> QED
  BY <1>1, <1>5, <1>6 DEF T

\* The same over the domains: where the entries of t come from in s.
Drawn(s, K, t, e) ==
  /\ e \in [DOMAIN t -> DOMAIN s]
  /\ \A a \in DOMAIN t : e[a] \in K /\ t[a] = s[e[a]]
  /\ \A a, b \in DOMAIN t : a < b => e[a] < e[b]
  /\ \A k \in DOMAIN s : k \in K => \E a \in DOMAIN t : e[a] = k

\* A selection is drawn from its sequence, in order and whole.
LEMMA KeptDraws ==
  ASSUME NEW S, NEW s \in Seq(S), NEW K
  PROVE  /\ Kept(s, K) \in Seq(S)
         /\ \E e : Drawn(s, K, Kept(s, K), e)
<1>1. Kept(s, K) \in Seq(S)
  BY KeptPlaces
<1> DEFINE t == Kept(s, K)
<1>2. PICK e : Places(s, K, Len(s), t, e)
  BY KeptPlaces
<1> HIDE DEF t
<1>3. DOMAIN t = 1..Len(t) /\ DOMAIN s = 1..Len(s)
  BY <1>1 DEF t
<1>4. Drawn(s, K, t, e)
  BY <1>2, <1>3, Zenon DEF Places, Drawn
<1> QED
  BY <1>1, <1>4 DEF t

-----------------------------------------------------------------------------
(* The inductive invariant.                                                *)

Phases == {"idle", "discovery", "preflight", "mode", "clear", "enable", "move",
           "hold", "disable", "cleanupHold", "cleanupDisable", "stopHold",
           "stopDisable"}
Stages == {"none", "validate", "discovery", "mode", "clear", "enable", "motion",
           "hold", "disable"}
Codes == {"none", "COMPLETED", "FAILED", "STOPPED", "CANCELLED"}
Ops == {"disable", "clear", "enable", "target", "write"}
Frames == [op : Ops, mode : Modes, joint : Joints]
Known == [Joints -> Modes \cup {"none"}]
Orders == [kind : {"move", "mit", "hold", "mode", "stop", "none"},
           mode : Modes \cup {"none"}, mask : SUBSET Joints]
Actions ==
  [phase : Phases, cmd : Orders, failed : Stages, own : BOOLEAN, sound : BOOLEAN,
   asked : BOOLEAN, batch : Seq(Frames), newer : SUBSET Joints, verified : Known,
   ended : [code : Codes, off : SUBSET Joints]]

\* What the executor s meets: the frames b on their way, the states d and the modes
\* md of the drives, the snapshot sn.
WorldType(b, d, md, sn) ==
  /\ b \in Seq(Frames)
  /\ d \in [Joints -> States]
  /\ md \in [Joints -> Modes]
  /\ sn \in [Joints -> States \cup {"none"}]

\* A frame of the kind is for the joint j.
Holds(b, op, j) == \E n \in DOMAIN b : b[n].op = op /\ b[n].joint = j

\* Every ENABLE on its way is packed for the mode its drive is in, and no write that
\* could change it is in front.
EnablesFit(b, md) ==
  \A n \in DOMAIN b :
    b[n].op = "enable" =>
      /\ b[n].mode = md[b[n].joint]
      /\ \A k \in DOMAIN b :
           k < n /\ b[k].op = "write" => b[k].joint # b[n].joint

\* The verified modes are true; a drive whose mode is being written is not verified.
Aware(s, b, md) ==
  \A j \in Joints :
    s.verified[j] # "none" => md[j] = s.verified[j] /\ ~Holds(b, "write", j)
Writing(s) ==
  \A j \in Joints :
    Holds(s.batch, "write", j) => s.phase = "mode" /\ s.verified[j] = "none"

\* The command has a control mode and the selected drives are verified to be in it.
Agreed(s) ==
  /\ s.cmd.mode \in Modes
  /\ \A j \in s.cmd.mask : s.verified[j] = s.cmd.mode
Settled(s) ==
  /\ s.phase \in {"discovery", "preflight", "mode", "stopHold"}
       => s.cmd.mode \in Modes
  /\ s.phase \in {"clear", "enable", "move", "hold", "disable", "cleanupHold"}
       => Agreed(s)

\* ENABLE is only sent in its phase, once to a drive, in the verified mode.
Starting(s) ==
  /\ \A n \in DOMAIN s.batch :
       s.batch[n].op = "enable" =>
         s.phase = "enable" /\ s.verified[s.batch[n].joint] = s.batch[n].mode
  /\ s.phase = "enable" =>
       \A m, n \in DOMAIN s.batch : s.batch[m].joint = s.batch[n].joint => m = n

\* Which histories and records an action has in which phase.
Recorded(s) ==
  /\ s.failed # "none" => s.phase \in {"cleanupHold", "cleanupDisable"}
  /\ s.asked =>
       /\ s.phase \in {"enable", "move", "hold", "disable", "cleanupHold",
                       "cleanupDisable"}
       /\ \A j \in s.cmd.mask : s.verified[j] # "none"
  /\ s.ended.off # {} => s.phase = "idle"
  /\ s.ended.code = "COMPLETED" => s.phase = "idle"

\* Once the frames are through the drive is not enabled, in the builds that withdraw:
\* it is not and no ENABLE comes, or a disable in its mode comes, behind which there
\* is no ENABLE, and in front of which there is no write.
GoesOff(b, d, md, j) ==
  \/ d[j] # "on" /\ ~Holds(b, "enable", j)
  \/ \E n \in DOMAIN b :
       /\ b[n] = Frame("disable", md[j], j)
       /\ \A k \in DOMAIN b : k > n /\ b[k].op = "enable" => b[k].joint # j
       /\ \A k \in DOMAIN b : k < n /\ b[k].op = "write" => b[k].joint # j

\* What an action answers for goes off; a disable phase has, for every drive whose
\* mode is verified, the disable still to hand over, or it goes off.
Disabling == {"disable", "cleanupDisable", "stopDisable"}
Owes(s, b, d, md) ==
  /\ \A j \in s.ended.off : GoesOff(b, d, md, j)
  /\ s.phase \in Disabling =>
       \A j \in s.cmd.mask :
         s.verified[j] # "none" =>
           \/ \E n \in DOMAIN s.batch :
                s.batch[n] = Frame("disable", s.verified[j], j)
           \/ GoesOff(b, d, md, j)

\* At most one ENABLE for j is on its way.
Once(b, j) ==
  \A m, n \in DOMAIN b :
    /\ b[m].op = "enable" /\ b[m].joint = j
    /\ b[n].op = "enable" /\ b[n].joint = j
    => m = n

\* An action that began with its drives disabled and no ENABLE under way knows, by
\* the newer feedback, whether its own ENABLE has arrived.
Certain(s, b, d, sn) ==
  s.sound => \A j \in s.cmd.mask :
    /\ s.phase \in {"mode", "clear"} => d[j] # "on" /\ ~Holds(b, "enable", j)
    /\ s.phase = "enable" =>
         /\ d[j] = "on" \/ (j \in s.newer /\ sn[j] = "on")
              => ~Holds(b, "enable", j) /\ ~Holds(s.batch, "enable", j)
         /\ Holds(s.batch, "enable", j) => ~Holds(b, "enable", j)
         /\ Once(b, j)
    /\ s.phase \in {"move", "hold", "disable"} => ~Holds(b, "enable", j)
    /\ s.phase = "disable" /\ j \in s.newer /\ sn[j] = "off" => d[j] # "on"

\* The executor s fits what it meets, in a build that withdraws or does not.
Fits(s, w, b, d, md, sn) ==
  /\ s \in Actions
  /\ Aware(s, b, md) /\ Writing(s) /\ Settled(s) /\ Starting(s) /\ Recorded(s)
  /\ w => Owes(s, b, d, md)
  /\ Certain(s, b, d, sn)

OneShotInv ==
  /\ WorldType(bus, drive, mode, seen)
  /\ EnablesFit(bus, mode)
  /\ Fits(app, withdraw, bus, drive, mode, seen)

-----------------------------------------------------------------------------
(* The batches.                                                            *)

\* The entries of a batch: one for each joint, all alike.
LEMMA BatchIs ==
  ASSUME NEW op \in Ops, NEW md \in Modes, NEW m \in SUBSET Joints
  PROVE  /\ Batch(op, md, m) \in Seq(Frames)
         /\ \A n \in DOMAIN Batch(op, md, m) :
              \E j \in m : Batch(op, md, m)[n] = Frame(op, md, j)
         /\ \A j \in m : \E n \in DOMAIN Batch(op, md, m) :
              Batch(op, md, m)[n] = Frame(op, md, j)
         /\ \A k, n \in DOMAIN Batch(op, md, m) :
              Batch(op, md, m)[k].joint = Batch(op, md, m)[n].joint => k = n
<1> DEFINE s == [j \in Joints |-> Frame(op, md, j)]
           t == Kept(s, m)
<1>1. JointCount \in Nat
  BY OneShotAssumption
<1>2. \A j \in Joints : /\ Frame(op, md, j) \in Frames
                        /\ Frame(op, md, j).joint = j
  BY DEF Frame, Frames
<1>3. s \in Seq(Frames)
  <2>1. s \in [1..JointCount -> Frames]
    BY <1>2 DEF Joints
  <2> HIDE DEF s
  <2> QED
    BY <1>1, <2>1, IsASeq
<1>4. DOMAIN s = Joints /\ \A j \in Joints : s[j] = Frame(op, md, j)
  OBVIOUS
<1>5. t = Batch(op, md, m)
  BY DEF Batch
<1> HIDE DEF s, t
<1>6. t \in Seq(Frames) /\ \E e : Drawn(s, m, t, e)
  BY <1>3, KeptDraws DEF t
<1>7. PICK e : Drawn(s, m, t, e)
  BY <1>6
<1>8. \A n \in DOMAIN t : e[n] \in m /\ t[n] = Frame(op, md, e[n])
  BY <1>4, <1>7 DEF Drawn
<1>9. \A j \in m : \E n \in DOMAIN t : t[n] = Frame(op, md, j)
  BY <1>4, <1>7 DEF Drawn
<1>10. ASSUME NEW k \in DOMAIN t, NEW n \in DOMAIN t, t[k].joint = t[n].joint
       PROVE  k = n
  <2>1. e[k] = e[n] /\ e[k] \in Joints
    BY <1>2, <1>8, <1>10
  <2>2. k \in Nat /\ n \in Nat /\ e[k] \in Nat
    BY <1>1, <1>6, <2>1 DEF Joints
  <2>3. ~(k < n) /\ ~(n < k)
    <3>1. (k < n => e[k] < e[n]) /\ (n < k => e[n] < e[k])
      BY <1>7 DEF Drawn
    <3> QED
      BY <2>1, <2>2, <3>1
  <2> QED
    BY <2>2, <2>3
<1> QED
  BY <1>5, <1>6, <1>8, <1>9, <1>10

\* The entries of an emergency disable: for each joint in its verified mode, and
\* only in it where one is verified.
LEMMA EmergencyIs ==
  ASSUME NEW v \in Known, NEW m \in SUBSET Joints
  PROVE  /\ EmergencyDisable(v, m) \in Seq(Frames)
         /\ \A n \in DOMAIN EmergencyDisable(v, m) :
              /\ EmergencyDisable(v, m)[n].op = "disable"
              /\ EmergencyDisable(v, m)[n].joint \in m
         /\ \A j \in m : v[j] # "none" =>
              \E n \in DOMAIN EmergencyDisable(v, m) :
                EmergencyDisable(v, m)[n] = Frame("disable", v[j], j)
<1> DEFINE Nth(n) == Frame("disable", IF n % 2 = 1 THEN "mit" ELSE "pos",
                           (n + 1) \div 2)
           s == [n \in 1..2 * JointCount |-> Nth(n)]
           K == {n \in DOMAIN s : /\ s[n].joint \in m
                                  /\ v[s[n].joint] \in {"none", s[n].mode}}
           t == Kept(s, K)
<1>1. JointCount \in Nat
  BY OneShotAssumption
<1>2. \A n \in 1..2 * JointCount : Nth(n) \in Frames /\ Nth(n).op = "disable"
  <2>1. \A n \in 1..2 * JointCount : (n + 1) \div 2 \in Joints
    BY <1>1 DEF Joints
  <2> QED
    BY <2>1 DEF Frame, Frames, Ops, Modes
<1>3. /\ DOMAIN s = 1..2 * JointCount
      /\ \A n \in 1..2 * JointCount : s[n] = Nth(n)
  OBVIOUS
<1>4. s \in Seq(Frames)
  <2>1. s \in [1..2 * JointCount -> Frames] /\ 2 * JointCount \in Nat
    BY <1>1, <1>2
  <2> HIDE DEF s
  <2> QED
    BY <2>1, IsASeq
<1>5. t = EmergencyDisable(v, m)
  BY DEF EmergencyDisable
<1>6. K \subseteq DOMAIN s /\ \A n \in K : s[n].joint \in m
  OBVIOUS
<1>7. ASSUME NEW j \in m, v[j] # "none"
      PROVE  \E n \in K : s[n] = Frame("disable", v[j], j)
  <2>1. j \in Nat /\ j >= 1 /\ j <= JointCount /\ v[j] \in Modes
    BY <1>1, <1>7 DEF Joints, Known
  <2>2. CASE v[j] = "mit"
    <3> DEFINE n == 2 * j - 1
    <3>1. /\ n \in 1..2 * JointCount /\ n % 2 = 1 /\ (n + 1) \div 2 = j
      BY <1>1, <2>1
    <3> HIDE DEF n
    <3>2. s[n] = Frame("disable", v[j], j)
      BY <1>3, <2>2, <3>1
    <3>3. n \in K
      BY <1>3, <3>1, <3>2 DEF Frame
    <3> QED
      BY <3>2, <3>3
  <2>3. CASE v[j] = "pos"
    <3> DEFINE n == 2 * j
    <3>1. /\ n \in 1..2 * JointCount /\ n % 2 # 1 /\ (n + 1) \div 2 = j
      BY <1>1, <2>1
    <3> HIDE DEF n
    <3>2. s[n] = Frame("disable", v[j], j)
      BY <1>3, <2>3, <3>1
    <3>3. n \in K
      BY <1>3, <3>1, <3>2 DEF Frame
    <3> QED
      BY <3>2, <3>3
  <2> QED
    BY <2>1, <2>2, <2>3 DEF Modes
<1> HIDE DEF s, K, t
<1>8. t \in Seq(Frames) /\ \E e : Drawn(s, K, t, e)
  BY <1>4, KeptDraws DEF t
<1>9. PICK e : Drawn(s, K, t, e)
  BY <1>8
<1>10. \A n \in DOMAIN t : t[n].op = "disable" /\ t[n].joint \in m
  <2>1. \A n \in DOMAIN t : e[n] \in K /\ e[n] \in DOMAIN s /\ t[n] = s[e[n]]
    BY <1>9 DEF Drawn
  <2> HIDE DEF Nth
  <2> QED
    BY <1>2, <1>3, <1>6, <2>1
<1>11. ASSUME NEW j \in m, v[j] # "none"
       PROVE  \E n \in DOMAIN t : t[n] = Frame("disable", v[j], j)
  <2>1. PICK k \in K : s[k] = Frame("disable", v[j], j)
    BY <1>7, <1>11
  <2>2. PICK n \in DOMAIN t : e[n] = k
    BY <1>6, <1>9, <2>1 DEF Drawn
  <2> QED
    BY <1>9, <2>1, <2>2 DEF Drawn
<1> QED
  BY <1>5, <1>8, <1>10, <1>11

-----------------------------------------------------------------------------
(* Frames leave.                                                           *)

\* What is left holds nothing that was not there, in an order it had before.
LEMMA KeptFrames ==
  ASSUME NEW b \in Seq(Frames), NEW K
  PROVE  LET t == Kept(b, K) IN
         /\ t \in Seq(Frames)
         /\ \A op \in Ops, j \in Joints :
              Holds(t, op, j)
                => \E n \in DOMAIN b : n \in K /\ b[n].op = op /\ b[n].joint = j
         /\ \A md : EnablesFit(b, md) => EnablesFit(t, md)
         /\ \A j \in Joints : Once(b, j) => Once(t, j)
<1> DEFINE t == Kept(b, K)
<1>1. t \in Seq(Frames)
  BY KeptDraws
<1>2. PICK e : Drawn(b, K, t, e)
  BY KeptDraws
<1> HIDE DEF t
<1>3. /\ \A a \in DOMAIN t : e[a] \in DOMAIN b /\ e[a] \in K /\ t[a] = b[e[a]]
      /\ \A a, c \in DOMAIN t : a < c => e[a] < e[c]
  BY <1>2 DEF Drawn
<1>4. \A op \in Ops, j \in Joints :
        Holds(t, op, j)
          => \E n \in DOMAIN b : n \in K /\ b[n].op = op /\ b[n].joint = j
  BY <1>3 DEF Holds
<1>5. ASSUME NEW md, EnablesFit(b, md)
      PROVE  EnablesFit(t, md)
  BY <1>3, <1>5 DEF EnablesFit
<1>6. ASSUME NEW j \in Joints, Once(b, j)
      PROVE  Once(t, j)
  <2>1. SUFFICES ASSUME NEW m \in DOMAIN t, NEW n \in DOMAIN t,
                        t[m].op = "enable", t[m].joint = j,
                        t[n].op = "enable", t[n].joint = j
                 PROVE  m = n
    BY DEF Once
  <2>2. e[m] = e[n] /\ e[m] \in DOMAIN b
    BY <1>3, <1>6, <2>1 DEF Once
  <2>3. m \in Nat /\ n \in Nat /\ e[m] \in Nat
    BY <1>1, <2>2
  <2>4. (m < n => e[m] < e[n]) /\ (n < m => e[n] < e[m])
    BY <1>3
  <2> QED
    BY <2>2, <2>3, <2>4
<1> QED
  BY <1>1, <1>4, <1>5, <1>6 DEF t

\* The disable that lets a drive go off still does so when others leave.
LEMMA KeptDisable ==
  ASSUME NEW b \in Seq(Frames), NEW K, NEW md \in [Joints -> Modes],
         NEW d, NEW j \in Joints, NEW n \in DOMAIN b, n \in K,
         b[n] = Frame("disable", md[j], j),
         \A k \in DOMAIN b : k > n /\ b[k].op = "enable" => b[k].joint # j,
         \A k \in DOMAIN b : k < n /\ b[k].op = "write" => b[k].joint # j
  PROVE  GoesOff(Kept(b, K), d, md, j)
<1> DEFINE t == Kept(b, K)
<1>1. t \in Seq(Frames)
  BY KeptDraws
<1>2. PICK e : Drawn(b, K, t, e)
  BY KeptDraws
<1> HIDE DEF t
<1>3. PICK a \in DOMAIN t : e[a] = n
  BY <1>2 DEF Drawn
<1>4. t[a] = Frame("disable", md[j], j)
  BY <1>2, <1>3 DEF Drawn
<1>5. \A c \in DOMAIN t : /\ e[c] \in DOMAIN b /\ t[c] = b[e[c]]
                          /\ (c > a => e[c] > n) /\ (c < a => e[c] < n)
  <2>1. \A c \in DOMAIN t : e[c] \in DOMAIN b /\ t[c] = b[e[c]]
    BY <1>2 DEF Drawn
  <2>2. \A c \in DOMAIN t : (a < c => e[a] < e[c]) /\ (c < a => e[c] < e[a])
    BY <1>2 DEF Drawn
  <2>3. \A c \in DOMAIN t : c \in Nat /\ e[c] \in Nat
    BY <1>1, <2>1
  <2> QED
    BY <1>3, <2>1, <2>2, <2>3
<1>6. \A c \in DOMAIN t : c > a /\ t[c].op = "enable" => t[c].joint # j
  BY <1>5
<1>7. \A c \in DOMAIN t : c < a /\ t[c].op = "write" => t[c].joint # j
  BY <1>5
<1> QED
  BY <1>4, <1>6, <1>7 DEF GoesOff, t

\* Handing over the first frame of a batch leaves the others.
LEMMA TailFrames ==
  ASSUME NEW b \in Seq(Frames), b # <<>>
  PROVE  /\ Tail(b) \in Seq(Frames) /\ Head(b) \in Frames
         /\ 1 \in DOMAIN b /\ b[1] = Head(b)
         /\ \A n \in DOMAIN Tail(b) : n + 1 \in DOMAIN b /\ Tail(b)[n] = b[n + 1]
         /\ \A n \in DOMAIN b : n # 1 =>
              n - 1 \in DOMAIN Tail(b) /\ Tail(b)[n - 1] = b[n]
         /\ \A op \in Ops, j \in Joints : Holds(Tail(b), op, j) => Holds(b, op, j)
<1>1. Tail(b) \in Seq(Frames) /\ Head(b) \in Frames
  OBVIOUS
<1>2. Len(b) \in Nat /\ Len(b) # 0 /\ Len(Tail(b)) = Len(b) - 1
  OBVIOUS
<1>3. DOMAIN b = 1..Len(b) /\ DOMAIN Tail(b) = 1..(Len(b) - 1)
  BY <1>1, <1>2
<1>4. b[1] = Head(b) /\ 1 \in DOMAIN b
  BY <1>2, <1>3
<1>5. \A n \in DOMAIN Tail(b) : n + 1 \in DOMAIN b /\ Tail(b)[n] = b[n + 1]
  BY <1>2, <1>3
<1>6. ASSUME NEW n \in DOMAIN b, n # 1
      PROVE  n - 1 \in DOMAIN Tail(b) /\ Tail(b)[n - 1] = b[n]
  <2>1. n - 1 \in 1..(Len(b) - 1) /\ (n - 1) + 1 = n
    BY <1>2, <1>3, <1>6
  <2> QED
    BY <1>3, <1>5, <2>1
<1>7. \A op \in Ops, j \in Joints : Holds(Tail(b), op, j) => Holds(b, op, j)
  BY <1>5, Zenon DEF Holds
<1> QED
  BY <1>1, <1>4, <1>5, <1>6, <1>7

-----------------------------------------------------------------------------
(* Frames come.                                                            *)

\* t continues b.
Continues(b, t) ==
  /\ t \in Seq(Frames) /\ Len(b) <= Len(t)
  /\ \A n \in DOMAIN b : t[n] = b[n]

\* One frame more, or a whole batch.
LEMMA AppendContinues ==
  ASSUME NEW b \in Seq(Frames), NEW f \in Frames
  PROVE  /\ Continues(b, Append(b, f))
         /\ Len(b) + 1 \in DOMAIN Append(b, f)
         /\ Append(b, f)[Len(b) + 1] = f
         /\ \A n \in DOMAIN Append(b, f) : n > Len(b) => n = Len(b) + 1
BY DEF Continues

\* A whole batch more.
LEMMA ConcatContinues ==
  ASSUME NEW b \in Seq(Frames), NEW c \in Seq(Frames)
  PROVE  /\ Continues(b, b \o c)
         /\ \A n \in DOMAIN (b \o c) : n > Len(b) =>
              n - Len(b) \in DOMAIN c /\ (b \o c)[n] = c[n - Len(b)]
         /\ \A n \in DOMAIN c :
              /\ n + Len(b) \in DOMAIN (b \o c) /\ n + Len(b) > Len(b)
              /\ (b \o c)[n + Len(b)] = c[n]
<1>1. /\ Len(b) \in Nat /\ Len(c) \in Nat /\ b \o c \in Seq(Frames)
      /\ Len(b \o c) = Len(b) + Len(c)
  OBVIOUS
<1>2. /\ DOMAIN b = 1..Len(b) /\ DOMAIN c = 1..Len(c)
      /\ DOMAIN (b \o c) = 1..(Len(b) + Len(c))
  BY <1>1
<1>3. \A n \in 1..(Len(b) + Len(c)) :
        (b \o c)[n] = IF n <= Len(b) THEN b[n] ELSE c[n - Len(b)]
  OBVIOUS
<1>4. Continues(b, b \o c)
  BY <1>1, <1>2, <1>3 DEF Continues
<1>5. ASSUME NEW n \in DOMAIN (b \o c), n > Len(b)
      PROVE  n - Len(b) \in DOMAIN c /\ (b \o c)[n] = c[n - Len(b)]
  BY <1>1, <1>2, <1>3, <1>5
<1>6. ASSUME NEW n \in DOMAIN c
      PROVE  /\ n + Len(b) \in DOMAIN (b \o c) /\ n + Len(b) > Len(b)
             /\ (b \o c)[n + Len(b)] = c[n]
  <2>1. /\ n \in Nat /\ n # 0 /\ n <= Len(c)
        /\ n + Len(b) \in 1..(Len(b) + Len(c)) /\ ~(n + Len(b) <= Len(b))
        /\ (n + Len(b)) - Len(b) = n /\ n + Len(b) > Len(b)
    BY <1>1, <1>2
  <2> QED
    BY <1>2, <1>3, <2>1
<1> QED
  BY <1>4, <1>5, <1>6

\* What is in the longer one was there or is new.
LEMMA ContinuesHolds ==
  ASSUME NEW b \in Seq(Frames), NEW t, Continues(b, t), NEW op \in Ops,
         NEW j \in Joints
  PROVE  /\ Holds(b, op, j) => Holds(t, op, j)
         /\ Holds(t, op, j) =>
              \/ Holds(b, op, j)
              \/ \E n \in DOMAIN t : n > Len(b) /\ t[n].op = op /\ t[n].joint = j
<1>1. /\ Len(b) \in Nat /\ Len(t) \in Nat /\ Len(b) <= Len(t)
      /\ DOMAIN b = 1..Len(b) /\ DOMAIN t = 1..Len(t)
  BY DEF Continues
<1>2. /\ \A n \in DOMAIN b : n \in DOMAIN t
      /\ \A n \in DOMAIN t : n \in DOMAIN b \/ n > Len(b)
  BY <1>1
<1>3. \A n \in DOMAIN b : t[n] = b[n]
  BY DEF Continues
<1> QED
  BY <1>2, <1>3 DEF Holds

\* A drive that goes off still does when no ENABLE for it comes.
LEMMA ContinuesOff ==
  ASSUME NEW b \in Seq(Frames), NEW t, Continues(b, t), NEW j \in Joints,
         NEW md \in [Joints -> Modes], NEW d,
         \A n \in DOMAIN t : n > Len(b) /\ t[n].op = "enable" => t[n].joint # j,
         GoesOff(b, d, md, j)
  PROVE  GoesOff(t, d, md, j)
<1>1. /\ Len(b) \in Nat /\ Len(t) \in Nat /\ Len(b) <= Len(t)
      /\ DOMAIN b = 1..Len(b) /\ DOMAIN t = 1..Len(t)
  BY DEF Continues
<1>2. /\ \A n \in DOMAIN b : n \in DOMAIN t
      /\ \A n \in DOMAIN t : n \in DOMAIN b \/ n > Len(b)
      /\ \A n \in DOMAIN b : \A k \in DOMAIN t : k < n => k \in DOMAIN b
  BY <1>1
<1>3. \A n \in DOMAIN b : t[n] = b[n]
  BY DEF Continues
<1>4. CASE d[j] # "on" /\ ~Holds(b, "enable", j)
  <2>1. ~Holds(t, "enable", j)
    BY ContinuesHolds, <1>4 DEF Ops
  <2> QED
    BY <1>4, <2>1 DEF GoesOff
<1>5. CASE \E n \in DOMAIN b :
             /\ b[n] = Frame("disable", md[j], j)
             /\ \A k \in DOMAIN b : k > n /\ b[k].op = "enable" => b[k].joint # j
             /\ \A k \in DOMAIN b : k < n /\ b[k].op = "write" => b[k].joint # j
  <2>1. PICK n \in DOMAIN b :
             /\ b[n] = Frame("disable", md[j], j)
             /\ \A k \in DOMAIN b : k > n /\ b[k].op = "enable" => b[k].joint # j
             /\ \A k \in DOMAIN b : k < n /\ b[k].op = "write" => b[k].joint # j
    BY <1>5
  <2>2. n \in DOMAIN t /\ t[n] = Frame("disable", md[j], j)
    BY <1>2, <1>3, <2>1
  <2>3. \A k \in DOMAIN t : k > n /\ t[k].op = "enable" => t[k].joint # j
    BY <1>2, <1>3, <2>1
  <2>4. \A k \in DOMAIN t : k < n /\ t[k].op = "write" => t[k].joint # j
    BY <1>2, <1>3, <2>1
  <2> QED
    BY <2>2, <2>3, <2>4 DEF GoesOff
<1> QED
  BY <1>4, <1>5 DEF GoesOff

\* A drive whose mode is known goes off when its disable comes and no ENABLE and no
\* write with it.
LEMMA ContinuesDisabled ==
  ASSUME NEW b \in Seq(Frames), NEW t, Continues(b, t), NEW j \in Joints,
         NEW md \in [Joints -> Modes], NEW d, ~Holds(b, "write", j),
         \A n \in DOMAIN t : n > Len(b) /\ t[n].op \in {"enable", "write"}
                               => t[n].joint # j,
         \E n \in DOMAIN t : n > Len(b) /\ t[n] = Frame("disable", md[j], j)
  PROVE  GoesOff(t, d, md, j)
<1>1. /\ Len(b) \in Nat /\ Len(t) \in Nat /\ Len(b) <= Len(t)
      /\ DOMAIN b = 1..Len(b) /\ DOMAIN t = 1..Len(t)
  BY DEF Continues
<1>2. PICK n \in DOMAIN t : n > Len(b) /\ t[n] = Frame("disable", md[j], j)
  OBVIOUS
<1>3. \A k \in DOMAIN t : (k > n => k > Len(b)) /\ (k \in DOMAIN b \/ k > Len(b))
  BY <1>1, <1>2
<1>4. \A k \in DOMAIN t : k > n /\ t[k].op = "enable" => t[k].joint # j
  BY <1>3
<1>5. ~Holds(t, "write", j)
  BY ContinuesHolds DEF Ops
<1>6. \A k \in DOMAIN t : k < n /\ t[k].op = "write" => t[k].joint # j
  BY <1>5 DEF Holds
<1> QED
  BY <1>2, <1>4, <1>6 DEF GoesOff

\* A further ENABLE fits when it is packed for the mode of its drive and no write is
\* in front of it; nothing else disturbs.
LEMMA ContinuesFit ==
  ASSUME NEW b \in Seq(Frames), NEW t, Continues(b, t), NEW md, EnablesFit(b, md),
         \A n \in DOMAIN t : n > Len(b) /\ t[n].op = "enable"
           => /\ t[n].mode = md[t[n].joint]
              /\ ~Holds(t, "write", t[n].joint)
  PROVE  EnablesFit(t, md)
<1>1. /\ Len(b) \in Nat /\ Len(t) \in Nat /\ Len(b) <= Len(t)
      /\ DOMAIN b = 1..Len(b) /\ DOMAIN t = 1..Len(t)
  BY DEF Continues
<1>2. \A n \in DOMAIN b : t[n] = b[n]
  BY DEF Continues
<1>3. SUFFICES ASSUME NEW n \in DOMAIN t, t[n].op = "enable"
               PROVE  /\ t[n].mode = md[t[n].joint]
                      /\ \A k \in DOMAIN t :
                           k < n /\ t[k].op = "write" => t[k].joint # t[n].joint
  BY DEF EnablesFit
<1>4. CASE n > Len(b)
  BY <1>3, <1>4 DEF Holds
<1>5. CASE ~(n > Len(b))
  <2>1. n \in DOMAIN b /\ \A k \in DOMAIN t : k < n => k \in DOMAIN b
    BY <1>1, <1>5
  <2> QED
    BY <1>2, <1>3, <2>1 DEF EnablesFit
<1> QED
  BY <1>4, <1>5

-----------------------------------------------------------------------------
(* The records of the executor.                                            *)

\* A new action.
LEMMA ActionIs ==
  ASSUME NEW c \in Orders, NEW v \in Known
  PROVE  /\ Action(c, v) \in Actions
         /\ Action(c, v).phase = "idle" /\ Action(c, v).cmd = c
         /\ Action(c, v).failed = "none" /\ Action(c, v).sound = FALSE
         /\ Action(c, v).asked = FALSE /\ Action(c, v).batch = <<>>
         /\ Action(c, v).verified = v /\ Action(c, v).ended = NoResult
<1> DEFINE none == <<>>
<1>1. none \in Seq(Frames)
  OBVIOUS
<1>2. Action(c, v).batch = none
  BY DEF Action
<1> HIDE DEF none
<1>3. Action(c, v) = [Action(c, v) EXCEPT !.batch = none]
  BY <1>2 DEF Action
<1> QED
  BY <1>1, <1>2, <1>3 DEF Action, Actions, Phases, Stages, Codes, NoResult

\* What Wait changes.
LEMMA WaitIs ==
  ASSUME NEW s \in Actions, NEW ph \in Phases, NEW fr \in Seq(Frames)
  PROVE  LET t == Wait(s, ph, fr) IN
         /\ t \in Actions
         /\ t.phase = ph /\ t.batch = fr /\ t.newer = {}
         /\ t.cmd = s.cmd /\ t.failed = s.failed /\ t.own = s.own
         /\ t.sound = s.sound /\ t.asked = s.asked
         /\ t.verified = s.verified /\ t.ended = s.ended
BY DEF Wait, Actions

\* The world the executor acts in, and an action that has not failed nor ended.
World == WorldType(bus, drive, mode, seen) /\ EnablesFit(bus, mode)
Meets(s) == Fits(s, withdraw, bus, drive, mode, seen)
Ready(s) ==
  /\ s \in Actions /\ Aware(s, bus, mode)
  /\ s.failed = "none" /\ s.ended.off = {} /\ s.ended.code # "COMPLETED"
\* So it is before anything that could energise.
Early(s) ==
  Ready(s) /\ s.cmd.mode \in Modes /\ ~s.asked /\ s.phase # "stopDisable"

\* An empty batch.
LEMMA NothingHeld ==
  \A op, j : ~Holds(<<>>, op, j)
BY DEF Holds

\* An action ends when what it answers for goes off.
LEMMA EndFitsIn ==
  ASSUME NEW w, NEW b, NEW d, NEW md, NEW sn,
         NEW s \in Actions, NEW code \in Codes, Aware(s, b, md),
         w /\ (s.asked \/ (s.phase = "stopDisable" /\
                           \A j \in s.cmd.mask : s.verified[j] # "none"))
           => \A j \in s.cmd.mask : GoesOff(b, d, md, j)
  PROVE  Fits(End(s, code), w, b, d, md, sn)
<1> DEFINE t == End(s, code)
<1>1. NoCommand \in Orders /\ s.verified \in Known /\ s.cmd.mask \subseteq Joints
  BY DEF NoCommand, Orders, Modes, Actions
<1>2. /\ t \in Actions /\ t.phase = "idle" /\ t.failed = "none"
      /\ t.asked = FALSE /\ t.sound = FALSE /\ t.batch = <<>>
      /\ t.verified = s.verified
      /\ t.ended.off \in {{}, s.cmd.mask}
      /\ t.ended.off # {} =>
           s.asked \/ (s.phase = "stopDisable"
                       /\ \A j \in s.cmd.mask : s.verified[j] # "none")
  <2>1. DEFINE a == Action(NoCommand, s.verified)
               r == [code |-> code,
                     off |-> IF s.asked \/ (s.phase = "stopDisable"
                                 /\ \A j \in s.cmd.mask : s.verified[j] # "none")
                               THEN s.cmd.mask ELSE {}]
  <2>2. /\ r \in [code : Codes, off : SUBSET Joints]
        /\ r.off \in {{}, s.cmd.mask}
        /\ r.off # {} => s.asked \/ (s.phase = "stopDisable"
                             /\ \A j \in s.cmd.mask : s.verified[j] # "none")
    BY <1>1
  <2>3. t = [a EXCEPT !.ended = r]
    BY DEF End
  <2> HIDE DEF r, a
  <2>4. /\ a \in Actions /\ a.phase = "idle" /\ a.failed = "none"
        /\ a.asked = FALSE /\ a.sound = FALSE /\ a.batch = <<>>
        /\ a.verified = s.verified
    <3> DEFINE v == s.verified
               c == NoCommand
    <3>1. v \in Known /\ c \in Orders /\ a = Action(c, v)
      BY <1>1 DEF a
    <3> HIDE DEF v, c
    <3>2. a \in Actions
      BY <3>1, ActionIs
    <3>3. /\ a.phase = "idle" /\ a.failed = "none" /\ a.asked = FALSE
          /\ a.sound = FALSE /\ a.verified = v
      BY <3>1 DEF Action
    <3>4. a.batch = <<>>
      BY <3>1, Zenon DEF Action
    <3> QED
      BY <3>2, <3>3, <3>4 DEF v
  <2>5. t \in Actions /\ t.ended = r
    BY <2>2, <2>3, <2>4 DEF Actions
  <2>6. /\ t.phase = a.phase /\ t.failed = a.failed /\ t.asked = a.asked
        /\ t.sound = a.sound /\ t.batch = a.batch /\ t.verified = a.verified
    BY <2>3, <2>4 DEF Actions
  <2> QED
    BY <2>2, <2>4, <2>5, <2>6
<1> HIDE DEF t
<1>3. Aware(t, b, md)
  BY <1>2 DEF Aware
<1>4. Writing(t) /\ Starting(t)
  BY <1>2, NothingHeld DEF Writing, Starting
<1>5. Settled(t) /\ Recorded(t)
  BY <1>2 DEF Settled, Recorded
<1>6. w => Owes(t, b, d, md)
  BY <1>2 DEF Owes, Disabling
<1>7. Certain(t, b, d, sn)
  BY <1>2 DEF Certain
<1> QED
  BY <1>2, <1>3, <1>4, <1>5, <1>6, <1>7 DEF t, Fits

\* The same where the executor is.
LEMMA EndFits ==
  ASSUME NEW s \in Actions, NEW code \in Codes, Aware(s, bus, mode),
         withdraw /\ (s.asked \/ (s.phase = "stopDisable" /\
                                  \A j \in s.cmd.mask : s.verified[j] # "none"))
           => \A j \in s.cmd.mask : GoesOff(bus, drive, mode, j)
  PROVE  Meets(End(s, code))
<1>1. Fits(End(s, code), withdraw, bus, drive, mode, seen)
  BY EndFitsIn, Zenon
<1> QED
  BY <1>1 DEF Meets

\* The disables that do not depend on the mode being known are built.
LEMMA EmergencyFits ==
  ASSUME World, NEW s \in Actions, Aware(s, bus, mode),
         NEW ph \in {"preflight", "cleanupDisable", "stopDisable"},
         ~s.asked, s.ended.off = {}, s.ended.code # "COMPLETED",
         s.failed # "none" => ph = "cleanupDisable",
         ph = "preflight" => s.cmd.mode \in Modes
  PROVE  Meets(Wait(s, ph, EmergencyDisable(s.verified, s.cmd.mask)))
<1> DEFINE fr == EmergencyDisable(s.verified, s.cmd.mask)
           t == Wait(s, ph, fr)
<1>1. s.verified \in Known /\ s.cmd.mask \in SUBSET Joints /\ ph \in Phases
  BY DEF Actions, Orders, Phases
<1>2. /\ fr \in Seq(Frames)
      /\ \A n \in DOMAIN fr : fr[n].op = "disable"
      /\ \A j \in s.cmd.mask : s.verified[j] # "none" =>
           \E n \in DOMAIN fr : fr[n] = Frame("disable", s.verified[j], j)
  <2> DEFINE v == s.verified
             m == s.cmd.mask
  <2>1. v \in Known /\ m \in SUBSET Joints /\ fr = EmergencyDisable(v, m)
    BY <1>1
  <2> HIDE DEF v, m, fr
  <2>2. /\ fr \in Seq(Frames)
        /\ \A n \in DOMAIN fr : fr[n].op = "disable"
        /\ \A j \in m : v[j] # "none" =>
             \E n \in DOMAIN fr : fr[n] = Frame("disable", v[j], j)
    BY <2>1, EmergencyIs
  <2> QED
    BY <2>2 DEF v, m
<1> HIDE DEF fr
<1>3. /\ t \in Actions /\ t.phase = ph /\ t.batch = fr /\ t.newer = {}
      /\ t.cmd = s.cmd /\ t.failed = s.failed /\ t.sound = s.sound
      /\ t.asked = s.asked /\ t.verified = s.verified /\ t.ended = s.ended
  BY <1>1, <1>2, WaitIs
<1> HIDE DEF t
<1>4. Aware(t, bus, mode)
  BY <1>3 DEF Aware
<1>5. Writing(t) /\ Starting(t)
  BY <1>2, <1>3 DEF Writing, Starting, Holds
<1>6. Settled(t) /\ Recorded(t)
  BY <1>3 DEF Settled, Recorded
<1>7. Owes(t, bus, drive, mode)
  BY <1>2, <1>3 DEF Owes
<1>8. Certain(t, bus, drive, seen)
  BY <1>3 DEF Certain
<1> QED
  BY <1>3, <1>4, <1>5, <1>6, <1>7, <1>8 DEF t, fr, Meets, Fits

\* Frames that neither write nor enable are built for drives whose mode is known,
\* or to hold them where a STOP found them.
LEMMA SendFits ==
  ASSUME World, NEW s \in Actions, Aware(s, bus, mode),
         NEW ph \in {"clear", "move", "hold", "disable", "cleanupHold",
                     "cleanupDisable", "stopHold"},
         NEW op \in {"clear", "target", "disable"},
         s.cmd.mode \in Modes, ph # "stopHold" => Agreed(s),
         ph \in Disabling => op = "disable",
         s.ended.off = {}, s.ended.code # "COMPLETED",
         s.failed # "none" => ph \in {"cleanupHold", "cleanupDisable"},
         s.asked => ph \notin {"clear", "stopHold"},
         s.sound => \A j \in s.cmd.mask :
           /\ ph = "clear" => drive[j] # "on" /\ ~Holds(bus, "enable", j)
           /\ ph \in {"move", "hold", "disable"} => ~Holds(bus, "enable", j)
  PROVE  Meets(Send(s, ph, op))
<1> DEFINE fr == Batch(op, s.cmd.mode, s.cmd.mask)
           t == Wait(s, ph, fr)
<1>1. /\ s.cmd.mask \in SUBSET Joints /\ ph \in Phases /\ op \in Ops
      /\ t = Send(s, ph, op)
  BY DEF Actions, Orders, Phases, Ops, Send
<1>2. /\ fr \in Seq(Frames)
      /\ \A n \in DOMAIN fr : \E j \in s.cmd.mask : fr[n] = Frame(op, s.cmd.mode, j)
      /\ \A j \in s.cmd.mask : \E n \in DOMAIN fr : fr[n] = Frame(op, s.cmd.mode, j)
  BY <1>1, BatchIs
<1> HIDE DEF fr
<1>3. \A n \in DOMAIN fr : fr[n].op \notin {"write", "enable"}
  BY <1>2 DEF Frame
<1>4. /\ t \in Actions /\ t.phase = ph /\ t.batch = fr /\ t.newer = {}
      /\ t.cmd = s.cmd /\ t.failed = s.failed /\ t.sound = s.sound
      /\ t.asked = s.asked /\ t.verified = s.verified /\ t.ended = s.ended
  BY <1>1, <1>2, WaitIs
<1> HIDE DEF t
<1>5. Aware(t, bus, mode)
  BY <1>4 DEF Aware
<1>6. Writing(t) /\ Starting(t)
  BY <1>3, <1>4 DEF Writing, Starting, Holds
<1>7. Settled(t)
  BY <1>4 DEF Settled, Agreed
<1>8. Recorded(t)
  BY <1>4 DEF Recorded, Agreed, Modes
<1>9. Owes(t, bus, drive, mode)
  <2>1. ASSUME t.phase \in Disabling, NEW j \in t.cmd.mask
        PROVE  \E n \in DOMAIN t.batch :
                 t.batch[n] = Frame("disable", t.verified[j], j)
    BY <1>2, <1>4, <2>1 DEF Agreed, Disabling
  <2> QED
    BY <1>4, <2>1 DEF Owes
<1>10. Certain(t, bus, drive, seen)
  BY <1>4 DEF Certain
<1> QED
  BY <1>1, <1>4, <1>5, <1>6, <1>7, <1>8, <1>9, <1>10 DEF Meets, Fits

\* ENABLE is built for drives in their verified mode.
LEMMA EnableFits ==
  ASSUME World, NEW s \in Actions, Ready(s), Agreed(s),
         s.sound => \A j \in s.cmd.mask :
           drive[j] # "on" /\ ~Holds(bus, "enable", j)
  PROVE  Meets([Send(s, "enable", "enable") EXCEPT !.asked = TRUE])
<1> DEFINE fr == Batch("enable", s.cmd.mode, s.cmd.mask)
           u == Wait(s, "enable", fr)
           t == [u EXCEPT !.asked = TRUE]
<1>1. /\ s.cmd.mask \in SUBSET Joints /\ s.cmd.mode \in Modes
      /\ t = [Send(s, "enable", "enable") EXCEPT !.asked = TRUE]
  BY DEF Actions, Orders, Send, Agreed
<1>2. /\ fr \in Seq(Frames)
      /\ \A n \in DOMAIN fr :
           \E j \in s.cmd.mask : fr[n] = Frame("enable", s.cmd.mode, j)
      /\ \A k, n \in DOMAIN fr : fr[k].joint = fr[n].joint => k = n
  BY <1>1, BatchIs DEF Ops
<1> HIDE DEF fr
<1>3. \A n \in DOMAIN fr : /\ fr[n].op = "enable" /\ fr[n].mode = s.cmd.mode
                           /\ fr[n].joint \in s.cmd.mask
  BY <1>2 DEF Frame
<1>4. /\ u \in Actions /\ u.phase = "enable" /\ u.batch = fr /\ u.newer = {}
      /\ u.cmd = s.cmd /\ u.failed = s.failed /\ u.sound = s.sound
      /\ u.verified = s.verified /\ u.ended = s.ended
  <2>1. "enable" \in Phases
    BY DEF Phases
  <2> QED
    BY <1>2, <2>1, WaitIs
<1> HIDE DEF u
<1>5. /\ t \in Actions /\ t.phase = "enable" /\ t.batch = fr /\ t.newer = {}
      /\ t.cmd = s.cmd /\ t.failed = s.failed /\ t.sound = s.sound
      /\ t.verified = s.verified /\ t.ended = s.ended
  BY <1>4 DEF Actions
<1> HIDE DEF t
<1>6. Aware(t, bus, mode)
  BY <1>5 DEF Ready, Aware
<1>7. Writing(t)
  BY <1>3, <1>5 DEF Writing, Holds
<1>8. Starting(t)
  BY <1>2, <1>3, <1>5 DEF Starting, Agreed
<1>9. Settled(t) /\ Recorded(t)
  BY <1>1, <1>5 DEF Settled, Recorded, Ready, Agreed, Modes
<1>10. Owes(t, bus, drive, mode)
  BY <1>5 DEF Owes, Ready, Disabling
<1>11. Certain(t, bus, drive, seen)
  BY <1>5 DEF Certain, Once, Holds
<1> QED
  BY <1>1, <1>5, <1>6, <1>7, <1>8, <1>9, <1>10, <1>11 DEF Meets, Fits

\* The mode of every selected drive is written, and none of them is verified then.
LEMMA WriteFits ==
  ASSUME World, NEW s \in Actions, Early(s)
  PROVE  LET m == s.cmd.mask IN
         Meets([Send(s, "mode", "write") EXCEPT
                  !.verified = Forget(@, m),
                  !.sound = \A j \in m : drive[j] # "on" /\ ~Enabling(j)])
<1> DEFINE fr == Batch("write", s.cmd.mode, s.cmd.mask)
           u == Wait(s, "mode", fr)
           v == Forget(s.verified, s.cmd.mask)
           off == \A j \in s.cmd.mask : drive[j] # "on" /\ ~Holds(bus, "enable", j)
           t == [u EXCEPT !.verified = v, !.sound = off]
<1>1. s.cmd.mask \in SUBSET Joints /\ s.cmd.mode \in Modes /\ s.verified \in Known
  BY DEF Actions, Orders, Early
<1>2. /\ fr \in Seq(Frames)
      /\ \A n \in DOMAIN fr :
           \E j \in s.cmd.mask : fr[n] = Frame("write", s.cmd.mode, j)
  BY <1>1, BatchIs DEF Ops
<1>3. /\ v \in Known
      /\ \A j \in s.cmd.mask : v[j] = "none"
      /\ \A j \in Joints : v[j] # "none" => v[j] = s.verified[j]
  BY <1>1 DEF Forget, Known
<1>4. off \in BOOLEAN
  OBVIOUS
<1> HIDE DEF fr, v, off
<1>5. \A n \in DOMAIN fr : fr[n].op = "write" /\ fr[n].joint \in s.cmd.mask
  BY <1>2 DEF Frame
<1>6. /\ u \in Actions /\ u.phase = "mode" /\ u.batch = fr
      /\ u.cmd = s.cmd /\ u.failed = s.failed /\ u.asked = s.asked
      /\ u.verified = s.verified /\ u.ended = s.ended
  BY <1>2, WaitIs DEF Phases
<1>7. t = [Send(s, "mode", "write") EXCEPT
             !.verified = Forget(@, s.cmd.mask),
             !.sound = \A j \in s.cmd.mask : drive[j] # "on" /\ ~Enabling(j)]
  BY <1>6, Zenon DEF Send, fr, v, off, Enabling, Holds, Wait
<1> HIDE DEF u
<1>8. /\ t \in Actions /\ t.phase = "mode" /\ t.batch = fr
      /\ t.cmd = s.cmd /\ t.failed = s.failed /\ t.asked = s.asked
      /\ t.verified = v /\ t.sound = off /\ t.ended = s.ended
  BY <1>3, <1>4, <1>6 DEF Actions
<1> HIDE DEF t
<1>9. Aware(t, bus, mode)
  BY <1>3, <1>8 DEF Early, Ready, Aware
<1>10. Writing(t) /\ Starting(t)
  BY <1>3, <1>5, <1>8 DEF Writing, Starting, Holds
<1>11. Settled(t) /\ Recorded(t)
  BY <1>1, <1>8 DEF Settled, Recorded, Early, Ready
<1>12. Owes(t, bus, drive, mode)
  BY <1>8 DEF Owes, Early, Ready, Disabling
<1>13. Certain(t, bus, drive, seen)
  BY <1>8 DEF Certain, off
<1> QED
  BY <1>7, <1>8, <1>9, <1>10, <1>11, <1>12, <1>13 DEF Meets, Fits

\* The first failure of an action leads to a cleanup that fits what was done.
LEMMA CleanupFits ==
  ASSUME World, NEW s \in Actions, Ready(s), NEW stage \in Stages \ {"none"},
         stage \in {"validate", "discovery", "mode"} =>
           ~s.asked /\ s.phase # "stopDisable",
         stage \notin {"validate", "discovery", "mode"} => Agreed(s)
  PROVE  \A r \in Cleanup(s, stage) : Meets(r)
<1> DEFINE t == [s EXCEPT !.failed = IF @ = "none" THEN stage ELSE @]
<1>1. /\ t \in Actions /\ t.failed = stage
      /\ t.phase = s.phase /\ t.cmd = s.cmd /\ t.own = s.own /\ t.sound = s.sound
      /\ t.asked = s.asked /\ t.verified = s.verified /\ t.ended = s.ended
  BY DEF Ready, Actions
<1>2. Cleanup(s, stage) =
        CASE t.failed = "validate" -> {End(t, "FAILED")}
          [] t.failed \in {"discovery", "mode"} ->
               {Wait(t, "cleanupDisable", EmergencyDisable(t.verified, t.cmd.mask))}
          [] OTHER ->
               {Send(t, "cleanupDisable", "disable")} \cup
                 (IF s.own /\ All(t.cmd.mask, "on")
                    THEN {Send(t, "cleanupHold", "target")} ELSE {})
  BY <1>1 DEF Cleanup
<1>3. /\ Aware(t, bus, mode) /\ t.ended.off = {} /\ t.ended.code # "COMPLETED"
      /\ (Agreed(s) => Agreed(t) /\ t.cmd.mode \in Modes)
  BY <1>1 DEF Ready, Aware, Agreed
<1> HIDE DEF t
<1>4. CASE stage = "validate"
  <2>1. Meets(End(t, "FAILED"))
    BY <1>1, <1>3, <1>4, EndFits DEF Codes
  <2> QED
    BY <1>1, <1>2, <1>4, <2>1
<1>5. CASE stage \in {"discovery", "mode"}
  <2>1. Meets(Wait(t, "cleanupDisable", EmergencyDisable(t.verified, t.cmd.mask)))
    BY <1>1, <1>3, <1>5, EmergencyFits
  <2> QED
    BY <1>1, <1>2, <1>5, <2>1
<1>6. CASE stage \notin {"validate", "discovery", "mode"}
  <2>1. Meets(Send(t, "cleanupDisable", "disable"))
    BY <1>1, <1>3, <1>6, SendFits
  <2>2. Meets(Send(t, "cleanupHold", "target"))
    BY <1>1, <1>3, <1>6, SendFits DEF Disabling
  <2> QED
    BY <1>1, <1>2, <1>6, <2>1, <2>2
<1> QED
  BY <1>4, <1>5, <1>6

\* Validating and preparing it.
LEMMA ValidateFits ==
  ASSUME World, NEW s \in Actions, Early(s)
  PROVE  \A r \in Validate(s) : Meets(r)
<1>1. \A r \in Cleanup(s, "validate") : Meets(r)
  BY CleanupFits DEF Early, Stages
<1> DEFINE w == [Send(s, "mode", "write") EXCEPT
                   !.verified = Forget(@, s.cmd.mask),
                   !.sound = \A j \in s.cmd.mask : drive[j] # "on" /\ ~Enabling(j)]
<1>2. Meets(w)
  BY WriteFits
<1>3. \A r \in Cleanup(s, "mode") : Meets(r)
  BY CleanupFits DEF Early, Stages
<1>4. \A r \in Validate(s) :
        r \in Cleanup(s, "validate") \/ r \in Cleanup(s, "mode") \/ r = w
  BY DEF Validate
<1> QED
  BY <1>1, <1>2, <1>3, <1>4, Zenon

\* Preparing, which validates or disables first.
LEMMA PrepareFits ==
  ASSUME World, NEW s \in Actions, Early(s)
  PROVE  \A r \in Prepare(s) : Meets(r)
<1> DEFINE w == Wait(s, "preflight", EmergencyDisable(s.verified, s.cmd.mask))
<1>1. Meets(w)
  BY EmergencyFits DEF Early, Ready
<1>2. \A r \in Prepare(s) : r \in Validate(s) \/ r = w
  BY DEF Prepare
<1> QED
  BY <1>1, <1>2, ValidateFits, Zenon

-----------------------------------------------------------------------------
(* The steps of the executor.                                              *)

\* An action that is neither cleaned up nor idle has not failed nor ended.
LEMMA NotFailed ==
  ASSUME OneShotInv, app.phase \notin {"idle", "cleanupHold", "cleanupDisable"}
  PROVE  Ready(app)
BY DEF OneShotInv, Fits, Recorded, Ready

\* A step of the executor that fits keeps the invariant.
LEMMA ExecutorStep ==
  ASSUME OneShotInv, Meets(app'), Outside, UNCHANGED bus
  PROVE  OneShotInv'
BY DEF OneShotInv, Meets, Outside

\* A batch that is handed over leaves no disable to wait for.
LEMMA SentGoesOff ==
  ASSUME OneShotInv, Sent, withdraw, app.phase \in Disabling
  PROVE  \A j \in Selected : app.verified[j] # "none" => GoesOff(bus, drive, mode, j)
<1>1. Owes(app, bus, drive, mode)
  BY DEF OneShotInv, Fits
<1>2. \A n : ~(n \in DOMAIN app.batch)
  BY DEF Sent
<1> QED
  BY <1>1, <1>2 DEF Owes, Selected

\* A drive that trips or answers strangely is cleaned up after.
LEMMA SafetyTripStep ==
  ASSUME OneShotInv, SafetyTrip
  PROVE  OneShotInv'
<1>1. app.phase \in {"enable", "move", "hold", "disable"}
  BY DEF SafetyTrip, Unsafe, Watched
<1>2. Ready(app) /\ Agreed(app)
  BY <1>1, NotFailed DEF OneShotInv, Fits, Settled
<1>3. /\ Watched[app.phase] \in Stages \ {"none"}
      /\ Watched[app.phase] \notin {"validate", "discovery", "mode"}
  BY <1>1 DEF Watched, Stages
<1>4. World /\ app \in Actions
  BY DEF OneShotInv, World, Fits
<1>5. \A r \in Cleanup(app, Watched[app.phase]) : Meets(r)
  BY <1>2, <1>3, <1>4, CleanupFits
<1>6. Meets(app')
  BY <1>5 DEF SafetyTrip
<1> QED
  BY <1>6, ExecutorStep DEF SafetyTrip, Handled

\* The phases before anything could energise.
LEMMA DiscoverStep ==
  ASSUME OneShotInv, Discover
  PROVE  OneShotInv'
<1>1. app.phase = "discovery" /\ World /\ app \in Actions
  BY DEF Discover, Step, OneShotInv, World, Fits
<1>2. Early(app)
  BY <1>1, NotFailed DEF OneShotInv, Fits, Settled, Recorded, Early
<1>3. \A r \in Prepare(app) : Meets(r)
  BY <1>1, <1>2, PrepareFits
<1>4. \A r \in Cleanup(app, "discovery") : Meets(r)
  BY <1>1, <1>2, CleanupFits DEF Early, Stages
<1>5. Meets(app')
  BY <1>3, <1>4, Zenon DEF Discover, Step
<1> QED
  BY <1>5, ExecutorStep DEF Discover, Step, Handled

\* The disable before the validation is confirmed, or given up.
LEMMA PreflightStep ==
  ASSUME OneShotInv, Preflight
  PROVE  OneShotInv'
<1>1. app.phase = "preflight" /\ World /\ app \in Actions
  BY DEF Preflight, Step, OneShotInv, World, Fits
<1>2. Early(app)
  BY <1>1, NotFailed DEF OneShotInv, Fits, Settled, Recorded, Early
<1>3. \A r \in Validate(app) : Meets(r)
  BY <1>1, <1>2, ValidateFits
<1>4. \A r \in Cleanup(app, "validate") : Meets(r)
  BY <1>1, <1>2, CleanupFits DEF Early, Stages
<1>5. Meets(app')
  BY <1>3, <1>4, Zenon DEF Preflight, Step
<1> QED
  BY <1>5, ExecutorStep DEF Preflight, Step, Handled

\* The switch is done when every selected drive is read in the mode asked for.
LEMMA SwitchModeStep ==
  ASSUME OneShotInv, SwitchMode
  PROVE  OneShotInv'
<1>1. app.phase = "mode" /\ World /\ app \in Actions
  BY DEF SwitchMode, Step, OneShotInv, World, Fits
<1>2. Early(app)
  BY <1>1, NotFailed DEF OneShotInv, Fits, Settled, Recorded, Early
<1>3. ASSUME Switched
      PROVE  Meets(End(app, "COMPLETED")) /\ Meets(Send(app, "clear", "clear"))
  <2>1. Agreed(app)
    BY <1>2, <1>3 DEF Switched, Agreed, Selected, Early
  <2>2. app.sound => \A j \in app.cmd.mask :
          drive[j] # "on" /\ ~Holds(bus, "enable", j)
    BY <1>1 DEF OneShotInv, Fits, Certain
  <2>3. Meets(End(app, "COMPLETED"))
    BY <1>1, <1>2, EndFits DEF Early, Ready, Codes
  <2>4. Meets(Send(app, "clear", "clear"))
    BY <1>1, <1>2, <2>1, <2>2, SendFits DEF Early, Ready, Disabling
  <2> QED
    BY <2>3, <2>4
<1>4. \A r \in Cleanup(app, "mode") : Meets(r)
  BY <1>1, <1>2, CleanupFits DEF Early, Stages
<1>5. Meets(app')
  BY <1>3, <1>4, Zenon DEF SwitchMode, Step
<1> QED
  BY <1>5, ExecutorStep DEF SwitchMode, Step, Handled

\* The phases in which the drives are in the mode of the command.
LEMMA ClearStep ==
  ASSUME OneShotInv, Clear
  PROVE  OneShotInv'
<1>1. app.phase = "clear" /\ World /\ app \in Actions
  BY DEF Clear, Step, OneShotInv, World, Fits
<1>2. Ready(app) /\ Agreed(app)
  BY <1>1, NotFailed DEF OneShotInv, Fits, Settled
<1>3. app.sound => \A j \in app.cmd.mask :
        drive[j] # "on" /\ ~Holds(bus, "enable", j)
  BY <1>1 DEF OneShotInv, Fits, Certain
<1>4. Meets([Send(app, "enable", "enable") EXCEPT !.asked = TRUE])
  BY <1>1, <1>2, <1>3, EnableFits
<1>5. \A r \in Cleanup(app, "clear") : Meets(r)
  BY <1>1, <1>2, CleanupFits DEF Stages
<1>6. Meets(app')
  BY <1>4, <1>5, Zenon DEF Clear, Step
<1> QED
  BY <1>6, ExecutorStep DEF Clear, Step, Handled

\* What is confirmed enabled has no ENABLE left on its way.
LEMMA EnableStep ==
  ASSUME OneShotInv, Enable
  PROVE  OneShotInv'
<1> DEFINE s == [app EXCEPT !.own = TRUE]
<1>1. app.phase = "enable" /\ World /\ app \in Actions
  BY DEF Enable, Step, OneShotInv, World, Fits
<1>2. Ready(app) /\ Agreed(app)
  BY <1>1, NotFailed DEF OneShotInv, Fits, Settled
<1>3. /\ s \in Actions /\ s.cmd = app.cmd /\ s.failed = app.failed
      /\ s.sound = app.sound /\ s.asked = app.asked
      /\ s.verified = app.verified /\ s.ended = app.ended
  BY <1>1 DEF Actions
<1>4. \/ /\ Confirmed("on")
         /\ app' \in IF s.cmd.kind = "hold" THEN {Send(s, "hold", "target")}
                     ELSE {Send(s, "move", "target")} \cup Cleanup(s, "motion")
      \/ app' \in Cleanup(app, "enable")
  BY Zenon DEF Enable, Step
<1> HIDE DEF s
<1>5. Ready(s) /\ Agreed(s)
  BY <1>2, <1>3 DEF Ready, Agreed, Aware
<1>6. ASSUME Confirmed("on")
      PROVE  Meets(Send(s, "hold", "target")) /\ Meets(Send(s, "move", "target"))
  <2>1. app.sound => \A j \in app.cmd.mask : ~Holds(bus, "enable", j)
    <3>1. ASSUME app.sound, NEW j \in app.cmd.mask
          PROVE  j \in app.newer /\ seen[j] = "on"
      BY <1>6, <3>1 DEF Confirmed, Answered, All, Selected
    <3> QED
      BY <1>1, <3>1 DEF OneShotInv, Fits, Certain
  <2> QED
    BY <1>1, <1>3, <1>5, <2>1, SendFits DEF Ready, Agreed, Disabling
<1>7. \A r \in Cleanup(s, "motion") : Meets(r)
  BY <1>1, <1>3, <1>5, CleanupFits DEF Stages
<1>8. \A r \in Cleanup(app, "enable") : Meets(r)
  BY <1>1, <1>2, CleanupFits DEF Stages
<1>9. Meets(app')
  BY <1>4, <1>6, <1>7, <1>8, Zenon
<1> QED
  BY <1>9, ExecutorStep DEF Enable, Step, Handled

\* The motion ends in the hold ...
LEMMA MoveStep ==
  ASSUME OneShotInv, Move
  PROVE  OneShotInv'
<1>1. app.phase = "move" /\ World /\ app \in Actions
  BY DEF Move, Step, OneShotInv, World, Fits
<1>2. Ready(app) /\ Agreed(app)
  BY <1>1, NotFailed DEF OneShotInv, Fits, Settled
<1>3. app.sound => \A j \in app.cmd.mask : ~Holds(bus, "enable", j)
  BY <1>1 DEF OneShotInv, Fits, Certain
<1>4. Meets(Send(app, "hold", "target"))
  BY <1>1, <1>2, <1>3, SendFits DEF Ready, Agreed, Disabling
<1>5. \A r \in Cleanup(app, "motion") : Meets(r)
  BY <1>1, <1>2, CleanupFits DEF Stages
<1>6. Meets(app')
  BY <1>4, <1>5, Zenon DEF Move, Step
<1> QED
  BY <1>6, ExecutorStep DEF Move, Step, Handled

\* ... and the hold in the disable.
LEMMA HoldStep ==
  ASSUME OneShotInv, Hold
  PROVE  OneShotInv'
<1>1. app.phase = "hold" /\ World /\ app \in Actions
  BY DEF Hold, Step, OneShotInv, World, Fits
<1>2. Ready(app) /\ Agreed(app)
  BY <1>1, NotFailed DEF OneShotInv, Fits, Settled
<1>3. app.sound => \A j \in app.cmd.mask : ~Holds(bus, "enable", j)
  BY <1>1 DEF OneShotInv, Fits, Certain
<1>4. Meets(Send(app, "disable", "disable"))
  BY <1>1, <1>2, <1>3, SendFits DEF Ready, Agreed
<1>5. Meets(app')
  BY <1>4, Zenon DEF Hold, Step
<1> QED
  BY <1>5, ExecutorStep DEF Hold, Step, Handled

\* The disable of an action is confirmed, or given up.
LEMMA DisableStep ==
  ASSUME OneShotInv, Disable
  PROVE  OneShotInv'
<1>1. app.phase = "disable" /\ World /\ app \in Actions
  BY DEF Disable, Step, OneShotInv, World, Fits
<1>2. Ready(app) /\ Agreed(app)
  BY <1>1, NotFailed DEF OneShotInv, Fits, Settled
<1>3. ASSUME Confirmed("off")
      PROVE  Meets(End(app, "COMPLETED"))
  <2>1. withdraw => \A j \in app.cmd.mask : GoesOff(bus, drive, mode, j)
    BY <1>1, <1>2, <1>3, SentGoesOff
       DEF Confirmed, Answered, Disabling, Agreed, Modes, Selected
  <2> QED
    BY <1>1, <1>2, <2>1, EndFits DEF Ready, Codes
<1>4. \A r \in Cleanup(app, "disable") : Meets(r)
  BY <1>1, <1>2, CleanupFits DEF Stages
<1>5. Meets(app')
  BY <1>3, <1>4, Zenon DEF Disable, Step
<1> QED
  BY <1>5, ExecutorStep DEF Disable, Step, Handled

\* The cleanup.
LEMMA CleanupHoldStep ==
  ASSUME OneShotInv, CleanupHold
  PROVE  OneShotInv'
<1>1. app.phase = "cleanupHold" /\ World /\ app \in Actions
  BY DEF CleanupHold, Step, OneShotInv, World, Fits
<1>2. /\ Agreed(app) /\ Aware(app, bus, mode)
      /\ app.ended.off = {} /\ app.ended.code # "COMPLETED"
  BY <1>1 DEF OneShotInv, Fits, Settled, Recorded
<1>3. Meets(Send(app, "cleanupDisable", "disable"))
  BY <1>1, <1>2, SendFits DEF Agreed
<1>4. Meets(app')
  BY <1>3, Zenon DEF CleanupHold, Step
<1> QED
  BY <1>4, ExecutorStep DEF CleanupHold, Step, Handled

\* ... whose disable is confirmed, or given up.
LEMMA CleanupDisableStep ==
  ASSUME OneShotInv, CleanupDisable
  PROVE  OneShotInv'
<1>1. /\ app.phase = "cleanupDisable" /\ World /\ app \in Actions
      /\ Sent /\ app' = End(app, "FAILED")
  BY DEF CleanupDisable, Step, OneShotInv, World, Fits, Confirmed, Answered
<1>2. Aware(app, bus, mode) /\ Recorded(app)
  BY DEF OneShotInv, Fits
<1>3. withdraw /\ app.asked => \A j \in app.cmd.mask : GoesOff(bus, drive, mode, j)
  BY <1>1, <1>2, SentGoesOff DEF Recorded, Disabling, Selected
<1>4. Meets(End(app, "FAILED"))
  BY <1>1, <1>2, <1>3, EndFits DEF Codes
<1> QED
  BY <1>1, <1>4, ExecutorStep DEF CleanupDisable, Step, Handled

\* What a STOP leads to.
LEMMA StopHoldStep ==
  ASSUME OneShotInv, StopHold
  PROVE  OneShotInv'
<1>1. /\ app.phase = "stopHold" /\ World /\ app \in Actions
      /\ app' \in {End(app, "FAILED"), End(app, "STOPPED")}
  BY DEF StopHold, Step, OneShotInv, World, Fits
<1>2. Aware(app, bus, mode) /\ Recorded(app)
  BY DEF OneShotInv, Fits
<1>3. Meets(End(app, "FAILED")) /\ Meets(End(app, "STOPPED"))
  BY <1>1, <1>2, EndFits DEF Codes, Recorded
<1> QED
  BY <1>1, <1>3, ExecutorStep DEF StopHold, Step, Handled

\* ... or a disable that is confirmed or given up.
LEMMA StopDisableStep ==
  ASSUME OneShotInv, StopDisable
  PROVE  OneShotInv'
<1>1. /\ app.phase = "stopDisable" /\ World /\ app \in Actions
      /\ Sent /\ app' \in {End(app, "FAILED"), End(app, "STOPPED")}
  BY DEF StopDisable, Step, OneShotInv, World, Fits
<1>2. Aware(app, bus, mode) /\ Recorded(app)
  BY DEF OneShotInv, Fits
<1>3. withdraw /\ (\A j \in app.cmd.mask : app.verified[j] # "none")
        => \A j \in app.cmd.mask : GoesOff(bus, drive, mode, j)
  BY <1>1, SentGoesOff DEF Disabling, Selected
<1>4. Meets(End(app, "FAILED")) /\ Meets(End(app, "STOPPED"))
  BY <1>1, <1>2, <1>3, EndFits DEF Codes, Recorded
<1> QED
  BY <1>1, <1>4, ExecutorStep DEF StopDisable, Step, Handled

-----------------------------------------------------------------------------
(* Beginning, ending from outside, and handing frames over.                *)

\* An action that begins.
LEMMA StartStep ==
  ASSUME OneShotInv, Start
  PROVE  OneShotInv'
<1>1. World /\ app \in Actions /\ Aware(app, bus, mode)
  BY DEF OneShotInv, World, Fits
<1>2. PICK c \in Commands :
        LET s == Action(c, app.verified)
        IN app' \in IF \E j \in c.mask : s.verified[j] = "none"
                      THEN {Wait(s, "discovery", <<>>)} \cup Cleanup(s, "discovery")
                      ELSE Prepare(s)
  BY DEF Start
<1> DEFINE v == app.verified
           s == Action(c, v)
<1>3. c \in Orders /\ c.mode \in Modes
  <2>1. Kinds \subseteq {"move", "mit", "hold", "mode", "stop", "none"}
    BY OneShotAssumption
  <2> QED
    BY <2>1 DEF Commands, Orders
<1>4. v \in Known
  BY <1>1 DEF Actions
<1>5. \/ app' = Wait(s, "discovery", <<>>)
      \/ app' \in Cleanup(s, "discovery")
      \/ app' \in Prepare(s)
  BY <1>2, Zenon
<1>6. s \in Actions
  <2> HIDE DEF v
  <2> QED
    BY <1>3, <1>4, ActionIs
<1>7. /\ s.phase = "idle" /\ s.cmd = c /\ s.failed = "none" /\ s.asked = FALSE
      /\ s.verified = v /\ s.ended.off = {} /\ s.ended.code = "none"
      /\ s.sound = FALSE
  BY DEF Action, NoResult
<1> HIDE DEF s
<1>8. Early(s)
  BY <1>1, <1>3, <1>6, <1>7 DEF Early, Ready, Aware
<1>9. \A r \in Prepare(s) : Meets(r)
  BY <1>1, <1>6, <1>8, PrepareFits
<1>10. \A r \in Cleanup(s, "discovery") : Meets(r)
  BY <1>1, <1>6, <1>8, CleanupFits DEF Early, Stages
<1>11. Meets(Wait(s, "discovery", <<>>))
  <2> DEFINE none == <<>>
             t == Wait(s, "discovery", none)
  <2>1. none \in Seq(Frames) /\ \A op, j : ~Holds(none, op, j)
    BY NothingHeld
  <2>2. \A n : ~(n \in DOMAIN none)
    OBVIOUS
  <2> HIDE DEF none
  <2>3. "discovery" \in Phases
    BY DEF Phases
  <2>4. /\ t \in Actions /\ t.phase = "discovery" /\ t.batch = none
        /\ t.cmd = s.cmd /\ t.failed = s.failed /\ t.sound = s.sound
        /\ t.asked = s.asked /\ t.verified = s.verified /\ t.ended = s.ended
    BY <1>6, <2>1, <2>3, WaitIs
  <2> HIDE DEF t
  <2>5. Aware(t, bus, mode)
    BY <1>8, <2>4 DEF Early, Ready, Aware
  <2>6. Writing(t) /\ Starting(t)
    BY <2>1, <2>2, <2>4 DEF Writing, Starting
  <2>7. Settled(t) /\ Recorded(t)
    BY <1>7, <1>8, <2>4 DEF Settled, Recorded, Early
  <2>8. Owes(t, bus, drive, mode) /\ Certain(t, bus, drive, seen)
    BY <1>7, <2>4 DEF Owes, Certain, Disabling
  <2>9. Meets(t)
    BY <2>4, <2>5, <2>6, <2>7, <2>8 DEF Meets, Fits
  <2> QED
    BY <2>9 DEF t, none
<1>12. Meets(app')
  BY <1>5, <1>9, <1>10, <1>11, Zenon
<1> QED
  BY <1>12, ExecutorStep DEF Start

\* A STOP takes the drives over.
LEMMA TakeStopStep ==
  ASSUME OneShotInv, TakeStop
  PROVE  OneShotInv'
<1>1. World /\ app \in Actions /\ Aware(app, bus, mode)
  BY DEF OneShotInv, World, Fits
<1> DEFINE C(m) == [kind |-> "stop",
                    mode |-> IF app.cmd.kind = "mode" /\ app.cmd.mode = "mit"
                               THEN "none" ELSE app.cmd.mode,
                    mask |-> Selected \cup m]
           r == [code |-> "CANCELLED", off |-> {}]
           v == app.verified
<1>2. PICK m \in SUBSET Joints :
        app' \in StopAction([Action(C(m), v) EXCEPT !.ended = r])
  BY DEF TakeStop
<1> DEFINE c == C(m)
           a == Action(c, v)
           s == [a EXCEPT !.ended = r]
<1>3. c \in Orders
  BY <1>1 DEF Actions, Orders, Selected
<1>4. v \in Known /\ r \in [code : Codes, off : SUBSET Joints]
  BY <1>1 DEF Actions, Codes
<1> HIDE DEF c
<1>5. a \in Actions
  <2> HIDE DEF v
  <2> QED
    BY <1>3, <1>4, ActionIs
<1>6. /\ a.phase = "idle" /\ a.cmd = c /\ a.failed = "none" /\ a.asked = FALSE
      /\ a.verified = v /\ a.sound = FALSE
  BY DEF Action
<1> HIDE DEF a
<1>7. /\ s \in Actions /\ s.cmd = c /\ s.failed = "none" /\ s.asked = FALSE
      /\ s.sound = FALSE /\ s.verified = v /\ s.ended = r
  BY <1>4, <1>5, <1>6 DEF Actions
<1>8. app' \in StopAction(s)
  BY <1>2 DEF a, c
<1> HIDE DEF s
<1>9. \/ app' = Wait(s, "stopDisable", EmergencyDisable(s.verified, s.cmd.mask))
      \/ app' = Send(s, "stopHold", "target") /\ s.cmd.mode # "none"
  BY <1>8 DEF StopAction
<1>10. Aware(s, bus, mode)
  BY <1>1, <1>7 DEF Aware
<1>11. Meets(Wait(s, "stopDisable", EmergencyDisable(s.verified, s.cmd.mask)))
  BY <1>1, <1>7, <1>10, EmergencyFits
<1>12. s.cmd.mode # "none" => Meets(Send(s, "stopHold", "target"))
  <2>1. s.cmd.mode # "none" => s.cmd.mode \in Modes
    BY <1>7 DEF Actions, Orders
  <2> QED
    BY <1>1, <1>7, <1>10, <2>1, SendFits DEF Disabling
<1>13. Meets(app')
  BY <1>9, <1>11, <1>12, Zenon
<1> QED
  BY <1>13, ExecutorStep DEF TakeStop

\* A batch of targets is built again.
LEMMA ResendStep ==
  ASSUME OneShotInv, Resend
  PROVE  OneShotInv'
<1>1. World /\ app \in Actions /\ Meets(app)
  BY DEF OneShotInv, World, Fits, Meets
<1>2. app.phase \in {"move", "stopHold", "hold"}
  BY DEF Resend
<1>3. app.cmd.mode \in Modes /\ Selected \in SUBSET Joints
  BY <1>1, <1>2 DEF Meets, Fits, Settled, Agreed, Actions, Orders, Selected
<1> DEFINE fr == Batch("target", app.cmd.mode, Selected)
           t == [app EXCEPT !.batch = fr]
<1>4. /\ fr \in Seq(Frames)
      /\ \A n \in DOMAIN fr :
           \E j \in Selected : fr[n] = Frame("target", app.cmd.mode, j)
  BY <1>3, BatchIs DEF Ops
<1> HIDE DEF fr
<1>5. \A n \in DOMAIN fr : fr[n].op \notin {"write", "enable"}
  BY <1>4 DEF Frame
<1>6. /\ t \in Actions /\ t.phase = app.phase /\ t.batch = fr
      /\ t.cmd = app.cmd /\ t.failed = app.failed /\ t.sound = app.sound
      /\ t.asked = app.asked /\ t.verified = app.verified /\ t.ended = app.ended
      /\ t.newer = app.newer
  BY <1>1, <1>4 DEF Actions
<1>7. app' = t
  BY DEF Resend, fr
<1> HIDE DEF t
<1>8. Aware(t, bus, mode)
  BY <1>1, <1>6 DEF Meets, Fits, Aware
<1>9. Writing(t) /\ Starting(t)
  BY <1>2, <1>5, <1>6 DEF Writing, Starting, Holds
<1>10. Settled(t) /\ Recorded(t)
  BY <1>1, <1>6 DEF Meets, Fits, Settled, Recorded, Agreed
<1>11. withdraw => Owes(t, bus, drive, mode)
  BY <1>1, <1>2, <1>6 DEF Meets, Fits, Owes, Disabling
<1>12. Certain(t, bus, drive, seen)
  BY <1>1, <1>2, <1>6 DEF Meets, Fits, Certain
<1>13. Meets(app')
  BY <1>6, <1>7, <1>8, <1>9, <1>10, <1>11, <1>12 DEF Meets, Fits
<1> QED
  BY <1>13, ExecutorStep DEF Resend, Handled

\* A global fault sends the disables that it is answerable with.
LEMMA GlobalFaultStep ==
  ASSUME OneShotInv, GlobalFault
  PROVE  OneShotInv'
<1>1. /\ WorldType(bus, drive, mode, seen) /\ EnablesFit(bus, mode)
      /\ Fits(app, withdraw, bus, drive, mode, seen) /\ app \in Actions
  BY DEF OneShotInv, Fits
<1> DEFINE v == app.verified
           c == EmergencyDisable(v, Joints)
           t == bus \o c
<1>2. v \in Known /\ bus \in Seq(Frames) /\ mode \in [Joints -> Modes]
  BY <1>1 DEF Actions, WorldType
<1>3. /\ c \in Seq(Frames)
      /\ \A n \in DOMAIN c : c[n].op = "disable"
      /\ \A j \in Joints : v[j] # "none" =>
           \E n \in DOMAIN c : c[n] = Frame("disable", v[j], j)
  <2> HIDE DEF v
  <2> QED
    BY <1>2, EmergencyIs
<1>4. bus' = t
  BY DEF GlobalFault
<1> HIDE DEF c
<1>5. /\ Continues(bus, t)
      /\ \A n \in DOMAIN t : n > Len(bus) => t[n].op = "disable"
      /\ \A j \in Joints : v[j] # "none" =>
           \E n \in DOMAIN t : n > Len(bus) /\ t[n] = Frame("disable", v[j], j)
  <2>1. /\ Continues(bus, t)
        /\ \A n \in DOMAIN t : n > Len(bus) =>
             n - Len(bus) \in DOMAIN c /\ t[n] = c[n - Len(bus)]
        /\ \A n \in DOMAIN c :
             /\ n + Len(bus) \in DOMAIN t /\ n + Len(bus) > Len(bus)
             /\ t[n + Len(bus)] = c[n]
    BY <1>2, <1>3, ConcatContinues
  <2> HIDE DEF t, v
  <2>2. ASSUME NEW j \in Joints, v[j] # "none"
        PROVE  \E n \in DOMAIN t : n > Len(bus) /\ t[n] = Frame("disable", v[j], j)
    <3>1. PICK n \in DOMAIN c : c[n] = Frame("disable", v[j], j)
      BY <1>3, <2>2
    <3> QED
      BY <2>1, <3>1
  <2> QED
    BY <1>3, <2>1, <2>2
<1> HIDE DEF t, v
<1>6. WorldType(t, drive, mode, seen)
  BY <1>1, <1>5 DEF WorldType, Continues
<1>7. EnablesFit(t, mode)
  BY <1>1, <1>2, <1>5, ContinuesFit
<1>8. Aware(app, t, mode)
  <2>1. \A j \in Joints : Holds(t, "write", j) => Holds(bus, "write", j)
    BY <1>2, <1>5, ContinuesHolds DEF Ops
  <2> QED
    BY <1>1, <2>1 DEF Fits, Aware
<1>9. \A j \in Joints : GoesOff(bus, drive, mode, j) => GoesOff(t, drive, mode, j)
  BY <1>2, <1>5, ContinuesOff
<1>10. \A j \in Joints : v[j] # "none" => GoesOff(t, drive, mode, j)
  <2>1. ASSUME NEW j \in Joints, v[j] # "none"
        PROVE  mode[j] = v[j] /\ ~Holds(bus, "write", j)
    BY <1>1, <2>1 DEF Fits, Aware, v
  <2> QED
    BY <1>2, <1>5, <2>1, ContinuesDisabled
<1>11. Fits(app', withdraw, t, drive, mode, seen)
  <2>1. CASE app.phase = "idle"
    <3>1. app' = app
      BY <2>1 DEF GlobalFault
    <3>2. withdraw => Owes(app, t, drive, mode)
      <4>1. app.ended.off \subseteq Joints
        BY <1>1 DEF Actions
      <4> QED
        BY <1>1, <1>9, <2>1, <4>1 DEF Fits, Owes, Disabling
    <3>3. Certain(app, t, drive, seen)
      BY <2>1 DEF Certain
    <3> QED
      BY <1>1, <1>8, <3>1, <3>2, <3>3 DEF Fits
  <2>2. CASE app.phase # "idle"
    <3>1. app' = End(app, "FAILED")
      BY <2>2 DEF GlobalFault
    <3>2. app.cmd.mask \subseteq Joints
      BY <1>1 DEF Actions, Orders
    <3>3. app.asked => \A j \in app.cmd.mask : app.verified[j] # "none"
      BY <1>1 DEF Fits, Recorded
    <3>4. withdraw /\ (app.asked \/ (app.phase = "stopDisable" /\
                         \A j \in app.cmd.mask : app.verified[j] # "none"))
            => \A j \in app.cmd.mask : GoesOff(t, drive, mode, j)
      BY <1>10, <3>2, <3>3 DEF v
    <3> QED
      BY <1>1, <1>8, <3>1, <3>4, EndFitsIn DEF Codes
  <2> QED
    BY <2>1, <2>2
<1> QED
  BY <1>4, <1>6, <1>7, <1>11 DEF OneShotInv, GlobalFault, Outside

\* The next frame of the batch is handed over; one that is no emergency may be lost.
LEMMA PopStep ==
  ASSUME OneShotInv, Pop
  PROVE  OneShotInv'
<1>1. /\ WorldType(bus, drive, mode, seen) /\ EnablesFit(bus, mode)
      /\ Fits(app, withdraw, bus, drive, mode, seen) /\ app \in Actions
  BY DEF OneShotInv, Fits
<1> DEFINE b == app.batch
           f == Head(b)
           u == Tail(b)
           t == bus'
           s == app'
<1>2. /\ b \in Seq(Frames) /\ b # <<>> /\ bus \in Seq(Frames)
      /\ mode \in [Joints -> Modes]
  BY <1>1 DEF Actions, WorldType, Pop, Sent
<1>3. /\ u \in Seq(Frames) /\ f \in Frames
      /\ 1 \in DOMAIN b /\ b[1] = f
      /\ \A n \in DOMAIN u : n + 1 \in DOMAIN b /\ u[n] = b[n + 1]
      /\ \A n \in DOMAIN b : n # 1 => n - 1 \in DOMAIN u /\ u[n - 1] = b[n]
      /\ \A op \in Ops, j \in Joints : Holds(u, op, j) => Holds(b, op, j)
  <2> HIDE DEF b
  <2> QED
    BY <1>2, TailFrames
<1>4. f.op \in Ops /\ f.joint \in Joints /\ f.mode \in Modes
  BY <1>3 DEF Frames
<1>5. s = [app EXCEPT !.batch = u]
  BY DEF Pop
<1>6. \/ t = Append(bus, f)
      \/ t = bus /\ f.op # "disable"
  BY DEF Pop, Rank
<1> HIDE DEF u, t, f
<1>7. /\ s \in Actions /\ s.phase = app.phase /\ s.batch = u
      /\ s.cmd = app.cmd /\ s.failed = app.failed /\ s.sound = app.sound
      /\ s.asked = app.asked /\ s.verified = app.verified
      /\ s.ended = app.ended /\ s.newer = app.newer
  BY <1>1, <1>3, <1>5 DEF Actions
<1> HIDE DEF s, b
<1>8. /\ Continues(bus, t)
      /\ \A n \in DOMAIN t : n > Len(bus) => n = Len(bus) + 1 /\ t[n] = f
      /\ f.op = "disable" =>
           \E n \in DOMAIN t : n > Len(bus) /\ t[n] = f
  <2>1. CASE t = Append(bus, f)
    <3>1. /\ Continues(bus, t)
          /\ Len(bus) + 1 \in DOMAIN t /\ t[Len(bus) + 1] = f
          /\ \A n \in DOMAIN t : n > Len(bus) => n = Len(bus) + 1
      BY <1>2, <1>3, <2>1, AppendContinues
    <3>2. Len(bus) + 1 > Len(bus)
      BY <1>2
    <3> QED
      BY <3>1, <3>2
  <2>2. CASE t = bus /\ f.op # "disable"
    <3>1. Len(bus) \in Nat /\ \A n \in DOMAIN bus : ~(n > Len(bus))
      BY <1>2
    <3>2. Continues(bus, t)
      BY <1>2, <2>2, <3>1 DEF Continues
    <3> QED
      BY <2>2, <3>1, <3>2
  <2> QED
    BY <1>6, <2>1, <2>2
<1>9. \A op \in Ops, j \in Joints :
        Holds(t, op, j) => Holds(bus, op, j) \/ (f.op = op /\ f.joint = j)
  BY <1>2, <1>8, ContinuesHolds
<1>10. /\ f.op = "enable" => app.phase = "enable" /\ app.verified[f.joint] = f.mode
       /\ f.op = "write" => app.phase = "mode" /\ app.verified[f.joint] = "none"
       /\ Holds(b, f.op, f.joint)
  BY <1>1, <1>3, <1>4 DEF Fits, Starting, Writing, Holds, b
<1>11. WorldType(t, drive, mode, seen)
  BY <1>1, <1>8 DEF WorldType, Continues
<1>12. EnablesFit(t, mode)
  <2>1. ASSUME NEW n \in DOMAIN t, n > Len(bus), t[n].op = "enable"
        PROVE  /\ t[n].mode = mode[t[n].joint]
               /\ ~Holds(t, "write", t[n].joint)
    <3>1. t[n] = f /\ f.op = "enable"
      BY <1>8, <2>1
    <3>2. mode[f.joint] = f.mode /\ ~Holds(bus, "write", f.joint)
      BY <1>1, <1>4, <1>10, <3>1 DEF Fits, Aware, Modes
    <3>3. ~Holds(t, "write", f.joint)
      BY <1>4, <1>9, <3>1, <3>2 DEF Ops
    <3> QED
      BY <3>1, <3>2, <3>3
  <2> QED
    BY <1>1, <1>2, <1>8, <2>1, ContinuesFit
<1>13. Aware(s, t, mode)
  BY <1>1, <1>7, <1>9, <1>10 DEF Fits, Aware, Ops
<1>14. Writing(s)
  BY <1>1, <1>3, <1>7 DEF Fits, Writing, Ops, b
<1>15. Starting(s)
  <2>1. ASSUME NEW n \in DOMAIN u, u[n].op = "enable"
        PROVE  app.phase = "enable" /\ app.verified[u[n].joint] = u[n].mode
    BY <1>1, <1>3, <2>1 DEF Fits, Starting, b
  <2>2. ASSUME app.phase = "enable", NEW m \in DOMAIN u, NEW n \in DOMAIN u,
               u[m].joint = u[n].joint
        PROVE  m = n
    <3>1. m + 1 = n + 1
      BY <1>1, <1>3, <2>2 DEF Fits, Starting, b
    <3>2. m \in Nat /\ n \in Nat
      BY <1>3
    <3> QED
      BY <3>1, <3>2
  <2> QED
    BY <1>7, <2>1, <2>2 DEF Starting
<1>16. Settled(s) /\ Recorded(s)
  BY <1>1, <1>7 DEF Fits, Settled, Recorded, Agreed
<1>17. ASSUME f.op # "enable", NEW j \in Joints, GoesOff(bus, drive, mode, j)
       PROVE  GoesOff(t, drive, mode, j)
  BY <1>2, <1>8, <1>17, ContinuesOff
<1>18. ASSUME withdraw
       PROVE  Owes(s, t, drive, mode)
  <2>1. Owes(app, bus, drive, mode) /\ app.ended.off \subseteq Joints
        /\ app.cmd.mask \subseteq Joints
    BY <1>1, <1>18 DEF Fits, Actions, Orders
  <2>2. ASSUME NEW j \in app.ended.off
        PROVE  GoesOff(t, drive, mode, j)
    <3>1. f.op # "enable"
      BY <1>1, <1>10, <2>2 DEF Fits, Recorded
    <3> QED
      BY <1>17, <2>1, <2>2, <3>1 DEF Owes
  <2>3. ASSUME app.phase \in Disabling, NEW j \in app.cmd.mask,
               app.verified[j] # "none"
        PROVE  \/ \E n \in DOMAIN u : u[n] = Frame("disable", app.verified[j], j)
               \/ GoesOff(t, drive, mode, j)
    <3>1. f.op \notin {"enable", "write"}
      BY <1>10, <2>3 DEF Disabling
    <3>2. CASE GoesOff(bus, drive, mode, j)
      BY <1>17, <2>1, <3>1, <3>2
    <3>3. CASE \E n \in DOMAIN b : b[n] = Frame("disable", app.verified[j], j)
      <4>1. PICK n \in DOMAIN b : b[n] = Frame("disable", app.verified[j], j)
        BY <3>3
      <4>2. CASE n # 1
        BY <1>3, <4>1, <4>2
      <4>3. CASE n = 1
        <5>1. f = Frame("disable", app.verified[j], j) /\ f.op = "disable"
          BY <1>3, <4>1, <4>3 DEF Frame
        <5>2. mode[j] = app.verified[j] /\ ~Holds(bus, "write", j)
          BY <1>1, <2>1, <2>3 DEF Fits, Aware
        <5>3. \E n_1 \in DOMAIN t : n_1 > Len(bus)
                                   /\ t[n_1] = Frame("disable", mode[j], j)
          BY <1>8, <5>1, <5>2
        <5>4. j \in Joints
          BY <2>1
        <5>5. \A k \in DOMAIN t : k > Len(bus) /\ t[k].op \in {"enable", "write"}
                                    => t[k].joint # j
          BY <1>8, <3>1
        <5> QED
          BY <1>2, <1>8, <5>2, <5>3, <5>4, <5>5, ContinuesDisabled
      <4> QED
        BY <4>2, <4>3
    <3> QED
      BY <2>1, <2>3, <3>2, <3>3 DEF Owes, b
  <2> QED
    BY <1>7, <2>2, <2>3 DEF Owes
<1>19. Certain(s, t, drive, seen)
  <2>1. SUFFICES ASSUME app.sound, NEW j \in app.cmd.mask
                 PROVE
    /\ app.phase \in {"mode", "clear"} => drive[j] # "on" /\ ~Holds(t, "enable", j)
    /\ app.phase = "enable" =>
         /\ drive[j] = "on" \/ (j \in app.newer /\ seen[j] = "on")
              => ~Holds(t, "enable", j) /\ ~Holds(u, "enable", j)
         /\ Holds(u, "enable", j) => ~Holds(t, "enable", j)
         /\ Once(t, j)
    /\ app.phase \in {"move", "hold", "disable"} => ~Holds(t, "enable", j)
    /\ app.phase = "disable" /\ j \in app.newer /\ seen[j] = "off"
         => drive[j] # "on"
    BY <1>7 DEF Certain
  <2>2. j \in Joints /\ "enable" \in Ops
    BY <1>1, <2>1 DEF Actions, Orders, Ops
  <2>3.
    /\ app.phase \in {"mode", "clear"} => drive[j] # "on" /\ ~Holds(bus, "enable", j)
    /\ app.phase = "enable" =>
         /\ drive[j] = "on" \/ (j \in app.newer /\ seen[j] = "on")
              => ~Holds(bus, "enable", j) /\ ~Holds(b, "enable", j)
         /\ Holds(b, "enable", j) => ~Holds(bus, "enable", j)
         /\ Once(bus, j)
    /\ app.phase \in {"move", "hold", "disable"} => ~Holds(bus, "enable", j)
    /\ app.phase = "disable" /\ j \in app.newer /\ seen[j] = "off"
         => drive[j] # "on"
    BY <1>1, <2>1 DEF Fits, Certain, b
  <2>4. CASE f.op = "enable" /\ f.joint = j
    <3>1. app.phase = "enable" /\ Holds(b, "enable", j)
      BY <1>10, <2>4
    <3>2. ~Holds(bus, "enable", j)
      BY <2>3, <3>1
    <3>3. ~Holds(u, "enable", j)
      <4>1. SUFFICES ASSUME NEW n \in DOMAIN u, u[n].joint = j PROVE FALSE
        BY DEF Holds
      <4>2. n + 1 = 1
        BY <1>1, <1>3, <2>4, <3>1, <4>1 DEF Fits, Starting, b
      <4> QED
        BY <1>3, <4>1, <4>2
    <3>4. Once(t, j)
      <4>1. SUFFICES ASSUME NEW m \in DOMAIN t, NEW n \in DOMAIN t,
                            t[m].op = "enable", t[m].joint = j,
                            t[n].op = "enable", t[n].joint = j
                     PROVE  m = n
        BY DEF Once
      <4>2. m > Len(bus) /\ n > Len(bus)
        <5>1. Len(bus) \in Nat /\ Len(t) \in Nat
              /\ DOMAIN bus = 1..Len(bus) /\ DOMAIN t = 1..Len(t)
          BY <1>2, <1>8 DEF Continues
        <5>2. (m > Len(bus) \/ m \in DOMAIN bus) /\ (n > Len(bus) \/ n \in DOMAIN bus)
          BY <5>1
        <5>3. m \notin DOMAIN bus /\ n \notin DOMAIN bus
          BY <1>8, <3>2, <4>1 DEF Continues, Holds
        <5> QED
          BY <5>2, <5>3
      <4> QED
        BY <1>8, <4>2
    <3>5. ~(drive[j] = "on" \/ (j \in app.newer /\ seen[j] = "on"))
      BY <2>3, <3>1
    <3> QED
      BY <3>1, <3>3, <3>4, <3>5
  <2>5. CASE ~(f.op = "enable" /\ f.joint = j)
    <3>1. Holds(t, "enable", j) => Holds(bus, "enable", j)
      BY <1>9, <2>2, <2>5
    <3>2. Holds(u, "enable", j) => Holds(b, "enable", j)
      BY <1>3, <2>2
    <3>3. Once(bus, j) => Once(t, j)
      <4>1. SUFFICES ASSUME Once(bus, j), NEW m \in DOMAIN t, NEW n \in DOMAIN t,
                            t[m].op = "enable", t[m].joint = j,
                            t[n].op = "enable", t[n].joint = j
                     PROVE  m = n
        BY DEF Once
      <4>2. ~(m > Len(bus)) /\ ~(n > Len(bus))
        BY <1>8, <2>5, <4>1
      <4>3. m \in DOMAIN bus /\ n \in DOMAIN bus
        <5>1. Len(bus) \in Nat /\ Len(t) \in Nat
              /\ DOMAIN bus = 1..Len(bus) /\ DOMAIN t = 1..Len(t)
          BY <1>2, <1>8 DEF Continues
        <5> QED
          BY <4>2, <5>1
      <4>4. t[m] = bus[m] /\ t[n] = bus[n]
        BY <1>8, <4>3 DEF Continues
      <4> QED
        BY <4>1, <4>3, <4>4 DEF Once
    <3> QED
      BY <2>3, <3>1, <3>2, <3>3
  <2> QED
    BY <2>4, <2>5
<1>20. Fits(s, withdraw, t, drive, mode, seen)
  BY <1>7, <1>13, <1>14, <1>15, <1>16, <1>18, <1>19 DEF Fits
<1>21. UNCHANGED <<withdraw, drive, mode, seen>>
  BY DEF Pop
<1> QED
  BY <1>11, <1>12, <1>20, <1>21 DEF OneShotInv, s, t

\* A drive is read when nothing is on its way.
LEMMA ReadStep ==
  ASSUME OneShotInv, Read
  PROVE  OneShotInv'
<1>1. /\ WorldType(bus, drive, mode, seen) /\ EnablesFit(bus, mode)
      /\ Fits(app, withdraw, bus, drive, mode, seen) /\ app \in Actions
  BY DEF OneShotInv, Fits
<1>2. PICK j \in Joints :
        /\ app.verified[j] = "none" /\ bus = <<>>
        /\ \/ app.phase = "idle"
           \/ app.phase = "discovery" /\ j \in Selected
           \/ app.phase = "mode" /\ j \in Selected /\ Sent /\ mode[j] = app.cmd.mode
        /\ app' = [app EXCEPT !.verified[j] = mode[j]]
  BY DEF Read
<1> DEFINE v == [app.verified EXCEPT ![j] = mode[j]]
           s == [app EXCEPT !.verified = v]
<1>3. v \in Known /\ \A i \in Joints : v[i] = app.verified[i] \/ v[i] = mode[i]
  BY <1>1 DEF Actions, Known, WorldType
<1>4. app' = s
  BY <1>2
<1> HIDE DEF v
<1>5. /\ s \in Actions /\ s.phase = app.phase /\ s.batch = app.batch
      /\ s.cmd = app.cmd /\ s.failed = app.failed /\ s.sound = app.sound
      /\ s.asked = app.asked /\ s.verified = v
      /\ s.ended = app.ended /\ s.newer = app.newer
  BY <1>1, <1>3 DEF Actions
<1> HIDE DEF s
<1>6. /\ app.phase \in {"idle", "discovery", "mode"}
      /\ app.phase = "mode" => app.batch = <<>>
      /\ \A op, i : ~Holds(bus, op, i)
  BY <1>2, NothingHeld DEF Sent
<1>7. Aware(s, bus, mode)
  BY <1>1, <1>3, <1>5, <1>6 DEF Fits, Aware
<1>8. Writing(s)
  <2>1. app.phase = "mode" => \A i : ~Holds(app.batch, "write", i)
    BY <1>6, NothingHeld
  <2> QED
    BY <1>1, <1>5, <2>1 DEF Fits, Writing
<1>9. Starting(s)
  BY <1>1, <1>5, <1>6 DEF Fits, Starting
<1>10. Settled(s) /\ Recorded(s)
  BY <1>1, <1>5, <1>6 DEF Fits, Settled, Recorded
<1>11. withdraw => Owes(s, bus, drive, mode)
  BY <1>1, <1>5, <1>6 DEF Fits, Owes, Disabling
<1>12. Certain(s, bus, drive, seen)
  BY <1>1, <1>5, <1>6 DEF Fits, Certain
<1>13. Meets(app')
  BY <1>4, <1>5, <1>7, <1>8, <1>9, <1>10, <1>11, <1>12 DEF Meets, Fits
<1> QED
  BY <1>13, ExecutorStep DEF Read, Handled

-----------------------------------------------------------------------------
(* The drives.                                                             *)

\* The frames on their way.
LEMMA FrameIs ==
  ASSUME NEW b \in Seq(Frames), NEW n \in DOMAIN b
  PROVE  /\ n \in Nat /\ n >= 1 /\ b[n] \in Frames
         /\ b[n].op \in Ops /\ b[n].joint \in Joints /\ b[n].mode \in Modes
<1>1. n \in Nat /\ n >= 1 /\ b[n] \in Frames
  OBVIOUS
<1> QED
  BY <1>1 DEF Frames

\* The frame at n reaches its drive: what it leaves on its way, and what it makes
\* of the drives.
Delivered(n, K) ==
  LET f == bus[n]
  IN /\ n \in DOMAIN bus /\ IsNext(n) /\ bus' = Kept(bus, K)
     /\ K \subseteq DOMAIN bus /\ n \notin K
     /\ \A k \in DOMAIN bus : k > n => k \in K
     /\ withdraw /\ f.op = "disable" =>
          \A k \in DOMAIN bus : k < n /\ bus[k].op = "enable" => 
            bus[k].joint # f.joint \/ k \notin K
     /\ \A j \in Joints : ~(f.op = "write" /\ f.joint = j) => mode'[j] = mode[j]
     /\ \A j \in Joints : drive'[j] = "on" =>
          drive[j] = "on" \/ (f.op = "enable" /\ f.joint = j)
     /\ \A j \in Joints : f = Frame("disable", mode[j], j) => drive'[j] # "on"
     /\ drive' \in [Joints -> States] /\ mode' \in [Joints -> Modes]

\* Delivering is of that kind.
LEMMA DeliverIs ==
  ASSUME OneShotInv, Deliver
  PROVE  \E n \in DOMAIN bus, K \in SUBSET Nat : Delivered(n, K)
<1>1. WorldType(bus, drive, mode, seen)
  BY DEF OneShotInv
<1>2. PICK n \in DOMAIN bus :
        /\ IsNext(n)
        /\ bus' = Left(n)
        /\ IF bus[n].op = "write"
             THEN /\ mode' = [mode EXCEPT ![bus[n].joint] = bus[n].mode]
                  /\ drive' = drive
             ELSE /\ mode' = mode
                  /\ \E d \in IF bus[n].mode = mode[bus[n].joint]
                                THEN Obeys(bus[n], drive[bus[n].joint])
                                ELSE {drive[bus[n].joint]} :
                       drive' = [drive EXCEPT ![bus[n].joint] = d]
  BY Zenon DEF Deliver
<1> DEFINE f == bus[n]
           j == f.joint
           Gone(g) == withdraw /\ f.op = "disable" /\ Rank[g.op] = 1 /\ g.joint = j
           K == {k \in DOMAIN bus : k > n \/ (k < n /\ ~Gone(bus[k]))}
<1>3. /\ bus \in Seq(Frames) /\ n \in Nat /\ DOMAIN bus \subseteq Nat
      /\ f \in Frames /\ j \in Joints /\ f.mode \in Modes
  <2>1. bus \in Seq(Frames)
    BY <1>1 DEF WorldType
  <2> QED
    BY <2>1, FrameIs
<1>4. bus' = Kept(bus, K)
  BY <1>2, Zenon DEF Left
<1>5. /\ K \subseteq DOMAIN bus /\ n \notin K
      /\ \A k \in DOMAIN bus : k > n => k \in K
  BY <1>3
<1>6. withdraw /\ f.op = "disable" =>
        \A k \in DOMAIN bus : k < n /\ bus[k].op = "enable" =>
          bus[k].joint # f.joint \/ k \notin K
  BY <1>3 DEF Rank
<1>7. \A i \in Joints : ~(f.op = "write" /\ f.joint = i) => mode'[i] = mode[i]
  BY <1>1, <1>2 DEF WorldType
<1>8. mode' \in [Joints -> Modes]
  BY <1>1, <1>2, <1>3 DEF WorldType
<1>9. CASE f.op = "write"
  <2>1. drive' = drive
    BY <1>2, <1>9
  <2>2. \A i \in Joints : f # Frame("disable", mode[i], i)
    BY <1>9 DEF Frame
  <2>3. Delivered(n, K)
    BY <1>1, <1>2, <1>4, <1>5, <1>6, <1>7, <1>8, <2>1, <2>2, Zenon
       DEF Delivered, WorldType
  <2> QED
    BY <1>3, <1>5, <2>3
<1>10. CASE f.op # "write"
  <2>1. PICK d \in IF f.mode = mode[j] THEN Obeys(f, drive[j]) ELSE {drive[j]} :
             drive' = [drive EXCEPT ![j] = d]
    BY <1>2, <1>10
  <2>2. drive \in [Joints -> States] /\ drive[j] \in States
    BY <1>1, <1>3 DEF WorldType
  <2>3. /\ d \in States
        /\ d = "on" => drive[j] = "on" \/ f.op = "enable"
        /\ f.op = "disable" /\ f.mode = mode[j] => d # "on"
    BY <2>1, <2>2 DEF Obeys, States
  <2>4. drive' \in [Joints -> States]
    BY <1>3, <2>1, <2>2, <2>3
  <2>5. drive'[j] = d /\ \A i \in Joints : i # j => drive'[i] = drive[i]
    BY <1>3, <2>1, <2>2
  <2>6. \A i \in Joints : drive'[i] = "on" =>
          drive[i] = "on" \/ (f.op = "enable" /\ f.joint = i)
    BY <2>3, <2>5
  <2>7. \A i \in Joints : f = Frame("disable", mode[i], i) => drive'[i] # "on"
    BY <2>3, <2>5 DEF Frame
  <2> HIDE DEF f, K
  <2>8. Delivered(n, K)
    BY <1>2, <1>4, <1>5, <1>6, <1>7, <1>8, <2>4, <2>6, <2>7 DEF Delivered, f
  <2> QED
    BY <1>3, <1>5, <2>8
<1> QED
  BY <1>9, <1>10

\* What goes off still does, in the builds that withdraw.
LEMMA DeliveredOff ==
  ASSUME OneShotInv, NEW n \in DOMAIN bus, NEW K, Delivered(n, K), withdraw,
         NEW j \in Joints, GoesOff(bus, drive, mode, j)
  PROVE  GoesOff(bus', drive', mode', j)
<1>1. /\ bus \in Seq(Frames) /\ mode \in [Joints -> Modes]
      /\ mode' \in [Joints -> Modes] /\ "enable" \in Ops
      /\ DOMAIN bus \subseteq Nat
  BY DEF OneShotInv, WorldType, Delivered, Ops
<1>2. bus' = Kept(bus, K) /\ n \notin K /\ IsNext(n)
  BY DEF Delivered
<1>3. \A i \in Joints : Holds(bus', "enable", i) =>
        \E k \in DOMAIN bus : k \in K /\ bus[k].op = "enable" /\ bus[k].joint = i
  BY <1>1, <1>2, KeptFrames
<1>4. CASE drive[j] # "on" /\ ~Holds(bus, "enable", j)
  <2>1. drive'[j] # "on"
    BY <1>4 DEF Delivered, Holds
  <2>2. ~Holds(bus', "enable", j)
    BY <1>3, <1>4 DEF Holds
  <2> QED
    BY <2>1, <2>2 DEF GoesOff
<1>5. CASE \E m \in DOMAIN bus :
             /\ bus[m] = Frame("disable", mode[j], j)
             /\ \A k \in DOMAIN bus : k > m /\ bus[k].op = "enable" => bus[k].joint # j
             /\ \A k \in DOMAIN bus : k < m /\ bus[k].op = "write" => bus[k].joint # j
  <2>1. PICK m \in DOMAIN bus :
             /\ bus[m] = Frame("disable", mode[j], j)
             /\ \A k \in DOMAIN bus : k > m /\ bus[k].op = "enable" => bus[k].joint # j
             /\ \A k \in DOMAIN bus : k < m /\ bus[k].op = "write" => bus[k].joint # j
    BY <1>5
  <2>2. bus[m].op = "disable" /\ bus[m].joint = j
    BY <2>1 DEF Frame
  <2>3. CASE m = n
    <3>1. drive'[j] # "on"
      BY <2>1, <2>3 DEF Delivered
    <3>2. ~Holds(bus', "enable", j)
      <4>1. SUFFICES ASSUME NEW k \in DOMAIN bus, k \in K,
                            bus[k].op = "enable", bus[k].joint = j
                     PROVE  FALSE
        BY <1>3
      <4>2. ~(k > n) /\ ~(k < n) /\ k # n
        BY <1>2, <2>1, <2>2, <2>3, <4>1 DEF Delivered
      <4>3. k \in Nat /\ n \in Nat
        BY <1>1
      <4> QED
        BY <4>2, <4>3
    <3> QED
      BY <3>1, <3>2 DEF GoesOff
  <2>4. CASE m # n
    <3>1. m > n
      <4>1. m \in Nat /\ n \in Nat
        BY <1>1
      <4>2. m < n => m \in 1..(n - 1)
        <5>1. m >= 1
          BY <1>1
        <5> QED
          BY <4>1, <5>1
      <4>3. ~(Rank[bus[m].op] > Rank[bus[n].op])
        <5>1. bus[n].op \in Ops
          BY <1>1, FrameIs
        <5> QED
          BY <2>2, <5>1 DEF Rank, Ops
      <4>4. ~(m < n)
        BY <1>2, <4>2, <4>3 DEF IsNext
      <4> QED
        BY <2>4, <4>1, <4>4
    <3>2. m \in K
      BY <3>1 DEF Delivered
    <3>3. mode'[j] = mode[j]
      <4>1. ~(bus[n].op = "write" /\ bus[n].joint = j)
        BY <1>1, <2>1, <3>1
      <4> QED
        BY <4>1 DEF Delivered
    <3>4. bus[m] = Frame("disable", mode'[j], j)
      BY <2>1, <3>3
    <3>5. GoesOff(Kept(bus, K), drive', mode', j)
      BY <1>1, <2>1, <3>2, <3>4, KeptDisable
    <3> QED
      BY <1>2, <3>5
  <2> QED
    BY <2>3, <2>4
<1> QED
  BY <1>4, <1>5 DEF GoesOff

\* A frame reaches its drive.
LEMMA DeliverStep ==
  ASSUME OneShotInv, Deliver
  PROVE  OneShotInv'
<1>1. /\ WorldType(bus, drive, mode, seen) /\ EnablesFit(bus, mode)
      /\ Fits(app, withdraw, bus, drive, mode, seen) /\ app \in Actions
  BY DEF OneShotInv, Fits
<1>2. PICK n \in DOMAIN bus, K \in SUBSET Nat : Delivered(n, K)
  BY DeliverIs
<1>3. bus' = Kept(bus, K) /\ n \notin K /\ IsNext(n) /\ bus \in Seq(Frames)
  BY <1>1, <1>2 DEF Delivered, WorldType
<1>4. UNCHANGED <<withdraw, app, seen>>
  BY DEF Deliver
<1>5. /\ bus' \in Seq(Frames)
      /\ \A op \in Ops, j \in Joints :
           Holds(bus', op, j)
             => \E k \in DOMAIN bus : k \in K /\ bus[k].op = op /\ bus[k].joint = j
      /\ \A md : EnablesFit(bus, md) => EnablesFit(bus', md)
      /\ \A j \in Joints : Once(bus, j) => Once(bus', j)
  BY <1>3, KeptFrames
<1>6. \A op \in Ops, j \in Joints : Holds(bus', op, j) => Holds(bus, op, j)
  BY <1>5 DEF Holds
<1>7. WorldType(bus', drive', mode', seen')
  BY <1>1, <1>2, <1>4, <1>5 DEF WorldType, Delivered
<1>8. \A k \in DOMAIN bus : /\ bus[k].op \in Ops /\ bus[k].joint \in Joints
                            /\ k \in Nat /\ k >= 1
  BY <1>3, FrameIs
<1>9. EnablesFit(bus, mode')
  <2>1. SUFFICES ASSUME NEW k \in DOMAIN bus, bus[k].op = "enable"
                 PROVE  mode'[bus[k].joint] = mode[bus[k].joint]
    BY <1>1 DEF EnablesFit
  <2>2. SUFFICES ASSUME bus[n].op = "write", bus[n].joint = bus[k].joint
                 PROVE  FALSE
    BY <1>2, <1>8 DEF Delivered
  <2>3. ~(n < k)
    BY <1>1, <2>1, <2>2 DEF EnablesFit
  <2>4. k # n
    BY <2>1, <2>2
  <2>5. k \in 1..(n - 1)
    BY <1>8, <2>3, <2>4
  <2>6. ~(Rank[bus[k].op] > Rank[bus[n].op])
    BY <2>1, <2>2 DEF Rank
  <2> QED
    BY <1>3, <2>5, <2>6 DEF IsNext
<1>10. EnablesFit(bus', mode')
  BY <1>5, <1>9
<1>11. Aware(app, bus', mode')
  <2>1. SUFFICES ASSUME NEW j \in Joints, app.verified[j] # "none"
                 PROVE  mode'[j] = app.verified[j] /\ ~Holds(bus', "write", j)
    BY DEF Aware
  <2>2. mode[j] = app.verified[j] /\ ~Holds(bus, "write", j)
    BY <1>1, <2>1 DEF Fits, Aware
  <2>3. mode'[j] = mode[j]
    BY <1>2, <2>2 DEF Delivered, Holds
  <2>4. ~Holds(bus', "write", j)
    BY <1>6, <2>2 DEF Ops
  <2> QED
    BY <2>2, <2>3, <2>4
<1>12. ASSUME withdraw
       PROVE  Owes(app, bus', drive', mode')
  <2>1. /\ Owes(app, bus, drive, mode)
        /\ app.ended.off \subseteq Joints /\ app.cmd.mask \subseteq Joints
    BY <1>1, <1>12 DEF Fits, Actions, Orders
  <2>2. \A j \in Joints : GoesOff(bus, drive, mode, j)
                            => GoesOff(bus', drive', mode', j)
    BY <1>2, <1>12, DeliveredOff
  <2> QED
    BY <2>1, <2>2 DEF Owes
<1>13. Certain(app, bus', drive', seen)
  <2>1. SUFFICES ASSUME app.sound, NEW j \in app.cmd.mask
                 PROVE
    /\ app.phase \in {"mode", "clear"} => drive'[j] # "on" /\ ~Holds(bus', "enable", j)
    /\ app.phase = "enable" =>
         /\ drive'[j] = "on" \/ (j \in app.newer /\ seen[j] = "on")
              => ~Holds(bus', "enable", j) /\ ~Holds(app.batch, "enable", j)
         /\ Holds(app.batch, "enable", j) => ~Holds(bus', "enable", j)
         /\ Once(bus', j)
    /\ app.phase \in {"move", "hold", "disable"} => ~Holds(bus', "enable", j)
    /\ app.phase = "disable" /\ j \in app.newer /\ seen[j] = "off"
         => drive'[j] # "on"
    BY DEF Certain
  <2>2. j \in Joints /\ "enable" \in Ops
    BY <1>1, <2>1 DEF Actions, Orders, Ops
  <2>3.
    /\ app.phase \in {"mode", "clear"} => drive[j] # "on" /\ ~Holds(bus, "enable", j)
    /\ app.phase = "enable" =>
         /\ drive[j] = "on" \/ (j \in app.newer /\ seen[j] = "on")
              => ~Holds(bus, "enable", j) /\ ~Holds(app.batch, "enable", j)
         /\ Holds(app.batch, "enable", j) => ~Holds(bus, "enable", j)
         /\ Once(bus, j)
    /\ app.phase \in {"move", "hold", "disable"} => ~Holds(bus, "enable", j)
    /\ app.phase = "disable" /\ j \in app.newer /\ seen[j] = "off"
         => drive[j] # "on"
    BY <1>1, <2>1 DEF Fits, Certain
  <2>4. Holds(bus', "enable", j) => Holds(bus, "enable", j)
    BY <1>6, <2>2
  <2>5. Once(bus, j) => Once(bus', j)
    BY <1>5, <2>2
  <2>6. drive'[j] = "on" => drive[j] = "on" \/ (bus[n].op = "enable" /\ bus[n].joint = j)
    BY <1>2, <2>2 DEF Delivered
  <2>7. CASE bus[n].op = "enable" /\ bus[n].joint = j
    <3>1. Holds(bus, "enable", j)
      BY <2>7 DEF Holds
    <3>2. Once(bus, j) => ~Holds(bus', "enable", j)
      BY <1>3, <1>5, <2>2, <2>7 DEF Once
    <3> QED
      BY <2>3, <2>5, <3>1, <3>2
  <2>8. CASE ~(bus[n].op = "enable" /\ bus[n].joint = j)
    BY <2>3, <2>4, <2>5, <2>6, <2>8
  <2> QED
    BY <2>7, <2>8
<1>14. Fits(app, withdraw, bus', drive', mode', seen)
  BY <1>1, <1>11, <1>12, <1>13 DEF Fits
<1> QED
  BY <1>4, <1>7, <1>10, <1>14 DEF OneShotInv

\* A drive answers, is silent for too long, or trips.
LEMMA ReportStep ==
  ASSUME OneShotInv, Report
  PROVE  OneShotInv'
<1>1. /\ WorldType(bus, drive, mode, seen) /\ EnablesFit(bus, mode)
      /\ Fits(app, withdraw, bus, drive, mode, seen) /\ app \in Actions
  BY DEF OneShotInv, Fits
<1>2. PICK j \in Joints :
        /\ seen' = [seen EXCEPT ![j] = drive[j]]
        /\ app' = app \/ app' = [app EXCEPT !.newer = @ \cup {j}]
  BY DEF Report
<1> DEFINE s == app'
<1>3. /\ s \in Actions /\ s.phase = app.phase /\ s.batch = app.batch
      /\ s.cmd = app.cmd /\ s.failed = app.failed /\ s.sound = app.sound
      /\ s.asked = app.asked /\ s.verified = app.verified
      /\ s.ended = app.ended /\ s.newer \subseteq app.newer \cup {j}
  <2>1. app.newer \cup {j} \in SUBSET Joints
    BY <1>1 DEF Actions
  <2> QED
    BY <1>1, <1>2, <2>1 DEF Actions
<1> HIDE DEF s
<1>4. /\ WorldType(bus, drive, mode, seen')
      /\ \A i \in Joints : seen'[i] = IF i = j THEN drive[i] ELSE seen[i]
  BY <1>1, <1>2 DEF WorldType
<1>5. Aware(s, bus, mode) /\ Writing(s) /\ Starting(s)
  BY <1>1, <1>3 DEF Fits, Aware, Writing, Starting
<1>6. Settled(s) /\ Recorded(s)
  BY <1>1, <1>3 DEF Fits, Settled, Recorded, Agreed
<1>7. withdraw => Owes(s, bus, drive, mode)
  BY <1>1, <1>3 DEF Fits, Owes
<1>8. Certain(s, bus, drive, seen')
  <2>1. app.cmd.mask \subseteq Joints
    BY <1>1 DEF Actions, Orders
  <2>2. \A i \in app.cmd.mask :
          /\ i \in s.newer /\ seen'[i] = "on" =>
               drive[i] = "on" \/ (i \in app.newer /\ seen[i] = "on")
          /\ i \in s.newer /\ seen'[i] = "off" =>
               drive[i] # "on" \/ (i \in app.newer /\ seen[i] = "off")
    BY <1>3, <1>4, <2>1
  <2>3. Certain(app, bus, drive, seen)
    BY <1>1 DEF Fits
  <2> QED
    BY <1>3, <2>2, <2>3 DEF Certain
<1>9. Fits(s, withdraw, bus, drive, mode, seen')
  BY <1>3, <1>5, <1>6, <1>7, <1>8 DEF Fits
<1>10. UNCHANGED <<withdraw, drive, mode, bus>>
  BY DEF Report
<1> QED
  BY <1>1, <1>4, <1>9, <1>10 DEF OneShotInv, s

\* A drive is silent for too long.
LEMMA StaleStep ==
  ASSUME OneShotInv, Stale
  PROVE  OneShotInv'
<1>1. /\ WorldType(bus, drive, mode, seen) /\ EnablesFit(bus, mode)
      /\ Fits(app, withdraw, bus, drive, mode, seen) /\ app \in Actions
  BY DEF OneShotInv, Fits
<1>2. PICK j \in Joints : seen' = [seen EXCEPT ![j] = "none"]
  BY DEF Stale
<1>3. /\ WorldType(bus, drive, mode, seen')
      /\ \A i \in Joints : seen'[i] = seen[i] \/ seen'[i] = "none"
  BY <1>1, <1>2 DEF WorldType
<1>4. Certain(app, bus, drive, seen')
  <2>1. app.cmd.mask \subseteq Joints /\ Certain(app, bus, drive, seen)
    BY <1>1 DEF Fits, Actions, Orders
  <2> QED
    BY <1>3, <2>1 DEF Certain
<1>5. Fits(app, withdraw, bus, drive, mode, seen')
  BY <1>1, <1>4 DEF Fits
<1>6. UNCHANGED <<withdraw, app, drive, mode, bus>>
  BY DEF Stale
<1> QED
  BY <1>1, <1>3, <1>5, <1>6 DEF OneShotInv

\* A drive trips.
LEMMA TripStep ==
  ASSUME OneShotInv, Trip
  PROVE  OneShotInv'
<1>1. /\ WorldType(bus, drive, mode, seen) /\ EnablesFit(bus, mode)
      /\ Fits(app, withdraw, bus, drive, mode, seen) /\ app \in Actions
  BY DEF OneShotInv, Fits
<1>2. PICK j \in Joints : drive' = [drive EXCEPT ![j] = "fault"]
  BY DEF Trip
<1>3. /\ WorldType(bus, drive', mode, seen)
      /\ \A i \in Joints : drive'[i] = "on" => drive[i] = "on"
  BY <1>1, <1>2 DEF WorldType, States
<1>4. withdraw => Owes(app, bus, drive', mode)
  <2>1. app.ended.off \subseteq Joints /\ app.cmd.mask \subseteq Joints
    BY <1>1 DEF Actions, Orders
  <2>2. \A i \in Joints : GoesOff(bus, drive, mode, i) => GoesOff(bus, drive', mode, i)
    BY <1>3 DEF GoesOff
  <2> QED
    BY <1>1, <2>1, <2>2 DEF Fits, Owes
<1>5. Certain(app, bus, drive', seen)
  <2>1. app.cmd.mask \subseteq Joints /\ Certain(app, bus, drive, seen)
    BY <1>1 DEF Fits, Actions, Orders
  <2> QED
    BY <1>3, <2>1 DEF Certain
<1>6. Fits(app, withdraw, bus, drive', mode, seen)
  BY <1>1, <1>4, <1>5 DEF Fits
<1>7. UNCHANGED <<withdraw, app, seen, mode, bus>>
  BY DEF Trip
<1> QED
  BY <1>1, <1>3, <1>6, <1>7 DEF OneShotInv

-----------------------------------------------------------------------------
(* The theorems.                                                           *)

\* The invariant holds initially ...
LEMMA OneShotInit ==
  ASSUME Init
  PROVE  OneShotInv
<1> DEFINE v == [j \in Joints |-> "none"]
           none == <<>>
<1>1. none \in Seq(Frames) /\ \A n : ~(n \in DOMAIN none)
  OBVIOUS
<1>2. NoCommand \in Orders /\ v \in Known
  BY DEF NoCommand, Orders, Modes, Known
<1>3. bus = none /\ app = Action(NoCommand, v)
  BY DEF Init
<1>4. WorldType(none, drive, mode, seen)
  BY <1>1, OneShotAssumption DEF Init, WorldType, States
<1>5. EnablesFit(none, mode)
  BY <1>1 DEF EnablesFit
<1>6. \A op, j : ~Holds(none, op, j)
  BY NothingHeld
<1>7. app.verified = v /\ app.phase = "idle" /\ app.sound = FALSE
      /\ app.asked = FALSE /\ app.failed = "none"
      /\ app.ended.off = {} /\ app.ended.code = "none"
  BY <1>3 DEF Action, NoResult
<1>8. app.batch = none
  BY <1>3, Zenon DEF Action
<1>9. app \in Actions
  <2> DEFINE c == NoCommand
  <2>1. c \in Orders /\ v \in Known /\ app = Action(c, v)
    BY <1>2, <1>3
  <2> HIDE DEF c, v
  <2> QED
    BY <2>1, ActionIs
<1>10. \A j \in Joints : app.verified[j] = "none"
  BY <1>7
<1> HIDE DEF none, v
<1>11. Aware(app, none, mode) /\ Writing(app)
  BY <1>6, <1>8, <1>10 DEF Aware, Writing
<1>12. Starting(app)
  BY <1>1, <1>7, <1>8 DEF Starting
<1>13. Settled(app) /\ Recorded(app)
  BY <1>7 DEF Settled, Recorded
<1>14. Owes(app, none, drive, mode) /\ Certain(app, none, drive, seen)
  BY <1>7 DEF Owes, Certain, Disabling
<1> QED
  BY <1>3, <1>4, <1>5, <1>9, <1>11, <1>12, <1>13, <1>14 DEF OneShotInv, Fits

\* ... and every step keeps it.
LEMMA OneShotStep ==
  ASSUME OneShotInv, [Next]_vars
  PROVE  OneShotInv'
<1>1. CASE Service
  BY <1>1, SafetyTripStep, DiscoverStep, PreflightStep, SwitchModeStep, ClearStep,
     EnableStep, MoveStep, HoldStep, DisableStep, CleanupHoldStep,
     CleanupDisableStep, StopHoldStep, StopDisableStep, Zenon DEF Service
<1>2. CASE Next /\ ~Service
  BY <1>2, StartStep, ResendStep, TakeStopStep, GlobalFaultStep, PopStep, ReadStep,
     DeliverStep, ReportStep, StaleStep, TripStep, Zenon DEF Next
<1>3. CASE UNCHANGED vars
  BY <1>3 DEF vars, OneShotInv
<1> QED
  BY <1>1, <1>2, <1>3

\* The executor always fits what it meets on the bus and in the drives.
THEOREM OneShotInvariance == Spec => []OneShotInv
<1>1. Init => OneShotInv
  BY OneShotInit
<1>2. OneShotInv /\ [Next]_vars => OneShotInv'
  BY OneShotStep
<1> QED
  BY <1>1, <1>2, PTL DEF Spec

\* What the runtime holds for verified is true, whatever was aborted: the knowledge
\* is dropped before the write that could make it wrong is built, and a read is
\* answered only when nothing is left in front of it.
THEOREM VerifiedIsTrue == Spec => []VerifiedModeIsTrue
<1>1. OneShotInv => VerifiedModeIsTrue
  BY DEF OneShotInv, Fits, Aware, Holds, VerifiedModeIsTrue
<1> QED
  BY <1>1, OneShotInvariance, PTL

\* No ENABLE meets its drive in another mode than it is packed for.
THEOREM EnablesMeetTheirMode == Spec => []EnablesFindTheirMode
<1>1. OneShotInv => EnablesFindTheirMode
  BY DEF OneShotInv, EnablesFit, EnablesFindTheirMode
<1> QED
  BY <1>1, OneShotInvariance, PTL

\* In the builds that withdraw, what an action may have energised is not enabled any
\* more once the action has ended and its frames are through.
THEOREM EndedIsOff == Spec => []QuietIsOff
<1>1. OneShotInv => QuietIsOff
  <2>1. SUFFICES ASSUME OneShotInv, withdraw, bus = <<>>, NEW j \in app.ended.off
                 PROVE  drive[j] # "on"
    BY DEF QuietIsOff
  <2>2. GoesOff(bus, drive, mode, j)
    BY <2>1 DEF OneShotInv, Fits, Owes
  <2>3. \A n : ~(n \in DOMAIN bus)
    BY <2>1
  <2> QED
    BY <2>2, <2>3 DEF GoesOff
<1> QED
  BY <1>1, OneShotInvariance, PTL

\* COMPLETED is a result of the confirmed disable only.
LEMMA CompletedByDisable ==
  ASSUME OneShotInv, [Next]_vars, app.phase = "disable",
         app'.ended.code = "COMPLETED"
  PROVE  Disable /\ Confirmed("off")
<1>1. app \in Actions /\ Ready(app)
  BY NotFailed DEF OneShotInv, Fits
<1>2. OneShotInv'
  BY OneShotStep
<1>3. app'.phase = "idle"
  BY <1>2 DEF OneShotInv, Fits, Recorded
<1>4. app'.ended # app.ended
  BY <1>1 DEF Ready
<1>5. ASSUME NEW stage \in Stages \ {"none", "validate", "discovery", "mode"}
      PROVE  app' \notin Cleanup(app, stage)
  <2> DEFINE t == [app EXCEPT !.failed = IF @ = "none" THEN stage ELSE @]
  <2>1. t.failed = stage
    BY <1>1, <1>5 DEF Ready, Actions
  <2>2. \A r \in Cleanup(app, stage) :
          \/ r = Send(t, "cleanupDisable", "disable")
          \/ r = Send(t, "cleanupHold", "target")
    BY <1>5, <2>1 DEF Cleanup
  <2>3. t \in Actions
    BY <1>1 DEF Actions
  <2> HIDE DEF t
  <2>4. \A ph, op : Send(t, ph, op).phase = ph
    BY <2>3 DEF Send, Wait, Actions
  <2> QED
    BY <1>3, <2>2, <2>4
<1>6. ~SafetyTrip
  BY <1>5 DEF SafetyTrip, Unsafe, Watched, Stages
<1>7. Disable => Confirmed("off")
  BY <1>5 DEF Disable, Step, Stages
<1>8. ~(Discover \/ Preflight \/ SwitchMode \/ Clear \/ Enable \/ Move \/ Hold
          \/ CleanupHold \/ CleanupDisable \/ StopHold \/ StopDisable)
  BY DEF Discover, Preflight, SwitchMode, Clear, Enable, Move, Hold, CleanupHold,
         CleanupDisable, StopHold, StopDisable, Step
<1>9. ~(Start \/ Read \/ Deliver \/ Stale \/ Trip)
  BY <1>4 DEF Start, Read, Deliver, Stale, Trip
<1>10. ~(Resend \/ Pop \/ Report)
  <2>1. \A b : [app EXCEPT !.batch = b].ended = app.ended
    BY <1>1 DEF Actions
  <2>2. \A n : [app EXCEPT !.newer = n].ended = app.ended
    BY <1>1 DEF Actions
  <2> QED
    BY <1>4, <2>1, <2>2 DEF Resend, Pop, Report
<1>11. ~GlobalFault
  <2>1. End(app, "FAILED").ended.code = "FAILED"
    BY DEF End, Action
  <2> QED
    BY <2>1 DEF GlobalFault
<1>12. ~TakeStop
  <2> DEFINE S(c, e) == [Action(c, app.verified) EXCEPT !.ended = e]
  <2>1. \A c, e, ph, fr : Wait(S(c, e), ph, fr).phase = ph
    BY DEF Action, Wait
  <2>2. TakeStop => \E c, e : app' \in StopAction(S(c, e))
    BY Zenon DEF TakeStop
  <2> HIDE DEF S
  <2>3. \A c, e : \A r \in StopAction(S(c, e)) :
          r.phase \in {"stopDisable", "stopHold"}
    BY <2>1 DEF StopAction, Send
  <2> QED
    BY <1>3, <2>2, <2>3
<1>13. ~UNCHANGED vars
  BY <1>4 DEF vars
<1> QED
  BY <1>6, <1>7, <1>8, <1>9, <1>10, <1>11, <1>12, <1>13 DEF Next, Service

\* An action that found its drives disabled has disabled them when it is COMPLETED.
THEOREM CompletedFoundOff == Spec => CompletedIsOff
<1>1. ASSUME OneShotInv, [Next]_vars
      PROVE  [app.phase = "disable" /\ app.sound /\ app'.ended.code = "COMPLETED"
                => \A j \in Selected : drive[j] # "on"]_vars
  <2>1. SUFFICES ASSUME app.phase = "disable", app.sound,
                        app'.ended.code = "COMPLETED", NEW j \in Selected
                 PROVE  drive[j] # "on"
    OBVIOUS
  <2>2. Confirmed("off")
    BY <1>1, <2>1, CompletedByDisable
  <2>3. j \in app.newer /\ seen[j] = "off"
    BY <2>1, <2>2 DEF Confirmed, Answered, All
  <2> QED
    BY <1>1, <2>1, <2>3 DEF OneShotInv, Fits, Certain, Selected
<1> QED
  BY <1>1, OneShotInvariance, PTL DEF Spec, CompletedIsOff
=============================================================================
