--------------------------- MODULE PoliciesProofs ---------------------------
(***************************************************************************)
(* The pool under any of its policies, for every capacity, every set of    *)
(* pages and every K: the invariants of clock-sweep and of LRU-K, and,     *)
(* with that of ARC (ArcProofs), what each policy promises the pool.       *)
(***************************************************************************)
EXTENDS Policies, ArcProofs

USE CapacityAssumption, NoPageAssumption, KAssumption, MaxPinsAssumption

LEMMA Wrapped ==
  ASSUME NEW x \in Nat
  PROVE  /\ x < Capacity => x % Capacity = x
         /\ Capacity <= x /\ x < 2 * Capacity => x % Capacity = x - Capacity
         /\ 2 * Capacity <= x /\ x < 3 * Capacity => x % Capacity = x - 2 * Capacity
  OBVIOUS

(***************************************************************************)
(* Clock-sweep.  A frame is as far from being a victim as the hand has yet *)
(* to go to reach it, and a turn further if its bit is set.  Every choice  *)
(* of another victim takes the hand at least one frame on, and two where   *)
(* it passes the frame.                                                    *)
(***************************************************************************)
Distance(f) == IF f >= clock_hand THEN f - clock_hand ELSE f - clock_hand + Capacity

ClockInv ==
  /\ PoolTypeOK
  /\ referenced \in [Frame -> BOOLEAN]
  /\ clock_hand \in Frame
  /\ waited \in [Frame -> Nat]
  /\ \A f \in Frame :
       waited[f] + Distance(f) <= IF referenced[f] THEN Capacity - 1 ELSE 2 * (Capacity - 1)
  /\ \A f \in Frame : resident[f] = NoPage => waited[f] = 0

\* The frames the sweep looks at: every frame once in each of two turns.
LEMMA ScannedFrames ==
  ASSUME clock_hand \in Frame
  PROVE  /\ \A f \in Frame : Distance(f) \in 0 .. Capacity - 1
         /\ \A n \in 0 .. 2 * Capacity : Scanned(n) \in Frame
         /\ \A n \in 0 .. 2 * Capacity - 1, f \in Frame :
              Scanned(n) = f <=> n = Distance(f) \/ n = Distance(f) + Capacity
  <1>1. \A f \in Frame : Distance(f) \in 0 .. Capacity - 1
    BY DEF Frame, Distance
  <1>2. ASSUME NEW n \in 0 .. 2 * Capacity
        PROVE  Scanned(n) = IF clock_hand + n < Capacity THEN clock_hand + n
                                  ELSE IF clock_hand + n < 2 * Capacity THEN clock_hand + n - Capacity
                                  ELSE clock_hand + n - 2 * Capacity
    BY Wrapped DEF Frame, Scanned
  <1>3. \A n \in 0 .. 2 * Capacity : Scanned(n) \in Frame
    BY <1>2 DEF Frame
  <1>4. \A n \in 0 .. 2 * Capacity - 1, f \in Frame :
          Scanned(n) = f <=> n = Distance(f) \/ n = Distance(f) + Capacity
    BY <1>2 DEF Frame, Distance
  <1> QED
    BY <1>1, <1>3, <1>4

\* Two turns find a victim if there is one.
LEMMA TwoTurnsSuffice ==
  ASSUME clock_hand \in Frame
  PROVE  /\ \A f \in Evictable : Distance(f) + Capacity \in Stopping
         /\ \A f \in Evictable : ~ referenced[f] => Distance(f) \in Stopping
         /\ \A n \in Stopping : Scanned(n) \in Evictable
  <1>2. /\ \A f \in Frame : Distance(f) \in 0 .. Capacity - 1
        /\ \A n \in 0 .. 2 * Capacity - 1, f \in Frame :
             Scanned(n) = f <=> n = Distance(f) \/ n = Distance(f) + Capacity
    BY ScannedFrames
  <1>3. \A f \in Evictable : f \in Frame
    BY DEF Evictable
  <1>4. ASSUME NEW f \in Evictable
        PROVE  /\ Distance(f) \in 0 .. 2 * Capacity - 1
               /\ Distance(f) + Capacity \in 0 .. 2 * Capacity - 1
               /\ Distance(f) + Capacity >= Capacity
               /\ Scanned(Distance(f)) = f
               /\ Scanned(Distance(f) + Capacity) = f
    BY <1>2, <1>3
  <1> QED
    BY <1>3, <1>4 DEF Stopping, Stops

\* The victim of a sweep, and the frames that are not.
LEMMA SweepStops ==
  ASSUME ClockInv, Stopping # {}, NEW s, s = Min(Stopping),
         NEW v, v = Scanned(s)
  PROVE  /\ s \in 0 .. 2 * Capacity - 1 /\ v \in Evictable /\ v \in Frame
         /\ s = Distance(v) \/ s = Distance(v) + Capacity
         /\ \A g \in Evictable : s <= Distance(g) + Capacity /\ (~ referenced[g] => s <= Distance(g))
         /\ s >= Capacity => \A g \in Evictable : referenced[g]
         /\ referenced[v] => s >= Capacity
  <1>0. clock_hand \in Frame
    BY DEF ClockInv
  <1>1. s \in Stopping /\ \A m \in Stopping : s <= m
    <2>1. Stopping \in SUBSET Nat
      BY DEF Stopping
    <2> QED
      BY <2>1, MinIsLeast
  <1>2. s \in 0 .. 2 * Capacity - 1 /\ v \in Evictable /\ v \in Frame
    BY <1>0, <1>1, TwoTurnsSuffice DEF Stopping, Evictable
  <1>3. s = Distance(v) \/ s = Distance(v) + Capacity
    BY <1>0, <1>2, ScannedFrames
  <1>4. \A g \in Evictable : s <= Distance(g) + Capacity /\ (~ referenced[g] => s <= Distance(g))
    BY <1>0, <1>1, TwoTurnsSuffice
  <1>5. \A g \in Evictable : Distance(g) \in 0 .. Capacity - 1
    BY <1>0, ScannedFrames DEF Evictable
  <1>6. s >= Capacity => \A g \in Evictable : referenced[g]
    BY <1>2, <1>4, <1>5
  <1>7. referenced[v] => s >= Capacity
    BY <1>1 DEF Stopping, Stops
  <1> QED
    BY <1>2, <1>3, <1>4, <1>6, <1>7

\* How far the hand is from every frame once it stands behind the victim.
LEMMA HandMoves ==
  ASSUME clock_hand \in Frame, NEW v \in Frame,
         NEW s, s = Distance(v) \/ s = Distance(v) + Capacity,
         clock_hand' = HandAfter(s)
  PROVE  /\ clock_hand' \in Frame
         /\ \A f \in Frame :
              Distance(f)' = IF Distance(f) > Distance(v) THEN Distance(f) - Distance(v) - 1
                             ELSE Distance(f) - Distance(v) - 1 + Capacity
  <1>1. Distance(v) \in 0 .. Capacity - 1
    BY ScannedFrames
  <1>2. clock_hand' = (clock_hand + s + 1) % Capacity
    BY <1>1 DEF HandAfter, Scanned, Frame
  <1>3. clock_hand' = IF v + 1 = Capacity THEN 0 ELSE v + 1
    <2>1. clock_hand + s = v \/ clock_hand + s = v + Capacity \/ clock_hand + s = v + 2 * Capacity
      BY DEF Distance, Frame
    <2>2. clock_hand + s + 1 \in Nat
      BY <1>1 DEF Frame
    <2>3. CASE clock_hand + s = v
      BY <1>2, <2>2, <2>3, Wrapped DEF Frame
    <2>4. CASE clock_hand + s = v + Capacity
      BY <1>2, <2>2, <2>4, Wrapped DEF Frame
    <2>5. CASE clock_hand + s = v + 2 * Capacity
      <3>1. clock_hand + Distance(v) = v \/ clock_hand + Distance(v) = v + Capacity
        BY DEF Distance, Frame
      <3>2. clock_hand + Distance(v) < clock_hand + Capacity /\ clock_hand < Capacity
        BY <1>1 DEF Frame
      <3>3. s = Distance(v) + Capacity /\ clock_hand + Distance(v) = v + Capacity
        BY <1>1, <2>5, <3>1, <3>2 DEF Frame
      <3>4. v + 1 < Capacity
        BY <1>1, <3>2, <3>3 DEF Frame
      <3> QED
        BY <1>2, <2>2, <2>5, <3>4, Wrapped DEF Frame
    <2> QED
      BY <2>1, <2>3, <2>4, <2>5
  <1>4. clock_hand' \in Frame
    BY <1>3 DEF Frame
  <1> QED
    BY <1>3, <1>4 DEF Distance, Frame

\* A frame the sweep passed has lost its bit, and no frame gains one.
LEMMA SweptBits ==
  ASSUME ClockInv, NEW s \in 0 .. 2 * Capacity - 1
  PROVE  /\ Swept(s) \in [Frame -> BOOLEAN]
         /\ \A f \in Frame : Swept(s)[f] => referenced[f]
         /\ \A f \in Evictable : Distance(f) < s => ~ Swept(s)[f]
  <1>1. Swept(s) \in [Frame -> BOOLEAN] /\ \A f \in Frame : Swept(s)[f] => referenced[f]
    BY DEF Swept
  <1>2. ASSUME NEW f \in Evictable, Distance(f) < s
        PROVE  ~ Swept(s)[f]
    <2>1. f \in Frame /\ Distance(f) \in 0 .. s - 1 /\ Scanned(Distance(f)) = f
      BY <1>2, ScannedFrames DEF ClockInv, Evictable
    <2> QED
      BY <2>1 DEF Swept
  <1> QED
    BY <1>1, <1>2

LEMMA ClockHitStep ==
  ASSUME ClockInv, NEW f \in Frame, ClockHit(f)
  PROVE  ClockInv'
  <1>1. /\ resident' = resident /\ clock_hand' = clock_hand
        /\ pins[f] < MaxPins /\ pins' = [pins EXCEPT ![f] = pins[f] + 1]
        /\ referenced' = [referenced EXCEPT ![f] = TRUE]
        /\ waited' = [waited EXCEPT ![f] = 0]
    BY DEF ClockHit, PoolHit
  <1>2. PoolTypeOK'
    BY <1>1 DEF ClockInv, PoolTypeOK
  <1>3. \A g \in Frame : Distance(g)' = Distance(g) /\ Distance(g) \in 0 .. Capacity - 1
    BY <1>1, ScannedFrames DEF Distance, ClockInv
  <1>4. referenced' \in [Frame -> BOOLEAN] /\ waited' \in [Frame -> Nat]
    BY <1>1 DEF ClockInv
  <1>5. ASSUME NEW g \in Frame
        PROVE  waited'[g] + Distance(g)' <= IF referenced'[g] THEN Capacity - 1 ELSE 2 * (Capacity - 1)
    <2>1. CASE g = f
      BY <1>1, <1>3, <2>1 DEF ClockInv
    <2>2. CASE g # f
      BY <1>1, <1>3, <2>2 DEF ClockInv
    <2> QED
      BY <2>1, <2>2
  <1>6. \A g \in Frame : resident'[g] = NoPage => waited'[g] = 0
    BY <1>1 DEF ClockInv
  <1> QED
    BY <1>1, <1>2, <1>4, <1>5, <1>6 DEF ClockInv

LEMMA ClockUnpinStep ==
  ASSUME ClockInv, NEW f \in Frame, ClockUnpin(f)
  PROVE  ClockInv'
  <1>1. /\ resident' = resident /\ UNCHANGED <<referenced, clock_hand, waited>>
        /\ pins[f] > 0 /\ pins' = [pins EXCEPT ![f] = pins[f] - 1]
    BY DEF ClockUnpin, PoolUnpin, clockVars
  <1>2. PoolTypeOK'
    BY <1>1 DEF ClockInv, PoolTypeOK
  <1> QED
    BY <1>1, <1>2 DEF ClockInv, Distance

LEMMA ClockLoadUnusedStep ==
  ASSUME ClockInv, NEW p \in Page, ClockLoadUnused(p)
  PROVE  ClockInv'
  <1> DEFINE f == Min(Invalid)
  <1>1. ~ Asked
    BY DEF ClockLoadUnused
  <1>2. f \in Frame /\ resident[f] = NoPage
    BY <1>1, UnusedFrame
  <1>4. /\ resident' = [resident EXCEPT ![f] = p] /\ pins' = [pins EXCEPT ![f] = 1]
        /\ referenced' = [referenced EXCEPT ![f] = TRUE]
        /\ UNCHANGED <<clock_hand, waited>>
    BY Zenon DEF ClockLoadUnused, PoolLoad
  <1> HIDE DEF f
  <1>5. PoolTypeOK'
    BY <1>2, <1>4, LoadTypeOK, Zenon DEF ClockInv
  <1>6. \A g \in Frame : Distance(g)' = Distance(g) /\ Distance(g) \in 0 .. Capacity - 1
    BY <1>4, ScannedFrames DEF Distance, ClockInv
  <1>7. referenced' \in [Frame -> BOOLEAN]
    BY <1>4, Zenon DEF ClockInv
  <1>8. ASSUME NEW g \in Frame
        PROVE  waited'[g] + Distance(g)' <= IF referenced'[g] THEN Capacity - 1 ELSE 2 * (Capacity - 1)
    <2>1. CASE g = f
      BY <1>2, <1>4, <1>6, <2>1 DEF ClockInv
    <2>2. CASE g # f
      BY <1>4, <1>6, <2>2 DEF ClockInv
    <2> QED
      BY <2>1, <2>2
  <1>9. \A g \in Frame : resident'[g] = NoPage => waited'[g] = 0
    BY <1>4 DEF ClockInv, PoolTypeOK
  <1> QED
    BY <1>4, <1>5, <1>7, <1>8, <1>9 DEF ClockInv

LEMMA ClockEvictStep ==
  ASSUME ClockInv, NEW p \in Page, ClockEvict(p)
  PROVE  ClockInv'
  <1> DEFINE s == Min(Stopping)
             v == Scanned(s)
  <1>1. /\ Asked /\ Stopping # {}
        /\ clock_hand' = HandAfter(s)
        /\ waited' = [f \in Frame |-> IF f \in Evictable \ {v} THEN waited[f] + 1 ELSE 0]
        /\ \/ /\ resident' = [resident EXCEPT ![v] = p] /\ pins' = [pins EXCEPT ![v] = 1]
              /\ referenced' = [Swept(s) EXCEPT ![v] = TRUE]
           \/ /\ UNCHANGED poolVars
              /\ referenced' = Swept(s)
    BY Zenon DEF ClockEvict, PoolLoad
  <1>2. /\ s \in 0 .. 2 * Capacity - 1 /\ v \in Evictable /\ v \in Frame
        /\ s = Distance(v) \/ s = Distance(v) + Capacity
        /\ \A g \in Evictable : s <= Distance(g) + Capacity /\ (~ referenced[g] => s <= Distance(g))
        /\ s >= Capacity => \A g \in Evictable : referenced[g]
        /\ referenced[v] => s >= Capacity
    BY <1>1, SweepStops
  <1> HIDE DEF s, v
  <1>3. clock_hand \in Frame /\ \A f \in Frame : Distance(f) \in 0 .. Capacity - 1
    BY ScannedFrames DEF ClockInv
  <1>4. /\ clock_hand' \in Frame
        /\ \A f \in Frame :
             Distance(f)' = IF Distance(f) > Distance(v) THEN Distance(f) - Distance(v) - 1
                            ELSE Distance(f) - Distance(v) - 1 + Capacity
    BY <1>1, <1>2, <1>3, HandMoves
  <1>5. /\ Swept(s) \in [Frame -> BOOLEAN]
        /\ \A f \in Frame : Swept(s)[f] => referenced[f]
        /\ \A f \in Evictable : Distance(f) < s => ~ Swept(s)[f]
    BY <1>2, SweptBits
  <1>6. /\ referenced' \in [Frame -> BOOLEAN]
        /\ \A f \in Frame \ {v} : referenced'[f] = Swept(s)[f]
    BY <1>1, <1>2, <1>5, Zenon
  <1>7. waited' \in [Frame -> Nat]
    BY <1>1 DEF ClockInv
  <1>8. PoolTypeOK'
    <2>1. CASE UNCHANGED poolVars
      BY <2>1 DEF ClockInv, PoolTypeOK, poolVars
    <2>2. CASE resident' = [resident EXCEPT ![v] = p] /\ pins' = [pins EXCEPT ![v] = 1]
      BY <1>2, <2>2, LoadTypeOK, Zenon DEF ClockInv
    <2> QED
      BY <1>1, <2>1, <2>2
  <1>9. ASSUME NEW f \in Frame
        PROVE  waited'[f] + Distance(f)' <= IF referenced'[f] THEN Capacity - 1 ELSE 2 * (Capacity - 1)
    <2>0. /\ Distance(f) \in 0 .. Capacity - 1 /\ Distance(v) \in 0 .. Capacity - 1
          /\ Distance(f)' \in 0 .. Capacity - 1
          /\ waited[f] \in Nat
      <3>1. Distance(f) \in 0 .. Capacity - 1 /\ Distance(v) \in 0 .. Capacity - 1
        BY <1>2, <1>3
      <3>2. waited[f] \in Nat
        BY DEF ClockInv
      <3> QED
        BY <1>4, <3>1, <3>2
    <2>1. CASE f \notin Evictable \ {v}
      BY <1>1, <2>0, <2>1
    <2>2. CASE f \in Evictable \ {v}
      <3>0. waited'[f] = waited[f] + 1 /\ f \in Evictable /\ f # v
        BY <1>1, <2>2
      <3>1. waited[f] + Distance(f) <= IF referenced[f] THEN Capacity - 1 ELSE 2 * (Capacity - 1)
        BY DEF ClockInv
      <3>2. Distance(f) # Distance(v)
        BY <1>2, <1>3, <3>0, ScannedFrames
      <3>3. CASE Distance(f) > Distance(v)
        <4>1. waited'[f] + Distance(f)' <= waited[f] + Distance(f)
          BY <1>4, <2>0, <3>0, <3>3
        <4>2. referenced'[f] => referenced[f]
          BY <1>5, <1>6, <3>0
        <4> QED
          BY <1>4, <2>0, <3>0, <3>1, <3>3, <4>1, <4>2
      <3>4. CASE Distance(f) < Distance(v)
        <4>1. s = Distance(v) /\ Distance(f) < s
          BY <1>2, <2>0, <3>0, <3>4
        <4>2. referenced[f] /\ ~ referenced'[f]
          BY <1>2, <1>5, <1>6, <2>0, <3>0, <4>1
        <4> QED
          BY <1>4, <2>0, <3>0, <3>1, <3>4, <4>2
      <3> QED
        BY <2>0, <3>2, <3>3, <3>4
    <2> QED
      BY <2>1, <2>2
  <1>10. \A f \in Frame : resident'[f] # NoPage
    <2>1. \A f \in Frame : resident[f] # NoPage
      BY <1>1 DEF Asked, Invalid
    <2> QED
      BY <1>1, <1>2, <2>1 DEF poolVars, ClockInv, PoolTypeOK
  <1> QED
    BY <1>4, <1>6, <1>7, <1>8, <1>9, <1>10 DEF ClockInv

LEMMA ClockNextStep ==
  ASSUME ClockInv, ClockNext
  PROVE  ClockInv'
  BY ClockHitStep, ClockUnpinStep, ClockLoadUnusedStep, ClockEvictStep DEF ClockNext

\* The page that ClockEvict replaces in spite of its bit.
LEMMA ClockSpares ==
  ASSUME ClockInv, ClockNext
  PROVE  SparesUsedPage
  <1>1. ASSUME NEW p \in Page, ClockEvict(p), NEW f \in Frame,
               resident'[f] # resident[f], referenced[f]
        PROVE  \A g \in Evictable : referenced[g]
    <2> DEFINE s == Min(Stopping)
               v == Scanned(s)
    <2>1. /\ Stopping # {}
          /\ resident' = [resident EXCEPT ![v] = p] \/ UNCHANGED poolVars
      BY <1>1, Zenon DEF ClockEvict, PoolLoad
    <2>2. /\ s >= Capacity => \A g \in Evictable : referenced[g]
          /\ referenced[v] => s >= Capacity
      BY <2>1, SweepStops
    <2>3. f = v
      BY <1>1, <2>1 DEF poolVars, ClockInv, PoolTypeOK
    <2> QED
      BY <1>1, <2>2, <2>3
  <1>2. ASSUME NEW p \in Page, ClockLoadUnused(p), NEW f \in Frame, resident'[f] # resident[f]
        PROVE  resident[f] = NoPage
    <2>1. ~ Asked
      BY <1>2 DEF ClockLoadUnused
    <2>2. resident' = [resident EXCEPT ![Min(Invalid)] = p]
      BY <1>2 DEF ClockLoadUnused, PoolLoad
    <2> QED
      BY <1>2, <2>1, <2>2, UnusedFrame DEF ClockInv, PoolTypeOK
  <1>3. ASSUME NEW f \in Frame, ClockHit(f) \/ ClockUnpin(f)
        PROVE  resident' = resident
    BY <1>3 DEF ClockHit, PoolHit, ClockUnpin, PoolUnpin
  <1> QED
    BY <1>1, <1>2, <1>3 DEF ClockNext, SparesUsedPage

LEMMA ClockInitially ==
  ASSUME ClockInit
  PROVE  ClockInv
  <1>1. /\ resident = [f \in Frame |-> NoPage] /\ pins = [f \in Frame |-> 0]
        /\ referenced = [f \in Frame |-> FALSE] /\ clock_hand = 0
        /\ waited = [f \in Frame |-> 0]
    BY DEF ClockInit, PoolInit
  <1>2. PoolTypeOK
    BY <1>1 DEF PoolTypeOK
  <1>3. clock_hand \in Frame
    BY <1>1 DEF Frame
  <1>4. \A f \in Frame : Distance(f) = f
    BY <1>1 DEF Distance, Frame
  <1>5. \A f \in Frame : waited[f] + Distance(f) <= 2 * (Capacity - 1)
    BY <1>1, <1>4 DEF Frame
  <1>6. /\ referenced \in [Frame -> BOOLEAN] /\ waited \in [Frame -> Nat]
        /\ \A f \in Frame : ~ referenced[f] /\ waited[f] = 0
    BY <1>1
  <1> QED
    BY <1>2, <1>3, <1>5, <1>6 DEF ClockInv

LEMMA ClockStutters ==
  ASSUME ClockInv, UNCHANGED <<poolVars, clockVars>>
  PROVE  ClockInv'
  BY DEF poolVars, clockVars, ClockInv, PoolTypeOK, Distance

LEMMA ClockIdle ==
  ASSUME ClockInv
  PROVE  IdlePagesLeave
  <1>1. ASSUME NEW f \in Frame
        PROVE  waited[f] <= 2 * (Capacity - 1)
    <2>1. Distance(f) \in 0 .. Capacity - 1
      BY ScannedFrames DEF ClockInv
    <2> QED
      BY <2>1 DEF ClockInv
  <1> QED
    BY <1>1 DEF IdlePagesLeave

LEMMA ClockFull ==
  ASSUME ClockInv
  PROVE  ClockFullOnlyIfAllPinned
  BY TwoTurnsSuffice DEF ClockInv, ClockFullOnlyIfAllPinned

(***************************************************************************)
(* LRU-K.  The history of a page holds its last uses, and only when it is  *)
(* full are there uses it does not hold, all of them older.                *)
(***************************************************************************)
Remembers(h, U) ==
  /\ h \in Seq(Nat)
  /\ Len(h) <= K
  /\ \A i \in 1 .. Len(h) : h[i] \in U
  /\ \A i, j \in 1 .. Len(h) : i < j => h[i] < h[j]
  /\ \A u \in U : \/ \E i \in 1 .. Len(h) : h[i] = u
                  \/ Len(h) = K /\ \A i \in 1 .. Len(h) : u < h[i]

LruInv ==
  /\ PoolTypeOK
  /\ log \in Seq(Page)
  /\ tick = Len(log)
  /\ histories \in [Page -> Seq(Nat)]
  /\ \A p \in Page : Remembers(histories[p], Uses(p))
  /\ \A f, g \in Frame : resident[f] = resident[g] /\ resident[f] # NoPage => f = g
  /\ \A f \in Frame : resident[f] # NoPage /\ K # 0 => histories[resident[f]] # <<>>

\* Recording a use that is newer than all others and trimming keeps the last uses.
LEMMA TrimRemembers ==
  ASSUME NEW h, NEW U \in SUBSET Nat, Remembers(h, U),
         NEW n \in Nat, \A u \in U : u < n
  PROVE  /\ Remembers(Trim(Append(h, n)), U \cup {n})
         /\ K # 0 => Trim(Append(h, n)) # <<>>
  <1> DEFINE a == Append(h, n)
             t == Trim(a)
  <1>1. /\ h \in Seq(Nat) /\ Len(h) \in Nat /\ Len(h) <= K
        /\ \A i \in 1 .. Len(h) : h[i] \in U
        /\ \A i, j \in 1 .. Len(h) : i < j => h[i] < h[j]
        /\ \A u \in U : \/ \E i \in 1 .. Len(h) : h[i] = u
                        \/ Len(h) = K /\ \A i \in 1 .. Len(h) : u < h[i]
    BY DEF Remembers
  <1>2. /\ a \in Seq(Nat) /\ Len(a) = Len(h) + 1
        /\ a[Len(h) + 1] = n
        /\ \A i \in 1 .. Len(h) : a[i] = h[i]
    BY <1>1
  <1> HIDE DEF a
  <1>3. \A i \in 1 .. Len(a) : a[i] \in U \cup {n} /\ a[i] \in Nat
    <2>1. ASSUME NEW i \in 1 .. Len(a)
          PROVE  a[i] \in U \cup {n}
      <3>1. i \in 1 .. Len(h) \/ i = Len(h) + 1
        BY <1>1, <1>2
      <3> QED
        BY <1>1, <1>2, <3>1, Zenon
    <2> QED
      BY <2>1, Zenon
  <1>4. ASSUME NEW i \in 1 .. Len(a), NEW j \in 1 .. Len(a), i < j
        PROVE  a[i] < a[j]
    <2>1. i \in 1 .. Len(h) /\ a[i] = h[i] /\ h[i] \in U
      BY <1>1, <1>2, <1>4
    <2>2. j \in 1 .. Len(h) \/ j = Len(h) + 1
      BY <1>1, <1>2
    <2> QED
      BY <1>1, <1>2, <1>4, <2>1, <2>2
  <1>5. CASE Len(h) < K
    <2>1. t = a
      BY <1>1, <1>2, <1>5 DEF Trim
    <2>2. ASSUME NEW u \in U \cup {n}
          PROVE  \E i \in 1 .. Len(a) : a[i] = u
      BY <1>1, <1>2, <1>5
    <2>3. a # <<>>
      BY <1>1, <1>2
    <2>4. Remembers(a, U \cup {n})
      BY <1>1, <1>2, <1>3, <1>4, <1>5, <2>2 DEF Remembers
    <2> QED
      BY <2>1, <2>3, <2>4 DEF a
  <1>6. CASE Len(h) = K
    <2>1. t = SubSeq(a, 2, K + 1)
      BY <1>1, <1>2, <1>6 DEF Trim
    <2>2. t \in Seq(Nat) /\ Len(t) = K /\ \A i \in 1 .. K : t[i] = a[i + 1]
      <3>1. \A i \in 2 .. K + 1 : a[i] \in Nat
        BY <1>2, <1>3, <1>6
      <3> QED
        BY <1>2, <1>6, <2>1, <3>1, PartOfSeq
    <2> HIDE DEF t
    <2>3. \A i \in 1 .. K : t[i] \in U \cup {n}
      BY <1>2, <1>3, <1>6, <2>2
    <2>4. \A i, j \in 1 .. K : i < j => t[i] < t[j]
      BY <1>2, <1>4, <1>6, <2>2
    <2>5. ASSUME NEW u \in U \cup {n}
          PROVE  \/ \E i \in 1 .. K : t[i] = u
                 \/ \A i \in 1 .. K : u < t[i]
      <3>1. CASE K = 0
        BY <3>1
      <3>2. CASE K # 0 /\ u = n
        BY <1>2, <1>6, <2>2, <3>2
      <3>3. CASE K # 0 /\ \E i \in 2 .. Len(h) : h[i] = u
        <4>1. PICK i \in 2 .. Len(h) : h[i] = u
          BY <3>3
        <4>2. i - 1 \in 1 .. K /\ t[i - 1] = a[i] /\ a[i] = h[i]
          BY <1>1, <1>2, <1>6, <2>2
        <4> QED
          BY <4>1, <4>2
      <3>4. CASE K # 0 /\ u \in U /\ u <= h[1]
        <4>1. ASSUME NEW i \in 1 .. K
              PROVE  u < t[i]
          <5>1. h[1] = a[1] /\ a[1] < a[i + 1] /\ a[i + 1] \in Nat /\ a[1] \in Nat
            BY <1>1, <1>2, <1>3, <1>4, <1>6
          <5> QED
            BY <2>2, <3>4, <5>1
        <4> QED
          BY <4>1
      <3> QED
        BY <1>1, <1>6, <3>1, <3>2, <3>3, <3>4
    <2>6. K # 0 => t # <<>>
      BY <2>2
    <2> QED
      BY <2>2, <2>3, <2>4, <2>5, <2>6 DEF Remembers, t, a
  <1> QED
    BY <1>1, <1>5, <1>6

LEMMA SmallSets ==
  ASSUME NEW m \in Nat
  PROVE  /\ Cardinality(1 .. m) = m
         /\ IsFiniteSet(1 .. m)
         /\ \A T \in SUBSET (1 .. m) : IsFiniteSet(T) /\ Cardinality(T) \in Nat
  <1>1. IsFiniteSet(1 .. m) /\ Cardinality(1 .. m) = IF 1 > m THEN 0 ELSE m - 1 + 1
    <2>1. 1 \in Int /\ m \in Int
      OBVIOUS
    <2> QED
      BY <2>1, FS_Interval, Zenon
  <1>2. Cardinality(1 .. m) = m
    BY <1>1
  <1>3. \A T \in SUBSET (1 .. m) : IsFiniteSet(T)
    BY <1>1, FS_Subset, Zenon
  <1>4. \A T \in SUBSET (1 .. m) : Cardinality(T) \in Nat
    BY <1>3, FS_CardinalityType, Zenon
  <1> QED
    BY <1>1, <1>2, <1>3, <1>4, Zenon

\* A page has fewer than K uses exactly if its history is not full.
LEMMA CountUses ==
  ASSUME NEW h, NEW m \in Nat, NEW U \in SUBSET (1 .. m), Remembers(h, U)
  PROVE  Cardinality(U) < K <=> Len(h) < K
  <1>1. IsFiniteSet(U) /\ Cardinality(U) \in Nat
    BY SmallSets
  <1>2. h \in Seq(Nat) /\ Len(h) \in Nat /\ Len(h) <= K
    BY DEF Remembers
  <1>3. h \in Injection(1 .. Len(h), U)
    <2>1. h \in [1 .. Len(h) -> U]
      BY <1>2 DEF Remembers
    <2>2. ASSUME NEW i \in 1 .. Len(h), NEW j \in 1 .. Len(h), h[i] = h[j]
          PROVE  i = j
      <3>1. h[i] \in Nat /\ h[j] \in Nat /\ (i < j => h[i] < h[j]) /\ (j < i => h[j] < h[i])
        BY <1>2 DEF Remembers
      <3> QED
        BY <2>2, <3>1
    <2> QED
      BY <2>1, <2>2, Zenon DEF Injection, IsInjective
  <1>4. IsFiniteSet(1 .. Len(h)) /\ Cardinality(1 .. Len(h)) = Len(h)
    BY <1>2, SmallSets
  <1>5. CASE Len(h) < K
    <2>1. \A u \in U : \E i \in 1 .. Len(h) : h[i] = u
      BY <1>2, <1>5 DEF Remembers
    <2>2. h \in Surjection(1 .. Len(h), U)
      BY <1>3, <2>1, Zenon DEF Surjection, Injection
    <2>3. Cardinality(1 .. Len(h)) = Cardinality(U)
      BY <1>1, <1>3, <2>2, FS_Injection
    <2> QED
      BY <1>4, <1>5, <2>3
  <1>6. CASE Len(h) = K
    <2>1. Cardinality(1 .. Len(h)) <= Cardinality(U)
      BY <1>1, <1>3, FS_Injection
    <2> QED
      BY <1>1, <1>2, <1>4, <1>6, <2>1
  <1> QED
    BY <1>2, <1>5, <1>6

\* The oldest use of a history is the first of the last K uses.
LEMMA OldestUse ==
  ASSUME K # 0, NEW h, h # <<>>, NEW m \in Nat, NEW U \in SUBSET (1 .. m), Remembers(h, U)
  PROVE  /\ Min({i \in U : Cardinality({j \in U : j > i}) < K}) = Head(h)
         /\ Head(h) \in U
  <1> DEFINE After(i) == {j \in U : j > i}
             S == {i \in U : Cardinality(After(i)) < K}
  <1>1. /\ h \in Seq(Nat) /\ Len(h) \in Nat \ {0} /\ Len(h) <= K
        /\ Head(h) = h[1]
    BY DEF Remembers
  <1>2. \A i, j \in 1 .. Len(h) : i < j => h[i] < h[j] /\ h[i] \in Nat /\ h[j] \in Nat
    BY <1>1 DEF Remembers
  <1>3. \A i \in 1 .. Len(h) : h[i] \in U /\ h[i] \in Nat
    BY <1>1 DEF Remembers
  <1>4. \A i \in Nat : IsFiniteSet(After(i)) /\ Cardinality(After(i)) \in Nat
    <2>1. \A i \in Nat : After(i) \in SUBSET (1 .. m)
      BY Zenon
    <2> QED
      BY <2>1, SmallSets
  <1>5. h[1] \in S
    <2> DEFINE T == After(h[1])
               g == [i \in 2 .. Len(h) |-> h[i]]
    <2>0. IsFiniteSet(T) /\ Cardinality(T) \in Nat /\ h[1] \in U
      BY <1>1, <1>3, <1>4
    <2>1. ASSUME NEW i \in 2 .. Len(h)
          PROVE  g[i] \in T
      BY <1>1, <1>2, <1>3
    <2>2. ASSUME NEW u \in T
          PROVE  \E i \in 2 .. Len(h) : g[i] = u
      <3>1. u \in U /\ u > h[1] /\ u \in Nat /\ h[1] \in Nat
        BY <1>1, <1>3
      <3>2. PICK i \in 1 .. Len(h) : h[i] = u
        <4>1. ~ (\A i \in 1 .. Len(h) : u < h[i])
          BY <1>1, <3>1
        <4> QED
          BY <3>1, <4>1 DEF Remembers
      <3>3. i # 1
        BY <3>1, <3>2
      <3> QED
        BY <1>1, <3>2, <3>3
    <2>3. g \in Surjection(2 .. Len(h), T)
      BY <2>1, <2>2, Zenon DEF Surjection
    <2>4. IsFiniteSet(2 .. Len(h)) /\ Cardinality(2 .. Len(h)) = Len(h) - 1
      BY <1>1, FS_Interval
    <2>5. Cardinality(T) <= Cardinality(2 .. Len(h))
      BY <2>3, <2>4, FS_Surjection
    <2> HIDE DEF T
    <2>6. Cardinality(T) < K
      BY <1>1, <2>0, <2>4, <2>5
    <2> QED
      BY <2>0, <2>6, Zenon DEF T
  <1>6. ASSUME NEW i \in S
        PROVE  h[1] <= i
    <2> SUFFICES ASSUME i < h[1] PROVE FALSE
      BY <1>1, <1>3
    <2> DEFINE T == After(i)
    <2>0. i \in U /\ i \in Nat /\ IsFiniteSet(T) /\ Cardinality(T) \in Nat /\ Cardinality(T) < K
      BY <1>4
    <2>1. \A k \in 1 .. Len(h) : h[1] <= h[k]
      BY <1>1, <1>2, <1>3
    <2>2. \A k \in 1 .. Len(h) : i < h[k]
      BY <1>1, <1>3, <2>0, <2>1
    <2>3. Len(h) = K
      BY <1>3, <2>0, <2>2 DEF Remembers
    <2>4. \A k \in 1 .. Len(h) : h[k] \in T
      BY <1>3, <2>2
    <2> HIDE DEF T
    <2>5. h \in [1 .. Len(h) -> T]
      BY <1>1, <2>4
    <2>6. \A k, l \in 1 .. Len(h) : h[k] = h[l] => k = l
      BY <1>1, <1>2
    <2>7. h \in Injection(1 .. Len(h), T)
      BY <2>5, <2>6, Zenon DEF Injection, IsInjective
    <2>8. Cardinality(1 .. Len(h)) <= Cardinality(T)
      BY <2>0, <2>7, FS_Injection
    <2> QED
      BY <1>1, <2>0, <2>3, <2>8, SmallSets
  <1> HIDE DEF S
  <1>7. Min(S) = h[1]
    <2>0. \A i \in S : i \in U
      BY DEF S
    <2>1. S \in SUBSET Nat /\ S # {}
      <3>1. \A i \in U : i \in Nat
        OBVIOUS
      <3>2. \A i \in S : i \in Nat
        BY <2>0, <3>1, Zenon
      <3> QED
        BY <1>5, <3>2, Zenon
    <2>2. Min(S) \in S /\ Min(S) <= h[1] /\ Min(S) \in Nat
      BY <1>5, <2>1, MinIsLeast, Zenon
    <2> QED
      BY <1>1, <1>3, <1>6, <2>2
  <1> QED
    BY <1>1, <1>3, <1>7 DEF S

\* What recording a use of p does to the histories.
Recorded(p) ==
  /\ log' \in Seq(Page)
  /\ tick' = Len(log')
  /\ histories' \in [Page -> Seq(Nat)]
  /\ \A q \in Page : Remembers(histories'[q], Uses(q)')
  /\ K # 0 => histories'[p] # <<>>
  /\ \A q \in Page \ {p} : histories'[q] = histories[q]

LEMMA LruRecord ==
  ASSUME LruInv, NEW p \in Page, Record(p)
  PROVE  Recorded(p)
  <1> DEFINE n == Len(log) + 1
  <1>1. /\ log \in Seq(Page) /\ Len(log) \in Nat /\ n \in Nat /\ tick = Len(log)
        /\ histories \in [Page -> Seq(Nat)]
        /\ \A q \in Page : Remembers(histories[q], Uses(q))
    BY DEF LruInv
  <1>2. log' = Append(log, p)
    BY DEF Record
  <1>3. /\ log' \in Seq(Page) /\ Len(log') = n /\ log'[n] = p
        /\ \A i \in 1 .. Len(log) : log'[i] = log[i]
    BY <1>1, <1>2
  <1>4. tick' = n
    BY <1>1 DEF Record
  <1>5. /\ DOMAIN histories' = Page
        /\ histories'[p] = Trim(Append(histories[p], n))
        /\ \A q \in Page \ {p} : histories'[q] = histories[q]
    BY <1>1, <1>4 DEF Record
  <1>6. \A i : i \in 1 .. n <=> i \in 1 .. Len(log) \/ i = n
    BY <1>1
  <1>7. Uses(p)' = Uses(p) \cup {n}
    BY <1>3, <1>6 DEF Uses
  <1>8. \A q \in Page \ {p} : Uses(q)' = Uses(q)
    BY <1>3, <1>6 DEF Uses
  <1>9. \A q : Uses(q) \in SUBSET Nat /\ \A u \in Uses(q) : u < n
    BY <1>1 DEF Uses
  <1>10. /\ Remembers(histories'[p], Uses(p)')
         /\ K # 0 => histories'[p] # <<>>
    <2>1. Remembers(histories[p], Uses(p))
      BY <1>1
    <2> HIDE DEF n
    <2>2. /\ Remembers(Trim(Append(histories[p], n)), Uses(p) \cup {n})
          /\ K # 0 => Trim(Append(histories[p], n)) # <<>>
      BY <1>1, <1>9, <2>1, TrimRemembers, Zenon
    <2> QED
      BY <1>5, <1>7, <2>2
  <1>11. \A q \in Page \ {p} : Remembers(histories'[q], Uses(q)')
    BY <1>1, <1>5, <1>8
  <1>12. histories' \in [Page -> Seq(Nat)]
    <2>1. \A q \in Page : histories'[q] \in Seq(Nat)
      BY <1>10, <1>11 DEF Remembers
    <2>2. histories' = [histories EXCEPT ![p] = histories'[p]]
      BY <1>1, <1>5 DEF Record
    <2> QED
      BY <1>1, <2>1, <2>2
  <1> QED
    BY <1>3, <1>4, <1>5, <1>10, <1>11, <1>12 DEF Recorded

LEMMA LruHitStep ==
  ASSUME LruInv, NEW f \in Frame, LruHit(f)
  PROVE  LruInv'
  <1>1. /\ resident' = resident /\ resident[f] # NoPage
        /\ pins[f] < MaxPins /\ pins' = [pins EXCEPT ![f] = pins[f] + 1]
        /\ Record(resident[f])
    BY DEF LruHit, PoolHit
  <1>2. PoolTypeOK'
    BY <1>1 DEF LruInv, PoolTypeOK
  <1>3. resident[f] \in Page
    BY <1>1 DEF LruInv, PoolTypeOK
  <1>4. Recorded(resident[f])
    BY <1>1, <1>3, LruRecord
  <1>5. ASSUME NEW g \in Frame, resident[g] # NoPage, K # 0
        PROVE  histories'[resident[g]] # <<>>
    <2>1. resident[g] \in Page /\ histories[resident[g]] # <<>>
      BY <1>5 DEF LruInv, PoolTypeOK
    <2> QED
      BY <1>4, <1>5, <2>1 DEF Recorded
  <1> QED
    BY <1>1, <1>2, <1>4, <1>5 DEF LruInv, Recorded

LEMMA LruUnpinStep ==
  ASSUME LruInv, NEW f \in Frame, LruUnpin(f)
  PROVE  LruInv'
  <1>1. /\ resident' = resident /\ histories' = histories /\ tick' = tick /\ log' = log
        /\ pins[f] > 0 /\ pins' = [pins EXCEPT ![f] = pins[f] - 1]
    BY DEF LruUnpin, PoolUnpin, lruVars
  <1>2. PoolTypeOK'
    BY <1>1 DEF LruInv, PoolTypeOK
  <1>3. \A p : Uses(p)' = Uses(p)
    BY <1>1 DEF Uses
  <1> QED
    BY <1>1, <1>2, <1>3 DEF LruInv

\* A page that is not cached is loaded into frame f.
LEMMA LruLoad ==
  ASSUME LruInv, NEW f \in Frame, NEW p \in Page, p \notin Resident,
         PoolLoad(f, p), Record(p)
  PROVE  LruInv'
  <1>1. resident' = [resident EXCEPT ![f] = p] /\ pins' = [pins EXCEPT ![f] = 1]
    BY DEF PoolLoad
  <1>2. PoolTypeOK'
    BY <1>1, LoadTypeOK, Zenon DEF LruInv
  <1>3. Recorded(p)
    BY LruRecord
  <1>4. \A g \in Frame : resident[g] # p
    BY DEF Resident
  <1>5. \A g \in Frame : resident'[g] = IF g = f THEN p ELSE resident[g]
    BY <1>1 DEF LruInv, PoolTypeOK
  <1>6. \A g, k \in Frame : resident'[g] = resident'[k] /\ resident'[g] # NoPage => g = k
    BY <1>4, <1>5 DEF LruInv
  <1>7. ASSUME NEW g \in Frame, resident'[g] # NoPage, K # 0
        PROVE  histories'[resident'[g]] # <<>>
    <2>1. CASE g = f
      BY <1>3, <1>5, <1>7, <2>1 DEF Recorded
    <2>2. CASE g # f
      <3>1. resident'[g] = resident[g] /\ resident[g] \in Page \ {p}
        BY <1>4, <1>5, <1>7, <2>2 DEF LruInv, PoolTypeOK
      <3>2. histories[resident[g]] # <<>>
        BY <1>7, <3>1 DEF LruInv
      <3> QED
        BY <1>3, <3>1, <3>2 DEF Recorded
    <2> QED
      BY <2>1, <2>2
  <1> QED
    BY <1>2, <1>3, <1>6, <1>7 DEF LruInv, Recorded

\* Of the evictable frames choose_victim takes one that none goes before.
LEMMA LruVictim ==
  ASSUME LruInv, Evictable # {}
  PROVE  /\ Victim \in Evictable
         /\ Unknown = {} => \A g \in Evictable : ~ Before(g, Victim)
  <1>1. \A f \in Evictable : f \in Nat
    BY DEF Evictable, Frame
  <1>2. CASE Unknown # {}
    <2>1. \A f \in Unknown : f \in Evictable
      BY DEF Unknown
    <2>2. Unknown \in SUBSET Nat
      BY <1>1, <2>1
    <2>3. Min(Unknown) \in Unknown
      BY <1>2, <2>2, MinIsLeast
    <2>4. Victim = Min(Unknown)
      BY <1>2 DEF Victim
    <2> QED
      BY <1>2, <2>1, <2>3, <2>4
  <1>3. CASE Unknown = {}
    <2> DEFINE M == {f \in Evictable : \A g \in Evictable : ~ Before(g, f)}
               H(f) == Head(History(f))
    <2>1. ASSUME NEW f \in Evictable
          PROVE  H(f) \in Nat
      <3>1. resident[f] \in Page
        BY DEF Evictable, LruInv, PoolTypeOK
      <3>2. History(f) \in Seq(Nat)
        BY <3>1 DEF LruInv, Remembers, History
      <3>3. History(f) # <<>>
        BY <1>3 DEF Unknown
      <3> QED
        BY <3>2, <3>3
    <2> HIDE DEF H
    <2>2. ASSUME NEW C \in SUBSET Evictable, C # {}
          PROVE  \E f \in C : \A g \in C : H(f) <= H(g)
      <3>1. {H(f) : f \in C} \in SUBSET Nat /\ {H(f) : f \in C} # {}
        BY <2>1, <2>2
      <3>2. PICK n \in {H(f) : f \in C} : \A k \in {H(f) : f \in C} : n <= k
        BY <3>1, LeastNatural, Zenon
      <3> QED
        BY <3>2
    <2>3. M # {}
      <3>1. CASE \E f \in Evictable : ~ HasFullHistory(f)
        <4> DEFINE C == {f \in Evictable : ~ HasFullHistory(f)}
        <4>1. PICK f \in C : \A g \in C : H(f) <= H(g)
          BY <2>2, <3>1, Zenon
        <4>2. ASSUME NEW g \in Evictable
              PROVE  ~ Before(g, f)
          BY <2>1, <4>1 DEF Before, H
        <4> QED
          BY <4>2
      <3>2. CASE \A f \in Evictable : HasFullHistory(f)
        <4>1. PICK f \in Evictable : \A g \in Evictable : H(f) <= H(g)
          BY <2>2
        <4>2. ASSUME NEW g \in Evictable
              PROVE  ~ Before(g, f)
          BY <2>1, <3>2, <4>1 DEF Before, H
        <4> QED
          BY <4>2
      <3> QED
        BY <3>1, <3>2
    <2>4. \A f \in M : f \in Nat
      BY <1>1
    <2>5. Victim = Min(M)
      BY <1>3 DEF Victim
    <2>6. \A f \in M : f \in Evictable /\ \A g \in Evictable : ~ Before(g, f)
      OBVIOUS
    <2> HIDE DEF M
    <2>7. M \in SUBSET Nat
      BY <2>4
    <2>8. Min(M) \in M
      BY <2>3, <2>7, MinIsLeast
    <2> QED
      BY <2>5, <2>6, <2>8
  <1> QED
    BY <1>2, <1>3

LEMMA LruNextStep ==
  ASSUME LruInv, LruNext
  PROVE  LruInv'
  <1>1. ASSUME NEW p \in Page, LruLoadUnused(p)
        PROVE  LruInv'
    <2>1. ~ Asked /\ p \notin Resident /\ PoolLoad(Min(Invalid), p) /\ Record(p)
      BY <1>1 DEF LruLoadUnused, Asked, Asked
    <2>2. Min(Invalid) \in Frame
      BY <2>1, UnusedFrame
    <2> QED
      BY <2>1, <2>2, LruLoad
  <1>2. ASSUME NEW p \in Page, LruEvict(p)
        PROVE  LruInv'
    <2>1. Evictable # {} /\ p \notin Resident /\ PoolLoad(Victim, p) /\ Record(p)
      BY <1>2 DEF LruEvict
    <2>2. Victim \in Frame
      BY <2>1, LruVictim DEF Evictable
    <2> QED
      BY <2>1, <2>2, LruLoad
  <1> QED
    BY <1>1, <1>2, LruHitStep, LruUnpinStep DEF LruNext

LEMMA LruEvicts ==
  ASSUME K # 0, LruInv, LruNext
  PROVE  EvictsLeast
  <1>1. ASSUME NEW f \in Evictable
        PROVE  /\ resident[f] \in Page
               /\ History(f) # <<>>
               /\ Cardinality(Uses(resident[f])) < K <=> ~ HasFullHistory(f)
               /\ Min(LastUses(resident[f])) = Head(History(f))
               /\ Head(History(f)) \in Uses(resident[f])
               /\ Cardinality(Uses(resident[f])) \in Nat
    <2> DEFINE p == resident[f]
               U == Uses(p)
               h == histories[p]
    <2>1. p \in Page /\ h # <<>> /\ Remembers(h, U) /\ History(f) = h
      BY DEF Evictable, LruInv, PoolTypeOK, History
    <2>2. Len(log) \in Nat /\ U \in SUBSET (1 .. Len(log))
      BY DEF LruInv, Uses
    <2>3. Len(h) \in Nat
      BY <2>1 DEF Remembers
    <2>4. LastUses(p) = {i \in U : Cardinality({j \in U : j > i}) < K}
      BY DEF LastUses
    <2> HIDE DEF U, h, p
    <2>5. Cardinality(U) < K <=> Len(h) < K
      BY <2>1, <2>2, CountUses, Zenon
    <2>6. Min({i \in U : Cardinality({j \in U : j > i}) < K}) = Head(h) /\ Head(h) \in U
      BY <2>1, <2>2, OldestUse, Zenon
    <2>7. ~ HasFullHistory(f) <=> Len(h) < K
      BY <2>1, <2>3 DEF HasFullHistory
    <2>8. Cardinality(U) \in Nat
      BY <2>2, SmallSets
    <2> QED
      BY <2>1, <2>4, <2>5, <2>6, <2>7, <2>8 DEF p, U
  <1>2. ASSUME NEW p \in Page, LruEvict(p), NEW f \in Frame, resident'[f] # resident[f],
               NEW g \in Evictable, g # f
        PROVE  LessUsed(resident[f], resident[g])
    <2>1. Evictable # {} /\ resident' = [resident EXCEPT ![Victim] = p]
      BY <1>2 DEF LruEvict, PoolLoad
    <2>2. f = Victim
      BY <1>2, <2>1 DEF LruInv, PoolTypeOK
    <2>3. f \in Evictable
      BY <2>1, <2>2, LruVictim
    <2>4. Unknown = {}
      BY <1>1 DEF Unknown
    <2>5. ~ Before(g, f)
      BY <2>1, <2>2, <2>4, LruVictim
    <2>6. resident[f] # resident[g]
      BY <1>2, <2>3 DEF LruInv, Evictable
    <2>7. /\ Head(History(f)) # Head(History(g))
          /\ Head(History(f)) \in Nat /\ Head(History(g)) \in Nat
      <3>1. /\ Head(History(f)) \in Uses(resident[f])
            /\ Head(History(g)) \in Uses(resident[g])
        BY <1>1, <2>3
      <3> QED
        BY <2>6, <3>1 DEF Uses, LruInv
    <2>8. \/ ~ HasFullHistory(f) /\ HasFullHistory(g)
          \/ /\ ~ HasFullHistory(f) <=> ~ HasFullHistory(g)
             /\ Head(History(f)) < Head(History(g))
      BY <2>5, <2>7 DEF Before
    <2> QED
      BY <1>1, <2>3, <2>8 DEF LessUsed
  <1>3. ASSUME NEW p \in Page, LruLoadUnused(p), NEW f \in Frame, resident'[f] # resident[f]
        PROVE  resident[f] = NoPage
    <2>1. ~ Asked /\ resident' = [resident EXCEPT ![Min(Invalid)] = p]
      BY <1>3 DEF LruLoadUnused, PoolLoad, Asked, Asked
    <2> QED
      BY <1>3, <2>1, UnusedFrame DEF LruInv, PoolTypeOK
  <1>4. ASSUME NEW f \in Frame, LruHit(f) \/ LruUnpin(f)
        PROVE  resident' = resident
    BY <1>4 DEF LruHit, PoolHit, LruUnpin, PoolUnpin
  <1> QED
    BY <1>2, <1>3, <1>4 DEF LruNext, EvictsLeast

LEMMA LruInitially ==
  ASSUME LruInit
  PROVE  LruInv
  <1>1. /\ resident = [f \in Frame |-> NoPage] /\ pins = [f \in Frame |-> 0]
        /\ histories = [p \in Page |-> <<>>] /\ tick = 0 /\ log = <<>>
    BY DEF LruInit, PoolInit
  <1>2. PoolTypeOK
    BY <1>1 DEF PoolTypeOK
  <1>3. log \in Seq(Page) /\ Len(log) = 0
    BY <1>1
  <1>4. \A p \in Page : Uses(p) = {}
    BY <1>3 DEF Uses
  <1>5. Remembers(<<>>, {})
    BY DEF Remembers
  <1>6. histories \in [Page -> Seq(Nat)]
    BY <1>1
  <1> QED
    BY <1>1, <1>2, <1>3, <1>4, <1>5, <1>6, Zenon DEF LruInv

LEMMA LruStutters ==
  ASSUME LruInv, UNCHANGED <<poolVars, lruVars>>
  PROVE  LruInv'
  BY DEF poolVars, lruVars, LruInv, PoolTypeOK, Uses

LEMMA SeqOfValues ==
  ASSUME NEW S, NEW T, NEW s \in Seq(S), \A i \in 1 .. Len(s) : s[i] \in T
  PROVE  s \in Seq(T)
  OBVIOUS

LEMMA LruTyped ==
  ASSUME LruInv
  PROVE  LruTypeOK
  <1>1. tick \in Nat /\ tick = Len(log)
    BY DEF LruInv
  <1>2. ASSUME NEW p \in Page
        PROVE  histories[p] \in Seq(1 .. tick)
    <2> DEFINE h == histories[p]
    <2>1. h \in Seq(Nat) /\ \A i \in 1 .. Len(h) : h[i] \in Uses(p)
      BY DEF LruInv, Remembers
    <2>2. \A i \in 1 .. Len(h) : h[i] \in 1 .. tick
      BY <1>1, <2>1 DEF Uses
    <2> HIDE DEF h
    <2> QED
      BY <2>1, <2>2, SeqOfValues, Zenon DEF h
  <1> QED
    BY <1>1, <1>2 DEF LruInv, LruTypeOK

(***************************************************************************)
(* The configured policy keeps its invariant; the others keep their        *)
(* initial state.                                                          *)
(***************************************************************************)
ClockUntouched ==
  /\ referenced \in [Frame -> BOOLEAN]
  /\ clock_hand \in Frame
  /\ waited = [f \in Frame |-> 0]

LruUntouched ==
  /\ histories \in [Page -> Seq(1 .. tick)]
  /\ tick \in Nat
  /\ log \in Seq(Page)

ArcUntouched ==
  /\ arc.lists \in [Location -> Seq(Page)]
  /\ arc.locations \in [Page -> Location \cup {NoLocation}]
  /\ arc.resident_frames \in [Page -> Frame \cup {NoFrame}]
  /\ arc.target_recent \in 0 .. Capacity
  /\ arc.pending_b2_hit \in BOOLEAN

PoliciesInv ==
  \/ kind = "ClockSweep" /\ ClockInv /\ LruUntouched /\ ArcUntouched
  \/ kind = "LruK" /\ LruInv /\ ClockUntouched /\ ArcUntouched
  \/ kind = "Arc" /\ ArcInv /\ ClockUntouched /\ LruUntouched

\* make_eviction_policy: every policy starts empty.
LEMMA PoliciesInitially ==
  ASSUME Init
  PROVE  PoliciesInv
  <1>1. kind \in {"ClockSweep", "LruK", "Arc"} /\ ClockInit /\ LruInit /\ ArcInit
    BY DEF Init
  <1>2. ClockInv /\ LruInv /\ ArcInv
    BY <1>1, ClockInitially, LruInitially, ArcInitially
  <1>3. ClockUntouched
    BY <1>1, <1>2 DEF ClockInit, ClockInv, ClockUntouched
  <1>4. LruUntouched
    BY <1>2, LruTyped DEF LruTypeOK, LruUntouched
  <1>5. ArcUntouched
    BY <1>2, ArcTyped DEF ArcTypeOK, ArcUntouched
  <1> QED
    BY <1>1, <1>2, <1>3, <1>4, <1>5, Zenon DEF PoliciesInv

LEMMA ClockKept ==
  ASSUME ClockUntouched, UNCHANGED clockVars
  PROVE  ClockUntouched'
  BY DEF ClockUntouched, clockVars

LEMMA LruKept ==
  ASSUME LruUntouched, UNCHANGED lruVars
  PROVE  LruUntouched'
  BY DEF LruUntouched, lruVars

LEMMA ArcKept ==
  ASSUME ArcUntouched, UNCHANGED arc
  PROVE  ArcUntouched'
  BY DEF ArcUntouched

LEMMA PoliciesStep ==
  ASSUME PoliciesInv, [Next]_vars
  PROVE  PoliciesInv'
  <1>1. CASE ClockStep
    <2>1. kind = "ClockSweep" /\ ClockNext /\ kind' = kind /\ UNCHANGED lruVars /\ UNCHANGED arc
      BY <1>1, Zenon DEF ClockStep
    <2>2. ClockInv /\ LruUntouched /\ ArcUntouched
      BY <2>1 DEF PoliciesInv
    <2> QED
      BY <2>1, <2>2, ClockNextStep, LruKept, ArcKept, Zenon DEF PoliciesInv
  <1>2. CASE LruStep
    <2>1. kind = "LruK" /\ LruNext /\ kind' = kind /\ UNCHANGED clockVars /\ UNCHANGED arc
      BY <1>2, Zenon DEF LruStep
    <2>2. LruInv /\ ClockUntouched /\ ArcUntouched
      BY <2>1 DEF PoliciesInv
    <2> QED
      BY <2>1, <2>2, LruNextStep, ClockKept, ArcKept, Zenon DEF PoliciesInv
  <1>3. CASE ArcStep
    <2>1. kind = "Arc" /\ ArcNext /\ kind' = kind /\ UNCHANGED clockVars /\ UNCHANGED lruVars
      BY <1>3, Zenon DEF ArcStep
    <2>2. ArcInv /\ ClockUntouched /\ LruUntouched
      BY <2>1 DEF PoliciesInv
    <2> QED
      BY <2>1, <2>2, ArcNextStep, ClockKept, LruKept, Zenon DEF PoliciesInv
  <1>4. CASE UNCHANGED vars
    <2>1. /\ kind' = kind /\ UNCHANGED poolVars
          /\ UNCHANGED clockVars /\ UNCHANGED lruVars /\ UNCHANGED arc
      BY <1>4, Zenon DEF vars
    <2>2. /\ UNCHANGED <<poolVars, clockVars>>
          /\ UNCHANGED <<poolVars, lruVars>>
          /\ UNCHANGED <<poolVars, arc>>
      BY <2>1, Zenon
    <2>3. /\ ClockInv => ClockInv'
          /\ LruInv => LruInv'
          /\ ArcInv => ArcInv'
      BY <2>2, ClockStutters, LruStutters, ArcStutters, Zenon
    <2>4. /\ ClockUntouched => ClockUntouched'
          /\ LruUntouched => LruUntouched'
          /\ ArcUntouched => ArcUntouched'
      BY <2>1, ClockKept, LruKept, ArcKept, Zenon
    <2> QED
      BY <2>1, <2>3, <2>4, Zenon DEF PoliciesInv
  <1> QED
    BY <1>1, <1>2, <1>3, <1>4, Zenon DEF Next

LEMMA PoliciesInvariant == Spec => []PoliciesInv
  BY PoliciesInitially, PoliciesStep, PTL DEF Spec

\* What the invariant says of a state.
LEMMA PoliciesPromise ==
  ASSUME PoliciesInv
  PROVE  /\ TypeOK
         /\ FullOnlyIfAllPinned
         /\ IdlePagesLeave
         /\ ListsMatchPool
  <1>1. TypeOK
    <2>1. ClockInv => PoolTypeOK /\ ClockTypeOK
      BY DEF ClockInv, ClockTypeOK
    <2>2. LruInv => PoolTypeOK /\ LruTypeOK
      BY LruTyped DEF LruTypeOK
    <2>3. ArcInv => PoolTypeOK /\ ArcTypeOK
      BY ArcTyped DEF ArcTypeOK
    <2>4. /\ PoolTypeOK /\ ClockUntouched => ClockTypeOK
          /\ PoolTypeOK /\ LruUntouched => LruTypeOK
          /\ PoolTypeOK /\ ArcUntouched => ArcTypeOK
      BY DEF ClockUntouched, ClockTypeOK, LruUntouched, LruTypeOK, ArcUntouched, ArcTypeOK
    <2> QED
      BY <2>1, <2>2, <2>3, <2>4, Zenon DEF PoliciesInv, TypeOK
  <1>2. FullOnlyIfAllPinned
    <2>1. (kind = "ClockSweep" => ClockInv) /\ (kind = "Arc" => ArcInv)
      BY DEF PoliciesInv
    <2> QED
      BY <2>1, ClockFull, ArcFull, Zenon DEF FullOnlyIfAllPinned
  <1>3. IdlePagesLeave
    <2>1. ClockUntouched => IdlePagesLeave
      BY DEF ClockUntouched, IdlePagesLeave
    <2> QED
      BY <2>1, ClockIdle, Zenon DEF PoliciesInv
  <1>4. ListsMatchPool
    <2>1. kind = "Arc" => ArcInv
      BY DEF PoliciesInv
    <2> QED
      BY <2>1, ArcLists, Zenon DEF ListsMatchPool
  <1> QED
    BY <1>1, <1>2, <1>3, <1>4

\* The state of the pool and of every policy keeps its type, the history ticks
\* of LRU-K and the target of ARC within their ranges (lru_k_policy.cpp:12-41,
\* arc_policy.cpp:55-141).
THEOREM TypeCorrect == Spec => []TypeOK
  BY PoliciesInvariant, PoliciesPromise, PTL

\* Under clock-sweep and under ARC, at every capacity and whatever the policy
\* was told before, the pool is full exactly when every frame is pinned
\* (clock_sweep_policy.cpp:42-61, arc_policy.cpp:143-161).
THEOREM NeverFullWhileUnpinned == Spec => []FullOnlyIfAllPinned
  BY PoliciesInvariant, PoliciesPromise, PTL

\* At every capacity no idle page survives more than 2 * (Capacity - 1) other
\* victims of the clock (clock_sweep_policy.cpp:42-61).
THEOREM IdlePagesAreEvicted == Spec => []IdlePagesLeave
  BY PoliciesInvariant, PoliciesPromise, PTL

\* At every capacity and for every set of pages the lists of ARC hold each page
\* once, where its location says, T1 and T2 exactly the cached pages, and no
\* more ghosts than there are frames, misses that fail midway included
\* (arc_policy.cpp:55-141, 174-188).
THEOREM ArcMatchesPool == Spec => []ListsMatchPool
  BY PoliciesInvariant, PoliciesPromise, PTL

\* The clock evicts a used page only when all the unpinned ones were used
\* (clock_sweep_policy.cpp:51-56).
THEOREM UsedPagesAreSpared == Spec => SecondChance
  <1>1. ASSUME PoliciesInv, [Next]_vars
        PROVE  [kind = "ClockSweep" => SparesUsedPage]_vars
    <2>1. ASSUME kind = "ClockSweep", Next
          PROVE  SparesUsedPage
      <3>1. ClockInv /\ ClockNext
        BY <1>1, <2>1, Zenon DEF PoliciesInv, Next, ClockStep, LruStep, ArcStep
      <3> QED
        BY <3>1, ClockSpares
    <2> QED
      BY <1>1, <2>1, Zenon
  <1> QED
    BY <1>1, PoliciesInvariant, PTL DEF Spec, SecondChance

\* With a history of at least one use, LRU-K always evicts the page whose K-th
\* last use ever is the oldest: what it forgets never changes its choice
\* (lru_k_policy.cpp:12-86).
THEOREM LeastUsedIsEvicted ==
  ASSUME K # 0
  PROVE  Spec => EvictsLeastUsed
  <1>1. ASSUME PoliciesInv, [Next]_vars
        PROVE  [kind = "LruK" => EvictsLeast]_vars
    <2>1. ASSUME kind = "LruK", Next
          PROVE  EvictsLeast
      <3>1. LruInv /\ LruNext
        BY <1>1, <2>1, Zenon DEF PoliciesInv, Next, ClockStep, LruStep, ArcStep
      <3> QED
        BY <3>1, LruEvicts
    <2> QED
      BY <1>1, <2>1, Zenon
  <1> QED
    BY <1>1, PoliciesInvariant, PTL DEF Spec, EvictsLeastUsed
=============================================================================
