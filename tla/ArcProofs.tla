------------------------------ MODULE ArcProofs -----------------------------
(***************************************************************************)
(* Arc for every capacity and every set of pages.                          *)
(***************************************************************************)
EXTENDS Arc, FiniteSetTheorems, TLAPS

USE CapacityAssumption, NoPageAssumption, KAssumption, MaxPinsAssumption

LEMMA LeastNatural ==
  ASSUME NEW S \in SUBSET Nat, S # {}
  PROVE  \E n \in S : \A m \in S : n <= m
  <1> DEFINE R == OpToRel(<, Nat)
  <1>0. R = {ss \in Nat \X Nat : ss[1] < ss[2]}
    BY DEF OpToRel
  <1>1. PICK n \in S : \A m \in S : ~ (<<m, n>> \in R)
    BY NatLessThanWellFounded, WFMin, Zenon
  <1> HIDE DEF R
  <1>2. ASSUME NEW m \in S PROVE ~ (m < n)
    BY <1>0, <1>1, Zenon
  <1> QED
    BY <1>2

LEMMA MinIsLeast ==
  ASSUME NEW S \in SUBSET Nat, S # {}
  PROVE  Min(S) \in S /\ \A m \in S : Min(S) <= m
  BY LeastNatural, Zenon DEF Min

\* The pool after a load keeps its type.
LEMMA LoadTypeOK ==
  ASSUME PoolTypeOK, NEW f \in Frame, NEW p \in Page,
         resident' = [resident EXCEPT ![f] = p], pins' = [pins EXCEPT ![f] = 1]
  PROVE  PoolTypeOK'
  BY DEF PoolTypeOK

LEMMA UnusedFrame ==
  ASSUME ~ Asked
  PROVE  Min(Invalid) \in Frame /\ resident[Min(Invalid)] = NoPage
  <1>1. Invalid \in SUBSET Nat /\ Invalid # {}
    BY DEF Invalid, Asked, Frame
  <1> QED
    BY <1>1, MinIsLeast DEF Invalid

LEMMA PartOfSeq ==
  ASSUME NEW S, NEW s \in Seq(S), NEW m \in 1 .. Len(s) + 1, NEW n \in m - 1 .. Len(s)
  PROVE  /\ SubSeq(s, m, n) \in Seq(S)
         /\ Len(SubSeq(s, m, n)) = n - m + 1
         /\ \A i \in 1 .. n - m + 1 : SubSeq(s, m, n)[i] = s[m + i - 1]
  OBVIOUS

LEMMA ConcatOfSeqs ==
  ASSUME NEW S, NEW s \in Seq(S), NEW t \in Seq(S)
  PROVE  /\ s \o t \in Seq(S)
         /\ Len(s \o t) = Len(s) + Len(t)
         /\ \A i \in 1 .. Len(s) + Len(t) :
              (s \o t)[i] = IF i <= Len(s) THEN s[i] ELSE t[i - Len(s)]
  OBVIOUS

LEMMA MaxIsGreatest ==
  ASSUME NEW n \in Nat, NEW S \in SUBSET (0 .. n), S # {}
  PROVE  Max(S) \in S /\ \A m \in S : m <= Max(S)
  <1> DEFINE R == {n - m : m \in S}
  <1>0. \A m \in S : m \in Nat /\ n - m \in Nat
    OBVIOUS
  <1>1. R \in SUBSET Nat /\ R # {}
    BY <1>0, Zenon
  <1>2. PICK r \in R : \A m \in R : r <= m
    BY <1>1, LeastNatural, Zenon
  <1>3. PICK x \in S : r = n - x
    BY <1>2
  <1>4. ASSUME NEW m \in S
        PROVE  m <= x
    <2>1. n - x <= n - m
      BY <1>2, <1>3
    <2>2. n - m \in Nat /\ n - x \in Nat /\ m \in Nat /\ x \in Nat
      BY <1>0
    <2> QED
      BY <2>1, <2>2
  <1> QED
    BY <1>0, <1>4, Zenon DEF Max

(***************************************************************************)
(* The lists.  A page occurs in a list at most once.                       *)
(***************************************************************************)
Occurs(s, p) == \E i \in 1 .. Len(s) : s[i] = p

Once(s) == \A i, j \in 1 .. Len(s) : s[i] = s[j] => i = j

\* t holds the pages of s without p.
Without(s, t, p) ==
  /\ t \in Seq(Page)
  /\ Once(t)
  /\ \A q \in Page : Occurs(t, q) <=> Occurs(s, q) /\ q # p

LEMMA FirstRemoved ==
  ASSUME NEW s \in Seq(Page), Once(s), NEW p \in Page
  PROVE  Without(s, ErasePage(s, p), p)
  <1> DEFINE t == ErasePage(s, p)
             I == {i \in 1 .. Len(s) : s[i] = p}
             k == Min(I)
  <1>0. Len(s) \in Nat
    OBVIOUS
  <1>1. CASE ~ Occurs(s, p)
    <2>1. t = s
      BY <1>1 DEF ErasePage, Occurs
    <2> QED
      BY <1>1, <2>1 DEF Without
  <1>2. CASE Occurs(s, p)
    <2>1. I \in SUBSET Nat /\ I # {}
      BY <1>2 DEF Occurs
    <2>2. k \in 1 .. Len(s) /\ s[k] = p
      <3> HIDE DEF I
      <3>1. k \in I
        BY <2>1, MinIsLeast DEF k
      <3> QED
        BY <3>1 DEF I
    <2>4. t = SubSeq(s, 1, k - 1) \o SubSeq(s, k + 1, Len(s))
      BY <2>1, Zenon DEF ErasePage
    <2> HIDE DEF t, k
    <2>5. /\ t \in Seq(Page) /\ Len(t) = Len(s) - 1
          /\ \A i \in 1 .. Len(s) - 1 : t[i] = IF i < k THEN s[i] ELSE s[i + 1]
      <3> DEFINE u == SubSeq(s, 1, k - 1)
                 w == SubSeq(s, k + 1, Len(s))
      <3>1. /\ u \in Seq(Page) /\ Len(u) = k - 1
            /\ \A i \in 1 .. k - 1 : u[i] = s[i]
        BY <1>0, <2>2, PartOfSeq
      <3>2. /\ w \in Seq(Page) /\ Len(w) = Len(s) - k
            /\ \A i \in 1 .. Len(s) - k : w[i] = s[k + i]
        BY <1>0, <2>2, PartOfSeq
      <3> HIDE DEF u, w
      <3>3. /\ t \in Seq(Page) /\ Len(t) = Len(u) + Len(w)
            /\ \A i \in 1 .. Len(u) + Len(w) :
                 t[i] = IF i <= Len(u) THEN u[i] ELSE w[i - Len(u)]
        BY <2>4, <3>1, <3>2, ConcatOfSeqs, Zenon DEF u, w
      <3>4. ASSUME NEW i \in 1 .. Len(s) - 1
            PROVE  t[i] = IF i < k THEN s[i] ELSE s[i + 1]
        <4>1. CASE i < k
          BY <1>0, <2>2, <3>1, <3>2, <3>3, <4>1
        <4>2. CASE i >= k
          <5> DEFINE j == i - Len(u)
          <5>1. j \in 1 .. Len(s) - k /\ k + j = i + 1 /\ ~ (i <= Len(u))
            BY <1>0, <2>2, <3>1, <4>2
          <5>2. i \in 1 .. Len(u) + Len(w)
            BY <1>0, <2>2, <3>1, <3>2
          <5>3. t[i] = w[j]
            BY <3>3, <5>1, <5>2
          <5>4. w[j] = s[k + j]
            BY <3>2, <5>1
          <5> QED
            BY <2>2, <4>2, <5>1, <5>3, <5>4
        <4> QED
          BY <2>2, <4>1, <4>2
      <3> QED
        BY <1>0, <2>2, <3>1, <3>2, <3>3, <3>4
    <2>6. Once(t)
      BY <1>0, <2>2, <2>5 DEF Once
    <2>7. ASSUME NEW q \in Page
          PROVE  Occurs(t, q) <=> Occurs(s, q) /\ q # p
      <3>1. ASSUME NEW i \in 1 .. Len(t), t[i] = q
            PROVE  Occurs(s, q) /\ q # p
        BY <1>0, <2>2, <2>5, <3>1 DEF Occurs, Once
      <3>2. ASSUME NEW i \in 1 .. Len(s), s[i] = q, q # p
            PROVE  Occurs(t, q)
        <4>1. CASE i < k
          BY <1>0, <2>2, <2>5, <3>2, <4>1 DEF Occurs
        <4>2. CASE i > k
          <5>1. i - 1 \in 1 .. Len(t) /\ t[i - 1] = q
            BY <1>0, <2>2, <2>5, <3>2, <4>2
          <5> QED
            BY <5>1 DEF Occurs
        <4> QED
          BY <2>2, <3>2, <4>1, <4>2
      <3> QED
        BY <3>1, <3>2 DEF Occurs
    <2> QED
      BY <2>5, <2>6, <2>7 DEF Without, t
  <1> QED
    BY <1>1, <1>2

\* u holds the pages of s and p.
With(s, u, p) ==
  /\ u \in Seq(Page)
  /\ Once(u)
  /\ \A q \in Page : Occurs(u, q) <=> Occurs(s, q) \/ q = p

LEMMA FrontAdded ==
  ASSUME NEW s, NEW t, NEW p \in Page, Without(s, t, p)
  PROVE  With(s, <<p>> \o t, p)
  <1> DEFINE u == <<p>> \o t
  <1>1. t \in Seq(Page) /\ Len(t) \in Nat /\ Once(t) /\ ~ Occurs(t, p)
    BY DEF Without
  <1>2. /\ u \in Seq(Page) /\ Len(u) = Len(t) + 1 /\ u[1] = p
        /\ \A i \in 2 .. Len(t) + 1 : u[i] = t[i - 1]
    BY <1>1, ConcatOfSeqs
  <1> HIDE DEF u
  <1>3. Once(u)
    <2>1. ASSUME NEW i \in 1 .. Len(u), NEW j \in 1 .. Len(u), u[i] = u[j]
          PROVE  i = j
      <3>1. CASE i = 1 /\ j > 1
        BY <1>1, <1>2, <2>1, <3>1 DEF Occurs
      <3>2. CASE j = 1 /\ i > 1
        BY <1>1, <1>2, <2>1, <3>2 DEF Occurs
      <3>3. CASE i > 1 /\ j > 1
        <4>1. /\ i - 1 \in 1 .. Len(t) /\ j - 1 \in 1 .. Len(t)
              /\ t[i - 1] = t[j - 1]
          BY <1>1, <1>2, <2>1, <3>3
        <4>2. i - 1 = j - 1
          BY <1>1, <4>1 DEF Once
        <4> QED
          BY <4>2
      <3> QED
        BY <3>1, <3>2, <3>3
    <2> QED
      BY <2>1 DEF Once
  <1>4. ASSUME NEW q \in Page
        PROVE  Occurs(u, q) <=> Occurs(t, q) \/ q = p
    <2>1. ASSUME NEW i \in 1 .. Len(u), u[i] = q
          PROVE  Occurs(t, q) \/ q = p
      <3>1. CASE i = 1
        BY <1>2, <2>1, <3>1
      <3>2. CASE i > 1
        <4>1. i - 1 \in 1 .. Len(t) /\ t[i - 1] = q
          BY <1>1, <1>2, <2>1, <3>2
        <4> QED
          BY <4>1 DEF Occurs
      <3> QED
        BY <3>1, <3>2
    <2>2. ASSUME NEW i \in 1 .. Len(t), t[i] = q
          PROVE  Occurs(u, q)
      <3>1. i + 1 \in 1 .. Len(u) /\ u[i + 1] = q
        BY <1>1, <1>2, <2>2
      <3> QED
        BY <3>1 DEF Occurs
    <2>3. Occurs(u, p)
      BY <1>1, <1>2 DEF Occurs
    <2> QED
      BY <2>1, <2>2, <2>3 DEF Occurs
  <1> QED
    BY <1>2, <1>3, <1>4 DEF Without, With, u

(***************************************************************************)
(* The records.  Every page is in the list its location names and in no    *)
(* other one.                                                              *)
(***************************************************************************)
ArcState ==
  [lists : [Location -> Seq(Page)],
   locations : [Page -> Location \cup {NoLocation}],
   resident_frames : [Page -> Frame \cup {NoFrame}],
   target_recent : 0 .. Capacity,
   pending_b2_hit : BOOLEAN]

Consistent(a) ==
  /\ a \in ArcState
  /\ \A l \in Location : Once(a.lists[l])
  /\ \A l \in Location, p \in Page : Occurs(a.lists[l], p) <=> a.locations[p] = l

SameRest(a, b) ==
  /\ b.resident_frames = a.resident_frames
  /\ b.target_recent = a.target_recent
  /\ b.pending_b2_hit = a.pending_b2_hit

\* b is a with page p in list l.
Placed(a, b, p, l) ==
  /\ Consistent(b)
  /\ b.locations = [a.locations EXCEPT ![p] = l]
  /\ \A k \in Location \ {a.locations[p], l} : b.lists[k] = a.lists[k]
  /\ SameRest(a, b)

LEMMA ArcFields ==
  ASSUME NEW a \in ArcState
  PROVE  /\ a.lists \in [Location -> Seq(Page)]
         /\ a.locations \in [Page -> Location \cup {NoLocation}]
         /\ a.resident_frames \in [Page -> Frame \cup {NoFrame}]
         /\ a.target_recent \in 0 .. Capacity
         /\ a.pending_b2_hit \in BOOLEAN
  BY Zenon DEF ArcState

LEMMA PushFrontFields ==
  ASSUME NEW a \in ArcState, NEW p \in Page, NEW l \in Location, NEW b, b = PushFront(a, p, l)
  PROVE  /\ b.lists = [a.lists EXCEPT ![l] = <<p>> \o ErasePage(a.lists[l], p)]
         /\ b.locations = [a.locations EXCEPT ![p] = l]
         /\ SameRest(a, b)
         /\ b.lists \in [Location -> Seq(Page)] => b \in ArcState
  <1>1. /\ b.lists = [a.lists EXCEPT ![l] = <<p>> \o ErasePage(a.lists[l], p)]
        /\ b.locations = [a.locations EXCEPT ![p] = l]
        /\ SameRest(a, b)
    BY Zenon DEF PushFront, ArcState, SameRest
  <1>2. b.locations \in [Page -> Location \cup {NoLocation}]
    BY <1>1, ArcFields
  <1>3. ASSUME b.lists \in [Location -> Seq(Page)]
        PROVE  b \in ArcState
    BY <1>1, <1>2, <1>3, Zenon DEF PushFront, ArcState, SameRest
  <1> QED
    BY <1>1, <1>3

MovedRecord(a, b, p, k, l) ==
  /\ b.lists = [[a.lists EXCEPT ![k] = ErasePage(a.lists[k], p)]
                  EXCEPT ![l] = <<p>> \o ErasePage(a.lists[l], p)]
  /\ b.locations = [a.locations EXCEPT ![p] = l]
  /\ SameRest(a, b)
  /\ b.lists \in [Location -> Seq(Page)] => b \in ArcState

LEMMA MovedFields ==
  ASSUME NEW a \in ArcState, NEW p \in Page, NEW k \in Location, NEW l \in Location, k # l
  PROVE  MovedRecord(a, Moved(a, p, k, l), p, k, l)
  <1> DEFINE b == Moved(a, p, k, l)
  <1>1. /\ b.lists = [[a.lists EXCEPT ![k] = ErasePage(a.lists[k], p)]
                         EXCEPT ![l] = <<p>> \o ErasePage(@, p)]
        /\ b.locations = [a.locations EXCEPT ![p] = l]
        /\ SameRest(a, b)
    BY Zenon DEF PushFront, Moved, ArcState, SameRest
  <1>2. [a.lists EXCEPT ![k] = ErasePage(a.lists[k], p)][l] = a.lists[l]
    BY ArcFields
  <1>3. b.locations \in [Page -> Location \cup {NoLocation}]
    BY <1>1, ArcFields
  <1>4. ASSUME b.lists \in [Location -> Seq(Page)]
        PROVE  b \in ArcState
    BY <1>1, <1>3, <1>4, Zenon DEF PushFront, Moved, ArcState, SameRest
  <1> QED
    BY <1>1, <1>2, <1>4, Zenon DEF MovedRecord

\* The lists after p was taken out of list k and put in front of list l.
LEMMA ListsPlaced ==
  ASSUME NEW a, Consistent(a), NEW p \in Page, NEW l \in Location,
         a.locations[p] \in Location \cup {NoLocation},
         NEW b, b.lists \in [Location -> Seq(Page)] => b \in ArcState,
         b.locations = [a.locations EXCEPT ![p] = l],
         SameRest(a, b),
         DOMAIN b.lists = Location,
         b.lists[l] = <<p>> \o ErasePage(a.lists[l], p),
         a.locations[p] \in Location \ {l} =>
           b.lists[a.locations[p]] = ErasePage(a.lists[a.locations[p]], p),
         \A k \in Location \ {a.locations[p], l} : b.lists[k] = a.lists[k],
         b.lists = [k \in Location |-> b.lists[k]]
  PROVE  Placed(a, b, p, l)
  <1>1. /\ a \in ArcState /\ \A k \in Location : a.lists[k] \in Seq(Page) /\ Once(a.lists[k])
        /\ a.locations \in [Page -> Location \cup {NoLocation}]
    BY ArcFields DEF Consistent
  <1>2. \A k \in Location : Without(a.lists[k], ErasePage(a.lists[k], p), p)
    BY <1>1, FirstRemoved
  <1>3. ASSUME NEW k \in Location
        PROVE  /\ b.lists[k] \in Seq(Page) /\ Once(b.lists[k])
               /\ \A q \in Page : Occurs(b.lists[k], q) <=> b.locations[q] = k
    <2>0. \A q \in Page : b.locations[q] = IF q = p THEN l ELSE a.locations[q]
      BY <1>1
    <2>1. CASE k = l
      <3>1. /\ b.lists[k] \in Seq(Page) /\ Once(b.lists[k])
            /\ \A q \in Page : Occurs(b.lists[k], q) <=> Occurs(a.lists[k], q) \/ q = p
        <4>1. With(a.lists[k], b.lists[k], p)
          <5>1. b.lists[k] = <<p>> \o ErasePage(a.lists[k], p)
            BY <2>1
          <5>2. Without(a.lists[k], ErasePage(a.lists[k], p), p)
            BY <1>2
          <5>3. With(a.lists[k], <<p>> \o ErasePage(a.lists[k], p), p)
            BY <5>2, FrontAdded
          <5> QED
            BY <5>1, <5>3, Zenon
        <4> QED
          BY <4>1 DEF With
      <3> QED
        BY <2>0, <2>1, <3>1 DEF Consistent
    <2>2. CASE k # l /\ k = a.locations[p]
      <3>1. Without(a.lists[k], b.lists[k], p)
        BY <1>2, <2>2
      <3> QED
        BY <2>0, <2>2, <3>1 DEF Without, Consistent
    <2>3. CASE k # l /\ k # a.locations[p]
      <3>1. b.lists[k] = a.lists[k]
        BY <2>3
      <3> QED
        BY <1>1, <2>0, <2>3, <3>1 DEF Consistent
    <2> QED
      BY <2>1, <2>2, <2>3
  <1>4. b.lists \in [Location -> Seq(Page)]
    BY <1>3
  <1>5. Consistent(b)
    BY <1>3, <1>4 DEF Consistent
  <1> QED
    BY <1>5 DEF Placed

LEMMA PushFrontPlaces ==
  ASSUME NEW a, Consistent(a), NEW p \in Page, NEW l \in Location,
         a.locations[p] \in {NoLocation, l}
  PROVE  Placed(a, PushFront(a, p, l), p, l)
  <1> DEFINE b == PushFront(a, p, l)
  <1>0. a \in ArcState /\ a.lists \in [Location -> Seq(Page)]
    BY ArcFields DEF Consistent
  <1>1. /\ b.lists = [a.lists EXCEPT ![l] = <<p>> \o ErasePage(a.lists[l], p)]
        /\ b.locations = [a.locations EXCEPT ![p] = l]
        /\ SameRest(a, b)
        /\ b.lists \in [Location -> Seq(Page)] => b \in ArcState
    BY <1>0, PushFrontFields, Zenon
  <1> HIDE DEF b
  <1>2. /\ DOMAIN b.lists = Location
        /\ b.lists[l] = <<p>> \o ErasePage(a.lists[l], p)
        /\ \A k \in Location \ {a.locations[p], l} : b.lists[k] = a.lists[k]
        /\ b.lists = [k \in Location |-> b.lists[k]]
    BY <1>0, <1>1, Zenon
  <1>3. ~ (a.locations[p] \in Location \ {l})
    BY DEF Location, NoLocation
  <1>4. a.locations[p] \in Location \cup {NoLocation}
    OBVIOUS
  <1>5. Placed(a, b, p, l)
    BY <1>1, <1>2, <1>3, <1>4, ListsPlaced, Zenon
  <1> QED
    BY <1>5 DEF b

LEMMA MovedPlaces ==
  ASSUME NEW a, Consistent(a), NEW p \in Page, NEW k \in Location, NEW l \in Location, k # l,
         a.locations[p] = k
  PROVE  Placed(a, Moved(a, p, k, l), p, l)
  <1> DEFINE b == Moved(a, p, k, l)
  <1>0. a \in ArcState /\ a.lists \in [Location -> Seq(Page)]
    BY ArcFields DEF Consistent
  <1>b. MovedRecord(a, b, p, k, l)
    BY <1>0, MovedFields
  <1> HIDE DEF b
  <1>1. /\ b.lists = [[a.lists EXCEPT ![k] = ErasePage(a.lists[k], p)]
                         EXCEPT ![l] = <<p>> \o ErasePage(a.lists[l], p)]
        /\ b.locations = [a.locations EXCEPT ![p] = l]
        /\ SameRest(a, b)
        /\ b.lists \in [Location -> Seq(Page)] => b \in ArcState
    BY <1>b, Zenon DEF MovedRecord
  <1>2. /\ DOMAIN b.lists = Location
        /\ b.lists[l] = <<p>> \o ErasePage(a.lists[l], p)
        /\ b.lists[k] = ErasePage(a.lists[k], p)
        /\ \A j \in Location \ {k, l} : b.lists[j] = a.lists[j]
        /\ b.lists = [j \in Location |-> b.lists[j]]
    BY <1>0, <1>1, Zenon
  <1>3. Placed(a, b, p, l)
    BY <1>1, <1>2, ListsPlaced, Zenon
  <1> QED
    BY <1>3 DEF b

(***************************************************************************)
(* The loop of prune_ghosts.  That the recursion has a solution is seen    *)
(* from the sizes it arrives at: the larger list gives way until the       *)
(* smaller one is no longer the smaller half, then both do.                *)
(***************************************************************************)
Sizes == (0 .. Capacity) \X (0 .. Capacity)

CutOnce(g, n) ==
  IF n[1] + n[2] <= Capacity THEN n
  ELSE IF n[1] >= n[2] THEN g[<<n[1] - 1, n[2]>>]
  ELSE g[<<n[1], n[2] - 1>>]

LEMMA CutsExist == \E g : g = [n \in Sizes |-> CutOnce(g, n)]
  <1> DEFINE h == Capacity \div 2
             First(x, y) == IF x + y <= Capacity THEN x
                            ELSE IF y <= h THEN Capacity - y
                            ELSE IF x <= h THEN x ELSE h
             Second(x, y) == IF x + y <= Capacity THEN y
                             ELSE IF y <= h THEN y
                             ELSE IF x <= h THEN Capacity - x ELSE Capacity - h
             g == [n \in Sizes |-> <<First(n[1], n[2]), Second(n[1], n[2])>>]
  <1>1. h \in Nat /\ (Capacity = 2 * h \/ Capacity = 2 * h + 1)
    OBVIOUS
  <1> HIDE DEF h
  <1>2. ASSUME NEW x \in 0 .. Capacity, NEW y \in 0 .. Capacity, x + y > Capacity
        PROVE  /\ x >= y => First(x, y) = First(x - 1, y) /\ Second(x, y) = Second(x - 1, y)
               /\ x < y => First(x, y) = First(x, y - 1) /\ Second(x, y) = Second(x, y - 1)
    BY <1>1, <1>2
  <1> HIDE DEF First, Second
  <1>3. \A x, y \in 0 .. Capacity : g[<<x, y>>] = <<First(x, y), Second(x, y)>>
    BY DEF Sizes
  <1>4. g = [n \in Sizes |-> g[n]]
    OBVIOUS
  <1> HIDE DEF g
  <1>5. ASSUME NEW x \in 0 .. Capacity, NEW y \in 0 .. Capacity
        PROVE  g[<<x, y>>] = CutOnce(g, <<x, y>>)
    <2>1. CutOnce(g, <<x, y>>) = IF x + y <= Capacity THEN <<x, y>>
                                 ELSE IF x >= y THEN g[<<x - 1, y>>] ELSE g[<<x, y - 1>>]
      BY DEF CutOnce
    <2>2. CASE x + y <= Capacity
      <3>1. First(x, y) = x /\ Second(x, y) = y
        BY <2>2 DEF First, Second
      <3> QED
        BY <1>3, <2>1, <2>2, <3>1
    <2>3. CASE x + y > Capacity /\ x >= y
      <3>1. x - 1 \in 0 .. Capacity
        BY <2>3
      <3>2. g[<<x - 1, y>>] = <<First(x - 1, y), Second(x - 1, y)>>
        BY <1>3, <3>1
      <3> QED
        BY <1>2, <1>3, <2>1, <2>3, <3>2
    <2>4. CASE x + y > Capacity /\ x < y
      <3>1. y - 1 \in 0 .. Capacity
        BY <2>4
      <3>2. g[<<x, y - 1>>] = <<First(x, y - 1), Second(x, y - 1)>>
        BY <1>3, <3>1
      <3> QED
        BY <1>2, <1>3, <2>1, <2>4, <3>2
    <2> QED
      BY <2>2, <2>3, <2>4
  <1>6. \A n \in Sizes : g[n] = CutOnce(g, n)
    BY <1>5 DEF Sizes
  <1> QED
    BY <1>4, <1>6

LEMMA BalancedCuts == Balanced = [n \in Sizes |-> CutOnce(Balanced, n)]
  BY CutsExist, Zenon DEF Balanced, Sizes, CutOnce

\* What is left fits, and no list has grown.
LEMMA BalancedFits ==
  ASSUME NEW x \in 0 .. Capacity, NEW y \in 0 .. Capacity
  PROVE  /\ Balanced[<<x, y>>] \in (0 .. x) \X (0 .. y)
         /\ Balanced[<<x, y>>][1] + Balanced[<<x, y>>][2] <= Capacity
  <1> DEFINE Fits(u, v) == /\ Balanced[<<u, v>>] \in (0 .. u) \X (0 .. v)
                           /\ Balanced[<<u, v>>][1] + Balanced[<<u, v>>][2] <= Capacity
             Bad == {m \in Nat : \E u, v \in 0 .. Capacity : u + v = m /\ ~ Fits(u, v)}
  <1>1. ASSUME NEW u \in 0 .. Capacity, NEW v \in 0 .. Capacity
        PROVE  Balanced[<<u, v>>] = IF u + v <= Capacity THEN <<u, v>>
                                    ELSE IF u >= v THEN Balanced[<<u - 1, v>>]
                                    ELSE Balanced[<<u, v - 1>>]
    <2>1. <<u, v>> \in Sizes
      BY DEF Sizes
    <2>2. Balanced[<<u, v>>] = CutOnce(Balanced, <<u, v>>)
      BY <2>1, BalancedCuts, Zenon
    <2> QED
      BY <2>2 DEF CutOnce
  <1> HIDE DEF Fits
  <1>2. ASSUME NEW u \in 0 .. Capacity, NEW v \in 0 .. Capacity,
               \A i, j \in 0 .. Capacity : i + j < u + v => Fits(i, j)
        PROVE  Fits(u, v)
    <2>1. CASE u + v <= Capacity
      <3>1. Balanced[<<u, v>>] = <<u, v>>
        BY <1>1, <2>1, Zenon
      <3> QED
        BY <2>1, <3>1 DEF Fits
    <2>2. CASE u + v > Capacity /\ u >= v
      <3>1. u - 1 \in 0 .. Capacity /\ u - 1 + v < u + v
        BY <2>2
      <3>2. Fits(u - 1, v)
        BY <1>2, <3>1, Zenon
      <3>3. Balanced[<<u, v>>] = Balanced[<<u - 1, v>>]
        <4>1. ~ (u + v <= Capacity) /\ u >= v
          BY <2>2
        <4> QED
          BY <1>1, <4>1, Zenon
      <3>4. \A k : k \in 0 .. u - 1 => k \in 0 .. u
        OBVIOUS
      <3> QED
        BY <3>2, <3>3, <3>4, Zenon DEF Fits
    <2>3. CASE u + v > Capacity /\ u < v
      <3>1. v - 1 \in 0 .. Capacity /\ u + (v - 1) < u + v
        BY <2>3
      <3>2. Fits(u, v - 1)
        BY <1>2, <3>1, Zenon
      <3>3. Balanced[<<u, v>>] = Balanced[<<u, v - 1>>]
        <4>1. ~ (u + v <= Capacity) /\ ~ (u >= v)
          BY <2>3
        <4> QED
          BY <1>1, <4>1, Zenon
      <3>4. \A k : k \in 0 .. v - 1 => k \in 0 .. v
        OBVIOUS
      <3> QED
        BY <3>2, <3>3, <3>4, Zenon DEF Fits
    <2> QED
      BY <2>1, <2>2, <2>3
  <1>3. Bad = {}
    <2> SUFFICES ASSUME Bad # {} PROVE FALSE
      OBVIOUS
    <2>1. Bad \in SUBSET Nat
      BY DEF Bad
    <2>2. PICK m \in Bad : \A k \in Bad : m <= k
      <3> HIDE DEF Bad
      <3> QED
        BY <2>1, LeastNatural
    <2>3. PICK u \in 0 .. Capacity, v \in 0 .. Capacity : u + v = m /\ ~ Fits(u, v)
      BY <2>2 DEF Bad
    <2>4. ASSUME NEW i \in 0 .. Capacity, NEW j \in 0 .. Capacity, i + j < u + v, ~ Fits(i, j)
          PROVE  FALSE
      <3>1. i + j \in Bad
        BY <2>4 DEF Bad
      <3>2. m <= i + j
        BY <2>2, <3>1, Zenon
      <3> QED
        BY <2>3, <2>4, <3>2
    <2> QED
      BY <1>2, <2>3, <2>4
  <1>4. Fits(x, y)
    <2> SUFFICES ASSUME ~ Fits(x, y) PROVE FALSE
      OBVIOUS
    <2>1. x + y \in Bad
      BY DEF Bad
    <2> QED
      BY <1>3, <2>1, Zenon
  <1> QED
    BY <1>4 DEF Fits

\* b is a without the pages beyond the first m1 of B1 and m2 of B2.
Lost(s, m, p) == p \in Range(s) \ Range(SubSeq(s, 1, m))

PrunedRecord(a, b, m1, m2) ==
  /\ b.lists = [[a.lists EXCEPT !["B1"] = SubSeq(a.lists["B1"], 1, m1)]
                  EXCEPT !["B2"] = SubSeq(a.lists["B2"], 1, m2)]
  /\ b.locations = [p \in Page |-> IF Lost(a.lists["B1"], m1, p) \/ Lost(a.lists["B2"], m2, p)
                                   THEN NoLocation ELSE a.locations[p]]
  /\ SameRest(a, b)
  /\ b.lists \in [Location -> Seq(Page)] => b \in ArcState

LEMMA PruneFields ==
  ASSUME NEW a \in ArcState
  PROVE  LET m == Balanced[<<Min({Capacity, Size(a, "B1")}), Min({Capacity, Size(a, "B2")})>>]
         IN  PrunedRecord(a, PruneGhosts(a), m[1], m[2])
  <1> DEFINE m == Balanced[<<Min({Capacity, Size(a, "B1")}), Min({Capacity, Size(a, "B2")})>>]
             gone == {p \in Page : \/ p \in Range(a.lists["B1"]) \ Range(SubSeq(a.lists["B1"], 1, m[1]))
                                   \/ p \in Range(a.lists["B2"]) \ Range(SubSeq(a.lists["B2"], 1, m[2]))}
             b == PruneGhosts(a)
             where == [p \in Page |-> IF p \in gone THEN NoLocation ELSE a.locations[p]]
             left == [[a.lists EXCEPT !["B1"] = SubSeq(a.lists["B1"], 1, m[1])]
                         EXCEPT !["B2"] = SubSeq(a.lists["B2"], 1, m[2])]
  <1>1. b = [[a EXCEPT !.lists = left] EXCEPT !.locations = where]
    BY Zenon DEF PruneGhosts
  <1>2. where \in [Page -> Location \cup {NoLocation}]
    BY ArcFields
  <1>3. where = [p \in Page |-> IF Lost(a.lists["B1"], m[1], p) \/ Lost(a.lists["B2"], m[2], p)
                                THEN NoLocation ELSE a.locations[p]]
    BY Zenon DEF Lost
  <1> HIDE DEF where, left, b, m
  <1>4. b.lists = left /\ b.locations = where /\ SameRest(a, b)
    BY <1>1, Zenon DEF ArcState, SameRest
  <1>5. ASSUME left \in [Location -> Seq(Page)]
        PROVE  b \in ArcState
    BY <1>1, <1>2, <1>5, Zenon DEF ArcState
  <1>6. PrunedRecord(a, b, m[1], m[2])
    BY <1>3, <1>4, <1>5, Zenon DEF PrunedRecord, left
  <1> QED
    BY <1>6 DEF b, m

LEMMA SetOfList ==
  ASSUME NEW s \in Seq(Page)
  PROVE  \A q : q \in Range(s) <=> Occurs(s, q)
  BY DEF Range, Occurs

LEMMA PrefixKeeps ==
  ASSUME NEW s \in Seq(Page), Once(s), NEW m \in 0 .. Len(s), NEW t, t = SubSeq(s, 1, m)
  PROVE  /\ t \in Seq(Page) /\ Len(t) = m /\ Once(t)
         /\ \A q : Occurs(t, q) <=> Occurs(s, q) /\ ~ Lost(s, m, q)
  <1>1. /\ t \in Seq(Page) /\ Len(t) = m
        /\ \A i \in 1 .. m : t[i] = s[i] /\ i \in 1 .. Len(s)
    BY PartOfSeq
  <1>2. Once(t)
    BY <1>1 DEF Once
  <1>3. \A q : q \in Range(s) <=> Occurs(s, q)
    BY SetOfList
  <1>4. \A q : q \in Range(t) <=> Occurs(t, q)
    <2>1. t \in Seq(Page)
      BY <1>1
    <2> QED
      BY <2>1, SetOfList, Zenon
  <1>5. \A q : Occurs(t, q) => Occurs(s, q)
    BY <1>1 DEF Occurs
  <1> QED
    BY <1>1, <1>2, <1>3, <1>4, <1>5 DEF Lost

\* What prune_ghosts leaves: some ghosts are forgotten, and the others fit.
Pruned(a, b) ==
  /\ Consistent(b)
  /\ \A p \in Page : \/ b.locations[p] = a.locations[p]
                     \/ a.locations[p] \in {"B1", "B2"} /\ b.locations[p] = NoLocation
  /\ Size(b, "B1") + Size(b, "B2") <= Capacity
  /\ SameRest(a, b)

LEMMA PruneGhostsPrunes ==
  ASSUME NEW a, Consistent(a)
  PROVE  Pruned(a, PruneGhosts(a))
  <1> DEFINE n1 == Min({Capacity, Size(a, "B1")})
             n2 == Min({Capacity, Size(a, "B2")})
             m1 == Balanced[<<n1, n2>>][1]
             m2 == Balanced[<<n1, n2>>][2]
             s1 == a.lists["B1"]
             s2 == a.lists["B2"]
             b == PruneGhosts(a)
  <1>0. /\ a \in ArcState /\ a.lists \in [Location -> Seq(Page)]
        /\ \A l \in Location : a.lists[l] \in Seq(Page) /\ Once(a.lists[l])
        /\ a.locations \in [Page -> Location \cup {NoLocation}]
    BY ArcFields DEF Consistent
  <1>1. "B1" \in Location /\ "B2" \in Location /\ NoLocation \notin Location
    BY DEF Location, NoLocation
  <1>2. /\ s1 \in Seq(Page) /\ Once(s1) /\ Len(s1) \in Nat
        /\ s2 \in Seq(Page) /\ Once(s2) /\ Len(s2) \in Nat
    BY <1>0, <1>1
  <1>3. PrunedRecord(a, b, m1, m2)
    BY <1>0, PruneFields
  <1>4. n1 \in 0 .. Capacity /\ n1 <= Len(s1) /\ n2 \in 0 .. Capacity /\ n2 <= Len(s2)
    <2>1. n1 \in {Capacity, Len(s1)} /\ n1 <= Capacity /\ n1 <= Len(s1)
      BY <1>2, MinIsLeast DEF Size
    <2>2. n2 \in {Capacity, Len(s2)} /\ n2 <= Capacity /\ n2 <= Len(s2)
      BY <1>2, MinIsLeast, Zenon DEF Size
    <2> HIDE DEF n1, n2
    <2> QED
      BY <1>2, <2>1, <2>2
  <1>5. m1 \in 0 .. Len(s1) /\ m2 \in 0 .. Len(s2) /\ m1 + m2 <= Capacity
    <2> HIDE DEF n1, n2
    <2>1. Balanced[<<n1, n2>>] \in (0 .. n1) \X (0 .. n2) /\ m1 + m2 <= Capacity
      BY <1>4, BalancedFits
    <2>2. m1 \in 0 .. n1 /\ m2 \in 0 .. n2
      BY <2>1
    <2> HIDE DEF m1, m2
    <2> QED
      BY <1>2, <1>4, <2>1, <2>2
  <1> HIDE DEF b, m1, m2, n1, n2
  <1>6. /\ b.lists["B1"] = SubSeq(s1, 1, m1) /\ b.lists["B2"] = SubSeq(s2, 1, m2)
        /\ \A l \in Location \ {"B1", "B2"} : b.lists[l] = a.lists[l]
        /\ b.lists = [l \in Location |-> b.lists[l]]
    BY <1>0, <1>1, <1>3, Zenon DEF PrunedRecord
  <1>7. /\ \A p \in Page : b.locations[p] = IF Lost(s1, m1, p) \/ Lost(s2, m2, p)
                                            THEN NoLocation ELSE a.locations[p]
        /\ SameRest(a, b)
        /\ b.lists \in [Location -> Seq(Page)] => b \in ArcState
    BY <1>3, Zenon DEF PrunedRecord
  <1>8. /\ b.lists["B1"] \in Seq(Page) /\ Len(b.lists["B1"]) = m1 /\ Once(b.lists["B1"])
        /\ \A q : Occurs(b.lists["B1"], q) <=> Occurs(s1, q) /\ ~ Lost(s1, m1, q)
    BY <1>2, <1>5, <1>6, PrefixKeeps, ZenonT(30)
  <1>9. /\ b.lists["B2"] \in Seq(Page) /\ Len(b.lists["B2"]) = m2 /\ Once(b.lists["B2"])
        /\ \A q : Occurs(b.lists["B2"], q) <=> Occurs(s2, q) /\ ~ Lost(s2, m2, q)
    BY <1>2, <1>5, <1>6, PrefixKeeps, Zenon
  <1>10. /\ \A p \in Page : Lost(s1, m1, p) => a.locations[p] = "B1"
         /\ \A p \in Page : Lost(s2, m2, p) => a.locations[p] = "B2"
    <2>1. \A q : Lost(s1, m1, q) => Occurs(s1, q)
      BY <1>2, SetOfList DEF Lost
    <2>2. \A q : Lost(s2, m2, q) => Occurs(s2, q)
      BY <1>2, SetOfList DEF Lost
    <2> QED
      BY <1>1, <2>1, <2>2 DEF Consistent
  <1>11. ASSUME NEW l \in Location
         PROVE  /\ b.lists[l] \in Seq(Page) /\ Once(b.lists[l])
                /\ \A p \in Page : Occurs(b.lists[l], p) <=> b.locations[p] = l
    <2>0. \A p \in Page : Occurs(a.lists[l], p) <=> a.locations[p] = l
      BY DEF Consistent
    <2>1. CASE l = "B1"
      BY <1>1, <1>7, <1>8, <1>10, <2>0, <2>1, Zenon
    <2>2. CASE l = "B2"
      BY <1>1, <1>7, <1>9, <1>10, <2>0, <2>2, Zenon
    <2>3. CASE l \notin {"B1", "B2"}
      BY <1>0, <1>1, <1>6, <1>7, <1>10, <2>0, <2>3, Zenon
    <2> QED
      BY <2>1, <2>2, <2>3
  <1>12. b.lists \in [Location -> Seq(Page)]
    BY <1>6, <1>11
  <1>13. Consistent(b)
    BY <1>7, <1>11, <1>12 DEF Consistent
  <1>14. \A p \in Page : \/ b.locations[p] = a.locations[p]
                         \/ a.locations[p] \in {"B1", "B2"} /\ b.locations[p] = NoLocation
    BY <1>7, <1>10
  <1>15. Size(b, "B1") + Size(b, "B2") <= Capacity
    BY <1>5, <1>8, <1>9 DEF Size
  <1>16. Pruned(a, b)
    BY <1>7, <1>13, <1>14, <1>15 DEF Pruned
  <1> QED
    BY <1>16 DEF b

(***************************************************************************)
(* The calls of the policy.                                                *)
(***************************************************************************)
LEMMA MinMaxOfTwo ==
  ASSUME NEW x \in Int, NEW y \in Int
  PROVE  /\ Min({x, y}) = IF x <= y THEN x ELSE y
         /\ Max({x, y}) = IF x >= y THEN x ELSE y
  BY DEF Min, Max

\* Is p cached, as far as the policy knows?
Cached(a, p) == a.locations[p] \in {"T1", "T2"}

\* record_miss changes the target and the pending hit only.
Missed(a, b) ==
  /\ b \in ArcState
  /\ b.lists = a.lists
  /\ b.locations = a.locations
  /\ b.resident_frames = a.resident_frames

LEMMA DeltaType ==
  ASSUME NEW a \in ArcState, NEW k \in Location, NEW l \in Location
  PROVE  Delta(a, k, l) \in Nat
  <1>1. Size(a, k) \in Nat /\ Size(a, l) \in Nat
    <2>1. a.lists[k] \in Seq(Page) /\ a.lists[l] \in Seq(Page)
      BY ArcFields
    <2> QED
      BY <2>1 DEF Size
  <1> DEFINE d == Max({1, Size(a, l)})
             n == Size(a, k)
  <1>2. d \in Nat /\ d >= 1
    <2>1. 1 \in Int /\ Size(a, l) \in Int
      BY <1>1
    <2>2. d = IF 1 >= Size(a, l) THEN 1 ELSE Size(a, l)
      BY <2>1, MinMaxOfTwo, Zenon
    <2> QED
      BY <1>1, <2>2
  <1>3. Delta(a, k, l) = Max({1, n \div d})
    BY DEF Delta
  <1> HIDE DEF d, n
  <1>4. n \in Nat
    BY <1>1 DEF n
  <1>5. n \div d \in Nat
    BY <1>2, <1>4
  <1> QED
    BY <1>3, <1>5, MinMaxOfTwo

LEMMA RecordMissMisses ==
  ASSUME NEW a \in ArcState, NEW p \in Page
  PROVE  Missed(a, RecordMiss(a, p))
  <1> DEFINE b == [a EXCEPT !.pending_b2_hit = a.locations[p] = "B2"]
             up == Min({Capacity, a.target_recent + Delta(a, "B2", "B1")})
             down == Max({0, a.target_recent - Delta(a, "B1", "B2")})
  <1>0. "B1" \in Location /\ "B2" \in Location
    BY DEF Location
  <1>1. /\ b \in ArcState /\ b.lists = a.lists /\ b.locations = a.locations
        /\ b.resident_frames = a.resident_frames /\ b.target_recent = a.target_recent
    BY Zenon DEF ArcState
  <1>2. up \in 0 .. Capacity /\ down \in 0 .. Capacity
    <2>1. /\ a.target_recent \in 0 .. Capacity
          /\ Delta(a, "B2", "B1") \in Nat /\ Delta(a, "B1", "B2") \in Nat
      BY <1>0, ArcFields, DeltaType
    <2> DEFINE x == a.target_recent + Delta(a, "B2", "B1")
               y == a.target_recent - Delta(a, "B1", "B2")
    <2>2. x \in Nat /\ y \in Int /\ y <= Capacity /\ Capacity \in Int /\ 0 \in Int /\ x \in Int
      BY <2>1
    <2> HIDE DEF x, y
    <2>3. /\ Min({Capacity, x}) = IF Capacity <= x THEN Capacity ELSE x
          /\ Max({0, y}) = IF 0 >= y THEN 0 ELSE y
      BY <2>2, MinMaxOfTwo, Zenon
    <2>4. Min({Capacity, x}) \in 0 .. Capacity /\ Max({0, y}) \in 0 .. Capacity
      BY <2>2, <2>3
    <2> QED
      BY <2>4 DEF x, y
  <1>3. \/ RecordMiss(a, p) = [b EXCEPT !.target_recent = up]
        \/ RecordMiss(a, p) = [b EXCEPT !.target_recent = down]
        \/ RecordMiss(a, p) = b
    BY <1>1, Zenon DEF RecordMiss
  <1> HIDE DEF b, up, down
  <1>4. \A t \in 0 .. Capacity : Missed(a, [b EXCEPT !.target_recent = t])
    BY <1>1, Zenon DEF Missed, ArcState
  <1> QED
    BY <1>1, <1>2, <1>3, <1>4, Zenon DEF Missed

LEMMA MissedConsistent ==
  ASSUME NEW a, Consistent(a), NEW b, Missed(a, b)
  PROVE  Consistent(b) /\ Size(b, "B1") = Size(a, "B1") /\ Size(b, "B2") = Size(a, "B2")
  BY DEF Missed, Consistent, Size

\* The frame of a page is set.
Noted(a, b, p, f) ==
  /\ Consistent(b)
  /\ b.lists = a.lists /\ b.locations = a.locations
  /\ b.resident_frames = [a.resident_frames EXCEPT ![p] = f]

LEMMA FrameNoted ==
  ASSUME NEW a, Consistent(a), NEW p \in Page, NEW f \in Frame \cup {NoFrame}
  PROVE  Noted(a, [a EXCEPT !.resident_frames[p] = f], p, f)
  <1> DEFINE b == [a EXCEPT !.resident_frames[p] = f]
  <1>0. a \in ArcState
    BY DEF Consistent
  <1>1. /\ b.lists = a.lists /\ b.locations = a.locations
        /\ b.resident_frames = [a.resident_frames EXCEPT ![p] = f]
    BY <1>0, Zenon DEF ArcState
  <1>2. b.resident_frames \in [Page -> Frame \cup {NoFrame}]
    BY <1>0, <1>1, ArcFields
  <1>3. b \in ArcState
    BY <1>0, <1>1, <1>2, Zenon DEF ArcState
  <1> HIDE DEF b
  <1>4. Noted(a, b, p, f)
    BY <1>1, <1>3 DEF Consistent, Noted
  <1> QED
    BY <1>4 DEF b

\* b is a with page p cached in frame f, or, if f is NoFrame, not cached.
Updated(a, b, p, f) ==
  /\ Consistent(b)
  /\ Cached(b, p) <=> f # NoFrame
  /\ \A q \in Page \ {p} : Cached(b, q) <=> Cached(a, q)
  /\ b.resident_frames = [a.resident_frames EXCEPT ![p] = f]
  /\ Size(b, "B1") + Size(b, "B2") <= Capacity

\* A page that is placed and pruned.
LEMMA PlacedAndPruned ==
  ASSUME NEW a, Consistent(a), NEW b, NEW c, NEW p \in Page, NEW l \in Location,
         NEW f \in Frame \cup {NoFrame}, l \in {"T1", "T2"} <=> f # NoFrame,
         NEW d, Consistent(d), d.locations = a.locations,
         d.resident_frames = [a.resident_frames EXCEPT ![p] = f],
         Placed(d, b, p, l), Pruned(b, c)
  PROVE  Updated(a, c, p, f)
  <1>1. \A q \in Page : b.locations[q] = IF q = p THEN l ELSE a.locations[q]
    <2>1. d.locations \in [Page -> Location \cup {NoLocation}]
      BY ArcFields DEF Consistent
    <2> QED
      BY <2>1 DEF Placed
  <1>2. \A q \in Page : Cached(c, q) <=> Cached(b, q)
    BY DEF Pruned, Cached, NoLocation
  <1>3. Cached(b, p) <=> f # NoFrame
    BY <1>1 DEF Cached
  <1>4. \A q \in Page \ {p} : Cached(b, q) <=> Cached(a, q)
    BY <1>1 DEF Cached
  <1>5. c.resident_frames = [a.resident_frames EXCEPT ![p] = f]
    BY DEF Placed, Pruned, SameRest
  <1> QED
    BY <1>2, <1>3, <1>4, <1>5 DEF Pruned, Updated

LEMMA LoadUpdates ==
  ASSUME NEW a, Consistent(a), NEW p \in Page, ~ Cached(a, p), NEW f \in Frame
  PROVE  Updated(a, RecordLoad(a, p, f), p, f)
  <1> DEFINE d == [a EXCEPT !.resident_frames[p] = f]
             l == IF a.locations[p] \in {"B1", "B2"} THEN "T2" ELSE "T1"
             b == IF a.locations[p] \in {"B1", "B2"}
                  THEN Moved(d, p, a.locations[p], "T2") ELSE PushFront(d, p, "T1")
  <1>0. f \in Frame \cup {NoFrame} /\ f # NoFrame
    BY DEF Frame, NoFrame
  <1>1. /\ Consistent(d) /\ d.locations = a.locations
        /\ d.resident_frames = [a.resident_frames EXCEPT ![p] = f]
    <2>1. Noted(a, d, p, f)
      BY <1>0, FrameNoted, Zenon
    <2> QED
      BY <2>1, Zenon DEF Noted
  <1>2. RecordLoad(a, p, f) = PruneGhosts(b)
    BY Zenon DEF RecordLoad
  <1>3. "T1" \in Location /\ "T2" \in Location /\ "B1" \in Location /\ "B2" \in Location
    BY DEF Location
  <1>4. a.locations[p] \in Location \cup {NoLocation}
    BY ArcFields DEF Consistent
  <1> HIDE DEF d
  <1>5. Placed(d, b, p, l)
    <2>1. CASE a.locations[p] \in {"B1", "B2"}
      <3>1. a.locations[p] \in Location /\ a.locations[p] # "T2" /\ d.locations[p] = a.locations[p]
        BY <1>1, <1>3, <2>1
      <3>2. Placed(d, Moved(d, p, a.locations[p], "T2"), p, "T2")
        BY <1>1, <1>3, <3>1, MovedPlaces
      <3> QED
        BY <2>1, <3>2
    <2>2. CASE a.locations[p] \notin {"B1", "B2"}
      <3>1. d.locations[p] = NoLocation
        BY <1>1, <1>4, <2>2 DEF Cached, Location
      <3>2. Placed(d, PushFront(d, p, "T1"), p, "T1")
        BY <1>1, <1>3, <3>1, PushFrontPlaces
      <3> QED
        BY <2>2, <3>2
    <2> QED
      BY <2>1, <2>2
  <1>6. l \in Location /\ l \in {"T1", "T2"}
    BY <1>3
  <1> HIDE DEF b, l
  <1>7. Pruned(b, PruneGhosts(b))
    BY <1>5, PruneGhostsPrunes DEF Placed
  <1>8. Updated(a, PruneGhosts(b), p, f)
    BY <1>0, <1>1, <1>5, <1>6, <1>7, PlacedAndPruned
  <1> QED
    BY <1>2, <1>8

LEMMA EvictUpdates ==
  ASSUME NEW a, Consistent(a), NEW p \in Page, Cached(a, p)
  PROVE  Updated(a, RecordEvict(a, p), p, NoFrame)
  <1> DEFINE d == [a EXCEPT !.resident_frames[p] = NoFrame]
             l == IF a.locations[p] = "T1" THEN "B1" ELSE "B2"
             b == Moved(d, p, a.locations[p], l)
  <1>0. NoFrame \in Frame \cup {NoFrame}
    OBVIOUS
  <1>1. /\ Consistent(d) /\ d.locations = a.locations
        /\ d.resident_frames = [a.resident_frames EXCEPT ![p] = NoFrame]
    <2>1. Noted(a, d, p, NoFrame)
      BY <1>0, FrameNoted, Zenon
    <2> QED
      BY <2>1, Zenon DEF Noted
  <1>2. RecordEvict(a, p) = PruneGhosts(b)
    <2>1. CASE a.locations[p] = "T1"
      <3>1. RecordEvict(a, p) = PruneGhosts(Moved(d, p, "T1", "B1"))
        BY <2>1 DEF RecordEvict, NoLocation
      <3> QED
        BY <2>1, <3>1
    <2>2. CASE a.locations[p] = "T2"
      <3>1. RecordEvict(a, p) = PruneGhosts(Moved(d, p, "T2", "B2"))
        BY <2>2 DEF RecordEvict, NoLocation
      <3> QED
        BY <2>2, <3>1
    <2> QED
      BY <2>1, <2>2 DEF Cached
  <1>3. /\ a.locations[p] \in Location /\ l \in Location /\ a.locations[p] # l
        /\ ~ (l \in {"T1", "T2"})
    BY DEF Location, Cached
  <1> HIDE DEF d, l
  <1>4. Placed(d, b, p, l)
    BY <1>1, <1>3, MovedPlaces
  <1> HIDE DEF b
  <1>5. Pruned(b, PruneGhosts(b))
    BY <1>4, PruneGhostsPrunes DEF Placed
  <1>6. Updated(a, PruneGhosts(b), p, NoFrame)
    BY <1>0, <1>1, <1>3, <1>4, <1>5, PlacedAndPruned
  <1> QED
    BY <1>2, <1>6

LEMMA AccessUpdates ==
  ASSUME NEW a, Consistent(a), NEW p \in Page, Cached(a, p), NEW f \in Frame,
         Size(a, "B1") + Size(a, "B2") <= Capacity
  PROVE  Updated(a, RecordAccess(a, p, f), p, f)
  <1> DEFINE d == [a EXCEPT !.resident_frames[p] = f]
             b == IF a.locations[p] = "T1" THEN Moved(d, p, "T1", "T2") ELSE PushFront(d, p, "T2")
  <1>0. f \in Frame \cup {NoFrame} /\ f # NoFrame
    BY DEF Frame, NoFrame
  <1>1. /\ Consistent(d) /\ d.locations = a.locations /\ d.lists = a.lists
        /\ d.resident_frames = [a.resident_frames EXCEPT ![p] = f]
    <2>1. Noted(a, d, p, f)
      BY <1>0, FrameNoted, Zenon
    <2> QED
      BY <2>1, Zenon DEF Noted
  <1>2. RecordAccess(a, p, f) = b
    <2>1. CASE a.locations[p] = "T1"
      <3>1. RecordAccess(a, p, f) = Moved(d, p, "T1", "T2")
        BY <2>1 DEF RecordAccess, NoLocation
      <3> QED
        BY <2>1, <3>1
    <2>2. CASE a.locations[p] = "T2"
      <3>1. RecordAccess(a, p, f) = PushFront(d, p, "T2")
        BY <2>2 DEF RecordAccess, NoLocation
      <3> QED
        BY <2>2, <3>1
    <2> QED
      BY <2>1, <2>2 DEF Cached
  <1>3. "T1" \in Location /\ "T2" \in Location /\ "B1" \in Location /\ "B2" \in Location
    BY DEF Location
  <1> HIDE DEF d
  <1>4. Placed(d, b, p, "T2")
    <2>1. CASE a.locations[p] = "T1"
      <3>1. Placed(d, Moved(d, p, "T1", "T2"), p, "T2")
        BY <1>1, <1>3, <2>1, MovedPlaces
      <3> QED
        BY <2>1, <3>1
    <2>2. CASE a.locations[p] = "T2"
      <3>1. Placed(d, PushFront(d, p, "T2"), p, "T2")
        BY <1>1, <1>3, <2>2, PushFrontPlaces
      <3> QED
        BY <2>2, <3>1
    <2> QED
      BY <2>1, <2>2 DEF Cached
  <1> HIDE DEF b
  <1>5. \A q \in Page : b.locations[q] = IF q = p THEN "T2" ELSE a.locations[q]
    <2>1. d.locations \in [Page -> Location \cup {NoLocation}]
      BY <1>1, ArcFields DEF Consistent
    <2> QED
      BY <1>1, <1>4, <2>1 DEF Placed
  <1>6. /\ Cached(b, p)
        /\ \A q \in Page \ {p} : Cached(b, q) <=> Cached(a, q)
    BY <1>5 DEF Cached
  <1>7. b.lists["B1"] = a.lists["B1"] /\ b.lists["B2"] = a.lists["B2"]
    BY <1>1, <1>3, <1>4 DEF Placed, Cached
  <1>8. b.resident_frames = [a.resident_frames EXCEPT ![p] = f]
    BY <1>1, <1>4 DEF Placed, SameRest
  <1>9. Updated(a, b, p, f)
    BY <1>0, <1>4, <1>6, <1>7, <1>8, Zenon DEF Updated, Placed, Size
  <1> QED
    BY <1>2, <1>9

(***************************************************************************)
(* The policy and the pool: what the policy holds to be cached is what the *)
(* frames r hold.                                                          *)
(***************************************************************************)
Tracks(a, r) ==
  /\ \A p \in Page : (\E f \in Frame : r[f] = p) <=> Cached(a, p)
  /\ \A f \in Frame, p \in Page : a.resident_frames[p] = f <=> r[f] = p

LEMMA TracksUpdate ==
  ASSUME NEW a, Consistent(a), NEW r \in [Frame -> Page \cup {NoPage}], Tracks(a, r),
         NEW f \in Frame, NEW p \in Page, r[f] \in {NoPage, p}, NEW b
  PROVE  /\ Updated(a, b, p, f) /\ (\A g \in Frame \ {f} : r[g] # p) => Tracks(b, [r EXCEPT ![f] = p])
         /\ Updated(a, b, p, NoFrame) /\ r[f] = p => Tracks(b, [r EXCEPT ![f] = NoPage])
  <1>0. a.resident_frames \in [Page -> Frame \cup {NoFrame}] /\ NoFrame \notin Frame
    BY ArcFields DEF Consistent, NoFrame, Frame
  <1>1. ASSUME Updated(a, b, p, f), \A g \in Frame \ {f} : r[g] # p
        PROVE  Tracks(b, [r EXCEPT ![f] = p])
    <2> DEFINE s == [r EXCEPT ![f] = p]
    <2>1. \A g \in Frame : s[g] = IF g = f THEN p ELSE r[g]
      OBVIOUS
    <2>2. \A q \in Page : b.resident_frames[q] = IF q = p THEN f ELSE a.resident_frames[q]
      BY <1>0, <1>1 DEF Updated
    <2> HIDE DEF s
    <2>3. ASSUME NEW g \in Frame, NEW q \in Page
          PROVE  b.resident_frames[q] = g <=> s[g] = q
      BY <1>1, <2>1, <2>2 DEF Tracks
    <2>4. ASSUME NEW q \in Page
          PROVE  (\E g \in Frame : s[g] = q) <=> Cached(b, q)
      <3>1. CASE q = p
        BY <1>0, <1>1, <2>1, <3>1 DEF Updated
      <3>2. CASE q # p
        BY <1>1, <2>1, <3>2 DEF Updated, Tracks
      <3> QED
        BY <3>1, <3>2
    <2>5. Tracks(b, s)
      BY <2>3, <2>4 DEF Tracks
    <2> QED
      BY <2>5 DEF s
  <1>2. ASSUME Updated(a, b, p, NoFrame), r[f] = p
        PROVE  Tracks(b, [r EXCEPT ![f] = NoPage])
    <2> DEFINE s == [r EXCEPT ![f] = NoPage]
    <2>1. \A g \in Frame : s[g] = IF g = f THEN NoPage ELSE r[g]
      OBVIOUS
    <2>2. \A q \in Page : b.resident_frames[q] = IF q = p THEN NoFrame ELSE a.resident_frames[q]
      BY <1>0, <1>2 DEF Updated
    <2>3. \A g \in Frame : r[g] = p => g = f
      BY <1>2 DEF Tracks
    <2> HIDE DEF s
    <2>4. ASSUME NEW g \in Frame, NEW q \in Page
          PROVE  b.resident_frames[q] = g <=> s[g] = q
      BY <1>0, <1>2, <2>1, <2>2, <2>3 DEF Tracks
    <2>5. ASSUME NEW q \in Page
          PROVE  (\E g \in Frame : s[g] = q) <=> Cached(b, q)
      <3>1. CASE q = p
        BY <1>2, <2>1, <2>3, <3>1 DEF Updated
      <3>2. CASE q # p
        BY <1>2, <2>1, <3>2 DEF Updated, Tracks
      <3> QED
        BY <3>1, <3>2
    <2>6. Tracks(b, s)
      BY <2>4, <2>5 DEF Tracks
    <2> QED
      BY <2>6 DEF s
  <1> QED
    BY <1>1, <1>2

LEMMA ChosenFromLru ==
  ASSUME NEW a, Consistent(a), NEW l \in Location
  PROVE  /\ ChooseFromLru(a, l) \in Evictable \/ ChooseFromLru(a, l) = NoFrame
         /\ \A p \in Page : a.locations[p] = l /\ a.resident_frames[p] \in Evictable
              => ChooseFromLru(a, l) \in Evictable
  <1> DEFINE s == a.lists[l]
             usable == {i \in 1 .. Size(a, l) : a.resident_frames[s[i]] \in Evictable}
  <1>1. s \in Seq(Page) /\ Len(s) \in Nat /\ Size(a, l) = Len(s)
    BY ArcFields DEF Consistent, Size
  <1>2. ChooseFromLru(a, l) = IF usable = {} THEN NoFrame ELSE a.resident_frames[s[Max(usable)]]
    BY DEF ChooseFromLru
  <1>3. usable # {} => ChooseFromLru(a, l) \in Evictable
    <2>1. usable \in SUBSET (0 .. Len(s))
      BY <1>1
    <2>2. \A i \in usable : a.resident_frames[s[i]] \in Evictable
      OBVIOUS
    <2> HIDE DEF usable
    <2>3. usable # {} => Max(usable) \in usable
      BY <1>1, <2>1, MaxIsGreatest, Zenon
    <2> QED
      BY <1>2, <2>2, <2>3
  <1>4. ASSUME NEW p \in Page, a.locations[p] = l, a.resident_frames[p] \in Evictable
        PROVE  usable # {}
    <2>1. Occurs(s, p)
      BY <1>4 DEF Consistent
    <2> QED
      BY <1>1, <1>4, <2>1 DEF Occurs
  <1> HIDE DEF usable
  <1> QED
    BY <1>2, <1>3, <1>4

LEMMA VictimChosen ==
  ASSUME PoolTypeOK, NEW a, Consistent(a), Tracks(a, resident)
  PROVE  IF Evictable = {} THEN ChooseVictim(a) = NoFrame ELSE ChooseVictim(a) \in Evictable
  <1> DEFINE recent == ChooseFromLru(a, "T1")
             frequent == ChooseFromLru(a, "T2")
  <1>0. "T1" \in Location /\ "T2" \in Location /\ NoFrame \notin Evictable
    BY DEF Location, NoFrame, Evictable, Frame
  <1>1. /\ recent \in Evictable \/ recent = NoFrame
        /\ frequent \in Evictable \/ frequent = NoFrame
    BY <1>0, ChosenFromLru
  <1>2. ChooseVictim(a) \in {recent, frequent} /\ (recent = NoFrame => ChooseVictim(a) = frequent)
    BY DEF ChooseVictim
  <1>3. recent # NoFrame /\ frequent = NoFrame => ChooseVictim(a) = recent
    BY DEF ChooseVictim
  <1>4. ASSUME NEW f \in Evictable
        PROVE  recent \in Evictable \/ frequent \in Evictable
    <2> DEFINE p == resident[f]
    <2>1. f \in Frame /\ p \in Page
      BY DEF Evictable, PoolTypeOK
    <2>2. a.resident_frames[p] = f /\ Cached(a, p)
      BY <2>1 DEF Tracks
    <2> HIDE DEF p
    <2> QED
      BY <1>0, <2>1, <2>2, ChosenFromLru DEF Cached
  <1> HIDE DEF recent, frequent
  <1> QED
    BY <1>0, <1>1, <1>2, <1>3, <1>4

(***************************************************************************)
(* The invariant.                                                          *)
(***************************************************************************)
ArcInv ==
  /\ PoolTypeOK
  /\ Consistent(arc)
  /\ Tracks(arc, resident)
  /\ Size(arc, "B1") + Size(arc, "B2") <= Capacity

LEMMA MissTracks ==
  ASSUME ArcInv, NEW p \in Page
  PROVE  /\ Consistent(RecordMiss(arc, p))
         /\ Tracks(RecordMiss(arc, p), resident)
         /\ Size(RecordMiss(arc, p), "B1") + Size(RecordMiss(arc, p), "B2") <= Capacity
  <1> DEFINE b == RecordMiss(arc, p)
  <1>1. Missed(arc, b)
    BY RecordMissMisses DEF ArcInv, Consistent
  <1> HIDE DEF b
  <1>2. Consistent(b) /\ Size(b, "B1") = Size(arc, "B1") /\ Size(b, "B2") = Size(arc, "B2")
    BY <1>1, MissedConsistent DEF ArcInv
  <1>3. Tracks(b, resident)
    BY <1>1 DEF ArcInv, Tracks, Cached, Missed
  <1> QED
    BY <1>2, <1>3 DEF ArcInv, b

LEMMA ArcHitStep ==
  ASSUME ArcInv, NEW f \in Frame, ArcHit(f)
  PROVE  ArcInv'
  <1> DEFINE p == resident[f]
  <1>1. /\ resident' = resident /\ p # NoPage
        /\ pins[f] < MaxPins /\ pins' = [pins EXCEPT ![f] = pins[f] + 1]
        /\ arc' = RecordAccess(arc, p, f)
    BY DEF ArcHit, PoolHit
  <1>2. PoolTypeOK'
    BY <1>1 DEF ArcInv, PoolTypeOK
  <1>3. p \in Page /\ resident \in [Frame -> Page \cup {NoPage}] /\ [resident EXCEPT ![f] = p] = resident
    BY <1>1 DEF ArcInv, PoolTypeOK
  <1>4. Cached(arc, p) /\ \A g \in Frame \ {f} : resident[g] # p
    BY <1>3 DEF ArcInv, Tracks
  <1>5. resident[f] = p
    OBVIOUS
  <1> HIDE DEF p
  <1>6. Updated(arc, arc', p, f)
    BY <1>1, <1>3, <1>4, AccessUpdates DEF ArcInv
  <1>7. Tracks(arc', resident)
    <2>1. Consistent(arc) /\ Tracks(arc, resident) /\ resident[f] \in {NoPage, p}
      BY <1>5 DEF ArcInv
    <2>2. Tracks(arc', [resident EXCEPT ![f] = p])
      BY <1>3, <1>4, <1>6, <2>1, TracksUpdate, Zenon
    <2> QED
      BY <1>3, <2>2, Zenon
  <1> QED
    BY <1>1, <1>2, <1>6, <1>7, Zenon DEF ArcInv, Updated, Size

LEMMA ArcUnpinStep ==
  ASSUME ArcInv, NEW f \in Frame, ArcUnpin(f)
  PROVE  ArcInv'
  <1>1. /\ resident' = resident /\ arc' = arc
        /\ pins[f] > 0 /\ pins' = [pins EXCEPT ![f] = pins[f] - 1]
    BY DEF ArcUnpin, PoolUnpin
  <1>2. PoolTypeOK'
    BY <1>1 DEF ArcInv, PoolTypeOK
  <1> QED
    BY <1>1, <1>2, Zenon DEF ArcInv, Size

\* Page p, which is not cached, is loaded into an empty frame of the pool r.
LEMMA LoadTracks ==
  ASSUME NEW a, Consistent(a), NEW r \in [Frame -> Page \cup {NoPage}], Tracks(a, r),
         NEW f \in Frame, r[f] = NoPage, NEW p \in Page, \A g \in Frame : r[g] # p
  PROVE  /\ Consistent(RecordLoad(a, p, f))
         /\ Tracks(RecordLoad(a, p, f), [r EXCEPT ![f] = p])
         /\ Size(RecordLoad(a, p, f), "B1") + Size(RecordLoad(a, p, f), "B2") <= Capacity
  <1>1. ~ Cached(a, p)
    BY DEF Tracks
  <1>2. Updated(a, RecordLoad(a, p, f), p, f)
    BY <1>1, LoadUpdates
  <1>3. r[f] \in {NoPage, p} /\ \A g \in Frame \ {f} : r[g] # p
    OBVIOUS
  <1>4. Tracks(RecordLoad(a, p, f), [r EXCEPT ![f] = p])
    BY <1>2, <1>3, TracksUpdate, Zenon
  <1> QED
    BY <1>2, <1>4 DEF Updated

LEMMA ArcLoadUnusedStep ==
  ASSUME ArcInv, NEW p \in Page, ArcLoadUnused(p)
  PROVE  ArcInv'
  <1> DEFINE f == Min(Invalid)
             a == RecordMiss(arc, p)
  <1>1. /\ ~ Asked /\ p \notin Resident
        /\ resident' = [resident EXCEPT ![f] = p] /\ pins' = [pins EXCEPT ![f] = 1]
        /\ arc' = RecordLoad(a, p, f)
    BY Zenon DEF ArcLoadUnused, PoolLoad
  <1>2. f \in Frame /\ resident[f] = NoPage
    BY <1>1, UnusedFrame
  <1>3. Consistent(a) /\ Tracks(a, resident)
    BY MissTracks
  <1> HIDE DEF f, a
  <1>4. PoolTypeOK'
    BY <1>1, <1>2, LoadTypeOK, Zenon DEF ArcInv
  <1>5. resident \in [Frame -> Page \cup {NoPage}] /\ \A g \in Frame : resident[g] # p
    BY <1>1 DEF ArcInv, PoolTypeOK, Resident
  <1>6. /\ Consistent(arc') /\ Tracks(arc', resident')
        /\ Size(arc', "B1") + Size(arc', "B2") <= Capacity
    BY <1>1, <1>2, <1>3, <1>5, LoadTracks, Zenon
  <1> QED
    BY <1>4, <1>6, Zenon DEF ArcInv, Size

LEMMA ArcEvictStep ==
  ASSUME ArcInv, NEW p \in Page, ArcEvict(p)
  PROVE  ArcInv'
  <1> DEFINE a == RecordMiss(arc, p)
             v == ChooseVictim(a)
             o == resident[v]
             b == RecordEvict(a, o)
             r == [resident EXCEPT ![v] = NoPage]
  <1>1. /\ Asked /\ p \notin Resident /\ v # NoFrame
        /\ resident' = [resident EXCEPT ![v] = p] /\ pins' = [pins EXCEPT ![v] = 1]
        /\ arc' = RecordLoad(b, p, v)
    BY Zenon DEF ArcEvict, PoolLoad
  <1>2. Consistent(a) /\ Tracks(a, resident)
    BY MissTracks
  <1> HIDE DEF a
  <1>3. v \in Evictable
    BY <1>1, <1>2, VictimChosen DEF ArcInv
  <1> HIDE DEF v
  <1>4. /\ v \in Frame /\ o \in Page /\ resident \in [Frame -> Page \cup {NoPage}]
        /\ resident[v] = o
        /\ \A g \in Frame : resident[g] # p
    BY <1>1, <1>3 DEF Evictable, ArcInv, PoolTypeOK, Resident
  <1>5. PoolTypeOK'
    BY <1>1, <1>4, LoadTypeOK, Zenon DEF ArcInv
  <1>6. Cached(a, o)
    BY <1>2, <1>4 DEF Tracks
  <1> HIDE DEF o
  <1>7. Updated(a, b, o, NoFrame)
    BY <1>2, <1>4, <1>6, EvictUpdates
  <1> HIDE DEF b
  <1>8. Consistent(b) /\ Tracks(b, r)
    <2>1. resident[v] \in {NoPage, o}
      BY <1>4
    <2>2. Tracks(b, r)
      BY <1>2, <1>4, <1>7, <2>1, TracksUpdate, Zenon
    <2> QED
      BY <1>7, <2>2 DEF Updated
  <1>9. /\ r \in [Frame -> Page \cup {NoPage}] /\ r[v] = NoPage
        /\ \A g \in Frame : r[g] # p
        /\ resident' = [r EXCEPT ![v] = p]
    BY <1>1, <1>4
  <1> HIDE DEF r
  <1>10. /\ Consistent(arc') /\ Tracks(arc', resident')
         /\ Size(arc', "B1") + Size(arc', "B2") <= Capacity
    <2> DEFINE c == RecordLoad(b, p, v)
    <2>1. /\ Consistent(c) /\ Tracks(c, [r EXCEPT ![v] = p])
          /\ Size(c, "B1") + Size(c, "B2") <= Capacity
      BY <1>4, <1>8, <1>9, LoadTracks, Zenon
    <2>2. arc' = c /\ resident' = [r EXCEPT ![v] = p]
      BY <1>1, <1>9, Zenon
    <2> QED
      BY <2>1, <2>2, Zenon
  <1> QED
    BY <1>5, <1>10, Zenon DEF ArcInv, Size

LEMMA ArcMissFailsStep ==
  ASSUME ArcInv, NEW p \in Page, MissFails(p)
  PROVE  ArcInv'
  <1> DEFINE a == RecordMiss(arc, p)
  <1>1. arc' = a /\ resident' = resident /\ pins' = pins
    BY DEF MissFails, poolVars
  <1>2. Consistent(a) /\ Tracks(a, resident) /\ Size(a, "B1") + Size(a, "B2") <= Capacity
    BY MissTracks
  <1> HIDE DEF a
  <1>3. PoolTypeOK'
    BY <1>1 DEF ArcInv, PoolTypeOK
  <1> QED
    BY <1>1, <1>2, <1>3, Zenon DEF ArcInv, Size

LEMMA ArcInitially ==
  ASSUME ArcInit
  PROVE  ArcInv
  <1>1. /\ resident = [f \in Frame |-> NoPage] /\ pins = [f \in Frame |-> 0]
        /\ arc = [lists |-> [l \in Location |-> <<>>],
                  locations |-> [p \in Page |-> NoLocation],
                  resident_frames |-> [p \in Page |-> NoFrame],
                  target_recent |-> 0,
                  pending_b2_hit |-> FALSE]
    BY DEF ArcInit, PoolInit
  <1>2. PoolTypeOK
    BY <1>1 DEF PoolTypeOK
  <1>3. /\ arc.lists = [l \in Location |-> <<>>] /\ arc.locations = [p \in Page |-> NoLocation]
        /\ arc.resident_frames = [p \in Page |-> NoFrame]
    BY <1>1
  <1>4. arc \in ArcState
    <2>1. /\ [l \in Location |-> <<>>] \in [Location -> Seq(Page)]
          /\ 0 \in 0 .. Capacity
      OBVIOUS
    <2> QED
      BY <1>1, <2>1, Zenon DEF ArcState
  <1>5. \A l \in Location : arc.lists[l] = <<>> /\ Len(arc.lists[l]) = 0
    BY <1>3
  <1>6. "B1" \in Location /\ "B2" \in Location /\ NoLocation \notin Location /\ NoFrame \notin Frame
        /\ NoLocation \notin {"T1", "T2"}
    BY DEF Location, NoLocation, NoFrame, Frame
  <1>7. Consistent(arc)
    BY <1>3, <1>4, <1>5, <1>6 DEF Consistent, Once, Occurs
  <1>8. Tracks(arc, resident)
    BY <1>1, <1>3, <1>6 DEF Tracks, Cached
  <1>9. Size(arc, "B1") + Size(arc, "B2") <= Capacity
    <2>1. Len(arc.lists["B1"]) = 0 /\ Len(arc.lists["B2"]) = 0
      BY <1>5, <1>6
    <2> QED
      BY <2>1 DEF Size
  <1> QED
    BY <1>2, <1>7, <1>8, <1>9 DEF ArcInv

LEMMA ArcNextStep ==
  ASSUME ArcInv, ArcNext
  PROVE  ArcInv'
  BY ArcHitStep, ArcUnpinStep, ArcLoadUnusedStep, ArcEvictStep, ArcMissFailsStep DEF ArcNext

LEMMA ArcStutters ==
  ASSUME ArcInv, UNCHANGED <<poolVars, arc>>
  PROVE  ArcInv'
  BY Zenon DEF poolVars, ArcInv, PoolTypeOK, Size

LEMMA ArcLists ==
  ASSUME ArcInv
  PROVE  ArcListsMatchPool
  <1>1. ASSUME NEW l \in Location, NEW p \in Page
        PROVE  Cardinality({i \in 1 .. Size(arc, l) : arc.lists[l][i] = p}) =
                 IF arc.locations[p] = l THEN 1 ELSE 0
    <2> DEFINE I == {i \in 1 .. Size(arc, l) : arc.lists[l][i] = p}
    <2>1. Once(arc.lists[l]) /\ (Occurs(arc.lists[l], p) <=> arc.locations[p] = l)
      BY DEF ArcInv, Consistent
    <2>2. CASE arc.locations[p] = l
      <3>1. PICK i \in 1 .. Len(arc.lists[l]) : arc.lists[l][i] = p
        BY <2>1, <2>2 DEF Occurs
      <3>2. I = {i}
        BY <2>1, <3>1 DEF Once, Size
      <3> HIDE DEF I
      <3>3. Cardinality(I) = 1
        BY <3>2, FS_Singleton, Zenon
      <3> QED
        BY <2>2, <3>3 DEF I
    <2>3. CASE arc.locations[p] # l
      <3>1. I = {}
        BY <2>1, <2>3 DEF Occurs, Size
      <3> HIDE DEF I
      <3>2. Cardinality(I) = 0
        BY <3>1, FS_EmptySet, Zenon
      <3> QED
        BY <2>3, <3>2 DEF I
    <2> QED
      BY <2>2, <2>3
  <1>2. \A p \in Page : p \in Resident <=> arc.locations[p] \in {"T1", "T2"}
    BY DEF ArcInv, Tracks, Cached, Resident
  <1>3. \A f \in Frame, p \in Page : arc.resident_frames[p] = f <=> resident[f] = p
    BY DEF ArcInv, Tracks
  <1>4. Size(arc, "B1") + Size(arc, "B2") <= Capacity
    BY DEF ArcInv
  <1> QED
    BY <1>1, <1>2, <1>3, <1>4, Zenon DEF ArcListsMatchPool

LEMMA ArcFull ==
  ASSUME ArcInv
  PROVE  ArcFullOnlyIfAllPinned
  <1>1. ASSUME NEW p \in Page
        PROVE  IF Evictable = {} THEN ChooseVictim(RecordMiss(arc, p)) = NoFrame
               ELSE ChooseVictim(RecordMiss(arc, p)) \in Evictable
    <2>1. Consistent(RecordMiss(arc, p)) /\ Tracks(RecordMiss(arc, p), resident)
      BY MissTracks
    <2> QED
      BY <2>1, VictimChosen DEF ArcInv
  <1> QED
    BY <1>1, Zenon DEF ArcFullOnlyIfAllPinned

LEMMA ArcTyped ==
  ASSUME ArcInv
  PROVE  ArcTypeOK
  BY ArcFields DEF ArcInv, Consistent, ArcTypeOK
=============================================================================
