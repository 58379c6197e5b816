-------------------------- MODULE HeapEngineProofs --------------------------
(***************************************************************************)
(* HeapEngine for every number of threads and pages, every page size and   *)
(* every set of tuples: scans are exact, and a tuple id names one tuple.   *)
(***************************************************************************)
EXTENDS HeapEngine, HeapPageProofs, WellFoundedInduction

USE PageSizeAssumption, TupleAssumption, NoneAssumption, EnginePageSizeAssumption,
    MaxPagesAssumption
    DEF PAGE_HEADER_SIZE, SLOT_SIZE, MAX_U16

(***************************************************************************)
(* The inductive invariant.                                                *)
(***************************************************************************)
HeapPages ==
  {pg \in [slots : Seq(Slot), free_start : Nat, free_end : Nat,
           bytes : UNION {[lo .. PageSize - 1 -> Byte] : lo \in 0 .. PageSize}] :
     WellFormed(pg)}

TupleIds == [page_id : Nat, slot_idx : Nat]

Cursors == [page : Nat, slot : Nat, seen : Seq(TupleIds), due : SUBSET TupleIds,
            done : BOOLEAN]

\* What a cursor has passed and what it has yet to reach: the ids it returned
\* lie before it, and a tuple that is due was returned or lies ahead.
CursorInv(c) ==
  /\ c \in Cursors
  /\ c.page <= MaxPages
  /\ \A i, j \in 1 .. Len(c.seen) : c.seen[i] = c.seen[j] => i = j
  /\ \A i \in 1 .. Len(c.seen) : ~ AtOrAfter(c.seen[i], c)
  /\ \A id \in c.due : \/ \E i \in 1 .. Len(c.seen) : c.seen[i] = id
                       \/ ~ c.done /\ AtOrAfter(id, c)

ScanInv ==
  \A t \in Thread :
    scan[t] # None => CursorInv(scan[t]) /\ scan[t].due \subseteq LiveIds

StoreInv ==
  /\ pages \in Seq(HeapPages)
  /\ file \in Seq(HeapPages)
  /\ Len(file) = Len(pages)
  /\ Len(pages) <= MaxPages

EngineInv ==
  /\ opened \in BOOLEAN
  /\ vouched \in BOOLEAN
  /\ pending \in [Thread -> Tuple \cup {None}]
  /\ DOMAIN scan = Thread
  /\ torn \subseteq 0 .. MaxPages - 1
  /\ StoreInv
  /\ ScanInv

(***************************************************************************)
(* Least elements.                                                         *)
(***************************************************************************)
LEMMA LeastNatural ==
  ASSUME NEW S \in SUBSET Nat, S # {}
  PROVE  \E n \in S : \A m \in S : n <= m
  <1> DEFINE R == OpToRel(<, Nat)
  <1>0. R = {ss \in Nat \X Nat : ss[1] < ss[2]}
    BY DEF OpToRel
  <1>1. PICK n \in S : \A m \in S : ~ (<<m, n>> \in R)
    BY NatLessThanWellFounded, WFMin, Zenon
  <1> HIDE DEF R
  <1>2. ASSUME NEW m \in S PROVE ~ (m < n)
    BY <1>0, <1>1, Zenon
  <1> QED
    BY <1>2

LEMMA MinIsMember ==
  ASSUME NEW S \in SUBSET Nat, S # {}
  PROVE  Min(S) \in S
  BY LeastNatural, Zenon DEF Min

LEMMA MaxOfTwo ==
  ASSUME NEW a \in Nat, NEW b \in Nat
  PROVE  Max({a, b}) \in {a, b} /\ Max({a, b}) >= a /\ Max({a, b}) >= b
  <1>1. \E x \in {a, b} : \A y \in {a, b} : x >= y
    OBVIOUS
  <1> QED
    BY <1>1, Zenon DEF Max

(***************************************************************************)
(* The pages and the tuples in them.                                       *)
(***************************************************************************)

LEMMA HeapPageMember ==
  ASSUME NEW pg, WellFormed(pg)
  PROVE  pg \in HeapPages
  <1>1. CASE pg = ZeroPage
    <2>1. <<>> \in [PageSize .. PageSize - 1 -> Byte] /\ PageSize \in 0 .. PageSize
      OBVIOUS
    <2> QED
      BY <1>1, <2>1 DEF HeapPages, ZeroPage
  <1>2. CASE Formatted(pg)
    <2>1. /\ pg = [slots |-> pg.slots, free_start |-> pg.free_start,
                   free_end |-> pg.free_end, bytes |-> pg.bytes]
          /\ pg.slots \in Seq(Slot) /\ pg.free_end \in 0 .. PageSize
          /\ pg.bytes \in [pg.free_end .. PageSize - 1 -> Byte]
          /\ pg.free_start \in Nat
      BY <1>2 DEF Formatted, SlotCount
    <2> QED
      BY <2>1 DEF HeapPages
  <1> QED
    BY <1>1, <1>2 DEF WellFormed

LEMMA HeapPageWellFormed ==
  ASSUME NEW pg \in HeapPages
  PROVE  WellFormed(pg)
  BY DEF HeapPages

Live(id) ==
  /\ id \in TupleIds
  /\ id.page_id \in PageIds
  /\ id.slot_idx \in Slots(pages[id.page_id + 1])
  /\ IsLiveSlot(pages[id.page_id + 1], id.slot_idx)

LiveIdsAreLive == \A id : id \in LiveIds <=> Live(id)

LEMMA LiveIdsCharacterized ==
  StoreInv => LiveIdsAreLive
  <1> SUFFICES ASSUME StoreInv, NEW id
               PROVE  id \in LiveIds <=> Live(id)
    BY DEF LiveIdsAreLive
  <1>1. ASSUME id \in LiveIds PROVE Live(id)
    <2>0. PICK p \in PageIds :
            \E r \in Slots(pages[p + 1]) : IsLiveSlot(pages[p + 1], r) /\ id = TupleId(p, r)
      BY <1>1 DEF LiveIds, Slots
    <2>1. PICK r \in Slots(pages[p + 1]) : IsLiveSlot(pages[p + 1], r) /\ id = TupleId(p, r)
      BY <2>0
    <2>2. p \in Nat /\ WellFormed(pages[p + 1])
      BY HeapPageWellFormed DEF StoreInv, PageIds
    <2>3. r \in Nat
      BY <2>2, SlotType DEF Slots
    <2> QED
      BY <2>1, <2>2, <2>3 DEF Live, TupleId, TupleIds
  <1>2. ASSUME Live(id) PROVE id \in LiveIds
    <2>1. id = TupleId(id.page_id, id.slot_idx)
      BY <1>2 DEF Live, TupleIds, TupleId
    <2> QED
      BY <1>2, <2>1 DEF Live, LiveIds, Slots
  <1> QED
    BY <1>1, <1>2

LEMMA LiveIdsCharacterizedAfter ==
  StoreInv' => LiveIdsAreLive'
  BY LiveIdsCharacterized, PTL

\* What a call may do to the tuples there are: a slot stays, a live one keeps
\* its bytes, and a free one is not used again.
PagesKept ==
  \A p \in PageIds : \A s \in 0 .. SlotCount(pages[p + 1]) - 1 :
    /\ s < SlotCount(pages'[p + 1])
    /\ IsLiveSlot(pages'[p + 1], s) =>
         /\ IsLiveSlot(pages[p + 1], s)
         /\ ReadTuple(pages'[p + 1], s) = ReadTuple(pages[p + 1], s)

\* Every page is still there, and every slot of it stands for what it did.
PagesGrow ==
  \A p \in PageIds :
    /\ p \in PageIds'
    /\ \A s \in Slots(pages[p + 1]) : /\ s \in Slots(pages'[p + 1])
                                      /\ SameTuple(pages[p + 1], pages'[p + 1], s)

LEMMA GrowingKeepsTuples ==
  ASSUME StoreInv, StoreInv', PagesGrow
  PROVE  PagesKept /\ LiveIds \subseteq LiveIds'
  <1>1. ASSUME NEW p \in PageIds, NEW s \in Slots(pages[p + 1])
        PROVE  s < SlotCount(pages'[p + 1])
    <2>1. p \in PageIds' /\ s \in Slots(pages'[p + 1])
      BY DEF PagesGrow
    <2>2. WellFormed(pages'[p + 1]) /\ WellFormed(pages[p + 1])
      BY <2>1, HeapPageWellFormed DEF StoreInv, PageIds
    <2>3. SlotCount(pages'[p + 1]) \in Nat
      BY <2>2, SlotType
    <2> QED
      BY <2>1, <2>3 DEF Slots
  <1>2. PagesKept
    BY <1>1 DEF PagesKept, PagesGrow, SameTuple, Slots
  <1>3. LiveIdsAreLive /\ LiveIdsAreLive'
    BY LiveIdsCharacterized, LiveIdsCharacterizedAfter
  <1>4. ASSUME NEW id, Live(id) PROVE Live(id)'
    BY <1>4, Zenon DEF Live, PagesGrow, SameTuple
  <1> QED
    BY <1>2, <1>3, <1>4 DEF LiveIdsAreLive

LEMMA SamePagesKept ==
  ASSUME StoreInv, UNCHANGED pages
  PROVE  PagesKept /\ LiveIds' = LiveIds
  <1>1. ASSUME NEW p \in PageIds
        PROVE  SlotCount(pages[p + 1]) \in Nat
    BY HeapPageWellFormed, SlotType DEF StoreInv, PageIds
  <1>2. PagesKept
    BY <1>1 DEF PagesKept
  <1> QED
    BY <1>2 DEF LiveIds, PageIds

LEMMA ExistingPageStep ==
  ASSUME StoreInv, NEW tuple \in Tuple, InsertIntoExistingPage(tuple)
  PROVE  StoreInv' /\ PagesGrow
  <1> DEFINE i == Min(Fitting(tuple))
  <1>1. i \in Fitting(tuple)
    <2>1. Fitting(tuple) \in SUBSET Nat /\ Fitting(tuple) # {}
      BY DEF Fitting, InsertIntoExistingPage, StoreInv
    <2> QED
      BY <2>1, MinIsMember
  <1>2. pages' = [pages EXCEPT ![i] = InsertTuple(pages[i], tuple)] /\ file' = file
    BY DEF InsertIntoExistingPage
  <1> HIDE DEF i
  <1>3. /\ i \in 1 .. Len(pages) /\ CanInsert(pages[i], Len(tuple))
        /\ WellFormed(pages[i]) /\ tuple \in Seq(Byte) \ {<<>>}
    BY <1>1, HeapPageWellFormed DEF Fitting, StoreInv
  <1> DEFINE q == InsertTuple(pages[i], tuple)
  <1>4. Formatted(q)
    BY <1>3, InsertFormatted
  <1>5. q \in HeapPages
    BY <1>4, HeapPageMember DEF WellFormed
  <1>6. /\ Slots(q) = Slots(pages[i]) \cup {SlotCount(pages[i])}
        /\ \A s \in Slots(pages[i]) : SameTuple(pages[i], q, s)
    BY <1>3, InsertSlots, InsertReads, Zenon
  <1>7. pages' = [pages EXCEPT ![i] = q]
    BY <1>2
  <1> HIDE DEF q
  <1>8. /\ pages' \in Seq(HeapPages) /\ Len(pages') = Len(pages)
        /\ \A j \in 1 .. Len(pages) : pages'[j] = IF j = i THEN q ELSE pages[j]
    BY <1>3, <1>5, <1>7, ExceptSeq DEF StoreInv
  <1>9. StoreInv'
    BY <1>2, <1>8 DEF StoreInv
  <1>10. ASSUME NEW p \in PageIds
         PROVE  /\ p \in PageIds'
                /\ \A s \in Slots(pages[p + 1]) : /\ s \in Slots(pages'[p + 1])
                                                  /\ SameTuple(pages[p + 1], pages'[p + 1], s)
    <2>1. p + 1 \in 1 .. Len(pages) /\ p \in PageIds'
      BY <1>8 DEF PageIds, StoreInv
    <2>2. CASE p + 1 = i
      BY <1>6, <1>8, <2>1, <2>2
    <2>3. CASE p + 1 # i
      BY <1>8, <2>1, <2>3 DEF SameTuple
    <2> QED
      BY <2>1, <2>2, <2>3
  <1> QED
    BY <1>9, <1>10 DEF PagesGrow

LEMMA NewPageStep ==
  ASSUME StoreInv, NEW tuple \in Tuple, InsertIntoNewPage(tuple)
  PROVE  StoreInv' /\ PagesGrow
  <1>1. PICK page \in {InsertTuple(InitializedPage, tuple), ZeroPage} :
          pages' = Append(pages, page)
    BY DEF InsertIntoNewPage
  <1>2. ZeroPage \in HeapPages
    BY HeapPageMember DEF WellFormed
  <1>3. InsertTuple(InitializedPage, tuple) \in HeapPages
    <2>1. Formatted(InitializedPage)
      BY InitializedFormatted
    <2>2. Len(tuple) \in Nat /\ PageSize <= MAX_U16
      BY DEF ValidPageSize
    <2>3. CanInsert(InitializedPage, Len(tuple))
      BY <2>2 DEF InsertIntoNewPage, FitsEmptyPage, CanInsert, FreeSpace, InitializedPage
    <2>4. Formatted(InsertTuple(InitializedPage, tuple))
      BY <2>1, <2>3, InsertFormatted DEF WellFormed
    <2> QED
      BY <2>4, HeapPageMember DEF WellFormed
  <1>4. page \in HeapPages
    BY <1>2, <1>3
  <1>5. /\ pages' \in Seq(HeapPages) /\ Len(pages') = Len(pages) + 1
        /\ \A j \in 1 .. Len(pages) : pages'[j] = pages[j]
    BY <1>1, <1>4 DEF StoreInv
  <1>6. file' \in Seq(HeapPages) /\ Len(file') = Len(file) + 1
    BY <1>2 DEF StoreInv, InsertIntoNewPage
  <1>7. StoreInv'
    BY <1>5, <1>6 DEF StoreInv, InsertIntoNewPage
  <1>8. PagesGrow
    BY <1>5 DEF PagesGrow, PageIds, StoreInv, SameTuple
  <1> QED
    BY <1>7, <1>8

LEMMA InsertTupleStep ==
  ASSUME StoreInv, NEW tuple \in Tuple, InsertTupleLatched(tuple)
  PROVE  StoreInv' /\ PagesKept /\ LiveIds \subseteq LiveIds'
  <1>1. StoreInv' /\ PagesGrow
    BY ExistingPageStep, NewPageStep DEF InsertTupleLatched
  <1> QED
    BY <1>1, GrowingKeepsTuples

LEMMA DeleteTupleStep ==
  ASSUME StoreInv, NEW id \in LiveIds, DeleteTupleLatched(id), UNCHANGED file
  PROVE  StoreInv' /\ PagesKept /\ LiveIds \ {id} \subseteq LiveIds'
  <1> DEFINE i == id.page_id + 1
             d == id.slot_idx
             q == DeleteTuple(pages[i], d)
  <1>1. LiveIdsAreLive /\ Live(id)
    BY LiveIdsCharacterized DEF LiveIdsAreLive
  <1>2. /\ i \in 1 .. Len(pages) /\ d \in Slots(pages[i]) /\ IsLiveSlot(pages[i], d)
        /\ WellFormed(pages[i])
    BY <1>1, HeapPageWellFormed DEF Live, PageIds, StoreInv
  <1>3. Formatted(pages[i])
    BY <1>2 DEF WellFormed, ZeroPage, Slots, SlotCount
  <1>4. Formatted(q) /\ Freed(pages[i], d, q)
    BY <1>2, <1>3, DeleteFormatted, DeleteFrees
  <1>5. q \in HeapPages
    BY <1>4, HeapPageMember DEF WellFormed
  <1>6. pages' = [pages EXCEPT ![i] = q]
    BY DEF DeleteTupleLatched
  <1> HIDE DEF q, i, d
  <1>7. /\ pages' \in Seq(HeapPages) /\ Len(pages') = Len(pages)
        /\ \A j \in 1 .. Len(pages) : pages'[j] = IF j = i THEN q ELSE pages[j]
    BY <1>2, <1>5, <1>6, ExceptSeq DEF StoreInv
  <1>8. StoreInv'
    BY <1>7 DEF StoreInv
  <1>9. ASSUME NEW p \in PageIds
        PROVE  /\ p \in PageIds' /\ p + 1 \in 1 .. Len(pages)
               /\ SlotCount(pages[p + 1]) \in Nat
               /\ SlotCount(pages'[p + 1]) = SlotCount(pages[p + 1])
               /\ \A s \in Slots(pages[p + 1]) :
                    IF p + 1 = i /\ s = d THEN ~ IsLiveSlot(pages'[p + 1], s)
                                          ELSE SameTuple(pages[p + 1], pages'[p + 1], s)
    <2>1. p + 1 \in 1 .. Len(pages) /\ p \in PageIds' /\ SlotCount(pages[p + 1]) \in Nat
      BY <1>7, HeapPageWellFormed, SlotType DEF PageIds, StoreInv
    <2>2. CASE p + 1 = i
      BY <1>4, <1>7, <2>1, <2>2 DEF Freed
    <2>3. CASE p + 1 # i
      BY <1>7, <2>1, <2>3 DEF SameTuple
    <2> QED
      BY <2>1, <2>2, <2>3
  <1>10. PagesKept
    BY <1>9 DEF PagesKept, SameTuple, Slots
  <1>11. ASSUME NEW x, Live(x), x # id PROVE Live(x)'
    <2>1. x.page_id \in PageIds /\ x.slot_idx \in Slots(pages[x.page_id + 1]) /\ x \in TupleIds
      BY <1>11 DEF Live
    <2>2. ~ (x.page_id + 1 = i /\ x.slot_idx = d)
      <3>1. x.page_id \in Nat /\ id.page_id \in Nat /\ id \in TupleIds
        BY <1>1, <2>1 DEF Live, TupleIds
      <3> QED
        BY <1>11, <2>1, <3>1 DEF i, d, TupleIds
    <2> QED
      BY <1>9, <1>11, <2>1, <2>2 DEF Live, SameTuple, Slots
  <1>12. LiveIdsAreLive'
    BY <1>8, LiveIdsCharacterizedAfter
  <1> QED
    BY <1>1, <1>8, <1>10, <1>11, <1>12 DEF LiveIdsAreLive

LEMMA WriteBackStep ==
  ASSUME StoreInv, NEW p \in PageIds, WriteBack(p)
  PROVE  StoreInv'
  <1>1. p + 1 \in 1 .. Len(file) /\ pages[p + 1] \in HeapPages
    BY DEF StoreInv, PageIds
  <1>2. file' = [file EXCEPT ![p + 1] = pages[p + 1]] /\ pages' = pages
    BY DEF WriteBack
  <1> QED
    BY <1>1, <1>2, ExceptSeq DEF StoreInv

LEMMA CloseStep ==
  ASSUME StoreInv, Close
  PROVE  StoreInv'
  <1>1. CASE file' = pages
    BY <1>1 DEF StoreInv, Close
  <1>2. ASSUME NEW written \in SUBSET PageIds,
               file' = [i \in 1 .. Len(file) |->
                          IF i - 1 \in written THEN pages[i] ELSE file[i]]
        PROVE  StoreInv'
    <2>1. \A i \in 1 .. Len(file) : pages[i] \in HeapPages /\ file[i] \in HeapPages
      BY DEF StoreInv
    <2>2. file' \in [1 .. Len(file) -> HeapPages] /\ Len(file) \in Nat
      BY <1>2, <2>1 DEF StoreInv
    <2>3. file' \in Seq(HeapPages) /\ Len(file') = Len(file)
      BY <2>2
    <2> QED
      BY <2>3 DEF StoreInv, Close
  <1> QED
    BY <1>1, <1>2, Zenon DEF Close

(***************************************************************************)
(* The scans.                                                              *)
(***************************************************************************)

\* scan_next finds the first live slot from the cursor on: among the tuples
\* ahead there is one that no other precedes.
LEMMA NextIdIsFirst ==
  ASSUME StoreInv, NEW t \in Thread, Ahead(t) # {}
  PROVE  /\ NextId(t) \in Ahead(t)
         /\ \A other \in Ahead(t) :
              AtOrAfter(other, [page |-> NextId(t).page_id, slot |-> NextId(t).slot_idx])
  <1>1. \A id \in Ahead(t) : id.page_id \in Nat /\ id.slot_idx \in Nat
    BY LiveIdsCharacterized DEF Ahead, LiveIdsAreLive, Live, TupleIds
  <1> DEFINE P == {id.page_id : id \in Ahead(t)}
  <1>2. PICK p \in P : \A m \in P : p <= m
    <2>1. P \in SUBSET Nat /\ P # {}
      BY <1>1
    <2> QED
      BY <2>1, LeastNatural, Zenon
  <1> DEFINE S == {id.slot_idx : id \in {x \in Ahead(t) : x.page_id = p}}
  <1>3. PICK n \in S : \A m \in S : n <= m
    <2>1. S \in SUBSET Nat /\ S # {}
      BY <1>1, <1>2
    <2> QED
      BY <2>1, LeastNatural, Zenon
  <1>4. PICK id \in Ahead(t) : id.page_id = p /\ id.slot_idx = n
    BY <1>3
  <1>5. ASSUME NEW other \in Ahead(t)
        PROVE  AtOrAfter(other, [page |-> id.page_id, slot |-> id.slot_idx])
    <2>1. p <= other.page_id
      BY <1>2
    <2>2. other.page_id = p => n <= other.slot_idx
      BY <1>3
    <2> QED
      BY <1>1, <1>4, <2>1, <2>2 DEF AtOrAfter
  <1>6. \E x \in Ahead(t) : \A other \in Ahead(t) :
          AtOrAfter(other, [page |-> x.page_id, slot |-> x.slot_idx])
    BY <1>5
  <1> QED
    BY <1>6, Zenon DEF NextId

\* A cursor that loses some of what was due to it.
LEMMA DueShrinks ==
  ASSUME NEW c, CursorInv(c), NEW D \in SUBSET c.due
  PROVE  CursorInv([c EXCEPT !.due = D])
  <1> DEFINE e == [c EXCEPT !.due = D]
  <1>1. c \in Cursors
    BY DEF CursorInv
  <1>2. /\ e \in Cursors /\ e.due = D
        /\ e.page = c.page /\ e.slot = c.slot /\ e.seen = c.seen /\ e.done = c.done
    BY <1>1 DEF Cursors
  <1>3. \A id : AtOrAfter(id, e) <=> AtOrAfter(id, c)
    BY <1>2 DEF AtOrAfter
  <1> HIDE DEF e
  <1>4. CursorInv(e)
    BY <1>2, <1>3 DEF CursorInv
  <1> QED
    BY <1>4 DEF e

\* Tuples may come while scans are in progress.
LEMMA ScansKept ==
  ASSUME ScanInv, UNCHANGED scan, LiveIds \subseteq LiveIds'
  PROVE  ScanInv'
  BY DEF ScanInv

\* Tuples may go, if they are no longer due to any scan.
LEMMA ScansShrink ==
  ASSUME ScanInv,
         \A t \in Thread :
           scan'[t] # None =>
             /\ scan[t] # None
             /\ scan'[t] = [scan[t] EXCEPT !.due = scan'[t].due]
             /\ scan'[t].due \subseteq scan[t].due
             /\ scan'[t].due \subseteq LiveIds'
  PROVE  ScanInv'
  <1> SUFFICES ASSUME NEW t \in Thread, scan'[t] # None
               PROVE  CursorInv(scan'[t])
    BY Zenon DEF ScanInv
  <1>1. CursorInv(scan[t])
    BY Zenon DEF ScanInv
  <1> DEFINE D == scan'[t].due
  <1>2. scan'[t] = [scan[t] EXCEPT !.due = D] /\ D \in SUBSET scan[t].due
    OBVIOUS
  <1> HIDE DEF D
  <1>3. CursorInv([scan[t] EXCEPT !.due = D])
    BY <1>1, <1>2, DueShrinks, Zenon
  <1> QED
    BY <1>2, <1>3, Zenon

LEMMA OpenScans ==
  ASSUME EngineInv, Open
  PROVE  ScanInv'
  <1>1. ASSUME NEW t \in Thread, scan'[t] # None
        PROVE  /\ scan[t] # None
               /\ scan'[t] = [scan[t] EXCEPT !.due = scan'[t].due]
               /\ scan'[t].due = scan[t].due \cap LiveIds'
    <2>1. scan[t] # None /\ scan'[t] = [scan[t] EXCEPT !.due = scan[t].due \cap LiveIds']
      BY <1>1 DEF Open
    <2>2. scan[t] \in Cursors
      BY <2>1 DEF EngineInv, ScanInv, CursorInv
    <2>3. scan'[t].due = scan[t].due \cap LiveIds'
      BY <2>1, <2>2 DEF Cursors
    <2> QED
      BY <2>1, <2>3
  <1>2. ScanInv
    BY DEF EngineInv
  <1> QED
    BY <1>1, <1>2, ScansShrink

LEMMA DeleteScans ==
  ASSUME EngineInv, NEW id \in LiveIds, DeleteTupleLatched(id), UNCHANGED file
  PROVE  ScanInv'
  <1>0. LiveIds \ {id} \subseteq LiveIds'
    BY DeleteTupleStep DEF EngineInv
  <1>1. ASSUME NEW t \in Thread, scan'[t] # None
        PROVE  /\ scan[t] # None
               /\ scan'[t] = [scan[t] EXCEPT !.due = scan'[t].due]
               /\ scan'[t].due = scan[t].due \ {id}
               /\ scan[t].due \subseteq LiveIds
    <2>1. scan[t] # None /\ scan'[t] = [scan[t] EXCEPT !.due = scan[t].due \ {id}]
      BY <1>1 DEF DeleteTupleLatched
    <2>2. scan[t] \in Cursors /\ scan[t].due \subseteq LiveIds
      BY <2>1 DEF EngineInv, ScanInv, CursorInv
    <2>3. scan'[t].due = scan[t].due \ {id}
      BY <2>1, <2>2 DEF Cursors
    <2> QED
      BY <2>1, <2>2, <2>3
  <1>2. ScanInv
    BY DEF EngineInv
  <1> QED
    BY <1>0, <1>1, <1>2, ScansShrink

\* A step of one scan: it is enough to look at its own cursor.
LEMMA OwnCursor ==
  ASSUME EngineInv, NEW t \in Thread, UNCHANGED pages,
         DOMAIN scan' = Thread, \A u \in Thread \ {t} : scan'[u] = scan[u],
         scan'[t] # None => CursorInv(scan'[t]) /\ scan'[t].due \subseteq LiveIds
  PROVE  ScanInv'
  <1>1. LiveIds' = LiveIds
    BY SamePagesKept DEF EngineInv
  <1> QED
    BY <1>1 DEF EngineInv, ScanInv

LEMMA BeginScanStep ==
  ASSUME EngineInv, NEW t \in Thread, BeginScan(t)
  PROVE  ScanInv'
  <1> DEFINE c == [page |-> 0, slot |-> 0, seen |-> <<>>, due |-> LiveIds, done |-> FALSE]
  <1>1. \A id \in LiveIds : id \in TupleIds
    BY LiveIdsCharacterized DEF EngineInv, LiveIdsAreLive, Live
  <1>2. c \in Cursors /\ c.page = 0 /\ c.slot = 0 /\ c.seen = <<>> /\ c.due = LiveIds /\ c.done = FALSE
    BY <1>1 DEF Cursors
  <1>3. DOMAIN scan' = Thread /\ scan'[t] = c /\ UNCHANGED pages
        /\ \A u \in Thread \ {t} : scan'[u] = scan[u]
    BY DEF BeginScan, EngineInv
  <1> HIDE DEF c
  <1>4. \A id \in LiveIds : AtOrAfter(id, c)
    BY <1>1, <1>2 DEF AtOrAfter, TupleIds
  <1>5. CursorInv(c)
    BY <1>2, <1>4 DEF CursorInv
  <1> QED
    BY <1>2, <1>3, <1>5, OwnCursor

LEMMA EndScanStep ==
  ASSUME EngineInv, NEW t \in Thread, EndScan(t)
  PROVE  ScanInv'
  <1>1. DOMAIN scan' = Thread /\ scan'[t] = None /\ UNCHANGED pages
        /\ \A u \in Thread \ {t} : scan'[u] = scan[u]
    BY DEF EndScan, EngineInv
  <1> QED
    BY <1>1, OwnCursor

\* What Scanning(t) says of the cursor.
LEMMA ScanningCursor ==
  ASSUME EngineInv, NEW t \in Thread, Scanning(t)
  PROVE  /\ CursorInv(scan[t]) /\ scan[t] \in Cursors
         /\ scan[t].due \subseteq LiveIds /\ ~ scan[t].done
         /\ \A id \in LiveIds : id \in TupleIds /\ id.page_id < Len(pages)
         /\ Len(pages) \in Nat /\ Len(pages) <= MaxPages
  <1>1. /\ CursorInv(scan[t]) /\ scan[t] \in Cursors
        /\ scan[t].due \subseteq LiveIds /\ ~ scan[t].done
    BY DEF EngineInv, ScanInv, Scanning, CursorInv
  <1>2. Len(pages) \in Nat /\ Len(pages) <= MaxPages
    BY DEF EngineInv, StoreInv
  <1>3. \A id \in LiveIds : id \in TupleIds /\ id.page_id < Len(pages)
    BY <1>2, LiveIdsCharacterized DEF EngineInv, LiveIdsAreLive, Live, PageIds
  <1> QED
    BY <1>1, <1>2, <1>3

LEMMA ScanReturnsStep ==
  ASSUME EngineInv, NEW t \in Thread, ScanReturns(t)
  PROVE  ScanInv'
  <1> DEFINE c == scan[t]
             n == NextId(t)
             e == scan'[t]
  <1>1. /\ CursorInv(c) /\ c \in Cursors
        /\ c.due \subseteq LiveIds /\ ~ c.done
        /\ \A id \in LiveIds : id \in TupleIds /\ id.page_id < Len(pages)
        /\ Len(pages) \in Nat /\ Len(pages) <= MaxPages
    BY ScanningCursor DEF ScanReturns
  <1>2. /\ n \in Ahead(t)
        /\ \A other \in Ahead(t) : AtOrAfter(other, [page |-> n.page_id, slot |-> n.slot_idx])
    BY NextIdIsFirst DEF ScanReturns, EngineInv
  <1>3. n \in LiveIds /\ AtOrAfter(n, c)
    BY <1>2 DEF Ahead
  <1>4. DOMAIN scan' = Thread /\ UNCHANGED pages /\ \A u \in Thread \ {t} : scan'[u] = scan[u]
    BY DEF ScanReturns, EngineInv
  <1>5. e = [c EXCEPT !.page = n.page_id, !.slot = n.slot_idx + 1, !.seen = Append(c.seen, n)]
    BY DEF ScanReturns, EngineInv, SlotAfter
  <1>6. n \in TupleIds /\ n.page_id \in Nat /\ n.slot_idx \in Nat
    BY <1>1, <1>3 DEF TupleIds
  <1>7. /\ c.page \in Nat /\ c.slot \in Nat /\ c.seen \in Seq(TupleIds)
        /\ c.due \in SUBSET TupleIds /\ c.done \in BOOLEAN
    BY <1>1 DEF Cursors
  <1>8. /\ e.page = n.page_id /\ e.slot = n.slot_idx + 1 /\ e.seen = Append(c.seen, n)
        /\ e.due = c.due /\ e.done = c.done
    BY <1>1, <1>5 DEF Cursors
  <1>9. e = [page |-> e.page, slot |-> e.slot, seen |-> e.seen, due |-> e.due, done |-> e.done]
    BY <1>1, <1>5, Zenon DEF Cursors
  <1> HIDE DEF c, n, e
  <1>10. e \in Cursors
    <2>1. /\ e.page \in Nat /\ e.slot \in Nat /\ e.seen \in Seq(TupleIds)
          /\ e.due \in SUBSET TupleIds /\ e.done \in BOOLEAN
      BY <1>6, <1>7, <1>8
    <2> QED
      BY <1>9, <2>1, Zenon DEF Cursors
  <1>11. /\ Len(e.seen) = Len(c.seen) + 1 /\ Len(c.seen) \in Nat
         /\ e.seen[Len(c.seen) + 1] = n
         /\ \A i \in 1 .. Len(c.seen) : e.seen[i] = c.seen[i] /\ c.seen[i] \in TupleIds
    BY <1>6, <1>7, <1>8
  <1>12. ASSUME NEW i \in 1 .. Len(c.seen)
         PROVE  c.seen[i] # n /\ ~ AtOrAfter(c.seen[i], e)
    <2>1. ~ AtOrAfter(c.seen[i], c)
      BY <1>1 DEF CursorInv
    <2>2. c.seen[i].page_id \in Nat /\ c.seen[i].slot_idx \in Nat
      BY <1>11 DEF TupleIds
    <2> QED
      BY <1>3, <1>6, <1>7, <1>8, <2>1, <2>2 DEF AtOrAfter
  <1>13. \A i, j \in 1 .. Len(e.seen) : e.seen[i] = e.seen[j] => i = j
    <2> SUFFICES ASSUME NEW i \in 1 .. Len(e.seen), NEW j \in 1 .. Len(e.seen),
                        e.seen[i] = e.seen[j], i # j
                 PROVE  FALSE
      OBVIOUS
    <2>1. CASE i \in 1 .. Len(c.seen) /\ j \in 1 .. Len(c.seen)
      BY <1>1, <1>11, <2>1 DEF CursorInv
    <2>2. CASE i \in 1 .. Len(c.seen) /\ j = Len(c.seen) + 1
      BY <1>11, <1>12, <2>2
    <2>3. CASE j \in 1 .. Len(c.seen) /\ i = Len(c.seen) + 1
      BY <1>11, <1>12, <2>3
    <2> QED
      BY <1>11, <2>1, <2>2, <2>3
  <1>14. \A i \in 1 .. Len(e.seen) : ~ AtOrAfter(e.seen[i], e)
    <2>1. ~ AtOrAfter(n, e)
      BY <1>6, <1>8 DEF AtOrAfter
    <2> QED
      BY <1>11, <1>12, <2>1
  <1>15. ASSUME NEW id \in e.due
         PROVE  \/ \E i \in 1 .. Len(e.seen) : e.seen[i] = id
                \/ ~ e.done /\ AtOrAfter(id, e)
    <2>1. id \in c.due /\ id \in LiveIds /\ id \in TupleIds
      BY <1>1, <1>8
    <2>2. CASE \E i \in 1 .. Len(c.seen) : c.seen[i] = id
      BY <1>11, <2>2
    <2>3. CASE id = n
      <3>1. Len(c.seen) + 1 \in 1 .. Len(e.seen)
        BY <1>11
      <3> QED
        BY <1>11, <2>3, <3>1
    <2>4. CASE id # n /\ AtOrAfter(id, c)
      <3>1. id \in Ahead(t)
        BY <2>1, <2>4 DEF Ahead, c
      <3>2. AtOrAfter(id, [page |-> n.page_id, slot |-> n.slot_idx])
        BY <1>2, <3>1
      <3>3. ~ (id.page_id = n.page_id /\ id.slot_idx = n.slot_idx)
        BY <1>6, <2>1, <2>4 DEF TupleIds
      <3>4. id.page_id \in Nat /\ id.slot_idx \in Nat
        BY <2>1 DEF TupleIds
      <3>5. AtOrAfter(id, e)
        BY <1>6, <1>8, <3>2, <3>3, <3>4 DEF AtOrAfter
      <3> QED
        BY <1>1, <1>8, <3>5
    <2> QED
      BY <1>1, <2>1, <2>2, <2>3, <2>4 DEF CursorInv
  <1>16. e.page <= MaxPages
    BY <1>1, <1>3, <1>6, <1>8
  <1>17. CursorInv(e)
    BY <1>10, <1>13, <1>14, <1>15, <1>16 DEF CursorInv
  <1>18. e.due \subseteq LiveIds
    BY <1>1, <1>8
  <1> QED
    BY <1>4, <1>17, <1>18, OwnCursor DEF e

\* A cursor that moves on without returning a tuple.
LEMMA CursorAdvances ==
  ASSUME NEW c, CursorInv(c), NEW e,
         e = [page |-> e.page, slot |-> e.slot, seen |-> c.seen, due |-> c.due,
              done |-> e.done],
         e.page \in Nat, e.slot \in Nat, e.done \in BOOLEAN, e.page <= MaxPages,
         e.page > c.page \/ (e.page = c.page /\ e.slot = c.slot),
         \A id \in c.due : \/ \E i \in 1 .. Len(c.seen) : c.seen[i] = id
                           \/ ~ e.done /\ AtOrAfter(id, e)
  PROVE  CursorInv(e)
  <1>1. /\ c.page \in Nat /\ c.slot \in Nat /\ c.seen \in Seq(TupleIds)
        /\ c.due \in SUBSET TupleIds
    BY DEF CursorInv, Cursors
  <1>2. e.seen = c.seen /\ e.due = c.due
    OBVIOUS
  <1>3. e \in Cursors
    <2>1. e = [page |-> e.page, slot |-> e.slot, seen |-> e.seen, due |-> e.due, done |-> e.done]
      BY <1>2
    <2> QED
      BY <1>1, <1>2, <2>1, Zenon DEF Cursors
  <1>4. ASSUME NEW i \in 1 .. Len(c.seen)
        PROVE  ~ AtOrAfter(c.seen[i], e)
    <2>0. c.seen[i] \in TupleIds
      BY <1>1, ElementOfSeq
    <2>1. c.seen[i].page_id \in Nat /\ c.seen[i].slot_idx \in Nat
      BY <2>0 DEF TupleIds
    <2>2. ~ AtOrAfter(c.seen[i], c)
      BY DEF CursorInv
    <2> QED
      BY <1>1, <2>1, <2>2 DEF AtOrAfter
  <1> QED
    BY <1>2, <1>3, <1>4 DEF CursorInv

LEMMA ScanEndsStep ==
  ASSUME EngineInv, NEW t \in Thread, ScanEnds(t)
  PROVE  ScanInv'
  <1> DEFINE c == scan[t]
             e == scan'[t]
             m == Max({c.page, Len(pages)})
  <1>1. /\ CursorInv(c) /\ c \in Cursors
        /\ c.due \subseteq LiveIds /\ ~ c.done
        /\ Len(pages) \in Nat /\ Len(pages) <= MaxPages
    BY ScanningCursor DEF ScanEnds
  <1>2. DOMAIN scan' = Thread /\ UNCHANGED pages /\ \A u \in Thread \ {t} : scan'[u] = scan[u]
    BY DEF ScanEnds, EngineInv
  <1>3. e = [c EXCEPT !.page = m,
                      !.slot = IF c.page < Len(pages) THEN 0 ELSE c.slot,
                      !.done = TRUE]
    BY DEF ScanEnds, EngineInv
  <1>4. c.page \in Nat /\ c.slot \in Nat /\ c.page <= MaxPages
    BY <1>1 DEF Cursors, CursorInv
  <1>5. m \in {c.page, Len(pages)} /\ m >= c.page /\ m >= Len(pages)
    BY <1>1, <1>4, MaxOfTwo
  <1> HIDE DEF m
  <1>6. /\ e.page = m /\ e.slot = (IF c.page < Len(pages) THEN 0 ELSE c.slot)
        /\ e.done = TRUE /\ e.due = c.due
    BY <1>1, <1>3 DEF Cursors
  <1>7. e = [page |-> e.page, slot |-> e.slot, seen |-> c.seen, due |-> c.due, done |-> e.done]
    BY <1>1, <1>3, Zenon DEF Cursors
  <1>8. \A id \in c.due : \E i \in 1 .. Len(c.seen) : c.seen[i] = id
    BY <1>1 DEF CursorInv, Ahead, ScanEnds
  <1> HIDE DEF c, e
  <1>9. e.page \in Nat /\ e.slot \in Nat /\ e.page <= MaxPages
    BY <1>1, <1>4, <1>5, <1>6
  <1>10. e.page > c.page \/ (e.page = c.page /\ e.slot = c.slot)
    <2>1. CASE c.page < Len(pages)
      BY <1>1, <1>4, <1>5, <1>6, <2>1
    <2>2. CASE ~ (c.page < Len(pages))
      BY <1>1, <1>4, <1>5, <1>6, <2>2
    <2> QED
      BY <2>1, <2>2
  <1>11. e.done \in BOOLEAN
    BY <1>6, Zenon
  <1>12. CursorInv(e)
    BY <1>1, <1>7, <1>8, <1>9, <1>10, <1>11, CursorAdvances
  <1> QED
    BY <1>1, <1>2, <1>6, <1>12, OwnCursor DEF e

LEMMA ScanFailsStep ==
  ASSUME EngineInv, NEW t \in Thread, ScanFails(t)
  PROVE  ScanInv'
  <1> DEFINE c == scan[t]
             e == scan'[t]
  <1>1. /\ CursorInv(c) /\ c \in Cursors
        /\ c.due \subseteq LiveIds /\ ~ c.done
        /\ \A id \in LiveIds : id \in TupleIds
        /\ Len(pages) \in Nat /\ Len(pages) <= MaxPages
    BY ScanningCursor, Zenon DEF ScanFails
  <1>2. PICK p \in c.page + 1 .. Len(pages) - 1 :
          /\ \A id \in Ahead(t) : id.page_id >= p
          /\ scan' = [scan EXCEPT ![t] = [c EXCEPT !.page = p, !.slot = 0]]
    BY Zenon DEF ScanFails
  <1>3. DOMAIN scan' = Thread /\ UNCHANGED pages /\ \A u \in Thread \ {t} : scan'[u] = scan[u]
    BY DEF ScanFails, EngineInv
  <1>4. e = [c EXCEPT !.page = p, !.slot = 0]
    BY <1>2 DEF EngineInv
  <1>5. c.page \in Nat /\ c.slot \in Nat /\ c.page <= MaxPages
    BY <1>1 DEF Cursors, CursorInv
  <1>6. e.page = p /\ e.slot = 0 /\ e.done = c.done /\ e.due = c.due
    BY <1>1, <1>4 DEF Cursors
  <1>7. e = [page |-> e.page, slot |-> e.slot, seen |-> c.seen, due |-> c.due, done |-> e.done]
    BY <1>1, <1>4, Zenon DEF Cursors
  <1>8. ASSUME NEW id \in c.due, ~ \E i \in 1 .. Len(c.seen) : c.seen[i] = id
        PROVE  ~ e.done /\ AtOrAfter(id, e)
    <2>1. AtOrAfter(id, c) /\ id \in LiveIds
      BY <1>1, <1>8 DEF CursorInv
    <2>2. id.page_id >= p
      BY <1>2, <2>1 DEF Ahead
    <2>3. id.page_id \in Nat /\ id.slot_idx \in Nat
      BY <1>1, <2>1 DEF TupleIds
    <2> QED
      BY <1>1, <1>6, <2>2, <2>3 DEF AtOrAfter
  <1> HIDE DEF c, e
  <1>9. /\ e.page \in Nat /\ e.slot \in Nat /\ e.page <= MaxPages
        /\ e.page > c.page
    BY <1>1, <1>2, <1>5, <1>6
  <1>10. e.done \in BOOLEAN
    BY <1>1, <1>6 DEF Cursors
  <1>11. CursorInv(e)
    BY <1>1, <1>7, <1>8, <1>9, <1>10, CursorAdvances
  <1> QED
    BY <1>1, <1>3, <1>6, <1>11, OwnCursor DEF e

(***************************************************************************)
(* The steps.                                                              *)
(***************************************************************************)

LEMMA InitStep ==
  Init => EngineInv
  <1> SUFFICES ASSUME Init PROVE EngineInv
    OBVIOUS
  <1>1. StoreInv
    BY DEF Init, StoreInv
  <1> QED
    BY <1>1, Zenon DEF Init, EngineInv, ScanInv

\* A page that a write hurts is a page of the file.
LEMMA TornStep ==
  ASSUME EngineInv, Next
  PROVE  torn' \subseteq 0 .. MaxPages - 1
  <1>1. torn \subseteq 0 .. MaxPages - 1 /\ PageIds \subseteq 0 .. MaxPages - 1
    BY DEF EngineInv, StoreInv, PageIds
  <1>2. CASE Close
    <2>1. \/ torn' = {}
          \/ \E written \in SUBSET PageIds :
               \/ torn' = torn \ written
               \/ \E p \in PageIds : torn' = (torn \ written) \cup {p}
      BY <1>2, Zenon DEF Close
    <2> QED
      BY <1>1, <2>1
  <1>3. ASSUME NEW p \in PageIds, WriteBack(p) \/ WriteBackFails(p)
        PROVE  torn' \subseteq 0 .. MaxPages - 1
    <2>1. torn' \subseteq torn \cup {p}
      BY <1>3, Zenon DEF WriteBack, WriteBackFails
    <2>2. p \in 0 .. MaxPages - 1
      BY <1>1
    <2> QED
      BY <1>1, <2>1, <2>2, Zenon
  <1>4. CASE Open \/ CloseAgain \/ Destroy
    BY <1>1, <1>4 DEF Open, CloseAgain, Destroy
  <1>5. ASSUME NEW t \in Thread, NEW id \in LiveIds, NEW tuple \in Tuple,
               Delete(t, id) \/ BeginUpdate(t, id, tuple)
        PROVE  UNCHANGED torn
    BY <1>5 DEF Delete, BeginUpdate
  <1>6. ASSUME NEW t \in Thread, NEW id \in LiveIds, Delete(t, id)
        PROVE  UNCHANGED torn
    BY <1>6 DEF Delete
  <1>7. ASSUME NEW t \in Thread,
               \/ \E tuple \in Tuple : Insert(t, tuple)
               \/ FinishUpdate(t) \/ BeginScan(t) \/ ScanReturns(t)
               \/ ScanEnds(t) \/ ScanFails(t) \/ EndScan(t)
        PROVE  UNCHANGED torn
    BY <1>7, Zenon DEF Insert, FinishUpdate, BeginScan, ScanReturns, ScanEnds, ScanFails, EndScan
  <1> QED
    BY <1>1, <1>2, <1>3, <1>4, <1>5, <1>6, <1>7, Zenon DEF Next

\* Everything but the pages and the scans.
LEMMA RestStep ==
  ASSUME EngineInv, Next
  PROVE  /\ opened' \in BOOLEAN /\ vouched' \in BOOLEAN
         /\ pending' \in [Thread -> Tuple \cup {None}]
         /\ DOMAIN scan' = Thread
  <1>1. CASE Open
    BY <1>1, Zenon DEF Open, EngineInv
  <1>2. ASSUME NEW p \in PageIds, WriteBack(p) \/ WriteBackFails(p)
        PROVE  UNCHANGED <<opened, vouched, pending, scan>>
    BY <1>2 DEF WriteBack, WriteBackFails
  <1>3. CASE Close
    BY <1>3, Zenon DEF Close, EngineInv
  <1>4. CASE CloseAgain
    BY <1>4 DEF CloseAgain, EngineInv
  <1>5. CASE Destroy
    BY <1>5, Zenon DEF Destroy, EngineInv
  <1>6. ASSUME NEW t \in Thread, NEW tuple \in Tuple, Insert(t, tuple)
        PROVE  UNCHANGED <<opened, vouched, pending, scan>>
    BY <1>6 DEF Insert
  <1>7. ASSUME NEW t \in Thread, NEW id \in LiveIds, Delete(t, id)
        PROVE  UNCHANGED <<opened, vouched, pending>> /\ DOMAIN scan' = Thread
    BY <1>7 DEF Delete, DeleteTupleLatched
  <1>8. ASSUME NEW t \in Thread, NEW id \in LiveIds, NEW tuple \in Tuple,
               BeginUpdate(t, id, tuple)
        PROVE  /\ UNCHANGED <<opened, vouched>> /\ DOMAIN scan' = Thread
               /\ pending' \in [Thread -> Tuple \cup {None}]
    BY <1>8 DEF BeginUpdate, DeleteTupleLatched, EngineInv
  <1>9. ASSUME NEW t \in Thread, FinishUpdate(t)
        PROVE  /\ UNCHANGED <<opened, vouched, scan>>
               /\ pending' \in [Thread -> Tuple \cup {None}]
    BY <1>9 DEF FinishUpdate, EngineInv
  <1>10. ASSUME NEW t \in Thread,
                BeginScan(t) \/ ScanReturns(t) \/ ScanEnds(t) \/ ScanFails(t) \/ EndScan(t)
         PROVE  UNCHANGED <<opened, vouched, pending>> /\ DOMAIN scan' = Thread
    BY <1>10, Zenon DEF BeginScan, ScanReturns, ScanEnds, ScanFails, EndScan, EngineInv
  <1> QED
    BY <1>1, <1>2, <1>3, <1>4, <1>5, <1>6, <1>7, <1>8, <1>9, <1>10 DEF Next, EngineInv

\* The pages and the scans, action by action.  PagesKept may fail only when the
\* engine opens or is destroyed: it then reads what the file holds.
LEMMA PagesAndScansStep ==
  ASSUME EngineInv, Next
  PROVE  StoreInv' /\ ScanInv' /\ (opened /\ opened' => PagesKept)
  <1>0. StoreInv /\ ScanInv
    BY DEF EngineInv
  <1>1. CASE Open
    <2>1. StoreInv'
      BY <1>0, <1>1 DEF Open, StoreInv
    <2> QED
      BY <1>1, <2>1, OpenScans, Zenon DEF Open
  <1>2. ASSUME NEW p \in PageIds, WriteBack(p) \/ WriteBackFails(p)
        PROVE  StoreInv' /\ ScanInv' /\ PagesKept
    <2>1. UNCHANGED <<pages, scan>>
      BY <1>2 DEF WriteBack, WriteBackFails
    <2>2. WriteBackFails(p) => StoreInv'
      BY <1>0 DEF WriteBackFails, StoreInv
    <2> QED
      BY <1>0, <1>2, <2>1, <2>2, WriteBackStep, SamePagesKept, ScansKept
  <1>3. CASE Close
    <2>1. UNCHANGED <<pages, scan>>
      BY <1>3 DEF Close
    <2> QED
      BY <1>0, <1>3, <2>1, CloseStep, SamePagesKept, ScansKept, Zenon
  <1>4. CASE CloseAgain
    <2>1. UNCHANGED <<pages, file, scan>>
      BY <1>4 DEF CloseAgain
    <2>2. StoreInv'
      BY <1>0, <2>1 DEF StoreInv
    <2> QED
      BY <1>0, <2>1, <2>2, SamePagesKept, ScansKept
  <1>5. CASE Destroy
    <2>1. StoreInv'
      BY <1>0, <1>5 DEF Destroy, StoreInv
    <2>2. ScanInv' /\ ~ opened'
      BY <1>5 DEF Destroy, ScanInv
    <2> QED
      BY <2>1, <2>2
  <1>6. ASSUME NEW t \in Thread, NEW tuple \in Tuple, Insert(t, tuple)
        PROVE  StoreInv' /\ ScanInv' /\ PagesKept
    <2>1. InsertTupleLatched(tuple) /\ UNCHANGED scan
      BY <1>6 DEF Insert
    <2> QED
      BY <1>0, <2>1, InsertTupleStep, ScansKept
  <1>7. ASSUME NEW t \in Thread, NEW id \in LiveIds, NEW tuple \in Tuple,
               Delete(t, id) \/ BeginUpdate(t, id, tuple)
        PROVE  StoreInv' /\ ScanInv' /\ PagesKept
    <2>1. DeleteTupleLatched(id) /\ UNCHANGED file
      BY <1>7 DEF Delete, BeginUpdate
    <2> QED
      BY <1>0, <2>1, DeleteTupleStep, DeleteScans
  <1>8. ASSUME NEW t \in Thread, NEW id \in LiveIds, Delete(t, id)
        PROVE  StoreInv' /\ ScanInv' /\ PagesKept
    <2>1. DeleteTupleLatched(id) /\ UNCHANGED file
      BY <1>8 DEF Delete
    <2> QED
      BY <1>0, <2>1, DeleteTupleStep, DeleteScans
  <1>9. ASSUME NEW t \in Thread, FinishUpdate(t)
        PROVE  StoreInv' /\ ScanInv' /\ PagesKept
    <2>1. pending[t] \in Tuple /\ UNCHANGED scan
      BY <1>9 DEF FinishUpdate, Idle, EngineInv
    <2>2. CASE InsertTupleLatched(pending[t])
      BY <1>0, <2>1, <2>2, InsertTupleStep, ScansKept
    <2>3. CASE UNCHANGED <<pages, file>>
      <3>1. StoreInv'
        BY <1>0, <2>3 DEF StoreInv
      <3> QED
        BY <1>0, <2>1, <2>3, <3>1, SamePagesKept, ScansKept, Zenon
    <2> QED
      BY <1>9, <2>2, <2>3 DEF FinishUpdate
  <1>10. ASSUME NEW t \in Thread,
                BeginScan(t) \/ ScanReturns(t) \/ ScanEnds(t) \/ ScanFails(t) \/ EndScan(t)
         PROVE  StoreInv' /\ ScanInv' /\ PagesKept
    <2>1. UNCHANGED <<pages, file>>
      BY <1>10, Zenon DEF BeginScan, ScanReturns, ScanEnds, ScanFails, EndScan
    <2>2. StoreInv'
      BY <1>0, <2>1 DEF StoreInv
    <2>3. ScanInv'
      BY <1>10, BeginScanStep, ScanReturnsStep, ScanEndsStep, ScanFailsStep, EndScanStep, Zenon
    <2> QED
      BY <1>0, <2>1, <2>2, <2>3, SamePagesKept, Zenon
  <1> QED
    BY <1>1, <1>2, <1>3, <1>4, <1>5, <1>6, <1>7, <1>8, <1>9, <1>10, Zenon DEF Next

LEMMA EngineAlways ==
  Spec => []EngineInv
  <1>1. EngineInv /\ [Next]_vars => EngineInv'
    <2> SUFFICES ASSUME EngineInv, [Next]_vars
                 PROVE  EngineInv'
      OBVIOUS
    <2>1. CASE Next
      BY <2>1, RestStep, TornStep, PagesAndScansStep DEF EngineInv
    <2>2. CASE UNCHANGED vars
      BY <2>2 DEF vars, EngineInv, StoreInv, ScanInv, LiveIds, PageIds
    <2> QED
      BY <2>1, <2>2
  <1> QED
    BY <1>1, InitStep, PTL DEF Spec

\* The engine's state has its type; in particular a scan's cursor never leaves
\* the file, and what is due to a scan is still there.
THEOREM TypeCorrect ==
  Spec => []TypeOK
  <1>1. EngineInv => TypeOK
    BY DEF EngineInv, StoreInv, ScanInv, CursorInv, Cursors, TypeOK
  <1> QED
    BY <1>1, EngineAlways, PTL

\* A scan returns no tuple id twice and misses no tuple that is there from its
\* beginning to its end (heap_engine.cpp:107-150), for every number of threads
\* that insert, update, delete and scan meanwhile.
THEOREM ScansCorrect ==
  Spec => []ScansAreExact
  <1>1. EngineInv => ScansAreExact
    <2> SUFFICES ASSUME EngineInv, NEW t \in Thread, scan[t] # None
                 PROVE  /\ \A i, j \in 1 .. Len(scan[t].seen) :
                             scan[t].seen[i] = scan[t].seen[j] => i = j
                        /\ scan[t].done => scan[t].due \subseteq Range(scan[t].seen)
      BY DEF ScansAreExact
    <2>1. CursorInv(scan[t])
      BY DEF EngineInv, ScanInv
    <2>2. DOMAIN scan[t].seen = 1 .. Len(scan[t].seen)
      BY <2>1 DEF CursorInv, Cursors
    <2> QED
      BY <2>1, <2>2 DEF CursorInv, Range
  <1> QED
    BY <1>1, EngineAlways, PTL

\* While the engine is open a tuple id names one tuple: its bytes never change,
\* and its slot is never given to another (page.cpp:126-164,
\* heap_engine.cpp:46-97).
THEOREM TupleIdsCorrect ==
  Spec => TupleIdsAreStable
  <1>1. EngineInv /\ [Next]_vars => [opened /\ opened' => PagesKept]_vars
    BY PagesAndScansStep
  <1>2. EngineInv /\ [Next]_vars =>
          [opened /\ opened' =>
             \A p \in PageIds : \A s \in 0 .. SlotCount(pages[p + 1]) - 1 :
               /\ s < SlotCount(pages'[p + 1])
               /\ IsLiveSlot(pages'[p + 1], s) =>
                    /\ IsLiveSlot(pages[p + 1], s)
                    /\ ReadTuple(pages'[p + 1], s) = ReadTuple(pages[p + 1], s)]_vars
    BY <1>1 DEF PagesKept
  <1> QED
    BY <1>2, EngineAlways, PTL DEF Spec, TupleIdsAreStable
=============================================================================
