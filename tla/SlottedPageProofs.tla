-------------------------- MODULE SlottedPageProofs -------------------------
(***************************************************************************)
(* SlottedPage for every page size and every set of tuples: the page stays *)
(* well formed, and every slot reads back what was put there.              *)
(***************************************************************************)
EXTENDS SlottedPage, HeapPageProofs

USE PageSizeAssumption, TupleAssumption, DeletedAssumption
    DEF PAGE_HEADER_SIZE, SLOT_SIZE, MAX_U16

\* Besides the slots themselves, the bytes behind every live slot are there
\* and belong to that slot alone: that is what an overwrite has to rely on.
PageInv ==
  /\ WellFormed(page)
  /\ contents \in Seq(Tuple \cup {Deleted})
  /\ SlotsReadBack

LEMMA InitStep ==
  Init => PageInv
  BY DEF Init, PageInv, WellFormed, SlotsReadBack, ZeroPage, SlotCount

LEMMA InitializeStep ==
  ASSUME Initialize
  PROVE  PageInv'
  <1>1. Formatted(InitializedPage) /\ SlotCount(InitializedPage) = 0
    BY InitializedFormatted DEF Initialize
  <1>2. page' = InitializedPage /\ contents' = <<>>
    BY DEF Initialize
  <1> QED
    BY <1>1, <1>2 DEF PageInv, WellFormed, SlotsReadBack

LEMMA InsertStep ==
  ASSUME PageInv, NEW t \in Tuple, Insert(t)
  PROVE  PageInv'
  <1> DEFINE n == SlotCount(page)
  <1>1. /\ t \in Seq(Byte) \ {<<>>} /\ CanInsert(page, Len(t)) /\ WellFormed(page)
        /\ page' = InsertTuple(page, t)
        /\ contents' = Append(contents, t)
        /\ contents \in Seq(Tuple \cup {Deleted})
        /\ SlotsReadBack
    BY DEF PageInv, Insert
  <1>2. Formatted(page')
    BY <1>1, InsertFormatted
  <1>3. /\ n \in Nat /\ SlotCount(page') = n + 1
        /\ Slots(page') = Slots(page) \cup {n}
        /\ IsLiveSlot(page', n)
    BY <1>1, InsertSlots, Zenon
  <1>4. /\ \A s \in Slots(page) : SameTuple(page, page', s)
        /\ ReadTuple(page', n) = t
    BY <1>1, InsertReads
  <1>5. /\ contents' \in Seq(Tuple \cup {Deleted}) /\ Len(contents') = n + 1
        /\ contents'[n + 1] = t
        /\ \A s \in Slots(page) : contents'[s + 1] = contents[s + 1]
    BY <1>1, <1>3 DEF SlotsReadBack, Slots
  <1>6. ASSUME NEW s \in Slots(page')
        PROVE  IF IsLiveSlot(page', s) THEN ReadTuple(page', s) = contents'[s + 1]
                                       ELSE contents'[s + 1] = Deleted
    <2>1. CASE s = n
      BY <1>3, <1>4, <1>5, <2>1
    <2>2. CASE s \in Slots(page)
      BY <1>1, <1>4, <1>5, <2>2 DEF SlotsReadBack, SameTuple, Slots
    <2> QED
      BY <1>3, <2>1, <2>2
  <1> QED
    BY <1>2, <1>3, <1>5, <1>6 DEF PageInv, WellFormed, SlotsReadBack, Slots

\* A page with a live slot has been initialized.
LEMMA LiveIsFormatted ==
  ASSUME PageInv, NEW slot \in 0 .. SlotCount(page) - 1, IsLiveSlot(page, slot)
  PROVE  Formatted(page) /\ slot \in Slots(page)
  BY DEF PageInv, WellFormed, ZeroPage, SlotCount, Slots

LEMMA DeleteStep ==
  ASSUME PageInv, NEW slot \in 0 .. SlotCount(page) - 1, Delete(slot)
  PROVE  PageInv'
  <1>1. Formatted(page) /\ slot \in Slots(page)
    BY LiveIsFormatted DEF Delete
  <1>2. /\ page' = DeleteTuple(page, slot)
        /\ contents' = [contents EXCEPT ![slot + 1] = Deleted]
        /\ contents \in Seq(Tuple \cup {Deleted})
        /\ SlotsReadBack
    BY DEF PageInv, Delete
  <1>3. Freed(page, slot, page')
    BY <1>1, <1>2, DeleteFrees
  <1>4. Formatted(page')
    BY <1>1, <1>2, DeleteFormatted
  <1>5. /\ contents' \in Seq(Tuple \cup {Deleted}) /\ Len(contents') = Len(contents)
        /\ contents'[slot + 1] = Deleted
        /\ \A s \in Slots(page) \ {slot} : contents'[s + 1] = contents[s + 1]
    <2>1. slot + 1 \in 1 .. Len(contents)
      BY <1>1, <1>2 DEF Slots, SlotsReadBack
    <2> QED
      BY <1>2, <2>1, ExceptSeq DEF SlotsReadBack, Slots
  <1>6. SlotCount(page') = SlotCount(page) /\ Slots(page') = Slots(page)
    BY <1>3 DEF Freed, Slots
  <1>7. ASSUME NEW s \in Slots(page)
        PROVE  IF IsLiveSlot(page', s) THEN ReadTuple(page', s) = contents'[s + 1]
                                       ELSE contents'[s + 1] = Deleted
    <2>1. CASE s = slot
      BY <1>3, <1>5, <2>1 DEF Freed
    <2>2. CASE s # slot
      BY <1>2, <1>3, <1>5, <2>2 DEF Freed, SlotsReadBack, SameTuple, Slots
    <2> QED
      BY <2>1, <2>2
  <1> QED
    BY <1>2, <1>4, <1>5, <1>6, <1>7 DEF PageInv, WellFormed, SlotsReadBack, Slots

LEMMA OverwriteStep ==
  ASSUME PageInv, NEW slot \in 0 .. SlotCount(page) - 1, NEW t \in Tuple, Overwrite(slot, t)
  PROVE  PageInv'
  <1>1. Formatted(page) /\ slot \in Slots(page)
    BY LiveIsFormatted DEF Overwrite
  <1>2. /\ t \in Seq(Byte) \ {<<>>} /\ Len(t) = page.slots[slot + 1].len
        /\ IsLiveSlot(page, slot)
        /\ page' = OverwriteTuple(page, slot, t)
        /\ contents' = [contents EXCEPT ![slot + 1] = t]
        /\ contents \in Seq(Tuple \cup {Deleted})
        /\ SlotsReadBack
    BY DEF PageInv, Overwrite
  <1>3. /\ SlotCount(page') = SlotCount(page)
        /\ \A s \in Slots(page) \ {slot} : SameTuple(page, page', s)
        /\ IsLiveSlot(page', slot)
        /\ ReadTuple(page', slot) = t
    BY <1>1, <1>2, OverwriteReads
  <1>4. Formatted(page')
    BY <1>1, <1>2, OverwriteFormatted
  <1>5. /\ contents' \in Seq(Tuple \cup {Deleted}) /\ Len(contents') = Len(contents)
        /\ contents'[slot + 1] = t
        /\ \A s \in Slots(page) \ {slot} : contents'[s + 1] = contents[s + 1]
    <2>1. slot + 1 \in 1 .. Len(contents)
      BY <1>1, <1>2 DEF Slots, SlotsReadBack
    <2> QED
      BY <1>2, <2>1, ExceptSeq DEF SlotsReadBack, Slots
  <1>6. Slots(page') = Slots(page)
    BY <1>3 DEF Slots
  <1>7. ASSUME NEW s \in Slots(page)
        PROVE  IF IsLiveSlot(page', s) THEN ReadTuple(page', s) = contents'[s + 1]
                                       ELSE contents'[s + 1] = Deleted
    <2>1. CASE s = slot
      BY <1>3, <1>5, <2>1
    <2>2. CASE s # slot
      BY <1>2, <1>3, <1>5, <2>2 DEF SlotsReadBack, SameTuple, Slots
    <2> QED
      BY <2>1, <2>2
  <1> QED
    BY <1>2, <1>3, <1>4, <1>5, <1>6, <1>7 DEF PageInv, WellFormed, SlotsReadBack, Slots

LEMMA PageAlways ==
  Spec => []PageInv
  <1>1. Init => PageInv
    BY InitStep
  <1>2. PageInv /\ [Next]_vars => PageInv'
    <2> SUFFICES ASSUME PageInv, [Next]_vars
                 PROVE  PageInv'
      OBVIOUS
    <2>1. CASE Next
      BY <2>1, InitializeStep, InsertStep, DeleteStep, OverwriteStep DEF Next
    <2>2. CASE UNCHANGED vars
      BY <2>2 DEF vars, PageInv, SlotsReadBack
    <2> QED
      BY <2>1, <2>2
  <1> QED
    BY <1>1, <1>2, PTL DEF Spec

\* Every slot ever handed out still reads as the tuple put there, or as
\* deleted, whatever is inserted, deleted and overwritten in other slots
\* (page.cpp:126-202), for every page size and tuple length.
THEOREM SlotsReadBackCorrect ==
  Spec => []SlotsReadBack
  <1>1. PageInv => SlotsReadBack
    BY DEF PageInv
  <1> QED
    BY <1>1, PageAlways, PTL

\* The slot array and the tuples never meet, and no tuple reaches past the end
\* of the page (page.cpp:103-152): the 16-bit header fields never wrap, for
\* every page size that validate_page_size accepts.
THEOREM RegionsApartCorrect ==
  Spec => []RegionsApart
  <1>1. PageInv => RegionsApart
    BY DEF PageInv, WellFormed, Formatted, RegionsApart, Slots
  <1> QED
    BY <1>1, PageAlways, PTL
=============================================================================
