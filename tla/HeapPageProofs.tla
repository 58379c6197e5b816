--------------------------- MODULE HeapPageProofs ---------------------------
(***************************************************************************)
(* What the operations on a slotted page keep and what they change, for    *)
(* every page size and every tuple.  SlottedPageProofs and                 *)
(* HeapEngineProofs rest on these lemmas.                                  *)
(***************************************************************************)
EXTENDS HeapPage, SequenceTheorems, TLAPS

USE PageSizeAssumption DEF PAGE_HEADER_SIZE, SLOT_SIZE, MAX_U16

Slot == [offset : Nat, len : Nat]

\* The regions of two tuples do not overlap.
Apart(a, b) == a.offset + a.len <= b.offset \/ b.offset + b.len <= a.offset

Slots(pg) == 0 .. SlotCount(pg) - 1

\* Everything from free_end on has been written, live tuples lie in there, and
\* no two of them overlap.
Formatted(pg) ==
  /\ ValidPageSize
  /\ pg = [slots |-> pg.slots, free_start |-> pg.free_start,
           free_end |-> pg.free_end, bytes |-> pg.bytes]
  /\ pg.slots \in Seq(Slot)
  /\ pg.free_end \in Nat
  /\ pg.free_start = PAGE_HEADER_SIZE + SLOT_SIZE * SlotCount(pg)
  /\ pg.free_start <= pg.free_end
  /\ pg.free_end <= PageSize
  /\ pg.bytes \in [pg.free_end .. PageSize - 1 -> Byte]
  /\ \A s \in Slots(pg) :
       IsLiveSlot(pg, s) => /\ pg.free_end <= pg.slots[s + 1].offset
                            /\ pg.slots[s + 1].offset + pg.slots[s + 1].len <= PageSize
  /\ \A s, r \in Slots(pg) :
       IsLiveSlot(pg, s) /\ IsLiveSlot(pg, r) /\ s # r
         => Apart(pg.slots[s + 1], pg.slots[r + 1])

WellFormed(pg) == pg = ZeroPage \/ Formatted(pg)

\* A slot is a number and a slot that is there has an offset and a length.
LEMMA SlotType ==
  ASSUME NEW pg, WellFormed(pg)
  PROVE  /\ SlotCount(pg) \in Nat
         /\ \A s \in Slots(pg) : pg.slots[s + 1] \in Slot
  BY DEF WellFormed, Formatted, ZeroPage, SlotCount, Slots

LEMMA InitializedFormatted ==
  ASSUME ValidPageSize
  PROVE  Formatted(InitializedPage) /\ SlotCount(InitializedPage) = 0
  <1>1. <<>> \in [PageSize .. PageSize - 1 -> Byte]
    OBVIOUS
  <1> QED
    BY <1>1 DEF Formatted, InitializedPage, SlotCount, ValidPageSize, Slots

LEMMA U16Identity ==
  ASSUME NEW n \in Nat, n <= MAX_U16
  PROVE  U16(n) = n
  BY DEF U16

\* A page that has room for a tuple has been initialized, and neither of the
\* two 16-bit fields that an insert computes wraps.
LEMMA InsertArithmetic ==
  ASSUME NEW pg, WellFormed(pg), NEW t \in Seq(Byte) \ {<<>>}, CanInsert(pg, Len(t))
  PROVE  /\ Formatted(pg)
         /\ Len(t) \in Nat /\ Len(t) > 0
         /\ U16(pg.free_end - Len(t)) = pg.free_end - Len(t)
         /\ U16(PAGE_HEADER_SIZE + (SlotCount(pg) + 1) * SLOT_SIZE)
              = pg.free_start + SLOT_SIZE
         /\ pg.free_start + SLOT_SIZE <= pg.free_end - Len(t)
  <1>1. Len(t) \in Nat /\ Len(t) > 0
    BY EmptySeq, LenProperties
  <1>2. Formatted(pg)
    BY <1>1 DEF WellFormed, ZeroPage, CanInsert, FreeSpace
  <1>3. SlotCount(pg) \in Nat
    BY <1>2 DEF Formatted, SlotCount
  <1>4. pg.free_start + SLOT_SIZE <= pg.free_end - Len(t)
    BY <1>1, <1>2, <1>3 DEF Formatted, CanInsert, FreeSpace
  <1>5. pg.free_end <= 65535
    BY <1>2 DEF Formatted, ValidPageSize
  <1>6. U16(pg.free_end - Len(t)) = pg.free_end - Len(t)
    <2>1. pg.free_end - Len(t) \in Nat /\ pg.free_end - Len(t) <= MAX_U16
      BY <1>1, <1>2, <1>3, <1>4, <1>5 DEF Formatted
    <2> QED
      BY <2>1, U16Identity
  <1>7. U16(PAGE_HEADER_SIZE + (SlotCount(pg) + 1) * SLOT_SIZE)
          = pg.free_start + SLOT_SIZE
    <2>1. PAGE_HEADER_SIZE + (SlotCount(pg) + 1) * SLOT_SIZE = pg.free_start + SLOT_SIZE
      BY <1>2, <1>3 DEF Formatted
    <2>2. pg.free_start + SLOT_SIZE \in Nat /\ pg.free_start + SLOT_SIZE <= MAX_U16
      BY <1>1, <1>2, <1>3, <1>4, <1>5 DEF Formatted
    <2> QED
      BY <2>1, <2>2, U16Identity
  <1> QED
    BY <1>1, <1>2, <1>4, <1>6, <1>7

\* q is pg after an insert of t, field by field: one more slot, for the bytes
\* just below free_end.
Inserted(pg, t, q) ==
  /\ q = [slots |-> q.slots, free_start |-> q.free_start,
          free_end |-> q.free_end, bytes |-> q.bytes]
  /\ q.slots = Append(pg.slots, [offset |-> q.free_end, len |-> Len(t)])
  /\ q.free_end = pg.free_end - Len(t)
  /\ q.free_start = pg.free_start + SLOT_SIZE
  /\ q.bytes = [i \in q.free_end .. PageSize - 1 |->
                  IF i < pg.free_end THEN t[i - q.free_end + 1] ELSE pg.bytes[i]]

LEMMA InsertFields ==
  ASSUME NEW pg, WellFormed(pg), NEW t \in Seq(Byte) \ {<<>>}, CanInsert(pg, Len(t)),
         NEW q, q = InsertTuple(pg, t)
  PROVE  Inserted(pg, t, q)
  <1> DEFINE offset == pg.free_end - Len(t)
             old == DOMAIN pg.bytes
  <1>1. /\ U16(pg.free_end - Len(t)) = offset
        /\ U16(PAGE_HEADER_SIZE + (SlotCount(pg) + 1) * SLOT_SIZE) = pg.free_start + SLOT_SIZE
        /\ Len(t) \in Nat /\ Len(t) > 0 /\ pg.free_start + SLOT_SIZE <= offset
        /\ Formatted(pg)
    BY InsertArithmetic
  <1>2. q = [slots |-> Append(pg.slots, [offset |-> offset, len |-> Len(t)]),
             free_start |-> pg.free_start + SLOT_SIZE,
             free_end |-> offset,
             bytes |-> [i \in old \cup offset .. offset + Len(t) - 1 |->
                          IF i >= offset /\ i < offset + Len(t)
                          THEN t[i - offset + 1] ELSE pg.bytes[i]]]
    BY <1>1, Zenon DEF InsertTuple
  <1>3. /\ old = pg.free_end .. PageSize - 1
        /\ pg.free_end \in Nat /\ pg.free_end <= PageSize
        /\ pg.free_start \in Nat
    BY <1>1 DEF Formatted, SlotCount
  <1>4. old \cup offset .. offset + Len(t) - 1 = offset .. PageSize - 1
    BY <1>1, <1>3
  <1>5. q.bytes = [i \in offset .. PageSize - 1 |->
                     IF i < pg.free_end THEN t[i - offset + 1] ELSE pg.bytes[i]]
    <2>1. q.bytes = [i \in old \cup offset .. offset + Len(t) - 1 |->
                       IF i >= offset /\ i < offset + Len(t)
                       THEN t[i - offset + 1] ELSE pg.bytes[i]]
      BY <1>2
    <2>2. ASSUME NEW i \in offset .. PageSize - 1
          PROVE  (i >= offset /\ i < offset + Len(t)) <=> i < pg.free_end
      BY <1>1, <1>3
    <2> HIDE DEF old, offset
    <2> QED
      BY <2>1, <2>2, <1>4
  <1> QED
    BY <1>2, <1>5 DEF Inserted

\* An insert leaves the slots there are alone and adds one at the end.
LEMMA InsertSlots ==
  ASSUME NEW pg, WellFormed(pg), NEW t \in Seq(Byte) \ {<<>>}, CanInsert(pg, Len(t)),
         NEW q, q = InsertTuple(pg, t)
  PROVE  /\ SlotCount(pg) \in Nat
         /\ SlotCount(q) = SlotCount(pg) + 1
         /\ Slots(q) = Slots(pg) \cup {SlotCount(pg)}
         /\ \A s \in Slots(pg) : q.slots[s + 1] = pg.slots[s + 1]
         /\ q.slots[SlotCount(pg) + 1] = [offset |-> q.free_end, len |-> Len(t)]
         /\ \A s \in Slots(pg) : IsLiveSlot(q, s) <=> IsLiveSlot(pg, s)
         /\ IsLiveSlot(q, SlotCount(pg))
  <1>0. Inserted(pg, t, q)
    BY InsertFields
  <1>1. Formatted(pg) /\ Len(t) \in Nat /\ Len(t) > 0
    BY InsertArithmetic
  <1>2. pg.slots \in Seq(Slot) /\ q.slots = Append(pg.slots, [offset |-> q.free_end, len |-> Len(t)])
    BY <1>0, <1>1 DEF Formatted, Inserted
  <1>3. /\ SlotCount(pg) \in Nat
        /\ SlotCount(q) = SlotCount(pg) + 1
        /\ Slots(q) = Slots(pg) \cup {SlotCount(pg)}
        /\ \A s \in Slots(pg) : q.slots[s + 1] = pg.slots[s + 1]
        /\ q.slots[SlotCount(pg) + 1] = [offset |-> q.free_end, len |-> Len(t)]
    BY <1>2 DEF SlotCount, Slots
  <1> QED
    BY <1>1, <1>3 DEF IsLiveSlot, Slots

LEMMA InsertFormatted ==
  ASSUME NEW pg, WellFormed(pg), NEW t \in Seq(Byte) \ {<<>>}, CanInsert(pg, Len(t)),
         NEW q, q = InsertTuple(pg, t)
  PROVE  Formatted(q)
  <1>0. Inserted(pg, t, q)
    BY InsertFields
  <1>1. /\ Formatted(pg) /\ Len(t) \in Nat /\ Len(t) > 0
        /\ pg.free_start + SLOT_SIZE <= pg.free_end - Len(t)
    BY InsertArithmetic
  <1>2. /\ SlotCount(pg) \in Nat /\ SlotCount(q) = SlotCount(pg) + 1
        /\ Slots(q) = Slots(pg) \cup {SlotCount(pg)}
        /\ \A s \in Slots(pg) : q.slots[s + 1] = pg.slots[s + 1]
        /\ q.slots[SlotCount(pg) + 1] = [offset |-> q.free_end, len |-> Len(t)]
        /\ \A s \in Slots(pg) : IsLiveSlot(q, s) <=> IsLiveSlot(pg, s)
    BY InsertSlots
  <1>3. /\ pg.free_end \in Nat /\ pg.free_start \in Nat /\ pg.free_end <= PageSize
        /\ q.free_end = pg.free_end - Len(t) /\ q.free_end \in Nat
        /\ q.free_start = pg.free_start + SLOT_SIZE
        /\ q.free_start <= q.free_end /\ q.free_end <= PageSize
    BY <1>0, <1>1, <1>2 DEF Formatted, Inserted
  <1>4. q.bytes \in [q.free_end .. PageSize - 1 -> Byte]
    <2>1. ASSUME NEW i \in q.free_end .. PageSize - 1
          PROVE  (IF i < pg.free_end THEN t[i - q.free_end + 1] ELSE pg.bytes[i]) \in Byte
      <3>1. CASE i < pg.free_end
        <4>1. i - q.free_end + 1 \in 1 .. Len(t)
          BY <1>1, <1>3, <3>1
        <4> QED
          BY <3>1, <4>1
      <3>2. CASE ~ (i < pg.free_end)
        <4>1. i \in pg.free_end .. PageSize - 1 /\ pg.bytes \in [pg.free_end .. PageSize - 1 -> Byte]
          BY <1>1, <1>3, <3>2 DEF Formatted
        <4> QED
          BY <3>2, <4>1, Zenon
      <3> QED
        BY <3>1, <3>2
    <2> QED
      BY <1>0, <2>1 DEF Inserted
  <1>5. q.slots \in Seq(Slot)
    <2>1. pg.slots \in Seq(Slot) /\ [offset |-> q.free_end, len |-> Len(t)] \in Slot
      BY <1>1, <1>3 DEF Formatted, Slot
    <2> QED
      BY <1>0, <2>1, AppendProperties DEF Inserted
  <1>6. ASSUME NEW s \in Slots(q), IsLiveSlot(q, s)
        PROVE  /\ q.free_end <= q.slots[s + 1].offset
               /\ q.slots[s + 1].offset + q.slots[s + 1].len <= PageSize
    <2>1. CASE s \in Slots(pg)
      <3>1. /\ pg.free_end <= pg.slots[s + 1].offset
            /\ pg.slots[s + 1].offset + pg.slots[s + 1].len <= PageSize
        BY <1>1, <1>2, <1>6, <2>1 DEF Formatted
      <3>2. pg.slots[s + 1] \in Slot
        BY <2>1, SlotType
      <3> QED
        BY <1>1, <1>2, <1>3, <2>1, <3>1, <3>2 DEF Slot
    <2>2. CASE s = SlotCount(pg)
      BY <1>1, <1>2, <1>3, <2>2
    <2> QED
      BY <1>2, <2>1, <2>2
  <1>7. ASSUME NEW s \in Slots(q), NEW r \in Slots(q),
               IsLiveSlot(q, s), IsLiveSlot(q, r), s # r
        PROVE  Apart(q.slots[s + 1], q.slots[r + 1])
    <2>1. CASE s \in Slots(pg) /\ r \in Slots(pg)
      BY <1>1, <1>2, <1>7, <2>1 DEF Formatted
    <2>2. CASE s \in Slots(pg) /\ r = SlotCount(pg)
      <3>1. s \in Slots(pg) /\ pg.slots[s + 1] \in Slot /\ pg.free_end <= pg.slots[s + 1].offset
        BY <1>1, <1>2, <1>7, <2>2, SlotType DEF Formatted
      <3> QED
        BY <1>1, <1>2, <1>3, <2>2, <3>1 DEF Apart, Slot
    <2>3. CASE r \in Slots(pg) /\ s = SlotCount(pg)
      <3>1. r \in Slots(pg) /\ pg.slots[r + 1] \in Slot /\ pg.free_end <= pg.slots[r + 1].offset
        BY <1>1, <1>2, <1>7, <2>3, SlotType DEF Formatted
      <3> QED
        BY <1>1, <1>2, <1>3, <2>3, <3>1 DEF Apart, Slot
    <2> QED
      BY <1>2, <1>7, <2>1, <2>2, <2>3
  <1>8. q.free_start = PAGE_HEADER_SIZE + SLOT_SIZE * SlotCount(q)
    BY <1>1, <1>2, <1>3 DEF Formatted
  <1>9. q = [slots |-> q.slots, free_start |-> q.free_start,
             free_end |-> q.free_end, bytes |-> q.bytes]
    BY <1>0 DEF Inserted
  <1> QED
    BY <1>1, <1>3, <1>4, <1>5, <1>6, <1>7, <1>8, <1>9 DEF Formatted

\* Slot s stands for the same tuple, or is free, in both pages.
SameTuple(pg, q, s) ==
  /\ IsLiveSlot(q, s) <=> IsLiveSlot(pg, s)
  /\ IsLiveSlot(pg, s) => ReadTuple(q, s) = ReadTuple(pg, s)

\* The bytes of a live tuple are bytes of the page.
LEMMA LiveBytes ==
  ASSUME NEW pg, Formatted(pg), NEW s \in Slots(pg), IsLiveSlot(pg, s),
         NEW i \in 1 .. pg.slots[s + 1].len
  PROVE  /\ pg.slots[s + 1].offset + i - 1 \in pg.free_end .. PageSize - 1
         /\ pg.slots[s + 1].offset + i - 1 \in DOMAIN pg.bytes
  <1>1. /\ pg.free_end \in Nat
        /\ pg.free_end <= pg.slots[s + 1].offset
        /\ pg.slots[s + 1].offset + pg.slots[s + 1].len <= PageSize
        /\ DOMAIN pg.bytes = pg.free_end .. PageSize - 1
    BY DEF Formatted
  <1>2. pg.slots[s + 1].offset \in Nat /\ pg.slots[s + 1].len \in Nat
    BY SlotType DEF WellFormed, Slot
  <1> QED
    BY <1>1, <1>2

\* The new slot reads as the tuple that was inserted, every other slot as before.
LEMMA InsertReads ==
  ASSUME NEW pg, WellFormed(pg), NEW t \in Seq(Byte) \ {<<>>}, CanInsert(pg, Len(t)),
         NEW q, q = InsertTuple(pg, t)
  PROVE  /\ \A s \in Slots(pg) : SameTuple(pg, q, s)
         /\ ReadTuple(q, SlotCount(pg)) = t
  <1>0. Inserted(pg, t, q)
    BY InsertFields
  <1>1. /\ Formatted(pg) /\ Len(t) \in Nat /\ Len(t) > 0
        /\ pg.free_start + SLOT_SIZE <= pg.free_end - Len(t)
    BY InsertArithmetic
  <1>2. /\ SlotCount(pg) \in Nat
        /\ \A s \in Slots(pg) : q.slots[s + 1] = pg.slots[s + 1]
        /\ q.slots[SlotCount(pg) + 1] = [offset |-> q.free_end, len |-> Len(t)]
        /\ \A s \in Slots(pg) : IsLiveSlot(q, s) <=> IsLiveSlot(pg, s)
    BY InsertSlots
  <1>3. /\ pg.free_end \in Nat /\ pg.free_end <= PageSize
        /\ q.free_end = pg.free_end - Len(t) /\ q.free_end \in Nat
    BY <1>0, <1>1, <1>2 DEF Formatted, Inserted
  <1>4. ASSUME NEW s \in Slots(pg), IsLiveSlot(pg, s)
        PROVE  ReadTuple(q, s) = ReadTuple(pg, s)
    <2>1. ASSUME NEW i \in 1 .. pg.slots[s + 1].len
          PROVE  q.bytes[pg.slots[s + 1].offset + i - 1] = pg.bytes[pg.slots[s + 1].offset + i - 1]
      <3>1. pg.slots[s + 1].offset + i - 1 \in pg.free_end .. PageSize - 1
        BY <1>1, <1>4, LiveBytes
      <3> QED
        BY <1>0, <1>1, <1>3, <3>1 DEF Inserted
    <2> QED
      BY <1>2, <2>1 DEF ReadTuple
  <1>5. ReadTuple(q, SlotCount(pg)) = t
    <2>1. ReadTuple(q, SlotCount(pg)) = [i \in 1 .. Len(t) |-> q.bytes[q.free_end + i - 1]]
      BY <1>2 DEF ReadTuple
    <2>2. ASSUME NEW i \in 1 .. Len(t)
          PROVE  q.bytes[q.free_end + i - 1] = t[i]
      <3>1. /\ q.free_end + i - 1 \in q.free_end .. PageSize - 1
            /\ q.free_end + i - 1 < pg.free_end
            /\ (q.free_end + i - 1) - q.free_end + 1 = i
        BY <1>1, <1>3
      <3> QED
        BY <1>0, <3>1 DEF Inserted
    <2>3. t = [i \in 1 .. Len(t) |-> t[i]]
      BY LenProperties
    <2> QED
      BY <2>1, <2>2, <2>3
  <1> QED
    BY <1>2, <1>4, <1>5 DEF SameTuple

\* q is pg with slot d freed and nothing else touched.
Freed(pg, d, q) ==
  /\ q.free_start = pg.free_start /\ q.free_end = pg.free_end
  /\ q.bytes = pg.bytes
  /\ q = [slots |-> q.slots, free_start |-> q.free_start,
          free_end |-> q.free_end, bytes |-> q.bytes]
  /\ q.slots \in Seq(Slot)
  /\ SlotCount(q) = SlotCount(pg)
  /\ \A s \in Slots(pg) \ {d} : q.slots[s + 1] = pg.slots[s + 1]
  /\ ~ IsLiveSlot(q, d)
  /\ \A s \in Slots(pg) \ {d} : SameTuple(pg, q, s)

LEMMA DeleteFrees ==
  ASSUME NEW pg, Formatted(pg), NEW d \in Slots(pg), NEW q, q = DeleteTuple(pg, d)
  PROVE  Freed(pg, d, q)
  <1>1. /\ pg.slots \in Seq(Slot)
        /\ pg = [slots |-> pg.slots, free_start |-> pg.free_start,
                 free_end |-> pg.free_end, bytes |-> pg.bytes]
    BY DEF Formatted
  <1>2. q = [slots |-> [pg.slots EXCEPT ![d + 1] = [offset |-> 0, len |-> 0]],
             free_start |-> pg.free_start, free_end |-> pg.free_end, bytes |-> pg.bytes]
    BY <1>1, Zenon DEF DeleteTuple
  <1>3. q.slots = [pg.slots EXCEPT ![d + 1] = [offset |-> 0, len |-> 0]]
    BY <1>2
  <1>4. [offset |-> 0, len |-> 0] \in Slot
    BY DEF Slot
  <1>5. /\ q.slots \in Seq(Slot) /\ SlotCount(q) = SlotCount(pg) /\ SlotCount(pg) \in Nat
        /\ q.slots[d + 1] = [offset |-> 0, len |-> 0]
        /\ \A s \in Slots(pg) \ {d} : q.slots[s + 1] = pg.slots[s + 1]
    BY <1>1, <1>3, <1>4, ExceptSeq DEF Slots, SlotCount
  <1>6. q.bytes = pg.bytes
    BY <1>2
  <1>7. \A s \in Slots(pg) \ {d} : SameTuple(pg, q, s)
    BY <1>5, <1>6 DEF SameTuple, IsLiveSlot, ReadTuple
  <1>8. ~ IsLiveSlot(q, d)
    BY <1>5 DEF IsLiveSlot
  <1> QED
    BY <1>2, <1>5, <1>6, <1>7, <1>8 DEF Freed

LEMMA DeleteFormatted ==
  ASSUME NEW pg, Formatted(pg), NEW d \in Slots(pg), NEW q, q = DeleteTuple(pg, d)
  PROVE  Formatted(q)
  <1>1. Freed(pg, d, q)
    BY DeleteFrees
  <1>2. \A s \in Slots(q) : IsLiveSlot(q, s) => /\ s \in Slots(pg) /\ IsLiveSlot(pg, s)
                                                /\ q.slots[s + 1] = pg.slots[s + 1]
    BY <1>1 DEF Freed, Slots, SameTuple
  <1> QED
    BY <1>1, <1>2 DEF Formatted, Freed

\* q is pg with other bytes in the region of slot w only.
Rewritten(pg, w, t, q) ==
  /\ q.slots = pg.slots
  /\ q.free_start = pg.free_start /\ q.free_end = pg.free_end
  /\ q = [slots |-> q.slots, free_start |-> q.free_start,
          free_end |-> q.free_end, bytes |-> q.bytes]
  /\ q.bytes = [i \in DOMAIN pg.bytes |->
                  IF /\ i >= pg.slots[w + 1].offset
                     /\ i < pg.slots[w + 1].offset + pg.slots[w + 1].len
                  THEN t[i - pg.slots[w + 1].offset + 1] ELSE pg.bytes[i]]

LEMMA OverwriteFields ==
  ASSUME NEW pg, Formatted(pg), NEW w \in Slots(pg), NEW t,
         NEW q, q = OverwriteTuple(pg, w, t)
  PROVE  Rewritten(pg, w, t, q)
  <1>1. pg = [slots |-> pg.slots, free_start |-> pg.free_start,
              free_end |-> pg.free_end, bytes |-> pg.bytes]
    BY DEF Formatted
  <1> DEFINE s == pg.slots[w + 1]
             b == [i \in DOMAIN pg.bytes |->
                     IF i >= s.offset /\ i < s.offset + s.len
                     THEN t[i - s.offset + 1] ELSE pg.bytes[i]]
  <1>2. q = [pg EXCEPT !.bytes = b]
    BY Zenon DEF OverwriteTuple
  <1> HIDE DEF b
  <1>3. q = [slots |-> pg.slots, free_start |-> pg.free_start,
             free_end |-> pg.free_end, bytes |-> b]
    BY <1>1, <1>2
  <1>4. /\ q.slots = pg.slots /\ q.bytes = b
        /\ q.free_start = pg.free_start /\ q.free_end = pg.free_end
    BY <1>3
  <1> QED
    BY <1>3, <1>4, Zenon DEF Rewritten, b

LEMMA OverwriteFormatted ==
  ASSUME NEW pg, Formatted(pg), NEW w \in Slots(pg), IsLiveSlot(pg, w),
         NEW t \in Seq(Byte) \ {<<>>}, Len(t) = pg.slots[w + 1].len,
         NEW q, q = OverwriteTuple(pg, w, t)
  PROVE  Formatted(q)
  <1>1. Rewritten(pg, w, t, q)
    BY OverwriteFields
  <1>2. pg.bytes \in [pg.free_end .. PageSize - 1 -> Byte] /\ pg.free_end \in Nat
    BY DEF Formatted
  <1>3. pg.slots[w + 1].offset \in Nat /\ pg.slots[w + 1].len \in Nat
    BY SlotType DEF WellFormed, Slot
  <1>4. ASSUME NEW i \in pg.free_end .. PageSize - 1,
               i >= pg.slots[w + 1].offset, i < pg.slots[w + 1].offset + pg.slots[w + 1].len
        PROVE  t[i - pg.slots[w + 1].offset + 1] \in Byte
    <2>1. i - pg.slots[w + 1].offset + 1 \in 1 .. Len(t)
      BY <1>2, <1>3, <1>4
    <2> QED
      BY <2>1
  <1>5. q.bytes \in [q.free_end .. PageSize - 1 -> Byte]
    BY <1>1, <1>2, <1>4 DEF Rewritten
  <1> QED
    BY <1>1, <1>5 DEF Formatted, Rewritten, Slots, SlotCount, IsLiveSlot

\* The slot reads as the new tuple, every other slot as before.
LEMMA OverwriteReads ==
  ASSUME NEW pg, Formatted(pg), NEW w \in Slots(pg), IsLiveSlot(pg, w),
         NEW t \in Seq(Byte) \ {<<>>}, Len(t) = pg.slots[w + 1].len,
         NEW q, q = OverwriteTuple(pg, w, t)
  PROVE  /\ SlotCount(q) = SlotCount(pg)
         /\ \A s \in Slots(pg) \ {w} : SameTuple(pg, q, s)
         /\ IsLiveSlot(q, w)
         /\ ReadTuple(q, w) = t
  <1>1. Rewritten(pg, w, t, q)
    BY OverwriteFields
  <1>2. \A s \in Slots(pg) : pg.slots[s + 1].offset \in Nat /\ pg.slots[s + 1].len \in Nat
    BY SlotType DEF WellFormed, Slot
  <1>3. ASSUME NEW s \in Slots(pg) \ {w}, IsLiveSlot(pg, s)
        PROVE  ReadTuple(q, s) = ReadTuple(pg, s)
    <2>1. Apart(pg.slots[s + 1], pg.slots[w + 1])
      BY <1>3 DEF Formatted
    <2>2. ASSUME NEW i \in 1 .. pg.slots[s + 1].len
          PROVE  q.bytes[pg.slots[s + 1].offset + i - 1] = pg.bytes[pg.slots[s + 1].offset + i - 1]
      <3>1. pg.slots[s + 1].offset + i - 1 \in DOMAIN pg.bytes
        BY <1>3, LiveBytes
      <3> DEFINE k == pg.slots[s + 1].offset + i - 1
      <3>2. ~ (/\ k >= pg.slots[w + 1].offset
               /\ k < pg.slots[w + 1].offset + pg.slots[w + 1].len)
        BY <1>2, <2>1 DEF Apart
      <3> HIDE DEF k
      <3>3. k \in DOMAIN pg.bytes
        BY <3>1 DEF k
      <3>4. q.bytes[k] = pg.bytes[k]
        BY <1>1, <3>2, <3>3 DEF Rewritten
      <3> QED
        BY <3>4 DEF k
    <2> QED
      BY <1>1, <2>2, Zenon DEF ReadTuple, Rewritten
  <1>4. ReadTuple(q, w) = t
    <2>1. ReadTuple(q, w) = [i \in 1 .. Len(t) |-> q.bytes[pg.slots[w + 1].offset + i - 1]]
      BY <1>1 DEF ReadTuple, Rewritten
    <2>2. ASSUME NEW i \in 1 .. Len(t)
          PROVE  q.bytes[pg.slots[w + 1].offset + i - 1] = t[i]
      <3> DEFINE k == pg.slots[w + 1].offset + i - 1
      <3>1. k \in DOMAIN pg.bytes
        BY LiveBytes
      <3>2. /\ k >= pg.slots[w + 1].offset
            /\ k < pg.slots[w + 1].offset + pg.slots[w + 1].len
            /\ k - pg.slots[w + 1].offset + 1 = i
        BY <1>2
      <3> HIDE DEF k
      <3>3. q.bytes[k] = t[i]
        BY <1>1, <3>1, <3>2 DEF Rewritten
      <3> QED
        BY <3>3 DEF k
    <2>3. t = [i \in 1 .. Len(t) |-> t[i]]
      BY LenProperties
    <2> QED
      BY <2>1, <2>2, <2>3
  <1> QED
    BY <1>1, <1>3, <1>4 DEF Rewritten, SameTuple, IsLiveSlot, SlotCount
=============================================================================
