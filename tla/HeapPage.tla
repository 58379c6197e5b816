------------------------------ MODULE HeapPage ------------------------------
(***************************************************************************)
(* Slotted heap pages (src/storage/engine/heap/page.cpp) as operators on   *)
(* page values.  Slots grow from the header up, tuples from the end of the *)
(* page down.  A page is a record of                                       *)
(*                                                                         *)
(*   slots                  the slot array: offset and length of each slot *)
(*   free_start, free_end   the two header fields that delimit free space  *)
(*   bytes                  the tuple bytes written so far, by offset      *)
(*                                                                         *)
(* A tuple is a sequence of bytes.                                         *)
(***************************************************************************)
EXTENDS Integers, Sequences

CONSTANTS
  PageSize,   \* config.page_size
  Byte        \* values of a byte

ASSUME PageSizeAssumption == PageSize \in Nat \ {0}

PAGE_HEADER_SIZE == 28
SLOT_SIZE == 4
MAX_U16 == 65535

U16(n) == n % (MAX_U16 + 1)

\* validate_page_size: every operation fails on a page of another size.
ValidPageSize == PAGE_HEADER_SIZE <= PageSize /\ PageSize <= MAX_U16

\* A page of zeros: no slots, and no free space either.
ZeroPage ==
  [slots |-> <<>>, free_start |-> 0, free_end |-> 0, bytes |-> <<>>]

\* initialize_page
InitializedPage ==
  [slots |-> <<>>, free_start |-> PAGE_HEADER_SIZE, free_end |-> PageSize,
   bytes |-> <<>>]

SlotCount(page) == Len(page.slots)

FreeSpace(page) == page.free_end - page.free_start

\* Mutant: the room for the slot is forgotten.
CanInsertTupleOnly(page, size) ==
  /\ size <= MAX_U16
  /\ FreeSpace(page) >= size

\* can_insert.  free_space reports Corruption when free_end < free_start,
\* which SlottedPage shows never to happen.
CanInsert(page, size) ==
  /\ size <= MAX_U16
  /\ FreeSpace(page) >= size + SLOT_SIZE

\* insert_tuple, when CanInsert.  The tuple gets slot SlotCount(page).
InsertTuple(page, tuple) ==
  LET offset == U16(page.free_end - Len(tuple))
      old == DOMAIN page.bytes
  IN [slots |-> Append(page.slots, [offset |-> offset, len |-> Len(tuple)]),
      free_start |->
        U16(PAGE_HEADER_SIZE + (SlotCount(page) + 1) * SLOT_SIZE),
      free_end |-> offset,
      bytes |-> [i \in old \cup offset .. offset + Len(tuple) - 1 |->
                   IF i >= offset /\ i < offset + Len(tuple)
                   THEN tuple[i - offset + 1] ELSE page.bytes[i]]]

\* is_live_slot; slots are numbered from 0
IsLiveSlot(page, slot) ==
  /\ slot < SlotCount(page)
  /\ page.slots[slot + 1].len # 0

\* Mutant: the slot is taken out of the slot array.
DeleteSlot(page, slot) ==
  [page EXCEPT !.slots = SubSeq(@, 1, slot) \o SubSeq(@, slot + 2, Len(@))]

\* delete_tuple, of a live slot.  The bytes stay, and so does the slot.
DeleteTuple(page, slot) ==
  [page EXCEPT !.slots[slot + 1] = [offset |-> 0, len |-> 0]]

\* read_tuple, of a live slot that ends within the page
ReadTuple(page, slot) ==
  LET s == page.slots[slot + 1]
  IN [i \in 1 .. s.len |-> page.bytes[s.offset + i - 1]]

\* overwrite_tuple, of a live slot with a tuple of the same length
OverwriteTuple(page, slot, tuple) ==
  LET s == page.slots[slot + 1]
  IN [page EXCEPT !.bytes =
        [i \in DOMAIN page.bytes |->
           IF i >= s.offset /\ i < s.offset + s.len
           THEN tuple[i - s.offset + 1] ELSE page.bytes[i]]]
=============================================================================
