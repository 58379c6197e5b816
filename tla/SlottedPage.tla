----------------------------- MODULE SlottedPage ----------------------------
(***************************************************************************)
(* The life of one heap page, against what its callers are promised:       *)
(* "contents" holds, for every slot handed out, the tuple it stands for,   *)
(* or Deleted.                                                             *)
(***************************************************************************)
EXTENDS HeapPage

CONSTANTS
  Tuple,     \* the tuples inserted, non-empty byte sequences
  Deleted    \* the content of a deleted slot

ASSUME TupleAssumption == Tuple \subseteq Seq(Byte) \ {<<>>}
ASSUME DeletedAssumption == Deleted \notin Tuple

VARIABLES page, contents

vars == <<page, contents>>

Init ==
  /\ page = ZeroPage
  /\ contents = <<>>

Initialize ==
  /\ ValidPageSize
  /\ page' = InitializedPage
  /\ contents' = <<>>

Insert(t) ==
  /\ CanInsert(page, Len(t))
  /\ page' = InsertTuple(page, t)
  /\ contents' = Append(contents, t)

Delete(slot) ==
  /\ IsLiveSlot(page, slot)
  /\ page' = DeleteTuple(page, slot)
  /\ contents' = [contents EXCEPT ![slot + 1] = Deleted]

Overwrite(slot, t) ==
  /\ IsLiveSlot(page, slot)
  /\ Len(t) = page.slots[slot + 1].len
  /\ page' = OverwriteTuple(page, slot, t)
  /\ contents' = [contents EXCEPT ![slot + 1] = t]

Next ==
  \/ Initialize
  \/ \E t \in Tuple : Insert(t)
  \/ \E slot \in 0 .. SlotCount(page) - 1 :
       Delete(slot) \/ \E t \in Tuple : Overwrite(slot, t)

Spec == Init /\ [][Next]_vars

(***************************************************************************)
(* Properties.                                                             *)
(***************************************************************************)

\* Every slot ever handed out still reads as the tuple that was put there, or
\* as deleted: no insert, delete or overwrite of another slot touches its
\* bytes or moves it (page.cpp:126-202).
SlotsReadBack ==
  /\ SlotCount(page) = Len(contents)
  /\ \A slot \in 0 .. SlotCount(page) - 1 :
       IF IsLiveSlot(page, slot)
       THEN ReadTuple(page, slot) = contents[slot + 1]
       ELSE contents[slot + 1] = Deleted

\* The slot array and the tuples never meet: free_start is the end of the slot
\* array, it never passes free_end, and every live tuple lies between free_end
\* and the end of the page, so no operation reports Corruption and nothing is
\* written outside the page (page.cpp:103-152).
RegionsApart ==
  \/ page = ZeroPage
  \/ /\ page.free_start = PAGE_HEADER_SIZE + SLOT_SIZE * SlotCount(page)
     /\ page.free_start <= page.free_end
     /\ \A slot \in 0 .. SlotCount(page) - 1 :
          IsLiveSlot(page, slot) =>
            /\ page.free_end <= page.slots[slot + 1].offset
            /\ page.slots[slot + 1].offset + page.slots[slot + 1].len <= PageSize
=============================================================================
