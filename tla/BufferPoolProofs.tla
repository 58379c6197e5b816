-------------------------- MODULE BufferPoolProofs --------------------------
(***************************************************************************)
(* Proofs about BufferPool, for every number of frames, pages, handles and *)
(* page contents: what a pool keeps of its frames, pins and handles, and,  *)
(* when a read that fails leaves the caller's buffer alone, that a         *)
(* successful flush_all or close makes every page durable and that the     *)
(* pool implements DurablePages.                                           *)
(***************************************************************************)
EXTENDS BufferPool, FiniteSetTheorems, TLAPS

USE CapacityAssumption, MaxPagesAssumption, DataAssumption,
    MaxDroppedAssumption, PartialReadsAssumption, NoHandleAssumption

(***************************************************************************)
(* Types.                                                                  *)
(***************************************************************************)

LEMMA BlankFrameType == BlankFrame \in FrameState
  BY DEF BlankFrame, FrameState, PageId

LEMMA CachedType ==
  ASSUME NEW p \in PageId, NEW d \in Data, NEW b \in BOOLEAN, NEW n \in Nat
  PROVE  Cached(p, d, b, n) \in FrameState
  BY DEF Cached, FrameState

LEMMA NewHandleType ==
  ASSUME NEW f \in Frame, NEW p \in PageId
  PROVE  NewHandle(f, p) \in FrameHandle
  BY DEF NewHandle, FrameHandle

\* The file after any write-back or flush is again a file.
LEMMA WrittenFileType ==
  ASSUME TypeOK
  PROVE  /\ \A f \in Frame : WrittenBack(f) \in [PageId -> Data]
         /\ \A k \in Frame \cup {Capacity} :
              /\ FlushedDisk(k) \in [PageId -> Data]
              /\ FlushedFrames(k) \in [Frame -> FrameState]
  BY Zenon DEF TypeOK, WrittenBack, FlushedDisk, FlushedFrames, Flushing,
         NeedsWriteBack, FrameState, Frame, PageId

\* Writing keeps the file and what may survive of it well typed.
LEMMA PersistType ==
  ASSUME TypeOK, NEW new \in [PageId -> Data], Persist(new)
  PROVE  disk' \in [PageId -> Data] /\ platter' \in [PageId -> SUBSET Data]
  BY DEF TypeOK, Persist

LEMMA WriteBackFailsType ==
  ASSUME TypeOK, NEW f \in Frame, NEW d \in [PageId -> Data], WriteBackFails(f, d)
  PROVE  disk' \in [PageId -> Data] /\ platter' \in [PageId -> SUBSET Data]
  <1>1. [d EXCEPT ![frames[f].page_id] = Mixed] \in [PageId -> Data]
    BY Zenon
  <1> QED
    BY <1>1, PersistType, Zenon DEF WriteBackFails

LEMMA NoneDroppedType == NoneDropped \in [Frame -> 0 .. MaxDropped]
  BY DEF NoneDropped

\* The steps that only let handles go.
LetGo ==
  \/ \E h \in Handles : Release(h)
  \/ \E g, h \in Handles : Move(g, h)

LEMMA TypeInit == Init => TypeOK
  <1> SUFFICES ASSUME Init PROVE TypeOK
    OBVIOUS
  <1>1. frames \in [Frame -> FrameState]
    BY BlankFrameType DEF Init
  <1>2. handle \in [Handles -> FrameHandle \cup {NoHandle}]
    BY DEF Init
  <1>3. page_count \in 0 .. MaxPages /\ synced_count \in 0 .. page_count
    BY DEF Init
  <1> QED
    BY <1>1, <1>2, <1>3, NoneDroppedType, Zenon DEF Init, TypeOK

LEMMA TypeStep == TypeOK /\ [Next]_vars => TypeOK'
  <1> SUFFICES ASSUME TypeOK, [Next]_vars
               PROVE  TypeOK'
    OBVIOUS
  <1>1. CASE Open
    BY <1>1, BlankFrameType, NoneDroppedType DEF Open, TypeOK, fileVars
  <1>2. CASE AllocatePage
    BY <1>2 DEF AllocatePage, TypeOK
  <1>3. ASSUME NEW h \in Handles, NEW p \in PageId, Fetch(h, p)
        PROVE  TypeOK'
    <2>1. CASE FetchHit(h, p)
      <3> PICK f \in FramesOf(p) :
                 frames' = [frames EXCEPT ![f] =
                              Cached(p, frames[f].data, frames[f].dirty,
                                     frames[f].pin_count + 1)]
        BY <2>1, Zenon DEF FetchHit
      <3>1. /\ f \in Frame /\ frames[f].data \in Data
            /\ frames[f].dirty \in BOOLEAN /\ frames[f].pin_count + 1 \in Nat
        BY DEF FramesOf, TypeOK, FrameState
      <3>2. frames' \in [Frame -> FrameState]
        BY <3>1, CachedType DEF TypeOK
      <3>3. handle' \in [Handles -> FrameHandle \cup {NoHandle}]
        BY <2>1, NewHandleType DEF FetchHit, FramesOf, TypeOK
      <3> QED
        BY <2>1, <3>2, <3>3 DEF FetchHit, TypeOK, fileVars
    <2>2. ASSUME NEW f \in Frame, EvictFails(f)
          PROVE  TypeOK'
      BY <2>2, WriteBackFailsType DEF EvictFails, TypeOK
    <2>3. ASSUME NEW f \in Frame, ReadFails(f, p)
          PROVE  TypeOK'
      <3>1. frames' \in [Frame -> FrameState]
        BY <2>3 DEF ReadFails, TypeOK, FrameState
      <3> QED
        BY <2>3, <3>1, WrittenFileType, PersistType DEF ReadFails, TypeOK
    <2>4. ASSUME NEW f \in Frame, LoadPage(h, f, p)
          PROVE  TypeOK'
      BY <2>4, WrittenFileType, PersistType, CachedType, NewHandleType, Zenon
         DEF LoadPage, TypeOK
    <2> QED
      BY <1>3, <2>1, <2>2, <2>3, <2>4
         DEF Fetch, FetchMiss, Victims, InvalidFrames
  <1>4. ASSUME NEW h \in Handles, NEW p \in PageId, FetchNew(h, p)
        PROVE  TypeOK'
    <2>1. CASE FetchNewHit(h, p)
      <3> PICK f \in FramesOf(p) :
                 frames' = [frames EXCEPT ![f] =
                              Cached(p, Zero, TRUE, frames[f].pin_count + 1)]
        BY <2>1, Zenon DEF FetchNewHit
      <3>1. f \in Frame /\ frames[f].pin_count + 1 \in Nat
        BY DEF FramesOf, TypeOK, FrameState
      <3>2. frames' \in [Frame -> FrameState]
        BY <3>1, CachedType, Zenon DEF TypeOK
      <3>3. handle' \in [Handles -> FrameHandle \cup {NoHandle}]
        BY <2>1, NewHandleType DEF FetchNewHit, FramesOf, TypeOK
      <3> QED
        BY <2>1, <3>2, <3>3, Zenon DEF FetchNewHit, TypeOK, fileVars
    <2>2. ASSUME NEW f \in Frame, EvictFails(f)
          PROVE  TypeOK'
      BY <2>2, WriteBackFailsType DEF EvictFails, TypeOK
    <2>3. ASSUME NEW f \in Frame, LoadBlankPage(h, f, p)
          PROVE  TypeOK'
      BY <2>3, WrittenFileType, PersistType, CachedType, NewHandleType, Zenon
         DEF LoadBlankPage, TypeOK
    <2> QED
      BY <1>4, <2>1, <2>2, <2>3
         DEF FetchNew, FetchNewMiss, Victims, InvalidFrames
  <1>5. ASSUME NEW h \in Handles, NEW d \in Data \ {Mixed}, Write(h, d)
        PROVE  TypeOK'
    BY <1>5, Zenon DEF Write, Live, TypeOK, FrameState, FrameHandle, fileVars
  <1>6. ASSUME NEW h \in Handles, NEW dirty \in BOOLEAN, Unpin(h, dirty)
        PROVE  TypeOK'
    <2> DEFINE i == handle[h].index
    <2>1. i \in Frame
      BY <1>6 DEF Unpin, Live, TypeOK, FrameHandle
    <2>2. /\ frames[i].page_id \in PageId /\ frames[i].data \in Data
          /\ frames[i].pin_count - 1 \in Nat
      BY <1>6, <2>1 DEF Unpin, TypeOK, FrameState
    <2>3. (frames[i].dirty \/ dirty) \in BOOLEAN
      OBVIOUS
    <2>4. frames' \in [Frame -> FrameState]
      BY <1>6, <2>1, <2>2, <2>3, CachedType, Zenon DEF Unpin, TypeOK
    <2> QED
      BY <1>6, <2>4 DEF Unpin, TypeOK, fileVars
  <1>7. ASSUME NEW p \in PageId, Flush(p)
        PROVE  TypeOK'
    <2> PICK f \in Frame :
               \/ EvictFails(f)
               \/ /\ Persist(WrittenBack(f))
                  /\ frames' = [frames EXCEPT ![f].dirty = FALSE]
                  /\ UNCHANGED <<store, handle, dropped, page_count, synced_count>>
      BY <1>7, Zenon DEF Flush, FramesOf
    <2>1. CASE EvictFails(f)
      BY <2>1, WriteBackFailsType DEF EvictFails, TypeOK
    <2>2. CASE frames' = [frames EXCEPT ![f].dirty = FALSE]
      <3>1. frames' \in [Frame -> FrameState]
        BY <2>2, Zenon DEF TypeOK, FrameState
      <3> QED
        BY <2>1, <3>1, WrittenFileType, PersistType DEF TypeOK
    <2> QED
      BY <2>1, <2>2
  <1>8. ASSUME FlushAllFails
        PROVE  TypeOK'
    BY <1>8, WrittenFileType, PersistType, WriteBackFailsType
       DEF FlushAllFails, TypeOK, Frame
  <1>9. ASSUME FlushAllSucceeds, dropped' \in [Frame -> 0 .. MaxDropped],
               frames' \in [Frame -> FrameState], store' \in BOOLEAN
        PROVE  TypeOK'
    BY <1>9, WrittenFileType DEF FlushAllSucceeds, Synced, TypeOK
  <1>10. CASE FlushAll
    BY <1>8, <1>9, <1>10, WrittenFileType, Zenon DEF FlushAll, TypeOK
  <1>11. CASE Close
    BY <1>8, <1>9, <1>11, BlankFrameType, NoneDroppedType, Zenon DEF Close
  <1>12. CASE Destroy
    BY <1>12, BlankFrameType, NoneDroppedType, Zenon
       DEF Destroy, Gone, TypeOK, fileVars
  <1>13. CASE Crash
    <2>1. frames' \in [Frame -> FrameState]
      BY <1>13, BlankFrameType DEF Crash, Gone
    <2>2. page_count' \in 0 .. MaxPages /\ synced_count' \in 0 .. page_count'
      BY <1>13 DEF Crash, TypeOK
    <2>3. platter' \in [PageId -> SUBSET Data]
      BY <1>13 DEF Crash
    <2> QED
      BY <1>13, <2>1, <2>2, <2>3, NoneDroppedType, Zenon DEF Crash, Gone, TypeOK
  <1>14. CASE UNCHANGED vars
    BY <1>14 DEF vars, TypeOK
  <1>15. ASSUME NEW h \in Handles, Release(h)
         PROVE  TypeOK'
    <2>1. handle[h].index \in Frame
      BY <1>15 DEF Release, Live, TypeOK, FrameHandle
    <2>2. dropped' \in [Frame -> 0 .. MaxDropped]
      BY <1>15, <2>1 DEF Release, TypeOK
    <2> QED
      BY <1>15, <2>2 DEF Release, TypeOK, fileVars
  <1>16. ASSUME NEW g \in Handles, NEW h \in Handles, Move(g, h)
         PROVE  TypeOK'
    <2>1. dropped' \in [Frame -> 0 .. MaxDropped]
      BY <1>16 DEF Move, TypeOK
    <2>2. handle' \in [Handles -> FrameHandle \cup {NoHandle}]
      BY <1>16 DEF Move, TypeOK
    <2> QED
      BY <1>16, <2>1, <2>2 DEF Move, TypeOK, fileVars
  <1> QED
    BY <1>1, <1>2, <1>3, <1>4, <1>5, <1>6, <1>7, <1>10, <1>11, <1>12,
       <1>13, <1>14, <1>15, <1>16 DEF Next

\* Every operation of the pool keeps the frame table, the handles and the
\* file well typed; in particular no unpin takes a pin count below zero.
THEOREM TypeCorrect == Spec => []TypeOK
  BY TypeInit, TypeStep, PTL DEF Spec

(***************************************************************************)
(* Residency and pins.  None of the three invariants is inductive alone:   *)
(* a victim has no handle on it because its pin count is right, and the    *)
(* pin count of an unused frame is zero because handles are stable and     *)
(* pins that nobody can take back keep their frame in use.                 *)
(***************************************************************************)
DroppedResident == \A f \in Frame : ~frames[f].valid => dropped[f] = 0

PinsInv ==
  /\ TypeOK
  /\ OneFramePerPage
  /\ PinAccounting
  /\ HandlesStable
  /\ DroppedResident

LEMMA HandlesOnFinite ==
  \A f : IsFiniteSet(HandlesOn(f)) /\ Cardinality(HandlesOn(f)) \in Nat
  BY HandlesAssumption, FS_Subset, FS_CardinalityType DEF HandlesOn

\* A frame the pool takes as a victim has no handle on it.
LEMMA VictimUnpinned ==
  ASSUME PinsInv, NEW f \in Victims
  PROVE  f \in Frame /\ frames[f].pin_count = 0 /\ HandlesOn(f) = {}
  <1>1. f \in Frame
    BY DEF Victims, InvalidFrames
  <1>2. CASE ~frames[f].valid
    <2>1. HandlesOn(f) = {}
      BY <1>1, <1>2 DEF PinsInv, HandlesStable, HandlesOn
    <2>2. Cardinality(HandlesOn(f)) = 0 /\ dropped[f] = 0
      BY <1>1, <1>2, <2>1, FS_EmptySet, Zenon DEF PinsInv, DroppedResident
    <2>3. frames[f].pin_count = 0
      BY <1>1, <2>2 DEF PinsInv, PinAccounting
    <2> QED
      BY <1>1, <2>1, <2>3
  <1>3. CASE frames[f].pin_count = 0
    <2>1. Cardinality(HandlesOn(f)) = 0
      BY <1>1, <1>3, HandlesOnFinite DEF PinsInv, PinAccounting, TypeOK
    <2> QED
      BY <1>1, <1>3, <2>1, FS_EmptySet, HandlesOnFinite, Zenon
  <1> QED
    BY <1>1, <1>2, <1>3 DEF Victims, InvalidFrames

\* A step that grants a handle on frame f for page p.
LEMMA GrantKeepsPins ==
  ASSUME PinsInv, TypeOK', store, UNCHANGED <<store, dropped>>,
         NEW h \in Handles, ~Live(h), NEW f \in Frame, NEW p \in PageId,
         NEW d, NEW b,
         \A g \in FramesOf(p) : g = f,
         HandlesOn(f) # {} => frames[f].page_id = p,
         frames' = [frames EXCEPT ![f] =
                      Cached(p, d, b, frames[f].pin_count + 1)],
         handle' = [handle EXCEPT ![h] = NewHandle(f, p)]
  PROVE  PinsInv'
  <1> USE DEF PinsInv
  <1>1. /\ frames'[f].page_id = p /\ frames'[f].valid
        /\ frames'[f].pin_count = frames[f].pin_count + 1
        /\ \A g \in Frame \ {f} : frames'[g] = frames[g]
    BY DEF TypeOK, Cached
  <1>2. /\ handle'[h].index = f /\ handle'[h].id = p /\ Live(h)'
        /\ \A g \in Handles \ {h} : handle'[g] = handle[g]
    BY NewHandleType DEF TypeOK, NewHandle, Live
  <1>3. OneFramePerPage'
    BY <1>1 DEF OneFramePerPage, FramesOf, TypeOK
  <1>4. PinAccounting'
    <2>1. HandlesOn(f)' = HandlesOn(f) \cup {h}
      BY <1>2 DEF HandlesOn, Live
    <2>2. h \notin HandlesOn(f)
      BY DEF HandlesOn
    <2>3. Cardinality(HandlesOn(f)') = Cardinality(HandlesOn(f)) + 1
      BY <2>1, <2>2, HandlesOnFinite, FS_AddElement, Zenon
    <2>4. \A g \in Frame \ {f} : HandlesOn(g)' = HandlesOn(g)
      BY <1>2 DEF HandlesOn, Live
    <2> QED
      BY <1>1, <2>3, <2>4, HandlesOnFinite DEF PinAccounting, TypeOK
  <1>5. HandlesStable'
    <2> SUFFICES ASSUME NEW g \in Handles, Live(g)'
                 PROVE  /\ frames'[handle'[g].index].valid
                        /\ frames'[handle'[g].index].page_id = handle'[g].id
      BY DEF HandlesStable
    <2>1. CASE g = h
      BY <2>1, <1>1, <1>2
    <2>2. CASE g # h /\ handle[g].index = f
      BY <2>2, <1>1, <1>2 DEF HandlesStable, HandlesOn, Live
    <2>3. CASE g # h /\ handle[g].index # f
      BY <2>3, <1>1, <1>2 DEF HandlesStable, Live, TypeOK, FrameHandle
    <2> QED
      BY <2>1, <2>2, <2>3
  <1>6. DroppedResident'
    BY <1>1 DEF DroppedResident
  <1> QED
    BY <1>3, <1>4, <1>5, <1>6

\* A step that moves no page and no pin.
LEMMA SameResidentsKeepPins ==
  ASSUME PinsInv, TypeOK', UNCHANGED <<store, dropped>>,
         \A f \in Frame : /\ frames'[f].valid = frames[f].valid
                          /\ frames'[f].page_id = frames[f].page_id
                          /\ frames'[f].pin_count = frames[f].pin_count,
         \A h \in Handles : /\ Live(h)' <=> Live(h)
                            /\ handle'[h].index = handle[h].index
                            /\ handle'[h].id = handle[h].id
  PROVE  PinsInv'
  <1> USE DEF PinsInv
  <1>1. OneFramePerPage'
    BY DEF OneFramePerPage
  <1>2. \A f \in Frame : HandlesOn(f)' = HandlesOn(f)
    BY DEF HandlesOn
  <1>3. PinAccounting'
    BY <1>2 DEF PinAccounting
  <1>4. HandlesStable'
    BY DEF HandlesStable, Live, TypeOK, FrameHandle
  <1>5. DroppedResident'
    BY DEF DroppedResident
  <1> QED
    BY <1>1, <1>3, <1>4, <1>5

\* A step after which there is neither a cached page nor a handle.
LEMMA EmptiedKeepsPins ==
  ASSUME TypeOK', frames' = [f \in Frame |-> BlankFrame],
         dropped' = NoneDropped, \A h \in Handles : ~Live(h)'
  PROVE  PinsInv'
  <1>1. \A f \in Frame : ~frames'[f].valid /\ frames'[f].pin_count = 0
    BY DEF BlankFrame
  <1>2. \A f \in Frame : HandlesOn(f)' = {}
    BY DEF HandlesOn
  <1>3. PinAccounting'
    BY <1>1, <1>2, FS_EmptySet DEF PinAccounting, NoneDropped
  <1>4. OneFramePerPage' /\ HandlesStable' /\ DroppedResident'
    BY <1>1 DEF OneFramePerPage, HandlesStable, DroppedResident, NoneDropped
  <1> QED
    BY <1>3, <1>4 DEF PinsInv

LEMMA UnpinKeepsPins ==
  ASSUME PinsInv, TypeOK', NEW h \in Handles, NEW dirty \in BOOLEAN,
         Unpin(h, dirty)
  PROVE  PinsInv'
  <1> USE DEF PinsInv
  <1>1. PICK i \in Frame : i = handle[h].index
    BY DEF Unpin, Live, TypeOK, FrameHandle
  <1>2. /\ frames'[i].valid = frames[i].valid
        /\ frames'[i].page_id = frames[i].page_id
        /\ frames'[i].pin_count = frames[i].pin_count - 1
        /\ \A g \in Frame \ {i} : frames'[g] = frames[g]
    BY <1>1, Zenon DEF Unpin, Cached, TypeOK
  <1>3. ~Live(h)' /\ \A g \in Handles \ {h} : handle'[g] = handle[g]
    BY DEF Unpin, Live, TypeOK
  <1>4. OneFramePerPage'
    BY <1>1, <1>2 DEF OneFramePerPage
  <1>5. PinAccounting'
    <2>1. HandlesOn(i)' = HandlesOn(i) \ {h} /\ h \in HandlesOn(i)
      BY <1>1, <1>3 DEF HandlesOn, Live, Unpin
    <2>2. Cardinality(HandlesOn(i)') = Cardinality(HandlesOn(i)) - 1
      BY <2>1, HandlesOnFinite, FS_RemoveElement, ZenonT(30)
    <2>3. \A g \in Frame \ {i} : HandlesOn(g)' = HandlesOn(g)
      BY <1>1, <1>3 DEF HandlesOn, Live
    <2> QED
      BY <1>1, <1>2, <2>2, <2>3, HandlesOnFinite
         DEF PinAccounting, Unpin, TypeOK
  <1>6. HandlesStable'
    <2> SUFFICES ASSUME NEW g \in Handles, Live(g)'
                 PROVE  /\ store'
                        /\ frames'[handle'[g].index].valid
                        /\ frames'[handle'[g].index].page_id = handle'[g].id
      BY DEF HandlesStable
    <2>1. g # h /\ handle'[g] = handle[g] /\ Live(g)
      BY <1>3 DEF Live
    <2>2. handle[g].index \in Frame
      BY <2>1 DEF Live, TypeOK, FrameHandle
    <2> QED
      BY <1>1, <1>2, <2>1, <2>2 DEF HandlesStable, Unpin
  <1>7. DroppedResident'
    BY <1>1, <1>2 DEF DroppedResident, Unpin
  <1> QED
    BY <1>4, <1>5, <1>6, <1>7

\* Of two handles, the one that is let go leaves its pin behind, and the one
\* that is moved takes it along.
LEMMA ReleaseKeepsPins ==
  ASSUME PinsInv, TypeOK', NEW h \in Handles, Release(h)
  PROVE  PinsInv'
  <1> USE DEF PinsInv
  <1>1. PICK i \in Frame : i = handle[h].index
    BY DEF Release, Live, TypeOK, FrameHandle
  <1>2. ~Live(h)' /\ \A g \in Handles \ {h} : handle'[g] = handle[g]
    BY DEF Release, Live, TypeOK
  <1>3. dropped'[i] = dropped[i] + 1 /\ \A f \in Frame \ {i} : dropped'[f] = dropped[f]
    BY <1>1 DEF Release, TypeOK
  <1>4. PinAccounting'
    <2>1. HandlesOn(i)' = HandlesOn(i) \ {h} /\ h \in HandlesOn(i)
      BY <1>1, <1>2 DEF HandlesOn, Live, Release
    <2>2. Cardinality(HandlesOn(i)') = Cardinality(HandlesOn(i)) - 1
      BY <2>1, HandlesOnFinite, FS_RemoveElement, ZenonT(30)
    <2>3. \A f \in Frame \ {i} : HandlesOn(f)' = HandlesOn(f)
      BY <1>1, <1>2 DEF HandlesOn, Live
    <2> QED
      BY <1>1, <1>3, <2>2, <2>3, HandlesOnFinite DEF PinAccounting, Release, TypeOK
  <1>5. HandlesStable' /\ OneFramePerPage'
    BY <1>2 DEF HandlesStable, OneFramePerPage, Release, Live
  <1>6. DroppedResident'
    BY <1>1, <1>3 DEF DroppedResident, HandlesStable, Release
  <1> QED
    BY <1>4, <1>5, <1>6

LEMMA MoveKeepsPins ==
  ASSUME PinsInv, TypeOK', NEW g \in Handles, NEW h \in Handles, Move(g, h)
  PROVE  PinsInv'
  <1> USE DEF PinsInv
  <1>1. /\ ~Live(g)' /\ Live(h)' /\ handle'[h] = handle[g] /\ g # h
        /\ \A k \in Handles \ {g, h} : handle'[k] = handle[k]
    BY DEF Move, Live, TypeOK
  <1>2. \A f \in Frame :
          dropped'[f] = dropped[f] + (IF h \in HandlesOn(f) THEN 1 ELSE 0)
    BY DEF Move, HandlesOn
  <1>3. ASSUME NEW f \in Frame
        PROVE  Cardinality(HandlesOn(f)') =
                 Cardinality(HandlesOn(f)) - (IF h \in HandlesOn(f) THEN 1 ELSE 0)
    <2>1. CASE g \in HandlesOn(f) /\ h \notin HandlesOn(f)
      <3>1. HandlesOn(f)' = (HandlesOn(f) \ {g}) \cup {h}
        BY <1>1, <2>1 DEF HandlesOn, Live
      <3>2. /\ IsFiniteSet(HandlesOn(f) \ {g})
            /\ Cardinality(HandlesOn(f) \ {g}) = Cardinality(HandlesOn(f)) - 1
        BY <2>1, HandlesOnFinite, FS_RemoveElement, ZenonT(30)
      <3>3. Cardinality(HandlesOn(f)') = Cardinality(HandlesOn(f) \ {g}) + 1
        BY <2>1, <3>1, <3>2, FS_AddElement, ZenonT(30)
      <3> QED
        BY <2>1, <3>2, <3>3, HandlesOnFinite
    <2>2. CASE g \in HandlesOn(f) /\ h \in HandlesOn(f)
      <3>1. HandlesOn(f)' = HandlesOn(f) \ {g}
        BY <1>1, <2>2 DEF HandlesOn, Live
      <3>2. Cardinality(HandlesOn(f)') = Cardinality(HandlesOn(f)) - 1
        BY <2>2, <3>1, HandlesOnFinite, FS_RemoveElement, ZenonT(30)
      <3> QED
        BY <2>2, <3>2
    <2>3. CASE g \notin HandlesOn(f) /\ h \in HandlesOn(f)
      <3>1. HandlesOn(f)' = HandlesOn(f) \ {h}
        BY <1>1, <2>3, Zenon DEF HandlesOn, Live, Move
      <3>2. Cardinality(HandlesOn(f)') = Cardinality(HandlesOn(f)) - 1
        BY <2>3, <3>1, HandlesOnFinite, FS_RemoveElement, ZenonT(30)
      <3> QED
        BY <2>3, <3>2
    <2>4. CASE g \notin HandlesOn(f) /\ h \notin HandlesOn(f)
      <3>1. HandlesOn(f)' = HandlesOn(f)
        BY <1>1, <2>4, Zenon DEF HandlesOn, Live, Move
      <3> QED
        BY <2>4, <3>1, HandlesOnFinite
    <2> QED
      BY <2>1, <2>2, <2>3, <2>4
  <1>4. PinAccounting'
    BY <1>2, <1>3, HandlesOnFinite DEF PinAccounting, Move, TypeOK
  <1>5. HandlesStable'
    <2> SUFFICES ASSUME NEW k \in Handles, Live(k)'
                 PROVE  /\ store
                        /\ frames[handle'[k].index].valid
                        /\ frames[handle'[k].index].page_id = handle'[k].id
      BY Zenon DEF HandlesStable, Move
    <2>1. CASE k = h
      BY <1>1, <2>1 DEF HandlesStable, Move
    <2>2. CASE k # h
      BY <1>1, <2>2 DEF HandlesStable, Live
    <2> QED
      BY <2>1, <2>2
  <1>6. OneFramePerPage'
    BY DEF OneFramePerPage, Move
  <1>7. DroppedResident'
    BY <1>2 DEF DroppedResident, HandlesStable, HandlesOn, Move
  <1> QED
    BY <1>4, <1>5, <1>6, <1>7

\* The fields of the frames that a flush, complete or not, may change.
LEMMA FlushedFramesResidents ==
  ASSUME TypeOK, NEW k, NEW f \in Frame
  PROVE  /\ FlushedFrames(k)[f].valid = frames[f].valid
         /\ FlushedFrames(k)[f].page_id = frames[f].page_id
         /\ FlushedFrames(k)[f].pin_count = frames[f].pin_count
         /\ FlushedFrames(k)[f].data = frames[f].data
  BY DEF TypeOK, FlushedFrames, FrameState

LEMMA PinsStep == PinsInv /\ [Next]_vars => PinsInv'
  <1> SUFFICES ASSUME PinsInv, [Next]_vars
               PROVE  PinsInv'
    OBVIOUS
  <1>type. TypeOK /\ TypeOK'
    BY TypeStep DEF PinsInv
  <1> USE <1>type
  <1>1. CASE Open
    BY <1>1, EmptiedKeepsPins DEF Open, PinsInv, HandlesStable, Live
  <1>2. CASE AllocatePage
    BY <1>2, SameResidentsKeepPins DEF AllocatePage, Live
  <1>3. ASSUME NEW f \in Frame, EvictFails(f)
        PROVE  PinsInv'
    BY <1>3, SameResidentsKeepPins DEF EvictFails, Live
  <1>4. ASSUME NEW h \in Handles, NEW p \in PageId, Fetch(h, p)
        PROVE  PinsInv'
    <2>1. CASE FetchHit(h, p)
      <3> PICK f \in FramesOf(p) : FetchHit(h, p)!(f)
        BY <2>1, Zenon DEF FetchHit
      <3>1. f \in Frame /\ frames[f].page_id = p /\ \A g \in FramesOf(p) : g = f
        BY DEF FramesOf, PinsInv, OneFramePerPage
      <3> QED
        BY <1>4, <3>1, GrantKeepsPins, Zenon DEF Fetch
    <2>2. CASE FetchMiss(h, p)
      <3> PICK f \in Victims : EvictFails(f) \/ ReadFails(f, p) \/ LoadPage(h, f, p)
        BY <2>2 DEF FetchMiss
      <3>1. f \in Frame /\ frames[f].pin_count = 0 /\ HandlesOn(f) = {}
        BY VictimUnpinned
      <3>2. CASE ReadFails(f, p)
        BY <3>1, <3>2, SameResidentsKeepPins DEF ReadFails, Live, TypeOK
      <3>3. CASE LoadPage(h, f, p)
        <4>1. frames' = [frames EXCEPT ![f] =
                           Cached(p, WrittenBack(f)[p], FALSE,
                                  frames[f].pin_count + 1)]
          BY <3>1, <3>3 DEF LoadPage
        <4> QED
          BY <1>4, <2>2, <3>1, <3>3, <4>1, GrantKeepsPins, Zenon
             DEF LoadPage, Fetch, FetchMiss
      <3> QED
        BY <1>3, <3>1, <3>2, <3>3
    <2> QED
      BY <1>4, <2>1, <2>2 DEF Fetch
  <1>5. ASSUME NEW h \in Handles, NEW p \in PageId, FetchNew(h, p)
        PROVE  PinsInv'
    <2>1. CASE FetchNewHit(h, p)
      <3> PICK f \in FramesOf(p) : FetchNewHit(h, p)!(f)
        BY <2>1, Zenon DEF FetchNewHit
      <3>1. f \in Frame /\ frames[f].page_id = p /\ \A g \in FramesOf(p) : g = f
        BY DEF FramesOf, PinsInv, OneFramePerPage
      <3> QED
        BY <1>5, <3>1, GrantKeepsPins, Zenon DEF FetchNew
    <2>2. CASE FetchNewMiss(h, p)
      <3> PICK f \in Victims : EvictFails(f) \/ LoadBlankPage(h, f, p)
        BY <2>2 DEF FetchNewMiss
      <3>1. f \in Frame /\ frames[f].pin_count = 0 /\ HandlesOn(f) = {}
        BY VictimUnpinned
      <3>2. CASE LoadBlankPage(h, f, p)
        <4>1. frames' = [frames EXCEPT ![f] =
                           Cached(p, Zero, TRUE, frames[f].pin_count + 1)]
          BY <3>1, <3>2 DEF LoadBlankPage
        <4> QED
          BY <1>5, <2>2, <3>1, <3>2, <4>1, GrantKeepsPins, Zenon
             DEF LoadBlankPage, FetchNew, FetchNewMiss
      <3> QED
        BY <1>3, <3>1, <3>2
    <2> QED
      BY <1>5, <2>1, <2>2 DEF FetchNew
  <1>6. ASSUME NEW h \in Handles, NEW d \in Data \ {Mixed}, Write(h, d)
        PROVE  PinsInv'
    <2>1. \A g \in Handles : /\ Live(g)' <=> Live(g)
                             /\ handle'[g].index = handle[g].index
                             /\ handle'[g].id = handle[g].id
      <3> TAKE g \in Handles
      <3>1. CASE g # h
        BY <1>6, <3>1 DEF Write, Live, TypeOK
      <3>2. CASE g = h
        <4>1. handle[h] \in FrameHandle
          BY <1>6 DEF Write, Live, TypeOK
        <4>2. handle'[h] = [handle[h] EXCEPT !.wrote = TRUE]
          BY <1>6 DEF Write, TypeOK
        <4>3. /\ handle'[h] \in FrameHandle
              /\ handle'[h].index = handle[h].index
              /\ handle'[h].id = handle[h].id
          BY <4>1, <4>2, Zenon DEF FrameHandle
        <4> QED
          BY <3>2, <4>1, <4>3 DEF Live
      <3> QED
        BY <3>1, <3>2
    <2>2. handle[h].index \in Frame
      BY <1>6 DEF Write, Live, TypeOK, FrameHandle
    <2>3. \A f \in Frame : /\ frames'[f].valid = frames[f].valid
                           /\ frames'[f].page_id = frames[f].page_id
                           /\ frames'[f].pin_count = frames[f].pin_count
      BY <1>6, <2>2 DEF Write, TypeOK, FrameState
    <2> QED
      BY <1>6, <2>1, <2>3, SameResidentsKeepPins DEF Write
  <1>7. ASSUME NEW p \in PageId, Flush(p)
        PROVE  PinsInv'
    <2> PICK f \in FramesOf(p) : Flush(p)!2!(f)
      BY <1>7, Zenon DEF Flush
    <2>1. f \in Frame
      BY DEF FramesOf
    <2>2. CASE frames' = [frames EXCEPT ![f].dirty = FALSE]
      BY <1>7, <2>1, <2>2, SameResidentsKeepPins, Zenon
         DEF Flush, EvictFails, Live, TypeOK, FrameState
    <2> QED
      BY <1>3, <2>1, <2>2
  <1>8. CASE FlushAllFails
    BY <1>8, FlushedFramesResidents, SameResidentsKeepPins DEF FlushAllFails, Live
  <1>9. CASE FlushAll
    BY <1>8, <1>9, FlushedFramesResidents, SameResidentsKeepPins, ZenonT(30)
       DEF FlushAll, FlushAllSucceeds, Live
  <1>10. CASE Close
    BY <1>8, <1>10, EmptiedKeepsPins DEF Close, FlushAllSucceeds, Live
  <1>11. CASE Destroy \/ Crash
    BY <1>11, EmptiedKeepsPins DEF Destroy, Crash, Gone, Live
  <1>12. CASE UNCHANGED vars
    BY <1>12, SameResidentsKeepPins DEF vars, Live
  <1> QED
    BY <1>1, <1>2, <1>4, <1>5, <1>6, <1>7, <1>9, <1>10, <1>11, <1>12,
       UnpinKeepsPins, ReleaseKeepsPins, MoveKeepsPins DEF Next

LEMMA PinsInit == Init => PinsInv
  <1> SUFFICES ASSUME Init PROVE PinsInv
    OBVIOUS
  <1>1. \A h \in Handles : ~Live(h)
    BY DEF Init, Live
  <1>2. \A f \in Frame : ~frames[f].valid /\ frames[f].pin_count = 0
    BY DEF Init, BlankFrame
  <1>3. \A f \in Frame : HandlesOn(f) = {}
    BY <1>1 DEF HandlesOn
  <1>4. PinAccounting
    BY <1>2, <1>3, FS_EmptySet DEF PinAccounting, Init, NoneDropped
  <1>5. OneFramePerPage /\ HandlesStable /\ DroppedResident
    BY <1>1, <1>2 DEF OneFramePerPage, HandlesStable, DroppedResident, Init, NoneDropped
  <1> QED
    BY <1>4, <1>5, TypeInit DEF PinsInv

LEMMA PinsAlways == Spec => []PinsInv
  BY PinsInit, PinsStep, PTL DEF Spec

\* No page is cached twice, under any eviction policy and whatever fails.
THEOREM NoSecondCopy == Spec => []OneFramePerPage
  <1>1. PinsInv => OneFramePerPage
    BY DEF PinsInv
  <1> QED
    BY <1>1, PinsAlways, PTL

\* Every pin count is the number of handles on the frame and of handles let go
\* without an unpin: a fetch that fails keeps no pin, a move takes the pin
\* along, and an unpin always finds the pin it gives back.
THEOREM PinsCorrect == Spec => []PinAccounting
  <1>1. PinsInv => PinAccounting
    BY DEF PinsInv
  <1> QED
    BY <1>1, PinsAlways, PTL

\* Every handle keeps naming the page it was obtained for: no frame that is
\* pinned is taken for another page.
THEOREM HandlesCorrect == Spec => []HandlesStable
  <1>1. PinsInv => HandlesStable
    BY DEF PinsInv
  <1> QED
    BY <1>1, PinsAlways, PTL

(***************************************************************************)
(* Clean frames.  Writing one page back cannot make another frame differ   *)
(* from the file, because no page is cached twice.                         *)
(***************************************************************************)

\* What write_back_if_dirty(f) leaves in the file for the cached pages.
LEMMA WrittenBackPages ==
  ASSUME PinsInv, CleanFramesMatchFile, NEW f \in Frame, NEW g \in Frame,
         frames[g].valid
  PROVE  /\ g # f => WrittenBack(f)[frames[g].page_id] = disk[frames[g].page_id]
         /\ g = f /\ frames[f].page_id \notin Busy =>
              WrittenBack(f)[frames[f].page_id] = frames[f].data
  BY DEF PinsInv, TypeOK, OneFramePerPage, CleanFramesMatchFile, WrittenBack,
         NeedsWriteBack, FrameState

\* What flush_all, stopped at frame k, leaves in the file for them.
LEMMA FlushedPages ==
  ASSUME PinsInv, NEW k, NEW g \in Frame, frames[g].valid
  PROVE  FlushedDisk(k)[frames[g].page_id] =
           IF g \in Flushing(k) THEN frames[g].data ELSE disk[frames[g].page_id]
  <1>1. frames[g].page_id \in PageId
    BY DEF PinsInv, TypeOK, FrameState
  <1>2. \A f \in Flushing(k) : frames[f].page_id = frames[g].page_id => f = g
    BY DEF Flushing, NeedsWriteBack, PinsInv, OneFramePerPage
  <1> QED
    BY <1>1, <1>2 DEF FlushedDisk

\* A fresh handle has written nothing.
LEMMA BusyAfterGrant ==
  ASSUME TypeOK, NEW h \in Handles, ~Live(h), NEW f \in Frame, NEW p \in PageId,
         handle' = [handle EXCEPT ![h] = NewHandle(f, p)]
  PROVE  Busy' = Busy
  <1>1. handle'[h].wrote = FALSE /\ \A g \in Handles \ {h} : handle'[g] = handle[g]
    BY DEF TypeOK, NewHandle
  <1> QED
    BY <1>1 DEF Busy, Live

\* Letting a handle go, or moving one, changes nothing but the handles, and
\* the pages being changed stay so.
LEMMA LetGoKeepsPages ==
  ASSUME TypeOK, LetGo
  PROVE  Busy' = Busy /\ UNCHANGED <<store, frames, disk, platter, page_count, synced_count>>
  <1>1. ASSUME NEW h \in Handles, Release(h)
        PROVE  Busy' = Busy
    <2>1. ~Live(h)' /\ \A g \in Handles \ {h} : handle'[g] = handle[g]
      BY <1>1 DEF Release, Live, TypeOK
    <2> QED
      BY <1>1, <2>1 DEF Busy, Release, Live
  <1>2. ASSUME NEW g \in Handles, NEW h \in Handles, Move(g, h)
        PROVE  Busy' = Busy
    <2>1. /\ ~Live(g)' /\ handle'[h] = handle[g]
          /\ \A k \in Handles \ {g, h} : handle'[k] = handle[k]
      BY <1>2 DEF Move, Live, TypeOK
    <2>2. Busy' \subseteq Busy
      BY <1>2, <2>1, Zenon DEF Busy, Move, Live
    <2>3. Busy \subseteq Busy'
      BY <1>2, <2>1, Zenon DEF Busy, Move, Live
    <2> QED
      BY <2>2, <2>3
  <1> QED
    BY <1>1, <1>2 DEF LetGo, Release, Move, fileVars

\* A failed write-back of frame f, with d in the file before it.
LEMMA WriteBackFailsPages ==
  ASSUME PinsInv, NEW f \in Frame, NEW d \in [PageId -> Data],
         WriteBackFails(f, d), NEW g \in Frame \ {f}, frames[g].valid
  PROVE  disk'[frames[g].page_id] = d[frames[g].page_id]
  BY DEF PinsInv, TypeOK, OneFramePerPage, WriteBackFails, NeedsWriteBack,
         Persist, FrameState

LEMMA FlushedFramesClean ==
  ASSUME TypeOK, NEW k, NEW f \in Frame
  PROVE  FlushedFrames(k)[f].dirty <=> frames[f].dirty /\ f \notin Flushing(k)
  BY Zenon DEF TypeOK, FlushedFrames, FrameState

\* flush_all up to frame k, when a failure there can only have hit a page
\* that stays dirty.
LEMMA FlushKeepsClean ==
  ASSUME PinsInv, CleanFramesMatchFile, UNCHANGED handle, NEW k,
         frames' = FlushedFrames(k),
         \A g \in Frame : frames[g].valid /\ ~frames'[g].dirty =>
            disk'[frames[g].page_id] = FlushedDisk(k)[frames[g].page_id]
  PROVE  CleanFramesMatchFile'
  <1>1. Busy' = Busy
    BY DEF Busy, Live
  <1>2. TypeOK
    BY DEF PinsInv
  <1> SUFFICES ASSUME NEW g \in Frame, frames'[g].valid, ~frames'[g].dirty,
                      frames'[g].page_id \notin Busy'
               PROVE  frames'[g].data = disk'[frames'[g].page_id]
    BY DEF CleanFramesMatchFile
  <1>3. /\ frames[g].valid /\ frames[g].page_id \notin Busy
        /\ frames'[g].page_id = frames[g].page_id
        /\ frames'[g].data = frames[g].data
    BY <1>1, <1>2, FlushedFramesResidents
  <1>4. disk'[frames[g].page_id] = FlushedDisk(k)[frames[g].page_id]
    BY <1>3
  <1>5. frames[g].dirty => g \in Flushing(k)
    BY <1>2, FlushedFramesClean
  <1> QED
    BY <1>3, <1>4, <1>5, FlushedPages DEF CleanFramesMatchFile

LEMMA CleanStep ==
  ASSUME PartialReads = FALSE
  PROVE  PinsInv /\ CleanFramesMatchFile /\ [Next]_vars => CleanFramesMatchFile'
  <1> SUFFICES ASSUME PinsInv, CleanFramesMatchFile, [Next]_vars
               PROVE  CleanFramesMatchFile'
    OBVIOUS
  <1>type. TypeOK /\ TypeOK'
    BY TypeStep DEF PinsInv
  <1> USE <1>type
  <1>1. ASSUME frames' = [f \in Frame |-> BlankFrame]
        PROVE  CleanFramesMatchFile'
    BY <1>1 DEF CleanFramesMatchFile, BlankFrame
  <1>2. CASE AllocatePage \/ UNCHANGED vars
    BY <1>2 DEF AllocatePage, vars, CleanFramesMatchFile, Busy, Live
  <1>3. ASSUME NEW f \in Frame, EvictFails(f)
        PROVE  CleanFramesMatchFile'
    <2>1. Busy' = Busy
      BY <1>3 DEF EvictFails, Busy, Live
    <2>2. \A g \in Frame \ {f} :
            frames[g].valid => disk'[frames[g].page_id] = disk[frames[g].page_id]
      BY <1>3, WriteBackFailsPages DEF EvictFails, TypeOK
    <2> QED
      BY <1>3, <2>1, <2>2
         DEF EvictFails, WriteBackFails, NeedsWriteBack, CleanFramesMatchFile
  <1>4. ASSUME NEW h \in Handles, NEW f \in Frame, NEW p \in PageId, ~Live(h),
               handle' = [handle EXCEPT ![h] = NewHandle(f, p)],
               disk' = WrittenBack(f),
               \A g \in Frame \ {f} : frames'[g] = frames[g],
               ~frames'[f].dirty => frames'[f].data = disk'[frames'[f].page_id]
        PROVE  CleanFramesMatchFile'
    <2>1. Busy' = Busy
      BY <1>4, BusyAfterGrant, Zenon
    <2> SUFFICES ASSUME NEW g \in Frame \ {f}, frames'[g].valid,
                        ~frames'[g].dirty, frames'[g].page_id \notin Busy'
                 PROVE  frames'[g].data = disk'[frames'[g].page_id]
      BY <1>4 DEF CleanFramesMatchFile
    <2>2. frames'[g] = frames[g]
      BY <1>4
    <2>3. frames[g].data = disk[frames[g].page_id]
      BY <2>1, <2>2 DEF CleanFramesMatchFile
    <2> QED
      BY <1>4, <2>2, <2>3, WrittenBackPages
  <1>5. ASSUME NEW h \in Handles, NEW p \in PageId, Fetch(h, p)
        PROVE  CleanFramesMatchFile'
    <2>1. CASE FetchHit(h, p)
      <3> PICK f \in FramesOf(p) : FetchHit(h, p)!(f)
        BY <2>1, Zenon DEF FetchHit
      <3>1. /\ f \in Frame /\ Busy' = Busy
            /\ frames'[f].page_id = frames[f].page_id
            /\ frames'[f].data = frames[f].data
            /\ frames'[f].dirty = frames[f].dirty
            /\ frames[f].valid
            /\ \A g \in Frame \ {f} : frames'[g] = frames[g]
        BY <1>5, BusyAfterGrant, Zenon DEF Fetch, FramesOf, Cached, TypeOK
      <3> QED
        BY <3>1 DEF CleanFramesMatchFile, fileVars
    <2>2. CASE FetchMiss(h, p)
      <3> PICK f \in Victims : EvictFails(f) \/ ReadFails(f, p) \/ LoadPage(h, f, p)
        BY <2>2 DEF FetchMiss
      <3>1. f \in Frame
        BY VictimUnpinned
      <3>2. CASE ReadFails(f, p)
        <4>0. frames' = [frames EXCEPT ![f] =
                           [page_id |-> frames[f].page_id,
                            data |-> frames[f].data,
                            valid |-> frames[f].valid, dirty |-> FALSE,
                            pin_count |-> frames[f].pin_count]]
          BY <3>2, Zenon DEF ReadFails
        <4>1. \A g \in Frame : /\ frames'[g].data = frames[g].data
                               /\ frames'[g].page_id = frames[g].page_id
                               /\ frames'[g].valid = frames[g].valid
                               /\ g # f => frames'[g].dirty = frames[g].dirty
          BY <3>1, <4>0, Zenon DEF TypeOK
        <4>2. Busy' = Busy /\ disk' = WrittenBack(f)
          BY <3>2 DEF ReadFails, Persist, Busy, Live
        <4> SUFFICES ASSUME NEW g \in Frame, frames[g].valid, ~frames'[g].dirty,
                            frames[g].page_id \notin Busy
                     PROVE  frames[g].data = WrittenBack(f)[frames[g].page_id]
          BY <4>1, <4>2 DEF CleanFramesMatchFile
        <4>3. CASE g = f
          BY <3>1, <4>3, WrittenBackPages
        <4>4. CASE g # f
          BY <3>1, <4>1, <4>4, WrittenBackPages DEF CleanFramesMatchFile
        <4> QED
          BY <4>3, <4>4
      <3>3. CASE LoadPage(h, f, p)
        BY <1>4, <1>5, <3>1, <3>3, Zenon DEF LoadPage, Fetch, Persist, Cached, TypeOK
      <3> QED
        BY <1>3, <3>1, <3>2, <3>3
    <2> QED
      BY <1>5, <2>1, <2>2 DEF Fetch
  <1>6. ASSUME NEW h \in Handles, NEW p \in PageId, FetchNew(h, p)
        PROVE  CleanFramesMatchFile'
    <2>1. CASE FetchNewHit(h, p)
      <3> PICK f \in FramesOf(p) : FetchNewHit(h, p)!(f)
        BY <2>1, Zenon DEF FetchNewHit
      <3>1. /\ f \in Frame /\ Busy' = Busy /\ frames'[f].dirty
            /\ \A g \in Frame \ {f} : frames'[g] = frames[g]
        BY <1>6, BusyAfterGrant, Zenon DEF FetchNew, FramesOf, Cached, TypeOK
      <3>2. disk' = disk
        BY DEF fileVars
      <3> SUFFICES ASSUME NEW g \in Frame, frames'[g].valid, ~frames'[g].dirty,
                          frames'[g].page_id \notin Busy'
                   PROVE  frames'[g].data = disk'[frames'[g].page_id]
        BY Zenon DEF CleanFramesMatchFile
      <3>3. g # f /\ frames'[g] = frames[g]
        BY <3>1, Zenon
      <3> QED
        BY <3>1, <3>2, <3>3 DEF CleanFramesMatchFile
    <2>2. CASE FetchNewMiss(h, p)
      <3> PICK f \in Victims : EvictFails(f) \/ LoadBlankPage(h, f, p)
        BY <2>2 DEF FetchNewMiss
      <3>1. f \in Frame
        BY VictimUnpinned
      <3>2. CASE LoadBlankPage(h, f, p)
        BY <1>4, <1>6, <3>1, <3>2, Zenon
           DEF LoadBlankPage, FetchNew, Persist, Cached, TypeOK
      <3> QED
        BY <1>3, <3>1, <3>2
    <2> QED
      BY <1>6, <2>1, <2>2 DEF FetchNew
  <1>7. ASSUME NEW h \in Handles, NEW d \in Data \ {Mixed}, Write(h, d)
        PROVE  CleanFramesMatchFile'
    <2>1. PICK i \in Frame : i = handle[h].index /\ frames[i].page_id = handle[h].id
      BY <1>7 DEF Write, Live, TypeOK, FrameHandle, PinsInv, HandlesStable
    <2>2. /\ frames'[i].page_id = frames[i].page_id
          /\ \A g \in Frame \ {i} : frames'[g] = frames[g]
      BY <1>7, <2>1 DEF Write, TypeOK, FrameState
    <2>3. handle[h] \in FrameHandle /\ handle'[h] = [handle[h] EXCEPT !.wrote = TRUE]
      BY <1>7 DEF Write, Live, TypeOK
    <2>4. Live(h)' /\ handle'[h].wrote /\ handle'[h].id = handle[h].id
      BY <2>3, Zenon DEF FrameHandle, Live
    <2>5. \A g \in Handles \ {h} : handle'[g] = handle[g]
      BY <1>7 DEF Write, TypeOK
    <2>6. Busy \cup {handle[h].id} \subseteq Busy'
      BY <2>4, <2>5 DEF Busy, Live
    <2> SUFFICES ASSUME NEW g \in Frame, frames'[g].valid, ~frames'[g].dirty,
                        frames'[g].page_id \notin Busy'
                 PROVE  frames'[g].data = disk'[frames'[g].page_id]
      BY DEF CleanFramesMatchFile
    <2>7. g # i /\ frames'[g] = frames[g] /\ frames[g].page_id \notin Busy
      BY <2>1, <2>2, <2>6
    <2> QED
      BY <1>7, <2>7, Zenon DEF CleanFramesMatchFile, Write, fileVars
  <1>8. ASSUME NEW h \in Handles, NEW dirty \in BOOLEAN, Unpin(h, dirty)
        PROVE  CleanFramesMatchFile'
    <2>1. PICK i \in Frame : i = handle[h].index /\ frames[i].page_id = handle[h].id
      BY <1>8 DEF Unpin, Live, TypeOK, FrameHandle, PinsInv, HandlesStable
    <2>2. /\ frames'[i].page_id = frames[i].page_id
          /\ frames'[i].data = frames[i].data
          /\ frames'[i].dirty <=> frames[i].dirty \/ dirty
          /\ frames[i].valid
          /\ \A g \in Frame \ {i} : frames'[g] = frames[g]
      BY <1>8, <2>1, Zenon DEF Unpin, Cached, TypeOK
    <2>3. \A g \in Handles \ {h} : handle'[g] = handle[g]
      BY <1>8 DEF Unpin, TypeOK
    <2>4. /\ Busy \subseteq Busy' \cup {handle[h].id}
          /\ ~handle[h].wrote => Busy \subseteq Busy'
      BY <2>3 DEF Busy, Live
    <2> SUFFICES ASSUME NEW g \in Frame, frames'[g].valid, ~frames'[g].dirty,
                        frames'[g].page_id \notin Busy'
                 PROVE  frames'[g].data = disk'[frames'[g].page_id]
      BY DEF CleanFramesMatchFile
    <2>5. CASE g = i
      <3>1. ~frames[g].dirty /\ ~handle[h].wrote
        BY <1>8, <2>2, <2>5, Zenon DEF Unpin
      <3> QED
        BY <1>8, <2>2, <2>4, <2>5, <3>1, Zenon DEF CleanFramesMatchFile, Unpin, fileVars
    <2>6. CASE g # i
      <3>1. frames'[g] = frames[g] /\ frames[g].page_id # handle[h].id
        BY <2>1, <2>2, <2>6 DEF PinsInv, OneFramePerPage
      <3> QED
        BY <1>8, <2>4, <3>1, Zenon DEF CleanFramesMatchFile, Unpin, fileVars
    <2> QED
      BY <2>5, <2>6
  <1>9. ASSUME NEW p \in PageId, Flush(p)
        PROVE  CleanFramesMatchFile'
    <2> PICK f \in FramesOf(p) : Flush(p)!2!(f)
      BY <1>9, Zenon DEF Flush
    <2>1. f \in Frame
      BY DEF FramesOf
    <2>2. CASE /\ NeedsWriteBack(f) /\ Persist(WrittenBack(f))
               /\ frames' = [frames EXCEPT ![f].dirty = FALSE]
               /\ UNCHANGED handle
      <3>1. Busy' = Busy /\ disk' = WrittenBack(f)
        BY <2>2 DEF Busy, Live, Persist
      <3>2. \A g \in Frame : /\ frames'[g].data = frames[g].data
                             /\ frames'[g].page_id = frames[g].page_id
                             /\ frames'[g].valid = frames[g].valid
                             /\ g # f => frames'[g].dirty = frames[g].dirty
        BY <2>1, <2>2, Zenon DEF TypeOK, FrameState
      <3> SUFFICES ASSUME NEW g \in Frame, frames[g].valid, ~frames'[g].dirty,
                          frames[g].page_id \notin Busy
                   PROVE  frames[g].data = WrittenBack(f)[frames[g].page_id]
        BY <3>1, <3>2 DEF CleanFramesMatchFile
      <3>3. CASE g = f
        BY <2>1, <3>3, WrittenBackPages
      <3>4. CASE g # f
        BY <2>1, <3>2, <3>4, WrittenBackPages DEF CleanFramesMatchFile
      <3> QED
        BY <3>3, <3>4
    <2> QED
      BY <1>3, <2>1, <2>2
  <1>10. CASE FlushAllFails
    <2>1. ASSUME NEW k \in Frame, WriteBackFails(k, FlushedDisk(k)),
                 frames' = FlushedFrames(k), UNCHANGED handle
          PROVE  CleanFramesMatchFile'
      <3>1. FlushedDisk(k) \in [PageId -> Data]
        BY WrittenFileType
      <3>2. frames[k].dirty /\ k \notin Flushing(k)
        BY <2>1 DEF WriteBackFails, NeedsWriteBack, Flushing, Frame
      <3>3. frames'[k].dirty
        BY <2>1, <3>2, FlushedFramesClean
      <3>4. \A g \in Frame \ {k} : frames[g].valid =>
              disk'[frames[g].page_id] = FlushedDisk(k)[frames[g].page_id]
        BY <2>1, <3>1, WriteBackFailsPages
      <3> QED
        BY <2>1, <3>3, <3>4, FlushKeepsClean
    <2>2. CASE Persist(FlushedDisk(Capacity)) /\ frames' = FlushedFrames(Capacity)
      BY <1>10, <2>2, FlushKeepsClean DEF FlushAllFails, Persist
    <2> QED
      BY <1>10, <2>1, <2>2 DEF FlushAllFails
  <1>11. CASE FlushAll
    BY <1>10, <1>11, FlushKeepsClean, Zenon DEF FlushAll, FlushAllSucceeds, Synced
  <1>12. CASE Close
    BY <1>1, <1>10, <1>12 DEF Close
  <1>13. CASE Open \/ Destroy \/ Crash
    BY <1>1, <1>13 DEF Open, Destroy, Crash, Gone
  <1>14. CASE LetGo
    BY <1>14, LetGoKeepsPages DEF CleanFramesMatchFile
  <1> QED
    BY <1>2, <1>5, <1>6, <1>7, <1>8, <1>9, <1>11, <1>12, <1>13, <1>14
       DEF Next, LetGo

\* When a read that fails leaves the caller's buffer alone, a cached page
\* that is not marked dirty and that nobody is changing is what the file
\* holds: evicting it without a write loses nothing.
THEOREM CleanFramesCorrect ==
  ASSUME PartialReads = FALSE
  PROVE  Spec => []CleanFramesMatchFile
  <1>1. Init => PinsInv /\ CleanFramesMatchFile
    BY PinsInit DEF Init, BlankFrame, CleanFramesMatchFile
  <1>2. PinsInv /\ CleanFramesMatchFile /\ [Next]_vars
          => (PinsInv /\ CleanFramesMatchFile)'
    BY PinsStep, CleanStep, Zenon
  <1> QED
    BY <1>1, <1>2, PTL DEF Spec

(***************************************************************************)
(* The file.  A value that reads from the file may survive a crash, a page *)
(* the file does not have reads as zeros, and may be zeros after a crash   *)
(* unless it was there at the last sync.  A closed pool caches nothing.    *)
(***************************************************************************)
FileInv ==
  /\ ~store => \A f \in Frame : ~frames[f].valid
  /\ \A p \in PageId : /\ disk[p] \in platter[p]
                       /\ p >= page_count => disk[p] = Zero
                       /\ p >= synced_count => Zero \in platter[p]

PoolInv == PinsInv /\ CleanFramesMatchFile /\ FileInv

\* The writes of a step touch only pages the file has.
LEMMA PersistKeepsFile ==
  ASSUME TypeOK, FileInv, NEW new \in [PageId -> Data], Persist(new),
         \A p \in PageId : p >= page_count => new[p] = Zero,
         UNCHANGED <<page_count, synced_count>>,
         store' \/ \A f \in Frame : ~frames'[f].valid
  PROVE  FileInv'
  BY DEF TypeOK, FileInv, Persist

\* Only pages the file has are written back, by an eviction or a flush.
LEMMA WritesWithinFile ==
  ASSUME TypeOK, FileInv, NEW p \in PageId, p >= page_count
  PROVE  /\ \A f \in Frame : CanWriteBack(f) => WrittenBack(f)[p] = Zero
         /\ \A k : CanFlush(k) => FlushedDisk(k)[p] = Zero
  <1>1. ASSUME NEW f \in Frame, CanWriteBack(f)
        PROVE  WrittenBack(f)[p] = Zero
    BY <1>1 DEF TypeOK, FileInv, WrittenBack, CanWriteBack, FrameState, PageId
  <1>2. ASSUME NEW k, CanFlush(k)
        PROVE  FlushedDisk(k)[p] = Zero
    <2>1. \A f \in Flushing(k) : frames[f].page_id # p
      BY <1>2 DEF CanFlush, CanWriteBack, Flushing, TypeOK, FrameState, PageId
    <2> QED
      BY <2>1 DEF FlushedDisk, FileInv
  <1> QED
    BY <1>1, <1>2

\* A write-back that fails may tear a page, but one the file has.
LEMMA WriteBackFailsKeepsFile ==
  ASSUME TypeOK, FileInv, store, UNCHANGED <<store, page_count, synced_count>>,
         NEW f \in Frame, NEW d \in [PageId -> Data], WriteBackFails(f, d),
         \A p \in PageId : p >= page_count => d[p] = Zero
  PROVE  FileInv'
  <1>1. CASE Persist(d)
    BY <1>1, PersistKeepsFile
  <1>2. CASE CanWriteBack(f) /\ Persist([d EXCEPT ![frames[f].page_id] = Mixed])
    <2> DEFINE new == [d EXCEPT ![frames[f].page_id] = Mixed]
    <2>1. new \in [PageId -> Data]
      BY Zenon
    <2>2. frames[f].page_id < page_count
      BY <1>2 DEF WriteBackFails, CanWriteBack
    <2>3. \A p \in PageId : p >= page_count => new[p] = Zero
      BY <2>2 DEF TypeOK, PageId
    <2> HIDE DEF new
    <2> QED
      BY <1>2, <2>1, <2>3, PersistKeepsFile, Zenon DEF new
  <1> QED
    BY <1>1, <1>2 DEF WriteBackFails

LEMMA FileStep == PinsInv /\ FileInv /\ [Next]_vars => FileInv'
  <1> SUFFICES ASSUME PinsInv, FileInv, [Next]_vars
               PROVE  FileInv'
    OBVIOUS
  <1>type. TypeOK /\ TypeOK'
    BY TypeStep DEF PinsInv
  <1> USE <1>type
  <1>file. disk \in [PageId -> Data] /\ \A p \in PageId : p >= page_count => disk[p] = Zero
    BY DEF TypeOK, FileInv
  <1>1. CASE Open \/ AllocatePage \/ UNCHANGED vars
    BY <1>1 DEF Open, AllocatePage, vars, fileVars, FileInv, TypeOK, BlankFrame, PageId
  <1>2. ASSUME NEW f \in Frame, EvictFails(f), store
        PROVE  FileInv'
    BY <1>2, <1>file, WriteBackFailsKeepsFile DEF EvictFails
  <1>3. ASSUME NEW f \in Frame, CanWriteBack(f), Persist(WrittenBack(f)), store,
               UNCHANGED <<store, page_count, synced_count>>
        PROVE  FileInv'
    BY <1>3, WrittenFileType, WritesWithinFile, PersistKeepsFile
  <1>4. ASSUME NEW h \in Handles, NEW p \in PageId, Fetch(h, p) \/ FetchNew(h, p)
        PROVE  FileInv'
    <2>1. CASE FetchHit(h, p) \/ FetchNewHit(h, p)
      BY <1>4, <2>1, Zenon DEF Fetch, FetchNew, FetchHit, FetchNewHit, fileVars, FileInv
    <2>2. CASE FetchMiss(h, p) \/ FetchNewMiss(h, p)
      <3> PICK f \in Victims : \/ EvictFails(f)
                               \/ ReadFails(f, p) \/ LoadPage(h, f, p)
                               \/ LoadBlankPage(h, f, p)
        BY <2>2 DEF FetchMiss, FetchNewMiss
      <3>1. f \in Frame /\ store
        BY <1>4, VictimUnpinned DEF Fetch, FetchNew
      <3> QED
        BY <1>2, <1>3, <3>1, Zenon DEF ReadFails, LoadPage, LoadBlankPage
    <2> QED
      BY <1>4, <2>1, <2>2, Zenon DEF Fetch, FetchNew
  <1>5. ASSUME NEW h \in Handles, NEW d \in Data \ {Mixed}, Write(h, d)
        PROVE  FileInv'
    BY <1>5 DEF Write, fileVars, FileInv, PinsInv, HandlesStable
  <1>6. ASSUME NEW h \in Handles, NEW dirty \in BOOLEAN, Unpin(h, dirty)
        PROVE  FileInv'
    BY <1>6 DEF Unpin, fileVars, FileInv
  <1>7. ASSUME NEW p \in PageId, Flush(p)
        PROVE  FileInv'
    BY <1>2, <1>3, <1>7, Zenon DEF Flush, FramesOf
  <1>8. CASE store /\ FlushAllFails
    <2>1. ASSUME NEW k \in Frame, CanFlush(k), WriteBackFails(k, FlushedDisk(k))
          PROVE  FileInv'
      BY <1>8, <2>1, WrittenFileType, WritesWithinFile, WriteBackFailsKeepsFile
         DEF FlushAllFails
    <2>2. CASE CanFlush(Capacity) /\ Persist(FlushedDisk(Capacity))
      BY <1>8, <2>2, WrittenFileType, WritesWithinFile, PersistKeepsFile
         DEF FlushAllFails
    <2> QED
      BY <1>8, <2>1, <2>2 DEF FlushAllFails
  <1>9. ASSUME FlushAllSucceeds, store' \/ \A f \in Frame : ~frames'[f].valid
        PROVE  FileInv'
    BY <1>9, WritesWithinFile DEF FlushAllSucceeds, Synced, FileInv
  <1>10. CASE FlushAll
    BY <1>8, <1>9, <1>10, Zenon DEF FlushAll
  <1>11. CASE Close
    BY <1>8, <1>9, <1>11 DEF Close, BlankFrame
  <1>12. CASE Destroy
    BY <1>12 DEF Destroy, Gone, fileVars, FileInv, BlankFrame
  <1>13. CASE Crash
    BY <1>13 DEF Crash, Gone, FileInv, BlankFrame, TypeOK, PageId
  <1>14. CASE LetGo
    BY <1>14, LetGoKeepsPages DEF FileInv
  <1> QED
    BY <1>1, <1>4, <1>5, <1>6, <1>7, <1>10, <1>11, <1>12, <1>13, <1>14
       DEF Next, LetGo

LEMMA PoolInvariant ==
  ASSUME PartialReads = FALSE
  PROVE  /\ Init => PoolInv
         /\ PoolInv /\ [Next]_vars => PoolInv'
  <1>1. Init => PoolInv
    BY PinsInit DEF Init, BlankFrame, CleanFramesMatchFile, FileInv, PoolInv, PageId
  <1>2. PoolInv /\ [Next]_vars => PoolInv'
    BY PinsStep, CleanStep, FileStep, Zenon DEF PoolInv
  <1> QED
    BY <1>1, <1>2

(***************************************************************************)
(* What clients read.                                                      *)
(***************************************************************************)
CachedIn(f, p) == frames[f].valid /\ frames[f].page_id = p

CurrentReads ==
  /\ Current \in [PageId -> Data]
  /\ \A p \in PageId :
       /\ \A f \in Frame : CachedIn(f, p) => Current[p] = frames[f].data
       /\ (\A f \in Frame : ~CachedIn(f, p)) => Current[p] = disk[p]

LEMMA CurrentRead == PinsInv => CurrentReads
  <1> SUFFICES ASSUME PinsInv PROVE CurrentReads
    OBVIOUS
  <1>1. ASSUME NEW p \in PageId, NEW f \in Frame, CachedIn(f, p)
        PROVE  FramesOf(p) = {f}
    BY <1>1 DEF FramesOf, PinsInv, OneFramePerPage, CachedIn
  <1>2. ASSUME NEW p \in PageId, \A f \in Frame : ~CachedIn(f, p)
        PROVE  FramesOf(p) = {}
    BY <1>2 DEF FramesOf, CachedIn
  <1>3. ASSUME NEW p \in PageId, NEW f \in Frame, CachedIn(f, p)
        PROVE  Current[p] = frames[f].data
    <2>1. (CHOOSE g \in FramesOf(p) : TRUE) = f
      BY <1>1, <1>3
    <2> QED
      BY <1>1, <1>3, <2>1 DEF Current
  <1>4. ASSUME NEW p \in PageId, \A f \in Frame : ~CachedIn(f, p)
        PROVE  Current[p] = disk[p]
    BY <1>2, <1>4 DEF Current
  <1>5. \A p \in PageId : Current[p] \in Data
    BY <1>3, <1>4 DEF PinsInv, TypeOK, FrameState
  <1>6. Current \in [PageId -> Data]
    BY <1>5 DEF Current
  <1> QED
    BY <1>3, <1>4, <1>6 DEF CurrentReads

LEMMA CurrentReadAfter == PinsInv' => CurrentReads'
  BY CurrentRead, PTL

\* What is written over a page is what its clients read, or torn.
LEMMA PersistSpills ==
  ASSUME TypeOK, TypeOK', NEW new \in [PageId -> Data], Persist(new),
         \A p \in PageId : new[p] \in {disk[p], Current[p], Mixed}
  PROVE  Pages!Spilled
  BY DEF TypeOK, Persist, Pages!Spilled

\* A write-back of frame f, or a flush that stops at frame k, writes what the
\* clients read.
LEMMA WritesCurrent ==
  ASSUME PinsInv, NEW p \in PageId
  PROVE  /\ \A f \in Frame : WrittenBack(f)[p] \in {disk[p], Current[p]}
         /\ \A k : FlushedDisk(k)[p] \in {disk[p], Current[p]}
  <1> USE CurrentRead DEF CurrentReads, CachedIn
  <1>1. ASSUME NEW f \in Frame
        PROVE  WrittenBack(f)[p] \in {disk[p], Current[p]}
    BY <1>1 DEF WrittenBack, NeedsWriteBack, PinsInv, TypeOK, FrameState
  <1>2. ASSUME NEW k
        PROVE  FlushedDisk(k)[p] \in {disk[p], Current[p]}
    <2>1. CASE \E f \in Flushing(k) : frames[f].page_id = p
      <3> DEFINE f == CHOOSE f \in Flushing(k) : frames[f].page_id = p
      <3>1. f \in Flushing(k) /\ frames[f].page_id = p
        BY <2>1
      <3>2. FlushedDisk(k)[p] = frames[f].data
        BY <2>1 DEF FlushedDisk
      <3> QED
        BY <3>1, <3>2 DEF Flushing, NeedsWriteBack
    <2>2. CASE ~\E f \in Flushing(k) : frames[f].page_id = p
      BY <2>2 DEF FlushedDisk
    <2> QED
      BY <2>1, <2>2
  <1> QED
    BY <1>1, <1>2

\* A page that is not cached is not written.
LEMMA UncachedUnwritten ==
  ASSUME NEW p \in PageId, \A f \in Frame : ~CachedIn(f, p)
  PROVE  /\ \A f \in Frame : WrittenBack(f)[p] = disk[p]
         /\ \A k : FlushedDisk(k)[p] = disk[p]
  BY DEF WrittenBack, NeedsWriteBack, FlushedDisk, Flushing, CachedIn

\* A step that leaves the cached pages and their contents alone, and writes no
\* page that is not cached, changes nothing that clients read.
LEMMA SamePagesKeepCurrent ==
  ASSUME PinsInv, PinsInv',
         \A f \in Frame : /\ frames'[f].valid = frames[f].valid
                          /\ frames'[f].page_id = frames[f].page_id
                          /\ frames'[f].data = frames[f].data,
         \A p \in PageId :
           (\A f \in Frame : ~CachedIn(f, p)) => disk'[p] = disk[p]
  PROVE  Current' = Current
  <1>1. CurrentReads /\ CurrentReads'
    BY CurrentRead, CurrentReadAfter
  <1>2. ASSUME NEW p \in PageId
        PROVE  Current'[p] = Current[p]
    BY <1>1 DEF CurrentReads, CachedIn
  <1> QED
    BY <1>1, <1>2 DEF CurrentReads

\* A write-back of frame f that fails, on a file where the frames before it
\* may have been written back already.
LEMMA WriteBackFailsSpills ==
  ASSUME PinsInv, PinsInv', NEW f \in Frame, NEW d \in [PageId -> Data],
         WriteBackFails(f, d),
         \A p \in PageId : /\ d[p] \in {disk[p], Current[p]}
                           /\ (\A g \in Frame : ~CachedIn(g, p)) => d[p] = disk[p],
         \A g \in Frame : /\ frames'[g].valid = frames[g].valid
                          /\ frames'[g].page_id = frames[g].page_id
                          /\ frames'[g].data = frames[g].data,
         UNCHANGED handle
  PROVE  Pages!Spill
  <1>type. TypeOK /\ TypeOK'
    BY DEF PinsInv
  <1>1. PICK new \in [PageId -> Data] :
          /\ Persist(new)
          /\ new = d \/ new = [d EXCEPT ![frames[f].page_id] = Mixed]
    <2>1. [d EXCEPT ![frames[f].page_id] = Mixed] \in [PageId -> Data]
      BY Zenon
    <2> QED
      BY <2>1, Zenon DEF WriteBackFails
  <1>2. \A p \in PageId : new[p] \in {disk[p], Current[p], Mixed}
    BY <1>1
  <1>3. Pages!Spilled
    BY <1>type, <1>1, <1>2, PersistSpills, Zenon
  <1>4. ASSUME NEW p \in PageId, \A g \in Frame : ~CachedIn(g, p)
        PROVE  disk'[p] = disk[p]
    BY <1>1, <1>4 DEF Persist, WriteBackFails, NeedsWriteBack, CachedIn
  <1>5. Current' = Current
    BY <1>4, SamePagesKeepCurrent
  <1>6. Busy' = Busy
    BY DEF Busy, Live
  <1> QED
    BY <1>3, <1>5, <1>6 DEF Pages!Spill

\* A step that loads page p into the victim f.
LEMMA LoadKeepsOthers ==
  ASSUME PoolInv, PinsInv', NEW f \in Victims, NEW p \in PageId,
         \A g \in Frame : ~CachedIn(g, p),
         CachedIn(f, p)', disk' = WrittenBack(f),
         \A g \in Frame \ {f} : frames'[g] = frames[g]
  PROVE  \A q \in PageId \ {p} : Current'[q] = Current[q]
  <1>1. CurrentReads /\ CurrentReads'
    BY CurrentRead, CurrentReadAfter, Zenon DEF PoolInv
  <1>2. f \in Frame /\ HandlesOn(f) = {}
    BY VictimUnpinned DEF PoolInv
  <1> SUFFICES ASSUME NEW q \in PageId \ {p}
               PROVE  Current'[q] = Current[q]
    OBVIOUS
  <1>3. ~CachedIn(f, q)'
    BY DEF CachedIn
  <1>4. CASE CachedIn(f, q)
    <2>1. \A g \in Frame : ~CachedIn(g, q)'
      BY <1>2, <1>3, <1>4 DEF CachedIn, PoolInv, PinsInv, OneFramePerPage
    <2>2. q \notin Busy
      BY <1>2, <1>4 DEF Busy, HandlesOn, CachedIn, PoolInv, PinsInv,
         HandlesStable, OneFramePerPage, TypeOK, FrameHandle, Live
    <2>3. WrittenBack(f)[q] = frames[f].data
      BY <1>2, <1>4, <2>2, WrittenBackPages DEF CachedIn, PoolInv
    <2> QED
      BY <1>1, <1>2, <1>4, <2>1, <2>3 DEF CurrentReads
  <1>5. CASE ~CachedIn(f, q) /\ \E g \in Frame : CachedIn(g, q)
    <2> PICK g \in Frame : CachedIn(g, q)
      BY <1>5
    <2>1. CachedIn(g, q)' /\ frames'[g] = frames[g]
      BY <1>5 DEF CachedIn
    <2> QED
      BY <1>1, <2>1 DEF CurrentReads
  <1>6. CASE \A g \in Frame : ~CachedIn(g, q)
    <2>1. \A g \in Frame : ~CachedIn(g, q)'
      BY <1>3, <1>6 DEF CachedIn
    <2> QED
      BY <1>1, <1>2, <1>6, <2>1, UncachedUnwritten DEF CurrentReads
  <1> QED
    BY <1>4, <1>5, <1>6, Zenon

\* What a flush_all that succeeds leaves, in the file and on the device.
LEMMA FlushStoresCurrent ==
  ASSUME PoolInv, FlushAllSucceeds, NEW p \in PageId
  PROVE  /\ platter'[p] = {disk'[p]}
         /\ disk'[p] \in platter[p] \cup {Current[p]}
         /\ p \notin Busy => disk'[p] = Current[p]
  <1> USE DEF PoolInv
  <1>1. disk' = FlushedDisk(Capacity) /\ platter'[p] = {disk'[p]}
    BY DEF FlushAllSucceeds, Synced
  <1>2. CurrentReads
    BY CurrentRead
  <1>3. disk'[p] \in platter[p] \cup {Current[p]}
    BY <1>1, WritesCurrent DEF FileInv
  <1>4. CASE \E f \in Frame : CachedIn(f, p)
    <2> PICK f \in Frame : CachedIn(f, p)
      BY <1>4
    <2>1. Current[p] = frames[f].data
      BY <1>2 DEF CurrentReads
    <2>2. disk'[p] = IF f \in Flushing(Capacity) THEN frames[f].data ELSE disk[p]
      BY <1>1, FlushedPages DEF CachedIn
    <2>3. f \notin Flushing(Capacity) => ~frames[f].dirty
      BY DEF Flushing, NeedsWriteBack, CachedIn, Frame
    <2> QED
      BY <1>1, <1>3, <2>1, <2>2, <2>3 DEF CleanFramesMatchFile, CachedIn
  <1>5. CASE \A f \in Frame : ~CachedIn(f, p)
    BY <1>1, <1>2, <1>3, <1>5, UncachedUnwritten DEF CurrentReads
  <1> QED
    BY <1>4, <1>5

\* After a flush_all or close that returns success, what survives of a page
\* that nobody is changing is what its clients read (buffer_pool.cpp:75-87,
\* 181-192).
THEOREM FlushDurable ==
  ASSUME PartialReads = FALSE
  PROVE  Spec => FlushMakesDurable
  <1>1. PoolInv /\ [Next]_vars =>
          [FlushAllSucceeds =>
             \A p \in PageId \ Busy : platter'[p] = {Current[p]}]_vars
    BY FlushStoresCurrent
  <1> QED
    BY <1>1, PoolInvariant, PTL DEF Spec, FlushMakesDurable

(***************************************************************************)
(* Every step of the pool is a step of DurablePages or changes nothing     *)
(* that DurablePages knows of.                                             *)
(***************************************************************************)
LEMMA FetchRefines ==
  ASSUME PoolInv, PoolInv', NEW h \in Handles, NEW p \in PageId, Fetch(h, p),
         PartialReads = FALSE
  PROVE  Pages!Spill
  <1> USE DEF PoolInv
  <1>type. TypeOK /\ TypeOK'
    BY DEF PinsInv
  <1>reads. CurrentReads /\ CurrentReads'
    BY CurrentRead, CurrentReadAfter
  <1>1. CASE FetchHit(h, p)
    <2> PICK f \in FramesOf(p) : FetchHit(h, p)!(f)
      BY <1>1, Zenon DEF FetchHit
    <2>1. f \in Frame /\ frames[f].valid /\ frames[f].page_id = p
      BY DEF FramesOf
    <2>2. \A g \in Frame : /\ frames'[g].valid = frames[g].valid
                           /\ frames'[g].page_id = frames[g].page_id
                           /\ frames'[g].data = frames[g].data
      BY <1>type, <2>1, Zenon DEF Cached, TypeOK, FrameState
    <2>3. Current' = Current
      BY <2>2, SamePagesKeepCurrent DEF fileVars
    <2>4. Busy' = Busy
      BY <1>type, <2>1, BusyAfterGrant, Zenon DEF Fetch
    <2> QED
      BY <1>type, <2>3, <2>4 DEF Pages!Spill, Pages!Spilled, TypeOK, fileVars
  <1>2. CASE FetchMiss(h, p)
    <2> PICK f \in Victims : EvictFails(f) \/ ReadFails(f, p) \/ LoadPage(h, f, p)
      BY <1>2 DEF FetchMiss
    <2>1. f \in Frame
      BY VictimUnpinned
    <2>2. \A g \in Frame : ~CachedIn(g, p)
      BY <1>2 DEF FetchMiss, FramesOf, CachedIn
    <2>3. CASE EvictFails(f)
      BY <1>type, <2>1, <2>3, WriteBackFailsSpills DEF EvictFails, TypeOK
    <2>4. WrittenBack(f) \in [PageId -> Data]
      BY <1>type, <2>1, WrittenFileType
    <2>5. ASSUME Persist(WrittenBack(f))
          PROVE  Pages!Spilled
      BY <1>type, <2>1, <2>4, <2>5, WritesCurrent, PersistSpills
    <2>6. CASE ReadFails(f, p)
      <3>1. frames' = [frames EXCEPT ![f] =
                         [page_id |-> frames[f].page_id, data |-> frames[f].data,
                          valid |-> frames[f].valid, dirty |-> FALSE,
                          pin_count |-> frames[f].pin_count]]
        BY <2>6, Zenon DEF ReadFails
      <3>2. \A g \in Frame : /\ frames'[g].valid = frames[g].valid
                             /\ frames'[g].page_id = frames[g].page_id
                             /\ frames'[g].data = frames[g].data
        BY <1>type, <2>1, <3>1 DEF TypeOK
      <3>3. Current' = Current
        BY <2>1, <2>6, <3>2, SamePagesKeepCurrent, UncachedUnwritten
           DEF ReadFails, Persist
      <3>4. Busy' = Busy
        BY <2>6 DEF ReadFails, Busy, Live
      <3> QED
        BY <2>5, <2>6, <3>3, <3>4 DEF Pages!Spill, ReadFails
    <2>7. CASE LoadPage(h, f, p)
      <3>1. /\ CachedIn(f, p)' /\ frames'[f].data = WrittenBack(f)[p]
            /\ \A g \in Frame \ {f} : frames'[g] = frames[g]
        BY <1>type, <2>1, <2>7, Zenon DEF LoadPage, Cached, CachedIn, TypeOK
      <3>2. disk' = WrittenBack(f)
        BY <2>7, Zenon DEF LoadPage, Persist
      <3>3. Current'[p] = Current[p]
        BY <1>reads, <2>1, <2>2, <3>1, UncachedUnwritten, Zenon DEF CurrentReads
      <3>4. \A q \in PageId : Current'[q] = Current[q]
        BY <2>2, <3>1, <3>2, <3>3, LoadKeepsOthers, Zenon
      <3>5. Current' = Current
        <4>1. Current \in [PageId -> Data] /\ Current' \in [PageId -> Data]
          BY <1>reads, Zenon DEF CurrentReads
        <4> QED
          BY <3>4, <4>1
      <3>6. Busy' = Busy
        BY <1>type, <2>1, <2>7, BusyAfterGrant, Zenon DEF Fetch, LoadPage
      <3> QED
        BY <2>5, <2>7, <3>5, <3>6 DEF Pages!Spill, LoadPage
    <2> QED
      BY <2>3, <2>6, <2>7
  <1> QED
    BY <1>1, <1>2 DEF Fetch

\* A step that changes the contents of one cached page only.
LEMMA OtherPagesKept ==
  ASSUME PinsInv, PinsInv', UNCHANGED disk, NEW i \in Frame, NEW p \in PageId,
         CachedIn(i, p), CachedIn(i, p)',
         \A g \in Frame \ {i} : frames'[g] = frames[g],
         NEW q \in PageId \ {p}
  PROVE  Current'[q] = Current[q]
  <1>1. CurrentReads /\ CurrentReads'
    BY CurrentRead, CurrentReadAfter
  <1>2. ~CachedIn(i, q) /\ ~CachedIn(i, q)'
    BY DEF CachedIn
  <1>3. CASE \E g \in Frame : CachedIn(g, q)
    <2> PICK g \in Frame : CachedIn(g, q)
      BY <1>3
    <2>1. CachedIn(g, q)' /\ frames'[g] = frames[g]
      BY <1>2 DEF CachedIn
    <2> QED
      BY <1>1, <2>1 DEF CurrentReads
  <1>4. CASE \A g \in Frame : ~CachedIn(g, q)
    <2>1. \A g \in Frame : ~CachedIn(g, q)'
      BY <1>2, <1>4 DEF CachedIn
    <2> QED
      BY <1>1, <1>4, <2>1 DEF CurrentReads
  <1> QED
    BY <1>3, <1>4

LEMMA FetchNewRefines ==
  ASSUME PoolInv, PoolInv', NEW h \in Handles, NEW p \in PageId, FetchNew(h, p)
  PROVE  Pages!Spill \/ Pages!Blank(p)
  <1> USE DEF PoolInv
  <1>type. TypeOK /\ TypeOK'
    BY DEF PinsInv
  <1>reads. CurrentReads /\ CurrentReads'
    BY CurrentRead, CurrentReadAfter
  <1>1. ASSUME NEW f \in Frame, CachedIn(f, p)', frames'[f].data = Zero,
               handle' = [handle EXCEPT ![h] = NewHandle(f, p)],
               \A q \in PageId \ {p} : Current'[q] = Current[q],
               Pages!Spilled
        PROVE  Pages!Blank(p)
    <2>1. Current' = [Current EXCEPT ![p] = Zero]
      BY <1>reads, <1>1 DEF CurrentReads
    <2>2. Busy' = Busy
      BY <1>type, <1>1, BusyAfterGrant, Zenon DEF FetchNew
    <2> QED
      BY <1>1, <2>1, <2>2 DEF Pages!Blank
  <1>2. CASE FetchNewHit(h, p)
    <2> PICK f \in FramesOf(p) : FetchNewHit(h, p)!(f)
      BY <1>2, Zenon DEF FetchNewHit
    <2>1. f \in Frame /\ CachedIn(f, p)
      BY DEF FramesOf, CachedIn
    <2>2. /\ CachedIn(f, p)' /\ frames'[f].data = Zero
          /\ \A g \in Frame \ {f} : frames'[g] = frames[g]
      BY <1>type, <2>1 DEF Cached, CachedIn, TypeOK
    <2>3. \A q \in PageId \ {p} : Current'[q] = Current[q]
      BY <2>1, <2>2, OtherPagesKept, Zenon DEF fileVars
    <2>4. Pages!Spilled
      BY <1>type DEF Pages!Spilled, TypeOK, fileVars
    <2> QED
      BY <1>1, <2>1, <2>2, <2>3, <2>4, Zenon
  <1>3. CASE FetchNewMiss(h, p)
    <2> PICK f \in Victims : EvictFails(f) \/ LoadBlankPage(h, f, p)
      BY <1>3 DEF FetchNewMiss
    <2>1. f \in Frame
      BY VictimUnpinned
    <2>2. \A g \in Frame : ~CachedIn(g, p)
      BY <1>3 DEF FetchNewMiss, FramesOf, CachedIn
    <2>3. CASE EvictFails(f)
      BY <1>type, <2>1, <2>3, WriteBackFailsSpills DEF EvictFails, TypeOK
    <2>4. CASE LoadBlankPage(h, f, p)
      <3>1. /\ CachedIn(f, p)' /\ frames'[f].data = Zero
            /\ \A g \in Frame \ {f} : frames'[g] = frames[g]
        BY <1>type, <2>1, <2>4, Zenon DEF LoadBlankPage, Cached, CachedIn, TypeOK
      <3>2. WrittenBack(f) \in [PageId -> Data] /\ Persist(WrittenBack(f))
        BY <1>type, <2>1, <2>4, WrittenFileType, Zenon DEF LoadBlankPage
      <3>3. Pages!Spilled
        BY <1>type, <2>1, <3>2, WritesCurrent, PersistSpills, ZenonT(30)
      <3>4. \A q \in PageId \ {p} : Current'[q] = Current[q]
        BY <2>2, <3>1, <3>2, LoadKeepsOthers DEF Persist
      <3> QED
        BY <1>1, <2>1, <2>4, <3>1, <3>3, <3>4, Zenon DEF LoadBlankPage
    <2> QED
      BY <2>3, <2>4
  <1> QED
    BY <1>2, <1>3 DEF FetchNew

LEMMA WriteRefines ==
  ASSUME PoolInv, PoolInv', NEW h \in Handles, NEW d \in Data \ {Mixed}, Write(h, d)
  PROVE  Pages!Write(handle[h].id, d) /\ handle[h].id \in PageId
  <1> USE DEF PoolInv
  <1>type. TypeOK /\ TypeOK'
    BY DEF PinsInv
  <1>reads. CurrentReads /\ CurrentReads'
    BY CurrentRead, CurrentReadAfter
  <1>1. PICK i \in Frame, p \in PageId :
          /\ handle[h] \in FrameHandle /\ handle[h].index = i /\ handle[h].id = p
          /\ CachedIn(i, p)
    BY <1>type DEF Write, Live, TypeOK, FrameHandle, PinsInv, HandlesStable, CachedIn
  <1>2. /\ CachedIn(i, p)' /\ frames'[i].data = d
        /\ \A g \in Frame \ {i} : frames'[g] = frames[g]
    BY <1>type, <1>1 DEF Write, TypeOK, FrameState, CachedIn
  <1>3. \A q \in PageId \ {p} : Current'[q] = Current[q]
    BY <1>1, <1>2, OtherPagesKept, Zenon DEF Write, fileVars
  <1>4. Current' = [Current EXCEPT ![p] = d]
    BY <1>reads, <1>2, <1>3, ZenonT(30) DEF CurrentReads
  <1>5. Busy' = Busy \cup {p}
    <2>1. handle'[h] = [handle[h] EXCEPT !.wrote = TRUE]
      BY <1>type DEF Write, TypeOK
    <2>2. Live(h)' /\ handle'[h].wrote /\ handle'[h].id = p
      BY <1>1, <2>1, Zenon DEF Live, FrameHandle
    <2>3. \A g \in Handles \ {h} : handle'[g] = handle[g]
      BY <1>type DEF Write, TypeOK
    <2> QED
      BY <1>1, <2>2, <2>3 DEF Busy, Live
  <1> QED
    BY <1>1, <1>4, <1>5 DEF Pages!Write, Write, fileVars

LEMMA UnpinRefines ==
  ASSUME PoolInv, PoolInv', NEW h \in Handles, NEW dirty \in BOOLEAN, Unpin(h, dirty)
  PROVE  Pages!Declare(handle[h].id) /\ handle[h].id \in PageId
  <1> USE DEF PoolInv
  <1>type. TypeOK /\ TypeOK'
    BY DEF PinsInv
  <1>1. PICK i \in Frame : i = handle[h].index
    BY <1>type DEF Unpin, Live, TypeOK, FrameHandle
  <1>2. \A g \in Frame : /\ frames'[g].valid = frames[g].valid
                         /\ frames'[g].page_id = frames[g].page_id
                         /\ frames'[g].data = frames[g].data
    BY <1>type, <1>1, Zenon DEF Unpin, Cached, TypeOK, FrameState
  <1>3. Current' = Current
    BY <1>2, SamePagesKeepCurrent, Zenon DEF Unpin, fileVars
  <1>4. handle'[h] = NoHandle /\ \A g \in Handles \ {h} : handle'[g] = handle[g]
    BY <1>type DEF Unpin, TypeOK
  <1>5. Busy' \subseteq Busy /\ Busy \ {handle[h].id} \subseteq Busy'
    BY <1>4 DEF Busy, Live
  <1>6. Busy' \in {Busy, Busy \ {handle[h].id}}
    BY <1>5
  <1>7. handle[h].id \in PageId
    BY <1>type DEF Unpin, Live, TypeOK, FrameHandle
  <1> QED
    BY <1>3, <1>6, <1>7 DEF Pages!Declare, Unpin, fileVars

\* flush_all and close, up to the point where one of their writes fails.
LEMMA FlushFailsRefines ==
  ASSUME PoolInv, PoolInv', FlushAllFails
  PROVE  Pages!Spill
  <1> USE DEF PoolInv
  <1>type. TypeOK /\ TypeOK'
    BY DEF PinsInv
  <1>1. ASSUME NEW k \in Frame, WriteBackFails(k, FlushedDisk(k)),
               frames' = FlushedFrames(k)
        PROVE  Pages!Spill
    <2>1. FlushedDisk(k) \in [PageId -> Data]
      BY <1>type, WrittenFileType
    <2>2. \A p \in PageId :
            /\ FlushedDisk(k)[p] \in {disk[p], Current[p]}
            /\ (\A g \in Frame : ~CachedIn(g, p)) => FlushedDisk(k)[p] = disk[p]
      BY WritesCurrent, UncachedUnwritten
    <2>3. \A g \in Frame : /\ frames'[g].valid = frames[g].valid
                           /\ frames'[g].page_id = frames[g].page_id
                           /\ frames'[g].data = frames[g].data
      BY <1>type, <1>1, FlushedFramesResidents
    <2>4. UNCHANGED handle
      BY DEF FlushAllFails
    <2> QED
      BY <1>1, <2>1, <2>2, <2>3, <2>4, WriteBackFailsSpills
  <1>2. CASE Persist(FlushedDisk(Capacity)) /\ frames' = FlushedFrames(Capacity)
    <2>1. Pages!Spilled
      BY <1>type, <1>2, WrittenFileType, WritesCurrent, PersistSpills, Zenon
    <2>2. Current' = Current
      BY <1>type, <1>2, FlushedFramesResidents, UncachedUnwritten,
         SamePagesKeepCurrent, Zenon DEF Persist
    <2>3. Busy' = Busy
      BY DEF FlushAllFails, Busy, Live
    <2> QED
      BY <2>1, <2>2, <2>3 DEF Pages!Spill
  <1> QED
    BY <1>1, <1>2 DEF FlushAllFails

\* flush_all and close when they succeed.
LEMMA FlushRefines ==
  ASSUME PoolInv, PoolInv', FlushAllSucceeds,
         \/ frames' = FlushedFrames(Capacity)
         \/ /\ frames' = [f \in Frame |-> BlankFrame]
            /\ \A h \in Handles : ~Live(h)
  PROVE  Pages!Checkpoint
  <1> USE DEF PoolInv
  <1>type. TypeOK /\ TypeOK'
    BY DEF PinsInv
  <1>reads. CurrentReads /\ CurrentReads'
    BY CurrentRead, CurrentReadAfter
  <1>1. Busy' = Busy
    BY DEF FlushAllSucceeds, Busy, Live
  <1>2. Current' = Current
    <2>1. CASE frames' = FlushedFrames(Capacity)
      BY <1>type, <2>1, FlushedFramesResidents, UncachedUnwritten,
         SamePagesKeepCurrent, Zenon DEF FlushAllSucceeds, Synced
    <2>2. CASE /\ frames' = [f \in Frame |-> BlankFrame]
               /\ \A h \in Handles : ~Live(h)
      <3>1. \A p \in PageId : Current'[p] = disk'[p]
        BY <1>reads, <2>2 DEF CurrentReads, CachedIn, BlankFrame
      <3>2. Busy = {}
        BY <2>2 DEF Busy
      <3>3. \A p \in PageId : Current'[p] = Current[p]
        BY <3>1, <3>2, FlushStoresCurrent
      <3> QED
        BY <1>reads, <3>3 DEF CurrentReads
    <2> QED
      BY <2>1, <2>2
  <1>3. ASSUME NEW p \in PageId
        PROVE  \E v \in platter[p] \cup {Current[p]} :
                 /\ platter'[p] = {v}
                 /\ p \notin Busy => v = Current[p]
    <2>1. disk'[p] \in platter[p] \cup {Current[p]}
      BY FlushStoresCurrent
    <2> QED
      BY <2>1, FlushStoresCurrent
  <1> QED
    BY <1>type, <1>1, <1>2, <1>3 DEF Pages!Checkpoint, TypeOK

\* A crash, or a pool that is destroyed without close.
LEMMA GoneRefines ==
  ASSUME PoolInv, PoolInv', Destroy \/ Crash
  PROVE  Pages!Lose
  <1> USE DEF PoolInv
  <1>type. TypeOK /\ TypeOK'
    BY DEF PinsInv
  <1>reads. CurrentReads'
    BY CurrentReadAfter
  <1>1. Gone
    BY DEF Destroy, Crash
  <1>2. \A p \in PageId : Current'[p] = disk'[p]
    BY <1>reads, <1>1 DEF CurrentReads, CachedIn, BlankFrame, Gone
  <1>3. Busy' = {}
    BY <1>1 DEF Busy, Live, Gone
  <1>4. \A p \in PageId : disk'[p] \in platter'[p]
    BY DEF FileInv
  <1>5. \A p \in PageId : platter'[p] \subseteq platter[p]
    <2>1. CASE Destroy
      BY <2>1 DEF Destroy, fileVars
    <2>2. CASE Crash
      BY <1>type, <2>2 DEF Crash, FileInv, TypeOK, PageId
    <2> QED
      BY <2>1, <2>2
  <1> QED
    BY <1>type, <1>reads, <1>2, <1>3, <1>4, <1>5
       DEF Pages!Lose, TypeOK, CurrentReads

LEMMA StepRefines ==
  ASSUME PartialReads = FALSE
  PROVE  PoolInv /\ PoolInv' /\ [Next]_vars => [Pages!Next]_(Pages!vars)
  <1> SUFFICES ASSUME PoolInv, PoolInv', [Next]_vars
               PROVE  Pages!Next \/ UNCHANGED Pages!vars
    OBVIOUS
  <1> USE DEF PoolInv
  <1>type. TypeOK /\ TypeOK'
    BY DEF PinsInv
  <1>1. CASE Open
    <2>1. \A p \in PageId, f \in Frame : ~CachedIn(f, p) /\ ~CachedIn(f, p)'
      BY <1>1, Zenon DEF Open, FileInv, CachedIn, BlankFrame
    <2>2. \A p \in PageId : Current[p] = disk[p] /\ Current'[p] = disk'[p]
      BY <2>1, CurrentRead, CurrentReadAfter DEF CurrentReads
    <2>3. Current' = Current
      BY <1>1, <2>2, CurrentRead, CurrentReadAfter DEF CurrentReads, Open, fileVars
    <2>4. Busy' = Busy /\ platter' = platter
      BY <1>1, Zenon DEF Open, fileVars, Busy, Live
    <2> QED
      BY <2>3, <2>4 DEF Pages!vars
  <1>2. CASE AllocatePage \/ UNCHANGED vars
    <2>1. frames' = frames /\ handle' = handle /\ disk' = disk /\ platter' = platter
      BY <1>2 DEF AllocatePage, vars
    <2>2. Current' = Current /\ Busy' = Busy
      BY <2>1, SamePagesKeepCurrent DEF Busy, Live
    <2> QED
      BY <2>1, <2>2 DEF Pages!vars
  <1>3. ASSUME NEW h \in Handles, NEW p \in PageId, Fetch(h, p)
        PROVE  Pages!Next
    BY <1>3, FetchRefines, Zenon DEF Pages!Next
  <1>4. ASSUME NEW h \in Handles, NEW p \in PageId, FetchNew(h, p)
        PROVE  Pages!Next
    BY <1>4, FetchNewRefines DEF Pages!Next
  <1>5. ASSUME NEW h \in Handles, NEW d \in Data \ {Mixed}, Write(h, d)
        PROVE  Pages!Next
    BY <1>5, WriteRefines DEF Pages!Next
  <1>6. ASSUME NEW h \in Handles, NEW dirty \in BOOLEAN, Unpin(h, dirty)
        PROVE  Pages!Next
    BY <1>6, UnpinRefines DEF Pages!Next
  <1>7. ASSUME NEW p \in PageId, Flush(p)
        PROVE  Pages!Spill
    <2> PICK f \in FramesOf(p) : Flush(p)!2!(f)
      BY <1>7, Zenon DEF Flush
    <2>1. f \in Frame
      BY DEF FramesOf
    <2>2. CASE EvictFails(f)
      BY <1>type, <2>1, <2>2, WriteBackFailsSpills DEF EvictFails, TypeOK
    <2>3. CASE /\ Persist(WrittenBack(f))
               /\ frames' = [frames EXCEPT ![f].dirty = FALSE]
               /\ UNCHANGED handle
      <3>1. Pages!Spilled
        BY <1>type, <2>1, <2>3, WrittenFileType, WritesCurrent, PersistSpills
      <3>2. \A g \in Frame : /\ frames'[g].valid = frames[g].valid
                             /\ frames'[g].page_id = frames[g].page_id
                             /\ frames'[g].data = frames[g].data
        BY <1>type, <2>1, <2>3 DEF TypeOK, FrameState
      <3>3. Current' = Current
        BY <2>1, <2>3, <3>2, UncachedUnwritten, SamePagesKeepCurrent DEF Persist
      <3> QED
        BY <2>3, <3>1, <3>3 DEF Pages!Spill, Busy, Live
    <2> QED
      BY <2>2, <2>3
  <1>8. CASE FlushAll \/ Close
    BY <1>8, FlushFailsRefines, FlushRefines DEF FlushAll, Close, Pages!Next
  <1>9. CASE Destroy \/ Crash
    BY <1>9, GoneRefines DEF Pages!Next
  <1>10. CASE LetGo
    <2>1. Busy' = Busy /\ frames' = frames /\ disk' = disk /\ platter' = platter
      BY <1>type, <1>10, LetGoKeepsPages
    <2>2. Current' = Current
      BY <2>1, SamePagesKeepCurrent
    <2> QED
      BY <2>1, <2>2 DEF Pages!vars
  <1> QED
    BY <1>1, <1>2, <1>3, <1>4, <1>5, <1>6, <1>7, <1>8, <1>9, <1>10
       DEF Next, LetGo, Pages!Next

\* The cache is transparent: a buffer pool of any size, over a page store whose
\* writes fail or tear and whose machine stops at any time, is to its clients
\* one value per page that only they change and that flush_all makes durable.
THEOREM Transparency ==
  ASSUME PartialReads = FALSE
  PROVE  Spec => CacheIsTransparent
  <1>1. Init => Pages!Init
    <2> SUFFICES ASSUME Init PROVE Pages!Init
      OBVIOUS
    <2>1. \A p \in PageId : FramesOf(p) = {}
      BY DEF Init, FramesOf, BlankFrame
    <2>2. Current = [p \in PageId |-> Zero]
      BY <2>1 DEF Init, Current
    <2>3. Busy = {}
      BY DEF Init, Busy, Live
    <2> QED
      BY <2>2, <2>3 DEF Init, Pages!Init
  <1> QED
    BY <1>1, PoolInvariant, StepRefines, PTL DEF Spec, CacheIsTransparent, Pages!Spec

=============================================================================
