----------------------------- MODULE BufferPool -----------------------------
(***************************************************************************)
(* BufferPool (src/storage/buffer) over PageStore (src/storage/page) over  *)
(* a StorageIO backend.  Clients fetch pages and hold pinned FrameHandles, *)
(* change the bytes behind them, and unpin with a dirty flag.  The         *)
(* eviction policy is abstract here: any unpinned frame may be the victim  *)
(* (EvictionPolicy and the modules that implement it say which one).       *)
(*                                                                         *)
(* An operation that returns an error and changes nothing is a stuttering  *)
(* step and has no action.  Callers keep the contract of buffer_pool.hpp:  *)
(* a handle whose bytes were changed is unpinned, as dirty, before it is   *)
(* let go, no handle is used after the pool is closed, and an open pool is *)
(* not opened again.                                                       *)
(***************************************************************************)
EXTENDS Integers, FiniteSets

CONSTANTS
  Capacity,      \* number of frames (config.capacity_pages)
  MaxPages,      \* bound on the number of pages of the file
  Data,          \* contents of a page
  Zero,          \* the content of a zero-filled page
  Mixed,         \* the content of a page of which only a part was transferred
  Handles,       \* the FrameHandle variables of the clients
  NoHandle,      \* an empty FrameHandle (pool = nullptr)
  MaxDropped,    \* bound on the pins of a frame whose handles are gone
  PartialReads   \* may a failing read have changed the caller's buffer?

ASSUME CapacityAssumption == Capacity \in Nat \ {0}
ASSUME MaxPagesAssumption == MaxPages \in Nat \ {0}
ASSUME DataAssumption == Zero \in Data /\ Mixed \in Data
ASSUME HandlesAssumption == IsFiniteSet(Handles)
ASSUME MaxDroppedAssumption == MaxDropped \in Nat
ASSUME PartialReadsAssumption == PartialReads \in BOOLEAN

Frame == 0 .. Capacity - 1
PageId == 0 .. MaxPages - 1
FrameState == [page_id : PageId, data : Data, valid : BOOLEAN,
               dirty : BOOLEAN, pin_count : Nat]
FrameHandle == [index : Frame, id : PageId, wrote : BOOLEAN]

ASSUME NoHandleAssumption == NoHandle \notin FrameHandle

VARIABLES
  store,         \* is the pool open (store # nullptr)?
  frames,        \* the frame table
  handle,        \* the clients' handles; "wrote" is the client's own memory
                 \* of having changed the bytes since it pinned the page
  dropped,       \* per frame: history of handles let go without unpin
  disk,          \* what a read of the file returns
  platter,       \* what the device may hold after a crash
  page_count,    \* pages the file has
  synced_count   \* pages the file had at the last successful sync

vars == <<store, frames, handle, dropped, disk, platter, page_count, synced_count>>
fileVars == <<disk, platter, page_count, synced_count>>

Cached(p, d, dirty, pins) ==
  [page_id |-> p, data |-> d, valid |-> TRUE, dirty |-> dirty,
   pin_count |-> pins]

NoneDropped == [f \in Frame |-> 0]

BlankFrame ==
  [page_id |-> 0, data |-> Zero, valid |-> FALSE, dirty |-> FALSE,
   pin_count |-> 0]

Init ==
  /\ store = FALSE
  /\ frames = [f \in Frame |-> BlankFrame]
  /\ handle = [h \in Handles |-> NoHandle]
  /\ dropped = NoneDropped
  /\ disk = [p \in PageId |-> Zero]
  /\ platter = [p \in PageId |-> {Zero}]
  /\ page_count = 0
  /\ synced_count = 0

Live(h) == handle[h] # NoHandle

(***************************************************************************)
(* Page store and backend.                                                 *)
(***************************************************************************)

\* Writes reach the kernel at once and the device at some later time, a page
\* at a time and not atomically, unless the bytes were there already.
Persist(new) ==
  /\ disk' = new
  /\ platter' = [p \in PageId |->
                   IF new[p] = disk[p] THEN platter[p]
                   ELSE platter[p] \cup {new[p], Mixed}]

\* PageStore::sync after writing: the file is as it reads.
Synced(new) ==
  /\ disk' = new
  /\ platter' = [p \in PageId |-> {new[p]}]
  /\ synced_count' = page_count

\* PageStore::allocate_page extends the file by a page that reads as zeros.
AllocatePage ==
  /\ page_count < MaxPages
  /\ page_count' = page_count + 1
  /\ UNCHANGED <<store, frames, handle, dropped, disk, platter, synced_count>>

(***************************************************************************)
(* Frames.                                                                 *)
(***************************************************************************)

\* Mutant: find_frame overlooks pinned frames.
UnpinnedFramesOf(p) ==
  {f \in Frame : frames[f].valid /\ frames[f].page_id = p /\ frames[f].pin_count = 0}

\* find_frame
FramesOf(p) == {f \in Frame : frames[f].valid /\ frames[f].page_id = p}

InvalidFrames == {f \in Frame : ~frames[f].valid}

\* Mutant: pinned frames may be taken.
AnyVictims == Frame

\* The first unused frame, else whichever unpinned frame the policy picks.
\* There is none when every frame is pinned: fetch returns BufferPoolFull.
Victims ==
  IF InvalidFrames # {}
  THEN {f \in InvalidFrames : \A g \in InvalidFrames : f <= g}
  ELSE {f \in Frame : frames[f].pin_count = 0}

NeedsWriteBack(f) == frames[f].valid /\ frames[f].dirty

\* write_page refuses a page the file does not have (PageNotFound).
CanWriteBack(f) == NeedsWriteBack(f) => frames[f].page_id < page_count

\* Mutant: the victim is dropped without being written.
NothingWrittenBack(f) == disk

\* The file after write_back_if_dirty(f) succeeds.
WrittenBack(f) ==
  IF NeedsWriteBack(f)
  THEN [disk EXCEPT ![frames[f].page_id] = frames[f].data]
  ELSE disk

\* write_back_if_dirty(f) fails, on a file that reads as d: nothing was
\* written, or a part of the page was.
WriteBackFails(f, d) ==
  /\ NeedsWriteBack(f)
  /\ \/ Persist(d)
     \/ /\ CanWriteBack(f)
        /\ Persist([d EXCEPT ![frames[f].page_id] = Mixed])

\* Mutant: the handle is on the next frame.
NextFrameHandle(f, p) == [index |-> f + 1, id |-> p, wrote |-> FALSE]

\* make_handle
NewHandle(f, p) == [index |-> f, id |-> p, wrote |-> FALSE]

(***************************************************************************)
(* The operations of BufferPool.                                           *)
(***************************************************************************)

Open ==
  /\ ~store
  /\ store' = TRUE
  /\ frames' = [f \in Frame |-> BlankFrame]
  /\ dropped' = NoneDropped
  /\ UNCHANGED <<handle, fileVars>>

\* Mutant: a hit does not pin.
UnpinnedFetchHit(h, p) ==
  \E f \in FramesOf(p) :
    /\ handle' = [handle EXCEPT ![h] = NewHandle(f, p)]
    /\ UNCHANGED <<store, frames, dropped, fileVars>>

\* fetch of a cached page.
FetchHit(h, p) ==
  \E f \in FramesOf(p) :
    /\ frames' = [frames EXCEPT ![f] =
                    Cached(p, frames[f].data, frames[f].dirty,
                           frames[f].pin_count + 1)]
    /\ handle' = [handle EXCEPT ![h] = NewHandle(f, p)]
    /\ UNCHANGED <<store, dropped, fileVars>>

\* Mutant: the dirty flag is cleared before the write is known to be good.
CleanedEvictFails(f) ==
  /\ WriteBackFails(f, disk)
  /\ frames' = [frames EXCEPT ![f].dirty = FALSE]
  /\ UNCHANGED <<store, handle, dropped, page_count, synced_count>>

\* The victim's page could not be written back; it stays cached and dirty.
EvictFails(f) ==
  /\ WriteBackFails(f, disk)
  /\ UNCHANGED <<store, frames, handle, dropped, page_count, synced_count>>

\* Mutant: the frame is given its new page id before the read.
RenamedReadFails(f, p) ==
  /\ CanWriteBack(f)
  /\ Persist(WrittenBack(f))
  /\ frames' = [frames EXCEPT ![f].page_id = p, ![f].dirty = FALSE]
  /\ UNCHANGED <<store, handle, dropped, page_count, synced_count>>

\* The victim was written back, and then read_page failed: the frame still
\* carries the id of the old page.  The failing read may have stored a part
\* of the new page in it.
ReadFails(f, p) ==
  /\ CanWriteBack(f)
  /\ Persist(WrittenBack(f))
  /\ \E d \in {frames[f].data} \cup
             {m \in {Mixed} : PartialReads /\ p < page_count} :
       frames' = [frames EXCEPT ![f] =
                    [page_id |-> frames[f].page_id, data |-> d,
                     valid |-> frames[f].valid, dirty |-> FALSE,
                     pin_count |-> frames[f].pin_count]]
  /\ UNCHANGED <<store, handle, dropped, page_count, synced_count>>

\* load_page_into_frame
LoadPage(h, f, p) ==
  /\ CanWriteBack(f)
  /\ p < page_count
  /\ Persist(WrittenBack(f))
  /\ frames' = [frames EXCEPT ![f] = Cached(p, WrittenBack(f)[p], FALSE, 1)]
  /\ handle' = [handle EXCEPT ![h] = NewHandle(f, p)]
  /\ UNCHANGED <<store, dropped, page_count, synced_count>>

FetchMiss(h, p) ==
  /\ FramesOf(p) = {}
  /\ \E f \in Victims : EvictFails(f) \/ ReadFails(f, p) \/ LoadPage(h, f, p)

Fetch(h, p) ==
  /\ store
  /\ ~Live(h)
  /\ FetchHit(h, p) \/ FetchMiss(h, p)

\* fetch_new of a cached page blanks it under every handle there is on it.
FetchNewHit(h, p) ==
  \E f \in FramesOf(p) :
    /\ frames' = [frames EXCEPT ![f] =
                    Cached(p, Zero, TRUE, frames[f].pin_count + 1)]
    /\ handle' = [handle EXCEPT ![h] = NewHandle(f, p)]
    /\ UNCHANGED <<store, dropped, fileVars>>

\* load_blank_page_into_frame: the file need not have the page yet.
LoadBlankPage(h, f, p) ==
  /\ CanWriteBack(f)
  /\ Persist(WrittenBack(f))
  /\ frames' = [frames EXCEPT ![f] = Cached(p, Zero, TRUE, 1)]
  /\ handle' = [handle EXCEPT ![h] = NewHandle(f, p)]
  /\ UNCHANGED <<store, dropped, page_count, synced_count>>

FetchNewMiss(h, p) ==
  /\ FramesOf(p) = {}
  /\ \E f \in Victims : EvictFails(f) \/ LoadBlankPage(h, f, p)

FetchNew(h, p) ==
  /\ store
  /\ ~Live(h)
  /\ FetchNewHit(h, p) \/ FetchNewMiss(h, p)

\* A client changes the bytes of a page it has pinned (FrameHandle::data).
Write(h, d) ==
  /\ Live(h)
  /\ frames' = [frames EXCEPT ![handle[h].index].data = d]
  /\ handle' = [handle EXCEPT ![h].wrote = TRUE]
  /\ UNCHANGED <<store, dropped, fileVars>>

Unpin(h, dirty) ==
  /\ store
  /\ Live(h)
  /\ handle[h].wrote => dirty
  /\ LET frame == frames[handle[h].index] IN
       /\ frame.valid
       /\ frame.pin_count > 0
       /\ frames' = [frames EXCEPT ![handle[h].index] =
                       Cached(frame.page_id, frame.data, frame.dirty \/ dirty,
                              frame.pin_count - 1)]
  /\ handle' = [handle EXCEPT ![h] = NoHandle]
  /\ UNCHANGED <<store, dropped, fileVars>>

\* A handle is destroyed (~FrameHandle, release): the pool is not told, and
\* the frame stays pinned.
Release(h) ==
  /\ Live(h)
  /\ ~handle[h].wrote
  /\ dropped[handle[h].index] < MaxDropped
  /\ handle' = [handle EXCEPT ![h] = NoHandle]
  /\ dropped' = [dropped EXCEPT ![handle[h].index] = @ + 1]
  /\ UNCHANGED <<store, frames, fileVars>>

\* Handle g is moved to h, constructed or assigned to.  An assignment releases
\* what h was on.
Move(g, h) ==
  /\ g # h
  /\ Live(g)
  /\ Live(h) => ~handle[h].wrote /\ dropped[handle[h].index] < MaxDropped
  /\ handle' = [handle EXCEPT ![h] = handle[g], ![g] = NoHandle]
  /\ dropped' = [f \in Frame |->
                   dropped[f] + (IF Live(h) /\ handle[h].index = f THEN 1 ELSE 0)]
  /\ UNCHANGED <<store, frames, fileVars>>

Flush(p) ==
  /\ store
  /\ \E f \in FramesOf(p) :
       \/ EvictFails(f)
       \/ /\ NeedsWriteBack(f)
          /\ CanWriteBack(f)
          /\ Persist(WrittenBack(f))
          /\ frames' = [frames EXCEPT ![f].dirty = FALSE]
          /\ UNCHANGED <<store, handle, dropped, page_count, synced_count>>

(***************************************************************************)
(* flush_all writes the frames back in order and stops at the first error. *)
(* Flushing(k) are the frames written back before frame k is reached.      *)
(***************************************************************************)

\* Mutant: the last frame is left out.
FlushingButLast(k) == {f \in Frame : f < k - 1 /\ NeedsWriteBack(f)}

Flushing(k) == {f \in Frame : f < k /\ NeedsWriteBack(f)}

FlushedDisk(k) ==
  [p \in PageId |->
     IF \E f \in Flushing(k) : frames[f].page_id = p
     THEN frames[CHOOSE f \in Flushing(k) : frames[f].page_id = p].data
     ELSE disk[p]]

FlushedFrames(k) ==
  [f \in Frame |-> [frames[f] EXCEPT !.dirty = @ /\ f \notin Flushing(k)]]

CanFlush(k) == \A f \in Flushing(k) : CanWriteBack(f)

\* A write-back, or the final sync, fails.
FlushAllFails ==
  /\ \/ \E k \in Frame :
          /\ CanFlush(k)
          /\ WriteBackFails(k, FlushedDisk(k))
          /\ frames' = FlushedFrames(k)
     \/ /\ CanFlush(Capacity)
        /\ Persist(FlushedDisk(Capacity))
        /\ frames' = FlushedFrames(Capacity)
  /\ UNCHANGED <<store, handle, dropped, page_count, synced_count>>

FlushAllSucceeds ==
  /\ CanFlush(Capacity)
  /\ Synced(FlushedDisk(Capacity))
  /\ UNCHANGED <<handle, page_count>>

FlushAll ==
  /\ store
  /\ \/ FlushAllFails
     \/ /\ FlushAllSucceeds
        /\ frames' = FlushedFrames(Capacity)
        /\ UNCHANGED <<store, dropped>>

\* close leaves the pool as it is when flush_all fails.
Close ==
  /\ store
  /\ \A h \in Handles : ~Live(h)
  /\ \/ FlushAllFails
     \/ /\ FlushAllSucceeds
        /\ frames' = [f \in Frame |-> BlankFrame]
        /\ dropped' = NoneDropped
        /\ store' = FALSE

(***************************************************************************)
(* The pool is destroyed without close (~BufferPool writes nothing), or    *)
(* the machine stops.                                                      *)
(***************************************************************************)
Gone ==
  /\ store' = FALSE
  /\ frames' = [f \in Frame |-> BlankFrame]
  /\ handle' = [h \in Handles |-> NoHandle]
  /\ dropped' = NoneDropped

Destroy ==
  /\ store
  /\ Gone
  /\ UNCHANGED fileVars

Crash ==
  /\ Gone
  /\ page_count' \in synced_count .. page_count
  /\ synced_count' = page_count'
  /\ disk' \in [PageId -> Data]
  /\ \A p \in PageId :
       disk'[p] \in (IF p < page_count' THEN platter[p] ELSE {Zero})
  /\ platter' = [p \in PageId |-> {disk'[p]}]

Next ==
  \/ Open
  \/ AllocatePage
  \/ \E h \in Handles, p \in PageId : Fetch(h, p) \/ FetchNew(h, p)
  \/ \E h \in Handles, d \in Data \ {Mixed} : Write(h, d)
  \/ \E h \in Handles, dirty \in BOOLEAN : Unpin(h, dirty)
  \/ \E h \in Handles : Release(h)
  \/ \E g, h \in Handles : Move(g, h)
  \/ \E p \in PageId : Flush(p)
  \/ FlushAll
  \/ Close
  \/ Destroy
  \/ Crash

Spec == Init /\ [][Next]_vars

(***************************************************************************)
(* Properties.                                                             *)
(***************************************************************************)

TypeOK ==
  /\ store \in BOOLEAN
  /\ frames \in [Frame -> FrameState]
  /\ handle \in [Handles -> FrameHandle \cup {NoHandle}]
  /\ dropped \in [Frame -> 0 .. MaxDropped]
  /\ disk \in [PageId -> Data]
  /\ platter \in [PageId -> SUBSET Data]
  /\ page_count \in 0 .. MaxPages
  /\ synced_count \in 0 .. page_count

\* No page is ever cached in two frames: fetch, fetch_new and a failed load
\* (buffer_pool.cpp:89-147, 252-295) never leave a second copy behind, so
\* find_frame has at most one answer and no change can go to a stale copy.
OneFramePerPage ==
  \A f, g \in Frame :
    frames[f].valid /\ frames[g].valid /\ frames[f].page_id = frames[g].page_id
      => f = g

HandlesOn(f) == {h \in Handles : Live(h) /\ handle[h].index = f}

\* The pin count of a frame is the number of handles on it and of those that
\* were let go without an unpin, whatever mix of hits, misses, failed loads,
\* unpins, moves and releases led here: no call takes a pin of another handle
\* back, and a pin nobody can take back any more keeps its page cached
\* (buffer_pool.cpp:23-55, 89-167).
PinAccounting ==
  \A f \in Frame :
    frames[f].pin_count = Cardinality(HandlesOn(f)) + dropped[f]

\* A client's handle keeps naming the page it was obtained for: no eviction,
\* failed load, flush or other client's fetch_new changes the page in a frame
\* somebody has pinned (choose_victim, buffer_pool.cpp:219-238).
HandlesStable ==
  \A h \in Handles :
    Live(h) => /\ store
               /\ frames[handle[h].index].valid
               /\ frames[handle[h].index].page_id = handle[h].id

\* The pages a client has changed and not yet unpinned.
Busy == {handle[h].id : h \in {g \in Handles : Live(g) /\ handle[g].wrote}}

\* A cached page that is not marked dirty, and that nobody is changing, is
\* byte for byte what the file holds, so it may be dropped without a write
\* (write_back_if_dirty, buffer_pool.cpp:240-250): the dirty flag is never
\* cleared by a write that failed and never missing after one that mattered.
CleanFramesMatchFile ==
  \A f \in Frame :
    frames[f].valid /\ ~frames[f].dirty /\ frames[f].page_id \notin Busy
      => frames[f].data = disk[frames[f].page_id]

\* What a client reads from page p: the cached copy, else the file.
Current ==
  [p \in PageId |->
     IF FramesOf(p) # {} THEN frames[CHOOSE f \in FramesOf(p) : TRUE].data
     ELSE disk[p]]

\* A flush_all or close that returns success has made durable, and durable
\* alone, the current value of every page nobody is changing, however many
\* frames were dirty and however often it failed before (flush_all and close,
\* buffer_pool.cpp:75-87, 181-192).
FlushMakesDurable ==
  [][FlushAllSucceeds =>
       \A p \in PageId \ Busy : platter'[p] = {Current[p]}]_vars

Pages == INSTANCE DurablePages WITH cur <- Current, busy <- Busy

\* The cache is transparent: through hits, misses, evictions, write-backs that
\* fail or tear, reopening and crashes, clients see one value per page that
\* only they change, only values a page had can survive a crash, and after a
\* successful flush_all or close nothing is lost.
CacheIsTransparent == Pages!Spec
=============================================================================
