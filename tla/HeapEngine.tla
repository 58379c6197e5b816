----------------------------- MODULE HeapEngine -----------------------------
(***************************************************************************)
(* EdbHeapEngine (src/storage/engine/heap/heap_engine.cpp), shared by      *)
(* threads.  Every public call holds the engine's latch from start to end  *)
(* and is one action; update_tuple is two calls, and a scan is as many     *)
(* calls as it has results.  Below is a page cache that keeps what         *)
(* DurablePages promises: the engine sees "pages", and each page reaches   *)
(* "file" when the cache writes it back, at a time of its choosing.        *)
(*                                                                         *)
(* A call that returns an error and changes nothing is a stuttering step.  *)
(* Callers open a closed engine only, and destroy it when no call is in    *)
(* progress.  Nothing tells the engine that a page of the file is half     *)
(* written (its checksum field stays 0): what it does when it is opened on *)
(* one is not modelled.                                                    *)
(***************************************************************************)
EXTENDS HeapPage, FiniteSetsExt

CONSTANTS
  Thread,
  Tuple,      \* the tuples inserted, non-empty byte sequences
  None,       \* no update pending, no scan in progress
  MaxPages    \* bound on the pages of the file

ASSUME TupleAssumption == Tuple \subseteq Seq(Byte) \ {<<>>}
ASSUME NoneAssumption == None \notin Tuple
ASSUME EnginePageSizeAssumption == ValidPageSize
ASSUME MaxPagesAssumption == MaxPages \in Nat

VARIABLES
  opened,
  pages,      \* the pages as read through the cache; page id = index - 1
  file,       \* the pages as the file holds them, if whole
  torn,       \* the pages of the file that a write left half written
  pending,    \* per thread: the tuple update_tuple has yet to insert
  scan,       \* per thread: its scan cursor, and what the scan should do
  vouched     \* has the last close returned success?

vars == <<opened, pages, file, torn, pending, scan, vouched>>

TupleId(page, slot) == [page_id |-> page, slot_idx |-> slot]

Init ==
  /\ opened = FALSE
  /\ pages = <<>>
  /\ file = <<>>
  /\ torn = {}
  /\ pending = [t \in Thread |-> None]
  /\ scan = [t \in Thread |-> None]
  /\ vouched = FALSE

Idle(t) == pending[t] = None

PageIds == 0 .. Len(pages) - 1

\* The tuples there are.
LiveIds ==
  UNION {{TupleId(p, s) : s \in {r \in 0 .. SlotCount(pages[p + 1]) - 1 :
                                   IsLiveSlot(pages[p + 1], r)}} : p \in PageIds}

(***************************************************************************)
(* Opening, closing, and what the cache does in between.                   *)
(***************************************************************************)

\* The cache starts empty, even over the frames a failed close left behind.
\* A scan may go on, but what was not written back is no longer due to it.
Open ==
  /\ ~opened
  /\ torn = {}
  /\ opened' = TRUE
  /\ pages' = file
  /\ scan' = [t \in Thread |->
                IF scan[t] = None THEN None
                ELSE [scan[t] EXCEPT !.due = @ \cap LiveIds']]
  /\ vouched' = FALSE
  /\ UNCHANGED <<file, torn, pending>>

\* An eviction or a flush writes a page back.
WriteBack(p) ==
  /\ opened
  /\ file' = [file EXCEPT ![p + 1] = pages[p + 1]]
  /\ torn' = torn \ {p}
  /\ UNCHANGED <<opened, pages, pending, scan, vouched>>

\* The write fails half way; the cache still has the page, dirty.
WriteBackFails(p) ==
  /\ opened
  /\ torn' = torn \cup {p}
  /\ UNCHANGED <<opened, pages, file, pending, scan, vouched>>

\* flush_all may fail after some of the pages, and half way through one; the
\* engine counts as closed all the same.
Close ==
  /\ opened
  /\ opened' = FALSE
  /\ \/ /\ file' = pages
        /\ torn' = {}
        /\ vouched' = TRUE
     \/ /\ \E written \in SUBSET PageIds :
             /\ file' = [i \in 1 .. Len(file) |->
                           IF i - 1 \in written THEN pages[i] ELSE file[i]]
             /\ \/ torn' = torn \ written
                \/ \E p \in PageIds : torn' = (torn \ written) \cup {p}
        /\ vouched' = FALSE
  /\ UNCHANGED <<pages, pending, scan>>

\* close of an engine that is not open returns success at once.
CloseAgain ==
  /\ ~opened
  /\ vouched' = TRUE
  /\ UNCHANGED <<opened, pages, file, torn, pending, scan>>

Destroy ==
  /\ \A t \in Thread : Idle(t)
  /\ opened' = FALSE
  /\ pages' = file
  /\ vouched' = FALSE
  /\ scan' = [t \in Thread |-> None]
  /\ UNCHANGED <<file, torn, pending>>

(***************************************************************************)
(* insert_tuple: the first page with room, or a new page.                  *)
(***************************************************************************)
Fitting(tuple) == {i \in 1 .. Len(pages) : CanInsert(pages[i], Len(tuple))}

\* The check of insert_into_new_page before it extends the file.
FitsEmptyPage(tuple) == Len(tuple) + SLOT_SIZE <= PageSize - PAGE_HEADER_SIZE

InsertIntoExistingPage(tuple) ==
  /\ Fitting(tuple) # {}
  /\ LET i == Min(Fitting(tuple))
     IN pages' = [pages EXCEPT ![i] = InsertTuple(@, tuple)]
  /\ UNCHANGED file

\* Mutant: the file is not extended.
InsertIntoUnallocatedPage(tuple) ==
  /\ Fitting(tuple) = {}
  /\ FitsEmptyPage(tuple)
  /\ Len(pages) < MaxPages
  /\ pages' = Append(pages, InsertTuple(InitializedPage, tuple))
  /\ UNCHANGED file

\* allocate_page extends the file; if fetch_new then fails, the page stays
\* behind as zeros.
InsertIntoNewPage(tuple) ==
  /\ Fitting(tuple) = {}
  /\ FitsEmptyPage(tuple)
  /\ Len(pages) < MaxPages
  /\ file' = Append(file, ZeroPage)
  /\ \E page \in {InsertTuple(InitializedPage, tuple), ZeroPage} :
       pages' = Append(pages, page)

InsertTupleLatched(tuple) ==
  /\ opened
  /\ InsertIntoExistingPage(tuple) \/ InsertIntoNewPage(tuple)

Insert(t, tuple) ==
  /\ Idle(t)
  /\ InsertTupleLatched(tuple)
  /\ UNCHANGED <<opened, torn, pending, scan, vouched>>

(***************************************************************************)
(* delete_tuple and update_tuple.                                          *)
(***************************************************************************)

\* A deleted tuple is no longer due to any scan.
DeleteTupleLatched(id) ==
  /\ opened
  /\ id \in LiveIds
  /\ pages' = [pages EXCEPT ![id.page_id + 1] = DeleteTuple(@, id.slot_idx)]
  /\ scan' = [t \in Thread |->
                IF scan[t] = None THEN None
                ELSE [scan[t] EXCEPT !.due = @ \ {id}]]

Delete(t, id) ==
  /\ Idle(t)
  /\ DeleteTupleLatched(id)
  /\ UNCHANGED <<opened, file, torn, pending, vouched>>

BeginUpdate(t, id, tuple) ==
  /\ Idle(t)
  /\ DeleteTupleLatched(id)
  /\ pending' = [pending EXCEPT ![t] = tuple]
  /\ UNCHANGED <<opened, file, torn, vouched>>

\* The insert of an update, or its failure: the engine was closed meanwhile,
\* the tuple fits no page, or the I/O failed.
FinishUpdate(t) ==
  /\ ~Idle(t)
  /\ pending' = [pending EXCEPT ![t] = None]
  /\ InsertTupleLatched(pending[t]) \/ UNCHANGED <<pages, file>>
  /\ UNCHANGED <<opened, torn, scan, vouched>>

(***************************************************************************)
(* Scans.  "seen" are the ids returned so far, "due" the tuples that were  *)
(* there when the scan began and have not been deleted since, "done" says  *)
(* that scan_next has reported the end.                                    *)
(***************************************************************************)
BeginScan(t) ==
  /\ opened
  /\ Idle(t)
  /\ scan[t] = None
  /\ scan' = [scan EXCEPT ![t] = [page |-> 0, slot |-> 0, seen |-> <<>>,
                                  due |-> LiveIds, done |-> FALSE]]
  /\ UNCHANGED <<opened, pages, file, torn, pending, vouched>>

AtOrAfter(id, cursor) ==
  \/ id.page_id > cursor.page
  \/ id.page_id = cursor.page /\ id.slot_idx >= cursor.slot

Ahead(t) == {id \in LiveIds : AtOrAfter(id, scan[t])}

\* The first live slot from the cursor on.
NextId(t) ==
  CHOOSE id \in Ahead(t) :
    \A other \in Ahead(t) :
      AtOrAfter(other, [page |-> id.page_id, slot |-> id.slot_idx])

Scanning(t) ==
  /\ opened
  /\ Idle(t)
  /\ scan[t] # None
  /\ ~scan[t].done

\* Mutant: the cursor stays on the slot that was returned.
SameSlot(id) == id.slot_idx

SlotAfter(id) == id.slot_idx + 1

ScanReturns(t) ==
  /\ Scanning(t)
  /\ Ahead(t) # {}
  /\ scan' = [scan EXCEPT ![t] =
                [scan[t] EXCEPT !.page = NextId(t).page_id,
                                !.slot = SlotAfter(NextId(t)),
                                !.seen = Append(@, NextId(t))]]
  /\ UNCHANGED <<opened, pages, file, torn, pending, vouched>>

ScanEnds(t) ==
  /\ Scanning(t)
  /\ Ahead(t) = {}
  /\ scan' = [scan EXCEPT ![t] =
                [scan[t] EXCEPT !.page = Max({@, Len(pages)}),
                                !.slot = IF scan[t].page < Len(pages) THEN 0 ELSE @,
                                !.done = TRUE]]
  /\ UNCHANGED <<opened, pages, file, torn, pending, vouched>>

\* scan_next fails on a page after having passed some without a live slot;
\* the caller may call it again.
ScanFails(t) ==
  /\ Scanning(t)
  /\ \E p \in scan[t].page + 1 .. Len(pages) - 1 :
       /\ \A id \in Ahead(t) : id.page_id >= p
       /\ scan' = [scan EXCEPT ![t] = [scan[t] EXCEPT !.page = p, !.slot = 0]]
  /\ UNCHANGED <<opened, pages, file, torn, pending, vouched>>

EndScan(t) ==
  /\ Idle(t)
  /\ scan[t] # None
  /\ scan' = [scan EXCEPT ![t] = None]
  /\ UNCHANGED <<opened, pages, file, torn, pending, vouched>>

Next ==
  \/ Open
  \/ \E p \in PageIds : WriteBack(p) \/ WriteBackFails(p)
  \/ Close
  \/ CloseAgain
  \/ Destroy
  \/ \E t \in Thread :
       \/ \E tuple \in Tuple : Insert(t, tuple)
       \/ \E id \in LiveIds : Delete(t, id)
       \/ \E id \in LiveIds, tuple \in Tuple : BeginUpdate(t, id, tuple)
       \/ FinishUpdate(t)
       \/ BeginScan(t)
       \/ ScanReturns(t)
       \/ ScanEnds(t)
       \/ ScanFails(t)
       \/ EndScan(t)

Spec == Init /\ [][Next]_vars

(***************************************************************************)
(* Properties.                                                             *)
(***************************************************************************)

TypeOK ==
  /\ opened \in BOOLEAN
  /\ Len(pages) <= MaxPages
  /\ Len(file) = Len(pages)
  /\ torn \subseteq 0 .. MaxPages - 1
  /\ pending \in [Thread -> Tuple \cup {None}]
  /\ \A t \in Thread :
       scan[t] # None => /\ scan[t].page \in 0 .. MaxPages
                         /\ scan[t].slot \in Nat
                         /\ scan[t].due \subseteq LiveIds \/ ~opened
  /\ vouched \in BOOLEAN

\* A scan that runs while other threads insert, update and delete returns no
\* tuple id twice, and when it ends it has returned every tuple that was there
\* from its beginning to its end (scan_next, heap_engine.cpp:107-150), also
\* when scan_next failed on the way and was called again.
ScansAreExact ==
  \A t \in Thread :
    scan[t] # None =>
      /\ \A i, j \in 1 .. Len(scan[t].seen) :
           scan[t].seen[i] = scan[t].seen[j] => i = j
      /\ scan[t].done => scan[t].due \subseteq Range(scan[t].seen)

\* While the engine is open a tuple id names one tuple: the tuple may be
\* deleted, but its bytes never change, a deleted one never comes back, and its
\* slot is never given to another (page.cpp:126-164, heap_engine.cpp:46-97).
TupleIdsAreStable ==
  [][opened /\ opened' =>
       \A p \in PageIds : \A s \in 0 .. SlotCount(pages[p + 1]) - 1 :
         /\ s < SlotCount(pages'[p + 1])
         /\ IsLiveSlot(pages'[p + 1], s) =>
              /\ IsLiveSlot(pages[p + 1], s)
              /\ ReadTuple(pages'[p + 1], s) = ReadTuple(pages[p + 1], s)]_vars

\* After a close that returned success the file holds every page, whole, as
\* the engine last saw it (close, heap_engine.cpp:35-44).
ClosedMeansStored == vouched => file = pages /\ torn = {}
=============================================================================
