-------------------------------- MODULE Arc ---------------------------------
(***************************************************************************)
(* ArcPolicy (src/storage/buffer/arc_policy.cpp) driven by the pool.  The  *)
(* policy's state is one record, and each of its calls a function from     *)
(* records to records, because a miss makes up to three calls in a row.    *)
(* The front of a list is its most recently used end.                      *)
(***************************************************************************)
EXTENDS EvictionPolicy, Sequences

Location == {"T1", "T2", "B1", "B2"}
NoLocation == "none"
NoFrame == -1

VARIABLE arc

\* reset
ArcInit ==
  /\ PoolInit
  /\ arc = [lists |-> [l \in Location |-> <<>>],
            locations |-> [p \in Page |-> NoLocation],
            resident_frames |-> [p \in Page |-> NoFrame],
            target_recent |-> 0,
            pending_b2_hit |-> FALSE]

Size(a, l) == Len(a.lists[l])

\* erase_page
ErasePage(list, p) ==
  LET at == {i \in 1 .. Len(list) : list[i] = p}
  IN IF at = {} THEN list
     ELSE SubSeq(list, 1, Min(at) - 1) \o SubSeq(list, Min(at) + 1, Len(list))

\* Mutant: the page is not taken out first.
PushFrontAgain(a, p, l) ==
  [a EXCEPT !.lists[l] = <<p>> \o @, !.locations[p] = l]

\* push_front_unique
PushFront(a, p, l) ==
  [a EXCEPT !.lists[l] = <<p>> \o ErasePage(@, p), !.locations[p] = l]

\* Page p leaves list "from" for the front of list "to".
Moved(a, p, from, to) ==
  PushFront([a EXCEPT !.lists[from] = ErasePage(@, p)], p, to)

RecordAccess(a, p, f) ==
  LET b == [a EXCEPT !.resident_frames[p] = f]
  IN CASE a.locations[p] = NoLocation -> PushFront(b, p, "T1")
       [] a.locations[p] = "T1" -> Moved(b, p, "T1", "T2")
       [] a.locations[p] = "T2" -> PushFront(b, p, "T2")
       [] OTHER -> b

\* A miss on a page remembered in B1 or B2 moves the target size of T1.
Delta(a, other, own) == Max({1, Size(a, other) \div Max({1, Size(a, own)})})

\* Mutant: the target is not capped at the capacity.
RecordMissUncapped(a, p) ==
  IF a.locations[p] = "B1"
  THEN [a EXCEPT !.target_recent = @ + Delta(a, "B2", "B1")] ELSE a

RecordMiss(a, p) ==
  LET b == [a EXCEPT !.pending_b2_hit = a.locations[p] = "B2"]
  IN CASE a.locations[p] = "B1" ->
            [b EXCEPT !.target_recent = Min({Capacity, @ + Delta(a, "B2", "B1")})]
       [] a.locations[p] = "B2" ->
            [b EXCEPT !.target_recent = Max({0, @ - Delta(a, "B1", "B2")})]
       [] OTHER -> b

(***************************************************************************)
(* prune_ghosts cuts B1 and B2 to Capacity pages each, and then the longer *)
(* of the two, B1 if they are equal, until both together fit.              *)
(***************************************************************************)
Balanced[n \in (0 .. Capacity) \X (0 .. Capacity)] ==
  IF n[1] + n[2] <= Capacity THEN n
  ELSE IF n[1] >= n[2] THEN Balanced[<<n[1] - 1, n[2]>>]
  ELSE Balanced[<<n[1], n[2] - 1>>]

PruneGhosts(a) ==
  LET kept == Balanced[<<Min({Capacity, Size(a, "B1")}),
                         Min({Capacity, Size(a, "B2")})>>]
      b1 == SubSeq(a.lists["B1"], 1, kept[1])
      b2 == SubSeq(a.lists["B2"], 1, kept[2])
      gone == {p \in Page : \/ p \in Range(a.lists["B1"]) \ Range(b1)
                            \/ p \in Range(a.lists["B2"]) \ Range(b2)}
  IN [a EXCEPT !.lists = [@ EXCEPT !["B1"] = b1, !["B2"] = b2],
               !.locations = [p \in Page |-> IF p \in gone THEN NoLocation
                                             ELSE @[p]]]

RecordLoad(a, p, f) ==
  LET b == [a EXCEPT !.resident_frames[p] = f]
  IN PruneGhosts(IF a.locations[p] \in {"B1", "B2"}
                 THEN Moved(b, p, a.locations[p], "T2")
                 ELSE PushFront(b, p, "T1"))

RecordEvict(a, p) ==
  LET b == [a EXCEPT !.resident_frames[p] = NoFrame]
  IN CASE a.locations[p] = NoLocation -> b
       [] a.locations[p] = "T1" -> PruneGhosts(Moved(b, p, "T1", "B1"))
       [] a.locations[p] = "T2" -> PruneGhosts(Moved(b, p, "T2", "B2"))
       [] OTHER -> PruneGhosts(b)

\* choose_from_lru, from the back: the frame, or NoFrame.
ChooseFromLru(a, l) ==
  LET usable == {i \in 1 .. Size(a, l) :
                   a.resident_frames[a.lists[l][i]] \in Evictable}
  IN IF usable = {} THEN NoFrame
     ELSE a.resident_frames[a.lists[l][Max(usable)]]

\* Mutant: no second try in T1 when T2 has nothing.
ChooseVictimOnce(a) ==
  IF Size(a, "T1") > a.target_recent THEN ChooseFromLru(a, "T1")
  ELSE ChooseFromLru(a, "T2")

ChooseVictim(a) ==
  LET recent == ChooseFromLru(a, "T1")
      frequent == ChooseFromLru(a, "T2")
      favourRecent == \/ Size(a, "T1") > a.target_recent
                      \/ a.pending_b2_hit /\ Size(a, "T1") = a.target_recent
  IN IF recent # NoFrame /\ (favourRecent \/ frequent = NoFrame)
     THEN recent ELSE frequent

(***************************************************************************)
(* The pool's calls.                                                       *)
(***************************************************************************)

ArcHit(f) ==
  /\ PoolHit(f)
  /\ arc' = RecordAccess(arc, resident[f], f)

ArcUnpin(f) ==
  /\ PoolUnpin(f)
  /\ UNCHANGED arc

ArcLoadUnused(p) ==
  /\ ~Asked
  /\ p \notin Resident
  /\ PoolLoad(Min(Invalid), p)
  /\ arc' = RecordLoad(RecordMiss(arc, p), p, Min(Invalid))

ArcEvict(p) ==
  LET missed == RecordMiss(arc, p)
      victim == ChooseVictim(missed)
  IN /\ Asked
     /\ p \notin Resident
     /\ victim # NoFrame
     /\ PoolLoad(victim, p)
     /\ arc' = RecordLoad(RecordEvict(missed, resident[victim]), p, victim)

\* BufferPoolFull, or the write-back or the read failed.
MissFails(p) ==
  /\ p \notin Resident
  /\ arc' = RecordMiss(arc, p)
  /\ UNCHANGED poolVars

ArcNext ==
  \/ \E f \in Frame : ArcHit(f) \/ ArcUnpin(f)
  \/ \E p \in Page : ArcLoadUnused(p) \/ ArcEvict(p) \/ MissFails(p)

(***************************************************************************)
(* Properties.                                                             *)
(***************************************************************************)

ArcTypeOK ==
  /\ PoolTypeOK
  /\ arc.lists \in [Location -> Seq(Page)]
  /\ arc.locations \in [Page -> Location \cup {NoLocation}]
  /\ arc.resident_frames \in [Page -> Frame \cup {NoFrame}]
  /\ arc.target_recent \in 0 .. Capacity
  /\ arc.pending_b2_hit \in BOOLEAN

\* The lists, the location map and the frame map stay one consistent picture
\* of the pool: every page is where its location says, once and nowhere else;
\* T1 and T2 together hold exactly the cached pages, each with its frame; and
\* there are never more ghosts than frames (arc_policy.cpp:55-141, 174-188).
ArcListsMatchPool ==
  /\ \A l \in Location, p \in Page :
       Cardinality({i \in 1 .. Size(arc, l) : arc.lists[l][i] = p}) =
         IF arc.locations[p] = l THEN 1 ELSE 0
  /\ \A p \in Page : p \in Resident <=> arc.locations[p] \in {"T1", "T2"}
  /\ \A f \in Frame, p \in Page :
       arc.resident_frames[p] = f <=> resident[f] = p
  /\ Size(arc, "B1") + Size(arc, "B2") <= Capacity

\* Whatever page is missed next, ARC names a victim exactly when some frame is
\* unpinned, and never a pinned one, however far the target has moved
\* (choose_victim, arc_policy.cpp:143-161).
ArcFullOnlyIfAllPinned ==
  Asked =>
    \A p \in Page \ Resident :
      LET victim == ChooseVictim(RecordMiss(arc, p))
      IN IF Evictable = {} THEN victim = NoFrame ELSE victim \in Evictable
=============================================================================
