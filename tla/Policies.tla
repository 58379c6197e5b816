------------------------------ MODULE Policies ------------------------------
(***************************************************************************)
(* A pool under the eviction policy its configuration names                *)
(* (src/storage/buffer/eviction_policy.cpp): the three policies side by    *)
(* side, of which only the configured one is called.                       *)
(***************************************************************************)
EXTENDS ClockSweep, LruK, Arc

VARIABLE kind   \* config.kind

vars == <<poolVars, kind, clockVars, lruVars, arc>>

\* make_eviction_policy
Init ==
  /\ kind \in {"ClockSweep", "LruK", "Arc"}
  /\ ClockInit
  /\ LruInit
  /\ ArcInit

ClockStep ==
  /\ kind = "ClockSweep"
  /\ ClockNext
  /\ UNCHANGED <<kind, lruVars, arc>>

LruStep ==
  /\ kind = "LruK"
  /\ LruNext
  /\ UNCHANGED <<kind, clockVars, arc>>

ArcStep ==
  /\ kind = "Arc"
  /\ ArcNext
  /\ UNCHANGED <<kind, clockVars, lruVars>>

Next == ClockStep \/ LruStep \/ ArcStep

Spec == Init /\ [][Next]_vars

(***************************************************************************)
(* Properties.                                                             *)
(***************************************************************************)

TypeOK == ClockTypeOK /\ LruTypeOK /\ ArcTypeOK

\* Whatever policy is configured and whatever it has been told so far, fetch
\* returns BufferPoolFull exactly when every frame is pinned, and the victim is
\* never a pinned frame (choose_victim of the policies that may give up,
\* clock_sweep_policy.cpp:42-61 and arc_policy.cpp:143-161).
FullOnlyIfAllPinned ==
  /\ kind = "ClockSweep" => ClockFullOnlyIfAllPinned
  /\ kind = "Arc" => ArcFullOnlyIfAllPinned

\* Clock-sweep: a page used since the hand passed it is only evicted when all
\* unpinned pages were used (clock_sweep_policy.cpp:51-56).
SecondChance == [][kind = "ClockSweep" => SparesUsedPage]_vars

\* LRU-K: the victim is the least used page by its K-th last use ever
\* (lru_k_policy.cpp:43-86).
EvictsLeastUsed == [][kind = "LruK" => EvictsLeast]_vars

\* ARC: the lists, the location map and the frame map stay one consistent
\* picture of the pool (arc_policy.cpp:55-141, 174-188).
ListsMatchPool == kind = "Arc" => ArcListsMatchPool
=============================================================================
