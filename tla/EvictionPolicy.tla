--------------------------- MODULE EvictionPolicy ---------------------------
(***************************************************************************)
(* The BufferPool as its eviction policy sees it (eviction_policy.hpp):    *)
(* which page each frame holds and which frames are pinned.  The pool owns *)
(* this state; a policy keeps its own and only names victims.  ClockSweep, *)
(* LruK and Arc extend this module, and Policies puts them side by side.   *)
(*                                                                         *)
(* A miss takes several steps inside fetch, any of which may fail:         *)
(* record_miss, choose_victim, write-back and read, record_evict,          *)
(* record_load.  A policy therefore also sees misses and choices of a      *)
(* victim that no load follows.                                            *)
(***************************************************************************)
EXTENDS Integers, FiniteSetsExt

CONSTANTS
  Capacity,   \* number of frames
  Page,       \* page ids
  NoPage,     \* the content of an invalid frame
  K,          \* lru_k_history, which only LruK looks at
  MaxPins     \* bound on the pins of a frame

ASSUME CapacityAssumption == Capacity \in Nat \ {0}
ASSUME NoPageAssumption == NoPage \notin Page
ASSUME KAssumption == K \in Nat
ASSUME MaxPinsAssumption == MaxPins \in Nat \ {0}

Frame == 0 .. Capacity - 1

VARIABLES
  resident,   \* the page in each frame
  pins        \* the pin count of each frame

poolVars == <<resident, pins>>

PoolTypeOK ==
  /\ resident \in [Frame -> Page \cup {NoPage}]
  /\ pins \in [Frame -> 0 .. MaxPins]

PoolInit ==
  /\ resident = [f \in Frame |-> NoPage]
  /\ pins = [f \in Frame |-> 0]

Resident == {p \in Page : \E f \in Frame : resident[f] = p}
Invalid == {f \in Frame : resident[f] = NoPage}

\* detail::is_evictable
Evictable == {f \in Frame : resident[f] # NoPage /\ pins[f] = 0}

\* The policy is only asked for a victim when no frame is unused.
Asked == Invalid = {}

\* fetch or fetch_new of a cached page.
PoolHit(f) ==
  /\ resident[f] # NoPage
  /\ pins[f] < MaxPins
  /\ pins' = [pins EXCEPT ![f] = @ + 1]
  /\ UNCHANGED resident

PoolUnpin(f) ==
  /\ pins[f] > 0
  /\ pins' = [pins EXCEPT ![f] = @ - 1]
  /\ UNCHANGED resident

\* Page p is loaded into frame f, over the page that was there.
PoolLoad(f, p) ==
  /\ resident' = [resident EXCEPT ![f] = p]
  /\ pins' = [pins EXCEPT ![f] = 1]
=============================================================================
