----------------------------- MODULE ClockSweep -----------------------------
(***************************************************************************)
(* ClockSweepPolicy (src/storage/buffer/clock_sweep_policy.cpp) driven by  *)
(* the pool.  "waited" is a history variable: how many victims have been   *)
(* chosen in vain for a frame that could have been one, since its page was *)
(* last used.                                                              *)
(***************************************************************************)
EXTENDS EvictionPolicy

VARIABLES
  referenced,   \* a bit per frame
  clock_hand,
  waited

clockVars == <<referenced, clock_hand, waited>>

ClockInit ==
  /\ PoolInit
  /\ referenced = [f \in Frame |-> FALSE]
  /\ clock_hand = 0
  /\ waited = [f \in Frame |-> 0]

(***************************************************************************)
(* choose_victim looks at up to 2 * Capacity frames from the hand on.  It  *)
(* clears the bit of an evictable frame it finds referenced, so it stops   *)
(* at scan s if the bit was clear, or if this is its second look.          *)
(***************************************************************************)

Scanned(s) == (clock_hand + s) % Capacity

\* Mutant: only the first frame looked at has its second chance.
StopsAtSecond(s) ==
  /\ Scanned(s) \in Evictable
  /\ referenced[Scanned(s)] => s >= 1

Stops(s) ==
  /\ Scanned(s) \in Evictable
  /\ referenced[Scanned(s)] => s >= Capacity

\* Mutant: one turn of the hand only.
StoppingInOneTurn == {s \in 0 .. Capacity - 1 : Stops(s)}

Stopping == {s \in 0 .. 2 * Capacity - 1 : Stops(s)}

Swept(s) ==
  [f \in Frame |-> /\ referenced[f]
                   /\ \A r \in 0 .. s - 1 : Scanned(r) = f => f \notin Evictable]

\* Mutant: the hand stays on the victim.
HandOnVictim(s) == Scanned(s)

\* Mutant: the hand does not wrap.
UnwrappedHand(s) == Scanned(s) + 1

HandAfter(s) == Scanned(s + 1)

ClockHit(f) ==
  /\ PoolHit(f)
  /\ referenced' = [referenced EXCEPT ![f] = TRUE]
  /\ waited' = [waited EXCEPT ![f] = 0]
  /\ UNCHANGED clock_hand

ClockUnpin(f) ==
  /\ PoolUnpin(f)
  /\ UNCHANGED clockVars

\* A miss while some frame is unused; a failed load changes nothing.
ClockLoadUnused(p) ==
  /\ ~Asked
  /\ p \notin Resident
  /\ PoolLoad(Min(Invalid), p)
  /\ referenced' = [referenced EXCEPT ![Min(Invalid)] = TRUE]
  /\ UNCHANGED <<clock_hand, waited>>

\* A miss that evicts: record_evict clears the victim's bit and record_load
\* sets it; when the load fails the hand has moved all the same.  With no
\* scan to stop at, fetch returns BufferPoolFull and nothing has changed.
ClockEvict(p) ==
  /\ Asked
  /\ p \notin Resident
  /\ Stopping # {}
  /\ LET scans == Min(Stopping)
         victim == Scanned(scans)
     IN /\ clock_hand' = HandAfter(scans)
        /\ waited' = [f \in Frame |-> IF f \in Evictable \ {victim}
                                      THEN waited[f] + 1 ELSE 0]
        /\ \/ /\ PoolLoad(victim, p)
              /\ referenced' = [Swept(scans) EXCEPT ![victim] = TRUE]
           \/ /\ UNCHANGED poolVars
              /\ referenced' = Swept(scans)

ClockNext ==
  \/ \E f \in Frame : ClockHit(f) \/ ClockUnpin(f)
  \/ \E p \in Page : ClockLoadUnused(p) \/ ClockEvict(p)

(***************************************************************************)
(* Properties.                                                             *)
(***************************************************************************)

ClockTypeOK ==
  /\ PoolTypeOK
  /\ referenced \in [Frame -> BOOLEAN]
  /\ clock_hand \in Frame
  /\ waited \in [Frame -> Nat]

\* BufferPoolFull is the answer exactly when every frame is pinned: two turns
\* of the hand (clock_sweep_policy.cpp:47-59) are enough to find an unpinned
\* frame however the bits are set, and never stop at a pinned one.
ClockFullOnlyIfAllPinned == Asked => (Stopping = {} <=> Evictable = {})

\* An unpinned page that nobody uses is a victim after at most
\* 2 * (Capacity - 1) choices of another, whatever the others do: no idle page
\* stays cached for ever (clock_sweep_policy.cpp:42-61).
IdlePagesLeave == \A f \in Frame : waited[f] <= 2 * (Capacity - 1)

\* A page used since the hand last passed it is only evicted when every
\* unpinned page was (the second chance, clock_sweep_policy.cpp:51-56).
SparesUsedPage ==
  \A f \in Frame :
    resident'[f] # resident[f] /\ resident[f] # NoPage /\ referenced[f]
      => \A g \in Evictable : referenced[g]
=============================================================================
