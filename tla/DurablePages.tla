---------------------------- MODULE DurablePages ----------------------------
(***************************************************************************)
(* What a page cache over a file promises its clients, with no cache in    *)
(* it: every page has one current value, and a set of values a crash may   *)
(* leave behind.  BufferPool is shown to implement this specification.     *)
(*                                                                         *)
(*   cur      the value a client reads from each page                      *)
(*   platter  the values a crash or an abandoned cache may leave there     *)
(*   busy     the pages a client is modifying and has not yet unpinned:    *)
(*            their change is not yet declared with the dirty flag         *)
(***************************************************************************)
CONSTANTS PageId, Data, Zero, Mixed

VARIABLES cur, platter, busy

vars == <<cur, platter, busy>>

Init ==
  /\ cur = [p \in PageId |-> Zero]
  /\ platter = [p \in PageId |-> {Zero}]
  /\ busy = {}

\* Nothing but a page's current value, or a partly written one, is ever
\* written over what may survive.
Spilled ==
  /\ platter' \in [PageId -> SUBSET Data]
  /\ \A p \in PageId :
       /\ platter[p] \subseteq platter'[p]
       /\ platter'[p] \subseteq platter[p] \cup {cur[p], Mixed}

Write(p, d) ==
  /\ cur' = [cur EXCEPT ![p] = d]
  /\ busy' = busy \cup {p}
  /\ UNCHANGED platter

\* One of the clients modifying p declares its change; another may be left.
Declare(p) ==
  /\ busy' \in {busy, busy \ {p}}
  /\ UNCHANGED <<cur, platter>>

Blank(p) ==
  /\ cur' = [cur EXCEPT ![p] = Zero]
  /\ Spilled
  /\ UNCHANGED busy

Spill ==
  /\ Spilled
  /\ UNCHANGED <<cur, busy>>

\* A successful flush_all or close: only the current value of a page can
\* survive from now on, unless a client is in the middle of changing it.
Checkpoint ==
  /\ platter' \in [PageId -> SUBSET Data]
  /\ \A p \in PageId :
       \E v \in platter[p] \cup {cur[p]} :
         /\ platter'[p] = {v}
         /\ p \notin busy => v = cur[p]
  /\ UNCHANGED <<cur, busy>>

\* A crash, or a pool destroyed without close.
Lose ==
  /\ cur' \in [PageId -> Data]
  /\ platter' \in [PageId -> SUBSET Data]
  /\ \A p \in PageId :
       /\ cur'[p] \in platter'[p]
       /\ platter'[p] \subseteq platter[p]
  /\ busy' = {}

Next ==
  \/ \E p \in PageId, d \in Data : Write(p, d)
  \/ \E p \in PageId : Declare(p) \/ Blank(p)
  \/ Spill
  \/ Checkpoint
  \/ Lose

Spec == Init /\ [][Next]_vars
=============================================================================
