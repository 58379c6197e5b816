-------------------------------- MODULE LruK --------------------------------
(***************************************************************************)
(* LruKPolicy (src/storage/buffer/lru_k_policy.cpp) driven by the pool.    *)
(* "log" is a history variable: every use of a page, hit or load, in       *)
(* order, so that the tick of a use is its position in the log.            *)
(***************************************************************************)
EXTENDS EvictionPolicy, Sequences

VARIABLES
  histories,   \* per page id: the ticks of its last K uses, oldest first;
               \* empty for a page the map has no entry for
  tick,
  log

lruVars == <<histories, tick, log>>

LruInit ==
  /\ PoolInit
  /\ histories = [p \in Page |-> <<>>]
  /\ tick = 0
  /\ log = <<>>

\* Mutant: the newest use is dropped.
TrimNewest(s) == IF Len(s) > K THEN SubSeq(s, 1, K) ELSE s

Trim(s) == IF Len(s) > K THEN SubSeq(s, Len(s) - K + 1, Len(s)) ELSE s

\* Mutant: the tick is read before it is advanced.
RecordOldTick(p) ==
  /\ tick' = tick + 1
  /\ histories' = [histories EXCEPT ![p] = Trim(Append(@, tick))]
  /\ log' = Append(log, p)

\* record_access and record_load
Record(p) ==
  /\ tick' = tick + 1
  /\ histories' = [histories EXCEPT ![p] = Trim(Append(@, tick'))]
  /\ log' = Append(log, p)

(***************************************************************************)
(* choose_victim: the first evictable frame whose page has no history,     *)
(* else one with less than K uses, else any; the oldest remembered use     *)
(* decides.                                                                *)
(***************************************************************************)
History(f) == histories[resident[f]]
HasFullHistory(f) == Len(History(f)) >= K

Before(f, g) ==
  \/ ~HasFullHistory(f) /\ HasFullHistory(g)
  \/ /\ HasFullHistory(f) <=> HasFullHistory(g)
     /\ Head(History(f)) < Head(History(g))

Unknown == {f \in Evictable : History(f) = <<>>}

Victim ==
  IF Unknown # {} THEN Min(Unknown)
  ELSE Min({f \in Evictable : \A g \in Evictable : ~Before(g, f)})

LruHit(f) ==
  /\ PoolHit(f)
  /\ Record(resident[f])

LruUnpin(f) ==
  /\ PoolUnpin(f)
  /\ UNCHANGED lruVars

LruLoadUnused(p) ==
  /\ ~Asked
  /\ p \notin Resident
  /\ PoolLoad(Min(Invalid), p)
  /\ Record(p)

\* record_evict keeps the history of the page that leaves.
LruEvict(p) ==
  /\ Asked
  /\ p \notin Resident
  /\ Evictable # {}
  /\ PoolLoad(Victim, p)
  /\ Record(p)

LruNext ==
  \/ \E f \in Frame : LruHit(f) \/ LruUnpin(f)
  \/ \E p \in Page : LruLoadUnused(p) \/ LruEvict(p)

(***************************************************************************)
(* Properties.                                                             *)
(***************************************************************************)

LruTypeOK ==
  /\ PoolTypeOK
  /\ histories \in [Page -> Seq(1 .. tick)]
  /\ tick \in Nat
  /\ log \in Seq(Page)

Uses(p) == {i \in 1 .. Len(log) : log[i] = p}

\* The last K uses of p, or all of them if there are fewer.
LastUses(p) == {i \in Uses(p) : Cardinality({j \in Uses(p) : j > i}) < K}

\* LRU-K over the whole past, evictions and reloads included: p goes before q.
LessUsed(p, q) ==
  \/ Cardinality(Uses(p)) < K /\ Cardinality(Uses(q)) >= K
  \/ /\ Cardinality(Uses(p)) < K <=> Cardinality(Uses(q)) < K
     /\ Min(LastUses(p)) < Min(LastUses(q))

\* A page that is evicted is the least used one, by its K-th last use ever, of
\* all the unpinned pages (lru_k_policy.cpp:43-86): what is remembered of a
\* page outlives its eviction, and trimming drops only uses that cannot count.
EvictsLeast ==
  \A f \in Frame :
    resident'[f] # resident[f] /\ resident[f] # NoPage
      => \A g \in Evictable \ {f} : LessUsed(resident[f], resident[g])
=============================================================================
