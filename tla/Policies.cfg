\* Three frames for six pages: pages are evicted, remembered, forgotten and
\* loaded again, the target of ARC goes all the way up and down, and the hand
\* passes pinned, referenced and idle pages in one sweep.
SPECIFICATION Spec
CONSTANTS
  Capacity = 3
  Page = {p1, p2, p3, p4, p5, p6}
  NoPage = none
  MaxPins = 2
  K = 2
  MaxTick = 8
SYMMETRY PageSymmetry
CONSTRAINT FewUses
INVARIANTS TypeOK FullOnlyIfAllPinned IdlePagesLeave ListsMatchPool
PROPERTIES SecondChance EvictsLeastUsed
