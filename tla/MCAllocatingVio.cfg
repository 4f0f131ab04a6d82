\* Two vios allocating across two zones whose scrubbers each have one slab
\* of one block to give: every order of requests, scrubber answers and
\* zone hand-offs, and every request finishing under weak fairness.
CONSTANTS
  ZoneCount = 2
  Vios = {v1, v2}
  SlabBlocks = 1
  MaxUsed = 1
  MaxSlabsToScrub = 1
SPECIFICATION Spec
INVARIANTS
  TypeOK
  WaitingVioQueuedOnce
  NoSpaceMeansEveryScrubberAsked
PROPERTIES
  EveryAllocationFinishes
