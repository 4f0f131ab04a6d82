CONSTANT MaxDataBlocks = 80
SPECIFICATION Spec
INVARIANT PriorityWithinTable
INVARIANT OnlyFullSlabsAtZero
