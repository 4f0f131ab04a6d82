\* Two slabs of two blocks from every image under every load type, one
\* reference per block, one drain.
CONSTANTS
  SlabCount = 2
  DataBlocks = 2
  MaxReferences = 1
  MaxDrains = 1
  NoSlab = NoSlab
  SlabImages <- MCImages
  LoadTypes <- MCLoadTypes
SPECIFICATION Spec
INVARIANTS
  TypeOK
  SlabInExactlyOnePlace
  AllocatedBlocksAccurate
  QueuedPriorityIsCurrent
  OpenSlabAvailable
  NoSpaceOnlyWhenFull
  DrainReportsErrors
