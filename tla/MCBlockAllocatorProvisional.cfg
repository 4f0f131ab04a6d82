CONSTANTS
  SlabCount = 2
  DataBlocks = 2
  MaxReferences = 1
  MaxDrains = 0
  NoSlab = NoSlab
  SlabImages <- MCImages
  LoadTypes <- MCLiveLoadTypes
SPECIFICATION Spec
INVARIANT
  AllocatedBlocksExcludeProvisional
