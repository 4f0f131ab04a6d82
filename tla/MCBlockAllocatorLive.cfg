\* Two slabs, each never written or dirty without needing scrubbing, after
\* a normal load, up to two references per block, one drain: the scrubber
\* must recover every slab.
CONSTANTS
  SlabCount = 2
  DataBlocks = 2
  MaxReferences = 2
  MaxDrains = 1
  NoSlab = NoSlab
  SlabImages <- MCLiveImages
  LoadTypes <- MCLiveLoadTypes
SPECIFICATION Spec
PROPERTIES
  AllSlabsEventuallyRecovered
