---------------------------- MODULE SlabPriority ----------------------------
(***************************************************************************)
(* The slab priority policy of the block allocator                         *)
(* (src/vdo/block-allocator.c: calculate_slab_priority and the priority    *)
(* bounds fixed in allocate_components).  Pure operators over the number   *)
(* of data blocks in a slab, the slab's free block count and whether its   *)
(* slab journal is blank.                                                  *)
(***************************************************************************)
LOCAL INSTANCE Naturals

(* log_base_two() of num-utils.h: the floor of the base-2 logarithm.  The  *)
(* header is not part of this tree; the spec (4.7) defines the policy with *)
(* floor(log2(F)), and zero maps to zero.                                  *)
RECURSIVE LogBaseTwo(_)

LogBaseTwo(n) == IF n <= 1 THEN 0 ELSE 1 + LogBaseTwo(n \div 2)

(* allocate_components: the priority table is made with                    *)
(* max_priority = 2 + log_base_two(data_blocks), i.e. buckets              *)
(* 0 .. max_priority.                                                      *)
(* A variant without the bucket above 1 + log2(data_blocks). *)
MaxPriorityWithoutTop(dataBlocks) == 1 + LogBaseTwo(dataBlocks)

MaxPriority(dataBlocks) == 2 + LogBaseTwo(dataBlocks)

(* allocate_components: the bucket reserved for never-opened slabs.        *)
UnopenedSlabPriority(dataBlocks) == 1 + LogBaseTwo((dataBlocks * 3) \div 4)

(* calculate_slab_priority: full slabs alone get 0, blank slabs get the    *)
(* unopened priority, all others 1 + log2(free), stepping over the         *)
(* unopened bucket.                                                        *)
(* A variant: the blank-journal test made before the full-slab test.    *)
CalculateSlabPriorityBlankFirst(freeBlocks, blank, dataBlocks) ==
  LET priority == 1 + LogBaseTwo(freeBlocks)
      unopened == UnopenedSlabPriority(dataBlocks)
  IN  CASE blank          -> unopened
        [] freeBlocks = 0 -> 0
        [] OTHER          -> IF priority < unopened THEN priority
                                                    ELSE priority + 1

CalculateSlabPriority(freeBlocks, blank, dataBlocks) ==
  LET unopened == UnopenedSlabPriority(dataBlocks)
      priority == 1 + LogBaseTwo(freeBlocks)
  IN  CASE freeBlocks = 0 -> 0
        [] blank          -> unopened
        [] OTHER          -> IF priority < unopened THEN priority
                                                    ELSE priority + 1
=============================================================================
