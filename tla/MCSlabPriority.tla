--------------------------- MODULE MCSlabPriority ---------------------------
(***************************************************************************)
(* Checks the slab priority policy over every slab size up to MaxDataBlocks *)
(* data blocks, every free block count and both journal states.  The      *)
(* "state" is one input triple; Next stutters, so every reachable state is *)
(* one input checked against the invariants.                               *)
(***************************************************************************)
EXTENDS Naturals, SlabPriority

CONSTANT MaxDataBlocks   \* largest slab (in data blocks) enumerated

ASSUME MaxDataBlocks \in Nat /\ MaxDataBlocks >= 2

VARIABLES dataBlocks, freeBlocks, blank

vars == <<dataBlocks, freeBlocks, blank>>

Init ==
  /\ dataBlocks \in 2 .. MaxDataBlocks
  /\ freeBlocks \in 0 .. dataBlocks
  /\ blank \in BOOLEAN

Next == UNCHANGED vars

Spec == Init /\ [][Next]_vars

Priority == CalculateSlabPriority(freeBlocks, blank, dataBlocks)

(* calculate_slab_priority never yields a bucket the priority table made *)
(* in allocate_components does not have: the largest value, a written    *)
(* slab with every block free, must land exactly on max_priority.        *)
PriorityWithinTable == Priority \in 0 .. MaxPriority(dataBlocks)

(* The comment of calculate_slab_priority: slabs that are completely full *)
(* must be the only ones with priority zero, including a blank-journal    *)
(* slab whose blocks are all provisionally allocated.                     *)
OnlyFullSlabsAtZero == (Priority = 0) <=> (freeBlocks = 0)

=============================================================================
