----------------------------- MODULE SlabDepot -----------------------------
(***************************************************************************)
(* The slab depot's partition of slabs among the zones' allocators, and    *)
(* its growth (spec 4.8).  Slab s belongs to zone s % ZoneCount.  Each     *)
(* allocator keeps only a count of its slabs and the number of its last    *)
(* one (vdo_register_slab_with_allocator); it walks its slabs from         *)
(* last_slab down in strides of zone_count (get_slab_iterator).            *)
(*                                                                         *)
(* Growth: prepare_to_grow sets up new_slabs; use_new_slabs runs the zone  *)
(* action vdo_register_new_slabs_for_allocator on each zone in turn (one   *)
(* zone at a time, spec 4.8) and then promotes new_slabs to slabs;         *)
(* abandon_new_slabs discards them.  slab-depot.c is not in this tree:     *)
(* those three steps follow the spec; the per-zone registration follows    *)
(* block-allocator.c.                                                      *)
(***************************************************************************)
EXTENDS Naturals, FiniteSets
LOCAL FS == INSTANCE FiniteSetsExt
LOCAL SX == INSTANCE SequencesExt

CONSTANTS
  ZoneCount,     \* depot->zone_count
  InitialSlabs,  \* slabs at load
  MaxSlabs       \* bound on the slabs growth may reach

Zones == 0 .. ZoneCount - 1
NoAction == ZoneCount + 1   \* no zone action in progress (ZoneCount: the
                            \* last zone is done, the conclusion is next)

ZoneOf(s) == s % ZoneCount

VARIABLES
  slabCount,     \* depot->slab_count
  newSlabCount,  \* depot->new_slab_count; 0 when no growth is prepared
  allocSlabs,    \* zone -> allocator->slab_count
  lastSlab,      \* zone -> allocator->last_slab
  actionZone,    \* the zone use_new_slabs's registration is at, or NoAction
  readOnly,      \* the read-only notifier has entered read-only mode
  notified,      \* zones whose allocator has been notified of it
  strayVisits    \* slab numbers a notification visited beyond depot->slabs

vars == <<slabCount, newSlabCount, allocSlabs, lastSlab, actionZone,
          readOnly, notified, strayVisits>>
notifierVars == <<readOnly, notified, strayVisits>>

(* The slabs of zone z among the first n. *)
SlabsOfZone(z, n) == {s \in 0 .. n - 1 : ZoneOf(s) = z}

(* vdo_register_slab_with_allocator: count the slab, remember it as last. *)
RegisterSlabWithAllocator(alloc, s) ==
  [count |-> alloc.count + 1, last |-> s]

(* Decode: every slab registered with its zone's allocator, in order. *)
Init ==
  /\ slabCount = InitialSlabs
  /\ newSlabCount = 0
  /\ allocSlabs = [z \in Zones |-> Cardinality(SlabsOfZone(z, InitialSlabs))]
  /\ lastSlab = [z \in Zones |->
                   IF SlabsOfZone(z, InitialSlabs) = {} THEN 0
                   ELSE FS!Max(SlabsOfZone(z, InitialSlabs))]
  /\ actionZone = NoAction
  /\ readOnly = FALSE
  /\ notified = {}
  /\ strayVisits = {}

(* vdo_prepare_to_grow_slab_depot: allocate new_slabs for a larger size. *)
PrepareToGrow(n) ==
  /\ actionZone = NoAction
  /\ newSlabCount = 0
  /\ slabCount < n
  /\ newSlabCount' = n
  /\ UNCHANGED <<slabCount, allocSlabs, lastSlab, actionZone, notifierVars>>

(* vdo_abandon_new_slabs *)
AbandonNewSlabs ==
  /\ actionZone = NoAction
  /\ newSlabCount > 0
  /\ newSlabCount' = 0
  /\ UNCHANGED <<slabCount, allocSlabs, lastSlab, actionZone, notifierVars>>

(* vdo_use_new_slabs: schedule the registration on every zone. *)
UseNewSlabs ==
  /\ actionZone = NoAction
  /\ newSlabCount > 0
  /\ actionZone' = 0
  /\ UNCHANGED <<slabCount, newSlabCount, allocSlabs, lastSlab, notifierVars>>

(* Zone z registers, in increasing order, the slabs of `range` it owns.  *)
RegisterRange(z, range) ==
  LET reg == SX!FoldLeft(LAMBDA a, i : RegisterSlabWithAllocator(a, i),
                         [count |-> allocSlabs[z], last |-> lastSlab[z]],
                         SX!SetToSortSeq({i \in range : ZoneOf(i) = z}, <))
  IN  /\ allocSlabs' = [allocSlabs EXCEPT ![z] = reg.count]
      /\ lastSlab' = [lastSlab EXCEPT ![z] = reg.last]

(* A registration that starts from slab 0 instead of slab_count. *)
RegisterNewSlabsFromZero(z) ==
  /\ actionZone = z
  /\ RegisterRange(z, 0 .. newSlabCount - 1)
  /\ actionZone' = z + 1
  /\ UNCHANGED <<slabCount, newSlabCount, notifierVars>>

(* vdo_register_new_slabs_for_allocator on zone z: register the new slabs *)
(* (slab_count .. new_slab_count - 1) whose allocator is z's, then hand   *)
(* the action on to the next zone.                                        *)
RegisterNewSlabsForAllocator(z) ==
  /\ actionZone = z
  /\ RegisterRange(z, slabCount .. newSlabCount - 1)
  /\ actionZone' = z + 1
  /\ UNCHANGED <<slabCount, newSlabCount, notifierVars>>

(* The conclusion of use_new_slabs once the last zone is done: new_slabs  *)
(* become the depot's slabs.                                               *)
FinishRegistration ==
  /\ actionZone = ZoneCount
  /\ actionZone' = NoAction
  /\ slabCount' = newSlabCount
  /\ newSlabCount' = 0
  /\ UNCHANGED <<allocSlabs, lastSlab, notifierVars>>

(* get_slab_iterator: the slabs from last_slab down to the zone number in  *)
(* strides of zone_count; none when last_slab is below the zone number    *)
(* (vdo_iterate_slabs, slab-iterator.h, not in this tree).                 *)
SlabIterator(z) ==
  IF lastSlab[z] < z THEN {}
  ELSE {lastSlab[z] - k * ZoneCount : k \in 0 .. (lastSlab[z] - z) \div ZoneCount}

(* Some thread enters read-only mode (an I/O error or an inconsistency     *)
(* anywhere in the VDO); the mode is sticky.                               *)
EnterReadOnlyMode ==
  /\ ~readOnly
  /\ readOnly' = TRUE
  /\ UNCHANGED <<slabCount, newSlabCount, allocSlabs, lastSlab, actionZone,
                 notified, strayVisits>>

(* notify_block_allocator_of_read_only_mode, run by the notifier once on   *)
(* each allocator's thread: walk the allocator's slabs with               *)
(* get_slab_iterator, which indexes depot->slabs (slab_count entries),     *)
(* and abort each slab journal's waiters; then complete the notification. *)
(* A zone's thread is free between zone actions, so the notification may  *)
(* run while use_new_slabs is registering another zone.                   *)
NotifyBlockAllocatorOfReadOnlyMode(z) ==
  /\ readOnly
  /\ z \notin notified
  /\ notified' = notified \cup {z}
  /\ strayVisits' = strayVisits \cup {s \in SlabIterator(z) : s >= slabCount}
  /\ UNCHANGED <<slabCount, newSlabCount, allocSlabs, lastSlab, actionZone,
                 readOnly>>

Next ==
  \/ \E n \in 1 .. MaxSlabs : PrepareToGrow(n)
  \/ AbandonNewSlabs
  \/ UseNewSlabs
  \/ \E z \in Zones : RegisterNewSlabsForAllocator(z)
  \/ FinishRegistration
  \/ EnterReadOnlyMode
  \/ \E z \in Zones : NotifyBlockAllocatorOfReadOnlyMode(z)

Spec == Init /\ [][Next]_vars

-----------------------------------------------------------------------------
(* Between zone actions, every allocator counts exactly the depot's slabs *)
(* of its zone, and its slab iterator (used by drain, resume and the      *)
(* read-only notification) visits exactly those: across loads and any     *)
(* number of growths, some abandoned, the per-zone registration of new    *)
(* slabs neither misses one nor registers an old one again (spec 3.4:     *)
(* every slab is owned by exactly one zone).                              *)
ZonesOwnTheirSlabs ==
  actionZone = NoAction =>
    \A z \in Zones :
      /\ allocSlabs[z] = Cardinality(SlabsOfZone(z, slabCount))
      /\ SlabIterator(z) = SlabsOfZone(z, slabCount)

(* The read-only notification walks only slabs that depot->slabs holds:   *)
(* whenever it runs on an allocator's thread, even in the middle of       *)
(* use_new_slabs, get_slab_iterator starts at a last_slab below           *)
(* depot->slab_count.                                                      *)
NotificationStaysInSlabArray == strayVisits = {}
=============================================================================
